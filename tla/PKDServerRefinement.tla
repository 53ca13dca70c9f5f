------------------------- MODULE PKDServerRefinement -------------------------
(***************************************************************************)
(* PKDServer implements Directory, for every instance: what the concurrent *)
(* requests do to the tables is, account by account, one published message *)
(* taking effect as a whole.                                               *)
(***************************************************************************)
EXTENDS PKDServerDirectory, PKDServerPromises, FiniteSetTheorems, WellFoundedInduction

\* The live rows of actor row r that hold key k.
LiveRows(r, k) ==
    {i \in DOMAIN public_keys : /\ public_keys[i].actor_id = r
                                /\ public_keys[i].public_key = k
                                /\ public_keys[i].revoke_root = NoRoot}

\* The account of actor row r.
AccountOf(r) ==
    [keys |-> [k \in Keys |-> Cardinality(LiveRows(r, k))],
     fireproof |-> actors[r].is_fireproof]

\* An account is that of the row with its name, and absent without one.
AccountsByRow ==
    /\ \A r \in DOMAIN actors : /\ actors[r].actor_id \in Actors
                                /\ accounts[actors[r].actor_id] = AccountOf(r)
                                /\ AccountOf(r) \in D!Account
    /\ \A a \in Actors : (\A r \in DOMAIN actors : actors[r].actor_id # a) => accounts[a] = Absent

LEMMA UniqueID ==
    ASSUME NEW table, NEW i \in DOMAIN table,
           \A j, k \in DOMAIN table : table[j].actor_id = table[k].actor_id => j = k
    PROVE  ActorID(table, table[i].actor_id) = i
BY DEF ActorID

LEMMA LiveRowsFinite ==
    ASSUME TypeInv, NEW r, NEW k
    PROVE  IsFiniteSet(LiveRows(r, k)) /\ Cardinality(LiveRows(r, k)) \in Nat
<1>1. LiveRows(r, k) \in SUBSET (1..Len(public_keys)) /\ Len(public_keys) \in Nat
  BY Numbers DEF LiveRows
<1>2. IsFiniteSet(1..Len(public_keys))
  BY <1>1, FS_Interval
<1>3. IsFiniteSet(LiveRows(r, k))
  BY <1>1, <1>2, FS_Subset
<1> QED
  BY <1>3, FS_CardinalityType

LEMMA Represented == TypeInv /\ ActorNamesUnique => AccountsByRow
<1> SUFFICES ASSUME TypeInv, ActorNamesUnique PROVE AccountsByRow
  OBVIOUS
<1>1. \A i \in DOMAIN actors : actors[i] \in ActorRow
  BY DEF TypeInv, TypeOK
<1>2. ASSUME NEW r \in DOMAIN actors
      PROVE  /\ actors[r].actor_id \in Actors
             /\ accounts[actors[r].actor_id] = AccountOf(r)
             /\ AccountOf(r) \in D!Account
  <2> DEFINE a == actors[r].actor_id
  <2>1. a \in Actors /\ actors[r].is_fireproof \in BOOLEAN
    BY <1>1 DEF ActorRow
  <2>2. ActorExists(a) /\ ActorID(actors, a) = r
    BY UniqueID DEF ActorExists, ActorNamesUnique
  <2>3. \A i \in DOMAIN public_keys :
          actors[public_keys[i].actor_id].actor_id = a <=> public_keys[i].actor_id = r
    BY DEF ActorNamesUnique, TypeInv, TypeOK
  <2> HIDE DEF a
  <2>4. \A k : FindKeyToRevoke(a, k) = LiveRows(r, k)
    BY <2>3 DEF FindKeyToRevoke, ListKeysForActor, LiveRows
  <2>5. accounts[a] = AccountOf(r)
    BY <2>1, <2>2, <2>4 DEF accounts, AccountOf
  <2>6. AccountOf(r) \in D!Account
    BY <2>1, LiveRowsFinite DEF AccountOf, D!Account
  <2> QED
    BY <2>1, <2>5, <2>6 DEF a
<1>3. ASSUME NEW a \in Actors, \A r \in DOMAIN actors : actors[r].actor_id # a
      PROVE  accounts[a] = Absent
  BY <1>3 DEF accounts, ActorExists
<1> QED
  BY <1>2, <1>3 DEF AccountsByRow

LEMMA RepresentedNext == (TypeInv /\ ActorNamesUnique => AccountsByRow)'
BY Represented, PTL

-----------------------------------------------------------------------------
(* The pending messages.                                                     *)

\* What the mapping rests on; the rest of IndInv is not needed.
MapInv == TypeInv /\ ActorNamesUnique /\ RootsFresh

LEMMA Mapped == ASSUME IndInv PROVE MapInv
BY DEF IndInv, MapInv, RequestInv

LEMMA MappedNext == ASSUME IndInv' PROVE MapInv'
BY DEF IndInv, MapInv, RequestInv

MsgsAllowed == \A s \in Slots : pc[s] # "idle" => msg[s] \in Messages

\* A request that ends gives up its message, if it was published at all.
LEMMA FinishPending ==
    ASSUME MapInv, NEW s \in Slots, Finish(s)
    PROVE  pending' = IF pc[s] = "logged" THEN pending \ {root[s]} ELSE pending
<1>1. \A t \in Slots : t # s => pc'[t] = pc[t] /\ root'[t] = root[t]
  BY DEF Finish, MapInv, TypeInv, TypeOK
<1>2. pc'[s] = "idle"
  BY DEF Finish, MapInv, TypeInv, TypeOK
<1>3. \A t \in Slots : pc[t] = "logged" /\ pc[s] = "logged" /\ t # s => root[t] # root[s]
  BY DEF MapInv, RootsFresh
<1> QED
  BY <1>1, <1>2, <1>3 DEF pending

\* What leaves actors and keys alone leaves every account alone.
LEMMA AccountsFrame ==
    ASSUME UNCHANGED <<actors, public_keys>>
    PROVE  accounts' = accounts
BY DEF accounts, ActorExists, FindKeyToRevoke, ListKeysForActor

LEMMA AbandonStep ==
    ASSUME MapInv, UNCHANGED <<database, log>>, Crash \/ \E s \in Slots : Finish(s)
    PROVE  D!Abandon
<1>1. UNCHANGED accounts
  BY AccountsFrame DEF database
<1>2. CASE Crash
  <2>1. pending' = {}
    BY <1>2 DEF Crash, pending
  <2> QED
    BY <1>1, <2>1 DEF D!Abandon
<1>3. CASE \E s \in Slots : Finish(s)
  BY <1>1, <1>3, FinishPending DEF D!Abandon
<1> QED
  BY <1>2, <1>3

LEMMA PublishStep ==
    ASSUME MapInv, MsgsAllowed, NEW s \in Slots, SubmitMessage(s) \/ SubmitUnanswered(s)
    PROVE  D!Publish(msg[s]) /\ msg[s] \in Messages
<1>1. UNCHANGED accounts
  BY AccountsFrame DEF SubmitMessage, SubmitUnanswered, database
<1>2. msg[s] \in Messages /\ pc[s] = "validated" /\ log' = Append(log, msg[s])
  BY DEF MsgsAllowed, SubmitMessage, SubmitUnanswered
<1>3. CASE SubmitMessage(s)
  <2> DEFINE r == Len(log')
  <2>1. pc' = [pc EXCEPT ![s] = "logged"] /\ root' = [root EXCEPT ![s] = r]
    BY <1>3 DEF SubmitMessage
  <2> HIDE DEF r
  <2>2. pending' = pending \cup {r}
    BY <1>2, <2>1 DEF pending, MapInv, TypeInv, TypeOK
  <2> QED
    BY <1>1, <1>2, <2>2 DEF D!Publish, r
<1>4. CASE SubmitUnanswered(s)
  <2>1. pending' = pending
    BY <1>2, <1>4, FinishPending DEF SubmitUnanswered
  <2> QED
    BY <1>1, <1>2, <2>1 DEF D!Publish
<1> QED
  BY <1>3, <1>4

\* Accepting a message or failing to submit it is not visible in the directory.
LEMMA InvisibleStep ==
    ASSUME MapInv, NEW s \in Slots, Validate(s) \/ SubmitRefused(s)
    PROVE  UNCHANGED D!vars
<1>1. CASE Validate(s)
  <2>1. PICK m \in Messages : Accept(s, m)
    BY <1>1, ValidateAccepts
  <2>2. UNCHANGED accounts /\ UNCHANGED log
    BY <2>1, AccountsFrame DEF Accept, database
  <2>3. UNCHANGED pending
    BY <2>1 DEF Accept, pending, MapInv, TypeInv, TypeOK
  <2> QED
    BY <2>2, <2>3 DEF D!vars
<1>2. CASE SubmitRefused(s)
  <2>1. UNCHANGED accounts /\ UNCHANGED log
    BY <1>2, AccountsFrame DEF SubmitRefused, database
  <2>2. UNCHANGED pending
    BY <1>2, FinishPending DEF SubmitRefused
  <2> QED
    BY <2>1, <2>2 DEF D!vars
<1> QED
  BY <1>1, <1>2

-----------------------------------------------------------------------------
(* The effect of each transaction on the accounts.                           *)

LEMMA AccountsAreRows ==
    ASSUME MapInv
    PROVE  AccountsByRow /\ \A i \in DOMAIN actors : actors[i] \in ActorRow
BY Represented DEF MapInv, TypeInv, TypeOK

LEMMA AccountsAreRowsNext ==
    ASSUME MapInv'
    PROVE  AccountsByRow' /\ \A i \in DOMAIN actors' : actors'[i] \in ActorRow
BY RepresentedNext DEF MapInv, TypeInv, TypeOK

\* A transaction that touches one actor row, perhaps a new one, and no name.
LEMMA OneAccount ==
    ASSUME MapInv, MapInv', NEW id,
           DOMAIN actors' = DOMAIN actors \cup {id},
           \A r \in DOMAIN actors : actors'[r].actor_id = actors[r].actor_id,
           \A r \in DOMAIN actors : r # id => AccountOf(r)' = AccountOf(r)
    PROVE  accounts' = [accounts EXCEPT ![actors'[id].actor_id] = AccountOf(id)']
<1> DEFINE a == actors'[id].actor_id
<1>1. AccountsByRow /\ AccountsByRow'
  BY AccountsAreRows, AccountsAreRowsNext
<1>2. ASSUME NEW b \in Actors, b # a PROVE accounts'[b] = accounts[b]
  <2>1. CASE \E r \in DOMAIN actors : actors[r].actor_id = b
    <3>1. PICK r \in DOMAIN actors : actors[r].actor_id = b
      BY <2>1
    <3>2. r # id /\ r \in DOMAIN actors' /\ actors'[r].actor_id = b
      BY <1>2, <3>1
    <3>3. accounts'[b] = AccountOf(r)' /\ accounts[b] = AccountOf(r)
      BY <1>1, <3>1, <3>2 DEF AccountsByRow
    <3> QED
      BY <3>1, <3>2, <3>3
  <2>2. CASE \A r \in DOMAIN actors : actors[r].actor_id # b
    <3>1. \A r \in DOMAIN actors' : actors'[r].actor_id # b
      BY <1>2, <2>2
    <3> QED
      BY <1>1, <2>2, <3>1 DEF AccountsByRow
  <2> QED
    BY <2>1, <2>2
<1>3. a \in Actors /\ accounts'[a] = AccountOf(id)'
  BY <1>1 DEF AccountsByRow
<1> HIDE DEF a
<1>4. DOMAIN accounts = Actors /\ accounts = [b \in Actors |-> accounts[b]]
      /\ accounts' = [b \in Actors |-> accounts'[b]]
  BY DEF accounts
<1>5. accounts' = [accounts EXCEPT ![a] = AccountOf(id)']
  BY <1>2, <1>3, <1>4
<1> QED
  BY <1>5 DEF a

\* A published message takes effect: it is pending no more.
LEMMA ApplyStep ==
    ASSUME MapInv, NEW s \in Slots, pc[s] = "logged", Finish(s), UNCHANGED log,
           accounts' = D!Effect(accounts, msg[s])
    PROVE  \E i \in pending : D!Apply(i)
<1>1. root[s] \in pending /\ log[root[s]] = msg[s]
  BY ProcessingTyped DEF pending, MapInv
<1>2. pending' = pending \ {root[s]}
  BY FinishPending
<1> QED
  BY <1>1, <1>2 DEF D!Apply

\* The row GetOrCreateActor returns is the one a name means.
LEMMA CreatedRow ==
    ASSUME MapInv, MapInv', NEW a \in Actors, actors' = GetOrCreateActor(a)
    PROVE  \E id \in DOMAIN actors' :
           /\ id = ActorID(actors', a)
           /\ DOMAIN actors' = DOMAIN actors \cup {id}
           /\ \A r \in DOMAIN actors : actors'[r] = actors[r]
           /\ actors'[id].actor_id = a
           /\ id \in DOMAIN actors => accounts[a] = AccountOf(id) /\ accounts[a] # Absent
           /\ id \notin DOMAIN actors => accounts[a] = Absent /\ ~actors'[id].is_fireproof
<1> DEFINE id == ActorID(actors', a)
<1>1. AccountsByRow
  BY AccountsAreRows
<1>2. CASE ActorExists(a)
  <2>1. actors' = actors
    BY <1>2 DEF GetOrCreateActor
  <2>2. id \in DOMAIN actors /\ actors[id].actor_id = a
    BY <1>2, <2>1, ActorIDFound DEF ActorExists
  <2> HIDE DEF id
  <2>3. accounts[a] = AccountOf(id) /\ accounts[a] # Absent
    BY <1>1, <2>2, AbsentAssumption DEF AccountsByRow
  <2> QED
    BY <2>1, <2>2, <2>3 DEF id
<1>3. CASE ~ActorExists(a)
  <2> DEFINE row == [actor_id |-> a, is_fireproof |-> FALSE]
             n == Len(actors) + 1
  <2>1. actors' = Append(actors, row) /\ actors \in Seq(ActorRow) /\ row \in ActorRow
    BY <1>3 DEF GetOrCreateActor, MapInv, TypeInv, TypeOK, ActorRow
  <2>2. row.actor_id = a /\ row.is_fireproof = FALSE
    OBVIOUS
  <2> HIDE DEF row
  <2>3. /\ DOMAIN actors' = DOMAIN actors \cup {n} /\ n \notin DOMAIN actors
        /\ \A r \in DOMAIN actors : actors'[r] = actors[r]
        /\ actors'[n] = row
    BY <2>1
  <2>4. \A r \in DOMAIN actors : actors[r].actor_id # a
    BY <1>3 DEF ActorExists
  <2> HIDE DEF n
  <2>5. id = n
    BY <2>2, <2>3, UniqueID DEF MapInv, ActorNamesUnique
  <2> HIDE DEF id
  <2>6. accounts[a] = Absent
    BY <1>1, <2>4 DEF AccountsByRow
  <2>7. /\ DOMAIN actors' = DOMAIN actors \cup {id} /\ id \notin DOMAIN actors
        /\ actors'[id].actor_id = a /\ ~actors'[id].is_fireproof
    BY <2>2, <2>3, <2>5
  <2> QED
    BY <2>3, <2>6, <2>7 DEF id
<1> QED
  BY <1>2, <1>3

\* A new row of an account that may be new: one more of that key.
LEMMA EffectAddKey ==
    ASSUME MapInv, MapInv', NEW s \in Slots, ProcessAddKey(s)
    PROVE  accounts' = D!Effect(accounts, msg[s])
<1>0. PICK a, k, n : a = msg[s].actor /\ k = msg[s].public_key /\ n = Len(public_keys) + 1
  OBVIOUS
<1> DEFINE new == [actor_id |-> ActorID(actors', a), public_key |-> k, merkle_root |-> root[s],
                   revoke_root |-> NoRoot]
<1>1. /\ msg[s].action = "AddKey" /\ a \in Actors /\ k \in Keys
      /\ actors' = GetOrCreateActor(a)
      /\ public_keys' = Append(public_keys, new)
  BY <1>0, ProcessingTyped, MessageFields DEF ProcessAddKey, Processing, MapInv
<1>2. PICK id \in DOMAIN actors' :
      /\ id = ActorID(actors', a)
      /\ DOMAIN actors' = DOMAIN actors \cup {id}
      /\ \A r \in DOMAIN actors : actors'[r] = actors[r]
      /\ actors'[id].actor_id = a
      /\ id \in DOMAIN actors => accounts[a] = AccountOf(id) /\ accounts[a] # Absent
      /\ id \notin DOMAIN actors => accounts[a] = Absent /\ ~actors'[id].is_fireproof
  BY <1>1, CreatedRow
<1>3. new.actor_id = id /\ new.public_key = k /\ new.revoke_root = NoRoot
  BY <1>2
<1> HIDE DEF new
<1>4. /\ DOMAIN public_keys' = DOMAIN public_keys \cup {n} /\ n \notin DOMAIN public_keys
      /\ \A i \in DOMAIN public_keys : public_keys'[i] = public_keys[i]
      /\ public_keys'[n] = new
  BY <1>0, <1>1 DEF MapInv, TypeInv, TypeOK
<1>5. \A r, q : LiveRows(r, q)' = IF r = id /\ q = k THEN LiveRows(r, q) \cup {n}
                                                   ELSE LiveRows(r, q)
  BY <1>3, <1>4 DEF LiveRows
<1>6. n \notin LiveRows(id, k)
  BY <1>4 DEF LiveRows
<1>7. Cardinality(LiveRows(id, k)') = Cardinality(LiveRows(id, k)) + 1
  BY <1>5, <1>6, LiveRowsFinite, FS_AddElement DEF MapInv
<1>8. \A r \in DOMAIN actors : r # id => AccountOf(r)' = AccountOf(r)
  BY <1>2, <1>5 DEF AccountOf
<1>9. accounts' = [accounts EXCEPT ![a] = AccountOf(id)']
  BY <1>2, <1>8, OneAccount
<1>10. a \in DOMAIN accounts /\ accounts = [b \in Actors |-> accounts[b]]
  BY <1>1 DEF accounts
<1>11. D!Effect(accounts, msg[s]) = [D!Open(accounts, a) EXCEPT ![a].keys[k] = @ + 1]
  BY <1>0, <1>1 DEF D!Effect
<1>12. CASE id \in DOMAIN actors
  <2>1. AccountOf(id)' = [AccountOf(id) EXCEPT !.keys[k] = @ + 1]
    BY <1>1, <1>2, <1>5, <1>7, <1>12 DEF AccountOf
  <2>2. D!Open(accounts, a) = accounts /\ accounts[a] = AccountOf(id)
    BY <1>2, <1>12 DEF D!Open
  <2> QED
    BY <1>9, <1>10, <1>11, <2>1, <2>2
<1>13. CASE id \notin DOMAIN actors
  <2>1. \A q : LiveRows(id, q) = {}
    BY <1>13 DEF LiveRows, MapInv, TypeInv, TypeOK
  <2>2. \A q : Cardinality(LiveRows(id, q)) = 0
    BY <2>1, FS_EmptySet
  <2>3. actors'[id].is_fireproof = FALSE
    BY <1>2, <1>13, AccountsAreRowsNext DEF ActorRow
  <2>4. AccountOf(id)' = [D!NewAccount EXCEPT !.keys[k] = @ + 1]
    <3>1. \A q \in Keys : Cardinality(LiveRows(id, q)') = IF q = k THEN 1 ELSE 0
      BY <1>5, <1>7, <2>2
    <3>2. [q \in Keys |-> Cardinality(LiveRows(id, q)')]
            = [[q \in Keys |-> 0] EXCEPT ![k] = @ + 1]
      BY <1>1, <3>1
    <3>3. PICK zero, flag : /\ zero = [q \in Keys |-> 0] /\ flag = FALSE
                            /\ D!NewAccount = [keys |-> zero, fireproof |-> flag]
      BY DEF D!NewAccount
    <3>4. AccountOf(id)' = [keys |-> [q \in Keys |-> Cardinality(LiveRows(id, q)')],
                            fireproof |-> flag]
      BY <2>3, <3>3 DEF AccountOf
    <3>5. [D!NewAccount EXCEPT !.keys[k] = @ + 1]
            = [keys |-> [zero EXCEPT ![k] = @ + 1], fireproof |-> flag]
      BY <3>3
    <3> QED
      BY <3>2, <3>3, <3>4, <3>5
  <2>5. D!Open(accounts, a) = [accounts EXCEPT ![a] = D!NewAccount]
    BY <1>2, <1>13 DEF D!Open
  <2> QED
    BY <1>9, <1>10, <1>11, <2>4, <2>5
<1> QED
  BY <1>12, <1>13

\* Auxiliary data opens the account and leaves its keys alone.
LEMMA EffectAddAuxData ==
    ASSUME MapInv, MapInv', NEW s \in Slots, ProcessAddAuxData(s)
    PROVE  accounts' = D!Effect(accounts, msg[s])
<1>0. PICK a : a = msg[s].actor
  OBVIOUS
<1>1. /\ msg[s].action = "AddAuxData" /\ msg[s].valid /\ a \in Actors
      /\ actors' = GetOrCreateActor(a) /\ public_keys' = public_keys
  BY <1>0, ProcessingTyped, MessageFields DEF ProcessAddAuxData, Processing, MapInv
<1>2. PICK id \in DOMAIN actors' :
      /\ DOMAIN actors' = DOMAIN actors \cup {id}
      /\ \A r \in DOMAIN actors : actors'[r] = actors[r]
      /\ actors'[id].actor_id = a
      /\ id \in DOMAIN actors => accounts[a] = AccountOf(id) /\ accounts[a] # Absent
      /\ id \notin DOMAIN actors => accounts[a] = Absent /\ ~actors'[id].is_fireproof
  BY <1>1, CreatedRow
<1>3. \A r, q : LiveRows(r, q)' = LiveRows(r, q)
  BY <1>1 DEF LiveRows
<1>4. \A r \in DOMAIN actors : AccountOf(r)' = AccountOf(r)
  BY <1>2, <1>3 DEF AccountOf
<1>5. accounts' = [accounts EXCEPT ![a] = AccountOf(id)']
  BY <1>2, <1>4, OneAccount
<1>6. a \in DOMAIN accounts /\ accounts = [b \in Actors |-> accounts[b]]
  BY <1>1 DEF accounts
<1>7. D!Effect(accounts, msg[s]) = D!Open(accounts, a)
  BY <1>0, <1>1 DEF D!Effect
<1>8. CASE id \in DOMAIN actors
  BY <1>2, <1>4, <1>5, <1>6, <1>7, <1>8 DEF D!Open
<1>9. CASE id \notin DOMAIN actors
  <2>1. \A q : LiveRows(id, q) = {}
    BY <1>9 DEF LiveRows, MapInv, TypeInv, TypeOK
  <2>2. \A q : Cardinality(LiveRows(id, q)) = 0
    BY <2>1, FS_EmptySet
  <2>3. actors'[id].is_fireproof = FALSE
    BY <1>2, <1>9, AccountsAreRowsNext DEF ActorRow
  <2>4. AccountOf(id)' = D!NewAccount
    BY <1>3, <2>2, <2>3 DEF AccountOf, D!NewAccount
  <2> QED
    BY <1>2, <1>5, <1>7, <1>9, <2>4 DEF D!Open
<1> QED
  BY <1>8, <1>9

\* One live row of a key is revoked: one less of it.
LEMMA OneKeyLess ==
    ASSUME MapInv, UNCHANGED actors, NEW id, NEW k \in Keys, NEW i \in LiveRows(id, k),
           \A q : LiveRows(id, q)' = IF q = k THEN LiveRows(id, q) \ {i} ELSE LiveRows(id, q)
    PROVE  /\ AccountOf(id)' = [AccountOf(id) EXCEPT !.keys[k] = @ - 1]
           /\ AccountOf(id).keys[k] > 0
<1>1. /\ Cardinality(LiveRows(id, k)') = Cardinality(LiveRows(id, k)) - 1
      /\ Cardinality(LiveRows(id, k)) > 0
  <2>1. IsFiniteSet(LiveRows(id, k)) /\ Cardinality(LiveRows(id, k)) \in Nat
    BY LiveRowsFinite DEF MapInv
  <2>2. Cardinality(LiveRows(id, k)) # 0
    BY <2>1, FS_EmptySet
  <2> QED
    BY <2>1, <2>2, FS_RemoveElement
<1>2. PICK ks, f : /\ AccountOf(id) = [keys |-> ks, fireproof |-> f]
                   /\ ks = [q \in Keys |-> Cardinality(LiveRows(id, q))]
                   /\ f = actors[id].is_fireproof
  BY DEF AccountOf
<1>3. [q \in Keys |-> Cardinality(LiveRows(id, q)')] = [ks EXCEPT ![k] = @ - 1]
  BY <1>1, <1>2
<1>4. AccountOf(id)' = [keys |-> [ks EXCEPT ![k] = @ - 1], fireproof |-> f]
  BY <1>2, <1>3 DEF AccountOf
<1> QED
  BY <1>1, <1>2, <1>4

LEMMA EffectRevokeKey ==
    ASSUME MapInv, MapInv', NEW s \in Slots, ProcessRevokeKey(s)
    PROVE  accounts' = D!Effect(accounts, msg[s])
<1>0. PICK a, k : a = msg[s].actor /\ k = msg[s].public_key
  OBVIOUS
<1>1. /\ msg[s].action = "RevokeKey" /\ a \in Actors /\ k \in Keys
      /\ root[s] \in Nat /\ actors' = actors
  BY <1>0, ProcessingTyped, MessageFields DEF ProcessRevokeKey, Processing, MapInv
<1>2. PICK i \in FindKeyToRevoke(a, k) : public_keys' = RevokeKey(i, root[s])
  BY <1>0 DEF ProcessRevokeKey
<1>3. PICK id \in DOMAIN actors : id = public_keys[i].actor_id
  BY <1>2 DEF FindKeyToRevoke, ListKeysForActor, MapInv, TypeInv, TypeOK
<1>4. actors[id].actor_id = a /\ i \in LiveRows(id, k)
  BY <1>2, <1>3 DEF FindKeyToRevoke, ListKeysForActor, LiveRows
<1>5. /\ DOMAIN public_keys' = DOMAIN public_keys
      /\ \A j \in DOMAIN public_keys :
           /\ public_keys'[j].actor_id = public_keys[j].actor_id
           /\ public_keys'[j].public_key = public_keys[j].public_key
           /\ public_keys'[j].revoke_root = IF j = i THEN root[s] ELSE public_keys[j].revoke_root
  BY <1>2, Numbers DEF RevokeKey, KeyRow, MapInv
<1>6. root[s] # NoRoot
  BY <1>1, ConstantsAssumption
<1>7. \A r, q : LiveRows(r, q)' = IF r = id /\ q = k THEN LiveRows(r, q) \ {i}
                                                   ELSE LiveRows(r, q)
  BY <1>4, <1>5, <1>6 DEF LiveRows
<1>8. /\ AccountOf(id)' = [AccountOf(id) EXCEPT !.keys[k] = @ - 1]
      /\ AccountOf(id).keys[k] > 0
  BY <1>1, <1>4, <1>7, OneKeyLess
<1>9. \A r \in DOMAIN actors : r # id => AccountOf(r)' = AccountOf(r)
  BY <1>1, <1>7 DEF AccountOf
<1>10. accounts' = [accounts EXCEPT ![a] = AccountOf(id)']
  BY <1>1, <1>4, <1>9, OneAccount
<1>11. accounts[a] = AccountOf(id) /\ accounts[a] # Absent
  BY <1>4, AccountsAreRows, AbsentAssumption DEF AccountsByRow
<1>12. D!Effect(accounts, msg[s]) = [accounts EXCEPT ![a].keys[k] = @ - 1]
  BY <1>0, <1>1, <1>8, <1>11 DEF D!Effect
<1> QED
  BY <1>8, <1>10, <1>11, <1>12

\* A burn leaves the account without a live key, whoever asked for it.
LEMMA BurnNoKeys ==
    ASSUME MapInv, MapInv', NEW a \in Actors, ActorExists(a), UNCHANGED actors,
           NEW r \in Nat \cup {AdminRoot}, BurnDown(a, r)
    PROVE  accounts[a] # Absent /\ accounts' = D!NoKeys(accounts, a)
<1>1. PICK id \in DOMAIN actors : id = ActorID(actors, a) /\ actors[id].actor_id = a
  BY ActorIDFound DEF ActorExists
<1>2. public_keys' = RevokeAllKeysForActor(id, r) /\ r # NoRoot
  BY <1>1, ConstantsAssumption DEF BurnDown
<1>3. /\ DOMAIN public_keys' = DOMAIN public_keys
      /\ \A j \in DOMAIN public_keys :
           /\ public_keys'[j].actor_id = public_keys[j].actor_id
           /\ public_keys'[j].public_key = public_keys[j].public_key
           /\ public_keys'[j].revoke_root =
                IF public_keys[j].actor_id = id /\ public_keys[j].revoke_root = NoRoot
                THEN r ELSE public_keys[j].revoke_root
  BY <1>2, Numbers DEF RevokeAllKeysForActor, KeyRow, MapInv
<1>4. \A x, q : LiveRows(x, q)' = IF x = id THEN {} ELSE LiveRows(x, q)
  BY <1>2, <1>3 DEF LiveRows
<1>5. \A q : Cardinality(LiveRows(id, q)') = 0
  BY <1>4, FS_EmptySet
<1>6. \A x \in DOMAIN actors : x # id => AccountOf(x)' = AccountOf(x)
  BY <1>4 DEF AccountOf
<1>7. accounts' = [accounts EXCEPT ![a] = AccountOf(id)']
  BY <1>1, <1>6, OneAccount
<1>8. accounts[a] = AccountOf(id) /\ accounts[a] # Absent
  BY <1>1, AccountsAreRows, AbsentAssumption DEF AccountsByRow
<1>9. AccountOf(id)' = [AccountOf(id) EXCEPT !.keys = [q \in Keys |-> 0]]
  <2>1. PICK ks, f : /\ AccountOf(id) = [keys |-> ks, fireproof |-> f]
                     /\ f = actors[id].is_fireproof
    BY DEF AccountOf
  <2>2. AccountOf(id)' = [keys |-> [q \in Keys |-> 0], fireproof |-> f]
    BY <1>5, <2>1 DEF AccountOf
  <2> QED
    BY <2>1, <2>2
<1> QED
  BY <1>7, <1>8, <1>9 DEF D!NoKeys

LEMMA EffectBurnDown ==
    ASSUME MapInv, MapInv', NEW s \in Slots, ProcessBurnDown(s)
    PROVE  accounts' = D!Effect(accounts, msg[s])
<1>1. PICK a : a = msg[s].actor
  OBVIOUS
<1>2. PICK r : r = root[s]
  OBVIOUS
<1>3. /\ msg[s].action = "BurnDown" /\ a \in Actors /\ r \in Nat
      /\ ActorExists(a) /\ BurnDown(a, r) /\ UNCHANGED actors
  BY <1>1, <1>2, ProcessingTyped, MessageFields DEF ProcessBurnDown, Processing, MapInv
<1>4. accounts[a] # Absent /\ accounts' = D!NoKeys(accounts, a)
  BY <1>3, BurnNoKeys
<1> QED
  BY <1>1, <1>3, <1>4 DEF D!Effect

LEMMA ShredStep ==
    ASSUME MapInv, MapInv', NEW a \in Actors, CryptoShred(a)
    PROVE  a \in Shreddable /\ D!Shred(a)
<1>1. accounts[a] # Absent /\ accounts' = D!NoKeys(accounts, a)
  BY BurnNoKeys DEF CryptoShred
<1>2. pending' = pending
  BY DEF CryptoShred, requests, pending
<1> QED
  BY <1>1, <1>2 DEF CryptoShred, D!Shred

LEMMA EffectSetFireproof ==
    ASSUME MapInv, MapInv', NEW s \in Slots, NEW flag \in BOOLEAN, SetFireproof(s, flag),
           pc[s] = "logged", msg[s].action \in {"Fireproof", "UndoFireproof"},
           flag = (msg[s].action = "Fireproof")
    PROVE  accounts' = D!Effect(accounts, msg[s])
<1>1. PICK a : a = msg[s].actor
  OBVIOUS
<1>2. PICK id \in DOMAIN actors : /\ id = ActorID(actors, a) /\ actors[id].actor_id = a
                                  /\ actors' = [actors EXCEPT ![id].is_fireproof = flag]
                                  /\ public_keys' = public_keys
  BY <1>1, ActorIDFound DEF SetFireproof, ActorExists
<1>3. /\ DOMAIN actors' = DOMAIN actors
      /\ \A r \in DOMAIN actors :
           /\ actors'[r].actor_id = actors[r].actor_id
           /\ actors'[r].is_fireproof = IF r = id THEN flag ELSE actors[r].is_fireproof
  BY <1>2, AccountsAreRows DEF ActorRow
<1>4. \A r, q : LiveRows(r, q)' = LiveRows(r, q)
  BY <1>2 DEF LiveRows
<1>5. \A r \in DOMAIN actors : r # id => AccountOf(r)' = AccountOf(r)
  BY <1>3, <1>4 DEF AccountOf
<1>6. AccountOf(id)' = [AccountOf(id) EXCEPT !.fireproof = flag]
  <2>1. PICK ks, f : /\ AccountOf(id) = [keys |-> ks, fireproof |-> f]
                     /\ ks = [q \in Keys |-> Cardinality(LiveRows(id, q))]
    BY DEF AccountOf
  <2>2. AccountOf(id)' = [keys |-> ks, fireproof |-> flag]
    BY <1>3, <1>4, <2>1 DEF AccountOf
  <2> QED
    BY <2>1, <2>2
<1>7. accounts' = [accounts EXCEPT ![a] = AccountOf(id)']
  BY <1>2, <1>3, <1>5, OneAccount
<1>8. accounts[a] = AccountOf(id) /\ accounts[a] # Absent
  BY <1>2, AccountsAreRows, AbsentAssumption DEF AccountsByRow
<1>9. D!Effect(accounts, msg[s]) = [accounts EXCEPT ![a].fireproof = flag]
  BY <1>1, <1>8 DEF D!Effect
<1> QED
  BY <1>6, <1>7, <1>8, <1>9

\* The account goes by its new name, and the old name is free.
LEMMA EffectMoveIdentity ==
    ASSUME MapInv, MapInv', NEW s \in Slots, ProcessMoveIdentity(s)
    PROVE  accounts' = D!Effect(accounts, msg[s])
<1>1. PICK a, b : a = msg[s].old_actor /\ b = msg[s].new_actor
  OBVIOUS
<1>2. /\ msg[s].action = "MoveIdentity" /\ a \in Actors /\ b \in Actors
      /\ ActorExists(a) /\ ~ActorExists(b) /\ public_keys' = public_keys
  BY <1>1, ProcessingTyped, MessageFields DEF ProcessMoveIdentity, Processing, MapInv
<1>3. PICK id \in DOMAIN actors : /\ id = ActorID(actors, a) /\ actors[id].actor_id = a
                                  /\ actors' = [actors EXCEPT ![id].actor_id = b]
  <2>1. /\ ActorID(actors, a) \in DOMAIN actors /\ actors[ActorID(actors, a)].actor_id = a
    BY <1>2, ActorIDFound DEF ActorExists
  <2>2. actors' = [actors EXCEPT ![ActorID(actors, a)].actor_id = b]
    BY <1>1 DEF ProcessMoveIdentity
  <2> QED
    BY <2>1, <2>2
<1>4. /\ DOMAIN actors' = DOMAIN actors
      /\ \A r \in DOMAIN actors :
           /\ actors'[r].actor_id = IF r = id THEN b ELSE actors[r].actor_id
           /\ actors'[r].is_fireproof = actors[r].is_fireproof
  BY <1>3, AccountsAreRows DEF ActorRow
<1>5. \A r, q : LiveRows(r, q)' = LiveRows(r, q)
  BY <1>2 DEF LiveRows
<1>6. \A r \in DOMAIN actors : AccountOf(r)' = AccountOf(r)
  BY <1>4, <1>5 DEF AccountOf
<1>7. AccountsByRow /\ AccountsByRow'
  BY AccountsAreRows, AccountsAreRowsNext
<1>8. \A r \in DOMAIN actors : actors[r].actor_id # b /\ (actors[r].actor_id = a => r = id)
  BY <1>2, <1>3 DEF ActorExists, MapInv, ActorNamesUnique
<1>9. accounts[a] = AccountOf(id) /\ accounts[a] # Absent /\ accounts[b] = Absent
  BY <1>2, <1>3, <1>7, <1>8, AbsentAssumption DEF AccountsByRow
<1>10. accounts'[b] = accounts[a] /\ a # b
  BY <1>4, <1>6, <1>7, <1>9 DEF AccountsByRow
<1>11. accounts'[a] = Absent
  <2>1. \A r \in DOMAIN actors' : actors'[r].actor_id # a
    BY <1>4, <1>8, <1>10
  <2> QED
    BY <1>2, <1>7, <2>1 DEF AccountsByRow
<1>12. ASSUME NEW c \in Actors, c # a, c # b PROVE accounts'[c] = accounts[c]
  <2>1. CASE \E r \in DOMAIN actors : actors[r].actor_id = c
    <3>1. PICK r \in DOMAIN actors : actors[r].actor_id = c
      BY <2>1
    <3>2. r # id /\ actors'[r].actor_id = c
      BY <1>3, <1>4, <1>12, <3>1
    <3>3. accounts'[c] = AccountOf(r)' /\ accounts[c] = AccountOf(r)
      BY <1>4, <1>7, <3>1, <3>2 DEF AccountsByRow
    <3> QED
      BY <1>6, <3>3
  <2>2. CASE \A r \in DOMAIN actors : actors[r].actor_id # c
    <3>1. \A r \in DOMAIN actors' : actors'[r].actor_id # c
      BY <1>4, <1>12, <2>2
    <3> QED
      BY <1>7, <2>2, <3>1 DEF AccountsByRow
  <2> QED
    BY <2>1, <2>2
<1>13. /\ accounts = [c \in Actors |-> accounts[c]]
       /\ accounts' = [c \in Actors |-> accounts'[c]]
  BY DEF accounts
<1>14. accounts' = [accounts EXCEPT ![b] = accounts[a], ![a] = Absent]
  BY <1>2, <1>10, <1>11, <1>12, <1>13
<1>15. D!Effect(accounts, msg[s]) = [accounts EXCEPT ![b] = accounts[a], ![a] = Absent]
  BY <1>1, <1>2, <1>9 DEF D!Effect
<1> QED
  BY <1>14, <1>15

\* What auxiliary data an account has is not part of it.
LEMMA EffectRevokeAuxData ==
    ASSUME MapInv, NEW s \in Slots, ProcessRevokeAuxData(s)
    PROVE  accounts' = D!Effect(accounts, msg[s])
<1>1. accounts' = accounts
  BY AccountsFrame DEF ProcessRevokeAuxData
<1>2. D!Effect(accounts, msg[s]) = accounts
  BY DEF ProcessRevokeAuxData, Processing, D!Effect
<1> QED
  BY <1>1, <1>2

-----------------------------------------------------------------------------
(* Every step of PKDServer is a step of Directory, or none.                  *)

LEMMA ProcessStep ==
    ASSUME MapInv, MapInv', NEW s \in Slots, Process(s)
    PROVE  D!Next
<1>1. CASE RejectSymmetricKeys(s) \/ ProcessRejected(s) \/ DatabaseFault(s)
  BY <1>1, AbandonStep DEF RejectSymmetricKeys, ProcessRejected, DatabaseFault, D!Next
<1>2. ASSUME pc[s] = "logged", Finish(s), UNCHANGED log,
             accounts' = D!Effect(accounts, msg[s])
      PROVE  D!Next
  BY <1>2, ApplyStep DEF D!Next
<1>3. CASE ProcessAddKey(s)
  BY <1>2, <1>3, EffectAddKey DEF ProcessAddKey, Processing
<1>4. CASE ProcessRevokeKey(s)
  BY <1>2, <1>4, EffectRevokeKey DEF ProcessRevokeKey, Processing
<1>5. CASE ProcessMoveIdentity(s)
  BY <1>2, <1>5, EffectMoveIdentity DEF ProcessMoveIdentity, Processing
<1>6. CASE ProcessBurnDown(s)
  BY <1>2, <1>6, EffectBurnDown DEF ProcessBurnDown, Processing
<1>7. CASE ProcessFireproof(s)
  <2>1. /\ pc[s] = "logged" /\ msg[s].action = "Fireproof" /\ SetFireproof(s, TRUE)
        /\ Finish(s) /\ UNCHANGED log
    BY <1>7 DEF ProcessFireproof, Processing, SetFireproof
  <2> QED
    BY <1>2, <2>1, EffectSetFireproof
<1>8. CASE ProcessUndoFireproof(s)
  <2>1. /\ pc[s] = "logged" /\ msg[s].action = "UndoFireproof" /\ SetFireproof(s, FALSE)
        /\ Finish(s) /\ UNCHANGED log
    BY <1>8 DEF ProcessUndoFireproof, Processing, SetFireproof
  <2> QED
    BY <1>2, <2>1, EffectSetFireproof
<1>9. CASE ProcessAddAuxData(s)
  BY <1>2, <1>9, EffectAddAuxData DEF ProcessAddAuxData, Processing
<1>10. CASE ProcessRevokeAuxData(s)
  BY <1>2, <1>10, EffectRevokeAuxData DEF ProcessRevokeAuxData, Processing
<1> QED
  BY <1>1, <1>3, <1>4, <1>5, <1>6, <1>7, <1>8, <1>9, <1>10 DEF Process

LEMMA RefinementNext ==
    ASSUME MapInv, MapInv', MsgsAllowed, [Next]_vars
    PROVE  [D!Next]_(D!vars)
<1>1. ASSUME NEW s \in Slots, Validate(s) PROVE UNCHANGED D!vars
  BY <1>1, InvisibleStep
<1>2. ASSUME NEW s \in Slots, Submit(s) PROVE [D!Next]_(D!vars)
  BY <1>2, InvisibleStep, PublishStep DEF Submit, D!Next
<1>3. ASSUME NEW s \in Slots, Process(s) PROVE D!Next
  BY <1>3, ProcessStep
<1>4. ASSUME NEW a \in Actors, CryptoShred(a) PROVE D!Next
  BY <1>4, ShredStep DEF D!Next
<1>5. CASE Crash
  BY <1>5, AbandonStep DEF Crash, D!Next
<1>6. CASE UNCHANGED vars
  <2>1. UNCHANGED <<actors, public_keys, log, pc, root>>
    BY <1>6 DEF vars
  <2> QED
    BY <2>1, AccountsFrame DEF pending, D!vars
<1> QED
  BY <1>1, <1>2, <1>3, <1>4, <1>5, <1>6 DEF Next

LEMMA RefinementInit == ASSUME Init PROVE D!Init
<1>1. \A a \in Actors : ~ActorExists(a)
  BY DEF Init, ActorExists
<1>2. accounts = D!Empty
  BY <1>1 DEF accounts, D!Empty
<1>3. pending = {}
  BY DEF Init, pending
<1> QED
  BY <1>2, <1>3 DEF Init, D!Init

LEMMA MsgsAllowedNext == ASSUME MapInv, MsgsAllowed, [Next]_vars PROVE MsgsAllowed'
<1>1. ASSUME NEW s \in Slots, Finish(s) PROVE MsgsAllowed'
  BY <1>1 DEF Finish, MsgsAllowed, MapInv, TypeInv, TypeOK
<1>2. ASSUME NEW s \in Slots, Validate(s) PROVE MsgsAllowed'
  BY <1>2, ValidateAccepts DEF Accept, MsgsAllowed, MapInv, TypeInv, TypeOK
<1>3. ASSUME NEW s \in Slots, Submit(s) PROVE MsgsAllowed'
  BY <1>1, <1>3 DEF Submit, SubmitMessage, SubmitRefused, SubmitUnanswered, MsgsAllowed,
     MapInv, TypeInv, TypeOK
<1>4. ASSUME NEW s \in Slots, Process(s) PROVE MsgsAllowed'
  BY <1>1, <1>4 DEF Process, RejectSymmetricKeys, ProcessAddKey, ProcessRevokeKey,
     ProcessMoveIdentity, ProcessBurnDown, ProcessFireproof, ProcessUndoFireproof,
     SetFireproof, ProcessAddAuxData, ProcessRevokeAuxData, ProcessRejected, DatabaseFault
<1>5. ASSUME NEW a \in Actors, CryptoShred(a) PROVE MsgsAllowed'
  BY <1>5 DEF CryptoShred, requests, MsgsAllowed
<1>6. CASE Crash \/ UNCHANGED vars
  BY <1>6 DEF Crash, vars, MsgsAllowed
<1> QED
  BY <1>2, <1>3, <1>4, <1>5, <1>6 DEF Next

\* Seen from outside, the concurrent requests on the database, whatever fails, are
\* the abstract directory: every published message takes effect as a whole, at one
\* instant, at most once (the transactions of domain/service.go).
THEOREM Refinement == Spec => ImplementsDirectory
<1>1. Init => D!Init /\ MsgsAllowed
  BY RefinementInit DEF Init, MsgsAllowed
<1>2. IndInv /\ MsgsAllowed /\ [Next]_vars => MsgsAllowed'
  BY Mapped, MsgsAllowedNext
<1>3. IndInv /\ IndInv' /\ MsgsAllowed /\ [Next]_vars => [D!Next]_(D!vars)
  BY Mapped, MappedNext, RefinementNext
<1> QED
  BY <1>1, <1>2, <1>3, Safety, PTL DEF Spec, ImplementsDirectory, D!Spec

-----------------------------------------------------------------------------
(* Replaying the log.  Replay is a recursive function; Steps is its equation *)
(* for a log q, which at most one function satisfies, and which that of a    *)
(* longer log satisfies too.                                                 *)

Steps(h, q) ==
    h = [n \in 0..Len(q) |-> IF n = 0 THEN D!Empty ELSE D!Effect(h[n - 1], q[n])]

LEMMA UpTo ==
    ASSUME NEW n \in Nat, NEW S, 0 \in S, \A i \in 1..n : i - 1 \in S => i \in S
    PROVE  0..n \subseteq S
<1> DEFINE T == (0..n) \ S
<1> SUFFICES ASSUME T # {} PROVE FALSE
  OBVIOUS
<1>1. PICK i \in T : \A j \in T : ~(<<j, i>> \in OpToRel(<, Nat))
  <2>1. T \subseteq Nat
    OBVIOUS
  <2> QED
    BY <2>1, NatLessThanWellFounded, WFMin
<1>2. i \in 1..n /\ i - 1 \in 0..n
  OBVIOUS
<1>3. i - 1 \notin T
  <2> SUFFICES ASSUME i - 1 \in T PROVE FALSE
    OBVIOUS
  <2>1. i - 1 \in Nat /\ i \in Nat /\ i - 1 < i
    OBVIOUS
  <2>2. ~(i - 1 < i)
    BY <1>1, <2>1 DEF OpToRel
  <2> QED
    BY <2>1, <2>2
<1> QED
  BY <1>2, <1>3

LEMMA StepsUnfold ==
    ASSUME NEW q, Len(q) \in Nat, NEW h, Steps(h, q), NEW n \in 1..Len(q)
    PROVE  h[n] = D!Effect(h[n - 1], q[n])
BY DEF Steps

\* Two logs that agree on the shorter one's entries replay to the same there.
LEMMA StepsAgree ==
    ASSUME NEW q, NEW p, Len(q) \in Nat, Len(p) \in Nat, Len(q) <= Len(p),
           \A i \in 1..Len(q) : q[i] = p[i],
           NEW h, NEW g, Steps(h, q), Steps(g, p)
    PROVE  \A n \in 0..Len(q) : h[n] = g[n]
<1> DEFINE S == {n \in 0..Len(q) : h[n] = g[n]}
<1>1. 0 \in S
  BY DEF Steps
<1>2. ASSUME NEW i \in 1..Len(q), i - 1 \in S PROVE i \in S
  <2>1. h[i] = D!Effect(h[i - 1], q[i])
    BY StepsUnfold
  <2>2. g[i] = D!Effect(g[i - 1], p[i])
    BY StepsUnfold
  <2> QED
    BY <1>2, <2>1, <2>2
<1> HIDE DEF S
<1>3. 0..Len(q) \subseteq S
  BY <1>1, <1>2, UpTo
<1> QED
  BY <1>3 DEF S

LEMMA ReplayChosen == ASSUME NEW h, Steps(h, log) PROVE Steps(Replay, log)
<1>1. Replay = CHOOSE f : f = [n \in 0..Len(log) |->
                                IF n = 0 THEN D!Empty ELSE D!Effect(f[n - 1], log[n])]
  BY DEF Replay
<1> QED
  BY <1>1 DEF Steps

LEMMA ReplayNothing == ASSUME log = <<>> PROVE Steps(Replay, log)
<1>1. Len(log) = 0
  OBVIOUS
<1>2. Steps([n \in 0..0 |-> D!Empty], log)
  BY <1>1 DEF Steps
<1> QED
  BY <1>2, ReplayChosen

\* One more entry is one more effect, and what was replayed before stays.
LEMMA ReplayAppend ==
    ASSUME log \in Seq(Message), NEW m \in Message, log' = Append(log, m),
           Steps(Replay, log)
    PROVE  /\ Steps(Replay, log)'
           /\ \A n \in 0..Len(log) : Replay'[n] = Replay[n]
           /\ Replay'[Len(log')] = D!Effect(Replay[Len(log)], m)
<1> DEFINE l == Len(log)
           h == [n \in 0..(l + 1) |-> IF n <= l THEN Replay[n] ELSE D!Effect(Replay[l], m)]
<1>1. /\ l \in Nat /\ Len(log') = l + 1 /\ log'[l + 1] = m
      /\ \A i \in 1..l : log'[i] = log[i]
  OBVIOUS
<1>2. Steps(h, log')
  <2>1. ASSUME NEW n \in 0..(l + 1)
        PROVE  h[n] = IF n = 0 THEN D!Empty ELSE D!Effect(h[n - 1], log'[n])
    <3>1. CASE n = 0
      BY <1>1, <3>1 DEF Steps
    <3>2. CASE n \in 1..l
      <4>1. Replay[n] = D!Effect(Replay[n - 1], log[n])
        BY <1>1, <3>2, StepsUnfold
      <4>2. h[n] = Replay[n] /\ h[n - 1] = Replay[n - 1] /\ n # 0 /\ log'[n] = log[n]
        BY <1>1, <3>2
      <4> QED
        BY <4>1, <4>2
    <3>3. CASE n = l + 1
      BY <1>1, <3>3
    <3> QED
      BY <1>1, <3>1, <3>2, <3>3
  <2> HIDE DEF h
  <2>2. h = [n \in 0..(l + 1) |-> h[n]]
    BY DEF h
  <2> QED
    BY <1>1, <2>1, <2>2 DEF Steps
<1>3. Steps(Replay, log)'
  <2>1. Replay' = CHOOSE f : f = [n \in 0..Len(log') |->
                                   IF n = 0 THEN D!Empty ELSE D!Effect(f[n - 1], log'[n])]
    BY DEF Replay
  <2> HIDE DEF h
  <2> QED
    BY <1>2, <2>1 DEF Steps
<1>4. \A n \in 0..l : Replay'[n] = Replay[n]
  <2>1. Steps(Replay', log')
    BY <1>3 DEF Steps
  <2>2. /\ Len(log) \in Nat /\ Len(log') \in Nat /\ Len(log) <= Len(log')
        /\ \A i \in 1..Len(log) : log[i] = log'[i]
    BY <1>1
  <2> HIDE DEF l, h
  <2>3. \A n \in 0..Len(log) : Replay[n] = Replay'[n]
    <3>1. PICK q : q = log'
      OBVIOUS
    <3>2. PICK g : g = Replay'
      OBVIOUS
    <3>3. PICK p : p = log
      OBVIOUS
    <3>4. PICK f : f = Replay
      OBVIOUS
    <3>5. Len(p) \in Nat /\ Len(q) \in Nat /\ Len(p) <= Len(q)
      BY <2>2, <3>1, <3>3
    <3>6. \A i \in 1..Len(p) : p[i] = q[i]
      BY <2>2, <3>1, <3>3
    <3>7. Steps(f, p)
      BY <3>3, <3>4
    <3>8. Steps(g, q)
      BY <2>1, <3>1, <3>2
    <3>9. \A n \in 0..Len(p) : f[n] = g[n]
      BY <3>5, <3>6, <3>7, <3>8, StepsAgree
    <3> QED
      BY <3>2, <3>3, <3>4, <3>9
  <2> QED
    BY <2>3 DEF l
<1>5. Replay'[l + 1] = D!Effect(Replay'[l], m)
  BY <1>1, <1>3 DEF Steps
<1> QED
  BY <1>1, <1>3, <1>4, <1>5

-----------------------------------------------------------------------------
(* An auditor's view, where the log tells everything: one request at a time, *)
(* no administrator's shred, no entry whose outcome an error decides, and no *)
(* symmetric keys that fail to decode, since those are not published.        *)

Auditable ==
    /\ Undisturbed
    /\ Faults \subseteq {"refused"}
    /\ \A m \in Messages : m.action \in {"AddKey", "RevokeKey"} => m.symmetric_keys # "bad"

\* The entries that have taken effect: all but that of the request in flight.
Applied == IF \E s \in Slots : pc[s] = "logged" THEN Len(log) - 1 ELSE Len(log)

Audited == Steps(Replay, log) /\ accounts = Replay[Applied]

LEMMA AuditedInit == ASSUME Init PROVE Audited
<1>1. log = <<>> /\ accounts = D!Empty
  BY RefinementInit DEF Init, D!Init
<1>2. Applied = 0
  BY <1>1 DEF Init, Applied
<1>3. Steps(Replay, log)
  BY <1>1, ReplayNothing
<1>4. Replay[0] = D!Empty
  BY <1>1, <1>3 DEF Steps
<1> QED
  BY <1>1, <1>2, <1>3, <1>4 DEF Audited

\* What neither the log nor an account changes.
LEMMA AuditedFrame ==
    ASSUME Audited, UNCHANGED log, accounts' = accounts, Applied' = Applied
    PROVE  Audited'
<1>1. Replay' = Replay
  BY DEF Replay
<1>2. Steps(Replay, log)'
  BY <1>1 DEF Audited, Steps
<1> QED
  BY <1>1, <1>2 DEF Audited

\* A transaction that rolls back had a message without effect.
LEMMA RejectedNoEffect ==
    ASSUME MapInv, NEW s \in Slots, ProcessRejected(s)
    PROVE  D!Effect(accounts, msg[s]) = accounts
<1>1. PICK m \in Message : m = msg[s]
  BY ProcessingTyped DEF ProcessRejected, MapInv
<1>2. ASSUME NEW a \in Actors PROVE accounts[a] = Absent <=> ~ActorExists(a)
  <2>1. AccountsByRow
    BY AccountsAreRows
  <2>2. CASE ActorExists(a)
    <3>1. PICK r \in DOMAIN actors : actors[r].actor_id = a
      BY <2>2 DEF ActorExists
    <3>2. accounts[a] \in D!Account
      BY <2>1, <3>1 DEF AccountsByRow
    <3> QED
      BY <2>2, <3>2, AbsentAssumption
  <2>3. CASE ~ActorExists(a)
    BY <2>3 DEF accounts
  <2> QED
    BY <2>2, <2>3
<1>3. CASE m.action = "RevokeKey" /\ FindKeyToRevoke(m.actor, m.public_key) = {}
  <2>1. m.actor \in Actors /\ m.public_key \in Keys
    BY <1>3, MessageFields
  <2>2. Cardinality(FindKeyToRevoke(m.actor, m.public_key)) = 0
    BY <1>3, FS_EmptySet
  <2>3. ActorExists(m.actor) => accounts[m.actor].keys[m.public_key] = 0
    BY <2>1, <2>2 DEF accounts
  <2>4. ~(accounts[m.actor] # Absent /\ accounts[m.actor].keys[m.public_key] > 0)
    BY <1>2, <2>1, <2>3
  <2> QED
    BY <1>1, <1>3, <2>4 DEF D!Effect
<1>4. CASE m.action = "MoveIdentity" /\ (ActorExists(m.new_actor) \/ ~ActorExists(m.old_actor))
  <2>1. m.old_actor \in Actors /\ m.new_actor \in Actors
    BY <1>4, MessageFields
  <2> QED
    BY <1>1, <1>2, <1>4, <2>1 DEF D!Effect
<1>5. CASE m.action \in {"BurnDown", "Fireproof", "UndoFireproof"} /\ ~ActorExists(m.actor)
  <2>1. m.actor \in Actors
    BY <1>5, MessageFields
  <2> QED
    BY <1>1, <1>2, <1>5, <2>1 DEF D!Effect
<1>6. CASE (m.action = "AddAuxData" /\ ~m.valid) \/ m.action = "RevokeAuxData"
  BY <1>1, <1>6 DEF D!Effect
<1> QED
  BY <1>1, <1>3, <1>4, <1>5, <1>6 DEF ProcessRejected

\* Whatever the end of a request in flight, its message has had its effect.
LEMMA ProcessEffect ==
    ASSUME Auditable, MapInv, MapInv', MsgsAllowed, NEW s \in Slots, Process(s)
    PROVE  /\ pc[s] = "logged" /\ Finish(s) /\ UNCHANGED log
           /\ accounts' = D!Effect(accounts, msg[s])
<1>1. pc[s] = "logged" /\ Finish(s) /\ UNCHANGED log
  BY DEF Process, Processing, RejectSymmetricKeys, ProcessAddKey, ProcessRevokeKey,
     ProcessMoveIdentity, ProcessBurnDown, ProcessFireproof, ProcessUndoFireproof,
     SetFireproof, ProcessAddAuxData, ProcessRevokeAuxData, ProcessRejected, DatabaseFault
<1>2. ~RejectSymmetricKeys(s)
  BY <1>1 DEF RejectSymmetricKeys, MsgsAllowed, Auditable
<1>3. ~DatabaseFault(s)
  BY DEF DatabaseFault, Auditable
<1>4. CASE ProcessRejected(s)
  <2>1. accounts' = accounts
    BY <1>4, AccountsFrame DEF ProcessRejected, database
  <2> QED
    BY <1>1, <1>4, <2>1, RejectedNoEffect
<1>5. CASE ProcessFireproof(s)
  BY <1>1, <1>5, EffectSetFireproof DEF ProcessFireproof, Processing
<1>6. CASE ProcessUndoFireproof(s)
  BY <1>1, <1>6, EffectSetFireproof DEF ProcessUndoFireproof, Processing
<1> QED
  BY <1>1, <1>2, <1>3, <1>4, <1>5, <1>6, EffectAddKey, EffectRevokeKey, EffectMoveIdentity,
     EffectBurnDown, EffectAddAuxData, EffectRevokeAuxData DEF Process

LEMMA AuditedNext ==
    ASSUME Auditable, MapInv, MapInv', LastEntry, MsgsAllowed, Audited, [Next]_vars
    PROVE  Audited'
<1>1. /\ pc \in [Slots -> {"idle", "validated", "logged"}]
      /\ log \in Seq(Message) /\ \A s, t \in Slots : s = t
  BY DEF MapInv, TypeInv, TypeOK, Auditable, Undisturbed, OneRequest
<1>2. ASSUME NEW s \in Slots, Validate(s) \/ SubmitRefused(s) PROVE Audited'
  <2>1. UNCHANGED log /\ accounts' = accounts
    BY <1>2, InvisibleStep DEF D!vars
  <2>2. Applied' = Applied
    BY <1>1, <1>2, <2>1, ValidateAccepts DEF Accept, SubmitRefused, Finish, Applied
  <2> QED
    BY <2>1, <2>2, AuditedFrame
<1>3. ASSUME NEW s \in Slots, SubmitMessage(s) PROVE Audited'
  <2>1. /\ msg[s] \in Message /\ log' = Append(log, msg[s])
        /\ pc[s] = "validated" /\ pc'[s] = "logged"
    BY <1>1, <1>3, ConstantsAssumption DEF SubmitMessage, MsgsAllowed
  <2>2. Applied = Len(log) /\ Applied' = Len(log)
    BY <1>1, <2>1 DEF Applied
  <2>3. accounts' = accounts
    BY <1>3, AccountsFrame DEF SubmitMessage, database
  <2>4. Steps(Replay, log)' /\ Replay'[Len(log)] = Replay[Len(log)]
    BY <1>1, <2>1, ReplayAppend DEF Audited
  <2> QED
    BY <2>2, <2>3, <2>4 DEF Audited
<1>4. ASSUME NEW s \in Slots, Submit(s) PROVE Audited'
  BY <1>2, <1>3, <1>4 DEF Submit, SubmitUnanswered, Auditable
<1>5. ASSUME NEW s \in Slots, Process(s) PROVE Audited'
  <2>1. /\ pc[s] = "logged" /\ Finish(s) /\ log' = log
        /\ accounts' = D!Effect(accounts, msg[s])
    BY <1>5, ProcessEffect
  <2>2. Applied = Len(log) - 1 /\ Applied' = Len(log)
    BY <1>1, <2>1 DEF Applied, Finish
  <2>3. Len(log) \in DOMAIN log /\ log[Len(log)] = msg[s]
    BY <2>1, ProcessingTyped DEF LastEntry, MapInv
  <2>4. Replay[Len(log)] = D!Effect(Replay[Len(log) - 1], msg[s])
    <3>1. Len(log) \in Nat /\ Len(log) \in 1..Len(log)
      BY <1>1, <2>3
    <3>2. Replay[Len(log)] = D!Effect(Replay[Len(log) - 1], log[Len(log)])
      BY <3>1, StepsUnfold DEF Audited
    <3> QED
      BY <2>3, <3>2
  <2>5. Replay' = Replay /\ Steps(Replay, log)'
    BY <2>1 DEF Replay, Audited, Steps
  <2> QED
    BY <2>1, <2>2, <2>4, <2>5 DEF Audited
<1>6. (\E a \in Actors : CryptoShred(a)) \/ Crash => FALSE
  BY DEF CryptoShred, Crash, Auditable, Undisturbed
<1>7. CASE UNCHANGED vars
  <2>1. UNCHANGED <<actors, public_keys, log, pc>>
    BY <1>7 DEF vars
  <2> QED
    BY <2>1, AccountsFrame, AuditedFrame DEF Applied
<1> QED
  BY <1>2, <1>4, <1>5, <1>6, <1>7 DEF Next

\* An auditor who replays the public log from the start obtains the accounts the
\* server serves (docs/README.md:19), for a log of any length: nothing the server
\* does to an account is missing from the log, and nothing in it means another thing.
THEOREM LogIsTheDirectory == ASSUME Auditable PROVE Spec => []ReplayMatches
<1>1. OneRequest
  BY DEF Auditable, Undisturbed
<1>2. Init => LastEntry /\ MsgsAllowed /\ Audited
  BY AuditedInit DEF Init, LastEntry, MsgsAllowed
<1>3. IndInv /\ LastEntry /\ MsgsAllowed /\ [Next]_vars => LastEntry' /\ MsgsAllowed'
  BY <1>1, Mapped, LastEntryNext, MsgsAllowedNext
<1>4. IndInv /\ IndInv' /\ LastEntry /\ MsgsAllowed /\ Audited /\ [Next]_vars => Audited'
  BY Mapped, MappedNext, AuditedNext
<1>5. Audited => ReplayMatches
  <2> SUFFICES ASSUME Audited, \A s \in Slots : pc[s] = "idle"
               PROVE  accounts = Replay[Len(log)]
    BY DEF ReplayMatches
  <2> QED
    BY DEF Audited, Applied
<1> QED
  BY <1>2, <1>3, <1>4, <1>5, Safety, PTL DEF Spec
=============================================================================
