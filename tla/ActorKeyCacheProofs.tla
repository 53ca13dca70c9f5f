------------------------- MODULE ActorKeyCacheProofs -------------------------
(***************************************************************************)
(* What ActorKeyCache accepts and keeps, for every set of keyIds and of    *)
(* requests and any number of keys per actor.                              *)
(***************************************************************************)
EXTENDS ActorKeyCache, TLAPS

(* AcceptedWasServed is not inductive: the key a request is verified with was
   cached, or read from a document, long before.  Each key on its way there is
   one the document has named since the process started.                      *)

DocumentServed == \A id \in Ids : document[id] # None => document[id] \in served[id]

CacheServed == \A id \in Ids : cache[id] # None => cache[id] \in served[id]

RequestServed(r) ==
    /\ req[r].at # "idle" => req[r].id \in Ids
    /\ req[r].at = "answered" /\ req[r].key # None => req[r].key \in served[req[r].id]
    /\ req[r].at = "verify" => req[r].key \in served[req[r].id]
    /\ req[r].at = "accepted" => req[r].signer \in served[req[r].id]

RequestsServed == \A r \in Requests : RequestServed(r)

Inv == TypeOK /\ DocumentServed /\ CacheServed /\ RequestsServed

-----------------------------------------------------------------------------
\* The state of a request has the fields the actions replace.
ReqState == [at : {"idle", "arrived", "fetching", "answered", "verify", "accepted"},
             id : Ids \cup {NoId}, signer : KeyOrNone, key : KeyOrNone]

\* An idle request satisfies every conjunct about requests.
LEMMA IdleState == Idle \in ReqState /\ Idle.at = "idle"
BY DEF Idle, ReqState, KeyOrNone

\* A step that replaces the state of one request keeps the others' types.
LEMMA OneRequest ==
    ASSUME NEW r \in Requests, NEW q \in ReqState, req \in [Requests -> ReqState],
           req' = [req EXCEPT ![r] = q]
    PROVE  /\ req' \in [Requests -> ReqState]
           /\ req'[r] = q
           /\ \A other \in Requests \ {r} : req'[other] = req[other]
OBVIOUS

\* A step that only ends a request keeps the invariant.
LEMMA ForbidKeeps ==
    ASSUME Inv, NEW r \in Requests, Forbid(r)
    PROVE  Inv'
<1>1. req \in [Requests -> ReqState]
  BY DEF Inv, TypeOK, ReqState
<1>2. req' = [req EXCEPT ![r] = Idle] /\ UNCHANGED <<latest, document, served, cache>>
  BY DEF Forbid
<1>3. /\ req' \in [Requests -> ReqState]
      /\ req'[r] = Idle
      /\ \A other \in Requests \ {r} : req'[other] = req[other]
  BY <1>1, <1>2, IdleState, OneRequest
<1>4. TypeOK'
  BY <1>2, <1>3 DEF Inv, TypeOK, ReqState
<1>5. DocumentServed' /\ CacheServed'
  BY <1>2 DEF Inv, DocumentServed, CacheServed
<1>6. RequestsServed'
  BY <1>2, <1>3, IdleState DEF Inv, RequestsServed, RequestServed
<1> QED
  BY <1>4, <1>5, <1>6 DEF Inv

\* A step that moves request r on to q, and adds nothing to what documents have named,
\* keeps the invariant if q does.
LEMMA MoveKeeps ==
    ASSUME Inv, NEW r \in Requests, NEW q \in ReqState,
           req' = [req EXCEPT ![r] = q],
           UNCHANGED <<latest, document, served, cache>>,
           q.at # "idle" => q.id \in Ids,
           q.at = "answered" /\ q.key # None => q.key \in served[q.id],
           q.at = "verify" => q.key \in served[q.id],
           q.at = "accepted" => q.signer \in served[q.id]
    PROVE  Inv'
<1>1. req \in [Requests -> ReqState]
  BY DEF Inv, TypeOK, ReqState
<1>2. /\ req' \in [Requests -> ReqState]
      /\ req'[r] = q
      /\ \A other \in Requests \ {r} : req'[other] = req[other]
  BY <1>1, OneRequest
<1>3. TypeOK'
  BY <1>2 DEF Inv, TypeOK, ReqState
<1>4. DocumentServed' /\ CacheServed'
  BY DEF Inv, DocumentServed, CacheServed
<1>5. RequestsServed'
  <2> SUFFICES ASSUME NEW other \in Requests PROVE RequestServed(other)'
    BY DEF RequestsServed
  <2>1. CASE other = r
    BY <2>1, <1>2 DEF RequestServed
  <2>2. CASE other # r
    BY <2>2, <1>2 DEF Inv, RequestsServed, RequestServed
  <2> QED
    BY <2>1, <2>2
<1> QED
  BY <1>3, <1>4, <1>5 DEF Inv

-----------------------------------------------------------------------------
(* The steps of the actors' servers, which only add to what was named.     *)

LEMMA NameKeeps ==
    ASSUME Inv, NEW id \in Ids,
           latest' \in [Ids -> 0..MaxVersions], latest'[id] \in 1..MaxVersions, Name(id)
    PROVE  Inv'
<1> DEFINE key == [id |-> id, version |-> latest'[id]]
<1>1. key \in Key
  BY DEF Key
<1>2. /\ document' = [document EXCEPT ![id] = key]
      /\ served' = [served EXCEPT ![id] = @ \cup {key}]
      /\ cache' = cache /\ req' = req
  BY DEF Name
<1> HIDE DEF key
<1>3. /\ document \in [Ids -> KeyOrNone] /\ served \in [Ids -> SUBSET Key]
      /\ cache \in [Ids -> KeyOrNone] /\ req \in [Requests -> ReqState]
  BY DEF Inv, TypeOK, ReqState
<1>4. /\ document' \in [Ids -> KeyOrNone] /\ served' \in [Ids -> SUBSET Key]
      /\ \A i \in Ids : served[i] \subseteq served'[i]
      /\ key \in served'[id]
  BY <1>1, <1>2, <1>3 DEF KeyOrNone
<1>5. TypeOK'
  BY <1>2, <1>3, <1>4 DEF TypeOK, ReqState
<1>6. DocumentServed'
  <2> SUFFICES ASSUME NEW i \in Ids, document'[i] # None PROVE document'[i] \in served'[i]
    BY DEF DocumentServed
  <2>1. CASE i = id
    BY <2>1, <1>2, <1>3, <1>4
  <2>2. CASE i # id
    BY <2>2, <1>2, <1>3, <1>4 DEF Inv, DocumentServed
  <2> QED
    BY <2>1, <2>2
<1>7. CacheServed'
  BY <1>2, <1>4 DEF Inv, CacheServed
<1>8. RequestsServed'
  BY <1>2, <1>4 DEF Inv, RequestsServed, RequestServed
<1> QED
  BY <1>5, <1>6, <1>7, <1>8 DEF Inv

LEMMA WithdrawKeeps ==
    ASSUME Inv, NEW id \in Ids, Withdraw(id)
    PROVE  Inv'
<1>1. /\ document' = [document EXCEPT ![id] = None]
      /\ UNCHANGED <<latest, served, cache, req>>
  BY DEF Withdraw
<1>2. document \in [Ids -> KeyOrNone]
  BY DEF Inv, TypeOK
<1>3. document' \in [Ids -> KeyOrNone]
  BY <1>1, <1>2 DEF KeyOrNone
<1>4. TypeOK'
  BY <1>1, <1>3 DEF Inv, TypeOK
<1>5. DocumentServed'
  BY <1>1, <1>2 DEF Inv, DocumentServed
<1>6. CacheServed' /\ RequestsServed'
  BY <1>1 DEF Inv, CacheServed, RequestsServed, RequestServed
<1> QED
  BY <1>4, <1>5, <1>6 DEF Inv

LEMMA StoreKeeps ==
    ASSUME Inv, NEW r \in Requests, Store(r)
    PROVE  Inv'
<1> DEFINE id == req[r].id
           key == req[r].key
           q == [req[r] EXCEPT !.at = "verify"]
<1>1. req \in [Requests -> ReqState]
  BY DEF Inv, TypeOK, ReqState
<1>2. id \in Ids /\ key \in served[id] /\ key \in KeyOrNone
  BY <1>1 DEF Inv, RequestsServed, RequestServed, Store, ReqState
<1>3. q \in ReqState /\ q.at = "verify" /\ q.id = id /\ q.key = key
  BY <1>1 DEF ReqState
<1>4. /\ cache' = [cache EXCEPT ![id] = key]
      /\ req' = [req EXCEPT ![r] = q]
      /\ UNCHANGED <<latest, document, served>>
  BY DEF Store
<1> HIDE DEF id, key, q
<1>5. /\ req' \in [Requests -> ReqState]
      /\ req'[r] = q
      /\ \A other \in Requests \ {r} : req'[other] = req[other]
  BY <1>1, <1>3, <1>4, OneRequest
<1>6. cache \in [Ids -> KeyOrNone]
  BY DEF Inv, TypeOK
<1>7. cache' \in [Ids -> KeyOrNone]
  BY <1>2, <1>4, <1>6
<1>8. TypeOK'
  BY <1>4, <1>5, <1>7 DEF Inv, TypeOK, ReqState
<1>9. DocumentServed'
  BY <1>4 DEF Inv, DocumentServed
<1>10. CacheServed'
  BY <1>2, <1>4, <1>6 DEF Inv, CacheServed
<1>11. RequestsServed'
  <2> SUFFICES ASSUME NEW other \in Requests PROVE RequestServed(other)'
    BY DEF RequestsServed
  <2>1. CASE other = r
    BY <2>1, <1>2, <1>3, <1>4, <1>5 DEF RequestServed
  <2>2. CASE other # r
    BY <2>2, <1>4, <1>5 DEF Inv, RequestsServed, RequestServed
  <2> QED
    BY <2>1, <2>2
<1> QED
  BY <1>8, <1>9, <1>10, <1>11 DEF Inv

LEMMA RestartKeeps ==
    ASSUME Inv, Restart
    PROVE  Inv'
<1>1. /\ cache' = [id \in Ids |-> None]
      /\ req' = [r \in Requests |-> Idle]
      /\ served' = [id \in Ids |-> {document[id]} \ {None}]
      /\ UNCHANGED <<latest, document>>
  BY DEF Restart
<1>2. \A id \in Ids : document[id] \in KeyOrNone
  BY DEF Inv, TypeOK
<1>3. TypeOK'
  <2>1. served' \in [Ids -> SUBSET Key]
    BY <1>1, <1>2 DEF KeyOrNone
  <2>2. cache' \in [Ids -> KeyOrNone]
    BY <1>1 DEF KeyOrNone
  <2>3. req' \in [Requests -> ReqState]
    BY <1>1, IdleState
  <2> QED
    BY <1>1, <2>1, <2>2, <2>3 DEF Inv, TypeOK, ReqState
<1>4. DocumentServed' /\ CacheServed'
  BY <1>1 DEF DocumentServed, CacheServed
<1>5. RequestsServed'
  BY <1>1, IdleState DEF RequestsServed, RequestServed
<1> QED
  BY <1>3, <1>4, <1>5 DEF Inv

-----------------------------------------------------------------------------
LEMMA InvInit == Init => Inv
<1> SUFFICES ASSUME Init PROVE Inv
  OBVIOUS
<1>1. TypeOK
  <2>1. req \in [Requests -> ReqState]
    BY IdleState DEF Init
  <2>2. 0 \in 0..MaxVersions
    BY ConstantsAssumption
  <2> QED
    BY <2>1, <2>2 DEF Init, TypeOK, ReqState, KeyOrNone
<1>2. DocumentServed /\ CacheServed
  BY DEF Init, DocumentServed, CacheServed
<1>3. RequestsServed
  BY IdleState DEF Init, RequestsServed, RequestServed
<1> QED
  BY <1>1, <1>2, <1>3 DEF Inv

\* One step per action of Next.
LEMMA InvNext == Inv /\ [Next]_vars => Inv'
<1> SUFFICES ASSUME Inv, [Next]_vars PROVE Inv'
  OBVIOUS
<1>1. ASSUME NEW id \in Ids, Publish(id) PROVE Inv'
  <2>1. latest \in [Ids -> 0..MaxVersions] /\ MaxVersions \in Nat
    BY ConstantsAssumption DEF Inv, TypeOK
  <2>2. latest' \in [Ids -> 0..MaxVersions] /\ latest'[id] \in 1..MaxVersions /\ Name(id)
    BY <1>1, <2>1 DEF Publish
  <2> QED
    BY <2>2, NameKeeps
<1>2. ASSUME NEW id \in Ids, Withdraw(id) PROVE Inv'
  BY <1>2, WithdrawKeeps
<1>3. ASSUME NEW id \in Ids, Return(id) PROVE Inv'
  <2>1. latest \in [Ids -> 0..MaxVersions] /\ MaxVersions \in Nat
    BY ConstantsAssumption DEF Inv, TypeOK
  <2>2. latest' \in [Ids -> 0..MaxVersions] /\ latest'[id] \in 1..MaxVersions /\ Name(id)
    BY <1>3, <2>1 DEF Return
  <2> QED
    BY <2>2, NameKeeps
<1>4. Restart => Inv'
  BY RestartKeeps
<1>5. ASSUME NEW r \in Requests PROVE RemoteAnswers(r) \/ Serve(r) \/ Handle(r) => Inv'
  <2>1. /\ req[r] \in ReqState
        /\ req[r].at # "idle" => req[r].id \in Ids
        /\ RequestServed(r)
    BY DEF Inv, TypeOK, ReqState, RequestsServed, RequestServed
  <2>2. ASSUME RemoteAnswers(r) PROVE Inv'
    <3> DEFINE q == [req[r] EXCEPT !.at = "answered", !.key = document[req[r].id]]
    <3>1. req[r].id \in Ids /\ document[req[r].id] \in KeyOrNone
      BY <2>1, <2>2 DEF Inv, TypeOK, RemoteAnswers
    <3>2. /\ q \in ReqState /\ q.at = "answered" /\ q.id = req[r].id
          /\ q.key = document[req[r].id]
      BY <2>1, <3>1 DEF ReqState
    <3>3. q.key # None => q.key \in served[q.id]
      BY <3>1, <3>2 DEF Inv, DocumentServed
    <3>4. req' = [req EXCEPT ![r] = q] /\ UNCHANGED <<latest, document, served, cache>>
      BY <2>2 DEF RemoteAnswers
    <3> HIDE DEF q
    <3> QED
      BY <3>1, <3>2, <3>3, <3>4, MoveKeeps
  <2>3. ASSUME Load(r) PROVE Inv'
    <3> DEFINE q == [req[r] EXCEPT !.at = "verify", !.key = cache[req[r].id]]
    <3>1. req[r].id \in Ids /\ cache[req[r].id] \in KeyOrNone
      BY <2>1, <2>3 DEF Inv, TypeOK, Load
    <3>2. q \in ReqState /\ q.at = "verify" /\ q.id = req[r].id /\ q.key = cache[req[r].id]
      BY <2>1, <3>1 DEF ReqState
    <3>3. q.key \in served[q.id]
      BY <2>3, <3>1, <3>2 DEF Inv, CacheServed, Load
    <3>4. req' = [req EXCEPT ![r] = q] /\ UNCHANGED <<latest, document, served, cache>>
      BY <2>3 DEF Load
    <3> HIDE DEF q
    <3> QED
      BY <3>1, <3>2, <3>3, <3>4, MoveKeeps
  <2>4. ASSUME Fetch(r) PROVE Inv'
    <3> DEFINE q == [req[r] EXCEPT !.at = "fetching"]
    <3>1. q \in ReqState /\ q.at = "fetching" /\ q.id \in Ids
      BY <2>1, <2>4 DEF ReqState, Fetch
    <3>2. req' = [req EXCEPT ![r] = q] /\ UNCHANGED <<latest, document, served, cache>>
      BY <2>4 DEF Fetch
    <3> HIDE DEF q
    <3> QED
      BY <3>1, <3>2, MoveKeeps
  <2>5. ASSUME Verified(r) PROVE Inv'
    <3> DEFINE q == [req[r] EXCEPT !.at = "accepted"]
    <3>1. q \in ReqState /\ q.at = "accepted" /\ q.id = req[r].id /\ q.signer = req[r].signer
      BY <2>1 DEF ReqState
    <3>2. req[r].id \in Ids /\ req[r].signer \in served[req[r].id]
      BY <2>1, <2>5 DEF RequestServed, Verified
    <3>3. req' = [req EXCEPT ![r] = q] /\ UNCHANGED <<latest, document, served, cache>>
      BY <2>5 DEF Verified
    <3> HIDE DEF q
    <3> QED
      BY <3>1, <3>2, <3>3, MoveKeeps
  <2>6. Store(r) => Inv'
    BY StoreKeeps
  <2>7. InvalidURL(r) \/ Timeout(r) \/ NoKey(r) \/ WrongSignature(r) \/ Handle(r) => Inv'
    BY ForbidKeeps DEF InvalidURL, Timeout, NoKey, WrongSignature, Handle
  <2> QED
    BY <2>2, <2>3, <2>4, <2>5, <2>6, <2>7 DEF Serve
<1>6. ASSUME NEW r \in Requests, NEW id \in Ids, NEW signer \in Signers, Arrive(r, id, signer)
      PROVE  Inv'
  <2> DEFINE q == [Idle EXCEPT !.at = "arrived", !.id = id, !.signer = signer]
  <2>1. signer \in KeyOrNone
    <3>1. \A i \in Ids : 1..latest[i] \subseteq 1..MaxVersions
      BY ConstantsAssumption DEF Inv, TypeOK
    <3> QED
      BY <3>1 DEF Signers, KeyOrNone, Key
  <2>2. q \in ReqState /\ q.at = "arrived" /\ q.id = id
    BY <2>1 DEF Idle, ReqState, KeyOrNone
  <2>3. req' = [req EXCEPT ![r] = q] /\ UNCHANGED <<latest, document, served, cache>>
    BY <1>6 DEF Arrive
  <2> HIDE DEF q
  <2> QED
    BY <2>2, <2>3, MoveKeeps
<1>7. UNCHANGED vars => Inv'
  BY DEF vars, Inv, TypeOK, DocumentServed, CacheServed, RequestsServed, RequestServed
<1> QED
  BY <1>1, <1>2, <1>3, <1>4, <1>5, <1>6, <1>7 DEF Next

\* The cache, the documents and the requests keep their shapes: TypeOK.
THEOREM TypeCorrect == Spec => []TypeOK
<1>1. Inv => TypeOK
  BY DEF Inv
<1> QED
  BY <1>1, InvInit, InvNext, PTL DEF Spec

\* fetchActorPublicKey and the check after it let only keys of the actor's own document
\* pass: AcceptedWasServed.
THEOREM OnlyServedKeysPass == Spec => []AcceptedWasServed
<1>1. Inv => AcceptedWasServed
  BY DEF Inv, RequestsServed, RequestServed, AcceptedWasServed
<1> QED
  BY <1>1, InvInit, InvNext, PTL DEF Spec

\* A key that is cached with no fetch under way stays until the process ends:
\* SettledStays.
THEOREM CacheSettles == Spec => SettledStays
<1>1. Inv /\ [Next]_vars =>
        [\A id \in Ids : Settled(id) =>
            \/ Settled(id)' /\ cache'[id] = cache[id]
            \/ \A other \in Ids : cache'[other] = None]_vars
  <2> SUFFICES ASSUME Inv, Next, NEW id \in Ids, Settled(id)
      PROVE  \/ Settled(id)' /\ cache'[id] = cache[id]
             \/ \A other \in Ids : cache'[other] = None
    OBVIOUS
  <2> DEFINE Busy(r) == req[r].at \in {"fetching", "answered"}
  <2>1. /\ req \in [Requests -> ReqState] /\ cache \in [Ids -> KeyOrNone]
        /\ cache[id] # None
        /\ \A r \in Requests : Busy(r) => req[r].id # id
    BY DEF Inv, TypeOK, ReqState, Settled
  <2>2. CASE Restart
    BY <2>2 DEF Restart
  <2>3. ASSUME NEW i \in Ids, Publish(i) \/ Withdraw(i) \/ Return(i)
        PROVE  Settled(id)' /\ cache'[id] = cache[id]
    <3>1. UNCHANGED <<cache, req>>
      BY <2>3 DEF Publish, Withdraw, Return, Name
    <3> QED
      BY <3>1 DEF Settled
  <2>4. ASSUME NEW r \in Requests, NEW q,
               req' = [req EXCEPT ![r] = q], cache' = cache,
               q.at \in {"fetching", "answered"} => q.id # id
        PROVE  Settled(id)' /\ cache'[id] = cache[id]
    BY <2>1, <2>4 DEF Settled
  <2>5. ASSUME NEW r \in Requests, RemoteAnswers(r)
        PROVE  Settled(id)' /\ cache'[id] = cache[id]
    <3> DEFINE q == [req[r] EXCEPT !.at = "answered", !.key = document[req[r].id]]
    <3>1. q.id # id
      BY <2>1, <2>5 DEF RemoteAnswers, ReqState
    <3>2. req' = [req EXCEPT ![r] = q] /\ cache' = cache
      BY <2>5 DEF RemoteAnswers
    <3> HIDE DEF q
    <3> QED
      BY <3>1, <3>2, <2>4
  <2>6. ASSUME NEW r \in Requests, Fetch(r)
        PROVE  Settled(id)' /\ cache'[id] = cache[id]
    <3> DEFINE q == [req[r] EXCEPT !.at = "fetching"]
    <3>1. q.id # id
      BY <2>1, <2>6 DEF Fetch, ReqState
    <3>2. req' = [req EXCEPT ![r] = q] /\ cache' = cache
      BY <2>6 DEF Fetch
    <3> HIDE DEF q
    <3> QED
      BY <3>1, <3>2, <2>4
  <2>7. ASSUME NEW r \in Requests, Load(r)
        PROVE  Settled(id)' /\ cache'[id] = cache[id]
    <3> DEFINE q == [req[r] EXCEPT !.at = "verify", !.key = cache[req[r].id]]
    <3>1. q.at = "verify"
      BY <2>1 DEF ReqState
    <3>2. req' = [req EXCEPT ![r] = q] /\ cache' = cache
      BY <2>7 DEF Load
    <3> HIDE DEF q
    <3> QED
      BY <3>1, <3>2, <2>4
  <2>8. ASSUME NEW r \in Requests, Verified(r)
        PROVE  Settled(id)' /\ cache'[id] = cache[id]
    <3> DEFINE q == [req[r] EXCEPT !.at = "accepted"]
    <3>1. q.at = "accepted"
      BY <2>1 DEF ReqState
    <3>2. req' = [req EXCEPT ![r] = q] /\ cache' = cache
      BY <2>8 DEF Verified
    <3> HIDE DEF q
    <3> QED
      BY <3>1, <3>2, <2>4
  <2>9. ASSUME NEW r \in Requests, Forbid(r)
        PROVE  Settled(id)' /\ cache'[id] = cache[id]
    BY <2>9, <2>4, IdleState DEF Forbid
  <2>10. ASSUME NEW r \in Requests, Store(r)
         PROVE  Settled(id)' /\ cache'[id] = cache[id]
    <3>1. req[r].id # id
      BY <2>1, <2>10 DEF Store
    <3>2. cache'[id] = cache[id]
      BY <3>1, <2>1, <2>10 DEF Store
    <3>3. \A other \in Requests : req'[other] = req[other] \/ req'[other].at = "verify"
      BY <2>1, <2>10 DEF Store, ReqState
    <3> QED
      BY <2>1, <3>2, <3>3 DEF Settled
  <2>11. ASSUME NEW r \in Requests, NEW i \in Ids, NEW signer \in Signers, Arrive(r, i, signer)
         PROVE  Settled(id)' /\ cache'[id] = cache[id]
    <3> DEFINE q == [Idle EXCEPT !.at = "arrived", !.id = i, !.signer = signer]
    <3>1. q.at = "arrived"
      BY DEF Idle
    <3>2. req' = [req EXCEPT ![r] = q] /\ cache' = cache
      BY <2>11 DEF Arrive
    <3> HIDE DEF q
    <3> QED
      BY <3>1, <3>2, <2>4
  <2> QED
    BY <2>2, <2>3, <2>5, <2>6, <2>7, <2>8, <2>9, <2>10, <2>11
       DEF Next, Serve, InvalidURL, Timeout, NoKey, WrongSignature, Handle
<1> QED
  BY <1>1, InvInit, InvNext, PTL DEF Spec, SettledStays
=============================================================================
