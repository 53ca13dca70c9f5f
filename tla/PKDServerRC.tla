----------------------------- MODULE PKDServerRC -----------------------------
(***************************************************************************)
(* The third phase of PKDServer as PostgreSQL runs it: the transactions of *)
(* internal/domain/service.go are statements of internal/db/postgres.go at *)
(* the default isolation, READ COMMITTED, and statements of different      *)
(* transactions interleave.                                                *)
(*                                                                         *)
(* Every statement reads what is committed when it starts.  A write locks  *)
(* its row to the end of the transaction; a statement that meets a row or  *)
(* a UNIQUE name in doubt waits, which here is a step that is not enabled, *)
(* and then looks at the row's new version.  Own writes are never read     *)
(* back by these transactions, so they are applied when they commit.       *)
(***************************************************************************)
EXTENDS PKDServerDirectory

CONSTANT Administrator   \* POST /admin/crypto-shred or pkd-admin, its own transaction

ASSUME AdministratorAssumption == Administrator \notin Slots

VARIABLE tx   \* the transaction of each request and of the administrator

varsRC == <<vars, tx>>

Transactions == Slots \cup {Administrator}

NoTx == [at      |-> "begin",  \* the statement to come
         actor   |-> 0,        \* id of the actors row it found
         lock    |-> {},       \* actors rows it holds
         name    |-> {},       \* names it put in the UNIQUE index, uncommitted
         hashes  |-> {},       \* GetMessageHashesForActor's answer
         deleted |-> {},       \* message hashes whose symmetric keys it deleted
         rows    |-> {},       \* key rows its UPDATE has yet to reach
         held    |-> {},       \* key rows its UPDATE wrote
         aux     |-> {}]       \* the auxiliary row its UPDATE wrote

TxRecord == [at      : {"begin", "create", "insert", "update", "hashes", "delete", "revoke",
                        "rename", "claim", "renamed", "auxfound", "auxheld"},
             actor   : Nat,
             lock    : SUBSET Nat,
             name    : SUBSET Actors,
             hashes  : SUBSET (Nat \cup {AdminRoot}),
             deleted : SUBSET Nat,
             rows    : SUBSET Nat,
             held    : SUBSET Nat,
             aux     : SUBSET Nat]

InitRC == Init /\ tx = [t \in Transactions |-> NoTx]

-----------------------------------------------------------------------------
(* Statements, locks and the two ends of a transaction.                    *)

\* A statement that changes nothing others can see but locks.
Statement(t, changed) == tx' = [tx EXCEPT ![t] = changed] /\ UNCHANGED vars

\* The administrator's transaction is a burn; a request's runs its message's action.
Runs(t, action) == IF t = Administrator THEN action = "BurnDown" ELSE Processing(t, action)

\* Between BEGIN and COMMIT or ROLLBACK.
Running(t) == IF t = Administrator THEN tx[t].at # "begin" ELSE pc[t] = "logged"

\* FOR UPDATE is forgotten: the row is read whoever holds it.
Free_mut(row, t) == TRUE

Free(row, t) == \A u \in Transactions \ {t} : row \notin tx[u].lock

\* Names that another transaction takes, or gives up, without having committed.
InDoubt(a, t) ==
    \E u \in Transactions \ {t} :
        \/ a \in tx[u].name
        \/ /\ Runs(u, "MoveIdentity")
           /\ \E r \in tx[u].lock : actors[r].actor_id = a

\* The transaction is over, and with it the request that ran it.
End(t) ==
    /\ tx' = [tx EXCEPT ![t] = NoTx]
    /\ IF t = Administrator THEN UNCHANGED requests ELSE Finish(t)

Rollback(t) == End(t) /\ UNCHANGED <<database, log>>

-----------------------------------------------------------------------------
(* AddKey and AddAuxData: SELECT ... FOR UPDATE, INSERT INTO actors, then   *)
(* inserts nobody waits for and COMMIT.                                     *)

NeedsActor(s) ==
    /\ pc[s] = "logged"
    /\ \/ msg[s].action = "AddKey" /\ msg[s].symmetric_keys # "bad"
       \/ msg[s].action = "AddAuxData" /\ msg[s].valid

SelectActor(s) ==
    /\ NeedsActor(s)
    /\ tx[s].at = "begin"
    /\ IF ActorExists(msg[s].actor)
       THEN LET r == ActorID(actors, msg[s].actor)
            IN  /\ Free(r, s)
                /\ Statement(s, [tx[s] EXCEPT !.at = "insert", !.actor = r, !.lock = {r}])
       ELSE Statement(s, [tx[s] EXCEPT !.at = "create"])

\* The actors table has lost its UNIQUE constraint.
InsertActor_mut(s) ==
    /\ tx[s].at = "create"
    /\ Statement(s, [tx[s] EXCEPT !.at = "insert", !.name = {msg[s].actor}])

InsertActor(s) ==
    /\ tx[s].at = "create"
    /\ ~InDoubt(msg[s].actor, s)
    /\ ~ActorExists(msg[s].actor)
    /\ Statement(s, [tx[s] EXCEPT !.at = "insert", !.name = {msg[s].actor}])

\* The id of the actor's row when the transaction commits.
CommittedActor(s) == IF tx[s].name = {} THEN tx[s].actor ELSE Len(actors')

CommitActor(s) ==
    actors' = IF tx[s].name = {} THEN actors
              ELSE Append(actors, [actor_id |-> msg[s].actor, is_fireproof |-> FALSE])

CommitAddKey(s) ==
    /\ tx[s].at = "insert"
    /\ Processing(s, "AddKey")
    /\ CommitActor(s)
    /\ public_keys' = Append(public_keys,
          [actor_id    |-> CommittedActor(s),
           public_key  |-> msg[s].public_key,
           merkle_root |-> root[s],
           revoke_root |-> NoRoot])
    /\ symmetric_keys' = StoreSymmetricKeys(msg[s], root[s])
    /\ End(s)
    /\ UNCHANGED <<auxiliary_data, log>>

CommitAddAuxData(s) ==
    /\ tx[s].at = "insert"
    /\ Processing(s, "AddAuxData")
    /\ CommitActor(s)
    /\ auxiliary_data' = Append(auxiliary_data,
          [actor_id    |-> CommittedActor(s),
           merkle_root |-> root[s],
           revoke_root |-> NoRoot])
    /\ End(s)
    /\ UNCHANGED <<public_keys, symmetric_keys, log>>

-----------------------------------------------------------------------------
(* Statements that write key rows take them one at a time, in the order of *)
(* the table, each to the end of the transaction.                          *)

\* The rows are taken in the order of some other plan.
NextRow_mut(rows) == rows

NextRow(rows) == {i \in rows : \A j \in rows : i <= j}

\* A row revoked in the meantime is written again.
StillWanted_mut(t, i) == TRUE

\* The version of the row found after a wait is judged again: RevokeKey asks for
\* the id only, RevokeAllKeysForActor for revoked_at IS NULL too.
StillWanted(t, i) ==
    \/ Runs(t, "RevokeKey")
    \/ public_keys[i].revoke_root = NoRoot

WriteKeyRow(t) ==
    /\ tx[t].at = "update"
    /\ \E i \in NextRow(tx[t].rows) :
          /\ \A u \in Transactions \ {t} : i \notin tx[u].held
          /\ Statement(t, [tx[t] EXCEPT !.rows = @ \ {i},
                                        !.held = IF StillWanted(t, i) THEN @ \cup {i} ELSE @])

\* The key rows written become visible.
CommitKeyRows(t, r) ==
    /\ tx[t].at = "update"
    /\ tx[t].rows = {}
    /\ public_keys' = [i \in DOMAIN public_keys |->
          IF i \in tx[t].held THEN [public_keys[i] EXCEPT !.revoke_root = r] ELSE public_keys[i]]

\* The rows are updated by public_key rather than by id.
SelectKeyToRevoke_mut(s) ==
    /\ Processing(s, "RevokeKey")
    /\ msg[s].symmetric_keys # "bad"
    /\ tx[s].at = "begin"
    /\ FindKeyToRevoke(msg[s].actor, msg[s].public_key) # {}
    /\ Statement(s, [tx[s] EXCEPT !.at = "update",
                                  !.rows = FindKeyToRevoke(msg[s].actor, msg[s].public_key)])

\* RevokeKey: a plain SELECT picks the row, the UPDATE names it by id.
SelectKeyToRevoke(s) ==
    /\ Processing(s, "RevokeKey")
    /\ msg[s].symmetric_keys # "bad"
    /\ tx[s].at = "begin"
    /\ \E i \in FindKeyToRevoke(msg[s].actor, msg[s].public_key) :
          Statement(s, [tx[s] EXCEPT !.at = "update", !.rows = {i}])

CommitRevokeKey(s) ==
    /\ Processing(s, "RevokeKey")
    /\ CommitKeyRows(s, root[s])
    /\ symmetric_keys' = StoreSymmetricKeys(msg[s], root[s])
    /\ End(s)
    /\ UNCHANGED <<actors, auxiliary_data, log>>

-----------------------------------------------------------------------------
(* BurnDown and the administrator's crypto-shred: five statements, none of *)
(* which locks the actor's row.                                            *)

\* Who burns whom: a BurnDown request its actor, the administrator anybody.
Burns(t, a) ==
    /\ Runs(t, "BurnDown")
    /\ IF t = Administrator THEN a \in Shreddable ELSE a = msg[t].actor

FindActor(t) ==
    /\ tx[t].at = "begin"
    /\ \E a \in Actors :
          /\ Burns(t, a)
          /\ ActorExists(a)
          /\ Statement(t, [tx[t] EXCEPT !.at = "hashes", !.actor = ActorID(actors, a)])

GetMessageHashes(t) ==
    /\ tx[t].at = "hashes"
    /\ Statement(t, [tx[t] EXCEPT !.at = "delete",
                                  !.hashes = GetMessageHashesForActor(tx[t].actor)])

\* Waits for another burn that deleted some of the same symmetric keys.
DeleteSymmetricKeys(t) ==
    /\ tx[t].at = "delete"
    /\ \A u \in Transactions \ {t} : tx[u].deleted \cap tx[t].hashes = {}
    /\ Statement(t, [tx[t] EXCEPT !.at = "revoke", !.deleted = tx[t].hashes \cap symmetric_keys])

RevokeAllKeys(t) ==
    /\ tx[t].at = "revoke"
    /\ Statement(t, [tx[t] EXCEPT !.at = "update",
          !.rows = {i \in DOMAIN public_keys : /\ public_keys[i].actor_id = tx[t].actor
                                               /\ public_keys[i].revoke_root = NoRoot}])

CommitBurnDown(t) ==
    /\ Runs(t, "BurnDown")
    /\ CommitKeyRows(t, IF t = Administrator THEN AdminRoot ELSE root[t])
    /\ symmetric_keys' = symmetric_keys \ tx[t].deleted
    /\ End(t)
    /\ UNCHANGED <<actors, auxiliary_data, log>>

-----------------------------------------------------------------------------
(* MoveIdentity: a check that the new name is free, an UPDATE that locks   *)
(* the row and then enters the new name in the UNIQUE index.               *)

CheckNewActor(s) ==
    /\ Processing(s, "MoveIdentity")
    /\ tx[s].at = "begin"
    /\ ~ActorExists(msg[s].new_actor)
    /\ Statement(s, [tx[s] EXCEPT !.at = "rename"])

LockOldActor(s) ==
    /\ tx[s].at = "rename"
    /\ ActorExists(msg[s].old_actor)
    /\ LET r == ActorID(actors, msg[s].old_actor)
       IN  /\ Free(r, s)
           /\ Statement(s, [tx[s] EXCEPT !.at = "claim", !.lock = {r}])

EnterNewName(s) ==
    /\ tx[s].at = "claim"
    /\ ~InDoubt(msg[s].new_actor, s)
    /\ ~ActorExists(msg[s].new_actor)
    /\ Statement(s, [tx[s] EXCEPT !.at = "renamed", !.name = {msg[s].new_actor}])

CommitMoveIdentity(s) ==
    /\ tx[s].at = "renamed"
    /\ actors' = [r \in DOMAIN actors |->
          IF r \in tx[s].lock THEN [actors[r] EXCEPT !.actor_id = msg[s].new_actor] ELSE actors[r]]
    /\ End(s)
    /\ UNCHANGED <<public_keys, auxiliary_data, symmetric_keys, log>>

-----------------------------------------------------------------------------
(* RevokeAuxData: one UPDATE ... FROM actors (postgres.go:403).  It locks  *)
(* the auxiliary row, but only reads the actor's: what its snapshot called *)
(* the actor may have another name when it has the lock, or commits.       *)

FindAuxData(s) ==
    /\ Processing(s, "RevokeAuxData")
    /\ tx[s].at = "begin"
    /\ msg[s].aux_id \in LiveAux(msg[s].actor)
    /\ Statement(s, [tx[s] EXCEPT !.at = "auxfound"])

\* Another revocation of the row has committed, and revoked_at is not judged again.
LockAuxData_mut(s) ==
    /\ tx[s].at = "auxfound"
    /\ \A u \in Transactions \ {s} : msg[s].aux_id \notin tx[u].aux
    /\ Statement(s, [tx[s] EXCEPT !.at = "auxheld", !.aux = {msg[s].aux_id}])

\* After a wait revoked_at IS NULL is judged again, on the row's new version.
LockAuxData(s) ==
    /\ tx[s].at = "auxfound"
    /\ \A u \in Transactions \ {s} : msg[s].aux_id \notin tx[u].aux
    /\ auxiliary_data[msg[s].aux_id].revoke_root = NoRoot
    /\ Statement(s, [tx[s] EXCEPT !.at = "auxheld", !.aux = {msg[s].aux_id}])

CommitRevokeAuxData(s) ==
    /\ tx[s].at = "auxheld"
    /\ auxiliary_data' = [i \in DOMAIN auxiliary_data |->
          IF i \in tx[s].aux THEN [auxiliary_data[i] EXCEPT !.revoke_root = root[s]]
                            ELSE auxiliary_data[i]]
    /\ End(s)
    /\ UNCHANGED <<actors, public_keys, symmetric_keys, log>>

-----------------------------------------------------------------------------
(* One UPDATE of an actors row: nothing comes between its lock and its     *)
(* commit.                                                                 *)

UpdateFireproof(s) ==
    /\ \/ ProcessFireproof(s)
       \/ ProcessUndoFireproof(s)
    /\ Free(ActorID(actors, msg[s].actor), s)
    /\ UNCHANGED tx

-----------------------------------------------------------------------------
(* The ways a transaction is rolled back.                                  *)

\* A statement finds nothing to act on, or a name that is taken: 500, yet logged.
RejectRC(s) ==
    /\ pc[s] = "logged"
    /\ LET m == msg[s] IN
         \/ /\ tx[s].at = "begin"
            /\ \/ /\ m.action = "RevokeKey"
                  /\ m.symmetric_keys # "bad"
                  /\ FindKeyToRevoke(m.actor, m.public_key) = {}
               \/ m.action = "MoveIdentity" /\ ActorExists(m.new_actor)
               \/ /\ m.action \in {"BurnDown", "Fireproof", "UndoFireproof"}
                  /\ ~ActorExists(m.actor)
               \/ m.action = "AddAuxData" /\ ~m.valid
               \/ m.action = "RevokeAuxData" /\ m.aux_id \notin LiveAux(m.actor)
         \/ tx[s].at = "rename" /\ ~ActorExists(m.old_actor)
         \/ tx[s].at = "create" /\ ~InDoubt(m.actor, s) /\ ActorExists(m.actor)
         \/ tx[s].at = "claim" /\ ~InDoubt(m.new_actor, s) /\ ActorExists(m.new_actor)
         \/ tx[s].at = "auxfound" /\ auxiliary_data[m.aux_id].revoke_root # NoRoot
    /\ Rollback(s)

\* Any statement or the COMMIT fails: the connection, a timeout, a deadlock found.
StatementFails(t) ==
    /\ "database" \in Faults
    /\ Running(t)
    /\ Rollback(t)

\* The process dies: PostgreSQL rolls back what its connections had begun.
CrashRC == Crash /\ tx' = [t \in Transactions |-> NoTx]

ProcessRC(s) ==
    \/ RejectSymmetricKeys(s) /\ UNCHANGED tx
    \/ SelectActor(s) \/ InsertActor(s) \/ CommitAddKey(s) \/ CommitAddAuxData(s)
    \/ SelectKeyToRevoke(s) \/ CommitRevokeKey(s)
    \/ CheckNewActor(s) \/ LockOldActor(s) \/ EnterNewName(s) \/ CommitMoveIdentity(s)
    \/ FindAuxData(s) \/ LockAuxData(s) \/ CommitRevokeAuxData(s)
    \/ UpdateFireproof(s)
    \/ RejectRC(s)

Burn(t) ==
    \/ FindActor(t) \/ GetMessageHashes(t) \/ DeleteSymmetricKeys(t)
    \/ RevokeAllKeys(t) \/ CommitBurnDown(t)

\* What a transaction does next when nothing fails.
Advance(t) == Burn(t) \/ WriteKeyRow(t) \/ (t \in Slots /\ ProcessRC(t))

NextRC ==
    \/ \E s \in Slots : (Validate(s) \/ Submit(s)) /\ UNCHANGED tx
    \/ \E t \in Transactions : Advance(t) \/ StatementFails(t)
    \/ CrashRC

\* The goroutine goes on to its next statement, and PostgreSQL queues those who wait
\* for a row: a lock that is released again and again is granted in the end.  The
\* administrator need not begin.
Fairness ==
    /\ \A s \in Slots : SF_varsRC(Advance(s))
    /\ SF_varsRC(Running(Administrator) /\ Advance(Administrator))

SpecRC == InitRC /\ [][NextRC]_varsRC /\ Fairness

-----------------------------------------------------------------------------
(* What READ COMMITTED keeps.                                              *)

\* Waiting for a row: the transactions t waits for over key rows, symmetric keys or an
\* auxiliary row.
WaitsFor(t) ==
    {u \in Transactions \ {t} :
        \/ tx[t].at = "update" /\ NextRow(tx[t].rows) \cap tx[u].held # {}
        \/ tx[t].at = "delete" /\ tx[u].deleted \cap tx[t].hashes # {}
        \/ tx[t].at = "auxfound" /\ msg[t].aux_id \in tx[u].aux}

\* The tables keep the shapes of the core; only committed work is visible; no two
\* transactions hold one row, one name or one symmetric key.
TypeOKRC ==
    /\ TypeOK
    /\ tx \in [Transactions -> TxRecord]
    /\ \A t \in Transactions : \A u \in Transactions \ {t} :
         /\ tx[t].lock \cap tx[u].lock = {}
         /\ tx[t].name \cap tx[u].name = {}
         /\ tx[t].held \cap tx[u].held = {}
         /\ tx[t].deleted \cap tx[u].deleted = {}
         /\ tx[t].aux \cap tx[u].aux = {}

\* No deadlock over what is revoked: burns delete symmetric keys before they take key
\* rows and take the rows in one order, and a RevokeKey or a RevokeAuxData takes one row,
\* so the transactions of service.go never wait for each other in a circle there.
NoCircularWait ==
    \A waiting \in (SUBSET Transactions) \ {{}} :
        \E t \in waiting : WaitsFor(t) \cap waiting = {}

\* A revocation is final under concurrent UPDATEs too: a revoked row stays revoked,
\* and only the second of two RevokeKeys of that key may overwrite its root; a burn,
\* which judges revoked_at again after its wait (postgres.go:381), never does.  Nor does
\* the second of two RevokeAuxDatas of one row (postgres.go:410).
RevocationsStayStep ==
    /\ \A i \in DOMAIN public_keys :
         public_keys[i].revoke_root # NoRoot =>
             \/ public_keys'[i] = public_keys[i]
             \/ \E s \in Slots :
                  /\ Processing(s, "RevokeKey")
                  /\ msg[s].public_key = public_keys[i].public_key
                  /\ public_keys'[i] = [public_keys[i] EXCEPT !.revoke_root = root[s]]
    /\ \A i \in DOMAIN auxiliary_data :
         auxiliary_data[i].revoke_root # NoRoot => auxiliary_data'[i] = auxiliary_data[i]
RevocationsStay == [][RevocationsStayStep]_varsRC

\* A burn, a RevokeKey or a RevokeAuxData that commits although what it read is no longer
\* so: none locks the actor's row, and others may rename it, or commit key rows, while it
\* runs.
StaleRevokeKey(s) ==
    /\ CommitRevokeKey(s)
    /\ \A i \in FindKeyToRevoke(msg[s].actor, msg[s].public_key) : tx[s].held # {i}

BurnIsCurrent(t) ==
    LET r == tx[t].actor IN
    /\ \E a \in Actors : Burns(t, a) /\ ActorExists(a) /\ r = ActorID(actors, a)
    /\ tx[t].held = {i \in DOMAIN public_keys : /\ public_keys[i].actor_id = r
                                               /\ public_keys[i].revoke_root = NoRoot}
    /\ symmetric_keys \ tx[t].deleted = symmetric_keys \ GetMessageHashesForActor(r)

StaleBurn(t) == CommitBurnDown(t) /\ ~BurnIsCurrent(t)

\* The actor goes by another name by now.
StaleRevokeAuxData(s) ==
    /\ CommitRevokeAuxData(s)
    /\ msg[s].aux_id \notin LiveAux(msg[s].actor)

\* FOR UPDATE (postgres.go:272), the lock an UPDATE takes and UNIQUE make AddKey,
\* AddAuxData, MoveIdentity and the fireproof flag atomic: every step at READ COMMITTED is
\* one of the core's whole transactions, or changes no table, or is the commit of a
\* revocation (a burn, a RevokeKey, a RevokeAuxData) on stale rows.
Stale == \/ \E s \in Slots : StaleRevokeKey(s) \/ StaleRevokeAuxData(s)
         \/ \E t \in Transactions : StaleBurn(t)
AtomicButForRevocations == [][[Next]_vars \/ Stale]_varsRC

\* What the stale ones do to the directory: a RevokeKey (service.go:138) takes one key of
\* an account that has moved, or nothing; a burn (service.go:218) takes keys of a single
\* account, perhaps not all; a RevokeAuxData touches no key.  Nobody gains a key, no flag
\* and no name changes, and a published message still acts at one instant, at most once.
LooseDirectory == [][D!LooseNext]_(D!vars)

\* Every transaction that begins ends, with a commit or a rollback, and gives back its
\* locks; a request whose message is logged is answered.
TransactionsEnd ==
    \A t \in Transactions : Running(t) ~> ~Running(t)
=============================================================================
