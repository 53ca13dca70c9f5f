-------------------------- MODULE PKDServerRCProofs --------------------------
(***************************************************************************)
(* What READ COMMITTED keeps of the core's invariants, for every instance. *)
(* Between two statements a transaction relies on what it read: that the   *)
(* row it found is there, that the name it entered is nobody's, that the   *)
(* key rows it wrote are as it found them.  Nothing but locks, names in    *)
(* doubt and rows that never go away protects that; OwnTx says it of one   *)
(* transaction, and the rest of the invariant is the core's.               *)
(*                                                                         *)
(* As a whole, interleaved statements are transactions of the core but for *)
(* burns and revocations that commit on stale rows, and exactly the core's *)
(* where transactions run one after the other.  Whatever interleaves, they *)
(* keep the weaker promise of Directory.                                   *)
(***************************************************************************)
EXTENDS PKDServerRC, PKDServerRefinement

IsRevokeKey(t) == t \in Slots /\ Processing(t, "RevokeKey")

(* Each statement is one of its message's action.                           *)
TxPhase(t, x) ==
    /\ x.at = "begin" => x = NoTx
    /\ x.at \in {"create", "insert"} => t \in Slots /\ NeedsActor(t)
    /\ x.at \in {"hashes", "delete", "revoke"} => Runs(t, "BurnDown")
    /\ x.at = "update" => \/ Runs(t, "BurnDown")
                          \/ IsRevokeKey(t) /\ msg[t].symmetric_keys # "bad"
    /\ x.at \in {"rename", "claim", "renamed"} => t \in Slots /\ Processing(t, "MoveIdentity")
    /\ x.at \in {"auxfound", "auxheld"} => t \in Slots /\ Processing(t, "RevokeAuxData")

(* Key rows are written in the order of the table; a RevokeKey writes one of *)
(* the key it names, a burn live ones.                                      *)
TxRows(t, x) ==
    /\ x.rows \cup x.held \subseteq DOMAIN public_keys
    /\ x.rows \cup x.held # {} => x.at = "update"
    /\ x.deleted # {} => x.at \in {"revoke", "update"}
    /\ \A i \in x.held, j \in x.rows : i < j
    /\ IsRevokeKey(t) => \A i \in x.rows \cup x.held :
         /\ public_keys[i].public_key = msg[t].public_key
         /\ \A j \in x.rows \cup x.held : i = j
    /\ Runs(t, "BurnDown") => \A i \in x.held : public_keys[i].revoke_root = NoRoot

(* The actors row it will point at, and the name it will give.              *)
TxNames(t, x) ==
    /\ x.name # {} => x.at \in {"insert", "renamed"}
    /\ x.at = "insert" => IF x.name = {} THEN x.actor \in DOMAIN actors
                                         ELSE x.name = {msg[t].actor}
    /\ x.at = "renamed" => x.name = {msg[t].new_actor}
    /\ x.at \in {"claim", "renamed"} => \E r \in DOMAIN actors : x.lock = {r}
    /\ \A a \in x.name : ~ActorExists(a)

(* The auxiliary row it found is there, and live while it holds it.          *)
TxAux(t, x) ==
    /\ x.aux # {} => x.at = "auxheld"
    /\ x.at \in {"auxfound", "auxheld"} => msg[t].aux_id \in DOMAIN auxiliary_data
    /\ x.at = "auxheld" => x.aux = {msg[t].aux_id}
    /\ \A i \in x.aux : auxiliary_data[i].revoke_root = NoRoot

OwnTx(t, x) == TxPhase(t, x) /\ TxRows(t, x) /\ TxNames(t, x) /\ TxAux(t, x)

Disjoint(x, y) ==
    /\ x.lock \cap y.lock = {}
    /\ x.name \cap y.name = {}
    /\ x.held \cap y.held = {}
    /\ x.deleted \cap y.deleted = {}
    /\ x.aux \cap y.aux = {}

TxInv ==
    /\ tx \in [Transactions -> TxRecord]
    /\ \A t \in Transactions : OwnTx(t, tx[t])
    /\ \A t \in Transactions : \A u \in Transactions \ {t} : Disjoint(tx[t], tx[u])

TableInv == /\ TypeInv /\ ActorNamesUnique /\ KeyEventsLogged /\ AuxEventsLogged
            /\ EntriesUsedOnce /\ RootsFresh

InvRC == TableInv /\ TxInv

-----------------------------------------------------------------------------
(* The transactions.                                                        *)

LEMMA NoTxKeeps ==
    /\ NoTx \in TxRecord
    /\ \A x : Disjoint(NoTx, x) /\ Disjoint(x, NoTx)
BY DEF NoTx, TxRecord, Disjoint

\* A transaction that has not begun relies on nothing.
LEMMA NoTxOwn == ASSUME NEW t PROVE OwnTx(t, NoTx)
BY DEF NoTx, OwnTx, TxPhase, TxRows, TxNames, TxAux

(* What a commit leaves of the auxiliary rows to the transactions of T.      *)
AuxKept(T) ==
    /\ DOMAIN auxiliary_data \subseteq DOMAIN auxiliary_data'
    /\ \A u \in T : \A i \in tx[u].aux :
         auxiliary_data'[i].revoke_root = auxiliary_data[i].revoke_root

LEMMA AuxSame == ASSUME UNCHANGED auxiliary_data PROVE \A T : AuxKept(T)
BY DEF AuxKept

\* What a transaction relies on stays while others commit, provided rows stay and the
\* columns of those it holds too, and nobody takes its name.
LEMMA OwnKept ==
    ASSUME NEW u \in Transactions, OwnTx(u, tx[u]), tx'[u] = tx[u],
           u \in Slots => pc'[u] = pc[u] /\ msg'[u] = msg[u],
           DOMAIN actors \subseteq DOMAIN actors',
           \A a \in tx[u].name : ~ActorExists(a)',
           DOMAIN public_keys \subseteq DOMAIN public_keys',
           \A i \in DOMAIN public_keys : public_keys'[i].public_key = public_keys[i].public_key,
           \A i \in tx[u].held : public_keys'[i].revoke_root = public_keys[i].revoke_root,
           AuxKept({u})
    PROVE  OwnTx(u, tx[u])'
<1>1. u = Administrator \/ u \in Slots
  BY DEF Transactions
<1>2. /\ IsRevokeKey(u)' <=> IsRevokeKey(u)
      /\ Runs(u, "BurnDown")' <=> Runs(u, "BurnDown")
  BY <1>1, AdministratorAssumption DEF IsRevokeKey, Runs, Processing
<1>3. TxPhase(u, tx[u])'
  BY <1>2 DEF OwnTx, TxPhase, NeedsActor, Processing, IsRevokeKey
<1>4. TxRows(u, tx[u])'
  BY <1>2 DEF OwnTx, TxRows, IsRevokeKey
<1>5. TxNames(u, tx[u])'
  BY DEF OwnTx, TxNames, TxPhase, NeedsActor, Processing
<1>6. TxAux(u, tx[u])'
  BY DEF OwnTx, TxAux, TxPhase, AuxKept
<1> QED
  BY <1>3, <1>4, <1>5, <1>6 DEF OwnTx

\* Steps of tx alone.
LEMMA TablesStay ==
    ASSUME TableInv,
           UNCHANGED <<actors, public_keys, auxiliary_data, symmetric_keys, log, pc, msg, root>>
    PROVE  TableInv'
<1>1. TypeInv'
  BY DEF TableInv, TypeInv, TypeOK, RequestsOK
<1>2. ActorNamesUnique' /\ KeyEventsLogged' /\ AuxEventsLogged'
  BY DEF TableInv, ActorNamesUnique, KeyEventsLogged, AuxEventsLogged
<1>3. EntriesUsedOnce' /\ RootsFresh'
  BY DEF TableInv, EntriesUsedOnce, RootsFresh
<1> QED
  BY <1>1, <1>2, <1>3 DEF TableInv

\* The next statement of one transaction, and nothing else.
LEMMA StatementKeeps ==
    ASSUME InvRC, NEW t \in Transactions, NEW e \in TxRecord, Statement(t, e),
           OwnTx(t, e), \A u \in Transactions \ {t} : Disjoint(e, tx[u])
    PROVE  InvRC'
<1>1. /\ tx' = [tx EXCEPT ![t] = e]
      /\ UNCHANGED <<actors, public_keys, auxiliary_data, symmetric_keys, log, pc, msg, root>>
  BY DEF Statement, vars
<1>2. TableInv'
  BY <1>1, TablesStay DEF InvRC
<1>3. tx' \in [Transactions -> TxRecord]
  BY <1>1 DEF InvRC, TxInv
<1>4. \A u \in Transactions \ {t} : tx'[u] = tx[u]
  BY <1>1 DEF InvRC, TxInv
<1>5. tx'[t] = e
  BY <1>1 DEF InvRC, TxInv
<1>6. ASSUME NEW u \in Transactions PROVE OwnTx(u, tx[u])'
  <2>1. CASE u = t
    BY <1>1, <1>5, <2>1 DEF OwnTx, TxPhase, TxRows, TxNames, TxAux, IsRevokeKey, Runs, Processing,
       NeedsActor, ActorExists
  <2>2. CASE u # t
    <3>1. OwnTx(u, tx[u])
      BY DEF InvRC, TxInv
    <3>2. \A a \in tx[u].name : ~ActorExists(a)'
      BY <1>1, <3>1 DEF OwnTx, TxNames, ActorExists
    <3> QED
      BY <1>1, <1>4, <2>2, <3>1, <3>2, OwnKept, AuxSame
  <2> QED
    BY <2>1, <2>2
<1>7. ASSUME NEW u \in Transactions, NEW w \in Transactions \ {u}
      PROVE  Disjoint(tx[u], tx[w])'
  <2>1. Disjoint(tx[u], tx[w])
    BY DEF InvRC, TxInv
  <2>2. u # t => Disjoint(e, tx[u])
    OBVIOUS
  <2>3. w # t => Disjoint(e, tx[w])
    OBVIOUS
  <2> QED
    BY <1>4, <1>5, <2>1, <2>2, <2>3 DEF Disjoint
<1> QED
  BY <1>2, <1>3, <1>6, <1>7 DEF InvRC, TxInv

\* One transaction is over, and its effect is one the others do not notice.
LEMMA EndKeeps ==
    ASSUME InvRC, TableInv', NEW t \in Transactions, tx' = [tx EXCEPT ![t] = NoTx],
           \A s \in Slots \ {t} : pc'[s] = pc[s] /\ msg'[s] = msg[s],
           DOMAIN actors \subseteq DOMAIN actors',
           \A u \in Transactions \ {t} : \A a \in tx[u].name : ~ActorExists(a)',
           DOMAIN public_keys \subseteq DOMAIN public_keys',
           \A i \in DOMAIN public_keys : public_keys'[i].public_key = public_keys[i].public_key,
           \A u \in Transactions \ {t} : \A i \in tx[u].held :
               public_keys'[i].revoke_root = public_keys[i].revoke_root,
           AuxKept(Transactions \ {t})
    PROVE  InvRC'
<1>1. /\ tx' \in [Transactions -> TxRecord] /\ tx'[t] = NoTx
      /\ \A u \in Transactions \ {t} : tx'[u] = tx[u]
  BY NoTxKeeps DEF InvRC, TxInv
<1>2. ASSUME NEW u \in Transactions PROVE OwnTx(u, tx[u])'
  <2>1. CASE u = t
    BY <1>1, <2>1 DEF OwnTx, TxPhase, TxRows, TxNames, TxAux, NoTx
  <2>2. CASE u # t
    <3>1. OwnTx(u, tx[u])
      BY DEF InvRC, TxInv
    <3>2. AuxKept({u})
      BY <2>2 DEF AuxKept
    <3> QED
      BY <1>1, <2>2, <3>1, <3>2, OwnKept
  <2> QED
    BY <2>1, <2>2
<1>3. ASSUME NEW u \in Transactions, NEW w \in Transactions \ {u}
      PROVE  Disjoint(tx[u], tx[w])'
  <2>1. Disjoint(tx[u], tx[w])
    BY DEF InvRC, TxInv
  <2> QED
    BY <1>1, <2>1 DEF Disjoint, NoTx
<1> QED
  BY <1>1, <1>2, <1>3 DEF InvRC, TxInv

-----------------------------------------------------------------------------
(* Steps that leave the tables alone.                                       *)

LEMMA TablesKept ==
    ASSUME TableInv, TypeInv', LogGrows, UNCHANGED <<public_keys, auxiliary_data>>
    PROVE  KeyEventsLogged' /\ AuxEventsLogged' /\ EntriesUsedOnce'
<1>1. KeyEventsLogged'
  BY DEF TableInv, LogGrows, KeyEventsLogged
<1>2. AuxEventsLogged'
  BY DEF TableInv, LogGrows, AuxEventsLogged
<1>3. DOMAIN log' \subseteq Nat
  BY DEF TypeInv, TypeOK
<1>4. \A i \in DOMAIN public_keys :
        public_keys[i].revoke_root \in DOMAIN log' => public_keys[i].revoke_root \in DOMAIN log
  BY <1>3 DEF TableInv, KeyEventsLogged
<1>5. EntriesUsedOnce'
  BY <1>4 DEF TableInv, LogGrows, EntriesUsedOnce
<1> QED
  BY <1>1, <1>2, <1>5

LEMMA FinishFresh ==
    ASSUME TableInv, NEW s \in Slots, Finish(s), UNCHANGED <<public_keys, auxiliary_data>>
    PROVE  RootsFresh'
BY DEF TableInv, TypeInv, TypeOK, RootsFresh, Finish

\* A request that is over takes nobody else's phase or message with it.
LEMMA FinishOthers ==
    ASSUME TableInv, NEW s \in Slots, Finish(s)
    PROVE  \A u \in Slots \ {s} : pc'[u] = pc[u] /\ msg'[u] = msg[u]
BY DEF TableInv, TypeInv, TypeOK, Finish

\* A request has a transaction only once its message is logged, and only a message
\* of more than one statement shows in tx.
LEMMA NoTransaction ==
    ASSUME InvRC, NEW s \in Slots,
           \/ pc[s] # "logged"
           \/ msg[s].action \in {"Fireproof", "UndoFireproof"}
           \/ msg[s].action \in {"AddKey", "RevokeKey"} /\ msg[s].symmetric_keys = "bad"
    PROVE  tx[s] = NoTx
<1>1. s \in Transactions /\ s # Administrator
  BY AdministratorAssumption DEF Transactions
<1>2. TxPhase(s, tx[s]) /\ tx[s] \in TxRecord
  BY <1>1 DEF InvRC, TxInv, OwnTx
<1>3. tx[s].at = "begin"
  BY <1>1, <1>2 DEF TxPhase, TxRecord, NeedsActor, Runs, IsRevokeKey, Processing
<1> QED
  BY <1>2, <1>3 DEF TxPhase

\* A step of a request that has no transaction, on tables that keep their rows.
LEMMA OutsideKeeps ==
    ASSUME InvRC, TableInv', NEW s \in Slots, UNCHANGED <<public_keys, auxiliary_data, tx>>,
           tx[s] = NoTx,
           \A u \in Slots \ {s} : pc'[u] = pc[u] /\ msg'[u] = msg[u],
           DOMAIN actors' = DOMAIN actors,
           \A i \in DOMAIN actors : actors'[i].actor_id = actors[i].actor_id
    PROVE  InvRC'
<1>1. s \in Transactions
  BY DEF Transactions
<1>2. tx' = [tx EXCEPT ![s] = NoTx]
  BY <1>1 DEF InvRC, TxInv
<1>3. \A u \in Transactions : OwnTx(u, tx[u])
  BY DEF InvRC, TxInv
<1>4. \A u \in Transactions \ {s} : \A a \in tx[u].name : ~ActorExists(a)'
  BY <1>3 DEF OwnTx, TxNames, ActorExists
<1> QED
  BY <1>1, <1>2, <1>4, EndKeeps, AuxSame

LEMMA ValidateKeeps ==
    ASSUME InvRC, NEW s \in Slots, Validate(s), UNCHANGED tx
    PROVE  InvRC'
<1>1. PICK m \in Messages : Accept(s, m)
  BY ValidateAccepts
<1>2. /\ UNCHANGED <<actors, public_keys, auxiliary_data, log, root>>
      /\ pc' = [pc EXCEPT ![s] = "validated"] /\ pc[s] = "idle"
      /\ msg' = [msg EXCEPT ![s] = m]
  BY <1>1 DEF Accept, database
<1>3. /\ pc \in [Slots -> {"idle", "validated", "logged"}]
      /\ msg \in [Slots -> Message \cup {NoMsg}]
  BY DEF InvRC, TableInv, TypeInv, TypeOK
<1>4. TypeInv'
  BY <1>1, TypeAccept DEF InvRC, TableInv
<1>5. ActorNamesUnique' /\ RootsFresh'
  BY <1>2, <1>3 DEF InvRC, TableInv, ActorNamesUnique, RootsFresh
<1>6. TableInv'
  BY <1>2, <1>4, <1>5, TablesKept DEF InvRC, TableInv, LogGrows
<1>7. tx[s] = NoTx
  BY <1>2, NoTransaction
<1> QED
  BY <1>2, <1>3, <1>6, <1>7, OutsideKeeps

LEMMA SubmitKeeps ==
    ASSUME InvRC, NEW s \in Slots, Submit(s), UNCHANGED tx
    PROVE  InvRC'
<1> USE DEF Submit, SubmitMessage, SubmitRefused, SubmitUnanswered
<1>1. UNCHANGED <<actors, public_keys, auxiliary_data>> /\ pc[s] = "validated"
  BY DEF database
<1>2. TypeInv'
  BY TypeSubmit DEF InvRC, TableInv
<1>3. msg[s] \in Message /\ log \in Seq(Message)
  BY <1>1 DEF InvRC, TableInv, TypeInv, TypeOK, RequestsOK
<1>4. ASSUME log' = Append(log, msg[s])
      PROVE  LogGrows /\ Len(log') \notin DOMAIN log /\ Len(log') \in Nat
  BY <1>3, <1>4, AppendRow DEF LogGrows
<1>5. LogGrows
  BY <1>4 DEF LogGrows
<1>6. RootsFresh'
  <2>1. CASE SubmitRefused(s) \/ SubmitUnanswered(s)
    BY <1>1, <2>1, FinishFresh DEF InvRC
  <2>2. CASE SubmitMessage(s)
    <3> DEFINE r == Len(log')
    <3>1. r \notin DOMAIN log
      BY <1>4, <2>2
    <3>2. /\ pc' = [pc EXCEPT ![s] = "logged"] /\ root' = [root EXCEPT ![s] = r]
          /\ pc \in [Slots -> {"idle", "validated", "logged"}]
          /\ root \in [Slots -> Nat \cup {NoRoot}]
      BY <2>2 DEF InvRC, TableInv, TypeInv, TypeOK
    <3> HIDE DEF r
    <3>3. \A t \in Slots : pc[t] = "logged" => root[t] # r
      BY <3>1 DEF InvRC, TableInv, TypeInv, RequestsOK
    <3>4. /\ \A i \in DOMAIN public_keys : public_keys[i].merkle_root # r
          /\ \A i \in DOMAIN auxiliary_data : auxiliary_data[i].merkle_root # r
      BY <3>1 DEF InvRC, TableInv, KeyEventsLogged, AuxEventsLogged
    <3>5. \A i \in DOMAIN public_keys : public_keys[i].revoke_root # r
      BY <1>4, <2>2, <3>1 DEF InvRC, TableInv, KeyEventsLogged, r
    <3> QED
      BY <1>1, <3>2, <3>3, <3>4, <3>5 DEF InvRC, TableInv, RootsFresh
  <2> QED
    BY <2>1, <2>2
<1>7. TableInv'
  BY <1>1, <1>2, <1>5, <1>6, TablesKept DEF InvRC, TableInv, ActorNamesUnique
<1>8. tx[s] = NoTx
  BY <1>1, NoTransaction
<1>9. \A u \in Slots \ {s} : pc'[u] = pc[u] /\ msg'[u] = msg[u]
  BY DEF InvRC, TableInv, TypeInv, TypeOK, Finish
<1> QED
  BY <1>1, <1>7, <1>8, <1>9, OutsideKeeps

\* A transaction that is rolled back, or a request that ends without one.
LEMMA AbandonKeeps ==
    ASSUME InvRC, NEW s \in Slots, Finish(s), UNCHANGED <<database, log>>,
           \/ tx' = [tx EXCEPT ![s] = NoTx]
           \/ tx' = tx /\ tx[s] = NoTx
    PROVE  InvRC'
<1>1. UNCHANGED <<actors, public_keys, auxiliary_data, symmetric_keys, log>>
  BY DEF database
<1>2. TypeInv'
  BY TypeFinish DEF InvRC, TableInv
<1>3. TableInv'
  BY <1>1, <1>2, TablesKept, FinishFresh DEF InvRC, TableInv, LogGrows, ActorNamesUnique
<1>4. tx' = [tx EXCEPT ![s] = NoTx] /\ s \in Transactions
  BY DEF InvRC, TxInv, Transactions
<1>5. \A u \in Transactions : \A a \in tx[u].name : ~ActorExists(a)'
  BY <1>1 DEF InvRC, TxInv, OwnTx, TxNames, ActorExists
<1> QED
  BY <1>1, <1>3, <1>4, <1>5, FinishOthers, EndKeeps, AuxSame DEF InvRC

LEMMA RollbackKeeps == ASSUME InvRC, NEW t \in Transactions, Rollback(t) PROVE InvRC'
<1>1. CASE t = Administrator
  <2>1. /\ tx' = [tx EXCEPT ![t] = NoTx]
        /\ UNCHANGED <<actors, public_keys, auxiliary_data, symmetric_keys, log, pc, msg, root>>
    BY <1>1 DEF Rollback, End, database, requests
  <2>2. TableInv'
    BY <2>1, TablesStay DEF InvRC
  <2>3. \A u \in Transactions : \A a \in tx[u].name : ~ActorExists(a)'
    BY <2>1 DEF InvRC, TxInv, OwnTx, TxNames, ActorExists
  <2> QED
    BY <2>1, <2>2, <2>3, EndKeeps, AuxSame
<1>2. CASE t # Administrator
  <2>1. t \in Slots
    BY <1>2 DEF Transactions
  <2> QED
    BY <1>2, <2>1, AbandonKeeps DEF Rollback, End
<1> QED
  BY <1>1, <1>2

LEMMA CrashKeeps == ASSUME InvRC, CrashRC PROVE InvRC'
<1>1. /\ UNCHANGED <<actors, public_keys, auxiliary_data, symmetric_keys, log>>
      /\ \A s \in Slots : pc'[s] = "idle"
      /\ tx' = [t \in Transactions |-> NoTx]
  BY DEF CrashRC, Crash, database
<1>2. TypeInv'
  BY TypeCrash DEF InvRC, TableInv, CrashRC
<1>3. TableInv'
  BY <1>1, <1>2, TablesKept DEF InvRC, TableInv, LogGrows, ActorNamesUnique, RootsFresh
<1>4. TxInv'
  BY <1>1, NoTxKeeps DEF TxInv, OwnTx, TxPhase, TxRows, TxNames, TxAux, NoTx
<1> QED
  BY <1>3, <1>4 DEF InvRC

-----------------------------------------------------------------------------
(* Statements before the last of a transaction.                             *)

LEMMA Own ==
    ASSUME InvRC, NEW t \in Transactions
    PROVE  /\ tx[t] \in TxRecord
           /\ TxPhase(t, tx[t]) /\ TxRows(t, tx[t]) /\ TxNames(t, tx[t]) /\ TxAux(t, tx[t])
           /\ \A u \in Transactions \ {t} : Disjoint(tx[t], tx[u])
           /\ \A u \in Transactions : tx[u] \in TxRecord
BY DEF InvRC, TxInv, OwnTx

LEMMA SelectActorKeeps == ASSUME InvRC, NEW s \in Slots, SelectActor(s) PROVE InvRC'
<1>1. s \in Transactions /\ tx[s] = NoTx /\ NeedsActor(s)
  BY Own DEF Transactions, SelectActor, TxPhase
<1>2. CASE ActorExists(msg[s].actor)
  <2> DEFINE r == ActorID(actors, msg[s].actor)
             e == [tx[s] EXCEPT !.at = "insert", !.actor = r, !.lock = {r}]
  <2>1. r \in DOMAIN actors /\ r \in Nat
    BY <1>2, ActorIDFound DEF ActorExists, InvRC, TableInv, TypeInv, TypeOK
  <2>2. Free(r, s) /\ Statement(s, e)
    BY <1>2 DEF SelectActor
  <2> HIDE DEF r
  <2>3. e \in TxRecord
    <3>1. {r} \in SUBSET Nat
      BY <2>1
    <3> QED
      BY <1>1, <2>1, <3>1, Own DEF TxRecord
  <2>4. OwnTx(s, e)
    BY <1>1, <2>1 DEF NoTx, OwnTx, TxPhase, TxRows, TxNames, TxAux
  <2>5. \A u \in Transactions \ {s} : Disjoint(e, tx[u])
    BY <1>1, <2>2 DEF NoTx, Free, Disjoint
  <2> QED
    BY <1>1, <2>2, <2>3, <2>4, <2>5, StatementKeeps
<1>3. CASE ~ActorExists(msg[s].actor)
  <2> DEFINE e == [tx[s] EXCEPT !.at = "create"]
  <2>1. Statement(s, e)
    BY <1>3 DEF SelectActor
  <2>2. e \in TxRecord
    BY <1>1 DEF NoTx, TxRecord
  <2>3. OwnTx(s, e)
    BY <1>1 DEF NoTx, OwnTx, TxPhase, TxRows, TxNames, TxAux
  <2>4. \A u \in Transactions \ {s} : Disjoint(e, tx[u])
    BY <1>1 DEF NoTx, Disjoint
  <2> QED
    BY <1>1, <2>1, <2>2, <2>3, <2>4, StatementKeeps
<1> QED
  BY <1>2, <1>3

\* The UNIQUE index: the name is in no other transaction and in no row.
LEMMA InsertActorKeeps == ASSUME InvRC, NEW s \in Slots, InsertActor(s) PROVE InvRC'
<1> DEFINE a == msg[s].actor
           e == [tx[s] EXCEPT !.at = "insert", !.name = {a}]
<1>1. s \in Transactions /\ tx[s].at = "create" /\ NeedsActor(s)
  BY Own DEF Transactions, InsertActor, TxPhase
<1>2. a \in Actors
  BY <1>1, ProcessingTyped, MessageFields DEF NeedsActor, InvRC, TableInv
<1>3. Statement(s, e) /\ ~InDoubt(a, s) /\ ~ActorExists(a)
  BY DEF InsertActor
<1>4. e \in TxRecord
  BY <1>1, <1>2, Own DEF TxRecord
<1>5. tx[s].rows = {} /\ tx[s].held = {} /\ tx[s].deleted = {}
  BY <1>1, Own DEF TxRows, TxRecord
<1>6. OwnTx(s, e)
  <2>1. e.at = "insert" /\ e.name = {a} /\ e.rows = {} /\ e.held = {} /\ e.deleted = {}
    BY <1>1, <1>5, Own DEF TxRecord
  <2> HIDE DEF e
  <2>2. TxPhase(s, e)
    BY <1>1, <2>1 DEF TxPhase
  <2>3. TxRows(s, e)
    BY <2>1 DEF TxRows
  <2>4. TxNames(s, e)
    BY <1>3, <2>1 DEF TxNames
  <2>5. TxAux(s, e)
    BY <1>1, <2>1, Own DEF TxAux, TxRecord, e
  <2> QED
    BY <2>2, <2>3, <2>4, <2>5 DEF OwnTx
<1>7. \A u \in Transactions \ {s} : Disjoint(e, tx[u])
  BY <1>1, <1>3, Own DEF InDoubt, Disjoint, TxRecord
<1> QED
  BY <1>1, <1>3, <1>4, <1>6, <1>7, StatementKeeps

LEMMA SelectKeyKeeps == ASSUME InvRC, NEW s \in Slots, SelectKeyToRevoke(s) PROVE InvRC'
<1>1. s \in Transactions /\ tx[s] = NoTx /\ IsRevokeKey(s) /\ s # Administrator
  BY Own, AdministratorAssumption DEF Transactions, SelectKeyToRevoke, TxPhase, IsRevokeKey
<1>2. PICK i \in FindKeyToRevoke(msg[s].actor, msg[s].public_key) :
        Statement(s, [tx[s] EXCEPT !.at = "update", !.rows = {i}])
  BY DEF SelectKeyToRevoke
<1> DEFINE e == [tx[s] EXCEPT !.at = "update", !.rows = {i}]
<1>3. /\ i \in DOMAIN public_keys /\ i \in Nat
      /\ public_keys[i].public_key = msg[s].public_key
      /\ msg[s].symmetric_keys # "bad"
  BY DEF FindKeyToRevoke, ListKeysForActor, SelectKeyToRevoke, InvRC, TableInv, TypeInv, TypeOK
<1>4. e \in TxRecord
  <2>1. {i} \in SUBSET Nat
    BY <1>3
  <2> QED
    BY <1>1, <2>1, Own DEF TxRecord
<1>5. OwnTx(s, e)
  BY <1>1, <1>3 DEF NoTx, OwnTx, TxPhase, TxRows, TxNames, TxAux, Runs, IsRevokeKey, Processing
<1>6. \A u \in Transactions \ {s} : Disjoint(e, tx[u])
  BY <1>1 DEF NoTx, Disjoint
<1> QED
  BY <1>1, <1>2, <1>4, <1>5, <1>6, StatementKeeps

\* A burn takes a row only if it is still live, and the row then stays so.
LEMMA WriteKeyRowKeeps == ASSUME InvRC, NEW t \in Transactions, WriteKeyRow(t) PROVE InvRC'
<1>1. PICK i \in NextRow(tx[t].rows) :
        /\ \A u \in Transactions \ {t} : i \notin tx[u].held
        /\ Statement(t, [tx[t] EXCEPT !.rows = @ \ {i},
                                      !.held = IF StillWanted(t, i) THEN @ \cup {i} ELSE @])
  BY DEF WriteKeyRow
<1> DEFINE e == [tx[t] EXCEPT !.rows = tx[t].rows \ {i},
                              !.held = IF StillWanted(t, i) THEN tx[t].held \cup {i} ELSE tx[t].held]
<1>2. tx[t].at = "update" /\ i \in tx[t].rows /\ \A j \in tx[t].rows : i <= j
  BY DEF WriteKeyRow, NextRow
<1>3. Statement(t, e)
  BY <1>1
<1>4. /\ e.rows = tx[t].rows \ {i}
      /\ e.held \subseteq tx[t].held \cup {i}
      /\ i \in e.held => i \in tx[t].held \/ StillWanted(t, i)
      /\ e.at = tx[t].at /\ e.name = tx[t].name /\ e.lock = tx[t].lock
      /\ e.deleted = tx[t].deleted /\ e.actor = tx[t].actor /\ e.aux = tx[t].aux
  BY Own DEF TxRecord
<1>5. e \in TxRecord
  <2>1. tx[t] \in TxRecord /\ i \in Nat
    BY <1>2, Own DEF TxRecord
  <2> DEFINE rows == tx[t].rows \ {i}
             held == IF StillWanted(t, i) THEN tx[t].held \cup {i} ELSE tx[t].held
  <2>2. rows \in SUBSET Nat /\ held \in SUBSET Nat
    BY <2>1 DEF TxRecord
  <2>3. e = [tx[t] EXCEPT !.rows = rows, !.held = held]
    OBVIOUS
  <2> HIDE DEF e, rows, held
  <2> QED
    BY <2>1, <2>2, <2>3 DEF TxRecord
<1> HIDE DEF e
<1>6. TxRows(t, e)
  <2>1. \A j \in tx[t].rows \ {i} : i < j
    BY <1>2, Own DEF TxRecord
  <2>2. Runs(t, "BurnDown") /\ i \in e.held => public_keys[i].revoke_root = NoRoot
    BY <1>4, Own DEF StillWanted, Runs, Processing, TxRows
  <2> QED
    BY <1>2, <1>4, <2>1, <2>2, Own DEF TxRows
<1>7. OwnTx(t, e)
  BY <1>2, <1>4, <1>6, Own DEF OwnTx, TxPhase, TxNames, TxAux
<1>8. \A u \in Transactions \ {t} : Disjoint(e, tx[u])
  BY <1>1, <1>4, Own DEF Disjoint
<1> QED
  BY <1>3, <1>5, <1>7, <1>8, StatementKeeps

\* The four statements of a burn before its commit.
LEMMA BurnKeeps ==
    ASSUME InvRC, NEW t \in Transactions,
           FindActor(t) \/ GetMessageHashes(t) \/ DeleteSymmetricKeys(t) \/ RevokeAllKeys(t)
    PROVE  InvRC'
<1>1. CASE FindActor(t)
  <2>1. PICK a \in Actors :
          /\ Burns(t, a) /\ ActorExists(a)
          /\ Statement(t, [tx[t] EXCEPT !.at = "hashes", !.actor = ActorID(actors, a)])
    BY <1>1 DEF FindActor
  <2> DEFINE r == ActorID(actors, a)
             e == [tx[t] EXCEPT !.at = "hashes", !.actor = r]
  <2>2. tx[t] = NoTx /\ Runs(t, "BurnDown")
    BY <1>1, <2>1, Own DEF FindActor, TxPhase, Burns
  <2>3. r \in Nat
    <3>1. r \in DOMAIN actors
      BY <2>1, ActorIDFound DEF ActorExists
    <3> QED
      BY <3>1 DEF InvRC, TableInv, TypeInv, TypeOK
  <2> HIDE DEF r
  <2>4. e \in TxRecord
    BY <2>3, Own DEF TxRecord
  <2>5. OwnTx(t, e)
    BY <2>2 DEF NoTx, OwnTx, TxPhase, TxRows, TxNames, TxAux
  <2>6. \A u \in Transactions \ {t} : Disjoint(e, tx[u])
    BY <2>2 DEF NoTx, Disjoint
  <2> QED
    BY <2>1, <2>4, <2>5, <2>6, StatementKeeps DEF r
<1>2. CASE GetMessageHashes(t)
  <2> DEFINE h == GetMessageHashesForActor(tx[t].actor)
             e == [tx[t] EXCEPT !.at = "delete", !.hashes = h]
  <2>1. h \in SUBSET (Nat \cup {AdminRoot})
    <3>1. \A i \in DOMAIN public_keys : public_keys[i] \in KeyRow
      BY Numbers DEF InvRC, TableInv
    <3> QED
      BY <3>1 DEF GetMessageHashesForActor, KeyRow
  <2>2. Statement(t, e) /\ tx[t].at = "hashes"
    BY <1>2 DEF GetMessageHashes
  <2> HIDE DEF h
  <2>3. e \in TxRecord
    BY <2>1, Own DEF TxRecord
  <2>4. OwnTx(t, e)
    BY <2>2, Own DEF OwnTx, TxPhase, TxRows, TxNames, TxAux, TxRecord
  <2>5. \A u \in Transactions \ {t} : Disjoint(e, tx[u])
    BY Own DEF Disjoint, TxRecord
  <2> QED
    BY <2>2, <2>3, <2>4, <2>5, StatementKeeps
<1>3. CASE DeleteSymmetricKeys(t)
  <2> DEFINE d == tx[t].hashes \cap symmetric_keys
             e == [tx[t] EXCEPT !.at = "revoke", !.deleted = d]
  <2>1. /\ Statement(t, e) /\ tx[t].at = "delete"
        /\ \A u \in Transactions \ {t} : tx[u].deleted \cap d = {}
    BY <1>3 DEF DeleteSymmetricKeys
  <2>2. d \in SUBSET Nat
    BY Numbers DEF InvRC, TableInv, TypeInv, TypeOK
  <2> HIDE DEF d
  <2>3. e \in TxRecord
    BY <2>2, Own DEF TxRecord
  <2>4. OwnTx(t, e)
    BY <2>1, Own DEF OwnTx, TxPhase, TxRows, TxNames, TxAux, TxRecord
  <2>5. \A u \in Transactions \ {t} : Disjoint(e, tx[u])
    BY <2>1, Own DEF Disjoint, TxRecord
  <2> QED
    BY <2>1, <2>3, <2>4, <2>5, StatementKeeps
<1>4. CASE RevokeAllKeys(t)
  <2> DEFINE live == {i \in DOMAIN public_keys : /\ public_keys[i].actor_id = tx[t].actor
                                                 /\ public_keys[i].revoke_root = NoRoot}
             e == [tx[t] EXCEPT !.at = "update", !.rows = live]
  <2>1. Statement(t, e) /\ tx[t].at = "revoke"
    BY <1>4 DEF RevokeAllKeys
  <2>2. live \subseteq DOMAIN public_keys
    OBVIOUS
  <2>3. live \in SUBSET Nat
    BY <2>2, Numbers DEF InvRC, TableInv
  <2> HIDE DEF live
  <2>4. e \in TxRecord
    BY <2>3, Own DEF TxRecord
  <2>5. tx[t].held = {} /\ Runs(t, "BurnDown") /\ ~IsRevokeKey(t)
    BY <2>1, Own, AdministratorAssumption
       DEF TxPhase, TxRows, TxRecord, Runs, IsRevokeKey, Processing
  <2>6. OwnTx(t, e)
    BY <2>1, <2>2, <2>5, Own DEF OwnTx, TxPhase, TxRows, TxNames, TxAux, TxRecord
  <2>7. \A u \in Transactions \ {t} : Disjoint(e, tx[u])
    BY Own DEF Disjoint, TxRecord
  <2> QED
    BY <2>1, <2>4, <2>6, <2>7, StatementKeeps
<1> QED
  BY <1>1, <1>2, <1>3, <1>4

\* The three statements of MoveIdentity before its commit.
LEMMA MoveKeeps ==
    ASSUME InvRC, NEW s \in Slots, CheckNewActor(s) \/ LockOldActor(s) \/ EnterNewName(s)
    PROVE  InvRC'
<1>1. s \in Transactions
  BY DEF Transactions
<1>2. CASE CheckNewActor(s)
  <2> DEFINE e == [tx[s] EXCEPT !.at = "rename"]
  <2>1. Statement(s, e) /\ tx[s] = NoTx /\ Processing(s, "MoveIdentity")
    BY <1>1, <1>2, Own DEF CheckNewActor, TxPhase
  <2>2. e \in TxRecord
    BY <1>1, Own DEF TxRecord
  <2>3. OwnTx(s, e)
    BY <2>1 DEF NoTx, OwnTx, TxPhase, TxRows, TxNames, TxAux
  <2>4. \A u \in Transactions \ {s} : Disjoint(e, tx[u])
    BY <2>1 DEF NoTx, Disjoint
  <2> QED
    BY <1>1, <2>1, <2>2, <2>3, <2>4, StatementKeeps
<1>3. CASE LockOldActor(s)
  <2> DEFINE r == ActorID(actors, msg[s].old_actor)
             e == [tx[s] EXCEPT !.at = "claim", !.lock = {r}]
  <2>1. Statement(s, e) /\ tx[s].at = "rename" /\ Free(r, s)
    BY <1>3 DEF LockOldActor
  <2>2. r \in DOMAIN actors /\ r \in Nat
    BY <1>3, ActorIDFound DEF LockOldActor, ActorExists, InvRC, TableInv, TypeInv, TypeOK
  <2> HIDE DEF r
  <2>3. e \in TxRecord
    <3>1. {r} \in SUBSET Nat
      BY <2>2
    <3> QED
      BY <1>1, <3>1, Own DEF TxRecord
  <2>4. OwnTx(s, e)
    <3>1. TxPhase(s, e) /\ TxRows(s, e)
      BY <1>1, <2>1, Own DEF TxPhase, TxRows, TxRecord
    <3>2. TxNames(s, e)
      BY <1>1, <2>1, <2>2, Own DEF TxNames, TxRecord
    <3>3. TxAux(s, e)
      BY <1>1, <2>1, Own DEF TxAux, TxRecord
    <3> QED
      BY <3>1, <3>2, <3>3 DEF OwnTx
  <2>5. \A u \in Transactions \ {s} : Disjoint(e, tx[u])
    BY <1>1, <2>1, Own DEF Free, Disjoint, TxRecord
  <2> QED
    BY <1>1, <2>1, <2>3, <2>4, <2>5, StatementKeeps
<1>4. CASE EnterNewName(s)
  <2> DEFINE a == msg[s].new_actor
             e == [tx[s] EXCEPT !.at = "renamed", !.name = {a}]
  <2>1. /\ Statement(s, e) /\ tx[s].at = "claim"
        /\ ~InDoubt(a, s) /\ ~ActorExists(a)
    BY <1>4 DEF EnterNewName
  <2>2. Processing(s, "MoveIdentity")
    BY <1>1, <2>1, Own DEF TxPhase
  <2>3. a \in Actors
    BY <2>2, ProcessingTyped, MessageFields DEF Processing, InvRC, TableInv
  <2>4. e \in TxRecord
    BY <1>1, <2>3, Own DEF TxRecord
  <2>5. OwnTx(s, e)
    BY <1>1, <2>1, Own DEF OwnTx, TxPhase, TxRows, TxNames, TxAux, TxRecord
  <2>6. \A u \in Transactions \ {s} : Disjoint(e, tx[u])
    BY <1>1, <2>1, Own DEF InDoubt, Disjoint, TxRecord
  <2> QED
    BY <1>1, <2>1, <2>4, <2>5, <2>6, StatementKeeps
<1> QED
  BY <1>2, <1>3, <1>4

-----------------------------------------------------------------------------
(* The last statement and the COMMIT.                                       *)

LEMMA EndsRequest ==
    ASSUME NEW s \in Slots, End(s)
    PROVE  Finish(s) /\ tx' = [tx EXCEPT ![s] = NoTx] /\ s \in Transactions
BY AdministratorAssumption DEF End, Transactions

\* The actor a row will belong to: found and locked, or created under a name in doubt.
LEMMA ActorCommitted ==
    ASSUME InvRC, NEW s \in Slots, tx[s].at = "insert", CommitActor(s)
    PROVE  /\ actors' \in Seq(ActorRow) /\ DOMAIN actors \subseteq DOMAIN actors'
           /\ CommittedActor(s) \in DOMAIN actors' /\ CommittedActor(s) \in Nat
           /\ ActorNamesUnique'
           /\ \A u \in Transactions \ {s} : \A a \in tx[u].name : ~ActorExists(a)'
<1>1. s \in Transactions /\ actors \in Seq(ActorRow) /\ ActorNamesUnique
  BY DEF Transactions, InvRC, TableInv, TypeInv, TypeOK
<1>2. \A u \in Transactions : \A a \in tx[u].name : ~ActorExists(a)
  BY Own DEF TxNames
<1>3. CASE tx[s].name = {}
  <2>1. actors' = actors /\ CommittedActor(s) = tx[s].actor
    BY <1>3 DEF CommitActor, CommittedActor
  <2>2. tx[s].actor \in DOMAIN actors /\ tx[s].actor \in Nat
    BY <1>1, <1>3, Own DEF TxNames, TxRecord
  <2> QED
    BY <1>1, <1>2, <2>1, <2>2 DEF ActorNamesUnique, ActorExists
<1>4. CASE tx[s].name # {}
  <2> DEFINE a == msg[s].actor
             new == [actor_id |-> a, is_fireproof |-> FALSE]
  <2>1. tx[s].name = {a} /\ a \in Actors
    BY <1>1, <1>4, Own DEF TxNames, TxRecord
  <2>2. new \in ActorRow /\ new.actor_id = a
    BY <2>1 DEF ActorRow
  <2>3. actors' = Append(actors, new) /\ CommittedActor(s) = Len(actors')
    BY <1>4 DEF CommitActor, CommittedActor
  <2> HIDE DEF new
  <2>4. /\ actors' \in Seq(ActorRow) /\ Len(actors) \in Nat
        /\ DOMAIN actors' = DOMAIN actors \cup {Len(actors) + 1}
        /\ Len(actors') = Len(actors) + 1
        /\ \A i \in DOMAIN actors : actors'[i] = actors[i]
        /\ actors'[Len(actors) + 1] = new
    BY <1>1, <2>2, <2>3, AppendRow
  <2>5. \A i \in DOMAIN actors : actors[i].actor_id # a
    BY <1>1, <1>2, <2>1 DEF ActorExists
  <2>6. ActorNamesUnique'
    BY <1>1, <2>2, <2>4, <2>5 DEF ActorNamesUnique
  <2>7. ASSUME NEW u \in Transactions \ {s}, NEW b \in tx[u].name
        PROVE  ~ActorExists(b)'
    <3>1. b # a
      BY <1>1, <2>1, Own DEF Disjoint
    <3> QED
      BY <1>2, <2>2, <2>4, <3>1 DEF ActorExists
  <2> QED
    BY <2>3, <2>4, <2>6, <2>7
<1> QED
  BY <1>3, <1>4

LEMMA AddKeyKeeps == ASSUME InvRC, NEW s \in Slots, CommitAddKey(s) PROVE InvRC'
<1> DEFINE n == Len(public_keys) + 1
           r == root[s]
           m == msg[s]
           new == [actor_id |-> CommittedActor(s), public_key |-> m.public_key,
                   merkle_root |-> r, revoke_root |-> NoRoot]
<1>1. /\ pc[s] = "logged" /\ m \in Message /\ m.action = "AddKey" /\ m.public_key \in Keys
      /\ r \in DOMAIN log /\ r \in Nat /\ log[r] = m
  BY ProcessingTyped, MessageFields DEF CommitAddKey, Processing, InvRC, TableInv
<1>2. /\ actors' \in Seq(ActorRow) /\ DOMAIN actors \subseteq DOMAIN actors'
      /\ CommittedActor(s) \in DOMAIN actors' /\ CommittedActor(s) \in Nat
      /\ ActorNamesUnique'
      /\ \A u \in Transactions \ {s} : \A a \in tx[u].name : ~ActorExists(a)'
  BY ActorCommitted DEF CommitAddKey
<1>3. /\ Finish(s) /\ tx' = [tx EXCEPT ![s] = NoTx] /\ s \in Transactions
      /\ UNCHANGED <<auxiliary_data, log>>
  BY EndsRequest DEF CommitAddKey
<1>4. new \in KeyRow
  BY <1>1, <1>2 DEF KeyRow
<1>5. /\ new.actor_id = CommittedActor(s) /\ new.public_key = m.public_key
      /\ new.merkle_root = r /\ new.revoke_root = NoRoot
  OBVIOUS
<1>6. public_keys' = Append(public_keys, new)
  BY DEF CommitAddKey
<1> HIDE DEF new
<1>7. /\ public_keys' \in Seq(KeyRow)
      /\ DOMAIN public_keys' = DOMAIN public_keys \cup {n}
      /\ n \notin DOMAIN public_keys
      /\ \A i \in DOMAIN public_keys : public_keys'[i] = public_keys[i]
      /\ public_keys'[n] = new
  <2>1. public_keys \in Seq(KeyRow)
    BY DEF InvRC, TableInv, TypeInv, TypeOK
  <2> QED
    BY <1>4, <1>6, <2>1, AppendRow
<1>8. symmetric_keys' \subseteq DOMAIN log
  BY <1>1 DEF CommitAddKey, StoreSymmetricKeys, InvRC, TableInv, TypeInv, TypeOK
<1>9. TypeInv'
  <2>1. \A i \in DOMAIN public_keys' : public_keys'[i].actor_id \in DOMAIN actors'
    BY <1>2, <1>5, <1>7 DEF InvRC, TableInv, TypeInv, TypeOK
  <2>2. TypeOK'
    BY <1>2, <1>3, <1>7, <1>8, <2>1 DEF Finish, InvRC, TableInv, TypeInv, TypeOK
  <2>3. RequestsOK'
    BY <1>3 DEF Finish, InvRC, TableInv, TypeInv, TypeOK, RequestsOK
  <2> QED
    BY <2>2, <2>3 DEF TypeInv
<1>10. NoRoot \notin DOMAIN log /\ NoRoot \notin Nat
  BY Numbers, ConstantsAssumption DEF InvRC, TableInv
<1>11. \A i \in DOMAIN public_keys :
         public_keys[i].merkle_root # r /\ public_keys[i].revoke_root # r
  BY <1>1 DEF InvRC, TableInv, RootsFresh
<1>12. \A t \in Slots : pc[t] = "logged" /\ t # s => root[t] # r /\ root[t] # NoRoot
  BY <1>1, <1>10, ProcessingTyped DEF InvRC, TableInv, RootsFresh
<1> HIDE DEF n, r, m
<1>13. KeyEventsLogged'
  BY <1>1, <1>3, <1>5, <1>7, <1>10 DEF InvRC, TableInv, KeyEventsLogged
<1>14. AuxEventsLogged'
  BY <1>3 DEF InvRC, TableInv, AuxEventsLogged
<1>15. EntriesUsedOnce'
  BY <1>3, <1>5, <1>7, <1>10, <1>11 DEF InvRC, TableInv, EntriesUsedOnce
<1>16. RootsFresh'
  BY <1>3, <1>5, <1>7, <1>12 DEF InvRC, TableInv, TypeInv, TypeOK, RootsFresh, Finish
<1>17. TableInv'
  BY <1>2, <1>9, <1>13, <1>14, <1>15, <1>16 DEF TableInv
<1>18. \A u \in Transactions : tx[u].held \subseteq DOMAIN public_keys
  BY Own DEF TxRows
<1> QED
  BY <1>2, <1>3, <1>7, <1>17, <1>18, FinishOthers, EndKeeps, AuxSame DEF InvRC

LEMMA AddAuxDataKeeps == ASSUME InvRC, NEW s \in Slots, CommitAddAuxData(s) PROVE InvRC'
<1> DEFINE n == Len(auxiliary_data) + 1
           r == root[s]
           m == msg[s]
           new == [actor_id |-> CommittedActor(s), merkle_root |-> r, revoke_root |-> NoRoot]
<1>1. /\ pc[s] = "logged" /\ m \in Message /\ m.action = "AddAuxData"
      /\ r \in DOMAIN log /\ r \in Nat /\ log[r] = m
  BY ProcessingTyped DEF CommitAddAuxData, Processing, InvRC, TableInv
<1>2. /\ actors' \in Seq(ActorRow) /\ DOMAIN actors \subseteq DOMAIN actors'
      /\ CommittedActor(s) \in DOMAIN actors' /\ CommittedActor(s) \in Nat
      /\ ActorNamesUnique'
      /\ \A u \in Transactions \ {s} : \A a \in tx[u].name : ~ActorExists(a)'
  BY ActorCommitted DEF CommitAddAuxData
<1>3. /\ Finish(s) /\ tx' = [tx EXCEPT ![s] = NoTx] /\ s \in Transactions
      /\ UNCHANGED <<public_keys, symmetric_keys, log>>
  BY EndsRequest DEF CommitAddAuxData
<1>4. m.valid
  BY <1>1, <1>3, Own DEF CommitAddAuxData, TxPhase, NeedsActor
<1>5. new \in AuxRow
  BY <1>1, <1>2 DEF AuxRow
<1>6. /\ new.actor_id = CommittedActor(s)
      /\ new.merkle_root = r /\ new.revoke_root = NoRoot
  OBVIOUS
<1>7. auxiliary_data' = Append(auxiliary_data, new)
  BY DEF CommitAddAuxData
<1> HIDE DEF new
<1>8. /\ auxiliary_data' \in Seq(AuxRow)
      /\ DOMAIN auxiliary_data' = DOMAIN auxiliary_data \cup {n}
      /\ n \notin DOMAIN auxiliary_data
      /\ \A i \in DOMAIN auxiliary_data : auxiliary_data'[i] = auxiliary_data[i]
      /\ auxiliary_data'[n] = new
  <2>1. auxiliary_data \in Seq(AuxRow)
    BY DEF InvRC, TableInv, TypeInv, TypeOK
  <2> QED
    BY <1>5, <1>7, <2>1, AppendRow
<1>9. TypeInv'
  <2>1. \A i \in DOMAIN auxiliary_data' : auxiliary_data'[i].actor_id \in DOMAIN actors'
    BY <1>2, <1>6, <1>8 DEF InvRC, TableInv, TypeInv, TypeOK
  <2>2. TypeOK'
    BY <1>2, <1>3, <1>8, <2>1 DEF Finish, InvRC, TableInv, TypeInv, TypeOK
  <2>3. RequestsOK'
    BY <1>3 DEF Finish, InvRC, TableInv, TypeInv, TypeOK, RequestsOK
  <2> QED
    BY <2>2, <2>3 DEF TypeInv
<1>10. NoRoot \notin Nat
  BY ConstantsAssumption
<1>11. \A i \in DOMAIN auxiliary_data : auxiliary_data[i].merkle_root # r
  BY <1>1 DEF InvRC, TableInv, RootsFresh
<1>12. \A t \in Slots : pc[t] = "logged" /\ t # s => root[t] # r
  BY <1>1 DEF InvRC, TableInv, RootsFresh
<1> HIDE DEF n, r, m
<1>13. KeyEventsLogged'
  BY <1>3 DEF InvRC, TableInv, KeyEventsLogged
<1>14. AuxEventsLogged'
  BY <1>1, <1>3, <1>4, <1>6, <1>8, <1>10 DEF InvRC, TableInv, AuxEventsLogged
<1>15. EntriesUsedOnce'
  BY <1>3, <1>6, <1>8, <1>11 DEF InvRC, TableInv, EntriesUsedOnce
<1>16. RootsFresh'
  BY <1>3, <1>6, <1>8, <1>12 DEF InvRC, TableInv, TypeInv, TypeOK, RootsFresh, Finish
<1>17. TableInv'
  BY <1>2, <1>9, <1>13, <1>14, <1>15, <1>16 DEF TableInv
<1>18. AuxKept(Transactions \ {s})
  BY <1>8, Own DEF AuxKept, TxAux
<1> QED
  BY <1>2, <1>3, <1>17, <1>18, FinishOthers, EndKeeps DEF InvRC

(* Key rows get a root, live or revoked before.                             *)
Overwrites(rows, r) ==
    /\ rows \subseteq DOMAIN public_keys
    /\ DOMAIN public_keys' = DOMAIN public_keys
    /\ \A i \in DOMAIN public_keys :
         /\ public_keys'[i].public_key = public_keys[i].public_key
         /\ public_keys'[i].merkle_root = public_keys[i].merkle_root
         /\ public_keys'[i].revoke_root = IF i \in rows THEN r ELSE public_keys[i].revoke_root

LEMMA HeldOverwritten ==
    ASSUME InvRC, NEW t \in Transactions, NEW r \in Nat \cup {AdminRoot}, CommitKeyRows(t, r)
    PROVE  /\ Overwrites(tx[t].held, r)
           /\ public_keys' \in Seq(KeyRow)
           /\ \A i \in DOMAIN public_keys' : public_keys'[i].actor_id \in DOMAIN actors
<1>1. tx[t].held \subseteq DOMAIN public_keys
  BY Own DEF TxRows
<1>2. \A i \in DOMAIN public_keys : public_keys[i] \in KeyRow
  BY Numbers DEF InvRC, TableInv
<1>3. public_keys' = [i \in DOMAIN public_keys |->
        IF i \in tx[t].held THEN [public_keys[i] EXCEPT !.revoke_root = r] ELSE public_keys[i]]
  BY DEF CommitKeyRows
<1>4. Overwrites(tx[t].held, r)
  BY <1>1, <1>2, <1>3 DEF Overwrites, KeyRow
<1>5. /\ DOMAIN public_keys' = DOMAIN public_keys
      /\ public_keys' = [i \in DOMAIN public_keys |-> public_keys'[i]]
      /\ \A i \in DOMAIN public_keys :
            public_keys'[i] \in {public_keys[i], [public_keys[i] EXCEPT !.revoke_root = r]}
  BY <1>3
<1>6. TypeInv
  BY DEF InvRC, TableInv
<1> QED
  BY <1>4, <1>5, <1>6, TypeRevoked

\* What an overwriting preserves, given a root that may revoke these rows.
LEMMA OverwrittenTables ==
    ASSUME TableInv, NEW rows, NEW r, Overwrites(rows, r), UNCHANGED <<log, auxiliary_data>>,
           \/ r = AdminRoot
           \/ r \in DOMAIN log /\ log[r].action = "BurnDown"
           \/ /\ r \in DOMAIN log /\ log[r].action = "RevokeKey"
              /\ \A i \in rows : public_keys[i].public_key = log[r].public_key
              /\ \A i, j \in rows : i = j
              /\ \A j \in DOMAIN public_keys : public_keys[j].revoke_root # r
    PROVE  KeyEventsLogged' /\ AuxEventsLogged' /\ EntriesUsedOnce'
<1>1. AdminRoot \notin DOMAIN log /\ AdminRoot \notin Nat
  BY Numbers, ConstantsAssumption DEF TableInv
<1>2. KeyEventsLogged'
  BY <1>1 DEF TableInv, KeyEventsLogged, Overwrites
<1>3. AuxEventsLogged'
  BY DEF TableInv, AuxEventsLogged
<1>4. EntriesUsedOnce'
  <2>1. ASSUME NEW i \in DOMAIN public_keys, NEW j \in DOMAIN public_keys,
               public_keys'[i].merkle_root = public_keys'[j].merkle_root
        PROVE  i = j
    BY <2>1 DEF TableInv, EntriesUsedOnce, Overwrites
  <2>2. ASSUME NEW i \in DOMAIN public_keys, NEW j \in DOMAIN public_keys,
               public_keys'[i].revoke_root = public_keys'[j].revoke_root,
               public_keys'[i].revoke_root \in DOMAIN log,
               log[public_keys'[i].revoke_root].action = "RevokeKey"
        PROVE  i = j
    BY <1>1, <2>2 DEF TableInv, EntriesUsedOnce, Overwrites
  <2>3. DOMAIN public_keys' = DOMAIN public_keys
    BY DEF Overwrites
  <2> QED
    BY <2>1, <2>2, <2>3 DEF TableInv, EntriesUsedOnce
<1> QED
  BY <1>2, <1>3, <1>4

\* Nobody else's rows change when t's are committed.
LEMMA OverwrittenOthers ==
    ASSUME InvRC, NEW t \in Transactions, NEW r, Overwrites(tx[t].held, r), actors' = actors
    PROVE  /\ \A u \in Transactions \ {t} : \A i \in tx[u].held :
                public_keys'[i].revoke_root = public_keys[i].revoke_root
           /\ \A u \in Transactions \ {t} : \A a \in tx[u].name : ~ActorExists(a)'
<1>1. \A u \in Transactions \ {t} : /\ tx[u].held \subseteq DOMAIN public_keys
                                    /\ tx[u].held \cap tx[t].held = {}
  BY Own DEF TxRows, Disjoint
<1>2. \A u \in Transactions : \A a \in tx[u].name : ~ActorExists(a)
  BY Own DEF TxNames
<1> QED
  BY <1>1, <1>2 DEF Overwrites, ActorExists

LEMMA RevokeKeyKeeps == ASSUME InvRC, NEW s \in Slots, CommitRevokeKey(s) PROVE InvRC'
<1> DEFINE r == root[s]
<1>1. /\ pc[s] = "logged" /\ msg[s].action = "RevokeKey"
      /\ r \in DOMAIN log /\ r \in Nat /\ log[r] = msg[s]
  BY ProcessingTyped DEF CommitRevokeKey, Processing, InvRC, TableInv
<1>2. /\ Finish(s) /\ tx' = [tx EXCEPT ![s] = NoTx] /\ s \in Transactions
      /\ UNCHANGED <<actors, auxiliary_data, log>>
  BY EndsRequest DEF CommitRevokeKey
<1>3. /\ Overwrites(tx[s].held, r)
      /\ public_keys' \in Seq(KeyRow)
      /\ \A i \in DOMAIN public_keys' : public_keys'[i].actor_id \in DOMAIN actors
  BY <1>1, <1>2, HeldOverwritten DEF CommitRevokeKey
<1>4. \A i \in tx[s].held : /\ public_keys[i].public_key = msg[s].public_key
                            /\ \A j \in tx[s].held : i = j
  BY <1>1, <1>2, Own DEF TxRows, IsRevokeKey, Processing
<1>5. \A j \in DOMAIN public_keys : public_keys[j].revoke_root # r
  BY <1>1 DEF InvRC, TableInv, RootsFresh
<1>6. KeyEventsLogged' /\ AuxEventsLogged' /\ EntriesUsedOnce'
  BY <1>1, <1>2, <1>3, <1>4, <1>5, OverwrittenTables DEF InvRC
<1>7. symmetric_keys' \subseteq DOMAIN log
  BY <1>1 DEF CommitRevokeKey, StoreSymmetricKeys, InvRC, TableInv, TypeInv, TypeOK
<1>8. TypeInv'
  <2>1. TypeOK'
    BY <1>2, <1>3, <1>7 DEF Finish, InvRC, TableInv, TypeInv, TypeOK
  <2>2. RequestsOK'
    BY <1>2 DEF Finish, InvRC, TableInv, TypeInv, TypeOK, RequestsOK
  <2> QED
    BY <2>1, <2>2 DEF TypeInv
<1>9. \A u \in Slots : pc[u] = "logged" /\ u # s => root[u] # r
  BY <1>1 DEF InvRC, TableInv, RootsFresh
<1> HIDE DEF r
<1>10. RootsFresh'
  <2>1. ASSUME NEW u \in Slots, pc'[u] = "logged"
        PROVE  u # s /\ pc[u] = "logged" /\ root'[u] = root[u]
    BY <1>2, <2>1 DEF Finish, InvRC, TableInv, TypeInv, TypeOK
  <2>2. ASSUME NEW u \in Slots, pc'[u] = "logged", NEW i \in DOMAIN public_keys
        PROVE  /\ public_keys'[i].merkle_root # root[u]
               /\ public_keys'[i].revoke_root # root[u]
    <3>1. /\ public_keys[i].merkle_root # root[u]
          /\ public_keys[i].revoke_root # root[u] /\ root[u] # r
      BY <1>9, <2>1, <2>2 DEF InvRC, TableInv, RootsFresh
    <3> QED
      BY <1>3, <3>1 DEF Overwrites
  <2>3. ASSUME NEW u \in Slots, pc'[u] = "logged"
        PROVE  /\ \A v \in Slots : pc[v] = "logged" /\ root[u] = root[v] => u = v
               /\ \A i \in DOMAIN auxiliary_data : auxiliary_data[i].merkle_root # root[u]
    BY <2>1, <2>3 DEF InvRC, TableInv, RootsFresh
  <2>4. DOMAIN public_keys' = DOMAIN public_keys /\ auxiliary_data' = auxiliary_data
    BY <1>2, <1>3 DEF Overwrites
  <2> QED
    BY <2>1, <2>2, <2>3, <2>4 DEF RootsFresh
<1>11. TableInv'
  BY <1>2, <1>6, <1>8, <1>10 DEF InvRC, TableInv, ActorNamesUnique
<1>12. /\ \A u \in Transactions \ {s} : \A i \in tx[u].held :
              public_keys'[i].revoke_root = public_keys[i].revoke_root
       /\ \A u \in Transactions \ {s} : \A a \in tx[u].name : ~ActorExists(a)'
  BY <1>2, <1>3, OverwrittenOthers
<1>13. /\ DOMAIN public_keys \subseteq DOMAIN public_keys'
       /\ \A i \in DOMAIN public_keys : public_keys'[i].public_key = public_keys[i].public_key
  BY <1>3 DEF Overwrites
<1>14. \A u \in Slots \ {s} : pc'[u] = pc[u] /\ msg'[u] = msg[u]
  BY <1>2, FinishOthers DEF InvRC
<1> QED
  BY <1>2, <1>11, <1>12, <1>13, <1>14, EndKeeps, AuxSame

LEMMA BurnDownKeeps == ASSUME InvRC, NEW t \in Transactions, CommitBurnDown(t) PROVE InvRC'
<1> DEFINE r == IF t = Administrator THEN AdminRoot ELSE root[t]
<1>1. /\ tx' = [tx EXCEPT ![t] = NoTx]
      /\ UNCHANGED <<actors, auxiliary_data, log>>
      /\ CommitKeyRows(t, r)
      /\ Runs(t, "BurnDown")
  BY DEF CommitBurnDown, End
<1>2. t # Administrator =>
        /\ t \in Slots /\ Finish(t) /\ pc[t] = "logged" /\ msg[t].action = "BurnDown"
        /\ root[t] \in DOMAIN log /\ root[t] \in Nat /\ log[root[t]] = msg[t]
  BY <1>1, ProcessingTyped
     DEF CommitBurnDown, End, Transactions, Runs, Processing, InvRC, TableInv
<1>3. t = Administrator => UNCHANGED <<pc, msg, root>>
  BY DEF CommitBurnDown, End, requests
<1>4. /\ r \in Nat \cup {AdminRoot}
      /\ \/ r = AdminRoot
         \/ r \in DOMAIN log /\ log[r].action = "BurnDown"
      /\ \A u \in Slots : pc[u] = "logged" /\ u # t => root[u] # r
  <2>1. \A u \in Slots : pc[u] = "logged" => root[u] # AdminRoot
    BY ProcessingTyped, ConstantsAssumption DEF InvRC, TableInv
  <2>2. t # Administrator => \A u \in Slots : pc[u] = "logged" /\ u # t => root[u] # root[t]
    BY <1>2 DEF InvRC, TableInv, RootsFresh
  <2> QED
    BY <1>2, <2>1, <2>2
<1> HIDE DEF r
<1>5. /\ Overwrites(tx[t].held, r)
      /\ public_keys' \in Seq(KeyRow)
      /\ \A i \in DOMAIN public_keys' : public_keys'[i].actor_id \in DOMAIN actors
  BY <1>1, <1>4, HeldOverwritten
<1>6. KeyEventsLogged' /\ AuxEventsLogged' /\ EntriesUsedOnce'
  BY <1>1, <1>4, <1>5, OverwrittenTables DEF InvRC
<1>7. symmetric_keys' \subseteq DOMAIN log
  BY DEF CommitBurnDown, InvRC, TableInv, TypeInv, TypeOK
<1>8. /\ pc' \in [Slots -> {"idle", "validated", "logged"}]
      /\ msg' \in [Slots -> Message \cup {NoMsg}]
      /\ root' \in [Slots -> Nat \cup {NoRoot}]
      /\ \A u \in Slots : pc'[u] # "idle" =>
            u # t /\ pc'[u] = pc[u] /\ msg'[u] = msg[u] /\ root'[u] = root[u]
      /\ \A u \in Slots \ {t} : pc'[u] = pc[u] /\ msg'[u] = msg[u]
  BY <1>2, <1>3, AdministratorAssumption DEF Finish, InvRC, TableInv, TypeInv, TypeOK
<1>9. TypeInv'
  <2>1. TypeOK'
    BY <1>1, <1>5, <1>7, <1>8 DEF InvRC, TableInv, TypeInv, TypeOK
  <2>2. RequestsOK'
    BY <1>1, <1>8 DEF InvRC, TableInv, TypeInv, TypeOK, RequestsOK
  <2> QED
    BY <2>1, <2>2 DEF TypeInv
<1>10. RootsFresh'
  <2>1. \A u \in Slots : pc'[u] = "logged" => pc[u] = "logged" /\ u # t /\ root'[u] = root[u]
    BY <1>8
  <2>2. \A u \in Slots, i \in DOMAIN public_keys' : pc'[u] = "logged" =>
          public_keys'[i].merkle_root # root[u] /\ public_keys'[i].revoke_root # root[u]
    BY <1>4, <1>5, <2>1 DEF Overwrites, InvRC, TableInv, RootsFresh
  <2> QED
    BY <1>1, <2>1, <2>2 DEF InvRC, TableInv, RootsFresh
<1>11. TableInv'
  BY <1>1, <1>6, <1>9, <1>10 DEF InvRC, TableInv, ActorNamesUnique
<1>12. /\ \A u \in Transactions \ {t} : \A i \in tx[u].held :
              public_keys'[i].revoke_root = public_keys[i].revoke_root
       /\ \A u \in Transactions \ {t} : \A a \in tx[u].name : ~ActorExists(a)'
  BY <1>1, <1>5, OverwrittenOthers
<1>13. /\ DOMAIN public_keys \subseteq DOMAIN public_keys'
       /\ \A i \in DOMAIN public_keys : public_keys'[i].public_key = public_keys[i].public_key
  BY <1>5 DEF Overwrites
<1> QED
  BY <1>1, <1>8, <1>11, <1>12, <1>13, EndKeeps, AuxSame

\* The new name was entered in the index while nobody had it.
LEMMA MoveIdentityKeeps == ASSUME InvRC, NEW s \in Slots, CommitMoveIdentity(s) PROVE InvRC'
<1>1. /\ Finish(s) /\ tx' = [tx EXCEPT ![s] = NoTx] /\ s \in Transactions
      /\ UNCHANGED <<public_keys, auxiliary_data, symmetric_keys, log>>
  BY EndsRequest DEF CommitMoveIdentity
<1> DEFINE a == msg[s].new_actor
<1>2. tx[s].at = "renamed" /\ tx[s].name = {a} /\ a \in Actors
  BY <1>1, Own DEF CommitMoveIdentity, TxNames, TxRecord
<1>3. PICK r \in DOMAIN actors : tx[s].lock = {r}
  BY <1>1, <1>2, Own DEF TxNames
<1>4. \A i \in DOMAIN actors : actors[i] \in ActorRow
  BY DEF InvRC, TableInv, TypeInv, TypeOK
<1>5. actors' = [i \in DOMAIN actors |->
        IF i \in tx[s].lock THEN [actors[i] EXCEPT !.actor_id = a] ELSE actors[i]]
  BY DEF CommitMoveIdentity
<1> HIDE DEF a
<1>6. /\ DOMAIN actors' = DOMAIN actors
      /\ actors' = [i \in DOMAIN actors |-> actors'[i]]
      /\ \A i \in DOMAIN actors :
            /\ actors'[i] \in ActorRow
            /\ actors'[i].actor_id = IF i = r THEN a ELSE actors[i].actor_id
  BY <1>2, <1>3, <1>4, <1>5 DEF ActorRow
<1>7. actors' \in Seq(ActorRow)
  BY <1>6, MapRows DEF InvRC, TableInv, TypeInv, TypeOK
<1>8. TypeInv'
  <2>1. TypeOK'
    BY <1>1, <1>6, <1>7 DEF Finish, InvRC, TableInv, TypeInv, TypeOK
  <2>2. RequestsOK'
    BY <1>1 DEF Finish, InvRC, TableInv, TypeInv, TypeOK, RequestsOK
  <2> QED
    BY <2>1, <2>2 DEF TypeInv
<1>9. \A u \in Transactions : \A b \in tx[u].name : ~ActorExists(b)
  BY Own DEF TxNames
<1>10. \A i \in DOMAIN actors : actors[i].actor_id # a
  BY <1>1, <1>2, <1>9 DEF ActorExists
<1>11. ActorNamesUnique'
  BY <1>6, <1>10 DEF InvRC, TableInv, ActorNamesUnique
<1>12. TableInv'
  BY <1>1, <1>8, <1>11, TablesKept, FinishFresh DEF InvRC, TableInv, LogGrows
<1>13. ASSUME NEW u \in Transactions \ {s}, NEW b \in tx[u].name
       PROVE  ~ActorExists(b)'
  <2>1. b # a
    BY <1>1, <1>2, Own DEF Disjoint
  <2> QED
    BY <1>6, <1>9, <2>1 DEF ActorExists
<1>14. \A u \in Slots \ {s} : pc'[u] = pc[u] /\ msg'[u] = msg[u]
  BY <1>1, FinishOthers DEF InvRC
<1> QED
  BY <1>1, <1>6, <1>12, <1>13, <1>14, EndKeeps, AuxSame

LEMMA FireproofKeeps == ASSUME InvRC, NEW s \in Slots, UpdateFireproof(s) PROVE InvRC'
<1>1. PICK flag \in BOOLEAN : SetFireproof(s, flag)
  BY DEF UpdateFireproof, ProcessFireproof, ProcessUndoFireproof
<1>2. /\ UNCHANGED <<public_keys, auxiliary_data, symmetric_keys, log, tx>> /\ Finish(s)
      /\ tx[s] = NoTx
  BY <1>1, NoTransaction DEF UpdateFireproof, ProcessFireproof, ProcessUndoFireproof,
     Processing, SetFireproof
<1>3. TypeInv'
  BY <1>1, TypeSetFireproof DEF InvRC, TableInv
<1>4. /\ DOMAIN actors' = DOMAIN actors
      /\ \A i \in DOMAIN actors : actors'[i].actor_id = actors[i].actor_id
  <2>1. \A i \in DOMAIN actors : actors[i] \in ActorRow
    BY DEF InvRC, TableInv, TypeInv, TypeOK
  <2> QED
    BY <1>1, <2>1 DEF SetFireproof, ActorRow
<1>5. ActorNamesUnique'
  BY <1>4 DEF InvRC, TableInv, ActorNamesUnique
<1>6. TableInv'
  BY <1>2, <1>3, <1>5, TablesKept, FinishFresh DEF InvRC, TableInv, LogGrows
<1>7. \A u \in Slots \ {s} : pc'[u] = pc[u] /\ msg'[u] = msg[u]
  BY <1>2, FinishOthers DEF InvRC
<1> QED
  BY <1>2, <1>4, <1>6, <1>7, OutsideKeeps

\* The UPDATE finds the auxiliary row, and locks it.
LEMMA AuxKeeps ==
    ASSUME InvRC, NEW s \in Slots, FindAuxData(s) \/ LockAuxData(s)
    PROVE  InvRC'
<1>1. s \in Transactions
  BY DEF Transactions
<1>2. CASE FindAuxData(s)
  <2> DEFINE e == [tx[s] EXCEPT !.at = "auxfound"]
  <2>1. Statement(s, e) /\ tx[s] = NoTx /\ Processing(s, "RevokeAuxData")
    BY <1>1, <1>2, Own DEF FindAuxData, TxPhase
  <2>2. msg[s].aux_id \in DOMAIN auxiliary_data
    BY <1>2 DEF FindAuxData, LiveAux
  <2>3. e \in TxRecord
    BY <1>1, Own DEF TxRecord
  <2>4. OwnTx(s, e)
    BY <2>1, <2>2 DEF NoTx, OwnTx, TxPhase, TxRows, TxNames, TxAux
  <2>5. \A u \in Transactions \ {s} : Disjoint(e, tx[u])
    BY <2>1 DEF NoTx, Disjoint
  <2> QED
    BY <1>1, <2>1, <2>3, <2>4, <2>5, StatementKeeps
<1>3. CASE LockAuxData(s)
  <2> DEFINE i == msg[s].aux_id
             e == [tx[s] EXCEPT !.at = "auxheld", !.aux = {i}]
  <2>1. /\ Statement(s, e) /\ tx[s].at = "auxfound"
        /\ \A u \in Transactions \ {s} : i \notin tx[u].aux
        /\ auxiliary_data[i].revoke_root = NoRoot
    BY <1>3 DEF LockAuxData
  <2>2. i \in DOMAIN auxiliary_data /\ i \in Nat
    BY <1>1, <2>1, Own DEF TxAux, InvRC, TableInv, TypeInv, TypeOK
  <2> HIDE DEF i
  <2>3. e \in TxRecord
    <3>1. {i} \in SUBSET Nat
      BY <2>2
    <3> QED
      BY <1>1, <3>1, Own DEF TxRecord
  <2>4. OwnTx(s, e)
    <3>1. TxPhase(s, e) /\ TxRows(s, e) /\ TxNames(s, e)
      BY <1>1, <2>1, Own DEF TxPhase, TxRows, TxNames, TxRecord
    <3>2. TxAux(s, e)
      BY <1>1, <2>1, <2>2, Own DEF TxAux, TxRecord, i
    <3> QED
      BY <3>1, <3>2 DEF OwnTx
  <2>5. \A u \in Transactions \ {s} : Disjoint(e, tx[u])
    BY <1>1, <2>1, Own DEF Disjoint, TxRecord
  <2> QED
    BY <1>1, <2>1, <2>3, <2>4, <2>5, StatementKeeps
<1> QED
  BY <1>2, <1>3

\* The revocation's entry names the row, whatever the actor is called by now.
LEMMA RevokeAuxKeeps == ASSUME InvRC, NEW s \in Slots, CommitRevokeAuxData(s) PROVE InvRC'
<1> DEFINE id == msg[s].aux_id
<1>1. /\ Finish(s) /\ tx' = [tx EXCEPT ![s] = NoTx] /\ s \in Transactions
      /\ UNCHANGED <<actors, public_keys, symmetric_keys, log>>
  BY EndsRequest DEF CommitRevokeAuxData
<1>2. /\ tx[s].aux = {id} /\ id \in DOMAIN auxiliary_data
      /\ Processing(s, "RevokeAuxData")
  BY <1>1, Own DEF CommitRevokeAuxData, TxPhase, TxAux
<1>3. root[s] \in DOMAIN log /\ root[s] \in Nat /\ log[root[s]] = msg[s]
  BY <1>2, ProcessingTyped DEF Processing, InvRC, TableInv
<1>4. \A i \in DOMAIN auxiliary_data : auxiliary_data[i] \in AuxRow
  BY Numbers DEF InvRC, TableInv
<1>5. auxiliary_data' = [i \in DOMAIN auxiliary_data |->
        IF i \in tx[s].aux THEN [auxiliary_data[i] EXCEPT !.revoke_root = root[s]]
                          ELSE auxiliary_data[i]]
  BY DEF CommitRevokeAuxData
<1> HIDE DEF id
<1>6. /\ DOMAIN auxiliary_data' = DOMAIN auxiliary_data
      /\ auxiliary_data' = [i \in DOMAIN auxiliary_data |-> auxiliary_data'[i]]
      /\ \A i \in DOMAIN auxiliary_data :
           /\ auxiliary_data'[i] \in AuxRow
           /\ auxiliary_data'[i].actor_id = auxiliary_data[i].actor_id
           /\ auxiliary_data'[i].merkle_root = auxiliary_data[i].merkle_root
           /\ auxiliary_data'[i].revoke_root =
                IF i = id THEN root[s] ELSE auxiliary_data[i].revoke_root
  BY <1>2, <1>3, <1>4, <1>5 DEF AuxRow
<1>7. TypeInv'
  <2>1. auxiliary_data' \in Seq(AuxRow)
    BY <1>6, MapRows DEF InvRC, TableInv, TypeInv, TypeOK
  <2>2. TypeOK'
    BY <1>1, <1>6, <2>1 DEF Finish, InvRC, TableInv, TypeInv, TypeOK
  <2>3. RequestsOK'
    BY <1>1 DEF Finish, InvRC, TableInv, TypeInv, TypeOK, RequestsOK
  <2> QED
    BY <2>2, <2>3 DEF TypeInv
<1>8. AuxEventsLogged'
  <2>1. /\ log' = log /\ log[root[s]].action = "RevokeAuxData" /\ log[root[s]].aux_id = id
    BY <1>1, <1>2, <1>3 DEF Processing, id
  <2>2. AuxEventsLogged
    BY DEF InvRC, TableInv
  <2> QED
    BY <1>3, <1>6, <2>1, <2>2 DEF AuxEventsLogged
<1>9. KeyEventsLogged' /\ EntriesUsedOnce' /\ ActorNamesUnique'
  <2>1. KeyEventsLogged' /\ ActorNamesUnique'
    BY <1>1 DEF InvRC, TableInv, KeyEventsLogged, ActorNamesUnique
  <2>2. EntriesUsedOnce'
    BY <1>1, <1>6 DEF InvRC, TableInv, EntriesUsedOnce
  <2> QED
    BY <2>1, <2>2
<1>10. RootsFresh'
  <2>1. \A u \in Slots : pc'[u] = "logged" => pc[u] = "logged" /\ root'[u] = root[u]
    BY <1>1 DEF Finish, InvRC, TableInv, TypeInv, TypeOK
  <2> QED
    BY <1>1, <1>6, <2>1 DEF InvRC, TableInv, RootsFresh
<1>11. TableInv'
  BY <1>7, <1>8, <1>9, <1>10 DEF TableInv
<1>12. AuxKept(Transactions \ {s})
  <2>1. \A u \in Transactions \ {s} : id \notin tx[u].aux /\ tx[u].aux \subseteq DOMAIN auxiliary_data
    BY <1>1, <1>2, Own DEF Disjoint, TxAux
  <2> QED
    BY <1>6, <2>1 DEF AuxKept
<1>13. \A u \in Transactions : \A a \in tx[u].name : ~ActorExists(a)'
  BY <1>1, Own DEF TxNames, ActorExists
<1>14. \A u \in Slots \ {s} : pc'[u] = pc[u] /\ msg'[u] = msg[u]
  BY <1>1, FinishOthers DEF InvRC
<1> QED
  BY <1>1, <1>11, <1>12, <1>13, <1>14, EndKeeps

-----------------------------------------------------------------------------
(* The invariant.                                                           *)

LEMMA InitKeeps == ASSUME InitRC PROVE InvRC
<1>1. Init /\ tx = [t \in Transactions |-> NoTx]
  BY DEF InitRC
<1>2. IndInv
  BY <1>1, SafetyInit
<1>3. TableInv
  BY <1>2 DEF TableInv, IndInv, KeyInv, RequestInv
<1>4. TxInv
  BY <1>1, NoTxKeeps, NoTxOwn DEF TxInv
<1> QED
  BY <1>3, <1>4 DEF InvRC

LEMMA ProcessKeeps == ASSUME InvRC, NEW s \in Slots, ProcessRC(s) PROVE InvRC'
<1>1. s \in Transactions
  BY DEF Transactions
<1>2. CASE RejectSymmetricKeys(s) /\ UNCHANGED tx
  BY <1>2, NoTransaction, AbandonKeeps DEF RejectSymmetricKeys
<1>3. CASE SelectActor(s)
  BY <1>3, SelectActorKeeps
<1>4. CASE InsertActor(s)
  BY <1>4, InsertActorKeeps
<1>5. CASE CommitAddKey(s)
  BY <1>5, AddKeyKeeps
<1>6. CASE CommitAddAuxData(s)
  BY <1>6, AddAuxDataKeeps
<1>7. CASE SelectKeyToRevoke(s)
  BY <1>7, SelectKeyKeeps
<1>8. CASE CommitRevokeKey(s)
  BY <1>8, RevokeKeyKeeps
<1>9. CASE CheckNewActor(s) \/ LockOldActor(s) \/ EnterNewName(s)
  BY <1>9, MoveKeeps
<1>10. CASE CommitMoveIdentity(s)
  BY <1>10, MoveIdentityKeeps
<1>11. CASE UpdateFireproof(s)
  BY <1>11, FireproofKeeps
<1>12. CASE FindAuxData(s) \/ LockAuxData(s)
  BY <1>12, AuxKeeps
<1>13. CASE CommitRevokeAuxData(s)
  BY <1>13, RevokeAuxKeeps
<1>14. CASE RejectRC(s)
  BY <1>1, <1>14, RollbackKeeps DEF RejectRC
<1> QED
  BY <1>2, <1>3, <1>4, <1>5, <1>6, <1>7, <1>8, <1>9, <1>10, <1>11, <1>12, <1>13, <1>14
     DEF ProcessRC

LEMMA NextKeeps == ASSUME InvRC, [NextRC]_varsRC PROVE InvRC'
<1>1. ASSUME NEW s \in Slots, (Validate(s) \/ Submit(s)) /\ UNCHANGED tx PROVE InvRC'
  BY <1>1, ValidateKeeps, SubmitKeeps
<1>2. ASSUME NEW t \in Transactions, Advance(t) PROVE InvRC'
  <2>1. CASE CommitBurnDown(t)
    BY <2>1, BurnDownKeeps
  <2>2. CASE FindActor(t) \/ GetMessageHashes(t) \/ DeleteSymmetricKeys(t) \/ RevokeAllKeys(t)
    BY <2>2, BurnKeeps
  <2>3. CASE WriteKeyRow(t)
    BY <2>3, WriteKeyRowKeeps
  <2>4. CASE t \in Slots /\ ProcessRC(t)
    BY <2>4, ProcessKeeps
  <2> QED
    BY <1>2, <2>1, <2>2, <2>3, <2>4 DEF Advance, Burn
<1>3. ASSUME NEW t \in Transactions, StatementFails(t) PROVE InvRC'
  BY <1>3, RollbackKeeps DEF StatementFails
<1>4. CASE CrashRC
  BY <1>4, CrashKeeps
<1>5. CASE UNCHANGED varsRC
  <2>1. UNCHANGED <<actors, public_keys, auxiliary_data, symmetric_keys, log, pc, msg, root, tx>>
    BY <1>5 DEF varsRC, vars
  <2>2. TableInv'
    BY <2>1, TablesStay DEF InvRC
  <2>3. ASSUME NEW t \in Transactions PROVE OwnTx(t, tx[t])'
    <3>1. OwnTx(t, tx[t]) /\ \A a \in tx[t].name : ~ActorExists(a)
      BY DEF InvRC, TxInv, OwnTx, TxNames
    <3>2. \A a \in tx[t].name : ~ActorExists(a)'
      BY <2>1, <3>1 DEF ActorExists
    <3> QED
      BY <2>1, <3>1, <3>2, OwnKept, AuxSame
  <2>4. TxInv'
    BY <2>1, <2>3 DEF InvRC, TxInv, Disjoint
  <2> QED
    BY <2>2, <2>4 DEF InvRC
<1> QED
  BY <1>1, <1>2, <1>3, <1>4, <1>5 DEF NextRC

\* However the statements of transactions interleave: each finds at its commit what it
\* relied on, and the tables agree with the log.
THEOREM SafetyRC == SpecRC => []InvRC
<1>1. InitRC => InvRC
  BY InitKeeps
<1>2. InvRC /\ [NextRC]_varsRC => InvRC'
  BY NextKeeps
<1> QED
  BY <1>1, <1>2, PTL DEF SpecRC

\* The tables keep their shapes, and no two transactions hold one row or one name.
THEOREM TypeCorrectRC == SpecRC => []TypeOKRC
<1>1. InvRC => TypeOKRC
  BY DEF InvRC, TableInv, TypeInv, TxInv, Disjoint, TypeOKRC
<1> QED
  BY <1>1, SafetyRC, PTL

\* Two transactions that create, or move to, one name do not both commit.
THEOREM OneAccountPerNameRC == SpecRC => []ActorNamesUnique
<1>1. InvRC => ActorNamesUnique
  BY DEF InvRC, TableInv
<1> QED
  BY <1>1, SafetyRC, PTL

\* Every key row and every revocation but an administrator's has its log entry, also
\* where an UPDATE overwrites a revocation it did not see.
THEOREM TransparencyRC == SpecRC => []KeyEventsLogged
<1>1. InvRC => KeyEventsLogged
  BY DEF InvRC, TableInv
<1> QED
  BY <1>1, SafetyRC, PTL

\* No log entry takes effect twice.
THEOREM AtMostOnceRC == SpecRC => []EntriesUsedOnce
<1>1. InvRC => EntriesUsedOnce
  BY DEF InvRC, TableInv
<1> QED
  BY <1>1, SafetyRC, PTL

-----------------------------------------------------------------------------
(* The kinds of steps: statements, commits and the ends without one.        *)

\* A statement of t between its BEGIN and its COMMIT.
OwnStatement(t) ==
    \/ /\ t \in Slots
       /\ \/ SelectActor(t) \/ InsertActor(t) \/ SelectKeyToRevoke(t)
          \/ CheckNewActor(t) \/ LockOldActor(t) \/ EnterNewName(t)
          \/ FindAuxData(t) \/ LockAuxData(t)
    \/ WriteKeyRow(t)
    \/ FindActor(t) \/ GetMessageHashes(t) \/ DeleteSymmetricKeys(t) \/ RevokeAllKeys(t)

LEMMA OwnStatementIs ==
    ASSUME NEW t, OwnStatement(t)
    PROVE  UNCHANGED vars /\ \E e : tx' = [tx EXCEPT ![t] = e]
BY DEF OwnStatement, SelectActor, InsertActor, SelectKeyToRevoke, CheckNewActor, LockOldActor,
   EnterNewName, FindAuxData, LockAuxData, WriteKeyRow, FindActor, GetMessageHashes,
   DeleteSymmetricKeys, RevokeAllKeys, Statement

\* The commits, and the ends without one.
Commit(s) ==
    \/ CommitAddKey(s) \/ CommitAddAuxData(s) \/ CommitRevokeKey(s)
    \/ CommitMoveIdentity(s) \/ CommitRevokeAuxData(s)
OneStatement(s) == (RejectSymmetricKeys(s) \/ UpdateFireproof(s)) /\ UNCHANGED tx

\* The kinds of steps.
LEMMA StepKinds ==
    ASSUME [NextRC]_varsRC
    PROVE  \/ \E s \in Slots : (Validate(s) \/ Submit(s)) /\ UNCHANGED tx
           \/ \E s \in Slots : OneStatement(s) \/ Commit(s) \/ RejectRC(s)
           \/ \E t \in Transactions : OwnStatement(t) \/ CommitBurnDown(t) \/ StatementFails(t)
           \/ CrashRC
           \/ UNCHANGED varsRC
<1>1. ASSUME NEW s \in Slots, ProcessRC(s)
      PROVE  OwnStatement(s) \/ OneStatement(s) \/ Commit(s) \/ RejectRC(s)
  BY <1>1 DEF ProcessRC, OwnStatement, OneStatement, Commit, UpdateFireproof
<1>2. ASSUME NEW t \in Transactions, Advance(t), ~OwnStatement(t), ~CommitBurnDown(t)
      PROVE  t \in Slots /\ ProcessRC(t)
  BY <1>2 DEF Advance, Burn, OwnStatement
<1> QED
  BY <1>1, <1>2, Zenon DEF NextRC

-----------------------------------------------------------------------------
(* Revocations, and who waits for whom.                                     *)

\* Auxiliary rows are written by two commits.
LEMMA AuxRowsKept ==
    ASSUME [NextRC]_varsRC, \A s \in Slots : ~CommitAddAuxData(s) /\ ~CommitRevokeAuxData(s)
    PROVE  UNCHANGED auxiliary_data
<1>1. ASSUME NEW s \in Slots, Validate(s) \/ Submit(s) PROVE UNCHANGED auxiliary_data
  BY <1>1, ValidateAccepts DEF Accept, Submit, SubmitMessage, SubmitRefused, SubmitUnanswered,
     database
<1>2. ASSUME NEW s \in Slots, OneStatement(s) PROVE UNCHANGED auxiliary_data
  BY <1>2 DEF OneStatement, RejectSymmetricKeys, UpdateFireproof, ProcessFireproof,
     ProcessUndoFireproof, SetFireproof, database
<1>3. ASSUME NEW s \in Slots, Commit(s) PROVE UNCHANGED auxiliary_data
  BY <1>3 DEF Commit, CommitAddKey, CommitRevokeKey, CommitMoveIdentity
<1>4. ASSUME NEW t, RejectRC(t) \/ StatementFails(t) \/ CommitBurnDown(t)
      PROVE  UNCHANGED auxiliary_data
  BY <1>4 DEF RejectRC, StatementFails, CommitBurnDown, Rollback, database
<1>5. ASSUME NEW t, OwnStatement(t) PROVE UNCHANGED auxiliary_data
  BY <1>5, OwnStatementIs DEF vars
<1>6. CASE CrashRC \/ UNCHANGED varsRC
  BY <1>6 DEF CrashRC, Crash, database, varsRC, vars
<1> QED
  BY <1>1, <1>2, <1>3, <1>4, <1>5, <1>6, StepKinds

\* An auxiliary row is written while its lock is held, and so while it is live.
LEMMA AuxRevocationsNext ==
    ASSUME InvRC, [NextRC]_varsRC, NEW i \in DOMAIN auxiliary_data,
           auxiliary_data[i].revoke_root # NoRoot
    PROVE  auxiliary_data'[i] = auxiliary_data[i]
<1>1. ASSUME NEW s \in Slots, CommitAddAuxData(s) PROVE auxiliary_data'[i] = auxiliary_data[i]
  <2>1. auxiliary_data \in Seq(AuxRow)
    BY DEF InvRC, TableInv, TypeInv, TypeOK
  <2>2. PICK e : auxiliary_data' = Append(auxiliary_data, e)
    BY <1>1 DEF CommitAddAuxData
  <2> QED
    BY <2>1, <2>2
<1>2. ASSUME NEW s \in Slots, CommitRevokeAuxData(s) PROVE auxiliary_data'[i] = auxiliary_data[i]
  <2>1. i \notin tx[s].aux
    BY Own DEF Transactions, TxAux
  <2> QED
    BY <1>2, <2>1 DEF CommitRevokeAuxData
<1> QED
  BY <1>1, <1>2, AuxRowsKept

LEMMA RevocationsNext == ASSUME InvRC, [NextRC]_varsRC PROVE RevocationsStayStep
<1>1. ASSUME NEW i \in DOMAIN public_keys, public_keys[i].revoke_root # NoRoot,
             public_keys'[i] # public_keys[i]
      PROVE  \E s \in Slots :
               /\ Processing(s, "RevokeKey")
               /\ msg[s].public_key = public_keys[i].public_key
               /\ public_keys'[i] = [public_keys[i] EXCEPT !.revoke_root = root[s]]
  <2>1. ASSUME NEW s \in Slots, CommitAddKey(s) PROVE FALSE
    <3>1. public_keys \in Seq(KeyRow)
      BY DEF InvRC, TableInv, TypeInv, TypeOK
    <3>2. PICK e : public_keys' = Append(public_keys, e)
      BY <2>1 DEF CommitAddKey
    <3> QED
      BY <1>1, <3>1, <3>2
  <2>2. ASSUME NEW t \in Transactions, CommitBurnDown(t) PROVE FALSE
    <3>1. i \notin tx[t].held
      BY <1>1, <2>2, Own DEF CommitBurnDown, TxRows
    <3> QED
      BY <1>1, <2>2, <3>1 DEF CommitBurnDown, CommitKeyRows
  <2>3. ASSUME NEW s \in Slots, Validate(s) \/ Submit(s) PROVE FALSE
    BY <1>1, <2>3, ValidateAccepts DEF Accept, Submit, SubmitMessage, SubmitRefused,
       SubmitUnanswered, database
  <2>4. ASSUME NEW s \in Slots, OneStatement(s) PROVE FALSE
    BY <1>1, <2>4 DEF OneStatement, RejectSymmetricKeys, UpdateFireproof, ProcessFireproof,
       ProcessUndoFireproof, SetFireproof, database
  <2>5. ASSUME NEW t, RejectRC(t) \/ StatementFails(t) PROVE FALSE
    BY <1>1, <2>5 DEF RejectRC, StatementFails, Rollback, database
  <2>6. ASSUME NEW t, OwnStatement(t) PROVE FALSE
    BY <1>1, <2>6, OwnStatementIs DEF vars
  <2>7. ~CrashRC /\ ~UNCHANGED varsRC
    BY <1>1 DEF CrashRC, Crash, database, varsRC, vars
  <2>8. PICK s \in Slots : CommitRevokeKey(s)
    <3>1. PICK s \in Slots : Commit(s)
      BY <2>2, <2>3, <2>4, <2>5, <2>6, <2>7, StepKinds
    <3> QED
      BY <1>1, <2>1, <3>1
         DEF Commit, CommitAddAuxData, CommitMoveIdentity, CommitRevokeAuxData
  <2>9. IsRevokeKey(s) /\ s \in Transactions /\ CommitKeyRows(s, root[s])
    BY <2>8 DEF Transactions, CommitRevokeKey, IsRevokeKey
  <2>10. \A j \in tx[s].held : public_keys[j].public_key = msg[s].public_key
    BY <2>9, Own DEF TxRows
  <2> QED
    BY <1>1, <2>9, <2>10 DEF CommitKeyRows, IsRevokeKey
<1> QED
  BY <1>1, AuxRevocationsNext DEF RevocationsStayStep

\* A revoked key stays revoked, and a burn leaves the root of a revocation alone; a
\* revocation of auxiliary data is never written over.
THEOREM RevocationsStayRC == SpecRC => RevocationsStay
<1>1. InvRC /\ [NextRC]_varsRC => [RevocationsStayStep]_varsRC
  BY RevocationsNext
<1> QED
  BY <1>1, SafetyRC, PTL DEF SpecRC, RevocationsStay

\* A bounded set of numbers that is not empty has a largest.
LEMMA Largest ==
    ASSUME NEW n \in Nat, NEW S \in SUBSET (1..n), S # {}
    PROVE  \E x \in S : \A y \in S : y <= x
<1> DEFINE T == {n - x : x \in S}
<1>1. T \subseteq Nat /\ T # {}
  <2>1. \A x \in S : x \in 1..n /\ n - x \in Nat
    OBVIOUS
  <2>2. \E x \in S : n - x \in T
    OBVIOUS
  <2> QED
    BY <2>1, <2>2
<1>2. PICK k \in T : \A y \in T : ~(<<y, k>> \in OpToRel(<, Nat))
  BY <1>1, NatLessThanWellFounded, WFMin
<1>3. PICK x \in S : k = n - x
  OBVIOUS
<1>4. ASSUME NEW y \in S PROVE y <= x
  <2>1. n - y \in T /\ n - y \in Nat /\ k \in Nat
    BY <1>1
  <2>2. ~(n - y < k)
    BY <1>2, <2>1 DEF OpToRel
  <2> QED
    BY <1>3, <2>2
<1> QED
  BY <1>3, <1>4

\* Among transactions that wait for each other there is one at the highest row; it
\* waits for somebody who holds that row, and who therefore wants a higher one.
LEMMA NobodyInACircle == ASSUME InvRC PROVE NoCircularWait
<1> SUFFICES ASSUME NEW waiting \in SUBSET Transactions, waiting # {},
                    \A t \in waiting : \E u \in waiting : u \in WaitsFor(t)
             PROVE  FALSE
  BY DEF NoCircularWait
<1>1. ASSUME NEW t \in waiting, tx[t].at = "update"
      PROVE  \E u \in waiting : \E i \in NextRow(tx[t].rows) : i \in tx[u].held
  BY <1>1 DEF WaitsFor
<1>2. \E t \in waiting : tx[t].at = "update"
  <2>1. PICK t \in waiting : TRUE
    OBVIOUS
  <2>2. CASE tx[t].at = "delete"
    <3>1. PICK u \in waiting : tx[u].deleted # {}
      BY <2>2 DEF WaitsFor
    <3>2. tx[u].at \in {"revoke", "update"}
      BY <3>1, Own DEF TxRows
    <3>3. tx[u].at \in {"delete", "update", "auxfound"}
      BY DEF WaitsFor
    <3> QED
      BY <3>2, <3>3
  <2>3. CASE tx[t].at = "auxfound"
    <3>1. PICK u \in waiting : tx[u].aux # {}
      BY <2>3 DEF WaitsFor
    <3>2. tx[u].at = "auxheld"
      BY <3>1, Own DEF TxAux
    <3> QED
      BY <3>2 DEF WaitsFor
  <2> QED
    BY <2>2, <2>3 DEF WaitsFor
<1> DEFINE next == {i \in DOMAIN public_keys :
                      \E t \in waiting : tx[t].at = "update" /\ i \in NextRow(tx[t].rows)}
<1>3. ASSUME NEW t \in waiting, NEW i \in NextRow(tx[t].rows) PROVE i \in DOMAIN public_keys
  BY <1>3, Own DEF NextRow, TxRows
<1>4. next # {}
  BY <1>1, <1>2, <1>3
<1>5. DOMAIN public_keys = 1..Len(public_keys) /\ Len(public_keys) \in Nat
  BY Numbers DEF InvRC, TableInv
<1>6. PICK i \in next : \A j \in next : j <= i
  <2>1. next \in SUBSET (1..Len(public_keys))
    BY <1>5
  <2> HIDE DEF next
  <2> QED
    BY <1>4, <1>5, <2>1, Largest
<1>7. PICK t \in waiting : tx[t].at = "update" /\ i \in NextRow(tx[t].rows)
  OBVIOUS
<1>8. PICK u \in waiting : i \in tx[u].held
  <2>1. \A j \in NextRow(tx[t].rows) : j = i
    <3>1. tx[t].rows \subseteq Nat
      BY Own DEF TxRecord
    <3> QED
      BY <1>7, <3>1 DEF NextRow
  <2> QED
    BY <1>1, <1>7, <2>1
<1>9. tx[u].at = "update" /\ \A j \in tx[u].rows : i < j
  BY <1>8, Own DEF TxRows
<1>10. PICK j \in NextRow(tx[u].rows) : TRUE
  BY <1>1, <1>9
<1>11. j \in next /\ i < j
  BY <1>3, <1>9 DEF NextRow
<1> QED
  BY <1>5, <1>6, <1>11

\* Burns and revocations never deadlock over key rows, symmetric keys or auxiliary rows.
THEOREM NoDeadlockOverKeys == SpecRC => []NoCircularWait
<1>1. InvRC => NoCircularWait
  BY NobodyInACircle
<1> QED
  BY <1>1, SafetyRC, PTL

-----------------------------------------------------------------------------
(* What interleaved statements do as a whole.  A transaction that locks an   *)
(* actors row knows what the row is called until it ends, so that AddKey,    *)
(* AddAuxData and MoveIdentity act at their commit as if all at once.        *)

LockedName(t) ==
    /\ tx[t].at = "insert" /\ tx[t].name = {} =>
         tx[t].lock = {tx[t].actor} /\ actors[tx[t].actor].actor_id = msg[t].actor
    /\ tx[t].at \in {"claim", "renamed"} =>
         \A r \in tx[t].lock : actors[r].actor_id = msg[t].old_actor

LockedNames == \A s \in Slots : LockedName(s)

Stays(u) == tx'[u] = tx[u] /\ (u \in Slots => pc'[u] = pc[u] /\ msg'[u] = msg[u])

\* A step that is not its own leaves a transaction as it is, or its process is gone.
LEMMA Others ==
    ASSUME InvRC, [NextRC]_varsRC, NEW u \in Transactions, ~OwnStatement(u)
    PROVE  Stays(u) \/ tx'[u].at = "begin"
<1>1. /\ tx \in [Transactions -> TxRecord] /\ Slots \subseteq Transactions
      /\ pc \in [Slots -> {"idle", "validated", "logged"}]
      /\ msg \in [Slots -> Message \cup {NoMsg}]
      /\ NoTx.at = "begin" /\ Administrator \notin Slots
  BY AdministratorAssumption DEF InvRC, TxInv, TableInv, TypeInv, TypeOK, Transactions, NoTx
<1>2. ASSUME NEW s \in Slots, Finish(s), tx' = [tx EXCEPT ![s] = NoTx] \/ (tx' = tx /\ tx[s] = NoTx)
      PROVE  Stays(u) \/ tx'[u].at = "begin"
  BY <1>1, <1>2 DEF Finish, Stays
<1>3. ASSUME NEW s \in Slots, Validate(s) \/ Submit(s), UNCHANGED tx
      PROVE  Stays(u) \/ tx'[u].at = "begin"
  <2>1. pc[s] # "logged" /\ \A w \in Slots \ {s} : pc'[w] = pc[w] /\ msg'[w] = msg[w]
    <3>1. CASE Validate(s)
      BY <1>1, <3>1, ValidateAccepts DEF Accept
    <3>2. CASE Submit(s)
      BY <1>1, <3>2 DEF Submit, SubmitMessage, SubmitRefused, SubmitUnanswered, Finish
    <3> QED
      BY <1>3, <3>1, <3>2
  <2>2. tx[s] = NoTx
    BY <2>1, NoTransaction
  <2> QED
    BY <1>1, <1>3, <2>1, <2>2 DEF Stays
<1>4. ASSUME NEW s \in Slots, Commit(s) \/ RejectRC(s) PROVE Finish(s) /\ tx' = [tx EXCEPT ![s] = NoTx]
  BY <1>4, EndsRequest DEF Commit, CommitAddKey, CommitAddAuxData, CommitRevokeKey,
     CommitMoveIdentity, CommitRevokeAuxData, RejectRC, Rollback
<1>5. ASSUME NEW s \in Slots, OneStatement(s) PROVE Finish(s) /\ tx' = tx /\ tx[s] = NoTx
  BY <1>5, NoTransaction DEF OneStatement, RejectSymmetricKeys, UpdateFireproof,
     ProcessFireproof, ProcessUndoFireproof, SetFireproof, Processing
<1>6. ASSUME NEW t \in Transactions, CommitBurnDown(t) \/ StatementFails(t)
      PROVE  Stays(u) \/ tx'[u].at = "begin"
  <2>1. End(t)
    BY <1>6 DEF CommitBurnDown, StatementFails, Rollback
  <2>2. CASE t \in Slots
    BY <1>2, <2>1, <2>2, EndsRequest
  <2>3. CASE t = Administrator
    BY <1>1, <2>1, <2>3 DEF End, requests, Stays
  <2> QED
    BY <2>2, <2>3 DEF Transactions
<1>7. ASSUME NEW t \in Transactions, OwnStatement(t)
      PROVE  Stays(u)
  <2>1. t # u
    BY <1>7
  <2>2. UNCHANGED vars /\ \E e : tx' = [tx EXCEPT ![t] = e]
    BY <1>7, OwnStatementIs
  <2> QED
    BY <1>1, <2>1, <2>2 DEF vars, Stays
<1>8. CASE CrashRC \/ UNCHANGED varsRC
  BY <1>1, <1>8 DEF CrashRC, varsRC, vars, Stays
<1> QED
  BY <1>2, <1>3, <1>4, <1>5, <1>6, <1>7, <1>8, StepKinds

\* No table but by these steps.
LEMMA ActorsKept ==
    ASSUME [NextRC]_varsRC,
           \A s \in Slots : ~CommitAddKey(s) /\ ~CommitAddAuxData(s) /\ ~CommitMoveIdentity(s)
                              /\ ~UpdateFireproof(s)
    PROVE  actors' = actors
<1>1. ASSUME NEW s \in Slots, Validate(s) PROVE actors' = actors
  BY <1>1, ValidateAccepts DEF Accept, database
<1>2. ASSUME NEW s \in Slots, Submit(s) PROVE actors' = actors
  BY <1>2 DEF Submit, SubmitMessage, SubmitRefused, SubmitUnanswered, database
<1>3. ASSUME NEW s \in Slots, Commit(s) \/ OneStatement(s) PROVE actors' = actors
  BY <1>3 DEF Commit, CommitRevokeKey, OneStatement, RejectSymmetricKeys,
     CommitRevokeAuxData, database
<1>4. ASSUME NEW t, RejectRC(t) \/ StatementFails(t) \/ CommitBurnDown(t) PROVE actors' = actors
  BY <1>4 DEF RejectRC, StatementFails, Rollback, CommitBurnDown, database
<1>5. ASSUME NEW t, OwnStatement(t) PROVE actors' = actors
  BY <1>5, OwnStatementIs DEF vars
<1>6. CASE CrashRC \/ UNCHANGED varsRC
  BY <1>6 DEF CrashRC, Crash, database, varsRC, vars
<1> QED
  BY <1>1, <1>2, <1>3, <1>4, <1>5, <1>6, StepKinds

\* Nobody renames a row that somebody else has locked.
LEMMA LockedRowNames ==
    ASSUME InvRC, [NextRC]_varsRC, NEW u \in Transactions, tx'[u].at # "begin"
    PROVE  \A r \in tx[u].lock \cap DOMAIN actors : actors'[r].actor_id = actors[r].actor_id
<1>1. actors \in Seq(ActorRow) /\ \A r \in DOMAIN actors : actors[r] \in ActorRow
  BY DEF InvRC, TableInv, TypeInv, TypeOK
<1>2. ASSUME NEW s \in Slots, CommitActor(s)
      PROVE  \A r \in DOMAIN actors : actors'[r] = actors[r]
  BY <1>1, <1>2 DEF CommitActor
<1>3. ASSUME NEW s \in Slots, CommitAddKey(s) \/ CommitAddAuxData(s)
      PROVE  \A r \in DOMAIN actors : actors'[r] = actors[r]
  BY <1>2, <1>3 DEF CommitAddKey, CommitAddAuxData
<1>4. ASSUME NEW s \in Slots, UpdateFireproof(s)
      PROVE  \A r \in DOMAIN actors : actors'[r].actor_id = actors[r].actor_id
  BY <1>1, <1>4 DEF UpdateFireproof, ProcessFireproof, ProcessUndoFireproof, SetFireproof, ActorRow
<1>5. ASSUME NEW s \in Slots, CommitMoveIdentity(s)
      PROVE  \A r \in tx[u].lock \cap DOMAIN actors : actors'[r] = actors[r]
  <2>1. tx' = [tx EXCEPT ![s] = NoTx] /\ s \in Transactions
    BY <1>5, EndsRequest DEF CommitMoveIdentity
  <2>2. s # u
    BY <2>1 DEF NoTx, InvRC, TxInv
  <2>3. tx[u].lock \cap tx[s].lock = {}
    BY <2>1, <2>2, Own DEF Disjoint
  <2> QED
    BY <1>5, <2>3 DEF CommitMoveIdentity
<1> QED
  BY <1>3, <1>4, <1>5, ActorsKept

LEMMA LockedNamesNext ==
    ASSUME InvRC, LockedNames, [NextRC]_varsRC
    PROVE  LockedNames'
<1> SUFFICES ASSUME NEW s \in Slots, tx'[s].at # "begin" PROVE LockedName(s)'
  BY DEF LockedNames, LockedName
<1>1. s \in Transactions /\ LockedName(s)
  BY DEF Transactions, LockedNames
<1>2. CASE ~OwnStatement(s)
  <2>1. tx'[s] = tx[s] /\ msg'[s] = msg[s]
    BY <1>1, <1>2, Others DEF Stays
  <2>2. \A r \in tx[s].lock \cap DOMAIN actors : actors'[r].actor_id = actors[r].actor_id
    BY <1>1, LockedRowNames
  <2>3. /\ tx[s].at = "insert" /\ tx[s].name = {} => tx[s].actor \in DOMAIN actors
        /\ tx[s].at \in {"claim", "renamed"} => tx[s].lock \subseteq DOMAIN actors
    BY <1>1, Own DEF TxNames
  <2> QED
    BY <1>1, <2>1, <2>2, <2>3 DEF LockedName
<1>3. CASE OwnStatement(s)
  <2>1. UNCHANGED <<actors, msg>> /\ tx[s] \in TxRecord /\ tx \in [Transactions -> TxRecord]
    BY <1>1, <1>3, OwnStatementIs, Own DEF vars, InvRC, TxInv
  <2>2. ASSUME ~SelectActor(s), ~LockOldActor(s), ~EnterNewName(s) PROVE LockedName(s)'
    <3>1. CASE InsertActor(s)
      <4>1. tx'[s].name = {msg[s].actor} /\ tx'[s].at = "insert"
        BY <1>1, <2>1, <3>1 DEF InsertActor, Statement, TxRecord
      <4> QED
        BY <4>1 DEF LockedName
    <3>2. CASE SelectKeyToRevoke(s) \/ CheckNewActor(s)
      <4>1. SelectKeyToRevoke(s) => tx'[s].at = "update"
        BY <1>1, <2>1 DEF SelectKeyToRevoke, Statement, TxRecord
      <4>2. CheckNewActor(s) => tx'[s].at = "rename"
        BY <1>1, <2>1 DEF CheckNewActor, Statement, TxRecord
      <4> QED
        BY <3>2, <4>1, <4>2 DEF LockedName
    <3>3. CASE WriteKeyRow(s)
      <4>1. tx'[s].at = "update"
        BY <1>1, <2>1, <3>3 DEF WriteKeyRow, Statement, TxRecord
      <4> QED
        BY <4>1 DEF LockedName
    <3>4. CASE FindActor(s) \/ GetMessageHashes(s) \/ DeleteSymmetricKeys(s) \/ RevokeAllKeys(s)
      <4>1. FindActor(s) => tx'[s].at = "hashes"
        BY <1>1, <2>1 DEF FindActor, Statement, TxRecord
      <4>2. GetMessageHashes(s) => tx'[s].at = "delete"
        BY <1>1, <2>1 DEF GetMessageHashes, Statement, TxRecord
      <4>3. DeleteSymmetricKeys(s) => tx'[s].at = "revoke"
        BY <1>1, <2>1 DEF DeleteSymmetricKeys, Statement, TxRecord
      <4>4. RevokeAllKeys(s) => tx'[s].at = "update"
        BY <1>1, <2>1 DEF RevokeAllKeys, Statement, TxRecord
      <4> QED
        BY <3>4, <4>1, <4>2, <4>3, <4>4 DEF LockedName
    <3>5. CASE FindAuxData(s) \/ LockAuxData(s)
      <4>1. FindAuxData(s) => tx'[s].at = "auxfound"
        BY <1>1, <2>1 DEF FindAuxData, Statement, TxRecord
      <4>2. LockAuxData(s) => tx'[s].at = "auxheld"
        BY <1>1, <2>1 DEF LockAuxData, Statement, TxRecord
      <4> QED
        BY <3>5, <4>1, <4>2 DEF LockedName
    <3> QED
      BY <1>3, <2>2, <3>1, <3>2, <3>3, <3>4, <3>5 DEF OwnStatement
  <2>3. CASE SelectActor(s)
    <3>1. CASE ActorExists(msg[s].actor)
      <4> DEFINE r == ActorID(actors, msg[s].actor)
      <4>1. actors[r].actor_id = msg[s].actor
        BY <3>1, ActorIDFound DEF ActorExists
      <4> HIDE DEF r
      <4>2. tx' = [tx EXCEPT ![s] = [tx[s] EXCEPT !.at = "insert", !.actor = r, !.lock = {r}]]
        BY <2>3, <3>1 DEF SelectActor, Statement, r
      <4>3. tx'[s].at = "insert" /\ tx'[s].actor = r /\ tx'[s].lock = {r}
        BY <1>1, <2>1, <4>2 DEF TxRecord
      <4> QED
        BY <2>1, <4>1, <4>3 DEF LockedName
    <3>2. CASE ~ActorExists(msg[s].actor)
      <4>1. tx'[s].at = "create"
        BY <1>1, <2>1, <2>3, <3>2 DEF SelectActor, Statement, TxRecord
      <4> QED
        BY <4>1 DEF LockedName
    <3> QED
      BY <3>1, <3>2
  <2>4. CASE LockOldActor(s)
    BY <1>1, <2>1, <2>4, ActorIDFound DEF LockOldActor, ActorExists, Statement, LockedName, TxRecord
  <2>5. CASE EnterNewName(s)
    BY <1>1, <2>1, <2>5 DEF EnterNewName, Statement, LockedName, TxRecord
  <2> QED
    BY <2>2, <2>3, <2>4, <2>5
<1> QED
  BY <1>2, <1>3

\* At the commit the name of the row found or created is the actor's, whose id it is.
LEMMA OwnerCommitted ==
    ASSUME InvRC, LockedNames, NEW s \in Slots, tx[s].at = "insert", CommitActor(s)
    PROVE  /\ actors' = GetOrCreateActor(msg[s].actor)
           /\ CommittedActor(s) = ActorID(actors', msg[s].actor)
<1> DEFINE a == msg[s].actor
<1>1. s \in Transactions /\ actors \in Seq(ActorRow) /\ ActorNamesUnique' /\ LockedName(s)
  BY ActorCommitted DEF Transactions, InvRC, TableInv, TypeInv, TypeOK, LockedNames
<1>2. CommittedActor(s) \in DOMAIN actors' /\ actors'[CommittedActor(s)].actor_id = a
      /\ actors' = GetOrCreateActor(a)
  <2>1. CASE tx[s].name = {}
    <3>1. actors' = actors /\ CommittedActor(s) = tx[s].actor
      BY <2>1 DEF CommitActor, CommittedActor
    <3>2. tx[s].actor \in DOMAIN actors /\ actors[tx[s].actor].actor_id = a
      BY <1>1, <2>1, Own DEF TxNames, LockedName
    <3> QED
      BY <3>1, <3>2 DEF GetOrCreateActor, ActorExists
  <2>2. CASE tx[s].name # {}
    <3>1. tx[s].name = {a} /\ ~ActorExists(a)
      BY <1>1, <2>2, Own DEF TxNames
    <3>2. actors' = GetOrCreateActor(a) /\ CommittedActor(s) = Len(actors')
      BY <2>2, <3>1 DEF CommitActor, CommittedActor, GetOrCreateActor
    <3>3. actors' = Append(actors, [actor_id |-> a, is_fireproof |-> FALSE])
      BY <2>2 DEF CommitActor
    <3> QED
      BY <1>1, <3>2, <3>3
  <2> QED
    BY <2>1, <2>2
<1>3. ActorID(actors', a) \in DOMAIN actors' /\ actors'[ActorID(actors', a)].actor_id = a
  BY <1>2, ActorIDFound
<1> QED
  BY <1>1, <1>2, <1>3 DEF ActorNamesUnique

LEMMA AddKeyAtOnce ==
    ASSUME InvRC, LockedNames, NEW s \in Slots, CommitAddKey(s)
    PROVE  ProcessAddKey(s)
<1>1. s \in Transactions /\ msg[s].symmetric_keys # "bad"
  BY Own DEF Transactions, CommitAddKey, TxPhase, NeedsActor, Processing
<1>2. /\ actors' = GetOrCreateActor(msg[s].actor)
      /\ CommittedActor(s) = ActorID(actors', msg[s].actor)
  BY OwnerCommitted DEF CommitAddKey
<1> QED
  BY <1>1, <1>2, EndsRequest DEF CommitAddKey, ProcessAddKey

LEMMA AddAuxDataAtOnce ==
    ASSUME InvRC, LockedNames, NEW s \in Slots, CommitAddAuxData(s)
    PROVE  ProcessAddAuxData(s)
<1>1. s \in Transactions /\ msg[s].valid
  BY Own DEF Transactions, CommitAddAuxData, TxPhase, NeedsActor, Processing
<1>2. /\ actors' = GetOrCreateActor(msg[s].actor)
      /\ CommittedActor(s) = ActorID(actors', msg[s].actor)
  BY OwnerCommitted DEF CommitAddAuxData
<1> QED
  BY <1>1, <1>2, EndsRequest DEF CommitAddAuxData, ProcessAddAuxData

LEMMA MoveIdentityAtOnce ==
    ASSUME InvRC, LockedNames, NEW s \in Slots, CommitMoveIdentity(s)
    PROVE  ProcessMoveIdentity(s)
<1> DEFINE old == msg[s].old_actor
           new == msg[s].new_actor
<1>1. s \in Transactions /\ tx[s].at = "renamed" /\ Processing(s, "MoveIdentity") /\ LockedName(s)
  BY Own DEF Transactions, CommitMoveIdentity, TxPhase, LockedNames
<1>2. ~ActorExists(new)
  BY <1>1, Own DEF TxNames
<1>3. PICK r \in DOMAIN actors : tx[s].lock = {r} /\ actors[r].actor_id = old
  BY <1>1, Own DEF TxNames, LockedName
<1>4. ActorExists(old) /\ ActorID(actors, old) = r
  <2>1. ActorExists(old)
    BY <1>3 DEF ActorExists
  <2>2. ActorID(actors, old) \in DOMAIN actors /\ actors[ActorID(actors, old)].actor_id = old
    BY <1>3, ActorIDFound
  <2> QED
    BY <1>3, <2>1, <2>2 DEF InvRC, TableInv, ActorNamesUnique
<1>5. actors' = [actors EXCEPT ![r].actor_id = new]
  <2>1. actors = [i \in DOMAIN actors |-> actors[i]]
    BY DEF InvRC, TableInv, TypeInv, TypeOK
  <2> QED
    BY <1>3, <2>1 DEF CommitMoveIdentity
<1> QED
  BY <1>1, <1>2, <1>4, <1>5, EndsRequest DEF CommitMoveIdentity, ProcessMoveIdentity

LEMMA RevokeKeyAtOnce ==
    ASSUME InvRC, NEW s \in Slots, CommitRevokeKey(s), ~StaleRevokeKey(s)
    PROVE  ProcessRevokeKey(s)
<1>1. PICK i \in FindKeyToRevoke(msg[s].actor, msg[s].public_key) : tx[s].held = {i}
  BY DEF StaleRevokeKey
<1>2. msg[s].symmetric_keys # "bad"
  <2>1. s \in Transactions /\ tx[s].at = "update" /\ Processing(s, "RevokeKey")
    BY DEF Transactions, CommitRevokeKey, CommitKeyRows
  <2> QED
    BY <2>1, Own, AdministratorAssumption DEF TxPhase, Runs, Processing
<1>3. public_keys' = RevokeKey(i, root[s])
  <2>1. public_keys = [j \in DOMAIN public_keys |-> public_keys[j]]
    BY DEF InvRC, TableInv, TypeInv, TypeOK
  <2>2. i \in DOMAIN public_keys
    BY DEF FindKeyToRevoke, ListKeysForActor
  <2> QED
    BY <1>1, <2>1, <2>2 DEF CommitRevokeKey, CommitKeyRows, RevokeKey
<1> QED
  BY <1>2, <1>3, EndsRequest DEF CommitRevokeKey, ProcessRevokeKey

LEMMA RevokeAuxAtOnce ==
    ASSUME InvRC, NEW s \in Slots, CommitRevokeAuxData(s), ~StaleRevokeAuxData(s)
    PROVE  ProcessRevokeAuxData(s)
<1> DEFINE id == msg[s].aux_id
<1>1. s \in Transactions /\ Processing(s, "RevokeAuxData") /\ tx[s].aux = {id}
  BY Own DEF Transactions, CommitRevokeAuxData, TxPhase, TxAux
<1>2. id \in LiveAux(msg[s].actor) /\ id \in DOMAIN auxiliary_data
  BY DEF StaleRevokeAuxData, LiveAux
<1>3. Finish(s) /\ UNCHANGED <<actors, public_keys, symmetric_keys, log>>
  BY EndsRequest DEF CommitRevokeAuxData
<1>4. \A i \in DOMAIN auxiliary_data : i \in tx[s].aux <=> i = id
  BY <1>1
<1> HIDE DEF id
<1>5. auxiliary_data' = [auxiliary_data EXCEPT ![id].revoke_root = root[s]]
  <2>1. auxiliary_data = [i \in DOMAIN auxiliary_data |-> auxiliary_data[i]]
    BY DEF InvRC, TableInv, TypeInv, TypeOK
  <2> QED
    BY <1>2, <1>4, <2>1 DEF CommitRevokeAuxData
<1> QED
  BY <1>1, <1>2, <1>3, <1>5 DEF ProcessRevokeAuxData, id

LEMMA BurnAtOnce ==
    ASSUME NEW t \in Transactions, CommitBurnDown(t), ~StaleBurn(t)
    PROVE  Next
<1>1. PICK a \in Actors : Burns(t, a) /\ ActorExists(a) /\ tx[t].actor = ActorID(actors, a)
  BY DEF StaleBurn, BurnIsCurrent
<1>2. ASSUME NEW r, CommitKeyRows(t, r) PROVE BurnDown(a, r)
  BY <1>1, <1>2 DEF StaleBurn, BurnIsCurrent, CommitBurnDown, CommitKeyRows, BurnDown,
     RevokeAllKeysForActor
<1>3. CASE t = Administrator
  <2>1. CryptoShred(a)
    BY <1>1, <1>2, <1>3 DEF CommitBurnDown, Burns, End, CryptoShred
  <2> QED
    BY <2>1 DEF Next
<1>4. CASE t \in Slots
  <2>1. t # Administrator
    BY <1>4, AdministratorAssumption
  <2>2. ProcessBurnDown(t)
    BY <1>1, <1>2, <1>4, <2>1, EndsRequest DEF CommitBurnDown, Burns, Runs, ProcessBurnDown
  <2> QED
    BY <1>4, <2>2 DEF Next, Process
<1> QED
  BY <1>3, <1>4 DEF Transactions

\* A request gives up its logged message.
Abandoned(s) == pc[s] = "logged" /\ Finish(s) /\ UNCHANGED <<database, log>>

\* The name it was about to create has been taken since it looked: its INSERT fails.
Outrun(s) == tx[s].at = "create" /\ ActorExists(msg[s].actor) /\ Abandoned(s)

\* Every other transaction that finds nothing to act on, or a name taken, would find so
\* at the moment it gives up if it ran whole.
LEMMA RejectAtOnce ==
    ASSUME InvRC, NEW s \in Slots, RejectRC(s)
    PROVE  ProcessRejected(s) \/ Outrun(s)
<1>1. s \in Transactions /\ pc[s] = "logged" /\ Finish(s) /\ UNCHANGED <<database, log>>
  BY EndsRequest DEF RejectRC, Rollback
<1>2. CASE tx[s].at = "create"
  BY <1>1, <1>2 DEF RejectRC, Outrun, Abandoned
<1>3. CASE tx[s].at \in {"rename", "claim"}
  <2>1. msg[s].action = "MoveIdentity"
    BY <1>1, <1>3, Own, AdministratorAssumption DEF TxPhase, Processing
  <2>2. ActorExists(msg[s].new_actor) \/ ~ActorExists(msg[s].old_actor)
    BY <1>3 DEF RejectRC
  <2> QED
    BY <1>1, <2>1, <2>2 DEF ProcessRejected
<1>4. CASE tx[s].at = "begin"
  BY <1>1, <1>4 DEF RejectRC, ProcessRejected
<1>5. CASE tx[s].at = "auxfound"
  <2>1. msg[s].action = "RevokeAuxData"
    BY <1>1, <1>5, Own DEF TxPhase, Processing
  <2>2. msg[s].aux_id \notin LiveAux(msg[s].actor)
    BY <1>5 DEF RejectRC, LiveAux
  <2> QED
    BY <1>1, <2>1, <2>2 DEF ProcessRejected
<1> QED
  BY <1>2, <1>3, <1>4, <1>5 DEF RejectRC

\* Whatever a step is, it is atomic, or a burn or revocation on stale rows, or outrun.
LEMMA AtomicOrOutrun ==
    ASSUME InvRC, LockedNames, [NextRC]_varsRC
    PROVE  [Next]_vars \/ Stale \/ \E s \in Slots : Outrun(s)
<1>1. ASSUME NEW s \in Slots, Validate(s) \/ Submit(s) PROVE Next
  BY <1>1 DEF Next
<1>2. ASSUME NEW s \in Slots, Process(s) PROVE Next
  BY <1>2 DEF Next
<1>3. ASSUME NEW s \in Slots, OneStatement(s) PROVE Next
  BY <1>2, <1>3 DEF OneStatement, UpdateFireproof, Process
<1>4. ASSUME NEW s \in Slots, Commit(s) PROVE Next \/ Stale
  BY <1>2, <1>4, AddKeyAtOnce, AddAuxDataAtOnce, MoveIdentityAtOnce, RevokeKeyAtOnce,
     RevokeAuxAtOnce DEF Commit, Stale, Process
<1>5. ASSUME NEW s \in Slots, StatementFails(s) PROVE Next
  <2>1. DatabaseFault(s)
    BY <1>5, EndsRequest, AdministratorAssumption DEF StatementFails, Running, Rollback, DatabaseFault
  <2> QED
    BY <1>2, <2>1 DEF Process
<1>6. ASSUME NEW s \in Slots, RejectRC(s) PROVE Next \/ Outrun(s)
  BY <1>2, <1>6, RejectAtOnce DEF Process
<1>7. ASSUME NEW t \in Transactions, CommitBurnDown(t) PROVE Next \/ Stale
  BY <1>7, BurnAtOnce DEF Stale
<1>8. ASSUME NEW t \in Transactions, StatementFails(t)
      PROVE  [Next]_vars
  <2>1. CASE t \in Slots
    BY <1>5, <1>8, <2>1
  <2>2. CASE t = Administrator
    BY <1>8, <2>2 DEF StatementFails, Rollback, End, database, requests, vars
  <2> QED
    BY <2>1, <2>2 DEF Transactions
<1>9. ASSUME NEW t \in Transactions, OwnStatement(t) PROVE UNCHANGED vars
  BY <1>9, OwnStatementIs
<1>10. CASE CrashRC
  BY <1>10 DEF CrashRC, Next
<1>11. CASE UNCHANGED varsRC
  BY <1>11 DEF varsRC
<1> QED
  BY <1>1, <1>3, <1>4, <1>6, <1>7, <1>8, <1>9, <1>10, <1>11, StepKinds

\* To the core an INSERT that comes too late is a statement that fails, as any may.
LEMMA AtomicNext ==
    ASSUME "database" \in Faults, InvRC, LockedNames, [NextRC]_varsRC
    PROVE  [Next]_vars \/ Stale
<1>1. ASSUME NEW s \in Slots, Outrun(s) PROVE Next
  BY <1>1 DEF Outrun, Abandoned, DatabaseFault, Next, Process
<1> QED
  BY <1>1, AtomicOrOutrun

LEMMA LockedNamesAlways == SpecRC => [](InvRC /\ LockedNames)
<1>1. InitRC => LockedNames
  BY DEF InitRC, NoTx, LockedNames, LockedName, Transactions
<1>2. InvRC /\ LockedNames /\ [NextRC]_varsRC => LockedNames'
  BY LockedNamesNext
<1> QED
  BY <1>1, <1>2, SafetyRC, PTL DEF SpecRC

\* Interleaved statements act as one whole transaction of the core after the other, but
\* for burns and revocations that commit on rows others have changed (service.go:200).
THEOREM OnlyRevocationsAreStale ==
    ASSUME "database" \in Faults PROVE SpecRC => AtomicButForRevocations
<1>1. InvRC /\ LockedNames /\ [NextRC]_varsRC => [[Next]_vars \/ Stale]_varsRC
  BY AtomicNext
<1> QED
  BY <1>1, LockedNamesAlways, PTL DEF SpecRC, AtomicButForRevocations

\* Where no such revocation commits the server is the one of the core, and what is proved
\* there holds: so it is on SQLite, which refuses (SQLITE_BUSY) to write on what another
\* has changed since it was read.
THEOREM SnapshotsAreAtomic ==
    ASSUME "database" \in Faults PROVE SpecRC /\ [][~Stale]_varsRC => Spec
<1>1. InitRC => Init
  BY DEF InitRC
<1>2. InvRC /\ LockedNames /\ [NextRC]_varsRC /\ [~Stale]_varsRC => [Next]_vars
  BY AtomicNext DEF varsRC
<1> QED
  BY <1>1, <1>2, LockedNamesAlways, PTL DEF SpecRC, Spec

-----------------------------------------------------------------------------
(* One transaction at a time.  Then what a burn or a RevokeKey has read is    *)
(* so to its end, and none is stale.                                          *)

OneWriter == \A t, u \in Transactions : tx[t].at # "begin" /\ tx[u].at # "begin" => t = u

LiveRowsOf(r) == {i \in DOMAIN public_keys : /\ public_keys[i].actor_id = r
                                             /\ public_keys[i].revoke_root = NoRoot}

\* The rows, the actor and the symmetric keys a transaction is at work on are those it
\* would find if it began now.
Current(t) ==
    LET r == tx[t].actor IN
    /\ IsRevokeKey(t) /\ tx[t].at = "update" =>
         \E i \in FindKeyToRevoke(msg[t].actor, msg[t].public_key) : tx[t].rows \cup tx[t].held = {i}
    /\ tx[t].at \in {"auxfound", "auxheld"} => msg[t].aux_id \in LiveAux(msg[t].actor)
    /\ Runs(t, "BurnDown") /\ tx[t].at # "begin" =>
         /\ r \in DOMAIN actors
         /\ \E a \in Actors : Burns(t, a) /\ actors[r].actor_id = a
         /\ tx[t].at = "delete" => tx[t].hashes = GetMessageHashesForActor(r)
         /\ tx[t].at \in {"revoke", "update"} =>
              symmetric_keys \ tx[t].deleted = symmetric_keys \ GetMessageHashesForActor(r)
         /\ tx[t].at = "update" => tx[t].rows \cup tx[t].held = LiveRowsOf(r)

AllCurrent == \A t \in Transactions : Current(t)

\* With nobody else in the middle of a transaction, the tables keep what one has read.
LEMMA TablesCurrent ==
    ASSUME InvRC, OneWriter, [NextRC]_varsRC,
           NEW t \in Transactions, tx[t].at # "begin", tx'[t].at # "begin"
    PROVE  /\ UNCHANGED <<public_keys, auxiliary_data, symmetric_keys>>
           /\ DOMAIN actors' = DOMAIN actors
           /\ \A r \in DOMAIN actors : actors'[r].actor_id = actors[r].actor_id
<1>1. ASSUME NEW s \in Slots, CommitAddKey(s) \/ CommitAddAuxData(s) \/ CommitMoveIdentity(s)
                                \/ CommitRevokeKey(s) \/ CommitRevokeAuxData(s)
      PROVE  FALSE
  <2>1. s \in Transactions /\ tx' = [tx EXCEPT ![s] = NoTx]
    BY <1>1, EndsRequest DEF CommitAddKey, CommitAddAuxData, CommitMoveIdentity, CommitRevokeKey,
       CommitRevokeAuxData
  <2>2. tx[s].at # "begin"
    BY <1>1 DEF CommitAddKey, CommitAddAuxData, CommitMoveIdentity, CommitRevokeKey, CommitKeyRows,
       CommitRevokeAuxData
  <2> QED
    BY <2>1, <2>2 DEF OneWriter, InvRC, TxInv, NoTx
<1>2. ASSUME NEW u \in Transactions, CommitBurnDown(u) PROVE FALSE
  <2>1. tx' = [tx EXCEPT ![u] = NoTx] /\ tx[u].at # "begin"
    BY <1>2 DEF CommitBurnDown, CommitKeyRows, End
  <2> QED
    BY <2>1 DEF OneWriter, InvRC, TxInv, NoTx
<1>3. /\ DOMAIN actors' = DOMAIN actors
      /\ \A r \in DOMAIN actors : actors'[r].actor_id = actors[r].actor_id
  <2>1. \A r \in DOMAIN actors : actors[r] \in ActorRow
    BY DEF InvRC, TableInv, TypeInv, TypeOK
  <2>2. ASSUME NEW s \in Slots, UpdateFireproof(s)
        PROVE  /\ DOMAIN actors' = DOMAIN actors
               /\ \A r \in DOMAIN actors : actors'[r].actor_id = actors[r].actor_id
    BY <2>1, <2>2 DEF UpdateFireproof, ProcessFireproof, ProcessUndoFireproof, SetFireproof, ActorRow
  <2> QED
    BY <1>1, <2>2, ActorsKept
<1>4. UNCHANGED <<public_keys, symmetric_keys>>
  <2>1. ASSUME NEW s \in Slots, Validate(s) PROVE UNCHANGED <<public_keys, symmetric_keys>>
    BY <2>1, ValidateAccepts DEF Accept, database
  <2>2. ASSUME NEW s \in Slots, Submit(s) PROVE UNCHANGED <<public_keys, symmetric_keys>>
    BY <2>2 DEF Submit, SubmitMessage, SubmitRefused, SubmitUnanswered, database
  <2>3. ASSUME NEW s \in Slots, OneStatement(s) PROVE UNCHANGED <<public_keys, symmetric_keys>>
    BY <2>3 DEF OneStatement, RejectSymmetricKeys, UpdateFireproof, ProcessFireproof,
       ProcessUndoFireproof, SetFireproof, database
  <2>4. ASSUME NEW u, RejectRC(u) \/ StatementFails(u)
        PROVE  UNCHANGED <<public_keys, symmetric_keys>>
    BY <2>4 DEF RejectRC, StatementFails, Rollback, database
  <2>5. ASSUME NEW u, OwnStatement(u) PROVE UNCHANGED <<public_keys, symmetric_keys>>
    BY <2>5, OwnStatementIs DEF vars
  <2>6. CASE CrashRC \/ UNCHANGED varsRC
    BY <2>6 DEF CrashRC, Crash, database, varsRC, vars
  <2> QED
    BY <1>1, <1>2, <2>1, <2>2, <2>3, <2>4, <2>5, <2>6, StepKinds DEF Commit
<1>5. UNCHANGED auxiliary_data
  BY <1>1, AuxRowsKept
<1> QED
  BY <1>3, <1>4, <1>5

LEMMA CurrentKept ==
    ASSUME InvRC, NEW t \in Transactions, Current(t), Stays(t),
           UNCHANGED <<public_keys, auxiliary_data, symmetric_keys>>,
           DOMAIN actors' = DOMAIN actors,
           \A r \in DOMAIN actors : actors'[r].actor_id = actors[r].actor_id
    PROVE  Current(t)'
<1>1. /\ t \in Slots => msg'[t] = msg[t] /\ pc'[t] = pc[t]
      /\ tx'[t] = tx[t]
  BY DEF Stays
<1>2. t = Administrator \/ t \in Slots
  BY DEF Transactions
<1>3. /\ IsRevokeKey(t)' <=> IsRevokeKey(t)
      /\ Runs(t, "BurnDown")' <=> Runs(t, "BurnDown")
      /\ \A a \in Actors : Burns(t, a)' <=> Burns(t, a)
  BY <1>1, <1>2, AdministratorAssumption DEF IsRevokeKey, Runs, Burns, Processing
<1>4. \A i \in DOMAIN public_keys : public_keys[i].actor_id \in DOMAIN actors
  BY DEF InvRC, TableInv, TypeInv, TypeOK
<1>5. \A a, k : FindKeyToRevoke(a, k)' = FindKeyToRevoke(a, k)
  BY <1>4 DEF FindKeyToRevoke, ListKeysForActor
<1>6. \A r : GetMessageHashesForActor(r)' = GetMessageHashesForActor(r)
             /\ LiveRowsOf(r)' = LiveRowsOf(r)
  BY DEF GetMessageHashesForActor, LiveRowsOf
<1>7. \A a : LiveAux(a)' = LiveAux(a)
  <2>1. \A i \in DOMAIN auxiliary_data : auxiliary_data[i].actor_id \in DOMAIN actors
    BY DEF InvRC, TableInv, TypeInv, TypeOK
  <2> QED
    BY <2>1 DEF LiveAux
<1>8. tx[t].at \in {"auxfound", "auxheld"} => msg'[t] = msg[t]
  BY <1>1, Own DEF TxPhase
<1> QED
  BY <1>1, <1>3, <1>5, <1>6, <1>7, <1>8 DEF Current, IsRevokeKey

LEMMA CurrentStatement ==
    ASSUME InvRC, AllCurrent, NEW t \in Transactions, OwnStatement(t)
    PROVE  Current(t)'
<1>1. /\ UNCHANGED <<actors, public_keys, auxiliary_data, symmetric_keys, pc, msg>>
      /\ tx \in [Transactions -> TxRecord] /\ tx[t] \in TxRecord /\ Current(t)
  BY OwnStatementIs, Own DEF vars, InvRC, TxInv, AllCurrent
<1>2. /\ IsRevokeKey(t)' <=> IsRevokeKey(t)
      /\ Runs(t, "BurnDown")' <=> Runs(t, "BurnDown")
      /\ \A a : Burns(t, a)' <=> Burns(t, a)
  BY <1>1 DEF IsRevokeKey, Runs, Burns, Processing
<1>3. /\ \A a, k : FindKeyToRevoke(a, k)' = FindKeyToRevoke(a, k)
      /\ \A r : GetMessageHashesForActor(r)' = GetMessageHashesForActor(r)
      /\ \A r : LiveRowsOf(r)' = LiveRowsOf(r)
  BY <1>1 DEF FindKeyToRevoke, ListKeysForActor, GetMessageHashesForActor, LiveRowsOf
<1>4. IsRevokeKey(t) => ~Runs(t, "BurnDown")
  BY AdministratorAssumption DEF IsRevokeKey, Runs, Processing
<1>5. CASE t \in Slots /\ (SelectActor(t) \/ InsertActor(t) \/ CheckNewActor(t)
                             \/ LockOldActor(t) \/ EnterNewName(t))
  <2>1. NeedsActor(t) \/ Processing(t, "MoveIdentity")
    BY <1>5, Own DEF TxPhase, SelectActor, InsertActor, CheckNewActor, LockOldActor, EnterNewName
  <2>2. ~IsRevokeKey(t) /\ ~Runs(t, "BurnDown")
    BY <1>5, <2>1, AdministratorAssumption DEF NeedsActor, IsRevokeKey, Runs, Processing
  <2>3. tx'[t].at \notin {"auxfound", "auxheld"}
    <3>1. ASSUME NEW e, Statement(t, e) PROVE tx'[t] = e
      BY <1>1, <3>1 DEF Statement
    <3>2. CASE SelectActor(t) \/ InsertActor(t)
      BY <1>1, <3>1, <3>2 DEF SelectActor, InsertActor, TxRecord
    <3>3. CASE CheckNewActor(t) \/ LockOldActor(t) \/ EnterNewName(t)
      BY <1>1, <3>1, <3>3 DEF CheckNewActor, LockOldActor, EnterNewName, TxRecord
    <3> QED
      BY <1>5, <3>2, <3>3
  <2> QED
    BY <1>2, <2>2, <2>3 DEF Current
<1>6. CASE t \in Slots /\ SelectKeyToRevoke(t)
  <2>1. tx[t] = NoTx
    BY <1>6, Own DEF SelectKeyToRevoke, TxPhase
  <2>2. PICK i \in FindKeyToRevoke(msg[t].actor, msg[t].public_key) :
               tx' = [tx EXCEPT ![t] = [tx[t] EXCEPT !.at = "update", !.rows = {i}]]
    BY <1>6 DEF SelectKeyToRevoke, Statement
  <2>3. /\ tx'[t].rows = {i} /\ tx'[t].held = {} /\ tx'[t].at = "update"
        /\ IsRevokeKey(t)
    BY <1>1, <1>6, <2>1, <2>2 DEF NoTx, SelectKeyToRevoke, IsRevokeKey
  <2>4. tx'[t].rows \cup tx'[t].held = {i}
    BY <2>3
  <2> QED
    BY <1>1, <1>2, <1>3, <1>4, <2>3, <2>4 DEF Current
<1>7. CASE WriteKeyRow(t)
  <2> DEFINE held(i) == IF StillWanted(t, i) THEN tx[t].held \cup {i} ELSE tx[t].held
  <2>1. PICK i \in NextRow(tx[t].rows) :
               tx' = [tx EXCEPT ![t] = [tx[t] EXCEPT !.rows = @ \ {i}, !.held = held(i)]]
    BY <1>7 DEF WriteKeyRow, Statement
  <2>2. i \in tx[t].rows /\ tx[t].at = "update"
    BY <1>7 DEF NextRow, WriteKeyRow
  <2>3. /\ tx'[t].rows = tx[t].rows \ {i} /\ tx'[t].held = held(i)
        /\ tx'[t].at = "update" /\ tx'[t].actor = tx[t].actor
        /\ tx'[t].hashes = tx[t].hashes /\ tx'[t].deleted = tx[t].deleted
    BY <1>1, <2>1, <2>2 DEF TxRecord
  <2>4. IsRevokeKey(t) \/ Runs(t, "BurnDown")
    BY <2>2, Own DEF TxPhase
  <2>5. StillWanted(t, i)
    <3>1. IsRevokeKey(t) => Runs(t, "RevokeKey")
      BY AdministratorAssumption DEF IsRevokeKey, Runs
    <3>2. Runs(t, "BurnDown") => i \in LiveRowsOf(tx[t].actor)
      BY <1>1, <2>2 DEF Current
    <3> QED
      BY <2>4, <3>1, <3>2 DEF StillWanted, LiveRowsOf
  <2>6. tx'[t].rows \cup tx'[t].held = tx[t].rows \cup tx[t].held
    BY <2>2, <2>3, <2>5
  <2> HIDE DEF held
  <2>7. IsRevokeKey(t) =>
          \E j \in FindKeyToRevoke(msg[t].actor, msg[t].public_key) : tx[t].rows \cup tx[t].held = {j}
    BY <1>1, <2>2 DEF Current
  <2>8. Runs(t, "BurnDown") =>
          /\ tx[t].actor \in DOMAIN actors
          /\ \E a \in Actors : Burns(t, a) /\ actors[tx[t].actor].actor_id = a
          /\ symmetric_keys \ tx[t].deleted = symmetric_keys \ GetMessageHashesForActor(tx[t].actor)
          /\ tx[t].rows \cup tx[t].held = LiveRowsOf(tx[t].actor)
    BY <1>1, <2>2 DEF Current
  <2>9. Runs(t, "BurnDown") => Current(t)'
    BY <1>1, <1>2, <1>3, <1>4, <2>3, <2>6, <2>8 DEF Current
  <2>10. IsRevokeKey(t) => Current(t)'
    BY <1>1, <1>2, <1>3, <1>4, <2>3, <2>6, <2>7 DEF Current
  <2> QED
    BY <2>4, <2>9, <2>10
<1>8. CASE FindActor(t)
  <2>1. PICK a \in Actors : /\ Burns(t, a) /\ ActorExists(a)
                            /\ tx' = [tx EXCEPT ![t] = [tx[t] EXCEPT !.at = "hashes",
                                                          !.actor = ActorID(actors, a)]]
    BY <1>8 DEF FindActor, Statement
  <2>2. ActorID(actors, a) \in DOMAIN actors /\ actors[ActorID(actors, a)].actor_id = a
    BY <2>1, ActorIDFound DEF ActorExists
  <2>3. tx'[t].at = "hashes" /\ tx'[t].actor = ActorID(actors, a)
    BY <1>1, <2>1 DEF TxRecord
  <2> QED
    BY <1>1, <1>2, <1>4, <2>1, <2>2, <2>3 DEF Current, Burns
<1>9. CASE GetMessageHashes(t)
  <2>1. /\ tx[t].at = "hashes" /\ tx'[t].at = "delete" /\ tx'[t].actor = tx[t].actor
        /\ tx'[t].hashes = GetMessageHashesForActor(tx[t].actor)
    BY <1>1, <1>9 DEF GetMessageHashes, Statement, TxRecord
  <2>2. Runs(t, "BurnDown")
    BY <2>1, Own DEF TxPhase
  <2> QED
    BY <1>1, <1>2, <1>3, <1>4, <2>1, <2>2 DEF Current
<1>10. CASE DeleteSymmetricKeys(t)
  <2>1. /\ tx[t].at = "delete" /\ tx'[t].at = "revoke" /\ tx'[t].actor = tx[t].actor
        /\ tx'[t].deleted = tx[t].hashes \cap symmetric_keys
    BY <1>1, <1>10 DEF DeleteSymmetricKeys, Statement, TxRecord
  <2>2. Runs(t, "BurnDown")
    BY <2>1, Own DEF TxPhase
  <2>3. tx[t].hashes = GetMessageHashesForActor(tx[t].actor)
    BY <1>1, <2>1, <2>2 DEF Current
  <2>4. symmetric_keys \ tx'[t].deleted = symmetric_keys \ GetMessageHashesForActor(tx[t].actor)
    BY <2>1, <2>3
  <2> QED
    BY <1>1, <1>2, <1>3, <1>4, <2>1, <2>2, <2>4 DEF Current
<1>11. CASE RevokeAllKeys(t)
  <2>1. /\ tx[t].at = "revoke" /\ tx'[t].at = "update" /\ tx'[t].actor = tx[t].actor
        /\ tx'[t].deleted = tx[t].deleted /\ tx'[t].held = tx[t].held
        /\ tx'[t].rows = LiveRowsOf(tx[t].actor)
    BY <1>1, <1>11 DEF RevokeAllKeys, LiveRowsOf, Statement, TxRecord
  <2>2. Runs(t, "BurnDown") /\ tx[t].held = {}
    BY <2>1, Own DEF TxPhase, TxRows
  <2>3. tx'[t].rows \cup tx'[t].held = LiveRowsOf(tx[t].actor)
    BY <2>1, <2>2
  <2> QED
    BY <1>1, <1>2, <1>3, <1>4, <2>1, <2>2, <2>3 DEF Current
<1>12. CASE t \in Slots /\ (FindAuxData(t) \/ LockAuxData(t))
  <2>1. Processing(t, "RevokeAuxData") /\ msg[t].aux_id \in LiveAux(msg[t].actor)
    <3>1. CASE FindAuxData(t)
      BY <3>1 DEF FindAuxData
    <3>2. CASE LockAuxData(t)
      BY <1>1, <3>2, Own DEF LockAuxData, Current, TxPhase
    <3> QED
      BY <1>12, <3>1, <3>2
  <2>2. ~IsRevokeKey(t) /\ ~Runs(t, "BurnDown")
    BY <1>12, <2>1, AdministratorAssumption DEF IsRevokeKey, Runs, Processing
  <2>3. \A a : LiveAux(a)' = LiveAux(a)
    BY <1>1 DEF LiveAux
  <2> QED
    BY <1>1, <1>2, <2>1, <2>2, <2>3 DEF Current
<1> QED
  BY <1>5, <1>6, <1>7, <1>8, <1>9, <1>10, <1>11, <1>12 DEF OwnStatement

LEMMA CurrentNext ==
    ASSUME InvRC, OneWriter, AllCurrent, [NextRC]_varsRC
    PROVE  AllCurrent'
<1> SUFFICES ASSUME NEW t \in Transactions PROVE Current(t)'
  BY DEF AllCurrent
<1>1. CASE tx'[t].at = "begin"
  BY <1>1 DEF Current
<1>2. CASE OwnStatement(t)
  BY <1>2, CurrentStatement
<1>3. CASE tx'[t].at # "begin" /\ ~OwnStatement(t)
  <2>1. Stays(t) /\ tx[t].at # "begin" /\ Current(t)
    BY <1>3, Others DEF Stays, AllCurrent
  <2> QED
    BY <1>3, <2>1, TablesCurrent, CurrentKept
<1> QED
  BY <1>1, <1>2, <1>3

LEMMA CurrentNotStale == ASSUME InvRC, AllCurrent PROVE ~Stale
<1>1. ASSUME NEW s \in Slots, StaleRevokeKey(s) PROVE FALSE
  <2>1. s \in Transactions /\ tx[s].at = "update" /\ tx[s].rows = {} /\ IsRevokeKey(s)
    BY <1>1 DEF Transactions, StaleRevokeKey, CommitRevokeKey, CommitKeyRows, IsRevokeKey
  <2>2. PICK i \in FindKeyToRevoke(msg[s].actor, msg[s].public_key) :
               tx[s].rows \cup tx[s].held = {i}
    BY <2>1 DEF AllCurrent, Current
  <2>3. tx[s].held = {i}
    BY <2>1, <2>2
  <2> QED
    BY <1>1, <2>3 DEF StaleRevokeKey
<1>2. ASSUME NEW t \in Transactions, CommitBurnDown(t) PROVE BurnIsCurrent(t)
  <2> DEFINE r == tx[t].actor
  <2>1. Runs(t, "BurnDown") /\ tx[t].at = "update" /\ tx[t].rows = {}
    BY <1>2 DEF CommitBurnDown, CommitKeyRows
  <2>2. PICK a \in Actors : Burns(t, a) /\ r \in DOMAIN actors /\ actors[r].actor_id = a
    BY <2>1 DEF AllCurrent, Current
  <2>3. ActorExists(a) /\ r = ActorID(actors, a)
    <3>1. ActorExists(a)
      BY <2>2 DEF ActorExists
    <3>2. ActorID(actors, a) \in DOMAIN actors /\ actors[ActorID(actors, a)].actor_id = a
      BY <2>2, ActorIDFound
    <3> QED
      BY <2>2, <3>1, <3>2 DEF InvRC, TableInv, ActorNamesUnique
  <2>4. /\ tx[t].rows \cup tx[t].held = LiveRowsOf(r)
        /\ symmetric_keys \ tx[t].deleted = symmetric_keys \ GetMessageHashesForActor(r)
    BY <2>1 DEF AllCurrent, Current
  <2>5. tx[t].held = LiveRowsOf(r)
    BY <2>1, <2>4
  <2> QED
    BY <2>2, <2>3, <2>4, <2>5 DEF BurnIsCurrent, LiveRowsOf
<1>3. ASSUME NEW s \in Slots, StaleRevokeAuxData(s) PROVE FALSE
  BY <1>3 DEF Transactions, StaleRevokeAuxData, CommitRevokeAuxData, AllCurrent, Current
<1> QED
  BY <1>1, <1>2, <1>3 DEF Stale, StaleBurn

\* A transaction that is to create its actor would still find it missing.
StillNew == \A s \in Slots : tx[s].at = "create" => ~ActorExists(msg[s].actor)

LEMMA StillNewNext ==
    ASSUME InvRC, OneWriter, StillNew, [NextRC]_varsRC
    PROVE  StillNew'
<1> SUFFICES ASSUME NEW s \in Slots, tx'[s].at = "create" PROVE ~ActorExists(msg[s].actor)'
  BY DEF StillNew
<1>1. s \in Transactions /\ tx \in [Transactions -> TxRecord] /\ tx[s] \in TxRecord
  BY Own DEF Transactions, InvRC, TxInv
<1>2. CASE OwnStatement(s)
  <2>1. UNCHANGED <<actors, msg>>
    BY <1>2, OwnStatementIs DEF vars
  <2>2. SelectActor(s)
    <3>1. ASSUME NEW e, Statement(s, e) PROVE tx'[s] = e
      BY <1>1, <3>1 DEF Statement
    <3>2. CASE InsertActor(s) \/ SelectKeyToRevoke(s)
      BY <1>1, <3>1, <3>2 DEF InsertActor, SelectKeyToRevoke, TxRecord
    <3>3. CASE CheckNewActor(s) \/ LockOldActor(s) \/ EnterNewName(s)
      BY <1>1, <3>1, <3>3 DEF CheckNewActor, LockOldActor, EnterNewName, TxRecord
    <3>4. CASE FindActor(s) \/ GetMessageHashes(s)
      BY <1>1, <3>1, <3>4 DEF FindActor, GetMessageHashes, TxRecord
    <3>5. CASE DeleteSymmetricKeys(s) \/ RevokeAllKeys(s)
      BY <1>1, <3>1, <3>5 DEF DeleteSymmetricKeys, RevokeAllKeys, TxRecord
    <3>6. CASE WriteKeyRow(s)
      BY <1>1, <3>1, <3>6 DEF WriteKeyRow, TxRecord
    <3>7. CASE FindAuxData(s) \/ LockAuxData(s)
      BY <1>1, <3>1, <3>7 DEF FindAuxData, LockAuxData, TxRecord
    <3> QED
      BY <1>2, <3>2, <3>3, <3>4, <3>5, <3>6, <3>7 DEF OwnStatement
  <2>3. ~ActorExists(msg[s].actor)
    BY <1>1, <2>2 DEF SelectActor, Statement, TxRecord
  <2> QED
    BY <2>1, <2>3 DEF ActorExists
<1>3. CASE ~OwnStatement(s)
  <2>1. tx[s].at = "create" /\ msg'[s] = msg[s]
    BY <1>1, <1>3, Others DEF Stays
  <2>2. /\ DOMAIN actors' = DOMAIN actors
        /\ \A r \in DOMAIN actors : actors'[r].actor_id = actors[r].actor_id
    BY <1>1, <2>1, TablesCurrent
  <2> QED
    BY <2>1, <2>2 DEF StillNew, ActorExists
<1> QED
  BY <1>2, <1>3

\* Interleaving is what it takes: transactions that run one after the other, which is how
\* PKDServer takes them, are those of the core statement for statement.
THEOREM SerialTransactionsAreAtomic == SpecRC /\ []OneWriter => Spec
<1>1. InitRC => Init /\ AllCurrent /\ StillNew
  BY DEF InitRC, NoTx, AllCurrent, Current, StillNew, Transactions
<1>2. InvRC /\ OneWriter /\ AllCurrent /\ [NextRC]_varsRC => AllCurrent'
  BY CurrentNext
<1>3. InvRC /\ OneWriter /\ StillNew /\ [NextRC]_varsRC => StillNew'
  BY StillNewNext
<1>4. InvRC /\ LockedNames /\ AllCurrent /\ StillNew /\ [NextRC]_varsRC => [Next]_vars
  <2>1. StillNew => \A s \in Slots : ~Outrun(s)
    BY DEF StillNew, Outrun
  <2> QED
    BY <2>1, AtomicOrOutrun, CurrentNotStale
<1> QED
  BY <1>1, <1>2, <1>3, <1>4, LockedNamesAlways, PTL DEF SpecRC, Spec

\* One request at a time, and an administrator who shreds nobody, leave nothing to
\* interleave.
AdministratorWaits == tx[Administrator].at = "begin"

LEMMA AdministratorWaitsNext ==
    ASSUME Shreddable = {}, InvRC, AdministratorWaits, [NextRC]_varsRC
    PROVE  AdministratorWaits'
<1>1. Administrator \in Transactions /\ Administrator \notin Slots
  BY AdministratorAssumption DEF Transactions
<1>2. CASE OwnStatement(Administrator)
  <2>1. FindActor(Administrator)
    BY <1>1, <1>2 DEF AdministratorWaits, OwnStatement, WriteKeyRow, GetMessageHashes,
       DeleteSymmetricKeys, RevokeAllKeys
  <2> QED
    BY <2>1 DEF FindActor, Burns
<1>3. CASE ~OwnStatement(Administrator)
  BY <1>1, <1>3, Others DEF Stays, AdministratorWaits
<1> QED
  BY <1>2, <1>3

\* Undisturbed, PostgreSQL runs the core, whatever fails: what the comments promise of one
\* request at a time (SerialLastKey, SerialSigners, SerialOwner) and what an auditor
\* replays (LogIsTheDirectory) do not depend on which database serves it.
THEOREM UndisturbedIsAtomic == ASSUME Undisturbed PROVE SpecRC => Spec
<1>1. InitRC => AdministratorWaits
  BY DEF InitRC, NoTx, AdministratorWaits, Transactions
<1>2. InvRC /\ AdministratorWaits /\ [NextRC]_varsRC => AdministratorWaits'
  BY AdministratorWaitsNext DEF Undisturbed
<1>3. AdministratorWaits => OneWriter
  BY DEF AdministratorWaits, OneWriter, Undisturbed, OneRequest, Transactions
<1> QED
  BY <1>1, <1>2, <1>3, SafetyRC, SerialTransactionsAreAtomic, PTL DEF SpecRC

-----------------------------------------------------------------------------
(* Further invariants of the core that stale revocations do not touch.       *)

\* Rows of keys are added by AddKeys and otherwise keep what was enrolled.
LEMMA KeyRowsKept ==
    ASSUME InvRC, [NextRC]_varsRC, \A s \in Slots : ~CommitAddKey(s)
    PROVE  /\ DOMAIN public_keys' = DOMAIN public_keys
           /\ \A i \in DOMAIN public_keys :
                /\ public_keys'[i].actor_id = public_keys[i].actor_id
                /\ public_keys'[i].public_key = public_keys[i].public_key
                /\ public_keys'[i].merkle_root = public_keys[i].merkle_root
<1> DEFINE Goal == /\ DOMAIN public_keys' = DOMAIN public_keys
                   /\ \A i \in DOMAIN public_keys :
                        /\ public_keys'[i].actor_id = public_keys[i].actor_id
                        /\ public_keys'[i].public_key = public_keys[i].public_key
                        /\ public_keys'[i].merkle_root = public_keys[i].merkle_root
<1>1. ASSUME NEW t, NEW r, CommitKeyRows(t, r) PROVE Goal
  <2>1. \A i \in DOMAIN public_keys : public_keys[i] \in KeyRow
    BY Numbers DEF InvRC, TableInv
  <2> QED
    BY <1>1, <2>1 DEF CommitKeyRows, KeyRow
<1>2. ASSUME UNCHANGED public_keys PROVE Goal
  BY <1>2
<1> HIDE DEF Goal
<1>3. ASSUME NEW s \in Slots, Validate(s) \/ Submit(s) PROVE Goal
  BY <1>2, <1>3, ValidateAccepts DEF Accept, database, Submit, SubmitMessage, SubmitRefused,
     SubmitUnanswered
<1>4. ASSUME NEW s \in Slots, OneStatement(s) PROVE Goal
  BY <1>2, <1>4 DEF OneStatement, RejectSymmetricKeys, UpdateFireproof, ProcessFireproof,
     ProcessUndoFireproof, SetFireproof, database
<1>5. ASSUME NEW s \in Slots, Commit(s) PROVE Goal
  BY <1>1, <1>2, <1>5 DEF Commit, CommitAddAuxData, CommitRevokeKey, CommitMoveIdentity,
     CommitRevokeAuxData
<1>6. ASSUME NEW t, RejectRC(t) \/ StatementFails(t) PROVE Goal
  BY <1>2, <1>6 DEF RejectRC, StatementFails, Rollback, database
<1>7. ASSUME NEW t, CommitBurnDown(t) PROVE Goal
  BY <1>1, <1>7 DEF CommitBurnDown
<1>8. ASSUME NEW t, OwnStatement(t) PROVE Goal
  BY <1>2, <1>8, OwnStatementIs DEF vars
<1>9. ASSUME CrashRC \/ UNCHANGED varsRC PROVE Goal
  BY <1>2, <1>9 DEF CrashRC, Crash, database, varsRC, vars
<1>10. Goal
  BY <1>3, <1>4, <1>5, <1>6, <1>7, <1>8, <1>9, StepKinds
<1> QED
  BY <1>10 DEF Goal

LEMMA LogKeptRC == ASSUME InvRC, [NextRC]_varsRC PROVE LogGrows
<1>1. log \in Seq(Message)
  BY DEF InvRC, TableInv, TypeInv, TypeOK
<1>2. ASSUME NEW s \in Slots, Submit(s), log' # log PROVE LogGrows
  <2>1. log' = Append(log, msg[s]) /\ pc[s] = "validated"
    BY <1>2 DEF Submit, SubmitMessage, SubmitRefused, SubmitUnanswered
  <2>2. msg[s] \in Message
    BY <2>1 DEF InvRC, TableInv, TypeInv, RequestsOK
  <2> QED
    BY <1>1, <2>1, <2>2, AppendRow DEF LogGrows
<1>3. ASSUME UNCHANGED log PROVE LogGrows
  BY <1>3 DEF LogGrows
<1>4. ASSUME NEW s \in Slots, Validate(s) PROVE UNCHANGED log
  BY <1>4, ValidateAccepts DEF Accept
<1>5. ASSUME NEW s \in Slots, OneStatement(s) \/ Commit(s) PROVE UNCHANGED log
  BY <1>5 DEF OneStatement, RejectSymmetricKeys, UpdateFireproof, ProcessFireproof,
     ProcessUndoFireproof, SetFireproof, Commit,
     CommitAddKey, CommitAddAuxData, CommitRevokeKey, CommitMoveIdentity, CommitRevokeAuxData
<1>6. ASSUME NEW t, RejectRC(t) \/ StatementFails(t) \/ CommitBurnDown(t) PROVE UNCHANGED log
  BY <1>6 DEF RejectRC, StatementFails, CommitBurnDown, Rollback
<1>7. ASSUME NEW t, OwnStatement(t) PROVE UNCHANGED log
  BY <1>7, OwnStatementIs DEF vars
<1>8. CASE CrashRC \/ UNCHANGED varsRC
  BY <1>3, <1>8 DEF CrashRC, Crash, varsRC, vars
<1> QED
  BY <1>2, <1>3, <1>4, <1>5, <1>6, <1>7, <1>8, StepKinds

\* A request that is not over is the one it was, or has just been accepted.
LEMMA RequestsRC ==
    ASSUME InvRC, [NextRC]_varsRC, NEW s \in Slots, pc'[s] # "idle"
    PROVE  Validate(s) \/ (pc[s] # "idle" /\ msg'[s] = msg[s])
<1>1. /\ pc \in [Slots -> {"idle", "validated", "logged"}]
      /\ msg \in [Slots -> Message \cup {NoMsg}]
  BY DEF InvRC, TableInv, TypeInv, TypeOK
<1>2. ASSUME NEW t \in Slots, Finish(t) PROVE pc[s] # "idle" /\ msg'[s] = msg[s]
  BY <1>1, <1>2 DEF Finish
<1>3. ASSUME NEW t \in Slots, Validate(t) PROVE Validate(s) \/ (pc[s] # "idle" /\ msg'[s] = msg[s])
  BY <1>1, <1>3, ValidateAccepts DEF Accept
<1>4. ASSUME NEW t \in Slots, Submit(t) PROVE pc[s] # "idle" /\ msg'[s] = msg[s]
  BY <1>1, <1>2, <1>4 DEF Submit, SubmitMessage, SubmitRefused, SubmitUnanswered
<1>5. ASSUME NEW t \in Slots, OneStatement(t) \/ Commit(t) \/ RejectRC(t)
      PROVE  pc[s] # "idle" /\ msg'[s] = msg[s]
  <2>1. Finish(t)
    BY <1>5, EndsRequest DEF OneStatement, RejectSymmetricKeys, UpdateFireproof,
       ProcessFireproof, ProcessUndoFireproof, SetFireproof, Commit, CommitAddKey, CommitAddAuxData, CommitRevokeKey,
       CommitMoveIdentity, CommitRevokeAuxData, RejectRC, Rollback
  <2> QED
    BY <1>2, <2>1
<1>6. ASSUME NEW t \in Transactions, StatementFails(t) \/ CommitBurnDown(t)
      PROVE  pc[s] # "idle" /\ msg'[s] = msg[s]
  BY <1>2, <1>6, AdministratorAssumption DEF StatementFails, CommitBurnDown, Rollback, End,
     requests, Transactions
<1>7. ASSUME NEW t, OwnStatement(t) PROVE pc[s] # "idle" /\ msg'[s] = msg[s]
  BY <1>7, OwnStatementIs DEF vars
<1>8. CASE CrashRC \/ UNCHANGED varsRC
  BY <1>8 DEF CrashRC, Crash, varsRC, vars
<1> QED
  BY <1>3, <1>4, <1>5, <1>6, <1>7, <1>8, StepKinds

LEMMA ChainNext ==
    ASSUME InvRC, InvRC', SignersKnown, SignerEnrolled, [NextRC]_varsRC
    PROVE  SignersKnown' /\ SignerEnrolled'
<1> DEFINE Kept == DOMAIN public_keys \subseteq DOMAIN public_keys' /\
                   \A i \in DOMAIN public_keys :
                      /\ public_keys'[i].public_key = public_keys[i].public_key
                      /\ public_keys'[i].merkle_root = public_keys[i].merkle_root
<1>1. KeyEventsLogged /\ LogGrows /\ DOMAIN public_keys = 1..Len(public_keys)
      /\ Len(public_keys) \in Nat
  BY LogKeptRC, Numbers DEF InvRC, TableInv
<1>2. ASSUME NEW s \in Slots, CommitAddKey(s)
      PROVE  /\ Kept /\ DOMAIN public_keys' = DOMAIN public_keys \cup {Len(public_keys) + 1}
             /\ public_keys'[Len(public_keys) + 1].merkle_root = root[s]
  <2> DEFINE new == [actor_id |-> CommittedActor(s), public_key |-> msg[s].public_key,
                     merkle_root |-> root[s], revoke_root |-> NoRoot]
  <2>1. public_keys' = Append(public_keys, new) /\ new.merkle_root = root[s]
    BY <1>2 DEF CommitAddKey
  <2> HIDE DEF new
  <2> QED
    BY <1>1, <2>1 DEF InvRC, TableInv, TypeInv, TypeOK
<1>3. Kept
  BY <1>2, KeyRowsKept
<1>4. SignersKnown'
  <2> SUFFICES ASSUME NEW s \in Slots, pc'[s] # "idle", msg'[s].action = "AddKey"
               PROVE  \/ msg'[s].signer = msg'[s].public_key
                      \/ \E j \in DOMAIN public_keys' : public_keys'[j].public_key = msg'[s].signer
    BY DEF SignersKnown
  <2>1. \/ msg'[s].signer = msg'[s].public_key
        \/ \E j \in DOMAIN public_keys : public_keys[j].public_key = msg'[s].signer
    <3>1. CASE Validate(s)
      <4>1. PICK m \in Messages : ValidateAddKey(s, m) /\ msg'[s] = m
        BY <3>1 DEF Validate, ValidateAddKey, ValidateRevokeKey, ValidateMoveIdentity,
           ValidateBurnDown, ValidateFireproof, ValidateUndoFireproof, ValidateAddAuxData,
           ValidateRevokeAuxData, Accept, InvRC, TableInv, TypeInv, TypeOK
      <4> QED
        BY <4>1 DEF ValidateAddKey, SignedByKeyOf, ListKeysForActor
    <3>2. CASE pc[s] # "idle" /\ msg'[s] = msg[s]
      BY <3>2 DEF SignersKnown
    <3> QED
      BY <3>1, <3>2, RequestsRC
  <2> QED
    BY <1>3, <2>1
<1>5. ASSUME NEW i \in DOMAIN public_keys
      PROVE  LET m == log'[public_keys'[i].merkle_root] IN
             \/ m.signer = m.public_key
             \/ \E j \in 1..(i - 1) : public_keys'[j].public_key = m.signer
  <2>1. log'[public_keys'[i].merkle_root] = log[public_keys[i].merkle_root]
    BY <1>1, <1>3 DEF KeyEventsLogged, LogGrows
  <2>2. \A j \in 1..(i - 1) : public_keys'[j].public_key = public_keys[j].public_key
    BY <1>1, <1>3
  <2> QED
    BY <2>1, <2>2 DEF SignerEnrolled
<1>6. SignerEnrolled'
  <2>1. CASE \E s \in Slots : CommitAddKey(s)
    <3>1. PICK s \in Slots : CommitAddKey(s)
      BY <2>1
    <3> DEFINE n == Len(public_keys) + 1
    <3>2. /\ DOMAIN public_keys' = DOMAIN public_keys \cup {n}
          /\ public_keys'[n].merkle_root = root[s] /\ n - 1 = Len(public_keys)
      <4>1. n - 1 = Len(public_keys)
        BY <1>1
      <4>2. /\ DOMAIN public_keys' = DOMAIN public_keys \cup {Len(public_keys) + 1}
            /\ public_keys'[Len(public_keys) + 1].merkle_root = root[s]
        BY <1>2, <3>1, Zenon
      <4> QED
        BY <4>1, <4>2
    <3>3. /\ pc[s] = "logged" /\ msg[s].action = "AddKey" /\ log' = log
          /\ log[root[s]] = msg[s]
      BY <3>1, ProcessingTyped DEF CommitAddKey, Processing, InvRC, TableInv
    <3>4. \/ msg[s].signer = msg[s].public_key
          \/ \E j \in 1..(n - 1) : public_keys'[j].public_key = msg[s].signer
      BY <1>1, <1>3, <3>2, <3>3 DEF SignersKnown
    <3> HIDE DEF n
    <3> QED
      BY <1>5, <3>2, <3>3, <3>4 DEF SignerEnrolled
  <2>2. CASE \A s \in Slots : ~CommitAddKey(s)
    BY <1>5, <2>2, KeyRowsKept DEF SignerEnrolled
  <2> QED
    BY <2>1, <2>2
<1> QED
  BY <1>4, <1>6

\* Under READ COMMITTED too a key signed itself in, or was signed in by an older one.
THEOREM ChainOfTrustRC == SpecRC => []SignerEnrolled
<1>1. InitRC => SignersKnown /\ SignerEnrolled
  BY DEF InitRC, Init, SignersKnown, SignerEnrolled
<1>2. InvRC /\ InvRC' /\ SignersKnown /\ SignerEnrolled /\ [NextRC]_varsRC
        => SignersKnown' /\ SignerEnrolled'
  BY ChainNext
<1> QED
  BY <1>1, <1>2, SafetyRC, PTL DEF SpecRC

\* Under READ COMMITTED too auxiliary data and its revocation have their log entries,
\* also where the actor was renamed between the UPDATE and its COMMIT.
THEOREM AuxTransparencyRC == SpecRC => []AuxEventsLogged
<1>1. InvRC => AuxEventsLogged
  BY DEF InvRC, TableInv
<1> QED
  BY <1>1, SafetyRC, PTL

LEMMA StoredUnderOwnRootRC ==
    ASSUME [NextRC]_varsRC, NEW r \in symmetric_keys', r \notin symmetric_keys
    PROVE  \E s \in Slots : pc[s] = "logged" /\ r = root[s]
<1>1. ASSUME NEW s \in Slots, CommitAddKey(s) \/ CommitRevokeKey(s)
      PROVE  pc[s] = "logged" /\ r = root[s]
  BY <1>1 DEF CommitAddKey, CommitRevokeKey, Processing, StoreSymmetricKeys
<1>2. ASSUME NEW s \in Slots, \/ CommitAddAuxData(s) \/ CommitMoveIdentity(s)
                               \/ CommitRevokeAuxData(s) \/ OneStatement(s)
      PROVE  FALSE
  BY <1>2 DEF CommitAddAuxData, CommitMoveIdentity, CommitRevokeAuxData, OneStatement,
     RejectSymmetricKeys,
     UpdateFireproof, ProcessFireproof, ProcessUndoFireproof, SetFireproof, database
<1>3. ASSUME NEW t, RejectRC(t) \/ StatementFails(t) \/ CommitBurnDown(t) PROVE FALSE
  BY <1>3 DEF RejectRC, StatementFails, CommitBurnDown, Rollback, database
<1>4. ASSUME NEW s \in Slots, Validate(s) \/ Submit(s) PROVE FALSE
  BY <1>4, ValidateAccepts DEF Accept, Submit, SubmitMessage, SubmitRefused, SubmitUnanswered,
     database
<1>5. ASSUME NEW t, OwnStatement(t) PROVE FALSE
  BY <1>5, OwnStatementIs DEF vars
<1>6. ASSUME CrashRC \/ UNCHANGED varsRC PROVE FALSE
  BY <1>6 DEF CrashRC, Crash, database, varsRC, vars
<1> QED
  BY <1>1, <1>2, <1>3, <1>4, <1>5, <1>6, StepKinds DEF Commit

\* Nor does READ COMMITTED bring back symmetric keys that a burn deleted: a transaction
\* stores them under its own root, which no row has carried.
THEOREM ShredIsFinalRC == SpecRC => ShredFinal
<1>1. InvRC /\ [NextRC]_varsRC => [ShredFinalStep]_vars
  BY StoredUnderOwnRootRC DEF ShredFinalStep, InvRC, TableInv, RootsFresh
<1> QED
  BY <1>1, SafetyRC, PTL DEF SpecRC, ShredFinal

\* A burn leaves symmetric keys behind (service.go:198) only after some burn or revocation
\* committed on stale rows: nothing else at READ COMMITTED does it.
THEOREM OnlyStaleBurnsLeaveKeys ==
    ASSUME "database" \in Faults
    PROVE  SpecRC /\ [][~Stale]_varsRC => []ShredComplete /\ []ShredReachable
BY SnapshotsAreAtomic, BurnShredsAll, Shreddability, PTL

-----------------------------------------------------------------------------
(* The weaker promise of Directory, which holds whatever interleaves.  A     *)
(* burn at work has found the row of one account, and only that row's keys.  *)

BurnRows(t) ==
    Runs(t, "BurnDown") /\ tx[t].at # "begin" =>
        /\ tx[t].actor \in DOMAIN actors
        /\ \A i \in tx[t].rows \cup tx[t].held : public_keys[i].actor_id = tx[t].actor
        /\ t = Administrator => Shreddable # {}

AllBurnRows == \A t \in Transactions : BurnRows(t)

\* Rows neither go away nor change hands.
LEMMA OwnersKept ==
    ASSUME InvRC, [NextRC]_varsRC
    PROVE  /\ DOMAIN actors \subseteq DOMAIN actors'
           /\ \A i \in DOMAIN public_keys : public_keys'[i].actor_id = public_keys[i].actor_id
<1>1. /\ actors \in Seq(ActorRow) /\ public_keys \in Seq(KeyRow)
      /\ \A r \in DOMAIN actors : actors[r] \in ActorRow
  BY DEF InvRC, TableInv, TypeInv, TypeOK
<1>2. DOMAIN actors \subseteq DOMAIN actors'
  <2>1. ASSUME NEW s \in Slots, CommitAddKey(s) \/ CommitAddAuxData(s)
        PROVE  DOMAIN actors \subseteq DOMAIN actors'
    BY <1>1, <2>1 DEF CommitAddKey, CommitAddAuxData, CommitActor
  <2>2. ASSUME NEW s \in Slots, CommitMoveIdentity(s) \/ UpdateFireproof(s)
        PROVE  DOMAIN actors \subseteq DOMAIN actors'
    BY <2>2 DEF CommitMoveIdentity, UpdateFireproof, ProcessFireproof, ProcessUndoFireproof,
       SetFireproof
  <2> QED
    BY <2>1, <2>2, ActorsKept
<1>3. ASSUME NEW s \in Slots, CommitAddKey(s)
      PROVE  \A i \in DOMAIN public_keys : public_keys'[i] = public_keys[i]
  BY <1>1, <1>3 DEF CommitAddKey
<1> QED
  BY <1>2, <1>3, KeyRowsKept

LEMMA BurnRowsStatement ==
    ASSUME InvRC, NEW t \in Transactions, BurnRows(t), OwnStatement(t)
    PROVE  BurnRows(t)'
<1>1. /\ UNCHANGED <<actors, public_keys, pc, msg>>
      /\ tx \in [Transactions -> TxRecord] /\ tx[t] \in TxRecord
  BY OwnStatementIs, Own DEF vars, InvRC, TxInv
<1>2. Runs(t, "BurnDown")' <=> Runs(t, "BurnDown")
  BY <1>1 DEF Runs, Processing
<1> SUFFICES ASSUME Runs(t, "BurnDown") PROVE BurnRows(t)'
  BY <1>2 DEF BurnRows
<1>3. CASE FindActor(t)
  <2>1. PICK a \in Actors : /\ Burns(t, a) /\ ActorExists(a)
                            /\ tx' = [tx EXCEPT ![t] = [tx[t] EXCEPT !.at = "hashes",
                                                          !.actor = ActorID(actors, a)]]
    BY <1>3 DEF FindActor, Statement
  <2>2. ActorID(actors, a) \in DOMAIN actors
    BY <2>1, ActorIDFound DEF ActorExists
  <2>3. /\ tx'[t].actor = ActorID(actors, a)
        /\ tx'[t].rows = tx[t].rows /\ tx'[t].held = tx[t].held
    BY <1>1, <2>1 DEF TxRecord
  <2>4. tx[t].rows = {} /\ tx[t].held = {}
    BY <1>3, Own DEF FindActor, TxPhase, NoTx
  <2>5. t = Administrator => Shreddable # {}
    BY <2>1 DEF Burns
  <2> QED
    BY <1>1, <2>2, <2>3, <2>4, <2>5 DEF BurnRows
<1>4. CASE tx[t].at # "begin" /\ ~FindActor(t)
  <2>1. /\ tx[t].actor \in DOMAIN actors /\ (t = Administrator => Shreddable # {})
        /\ \A i \in tx[t].rows \cup tx[t].held : public_keys[i].actor_id = tx[t].actor
    BY <1>4 DEF BurnRows
  <2>2. CASE WriteKeyRow(t)
    <3>1. PICK i \in tx[t].rows, h \in SUBSET (tx[t].rows \cup tx[t].held) :
                 tx' = [tx EXCEPT ![t] = [tx[t] EXCEPT !.rows = @ \ {i}, !.held = h]]
      BY <2>2 DEF WriteKeyRow, NextRow, Statement
    <3>2. /\ tx'[t].actor = tx[t].actor
          /\ tx'[t].rows \cup tx'[t].held \subseteq tx[t].rows \cup tx[t].held
      BY <1>1, <3>1 DEF TxRecord
    <3> QED
      BY <1>1, <2>1, <3>2 DEF BurnRows
  <2>3. CASE GetMessageHashes(t) \/ DeleteSymmetricKeys(t)
    <3>1. /\ tx'[t].actor = tx[t].actor
          /\ tx'[t].rows = tx[t].rows /\ tx'[t].held = tx[t].held
      <4>1. CASE GetMessageHashes(t)
        BY <1>1, <4>1 DEF GetMessageHashes, Statement, TxRecord
      <4>2. CASE DeleteSymmetricKeys(t)
        BY <1>1, <4>2 DEF DeleteSymmetricKeys, Statement, TxRecord
      <4> QED
        BY <2>3, <4>1, <4>2
    <3> QED
      BY <1>1, <2>1, <3>1 DEF BurnRows
  <2>4. CASE RevokeAllKeys(t)
    <3>1. /\ tx'[t].actor = tx[t].actor /\ tx'[t].held = tx[t].held
          /\ tx'[t].rows = LiveRowsOf(tx[t].actor)
      BY <1>1, <2>4 DEF RevokeAllKeys, LiveRowsOf, Statement, TxRecord
    <3> QED
      BY <1>1, <2>1, <3>1 DEF BurnRows, LiveRowsOf
  <2>5. ~(t \in Slots /\ (\/ SelectActor(t) \/ InsertActor(t) \/ SelectKeyToRevoke(t)
                          \/ CheckNewActor(t) \/ LockOldActor(t) \/ EnterNewName(t)
                          \/ FindAuxData(t) \/ LockAuxData(t)))
    BY Own, AdministratorAssumption DEF Runs, Processing, NeedsActor, TxPhase, SelectActor,
       InsertActor, SelectKeyToRevoke, CheckNewActor, LockOldActor, EnterNewName,
       FindAuxData, LockAuxData
  <2> QED
    BY <1>4, <2>2, <2>3, <2>4, <2>5 DEF OwnStatement
<1>5. CASE tx[t].at = "begin" /\ ~FindActor(t)
  <2>1. t \in Slots /\ \/ SelectActor(t) \/ SelectKeyToRevoke(t)
                       \/ CheckNewActor(t) \/ FindAuxData(t)
    BY <1>5 DEF OwnStatement, InsertActor, LockOldActor, EnterNewName, LockAuxData, WriteKeyRow,
       GetMessageHashes, DeleteSymmetricKeys, RevokeAllKeys
  <2> QED
    BY <2>1, AdministratorAssumption DEF Runs, Processing, NeedsActor, SelectActor,
       SelectKeyToRevoke, CheckNewActor, FindAuxData
<1> QED
  BY <1>3, <1>4, <1>5

LEMMA BurnRowsNext ==
    ASSUME InvRC, AllBurnRows, [NextRC]_varsRC
    PROVE  AllBurnRows'
<1> SUFFICES ASSUME NEW t \in Transactions PROVE BurnRows(t)'
  BY DEF AllBurnRows
<1>1. BurnRows(t)
  BY DEF AllBurnRows
<1>2. CASE OwnStatement(t)
  BY <1>1, <1>2, BurnRowsStatement
<1>3. CASE tx'[t].at = "begin"
  BY <1>3 DEF BurnRows
<1>4. CASE Stays(t)
  <2>1. tx[t].rows \cup tx[t].held \subseteq DOMAIN public_keys
    BY Own DEF TxRows
  <2>2. Runs(t, "BurnDown")' <=> Runs(t, "BurnDown")
    BY <1>4, AdministratorAssumption DEF Stays, Runs, Processing, Transactions
  <2> QED
    BY <1>1, <1>4, <2>1, <2>2, OwnersKept DEF Stays, BurnRows
<1> QED
  BY <1>2, <1>3, <1>4, Others

-----------------------------------------------------------------------------
(* Key rows of one account are revoked, under whatever name and however many. *)

LEMMA RowsLost ==
    ASSUME MapInv, MapInv', UNCHANGED actors, NEW id \in DOMAIN actors,
           NEW rows, NEW r, r # NoRoot, Overwrites(rows, r),
           \A i \in DOMAIN public_keys : public_keys'[i].actor_id = public_keys[i].actor_id,
           \A i \in rows : public_keys[i].actor_id = id
    PROVE  LET a == actors[id].actor_id IN
           /\ \A x, q : LiveRows(x, q)' = LiveRows(x, q) \ rows
           /\ a \in Actors /\ accounts[a] = AccountOf(id) /\ accounts[a] # Absent
           /\ accounts' = [accounts EXCEPT ![a] = AccountOf(id)']
<1>1. \A x, q : LiveRows(x, q)' = LiveRows(x, q) \ rows
  BY DEF LiveRows, Overwrites
<1>2. \A x \in DOMAIN actors : x # id => AccountOf(x)' = AccountOf(x)
  <2> SUFFICES ASSUME NEW x \in DOMAIN actors, x # id PROVE AccountOf(x)' = AccountOf(x)
    OBVIOUS
  <2>1. \A q : LiveRows(x, q)' = LiveRows(x, q)
    BY <1>1 DEF LiveRows
  <2> QED
    BY <2>1 DEF AccountOf
<1>3. accounts' = [accounts EXCEPT ![actors'[id].actor_id] = AccountOf(id)']
  BY <1>2, OneAccount
<1>4. /\ actors[id].actor_id \in Actors /\ AccountOf(id) \in D!Account
      /\ accounts[actors[id].actor_id] = AccountOf(id)
  BY AccountsAreRows DEF AccountsByRow
<1> QED
  BY <1>1, <1>3, <1>4, AbsentAssumption

\* A burn takes keys, and nothing else, of the account whose rows it holds.
LEMMA KeysLost ==
    ASSUME MapInv, MapInv', UNCHANGED actors, NEW id \in DOMAIN actors,
           NEW rows, NEW r, r # NoRoot, Overwrites(rows, r),
           \A i \in DOMAIN public_keys : public_keys'[i].actor_id = public_keys[i].actor_id,
           \A i \in rows : public_keys[i].actor_id = id
    PROVE  \E a \in Actors : D!LoseKeys(a)
<1>1. PICK a : a = actors[id].actor_id
  OBVIOUS
<1>2. /\ \A x, q : LiveRows(x, q)' = LiveRows(x, q) \ rows
      /\ a \in Actors /\ accounts[a] = AccountOf(id) /\ accounts[a] # Absent
      /\ accounts' = [accounts EXCEPT ![a] = AccountOf(id)']
  BY <1>1, RowsLost
<1>3. a \in DOMAIN accounts
  BY <1>2 DEF accounts
<1>4. PICK now, later, flag :
        /\ now = [q \in Keys |-> Cardinality(LiveRows(id, q))]
        /\ later = [q \in Keys |-> Cardinality(LiveRows(id, q)')]
        /\ flag = actors[id].is_fireproof
        /\ AccountOf(id) = [keys |-> now, fireproof |-> flag]
        /\ AccountOf(id)' = [keys |-> later, fireproof |-> flag]
  BY DEF AccountOf
<1>5. accounts'[a] = [keys |-> later, fireproof |-> flag]
      /\ accounts[a] = [keys |-> now, fireproof |-> flag]
  BY <1>2, <1>3, <1>4
<1>6. accounts'[a] \in D!Account
  <2>1. AccountsByRow' /\ id \in DOMAIN actors' /\ actors'[id].actor_id = a
    BY <1>1, AccountsAreRowsNext
  <2> QED
    BY <2>1 DEF AccountsByRow
<1>7. \A q \in Keys : later[q] <= now[q]
  <2> SUFFICES ASSUME NEW q \in Keys
               PROVE  Cardinality(LiveRows(id, q)') <= Cardinality(LiveRows(id, q))
    BY <1>4
  <2>1. IsFiniteSet(LiveRows(id, q)) /\ LiveRows(id, q)' \subseteq LiveRows(id, q)
    BY <1>2, LiveRowsFinite DEF MapInv
  <2> QED
    BY <2>1, FS_Subset
<1>8. accounts' = [accounts EXCEPT ![a].keys = accounts'[a].keys]
  <2>1. [accounts[a] EXCEPT !.keys = later] = [keys |-> later, fireproof |-> flag]
    BY <1>5
  <2>2. accounts'[a].keys = later
    BY <1>5
  <2>3. accounts' = [accounts EXCEPT ![a] = [accounts[a] EXCEPT !.keys = later]]
    BY <1>2, <1>4, <2>1
  <2>4. accounts' = [accounts EXCEPT ![a].keys = later]
    BY <2>3, Zenon
  <2> QED
    BY <2>2, <2>4, Zenon
<1>9. \A k \in Keys : accounts'[a].keys[k] <= accounts[a].keys[k]
  BY <1>5, <1>7
<1>10. D!LoseKeys(a)
  BY <1>2, <1>6, <1>8, <1>9, Zenon DEF D!LoseKeys
<1> QED
  BY <1>2, <1>10, Zenon

LEMMA MappedRC == ASSUME InvRC PROVE MapInv
BY DEF InvRC, TableInv, MapInv

\* A burn commits, whatever happened since it began.
LEMMA BurnLoses ==
    ASSUME InvRC, InvRC', AllBurnRows, [NextRC]_varsRC,
           NEW t \in Transactions, CommitBurnDown(t)
    PROVE  D!LooseNext
<1> DEFINE id == tx[t].actor
<1>1. PICK r : r = IF t = Administrator THEN AdminRoot ELSE root[t]
  OBVIOUS
<1>2. /\ UNCHANGED actors /\ log' = log /\ CommitKeyRows(t, r) /\ End(t)
      /\ Runs(t, "BurnDown") /\ tx[t].at # "begin"
  BY <1>1 DEF CommitBurnDown, CommitKeyRows
<1>3. t # Administrator =>
        /\ t \in Slots /\ Finish(t) /\ pc[t] = "logged" /\ msg[t].action = "BurnDown"
        /\ root[t] \in Nat /\ log[root[t]] = msg[t]
  BY <1>2, ProcessingTyped, EndsRequest DEF Transactions, Runs, Processing, InvRC, TableInv
<1>4. r \in Nat \cup {AdminRoot} /\ r # NoRoot
  BY <1>1, <1>3, ConstantsAssumption
<1>5. Overwrites(tx[t].held, r)
  BY <1>2, <1>4, HeldOverwritten
<1>6. /\ id \in DOMAIN actors
      /\ \A i \in tx[t].held : public_keys[i].actor_id = id
      /\ t = Administrator => Shreddable # {}
  BY <1>2 DEF AllBurnRows, BurnRows
<1> HIDE DEF id
<1>7. \E a \in Actors : D!LoseKeys(a)
  <2>1. MapInv /\ MapInv'
    BY MappedRC DEF InvRC, TableInv, MapInv
  <2> QED
    BY <1>2, <1>4, <1>5, <1>6, <2>1, OwnersKept, KeysLost
<1>8. CASE t = Administrator
  <2>1. pending' = pending
    BY <1>2, <1>8 DEF End, requests, pending
  <2>2. D!ShredSome
    BY <1>2, <1>6, <1>7, <1>8, <2>1 DEF D!ShredSome
  <2> QED
    BY <2>2 DEF D!LooseNext
<1>9. CASE t # Administrator
  <2>1. pending' = pending \ {root[t]}
    BY <1>3, <1>9, MappedRC, FinishPending
  <2>2. root[t] \in pending
    BY <1>3, <1>9 DEF pending
  <2>3. D!BurnSome(root[t])
    BY <1>2, <1>3, <1>7, <1>9, <2>1 DEF D!BurnSome
  <2> QED
    BY <2>2, <2>3 DEF D!LooseNext
<1> QED
  BY <1>8, <1>9

\* A revocation that is stale found its key revoked, or the account renamed.
LEMMA RevocationLoses ==
    ASSUME InvRC, InvRC', [NextRC]_varsRC, NEW s \in Slots, StaleRevokeKey(s)
    PROVE  D!LooseNext
<1>1. PICK k, r, held : k = msg[s].public_key /\ r = root[s] /\ held = tx[s].held
  OBVIOUS
<1>2. /\ UNCHANGED actors /\ log' = log /\ CommitKeyRows(s, r) /\ End(s)
      /\ Processing(s, "RevokeKey") /\ s \in Transactions /\ IsRevokeKey(s)
      /\ \A i \in FindKeyToRevoke(msg[s].actor, k) : held # {i}
  BY <1>1 DEF StaleRevokeKey, CommitRevokeKey, Transactions, IsRevokeKey
<1>3. /\ Finish(s) /\ pc[s] = "logged" /\ log[r] = msg[s] /\ msg[s].action = "RevokeKey"
      /\ k \in Keys /\ r \in Nat /\ r # NoRoot
  BY <1>1, <1>2, EndsRequest, ProcessingTyped, MessageFields, ConstantsAssumption
     DEF Processing, InvRC, TableInv
<1>4. Overwrites(held, r)
  BY <1>1, <1>2, <1>3, HeldOverwritten
<1>5. MapInv /\ MapInv'
  BY MappedRC DEF InvRC, TableInv, MapInv
<1>6. pending' = pending \ {r} /\ r \in pending
  BY <1>1, <1>3, <1>5, FinishPending DEF pending
<1>7. \A i \in DOMAIN public_keys : public_keys'[i].actor_id = public_keys[i].actor_id
  BY OwnersKept
<1>8. CASE \A i \in held : public_keys[i].revoke_root # NoRoot
  <2>1. \A a, q : FindKeyToRevoke(a, q)' = FindKeyToRevoke(a, q)
    BY <1>2, <1>3, <1>4, <1>7, <1>8 DEF FindKeyToRevoke, ListKeysForActor, Overwrites
  <2>2. accounts' = accounts
    BY <1>2, <2>1 DEF accounts, ActorExists
  <2>3. D!Abandon
    BY <1>2, <1>6, <2>2 DEF D!Abandon
  <2> QED
    BY <2>3 DEF D!LooseNext, D!Next
<1>9. CASE \E i \in held : public_keys[i].revoke_root = NoRoot
  <2>1. PICK i \in held : public_keys[i].revoke_root = NoRoot
    BY <1>9
  <2>2. /\ i \in DOMAIN public_keys /\ public_keys[i].public_key = k
        /\ held = {i}
    BY <1>1, <1>2, <2>1, Own DEF TxRows
  <2>3. PICK id \in DOMAIN actors : id = public_keys[i].actor_id
    BY <2>2 DEF InvRC, TableInv, TypeInv, TypeOK
  <2>4. PICK a : a = actors[id].actor_id
    OBVIOUS
  <2>5. a # msg[s].actor /\ i \in LiveRows(id, k)
    BY <1>2, <2>1, <2>2, <2>3, <2>4 DEF FindKeyToRevoke, ListKeysForActor, LiveRows
  <2>6. /\ \A x, q : LiveRows(x, q)' = LiveRows(x, q) \ held
        /\ a \in Actors /\ accounts[a] = AccountOf(id) /\ accounts[a] # Absent
        /\ accounts' = [accounts EXCEPT ![a] = AccountOf(id)']
    BY <1>2, <1>3, <1>4, <1>5, <1>7, <2>2, <2>3, <2>4, RowsLost
  <2>7. \A q : LiveRows(id, q)' = IF q = k THEN LiveRows(id, q) \ {i} ELSE LiveRows(id, q)
    BY <2>2, <2>6 DEF LiveRows
  <2>8. /\ AccountOf(id)' = [AccountOf(id) EXCEPT !.keys[k] = @ - 1]
        /\ AccountOf(id).keys[k] > 0
    BY <1>2, <1>3, <1>5, <2>5, <2>7, OneKeyLess
  <2>9. accounts' = [accounts EXCEPT ![a].keys[k] = @ - 1]
    BY <2>6, <2>8
  <2>10. D!RevokeElsewhere(r)
    BY <1>1, <1>2, <1>3, <1>6, <2>5, <2>6, <2>8, <2>9 DEF D!RevokeElsewhere
  <2> QED
    BY <1>6, <2>10 DEF D!LooseNext
<1> QED
  BY <1>8, <1>9

\* The keys of an account are not what a revocation of auxiliary data is about.
LEMMA AuxRevocationAbandons ==
    ASSUME InvRC, NEW s \in Slots, CommitRevokeAuxData(s)
    PROVE  D!LooseNext
<1>1. /\ Finish(s) /\ UNCHANGED <<actors, public_keys, log>>
      /\ pc[s] = "logged"
  BY EndsRequest, Own DEF CommitRevokeAuxData, TxPhase, Processing
<1>2. pending' = pending \ {root[s]}
  BY <1>1, MappedRC, FinishPending
<1>3. accounts' = accounts
  BY <1>1 DEF accounts, ActorExists, FindKeyToRevoke, ListKeysForActor
<1>4. D!Abandon
  BY <1>1, <1>2, <1>3 DEF D!Abandon
<1> QED
  BY <1>4 DEF D!LooseNext, D!Next

LEMMA MsgsAllowedRC ==
    ASSUME InvRC, MsgsAllowed, [NextRC]_varsRC
    PROVE  MsgsAllowed'
<1> SUFFICES ASSUME NEW s \in Slots, pc'[s] # "idle" PROVE msg'[s] \in Messages
  BY DEF MsgsAllowed
<1>1. CASE Validate(s)
  BY <1>1, ValidateAccepts DEF Accept, InvRC, TableInv, TypeInv, TypeOK
<1>2. CASE pc[s] # "idle" /\ msg'[s] = msg[s]
  BY <1>2 DEF MsgsAllowed
<1> QED
  BY <1>1, <1>2, RequestsRC

LEMMA LooseStep ==
    ASSUME InvRC, InvRC', LockedNames, AllBurnRows, MsgsAllowed, [NextRC]_varsRC
    PROVE  [D!LooseNext]_(D!vars)
<1>1. MapInv /\ MapInv'
  BY MappedRC DEF InvRC, TableInv, MapInv
<1>2. ASSUME [Next]_vars PROVE [D!LooseNext]_(D!vars)
  BY <1>1, <1>2, RefinementNext DEF D!LooseNext
<1>3. ASSUME NEW s \in Slots, Outrun(s) PROVE D!LooseNext
  BY <1>1, <1>3, AbandonStep DEF Outrun, Abandoned, D!LooseNext, D!Next
<1>4. ASSUME Stale PROVE D!LooseNext
  BY <1>4, RevocationLoses, BurnLoses, AuxRevocationAbandons
     DEF Stale, StaleBurn, StaleRevokeAuxData
<1> QED
  BY <1>2, <1>3, <1>4, AtomicOrOutrun

\* Whatever interleaves at READ COMMITTED and whatever fails, the server is the weaker
\* directory: a burn takes keys of one account only, a revocation one key, every other
\* message has its whole effect, and each at most once (service.go:126, 199).
THEOREM RefinementRC == SpecRC => D!Init /\ LooseDirectory
<1>1. InitRC => D!Init /\ AllBurnRows /\ MsgsAllowed
  <2>1. InitRC => D!Init
    BY RefinementInit DEF InitRC
  <2>2. InitRC => AllBurnRows
    BY DEF InitRC, NoTx, AllBurnRows, BurnRows
  <2>3. InitRC => MsgsAllowed
    BY DEF InitRC, Init, MsgsAllowed
  <2> QED
    BY <2>1, <2>2, <2>3
<1>2. InvRC /\ AllBurnRows /\ MsgsAllowed /\ [NextRC]_varsRC => AllBurnRows' /\ MsgsAllowed'
  BY BurnRowsNext, MsgsAllowedRC
<1>3. /\ InvRC /\ InvRC' /\ LockedNames /\ AllBurnRows /\ MsgsAllowed
      /\ [NextRC]_varsRC
      => [D!LooseNext]_(D!vars)
  BY LooseStep
<1> QED
  BY <1>1, <1>2, <1>3, LockedNamesAlways, PTL DEF SpecRC, LooseDirectory
=============================================================================
