------------------------------ MODULE Directory ------------------------------
(***************************************************************************)
(* What the server promises of its directory, without requests, rows or    *)
(* transactions: accounts that hold keys, driven by a public log.  A       *)
(* message is published first; once published it takes effect as a whole,  *)
(* at one instant, at most once, or it never does.  The order of effects   *)
(* is not promised to be the order of the log.                             *)
(***************************************************************************)
EXTENDS Integers, Sequences

CONSTANTS
    Actors,     \* names of accounts
    Keys,       \* public keys
    Messages,   \* what may be published
    Shreddable, \* accounts the administrator may shred
    Absent      \* no account of that name

VARIABLES
    log,        \* the published messages, in order
    pending,    \* indices of published messages that may still take effect
    accounts    \* name -> live keys (with multiplicity) and fireproof flag

vars == <<log, pending, accounts>>

Account == [keys : [Keys -> Nat], fireproof : BOOLEAN]
NewAccount == [keys |-> [k \in Keys |-> 0], fireproof |-> FALSE]

Open(acc, a) == IF acc[a] = Absent THEN [acc EXCEPT ![a] = NewAccount] ELSE acc

NoKeys(acc, a) == [acc EXCEPT ![a].keys = [k \in Keys |-> 0]]

(* The effect of one message on the accounts.  A message about an account or *)
(* a key that is not there, or a move onto a taken name, has none.           *)
Effect(acc, m) ==
    IF m.action = "AddKey" THEN
        [Open(acc, m.actor) EXCEPT ![m.actor].keys[m.public_key] = @ + 1]
    ELSE IF m.action = "AddAuxData" /\ m.valid THEN
        Open(acc, m.actor)
    ELSE IF /\ m.action = "MoveIdentity"
            /\ acc[m.old_actor] # Absent
            /\ acc[m.new_actor] = Absent THEN
        [acc EXCEPT ![m.new_actor] = acc[m.old_actor], ![m.old_actor] = Absent]
    ELSE IF /\ m.action = "RevokeKey"
            /\ acc[m.actor] # Absent
            /\ acc[m.actor].keys[m.public_key] > 0 THEN
        [acc EXCEPT ![m.actor].keys[m.public_key] = @ - 1]
    ELSE IF m.action = "BurnDown" /\ acc[m.actor] # Absent THEN
        NoKeys(acc, m.actor)
    ELSE IF m.action \in {"Fireproof", "UndoFireproof"} /\ acc[m.actor] # Absent THEN
        [acc EXCEPT ![m.actor].fireproof = (m.action = "Fireproof")]
    ELSE acc

Empty == [a \in Actors |-> Absent]

Init ==
    /\ log = <<>>
    /\ pending = {}
    /\ accounts = Empty

\* Published; it may take effect later, or already be given up.
Publish(m) ==
    /\ log' = Append(log, m)
    /\ pending' \in {pending, pending \cup {Len(log')}}
    /\ UNCHANGED accounts

Apply(i) ==
    /\ accounts' = Effect(accounts, log[i])
    /\ pending' = pending \ {i}
    /\ UNCHANGED log

\* Published messages are given up.
Abandon ==
    /\ pending' \in SUBSET pending
    /\ UNCHANGED <<log, accounts>>

\* The administrator's crypto-shred, which is not published.
Shred(a) ==
    /\ accounts[a] # Absent
    /\ accounts' = NoKeys(accounts, a)
    /\ UNCHANGED <<log, pending>>

Next ==
    \/ \E m \in Messages : Publish(m)
    \/ \E i \in pending : Apply(i)
    \/ Abandon
    \/ \E a \in Shreddable : Shred(a)

Spec == Init /\ [][Next]_vars

-----------------------------------------------------------------------------
(* The promise without serial transactions.  A burn or a revocation writes   *)
(* the key rows it read, and meanwhile their account may have got another    *)
(* name, or more keys, or lost some.  It still takes live keys of at most    *)
(* one account and gives none; every other message has its whole effect.     *)

\* The revoked key's account goes by another name by now.
RevokeElsewhere(i) ==
    /\ log[i].action = "RevokeKey"
    /\ \E a \in Actors \ {log[i].actor} :
         /\ accounts[a] # Absent
         /\ accounts[a].keys[log[i].public_key] > 0
         /\ accounts' = [accounts EXCEPT ![a].keys[log[i].public_key] = @ - 1]
    /\ pending' = pending \ {i}
    /\ UNCHANGED log

LoseKeys(a) ==
    /\ accounts[a] # Absent
    /\ accounts'[a] \in Account
    /\ \A k \in Keys : accounts'[a].keys[k] <= accounts[a].keys[k]
    /\ accounts' = [accounts EXCEPT ![a].keys = accounts'[a].keys]

\* A burn misses the keys enrolled since it looked.
BurnSome(i) ==
    /\ log[i].action = "BurnDown"
    /\ \E a \in Actors : LoseKeys(a)
    /\ pending' = pending \ {i}
    /\ UNCHANGED log

ShredSome ==
    /\ Shreddable # {}
    /\ \E a \in Actors : LoseKeys(a)
    /\ UNCHANGED <<log, pending>>

LooseNext ==
    \/ Next
    \/ \E i \in pending : RevokeElsewhere(i) \/ BurnSome(i)
    \/ ShredSome

LooseSpec == Init /\ [][LooseNext]_vars
=============================================================================
