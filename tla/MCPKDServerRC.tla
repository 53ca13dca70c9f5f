---------------------------- MODULE MCPKDServerRC ----------------------------
(* Small instances of PKDServerRC.  They start where two AddKeys and an        *)
(* AddAuxData have been answered, a state every server passes through, so     *)
(* that the few log entries that are left are all spent on the races.         *)
EXTENDS PKDServerRC

CONSTANTS a1, a2, k1, k2, t1

AddKey(a, k, signer, symmetric) ==
    [action |-> "AddKey", actor |-> a, public_key |-> k, symmetric_keys |-> symmetric,
     signer |-> signer, time |-> t1]

\* a1 has enrolled k1 and k2, and one piece of auxiliary data.
MCInit ==
    /\ actors = <<[actor_id |-> a1, is_fireproof |-> FALSE]>>
    /\ public_keys = <<[actor_id |-> 1, public_key |-> k1, merkle_root |-> 1, revoke_root |-> NoRoot],
                       [actor_id |-> 1, public_key |-> k2, merkle_root |-> 2, revoke_root |-> NoRoot]>>
    /\ auxiliary_data = <<[actor_id |-> 1, merkle_root |-> 3, revoke_root |-> NoRoot]>>
    /\ symmetric_keys = {}
    /\ log = <<AddKey(a1, k1, k1, "none"), AddKey(a1, k2, k1, "none"),
               [action |-> "AddAuxData", actor |-> a1, valid |-> TRUE,
                signer |-> k1, time |-> t1]>>
    /\ pc = [s \in Slots |-> "idle"]
    /\ msg = [s \in Slots |-> NoMsg]
    /\ root = [s \in Slots |-> NoRoot]
    /\ tx = [t \in Transactions |-> NoTx]

MCSpec == MCInit /\ [][NextRC]_varsRC /\ Fairness

\* Every action on that account, and a second name that it, or somebody else, may take.
MCStatements ==
    {AddKey(a1, k2, k1, "ok"), AddKey(a2, k2, k2, "none")}
      \cup {m \in KeyMessage : /\ m.action = "RevokeKey" /\ m.actor = a1 /\ m.signer = k1
                               /\ m.public_key = k2 /\ m.symmetric_keys \in {"ok", "bad"}}
      \cup {m \in MoveIdentityMessage : m.old_actor # m.new_actor}
      \cup {m \in BurnDownMessage : m.actor = a1 /\ m.operator = a1 /\ m.signer = k1 /\ m.otp}
      \cup {m \in FireproofMessage : m.actor = a1 /\ m.signer = k1}
      \cup {m \in AddAuxDataMessage : m.actor = a1 /\ m.signer = k1}
      \cup [action : {"RevokeAuxData"}, actor : {a1}, aux_id : {1}, signer : {k1}, time : {t1}]

\* Enrolments and burns: enough for a burn to miss what is being committed.
MCShred ==
    {AddKey(a1, k2, k1, "ok")}
      \cup {m \in BurnDownMessage : m.actor = a1 /\ m.operator = a1 /\ m.signer = k1 /\ m.otp}
=============================================================================
