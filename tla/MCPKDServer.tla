----------------------------- MODULE MCPKDServer -----------------------------
(* Small instances of PKDServer: the messages clients send in each run.        *)
EXTENDS PKDServerDirectory, TLC

\* Key messages of every kind, on behalf of every actor.
MCKeys == KeyMessage \cup {m \in BurnDownMessage : m.otp}

\* Accounts that move, change their fireproof flag, burn and carry auxiliary data.
MCAccounts ==
    {m \in KeyMessage : m.symmetric_keys = "none"}
        \cup {m \in MoveIdentityMessage : m.old_actor # m.new_actor}
        \cup {m \in BurnDownMessage : m.otp}
        \cup FireproofMessage
        \cup {m \in AddAuxDataMessage : m.valid}
        \cup [action : {"RevokeAuxData"}, actor : Actors, aux_id : 1..2,
              signer : Signers, time : Times]

\* Every action an auditor can follow, with what the service turns down after
\* logging it.  Symmetric keys are not published, so an auditor cannot tell a
\* message refused for them: none is sent here.
MCAudit ==
    {m \in KeyMessage : m.symmetric_keys = "none"}
        \cup MoveIdentityMessage \cup BurnDownMessage \cup FireproofMessage
        \cup AddAuxDataMessage
        \cup [action : {"RevokeAuxData"}, actor : Actors, aux_id : {1},
              signer : Signers, time : Times]

\* Key messages without symmetric keys: enough for the races between requests.
MCPlainKeys == {m \in KeyMessage : m.symmetric_keys = "none"}

\* Actors, keys and slots are interchangeable where no constant tells them apart.
MCSymmetry == Permutations(Actors) \cup Permutations(Keys \ Malformed) \cup Permutations(Slots)
=============================================================================
