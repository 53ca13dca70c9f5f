------------------------- MODULE PKDServerDirectory -------------------------
(***************************************************************************)
(* PKDServer implements Directory: the rows of a name, counted per key,    *)
(* are the account of that name, and the logged requests in flight are the *)
(* published messages still pending.                                       *)
(***************************************************************************)
EXTENDS PKDServer

CONSTANT Absent   \* no actor row of that name

accounts ==
    [a \in Actors |->
        IF ActorExists(a)
        THEN [keys      |-> [k \in Keys |-> Cardinality(FindKeyToRevoke(a, k))],
              fireproof |-> actors[ActorID(actors, a)].is_fireproof]
        ELSE Absent]

pending == {root[s] : s \in {t \in Slots : pc[t] = "logged"}}

D == INSTANCE Directory WITH log <- log, pending <- pending, accounts <- accounts

ASSUME AbsentAssumption == Absent \notin D!Account

\* Concurrent requests, faults and crashes included, act on the directory one
\* whole published message at a time, each at most once: the transactions of
\* domain/service.go, seen from outside.
ImplementsDirectory == D!Spec

\* The accounts of an auditor who has read the first n entries of the public log.
Replay[n \in 0..Len(log)] ==
    IF n = 0 THEN D!Empty ELSE D!Effect(Replay[n - 1], log[n])

\* An auditor who replays the public log from the start obtains the accounts the
\* server serves ("a verifiable and auditable log of all key-related events",
\* docs/README.md:19), whenever no request is in flight.
ReplayMatches ==
    (\A s \in Slots : pc[s] = "idle") => accounts = Replay[Len(log)]
=============================================================================
