---------------------------- MODULE ActorKeyCache ----------------------------
(***************************************************************************)
(* The keys of remote actors, which the ActivityPub inbox verifies HTTP    *)
(* signatures with.  A request whose keyId is not in the cache fetches the *)
(* actor's document; requests for one keyId fetch side by side.  Nothing   *)
(* ever leaves the cache but with the process.                             *)
(***************************************************************************)
EXTENDS Naturals

CONSTANTS
    Ids,        \* keyIds: URLs of actor documents
    NoId,
    Requests,   \* goroutines that serve an ActivityPub request
    MaxVersions \* BOUND: keys one actor publishes

ASSUME ConstantsAssumption ==
    /\ NoId \notin Ids
    /\ MaxVersions \in Nat

VARIABLES
    latest,   \* keys each actor has had so far, numbered from 1
    document, \* the key in the actor's document, None if it serves none that decodes
    served,   \* history: the keys the document has named since the server started
    cache,    \* actorKeyCache
    req       \* what each goroutine does

vars == <<latest, document, served, cache, req>>

Key == [id : Ids, version : 1..MaxVersions]
None == [id |-> NoId, version |-> 0]
KeyOrNone == Key \cup {None}

Idle == [at |-> "idle", id |-> NoId, signer |-> None, key |-> None]

Init ==
    /\ latest = [id \in Ids |-> 0]
    /\ document = [id \in Ids |-> None]
    /\ served = [id \in Ids |-> {}]
    /\ cache = [id \in Ids |-> None]
    /\ req = [r \in Requests |-> Idle]

-----------------------------------------------------------------------------
(* The actors' own servers.                                                *)

\* The document names the actor's latest key.
Name(id) ==
    LET key == [id |-> id, version |-> latest'[id]] IN
      /\ document' = [document EXCEPT ![id] = key]
      /\ served' = [served EXCEPT ![id] = @ \cup {key}]
      /\ UNCHANGED <<cache, req>>

\* The actor starts to use another key.
Publish(id) ==
    /\ latest[id] < MaxVersions
    /\ latest' = [latest EXCEPT ![id] = @ + 1]
    /\ Name(id)

\* The document goes away, or names no key that decodes, and comes back.
Withdraw(id) ==
    /\ document[id] # None
    /\ document' = [document EXCEPT ![id] = None]
    /\ UNCHANGED <<latest, served, cache, req>>

Return(id) ==
    /\ document[id] = None /\ latest[id] > 0
    /\ latest' = latest
    /\ Name(id)

\* The document is read at the actor's server; its answer is on the way.
RemoteAnswers(r) ==
    /\ req[r].at = "fetching"
    /\ req' = [req EXCEPT ![r].at = "answered", ![r].key = document[req[r].id]]
    /\ UNCHANGED <<latest, document, served, cache>>

-----------------------------------------------------------------------------
(* handleProtocolMessage up to the verified signature.                     *)

\* Signatures that may come with a keyId: by any key an actor has had, or by another.
Signers == (UNION {[id : {id}, version : 1..latest[id]] : id \in Ids}) \cup {None}

Arrive(r, id, signer) ==
    /\ req[r].at = "idle"
    /\ req' = [req EXCEPT ![r] = [Idle EXCEPT !.at = "arrived", !.id = id, !.signer = signer]]
    /\ UNCHANGED <<latest, document, served, cache>>

Load(r) ==
    /\ req[r].at = "arrived"
    /\ cache[req[r].id] # None
    /\ req' = [req EXCEPT ![r].at = "verify", ![r].key = cache[req[r].id]]
    /\ UNCHANGED <<latest, document, served, cache>>

\* A cached key is fetched again all the same.
Fetch_mut(r) ==
    /\ req[r].at = "arrived"
    /\ req' = [req EXCEPT ![r].at = "fetching"]
    /\ UNCHANGED <<latest, document, served, cache>>

Fetch(r) ==
    /\ req[r].at = "arrived"
    /\ cache[req[r].id] = None
    /\ req' = [req EXCEPT ![r].at = "fetching"]
    /\ UNCHANGED <<latest, document, served, cache>>

\* 403, and nothing is kept.
Forbid(r) ==
    /\ req' = [req EXCEPT ![r] = Idle]
    /\ UNCHANGED <<latest, document, served, cache>>

\* ValidateURL turns the keyId down: its form, its host, or what the host resolves to,
\* which may be another address, or none, the next time.
InvalidURL(r) ==
    /\ req[r].at = "arrived"
    /\ cache[req[r].id] = None
    /\ Forbid(r)

\* The deadline is for the answer's header only.
Timeout_mut(r) == req[r].at = "answered" /\ req[r].key = None /\ Forbid(r)

\* context.WithTimeout covers the request and the body.
Timeout(r) == req[r].at \in {"fetching", "answered"} /\ Forbid(r)

\* The answer has no key.
NoKey(r) == req[r].at = "answered" /\ req[r].key = None /\ Forbid(r)

\* The key is cached for the host, which all its actors share.
Store_mut(r) ==
    /\ req[r].at = "answered"
    /\ req[r].key # None
    /\ cache' = [id \in Ids |-> req[r].key]
    /\ req' = [req EXCEPT ![r].at = "verify"]
    /\ UNCHANGED <<latest, document, served>>

\* The last of several fetches to get here has its key kept.
Store(r) ==
    /\ req[r].at = "answered"
    /\ req[r].key # None
    /\ cache' = [cache EXCEPT ![req[r].id] = req[r].key]
    /\ req' = [req EXCEPT ![r].at = "verify"]
    /\ UNCHANGED <<latest, document, served>>

\* A request turned down is left in a state nothing leads out of.
WrongSignature_mut(r) ==
    /\ req[r].at = "verify"
    /\ req[r].signer # req[r].key
    /\ req' = [req EXCEPT ![r] = [Idle EXCEPT !.at = "rejected"]]
    /\ UNCHANGED <<latest, document, served, cache>>

Verified(r) ==
    /\ req[r].at = "verify"
    /\ req[r].signer = req[r].key
    /\ req' = [req EXCEPT ![r].at = "accepted"]
    /\ UNCHANGED <<latest, document, served, cache>>

WrongSignature(r) ==
    /\ req[r].at = "verify"
    /\ req[r].signer # req[r].key
    /\ Forbid(r)

\* The message went to its handler, PKDServer's business, which has returned; it may
\* wait for the SigSum log for ever.
Handle(r) == req[r].at = "accepted" /\ Forbid(r)

\* A new process, an empty cache.
Restart ==
    /\ cache' = [id \in Ids |-> None]
    /\ req' = [r \in Requests |-> Idle]
    /\ served' = [id \in Ids |-> {document[id]} \ {None}]
    /\ UNCHANGED <<latest, document>>

-----------------------------------------------------------------------------
Serve(r) ==
    \/ Load(r) \/ Fetch(r) \/ InvalidURL(r)
    \/ Timeout(r) \/ NoKey(r) \/ Store(r)
    \/ Verified(r) \/ WrongSignature(r)

Next ==
    \/ \E id \in Ids : Publish(id) \/ Withdraw(id) \/ Return(id)
    \/ \E r \in Requests :
          \/ RemoteAnswers(r)
          \/ Serve(r) \/ Handle(r)
          \/ \E id \in Ids , signer \in Signers : Arrive(r, id, signer)
    \/ Restart

\* Goroutines run and deadlines expire; actors, remote servers and handlers owe nothing.
Spec == Init /\ [][Next]_vars /\ \A r \in Requests : WF_vars(Serve(r))

-----------------------------------------------------------------------------
TypeOK ==
    /\ latest \in [Ids -> 0..MaxVersions]
    /\ document \in [Ids -> KeyOrNone]
    /\ served \in [Ids -> SUBSET Key]
    /\ cache \in [Ids -> KeyOrNone]
    /\ req \in [Requests ->
         [at : {"idle", "arrived", "fetching", "answered", "verify", "accepted"},
          id : Ids \cup {NoId}, signer : KeyOrNone, key : KeyOrNone]]

\* A request passes only if it is signed with a key its own actor's document has named
\* since this process started, whichever of several answers came first and whatever was
\* cached (http_signature_helpers.go:25, 85): not another actor's key, and after a
\* restart none that was given up before it.
AcceptedWasServed ==
    \A r \in Requests : req[r].at = "accepted" => req[r].signer \in served[req[r].id]

\* No fetch for id is under way and its key is known.
Settled(id) ==
    /\ cache[id] # None
    /\ \A r \in Requests : req[r].at \in {"fetching", "answered"} => req[r].id # id

\* "Stores actor public keys to avoid re-fetching them on every request"
\* (http_signature_helpers.go:19): once a key is stored and the fetches that overlapped
\* with its own are over, the actor is asked no more and the key stays, also when the
\* actor has long replaced it, until the process ends.
SettledStays ==
    [][\A id \in Ids : Settled(id) =>
          \/ Settled(id)' /\ cache'[id] = cache[id]
          \/ \A other \in Ids : cache'[other] = None]_vars

\* Every signature is decided: the request is turned down or goes on to its handler,
\* and no remote server keeps a goroutine for ever, because the five seconds cover the
\* body, too (http_signature_helpers.go:37).  Of the handler nothing is claimed.
SignaturesDecided == \A r \in Requests : req[r].at # "idle" ~> req[r].at \in {"idle", "accepted"}
=============================================================================
