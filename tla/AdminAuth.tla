------------------------------ MODULE AdminAuth ------------------------------
(***************************************************************************)
(* The administrator's tokens and the key files they hang on.  Three kinds *)
(* of process open a key file, each through a key manager of its own: the  *)
(* server when it starts, pkd-admin token mint, and a request to /admin    *)
(* that carries a key password.  The server's file is key_file.path of its *)
(* configuration; mint opens the one its flag --key-file names, which need *)
(* not be the server's.  NewFileKeyManager looks at the file and then, if  *)
(* there is no key, truncates it and writes one; nobody locks it.  The key *)
(* is read from the file again for every token.                            *)
(***************************************************************************)
EXTENDS Integers, Sequences, FiniteSets

CONSTANTS
    Server,         \* the server process
    Minters,        \* runs of pkd-admin token mint
    Requests,       \* goroutines that serve one caller of the token service
    Passwords,      \* key passwords in flags, headers and configuration
    NoPassword,     \* the empty one: the key is stored in plain
    ServerPassword, \* server.key_file.password
    Boots,          \* how the server may start: "main", or "router" without main's
                    \* configuration, as the tests do
    Paths,          \* the paths a configuration or a flag names
    ServerPath,     \* server.key_file.path
    Files,          \* what the paths may name at first
    Tables,         \* used_refresh_tokens: "absent", or there and "unique" or not
    Early,          \* whether pkd-admin may run before the server first came up
    MaxKeys,        \* BOUND: keys ever generated
    MaxPairs        \* BOUND: token pairs ever issued

FirstContents == {"nowhere", "missing", "empty", "config"}

ASSUME ConstantsAssumption ==
    /\ Server \notin Minters \cup Requests
    /\ Minters \cap Requests = {}
    /\ {NoPassword, ServerPassword} \subseteq Passwords
    /\ Boots \subseteq {"main", "router"}
    /\ ServerPath \in Paths
    /\ Files \subseteq [Paths -> FirstContents]
    /\ Tables \subseteq {"absent", "plain", "unique"}
    /\ Early \subseteq BOOLEAN
    /\ MaxKeys \in Nat /\ MaxPairs \in Nat

VARIABLES
    file,    \* content of each key file
    keys,    \* keys generated so far
    pairs,   \* token pairs issued, a refresh token's jti being its index
    used,    \* table used_refresh_tokens
    boot,    \* how this deployment starts its server
    table,   \* the state of used_refresh_tokens in its database
    early,   \* pkd-admin does not wait for the server
    started, \* the server has come up before
    run      \* what each process does

deployment == <<boot, table, early>>
vars == <<file, keys, pairs, used, deployment, started, run>>

Processes == {Server} \cup Minters \cup Requests

Content == [kind : FirstContents \cup {"mixed", "key"}, key : Nat, password : Passwords]

NoKey(kind) == [kind |-> kind, key |-> 0, password |-> NoPassword]
KeyFile(k, password) == [kind |-> "key", key |-> k, password |-> password]

\* The keys its two tokens were made with, and the pair it was exchanged for, or 0.
Pair == [access : Nat, refresh : Nat, from : Nat]

Idle == [at |-> "idle", path |-> ServerPath, password |-> NoPassword, key |-> 0,
         pair |-> 0, token |-> "access"]

Init ==
    /\ file \in {[f \in Paths |-> NoKey(kind[f])] : kind \in Files}
    /\ keys = 0
    /\ pairs = <<>>
    /\ used = {}
    /\ boot \in Boots
    /\ table \in Tables
    /\ early \in Early
    /\ started = FALSE
    /\ run = [p \in Processes |-> Idle]

Up == run[Server].at = "up"

Go(p, at) == run' = [run EXCEPT ![p].at = at]
Stop(p) == run' = [run EXCEPT ![p] = Idle]

-----------------------------------------------------------------------------
(* A key file.                                                             *)

\* An empty file counts as a key.
HasNoKey_mut(f) == file[f].kind \in {"missing", "nowhere"}

\* os.Stat finds nothing, or nothing in it.  The path "" does not exist either.
HasNoKey(f) == file[f].kind \in {"missing", "nowhere", "empty"}

\* A key the password does not open is taken for none.
Stat_mut(p) ==
    /\ run[p].at = "stat"
    /\ Go(p, IF HasNoKey(run[p].path) \/ file[run[p].path].password # run[p].password THEN "create" ELSE "opened")
    /\ UNCHANGED <<file, keys, pairs, used, deployment, started>>

\* Stat, in NewFileKeyManager.
Stat(p) ==
    /\ run[p].at = "stat"
    /\ Go(p, IF HasNoKey(run[p].path) THEN "create" ELSE "opened")
    /\ UNCHANGED <<file, keys, pairs, used, deployment, started>>

\* A key is generated and os.WriteFile opens the file, which truncates it.
Truncate(p) ==
    /\ run[p].at = "create"
    /\ file[run[p].path].kind # "nowhere"
    /\ keys < MaxKeys
    /\ keys' = keys + 1
    /\ file' = [file EXCEPT ![run[p].path] = NoKey("empty")]
    /\ run' = [run EXCEPT ![p].at = "write", ![p].key = keys']
    /\ UNCHANGED <<pairs, used, deployment, started>>

\* No file can be created at the path "": mint gives up, the server dies.
CreateFails(p) ==
    /\ run[p].at = "create"
    /\ file[run[p].path].kind = "nowhere"
    /\ Stop(p)
    /\ UNCHANGED <<file, keys, pairs, used, deployment, started>>

\* An encrypted key is longer than a plain one, whose write leaves its tail behind.
Overwritten(old, new) ==
    IF /\ new.password = NoPassword
       /\ old.kind = "mixed" \/ (old.kind = "key" /\ old.password # NoPassword)
    THEN NoKey("mixed") ELSE new

Write(p) ==
    /\ run[p].at = "write"
    /\ file' = [file EXCEPT ![run[p].path] =
                   Overwritten(@, KeyFile(run[p].key, run[p].password))]
    /\ run' = [run EXCEPT ![p].at = "opened", ![p].key = 0]
    /\ UNCHANGED <<keys, pairs, used, deployment, started>>

\* The keys GetPasetoSymmetricKey may return for a path and a password: one, or an error.
GetPasetoSymmetricKey(f, password) ==
    IF file[f].kind = "key" /\ file[f].password = password THEN {file[f].key} ELSE {}

-----------------------------------------------------------------------------
(* The server and pkd-admin.                                               *)

\* config.LoadAndValidate wants the server's signing keys in the same file, or no
\* file; NewRouter alone asks for neither.
ConfigurationLoads == boot = "main" => file[ServerPath].kind \in {"nowhere", "config"}

StartServer ==
    /\ run[Server].at = "idle"
    /\ ConfigurationLoads
    /\ run' = [run EXCEPT ![Server].at = "stat", ![Server].password = ServerPassword]
    /\ UNCHANGED <<file, keys, pairs, used, deployment, started>>

Listen ==
    /\ run[Server].at = "opened"
    /\ Go(Server, "up")
    /\ started' = TRUE
    /\ UNCHANGED <<file, keys, pairs, used, deployment>>

\* The flags --key-file and --password.
StartMint(p, f, password) ==
    /\ p \in Minters
    /\ run[p].at = "idle"
    /\ early \/ started
    /\ run' = [run EXCEPT ![p].at = "stat", ![p].path = f, ![p].password = password]
    /\ UNCHANGED <<file, keys, pairs, used, deployment, started>>

BeginPair(p) ==
    /\ p \in Minters
    /\ run[p].at = "opened"
    /\ Go(p, "access")
    /\ UNCHANGED <<file, keys, pairs, used, deployment, started>>

\* A process is killed; with the server die its requests.
Kill(p) ==
    /\ p \notin Requests
    /\ run[p].at # "idle"
    /\ run' = [q \in Processes |->
          IF q = p \/ (p = Server /\ q \in Requests) THEN Idle ELSE run[q]]
    /\ UNCHANGED <<file, keys, pairs, used, deployment, started>>

-----------------------------------------------------------------------------
(* Token pairs.  NewPair reads the key twice, once per token.  Their times  *)
(* of expiry are left out: a token may be found too old at any time.        *)

\* BOUND: pairs issued, and those that processes are about to issue.
PairsHaveRoom ==
    Len(pairs) + Cardinality({p \in Processes : run[p].at = "refresh"}) < MaxPairs

NewAccessToken(p) ==
    /\ run[p].at = "access"
    /\ PairsHaveRoom
    /\ \E k \in GetPasetoSymmetricKey(run[p].path, run[p].password) :
          run' = [run EXCEPT ![p].at = "refresh", ![p].key = k]
    /\ UNCHANGED <<file, keys, pairs, used, deployment, started>>

NewRefreshToken(p) ==
    /\ run[p].at = "refresh"
    /\ \E k \in GetPasetoSymmetricKey(run[p].path, run[p].password) :
          pairs' = Append(pairs,
              [access |-> run[p].key, refresh |-> k, from |-> run[p].pair])
    /\ Stop(p)
    /\ UNCHANGED <<file, keys, used, deployment, started>>

\* The key cannot be read: no pair, and a refresh token that was marked is lost.
NewPairFails(p) ==
    /\ run[p].at \in {"access", "refresh"}
    /\ GetPasetoSymmetricKey(run[p].path, run[p].password) = {}
    /\ Stop(p)
    /\ UNCHANGED <<file, keys, pairs, used, deployment, started>>

-----------------------------------------------------------------------------
(* The middleware in front of /admin, and the refresh no route calls yet.  *)

\* The key of the token a request carries.
Carried(p) == IF run[p].token = "access" THEN pairs[run[p].pair].access
                                         ELSE pairs[run[p].pair].refresh

\* validateToken decrypts it with the key in the file.
Valid(p) == Carried(p) \in GetPasetoSymmetricKey(run[p].path, run[p].password)

\* A request that carries a token of pair i, and perhaps a key password in its header,
\* which makes a key manager for this request alone.
StartRequest(p, i, token, password) ==
    /\ p \in Requests
    /\ Up
    /\ run[p].at = "idle"
    /\ run' = [run EXCEPT ![p] =
          [Idle EXCEPT !.at = IF password = NoPassword THEN "opened" ELSE "stat",
                       !.password = IF password = NoPassword THEN ServerPassword ELSE password,
                       !.pair = i, !.token = token]]
    /\ UNCHANGED <<file, keys, pairs, used, deployment, started>>

\* A good access token: the administrator's request goes through to its handler.
Admit(p) ==
    /\ p \in Requests
    /\ run[p].at = "opened"
    /\ run[p].token = "access"
    /\ Valid(p)
    /\ Stop(p)
    /\ UNCHANGED <<file, keys, pairs, used, deployment, started>>

\* 401: another key, too late, or a refresh token.
Reject(p) ==
    /\ p \in Requests
    /\ run[p].at = "opened"
    /\ Stop(p)
    /\ UNCHANGED <<file, keys, pairs, used, deployment, started>>

\* Refresh is called with the refresh token of pair i.
StartRefresh(p, i) ==
    /\ p \in Requests
    /\ Up
    /\ run[p].at = "idle"
    /\ run' = [run EXCEPT ![p] = [Idle EXCEPT !.at = "refreshing", !.pair = i, !.token = "refresh",
                                              !.password = ServerPassword]]
    /\ UNCHANGED <<file, keys, pairs, used, deployment, started>>

\* The SELECT sees no use of the token.
ValidateRefreshToken(p) ==
    /\ run[p].at = "refreshing"
    /\ Valid(p)
    /\ table # "absent"
    /\ run[p].pair \notin used
    /\ Go(p, "mark")
    /\ UNCHANGED <<file, keys, pairs, used, deployment, started>>

\* INSERT ... ON CONFLICT DO NOTHING.
MarkUsed_mut(p) ==
    /\ run[p].at = "mark"
    /\ used' = used \cup {run[p].pair}
    /\ Go(p, "access")
    /\ UNCHANGED <<file, keys, pairs, deployment, started>>

\* The token about to be issued is marked, not the one presented.
MarkUsed_mut_new(p) ==
    /\ run[p].at = "mark"
    /\ used' = used \cup {Len(pairs) + 1}
    /\ Go(p, "access")
    /\ UNCHANGED <<file, keys, pairs, deployment, started>>

\* The INSERT, which a UNIQUE column turns down the second time.
MarkUsed(p) ==
    /\ run[p].at = "mark"
    /\ table = "unique" => run[p].pair \notin used
    /\ used' = used \cup {run[p].pair}
    /\ Go(p, "access")
    /\ UNCHANGED <<file, keys, pairs, deployment, started>>

\* The token is refused, or a statement fails, the INSERT perhaps after it took effect.
RefreshFails(p) ==
    /\ run[p].at \in {"refreshing", "mark"}
    /\ \/ used' = used
       \/ run[p].at = "mark" /\ used' = used \cup {run[p].pair}
    /\ Stop(p)
    /\ UNCHANGED <<file, keys, pairs, deployment, started>>

-----------------------------------------------------------------------------
OpenKeyFile(p) == Stat(p) \/ Truncate(p) \/ CreateFails(p) \/ Write(p)

IssuePair(p) == NewAccessToken(p) \/ NewRefreshToken(p) \/ NewPairFails(p)

Request(p) ==
    \/ \E i \in DOMAIN pairs :
          \/ \E token \in {"access", "refresh"}, password \in Passwords :
                StartRequest(p, i, token, password)
          \/ StartRefresh(p, i)
    \/ Admit(p) \/ Reject(p)
    \/ ValidateRefreshToken(p) \/ MarkUsed(p) \/ RefreshFails(p)

Next ==
    \/ StartServer \/ Listen
    \/ \E p \in Processes : OpenKeyFile(p) \/ IssuePair(p) \/ Request(p) \/ Kill(p)
    \/ \E p \in Minters :
         BeginPair(p) \/ \E f \in Paths, password \in Passwords : StartMint(p, f, password)

Spec == Init /\ [][Next]_vars

-----------------------------------------------------------------------------
(* What holds of the files and of the tokens made with them.               *)

TypeOK ==
    /\ file \in [Paths -> Content]
    /\ keys \in 0..MaxKeys
    /\ pairs \in Seq(Pair)
    /\ used \subseteq DOMAIN pairs
    /\ boot \in {"main", "router"}
    /\ table \in {"absent", "plain", "unique"}
    /\ early \in BOOLEAN
    /\ started \in BOOLEAN
    /\ run \in [Processes ->
         [at : {"idle", "stat", "create", "write", "opened", "up", "access", "refresh",
                "refreshing", "mark"},
          path : Paths, password : Passwords, key : Nat, pair : 0..Len(pairs),
          token : {"access", "refresh"}]]

\* A key, once written, is the key (NewFileKeyManager creates one "if the key file does
\* not exist or is empty", key_manager.go:30): however starts, mints, password headers
\* and kills interleave, no process replaces it.  The one exception are processes that
\* found no key in the file before it was written and are still about to write theirs.
\* In the server's own file there are none where pkd-admin waits for the server.
KeyStable ==
    [][\A f \in Paths :
          /\ file[f].kind = "key"
          /\ early \/ f # ServerPath =>
                \A p \in Processes : run[p].path = f => run[p].at \notin {"create", "write"}
          => file'[f] = file[f]]_vars

\* A server that came up can read its key, also after one that was killed between the
\* truncation and the write of os.WriteFile (key_manager.go:125) -- unless its file holds
\* the configuration's keys, the case of TokenAuthWorks, or pkd-admin came first.
RunningServerHasKey ==
    Up /\ ~early /\ file[ServerPath].kind # "config" => GetPasetoSymmetricKey(ServerPath, ServerPassword) # {}

\* However many requests present a refresh token at once, and wherever one of them
\* fails, its successor pair is never there without the token being marked, so that
\* every later SELECT refuses it; and it is one pair where the table's jti is UNIQUE
\* (token_service.go:81).  Where it is not, only requests that were past the SELECT
\* before the first INSERT get one each.
RefreshOnce ==
    /\ \A i \in DOMAIN pairs : pairs[i].from # 0 => pairs[i].from \in used /\ table # "absent"
    /\ table = "unique" =>
         \A i, j \in DOMAIN pairs : pairs[i].from = pairs[j].from => i = j \/ pairs[i].from = 0

-----------------------------------------------------------------------------
(* What the documents say and the code does not do.                        *)

\* "So we also enable token-based authentication for remote administrative features"
\* (docs/README.md:176): a server that runs has a key to check tokens with.
TokenAuthWorks == Up => GetPasetoSymmetricKey(ServerPath, ServerPassword) # {}
=============================================================================
