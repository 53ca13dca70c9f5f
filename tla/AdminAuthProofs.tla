--------------------------- MODULE AdminAuthProofs ---------------------------
(***************************************************************************)
(* The key files and the tokens, for any number of administrators,         *)
(* requests, paths and passwords, and any number of keys and pairs.        *)
(***************************************************************************)
EXTENDS AdminAuth, TLAPS

\* What one process does.
State ==
    [at : {"idle", "stat", "create", "write", "opened", "up", "access", "refresh",
           "refreshing", "mark"},
     path : Paths, password : Passwords, key : Nat, pair : 0..Len(pairs),
     token : {"access", "refresh"}]

\* A request works on a pair that was issued, everybody else on none; only
\* pkd-admin opens another file than the server's.
PairsKnown ==
    /\ \A p \in Processes \ Requests :
         run[p].pair = 0 /\ run[p].at \notin {"refreshing", "mark"}
    /\ \A p \in Requests : run[p].at # "idle" => run[p].pair \in DOMAIN pairs
    /\ \A p \in Processes \ Minters : run[p].path = ServerPath

(* Where pkd-admin waits for the server, the server is alone until it has   *)
(* come up once: it makes the key, under its own password, and nobody after *)
(* it finds the file without one.                                           *)

ServerFirst ==
    /\ file[ServerPath].kind # "mixed"
    /\ started \/ run[Server].at \in {"opened", "up"} =>
         file[ServerPath].kind \in {"key", "config"}
    /\ run[Server].at = "up" => started
    /\ run[Server].at # "idle" => run[Server].password = ServerPassword
    /\ file[ServerPath].kind = "key" => file[ServerPath].password = ServerPassword

AloneAtFirst(p) ==
    /\ p # Server /\ run[p].at # "idle" => started
    /\ run[p].path = ServerPath /\ run[p].at = "create" =>
         p = Server /\ ~started /\ HasNoKey(ServerPath)
    /\ run[p].path = ServerPath /\ run[p].at = "write" =>
         p = Server /\ ~started /\ file[ServerPath].kind = "empty"

OneKey == ~early => ServerFirst /\ \A p \in Processes : AloneAtFirst(p)

(* Whoever got through the INSERT with a refresh token has marked it, and   *)
(* where jti is UNIQUE is the only one, no pair having come of it yet.      *)
Redeems(p) == run[p].at \in {"access", "refresh"} /\ run[p].pair # 0

RedeemsAlone(p) ==
    Redeems(p) =>
        /\ \A i \in DOMAIN pairs : pairs[i].from # run[p].pair
        /\ \A q \in Processes : Redeems(q) /\ run[q].pair = run[p].pair => p = q

OneUse ==
    table = "unique" =>
        /\ \A i, j \in DOMAIN pairs : pairs[i].from = pairs[j].from => i = j \/ pairs[i].from = 0
        /\ \A p \in Processes : RedeemsAlone(p)

Marked ==
    /\ \A i \in DOMAIN pairs : pairs[i].from # 0 => pairs[i].from \in used /\ table # "absent"
    /\ \A p \in Processes : Redeems(p) => run[p].pair \in used /\ table # "absent"
    /\ \A p \in Processes : run[p].at = "mark" => table # "absent"

Inv == TypeOK /\ PairsKnown /\ OneKey /\ OneUse /\ Marked

-----------------------------------------------------------------------------
(* Processes.                                                               *)

LEMMA Kinds ==
    /\ Server \in Processes /\ Server \notin Requests /\ Server \notin Minters
    /\ Requests \subseteq Processes /\ Minters \subseteq Processes
    /\ Minters \cap Requests = {}
BY ConstantsAssumption DEF Processes

LEMMA RunTyped ==
    ASSUME TypeOK
    PROVE  /\ run \in [Processes -> State]
           /\ \A p \in Processes : run[p] \in State
           /\ DOMAIN pairs = 1..Len(pairs) /\ Len(pairs) \in Nat
           /\ 0 \notin DOMAIN pairs
           /\ keys \in Nat
BY ConstantsAssumption DEF TypeOK, State

LEMMA IdleState ==
    ASSUME TypeOK
    PROVE  Idle \in State /\ Idle.at = "idle" /\ Idle.pair = 0 /\ Idle.path = ServerPath
BY RunTyped, ConstantsAssumption DEF Idle, State

LEMMA OneProcess ==
    ASSUME NEW p \in Processes, NEW e \in State, run \in [Processes -> State],
           run' = [run EXCEPT ![p] = e]
    PROVE  /\ run' \in [Processes -> State]
           /\ run'[p] = e
           /\ \A q \in Processes \ {p} : run'[q] = run[q]
OBVIOUS

\* The process goes to another place, and keeps what else it carries.
LEMMA GoTo ==
    ASSUME TypeOK, NEW p \in Processes,
           NEW at \in {"idle", "stat", "create", "write", "opened", "up", "access", "refresh",
                       "refreshing", "mark"},
           Go(p, at)
    PROVE  \E e \in State :
             /\ run' = [run EXCEPT ![p] = e]
             /\ e.at = at /\ e.password = run[p].password /\ e.key = run[p].key
             /\ e.pair = run[p].pair /\ e.path = run[p].path
<1>1. run[p] \in State /\ run \in [Processes -> State]
  BY RunTyped
<1>2. run' = [run EXCEPT ![p].at = at]
  BY DEF Go
<1> DEFINE e == [run[p] EXCEPT !.at = at]
<1>3. e \in State
  BY <1>1 DEF State
<1>4. run' = [run EXCEPT ![p] = e]
  BY <1>1, <1>2
<1>5. /\ e.at = at /\ e.password = run[p].password /\ e.key = run[p].key
      /\ e.pair = run[p].pair /\ e.path = run[p].path
  BY <1>1 DEF State
<1> QED
  BY <1>3, <1>4, <1>5

-----------------------------------------------------------------------------
(* A step of one process that leaves the file, the pairs and the table of   *)
(* used tokens alone keeps the invariant if the process's next state does.  *)

Data == <<file, keys, pairs, used, boot, table, early>>

\* A process that starts to redeem a token carries on with the one it had.
RedeemsStill(p, e) ==
    e.at \in {"access", "refresh"} /\ e.pair # 0 => Redeems(p) /\ e.pair = run[p].pair

LEMMA MoveKeeps ==
    ASSUME Inv, NEW p \in Processes, NEW e \in State, run' = [run EXCEPT ![p] = e],
           UNCHANGED Data, started' \in BOOLEAN, started => started',
           p \notin Requests => e.pair = 0 /\ e.at \notin {"refreshing", "mark"},
           p \in Requests /\ e.at # "idle" => e.pair \in DOMAIN pairs,
           p \notin Minters => e.path = ServerPath,
           RedeemsStill(p, e),
           e.at = "mark" => table # "absent",
           started' => started \/ (p = Server /\ run[p].at = "opened"),
           p # Server /\ e.at # "idle" => started \/ early,
           e.at = "create" => HasNoKey(e.path),
           e.at # "write",
           e.at = "up" => started',
           e.at \in {"opened", "up"} => ~HasNoKey(ServerPath) \/ run[p].at = "opened" \/ p # Server,
           p = Server /\ e.at # "idle" => early \/ e.password = ServerPassword
    PROVE  Inv'
<1>1. /\ run \in [Processes -> State]
      /\ run' \in [Processes -> State]
      /\ run'[p] = e
      /\ \A q \in Processes \ {p} : run'[q] = run[q]
  BY RunTyped, OneProcess DEF Inv
<1>2. UNCHANGED <<file, keys, pairs, used, boot, table, early>>
  BY DEF Data
<1>3. TypeOK'
  BY <1>1, <1>2 DEF Inv, TypeOK, State
<1>4. PairsKnown'
  BY <1>1, <1>2, Kinds DEF Inv, PairsKnown
<1>5. OneKey'
  <2> SUFFICES ASSUME ~early PROVE ServerFirst' /\ \A q \in Processes : AloneAtFirst(q)'
    BY <1>2 DEF OneKey
  <2>1. ServerFirst /\ \A q \in Processes : AloneAtFirst(q)
    BY DEF Inv, OneKey
  <2>2. file[ServerPath].kind \in {"nowhere", "missing", "empty", "config", "mixed", "key"}
    BY ConstantsAssumption DEF Inv, TypeOK, Content, FirstContents
  <2>3. ~HasNoKey(ServerPath) => file[ServerPath].kind \in {"key", "config"}
    BY <2>1, <2>2 DEF HasNoKey, ServerFirst
  <2>4. ServerFirst'
    BY <1>1, <1>2, <2>1, <2>3, Kinds DEF ServerFirst
  <2>5. ASSUME NEW q \in Processes PROVE AloneAtFirst(q)'
    <3>1. e.at = "create" /\ e.path = ServerPath =>
            p = Server /\ ~started' /\ HasNoKey(ServerPath)
      BY <2>1 DEF ServerFirst, HasNoKey
    <3>2. q # p /\ run[q].path = ServerPath /\ run[q].at \in {"create", "write"} => ~started'
      BY <2>1, <2>5 DEF ServerFirst, HasNoKey, AloneAtFirst
    <3>3. AloneAtFirst(q) /\ AloneAtFirst(p)
      BY <2>1
    <3> QED
      BY <1>1, <1>2, <3>1, <3>2, <3>3 DEF AloneAtFirst, HasNoKey
  <2> QED
    BY <2>4, <2>5
<1>6. OneUse'
  <2>1. ASSUME table = "unique", NEW q \in Processes PROVE RedeemsAlone(q)'
    <3>1. \A r \in Processes : Redeems(r)' => Redeems(r) /\ run'[r].pair = run[r].pair
      BY <1>1 DEF RedeemsStill, Redeems
    <3>2. RedeemsAlone(q)
      BY <2>1 DEF Inv, OneUse
    <3> QED
      BY <1>2, <3>1, <3>2 DEF RedeemsAlone
  <2> QED
    BY <1>2, <2>1 DEF Inv, OneUse
<1>7. Marked'
  BY <1>1, <1>2 DEF Inv, Marked, RedeemsStill, Redeems
<1> QED
  BY <1>3, <1>4, <1>5, <1>6, <1>7 DEF Inv

\* A process that stops, whatever it was doing.
LEMMA StopKeeps ==
    ASSUME Inv, NEW p \in Processes, Stop(p), UNCHANGED <<Data, started>>
    PROVE  Inv'
<1>1. Idle \in State /\ Idle.at = "idle" /\ Idle.pair = 0 /\ Idle.path = ServerPath
  BY IdleState DEF Inv
<1>2. run' = [run EXCEPT ![p] = Idle] /\ started \in BOOLEAN
  BY DEF Stop, Inv, TypeOK
<1> HIDE DEF Idle
<1> QED
  BY <1>1, <1>2, MoveKeeps DEF RedeemsStill

LEMMA StatKeeps == ASSUME Inv, NEW p \in Processes, Stat(p) PROVE Inv'
<1> DEFINE at == IF HasNoKey(run[p].path) THEN "create" ELSE "opened"
<1>1. run[p].at = "stat" /\ Go(p, at) /\ UNCHANGED <<Data, started>>
  BY DEF Stat, Data, deployment
<1>2. PICK e \in State :
        /\ run' = [run EXCEPT ![p] = e]
        /\ e.at = at /\ e.password = run[p].password /\ e.key = run[p].key
        /\ e.pair = run[p].pair /\ e.path = run[p].path
  BY <1>1, GoTo DEF Inv
<1>3. /\ p \notin Requests => run[p].pair = 0
      /\ p \in Requests => run[p].pair \in DOMAIN pairs
      /\ p \notin Minters => run[p].path = ServerPath
  BY <1>1 DEF Inv, PairsKnown
<1>4. /\ p # Server => started \/ early
      /\ early \/ (p = Server => run[p].password = ServerPassword)
  BY <1>1 DEF Inv, OneKey, AloneAtFirst, ServerFirst
<1>5. /\ e.at \in {"create", "opened"} /\ started \in BOOLEAN
      /\ e.at = "create" => HasNoKey(e.path)
      /\ p = Server /\ e.at = "opened" => ~HasNoKey(ServerPath)
  BY <1>2, <1>3, Kinds DEF Inv, TypeOK
<1> HIDE DEF at
<1> QED
  BY <1>1, <1>2, <1>3, <1>4, <1>5, MoveKeeps DEF RedeemsStill

LEMMA StartServerKeeps == ASSUME Inv, StartServer PROVE Inv'
<1> DEFINE e == [run[Server] EXCEPT !.at = "stat", !.password = ServerPassword]
<1>1. run \in [Processes -> State] /\ run[Server] \in State /\ Server \in Processes
  BY RunTyped, Kinds DEF Inv
<1>2. /\ e \in State /\ e.at = "stat" /\ e.password = ServerPassword
      /\ e.pair = run[Server].pair /\ e.path = run[Server].path
  BY <1>1, ConstantsAssumption DEF State
<1>3. run' = [run EXCEPT ![Server] = e] /\ UNCHANGED <<Data, started>>
  BY <1>1 DEF StartServer, Data, deployment
<1>4. run[Server].pair = 0 /\ run[Server].path = ServerPath /\ started \in BOOLEAN
  BY <1>1, Kinds DEF Inv, PairsKnown, TypeOK
<1> HIDE DEF e
<1> QED
  BY <1>1, <1>2, <1>3, <1>4, Kinds, MoveKeeps DEF RedeemsStill

LEMMA ListenKeeps == ASSUME Inv, Listen PROVE Inv'
<1>1. run[Server].at = "opened" /\ Go(Server, "up") /\ started' = TRUE /\ UNCHANGED Data
  BY DEF Listen, Data, deployment
<1>2. PICK e \in State :
        /\ run' = [run EXCEPT ![Server] = e]
        /\ e.at = "up" /\ e.password = run[Server].password /\ e.key = run[Server].key
        /\ e.pair = run[Server].pair /\ e.path = run[Server].path
  BY <1>1, GoTo, Kinds DEF Inv
<1>3. run[Server].pair = 0 /\ run[Server].path = ServerPath
  BY Kinds DEF Inv, PairsKnown
<1>4. early \/ run[Server].password = ServerPassword
  BY <1>1 DEF Inv, OneKey, ServerFirst
<1> QED
  BY <1>1, <1>2, <1>3, <1>4, Kinds, MoveKeeps DEF RedeemsStill

LEMMA StartMintKeeps ==
    ASSUME Inv, NEW p \in Minters, NEW f \in Paths, NEW password \in Passwords,
           StartMint(p, f, password)
    PROVE  Inv'
<1> DEFINE e == [run[p] EXCEPT !.at = "stat", !.path = f, !.password = password]
<1>1. /\ run \in [Processes -> State] /\ run[p] \in State
      /\ p \in Processes /\ p \notin Requests /\ p # Server
  BY RunTyped, Kinds DEF Inv
<1>2. e \in State /\ e.at = "stat" /\ e.pair = run[p].pair
  BY <1>1 DEF State
<1>3. /\ run' = [run EXCEPT ![p] = e] /\ UNCHANGED <<Data, started>>
      /\ early \/ started
  BY <1>1 DEF StartMint, Data, deployment
<1>4. run[p].pair = 0 /\ started \in BOOLEAN
  BY <1>1 DEF Inv, PairsKnown, TypeOK
<1> HIDE DEF e
<1> QED
  BY <1>1, <1>2, <1>3, <1>4, MoveKeeps DEF RedeemsStill

LEMMA BeginPairKeeps == ASSUME Inv, NEW p \in Minters, BeginPair(p) PROVE Inv'
<1>1. p \in Processes /\ p \notin Requests /\ p # Server
  BY Kinds
<1>2. run[p].at = "opened" /\ Go(p, "access") /\ UNCHANGED <<Data, started>>
  BY DEF BeginPair, Data, deployment
<1>3. PICK e \in State :
        /\ run' = [run EXCEPT ![p] = e]
        /\ e.at = "access" /\ e.password = run[p].password /\ e.key = run[p].key
        /\ e.pair = run[p].pair /\ e.path = run[p].path
  BY <1>1, <1>2, GoTo DEF Inv
<1>4. run[p].pair = 0 /\ started \in BOOLEAN
  BY <1>1 DEF Inv, PairsKnown, TypeOK
<1>5. early \/ started
  BY <1>1, <1>2 DEF Inv, OneKey, AloneAtFirst
<1> QED
  BY <1>1, <1>2, <1>3, <1>4, <1>5, MoveKeeps DEF RedeemsStill

LEMMA NewAccessTokenKeeps == ASSUME Inv, NEW p \in Processes, NewAccessToken(p) PROVE Inv'
<1>1. PICK k \in GetPasetoSymmetricKey(run[p].path, run[p].password) :
        run' = [run EXCEPT ![p].at = "refresh", ![p].key = k]
  BY DEF NewAccessToken
<1>2. run[p].at = "access" /\ UNCHANGED <<Data, started>>
  BY DEF NewAccessToken, Data, deployment
<1>3. k \in Nat
  <2>1. run[p].path \in Paths
    BY RunTyped DEF Inv, State
  <2>2. file[run[p].path].key \in Nat
    BY <2>1 DEF Inv, TypeOK, Content
  <2> QED
    BY <1>1, <2>2 DEF GetPasetoSymmetricKey
<1> DEFINE e == [run[p] EXCEPT !.at = "refresh", !.key = k]
<1>4. run \in [Processes -> State] /\ run[p] \in State /\ started \in BOOLEAN
  BY RunTyped DEF Inv, TypeOK
<1>5. /\ e \in State /\ e.at = "refresh" /\ e.pair = run[p].pair
      /\ e.password = run[p].password /\ e.path = run[p].path
  BY <1>3, <1>4 DEF State
<1>6. run' = [run EXCEPT ![p] = e]
  BY <1>1, <1>4
<1>7. /\ p \notin Requests => run[p].pair = 0
      /\ p \in Requests => run[p].pair \in DOMAIN pairs
      /\ p \notin Minters => run[p].path = ServerPath
  BY <1>2 DEF Inv, PairsKnown
<1>8. /\ p # Server => started \/ early
      /\ p = Server => early \/ run[p].password = ServerPassword
  BY <1>2 DEF Inv, OneKey, AloneAtFirst, ServerFirst
<1> HIDE DEF e
<1> QED
  BY <1>2, <1>3, <1>4, <1>5, <1>6, <1>7, <1>8, MoveKeeps DEF RedeemsStill, Redeems

\* The requests' own steps that write nothing.
LEMMA StartRequestKeeps ==
    ASSUME Inv, NEW p \in Requests, NEW i \in DOMAIN pairs,
           NEW token \in {"access", "refresh"}, NEW password \in Passwords,
           StartRequest(p, i, token, password)
    PROVE  Inv'
<1> DEFINE e == [Idle EXCEPT !.at = IF password = NoPassword THEN "opened" ELSE "stat",
                             !.password = IF password = NoPassword THEN ServerPassword ELSE password,
                             !.pair = i, !.token = token]
<1>1. /\ run' = [run EXCEPT ![p] = e] /\ UNCHANGED <<Data, started>>
      /\ run[Server].at = "up"
  BY DEF StartRequest, Data, deployment, Up
<1>2. p \in Processes /\ p # Server /\ started \in BOOLEAN
  BY Kinds DEF Inv, TypeOK
<1>3. Idle \in State /\ i \in 0..Len(pairs)
  BY IdleState, RunTyped DEF Inv
<1>4. e \in State /\ e.at \in {"opened", "stat"} /\ e.pair = i /\ e.path = ServerPath
  BY <1>3, ConstantsAssumption DEF State, Idle
<1>5. started \/ early
  BY <1>1 DEF Inv, OneKey, ServerFirst
<1> HIDE DEF e
<1> QED
  BY <1>1, <1>2, <1>4, <1>5, MoveKeeps DEF RedeemsStill

LEMMA StartRefreshKeeps ==
    ASSUME Inv, NEW p \in Requests, NEW i \in DOMAIN pairs, StartRefresh(p, i)
    PROVE  Inv'
<1> DEFINE e == [Idle EXCEPT !.at = "refreshing", !.pair = i, !.token = "refresh",
                             !.password = ServerPassword]
<1>1. /\ run' = [run EXCEPT ![p] = e] /\ UNCHANGED <<Data, started>>
      /\ run[Server].at = "up"
  BY DEF StartRefresh, Data, deployment, Up
<1>2. p \in Processes /\ p # Server /\ started \in BOOLEAN
  BY Kinds DEF Inv, TypeOK
<1>3. Idle \in State /\ i \in 0..Len(pairs)
  BY IdleState, RunTyped DEF Inv
<1>4. e \in State /\ e.at = "refreshing" /\ e.pair = i /\ e.path = ServerPath
  BY <1>3, ConstantsAssumption DEF State, Idle
<1>5. started \/ early
  BY <1>1 DEF Inv, OneKey, ServerFirst
<1> HIDE DEF e
<1> QED
  BY <1>1, <1>2, <1>4, <1>5, MoveKeeps DEF RedeemsStill

LEMMA ValidateRefreshTokenKeeps ==
    ASSUME Inv, NEW p \in Processes, ValidateRefreshToken(p)
    PROVE  Inv'
<1>1. run[p].at = "refreshing" /\ Go(p, "mark") /\ table # "absent" /\ UNCHANGED <<Data, started>>
  BY DEF ValidateRefreshToken, Data, deployment
<1>2. PICK e \in State :
        /\ run' = [run EXCEPT ![p] = e]
        /\ e.at = "mark" /\ e.password = run[p].password /\ e.key = run[p].key
        /\ e.pair = run[p].pair /\ e.path = run[p].path
  BY <1>1, GoTo DEF Inv
<1>3. /\ p \in Requests /\ run[p].pair \in DOMAIN pairs /\ started \in BOOLEAN /\ p # Server
      /\ run[p].path = ServerPath
  BY <1>1, Kinds DEF Inv, PairsKnown, TypeOK
<1>4. started \/ early
  BY <1>1, <1>3 DEF Inv, OneKey, AloneAtFirst
<1> QED
  BY <1>1, <1>2, <1>3, <1>4, MoveKeeps DEF RedeemsStill

LEMMA StopsKeep ==
    ASSUME Inv, NEW p \in Processes, CreateFails(p) \/ NewPairFails(p) \/ Admit(p) \/ Reject(p)
    PROVE  Inv'
<1>1. Stop(p) /\ UNCHANGED <<Data, started>>
  BY DEF CreateFails, NewPairFails, Admit, Reject, Data, deployment
<1> QED
  BY <1>1, StopKeeps

-----------------------------------------------------------------------------
(* The key file is written.                                                 *)

\* Where pkd-admin waits, only a server that is alone gets here.
LEMMA TruncateKeeps == ASSUME Inv, NEW p \in Processes, Truncate(p) PROVE Inv'
<1> DEFINE e == [run[p] EXCEPT !.at = "write", !.key = keys']
<1>1. /\ run \in [Processes -> State] /\ run[p] \in State /\ keys \in Nat
  BY RunTyped DEF Inv
<1>2. /\ run[p].at = "create" /\ keys < MaxKeys /\ keys' = keys + 1
      /\ file' = [file EXCEPT ![run[p].path] = NoKey("empty")]
      /\ UNCHANGED <<pairs, used, boot, table, early, started>>
  BY DEF Truncate, deployment
<1>3. /\ e \in State /\ e.at = "write" /\ e.pair = run[p].pair /\ e.password = run[p].password
      /\ e.path = run[p].path
      /\ run' = [run EXCEPT ![p] = e]
  <2>1. keys' \in Nat
    BY <1>1, <1>2
  <2>2. run' = [run EXCEPT ![p].at = "write", ![p].key = keys']
    BY DEF Truncate
  <2>3. run' = [run EXCEPT ![p] = e]
    BY <1>1, <2>2
  <2> QED
    BY <1>1, <2>1, <2>3 DEF State
<1>4. /\ file' \in [Paths -> Content]
      /\ run[p].path # ServerPath => file'[ServerPath] = file[ServerPath]
      /\ run[p].path = ServerPath => file'[ServerPath].kind = "empty"
  <2>1. NoKey("empty") \in Content /\ NoKey("empty").kind = "empty"
    BY ConstantsAssumption DEF NoKey, Content, FirstContents
  <2>2. file \in [Paths -> Content] /\ run[p].path \in Paths
    BY <1>1 DEF Inv, TypeOK, State
  <2> QED
    BY <1>2, <2>1, <2>2, ConstantsAssumption
<1> HIDE DEF e
<1>5. /\ run' \in [Processes -> State] /\ run'[p] = e
      /\ \A q \in Processes \ {p} : run'[q] = run[q]
  BY <1>1, <1>3, OneProcess
<1>6. TypeOK'
  <2>1. keys' \in 0..MaxKeys
    BY <1>1, <1>2, ConstantsAssumption
  <2> QED
    BY <1>2, <1>4, <1>5, <2>1 DEF Inv, TypeOK, State
<1>7. PairsKnown'
  BY <1>2, <1>3, <1>5 DEF Inv, PairsKnown
<1>8. OneKey'
  <2> SUFFICES ASSUME ~early PROVE ServerFirst' /\ \A q \in Processes : AloneAtFirst(q)'
    BY <1>2 DEF OneKey
  <2>1. ServerFirst /\ \A q \in Processes : AloneAtFirst(q)
    BY DEF Inv, OneKey
  <2>2. run[p].path = ServerPath => p = Server /\ ~started /\ HasNoKey(ServerPath)
    BY <1>2, <2>1 DEF AloneAtFirst
  <2>3. p = Server => run[p].path = ServerPath
    BY Kinds DEF Inv, PairsKnown
  <2>4. ServerFirst'
    BY <1>2, <1>3, <1>4, <1>5, <2>1, <2>2, <2>3, Kinds DEF ServerFirst
  <2>5. ASSUME NEW q \in Processes PROVE AloneAtFirst(q)'
    <3>1. AloneAtFirst(q) /\ AloneAtFirst(p)
      BY <2>1
    <3>2. CASE run[p].path = ServerPath
      <4>1. \A r \in Processes \ {Server} : run[r].at = "idle"
        BY <2>1, <2>2, <3>2 DEF AloneAtFirst
      <4> QED
        BY <1>2, <1>3, <1>4, <1>5, <2>2, <3>1, <3>2, <4>1 DEF AloneAtFirst
    <3>3. CASE run[p].path # ServerPath
      BY <1>2, <1>3, <1>4, <1>5, <2>3, <3>1, <3>3 DEF AloneAtFirst, HasNoKey
    <3> QED
      BY <3>2, <3>3
  <2> QED
    BY <2>4, <2>5
<1>9. OneUse' /\ Marked'
  BY <1>2, <1>3, <1>5 DEF Inv, OneUse, RedeemsAlone, Redeems, Marked
<1> QED
  BY <1>6, <1>7, <1>8, <1>9 DEF Inv

LEMMA WriteKeeps == ASSUME Inv, NEW p \in Processes, Write(p) PROVE Inv'
<1> DEFINE e == [run[p] EXCEPT !.at = "opened", !.key = 0]
           new == KeyFile(run[p].key, run[p].password)
<1>1. /\ run \in [Processes -> State] /\ run[p] \in State
  BY RunTyped DEF Inv
<1>2. /\ run[p].at = "write"
      /\ file' = [file EXCEPT ![run[p].path] = Overwritten(file[run[p].path], new)]
      /\ UNCHANGED <<keys, pairs, used, boot, table, early, started>>
  BY DEF Write, deployment
<1>3. /\ e \in State /\ e.at = "opened" /\ e.pair = run[p].pair /\ e.password = run[p].password
      /\ e.path = run[p].path
      /\ run' = [run EXCEPT ![p] = e]
  BY <1>1 DEF Write, State
<1>4. /\ new \in Content /\ new.kind = "key" /\ new.password = run[p].password
      /\ NoKey("mixed") \in Content
  BY <1>1, ConstantsAssumption DEF KeyFile, NoKey, Content, State
<1> HIDE DEF e, new
<1>5. /\ run' \in [Processes -> State] /\ run'[p] = e
      /\ \A q \in Processes \ {p} : run'[q] = run[q]
  BY <1>1, <1>3, OneProcess
<1>6. TypeOK'
  <2>1. file' \in [Paths -> Content]
    BY <1>2, <1>4 DEF Overwritten, Inv, TypeOK
  <2> QED
    BY <1>2, <1>5, <2>1 DEF Inv, TypeOK, State
<1>7. PairsKnown'
  BY <1>2, <1>3, <1>5 DEF Inv, PairsKnown
<1>8. OneKey'
  <2> SUFFICES ASSUME ~early PROVE ServerFirst' /\ \A q \in Processes : AloneAtFirst(q)'
    BY <1>2 DEF OneKey
  <2>1. ServerFirst /\ \A q \in Processes : AloneAtFirst(q)
    BY DEF Inv, OneKey
  <2>2. run[p].path = ServerPath => p = Server /\ ~started /\ file[ServerPath].kind = "empty"
    BY <1>2, <2>1 DEF AloneAtFirst
  <2>3. p = Server => run[p].path = ServerPath
    BY Kinds DEF Inv, PairsKnown
  <2>4. /\ run[p].path # ServerPath => file'[ServerPath] = file[ServerPath]
        /\ run[p].path = ServerPath =>
             file'[ServerPath].kind = "key" /\ file'[ServerPath].password = ServerPassword
    <3>1. file \in [Paths -> Content] /\ run[p].path \in Paths
      BY <1>1 DEF Inv, TypeOK, State
    <3>2. run[p].path = ServerPath => run[p].password = ServerPassword
      BY <1>2, <2>1, <2>2 DEF ServerFirst
    <3> QED
      BY <1>2, <1>4, <2>2, <3>1, <3>2, ConstantsAssumption DEF Overwritten
  <2>5. ServerFirst'
    BY <1>2, <1>3, <1>5, <2>1, <2>2, <2>3, <2>4, Kinds DEF ServerFirst
  <2>6. ASSUME NEW q \in Processes PROVE AloneAtFirst(q)'
    <3>1. AloneAtFirst(q) /\ AloneAtFirst(p)
      BY <2>1
    <3>2. CASE run[p].path = ServerPath
      <4>1. \A r \in Processes \ {Server} : run[r].at = "idle"
        BY <2>1, <2>2, <3>2 DEF AloneAtFirst
      <4> QED
        BY <1>2, <1>3, <1>5, <2>2, <3>1, <3>2, <4>1 DEF AloneAtFirst
    <3>3. CASE run[p].path # ServerPath
      BY <1>2, <1>3, <1>5, <2>4, <3>1, <3>3 DEF AloneAtFirst, HasNoKey
    <3> QED
      BY <3>2, <3>3
  <2> QED
    BY <2>5, <2>6
<1>9. OneUse' /\ Marked'
  BY <1>2, <1>3, <1>5 DEF Inv, OneUse, RedeemsAlone, Redeems, Marked
<1> QED
  BY <1>6, <1>7, <1>8, <1>9 DEF Inv

-----------------------------------------------------------------------------
(* Pairs are issued and refresh tokens used.                                *)

LEMMA NewRefreshTokenKeeps ==
    ASSUME Inv, NEW p \in Processes, NewRefreshToken(p)
    PROVE  Inv'
<1>1. PICK k \in GetPasetoSymmetricKey(run[p].path, run[p].password) :
        pairs' = Append(pairs, [access |-> run[p].key, refresh |-> k, from |-> run[p].pair])
  BY DEF NewRefreshToken
<1>2. /\ run[p].at = "refresh" /\ Stop(p)
      /\ UNCHANGED <<file, keys, used, boot, table, early, started>>
  BY DEF NewRefreshToken, deployment
<1>3. /\ run \in [Processes -> State] /\ run[p] \in State
      /\ pairs \in Seq(Pair) /\ Len(pairs) \in Nat /\ DOMAIN pairs = 1..Len(pairs)
  BY RunTyped DEF Inv, TypeOK
<1>4. k \in Nat
  <2>1. file[run[p].path].key \in Nat
    BY <1>3 DEF Inv, TypeOK, Content, State
  <2> QED
    BY <1>1, <2>1 DEF GetPasetoSymmetricKey
<1> DEFINE new == [access |-> run[p].key, refresh |-> k, from |-> run[p].pair]
           n == Len(pairs) + 1
<1>5. new \in Pair /\ new.from = run[p].pair
  <2>1. run[p].key \in Nat /\ run[p].pair \in Nat
    BY <1>3 DEF State
  <2> QED
    BY <1>4, <2>1 DEF Pair
<1>6. pairs' = Append(pairs, new)
  BY <1>1
<1> HIDE DEF new
<1>7. /\ pairs' \in Seq(Pair) /\ Len(pairs') = n /\ n \in Nat /\ n # 0
      /\ DOMAIN pairs' = DOMAIN pairs \cup {n} /\ n \notin DOMAIN pairs
      /\ \A i \in DOMAIN pairs : pairs'[i] = pairs[i]
      /\ pairs'[n] = new
  BY <1>3, <1>5, <1>6
<1>8. Idle \in State /\ Idle.at = "idle" /\ Idle.pair = 0 /\ Idle.path = ServerPath
  BY IdleState DEF Inv
<1> HIDE DEF n, Idle
<1>9. /\ run' \in [Processes -> State] /\ run'[p] = Idle
      /\ \A q \in Processes \ {p} : run'[q] = run[q]
  BY <1>2, <1>3, <1>8, OneProcess DEF Stop
<1>10. TypeOK'
  <2>1. 0..Len(pairs) \subseteq 0..Len(pairs')
    BY <1>3, <1>7 DEF n
  <2>2. State \subseteq State'
    BY <2>1 DEF State
  <2>3. run' \in [Processes -> State']
    BY <1>9, <2>2
  <2>4. used' \subseteq DOMAIN pairs'
    BY <1>2, <1>7 DEF Inv, TypeOK
  <2> QED
    BY <1>2, <1>7, <2>3, <2>4 DEF Inv, TypeOK, State
<1>11. PairsKnown'
  BY <1>7, <1>8, <1>9, Kinds DEF Inv, PairsKnown
<1>12. OneKey'
  <2> SUFFICES ASSUME ~early PROVE ServerFirst' /\ \A q \in Processes : AloneAtFirst(q)'
    BY <1>2 DEF OneKey
  <2>1. ServerFirst /\ \A q \in Processes : AloneAtFirst(q)
    BY DEF Inv, OneKey
  <2>2. ServerFirst'
    BY <1>2, <1>8, <1>9, <2>1, Kinds DEF ServerFirst
  <2>3. \A q \in Processes : AloneAtFirst(q)'
    BY <1>2, <1>8, <1>9, <2>1 DEF AloneAtFirst, HasNoKey
  <2> QED
    BY <2>2, <2>3
<1>13. OneUse'
  <2> SUFFICES ASSUME table = "unique"
               PROVE  /\ \A i, j \in DOMAIN pairs' :
                           pairs'[i].from = pairs'[j].from => i = j \/ pairs'[i].from = 0
                      /\ \A q \in Processes : RedeemsAlone(q)'
    BY <1>2 DEF OneUse
  <2>1. /\ \A i, j \in DOMAIN pairs : pairs[i].from = pairs[j].from => i = j \/ pairs[i].from = 0
        /\ \A q \in Processes : RedeemsAlone(q)
    BY DEF Inv, OneUse
  <2>2. run[p].pair # 0 => \A i \in DOMAIN pairs : pairs[i].from # run[p].pair
    BY <1>2, <2>1 DEF RedeemsAlone, Redeems
  <2>3. ASSUME NEW q \in Processes PROVE RedeemsAlone(q)'
    <3> SUFFICES ASSUME Redeems(q)'
                 PROVE  /\ \A i \in DOMAIN pairs' : pairs'[i].from # run'[q].pair
                        /\ \A r \in Processes : Redeems(r)' /\ run'[r].pair = run'[q].pair => q = r
      BY <1>2 DEF RedeemsAlone
    <3>1. \A r \in Processes : Redeems(r)' => r # p /\ Redeems(r) /\ run'[r].pair = run[r].pair
      BY <1>8, <1>9 DEF Redeems
    <3>2. /\ \A i \in DOMAIN pairs : pairs[i].from # run[q].pair
          /\ \A r \in Processes : Redeems(r) /\ run[r].pair = run[q].pair => q = r
      BY <2>1, <3>1 DEF RedeemsAlone
    <3>3. run[p].pair # run[q].pair
      BY <1>2, <3>1, <3>2 DEF Redeems
    <3> QED
      BY <1>5, <1>7, <3>1, <3>2, <3>3
  <2>4. \A i, j \in DOMAIN pairs' :
          pairs'[i].from = pairs'[j].from => i = j \/ pairs'[i].from = 0
    BY <1>5, <1>7, <2>1, <2>2
  <2> QED
    BY <2>3, <2>4
<1>14. Marked'
  <2>1. run[p].pair # 0 => run[p].pair \in used /\ table # "absent"
    BY <1>2 DEF Inv, Marked, Redeems
  <2>2. \A i \in DOMAIN pairs' : pairs'[i].from # 0 => pairs'[i].from \in used /\ table # "absent"
    BY <1>5, <1>7, <2>1 DEF Inv, Marked
  <2>3. \A q \in Processes : run'[q] = Idle \/ run'[q] = run[q]
    BY <1>9
  <2> QED
    BY <1>2, <1>8, <2>2, <2>3 DEF Inv, Marked, Redeems
<1> QED
  BY <1>10, <1>11, <1>12, <1>13, <1>14 DEF Inv

\* The INSERT: where jti is UNIQUE, nobody redeems this token or has done so.
LEMMA MarkUsedKeeps == ASSUME Inv, NEW p \in Processes, MarkUsed(p) PROVE Inv'
<1>1. /\ run[p].at = "mark" /\ Go(p, "access")
      /\ used' = used \cup {run[p].pair}
      /\ table = "unique" => run[p].pair \notin used
      /\ UNCHANGED <<file, keys, pairs, boot, table, early, started>>
  BY DEF MarkUsed, deployment
<1>2. PICK e \in State :
        /\ run' = [run EXCEPT ![p] = e]
        /\ e.at = "access" /\ e.password = run[p].password /\ e.pair = run[p].pair
        /\ e.path = run[p].path
  BY <1>1, GoTo DEF Inv
<1>3. /\ run' \in [Processes -> State] /\ run'[p] = e
      /\ \A q \in Processes \ {p} : run'[q] = run[q]
  BY <1>2, RunTyped, OneProcess DEF Inv
<1>4. p \in Requests /\ run[p].pair \in DOMAIN pairs /\ p # Server
  BY <1>1, Kinds DEF Inv, PairsKnown
<1>5. TypeOK'
  BY <1>1, <1>3, <1>4 DEF Inv, TypeOK, State
<1>6. PairsKnown'
  BY <1>1, <1>2, <1>3, <1>4 DEF Inv, PairsKnown
<1>7. OneKey'
  <2> SUFFICES ASSUME ~early PROVE ServerFirst' /\ \A q \in Processes : AloneAtFirst(q)'
    BY <1>1 DEF OneKey
  <2>1. ServerFirst /\ \A q \in Processes : AloneAtFirst(q)
    BY DEF Inv, OneKey
  <2>2. ServerFirst'
    BY <1>1, <1>3, <1>4, <2>1, Kinds DEF ServerFirst
  <2>3. \A q \in Processes : AloneAtFirst(q)'
    BY <1>1, <1>2, <1>3, <1>4, <2>1 DEF AloneAtFirst, HasNoKey
  <2> QED
    BY <2>2, <2>3
<1>8. Marked'
  <2>1. table # "absent"
    BY <1>1 DEF Inv, Marked
  <2>2. \A q \in Processes \ {p} : Redeems(q)' => run'[q].pair \in used'
    BY <1>1, <1>3 DEF Inv, Marked, Redeems
  <2> QED
    BY <1>1, <1>2, <1>3, <2>1, <2>2 DEF Inv, Marked
<1>9. OneUse'
  <2> SUFFICES ASSUME table = "unique"
               PROVE  /\ \A i, j \in DOMAIN pairs :
                           pairs[i].from = pairs[j].from => i = j \/ pairs[i].from = 0
                      /\ \A q \in Processes : RedeemsAlone(q)'
    BY <1>1 DEF OneUse
  <2>1. /\ \A i, j \in DOMAIN pairs : pairs[i].from = pairs[j].from => i = j \/ pairs[i].from = 0
        /\ \A q \in Processes : RedeemsAlone(q)
    BY DEF Inv, OneUse
  <2>2. run[p].pair # 0
    BY <1>4, RunTyped DEF Inv
  <2>3. \A i \in DOMAIN pairs : pairs[i].from # run[p].pair
    BY <1>1, <2>2 DEF Inv, Marked
  <2>4. \A q \in Processes \ {p} : Redeems(q)' => run'[q].pair # run[p].pair
    BY <1>1, <1>3 DEF Inv, Marked, Redeems
  <2>5. ASSUME NEW q \in Processes PROVE RedeemsAlone(q)'
    <3>1. CASE q = p
      BY <1>1, <1>2, <1>3, <2>3, <2>4, <3>1 DEF RedeemsAlone
    <3>2. CASE q # p
      BY <1>1, <1>2, <1>3, <2>1, <2>4, <3>2 DEF RedeemsAlone, Redeems
    <3> QED
      BY <3>1, <3>2
  <2> QED
    BY <1>1, <2>1, <2>5
<1> QED
  BY <1>5, <1>6, <1>7, <1>8, <1>9 DEF Inv

\* A token may be marked although the caller is told of an error: it is spent.
LEMMA RefreshFailsKeeps == ASSUME Inv, NEW p \in Processes, RefreshFails(p) PROVE Inv'
<1>1. /\ run[p].at \in {"refreshing", "mark"} /\ Stop(p)
      /\ used' \subseteq used \cup {run[p].pair} /\ used \subseteq used'
      /\ UNCHANGED <<file, keys, pairs, boot, table, early, started>>
  BY DEF RefreshFails, deployment
<1>2. Idle \in State /\ Idle.at = "idle" /\ Idle.pair = 0 /\ Idle.path = ServerPath
  BY IdleState DEF Inv
<1> HIDE DEF Idle
<1>3. /\ run' \in [Processes -> State] /\ run'[p] = Idle
      /\ \A q \in Processes \ {p} : run'[q] = run[q]
  BY <1>1, <1>2, RunTyped, OneProcess DEF Stop, Inv
<1>4. p \in Requests /\ run[p].pair \in DOMAIN pairs /\ p # Server
  BY <1>1, Kinds DEF Inv, PairsKnown
<1>5. TypeOK'
  BY <1>1, <1>3, <1>4 DEF Inv, TypeOK, State
<1>6. PairsKnown'
  BY <1>1, <1>2, <1>3, <1>4, Kinds DEF Inv, PairsKnown
<1>7. OneKey'
  BY <1>1, <1>2, <1>3, <1>4, Kinds DEF Inv, OneKey, ServerFirst, AloneAtFirst, HasNoKey
<1>8. OneUse' /\ Marked'
  BY <1>1, <1>2, <1>3 DEF Inv, OneUse, RedeemsAlone, Redeems, Marked
<1> QED
  BY <1>5, <1>6, <1>7, <1>8 DEF Inv

-----------------------------------------------------------------------------
\* What ends with a process leaves nothing half done that others rely on.
LEMMA KillKeeps == ASSUME Inv, NEW p \in Processes, Kill(p) PROVE Inv'
<1>1. /\ run' = [q \in Processes |->
            IF q = p \/ (p = Server /\ q \in Requests) THEN Idle ELSE run[q]]
      /\ UNCHANGED <<file, keys, pairs, used, boot, table, early, started>>
  BY DEF Kill, deployment
<1>2. Idle \in State /\ Idle.at = "idle" /\ Idle.pair = 0 /\ Idle.path = ServerPath
  BY IdleState DEF Inv
<1> HIDE DEF Idle
<1>3. /\ \A q \in Processes : run'[q] = Idle \/ run'[q] = run[q]
      /\ run' \in [Processes -> State]
  BY <1>1, <1>2, RunTyped DEF Inv
<1>4. TypeOK'
  BY <1>1, <1>3 DEF Inv, TypeOK, State
<1>5. PairsKnown'
  BY <1>1, <1>2, <1>3, Kinds DEF Inv, PairsKnown
<1>6. OneKey'
  BY <1>1, <1>2, <1>3, Kinds DEF Inv, OneKey, ServerFirst, AloneAtFirst, HasNoKey
<1>7. OneUse' /\ Marked'
  BY <1>1, <1>2, <1>3 DEF Inv, OneUse, RedeemsAlone, Redeems, Marked
<1> QED
  BY <1>4, <1>5, <1>6, <1>7 DEF Inv

LEMMA InvInit == ASSUME Init PROVE Inv
<1>1. /\ run = [p \in Processes |-> Idle] /\ pairs = <<>> /\ used = {} /\ keys = 0
      /\ started = FALSE /\ boot \in Boots /\ table \in Tables /\ early \in Early
      /\ file \in {[f \in Paths |-> NoKey(kind[f])] : kind \in Files}
  BY DEF Init
<1>2. Idle \in State
  BY <1>1, ConstantsAssumption DEF Idle, State
<1>3. file \in [Paths -> Content] /\ file[ServerPath].kind \in FirstContents
  <2>1. PICK kind \in [Paths -> FirstContents] : file = [f \in Paths |-> NoKey(kind[f])]
    BY <1>1, ConstantsAssumption
  <2>2. \A f \in Paths : NoKey(kind[f]) \in Content /\ NoKey(kind[f]).kind = kind[f]
    BY <2>1, ConstantsAssumption DEF NoKey, Content
  <2> QED
    BY <2>1, <2>2, ConstantsAssumption
<1>4. pairs \in Seq(Pair) /\ DOMAIN pairs = {}
  BY <1>1
<1>5. TypeOK
  <2>1. run \in [Processes -> State] /\ keys \in 0..MaxKeys
    BY <1>1, <1>2, ConstantsAssumption
  <2>2. boot \in {"main", "router"} /\ table \in {"absent", "plain", "unique"} /\ early \in BOOLEAN
    BY <1>1, ConstantsAssumption
  <2> QED
    BY <1>1, <1>3, <1>4, <2>1, <2>2 DEF TypeOK, State
<1>6. \A p \in Processes : run[p].at = "idle" /\ run[p].pair = 0 /\ run[p].path = ServerPath
  BY <1>1 DEF Idle
<1>7. PairsKnown
  BY <1>6, Kinds DEF PairsKnown
<1>8. OneKey
  BY <1>1, <1>3, <1>4, <1>6, Kinds DEF OneKey, ServerFirst, AloneAtFirst, FirstContents
<1>9. OneUse /\ Marked
  BY <1>4, <1>6 DEF OneUse, RedeemsAlone, Redeems, Marked
<1> QED
  BY <1>5, <1>7, <1>8, <1>9 DEF Inv

LEMMA InvNext == ASSUME Inv, [Next]_vars PROVE Inv'
<1>1. CASE StartServer \/ Listen
  BY <1>1, StartServerKeeps, ListenKeeps
<1>2. ASSUME NEW p \in Processes, OpenKeyFile(p) PROVE Inv'
  BY <1>2, StatKeeps, TruncateKeeps, StopsKeep, WriteKeeps DEF OpenKeyFile
<1>3. ASSUME NEW p \in Processes, IssuePair(p) PROVE Inv'
  BY <1>3, NewAccessTokenKeeps, NewRefreshTokenKeeps, StopsKeep DEF IssuePair
<1>4. ASSUME NEW p \in Processes, Request(p) PROVE Inv'
  <2>1. ASSUME NEW i \in DOMAIN pairs, NEW token \in {"access", "refresh"},
               NEW password \in Passwords, StartRequest(p, i, token, password)
        PROVE  Inv'
    BY <2>1, StartRequestKeeps DEF StartRequest
  <2>2. ASSUME NEW i \in DOMAIN pairs, StartRefresh(p, i) PROVE Inv'
    BY <2>2, StartRefreshKeeps DEF StartRefresh
  <2>3. CASE Admit(p) \/ Reject(p) \/ ValidateRefreshToken(p) \/ MarkUsed(p) \/ RefreshFails(p)
    BY <2>3, StopsKeep, ValidateRefreshTokenKeeps, MarkUsedKeeps, RefreshFailsKeeps
  <2> QED
    BY <1>4, <2>1, <2>2, <2>3 DEF Request
<1>5. ASSUME NEW p \in Processes, Kill(p) PROVE Inv'
  BY <1>5, KillKeeps
<1>6. ASSUME NEW p \in Minters, BeginPair(p) PROVE Inv'
  BY <1>6, BeginPairKeeps
<1>7. ASSUME NEW p \in Minters, NEW f \in Paths, NEW password \in Passwords,
             StartMint(p, f, password)
      PROVE  Inv'
  BY <1>7, StartMintKeeps
<1>8. CASE UNCHANGED vars
  BY <1>8 DEF vars, deployment, Inv, TypeOK, PairsKnown, OneKey, ServerFirst, AloneAtFirst,
     HasNoKey, OneUse, RedeemsAlone, Redeems, Marked
<1> QED
  BY <1>1, <1>2, <1>3, <1>4, <1>5, <1>6, <1>7, <1>8 DEF Next

-----------------------------------------------------------------------------
(* The theorems.                                                            *)

\* The file, the pairs and the processes keep their shapes; used tokens were issued.
THEOREM TypeCorrect == Spec => []TypeOK
<1>1. Inv => TypeOK
  BY DEF Inv
<1> QED
  BY <1>1, InvInit, InvNext, PTL DEF Spec

\* In every table a refresh token has to be marked before there is a pair for it, so that
\* no later request gets past the SELECT, and the UNIQUE jti of the INSERT leaves one pair
\* of those that were past it together (token_service.go:81).
THEOREM RefreshedOnce == Spec => []RefreshOnce
<1>1. Inv => RefreshOnce
  BY DEF Inv, OneUse, Marked, RefreshOnce
<1> QED
  BY <1>1, InvInit, InvNext, PTL DEF Spec

\* A server that came up can read its key, also after a crash inside os.WriteFile.
THEOREM ServerHasKey == Spec => []RunningServerHasKey
<1>1. Inv => RunningServerHasKey
  BY DEF Inv, OneKey, ServerFirst, RunningServerHasKey, GetPasetoSymmetricKey, Up
<1> QED
  BY <1>1, InvInit, InvNext, PTL DEF Spec

\* Once there is a key in a file, only a process that found none before still writes it;
\* in the server's file there is no such process if pkd-admin waits for the server.
THEOREM KeyStays == Spec => KeyStable
<1> DEFINE Written(f) ==
             /\ file[f].kind = "key"
             /\ early \/ f # ServerPath =>
                  \A p \in Processes : run[p].path = f => run[p].at \notin {"create", "write"}
           Stays == \A f \in Paths : Written(f) => file'[f] = file[f]
<1>1. ASSUME Inv, [Next]_vars, NEW f \in Paths, Written(f) PROVE file'[f] = file[f]
  <2>1. \A p \in Processes : run[p].path = f => run[p].at \notin {"create", "write"}
    BY <1>1 DEF Inv, OneKey, AloneAtFirst, HasNoKey
  <2>2. file \in [Paths -> Content]
    BY <1>1 DEF Inv, TypeOK
  <2>3. ASSUME NEW p \in Processes, OpenKeyFile(p) PROVE file'[f] = file[f]
    <3>1. CASE Stat(p) \/ CreateFails(p)
      BY <3>1 DEF Stat, CreateFails
    <3>2. CASE Truncate(p) \/ Write(p)
      BY <2>1, <2>2, <3>2 DEF Truncate, Write
    <3> QED
      BY <2>3, <3>1, <3>2 DEF OpenKeyFile
  <2>4. ASSUME NEW p \in Processes, IssuePair(p) \/ Request(p) \/ Kill(p) PROVE file' = file
    BY <2>4 DEF IssuePair, NewAccessToken, NewRefreshToken, NewPairFails, Request, StartRequest,
       StartRefresh, Admit, Reject, ValidateRefreshToken, MarkUsed, RefreshFails, Kill
  <2>5. ASSUME NEW p \in Minters,
               BeginPair(p) \/ \E g \in Paths, password \in Passwords : StartMint(p, g, password)
        PROVE  file' = file
    BY <2>5 DEF BeginPair, StartMint
  <2>6. CASE StartServer \/ Listen \/ UNCHANGED vars
    BY <2>6 DEF StartServer, Listen, vars
  <2> QED
    BY <1>1, <2>3, <2>4, <2>5, <2>6 DEF Next
<1>2. Inv /\ [Next]_vars => [Stays]_vars
  BY <1>1
<1> QED
  BY <1>2, InvInit, InvNext, PTL DEF Spec, KeyStable
==============================================================================
