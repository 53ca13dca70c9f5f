------------------------------ MODULE Checkpoint ------------------------------
(***************************************************************************)
(* Checkpoints: a server commits its latest Merkle root to a peer, from    *)
(* the scheduler's loop (internal/checkpoint/scheduler.go) and from the    *)
(* admin endpoint (handleTriggerCheckpoint), and the peer stores what it   *)
(* verifies (processCheckpointAction, StoreMessage).  Both senders read    *)
(* the root, then stamp the time, then post without a timeout.             *)
(***************************************************************************)
EXTENDS Integers, Sequences, FiniteSets

CONSTANTS
    Requests,    \* concurrent POST /admin/checkpoint requests
    Configs,     \* the configurations the server may run with
    Faults,      \* a subset of {"database", "unreachable", "lost"}
    MaxRows,     \* BOUND: keys ever committed; their roots are 1..MaxRows
    MaxClock,    \* BOUND: seconds that pass
    NoRoot,      \* the empty string: no key yet
    NoMessage    \* a sender that has posted nothing

(* What a configuration is to the checkpoints: whether the interval parses,  *)
(* whether a target directory is set, how server.private_key is encoded, and *)
(* whether the peer lists this server with its key.  config.LoadAndValidate, *)
(* which the server loads with, accepts "rawurl" only; config.Load, which    *)
(* the admin tool and the tests load with, accepts anything.                 *)
Config == [interval : BOOLEAN, target : BOOLEAN, encoding : {"rawurl", "std"},
           recognised : BOOLEAN]

Loop == "scheduler"
Senders == Requests \cup {Loop}

CheckpointMessage == [from_root : 1..MaxRows \cup {NoRoot}, time : 0..MaxClock]

ASSUME CheckpointAssumption ==
    /\ Configs \subseteq Config
    /\ Loop \notin Requests
    /\ MaxRows \in Nat /\ MaxClock \in Nat
    /\ NoRoot \notin Nat
    /\ NoMessage \notin CheckpointMessage

VARIABLES
    config,        \* fixed at start
    clock,         \* seconds
    public_keys,   \* committed rows, in commit order: merkle_root, created_at
    loop,          \* the scheduler's goroutine
    ticker,        \* the ticker exists and is not stopped
    tick,          \* a tick waits in the ticker's channel, which holds one
    stop,          \* the call of Scheduler.Stop
    phase,         \* where each sender is
    root,          \* the root each sender has read
    body,          \* the message each sender last posted
    answer,        \* the peer's answer to it
    message_logs,  \* the peer's stored messages (UNIQUE message_hash)
    acknowledged   \* messages some sender was told were stored

scheduler == <<loop, ticker, tick, stop>>
vars == <<config, clock, public_keys, scheduler, phase, root, body, answer,
          message_logs, acknowledged>>

Init ==
    /\ config \in Configs
    /\ clock = 0
    /\ public_keys = <<>>
    /\ loop = "new"
    /\ ticker = FALSE
    /\ tick = FALSE
    /\ stop = "no"
    /\ phase = [s \in Senders |-> "idle"]
    /\ root = [s \in Senders |-> NoRoot]
    /\ body = [s \in Senders |-> NoMessage]
    /\ answer = [s \in Senders |-> "none"]
    /\ message_logs = {}
    /\ acknowledged = {}

-----------------------------------------------------------------------------
(* The database: an AddKey commits, in any order of the log.               *)

\* created_at is the time of the INSERT on SQLite, and of the transaction's
\* start on PostgreSQL (NOW()): some moment that is past at the commit.
CommitKey(r) ==
    /\ \A i \in DOMAIN public_keys : public_keys[i].merkle_root # r
    /\ \E t \in 0..clock :
          public_keys' = Append(public_keys, [merkle_root |-> r, created_at |-> t])
    /\ UNCHANGED <<config, clock, scheduler, phase, root, body, answer, message_logs, acknowledged>>

PassSecond ==
    /\ clock < MaxClock
    /\ clock' = clock + 1
    /\ UNCHANGED <<config, public_keys, scheduler, phase, root, body, answer, message_logs, acknowledged>>

\* The root comes from the log, which is ahead of the rows.
GetLatestMerkleRoot_mut_log == 1..MaxRows

\* ORDER BY created_at DESC LIMIT 1: any of the rows of the latest created_at.
GetLatestMerkleRoot ==
    IF public_keys = <<>> THEN {NoRoot}
    ELSE {public_keys[i].merkle_root : i \in {j \in DOMAIN public_keys :
             \A k \in DOMAIN public_keys : public_keys[k].created_at <= public_keys[j].created_at}}

-----------------------------------------------------------------------------
(* The scheduler's goroutine.                                              *)

Start ==
    /\ loop = "new"
    /\ loop' = IF config.interval THEN "running" ELSE "off"
    /\ ticker' = config.interval
    /\ UNCHANGED <<config, clock, public_keys, tick, stop, phase, root, body, answer,
                   message_logs, acknowledged>>

\* The interval passes: a tick is sent, or dropped if one is waiting.
TickerFires ==
    /\ ticker
    /\ tick' = TRUE
    /\ UNCHANGED <<config, clock, public_keys, loop, ticker, stop, phase, root, body, answer,
                   message_logs, acknowledged>>

\* The loop takes the tick; without a target directory the trigger returns.
ReceiveTick ==
    /\ loop = "running" /\ phase[Loop] = "idle"
    /\ tick
    /\ tick' = FALSE
    /\ phase' = [phase EXCEPT ![Loop] = IF config.target THEN "triggered" ELSE "idle"]
    /\ UNCHANGED <<config, clock, public_keys, loop, ticker, stop, root, body, answer,
                   message_logs, acknowledged>>

\* The ticker is left running.
CallStop_mut ==
    /\ loop # "new"
    /\ stop = "no"
    /\ stop' = "called"
    /\ UNCHANGED <<config, clock, public_keys, loop, ticker, tick, phase, root, body, answer,
                   message_logs, acknowledged>>

\* Stop waits for the loop also when Start has started none.  A stopped ticker
\* leaves no tick behind (Go 1.23 and later; go.mod asks for 1.25).
CallStop ==
    /\ loop # "new"
    /\ stop = "no"
    /\ stop' = "called"
    /\ ticker' = FALSE
    /\ tick' = FALSE
    /\ UNCHANGED <<config, clock, public_keys, loop, phase, root, body, answer,
                   message_logs, acknowledged>>

\* The loop looks at done only when a tick wakes it.
ReceiveDone_mut ==
    /\ loop = "running" /\ phase[Loop] = "idle" /\ tick
    /\ stop = "called"
    /\ loop' = "gone"
    /\ stop' = "returned"
    /\ UNCHANGED <<config, clock, public_keys, ticker, tick, phase, root, body, answer,
                   message_logs, acknowledged>>

\* The loop receives from done: the sender in Stop goes on.
ReceiveDone ==
    /\ loop = "running" /\ phase[Loop] = "idle"
    /\ stop = "called"
    /\ loop' = "gone"
    /\ stop' = "returned"
    /\ UNCHANGED <<config, clock, public_keys, ticker, tick, phase, root, body, answer,
                   message_logs, acknowledged>>

-----------------------------------------------------------------------------
(* A sender: the loop or an admin request.                                 *)

RequestCheckpoint(s) ==
    /\ s \in Requests
    /\ phase[s] = "idle"
    /\ phase' = [phase EXCEPT ![s] = "triggered"]
    /\ UNCHANGED <<config, clock, public_keys, scheduler, root, body, answer, message_logs, acknowledged>>

Return(s) == phase' = [phase EXCEPT ![s] = "idle"]

\* The admin endpoint sends no checkpoint of an empty server; the loop does.
ReadRoot(s) ==
    /\ phase[s] = "triggered"
    /\ \E r \in GetLatestMerkleRoot :
          IF r = NoRoot /\ s # Loop
          THEN Return(s) /\ UNCHANGED root
          ELSE /\ phase' = [phase EXCEPT ![s] = "read"]
               /\ root' = [root EXCEPT ![s] = r]
    /\ UNCHANGED <<config, clock, public_keys, scheduler, body, answer, message_logs, acknowledged>>

ReadFails(s) ==
    /\ "database" \in Faults
    /\ phase[s] = "triggered"
    /\ Return(s)
    /\ UNCHANGED <<config, clock, public_keys, scheduler, root, body, answer, message_logs, acknowledged>>

\* The loop decodes the private key with base64.StdEncoding, the endpoint with
\* base64.RawURLEncoding; 64 bytes never pass both, because one pads.
Decodes(s) == config.encoding = (IF s = Loop THEN "std" ELSE "rawurl")

\* The time is taken after the root was read.
Message(s) == [from_root |-> root[s], time |-> clock]

Post(s) ==
    /\ phase[s] = "read"
    /\ Decodes(s)
    /\ body' = [body EXCEPT ![s] = Message(s)]
    /\ phase' = [phase EXCEPT ![s] = "posting"]
    /\ UNCHANGED <<config, clock, public_keys, scheduler, root, answer, message_logs, acknowledged>>


CannotSign(s) ==
    /\ phase[s] = "read"
    /\ ~Decodes(s)
    /\ Return(s)
    /\ UNCHANGED <<config, clock, public_keys, scheduler, root, body, answer, message_logs, acknowledged>>

-----------------------------------------------------------------------------
(* The peer, and the network between.                                      *)

\* A known sender, a good signature, and a hash not stored before.
Accepts(m) == config.recognised /\ m \notin message_logs

\* The error of StoreMessage is not looked at.
PeerHandles_mut(s) ==
    /\ phase[s] = "posting"
    /\ answer' = [answer EXCEPT ![s] = IF config.recognised THEN "ok" ELSE "refused"]
    /\ message_logs' \in {message_logs, IF Accepts(body[s]) THEN message_logs \cup {body[s]}
                                        ELSE message_logs}
    /\ phase' = [phase EXCEPT ![s] = "answered"]
    /\ UNCHANGED <<config, clock, public_keys, scheduler, root, body, acknowledged>>

\* The peer's database may fail; it answers 200 only for a row it stored.
PeerHandles(s) ==
    /\ phase[s] = "posting"
    /\ \/ /\ Accepts(body[s])
          /\ message_logs' = message_logs \cup {body[s]}
          /\ answer' = [answer EXCEPT ![s] = "ok"]
       \/ /\ ~Accepts(body[s]) \/ "database" \in Faults
          /\ answer' = [answer EXCEPT ![s] = "refused"]
          /\ UNCHANGED message_logs
    /\ phase' = [phase EXCEPT ![s] = "answered"]
    /\ UNCHANGED <<config, clock, public_keys, scheduler, root, body, acknowledged>>

\* The peer is not reached: an error, for the log or for the administrator.
Unreachable(s) ==
    /\ "unreachable" \in Faults
    /\ phase[s] = "posting"
    /\ Return(s)
    /\ UNCHANGED <<config, clock, public_keys, scheduler, root, body, answer, message_logs, acknowledged>>

\* The answer is lost: the sender is told of an error whatever the peer did.
AnswerLost(s) ==
    /\ "lost" \in Faults
    /\ phase[s] = "answered"
    /\ Return(s)
    /\ answer' = [answer EXCEPT ![s] = "none"]
    /\ UNCHANGED <<config, clock, public_keys, scheduler, root, body, message_logs, acknowledged>>

AnswerArrives(s) ==
    /\ phase[s] = "answered"
    /\ Return(s)
    /\ answer' = [answer EXCEPT ![s] = "none"]
    /\ acknowledged' = IF answer[s] = "ok" THEN acknowledged \cup {body[s]} ELSE acknowledged
    /\ UNCHANGED <<config, clock, public_keys, scheduler, root, body, message_logs>>

Next ==
    \/ \E r \in 1..MaxRows : CommitKey(r)
    \/ PassSecond
    \/ Start \/ TickerFires \/ ReceiveTick \/ CallStop \/ ReceiveDone
    \/ \E s \in Senders :
         \/ RequestCheckpoint(s) \/ ReadRoot(s) \/ ReadFails(s)
         \/ Post(s) \/ CannotSign(s)
         \/ PeerHandles(s) \/ Unreachable(s) \/ AnswerLost(s) \/ AnswerArrives(s)

(* The goroutine runs, the ticker fires, and the database answers a query    *)
(* with a root or an error.  Nothing is assumed of the peer or the network:  *)
(* the post has no timeout.                                                  *)
Fairness ==
    /\ WF_vars(Start)
    /\ WF_vars(TickerFires)
    /\ WF_vars(ReceiveTick)
    /\ WF_vars(ReceiveDone)
    /\ WF_vars(ReadRoot(Loop) \/ ReadFails(Loop))
    /\ WF_vars(Post(Loop) \/ CannotSign(Loop))

Spec == Init /\ [][Next]_vars /\ Fairness

-----------------------------------------------------------------------------
(* Properties.                                                             *)

Committed(r) == \E i \in DOMAIN public_keys : public_keys[i].merkle_root = r

CreatedAt(r) ==
    public_keys[CHOOSE i \in DOMAIN public_keys : public_keys[i].merkle_root = r].created_at

\* The variables keep their types, and the goroutine, its ticker and the call
\* of Stop agree: a tick needs a live ticker, which ends with the call, and the
\* loop is gone exactly when Stop has returned.
TypeOK ==
    /\ config \in Configs /\ clock \in 0..MaxClock
    /\ public_keys \in Seq([merkle_root : 1..MaxRows, created_at : 0..MaxClock])
    /\ loop \in {"new", "off", "running", "gone"}
    /\ tick => ticker
    /\ ticker => loop = "running" /\ stop = "no"
    /\ stop \in {"no", "called", "returned"}
    /\ loop = "gone" <=> stop = "returned"
    /\ phase \in [Senders -> {"idle", "triggered", "read", "posting", "answered"}]
    /\ root \in [Senders -> 1..MaxRows \cup {NoRoot}]
    /\ body \in [Senders -> CheckpointMessage \cup {NoMessage}]
    /\ answer \in [Senders -> {"none", "ok", "refused"}]
    /\ message_logs \subseteq CheckpointMessage
    /\ acknowledged \subseteq CheckpointMessage

\* A checkpoint a peer keeps commits to a root this server really has, in a row
\* dated no later than the message; only the loop commits to none.  Root and
\* time come from two places at two moments.
RootsWereCommitted ==
    \A m \in message_logs : m.from_root # NoRoot =>
        Committed(m.from_root) /\ CreatedAt(m.from_root) <= m.time

\* Whoever was answered 200 may rely on the peer holding the checkpoint,
\* whatever was sent twice, refused or lost.
AcknowledgedAreStored == acknowledged \subseteq message_logs

\* Stop of a running scheduler returns, unless a peer that never answers holds
\* the loop in http.Post.
StopReturns ==
    stop = "called" /\ loop = "running" ~> stop = "returned" \/ phase[Loop] \in {"posting", "answered"}


\* docs/README.md:21 "PKD servers can be configured to routinely commit"
\* checkpoints onto each other: with an interval and a target, one is sent.
ScheduledCheckpointSent ==
    config.interval /\ config.target ~> body[Loop] # NoMessage \/ stop # "no"
=============================================================================
