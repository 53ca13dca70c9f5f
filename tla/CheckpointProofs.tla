-------------------------- MODULE CheckpointProofs --------------------------
(***************************************************************************)
(* The safety properties of Checkpoint for any number of requests, rows,   *)
(* seconds and configurations, and any faults.  A checkpoint is made of a  *)
(* root, a time and a signature fetched at three moments, so the invariant *)
(* follows the root from the query to the peer's table: a row dated no     *)
(* later than the message has it.                                          *)
(***************************************************************************)
EXTENDS Checkpoint, TLAPS

(* A row with root r is dated t or earlier.                                 *)
CommittedBy(r, t) ==
    \E i \in DOMAIN public_keys :
        public_keys[i].merkle_root = r /\ public_keys[i].created_at <= t

(* Roots are unique, and no row is from the future.                         *)
RowsOK ==
    /\ \A i, j \in DOMAIN public_keys :
         public_keys[i].merkle_root = public_keys[j].merkle_root => i = j
    /\ \A i \in DOMAIN public_keys : public_keys[i].created_at <= clock

(* The message commits to a row that was there at the time it names.        *)
Honest(m) == m.from_root # NoRoot => CommittedBy(m.from_root, m.time)

(* What a sender has read and posted.                                       *)
SenderOK(s) ==
    /\ phase[s] \in {"posting", "answered"} => body[s] # NoMessage
    /\ body[s] # NoMessage => Honest(body[s])
    /\ phase[s] = "read" /\ root[s] # NoRoot => CommittedBy(root[s], clock)
    /\ phase[s] = "answered" /\ answer[s] = "ok" => body[s] \in message_logs

(* Nobody calls Stop before Start.                                          *)
StopAfterStart == loop = "new" => stop = "no"

Inv ==
    /\ TypeOK
    /\ StopAfterStart
    /\ RowsOK
    /\ \A s \in Senders : SenderOK(s)
    /\ \A m \in message_logs : Honest(m)
    /\ acknowledged \subseteq message_logs

-----------------------------------------------------------------------------
(* What the invariant says of rows.                                         *)

Row == [merkle_root : 1..MaxRows, created_at : 0..MaxClock]

LEMMA RowsTyped ==
    ASSUME TypeOK
    PROVE  /\ public_keys \in Seq(Row)
           /\ \A i \in DOMAIN public_keys :
                /\ public_keys[i].merkle_root \in 1..MaxRows
                /\ public_keys[i].created_at \in Nat
           /\ clock \in Nat
<1>1. public_keys \in Seq(Row)
  BY DEF TypeOK, Row
<1>2. \A i \in DOMAIN public_keys : public_keys[i] \in Row
  BY <1>1
<1>3. 0..MaxClock \subseteq Nat
  BY CheckpointAssumption
<1>4. clock \in 0..MaxClock
  BY DEF TypeOK
<1> QED
  BY <1>1, <1>2, <1>3, <1>4 DEF Row

\* A root determines its row.
LEMMA CreatedAtRow ==
    ASSUME RowsOK, NEW i \in DOMAIN public_keys
    PROVE  CreatedAt(public_keys[i].merkle_root) = public_keys[i].created_at
<1> DEFINE k == CHOOSE j \in DOMAIN public_keys :
                  public_keys[j].merkle_root = public_keys[i].merkle_root
<1>1. k \in DOMAIN public_keys /\ public_keys[k].merkle_root = public_keys[i].merkle_root
  OBVIOUS
<1>2. k = i
  BY <1>1 DEF RowsOK
<1> QED
  BY <1>2 DEF CreatedAt

LEMMA RootsCommitted == ASSUME Inv PROVE RootsWereCommitted
<1>1. ASSUME NEW m \in message_logs, m.from_root # NoRoot
      PROVE  Committed(m.from_root) /\ CreatedAt(m.from_root) <= m.time
  <2>1. PICK i \in DOMAIN public_keys :
          public_keys[i].merkle_root = m.from_root /\ public_keys[i].created_at <= m.time
    BY <1>1 DEF Inv, Honest, CommittedBy
  <2>2. CreatedAt(m.from_root) = public_keys[i].created_at
    BY <2>1, CreatedAtRow DEF Inv
  <2> QED
    BY <2>1, <2>2 DEF Committed
<1> QED
  BY <1>1 DEF RootsWereCommitted

-----------------------------------------------------------------------------
(* Types.                                                                   *)

LEMMA TypeInit == ASSUME Init PROVE TypeOK
<1>1. public_keys \in Seq([merkle_root : 1..MaxRows, created_at : 0..MaxClock])
  BY DEF Init
<1> QED
  BY <1>1, CheckpointAssumption DEF Init, TypeOK

\* The scheduler's own steps.
LEMMA TypeScheduler ==
    ASSUME TypeOK, StopAfterStart,
           Start \/ TickerFires \/ ReceiveTick \/ CallStop \/ ReceiveDone
    PROVE  TypeOK'
<1>1. UNCHANGED <<config, clock, public_keys, root, body, answer, message_logs, acknowledged>>
  BY DEF Start, TickerFires, ReceiveTick, CallStop, ReceiveDone
<1>2. phase' \in [Senders -> {"idle", "triggered", "read", "posting", "answered"}]
  BY DEF TypeOK, Start, TickerFires, ReceiveTick, CallStop, ReceiveDone, Senders
<1>3. /\ loop' \in {"new", "off", "running", "gone"}
      /\ tick' => ticker'
      /\ ticker' => loop' = "running" /\ stop' = "no"
      /\ stop' \in {"no", "called", "returned"}
      /\ loop' = "gone" <=> stop' = "returned"
  <2>1. CASE Start
    <3>1. config.interval \in BOOLEAN
      BY CheckpointAssumption DEF TypeOK, Config
    <3>2. stop = "no" /\ stop' = stop /\ tick' = tick /\ ~ticker
      BY <2>1 DEF Start, TypeOK, StopAfterStart
    <3>3. CASE config.interval = TRUE
      <4>1. loop' = "running" /\ ticker' = TRUE
        BY <2>1, <3>3 DEF Start
      <4> QED
        BY <3>2, <4>1
    <3>4. CASE config.interval = FALSE
      <4>1. loop' = "off" /\ ticker' = FALSE
        BY <2>1, <3>4 DEF Start
      <4> QED
        BY <3>2, <4>1 DEF TypeOK
    <3> QED
      BY <3>1, <3>3, <3>4
  <2>2. CASE TickerFires
    BY <2>2 DEF TypeOK, TickerFires
  <2>3. CASE ReceiveTick
    <3>1. tick' = FALSE /\ UNCHANGED <<loop, ticker, stop>>
      BY <2>3 DEF ReceiveTick
    <3> QED
      BY <3>1 DEF TypeOK
  <2>4. CASE CallStop
    BY <2>4 DEF TypeOK, CallStop
  <2>5. CASE ReceiveDone
    BY <2>5 DEF TypeOK, ReceiveDone
  <2> QED
    BY <2>1, <2>2, <2>3, <2>4, <2>5
<1> QED
  BY <1>1, <1>2, <1>3 DEF TypeOK

LEMMA TypeDatabase ==
    ASSUME TypeOK, PassSecond \/ \E r \in 1..MaxRows : CommitKey(r)
    PROVE  TypeOK'
<1>1. UNCHANGED <<config, scheduler, phase, root, body, answer, message_logs, acknowledged>>
  BY DEF PassSecond, CommitKey
<1>2. clock' \in 0..MaxClock
  <2>1. clock \in 0..MaxClock /\ MaxClock \in Nat
    BY CheckpointAssumption DEF TypeOK
  <2>2. clock' = clock \/ (clock < MaxClock /\ clock' = clock + 1)
    BY DEF PassSecond, CommitKey
  <2> QED
    BY <2>1, <2>2
<1>3. public_keys' \in Seq(Row)
  <2>1. CASE PassSecond
    BY <2>1, RowsTyped DEF PassSecond
  <2>2. ASSUME NEW r \in 1..MaxRows, CommitKey(r)
        PROVE  public_keys' \in Seq(Row)
    <3>1. PICK t \in 0..clock :
            public_keys' = Append(public_keys, [merkle_root |-> r, created_at |-> t])
      BY <2>2 DEF CommitKey
    <3> DEFINE new == [merkle_root |-> r, created_at |-> t]
    <3>2. t \in 0..MaxClock
      BY <3>1, CheckpointAssumption DEF TypeOK
    <3>3. new \in Row /\ public_keys' = Append(public_keys, new)
      BY <3>1, <3>2 DEF Row
    <3> HIDE DEF new
    <3> QED
      BY <3>3, RowsTyped
  <2> QED
    BY <2>1, <2>2
<1> QED
  BY <1>1, <1>2, <1>3 DEF TypeOK, scheduler, Row

\* The steps of a sender, its peer and the network.
SenderStep(s) ==
    \/ RequestCheckpoint(s) \/ ReadRoot(s) \/ ReadFails(s)
    \/ Post(s) \/ CannotSign(s)
    \/ PeerHandles(s) \/ Unreachable(s) \/ AnswerLost(s) \/ AnswerArrives(s)

LEMMA RootsRead ==
    ASSUME TypeOK, NEW r \in GetLatestMerkleRoot
    PROVE  r \in 1..MaxRows \cup {NoRoot}
BY RowsTyped DEF GetLatestMerkleRoot

LEMMA TypeSender ==
    ASSUME Inv, NEW s \in Senders, SenderStep(s)
    PROVE  TypeOK'
<1> USE DEF Inv, Return
<1>1. UNCHANGED <<config, clock, public_keys, loop, ticker, tick, stop>>
  BY DEF SenderStep, RequestCheckpoint, ReadRoot, ReadFails, Post, CannotSign, PeerHandles,
     Unreachable, AnswerLost, AnswerArrives, scheduler
<1>2. phase' \in [Senders -> {"idle", "triggered", "read", "posting", "answered"}]
  BY DEF TypeOK, SenderStep, RequestCheckpoint, ReadRoot, ReadFails, Post, CannotSign,
     PeerHandles, Unreachable, AnswerLost, AnswerArrives
<1>3. root' \in [Senders -> 1..MaxRows \cup {NoRoot}]
  BY RootsRead DEF TypeOK, SenderStep, RequestCheckpoint, ReadRoot, ReadFails, Post,
     CannotSign, PeerHandles, Unreachable, AnswerLost, AnswerArrives
<1>4. body' \in [Senders -> CheckpointMessage \cup {NoMessage}]
  <2>1. Message(s) \in CheckpointMessage
    BY DEF TypeOK, Message, CheckpointMessage
  <2> QED
    BY <2>1 DEF TypeOK, SenderStep, RequestCheckpoint, ReadRoot, ReadFails, Post,
       CannotSign, PeerHandles, Unreachable, AnswerLost, AnswerArrives
<1>5. answer' \in [Senders -> {"none", "ok", "refused"}]
  BY DEF TypeOK, SenderStep, RequestCheckpoint, ReadRoot, ReadFails, Post, CannotSign,
     PeerHandles, Unreachable, AnswerLost, AnswerArrives
<1>6. phase[s] \in {"posting", "answered"} => body[s] \in CheckpointMessage
  BY DEF TypeOK, SenderOK
<1>7. message_logs' \subseteq CheckpointMessage /\ acknowledged' \subseteq CheckpointMessage
  BY <1>6 DEF TypeOK, SenderStep, RequestCheckpoint, ReadRoot, ReadFails, Post,
     CannotSign, PeerHandles, Unreachable, AnswerLost, AnswerArrives
<1> QED
  BY <1>1, <1>2, <1>3, <1>4, <1>5, <1>7 DEF TypeOK

-----------------------------------------------------------------------------
(* The invariant, step by step.                                             *)

\* Steps that touch neither rows nor senders, other than to let the loop begin.
LEMMA SchedulerKeeps ==
    ASSUME Inv, Start \/ TickerFires \/ ReceiveTick \/ CallStop \/ ReceiveDone
    PROVE  Inv'
<1>1. TypeOK'
  BY TypeScheduler DEF Inv
<1>2. StopAfterStart'
  BY DEF Inv, StopAfterStart, Start, TickerFires, ReceiveTick, CallStop, ReceiveDone
<1>3. UNCHANGED <<clock, public_keys, root, body, answer, message_logs, acknowledged>>
  BY DEF Start, TickerFires, ReceiveTick, CallStop, ReceiveDone
<1>4. RowsOK' /\ (\A m \in message_logs' : Honest(m)') /\ acknowledged' \subseteq message_logs'
  BY <1>3 DEF Inv, RowsOK, Honest, CommittedBy
<1>5. ASSUME NEW s \in Senders PROVE SenderOK(s)'
  <2>1. phase'[s] = phase[s] \/ phase'[s] \in {"idle", "triggered"}
    BY DEF Inv, TypeOK, Start, TickerFires, ReceiveTick, CallStop, ReceiveDone
  <2>2. SenderOK(s)
    BY DEF Inv
  <2> QED
    BY <1>3, <2>1, <2>2 DEF SenderOK, Honest, CommittedBy
<1> QED
  BY <1>1, <1>2, <1>4, <1>5 DEF Inv

\* A new row, or a second later: what is known of roots stays known.
LEMMA DatabaseKeeps ==
    ASSUME Inv, PassSecond \/ \E r \in 1..MaxRows : CommitKey(r)
    PROVE  Inv'
<1>1. TypeOK'
  BY TypeDatabase DEF Inv
<1>2. UNCHANGED <<loop, ticker, tick, stop, phase, root, body, answer, message_logs, acknowledged>>
  BY DEF PassSecond, CommitKey, scheduler
<1>3. StopAfterStart'
  BY <1>2 DEF Inv, StopAfterStart
<1>4. clock \in Nat /\ clock' \in Nat /\ clock <= clock'
  <2>1. clock \in Nat /\ clock' \in Nat
    BY <1>1, RowsTyped DEF TypeOK, Inv
  <2>2. clock' = clock \/ clock' = clock + 1
    BY DEF PassSecond, CommitKey
  <2> QED
    BY <2>1, <2>2
<1>5. /\ DOMAIN public_keys \subseteq DOMAIN public_keys'
      /\ \A i \in DOMAIN public_keys : public_keys'[i] = public_keys[i]
      /\ RowsOK'
  <2>1. CASE PassSecond
    <3>1. public_keys' = public_keys
      BY <2>1 DEF PassSecond
    <3>2. \A i \in DOMAIN public_keys : public_keys[i].created_at \in Nat
      BY RowsTyped DEF Inv
    <3> QED
      BY <1>4, <3>1, <3>2 DEF Inv, RowsOK
  <2>2. ASSUME NEW r \in 1..MaxRows, CommitKey(r)
        PROVE  /\ DOMAIN public_keys \subseteq DOMAIN public_keys'
               /\ \A i \in DOMAIN public_keys : public_keys'[i] = public_keys[i]
               /\ RowsOK'
    <3>0. PICK t \in 0..clock :
            public_keys' = Append(public_keys, [merkle_root |-> r, created_at |-> t])
      BY <2>2 DEF CommitKey
    <3> DEFINE new == [merkle_root |-> r, created_at |-> t]
    <3>1. /\ public_keys' = Append(public_keys, new) /\ clock' = clock
          /\ \A i \in DOMAIN public_keys : public_keys[i].merkle_root # r
          /\ new.merkle_root = r /\ new.created_at <= clock
      BY <1>4, <2>2, <3>0 DEF CommitKey
    <3> HIDE DEF new
    <3>2. public_keys \in Seq(Row)
      BY RowsTyped DEF Inv
    <3>3. /\ DOMAIN public_keys' = DOMAIN public_keys \cup {Len(public_keys) + 1}
          /\ Len(public_keys) + 1 \notin DOMAIN public_keys
          /\ \A i \in DOMAIN public_keys : public_keys'[i] = public_keys[i]
          /\ public_keys'[Len(public_keys) + 1] = new
      BY <3>1, <3>2
    <3> QED
      BY <1>4, <3>1, <3>3 DEF Inv, RowsOK
  <2> QED
    BY <2>1, <2>2
<1>6. ASSUME NEW r, NEW t, CommittedBy(r, t) PROVE CommittedBy(r, t)'
  BY <1>5, <1>6 DEF CommittedBy
<1>7. ASSUME NEW r, CommittedBy(r, clock)
      PROVE  \E i \in DOMAIN public_keys' :
               public_keys'[i].merkle_root = r /\ public_keys'[i].created_at <= clock'
  <2>1. PICK i \in DOMAIN public_keys :
          public_keys[i].merkle_root = r /\ public_keys[i].created_at <= clock
    BY <1>7 DEF CommittedBy
  <2>2. public_keys[i].created_at \in Nat
    BY RowsTyped DEF Inv
  <2> QED
    BY <1>4, <1>5, <2>1, <2>2
<1>8. \A m \in message_logs' : Honest(m)'
  BY <1>2, <1>6 DEF Inv, Honest
<1>9. ASSUME NEW s \in Senders PROVE SenderOK(s)'
  <2>1. SenderOK(s)
    BY DEF Inv
  <2>2. body[s] # NoMessage => Honest(body[s])'
    BY <1>2, <1>6, <2>1 DEF SenderOK, Honest
  <2>3. phase[s] = "read" /\ root[s] # NoRoot => CommittedBy(root[s], clock)'
    BY <1>2, <1>7, <2>1 DEF SenderOK, CommittedBy
  <2> QED
    BY <1>2, <2>1, <2>2, <2>3 DEF SenderOK, Honest
<1> QED
  BY <1>1, <1>2, <1>3, <1>5, <1>8, <1>9 DEF Inv

LEMMA ReadRootCommitted ==
    ASSUME Inv, NEW r \in GetLatestMerkleRoot, r # NoRoot
    PROVE  CommittedBy(r, clock)
BY DEF GetLatestMerkleRoot, Inv, RowsOK, CommittedBy

\* What a step of sender s leaves alone.
SenderFrame(s) ==
    /\ UNCHANGED <<config, clock, public_keys, loop, ticker, tick, stop>>
    /\ \A t \in Senders \ {s} :
         /\ phase'[t] = phase[t] /\ root'[t] = root[t]
         /\ body'[t] = body[t] /\ answer'[t] = answer[t]
    /\ message_logs \subseteq message_logs'

LEMMA SenderFrameHolds ==
    ASSUME Inv, NEW s \in Senders, SenderStep(s)
    PROVE  SenderFrame(s)
<1>1. UNCHANGED <<config, clock, public_keys, loop, ticker, tick, stop>>
  BY DEF SenderStep, RequestCheckpoint, ReadRoot, ReadFails, Post, CannotSign, PeerHandles,
     Unreachable, AnswerLost, AnswerArrives, scheduler
<1>2. \A t \in Senders \ {s} : phase'[t] = phase[t]
  BY DEF Inv, TypeOK, SenderStep, RequestCheckpoint, ReadRoot, ReadFails, Post, CannotSign,
     PeerHandles, Unreachable, AnswerLost, AnswerArrives, Return
<1>3. \A t \in Senders \ {s} :
        root'[t] = root[t] /\ body'[t] = body[t] /\ answer'[t] = answer[t]
  BY DEF Inv, TypeOK, SenderStep, RequestCheckpoint, ReadRoot, ReadFails, Post, CannotSign,
     PeerHandles, Unreachable, AnswerLost, AnswerArrives, Return
<1>4. message_logs \subseteq message_logs'
  BY DEF SenderStep, RequestCheckpoint, ReadRoot, ReadFails, Post, CannotSign, PeerHandles,
     Unreachable, AnswerLost, AnswerArrives
<1> QED
  BY <1>1, <1>2, <1>3, <1>4 DEF SenderFrame

\* The sender's own part of the invariant.
LEMMA SenderKeepsOK ==
    ASSUME Inv, NEW s \in Senders, SenderStep(s)
    PROVE  SenderOK(s)'
<1>1. UNCHANGED <<clock, public_keys>> /\ message_logs \subseteq message_logs'
  BY SenderFrameHolds DEF SenderFrame
<1>2. SenderOK(s)
  BY DEF Inv
<1>3. /\ phase \in [Senders -> {"idle", "triggered", "read", "posting", "answered"}]
      /\ root \in [Senders -> 1..MaxRows \cup {NoRoot}]
      /\ body \in [Senders -> CheckpointMessage \cup {NoMessage}]
      /\ answer \in [Senders -> {"none", "ok", "refused"}]
  BY DEF Inv, TypeOK
<1>4. ASSUME body' = body, phase'[s] \in {"idle", "triggered"} PROVE SenderOK(s)'
  BY <1>1, <1>2, <1>4 DEF SenderOK, Honest, CommittedBy
<1>5. CASE RequestCheckpoint(s) \/ ReadFails(s) \/ CannotSign(s) \/ Unreachable(s)
            \/ AnswerLost(s) \/ AnswerArrives(s)
  <2>1. body' = body /\ phase'[s] \in {"idle", "triggered"}
    BY <1>3, <1>5 DEF RequestCheckpoint, ReadFails, CannotSign, Unreachable, AnswerLost,
       AnswerArrives, Return
  <2> QED
    BY <1>4, <2>1
<1>6. CASE ReadRoot(s)
  <2>1. PICK r \in GetLatestMerkleRoot :
          IF r = NoRoot /\ s # Loop
          THEN phase' = [phase EXCEPT ![s] = "idle"]
          ELSE /\ phase' = [phase EXCEPT ![s] = "read"]
               /\ root' = [root EXCEPT ![s] = r]
    BY <1>6 DEF ReadRoot, Return
  <2>2. body' = body /\ answer' = answer
    BY <1>6 DEF ReadRoot
  <2>3. CASE r = NoRoot /\ s # Loop
    <3>1. phase'[s] = "idle"
      BY <1>3, <2>1, <2>3
    <3> QED
      BY <1>4, <2>2, <3>1
  <2>4. CASE ~(r = NoRoot /\ s # Loop)
    <3>1. phase'[s] = "read" /\ root'[s] = r
      BY <1>3, <2>1, <2>4
    <3>2. r # NoRoot => CommittedBy(r, clock)
      BY ReadRootCommitted
    <3> QED
      BY <1>1, <1>2, <2>2, <3>1, <3>2 DEF SenderOK, Honest, CommittedBy
  <2> QED
    BY <2>3, <2>4
<1>7. CASE Post(s)
  <2>1. /\ phase[s] = "read" /\ phase'[s] = "posting"
        /\ body'[s] = Message(s) /\ root' = root
    BY <1>3, <1>7 DEF Post
  <2>2. Message(s) \in CheckpointMessage
    BY DEF Inv, TypeOK, Message, CheckpointMessage
  <2>3. body'[s] # NoMessage
    BY <2>1, <2>2, CheckpointAssumption
  <2>4. Honest(Message(s))
    BY <1>2, <2>1 DEF SenderOK, Honest, Message
  <2>5. Honest(body[s])'
    BY <1>1, <2>1, <2>4 DEF Honest, CommittedBy
  <2> QED
    BY <2>1, <2>3, <2>5 DEF SenderOK
<1>8. CASE PeerHandles(s)
  <2>1. /\ phase[s] = "posting" /\ phase'[s] = "answered"
        /\ body' = body
        /\ answer'[s] = "ok" => body[s] \in message_logs'
    BY <1>3, <1>8 DEF PeerHandles
  <2> QED
    BY <1>1, <1>2, <2>1 DEF SenderOK, Honest, CommittedBy
<1> QED
  BY <1>5, <1>6, <1>7, <1>8 DEF SenderStep

LEMMA SenderKeeps ==
    ASSUME Inv, NEW s \in Senders, SenderStep(s)
    PROVE  Inv'
<1>1. TypeOK'
  BY TypeSender
<1>2. SenderFrame(s)
  BY SenderFrameHolds
<1>3. StopAfterStart' /\ RowsOK'
  BY <1>2 DEF SenderFrame, Inv, StopAfterStart, RowsOK
<1>4. ASSUME NEW t \in Senders PROVE SenderOK(t)'
  <2>1. CASE t = s
    BY <2>1, SenderKeepsOK
  <2>2. CASE t # s
    <3>1. SenderOK(t)
      BY DEF Inv
    <3> QED
      BY <1>2, <2>2, <3>1 DEF SenderFrame, SenderOK, Honest, CommittedBy
  <2> QED
    BY <2>1, <2>2
<1>5. SenderOK(s)
  BY DEF Inv
<1>6. ASSUME NEW m \in message_logs' PROVE Honest(m)'
  <2>1. m \in message_logs \/ (phase[s] = "posting" /\ m = body[s])
    BY DEF SenderStep, RequestCheckpoint, ReadRoot, ReadFails, Post, CannotSign, PeerHandles,
       Unreachable, AnswerLost, AnswerArrives
  <2>2. Honest(m)
    BY <1>5, <2>1 DEF SenderOK, Inv
  <2> QED
    BY <1>2, <2>2 DEF SenderFrame, Honest, CommittedBy
<1>7. acknowledged' \subseteq message_logs'
  <2>1. acknowledged' \subseteq acknowledged
          \cup (IF phase[s] = "answered" /\ answer[s] = "ok" THEN {body[s]} ELSE {})
    BY DEF SenderStep, RequestCheckpoint, ReadRoot, ReadFails, Post, CannotSign, PeerHandles,
       Unreachable, AnswerLost, AnswerArrives
  <2> QED
    BY <1>2, <1>5, <2>1 DEF SenderFrame, SenderOK, Inv
<1> QED
  BY <1>1, <1>3, <1>4, <1>6, <1>7 DEF Inv

LEMMA InvInit == ASSUME Init PROVE Inv
<1>1. TypeOK
  BY TypeInit
<1>2. DOMAIN public_keys = {} /\ message_logs = {} /\ acknowledged = {} /\ stop = "no"
  BY DEF Init
<1>3. \A s \in Senders : phase[s] = "idle" /\ body[s] = NoMessage
  BY DEF Init
<1> QED
  BY <1>1, <1>2, <1>3 DEF Inv, StopAfterStart, RowsOK, SenderOK

LEMMA InvNext == ASSUME Inv, [Next]_vars PROVE Inv'
<1>1. CASE PassSecond \/ \E r \in 1..MaxRows : CommitKey(r)
  BY <1>1, DatabaseKeeps
<1>2. CASE Start \/ TickerFires \/ ReceiveTick \/ CallStop \/ ReceiveDone
  BY <1>2, SchedulerKeeps
<1>3. ASSUME NEW s \in Senders, SenderStep(s) PROVE Inv'
  BY <1>3, SenderKeeps
<1>4. CASE UNCHANGED vars
  BY <1>4 DEF vars, scheduler, Inv, TypeOK, StopAfterStart, RowsOK, SenderOK, Honest,
     CommittedBy
<1> QED
  BY <1>1, <1>2, <1>3, <1>4 DEF Next, SenderStep

-----------------------------------------------------------------------------
(* The theorems.                                                            *)

\* Senders, scheduler and tables keep their shapes; the loop is gone exactly when Stop
\* has returned, and a tick needs a ticker that nobody stopped.
THEOREM TypeCorrect == Spec => []TypeOK
<1>1. Inv => TypeOK
  BY DEF Inv
<1> QED
  BY <1>1, InvInit, InvNext, PTL DEF Spec

\* A checkpoint a peer keeps commits to a root that a row of this server has, dated no
\* later than the message (GetLatestMerkleRoot before time.Now in scheduler.go and admin_handler.go).
THEOREM CheckpointsCommitted == Spec => []RootsWereCommitted
<1>1. Inv => RootsWereCommitted
  BY RootsCommitted
<1> QED
  BY <1>1, InvInit, InvNext, PTL DEF Spec

\* An answer of 200 means that the peer holds the checkpoint.
THEOREM AnswersHonest == Spec => []AcknowledgedAreStored
<1>1. Inv => AcknowledgedAreStored
  BY DEF Inv, AcknowledgedAreStored
<1> QED
  BY <1>1, InvInit, InvNext, PTL DEF Spec
==============================================================================
