----------------------------- MODULE ClientProofs -----------------------------
(***************************************************************************)
(* The client's connection and its outbox, for any number of connections,  *)
(* commands, timers, messages and flushes.                                 *)
(*                                                                         *)
(* WriterWatched is inductive with the types: a connect stays at "spawn"   *)
(* until the reader of its write half runs, the only step that takes a     *)
(* reader away from a write half is Abort, and the command that took it    *)
(* stays at "drop" until it has cleared the write half.                    *)
(*                                                                         *)
(* NothingForgotten: what leaves the queue is the message at the head of a *)
(* flush whose send has resolved, so the invariant remembers that such a   *)
(* message was taken by a write half.                                      *)
(***************************************************************************)
EXTENDS Outbox, SequenceTheorems, TLAPS

-----------------------------------------------------------------------------
(***************************************************************************)
(* The connection.                                                         *)
(***************************************************************************)

CallType == [kind : {"none", "connect", "disconnect"},
             step : {"none", "abort", "drop", "dial", "spawn", "store", "ok", "err"},
             conn : 0 .. MaxConns]

LinkIInv == LinkTypeOK /\ WriterWatched

USE LinkAssumption

-----------------------------------------------------------------------------
(* A command that stops at another step than before keeps the types.       *)
LEMMA GotoTypes ==
    ASSUME LinkTypeOK, NEW k \in Call,
           NEW step \in {"none", "abort", "drop", "dial", "spawn", "store", "ok", "err"},
           Goto(k, step)
    PROVE  calls' \in [Call -> CallType]
<1>1. calls \in [Call -> CallType]
  BY DEF LinkTypeOK, CallType
<1>2. [calls[k] EXCEPT !.step = step] \in CallType
  BY <1>1 DEF CallType
<1>3. calls' = [calls EXCEPT ![k] = [calls[k] EXCEPT !.step = step]]
  BY DEF Goto
<1>. QED BY <1>1, <1>2, <1>3

(* A command at neither "spawn" nor "drop" may move on, and a free one may *)
(* start: whoever is at one of these steps stays there.                    *)
LEMMA DropStays ==
    ASSUME LinkTypeOK, NEW k \in Call, calls[k].step \notin {"spawn", "drop"}, NEW r,
           calls' = [calls EXCEPT ![k] = r], WriterWatched,
           writer' = writer, reader' = reader
    PROVE  WriterWatched'
<1>1. calls \in [Call -> CallType]
  BY DEF LinkTypeOK, CallType
<1>2. \A j \in Call : calls[j].step \in {"spawn", "drop"} => calls'[j] = calls[j]
  BY <1>1
<1>. QED BY <1>2 DEF WriterWatched, At

(* The store and TcpManager start within the invariant.                    *)
LEMMA LinkInitIInv == LinkInit => LinkIInv
<1> SUFFICES ASSUME LinkInit PROVE LinkIInv
  OBVIOUS
<1>1. calls \in [Call -> CallType]
  BY DEF LinkInit, Free, CallType
<1>2. reader \in [Conn -> {"none", "reading", "ending", "done"}]
      /\ peer \in [Conn -> {"none", "open", "closed"}]
  BY DEF LinkInit
<1>3. writer = 0 /\ readTask = 0 /\ orphans = 0 /\ retryCount = 0 /\ lost = 0
      /\ status = "disconnected"
  BY DEF LinkInit
<1>4. reconnectTimer \in BOOLEAN
  BY Zenon DEF LinkInit
<1>5. LinkTypeOK
  BY <1>1, <1>2, <1>3, <1>4 DEF LinkTypeOK, CallType
<1>. QED BY <1>3, <1>5 DEF LinkIInv, WriterWatched

-----------------------------------------------------------------------------
(* Every step of a connect or disconnect command of TcpManager.            *)
LEMMA RunCallKeeps ==
    ASSUME LinkIInv, NEW k \in Call, RunCall(k)
    PROVE  LinkIInv'
<1>0. LinkTypeOK /\ WriterWatched /\ calls \in [Call -> CallType]
  BY DEF LinkIInv, LinkTypeOK, CallType
<1>1. CASE Abort(k)
  <2>1. calls' \in [Call -> CallType]
    BY <1>0, <1>1, GotoTypes DEF Abort
  <2>2. LinkTypeOK'
    BY <1>0, <1>1, <2>1 DEF Abort, LinkTypeOK, CallType, jsVars
  <2>3. At(k, "drop")'
    BY <1>0, <1>1 DEF Abort, At, Goto, CallType
  <2>. QED BY <2>2, <2>3 DEF LinkIInv, WriterWatched
<1>2. CASE Drop(k)
  <2>1. calls' \in [Call -> CallType]
    BY <1>0, <1>2, GotoTypes DEF Drop
  <2>2. LinkTypeOK'
    BY <1>0, <1>2, <2>1 DEF Drop, LinkTypeOK, CallType, jsVars
  <2>. QED BY <1>2, <2>2 DEF LinkIInv, WriterWatched, Drop
<1>3. ASSUME NEW c \in Conn, DialOk(k, c) PROVE LinkIInv'
  <2>0. c \in 0 .. MaxConns
    BY DEF Conn
  <2>1. [kind |-> "connect", step |-> "spawn", conn |-> c] \in CallType
    BY <2>0 DEF CallType
  <2>2. /\ calls' = [calls EXCEPT ![k] = [kind |-> "connect", step |-> "spawn", conn |-> c]]
        /\ writer' = c
    BY <1>3 DEF DialOk
  <2>3. calls' \in [Call -> CallType]
    BY <1>0, <2>1, <2>2
  <2>4. LinkTypeOK'
    BY <1>0, <1>3, <2>0, <2>3 DEF DialOk, LinkTypeOK, CallType, jsVars
  <2>5. calls'[k].step = "spawn" /\ calls'[k].conn = writer'
    BY <1>0, <2>2
  <2>. QED BY <2>4, <2>5 DEF LinkIInv, WriterWatched, At
<1>4. CASE DialFails(k)
  <2>1. calls' \in [Call -> CallType]
    BY <1>0, <1>4, GotoTypes DEF DialFails
  <2>2. LinkTypeOK'
    BY <1>0, <1>4, <2>1 DEF DialFails, LinkTypeOK, CallType, jsVars, rustVars
  <2>3. WriterWatched'
    BY <1>0, <1>4, DropStays DEF DialFails, Goto, At, rustVars
  <2>. QED BY <2>2, <2>3 DEF LinkIInv
<1>5. CASE StoreTask(k)
  <2>1. calls' \in [Call -> CallType] /\ calls[k].conn \in 0 .. MaxConns
    BY <1>0, <1>5, GotoTypes DEF StoreTask, CallType
  <2>2. LinkTypeOK'
    BY <1>0, <1>5, <2>1 DEF StoreTask, LinkTypeOK, CallType, jsVars
  <2>3. WriterWatched'
    BY <1>0, <1>5, DropStays DEF StoreTask, Goto, At
  <2>. QED BY <2>2, <2>3 DEF LinkIInv
<1>6. CASE Spawn(k)
  <2>1. calls' \in [Call -> CallType]
    BY <1>0, <1>6, GotoTypes DEF Spawn
  <2>2. LinkTypeOK'
    BY <1>0, <1>6, <2>1 DEF Spawn, LinkTypeOK, CallType, jsVars
  <2>3. writer' = writer /\ \A j \in Call : j # k => calls'[j] = calls[j]
    BY <1>0, <1>6 DEF Spawn, Goto
  <2>4. calls[k].step = "spawn"
    BY <1>6 DEF Spawn, At
  <2>5. \A d \in Conn : \/ reader'[d] = reader[d]
                        \/ reader'[d] = "reading"
    BY <1>0, <1>6 DEF Spawn, LinkTypeOK
  <2>6. calls[k].conn \in Conn => reader'[calls[k].conn] = "reading"
    BY <1>0, <1>6 DEF Spawn, LinkTypeOK
  <2>7. writer # 0 => writer \in Conn
    BY <1>0 DEF LinkTypeOK, Conn
  <2>8. WriterWatched'
    BY <1>0, <2>3, <2>4, <2>5, <2>6, <2>7 DEF WriterWatched, At
  <2>. QED BY <2>2, <2>8 DEF LinkIInv
<1>. QED BY <1>1, <1>2, <1>3, <1>4, <1>5, <1>6 DEF RunCall

(* The steps of the read tasks and of the server's end.                    *)
LEMMA ReaderKeeps ==
    ASSUME LinkIInv, NEW c \in Conn, RunReader(c) \/ PeerCloses(c)
    PROVE  LinkIInv'
<1>0. LinkTypeOK /\ WriterWatched
  BY DEF LinkIInv
<1>1. LinkTypeOK'
  BY <1>0 DEF RunReader, ReadEnds, ReportLost, PeerCloses, LinkTypeOK, jsVars
<1>2. CASE ReadEnds(c)
  <2>1. calls' = calls /\ writer' = writer
    BY <1>2 DEF ReadEnds
  <2>2. \A d \in Conn : reader[d] \in {"reading", "ending"} => reader'[d] \in {"reading", "ending"}
    BY <1>0, <1>2 DEF ReadEnds, LinkTypeOK
  <2>3. writer # 0 => writer \in Conn
    BY <1>0 DEF LinkTypeOK, Conn
  <2>. QED BY <1>0, <1>1, <2>1, <2>2, <2>3 DEF LinkIInv, WriterWatched, At
<1>3. CASE ReportLost(c)
  BY <1>1, <1>3 DEF ReportLost, LinkIInv, WriterWatched
<1>4. CASE PeerCloses(c)
  BY <1>0, <1>1, <1>4 DEF PeerCloses, LinkIInv, WriterWatched, At
<1>. QED BY <1>2, <1>3, <1>4 DEF RunReader

(* A click or a timer starts a command.                                    *)
LEMMA InvokeKeeps ==
    ASSUME LinkIInv, NEW kind \in {"connect", "disconnect"}, Invoke(kind)
    PROVE  calls' \in [Call -> CallType]
           /\ (writer' = writer /\ reader' = reader => WriterWatched')
<1>0. LinkTypeOK /\ WriterWatched /\ calls \in [Call -> CallType]
  BY DEF LinkIInv, LinkTypeOK, CallType
<1>1. PICK k \in Call :
        /\ calls[k] = Free
        /\ calls' = [calls EXCEPT ![k] = [kind |-> kind, step |-> "abort", conn |-> 0]]
  BY DEF Invoke
<1>2. [kind |-> kind, step |-> "abort", conn |-> 0] \in CallType /\ calls[k].step \notin {"spawn", "drop"}
  BY <1>1 DEF CallType, Free
<1>. QED BY <1>0, <1>1, <1>2, DropStays

(* scheduleReconnect counts one attempt, and none at the limit.            *)
LEMMA ScheduleTypes ==
    ASSUME LinkTypeOK, ScheduleReconnect(reconnectTimer)
    PROVE  /\ status' \in {"disconnected", "connecting", "connected"}
           /\ reconnectTimer' \in BOOLEAN
           /\ retryCount' \in 0 .. MaxAttempts
<1>1. status' = "disconnected" \/ status' = "connecting"
  BY Zenon DEF ScheduleReconnect
<1>2. reconnectTimer' = reconnectTimer \/ reconnectTimer' = TRUE
  BY Zenon DEF ScheduleReconnect
<1>3. \/ retryCount' = retryCount
      \/ ~(retryCount >= MaxAttempts) /\ retryCount' = retryCount + 1
  BY Zenon DEF ScheduleReconnect
<1>4. retryCount' \in 0 .. MaxAttempts
  BY <1>3 DEF LinkTypeOK
<1>5. reconnectTimer' \in BOOLEAN
  BY <1>2, Zenon DEF LinkTypeOK
<1>. QED BY <1>1, <1>4, <1>5

(* Clicks, timers and connection-lost events of the store.                 *)
LEMMA StoreKeeps ==
    ASSUME LinkIInv, Click \/ TimerFires \/ Disconnect \/ ConnectionLost
    PROVE  LinkIInv'
<1>0. LinkTypeOK /\ WriterWatched
  BY DEF LinkIInv
<1>1. CASE Connect
  <2>1. calls' \in [Call -> CallType] /\ WriterWatched'
    BY <1>1, InvokeKeeps DEF Connect, rustVars
  <2>2. LinkTypeOK'
    BY <1>0, <1>1, <2>1 DEF Connect, LinkTypeOK, CallType, rustVars
  <2>. QED BY <2>1, <2>2 DEF LinkIInv
<1>2. CASE TimerFires
  <2>1. calls' \in [Call -> CallType] /\ WriterWatched'
    BY <1>2, InvokeKeeps DEF TimerFires, rustVars
  <2>2. LinkTypeOK'
    <3>1. orphans' = orphans \/ (orphans > 0 /\ orphans' = orphans - 1)
      BY <1>2, Zenon DEF TimerFires
    <3>2. orphans' \in 0 .. MaxTimers
      BY <1>0, <3>1 DEF LinkTypeOK
    <3>3. status' = "connecting" /\ UNCHANGED <<rustVars, retryCount, lost>>
      BY <1>2 DEF TimerFires
    <3>4. reconnectTimer' \in BOOLEAN
      BY <1>2, Zenon DEF TimerFires
    <3>. QED BY <1>0, <2>1, <3>2, <3>3, <3>4 DEF LinkTypeOK, CallType, rustVars
  <2>. QED BY <2>1, <2>2 DEF LinkIInv
<1>3. CASE Disconnect
  <2>1. calls' \in [Call -> CallType] /\ WriterWatched'
    BY <1>3, InvokeKeeps DEF Disconnect, rustVars
  <2>2. LinkTypeOK'
    BY <1>0, <1>3, <2>1 DEF Disconnect, LinkTypeOK, CallType, rustVars
  <2>. QED BY <2>1, <2>2 DEF LinkIInv
<1>4. CASE Dismiss
  BY <1>0, <1>4 DEF Dismiss, LinkIInv, LinkTypeOK, WriterWatched, At, rustVars
<1>5. CASE ConnectionLost
  <2>1. LinkTypeOK'
    <3>1. lost' \in Nat
      BY <1>0, <1>5 DEF ConnectionLost, LinkTypeOK
    <3>. QED BY <1>0, <1>5, <3>1, ScheduleTypes DEF ConnectionLost, LinkTypeOK, rustVars
  <2>2. WriterWatched'
    BY <1>0, <1>5 DEF ConnectionLost, WriterWatched, At, rustVars
  <2>. QED BY <2>1, <2>2 DEF LinkIInv
<1>. QED BY <1>1, <1>2, <1>3, <1>4, <1>5 DEF Click

(* A reply of a command frees it.                                          *)
LEMMA ResolveKeeps ==
    ASSUME LinkIInv, NEW k \in Call, Resolve(k)
    PROVE  LinkIInv'
<1>0. LinkTypeOK /\ WriterWatched /\ calls \in [Call -> CallType] /\ Free \in CallType
  BY DEF LinkIInv, LinkTypeOK, CallType, Free
<1>1. /\ calls' = [calls EXCEPT ![k] = Free] /\ calls[k].step \notin {"spawn", "drop"}
      /\ writer' = writer /\ reader' = reader
  BY DEF Resolve, ConnectResolves, ConnectRejects, DisconnectResolves, At, rustVars
<1>2. calls' \in [Call -> CallType] /\ WriterWatched'
  BY <1>0, <1>1, DropStays
<1>3. LinkTypeOK'
  <2>1. CASE ConnectResolves(k)
    <3>1. orphans' = orphans \/ orphans' = orphans + 1
      BY <2>1, Zenon DEF ConnectResolves
    <3>2. orphans' \in 0 .. MaxTimers
      BY <1>0, <2>1, <3>1 DEF ConnectResolves, LinkTypeOK
    <3>3. status' = "connected" /\ retryCount' = 0 /\ UNCHANGED <<rustVars, lost>>
      BY <2>1 DEF ConnectResolves
    <3>4. reconnectTimer' \in BOOLEAN
      BY <2>1, Zenon DEF ConnectResolves
    <3>. QED BY <1>0, <1>2, <3>2, <3>3, <3>4 DEF LinkTypeOK, CallType, rustVars
  <2>2. CASE ConnectRejects(k)
    BY <1>0, <1>2, <2>2, ScheduleTypes DEF ConnectRejects, LinkTypeOK, CallType, rustVars
  <2>3. CASE DisconnectResolves(k)
    BY <1>0, <1>2, <2>3 DEF DisconnectResolves, LinkTypeOK, CallType, rustVars
  <2>. QED BY <2>1, <2>2, <2>3 DEF Resolve
<1>. QED BY <1>2, <1>3 DEF LinkIInv

(* Every step keeps the invariant.                                         *)
LEMMA LinkNextIInv == LinkIInv /\ [LinkNext \/ Disconnect]_linkVars => LinkIInv'
<1> SUFFICES ASSUME LinkIInv, [LinkNext \/ Disconnect]_linkVars PROVE LinkIInv'
  OBVIOUS
<1>1. CASE UNCHANGED linkVars
  BY <1>1 DEF linkVars, rustVars, jsVars, LinkIInv, LinkTypeOK, WriterWatched, At
<1>. QED
  BY <1>1, RunCallKeeps, ResolveKeeps, ReaderKeeps, StoreKeeps DEF LinkNext

-----------------------------------------------------------------------------
(* The inductive invariant holds of every reachable state.                 *)
THEOREM LinkSpecIInv == LinkSpec => []LinkIInv
BY LinkInitIInv, LinkNextIInv, PTL DEF LinkSpec

(* Types; retryCount stays within MAX_RECONNECT_ATTEMPTS.                  *)
THEOREM LinkSpecTypeOK == LinkSpec => []LinkTypeOK
<1>1. LinkIInv => LinkTypeOK
  BY DEF LinkIInv
<1>. QED BY <1>1, LinkSpecIInv, PTL

(* However connect and disconnect commands of TcpManager overlap, a stored *)
(* write half has a read task, or a command is about to drop it.           *)
THEOREM LinkSpecWriterWatched == LinkSpec => []WriterWatched
<1>1. LinkIInv => WriterWatched
  BY DEF LinkIInv
<1>. QED BY <1>1, LinkSpecIInv, PTL

-----------------------------------------------------------------------------
(***************************************************************************)
(* The outbox.                                                             *)
(***************************************************************************)

USE OutboxAssumption
HIDE LinkAssumption

FlushType == [todo : Seq(Msg), send : {"none", "sending", "ok", "err"}]

\* A flush with a send has a message to send, and one whose send resolved has
\* given it to a write half.
Sending(f) ==
    /\ flush[f].send # "none" => flush[f].todo # <<>>
    /\ flush[f].send = "ok" => Head(flush[f].todo) \in taken

\* No message is in the queue twice, and each was composed.
Once ==
    /\ \A i, j \in DOMAIN queue : queue[i] = queue[j] => i = j
    /\ ToSet(queue) \subseteq composed

OutboxIInv ==
    /\ LinkIInv
    /\ TypeOK
    /\ \A f \in Flush : Sending(f)
    /\ Once
    /\ NothingForgotten

-----------------------------------------------------------------------------
(* RemoveAt takes one entry out of a sequence and leaves the others.       *)
LEMMA RemoveAtIs ==
    ASSUME NEW S, NEW s \in Seq(S), NEW p \in DOMAIN s
    PROVE  LET t == RemoveAt(s, p)
           IN  /\ t \in Seq(S) /\ Len(t) = Len(s) - 1
               /\ \A i \in 1 .. Len(t) : t[i] = s[IF i < p THEN i ELSE i + 1]
<1> DEFINE a == SubSeq(s, 1, p - 1)
           b == SubSeq(s, p + 1, Len(s))
           t == a \o b
<1>1. Len(s) \in Nat /\ p \in 1 .. Len(s)
  OBVIOUS
<1>2. a \in Seq(S) /\ Len(a) = p - 1 /\ \A i \in 1 .. p - 1 : a[i] = s[i]
  BY <1>1, SubSeqProperties
<1>3. b \in Seq(S) /\ Len(b) = Len(s) - p /\ \A i \in 1 .. Len(s) - p : b[i] = s[p + i]
  BY <1>1, SubSeqProperties
<1> HIDE DEF a, b
<1>4. t \in Seq(S) /\ Len(t) = Len(s) - 1
  BY <1>1, <1>2, <1>3, ConcatProperties
<1>5. ASSUME NEW i \in 1 .. Len(t) PROVE t[i] = s[IF i < p THEN i ELSE i + 1]
  <2>1. t[i] = IF i <= Len(a) THEN a[i] ELSE b[i - Len(a)]
    BY <1>1, <1>2, <1>3, <1>4, ConcatProperties
  <2>2. CASE i < p
    BY <1>1, <1>2, <2>1, <2>2
  <2>3. CASE ~(i < p)
    <3>1. i - Len(a) \in 1 .. Len(s) - p /\ p + (i - Len(a)) = i + 1 /\ ~(i <= Len(a))
      BY <1>1, <1>2, <1>4, <2>3
    <3>. QED BY <1>3, <2>1, <2>3, <3>1
  <2>. QED BY <2>2, <2>3
<1>. QED BY <1>4, <1>5 DEF RemoveAt, a, b

(* dequeueOfflineMessage leaves every other message in the queue, and      *)
(* keeps the queue without repetition.                                     *)
LEMMA DequeueIs ==
    ASSUME TypeOK, Once, NEW f \in Flush
    PROVE  /\ Dequeue(f) \in Seq(Msg)
           /\ ToSet(Dequeue(f)) = ToSet(queue) \ {Head(flush[f].todo)}
           /\ \A i, j \in DOMAIN Dequeue(f) : Dequeue(f)[i] = Dequeue(f)[j] => i = j
<1> DEFINE m == Head(flush[f].todo)
           p == CHOOSE i \in DOMAIN queue : queue[i] = m
           t == RemoveAt(queue, p)
<1>0. /\ queue \in Seq(Msg) /\ Len(queue) \in Nat /\ DOMAIN queue = 1 .. Len(queue)
      /\ \A i, j \in DOMAIN queue : queue[i] = queue[j] => i = j
  BY DEF TypeOK, Once
<1>1. Dequeue(f) = IF m \in ToSet(queue) THEN t ELSE queue
  BY DEF Dequeue
<1>2. m \in ToSet(queue) => p \in DOMAIN queue /\ queue[p] = m
  BY DEF ToSet
<1> HIDE DEF p, m
<1>3. CASE m \notin ToSet(queue)
  BY <1>0, <1>1, <1>3 DEF m
<1>4. CASE m \in ToSet(queue)
  <2>1. /\ t \in Seq(Msg) /\ Len(t) = Len(queue) - 1
        /\ \A i \in 1 .. Len(t) : t[i] = queue[IF i < p THEN i ELSE i + 1]
    <3>1. queue \in Seq(Msg) /\ p \in DOMAIN queue
      BY <1>0, <1>2, <1>4
    <3>. QED BY <3>1, RemoveAtIs, Zenon
  <2>. HIDE DEF t
  <2>2. DOMAIN t = 1 .. Len(t) /\ p \in 1 .. Len(queue) /\ queue[p] = m
    BY <1>0, <1>2, <1>4, <2>1
  <2>3. ASSUME NEW i \in DOMAIN t
        PROVE  \E k \in DOMAIN queue : k # p /\ t[i] = queue[k]
    BY <1>0, <2>1, <2>2
  <2>4. ASSUME NEW k \in DOMAIN queue, k # p
        PROVE  \E i \in DOMAIN t : t[i] = queue[k]
    <3>1. CASE k < p
      <4>1. k \in DOMAIN t
        BY <1>0, <2>1, <2>2, <3>1
      <4>. QED BY <2>1, <2>2, <3>1, <4>1
    <3>2. CASE ~(k < p)
      <4>1. k - 1 \in DOMAIN t /\ ~(k - 1 < p) /\ (k - 1) + 1 = k
        BY <1>0, <2>1, <2>2, <2>4, <3>2
      <4>. QED BY <2>1, <2>2, <4>1
    <3>. QED BY <3>1, <3>2
  <2>5. ToSet(t) = ToSet(queue) \ {m}
    BY <1>0, <2>2, <2>3, <2>4 DEF ToSet
  <2>6. ASSUME NEW i \in DOMAIN t, NEW j \in DOMAIN t, t[i] = t[j] PROVE i = j
    <3> DEFINE Old(x) == IF x < p THEN x ELSE x + 1
    <3>1. Old(i) \in DOMAIN queue /\ Old(j) \in DOMAIN queue
      BY <1>0, <2>1, <2>2
    <3>2. queue[Old(i)] = queue[Old(j)]
      BY <2>1, <2>2, <2>6
    <3>3. Old(i) = Old(j)
      BY <1>0, <3>1, <3>2
    <3>. QED BY <1>0, <2>2, <3>3
  <2>. QED BY <1>1, <1>4, <2>1, <2>5, <2>6 DEF m
<1>. QED BY <1>3, <1>4

(* A message at the end of the queue.                                      *)
LEMMA ToSetAppend ==
    ASSUME NEW S, NEW s \in Seq(S), NEW m \in S
    PROVE  ToSet(Append(s, m)) = ToSet(s) \cup {m}
<1> DEFINE t == Append(s, m)
<1>1. /\ Len(s) \in Nat /\ DOMAIN s = 1 .. Len(s) /\ DOMAIN t = 1 .. Len(s) + 1
      /\ t[Len(s) + 1] = m /\ \A i \in 1 .. Len(s) : t[i] = s[i]
  OBVIOUS
<1> HIDE DEF t
<1>2. DOMAIN t = DOMAIN s \cup {Len(s) + 1}
  BY <1>1
<1>3. ToSet(t) = ToSet(s) \cup {m}
  BY <1>1, <1>2 DEF ToSet
<1>. QED BY <1>3 DEF t

(* A flush that begins to send has a message.                              *)
LEMMA SendNextIs ==
    ASSUME NEW todo \in Seq(Msg)
    PROVE  /\ SendNext(todo) \in FlushType
           /\ SendNext(todo).send # "ok"
           /\ SendNext(todo).send # "none" => SendNext(todo).todo # <<>>
BY DEF SendNext, Done, FlushType

(* One flush changes, the others and what was taken stay.                  *)
LEMMA FlushStep ==
    ASSUME TypeOK, \A f \in Flush : Sending(f), NEW f \in Flush, NEW r \in FlushType,
           flush' = [flush EXCEPT ![f] = r], taken \subseteq taken',
           r.send # "none" => r.todo # <<>>, r.send = "ok" => Head(r.todo) \in taken'
    PROVE  flush' \in [Flush -> FlushType] /\ \A g \in Flush : Sending(g)'
<1>1. flush \in [Flush -> FlushType]
  BY DEF TypeOK, FlushType
<1>2. flush' \in [Flush -> FlushType]
  BY <1>1
<1>3. ASSUME NEW g \in Flush PROVE Sending(g)'
  <2>1. flush'[g] = IF g = f THEN r ELSE flush[g]
    BY <1>1
  <2>2. Sending(g)
    OBVIOUS
  <2>. QED BY <2>1, <2>2 DEF Sending
<1>. QED BY <1>2, <1>3

-----------------------------------------------------------------------------
(* The queue, the flushes and the histories stay; the connection moves.    *)
LEMMA LinkStep ==
    ASSUME OutboxIInv, LinkIInv', wanted' \in BOOLEAN, signedIn' \in BOOLEAN,
           UNCHANGED <<queue, flush, authed, composed, taken, stored>>
    PROVE  OutboxIInv'
<1>1. TypeOK'
  BY DEF OutboxIInv, LinkIInv, TypeOK
<1>2. \A f \in Flush : Sending(f)'
  BY DEF OutboxIInv, Sending
<1>. QED BY <1>1, <1>2 DEF OutboxIInv, Once, NothingForgotten

(* The connection and the queue stay; one flush goes on.                   *)
LEMMA FlushKeeps ==
    ASSUME OutboxIInv, UNCHANGED <<linkVars, queue, signedIn, authed, composed>>,
           wanted' \in BOOLEAN, NEW f \in Flush, NEW r \in FlushType,
           flush' = [flush EXCEPT ![f] = r], taken \subseteq taken',
           taken' \in SUBSET Msg, stored' \in SUBSET Msg,
           r.send # "none" => r.todo # <<>>, r.send = "ok" => Head(r.todo) \in taken'
    PROVE  OutboxIInv'
<1>1. LinkIInv'
  BY LinkNextIInv DEF OutboxIInv
<1>2. flush' \in [Flush -> FlushType] /\ \A g \in Flush : Sending(g)'
  BY FlushStep DEF OutboxIInv
<1>3. TypeOK'
  BY <1>1, <1>2 DEF OutboxIInv, LinkIInv, TypeOK, FlushType
<1>. QED BY <1>1, <1>2, <1>3 DEF OutboxIInv, Once, NothingForgotten

(* Every step of the outbox and of the connection below it.                *)
LEMMA OutboxNextIInv == OutboxIInv /\ [Next]_vars => OutboxIInv'
<1> SUFFICES ASSUME OutboxIInv, [Next]_vars PROVE OutboxIInv'
  OBVIOUS
<1>0. /\ LinkIInv /\ TypeOK /\ (\A f \in Flush : Sending(f)) /\ Once /\ NothingForgotten
      /\ flush \in [Flush -> FlushType]
      /\ queue \in Seq(Msg) /\ taken \in SUBSET Msg /\ stored \in SUBSET Msg /\ composed \in SUBSET Msg
  BY DEF OutboxIInv, TypeOK, FlushType
<1>a. ASSUME UNCHANGED linkVars PROVE LinkIInv'
  BY <1>0, <1>a, LinkNextIInv
<1>1. CASE Link(LinkNext)
  <2>1. LinkIInv'
    BY <1>0, <1>1, LinkNextIInv DEF Link
  <2>2. wanted' \in BOOLEAN
    <3>1. wanted' = wanted \/ wanted' = (status' = "connected")
      BY <1>1, Zenon DEF Link, StatusEffect
    <3>. QED BY <1>0, <3>1, Zenon DEF TypeOK
  <2>3. signedIn' \in BOOLEAN /\ UNCHANGED <<queue, flush, authed, composed, taken, stored>>
    BY <1>0, <1>1 DEF Link, TypeOK
  <2>. QED BY <2>1, <2>2, <2>3, LinkStep
<1>2. ASSUME NEW m \in Msg, Compose(m) PROVE OutboxIInv'
  <2>1. /\ m \notin composed /\ queue' = Append(queue, m) /\ composed' = composed \cup {m}
        /\ UNCHANGED <<linkVars, wanted, flush, signedIn, authed, taken, stored>>
    BY <1>2 DEF Compose
  <2>2. LinkIInv'
    BY <1>a, <2>1
  <2>3. queue' \in Seq(Msg) /\ ToSet(queue') = ToSet(queue) \cup {m}
    BY <1>0, <2>1, ToSetAppend
  <2>4. TypeOK'
    BY <1>0, <2>1, <2>2, <2>3 DEF TypeOK, LinkIInv
  <2>5. \A f \in Flush : Sending(f)'
    BY <1>0, <2>1 DEF Sending
  <2>6. Once'
    <3>1. m \notin ToSet(queue) /\ \A i, j \in DOMAIN queue : queue[i] = queue[j] => i = j
      BY <1>0, <2>1 DEF Once
    <3>2. /\ Len(queue) \in Nat /\ DOMAIN queue = 1 .. Len(queue)
          /\ DOMAIN queue' = DOMAIN queue \cup {Len(queue) + 1} /\ queue'[Len(queue) + 1] = m
          /\ \A i \in DOMAIN queue : queue'[i] = queue[i]
      BY <1>0, <2>1
    <3>3. \A i, j \in DOMAIN queue' : queue'[i] = queue'[j] => i = j
      BY <3>1, <3>2 DEF ToSet
    <3>. QED BY <1>0, <2>1, <2>3, <3>3 DEF Once
  <2>7. NothingForgotten'
    BY <1>0, <2>1, <2>3 DEF NothingForgotten
  <2>. QED BY <2>2, <2>4, <2>5, <2>6, <2>7 DEF OutboxIInv
<1>3. CASE StartFlush
  <2>1. PICK f \in Flush : flush' = [flush EXCEPT ![f] = SendNext(queue)]
    BY <1>3 DEF StartFlush
  <2>2. UNCHANGED <<linkVars, queue, signedIn, authed, composed, taken, stored>>
    BY <1>3 DEF StartFlush
  <2>3. wanted' \in BOOLEAN
    BY <1>3, Zenon DEF StartFlush
  <2>4. /\ SendNext(queue) \in FlushType /\ SendNext(queue).send # "ok"
        /\ SendNext(queue).send # "none" => SendNext(queue).todo # <<>>
    BY <1>0, SendNextIs
  <2>. QED BY <1>0, <2>1, <2>2, <2>3, <2>4, FlushKeeps
<1>4. ASSUME NEW f \in Flush, Write(f) PROVE OutboxIInv'
  <2> DEFINE m == Head(flush[f].todo)
  <2>1. /\ flush[f] \in FlushType /\ flush[f].send = "sending" /\ flush[f].todo # <<>>
        /\ flush[f].todo \in Seq(Msg) /\ m \in Msg
    <3>1. flush[f] \in FlushType /\ flush[f].send = "sending" /\ flush[f].todo # <<>>
      BY <1>0, <1>4 DEF Write, Sending
    <3>2. flush[f].todo \in Seq(Msg)
      BY <3>1 DEF FlushType
    <3>. QED BY <3>1, <3>2
  <2>2. UNCHANGED <<linkVars, queue, wanted, signedIn, authed, composed>>
    BY <1>4 DEF Write
  <2>3. \/ /\ flush' = [flush EXCEPT ![f] = [flush[f] EXCEPT !.send = "ok"]]
           /\ taken' = taken \cup {m} /\ (stored' = stored \cup {m} \/ stored' = stored)
        \/ /\ flush' = [flush EXCEPT ![f] = [flush[f] EXCEPT !.send = "err"]]
           /\ taken' = taken /\ stored' = stored
    BY <1>4, Zenon DEF Write
  <2>4. ASSUME NEW x \in {"ok", "err"}
        PROVE  LET r == [flush[f] EXCEPT !.send = x]
               IN  r \in FlushType /\ r.send = x /\ r.todo = flush[f].todo
    BY <2>1 DEF FlushType
  <2>5. wanted' \in BOOLEAN
    BY <1>0, <2>2 DEF TypeOK
  <2>6. CASE /\ flush' = [flush EXCEPT ![f] = [flush[f] EXCEPT !.send = "ok"]]
             /\ taken' = taken \cup {m} /\ (stored' = stored \cup {m} \/ stored' = stored)
    <3> DEFINE r == [flush[f] EXCEPT !.send = "ok"]
    <3>1. r \in FlushType /\ r.send = "ok" /\ r.todo = flush[f].todo /\ flush' = [flush EXCEPT ![f] = r]
      BY <2>4, <2>6
    <3>. HIDE DEF r
    <3>2. taken' \in SUBSET Msg /\ stored' \in SUBSET Msg /\ Head(r.todo) \in taken' /\ taken \subseteq taken'
      BY <1>0, <2>1, <2>6, <3>1
    <3>. QED BY <2>1, <2>2, <2>5, <3>1, <3>2, FlushKeeps
  <2>7. CASE /\ flush' = [flush EXCEPT ![f] = [flush[f] EXCEPT !.send = "err"]]
             /\ taken' = taken /\ stored' = stored
    <3> DEFINE r == [flush[f] EXCEPT !.send = "err"]
    <3>1. r \in FlushType /\ r.send = "err" /\ r.todo = flush[f].todo /\ flush' = [flush EXCEPT ![f] = r]
      BY <2>4, <2>7
    <3>. HIDE DEF r
    <3>. QED BY <1>0, <2>1, <2>2, <2>5, <2>7, <3>1, FlushKeeps
  <2>. QED BY <2>3, <2>6, <2>7
<1>5. ASSUME NEW f \in Flush, SendResolves(f) PROVE OutboxIInv'
  <2> DEFINE m == Head(flush[f].todo)
             r == SendNext(Tail(flush[f].todo))
  <2>1. /\ flush[f].send = "ok" /\ queue' = Dequeue(f) /\ flush' = [flush EXCEPT ![f] = r]
        /\ UNCHANGED <<linkVars, wanted, signedIn, authed, composed, taken, stored>>
    BY <1>5 DEF SendResolves
  <2>2. flush[f].todo # <<>> /\ m \in taken
    BY <1>0, <2>1 DEF Sending
  <2>3. r \in FlushType /\ r.send # "ok" /\ (r.send # "none" => r.todo # <<>>)
    <3>1. flush[f].todo \in Seq(Msg)
      BY <1>0 DEF FlushType
    <3>2. Tail(flush[f].todo) \in Seq(Msg)
      BY <2>2, <3>1
    <3>. QED BY <3>2, SendNextIs
  <2>4. /\ queue' \in Seq(Msg) /\ ToSet(queue') = ToSet(queue) \ {m}
        /\ \A i, j \in DOMAIN queue' : queue'[i] = queue'[j] => i = j
    BY <1>0, <2>1, DequeueIs
  <2>. HIDE DEF m, r
  <2>5. LinkIInv'
    BY <1>a, <2>1
  <2>6. flush' \in [Flush -> FlushType] /\ \A g \in Flush : Sending(g)'
    BY <1>0, <2>1, <2>3, FlushStep
  <2>7. TypeOK'
    BY <1>0, <2>1, <2>4, <2>5, <2>6 DEF TypeOK, LinkIInv, FlushType
  <2>8. Once' /\ NothingForgotten'
    BY <1>0, <2>1, <2>2, <2>4 DEF Once, NothingForgotten
  <2>. QED BY <2>5, <2>6, <2>7, <2>8 DEF OutboxIInv
<1>6. ASSUME NEW f \in Flush, SendRejects(f) PROVE OutboxIInv'
  <2>1. /\ flush' = [flush EXCEPT ![f] = Done]
        /\ UNCHANGED <<linkVars, queue, wanted, signedIn, authed, composed, taken, stored>>
    BY <1>6 DEF SendRejects
  <2>2. Done \in FlushType /\ Done.send = "none"
    BY DEF Done, FlushType
  <2>3. wanted' \in BOOLEAN
    BY <1>0, <2>1 DEF TypeOK
  <2>. QED BY <1>0, <2>1, <2>2, <2>3, FlushKeeps
<1>7. CASE Login
  <2>1. /\ writer # 0 /\ authed' = authed \cup {writer}
        /\ UNCHANGED <<linkVars, queue, wanted, flush, composed, taken, stored>>
    BY <1>7 DEF Login
  <2>2. signedIn' \in BOOLEAN
    BY <1>7, Zenon DEF Login
  <2>3. LinkIInv'
    BY <1>a, <2>1
  <2>4. authed' \in SUBSET Conn
    BY <1>0, <2>1 DEF TypeOK, LinkTypeOK, Conn
  <2>5. TypeOK'
    BY <1>0, <2>1, <2>2, <2>3, <2>4 DEF TypeOK, LinkIInv
  <2>6. \A f \in Flush : Sending(f)'
    BY <1>0, <2>1 DEF Sending
  <2>. QED BY <1>0, <2>1, <2>3, <2>5, <2>6 DEF OutboxIInv, Once, NothingForgotten
<1>8. CASE DisconnectButton
  <2>1. LinkIInv'
    BY <1>0, <1>8, LinkNextIInv DEF DisconnectButton
  <2>2. UNCHANGED <<wanted, signedIn, queue, flush, authed, composed, taken, stored>>
    BY <1>8 DEF DisconnectButton, outboxVars
  <2>3. wanted' \in BOOLEAN /\ signedIn' \in BOOLEAN
    BY <1>0, <2>2 DEF TypeOK
  <2>. QED BY <2>1, <2>2, <2>3, LinkStep
<1>9. CASE Logout
  <2>1. LinkIInv'
    BY <1>0, <1>9, LinkNextIInv DEF Logout
  <2>2. UNCHANGED <<wanted, queue, flush, authed, composed, taken, stored>>
    BY <1>9 DEF Logout
  <2>3. wanted' \in BOOLEAN
    BY <1>0, <2>2 DEF TypeOK
  <2>4. signedIn' \in BOOLEAN
    BY <1>9, Zenon DEF Logout
  <2>. QED BY <2>1, <2>2, <2>3, <2>4, LinkStep
<1>10. CASE Restart
  <2>1. /\ writer' = 0 /\ readTask' = 0 /\ orphans' = 0 /\ retryCount' = 0 /\ lost' = 0
        /\ status' = "disconnected" /\ flush' = [f \in Flush |-> Done]
        /\ UNCHANGED <<queue, authed, composed, taken, stored>>
    BY <1>10 DEF Restart
  <2>2. reconnectTimer' \in BOOLEAN /\ wanted' \in BOOLEAN /\ signedIn' \in BOOLEAN
    BY <1>10, Zenon DEF Restart
  <2>3. calls' \in [Call -> CallType]
    BY <1>10, LinkAssumption DEF Restart, Free, CallType
  <2>4. /\ reader' \in [Conn -> {"none", "reading", "ending", "done"}]
        /\ peer' \in [Conn -> {"none", "open", "closed"}]
    BY <1>10 DEF Restart
  <2>5. LinkIInv'
    BY <2>1, <2>2, <2>3, <2>4, LinkAssumption DEF LinkIInv, LinkTypeOK, CallType, WriterWatched
  <2>6. flush' \in [Flush -> FlushType] /\ \A f \in Flush : flush'[f].send = "none"
    BY <2>1 DEF Done, FlushType
  <2>7. TypeOK'
    BY <1>0, <2>1, <2>2, <2>5, <2>6 DEF TypeOK, LinkIInv, FlushType
  <2>8. \A f \in Flush : Sending(f)'
    BY <2>6 DEF Sending
  <2>. QED BY <1>0, <2>1, <2>5, <2>7, <2>8 DEF OutboxIInv, Once, NothingForgotten
<1>11. CASE UNCHANGED vars
  <2>1. UNCHANGED <<linkVars, wanted, signedIn, queue, flush, authed, composed, taken, stored>>
    BY <1>11 DEF vars, outboxVars
  <2>2. wanted' \in BOOLEAN /\ signedIn' \in BOOLEAN
    BY <1>0, <2>1 DEF TypeOK
  <2>. QED BY <1>a, <2>1, <2>2, LinkStep
<1>. QED
  BY <1>1, <1>2, <1>3, <1>4, <1>5, <1>6, <1>7, <1>8, <1>9, <1>10, <1>11 DEF Next

(* The client starts with an empty queue.                                  *)
LEMMA OutboxInitIInv == Init => OutboxIInv
<1> SUFFICES ASSUME Init PROVE OutboxIInv
  OBVIOUS
<1>1. LinkIInv
  BY LinkInitIInv DEF Init
<1>2. queue = <<>> /\ authed = {} /\ composed = {} /\ taken = {} /\ stored = {} /\ DOMAIN <<>> = {}
  BY DEF Init
<1>3. wanted \in BOOLEAN /\ signedIn \in BOOLEAN
  BY Zenon DEF Init
<1>4. flush \in [Flush -> FlushType] /\ \A f \in Flush : flush[f].send = "none"
  BY DEF Init, Done, FlushType
<1>5. TypeOK
  BY <1>1, <1>2, <1>3, <1>4 DEF TypeOK, LinkIInv, FlushType
<1>. QED BY <1>1, <1>2, <1>4, <1>5 DEF OutboxIInv, Sending, Once, NothingForgotten, ToSet

-----------------------------------------------------------------------------
(* The inductive invariant holds of every reachable state.                 *)
THEOREM SpecIInv == Spec => []OutboxIInv
BY OutboxInitIInv, OutboxNextIInv, PTL DEF Spec

(* Types, of the connection below the outbox as well.                      *)
THEOREM SpecTypeOK == Spec => []TypeOK
<1>1. OutboxIInv => TypeOK
  BY DEF OutboxIInv
<1>. QED BY <1>1, SpecIInv, PTL

(* A message composed offline stays in localStorage until a write half has *)
(* taken it: no failing or overlapping flush, restart or reconnect loses   *)
(* one.                                                                    *)
THEOREM SpecNothingForgotten == Spec => []NothingForgotten
<1>1. OutboxIInv => NothingForgotten
  BY DEF OutboxIInv
<1>. QED BY <1>1, SpecIInv, PTL

(* The queue holds a message at most once, and only what was composed; so  *)
(* dequeueOfflineMessage, which filters by the id, removes one entry.      *)
THEOREM SpecOnce == Spec => []Once
<1>1. OutboxIInv => Once
  BY DEF OutboxIInv
<1>. QED BY <1>1, SpecIInv, PTL

(* WriterWatched of the connection holds with the outbox on top of it,     *)
(* through restarts of the client.                                         *)
THEOREM SpecWriterWatched == Spec => []WriterWatched
<1>1. OutboxIInv => WriterWatched
  BY DEF OutboxIInv, LinkIInv
<1>. QED BY <1>1, SpecIInv, PTL
=============================================================================
