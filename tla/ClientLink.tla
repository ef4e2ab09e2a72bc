----------------------------- MODULE ClientLink -----------------------------
(***************************************************************************)
(* The client's connection: TcpManager (Rust, on a thread pool) and        *)
(* connectionStore (JavaScript, one event at a time).  A command of the    *)
(* store runs in the pool in several steps, and its reply comes back like  *)
(* any other event: replies, connection-lost events, timers and clicks     *)
(* reach the store in any order.                                           *)
(***************************************************************************)
EXTENDS Integers, FiniteSets

CONSTANTS
    MaxConns,     \* bound: TCP connections the client opens
    MaxCalls,     \* bound: commands running at the same time
    MaxTimers,    \* bound: armed timers the store has forgotten
    MaxAttempts   \* MAX_RECONNECT_ATTEMPTS

ASSUME LinkAssumption ==
    {MaxConns, MaxCalls, MaxTimers, MaxAttempts} \subseteq Nat

VARIABLES
    \* TcpManager
    writer,          \* the connection of the write half, 0 for None
    readTask,        \* the connection of the stored JoinHandle, 0 for None
    reader,          \* reader[c]: the read task of connection c
    peer,            \* peer[c]: the server's end of connection c
    calls,           \* calls[k]: a connect or disconnect command
    \* connectionStore
    status,
    reconnectTimer,  \* the store holds the id of an armed timer
    orphans,         \* armed timers whose id the store has dropped
    retryCount,
    lost             \* connection-lost events on their way to the store

rustVars == <<writer, readTask, reader, peer>>
jsVars   == <<status, reconnectTimer, orphans, retryCount>>
linkVars == <<rustVars, calls, jsVars, lost>>

Conn == 1 .. MaxConns
Call == 1 .. MaxCalls
Free == [kind |-> "none", step |-> "none", conn |-> 0]

(* Types; the store never counts beyond the limit of attempts.             *)
LinkTypeOK ==
    /\ writer \in 0 .. MaxConns
    /\ readTask \in 0 .. MaxConns
    /\ reader \in [Conn -> {"none", "reading", "ending", "done"}]
    /\ peer \in [Conn -> {"none", "open", "closed"}]
    /\ calls \in [Call -> [kind : {"none", "connect", "disconnect"},
                           step : {"none", "abort", "drop", "dial", "spawn", "store", "ok", "err"},
                           conn : 0 .. MaxConns]]
    /\ status \in {"disconnected", "connecting", "connected"}
    /\ reconnectTimer \in BOOLEAN
    /\ orphans \in 0 .. MaxTimers
    /\ retryCount \in 0 .. MaxAttempts
    /\ lost \in Nat

LinkInit ==
    /\ writer = 0
    /\ readTask = 0
    /\ reader = [c \in Conn |-> "none"]
    /\ peer = [c \in Conn |-> "none"]
    /\ calls = [k \in Call |-> Free]
    /\ status = "disconnected"
    /\ reconnectTimer = FALSE
    /\ orphans = 0
    /\ retryCount = 0
    /\ lost = 0

-----------------------------------------------------------------------------
(***************************************************************************)
(* TcpManager.  Each step ends where the code awaits a lock or the network *)
(* and another thread may run.                                             *)
(***************************************************************************)

At(k, step)   == calls[k].step = step
Goto(k, step) == calls' = [calls EXCEPT ![k].step = step]

\* disconnect, which connect calls first: the stored task is aborted, unless
\* it is past its last await already.
Abort(k) ==
    /\ At(k, "abort")
    /\ Goto(k, "drop")
    /\ readTask' = 0
    /\ reader' = [c \in Conn |-> IF c = readTask /\ reader[c] = "reading"
                                 THEN "done" ELSE reader[c]]
    /\ UNCHANGED <<writer, peer, jsVars, lost>>

\* Mutant of Drop: the write half is kept.
DropNothing(k) ==
    /\ At(k, "drop")
    /\ Goto(k, IF calls[k].kind = "connect" THEN "dial" ELSE "ok")
    /\ UNCHANGED <<rustVars, jsVars, lost>>

\* ... and the write half is dropped, whichever connection it belongs to.
Drop(k) ==
    /\ At(k, "drop")
    /\ Goto(k, IF calls[k].kind = "connect" THEN "dial" ELSE "ok")
    /\ writer' = 0
    /\ UNCHANGED <<readTask, reader, peer, jsVars, lost>>

\* TcpStream::connect succeeds and the write half is stored.
DialOk(k, c) ==
    /\ At(k, "dial")
    /\ peer[c] = "none"
    /\ \A d \in Conn : d < c => peer[d] # "none"
    /\ calls' = [calls EXCEPT ![k] = [kind |-> "connect", step |-> "spawn", conn |-> c]]
    /\ peer' = [peer EXCEPT ![c] = "open"]
    /\ writer' = c
    /\ UNCHANGED <<readTask, reader, jsVars, lost>>

DialFails(k) ==
    /\ At(k, "dial")
    /\ Goto(k, "err")
    /\ UNCHANGED <<rustVars, jsVars, lost>>

\* The read task starts.
Spawn(k) ==
    /\ At(k, "spawn")
    /\ Goto(k, "store")
    /\ reader' = [reader EXCEPT ![calls[k].conn] = "reading"]
    /\ UNCHANGED <<writer, readTask, peer, jsVars, lost>>

\* The handle is stored; a handle it replaces is detached, not aborted.
StoreTask(k) ==
    /\ At(k, "store")
    /\ Goto(k, "ok")
    /\ readTask' = calls[k].conn
    /\ UNCHANGED <<writer, reader, peer, jsVars, lost>>

\* The server closes: it sweeps, refuses or loses the connection, or its read
\* ends because the write half was dropped.
PeerCloses(c) ==
    /\ peer[c] = "open"
    /\ peer' = [peer EXCEPT ![c] = "closed"]
    /\ UNCHANGED <<writer, readTask, reader, calls, jsVars, lost>>

\* The read task gets the end of the stream and goes on to the lock of the
\* write half without a pause: from here an abort is too late.
ReadEnds(c) ==
    /\ reader[c] = "reading"
    /\ peer[c] = "closed"
    /\ reader' = [reader EXCEPT ![c] = "ending"]
    /\ UNCHANGED <<writer, readTask, peer, calls, jsVars, lost>>

\* Mutant of ReportLost: the event is not emitted.
ReportNothing(c) ==
    /\ reader[c] = "ending"
    /\ reader' = [reader EXCEPT ![c] = "done"]
    /\ writer' = 0
    /\ UNCHANGED <<readTask, peer, calls, jsVars, lost>>

\* It clears the shared write half and emits connection-lost.
ReportLost(c) ==
    /\ reader[c] = "ending"
    /\ reader' = [reader EXCEPT ![c] = "done"]
    /\ writer' = 0
    /\ lost' = lost + 1
    /\ UNCHANGED <<readTask, peer, calls, jsVars>>

-----------------------------------------------------------------------------
(***************************************************************************)
(* connectionStore.                                                        *)
(***************************************************************************)

\* A command is handed to the pool.
Invoke(kind) ==
    \E k \in Call :
        /\ calls[k] = Free
        /\ \A j \in Call : j < k => calls[j] # Free
        /\ calls' = [calls EXCEPT ![k] = [kind |-> kind, step |-> "abort", conn |-> 0]]

\* Mutant of ScheduleReconnect: one attempt too many.
ScheduleOneMore(ownTimer) ==
    IF ownTimer \/ retryCount > MaxAttempts
    THEN status' = "disconnected" /\ reconnectTimer' = ownTimer /\ UNCHANGED retryCount
    ELSE status' = "connecting" /\ reconnectTimer' = TRUE /\ retryCount' = retryCount + 1

\* scheduleReconnect on a status that was just set to disconnected.
ScheduleReconnect(ownTimer) ==
    IF ownTimer \/ retryCount >= MaxAttempts
    THEN status' = "disconnected" /\ reconnectTimer' = ownTimer /\ UNCHANGED retryCount
    ELSE status' = "connecting" /\ reconnectTimer' = TRUE /\ retryCount' = retryCount + 1

\* connect: the Connect button and the login form while disconnected, the
\* banner's Retry while it counts down.  The store's timer is cleared.
Connect ==
    /\ status = "disconnected" \/ (status = "connecting" /\ reconnectTimer)
    /\ Invoke("connect")
    /\ status' = "connecting"
    /\ reconnectTimer' = FALSE
    /\ UNCHANGED <<rustVars, orphans, retryCount, lost>>

\* The store's timer fires, or one it has forgotten; either way the id in the
\* store is dropped before connect could clear it.
TimerFires ==
    /\ \/ reconnectTimer /\ orphans' = orphans
       \/ orphans > 0 /\ orphans' = IF reconnectTimer THEN orphans ELSE orphans - 1
    /\ Invoke("connect")
    /\ status' = "connecting"
    /\ reconnectTimer' = FALSE
    /\ UNCHANGED <<rustVars, retryCount, lost>>

\* connect resolves: the id of a timer armed meanwhile is dropped.
ConnectResolves(k) ==
    /\ calls[k].kind = "connect" /\ At(k, "ok")
    /\ calls' = [calls EXCEPT ![k] = Free]
    /\ status' = "connected"
    /\ retryCount' = 0
    /\ reconnectTimer' = FALSE
    /\ orphans' = IF reconnectTimer THEN orphans + 1 ELSE orphans
    /\ orphans' <= MaxTimers
    /\ UNCHANGED <<rustVars, lost>>

ConnectRejects(k) ==
    /\ At(k, "err")
    /\ calls' = [calls EXCEPT ![k] = Free]
    /\ ScheduleReconnect(reconnectTimer)
    /\ UNCHANGED <<rustVars, orphans, lost>>

\* disconnect: the Disconnect button, or a logout.
Disconnect ==
    /\ Invoke("disconnect")
    /\ reconnectTimer' = FALSE
    /\ UNCHANGED <<rustVars, status, orphans, retryCount, lost>>

DisconnectResolves(k) ==
    /\ calls[k].kind = "disconnect" /\ At(k, "ok")
    /\ calls' = [calls EXCEPT ![k] = Free]
    /\ status' = "disconnected"
    /\ retryCount' = 0
    /\ UNCHANGED <<rustVars, reconnectTimer, orphans, lost>>

\* The connection-lost listener: setDisconnected, scheduleReconnect.
ConnectionLost ==
    /\ lost > 0
    /\ lost' = lost - 1
    /\ ScheduleReconnect(reconnectTimer)
    /\ UNCHANGED <<rustVars, calls, orphans>>

\* The banner's x: clearReconnect, and the status stays.
Dismiss ==
    /\ status = "connecting" /\ reconnectTimer
    /\ reconnectTimer' = FALSE
    /\ UNCHANGED <<rustVars, calls, status, orphans, retryCount, lost>>

-----------------------------------------------------------------------------

\* The steps of one command in the pool, and of one read task.
RunCall(k) ==
    \/ Abort(k)
    \/ Drop(k)
    \/ \E c \in Conn : DialOk(k, c)
    \/ DialFails(k)
    \/ Spawn(k)
    \/ StoreTask(k)

RunReader(c) == ReadEnds(c) \/ ReportLost(c)

Resolve(k) == ConnectResolves(k) \/ ConnectRejects(k) \/ DisconnectResolves(k)

\* What the user does to the connection: connecting, and dismissing the banner.
Click == Connect \/ Dismiss

LinkNext ==
    \/ \E k \in Call : RunCall(k) \/ Resolve(k)
    \/ \E c \in Conn : PeerCloses(c) \/ RunReader(c)
    \/ TimerFires
    \/ ConnectionLost
    \/ Click

LinkSpec == LinkInit /\ [][LinkNext \/ Disconnect]_linkVars

(***************************************************************************)
(* Fairness.  The thread pool runs every command and every read task that  *)
(* can go on, and the event loop of the page takes every event.            *)
(***************************************************************************)
LinkFairSpec ==
    /\ LinkSpec
    /\ \A k \in Call : WF_linkVars(RunCall(k)) /\ WF_linkVars(Resolve(k))
    /\ \A c \in Conn : WF_linkVars(RunReader(c))
    /\ WF_linkVars(ConnectionLost)

-----------------------------------------------------------------------------
(***************************************************************************)
(* Properties.                                                             *)
(***************************************************************************)

(* A connection the client can write to has a read task that will report   *)
(* its end, unless its connect is just about to start the task, or a       *)
(* command that aborted the task is just about to drop the write half:     *)
(* however connects and disconnects overlap in the pool, no write half is  *)
(* left behind unwatched.                                                  *)
WriterWatched ==
    writer # 0 => \/ reader[writer] \in {"reading", "ending"}
                  \/ \E k \in Call : At(k, "spawn") /\ calls[k].conn = writer
                  \/ \E k \in Call : At(k, "drop")

(* A write half whose connection the server closed does not stay in use:   *)
(* an open connection replaces it, or it is dropped and the store shows    *)
(* that it is not connected.                                               *)
LostNoticed ==
    (writer # 0 /\ peer[writer] = "closed")
        ~> IF writer # 0 THEN peer[writer] = "open" ELSE status # "connected"
=============================================================================
