------------------------------- MODULE Outbox -------------------------------
(***************************************************************************)
(* Messages composed while the client is not connected: the offline queue  *)
(* in localStorage and flushOfflineQueue of messageStore, on top of the    *)
(* connection of ClientLink.  The queue outlives the client.  A flush      *)
(* starts whenever the store becomes connected and sends one message after *)
(* the other; each send is a command whose reply comes back later.         *)
(*                                                                         *)
(* The server stores a message only on a connection that has logged in,    *)
(* and the client logs in only from the login form.                        *)
(***************************************************************************)
EXTENDS ClientLink, Sequences, SequencesExt

CONSTANTS
    Msg,       \* messages, each composed once
    MaxFlush   \* bound: flushes running at the same time

ASSUME OutboxAssumption == MaxFlush \in Nat

VARIABLES
    queue,     \* the offline queue in localStorage
    wanted,    \* the effect of App that starts a flush is due
    flush,     \* flush[f]: what a running flush has left, and its send
    signedIn,  \* currentUser is set
    authed,    \* connections that are logged in at the server
    composed,  \* history: messages that entered the queue
    taken,     \* history: messages a write half took
    stored     \* messages the server stored

outboxVars == <<queue, wanted, flush, signedIn, authed, composed, taken, stored>>
vars == <<linkVars, outboxVars>>

Flush == 1 .. MaxFlush
Done  == [todo |-> <<>>, send |-> "none"]

(* Types; a flush waits for the reply of one send at a time.               *)
TypeOK ==
    /\ LinkTypeOK
    /\ queue \in Seq(Msg)
    /\ wanted \in BOOLEAN
    /\ flush \in [Flush -> [todo : Seq(Msg), send : {"none", "sending", "ok", "err"}]]
    /\ signedIn \in BOOLEAN
    /\ authed \in SUBSET Conn
    /\ composed \in SUBSET Msg
    /\ taken \in SUBSET Msg
    /\ stored \in SUBSET Msg

Init ==
    /\ LinkInit
    /\ queue = <<>>
    /\ wanted = FALSE
    /\ flush = [f \in Flush |-> Done]
    /\ signedIn = FALSE
    /\ authed = {}
    /\ composed = {}
    /\ taken = {}
    /\ stored = {}

-----------------------------------------------------------------------------

\* App's effect on connectionStatus is due once the store becomes connected.
StatusEffect ==
    wanted' = IF status' = status THEN wanted ELSE status' = "connected"

\* sendPrivateMessage and sendGroupMessage without a connection.
Compose(m) ==
    /\ signedIn
    /\ status # "connected"
    /\ m \notin composed
    /\ queue' = Append(queue, m)
    /\ composed' = composed \cup {m}
    /\ UNCHANGED <<linkVars, wanted, flush, signedIn, authed, taken, stored>>

\* sendRawJson throws unless the store is connected; the flush then ends.
SendNext(todo) ==
    IF todo # <<>> /\ status = "connected"
    THEN [todo |-> todo, send |-> "sending"] ELSE Done

StartFlush ==
    /\ wanted
    /\ wanted' = FALSE
    /\ \E f \in Flush :
         /\ flush[f] = Done
         /\ \A g \in Flush : g < f => flush[g] # Done
         /\ flush' = [flush EXCEPT ![f] = SendNext(queue)]
    /\ UNCHANGED <<linkVars, queue, signedIn, authed, composed, taken, stored>>

\* send_json takes the message, fails without a write half, and may fail on a
\* connection that is closed at the other end.
Write(f) ==
    LET m == Head(flush[f].todo) IN
    /\ flush[f].send = "sending"
    /\ \/ /\ writer # 0
          /\ flush' = [flush EXCEPT ![f].send = "ok"]
          /\ taken' = taken \cup {m}
          /\ stored' = IF peer[writer] = "open" /\ writer \in authed
                       THEN stored \cup {m} ELSE stored
       \/ /\ writer # 0 => peer[writer] = "closed"
          /\ flush' = [flush EXCEPT ![f].send = "err"]
          /\ UNCHANGED <<taken, stored>>
    /\ UNCHANGED <<linkVars, queue, wanted, signedIn, authed, composed>>

\* Mutant of Dequeue: the queue as the flush read it is written back.
DequeueSnapshot(f) == Tail(flush[f].todo)

\* dequeueOfflineMessage: the queue is read again and filtered by the id of
\* the message, which is in it once or, after another flush, not at all.
Dequeue(f) ==
    LET m == Head(flush[f].todo) IN
    IF m \in ToSet(queue)
    THEN RemoveAt(queue, CHOOSE i \in DOMAIN queue : queue[i] = m) ELSE queue

\* The send resolves; the message leaves the queue and the next one is sent.
SendResolves(f) ==
    /\ flush[f].send = "ok"
    /\ queue' = Dequeue(f)
    /\ flush' = [flush EXCEPT ![f] = SendNext(Tail(@.todo))]
    /\ UNCHANGED <<linkVars, wanted, signedIn, authed, composed, taken, stored>>

\* The send fails: the queue is kept and the flush ends.
SendRejects(f) ==
    /\ flush[f].send = "err"
    /\ flush' = [flush EXCEPT ![f] = Done]
    /\ UNCHANGED <<linkVars, queue, wanted, signedIn, authed, composed, taken, stored>>

\* A login over the present connection that succeeds.
Login ==
    /\ ~signedIn
    /\ status = "connected"
    /\ writer # 0
    /\ peer[writer] = "open"
    /\ signedIn' = TRUE
    /\ authed' = authed \cup {writer}
    /\ UNCHANGED <<linkVars, queue, wanted, flush, composed, taken, stored>>

\* The Disconnect button; a logout forgets the user as well.
DisconnectButton == Disconnect /\ status = "connected" /\ UNCHANGED outboxVars

Logout ==
    /\ signedIn
    /\ Disconnect
    /\ signedIn' = FALSE
    /\ UNCHANGED <<queue, wanted, flush, authed, composed, taken, stored>>

\* The client is closed and started again.
Restart ==
    /\ writer' = 0
    /\ readTask' = 0
    /\ reader' = [c \in Conn |-> IF reader[c] = "none" THEN "none" ELSE "done"]
    /\ peer' = [c \in Conn |-> IF peer[c] = "none" THEN "none" ELSE "closed"]
    /\ calls' = [k \in Call |-> Free]
    /\ status' = "disconnected"
    /\ reconnectTimer' = FALSE
    /\ orphans' = 0
    /\ retryCount' = 0
    /\ lost' = 0
    /\ wanted' = FALSE
    /\ flush' = [f \in Flush |-> Done]
    /\ signedIn' = FALSE
    /\ UNCHANGED <<queue, authed, composed, taken, stored>>

Link(A) == A /\ StatusEffect /\ UNCHANGED <<queue, flush, signedIn, authed, composed, taken, stored>>

Next ==
    \/ Link(LinkNext)
    \/ \E m \in Msg : Compose(m)
    \/ StartFlush
    \/ \E f \in Flush : Write(f) \/ SendResolves(f) \/ SendRejects(f)
    \/ Login
    \/ DisconnectButton
    \/ Logout
    \/ Restart

Spec == Init /\ [][Next]_vars

-----------------------------------------------------------------------------
(***************************************************************************)
(* Properties.                                                             *)
(***************************************************************************)

(* A composed message stays in the queue until a write half has taken it,  *)
(* through failing sends, flushes that overlap, messages composed during a *)
(* flush and restarts of the client.                                       *)
NothingForgotten ==
    \A m \in composed \ taken : m \in ToSet(queue)

(* README.md:45, "compose messages offline, auto-send on reconnect": a     *)
(* message leaves the queue only once the server has stored it.  The code  *)
(* breaks it: the connection a reconnect opens is not logged in, and the   *)
(* server refuses what the flush sends over it.                            *)
QueuedIsStored ==
    \A m \in composed \ stored : m \in ToSet(queue)
=============================================================================
