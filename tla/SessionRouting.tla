--------------------------- MODULE SessionRouting ---------------------------
(***************************************************************************)
(* The server's connection layer: AsyncSession (the life of one TCP        *)
(* connection), SessionPool (which sessions exist and which one a user is  *)
(* routed to), PresenceManager (who is shown as online), and the handlers  *)
(* of TcpServer and MessageRouter that change them: accept, read,          *)
(* rate limit, heartbeat, sweep, Login, Logout, FriendList, removeSession. *)
(*                                                                         *)
(* The io_context runs on one thread, so a read handler runs to its end    *)
(* before another handler starts.  A handler decodes a batch of frames; it *)
(* takes one step per frame here, and every other handler waits (Idle).    *)
(***************************************************************************)
EXTENDS Integers, FiniteSets

CONSTANTS
    Session,         \* the sessions one server process may create
    User,            \* the registered accounts (ids > 0)
    NoUser,          \* user_id_ = 0, an unauthenticated session
    NoSession,       \* a user without an entry in user_to_session_
    Friends,         \* Friends[u]: the accepted friends of u (getFriends)
    MaxConnections,  \* max_connections_ of the pool
    RateLimit,       \* frames one session may send in a one-second window
    MaxBatch         \* bound: complete frames one read may bring in

ASSUME ConstantsAssumption ==
    /\ NoUser \notin User
    /\ NoSession \notin Session
    /\ MaxConnections \in Nat
    /\ RateLimit \in Nat
    /\ MaxBatch \in Nat
    /\ Friends \in [User -> SUBSET User]
    /\ \A u, v \in User : v \in Friends[u] => u \in Friends[v] /\ u # v

VARIABLES
    socket,         \* "none", "open", "eof" (the peer closed), "lost" (the
                    \* peer vanished without a FIN) or "closed" (by the server)
    phase,          \* "new", "reading" (a read is outstanding), "handling"
                    \* (its read handler runs) or "ended" (no more reads)
    batch,          \* complete frames left in read_accumulator_
    rate,           \* messages_this_window_
    stale,          \* the last heartbeat is more than 90 seconds old
    sessions,       \* SessionPool::sessions_
    userId,         \* AsyncSession::user_id_
    userToSession,  \* SessionPool::user_to_session_
    presence,       \* the keys of PresenceManager::presence_
    isOnline,       \* users with is_online = 1 in the users table
    view            \* view[s]: users shown as online to the peer of s by what
                    \* the server has sent it so far

connVars == <<socket, phase, batch, rate, stale>>
userVars == <<userId, userToSession, presence, isOnline, view>>
vars     == <<socket, phase, batch, rate, stale, sessions, userVars>>

(* Types; the pool never holds more than max_connections_ sessions. *)
TypeOK ==
    /\ socket \in [Session -> {"none", "open", "eof", "lost", "closed"}]
    /\ phase \in [Session -> {"new", "reading", "handling", "ended"}]
    /\ batch \in [Session -> 0 .. MaxBatch]
    /\ rate \in [Session -> 0 .. (RateLimit + 1)]
    /\ stale \in [Session -> BOOLEAN]
    /\ sessions \in SUBSET Session
    /\ userId \in [Session -> User \cup {NoUser}]
    /\ userToSession \in [User -> Session \cup {NoSession}]
    /\ presence \in SUBSET User
    /\ isOnline \in SUBSET User
    /\ view \in [Session -> SUBSET User]
    /\ Cardinality(sessions) <= MaxConnections

Init ==
    /\ socket = [s \in Session |-> "none"]
    /\ phase = [s \in Session |-> "new"]
    /\ batch = [s \in Session |-> 0]
    /\ rate = [s \in Session |-> 0]
    /\ stale = [s \in Session |-> FALSE]
    /\ sessions = {}
    /\ userId = [s \in Session |-> NoUser]
    /\ userToSession = [u \in User |-> NoSession]
    /\ presence = {}
    /\ view = [s \in Session |-> {}]
    /\ isOnline = {}

-----------------------------------------------------------------------------
(***************************************************************************)
(* Shared steps of the handlers.                                           *)
(***************************************************************************)

\* No read handler is running: the io_context may start another handler.
Idle == \A s \in Session : phase[s] # "handling"

\* users whose sessions are in T, as removeSession reads them before removal.
UsersOf(T) == {userId[s] : s \in T \cap sessions} \ {NoUser}

\* Mutant of RemoveSessions: SessionPool::remove leaves user_to_session_ alone.
RemoveSessionsKeepRoute(T) ==
    LET off == UsersOf(T) IN
    /\ sessions' = sessions \ T
    /\ presence' = presence \ off
    /\ isOnline' = isOnline \ off
    /\ view' = [t \in Session |-> IF t \in sessions \ T THEN view[t] \ off ELSE view[t]]
    /\ UNCHANGED <<userId, userToSession>>

\* TcpServer::removeSession for every session of T: SessionPool::remove erases
\* the route of the session's user, whichever session that route names, and
\* markOfflineAndBroadcast tells every session that is left.  user_id_ of the
\* removed session keeps its value.
RemoveSessions(T) ==
    LET off == UsersOf(T) IN
    /\ sessions' = sessions \ T
    /\ userToSession' = [u \in User |-> IF u \in off THEN NoSession ELSE userToSession[u]]
    /\ presence' = presence \ off
    /\ isOnline' = isOnline \ off
    /\ view' = [t \in Session |-> IF t \in sessions \ T THEN view[t] \ off ELSE view[t]]
    /\ UNCHANGED userId

\* SessionPool::findByUserId(u) is the session s.
RoutedTo(route, u, s) == route[u] = s /\ s \in sessions

\* Mutant of FriendSessions: the user itself is told instead of the friends.
OwnSessions(route, u) == {t \in Session : RoutedTo(route, u, t)}

\* broadcastPresence(u): the sessions the friends of u are routed to.
FriendSessions(route, u) == {t \in Session : \E f \in Friends[u] : RoutedTo(route, f, t)}

\* SessionPool::bindUser(s, u): false, with no effect, for a session that is
\* no longer in the pool.
BindUser(s, u) ==
    /\ userId' = IF s \in sessions THEN [userId EXCEPT ![s] = u] ELSE userId
    /\ userToSession' =
         IF s \in sessions
         THEN [w \in User |-> IF w = u THEN s
                              ELSE IF w = userId[s] THEN NoSession
                              ELSE userToSession[w]]
         ELSE userToSession

\* Mutant of UnbindUser: the session is cleared, its route is not erased.
UnbindUserKeepRoute(u) ==
    /\ userId' = [s \in Session |-> IF RoutedTo(userToSession, u, s) THEN NoUser ELSE userId[s]]
    /\ UNCHANGED userToSession

\* SessionPool::unbindUser(u): clears user_id_ of the session u is routed to.
UnbindUser(u) ==
    /\ userId' = [s \in Session |-> IF RoutedTo(userToSession, u, s) THEN NoUser ELSE userId[s]]
    /\ userToSession' = [userToSession EXCEPT ![u] = NoSession]

-----------------------------------------------------------------------------
(***************************************************************************)
(* The connection: accept, read, and the end of it.                        *)
(***************************************************************************)

\* Mutant of Accept: the limit is compared with > instead of >=.
AcceptOneMore(s) ==
    /\ Idle
    /\ phase[s] = "new"
    /\ Cardinality(sessions) <= MaxConnections
    /\ sessions' = sessions \cup {s}
    /\ socket' = [socket EXCEPT ![s] = "open"]
    /\ phase' = [phase EXCEPT ![s] = "reading"]
    /\ UNCHANGED <<batch, rate, stale, userVars>>

\* startAccept: a full pool closes the new session at once.
Accept(s) ==
    /\ Idle
    /\ phase[s] = "new"
    /\ \/ /\ Cardinality(sessions) < MaxConnections
          /\ sessions' = sessions \cup {s}
          /\ socket' = [socket EXCEPT ![s] = "open"]
          /\ phase' = [phase EXCEPT ![s] = "reading"]
       \/ /\ Cardinality(sessions) >= MaxConnections
          /\ socket' = [socket EXCEPT ![s] = "closed"]
          /\ phase' = [phase EXCEPT ![s] = "ended"]
          /\ UNCHANGED sessions
    /\ UNCHANGED <<batch, rate, stale, userVars>>

\* The read completes with n complete frames (0: only a part of one).
BeginRead(s, n) ==
    /\ Idle
    /\ phase[s] = "reading"
    /\ socket[s] = "open"
    /\ phase' = [phase EXCEPT ![s] = "handling"]
    /\ batch' = [batch EXCEPT ![s] = n]
    /\ UNCHANGED <<socket, rate, stale, sessions, userVars>>

\* Mutant of EndRead: doRead is not called again.
EndReadForGood(s) ==
    /\ phase[s] = "handling"
    /\ batch[s] = 0
    /\ phase' = [phase EXCEPT ![s] = "ended"]
    /\ UNCHANGED <<socket, batch, rate, stale, sessions, userVars>>

\* The decode loop is done: doRead again, on a closed socket too.
EndRead(s) ==
    /\ phase[s] = "handling"
    /\ batch[s] = 0
    /\ phase' = [phase EXCEPT ![s] = "reading"]
    /\ UNCHANGED <<socket, batch, rate, stale, sessions, userVars>>

\* Mutant of ReadError: an aborted read is not taken for the end.
ReadErrorEofOnly(s) ==
    /\ Idle
    /\ phase[s] = "reading"
    /\ socket[s] = "eof"
    /\ phase' = [phase EXCEPT ![s] = "ended"]
    /\ RemoveSessions({s})
    /\ UNCHANGED <<socket, batch, rate, stale>>

\* The outstanding read fails: the peer closed, or close() aborted it.
ReadError(s) ==
    /\ Idle
    /\ phase[s] = "reading"
    /\ socket[s] \in {"eof", "closed"}
    /\ phase' = [phase EXCEPT ![s] = "ended"]
    /\ RemoveSessions({s})
    /\ UNCHANGED <<socket, batch, rate, stale>>

\* consumeRateLimitToken: the count after this frame.  elapsed: one second has
\* passed since the window began.  Counts above RateLimit + 1 behave alike.
RateAfter(s, elapsed) ==
    IF elapsed THEN 1 ELSE IF rate[s] > RateLimit THEN rate[s] ELSE rate[s] + 1

\* onMessage takes the next frame of the running batch within the rate limit.
TakeFrame(s) ==
    /\ phase[s] = "handling"
    /\ batch[s] > 0
    /\ batch' = [batch EXCEPT ![s] = @ - 1]
    /\ \E elapsed \in BOOLEAN :
         /\ RateAfter(s, elapsed) <= RateLimit
         /\ rate' = [rate EXCEPT ![s] = RateAfter(s, elapsed)]
    /\ UNCHANGED <<socket, phase>>

\* onMessage over the limit: the session is removed and closed, and the decode
\* loop goes on with the frames that are left.
RateExceeded(s) ==
    /\ phase[s] = "handling"
    /\ batch[s] > 0
    /\ batch' = [batch EXCEPT ![s] = @ - 1]
    /\ \E elapsed \in BOOLEAN :
         /\ RateAfter(s, elapsed) > RateLimit
         /\ rate' = [rate EXCEPT ![s] = RateAfter(s, elapsed)]
    /\ RemoveSessions({s})
    /\ socket' = [socket EXCEPT ![s] = "closed"]
    /\ UNCHANGED <<phase, stale>>

-----------------------------------------------------------------------------
(***************************************************************************)
(* The frames that change the state above.                                 *)
(***************************************************************************)

HandleHeartbeat(s) ==
    /\ TakeFrame(s)
    /\ stale' = [stale EXCEPT ![s] = FALSE]
    /\ UNCHANGED <<sessions, userVars>>

\* handleLogin with the right password: the result of bindUser is not looked
\* at, the reply shows the presence of every user, the friends are told.
HandleLogin(s, u) ==
    /\ TakeFrame(s)
    /\ BindUser(s, u)
    /\ presence' = presence \cup {u}
    /\ isOnline' = isOnline \cup {u}
    /\ view' = [t \in Session |->
                  (IF t = s THEN presence' ELSE view[t])
                    \cup (IF t \in FriendSessions(userToSession', u) THEN {u} ELSE {})]
    /\ UNCHANGED <<stale, sessions>>

HandleLogout(s) ==
    /\ TakeFrame(s)
    /\ \/ /\ userId[s] = NoUser
          /\ UNCHANGED userVars
       \/ /\ userId[s] # NoUser
          /\ presence' = presence \ {userId[s]}
          /\ isOnline' = isOnline \ {userId[s]}
          /\ UnbindUser(userId[s])
          /\ view' = [t \in Session |->
                        IF t \in FriendSessions(userToSession', userId[s])
                        THEN view[t] \ {userId[s]} ELSE view[t]]
    /\ UNCHANGED <<stale, sessions>>

\* handleFriendList: the reply carries the presence of the friends; an
\* unauthenticated session has none.
HandleFriendList(s) ==
    /\ TakeFrame(s)
    /\ LET mine == IF userId[s] = NoUser THEN {} ELSE Friends[userId[s]] IN
       view' = [view EXCEPT ![s] = (@ \ mine) \cup (presence \cap mine)]
    /\ UNCHANGED <<stale, sessions, userId, userToSession, presence, isOnline>>

\* Every other frame, and a Login that is refused.
HandleOther(s) ==
    /\ TakeFrame(s)
    /\ UNCHANGED <<stale, sessions, userVars>>

-----------------------------------------------------------------------------
(***************************************************************************)
(* The sweep, the peers, and the end of the process.                       *)
(***************************************************************************)

\* Mutant of Sweep: only authenticated sessions are looked at.
SweepUsersOnly ==
    LET T == {s \in sessions : stale[s] /\ userId[s] # NoUser} IN
    /\ Idle
    /\ T # {}
    /\ socket' = [s \in Session |-> IF s \in T THEN "closed" ELSE socket[s]]
    /\ RemoveSessions(T)
    /\ UNCHANGED <<phase, batch, rate, stale>>

\* sweepHeartbeatTimeouts closes and removes every session that timed out.
Sweep ==
    LET T == {s \in sessions : stale[s]} IN
    /\ Idle
    /\ T # {}
    /\ socket' = [s \in Session |-> IF s \in T THEN "closed" ELSE socket[s]]
    /\ RemoveSessions(T)
    /\ UNCHANGED <<phase, batch, rate, stale>>

\* 90 seconds pass without a heartbeat.
Silence(s) ==
    /\ s \in sessions
    /\ ~stale[s]
    /\ stale' = [stale EXCEPT ![s] = TRUE]
    /\ UNCHANGED <<socket, phase, batch, rate, sessions, userVars>>

\* The peer closes its end, or vanishes without a FIN; the kernel may give a
\* vanished peer up when it gets no answer to what was sent.
PeerLeaves(s, how) ==
    /\ socket[s] = "open" \/ (socket[s] = "lost" /\ how = "eof")
    /\ socket' = [socket EXCEPT ![s] = how]
    /\ UNCHANGED <<phase, batch, rate, stale, sessions, userVars>>

\* The process ends and starts again: only the users table survives.
Restart ==
    /\ socket' = [s \in Session |-> "none"]
    /\ phase' = [s \in Session |-> "new"]
    /\ batch' = [s \in Session |-> 0]
    /\ rate' = [s \in Session |-> 0]
    /\ stale' = [s \in Session |-> FALSE]
    /\ sessions' = {}
    /\ userId' = [s \in Session |-> NoUser]
    /\ userToSession' = [u \in User |-> NoSession]
    /\ presence' = {}
    /\ view' = [s \in Session |-> {}]
    /\ UNCHANGED isOnline

Frame(s) ==
    \/ HandleHeartbeat(s)
    \/ \E u \in User : HandleLogin(s, u)
    \/ HandleLogout(s)
    \/ HandleFriendList(s)
    \/ HandleOther(s)
    \/ RateExceeded(s)

Next ==
    \/ \E s \in Session :
         \/ Accept(s)
         \/ \E n \in 0 .. MaxBatch : BeginRead(s, n)
         \/ Frame(s)
         \/ EndRead(s)
         \/ ReadError(s)
         \/ Silence(s)
         \/ \E how \in {"eof", "lost"} : PeerLeaves(s, how)
    \/ Sweep
    \/ Restart

Spec == Init /\ [][Next]_vars

(***************************************************************************)
(* Fairness.  A running handler goes on to its end.  The io_context serves *)
(* completed operations in the order they were queued, so the sweep timer  *)
(* and a failed read are served although other handlers run in between.    *)
(* A peer that is gone sends no heartbeat, so its 90 seconds do pass.      *)
(* Peers owe nothing.                                                      *)
(***************************************************************************)
FairSpec ==
    /\ Spec
    /\ SF_vars(Sweep)
    /\ \A s \in Session :
         /\ WF_vars(Frame(s) \/ EndRead(s))
         /\ SF_vars(ReadError(s))
         /\ WF_vars(socket[s] = "lost" /\ Silence(s))

-----------------------------------------------------------------------------
(***************************************************************************)
(* Properties.                                                             *)
(***************************************************************************)

(* A route names a session of the pool that is authenticated as that very  *)
(* user: findByUserId never hands a message to somebody else's connection, *)
(* whatever order logins, logouts, double logins, sweeps, rate-limit       *)
(* removals and late frames of a removed session come in.                  *)
RouteSound ==
    \A u \in User :
        userToSession[u] # NoSession =>
            userToSession[u] \in sessions /\ userId[userToSession[u]] = u

(* A user with a route is shown as online, and a user shown as online is   *)
(* marked so in the users table, across restarts of the process.           *)
RoutedIsOnline ==
    /\ \A u \in User : userToSession[u] # NoSession => u \in presence
    /\ presence \subseteq isOnline

(* What a routed session was told about a friend (the login reply, the     *)
(* FriendOnline and UserOffline notices) is what PresenceManager holds: no *)
(* change of a friend's presence goes unannounced.                         *)
FriendViewFresh ==
    \A f \in User : userToSession[f] # NoSession =>
        \A u \in Friends[f] : u \in view[userToSession[f]] <=> u \in presence

(* Every session of the pool has an open socket end on the server and a    *)
(* read outstanding or being handled, so its end will be noticed: nothing  *)
(* is left in the pool after close().                                      *)
PoolWatched ==
    \A s \in sessions :
        phase[s] \in {"reading", "handling"} /\ socket[s] # "closed"

(* A peer that vanished without a FIN is swept from the pool at last.      *)
HalfOpenReclaimed ==
    \A s \in Session : (socket[s] = "lost") ~> (s \notin sessions)

(* A session whose connection ended, at either end, stops reading at last, *)
(* which is what releases it.                                              *)
ClosedReleased ==
    \A s \in Session : (socket[s] \in {"eof", "closed"}) ~> (phase[s] \in {"ended", "new"})
=============================================================================
