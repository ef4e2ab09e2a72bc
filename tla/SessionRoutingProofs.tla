------------------------ MODULE SessionRoutingProofs ------------------------
(***************************************************************************)
(* The invariants of SessionRouting, for every set of users and sessions,  *)
(* every friendship relation and every limit.                              *)
(***************************************************************************)
EXTENDS SessionRouting, FiniteSetTheorems, TLAPS

\* The types of what the user-level handlers change.
UserTypes ==
    /\ userId \in [Session -> User \cup {NoUser}]
    /\ userToSession \in [User -> Session \cup {NoSession}]
    /\ presence \in SUBSET User
    /\ isOnline \in SUBSET User
    /\ view \in [Session -> SUBSET User]

\* The types of what the connection-level handlers change.
ConnTypes ==
    /\ socket \in [Session -> {"none", "open", "eof", "lost", "closed"}]
    /\ phase \in [Session -> {"new", "reading", "handling", "ended"}]
    /\ batch \in [Session -> 0 .. MaxBatch]
    /\ rate \in [Session -> 0 .. (RateLimit + 1)]
    /\ stale \in [Session -> BOOLEAN]

\* The pool is a finite set of sessions within its limit.
PoolTypes ==
    /\ sessions \in SUBSET Session
    /\ IsFiniteSet(sessions)
    /\ Cardinality(sessions) <= MaxConnections

Routing == RouteSound /\ RoutedIsOnline /\ FriendViewFresh

IInv == ConnTypes /\ PoolTypes /\ UserTypes /\ Routing /\ PoolWatched

USE ConstantsAssumption

-----------------------------------------------------------------------------
(* removeSession, for any set of sessions, keeps types and routing.        *)
LEMMA RemoveKeepsRouting ==
    ASSUME PoolTypes, UserTypes, Routing, NEW T \in SUBSET Session, RemoveSessions(T)
    PROVE  PoolTypes' /\ UserTypes' /\ Routing'
<1> DEFINE off == UsersOf(T)
<1>0. off \in SUBSET User
  BY DEF UsersOf, UserTypes, PoolTypes
<1>1. /\ sessions' = sessions \ T
      /\ userToSession' = [u \in User |-> IF u \in off THEN NoSession ELSE userToSession[u]]
      /\ presence' = presence \ off
      /\ isOnline' = isOnline \ off
      /\ view' = [t \in Session |-> IF t \in sessions \ T THEN view[t] \ off ELSE view[t]]
      /\ userId' = userId
  BY DEF RemoveSessions
<1>2. PoolTypes'
  <2>1. IsFiniteSet(sessions') /\ Cardinality(sessions') <= Cardinality(sessions)
    BY <1>1, FS_Subset DEF PoolTypes
  <2>2. Cardinality(sessions) \in Nat /\ Cardinality(sessions') \in Nat
    BY <2>1, FS_CardinalityType DEF PoolTypes
  <2>. QED BY <1>1, <2>1, <2>2 DEF PoolTypes
<1>3. UserTypes'
  BY <1>0, <1>1 DEF UserTypes
<1>4. \A u \in User : userToSession'[u] # NoSession =>
         /\ u \notin off
         /\ userToSession'[u] = userToSession[u]
         /\ userToSession[u] \in sessions \ T
         /\ userId[userToSession[u]] = u
  <2> SUFFICES ASSUME NEW u \in User, userToSession'[u] # NoSession
               PROVE  /\ u \notin off
                      /\ userToSession'[u] = userToSession[u]
                      /\ userToSession[u] \in sessions \ T
                      /\ userId[userToSession[u]] = u
    OBVIOUS
  <2>1. u \notin off /\ userToSession'[u] = userToSession[u]
    BY <1>1
  <2>2. userToSession[u] \in sessions /\ userId[userToSession[u]] = u
    BY <2>1 DEF Routing, RouteSound
  <2>3. userToSession[u] \notin T
    BY <2>1, <2>2 DEF UsersOf
  <2>. QED BY <2>1, <2>2, <2>3
<1>5. RouteSound'
  BY <1>1, <1>4 DEF RouteSound
<1>6. RoutedIsOnline'
  BY <1>1, <1>4 DEF RoutedIsOnline, Routing
<1>7. FriendViewFresh'
  <2> SUFFICES ASSUME NEW f \in User, userToSession'[f] # NoSession, NEW u \in Friends[f]
               PROVE  u \in view'[userToSession'[f]] <=> u \in presence'
    BY DEF FriendViewFresh
  <2>1. userToSession'[f] = userToSession[f] /\ userToSession[f] \in sessions \ T
    BY <1>4
  <2>2. u \in view[userToSession[f]] <=> u \in presence
    BY <2>1 DEF Routing, FriendViewFresh
  <2>3. view'[userToSession[f]] = view[userToSession[f]] \ off
    BY <1>1, <2>1 DEF PoolTypes
  <2>. QED BY <1>1, <2>1, <2>2, <2>3
<1>. QED BY <1>2, <1>3, <1>5, <1>6, <1>7 DEF Routing

(* A session leaves the pool only together with its closing or its end, so *)
(* a step that ends or closes nothing but removed sessions keeps           *)
(* PoolWatched.                                                            *)
LEMMA RemoveKeepsWatched ==
    ASSUME ConnTypes, PoolTypes, PoolWatched, NEW T \in SUBSET Session, RemoveSessions(T),
           \A s \in sessions \ T : phase'[s] = phase[s] /\ socket'[s] = socket[s]
    PROVE  PoolWatched'
BY DEF PoolWatched, RemoveSessions, PoolTypes

(* bindUser and the notices of handleLogin.                                *)
LEMMA LoginKeepsRouting ==
    ASSUME PoolTypes, UserTypes, Routing, NEW s \in Session, NEW u \in User, HandleLogin(s, u)
    PROVE  UserTypes' /\ Routing'
<1> DEFINE told == FriendSessions(userToSession', u)
<1>1. /\ userId' = IF s \in sessions THEN [userId EXCEPT ![s] = u] ELSE userId
      /\ userToSession' =
           IF s \in sessions
           THEN [w \in User |-> IF w = u THEN s
                                ELSE IF w = userId[s] THEN NoSession
                                ELSE userToSession[w]]
           ELSE userToSession
      /\ presence' = presence \cup {u}
      /\ isOnline' = isOnline \cup {u}
      /\ view' = [t \in Session |->
                    (IF t = s THEN presence' ELSE view[t])
                      \cup (IF t \in told THEN {u} ELSE {})]
      /\ sessions' = sessions
  BY DEF HandleLogin, BindUser
<1>2. UserTypes'
  BY <1>1 DEF UserTypes
\* Every route after the login is the new one, or an old one elsewhere.
<1>3. \A w \in User : userToSession'[w] # NoSession =>
         /\ userToSession'[w] \in sessions
         /\ userId'[userToSession'[w]] = w
         /\ \/ userToSession'[w] = s /\ s \in sessions /\ w = u
            \/ userToSession'[w] = userToSession[w] /\ (s \in sessions => userToSession[w] # s)
  <2> SUFFICES ASSUME NEW w \in User, userToSession'[w] # NoSession
               PROVE  /\ userToSession'[w] \in sessions
                      /\ userId'[userToSession'[w]] = w
                      /\ \/ userToSession'[w] = s /\ s \in sessions /\ w = u
                         \/ userToSession'[w] = userToSession[w] /\ (s \in sessions => userToSession[w] # s)
    OBVIOUS
  <2>1. CASE s \notin sessions
    BY <1>1, <2>1 DEF Routing, RouteSound
  <2>2. CASE s \in sessions /\ w = u
    BY <1>1, <2>2 DEF UserTypes
  <2>3. CASE s \in sessions /\ w # u
    <3>1. userToSession'[w] = userToSession[w] /\ w # userId[s]
      BY <1>1, <2>3
    <3>2. userToSession[w] \in sessions /\ userId[userToSession[w]] = w
      BY <3>1 DEF Routing, RouteSound
    <3>3. userToSession[w] # s
      BY <3>1, <3>2
    <3>. QED BY <1>1, <2>3, <3>1, <3>2, <3>3 DEF UserTypes, PoolTypes
  <2>. QED BY <2>1, <2>2, <2>3
<1>4. RouteSound'
  BY <1>1, <1>3 DEF RouteSound
<1>5. RoutedIsOnline'
  BY <1>1, <1>3 DEF RoutedIsOnline, Routing
<1>6. FriendViewFresh'
  <2> SUFFICES ASSUME NEW f \in User, userToSession'[f] # NoSession, NEW w \in Friends[f]
               PROVE  w \in view'[userToSession'[f]] <=> w \in presence'
    BY DEF FriendViewFresh
  <2> DEFINE r == userToSession'[f]
  <2>1. r \in sessions /\ r \in Session /\ w \in User
    BY <1>3 DEF PoolTypes
  <2>2. view'[r] = (IF r = s THEN presence' ELSE view[r]) \cup (IF r \in told THEN {u} ELSE {})
    BY <1>1, <2>1
  <2>3. CASE r = s
    BY <1>1, <2>2, <2>3
  <2>4. CASE r # s
    <3>1. r = userToSession[f] /\ userToSession[f] # NoSession
      BY <1>3, <2>4
    <3>2. w \in view[r] <=> w \in presence
      BY <3>1 DEF Routing, FriendViewFresh
    <3>3. w = u => r \in told
      BY <2>1 DEF FriendSessions, RoutedTo
    <3>. QED BY <1>1, <2>2, <2>4, <3>2, <3>3
  <2>. QED BY <2>3, <2>4
<1>. QED BY <1>2, <1>4, <1>5, <1>6 DEF Routing

(* unbindUser and the notices of handleLogout.                             *)
LEMMA LogoutKeepsRouting ==
    ASSUME PoolTypes, UserTypes, Routing, NEW s \in Session, userId[s] # NoUser,
           presence' = presence \ {userId[s]},
           isOnline' = isOnline \ {userId[s]},
           UnbindUser(userId[s]),
           view' = [t \in Session |->
                      IF t \in FriendSessions(userToSession', userId[s])
                      THEN view[t] \ {userId[s]} ELSE view[t]],
           sessions' = sessions
    PROVE  UserTypes' /\ Routing'
<1> DEFINE u == userId[s]
           told == FriendSessions(userToSession', u)
<1>0. u \in User
  BY DEF UserTypes
<1>1. /\ userId' = [t \in Session |-> IF RoutedTo(userToSession, u, t) THEN NoUser ELSE userId[t]]
      /\ userToSession' = [userToSession EXCEPT ![u] = NoSession]
      /\ presence' = presence \ {u}
      /\ isOnline' = isOnline \ {u}
      /\ view' = [t \in Session |-> IF t \in told THEN view[t] \ {u} ELSE view[t]]
      /\ sessions' = sessions
  BY DEF UnbindUser
<1>2. UserTypes'
  BY <1>0, <1>1 DEF UserTypes
<1>3. \A w \in User : userToSession'[w] # NoSession =>
         /\ w # u
         /\ userToSession'[w] = userToSession[w]
         /\ userToSession[w] \in sessions
         /\ userId'[userToSession[w]] = w
  <2> SUFFICES ASSUME NEW w \in User, userToSession'[w] # NoSession
               PROVE  /\ w # u
                      /\ userToSession'[w] = userToSession[w]
                      /\ userToSession[w] \in sessions
                      /\ userId'[userToSession[w]] = w
    OBVIOUS
  <2>1. w # u /\ userToSession'[w] = userToSession[w]
    BY <1>0, <1>1 DEF UserTypes
  <2>2. userToSession[w] \in sessions /\ userId[userToSession[w]] = w
    BY <2>1 DEF Routing, RouteSound
  <2>3. ~RoutedTo(userToSession, u, userToSession[w])
    BY <1>0, <2>1, <2>2 DEF Routing, RouteSound, RoutedTo
  <2>. QED BY <1>1, <2>1, <2>2, <2>3 DEF PoolTypes
<1>4. RouteSound'
  BY <1>1, <1>3 DEF RouteSound
<1>5. RoutedIsOnline'
  BY <1>1, <1>3 DEF RoutedIsOnline, Routing
<1>6. FriendViewFresh'
  <2> SUFFICES ASSUME NEW f \in User, userToSession'[f] # NoSession, NEW w \in Friends[f]
               PROVE  w \in view'[userToSession'[f]] <=> w \in presence'
    BY DEF FriendViewFresh
  <2> DEFINE r == userToSession[f]
  <2>1. userToSession'[f] = r /\ r \in sessions /\ r \in Session /\ w \in User
    BY <1>3 DEF PoolTypes
  <2>2. w \in view[r] <=> w \in presence
    BY <2>1 DEF Routing, FriendViewFresh
  <2>3. w = u => r \in told
    BY <2>1 DEF FriendSessions, RoutedTo
  <2>. QED BY <1>1, <2>1, <2>2, <2>3
<1>. QED BY <1>2, <1>4, <1>5, <1>6 DEF Routing

-----------------------------------------------------------------------------
(* Taking a frame keeps the types of the connection and touches neither    *)
(* the socket nor the read chain.                                          *)
LEMMA TakeFrameTypes ==
    ASSUME ConnTypes, NEW s \in Session, TakeFrame(s)
    PROVE  /\ batch' \in [Session -> 0 .. MaxBatch]
           /\ rate' \in [Session -> 0 .. (RateLimit + 1)]
           /\ socket' = socket /\ phase' = phase
<1>1. PICK elapsed \in BOOLEAN : rate' = [rate EXCEPT ![s] = RateAfter(s, elapsed)]
  BY DEF TakeFrame
<1>2. RateAfter(s, elapsed) \in 0 .. (RateLimit + 1) \/ RateAfter(s, elapsed) = 1
  BY DEF RateAfter, ConnTypes
<1>3. batch[s] \in 1 .. MaxBatch /\ batch' = [batch EXCEPT ![s] = batch[s] - 1]
  BY DEF TakeFrame, ConnTypes
<1>. QED BY <1>1, <1>2, <1>3 DEF TakeFrame, ConnTypes

(* A server without sessions satisfies the invariant.                      *)
LEMMA InitIInv == Init => IInv
<1> SUFFICES ASSUME Init PROVE IInv
  OBVIOUS
<1>1. PoolTypes
  BY FS_EmptySet DEF Init, PoolTypes
<1>2. ConnTypes /\ UserTypes /\ PoolWatched
  BY DEF Init, ConnTypes, UserTypes, PoolWatched
<1>3. Routing
  BY DEF Init, Routing, RouteSound, RoutedIsOnline, FriendViewFresh
<1>. QED BY <1>1, <1>2, <1>3 DEF IInv

(* Every handler keeps the invariant.                                      *)
LEMMA NextIInv == IInv /\ [Next]_vars => IInv'
<1> SUFFICES ASSUME IInv, [Next]_vars PROVE IInv'
  OBVIOUS
<1> USE DEF IInv
<1>1. ASSUME NEW s \in Session, Accept(s) PROVE IInv'
  <2>1. UserTypes' /\ ConnTypes'
    BY <1>1 DEF Accept, UserTypes, ConnTypes, userVars
  <2>2. PoolTypes'
    <3>1. CASE sessions' = sessions
      BY <3>1 DEF PoolTypes
    <3>2. CASE Cardinality(sessions) < MaxConnections /\ sessions' = sessions \cup {s}
      <4>1. /\ IsFiniteSet(sessions')
            /\ Cardinality(sessions') = Cardinality(sessions)
                  \/ Cardinality(sessions') = Cardinality(sessions) + 1
        BY <3>2, FS_AddElement DEF PoolTypes
      <4>2. Cardinality(sessions) \in Nat
        BY FS_CardinalityType DEF PoolTypes
      <4>. QED BY <3>2, <4>1, <4>2 DEF PoolTypes
    <3>. QED BY <1>1, <3>1, <3>2 DEF Accept
  <2>3. Routing'
    BY <1>1 DEF Accept, userVars, Routing, RouteSound, RoutedIsOnline, FriendViewFresh
  <2>4. PoolWatched'
    BY <1>1 DEF Accept, PoolWatched, ConnTypes, PoolTypes
  <2>. QED BY <2>1, <2>2, <2>3, <2>4
<1>2. ASSUME NEW s \in Session, NEW n \in 0 .. MaxBatch, BeginRead(s, n) PROVE IInv'
  <2>1. UserTypes' /\ ConnTypes' /\ PoolTypes'
    BY <1>2 DEF BeginRead, UserTypes, ConnTypes, PoolTypes, userVars
  <2>2. Routing' /\ PoolWatched'
    BY <1>2 DEF BeginRead, userVars, Routing, RouteSound, RoutedIsOnline, FriendViewFresh,
                PoolWatched, ConnTypes
  <2>. QED BY <2>1, <2>2
<1>3. ASSUME NEW s \in Session, EndRead(s) PROVE IInv'
  <2>1. UserTypes' /\ ConnTypes' /\ PoolTypes'
    BY <1>3 DEF EndRead, UserTypes, ConnTypes, PoolTypes, userVars
  <2>2. Routing' /\ PoolWatched'
    BY <1>3 DEF EndRead, userVars, Routing, RouteSound, RoutedIsOnline, FriendViewFresh,
                PoolWatched, ConnTypes
  <2>. QED BY <2>1, <2>2
<1>4. ASSUME NEW s \in Session, ReadError(s) PROVE IInv'
  <2>1. RemoveSessions({s}) /\ {s} \in SUBSET Session
    BY <1>4 DEF ReadError
  <2>2. PoolTypes' /\ UserTypes' /\ Routing'
    BY <2>1, RemoveKeepsRouting
  <2>3. ConnTypes'
    BY <1>4 DEF ReadError, ConnTypes
  <2>4. PoolWatched'
    BY <1>4, <2>1, RemoveKeepsWatched DEF ReadError, ConnTypes, PoolTypes
  <2>. QED BY <2>2, <2>3, <2>4
<1>5. ASSUME NEW s \in Session, RateExceeded(s) PROVE IInv'
  <2>1. RemoveSessions({s}) /\ {s} \in SUBSET Session
    BY <1>5 DEF RateExceeded
  <2>2. PoolTypes' /\ UserTypes' /\ Routing'
    BY <2>1, RemoveKeepsRouting
  <2>3. PICK elapsed \in BOOLEAN : rate' = [rate EXCEPT ![s] = RateAfter(s, elapsed)]
    BY <1>5 DEF RateExceeded
  <2>4. RateAfter(s, elapsed) \in 0 .. (RateLimit + 1)
    BY DEF RateAfter, ConnTypes
  <2>5. ConnTypes'
    BY <1>5, <2>3, <2>4 DEF RateExceeded, ConnTypes
  <2>6. PoolWatched'
    BY <1>5, <2>1, RemoveKeepsWatched DEF RateExceeded, ConnTypes, PoolTypes
  <2>. QED BY <2>2, <2>5, <2>6
<1>6. ASSUME NEW s \in Session, HandleHeartbeat(s) \/ HandleOther(s) PROVE IInv'
  <2>1. TakeFrame(s)
    BY <1>6 DEF HandleHeartbeat, HandleOther
  <2>2. ConnTypes'
    BY <1>6, <2>1, TakeFrameTypes DEF HandleHeartbeat, HandleOther, ConnTypes
  <2>3. UserTypes' /\ PoolTypes' /\ Routing'
    BY <1>6 DEF HandleHeartbeat, HandleOther, userVars, UserTypes, PoolTypes,
                Routing, RouteSound, RoutedIsOnline, FriendViewFresh
  <2>4. PoolWatched'
    BY <1>6, <2>1, TakeFrameTypes DEF HandleHeartbeat, HandleOther, PoolWatched
  <2>. QED BY <2>2, <2>3, <2>4
<1>7. ASSUME NEW s \in Session, NEW u \in User, HandleLogin(s, u) PROVE IInv'
  <2>1. TakeFrame(s) /\ sessions' = sessions /\ stale' = stale
    BY <1>7 DEF HandleLogin
  <2>2. ConnTypes' /\ PoolTypes' /\ PoolWatched'
    BY <2>1, TakeFrameTypes DEF ConnTypes, PoolTypes, PoolWatched
  <2>. QED BY <1>7, <2>2, LoginKeepsRouting
<1>8. ASSUME NEW s \in Session, HandleLogout(s) PROVE IInv'
  <2>1. TakeFrame(s) /\ sessions' = sessions /\ stale' = stale
    BY <1>8 DEF HandleLogout
  <2>2. ConnTypes' /\ PoolTypes' /\ PoolWatched'
    BY <2>1, TakeFrameTypes DEF ConnTypes, PoolTypes, PoolWatched
  <2>3. CASE userId[s] = NoUser
    BY <1>8, <2>1, <2>2, <2>3 DEF HandleLogout, userVars, UserTypes,
       Routing, RouteSound, RoutedIsOnline, FriendViewFresh
  <2>4. CASE userId[s] # NoUser
    BY <1>8, <2>1, <2>2, <2>4, LogoutKeepsRouting DEF HandleLogout
  <2>. QED BY <2>3, <2>4
<1>9. ASSUME NEW s \in Session, HandleFriendList(s) PROVE IInv'
  <2> DEFINE mine == IF userId[s] = NoUser THEN {} ELSE Friends[userId[s]]
  <2>1. /\ TakeFrame(s) /\ sessions' = sessions /\ stale' = stale
        /\ userId' = userId /\ userToSession' = userToSession
        /\ presence' = presence /\ isOnline' = isOnline
        /\ view' = [view EXCEPT ![s] = (view[s] \ mine) \cup (presence \cap mine)]
    BY <1>9 DEF HandleFriendList
  <2>2. ConnTypes' /\ PoolTypes' /\ PoolWatched'
    BY <2>1, TakeFrameTypes DEF ConnTypes, PoolTypes, PoolWatched
  <2>3. UserTypes'
    BY <2>1 DEF UserTypes
  <2>4. RouteSound' /\ RoutedIsOnline'
    BY <2>1 DEF Routing, RouteSound, RoutedIsOnline
  <2>5. FriendViewFresh'
    <3> SUFFICES ASSUME NEW f \in User, userToSession[f] # NoSession, NEW w \in Friends[f]
                 PROVE  w \in view'[userToSession[f]] <=> w \in presence
      BY <2>1 DEF FriendViewFresh
    <3>1. w \in view[userToSession[f]] <=> w \in presence
      BY DEF Routing, FriendViewFresh
    <3>2. userToSession[f] \in Session
      BY DEF UserTypes
    <3>. QED BY <2>1, <3>1, <3>2 DEF UserTypes
  <2>. QED BY <2>2, <2>3, <2>4, <2>5 DEF Routing
<1>10. ASSUME Sweep PROVE IInv'
  <2> DEFINE T == {s \in sessions : stale[s]}
  <2>1. RemoveSessions(T) /\ T \in SUBSET Session
    BY <1>10 DEF Sweep, PoolTypes
  <2>2. PoolTypes' /\ UserTypes' /\ Routing'
    BY <2>1, RemoveKeepsRouting
  <2>3. ConnTypes'
    BY <1>10 DEF Sweep, ConnTypes
  <2>4. \A s \in sessions \ T : phase'[s] = phase[s] /\ socket'[s] = socket[s]
    BY <1>10 DEF Sweep, PoolTypes
  <2>5. PoolWatched'
    BY <2>1, <2>4, RemoveKeepsWatched
  <2>. QED BY <2>2, <2>3, <2>5
<1>11. ASSUME NEW s \in Session, Silence(s) PROVE IInv'
  <2>1. ConnTypes' /\ UserTypes' /\ PoolTypes' /\ PoolWatched'
    BY <1>11 DEF Silence, ConnTypes, UserTypes, PoolTypes, PoolWatched, userVars
  <2>2. Routing'
    BY <1>11 DEF Silence, userVars, Routing, RouteSound, RoutedIsOnline, FriendViewFresh
  <2>. QED BY <2>1, <2>2
<1>12. ASSUME NEW s \in Session, NEW how \in {"eof", "lost"}, PeerLeaves(s, how) PROVE IInv'
  <2>1. ConnTypes' /\ UserTypes' /\ PoolTypes' /\ PoolWatched'
    BY <1>12 DEF PeerLeaves, ConnTypes, UserTypes, PoolTypes, PoolWatched, userVars
  <2>2. Routing'
    BY <1>12 DEF PeerLeaves, userVars, Routing, RouteSound, RoutedIsOnline, FriendViewFresh
  <2>. QED BY <2>1, <2>2
<1>13. ASSUME Restart PROVE IInv'
  <2>1. PoolTypes'
    BY <1>13, FS_EmptySet DEF Restart, PoolTypes
  <2>2. ConnTypes' /\ UserTypes' /\ PoolWatched'
    BY <1>13 DEF Restart, ConnTypes, UserTypes, PoolWatched
  <2>3. Routing'
    BY <1>13 DEF Restart, Routing, RouteSound, RoutedIsOnline, FriendViewFresh
  <2>. QED BY <2>1, <2>2, <2>3
<1>14. CASE UNCHANGED vars
  BY <1>14 DEF vars, userVars, ConnTypes, PoolTypes, UserTypes, PoolWatched,
               Routing, RouteSound, RoutedIsOnline, FriendViewFresh
<1>. QED
  BY <1>1, <1>2, <1>3, <1>4, <1>5, <1>6, <1>7, <1>8, <1>9, <1>10, <1>11, <1>12, <1>13, <1>14
     DEF Next, Frame

(* The inductive invariant holds of every reachable state.                 *)
THEOREM SpecIInv == Spec => []IInv
BY InitIInv, NextIInv, PTL DEF Spec

(* Types, and the limit of the pool: SessionPool::add never lets the pool  *)
(* grow past max_connections_.                                             *)
THEOREM SpecTypeOK == Spec => []TypeOK
<1>1. IInv => TypeOK
  BY DEF IInv, ConnTypes, PoolTypes, UserTypes, TypeOK
<1>. QED BY <1>1, SpecIInv, PTL

(* SessionPool never routes a user to a session that is gone or that       *)
(* belongs to somebody else.                                               *)
THEOREM SpecRouteSound == Spec => []RouteSound
<1>1. IInv => RouteSound
  BY DEF IInv, Routing
<1>. QED BY <1>1, SpecIInv, PTL

(* Whoever can be reached is shown as online, and is marked so on disk.    *)
THEOREM SpecRoutedIsOnline == Spec => []RoutedIsOnline
<1>1. IInv => RoutedIsOnline
  BY DEF IInv, Routing
<1>. QED BY <1>1, SpecIInv, PTL

(* Friends are told every change of presence: what a routed session was    *)
(* told agrees with PresenceManager.                                       *)
THEOREM SpecFriendViewFresh == Spec => []FriendViewFresh
<1>1. IInv => FriendViewFresh
  BY DEF IInv, Routing
<1>. QED BY <1>1, SpecIInv, PTL

(* The pool holds only sessions whose end the server will notice.          *)
THEOREM SpecPoolWatched == Spec => []PoolWatched
<1>1. IInv => PoolWatched
  BY DEF IInv
<1>. QED BY <1>1, SpecIInv, PTL
=============================================================================
