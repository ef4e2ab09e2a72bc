----------------------------- MODULE Friendship -----------------------------
(***************************************************************************)
(* Friend requests end to end: the friendships table and FriendRepository, *)
(* the handlers FriendRequest, FriendAccept, FriendRemove and Login of     *)
(* MessageRouter, and the friendStore of each client.  A client's requests *)
(* and the server's notices travel in order over its connection; the       *)
(* buttons of a client act on what the client has been told so far.  A     *)
(* lost connection is restored at once, but unauthenticated: the client    *)
(* logs in only from its login form, after a logout, which closes the      *)
(* connection as well.                                                     *)
(*                                                                         *)
(* The two ends of a connection learn of its end at different times.  The  *)
(* server keeps an old session of a client in its pool until it removes    *)
(* it, reads what the client sent over it, answers into it, and routes     *)
(* notices to it; and the removal erases the route of the user, even if    *)
(* that is the route of the newer session (SessionRouting has the causes   *)
(* of a removal).                                                          *)
(***************************************************************************)
EXTENDS Integers, Sequences, FiniteSets

CONSTANTS
    User,       \* registered accounts, one client each
    Session,    \* sessions of the server
    NoSession,  \* a user without a route
    Slots,      \* bound: Slots[u], the sessions the connections of u may get; one
                \* is used again when the server has forgotten it
    MaxUp,      \* bound: requests of one client on their way over a connection
    MaxDown     \* bound: notices on their way to one client

ASSUME BoundsAssumption == MaxUp \in Nat /\ MaxDown \in Nat
ASSUME SessionAssumption == NoSession \notin Session /\ Slots \in [User -> SUBSET Session]

VARIABLES
    row,       \* row[<<a, b>>]: status of the row (from_uid a, to_uid b)
    pool,      \* pool[u]: sessions of the client of u in the pool
    auth,      \* auth[u]: those with user_id_ = u; a removed one keeps it
    route,     \* route[u]: the session of u in user_to_session_
    here,      \* here[u]: the session at whose other end the client of u is
    signedIn,  \* users whose client has a currentUser
    up,        \* up[u][s]: frames sent over s that the server has yet to take
    down,      \* down[u]: frames from the server on their way over here[u]
    friends,   \* friends[u]: friendStore.friends
    requests,  \* requests[u]: friendStore.friendRequests
    behind     \* history: users for whom another session than here[u] made or
               \* ended a friendship since their last login over here[u]

sessionVars == <<pool, auth, route>>
clientVars  == <<signedIn, friends, requests>>
vars == <<row, sessionVars, here, clientVars, up, down, behind>>

Pair   == {p \in User \X User : p[1] # p[2]}
Status == {"none", "pending", "accepted", "rejected"}
Rev(p) == <<p[2], p[1]>>

Button  == {"login", "request", "accept", "reject", "remove"}
Request == [kind : Button, peer : User]
Notice  == [kind : {"request", "accepted", "removed"}, peer : User]
             \cup [kind : {"login"}, friends : SUBSET User]

(* Types; the table has one status for each ordered pair of users.         *)
TypeOK ==
    /\ row \in [Pair -> Status]
    /\ pool \in [User -> SUBSET Session]
    /\ auth \in [User -> SUBSET Session]
    /\ route \in [User -> Session \cup {NoSession}]
    /\ here \in [User -> Session]
    /\ signedIn \in SUBSET User
    /\ behind \in SUBSET User
    /\ up \in [User -> [Session -> Seq(Request)]]
    /\ down \in [User -> Seq(Notice)]
    /\ friends \in [User -> SUBSET User]
    /\ requests \in [User -> SUBSET User]

Init ==
    /\ row = [p \in Pair |-> "none"]
    /\ here \in {h \in [User -> Session] : \A u \in User : h[u] \in Slots[u]}
    /\ pool = [u \in User |-> {here[u]}]
    /\ auth = [u \in User |-> {}]
    /\ route = [u \in User |-> NoSession]
    /\ signedIn = {}
    /\ behind = {}
    /\ up = [u \in User |-> [s \in Session |-> <<>>]]
    /\ down = [u \in User |-> <<>>]
    /\ friends = [u \in User |-> {}]
    /\ requests = [u \in User |-> {}]

-----------------------------------------------------------------------------
(***************************************************************************)
(* FriendRepository.                                                       *)
(***************************************************************************)

\* getFriends: the other end of every accepted row.
FriendsOf(u) == {v \in User \ {u} : "accepted" \in {row[<<u, v>>], row[<<v, u>>]}}

\* sendRequest, once the SELECT has returned the row q.  An INSERT onto an
\* existing row fails on UNIQUE(from_uid, to_uid).
OnExisting(p, q) ==
    CASE row[q] = "rejected" /\ q # p -> IF row[p] = "none" THEN "insert" ELSE "refuse"
      [] row[q] = "pending" /\ q = p  -> "refresh"
      [] OTHER                        -> "refuse"

\* Mutant of SendRequestOutcomes: only the row of the same direction is looked up.
SendRequestOutcomesOneWay(p) ==
    IF row[p] = "none" THEN {"insert"} ELSE {OnExisting(p, p)}

\* What sendRequest(from, to) may do: SELECT ... LIMIT 1 may return either row
\* of the two users.
SendRequestOutcomes(p) ==
    LET found == {q \in {p, Rev(p)} : row[q] # "none"} IN
    IF found = {} THEN {"insert"} ELSE {OnExisting(p, q) : q \in found}

\* Mutant of SetStatus: the WHERE clause does not ask for status='pending'.
SetStatusAny(p, status) ==
    IF row[p] # "none" THEN [row EXCEPT ![p] = status] ELSE row

\* setStatus: only a pending row changes (acceptRequest, rejectRequest).
SetStatus(p, status) ==
    IF row[p] = "pending" THEN [row EXCEPT ![p] = status] ELSE row

\* Mutant of RemoveFriendship: the rows are marked instead of deleted.
RemoveFriendshipMark(p) == [row EXCEPT ![p] = "removed", ![Rev(p)] = "removed"]

\* removeFriendship: both rows, whatever their status.
RemoveFriendship(p) == [row EXCEPT ![p] = "none", ![Rev(p)] = "none"]

-----------------------------------------------------------------------------
(***************************************************************************)
(* Sending.  Replies that report a failure change nothing at the client    *)
(* and are left out.                                                       *)
(***************************************************************************)

\* What the server sends over s reaches the client of u.
Reaches(u, s) == s = here[u] /\ s \in pool[u]

\* session->deliver: a notice to the client of u over its session s.
Send(u, s, kind, peer) ==
    IF Reaches(u, s) THEN <<[kind |-> kind, peer |-> peer]>> ELSE <<>>

\* The same to the session findByUserId(u) returns, if there is one.
Notify(u, kind, peer) == Send(u, route[u], kind, peer)

\* The frame of session s made or ended a friendship of u, and its reply goes
\* to s: the client misses it if it has moved on.
MissedBy(u, s) == IF s = here[u] THEN behind ELSE behind \cup {u}

-----------------------------------------------------------------------------
(***************************************************************************)
(* The handlers.                                                           *)
(***************************************************************************)

TakeFrame(u, s) ==
    /\ up[u][s] # <<>>
    /\ up' = [up EXCEPT ![u][s] = Tail(@)]

\* The server takes the next frame of s, about v, and s is authenticated as u;
\* the bound on notices holds.
Takes(u, s, kind, v) ==
    /\ TakeFrame(u, s)
    /\ s \in auth[u]
    /\ Head(up[u][s]) = [kind |-> kind, peer |-> v]
    /\ Len(down[u]) < MaxDown
    /\ Len(down[v]) < MaxDown

HandleFriendRequest(u, s, v) ==
    /\ Takes(u, s, "request", v)
    /\ \E outcome \in SendRequestOutcomes(<<u, v>>) :
         /\ row' = IF outcome = "insert" THEN [row EXCEPT ![<<u, v>>] = "pending"] ELSE row
         /\ down' = IF outcome = "refuse" THEN down
                    ELSE [down EXCEPT ![v] = @ \o Notify(v, "request", u)]
    /\ UNCHANGED <<sessionVars, here, clientVars, behind>>

\* Mutant of HandleFriendAccept: only the session that asked is answered.
HandleFriendAcceptOneSide(u, s, v) ==
    /\ Takes(u, s, "accept", v)
    /\ row' = SetStatus(<<v, u>>, "accepted")
    /\ IF row[<<v, u>>] = "pending"
       THEN /\ down' = [down EXCEPT ![u] = @ \o Send(u, s, "accepted", v)]
            /\ behind' = MissedBy(u, s)
       ELSE UNCHANGED <<down, behind>>
    /\ UNCHANGED <<sessionVars, here, clientVars>>

\* u accepts the request of v; both are told.
HandleFriendAccept(u, s, v) ==
    /\ Takes(u, s, "accept", v)
    /\ row' = SetStatus(<<v, u>>, "accepted")
    /\ IF row[<<v, u>>] = "pending"
       THEN /\ down' = [down EXCEPT ![u] = @ \o Send(u, s, "accepted", v),
                                    ![v] = @ \o Notify(v, "accepted", u)]
            /\ behind' = MissedBy(u, s)
       ELSE UNCHANGED <<down, behind>>
    /\ UNCHANGED <<sessionVars, here, clientVars>>

\* handleFriendRemove for the frame (fromId p[1], toId p[2]) of u: the
\* addressee of a pending request rejects it, anything else is a removal.
FriendRemove(u, s, p) ==
    LET rejects == u = p[2] /\ row[p] = "pending"
        v       == IF u = p[1] THEN p[2] ELSE p[1]
    IN  /\ row' = IF rejects THEN SetStatus(p, "rejected") ELSE RemoveFriendship(p)
        /\ IF row[p] # "none" \/ row[Rev(p)] # "none"
           THEN /\ down' = [down EXCEPT ![u] = @ \o Send(u, s, "removed", v),
                                        ![v] = @ \o Notify(v, "removed", u)]
                /\ behind' = MissedBy(u, s)
           ELSE UNCHANGED <<down, behind>>

\* respondToRequest(v, false): the frame names v as the sender.
HandleReject(u, s, v) ==
    /\ Takes(u, s, "reject", v)
    /\ FriendRemove(u, s, <<v, u>>)
    /\ UNCHANGED <<sessionVars, here, clientVars>>

\* removeFriend(v): the frame names u as the sender.
HandleRemove(u, s, v) ==
    /\ Takes(u, s, "remove", v)
    /\ FriendRemove(u, s, <<u, v>>)
    /\ UNCHANGED <<sessionVars, here, clientVars>>

\* handleLogin: bindUser takes the route, unless the session is gone; the
\* reply lists the friends and nothing about requests.
HandleLogin(u, s) ==
    /\ TakeFrame(u, s)
    /\ Head(up[u][s]).kind = "login"
    /\ Len(down[u]) < MaxDown
    /\ IF s \in pool[u]
       THEN /\ auth' = [auth EXCEPT ![u] = @ \cup {s}]
            /\ route' = [route EXCEPT ![u] = s]
       ELSE UNCHANGED <<auth, route>>
    /\ IF Reaches(u, s)
       THEN /\ down' = [down EXCEPT ![u] = Append(@, [kind |-> "login", friends |-> FriendsOf(u)])]
            /\ behind' = behind \ {u}
       ELSE UNCHANGED <<down, behind>>
    /\ UNCHANGED <<row, pool, here, clientVars>>

\* Any other frame of an unauthenticated session fails (uid <= 0).
RefuseFrame(u, s) ==
    /\ TakeFrame(u, s)
    /\ s \notin auth[u]
    /\ Head(up[u][s]).kind # "login"
    /\ UNCHANGED <<row, sessionVars, here, clientVars, down, behind>>

\* removeSession: the route of the user goes with any of its sessions.  At the
\* rate limit the decode loop goes on: it drops the frames over the limit and
\* handles the others it has read, those from the j-th to the k-th.
RemoveSession(u, s) ==
    /\ s \in pool[u]
    /\ pool' = [pool EXCEPT ![u] = @ \ {s}]
    /\ route' = IF s \in auth[u] THEN [route EXCEPT ![u] = NoSession] ELSE route
    /\ \E j \in 2 .. Len(up[u][s]) + 2, k \in 0 .. Len(up[u][s]) :
         up' = [up EXCEPT ![u][s] = SubSeq(@, j, k)]
    /\ UNCHANGED <<row, auth, here, clientVars, down, behind>>

-----------------------------------------------------------------------------
(***************************************************************************)
(* The client: its connection, friendStore, authStore and the buttons.     *)
(***************************************************************************)

\* The client leaves its connection and opens another one, s.  The server
\* notices when it removes the old session; what was on its way is lost.
Reconnect(u, s) ==
    /\ s \in Slots[u] \ (pool[u] \cup {here[u]})
    /\ up[u][s] = <<>>
    /\ here' = [here EXCEPT ![u] = s]
    /\ pool' = [pool EXCEPT ![u] = @ \cup {s}]
    /\ auth' = [auth EXCEPT ![u] = @ \ {s}]
    /\ down' = [down EXCEPT ![u] = <<>>]
    /\ UNCHANGED <<row, route, up, behind>>

\* The connection is lost; the stores of the client stay as they are.
Disconnect(u, s) ==
    /\ Reconnect(u, s)
    /\ UNCHANGED clientVars

\* onLogout: authStore.logout empties the stores without a word to the server,
\* then connectionStore.disconnect closes the connection.
Logout(u, s) ==
    /\ u \in signedIn
    /\ Reconnect(u, s)
    /\ signedIn' = signedIn \ {u}
    /\ friends' = [friends EXCEPT ![u] = {}]
    /\ requests' = [requests EXCEPT ![u] = {}]

\* ContactRow offers the request to a contact who is no friend and the removal
\* to a friend; FriendRequestRow offers both answers until one is confirmed.
Offered(u, kind, v) ==
    CASE kind = "login"   -> u \notin signedIn /\ v = u
      [] kind = "request" -> u \in signedIn /\ v # u /\ v \notin friends[u]
      [] kind = "remove"  -> u \in signedIn /\ v \in friends[u]
      [] OTHER            -> u \in signedIn /\ v \in requests[u]

\* What is sent over a session the server has removed is never read.
Click(u, kind, v) ==
    /\ here[u] \in pool[u]
    /\ Len(up[u][here[u]]) < MaxUp
    /\ Offered(u, kind, v)
    /\ up' = [up EXCEPT ![u][here[u]] = Append(@, [kind |-> kind, peer |-> v])]
    /\ UNCHANGED <<row, sessionVars, here, clientVars, down, behind>>

\* handleIncomingFriendEvent, and the friends of LoginSuccessReturn.
HandleIncoming(u) ==
    /\ down[u] # <<>>
    /\ down' = [down EXCEPT ![u] = Tail(@)]
    /\ LET n == Head(down[u]) IN
         CASE n.kind = "login" ->
                /\ friends' = [friends EXCEPT ![u] = n.friends]
                /\ signedIn' = signedIn \cup {u}
                /\ UNCHANGED requests
           [] n.kind = "request" ->
                /\ requests' = [requests EXCEPT ![u] = @ \cup {n.peer}]
                /\ UNCHANGED <<friends, signedIn>>
           [] n.kind = "accepted" ->
                /\ friends' = [friends EXCEPT ![u] = @ \cup {n.peer}]
                /\ requests' = [requests EXCEPT ![u] = @ \ {n.peer}]
                /\ UNCHANGED signedIn
           [] n.kind = "removed" ->
                /\ friends' = [friends EXCEPT ![u] = @ \ {n.peer}]
                /\ requests' = [requests EXCEPT ![u] = @ \ {n.peer}]
                /\ UNCHANGED signedIn
    /\ UNCHANGED <<row, sessionVars, here, up, behind>>

Handle(u, s, v) ==
    \/ HandleFriendRequest(u, s, v)
    \/ HandleFriendAccept(u, s, v)
    \/ HandleReject(u, s, v)
    \/ HandleRemove(u, s, v)

Next ==
    \E u \in User :
        \/ HandleIncoming(u)
        \/ \E v \in User, kind \in Button : Click(u, kind, v)
        \/ \E s \in Session :
             \/ HandleLogin(u, s)
             \/ RefuseFrame(u, s)
             \/ RemoveSession(u, s)
             \/ Disconnect(u, s)
             \/ Logout(u, s)
             \/ \E v \in User \ {u} : Handle(u, s, v)

Spec == Init /\ [][Next]_vars

-----------------------------------------------------------------------------
(***************************************************************************)
(* Properties.                                                             *)
(***************************************************************************)

(* Two users never have two live rows: requests that cross, retries and    *)
(* requests after a rejection, whichever row the SELECT returns, leave at  *)
(* most one row that is pending or accepted.  getFriends therefore lists a *)
(* friend once, and one removal or answer settles the pair.                *)
OneLiveRow ==
    \A p \in Pair :
        row[p] \in {"pending", "accepted"} => row[Rev(p)] \in {"none", "rejected"}

(* A client that has processed everything it was sent shows as friends     *)
(* exactly the accepted rows, whatever the other client did meanwhile, as  *)
(* long as notices are routed to the session it is at.  Once the removal   *)
(* of an older session has erased that route, notices are lost until it    *)
(* logs in again, which restores the agreement; and what an older session  *)
(* of its own still brought about is answered there.                       *)
FriendsAgree ==
    \A u \in signedIn :
        (route[u] = here[u] /\ u \notin behind /\ down[u] = <<>>) => friends[u] = FriendsOf(u)

(* A rejected row is never revived by a request or an answer: only the     *)
(* removal of the pair, both directions at once, ends it.  The design      *)
(* document lets it end by itself, by a clean-up after 30 days             *)
(* (docs/superpowers/specs/2026-05-29-v1.6.0-v1.7.0-redesign.md:301); the  *)
(* code has none, so a rejection holds until somebody removes the pair.    *)
RejectedUntilRemoved ==
    [][\A p \in Pair : row[p] = "rejected" /\ row'[p] # "rejected" =>
          row'[p] = "none" /\ row'[Rev(p)] = "none"]_row
=============================================================================
