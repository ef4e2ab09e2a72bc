----------------------------- MODULE LegacyChat -----------------------------
(***************************************************************************)
(* The legacy clients on top of the legacy server.  A client is known by   *)
(* the connection it is on: LoginDialog until the login reply, MainWindow  *)
(* after it; a client whose connection breaks comes back on a new one, and *)
(* does not log in again.                                                  *)
(***************************************************************************)
EXTENDS LegacyServer

CONSTANT Scenarios     \* where behaviours start and what people do in them: records of
                       \*   does    the kinds of operation people use
                       \*   online  users already logged in
                       \*   made    groups already created, and found by everybody online
                       \*   conns   bound: connections
                       \*   clicks  bound: frames the clients send
                       \*   breaks  bound: connections that end

ASSUME ScenarioAssumption ==
    \A s \in Scenarios :
        /\ s.online \in 0 .. Users /\ s.online <= Threads
        /\ s.made \in 0 .. MaxGroups
        /\ s.conns \in Nat /\ s.clicks \in Nat /\ s.breaks \in Nat

VARIABLES script,    \* the scenario
          win,       \* "none", "login", "main", "closed" or "crashed"
          host,      \* hostData: the user the window belongs to
          tried,     \* a login with the right password was sent on this connection
          friends,   \* the friend list, top to bottom
          chats,     \* users with an open ChatDialog
          shown,     \* private messages a dialog or a friend item was given
          asking,    \* which of the create and search dialogs are open
          found,     \* groups in the search dialog
          members,   \* the member list of each open GroupChatDialog
          joins,     \* how often the client joined each group
          missed,    \* the login dialog read frames that MainWindow needed
          clicks,    \* frames sent by clients so far
          breaks     \* connections that ended so far

clientVars == <<script, win, host, tried, friends, chats, shown, asking, found, members, joins,
                missed, clicks, breaks>>
vars == <<serverVars, clientVars>>

Dialogs(t) == DOMAIN members[t]

Does(op) == op \in script.does

Init ==
    /\ script \in Scenarios
    /\ ServerInit(script.online, script.made)
    /\ LET On(t) == t <= script.online IN
       /\ win = [t \in Thread |-> IF On(t) THEN "main" ELSE "none"]
       /\ host = [t \in Thread |-> IF On(t) THEN t ELSE Nobody]
       /\ tried = [t \in Thread |-> On(t)]
       /\ friends = [t \in Thread |-> IF On(t) THEN InOrder({u \in 1 .. script.online : u # t}) ELSE <<>>]
       /\ asking = [t \in Thread |-> IF On(t) /\ script.made > 0 THEN {"search"} ELSE {}]
       /\ found = [t \in Thread |-> IF On(t) THEN 1 .. script.made ELSE {}]
    /\ script.made > 0 => tables
    /\ chats = [t \in Thread |-> {}]
    /\ shown = [t \in Thread |-> <<>>]
    /\ members = [t \in Thread |-> <<>>]
    /\ joins = [t \in Thread |-> [g \in Group |-> 0]]
    /\ missed = [t \in Thread |-> FALSE]
    /\ clicks = 0 /\ breaks = 0

-----------------------------------------------------------------------------
(***************************************************************************)
(* LoginDialog.                                                            *)
(***************************************************************************)

\* sendJson of the client's socket: lost if the connection is down.
Send(t, m) ==
    /\ clicks < script.clicks
    /\ clicks' = clicks + 1 /\ UNCHANGED breaks
    /\ inbox' = IF peer[t] THEN [inbox EXCEPT ![t] = Append(@, m)] ELSE inbox
    /\ UNCHANGED <<worker, peer, user, msgQueue, out, events, guiVars, tables>>

\* A client starts and connects.
Start(t) ==
    /\ NewConnection(t) /\ t <= script.conns
    /\ win' = [win EXCEPT ![t] = "login"]
    /\ UNCHANGED <<user, inbox, msgQueue, out, events, guiVars, tables, script, host, tried, friends,
                   chats, shown, asking, found, members, joins, missed, clicks, breaks>>

\* Somebody enters a number and a password.  Once the password was right they wait
\* for the reply.
ClickLogin(t, u, right) ==
    /\ win[t] = "login" /\ ~tried[t]
    /\ right \/ Does("mistype")
    /\ Send(t, Login(u, right))
    /\ tried' = [tried EXCEPT ![t] = right]
    /\ UNCHANGED <<script, win, host, friends, chats, shown, asking, found, members, joins, missed>>

ClickRegister(t) ==
    /\ win[t] = "login" /\ Does("register")
    /\ Send(t, RegisterUser)
    /\ UNCHANGED <<script, win, host, tried, friends, chats, shown, asking, found, members, joins,
                   missed>>

\* readyRead takes every frame that is there.  A login reply opens MainWindow in
\* the middle of the loop, and the frames behind it are ignored.
LoginReads(t, n) ==
    LET batch == SubSeq(out[t], 1, n)
        replies == {i \in 1 .. n : batch[i].type = "loginSucReturn"} IN
    /\ win[t] = "login" /\ n \in 1 .. Len(out[t])
    /\ out' = [out EXCEPT ![t] = SubSeq(@, n + 1, Len(@))]
    /\ IF replies = {}
       THEN UNCHANGED <<win, host, friends, missed>>
       ELSE LET i == CHOOSE i \in replies : TRUE IN
            /\ win' = [win EXCEPT ![t] = "main"]
            /\ host' = [host EXCEPT ![t] = batch[i].id]
            /\ friends' = [friends EXCEPT ![t] = batch[i].friends]
            /\ missed' = [missed EXCEPT ![t] = n > i]
    /\ UNCHANGED <<worker, peer, user, inbox, msgQueue, events, guiVars, tables, script, tried, chats,
                   shown, asking, found, members, joins, clicks, breaks>>

-----------------------------------------------------------------------------
(***************************************************************************)
(* MainWindow: the frames it reads.                                        *)
(***************************************************************************)

\* The list without u's items.  The loop deletes item i and goes on with i + 1, so an
\* item right behind a deleted one is not looked at: of u's items in a row every other
\* one goes.
Without(list, u) ==
    LET Row(i) == {j \in 1 .. i : \A k \in j .. i : list[k] = u}
    IN  Picked(list, {i \in 1 .. Len(list) : Cardinality(Row(i)) % 2 = 0})

\* The group notices look their dialog up without asking whether there is one.
NeedsDialog == {"userJoinGroup", "userLeaveGroup", "receiveGroupMsg"}
NullDialog(t, m) ==
    \/ m.type \in NeedsDialog /\ m.group \notin Dialogs(t)
    \/ m.type = "createGroupReturn" /\ "create" \notin asking[t]
    \/ m.type = "searchGroupReturn" /\ "search" \notin asking[t]

\* One frame of those readyRead has.
MainReads(t) ==
    LET m == Head(out[t])
        Listed(us) == [members EXCEPT ![t] = [@ EXCEPT ![m.group] = us]] IN
    /\ win[t] = "main" /\ out[t] # <<>> /\ ~NullDialog(t, m)
    /\ out' = [out EXCEPT ![t] = Tail(@)]
    /\ friends' = [friends EXCEPT ![t] =
            CASE m.type = "userOnline"  -> Append(@, m.id)
              [] m.type = "userOffline" -> Without(@, m.id)
              [] OTHER -> @]
    /\ shown' = IF m.type = "receiveMsg" /\ m.from \in chats[t] \cup Range(friends[t])
                THEN [shown EXCEPT ![t] = Append(@, m.msg)] ELSE shown
    /\ found' = IF m.type = "searchGroupReturn" THEN [found EXCEPT ![t] = @ \cup m.found] ELSE found
    /\ members' =
            CASE m.type = "joinGroupReturn" /\ m.group \in Dialogs(t) ->
                    Listed(members[t][m.group] \o m.users)
              [] m.type = "userJoinGroup"  -> Listed(Append(members[t][m.group], m.id))
              [] m.type = "userLeaveGroup" -> Listed(Without(members[t][m.group], m.id))
              [] OTHER -> members
    /\ UNCHANGED <<worker, peer, user, inbox, msgQueue, events, guiVars, tables, script, win, host,
                   tried, chats, asking, joins, missed, clicks, breaks>>

\* A notice or reply for a dialog that is closed: the null pointer is used.
MainCrashes(t) ==
    /\ win[t] = "main" /\ out[t] # <<>> /\ NullDialog(t, Head(out[t]))
    /\ win' = [win EXCEPT ![t] = "crashed"]
    /\ peer' = [peer EXCEPT ![t] = FALSE]
    /\ out' = [out EXCEPT ![t] = <<>>]
    /\ UNCHANGED <<worker, user, inbox, msgQueue, events, guiVars, tables, script, host, tried, friends,
                   chats, shown, asking, found, members, joins, missed, clicks, breaks>>

-----------------------------------------------------------------------------
(***************************************************************************)
(* MainWindow: what people do.                                             *)
(***************************************************************************)

OpenChat(t, u) ==
    /\ win[t] = "main" /\ Does("chat")
    /\ u \in Range(friends[t]) \ chats[t]
    /\ chats' = [chats EXCEPT ![t] = @ \cup {u}]
    /\ UNCHANGED <<serverVars, script, win, host, tried, friends, shown, asking, found, members, joins,
                   missed, clicks, breaks>>

Say(t, u) ==
    /\ win[t] = "main" /\ u \in chats[t]
    /\ Send(t, SendMsg(host[t], u, <<t, clicks>>))
    /\ UNCHANGED <<script, win, host, tried, friends, chats, shown, asking, found, members, joins,
                   missed>>

AskCreate(t) ==
    /\ win[t] = "main" /\ Does("ask") /\ "create" \notin asking[t]
    /\ asking' = [asking EXCEPT ![t] = @ \cup {"create"}]
    /\ Send(t, CreateGroup)
    /\ UNCHANGED <<script, win, host, tried, friends, chats, shown, found, members, joins, missed>>

AskSearch(t) ==
    /\ win[t] = "main" /\ Does("ask") /\ "search" \notin asking[t]
    /\ asking' = [asking EXCEPT ![t] = @ \cup {"search"}]
    /\ Send(t, SearchGroup)
    /\ UNCHANGED <<script, win, host, tried, friends, chats, shown, found, members, joins, missed>>

CloseAsking(t, d) ==
    /\ win[t] = "main" /\ Does("ask") /\ d \in asking[t]
    /\ asking' = [asking EXCEPT ![t] = @ \ {d}]
    /\ found' = IF d = "search" THEN [found EXCEPT ![t] = {}] ELSE found
    /\ UNCHANGED <<serverVars, script, win, host, tried, friends, chats, shown, members, joins, missed,
                   clicks, breaks>>

\* A group's dialog opens, and the client joins.
Join(t, g) ==
    /\ win[t] = "main" /\ g \in found[t] \ Dialogs(t)
    /\ members' = [members EXCEPT ![t] = [h \in DOMAIN @ \cup {g} |-> IF h = g THEN <<>> ELSE @[h]]]
    /\ joins' = [joins EXCEPT ![t][g] = @ + 1]
    /\ Send(t, JoinGroup(g))
    /\ UNCHANGED <<script, win, host, tried, friends, chats, shown, asking, found, missed>>

\* It closes, and the client leaves.
Leave(t, g) ==
    /\ win[t] = "main" /\ g \in Dialogs(t)
    /\ members' = [members EXCEPT ![t] = [h \in DOMAIN @ \ {g} |-> @[h]]]
    /\ Send(t, LeaveGroup(g))
    /\ UNCHANGED <<script, win, host, tried, friends, chats, shown, asking, found, joins, missed>>

SayInGroup(t, g) ==
    /\ win[t] = "main" /\ g \in Dialogs(t) /\ Does("groupchat")
    /\ Send(t, SendGroupMsg(host[t], g, <<t, clicks>>))
    /\ UNCHANGED <<script, win, host, tried, friends, chats, shown, asking, found, members, joins,
                   missed>>

-----------------------------------------------------------------------------
(***************************************************************************)
(* Connections break.                                                      *)
(***************************************************************************)

\* The connection breaks, or the client is closed.
Break(t, w) ==
    /\ peer[t] /\ win[t] \in {"login", "main"}
    /\ breaks < script.breaks /\ w \in {win[t], "closed"}
    /\ breaks' = breaks + 1
    /\ peer' = [peer EXCEPT ![t] = FALSE]
    /\ win' = [win EXCEPT ![t] = w]
    /\ out' = [out EXCEPT ![t] = <<>>]
    /\ UNCHANGED <<worker, user, inbox, msgQueue, events, guiVars, tables, script, host, tried, friends,
                   chats, shown, asking, found, members, joins, missed, clicks>>

\* reconnectNow: the same window, on a new connection.
Moved(f, t, s, none) == [f EXCEPT ![s] = f[t], ![t] = none]
Reconnect(t, s) ==
    /\ win[t] \in {"login", "main"} /\ ~peer[t]
    /\ NewConnection(s) /\ s <= script.conns
    /\ win' = Moved(win, t, s, "none")
    /\ host' = Moved(host, t, s, Nobody)
    /\ friends' = Moved(friends, t, s, <<>>)
    /\ chats' = Moved(chats, t, s, {})
    /\ shown' = Moved(shown, t, s, <<>>)
    /\ asking' = Moved(asking, t, s, {})
    /\ found' = Moved(found, t, s, {})
    /\ members' = Moved(members, t, s, <<>>)
    /\ UNCHANGED <<user, inbox, msgQueue, out, events, guiVars, tables, script, tried, joins, missed,
                   clicks, breaks>>

Next ==
    \/ \E t \in Thread : ReadFrames(t) /\ UNCHANGED clientVars
    \/ \E t \in Thread : Deal(t) /\ UNCHANGED clientVars
    \/ \E t \in Thread : Ends(t) /\ UNCHANGED clientVars
    \/ Gui("loginSuccess") /\ LoginSuccess(Head(events).thread, Head(events).msg) /\ UNCHANGED clientVars
    \/ Gui("sendMsg") /\ SendPrivate(Head(events).thread, Head(events).msg) /\ UNCHANGED clientVars
    \/ Gui("userOffline") /\ UserGoesOffline(Head(events).thread, Head(events).msg) /\ UNCHANGED clientVars
    \/ Gui("createGroup") /\ CreateNewGroup(Head(events).thread, Head(events).msg) /\ UNCHANGED clientVars
    \/ Gui("searchGroup") /\ SearchGroups(Head(events).thread, Head(events).msg) /\ UNCHANGED clientVars
    \/ Gui("joinGroup") /\ JoinTheGroup(Head(events).thread, Head(events).msg) /\ UNCHANGED clientVars
    \/ Gui("leaveGroup") /\ LeaveTheGroup(Head(events).thread, Head(events).msg) /\ UNCHANGED clientVars
    \/ Gui("sendGroupMsg") /\ SendToGroup(Head(events).thread, Head(events).msg) /\ UNCHANGED clientVars
    \/ \E t \in Thread : Start(t) \/ ClickRegister(t) \/ AskCreate(t) \/ AskSearch(t)
    \/ \E t \in Thread, u \in User, right \in BOOLEAN : ClickLogin(t, u, right)
    \/ \E t \in Thread, u \in User : OpenChat(t, u) \/ Say(t, u)
    \/ \E t \in Thread, d \in {"create", "search"} : CloseAsking(t, d)
    \/ \E t \in Thread, g \in Group : Join(t, g) \/ Leave(t, g) \/ SayInGroup(t, g)
    \/ \E t \in Thread : \E n \in 1 .. Len(out[t]) : LoginReads(t, n)
    \/ \E t \in Thread : MainReads(t) \/ MainCrashes(t)
    \/ \E t \in Thread, w \in {"login", "main", "closed"} : Break(t, w)
    \/ \E t, s \in Thread : Reconnect(t, s)

Spec == Init /\ [][Next]_vars

-----------------------------------------------------------------------------
(***************************************************************************)
(* Properties.                                                             *)
(***************************************************************************)

\* Types; a group lists a thread once, and a connected peer has its thread running.
TypeOK ==
    /\ worker \in [Thread -> {"none", "running", "ended"}]
    /\ peer \in [Thread -> BOOLEAN]
    /\ user \in [Thread -> {Nobody} \cup User]
    /\ usersOnline \in [User -> {Nobody} \cup Thread]
    /\ \A g \in Group : groups[g] \in Seq(Thread) /\ IsInjective(groups[g])
    /\ createGroupId \in Nat \ {0}
    /\ win \in [Thread -> {"none", "login", "main", "closed", "crashed"}]
    /\ host \in [Thread -> {Nobody} \cup User]
    /\ \A t \in Thread : peer[t] => worker[t] = "running"
    /\ \A t \in Thread : win[t] = "main" => host[t] # Nobody

\* No signal, frame or message is under way, and every broken connection's thread
\* has ended.
Quiet ==
    /\ events = <<>>
    /\ \A t \in Thread : worker[t] = "running" =>
          peer[t] /\ inbox[t] = <<>> /\ msgQueue[t] = <<>> /\ out[t] = <<>>

Occurs(list, x) == Cardinality({i \in 1 .. Len(list) : list[i] = x})

\* Once everything under way has arrived, the friend list of a client that is
\* online shows every other online user once, and nobody else: the login reply, the
\* notices of other logins and those of disconnections agree in whatever order the
\* workers and the GUI thread ran (MainWindow::loginSuccess, userOffline).  Not so
\* for a client whose login dialog read past its reply.
FriendsAgree ==
    Quiet => \A u \in Online : LET t == usersOnline[u] IN
        (win[t] = "main" /\ host[t] = u /\ ~missed[t]) =>
            \A v \in User : Occurs(friends[t], v) = IF v \in Online \ {u} THEN 1 ELSE 0

\* Once everything under way has arrived, the member list of a group dialog names the
\* users of the group's member threads, each once (MainWindow::joinGroup, leaveGroup),
\* for a connected client that joined the group once on this connection.  Not so for a
\* user who logged in on two connections: when one of the threads leaves, the user's
\* items of both go.
MembersAgree ==
    Quiet => \A t \in Thread : \A g \in Dialogs(t) :
        (win[t] = "main" /\ peer[t] /\ t \in Range(groups[g]) /\ joins[t][g] = 1) =>
            \A u \in User : Cardinality({s \in Thread : user[s] = u}) <= 1 =>
                Occurs(members[t][g], u) = IF \E s \in Range(groups[g]) : user[s] = u THEN 1 ELSE 0

\* A user is online on a thread that has ended only while the signal that takes the
\* user offline is on its way (NetWorkThread::run, MainWindow::userOffline).
NoGhostUsers ==
    \A u \in Online : worker[usersOnline[u]] = "ended" =>
        \E i \in 1 .. Len(events) : events[i].type = "userOffline" /\ events[i].msg.id = u

\* A window is given the private messages of one sender in the order they were
\* written and none of them twice, replayed ones included: they pass the sender's
\* queue, the GUI thread's and the receiver's.
PrivateInOrder ==
    \A t \in Thread : \A i, j \in 1 .. Len(shown[t]) :
        (i < j /\ shown[t][i][1] = shown[t][j][1]) => shown[t][i][2] < shown[t][j][2]
=============================================================================
