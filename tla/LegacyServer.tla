---------------------------- MODULE LegacyServer ----------------------------
(***************************************************************************)
(* The legacy Qt server: one NetWorkThread per connection and the GUI      *)
(* thread's MainWindow.  A worker moves the frames it reads to its         *)
(* msgQueue and takes one message at a time from it: a client's request    *)
(* becomes a signal that Qt queues for the GUI thread, anything else is    *)
(* written to the socket.  The slots of MainWindow put their notices into  *)
(* the same msgQueues.  Users and threads are numbers, 0 is nobody.        *)
(*                                                                         *)
(* MessageDao runs its statements on the default database connection,      *)
(* which UserDao opens later and on another file: whether the tables exist *)
(* there is chosen once, in Init.                                          *)
(***************************************************************************)
EXTENDS Naturals, Sequences, SequencesExt, FiniteSets, TLC

CONSTANTS Users,      \* the accounts are 1 .. Users
          Threads,    \* bound: connections in a behaviour, 1 .. Threads
          MaxGroups   \* bound: groups created

ASSUME SizeAssumption == Users \in Nat /\ Threads \in Nat /\ MaxGroups \in Nat

User   == 1 .. Users
Thread == 1 .. Threads
Group  == 1 .. MaxGroups
Nobody == 0

VARIABLES worker,       \* "none", "running" or "ended": the thread of each connection
          peer,         \* is the other end still connected?
          user,         \* user of each thread: Nobody until a password was right
          inbox,        \* frames in the socket, not read yet
          msgQueue,     \* msgQueue of each thread
          out,          \* frames written to the socket, not read by the client yet
          events,       \* signals queued for the GUI thread
          usersOnline,  \* the thread each user is online on, or Nobody
          groups,       \* the member threads of each group, in the order they joined
          createGroupId,\* the next group id
          tables,       \* do MessageDao's tables exist?
          rows          \* private_messages

threadVars == <<worker, peer, user, inbox, msgQueue, out>>
guiVars    == <<usersOnline, groups, createGroupId, rows>>
serverVars == <<worker, peer, user, inbox, msgQueue, out, events, usersOnline, groups,
                createGroupId, tables, rows>>

\* Users 1 .. online have logged in, each on the thread of the same number, and
\* `made` groups exist; with 0 and 0 it is the server's start.
ServerInit(online, made) ==
    /\ worker = [t \in Thread |-> IF t <= online THEN "running" ELSE "none"]
    /\ peer = [t \in Thread |-> t <= online]
    /\ user = [t \in Thread |-> IF t <= online THEN t ELSE Nobody]
    /\ inbox = [t \in Thread |-> <<>>]
    /\ msgQueue = [t \in Thread |-> <<>>]
    /\ out = [t \in Thread |-> <<>>]
    /\ events = <<>>
    /\ usersOnline = [u \in User |-> IF u <= online THEN u ELSE Nobody]
    /\ groups = [g \in Group |-> <<>>]
    /\ createGroupId = made + 1
    /\ tables \in BOOLEAN
    /\ rows = <<>>

-----------------------------------------------------------------------------
(***************************************************************************)
(* The messages of MsgBuilder: what the parse function of each returns.    *)
(***************************************************************************)

RegisterUser            == [type |-> "registerUser"]
RegisterUserReturn      == [type |-> "registerUserReturn"]
Login(u, right)         == [type |-> "login", id |-> u, right |-> right]
LoginSucReturn(u, us)   == [type |-> "loginSucReturn", id |-> u, friends |-> us]
LoginLoseReturn         == [type |-> "loginLoseReturn"]
SendMsg(u, v, m)        == [type |-> "sendMsg", from |-> u, to |-> v, msg |-> m]
ReceiveMsg(u, v, m)     == [type |-> "receiveMsg", from |-> u, to |-> v, msg |-> m]
UserOnline(u)           == [type |-> "userOnline", id |-> u]
UserOffline(u)          == [type |-> "userOffline", id |-> u]
CreateGroup             == [type |-> "createGroup"]
CreateGroupReturn(g)    == [type |-> "createGroupReturn", group |-> g]
SearchGroup             == [type |-> "searchGroup"]
SearchGroupReturn(gs)   == [type |-> "searchGroupReturn", found |-> gs]
JoinGroup(g)            == [type |-> "joinGroup", group |-> g]
JoinGroupReturn(g, us)  == [type |-> "joinGroupReturn", group |-> g, users |-> us]
UserJoinGroup(u, g)     == [type |-> "userJoinGroup", id |-> u, group |-> g]
LeaveGroup(g)           == [type |-> "leaveGroup", group |-> g]
UserLeaveGroup(u, g)    == [type |-> "userLeaveGroup", id |-> u, group |-> g]
SendGroupMsg(u, g, m)   == [type |-> "sendGroupMsg", id |-> u, group |-> g, msg |-> m]
ReceiveGroupMsg(u, g, m) == [type |-> "receiveGroupMsg", id |-> u, group |-> g, msg |-> m]

\* The requests run() turns into signals; every other message from the queue that
\* is not a registration or a login is written to the socket.
Requests == {"sendMsg", "createGroup", "searchGroup", "joinGroup", "leaveGroup", "sendGroupMsg"}

\* A signal of thread t, as Qt queues it for the GUI thread.
Signal(type, t, m) == [type |-> type, thread |-> t, msg |-> m]

-----------------------------------------------------------------------------
(***************************************************************************)
(* The worker thread: NetWorkThread::run.                                  *)
(***************************************************************************)

\* A connection gets a thread.
NewConnection(t) ==
    /\ worker[t] = "none"
    /\ \A s \in 1 .. t - 1 : worker[s] # "none"
    /\ worker' = [worker EXCEPT ![t] = "running"]
    /\ peer' = [peer EXCEPT ![t] = TRUE]

\* Whatever the socket holds is decoded and queued.
ReadFrames(t) ==
    /\ worker[t] = "running" /\ inbox[t] # <<>>
    /\ msgQueue' = [msgQueue EXCEPT ![t] = @ \o inbox[t]]
    /\ inbox' = [inbox EXCEPT ![t] = <<>>]
    /\ UNCHANGED <<worker, peer, user, out, events, guiVars, tables>>

\* sendJson: what is written to a connection that is gone reaches nobody.
Written(t, m) == IF peer[t] THEN [out EXCEPT ![t] = Append(@, m)] ELSE out

\* A message leaves the queue.  A right password makes the thread its user's at once,
\* before MainWindow has heard of it.
Dealt(t, m) ==
    \/ /\ m.type = "login" /\ m.right
       /\ user' = [user EXCEPT ![t] = m.id]
       /\ events' = Append(events, Signal("loginSuccess", t, m))
       /\ UNCHANGED out
    \/ /\ m.type = "login" /\ ~m.right
       /\ out' = Written(t, LoginLoseReturn)
       /\ UNCHANGED <<user, events>>
    \/ /\ m.type = "registerUser"
       /\ out' = Written(t, RegisterUserReturn)
       /\ UNCHANGED <<user, events>>
    \/ /\ m.type \in Requests
       /\ events' = Append(events, Signal(m.type, t, m))
       /\ UNCHANGED <<user, out>>
    \/ /\ m.type \notin {"login", "registerUser"} \cup Requests
       /\ out' = Written(t, m)
       /\ UNCHANGED <<user, events>>

\* Mutant: the newest message first.
DealLast(t) ==
    /\ worker[t] = "running" /\ msgQueue[t] # <<>>
    /\ msgQueue' = [msgQueue EXCEPT ![t] = Front(@)]
    /\ Dealt(t, Last(msgQueue[t]))
    /\ UNCHANGED <<worker, peer, inbox, guiVars, tables>>

\* One message is taken from the queue.
Deal(t) ==
    /\ worker[t] = "running" /\ msgQueue[t] # <<>>
    /\ msgQueue' = [msgQueue EXCEPT ![t] = Tail(@)]
    /\ Dealt(t, Head(msgQueue[t]))
    /\ UNCHANGED <<worker, peer, inbox, guiVars, tables>>

\* Mutant: the thread ends on a connection that is merely idle.
EndsIdle(t) ==
    /\ worker[t] = "running" /\ inbox[t] = <<>>
    /\ worker' = [worker EXCEPT ![t] = "ended"]
    /\ events' = Append(events, Signal("userOffline", t, UserOffline(user[t])))
    /\ inbox' = [inbox EXCEPT ![t] = <<>>]
    /\ msgQueue' = [msgQueue EXCEPT ![t] = <<>>]
    /\ UNCHANGED <<peer, user, out, guiVars, tables>>

\* The peer is gone and the loop has noticed: the thread ends with what is still
\* queued, and says that its user, if any, is offline.  The object stays.
Ends(t) ==
    /\ worker[t] = "running" /\ ~peer[t]
    /\ worker' = [worker EXCEPT ![t] = "ended"]
    /\ events' = Append(events, Signal("userOffline", t, UserOffline(user[t])))
    /\ inbox' = [inbox EXCEPT ![t] = <<>>]
    /\ msgQueue' = [msgQueue EXCEPT ![t] = <<>>]
    /\ UNCHANGED <<peer, user, out, guiVars, tables>>

-----------------------------------------------------------------------------
(***************************************************************************)
(* The GUI thread: the slots of MainWindow, one signal at a time.          *)
(***************************************************************************)

Online == {u \in User : usersOnline[u] # Nobody}
\* The elements of list s at the positions P, in order.
Picked(s, P) ==
    LET Place(i) == Cardinality({j \in P : j <= i})
    IN  [k \in 1 .. Cardinality(P) |-> s[CHOOSE i \in P : Place(i) = k]]
InOrder(us) == Picked([u \in User |-> u], us)
\* m once for every online user of thread t.
ForUsers(t, m) == [i \in 1 .. Cardinality({u \in Online : usersOnline[u] = t}) |-> m]
\* The queues with the messages extra[t] behind what thread t's queue holds.  What is
\* pushed to a thread that has ended is never read, and left out.
Pushed(extra) == [t \in Thread |-> IF worker[t] = "ended" THEN <<>> ELSE msgQueue[t] \o extra[t]]

\* Unread private messages to u, oldest first, as they are replayed.  The query is
\* ORDER BY created_at, in whole seconds; this takes the clock not to step back, and
\* SQLite to return the rows of one second in the order they were inserted.
Unread(u) == Picked(rows, {i \in 1 .. Len(rows) : rows[i].to = u /\ ~rows[i].read})
Replay(u) == [i \in 1 .. Len(Unread(u)) |-> ReceiveMsg(Unread(u)[i].from, u, Unread(u)[i].msg)]

\* Mutant: the user's entry is made before the reply lists those online.
LoginSuccessListsSelf(thread, m) ==
    LET extra == [t \in Thread |->
            ForUsers(t, UserOnline(m.id)) \o
            IF t = thread THEN <<LoginSucReturn(m.id, InOrder(Online \cup {m.id}))>> ELSE <<>>]
    IN  /\ IF m.id \in Online
           THEN UNCHANGED <<msgQueue, usersOnline, rows>>
           ELSE /\ msgQueue' = Pushed(extra)
                /\ usersOnline' = [usersOnline EXCEPT ![m.id] = thread]
                /\ UNCHANGED rows
        /\ UNCHANGED <<groups, createGroupId>>

\* The user is already online: nothing happens, no reply either.  Otherwise those
\* online are told, the reply lists them, and the unread messages follow it.
LoginSuccess(thread, m) ==
    LET extra == [t \in Thread |->
            ForUsers(t, UserOnline(m.id)) \o
            IF t = thread THEN <<LoginSucReturn(m.id, InOrder(Online))>> \o Replay(m.id)
            ELSE <<>>]
    IN  /\ IF m.id \in Online
           THEN UNCHANGED <<msgQueue, usersOnline, rows>>
           ELSE /\ msgQueue' = Pushed(extra)
                /\ usersOnline' = [usersOnline EXCEPT ![m.id] = thread]
                /\ rows' = [i \in 1 .. Len(rows) |->
                              [rows[i] EXCEPT !.read = @ \/ rows[i].to = m.id]]
        /\ UNCHANGED <<groups, createGroupId>>

\* Every private message becomes a row, unread even when it is delivered here.
SendPrivate(thread, m) ==
    LET extra == [t \in Thread |->
            IF t = usersOnline[m.to] THEN <<ReceiveMsg(m.from, m.to, m.msg)>> ELSE <<>>]
    IN  /\ rows' = IF tables
                   THEN Append(rows, [from |-> m.from, to |-> m.to, msg |-> m.msg, read |-> FALSE])
                   ELSE rows
        /\ msgQueue' = Pushed(extra)
        /\ UNCHANGED <<usersOnline, groups, createGroupId>>

\* Mutant: the user who left stays in usersOnline.
UserGoesOfflineKeepsEntry(thread, m) ==
    LET left == {u \in Online : u # m.id}
        extra == [t \in Thread |->
            [i \in 1 .. Cardinality({u \in left : usersOnline[u] = t}) |-> UserOffline(m.id)]]
    IN  /\ msgQueue' = Pushed(extra)
        /\ UNCHANGED <<usersOnline, groups, createGroupId, rows>>

\* The user's entry goes, whichever thread it names, and those left are told, also
\* about a thread that never had a user.
UserGoesOffline(thread, m) ==
    LET left == {u \in Online : u # m.id}
        extra == [t \in Thread |->
            [i \in 1 .. Cardinality({u \in left : usersOnline[u] = t}) |-> UserOffline(m.id)]]
    IN  /\ usersOnline' = [u \in User |-> IF u = m.id THEN Nobody ELSE usersOnline[u]]
        /\ msgQueue' = Pushed(extra)
        /\ UNCHANGED <<groups, createGroupId, rows>>

\* A new group starts empty, its creator included.
CreateNewGroup(thread, m) ==
    LET extra == [t \in Thread |->
            IF t = thread THEN <<CreateGroupReturn(createGroupId)>> ELSE <<>>]
    IN  /\ createGroupId' = createGroupId + 1
        /\ msgQueue' = Pushed(extra)
        /\ UNCHANGED <<usersOnline, groups, rows>>

\* The reply lists the channels table.
SearchGroups(thread, m) ==
    LET found == IF tables THEN 1 .. createGroupId - 1 ELSE {}
        extra == [t \in Thread |-> IF t = thread THEN <<SearchGroupReturn(found)>> ELSE <<>>]
    IN  /\ msgQueue' = Pushed(extra)
        /\ UNCHANGED <<usersOnline, groups, createGroupId, rows>>

\* The thread joins if it is not a member; the others are told either way, and the
\* reply lists every member thread's user as it is now.
JoinTheGroup(thread, m) ==
    LET joined == IF thread \in Range(groups[m.group]) THEN groups[m.group]
                  ELSE Append(groups[m.group], thread)
        reply == JoinGroupReturn(m.group, [i \in 1 .. Len(joined) |-> user[joined[i]]])
        extra == [t \in Thread |->
            IF t = thread THEN <<reply>>
            ELSE IF t \in Range(joined) THEN <<UserJoinGroup(user[thread], m.group)>> ELSE <<>>]
    IN  /\ groups' = [groups EXCEPT ![m.group] = joined]
        /\ msgQueue' = Pushed(extra)
        /\ UNCHANGED <<usersOnline, createGroupId, rows>>

\* The member threads of g without this one.
Others(thread, g) == Picked(groups[g], {i \in 1 .. Len(groups[g]) : groups[g][i] # thread})

\* Mutant: nobody is told.
LeaveTheGroupQuietly(thread, m) ==
    /\ groups' = [groups EXCEPT ![m.group] = Others(thread, m.group)]
    /\ UNCHANGED <<msgQueue, usersOnline, createGroupId, rows>>

\* The thread leaves, and the members left are told.
LeaveTheGroup(thread, m) ==
    LET left == Others(thread, m.group)
        extra == [t \in Thread |->
            IF t \in Range(left) THEN <<UserLeaveGroup(user[thread], m.group)>> ELSE <<>>]
    IN  /\ groups' = [groups EXCEPT ![m.group] = left]
        /\ msgQueue' = Pushed(extra)
        /\ UNCHANGED <<usersOnline, createGroupId, rows>>

\* A group message goes to the other member threads, ended ones included.
SendToGroup(thread, m) ==
    LET extra == [t \in Thread |->
            IF t # thread /\ t \in Range(groups[m.group])
            THEN <<ReceiveGroupMsg(m.id, m.group, m.msg)>> ELSE <<>>]
    IN  /\ msgQueue' = Pushed(extra)
        /\ UNCHANGED <<usersOnline, groups, createGroupId, rows>>

\* The GUI thread takes the oldest signal, whose slot gets its thread and message.
Gui(type) ==
    /\ events # <<>> /\ Head(events).type = type
    /\ events' = Tail(events)
    /\ UNCHANGED <<worker, peer, user, inbox, out, tables>>
=============================================================================
