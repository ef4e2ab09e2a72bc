---------------------------- MODULE LegacyProofs ----------------------------
(***************************************************************************)
(* Theorems about the legacy client and server, for any number of users,   *)
(* connections and groups and any scenario: private messages in order, and *)
(* lists of friends and members that agree with the server.  The levels of *)
(* the invariant above Shape and LoginInv, those of LegacyLoginProofs:     *)
(*                                                                         *)
(*   Fresh       before its login has arrived a thread is told nothing     *)
(*   Sending     private messages on their way to the GUI thread are in    *)
(*               the order they were written                               *)
(*   Sent        so are those it has handled; gives PrivateInOrder         *)
(*   FriendsInv  a window's list and the notices behind it lead to those   *)
(*               online; gives FriendsAgree                                *)
(*   Joining     the joins and leavings of a client take it from one       *)
(*               standing with a group to the next                         *)
(*   MembersInv  a dialog's list and the notices behind it lead to the     *)
(*               users of the group's threads; gives MembersAgree          *)
(***************************************************************************)
EXTENDS LegacyLoginProofs

\* What a queue holds, and a queue with nothing for threads of online users only.
Held(q) == {q[i] : i \in 1 .. Len(q)}
Calm(q) == \A m \in Held(q) : ~Personal(m)

\* Before its login signal has arrived a thread was given nothing of that kind, and
\* its window is still the login dialog.
Fresh ==
    /\ \A t \in Thread : user[t] = Nobody \/ Signalled(t) => Calm(out[t]) /\ Calm(msgQueue[t])
    /\ \A t \in Thread : Pending(t) \/ Signalled(t) =>
          shown[t] = <<>> /\ (peer[t] => win[t] = "login")

-----------------------------------------------------------------------------
(***************************************************************************)
(* Private messages.                                                       *)
(***************************************************************************)

\* Of one sender, a was written before b.
Earlier(a, b) == a[1] = b[1] => a[2] < b[2]

\* The private messages of kind k in a queue are in order, and those in q are earlier
\* than those in r.
Ordered(q, k) == \A i, j \in 1 .. Len(q) :
    i < j /\ q[i].type = k /\ q[j].type = k => Earlier(q[i].msg, q[j].msg)
Precedes(q, k, r) == \A m \in Held(q), n \in Held(r) :
    m.type = k /\ n.type = k => Earlier(m.msg, n.msg)

\* What is queued on the way to the GUI thread, to thread t and as signals.
Coming(t) == {m \in Held(inbox[t]) \cup Held(msgQueue[t]) : m.type = "sendMsg"}
Raised == {e \in Held(events) : e.type = "sendMsg"}
QueueOrdered(t) ==
    /\ Ordered(inbox[t], "sendMsg") /\ Ordered(msgQueue[t], "sendMsg")
    /\ Precedes(msgQueue[t], "sendMsg", inbox[t])
SignalsOrdered == \A i, j \in 1 .. Len(events) :
    i < j /\ events[i].type = "sendMsg" /\ events[j].type = "sendMsg" =>
       Earlier(events[i].msg.msg, events[j].msg.msg)

\* What clients have written and the GUI thread has not handled: the number of a
\* message is that of its click, and a thread's signals are earlier than its queues.
Wrote(t, p) == p[1] = t /\ p[2] < clicks
Sending ==
    /\ \A t \in Thread : \A m \in Coming(t) : Wrote(t, m.msg)
    /\ \A e \in Raised : Wrote(e.thread, e.msg.msg)
    /\ \A e \in Raised : \A t \in Thread : \A m \in Coming(t) : Earlier(e.msg.msg, m.msg)
    /\ \A t \in Thread : QueueOrdered(t)
    /\ SignalsOrdered

\* Was p written, and not handled by the GUI thread yet?  Is p earlier than all its
\* sender has under way, and than what will be written?
UnderWay(p) ==
    \/ \E t \in Thread : \E m \in Coming(t) : m.msg = p
    \/ \E e \in Raised : e.msg.msg = p
Passed(p) == p[2] < clicks /\ \A q \in Payload : UnderWay(q) => Earlier(p, q)

\* What is queued for a window.
Given(t) == {m \in Held(out[t]) \cup Held(msgQueue[t]) : m.type = "receiveMsg"}
GivenOrdered(t) ==
    /\ Ordered(out[t], "receiveMsg") /\ Ordered(msgQueue[t], "receiveMsg")
    /\ Precedes(out[t], "receiveMsg", msgQueue[t])
ShownOrdered(t) == \A i, j \in 1 .. Len(shown[t]) : i < j => Earlier(shown[t][i], shown[t][j])

\* What the GUI thread has handled.
Sent ==
    /\ \A t \in Thread : \A m \in Given(t) : Passed(m.msg)
    /\ \A t \in Thread : \A p \in Held(shown[t]) : Passed(p)
    /\ \A r \in Held(rows) : Passed(r.msg)
    /\ \A t \in Thread : GivenOrdered(t)
    /\ \A t \in Thread : \A p \in Held(shown[t]) : \A m \in Given(t) : Earlier(p, m.msg)
    /\ \A t \in Thread : ShownOrdered(t)
    /\ \A i, j \in 1 .. Len(rows) : i < j => Earlier(rows[i].msg, rows[j].msg)

-----------------------------------------------------------------------------
(***************************************************************************)
(* Friend lists.                                                           *)
(***************************************************************************)

\* The notices about v.
Ons(m, v)  == m.type = "userOnline" /\ m.id = v
Offs(m, v) == m.type = "userOffline" /\ m.id = v
\* P holds the places of q behind which v is listed, 0 for in front of it: nobody is
\* added who is listed.
Turns(P, q, v) ==
    /\ P \subseteq 0 .. Len(q)
    /\ \A j \in 1 .. Len(q) :
          /\ Ons(q[j], v) => j - 1 \notin P
          /\ j \in P <=> Ons(q[j], v) \/ (j - 1 \in P /\ ~Offs(q[j], v))

\* The list, the frames q and the messages r behind them make v listed once if v is
\* among those online.
Leads(P, R, list, q, r, v, us) ==
    /\ Turns(P, q, v) /\ Turns(R, r, v)
    /\ 0 \in P <=> Lists(list, v)
    /\ Len(q) \in P <=> 0 \in R
    /\ Len(r) \in R <=> v \in us
Informed(list, q, r, us) == \A v \in User :
    /\ Once(list, v)
    /\ \E P \in SUBSET (0 .. Len(q)), R \in SUBSET (0 .. Len(r)) : Leads(P, R, list, q, r, v, us)

\* The login reply is not in q.
NoReply(q) == \A m \in Held(q) : ~Reply(m)
\* m is the reply in q, and nothing for the window is before it.
FirstAt(p, q, m) ==
    /\ q[p] = m /\ Reply(m)
    /\ \A i \in 1 .. p - 1 : ~Personal(q[i])
    /\ \A i \in p + 1 .. Len(q) : ~Reply(q[i])
FirstIn(q, m) == \E p \in 1 .. Len(q) : FirstAt(p, q, m)

\* The window has u's list, or the login dialog will be given the reply with it.
Main(list, q, r, us) == NoReply(q) /\ NoReply(r) /\ Informed(list, q, r, us)
Placed(m, q, r) == (FirstIn(q, m) /\ NoReply(r)) \/ (Calm(q) /\ FirstIn(r, m))
Opening(m, q, r, us) == Placed(m, q, r) /\ Informed(m.friends, q, r, us)
Settled(w, h, list, q, r, u, us) ==
    \/ w = "main" /\ h = u /\ Main(list, q, r, us)
    \/ w = "login" /\ \E m \in Held(q) \cup Held(r) : Opening(m, q, r, us) /\ m.id = u

\* A thread whose client has not read a reply has missed nothing, and the clients of
\* those online have their lists or are about to.
NoneMissed == \A t \in Thread : win[t] = "login" \/ worker[t] = "none" => ~missed[t]
FriendsInv ==
    /\ NoneMissed
    /\ \A u \in User, t \in Thread : usersOnline[u] = t /\ peer[t] /\ ~missed[t] =>
          Settled(win[t], host[t], friends[t], out[t], msgQueue[t], u, Online \ {u})

-----------------------------------------------------------------------------
(***************************************************************************)
(* Member lists.                                                           *)
(***************************************************************************)

\* x leads to y in S along the relations R[1] .. R[n].
Path(S, n, R, x, y) ==
    \E f \in [0 .. n -> S] :
        f[0] = x /\ f[n] = y /\ \A i \in 1 .. n : <<f[i - 1], f[i]>> \in R[i]

\* Where a client stands with a group it has joined n times, and what a request does
\* to that.
Stages == {"never", "in", "out"}
Standing(n) == IF n = 0 THEN {"never"} ELSE Stages
Asked(m, g, n) ==
    IF m.type = "joinGroup" /\ m.group = g
    THEN {<<"never", "in">>} \cup IF n > 1 THEN {<<"out", "in">>} ELSE {}
    ELSE IF m.type = "leaveGroup" /\ m.group = g
    THEN {<<"never", "never">>, <<"in", "out">>, <<"out", "out">>}
    ELSE {<<a, a>> : a \in Stages}
Asks(q, g, n, x, y) == Path(Standing(n), Len(q), [i \in 1 .. Len(q) |-> Asked(q[i], g, n)], x, y)
Signals(es, t, g, n, x, y) ==
    Path(Standing(n), Len(es),
         [i \in 1 .. Len(es) |->
             IF es[i].thread = t THEN Asked(es[i].msg, g, n) ELSE {<<a, a>> : a \in Stages}],
         x, y)

\* The messages about a group's members.
About(m, g) == Grouped(m) /\ m.group = g
Unheard(q, g) == \A m \in Held(q) : ~About(m, g)

\* A client joins when it is not a member and has heard nothing of the group; after
\* all it has sent, one without the group's dialog is not a member.
Stands(t, g, a) ==
    /\ a = "in" <=> t \in Range(groups[g])
    /\ a = "never" => /\ Unheard(out[t], g) /\ Unheard(msgQueue[t], g)
                      /\ joins[t][g] > 0 /\ g \in Dialogs(t) => members[t][g] = <<>>
Leaves(t, g, d) == peer[t] /\ g \notin Dialogs(t) => d # "in"
Joins(t, g, n) == \E a, b, c, d \in Standing(n) :
    /\ Stands(t, g, a) /\ Signals(events, t, g, n, a, b)
    /\ Asks(msgQueue[t], g, n, b, c) /\ Asks(inbox[t], g, n, c, d)
    /\ Leaves(t, g, d)

\* A thread without a user yet is in no group.
Unjoined(t) == \A g \in Group : joins[t][g] = 0
Joining ==
    /\ \A t \in Thread : win[t] = "login" \/ Pending(t) => Unjoined(t)
    /\ \A t \in Thread : Pending(t) => win[t] # "main"
    /\ \A t \in Thread, g \in Group : Joins(t, g, joins[t][g])

\* How often u is listed, and what a notice does to that.
Shows(list, u, x) == Once(list, u) /\ x = IF Lists(list, u) THEN 1 ELSE 0
Noted(m, g, u) ==
    IF m.type = "userJoinGroup" /\ m.group = g /\ m.id = u THEN {<<0, 1>>}
    ELSE IF m.type = "userLeaveGroup" /\ m.group = g /\ m.id = u THEN {<<0, 0>>, <<1, 0>>}
    ELSE IF m.type = "joinGroupReturn" /\ m.group = g
    THEN {<<0, x>> : x \in {y \in {0, 1} : Shows(m.users, u, y)}}
    ELSE {<<0, 0>>, <<1, 1>>}
Notes(q, g, u, x, y) == Path({0, 1}, Len(q), [i \in 1 .. Len(q) |-> Noted(q[i], g, u)], x, y)

\* The list of a client that joined once, with the notices on their way to it, leads to
\* the users of the group's threads.
Sole(u) == \A s, r \in Thread : user[s] = u /\ user[r] = u => s = r
Present(u, g) == IF \E s \in Range(groups[g]) : user[s] = u THEN 1 ELSE 0
Listed(list, q, r, g, u) == \E x, z \in {0, 1} :
    Shows(list, u, x) /\ Notes(q, g, u, x, z) /\ Notes(r, g, u, z, Present(u, g))
Member(t, g) ==
    /\ t \in Range(groups[g]) /\ peer[t] /\ win[t] = "main"
    /\ g \in Dialogs(t) /\ joins[t][g] = 1
Heard(t, g) == \A u \in User : Sole(u) => Listed(members[t][g], out[t], msgQueue[t], g, u)
MembersInv == \A t \in Thread, g \in Group : Member(t, g) => Heard(t, g)

-----------------------------------------------------------------------------
(***************************************************************************)
(* What queues hold.                                                       *)
(***************************************************************************)

\* An empty one.
LEMMA HeldEmpty ==
  Held(<<>>) = {} /\ Calm(<<>>)
  BY DEF Held, Calm

\* One message.
LEMMA HeldOne ==
  ASSUME NEW m
  PROVE  Held(<<m>>) = {m}
  <1>1. Len(<<m>>) = 1 /\ <<m>>[1] = m
    BY OneList
  <1>. QED BY <1>1 DEF Held

\* One more message.
LEMMA HeldAppend ==
  ASSUME NEW q, List(q), NEW m
  PROVE  Held(Append(q, m)) = Held(q) \cup {m}
  <1>1. /\ Len(q) \in Nat /\ Len(Append(q, m)) = Len(q) + 1
        /\ \A i \in 1 .. Len(q) : Append(q, m)[i] = q[i]
        /\ Append(q, m)[Len(q) + 1] = m
    BY ListLen, AppendList
  <1>2. /\ \A i \in 1 .. Len(q) + 1 : i \in 1 .. Len(q) \/ i = Len(q) + 1
        /\ \A i \in 1 .. Len(q) : i \in 1 .. Len(q) + 1
        /\ Len(q) + 1 \in 1 .. Len(q) + 1
    BY <1>1
  <1>. QED BY <1>1, <1>2 DEF Held

\* Indices of one list behind another.
LEMMA ConcatAt ==
  ASSUME NEW q, List(q), NEW r, List(r), NEW x, x = q \o r, NEW n, n = Len(q), NEW k, k = Len(r)
  PROVE  /\ n \in Nat /\ k \in Nat /\ List(x) /\ Len(x) = n + k
         /\ \A i \in 1 .. n : i \in 1 .. n + k /\ x[i] = q[i]
         /\ \A i \in 1 .. k : n + i \in 1 .. n + k /\ x[n + i] = r[i]
         /\ \A i \in 1 .. n + k : \/ i \in 1 .. n /\ x[i] = q[i]
                                  \/ i - n \in 1 .. k /\ x[i] = r[i - n] /\ i > n
  <1>1. n \in Nat /\ k \in Nat
    BY ListLen
  <1>2. /\ List(q \o r) /\ Len(q \o r) = Len(q) + Len(r)
        /\ \A i \in 1 .. Len(q) : (q \o r)[i] = q[i]
        /\ \A i \in 1 .. Len(r) : (q \o r)[Len(q) + i] = r[i]
    BY ConcatList
  <1>3. /\ List(x) /\ Len(x) = n + k
        /\ \A i \in 1 .. n : x[i] = q[i]
        /\ \A i \in 1 .. k : x[n + i] = r[i]
    BY <1>2
  <1>4. /\ \A i \in 1 .. n + k : i \in 1 .. n \/ (i - n \in 1 .. k /\ i = n + (i - n) /\ i > n)
        /\ \A i \in 1 .. n : i \in 1 .. n + k
        /\ \A i \in 1 .. k : n + i \in 1 .. n + k
    BY <1>1
  <1>. QED BY <1>1, <1>3, <1>4

\* One queue behind another.
LEMMA HeldConcat ==
  ASSUME NEW q, List(q), NEW r, List(r)
  PROVE  Held(q \o r) = Held(q) \cup Held(r)
  <1>. DEFINE x == q \o r
              n == Len(q)
              k == Len(r)
  <1>1. /\ Len(x) = n + k
        /\ \A i \in 1 .. n : i \in 1 .. n + k /\ x[i] = q[i]
        /\ \A i \in 1 .. k : n + i \in 1 .. n + k /\ x[n + i] = r[i]
        /\ \A i \in 1 .. n + k : \/ i \in 1 .. n /\ x[i] = q[i]
                                 \/ i - n \in 1 .. k /\ x[i] = r[i - n]
    BY ConcatAt
  <1>. HIDE DEF x, n, k
  <1>2. \A y : y \in Held(x) <=> y \in Held(q) \/ y \in Held(r)
    BY <1>1 DEF Held, n, k
  <1>. QED BY <1>2 DEF x

\* Without the first message.
LEMMA HeldTail ==
  ASSUME NEW q, List(q), q # <<>>
  PROVE  Held(Tail(q)) \subseteq Held(q) /\ q[1] \in Held(q) /\ Held(q) = {q[1]} \cup Held(Tail(q))
  <1>1. /\ Len(q) \in Nat /\ Len(Tail(q)) = Len(q) - 1 /\ Len(q) >= 1
        /\ \A i \in 1 .. Len(q) - 1 : Tail(q)[i] = q[i + 1]
    BY ListLen, TailList
  <1>2. /\ 1 \in 1 .. Len(q)
        /\ \A i \in 1 .. Len(q) - 1 : i + 1 \in 1 .. Len(q)
        /\ \A i \in 1 .. Len(q) : i = 1 \/ (i - 1 \in 1 .. Len(q) - 1 /\ i - 1 + 1 = i)
    BY <1>1
  <1>3. Held(Tail(q)) \subseteq Held(q) /\ q[1] \in Held(q)
    BY <1>1, <1>2 DEF Held
  <1>4. \A i \in 1 .. Len(q) : q[i] = q[1] \/ q[i] \in Held(Tail(q))
    BY <1>1, <1>2 DEF Held
  <1>5. \A y \in Held(q) : y = q[1] \/ y \in Held(Tail(q))
    BY <1>4 DEF Held
  <1>. QED BY <1>3, <1>5

\* Without the first n messages.
LEMMA HeldCut ==
  ASSUME NEW q, List(q), NEW n \in 0 .. Len(q)
  PROVE  Held(SubSeq(q, n + 1, Len(q))) \subseteq Held(q)
  <1>. DEFINE r == SubSeq(q, n + 1, Len(q))
  <1>1. /\ Len(q) \in Nat /\ Len(r) = Len(q) - n
        /\ \A i \in 1 .. Len(q) - n : r[i] = q[n + i]
    BY ListLen, CutList
  <1>2. \A i \in 1 .. Len(q) - n : n + i \in 1 .. Len(q)
    BY <1>1
  <1>. HIDE DEF r
  <1>3. Held(r) \subseteq Held(q)
    BY <1>1, <1>2 DEF Held
  <1>. QED BY <1>3 DEF r

\* Clients send nothing personal.
LEMMA HeldFrames ==
  ASSUME NEW q, Frames(q)
  PROVE  Calm(q) /\ \A m \in Held(q) : Frame(m) /\ Sane(m)
  <1>1. \A m \in Held(q) : Frame(m) /\ Sane(m)
    BY DEF Held, Frames, Box
  <1>. QED BY <1>1 DEF Frame, Calm, Personal, Requests

\* The messages of the queues are well-formed, and those for the clients no requests.
LEMMA HeldSane ==
  ASSUME Shape, NEW t \in Thread
  PROVE  /\ \A m \in Held(msgQueue[t]) : Sane(m)
         /\ \A m \in Held(out[t]) : Sane(m) /\ ~Frame(m)
         /\ \A m \in Held(inbox[t]) : Sane(m) /\ Frame(m)
         /\ \A e \in Held(events) : SaneSignal(e)
         /\ \A r \in Held(rows) : SaneRow(r)
  BY DEF Held, Shape, ServerShape, Frames, Notices, Box

-----------------------------------------------------------------------------
(***************************************************************************)
(* Who is given what by the slots.                                         *)
(***************************************************************************)

\* One element, and none.
LEMMA OneTimes ==
  ASSUME NEW m
  PROVE  [i \in 1 .. 1 |-> m] = <<m>> /\ [i \in 1 .. 0 |-> m] = <<>>
  <1>1. [i \in 1 .. 1 |-> m] = <<m>>
    OBVIOUS
  <1>2. [i \in 1 .. 0 |-> m] = <<>>
    <2>. DEFINE f == [i \in 1 .. 0 |-> m]
    <2>1. List(f) /\ Len(f) = 0
      BY FcnList
    <2>. QED BY <2>1, NoneList
  <1>. QED BY <1>1, <1>2

\* A list with nothing before or behind it.
LEMMA AloneList ==
  ASSUME NEW q, List(q)
  PROVE  <<>> \o q = q /\ q \o <<>> = q
  BY ConcatEmptySeq DEF List

\* A thread has one online user at most: its own.
LEMMA OnlineOn ==
  ASSUME Shape, LoginInv, NEW t \in Thread
  PROVE  /\ \A v \in User : usersOnline[v] = t => {u \in Online : usersOnline[u] = t} = {v}
         /\ (\A v \in User : usersOnline[v] # t) => {u \in Online : usersOnline[u] = t} = {}
  <1>1. t # Nobody
    BY DEF Thread, Nobody
  <1>2. \A v \in User : usersOnline[v] = t => v \in Online /\ user[t] = v
    BY <1>1 DEF Online, LoginInv, OneLogin
  <1>3. \A u \in Online : u \in User
    BY DEF Online
  <1>. QED BY <1>2, <1>3

\* MainWindow::loginSuccess: those online are told, and the thread is replied to.
LEMMA LoginGets ==
  ASSUME Shape, LoginInv, NEW thread \in Thread, NEW u,
         \A v \in User : usersOnline[v] # thread
  PROVE  /\ \A t \in Thread : \A v \in User : usersOnline[v] = t =>
               LoginGives(thread, u)[t] = <<UserOnline(u)>>
         /\ \A t \in Thread : t # thread /\ (\A v \in User : usersOnline[v] # t) =>
               LoginGives(thread, u)[t] = <<>>
         /\ LoginGives(thread, u)[thread] = <<LoginSucReturn(u, InOrder(Online))>> \o Replay(u)
  <1>. DEFINE m == UserOnline(u)
              tail == <<LoginSucReturn(u, InOrder(Online))>> \o Replay(u)
  <1>1. \A t \in Thread : LoginGives(thread, u)[t] = ForUsers(t, m) \o IF t = thread THEN tail ELSE <<>>
    BY DEF LoginGives
  <1>2. List(tail)
    <2>1. List(rows)
      BY DEF Shape, ServerShape
    <2>2. List(Replay(u))
      BY <2>1, ReplayIs
    <2>. QED BY <2>2, OneList, ConcatList
  <1>. HIDE DEF tail, m
  <1>3. \A t \in Thread : (\A v \in User : usersOnline[v] # t) => ForUsers(t, m) = <<>>
    BY OnlineOn, FS_EmptySet, OneTimes DEF ForUsers
  <1>4. \A t \in Thread : \A v \in User : usersOnline[v] = t => ForUsers(t, m) = <<m>>
    BY OnlineOn, FS_Singleton, OneTimes DEF ForUsers
  <1>5. <<>> \o tail = tail
    BY <1>2, AloneList
  <1>6. <<m>> \o <<>> = <<m>> /\ <<>> \o <<>> = <<>>
    BY OneList, EmptyList, AloneList
  <1>7. LoginGives(thread, u)[thread] = tail
    <2>1. ForUsers(thread, m) = <<>>
      BY <1>3
    <2>2. LoginGives(thread, u)[thread] = ForUsers(thread, m) \o tail
      BY <1>1
    <2>. QED BY <1>5, <2>1, <2>2
  <1>8. \A t \in Thread : t # thread => LoginGives(thread, u)[t] = ForUsers(t, m) \o <<>>
    BY <1>1
  <1>9. \A t \in Thread : \A v \in User : usersOnline[v] = t => LoginGives(thread, u)[t] = <<m>>
    BY <1>4, <1>6, <1>8
  <1>10. \A t \in Thread : t # thread /\ (\A v \in User : usersOnline[v] # t) =>
            LoginGives(thread, u)[t] = <<>>
    BY <1>3, <1>6, <1>8
  <1>. QED BY <1>7, <1>9, <1>10 DEF tail, m

\* MainWindow::userOffline: those online are told, except the user.
LEMMA OfflineGets ==
  ASSUME Shape, LoginInv, NEW w
  PROVE  /\ \A t \in Thread : \A v \in User : usersOnline[v] = t /\ v # w =>
               OfflineGives(w)[t] = <<UserOffline(w)>>
         /\ \A t \in Thread : (\A v \in User : usersOnline[v] # t \/ v = w) => OfflineGives(w)[t] = <<>>
  <1>1. \A t \in Thread : \A v \in User : usersOnline[v] = t /\ v # w => LeftOn(w, t) = {v}
    <2>1. \A t \in Thread : LeftOn(w, t) = {u \in Online : usersOnline[u] = t} \ {w}
      BY DEF LeftOn
    <2>. QED BY <2>1, OnlineOn
  <1>2. \A t \in Thread : (\A v \in User : usersOnline[v] # t \/ v = w) => LeftOn(w, t) = {}
    BY DEF LeftOn, Online
  <1>3. \A t \in Thread : OfflineGives(w)[t] = [i \in 1 .. Cardinality(LeftOn(w, t)) |-> UserOffline(w)]
    BY DEF OfflineGives
  <1>4. Cardinality({}) = 0 /\ \A v : Cardinality({v}) = 1
    BY FS_EmptySet, FS_Singleton
  <1>5. /\ [i \in 1 .. 1 |-> UserOffline(w)] = <<UserOffline(w)>>
        /\ [i \in 1 .. 0 |-> UserOffline(w)] = <<>>
    BY OneTimes
  <1>6. ASSUME NEW t \in Thread, NEW v \in User, usersOnline[v] = t, v # w
        PROVE  OfflineGives(w)[t] = <<UserOffline(w)>>
    <2>1. Cardinality(LeftOn(w, t)) = 1
      BY <1>1, <1>4, <1>6
    <2>2. OfflineGives(w)[t] = [i \in 1 .. 1 |-> UserOffline(w)]
      BY <1>3, <2>1
    <2>. QED BY <1>5, <2>2
  <1>7. ASSUME NEW t \in Thread, \A v \in User : usersOnline[v] # t \/ v = w
        PROVE  OfflineGives(w)[t] = <<>>
    <2>1. Cardinality(LeftOn(w, t)) = 0
      BY <1>2, <1>4, <1>7
    <2>2. OfflineGives(w)[t] = [i \in 1 .. 0 |-> UserOffline(w)]
      BY <1>3, <2>1
    <2>. QED BY <1>5, <2>2
  <1>. QED BY <1>6, <1>7

\* x is pushed, and nothing in it is personal.
Quietly(x) == Pushes(x) /\ \A t \in Thread : Calm(x[t])

\* The slots by what they push.
LEMMA SlotKinds ==
  ASSUME Shape, AnySlot, UNCHANGED clientVars, NEW e, e = events[1]
  PROVE  /\ SlotFrame /\ e.thread \in Thread /\ e \in Held(events)
         /\ \/ e.type = "loginSuccess" /\ UNCHANGED <<msgQueue, usersOnline, rows, groups>>
            \/ /\ e.type = "loginSuccess" /\ e.msg.id \in User /\ e.msg.id \notin Online
               /\ Pushes(LoginGives(e.thread, e.msg.id))
               /\ usersOnline' = [usersOnline EXCEPT ![e.msg.id] = e.thread]
               /\ rows' = Marked(e.msg.id) /\ UNCHANGED groups
            \/ /\ e.type = "sendMsg" /\ e.msg.to \in User /\ e.msg.msg \in Payload
               /\ Pushes(PrivateGives(e.msg))
               /\ \/ rows' = Append(rows, [from |-> e.msg.from, to |-> e.msg.to, msg |-> e.msg.msg,
                                           read |-> FALSE])
                  \/ rows' = rows
               /\ UNCHANGED <<usersOnline, groups>>
            \/ /\ e.type = "userOffline" /\ e.msg.id \in Somebody
               /\ Pushes(OfflineGives(e.msg.id))
               /\ usersOnline' = [u \in User |-> IF u = e.msg.id THEN Nobody ELSE usersOnline[u]]
               /\ UNCHANGED <<rows, groups>>
            \/ /\ e.type \in Requests \ {"sendMsg"} /\ (\E x : Quietly(x))
               /\ UNCHANGED <<usersOnline, rows>>
  <1>1. SlotFrame /\ e.thread \in Thread
    BY SlotIs
  <1>2. e \in Held(events)
    BY <1>1, SignalIs DEF SlotFrame, Shape, Held
  <1>3. ASSUME NEW x, Pushes(x), NEW m, ~Personal(m), \A t \in Thread : x[t] \in {<<>>, <<m>>}
        PROVE  Quietly(x)
    <2>1. Calm(<<m>>) /\ Calm(<<>>)
      BY <1>3, HeldOne, HeldEmpty DEF Calm
    <2>. QED BY <1>3, <2>1 DEF Quietly
  <1>4. CASE e.type = "createGroup" /\ Pushes(CreateGives(e.thread))
    <2>1. ~Personal(CreateGroupReturn(createGroupId))
      BY DEF Personal, CreateGroupReturn
    <2>2. \A t \in Thread : CreateGives(e.thread)[t] \in {<<>>, <<CreateGroupReturn(createGroupId)>>}
      BY DEF CreateGives
    <2>3. Quietly(CreateGives(e.thread))
      BY <1>3, <1>4, <2>1, <2>2
    <2>. QED BY <1>1, <1>2, <1>4, <2>3, SlotIs DEF Requests
  <1>5. CASE e.type = "searchGroup" /\ Pushes(SearchGives(e.thread))
    <2>. DEFINE m == SearchGroupReturn(IF tables THEN 1 .. createGroupId - 1 ELSE {})
    <2>1. ~Personal(m)
      BY DEF Personal, SearchGroupReturn
    <2>2. \A t \in Thread : SearchGives(e.thread)[t] \in {<<>>, <<m>>}
      BY DEF SearchGives
    <2>. HIDE DEF m
    <2>3. Quietly(SearchGives(e.thread))
      BY <1>3, <1>5, <2>1, <2>2
    <2>. QED BY <1>1, <1>2, <1>5, <2>3, SlotIs DEF Requests
  <1>6. CASE e.type = "joinGroup" /\ Pushes(JoinGives(e.thread, e.msg.group))
    <2>. DEFINE g == e.msg.group
                reply == JoinGroupReturn(g, UsersOf(Joined(e.thread, g)))
                notice == UserJoinGroup(user[e.thread], g)
    <2>1. ~Personal(reply) /\ ~Personal(notice)
      BY DEF Personal, JoinGroupReturn, UserJoinGroup
    <2>2. \A t \in Thread : JoinGives(e.thread, g)[t] \in {<<>>, <<reply>>, <<notice>>}
      BY DEF JoinGives
    <2>. HIDE DEF reply, notice
    <2>3. Calm(<<reply>>) /\ Calm(<<notice>>) /\ Calm(<<>>)
      BY <2>1, HeldOne, HeldEmpty DEF Calm
    <2>4. Quietly(JoinGives(e.thread, g))
      BY <1>6, <2>2, <2>3 DEF Quietly
    <2>. QED BY <1>1, <1>2, <1>6, <2>4, SlotIs DEF Requests
  <1>7. CASE e.type = "leaveGroup" /\ Pushes(LeaveGives(e.thread, e.msg.group))
    <2>. DEFINE g == e.msg.group
                notice == UserLeaveGroup(user[e.thread], g)
    <2>1. ~Personal(notice)
      BY DEF Personal, UserLeaveGroup
    <2>2. \A t \in Thread : LeaveGives(e.thread, g)[t] \in {<<>>, <<notice>>}
      BY DEF LeaveGives
    <2>. HIDE DEF notice
    <2>3. Quietly(LeaveGives(e.thread, g))
      BY <1>3, <1>7, <2>1, <2>2
    <2>. QED BY <1>1, <1>2, <1>7, <2>3, SlotIs DEF Requests
  <1>8. CASE e.type = "sendGroupMsg" /\ Pushes(GroupGives(e.thread, e.msg))
    <2>. DEFINE notice == ReceiveGroupMsg(e.msg.id, e.msg.group, e.msg.msg)
    <2>1. ~Personal(notice)
      BY DEF Personal, ReceiveGroupMsg
    <2>2. \A t \in Thread : GroupGives(e.thread, e.msg)[t] \in {<<>>, <<notice>>}
      BY DEF GroupGives
    <2>. HIDE DEF notice
    <2>3. Quietly(GroupGives(e.thread, e.msg))
      BY <1>3, <1>8, <2>1, <2>2
    <2>. QED BY <1>1, <1>2, <1>8, <2>3, SlotIs DEF Requests
  <1>9. CASE e.type \in {"loginSuccess", "sendMsg", "userOffline"}
    BY <1>1, <1>2, <1>9, SlotIs DEF Marked, Requests
  <1>. QED BY <1>4, <1>5, <1>6, <1>7, <1>8, <1>9, SlotIs

-----------------------------------------------------------------------------
(***************************************************************************)
(* Before a login signal has arrived.                                      *)
(***************************************************************************)

\* The login of t has not been handled, whether it was sent or not.
Early(t) == user[t] = Nobody \/ Signalled(t)

\* Nobody is online on such a thread.
LEMMA EarlyOff ==
  ASSUME Shape, LoginInv, NEW t \in Thread, Early(t)
  PROVE  \A v \in User : usersOnline[v] # t
  <1>1. t # Nobody /\ \A v \in User : v # Nobody
    BY SizeAssumption DEF Thread, User, Nobody
  <1>2. CASE user[t] = Nobody
    BY <1>1, <1>2 DEF LoginInv, OneLogin
  <1>3. CASE Signalled(t)
    BY <1>3 DEF Signalled, LoginAt, LoginInv, OneLogin
  <1>. QED BY <1>2, <1>3 DEF Early

\* A thread that waits for a login has no user.
LEMMA PendingEarly ==
  ASSUME LoginInv, NEW t \in Thread, Pending(t)
  PROVE  Early(t)
  BY DEF LoginInv, OneLogin, Early

\* A connection that is not there waits for nothing.
LEMMA NothingYet ==
  ASSUME Shape, LoginInv, NEW t \in Thread, worker[t] = "none"
  PROVE  ~Pending(t) /\ ~Signalled(t) /\ \A v \in User : usersOnline[v] # t
  <1>1. ~tried[t] /\ user[t] = Nobody
    BY DEF Shape, Coupled
  <1>2. ~Pending(t)
    BY <1>1 DEF LoginInv, OneLogin
  <1>3. ~Signalled(t)
    BY DEF Shape, Coupled, Signalled, LoginAt
  <1>. QED BY <1>1, <1>2, <1>3, EarlyOff DEF Early

\* Nothing is queued for it for the window.
LEMMA EarlyCalm ==
  ASSUME Fresh, NEW t \in Thread, Early(t)
  PROVE  Calm(out[t]) /\ Calm(msgQueue[t])
  BY DEF Fresh, Early

\* Signals stay signals.
LEMMA SignalledSame ==
  ASSUME Shape
  PROVE  /\ UNCHANGED events => \A s \in Thread : Signalled(s)' <=> Signalled(s)
         /\ \A e : events' = Append(events, e) => \A s \in Thread : Signalled(s)' =>
               Signalled(s) \/ (e.type = "loginSuccess" /\ e.thread = s)
         /\ SlotFrame => \A s \in Thread : Signalled(s)' => Signalled(s)
  <1>1. UNCHANGED events => \A s \in Thread : Signalled(s)' <=> Signalled(s)
    BY DEF Signalled, LoginAt
  <1>2. ASSUME NEW e, events' = Append(events, e), NEW s \in Thread, Signalled(s)'
        PROVE  Signalled(s) \/ (e.type = "loginSuccess" /\ e.thread = s)
    BY <1>2, AppendedIs DEF Signalled, LoginAt
  <1>3. ASSUME SlotFrame, NEW s \in Thread, Signalled(s)'
        PROVE  Signalled(s)
    <2>1. PICK i \in 1 .. Len(events') : LoginAt(i, s)'
      BY <1>3 DEF Signalled
    <2>2. i + 1 \in 1 .. Len(events) /\ events'[i] = events[i + 1]
      BY <1>3, <2>1, TakenIs
    <2>3. LoginAt(i + 1, s)
      BY <2>1, <2>2 DEF LoginAt
    <2>. QED BY <2>2, <2>3 DEF Signalled
  <1>. QED BY <1>1, <1>2, <1>3

\* The signal handled was the only login of its thread.
LEMMA HandledOnce ==
  ASSUME Shape, LoginInv, SlotFrame, events[1].type = "loginSuccess", NEW s \in Thread, s = events[1].thread
  PROVE  ~Signalled(s)' /\ Signalled(s) /\ user[s] = events[1].msg.id
  <1>1. /\ Len(events) \in Nat /\ 1 \in 1 .. Len(events)
        /\ \A i \in 1 .. Len(events') : i + 1 \in 1 .. Len(events) /\ i + 1 # 1 /\ events'[i] = events[i + 1]
    BY TakenIs
  <1>2. LoginAt(1, s)
    BY DEF LoginAt
  <1>3. ~Signalled(s)'
    <2>1. ASSUME NEW i \in 1 .. Len(events'), LoginAt(i, s)'
          PROVE  FALSE
      <3>1. LoginAt(i + 1, s)
        BY <1>1, <2>1 DEF LoginAt
      <3>. QED BY <1>1, <1>2, <3>1 DEF LoginInv, OneLogin
    <2>. QED BY <2>1 DEF Signalled
  <1>4. user[s] = events[1].msg.id
    BY <1>1 DEF LoginInv, OneLogin
  <1>. QED BY <1>1, <1>2, <1>3, <1>4 DEF Signalled

\* What a slot's pushes leave in the queues.
LEMMA PushedHeld ==
  ASSUME Shape, NEW x, Pushes(x), NEW t \in Thread
  PROVE  /\ List(x[t]) /\ List(msgQueue[t]) /\ Notices(x[t])
         /\ worker[t] = "ended" => msgQueue'[t] = <<>> /\ msgQueue[t] = <<>>
         /\ worker[t] # "ended" => msgQueue'[t] = msgQueue[t] \o x[t]
         /\ Held(msgQueue'[t]) \subseteq Held(msgQueue[t]) \cup Held(x[t])
         /\ x[t] = <<>> => msgQueue'[t] = msgQueue[t]
  <1>1. List(x[t]) /\ List(msgQueue[t]) /\ Notices(x[t])
    BY QueueLists DEF Pushes, Notices, Box
  <1>2. worker[t] = "ended" => msgQueue'[t] = <<>> /\ msgQueue[t] = <<>>
    BY PushedIs DEF Shape, Coupled
  <1>3. worker[t] # "ended" => msgQueue'[t] = msgQueue[t] \o x[t]
    BY PushedIs DEF Shape
  <1>4. Held(msgQueue[t] \o x[t]) = Held(msgQueue[t]) \cup Held(x[t])
    BY <1>1, HeldConcat
  <1>5. msgQueue[t] \o <<>> = msgQueue[t]
    BY <1>1, AloneList
  <1>. QED BY <1>1, <1>2, <1>3, <1>4, <1>5, HeldEmpty

\* ReadFrames, Deal and Ends wait for no login that was not waited for.
LEMMA WorkerPending ==
  ASSUME Shape, NEW t \in Thread, ReadFrames(t) \/ Deal(t) \/ Ends(t)
  PROVE  \A s \in Thread : Pending(s)' => Pending(s)
  <1>1. List(msgQueue[t]) /\ List(inbox[t])
    BY QueueLists
  <1>2. inbox = [s \in Thread |-> inbox[s]] /\ msgQueue = [s \in Thread |-> msgQueue[s]]
    BY DEF Shape, ServerShape
  <1>3. CASE ReadFrames(t)
    <2>1. msgQueue' = [msgQueue EXCEPT ![t] = msgQueue[t] \o inbox[t]] /\ inbox' = [inbox EXCEPT ![t] = <<>>]
      BY <1>3 DEF ReadFrames
    <2>2. /\ msgQueue'[t] = msgQueue[t] \o inbox[t] /\ inbox'[t] = <<>>
          /\ \A s \in Thread : s # t => msgQueue'[s] = msgQueue[s] /\ inbox'[s] = inbox[s]
      BY <1>2, <2>1
    <2>3. HasRight(msgQueue'[t]) <=> HasRight(msgQueue[t]) \/ HasRight(inbox[t])
      BY <1>1, <2>2, RightConcat
    <2>4. ~HasRight(inbox'[t])
      BY <2>2, RightEmpty
    <2>. QED BY <2>2, <2>3, <2>4 DEF Pending
  <1>4. CASE Deal(t)
    <2>1. msgQueue' = [msgQueue EXCEPT ![t] = Tail(msgQueue[t])] /\ UNCHANGED inbox /\ msgQueue[t] # <<>>
      BY <1>4, DealIs
    <2>2. /\ msgQueue'[t] = Tail(msgQueue[t])
          /\ \A s \in Thread : s # t => msgQueue'[s] = msgQueue[s]
      BY <1>2, <2>1
    <2>. QED BY <1>1, <2>1, <2>2, RightTail DEF Pending
  <1>5. CASE Ends(t)
    <2>1. inbox' = [inbox EXCEPT ![t] = <<>>] /\ msgQueue' = [msgQueue EXCEPT ![t] = <<>>]
      BY <1>5, EndsIs
    <2>2. /\ msgQueue'[t] = <<>> /\ inbox'[t] = <<>>
          /\ \A s \in Thread : s # t => msgQueue'[s] = msgQueue[s] /\ inbox'[s] = inbox[s]
      BY <1>2, <2>1
    <2>. QED BY <2>2, RightEmpty DEF Pending
  <1>. QED BY <1>3, <1>4, <1>5

\* ReadFrames.
LEMMA FreshReadFrames ==
  ASSUME Shape, LoginInv, Fresh, NEW t \in Thread, ReadFrames(t), UNCHANGED clientVars
  PROVE  Fresh'
  <1>1. /\ msgQueue' = [msgQueue EXCEPT ![t] = msgQueue[t] \o inbox[t]]
        /\ UNCHANGED <<peer, user, out, events, win, shown>>
    BY DEF ReadFrames, guiVars, clientVars
  <1>2. /\ msgQueue'[t] = msgQueue[t] \o inbox[t]
        /\ \A s \in Thread : s # t => msgQueue'[s] = msgQueue[s]
    BY <1>1 DEF Shape, ServerShape
  <1>3. Held(msgQueue'[t]) = Held(msgQueue[t]) \cup Held(inbox[t])
    BY <1>2, QueueLists, HeldConcat
  <1>4. Calm(inbox[t])
    BY HeldFrames DEF Shape, ServerShape
  <1>5. \A s \in Thread : Calm(msgQueue[s]) => Calm(msgQueue'[s])
    BY <1>2, <1>3, <1>4 DEF Calm
  <1>6. \A s \in Thread : Signalled(s)' <=> Signalled(s)
    BY <1>1, SignalledSame
  <1>7. \A s \in Thread : Pending(s)' => Pending(s)
    BY WorkerPending
  <1>. QED BY <1>1, <1>5, <1>6, <1>7 DEF Fresh

\* Deal: a right password becomes a signal.
LEMMA FreshDeal ==
  ASSUME Shape, LoginInv, Fresh, NEW t \in Thread, Deal(t), UNCHANGED clientVars
  PROVE  Fresh'
  <1>. DEFINE m == msgQueue[t][1]
  <1>1. /\ msgQueue[t] # <<>> /\ Sane(m)
        /\ msgQueue' = [msgQueue EXCEPT ![t] = Tail(msgQueue[t])]
        /\ UNCHANGED <<peer, win, shown>>
    BY DealIs DEF clientVars
  <1>2. /\ msgQueue'[t] = Tail(msgQueue[t])
        /\ \A s \in Thread : s # t => msgQueue'[s] = msgQueue[s]
    BY <1>1 DEF Shape, ServerShape
  <1>3. Held(msgQueue'[t]) \subseteq Held(msgQueue[t]) /\ m \in Held(msgQueue[t])
    BY <1>1, <1>2, QueueLists, HeldTail
  <1>4. \A s \in Thread : Calm(msgQueue[s]) => Calm(msgQueue'[s])
    BY <1>2, <1>3 DEF Calm
  <1>5. \A s \in Thread : Pending(s)' => Pending(s)
    BY WorkerPending
  <1>6. CASE /\ Rightly(m)
             /\ user' = [user EXCEPT ![t] = m.id]
             /\ events' = Append(events, Signal("loginSuccess", t, m)) /\ UNCHANGED out
    <2>1. HasRight(msgQueue[t])
      BY <1>1, <1>6, QueueLists, RightTail
    <2>2. Pending(t)
      BY <2>1 DEF Pending
    <2>3. \A s \in Thread : Signalled(s)' => Signalled(s) \/ s = t
      BY <1>6, SignalledSame DEF Signal
    <2>4. \A s \in Thread : s # t => user'[s] = user[s]
      BY <1>6 DEF Shape, ServerShape
    <2>5. \A s \in Thread : Early(s)' => Early(s)
      BY <2>2, <2>3, <2>4, PendingEarly DEF Early
    <2>6. \A s \in Thread : Early(s)' => Calm(out'[s]) /\ Calm(msgQueue'[s])
      BY <1>4, <1>6, <2>5, EarlyCalm
    <2>7. \A s \in Thread : Pending(s)' \/ Signalled(s)' => Pending(s) \/ Signalled(s)
      BY <1>5, <2>2, <2>3
    <2>. QED BY <1>1, <2>6, <2>7 DEF Fresh, Early
  <1>7. CASE /\ m.type \in Requests
             /\ events' = Append(events, Signal(m.type, t, m)) /\ UNCHANGED <<user, out>>
    <2>1. \A s \in Thread : Signalled(s)' => Signalled(s)
      BY <1>7, SignalledSame DEF Signal, Requests
    <2>. QED BY <1>1, <1>4, <1>5, <1>7, <2>1 DEF Fresh
  <1>8. ASSUME NEW n, Sane(n), ~Frame(n), n = m \/ ~Personal(n), out' = Written(t, n), UNCHANGED <<user, events>>
        PROVE  Fresh'
    <2>1. \A s \in Thread : Signalled(s)' <=> Signalled(s)
      BY <1>8, SignalledSame
    <2>2. ASSUME NEW s \in Thread, Early(s)
          PROVE  Calm(out'[s])
      <3>1. Calm(out[s]) /\ Calm(msgQueue[s])
        BY <2>2, EarlyCalm
      <3>2. CASE out'[s] = out[s]
        BY <3>1, <3>2
      <3>3. CASE s = t /\ peer[t]
        <4>1. out'[t] = Append(out[t], n)
          BY <1>8, <3>3, WrittenIs
        <4>2. Held(out'[t]) = Held(out[t]) \cup {n}
          BY <4>1, QueueLists, HeldAppend
        <4>3. ~Personal(n)
          BY <1>3, <1>8, <3>1, <3>3 DEF Calm
        <4>. QED BY <3>1, <3>3, <4>2, <4>3 DEF Calm
      <3>. QED BY <1>8, <3>2, <3>3, WrittenIs
    <2>. QED BY <1>1, <1>4, <1>5, <1>8, <2>1, <2>2 DEF Fresh, Early
  <1>. QED BY <1>1, <1>6, <1>7, <1>8, DealIs

\* Ends.
LEMMA FreshEnds ==
  ASSUME Shape, LoginInv, Fresh, NEW t \in Thread, Ends(t), UNCHANGED clientVars
  PROVE  Fresh'
  <1>. DEFINE e == Signal("userOffline", t, UserOffline(user[t]))
  <1>1. /\ e.type = "userOffline" /\ events' = Append(events, e)
        /\ msgQueue' = [msgQueue EXCEPT ![t] = <<>>]
        /\ UNCHANGED <<peer, user, out, win, shown>>
    BY EndsIs DEF clientVars
  <1>. HIDE DEF e
  <1>2. /\ msgQueue'[t] = <<>>
        /\ \A s \in Thread : s # t => msgQueue'[s] = msgQueue[s]
    BY <1>1 DEF Shape, ServerShape
  <1>3. \A s \in Thread : Calm(msgQueue[s]) => Calm(msgQueue'[s])
    BY <1>2, HeldEmpty
  <1>4. \A s \in Thread : Signalled(s)' => Signalled(s)
    BY <1>1, SignalledSame
  <1>5. \A s \in Thread : Pending(s)' => Pending(s)
    BY WorkerPending
  <1>. QED BY <1>1, <1>3, <1>4, <1>5 DEF Fresh

\* Notices for the window go to the threads of online users, the login reply to the
\* thread whose signal was handled.
LEMMA EarlyGets ==
  ASSUME Shape, LoginInv, Fresh, AnySlot, UNCHANGED clientVars, NEW t \in Thread, Early(t)'
  PROVE  Early(t) /\ Calm(msgQueue'[t])
  <1>. DEFINE e == events[1]
  <1>1. SlotFrame /\ e.thread \in Thread
    BY SlotKinds
  <1>2. Early(t)
    <2>1. UNCHANGED user
      BY <1>1 DEF SlotFrame
    <2>. QED BY <1>1, <2>1, SignalledSame DEF Early
  <1>. SUFFICES Calm(msgQueue'[t])
    BY <1>2
  <1>3. Calm(msgQueue[t])
    BY <1>2, EarlyCalm
  <1>4. \A v \in User : usersOnline[v] # t
    BY <1>2, EarlyOff
  <1>5. ASSUME NEW x, Pushes(x), Calm(x[t])
        PROVE  Calm(msgQueue'[t])
    BY <1>3, <1>5, PushedHeld DEF Calm
  <1>6. CASE e.type = "loginSuccess" /\ e.msg.id \in User /\ Pushes(LoginGives(e.thread, e.msg.id))
    <2>1. PICK s \in Thread : s = e.thread
      BY <1>1
    <2>2. ~Signalled(s)' /\ Signalled(s) /\ user[s] = e.msg.id
      BY <1>1, <1>6, <2>1, HandledOnce
    <2>3. user'[s] = user[s] /\ e.msg.id # Nobody
      BY <1>1, <1>6, SizeAssumption DEF SlotFrame, User, Nobody
    <2>4. t # s
      BY <2>2, <2>3 DEF Early
    <2>5. \A v \in User : usersOnline[v] # s
      BY <2>2, EarlyOff DEF Early
    <2>6. LoginGives(s, e.msg.id)[t] = <<>>
      BY <1>4, <2>4, <2>5, LoginGets
    <2>. QED BY <1>5, <1>6, <2>1, <2>6, HeldEmpty
  <1>7. CASE e.type = "sendMsg" /\ e.msg.to \in User /\ Pushes(PrivateGives(e.msg))
    <2>1. PrivateGives(e.msg)[t] = <<>>
      BY <1>4, <1>7 DEF PrivateGives
    <2>. QED BY <1>5, <1>7, <2>1, HeldEmpty
  <1>8. CASE Pushes(OfflineGives(e.msg.id))
    <2>1. OfflineGives(e.msg.id)[t] = <<>>
      BY <1>4, OfflineGets
    <2>. QED BY <1>5, <1>8, <2>1, HeldEmpty
  <1>9. ASSUME NEW x, Quietly(x)
        PROVE  Calm(msgQueue'[t])
    BY <1>5, <1>9 DEF Quietly
  <1>10. CASE UNCHANGED msgQueue
    BY <1>3, <1>10
  <1>. QED BY <1>6, <1>7, <1>8, <1>9, <1>10, SlotKinds

\* The slots.
LEMMA FreshSlot ==
  ASSUME Shape, LoginInv, Fresh, AnySlot, UNCHANGED clientVars
  PROVE  Fresh'
  <1>1. SlotFrame /\ UNCHANGED <<peer, out, win, shown>>
    BY SlotKinds DEF SlotFrame, clientVars
  <1>2. \A t \in Thread : Signalled(t)' => Signalled(t)
    BY <1>1, SignalledSame
  <1>3. \A t \in Thread : Pending(t)' => Pending(t)
    <2>1. UNCHANGED msgQueue \/ \E x : Pushes(x)
      BY SlotKinds DEF Quietly
    <2>. QED BY <1>1, <2>1, RightPushed
  <1>4. \A t \in Thread : Early(t)' => Calm(out'[t]) /\ Calm(msgQueue'[t])
    BY <1>1, EarlyGets, EarlyCalm
  <1>. QED BY <1>1, <1>2, <1>3, <1>4 DEF Fresh, Early

\* Something is sent.
Clicks(t) ==
    \/ ClickRegister(t)
    \/ AskCreate(t)
    \/ AskSearch(t)
    \/ \E u \in User, right \in BOOLEAN : ClickLogin(t, u, right)
    \/ \E u \in User : Say(t, u)
    \/ \E g \in Group : SayInGroup(t, g)
    \/ \E g \in Group : Join(t, g) \/ Leave(t, g)
Sends(t, m) ==
    /\ Sane(m) /\ Frame(m) /\ Send(t, m)
    /\ UNCHANGED <<win, host, friends, shown, missed>>
    /\ Rightly(m) => win[t] = "login"
    /\ m.type = "sendMsg" => m.msg = <<t, clicks>>
    /\ \/ m.type \notin {"joinGroup", "leaveGroup"} /\ UNCHANGED <<members, joins>>
       \/ m.type = "joinGroup" /\ Join(t, m.group)
       \/ m.type = "leaveGroup" /\ Leave(t, m.group)

\* It is a frame, and only its own.
LEMMA ClicksSend ==
  ASSUME Shape, NEW t \in Thread, Clicks(t)
  PROVE  \E m : Sends(t, m)
  <1>. <<t, clicks>> \in Payload
    BY DEF Shape, ClientShape, Payload
  <1>1. CASE ClickRegister(t)
    <2>1. Sends(t, RegisterUser)
      BY <1>1, SaneFrames DEF ClickRegister, RegisterUser, Rightly, Sends
    <2>. QED BY <2>1
  <1>2. CASE AskCreate(t)
    <2>1. Sends(t, CreateGroup)
      BY <1>2, SaneFrames DEF AskCreate, CreateGroup, Rightly, Sends
    <2>. QED BY <2>1
  <1>3. CASE AskSearch(t)
    <2>1. Sends(t, SearchGroup)
      BY <1>3, SaneFrames DEF AskSearch, SearchGroup, Rightly, Sends
    <2>. QED BY <2>1
  <1>4. ASSUME NEW u \in User, NEW right \in BOOLEAN, ClickLogin(t, u, right)
        PROVE  \E m : Sends(t, m)
    <2>1. /\ win[t] = "login" /\ Send(t, Login(u, right))
          /\ UNCHANGED <<win, host, friends, shown, members, joins, missed>>
      BY <1>4 DEF ClickLogin
    <2>2. Sane(Login(u, right)) /\ Frame(Login(u, right)) /\ Login(u, right).type = "login"
      BY SaneFrames DEF Login
    <2>3. Sends(t, Login(u, right))
      BY <2>1, <2>2 DEF Sends
    <2>. QED BY <2>3
  <1>5. ASSUME NEW u \in User, Say(t, u)
        PROVE  \E m : Sends(t, m)
    <2>. DEFINE m == SendMsg(host[t], u, <<t, clicks>>)
    <2>1. Sane(m) /\ Frame(m) /\ m.type = "sendMsg" /\ ~Rightly(m) /\ m.msg = <<t, clicks>>
      BY SaneFrames DEF SendMsg, Rightly
    <2>2. Send(t, m) /\ UNCHANGED <<win, host, friends, shown, members, joins, missed>>
      BY <1>5 DEF Say
    <2>. HIDE DEF m
    <2>3. Sends(t, m)
      BY <2>1, <2>2 DEF Sends
    <2>. QED BY <2>3
  <1>6. ASSUME NEW g \in Group, SayInGroup(t, g)
        PROVE  \E m : Sends(t, m)
    <2>. DEFINE m == SendGroupMsg(host[t], g, <<t, clicks>>)
    <2>1. Sane(m) /\ Frame(m) /\ ~Rightly(m) /\ m.type = "sendGroupMsg"
      BY SaneFrames DEF SendGroupMsg, Rightly
    <2>2. Send(t, m) /\ UNCHANGED <<win, host, friends, shown, members, joins, missed>>
      BY <1>6 DEF SayInGroup
    <2>. HIDE DEF m
    <2>3. Sends(t, m)
      BY <2>1, <2>2 DEF Sends
    <2>. QED BY <2>3
  <1>7. ASSUME NEW g \in Group, Join(t, g) \/ Leave(t, g)
        PROVE  \E m : Sends(t, m)
    <2>1. /\ Sane(JoinGroup(g)) /\ Frame(JoinGroup(g)) /\ JoinGroup(g).type = "joinGroup" /\ JoinGroup(g).group = g
          /\ Sane(LeaveGroup(g)) /\ Frame(LeaveGroup(g)) /\ LeaveGroup(g).type = "leaveGroup" /\ LeaveGroup(g).group = g
      BY SaneFrames DEF JoinGroup, LeaveGroup
    <2>2. /\ Join(t, g) => Send(t, JoinGroup(g))
          /\ Leave(t, g) => Send(t, LeaveGroup(g))
          /\ UNCHANGED <<win, host, friends, shown, missed>>
      BY <1>7 DEF Join, Leave
    <2>3. Sends(t, JoinGroup(g)) \/ Sends(t, LeaveGroup(g))
      BY <1>7, <2>1, <2>2 DEF Sends, Rightly
    <2>. QED BY <2>3
  <1>. QED BY <1>1, <1>2, <1>3, <1>4, <1>5, <1>6, <1>7 DEF Clicks

\* What clients send: the login dialog shows nothing.
LEMMA FreshClicks ==
  ASSUME Shape, LoginInv, Fresh, NEW t \in Thread, Clicks(t)
  PROVE  Fresh'
  <1>1. PICK m : Sends(t, m)
    BY ClicksSend
  <1>2. /\ UNCHANGED <<peer, user, msgQueue, out, events, win, shown>>
        /\ \A s \in Thread : s # t => inbox'[s] = inbox[s]
        /\ inbox'[t] = inbox[t] \/ inbox'[t] = Append(inbox[t], m)
    BY <1>1, SendIs DEF Sends, Shape, ServerShape
  <1>3. HasRight(inbox'[t]) => HasRight(inbox[t]) \/ Rightly(m)
    BY <1>2, QueueLists, RightAppend
  <1>4. \A s \in Thread : Pending(s)' => Pending(s) \/ (s = t /\ Rightly(m))
    BY <1>2, <1>3 DEF Pending
  <1>5. Rightly(m) => shown[t] = <<>> /\ win[t] = "login"
    BY <1>1 DEF Sends, Shape, Coupled
  <1>6. \A s \in Thread : Signalled(s)' <=> Signalled(s)
    BY <1>2, SignalledSame
  <1>. QED BY <1>2, <1>4, <1>5, <1>6 DEF Fresh

\* Nothing new is queued or logged in, and a window that waits for a login stays as it was.
LEMMA FreshLess ==
  ASSUME Shape, LoginInv, Fresh, UNCHANGED <<user, inbox, msgQueue, events>>,
         \A t \in Thread : Held(out'[t]) \subseteq Held(out[t]),
         \A t \in Thread : Pending(t) \/ Signalled(t) =>
             shown'[t] = <<>> /\ (peer'[t] => win'[t] = "login")
  PROVE  Fresh'
  <1>1. \A t \in Thread : Signalled(t)' <=> Signalled(t)
    BY SignalledSame
  <1>2. \A t \in Thread : Pending(t)' <=> Pending(t)
    BY DEF Pending
  <1>3. \A t \in Thread : Calm(out[t]) => Calm(out'[t])
    BY DEF Calm
  <1>. QED BY <1>1, <1>2, <1>3 DEF Fresh

\* LoginReads: the reply is not there yet.
LEMMA FreshLoginReads ==
  ASSUME Shape, LoginInv, Fresh, NEW t \in Thread, NEW n \in 1 .. Len(out[t]), LoginReads(t, n)
  PROVE  Fresh'
  <1>1. /\ out' = [out EXCEPT ![t] = SubSeq(out[t], n + 1, Len(out[t]))]
        /\ UNCHANGED <<user, inbox, msgQueue, events, peer, shown>>
        /\ \/ UNCHANGED win
           \/ /\ \E i \in 1 .. n : Reply(out[t][i])
              /\ win' = [win EXCEPT ![t] = "main"]
    BY LoginReadsIs
  <1>2. out'[t] = SubSeq(out[t], n + 1, Len(out[t])) /\ \A s \in Thread : s # t => out'[s] = out[s]
    BY <1>1 DEF Shape, ServerShape
  <1>0. Len(out[t]) \in Nat /\ List(out[t])
    BY QueueLists
  <1>3. Held(out'[t]) \subseteq Held(out[t])
    <2>1. n \in 0 .. Len(out[t])
      BY <1>0
    <2>. QED BY <1>0, <1>2, <2>1, HeldCut
  <1>4. ASSUME NEW s \in Thread, Pending(s) \/ Signalled(s)
        PROVE  win'[s] = win[s]
    <2>1. Calm(out[s])
      BY <1>4, PendingEarly, EarlyCalm DEF Early
    <2>2. CASE s = t
      <3>1. \A i \in 1 .. n : i \in 1 .. Len(out[t])
        BY <1>0
      <3>2. \A i \in 1 .. n : ~Reply(out[t][i])
        BY <2>1, <2>2, <3>1 DEF Calm, Held, Personal, Reply
      <3>. QED BY <1>1, <3>2
    <2>3. CASE s # t
      BY <1>1, <2>3 DEF Shape, ClientShape
    <2>. QED BY <2>2, <2>3
  <1>. QED BY <1>1, <1>2, <1>3, <1>4, FreshLess DEF Fresh

\* MainReads: no private message is there yet.
LEMMA FreshMainReads ==
  ASSUME Shape, LoginInv, Fresh, NEW t \in Thread, MainReads(t)
  PROVE  Fresh'
  <1>. DEFINE m == out[t][1]
  <1>1. /\ out[t] # <<>> /\ out' = [out EXCEPT ![t] = Tail(out[t])]
        /\ UNCHANGED <<user, inbox, msgQueue, events, peer, win>>
        /\ \/ shown' = shown
           \/ m.type = "receiveMsg" /\ shown' = [shown EXCEPT ![t] = Append(shown[t], m.msg)]
    BY MainReadsIs
  <1>2. out'[t] = Tail(out[t]) /\ \A s \in Thread : s # t => out'[s] = out[s]
    BY <1>1 DEF Shape, ServerShape
  <1>3. Held(out'[t]) \subseteq Held(out[t]) /\ m \in Held(out[t])
    BY <1>1, <1>2, QueueLists, HeldTail
  <1>4. ASSUME NEW s \in Thread, Pending(s) \/ Signalled(s)
        PROVE  shown'[s] = shown[s]
    <2>1. Calm(out[s])
      BY <1>4, PendingEarly, EarlyCalm DEF Early
    <2>2. CASE s = t
      BY <1>1, <1>3, <2>1, <2>2 DEF Calm, Personal
    <2>3. CASE s # t
      BY <1>1, <2>3 DEF Shape, ClientShape
    <2>. QED BY <2>2, <2>3
  <1>. QED BY <1>1, <1>2, <1>3, <1>4, FreshLess DEF Fresh

\* Connections that go, and come.
LEMMA FreshConnections ==
  ASSUME Shape, LoginInv, Fresh, NEW t \in Thread,
         \/ MainCrashes(t)
         \/ \E w \in {"login", "main", "closed"} : Break(t, w)
         \/ Start(t)
         \/ \E s \in Thread : Reconnect(t, s)
  PROVE  Fresh'
  <1>1. CASE MainCrashes(t) \/ \E w \in {"login", "main", "closed"} : Break(t, w)
    <2>1. /\ UNCHANGED <<user, inbox, msgQueue, events, shown>>
          /\ out' = [out EXCEPT ![t] = <<>>] /\ peer' = [peer EXCEPT ![t] = FALSE]
          /\ \E w : win' = [win EXCEPT ![t] = w]
      BY <1>1 DEF MainCrashes, Break
    <2>2. /\ out'[t] = <<>> /\ \A s \in Thread : s # t => out'[s] = out[s]
          /\ ~peer'[t] /\ \A s \in Thread : s # t => peer'[s] = peer[s] /\ win'[s] = win[s]
      BY <2>1 DEF Shape, ServerShape, ClientShape
    <2>3. \A s \in Thread : Held(out'[s]) \subseteq Held(out[s])
      BY <2>2, HeldEmpty
    <2>. QED BY <2>1, <2>2, <2>3, FreshLess DEF Fresh
  <1>2. CASE Start(t)
    <2>1. /\ worker[t] = "none" /\ UNCHANGED <<user, inbox, msgQueue, events, out, shown>>
          /\ peer' = [peer EXCEPT ![t] = TRUE] /\ win' = [win EXCEPT ![t] = "login"]
      BY <1>2 DEF Start, NewConnection, guiVars
    <2>2. \A s \in Thread : s # t => peer'[s] = peer[s] /\ win'[s] = win[s]
      BY <2>1 DEF Shape, ServerShape, ClientShape
    <2>3. ~Pending(t) /\ ~Signalled(t)
      BY <2>1, NothingYet
    <2>. QED BY <2>1, <2>2, <2>3, FreshLess DEF Fresh
  <1>3. ASSUME NEW s \in Thread, Reconnect(t, s)
        PROVE  Fresh'
    <2>1. /\ worker[s] = "none" /\ ~peer[t] /\ peer' = [peer EXCEPT ![s] = TRUE] /\ s # t
          /\ UNCHANGED <<user, inbox, msgQueue, events, out>>
          /\ IsMoved(win, win', t, s, "none") /\ IsMoved(shown, shown', t, s, <<>>)
      BY <1>3, ReconnectIs
    <2>2. /\ \A r \in Thread : r # s => peer'[r] = peer[r]
          /\ \A r \in Thread : r # t /\ r # s => win'[r] = win[r] /\ shown'[r] = shown[r]
          /\ shown'[t] = <<>>
      BY <2>1 DEF Shape, ServerShape, IsMoved
    <2>3. ~Pending(s) /\ ~Signalled(s)
      BY <2>1, NothingYet
    <2>. QED BY <2>1, <2>2, <2>3, FreshLess DEF Fresh
  <1>. QED BY <1>1, <1>2, <1>3

\* The initial states.
LEMMA FreshInit ==
  ASSUME Init
  PROVE  Fresh
  <1>1. /\ \A t \in Thread : inbox[t] = <<>> /\ msgQueue[t] = <<>> /\ out[t] = <<>>
        /\ events = <<>>
    BY DEF Init, ServerInit
  <1>2. \A t \in Thread : ~Pending(t) /\ Calm(out[t]) /\ Calm(msgQueue[t])
    BY <1>1, RightEmpty, HeldEmpty DEF Pending
  <1>3. \A t \in Thread : ~Signalled(t)
    BY <1>1, EmptyList DEF Signalled
  <1>. QED BY <1>2, <1>3 DEF Fresh

\* A step keeps it.
LEMMA FreshNext ==
  ASSUME Shape, LoginInv, Fresh, [Next]_vars
  PROVE  Fresh'
  <1>1. ASSUME UNCHANGED <<user, inbox, msgQueue, events, out, peer, win, shown>>
        PROVE  Fresh'
    BY <1>1, FreshLess DEF Fresh
  <1>2. CASE UNCHANGED vars
    BY <1>1, <1>2 DEF vars, serverVars, clientVars
  <1>3. ASSUME NEW t \in Thread,
               \/ \E u \in User : OpenChat(t, u)
               \/ \E d \in {"create", "search"} : CloseAsking(t, d)
        PROVE  Fresh'
    BY <1>1, <1>3 DEF OpenChat, CloseAsking, serverVars
  <1>4. CASE Next
    BY <1>3, <1>4, StepIs, FreshReadFrames, FreshDeal, FreshEnds, FreshSlot, FreshClicks,
       FreshLoginReads, FreshMainReads, FreshConnections DEF Clicks
  <1>. QED BY <1>2, <1>4

-----------------------------------------------------------------------------
(***************************************************************************)
(* Private messages in order.                                              *)
(***************************************************************************)

\* Two places of a list are in order, in one list or across two.
LEMMA OrderedConcat ==
  ASSUME NEW q, List(q), NEW r, List(r), NEW k, Ordered(q, k), Ordered(r, k), Precedes(q, k, r)
  PROVE  Ordered(q \o r, k)
  <1>. DEFINE x == q \o r
              n == Len(q)
              l == Len(r)
  <1>1. /\ n \in Nat /\ l \in Nat /\ Len(x) = n + l
        /\ \A i \in 1 .. n + l : \/ i \in 1 .. n /\ x[i] = q[i]
                                 \/ i - n \in 1 .. l /\ x[i] = r[i - n] /\ i > n
    BY ConcatAt
  <1>. HIDE DEF x, n, l
  <1>2. ASSUME NEW i \in 1 .. n + l, NEW j \in 1 .. n + l, i < j, x[i].type = k, x[j].type = k
        PROVE  Earlier(x[i].msg, x[j].msg)
    <2>1. CASE i \in 1 .. n /\ x[i] = q[i] /\ j \in 1 .. n /\ x[j] = q[j]
      BY <1>2, <2>1 DEF Ordered, n
    <2>2. CASE i \in 1 .. n /\ x[i] = q[i] /\ j - n \in 1 .. l /\ x[j] = r[j - n]
      <3>1. q[i] \in Held(q) /\ r[j - n] \in Held(r)
        BY <2>2 DEF Held, n, l
      <3>. QED BY <1>2, <2>2, <3>1 DEF Precedes
    <2>3. CASE i - n \in 1 .. l /\ x[i] = r[i - n] /\ j - n \in 1 .. l /\ x[j] = r[j - n]
      <3>1. i - n < j - n
        BY <1>1, <1>2
      <3>. QED BY <1>2, <2>3, <3>1 DEF Ordered, l
    <2>4. ~(i > n /\ j \in 1 .. n)
      BY <1>1, <1>2
    <2>. QED BY <1>1, <2>1, <2>2, <2>3, <2>4
  <1>3. Ordered(x, k)
    BY <1>1, <1>2 DEF Ordered
  <1>. QED BY <1>3 DEF x

\* No message of the kind.
LEMMA OrderedNone ==
  ASSUME NEW q, NEW k, \A m \in Held(q) : m.type # k
  PROVE  Ordered(q, k)
  BY DEF Ordered, Held

\* One message, or none.
LEMMA OrderedOne ==
  ASSUME NEW m, NEW k
  PROVE  Ordered(<<m>>, k) /\ Ordered(<<>>, k)
  <1>1. Len(<<m>>) = 1 /\ \A i, j \in 1 .. 1 : ~(i < j)
    BY OneList
  <1>2. Ordered(<<m>>, k)
    BY <1>1 DEF Ordered
  <1>3. Ordered(<<>>, k)
    BY HeldEmpty, OrderedNone
  <1>. QED BY <1>2, <1>3

\* One message more.
LEMMA OrderedAppend ==
  ASSUME NEW q, List(q), NEW k, Ordered(q, k), NEW m,
         m.type = k => \A n \in Held(q) : n.type = k => Earlier(n.msg, m.msg)
  PROVE  Ordered(Append(q, m), k)
  <1>. DEFINE x == Append(q, m)
              n == Len(q)
  <1>1. /\ n \in Nat /\ Len(x) = n + 1
        /\ \A i \in 1 .. n : x[i] = q[i]
        /\ x[n + 1] = m
    BY ListLen, AppendList
  <1>. HIDE DEF x, n
  <1>2. ASSUME NEW i \in 1 .. n + 1, NEW j \in 1 .. n + 1, i < j, x[i].type = k, x[j].type = k
        PROVE  Earlier(x[i].msg, x[j].msg)
    <2>1. i \in 1 .. n /\ (j \in 1 .. n \/ j = n + 1)
      BY <1>1, <1>2
    <2>2. q[i] \in Held(q)
      BY <2>1 DEF Held, n
    <2>. QED BY <1>1, <1>2, <2>1, <2>2 DEF Ordered, n
  <1>3. Ordered(x, k)
    BY <1>1, <1>2 DEF Ordered
  <1>. QED BY <1>3 DEF x

\* Without the first n.
LEMMA OrderedCut ==
  ASSUME NEW q, List(q), NEW n \in 0 .. Len(q), NEW k, Ordered(q, k)
  PROVE  Ordered(SubSeq(q, n + 1, Len(q)), k)
  <1>. DEFINE r == SubSeq(q, n + 1, Len(q))
  <1>1. /\ Len(q) \in Nat /\ Len(r) = Len(q) - n
        /\ \A i \in 1 .. Len(q) - n : r[i] = q[n + i]
    BY ListLen, CutList
  <1>2. /\ \A i \in 1 .. Len(q) - n : n + i \in 1 .. Len(q)
        /\ \A i, j \in 1 .. Len(q) - n : i < j => n + i < n + j
    BY <1>1
  <1>. HIDE DEF r
  <1>3. Ordered(r, k)
    BY <1>1, <1>2 DEF Ordered
  <1>. QED BY <1>3 DEF r

\* Without the first, which is earlier than the others.
LEMMA OrderedTail ==
  ASSUME NEW q, List(q), q # <<>>, NEW k, Ordered(q, k)
  PROVE  /\ Ordered(Tail(q), k)
         /\ q[1].type = k => \A m \in Held(Tail(q)) : m.type = k => Earlier(q[1].msg, m.msg)
  <1>1. /\ Len(q) \in Nat /\ Len(Tail(q)) = Len(q) - 1 /\ Len(q) >= 1
        /\ \A i \in 1 .. Len(q) - 1 : Tail(q)[i] = q[i + 1]
    BY ListLen, TailList
  <1>2. /\ 1 \in 1 .. Len(q)
        /\ \A i \in 1 .. Len(q) - 1 : i + 1 \in 1 .. Len(q) /\ 1 < i + 1
        /\ \A i, j \in 1 .. Len(q) - 1 : i < j => i + 1 < j + 1
    BY <1>1
  <1>3. Ordered(Tail(q), k)
    BY <1>1, <1>2 DEF Ordered
  <1>4. q[1].type = k => \A m \in Held(Tail(q)) : m.type = k => Earlier(q[1].msg, m.msg)
    BY <1>1, <1>2 DEF Ordered, Held
  <1>. QED BY <1>3, <1>4

\* A message that gets under way is one just written.
Flow ==
    /\ clicks \in Nat /\ (clicks' = clicks \/ clicks' = clicks + 1)
    /\ \A p \in Payload : UnderWay(p)' => UnderWay(p) \/ p[2] = clicks

\* What was earlier than everything under way stays so.
LEMMA PassedKept ==
  ASSUME Flow, NEW p \in Payload, Passed(p)
  PROVE  Passed(p)'
  <1>1. p[2] \in Nat
    BY DEF Payload
  <1>2. p[2] < clicks'
    BY <1>1 DEF Flow, Passed
  <1>3. \A q \in Payload : UnderWay(q)' => Earlier(p, q)
    BY DEF Flow, Passed, Earlier
  <1>. QED BY <1>2, <1>3 DEF Passed

\* Nothing new is written or raised.
LEMMA SendingLess ==
  ASSUME Shape, Sending, UNCHANGED clicks,
         \A t \in Thread : Coming(t)' \subseteq Coming(t),
         Raised' \subseteq Raised, SignalsOrdered', \A t \in Thread : QueueOrdered(t)'
  PROVE  Sending' /\ Flow
  <1>1. Sending'
    BY DEF Sending, Wrote
  <1>2. Flow
    BY DEF Flow, UnderWay, Shape, ClientShape
  <1>. QED BY <1>1, <1>2

\* Nothing at all happens on the way to the GUI thread.
LEMMA SendingSame ==
  ASSUME Shape, Sending, UNCHANGED <<clicks, inbox, msgQueue, events>>
  PROVE  Sending' /\ Flow
  <1>1. /\ \A t \in Thread : Coming(t)' = Coming(t) /\ QueueOrdered(t)' = QueueOrdered(t)
        /\ Raised' = Raised /\ SignalsOrdered' = SignalsOrdered
    BY DEF Coming, QueueOrdered, Raised, SignalsOrdered
  <1>2. (\A t \in Thread : QueueOrdered(t)) /\ SignalsOrdered
    BY DEF Sending
  <1>. QED BY <1>1, <1>2, SendingLess

\* ReadFrames.
LEMMA SendingReadFrames ==
  ASSUME Shape, Sending, NEW t \in Thread, ReadFrames(t), UNCHANGED clientVars
  PROVE  Sending' /\ Flow
  <1>1. /\ msgQueue' = [msgQueue EXCEPT ![t] = msgQueue[t] \o inbox[t]]
        /\ inbox' = [inbox EXCEPT ![t] = <<>>]
        /\ UNCHANGED <<events, clicks>>
    BY DEF ReadFrames, guiVars, clientVars
  <1>2. /\ msgQueue'[t] = msgQueue[t] \o inbox[t] /\ inbox'[t] = <<>>
        /\ \A s \in Thread : s # t => msgQueue'[s] = msgQueue[s] /\ inbox'[s] = inbox[s]
    BY <1>1 DEF Shape, ServerShape
  <1>3. List(msgQueue[t]) /\ List(inbox[t]) /\ QueueOrdered(t)
    BY QueueLists DEF Sending
  <1>4. Held(msgQueue'[t]) = Held(msgQueue[t]) \cup Held(inbox[t]) /\ Held(inbox'[t]) = {}
    BY <1>2, <1>3, HeldConcat, HeldEmpty
  <1>5. QueueOrdered(t)'
    <2>1. Ordered(msgQueue'[t], "sendMsg")
      BY <1>2, <1>3, OrderedConcat DEF QueueOrdered
    <2>2. Ordered(inbox'[t], "sendMsg")
      BY <1>2, OrderedOne
    <2>. QED BY <1>4, <2>1, <2>2 DEF QueueOrdered, Precedes
  <1>6. \A s \in Thread : Coming(s)' \subseteq Coming(s) /\ (s # t => QueueOrdered(s)' = QueueOrdered(s))
    BY <1>2, <1>4 DEF Coming, QueueOrdered
  <1>7. Raised' = Raised /\ SignalsOrdered' = SignalsOrdered
    BY <1>1 DEF Raised, SignalsOrdered
  <1>. QED BY <1>1, <1>5, <1>6, <1>7, SendingLess DEF Sending

\* Ends.
LEMMA SendingEnds ==
  ASSUME Shape, Sending, NEW t \in Thread, Ends(t), UNCHANGED clientVars
  PROVE  Sending' /\ Flow
  <1>. DEFINE e == Signal("userOffline", t, UserOffline(user[t]))
  <1>1. /\ e.type = "userOffline" /\ events' = Append(events, e)
        /\ inbox' = [inbox EXCEPT ![t] = <<>>] /\ msgQueue' = [msgQueue EXCEPT ![t] = <<>>]
        /\ UNCHANGED clicks
    BY EndsIs DEF clientVars
  <1>. HIDE DEF e
  <1>2. /\ msgQueue'[t] = <<>> /\ inbox'[t] = <<>>
        /\ \A s \in Thread : s # t => msgQueue'[s] = msgQueue[s] /\ inbox'[s] = inbox[s]
    BY <1>1 DEF Shape, ServerShape
  <1>3. QueueOrdered(t)'
    BY <1>2, OrderedOne, HeldEmpty DEF QueueOrdered, Precedes
  <1>4. \A s \in Thread : Coming(s)' \subseteq Coming(s) /\ (s # t => QueueOrdered(s)' = QueueOrdered(s))
    BY <1>2, HeldEmpty DEF Coming, QueueOrdered
  <1>5. Raised' \subseteq Raised
    <2>1. Held(events') = Held(events) \cup {e}
      BY <1>1, QueueLists, HeldAppend
    <2>. QED BY <1>1, <2>1 DEF Raised
  <1>6. SignalsOrdered'
    <2>1. \A i \in 1 .. Len(events') : events'[i].type = "sendMsg" =>
             i \in 1 .. Len(events) /\ events'[i] = events[i]
      BY <1>1, AppendedIs
    <2>. QED BY <2>1 DEF SignalsOrdered, Sending
  <1>. QED BY <1>1, <1>3, <1>4, <1>5, <1>6, SendingLess DEF Sending

\* The slots push no requests.
LEMMA SlotComing ==
  ASSUME Shape, AnySlot, UNCHANGED clientVars, NEW t \in Thread
  PROVE  /\ \A m \in Held(msgQueue'[t]) : m.type = "sendMsg" => m \in Held(msgQueue[t])
         /\ Ordered(msgQueue[t], "sendMsg") => Ordered(msgQueue'[t], "sendMsg")
  <1>1. UNCHANGED msgQueue \/ \E x : Pushes(x)
    BY SlotKinds DEF Quietly
  <1>2. CASE UNCHANGED msgQueue
    BY <1>2
  <1>3. ASSUME NEW x, Pushes(x)
        PROVE  /\ \A m \in Held(msgQueue'[t]) : m.type = "sendMsg" => m \in Held(msgQueue[t])
               /\ Ordered(msgQueue[t], "sendMsg") => Ordered(msgQueue'[t], "sendMsg")
    <2>1. \A m \in Held(x[t]) : m.type # "sendMsg"
      <3>1. \A i \in 1 .. Len(x[t]) : ~Frame(x[t][i])
        BY <1>3 DEF Pushes, Notices
      <3>. QED BY <3>1 DEF Held, Frame, Requests
    <2>2. Ordered(x[t], "sendMsg") /\ Precedes(msgQueue[t], "sendMsg", x[t])
      BY <2>1, OrderedNone DEF Precedes
    <2>3. CASE msgQueue'[t] = msgQueue[t] \o x[t]
      BY <1>3, <2>1, <2>2, <2>3, PushedHeld, OrderedConcat
    <2>4. CASE msgQueue'[t] = <<>>
      BY <2>4, OrderedOne, HeldEmpty
    <2>. QED BY <1>3, <2>3, <2>4, PushedHeld
  <1>. QED BY <1>1, <1>2, <1>3

\* The slots.
LEMMA SendingSlot ==
  ASSUME Shape, Sending, AnySlot, UNCHANGED clientVars
  PROVE  Sending' /\ Flow
  <1>1. SlotFrame /\ UNCHANGED <<clicks, inbox>>
    BY SlotKinds DEF SlotFrame, clientVars
  <1>2. \A t \in Thread : /\ \A m \in Held(msgQueue'[t]) : m.type = "sendMsg" => m \in Held(msgQueue[t])
                          /\ Ordered(msgQueue'[t], "sendMsg")
    BY SlotComing DEF Sending, QueueOrdered
  <1>3. \A t \in Thread : Coming(t)' \subseteq Coming(t)
    BY <1>1, <1>2 DEF Coming
  <1>4. \A t \in Thread : QueueOrdered(t)'
    <2>1. \A t \in Thread : Precedes(msgQueue'[t], "sendMsg", inbox[t])
      BY <1>2 DEF Sending, QueueOrdered, Precedes
    <2>. QED BY <1>1, <1>2, <2>1 DEF Sending, QueueOrdered
  <1>5. Len(events) \in Nat /\ \A i \in 1 .. Len(events') : /\ i \in Int /\ i + 1 \in 1 .. Len(events)
                                                           /\ events'[i] = events[i + 1]
    BY <1>1, TakenIs
  <1>6. Raised' \subseteq Raised
    BY <1>5 DEF Raised, Held
  <1>7. SignalsOrdered'
    <2>1. \A i, j \in 1 .. Len(events') : i < j => i + 1 < j + 1
      BY <1>5
    <2>. QED BY <1>5, <2>1 DEF SignalsOrdered, Sending
  <1>. QED BY <1>1, <1>3, <1>4, <1>6, <1>7, SendingLess

\* Deal: the oldest message of a thread is its earliest.
LEMMA SendingDeal ==
  ASSUME Shape, Sending, NEW t \in Thread, Deal(t), UNCHANGED clientVars
  PROVE  Sending' /\ Flow
  <1>. DEFINE m == msgQueue[t][1]
              e == Signal(m.type, t, m)
  <1>1. /\ msgQueue[t] # <<>>
        /\ msgQueue' = [msgQueue EXCEPT ![t] = Tail(msgQueue[t])]
        /\ UNCHANGED <<inbox, clicks>>
    BY DealIs DEF clientVars
  <1>2. /\ msgQueue'[t] = Tail(msgQueue[t])
        /\ \A s \in Thread : s # t => msgQueue'[s] = msgQueue[s]
    BY <1>1 DEF Shape, ServerShape
  <1>3. List(msgQueue[t]) /\ QueueOrdered(t)
    BY QueueLists DEF Sending
  <1>4. Held(msgQueue'[t]) \subseteq Held(msgQueue[t]) /\ m \in Held(msgQueue[t])
    BY <1>1, <1>2, <1>3, HeldTail
  <1>5. /\ Ordered(msgQueue'[t], "sendMsg")
        /\ m.type = "sendMsg" => \A n \in Held(msgQueue'[t]) : n.type = "sendMsg" => Earlier(m.msg, n.msg)
    BY <1>1, <1>2, <1>3, OrderedTail DEF QueueOrdered
  <1>6. \A s \in Thread : Coming(s)' \subseteq Coming(s) /\ QueueOrdered(s)'
    <2>1. QueueOrdered(t)'
      BY <1>1, <1>3, <1>4, <1>5 DEF QueueOrdered, Precedes
    <2>2. \A s \in Thread : s # t => QueueOrdered(s)'
      BY <1>1, <1>2 DEF Sending, QueueOrdered
    <2>3. \A s \in Thread : Coming(s)' \subseteq Coming(s)
      BY <1>1, <1>2, <1>4 DEF Coming
    <2>. QED BY <2>1, <2>2, <2>3
  <1>7. CASE m.type = "sendMsg" /\ events' = Append(events, e)
    <2>1. e.type = "sendMsg" /\ e.thread = t /\ e.msg = m
      BY <1>7 DEF Signal
    <2>. HIDE DEF e, m
    <2>2. Held(events') = Held(events) \cup {e}
      BY <1>7, QueueLists, HeldAppend
    <2>3. Raised' = Raised \cup {e}
      BY <2>1, <2>2 DEF Raised
    <2>4. m \in Coming(t)
      BY <1>4, <1>7 DEF Coming
    <2>5. Wrote(t, m.msg)
      BY <2>4 DEF Sending
    <2>6. \A s \in Thread : \A n \in Coming(s)' : Earlier(m.msg, n.msg)
      <3>1. \A s \in Thread : s # t => \A n \in Coming(s)' : Earlier(m.msg, n.msg)
        BY <1>6, <2>5 DEF Sending, Wrote, Earlier
      <3>2. \A n \in Coming(t)' : n.type = "sendMsg" /\ (n \in Held(inbox[t]) \/ n \in Held(msgQueue'[t]))
        BY <1>1 DEF Coming
      <3>3. \A n \in Coming(t)' : Earlier(m.msg, n.msg)
        BY <1>3, <1>4, <1>5, <1>7, <3>2 DEF QueueOrdered, Precedes
      <3>. QED BY <3>1, <3>3
    <2>7. \A i \in 1 .. Len(events) : events[i].type = "sendMsg" => Earlier(events[i].msg.msg, m.msg)
      BY <2>4 DEF Sending, Raised, Held
    <2>8. SignalsOrdered'
      <3>1. /\ Len(events) \in Nat /\ Len(events') = Len(events) + 1
            /\ \A i \in 1 .. Len(events) : i \in 1 .. Len(events') /\ events'[i] = events[i]
            /\ events'[Len(events) + 1] = e
            /\ \A i \in 1 .. Len(events') : i \in 1 .. Len(events) \/ i = Len(events) + 1
        BY <1>7, AppendedIs
      <3>2. ASSUME NEW i \in 1 .. Len(events'), NEW j \in 1 .. Len(events'), i < j,
                   events'[i].type = "sendMsg", events'[j].type = "sendMsg"
            PROVE  Earlier(events'[i].msg.msg, events'[j].msg.msg)
        <4>1. i \in 1 .. Len(events)
          BY <3>1, <3>2
        <4>2. CASE j \in 1 .. Len(events)
          BY <3>1, <3>2, <4>1, <4>2 DEF Sending, SignalsOrdered
        <4>3. CASE j = Len(events) + 1
          BY <2>1, <2>7, <3>1, <3>2, <4>1, <4>3
        <4>. QED BY <3>1, <4>2, <4>3
      <3>. QED BY <3>2 DEF SignalsOrdered
    <2>9. Sending'
      <3>1. \A s \in Thread : \A n \in Coming(s)' : Wrote(s, n.msg)'
        BY <1>1, <1>6 DEF Sending, Wrote
      <3>2. \A f \in Raised' : Wrote(f.thread, f.msg.msg)'
        BY <1>1, <2>1, <2>3, <2>5 DEF Sending, Wrote
      <3>3. \A f \in Raised' : \A s \in Thread : \A n \in Coming(s)' : Earlier(f.msg.msg, n.msg)
        BY <1>6, <2>1, <2>3, <2>6 DEF Sending
      <3>. QED BY <1>6, <2>8, <3>1, <3>2, <3>3 DEF Sending
    <2>10. Flow
      BY <1>1, <1>6, <2>1, <2>3, <2>4 DEF Flow, UnderWay, Shape, ClientShape
    <2>. QED BY <2>9, <2>10
  <1>8. ASSUME UNCHANGED events \/ \E f : f.type # "sendMsg" /\ events' = Append(events, f)
        PROVE  Sending' /\ Flow
    <2>1. Raised' \subseteq Raised
      <3>1. CASE UNCHANGED events
        BY <3>1 DEF Raised
      <3>2. ASSUME NEW f, f.type # "sendMsg", events' = Append(events, f)
            PROVE  Raised' \subseteq Raised
        BY <3>2, QueueLists, HeldAppend DEF Raised
      <3>. QED BY <1>8, <3>1, <3>2
    <2>2. \A i \in 1 .. Len(events') : events'[i].type = "sendMsg" =>
             i \in 1 .. Len(events) /\ events'[i] = events[i]
      BY <1>8, AppendedIs
    <2>3. SignalsOrdered'
      BY <2>2 DEF SignalsOrdered, Sending
    <2>. QED BY <1>1, <1>6, <2>1, <2>3, SendingLess
  <1>9. CASE m.type # "sendMsg" /\ events' = Append(events, e)
    <2>1. e.type # "sendMsg"
      BY <1>9 DEF Signal
    <2>. QED BY <1>8, <1>9, <2>1
  <1>10. CASE events' = Append(events, Signal("loginSuccess", t, m))
    <2>1. Signal("loginSuccess", t, m).type # "sendMsg"
      BY DEF Signal
    <2>. QED BY <1>8, <1>10, <2>1
  <1>. QED BY <1>7, <1>8, <1>9, <1>10, DealIs

\* What clients send is later than all they have sent.
LEMMA SendingClicks ==
  ASSUME Shape, Sending, NEW t \in Thread, Clicks(t)
  PROVE  Sending' /\ Flow
  <1>1. PICK m : Sends(t, m)
    BY ClicksSend
  <1>2. /\ UNCHANGED <<msgQueue, events>> /\ clicks' = clicks + 1 /\ clicks \in Nat
        /\ \A s \in Thread : s # t => inbox'[s] = inbox[s]
        /\ inbox'[t] = inbox[t] \/ inbox'[t] = Append(inbox[t], m)
        /\ m.type = "sendMsg" => m.msg = <<t, clicks>>
    BY <1>1, SendIs DEF Sends, Shape, ServerShape, ClientShape
  <1>3. Held(inbox'[t]) \subseteq Held(inbox[t]) \cup {m}
    BY <1>2, QueueLists, HeldAppend
  <1>4. /\ \A s \in Thread : s # t => Coming(s)' = Coming(s) /\ QueueOrdered(s)' = QueueOrdered(s)
        /\ \A n \in Coming(t)' : n \in Coming(t) \/ (n = m /\ n.type = "sendMsg")
        /\ Raised' = Raised /\ SignalsOrdered' = SignalsOrdered
    BY <1>2, <1>3 DEF Coming, QueueOrdered, Raised, SignalsOrdered
  <1>5. \A s \in Thread : \A n \in Coming(s) : n.msg \in Payload /\ n.msg[2] \in Nat
    <2>1. \A s \in Thread : \A n \in Coming(s) : Sane(n) /\ n.type = "sendMsg"
      BY HeldSane DEF Coming
    <2>. QED BY <2>1 DEF Sane, Payload
  <1>6. \A e \in Raised : e.msg.msg \in Payload /\ e.msg.msg[2] \in Nat
    <2>1. \A e \in Raised : SaneSignal(e) /\ e.type = "sendMsg"
      BY HeldSane, QueueLists DEF Raised, Shape, ServerShape, Held
    <2>2. \A e \in Raised : Sane(e.msg) /\ e.msg.type = "sendMsg"
      BY <2>1 DEF SaneSignal, Requests
    <2>. QED BY <2>2 DEF Sane, Payload
  <1>7. \A s \in Thread : \A n \in Coming(s)' : Wrote(s, n.msg)'
    <2>1. \A s \in Thread : \A n \in Coming(s) : Wrote(s, n.msg)'
      BY <1>2, <1>5 DEF Sending, Wrote
    <2>2. m.type = "sendMsg" => Wrote(t, m.msg)'
      BY <1>2 DEF Wrote
    <2>. QED BY <1>4, <2>1, <2>2
  <1>8. \A e \in Raised' : Wrote(e.thread, e.msg.msg)'
    BY <1>2, <1>4, <1>6 DEF Sending, Wrote
  <1>9. \A e \in Raised' : \A s \in Thread : \A n \in Coming(s)' : Earlier(e.msg.msg, n.msg)
    <2>1. m.type = "sendMsg" => \A e \in Raised : Earlier(e.msg.msg, m.msg)
      BY <1>2 DEF Sending, Wrote, Earlier
    <2>. QED BY <1>4, <2>1 DEF Sending
  <1>10. m.type = "sendMsg" => \A n \in Coming(t) : Earlier(n.msg, m.msg)
    BY <1>2 DEF Sending, Wrote, Earlier
  <1>11. QueueOrdered(t)'
    <2>1. QueueOrdered(t)
      BY DEF Sending
    <2>2. Ordered(inbox'[t], "sendMsg")
      <3>1. m.type = "sendMsg" => \A n \in Held(inbox[t]) : n.type = "sendMsg" => Earlier(n.msg, m.msg)
        BY <1>10 DEF Coming
      <3>2. List(inbox[t]) /\ Ordered(inbox[t], "sendMsg")
        BY <2>1, QueueLists DEF QueueOrdered
      <3>3. Ordered(Append(inbox[t], m), "sendMsg")
        BY <3>1, <3>2, OrderedAppend
      <3>. QED BY <1>2, <3>2, <3>3
    <2>3. Precedes(msgQueue[t], "sendMsg", inbox'[t])
      BY <1>3, <1>10, <2>1 DEF QueueOrdered, Precedes, Coming
    <2>. QED BY <1>2, <2>1, <2>2, <2>3 DEF QueueOrdered
  <1>12. Sending'
    BY <1>4, <1>7, <1>8, <1>9, <1>11 DEF Sending
  <1>13. Flow
    BY <1>2, <1>4 DEF Flow, UnderWay
  <1>. QED BY <1>12, <1>13

\* A step keeps it.
LEMMA SendingNext ==
  ASSUME Shape, Sending, [Next]_vars
  PROVE  Sending' /\ Flow
  <1>1. CASE UNCHANGED vars
    BY <1>1, SendingSame DEF vars, serverVars, clientVars
  <1>2. ASSUME NEW t \in Thread,
               \/ \E u \in User : OpenChat(t, u)
               \/ \E d \in {"create", "search"} : CloseAsking(t, d)
               \/ \E n \in 1 .. Len(out[t]) : LoginReads(t, n)
               \/ MainReads(t)
               \/ MainCrashes(t)
               \/ \E w \in {"login", "main", "closed"} : Break(t, w)
               \/ Start(t)
        PROVE  Sending' /\ Flow
    <2>1. UNCHANGED <<clicks, inbox, msgQueue, events>>
      <3>1. CASE \/ \E u \in User : OpenChat(t, u)
                 \/ \E d \in {"create", "search"} : CloseAsking(t, d)
        BY <3>1 DEF OpenChat, CloseAsking, serverVars
      <3>2. CASE (\E n \in 1 .. Len(out[t]) : LoginReads(t, n)) \/ MainReads(t)
        BY <3>2, LoginReadsIs, MainReadsIs
      <3>3. CASE \/ MainCrashes(t)
                 \/ \E w \in {"login", "main", "closed"} : Break(t, w)
                 \/ Start(t)
        BY <3>3 DEF MainCrashes, Break, Start
      <3>. QED BY <1>2, <3>1, <3>2, <3>3
    <2>. QED BY <2>1, SendingSame
  <1>3. ASSUME NEW t \in Thread, NEW s \in Thread, Reconnect(t, s)
        PROVE  Sending' /\ Flow
    BY <1>3, ReconnectIs, SendingSame
  <1>4. CASE Next
    BY <1>2, <1>3, <1>4, StepIs, SendingReadFrames, SendingDeal, SendingEnds, SendingSlot, SendingClicks
    DEF Clicks
  <1>. QED BY <1>1, <1>4

\* The initial states: nothing is written.
LEMMA SendingInit ==
  ASSUME Init
  PROVE  Sending
  <1>1. \A t \in Thread : inbox[t] = <<>> /\ msgQueue[t] = <<>>
    BY DEF Init, ServerInit
  <1>2. Held(events) = {} /\ Len(events) = 0
    BY HeldEmpty, EmptyList DEF Init, ServerInit
  <1>3. \A t \in Thread : Coming(t) = {} /\ QueueOrdered(t)
    BY <1>1, HeldEmpty, OrderedOne DEF Coming, QueueOrdered, Precedes
  <1>4. Raised = {} /\ SignalsOrdered
    BY <1>2 DEF Raised, SignalsOrdered
  <1>. QED BY <1>3, <1>4 DEF Sending

\* What was earlier than everything under way stays so, wherever it is.
LEMMA SentKept ==
  ASSUME Shape, Sent, Flow
  PROVE  /\ \A t \in Thread : \A m \in Given(t) : Passed(m.msg)'
         /\ \A t \in Thread : \A p \in Held(shown[t]) : Passed(p)'
         /\ \A r \in Held(rows) : Passed(r.msg)'
  <1>1. \A t \in Thread : \A m \in Given(t) : m.msg \in Payload
    <2>1. \A t \in Thread : \A m \in Given(t) : Sane(m) /\ m.type = "receiveMsg"
      BY HeldSane DEF Given
    <2>. QED BY <2>1 DEF Sane
  <1>2. \A t \in Thread : \A p \in Held(shown[t]) : p \in Payload
    <2>1. \A t \in Thread : shown[t] \in Seq(Payload)
      BY DEF Shape, ClientShape
    <2>2. \A t \in Thread : \A i \in 1 .. Len(shown[t]) : shown[t][i] \in Payload
      BY <2>1, ElementOfSeq
    <2>. QED BY <2>2 DEF Held
  <1>3. \A r \in Held(rows) : r.msg \in Payload
    BY DEF Shape, ServerShape, SaneRow, Held
  <1>. QED BY <1>1, <1>2, <1>3, PassedKept DEF Sent

\* Nothing new is given to the windows.
LEMMA SentLess ==
  ASSUME Shape, Sent, Flow, UNCHANGED <<shown, rows>>,
         \A t \in Thread : Given(t)' \subseteq Given(t), \A t \in Thread : GivenOrdered(t)'
  PROVE  Sent'
  BY SentKept DEF Sent, ShownOrdered

\* Nothing at all happens on the way to the windows.
LEMMA SentSame ==
  ASSUME Shape, Sent, Flow, UNCHANGED <<shown, rows, out, msgQueue>>
  PROVE  Sent'
  <1>1. \A t \in Thread : Given(t)' = Given(t) /\ GivenOrdered(t)' = GivenOrdered(t)
    BY DEF Given, GivenOrdered
  <1>. QED BY <1>1, SentLess DEF Sent

\* ReadFrames.
LEMMA SentReadFrames ==
  ASSUME Shape, Sent, Flow, NEW t \in Thread, ReadFrames(t), UNCHANGED clientVars
  PROVE  Sent'
  <1>1. /\ msgQueue' = [msgQueue EXCEPT ![t] = msgQueue[t] \o inbox[t]]
        /\ UNCHANGED <<out, rows, shown>>
    BY DEF ReadFrames, guiVars, clientVars
  <1>2. /\ msgQueue'[t] = msgQueue[t] \o inbox[t]
        /\ \A s \in Thread : s # t => msgQueue'[s] = msgQueue[s]
    BY <1>1 DEF Shape, ServerShape
  <1>3. List(msgQueue[t]) /\ List(inbox[t]) /\ GivenOrdered(t)
    BY QueueLists DEF Sent
  <1>4. Held(msgQueue'[t]) = Held(msgQueue[t]) \cup Held(inbox[t])
    BY <1>2, <1>3, HeldConcat
  <1>5. \A m \in Held(inbox[t]) : m.type # "receiveMsg"
    <2>1. \A m \in Held(inbox[t]) : Frame(m)
      BY HeldSane
    <2>. QED BY <2>1 DEF Frame, Requests
  <1>6. Ordered(msgQueue'[t], "receiveMsg")
    <2>1. Ordered(inbox[t], "receiveMsg") /\ Precedes(msgQueue[t], "receiveMsg", inbox[t])
      BY <1>5, OrderedNone DEF Precedes
    <2>. QED BY <1>2, <1>3, <2>1, OrderedConcat DEF GivenOrdered
  <1>7. GivenOrdered(t)'
    BY <1>1, <1>3, <1>4, <1>5, <1>6 DEF GivenOrdered, Precedes
  <1>8. \A s \in Thread : Given(s)' \subseteq Given(s) /\ (s # t => GivenOrdered(s)' = GivenOrdered(s))
    BY <1>1, <1>2, <1>4, <1>5 DEF Given, GivenOrdered
  <1>. QED BY <1>1, <1>7, <1>8, SentLess DEF Sent

\* Ends.
LEMMA SentEnds ==
  ASSUME Shape, Sent, Flow, NEW t \in Thread, Ends(t), UNCHANGED clientVars
  PROVE  Sent'
  <1>1. /\ msgQueue' = [msgQueue EXCEPT ![t] = <<>>]
        /\ UNCHANGED <<out, rows, shown>>
    BY EndsIs DEF clientVars
  <1>2. /\ msgQueue'[t] = <<>>
        /\ \A s \in Thread : s # t => msgQueue'[s] = msgQueue[s]
    BY <1>1 DEF Shape, ServerShape
  <1>3. GivenOrdered(t)'
    BY <1>1, <1>2, OrderedOne, HeldEmpty DEF GivenOrdered, Precedes, Sent
  <1>4. \A s \in Thread : Given(s)' \subseteq Given(s) /\ (s # t => GivenOrdered(s)' = GivenOrdered(s))
    BY <1>1, <1>2, HeldEmpty DEF Given, GivenOrdered
  <1>. QED BY <1>1, <1>3, <1>4, SentLess DEF Sent

\* Deal: the oldest message is written behind what has been written.
LEMMA SentDeal ==
  ASSUME Shape, Sent, Flow, NEW t \in Thread, Deal(t), UNCHANGED clientVars
  PROVE  Sent'
  <1>. DEFINE m == msgQueue[t][1]
  <1>1. /\ msgQueue[t] # <<>>
        /\ msgQueue' = [msgQueue EXCEPT ![t] = Tail(msgQueue[t])]
        /\ UNCHANGED <<rows, shown>>
    BY DealIs DEF clientVars
  <1>2. /\ msgQueue'[t] = Tail(msgQueue[t])
        /\ \A s \in Thread : s # t => msgQueue'[s] = msgQueue[s]
    BY <1>1 DEF Shape, ServerShape
  <1>3. List(msgQueue[t]) /\ List(out[t]) /\ GivenOrdered(t)
    BY QueueLists DEF Sent
  <1>4. Held(msgQueue'[t]) \subseteq Held(msgQueue[t]) /\ m \in Held(msgQueue[t])
    BY <1>1, <1>2, <1>3, HeldTail
  <1>5. /\ Ordered(msgQueue'[t], "receiveMsg")
        /\ m.type = "receiveMsg" => \A n \in Held(msgQueue'[t]) : n.type = "receiveMsg" => Earlier(m.msg, n.msg)
    BY <1>1, <1>2, <1>3, OrderedTail DEF GivenOrdered
  <1>6. CASE UNCHANGED out
    <2>1. GivenOrdered(t)'
      BY <1>3, <1>4, <1>5, <1>6 DEF GivenOrdered, Precedes
    <2>2. \A s \in Thread : Given(s)' \subseteq Given(s) /\ (s # t => GivenOrdered(s)' = GivenOrdered(s))
      BY <1>2, <1>4, <1>6 DEF Given, GivenOrdered
    <2>. QED BY <1>1, <2>1, <2>2, SentLess DEF Sent
  <1>7. ASSUME NEW n, n = m \/ n.type # "receiveMsg", out'[t] = Append(out[t], n),
               \A s \in Thread : s # t => out'[s] = out[s]
        PROVE  Sent'
    <2>. HIDE DEF m
    <2>1. Held(out'[t]) = Held(out[t]) \cup {n}
      BY <1>3, <1>7, HeldAppend
    <2>2. n.type = "receiveMsg" => n = m /\ \A x \in Held(out[t]) : x.type = "receiveMsg" => Earlier(x.msg, n.msg)
      BY <1>3, <1>4, <1>7 DEF GivenOrdered, Precedes
    <2>3. Ordered(out'[t], "receiveMsg")
      <3>1. Ordered(out[t], "receiveMsg")
        BY <1>3 DEF GivenOrdered
      <3>2. Ordered(Append(out[t], n), "receiveMsg")
        BY <1>3, <2>2, <3>1, OrderedAppend
      <3>. QED BY <1>7, <3>2
    <2>4. Precedes(out'[t], "receiveMsg", msgQueue'[t])
      <3>1. Precedes(out[t], "receiveMsg", msgQueue'[t])
        BY <1>3, <1>4 DEF GivenOrdered, Precedes
      <3>2. n.type = "receiveMsg" => \A x \in Held(msgQueue'[t]) : x.type = "receiveMsg" => Earlier(n.msg, x.msg)
        BY <1>5, <2>2
      <3>. QED BY <2>1, <3>1, <3>2 DEF Precedes
    <2>5. GivenOrdered(t)'
      BY <1>5, <2>3, <2>4 DEF GivenOrdered
    <2>6. \A s \in Thread : Given(s)' \subseteq Given(s) /\ (s # t => GivenOrdered(s)' = GivenOrdered(s))
      BY <1>2, <1>4, <1>7, <2>1 DEF Given, GivenOrdered
    <2>. QED BY <1>1, <2>5, <2>6, SentLess DEF Sent
  <1>8. ASSUME NEW n, Sane(n), ~Frame(n), n = m \/ ~Personal(n), out' = Written(t, n)
        PROVE  Sent'
    <2>1. n = m \/ n.type # "receiveMsg"
      BY <1>8 DEF Personal
    <2>2. CASE peer[t]
      BY <1>7, <1>8, <2>1, <2>2, WrittenIs
    <2>3. CASE ~peer[t]
      <3>1. out' = out
        BY <1>8, <2>3 DEF Written
      <3>. QED BY <1>6, <3>1
    <2>. QED BY <2>2, <2>3
  <1>. QED BY <1>6, <1>8, DealIs

\* What a slot pushes in order stays in order.
LEMMA PushedGiven ==
  ASSUME Shape, Sent, SlotFrame, NEW x, Pushes(x), NEW t \in Thread,
         Ordered(x[t], "receiveMsg"),
         \A m \in Given(t), n \in Held(x[t]) : n.type = "receiveMsg" => Earlier(m.msg, n.msg)
  PROVE  /\ GivenOrdered(t)'
         /\ \A m \in Given(t)' : m \in Given(t) \/ (m \in Held(x[t]) /\ m.type = "receiveMsg")
  <1>1. out' = out /\ GivenOrdered(t)
    BY DEF SlotFrame, Sent
  <1>2. Held(msgQueue'[t]) \subseteq Held(msgQueue[t]) \cup Held(x[t])
    BY PushedHeld
  <1>3. /\ Precedes(msgQueue[t], "receiveMsg", x[t])
        /\ Precedes(out[t], "receiveMsg", x[t])
    BY DEF Precedes, Given
  <1>4. Ordered(msgQueue'[t], "receiveMsg")
    <2>1. CASE msgQueue'[t] = <<>>
      BY <2>1, OrderedOne
    <2>2. CASE msgQueue'[t] = msgQueue[t] \o x[t]
      <3>1. List(msgQueue[t]) /\ List(x[t]) /\ Ordered(msgQueue[t], "receiveMsg")
        BY <1>1, PushedHeld DEF GivenOrdered
      <3>2. Ordered(msgQueue[t] \o x[t], "receiveMsg")
        BY <1>3, <3>1, OrderedConcat
      <3>. QED BY <2>2, <3>2
    <2>. QED BY <2>1, <2>2, PushedHeld
  <1>5. Precedes(out[t], "receiveMsg", msgQueue'[t])
    BY <1>1, <1>2, <1>3 DEF Precedes, GivenOrdered
  <1>6. \A m \in Given(t)' : m \in Given(t) \/ (m \in Held(x[t]) /\ m.type = "receiveMsg")
    BY <1>1, <1>2 DEF Given
  <1>. QED BY <1>1, <1>4, <1>5, <1>6 DEF GivenOrdered

\* Nothing is pushed that is a private message.
LEMMA SentQuiet ==
  ASSUME Shape, Sent, Flow, SlotFrame, NEW x, Pushes(x), UNCHANGED rows,
         \A t \in Thread : \A m \in Held(x[t]) : m.type # "receiveMsg"
  PROVE  Sent'
  <1>1. \A t \in Thread : Ordered(x[t], "receiveMsg")
    BY OrderedNone
  <1>2. \A t \in Thread : GivenOrdered(t)' /\ Given(t)' \subseteq Given(t)
    BY <1>1, PushedGiven
  <1>3. UNCHANGED shown
    BY DEF SlotFrame, clientVars
  <1>. QED BY <1>2, <1>3, SentLess

\* What a slot pushes and stores is later than what the windows were given, and earlier
\* than what is under way.
LEMMA SentPushed ==
  ASSUME Shape, Sent, Flow, SlotFrame, NEW x, Pushes(x),
         \A t \in Thread : Ordered(x[t], "receiveMsg"),
         \A t \in Thread : \A n \in Held(x[t]) : n.type = "receiveMsg" =>
            /\ Passed(n.msg)'
            /\ \A m \in Given(t) : Earlier(m.msg, n.msg)
            /\ \A p \in Held(shown[t]) : Earlier(p, n.msg),
         \A r \in Held(rows') : Passed(r.msg)',
         \A i, j \in 1 .. Len(rows') : i < j => Earlier(rows'[i].msg, rows'[j].msg)
  PROVE  Sent'
  <1>1. UNCHANGED shown
    BY DEF SlotFrame, clientVars
  <1>2. \A t \in Thread : /\ GivenOrdered(t)'
                          /\ \A m \in Given(t)' : m \in Given(t) \/ (m \in Held(x[t]) /\ m.type = "receiveMsg")
    BY PushedGiven
  <1>3. \A t \in Thread : \A m \in Given(t)' : Passed(m.msg)'
    BY <1>2, SentKept
  <1>4. \A t \in Thread : \A p \in Held(shown[t])' : Passed(p)'
    BY <1>1, SentKept
  <1>5. \A t \in Thread : \A p \in Held(shown[t])' : \A m \in Given(t)' : Earlier(p, m.msg)
    BY <1>1, <1>2 DEF Sent
  <1>6. \A t \in Thread : ShownOrdered(t)'
    BY <1>1 DEF Sent, ShownOrdered
  <1>. QED BY <1>2, <1>3, <1>4, <1>5, <1>6 DEF Sent

\* loginSuccess: the replay is in the order of the rows, and the thread was given
\* nothing before.
LEMMA SentLogin ==
  ASSUME Shape, LoginInv, Fresh, Sent, Flow, SlotFrame, events[1].type = "loginSuccess",
         NEW s \in Thread, s = events[1].thread, NEW u \in User, u = events[1].msg.id,
         Pushes(LoginGives(s, u)), rows' = Marked(u)
  PROVE  Sent'
  <1>. DEFINE x == LoginGives(s, u)
              reply == LoginSucReturn(u, InOrder(Online))
  <1>1. Signalled(s) /\ Early(s) /\ \A v \in User : usersOnline[v] # s
    BY HandledOnce, EarlyOff DEF Early
  <1>0. /\ \A t \in Thread : \A v \in User : usersOnline[v] = t => x[t] = <<UserOnline(u)>>
        /\ \A t \in Thread : t # s /\ (\A v \in User : usersOnline[v] # t) => x[t] = <<>>
        /\ x[s] = <<reply>> \o Replay(u)
    <2>1. \A v \in User : usersOnline[v] # s
      BY <1>1
    <2>. QED BY ONLY Shape, LoginInv, <2>1, LoginGets
  <1>2. Given(s) = {} /\ Held(shown[s]) = {}
    <2>1. Calm(out[s]) /\ Calm(msgQueue[s]) /\ shown[s] = <<>>
      BY <1>1, EarlyCalm DEF Fresh
    <2>. QED BY <2>1, HeldEmpty DEF Given, Calm, Personal
  <1>3. /\ List(rows) /\ Len(rows) \in Nat /\ Len(rows') = Len(rows)
        /\ \A i \in 1 .. Len(rows) : rows'[i].msg = rows[i].msg
    BY QueueLists, RowsAfter DEF Shape
  <1>4. \A i \in 1 .. Len(rows) : \A p : p = rows[i].msg => Passed(p)'
    <2>1. \A r \in Held(rows) : Passed(r.msg)'
      BY SentKept
    <2>2. \A i \in 1 .. Len(rows) : rows[i] \in Held(rows)
      BY DEF Held
    <2>. QED BY <2>1, <2>2
  <1>5. /\ \A r \in Held(rows') : Passed(r.msg)'
        /\ \A i, j \in 1 .. Len(rows') : i < j => Earlier(rows'[i].msg, rows'[j].msg)
    BY <1>3, <1>4 DEF Sent, Held
  <1>6. /\ List(Replay(u)) /\ Ordered(Replay(u), "receiveMsg")
        /\ \A n \in Held(Replay(u)) : Passed(n.msg)'
    <2>1. PICK f : /\ \A k \in 1 .. Len(Replay(u)) :
                         /\ f[k] \in 1 .. Len(rows)
                         /\ Replay(u)[k] = ReceiveMsg(rows[f[k]].from, u, rows[f[k]].msg)
                   /\ \A k, l \in 1 .. Len(Replay(u)) : k < l => f[k] < f[l]
      BY <1>3, ReplayIs, ZenonT(40)
    <2>2. \A k \in 1 .. Len(Replay(u)) : f[k] \in 1 .. Len(rows) /\ Replay(u)[k].msg = rows[f[k]].msg
      <3>1. \A v, w, p : ReceiveMsg(v, w, p).msg = p
        BY DEF ReceiveMsg
      <3>. QED BY <2>1, <3>1
    <2>3. Ordered(Replay(u), "receiveMsg")
      BY <2>1, <2>2 DEF Ordered, Sent
    <2>4. \A n \in Held(Replay(u)) : Passed(n.msg)'
      <3>1. \A n \in Held(Replay(u)) : \E i \in 1 .. Len(rows) : n.msg = rows[i].msg
        BY <2>2 DEF Held
      <3>. QED BY <1>4, <3>1
    <2>. QED BY <1>3, <2>3, <2>4, ReplayIs
  <1>7. reply.type # "receiveMsg" /\ UserOnline(u).type # "receiveMsg"
    BY DEF LoginSucReturn, UserOnline
  <1>8. /\ Ordered(x[s], "receiveMsg")
        /\ \A n \in Held(x[s]) : n.type = "receiveMsg" => Passed(n.msg)'
    <2>. HIDE DEF x, reply
    <2>1. x[s] = <<reply>> \o Replay(u)
      BY <1>0
    <2>2. List(<<reply>>) /\ Held(<<reply>>) = {reply} /\ Ordered(<<reply>>, "receiveMsg")
      BY OneList, HeldOne, OrderedOne
    <2>3. Precedes(<<reply>>, "receiveMsg", Replay(u))
      BY <1>7, <2>2 DEF Precedes
    <2>4. Ordered(<<reply>> \o Replay(u), "receiveMsg")
      BY <1>6, <2>2, <2>3, OrderedConcat
    <2>5. Held(<<reply>> \o Replay(u)) = {reply} \cup Held(Replay(u))
      BY <1>6, <2>2, HeldConcat
    <2>. QED BY <1>6, <1>7, <2>1, <2>4, <2>5
  <1>9. \A t \in Thread : t # s =>
           /\ Ordered(x[t], "receiveMsg")
           /\ \A n \in Held(x[t]) : n.type # "receiveMsg"
    <2>1. ASSUME NEW t \in Thread, t # s
          PROVE  x[t] \in {<<UserOnline(u)>>, <<>>}
      <3>1. CASE \E v \in User : usersOnline[v] = t
        <4>. HIDE DEF x
        <4>. QED BY <1>0, <3>1
      <3>2. CASE \A v \in User : usersOnline[v] # t
        <4>. HIDE DEF x
        <4>. QED BY <1>0, <2>1, <3>2
      <3>. QED BY <3>1, <3>2
    <2>2. /\ Ordered(<<UserOnline(u)>>, "receiveMsg") /\ Ordered(<<>>, "receiveMsg")
          /\ Held(<<UserOnline(u)>>) = {UserOnline(u)} /\ Held(<<>>) = {}
      BY OrderedOne, HeldOne, HeldEmpty
    <2>. QED BY <1>7, <2>1, <2>2
  <1>. HIDE DEF x
  <1>10. /\ \A t \in Thread : Ordered(x[t], "receiveMsg")
         /\ \A t \in Thread : \A n \in Held(x[t]) : n.type = "receiveMsg" =>
               /\ Passed(n.msg)'
               /\ \A m \in Given(t) : Earlier(m.msg, n.msg)
               /\ \A p \in Held(shown[t]) : Earlier(p, n.msg)
    BY <1>2, <1>8, <1>9
  <1>11. Pushes(x)
    BY DEF x
  <1>. QED BY <1>5, <1>10, <1>11, SentPushed

\* sendMsg: the message is later than those handled, and earlier than those under way.
LEMMA SentPrivate ==
  ASSUME Shape, Sending, Sent, Flow, SlotFrame, AnySlot, UNCHANGED clientVars,
         NEW e, e = events[1], e.type = "sendMsg", e.msg.msg \in Payload,
         Pushes(PrivateGives(e.msg)),
         \/ rows' = Append(rows, [from |-> e.msg.from, to |-> e.msg.to, msg |-> e.msg.msg, read |-> FALSE])
         \/ rows' = rows
  PROVE  Sent'
  <1>. DEFINE x == PrivateGives(e.msg)
              n == ReceiveMsg(e.msg.from, e.msg.to, e.msg.msg)
              r == [from |-> e.msg.from, to |-> e.msg.to, msg |-> e.msg.msg, read |-> FALSE]
  <1>1. PICK p \in Payload : p = e.msg.msg
    OBVIOUS
  <1>2. e \in Raised /\ UnderWay(p)
    <2>1. 1 \in 1 .. Len(events)
      BY TakenIs
    <2>2. e \in Raised
      BY <2>1 DEF Raised, Held
    <2>. QED BY <1>1, <2>2 DEF UnderWay
  <1>3. \A q : Passed(q) => Earlier(q, p)
    BY <1>2 DEF Passed
  <1>4. Passed(p)'
    <2>1. p[2] < clicks /\ clicks' = clicks /\ UNCHANGED inbox
      BY <1>1, <1>2 DEF Sending, Wrote, clientVars, SlotFrame
    <2>2. \A t \in Thread : Coming(t)' \subseteq Coming(t)
      BY <2>1, SlotComing DEF Coming
    <2>3. \A t \in Thread : \A m \in Coming(t)' : Earlier(p, m.msg)
      BY <1>1, <1>2, <2>2 DEF Sending
    <2>4. \A f \in Raised' : Earlier(p, f.msg.msg)
      <3>1. ASSUME NEW i \in 1 .. Len(events'), events'[i].type = "sendMsg"
            PROVE  Earlier(p, events'[i].msg.msg)
        <4>1. 1 \in 1 .. Len(events) /\ i + 1 \in 1 .. Len(events) /\ 1 < i + 1 /\ events'[i] = events[i + 1]
          BY TakenIs
        <4>. QED BY <1>1, <3>1, <4>1 DEF Sending, SignalsOrdered
      <3>. QED BY <3>1 DEF Raised, Held
    <2>5. \A q \in Payload : UnderWay(q)' => Earlier(p, q)
      BY <2>3, <2>4 DEF UnderWay
    <2>. QED BY <2>1, <2>5 DEF Passed
  <1>5. \A t \in Thread : x[t] \in {<<n>>, <<>>}
    BY DEF PrivateGives
  <1>6. n.msg = p
    BY <1>1 DEF ReceiveMsg
  <1>7. r.msg = p
    BY <1>1
  <1>8. Pushes(x) /\ (rows' = Append(rows, r) \/ rows' = rows)
    OBVIOUS
  <1>. HIDE DEF x, n, r
  <1>9. \A t \in Thread : Ordered(x[t], "receiveMsg") /\ \A m \in Held(x[t]) : m.msg = p
    <2>1. Held(<<n>>) = {n} /\ Held(<<>>) = {}
      BY HeldOne, HeldEmpty
    <2>2. Ordered(<<n>>, "receiveMsg") /\ Ordered(<<>>, "receiveMsg")
      BY OrderedOne
    <2>. QED BY <1>5, <1>6, <2>1, <2>2
  <1>10. \A t \in Thread : \A m \in Held(x[t]) : m.type = "receiveMsg" =>
            /\ Passed(m.msg)'
            /\ \A k \in Given(t) : Earlier(k.msg, m.msg)
            /\ \A q \in Held(shown[t]) : Earlier(q, m.msg)
    BY <1>3, <1>4, <1>9 DEF Sent
  <1>11. /\ \A k \in Held(rows') : Passed(k.msg)'
         /\ \A i, j \in 1 .. Len(rows') : i < j => Earlier(rows'[i].msg, rows'[j].msg)
    <2>1. \A k \in Held(rows) : Passed(k.msg)' /\ Earlier(k.msg, p)
      BY <1>3, SentKept DEF Sent
    <2>2. CASE rows' = rows
      BY <2>1, <2>2 DEF Sent
    <2>3. CASE rows' = Append(rows, r)
      <3>1. List(rows)
        BY DEF Shape, ServerShape
      <3>2. /\ Len(rows) \in Nat /\ Len(rows') = Len(rows) + 1
            /\ \A i \in 1 .. Len(rows) : rows'[i] = rows[i]
            /\ rows'[Len(rows) + 1] = r
        BY <2>3, <3>1, ListLen, AppendList
      <3>3. Held(rows') = Held(rows) \cup {r}
        BY <2>3, <3>1, HeldAppend
      <3>4. ASSUME NEW i \in 1 .. Len(rows'), NEW j \in 1 .. Len(rows'), i < j
            PROVE  Earlier(rows'[i].msg, rows'[j].msg)
        <4>1. i \in 1 .. Len(rows) /\ (j \in 1 .. Len(rows) \/ j = Len(rows) + 1)
          BY <3>2, <3>4
        <4>2. rows[i] \in Held(rows)
          BY <4>1 DEF Held
        <4>. QED BY <1>7, <2>1, <3>2, <3>4, <4>1, <4>2 DEF Sent
      <3>. QED BY <1>4, <1>7, <2>1, <3>3, <3>4
    <2>. QED BY <1>8, <2>2, <2>3
  <1>. QED BY <1>8, <1>9, <1>10, <1>11, SentPushed

\* The slots.
LEMMA SentSlot ==
  ASSUME Shape, LoginInv, Fresh, Sending, Sent, Flow, AnySlot, UNCHANGED clientVars
  PROVE  Sent'
  <1>. DEFINE e == events[1]
  <1>1. SlotFrame /\ e.thread \in Thread
    BY SlotKinds
  <1>2. CASE UNCHANGED <<msgQueue, rows>>
    BY <1>1, <1>2, SentSame DEF SlotFrame, clientVars
  <1>3. CASE /\ e.type = "loginSuccess" /\ e.msg.id \in User
             /\ Pushes(LoginGives(e.thread, e.msg.id)) /\ rows' = Marked(e.msg.id)
    BY <1>1, <1>3, SentLogin
  <1>4. CASE /\ e.type = "sendMsg" /\ e.msg.to \in User /\ e.msg.msg \in Payload
             /\ Pushes(PrivateGives(e.msg))
             /\ \/ rows' = Append(rows, [from |-> e.msg.from, to |-> e.msg.to, msg |-> e.msg.msg,
                                         read |-> FALSE])
                \/ rows' = rows
    BY <1>1, <1>4, SentPrivate
  <1>5. CASE Pushes(OfflineGives(e.msg.id)) /\ UNCHANGED rows
    <2>. DEFINE m == UserOffline(e.msg.id)
                x == OfflineGives(e.msg.id)
    <2>1. m.type # "receiveMsg"
      BY DEF UserOffline
    <2>2. \A t \in Thread : \A i \in 1 .. Len(x[t]) : x[t][i] = m
      <3>1. ASSUME NEW t \in Thread
            PROVE  \A i \in 1 .. Len(x[t]) : x[t][i] = m
        <4>. DEFINE c == Cardinality(LeftOn(e.msg.id, t))
        <4>1. x[t] = [i \in 1 .. c |-> m]
          BY DEF OfflineGives
        <4>2. c \in Nat
          BY OnlineAre DEF LeftOn
        <4>. HIDE DEF c, m, x
        <4>3. Len(x[t]) = c
          BY <4>1, <4>2, FcnList
        <4>. QED BY <4>1, <4>3
      <3>. QED BY <3>1
    <2>. HIDE DEF m, x
    <2>3. \A t \in Thread : \A n \in Held(x[t]) : n.type # "receiveMsg"
      BY <2>1, <2>2 DEF Held
    <2>. QED BY <1>1, <1>5, <2>3, SentQuiet DEF x
  <1>6. ASSUME NEW x, Quietly(x), UNCHANGED rows
        PROVE  Sent'
    <2>1. \A t \in Thread : \A m \in Held(x[t]) : m.type # "receiveMsg"
      BY <1>6 DEF Quietly, Calm, Personal
    <2>. QED BY <1>1, <1>6, <2>1, SentQuiet DEF Quietly
  <1>. HIDE DEF e
  <1>7. \/ UNCHANGED <<msgQueue, rows>>
        \/ /\ e.type = "loginSuccess" /\ e.msg.id \in User
           /\ Pushes(LoginGives(e.thread, e.msg.id)) /\ rows' = Marked(e.msg.id)
        \/ /\ e.type = "sendMsg" /\ e.msg.to \in User /\ e.msg.msg \in Payload
           /\ Pushes(PrivateGives(e.msg))
           /\ \/ rows' = Append(rows, [from |-> e.msg.from, to |-> e.msg.to, msg |-> e.msg.msg,
                                       read |-> FALSE])
              \/ rows' = rows
        \/ Pushes(OfflineGives(e.msg.id)) /\ UNCHANGED rows
        \/ (\E x : Quietly(x)) /\ UNCHANGED rows
    BY SlotKinds DEF e
  <1>. QED BY <1>2, <1>3, <1>4, <1>5, <1>6, <1>7

\* The windows read from the front of what was written for them, and keep it in order.
LEMMA SentReads ==
  ASSUME Shape, Sent, Flow, UNCHANGED <<msgQueue, rows>>, NEW t \in Thread,
         Held(out'[t]) \subseteq Held(out[t]), Ordered(out'[t], "receiveMsg"),
         \A s \in Thread : s # t => out'[s] = out[s],
         \/ UNCHANGED shown
         \/ \E m \in Held(out[t]) :
               /\ m.type = "receiveMsg" /\ shown' = [shown EXCEPT ![t] = Append(shown[t], m.msg)]
               /\ \A n \in Held(out'[t]) : n.type = "receiveMsg" => Earlier(m.msg, n.msg)
  PROVE  Sent'
  <1>1. GivenOrdered(t)
    BY DEF Sent
  <1>2. \A s \in Thread : s # t => Given(s)' = Given(s) /\ GivenOrdered(s)' = GivenOrdered(s)
    BY DEF Given, GivenOrdered
  <1>3. Given(t)' \subseteq Given(t) /\ GivenOrdered(t)'
    BY <1>1 DEF Given, GivenOrdered, Precedes
  <1>4. \A s \in Thread : Given(s)' \subseteq Given(s) /\ GivenOrdered(s)'
    BY <1>2, <1>3 DEF Sent
  <1>5. CASE UNCHANGED shown
    BY <1>4, <1>5, SentLess
  <1>6. ASSUME NEW m \in Held(out[t]),
               m.type = "receiveMsg", shown' = [shown EXCEPT ![t] = Append(shown[t], m.msg)],
               \A n \in Held(out'[t]) : n.type = "receiveMsg" => Earlier(m.msg, n.msg)
        PROVE  Sent'
    <2>1. shown'[t] = Append(shown[t], m.msg) /\ \A s \in Thread : s # t => shown'[s] = shown[s]
      BY <1>6 DEF Shape, ClientShape
    <2>2. List(shown[t]) /\ Len(shown[t]) \in Nat
      BY SeqList DEF Shape, ClientShape
    <2>3. Held(shown'[t]) = Held(shown[t]) \cup {m.msg}
      BY <2>1, <2>2, HeldAppend
    <2>4. m \in Given(t)
      BY <1>6 DEF Given
    <2>5. \A s \in Thread : \A p \in Held(shown'[s]) : p \in Held(shown[s]) \/ (s = t /\ p = m.msg)
      BY <2>1, <2>3
    <2>6. \A s \in Thread : \A p \in Held(shown'[s]) : Passed(p)'
      <3>1. Passed(m.msg)'
        BY <2>4, SentKept
      <3>. QED BY <2>5, <3>1, SentKept
    <2>7. \A n \in Given(t)' : Earlier(m.msg, n.msg)
      <3>1. \A n \in Held(msgQueue[t]) : n.type = "receiveMsg" => Earlier(m.msg, n.msg)
        BY <1>1, <1>6 DEF GivenOrdered, Precedes
      <3>. QED BY <1>6, <3>1 DEF Given
    <2>8. \A s \in Thread : \A p \in Held(shown'[s]) : \A n \in Given(s)' : Earlier(p, n.msg)
      BY <1>4, <2>5, <2>7 DEF Sent
    <2>9. \A s \in Thread : ShownOrdered(s)'
      <3>1. \A s \in Thread : s # t => ShownOrdered(s)'
        BY <2>1 DEF Sent, ShownOrdered
      <3>2. /\ Len(shown'[t]) = Len(shown[t]) + 1
            /\ \A i \in 1 .. Len(shown[t]) : shown'[t][i] = shown[t][i]
            /\ shown'[t][Len(shown[t]) + 1] = m.msg
        BY <2>1, <2>2, AppendList
      <3>3. ASSUME NEW i \in 1 .. Len(shown'[t]), NEW j \in 1 .. Len(shown'[t]), i < j
            PROVE  Earlier(shown'[t][i], shown'[t][j])
        <4>1. i \in 1 .. Len(shown[t]) /\ (j \in 1 .. Len(shown[t]) \/ j = Len(shown[t]) + 1)
          BY <2>2, <3>2, <3>3
        <4>2. shown[t][i] \in Held(shown[t])
          BY <4>1 DEF Held
        <4>3. CASE j \in 1 .. Len(shown[t])
          BY <3>2, <3>3, <4>1, <4>3 DEF Sent, ShownOrdered
        <4>4. CASE j = Len(shown[t]) + 1
          BY <2>4, <3>2, <4>1, <4>2, <4>4 DEF Sent
        <4>. QED BY <4>1, <4>3, <4>4
      <3>4. ShownOrdered(t)'
        BY <3>3 DEF ShownOrdered
      <3>. QED BY <3>1, <3>4
    <2>10. \A s \in Thread : \A n \in Given(s)' : Passed(n.msg)'
      BY <1>4, SentKept
    <2>11. \A r \in Held(rows') : Passed(r.msg)'
      BY SentKept
    <2>. QED BY <1>4, <2>6, <2>8, <2>9, <2>10, <2>11 DEF Sent
  <1>. QED BY <1>5, <1>6

\* LoginReads, MainReads, and the connections that go.
LEMMA SentWindows ==
  ASSUME Shape, Sent, Flow, NEW t \in Thread,
         \/ \E n \in 1 .. Len(out[t]) : LoginReads(t, n)
         \/ MainReads(t)
         \/ MainCrashes(t)
         \/ \E w \in {"login", "main", "closed"} : Break(t, w)
  PROVE  Sent'
  <1>1. List(out[t]) /\ Len(out[t]) \in Nat /\ Ordered(out[t], "receiveMsg")
    BY QueueLists DEF Sent, GivenOrdered
  <1>2. ASSUME NEW n \in 1 .. Len(out[t]), LoginReads(t, n)
        PROVE  Sent'
    <2>1. out' = [out EXCEPT ![t] = SubSeq(out[t], n + 1, Len(out[t]))] /\ UNCHANGED <<msgQueue, rows, shown>>
      BY <1>2, LoginReadsIs
    <2>2. out'[t] = SubSeq(out[t], n + 1, Len(out[t])) /\ \A s \in Thread : s # t => out'[s] = out[s]
      BY <2>1 DEF Shape, ServerShape
    <2>3. n \in 0 .. Len(out[t])
      BY <1>1
    <2>4. Held(out'[t]) \subseteq Held(out[t]) /\ Ordered(out'[t], "receiveMsg")
      BY <1>1, <2>2, <2>3, HeldCut, OrderedCut
    <2>. QED BY <2>1, <2>2, <2>4, SentReads
  <1>3. CASE MainReads(t)
    <2>. DEFINE m == out[t][1]
    <2>1. /\ out[t] # <<>> /\ out' = [out EXCEPT ![t] = Tail(out[t])] /\ UNCHANGED <<msgQueue, rows>>
          /\ \/ shown' = shown
             \/ m.type = "receiveMsg" /\ shown' = [shown EXCEPT ![t] = Append(shown[t], m.msg)]
      BY <1>3, MainReadsIs
    <2>2. out'[t] = Tail(out[t]) /\ \A s \in Thread : s # t => out'[s] = out[s]
      BY <2>1 DEF Shape, ServerShape
    <2>3. Held(out'[t]) \subseteq Held(out[t]) /\ m \in Held(out[t])
      BY <1>1, <2>1, <2>2, HeldTail
    <2>4. /\ Ordered(out'[t], "receiveMsg")
          /\ m.type = "receiveMsg" => \A n \in Held(out'[t]) : n.type = "receiveMsg" => Earlier(m.msg, n.msg)
      BY <1>1, <2>1, <2>2, OrderedTail
    <2>. HIDE DEF m
    <2>. QED BY <2>1, <2>2, <2>3, <2>4, SentReads
  <1>4. CASE MainCrashes(t) \/ \E w \in {"login", "main", "closed"} : Break(t, w)
    <2>1. out' = [out EXCEPT ![t] = <<>>] /\ UNCHANGED <<msgQueue, rows, shown>>
      BY <1>4 DEF MainCrashes, Break, guiVars
    <2>2. out'[t] = <<>> /\ \A s \in Thread : s # t => out'[s] = out[s]
      BY <2>1 DEF Shape, ServerShape
    <2>3. Held(out'[t]) \subseteq Held(out[t]) /\ Ordered(out'[t], "receiveMsg")
      BY <2>2, HeldEmpty, OrderedOne
    <2>. QED BY <2>1, <2>2, <2>3, SentReads
  <1>. QED BY <1>2, <1>3, <1>4

\* Reconnect: the new connection was given nothing yet, and the old one gets nothing more.
LEMMA SentReconnect ==
  ASSUME Shape, Sent, Flow, NEW t \in Thread, NEW s \in Thread, Reconnect(t, s)
  PROVE  Sent'
  <1>1. /\ s # t /\ worker[s] = "none" /\ UNCHANGED <<msgQueue, out, rows>>
        /\ IsMoved(shown, shown', t, s, <<>>)
    BY ReconnectIs
  <1>2. Given(s) = {}
    <2>1. out[s] = <<>> /\ msgQueue[s] = <<>>
      BY <1>1 DEF Shape, Coupled
    <2>. QED BY <2>1, HeldEmpty DEF Given
  <1>3. /\ shown'[s] = shown[t] /\ shown'[t] = <<>>
        /\ \A r \in Thread : r # t /\ r # s => shown'[r] = shown[r]
    BY <1>1 DEF IsMoved
  <1>4. \A r \in Thread : Given(r)' = Given(r) /\ GivenOrdered(r)' = GivenOrdered(r)
    BY <1>1 DEF Given, GivenOrdered
  <1>5. Held(shown'[t]) = {} /\ Held(shown'[s]) = Held(shown[t])
    BY <1>3, HeldEmpty
  <1>6. \A r \in Thread : \A p \in Held(shown'[r]) : Passed(p)'
    <2>1. \A r \in Thread : \A p \in Held(shown'[r]) : \E q \in Thread : p \in Held(shown[q])
      BY <1>3, <1>5
    <2>. QED BY <2>1, SentKept
  <1>7. \A r \in Thread : \A p \in Held(shown'[r]) : \A m \in Given(r)' : Earlier(p, m.msg)
    BY <1>2, <1>3, <1>4, <1>5 DEF Sent
  <1>8. \A r \in Thread : ShownOrdered(r)'
    <2>1. ShownOrdered(t)'
      BY <1>3, EmptyList DEF ShownOrdered
    <2>2. ShownOrdered(s)'
      BY <1>3 DEF Sent, ShownOrdered
    <2>3. \A r \in Thread : r # t /\ r # s => ShownOrdered(r)'
      BY <1>3 DEF Sent, ShownOrdered
    <2>. QED BY <2>1, <2>2, <2>3
  <1>9. \A r \in Thread : \A n \in Given(r)' : Passed(n.msg)'
    BY <1>4, SentKept
  <1>10. \A r \in Held(rows') : Passed(r.msg)'
    BY <1>1, SentKept
  <1>. QED BY <1>1, <1>4, <1>6, <1>7, <1>8, <1>9, <1>10 DEF Sent

\* A step keeps it.
LEMMA SentNext ==
  ASSUME Shape, LoginInv, Fresh, Sending, Sent, [Next]_vars
  PROVE  Sent'
  <1>. Flow
    BY SendingNext
  <1>1. CASE UNCHANGED vars
    BY <1>1, SentSame DEF vars, serverVars, clientVars, guiVars
  <1>2. ASSUME NEW t \in Thread,
               \/ \E u \in User : OpenChat(t, u)
               \/ \E d \in {"create", "search"} : CloseAsking(t, d)
               \/ Start(t)
        PROVE  Sent'
    BY <1>2, SentSame DEF OpenChat, CloseAsking, Start, serverVars, guiVars
  <1>3. ASSUME NEW t \in Thread, Clicks(t)
        PROVE  Sent'
    <2>1. PICK m : Sends(t, m)
      BY <1>3, ClicksSend
    <2>2. UNCHANGED <<msgQueue, out, rows, shown>>
      BY <2>1 DEF Sends, Send, guiVars
    <2>. QED BY <2>2, SentSame
  <1>4. CASE Next
    BY <1>2, <1>3, <1>4, StepIs, SentReadFrames, SentDeal, SentEnds, SentSlot, SentWindows, SentReconnect
    DEF Clicks
  <1>. QED BY <1>1, <1>4

\* The initial states: nothing is given or stored.
LEMMA SentInit ==
  ASSUME Init
  PROVE  Sent
  <1>1. \A t \in Thread : out[t] = <<>> /\ msgQueue[t] = <<>> /\ shown[t] = <<>>
    BY DEF Init, ServerInit
  <1>2. rows = <<>>
    BY DEF Init, ServerInit
  <1>3. \A t \in Thread : Given(t) = {} /\ Held(shown[t]) = {} /\ Len(shown[t]) = 0
    BY <1>1, HeldEmpty, EmptyList DEF Given
  <1>4. \A t \in Thread : GivenOrdered(t)
    BY <1>1, HeldEmpty, OrderedOne DEF GivenOrdered, Precedes
  <1>5. Held(rows) = {} /\ Len(rows) = 0
    BY <1>2, HeldEmpty, EmptyList
  <1>6. \A t \in Thread : ShownOrdered(t)
    BY <1>3 DEF ShownOrdered
  <1>. QED BY <1>3, <1>4, <1>5, <1>6 DEF Sent

\* A legacy window is given the private messages of one sender in the order they were
\* written and none twice, replayed ones included (NetWorkThread::run, MainWindow::sendMsg
\* and loginSuccess of the server, MainWindow::readyRead of the client).
THEOREM SpecPrivateInOrder == Spec => []PrivateInOrder
  <1>1. Init => Shape /\ LoginInv /\ Fresh /\ Sending /\ Sent
    BY ShapeInit, LoginInit, FreshInit, SendingInit, SentInit
  <1>2. Shape /\ LoginInv /\ Fresh /\ Sending /\ Sent /\ [Next]_vars =>
           (Shape /\ LoginInv /\ Fresh /\ Sending /\ Sent)'
    BY ShapeNext, LoginNext, FreshNext, SendingNext, SentNext
  <1>3. Sent => PrivateInOrder
    BY DEF Sent, ShownOrdered, Earlier, PrivateInOrder
  <1>. QED BY <1>1, <1>2, <1>3, PTL DEF Spec

-----------------------------------------------------------------------------
(***************************************************************************)
(* Notices about one user.                                                 *)
(***************************************************************************)

\* The order of the naturals.
Less == OpToRel(<, Nat)

\* x is the least element of T.
Least(x, T) == x \in T /\ \A y \in T : x <= y

\* A set of naturals has one.
LEMMA LeastOf ==
  ASSUME NEW T \in SUBSET Nat, T # {}
  PROVE  \E x \in T : Least(x, T)
  <1>1. IsWellFoundedOn(Less, Nat)
    BY NatLessThanWellFounded, Zenon DEF Less
  <1>2. PICK x \in T : \A y \in T : ~(<<y, x>> \in Less)
    BY <1>1, WFMin
  <1>3. \A a, b \in Nat : a < b => <<a, b>> \in Less
    BY Zenon DEF Less, OpToRel
  <1>4. ASSUME NEW y \in T
        PROVE  x <= y
    <2>1. x \in Nat /\ y \in Nat
      OBVIOUS
    <2>2. ~(y < x)
      BY <1>2, <1>3, <2>1
    <2>. QED BY <2>1, <2>2
  <1>. QED BY <1>4 DEF Least

\* Nothing in q is about v.
Unsaid(q, v) == \A m \in Held(q) : ~Ons(m, v) /\ ~Offs(m, v)

\* One message more.
LEMMA TurnsAppend ==
  ASSUME NEW P, NEW q, List(q), NEW v, Turns(P, q, v), NEW m, ~(Ons(m, v) /\ Len(q) \in P)
  PROVE  \E K \in SUBSET (0 .. Len(Append(q, m))) :
            /\ Turns(K, Append(q, m), v)
            /\ 0 \in K <=> 0 \in P
            /\ Len(Append(q, m)) \in K <=> Ons(m, v) \/ (Len(q) \in P /\ ~Offs(m, v))
  <1>. DEFINE x == Append(q, m)
              n == Len(q)
              on == Ons(m, v) \/ (n \in P /\ ~Offs(m, v))
              K == P \cup {j \in {n + 1} : on}
  <1>1. /\ n \in Nat /\ Len(x) = n + 1
        /\ \A j \in 1 .. n : x[j] = q[j]
        /\ x[n + 1] = m
    BY ListLen, AppendList
  <1>2. P \subseteq 0 .. n /\ \A j \in 1 .. n :
           /\ Ons(q[j], v) => j - 1 \notin P
           /\ j \in P <=> Ons(q[j], v) \/ (j - 1 \in P /\ ~Offs(q[j], v))
    BY DEF Turns
  <1>. HIDE DEF x, n, on
  <1>3. /\ n + 1 \notin P /\ n + 1 # 0 /\ n # n + 1 /\ n + 1 - 1 = n
        /\ \A j \in 1 .. n : j # n + 1 /\ j - 1 # n + 1
        /\ \A j \in 1 .. n + 1 : j \in 1 .. n \/ j = n + 1
    BY <1>1, <1>2
  <1>4. K \subseteq 0 .. n + 1
    <2>1. n + 1 \in 0 .. n + 1 /\ \A j \in 0 .. n : j \in 0 .. n + 1
      BY <1>1
    <2>2. P \subseteq 0 .. n
      BY <1>2
    <2>. QED BY <2>1, <2>2
  <1>5. /\ 0 \in K <=> 0 \in P
        /\ n + 1 \in K <=> on
        /\ n \in K <=> n \in P
        /\ \A j \in 1 .. n : (j \in K <=> j \in P) /\ (j - 1 \in K <=> j - 1 \in P)
    BY <1>3
  <1>. HIDE DEF K
  <1>6. ASSUME NEW j \in 1 .. n + 1
        PROVE  /\ Ons(x[j], v) => j - 1 \notin K
               /\ j \in K <=> Ons(x[j], v) \/ (j - 1 \in K /\ ~Offs(x[j], v))
    <2>1. CASE j \in 1 .. n
      BY <1>1, <1>2, <1>5, <2>1
    <2>2. CASE j = n + 1
      <3>1. j - 1 = n /\ x[j] = m
        BY <1>1, <1>3, <2>2
      <3>. QED BY <1>5, <2>2, <3>1 DEF on, n
    <2>. QED BY <1>3, <2>1, <2>2
  <1>7. Turns(K, x, v) /\ K \in SUBSET (0 .. Len(x))
    BY <1>1, <1>4, <1>6 DEF Turns
  <1>. QED BY <1>1, <1>5, <1>7 DEF x, n, on

\* The message at the head is read.
LEMMA TurnsTail ==
  ASSUME NEW P, NEW q, List(q), q # <<>>, NEW v, Turns(P, q, v)
  PROVE  /\ ~(Ons(q[1], v) /\ 0 \in P)
         /\ \E K \in SUBSET (0 .. Len(Tail(q))) :
               /\ Turns(K, Tail(q), v)
               /\ 0 \in K <=> Ons(q[1], v) \/ (0 \in P /\ ~Offs(q[1], v))
               /\ Len(Tail(q)) \in K <=> Len(q) \in P
  <1>. DEFINE x == Tail(q)
              n == Len(q)
              K == {i \in 0 .. n - 1 : i + 1 \in P}
  <1>1. /\ n \in Nat /\ Len(x) = n - 1 /\ n >= 1
        /\ \A j \in 1 .. n - 1 : x[j] = q[j + 1]
    BY ListLen, TailList
  <1>2. P \subseteq 0 .. n /\ \A j \in 1 .. n :
           /\ Ons(q[j], v) => j - 1 \notin P
           /\ j \in P <=> Ons(q[j], v) \/ (j - 1 \in P /\ ~Offs(q[j], v))
    BY DEF Turns
  <1>. HIDE DEF x, n
  <1>3. /\ 1 \in 1 .. n /\ 1 - 1 = 0 /\ n - 1 \in 0 .. n - 1 /\ n - 1 + 1 = n
        /\ 0 \in 0 .. n - 1 /\ 0 + 1 = 1
        /\ \A j \in 1 .. n - 1 : /\ j \in 0 .. n - 1 /\ j - 1 \in 0 .. n - 1 /\ j - 1 + 1 = j
                                 /\ j + 1 \in 1 .. n /\ j + 1 - 1 = j
    BY <1>1
  <1>4. /\ 0 \in K <=> 1 \in P
        /\ n - 1 \in K <=> n \in P
        /\ \A j \in 1 .. n - 1 : (j \in K <=> j + 1 \in P) /\ (j - 1 \in K <=> j \in P)
    BY <1>3
  <1>5. K \subseteq 0 .. n - 1
    OBVIOUS
  <1>. HIDE DEF K
  <1>6. ASSUME NEW j \in 1 .. n - 1
        PROVE  /\ Ons(x[j], v) => j - 1 \notin K
               /\ j \in K <=> Ons(x[j], v) \/ (j - 1 \in K /\ ~Offs(x[j], v))
    <2>1. x[j] = q[j + 1] /\ j + 1 \in 1 .. n /\ j + 1 - 1 = j
      BY <1>1, <1>3
    <2>2. /\ Ons(q[j + 1], v) => j \notin P
          /\ j + 1 \in P <=> Ons(q[j + 1], v) \/ (j \in P /\ ~Offs(q[j + 1], v))
      BY <1>2, <2>1
    <2>. QED BY <1>4, <2>1, <2>2
  <1>7. Turns(K, x, v) /\ K \in SUBSET (0 .. Len(x))
    BY <1>1, <1>5, <1>6 DEF Turns
  <1>8. /\ Ons(q[1], v) => 0 \notin P
        /\ 1 \in P <=> Ons(q[1], v) \/ (0 \in P /\ ~Offs(q[1], v))
    BY <1>2, <1>3
  <1>. QED BY <1>1, <1>4, <1>7, <1>8 DEF x, n

\* Messages that are not about v.
LEMMA TurnsConcat ==
  ASSUME NEW P, NEW q, List(q), NEW v, Turns(P, q, v), NEW r, List(r), Unsaid(r, v)
  PROVE  \E K \in SUBSET (0 .. Len(q \o r)) :
            /\ Turns(K, q \o r, v)
            /\ 0 \in K <=> 0 \in P
            /\ Len(q \o r) \in K <=> Len(q) \in P
  <1>. DEFINE x == q \o r
              n == Len(q)
              k == Len(r)
              K == P \cup {j \in n + 1 .. n + k : n \in P}
  <1>1. /\ n \in Nat /\ k \in Nat /\ Len(x) = n + k
        /\ \A i \in 1 .. n + k : \/ i \in 1 .. n /\ x[i] = q[i]
                                 \/ i - n \in 1 .. k /\ x[i] = r[i - n] /\ i > n
    BY ConcatAt
  <1>2. P \subseteq 0 .. n /\ \A j \in 1 .. n :
           /\ Ons(q[j], v) => j - 1 \notin P
           /\ j \in P <=> Ons(q[j], v) \/ (j - 1 \in P /\ ~Offs(q[j], v))
    BY DEF Turns
  <1>0. \A i \in 1 .. k : ~Ons(r[i], v) /\ ~Offs(r[i], v)
    BY DEF Unsaid, Held
  <1>. HIDE DEF x, n, k
  <1>3. /\ \A j \in 0 .. n : j \notin n + 1 .. n + k
        /\ \A j \in 1 .. n + k : j > n => j \in n + 1 .. n + k /\ j \notin 0 .. n
        /\ \A j \in 1 .. n + k : j > n => j - 1 = n \/ (j - 1 \in n + 1 .. n + k /\ j - 1 \notin 0 .. n)
        /\ \A j \in 1 .. n : j \in 0 .. n /\ j - 1 \in 0 .. n
        /\ n \in 0 .. n /\ 0 \in 0 .. n
        /\ n + k = n \/ (n + k \in n + 1 .. n + k /\ n + k \notin 0 .. n)
    BY <1>1
  <1>4. K \subseteq 0 .. n + k
    <2>1. /\ \A j \in 0 .. n : j \in 0 .. n + k
          /\ \A j \in n + 1 .. n + k : j \in 0 .. n + k
      BY <1>1
    <2>2. P \subseteq 0 .. n
      BY <1>2
    <2>. QED BY <2>1, <2>2
  <1>5. /\ \A j \in 0 .. n : j \in K <=> j \in P
        /\ \A j \in n + 1 .. n + k : j \notin 0 .. n => (j \in K <=> n \in P)
    BY <1>2, <1>3
  <1>. HIDE DEF K
  <1>6. ASSUME NEW j \in 1 .. n + k
        PROVE  /\ Ons(x[j], v) => j - 1 \notin K
               /\ j \in K <=> Ons(x[j], v) \/ (j - 1 \in K /\ ~Offs(x[j], v))
    <2>1. CASE j \in 1 .. n /\ x[j] = q[j]
      <3>1. (j \in K <=> j \in P) /\ (j - 1 \in K <=> j - 1 \in P)
        BY <1>3, <1>5, <2>1
      <3>. QED BY <1>2, <2>1, <3>1
    <2>2. CASE j - n \in 1 .. k /\ x[j] = r[j - n] /\ j > n
      <3>1. ~Ons(x[j], v) /\ ~Offs(x[j], v)
        BY <1>0, <2>2
      <3>2. j \in K <=> n \in P
        BY <1>3, <1>5, <2>2
      <3>3. j - 1 \in K <=> n \in P
        BY <1>3, <1>5, <2>2
      <3>. QED BY <3>1, <3>2, <3>3
    <2>. QED BY <1>1, <2>1, <2>2
  <1>7. Turns(K, x, v) /\ K \in SUBSET (0 .. Len(x))
    BY <1>1, <1>4, <1>6 DEF Turns
  <1>8. (0 \in K <=> 0 \in P) /\ (n + k \in K <=> n \in P)
    BY <1>3, <1>5
  <1>. QED BY <1>1, <1>7, <1>8 DEF x, n

\* Only messages that are not about v.
LEMMA TurnsNone ==
  ASSUME NEW q, List(q), NEW v, Unsaid(q, v), NEW a \in BOOLEAN
  PROVE  \E K \in SUBSET (0 .. Len(q)) : Turns(K, q, v) /\ (0 \in K <=> a) /\ (Len(q) \in K <=> a)
  <1>. DEFINE n == Len(q)
              K == {j \in 0 .. n : a}
  <1>1. n \in Nat /\ \A j \in 1 .. n : j \in 0 .. n /\ j - 1 \in 0 .. n
    BY ListLen
  <1>2. \A i \in 1 .. n : ~Ons(q[i], v) /\ ~Offs(q[i], v)
    BY DEF Unsaid, Held
  <1>. HIDE DEF n
  <1>3. \A j \in 1 .. n : (j \in K <=> a) /\ (j - 1 \in K <=> a)
    BY <1>1
  <1>4. K \subseteq 0 .. n
    OBVIOUS
  <1>5. 0 \in 0 .. n /\ n \in 0 .. n
    BY <1>1
  <1>6. (0 \in K <=> a) /\ (n \in K <=> a)
    BY <1>5
  <1>. HIDE DEF K
  <1>7. Turns(K, q, v)
    BY <1>2, <1>3, <1>4 DEF Turns, n
  <1>. QED BY <1>4, <1>6, <1>7 DEF n

\* Nor in the first n messages of q.
UnsaidTo(q, n, v) == \A i \in 1 .. n : ~Ons(q[i], v) /\ ~Offs(q[i], v)

\* Up to a place with nothing about v before it nothing changes.
LEMMA TurnsSteady ==
  ASSUME NEW P, NEW q, List(q), NEW v, Turns(P, q, v), NEW n \in 0 .. Len(q), UnsaidTo(q, n, v)
  PROVE  n \in P <=> 0 \in P
  <1>. DEFINE T == {j \in 0 .. n : ~(j \in P <=> 0 \in P)}
  <1>1. Len(q) \in Nat /\ n \in Nat
    BY ListLen
  <1>2. SUFFICES ASSUME T # {}
                 PROVE  FALSE
    <2>1. n \in 0 .. n
      BY <1>1
    <2>. QED BY <1>2, <2>1
  <1>3. T \in SUBSET Nat
    BY <1>1
  <1>4. PICK x \in T : Least(x, T)
    BY <1>2, <1>3, LeastOf
  <1>5. x \in 0 .. n /\ ~(x \in P <=> 0 \in P) /\ \A y \in T : x <= y
    BY <1>4 DEF Least
  <1>6. x # 0
    BY <1>5
  <1>7. x \in 1 .. n /\ x \in 1 .. Len(q) /\ x - 1 \in 0 .. n /\ ~(x <= x - 1)
    BY <1>1, <1>5, <1>6
  <1>8. x - 1 \notin T
    BY <1>5, <1>7
  <1>9. x - 1 \in P <=> 0 \in P
    BY <1>7, <1>8
  <1>10. x \in P <=> x - 1 \in P
    BY <1>7 DEF Turns, UnsaidTo
  <1>. QED BY <1>5, <1>9, <1>10

\* What is left of q without its first n messages.
Behind(q, n) == SubSeq(q, n + 1, Len(q))

\* The first n messages are read, and not about v.
LEMMA TurnsCut ==
  ASSUME NEW P, NEW q, List(q), NEW v, Turns(P, q, v), NEW n \in 0 .. Len(q), UnsaidTo(q, n, v)
  PROVE  \E K \in SUBSET (0 .. Len(Behind(q, n))) :
            /\ Turns(K, Behind(q, n), v)
            /\ 0 \in K <=> 0 \in P
            /\ Len(Behind(q, n)) \in K <=> Len(q) \in P
  <1>. DEFINE x == Behind(q, n)
              l == Len(q)
              K == {i \in 0 .. l - n : n + i \in P}
  <1>1. /\ l \in Nat /\ n \in Nat /\ n <= l /\ Len(x) = l - n
        /\ \A j \in 1 .. l - n : x[j] = q[n + j]
    <2>1. Len(x) = l - n /\ \A j \in 1 .. l - n : x[j] = q[n + j]
      BY CutList DEF Behind
    <2>2. l \in Nat
      BY ListLen
    <2>. HIDE DEF x, l
    <2>3. n \in Nat /\ n <= l
      BY <2>2 DEF l
    <2>. QED BY <2>1, <2>2, <2>3
  <1>2. \A j \in 1 .. l :
           /\ Ons(q[j], v) => j - 1 \notin P
           /\ j \in P <=> Ons(q[j], v) \/ (j - 1 \in P /\ ~Offs(q[j], v))
    BY DEF Turns
  <1>3. n \in P <=> 0 \in P
    BY TurnsSteady
  <1>. HIDE DEF l, x
  <1>4. /\ 0 \in 0 .. l - n /\ n + 0 = n /\ l - n \in 0 .. l - n /\ n + (l - n) = l
        /\ \A j \in 1 .. l - n : /\ j \in 0 .. l - n /\ j - 1 \in 0 .. l - n
                                 /\ n + j \in 1 .. l /\ n + (j - 1) = n + j - 1
    BY <1>1
  <1>5. /\ 0 \in K <=> n \in P
        /\ l - n \in K <=> l \in P
        /\ \A j \in 1 .. l - n : (j \in K <=> n + j \in P) /\ (j - 1 \in K <=> n + j - 1 \in P)
    BY <1>4
  <1>6. K \subseteq 0 .. l - n
    OBVIOUS
  <1>. HIDE DEF K
  <1>7. ASSUME NEW j \in 1 .. l - n
        PROVE  /\ Ons(x[j], v) => j - 1 \notin K
               /\ j \in K <=> Ons(x[j], v) \/ (j - 1 \in K /\ ~Offs(x[j], v))
    <2>1. x[j] = q[n + j] /\ n + j \in 1 .. l
      BY <1>1, <1>4
    <2>2. /\ Ons(q[n + j], v) => n + j - 1 \notin P
          /\ n + j \in P <=> Ons(q[n + j], v) \/ (n + j - 1 \in P /\ ~Offs(q[n + j], v))
      BY <1>2, <2>1
    <2>. QED BY <1>5, <2>1, <2>2
  <1>8. Turns(K, x, v)
    BY <1>1, <1>6, <1>7 DEF Turns
  <1>. QED BY <1>1, <1>3, <1>5, <1>6, <1>8 DEF l, x

-----------------------------------------------------------------------------
(***************************************************************************)
(* Notices between the server and a list.                                  *)
(***************************************************************************)

\* The notices in two queues about v, from a list to who is online.
Led(list, q, r, v, us) ==
    \E P \in SUBSET (0 .. Len(q)), R \in SUBSET (0 .. Len(r)) : Leads(P, R, list, q, r, v, us)

\* The notices lead from the list to those online when they do for each user.
LEMMA InformedLed ==
  ASSUME NEW list, NEW q, NEW r, NEW us
  PROVE  Informed(list, q, r, us) <=> \A v \in User : Once(list, v) /\ Led(list, q, r, v, us)
  BY DEF Informed, Led

\* A notice is pushed.
LEMMA LedPush ==
  ASSUME NEW list, NEW q, NEW r, List(r), NEW v, NEW us, Led(list, q, r, v, us),
         NEW m, ~(Ons(m, v) /\ v \in us),
         NEW us2, v \in us2 <=> Ons(m, v) \/ (v \in us /\ ~Offs(m, v))
  PROVE  Led(list, q, Append(r, m), v, us2)
  <1>. DEFINE x == Append(r, m)
  <1>1. PICK P \in SUBSET (0 .. Len(q)), R \in SUBSET (0 .. Len(r)) : Leads(P, R, list, q, r, v, us)
    BY DEF Led
  <1>2. Turns(R, r, v) /\ (Len(r) \in R <=> v \in us)
    BY <1>1 DEF Leads
  <1>3. PICK K \in SUBSET (0 .. Len(x)) :
           /\ Turns(K, x, v)
           /\ 0 \in K <=> 0 \in R
           /\ Len(x) \in K <=> Ons(m, v) \/ (Len(r) \in R /\ ~Offs(m, v))
    BY <1>2, TurnsAppend
  <1>. HIDE DEF x
  <1>4. Leads(P, K, list, q, x, v, us2)
    BY <1>1, <1>2, <1>3 DEF Leads
  <1>5. Led(list, q, x, v, us2)
    BY <1>4 DEF Led
  <1>. QED BY <1>5 DEF x

\* Messages that are not about v are pushed.
LEMMA LedQuiet ==
  ASSUME NEW list, NEW q, NEW r, List(r), NEW v, NEW us, Led(list, q, r, v, us),
         NEW y, List(y), Unsaid(y, v)
  PROVE  Led(list, q, r \o y, v, us)
  <1>. DEFINE x == r \o y
  <1>1. PICK P \in SUBSET (0 .. Len(q)), R \in SUBSET (0 .. Len(r)) : Leads(P, R, list, q, r, v, us)
    BY DEF Led
  <1>2. Turns(R, r, v)
    BY <1>1 DEF Leads
  <1>3. PICK K \in SUBSET (0 .. Len(x)) :
           /\ Turns(K, x, v)
           /\ 0 \in K <=> 0 \in R
           /\ Len(x) \in K <=> Len(r) \in R
    BY <1>2, TurnsConcat
  <1>. HIDE DEF x
  <1>4. Leads(P, K, list, q, x, v, us)
    BY <1>1, <1>3 DEF Leads
  <1>5. Led(list, q, x, v, us)
    BY <1>4 DEF Led
  <1>. QED BY <1>5 DEF x

\* The head of the second queue moves to the end of the first.
LEMMA LedMove ==
  ASSUME NEW list, NEW q, List(q), NEW r, List(r), r # <<>>, NEW v, NEW us, Led(list, q, r, v, us)
  PROVE  Led(list, Append(q, r[1]), Tail(r), v, us)
  <1>. DEFINE m == r[1]
              x == Append(q, m)
              y == Tail(r)
  <1>1. PICK P \in SUBSET (0 .. Len(q)), R \in SUBSET (0 .. Len(r)) : Leads(P, R, list, q, r, v, us)
    BY DEF Led
  <1>2. Turns(P, q, v) /\ Turns(R, r, v) /\ (Len(q) \in P <=> 0 \in R)
    BY <1>1 DEF Leads
  <1>3. /\ ~(Ons(m, v) /\ 0 \in R)
        /\ \E K \in SUBSET (0 .. Len(y)) :
              /\ Turns(K, y, v)
              /\ 0 \in K <=> Ons(m, v) \/ (0 \in R /\ ~Offs(m, v))
              /\ Len(y) \in K <=> Len(r) \in R
    BY <1>2, TurnsTail
  <1>4. PICK K \in SUBSET (0 .. Len(y)) :
              /\ Turns(K, y, v)
              /\ 0 \in K <=> Ons(m, v) \/ (0 \in R /\ ~Offs(m, v))
              /\ Len(y) \in K <=> Len(r) \in R
    BY <1>3
  <1>5. PICK L \in SUBSET (0 .. Len(x)) :
           /\ Turns(L, x, v)
           /\ 0 \in L <=> 0 \in P
           /\ Len(x) \in L <=> Ons(m, v) \/ (Len(q) \in P /\ ~Offs(m, v))
    BY <1>2, <1>3, TurnsAppend
  <1>. HIDE DEF x, y, m
  <1>6. Leads(L, K, list, x, y, v, us)
    BY <1>1, <1>2, <1>4, <1>5 DEF Leads
  <1>7. Led(list, x, y, v, us)
    BY <1>6 DEF Led
  <1>. QED BY <1>7 DEF x, y, m

\* A head of the second queue that is not about v is dropped.
LEMMA LedDrop ==
  ASSUME NEW list, NEW q, NEW r, List(r), r # <<>>, NEW v, NEW us, Led(list, q, r, v, us),
         ~Ons(r[1], v), ~Offs(r[1], v)
  PROVE  Led(list, q, Tail(r), v, us)
  <1>. DEFINE m == r[1]
              y == Tail(r)
  <1>1. PICK P \in SUBSET (0 .. Len(q)), R \in SUBSET (0 .. Len(r)) : Leads(P, R, list, q, r, v, us)
    BY DEF Led
  <1>2. Turns(R, r, v)
    BY <1>1 DEF Leads
  <1>3. PICK K \in SUBSET (0 .. Len(y)) :
              /\ Turns(K, y, v)
              /\ 0 \in K <=> Ons(m, v) \/ (0 \in R /\ ~Offs(m, v))
              /\ Len(y) \in K <=> Len(r) \in R
    BY <1>2, TurnsTail
  <1>. HIDE DEF y
  <1>4. Leads(P, K, list, q, y, v, us)
    BY <1>1, <1>3 DEF Leads
  <1>5. Led(list, q, y, v, us)
    BY <1>4 DEF Led
  <1>. QED BY <1>5 DEF y

\* A message that is not about v goes to the end of the first queue.
LEMMA LedAnswer ==
  ASSUME NEW list, NEW q, List(q), NEW r, NEW v, NEW us, Led(list, q, r, v, us),
         NEW m, ~Ons(m, v), ~Offs(m, v)
  PROVE  Led(list, Append(q, m), r, v, us)
  <1>. DEFINE x == Append(q, m)
  <1>1. PICK P \in SUBSET (0 .. Len(q)), R \in SUBSET (0 .. Len(r)) : Leads(P, R, list, q, r, v, us)
    BY DEF Led
  <1>2. Turns(P, q, v)
    BY <1>1 DEF Leads
  <1>3. PICK K \in SUBSET (0 .. Len(x)) :
           /\ Turns(K, x, v)
           /\ 0 \in K <=> 0 \in P
           /\ Len(x) \in K <=> Ons(m, v) \/ (Len(q) \in P /\ ~Offs(m, v))
    BY <1>2, TurnsAppend
  <1>. HIDE DEF x
  <1>4. Leads(K, R, list, x, r, v, us)
    BY <1>1, <1>3 DEF Leads
  <1>5. Led(list, x, r, v, us)
    BY <1>4 DEF Led
  <1>. QED BY <1>5 DEF x

\* The window reads the head of the first queue.
LEMMA LedRead ==
  ASSUME NEW list, NEW q, List(q), q # <<>>, NEW r, NEW v, NEW us, Led(list, q, r, v, us)
  PROVE  /\ ~(Ons(q[1], v) /\ Lists(list, v))
         /\ \A other : (Lists(other, v) <=> Ons(q[1], v) \/ (Lists(list, v) /\ ~Offs(q[1], v)))
                       => Led(other, Tail(q), r, v, us)
  <1>. DEFINE m == q[1]
              y == Tail(q)
  <1>1. PICK P \in SUBSET (0 .. Len(q)), R \in SUBSET (0 .. Len(r)) : Leads(P, R, list, q, r, v, us)
    BY DEF Led
  <1>2. Turns(P, q, v) /\ (0 \in P <=> Lists(list, v))
    BY <1>1 DEF Leads
  <1>3. /\ ~(Ons(m, v) /\ 0 \in P)
        /\ \E K \in SUBSET (0 .. Len(y)) :
              /\ Turns(K, y, v)
              /\ 0 \in K <=> Ons(m, v) \/ (0 \in P /\ ~Offs(m, v))
              /\ Len(y) \in K <=> Len(q) \in P
    BY <1>2, TurnsTail
  <1>4. PICK K \in SUBSET (0 .. Len(y)) :
              /\ Turns(K, y, v)
              /\ 0 \in K <=> Ons(m, v) \/ (0 \in P /\ ~Offs(m, v))
              /\ Len(y) \in K <=> Len(q) \in P
    BY <1>3
  <1>. HIDE DEF y, m
  <1>5. ASSUME NEW other, Lists(other, v) <=> Ons(m, v) \/ (Lists(list, v) /\ ~Offs(m, v))
        PROVE  Led(other, y, r, v, us)
    <2>1. Leads(K, R, other, y, r, v, us)
      BY <1>1, <1>2, <1>4, <1>5 DEF Leads
    <2>. QED BY <2>1 DEF Led
  <1>6. ~(Ons(m, v) /\ Lists(list, v))
    BY <1>2, <1>3
  <1>. QED BY <1>5, <1>6 DEF y, m

\* The login dialog reads messages that are not about v.
LEMMA LedCut ==
  ASSUME NEW list, NEW q, List(q), NEW r, NEW v, NEW us, Led(list, q, r, v, us), NEW n \in 0 .. Len(q), UnsaidTo(q, n, v)
  PROVE  Led(list, Behind(q, n), r, v, us)
  <1>. DEFINE x == Behind(q, n)
  <1>1. PICK P \in SUBSET (0 .. Len(q)), R \in SUBSET (0 .. Len(r)) : Leads(P, R, list, q, r, v, us)
    BY DEF Led
  <1>2. Turns(P, q, v)
    BY <1>1 DEF Leads
  <1>3. PICK K \in SUBSET (0 .. Len(x)) :
            Turns(K, x, v) /\ (0 \in K <=> 0 \in P) /\ (Len(x) \in K <=> Len(q) \in P)
    BY <1>2, TurnsCut
  <1>. HIDE DEF x
  <1>4. Leads(K, R, list, x, r, v, us)
    BY <1>1, <1>3 DEF Leads
  <1>5. Led(list, x, r, v, us)
    BY <1>4 DEF Led
  <1>. QED BY <1>5 DEF x

\* Nothing about v is under way.
LEMMA LedCalm ==
  ASSUME NEW list, NEW q, List(q), NEW r, List(r), NEW v, NEW us,
         Unsaid(q, v), Unsaid(r, v), Lists(list, v) <=> v \in us
  PROVE  Led(list, q, r, v, us)
  <1>. DEFINE a == Lists(list, v)
  <1>0. a \in BOOLEAN
    BY DEF Lists
  <1>. HIDE DEF a
  <1>1. PICK P \in SUBSET (0 .. Len(q)) : Turns(P, q, v) /\ (0 \in P <=> a) /\ (Len(q) \in P <=> a)
    BY <1>0, TurnsNone
  <1>2. PICK R \in SUBSET (0 .. Len(r)) : Turns(R, r, v) /\ (0 \in R <=> a) /\ (Len(r) \in R <=> a)
    BY <1>0, TurnsNone
  <1>3. Leads(P, R, list, q, r, v, us)
    BY <1>1, <1>2 DEF Leads, a
  <1>. QED BY <1>3 DEF Led

\* With empty queues the list is right.
LEMMA LedArrived ==
  ASSUME NEW list, NEW v, NEW us, Led(list, <<>>, <<>>, v, us)
  PROVE  Lists(list, v) <=> v \in us
  <1>1. PICK P, R : Leads(P, R, list, <<>>, <<>>, v, us)
    BY DEF Led
  <1>. QED BY <1>1, EmptyList DEF Leads

-----------------------------------------------------------------------------
(***************************************************************************)
(* The friend list.                                                        *)
(***************************************************************************)

\* Of a user listed once, the loop of MainWindow deletes the one item.
LEMMA WithoutIs ==
  ASSUME NEW S, NEW list \in Seq(S), NEW u
  PROVE  \A v : /\ Once(list, v) => Once(Without(list, u), v)
                /\ v # u => (Lists(Without(list, u), v) <=> Lists(list, v))
                /\ v = u /\ Once(list, u) => ~Lists(Without(list, u), v)
  <1>. DEFINE Row(i) == {j \in 1 .. i : \A k \in j .. i : list[k] = u}
              P == {i \in 1 .. Len(list) : Cardinality(Row(i)) % 2 = 0}
              r == Picked(list, P)
              c == Cardinality(P)
  <1>1. Len(list) \in Nat
    BY LenProperties
  <1>2. ASSUME NEW i \in 1 .. Len(list), list[i] # u
        PROVE  i \in P
    <2>1. i \in Nat /\ \A j \in 1 .. i : i \in j .. i
      BY <1>1
    <2>2. Row(i) = {}
      BY <1>2, <2>1
    <2>3. Cardinality(Row(i)) = 0
      BY <2>2, FS_EmptySet
    <2>. HIDE DEF Row
    <2>. QED BY <2>3
  <1>3. ASSUME Once(list, u), NEW i \in 1 .. Len(list), list[i] = u
        PROVE  i \notin P
    <2>1. /\ i \in Nat /\ i \in 1 .. i /\ \A k \in i .. i : k = i
          /\ \A j \in 1 .. i : j \in j .. i /\ j \in 1 .. Len(list)
      BY <1>1
    <2>2. i \in Row(i)
      BY <1>3, <2>1
    <2>3. \A j \in Row(i) : j = i
      BY <1>3, <2>1 DEF Once
    <2>4. Row(i) = {i}
      BY <2>2, <2>3
    <2>5. Cardinality(Row(i)) = 1
      BY <2>4, FS_Singleton
    <2>. HIDE DEF Row
    <2>. QED BY <2>5
  <1>4. P \in SUBSET (1 .. Len(list))
    OBVIOUS
  <1>5. Without(list, u) = r
    BY DEF Without
  <1>. HIDE DEF P
  <1>6. c \in Nat /\ Len(r) = c
    BY <1>1, <1>4, PickedIs
  <1>7. PICK f : PickedBy(f, list, P)
    BY <1>1, <1>4, PickedIs
  <1>8. Numbers(f, P) /\ \A k \in 1 .. c : r[k] = list[f[k]]
    BY <1>7 DEF PickedBy
  <1>9. /\ \A k \in 1 .. c : f[k] \in P
        /\ \A k, l \in 1 .. c : f[k] = f[l] => k = l
    <2>1. Len(list) \in Nat /\ P \in SUBSET (1 .. Len(list)) /\ Numbers(f, P)
      BY <1>1, <1>4, <1>8
    <2>. HIDE DEF r
    <2>. QED BY <2>1, NumbersAre
  <1>10. \A i \in P : \E k \in 1 .. c : f[k] = i
    BY <1>8 DEF Numbers
  <1>. HIDE DEF r, c
  <1>11. ASSUME NEW v
         PROVE  /\ Once(list, v) => Once(r, v)
                /\ v # u => (Lists(r, v) <=> Lists(list, v))
                /\ v = u /\ Once(list, u) => ~Lists(r, v)
    <2>1. ASSUME Once(list, v)
          PROVE  Once(r, v)
      <3>1. \A k \in 1 .. c : f[k] \in 1 .. Len(list)
        BY <1>4, <1>9
      <3>2. \A k, l \in 1 .. c : r[k] = v /\ r[l] = v => f[k] = f[l]
        BY <1>8, <2>1, <3>1 DEF Once
      <3>. QED BY <1>6, <1>9, <3>2 DEF Once
    <2>2. ASSUME Lists(r, v)
          PROVE  Lists(list, v) /\ (Once(list, u) => v # u)
      <3>1. PICK k \in 1 .. c : r[k] = v
        BY <1>6, <2>2 DEF Lists
      <3>2. f[k] \in 1 .. Len(list) /\ f[k] \in P /\ list[f[k]] = v
        BY <1>4, <1>8, <1>9, <3>1
      <3>. QED BY <1>3, <3>2 DEF Lists
    <2>3. ASSUME Lists(list, v), v # u
          PROVE  Lists(r, v)
      <3>1. PICK i \in 1 .. Len(list) : list[i] = v
        BY <2>3 DEF Lists
      <3>2. i \in P
        BY <1>2, <2>3, <3>1
      <3>3. PICK k \in 1 .. c : f[k] = i
        BY <1>10, <3>2
      <3>. QED BY <1>6, <1>8, <3>1, <3>3 DEF Lists
    <2>. QED BY <2>1, <2>2, <2>3
  <1>. QED BY <1>5, <1>11

\* A user is added behind the others.
LEMMA AddedIs ==
  ASSUME NEW S, NEW list \in Seq(S), NEW u
  PROVE  \A v : /\ Once(list, v) /\ (v = u => ~Lists(list, u)) => Once(Append(list, u), v)
                /\ Lists(Append(list, u), v) <=> Lists(list, v) \/ v = u
  <1>. DEFINE x == Append(list, u)
              n == Len(list)
  <1>1. List(list) /\ n \in Nat
    BY SeqList
  <1>2. Len(x) = n + 1 /\ (\A i \in 1 .. n : x[i] = list[i]) /\ x[n + 1] = u
    BY <1>1, AppendList
  <1>. HIDE DEF x
  <1>3. ~Lists(list, u) => \A i \in 1 .. n : list[i] # u
    BY DEF Lists
  <1>. HIDE DEF n
  <1>4. /\ n + 1 \in 1 .. n + 1
        /\ \A i \in 1 .. n : i \in 1 .. n + 1
        /\ \A i \in 1 .. n + 1 : i \in 1 .. n \/ i = n + 1
    BY <1>1
  <1>5. ASSUME NEW v
        PROVE  /\ Once(list, v) /\ (v = u => ~Lists(list, u)) => Once(x, v)
               /\ Lists(x, v) <=> Lists(list, v) \/ v = u
    <2>1. Once(list, v) /\ (v = u => ~Lists(list, u)) => Once(x, v)
      BY <1>2, <1>3, <1>4 DEF Once, n
    <2>2. Lists(x, v) <=> Lists(list, v) \/ v = u
      BY <1>2, <1>4 DEF Lists, n
    <2>. QED BY <2>1, <2>2
  <1>. QED BY <1>5 DEF x

-----------------------------------------------------------------------------
(***************************************************************************)
(* The login reply in a queue.                                             *)
(***************************************************************************)

\* Notices and replies are personal, and a reply is no notice.
LEMMA PersonalIs ==
  ASSUME NEW m
  PROVE  /\ Reply(m) => Personal(m)
         /\ ~Personal(m) \/ Reply(m) => \A v : ~Ons(m, v) /\ ~Offs(m, v)
  BY DEF Personal, Reply, Ons, Offs

\* What a calm queue does not hold.
LEMMA CalmIs ==
  ASSUME NEW q, Calm(q)
  PROVE  NoReply(q) /\ \A v : Unsaid(q, v)
  BY PersonalIs DEF Calm, NoReply, Unsaid

\* The reply of a queue is held.
LEMMA FirstHeld ==
  ASSUME NEW q, NEW m, FirstIn(q, m)
  PROVE  m \in Held(q) /\ Reply(m)
  BY DEF FirstIn, FirstAt, Held

\* Messages that are no replies go behind it.
LEMMA FirstConcat ==
  ASSUME NEW q, List(q), NEW m, FirstIn(q, m), NEW r, List(r), NoReply(r)
  PROVE  FirstIn(q \o r, m)
  <1>. DEFINE x == q \o r
              n == Len(q)
              k == Len(r)
  <1>1. /\ n \in Nat /\ k \in Nat /\ Len(x) = n + k
        /\ \A i \in 1 .. n : i \in 1 .. n + k /\ x[i] = q[i]
        /\ \A i \in 1 .. n + k : \/ i \in 1 .. n /\ x[i] = q[i]
                                 \/ i - n \in 1 .. k /\ x[i] = r[i - n] /\ i > n
    BY ConcatAt
  <1>2. PICK p \in 1 .. n : FirstAt(p, q, m)
    BY DEF FirstIn
  <1>3. \A i \in 1 .. k : ~Reply(r[i])
    BY DEF NoReply, Held
  <1>. HIDE DEF x, n, k
  <1>4. /\ p \in 1 .. n + k /\ \A i \in 1 .. p - 1 : i \in 1 .. n
        /\ \A i \in p + 1 .. n + k : i \in 1 .. n + k /\ (i \in 1 .. n => i \in p + 1 .. n)
    BY <1>1
  <1>5. /\ q[p] = m /\ Reply(m) /\ \A i \in 1 .. p - 1 : ~Personal(q[i])
        /\ \A i \in p + 1 .. n : ~Reply(q[i])
    BY <1>2 DEF FirstAt, n
  <1>6. x[p] = m /\ \A i \in 1 .. p - 1 : ~Personal(x[i])
    BY <1>1, <1>4, <1>5
  <1>7. \A i \in p + 1 .. n + k : ~Reply(x[i])
    BY <1>1, <1>3, <1>4, <1>5
  <1>8. FirstAt(p, x, m)
    BY <1>1, <1>5, <1>6, <1>7 DEF FirstAt
  <1>9. FirstIn(x, m)
    BY <1>1, <1>4, <1>8 DEF FirstIn
  <1>. QED BY <1>9 DEF x

\* It goes behind messages that are not personal.
LEMMA FirstBehind ==
  ASSUME NEW q, List(q), Calm(q), NEW r, List(r), NEW m, FirstIn(r, m)
  PROVE  FirstIn(q \o r, m)
  <1>. DEFINE x == q \o r
              n == Len(q)
              k == Len(r)
  <1>1. /\ n \in Nat /\ k \in Nat /\ Len(x) = n + k
        /\ \A i \in 1 .. k : n + i \in 1 .. n + k /\ x[n + i] = r[i]
        /\ \A i \in 1 .. n + k : \/ i \in 1 .. n /\ x[i] = q[i]
                                 \/ i - n \in 1 .. k /\ x[i] = r[i - n] /\ i > n
    BY ConcatAt
  <1>2. PICK p \in 1 .. k : FirstAt(p, r, m)
    BY DEF FirstIn
  <1>3. \A i \in 1 .. n : ~Personal(q[i])
    BY DEF Calm, Held
  <1>. HIDE DEF x, n, k
  <1>4. /\ n + p \in 1 .. n + k
        /\ \A i \in 1 .. n + p - 1 : i \in 1 .. n + k /\ (i - n \in 1 .. k => i - n \in 1 .. p - 1)
        /\ \A i \in n + p + 1 .. n + k : i \in 1 .. n + k /\ i \notin 1 .. n /\ i - n \in p + 1 .. k
    BY <1>1
  <1>5. /\ r[p] = m /\ Reply(m) /\ \A i \in 1 .. p - 1 : ~Personal(r[i])
        /\ \A i \in p + 1 .. k : ~Reply(r[i])
    BY <1>2 DEF FirstAt, k
  <1>6. x[n + p] = m
    BY <1>1, <1>5
  <1>7. \A i \in 1 .. n + p - 1 : ~Personal(x[i])
    BY <1>1, <1>3, <1>4, <1>5
  <1>8. \A i \in n + p + 1 .. n + k : ~Reply(x[i])
    BY <1>1, <1>4, <1>5
  <1>9. FirstAt(n + p, x, m)
    BY <1>1, <1>5, <1>6, <1>7, <1>8 DEF FirstAt
  <1>10. FirstIn(x, m)
    BY <1>1, <1>4, <1>9 DEF FirstIn
  <1>. QED BY <1>10 DEF x

\* It is the only message.
LEMMA FirstOne ==
  ASSUME NEW m, Reply(m)
  PROVE  FirstIn(<<m>>, m)
  <1>. DEFINE o == <<m>>
  <1>1. Len(o) = 1 /\ o[1] = m /\ 1 \in 1 .. 1 /\ 1 .. 1 - 1 = {} /\ 1 + 1 .. 1 = {}
    BY OneList
  <1>. HIDE DEF o
  <1>2. FirstAt(1, o, m)
    BY <1>1 DEF FirstAt
  <1>3. FirstIn(o, m)
    BY <1>1, <1>2 DEF FirstIn
  <1>. QED BY <1>3 DEF o

\* The message at the head is taken.
LEMMA FirstTail ==
  ASSUME NEW q, List(q), q # <<>>, NEW m, FirstIn(q, m)
  PROVE  \/ ~Personal(q[1]) /\ FirstIn(Tail(q), m)
         \/ q[1] = m /\ NoReply(Tail(q))
  <1>. DEFINE x == Tail(q)
              n == Len(q)
  <1>1. /\ n \in Nat /\ Len(x) = n - 1 /\ n >= 1
        /\ \A i \in 1 .. n - 1 : x[i] = q[i + 1]
    BY ListLen, TailList
  <1>2. PICK p \in 1 .. n : FirstAt(p, q, m)
    BY DEF FirstIn
  <1>3. /\ q[p] = m /\ Reply(m) /\ \A i \in 1 .. p - 1 : ~Personal(q[i])
        /\ \A i \in p + 1 .. n : ~Reply(q[i])
    BY <1>2 DEF FirstAt
  <1>. HIDE DEF x, n
  <1>4. CASE p = 1
    <2>1. \A i \in 1 .. n - 1 : i + 1 \in p + 1 .. n
      BY <1>1, <1>4
    <2>2. NoReply(x)
      BY <1>1, <1>3, <2>1 DEF NoReply, Held
    <2>. QED BY <1>3, <1>4, <2>2 DEF x
  <1>5. CASE p # 1
    <2>1. /\ p - 1 \in 1 .. n - 1 /\ p - 1 + 1 = p /\ 1 \in 1 .. p - 1
          /\ \A i \in 1 .. p - 1 - 1 : i + 1 \in 1 .. p - 1 /\ i \in 1 .. n - 1
          /\ \A i \in p - 1 + 1 .. n - 1 : i + 1 \in p + 1 .. n /\ i \in 1 .. n - 1
      BY <1>1, <1>5
    <2>2. x[p - 1] = m
      BY <1>1, <1>3, <2>1
    <2>3. \A i \in 1 .. p - 1 - 1 : ~Personal(x[i])
      BY <1>1, <1>3, <2>1
    <2>4. \A i \in p - 1 + 1 .. n - 1 : ~Reply(x[i])
      BY <1>1, <1>3, <2>1
    <2>5. FirstAt(p - 1, x, m)
      BY <1>1, <1>3, <2>2, <2>3, <2>4 DEF FirstAt
    <2>6. FirstIn(x, m)
      BY <1>1, <2>1, <2>5 DEF FirstIn
    <2>. QED BY <1>3, <2>1, <2>6 DEF x
  <1>. QED BY <1>4, <1>5

\* The first n messages are taken, and end before the reply or with it.
LEMMA FirstCut ==
  ASSUME NEW q, List(q), NEW m, NEW p \in 1 .. Len(q), FirstAt(p, q, m), NEW n \in 0 .. Len(q)
  PROVE  /\ n < p => FirstIn(Behind(q, n), m) /\ \A v : UnsaidTo(q, n, v)
         /\ n = p => NoReply(Behind(q, n)) /\ \A v : UnsaidTo(q, n, v)
  <1>. DEFINE x == Behind(q, n)
              l == Len(q)
  <1>1. Len(x) = l - n /\ \A i \in 1 .. l - n : x[i] = q[n + i]
    BY CutList DEF Behind
  <1>2. l \in Nat
    BY ListLen
  <1>3. /\ q[p] = m /\ Reply(m) /\ \A i \in 1 .. p - 1 : ~Personal(q[i])
        /\ \A i \in p + 1 .. l : ~Reply(q[i])
    BY DEF FirstAt
  <1>. HIDE DEF x
  <1>4. p \in 1 .. l /\ n \in 0 .. l
    OBVIOUS
  <1>. HIDE DEF l
  <1>5. ASSUME n < p
        PROVE  FirstIn(x, m) /\ \A v : UnsaidTo(q, n, v)
    <2>1. /\ p - n \in 1 .. l - n /\ n + (p - n) = p
          /\ \A i \in 1 .. p - n - 1 : n + i \in 1 .. p - 1 /\ i \in 1 .. l - n
          /\ \A i \in p - n + 1 .. l - n : n + i \in p + 1 .. l /\ i \in 1 .. l - n
          /\ \A i \in 1 .. n : i \in 1 .. p - 1
      BY <1>2, <1>4, <1>5
    <2>2. x[p - n] = m
      BY <1>1, <1>3, <2>1
    <2>3. \A i \in 1 .. p - n - 1 : ~Personal(x[i])
      BY <1>1, <1>3, <2>1
    <2>4. \A i \in p - n + 1 .. l - n : ~Reply(x[i])
      BY <1>1, <1>3, <2>1
    <2>5. FirstAt(p - n, x, m)
      BY <1>1, <1>3, <2>2, <2>3, <2>4 DEF FirstAt
    <2>6. FirstIn(x, m)
      BY <1>1, <2>1, <2>5 DEF FirstIn
    <2>7. \A i \in 1 .. n : ~Personal(q[i])
      BY <1>3, <2>1
    <2>. QED BY <2>6, <2>7, PersonalIs DEF UnsaidTo
  <1>6. ASSUME n = p
        PROVE  NoReply(x) /\ \A v : UnsaidTo(q, n, v)
    <2>1. /\ \A i \in 1 .. l - n : n + i \in p + 1 .. l
          /\ \A i \in 1 .. n : i \in 1 .. p - 1 \/ i = p
      BY <1>2, <1>4, <1>6
    <2>2. NoReply(x)
      BY <1>1, <1>3, <2>1 DEF NoReply, Held
    <2>3. \A i \in 1 .. n : ~Personal(q[i]) \/ Reply(q[i])
      BY <1>3, <2>1
    <2>. QED BY <2>2, <2>3, PersonalIs DEF UnsaidTo
  <1>. QED BY <1>5, <1>6 DEF x

-----------------------------------------------------------------------------
(***************************************************************************)
(* What a window is given.                                                 *)
(***************************************************************************)

\* The reply is in one of the queues.
LEMMA PlacedHeld ==
  ASSUME NEW m, NEW q, NEW r, Placed(m, q, r)
  PROVE  m \in Held(q) \cup Held(r) /\ Reply(m)
  BY FirstHeld DEF Placed

\* The queues q2 and r2 bring a window what q and r brought it, and the news that us2
\* are online instead of us.
Keeps(q, r, us, q2, r2, us2) ==
    /\ \A m : Placed(m, q, r) => Placed(m, q2, r2)
    /\ NoReply(q) /\ NoReply(r) => NoReply(q2) /\ NoReply(r2)
    /\ \A list : Informed(list, q, r, us) => Informed(list, q2, r2, us2)

\* A window that has its list or is about to get it still has it or is about to.
LEMMA SettledKept ==
  ASSUME NEW w, NEW h, NEW list, NEW q, NEW r, NEW u, NEW us, Settled(w, h, list, q, r, u, us),
         NEW q2, NEW r2, NEW us2, Keeps(q, r, us, q2, r2, us2)
  PROVE  Settled(w, h, list, q2, r2, u, us2)
  <1>1. CASE w = "main" /\ h = u /\ Main(list, q, r, us)
    <2>1. Main(list, q2, r2, us2)
      BY <1>1 DEF Main, Keeps
    <2>. QED BY <1>1, <2>1 DEF Settled
  <1>2. CASE w = "login" /\ \E m \in Held(q) \cup Held(r) : Opening(m, q, r, us) /\ m.id = u
    <2>1. PICK m : Opening(m, q, r, us) /\ m.id = u
      BY <1>2
    <2>2. Placed(m, q2, r2) /\ Informed(m.friends, q2, r2, us2)
      BY <2>1 DEF Opening, Keeps
    <2>3. m \in Held(q2) \cup Held(r2)
      BY <2>2, PlacedHeld
    <2>. QED BY <1>2, <2>1, <2>2, <2>3 DEF Settled, Opening
  <1>. QED BY <1>1, <1>2 DEF Settled

\* Nothing happens.
LEMMA KeepsSame ==
  ASSUME NEW q, NEW r, NEW us
  PROVE  Keeps(q, r, us, q, r, us)
  BY DEF Keeps

\* Two things happen.
LEMMA KeepsBoth ==
  ASSUME NEW q, NEW r, NEW us, NEW q2, NEW r2, NEW us2, NEW q3, NEW r3, NEW us3,
         Keeps(q, r, us, q2, r2, us2), Keeps(q2, r2, us2, q3, r3, us3)
  PROVE  Keeps(q, r, us, q3, r3, us3)
  BY DEF Keeps

\* A notice is pushed.
LEMMA KeepsPush ==
  ASSUME NEW q, NEW r, List(r), NEW us, NEW m, ~Reply(m),
         \A v \in User : ~(Ons(m, v) /\ v \in us),
         NEW us2, \A v \in User : v \in us2 <=> Ons(m, v) \/ (v \in us /\ ~Offs(m, v))
  PROVE  Keeps(q, r, us, q, Append(r, m), us2)
  <1>. DEFINE x == Append(r, m)
  <1>1. r \o <<m>> = x /\ List(<<m>>) /\ NoReply(<<m>>)
    BY HeldOne, OneList DEF NoReply, List
  <1>2. ASSUME NoReply(r)
        PROVE  NoReply(x)
    BY <1>2, HeldAppend DEF NoReply
  <1>3. \A n : FirstIn(r, n) => FirstIn(x, n)
    BY <1>1, FirstConcat
  <1>4. \A n : Placed(n, q, r) => Placed(n, q, x)
    BY <1>2, <1>3 DEF Placed
  <1>5. ASSUME NEW list, Informed(list, q, r, us)
        PROVE  Informed(list, q, x, us2)
    <2>1. \A v \in User : Once(list, v) /\ Led(list, q, r, v, us)
      BY <1>5, InformedLed
    <2>2. \A v \in User : Led(list, q, x, v, us2)
      BY <2>1, LedPush
    <2>. QED BY <2>1, <2>2, InformedLed
  <1>. QED BY <1>2, <1>4, <1>5 DEF Keeps

\* Messages are pushed that are neither notices nor replies.
LEMMA KeepsQuiet ==
  ASSUME NEW q, NEW r, List(r), NEW us, NEW y, List(y), NoReply(y), \A v \in User : Unsaid(y, v)
  PROVE  Keeps(q, r, us, q, r \o y, us)
  <1>. DEFINE x == r \o y
  <1>2. ASSUME NoReply(r)
        PROVE  NoReply(x)
    BY <1>2, HeldConcat DEF NoReply
  <1>3. \A n : FirstIn(r, n) => FirstIn(x, n)
    BY FirstConcat
  <1>4. \A n : Placed(n, q, r) => Placed(n, q, x)
    BY <1>2, <1>3 DEF Placed
  <1>5. ASSUME NEW list, Informed(list, q, r, us)
        PROVE  Informed(list, q, x, us)
    <2>1. \A v \in User : Once(list, v) /\ Led(list, q, r, v, us)
      BY <1>5, InformedLed
    <2>2. \A v \in User : Led(list, q, x, v, us)
      BY <2>1, LedQuiet
    <2>. QED BY <2>1, <2>2, InformedLed
  <1>. QED BY <1>2, <1>4, <1>5 DEF Keeps

\* The worker writes the head of its queue to the socket.
LEMMA KeepsMove ==
  ASSUME NEW q, List(q), NEW r, List(r), r # <<>>, NEW us
  PROVE  Keeps(q, r, us, Append(q, r[1]), Tail(r), us)
  <1>. DEFINE m == r[1]
              x == Append(q, m)
              y == Tail(r)
  <1>1. List(<<m>>) /\ q \o <<m>> = x
    BY OneList DEF List
  <1>2. Held(<<m>>) = {m} /\ Held(x) = Held(q) \cup {m}
    BY HeldOne, HeldAppend
  <1>3. m \in Held(r) /\ Held(y) \subseteq Held(r)
    BY HeldTail
  <1>4. List(y)
    BY TailList
  <1>5. \A n : FirstIn(r, n) => (~Personal(m) /\ FirstIn(y, n)) \/ (m = n /\ NoReply(y))
    BY FirstTail
  <1>. HIDE DEF m, y
  <1>6. ~Reply(m) => NoReply(<<m>>)
    BY <1>2 DEF NoReply
  <1>7. ~Reply(m) => \A n : FirstIn(q, n) => FirstIn(x, n)
    BY <1>1, <1>6, FirstConcat
  <1>8. ASSUME Calm(q), Reply(m)
        PROVE  FirstIn(x, m)
    <2>. DEFINE o == <<m>>
    <2>1. FirstIn(o, m)
      BY <1>8, FirstOne
    <2>2. List(o)
      BY <1>1
    <2>3. q \o o = x
      BY <1>1
    <2>. HIDE DEF o, x
    <2>4. FirstIn(q \o o, m)
      BY <1>8, <2>1, <2>2, FirstBehind
    <2>. QED BY <2>3, <2>4
  <1>. HIDE DEF x
  <1>9. ASSUME NEW n, Placed(n, q, r)
        PROVE  Placed(n, x, y)
    <2>1. CASE FirstIn(q, n) /\ NoReply(r)
      <3>1. ~Reply(m) /\ NoReply(y)
        BY <1>3, <2>1 DEF NoReply
      <3>. QED BY <1>7, <2>1, <3>1 DEF Placed
    <2>2. CASE Calm(q) /\ FirstIn(r, n) /\ ~Personal(m) /\ FirstIn(y, n)
      <3>1. Calm(x)
        BY <1>2, <2>2 DEF Calm
      <3>. QED BY <2>2, <3>1 DEF Placed
    <2>3. CASE Calm(q) /\ FirstIn(r, n) /\ m = n /\ NoReply(y)
      <3>1. Reply(m)
        BY <2>3, FirstHeld
      <3>. QED BY <1>8, <2>3, <3>1 DEF Placed
    <2>. QED BY <1>5, <1>9, <2>1, <2>2, <2>3 DEF Placed
  <1>10. NoReply(q) /\ NoReply(r) => NoReply(x) /\ NoReply(y)
    BY <1>2, <1>3 DEF NoReply
  <1>11. ASSUME NEW list, Informed(list, q, r, us)
        PROVE  Informed(list, x, y, us)
    <2>1. \A v \in User : Once(list, v) /\ Led(list, q, r, v, us)
      BY <1>11, InformedLed
    <2>2. \A v \in User : Led(list, x, y, v, us)
      BY <2>1, LedMove DEF x, y, m
    <2>. QED BY <2>1, <2>2, InformedLed
  <1>. QED BY <1>9, <1>10, <1>11 DEF Keeps, x, y, m

\* It takes a message out that is not personal.
LEMMA KeepsDrop ==
  ASSUME NEW q, NEW r, List(r), r # <<>>, ~Personal(r[1]), NEW us
  PROVE  Keeps(q, r, us, q, Tail(r), us)
  <1>. DEFINE y == Tail(r)
  <1>1. Held(y) \subseteq Held(r)
    BY HeldTail
  <1>2. \A n : FirstIn(r, n) => FirstIn(y, n)
    BY FirstTail, FirstHeld, PersonalIs
  <1>. HIDE DEF y
  <1>3. \A n : Placed(n, q, r) => Placed(n, q, y)
    BY <1>1, <1>2 DEF Placed, NoReply
  <1>4. NoReply(r) => NoReply(y)
    BY <1>1 DEF NoReply
  <1>5. ASSUME NEW list, Informed(list, q, r, us)
        PROVE  Informed(list, q, y, us)
    <2>1. \A v \in User : Once(list, v) /\ Led(list, q, r, v, us)
      BY <1>5, InformedLed
    <2>2. \A v \in User : Led(list, q, y, v, us)
      BY <2>1, LedDrop, PersonalIs DEF y
    <2>. QED BY <2>1, <2>2, InformedLed
  <1>. QED BY <1>3, <1>4, <1>5 DEF Keeps, y

\* It writes a message that is not personal.
LEMMA KeepsAnswer ==
  ASSUME NEW q, List(q), NEW r, NEW us, NEW m, ~Personal(m)
  PROVE  Keeps(q, r, us, Append(q, m), r, us)
  <1>. DEFINE x == Append(q, m)
  <1>1. List(<<m>>) /\ q \o <<m>> = x
    BY OneList DEF List
  <1>2. Held(<<m>>) = {m} /\ Held(x) = Held(q) \cup {m}
    BY HeldOne, HeldAppend
  <1>3. ~Reply(m)
    BY PersonalIs
  <1>4. NoReply(<<m>>)
    BY <1>2, <1>3 DEF NoReply
  <1>5. \A n : FirstIn(q, n) => FirstIn(x, n)
    BY <1>1, <1>4, FirstConcat
  <1>. HIDE DEF x
  <1>6. Calm(q) => Calm(x)
    BY <1>2 DEF Calm
  <1>7. \A n : Placed(n, q, r) => Placed(n, x, r)
    BY <1>5, <1>6 DEF Placed
  <1>8. NoReply(q) => NoReply(x)
    BY <1>2, <1>3 DEF NoReply
  <1>9. ASSUME NEW list, Informed(list, q, r, us)
        PROVE  Informed(list, x, r, us)
    <2>1. \A v \in User : Once(list, v) /\ Led(list, q, r, v, us)
      BY <1>9, InformedLed
    <2>2. \A v \in User : Led(list, x, r, v, us)
      BY <2>1, LedAnswer, PersonalIs DEF x
    <2>. QED BY <2>1, <2>2, InformedLed
  <1>. QED BY <1>7, <1>8, <1>9 DEF Keeps, x

-----------------------------------------------------------------------------
(***************************************************************************)
(* The lists of those online, step by step.                                *)
(***************************************************************************)

\* The window of t, and what its server has been told of it, are as before.
SameWindow(t) == UNCHANGED <<peer[t], win[t], host[t], friends[t], missed[t]>>
KeptFor(t, u) == Keeps(out[t], msgQueue[t], Online \ {u}, out'[t], msgQueue'[t], Online \ {u})

\* Nobody comes or goes, and those online are brought what they were brought.
LEMMA FriendsKept ==
  ASSUME FriendsInv, UNCHANGED usersOnline, NoneMissed',
         \A u \in User, t \in Thread : usersOnline[u] = t /\ peer'[t] => SameWindow(t) /\ KeptFor(t, u)
  PROVE  FriendsInv'
  <1>1. Online' = Online
    BY DEF Online
  <1>2. ASSUME NEW u \in User, NEW t \in Thread, usersOnline[u] = t, peer'[t], ~missed'[t]
        PROVE  Settled(win'[t], host'[t], friends'[t], out'[t], msgQueue'[t], u, Online \ {u})
    <2>1. SameWindow(t) /\ KeptFor(t, u)
      BY <1>2
    <2>2. Settled(win[t], host[t], friends[t], out[t], msgQueue[t], u, Online \ {u})
      BY <1>2, <2>1 DEF FriendsInv, SameWindow
    <2>3. Settled(win[t], host[t], friends[t], out'[t], msgQueue'[t], u, Online \ {u})
      BY <2>1, <2>2, SettledKept DEF KeptFor
    <2>. QED BY <2>1, <2>3 DEF SameWindow
  <1>. QED BY <1>1, <1>2 DEF FriendsInv

\* The queues of a thread stay.
LEMMA KeptSame ==
  ASSUME NEW t \in Thread, out'[t] = out[t], msgQueue'[t] = msgQueue[t]
  PROVE  \A u : KeptFor(t, u)
  BY KeepsSame DEF KeptFor

\* A step that is none of the server's and concerns nobody online.
LEMMA FriendsSame ==
  ASSUME FriendsInv, UNCHANGED <<usersOnline, out, msgQueue, worker, peer, win, host, friends, missed>>
  PROVE  FriendsInv'
  <1>1. NoneMissed'
    BY DEF FriendsInv, NoneMissed
  <1>2. \A u \in User, t \in Thread : SameWindow(t) /\ KeptFor(t, u)
    BY KeptSame DEF SameWindow
  <1>. QED BY <1>1, <1>2, FriendsKept

\* ReadFrames: what clients send is nothing personal.
LEMMA FriendsReadFrames ==
  ASSUME Shape, FriendsInv, NEW t \in Thread, ReadFrames(t), UNCHANGED clientVars
  PROVE  FriendsInv'
  <1>1. /\ msgQueue' = [msgQueue EXCEPT ![t] = msgQueue[t] \o inbox[t]]
        /\ UNCHANGED <<worker, peer, out, usersOnline, win, host, friends, missed>>
    BY DEF ReadFrames, guiVars, clientVars
  <1>2. /\ msgQueue'[t] = msgQueue[t] \o inbox[t]
        /\ \A s \in Thread : s # t => msgQueue'[s] = msgQueue[s]
    BY <1>1 DEF Shape, ServerShape
  <1>3. List(inbox[t]) /\ NoReply(inbox[t]) /\ \A v : Unsaid(inbox[t], v)
    <2>1. Calm(inbox[t])
      BY HeldFrames DEF Shape, ServerShape
    <2>. QED BY <2>1, CalmIs, QueueLists
  <1>4. List(msgQueue[t])
    BY QueueLists
  <1>5. \A u \in User : KeptFor(t, u)
    <2>. DEFINE r == msgQueue[t]
                y == inbox[t]
    <2>1. List(r) /\ List(y) /\ NoReply(y) /\ \A v \in User : Unsaid(y, v)
      BY <1>3, <1>4
    <2>. HIDE DEF r, y
    <2>2. \A us : Keeps(out[t], r, us, out[t], r \o y, us)
      BY <2>1, KeepsQuiet
    <2>. QED BY <1>1, <1>2, <2>2 DEF KeptFor, r, y
  <1>6. \A u \in User, s \in Thread : SameWindow(s) /\ KeptFor(s, u)
    BY <1>1, <1>2, <1>5, KeptSame DEF SameWindow
  <1>7. NoneMissed'
    BY <1>1 DEF FriendsInv, NoneMissed
  <1>. QED BY <1>1, <1>6, <1>7, FriendsKept

\* Deal: notices and the reply go to the socket in the order of the queue.
LEMMA FriendsDeal ==
  ASSUME Shape, LoginInv, FriendsInv, NEW t \in Thread, Deal(t), UNCHANGED clientVars
  PROVE  FriendsInv'
  <1>. DEFINE m == msgQueue[t][1]
  <1>1. /\ msgQueue[t] # <<>> /\ Sane(m)
        /\ msgQueue' = [msgQueue EXCEPT ![t] = Tail(msgQueue[t])]
        /\ UNCHANGED <<worker, peer, usersOnline, win, host, friends, missed>>
    BY DealIs DEF clientVars
  <1>2. /\ msgQueue'[t] = Tail(msgQueue[t])
        /\ \A s \in Thread : s # t => msgQueue'[s] = msgQueue[s]
    BY <1>1 DEF Shape, ServerShape
  <1>3. List(msgQueue[t]) /\ List(out[t])
    BY QueueLists
  <1>4. Frame(m) => ~Personal(m)
    BY DEF Frame, Personal, Requests
  <1>5. ASSUME NEW u \in User, usersOnline[u] = t
        PROVE  ~Rightly(m)
    <2>1. ASSUME Rightly(m)
          PROVE  FALSE
      <3>1. Pending(t)
        BY <1>1, <1>3, <2>1, RightTail DEF Pending
      <3>. QED BY <1>5, <3>1, PendingEarly, EarlyOff
    <2>. QED BY <2>1
  <1>6. ASSUME NEW u \in User, usersOnline[u] = t, peer[t]
        PROVE  KeptFor(t, u)
    <2>. DEFINE us == Online \ {u}
    <2>1. ASSUME ~Personal(m)
          PROVE  Keeps(out[t], msgQueue[t], us, out[t], msgQueue'[t], us)
      BY <1>1, <1>2, <1>3, <2>1, KeepsDrop
    <2>. HIDE DEF us
    <2>2. CASE m.type \in Requests /\ UNCHANGED out
      <3>1. ~Personal(m)
        BY <1>4, <2>2 DEF Frame
      <3>. QED BY <2>1, <2>2, <3>1 DEF KeptFor, us
    <2>3. ASSUME Frame(m), NEW n, Sane(n), ~Frame(n), ~Personal(n), out' = Written(t, n)
          PROVE  KeptFor(t, u)
      <3>1. out'[t] = Append(out[t], n)
        BY <1>6, <2>3, WrittenIs
      <3>2. Keeps(out[t], msgQueue'[t], us, Append(out[t], n), msgQueue'[t], us)
        BY <1>3, <2>3, KeepsAnswer
      <3>3. Keeps(out[t], msgQueue[t], us, Append(out[t], n), msgQueue'[t], us)
        BY <1>4, <2>1, <2>3, <3>2, KeepsBoth
      <3>. QED BY <3>1, <3>3 DEF KeptFor, us
    <2>4. CASE out' = Written(t, m) /\ ~Frame(m)
      <3>1. out'[t] = Append(out[t], m)
        BY <1>1, <1>6, <2>4, WrittenIs
      <3>2. Keeps(out[t], msgQueue[t], us, Append(out[t], m), Tail(msgQueue[t]), us)
        BY <1>1, <1>3, KeepsMove
      <3>. QED BY <1>2, <3>1, <3>2 DEF KeptFor, us
    <2>. QED BY <1>5, <1>6, <2>2, <2>3, <2>4, DealIs
  <1>7. \A s \in Thread : s # t => out'[s] = out[s]
    BY DealIs, WrittenIs
  <1>8. \A u \in User, s \in Thread : usersOnline[u] = s /\ peer'[s] => SameWindow(s) /\ KeptFor(s, u)
    BY <1>1, <1>2, <1>6, <1>7, KeptSame DEF SameWindow
  <1>9. NoneMissed'
    BY <1>1 DEF FriendsInv, NoneMissed
  <1>. QED BY <1>1, <1>8, <1>9, FriendsKept

\* Ends: the window of that thread is no longer connected.
LEMMA FriendsEnds ==
  ASSUME Shape, FriendsInv, NEW t \in Thread, Ends(t), UNCHANGED clientVars
  PROVE  FriendsInv'
  <1>1. /\ ~peer[t] /\ worker[t] = "running" /\ worker' = [worker EXCEPT ![t] = "ended"]
        /\ msgQueue' = [msgQueue EXCEPT ![t] = <<>>]
        /\ UNCHANGED <<peer, out, usersOnline, win, host, friends, missed>>
    BY EndsIs DEF clientVars
  <1>2. \A s \in Thread : s # t => msgQueue'[s] = msgQueue[s] /\ worker'[s] = worker[s]
    BY <1>1 DEF Shape, ServerShape
  <1>3. worker'[t] = "ended"
    BY <1>1 DEF Shape, ServerShape
  <1>4. NoneMissed'
    BY <1>1, <1>2, <1>3 DEF FriendsInv, NoneMissed
  <1>5. \A u \in User, s \in Thread : usersOnline[u] = s /\ peer'[s] => SameWindow(s) /\ KeptFor(s, u)
    BY <1>1, <1>2, KeptSame DEF SameWindow
  <1>. QED BY <1>1, <1>4, <1>5, FriendsKept

\* Connections that start, and windows that lose theirs or come back on another one.
LEMMA FriendsConnections ==
  ASSUME Shape, LoginInv, FriendsInv, NEW t \in Thread,
         \/ MainCrashes(t)
         \/ \E w \in {"login", "main", "closed"} : Break(t, w)
         \/ Start(t)
         \/ \E s \in Thread : Reconnect(t, s)
  PROVE  FriendsInv'
  <1>1. CASE MainCrashes(t) \/ \E w \in {"login", "main", "closed"} : Break(t, w)
    <2>1. /\ UNCHANGED <<worker, msgQueue, usersOnline, host, friends, missed>>
          /\ out' = [out EXCEPT ![t] = <<>>] /\ peer' = [peer EXCEPT ![t] = FALSE]
          /\ \E w \in {win[t], "closed", "crashed"} : win' = [win EXCEPT ![t] = w]
      BY <1>1 DEF MainCrashes, Break, guiVars
    <2>2. /\ \A s \in Thread : s # t => out'[s] = out[s]
          /\ ~peer'[t] /\ \A s \in Thread : s # t => peer'[s] = peer[s] /\ win'[s] = win[s]
          /\ win'[t] = "login" => win[t] = "login"
      BY <2>1 DEF Shape, ServerShape, ClientShape
    <2>3. NoneMissed'
      BY <2>1, <2>2 DEF FriendsInv, NoneMissed
    <2>4. \A u \in User, s \in Thread : usersOnline[u] = s /\ peer'[s] => SameWindow(s) /\ KeptFor(s, u)
      BY <2>1, <2>2, KeptSame DEF SameWindow
    <2>. QED BY <2>1, <2>3, <2>4, FriendsKept
  <1>2. CASE Start(t)
    <2>1. /\ worker[t] = "none" /\ worker' = [worker EXCEPT ![t] = "running"]
          /\ UNCHANGED <<msgQueue, usersOnline, out, host, friends, missed>>
          /\ peer' = [peer EXCEPT ![t] = TRUE] /\ win' = [win EXCEPT ![t] = "login"]
      BY <1>2 DEF Start, NewConnection, guiVars
    <2>2. \A s \in Thread : s # t => peer'[s] = peer[s] /\ win'[s] = win[s] /\ worker'[s] = worker[s]
      BY <2>1 DEF Shape, ServerShape, ClientShape
    <2>3. \A v \in User : usersOnline[v] # t
      BY <2>1, NothingYet
    <2>4. NoneMissed'
      BY <2>1, <2>2 DEF FriendsInv, NoneMissed
    <2>5. \A u \in User, s \in Thread : usersOnline[u] = s /\ peer'[s] => SameWindow(s) /\ KeptFor(s, u)
      BY <2>1, <2>2, <2>3, KeptSame DEF SameWindow
    <2>. QED BY <2>1, <2>4, <2>5, FriendsKept
  <1>3. ASSUME NEW s \in Thread, Reconnect(t, s)
        PROVE  FriendsInv'
    <2>1. /\ worker[s] = "none" /\ ~peer[t] /\ peer' = [peer EXCEPT ![s] = TRUE] /\ s # t
          /\ UNCHANGED <<msgQueue, out, usersOnline, missed>>
          /\ IsMoved(win, win', t, s, "none") /\ IsMoved(host, host', t, s, Nobody)
          /\ IsMoved(friends, friends', t, s, <<>>)
          /\ worker' = [worker EXCEPT ![s] = "running"] /\ worker[t] # "none"
      BY <1>3, ReconnectIs
    <2>2. /\ \A r \in Thread : r # s => peer'[r] = peer[r] /\ worker'[r] = worker[r]
          /\ \A r \in Thread : r # t /\ r # s => win'[r] = win[r] /\ host'[r] = host[r] /\ friends'[r] = friends[r]
          /\ win'[t] = "none"
      BY <2>1 DEF Shape, ServerShape, IsMoved
    <2>3. \A v \in User : usersOnline[v] # s
      BY <2>1, NothingYet
    <2>4. ~missed[s]
      BY <2>1 DEF FriendsInv, NoneMissed
    <2>5. worker'[t] # "none"
      BY <2>1, <2>2
    <2>6. NoneMissed'
      BY <2>1, <2>2, <2>4, <2>5 DEF FriendsInv, NoneMissed
    <2>7. \A u \in User, r \in Thread : usersOnline[u] = r /\ peer'[r] => SameWindow(r) /\ KeptFor(r, u)
      BY <2>1, <2>2, <2>3, KeptSame DEF SameWindow
    <2>. QED BY <2>1, <2>6, <2>7, FriendsKept
  <1>. QED BY <1>1, <1>2, <1>3

\* The login dialog reads n frames that come before the reply, or end with it.
LEMMA OpeningCut ==
  ASSUME NEW q, List(q), NEW r, NEW us, NEW m, Opening(m, q, r, us), NEW n \in 1 .. Len(q)
  PROVE  /\ (\A i \in 1 .. n : ~Reply(q[i])) => Opening(m, Behind(q, n), r, us)
         /\ Reply(q[n]) => q[n] = m /\ Main(m.friends, Behind(q, n), r, us)
  <1>. DEFINE x == Behind(q, n)
  <1>1. Len(q) \in Nat /\ n \in 0 .. Len(q) /\ n \in 1 .. n
    BY ListLen
  <1>2. Placed(m, q, r) /\ Informed(m.friends, q, r, us)
    BY DEF Opening
  <1>3. ASSUME \A v : UnsaidTo(q, n, v)
        PROVE  Informed(m.friends, x, r, us)
    <2>. DEFINE list == m.friends
    <2>1. Informed(list, q, r, us)
      BY <1>2
    <2>. HIDE DEF list
    <2>2. \A v \in User : Once(list, v) /\ Led(list, q, r, v, us)
      BY <2>1, InformedLed
    <2>3. \A v \in User : Led(list, x, r, v, us)
      BY <1>1, <1>3, <2>2, LedCut
    <2>4. Informed(list, x, r, us)
      BY <2>2, <2>3, InformedLed
    <2>. QED BY <2>4 DEF list
  <1>4. CASE FirstIn(q, m) /\ NoReply(r)
    <2>1. PICK p \in 1 .. Len(q) : FirstAt(p, q, m)
      BY <1>4 DEF FirstIn
    <2>2. /\ q[p] = m /\ Reply(m) /\ \A i \in 1 .. p - 1 : ~Personal(q[i])
          /\ \A i \in p + 1 .. Len(q) : ~Reply(q[i])
      BY <2>1 DEF FirstAt
    <2>3. /\ n < p => FirstIn(x, m) /\ \A v : UnsaidTo(q, n, v)
          /\ n = p => NoReply(x) /\ \A v : UnsaidTo(q, n, v)
      BY <1>1, <2>1, FirstCut
    <2>4. ASSUME \A i \in 1 .. n : ~Reply(q[i])
          PROVE  Opening(m, x, r, us)
      <3>1. p \notin 1 .. n
        BY <2>2, <2>4
      <3>2. n < p
        BY <1>1, <3>1
      <3>. HIDE DEF x
      <3>. QED BY <1>3, <1>4, <2>3, <3>2 DEF Opening, Placed
    <2>5. ASSUME Reply(q[n])
          PROVE  q[n] = m /\ Main(m.friends, x, r, us)
      <3>1. n \notin 1 .. p - 1
        BY <2>2, <2>5, PersonalIs
      <3>2. n \notin p + 1 .. Len(q)
        BY <2>2, <2>5
      <3>3. n = p
        BY <1>1, <3>1, <3>2
      <3>. HIDE DEF x
      <3>. QED BY <1>3, <1>4, <2>2, <2>3, <3>3 DEF Main
    <2>. QED BY <2>4, <2>5
  <1>5. CASE Calm(q) /\ FirstIn(r, m)
    <2>1. \A i \in 1 .. Len(q) : ~Personal(q[i])
      BY <1>5 DEF Calm, Held
    <2>2. \A i \in 1 .. n : i \in 1 .. Len(q)
      BY <1>1
    <2>3. \A v : UnsaidTo(q, n, v)
      BY <2>1, <2>2, PersonalIs DEF UnsaidTo
    <2>4. Held(x) \subseteq Held(q)
      BY <1>1, HeldCut DEF Behind
    <2>5. Calm(x)
      BY <1>5, <2>4 DEF Calm
    <2>6. ~Reply(q[n])
      BY <2>1, PersonalIs
    <2>. HIDE DEF x
    <2>. QED BY <1>3, <1>5, <2>3, <2>5, <2>6 DEF Opening, Placed, x
  <1>. QED BY <1>2, <1>4, <1>5 DEF Placed

\* MainWindow reads the first of its frames.
LEMMA MainRead ==
  ASSUME NEW list \in Seq(User), NEW q, List(q), q # <<>>, Sane(q[1]), NEW r, NEW us,
         Main(list, q, r, us)
  PROVE  /\ q[1].type = "userOnline" => Main(Append(list, q[1].id), Tail(q), r, us)
         /\ q[1].type = "userOffline" => Main(Without(list, q[1].id), Tail(q), r, us)
         /\ q[1].type \notin {"userOnline", "userOffline"} => Main(list, Tail(q), r, us)
  <1>. DEFINE m == q[1]
              x == Tail(q)
  <1>1. NoReply(q) /\ NoReply(r) /\ Informed(list, q, r, us)
    BY DEF Main
  <1>2. NoReply(x)
    BY <1>1, HeldTail DEF NoReply
  <1>3. \A v \in User : Once(list, v) /\ Led(list, q, r, v, us)
    BY <1>1, InformedLed
  <1>4. \A v \in User :
           /\ ~(Ons(m, v) /\ Lists(list, v))
           /\ \A other : (Lists(other, v) <=> Ons(m, v) \/ (Lists(list, v) /\ ~Offs(m, v)))
                         => Led(other, x, r, v, us)
    BY <1>3, LedRead
  <1>. HIDE DEF m, x
  <1>5. ASSUME NEW other,
               \A v \in User : /\ Once(other, v)
                               /\ Lists(other, v) <=> Ons(m, v) \/ (Lists(list, v) /\ ~Offs(m, v))
        PROVE  Main(other, x, r, us)
    <2>1. \A v \in User : Once(other, v) /\ Led(other, x, r, v, us)
      BY <1>4, <1>5
    <2>2. Informed(other, x, r, us)
      BY <2>1, InformedLed
    <2>. QED BY <1>1, <1>2, <2>2 DEF Main
  <1>6. ASSUME m.type = "userOnline"
        PROVE  Main(Append(list, m.id), x, r, us)
    <2>1. m.id \in User
      BY <1>6 DEF Sane, m
    <2>2. \A v : (Ons(m, v) <=> v = m.id) /\ ~Offs(m, v)
      BY <1>6 DEF Ons, Offs
    <2>3. ~Lists(list, m.id)
      BY <1>4, <2>1, <2>2
    <2>4. \A v : /\ Once(list, v) => Once(Append(list, m.id), v)
                 /\ Lists(Append(list, m.id), v) <=> Lists(list, v) \/ v = m.id
      BY <2>3, AddedIs
    <2>. QED BY <1>3, <1>5, <2>2, <2>4
  <1>7. ASSUME m.type = "userOffline"
        PROVE  Main(Without(list, m.id), x, r, us)
    <2>1. Once(list, m.id)
      <3>1. CASE m.id \in User
        BY <1>3, <3>1
      <3>2. CASE m.id \notin User
        <4>1. \A i \in 1 .. Len(list) : list[i] \in User
          BY SeqList
        <4>. QED BY <3>2, <4>1 DEF Once
      <3>. QED BY <3>1, <3>2
    <2>2. \A v : (Offs(m, v) <=> v = m.id) /\ ~Ons(m, v)
      BY <1>7 DEF Ons, Offs
    <2>3. \A v : /\ Once(list, v) => Once(Without(list, m.id), v)
                 /\ Lists(Without(list, m.id), v) <=> Lists(list, v) /\ v # m.id
      BY <2>1, WithoutIs
    <2>. QED BY <1>3, <1>5, <2>2, <2>3
  <1>8. ASSUME m.type \notin {"userOnline", "userOffline"}
        PROVE  Main(list, x, r, us)
    <2>1. \A v : ~Ons(m, v) /\ ~Offs(m, v)
      BY <1>8 DEF Ons, Offs
    <2>. QED BY <1>3, <1>5, <2>1
  <1>. QED BY <1>6, <1>7, <1>8 DEF m, x

\* What is true of a thread's window after it has read.
LEMMA FriendsReads ==
  ASSUME FriendsInv, UNCHANGED <<usersOnline, worker, peer, msgQueue>>, NEW t \in Thread, NoneMissed',
         \A s \in Thread : s # t => /\ out'[s] = out[s] /\ win'[s] = win[s] /\ host'[s] = host[s]
                                    /\ friends'[s] = friends[s] /\ missed'[s] = missed[s],
         ~missed'[t] => ~missed[t],
         \A u \in User : ~missed'[t] /\ Settled(win[t], host[t], friends[t], out[t], msgQueue[t], u, Online \ {u})
            => Settled(win'[t], host'[t], friends'[t], out'[t], msgQueue[t], u, Online \ {u})
  PROVE  FriendsInv'
  <1>1. Online' = Online
    BY DEF Online
  <1>2. ASSUME NEW u \in User, NEW s \in Thread, usersOnline[u] = s, peer[s], ~missed'[s]
        PROVE  Settled(win'[s], host'[s], friends'[s], out'[s], msgQueue[s], u, Online \ {u})
    <2>1. ~missed[s]
      BY <1>2
    <2>2. Settled(win[s], host[s], friends[s], out[s], msgQueue[s], u, Online \ {u})
      BY <1>2, <2>1 DEF FriendsInv
    <2>. QED BY <1>2, <2>2
  <1>. QED BY <1>1, <1>2 DEF FriendsInv

\* LoginReads: the login dialog reads on, opens the window, or reads past its reply.
LEMMA FriendsLoginReads ==
  ASSUME Shape, FriendsInv, NEW t \in Thread, NEW n \in 1 .. Len(out[t]), LoginReads(t, n)
  PROVE  FriendsInv'
  <1>. DEFINE q == out[t]
  <1>1. /\ win[t] = "login" /\ peer[t]
        /\ out' = [out EXCEPT ![t] = Behind(q, n)]
        /\ UNCHANGED <<usersOnline, worker, peer, msgQueue>>
        /\ \/ (\A i \in 1 .. n : ~Reply(q[i])) /\ UNCHANGED <<win, host, friends, missed>>
           \/ \E i \in 1 .. n :
                 /\ Reply(q[i])
                 /\ win' = [win EXCEPT ![t] = "main"]
                 /\ host' = [host EXCEPT ![t] = q[i].id]
                 /\ friends' = [friends EXCEPT ![t] = q[i].friends]
                 /\ missed' = [missed EXCEPT ![t] = n > i]
    BY LoginReadsIs DEF Behind
  <1>2. List(q) /\ Len(q) \in Nat
    BY QueueLists
  <1>3. out'[t] = Behind(q, n) /\ \A s \in Thread : s # t => out'[s] = out[s]
    BY <1>1 DEF Shape, ServerShape
  <1>4. worker[t] = "running"
    BY <1>1 DEF Shape, Coupled
  <1>5. ~missed[t]
    BY <1>1 DEF FriendsInv, NoneMissed
  <1>6. ASSUME NEW u \in User, Settled(win[t], host[t], friends[t], q, msgQueue[t], u, Online \ {u})
        PROVE  \E m : Opening(m, q, msgQueue[t], Online \ {u}) /\ m.id = u
    BY <1>1, <1>6 DEF Settled
  <1>. HIDE DEF q
  <1>7. CASE (\A i \in 1 .. n : ~Reply(q[i])) /\ UNCHANGED <<win, host, friends, missed>>
    <2>1. ASSUME NEW u \in User, Settled(win[t], host[t], friends[t], q, msgQueue[t], u, Online \ {u})
          PROVE  Settled(win[t], host[t], friends[t], Behind(q, n), msgQueue[t], u, Online \ {u})
      <3>1. PICK m : Opening(m, q, msgQueue[t], Online \ {u}) /\ m.id = u
        BY <1>6, <2>1
      <3>2. n \in 1 .. Len(q)
        BY DEF q
      <3>3. Opening(m, Behind(q, n), msgQueue[t], Online \ {u})
        BY <1>2, <1>7, <3>1, <3>2, OpeningCut
      <3>4. m \in Held(Behind(q, n)) \cup Held(msgQueue[t])
        BY <3>3, PlacedHeld DEF Opening
      <3>. QED BY <1>1, <3>1, <3>3, <3>4 DEF Settled
    <2>2. NoneMissed'
      BY <1>1, <1>7 DEF FriendsInv, NoneMissed
    <2>. QED BY <1>1, <1>3, <1>7, <2>1, <2>2, FriendsReads DEF q
  <1>8. ASSUME NEW i \in 1 .. n, Reply(q[i]), win' = [win EXCEPT ![t] = "main"],
               host' = [host EXCEPT ![t] = q[i].id], friends' = [friends EXCEPT ![t] = q[i].friends],
               missed' = [missed EXCEPT ![t] = n > i]
        PROVE  FriendsInv'
    <2>1. /\ win'[t] = "main" /\ host'[t] = q[i].id /\ friends'[t] = q[i].friends
          /\ missed'[t] = (n > i)
          /\ \A s \in Thread : s # t => /\ win'[s] = win[s] /\ host'[s] = host[s]
                                        /\ friends'[s] = friends[s] /\ missed'[s] = missed[s]
      BY <1>8 DEF Shape, ClientShape
    <2>2. NoneMissed'
      BY <1>1, <1>4, <2>1 DEF FriendsInv, NoneMissed
    <2>3. ~missed'[t] => i = n
      <3>1. i # n => n > i
        BY <1>2 DEF q
      <3>. HIDE DEF q
      <3>. QED BY <2>1, <3>1, Zenon
    <2>4. ASSUME NEW u \in User, i = n,
                 Settled(win[t], host[t], friends[t], q, msgQueue[t], u, Online \ {u})
          PROVE  Settled("main", q[i].id, q[i].friends, Behind(q, n), msgQueue[t], u, Online \ {u})
      <3>1. PICK m : Opening(m, q, msgQueue[t], Online \ {u}) /\ m.id = u
        BY <1>6, <2>4
      <3>2. n \in 1 .. Len(q)
        BY DEF q
      <3>3. q[n] = m /\ Main(m.friends, Behind(q, n), msgQueue[t], Online \ {u})
        BY <1>2, <1>8, <2>4, <3>1, <3>2, OpeningCut
      <3>. QED BY <2>4, <3>1, <3>3 DEF Settled
    <2>. QED BY <1>1, <1>3, <1>5, <2>1, <2>2, <2>3, <2>4, FriendsReads DEF q
  <1>. QED BY <1>1, <1>7, <1>8

\* MainReads: a notice changes the list.
LEMMA FriendsMainReads ==
  ASSUME Shape, FriendsInv, NEW t \in Thread, MainReads(t)
  PROVE  FriendsInv'
  <1>. DEFINE q == out[t]
              m == q[1]
              list == friends[t]
  <1>1. /\ win[t] = "main" /\ q # <<>> /\ Sane(m)
        /\ out' = [out EXCEPT ![t] = Tail(q)]
        /\ UNCHANGED <<usersOnline, worker, peer, msgQueue, win, host, missed>>
        /\ m.type = "userOnline" => friends' = [friends EXCEPT ![t] = Append(list, m.id)]
        /\ m.type = "userOffline" => friends' = [friends EXCEPT ![t] = Without(list, m.id)]
        /\ m.type \notin {"userOnline", "userOffline"} => friends' = friends
    BY MainReadsIs
  <1>2. List(q) /\ list \in Seq(User)
    BY QueueLists DEF Shape, ClientShape
  <1>3. out'[t] = Tail(q) /\ \A s \in Thread : s # t => out'[s] = out[s]
    BY <1>1 DEF Shape, ServerShape
  <1>4. /\ \A s \in Thread : s # t => friends'[s] = friends[s]
        /\ m.type = "userOnline" => friends'[t] = Append(list, m.id)
        /\ m.type = "userOffline" => friends'[t] = Without(list, m.id)
        /\ m.type \notin {"userOnline", "userOffline"} => friends'[t] = list
    BY <1>1 DEF Shape, ClientShape
  <1>5. NoneMissed'
    BY <1>1 DEF FriendsInv, NoneMissed
  <1>6. ASSUME NEW u \in User, Settled(win[t], host[t], list, q, msgQueue[t], u, Online \ {u})
        PROVE  Settled(win[t], host[t], friends'[t], Tail(q), msgQueue[t], u, Online \ {u})
    <2>1. host[t] = u /\ Main(list, q, msgQueue[t], Online \ {u})
      BY <1>1, <1>6 DEF Settled
    <2>. HIDE DEF q, list
    <2>2. /\ m.type = "userOnline" => Main(Append(list, m.id), Tail(q), msgQueue[t], Online \ {u})
          /\ m.type = "userOffline" => Main(Without(list, m.id), Tail(q), msgQueue[t], Online \ {u})
          /\ m.type \notin {"userOnline", "userOffline"} => Main(list, Tail(q), msgQueue[t], Online \ {u})
      BY <1>1, <1>2, <2>1, MainRead
    <2>. HIDE DEF m
    <2>3. Main(friends'[t], Tail(q), msgQueue[t], Online \ {u})
      BY <1>4, <2>2
    <2>. QED BY <1>1, <2>1, <2>3 DEF Settled
  <1>. QED BY <1>1, <1>3, <1>4, <1>5, <1>6, FriendsReads

\* What a slot leaves for the windows of those online.
LEMMA FriendsTold ==
  ASSUME FriendsInv, SlotFrame,
         \A u \in User, t \in Thread : usersOnline'[u] = t /\ peer[t] /\ ~missed[t] =>
            Settled(win[t], host[t], friends[t], out[t], msgQueue'[t], u, Online' \ {u})
  PROVE  FriendsInv'
  <1>1. UNCHANGED <<worker, peer, out, win, host, friends, missed>>
    BY DEF SlotFrame, clientVars
  <1>2. NoneMissed'
    BY <1>1 DEF FriendsInv, NoneMissed
  <1>. QED BY <1>1, <1>2 DEF FriendsInv

\* A slot that pushes neither notices nor replies.
LEMMA FriendsQuiet ==
  ASSUME Shape, FriendsInv, SlotFrame, UNCHANGED usersOnline, NEW x, Pushes(x),
         \A t \in Thread : NoReply(x[t]) /\ \A v \in User : Unsaid(x[t], v)
  PROVE  FriendsInv'
  <1>1. Online' = Online
    BY DEF Online
  <1>2. ASSUME NEW u \in User, NEW t \in Thread, usersOnline[u] = t, peer[t], ~missed[t]
        PROVE  Settled(win[t], host[t], friends[t], out[t], msgQueue'[t], u, Online \ {u})
    <2>. DEFINE r == msgQueue[t]
                y == x[t]
                us == Online \ {u}
    <2>1. worker[t] # "ended"
      BY <1>2 DEF Shape, Coupled
    <2>2. List(r) /\ List(y) /\ msgQueue'[t] = r \o y
      BY <2>1, PushedHeld
    <2>3. NoReply(y) /\ \A v \in User : Unsaid(y, v)
      OBVIOUS
    <2>4. Settled(win[t], host[t], friends[t], out[t], r, u, us)
      BY <1>2 DEF FriendsInv
    <2>. HIDE DEF r, y, us
    <2>5. Keeps(out[t], r, us, out[t], r \o y, us)
      BY <2>2, <2>3, KeepsQuiet
    <2>6. Settled(win[t], host[t], friends[t], out[t], r \o y, u, us)
      BY <2>4, <2>5, SettledKept
    <2>. QED BY <2>2, <2>6 DEF us
  <1>. QED BY <1>1, <1>2, FriendsTold

\* A slot that pushes a notice about v to a window of somebody else.
LEMMA SettledTold ==
  ASSUME Shape, FriendsInv, NEW x, Pushes(x), NEW u \in User, NEW t \in Thread,
         usersOnline[u] = t, peer[t], ~missed[t], NEW m, x[t] = <<m>>, ~Reply(m), NEW us2,
         \A v \in User : ~(Ons(m, v) /\ v \in Online),
         \A v \in User : v \in us2 \ {u} <=> Ons(m, v) \/ (v \in Online \ {u} /\ ~Offs(m, v))
  PROVE  Settled(win[t], host[t], friends[t], out[t], msgQueue'[t], u, us2 \ {u})
  <1>. DEFINE r == msgQueue[t]
              us == Online \ {u}
              ws == us2 \ {u}
  <1>1. worker[t] # "ended"
    BY DEF Shape, Coupled
  <1>2. List(r) /\ msgQueue'[t] = r \o x[t]
    BY <1>1, PushedHeld
  <1>3. r \o <<m>> = Append(r, m)
    BY <1>2, OneList DEF List
  <1>4. Settled(win[t], host[t], friends[t], out[t], r, u, us)
    BY DEF FriendsInv
  <1>5. /\ \A v \in User : ~(Ons(m, v) /\ v \in us)
        /\ \A v \in User : v \in ws <=> Ons(m, v) \/ (v \in us /\ ~Offs(m, v))
    OBVIOUS
  <1>. HIDE DEF r, us, ws
  <1>6. Keeps(out[t], r, us, out[t], Append(r, m), ws)
    BY <1>2, <1>5, KeepsPush
  <1>7. Settled(win[t], host[t], friends[t], out[t], Append(r, m), u, ws)
    BY <1>4, <1>6, SettledKept
  <1>. QED BY <1>2, <1>3, <1>7 DEF ws

\* The reply to the login is on its way to a window that was brought nothing yet.
LEMMA SettledLogin ==
  ASSUME Shape, LoginInv, Fresh, NEW s \in Thread, Signalled(s), peer[s], NEW v \in User, v \notin Online,
         Pushes(LoginGives(s, v))
  PROVE  Settled(win[s], host[s], friends[s], out[s], msgQueue'[s], v, Online)
  <1>. DEFINE m == LoginSucReturn(v, InOrder(Online))
              r == msgQueue[s]
              y == Replay(v)
              o == <<m>>
              z == o \o y
  <1>1. win[s] = "login" /\ worker[s] # "ended"
    BY DEF Fresh, Shape, Coupled
  <1>2. Calm(out[s]) /\ Calm(r)
    BY EarlyCalm DEF Early
  <1>3. \A w \in User : usersOnline[w] # s
    BY EarlyOff DEF Early
  <1>4. LoginGives(s, v)[s] = z
    BY <1>3, LoginGets
  <1>5. List(z) /\ List(r) /\ msgQueue'[s] = r \o z
    BY <1>1, <1>4, PushedHeld
  <1>6. /\ Reply(m) /\ m.id = v /\ m.friends = InOrder(Online)
        /\ \A w \in User : Once(m.friends, w) /\ (Lists(m.friends, w) <=> w \in Online)
    BY OnlineAre, InOrderIs DEF Reply, LoginSucReturn
  <1>7. List(y) /\ \A n \in Held(y) : n.type = "receiveMsg"
    <2>1. List(rows)
      BY DEF Shape, ServerShape
    <2>2. PICK f : \A k \in 1 .. Len(y) : y[k] = ReceiveMsg(rows[f[k]].from, v, rows[f[k]].msg)
      BY <2>1, ReplayIs
    <2>3. \A a, b, c : ReceiveMsg(a, b, c).type = "receiveMsg"
      BY DEF ReceiveMsg
    <2>4. List(y)
      BY <2>1, ReplayIs
    <2>. HIDE DEF y
    <2>5. \A k \in 1 .. Len(y) : y[k].type = "receiveMsg"
      BY <2>2, <2>3
    <2>. QED BY <2>4, <2>5 DEF Held
  <1>. HIDE DEF m, y, r
  <1>8. NoReply(y) /\ \A n \in Held(y) : \A w : ~Ons(n, w) /\ ~Offs(n, w)
    BY <1>7 DEF NoReply, Reply, Ons, Offs
  <1>9. List(o) /\ Held(o) = {m} /\ FirstIn(o, m)
    BY <1>6, OneList, HeldOne, FirstOne
  <1>. HIDE DEF o
  <1>10. FirstIn(z, m) /\ Held(z) = {m} \cup Held(y)
    BY <1>7, <1>8, <1>9, FirstConcat, HeldConcat
  <1>. HIDE DEF z
  <1>11. FirstIn(r \o z, m) /\ Held(r \o z) = Held(r) \cup Held(z)
    BY <1>2, <1>5, <1>10, FirstBehind, HeldConcat
  <1>12. List(r \o z)
    BY <1>5, ConcatList
  <1>. DEFINE x == r \o z
  <1>13. \A w : Unsaid(x, w)
    <2>1. \A n \in Held(r) : \A w : ~Ons(n, w) /\ ~Offs(n, w)
      BY <1>2, PersonalIs DEF Calm
    <2>2. \A w : ~Ons(m, w) /\ ~Offs(m, w)
      BY <1>6, PersonalIs
    <2>. QED BY <1>8, <1>10, <1>11, <2>1, <2>2 DEF Unsaid
  <1>. HIDE DEF x
  <1>14. \A w : Unsaid(out[s], w)
    BY <1>2, CalmIs
  <1>15. List(out[s])
    BY QueueLists
  <1>16. Informed(m.friends, out[s], x, Online)
    <2>. DEFINE list == m.friends
                q == out[s]
    <2>1. \A w \in User : Once(list, w) /\ (Lists(list, w) <=> w \in Online)
      BY <1>6
    <2>2. List(q) /\ List(x) /\ \A w : Unsaid(q, w) /\ Unsaid(x, w)
      BY <1>12, <1>13, <1>14, <1>15 DEF x
    <2>. HIDE DEF list, q
    <2>3. \A w \in User : Led(list, q, x, w, Online)
      BY <2>1, <2>2, LedCalm
    <2>4. Informed(list, q, x, Online)
      BY <2>1, <2>3, InformedLed
    <2>. QED BY <2>4 DEF list, q
  <1>17. Placed(m, out[s], x)
    BY <1>2, <1>11 DEF Placed, x
  <1>18. m \in Held(out[s]) \cup Held(x)
    BY <1>17, PlacedHeld
  <1>19. Settled(win[s], host[s], friends[s], out[s], x, v, Online)
    BY <1>1, <1>6, <1>16, <1>17, <1>18 DEF Settled, Opening
  <1>. QED BY <1>5, <1>19 DEF x

\* A login: the others are told, and the user is answered.
LEMMA FriendsLogin ==
  ASSUME Shape, LoginInv, Fresh, FriendsInv, SlotFrame, NEW s \in Thread, Signalled(s),
         NEW v \in User, v \notin Online, Pushes(LoginGives(s, v)),
         usersOnline' = [usersOnline EXCEPT ![v] = s]
  PROVE  FriendsInv'
  <1>1. usersOnline'[v] = s /\ \A u \in User : u # v => usersOnline'[u] = usersOnline[u]
    BY DEF Shape, ServerShape
  <1>2. s # Nobody
    BY SizeAssumption DEF Thread, Nobody
  <1>3. Online' = Online \cup {v}
    BY <1>1, <1>2 DEF Online
  <1>4. \A w \in User : usersOnline[w] # s
    BY EarlyOff DEF Early
  <1>5. ASSUME NEW u \in User, NEW t \in Thread, usersOnline'[u] = t, peer[t], ~missed[t]
        PROVE  Settled(win[t], host[t], friends[t], out[t], msgQueue'[t], u, Online' \ {u})
    <2>1. CASE u = v
      <3>1. t = s /\ Online' \ {u} = Online
        BY <1>1, <1>3, <1>5, <2>1
      <3>2. Settled(win[s], host[s], friends[s], out[s], msgQueue'[s], v, Online)
        BY <1>5, <3>1, SettledLogin
      <3>. QED BY <2>1, <3>1, <3>2
    <2>2. CASE u # v
      <3>. DEFINE m == UserOnline(v)
      <3>1. usersOnline[u] = t
        BY <1>1, <1>5, <2>2
      <3>2. LoginGives(s, v)[t] = <<m>>
        BY <1>4, <3>1, LoginGets
      <3>3. ~Reply(m) /\ \A w : (Ons(m, w) <=> w = v) /\ ~Offs(m, w)
        BY DEF Reply, Ons, Offs, UserOnline
      <3>. HIDE DEF m
      <3>4. \A w \in User : ~(Ons(m, w) /\ w \in Online)
        BY <3>3
      <3>. DEFINE on == Online \cup {v}
      <3>5. \A w \in User : w \in on \ {u} <=> Ons(m, w) \/ (w \in Online \ {u} /\ ~Offs(m, w))
        BY <2>2, <3>3
      <3>. HIDE DEF on
      <3>6. Settled(win[t], host[t], friends[t], out[t], msgQueue'[t], u, on \ {u})
        BY <1>5, <3>1, <3>2, <3>3, <3>4, <3>5, SettledTold
      <3>. QED BY <1>3, <3>6 DEF on
    <2>. QED BY <2>1, <2>2
  <1>. QED BY <1>5, FriendsTold

\* A disconnection: those left are told.
LEMMA FriendsOffline ==
  ASSUME Shape, LoginInv, FriendsInv, SlotFrame, NEW v \in Somebody, Pushes(OfflineGives(v)),
         usersOnline' = [u \in User |-> IF u = v THEN Nobody ELSE usersOnline[u]]
  PROVE  FriendsInv'
  <1>1. \A u \in User : usersOnline'[u] = IF u = v THEN Nobody ELSE usersOnline[u]
    OBVIOUS
  <1>2. Online' = Online \ {v}
    BY <1>1 DEF Online
  <1>3. Nobody \notin Thread
    BY SizeAssumption DEF Thread, Nobody
  <1>4. ASSUME NEW u \in User, NEW t \in Thread, usersOnline'[u] = t, peer[t], ~missed[t]
        PROVE  Settled(win[t], host[t], friends[t], out[t], msgQueue'[t], u, Online' \ {u})
    <2>. DEFINE m == UserOffline(v)
                on == Online \ {v}
    <2>1. u # v /\ usersOnline[u] = t
      BY <1>1, <1>3, <1>4
    <2>2. OfflineGives(v)[t] = <<m>>
      BY <2>1, OfflineGets
    <2>3. ~Reply(m) /\ \A w : (Offs(m, w) <=> w = v) /\ ~Ons(m, w)
      BY DEF Reply, Ons, Offs, UserOffline
    <2>. HIDE DEF m
    <2>4. \A w \in User : ~(Ons(m, w) /\ w \in Online)
      BY <2>3
    <2>5. \A w \in User : w \in on \ {u} <=> Ons(m, w) \/ (w \in Online \ {u} /\ ~Offs(m, w))
      BY <2>1, <2>3
    <2>. HIDE DEF on
    <2>6. Settled(win[t], host[t], friends[t], out[t], msgQueue'[t], u, on \ {u})
      BY <1>4, <2>1, <2>2, <2>3, <2>4, <2>5, SettledTold
    <2>. QED BY <1>2, <2>6 DEF on
  <1>. QED BY <1>4, FriendsTold

\* The slots.
LEMMA FriendsSlot ==
  ASSUME Shape, LoginInv, Fresh, FriendsInv, AnySlot, UNCHANGED clientVars
  PROVE  FriendsInv'
  <1>. DEFINE e == events[1]
              s == e.thread
  <1>1. SlotFrame /\ s \in Thread /\ e \in Held(events)
    BY SlotKinds
  <1>2. CASE e.type = "loginSuccess" /\ UNCHANGED <<msgQueue, usersOnline>>
    <2>1. UNCHANGED <<out, worker, peer, win, host, friends, missed>>
      BY <1>1 DEF SlotFrame, clientVars
    <2>. QED BY <1>2, <2>1, FriendsSame
  <1>3. CASE /\ e.type = "loginSuccess" /\ e.msg.id \in User /\ e.msg.id \notin Online
             /\ Pushes(LoginGives(s, e.msg.id))
             /\ usersOnline' = [usersOnline EXCEPT ![e.msg.id] = s]
    <2>1. Signalled(s)
      BY <1>1, <1>3, HandledOnce
    <2>. HIDE DEF e, s
    <2>. QED BY <1>1, <1>3, <2>1, FriendsLogin
  <1>4. CASE e.type = "sendMsg" /\ Pushes(PrivateGives(e.msg)) /\ UNCHANGED usersOnline
    <2>. DEFINE m == ReceiveMsg(e.msg.from, e.msg.to, e.msg.msg)
                x == PrivateGives(e.msg)
    <2>1. \A t \in Thread : x[t] \in {<<>>, <<m>>}
      BY DEF PrivateGives
    <2>2. ~Reply(m) /\ \A v : ~Ons(m, v) /\ ~Offs(m, v)
      BY DEF Reply, Ons, Offs, ReceiveMsg
    <2>3. Held(<<>>) = {} /\ Held(<<m>>) = {m}
      BY HeldEmpty, HeldOne
    <2>. HIDE DEF m, x, e
    <2>4. \A t \in Thread : NoReply(x[t]) /\ \A v \in User : Unsaid(x[t], v)
      BY <2>1, <2>2, <2>3 DEF NoReply, Unsaid
    <2>. QED BY <1>1, <1>4, <2>4, FriendsQuiet DEF x
  <1>5. CASE /\ e.type = "userOffline" /\ e.msg.id \in Somebody
             /\ Pushes(OfflineGives(e.msg.id))
             /\ usersOnline' = [u \in User |-> IF u = e.msg.id THEN Nobody ELSE usersOnline[u]]
    <2>. HIDE DEF e, s
    <2>. QED BY <1>1, <1>5, FriendsOffline
  <1>6. CASE (\E x : Quietly(x)) /\ UNCHANGED usersOnline
    <2>1. PICK x : Quietly(x)
      BY <1>6
    <2>2. \A t \in Thread : NoReply(x[t]) /\ \A v \in User : Unsaid(x[t], v)
      BY <2>1, CalmIs DEF Quietly
    <2>. QED BY <1>1, <1>6, <2>1, <2>2, FriendsQuiet DEF Quietly
  <1>. QED BY <1>2, <1>3, <1>4, <1>5, <1>6, SlotKinds

\* What people do is sent to the server, and changes no list.
LEMMA FriendsClicks ==
  ASSUME FriendsInv, Shape, NEW t \in Thread, Clicks(t)
  PROVE  FriendsInv'
  <1>1. PICK m : Sends(t, m)
    BY ClicksSend
  <1>2. UNCHANGED <<usersOnline, out, msgQueue, worker, peer, win, host, friends, missed>>
    BY <1>1 DEF Sends, Send, guiVars
  <1>. QED BY <1>2, FriendsSame

\* A step keeps it.
LEMMA FriendsNext ==
  ASSUME Shape, LoginInv, Fresh, FriendsInv, [Next]_vars
  PROVE  FriendsInv'
  <1>1. CASE UNCHANGED vars
    BY <1>1, FriendsSame DEF vars, serverVars, clientVars, threadVars, guiVars
  <1>2. ASSUME NEW t \in Thread,
               \/ \E u \in User : OpenChat(t, u)
               \/ \E d \in {"create", "search"} : CloseAsking(t, d)
        PROVE  FriendsInv'
    BY <1>2, FriendsSame DEF OpenChat, CloseAsking, serverVars
  <1>3. CASE Next
    BY <1>2, <1>3, StepIs, FriendsReadFrames, FriendsDeal, FriendsEnds, FriendsSlot, FriendsClicks,
       FriendsLoginReads, FriendsMainReads, FriendsConnections DEF Clicks
  <1>. QED BY <1>1, <1>3

\* The initial states: those online have each other's names.
LEMMA FriendsInit ==
  ASSUME Init
  PROVE  FriendsInv
  <1>. DEFINE k == script.online
  <1>1. k \in 0 .. Users /\ Users \in Nat /\ Threads \in Nat
    BY ScenarioAssumption, SizeAssumption DEF Init
  <1>2. /\ \A t \in Thread : /\ out[t] = <<>> /\ msgQueue[t] = <<>>
                             /\ peer[t] = (t <= k) /\ missed[t] = FALSE
                             /\ win[t] = (IF t <= k THEN "main" ELSE "none")
                             /\ host[t] = (IF t <= k THEN t ELSE Nobody)
                             /\ friends[t] = (IF t <= k THEN InOrder({u \in 1 .. k : u # t}) ELSE <<>>)
        /\ \A u \in User : usersOnline[u] = (IF u <= k THEN u ELSE Nobody)
    BY DEF Init, ServerInit
  <1>. HIDE DEF k
  <1>3. \A u \in User : u \in Nat /\ u # Nobody /\ (u <= k => u \in 1 .. k)
    BY <1>1 DEF User, Nobody
  <1>4. 1 .. k \in SUBSET User
    BY <1>1 DEF User
  <1>5. Online = 1 .. k
    BY <1>1, <1>2, <1>3, <1>4 DEF Online
  <1>6. NoneMissed
    BY <1>2 DEF NoneMissed
  <1>7. ASSUME NEW u \in User, NEW t \in Thread, usersOnline[u] = t
        PROVE  Settled(win[t], host[t], friends[t], out[t], msgQueue[t], u, Online \ {u})
    <2>1. t # Nobody
      BY <1>1 DEF Thread, Nobody
    <2>2. u <= k /\ t = u
      BY <1>2, <1>7, <2>1
    <2>. DEFINE us == Online \ {u}
                list == InOrder(us)
    <2>3. us \in SUBSET User /\ {w \in 1 .. k : w # t} = us
      BY <1>4, <1>5, <2>2
    <2>4. win[t] = "main" /\ host[t] = u /\ friends[t] = list /\ out[t] = <<>> /\ msgQueue[t] = <<>>
      BY <1>2, <2>2, <2>3
    <2>. HIDE DEF us
    <2>5. \A v \in User : Once(list, v) /\ (Lists(list, v) <=> v \in us)
      BY <2>3, InOrderIs
    <2>6. List(<<>>) /\ NoReply(<<>>) /\ \A v : Unsaid(<<>>, v)
      BY EmptyList, HeldEmpty, CalmIs
    <2>. HIDE DEF list
    <2>7. \A v \in User : Led(list, <<>>, <<>>, v, us)
      BY <2>5, <2>6, LedCalm
    <2>8. Informed(list, <<>>, <<>>, us)
      BY <2>5, <2>7, InformedLed
    <2>. QED BY <2>4, <2>6, <2>8 DEF Settled, Main, us
  <1>. QED BY <1>6, <1>7 DEF FriendsInv

\* How often a user is in a list, in which nobody is twice.
LEMMA OccursIs ==
  ASSUME NEW S, NEW list \in Seq(S), NEW v, Once(list, v)
  PROVE  Occurs(list, v) = IF Lists(list, v) THEN 1 ELSE 0
  <1>. DEFINE P == {i \in 1 .. Len(list) : list[i] = v}
  <1>1. CASE Lists(list, v)
    <2>1. PICK i \in 1 .. Len(list) : list[i] = v
      BY <1>1 DEF Lists
    <2>2. P = {i}
      BY <2>1 DEF Once
    <2>. HIDE DEF P
    <2>3. Cardinality(P) = 1
      BY <2>2, FS_Singleton
    <2>. QED BY <1>1, <2>3 DEF Occurs, P
  <1>2. CASE ~Lists(list, v)
    <2>1. P = {}
      BY <1>2 DEF Lists
    <2>. HIDE DEF P
    <2>2. Cardinality(P) = 0
      BY <2>1, FS_EmptySet
    <2>. QED BY <1>2, <2>2 DEF Occurs, P
  <1>. QED BY <1>1, <1>2

\* With nothing under way, a list that was told everything is right.
LEMMA FriendsArrived ==
  ASSUME Shape, LoginInv, FriendsInv
  PROVE  FriendsAgree
  <1>1. ASSUME Quiet, NEW u \in Online, NEW t, t = usersOnline[u],
               win[t] = "main", ~missed[t], NEW v \in User
        PROVE  Occurs(friends[t], v) = IF v \in Online \ {u} THEN 1 ELSE 0
    <2>1. u \in User /\ t \in Thread
      BY <1>1 DEF Online, Shape, ServerShape
    <2>2. worker[t] # "none"
      BY <1>1, <2>1 DEF Online, Shape, Coupled
    <2>3. events = <<>> /\ Len(events) = 0
      BY <1>1, EmptyList DEF Quiet
    <2>4. worker[t] # "ended"
      <3>1. \A i \in 1 .. Len(events) : FALSE
        BY <2>3
      <3>. QED BY <1>1, <3>1 DEF LoginInv, NoGhostUsers
    <2>5. worker[t] = "running"
      BY <2>1, <2>2, <2>4 DEF Shape, ServerShape
    <2>6. peer[t] /\ out[t] = <<>> /\ msgQueue[t] = <<>>
      BY <1>1, <2>1, <2>5 DEF Quiet
    <2>7. Settled(win[t], host[t], friends[t], out[t], msgQueue[t], u, Online \ {u})
      BY <1>1, <2>1, <2>6 DEF FriendsInv
    <2>. DEFINE list == friends[t]
                us == Online \ {u}
    <2>8. Informed(list, <<>>, <<>>, us)
      BY <1>1, <2>6, <2>7 DEF Settled, Main
    <2>9. list \in Seq(User)
      BY <2>1 DEF Shape, ClientShape
    <2>. HIDE DEF list, us
    <2>10. Once(list, v) /\ Led(list, <<>>, <<>>, v, us)
      BY <2>8, InformedLed
    <2>11. Lists(list, v) <=> v \in us
      BY <2>10, LedArrived
    <2>12. Occurs(list, v) = IF v \in us THEN 1 ELSE 0
      BY <2>9, <2>10, <2>11, OccursIs
    <2>. QED BY <2>12 DEF list, us
  <1>. QED BY <1>1 DEF FriendsAgree

\* Once everything under way has arrived, the friend list of a legacy window shows every
\* other online user once and nobody else, unless its login dialog read past the reply
\* (MainWindow::loginSuccess and userOffline of the server, LoginDialog::readyRead and
\* MainWindow::readyRead of the client).
THEOREM SpecFriendsAgree == Spec => []FriendsAgree
  <1>1. Init => Shape /\ LoginInv /\ Fresh /\ FriendsInv
    BY ShapeInit, LoginInit, FreshInit, FriendsInit
  <1>2. Shape /\ LoginInv /\ Fresh /\ FriendsInv /\ [Next]_vars => (Shape /\ LoginInv /\ Fresh /\ FriendsInv)'
    BY ShapeNext, LoginNext, FreshNext, FriendsNext
  <1>3. Shape /\ LoginInv /\ FriendsInv => FriendsAgree
    BY FriendsArrived
  <1>. QED BY <1>1, <1>2, <1>3, PTL DEF Spec

-----------------------------------------------------------------------------
(***************************************************************************)
(* Paths.                                                                  *)
(***************************************************************************)

\* No step.
LEMMA PathNone ==
  ASSUME NEW S, NEW R, NEW x \in S, NEW y
  PROVE  Path(S, 0, R, x, y) <=> x = y
  <1>1. ASSUME x = y
        PROVE  Path(S, 0, R, x, y)
    <2>. DEFINE f == [i \in 0 .. 0 |-> x]
    <2>1. f \in [0 .. 0 -> S] /\ f[0] = x /\ f[0] = y /\ \A i \in 1 .. 0 : <<f[i - 1], f[i]>> \in R[i]
      BY <1>1
    <2>. HIDE DEF f
    <2>. QED BY <2>1 DEF Path
  <1>. QED BY <1>1 DEF Path

\* Where it starts and ends.
LEMMA PathIn ==
  ASSUME NEW S, NEW n \in Nat, NEW R, NEW x, NEW y, Path(S, n, R, x, y)
  PROVE  x \in S /\ y \in S
  <1>1. 0 \in 0 .. n /\ n \in 0 .. n
    OBVIOUS
  <1>. QED BY <1>1 DEF Path

\* One step more.
LEMMA PathMore ==
  ASSUME NEW S, NEW n \in Nat, NEW R, NEW Q, NEW x, NEW y, NEW z \in S,
         Path(S, n, R, x, y), \A i \in 1 .. n : Q[i] = R[i], <<y, z>> \in Q[n + 1]
  PROVE  Path(S, n + 1, Q, x, z)
  <1>1. PICK f \in [0 .. n -> S] :
            f[0] = x /\ f[n] = y /\ \A i \in 1 .. n : <<f[i - 1], f[i]>> \in R[i]
    BY DEF Path
  <1>. DEFINE h == [i \in 0 .. n + 1 |-> IF i = n + 1 THEN z ELSE f[i]]
  <1>2. /\ n + 1 \in 0 .. n + 1 /\ n # n + 1 /\ 0 # n + 1
        /\ \A i \in 0 .. n : i \in 0 .. n + 1 /\ i # n + 1
        /\ \A i \in 0 .. n + 1 : i \in 0 .. n \/ i = n + 1
        /\ 0 \in 0 .. n /\ n \in 0 .. n /\ n + 1 - 1 = n
        /\ \A i \in 1 .. n : i \in 0 .. n /\ i - 1 \in 0 .. n
        /\ \A i \in 1 .. n + 1 : i \in 1 .. n \/ i = n + 1
    OBVIOUS
  <1>3. h \in [0 .. n + 1 -> S] /\ h[n + 1] = z /\ \A i \in 0 .. n : h[i] = f[i]
    BY <1>2
  <1>. HIDE DEF h
  <1>4. ASSUME NEW i \in 1 .. n + 1
        PROVE  <<h[i - 1], h[i]>> \in Q[i]
    <2>1. CASE i \in 1 .. n
      <3>1. h[i - 1] = f[i - 1] /\ h[i] = f[i] /\ Q[i] = R[i]
        BY <1>2, <1>3, <2>1
      <3>. QED BY <1>1, <2>1, <3>1
    <2>2. CASE i = n + 1
      <3>1. i - 1 = n /\ h[n] = y
        BY <1>1, <1>2, <1>3, <2>2
      <3>. QED BY <1>3, <2>2, <3>1
    <2>. QED BY <1>2, <2>1, <2>2
  <1>5. h[0] = x
    BY <1>1, <1>2, <1>3
  <1>. QED BY <1>3, <1>4, <1>5 DEF Path

\* The first step.
LEMMA PathFirst ==
  ASSUME NEW S, NEW n \in Nat, n > 0, NEW R, NEW Q, NEW x, NEW y, Path(S, n, R, x, y),
         \A i \in 1 .. n - 1 : Q[i] = R[i + 1]
  PROVE  \E z \in S : <<x, z>> \in R[1] /\ Path(S, n - 1, Q, z, y)
  <1>1. PICK f \in [0 .. n -> S] :
            f[0] = x /\ f[n] = y /\ \A i \in 1 .. n : <<f[i - 1], f[i]>> \in R[i]
    BY DEF Path
  <1>. DEFINE h == [i \in 0 .. n - 1 |-> f[i + 1]]
  <1>2. /\ \A i \in 0 .. n - 1 : i + 1 \in 0 .. n
        /\ \A i \in 1 .. n - 1 : i + 1 \in 1 .. n /\ i - 1 \in 0 .. n - 1 /\ i \in 0 .. n - 1
                                /\ i - 1 + 1 = i /\ i + 1 - 1 = i
        /\ 0 \in 0 .. n - 1 /\ n - 1 \in 0 .. n - 1 /\ n - 1 + 1 = n
        /\ 1 \in 1 .. n /\ 1 - 1 = 0 /\ 0 + 1 = 1 /\ 1 \in 0 .. n
    OBVIOUS
  <1>3. h \in [0 .. n - 1 -> S] /\ h[n - 1] = y /\ h[0] = f[1] /\ \A i \in 0 .. n - 1 : h[i] = f[i + 1]
    BY <1>1, <1>2
  <1>. HIDE DEF h
  <1>4. ASSUME NEW i \in 1 .. n - 1
        PROVE  <<h[i - 1], h[i]>> \in Q[i]
    <2>1. h[i - 1] = f[i] /\ h[i] = f[i + 1]
      BY <1>2, <1>3
    <2>2. <<f[i + 1 - 1], f[i + 1]>> \in R[i + 1]
      BY <1>1, <1>2
    <2>. QED BY <1>2, <2>1, <2>2
  <1>5. <<f[1 - 1], f[1]>> \in R[1]
    BY <1>1, <1>2
  <1>6. <<x, f[1]>> \in R[1] /\ f[1] \in S
    BY <1>1, <1>2, <1>5
  <1>7. Path(S, n - 1, Q, f[1], y)
    BY <1>3, <1>4 DEF Path
  <1>. QED BY <1>6, <1>7

\* One path behind another.
LEMMA PathConcat ==
  ASSUME NEW S, NEW n \in Nat, NEW k \in Nat, NEW R, NEW Q, NEW W, NEW x, NEW y, NEW z,
         Path(S, n, R, x, y), Path(S, k, Q, y, z),
         \A i \in 1 .. n : W[i] = R[i], \A i \in 1 .. k : W[n + i] = Q[i]
  PROVE  Path(S, n + k, W, x, z)
  <1>1. PICK f \in [0 .. n -> S] :
            f[0] = x /\ f[n] = y /\ \A i \in 1 .. n : <<f[i - 1], f[i]>> \in R[i]
    BY DEF Path
  <1>2. PICK e \in [0 .. k -> S] :
            e[0] = y /\ e[k] = z /\ \A i \in 1 .. k : <<e[i - 1], e[i]>> \in Q[i]
    BY DEF Path
  <1>. DEFINE h == [i \in 0 .. n + k |-> IF i <= n THEN f[i] ELSE e[i - n]]
  <1>3. /\ \A i \in 0 .. n : i \in 0 .. n + k /\ i <= n
        /\ \A i \in 1 .. k : n + i \in 0 .. n + k /\ ~(n + i <= n) /\ n + i - n = i
        /\ \A i \in 0 .. n + k : ~(i <= n) => i - n \in 1 .. k /\ i - n \in 0 .. k
        /\ \A i \in 0 .. n + k : i <= n => i \in 0 .. n
    OBVIOUS
  <1>4. h \in [0 .. n + k -> S]
    BY <1>3
  <1>5. \A i \in 0 .. n : h[i] = f[i]
    BY <1>3
  <1>6. \A i \in 1 .. k : h[n + i] = e[i]
    BY <1>3
  <1>7. \A i \in 0 .. k : h[n + i] = e[i]
    <2>1. n + 0 = n /\ n \in 0 .. n
      OBVIOUS
    <2>2. h[n + 0] = e[0]
      BY <1>1, <1>2, <1>5, <2>1
    <2>3. \A i \in 0 .. k : i = 0 \/ i \in 1 .. k
      OBVIOUS
    <2>. HIDE DEF h
    <2>. QED BY <1>6, <2>2, <2>3
  <1>. HIDE DEF h
  <1>8. h[0] = x /\ h[n + k] = z
    BY <1>1, <1>2, <1>5, <1>7
  <1>9. ASSUME NEW i \in 1 .. n + k
        PROVE  <<h[i - 1], h[i]>> \in W[i]
    <2>1. CASE i <= n
      <3>1. i \in 1 .. n /\ i \in 0 .. n /\ i - 1 \in 0 .. n
        BY <2>1
      <3>. QED BY <1>1, <1>5, <3>1
    <2>2. CASE ~(i <= n)
      <3>. DEFINE j == i - n
      <3>1. j \in 1 .. k /\ j \in 0 .. k /\ j - 1 \in 0 .. k /\ i = n + j /\ i - 1 = n + (j - 1)
        BY <2>2
      <3>. HIDE DEF j
      <3>2. h[i - 1] = e[j - 1] /\ h[i] = e[j] /\ W[i] = Q[j]
        BY <1>7, <3>1
      <3>. QED BY <1>2, <3>1, <3>2
    <2>. QED BY <2>1, <2>2
  <1>. QED BY <1>4, <1>8, <1>9 DEF Path

\* A path that stays where it is.
LEMMA PathStill ==
  ASSUME NEW S, NEW n \in Nat, NEW R, NEW x \in S, \A i \in 1 .. n : <<x, x>> \in R[i]
  PROVE  Path(S, n, R, x, x)
  <1>. DEFINE f == [i \in 0 .. n |-> x]
  <1>1. f \in [0 .. n -> S] /\ f[0] = x /\ f[n] = x
    OBVIOUS
  <1>2. \A i \in 1 .. n : f[i - 1] = x /\ f[i] = x
    OBVIOUS
  <1>. HIDE DEF f
  <1>. QED BY <1>1, <1>2 DEF Path

\* More places and more steps are allowed.
LEMMA PathWider ==
  ASSUME NEW S, NEW T, S \subseteq T, NEW n \in Nat, NEW R, NEW Q, NEW x, NEW y, Path(S, n, R, x, y),
         \A i \in 1 .. n : R[i] \subseteq Q[i]
  PROVE  Path(T, n, Q, x, y)
  <1>1. PICK f \in [0 .. n -> S] :
            f[0] = x /\ f[n] = y /\ \A i \in 1 .. n : <<f[i - 1], f[i]>> \in R[i]
    BY DEF Path
  <1>2. f \in [0 .. n -> T]
    OBVIOUS
  <1>. QED BY <1>1, <1>2 DEF Path

-----------------------------------------------------------------------------
(***************************************************************************)
(* Requests and signals about a group.                                     *)
(***************************************************************************)

\* Where a client can stand.
LEMMA StandingIs ==
  ASSUME NEW n \in Nat
  PROVE  /\ "never" \in Standing(n) /\ Standing(n) \subseteq Stages
         /\ n > 0 => Standing(n) = Stages
         /\ n = 0 => Standing(n) = {"never"}
  BY DEF Standing, Stages

\* What a message about other things, a join and a leaving do.
LEMMA AskedIs ==
  ASSUME NEW m, NEW g, NEW n \in Nat
  PROVE  /\ m.type \notin {"joinGroup", "leaveGroup"} \/ m.group # g =>
              Asked(m, g, n) = {<<a, a>> : a \in Stages}
         /\ m.type = "joinGroup" /\ m.group = g =>
              /\ \A a, b : <<a, b>> \in Asked(m, g, n) => a \in {"never", "out"} /\ b = "in"
              /\ \A a, b : <<a, b>> \in Asked(m, g, n) /\ n = 1 => a = "never"
              /\ <<"never", "in">> \in Asked(m, g, n)
              /\ n > 1 => <<"out", "in">> \in Asked(m, g, n)
         /\ m.type = "leaveGroup" /\ m.group = g =>
              /\ \A a, b : <<a, b>> \in Asked(m, g, n) =>
                    b \in {"never", "out"} /\ (b = "never" <=> a = "never")
              /\ \A a \in Stages : <<a, IF a = "never" THEN "never" ELSE "out">> \in Asked(m, g, n)
         /\ Asked(m, g, n) \subseteq Asked(m, g, n + 1)
  <1>1. CASE m.type \notin {"joinGroup", "leaveGroup"} \/ m.group # g
    BY <1>1 DEF Asked
  <1>2. CASE m.type = "joinGroup" /\ m.group = g
    <2>1. /\ Asked(m, g, n) = {<<"never", "in">>} \cup IF n > 1 THEN {<<"out", "in">>} ELSE {}
          /\ Asked(m, g, n + 1) = {<<"never", "in">>} \cup IF n + 1 > 1 THEN {<<"out", "in">>} ELSE {}
      BY <1>2 DEF Asked
    <2>2. n > 1 => n + 1 > 1
      OBVIOUS
    <2>. QED BY <1>2, <2>1, <2>2
  <1>3. CASE m.type = "leaveGroup" /\ m.group = g
    <2>1. \A k : Asked(m, g, k) = {<<"never", "never">>, <<"in", "out">>, <<"out", "out">>}
      BY <1>3 DEF Asked
    <2>. QED BY <1>3, <2>1 DEF Stages
  <1>. QED BY <1>1, <1>2, <1>3

\* Staying where one is.
LEMMA StageStill ==
  ASSUME NEW a, NEW b
  PROVE  <<a, b>> \in {<<c, c>> : c \in Stages} <=> a \in Stages /\ a = b
  OBVIOUS

\* An empty queue.
LEMMA AsksNone ==
  ASSUME NEW g, NEW n \in Nat, NEW x \in Standing(n), NEW y
  PROVE  Asks(<<>>, g, n, x, y) <=> x = y
  BY EmptyList, PathNone DEF Asks

\* Where a queue's requests start and end.
LEMMA AsksIn ==
  ASSUME NEW q, List(q), NEW g, NEW n \in Nat, NEW x, NEW y, Asks(q, g, n, x, y)
  PROVE  x \in Standing(n) /\ y \in Standing(n)
  BY ListLen, PathIn DEF Asks

\* One more message.
LEMMA AsksAppend ==
  ASSUME NEW q, List(q), NEW m, NEW g, NEW n \in Nat, NEW x, NEW y, NEW z \in Standing(n),
         Asks(q, g, n, x, y), <<y, z>> \in Asked(m, g, n)
  PROVE  Asks(Append(q, m), g, n, x, z)
  <1>. DEFINE r == Append(q, m)
              l == Len(q)
              R == [i \in 1 .. Len(q) |-> Asked(q[i], g, n)]
              Q == [i \in 1 .. Len(r) |-> Asked(r[i], g, n)]
  <1>1. l \in Nat
    BY ListLen
  <1>2. Len(r) = l + 1 /\ (\A i \in 1 .. l : r[i] = q[i]) /\ r[l + 1] = m
    BY AppendList
  <1>3. \A i \in 1 .. l : i \in 1 .. l + 1
    BY <1>1
  <1>4. l + 1 \in 1 .. l + 1
    BY <1>1
  <1>5. (\A i \in 1 .. l : Q[i] = R[i]) /\ Q[l + 1] = Asked(m, g, n)
    BY <1>2, <1>3, <1>4
  <1>6. Path(Standing(n), l, R, x, y)
    BY DEF Asks
  <1>. HIDE DEF r, R, Q, l
  <1>7. Path(Standing(n), l + 1, Q, x, z)
    BY <1>1, <1>5, <1>6, PathMore
  <1>. QED BY <1>2, <1>7 DEF Asks, Q, r

\* The message at the head.
LEMMA AsksTail ==
  ASSUME NEW q, List(q), q # <<>>, NEW g, NEW n \in Nat, NEW x, NEW y, Asks(q, g, n, x, y)
  PROVE  \E z \in Standing(n) : <<x, z>> \in Asked(q[1], g, n) /\ Asks(Tail(q), g, n, z, y)
  <1>. DEFINE r == Tail(q)
              l == Len(q)
              R == [i \in 1 .. Len(q) |-> Asked(q[i], g, n)]
              Q == [i \in 1 .. Len(r) |-> Asked(r[i], g, n)]
  <1>1. l \in Nat /\ l > 0
    BY ListLen, NoneList
  <1>2. Len(r) = l - 1 /\ \A i \in 1 .. l - 1 : r[i] = q[i + 1]
    BY TailList
  <1>3. \A i \in 1 .. l - 1 : i + 1 \in 1 .. l
    BY <1>1
  <1>4. 1 \in 1 .. l
    BY <1>1
  <1>5. (\A i \in 1 .. l - 1 : Q[i] = R[i + 1]) /\ R[1] = Asked(q[1], g, n)
    BY <1>2, <1>3, <1>4
  <1>6. Path(Standing(n), l, R, x, y)
    BY DEF Asks
  <1>. HIDE DEF r, R, Q, l
  <1>7. PICK z \in Standing(n) : <<x, z>> \in R[1] /\ Path(Standing(n), l - 1, Q, z, y)
    BY <1>1, <1>5, <1>6, PathFirst
  <1>. QED BY <1>2, <1>5, <1>7 DEF Asks, Q, r

\* One queue behind another.
LEMMA AsksConcat ==
  ASSUME NEW q, List(q), NEW r, List(r), NEW g, NEW n \in Nat, NEW x, NEW y, NEW z,
         Asks(q, g, n, x, y), Asks(r, g, n, y, z)
  PROVE  Asks(q \o r, g, n, x, z)
  <1>. DEFINE w == q \o r
              l == Len(q)
              k == Len(r)
              R == [i \in 1 .. Len(q) |-> Asked(q[i], g, n)]
              Q == [i \in 1 .. Len(r) |-> Asked(r[i], g, n)]
              W == [i \in 1 .. Len(w) |-> Asked(w[i], g, n)]
  <1>1. l \in Nat /\ k \in Nat
    BY ListLen
  <1>2. Len(w) = l + k /\ (\A i \in 1 .. l : w[i] = q[i]) /\ \A i \in 1 .. k : w[l + i] = r[i]
    BY ConcatList
  <1>3. (\A i \in 1 .. l : i \in 1 .. l + k) /\ \A i \in 1 .. k : l + i \in 1 .. l + k
    BY <1>1
  <1>4. (\A i \in 1 .. l : W[i] = R[i]) /\ \A i \in 1 .. k : W[l + i] = Q[i]
    BY <1>2, <1>3
  <1>5. Path(Standing(n), l, R, x, y) /\ Path(Standing(n), k, Q, y, z)
    BY DEF Asks
  <1>. HIDE DEF w, R, Q, W, l, k
  <1>6. Path(Standing(n), l + k, W, x, z)
    BY <1>1, <1>4, <1>5, PathConcat
  <1>. QED BY <1>2, <1>6 DEF Asks, W, w

\* Notices are no requests.
LEMMA AsksStill ==
  ASSUME NEW q, Notices(q), NEW g, NEW n \in Nat, NEW x \in Standing(n)
  PROVE  Asks(q, g, n, x, x)
  <1>1. List(q) /\ Len(q) \in Nat
    BY ListLen DEF Notices, Box
  <1>. DEFINE R == [i \in 1 .. Len(q) |-> Asked(q[i], g, n)]
  <1>2. ASSUME NEW i \in 1 .. Len(q)
        PROVE  <<x, x>> \in R[i]
    <2>1. q[i].type \notin {"joinGroup", "leaveGroup"}
      BY DEF Notices, Frame, Requests
    <2>2. Asked(q[i], g, n) = {<<a, a>> : a \in Stages}
      BY <2>1, AskedIs
    <2>3. x \in Stages
      BY StandingIs
    <2>. QED BY <2>2, <2>3
  <1>. HIDE DEF R
  <1>3. Path(Standing(n), Len(q), R, x, x)
    BY <1>1, <1>2, PathStill
  <1>. QED BY <1>3 DEF Asks, R

\* One join more was sent.
LEMMA AsksWider ==
  ASSUME NEW q, List(q), NEW g, NEW n \in Nat, NEW x, NEW y, Asks(q, g, n, x, y)
  PROVE  Asks(q, g, n + 1, x, y)
  <1>1. Len(q) \in Nat
    BY ListLen
  <1>. DEFINE R == [i \in 1 .. Len(q) |-> Asked(q[i], g, n)]
              Q == [i \in 1 .. Len(q) |-> Asked(q[i], g, n + 1)]
  <1>2. Standing(n) \subseteq Standing(n + 1)
    BY DEF Standing, Stages
  <1>3. \A i \in 1 .. Len(q) : R[i] \subseteq Q[i]
    BY AskedIs
  <1>4. Path(Standing(n), Len(q), R, x, y)
    BY DEF Asks
  <1>. HIDE DEF R, Q
  <1>5. Path(Standing(n + 1), Len(q), Q, x, y)
    BY <1>1, <1>2, <1>3, <1>4, PathWider
  <1>. QED BY <1>5 DEF Asks, Q

\* One more signal.
LEMMA SignalsAppend ==
  ASSUME NEW es, List(es), NEW e, NEW t, NEW g, NEW n \in Nat, NEW x, NEW y, NEW z \in Standing(n),
         Signals(es, t, g, n, x, y),
         \/ e.thread = t /\ <<y, z>> \in Asked(e.msg, g, n)
         \/ e.thread # t /\ y = z
  PROVE  Signals(Append(es, e), t, g, n, x, z)
  <1>. DEFINE F(d) == IF d.thread = t THEN Asked(d.msg, g, n) ELSE {<<a, a>> : a \in Stages}
              r == Append(es, e)
              l == Len(es)
              R == [i \in 1 .. Len(es) |-> F(es[i])]
              Q == [i \in 1 .. Len(r) |-> F(r[i])]
  <1>1. l \in Nat
    BY ListLen
  <1>2. Len(r) = l + 1 /\ (\A i \in 1 .. l : r[i] = es[i]) /\ r[l + 1] = e
    BY AppendList
  <1>3. \A i \in 1 .. l : i \in 1 .. l + 1
    BY <1>1
  <1>4. l + 1 \in 1 .. l + 1
    BY <1>1
  <1>5. <<y, z>> \in F(e)
    BY StandingIs
  <1>6. Path(Standing(n), l, R, x, y)
    BY DEF Signals
  <1>. HIDE DEF F
  <1>7. (\A i \in 1 .. l : Q[i] = R[i]) /\ Q[l + 1] = F(e)
    BY <1>2, <1>3, <1>4
  <1>. HIDE DEF r, R, Q, l
  <1>8. Path(Standing(n), l + 1, Q, x, z)
    BY <1>1, <1>5, <1>6, <1>7, PathMore
  <1>. QED BY <1>2, <1>8 DEF Signals, Q, r, F

\* The signal at the head.
LEMMA SignalsTail ==
  ASSUME NEW es, List(es), es # <<>>, NEW t, NEW g, NEW n \in Nat, NEW x, NEW y,
         Signals(es, t, g, n, x, y)
  PROVE  \E z \in Standing(n) :
            /\ \/ es[1].thread = t /\ <<x, z>> \in Asked(es[1].msg, g, n)
               \/ es[1].thread # t /\ x = z
            /\ Signals(Tail(es), t, g, n, z, y)
  <1>. DEFINE F(d) == IF d.thread = t THEN Asked(d.msg, g, n) ELSE {<<a, a>> : a \in Stages}
              r == Tail(es)
              l == Len(es)
              R == [i \in 1 .. Len(es) |-> F(es[i])]
              Q == [i \in 1 .. Len(r) |-> F(r[i])]
  <1>1. l \in Nat /\ l > 0
    BY ListLen, NoneList
  <1>2. Len(r) = l - 1 /\ \A i \in 1 .. l - 1 : r[i] = es[i + 1]
    BY TailList
  <1>3. \A i \in 1 .. l - 1 : i + 1 \in 1 .. l
    BY <1>1
  <1>4. 1 \in 1 .. l
    BY <1>1
  <1>5. Path(Standing(n), l, R, x, y)
    BY DEF Signals
  <1>6. \A z : <<x, z>> \in F(es[1]) => \/ es[1].thread = t /\ <<x, z>> \in Asked(es[1].msg, g, n)
                                        \/ es[1].thread # t /\ x = z
    BY StageStill
  <1>. HIDE DEF F
  <1>7. (\A i \in 1 .. l - 1 : Q[i] = R[i + 1]) /\ R[1] = F(es[1])
    BY <1>2, <1>3, <1>4
  <1>. HIDE DEF r, R, Q, l
  <1>8. PICK z \in Standing(n) : <<x, z>> \in R[1] /\ Path(Standing(n), l - 1, Q, z, y)
    BY <1>1, <1>5, <1>7, PathFirst
  <1>9. Signals(r, t, g, n, z, y)
    BY <1>2, <1>8 DEF Signals, Q, F
  <1>. QED BY <1>6, <1>7, <1>8, <1>9 DEF r

\* One join more was sent.
LEMMA SignalsWider ==
  ASSUME NEW es, List(es), NEW t, NEW g, NEW n \in Nat, NEW x, NEW y, Signals(es, t, g, n, x, y)
  PROVE  Signals(es, t, g, n + 1, x, y)
  <1>1. Len(es) \in Nat
    BY ListLen
  <1>. DEFINE F(d, k) == IF d.thread = t THEN Asked(d.msg, g, k) ELSE {<<a, a>> : a \in Stages}
              R == [i \in 1 .. Len(es) |-> F(es[i], n)]
              Q == [i \in 1 .. Len(es) |-> F(es[i], n + 1)]
  <1>2. Standing(n) \subseteq Standing(n + 1)
    BY DEF Standing, Stages
  <1>3. \A i \in 1 .. Len(es) : F(es[i], n) \subseteq F(es[i], n + 1)
    BY AskedIs
  <1>4. Path(Standing(n), Len(es), R, x, y)
    BY DEF Signals
  <1>. HIDE DEF F
  <1>5. \A i \in 1 .. Len(es) : R[i] \subseteq Q[i]
    BY <1>3
  <1>. HIDE DEF R, Q
  <1>6. Path(Standing(n + 1), Len(es), Q, x, y)
    BY <1>1, <1>2, <1>4, <1>5, PathWider
  <1>. QED BY <1>6 DEF Signals, Q, F

-----------------------------------------------------------------------------
(***************************************************************************)
(* Joins and leavings under way.                                           *)
(***************************************************************************)

\* Nobody is told of a group by what a client sends.
LEMMA UnheardFrames ==
  ASSUME NEW q, Frames(q), NEW g
  PROVE  Unheard(q, g)
  BY HeldFrames DEF Unheard, About, Grouped, Frame, Requests

\* A queue without messages about the group, behind another.
LEMMA UnheardConcat ==
  ASSUME NEW q, List(q), NEW r, List(r), NEW g, Unheard(q, g), Unheard(r, g)
  PROVE  Unheard(q \o r, g)
  BY HeldConcat DEF Unheard

\* One more message.
LEMMA UnheardAppend ==
  ASSUME NEW q, List(q), NEW m, NEW g, Unheard(q, g), ~About(m, g)
  PROVE  Unheard(Append(q, m), g)
  BY HeldAppend DEF Unheard

\* The rest of a queue.
LEMMA UnheardTail ==
  ASSUME NEW q, List(q), q # <<>>, NEW g, Unheard(q, g)
  PROVE  Unheard(Tail(q), g) /\ ~About(q[1], g)
  BY HeldTail DEF Unheard

\* No message.
LEMMA UnheardNone ==
  ASSUME NEW g
  PROVE  Unheard(<<>>, g)
  BY HeldEmpty DEF Unheard

\* Nothing was sent or handled.
LEMMA JoinsKept ==
  ASSUME NEW t, NEW g, NEW n, Joins(t, g, n),
         events' = events, msgQueue'[t] = msgQueue[t], inbox'[t] = inbox[t],
         \A a \in Standing(n) : Stands(t, g, a) => Stands(t, g, a)',
         \A d \in Standing(n) : Leaves(t, g, d) => Leaves(t, g, d)'
  PROVE  Joins(t, g, n)'
  BY DEF Joins

\* A thread reads its frames: the requests go from one queue to the other.
LEMMA JoiningReadFrames ==
  ASSUME Shape, Joining, NEW t \in Thread, ReadFrames(t), UNCHANGED clientVars
  PROVE  Joining'
  <1>1. /\ msgQueue' = [msgQueue EXCEPT ![t] = msgQueue[t] \o inbox[t]]
        /\ inbox' = [inbox EXCEPT ![t] = <<>>]
        /\ UNCHANGED <<peer, out, events, groups, win, members, joins>>
    BY DEF ReadFrames, guiVars, clientVars
  <1>2. \A s \in Thread : Pending(s)' => Pending(s)
    BY WorkerPending
  <1>3. /\ msgQueue'[t] = msgQueue[t] \o inbox[t] /\ inbox'[t] = <<>>
        /\ \A s \in Thread : s # t => msgQueue'[s] = msgQueue[s] /\ inbox'[s] = inbox[s]
    BY <1>1 DEF Shape, ServerShape
  <1>4. ASSUME NEW s \in Thread, NEW g \in Group, NEW n, n = joins[s][g]
        PROVE  Joins(s, g, n)'
    <2>1. n \in Nat /\ Joins(s, g, n)
      BY <1>4 DEF Joining, Shape, ClientShape
    <2>2. List(msgQueue[s]) /\ List(inbox[s]) /\ Frames(inbox[s])
      BY QueueLists DEF Shape, ServerShape
    <2>3. ASSUME Unheard(msgQueue[s], g)
          PROVE  Unheard(msgQueue'[s], g)
      <3>1. Unheard(inbox[s], g)
        BY <2>2, UnheardFrames
      <3>2. Unheard(msgQueue[s] \o inbox[s], g)
        BY <2>2, <2>3, <3>1, UnheardConcat
      <3>. QED BY <1>3, <2>3, <3>2
    <2>4. \A a : Stands(s, g, a) => Stands(s, g, a)'
      BY <1>1, <2>3 DEF Stands, Dialogs
    <2>5. \A d : Leaves(s, g, d) => Leaves(s, g, d)'
      BY <1>1 DEF Leaves, Dialogs
    <2>6. CASE s # t
      BY <1>1, <1>3, <2>1, <2>4, <2>5, <2>6, JoinsKept
    <2>7. CASE s = t
      <3>1. PICK a, b, c, d \in Standing(n) :
                /\ Stands(s, g, a) /\ Signals(events, s, g, n, a, b)
                /\ Asks(msgQueue[s], g, n, b, c) /\ Asks(inbox[s], g, n, c, d)
                /\ Leaves(s, g, d)
        BY <2>1 DEF Joins
      <3>2. Asks(msgQueue'[s], g, n, b, d)
        BY <1>3, <2>1, <2>2, <2>7, <3>1, AsksConcat
      <3>3. Asks(inbox'[s], g, n, d, d)
        BY <1>3, <2>1, <2>7, AsksNone
      <3>. QED BY <1>1, <2>4, <2>5, <3>1, <3>2, <3>3 DEF Joins
    <2>. QED BY <2>6, <2>7
  <1>. QED BY <1>1, <1>2, <1>4 DEF Joining, Unjoined

\* A thread deals with a message: a request becomes a signal.
LEMMA JoiningDeal ==
  ASSUME Shape, Joining, NEW t \in Thread, Deal(t), UNCHANGED clientVars
  PROVE  Joining'
  <1>. DEFINE m == msgQueue[t][1]
  <1>1. /\ msgQueue[t] # <<>> /\ Sane(m)
        /\ msgQueue' = [msgQueue EXCEPT ![t] = Tail(msgQueue[t])]
        /\ UNCHANGED <<peer, inbox, groups, win, members, joins>>
    BY DealIs DEF clientVars
  <1>2. \A s \in Thread : Pending(s)' => Pending(s)
    BY WorkerPending
  <1>3. /\ msgQueue'[t] = Tail(msgQueue[t])
        /\ \A s \in Thread : s # t => msgQueue'[s] = msgQueue[s]
    BY <1>1 DEF Shape, ServerShape
  <1>4. PICK e : /\ \/ events' = Append(events, e) /\ e.thread = t /\ e.msg = m
                    \/ events' = events /\ m.type \notin {"joinGroup", "leaveGroup"}
                 /\ \/ out' = out
                    \/ out' = Written(t, m) /\ ~Frame(m)
                    \/ \E k : Sane(k) /\ ~Frame(k) /\ ~Grouped(k) /\ out' = Written(t, k)
    <2>1. \A type : Signal(type, t, m).thread = t /\ Signal(type, t, m).msg = m
      BY DEF Signal
    <2>2. CASE Rightly(m) /\ events' = Append(events, Signal("loginSuccess", t, m)) /\ UNCHANGED out
      BY <2>1, <2>2
    <2>3. CASE events' = Append(events, Signal(m.type, t, m)) /\ UNCHANGED out
      BY <2>1, <2>3
    <2>4. CASE /\ Frame(m) /\ m.type \notin Requests /\ UNCHANGED events
               /\ \E k : Sane(k) /\ ~Frame(k) /\ ~Grouped(k) /\ out' = Written(t, k)
      <3>1. m.type \notin {"joinGroup", "leaveGroup"}
        BY <2>4 DEF Requests
      <3>. QED BY <2>4, <3>1
    <2>5. CASE ~Frame(m) /\ out' = Written(t, m) /\ UNCHANGED events
      <3>1. m.type \notin {"joinGroup", "leaveGroup"}
        BY <2>5 DEF Frame, Requests
      <3>. QED BY <2>5, <3>1
    <2>. HIDE DEF m
    <2>6. \/ Rightly(m) /\ events' = Append(events, Signal("loginSuccess", t, m)) /\ UNCHANGED out
          \/ events' = Append(events, Signal(m.type, t, m)) /\ UNCHANGED out
          \/ /\ Frame(m) /\ m.type \notin Requests /\ UNCHANGED events
             /\ \E k : Sane(k) /\ ~Frame(k) /\ ~Grouped(k) /\ out' = Written(t, k)
          \/ ~Frame(m) /\ out' = Written(t, m) /\ UNCHANGED events
      BY DealIs DEF m
    <2>. QED BY <2>2, <2>3, <2>4, <2>5, <2>6
  <1>5. \A s \in Thread : s # t => out'[s] = out[s]
    BY <1>1, <1>4, WrittenIs
  <1>6. ASSUME NEW s \in Thread, NEW g \in Group, NEW n, n = joins[s][g]
        PROVE  Joins(s, g, n)'
    <2>1. n \in Nat /\ Joins(s, g, n)
      BY <1>6 DEF Joining, Shape, ClientShape
    <2>2. List(msgQueue[s]) /\ List(inbox[s]) /\ List(events) /\ List(out[s])
      BY QueueLists
    <2>3. ASSUME Unheard(msgQueue[s], g), Unheard(out[s], g)
          PROVE  Unheard(msgQueue'[s], g) /\ Unheard(out'[s], g)
      <3>1. CASE s # t
        BY <1>3, <1>5, <2>3, <3>1
      <3>2. CASE s = t
        <4>1. Unheard(Tail(msgQueue[s]), g) /\ ~About(m, g)
          BY <1>1, <2>2, <2>3, <3>2, UnheardTail
        <4>2. CASE out' = out
          BY <1>3, <2>3, <3>2, <4>1, <4>2
        <4>3. CASE ~peer[t]
          <5>1. out'[t] = out[t]
            BY <1>1, <1>4, <4>3, WrittenIs
          <5>. QED BY <1>3, <2>3, <3>2, <4>1, <5>1
        <4>4. ASSUME peer[t], NEW k, Sane(k), ~Frame(k), ~About(k, g), out' = Written(t, k)
              PROVE  Unheard(out'[s], g)
          <5>1. out'[t] = Append(out[t], k)
            BY <4>4, WrittenIs
          <5>. QED BY <2>2, <2>3, <3>2, <4>4, <5>1, UnheardAppend
        <4>5. Unheard(msgQueue'[s], g)
          BY <1>3, <3>2, <4>1
        <4>6. \A k : ~Grouped(k) => ~About(k, g)
          BY DEF About
        <4>. QED BY <1>1, <1>4, <4>1, <4>2, <4>3, <4>4, <4>5, <4>6
      <3>. QED BY <3>1, <3>2
    <2>4. \A a : Stands(s, g, a) => Stands(s, g, a)'
      BY <1>1, <2>3 DEF Stands, Dialogs
    <2>5. \A d : Leaves(s, g, d) => Leaves(s, g, d)'
      BY <1>1 DEF Leaves, Dialogs
    <2>6. PICK a, b, c, d \in Standing(n) :
              /\ Stands(s, g, a) /\ Signals(events, s, g, n, a, b)
              /\ Asks(msgQueue[s], g, n, b, c) /\ Asks(inbox[s], g, n, c, d)
              /\ Leaves(s, g, d)
      BY <2>1 DEF Joins
    <2>7. CASE s # t
      <3>1. Signals(events', s, g, n, a, b)
        BY <1>4, <2>1, <2>2, <2>6, <2>7, SignalsAppend
      <3>. QED BY <1>1, <1>3, <2>4, <2>5, <2>6, <2>7, <3>1 DEF Joins
    <2>8. CASE s = t
      <3>1. PICK z \in Standing(n) : <<b, z>> \in Asked(m, g, n) /\ Asks(Tail(msgQueue[s]), g, n, z, c)
        BY <1>1, <2>1, <2>2, <2>6, <2>8, AsksTail
      <3>. HIDE DEF m
      <3>2. Signals(events', s, g, n, a, z)
        <4>1. CASE events' = Append(events, e) /\ e.thread = t /\ e.msg = m
          BY <2>1, <2>2, <2>6, <2>8, <3>1, <4>1, SignalsAppend
        <4>2. CASE events' = events /\ m.type \notin {"joinGroup", "leaveGroup"}
          <5>1. b = z
            BY <2>1, <3>1, <4>2, AskedIs, StageStill
          <5>. QED BY <2>6, <4>2, <5>1
        <4>. QED BY <1>4, <4>1, <4>2
      <3>3. Asks(msgQueue'[s], g, n, z, c)
        BY <1>3, <2>8, <3>1
      <3>. QED BY <1>1, <2>4, <2>5, <2>6, <3>1, <3>2, <3>3 DEF Joins
    <2>. QED BY <2>7, <2>8
  <1>. QED BY <1>1, <1>2, <1>6 DEF Joining, Unjoined

\* A thread ends: its requests are lost, and nobody is there to be told.
LEMMA JoiningEnds ==
  ASSUME Shape, Joining, NEW t \in Thread, Ends(t), UNCHANGED clientVars
  PROVE  Joining'
  <1>. DEFINE e == Signal("userOffline", t, UserOffline(user[t]))
  <1>1. /\ ~peer[t] /\ e.thread = t /\ e.msg.type = "userOffline"
        /\ events' = Append(events, e)
        /\ inbox' = [inbox EXCEPT ![t] = <<>>] /\ msgQueue' = [msgQueue EXCEPT ![t] = <<>>]
        /\ UNCHANGED <<peer, out, groups, win, members, joins>>
    BY EndsIs DEF clientVars, Signal, UserOffline
  <1>2. \A s \in Thread : Pending(s)' => Pending(s)
    BY WorkerPending
  <1>3. /\ msgQueue'[t] = <<>> /\ inbox'[t] = <<>>
        /\ \A s \in Thread : s # t => msgQueue'[s] = msgQueue[s] /\ inbox'[s] = inbox[s]
    BY <1>1 DEF Shape, ServerShape
  <1>. HIDE DEF e
  <1>4. ASSUME NEW s \in Thread, NEW g \in Group, NEW n, n = joins[s][g]
        PROVE  Joins(s, g, n)'
    <2>1. n \in Nat /\ Joins(s, g, n)
      BY <1>4 DEF Joining, Shape, ClientShape
    <2>2. List(events)
      BY QueueLists
    <2>3. Unheard(msgQueue[s], g) => Unheard(msgQueue'[s], g)
      BY <1>3, UnheardNone
    <2>4. \A a : Stands(s, g, a) => Stands(s, g, a)'
      BY <1>1, <2>3 DEF Stands, Dialogs
    <2>5. \A d : Leaves(s, g, d) => Leaves(s, g, d)'
      BY <1>1 DEF Leaves, Dialogs
    <2>6. PICK a, b, c, d \in Standing(n) :
              /\ Stands(s, g, a) /\ Signals(events, s, g, n, a, b)
              /\ Asks(msgQueue[s], g, n, b, c) /\ Asks(inbox[s], g, n, c, d)
              /\ Leaves(s, g, d)
      BY <2>1 DEF Joins
    <2>7. Signals(events', s, g, n, a, b)
      <3>1. Asked(e.msg, g, n) = {<<k, k>> : k \in Stages} /\ b \in Stages
        BY <1>1, <2>1, AskedIs, StandingIs
      <3>2. <<b, b>> \in Asked(e.msg, g, n)
        BY <3>1
      <3>. QED BY <1>1, <2>1, <2>2, <2>6, <3>2, SignalsAppend
    <2>8. CASE s # t
      BY <1>1, <1>3, <2>4, <2>5, <2>6, <2>7, <2>8 DEF Joins
    <2>9. CASE s = t
      <3>1. Asks(msgQueue'[s], g, n, b, b) /\ Asks(inbox'[s], g, n, b, b)
        BY <1>3, <2>1, <2>9, AsksNone
      <3>2. Leaves(s, g, b)'
        BY <1>1, <2>9 DEF Leaves
      <3>. QED BY <1>1, <2>4, <2>6, <2>7, <3>1, <3>2 DEF Joins
    <2>. QED BY <2>8, <2>9
  <1>. QED BY <1>1, <1>2, <1>4 DEF Joining, Unjoined

\* x is pushed, and nothing in it is about a group's members.
Aside(x) == Pushes(x) /\ \A t \in Thread : \A m \in Held(x[t]) : ~Grouped(m)

\* The slots by what they do to the groups.
LEMMA SlotGroups ==
  ASSUME Shape, AnySlot, UNCHANGED clientVars, NEW e, e = events[1]
  PROVE  /\ SlotFrame /\ e.thread \in Thread
         /\ \/ /\ e.msg.type \notin {"joinGroup", "leaveGroup"} /\ UNCHANGED groups
               /\ UNCHANGED msgQueue \/ \E x : Aside(x)
            \/ /\ e.msg.type = "joinGroup" /\ e.msg.group \in Group
               /\ Pushes(JoinGives(e.thread, e.msg.group))
               /\ groups' = [groups EXCEPT ![e.msg.group] = Joined(e.thread, e.msg.group)]
            \/ /\ e.msg.type = "leaveGroup" /\ e.msg.group \in Group
               /\ Pushes(LeaveGives(e.thread, e.msg.group))
               /\ groups' = [groups EXCEPT ![e.msg.group] = Others(e.thread, e.msg.group)]
  <1>1. SlotFrame /\ e.thread \in Thread
    BY SlotIs
  <1>2. SaneSignal(e)
    BY <1>1, SignalIs DEF SlotFrame, Shape
  <1>3. /\ e.type = "loginSuccess" =>
              UNCHANGED groups /\ (UNCHANGED msgQueue \/ Pushes(LoginGives(e.thread, e.msg.id)))
        /\ e.type = "sendMsg" => UNCHANGED groups /\ Pushes(PrivateGives(e.msg))
        /\ e.type = "userOffline" => UNCHANGED groups /\ Pushes(OfflineGives(e.msg.id))
        /\ e.type = "createGroup" => UNCHANGED groups /\ Pushes(CreateGives(e.thread))
        /\ e.type = "searchGroup" => UNCHANGED groups /\ Pushes(SearchGives(e.thread))
        /\ e.type = "joinGroup" =>
              /\ e.msg.group \in Group /\ Pushes(JoinGives(e.thread, e.msg.group))
              /\ groups' = [groups EXCEPT ![e.msg.group] = Joined(e.thread, e.msg.group)]
        /\ e.type = "leaveGroup" =>
              /\ e.msg.group \in Group /\ Pushes(LeaveGives(e.thread, e.msg.group))
              /\ groups' = [groups EXCEPT ![e.msg.group] = Others(e.thread, e.msg.group)]
        /\ e.type = "sendGroupMsg" => UNCHANGED groups /\ Pushes(GroupGives(e.thread, e.msg))
        /\ e.type \in {"loginSuccess", "userOffline", "sendMsg", "createGroup", "searchGroup",
                       "sendGroupMsg", "joinGroup", "leaveGroup"}
    <2>1. ASSUME e.type = "loginSuccess"
          PROVE  UNCHANGED groups /\ (UNCHANGED msgQueue \/ Pushes(LoginGives(e.thread, e.msg.id)))
      BY <2>1, SlotIs
    <2>2. ASSUME e.type = "sendMsg"
          PROVE  UNCHANGED groups /\ Pushes(PrivateGives(e.msg))
      BY <2>2, SlotIs
    <2>3. ASSUME e.type = "userOffline"
          PROVE  UNCHANGED groups /\ Pushes(OfflineGives(e.msg.id))
      BY <2>3, SlotIs
    <2>4. ASSUME e.type = "createGroup"
          PROVE  UNCHANGED groups /\ Pushes(CreateGives(e.thread))
      BY <2>4, SlotIs
    <2>5. ASSUME e.type = "searchGroup"
          PROVE  UNCHANGED groups /\ Pushes(SearchGives(e.thread))
      BY <2>5, SlotIs
    <2>6. ASSUME e.type = "joinGroup"
          PROVE  /\ e.msg.group \in Group /\ Pushes(JoinGives(e.thread, e.msg.group))
                 /\ groups' = [groups EXCEPT ![e.msg.group] = Joined(e.thread, e.msg.group)]
      BY <2>6, SlotIs
    <2>7. ASSUME e.type = "leaveGroup"
          PROVE  /\ e.msg.group \in Group /\ Pushes(LeaveGives(e.thread, e.msg.group))
                 /\ groups' = [groups EXCEPT ![e.msg.group] = Others(e.thread, e.msg.group)]
      BY <2>7, SlotIs
    <2>8. ASSUME e.type = "sendGroupMsg"
          PROVE  UNCHANGED groups /\ Pushes(GroupGives(e.thread, e.msg))
      BY <2>8, SlotIs
    <2>9. e.type \in {"loginSuccess", "userOffline", "sendMsg", "createGroup", "searchGroup",
                      "sendGroupMsg", "joinGroup", "leaveGroup"}
      BY SlotIs
    <2>. QED BY <2>1, <2>2, <2>3, <2>4, <2>5, <2>6, <2>7, <2>8, <2>9
  <1>4. /\ e.type = "loginSuccess" => e.msg.type \notin {"joinGroup", "leaveGroup"}
        /\ e.type = "userOffline" => e.msg.type \notin {"joinGroup", "leaveGroup"}
        /\ e.type \in Requests => e.msg.type = e.type
    BY <1>2 DEF SaneSignal
  <1>5. ASSUME Pushes(LoginGives(e.thread, e.msg.id))
        PROVE  Aside(LoginGives(e.thread, e.msg.id))
    <2>. DEFINE u == e.msg.id
                reply == LoginSucReturn(u, InOrder(Online))
    <2>1. ASSUME NEW t \in Thread
          PROVE  \A m \in Held(LoginGives(e.thread, u)[t]) : ~Grouped(m)
      <3>. DEFINE q == ForUsers(t, UserOnline(u))
                  r == Replay(u)
      <3>1. List(q) /\ \A m \in Held(q) : m = UserOnline(u)
        BY ForUsersAre DEF Held
      <3>2. List(r) /\ \A m \in Held(r) : \E v, p : m = ReceiveMsg(v, u, p)
        <4>1. List(rows)
          BY DEF Shape, ServerShape
        <4>. QED BY <4>1, ReplayIs DEF Held
      <3>3. /\ ~Grouped(UserOnline(u)) /\ ~Grouped(reply)
            /\ \A v, p : ~Grouped(ReceiveMsg(v, u, p))
        BY DEF Grouped, UserOnline, LoginSucReturn, ReceiveMsg
      <3>. HIDE DEF q, r, reply
      <3>4. List(<<reply>>) /\ Held(<<reply>>) = {reply} /\ List(<<>>) /\ Held(<<>>) = {}
        BY OneList, HeldOne, EmptyList, HeldEmpty
      <3>5. List(<<reply>> \o r) /\ \A m \in Held(<<reply>> \o r) : ~Grouped(m)
        <4>1. List(<<reply>> \o r)
          BY <3>2, <3>4, ConcatList
        <4>2. Held(<<reply>> \o r) = Held(<<reply>>) \cup Held(r)
          BY <3>2, <3>4, HeldConcat
        <4>. QED BY <3>2, <3>3, <3>4, <4>1, <4>2
      <3>6. /\ \A m \in Held(q \o (<<reply>> \o r)) : ~Grouped(m)
            /\ \A m \in Held(q \o <<>>) : ~Grouped(m)
        BY <3>1, <3>3, <3>4, <3>5, HeldConcat
      <3>7. LoginGives(e.thread, u)[t] = q \o IF t = e.thread THEN <<reply>> \o r ELSE <<>>
        BY DEF LoginGives, q, r, reply
      <3>8. CASE t = e.thread
        BY <3>6, <3>7, <3>8
      <3>9. CASE t # e.thread
        BY <3>6, <3>7, <3>9
      <3>. QED BY <3>8, <3>9
    <2>. QED BY <1>5, <2>1 DEF Aside
  <1>6. ASSUME Pushes(OfflineGives(e.msg.id))
        PROVE  Aside(OfflineGives(e.msg.id))
    <2>. DEFINE u == e.msg.id
    <2>1. ASSUME NEW t \in Thread
          PROVE  \A m \in Held(OfflineGives(u)[t]) : ~Grouped(m)
      <3>. DEFINE k == Cardinality(LeftOn(u, t))
                  q == [i \in 1 .. k |-> UserOffline(u)]
      <3>1. k \in Nat
        <4>1. LeftOn(u, t) \subseteq Online
          BY DEF LeftOn
        <4>2. IsFiniteSet(Online)
          BY OnlineAre
        <4>3. IsFiniteSet(LeftOn(u, t))
          BY <4>1, <4>2, FS_Subset
        <4>. QED BY <4>3, FS_CardinalityType
      <3>2. ~Grouped(UserOffline(u))
        BY DEF Grouped, UserOffline
      <3>. HIDE DEF k
      <3>3. Len(q) = k /\ \A i \in 1 .. k : q[i] = UserOffline(u)
        BY <3>1, FcnList
      <3>4. OfflineGives(u)[t] = q
        BY DEF OfflineGives, k
      <3>. HIDE DEF q
      <3>. QED BY <3>2, <3>3, <3>4 DEF Held
    <2>. QED BY <1>6, <2>1 DEF Aside
  <1>7. ASSUME NEW x, Pushes(x), NEW n, ~Grouped(n), \A t \in Thread : x[t] = <<n>> \/ x[t] = <<>>
        PROVE  Aside(x)
    BY <1>7, HeldOne, HeldEmpty DEF Aside
  <1>8. ASSUME Pushes(PrivateGives(e.msg))
        PROVE  Aside(PrivateGives(e.msg))
    <2>. DEFINE n == ReceiveMsg(e.msg.from, e.msg.to, e.msg.msg)
    <2>1. ~Grouped(n)
      BY DEF Grouped, ReceiveMsg
    <2>2. \A t \in Thread : PrivateGives(e.msg)[t] = <<n>> \/ PrivateGives(e.msg)[t] = <<>>
      BY DEF PrivateGives
    <2>. HIDE DEF n
    <2>. QED BY <1>7, <1>8, <2>1, <2>2
  <1>9. ASSUME Pushes(CreateGives(e.thread))
        PROVE  Aside(CreateGives(e.thread))
    <2>. DEFINE n == CreateGroupReturn(createGroupId)
    <2>1. ~Grouped(n)
      BY DEF Grouped, CreateGroupReturn
    <2>2. \A t \in Thread : CreateGives(e.thread)[t] = <<n>> \/ CreateGives(e.thread)[t] = <<>>
      BY DEF CreateGives
    <2>. HIDE DEF n
    <2>. QED BY <1>7, <1>9, <2>1, <2>2
  <1>10. ASSUME Pushes(SearchGives(e.thread))
         PROVE  Aside(SearchGives(e.thread))
    <2>. DEFINE n == SearchGroupReturn(IF tables THEN 1 .. createGroupId - 1 ELSE {})
    <2>1. ~Grouped(n)
      BY DEF Grouped, SearchGroupReturn
    <2>2. \A t \in Thread : SearchGives(e.thread)[t] = <<n>> \/ SearchGives(e.thread)[t] = <<>>
      BY DEF SearchGives
    <2>. HIDE DEF n
    <2>. QED BY <1>7, <1>10, <2>1, <2>2
  <1>11. ASSUME Pushes(GroupGives(e.thread, e.msg))
         PROVE  Aside(GroupGives(e.thread, e.msg))
    <2>. DEFINE n == ReceiveGroupMsg(e.msg.id, e.msg.group, e.msg.msg)
    <2>1. ~Grouped(n)
      BY DEF Grouped, ReceiveGroupMsg
    <2>2. \A t \in Thread : GroupGives(e.thread, e.msg)[t] = <<n>> \/ GroupGives(e.thread, e.msg)[t] = <<>>
      BY DEF GroupGives
    <2>. HIDE DEF n
    <2>. QED BY <1>7, <1>11, <2>1, <2>2
  <1>12. e.type \in Requests \ {"joinGroup", "leaveGroup"} => e.msg.type \notin {"joinGroup", "leaveGroup"}
    BY <1>4
  <1>13. /\ {"sendMsg", "createGroup", "searchGroup", "sendGroupMsg"} \subseteq Requests \ {"joinGroup", "leaveGroup"}
         /\ {"joinGroup", "leaveGroup"} \subseteq Requests
    BY DEF Requests
  <1>14. CASE e.type = "loginSuccess"
    BY <1>1, <1>3, <1>4, <1>5, <1>14
  <1>15. CASE e.type = "userOffline"
    BY <1>1, <1>3, <1>4, <1>6, <1>15
  <1>16. CASE e.type \in {"sendMsg", "createGroup", "searchGroup", "sendGroupMsg"}
    <2>1. e.msg.type \notin {"joinGroup", "leaveGroup"}
      BY <1>12, <1>13, <1>16
    <2>2. UNCHANGED groups /\ \E x : Aside(x)
      BY <1>3, <1>8, <1>9, <1>10, <1>11, <1>16
    <2>. QED BY <1>1, <2>1, <2>2
  <1>17. CASE e.type \in {"joinGroup", "leaveGroup"}
    <2>1. e.msg.type = e.type
      BY <1>4, <1>13, <1>17
    <2>. QED BY <1>1, <1>3, <1>17, <2>1
  <1>. QED BY <1>3, <1>14, <1>15, <1>16, <1>17

\* What a slot pushes changes nothing about the requests in a queue.
LEMMA PushedAsks ==
  ASSUME Shape, NEW x, Pushes(x), NEW t \in Thread, NEW g, NEW n \in Nat, NEW b, NEW c,
         Asks(msgQueue[t], g, n, b, c)
  PROVE  Asks(msgQueue'[t], g, n, b, c)
  <1>1. /\ List(x[t]) /\ List(msgQueue[t]) /\ Notices(x[t])
        /\ worker[t] = "ended" => msgQueue'[t] = <<>> /\ msgQueue[t] = <<>>
        /\ worker[t] # "ended" => msgQueue'[t] = msgQueue[t] \o x[t]
    BY PushedHeld
  <1>2. c \in Standing(n)
    BY <1>1, AsksIn
  <1>3. Asks(x[t], g, n, c, c)
    BY <1>1, <1>2, AsksStill
  <1>4. Asks(msgQueue[t] \o x[t], g, n, b, c)
    BY <1>1, <1>3, AsksConcat
  <1>. QED BY <1>1, <1>4

\* A group after a join and after a leaving.
LEMMA GroupsAfter ==
  ASSUME Shape, NEW thread \in Thread, NEW h \in Group, NEW g \in Group
  PROVE  /\ groups' = [groups EXCEPT ![h] = Joined(thread, h)] =>
               /\ Range(groups'[g]) = IF g = h THEN Range(groups[g]) \cup {thread} ELSE Range(groups[g])
               /\ groups'[g] = IF g = h THEN Joined(thread, g) ELSE groups[g]
         /\ groups' = [groups EXCEPT ![h] = Others(thread, h)] =>
               /\ Range(groups'[g]) = IF g = h THEN Range(groups[g]) \ {thread} ELSE Range(groups[g])
               /\ groups'[g] = IF g = h THEN Others(thread, g) ELSE groups[g]
  <1>1. ServerShape /\ groups \in [Group -> Seq(Thread)] /\ IsInjective(groups[h])
    BY DEF Shape, ServerShape
  <1>2. Range(Joined(thread, h)) = Range(groups[h]) \cup {thread}
    BY <1>1, JoinedAre
  <1>3. Range(Others(thread, h)) = Range(groups[h]) \ {thread}
    BY <1>1, OthersAre
  <1>. QED BY <1>1, <1>2, <1>3

\* Nothing about a group is pushed to a thread that is not in it.
LEMMA PushedUnheard ==
  ASSUME Shape, NEW x, Pushes(x), NEW t \in Thread, NEW g, Unheard(x[t], g), Unheard(msgQueue[t], g)
  PROVE  Unheard(msgQueue'[t], g)
  BY PushedHeld DEF Unheard

\* Whom a join and a leaving tell.
LEMMA GroupGets ==
  ASSUME Shape, NEW thread \in Thread, NEW h \in Group, NEW t \in Thread
  PROVE  /\ t # thread /\ t \notin Range(groups[h]) => JoinGives(thread, h)[t] = <<>>
         /\ t # thread /\ t \in Range(groups[h]) =>
               JoinGives(thread, h)[t] = <<UserJoinGroup(user[thread], h)>>
         /\ JoinGives(thread, h)[thread] = <<JoinGroupReturn(h, UsersOf(Joined(thread, h)))>>
         /\ t = thread \/ t \notin Range(groups[h]) => LeaveGives(thread, h)[t] = <<>>
         /\ t # thread /\ t \in Range(groups[h]) =>
               LeaveGives(thread, h)[t] = <<UserLeaveGroup(user[thread], h)>>
  <1>1. ServerShape /\ groups \in [Group -> Seq(Thread)] /\ IsInjective(groups[h])
    BY DEF Shape, ServerShape
  <1>2. Range(Joined(thread, h)) = Range(groups[h]) \cup {thread}
    BY <1>1, JoinedAre
  <1>3. Range(Others(thread, h)) = Range(groups[h]) \ {thread}
    BY <1>1, OthersAre
  <1>. DEFINE reply == JoinGroupReturn(h, UsersOf(Joined(thread, h)))
              on == UserJoinGroup(user[thread], h)
              off == UserLeaveGroup(user[thread], h)
  <1>4. /\ JoinGives(thread, h)[thread] = <<reply>>
        /\ t # thread /\ t \in Range(groups[h]) => JoinGives(thread, h)[t] = <<on>>
        /\ t # thread /\ t \notin Range(groups[h]) => JoinGives(thread, h)[t] = <<>>
    BY <1>2 DEF JoinGives
  <1>5. /\ t # thread /\ t \in Range(groups[h]) => LeaveGives(thread, h)[t] = <<off>>
        /\ t = thread \/ t \notin Range(groups[h]) => LeaveGives(thread, h)[t] = <<>>
    BY <1>3 DEF LeaveGives
  <1>. HIDE DEF reply, on, off
  <1>. QED BY <1>4, <1>5 DEF reply, on, off

\* Nobody hears of another group.
LEMMA GroupElse ==
  ASSUME Shape, NEW thread \in Thread, NEW h \in Group, NEW t \in Thread, NEW g, g # h
  PROVE  Unheard(JoinGives(thread, h)[t], g) /\ Unheard(LeaveGives(thread, h)[t], g)
  <1>. DEFINE reply == JoinGroupReturn(h, UsersOf(Joined(thread, h)))
              on == UserJoinGroup(user[thread], h)
              off == UserLeaveGroup(user[thread], h)
  <1>1. ~About(reply, g) /\ ~About(on, g) /\ ~About(off, g)
    BY DEF About, JoinGroupReturn, UserJoinGroup, UserLeaveGroup
  <1>2. /\ JoinGives(thread, h)[t] \in {<<reply>>, <<on>>, <<>>}
        /\ LeaveGives(thread, h)[t] \in {<<off>>, <<>>}
    BY DEF JoinGives, LeaveGives
  <1>. HIDE DEF reply, on, off
  <1>3. Unheard(<<reply>>, g) /\ Unheard(<<on>>, g) /\ Unheard(<<off>>, g) /\ Unheard(<<>>, g)
    BY <1>1, HeldOne, HeldEmpty DEF Unheard
  <1>. QED BY <1>2, <1>3

\* The GUI thread handles a signal: a join or a leaving has arrived.
LEMMA JoiningSlot ==
  ASSUME Shape, LoginInv, Joining, AnySlot, UNCHANGED clientVars
  PROVE  Joining'
  <1>. DEFINE e == events[1]
  <1>1. SlotFrame /\ e.thread \in Thread
    BY SlotIs
  <1>2. events # <<>> /\ events' = Tail(events) /\ UNCHANGED <<peer, inbox, out, win, members, joins>>
    BY <1>1 DEF SlotFrame, clientVars
  <1>3. UNCHANGED msgQueue \/ \E x : Pushes(x)
    BY SlotGroups DEF Aside
  <1>4. \A s \in Thread : Pending(s)' => Pending(s)
    BY <1>1, <1>3, RightPushed
  <1>5. ASSUME NEW s \in Thread, NEW g \in Group, NEW n, n = joins[s][g]
        PROVE  Joins(s, g, n)'
    <2>1. n \in Nat /\ Joins(s, g, n)
      BY <1>5 DEF Joining, Shape, ClientShape
    <2>2. List(events)
      BY QueueLists
    <2>3. PICK a, b, c, d \in Standing(n) :
              /\ Stands(s, g, a) /\ Signals(events, s, g, n, a, b)
              /\ Asks(msgQueue[s], g, n, b, c) /\ Asks(inbox[s], g, n, c, d)
              /\ Leaves(s, g, d)
      BY <2>1 DEF Joins
    <2>4. PICK z \in Standing(n) :
              /\ \/ e.thread = s /\ <<a, z>> \in Asked(e.msg, g, n)
                 \/ e.thread # s /\ a = z
              /\ Signals(events', s, g, n, z, b)
      BY <1>2, <2>1, <2>2, <2>3, SignalsTail
    <2>5. Asks(msgQueue'[s], g, n, b, c)
      BY <1>3, <2>1, <2>3, PushedAsks
    <2>6. Leaves(s, g, d)'
      BY <1>2, <2>3 DEF Leaves, Dialogs
    <2>. HIDE DEF e
    <2>7. Stands(s, g, z)'
      <3>1. SUFFICES /\ z = "in" <=> s \in Range(groups'[g])
                     /\ z = "never" => a = "never" /\ Unheard(msgQueue'[s], g)
        BY <1>2, <2>3 DEF Stands, Dialogs
      <3>2. /\ a = "in" <=> s \in Range(groups[g])
            /\ a = "never" => Unheard(msgQueue[s], g)
        BY <2>3 DEF Stands
      <3>3. ASSUME \/ e.thread # s
                   \/ e.msg.type \notin {"joinGroup", "leaveGroup"}
                   \/ e.msg.group # g
            PROVE  a = z
        BY <2>1, <2>4, <3>3, AskedIs, StageStill
      <3>4. ASSUME e.msg.type \notin {"joinGroup", "leaveGroup"}, UNCHANGED groups,
                   UNCHANGED msgQueue \/ \E x : Aside(x)
            PROVE  /\ z = "in" <=> s \in Range(groups'[g])
                   /\ z = "never" => a = "never" /\ Unheard(msgQueue'[s], g)
        <4>1. a = z
          BY <3>3, <3>4
        <4>2. ASSUME NEW x, Aside(x), Unheard(msgQueue[s], g)
              PROVE  Unheard(msgQueue'[s], g)
          <5>1. Unheard(x[s], g)
            BY <4>2 DEF Aside, Unheard, About
          <5>. QED BY <4>2, <5>1, PushedUnheard DEF Aside
        <4>. QED BY <3>2, <3>4, <4>1, <4>2
      <3>5. ASSUME NEW h \in Group, e.msg.type = "joinGroup", e.msg.group = h,
                   Pushes(JoinGives(e.thread, h)),
                   groups' = [groups EXCEPT ![h] = Joined(e.thread, h)]
            PROVE  /\ z = "in" <=> s \in Range(groups'[g])
                   /\ z = "never" => a = "never" /\ Unheard(msgQueue'[s], g)
        <4>1. Range(groups'[g]) = IF g = h THEN Range(groups[g]) \cup {e.thread} ELSE Range(groups[g])
          BY <1>1, <3>5, GroupsAfter
        <4>2. CASE e.thread = s /\ g = h
          <5>1. z = "in"
            BY <2>1, <2>4, <3>5, <4>2, AskedIs
          <5>. QED BY <4>1, <4>2, <5>1
        <4>3. CASE ~(e.thread = s /\ g = h)
          <5>1. a = z
            BY <3>3, <3>5, <4>3
          <5>2. ASSUME a = "never"
                PROVE  Unheard(JoinGives(e.thread, h)[s], g)
            <6>1. CASE g # h
              BY <1>1, <6>1, GroupElse
            <6>2. CASE g = h
              <7>1. JoinGives(e.thread, h)[s] = <<>>
                BY <1>1, <3>2, <4>3, <5>2, <6>2, GroupGets
              <7>. QED BY <7>1, UnheardNone
            <6>. QED BY <6>1, <6>2
          <5>3. a = "never" => Unheard(msgQueue'[s], g)
            BY <3>2, <3>5, <5>2, PushedUnheard
          <5>. QED BY <3>2, <4>1, <4>3, <5>1, <5>3
        <4>. QED BY <4>2, <4>3
      <3>6. ASSUME NEW h \in Group, e.msg.type = "leaveGroup", e.msg.group = h,
                   Pushes(LeaveGives(e.thread, h)),
                   groups' = [groups EXCEPT ![h] = Others(e.thread, h)]
            PROVE  /\ z = "in" <=> s \in Range(groups'[g])
                   /\ z = "never" => a = "never" /\ Unheard(msgQueue'[s], g)
        <4>1. Range(groups'[g]) = IF g = h THEN Range(groups[g]) \ {e.thread} ELSE Range(groups[g])
          BY <1>1, <3>6, GroupsAfter
        <4>2. CASE e.thread = s /\ g = h
          <5>1. z # "in" /\ (z = "never" => a = "never")
            BY <2>1, <2>4, <3>6, <4>2, AskedIs
          <5>2. LeaveGives(e.thread, h)[s] = <<>>
            BY <1>1, <4>2, GroupGets
          <5>3. a = "never" => Unheard(msgQueue'[s], g)
            BY <3>2, <3>6, <5>2, UnheardNone, PushedUnheard
          <5>. QED BY <4>1, <4>2, <5>1, <5>3
        <4>3. CASE ~(e.thread = s /\ g = h)
          <5>1. a = z
            BY <3>3, <3>6, <4>3
          <5>2. ASSUME a = "never"
                PROVE  Unheard(LeaveGives(e.thread, h)[s], g)
            <6>1. CASE g # h
              BY <1>1, <6>1, GroupElse
            <6>2. CASE g = h
              <7>1. LeaveGives(e.thread, h)[s] = <<>>
                BY <1>1, <3>2, <4>3, <5>2, <6>2, GroupGets
              <7>. QED BY <7>1, UnheardNone
            <6>. QED BY <6>1, <6>2
          <5>3. a = "never" => Unheard(msgQueue'[s], g)
            BY <3>2, <3>6, <5>2, PushedUnheard
          <5>. QED BY <3>2, <4>1, <4>3, <5>1, <5>3
        <4>. QED BY <4>2, <4>3
      <3>. QED BY <3>4, <3>5, <3>6, SlotGroups DEF e
    <2>. QED BY <1>2, <2>3, <2>4, <2>5, <2>6, <2>7 DEF Joins
  <1>. QED BY <1>2, <1>4, <1>5 DEF Joining, Unjoined

\* What MainWindow does to its member lists when it reads a message.
LEMMA MembersRead ==
  ASSUME Shape, NEW t \in Thread, MainReads(t), NEW m, m = out[t][1]
  PROVE  /\ \A s \in Thread : s # t => members'[s] = members[s]
         /\ Dialogs(t)' = Dialogs(t)
         /\ \A g \in Dialogs(t) :
              /\ ~About(m, g) => members'[t][g] = members[t][g]
              /\ About(m, g) /\ m.type = "joinGroupReturn" =>
                    members'[t][g] = members[t][g] \o m.users
              /\ About(m, g) /\ m.type = "userJoinGroup" =>
                    members'[t][g] = Append(members[t][g], m.id)
              /\ About(m, g) /\ m.type = "userLeaveGroup" =>
                    members'[t][g] = Without(members[t][g], m.id)
  <1>. DEFINE old == members[t][m.group]
              Told(us) == [members EXCEPT ![t] = [members[t] EXCEPT ![m.group] = us]]
  <1>1. /\ Head(out[t]) = m
        /\ m.type \in NeedsDialog => m.group \in Dialogs(t)
    <2>1. out[t] # <<>> /\ m.type \in NeedsDialog => m.group \in Dialogs(t)
      BY MainReadsIs
    <2>2. out[t] # <<>> /\ List(out[t])
      BY MainReadsIs, QueueLists
    <2>3. Head(out[t]) = m
      BY <2>2, TailList
    <2>. QED BY <2>1, <2>2, <2>3
  <1>2. members = [s \in Thread |-> members[s]] /\ members[t] = [g \in Dialogs(t) |-> members[t][g]]
    BY DEF Shape, ClientShape
  <1>3. ASSUME NEW us, m.group \in Dialogs(t), members' = Told(us)
        PROVE  /\ \A s \in Thread : s # t => members'[s] = members[s]
               /\ Dialogs(t)' = Dialogs(t)
               /\ members'[t][m.group] = us
               /\ \A g \in Dialogs(t) : g # m.group => members'[t][g] = members[t][g]
    <2>1. /\ members'[t] = [members[t] EXCEPT ![m.group] = us]
          /\ \A s \in Thread : s # t => members'[s] = members[s]
      BY <1>2, <1>3
    <2>. QED BY <1>2, <1>3, <2>1 DEF Dialogs
  <1>4. /\ m.type = "joinGroupReturn" => Grouped(m)
        /\ m.type = "userJoinGroup" => Grouped(m)
        /\ m.type = "userLeaveGroup" => Grouped(m)
        /\ m.type \notin {"joinGroupReturn", "userJoinGroup", "userLeaveGroup"} => ~Grouped(m)
        /\ \A g : About(m, g) <=> Grouped(m) /\ m.group = g
    BY DEF Grouped, About
  <1>5. CASE members' = members /\ \A g \in Dialogs(t) : ~About(m, g)
    BY <1>5 DEF Dialogs
  <1>6. CASE m.type = "joinGroupReturn"
    <2>1. CASE m.group \in Dialogs(t)
      <3>1. members' = Told(old \o m.users)
        BY <1>1, <1>6, <2>1 DEF MainReads
      <3>. HIDE DEF Told
      <3>. QED BY <1>3, <1>4, <1>6, <2>1, <3>1, Zenon
    <2>2. CASE m.group \notin Dialogs(t)
      <3>1. members' = members
        BY <1>1, <1>6, <2>2 DEF MainReads
      <3>. QED BY <1>4, <1>5, <2>2, <3>1
    <2>. QED BY <2>1, <2>2
  <1>7. CASE m.type = "userJoinGroup"
    <2>1. members' = Told(Append(old, m.id))
      BY <1>1, <1>7 DEF MainReads
    <2>2. m.group \in Dialogs(t)
      BY <1>1, <1>7 DEF NeedsDialog
    <2>. HIDE DEF Told
    <2>. QED BY <1>3, <1>4, <1>7, <2>1, <2>2, Zenon
  <1>8. CASE m.type = "userLeaveGroup"
    <2>1. members' = Told(Without(old, m.id))
      BY <1>1, <1>8 DEF MainReads
    <2>2. m.group \in Dialogs(t)
      BY <1>1, <1>8 DEF NeedsDialog
    <2>. HIDE DEF Told
    <2>. QED BY <1>3, <1>4, <1>8, <2>1, <2>2
  <1>9. CASE m.type \notin {"joinGroupReturn", "userJoinGroup", "userLeaveGroup"}
    <2>1. members' = members
      BY <1>1, <1>9 DEF MainReads
    <2>. QED BY <1>4, <1>5, <1>9, <2>1
  <1>. QED BY <1>6, <1>7, <1>8, <1>9

\* Nothing is sent or handled: what is left to do is what was.
LEMMA JoiningStill ==
  ASSUME Shape, Joining, UNCHANGED <<inbox, msgQueue, events, groups, joins>>,
         \A t \in Thread : win'[t] = "login" => win[t] = "login" \/ Unjoined(t),
         \A t \in Thread : Pending(t) => win'[t] # "main",
         \A t \in Thread : Held(out'[t]) \subseteq Held(out[t]),
         \A t \in Thread, g \in Group :
             joins[t][g] > 0 /\ g \in Dialogs(t)' /\ Unheard(out[t], g) =>
                 g \in Dialogs(t) /\ (members[t][g] = <<>> => members'[t][g] = <<>>),
         \A t \in Thread, g \in Group :
             peer'[t] /\ g \notin Dialogs(t)' => joins[t][g] = 0 \/ (peer[t] /\ g \notin Dialogs(t))
  PROVE  Joining'
  <1>1. \A t \in Thread : (Pending(t)' <=> Pending(t)) /\ (Unjoined(t)' <=> Unjoined(t))
    BY DEF Pending, Unjoined
  <1>2. ASSUME NEW t \in Thread, NEW g \in Group, NEW n, n = joins[t][g]
        PROVE  Joins(t, g, n)'
    <2>1. n \in Nat /\ Joins(t, g, n)
      BY <1>2 DEF Joining, Shape, ClientShape
    <2>2. Unheard(out[t], g) => Unheard(out'[t], g)
      BY DEF Unheard
    <2>3. ASSUME NEW a, Stands(t, g, a)
          PROVE  Stands(t, g, a)'
      BY <1>2, <2>1, <2>2, <2>3 DEF Stands
    <2>4. ASSUME NEW d \in Standing(n), Leaves(t, g, d)
          PROVE  Leaves(t, g, d)'
      <3>1. n = 0 => d # "in"
        BY <2>1, StandingIs
      <3>. QED BY <1>2, <2>4, <3>1 DEF Leaves
    <2>. QED BY <2>1, <2>3, <2>4, JoinsKept
  <1>. QED BY <1>1, <1>2 DEF Joining

\* The windows and connections.
LEMMA JoiningWindows ==
  ASSUME Shape, LoginInv, Fresh, Joining, NEW t \in Thread,
         \/ Start(t)
         \/ \E u \in User : OpenChat(t, u)
         \/ \E d \in {"create", "search"} : CloseAsking(t, d)
         \/ \E n \in 1 .. Len(out[t]) : LoginReads(t, n)
         \/ MainReads(t)
         \/ MainCrashes(t)
         \/ \E w \in {"login", "main", "closed"} : Break(t, w)
         \/ \E s \in Thread : Reconnect(t, s)
  PROVE  Joining'
  <1>1. CASE Start(t)
    <2>1. /\ worker[t] = "none"
          /\ UNCHANGED <<inbox, msgQueue, events, groups, joins, out, members>>
          /\ peer' = [peer EXCEPT ![t] = TRUE] /\ win' = [win EXCEPT ![t] = "login"]
      BY <1>1 DEF Start, NewConnection, guiVars
    <2>2. /\ win'[t] = "login"
          /\ \A s \in Thread : s # t => peer'[s] = peer[s] /\ win'[s] = win[s]
      BY <2>1 DEF Shape, ServerShape, ClientShape
    <2>3. \A g \in Group : joins[t][g] = 0
      BY <2>1 DEF Shape, Coupled
    <2>. QED BY <2>1, <2>2, <2>3, JoiningStill DEF Joining, Unjoined, Dialogs
  <1>2. CASE \/ \E u \in User : OpenChat(t, u)
             \/ \E d \in {"create", "search"} : CloseAsking(t, d)
    <2>1. UNCHANGED <<inbox, msgQueue, events, groups, joins, out, members, peer, win>>
      BY <1>2 DEF OpenChat, CloseAsking, serverVars
    <2>. QED BY <2>1, JoiningStill DEF Joining, Dialogs
  <1>3. ASSUME NEW n \in 1 .. Len(out[t]), LoginReads(t, n)
        PROVE  Joining'
    <2>1. /\ out' = [out EXCEPT ![t] = SubSeq(out[t], n + 1, Len(out[t]))]
          /\ UNCHANGED <<inbox, msgQueue, events, groups, joins, members, peer>>
          /\ \/ UNCHANGED win
             \/ /\ \E i \in 1 .. n : Reply(out[t][i])
                /\ win' = [win EXCEPT ![t] = "main"]
      BY <1>3, LoginReadsIs
    <2>2. out'[t] = SubSeq(out[t], n + 1, Len(out[t])) /\ \A s \in Thread : s # t => out'[s] = out[s]
      BY <2>1 DEF Shape, ServerShape
    <2>3. Len(out[t]) \in Nat /\ List(out[t])
      BY QueueLists
    <2>4. n \in 0 .. Len(out[t]) /\ \A i \in 1 .. n : i \in 1 .. Len(out[t])
      BY <2>3
    <2>5. \A s \in Thread : Held(out'[s]) \subseteq Held(out[s])
      BY <2>2, <2>3, <2>4, HeldCut
    <2>6. CASE UNCHANGED win
      BY <2>1, <2>5, <2>6, JoiningStill DEF Joining, Dialogs
    <2>7. ASSUME NEW i \in 1 .. n, Reply(out[t][i]), win' = [win EXCEPT ![t] = "main"]
          PROVE  Joining'
      <3>1. ~Calm(out[t])
        BY <2>4, <2>7 DEF Calm, Held, Personal, Reply
      <3>2. ~Pending(t)
        BY <3>1, PendingEarly, EarlyCalm
      <3>3. win'[t] = "main" /\ \A s \in Thread : s # t => win'[s] = win[s]
        BY <2>7 DEF Shape, ClientShape
      <3>. QED BY <2>1, <2>5, <3>2, <3>3, JoiningStill DEF Joining, Dialogs
    <2>. QED BY <2>1, <2>6, <2>7
  <1>4. CASE MainReads(t)
    <2>. DEFINE m == out[t][1]
    <2>1. /\ out[t] # <<>> /\ out' = [out EXCEPT ![t] = Tail(out[t])]
          /\ UNCHANGED <<inbox, msgQueue, events, groups, joins, peer, win>>
      BY <1>4, MainReadsIs
    <2>2. out'[t] = Tail(out[t]) /\ \A s \in Thread : s # t => out'[s] = out[s]
      BY <2>1 DEF Shape, ServerShape
    <2>3. Held(out'[t]) \subseteq Held(out[t]) /\ m \in Held(out[t])
      BY <2>1, <2>2, QueueLists, HeldTail
    <2>4. /\ \A s \in Thread : s # t => members'[s] = members[s]
          /\ Dialogs(t)' = Dialogs(t)
          /\ \A g \in Dialogs(t) : ~About(m, g) => members'[t][g] = members[t][g]
      BY <1>4, MembersRead
    <2>. HIDE DEF m
    <2>5. ASSUME NEW s \in Thread, NEW g \in Group
          PROVE  /\ Dialogs(s)' = Dialogs(s)
                 /\ g \in Dialogs(s) /\ Unheard(out[s], g) => members'[s][g] = members[s][g]
      <3>1. CASE s = t
        BY <2>3, <2>4, <3>1 DEF Unheard
      <3>2. CASE s # t
        BY <2>4, <3>2 DEF Dialogs
      <3>. QED BY <3>1, <3>2
    <2>. QED BY <2>1, <2>2, <2>3, <2>5, JoiningStill DEF Joining
  <1>5. CASE MainCrashes(t) \/ \E w \in {"login", "main", "closed"} : Break(t, w)
    <2>1. /\ UNCHANGED <<inbox, msgQueue, events, groups, joins, members>>
          /\ out' = [out EXCEPT ![t] = <<>>] /\ peer' = [peer EXCEPT ![t] = FALSE]
          /\ \E w : win' = [win EXCEPT ![t] = w] /\ w \in {win[t], "closed", "crashed"}
      BY <1>5 DEF MainCrashes, Break, guiVars
    <2>2. /\ out'[t] = <<>> /\ \A s \in Thread : s # t => out'[s] = out[s]
          /\ ~peer'[t] /\ \A s \in Thread : s # t => peer'[s] = peer[s] /\ win'[s] = win[s]
          /\ win'[t] \in {win[t], "closed", "crashed"}
      BY <2>1 DEF Shape, ServerShape, ClientShape
    <2>3. \A s \in Thread : Held(out'[s]) \subseteq Held(out[s])
      BY <2>2, HeldEmpty
    <2>4. \A s \in Thread : /\ win'[s] = "login" => win[s] = "login"
                            /\ win'[s] = "main" => win[s] = "main"
                            /\ peer'[s] => peer[s]
      BY <2>2
    <2>. QED BY <2>1, <2>3, <2>4, JoiningStill DEF Joining, Dialogs
  <1>6. ASSUME NEW s \in Thread, Reconnect(t, s)
        PROVE  Joining'
    <2>1. /\ worker[s] = "none" /\ ~peer[t] /\ peer' = [peer EXCEPT ![s] = TRUE] /\ s # t
          /\ UNCHANGED <<inbox, msgQueue, events, groups, joins, out>>
          /\ IsMoved(win, win', t, s, "none") /\ IsMoved(members, members', t, s, <<>>)
      BY <1>6, ReconnectIs
    <2>2. /\ \A r \in Thread : r # s => peer'[r] = peer[r]
          /\ \A r \in Thread : r # t /\ r # s => win'[r] = win[r] /\ members'[r] = members[r]
          /\ members'[t] = <<>> /\ win'[t] = "none"
      BY <2>1 DEF Shape, ServerShape, IsMoved
    <2>3. ~Pending(s)
      BY <2>1, NothingYet
    <2>4. Unjoined(s)
      BY <2>1 DEF Shape, Coupled, Unjoined
    <2>5. \A g : g \notin DOMAIN members'[t]
      BY <2>2
    <2>6. ASSUME NEW r \in Thread
          PROVE  /\ win'[r] = "login" => win[r] = "login" \/ Unjoined(r)
                 /\ Pending(r) => win'[r] # "main"
      BY <2>2, <2>3, <2>4 DEF Joining
    <2>7. ASSUME NEW r \in Thread, NEW g \in Group
          PROVE  /\ joins[r][g] > 0 /\ g \in Dialogs(r)' /\ Unheard(out[r], g) =>
                        g \in Dialogs(r) /\ (members[r][g] = <<>> => members'[r][g] = <<>>)
                 /\ peer'[r] /\ g \notin Dialogs(r)' => joins[r][g] = 0 \/ (peer[r] /\ g \notin Dialogs(r))
      <3>1. CASE r = s
        <4>1. joins[r][g] = 0 /\ ~(joins[r][g] > 0)
          BY <2>4, <3>1 DEF Unjoined
        <4>. QED BY <4>1
      <3>2. CASE r = t
        BY <2>1, <2>2, <2>5, <3>2 DEF Dialogs
      <3>3. CASE r # s /\ r # t
        BY <2>2, <3>3 DEF Dialogs
      <3>. QED BY <3>1, <3>2, <3>3
    <2>. QED BY <2>1, <2>6, <2>7, JoiningStill
  <1>. QED BY <1>1, <1>2, <1>3, <1>4, <1>5, <1>6

\* What clients send: a join when the dialog opens, a leaving when it closes.
LEMMA JoiningClicks ==
  ASSUME Shape, LoginInv, Fresh, Joining, NEW t \in Thread, Clicks(t)
  PROVE  Joining'
  <1>1. PICK m : Sends(t, m)
    BY ClicksSend
  <1>2. /\ UNCHANGED <<peer, msgQueue, out, events, win, groups>>
        /\ \A s \in Thread : s # t => inbox'[s] = inbox[s]
        /\ ~peer[t] => inbox'[t] = inbox[t]
        /\ peer[t] => inbox'[t] = Append(inbox[t], m)
    BY <1>1, SendIs DEF Sends
  <1>3. HasRight(inbox'[t]) => HasRight(inbox[t]) \/ Rightly(m)
    BY <1>2, QueueLists, RightAppend
  <1>4. /\ \A s \in Thread : Pending(s)' => Pending(s) \/ (s = t /\ Rightly(m))
        /\ Rightly(m) => win[t] = "login" /\ m.type = "login"
    BY <1>1, <1>2, <1>3 DEF Pending, Sends, Rightly
  <1>5. List(inbox[t])
    BY QueueLists
  <1>6. CASE m.type \notin {"joinGroup", "leaveGroup"} /\ UNCHANGED <<members, joins>>
    <2>1. ASSUME NEW s \in Thread, NEW g \in Group, NEW n, n = joins[s][g]
          PROVE  Joins(s, g, n)'
      <3>1. n \in Nat /\ Joins(s, g, n)
        BY <2>1 DEF Joining, Shape, ClientShape
      <3>2. PICK a, b, c, d \in Standing(n) :
                /\ Stands(s, g, a) /\ Signals(events, s, g, n, a, b)
                /\ Asks(msgQueue[s], g, n, b, c) /\ Asks(inbox[s], g, n, c, d)
                /\ Leaves(s, g, d)
        BY <3>1 DEF Joins
      <3>3. Asks(inbox'[s], g, n, c, d)
        <4>1. CASE inbox'[s] = inbox[s]
          BY <3>2, <4>1
        <4>2. CASE s = t /\ inbox'[t] = Append(inbox[t], m)
          <5>1. <<d, d>> \in Asked(m, g, n)
            BY <1>6, <3>1, AskedIs, StandingIs
          <5>. QED BY <1>5, <3>1, <3>2, <4>2, <5>1, AsksAppend
        <4>. QED BY <1>2, <4>1, <4>2
      <3>4. Stands(s, g, a)' /\ Leaves(s, g, d)'
        BY <1>2, <1>6, <3>2 DEF Stands, Leaves, Dialogs
      <3>. QED BY <1>2, <3>2, <3>3, <3>4 DEF Joins
    <2>. QED BY <1>2, <1>4, <1>6, <2>1 DEF Joining, Unjoined
  <1>7. CASE m.type = "joinGroup" /\ Join(t, m.group)
    <2>. DEFINE h == m.group
    <2>1. h \in Group
      BY <1>1, <1>7 DEF Sends, Sane
    <2>2. /\ win[t] = "main" /\ h \notin Dialogs(t)
          /\ members' = [members EXCEPT ![t] = [g \in DOMAIN members[t] \cup {h} |->
                                                   IF g = h THEN <<>> ELSE members[t][g]]]
          /\ joins' = [joins EXCEPT ![t][h] = joins[t][h] + 1]
      BY <1>7 DEF Join
    <2>3. ~Pending(t) /\ ~Rightly(m)
      BY <1>7, <2>2 DEF Joining, Rightly
    <2>. HIDE DEF h
    <2>4. /\ members'[t] = [g \in DOMAIN members[t] \cup {h} |-> IF g = h THEN <<>> ELSE members[t][g]]
          /\ \A s \in Thread : s # t => members'[s] = members[s] /\ joins'[s] = joins[s]
          /\ joins'[t][h] = joins[t][h] + 1 /\ \A g \in Group : g # h => joins'[t][g] = joins[t][g]
      BY <2>1, <2>2 DEF Shape, ClientShape
    <2>5. /\ Dialogs(t)' = Dialogs(t) \cup {h} /\ members'[t][h] = <<>>
          /\ \A g \in Dialogs(t) : g # h => members'[t][g] = members[t][g]
          /\ \A s \in Thread : s # t => Dialogs(s)' = Dialogs(s)
      BY <2>4 DEF Dialogs
    <2>6. ASSUME NEW s \in Thread, NEW g \in Group, ~(s = t /\ g = h), NEW n, n = joins[s][g]
          PROVE  joins'[s][g] = n /\ Joins(s, g, n)'
      <3>1. n \in Nat /\ Joins(s, g, n) /\ joins'[s][g] = n
        BY <2>4, <2>6 DEF Joining, Shape, ClientShape
      <3>2. PICK a, b, c, d \in Standing(n) :
                /\ Stands(s, g, a) /\ Signals(events, s, g, n, a, b)
                /\ Asks(msgQueue[s], g, n, b, c) /\ Asks(inbox[s], g, n, c, d)
                /\ Leaves(s, g, d)
        BY <3>1 DEF Joins
      <3>3. Asks(inbox'[s], g, n, c, d)
        <4>1. CASE inbox'[s] = inbox[s]
          BY <3>2, <4>1
        <4>2. CASE s = t /\ inbox'[t] = Append(inbox[t], m)
          <5>1. m.group # g
            BY <2>6, <4>2 DEF h
          <5>2. <<d, d>> \in Asked(m, g, n)
            BY <3>1, <5>1, AskedIs, StandingIs
          <5>. QED BY <1>5, <3>1, <3>2, <4>2, <5>2, AsksAppend
        <4>. QED BY <1>2, <4>1, <4>2
      <3>4. /\ g \in Dialogs(s)' <=> g \in Dialogs(s)
            /\ g \in Dialogs(s) => members'[s][g] = members[s][g]
        BY <2>4, <2>5, <2>6
      <3>5. Stands(s, g, a)' /\ Leaves(s, g, d)'
        BY <1>2, <2>6, <3>1, <3>2, <3>4 DEF Stands, Leaves
      <3>. QED BY <1>2, <3>1, <3>2, <3>3, <3>5 DEF Joins
    <2>7. ASSUME NEW n, n = joins[t][h]
          PROVE  joins'[t][h] = n + 1 /\ Joins(t, h, n + 1)'
      <3>1. n \in Nat /\ n + 1 \in Nat /\ n + 1 > 0 /\ Joins(t, h, n) /\ joins'[t][h] = n + 1
        BY <2>1, <2>4, <2>7 DEF Joining, Shape, ClientShape
      <3>2. PICK a, b, c, d \in Standing(n) :
                /\ Stands(t, h, a) /\ Signals(events, t, h, n, a, b)
                /\ Asks(msgQueue[t], h, n, b, c) /\ Asks(inbox[t], h, n, c, d)
                /\ Leaves(t, h, d)
        BY <3>1 DEF Joins
      <3>3. /\ Standing(n) \subseteq Standing(n + 1) /\ "in" \in Standing(n + 1)
            /\ n = 0 => d = "never"
            /\ d \in Stages
        BY <3>1, StandingIs DEF Stages
      <3>4. /\ Signals(events, t, h, n + 1, a, b)
            /\ Asks(msgQueue[t], h, n + 1, b, c) /\ Asks(inbox[t], h, n + 1, c, d)
        BY <3>1, <3>2, QueueLists, SignalsWider, AsksWider
      <3>5. Stands(t, h, a)'
        BY <1>2, <2>5, <3>2 DEF Stands
      <3>6. CASE ~peer[t]
        <4>1. Leaves(t, h, d)'
          BY <1>2, <3>6 DEF Leaves
        <4>. QED BY <1>2, <3>1, <3>2, <3>3, <3>4, <3>5, <3>6, <4>1 DEF Joins
      <3>7. CASE peer[t]
        <4>1. d # "in"
          BY <2>2, <3>2, <3>7 DEF Leaves, h
        <4>2. n # 0 => n + 1 > 1
          BY <3>1
        <4>3. <<d, "in">> \in Asked(m, h, n + 1)
          BY <1>7, <3>1, <3>3, <4>1, <4>2, AskedIs DEF Stages, h
        <4>4. d \in Standing(n + 1)
          BY <3>3
        <4>5. Asks(Append(inbox[t], m), h, n + 1, c, "in")
          BY <1>5, <3>1, <3>3, <3>4, <4>3, AsksAppend
        <4>6. Leaves(t, h, "in")'
          BY <2>5 DEF Leaves
        <4>. QED BY <1>2, <3>1, <3>2, <3>3, <3>4, <3>5, <3>7, <4>5, <4>6 DEF Joins
      <3>. QED BY <3>1, <3>6, <3>7
    <2>8. ASSUME NEW s \in Thread, NEW g \in Group
          PROVE  Joins(s, g, joins[s][g])'
      <3>1. CASE s = t /\ g = h
        BY <2>7, <3>1
      <3>2. CASE ~(s = t /\ g = h)
        BY <2>6, <3>2
      <3>. QED BY <3>1, <3>2
    <2>9. ASSUME NEW s \in Thread, win'[s] = "login" \/ Pending(s)'
          PROVE  Unjoined(s)'
      <3>1. s # t /\ Unjoined(s)
        BY <1>2, <1>4, <2>2, <2>3, <2>9 DEF Joining
      <3>. QED BY <2>4, <3>1 DEF Unjoined
    <2>10. \A s \in Thread : Pending(s)' => win'[s] # "main"
      BY <1>2, <1>4, <2>3 DEF Joining
    <2>. QED BY <2>8, <2>9, <2>10 DEF Joining
  <1>8. CASE m.type = "leaveGroup" /\ Leave(t, m.group)
    <2>. DEFINE h == m.group
    <2>1. /\ win[t] = "main" /\ h \in Dialogs(t) /\ UNCHANGED joins
          /\ members' = [members EXCEPT ![t] = [g \in DOMAIN members[t] \ {h} |-> members[t][g]]]
      BY <1>8 DEF Leave
    <2>2. ~Rightly(m)
      BY <1>8 DEF Rightly
    <2>. HIDE DEF h
    <2>3. /\ members'[t] = [g \in DOMAIN members[t] \ {h} |-> members[t][g]]
          /\ \A s \in Thread : s # t => members'[s] = members[s]
      BY <2>1 DEF Shape, ClientShape
    <2>4. /\ Dialogs(t)' = Dialogs(t) \ {h}
          /\ \A g \in Dialogs(t) : g # h => members'[t][g] = members[t][g]
          /\ \A s \in Thread : s # t => Dialogs(s)' = Dialogs(s)
      BY <2>3 DEF Dialogs
    <2>5. ASSUME NEW s \in Thread, NEW g \in Group, NEW n, n = joins[s][g]
          PROVE  Joins(s, g, n)'
      <3>1. n \in Nat /\ Joins(s, g, n)
        BY <2>5 DEF Joining, Shape, ClientShape
      <3>2. PICK a, b, c, d \in Standing(n) :
                /\ Stands(s, g, a) /\ Signals(events, s, g, n, a, b)
                /\ Asks(msgQueue[s], g, n, b, c) /\ Asks(inbox[s], g, n, c, d)
                /\ Leaves(s, g, d)
        BY <3>1 DEF Joins
      <3>3. Stands(s, g, a)'
        <4>1. g \in Dialogs(s)' => g \in Dialogs(s) /\ members'[s][g] = members[s][g]
          BY <2>3, <2>4
        <4>. QED BY <1>2, <2>1, <3>2, <4>1 DEF Stands
      <3>4. CASE inbox'[s] = inbox[s]
        <4>1. Leaves(s, g, d)'
          <5>1. CASE s = t
            <6>1. ~peer[t] \/ inbox[t] = Append(inbox[t], m)
              BY <1>2, <3>4, <5>1
            <6>2. inbox[t] # Append(inbox[t], m)
              <7>1. Len(Append(inbox[t], m)) = Len(inbox[t]) + 1 /\ Len(inbox[t]) \in Nat
                BY <1>5, AppendList, ListLen
              <7>. QED BY <7>1
            <6>. QED BY <1>2, <5>1, <6>1, <6>2 DEF Leaves
          <5>2. CASE s # t
            BY <1>2, <2>4, <3>2, <5>2 DEF Leaves
          <5>. QED BY <5>1, <5>2
        <4>. QED BY <1>2, <3>2, <3>3, <3>4, <4>1 DEF Joins
      <3>5. CASE s = t /\ inbox'[t] = Append(inbox[t], m)
        <4>. DEFINE z == IF g # h THEN d ELSE IF d = "never" THEN "never" ELSE "out"
        <4>1. d \in Stages /\ z \in Standing(n)
          BY <3>1, StandingIs DEF Stages
        <4>2. <<d, z>> \in Asked(m, g, n)
          <5>1. CASE g = h
            BY <1>8, <3>1, <4>1, <5>1, AskedIs DEF h
          <5>2. CASE g # h
            <6>1. m.group # g
              BY <5>2 DEF h
            <6>. QED BY <3>1, <4>1, <5>2, <6>1, AskedIs
          <5>. QED BY <5>1, <5>2
        <4>3. Leaves(s, g, z)'
          <5>1. CASE g = h
            BY <5>1 DEF Leaves
          <5>2. CASE g # h
            BY <1>2, <2>4, <3>2, <3>5, <5>2 DEF Leaves
          <5>. QED BY <5>1, <5>2
        <4>. HIDE DEF z
        <4>4. Asks(inbox'[s], g, n, c, z)
          BY <1>5, <3>1, <3>2, <3>5, <4>1, <4>2, AsksAppend
        <4>. QED BY <1>2, <3>2, <3>3, <4>1, <4>3, <4>4 DEF Joins
      <3>. QED BY <1>2, <3>4, <3>5
    <2>. QED BY <1>2, <1>4, <2>1, <2>2, <2>5 DEF Joining, Unjoined
  <1>. QED BY <1>1, <1>6, <1>7, <1>8 DEF Sends

\* Every step keeps it.
LEMMA JoiningNext ==
  ASSUME Shape, LoginInv, Fresh, Joining, [Next]_vars
  PROVE  Joining'
  <1>1. CASE UNCHANGED vars
    <2>1. UNCHANGED <<inbox, msgQueue, events, groups, joins, out, members, peer, win>>
      BY <1>1 DEF vars, serverVars, clientVars
    <2>. QED BY <2>1, JoiningStill DEF Joining, Dialogs
  <1>2. CASE Next
    <2>1. ASSUME NEW t \in Thread, Clicks(t)
          PROVE  Joining'
      BY <2>1, JoiningClicks
    <2>. QED BY <1>2, <2>1, StepIs, JoiningReadFrames, JoiningDeal, JoiningEnds, JoiningSlot,
                JoiningWindows DEF Clicks
  <1>. QED BY <1>1, <1>2

\* At the start nobody has joined a group.
LEMMA JoiningInit ==
  ASSUME Init
  PROVE  Joining
  <1>1. /\ events = <<>>
        /\ \A t \in Thread : inbox[t] = <<>> /\ msgQueue[t] = <<>> /\ out[t] = <<>>
        /\ \A t \in Thread, g \in Group : joins[t][g] = 0 /\ groups[g] = <<>>
    BY DEF Init, ServerInit
  <1>2. \A t \in Thread : ~Pending(t) /\ Unjoined(t)
    BY <1>1, RightEmpty DEF Pending, Unjoined
  <1>3. ASSUME NEW t \in Thread, NEW g \in Group
        PROVE  Joins(t, g, 0)
    <2>1. "never" \in Standing(0) /\ Standing(0) = {"never"}
      BY StandingIs
    <2>2. Stands(t, g, "never")
      <3>1. Range(groups[g]) = {}
        BY <1>1 DEF Range
      <3>. QED BY <1>1, <3>1, UnheardNone DEF Stands
    <2>3. Signals(events, t, g, 0, "never", "never")
      BY <1>1, <2>1, EmptyList, PathNone DEF Signals
    <2>4. Asks(msgQueue[t], g, 0, "never", "never") /\ Asks(inbox[t], g, 0, "never", "never")
      BY <1>1, <2>1, AsksNone
    <2>. QED BY <2>1, <2>2, <2>3, <2>4 DEF Joins, Leaves
  <1>. QED BY <1>1, <1>2, <1>3 DEF Joining

-----------------------------------------------------------------------------
(***************************************************************************)
(* Notices about a group's members.                                        *)
(***************************************************************************)

\* Whether somebody is listed, and whether anybody of the group is that user.
LEMMA ShowsIs ==
  ASSUME NEW list, NEW u, NEW x, NEW g
  PROVE  /\ Shows(list, u, x) => x \in {0, 1} /\ (x = 1 <=> Lists(list, u))
         /\ Once(list, u) => Shows(list, u, IF Lists(list, u) THEN 1 ELSE 0)
         /\ Present(u, g) \in {0, 1}
  BY DEF Shows, Present

\* What messages about other things or other users do, and what notices about the user do.
LEMMA NotedIs ==
  ASSUME NEW m, NEW g, NEW u
  PROVE  /\ ~About(m, g) => Noted(m, g, u) = {<<0, 0>>, <<1, 1>>}
         /\ m.type \in {"userJoinGroup", "userLeaveGroup"} /\ m.id # u =>
              Noted(m, g, u) = {<<0, 0>>, <<1, 1>>}
         /\ About(m, g) /\ m.type = "userJoinGroup" /\ m.id = u => Noted(m, g, u) = {<<0, 1>>}
         /\ About(m, g) /\ m.type = "userLeaveGroup" /\ m.id = u => Noted(m, g, u) = {<<0, 0>>, <<1, 0>>}
         /\ About(m, g) /\ m.type = "joinGroupReturn" =>
              \A x, y : <<x, y>> \in Noted(m, g, u) <=> x = 0 /\ y \in {0, 1} /\ Shows(m.users, u, y)
         /\ About(m, g) => m.type \in {"userJoinGroup", "userLeaveGroup", "joinGroupReturn"}
  <1>1. About(m, g) <=> /\ m.type \in {"joinGroupReturn", "userJoinGroup", "userLeaveGroup"}
                        /\ m.group = g
    BY DEF About, Grouped
  <1>2. CASE m.type = "userJoinGroup" /\ m.group = g /\ m.id = u
    BY <1>1, <1>2 DEF Noted
  <1>3. CASE m.type = "userLeaveGroup" /\ m.group = g /\ m.id = u
    BY <1>1, <1>3 DEF Noted
  <1>4. CASE m.type = "joinGroupReturn" /\ m.group = g
    <2>1. Noted(m, g, u) = {<<0, x>> : x \in {y \in {0, 1} : Shows(m.users, u, y)}}
      BY <1>4 DEF Noted
    <2>. QED BY <1>1, <1>4, <2>1
  <1>5. CASE /\ ~(m.type = "userJoinGroup" /\ m.group = g /\ m.id = u)
             /\ ~(m.type = "userLeaveGroup" /\ m.group = g /\ m.id = u)
             /\ ~(m.type = "joinGroupReturn" /\ m.group = g)
    <2>1. Noted(m, g, u) = {<<0, 0>>, <<1, 1>>}
      BY <1>5 DEF Noted
    <2>. QED BY <1>1, <1>5, <2>1
  <1>. QED BY <1>2, <1>3, <1>4, <1>5

\* No message.
LEMMA NotesNone ==
  ASSUME NEW g, NEW u, NEW x \in {0, 1}, NEW y
  PROVE  Notes(<<>>, g, u, x, y) <=> x = y
  BY EmptyList, PathNone DEF Notes

\* One more message.
LEMMA NotesAppend ==
  ASSUME NEW q, List(q), NEW m, NEW g, NEW u, NEW x, NEW y, NEW z \in {0, 1},
         Notes(q, g, u, x, y), <<y, z>> \in Noted(m, g, u)
  PROVE  Notes(Append(q, m), g, u, x, z)
  <1>. DEFINE r == Append(q, m)
              l == Len(q)
              R == [i \in 1 .. Len(q) |-> Noted(q[i], g, u)]
              Q == [i \in 1 .. Len(r) |-> Noted(r[i], g, u)]
  <1>1. l \in Nat
    BY ListLen
  <1>2. Len(r) = l + 1 /\ (\A i \in 1 .. l : r[i] = q[i]) /\ r[l + 1] = m
    BY AppendList
  <1>3. \A i \in 1 .. l : i \in 1 .. l + 1
    BY <1>1
  <1>4. l + 1 \in 1 .. l + 1
    BY <1>1
  <1>5. (\A i \in 1 .. l : Q[i] = R[i]) /\ Q[l + 1] = Noted(m, g, u)
    BY <1>2, <1>3, <1>4
  <1>6. Path({0, 1}, l, R, x, y)
    BY DEF Notes
  <1>. HIDE DEF r, R, Q, l
  <1>7. Path({0, 1}, l + 1, Q, x, z)
    BY <1>1, <1>5, <1>6, PathMore
  <1>. QED BY <1>2, <1>7 DEF Notes, Q, r

\* The message at the head.
LEMMA NotesTail ==
  ASSUME NEW q, List(q), q # <<>>, NEW g, NEW u, NEW x, NEW y, Notes(q, g, u, x, y)
  PROVE  \E z \in {0, 1} : <<x, z>> \in Noted(q[1], g, u) /\ Notes(Tail(q), g, u, z, y)
  <1>. DEFINE r == Tail(q)
              l == Len(q)
              R == [i \in 1 .. Len(q) |-> Noted(q[i], g, u)]
              Q == [i \in 1 .. Len(r) |-> Noted(r[i], g, u)]
  <1>1. l \in Nat /\ l > 0
    BY ListLen, NoneList
  <1>2. Len(r) = l - 1 /\ \A i \in 1 .. l - 1 : r[i] = q[i + 1]
    BY TailList
  <1>3. \A i \in 1 .. l - 1 : i + 1 \in 1 .. l
    BY <1>1
  <1>4. 1 \in 1 .. l
    BY <1>1
  <1>5. (\A i \in 1 .. l - 1 : Q[i] = R[i + 1]) /\ R[1] = Noted(q[1], g, u)
    BY <1>2, <1>3, <1>4
  <1>. DEFINE S == {0, 1}
  <1>6. Path(S, l, R, x, y)
    BY DEF Notes
  <1>. HIDE DEF r, R, Q, l, S
  <1>7. \E z \in S : <<x, z>> \in R[1] /\ Path(S, l - 1, Q, z, y)
    BY <1>1, <1>5, <1>6, PathFirst
  <1>8. PICK z \in S : <<x, z>> \in Noted(q[1], g, u) /\ Path(S, l - 1, Q, z, y)
    BY <1>5, <1>7
  <1>9. z \in {0, 1}
    BY DEF S
  <1>10. Path({0, 1}, Len(r), Q, z, y)
    BY <1>2, <1>8 DEF S
  <1>. QED BY <1>8, <1>9, <1>10 DEF Notes, Q, r

\* One queue behind another.
LEMMA NotesConcat ==
  ASSUME NEW q, List(q), NEW r, List(r), NEW g, NEW u, NEW x, NEW y, NEW z,
         Notes(q, g, u, x, y), Notes(r, g, u, y, z)
  PROVE  Notes(q \o r, g, u, x, z)
  <1>. DEFINE w == q \o r
              l == Len(q)
              k == Len(r)
              R == [i \in 1 .. Len(q) |-> Noted(q[i], g, u)]
              Q == [i \in 1 .. Len(r) |-> Noted(r[i], g, u)]
              W == [i \in 1 .. Len(w) |-> Noted(w[i], g, u)]
  <1>1. l \in Nat /\ k \in Nat
    BY ListLen
  <1>2. Len(w) = l + k /\ (\A i \in 1 .. l : w[i] = q[i]) /\ \A i \in 1 .. k : w[l + i] = r[i]
    BY ConcatList
  <1>3. (\A i \in 1 .. l : i \in 1 .. l + k) /\ \A i \in 1 .. k : l + i \in 1 .. l + k
    BY <1>1
  <1>4. (\A i \in 1 .. l : W[i] = R[i]) /\ \A i \in 1 .. k : W[l + i] = Q[i]
    BY <1>2, <1>3
  <1>5. Path({0, 1}, l, R, x, y) /\ Path({0, 1}, k, Q, y, z)
    BY DEF Notes
  <1>. HIDE DEF w, R, Q, W, l, k
  <1>6. Path({0, 1}, l + k, W, x, z)
    BY <1>1, <1>4, <1>5, PathConcat
  <1>. QED BY <1>2, <1>6 DEF Notes, W, w

\* A queue with nothing about the group.
LEMMA NotesStill ==
  ASSUME NEW q, List(q), NEW g, Unheard(q, g), NEW u, NEW x \in {0, 1}
  PROVE  Notes(q, g, u, x, x)
  <1>1. Len(q) \in Nat
    BY ListLen
  <1>. DEFINE R == [i \in 1 .. Len(q) |-> Noted(q[i], g, u)]
  <1>2. ASSUME NEW i \in 1 .. Len(q)
        PROVE  <<x, x>> \in R[i]
    <2>1. ~About(q[i], g)
      BY DEF Unheard, Held
    <2>2. Noted(q[i], g, u) = {<<0, 0>>, <<1, 1>>}
      BY <2>1, NotedIs
    <2>. QED BY <2>2
  <1>. HIDE DEF R
  <1>3. Path({0, 1}, Len(q), R, x, x)
    BY <1>1, <1>2, PathStill
  <1>. QED BY <1>3 DEF Notes, R

\* What a window that reads a message about a group does to its list of the members.
LEMMA ShowsRead ==
  ASSUME NEW list \in Seq(Somebody), NEW m, Sane(m), NEW g, NEW u, NEW x, NEW z,
         Shows(list, u, x), <<x, z>> \in Noted(m, g, u), NEW other,
         ~About(m, g) => other = list,
         About(m, g) /\ m.type = "joinGroupReturn" => other = list \o m.users,
         About(m, g) /\ m.type = "userJoinGroup" => other = Append(list, m.id),
         About(m, g) /\ m.type = "userLeaveGroup" => other = Without(list, m.id)
  PROVE  Shows(other, u, z)
  <1>1. Once(list, u) /\ x = IF Lists(list, u) THEN 1 ELSE 0
    BY DEF Shows
  <1>2. ASSUME <<x, z>> \in {<<0, 0>>, <<1, 1>>}
        PROVE  x = z
    BY <1>2
  <1>3. CASE ~About(m, g)
    <2>1. Noted(m, g, u) = {<<0, 0>>, <<1, 1>>}
      BY <1>3, NotedIs
    <2>. QED BY <1>2, <1>3, <2>1
  <1>4. CASE About(m, g) /\ m.type = "userJoinGroup"
    <2>. DEFINE w == m.id
    <2>0. other = Append(list, w)
      BY <1>4
    <2>. HIDE DEF w
    <2>1. /\ Once(list, u) /\ (u = w => ~Lists(list, w)) => Once(other, u)
          /\ Lists(other, u) <=> Lists(list, u) \/ u = w
      BY <2>0, AddedIs
    <2>. USE DEF w
    <2>2. CASE m.id = u
      <3>1. <<x, z>> \in {<<0, 1>>}
        BY <1>4, <2>2, NotedIs
      <3>2. x = 0 /\ z = 1
        BY <3>1
      <3>3. ~Lists(list, u)
        BY <1>1, <3>2
      <3>. QED BY <1>1, <2>1, <2>2, <3>2, <3>3 DEF Shows
    <2>3. CASE m.id # u
      <3>1. x = z
        BY <1>2, <1>4, <2>3, NotedIs
      <3>. QED BY <1>1, <2>1, <2>3, <3>1 DEF Shows
    <2>. QED BY <2>2, <2>3
  <1>5. CASE About(m, g) /\ m.type = "userLeaveGroup"
    <2>1. /\ Once(list, u) => Once(other, u)
          /\ u # m.id => (Lists(other, u) <=> Lists(list, u))
          /\ u = m.id /\ Once(list, m.id) => ~Lists(other, u)
      BY <1>5, WithoutIs
    <2>2. CASE m.id = u
      <3>1. <<x, z>> \in {<<0, 0>>, <<1, 0>>}
        BY <1>5, <2>2, NotedIs
      <3>2. z = 0
        BY <3>1
      <3>. QED BY <1>1, <2>1, <2>2, <3>2 DEF Shows
    <2>3. CASE m.id # u
      <3>1. x = z
        BY <1>2, <1>5, <2>3, NotedIs
      <3>. QED BY <1>1, <2>1, <2>3, <3>1 DEF Shows
    <2>. QED BY <2>2, <2>3
  <1>6. CASE About(m, g) /\ m.type = "joinGroupReturn"
    <2>1. x = 0 /\ Shows(m.users, u, z)
      BY <1>6, NotedIs
    <2>2. ~Lists(list, u)
      BY <1>1, <2>1
    <2>. DEFINE us == m.users
    <2>3. List(list) /\ List(us)
      BY <1>6, SeqList DEF Sane
    <2>4. other = list \o us
      BY <1>6
    <2>. HIDE DEF us
    <2>. DEFINE l == Len(list)
                k == Len(us)
    <2>5. l \in Nat /\ k \in Nat
      BY <2>3, ListLen
    <2>6. Len(other) = l + k /\ (\A i \in 1 .. l : other[i] = list[i]) /\ \A i \in 1 .. k : other[l + i] = us[i]
      BY <2>3, <2>4, ConcatList
    <2>7. \A i \in 1 .. l : list[i] # u
      BY <2>2 DEF Lists
    <2>. HIDE DEF l
    <2>8. /\ \A i \in 1 .. k : l + i \in 1 .. l + k
          /\ \A i \in 1 .. l + k : i \in 1 .. l \/ (i - l \in 1 .. k /\ i = l + (i - l))
      BY <2>5
    <2>9. \A i \in 1 .. l + k : other[i] = u => i - l \in 1 .. k /\ i = l + (i - l) /\ us[i - l] = u
      BY <2>6, <2>7, <2>8
    <2>10. Lists(other, u) <=> Lists(us, u)
      BY <2>6, <2>8, <2>9 DEF Lists
    <2>11. Once(us, u)
      BY <2>1 DEF Shows, us
    <2>12. Once(other, u)
      <3>1. ASSUME NEW i \in 1 .. Len(other), NEW j \in 1 .. Len(other), other[i] = u, other[j] = u
            PROVE  i = j
        <4>1. /\ i - l \in 1 .. k /\ i = l + (i - l) /\ us[i - l] = u
              /\ j - l \in 1 .. k /\ j = l + (j - l) /\ us[j - l] = u
          BY <2>6, <2>9, <3>1
        <4>2. i - l = j - l
          BY <2>11, <4>1 DEF Once
        <4>. QED BY <4>1, <4>2
      <3>. QED BY <3>1 DEF Once
    <2>. QED BY <2>1, <2>10, <2>12 DEF Shows, us
  <1>7. About(m, g) => m.type \in {"userJoinGroup", "userLeaveGroup", "joinGroupReturn"}
    BY NotedIs
  <1>. QED BY <1>3, <1>4, <1>5, <1>6, <1>7

\* The users of threads, of whom u is one at most, list u once at most.
LEMMA UsersShow ==
  ASSUME NEW threads \in Seq(Thread), IsInjective(threads), NEW u, Sole(u)
  PROVE  Shows(UsersOf(threads), u, IF \E s \in Range(threads) : user[s] = u THEN 1 ELSE 0)
  <1>. DEFINE us == UsersOf(threads)
              n == Len(threads)
  <1>1. /\ n \in Nat /\ DOMAIN threads = 1 .. n
        /\ \A i \in 1 .. n : threads[i] \in Thread
    BY LenProperties
  <1>2. Len(us) = n /\ \A i \in 1 .. n : us[i] = user[threads[i]]
    <2>1. us = [i \in 1 .. n |-> user[threads[i]]]
      BY DEF UsersOf
    <2>. HIDE DEF us, n
    <2>. QED BY <1>1, <2>1, FcnList
  <1>. HIDE DEF us
  <1>3. Lists(us, u) <=> \E s \in Range(threads) : user[s] = u
    BY <1>1, <1>2 DEF Lists, Range
  <1>4. Once(us, u)
    <2>1. ASSUME NEW i \in 1 .. n, NEW j \in 1 .. n, us[i] = u, us[j] = u
          PROVE  i = j
      <3>1. threads[i] = threads[j]
        BY <1>1, <1>2, <2>1 DEF Sole
      <3>. QED BY <1>1, <3>1 DEF IsInjective
    <2>. QED BY <1>2, <2>1 DEF Once
  <1>. QED BY <1>3, <1>4 DEF Shows, us

\* One message.
LEMMA NotesOne ==
  ASSUME NEW m, NEW g, NEW u, NEW x \in {0, 1}, NEW y \in {0, 1}, <<x, y>> \in Noted(m, g, u)
  PROVE  Notes(<<m>>, g, u, x, y)
  <1>1. Notes(<<>>, g, u, x, x) /\ List(<<>>)
    BY NotesNone, EmptyList
  <1>2. Notes(Append(<<>>, m), g, u, x, y)
    BY <1>1, NotesAppend
  <1>3. Append(<<>>, m) = <<m>>
    OBVIOUS
  <1>. QED BY <1>2, <1>3

-----------------------------------------------------------------------------
(***************************************************************************)
(* The members a window lists.                                             *)
(***************************************************************************)

\* A client that has not joined a group on this connection is not in it.
LEMMA NotIn ==
  ASSUME Shape, Joining, NEW t \in Thread, NEW g \in Group, joins[t][g] = 0
  PROVE  t \notin Range(groups[g])
  <1>1. Joins(t, g, 0)
    BY DEF Joining
  <1>2. PICK a \in Standing(0) : Stands(t, g, a)
    BY <1>1 DEF Joins
  <1>3. a = "never"
    BY <1>2, StandingIs
  <1>. QED BY <1>2, <1>3 DEF Stands

\* A client whose join has arrived was not in the group, and if it is its only one the
\* client has heard nothing of the group.
LEMMA JoinArrives ==
  ASSUME Shape, Joining, events # <<>>, NEW e, e = events[1], e.thread \in Thread,
         NEW h \in Group, e.msg.type = "joinGroup", e.msg.group = h
  PROVE  /\ e.thread \notin Range(groups[h])
         /\ joins[e.thread][h] = 1 =>
               /\ Unheard(out[e.thread], h) /\ Unheard(msgQueue[e.thread], h)
               /\ h \in Dialogs(e.thread) => members[e.thread][h] = <<>>
  <1>. DEFINE p == e.thread
              n == joins[e.thread][h]
  <1>1. n \in Nat /\ Joins(p, h, n) /\ List(events)
    BY QueueLists DEF Joining, Shape, ClientShape
  <1>. HIDE DEF n
  <1>2. PICK a, b \in Standing(n) : Stands(p, h, a) /\ Signals(events, p, h, n, a, b)
    BY <1>1 DEF Joins
  <1>3. PICK z \in Standing(n) : <<a, z>> \in Asked(e.msg, h, n)
    BY <1>1, <1>2, SignalsTail
  <1>4. a \in {"never", "out"} /\ (n = 1 => a = "never")
    BY <1>1, <1>3, AskedIs
  <1>5. a # "in"
    BY <1>4
  <1>6. ASSUME n = 1
        PROVE  n > 0 /\ a = "never"
    BY <1>4, <1>6
  <1>. QED BY <1>2, <1>5, <1>6 DEF Stands, n

\* Nothing changes for the members.
LEMMA MembersKept ==
  ASSUME MembersInv, UNCHANGED <<groups, user>>,
         \A t \in Thread, g \in Group : Member(t, g)' =>
             /\ Member(t, g) /\ members'[t][g] = members[t][g]
             /\ out'[t] = out[t] /\ msgQueue'[t] = msgQueue[t]
  PROVE  MembersInv'
  <1>1. ASSUME NEW t \in Thread, NEW g \in Group, Member(t, g)', NEW u \in User, Sole(u)'
        PROVE  Listed(members[t][g], out[t], msgQueue[t], g, u)'
    <2>1. Member(t, g) /\ Sole(u) /\ Present(u, g)' = Present(u, g)
      BY <1>1 DEF Sole, Present
    <2>2. Listed(members[t][g], out[t], msgQueue[t], g, u)
      BY <1>1, <2>1 DEF MembersInv, Heard
    <2>. QED BY <1>1, <2>1, <2>2 DEF Listed
  <1>. QED BY <1>1 DEF MembersInv, Heard

\* What a slot pushes to a member leads from those present to those present afterwards.
LEMMA HeardPushed ==
  ASSUME Shape, MembersInv, NEW t \in Thread, NEW g \in Group, Member(t, g), NEW x, Pushes(x),
         members' = members, out' = out, user' = user,
         \A u \in User : Sole(u) => Notes(x[t], g, u, Present(u, g), Present(u, g)')
  PROVE  Heard(t, g)'
  <1>1. worker[t] = "running"
    BY DEF Member, Shape, Coupled
  <1>2. List(x[t]) /\ List(msgQueue[t]) /\ msgQueue'[t] = msgQueue[t] \o x[t]
    BY <1>1, PushedHeld
  <1>3. ASSUME NEW u \in User, Sole(u)'
        PROVE  Listed(members[t][g], out[t], msgQueue[t], g, u)'
    <2>1. Sole(u)
      BY <1>3 DEF Sole
    <2>2. PICK y, z \in {0, 1} :
              /\ Shows(members[t][g], u, y) /\ Notes(out[t], g, u, y, z)
              /\ Notes(msgQueue[t], g, u, z, Present(u, g))
      BY <1>3, <2>1 DEF MembersInv, Heard, Listed
    <2>3. Notes(msgQueue'[t], g, u, z, Present(u, g)')
      BY <1>2, <2>1, <2>2, NotesConcat
    <2>. QED BY <2>2, <2>3 DEF Listed
  <1>. QED BY <1>3 DEF Heard

\* A thread reads its frames: no notices are among them.
LEMMA MembersReadFrames ==
  ASSUME Shape, MembersInv, NEW t \in Thread, ReadFrames(t), UNCHANGED clientVars
  PROVE  MembersInv'
  <1>1. /\ msgQueue' = [msgQueue EXCEPT ![t] = msgQueue[t] \o inbox[t]]
        /\ UNCHANGED <<peer, out, user, groups, win, members, joins>>
    BY DEF ReadFrames, guiVars, clientVars
  <1>2. /\ msgQueue'[t] = msgQueue[t] \o inbox[t]
        /\ \A s \in Thread : s # t => msgQueue'[s] = msgQueue[s]
    BY <1>1 DEF Shape, ServerShape
  <1>3. List(msgQueue[t]) /\ List(inbox[t]) /\ Frames(inbox[t])
    BY QueueLists DEF Shape, ServerShape
  <1>4. ASSUME NEW s \in Thread, NEW g \in Group, Member(s, g)', NEW u \in User, Sole(u)'
        PROVE  Listed(members[s][g], out[s], msgQueue[s], g, u)'
    <2>1. Member(s, g) /\ Sole(u) /\ Present(u, g)' = Present(u, g)
      BY <1>1, <1>4 DEF Member, Dialogs, Sole, Present
    <2>2. PICK y, z \in {0, 1} :
              /\ Shows(members[s][g], u, y) /\ Notes(out[s], g, u, y, z)
              /\ Notes(msgQueue[s], g, u, z, Present(u, g))
      BY <1>4, <2>1 DEF MembersInv, Heard, Listed
    <2>3. Notes(msgQueue'[s], g, u, z, Present(u, g))
      <3>1. CASE s # t
        BY <1>2, <2>2, <3>1
      <3>2. CASE s = t
        <4>1. Present(u, g) \in {0, 1} /\ Unheard(inbox[t], g)
          BY <1>3, ShowsIs, UnheardFrames
        <4>2. Notes(inbox[t], g, u, Present(u, g), Present(u, g))
          BY <1>3, <4>1, NotesStill
        <4>. QED BY <1>2, <1>3, <2>2, <3>2, <4>2, NotesConcat
      <3>. QED BY <3>1, <3>2
    <2>. QED BY <1>1, <2>1, <2>2, <2>3 DEF Listed
  <1>. QED BY <1>4 DEF MembersInv, Heard

\* A right password names the user of a thread that had none and is in no group.
LEMMA DealUsers ==
  ASSUME Shape, LoginInv, Joining, NEW t \in Thread, Deal(t)
  PROVE  \A u \in User : (Sole(u)' => Sole(u)) /\ \A g \in Group : Present(u, g)' = Present(u, g)
  <1>. DEFINE m == msgQueue[t][1]
  <1>1. /\ msgQueue[t] # <<>> /\ UNCHANGED groups
        /\ user' = user \/ (Rightly(m) /\ user' = [user EXCEPT ![t] = m.id])
    BY DealIs
  <1>2. CASE user' = user
    BY <1>1, <1>2 DEF Sole, Present
  <1>3. CASE Rightly(m) /\ user' = [user EXCEPT ![t] = m.id]
    <2>1. 1 \in 1 .. Len(msgQueue[t])
      BY <1>1, QueueLists, NoneList
    <2>2. Pending(t)
      BY <1>3, <2>1 DEF Pending, HasRight
    <2>3. user[t] = Nobody /\ \A g \in Group : joins[t][g] = 0
      BY <2>2 DEF LoginInv, OneLogin, Joining, Unjoined
    <2>4. \A g \in Group : t \notin Range(groups[g])
      BY <2>3, NotIn
    <2>5. \A s \in Thread : s # t => user'[s] = user[s]
      BY <1>3 DEF Shape, ServerShape
    <2>6. \A u \in User : u # Nobody
      BY DEF User, Nobody
    <2>7. \A g \in Group : Range(groups[g]) \subseteq Thread
      BY DEF Shape, ServerShape, Range
    <2>8. \A u \in User : Sole(u)' => Sole(u)
      BY <2>3, <2>5, <2>6 DEF Sole
    <2>9. \A u \in User, g \in Group : Present(u, g)' = Present(u, g)
      BY <1>1, <2>4, <2>5, <2>7 DEF Present
    <2>. QED BY <2>8, <2>9
  <1>. QED BY <1>1, <1>2, <1>3

\* A message that is not about the group.
LEMMA NotedElse ==
  ASSUME NEW m, NEW g, ~About(m, g), NEW u, NEW x, NEW y
  PROVE  <<x, y>> \in Noted(m, g, u) <=> x \in {0, 1} /\ x = y
  <1>1. Noted(m, g, u) = {<<0, 0>>, <<1, 1>>}
    BY NotedIs
  <1>. QED BY <1>1

\* A thread deals with a message: a notice goes from the queue to the socket.
LEMMA MembersDeal ==
  ASSUME Shape, LoginInv, Joining, MembersInv, NEW t \in Thread, Deal(t), UNCHANGED clientVars
  PROVE  MembersInv'
  <1>. DEFINE m == msgQueue[t][1]
  <1>1. /\ msgQueue[t] # <<>> /\ Sane(m)
        /\ msgQueue' = [msgQueue EXCEPT ![t] = Tail(msgQueue[t])]
        /\ UNCHANGED <<peer, groups, win, members, joins>>
    BY DealIs DEF clientVars
  <1>2. /\ msgQueue'[t] = Tail(msgQueue[t])
        /\ \A s \in Thread : s # t => msgQueue'[s] = msgQueue[s]
    BY <1>1 DEF Shape, ServerShape
  <1>3. \/ out' = out /\ ~Grouped(m)
        \/ out' = Written(t, m) /\ ~Frame(m)
        \/ ~Grouped(m) /\ \E k : Sane(k) /\ ~Frame(k) /\ ~Grouped(k) /\ out' = Written(t, k)
    <2>1. Frame(m) => ~Grouped(m)
      BY DEF Frame, Grouped, Requests
    <2>2. /\ Rightly(m) => Frame(m)
          /\ m.type \in Requests => Frame(m)
      BY DEF Rightly, Frame
    <2>3. \/ Rightly(m) /\ UNCHANGED out
          \/ m.type \in Requests /\ UNCHANGED out
          \/ Frame(m) /\ \E k : Sane(k) /\ ~Frame(k) /\ ~Grouped(k) /\ out' = Written(t, k)
          \/ ~Frame(m) /\ out' = Written(t, m)
      BY DealIs
    <2>. QED BY <2>1, <2>2, <2>3
  <1>4. \A s \in Thread : s # t => out'[s] = out[s]
    BY <1>1, <1>3, WrittenIs
  <1>5. List(msgQueue[t]) /\ List(out[t])
    BY QueueLists
  <1>. HIDE DEF m
  <1>6. ASSUME NEW s \in Thread, NEW g \in Group, Member(s, g)', NEW u \in User, Sole(u)'
        PROVE  Listed(members[s][g], out[s], msgQueue[s], g, u)'
    <2>1. Member(s, g) /\ Sole(u) /\ Present(u, g)' = Present(u, g)
      BY <1>1, <1>6, DealUsers DEF Member, Dialogs
    <2>2. PICK y, z \in {0, 1} :
              /\ Shows(members[s][g], u, y) /\ Notes(out[s], g, u, y, z)
              /\ Notes(msgQueue[s], g, u, z, Present(u, g))
      BY <1>6, <2>1 DEF MembersInv, Heard, Listed
    <2>3. CASE s # t
      BY <1>1, <1>2, <1>4, <2>1, <2>2, <2>3 DEF Listed
    <2>4. CASE s = t
      <3>1. PICK w \in {0, 1} :
                <<z, w>> \in Noted(m, g, u) /\ Notes(Tail(msgQueue[t]), g, u, w, Present(u, g))
        BY <1>1, <1>5, <2>2, <2>4, NotesTail DEF m
      <3>2. \A k : ~Grouped(k) => ~About(k, g)
        BY DEF About
      <3>3. ~Grouped(m) => z = w
        BY <3>1, <3>2, NotedElse
      <3>4. ASSUME NEW k, Sane(k), ~Frame(k), out' = Written(t, k), <<z, w>> \in Noted(k, g, u)
            PROVE  Notes(out'[t], g, u, y, w)
        <4>1. out'[t] = Append(out[t], k)
          BY <2>1, <2>4, <3>4, WrittenIs DEF Member
        <4>. QED BY <1>5, <2>2, <2>4, <3>1, <3>4, <4>1, NotesAppend
      <3>5. Notes(out'[t], g, u, y, w)
        <4>1. CASE out' = out /\ ~Grouped(m)
          BY <2>2, <2>4, <3>3, <4>1
        <4>2. CASE out' = Written(t, m) /\ ~Frame(m)
          BY <1>1, <3>1, <3>4, <4>2
        <4>3. ASSUME ~Grouped(m), NEW k, Sane(k), ~Frame(k), ~Grouped(k), out' = Written(t, k)
              PROVE  Notes(out'[t], g, u, y, w)
          <5>1. <<z, w>> \in Noted(k, g, u)
            BY <2>2, <3>2, <3>3, <4>3, NotedElse
          <5>. QED BY <3>4, <4>3, <5>1
        <4>. QED BY <1>3, <4>1, <4>2, <4>3
      <3>. QED BY <1>1, <1>2, <2>1, <2>2, <2>4, <3>1, <3>5 DEF Listed
    <2>. QED BY <2>3, <2>4
  <1>. QED BY <1>6 DEF MembersInv, Heard

\* A thread ends: its client is gone.
LEMMA MembersEnds ==
  ASSUME Shape, MembersInv, NEW t \in Thread, Ends(t), UNCHANGED clientVars
  PROVE  MembersInv'
  <1>1. /\ ~peer[t] /\ msgQueue' = [msgQueue EXCEPT ![t] = <<>>]
        /\ UNCHANGED <<peer, user, out, groups, win, members, joins>>
    BY EndsIs DEF clientVars
  <1>2. \A s \in Thread : s # t => msgQueue'[s] = msgQueue[s]
    BY <1>1 DEF Shape, ServerShape
  <1>3. ASSUME NEW s \in Thread, NEW g \in Group, Member(s, g)'
        PROVE  s # t /\ Member(s, g)
    BY <1>1, <1>3 DEF Member, Dialogs
  <1>. QED BY <1>1, <1>2, <1>3, MembersKept

\* The GUI thread handles a signal: members hear of who joins and who leaves, and who
\* joins is told who is there.
LEMMA MembersSlot ==
  ASSUME Shape, Joining, MembersInv, AnySlot, UNCHANGED clientVars
  PROVE  MembersInv'
  <1>. DEFINE e == events[1]
              p == e.thread
  <1>1. SlotFrame /\ p \in Thread
    BY SlotIs
  <1>2. events # <<>> /\ UNCHANGED <<peer, user, out, win, members, joins>>
    BY <1>1 DEF SlotFrame, clientVars
  <1>. HIDE DEF e
  <1>3. ASSUME NEW t \in Thread, NEW g \in Group, Member(t, g), UNCHANGED <<groups, msgQueue>>
        PROVE  Heard(t, g)'
    <2>1. ASSUME NEW u \in User, Sole(u)'
          PROVE  Listed(members[t][g], out[t], msgQueue[t], g, u)'
      <3>1. Sole(u) /\ Present(u, g)' = Present(u, g)
        BY <1>2, <1>3, <2>1 DEF Sole, Present
      <3>2. Listed(members[t][g], out[t], msgQueue[t], g, u)
        BY <1>3, <3>1 DEF MembersInv, Heard
      <3>. QED BY <1>2, <1>3, <3>1, <3>2 DEF Listed
    <2>. QED BY <2>1 DEF Heard
  <1>4. ASSUME NEW t \in Thread, NEW g \in Group, Member(t, g), groups'[g] = groups[g],
               NEW x, Pushes(x), Unheard(x[t], g)
        PROVE  Heard(t, g)'
    <2>1. ASSUME NEW u \in User
          PROVE  Notes(x[t], g, u, Present(u, g), Present(u, g)')
      <3>1. Present(u, g)' = Present(u, g) /\ Present(u, g) \in {0, 1}
        BY <1>2, <1>4, ShowsIs DEF Present
      <3>2. List(x[t])
        BY <1>4, PushedHeld
      <3>3. Notes(x[t], g, u, Present(u, g), Present(u, g))
        BY <1>4, <3>1, <3>2, NotesStill
      <3>. QED BY <3>1, <3>3
    <2>. QED BY <1>2, <1>4, <2>1, HeardPushed
  <1>5. ASSUME NEW t \in Thread, NEW g \in Group, Member(t, g)',
               e.msg.type \notin {"joinGroup", "leaveGroup"}, UNCHANGED groups,
               UNCHANGED msgQueue \/ \E x : Aside(x)
        PROVE  Heard(t, g)'
    <2>1. Member(t, g)
      BY <1>2, <1>5 DEF Member, Dialogs
    <2>2. ASSUME NEW x, Aside(x)
          PROVE  Heard(t, g)'
      <3>1. Unheard(x[t], g)
        BY <2>2 DEF Aside, Unheard, About
      <3>. QED BY <1>4, <1>5, <2>1, <2>2, <3>1 DEF Aside
    <2>. QED BY <1>3, <1>5, <2>1, <2>2
  <1>6. ASSUME NEW h \in Group, NEW t \in Thread, NEW g \in Group, Member(t, g)',
               e.msg.type = "joinGroup", e.msg.group = h, Pushes(JoinGives(p, h)),
               groups' = [groups EXCEPT ![h] = Joined(p, h)]
        PROVE  Heard(t, g)'
    <2>1. /\ Range(groups'[g]) = IF g = h THEN Range(groups[g]) \cup {p} ELSE Range(groups[g])
          /\ groups'[g] = IF g = h THEN Joined(p, g) ELSE groups[g]
      BY <1>1, <1>6, GroupsAfter
    <2>2. CASE g # h
      <3>1. Member(t, g)
        BY <1>2, <1>6, <2>1, <2>2 DEF Member, Dialogs
      <3>2. Unheard(JoinGives(p, h)[t], g)
        BY <1>1, <2>2, GroupElse
      <3>. QED BY <1>4, <1>6, <2>1, <2>2, <3>1, <3>2
    <2>3. p \notin Range(groups[h])
      BY <1>1, <1>2, <1>6, JoinArrives DEF e
    <2>4. CASE g = h /\ t # p
      <3>1. Member(t, g) /\ t \in Range(groups[h])
        BY <1>2, <1>6, <2>1, <2>4 DEF Member, Dialogs
      <3>. DEFINE n == UserJoinGroup(user[p], h)
      <3>2. JoinGives(p, h)[t] = <<n>>
        BY <1>1, <2>4, <3>1, GroupGets
      <3>3. About(n, g) /\ n.type = "userJoinGroup" /\ n.id = user[p]
        BY <2>4 DEF About, Grouped, UserJoinGroup
      <3>. HIDE DEF n
      <3>4. ASSUME NEW u \in User, Sole(u)
            PROVE  Notes(JoinGives(p, h)[t], g, u, Present(u, g), Present(u, g)')
        <4>1. Present(u, g) \in {0, 1} /\ Present(u, g)' \in {0, 1}
          BY DEF Present
        <4>2. <<Present(u, g), Present(u, g)'>> \in Noted(n, g, u)
          <5>1. CASE user[p] = u
            <6>1. Range(groups[g]) \subseteq Thread
              BY DEF Shape, ServerShape, Range
            <6>2. Present(u, g) = 0
              BY <1>1, <2>3, <2>4, <3>4, <5>1, <6>1 DEF Sole, Present
            <6>3. Present(u, g)' = 1
              BY <1>2, <2>1, <2>4, <5>1 DEF Present
            <6>. QED BY <3>3, <5>1, <6>2, <6>3, NotedIs
          <5>2. CASE user[p] # u
            <6>1. Present(u, g)' = Present(u, g)
              BY <1>2, <2>1, <2>4, <5>2 DEF Present
            <6>2. Noted(n, g, u) = {<<0, 0>>, <<1, 1>>}
              BY <3>3, <5>2, NotedIs
            <6>. QED BY <4>1, <6>1, <6>2
          <5>. QED BY <5>1, <5>2
        <4>3. Notes(<<n>>, g, u, Present(u, g), Present(u, g)')
          BY <4>1, <4>2, NotesOne
        <4>. QED BY <3>2, <4>3
      <3>. QED BY <1>2, <1>6, <3>1, <3>4, HeardPushed
    <2>5. CASE g = h /\ t = p
      <3>1. joins[p][h] = 1 /\ h \in Dialogs(p) /\ peer[p]
        BY <1>2, <1>6, <2>5 DEF Member, Dialogs
      <3>2. Unheard(out[p], h) /\ Unheard(msgQueue[p], h) /\ members[p][h] = <<>>
        BY <1>1, <1>2, <1>6, <3>1, JoinArrives DEF e
      <3>. DEFINE us == UsersOf(Joined(p, h))
                  n == JoinGroupReturn(h, us)
      <3>3. JoinGives(p, h)[p] = <<n>>
        BY <1>1, GroupGets
      <3>4. About(n, h) /\ n.type = "joinGroupReturn" /\ n.users = us
        BY DEF About, Grouped, JoinGroupReturn
      <3>5. List(out[p]) /\ List(msgQueue[p]) /\ worker[p] # "ended" /\ List(JoinGives(p, h)[p])
        BY <1>1, <1>6, <3>1, QueueLists, PushedHeld DEF Shape, Coupled
      <3>6. msgQueue'[p] = msgQueue[p] \o <<n>> /\ List(<<n>>)
        <4>1. msgQueue'[p] = msgQueue[p] \o JoinGives(p, h)[p]
          BY <1>1, <1>6, <3>5, PushedHeld
        <4>. HIDE DEF n
        <4>. QED BY <3>3, <3>5, <4>1
      <3>7. ASSUME NEW u \in User, Sole(u)'
            PROVE  Listed(members[t][g], out[t], msgQueue[t], g, u)'
        <4>1. Sole(u)
          BY <1>2, <3>7 DEF Sole
        <4>2. Shows(us, u, Present(u, h)')
          <5>1. Joined(p, h) \in Seq(Thread) /\ IsInjective(Joined(p, h))
            BY <1>1, JoinedAre DEF Shape
          <5>2. Shows(us, u, IF \E s \in Range(Joined(p, h)) : user[s] = u THEN 1 ELSE 0)
            BY <4>1, <5>1, UsersShow
          <5>3. groups'[h] = Joined(p, h)
            BY <2>1, <2>5
          <5>4. Present(u, h)' = IF \E s \in Range(Joined(p, h)) : user[s] = u THEN 1 ELSE 0
            BY <1>2, <5>3 DEF Present
          <5>. QED BY <5>2, <5>4
        <4>. HIDE DEF us, n
        <4>3. Present(u, h)' \in {0, 1}
          BY DEF Present
        <4>4. <<0, Present(u, h)'>> \in Noted(n, h, u)
          BY <3>4, <4>2, <4>3, NotedIs
        <4>5. Notes(<<n>>, h, u, 0, Present(u, h)')
          BY <4>3, <4>4, NotesOne
        <4>6. Notes(out[p], h, u, 0, 0) /\ Notes(msgQueue[p], h, u, 0, 0)
          BY <3>2, <3>5, NotesStill
        <4>7. Notes(msgQueue'[p], h, u, 0, Present(u, h)')
          BY <3>5, <3>6, <4>5, <4>6, NotesConcat
        <4>8. Shows(members[p][h], u, 0)
          <5>1. \A i \in 1 .. Len(members[p][h]) : FALSE
            BY <3>2, EmptyList
          <5>. QED BY <5>1 DEF Shows, Once, Lists
        <4>. QED BY <1>2, <2>5, <4>6, <4>7, <4>8 DEF Listed
      <3>. QED BY <3>7 DEF Heard
    <2>. QED BY <2>2, <2>4, <2>5
  <1>7. ASSUME NEW h \in Group, NEW t \in Thread, NEW g \in Group, Member(t, g)',
               e.msg.type = "leaveGroup", e.msg.group = h, Pushes(LeaveGives(p, h)),
               groups' = [groups EXCEPT ![h] = Others(p, h)]
        PROVE  Heard(t, g)'
    <2>1. /\ Range(groups'[g]) = IF g = h THEN Range(groups[g]) \ {p} ELSE Range(groups[g])
          /\ groups'[g] = IF g = h THEN Others(p, g) ELSE groups[g]
      BY <1>1, <1>7, GroupsAfter
    <2>2. CASE g # h
      <3>1. Member(t, g)
        BY <1>2, <1>7, <2>1, <2>2 DEF Member, Dialogs
      <3>2. Unheard(LeaveGives(p, h)[t], g)
        BY <1>1, <2>2, GroupElse
      <3>. QED BY <1>4, <1>7, <2>1, <2>2, <3>1, <3>2
    <2>3. CASE g = h
      <3>1. Member(t, g) /\ t \in Range(groups[h]) /\ t # p
        BY <1>2, <1>7, <2>1, <2>3 DEF Member, Dialogs
      <3>. DEFINE n == UserLeaveGroup(user[p], h)
      <3>2. LeaveGives(p, h)[t] = <<n>>
        BY <1>1, <3>1, GroupGets
      <3>3. About(n, g) /\ n.type = "userLeaveGroup" /\ n.id = user[p]
        BY <2>3 DEF About, Grouped, UserLeaveGroup
      <3>. HIDE DEF n
      <3>4. ASSUME NEW u \in User, Sole(u)
            PROVE  Notes(LeaveGives(p, h)[t], g, u, Present(u, g), Present(u, g)')
        <4>1. Present(u, g) \in {0, 1} /\ Present(u, g)' \in {0, 1}
          BY DEF Present
        <4>2. <<Present(u, g), Present(u, g)'>> \in Noted(n, g, u)
          <5>1. CASE user[p] = u
            <6>1. Range(groups[g]) \subseteq Thread
              BY DEF Shape, ServerShape, Range
            <6>2. Present(u, g)' = 0
              BY <1>1, <1>2, <2>1, <2>3, <3>4, <5>1, <6>1 DEF Sole, Present
            <6>3. Noted(n, g, u) = {<<0, 0>>, <<1, 0>>}
              BY <3>3, <5>1, NotedIs
            <6>. QED BY <4>1, <6>2, <6>3
          <5>2. CASE user[p] # u
            <6>1. Present(u, g)' = Present(u, g)
              BY <1>2, <2>1, <2>3, <5>2 DEF Present
            <6>2. Noted(n, g, u) = {<<0, 0>>, <<1, 1>>}
              BY <3>3, <5>2, NotedIs
            <6>. QED BY <4>1, <6>1, <6>2
          <5>. QED BY <5>1, <5>2
        <4>3. Notes(<<n>>, g, u, Present(u, g), Present(u, g)')
          BY <4>1, <4>2, NotesOne
        <4>. QED BY <3>2, <4>3
      <3>. QED BY <1>2, <1>7, <3>1, <3>4, HeardPushed
    <2>. QED BY <2>2, <2>3
  <1>8. ASSUME NEW t \in Thread, NEW g \in Group, Member(t, g)'
        PROVE  Heard(t, g)'
    BY <1>5, <1>6, <1>7, <1>8, SlotGroups DEF e
  <1>. QED BY <1>8 DEF MembersInv

\* What clients send: a dialog that opens belongs to a client that is not a member.
LEMMA MembersClicks ==
  ASSUME Shape, Joining, MembersInv, NEW t \in Thread, Clicks(t)
  PROVE  MembersInv'
  <1>1. PICK m : Sends(t, m)
    BY ClicksSend
  <1>2. UNCHANGED <<peer, msgQueue, out, user, win, groups>>
    BY <1>1, SendIs DEF Sends
  <1>3. CASE m.type \notin {"joinGroup", "leaveGroup"} /\ UNCHANGED <<members, joins>>
    BY <1>2, <1>3, MembersKept DEF Member, Dialogs
  <1>4. CASE m.type = "joinGroup" /\ Join(t, m.group)
    <2>. DEFINE h == m.group
    <2>1. h \in Group
      BY <1>1, <1>4 DEF Sends, Sane
    <2>2. /\ members' = [members EXCEPT ![t] = [g \in DOMAIN members[t] \cup {h} |->
                                                   IF g = h THEN <<>> ELSE members[t][g]]]
          /\ joins' = [joins EXCEPT ![t][h] = joins[t][h] + 1]
      BY <1>4 DEF Join
    <2>. HIDE DEF h
    <2>3. /\ members'[t] = [g \in DOMAIN members[t] \cup {h} |-> IF g = h THEN <<>> ELSE members[t][g]]
          /\ \A s \in Thread : s # t => members'[s] = members[s] /\ joins'[s] = joins[s]
          /\ joins'[t][h] = joins[t][h] + 1 /\ \A g \in Group : g # h => joins'[t][g] = joins[t][g]
          /\ joins[t][h] \in Nat
      BY <2>1, <2>2 DEF Shape, ClientShape
    <2>4. joins'[t][h] = 1 => t \notin Range(groups'[h])
      <3>1. joins'[t][h] = 1 => joins[t][h] = 0
        BY <2>3
      <3>. QED BY <1>2, <2>1, <3>1, NotIn
    <2>5. ASSUME NEW s \in Thread, NEW g \in Group, Member(s, g)'
          PROVE  Member(s, g) /\ members'[s][g] = members[s][g]
      <3>1. CASE s # t
        BY <1>2, <2>3, <2>5, <3>1 DEF Member, Dialogs
      <3>2. CASE s = t /\ g # h
        BY <1>2, <2>3, <2>5, <3>2 DEF Member, Dialogs
      <3>3. CASE s = t /\ g = h
        BY <2>4, <2>5, <3>3 DEF Member
      <3>. QED BY <3>1, <3>2, <3>3
    <2>. QED BY <1>2, <2>5, MembersKept
  <1>5. CASE m.type = "leaveGroup" /\ Leave(t, m.group)
    <2>. DEFINE h == m.group
    <2>1. /\ UNCHANGED joins
          /\ members' = [members EXCEPT ![t] = [g \in DOMAIN members[t] \ {h} |-> members[t][g]]]
      BY <1>5 DEF Leave
    <2>. HIDE DEF h
    <2>2. /\ members'[t] = [g \in DOMAIN members[t] \ {h} |-> members[t][g]]
          /\ \A s \in Thread : s # t => members'[s] = members[s]
      BY <2>1 DEF Shape, ClientShape
    <2>3. ASSUME NEW s \in Thread, NEW g \in Group, Member(s, g)'
          PROVE  Member(s, g) /\ members'[s][g] = members[s][g]
      BY <1>2, <2>1, <2>2, <2>3 DEF Member, Dialogs
    <2>. QED BY <1>2, <2>3, MembersKept
  <1>. QED BY <1>1, <1>3, <1>4, <1>5 DEF Sends

\* The windows and connections: a window that reads a notice changes its list as told.
LEMMA MembersWindows ==
  ASSUME Shape, Joining, MembersInv, NEW t \in Thread,
         \/ Start(t)
         \/ \E u \in User : OpenChat(t, u)
         \/ \E d \in {"create", "search"} : CloseAsking(t, d)
         \/ \E n \in 1 .. Len(out[t]) : LoginReads(t, n)
         \/ MainReads(t)
         \/ MainCrashes(t)
         \/ \E w \in {"login", "main", "closed"} : Break(t, w)
         \/ \E s \in Thread : Reconnect(t, s)
  PROVE  MembersInv'
  <1>1. CASE Start(t)
    <2>1. /\ UNCHANGED <<msgQueue, user, groups, joins, out, members>>
          /\ peer' = [peer EXCEPT ![t] = TRUE] /\ win' = [win EXCEPT ![t] = "login"]
      BY <1>1 DEF Start, NewConnection, guiVars
    <2>2. /\ win'[t] = "login"
          /\ \A s \in Thread : s # t => peer'[s] = peer[s] /\ win'[s] = win[s]
      BY <2>1 DEF Shape, ServerShape, ClientShape
    <2>3. ASSUME NEW s \in Thread, NEW g \in Group, Member(s, g)'
          PROVE  Member(s, g)
      <3>1. s # t
        BY <2>2, <2>3 DEF Member
      <3>. QED BY <2>1, <2>2, <2>3, <3>1 DEF Member, Dialogs
    <2>. QED BY <2>1, <2>3, MembersKept
  <1>2. CASE \/ \E u \in User : OpenChat(t, u)
             \/ \E d \in {"create", "search"} : CloseAsking(t, d)
    <2>1. UNCHANGED <<msgQueue, user, groups, joins, out, members, peer, win>>
      BY <1>2 DEF OpenChat, CloseAsking, serverVars
    <2>. QED BY <2>1, MembersKept DEF Member, Dialogs
  <1>3. ASSUME NEW n \in 1 .. Len(out[t]), LoginReads(t, n)
        PROVE  MembersInv'
    <2>1. /\ win[t] = "login" /\ out' = [out EXCEPT ![t] = SubSeq(out[t], n + 1, Len(out[t]))]
          /\ UNCHANGED <<msgQueue, user, groups, joins, members, peer>>
          /\ \/ UNCHANGED win
             \/ win' = [win EXCEPT ![t] = "main"]
      BY <1>3, LoginReadsIs
    <2>2. \A s \in Thread : s # t => out'[s] = out[s] /\ win'[s] = win[s]
      BY <2>1 DEF Shape, ServerShape, ClientShape
    <2>3. Dialogs(t)' = {}
      BY <2>1 DEF Shape, Coupled, Dialogs
    <2>4. ASSUME NEW s \in Thread, NEW g \in Group, Member(s, g)'
          PROVE  Member(s, g) /\ s # t
      <3>1. s # t
        BY <2>3, <2>4 DEF Member
      <3>. QED BY <2>1, <2>2, <2>4, <3>1 DEF Member, Dialogs
    <2>. QED BY <2>1, <2>2, <2>4, MembersKept
  <1>4. CASE MainReads(t)
    <2>. DEFINE m == out[t][1]
    <2>1. /\ out[t] # <<>> /\ out' = [out EXCEPT ![t] = Tail(out[t])] /\ Sane(m)
          /\ UNCHANGED <<msgQueue, user, groups, joins, peer, win>>
      BY <1>4, MainReadsIs
    <2>2. out'[t] = Tail(out[t]) /\ \A s \in Thread : s # t => out'[s] = out[s]
      BY <2>1 DEF Shape, ServerShape
    <2>3. /\ \A s \in Thread : s # t => members'[s] = members[s]
          /\ Dialogs(t)' = Dialogs(t)
          /\ \A g \in Dialogs(t) :
               /\ ~About(m, g) => members'[t][g] = members[t][g]
               /\ About(m, g) /\ m.type = "joinGroupReturn" =>
                     members'[t][g] = members[t][g] \o m.users
               /\ About(m, g) /\ m.type = "userJoinGroup" =>
                     members'[t][g] = Append(members[t][g], m.id)
               /\ About(m, g) /\ m.type = "userLeaveGroup" =>
                     members'[t][g] = Without(members[t][g], m.id)
      BY <1>4, MembersRead, ZenonT(40)
    <2>. HIDE DEF m
    <2>4. ASSUME NEW s \in Thread, NEW g \in Group, Member(s, g)', NEW u \in User, Sole(u)'
          PROVE  Listed(members[s][g], out[s], msgQueue[s], g, u)'
      <3>1. Member(s, g) /\ Sole(u) /\ Present(u, g)' = Present(u, g)
        <4>1. Dialogs(s)' = Dialogs(s)
          BY <2>3 DEF Dialogs
        <4>. QED BY <2>1, <2>4, <4>1 DEF Member, Sole, Present
      <3>2. PICK y, z \in {0, 1} :
                /\ Shows(members[s][g], u, y) /\ Notes(out[s], g, u, y, z)
                /\ Notes(msgQueue[s], g, u, z, Present(u, g))
        BY <2>4, <3>1 DEF MembersInv, Heard, Listed
      <3>3. CASE s # t
        BY <2>1, <2>2, <2>3, <3>1, <3>2, <3>3 DEF Listed
      <3>4. CASE s = t
        <4>1. PICK w \in {0, 1} : <<y, w>> \in Noted(m, g, u) /\ Notes(Tail(out[t]), g, u, w, z)
          BY <2>1, <3>2, <3>4, QueueLists, NotesTail DEF m
        <4>. DEFINE list == members[t][g]
                    other == members'[t][g]
        <4>2. g \in Dialogs(t) /\ list \in Seq(Somebody) /\ Shows(list, u, y)
          BY <3>1, <3>2, <3>4 DEF Member, Shape, ClientShape
        <4>3. /\ ~About(m, g) => other = list
              /\ About(m, g) /\ m.type = "joinGroupReturn" => other = list \o m.users
              /\ About(m, g) /\ m.type = "userJoinGroup" => other = Append(list, m.id)
              /\ About(m, g) /\ m.type = "userLeaveGroup" => other = Without(list, m.id)
          BY <2>3, <4>2
        <4>. HIDE DEF list, other
        <4>4. Shows(other, u, w)
          BY <2>1, <4>1, <4>2, <4>3, ShowsRead
        <4>. QED BY <2>1, <2>2, <3>1, <3>2, <3>4, <4>1, <4>4 DEF Listed, other
      <3>. QED BY <3>3, <3>4
    <2>. QED BY <2>4 DEF MembersInv, Heard
  <1>5. CASE MainCrashes(t) \/ \E w \in {"login", "main", "closed"} : Break(t, w)
    <2>1. /\ UNCHANGED <<msgQueue, user, groups, joins, members>>
          /\ out' = [out EXCEPT ![t] = <<>>] /\ peer' = [peer EXCEPT ![t] = FALSE]
          /\ \E w : win' = [win EXCEPT ![t] = w]
      BY <1>5 DEF MainCrashes, Break, guiVars
    <2>2. /\ \A s \in Thread : s # t => out'[s] = out[s]
          /\ ~peer'[t] /\ \A s \in Thread : s # t => peer'[s] = peer[s] /\ win'[s] = win[s]
      BY <2>1 DEF Shape, ServerShape, ClientShape
    <2>3. ASSUME NEW s \in Thread, NEW g \in Group, Member(s, g)'
          PROVE  Member(s, g) /\ s # t
      <3>1. s # t
        BY <2>2, <2>3 DEF Member
      <3>. QED BY <2>1, <2>2, <2>3, <3>1 DEF Member, Dialogs
    <2>. QED BY <2>1, <2>2, <2>3, MembersKept
  <1>6. ASSUME NEW s \in Thread, Reconnect(t, s)
        PROVE  MembersInv'
    <2>1. /\ worker[s] = "none" /\ ~peer[t] /\ peer' = [peer EXCEPT ![s] = TRUE] /\ s # t
          /\ UNCHANGED <<msgQueue, user, groups, joins, out>>
          /\ IsMoved(win, win', t, s, "none") /\ IsMoved(members, members', t, s, <<>>)
      BY <1>6, ReconnectIs
    <2>2. /\ \A r \in Thread : r # s => peer'[r] = peer[r]
          /\ \A r \in Thread : r # t /\ r # s => win'[r] = win[r] /\ members'[r] = members[r]
      BY <2>1 DEF Shape, ServerShape, IsMoved
    <2>3. \A g \in Group : joins'[s][g] = 0
      BY <2>1 DEF Shape, Coupled
    <2>4. ASSUME NEW r \in Thread, NEW g \in Group, Member(r, g)'
          PROVE  Member(r, g) /\ members'[r][g] = members[r][g]
      <3>1. r # s
        BY <2>3, <2>4 DEF Member
      <3>2. r # t
        BY <2>1, <2>2, <2>4 DEF Member
      <3>. QED BY <2>1, <2>2, <2>4, <3>1, <3>2 DEF Member, Dialogs
    <2>. QED BY <2>1, <2>4, MembersKept
  <1>. QED BY <1>1, <1>2, <1>3, <1>4, <1>5, <1>6

\* Every step keeps it.
LEMMA MembersNext ==
  ASSUME Shape, LoginInv, Joining, MembersInv, [Next]_vars
  PROVE  MembersInv'
  <1>1. CASE UNCHANGED vars
    <2>1. UNCHANGED <<msgQueue, user, groups, joins, out, members, peer, win>>
      BY <1>1 DEF vars, serverVars, clientVars
    <2>. QED BY <2>1, MembersKept DEF Member, Dialogs
  <1>2. CASE Next
    <2>1. ASSUME NEW t \in Thread, Clicks(t)
          PROVE  MembersInv'
      BY <2>1, MembersClicks
    <2>. QED BY <1>2, <2>1, StepIs, MembersReadFrames, MembersDeal, MembersEnds, MembersSlot,
                MembersWindows DEF Clicks
  <1>. QED BY <1>1, <1>2

\* At the start nobody is in a group.
LEMMA MembersInit ==
  ASSUME Init
  PROVE  MembersInv
  <1>1. \A t \in Thread, g \in Group : joins[t][g] = 0
    BY DEF Init
  <1>. QED BY <1>1 DEF MembersInv, Member

\* A user of one thread at most.
LEMMA SoleUser ==
  ASSUME NEW u, Cardinality({s \in Thread : user[s] = u}) <= 1
  PROVE  Sole(u)
  <1>. DEFINE C == {s \in Thread : user[s] = u}
  <1>1. IsFiniteSet(C)
    <2>1. IsFiniteSet(Thread)
      BY SizeAssumption, FS_Interval DEF Thread
    <2>. QED BY <2>1, FS_Subset
  <1>2. ASSUME NEW s \in C, NEW r \in C, s # r
        PROVE  FALSE
    <2>1. IsFiniteSet({s}) /\ Cardinality({s}) = 1
      BY FS_Singleton
    <2>2. Cardinality({s} \cup {r}) = 2
      BY <1>2, <2>1, FS_AddElement
    <2>3. {s} \cup {r} \in SUBSET C
      OBVIOUS
    <2>4. Cardinality({s} \cup {r}) <= Cardinality(C) /\ Cardinality(C) \in Nat
      BY <1>1, <2>3, FS_Subset, FS_CardinalityType
    <2>. HIDE DEF C
    <2>5. Cardinality(C) <= 1
      BY DEF C
    <2>. QED BY <2>2, <2>4, <2>5
  <1>. QED BY <1>2 DEF Sole

\* With nothing under way the list itself names the members.
LEMMA MembersArrived ==
  ASSUME Shape, MembersInv
  PROVE  MembersAgree
  <1>1. ASSUME Quiet, NEW t \in Thread, NEW g \in Dialogs(t), win[t] = "main", peer[t],
               t \in Range(groups[g]), joins[t][g] = 1,
               NEW u \in User, Cardinality({s \in Thread : user[s] = u}) <= 1
        PROVE  Occurs(members[t][g], u) = IF \E s \in Range(groups[g]) : user[s] = u THEN 1 ELSE 0
    <2>1. g \in Group /\ worker[t] = "running"
      BY <1>1 DEF Shape, ClientShape, Coupled
    <2>2. out[t] = <<>> /\ msgQueue[t] = <<>>
      BY <1>1, <2>1 DEF Quiet
    <2>3. Listed(members[t][g], <<>>, <<>>, g, u)
      BY <1>1, <2>1, <2>2, SoleUser DEF MembersInv, Heard, Member
    <2>. DEFINE list == members[t][g]
    <2>4. list \in Seq(Somebody)
      BY <1>1 DEF Shape, ClientShape
    <2>. HIDE DEF list
    <2>5. Shows(list, u, Present(u, g))
      BY <2>3, NotesNone DEF Listed, list
    <2>6. Occurs(list, u) = IF Lists(list, u) THEN 1 ELSE 0
      BY <2>4, <2>5, OccursIs DEF Shows
    <2>7. Occurs(list, u) = Present(u, g)
      BY <2>5, <2>6 DEF Shows
    <2>. QED BY <2>7 DEF Present, list
  <1>. QED BY <1>1 DEF MembersAgree

\* Once everything under way has arrived, the member list of a legacy group dialog names
\* the users of the group's threads, each once, for a connected client that joined once
\* and every user of one connection (MainWindow::joinGroup and leaveGroup of the server,
\* MainWindow::readyRead of the client).
THEOREM SpecMembersAgree == Spec => []MembersAgree
  <1>. DEFINE I == Shape /\ LoginInv /\ Fresh /\ Joining /\ MembersInv
  <1>1. Init => I
    BY ShapeInit, LoginInit, FreshInit, JoiningInit, MembersInit
  <1>2. I /\ [Next]_vars => I'
    <2>1. ASSUME I, [Next]_vars
          PROVE  Shape' /\ LoginInv' /\ Fresh' /\ Joining' /\ MembersInv'
      BY <2>1, ShapeNext, LoginNext, FreshNext, JoiningNext, MembersNext
    <2>. QED BY <2>1
  <1>3. I => MembersAgree
    BY MembersArrived
  <1>. QED BY <1>1, <1>2, <1>3, PTL DEF Spec
=============================================================================
