-------------------------- MODULE LegacyLoginProofs --------------------------
(***************************************************************************)
(* Theorems about the legacy client and server, for any number of users,   *)
(* connections and groups and any scenario: the first levels of the        *)
(* invariant, on which LegacyProofs builds.                                *)
(*                                                                         *)
(*   Shape       what the variables hold, and which connections, threads   *)
(*               and windows belong together; gives TypeOK                 *)
(*   LoginInv    a thread logs in once, and the signal of its end follows  *)
(*               that of its login; holds NoGhostUsers                     *)
(***************************************************************************)
EXTENDS LegacyChat, FiniteSetTheorems, SequenceTheorems, WellFoundedInduction, TLAPS

(***************************************************************************)
(* Sequences whose elements need no type.                                  *)
(***************************************************************************)

\* s is a sequence.
List(s) == s \in Seq({s[i] : i \in 1 .. Len(s)})

\* A sequence over any set is a list, and so is a function on 1 .. n.
LEMMA SeqList ==
  ASSUME NEW S, NEW s \in Seq(S)
  PROVE  List(s) /\ Len(s) \in Nat /\ DOMAIN s = 1 .. Len(s)
  <1>1. Len(s) \in Nat /\ DOMAIN s = 1 .. Len(s) /\ s \in [1 .. Len(s) -> S]
    BY LenProperties
  <1>2. s = [i \in 1 .. Len(s) |-> s[i]]
    BY <1>1
  <1>3. \A i \in 1 .. Len(s) : s[i] \in {s[k] : k \in 1 .. Len(s)}
    OBVIOUS
  <1>4. s \in Seq({s[k] : k \in 1 .. Len(s)})
    BY <1>1, <1>2, <1>3, IsASeq
  <1>. QED BY <1>1, <1>4 DEF List

\* The length and the domain of a list.
LEMMA ListLen ==
  ASSUME NEW s, List(s)
  PROVE  Len(s) \in Nat /\ DOMAIN s = 1 .. Len(s)
  BY SeqList DEF List

\* A function on 1 .. n is a list of n elements.
LEMMA FcnList ==
  ASSUME NEW n \in Nat, NEW f, f = [i \in 1 .. n |-> f[i]]
  PROVE  List(f) /\ Len(f) = n
  <1>1. f \in [1 .. n -> {f[i] : i \in 1 .. n}]
    OBVIOUS
  <1>2. f \in Seq({f[i] : i \in 1 .. n})
    BY <1>1, IsASeq
  <1>3. Len(f) = n
    BY <1>1, <1>2, LenProperties
  <1>. QED BY <1>2, <1>3 DEF List

\* No element.
LEMMA EmptyList ==
  List(<<>>) /\ Len(<<>>) = 0
  <1>1. <<>> \in Seq({})
    BY EmptySeq
  <1>. QED BY <1>1, SeqList, EmptySeq

\* One element.
LEMMA OneList ==
  ASSUME NEW x
  PROVE  List(<<x>>) /\ Len(<<x>>) = 1 /\ <<x>>[1] = x
  <1>1. <<x>> \in Seq({x})
    OBVIOUS
  <1>. QED BY <1>1, SeqList

\* A list without elements is the empty one.
LEMMA NoneList ==
  ASSUME NEW s, List(s)
  PROVE  (s = <<>>) <=> (Len(s) = 0)
  <1>. DEFINE S == {s[i] : i \in 1 .. Len(s)}
  <1>1. s \in Seq(S)
    BY DEF List
  <1>. QED BY <1>1, EmptySeq

\* Appending one element.
LEMMA AppendList ==
  ASSUME NEW s, List(s), NEW x
  PROVE  /\ List(Append(s, x)) /\ Len(Append(s, x)) = Len(s) + 1
         /\ \A i \in 1 .. Len(s) : Append(s, x)[i] = s[i]
         /\ Append(s, x)[Len(s) + 1] = x
  <1>. DEFINE S == {s[i] : i \in 1 .. Len(s)} \cup {x}
  <1>1. s \in Seq(S) /\ x \in S
    BY SeqMonotonic DEF List
  <1>. HIDE DEF S
  <1>2. Append(s, x) \in Seq(S)
    BY <1>1, AppendProperties
  <1>3. /\ Len(Append(s, x)) = Len(s) + 1
        /\ \A i \in 1 .. Len(s) : Append(s, x)[i] = s[i]
        /\ Append(s, x)[Len(s) + 1] = x
    BY <1>1, AppendProperties, LenProperties
  <1>. QED BY <1>2, <1>3, SeqList

\* One list behind another.
LEMMA ConcatList ==
  ASSUME NEW s, List(s), NEW r, List(r)
  PROVE  /\ List(s \o r) /\ Len(s \o r) = Len(s) + Len(r)
         /\ \A i \in 1 .. Len(s) : (s \o r)[i] = s[i]
         /\ \A i \in 1 .. Len(r) : (s \o r)[Len(s) + i] = r[i]
  <1>. DEFINE A == {s[i] : i \in 1 .. Len(s)}
              B == {r[i] : i \in 1 .. Len(r)}
  <1>1. s \in Seq(A \cup B) /\ r \in Seq(A \cup B)
    BY SeqMonotonic DEF List
  <1>2. s \o r \in Seq(A \cup B) /\ Len(s \o r) = Len(s) + Len(r)
    BY <1>1, ConcatProperties
  <1>3. Len(s) \in Nat /\ Len(r) \in Nat
    BY ListLen
  <1>. HIDE DEF A, B
  <1>4. \A i \in 1 .. Len(s) + Len(r) :
           (s \o r)[i] = IF i <= Len(s) THEN s[i] ELSE r[i - Len(s)]
    BY <1>1, <1>3, ConcatProperties
  <1>5. \A i \in 1 .. Len(s) : (s \o r)[i] = s[i]
    BY <1>3, <1>4
  <1>6. ASSUME NEW i \in 1 .. Len(r)
        PROVE  (s \o r)[Len(s) + i] = r[i]
    <2>1. Len(s) + i \in 1 .. Len(s) + Len(r) /\ ~(Len(s) + i <= Len(s)) /\ Len(s) + i - Len(s) = i
      BY <1>3
    <2>. QED BY <2>1, <1>4
  <1>. QED BY <1>2, <1>5, <1>6, SeqList

\* The list without its first element.
LEMMA TailList ==
  ASSUME NEW s, List(s), s # <<>>
  PROVE  /\ List(Tail(s)) /\ Len(Tail(s)) = Len(s) - 1 /\ Len(s) >= 1
         /\ Head(s) = s[1]
         /\ \A i \in 1 .. Len(s) - 1 : Tail(s)[i] = s[i + 1]
  <1>. DEFINE S == {s[i] : i \in 1 .. Len(s)}
  <1>1. s \in Seq(S)
    BY DEF List
  <1>. HIDE DEF S
  <1>2. Tail(s) \in Seq(S) /\ Len(Tail(s)) = Len(s) - 1 /\ Head(s) = s[1]
    BY <1>1, HeadTailProperties
  <1>3. Len(s) \in Nat /\ Len(s) # 0
    BY <1>1, ListLen, NoneList
  <1>4. \A i \in 1 .. Len(s) - 1 : Tail(s)[i] = s[i + 1]
    BY <1>1, <1>2, <1>3, HeadTailProperties
  <1>5. List(Tail(s))
    BY <1>2, SeqList
  <1>. QED BY <1>2, <1>3, <1>4, <1>5

\* The list without its first n elements.
LEMMA CutList ==
  ASSUME NEW s, List(s), NEW n \in 0 .. Len(s)
  PROVE  /\ List(SubSeq(s, n + 1, Len(s))) /\ Len(SubSeq(s, n + 1, Len(s))) = Len(s) - n
         /\ \A i \in 1 .. Len(s) - n : SubSeq(s, n + 1, Len(s))[i] = s[n + i]
         /\ \A i \in 1 .. n : SubSeq(s, 1, n)[i] = s[i]
  <1>. DEFINE S == {s[i] : i \in 1 .. Len(s)}
  <1>1. s \in Seq(S) /\ Len(s) \in Nat
    BY ListLen DEF List
  <1>. HIDE DEF S
  <1>2. \A i \in 1 .. n : SubSeq(s, 1, n)[i] = s[i]
    BY <1>1
  <1>3. SubSeq(s, n + 1, Len(s)) \in Seq(S)
    BY <1>1
  <1>4. Len(SubSeq(s, n + 1, Len(s))) = Len(s) - n
    BY <1>1
  <1>5. \A i \in 1 .. Len(s) - n : SubSeq(s, n + 1, Len(s))[i] = s[n + i]
    BY <1>1
  <1>. QED BY <1>2, <1>3, <1>4, <1>5, SeqList

-----------------------------------------------------------------------------
(***************************************************************************)
(* What Picked returns.                                                    *)
(***************************************************************************)

\* f numbers the positions P of a list in order.
Numbers(f, P) ==
    /\ f \in [1 .. Cardinality(P) -> P]
    /\ \A k, l \in 1 .. Cardinality(P) : k < l => f[k] < f[l]
    /\ \A i \in P : \E k \in 1 .. Cardinality(P) : f[k] = i
PickedBy(f, s, P) == Numbers(f, P) /\ \A k \in 1 .. Cardinality(P) : Picked(s, P)[k] = s[f[k]]

\* The element at place k is the one at the k-th of the positions.
LEMMA PickedIs ==
  ASSUME NEW n \in Nat, NEW P \in SUBSET (1 .. n), NEW s
  PROVE  /\ Cardinality(P) \in Nat
         /\ List(Picked(s, P)) /\ Len(Picked(s, P)) = Cardinality(P)
         /\ \E f : PickedBy(f, s, P)
  <1>. DEFINE Below(i) == {j \in P : j <= i}
              Place(i) == Cardinality(Below(i))
              c == Cardinality(P)
              f == [k \in 1 .. c |-> CHOOSE i \in P : Place(i) = k]
              h == [i \in P |-> Place(i)]
  <1>. \A i \in P : i \in Int
    OBVIOUS
  <1>1. IsFiniteSet(P) /\ c \in Nat
    <2>1. IsFiniteSet(1 .. n)
      BY FS_Interval
    <2>2. IsFiniteSet(P)
      BY <2>1, FS_Subset
    <2>. QED BY <2>2, FS_CardinalityType
  <1>2. ASSUME NEW i \in P
        PROVE  IsFiniteSet(Below(i)) /\ Place(i) \in 1 .. c
    <2>1. Below(i) \in SUBSET P /\ i \in Below(i)
      OBVIOUS
    <2>2. IsFiniteSet(Below(i)) /\ Place(i) <= c
      BY <1>1, <2>1, FS_Subset
    <2>3. Place(i) \in Nat
      BY <2>2, FS_CardinalityType
    <2>4. Place(i) # 0
      BY <2>1, <2>2, FS_EmptySet
    <2>. QED BY <1>1, <2>2, <2>3, <2>4
  <1>3. ASSUME NEW i \in P, NEW j \in P, i < j
        PROVE  Place(i) < Place(j)
    <2>. i \in Int /\ j \in Int
      OBVIOUS
    <2>1. \A k \in P : k <= i => k <= j
      BY <1>3
    <2>2. j <= j /\ ~(j <= i)
      BY <1>3
    <2>3. Below(i) \in SUBSET Below(j) /\ j \in Below(j) /\ j \notin Below(i)
      BY <2>1, <2>2
    <2>4. Place(i) <= Place(j) /\ Place(i) # Place(j)
      BY <1>2, <2>3, FS_Subset
    <2>. QED BY <1>2, <2>4
  <1>4. h \in Injection(P, 1 .. c)
    <2>1. h \in [P -> 1 .. c]
      BY <1>2
    <2>2. ASSUME NEW i \in P, NEW j \in P, h[i] = h[j]
          PROVE  i = j
      <3>1. i \in Int /\ j \in Int
        OBVIOUS
      <3>2. Place(i) = Place(j)
        BY <2>2
      <3>3. Place(i) \in Int /\ Place(j) \in Int
        BY <1>2
      <3>. HIDE DEF Place
      <3>4. ~(i < j) /\ ~(j < i)
        BY <1>3, <3>2, <3>3
      <3>. QED BY <3>1, <3>4
    <2>. QED BY <2>1, <2>2 DEF Injection, IsInjective
  <1>5. h \in Surjection(P, 1 .. c)
    <2>1. IsFiniteSet(1 .. c) /\ Cardinality(1 .. c) = c
      BY <1>1, FS_Interval
    <2>. QED BY <1>4, <2>1, FS_Injection
  <1>6. \A i, j \in P : i < j => h[i] < h[j]
    BY <1>3
  <1>7. \A k \in 1 .. c : \E i \in P : h[i] = k
    BY <1>5 DEF Surjection
  <1>0. Picked(s, P) = [k \in 1 .. c |-> s[f[k]]]
    BY DEF Picked
  <1>8. \A k \in 1 .. c : f[k] \in P /\ h[f[k]] = k
    <2>1. \A k \in 1 .. c : f[k] = CHOOSE i \in P : h[i] = k
      OBVIOUS
    <2>. HIDE DEF f, h
    <2>. QED BY <2>1, <1>7
  <1>9. f \in [1 .. c -> P] /\ h \in [P -> 1 .. c]
    BY <1>2, <1>8
  <1>. HIDE DEF f, h, Place, Below, c
  <1>10. ASSUME NEW k \in 1 .. c, NEW l \in 1 .. c, k < l
         PROVE  f[k] < f[l]
    <2>. k \in Int /\ l \in Int
      BY <1>1
    <2>1. f[k] \in P /\ f[l] \in P /\ h[f[k]] = k /\ h[f[l]] = l
      BY <1>8
    <2>2. f[k] \in Int /\ f[l] \in Int
      BY <2>1
    <2>3. k # l /\ ~(l < k)
      BY <1>10
    <2>4. f[k] # f[l]
      BY <2>1, <2>3
    <2>5. f[l] < f[k] => h[f[l]] < h[f[k]]
      BY <1>6, <2>1
    <2>6. ~(f[l] < f[k])
      BY <2>1, <2>3, <2>5
    <2>. QED BY <2>2, <2>4, <2>6
  <1>11. ASSUME NEW i \in P
         PROVE  \E k \in 1 .. c : f[k] = i
    <2>1. h[i] \in 1 .. c /\ f[h[i]] \in P /\ h[f[h[i]]] = h[i]
      BY <1>8, <1>9
    <2>2. i \in Int /\ f[h[i]] \in Int
      BY <2>1
    <2>3. h[i] \in Int
      BY <1>1, <2>1
    <2>4. ~(h[i] < h[i])
      BY <2>3
    <2>5. ~(i < f[h[i]]) /\ ~(f[h[i]] < i)
      BY <1>6, <2>1, <2>4
    <2>. QED BY <2>1, <2>2, <2>5
  <1>12. Numbers(f, P)
    BY <1>9, <1>10, <1>11 DEF Numbers, c
  <1>13. \A k \in 1 .. c : Picked(s, P)[k] = s[f[k]]
    BY <1>0
  <1>14. List(Picked(s, P)) /\ Len(Picked(s, P)) = c
    BY <1>0, <1>1, FcnList
  <1>15. PickedBy(f, s, P)
    BY <1>12, <1>13 DEF PickedBy, c
  <1>. QED BY <1>1, <1>14, <1>15 DEF c

-----------------------------------------------------------------------------
(***************************************************************************)
(* What the variables hold.                                                *)
(***************************************************************************)

\* Everybody a message can be about, and what a private message carries: the thread
\* and the number of the click that sent it.
Somebody == {Nobody} \cup User
Payload  == Thread \X Nat

\* The fields of a message.
Sane(m) ==
    /\ m.type = "login" => m.id \in User /\ m.right \in BOOLEAN
    /\ m.type = "loginSucReturn" => m.id \in User /\ m.friends \in Seq(User)
    /\ m.type = "userOnline" => m.id \in User
    /\ m.type = "userOffline" => m.id \in Somebody
    /\ m.type = "sendMsg" => m.to \in User /\ m.msg \in Payload
    /\ m.type = "receiveMsg" => m.msg \in Payload
    /\ m.type \in {"joinGroup", "leaveGroup", "sendGroupMsg"} => m.group \in Group
    /\ m.type = "joinGroupReturn" => m.group \in Group /\ m.users \in Seq(Somebody)
    /\ m.type \in {"userJoinGroup", "userLeaveGroup"} => m.id \in Somebody /\ m.group \in Group

\* What a client sends; the server's threads never write it to a socket.
Frame(m) == m.type \in {"login", "registerUser"} \cup Requests

\* Queues: of the socket, of the thread, of the other socket.
Box(q) == List(q) /\ \A i \in 1 .. Len(q) : Sane(q[i])
Frames(q) == Box(q) /\ \A i \in 1 .. Len(q) : Frame(q[i])
Notices(q) == Box(q) /\ \A i \in 1 .. Len(q) : ~Frame(q[i])

SaneSignal(e) ==
    /\ e.thread \in Thread /\ Sane(e.msg)
    /\ e.type = "loginSuccess" => e.msg.type = "login" /\ e.msg.right
    /\ e.type = "userOffline" => e.msg.type = "userOffline"
    /\ e.type \in Requests => e.msg.type = e.type

SaneRow(r) ==
    /\ r = [from |-> r.from, to |-> r.to, msg |-> r.msg, read |-> r.read]
    /\ r.to \in User /\ r.msg \in Payload /\ r.read \in BOOLEAN

\* The server's variables.
ServerShape ==
    /\ worker \in [Thread -> {"none", "running", "ended"}]
    /\ peer \in [Thread -> BOOLEAN]
    /\ user \in [Thread -> Somebody]
    /\ usersOnline \in [User -> {Nobody} \cup Thread]
    /\ groups \in [Group -> Seq(Thread)] /\ \A g \in Group : IsInjective(groups[g])
    /\ createGroupId \in Nat \ {0}
    /\ tables \in BOOLEAN
    /\ List(rows) /\ \A i \in 1 .. Len(rows) : SaneRow(rows[i])
    /\ List(events) /\ \A i \in 1 .. Len(events) : SaneSignal(events[i])
    /\ inbox = [t \in Thread |-> inbox[t]] /\ \A t \in Thread : Frames(inbox[t])
    /\ msgQueue = [t \in Thread |-> msgQueue[t]] /\ \A t \in Thread : Box(msgQueue[t])
    /\ out = [t \in Thread |-> out[t]] /\ \A t \in Thread : Notices(out[t])

\* The clients'.
ClientShape ==
    /\ script \in Scenarios
    /\ win \in [Thread -> {"none", "login", "main", "closed", "crashed"}]
    /\ host \in [Thread -> Somebody]
    /\ tried \in [Thread -> BOOLEAN] /\ missed \in [Thread -> BOOLEAN]
    /\ friends \in [Thread -> Seq(User)]
    /\ chats \in [Thread -> SUBSET User]
    /\ shown \in [Thread -> Seq(Payload)]
    /\ asking \in [Thread -> SUBSET {"create", "search"}]
    /\ found = [t \in Thread |-> found[t]]
    /\ members = [t \in Thread |-> members[t]]
    /\ \A t \in Thread : /\ Dialogs(t) \subseteq Group
                         /\ members[t] \in [Dialogs(t) -> Seq(Somebody)]
    /\ joins \in [Thread -> [Group -> Nat]]
    /\ clicks \in Nat /\ breaks \in Nat

\* Connections, threads and windows belong together.
Coupled ==
    /\ \A t \in Thread : peer[t] => worker[t] = "running" /\ win[t] \in {"login", "main"}
    /\ \A t \in Thread : ~peer[t] => out[t] = <<>>
    /\ \A t \in Thread : worker[t] # "running" => inbox[t] = <<>> /\ msgQueue[t] = <<>>
    /\ \A t \in Thread : worker[t] = "none" =>
          ~tried[t] /\ win[t] = "none" /\ user[t] = Nobody /\ \A g \in Group : joins[t][g] = 0
    /\ \A t \in Thread : win[t] = "main" => host[t] # Nobody
    /\ \A t \in Thread : win[t] \in {"none", "login"} => shown[t] = <<>> /\ Dialogs(t) = {}
    /\ \A i \in 1 .. Len(events) : worker[events[i].thread] # "none"
    /\ \A u \in User : usersOnline[u] # Nobody => worker[usersOnline[u]] # "none"
    /\ \A g \in Group : \A t \in Range(groups[g]) : worker[t] # "none"

Shape == ServerShape /\ ClientShape /\ Coupled

-----------------------------------------------------------------------------
(***************************************************************************)
(* Logins.                                                                 *)
(***************************************************************************)

\* A login with the right password, and queues that hold one.
Rightly(m) == m.type = "login" /\ m.right
HasRight(q) == \E i \in 1 .. Len(q) : Rightly(q[i])
OneRight(q) == \A i, j \in 1 .. Len(q) : Rightly(q[i]) /\ Rightly(q[j]) => i = j
Pending(t) == HasRight(inbox[t]) \/ HasRight(msgQueue[t])

\* Signal i is the login of thread t.
LoginAt(i, t) == events[i].type = "loginSuccess" /\ events[i].thread = t
Signalled(t) == \E i \in 1 .. Len(events) : LoginAt(i, t)

\* A thread logs in once.  Its user is set with the signal, nobody is online on it
\* before the signal arrives, and whoever is, is its user.
OneLogin ==
    /\ \A t \in Thread : ~tried[t] => user[t] = Nobody /\ ~Pending(t)
    /\ \A t \in Thread : Pending(t) => user[t] = Nobody
    /\ \A t \in Thread : /\ OneRight(inbox[t]) /\ OneRight(msgQueue[t])
                         /\ ~(HasRight(inbox[t]) /\ HasRight(msgQueue[t]))
    /\ \A i \in 1 .. Len(events) : events[i].type = "loginSuccess" =>
          /\ user[events[i].thread] = events[i].msg.id
          /\ \A u \in User : usersOnline[u] # events[i].thread
    /\ \A t \in Thread : \A i, j \in 1 .. Len(events) : LoginAt(i, t) /\ LoginAt(j, t) => i = j
    /\ \A u \in User : usersOnline[u] # Nobody => user[usersOnline[u]] = u

\* The login of a thread that has ended is followed by the signal that undoes it.
Farewell ==
    \A i \in 1 .. Len(events) : \A t \in Thread : LoginAt(i, t) /\ worker[t] = "ended" =>
        \E j \in i + 1 .. Len(events) :
            events[j].type = "userOffline" /\ events[j].msg.id = events[i].msg.id

LoginInv == OneLogin /\ Farewell /\ NoGhostUsers

\* The messages only threads of online users are given, the first of them, and the
\* messages only members of a group are given.
Personal(m) == m.type \in {"loginSucReturn", "receiveMsg", "userOnline", "userOffline"}
Reply(m) == m.type = "loginSucReturn"
Grouped(m) == m.type \in {"joinGroupReturn", "userJoinGroup", "userLeaveGroup"}

\* Whether a list names v, and no more than once.
Lists(list, v) == \E i \in 1 .. Len(list) : list[i] = v
Once(list, v) == \A i, j \in 1 .. Len(list) : list[i] = v /\ list[j] = v => i = j

-----------------------------------------------------------------------------
(***************************************************************************)
(* The messages and the queues.                                            *)
(***************************************************************************)

\* What the clients send is well-formed.
LEMMA SaneFrames ==
  /\ Sane(RegisterUser) /\ Frame(RegisterUser)
  /\ Sane(CreateGroup) /\ Frame(CreateGroup)
  /\ Sane(SearchGroup) /\ Frame(SearchGroup)
  /\ \A u \in User, right \in BOOLEAN : Sane(Login(u, right)) /\ Frame(Login(u, right))
  /\ \A u, v : \A p \in Payload : v \in User => Sane(SendMsg(u, v, p)) /\ Frame(SendMsg(u, v, p))
  /\ \A g \in Group : Sane(JoinGroup(g)) /\ Frame(JoinGroup(g))
  /\ \A g \in Group : Sane(LeaveGroup(g)) /\ Frame(LeaveGroup(g))
  /\ \A u, p : \A g \in Group : Sane(SendGroupMsg(u, g, p)) /\ Frame(SendGroupMsg(u, g, p))
  <1>1. Sane(RegisterUser) /\ Frame(RegisterUser)
    BY DEF Sane, Frame, RegisterUser
  <1>2. Sane(CreateGroup) /\ Frame(CreateGroup)
    BY DEF Sane, Frame, CreateGroup, Requests
  <1>3. Sane(SearchGroup) /\ Frame(SearchGroup)
    BY DEF Sane, Frame, SearchGroup, Requests
  <1>4. ASSUME NEW u \in User, NEW right \in BOOLEAN
        PROVE  Sane(Login(u, right)) /\ Frame(Login(u, right))
    BY DEF Sane, Frame, Login
  <1>5. ASSUME NEW u, NEW v \in User, NEW p \in Payload
        PROVE  Sane(SendMsg(u, v, p)) /\ Frame(SendMsg(u, v, p))
    BY DEF Sane, Frame, SendMsg, Requests
  <1>6. ASSUME NEW g \in Group
        PROVE  /\ Sane(JoinGroup(g)) /\ Frame(JoinGroup(g))
               /\ Sane(LeaveGroup(g)) /\ Frame(LeaveGroup(g))
    BY DEF Sane, Frame, JoinGroup, LeaveGroup, Requests
  <1>7. ASSUME NEW u, NEW p, NEW g \in Group
        PROVE  Sane(SendGroupMsg(u, g, p)) /\ Frame(SendGroupMsg(u, g, p))
    BY DEF Sane, Frame, SendGroupMsg, Requests
  <1>. QED BY <1>1, <1>2, <1>3, <1>4, <1>5, <1>6, <1>7

\* What the threads and the slots of MainWindow answer is well-formed.
LEMMA SaneNotices ==
  /\ Sane(LoginLoseReturn) /\ ~Frame(LoginLoseReturn)
  /\ Sane(RegisterUserReturn) /\ ~Frame(RegisterUserReturn)
  /\ \A u \in User : \A us \in Seq(User) : Sane(LoginSucReturn(u, us)) /\ ~Frame(LoginSucReturn(u, us))
  /\ \A u, v : \A p \in Payload : Sane(ReceiveMsg(u, v, p)) /\ ~Frame(ReceiveMsg(u, v, p))
  /\ \A u \in User : Sane(UserOnline(u)) /\ ~Frame(UserOnline(u))
  /\ \A u \in Somebody : Sane(UserOffline(u)) /\ ~Frame(UserOffline(u))
  /\ \A g : Sane(CreateGroupReturn(g)) /\ ~Frame(CreateGroupReturn(g))
  /\ \A gs : Sane(SearchGroupReturn(gs)) /\ ~Frame(SearchGroupReturn(gs))
  /\ \A g \in Group : \A us \in Seq(Somebody) : Sane(JoinGroupReturn(g, us)) /\ ~Frame(JoinGroupReturn(g, us))
  /\ \A u \in Somebody : \A g \in Group : Sane(UserJoinGroup(u, g)) /\ ~Frame(UserJoinGroup(u, g))
  /\ \A u \in Somebody : \A g \in Group : Sane(UserLeaveGroup(u, g)) /\ ~Frame(UserLeaveGroup(u, g))
  /\ \A u, g, p : Sane(ReceiveGroupMsg(u, g, p)) /\ ~Frame(ReceiveGroupMsg(u, g, p))
  <1>1. /\ Sane(LoginLoseReturn) /\ ~Frame(LoginLoseReturn)
        /\ Sane(RegisterUserReturn) /\ ~Frame(RegisterUserReturn)
    BY DEF Sane, Frame, LoginLoseReturn, RegisterUserReturn, Requests
  <1>2. ASSUME NEW u \in User, NEW us \in Seq(User)
        PROVE  Sane(LoginSucReturn(u, us)) /\ ~Frame(LoginSucReturn(u, us))
    BY DEF Sane, Frame, LoginSucReturn, Requests
  <1>3. ASSUME NEW u, NEW v, NEW p \in Payload
        PROVE  Sane(ReceiveMsg(u, v, p)) /\ ~Frame(ReceiveMsg(u, v, p))
    BY DEF Sane, Frame, ReceiveMsg, Requests
  <1>4. ASSUME NEW u \in User
        PROVE  Sane(UserOnline(u)) /\ ~Frame(UserOnline(u))
    BY DEF Sane, Frame, UserOnline, Requests
  <1>5. ASSUME NEW u \in Somebody
        PROVE  Sane(UserOffline(u)) /\ ~Frame(UserOffline(u))
    BY DEF Sane, Frame, UserOffline, Requests
  <1>6. ASSUME NEW g
        PROVE  /\ Sane(CreateGroupReturn(g)) /\ ~Frame(CreateGroupReturn(g))
               /\ Sane(SearchGroupReturn(g)) /\ ~Frame(SearchGroupReturn(g))
    BY DEF Sane, Frame, CreateGroupReturn, SearchGroupReturn, Requests
  <1>7. ASSUME NEW g \in Group, NEW us \in Seq(Somebody)
        PROVE  Sane(JoinGroupReturn(g, us)) /\ ~Frame(JoinGroupReturn(g, us))
    BY DEF Sane, Frame, JoinGroupReturn, Requests
  <1>8. ASSUME NEW u \in Somebody, NEW g \in Group
        PROVE  /\ Sane(UserJoinGroup(u, g)) /\ ~Frame(UserJoinGroup(u, g))
               /\ Sane(UserLeaveGroup(u, g)) /\ ~Frame(UserLeaveGroup(u, g))
    BY DEF Sane, Frame, UserJoinGroup, UserLeaveGroup, Requests
  <1>9. ASSUME NEW u, NEW g, NEW p
        PROVE  Sane(ReceiveGroupMsg(u, g, p)) /\ ~Frame(ReceiveGroupMsg(u, g, p))
    BY DEF Sane, Frame, ReceiveGroupMsg, Requests
  <1>. QED BY <1>1, <1>2, <1>3, <1>4, <1>5, <1>6, <1>7, <1>8, <1>9

\* An empty queue.
LEMMA BoxEmpty ==
  Box(<<>>) /\ Frames(<<>>) /\ Notices(<<>>)
  BY EmptyList DEF Box, Frames, Notices

\* One more message.
LEMMA BoxAppend ==
  ASSUME NEW q, Box(q), NEW m, Sane(m)
  PROVE  /\ Box(Append(q, m))
         /\ Frames(q) /\ Frame(m) => Frames(Append(q, m))
         /\ Notices(q) /\ ~Frame(m) => Notices(Append(q, m))
  <1>1. List(q) /\ Len(q) \in Nat
    BY ListLen DEF Box
  <1>2. /\ List(Append(q, m)) /\ Len(Append(q, m)) = Len(q) + 1
        /\ \A i \in 1 .. Len(q) + 1 : Append(q, m)[i] = IF i <= Len(q) THEN q[i] ELSE m
    BY <1>1, AppendList
  <1>3. Box(Append(q, m))
    BY <1>1, <1>2 DEF Box
  <1>. QED BY <1>1, <1>2, <1>3 DEF Box, Frames, Notices

\* One queue behind another.
LEMMA BoxConcat ==
  ASSUME NEW q, Box(q), NEW r, Box(r)
  PROVE  Box(q \o r) /\ (Notices(q) /\ Notices(r) => Notices(q \o r))
  <1>1. List(q) /\ Len(q) \in Nat /\ List(r) /\ Len(r) \in Nat
    BY ListLen DEF Box
  <1>2. /\ List(q \o r) /\ Len(q \o r) = Len(q) + Len(r)
        /\ \A i \in 1 .. Len(q) : (q \o r)[i] = q[i]
        /\ \A i \in 1 .. Len(r) : (q \o r)[Len(q) + i] = r[i]
    BY <1>1, ConcatList
  <1>3. \A i \in 1 .. Len(q) + Len(r) : i \in 1 .. Len(q) \/ \E j \in 1 .. Len(r) : i = Len(q) + j
    <2>1. ASSUME NEW i \in 1 .. Len(q) + Len(r), ~(i \in 1 .. Len(q))
          PROVE  \E j \in 1 .. Len(r) : i = Len(q) + j
      <3>1. i - Len(q) \in 1 .. Len(r) /\ i = Len(q) + (i - Len(q))
        BY <1>1, <2>1
      <3>. QED BY <3>1
    <2>. QED BY <2>1
  <1>4. Box(q \o r)
    BY <1>2, <1>3 DEF Box
  <1>5. ASSUME Notices(q), Notices(r)
        PROVE  Notices(q \o r)
    <2>1. \A i \in 1 .. Len(q \o r) : ~Frame((q \o r)[i])
      BY <1>2, <1>3, <1>5 DEF Notices
    <2>. QED BY <1>4, <2>1 DEF Notices
  <1>. QED BY <1>4, <1>5

\* Without the first message.
LEMMA BoxTail ==
  ASSUME NEW q, Box(q), q # <<>>
  PROVE  /\ Box(Tail(q)) /\ Sane(Head(q))
         /\ Notices(q) => Notices(Tail(q)) /\ ~Frame(Head(q))
  <1>1. List(q) /\ Len(q) \in Nat
    BY ListLen DEF Box
  <1>2. /\ List(Tail(q)) /\ Len(Tail(q)) = Len(q) - 1 /\ Len(q) >= 1 /\ Head(q) = q[1]
        /\ \A i \in 1 .. Len(q) - 1 : Tail(q)[i] = q[i + 1]
    BY <1>1, TailList
  <1>3. Box(Tail(q)) /\ Sane(Head(q))
    BY <1>1, <1>2 DEF Box
  <1>. QED BY <1>1, <1>2, <1>3 DEF Box, Notices

\* Without the first n messages.
LEMMA BoxCut ==
  ASSUME NEW q, Notices(q), NEW n \in 0 .. Len(q)
  PROVE  Notices(SubSeq(q, n + 1, Len(q)))
  <1>1. List(q) /\ Len(q) \in Nat
    BY ListLen DEF Box, Notices
  <1>. DEFINE r == SubSeq(q, n + 1, Len(q))
  <1>2. List(r) /\ Len(r) = Len(q) - n /\ \A i \in 1 .. Len(q) - n : r[i] = q[n + i]
    BY <1>1, CutList
  <1>3. \A i \in 1 .. Len(q) - n : n + i \in 1 .. Len(q)
    BY <1>1
  <1>. HIDE DEF r
  <1>4. Box(r)
    BY <1>1, <1>2, <1>3 DEF Box, Notices
  <1>5. Notices(r)
    BY <1>1, <1>2, <1>3, <1>4 DEF Notices
  <1>. QED BY <1>5 DEF r

-----------------------------------------------------------------------------
(***************************************************************************)
(* What the slots list and push.                                           *)
(***************************************************************************)

\* Positions of a list picked in order: each is a position of the list, and different
\* places have different ones.
LEMMA NumbersAre ==
  ASSUME NEW n \in Nat, NEW P \in SUBSET (1 .. n), NEW f, Numbers(f, P)
  PROVE  /\ Cardinality(P) \in Nat
         /\ \A k \in 1 .. Cardinality(P) : f[k] \in P
         /\ \A k, l \in 1 .. Cardinality(P) : f[k] = f[l] => k = l
  <1>1. Cardinality(P) \in Nat
    BY PickedIs
  <1>2. \A k \in 1 .. Cardinality(P) : f[k] \in P
    BY DEF Numbers
  <1>3. ASSUME NEW k \in 1 .. Cardinality(P), NEW l \in 1 .. Cardinality(P), f[k] = f[l]
        PROVE  k = l
    <2>1. k \in Int /\ l \in Int
      BY <1>1
    <2>2. f[k] \in Int
      <3>1. f[k] \in P
        BY <1>2
      <3>2. \A i \in P : i \in Int
        OBVIOUS
      <3>. QED BY <3>1, <3>2
    <2>3. ~(f[k] < f[k])
      BY <2>2
    <2>4. (k < l => f[k] < f[l]) /\ (l < k => f[l] < f[k])
      BY DEF Numbers
    <2>5. ~(k < l) /\ ~(l < k)
      BY <1>3, <2>3, <2>4
    <2>. QED BY <2>1, <2>5
  <1>. QED BY <1>1, <1>2, <1>3

\* What is picked from a sequence over S is a sequence over S.
LEMMA PickedSeq ==
  ASSUME NEW S, NEW s \in Seq(S), NEW P \in SUBSET (1 .. Len(s))
  PROVE  Picked(s, P) \in Seq(S)
  <1>1. Len(s) \in Nat /\ \A i \in 1 .. Len(s) : s[i] \in S
    BY LenProperties, ElementOfSeq
  <1>2. /\ Cardinality(P) \in Nat
        /\ List(Picked(s, P)) /\ Len(Picked(s, P)) = Cardinality(P)
    BY <1>1, PickedIs
  <1>3. PICK f : PickedBy(f, s, P)
    BY <1>1, PickedIs
  <1>4. \A k \in 1 .. Cardinality(P) : f[k] \in P
    BY <1>1, <1>3, NumbersAre DEF PickedBy
  <1>5. \A k \in 1 .. Cardinality(P) : Picked(s, P)[k] \in S
    BY <1>1, <1>3, <1>4 DEF PickedBy
  <1>6. Picked(s, P) = [k \in 1 .. Cardinality(P) |-> Picked(s, P)[k]]
    BY DEF Picked
  <1>. QED BY <1>2, <1>5, <1>6, IsASeq

\* Users in the order of their numbers.
LEMMA InOrderIs ==
  ASSUME NEW us \in SUBSET User
  PROVE  /\ InOrder(us) \in Seq(User)
         /\ \A v \in User : Once(InOrder(us), v) /\ (Lists(InOrder(us), v) <=> v \in us)
  <1>. DEFINE s == [u \in User |-> u]
              r == Picked(s, us)
              c == Cardinality(us)
  <1>1. Users \in Nat /\ us \in SUBSET (1 .. Users)
    BY SizeAssumption DEF User
  <1>2. s \in Seq(User) /\ Len(s) = Users
    <2>1. s \in [1 .. Users -> User]
      BY DEF User
    <2>2. s \in Seq(User)
      BY <1>1, <2>1, IsASeq
    <2>. QED BY <1>1, <2>1, <2>2, LenProperties
  <1>3. r \in Seq(User)
    BY <1>1, <1>2, PickedSeq
  <1>4. c \in Nat /\ Len(r) = c
    BY <1>1, PickedIs
  <1>0. PICK f : PickedBy(f, s, us)
    BY <1>1, PickedIs
  <1>5. Numbers(f, us) /\ \A k \in 1 .. c : r[k] = s[f[k]]
    BY <1>0 DEF PickedBy
  <1>6. /\ \A k \in 1 .. c : f[k] \in us
        /\ \A k, l \in 1 .. c : f[k] = f[l] => k = l
    BY <1>1, <1>5, NumbersAre
  <1>7. \A k \in 1 .. c : r[k] = f[k]
    BY <1>5, <1>6
  <1>8. \A v \in us : \E k \in 1 .. c : f[k] = v
    BY <1>5 DEF Numbers
  <1>9. InOrder(us) = r
    BY DEF InOrder
  <1>. HIDE DEF r, c
  <1>10. \A v \in User : Once(r, v)
    BY <1>4, <1>6, <1>7 DEF Once
  <1>11. \A v \in User : Lists(r, v) <=> v \in us
    BY <1>4, <1>6, <1>7, <1>8 DEF Lists
  <1>. QED BY <1>3, <1>9, <1>10, <1>11

\* The threads of a group without one.
LEMMA OthersAre ==
  ASSUME NEW g, groups[g] \in Seq(Thread), IsInjective(groups[g]), NEW thread
  PROVE  /\ Others(thread, g) \in Seq(Thread) /\ IsInjective(Others(thread, g))
         /\ Range(Others(thread, g)) = Range(groups[g]) \ {thread}
  <1>. DEFINE s == groups[g]
              P == {i \in 1 .. Len(s) : s[i] # thread}
              r == Picked(s, P)
              c == Cardinality(P)
  <1>1. Len(s) \in Nat /\ DOMAIN s = 1 .. Len(s) /\ P \in SUBSET (1 .. Len(s))
    BY LenProperties
  <1>2. r \in Seq(Thread)
    BY <1>1, PickedSeq
  <1>3. c \in Nat /\ Len(r) = c
    BY <1>1, PickedIs
  <1>0. PICK f : PickedBy(f, s, P)
    BY <1>1, PickedIs
  <1>4. Numbers(f, P) /\ \A k \in 1 .. c : r[k] = s[f[k]]
    BY <1>0 DEF PickedBy
  <1>5. /\ \A k \in 1 .. c : f[k] \in P
        /\ \A k, l \in 1 .. c : f[k] = f[l] => k = l
    <2>1. Len(s) \in Nat /\ P \in SUBSET (1 .. Len(s)) /\ Numbers(f, P)
      BY <1>1, <1>4
    <2>. HIDE DEF P, s, r
    <2>. QED BY <2>1, NumbersAre
  <1>6. \A i \in P : \E k \in 1 .. c : f[k] = i
    BY <1>4 DEF Numbers
  <1>7. Others(thread, g) = r
    BY DEF Others
  <1>8. DOMAIN r = 1 .. c
    BY <1>2, <1>3, LenProperties
  <1>9. \A i, j \in P : s[i] = s[j] => i = j
    BY <1>1 DEF IsInjective
  <1>10. \A i \in P : s[i] # thread /\ i \in DOMAIN s
    BY <1>1
  <1>11. \A i \in DOMAIN s : s[i] # thread => i \in P
    BY <1>1
  <1>12. IsInjective(s)
    OBVIOUS
  <1>. HIDE DEF r, c, P, s
  <1>13. IsInjective(r)
    BY <1>4, <1>5, <1>8, <1>9 DEF IsInjective
  <1>14. Range(r) = Range(s) \ {thread}
    BY <1>4, <1>5, <1>6, <1>8, <1>10, <1>11 DEF Range
  <1>. QED BY <1>2, <1>7, <1>13, <1>14 DEF s

\* Online users are users.
LEMMA OnlineAre ==
  Online \in SUBSET User /\ \A us \in SUBSET User : IsFiniteSet(us) /\ Cardinality(us) \in Nat
  <1>1. Online \in SUBSET User
    BY DEF Online
  <1>2. IsFiniteSet(User)
    BY SizeAssumption, FS_Interval DEF User
  <1>. QED BY <1>1, <1>2, FS_Subset, FS_CardinalityType

\* The notice of ForUsers, as often as the thread has users.
LEMMA ForUsersAre ==
  ASSUME NEW t, NEW m
  PROVE  /\ List(ForUsers(t, m)) /\ Len(ForUsers(t, m)) \in Nat
         /\ Len(ForUsers(t, m)) = Cardinality({u \in Online : usersOnline[u] = t})
         /\ \A i \in 1 .. Len(ForUsers(t, m)) : ForUsers(t, m)[i] = m
  <1>. DEFINE n == Cardinality({u \in Online : usersOnline[u] = t})
  <1>1. n \in Nat
    BY OnlineAre
  <1>2. ForUsers(t, m) = [i \in 1 .. n |-> m]
    BY DEF ForUsers
  <1>. HIDE DEF n
  <1>3. List(ForUsers(t, m)) /\ Len(ForUsers(t, m)) = n
    BY <1>1, <1>2, FcnList
  <1>. QED BY <1>1, <1>2, <1>3 DEF n

\* The unread rows of u as messages, in the order of the rows.
LEMMA ReplayIs ==
  ASSUME List(rows), NEW u
  PROVE  /\ List(Replay(u)) /\ Len(Replay(u)) \in Nat
         /\ \E f : /\ \A k \in 1 .. Len(Replay(u)) :
                         /\ f[k] \in 1 .. Len(rows)
                         /\ Replay(u)[k] = ReceiveMsg(rows[f[k]].from, u, rows[f[k]].msg)
                   /\ \A k, l \in 1 .. Len(Replay(u)) : k < l => f[k] < f[l]
  <1>. DEFINE P == {i \in 1 .. Len(rows) : rows[i].to = u /\ ~rows[i].read}
              c == Cardinality(P)
              q == Replay(u)
  <1>1. Len(rows) \in Nat /\ P \in SUBSET (1 .. Len(rows))
    BY ListLen
  <1>2. Unread(u) = Picked(rows, P)
    BY DEF Unread
  <1>. HIDE DEF P
  <1>3. c \in Nat /\ Len(Unread(u)) = c
    BY <1>1, <1>2, PickedIs
  <1>0. PICK f : PickedBy(f, rows, P)
    BY <1>1, PickedIs
  <1>4. Numbers(f, P) /\ \A k \in 1 .. c : Unread(u)[k] = rows[f[k]]
    BY <1>0, <1>2 DEF PickedBy
  <1>5. \A k \in 1 .. c : f[k] \in P
    BY <1>1, <1>4, NumbersAre
  <1>6. q = [i \in 1 .. c |-> ReceiveMsg(Unread(u)[i].from, u, Unread(u)[i].msg)]
    BY <1>3 DEF Replay
  <1>. HIDE DEF q, c
  <1>7. List(q) /\ Len(q) = c
    BY <1>3, <1>6, FcnList
  <1>8. \A k \in 1 .. c : f[k] \in 1 .. Len(rows) /\ q[k] = ReceiveMsg(rows[f[k]].from, u, rows[f[k]].msg)
    BY <1>1, <1>4, <1>5, <1>6
  <1>9. \A k, l \in 1 .. c : k < l => f[k] < f[l]
    BY <1>4 DEF Numbers, c
  <1>. QED BY <1>3, <1>7, <1>8, <1>9 DEF q

\* What each slot pushes to the threads.
LoginGives(thread, u) ==
    [t \in Thread |-> ForUsers(t, UserOnline(u)) \o
        IF t = thread THEN <<LoginSucReturn(u, InOrder(Online))>> \o Replay(u) ELSE <<>>]
PrivateGives(m) ==
    [t \in Thread |-> IF t = usersOnline[m.to] THEN <<ReceiveMsg(m.from, m.to, m.msg)>> ELSE <<>>]
LeftOn(v, t) == {u \in {w \in Online : w # v} : usersOnline[u] = t}
OfflineGives(v) == [t \in Thread |-> [i \in 1 .. Cardinality(LeftOn(v, t)) |-> UserOffline(v)]]
CreateGives(thread) ==
    [t \in Thread |-> IF t = thread THEN <<CreateGroupReturn(createGroupId)>> ELSE <<>>]
SearchGives(thread) ==
    [t \in Thread |-> IF t = thread
        THEN <<SearchGroupReturn(IF tables THEN 1 .. createGroupId - 1 ELSE {})>> ELSE <<>>]
Joined(thread, g) ==
    IF thread \in Range(groups[g]) THEN groups[g] ELSE Append(groups[g], thread)
UsersOf(threads) == [i \in 1 .. Len(threads) |-> user[threads[i]]]
JoinGives(thread, g) ==
    [t \in Thread |->
        IF t = thread THEN <<JoinGroupReturn(g, UsersOf(Joined(thread, g)))>>
        ELSE IF t \in Range(Joined(thread, g)) THEN <<UserJoinGroup(user[thread], g)>> ELSE <<>>]
LeaveGives(thread, g) ==
    [t \in Thread |->
        IF t \in Range(Others(thread, g)) THEN <<UserLeaveGroup(user[thread], g)>> ELSE <<>>]
GroupGives(thread, m) ==
    [t \in Thread |-> IF t # thread /\ t \in Range(groups[m.group])
        THEN <<ReceiveGroupMsg(m.id, m.group, m.msg)>> ELSE <<>>]

\* x is pushed.
Pushes(x) ==
    /\ \A t \in Thread : Notices(x[t])
    /\ msgQueue' = [t \in Thread |-> IF worker[t] = "ended" THEN <<>> ELSE msgQueue[t] \o x[t]]

\* A queue of one notice.
LEMMA NoticeOne ==
  ASSUME NEW m, Sane(m), ~Frame(m)
  PROVE  Notices(<<m>>)
  BY OneList DEF Box, Notices

\* A queue of one notice several times.
LEMMA NoticeMany ==
  ASSUME NEW m, Sane(m), ~Frame(m), NEW n \in Nat
  PROVE  /\ Notices([i \in 1 .. n |-> m]) /\ Len([i \in 1 .. n |-> m]) = n
         /\ \A i \in 1 .. n : [k \in 1 .. n |-> m][i] = m
  <1>. DEFINE q == [i \in 1 .. n |-> m]
  <1>1. List(q) /\ Len(q) = n
    BY FcnList
  <1>2. \A i \in 1 .. n : q[i] = m
    OBVIOUS
  <1>. HIDE DEF q
  <1>3. Notices(q)
    BY <1>1, <1>2 DEF Box, Notices
  <1>. QED BY <1>1, <1>2, <1>3 DEF q

\* The replayed messages are notices.
LEMMA ReplayNotices ==
  ASSUME ServerShape, NEW u
  PROVE  Notices(Replay(u))
  <1>1. List(rows) /\ \A i \in 1 .. Len(rows) : rows[i].msg \in Payload
    BY DEF ServerShape, SaneRow
  <1>2. List(Replay(u))
    BY <1>1, ReplayIs
  <1>3. PICK f : \A k \in 1 .. Len(Replay(u)) :
                    /\ f[k] \in 1 .. Len(rows)
                    /\ Replay(u)[k] = ReceiveMsg(rows[f[k]].from, u, rows[f[k]].msg)
    BY <1>1, ReplayIs
  <1>4. ASSUME NEW k \in 1 .. Len(Replay(u))
        PROVE  Sane(Replay(u)[k]) /\ ~Frame(Replay(u)[k])
    <2>1. rows[f[k]].msg \in Payload /\ Replay(u)[k] = ReceiveMsg(rows[f[k]].from, u, rows[f[k]].msg)
      BY <1>1, <1>3
    <2>. QED BY <2>1, SaneNotices
  <1>. QED BY <1>2, <1>4 DEF Box, Notices

\* MainWindow::loginSuccess, for a user who is not online.
LEMMA LoginPushes ==
  ASSUME ServerShape, NEW thread \in Thread, NEW m, m.id \in User, m.id \notin Online,
         LoginSuccess(thread, m)
  PROVE  Pushes(LoginGives(thread, m.id))
  <1>. DEFINE x == LoginGives(thread, m.id)
              reply == LoginSucReturn(m.id, InOrder(Online))
  <1>1. msgQueue' = [t \in Thread |-> IF worker[t] = "ended" THEN <<>> ELSE msgQueue[t] \o x[t]]
    BY DEF LoginSuccess, Pushed, LoginGives
  <1>2. Notices(<<reply>>)
    <2>1. InOrder(Online) \in Seq(User)
      BY OnlineAre, InOrderIs
    <2>. QED BY <2>1, SaneNotices, NoticeOne
  <1>3. Notices(<<reply>> \o Replay(m.id))
    BY <1>2, ReplayNotices, BoxConcat DEF Notices
  <1>4. ASSUME NEW t \in Thread
        PROVE  Notices(x[t])
    <2>. DEFINE y == IF t = thread THEN <<reply>> \o Replay(m.id) ELSE <<>>
    <2>1. Notices(y)
      BY <1>3, BoxEmpty
    <2>2. Notices(ForUsers(t, UserOnline(m.id)))
      <3>1. Sane(UserOnline(m.id)) /\ ~Frame(UserOnline(m.id))
        BY SaneNotices
      <3>. QED BY <3>1, ForUsersAre DEF Notices, Box
    <2>3. x[t] = ForUsers(t, UserOnline(m.id)) \o y
      BY DEF LoginGives
    <2>. HIDE DEF x, y
    <2>. QED BY <2>1, <2>2, <2>3, BoxConcat DEF Notices
  <1>. HIDE DEF x
  <1>5. Pushes(x)
    BY <1>1, <1>4 DEF Pushes
  <1>. QED BY <1>5 DEF x

\* MainWindow::sendMsg.
LEMMA PrivatePushes ==
  ASSUME ServerShape, NEW thread, NEW m, m.msg \in Payload, SendPrivate(thread, m)
  PROVE  Pushes(PrivateGives(m))
  <1>1. Notices(<<ReceiveMsg(m.from, m.to, m.msg)>>)
    BY SaneNotices, NoticeOne
  <1>2. \A t \in Thread : Notices(PrivateGives(m)[t])
    BY <1>1, BoxEmpty DEF PrivateGives
  <1>3. msgQueue' = [t \in Thread |-> IF worker[t] = "ended" THEN <<>> ELSE msgQueue[t] \o PrivateGives(m)[t]]
    BY DEF SendPrivate, Pushed, PrivateGives
  <1>. QED BY <1>2, <1>3 DEF Pushes

\* MainWindow::userOffline.
LEMMA OfflinePushes ==
  ASSUME ServerShape, NEW thread, NEW m, m.id \in Somebody, UserGoesOffline(thread, m)
  PROVE  Pushes(OfflineGives(m.id))
  <1>1. Sane(UserOffline(m.id)) /\ ~Frame(UserOffline(m.id))
    BY SaneNotices
  <1>2. ASSUME NEW t \in Thread
        PROVE  Notices(OfflineGives(m.id)[t])
    <2>1. LeftOn(m.id, t) \in SUBSET User
      BY OnlineAre DEF LeftOn
    <2>2. Cardinality(LeftOn(m.id, t)) \in Nat
      BY <2>1, OnlineAre
    <2>3. OfflineGives(m.id)[t] = [i \in 1 .. Cardinality(LeftOn(m.id, t)) |-> UserOffline(m.id)]
      BY DEF OfflineGives
    <2>. QED BY <1>1, <2>2, <2>3, NoticeMany
  <1>3. msgQueue' = [t \in Thread |-> IF worker[t] = "ended" THEN <<>> ELSE msgQueue[t] \o OfflineGives(m.id)[t]]
    BY DEF UserGoesOffline, Pushed, OfflineGives, LeftOn
  <1>. QED BY <1>2, <1>3 DEF Pushes

\* MainWindow::createGroup and searchGroup.
LEMMA AskPushes ==
  ASSUME ServerShape, NEW thread, NEW m
  PROVE  /\ CreateNewGroup(thread, m) => Pushes(CreateGives(thread))
         /\ SearchGroups(thread, m) => Pushes(SearchGives(thread))
  <1>1. \A t \in Thread : Notices(CreateGives(thread)[t])
    BY SaneNotices, NoticeOne, BoxEmpty DEF CreateGives
  <1>2. \A t \in Thread : Notices(SearchGives(thread)[t])
    <2>1. Notices(<<SearchGroupReturn(IF tables THEN 1 .. createGroupId - 1 ELSE {})>>)
      BY SaneNotices, NoticeOne
    <2>. QED BY <2>1, BoxEmpty DEF SearchGives
  <1>3. CreateNewGroup(thread, m) => msgQueue' =
          [t \in Thread |-> IF worker[t] = "ended" THEN <<>> ELSE msgQueue[t] \o CreateGives(thread)[t]]
    BY DEF CreateNewGroup, Pushed, CreateGives
  <1>4. SearchGroups(thread, m) => msgQueue' =
          [t \in Thread |-> IF worker[t] = "ended" THEN <<>> ELSE msgQueue[t] \o SearchGives(thread)[t]]
    BY DEF SearchGroups, Pushed, SearchGives
  <1>. QED BY <1>1, <1>2, <1>3, <1>4 DEF Pushes

\* The member threads once this one has joined, and their users.
LEMMA JoinedAre ==
  ASSUME ServerShape, NEW thread \in Thread, NEW g \in Group
  PROVE  /\ Joined(thread, g) \in Seq(Thread) /\ IsInjective(Joined(thread, g))
         /\ Range(Joined(thread, g)) = Range(groups[g]) \cup {thread}
         /\ UsersOf(Joined(thread, g)) \in Seq(Somebody)
         /\ Len(UsersOf(Joined(thread, g))) = Len(Joined(thread, g))
  <1>. DEFINE s == groups[g]
              j == Joined(thread, g)
  <1>1. s \in Seq(Thread) /\ IsInjective(s) /\ DOMAIN s = 1 .. Len(s) /\ Len(s) \in Nat
    BY LenProperties DEF ServerShape
  <1>2. j \in Seq(Thread) /\ IsInjective(j) /\ Range(j) = Range(s) \cup {thread}
    <2>1. CASE thread \in Range(s)
      BY <1>1, <2>1 DEF Joined
    <2>2. CASE thread \notin Range(s)
      <3>. DEFINE a == Append(s, thread)
      <3>1. j = a
        BY <2>2 DEF Joined
      <3>2. /\ a \in Seq(Thread) /\ Len(a) = Len(s) + 1 /\ DOMAIN a = 1 .. Len(s) + 1
            /\ \A i \in 1 .. Len(s) : a[i] = s[i]
            /\ a[Len(s) + 1] = thread
        BY <1>1, AppendProperties, LenProperties
      <3>. HIDE DEF s, a, j
      <3>3. \A i \in 1 .. Len(s) + 1 : i \in 1 .. Len(s) \/ i = Len(s) + 1
        BY <1>1
      <3>4. \A i \in 1 .. Len(s) : s[i] # thread
        BY <1>1, <2>2 DEF Range
      <3>5. IsInjective(a)
        BY <1>1, <3>2, <3>3, <3>4 DEF IsInjective
      <3>6. Range(a) = Range(s) \cup {thread}
        <4>1. \A i \in 1 .. Len(s) : i \in 1 .. Len(s) + 1
          BY <1>1
        <4>2. Len(s) + 1 \in 1 .. Len(s) + 1
          BY <1>1
        <4>. QED BY <1>1, <3>2, <3>3, <4>1, <4>2 DEF Range
      <3>. QED BY <3>1, <3>2, <3>5, <3>6
    <2>. QED BY <2>1, <2>2
  <1>3. Len(j) \in Nat /\ \A i \in 1 .. Len(j) : j[i] \in Thread
    BY <1>2, LenProperties, ElementOfSeq
  <1>4. \A t \in Thread : user[t] \in Somebody
    BY DEF ServerShape
  <1>5. UsersOf(j) = [i \in 1 .. Len(j) |-> user[j[i]]]
    BY DEF UsersOf
  <1>. HIDE DEF j
  <1>6. UsersOf(j) \in [1 .. Len(j) -> Somebody]
    BY <1>3, <1>4, <1>5
  <1>7. UsersOf(j) \in Seq(Somebody)
    BY <1>3, <1>6, IsASeq
  <1>8. Len(UsersOf(j)) = Len(j)
    BY <1>3, <1>6, <1>7, LenProperties
  <1>. QED BY <1>2, <1>7, <1>8 DEF j

\* MainWindow::joinGroup.
LEMMA JoinPushes ==
  ASSUME ServerShape, NEW thread \in Thread, NEW m, m.group \in Group, JoinTheGroup(thread, m)
  PROVE  Pushes(JoinGives(thread, m.group)) /\ groups' = [groups EXCEPT ![m.group] = Joined(thread, m.group)]
  <1>1. user[thread] \in Somebody
    BY DEF ServerShape
  <1>2. Notices(<<UserJoinGroup(user[thread], m.group)>>)
    BY <1>1, SaneNotices, NoticeOne
  <1>3. Notices(<<JoinGroupReturn(m.group, UsersOf(Joined(thread, m.group)))>>)
    BY JoinedAre, SaneNotices, NoticeOne
  <1>4. \A t \in Thread : Notices(JoinGives(thread, m.group)[t])
    BY <1>2, <1>3, BoxEmpty DEF JoinGives
  <1>5. msgQueue' = [t \in Thread |->
                       IF worker[t] = "ended" THEN <<>> ELSE msgQueue[t] \o JoinGives(thread, m.group)[t]]
    BY DEF JoinTheGroup, Pushed, JoinGives, Joined, UsersOf
  <1>6. groups' = [groups EXCEPT ![m.group] = Joined(thread, m.group)]
    BY DEF JoinTheGroup, Joined
  <1>. QED BY <1>4, <1>5, <1>6 DEF Pushes

\* MainWindow::leaveGroup.
LEMMA LeavePushes ==
  ASSUME ServerShape, NEW thread \in Thread, NEW m, m.group \in Group, LeaveTheGroup(thread, m)
  PROVE  Pushes(LeaveGives(thread, m.group)) /\ groups' = [groups EXCEPT ![m.group] = Others(thread, m.group)]
  <1>1. user[thread] \in Somebody
    BY DEF ServerShape
  <1>2. Notices(<<UserLeaveGroup(user[thread], m.group)>>)
    BY <1>1, SaneNotices, NoticeOne
  <1>3. \A t \in Thread : Notices(LeaveGives(thread, m.group)[t])
    BY <1>2, BoxEmpty DEF LeaveGives
  <1>4. msgQueue' = [t \in Thread |->
                       IF worker[t] = "ended" THEN <<>> ELSE msgQueue[t] \o LeaveGives(thread, m.group)[t]]
    BY DEF LeaveTheGroup, Pushed, LeaveGives
  <1>5. groups' = [groups EXCEPT ![m.group] = Others(thread, m.group)]
    BY DEF LeaveTheGroup
  <1>. QED BY <1>3, <1>4, <1>5 DEF Pushes

\* MainWindow::sendGroupMsg.
LEMMA GroupPushes ==
  ASSUME ServerShape, NEW thread, NEW m, SendToGroup(thread, m)
  PROVE  Pushes(GroupGives(thread, m))
  <1>1. Notices(<<ReceiveGroupMsg(m.id, m.group, m.msg)>>)
    BY SaneNotices, NoticeOne
  <1>2. \A t \in Thread : Notices(GroupGives(thread, m)[t])
    BY <1>1, BoxEmpty DEF GroupGives
  <1>3. msgQueue' = [t \in Thread |-> IF worker[t] = "ended" THEN <<>> ELSE msgQueue[t] \o GroupGives(thread, m)[t]]
    BY DEF SendToGroup, Pushed, GroupGives
  <1>. QED BY <1>2, <1>3 DEF Pushes

-----------------------------------------------------------------------------
(***************************************************************************)
(* The shape is kept: the GUI thread.                                      *)
(***************************************************************************)

\* The oldest signal is taken.
LEMMA SignalIs ==
  ASSUME ServerShape, events # <<>>
  PROVE  /\ Len(events) \in Nat /\ 1 \in 1 .. Len(events)
         /\ Head(events) = events[1] /\ SaneSignal(events[1])
         /\ List(Tail(events)) /\ Len(Tail(events)) = Len(events) - 1
         /\ \A i \in 1 .. Len(events) - 1 : i + 1 \in 1 .. Len(events) /\ Tail(events)[i] = events[i + 1]
  <1>1. List(events) /\ \A i \in 1 .. Len(events) : SaneSignal(events[i])
    BY DEF ServerShape
  <1>2. Len(events) \in Nat
    BY <1>1, ListLen
  <1>3. /\ List(Tail(events)) /\ Len(Tail(events)) = Len(events) - 1 /\ Len(events) >= 1
        /\ Head(events) = events[1]
        /\ \A i \in 1 .. Len(events) - 1 : Tail(events)[i] = events[i + 1]
    BY <1>1, TailList
  <1>. QED BY <1>1, <1>2, <1>3

\* The queues once x was pushed.
LEMMA PushedIs ==
  ASSUME ServerShape, NEW x, Pushes(x)
  PROVE  /\ msgQueue' = [t \in Thread |-> msgQueue'[t]]
         /\ \A t \in Thread : worker[t] = "ended" => msgQueue'[t] = <<>>
         /\ \A t \in Thread : worker[t] # "ended" =>
               /\ Len(msgQueue[t]) \in Nat /\ Len(x[t]) \in Nat
               /\ msgQueue'[t] = msgQueue[t] \o x[t]
               /\ Len(msgQueue'[t]) = Len(msgQueue[t]) + Len(x[t])
               /\ \A i \in 1 .. Len(msgQueue[t]) : msgQueue'[t][i] = msgQueue[t][i]
               /\ \A i \in 1 .. Len(x[t]) : msgQueue'[t][Len(msgQueue[t]) + i] = x[t][i]
         /\ \A t \in Thread : Box(msgQueue'[t])
  <1>1. /\ \A t \in Thread : Box(msgQueue[t]) /\ List(msgQueue[t])
        /\ \A t \in Thread : Box(x[t]) /\ List(x[t])
    BY DEF ServerShape, Pushes, Notices, Box
  <1>2. msgQueue' = [t \in Thread |-> IF worker[t] = "ended" THEN <<>> ELSE msgQueue[t] \o x[t]]
    BY DEF Pushes
  <1>3. ASSUME NEW t \in Thread, worker[t] # "ended"
        PROVE  /\ Len(msgQueue[t]) \in Nat /\ Len(x[t]) \in Nat
               /\ msgQueue'[t] = msgQueue[t] \o x[t]
               /\ Len(msgQueue'[t]) = Len(msgQueue[t]) + Len(x[t])
               /\ \A i \in 1 .. Len(msgQueue[t]) : msgQueue'[t][i] = msgQueue[t][i]
               /\ \A i \in 1 .. Len(x[t]) : msgQueue'[t][Len(msgQueue[t]) + i] = x[t][i]
               /\ Box(msgQueue'[t])
    <2>1. msgQueue'[t] = msgQueue[t] \o x[t]
      BY <1>2, <1>3
    <2>2. Len(msgQueue[t]) \in Nat /\ Len(x[t]) \in Nat
      BY <1>1, ListLen
    <2>3. Box(msgQueue[t] \o x[t])
      BY <1>1, BoxConcat
    <2>4. /\ Len(msgQueue[t] \o x[t]) = Len(msgQueue[t]) + Len(x[t])
          /\ \A i \in 1 .. Len(msgQueue[t]) : (msgQueue[t] \o x[t])[i] = msgQueue[t][i]
          /\ \A i \in 1 .. Len(x[t]) : (msgQueue[t] \o x[t])[Len(msgQueue[t]) + i] = x[t][i]
      <3>. DEFINE q == msgQueue[t]
                  r == x[t]
      <3>1. List(q) /\ List(r)
        BY <1>1
      <3>. HIDE DEF q, r
      <3>2. /\ Len(q \o r) = Len(q) + Len(r)
            /\ \A i \in 1 .. Len(q) : (q \o r)[i] = q[i]
            /\ \A i \in 1 .. Len(r) : (q \o r)[Len(q) + i] = r[i]
        BY <3>1, ConcatList
      <3>. QED BY <3>2 DEF q, r
    <2>. QED BY <2>1, <2>2, <2>3, <2>4
  <1>4. ASSUME NEW t \in Thread, worker[t] = "ended"
        PROVE  msgQueue'[t] = <<>> /\ Box(msgQueue'[t])
    BY <1>2, <1>4, BoxEmpty
  <1>5. msgQueue' = [t \in Thread |-> msgQueue'[t]]
    BY <1>2
  <1>. QED BY <1>3, <1>4, <1>5

\* Nothing is pushed to a connection that is not there.
Reaches(x) == \A t \in Thread : worker[t] = "none" => x[t] = <<>>

\* The variables a slot leaves alone.
SlotFrame ==
    /\ events # <<>> /\ events' = Tail(events)
    /\ UNCHANGED <<worker, peer, user, inbox, out, tables>> /\ UNCHANGED clientVars

\* A slot keeps the shape if its own variables keep theirs.
LEMMA SlotShape ==
  ASSUME Shape, SlotFrame,
         \/ UNCHANGED msgQueue
         \/ \E x : Pushes(x) /\ Reaches(x),
         usersOnline' \in [User -> {Nobody} \cup Thread],
         \A u \in User : usersOnline'[u] # Nobody => worker[usersOnline'[u]] # "none",
         groups' \in [Group -> Seq(Thread)],
         \A g \in Group : IsInjective(groups'[g]) /\ \A t \in Range(groups'[g]) : worker[t] # "none",
         createGroupId' \in Nat \ {0},
         List(rows'), \A i \in 1 .. Len(rows') : SaneRow(rows'[i])
  PROVE  Shape'
  <1>1. /\ worker' = worker /\ peer' = peer /\ user' = user /\ inbox' = inbox /\ out' = out
        /\ tables' = tables /\ events' = Tail(events)
    BY DEF SlotFrame
  <1>2. /\ msgQueue' = [t \in Thread |-> msgQueue'[t]]
        /\ \A t \in Thread : Box(msgQueue'[t])
        /\ \A t \in Thread : worker[t] # "running" => msgQueue'[t] = <<>>
    <2>1. CASE UNCHANGED msgQueue
      BY <2>1 DEF Shape, ServerShape, Coupled
    <2>2. ASSUME NEW x, Pushes(x), Reaches(x)
          PROVE  /\ msgQueue' = [t \in Thread |-> msgQueue'[t]]
                 /\ \A t \in Thread : Box(msgQueue'[t])
                 /\ \A t \in Thread : worker[t] # "running" => msgQueue'[t] = <<>>
      <3>1. /\ msgQueue' = [t \in Thread |-> msgQueue'[t]]
            /\ \A t \in Thread : Box(msgQueue'[t])
            /\ \A t \in Thread : worker[t] = "ended" => msgQueue'[t] = <<>>
            /\ \A t \in Thread : worker[t] # "ended" => msgQueue'[t] = msgQueue[t] \o x[t]
        BY <2>2, PushedIs DEF Shape
      <3>2. ASSUME NEW t \in Thread, worker[t] = "none"
            PROVE  msgQueue'[t] = <<>>
        <4>1. msgQueue[t] = <<>> /\ x[t] = <<>> /\ msgQueue'[t] = msgQueue[t] \o x[t]
          BY <2>2, <3>1, <3>2 DEF Shape, Coupled, Reaches
        <4>2. <<>> \o <<>> = <<>>
          OBVIOUS
        <4>. QED BY <4>1, <4>2
      <3>3. \A t \in Thread : worker[t] \in {"none", "running", "ended"}
        BY DEF Shape, ServerShape
      <3>. QED BY <3>1, <3>2, <3>3
    <2>. QED BY <2>1, <2>2
  <1>3. /\ List(events') /\ \A i \in 1 .. Len(events') : SaneSignal(events'[i])
        /\ \A i \in 1 .. Len(events') : worker[events'[i].thread] # "none"
    <2>1. /\ List(events') /\ Len(events') = Len(events) - 1
          /\ \A i \in 1 .. Len(events) - 1 : i + 1 \in 1 .. Len(events) /\ events'[i] = events[i + 1]
      BY SignalIs DEF Shape, SlotFrame
    <2>. QED BY <2>1 DEF Shape, ServerShape, Coupled
  <1>4. ServerShape'
    BY <1>1, <1>2, <1>3 DEF Shape, ServerShape
  <1>5. ClientShape'
    BY DEF Shape, ClientShape, SlotFrame, clientVars, Dialogs
  <1>6. Coupled'
    BY <1>1, <1>2, <1>3 DEF Shape, Coupled, SlotFrame, clientVars, Dialogs
  <1>. QED BY <1>4, <1>5, <1>6 DEF Shape

\* One message for each thread of a set reaches only the set.
LEMMA ReachesSome ==
  ASSUME Shape, NEW thread, NEW g
  PROVE  /\ thread \in Thread /\ worker[thread] # "none" => Reaches(CreateGives(thread)) /\ Reaches(SearchGives(thread))
         /\ (thread \in Thread /\ worker[thread] # "none" /\ g \in Group) =>
               Reaches(JoinGives(thread, g)) /\ Reaches(LeaveGives(thread, g))
         /\ \A m : m.group \in Group => Reaches(GroupGives(thread, m))
         /\ \A m : m.to \in User => Reaches(PrivateGives(m))
  <1>1. ASSUME worker[thread] # "none"
        PROVE  Reaches(CreateGives(thread)) /\ Reaches(SearchGives(thread))
    BY <1>1 DEF Reaches, CreateGives, SearchGives
  <1>2. ASSUME thread \in Thread, worker[thread] # "none", g \in Group
        PROVE  Reaches(JoinGives(thread, g)) /\ Reaches(LeaveGives(thread, g))
    <2>1. \A t \in Range(groups[g]) : worker[t] # "none"
      BY <1>2 DEF Shape, Coupled
    <2>2. Range(Joined(thread, g)) = Range(groups[g]) \cup {thread}
      BY <1>2, JoinedAre DEF Shape
    <2>3. Range(Others(thread, g)) = Range(groups[g]) \ {thread}
      BY <1>2, OthersAre DEF Shape, ServerShape
    <2>4. Reaches(JoinGives(thread, g))
      BY <1>2, <2>1, <2>2 DEF Reaches, JoinGives
    <2>5. Reaches(LeaveGives(thread, g))
      BY <2>1, <2>3 DEF Reaches, LeaveGives
    <2>. QED BY <2>4, <2>5
  <1>3. ASSUME NEW m, m.group \in Group
        PROVE  Reaches(GroupGives(thread, m))
    BY <1>3 DEF Reaches, GroupGives, Shape, Coupled
  <1>4. ASSUME NEW m, m.to \in User
        PROVE  Reaches(PrivateGives(m))
    <2>1. ASSUME NEW t \in Thread, worker[t] = "none"
          PROVE  t # usersOnline[m.to]
      <3>1. t # Nobody
        BY DEF Thread, Nobody
      <3>. QED BY <1>4, <2>1, <3>1 DEF Shape, Coupled
    <2>. QED BY <2>1 DEF Reaches, PrivateGives
  <1>. QED BY <1>1, <1>2, <1>3, <1>4

\* The notices of logins and disconnections go to the threads of those online.
LEMMA ReachesOnline ==
  ASSUME Shape, NEW v
  PROVE  /\ Reaches(OfflineGives(v))
         /\ \A thread \in Thread : worker[thread] # "none" => Reaches(LoginGives(thread, v))
  <1>1. ASSUME NEW t \in Thread, worker[t] = "none"
        PROVE  {u \in Online : usersOnline[u] = t} = {} /\ LeftOn(v, t) = {}
    <2>1. t # Nobody
      BY DEF Thread, Nobody
    <2>2. \A u \in Online : u \in User /\ usersOnline[u] # t
      BY <1>1, <2>1 DEF Online, Shape, Coupled
    <2>. QED BY <2>2 DEF LeftOn
  <1>2. Cardinality({}) = 0
    BY FS_EmptySet
  <1>3. \A m : [i \in 1 .. 0 |-> m] = <<>>
    <2>1. ASSUME NEW m
          PROVE  [i \in 1 .. 0 |-> m] = <<>>
      <3>. DEFINE f == [i \in 1 .. 0 |-> m]
      <3>1. List(f) /\ Len(f) = 0
        BY FcnList
      <3>. QED BY <3>1, NoneList
    <2>. QED BY <2>1
  <1>4. Reaches(OfflineGives(v))
    <2>1. ASSUME NEW t \in Thread, worker[t] = "none"
          PROVE  OfflineGives(v)[t] = <<>>
      <3>1. LeftOn(v, t) = {}
        BY <1>1, <2>1
      <3>2. OfflineGives(v)[t] = [i \in 1 .. Cardinality(LeftOn(v, t)) |-> UserOffline(v)]
        BY DEF OfflineGives
      <3>. QED BY <1>2, <1>3, <3>1, <3>2
    <2>. QED BY <2>1 DEF Reaches
  <1>5. ASSUME NEW thread \in Thread, worker[thread] # "none", NEW t \in Thread, worker[t] = "none"
        PROVE  LoginGives(thread, v)[t] = <<>>
    <2>1. ForUsers(t, UserOnline(v)) = <<>>
      BY <1>1, <1>2, <1>3, <1>5 DEF ForUsers
    <2>2. t # thread
      BY <1>5
    <2>3. LoginGives(thread, v)[t] = <<>> \o <<>>
      BY <2>1, <2>2 DEF LoginGives
    <2>. QED BY <2>3
  <1>. QED BY <1>4, <1>5 DEF Reaches

\* A signal is handled, whichever it is.
AnySlot ==
    \/ Gui("loginSuccess") /\ LoginSuccess(Head(events).thread, Head(events).msg)
    \/ Gui("sendMsg") /\ SendPrivate(Head(events).thread, Head(events).msg)
    \/ Gui("userOffline") /\ UserGoesOffline(Head(events).thread, Head(events).msg)
    \/ Gui("createGroup") /\ CreateNewGroup(Head(events).thread, Head(events).msg)
    \/ Gui("searchGroup") /\ SearchGroups(Head(events).thread, Head(events).msg)
    \/ Gui("joinGroup") /\ JoinTheGroup(Head(events).thread, Head(events).msg)
    \/ Gui("leaveGroup") /\ LeaveTheGroup(Head(events).thread, Head(events).msg)
    \/ Gui("sendGroupMsg") /\ SendToGroup(Head(events).thread, Head(events).msg)

\* What Gui takes and leaves alone.
LEMMA GuiIs ==
  ASSUME Shape, AnySlot, UNCHANGED clientVars, NEW e, e = events[1]
  PROVE  /\ SlotFrame /\ e.thread \in Thread /\ worker[e.thread] # "none" /\ Sane(e.msg)
         /\ \/ e.type = "loginSuccess" /\ e.msg.id \in User /\ LoginSuccess(e.thread, e.msg)
            \/ /\ e.type = "sendMsg" /\ e.msg.to \in User /\ e.msg.msg \in Payload
               /\ SendPrivate(e.thread, e.msg)
            \/ e.type = "userOffline" /\ e.msg.id \in Somebody /\ UserGoesOffline(e.thread, e.msg)
            \/ e.type = "createGroup" /\ CreateNewGroup(e.thread, e.msg)
            \/ e.type = "searchGroup" /\ SearchGroups(e.thread, e.msg)
            \/ e.type = "joinGroup" /\ e.msg.group \in Group /\ JoinTheGroup(e.thread, e.msg)
            \/ e.type = "leaveGroup" /\ e.msg.group \in Group /\ LeaveTheGroup(e.thread, e.msg)
            \/ e.type = "sendGroupMsg" /\ e.msg.group \in Group /\ SendToGroup(e.thread, e.msg)
  <1>1. SlotFrame
    BY DEF AnySlot, Gui, SlotFrame
  <1>2. /\ events # <<>> /\ Head(events) = e /\ SaneSignal(e) /\ worker[e.thread] # "none"
    BY <1>1, SignalIs DEF SlotFrame, Shape, Coupled
  <1>3. e.thread \in Thread /\ Sane(e.msg)
    BY <1>2 DEF SaneSignal
  <1>4. /\ e.type = "loginSuccess" => e.msg.id \in User
        /\ e.type = "sendMsg" => e.msg.to \in User /\ e.msg.msg \in Payload
        /\ e.type = "userOffline" => e.msg.id \in Somebody
        /\ e.type \in {"joinGroup", "leaveGroup", "sendGroupMsg"} => e.msg.group \in Group
    BY <1>2 DEF SaneSignal, Sane, Requests
  <1>5. \/ e.type = "loginSuccess" /\ LoginSuccess(e.thread, e.msg)
        \/ e.type = "sendMsg" /\ SendPrivate(e.thread, e.msg)
        \/ e.type = "userOffline" /\ UserGoesOffline(e.thread, e.msg)
        \/ e.type = "createGroup" /\ CreateNewGroup(e.thread, e.msg)
        \/ e.type = "searchGroup" /\ SearchGroups(e.thread, e.msg)
        \/ e.type = "joinGroup" /\ JoinTheGroup(e.thread, e.msg)
        \/ e.type = "leaveGroup" /\ LeaveTheGroup(e.thread, e.msg)
        \/ e.type = "sendGroupMsg" /\ SendToGroup(e.thread, e.msg)
    BY <1>2 DEF AnySlot, Gui
  <1>. QED BY <1>1, <1>2, <1>3, <1>4, <1>5

\* What the slots do to their own variables.
LEMMA SlotIs ==
  ASSUME Shape, AnySlot, UNCHANGED clientVars, NEW e, e = events[1]
  PROVE  /\ SlotFrame /\ e.thread \in Thread /\ worker[e.thread] # "none" /\ Sane(e.msg)
         /\ \/ /\ e.type = "loginSuccess" /\ e.msg.id \in User /\ e.msg.id \in Online
               /\ UNCHANGED <<msgQueue, usersOnline, rows, groups, createGroupId>>
            \/ /\ e.type = "loginSuccess" /\ e.msg.id \in User /\ e.msg.id \notin Online
               /\ Pushes(LoginGives(e.thread, e.msg.id)) /\ Reaches(LoginGives(e.thread, e.msg.id))
               /\ usersOnline' = [usersOnline EXCEPT ![e.msg.id] = e.thread]
               /\ rows' = [i \in 1 .. Len(rows) |-> [rows[i] EXCEPT !.read = @ \/ rows[i].to = e.msg.id]]
               /\ UNCHANGED <<groups, createGroupId>>
            \/ /\ e.type = "sendMsg" /\ e.msg.to \in User /\ e.msg.msg \in Payload
               /\ Pushes(PrivateGives(e.msg)) /\ Reaches(PrivateGives(e.msg))
               /\ rows' = IF tables
                          THEN Append(rows, [from |-> e.msg.from, to |-> e.msg.to, msg |-> e.msg.msg,
                                             read |-> FALSE])
                          ELSE rows
               /\ UNCHANGED <<usersOnline, groups, createGroupId>>
            \/ /\ e.type = "userOffline" /\ e.msg.id \in Somebody
               /\ Pushes(OfflineGives(e.msg.id)) /\ Reaches(OfflineGives(e.msg.id))
               /\ usersOnline' = [u \in User |-> IF u = e.msg.id THEN Nobody ELSE usersOnline[u]]
               /\ UNCHANGED <<rows, groups, createGroupId>>
            \/ /\ e.type = "createGroup"
               /\ Pushes(CreateGives(e.thread)) /\ Reaches(CreateGives(e.thread))
               /\ createGroupId' = createGroupId + 1
               /\ UNCHANGED <<usersOnline, rows, groups>>
            \/ /\ e.type = "searchGroup"
               /\ Pushes(SearchGives(e.thread)) /\ Reaches(SearchGives(e.thread))
               /\ UNCHANGED <<usersOnline, rows, groups, createGroupId>>
            \/ /\ e.type = "joinGroup" /\ e.msg.group \in Group
               /\ Pushes(JoinGives(e.thread, e.msg.group)) /\ Reaches(JoinGives(e.thread, e.msg.group))
               /\ groups' = [groups EXCEPT ![e.msg.group] = Joined(e.thread, e.msg.group)]
               /\ UNCHANGED <<usersOnline, rows, createGroupId>>
            \/ /\ e.type = "leaveGroup" /\ e.msg.group \in Group
               /\ Pushes(LeaveGives(e.thread, e.msg.group)) /\ Reaches(LeaveGives(e.thread, e.msg.group))
               /\ groups' = [groups EXCEPT ![e.msg.group] = Others(e.thread, e.msg.group)]
               /\ UNCHANGED <<usersOnline, rows, createGroupId>>
            \/ /\ e.type = "sendGroupMsg" /\ e.msg.group \in Group
               /\ Pushes(GroupGives(e.thread, e.msg)) /\ Reaches(GroupGives(e.thread, e.msg))
               /\ UNCHANGED <<usersOnline, rows, groups, createGroupId>>
  <1>. DEFINE thread == e.thread
              m == e.msg
  <1>1. /\ SlotFrame /\ thread \in Thread /\ worker[thread] # "none" /\ Sane(m)
        /\ \/ e.type = "loginSuccess" /\ m.id \in User /\ LoginSuccess(thread, m)
           \/ /\ e.type = "sendMsg" /\ m.to \in User /\ m.msg \in Payload
              /\ SendPrivate(thread, m)
           \/ e.type = "userOffline" /\ m.id \in Somebody /\ UserGoesOffline(thread, m)
           \/ e.type = "createGroup" /\ CreateNewGroup(thread, m)
           \/ e.type = "searchGroup" /\ SearchGroups(thread, m)
           \/ e.type = "joinGroup" /\ m.group \in Group /\ JoinTheGroup(thread, m)
           \/ e.type = "leaveGroup" /\ m.group \in Group /\ LeaveTheGroup(thread, m)
           \/ e.type = "sendGroupMsg" /\ m.group \in Group /\ SendToGroup(thread, m)
    BY GuiIs
  <1>. HIDE DEF thread, m
  <1>. ServerShape
    BY DEF Shape
  <1>2. ASSUME m.id \in User, LoginSuccess(thread, m), m.id \in Online
        PROVE  UNCHANGED <<msgQueue, usersOnline, rows, groups, createGroupId>>
    BY <1>2 DEF LoginSuccess
  <1>3. ASSUME m.id \in User, LoginSuccess(thread, m), m.id \notin Online
        PROVE  /\ Pushes(LoginGives(thread, m.id)) /\ Reaches(LoginGives(thread, m.id))
               /\ usersOnline' = [usersOnline EXCEPT ![m.id] = thread]
               /\ rows' = [i \in 1 .. Len(rows) |-> [rows[i] EXCEPT !.read = @ \/ rows[i].to = m.id]]
               /\ UNCHANGED <<groups, createGroupId>>
    <2>1. Pushes(LoginGives(thread, m.id)) /\ Reaches(LoginGives(thread, m.id))
      BY <1>1, <1>3, LoginPushes, ReachesOnline
    <2>. QED BY <1>3, <2>1 DEF LoginSuccess
  <1>4. ASSUME m.to \in User, m.msg \in Payload, SendPrivate(thread, m)
        PROVE  /\ Pushes(PrivateGives(m)) /\ Reaches(PrivateGives(m))
               /\ rows' = IF tables
                          THEN Append(rows, [from |-> m.from, to |-> m.to, msg |-> m.msg, read |-> FALSE])
                          ELSE rows
               /\ UNCHANGED <<usersOnline, groups, createGroupId>>
    <2>1. Pushes(PrivateGives(m)) /\ Reaches(PrivateGives(m))
      BY <1>4, PrivatePushes, ReachesSome
    <2>. QED BY <1>4, <2>1 DEF SendPrivate
  <1>5. ASSUME m.id \in Somebody, UserGoesOffline(thread, m)
        PROVE  /\ Pushes(OfflineGives(m.id)) /\ Reaches(OfflineGives(m.id))
               /\ usersOnline' = [u \in User |-> IF u = m.id THEN Nobody ELSE usersOnline[u]]
               /\ UNCHANGED <<rows, groups, createGroupId>>
    <2>1. Pushes(OfflineGives(m.id)) /\ Reaches(OfflineGives(m.id))
      BY <1>5, OfflinePushes, ReachesOnline
    <2>. QED BY <1>5, <2>1 DEF UserGoesOffline
  <1>6. ASSUME CreateNewGroup(thread, m)
        PROVE  /\ Pushes(CreateGives(thread)) /\ Reaches(CreateGives(thread))
               /\ createGroupId' = createGroupId + 1
               /\ UNCHANGED <<usersOnline, rows, groups>>
    <2>1. Pushes(CreateGives(thread)) /\ Reaches(CreateGives(thread))
      BY <1>1, <1>6, AskPushes, ReachesSome
    <2>. QED BY <1>6, <2>1 DEF CreateNewGroup
  <1>7. ASSUME SearchGroups(thread, m)
        PROVE  /\ Pushes(SearchGives(thread)) /\ Reaches(SearchGives(thread))
               /\ UNCHANGED <<usersOnline, rows, groups, createGroupId>>
    <2>1. Pushes(SearchGives(thread)) /\ Reaches(SearchGives(thread))
      BY <1>1, <1>7, AskPushes, ReachesSome
    <2>. QED BY <1>7, <2>1 DEF SearchGroups
  <1>8. ASSUME m.group \in Group, JoinTheGroup(thread, m)
        PROVE  /\ Pushes(JoinGives(thread, m.group)) /\ Reaches(JoinGives(thread, m.group))
               /\ groups' = [groups EXCEPT ![m.group] = Joined(thread, m.group)]
               /\ UNCHANGED <<usersOnline, rows, createGroupId>>
    <2>1. /\ Pushes(JoinGives(thread, m.group)) /\ Reaches(JoinGives(thread, m.group))
          /\ groups' = [groups EXCEPT ![m.group] = Joined(thread, m.group)]
      BY <1>1, <1>8, JoinPushes, ReachesSome
    <2>. QED BY <1>8, <2>1 DEF JoinTheGroup
  <1>9. ASSUME m.group \in Group, LeaveTheGroup(thread, m)
        PROVE  /\ Pushes(LeaveGives(thread, m.group)) /\ Reaches(LeaveGives(thread, m.group))
               /\ groups' = [groups EXCEPT ![m.group] = Others(thread, m.group)]
               /\ UNCHANGED <<usersOnline, rows, createGroupId>>
    <2>1. /\ Pushes(LeaveGives(thread, m.group)) /\ Reaches(LeaveGives(thread, m.group))
          /\ groups' = [groups EXCEPT ![m.group] = Others(thread, m.group)]
      BY <1>1, <1>9, LeavePushes, ReachesSome
    <2>. QED BY <1>9, <2>1 DEF LeaveTheGroup
  <1>10. ASSUME m.group \in Group, SendToGroup(thread, m)
         PROVE  /\ Pushes(GroupGives(thread, m)) /\ Reaches(GroupGives(thread, m))
                /\ UNCHANGED <<usersOnline, rows, groups, createGroupId>>
    <2>1. Pushes(GroupGives(thread, m)) /\ Reaches(GroupGives(thread, m))
      BY <1>1, <1>10, GroupPushes, ReachesSome
    <2>. QED BY <1>10, <2>1 DEF SendToGroup
  <1>. USE DEF thread, m
  <1>. QED BY <1>1, <1>2, <1>3, <1>4, <1>5, <1>6, <1>7, <1>8, <1>9, <1>10

\* The rows once u's are read.
Marked(u) == [i \in 1 .. Len(rows) |-> [rows[i] EXCEPT !.read = @ \/ rows[i].to = u]]

\* They are rows with the same messages.
LEMMA RowsAfter ==
  ASSUME ServerShape, NEW u
  PROVE  /\ List(Marked(u)) /\ Len(Marked(u)) = Len(rows)
         /\ \A i \in 1 .. Len(rows) : SaneRow(Marked(u)[i]) /\ Marked(u)[i].msg = rows[i].msg
  <1>. DEFINE read == [i \in 1 .. Len(rows) |-> [rows[i] EXCEPT !.read = @ \/ rows[i].to = u]]
  <1>1. List(rows) /\ Len(rows) \in Nat /\ \A i \in 1 .. Len(rows) : SaneRow(rows[i])
    BY ListLen DEF ServerShape
  <1>2. List(read) /\ Len(read) = Len(rows)
    BY <1>1, FcnList
  <1>3. ASSUME NEW i \in 1 .. Len(rows)
        PROVE  SaneRow(read[i]) /\ read[i].msg = rows[i].msg
    <2>. DEFINE r == rows[i]
    <2>1. /\ r = [from |-> r.from, to |-> r.to, msg |-> r.msg, read |-> r.read]
          /\ r.to \in User /\ r.msg \in Payload /\ r.read \in BOOLEAN
      BY <1>1 DEF SaneRow
    <2>2. read[i] = [r EXCEPT !.read = @ \/ r.to = u]
      OBVIOUS
    <2>. HIDE DEF r, read
    <2>3. read[i] = [from |-> r.from, to |-> r.to, msg |-> r.msg, read |-> (r.read \/ r.to = u)]
      BY <2>1, <2>2
    <2>4. SaneRow(read[i]) /\ read[i].msg = r.msg
      BY <2>1, <2>3 DEF SaneRow
    <2>. QED BY <2>4 DEF r
  <1>. QED BY <1>2, <1>3 DEF Marked

\* Whichever signal is handled, the shape is kept.
LEMMA ShapeSlot ==
  ASSUME Shape, AnySlot, UNCHANGED clientVars
  PROVE  Shape'
  <1>. DEFINE e == events[1]
              thread == e.thread
              m == e.msg
              Same == UNCHANGED <<usersOnline, groups, createGroupId, rows>>
  <1>. ServerShape
    BY DEF Shape
  <1>1. SlotFrame /\ thread \in Thread /\ worker[thread] # "none"
    BY SlotIs
  <1>2. /\ usersOnline \in [User -> {Nobody} \cup Thread]
        /\ \A u \in User : usersOnline[u] # Nobody => worker[usersOnline[u]] # "none"
        /\ groups \in [Group -> Seq(Thread)]
        /\ \A g \in Group : IsInjective(groups[g]) /\ \A t \in Range(groups[g]) : worker[t] # "none"
        /\ createGroupId \in Nat \ {0}
        /\ List(rows) /\ \A i \in 1 .. Len(rows) : SaneRow(rows[i])
    BY DEF Shape, ServerShape, Coupled
  <1>3. \/ /\ m.id \in User /\ m.id \in Online /\ UNCHANGED msgQueue /\ Same
        \/ /\ m.id \in User /\ Pushes(LoginGives(thread, m.id)) /\ Reaches(LoginGives(thread, m.id))
           /\ usersOnline' = [usersOnline EXCEPT ![m.id] = thread]
           /\ rows' = [i \in 1 .. Len(rows) |-> [rows[i] EXCEPT !.read = @ \/ rows[i].to = m.id]]
           /\ UNCHANGED <<groups, createGroupId>>
        \/ /\ m.to \in User /\ m.msg \in Payload
           /\ Pushes(PrivateGives(m)) /\ Reaches(PrivateGives(m))
           /\ rows' = IF tables
                      THEN Append(rows, [from |-> m.from, to |-> m.to, msg |-> m.msg, read |-> FALSE])
                      ELSE rows
           /\ UNCHANGED <<usersOnline, groups, createGroupId>>
        \/ /\ Pushes(OfflineGives(m.id)) /\ Reaches(OfflineGives(m.id))
           /\ usersOnline' = [u \in User |-> IF u = m.id THEN Nobody ELSE usersOnline[u]]
           /\ UNCHANGED <<rows, groups, createGroupId>>
        \/ /\ \E x : Pushes(x) /\ Reaches(x)
           /\ createGroupId' = createGroupId + 1
           /\ UNCHANGED <<usersOnline, rows, groups>>
        \/ /\ \E x : Pushes(x) /\ Reaches(x)
           /\ Same
        \/ /\ m.group \in Group /\ \E x : Pushes(x) /\ Reaches(x)
           /\ groups' = [groups EXCEPT ![m.group] = Joined(thread, m.group)]
           /\ UNCHANGED <<usersOnline, rows, createGroupId>>
        \/ /\ m.group \in Group /\ \E x : Pushes(x) /\ Reaches(x)
           /\ groups' = [groups EXCEPT ![m.group] = Others(thread, m.group)]
           /\ UNCHANGED <<usersOnline, rows, createGroupId>>
    BY SlotIs
  <1>. HIDE DEF e, thread, m
  <1>4. CASE UNCHANGED msgQueue /\ Same
    BY <1>1, <1>2, <1>4, SlotShape
  <1>5. CASE /\ m.id \in User /\ Pushes(LoginGives(thread, m.id)) /\ Reaches(LoginGives(thread, m.id))
             /\ usersOnline' = [usersOnline EXCEPT ![m.id] = thread]
             /\ rows' = [i \in 1 .. Len(rows) |-> [rows[i] EXCEPT !.read = @ \/ rows[i].to = m.id]]
             /\ UNCHANGED <<groups, createGroupId>>
    <2>0. rows' = Marked(m.id)
      BY <1>5 DEF Marked
    <2>1. List(rows') /\ \A i \in 1 .. Len(rows') : SaneRow(rows'[i])
      BY <2>0, RowsAfter
    <2>2. /\ usersOnline' \in [User -> {Nobody} \cup Thread]
          /\ \A u \in User : usersOnline'[u] # Nobody => worker[usersOnline'[u]] # "none"
      BY <1>1, <1>2, <1>5
    <2>3. \E x : Pushes(x) /\ Reaches(x)
      BY <1>5
    <2>4. groups' = groups /\ createGroupId' = createGroupId
      BY <1>5
    <2>. QED BY <1>1, <1>2, <2>1, <2>2, <2>3, <2>4, SlotShape
  <1>6. CASE /\ m.to \in User /\ m.msg \in Payload
             /\ Pushes(PrivateGives(m)) /\ Reaches(PrivateGives(m))
             /\ rows' = IF tables
                        THEN Append(rows, [from |-> m.from, to |-> m.to, msg |-> m.msg, read |-> FALSE])
                        ELSE rows
             /\ UNCHANGED <<usersOnline, groups, createGroupId>>
    <2>. DEFINE r == [from |-> m.from, to |-> m.to, msg |-> m.msg, read |-> FALSE]
    <2>1. SaneRow(r)
      BY <1>6 DEF SaneRow
    <2>. HIDE DEF r
    <2>2. List(rows') /\ \A i \in 1 .. Len(rows') : SaneRow(rows'[i])
      <3>1. CASE tables
        <4>1. rows' = Append(rows, r)
          BY <1>6, <3>1 DEF r
        <4>2. /\ List(rows') /\ Len(rows') = Len(rows) + 1 /\ Len(rows) \in Nat
              /\ \A i \in 1 .. Len(rows) : rows'[i] = rows[i]
              /\ rows'[Len(rows) + 1] = r
          BY <1>2, <4>1, AppendList, ListLen
        <4>3. \A i \in 1 .. Len(rows) + 1 : i \in 1 .. Len(rows) \/ i = Len(rows) + 1
          BY <4>2
        <4>. QED BY <1>2, <2>1, <4>2, <4>3
      <3>2. CASE ~tables
        BY <1>2, <1>6, <3>2
      <3>. QED BY <3>1, <3>2
    <2>3. \E x : Pushes(x) /\ Reaches(x)
      BY <1>6
    <2>4. usersOnline' = usersOnline /\ groups' = groups /\ createGroupId' = createGroupId
      BY <1>6
    <2>. QED BY <1>1, <1>2, <2>2, <2>3, <2>4, SlotShape
  <1>7. CASE /\ Pushes(OfflineGives(m.id)) /\ Reaches(OfflineGives(m.id))
             /\ usersOnline' = [u \in User |-> IF u = m.id THEN Nobody ELSE usersOnline[u]]
             /\ UNCHANGED <<rows, groups, createGroupId>>
    <2>1. /\ usersOnline' \in [User -> {Nobody} \cup Thread]
          /\ \A u \in User : usersOnline'[u] # Nobody => worker[usersOnline'[u]] # "none"
      BY <1>2, <1>7
    <2>2. \E x : Pushes(x) /\ Reaches(x)
      BY <1>7
    <2>3. rows' = rows /\ groups' = groups /\ createGroupId' = createGroupId
      BY <1>7
    <2>. QED BY <1>1, <1>2, <2>1, <2>2, <2>3, SlotShape
  <1>8. CASE /\ \E x : Pushes(x) /\ Reaches(x)
             /\ createGroupId' = createGroupId + 1
             /\ UNCHANGED <<usersOnline, rows, groups>>
    <2>1. createGroupId' \in Nat \ {0}
      BY <1>2, <1>8
    <2>. QED BY <1>1, <1>2, <1>8, <2>1, SlotShape
  <1>9. CASE (\E x : Pushes(x) /\ Reaches(x)) /\ Same
    BY <1>1, <1>2, <1>9, SlotShape
  <1>10. CASE /\ m.group \in Group /\ \E x : Pushes(x) /\ Reaches(x)
              /\ groups' = [groups EXCEPT ![m.group] = Joined(thread, m.group)]
              /\ UNCHANGED <<usersOnline, rows, createGroupId>>
    <2>1. /\ Joined(thread, m.group) \in Seq(Thread) /\ IsInjective(Joined(thread, m.group))
          /\ Range(Joined(thread, m.group)) = Range(groups[m.group]) \cup {thread}
      BY <1>1, <1>10, JoinedAre
    <2>2. /\ groups' \in [Group -> Seq(Thread)]
          /\ groups'[m.group] = Joined(thread, m.group)
          /\ \A g \in Group : g # m.group => groups'[g] = groups[g]
      BY <1>2, <1>10, <2>1
    <2>3. \A g \in Group : IsInjective(groups'[g]) /\ \A t \in Range(groups'[g]) : worker[t] # "none"
      BY <1>1, <1>2, <1>10, <2>1, <2>2
    <2>. QED BY <1>1, <1>2, <1>10, <2>2, <2>3, SlotShape
  <1>11. CASE /\ m.group \in Group /\ \E x : Pushes(x) /\ Reaches(x)
              /\ groups' = [groups EXCEPT ![m.group] = Others(thread, m.group)]
              /\ UNCHANGED <<usersOnline, rows, createGroupId>>
    <2>1. /\ Others(thread, m.group) \in Seq(Thread) /\ IsInjective(Others(thread, m.group))
          /\ Range(Others(thread, m.group)) = Range(groups[m.group]) \ {thread}
      BY <1>2, <1>11, OthersAre
    <2>2. /\ groups' \in [Group -> Seq(Thread)]
          /\ groups'[m.group] = Others(thread, m.group)
          /\ \A g \in Group : g # m.group => groups'[g] = groups[g]
      BY <1>2, <1>11, <2>1
    <2>3. \A g \in Group : IsInjective(groups'[g]) /\ \A t \in Range(groups'[g]) : worker[t] # "none"
      BY <1>2, <1>11, <2>1, <2>2
    <2>. QED BY <1>1, <1>2, <1>11, <2>2, <2>3, SlotShape
  <1>. QED BY <1>3, <1>4, <1>5, <1>6, <1>7, <1>8, <1>9, <1>10, <1>11

-----------------------------------------------------------------------------
(***************************************************************************)
(* The shape is kept: the worker threads.                                  *)
(***************************************************************************)

\* One more signal.
LEMMA SignalMore ==
  ASSUME ServerShape, NEW e, SaneSignal(e)
  PROVE  /\ Len(events) \in Nat /\ List(Append(events, e)) /\ Len(Append(events, e)) = Len(events) + 1
         /\ \A i \in 1 .. Len(events) : Append(events, e)[i] = events[i]
         /\ Append(events, e)[Len(events) + 1] = e
         /\ \A i \in 1 .. Len(events) + 1 : i \in 1 .. Len(events) \/ i = Len(events) + 1
         /\ \A i \in 1 .. Len(events) + 1 : SaneSignal(Append(events, e)[i])
  <1>1. List(events) /\ \A i \in 1 .. Len(events) : SaneSignal(events[i])
    BY DEF ServerShape
  <1>2. /\ Len(events) \in Nat /\ List(Append(events, e)) /\ Len(Append(events, e)) = Len(events) + 1
        /\ \A i \in 1 .. Len(events) : Append(events, e)[i] = events[i]
        /\ Append(events, e)[Len(events) + 1] = e
    BY <1>1, ListLen, AppendList
  <1>3. \A i \in 1 .. Len(events) + 1 : i \in 1 .. Len(events) \/ i = Len(events) + 1
    BY <1>2
  <1>. QED BY <1>1, <1>2, <1>3

\* The members of a group are threads.
LEMMA GroupThreads ==
  ASSUME Shape, NEW g \in Group, NEW s \in Range(groups[g])
  PROVE  s \in Thread
  <1>1. groups[g] \in Seq(Thread)
    BY DEF Shape, ServerShape
  <1>2. DOMAIN groups[g] = 1 .. Len(groups[g]) /\ \A i \in 1 .. Len(groups[g]) : groups[g][i] \in Thread
    BY <1>1, LenProperties, ElementOfSeq
  <1>. QED BY <1>2 DEF Range

\* ReadFrames.
LEMMA ShapeReadFrames ==
  ASSUME Shape, NEW t \in Thread, ReadFrames(t), UNCHANGED clientVars
  PROVE  Shape'
  <1>1. /\ worker[t] = "running" /\ msgQueue' = [msgQueue EXCEPT ![t] = @ \o inbox[t]]
        /\ inbox' = [inbox EXCEPT ![t] = <<>>]
        /\ UNCHANGED <<worker, peer, user, out, events, usersOnline, groups, createGroupId, rows, tables>>
    BY DEF ReadFrames, guiVars
  <1>2. Box(msgQueue[t] \o inbox[t])
    BY BoxConcat DEF Shape, ServerShape, Frames
  <1>3. /\ msgQueue' = [s \in Thread |-> msgQueue'[s]] /\ \A s \in Thread : Box(msgQueue'[s])
        /\ \A s \in Thread : s # t => msgQueue'[s] = msgQueue[s]
    BY <1>1, <1>2 DEF Shape, ServerShape
  <1>4. /\ inbox' = [s \in Thread |-> inbox'[s]] /\ \A s \in Thread : Frames(inbox'[s])
        /\ \A s \in Thread : s # t => inbox'[s] = inbox[s]
    BY <1>1, BoxEmpty DEF Shape, ServerShape
  <1>5. ServerShape'
    BY <1>1, <1>3, <1>4 DEF Shape, ServerShape
  <1>6. ClientShape'
    BY DEF Shape, ClientShape, clientVars, Dialogs
  <1>7. Coupled'
    BY <1>1, <1>3, <1>4 DEF Shape, Coupled, clientVars, Dialogs
  <1>. QED BY <1>5, <1>6, <1>7 DEF Shape

\* What is written to a socket.
LEMMA WrittenIs ==
  ASSUME Shape, NEW t \in Thread, NEW m, Sane(m), ~Frame(m)
  PROVE  /\ Written(t, m) = [s \in Thread |-> Written(t, m)[s]]
         /\ \A s \in Thread : Notices(Written(t, m)[s])
         /\ \A s \in Thread : ~peer[s] => Written(t, m)[s] = <<>>
         /\ \A s \in Thread : s # t \/ ~peer[s] => Written(t, m)[s] = out[s]
         /\ peer[t] => Written(t, m)[t] = Append(out[t], m)
  <1>1. /\ out = [s \in Thread |-> out[s]] /\ \A s \in Thread : Notices(out[s])
        /\ \A s \in Thread : ~peer[s] => out[s] = <<>>
    BY DEF Shape, ServerShape, Coupled
  <1>2. Notices(Append(out[t], m))
    BY <1>1, BoxAppend DEF Notices
  <1>3. CASE peer[t]
    <2>1. Written(t, m) = [out EXCEPT ![t] = Append(@, m)]
      BY <1>3 DEF Written
    <2>2. /\ Written(t, m) = [s \in Thread |-> Written(t, m)[s]]
          /\ Written(t, m)[t] = Append(out[t], m)
          /\ \A s \in Thread : s # t => Written(t, m)[s] = out[s]
      BY <1>1, <2>1
    <2>. QED BY <1>1, <1>2, <1>3, <2>2
  <1>4. CASE ~peer[t]
    BY <1>1, <1>4 DEF Written
  <1>. QED BY <1>3, <1>4

\* The message at the head of a queue is dealt with: a login, a request, or something
\* to write.
LEMMA DealIs ==
  ASSUME Shape, NEW t \in Thread, Deal(t), NEW m, m = msgQueue[t][1]
  PROVE  /\ worker[t] = "running" /\ msgQueue[t] # <<>> /\ Sane(m)
         /\ msgQueue' = [msgQueue EXCEPT ![t] = Tail(msgQueue[t])]
         /\ UNCHANGED <<worker, peer, inbox, usersOnline, groups, createGroupId, rows, tables>>
         /\ \/ /\ Rightly(m) /\ m.id \in User /\ SaneSignal(Signal("loginSuccess", t, m))
               /\ user' = [user EXCEPT ![t] = m.id]
               /\ events' = Append(events, Signal("loginSuccess", t, m)) /\ UNCHANGED out
            \/ /\ m.type \in Requests /\ SaneSignal(Signal(m.type, t, m))
               /\ events' = Append(events, Signal(m.type, t, m)) /\ UNCHANGED <<user, out>>
            \/ /\ Frame(m) /\ ~Rightly(m) /\ m.type \notin Requests /\ UNCHANGED <<user, events>>
               /\ \E n : Sane(n) /\ ~Frame(n) /\ ~Personal(n) /\ ~Grouped(n) /\ out' = Written(t, n)
            \/ /\ ~Frame(m) /\ out' = Written(t, m) /\ UNCHANGED <<user, events>>
  <1>1. worker[t] = "running" /\ msgQueue[t] # <<>> /\ Dealt(t, Head(msgQueue[t]))
    BY DEF Deal
  <1>2. /\ msgQueue' = [msgQueue EXCEPT ![t] = Tail(msgQueue[t])]
        /\ UNCHANGED <<worker, peer, inbox, usersOnline, groups, createGroupId, rows, tables>>
    BY DEF Deal, guiVars
  <1>3. Head(msgQueue[t]) = m /\ Sane(m)
    <2>1. Box(msgQueue[t]) /\ List(msgQueue[t])
      BY DEF Shape, ServerShape, Box
    <2>2. Head(msgQueue[t]) = msgQueue[t][1]
      BY <1>1, <2>1, TailList
    <2>. QED BY <1>1, <2>1, <2>2, BoxTail
  <1>4. Dealt(t, m)
    BY <1>1, <1>3
  <1>5. CASE m.type = "login" /\ m.right
    <2>1. m.id \in User
      BY <1>3, <1>5 DEF Sane
    <2>2. SaneSignal(Signal("loginSuccess", t, m))
      BY <1>3, <1>5 DEF SaneSignal, Signal, Requests
    <2>3. /\ user' = [user EXCEPT ![t] = m.id]
          /\ events' = Append(events, Signal("loginSuccess", t, m)) /\ UNCHANGED out
      BY <1>4, <1>5 DEF Dealt, Requests
    <2>. QED BY <1>1, <1>2, <1>3, <1>5, <2>1, <2>2, <2>3 DEF Rightly
  <1>6. CASE m.type = "login" /\ ~m.right
    <2>1. out' = Written(t, LoginLoseReturn) /\ UNCHANGED <<user, events>>
      BY <1>4, <1>6 DEF Dealt, Requests
    <2>2. /\ Sane(LoginLoseReturn) /\ ~Frame(LoginLoseReturn)
          /\ ~Personal(LoginLoseReturn) /\ ~Grouped(LoginLoseReturn)
      BY SaneNotices DEF Personal, Grouped, LoginLoseReturn
    <2>3. Frame(m) /\ ~Rightly(m) /\ m.type \notin Requests
      BY <1>6 DEF Frame, Rightly, Requests
    <2>. QED BY <1>1, <1>2, <1>3, <2>1, <2>2, <2>3
  <1>7. CASE m.type = "registerUser"
    <2>1. out' = Written(t, RegisterUserReturn) /\ UNCHANGED <<user, events>>
      BY <1>4, <1>7 DEF Dealt, Requests
    <2>2. /\ Sane(RegisterUserReturn) /\ ~Frame(RegisterUserReturn)
          /\ ~Personal(RegisterUserReturn) /\ ~Grouped(RegisterUserReturn)
      BY SaneNotices DEF Personal, Grouped, RegisterUserReturn
    <2>3. Frame(m) /\ ~Rightly(m) /\ m.type \notin Requests
      BY <1>7 DEF Frame, Rightly, Requests
    <2>. QED BY <1>1, <1>2, <1>3, <2>1, <2>2, <2>3
  <1>8. CASE m.type \in Requests
    <2>1. events' = Append(events, Signal(m.type, t, m)) /\ UNCHANGED <<user, out>>
      BY <1>4, <1>8 DEF Dealt, Requests
    <2>2. SaneSignal(Signal(m.type, t, m))
      BY <1>3, <1>8 DEF SaneSignal, Signal, Requests
    <2>. QED BY <1>1, <1>2, <1>3, <1>8, <2>1, <2>2
  <1>9. CASE m.type \notin {"login", "registerUser"} \cup Requests
    <2>1. out' = Written(t, m) /\ UNCHANGED <<user, events>>
      BY <1>4, <1>9 DEF Dealt
    <2>2. ~Frame(m)
      BY <1>9 DEF Frame
    <2>. QED BY <1>1, <1>2, <1>3, <2>1, <2>2
  <1>. QED BY <1>4, <1>5, <1>6, <1>7, <1>8, <1>9 DEF Dealt

\* A signal with this thread is queued.
LEMMA SignalKept ==
  ASSUME Shape, NEW e, SaneSignal(e), worker[e.thread] # "none", events' = Append(events, e)
  PROVE  /\ List(events') /\ \A i \in 1 .. Len(events') : SaneSignal(events'[i])
         /\ \A i \in 1 .. Len(events') : worker[events'[i].thread] # "none"
  <1>1. /\ Len(events) \in Nat /\ List(events') /\ Len(events') = Len(events) + 1
        /\ \A i \in 1 .. Len(events) : events'[i] = events[i]
        /\ events'[Len(events) + 1] = e
        /\ \A i \in 1 .. Len(events) + 1 : i \in 1 .. Len(events) \/ i = Len(events) + 1
        /\ \A i \in 1 .. Len(events) + 1 : SaneSignal(events'[i])
    BY SignalMore DEF Shape
  <1>2. \A i \in 1 .. Len(events) : worker[events[i].thread] # "none"
    BY DEF Shape, Coupled
  <1>. QED BY <1>1, <1>2

\* Deal.
LEMMA ShapeDeal ==
  ASSUME Shape, NEW t \in Thread, Deal(t), UNCHANGED clientVars
  PROVE  Shape'
  <1>. DEFINE m == msgQueue[t][1]
  <1>1. /\ worker[t] = "running" /\ msgQueue[t] # <<>> /\ Sane(m)
        /\ msgQueue' = [msgQueue EXCEPT ![t] = Tail(msgQueue[t])]
        /\ UNCHANGED <<worker, peer, inbox, usersOnline, groups, createGroupId, rows, tables>>
    BY DealIs
  <1>2. \/ /\ m.id \in User /\ SaneSignal(Signal("loginSuccess", t, m))
           /\ user' = [user EXCEPT ![t] = m.id]
           /\ events' = Append(events, Signal("loginSuccess", t, m)) /\ UNCHANGED out
        \/ /\ SaneSignal(Signal(m.type, t, m))
           /\ events' = Append(events, Signal(m.type, t, m)) /\ UNCHANGED <<user, out>>
        \/ \E n : Sane(n) /\ ~Frame(n) /\ out' = Written(t, n) /\ UNCHANGED <<user, events>>
    BY <1>1, DealIs
  <1>. HIDE DEF m
  <1>3. Box(Tail(msgQueue[t]))
    BY <1>1, BoxTail DEF Shape, ServerShape
  <1>4. /\ msgQueue' = [s \in Thread |-> msgQueue'[s]] /\ \A s \in Thread : Box(msgQueue'[s])
        /\ \A s \in Thread : s # t => msgQueue'[s] = msgQueue[s]
    BY <1>1, <1>3 DEF Shape, ServerShape
  <1>5. /\ user' \in [Thread -> Somebody] /\ \A s \in Thread : s # t => user'[s] = user[s]
    BY <1>2 DEF Shape, ServerShape, Somebody
  <1>6. /\ List(events') /\ \A i \in 1 .. Len(events') : SaneSignal(events'[i])
        /\ \A i \in 1 .. Len(events') : worker[events'[i].thread] # "none"
    <2>1. ASSUME NEW e, SaneSignal(e), e.thread = t, events' = Append(events, e)
          PROVE  /\ List(events') /\ \A i \in 1 .. Len(events') : SaneSignal(events'[i])
                 /\ \A i \in 1 .. Len(events') : worker[events'[i].thread] # "none"
      BY <1>1, <2>1, SignalKept
    <2>2. \A k : Signal(k, t, m).thread = t
      BY DEF Signal
    <2>3. CASE UNCHANGED events
      BY <2>3 DEF Shape, ServerShape, Coupled
    <2>. QED BY <1>2, <2>1, <2>2, <2>3
  <1>7. /\ out' = [s \in Thread |-> out'[s]] /\ \A s \in Thread : Notices(out'[s])
        /\ \A s \in Thread : ~peer[s] => out'[s] = <<>>
    <2>1. CASE UNCHANGED out
      BY <2>1 DEF Shape, ServerShape, Coupled
    <2>2. ASSUME NEW n, Sane(n), ~Frame(n), out' = Written(t, n)
          PROVE  /\ out' = [s \in Thread |-> out'[s]] /\ \A s \in Thread : Notices(out'[s])
                 /\ \A s \in Thread : ~peer[s] => out'[s] = <<>>
      BY <2>2, WrittenIs
    <2>. QED BY <1>2, <2>1, <2>2
  <1>8. ServerShape'
    BY <1>1, <1>4, <1>5, <1>6, <1>7 DEF Shape, ServerShape
  <1>9. ClientShape'
    BY DEF Shape, ClientShape, clientVars, Dialogs
  <1>10. Coupled'
    BY <1>1, <1>4, <1>5, <1>6, <1>7 DEF Shape, Coupled, clientVars, Dialogs
  <1>. QED BY <1>8, <1>9, <1>10 DEF Shape

\* What Ends does.
LEMMA EndsIs ==
  ASSUME Shape, NEW t \in Thread, Ends(t), NEW e, e = Signal("userOffline", t, UserOffline(user[t]))
  PROVE  /\ worker[t] = "running" /\ ~peer[t] /\ worker' = [worker EXCEPT ![t] = "ended"]
         /\ SaneSignal(e) /\ e.thread = t /\ e.type = "userOffline" /\ e.msg.id = user[t]
         /\ events' = Append(events, e)
         /\ inbox' = [inbox EXCEPT ![t] = <<>>] /\ msgQueue' = [msgQueue EXCEPT ![t] = <<>>]
         /\ UNCHANGED <<peer, user, out, usersOnline, groups, createGroupId, rows, tables>>
  <1>1. user[t] \in Somebody
    BY DEF Shape, ServerShape
  <1>2. Sane(UserOffline(user[t]))
    BY <1>1, SaneNotices
  <1>3. /\ SaneSignal(e) /\ e.thread = t /\ e.type = "userOffline" /\ e.msg.id = user[t]
    BY <1>2 DEF SaneSignal, Signal, UserOffline, Requests
  <1>. QED BY <1>3 DEF Ends, guiVars

\* Ends.
LEMMA ShapeEnds ==
  ASSUME Shape, NEW t \in Thread, Ends(t), UNCHANGED clientVars
  PROVE  Shape'
  <1>. DEFINE e == Signal("userOffline", t, UserOffline(user[t]))
  <1>1. /\ worker[t] = "running" /\ ~peer[t] /\ worker' = [worker EXCEPT ![t] = "ended"]
        /\ SaneSignal(e) /\ e.thread = t
        /\ events' = Append(events, e)
        /\ inbox' = [inbox EXCEPT ![t] = <<>>] /\ msgQueue' = [msgQueue EXCEPT ![t] = <<>>]
        /\ UNCHANGED <<peer, user, out, usersOnline, groups, createGroupId, rows, tables>>
    BY EndsIs
  <1>. HIDE DEF e
  <1>2. /\ msgQueue' = [s \in Thread |-> msgQueue'[s]] /\ \A s \in Thread : Box(msgQueue'[s])
        /\ \A s \in Thread : s # t => msgQueue'[s] = msgQueue[s]
        /\ msgQueue'[t] = <<>>
    BY <1>1, BoxEmpty DEF Shape, ServerShape
  <1>3. /\ inbox' = [s \in Thread |-> inbox'[s]] /\ \A s \in Thread : Frames(inbox'[s])
        /\ \A s \in Thread : s # t => inbox'[s] = inbox[s]
        /\ inbox'[t] = <<>>
    BY <1>1, BoxEmpty DEF Shape, ServerShape
  <1>4. /\ List(events') /\ \A i \in 1 .. Len(events') : SaneSignal(events'[i])
        /\ \A i \in 1 .. Len(events') : worker[events'[i].thread] # "none"
    BY <1>1, SignalKept
  <1>5. /\ worker' \in [Thread -> {"none", "running", "ended"}]
        /\ worker'[t] = "ended" /\ \A s \in Thread : s # t => worker'[s] = worker[s]
        /\ \A s \in Thread : worker[s] # "none" => worker'[s] # "none"
    BY <1>1 DEF Shape, ServerShape
  <1>6. ServerShape'
    BY <1>1, <1>2, <1>3, <1>4, <1>5 DEF Shape, ServerShape
  <1>7. ClientShape'
    BY DEF Shape, ClientShape, clientVars, Dialogs
  <1>8. Coupled'
    <2>1. \A i \in 1 .. Len(events') : worker'[events'[i].thread] # "none"
      BY <1>4, <1>5 DEF SaneSignal
    <2>2. \A u \in User : usersOnline[u] # Nobody => worker'[usersOnline[u]] # "none"
      BY <1>5 DEF Shape, ServerShape, Coupled
    <2>3. \A g \in Group : \A s \in Range(groups[g]) : worker'[s] # "none"
      <3>1. \A g \in Group : \A s \in Range(groups[g]) : s \in Thread /\ worker[s] # "none"
        BY GroupThreads DEF Shape, Coupled
      <3>. QED BY <3>1, <1>5
    <2>. QED BY <1>1, <1>2, <1>3, <1>5, <2>1, <2>2, <2>3 DEF Shape, Coupled, clientVars, Dialogs
  <1>. QED BY <1>6, <1>7, <1>8 DEF Shape

-----------------------------------------------------------------------------
(***************************************************************************)
(* The shape is kept: the clients.                                         *)
(***************************************************************************)

\* Send.
LEMMA SendIs ==
  ASSUME Shape, NEW t \in Thread, NEW m, Sane(m), Frame(m), Send(t, m)
  PROVE  /\ clicks' = clicks + 1 /\ clicks' \in Nat /\ breaks' = breaks
         /\ UNCHANGED <<worker, peer, user, msgQueue, out, events, usersOnline, groups, createGroupId,
                        rows, tables>>
         /\ inbox' = [s \in Thread |-> inbox'[s]]
         /\ \A s \in Thread : Frames(inbox'[s])
         /\ \A s \in Thread : s # t \/ ~peer[s] => inbox'[s] = inbox[s]
         /\ peer[t] => inbox'[t] = Append(inbox[t], m)
  <1>1. /\ clicks' = clicks + 1 /\ breaks' = breaks
        /\ UNCHANGED <<worker, peer, user, msgQueue, out, events, usersOnline, groups, createGroupId,
                       rows, tables>>
        /\ inbox' = IF peer[t] THEN [inbox EXCEPT ![t] = Append(@, m)] ELSE inbox
    BY DEF Send, guiVars
  <1>2. inbox = [s \in Thread |-> inbox[s]] /\ \A s \in Thread : Frames(inbox[s])
    BY DEF Shape, ServerShape
  <1>3. Frames(Append(inbox[t], m))
    BY <1>2, BoxAppend DEF Frames
  <1>4. clicks' \in Nat
    BY <1>1 DEF Shape, ClientShape
  <1>5. CASE peer[t]
    <2>1. /\ inbox' = [s \in Thread |-> inbox'[s]]
          /\ inbox'[t] = Append(inbox[t], m)
          /\ \A s \in Thread : s # t => inbox'[s] = inbox[s]
      BY <1>1, <1>2, <1>5
    <2>. QED BY <1>1, <1>2, <1>3, <1>4, <1>5, <2>1
  <1>6. CASE ~peer[t]
    BY <1>1, <1>2, <1>4, <1>6
  <1>. QED BY <1>5, <1>6

\* A client that has a window sends a frame.
LEMMA ShapeSend ==
  ASSUME Shape, NEW t \in Thread, NEW m, Sane(m), Frame(m), Send(t, m),
         ClientShape', win' = win, host' = host, shown' = shown,
         \A s \in Thread : s # t =>
             tried'[s] = tried[s] /\ joins'[s] = joins[s] /\ members'[s] = members[s],
         win[t] \in {"login", "main"}, win[t] = "login" => members'[t] = members[t]
  PROVE  Shape'
  <1>1. /\ UNCHANGED <<worker, peer, user, msgQueue, out, events, usersOnline, groups, createGroupId,
                       rows, tables>>
        /\ inbox' = [s \in Thread |-> inbox'[s]]
        /\ \A s \in Thread : Frames(inbox'[s])
        /\ \A s \in Thread : s # t \/ ~peer[s] => inbox'[s] = inbox[s]
    BY SendIs
  <1>2. ServerShape'
    BY <1>1 DEF Shape, ServerShape
  <1>3. worker[t] # "none"
    BY DEF Shape, Coupled
  <1>4. \A s \in Thread : worker[s] # "running" => inbox'[s] = <<>>
    BY <1>1 DEF Shape, Coupled
  <1>5. \A s \in Thread : worker[s] = "none" =>
          ~tried'[s] /\ win[s] = "none" /\ user[s] = Nobody /\ \A g \in Group : joins'[s][g] = 0
    BY <1>3 DEF Shape, Coupled
  <1>6. \A s \in Thread : win[s] \in {"none", "login"} => DOMAIN members'[s] = {}
    BY DEF Shape, Coupled, Dialogs
  <1>7. Coupled'
    BY <1>1, <1>4, <1>5, <1>6 DEF Shape, Coupled, Dialogs
  <1>. QED BY <1>2, <1>7 DEF Shape

\* LoginDialog and MainWindow: what is sent without a change of a dialog.
LEMMA ShapeClicks ==
  ASSUME Shape, NEW t \in Thread,
         \/ ClickRegister(t)
         \/ AskCreate(t)
         \/ AskSearch(t)
         \/ \E u \in User, right \in BOOLEAN : ClickLogin(t, u, right)
         \/ \E u \in User : Say(t, u)
         \/ \E g \in Group : SayInGroup(t, g)
  PROVE  Shape'
  <1>. <<t, clicks>> \in Payload
    BY DEF Shape, ClientShape, Payload
  <1>1. CASE ClickRegister(t)
    <2>1. /\ win[t] = "login" /\ Send(t, RegisterUser)
          /\ UNCHANGED <<script, win, host, tried, friends, chats, shown, asking, found, members, joins,
                         missed>>
      BY <1>1 DEF ClickRegister
    <2>2. clicks' \in Nat /\ breaks' = breaks
      BY <2>1, SendIs, SaneFrames
    <2>3. ClientShape'
      BY <2>1, <2>2 DEF Shape, ClientShape, Dialogs
    <2>. QED BY <2>1, <2>3, ShapeSend, SaneFrames
  <1>2. ASSUME NEW d \in {"create", "search"}, NEW m, Sane(m), Frame(m),
               win[t] = "main", asking' = [asking EXCEPT ![t] = @ \cup {d}], Send(t, m),
               UNCHANGED <<script, win, host, tried, friends, chats, shown, found, members, joins, missed>>
        PROVE  Shape'
    <2>1. clicks' \in Nat /\ breaks' = breaks
      BY <1>2, SendIs
    <2>2. asking' \in [Thread -> SUBSET {"create", "search"}]
      BY <1>2 DEF Shape, ClientShape
    <2>3. ClientShape'
      BY <1>2, <2>1, <2>2 DEF Shape, ClientShape, Dialogs
    <2>. QED BY <1>2, <2>3, ShapeSend
  <1>3. CASE AskCreate(t)
    BY <1>2, <1>3, SaneFrames DEF AskCreate
  <1>4. CASE AskSearch(t)
    BY <1>2, <1>4, SaneFrames DEF AskSearch
  <1>5. ASSUME NEW u \in User, NEW right \in BOOLEAN, ClickLogin(t, u, right)
        PROVE  Shape'
    <2>1. /\ win[t] = "login" /\ Send(t, Login(u, right)) /\ tried' = [tried EXCEPT ![t] = right]
          /\ UNCHANGED <<script, win, host, friends, chats, shown, asking, found, members, joins, missed>>
      BY <1>5 DEF ClickLogin
    <2>2. Sane(Login(u, right)) /\ Frame(Login(u, right))
      BY SaneFrames
    <2>3. clicks' \in Nat /\ breaks' = breaks
      BY <2>1, <2>2, SendIs
    <2>4. tried' \in [Thread -> BOOLEAN] /\ \A s \in Thread : s # t => tried'[s] = tried[s]
      BY <2>1 DEF Shape, ClientShape
    <2>5. ClientShape'
      BY <2>1, <2>3, <2>4 DEF Shape, ClientShape, Dialogs
    <2>. QED BY <2>1, <2>2, <2>4, <2>5, ShapeSend
  <1>6. ASSUME NEW m, Sane(m), Frame(m), win[t] = "main", Send(t, m),
               UNCHANGED <<script, win, host, tried, friends, chats, shown, asking, found, members, joins,
                           missed>>
        PROVE  Shape'
    <2>1. clicks' \in Nat /\ breaks' = breaks
      BY <1>6, SendIs
    <2>2. ClientShape'
      BY <1>6, <2>1 DEF Shape, ClientShape, Dialogs
    <2>. QED BY <1>6, <2>2, ShapeSend
  <1>7. ASSUME NEW u \in User, Say(t, u)
        PROVE  Shape'
    BY <1>6, <1>7, SaneFrames DEF Say
  <1>8. ASSUME NEW g \in Group, SayInGroup(t, g)
        PROVE  Shape'
    BY <1>6, <1>8, SaneFrames DEF SayInGroup
  <1>. QED BY <1>1, <1>3, <1>4, <1>5, <1>7, <1>8

\* A group's dialog opens or closes.
LEMMA ShapeDialogs ==
  ASSUME Shape, NEW t \in Thread, NEW g \in Group, Join(t, g) \/ Leave(t, g)
  PROVE  Shape'
  <1>1. /\ members = [s \in Thread |-> members[s]] /\ joins \in [Thread -> [Group -> Nat]]
        /\ DOMAIN members[t] \subseteq Group
        /\ members[t] \in [DOMAIN members[t] -> Seq(Somebody)]
    BY DEF Shape, ClientShape, Dialogs
  <1>2. ASSUME NEW f, members' = [members EXCEPT ![t] = f],
               DOMAIN f \subseteq Group, f \in [DOMAIN f -> Seq(Somebody)]
        PROVE  /\ members' = [s \in Thread |-> members'[s]]
               /\ \A s \in Thread : s # t => members'[s] = members[s]
               /\ \A s \in Thread : /\ DOMAIN members'[s] \subseteq Group
                                    /\ members'[s] \in [DOMAIN members'[s] -> Seq(Somebody)]
    <2>1. /\ members' = [s \in Thread |-> members'[s]] /\ members'[t] = f
          /\ \A s \in Thread : s # t => members'[s] = members[s]
      BY <1>1, <1>2
    <2>. QED BY <1>2, <2>1 DEF Shape, ClientShape, Dialogs
  <1>3. CASE Join(t, g)
    <2>. DEFINE f == [h \in DOMAIN members[t] \cup {g} |-> IF h = g THEN <<>> ELSE members[t][h]]
    <2>1. /\ win[t] = "main" /\ Send(t, JoinGroup(g))
          /\ members' = [members EXCEPT ![t] = f]
          /\ joins' = [joins EXCEPT ![t][g] = joins[t][g] + 1]
          /\ UNCHANGED <<script, win, host, tried, friends, chats, shown, asking, found, missed>>
      BY <1>3 DEF Join
    <2>2. Sane(JoinGroup(g)) /\ Frame(JoinGroup(g))
      BY SaneFrames
    <2>3. clicks' \in Nat /\ breaks' = breaks
      BY <2>1, <2>2, SendIs
    <2>4. /\ joins' \in [Thread -> [Group -> Nat]]
          /\ \A s \in Thread : s # t => joins'[s] = joins[s]
      BY <1>1, <2>1
    <2>5. <<>> \in Seq(Somebody)
      OBVIOUS
    <2>6. DOMAIN f \subseteq Group /\ f \in [DOMAIN f -> Seq(Somebody)]
      BY <1>1, <2>5
    <2>. HIDE DEF f
    <2>7. /\ members' = [s \in Thread |-> members'[s]]
          /\ \A s \in Thread : s # t => members'[s] = members[s]
          /\ \A s \in Thread : /\ DOMAIN members'[s] \subseteq Group
                               /\ members'[s] \in [DOMAIN members'[s] -> Seq(Somebody)]
      BY <1>2, <2>1, <2>6
    <2>8. ClientShape'
      BY <2>1, <2>3, <2>4, <2>7 DEF Shape, ClientShape, Dialogs
    <2>. QED BY <2>1, <2>2, <2>4, <2>7, <2>8, ShapeSend
  <1>4. CASE Leave(t, g)
    <2>. DEFINE f == [h \in DOMAIN members[t] \ {g} |-> members[t][h]]
    <2>1. /\ win[t] = "main" /\ Send(t, LeaveGroup(g))
          /\ members' = [members EXCEPT ![t] = f]
          /\ UNCHANGED <<script, win, host, tried, friends, chats, shown, asking, found, joins, missed>>
      BY <1>4 DEF Leave
    <2>2. Sane(LeaveGroup(g)) /\ Frame(LeaveGroup(g))
      BY SaneFrames
    <2>3. clicks' \in Nat /\ breaks' = breaks
      BY <2>1, <2>2, SendIs
    <2>4. DOMAIN f \subseteq Group /\ f \in [DOMAIN f -> Seq(Somebody)]
      BY <1>1
    <2>. HIDE DEF f
    <2>5. /\ members' = [s \in Thread |-> members'[s]]
          /\ \A s \in Thread : s # t => members'[s] = members[s]
          /\ \A s \in Thread : /\ DOMAIN members'[s] \subseteq Group
                               /\ members'[s] \in [DOMAIN members'[s] -> Seq(Somebody)]
      BY <1>2, <2>1, <2>4
    <2>6. ClientShape'
      BY <2>1, <2>3, <2>5 DEF Shape, ClientShape, Dialogs
    <2>. QED BY <2>1, <2>2, <2>5, <2>6, ShapeSend
  <1>. QED BY <1>3, <1>4

\* A client starts.
LEMMA ShapeStart ==
  ASSUME Shape, NEW t \in Thread, Start(t)
  PROVE  Shape'
  <1>1. /\ worker[t] = "none" /\ worker' = [worker EXCEPT ![t] = "running"]
        /\ peer' = [peer EXCEPT ![t] = TRUE] /\ win' = [win EXCEPT ![t] = "login"]
        /\ UNCHANGED <<user, inbox, msgQueue, out, events, usersOnline, groups, createGroupId, rows,
                       tables, script, host, tried, friends, chats, shown, asking, found, members,
                       joins, missed, clicks, breaks>>
    BY DEF Start, NewConnection, guiVars
  <1>2. /\ worker' \in [Thread -> {"none", "running", "ended"}]
        /\ worker'[t] = "running" /\ \A s \in Thread : s # t => worker'[s] = worker[s]
        /\ peer' \in [Thread -> BOOLEAN]
        /\ peer'[t] /\ \A s \in Thread : s # t => peer'[s] = peer[s]
        /\ win' \in [Thread -> {"none", "login", "main", "closed", "crashed"}]
        /\ win'[t] = "login" /\ \A s \in Thread : s # t => win'[s] = win[s]
        /\ \A s \in Thread : worker[s] # "none" => worker'[s] # "none"
    BY <1>1 DEF Shape, ServerShape, ClientShape
  <1>3. ServerShape'
    BY <1>1, <1>2 DEF Shape, ServerShape
  <1>4. ClientShape'
    BY <1>1, <1>2 DEF Shape, ClientShape, Dialogs
  <1>5. /\ \A i \in 1 .. Len(events) : worker'[events[i].thread] # "none"
        /\ \A u \in User : usersOnline[u] # Nobody => worker'[usersOnline[u]] # "none"
        /\ \A g \in Group : \A s \in Range(groups[g]) : worker'[s] # "none"
    BY <1>2, GroupThreads DEF Shape, ServerShape, Coupled, SaneSignal
  <1>6. win[t] = "none"
    BY <1>1 DEF Shape, Coupled
  <1>7. Coupled'
    BY <1>1, <1>2, <1>5, <1>6 DEF Shape, Coupled, Dialogs
  <1>. QED BY <1>3, <1>4, <1>7 DEF Shape

\* The dialogs of one client that send nothing.
LEMMA ShapeLocal ==
  ASSUME Shape, NEW t \in Thread,
         \/ \E u \in User : OpenChat(t, u)
         \/ \E d \in {"create", "search"} : CloseAsking(t, d)
  PROVE  Shape'
  <1>1. UNCHANGED serverVars
    BY DEF OpenChat, CloseAsking
  <1>2. /\ UNCHANGED <<script, win, host, tried, friends, shown, members, joins, missed, clicks, breaks>>
    BY DEF OpenChat, CloseAsking
  <1>3. /\ chats' \in [Thread -> SUBSET User]
        /\ asking' \in [Thread -> SUBSET {"create", "search"}]
        /\ found' = [s \in Thread |-> found'[s]]
    <2>1. /\ chats \in [Thread -> SUBSET User]
          /\ asking \in [Thread -> SUBSET {"create", "search"}]
          /\ found = [s \in Thread |-> found[s]]
      BY DEF Shape, ClientShape
    <2>2. ASSUME NEW u \in User, OpenChat(t, u)
          PROVE  chats' \in [Thread -> SUBSET User] /\ asking' = asking /\ found' = found
      BY <2>1, <2>2 DEF OpenChat
    <2>3. ASSUME NEW d \in {"create", "search"}, CloseAsking(t, d)
          PROVE  /\ asking' \in [Thread -> SUBSET {"create", "search"}] /\ chats' = chats
                 /\ found' = found \/ found' = [found EXCEPT ![t] = {}]
      BY <2>1, <2>3 DEF CloseAsking
    <2>4. found' = found \/ found' = [found EXCEPT ![t] = {}] => found' = [s \in Thread |-> found'[s]]
      BY <2>1
    <2>. QED BY <2>1, <2>2, <2>3, <2>4
  <1>4. ServerShape'
    BY <1>1 DEF Shape, ServerShape, serverVars
  <1>5. ClientShape'
    BY <1>2, <1>3 DEF Shape, ClientShape, Dialogs
  <1>6. Coupled'
    BY <1>1, <1>2 DEF Shape, Coupled, Dialogs, serverVars
  <1>. QED BY <1>4, <1>5, <1>6 DEF Shape

\* The connection of one client ends.
LEMMA ShapeGone ==
  ASSUME Shape, NEW t \in Thread, MainCrashes(t) \/ \E w \in {"login", "main", "closed"} : Break(t, w)
  PROVE  Shape'
  <1>1. PICK w \in {"login", "main", "closed", "crashed"} :
          /\ win[t] \in {"login", "main"} /\ w \in {win[t], "closed", "crashed"}
          /\ win' = [win EXCEPT ![t] = w]
          /\ peer' = [peer EXCEPT ![t] = FALSE] /\ out' = [out EXCEPT ![t] = <<>>]
    BY DEF MainCrashes, Break
  <1>2. /\ UNCHANGED <<worker, user, inbox, msgQueue, events, usersOnline, groups, createGroupId, rows,
                       tables, script, host, tried, friends, chats, shown, asking, found, members,
                       joins, missed, clicks>>
        /\ breaks' \in Nat
    BY DEF MainCrashes, Break, guiVars, Shape, ClientShape
  <1>3. /\ peer' \in [Thread -> BOOLEAN]
        /\ ~peer'[t] /\ \A s \in Thread : s # t => peer'[s] = peer[s]
        /\ win' \in [Thread -> {"none", "login", "main", "closed", "crashed"}]
        /\ win'[t] = w /\ \A s \in Thread : s # t => win'[s] = win[s]
        /\ out' = [s \in Thread |-> out'[s]] /\ \A s \in Thread : Notices(out'[s])
        /\ out'[t] = <<>> /\ \A s \in Thread : s # t => out'[s] = out[s]
    BY <1>1, BoxEmpty DEF Shape, ServerShape, ClientShape
  <1>4. ServerShape'
    BY <1>2, <1>3 DEF Shape, ServerShape
  <1>5. ClientShape'
    BY <1>2, <1>3 DEF Shape, ClientShape, Dialogs
  <1>6. worker[t] # "none"
    BY <1>1 DEF Shape, Coupled
  <1>7. Coupled'
    BY <1>1, <1>2, <1>3, <1>6 DEF Shape, Coupled, Dialogs
  <1>. QED BY <1>4, <1>5, <1>7 DEF Shape

\* What reconnectNow moves: g is f with the value of t given to s.
IsMoved(f, g, t, s, none) ==
    /\ g = [r \in Thread |-> g[r]] /\ g[s] = f[t] /\ g[t] = none
    /\ \A r \in Thread : r # t /\ r # s => g[r] = f[r]

\* Moved moves it.
LEMMA MovedIs ==
  ASSUME NEW f, f = [r \in Thread |-> f[r]], NEW t \in Thread, NEW s \in Thread, s # t, NEW none,
         NEW g, g = Moved(f, t, s, none)
  PROVE  IsMoved(f, g, t, s, none)
  BY DEF Moved, IsMoved

\* What Reconnect does.
LEMMA ReconnectIs ==
  ASSUME Shape, NEW t \in Thread, NEW s \in Thread, Reconnect(t, s)
  PROVE  /\ s # t /\ worker[s] = "none" /\ worker[t] # "none" /\ ~peer[t]
         /\ win[t] \in {"login", "main"}
         /\ worker' = [worker EXCEPT ![s] = "running"] /\ peer' = [peer EXCEPT ![s] = TRUE]
         /\ UNCHANGED <<user, inbox, msgQueue, out, events, usersOnline, groups, createGroupId, rows,
                        tables, script, tried, joins, missed, clicks, breaks>>
         /\ IsMoved(win, win', t, s, "none") /\ IsMoved(host, host', t, s, Nobody)
         /\ IsMoved(friends, friends', t, s, <<>>) /\ IsMoved(chats, chats', t, s, {})
         /\ IsMoved(shown, shown', t, s, <<>>) /\ IsMoved(asking, asking', t, s, {})
         /\ IsMoved(found, found', t, s, {}) /\ IsMoved(members, members', t, s, <<>>)
  <1>1. /\ worker[s] = "none" /\ ~peer[t] /\ win[t] \in {"login", "main"}
        /\ worker' = [worker EXCEPT ![s] = "running"] /\ peer' = [peer EXCEPT ![s] = TRUE]
        /\ UNCHANGED <<user, inbox, msgQueue, out, events, usersOnline, groups, createGroupId, rows,
                       tables, script, tried, joins, missed, clicks, breaks>>
    BY DEF Reconnect, NewConnection, guiVars
  <1>2. worker[t] # "none" /\ s # t
    BY <1>1 DEF Shape, Coupled
  <1>3. IsMoved(win, win', t, s, "none")
    <2>1. win = [r \in Thread |-> win[r]] /\ win' = Moved(win, t, s, "none")
      BY DEF Reconnect, Shape, ClientShape
    <2>. QED BY <1>2, <2>1, MovedIs
  <1>4. IsMoved(host, host', t, s, Nobody)
    <2>1. host = [r \in Thread |-> host[r]] /\ host' = Moved(host, t, s, Nobody)
      BY DEF Reconnect, Shape, ClientShape
    <2>. QED BY <1>2, <2>1, MovedIs
  <1>5. IsMoved(friends, friends', t, s, <<>>)
    <2>1. friends = [r \in Thread |-> friends[r]] /\ friends' = Moved(friends, t, s, <<>>)
      BY DEF Reconnect, Shape, ClientShape
    <2>. QED BY <1>2, <2>1, MovedIs
  <1>6. IsMoved(chats, chats', t, s, {})
    <2>1. chats = [r \in Thread |-> chats[r]] /\ chats' = Moved(chats, t, s, {})
      BY DEF Reconnect, Shape, ClientShape
    <2>. QED BY <1>2, <2>1, MovedIs
  <1>7. IsMoved(shown, shown', t, s, <<>>)
    <2>1. shown = [r \in Thread |-> shown[r]] /\ shown' = Moved(shown, t, s, <<>>)
      BY DEF Reconnect, Shape, ClientShape
    <2>. QED BY <1>2, <2>1, MovedIs
  <1>8. IsMoved(asking, asking', t, s, {})
    <2>1. asking = [r \in Thread |-> asking[r]] /\ asking' = Moved(asking, t, s, {})
      BY DEF Reconnect, Shape, ClientShape
    <2>. QED BY <1>2, <2>1, MovedIs
  <1>9. IsMoved(found, found', t, s, {})
    <2>1. found = [r \in Thread |-> found[r]] /\ found' = Moved(found, t, s, {})
      BY DEF Reconnect, Shape, ClientShape
    <2>. QED BY <1>2, <2>1, MovedIs
  <1>10. IsMoved(members, members', t, s, <<>>)
    <2>1. members = [r \in Thread |-> members[r]] /\ members' = Moved(members, t, s, <<>>)
      BY DEF Reconnect, Shape, ClientShape
    <2>. QED BY <1>2, <2>1, MovedIs
  <1>. QED BY <1>1, <1>2, <1>3, <1>4, <1>5, <1>6, <1>7, <1>8, <1>9, <1>10

\* Reconnect.
LEMMA ShapeReconnect ==
  ASSUME Shape, NEW t \in Thread, NEW s \in Thread, Reconnect(t, s)
  PROVE  Shape'
  <1>1. /\ s # t /\ worker[s] = "none" /\ worker[t] # "none" /\ ~peer[t]
        /\ win[t] \in {"login", "main"}
        /\ worker' = [worker EXCEPT ![s] = "running"] /\ peer' = [peer EXCEPT ![s] = TRUE]
        /\ UNCHANGED <<user, inbox, msgQueue, out, events, usersOnline, groups, createGroupId, rows,
                       tables, script, tried, joins, missed, clicks, breaks>>
    BY ReconnectIs
  <1>2. /\ IsMoved(win, win', t, s, "none") /\ IsMoved(host, host', t, s, Nobody)
        /\ IsMoved(friends, friends', t, s, <<>>) /\ IsMoved(chats, chats', t, s, {})
        /\ IsMoved(shown, shown', t, s, <<>>) /\ IsMoved(asking, asking', t, s, {})
        /\ IsMoved(found, found', t, s, {}) /\ IsMoved(members, members', t, s, <<>>)
    BY ReconnectIs
  <1>4. /\ worker' \in [Thread -> {"none", "running", "ended"}]
        /\ worker'[s] = "running" /\ \A r \in Thread : r # s => worker'[r] = worker[r]
        /\ peer' \in [Thread -> BOOLEAN]
        /\ peer'[s] /\ \A r \in Thread : r # s => peer'[r] = peer[r]
        /\ \A r \in Thread : worker[r] # "none" => worker'[r] # "none"
    BY <1>1 DEF Shape, ServerShape
  <1>5. ServerShape'
    BY <1>1, <1>4 DEF Shape, ServerShape
  <1>6. ClientShape'
    <2>1. Nobody \in Somebody /\ <<>> \in Seq(User) /\ <<>> \in Seq(Payload)
      BY DEF Somebody
    <2>2. DOMAIN <<>> = {} /\ <<>> \in [{} -> Seq(Somebody)]
      OBVIOUS
    <2>3. ASSUME NEW S, NEW f \in [Thread -> S], NEW none \in S, NEW g, IsMoved(f, g, t, s, none)
          PROVE  g \in [Thread -> S]
      BY <2>3 DEF IsMoved
    <2>5. win' \in [Thread -> {"none", "login", "main", "closed", "crashed"}]
      BY <1>2, <2>3 DEF Shape, ClientShape
    <2>6. host' \in [Thread -> Somebody] /\ friends' \in [Thread -> Seq(User)]
      BY <1>2, <2>1, <2>3 DEF Shape, ClientShape
    <2>7. chats' \in [Thread -> SUBSET User] /\ shown' \in [Thread -> Seq(Payload)]
      BY <1>2, <2>1, <2>3 DEF Shape, ClientShape
    <2>8. asking' \in [Thread -> SUBSET {"create", "search"}]
      BY <1>2, <2>3 DEF Shape, ClientShape
    <2>4. \A r \in Thread : /\ DOMAIN members'[r] \subseteq Group
                            /\ members'[r] \in [DOMAIN members'[r] -> Seq(Somebody)]
      <3>1. ASSUME NEW r \in Thread
            PROVE  members'[r] = <<>> \/ \E k \in Thread : members'[r] = members[k]
        BY <1>2 DEF IsMoved
      <3>2. \A k \in Thread : /\ DOMAIN members[k] \subseteq Group
                              /\ members[k] \in [DOMAIN members[k] -> Seq(Somebody)]
        BY DEF Shape, ClientShape, Dialogs
      <3>3. ASSUME NEW r \in Thread
            PROVE  /\ DOMAIN members'[r] \subseteq Group
                   /\ members'[r] \in [DOMAIN members'[r] -> Seq(Somebody)]
        <4>1. CASE members'[r] = <<>>
          BY <2>2, <4>1
        <4>2. CASE \E k \in Thread : members'[r] = members[k]
          BY <3>2, <4>2
        <4>. QED BY <3>1, <4>1, <4>2
      <3>. QED BY <3>3
    <2>. QED BY <1>1, <1>2, <2>4, <2>5, <2>6, <2>7, <2>8 DEF Shape, ClientShape, Dialogs, IsMoved
  <1>7. /\ \A i \in 1 .. Len(events) : worker'[events[i].thread] # "none"
        /\ \A u \in User : usersOnline[u] # Nobody => worker'[usersOnline[u]] # "none"
        /\ \A g \in Group : \A r \in Range(groups[g]) : worker'[r] # "none"
    BY <1>4, GroupThreads DEF Shape, ServerShape, Coupled, SaneSignal
  <1>8. Coupled'
    <2>1. DOMAIN <<>> = {}
      OBVIOUS
    <2>2. /\ \A r \in Thread : peer'[r] => worker'[r] = "running" /\ win'[r] \in {"login", "main"}
          /\ \A r \in Thread : ~peer'[r] => out[r] = <<>>
          /\ \A r \in Thread : worker'[r] # "running" => inbox[r] = <<>> /\ msgQueue[r] = <<>>
      BY <1>1, <1>2, <1>4 DEF Shape, Coupled, IsMoved
    <2>3. /\ \A r \in Thread : worker'[r] = "none" =>
                ~tried[r] /\ win'[r] = "none" /\ user[r] = Nobody /\ \A g \in Group : joins[r][g] = 0
          /\ \A r \in Thread : win'[r] = "main" => host'[r] # Nobody
      BY <1>1, <1>2, <1>4 DEF Shape, Coupled, IsMoved
    <2>4. \A r \in Thread : win'[r] \in {"none", "login"} => shown'[r] = <<>> /\ DOMAIN members'[r] = {}
      BY <1>1, <1>2, <2>1 DEF Shape, Coupled, Dialogs, IsMoved
    <2>. QED BY <1>1, <1>7, <2>2, <2>3, <2>4 DEF Coupled, Dialogs
  <1>. QED BY <1>5, <1>6, <1>8 DEF Shape

\* What LoginDialog::readyRead does with the first n frames: nothing, or it opens the
\* window that one of them, a login reply, describes.
LEMMA LoginReadsIs ==
  ASSUME Shape, NEW t \in Thread, NEW n \in 1 .. Len(out[t]), LoginReads(t, n)
  PROVE  /\ win[t] = "login" /\ peer[t] /\ Len(out[t]) \in Nat
         /\ out' = [out EXCEPT ![t] = SubSeq(out[t], n + 1, Len(out[t]))]
         /\ UNCHANGED <<worker, peer, user, inbox, msgQueue, events, usersOnline, groups, createGroupId,
                        rows, tables, script, tried, chats, shown, asking, found, members, joins,
                        clicks, breaks>>
         /\ \/ /\ \A i \in 1 .. n : ~Reply(out[t][i])
               /\ UNCHANGED <<win, host, friends, missed>>
            \/ \E i \in 1 .. n :
                  /\ Reply(out[t][i]) /\ Sane(out[t][i])
                  /\ win' = [win EXCEPT ![t] = "main"]
                  /\ host' = [host EXCEPT ![t] = out[t][i].id]
                  /\ friends' = [friends EXCEPT ![t] = out[t][i].friends]
                  /\ missed' = [missed EXCEPT ![t] = n > i]
  <1>. DEFINE q == out[t]
              batch == SubSeq(q, 1, n)
              replies == {i \in 1 .. n : batch[i].type = "loginSucReturn"}
  <1>1. /\ win[t] = "login" /\ out' = [out EXCEPT ![t] = SubSeq(q, n + 1, Len(q))]
        /\ UNCHANGED <<worker, peer, user, inbox, msgQueue, events, usersOnline, groups, createGroupId,
                       rows, tables, script, tried, chats, shown, asking, found, members, joins,
                       clicks, breaks>>
    BY DEF LoginReads, guiVars
  <1>2. IF replies = {}
        THEN UNCHANGED <<win, host, friends, missed>>
        ELSE LET i == CHOOSE i \in replies : TRUE IN
             /\ win' = [win EXCEPT ![t] = "main"]
             /\ host' = [host EXCEPT ![t] = batch[i].id]
             /\ friends' = [friends EXCEPT ![t] = batch[i].friends]
             /\ missed' = [missed EXCEPT ![t] = n > i]
    BY DEF LoginReads
  <1>3. Notices(q) /\ List(q) /\ Len(q) \in Nat
    BY ListLen DEF Shape, ServerShape, Notices, Box
  <1>4. peer[t]
    <2>1. q # <<>>
      BY <1>3, NoneList
    <2>. QED BY <2>1 DEF Shape, Coupled
  <1>. HIDE DEF q
  <1>5. n \in Nat /\ n \in 0 .. Len(q) /\ \A i \in 1 .. n : i \in 1 .. Len(q)
    BY <1>3 DEF q
  <1>6. \A i \in 1 .. n : batch[i] = q[i] /\ Sane(q[i])
    BY <1>3, <1>5, CutList DEF Notices, Box
  <1>. HIDE DEF batch
  <1>7. CASE replies = {}
    <2>1. \A i \in 1 .. n : ~Reply(q[i])
      BY <1>6, <1>7 DEF Reply
    <2>. QED BY <1>1, <1>2, <1>3, <1>4, <1>7, <2>1 DEF q
  <1>8. CASE replies # {}
    <2>. DEFINE i == CHOOSE i \in replies : TRUE
    <2>1. i \in replies
      BY <1>8
    <2>2. /\ win' = [win EXCEPT ![t] = "main"]
          /\ host' = [host EXCEPT ![t] = batch[i].id]
          /\ friends' = [friends EXCEPT ![t] = batch[i].friends]
          /\ missed' = [missed EXCEPT ![t] = n > i]
      BY <1>2, <1>8
    <2>. HIDE DEF i
    <2>3. i \in 1 .. n /\ batch[i].type = "loginSucReturn"
      BY <2>1
    <2>4. batch[i] = q[i] /\ Sane(q[i]) /\ Reply(q[i])
      BY <1>6, <2>3 DEF Reply
    <2>. QED BY <1>1, <1>3, <1>4, <2>2, <2>3, <2>4 DEF q
  <1>. QED BY <1>7, <1>8

\* LoginReads.
LEMMA ShapeLoginReads ==
  ASSUME Shape, NEW t \in Thread, NEW n \in 1 .. Len(out[t]), LoginReads(t, n)
  PROVE  Shape'
  <1>1. /\ win[t] = "login" /\ peer[t] /\ Len(out[t]) \in Nat
        /\ out' = [out EXCEPT ![t] = SubSeq(out[t], n + 1, Len(out[t]))]
        /\ UNCHANGED <<worker, peer, user, inbox, msgQueue, events, usersOnline, groups, createGroupId,
                       rows, tables, script, tried, chats, shown, asking, found, members, joins,
                       clicks, breaks>>
    BY LoginReadsIs
  <1>2. Notices(SubSeq(out[t], n + 1, Len(out[t])))
    <2>1. n \in 0 .. Len(out[t])
      BY <1>1
    <2>. QED BY <2>1, BoxCut DEF Shape, ServerShape
  <1>3. /\ out' = [s \in Thread |-> out'[s]] /\ \A s \in Thread : Notices(out'[s])
        /\ \A s \in Thread : ~peer[s] => out'[s] = <<>>
    BY <1>1, <1>2 DEF Shape, ServerShape, Coupled
  <1>4. /\ win' \in [Thread -> {"none", "login", "main", "closed", "crashed"}]
        /\ host' \in [Thread -> Somebody]
        /\ friends' \in [Thread -> Seq(User)]
        /\ missed' \in [Thread -> BOOLEAN]
        /\ \A s \in Thread : s # t => win'[s] = win[s] /\ host'[s] = host[s]
        /\ win'[t] \in {"login", "main"}
        /\ win'[t] = "main" => host'[t] # Nobody
    <2>1. /\ win \in [Thread -> {"none", "login", "main", "closed", "crashed"}]
          /\ host \in [Thread -> Somebody] /\ friends \in [Thread -> Seq(User)]
          /\ missed \in [Thread -> BOOLEAN]
      BY DEF Shape, ClientShape
    <2>2. CASE UNCHANGED <<win, host, friends, missed>>
      BY <1>1, <2>1, <2>2
    <2>3. ASSUME NEW i \in 1 .. n, Reply(out[t][i]), Sane(out[t][i]),
                 win' = [win EXCEPT ![t] = "main"],
                 host' = [host EXCEPT ![t] = out[t][i].id],
                 friends' = [friends EXCEPT ![t] = out[t][i].friends],
                 missed' = [missed EXCEPT ![t] = n > i]
          PROVE  /\ win' \in [Thread -> {"none", "login", "main", "closed", "crashed"}]
                 /\ host' \in [Thread -> Somebody]
                 /\ friends' \in [Thread -> Seq(User)]
                 /\ missed' \in [Thread -> BOOLEAN]
                 /\ \A s \in Thread : s # t => win'[s] = win[s] /\ host'[s] = host[s]
                 /\ win'[t] \in {"login", "main"}
                 /\ win'[t] = "main" => host'[t] # Nobody
      <3>1. out[t][i].id \in User /\ out[t][i].friends \in Seq(User)
        BY <2>3 DEF Reply, Sane
      <3>2. \A u \in User : u \in Somebody /\ u # Nobody
        BY SizeAssumption DEF User, Somebody, Nobody
      <3>3. (n > i) \in BOOLEAN
        OBVIOUS
      <3>4. missed' \in [Thread -> BOOLEAN]
        BY <2>1, <2>3, <3>3
      <3>. QED BY <2>1, <2>3, <3>1, <3>2, <3>4
    <2>. QED BY <2>2, <2>3, LoginReadsIs
  <1>5. ServerShape'
    BY <1>1, <1>3 DEF Shape, ServerShape
  <1>6. ClientShape'
    BY <1>1, <1>4 DEF Shape, ClientShape, Dialogs
  <1>7. Coupled'
    <2>1. \A s \in Thread : peer[s] => worker[s] = "running" /\ win'[s] \in {"login", "main"}
      BY <1>4 DEF Shape, Coupled
    <2>2. \A s \in Thread : worker[s] = "none" => win'[s] = "none"
      BY <1>1, <1>4 DEF Shape, Coupled
    <2>3. \A s \in Thread : win'[s] = "main" => host'[s] # Nobody
      BY <1>4 DEF Shape, Coupled
    <2>4. \A s \in Thread : win'[s] \in {"none", "login"} => shown[s] = <<>> /\ DOMAIN members[s] = {}
      BY <1>1, <1>4 DEF Shape, Coupled, Dialogs
    <2>. QED BY <1>1, <1>3, <2>1, <2>2, <2>3, <2>4 DEF Shape, Coupled, Dialogs
  <1>. QED BY <1>5, <1>6, <1>7 DEF Shape

\* What MainWindow takes from a list is a list of the same things.
LEMMA WithoutSeq ==
  ASSUME NEW S, NEW list \in Seq(S), NEW u
  PROVE  Without(list, u) \in Seq(S)
  <1>. DEFINE Row(i) == {j \in 1 .. i : \A k \in j .. i : list[k] = u}
              P == {i \in 1 .. Len(list) : Cardinality(Row(i)) % 2 = 0}
  <1>1. Without(list, u) = Picked(list, P)
    BY DEF Without
  <1>2. P \in SUBSET (1 .. Len(list))
    OBVIOUS
  <1>. HIDE DEF P
  <1>. QED BY <1>1, <1>2, PickedSeq

\* What MainWindow::readyRead does with the frame at the head.
LEMMA MainReadsIs ==
  ASSUME Shape, NEW t \in Thread, MainReads(t), NEW m, m = out[t][1]
  PROVE  /\ win[t] = "main" /\ peer[t] /\ out[t] # <<>> /\ Sane(m) /\ ~Frame(m)
         /\ out' = [out EXCEPT ![t] = Tail(out[t])]
         /\ m.type \in NeedsDialog => m.group \in Dialogs(t)
         /\ UNCHANGED <<worker, peer, user, inbox, msgQueue, events, usersOnline, groups, createGroupId,
                        rows, tables, script, win, host, tried, chats, asking, joins, missed, clicks,
                        breaks>>
         /\ m.type = "userOnline" => friends' = [friends EXCEPT ![t] = Append(friends[t], m.id)]
         /\ m.type = "userOffline" => friends' = [friends EXCEPT ![t] = Without(friends[t], m.id)]
         /\ m.type \notin {"userOnline", "userOffline"} => friends' = friends
         /\ \/ shown' = shown
            \/ m.type = "receiveMsg" /\ shown' = [shown EXCEPT ![t] = Append(shown[t], m.msg)]
         /\ found' = [s \in Thread |-> found'[s]]
         /\ \/ members' = members
            \/ \E us : /\ m.group \in Dialogs(t) /\ us \in Seq(Somebody)
                       /\ members' = [members EXCEPT ![t] = [members[t] EXCEPT ![m.group] = us]]
  <1>1. /\ win[t] = "main" /\ out[t] # <<>> /\ ~NullDialog(t, Head(out[t]))
        /\ out' = [out EXCEPT ![t] = Tail(out[t])]
        /\ UNCHANGED <<worker, peer, user, inbox, msgQueue, events, usersOnline, groups, createGroupId,
                       rows, tables, script, win, host, tried, chats, asking, joins, missed, clicks,
                       breaks>>
    BY DEF MainReads, guiVars
  <1>2. peer[t] /\ Head(out[t]) = m /\ Sane(m) /\ ~Frame(m)
    <2>1. Notices(out[t]) /\ Box(out[t]) /\ List(out[t])
      BY DEF Shape, ServerShape, Box, Notices
    <2>2. Head(out[t]) = out[t][1]
      BY <1>1, <2>1, TailList
    <2>3. peer[t]
      BY <1>1 DEF Shape, Coupled
    <2>. QED BY <1>1, <2>1, <2>2, <2>3, BoxTail
  <1>3. m.type \in NeedsDialog => m.group \in Dialogs(t)
    BY <1>1, <1>2 DEF NullDialog
  <1>4. /\ friends \in [Thread -> Seq(User)]
        /\ friends' = [friends EXCEPT ![t] =
             CASE m.type = "userOnline"  -> Append(friends[t], m.id)
               [] m.type = "userOffline" -> Without(friends[t], m.id)
               [] OTHER -> friends[t]]
    BY <1>2 DEF MainReads, Shape, ClientShape
  <1>5. /\ m.type = "userOnline" => friends' = [friends EXCEPT ![t] = Append(friends[t], m.id)]
        /\ m.type = "userOffline" => friends' = [friends EXCEPT ![t] = Without(friends[t], m.id)]
        /\ m.type \notin {"userOnline", "userOffline"} => friends' = friends
    BY <1>4
  <1>6. \/ shown' = shown
        \/ m.type = "receiveMsg" /\ shown' = [shown EXCEPT ![t] = Append(shown[t], m.msg)]
    BY <1>2 DEF MainReads
  <1>7. found' = [s \in Thread |-> found'[s]]
    <2>1. found = [s \in Thread |-> found[s]]
      BY DEF Shape, ClientShape
    <2>2. found' = found \/ found' = [found EXCEPT ![t] = @ \cup m.found]
      BY <1>2 DEF MainReads
    <2>. QED BY <2>1, <2>2
  <1>8. \/ members' = members
        \/ \E us : /\ m.group \in Dialogs(t) /\ us \in Seq(Somebody)
                   /\ members' = [members EXCEPT ![t] = [members[t] EXCEPT ![m.group] = us]]
    <2>. DEFINE old == members[t][m.group]
                Listed(us) == [members EXCEPT ![t] = [members[t] EXCEPT ![m.group] = us]]
    <2>1. \/ /\ m.type = "joinGroupReturn" /\ m.group \in Dialogs(t)
             /\ members' = Listed(old \o m.users)
          \/ m.type = "userJoinGroup" /\ members' = Listed(Append(old, m.id))
          \/ m.type = "userLeaveGroup" /\ members' = Listed(Without(old, m.id))
          \/ members' = members
      BY <1>2 DEF MainReads
    <2>2. m.group \in Dialogs(t) => old \in Seq(Somebody)
      BY DEF Shape, ClientShape
    <2>. HIDE DEF old
    <2>3. CASE m.type = "joinGroupReturn" /\ m.group \in Dialogs(t)
      <3>1. m.users \in Seq(Somebody)
        BY <1>2, <2>3 DEF Sane
      <3>2. old \o m.users \in Seq(Somebody)
        BY <2>2, <2>3, <3>1, ConcatProperties
      <3>3. members' = members \/ members' = Listed(old \o m.users)
        BY <2>1, <2>3
      <3>. QED BY <2>3, <3>2, <3>3
    <2>4. CASE m.type = "userJoinGroup"
      <3>1. m.id \in Somebody /\ m.group \in Dialogs(t)
        BY <1>2, <1>3, <2>4 DEF Sane, NeedsDialog
      <3>2. Append(old, m.id) \in Seq(Somebody)
        BY <2>2, <3>1, AppendProperties
      <3>. QED BY <2>1, <2>4, <3>1, <3>2
    <2>5. CASE m.type = "userLeaveGroup"
      <3>1. m.group \in Dialogs(t)
        BY <1>3, <2>5 DEF NeedsDialog
      <3>2. Without(old, m.id) \in Seq(Somebody)
        BY <2>2, <3>1, WithoutSeq
      <3>. QED BY <2>1, <2>5, <3>1, <3>2
    <2>. QED BY <2>1, <2>3, <2>4, <2>5
  <1>. QED BY <1>1, <1>2, <1>3, <1>5, <1>6, <1>7, <1>8

\* MainReads.
LEMMA ShapeMainReads ==
  ASSUME Shape, NEW t \in Thread, MainReads(t)
  PROVE  Shape'
  <1>. DEFINE m == out[t][1]
  <1>1. /\ win[t] = "main" /\ peer[t] /\ out[t] # <<>> /\ Sane(m)
        /\ out' = [out EXCEPT ![t] = Tail(out[t])]
        /\ UNCHANGED <<worker, peer, user, inbox, msgQueue, events, usersOnline, groups, createGroupId,
                       rows, tables, script, win, host, tried, chats, asking, joins, missed, clicks,
                       breaks>>
        /\ found' = [s \in Thread |-> found'[s]]
    BY MainReadsIs
  <1>2. /\ m.type = "userOnline" => friends' = [friends EXCEPT ![t] = Append(friends[t], m.id)]
        /\ m.type = "userOffline" => friends' = [friends EXCEPT ![t] = Without(friends[t], m.id)]
        /\ m.type \notin {"userOnline", "userOffline"} => friends' = friends
    BY MainReadsIs
  <1>3. /\ \/ shown' = shown
           \/ m.type = "receiveMsg" /\ shown' = [shown EXCEPT ![t] = Append(shown[t], m.msg)]
        /\ \/ members' = members
           \/ \E us : /\ m.group \in Dialogs(t) /\ us \in Seq(Somebody)
                      /\ members' = [members EXCEPT ![t] = [members[t] EXCEPT ![m.group] = us]]
    BY MainReadsIs
  <1>. HIDE DEF m
  <1>4. Notices(Tail(out[t]))
    <2>1. Notices(out[t]) /\ Box(out[t])
      BY DEF Shape, ServerShape, Notices
    <2>. QED BY <1>1, <2>1, BoxTail
  <1>5. /\ out' = [s \in Thread |-> out'[s]] /\ \A s \in Thread : Notices(out'[s])
        /\ \A s \in Thread : s # t => out'[s] = out[s]
    BY <1>1, <1>4 DEF Shape, ServerShape
  <1>6. friends' \in [Thread -> Seq(User)]
    <2>1. friends \in [Thread -> Seq(User)]
      BY DEF Shape, ClientShape
    <2>2. Without(friends[t], m.id) \in Seq(User)
      BY <2>1, WithoutSeq
    <2>3. CASE m.type = "userOnline"
      <3>1. m.id \in User
        BY <1>1, <2>3 DEF Sane
      <3>2. Append(friends[t], m.id) \in Seq(User)
        BY <2>1, <3>1, AppendProperties
      <3>. QED BY <1>2, <2>1, <2>3, <3>2
    <2>. QED BY <1>2, <2>1, <2>2, <2>3
  <1>7. /\ shown' \in [Thread -> Seq(Payload)] /\ \A s \in Thread : s # t => shown'[s] = shown[s]
    <2>1. shown \in [Thread -> Seq(Payload)]
      BY DEF Shape, ClientShape
    <2>2. CASE m.type = "receiveMsg" /\ shown' = [shown EXCEPT ![t] = Append(shown[t], m.msg)]
      <3>1. m.msg \in Payload
        BY <1>1, <2>2 DEF Sane
      <3>2. Append(shown[t], m.msg) \in Seq(Payload)
        BY <2>1, <3>1, AppendProperties
      <3>. QED BY <2>1, <2>2, <3>2
    <2>. QED BY <1>3, <2>1, <2>2
  <1>8. /\ members' = [s \in Thread |-> members'[s]]
        /\ \A s \in Thread : s # t => members'[s] = members[s]
        /\ \A s \in Thread : /\ DOMAIN members'[s] \subseteq Group
                             /\ members'[s] \in [DOMAIN members'[s] -> Seq(Somebody)]
    <2>1. /\ members = [s \in Thread |-> members[s]]
          /\ \A s \in Thread : /\ DOMAIN members[s] \subseteq Group
                               /\ members[s] \in [DOMAIN members[s] -> Seq(Somebody)]
      BY DEF Shape, ClientShape, Dialogs
    <2>2. ASSUME NEW us, m.group \in Dialogs(t), us \in Seq(Somebody),
                 members' = [members EXCEPT ![t] = [members[t] EXCEPT ![m.group] = us]]
          PROVE  /\ members' = [s \in Thread |-> members'[s]]
                 /\ \A s \in Thread : s # t => members'[s] = members[s]
                 /\ \A s \in Thread : /\ DOMAIN members'[s] \subseteq Group
                                      /\ members'[s] \in [DOMAIN members'[s] -> Seq(Somebody)]
      <3>. DEFINE f == [members[t] EXCEPT ![m.group] = us]
      <3>1. DOMAIN f \subseteq Group /\ f \in [DOMAIN f -> Seq(Somebody)]
        BY <2>1, <2>2 DEF Dialogs
      <3>2. members' = [members EXCEPT ![t] = f]
        BY <2>2
      <3>. HIDE DEF f
      <3>3. /\ members' = [s \in Thread |-> members'[s]] /\ members'[t] = f
            /\ \A s \in Thread : s # t => members'[s] = members[s]
        BY <2>1, <3>2
      <3>. QED BY <2>1, <3>1, <3>3
    <2>. QED BY <1>3, <2>1, <2>2
  <1>9. ServerShape'
    BY <1>1, <1>5 DEF Shape, ServerShape
  <1>10. ClientShape'
    BY <1>1, <1>6, <1>7, <1>8 DEF Shape, ClientShape, Dialogs
  <1>11. Coupled'
    <2>1. \A s \in Thread : ~peer[s] => out'[s] = <<>>
      BY <1>1, <1>5 DEF Shape, Coupled
    <2>2. \A s \in Thread : win[s] \in {"none", "login"} => shown'[s] = <<>> /\ DOMAIN members'[s] = {}
      BY <1>1, <1>7, <1>8 DEF Shape, Coupled, Dialogs
    <2>. QED BY <1>1, <2>1, <2>2 DEF Shape, Coupled, Dialogs
  <1>. QED BY <1>9, <1>10, <1>11 DEF Shape

-----------------------------------------------------------------------------
(***************************************************************************)
(* Types.                                                                  *)
(***************************************************************************)

\* Init: the server's variables.
LEMMA InitServer ==
  ASSUME Init
  PROVE  ServerShape /\ script.online \in 0 .. Users /\ script.online <= Threads /\ script \in Scenarios
  <1>. DEFINE on == script.online
  <1>1. /\ script \in Scenarios /\ on \in 0 .. Users /\ on <= Threads /\ script.made \in 0 .. MaxGroups
        /\ Users \in Nat /\ Threads \in Nat /\ MaxGroups \in Nat
    BY ScenarioAssumption, SizeAssumption DEF Init
  <1>2. ServerInit(on, script.made)
    BY DEF Init
  <1>. HIDE DEF on
  <1>3. /\ worker \in [Thread -> {"none", "running", "ended"}] /\ peer \in [Thread -> BOOLEAN]
        /\ tables \in BOOLEAN
    BY <1>2 DEF ServerInit
  <1>4. user \in [Thread -> Somebody]
    <2>1. \A t \in Thread : (IF t <= on THEN t ELSE Nobody) \in Somebody
      BY <1>1 DEF Thread, User, Somebody, Nobody
    <2>. QED BY <1>2, <2>1 DEF ServerInit
  <1>5. usersOnline \in [User -> {Nobody} \cup Thread]
    <2>1. \A u \in User : (IF u <= on THEN u ELSE Nobody) \in {Nobody} \cup Thread
      BY <1>1 DEF Thread, User, Nobody
    <2>. QED BY <1>2, <2>1 DEF ServerInit
  <1>6. groups \in [Group -> Seq(Thread)] /\ \A g \in Group : IsInjective(groups[g])
    <2>1. <<>> \in Seq(Thread) /\ DOMAIN <<>> = {}
      OBVIOUS
    <2>2. \A g \in Group : groups[g] = <<>>
      BY <1>2 DEF ServerInit
    <2>3. groups \in [Group -> Seq(Thread)]
      BY <1>2, <2>1 DEF ServerInit
    <2>. QED BY <2>1, <2>2, <2>3 DEF IsInjective
  <1>7. createGroupId \in Nat \ {0}
    BY <1>1, <1>2 DEF ServerInit
  <1>8. /\ List(rows) /\ Len(rows) = 0 /\ List(events) /\ Len(events) = 0
    BY <1>2, EmptyList DEF ServerInit
  <1>9. /\ inbox = [t \in Thread |-> inbox[t]] /\ \A t \in Thread : Frames(inbox[t])
        /\ msgQueue = [t \in Thread |-> msgQueue[t]] /\ \A t \in Thread : Box(msgQueue[t])
        /\ out = [t \in Thread |-> out[t]] /\ \A t \in Thread : Notices(out[t])
    BY <1>2, BoxEmpty DEF ServerInit
  <1>10. ServerShape
    BY <1>3, <1>4, <1>5, <1>6, <1>7, <1>8, <1>9 DEF ServerShape
  <1>. QED BY <1>1, <1>10 DEF on

\* The initial states have the shape.
LEMMA ShapeInit ==
  ASSUME Init
  PROVE  Shape
  <1>. DEFINE on == script.online
  <1>1. ServerShape /\ on \in 0 .. Users /\ on <= Threads /\ script \in Scenarios
    BY InitServer
  <1>2. ServerInit(on, script.made)
    BY DEF Init
  <1>3. /\ win = [t \in Thread |-> IF t <= on THEN "main" ELSE "none"]
        /\ host = [t \in Thread |-> IF t <= on THEN t ELSE Nobody]
        /\ tried = [t \in Thread |-> t <= on]
        /\ friends = [t \in Thread |-> IF t <= on THEN InOrder({u \in 1 .. on : u # t}) ELSE <<>>]
        /\ asking = [t \in Thread |-> IF t <= on /\ script.made > 0 THEN {"search"} ELSE {}]
        /\ found = [t \in Thread |-> IF t <= on THEN 1 .. script.made ELSE {}]
        /\ chats = [t \in Thread |-> {}] /\ shown = [t \in Thread |-> <<>>]
        /\ members = [t \in Thread |-> <<>>] /\ joins = [t \in Thread |-> [g \in Group |-> 0]]
        /\ missed = [t \in Thread |-> FALSE] /\ clicks = 0 /\ breaks = 0
    BY DEF Init
  <1>. HIDE DEF on
  <1>4. Users \in Nat /\ Threads \in Nat /\ on \in Nat
    BY <1>1, SizeAssumption
  <1>5. ClientShape
    <2>1. host \in [Thread -> Somebody]
      <3>1. \A t \in Thread : (IF t <= on THEN t ELSE Nobody) \in Somebody
        BY <1>1, <1>4 DEF Thread, User, Somebody, Nobody
      <3>. QED BY <1>3, <3>1
    <2>2. friends \in [Thread -> Seq(User)]
      <3>1. \A t \in Thread : {u \in 1 .. on : u # t} \in SUBSET User
        BY <1>1, <1>4 DEF User
      <3>2. \A t \in Thread : InOrder({u \in 1 .. on : u # t}) \in Seq(User)
        BY <3>1, InOrderIs
      <3>3. <<>> \in Seq(User)
        OBVIOUS
      <3>. QED BY <1>3, <3>2, <3>3
    <2>3. /\ win \in [Thread -> {"none", "login", "main", "closed", "crashed"}]
          /\ tried \in [Thread -> BOOLEAN] /\ missed \in [Thread -> BOOLEAN]
          /\ asking \in [Thread -> SUBSET {"create", "search"}]
          /\ chats \in [Thread -> SUBSET User]
      BY <1>3
    <2>4. /\ shown \in [Thread -> Seq(Payload)] /\ joins \in [Thread -> [Group -> Nat]]
          /\ found = [t \in Thread |-> found[t]] /\ members = [t \in Thread |-> members[t]]
      BY <1>3
    <2>5. \A t \in Thread : DOMAIN members[t] = {} /\ members[t] \in [DOMAIN members[t] -> Seq(Somebody)]
      BY <1>3
    <2>. QED BY <1>1, <1>3, <2>1, <2>2, <2>3, <2>4, <2>5 DEF ClientShape, Dialogs
  <1>6. Coupled
    <2>1. /\ \A t \in Thread : peer[t] <=> t <= on
          /\ \A t \in Thread : worker[t] = IF t <= on THEN "running" ELSE "none"
          /\ \A t \in Thread : inbox[t] = <<>> /\ msgQueue[t] = <<>> /\ out[t] = <<>>
          /\ \A t \in Thread : user[t] = IF t <= on THEN t ELSE Nobody
          /\ \A u \in User : usersOnline[u] = IF u <= on THEN u ELSE Nobody
          /\ \A g \in Group : groups[g] = <<>>
          /\ events = <<>>
      BY <1>2 DEF ServerInit
    <2>2. Len(events) = 0 /\ DOMAIN <<>> = {}
      BY <2>1
    <2>3. /\ \A t \in Thread : peer[t] => worker[t] = "running" /\ win[t] \in {"login", "main"}
          /\ \A t \in Thread : ~peer[t] => out[t] = <<>>
          /\ \A t \in Thread : worker[t] # "running" => inbox[t] = <<>> /\ msgQueue[t] = <<>>
          /\ \A t \in Thread : worker[t] = "none" =>
                ~tried[t] /\ win[t] = "none" /\ user[t] = Nobody /\ \A g \in Group : joins[t][g] = 0
          /\ \A t \in Thread : win[t] \in {"none", "login"} => shown[t] = <<>> /\ DOMAIN members[t] = {}
      BY <1>3, <2>1, <2>2
    <2>4. \A t \in Thread : win[t] = "main" => host[t] # Nobody
      BY <1>3, <1>4 DEF Thread, Nobody
    <2>5. \A u \in User : usersOnline[u] # Nobody => worker[usersOnline[u]] # "none"
      <3>1. \A u \in User : u <= on => u \in Thread
        BY <1>1, <1>4 DEF User, Thread
      <3>. QED BY <2>1, <3>1
    <2>6. \A g \in Group : \A t \in Range(groups[g]) : worker[t] # "none"
      BY <2>1, <2>2 DEF Range
    <2>. QED BY <2>2, <2>3, <2>4, <2>5, <2>6 DEF Coupled, Dialogs
  <1>. QED BY <1>1, <1>5, <1>6 DEF Shape

\* Every step is one of a worker thread, of the GUI thread or of a client.
LEMMA StepIs ==
  ASSUME Next
  PROVE  \/ \E t \in Thread : ReadFrames(t) /\ UNCHANGED clientVars
         \/ \E t \in Thread : Deal(t) /\ UNCHANGED clientVars
         \/ \E t \in Thread : Ends(t) /\ UNCHANGED clientVars
         \/ AnySlot /\ UNCHANGED clientVars
         \/ \E t \in Thread : Start(t)
         \/ \E t \in Thread : \/ ClickRegister(t)
                              \/ AskCreate(t)
                              \/ AskSearch(t)
                              \/ \E u \in User, right \in BOOLEAN : ClickLogin(t, u, right)
                              \/ \E u \in User : Say(t, u)
                              \/ \E g \in Group : SayInGroup(t, g)
         \/ \E t \in Thread, g \in Group : Join(t, g) \/ Leave(t, g)
         \/ \E t \in Thread : \/ \E u \in User : OpenChat(t, u)
                              \/ \E d \in {"create", "search"} : CloseAsking(t, d)
         \/ \E t \in Thread : \E n \in 1 .. Len(out[t]) : LoginReads(t, n)
         \/ \E t \in Thread : MainReads(t)
         \/ \E t \in Thread : MainCrashes(t) \/ \E w \in {"login", "main", "closed"} : Break(t, w)
         \/ \E t, s \in Thread : Reconnect(t, s)
  BY DEF Next, AnySlot

\* A step keeps the shape.
LEMMA ShapeNext ==
  ASSUME Shape, [Next]_vars
  PROVE  Shape'
  <1>1. CASE UNCHANGED vars
    <2>1. UNCHANGED serverVars /\ UNCHANGED clientVars
      BY <1>1 DEF vars
    <2>2. ServerShape'
      BY <2>1 DEF Shape, ServerShape, serverVars
    <2>3. ClientShape'
      BY <2>1 DEF Shape, ClientShape, Dialogs, clientVars
    <2>4. Coupled'
      BY <2>1 DEF Shape, Coupled, Dialogs, serverVars, clientVars
    <2>. QED BY <2>2, <2>3, <2>4 DEF Shape
  <1>2. CASE Next
    BY <1>2, StepIs, ShapeReadFrames, ShapeDeal, ShapeEnds, ShapeSlot, ShapeStart, ShapeClicks,
       ShapeDialogs, ShapeLocal, ShapeLoginReads, ShapeMainReads, ShapeGone, ShapeReconnect
  <1>. QED BY <1>1, <1>2

\* The legacy system's variables keep their types: a group lists a thread once, a
\* connected peer has its thread running and a main window its user (NetWorkThread,
\* MainWindow of the server and of the client).
THEOREM SpecTypeOK == Spec => []TypeOK
  <1>1. Init => Shape
    BY ShapeInit
  <1>2. Shape /\ [Next]_vars => Shape'
    BY ShapeNext
  <1>3. Shape => TypeOK
    BY DEF Shape, ServerShape, ClientShape, Coupled, TypeOK, Somebody
  <1>. QED BY <1>1, <1>2, <1>3, PTL DEF Spec

-----------------------------------------------------------------------------
(***************************************************************************)
(* Logins: right passwords in the queues.                                  *)
(***************************************************************************)

\* No frame, no login.
LEMMA RightNotices ==
  ASSUME NEW q, Notices(q)
  PROVE  ~HasRight(q) /\ OneRight(q)
  <1>1. \A i \in 1 .. Len(q) : ~Frame(q[i])
    BY DEF Notices
  <1>2. \A i \in 1 .. Len(q) : ~Rightly(q[i])
    BY <1>1 DEF Frame, Rightly
  <1>. QED BY <1>2 DEF HasRight, OneRight

\* One more frame.
LEMMA RightAppend ==
  ASSUME NEW q, List(q), NEW m
  PROVE  /\ HasRight(Append(q, m)) <=> HasRight(q) \/ Rightly(m)
         /\ OneRight(q) /\ ~(HasRight(q) /\ Rightly(m)) => OneRight(Append(q, m))
  <1>1. /\ Len(q) \in Nat /\ Len(Append(q, m)) = Len(q) + 1
        /\ \A i \in 1 .. Len(q) : Append(q, m)[i] = q[i]
        /\ Append(q, m)[Len(q) + 1] = m
    BY ListLen, AppendList
  <1>2. /\ \A i \in 1 .. Len(q) + 1 : i \in 1 .. Len(q) \/ i = Len(q) + 1
        /\ \A i \in 1 .. Len(q) : i \in 1 .. Len(q) + 1
        /\ Len(q) + 1 \in 1 .. Len(q) + 1
    BY <1>1
  <1>3. HasRight(Append(q, m)) <=> HasRight(q) \/ Rightly(m)
    BY <1>1, <1>2 DEF HasRight
  <1>4. OneRight(q) /\ ~(HasRight(q) /\ Rightly(m)) => OneRight(Append(q, m))
    BY <1>1, <1>2 DEF HasRight, OneRight
  <1>. QED BY <1>3, <1>4

\* One queue behind another.
LEMMA RightConcat ==
  ASSUME NEW q, List(q), NEW r, List(r)
  PROVE  /\ HasRight(q \o r) <=> HasRight(q) \/ HasRight(r)
         /\ OneRight(q) /\ OneRight(r) /\ ~(HasRight(q) /\ HasRight(r)) => OneRight(q \o r)
  <1>. DEFINE x == q \o r
              n == Len(q)
              k == Len(r)
  <1>1. /\ n \in Nat /\ k \in Nat /\ Len(x) = n + k
        /\ \A i \in 1 .. n : x[i] = q[i]
        /\ \A i \in 1 .. k : x[n + i] = r[i]
    <2>1. n \in Nat /\ k \in Nat
      BY ListLen
    <2>2. /\ Len(q \o r) = Len(q) + Len(r)
          /\ \A i \in 1 .. Len(q) : (q \o r)[i] = q[i]
          /\ \A i \in 1 .. Len(r) : (q \o r)[Len(q) + i] = r[i]
      BY ConcatList
    <2>. QED BY <2>1, <2>2
  <1>. HIDE DEF x, n, k
  <1>2. /\ \A i \in 1 .. n + k : i \in 1 .. n \/ (i - n \in 1 .. k /\ i = n + (i - n))
        /\ \A i \in 1 .. n : i \in 1 .. n + k
        /\ \A i \in 1 .. k : n + i \in 1 .. n + k
    BY <1>1
  <1>3. \A i \in 1 .. n + k : (i \in 1 .. n /\ x[i] = q[i]) \/ (i - n \in 1 .. k /\ x[i] = r[i - n])
    BY <1>1, <1>2
  <1>4. HasRight(x) <=> HasRight(q) \/ HasRight(r)
    BY <1>1, <1>2, <1>3 DEF HasRight, n, k
  <1>5. ASSUME OneRight(q), OneRight(r), ~(HasRight(q) /\ HasRight(r)),
               NEW i \in 1 .. n + k, NEW j \in 1 .. n + k, Rightly(x[i]), Rightly(x[j])
        PROVE  i = j
    <2>1. CASE i \in 1 .. n /\ j \in 1 .. n
      BY <1>1, <1>5, <2>1 DEF OneRight, n
    <2>2. CASE i - n \in 1 .. k /\ j - n \in 1 .. k /\ x[i] = r[i - n] /\ x[j] = r[j - n]
      <3>1. i - n = j - n
        BY <1>5, <2>2 DEF OneRight, k
      <3>. QED BY <1>1, <3>1
    <2>3. CASE i \in 1 .. n /\ j - n \in 1 .. k /\ x[i] = q[i] /\ x[j] = r[j - n]
      BY <1>5, <2>3 DEF HasRight, n, k
    <2>4. CASE j \in 1 .. n /\ i - n \in 1 .. k /\ x[j] = q[j] /\ x[i] = r[i - n]
      BY <1>5, <2>4 DEF HasRight, n, k
    <2>. QED BY <1>3, <2>1, <2>2, <2>3, <2>4
  <1>. QED BY <1>1, <1>4, <1>5 DEF OneRight, x

\* The first frame leaves.
LEMMA RightTail ==
  ASSUME NEW q, List(q), q # <<>>
  PROVE  /\ HasRight(Tail(q)) => HasRight(q)
         /\ Rightly(q[1]) => HasRight(q)
         /\ OneRight(q) => OneRight(Tail(q))
         /\ OneRight(q) /\ Rightly(q[1]) => ~HasRight(Tail(q))
  <1>1. /\ Len(q) \in Nat /\ Len(Tail(q)) = Len(q) - 1 /\ Len(q) >= 1
        /\ \A i \in 1 .. Len(q) - 1 : Tail(q)[i] = q[i + 1]
    BY ListLen, TailList
  <1>2. /\ 1 \in 1 .. Len(q)
        /\ \A i \in 1 .. Len(q) - 1 : i \in Int /\ i + 1 \in 1 .. Len(q) /\ i + 1 # 1
        /\ \A i, j \in 1 .. Len(q) - 1 : i + 1 = j + 1 => i = j
    BY <1>1
  <1>3. (HasRight(Tail(q)) => HasRight(q)) /\ (Rightly(q[1]) => HasRight(q))
    BY <1>1, <1>2 DEF HasRight
  <1>4. OneRight(q) => OneRight(Tail(q))
    BY <1>1, <1>2 DEF OneRight
  <1>5. OneRight(q) /\ Rightly(q[1]) => ~HasRight(Tail(q))
    BY <1>1, <1>2 DEF OneRight, HasRight
  <1>. QED BY <1>3, <1>4, <1>5

\* No queue, no login.
LEMMA RightEmpty ==
  ~HasRight(<<>>) /\ OneRight(<<>>)
  BY RightNotices, BoxEmpty

\* The queues are lists.
LEMMA QueueLists ==
  ASSUME Shape, NEW t \in Thread
  PROVE  /\ List(inbox[t]) /\ List(msgQueue[t]) /\ List(out[t]) /\ List(events) /\ List(rows)
         /\ Len(inbox[t]) \in Nat /\ Len(msgQueue[t]) \in Nat /\ Len(out[t]) \in Nat
         /\ Len(events) \in Nat /\ Len(rows) \in Nat
  <1>1. List(inbox[t]) /\ List(msgQueue[t]) /\ List(out[t]) /\ List(events) /\ List(rows)
    BY DEF Shape, ServerShape, Frames, Notices, Box
  <1>. QED BY <1>1, ListLen

\* Nothing about logins changes.
LEMMA LoginSame ==
  ASSUME Shape, LoginInv, UNCHANGED <<user, inbox, msgQueue, events, usersOnline, tried>>,
         \A t \in Thread : worker'[t] = "ended" => worker[t] = "ended"
  PROVE  LoginInv'
  <1>1. OneLogin'
    BY DEF LoginInv, OneLogin, Pending, LoginAt
  <1>2. Farewell'
    BY DEF LoginInv, Farewell, LoginAt
  <1>3. \A u \in User : usersOnline[u] # Nobody => usersOnline[u] \in Thread
    BY DEF Shape, ServerShape
  <1>4. NoGhostUsers'
    BY <1>3 DEF LoginInv, NoGhostUsers, Online
  <1>. QED BY <1>1, <1>2, <1>4 DEF LoginInv

\* ReadFrames.
LEMMA LoginReadFrames ==
  ASSUME Shape, LoginInv, NEW t \in Thread, ReadFrames(t), UNCHANGED clientVars
  PROVE  LoginInv'
  <1>1. /\ msgQueue' = [msgQueue EXCEPT ![t] = msgQueue[t] \o inbox[t]]
        /\ inbox' = [inbox EXCEPT ![t] = <<>>]
        /\ UNCHANGED <<worker, user, events, usersOnline, tried>>
    BY DEF ReadFrames, guiVars, clientVars
  <1>2. /\ msgQueue'[t] = msgQueue[t] \o inbox[t] /\ inbox'[t] = <<>>
        /\ \A s \in Thread : s # t => msgQueue'[s] = msgQueue[s] /\ inbox'[s] = inbox[s]
    BY <1>1 DEF Shape, ServerShape
  <1>3. /\ HasRight(msgQueue'[t]) <=> HasRight(msgQueue[t]) \/ HasRight(inbox[t])
        /\ OneRight(msgQueue'[t]) /\ OneRight(inbox'[t]) /\ ~HasRight(inbox'[t])
    <2>1. List(msgQueue[t]) /\ List(inbox[t])
      BY QueueLists
    <2>2. /\ OneRight(inbox[t]) /\ OneRight(msgQueue[t])
          /\ ~(HasRight(inbox[t]) /\ HasRight(msgQueue[t]))
      BY DEF LoginInv, OneLogin
    <2>. QED BY <1>2, <2>1, <2>2, RightConcat, RightEmpty
  <1>4. /\ \A s \in Thread : Pending(s)' <=> Pending(s)
        /\ \A s \in Thread : /\ OneRight(inbox'[s]) /\ OneRight(msgQueue'[s])
                             /\ ~(HasRight(inbox'[s]) /\ HasRight(msgQueue'[s]))
    BY <1>2, <1>3 DEF Pending, LoginInv, OneLogin
  <1>5. OneLogin'
    BY <1>1, <1>4 DEF LoginInv, OneLogin, LoginAt
  <1>6. Farewell' /\ NoGhostUsers'
    BY <1>1 DEF LoginInv, Farewell, LoginAt, NoGhostUsers, Online
  <1>. QED BY <1>5, <1>6 DEF LoginInv

\* A signal is appended: what was queued stays where it was.
LEMMA AppendedIs ==
  ASSUME Shape, NEW e, events' = Append(events, e)
  PROVE  /\ Len(events) \in Nat /\ Len(events') = Len(events) + 1
         /\ \A i \in 1 .. Len(events) : i \in 1 .. Len(events') /\ events'[i] = events[i]
         /\ Len(events) + 1 \in 1 .. Len(events') /\ events'[Len(events) + 1] = e
         /\ \A i \in 1 .. Len(events') : i \in 1 .. Len(events) \/ i = Len(events) + 1
  <1>1. List(events) /\ Len(events) \in Nat
    BY ListLen DEF Shape, ServerShape
  <1>2. /\ Len(events') = Len(events) + 1
        /\ \A i \in 1 .. Len(events) : events'[i] = events[i]
        /\ events'[Len(events) + 1] = e
    BY <1>1, AppendList
  <1>. QED BY <1>1, <1>2

\* A thread says something other than that it logged in.
LEMMA LoginOther ==
  ASSUME Shape, LoginInv, UNCHANGED <<worker, user, usersOnline, tried>>,
         \A s \in Thread : Pending(s)' => Pending(s),
         \A s \in Thread : /\ OneRight(inbox'[s]) /\ OneRight(msgQueue'[s])
                           /\ ~(HasRight(inbox'[s]) /\ HasRight(msgQueue'[s])),
         UNCHANGED events \/ \E e : e.type # "loginSuccess" /\ events' = Append(events, e)
  PROVE  LoginInv'
  <1>1. CASE UNCHANGED events
    <2>1. OneLogin'
      BY <1>1 DEF LoginInv, OneLogin, LoginAt
    <2>2. Farewell' /\ NoGhostUsers'
      BY <1>1 DEF LoginInv, Farewell, LoginAt, NoGhostUsers, Online
    <2>. QED BY <2>1, <2>2 DEF LoginInv
  <1>2. ASSUME NEW e, e.type # "loginSuccess", events' = Append(events, e)
        PROVE  LoginInv'
    <2>1. /\ Len(events) \in Nat /\ Len(events') = Len(events) + 1
          /\ \A i \in 1 .. Len(events) : i \in 1 .. Len(events') /\ events'[i] = events[i]
          /\ Len(events) + 1 \in 1 .. Len(events') /\ events'[Len(events) + 1] = e
          /\ \A i \in 1 .. Len(events') : i \in 1 .. Len(events) \/ i = Len(events) + 1
      BY <1>2, AppendedIs
    <2>2. \A i \in 1 .. Len(events') : events'[i].type = "loginSuccess" =>
            i \in 1 .. Len(events) /\ events'[i] = events[i]
      BY <1>2, <2>1
    <2>3. OneLogin'
      BY <2>2 DEF LoginInv, OneLogin, LoginAt
    <2>4. Farewell'
      <3>1. \A i \in 1 .. Len(events) : \A j \in i + 1 .. Len(events) :
              j \in i + 1 .. Len(events') /\ j \in 1 .. Len(events)
        BY <2>1
      <3>. QED BY <2>1, <2>2, <3>1 DEF LoginInv, Farewell, LoginAt
    <2>5. NoGhostUsers'
      BY <2>1 DEF LoginInv, NoGhostUsers, Online
    <2>. QED BY <2>3, <2>4, <2>5 DEF LoginInv
  <1>. QED BY <1>1, <1>2

\* Deal.
LEMMA LoginDeal ==
  ASSUME Shape, LoginInv, NEW t \in Thread, Deal(t), UNCHANGED clientVars
  PROVE  LoginInv'
  <1>. DEFINE m == msgQueue[t][1]
  <1>1. /\ worker[t] = "running" /\ msgQueue[t] # <<>>
        /\ msgQueue' = [msgQueue EXCEPT ![t] = Tail(msgQueue[t])]
        /\ UNCHANGED <<worker, inbox, usersOnline, tried>>
    BY DealIs DEF clientVars
  <1>2. /\ msgQueue'[t] = Tail(msgQueue[t])
        /\ \A s \in Thread : s # t => msgQueue'[s] = msgQueue[s]
    BY <1>1 DEF Shape, ServerShape
  <1>3. /\ HasRight(msgQueue'[t]) => HasRight(msgQueue[t])
        /\ Rightly(m) => HasRight(msgQueue[t]) /\ ~HasRight(msgQueue'[t])
        /\ OneRight(msgQueue'[t])
    <2>1. List(msgQueue[t]) /\ OneRight(msgQueue[t])
      BY QueueLists DEF LoginInv, OneLogin
    <2>. QED BY <1>1, <1>2, <2>1, RightTail
  <1>4. /\ \A s \in Thread : Pending(s)' => Pending(s)
        /\ \A s \in Thread : /\ OneRight(inbox'[s]) /\ OneRight(msgQueue'[s])
                             /\ ~(HasRight(inbox'[s]) /\ HasRight(msgQueue'[s]))
        /\ Rightly(m) => Pending(t) /\ ~Pending(t)'
    BY <1>1, <1>2, <1>3 DEF Pending, LoginInv, OneLogin
  <1>5. CASE /\ Rightly(m) /\ m.id \in User
             /\ user' = [user EXCEPT ![t] = m.id]
             /\ events' = Append(events, Signal("loginSuccess", t, m))
    <2>. DEFINE e == Signal("loginSuccess", t, m)
    <2>1. /\ Len(events) \in Nat /\ Len(events') = Len(events) + 1
          /\ \A i \in 1 .. Len(events) : i \in 1 .. Len(events') /\ events'[i] = events[i]
          /\ Len(events) + 1 \in 1 .. Len(events') /\ events'[Len(events) + 1] = e
          /\ \A i \in 1 .. Len(events') : i \in 1 .. Len(events) \/ i = Len(events) + 1
      BY <1>5, AppendedIs
    <2>2. e.type = "loginSuccess" /\ e.thread = t /\ e.msg = m
      BY DEF Signal
    <2>. HIDE DEF e, m
    <2>3. /\ user[t] = Nobody /\ tried[t]
          /\ user'[t] = m.id /\ \A s \in Thread : s # t => user'[s] = user[s]
      BY <1>4, <1>5 DEF LoginInv, OneLogin, Shape, ServerShape, ClientShape
    <2>4. \A u \in User : u # Nobody
      BY SizeAssumption DEF User, Nobody
    <2>5. \A u \in User : usersOnline[u] # t
      <3>1. t # Nobody
        BY SizeAssumption DEF Thread, Nobody
      <3>. QED BY <2>3, <2>4, <3>1 DEF LoginInv, OneLogin
    <2>6. \A i \in 1 .. Len(events) : ~LoginAt(i, t)
      <3>1. \A i \in 1 .. Len(events) : LoginAt(i, t) => events[i].msg.id \in User
        BY DEF LoginAt, Shape, ServerShape, SaneSignal, Sane
      <3>. QED BY <2>3, <2>4, <3>1 DEF LoginInv, OneLogin, LoginAt
    <2>7. \A s \in Thread : ~tried[s] => user'[s] = Nobody /\ ~Pending(s)'
      BY <1>4, <2>3 DEF LoginInv, OneLogin
    <2>8. \A s \in Thread : Pending(s)' => user'[s] = Nobody
      BY <1>4, <1>5, <2>3 DEF LoginInv, OneLogin
    <2>9. \A i \in 1 .. Len(events') : events'[i].type = "loginSuccess" =>
            /\ user'[events'[i].thread] = events'[i].msg.id
            /\ \A u \in User : usersOnline[u] # events'[i].thread
      <3>1. ASSUME NEW i \in 1 .. Len(events), events[i].type = "loginSuccess"
            PROVE  /\ user'[events[i].thread] = events[i].msg.id
                   /\ \A u \in User : usersOnline[u] # events[i].thread
        <4>1. events[i].thread # t /\ events[i].thread \in Thread
          BY <2>6, <3>1 DEF LoginAt, Shape, ServerShape, SaneSignal
        <4>. QED BY <2>3, <3>1, <4>1 DEF LoginInv, OneLogin
      <3>. QED BY <2>1, <2>2, <2>3, <2>5, <3>1
    <2>10. \A s \in Thread : \A i, j \in 1 .. Len(events') : LoginAt(i, s)' /\ LoginAt(j, s)' => i = j
      BY <2>1, <2>2, <2>6 DEF LoginInv, OneLogin, LoginAt
    <2>11. \A u \in User : usersOnline[u] # Nobody => user'[usersOnline[u]] = u
      BY <2>3, <2>5 DEF LoginInv, OneLogin, Shape, ServerShape
    <2>12. OneLogin'
      BY <1>1, <1>4, <2>7, <2>8, <2>9, <2>10, <2>11 DEF OneLogin
    <2>13. Farewell'
      <3>1. \A i \in 1 .. Len(events) : \A j \in i + 1 .. Len(events) :
              j \in i + 1 .. Len(events') /\ j \in 1 .. Len(events)
        BY <2>1
      <3>2. ASSUME NEW i \in 1 .. Len(events'), NEW s \in Thread, LoginAt(i, s)', worker[s] = "ended"
            PROVE  \E j \in i + 1 .. Len(events') :
                      events'[j].type = "userOffline" /\ events'[j].msg.id = events'[i].msg.id
        <4>1. i \in 1 .. Len(events) /\ events'[i] = events[i] /\ LoginAt(i, s)
          BY <1>1, <2>1, <2>2, <3>2 DEF LoginAt
        <4>2. PICK j \in i + 1 .. Len(events) :
                events[j].type = "userOffline" /\ events[j].msg.id = events[i].msg.id
          BY <3>2, <4>1 DEF LoginInv, Farewell
        <4>3. j \in i + 1 .. Len(events') /\ events'[j] = events[j]
          BY <2>1, <3>1, <4>1
        <4>. QED BY <4>1, <4>2, <4>3
      <3>. QED BY <1>1, <3>2 DEF Farewell
    <2>14. NoGhostUsers'
      BY <1>1, <2>1 DEF LoginInv, NoGhostUsers, Online
    <2>. QED BY <2>12, <2>13, <2>14 DEF LoginInv
  <1>6. CASE m.type \in Requests /\ events' = Append(events, Signal(m.type, t, m)) /\ UNCHANGED user
    <2>1. Signal(m.type, t, m).type # "loginSuccess"
      BY <1>6 DEF Signal, Requests
    <2>. QED BY <1>1, <1>4, <1>6, <2>1, LoginOther
  <1>7. CASE UNCHANGED <<user, events>>
    BY <1>1, <1>4, <1>7, LoginOther
  <1>. QED BY <1>5, <1>6, <1>7, DealIs

\* Ends.
LEMMA LoginEnds ==
  ASSUME Shape, LoginInv, NEW t \in Thread, Ends(t), UNCHANGED clientVars
  PROVE  LoginInv'
  <1>. DEFINE e == Signal("userOffline", t, UserOffline(user[t]))
  <1>1. /\ worker' = [worker EXCEPT ![t] = "ended"]
        /\ e.type = "userOffline" /\ e.msg.id = user[t]
        /\ events' = Append(events, e)
        /\ inbox' = [inbox EXCEPT ![t] = <<>>] /\ msgQueue' = [msgQueue EXCEPT ![t] = <<>>]
        /\ UNCHANGED <<user, usersOnline, tried>>
    BY EndsIs DEF clientVars
  <1>. HIDE DEF e
  <1>2. /\ msgQueue'[t] = <<>> /\ inbox'[t] = <<>>
        /\ \A s \in Thread : s # t => msgQueue'[s] = msgQueue[s] /\ inbox'[s] = inbox[s]
        /\ \A s \in Thread : s # t => worker'[s] = worker[s]
    BY <1>1 DEF Shape, ServerShape
  <1>3. /\ \A s \in Thread : Pending(s)' => Pending(s)
        /\ \A s \in Thread : /\ OneRight(inbox'[s]) /\ OneRight(msgQueue'[s])
                             /\ ~(HasRight(inbox'[s]) /\ HasRight(msgQueue'[s]))
    BY <1>2, RightEmpty DEF Pending, LoginInv, OneLogin
  <1>4. /\ Len(events) \in Nat /\ Len(events') = Len(events) + 1
        /\ \A i \in 1 .. Len(events) : i \in 1 .. Len(events') /\ events'[i] = events[i]
        /\ Len(events) + 1 \in 1 .. Len(events') /\ events'[Len(events) + 1] = e
        /\ \A i \in 1 .. Len(events') : i \in 1 .. Len(events) \/ i = Len(events) + 1
    BY <1>1, AppendedIs
  <1>5. \A i \in 1 .. Len(events') : events'[i].type = "loginSuccess" =>
          i \in 1 .. Len(events) /\ events'[i] = events[i]
    BY <1>1, <1>4
  <1>6. OneLogin'
    BY <1>1, <1>3, <1>5 DEF LoginInv, OneLogin, LoginAt
  <1>7. Farewell'
    <2>1. \A i \in 1 .. Len(events) : /\ Len(events) + 1 \in i + 1 .. Len(events')
                                      /\ \A j \in i + 1 .. Len(events) :
                                            j \in i + 1 .. Len(events') /\ j \in 1 .. Len(events)
      BY <1>4
    <2>2. ASSUME NEW i \in 1 .. Len(events'), NEW s \in Thread, LoginAt(i, s)', worker'[s] = "ended"
          PROVE  \E j \in i + 1 .. Len(events') :
                    events'[j].type = "userOffline" /\ events'[j].msg.id = events'[i].msg.id
      <3>1. i \in 1 .. Len(events) /\ events'[i] = events[i] /\ LoginAt(i, s)
        BY <1>5, <2>2 DEF LoginAt
      <3>2. CASE s = t
        <4>1. user[t] = events[i].msg.id
          BY <3>1, <3>2 DEF LoginInv, OneLogin, LoginAt
        <4>. QED BY <1>1, <1>4, <2>1, <3>1, <4>1
      <3>3. CASE s # t
        <4>1. PICK j \in i + 1 .. Len(events) :
                events[j].type = "userOffline" /\ events[j].msg.id = events[i].msg.id
          BY <1>2, <2>2, <3>1, <3>3 DEF LoginInv, Farewell
        <4>2. j \in i + 1 .. Len(events') /\ events'[j] = events[j]
          BY <1>4, <2>1, <3>1
        <4>. QED BY <3>1, <4>1, <4>2
      <3>. QED BY <3>2, <3>3
    <2>. QED BY <2>2 DEF Farewell
  <1>8. NoGhostUsers'
    <2>1. ASSUME NEW u \in User, usersOnline[u] # Nobody, worker'[usersOnline[u]] = "ended"
          PROVE  \E i \in 1 .. Len(events') : events'[i].type = "userOffline" /\ events'[i].msg.id = u
      <3>1. usersOnline[u] \in Thread /\ user[usersOnline[u]] = u
        BY <2>1 DEF Shape, ServerShape, LoginInv, OneLogin
      <3>2. CASE usersOnline[u] = t
        BY <1>1, <1>4, <3>1, <3>2
      <3>3. CASE usersOnline[u] # t
        <4>1. PICK i \in 1 .. Len(events) : events[i].type = "userOffline" /\ events[i].msg.id = u
          BY <1>2, <2>1, <3>1, <3>3 DEF LoginInv, NoGhostUsers, Online
        <4>. QED BY <1>4, <4>1
      <3>. QED BY <3>2, <3>3
    <2>. QED BY <1>1, <2>1 DEF NoGhostUsers, Online
  <1>. QED BY <1>6, <1>7, <1>8 DEF LoginInv

\* A signal is taken: the others move up.
LEMMA TakenIs ==
  ASSUME Shape, SlotFrame
  PROVE  /\ Len(events) \in Nat /\ 1 \in 1 .. Len(events) /\ Len(events') = Len(events) - 1
         /\ \A i \in 1 .. Len(events') : /\ i \in Int /\ i + 1 \in 1 .. Len(events) /\ i + 1 # 1
                                         /\ events'[i] = events[i + 1]
         /\ \A i \in 1 .. Len(events) : i # 1 =>
               i - 1 \in 1 .. Len(events') /\ events'[i - 1] = events[i] /\ i - 1 + 1 = i
  <1>1. /\ Len(events) \in Nat /\ 1 \in 1 .. Len(events) /\ Len(events') = Len(events) - 1
        /\ \A i \in 1 .. Len(events) - 1 : i + 1 \in 1 .. Len(events) /\ events'[i] = events[i + 1]
    BY SignalIs DEF Shape, SlotFrame
  <1>2. \A i \in 1 .. Len(events) - 1 : i \in Int /\ i + 1 # 1
    BY <1>1
  <1>3. \A i \in 1 .. Len(events) : i # 1 => i - 1 \in 1 .. Len(events) - 1 /\ i - 1 + 1 = i
    BY <1>1
  <1>. QED BY <1>1, <1>2, <1>3

\* What a slot pushes is no login.
LEMMA RightPushed ==
  ASSUME Shape, LoginInv, SlotFrame, UNCHANGED msgQueue \/ \E x : Pushes(x)
  PROVE  /\ \A s \in Thread : Pending(s)' => Pending(s)
         /\ \A s \in Thread : /\ OneRight(inbox'[s]) /\ OneRight(msgQueue'[s])
                              /\ ~(HasRight(inbox'[s]) /\ HasRight(msgQueue'[s]))
  <1>1. inbox' = inbox
    BY DEF SlotFrame
  <1>2. \A s \in Thread : /\ HasRight(msgQueue'[s]) => HasRight(msgQueue[s])
                          /\ OneRight(msgQueue[s]) => OneRight(msgQueue'[s])
    <2>1. CASE UNCHANGED msgQueue
      BY <2>1
    <2>2. ASSUME NEW x, Pushes(x), NEW s \in Thread
          PROVE  /\ HasRight(msgQueue'[s]) => HasRight(msgQueue[s])
                 /\ OneRight(msgQueue[s]) => OneRight(msgQueue'[s])
      <3>1. CASE worker[s] = "ended"
        <4>1. msgQueue'[s] = <<>>
          BY <2>2, <3>1, PushedIs DEF Shape
        <4>. QED BY <4>1, RightEmpty
      <3>2. CASE worker[s] # "ended"
        <4>1. msgQueue'[s] = msgQueue[s] \o x[s]
          BY <2>2, <3>2, PushedIs DEF Shape
        <4>2. List(msgQueue[s]) /\ Notices(x[s]) /\ List(x[s])
          BY <2>2, QueueLists DEF Pushes, Notices, Box
        <4>3. ~HasRight(x[s]) /\ OneRight(x[s])
          BY <4>2, RightNotices
        <4>. QED BY <4>1, <4>2, <4>3, RightConcat
      <3>. QED BY <3>1, <3>2
    <2>. QED BY <2>1, <2>2
  <1>. QED BY <1>1, <1>2 DEF LoginInv, OneLogin, Pending

\* The slots: those who go offline are not waited for any more, and the one whose login
\* is handled is its thread's user, with a farewell on its way if the thread has ended.
LEMMA LoginSlot ==
  ASSUME Shape, LoginInv, AnySlot, UNCHANGED clientVars
  PROVE  LoginInv'
  <1>. DEFINE e == events[1]
              thread == e.thread
              m == e.msg
              Gone(i, u) == events[i].type = "userOffline" /\ events[i].msg.id = u
  <1>1. SlotFrame /\ thread \in Thread
    BY SlotIs
  <1>2. \/ e.type = "loginSuccess" /\ m.id \in Online /\ UNCHANGED <<msgQueue, usersOnline>>
        \/ /\ e.type = "loginSuccess" /\ m.id \in User
           /\ usersOnline' = [usersOnline EXCEPT ![m.id] = thread] /\ \E x : Pushes(x)
        \/ /\ e.type = "userOffline"
           /\ usersOnline' = [u \in User |-> IF u = m.id THEN Nobody ELSE usersOnline[u]]
           /\ \E x : Pushes(x)
        \/ e.type \in Requests /\ UNCHANGED usersOnline /\ \E x : Pushes(x)
    BY SlotIs DEF Requests
  <1>3. UNCHANGED <<worker, user, inbox, tried>>
    BY <1>1 DEF SlotFrame, clientVars
  <1>4. /\ Len(events) \in Nat /\ 1 \in 1 .. Len(events) /\ Len(events') = Len(events) - 1
        /\ \A i \in 1 .. Len(events') : /\ i \in Int /\ i + 1 \in 1 .. Len(events) /\ i + 1 # 1
                                        /\ events'[i] = events[i + 1]
        /\ \A i \in 1 .. Len(events) : i # 1 =>
              i - 1 \in 1 .. Len(events') /\ events'[i - 1] = events[i] /\ i - 1 + 1 = i
    BY <1>1, TakenIs
  <1>5. /\ \A s \in Thread : Pending(s)' => Pending(s)
        /\ \A s \in Thread : /\ OneRight(inbox'[s]) /\ OneRight(msgQueue'[s])
                             /\ ~(HasRight(inbox'[s]) /\ HasRight(msgQueue'[s]))
    BY <1>1, <1>2, RightPushed
  <1>6. \A s \in Thread : \A i \in 1 .. Len(events') : LoginAt(i, s)' <=> LoginAt(i + 1, s)
    BY <1>4 DEF LoginAt
  <1>7. \A s \in Thread : \A i, j \in 1 .. Len(events') : LoginAt(i, s)' /\ LoginAt(j, s)' => i = j
    <2>1. ASSUME NEW s \in Thread, NEW i \in 1 .. Len(events'), NEW j \in 1 .. Len(events'),
                 LoginAt(i, s)', LoginAt(j, s)'
          PROVE  i = j
      <3>1. i + 1 = j + 1
        BY <1>4, <1>6, <2>1 DEF LoginInv, OneLogin
      <3>2. i \in Int /\ j \in Int
        BY <1>4
      <3>. QED BY <3>1, <3>2
    <2>. QED BY <2>1
  <1>8. e.type = "loginSuccess" => \A s \in Thread : s = thread => \A i \in 1 .. Len(events') : ~LoginAt(i, s)'
    <2>1. ASSUME e.type = "loginSuccess", NEW s \in Thread, s = thread,
                 NEW i \in 1 .. Len(events'), LoginAt(i, s)'
          PROVE  FALSE
      <3>1. LoginAt(1, s) /\ LoginAt(i + 1, s)
        BY <1>1, <1>6, <2>1 DEF LoginAt
      <3>2. i + 1 = 1
        BY <1>1, <1>4, <3>1 DEF LoginInv, OneLogin
      <3>. QED BY <1>4, <3>2
    <2>. QED BY <2>1
  <1>9. \A i \in 1 .. Len(events') : events'[i].type = "loginSuccess" =>
          /\ user[events'[i].thread] = events'[i].msg.id
          /\ \A u \in User : usersOnline[u] # events'[i].thread
    BY <1>4 DEF LoginInv, OneLogin
  <1>10. \A i \in 1 .. Len(events') : events'[i].type = "loginSuccess" =>
           \A u \in User : usersOnline'[u] # events'[i].thread
    <2>1. usersOnline \in [User -> {Nobody} \cup Thread]
      BY DEF Shape, ServerShape
    <2>2. CASE UNCHANGED usersOnline
      BY <1>9, <2>2
    <2>3. CASE /\ e.type = "loginSuccess" /\ m.id \in User
               /\ usersOnline' = [usersOnline EXCEPT ![m.id] = thread]
      <3>1. ASSUME NEW i \in 1 .. Len(events'), events'[i].type = "loginSuccess", NEW u \in User
            PROVE  usersOnline'[u] # events'[i].thread
        <4>1. events'[i].thread # thread
          BY <1>1, <1>8, <2>3, <3>1 DEF LoginAt
        <4>2. usersOnline'[u] = IF u = m.id THEN thread ELSE usersOnline[u]
          BY <2>1, <2>3
        <4>. QED BY <1>9, <3>1, <4>1, <4>2
      <3>. QED BY <3>1
    <2>4. CASE usersOnline' = [u \in User |-> IF u = m.id THEN Nobody ELSE usersOnline[u]]
      <3>1. \A i \in 1 .. Len(events') : events'[i].thread \in Thread
        BY <1>4 DEF Shape, ServerShape, SaneSignal
      <3>2. Nobody \notin Thread
        BY SizeAssumption DEF Thread, Nobody
      <3>. QED BY <1>9, <2>4, <3>1, <3>2
    <2>. QED BY <1>2, <2>2, <2>3, <2>4
  <1>11. \A u \in User : usersOnline'[u] # Nobody => user[usersOnline'[u]] = u
    <2>1. usersOnline \in [User -> {Nobody} \cup Thread]
      BY DEF Shape, ServerShape
    <2>2. CASE UNCHANGED usersOnline
      BY <2>2 DEF LoginInv, OneLogin
    <2>3. CASE /\ e.type = "loginSuccess" /\ m.id \in User
               /\ usersOnline' = [usersOnline EXCEPT ![m.id] = thread]
      <3>1. user[thread] = m.id
        BY <1>4, <2>3 DEF LoginInv, OneLogin
      <3>2. \A u \in User : usersOnline'[u] = IF u = m.id THEN thread ELSE usersOnline[u]
        BY <2>1, <2>3
      <3>. QED BY <3>1, <3>2 DEF LoginInv, OneLogin
    <2>4. CASE usersOnline' = [u \in User |-> IF u = m.id THEN Nobody ELSE usersOnline[u]]
      BY <2>4 DEF LoginInv, OneLogin
    <2>. QED BY <1>2, <2>2, <2>3, <2>4
  <1>12. OneLogin'
    BY <1>3, <1>5, <1>7, <1>9, <1>10, <1>11 DEF LoginInv, OneLogin
  <1>13. Farewell'
    <2>1. ASSUME NEW i \in 1 .. Len(events'), NEW s \in Thread, LoginAt(i, s)', worker[s] = "ended"
          PROVE  \E j \in i + 1 .. Len(events') :
                    events'[j].type = "userOffline" /\ events'[j].msg.id = events'[i].msg.id
      <3>1. i \in Int /\ i + 1 \in 1 .. Len(events) /\ events'[i] = events[i + 1] /\ LoginAt(i + 1, s)
        BY <1>4, <1>6, <2>1
      <3>2. PICK j \in i + 1 + 1 .. Len(events) : Gone(j, events[i + 1].msg.id)
        BY <2>1, <3>1 DEF LoginInv, Farewell
      <3>3. j \in 1 .. Len(events) /\ j # 1 /\ j - 1 \in i + 1 .. Len(events')
        BY <1>4, <3>1
      <3>4. events'[j - 1] = events[j]
        BY <1>4, <3>3
      <3>5. events'[j - 1].type = "userOffline" /\ events'[j - 1].msg.id = events'[i].msg.id
        BY <3>1, <3>2, <3>4
      <3>. QED BY <3>3, <3>5
    <2>. QED BY <1>3, <2>1 DEF Farewell
  <1>14. NoGhostUsers'
    <2>1. ASSUME NEW u \in User, usersOnline'[u] # Nobody, worker[usersOnline'[u]] = "ended"
          PROVE  \E i \in 1 .. Len(events') : events'[i].type = "userOffline" /\ events'[i].msg.id = u
      <3>1. usersOnline \in [User -> {Nobody} \cup Thread]
        BY DEF Shape, ServerShape
      <3>2. ASSUME NEW i \in 1 .. Len(events), Gone(i, u), i # 1
            PROVE  \E j \in 1 .. Len(events') : events'[j].type = "userOffline" /\ events'[j].msg.id = u
        BY <1>4, <3>2
      <3>3. CASE usersOnline'[u] = usersOnline[u]
        <4>1. PICK i \in 1 .. Len(events) : Gone(i, u)
          BY <2>1, <3>3 DEF LoginInv, NoGhostUsers, Online
        <4>2. i # 1
          <5>1. ASSUME i = 1
                PROVE  FALSE
            <6>1. e.type = "userOffline" /\ m.id = u
              BY <4>1, <5>1
            <6>2. usersOnline'[u] = Nobody
              BY <1>2, <6>1 DEF Requests
            <6>. QED BY <2>1, <6>2
          <5>. QED BY <5>1
        <4>. QED BY <3>2, <4>1, <4>2
      <3>4. CASE usersOnline'[u] # usersOnline[u]
        <4>1. e.type = "loginSuccess" /\ u = m.id /\ usersOnline'[u] = thread
          BY <1>2, <2>1, <3>1, <3>4
        <4>2. LoginAt(1, thread)
          BY <4>1 DEF LoginAt
        <4>3. PICK j \in 1 + 1 .. Len(events) : Gone(j, m.id)
          BY <1>1, <1>4, <2>1, <4>1, <4>2 DEF LoginInv, Farewell
        <4>4. j \in 1 .. Len(events) /\ j # 1
          BY <1>4
        <4>. QED BY <3>2, <4>1, <4>3, <4>4
      <3>. QED BY <3>3, <3>4
    <2>. QED BY <1>3, <2>1 DEF NoGhostUsers, Online
  <1>. QED BY <1>12, <1>13, <1>14 DEF LoginInv

\* A frame is sent.
LEMMA LoginSend ==
  ASSUME Shape, LoginInv, NEW t \in Thread, NEW m, Sane(m), Frame(m), Send(t, m),
         tried' \in [Thread -> BOOLEAN],
         \A s \in Thread : s # t => tried'[s] = tried[s],
         \/ ~Rightly(m) /\ tried'[t] = tried[t]
         \/ Rightly(m) /\ ~tried[t] /\ tried'[t]
  PROVE  LoginInv'
  <1>1. /\ UNCHANGED <<worker, user, msgQueue, events, usersOnline>>
        /\ \A s \in Thread : s # t => inbox'[s] = inbox[s]
        /\ inbox'[t] = inbox[t] \/ inbox'[t] = Append(inbox[t], m)
    BY SendIs DEF Shape, ServerShape
  <1>2. Rightly(m) => ~Pending(t) /\ user[t] = Nobody
    BY DEF LoginInv, OneLogin
  <1>3. /\ HasRight(inbox'[t]) => HasRight(inbox[t]) \/ Rightly(m)
        /\ OneRight(inbox'[t])
        /\ ~(HasRight(inbox'[t]) /\ HasRight(msgQueue[t]))
    <2>1. /\ List(inbox[t]) /\ OneRight(inbox[t])
          /\ ~(HasRight(inbox[t]) /\ HasRight(msgQueue[t]))
      BY QueueLists DEF LoginInv, OneLogin
    <2>2. CASE inbox'[t] = inbox[t]
      BY <2>1, <2>2
    <2>3. CASE inbox'[t] = Append(inbox[t], m)
      BY <1>2, <2>1, <2>3, RightAppend DEF Pending
    <2>. QED BY <1>1, <2>2, <2>3
  <1>4. \A s \in Thread : Pending(s)' => Pending(s) \/ (s = t /\ Rightly(m))
    BY <1>1, <1>3 DEF Pending
  <1>5. \A s \in Thread : ~tried'[s] => user[s] = Nobody /\ ~Pending(s)'
    BY <1>4 DEF LoginInv, OneLogin
  <1>6. \A s \in Thread : Pending(s)' => user[s] = Nobody
    BY <1>2, <1>4 DEF LoginInv, OneLogin
  <1>7. \A s \in Thread : /\ OneRight(inbox'[s]) /\ OneRight(msgQueue[s])
                          /\ ~(HasRight(inbox'[s]) /\ HasRight(msgQueue[s]))
    BY <1>1, <1>3 DEF LoginInv, OneLogin
  <1>8. OneLogin'
    BY <1>1, <1>5, <1>6, <1>7 DEF LoginInv, OneLogin, LoginAt
  <1>9. Farewell' /\ NoGhostUsers'
    BY <1>1 DEF LoginInv, Farewell, LoginAt, NoGhostUsers, Online
  <1>. QED BY <1>8, <1>9 DEF LoginInv

\* What clients send that is no login.
LEMMA LoginClicks ==
  ASSUME Shape, LoginInv, NEW t \in Thread,
         \/ ClickRegister(t)
         \/ AskCreate(t)
         \/ AskSearch(t)
         \/ \E u \in User, right \in BOOLEAN : ClickLogin(t, u, right)
         \/ \E u \in User : Say(t, u)
         \/ \E g \in Group : SayInGroup(t, g)
         \/ \E g \in Group : Join(t, g) \/ Leave(t, g)
  PROVE  LoginInv'
  <1>. tried \in [Thread -> BOOLEAN] /\ <<t, clicks>> \in Payload
    BY DEF Shape, ClientShape, Payload
  <1>1. ASSUME NEW m, Sane(m), Frame(m), Send(t, m), UNCHANGED tried, m.type # "login"
        PROVE  LoginInv'
    BY <1>1, LoginSend DEF Rightly
  <1>2. CASE ClickRegister(t)
    BY <1>1, <1>2, SaneFrames DEF ClickRegister, RegisterUser
  <1>3. CASE AskCreate(t)
    BY <1>1, <1>3, SaneFrames DEF AskCreate, CreateGroup
  <1>4. CASE AskSearch(t)
    BY <1>1, <1>4, SaneFrames DEF AskSearch, SearchGroup
  <1>5. ASSUME NEW u \in User, NEW right \in BOOLEAN, ClickLogin(t, u, right)
        PROVE  LoginInv'
    <2>1. ~tried[t] /\ Send(t, Login(u, right)) /\ tried' = [tried EXCEPT ![t] = right]
      BY <1>5 DEF ClickLogin
    <2>2. Rightly(Login(u, right)) <=> right
      BY DEF Rightly, Login
    <2>3. Sane(Login(u, right)) /\ Frame(Login(u, right))
      BY SaneFrames
    <2>4. /\ tried' \in [Thread -> BOOLEAN] /\ \A s \in Thread : s # t => tried'[s] = tried[s]
          /\ tried'[t] = right
      BY <2>1
    <2>. QED BY <2>1, <2>2, <2>3, <2>4, LoginSend
  <1>6. ASSUME NEW u \in User, Say(t, u)
        PROVE  LoginInv'
    <2>. DEFINE m == SendMsg(host[t], u, <<t, clicks>>)
    <2>1. Sane(m) /\ Frame(m) /\ m.type # "login"
      BY SaneFrames DEF SendMsg
    <2>2. Send(t, m) /\ UNCHANGED tried
      BY <1>6 DEF Say
    <2>. HIDE DEF m
    <2>. QED BY <1>1, <2>1, <2>2
  <1>7. ASSUME NEW g \in Group, SayInGroup(t, g)
        PROVE  LoginInv'
    <2>. DEFINE m == SendGroupMsg(host[t], g, <<t, clicks>>)
    <2>1. Sane(m) /\ Frame(m) /\ m.type # "login"
      BY SaneFrames DEF SendGroupMsg
    <2>2. Send(t, m) /\ UNCHANGED tried
      BY <1>7 DEF SayInGroup
    <2>. HIDE DEF m
    <2>. QED BY <1>1, <2>1, <2>2
  <1>8. ASSUME NEW g \in Group, Join(t, g) \/ Leave(t, g)
        PROVE  LoginInv'
    <2>1. /\ Sane(JoinGroup(g)) /\ Frame(JoinGroup(g)) /\ JoinGroup(g).type # "login"
          /\ Sane(LeaveGroup(g)) /\ Frame(LeaveGroup(g)) /\ LeaveGroup(g).type # "login"
      BY SaneFrames DEF JoinGroup, LeaveGroup
    <2>2. (Send(t, JoinGroup(g)) \/ Send(t, LeaveGroup(g))) /\ UNCHANGED tried
      BY <1>8 DEF Join, Leave
    <2>. QED BY <1>1, <2>1, <2>2
  <1>. QED BY <1>2, <1>3, <1>4, <1>5, <1>6, <1>7, <1>8

\* The initial states: everybody online is on a thread of their own.
LEMMA LoginInit ==
  ASSUME Init
  PROVE  LoginInv
  <1>. DEFINE on == script.online
  <1>1. ServerShape /\ on \in 0 .. Users /\ on <= Threads
    BY InitServer
  <1>2. ServerInit(on, script.made) /\ tried = [t \in Thread |-> t <= on]
    BY DEF Init
  <1>. HIDE DEF on
  <1>3. Users \in Nat /\ Threads \in Nat /\ on \in Nat
    BY <1>1, SizeAssumption
  <1>4. /\ \A t \in Thread : worker[t] = IF t <= on THEN "running" ELSE "none"
        /\ \A t \in Thread : inbox[t] = <<>> /\ msgQueue[t] = <<>>
        /\ \A t \in Thread : user[t] = IF t <= on THEN t ELSE Nobody
        /\ \A u \in User : usersOnline[u] = IF u <= on THEN u ELSE Nobody
        /\ Len(events) = 0
    BY <1>2 DEF ServerInit
  <1>5. \A t \in Thread : ~Pending(t) /\ OneRight(inbox[t]) /\ OneRight(msgQueue[t]) /\ ~HasRight(inbox[t])
    BY <1>4, RightEmpty DEF Pending
  <1>6. \A u \in User : u <= on => u \in Thread
    BY <1>1, <1>3 DEF User, Thread
  <1>7. OneLogin
    <2>1. \A t \in Thread : ~tried[t] => user[t] = Nobody
      BY <1>2, <1>4
    <2>2. \A i \in 1 .. Len(events) : FALSE
      BY <1>4
    <2>3. \A u \in User : usersOnline[u] # Nobody => user[usersOnline[u]] = u
      BY <1>4, <1>6
    <2>. QED BY <1>5, <2>1, <2>2, <2>3 DEF OneLogin
  <1>8. Farewell
    BY <1>4 DEF Farewell
  <1>9. NoGhostUsers
    BY <1>4, <1>6 DEF NoGhostUsers, Online
  <1>. QED BY <1>7, <1>8, <1>9 DEF LoginInv

\* A step keeps it.
LEMMA LoginNext ==
  ASSUME Shape, LoginInv, [Next]_vars
  PROVE  LoginInv'
  <1>1. CASE UNCHANGED vars
    BY <1>1, LoginSame DEF vars, serverVars, clientVars
  <1>2. ASSUME NEW t \in Thread, Start(t)
        PROVE  LoginInv'
    <2>1. UNCHANGED <<user, inbox, msgQueue, events, usersOnline, tried>>
      BY <1>2 DEF Start, guiVars
    <2>2. worker' = [worker EXCEPT ![t] = "running"] /\ worker \in [Thread -> {"none", "running", "ended"}]
      BY <1>2 DEF Start, NewConnection, Shape, ServerShape
    <2>3. \A s \in Thread : worker'[s] = "ended" => worker[s] = "ended"
      BY <2>2
    <2>. QED BY <2>1, <2>3, LoginSame
  <1>3. ASSUME NEW t \in Thread, NEW s \in Thread, Reconnect(t, s)
        PROVE  LoginInv'
    <2>1. /\ worker' = [worker EXCEPT ![s] = "running"]
          /\ UNCHANGED <<user, inbox, msgQueue, events, usersOnline, tried>>
      BY <1>3, ReconnectIs
    <2>2. \A r \in Thread : worker'[r] = "ended" => worker[r] = "ended"
      BY <2>1 DEF Shape, ServerShape
    <2>. QED BY <2>1, <2>2, LoginSame
  <1>4. ASSUME NEW t \in Thread,
               \/ \E u \in User : OpenChat(t, u)
               \/ \E d \in {"create", "search"} : CloseAsking(t, d)
               \/ \E n \in 1 .. Len(out[t]) : LoginReads(t, n)
               \/ MainReads(t)
               \/ MainCrashes(t)
               \/ \E w \in {"login", "main", "closed"} : Break(t, w)
        PROVE  LoginInv'
    <2>1. UNCHANGED <<worker, user, inbox, msgQueue, events, usersOnline, tried>>
      BY <1>4 DEF OpenChat, CloseAsking, LoginReads, MainReads, MainCrashes, Break, serverVars, guiVars
    <2>. QED BY <2>1, LoginSame
  <1>5. CASE Next
    BY <1>2, <1>3, <1>4, <1>5, StepIs, LoginReadFrames, LoginDeal, LoginEnds, LoginSlot, LoginClicks
  <1>. QED BY <1>1, <1>5

\* Nobody stays online on a connection that is gone: the signal that takes the user
\* offline is on its way (NetWorkThread::run, MainWindow::userOffline).  A thread's user
\* is set before MainWindow hears of the login, so a thread that ends in between sends
\* its farewell behind the login.
THEOREM SpecNoGhostUsers == Spec => []NoGhostUsers
  <1>1. Init => Shape /\ LoginInv
    BY ShapeInit, LoginInit
  <1>2. Shape /\ LoginInv /\ [Next]_vars => (Shape /\ LoginInv)'
    BY ShapeNext, LoginNext
  <1>3. LoginInv => NoGhostUsers
    BY DEF LoginInv
  <1>. QED BY <1>1, <1>2, <1>3, PTL DEF Spec

=============================================================================
