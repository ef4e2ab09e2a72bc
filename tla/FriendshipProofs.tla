-------------------------- MODULE FriendshipProofs --------------------------
(***************************************************************************)
(* The invariants of Friendship for any set of users and queues of any     *)
(* length.  OneLiveRow is inductive by itself.  FriendsAgree speaks of an  *)
(* empty queue only; what makes it true is Told, which says of a queue of  *)
(* any length that the last notice about a user decides, for as long as    *)
(* the client is followed: notices are routed to the session it is at.     *)
(* Only a login over that session starts this, and it lists the friends;   *)
(* a reconnection ends it, because no route names a fresh session.         *)
(***************************************************************************)
EXTENDS Friendship, TLAPS

\* The notice n settles whether its receiver shows v as a friend, and how.
About(n, v) == n.kind = "login" \/ (n.kind \in {"accepted", "removed"} /\ n.peer = v)
Says(n, v)  == IF n.kind = "login" THEN v \in n.friends ELSE n.kind = "accepted"

\* What the client of w shows of v once it has taken the queue q: the last
\* notice about v, or else the store fr of a signed-in client, says whether v
\* is in F.
Settles(q, fr, signed, w, v, F) ==
    /\ \A i \in 1 .. Len(q) :
         (About(q[i], v) /\ \A j \in (i + 1) .. Len(q) : ~About(q[j], v))
            => (Says(q[i], v) <=> v \in F)
    /\ (w \in signed /\ \A i \in 1 .. Len(q) : ~About(q[i], v)) => (v \in fr <=> v \in F)

\* The clients that are told of every change of their friends.
Followed == {w \in User : route[w] = here[w] /\ w \notin behind}

Told ==
    \A w \in Followed : \A v \in User \ {w} :
        Settles(down[w], friends[w], signedIn, w, v, FriendsOf(w))

\* q may be on its way to w: w is not told about himself.
Fit(q, w) ==
    /\ q \in Seq(Notice)
    /\ \A i \in 1 .. Len(q) :
         IF q[i].kind = "login" THEN w \notin q[i].friends ELSE q[i].peer # w

Addressed == \A w \in User : Fit(down[w], w) /\ w \notin friends[w]

\* A route names an authenticated session of the pool.
Routed == \A w \in User : route[w] # NoSession => route[w] \in pool[w] \cap auth[w]

IInv == TypeOK /\ OneLiveRow /\ Routed /\ Addressed /\ Told

USE BoundsAssumption, SessionAssumption

-----------------------------------------------------------------------------
(* A notice about somebody else, put behind the queue, settles nothing.    *)
LEMMA AppendOther ==
    ASSUME NEW q \in Seq(Notice), NEW n \in Notice, NEW fr, NEW signed, NEW w, NEW v, NEW F,
           Settles(q, fr, signed, w, v, F), ~About(n, v)
    PROVE  Settles(q \o <<n>>, fr, signed, w, v, F)
<1> DEFINE r == q \o <<n>>
<1>1. Len(r) = Len(q) + 1 /\ r[Len(q) + 1] = n /\ \A i \in 1 .. Len(q) : r[i] = q[i]
  OBVIOUS
<1>2. Len(q) \in Nat
  OBVIOUS
<1> HIDE DEF r
<1>3. ASSUME NEW i \in 1 .. Len(r), About(r[i], v), \A j \in (i + 1) .. Len(r) : ~About(r[j], v)
      PROVE  Says(r[i], v) <=> v \in F
  <2>1. i \in 1 .. Len(q)
    BY <1>1, <1>2, <1>3
  <2>2. \A j \in (i + 1) .. Len(q) : ~About(q[j], v)
    BY <1>1, <1>2, <1>3, <2>1
  <2>. QED BY <1>1, <1>3, <2>1, <2>2 DEF Settles
<1>4. ASSUME w \in signed, \A i \in 1 .. Len(r) : ~About(r[i], v)
      PROVE  v \in fr <=> v \in F
  <2>1. \A i \in 1 .. Len(q) : ~About(q[i], v)
    BY <1>1, <1>2, <1>4
  <2>. QED BY <1>4, <2>1 DEF Settles
<1>5. Settles(r, fr, signed, w, v, F)
  BY <1>3, <1>4 DEF Settles
<1>. QED BY <1>5 DEF r

(* A true notice about v, put behind any queue, settles it.                *)
LEMMA AppendAbout ==
    ASSUME NEW q \in Seq(Notice), NEW n \in Notice, NEW fr, NEW signed, NEW w, NEW v, NEW F,
           About(n, v), Says(n, v) <=> v \in F
    PROVE  Settles(q \o <<n>>, fr, signed, w, v, F)
<1> DEFINE r == q \o <<n>>
<1>1. Len(r) = Len(q) + 1 /\ r[Len(q) + 1] = n /\ Len(q) \in Nat
  OBVIOUS
<1> HIDE DEF r
<1>2. ASSUME NEW i \in 1 .. Len(r), \A j \in (i + 1) .. Len(r) : ~About(r[j], v)
      PROVE  i = Len(r)
  BY <1>1, <1>2
<1>3. Settles(r, fr, signed, w, v, F)
  BY <1>1, <1>2 DEF Settles
<1>. QED BY <1>3 DEF r

(* The client takes the head of the queue: if it is about v the store now  *)
(* says what the notice said.                                              *)
LEMMA TakeHead ==
    ASSUME NEW q \in Seq(Notice), q # <<>>, NEW fr, NEW fr2, NEW signed, NEW signed2,
           NEW w, NEW v, NEW F,
           Settles(q, fr, signed, w, v, F),
           About(Head(q), v) => (v \in fr2 <=> Says(Head(q), v)),
           ~About(Head(q), v) => (v \in fr2 <=> v \in fr) /\ (w \in signed2 => w \in signed)
    PROVE  Settles(Tail(q), fr2, signed2, w, v, F)
<1> DEFINE r == Tail(q)
<1>1. /\ Len(q) \in Nat \ {0} /\ Len(r) = Len(q) - 1 /\ Head(q) = q[1]
      /\ \A i \in 1 .. Len(r) : r[i] = q[i + 1]
  OBVIOUS
<1> HIDE DEF r
<1>2. \A j \in 2 .. Len(q) : j - 1 \in 1 .. Len(r) /\ q[j] = r[j - 1]
  BY <1>1
<1>3. ASSUME NEW i \in 1 .. Len(r), About(r[i], v), \A j \in (i + 1) .. Len(r) : ~About(r[j], v)
      PROVE  Says(r[i], v) <=> v \in F
  <2>1. i + 1 \in 1 .. Len(q) /\ r[i] = q[i + 1]
    BY <1>1
  <2>2. ASSUME NEW j \in (i + 2) .. Len(q) PROVE ~About(q[j], v)
    <3>1. j \in 2 .. Len(q) /\ j - 1 \in (i + 1) .. Len(r)
      BY <1>1
    <3>. QED BY <1>2, <1>3, <3>1
  <2>3. (i + 1) + 1 = i + 2
    OBVIOUS
  <2>. QED BY <1>3, <2>1, <2>2, <2>3 DEF Settles
<1>4. ASSUME w \in signed2, \A i \in 1 .. Len(r) : ~About(r[i], v)
      PROVE  v \in fr2 <=> v \in F
  <2>1. \A j \in 2 .. Len(q) : ~About(q[j], v)
    BY <1>2, <1>4
  <2>2. CASE About(Head(q), v)
    <3>1. 1 \in 1 .. Len(q) /\ \A j \in (1 + 1) .. Len(q) : ~About(q[j], v)
      BY <1>1, <2>1
    <3>2. Says(q[1], v) <=> v \in F
      BY <1>1, <2>2, <3>1 DEF Settles
    <3>. QED BY <1>1, <2>2, <3>2
  <2>3. CASE ~About(Head(q), v)
    <3>1. \A i \in 1 .. Len(q) : ~About(q[i], v)
      BY <1>1, <2>1, <2>3
    <3>. QED BY <1>4, <2>3, <3>1 DEF Settles
  <2>. QED BY <2>2, <2>3
<1>5. Settles(r, fr2, signed2, w, v, F)
  BY <1>3, <1>4 DEF Settles
<1>. QED BY <1>5 DEF r

(* Put behind the queue of a user, a notice about another user keeps the   *)
(* queue fit.                                                              *)
LEMMA AppendFit ==
    ASSUME NEW q, NEW w, Fit(q, w), NEW n \in Notice,
           IF n.kind = "login" THEN w \notin n.friends ELSE n.peer # w
    PROVE  Fit(q \o <<n>>, w)
<1> DEFINE r == q \o <<n>>
<1>0. q \in Seq(Notice) /\ Len(q) \in Nat
  BY DEF Fit
<1>1. /\ r \in Seq(Notice) /\ Len(r) = Len(q) + 1 /\ r[Len(q) + 1] = n
      /\ \A i \in 1 .. Len(q) : r[i] = q[i]
  BY <1>0
<1> HIDE DEF r
<1>2. ASSUME NEW i \in 1 .. Len(r)
      PROVE  IF r[i].kind = "login" THEN w \notin r[i].friends ELSE r[i].peer # w
  <2>1. CASE i \in 1 .. Len(q)
    BY <1>1, <2>1 DEF Fit
  <2>2. CASE i = Len(q) + 1
    BY <1>1, <2>2
  <2>. QED BY <1>0, <1>1, <2>1, <2>2
<1>3. Fit(r, w)
  BY <1>1, <1>2 DEF Fit
<1>. QED BY <1>3 DEF r

-----------------------------------------------------------------------------
(* The queue of one user, in a step that sends him nothing and changes     *)
(* none of his friends.                                                    *)
LEMMA QueueKept ==
    ASSUME Addressed, Told, NEW w \in User, down'[w] = down[w], w \in Followed' => w \in Followed,
           \A x \in User \ {w} : x \in FriendsOf(w)' <=> x \in FriendsOf(w)
    PROVE  /\ Fit(down'[w], w)
           /\ w \in Followed' => \A x \in User \ {w} :
                Settles(down'[w], friends[w], signedIn, w, x, FriendsOf(w)')
<1>1. Fit(down'[w], w)
  BY DEF Addressed
<1>2. ASSUME w \in Followed', NEW x \in User \ {w}
      PROVE  Settles(down'[w], friends[w], signedIn, w, x, FriendsOf(w)')
  <2>1. Settles(down[w], friends[w], signedIn, w, x, FriendsOf(w))
    BY <1>2 DEF Told
  <2>2. x \in FriendsOf(w)' <=> x \in FriendsOf(w)
    OBVIOUS
  <2>. QED BY <2>1, <2>2 DEF Settles
<1>. QED BY <1>1, <1>2

(* The queue of one user, in a step that sends him a true notice about y   *)
(* over s and changes none of his other friends: if he is still followed,  *)
(* the notice reaches him.                                                 *)
LEMMA QueueTold ==
    ASSUME Addressed, Told, NEW w \in User, NEW y \in User \ {w}, NEW s,
           NEW k \in {"request", "accepted", "removed"},
           down'[w] = down[w] \o Send(w, s, k, y),
           w \in Followed' => w \in Followed /\ Reaches(w, s),
           \A x \in User \ {w, y} : x \in FriendsOf(w)' <=> x \in FriendsOf(w),
           k = "request" => (y \in FriendsOf(w)' <=> y \in FriendsOf(w)),
           k # "request" => (y \in FriendsOf(w)' <=> k = "accepted")
    PROVE  /\ Fit(down'[w], w)
           /\ w \in Followed' => \A x \in User \ {w} :
                Settles(down'[w], friends[w], signedIn, w, x, FriendsOf(w)')
<1> DEFINE n == [kind |-> k, peer |-> y]
<1>0. Fit(down[w], w)
  BY DEF Addressed
<1>1. CASE ~Reaches(w, s)
  <2>1. down'[w] = down[w]
    BY <1>0, <1>1 DEF Fit, Send
  <2>. QED BY <1>0, <1>1, <2>1
<1>2. CASE Reaches(w, s)
  <2>1. down'[w] = down[w] \o <<n>> /\ down[w] \in Seq(Notice)
    BY <1>0, <1>2 DEF Send, Fit
  <2>2. n \in Notice /\ n.kind = k /\ n.peer = y
    BY DEF Notice
  <2> HIDE DEF n
  <2>3. Fit(down'[w], w)
    <3>1. Fit(down[w] \o <<n>>, w)
      BY <1>0, <2>2, AppendFit
    <3>. QED BY <2>1, <3>1
  <2>4. ASSUME w \in Followed', NEW x \in User \ {w}
        PROVE  Settles(down'[w], friends[w], signedIn, w, x, FriendsOf(w)')
    <3>1. CASE About(n, x)
      <4>1. x = y /\ k # "request" /\ (Says(n, x) <=> k = "accepted")
        BY <2>2, <3>1 DEF About, Says
      <4>2. Says(n, x) <=> x \in FriendsOf(w)'
        BY <4>1
      <4>3. Settles(down[w] \o <<n>>, friends[w], signedIn, w, x, FriendsOf(w)')
        BY <2>1, <2>2, <3>1, <4>2, AppendAbout
      <4>. QED BY <2>1, <4>3
    <3>2. CASE ~About(n, x)
      <4>1. x \in FriendsOf(w)' <=> x \in FriendsOf(w)
        BY <2>2, <3>2 DEF About
      <4>2. Settles(down[w], friends[w], signedIn, w, x, FriendsOf(w))
        BY <2>4 DEF Told
      <4>3. Settles(down[w], friends[w], signedIn, w, x, FriendsOf(w)')
        BY <4>1, <4>2 DEF Settles
      <4>4. Settles(down[w] \o <<n>>, friends[w], signedIn, w, x, FriendsOf(w)')
        BY <2>1, <2>2, <3>2, <4>3, AppendOther
      <4>. QED BY <2>1, <4>4
    <3>. QED BY <3>1, <3>2
  <2>. QED BY <2>3, <2>4
<1>. QED BY <1>1, <1>2

(* If that holds of every queue, Addressed and Told are kept.              *)
LEMMA AllQueues ==
    ASSUME TypeOK, Addressed, UNCHANGED <<signedIn, friends>>,
           DOMAIN down' = User, down' = [w \in User |-> down'[w]],
           \A w \in User :
             /\ Fit(down'[w], w)
             /\ w \in Followed' => \A x \in User \ {w} :
                  Settles(down'[w], friends[w], signedIn, w, x, FriendsOf(w)')
    PROVE  down' \in [User -> Seq(Notice)] /\ Addressed' /\ Told'
<1>1. \A w \in User : down'[w] \in Seq(Notice)
  BY DEF Fit
<1>2. down' \in [User -> Seq(Notice)]
  BY <1>1
<1>3. Addressed'
  BY DEF Addressed
<1>4. Told'
  <2>1. Followed' \subseteq User
    BY DEF Followed
  <2>. QED BY <2>1 DEF Told
<1>. QED BY <1>2, <1>3, <1>4

(* A user who is routed to the session he is at gets what is sent there;   *)
(* so findByUserId reaches every followed user.                            *)
LEMMA RoutedReaches ==
    ASSUME TypeOK, Routed, NEW w \in User, route[w] = here[w]
    PROVE  Reaches(w, here[w])
<1>1. here[w] \in Session
  BY DEF TypeOK
<1>. QED BY <1>1 DEF Routed, Reaches

(* A step in which the row of u and v ends up accepted or not, and both    *)
(* are told so, u over the session s it came from, keeps every client on   *)
(* the way to the truth.                                                   *)
LEMMA BothTold ==
    ASSUME TypeOK, Routed, Addressed, Told, NEW u \in User, NEW v \in User \ {u}, NEW s,
           NEW k \in {"accepted", "removed"},
           \A p \in Pair \ {<<u, v>>, <<v, u>>} : row'[p] = row[p],
           (row'[<<u, v>>] = "accepted" \/ row'[<<v, u>>] = "accepted") <=> k = "accepted",
           down' = [down EXCEPT ![u] = @ \o Send(u, s, k, v), ![v] = @ \o Notify(v, k, u)],
           behind' = MissedBy(u, s),
           UNCHANGED <<route, here, signedIn, friends>>
    PROVE  down' \in [User -> Seq(Notice)] /\ Addressed' /\ Told'
<1>1. down \in [User -> Seq(Notice)]
  BY DEF TypeOK
<1>2. /\ down'[u] = down[u] \o Send(u, s, k, v)
      /\ down'[v] = down[v] \o Send(v, route[v], k, u)
      /\ \A w \in User \ {u, v} : down'[w] = down[w]
      /\ DOMAIN down' = User /\ down' = [w \in User |-> down'[w]]
  BY <1>1 DEF Notify
<1>3. ASSUME NEW w \in User, NEW x \in User \ {w}, {w, x} # {u, v}
      PROVE  x \in FriendsOf(w)' <=> x \in FriendsOf(w)
  <2>1. <<w, x>> \in Pair \ {<<u, v>>, <<v, u>>} /\ <<x, w>> \in Pair \ {<<u, v>>, <<v, u>>}
    BY <1>3 DEF Pair
  <2>. QED BY <2>1 DEF FriendsOf
<1>4. (v \in FriendsOf(u)' <=> k = "accepted") /\ (u \in FriendsOf(v)' <=> k = "accepted")
  BY DEF FriendsOf
<1>5. \A w \in Followed' : w \in Followed /\ Reaches(w, route[w]) /\ (w = u => s = here[w] /\ route[w] = here[w])
  <2> SUFFICES ASSUME NEW w \in Followed'
               PROVE  w \in Followed /\ Reaches(w, route[w]) /\ (w = u => s = here[w] /\ route[w] = here[w])
    OBVIOUS
  <2>1. w \in User /\ route[w] = here[w] /\ w \notin behind'
    BY DEF Followed
  <2>2. w \notin behind /\ (w = u => s = here[w])
    BY <2>1 DEF MissedBy
  <2>3. Reaches(w, here[w])
    BY <2>1, RoutedReaches
  <2>. QED BY <2>1, <2>2, <2>3 DEF Followed
<1>6. ASSUME NEW w \in User
      PROVE  /\ Fit(down'[w], w)
             /\ w \in Followed' => \A x \in User \ {w} :
                  Settles(down'[w], friends[w], signedIn, w, x, FriendsOf(w)')
  <2>1. CASE w = u
    <3>1. \A x \in User \ {u, v} : x \in FriendsOf(u)' <=> x \in FriendsOf(u)
      BY <1>3
    <3>2. u \in Followed' => u \in Followed /\ Reaches(u, s)
      BY <1>5
    <3>. QED BY <1>2, <1>4, <2>1, <3>1, <3>2, QueueTold
  <2>2. CASE w = v
    <3>1. \A x \in User \ {v, u} : x \in FriendsOf(v)' <=> x \in FriendsOf(v)
      BY <1>3
    <3>2. v \in Followed' => v \in Followed /\ Reaches(v, route[v])
      BY <1>5
    <3>3. down'[v] = down[v] \o Send(v, route[v], k, u)
      BY <1>2
    <3>4. u \in FriendsOf(v)' <=> k = "accepted"
      BY <1>4
    <3>5. /\ Fit(down'[v], v)
          /\ v \in Followed' => \A x \in User \ {v} :
               Settles(down'[v], friends[v], signedIn, v, x, FriendsOf(v)')
      BY <3>1, <3>2, <3>3, <3>4, QueueTold
    <3>. QED BY <2>2, <3>5
  <2>3. CASE w \notin {u, v}
    <3>1. \A x \in User \ {w} : x \in FriendsOf(w)' <=> x \in FriendsOf(w)
      BY <1>3, <2>3
    <3>. QED BY <1>2, <1>5, <2>3, <3>1, QueueKept
  <2>. QED BY <2>1, <2>2, <2>3
<1>. QED BY <1>2, <1>6, AllQueues

(* A step that leaves the accepted rows alone and at most sends v a notice *)
(* of a request keeps every client on the way to the truth.                *)
LEMMA RequestTold ==
    ASSUME TypeOK, Routed, Addressed, Told, NEW u \in User, NEW v \in User \ {u},
           \A w \in User : \A x \in User \ {w} : x \in FriendsOf(w)' <=> x \in FriendsOf(w),
           \/ down' = down
           \/ down' = [down EXCEPT ![v] = @ \o Notify(v, "request", u)],
           UNCHANGED <<route, here, behind, signedIn, friends>>
    PROVE  down' \in [User -> Seq(Notice)] /\ Addressed' /\ Told'
<1>1. down \in [User -> Seq(Notice)]
  BY DEF TypeOK
<1>2. /\ down'[v] = down[v] \/ down'[v] = down[v] \o Send(v, route[v], "request", u)
      /\ \A w \in User \ {v} : down'[w] = down[w]
      /\ DOMAIN down' = User /\ down' = [w \in User |-> down'[w]]
  BY <1>1 DEF Notify
<1>3. Followed' = Followed
  BY DEF Followed
<1>4. ASSUME NEW w \in User
      PROVE  /\ Fit(down'[w], w)
             /\ w \in Followed' => \A x \in User \ {w} :
                  Settles(down'[w], friends[w], signedIn, w, x, FriendsOf(w)')
  <2>1. CASE down'[w] = down[w]
    BY <1>3, <2>1, QueueKept
  <2>2. CASE w = v /\ down'[w] = down[w] \o Send(v, route[v], "request", u)
    <3>1. v \in Followed' => v \in Followed /\ Reaches(v, route[v])
      BY <1>3, RoutedReaches DEF Followed
    <3>. QED BY <2>2, <3>1, QueueTold
  <2>. QED BY <1>2, <2>1, <2>2
<1>. QED BY <1>2, <1>4, AllQueues

-----------------------------------------------------------------------------
(* Taking a frame of a session keeps the type of the queues.               *)
LEMMA TakeFrameType ==
    ASSUME TypeOK, NEW u \in User, NEW s \in Session, TakeFrame(u, s)
    PROVE  up' \in [User -> [Session -> Seq(Request)]]
<1>1. up \in [User -> [Session -> Seq(Request)]] /\ up[u] \in [Session -> Seq(Request)]
      /\ up[u][s] \in Seq(Request) /\ up[u][s] # <<>>
  BY DEF TypeOK, TakeFrame
<1>2. Tail(up[u][s]) \in Seq(Request)
  BY <1>1
<1>3. up' = [up EXCEPT ![u][s] = Tail(up[u][s])]
  BY DEF TakeFrame
<1>. QED BY <1>1, <1>2, <1>3

(* Joining the users whose notices went elsewhere keeps the type.          *)
LEMMA MissedType ==
    ASSUME TypeOK, NEW u \in User, NEW s
    PROVE  MissedBy(u, s) \in SUBSET User
BY DEF MissedBy, TypeOK

(* handleFriendRequest keeps the invariant.                                *)
LEMMA RequestKeeps ==
    ASSUME IInv, NEW u \in User, NEW s \in Session, NEW v \in User \ {u}, HandleFriendRequest(u, s, v)
    PROVE  IInv'
<1>0. TypeOK /\ OneLiveRow /\ Routed /\ Addressed /\ Told /\ row \in [Pair -> Status]
  BY DEF IInv, TypeOK
<1>1. <<u, v>> \in Pair /\ <<v, u>> \in Pair /\ Rev(<<u, v>>) = <<v, u>> /\ Rev(<<v, u>>) = <<u, v>>
  BY DEF Pair, Rev
<1>2. PICK outcome \in SendRequestOutcomes(<<u, v>>) :
        /\ row' = IF outcome = "insert" THEN [row EXCEPT ![<<u, v>>] = "pending"] ELSE row
        /\ down' = IF outcome = "refuse" THEN down
                   ELSE [down EXCEPT ![v] = @ \o Notify(v, "request", u)]
  BY DEF HandleFriendRequest
<1>3. outcome = "insert" => row[<<u, v>>] = "none" /\ row[<<v, u>>] \in {"none", "rejected"}
  BY <1>0, <1>1, <1>2 DEF SendRequestOutcomes, OnExisting
<1>4. row' \in [Pair -> Status]
  BY <1>0, <1>1, <1>2 DEF Status
<1>5. OneLiveRow'
  BY <1>0, <1>1, <1>2, <1>3 DEF OneLiveRow, Rev, Pair, Status
<1>6. \A w \in User : \A x \in User \ {w} : x \in FriendsOf(w)' <=> x \in FriendsOf(w)
  <2> SUFFICES ASSUME NEW w \in User, NEW x \in User \ {w}
               PROVE  x \in FriendsOf(w)' <=> x \in FriendsOf(w)
    OBVIOUS
  <2>1. <<w, x>> \in Pair /\ <<x, w>> \in Pair
    BY DEF Pair
  <2>2. \A p \in Pair : row'[p] = "accepted" <=> row[p] = "accepted"
    BY <1>0, <1>1, <1>2, <1>3
  <2>. QED BY <2>1, <2>2 DEF FriendsOf
<1>7. UNCHANGED <<pool, auth, route, here, signedIn, friends, requests, behind>>
  BY DEF HandleFriendRequest, sessionVars, clientVars
<1>8. down' \in [User -> Seq(Notice)] /\ Addressed' /\ Told'
  BY <1>0, <1>2, <1>6, <1>7, RequestTold
<1>9. up' \in [User -> [Session -> Seq(Request)]]
  BY <1>0, TakeFrameType DEF HandleFriendRequest, Takes
<1>10. TypeOK' /\ Routed'
  BY <1>0, <1>4, <1>7, <1>8, <1>9 DEF TypeOK, Routed
<1>. QED BY <1>5, <1>8, <1>10 DEF IInv

(* handleFriendAccept keeps the invariant.                                 *)
LEMMA AcceptKeeps ==
    ASSUME IInv, NEW u \in User, NEW s \in Session, NEW v \in User \ {u}, HandleFriendAccept(u, s, v)
    PROVE  IInv'
<1>0. TypeOK /\ OneLiveRow /\ Routed /\ Addressed /\ Told /\ row \in [Pair -> Status]
  BY DEF IInv, TypeOK
<1>1. <<u, v>> \in Pair /\ <<v, u>> \in Pair /\ Rev(<<u, v>>) = <<v, u>> /\ Rev(<<v, u>>) = <<u, v>>
  BY DEF Pair, Rev
<1>2. /\ row' = IF row[<<v, u>>] = "pending" THEN [row EXCEPT ![<<v, u>>] = "accepted"] ELSE row
      /\ row[<<v, u>>] = "pending" =>
           /\ down' = [down EXCEPT ![u] = @ \o Send(u, s, "accepted", v),
                                   ![v] = @ \o Notify(v, "accepted", u)]
           /\ behind' = MissedBy(u, s)
      /\ row[<<v, u>>] # "pending" => down' = down /\ behind' = behind
      /\ UNCHANGED <<pool, auth, route, here, signedIn, friends, requests>>
  BY DEF HandleFriendAccept, SetStatus, sessionVars, clientVars
<1>3. row' \in [Pair -> Status]
  BY <1>0, <1>1, <1>2 DEF Status
<1>4. OneLiveRow'
  BY <1>0, <1>1, <1>2 DEF OneLiveRow, Rev, Pair, Status
<1>5. down' \in [User -> Seq(Notice)] /\ Addressed' /\ Told'
  <2>1. CASE row[<<v, u>>] = "pending"
    <3>1. \A p \in Pair \ {<<u, v>>, <<v, u>>} : row'[p] = row[p]
      BY <1>0, <1>2
    <3>2. (row'[<<u, v>>] = "accepted" \/ row'[<<v, u>>] = "accepted") <=> "accepted" = "accepted"
      BY <1>0, <1>1, <1>2, <2>1
    <3>. QED BY <1>0, <1>2, <2>1, <3>1, <3>2, BothTold
  <2>2. CASE row[<<v, u>>] # "pending"
    <3>1. \A w \in User : \A x \in User \ {w} : x \in FriendsOf(w)' <=> x \in FriendsOf(w)
      BY <1>2, <2>2 DEF FriendsOf
    <3>. QED BY <1>0, <1>2, <2>2, <3>1, RequestTold
  <2>. QED BY <2>1, <2>2
<1>6. up' \in [User -> [Session -> Seq(Request)]]
  BY <1>0, TakeFrameType DEF HandleFriendAccept, Takes
<1>7. behind' \in SUBSET User
  BY <1>0, <1>2, MissedType DEF TypeOK
<1>8. TypeOK' /\ Routed'
  BY <1>0, <1>2, <1>3, <1>5, <1>6, <1>7 DEF TypeOK, Routed
<1>. QED BY <1>4, <1>5, <1>8 DEF IInv

(* handleFriendRemove, as a rejection or as a removal.                     *)
LEMMA RemoveKeeps ==
    ASSUME IInv, NEW u \in User, NEW s \in Session, NEW v \in User \ {u}, NEW p \in {<<u, v>>, <<v, u>>},
           FriendRemove(u, s, p), up' \in [User -> [Session -> Seq(Request)]],
           UNCHANGED <<pool, auth, route, here, signedIn, friends, requests>>
    PROVE  IInv'
<1>0. TypeOK /\ OneLiveRow /\ Routed /\ Addressed /\ Told /\ row \in [Pair -> Status]
  BY DEF IInv, TypeOK
<1>1. <<u, v>> \in Pair /\ <<v, u>> \in Pair /\ Rev(<<u, v>>) = <<v, u>> /\ Rev(<<v, u>>) = <<u, v>>
  BY DEF Pair, Rev
<1>2. \/ row' = [row EXCEPT ![p] = "rejected"] /\ row[p] = "pending"
      \/ row' = [row EXCEPT ![p] = "none", ![Rev(p)] = "none"]
  BY DEF FriendRemove, SetStatus, RemoveFriendship
<1>3. /\ (row[p] # "none" \/ row[Rev(p)] # "none") =>
           /\ down' = [down EXCEPT ![u] = @ \o Send(u, s, "removed", v),
                                   ![v] = @ \o Notify(v, "removed", u)]
           /\ behind' = MissedBy(u, s)
      /\ ~(row[p] # "none" \/ row[Rev(p)] # "none") => down' = down /\ behind' = behind
  <2>1. CASE p = <<u, v>>
    BY <2>1 DEF FriendRemove
  <2>2. CASE p = <<v, u>>
    BY <2>2 DEF FriendRemove
  <2>. QED BY <2>1, <2>2
<1>4. row' \in [Pair -> Status]
  BY <1>0, <1>1, <1>2 DEF Status
<1>5. \A q \in Pair \ {<<u, v>>, <<v, u>>} : row'[q] = row[q]
  BY <1>0, <1>1, <1>2
<1>6. row'[p] \in {"none", "rejected"} /\ row'[Rev(p)] \in {"none", "rejected"}
  BY <1>0, <1>1, <1>2 DEF OneLiveRow
<1>7. OneLiveRow'
  <2> SUFFICES ASSUME NEW q \in Pair, row'[q] \in {"pending", "accepted"}
               PROVE  row'[Rev(q)] \in {"none", "rejected"}
    BY DEF OneLiveRow
  <2>1. q \notin {<<u, v>>, <<v, u>>}
    BY <1>1, <1>6
  <2>2. Rev(q) \in Pair \ {<<u, v>>, <<v, u>>}
    BY <2>1 DEF Rev, Pair
  <2>. QED BY <1>0, <1>5, <2>1, <2>2 DEF OneLiveRow
<1>8. down' \in [User -> Seq(Notice)] /\ Addressed' /\ Told'
  <2>1. CASE row[p] # "none" \/ row[Rev(p)] # "none"
    <3>1. (row'[<<u, v>>] = "accepted" \/ row'[<<v, u>>] = "accepted") <=> "removed" = "accepted"
      BY <1>1, <1>6
    <3>. QED BY <1>0, <1>3, <1>5, <2>1, <3>1, BothTold
  <2>2. CASE ~(row[p] # "none" \/ row[Rev(p)] # "none")
    <3>1. row' = row
      BY <1>0, <1>1, <1>2, <2>2
    <3>2. \A w \in User : \A x \in User \ {w} : x \in FriendsOf(w)' <=> x \in FriendsOf(w)
      BY <3>1 DEF FriendsOf
    <3>. QED BY <1>0, <1>3, <2>2, <3>2, RequestTold
  <2>. QED BY <2>1, <2>2
<1>9. behind' \in SUBSET User
  <2>1. behind' = MissedBy(u, s) \/ behind' = behind
    BY <1>3
  <2>. QED BY <1>0, <2>1, MissedType DEF TypeOK
<1>10. TypeOK' /\ Routed'
  BY <1>0, <1>4, <1>8, <1>9 DEF TypeOK, Routed
<1>. QED BY <1>7, <1>8, <1>10 DEF IInv

(* handleLogin keeps the invariant: whoever is followed afterwards was so  *)
(* before, or has just been sent the list of his friends.                  *)
LEMMA LoginKeeps ==
    ASSUME IInv, NEW u \in User, NEW s \in Session, HandleLogin(u, s)
    PROVE  IInv'
<1> DEFINE n == [kind |-> "login", friends |-> FriendsOf(u)]
<1>0. TypeOK /\ OneLiveRow /\ Routed /\ Addressed /\ Told /\ down \in [User -> Seq(Notice)]
  BY DEF IInv, TypeOK
<1>1. n \in Notice /\ n.kind = "login" /\ n.friends = FriendsOf(u) /\ u \notin FriendsOf(u)
  BY DEF Notice, FriendsOf
<1>2. UNCHANGED <<row, pool, here, signedIn, friends, requests>>
  BY DEF HandleLogin, clientVars
<1>3. /\ s \in pool[u] => auth' = [auth EXCEPT ![u] = @ \cup {s}] /\ route' = [route EXCEPT ![u] = s]
      /\ s \notin pool[u] => auth' = auth /\ route' = route
  BY DEF HandleLogin
<1>4. /\ Reaches(u, s) => down' = [down EXCEPT ![u] = Append(@, n)] /\ behind' = behind \ {u}
      /\ ~Reaches(u, s) => down' = down /\ behind' = behind
  BY DEF HandleLogin
<1> HIDE DEF n
<1>5. /\ Reaches(u, s) => down'[u] = down[u] \o <<n>>
      /\ ~Reaches(u, s) => down'[u] = down[u]
      /\ down[u] \in Seq(Notice)
      /\ \A w \in User \ {u} : down'[w] = down[w]
      /\ down' \in [User -> Seq(Notice)]
  <2>1. CASE Reaches(u, s)
    <3>1. down' = [down EXCEPT ![u] = Append(down[u], n)]
      BY <1>4, <2>1
    <3>2. down[u] \in Seq(Notice) /\ Append(down[u], n) = down[u] \o <<n>>
          /\ Append(down[u], n) \in Seq(Notice)
      <4>1. down[u] \in Seq(Notice)
        BY <1>0
      <4>2. n \in Notice
        BY <1>1
      <4>. QED BY <4>1, <4>2
    <3>. QED BY <1>0, <2>1, <3>1, <3>2
  <2>2. CASE ~Reaches(u, s)
    BY <1>0, <1>4, <2>2
  <2>. QED BY <2>1, <2>2
<1>6. \A w \in User : FriendsOf(w)' = FriendsOf(w)
  BY <1>2 DEF FriendsOf
<1>7. Addressed'
  <2>1. Fit(down[u] \o <<n>>, u)
    BY <1>0, <1>1, AppendFit DEF Addressed
  <2>2. \A w \in User : Fit(down'[w], w) /\ w \notin friends'[w]
    BY <1>0, <1>2, <1>5, <2>1 DEF Addressed
  <2>. QED BY <2>2 DEF Addressed
<1>8. Routed'
  <2>1. route \in [User -> Session \cup {NoSession}] /\ auth \in [User -> SUBSET Session]
    BY <1>0 DEF TypeOK
  <2>2. CASE s \in pool[u]
    BY <1>0, <1>2, <1>3, <2>1, <2>2 DEF Routed
  <2>3. CASE s \notin pool[u]
    BY <1>0, <1>2, <1>3, <2>3 DEF Routed
  <2>. QED BY <2>2, <2>3
<1>9. ASSUME NEW w \in Followed', w # u \/ ~Reaches(u, s)
      PROVE  w \in Followed /\ down'[w] = down[w]
  <2>1. w \in User /\ route'[w] = here[w] /\ w \notin behind'
    BY <1>2, <1>9 DEF Followed
  <2>2. w \notin behind
    BY <1>4, <1>9, <2>1
  <2>3. route \in [User -> Session \cup {NoSession}]
    BY <1>0 DEF TypeOK
  <2>4. route[w] = here[w]
    <3>1. CASE w # u
      BY <1>3, <2>1, <2>3, <3>1
    <3>2. CASE w = u /\ s \notin pool[u]
      BY <1>3, <2>1, <3>2
    <3>3. CASE w = u /\ s \in pool[u] /\ ~Reaches(u, s)
      BY <1>3, <2>1, <2>3, <3>3 DEF Reaches
    <3>. QED BY <1>9, <3>1, <3>2, <3>3
  <2>. QED BY <1>5, <1>9, <2>1, <2>2, <2>4 DEF Followed
<1>10. ASSUME NEW w \in Followed', NEW x \in User \ {w}
       PROVE  Settles(down'[w], friends[w], signedIn, w, x, FriendsOf(w))
  <2>1. CASE w = u /\ Reaches(u, s)
    <3>1. About(n, x) /\ (Says(n, x) <=> x \in FriendsOf(u))
      BY <1>1 DEF About, Says
    <3>2. Settles(down[u] \o <<n>>, friends[u], signedIn, u, x, FriendsOf(u))
      BY <1>1, <1>5, <3>1, AppendAbout
    <3>. QED BY <1>5, <2>1, <3>2
  <2>2. CASE w # u \/ ~Reaches(u, s)
    <3>1. w \in Followed /\ down'[w] = down[w]
      BY <1>9, <2>2
    <3>2. Settles(down[w], friends[w], signedIn, w, x, FriendsOf(w))
      BY <1>0, <3>1 DEF Told
    <3>. QED BY <3>1, <3>2
  <2>. QED BY <2>1, <2>2
<1>11. Told'
  <2>1. Followed' \subseteq User
    BY DEF Followed
  <2>. QED BY <1>2, <1>6, <1>10, <2>1 DEF Told
<1>12. up' \in [User -> [Session -> Seq(Request)]]
  BY <1>0, TakeFrameType DEF HandleLogin
<1>13. auth' \in [User -> SUBSET Session] /\ route' \in [User -> Session \cup {NoSession}]
       /\ behind' \in SUBSET User
  <2>1. auth' \in [User -> SUBSET Session] /\ route' \in [User -> Session \cup {NoSession}]
    <3>1. CASE s \in pool[u]
      <4>1. auth' = [auth EXCEPT ![u] = auth[u] \cup {s}] /\ route' = [route EXCEPT ![u] = s]
        BY <1>3, <3>1
      <4>2. auth[u] \cup {s} \in SUBSET Session /\ auth \in [User -> SUBSET Session]
        BY <1>0 DEF TypeOK
      <4>3. route \in [User -> Session \cup {NoSession}]
        BY <1>0 DEF TypeOK
      <4>4. auth' \in [User -> SUBSET Session]
        BY <4>1, <4>2
      <4>5. route' \in [User -> Session \cup {NoSession}]
        BY <4>1, <4>3
      <4>. QED BY <4>4, <4>5
    <3>2. CASE s \notin pool[u]
      BY <1>0, <1>3, <3>2 DEF TypeOK
    <3>. QED BY <3>1, <3>2
  <2>2. behind' = behind \/ behind' = behind \ {u}
    BY <1>4
  <2>. QED BY <1>0, <2>1, <2>2 DEF TypeOK
<1>14. TypeOK'
  BY <1>0, <1>2, <1>5, <1>12, <1>13 DEF TypeOK
<1>15. OneLiveRow'
  BY <1>0, <1>2 DEF OneLiveRow
<1>. QED BY <1>7, <1>8, <1>11, <1>14, <1>15 DEF IInv

(* handleIncomingFriendEvent keeps the invariant.                          *)
LEMMA IncomingKeeps ==
    ASSUME IInv, NEW u \in User, HandleIncoming(u)
    PROVE  IInv'
<1> DEFINE n == Head(down[u])
<1>0. TypeOK /\ OneLiveRow /\ Routed /\ Addressed /\ Told /\ down \in [User -> Seq(Notice)]
  BY DEF IInv, TypeOK
<1>1. /\ down[u] # <<>> /\ down' = [down EXCEPT ![u] = Tail(@)]
      /\ UNCHANGED <<row, pool, auth, route, here, up, behind>>
  BY DEF HandleIncoming, sessionVars
<1>2. /\ n \in Notice /\ down[u] \in Seq(Notice) /\ Tail(down[u]) \in Seq(Notice)
      /\ n = down[u][1] /\ 1 \in 1 .. Len(down[u])
      /\ down'[u] = Tail(down[u]) /\ \A w \in User \ {u} : down'[w] = down[w]
      /\ down' \in [User -> Seq(Notice)]
  BY <1>0, <1>1
<1>3. Fit(down[u], u)
  BY <1>0 DEF Addressed
<1>4. IF n.kind = "login" THEN u \notin n.friends ELSE n.peer # u
  BY <1>2, <1>3 DEF Fit
<1>5. n.kind \in {"login", "request", "accepted", "removed"}
  BY <1>2 DEF Notice
<1>6. /\ friends' = [friends EXCEPT ![u] =
            IF n.kind = "login" THEN n.friends
            ELSE IF n.kind = "accepted" THEN @ \cup {n.peer}
            ELSE IF n.kind = "removed" THEN @ \ {n.peer} ELSE @]
      /\ signedIn' = IF n.kind = "login" THEN signedIn \cup {u} ELSE signedIn
      /\ requests' = [requests EXCEPT ![u] =
            IF n.kind = "request" THEN @ \cup {n.peer}
            ELSE IF n.kind \in {"accepted", "removed"} THEN @ \ {n.peer} ELSE @]
  <2>1. CASE n.kind = "login"
    BY <1>0, <2>1 DEF HandleIncoming, TypeOK
  <2>2. CASE n.kind = "request"
    BY <1>0, <2>2 DEF HandleIncoming, TypeOK
  <2>3. CASE n.kind = "accepted"
    BY <1>0, <2>3 DEF HandleIncoming, TypeOK
  <2>4. CASE n.kind = "removed"
    BY <1>0, <2>4 DEF HandleIncoming, TypeOK
  <2>. QED BY <1>5, <2>1, <2>2, <2>3, <2>4
<1>7. IF n.kind = "login" THEN n.friends \in SUBSET User ELSE n.peer \in User
  BY <1>2 DEF Notice
<1> HIDE DEF n
<1>8. /\ friends' \in [User -> SUBSET User] /\ requests' \in [User -> SUBSET User]
      /\ signedIn' \in SUBSET User
  BY <1>0, <1>5, <1>6, <1>7 DEF TypeOK
<1>9. TypeOK' /\ Routed'
  BY <1>0, <1>1, <1>2, <1>8 DEF TypeOK, Routed
<1>10. OneLiveRow'
  BY <1>0, <1>1 DEF OneLiveRow
<1>11. Addressed'
  <2>1. Fit(Tail(down[u]), u)
    <3> DEFINE r == Tail(down[u])
    <3>1. Len(r) = Len(down[u]) - 1 /\ \A i \in 1 .. Len(r) : r[i] = down[u][i + 1] /\ i + 1 \in 1 .. Len(down[u])
      BY <1>1, <1>2
    <3> HIDE DEF r
    <3>2. r \in Seq(Notice)
      BY <1>2 DEF r
    <3>3. Fit(r, u)
      BY <1>3, <3>1, <3>2 DEF Fit
    <3>. QED BY <3>3 DEF r
  <2>2. \A w \in User : w \notin friends'[w]
    BY <1>0, <1>4, <1>5, <1>6 DEF Addressed, TypeOK
  <2>3. \A w \in User : Fit(down'[w], w)
    BY <1>0, <1>1, <1>2, <2>1 DEF Addressed
  <2>. QED BY <2>2, <2>3 DEF Addressed
<1>12. ASSUME NEW w \in Followed, NEW x \in User \ {w}
       PROVE  Settles(down'[w], friends'[w], signedIn', w, x, FriendsOf(w))
  <2>0. w \in User /\ Settles(down[w], friends[w], signedIn, w, x, FriendsOf(w))
    BY <1>0 DEF Told, Followed
  <2>1. CASE w = u
    <3>1. About(n, x) => (x \in friends'[u] <=> Says(n, x))
      BY <1>0, <1>6 DEF About, Says, TypeOK
    <3>2. ~About(n, x) => (x \in friends'[u] <=> x \in friends[u]) /\ (u \in signedIn' => u \in signedIn)
      BY <1>0, <1>5, <1>6, <1>7 DEF About, TypeOK
    <3>3. Settles(Tail(down[u]), friends'[u], signedIn', u, x, FriendsOf(u))
      BY <1>1, <1>2, <2>0, <2>1, <3>1, <3>2, TakeHead DEF n
    <3>. QED BY <1>2, <2>1, <3>3
  <2>2. CASE w # u
    <3>1. friends'[w] = friends[w] /\ (w \in signedIn' <=> w \in signedIn) /\ down'[w] = down[w]
      BY <1>0, <1>2, <1>6, <2>0, <2>2 DEF TypeOK
    <3>. QED BY <2>0, <3>1 DEF Settles
  <2>. QED BY <2>1, <2>2
<1>13. Told'
  <2>1. \A w \in User : FriendsOf(w)' = FriendsOf(w)
    BY <1>1 DEF FriendsOf
  <2>2. Followed' = Followed /\ Followed \subseteq User
    BY <1>1 DEF Followed
  <2>. QED BY <1>12, <2>1, <2>2 DEF Told
<1>. QED BY <1>9, <1>10, <1>11, <1>13 DEF IInv

(* A client that moves to another connection is not followed any more; the *)
(* others keep what they were told.                                        *)
LEMMA ReconnectKeeps ==
    ASSUME IInv, NEW u \in User, NEW s \in Session, Reconnect(u, s),
           signedIn' \in SUBSET User, signedIn' \ {u} = signedIn \ {u},
           friends' \in [User -> SUBSET User], requests' \in [User -> SUBSET User],
           u \notin friends'[u],
           \A w \in User \ {u} : friends'[w] = friends[w]
    PROVE  IInv'
<1>0. TypeOK /\ OneLiveRow /\ Routed /\ Addressed /\ Told /\ down \in [User -> Seq(Notice)]
  BY DEF IInv, TypeOK
<1>1. /\ here' = [here EXCEPT ![u] = s] /\ pool' = [pool EXCEPT ![u] = @ \cup {s}]
      /\ auth' = [auth EXCEPT ![u] = @ \ {s}] /\ down' = [down EXCEPT ![u] = <<>>]
      /\ UNCHANGED <<row, route, up, behind>>
      /\ s \notin pool[u]
  BY DEF Reconnect
<1>2. <<>> \in Seq(Notice) /\ Len(<<>>) = 0
  OBVIOUS
<1>3. TypeOK' /\ OneLiveRow'
  BY <1>0, <1>1, <1>2 DEF TypeOK, OneLiveRow
<1>4. Routed'
  BY <1>0, <1>1 DEF Routed, TypeOK
<1>5. Addressed'
  <2>1. Fit(<<>>, u)
    BY <1>2 DEF Fit
  <2>2. \A w \in User \ {u} : Fit(down[w], w) /\ w \notin friends'[w]
    BY <1>0 DEF Addressed
  <2>3. \A w \in User : Fit(down'[w], w)
    BY <1>0, <1>1, <2>1, <2>2
  <2>. QED BY <2>2, <2>3 DEF Addressed
<1>6. ASSUME NEW w \in Followed'
      PROVE  w \in Followed /\ w \in User \ {u}
  <2>1. w \in User /\ route[w] = here'[w] /\ w \notin behind
    BY <1>1, <1>6 DEF Followed
  <2>2. here \in [User -> Session] /\ s # NoSession
    BY <1>0 DEF TypeOK
  <2>3. w # u
    BY <1>0, <1>1, <2>1, <2>2 DEF Routed
  <2>. QED BY <1>1, <2>1, <2>2, <2>3 DEF Followed
<1>7. Told'
  <2>1. \A w \in User : FriendsOf(w)' = FriendsOf(w)
    BY <1>1 DEF FriendsOf
  <2>2. ASSUME NEW w \in Followed', NEW x \in User \ {w}
        PROVE  Settles(down'[w], friends'[w], signedIn', w, x, FriendsOf(w)')
    <3>1. w \in Followed /\ w \in User \ {u} /\ down'[w] = down[w] /\ friends'[w] = friends[w]
      BY <1>0, <1>1, <1>6
    <3>2. w \in signedIn' <=> w \in signedIn
      BY <3>1
    <3>3. Settles(down[w], friends[w], signedIn, w, x, FriendsOf(w))
      BY <1>0, <3>1 DEF Told
    <3>4. FriendsOf(w)' = FriendsOf(w)
      BY <2>1, <3>1
    <3>5. Settles(down[w], friends[w], signedIn', w, x, FriendsOf(w))
      BY <3>2, <3>3 DEF Settles
    <3>. QED BY <3>1, <3>4, <3>5
  <2>. QED BY <2>2 DEF Told
<1>. QED BY <1>3, <1>4, <1>5, <1>7 DEF IInv

(* A lost connection keeps the invariant.                                  *)
LEMMA DisconnectKeeps ==
    ASSUME IInv, NEW u \in User, NEW s \in Session, Disconnect(u, s)
    PROVE  IInv'
<1>1. u \notin friends[u] /\ signedIn \in SUBSET User
      /\ friends \in [User -> SUBSET User] /\ requests \in [User -> SUBSET User]
  BY DEF IInv, Addressed, TypeOK
<1>2. Reconnect(u, s) /\ UNCHANGED <<signedIn, friends, requests>>
  BY DEF Disconnect, clientVars
<1>. QED BY <1>1, <1>2, ReconnectKeeps

(* So does a logout.                                                       *)
LEMMA LogoutKeeps ==
    ASSUME IInv, NEW u \in User, NEW s \in Session, Logout(u, s)
    PROVE  IInv'
<1>1. signedIn \in SUBSET User /\ friends \in [User -> SUBSET User] /\ requests \in [User -> SUBSET User]
  BY DEF IInv, TypeOK
<1>2. /\ Reconnect(u, s)
      /\ signedIn' = signedIn \ {u} /\ friends' = [friends EXCEPT ![u] = {}]
      /\ requests' = [requests EXCEPT ![u] = {}]
  BY DEF Logout
<1>3. /\ signedIn' \in SUBSET User /\ signedIn' \ {u} = signedIn \ {u}
      /\ friends' \in [User -> SUBSET User] /\ requests' \in [User -> SUBSET User]
      /\ u \notin friends'[u]
      /\ \A w \in User \ {u} : friends'[w] = friends[w]
  BY <1>1, <1>2
<1>. QED BY <1>2, <1>3, ReconnectKeeps

(* A step that changes only what is on its way to the server, who is       *)
(* authenticated, or takes a route away, keeps the invariant.              *)
LEMMA UpKeeps ==
    ASSUME IInv, up' \in [User -> [Session -> Seq(Request)]],
           pool' \in [User -> SUBSET Session], Routed',
           route' \in [User -> Session \cup {NoSession}],
           \A w \in User : route'[w] \in {route[w], NoSession},
           UNCHANGED <<row, auth, here, signedIn, down, friends, requests, behind>>
    PROVE  IInv'
<1>1. TypeOK' /\ OneLiveRow' /\ Addressed'
  BY DEF IInv, TypeOK, OneLiveRow, Addressed
<1>2. \A w \in User : FriendsOf(w)' = FriendsOf(w)
  BY DEF FriendsOf
<1>3. ASSUME NEW w \in Followed'
      PROVE  w \in Followed /\ w \in User
  <2>1. w \in User /\ route'[w] = here[w] /\ w \notin behind
    BY <1>3 DEF Followed
  <2>2. here[w] \in Session
    BY <2>1 DEF IInv, TypeOK
  <2>. QED BY <2>1, <2>2 DEF Followed
<1>4. Told'
  <2>1. Told
    BY DEF IInv
  <2>2. ASSUME NEW w \in Followed', NEW v \in User \ {w}
        PROVE  Settles(down'[w], friends'[w], signedIn', w, v, FriendsOf(w)')
    <3>1. Settles(down[w], friends[w], signedIn, w, v, FriendsOf(w))
      BY <1>3, <2>1, <2>2 DEF Told
    <3>2. FriendsOf(w)' = FriendsOf(w)
      BY <1>2, <1>3, <2>2
    <3>. QED BY <3>1, <3>2
  <2>. QED BY <2>2 DEF Told
<1>. QED BY <1>1, <1>4 DEF IInv

(* removeSession keeps the invariant: the route of the user goes with any  *)
(* of his sessions, so no route outlives the session it names.             *)
LEMMA RemoveSessionKeeps ==
    ASSUME IInv, NEW u \in User, NEW s \in Session, RemoveSession(u, s)
    PROVE  IInv'
<1>0. TypeOK /\ Routed /\ up \in [User -> [Session -> Seq(Request)]]
      /\ route \in [User -> Session \cup {NoSession}]
  BY DEF IInv, TypeOK
<1>1. /\ pool' = [pool EXCEPT ![u] = @ \ {s}]
      /\ route' = IF s \in auth[u] THEN [route EXCEPT ![u] = NoSession] ELSE route
      /\ UNCHANGED <<row, auth, here, signedIn, down, friends, requests, behind>>
  BY DEF RemoveSession, clientVars
<1>2. PICK j \in 2 .. Len(up[u][s]) + 2, k \in 0 .. Len(up[u][s]) :
           up' = [up EXCEPT ![u][s] = SubSeq(@, j, k)]
  BY DEF RemoveSession
<1>3. SubSeq(up[u][s], j, k) \in Seq(Request)
  <2>1. up[u][s] \in Seq(Request) /\ Len(up[u][s]) \in Nat
    BY <1>0
  <2>. QED BY <2>1
<1>4. up' \in [User -> [Session -> Seq(Request)]]
  BY <1>0, <1>2, <1>3
<1>5. pool' \in [User -> SUBSET Session] /\ route' \in [User -> Session \cup {NoSession}]
      /\ \A w \in User : route'[w] \in {route[w], NoSession}
  BY <1>0, <1>1 DEF TypeOK
<1>6. Routed'
  BY <1>0, <1>1 DEF Routed, TypeOK
<1>. QED BY <1>1, <1>4, <1>5, <1>6, UpKeeps

(* An empty table and clients without a user satisfy the invariant.        *)
LEMMA InitIInv == Init => IInv
<1> SUFFICES ASSUME Init PROVE IInv
  OBVIOUS
<1>1. <<>> \in Seq(Notice) /\ <<>> \in Seq(Request) /\ Len(<<>>) = 0
  OBVIOUS
<1>2. here \in [User -> Session]
  BY DEF Init
<1>3. TypeOK /\ OneLiveRow
  BY <1>1, <1>2 DEF Init, TypeOK, OneLiveRow, Status, Rev, Pair
<1>4. Routed /\ Followed = {}
  BY <1>2 DEF Init, Routed, Followed
<1>5. Addressed
  BY <1>1 DEF Init, Addressed, Fit
<1>6. Told
  BY <1>4 DEF Told
<1>. QED BY <1>3, <1>4, <1>5, <1>6 DEF IInv

(* Every step keeps the invariant.                                         *)
LEMMA NextIInv == IInv /\ [Next]_vars => IInv'
<1> SUFFICES ASSUME IInv, [Next]_vars PROVE IInv'
  OBVIOUS
<1>0. TypeOK /\ \A w \in User : route[w] \in {route[w], NoSession}
  BY DEF IInv
<1>1. ASSUME NEW u \in User, NEW s \in Session, HandleLogin(u, s) PROVE IInv'
  BY <1>1, LoginKeeps
<1>2. ASSUME NEW u \in User, NEW s \in Session, RefuseFrame(u, s) PROVE IInv'
  <2>1. up' \in [User -> [Session -> Seq(Request)]]
    BY <1>0, <1>2, TakeFrameType DEF RefuseFrame
  <2>2. UNCHANGED <<row, pool, auth, route, here, signedIn, down, friends, requests, behind>>
    BY <1>2 DEF RefuseFrame, sessionVars, clientVars
  <2>3. Routed'
    BY <2>2 DEF IInv, Routed
  <2>. QED BY <1>0, <2>1, <2>2, <2>3, UpKeeps DEF TypeOK
<1>3. ASSUME NEW u \in User, NEW s \in Session, Disconnect(u, s) PROVE IInv'
  BY <1>3, DisconnectKeeps
<1>4. ASSUME NEW u \in User, NEW s \in Session, Logout(u, s) PROVE IInv'
  BY <1>4, LogoutKeeps
<1>5. ASSUME NEW u \in User, HandleIncoming(u) PROVE IInv'
  BY <1>5, IncomingKeeps
<1>6. ASSUME NEW u \in User, NEW v \in User, NEW kind \in Button, Click(u, kind, v) PROVE IInv'
  <2>1. [kind |-> kind, peer |-> v] \in Request
    BY DEF Request
  <2>2. here[u] \in Session /\ up \in [User -> [Session -> Seq(Request)]] /\ up[u][here[u]] \in Seq(Request)
    BY <1>0 DEF TypeOK
  <2>3. Append(up[u][here[u]], [kind |-> kind, peer |-> v]) \in Seq(Request)
    BY <2>1, <2>2
  <2>4. up' = [up EXCEPT ![u][here[u]] = Append(up[u][here[u]], [kind |-> kind, peer |-> v])]
    BY <1>6 DEF Click
  <2>5. up' \in [User -> [Session -> Seq(Request)]]
    BY <2>2, <2>3, <2>4
  <2>6. UNCHANGED <<row, pool, auth, route, here, signedIn, down, friends, requests, behind>>
    BY <1>6 DEF Click, sessionVars, clientVars
  <2>7. Routed'
    BY <2>6 DEF IInv, Routed
  <2>. QED BY <1>0, <2>5, <2>6, <2>7, UpKeeps DEF TypeOK
<1>7. ASSUME NEW u \in User, NEW s \in Session, NEW v \in User \ {u}, HandleFriendRequest(u, s, v) PROVE IInv'
  BY <1>7, RequestKeeps
<1>8. ASSUME NEW u \in User, NEW s \in Session, NEW v \in User \ {u}, HandleFriendAccept(u, s, v) PROVE IInv'
  BY <1>8, AcceptKeeps
<1>9. ASSUME NEW u \in User, NEW s \in Session, NEW v \in User \ {u}, HandleReject(u, s, v) PROVE IInv'
  <2>1. up' \in [User -> [Session -> Seq(Request)]]
    BY <1>0, <1>9, TakeFrameType DEF HandleReject, Takes
  <2>. QED BY <1>9, <2>1, RemoveKeeps DEF HandleReject, sessionVars, clientVars
<1>10. ASSUME NEW u \in User, NEW s \in Session, NEW v \in User \ {u}, HandleRemove(u, s, v) PROVE IInv'
  <2>1. up' \in [User -> [Session -> Seq(Request)]]
    BY <1>0, <1>10, TakeFrameType DEF HandleRemove, Takes
  <2>. QED BY <1>10, <2>1, RemoveKeeps DEF HandleRemove, sessionVars, clientVars
<1>11. ASSUME NEW u \in User, NEW s \in Session, RemoveSession(u, s) PROVE IInv'
  BY <1>11, RemoveSessionKeeps
<1>12. CASE UNCHANGED vars
  <2>1. UNCHANGED <<row, pool, auth, route, here, signedIn, up, down, friends, requests, behind>>
    BY <1>12 DEF vars, sessionVars, clientVars
  <2>2. Routed'
    BY <2>1 DEF IInv, Routed
  <2>. QED BY <1>0, <2>1, <2>2, UpKeeps DEF TypeOK
<1>. QED
  BY <1>1, <1>2, <1>3, <1>4, <1>5, <1>6, <1>7, <1>8, <1>9, <1>10, <1>11, <1>12 DEF Next, Handle

-----------------------------------------------------------------------------
(* The inductive invariant holds of every reachable state.                 *)
THEOREM SpecIInv == Spec => []IInv
BY InitIInv, NextIInv, PTL DEF Spec

(* Types: every row has a status the code knows, every queue carries known *)
(* frames.                                                                 *)
THEOREM SpecTypeOK == Spec => []TypeOK
<1>1. IInv => TypeOK
  BY DEF IInv
<1>. QED BY <1>1, SpecIInv, PTL

(* FriendRepository never lets two users have two live rows.               *)
THEOREM SpecOneLiveRow == Spec => []OneLiveRow
<1>1. IInv => OneLiveRow
  BY DEF IInv
<1>. QED BY <1>1, SpecIInv, PTL

(* A signed-in client that notices are routed to and that has taken every  *)
(* notice shows the accepted rows, through any number of reconnections,    *)
(* late frames of older sessions and removals.                             *)
THEOREM SpecFriendsAgree == Spec => []FriendsAgree
<1>1. ASSUME IInv PROVE FriendsAgree
  <2> SUFFICES ASSUME NEW u \in signedIn, route[u] = here[u], u \notin behind, down[u] = <<>>
               PROVE  friends[u] = FriendsOf(u)
    BY DEF FriendsAgree
  <2>0. u \in User /\ u \in Followed
    BY <1>1 DEF IInv, TypeOK, Followed
  <2>1. friends[u] \in SUBSET User /\ u \notin friends[u]
    BY <1>1, <2>0 DEF IInv, TypeOK, Addressed
  <2>2. \A v \in User \ {u} : v \in friends[u] <=> v \in FriendsOf(u)
    <3> SUFFICES ASSUME NEW v \in User \ {u} PROVE v \in friends[u] <=> v \in FriendsOf(u)
      OBVIOUS
    <3>1. Settles(down[u], friends[u], signedIn, u, v, FriendsOf(u))
      BY <1>1, <2>0 DEF IInv, Told
    <3>2. Len(down[u]) = 0
      OBVIOUS
    <3>. QED BY <3>1, <3>2 DEF Settles
  <2>3. FriendsOf(u) \subseteq User \ {u}
    BY DEF FriendsOf
  <2>. QED BY <2>1, <2>2, <2>3
<1>. QED BY <1>1, SpecIInv, PTL

(* No request and no answer revives a rejected row: it only goes together  *)
(* with the row of the other direction.                                    *)
THEOREM SpecRejectedUntilRemoved == Spec => RejectedUntilRemoved
<1> DEFINE Step == \A p \in Pair : row[p] = "rejected" /\ row'[p] # "rejected" =>
                      row'[p] = "none" /\ row'[Rev(p)] = "none"
<1>1. ASSUME TypeOK, [Next]_vars PROVE [Step]_row
  <2>0. row \in [Pair -> Status]
    BY <1>1 DEF TypeOK
  <2>1. ASSUME NEW u \in User, NEW s, NEW v \in User \ {u}, HandleFriendRequest(u, s, v) PROVE [Step]_row
    <3>1. PICK outcome \in SendRequestOutcomes(<<u, v>>) :
            row' = IF outcome = "insert" THEN [row EXCEPT ![<<u, v>>] = "pending"] ELSE row
      BY <2>1 DEF HandleFriendRequest
    <3>2. <<u, v>> \in Pair /\ Rev(<<u, v>>) = <<v, u>>
      BY DEF Pair, Rev
    <3>3. outcome = "insert" => row[<<u, v>>] = "none"
      BY <3>2 DEF SendRequestOutcomes, OnExisting
    <3>. QED BY <2>0, <3>1, <3>2, <3>3
  <2>2. ASSUME NEW u \in User, NEW s, NEW v \in User \ {u}, HandleFriendAccept(u, s, v) PROVE [Step]_row
    <3>1. \A p \in Pair : row[p] = "rejected" => row'[p] = "rejected"
      BY <2>0, <2>2 DEF HandleFriendAccept, SetStatus
    <3>. QED BY <3>1
  <2>3. ASSUME NEW u, NEW s, NEW q \in Pair, FriendRemove(u, s, q) PROVE [Step]_row
    <3>1. \/ row' = [row EXCEPT ![q] = "rejected"]
          \/ row' = [row EXCEPT ![q] = "none", ![Rev(q)] = "none"]
      BY <2>3 DEF FriendRemove, SetStatus, RemoveFriendship
    <3>2. \A p \in Pair : Rev(p) \in Pair /\ Rev(Rev(p)) = p
      BY DEF Rev, Pair
    <3>. QED BY <2>0, <3>1, <3>2
  <2>4. ASSUME NEW u \in User, NEW s, NEW v \in User \ {u}, HandleReject(u, s, v) \/ HandleRemove(u, s, v)
        PROVE  [Step]_row
    BY <2>3, <2>4 DEF HandleReject, HandleRemove, Pair
  <2>5. ASSUME NEW u \in User, NEW s, HandleLogin(u, s) \/ RefuseFrame(u, s) \/ RemoveSession(u, s)
                                        \/ Disconnect(u, s) \/ Logout(u, s)
        PROVE  [Step]_row
    BY <2>5 DEF HandleLogin, RefuseFrame, RemoveSession, Disconnect, Logout, Reconnect
  <2>6. ASSUME NEW u \in User, NEW v \in User, NEW kind \in Button, Click(u, kind, v)
        PROVE  [Step]_row
    BY <2>6 DEF Click
  <2>7. ASSUME NEW u \in User, HandleIncoming(u) PROVE [Step]_row
    BY <2>7 DEF HandleIncoming
  <2>8. CASE UNCHANGED vars
    BY <2>8 DEF vars
  <2>. QED BY <1>1, <2>1, <2>2, <2>4, <2>5, <2>6, <2>7, <2>8 DEF Next, Handle
<1>. QED BY <1>1, SpecTypeOK, PTL DEF Spec, RejectedUntilRemoved
=============================================================================
