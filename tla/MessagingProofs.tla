--------------------------- MODULE MessagingProofs ---------------------------
(***************************************************************************)
(* The invariants of Messaging for any users, messages, limits and number  *)
(* of notices on their way.  Three invariants carry the proofs:            *)
(*   Delivery  a waiting message was never pushed to its recipient, what   *)
(*             is marked in a login's batch is delivered, and the id of    *)
(*             the next row is unused;                                     *)
(*   Deletion  once the table, a client or a notice on its way says that a *)
(*             message is deleted, no later notice gives it a text;        *)
(*   Echo      the notices on their way turn what a client shows into what *)
(*             the table holds.  What a queue turns a display into is the  *)
(*             end of a trace (Ends) of what is shown after each notice.   *)
(***************************************************************************)
EXTENDS Messaging, SequenceTheorems, FiniteSetTheorems, TLAPS

USE ConstantsAssumption, NoneAssumption

\* The four changes of a body, by name.
Edited(v, t)  == [v EXCEPT !.text = t]
Deleted(v)    == [v EXCEPT !.text = 0, !.deleted = TRUE]
Reacted(v, u) == [v EXCEPT !.reactions = @ \cup {u}]
Receipted(v)  == [v EXCEPT !.read = TRUE]

(* An edit changes the text of a body and nothing else. *)
LEMMA EditedBody ==
    ASSUME NEW v \in Body, NEW t \in Text
    PROVE  Edited(v, t) \in Body /\ Edited(v, t).text = t /\ Edited(v, t).deleted = v.deleted
BY DEF Body, Edited

(* A deletion leaves a body without text, marked as deleted. *)
LEMMA DeletedBody ==
    ASSUME NEW v \in Body
    PROVE  Deleted(v) \in Body /\ Deleted(v).text = 0 /\ Deleted(v).deleted
<1> DEFINE w == Edited(v, 0)
<1>1. w \in Body /\ w.text = 0
  BY EditedBody DEF Text
<1>2. Deleted(v) = [w EXCEPT !.deleted = TRUE]
  BY DEF Deleted, Edited
<1> HIDE DEF w
<1>3. /\ [w EXCEPT !.deleted = TRUE] \in Body
      /\ [w EXCEPT !.deleted = TRUE].text = w.text /\ [w EXCEPT !.deleted = TRUE].deleted
  BY <1>1 DEF Body
<1>. QED BY <1>1, <1>2, <1>3

(* A reaction changes neither the text nor the deletion mark. *)
LEMMA ReactedBody ==
    ASSUME NEW v \in Body, NEW u \in User
    PROVE  /\ Reacted(v, u) \in Body /\ Reacted(v, u).text = v.text
           /\ Reacted(v, u).deleted = v.deleted
BY DEF Body, Reacted

(* A read receipt changes neither the text nor the deletion mark. *)
LEMMA ReceiptedBody ==
    ASSUME NEW v \in Body
    PROVE  /\ Receipted(v) \in Body /\ Receipted(v).text = v.text
           /\ Receipted(v).deleted = v.deleted
BY DEF Body, Receipted

-----------------------------------------------------------------------------
(* The messages table under the three changes that are made to it.         *)

\* The row of a message stays the same, but for its body and its delivered flag.
SameHead(r, s) == r.from = s.from /\ r.conv = s.conv /\ r.time = s.time

(* What a row of the messages table holds. *)
LEMMA RowFields ==
    ASSUME NEW r \in Row
    PROVE  /\ r.from \in User /\ r.conv \in User \cup {Group} /\ r.time \in 0 .. MaxClock
           /\ r.delivered \in BOOLEAN /\ r.body \in Body
BY DEF Row

(* An id of the table is a position of it, with a row there. *)
LEMMA RowAt ==
    ASSUME messages \in Seq(Row), NEW m \in DOMAIN messages
    PROVE  messages[m] \in Row /\ m \in 1 .. Len(messages)
<1> DEFINE R == Row
<1> HIDE DEF R
<1>1. messages \in Seq(R)
  BY DEF R
<1>2. messages[m] \in R /\ m \in 1 .. Len(messages)
  BY <1>1
<1>. QED BY <1>2 DEF R

(* An insert leaves every earlier row alone and gives the new one the next id. *)
LEMMA TableAppend ==
    ASSUME messages \in Seq(Row), NEW r \in Row, messages' = Append(messages, r)
    PROVE  /\ messages' \in Seq(Row) /\ Len(messages') = Len(messages) + 1
           /\ DOMAIN messages' = DOMAIN messages \cup {Len(messages) + 1}
           /\ Len(messages) + 1 \notin DOMAIN messages
           /\ \A m \in DOMAIN messages : messages'[m] = messages[m]
           /\ messages'[Len(messages) + 1] = r
<1> DEFINE R == Row
<1> HIDE DEF R
<1>1. messages \in Seq(R) /\ r \in R
  BY DEF R
<1>2. /\ messages' \in Seq(R) /\ Len(messages') = Len(messages) + 1
      /\ DOMAIN messages' = DOMAIN messages \cup {Len(messages) + 1}
      /\ Len(messages) + 1 \notin DOMAIN messages
      /\ \A m \in DOMAIN messages : messages'[m] = messages[m]
      /\ messages'[Len(messages) + 1] = r
  BY <1>1
<1>. QED BY <1>2 DEF R

(* A change row by row leaves a table of the same length. *)
LEMMA TableSame ==
    ASSUME messages \in Seq(Row), NEW s, DOMAIN s = DOMAIN messages,
           s = [m \in DOMAIN s |-> s[m]], \A m \in DOMAIN messages : s[m] \in Row
    PROVE  s \in Seq(Row) /\ Len(s) = Len(messages)
<1> DEFINE R == Row
<1> HIDE DEF R
<1>1. messages \in Seq(R) /\ \A m \in DOMAIN messages : s[m] \in R
  BY DEF R
<1>2. Len(messages) \in Nat /\ DOMAIN messages = 1 .. Len(messages)
  BY <1>1
<1>3. s \in [1 .. Len(messages) -> R]
  BY <1>1, <1>2
<1>4. s \in Seq(R)
  BY <1>2, <1>3, SeqDef
<1>5. Len(s) = Len(messages)
  BY <1>2, <1>3, <1>4
<1>. QED BY <1>4, <1>5 DEF R

(* A new body leaves the other columns of a row alone. *)
LEMMA WithBody ==
    ASSUME NEW r \in Row, NEW b \in Body
    PROVE  LET s == [r EXCEPT !.body = b]
           IN  s \in Row /\ s.body = b /\ s.delivered = r.delivered /\ SameHead(s, r)
BY DEF Row, SameHead

(* Marking a row as delivered leaves its other columns alone. *)
LEMMA AsDelivered ==
    ASSUME NEW r \in Row
    PROVE  LET s == [r EXCEPT !.delivered = TRUE]
           IN  s \in Row /\ s.body = r.body /\ s.delivered /\ SameHead(s, r)
BY DEF Row, SameHead

(* An update of one body leaves every other row and column alone. *)
LEMMA TableSetBody ==
    ASSUME messages \in Seq(Row), NEW m \in DOMAIN messages, NEW b \in Body, messages' = SetBody(m, b)
    PROVE  /\ messages' \in Seq(Row) /\ Len(messages') = Len(messages)
           /\ DOMAIN messages' = DOMAIN messages
           /\ \A i \in DOMAIN messages : i # m => messages'[i] = messages[i]
           /\ messages'[m].body = b /\ messages'[m].delivered = messages[m].delivered
           /\ SameHead(messages'[m], messages[m])
<1> DEFINE r == [messages[m] EXCEPT !.body = b]
<1>1. messages' = [messages EXCEPT ![m] = r]
  BY DEF SetBody
<1>2. /\ r \in Row /\ r.body = b /\ r.delivered = messages[m].delivered
      /\ SameHead(r, messages[m])
  BY RowAt, WithBody
<1> HIDE DEF r
<1>3. /\ DOMAIN messages' = DOMAIN messages /\ messages' = [i \in DOMAIN messages' |-> messages'[i]]
      /\ messages'[m] = r /\ \A i \in DOMAIN messages : i # m => messages'[i] = messages[i]
  BY <1>1
<1>4. \A i \in DOMAIN messages : messages'[i] \in Row
  BY <1>2, <1>3, RowAt
<1>5. messages' \in Seq(Row) /\ Len(messages') = Len(messages)
  BY <1>3, <1>4, TableSame
<1>. QED BY <1>2, <1>3, <1>5

(* markDelivered changes nothing but the delivered column of the row it names. *)
LEMMA TableMarkDelivered ==
    ASSUME messages \in Seq(Row), NEW m \in DOMAIN messages, messages' = MarkDelivered(m)
    PROVE  /\ messages' \in Seq(Row) /\ Len(messages') = Len(messages)
           /\ DOMAIN messages' = DOMAIN messages
           /\ messages'[m].delivered
           /\ \A i \in DOMAIN messages : /\ messages'[i].body = messages[i].body
                                         /\ SameHead(messages'[i], messages[i])
                                         /\ i # m => messages'[i] = messages[i]
<1>1. DOMAIN messages' = DOMAIN messages /\ messages' = [i \in DOMAIN messages' |-> messages'[i]]
  BY DEF MarkDelivered
<1>2. messages[m] \in Row /\ messages'[m] = [messages[m] EXCEPT !.delivered = TRUE]
  BY RowAt DEF MarkDelivered
<1>3. /\ messages'[m] \in Row /\ messages'[m].body = messages[m].body
      /\ SameHead(messages'[m], messages[m]) /\ messages'[m].delivered
  BY <1>2, AsDelivered
<1>4. ASSUME NEW i \in DOMAIN messages, i # m
      PROVE  messages'[i] \in Row /\ messages'[i] = messages[i]
  BY <1>4, RowAt DEF MarkDelivered
<1>5. messages' \in Seq(Row) /\ Len(messages') = Len(messages)
  BY <1>1, <1>3, <1>4, TableSame
<1>. QED BY <1>1, <1>3, <1>4, <1>5 DEF SameHead

-----------------------------------------------------------------------------
(* Notices.                                                                *)

Push(b) == [kind |-> "push", msgs |-> b]

(* A push of a batch is a notice. *)
LEMMA PushTyped ==
    ASSUME NEW b \in Batch
    PROVE  Push(b) \in Notice
BY DEF Push, Notice

(* A batch with one message holds that message only. *)
LEMMA OneMessage ==
    ASSUME NEW m \in Id, NEW b \in Body
    PROVE  LET e == [Empty EXCEPT ![m] = b]
           IN  e \in Batch /\ e[m] = b /\ \A i \in Id : i # m => e[i] = None
BY DEF Empty, Batch

(* A batch of stored rows holds their bodies as stored, and no other message. *)
LEMMA BatchedIs ==
    ASSUME messages \in Seq(Row), Len(messages) <= MaxMessages, NEW T \in SUBSET DOMAIN messages
    PROVE  /\ Batched(T) \in Batch /\ T \in SUBSET Id
           /\ \A m \in T : Batched(T)[m] = messages[m].body /\ messages[m].body \in Body
           /\ \A m \in Id : m \notin T => Batched(T)[m] = None
<1>1. \A m \in T : messages[m].body \in Body /\ m \in Id
  <2> SUFFICES ASSUME NEW m \in T PROVE messages[m].body \in Body /\ m \in Id
    OBVIOUS
  <2>1. messages[m] \in Row /\ m \in 1 .. Len(messages)
    BY RowAt
  <2>2. Len(messages) \in Nat
    OBVIOUS
  <2>. QED BY <2>1, <2>2, RowFields DEF Id
<1>. QED BY <1>1 DEF Batched, Batch

(* Sending a notice keeps the queues well typed. *)
LEMMA DeliverTyped ==
    ASSUME down \in [User -> Seq(Notice)], NEW W, NEW n \in Notice
    PROVE  Deliver(W, n) \in [User -> Seq(Notice)]
BY DEF Deliver

(* A new row has the sender, conversation and delivery mark it was made with, and is not deleted. *)
LEMMA NewRowTyped ==
    ASSUME TypeOK, NEW u \in User, NEW c \in User \cup {Group}, NEW d \in BOOLEAN
    PROVE  /\ NewRow(u, c, d) \in Row /\ NewRow(u, c, d).body \in Body
           /\ NewRow(u, c, d).from = u /\ NewRow(u, c, d).conv = c /\ NewRow(u, c, d).delivered = d
           /\ ~NewRow(u, c, d).body.deleted
<1>1. 1 \in Text
  BY DEF Text
<1>2. clock \in 0 .. MaxClock
  BY DEF TypeOK
<1>. QED BY <1>1, <1>2 DEF NewRow, Row, Body

(* What a notice does to a message that is shown.                          *)
LEMMA ShownPush ==
    ASSUME NEW v, NEW n, NEW m, n.kind = "push"
    PROVE  Shown(v, n, m) = IF n.msgs[m] # None THEN n.msgs[m] ELSE v
BY DEF Shown

(* A notice of change leaves every other message, and one the client does not show, alone. *)
LEMMA ShownOther ==
    ASSUME NEW v, NEW n, NEW m, n.kind # "push", v = None \/ m # n.id
    PROVE  Shown(v, n, m) = v
BY DEF Shown

(* On a message the client shows, a notice makes the change it is about. *)
LEMMA ShownChange ==
    ASSUME NEW v, NEW n, NEW m, v # None, m = n.id
    PROVE  /\ n.kind = "edit" => Shown(v, n, m) = Edited(v, n.text)
           /\ n.kind = "delete" => Shown(v, n, m) = Deleted(v)
           /\ n.kind = "react" => Shown(v, n, m) = Reacted(v, n.by)
           /\ n.kind = "read" => Shown(v, n, m) = Receipted(v)
<1>3. n.kind = "edit" => Shown(v, n, m) = Edited(v, n.text)
  BY Zenon DEF Shown, Edited
<1>4. n.kind = "delete" => Shown(v, n, m) = Deleted(v)
  BY Zenon DEF Shown, Deleted
<1>5. n.kind = "react" => Shown(v, n, m) = Reacted(v, n.by)
  BY Zenon DEF Shown, Reacted
<1>6. n.kind = "read" => Shown(v, n, m) = Receipted(v)
  BY Zenon DEF Shown, Receipted
<1>. QED BY <1>3, <1>4, <1>5, <1>6

(* A notice about a message that is shown, kind by kind.                   *)
LEMMA ShownBody ==
    ASSUME NEW v \in Body, NEW n \in Notice, n.kind # "push", NEW m \in Id, m = n.id
    PROVE  /\ Shown(v, n, m) \in Body
           /\ n.kind = "delete" => Shown(v, n, m).deleted /\ Shown(v, n, m).text = 0
           /\ n.kind # "delete" => Shown(v, n, m).deleted = v.deleted
           /\ n.kind \notin {"delete", "edit"} => Shown(v, n, m).text = v.text
<1>0. v # None
  OBVIOUS
<1>1. CASE n.kind = "edit"
  <2>1. n.text \in Text
    BY <1>1 DEF Notice
  <2>2. Shown(v, n, m) = Edited(v, n.text)
    BY <1>0, <1>1, ShownChange
  <2>3. Edited(v, n.text) \in Body /\ Edited(v, n.text).deleted = v.deleted
    BY <2>1, EditedBody
  <2>. QED BY <1>1, <2>2, <2>3
<1>2. CASE n.kind = "delete"
  BY <1>0, <1>2, ShownChange, DeletedBody
<1>3. CASE n.kind = "react"
  <2>1. n.by \in User
    BY <1>3 DEF Notice
  <2>2. Shown(v, n, m) = Reacted(v, n.by)
    BY <1>0, <1>3, ShownChange
  <2>3. /\ Reacted(v, n.by) \in Body /\ Reacted(v, n.by).text = v.text
        /\ Reacted(v, n.by).deleted = v.deleted
    BY <2>1, ReactedBody
  <2>. QED BY <1>3, <2>2, <2>3
<1>4. CASE n.kind = "read"
  BY <1>0, <1>4, ShownChange, ReceiptedBody
<1>. QED BY <1>1, <1>2, <1>3, <1>4 DEF Notice

(* Handling a notice leaves a body or nothing on display. *)
LEMMA ShownTyped ==
    ASSUME NEW v \in Body \cup {None}, NEW n \in Notice, NEW m \in Id
    PROVE  Shown(v, n, m) \in Body \cup {None}
<1>1. CASE n.kind = "push"
  <2>1. n.msgs \in Batch
    BY <1>1 DEF Notice
  <2>. QED BY <1>1, <2>1, ShownPush DEF Batch
<1>2. CASE n.kind # "push" /\ (v = None \/ m # n.id)
  BY <1>2, ShownOther
<1>3. CASE n.kind # "push" /\ v # None /\ m = n.id
  BY <1>3, ShownBody
<1>. QED BY <1>1, <1>2, <1>3

-----------------------------------------------------------------------------
(* The four handlers that change a message: the table gets what a client   *)
(* makes of the notice, and an edit finds the message not deleted.         *)
Changes(u, m, n) ==
    /\ CanTouch(u, m) /\ m \in DOMAIN messages
    /\ n \in Notice /\ n.kind # "push" /\ n.id = m
    /\ n.kind = "edit" => ~messages[m].body.deleted
    /\ Change(u, m, Shown(messages[m].body, n, m), n)

Changing(u) ==
    \/ \E m \in Id, t \in Text \ {0} : HandleMessageEdit(u, m, t)
    \/ \E m \in Id : HandleMessageDelete(u, m)
    \/ \E m \in Id : HandleMessageReaction(u, m)
    \/ \E m \in Id : HandleReadReceipt(u, m)

(* Each of the four changes is made to one row by a party, who sends one notice about it. *)
LEMMA ChangingIs ==
    ASSUME TypeOK, NEW u \in User, Changing(u)
    PROVE  \E m \in Id, n \in Notice : Changes(u, m, n)
<1>0. \A m \in DOMAIN messages : messages[m].body \in Body /\ messages[m].body # None
  BY RowAt, RowFields DEF TypeOK
<1>1. ASSUME NEW m \in Id, NEW t \in Text \ {0}, HandleMessageEdit(u, m, t)
      PROVE  \E n \in Notice : Changes(u, m, n)
  <2> DEFINE n == [kind |-> "edit", id |-> m, text |-> t]
  <2>1. n \in Notice /\ n.kind = "edit" /\ n.id = m /\ n.text = t
    BY DEF Notice
  <2>2. CanTouch(u, m) /\ m \in DOMAIN messages /\ ~messages[m].body.deleted
    BY <1>1 DEF HandleMessageEdit, CanTouch, CanEdit
  <2>3. Change(u, m, Edited(messages[m].body, t), n)
    BY <1>1 DEF HandleMessageEdit, Edited
  <2>. HIDE DEF n
  <2>4. Shown(messages[m].body, n, m) = Edited(messages[m].body, t)
    BY <1>0, <2>1, <2>2, ShownChange
  <2>. QED BY <2>1, <2>2, <2>3, <2>4 DEF Changes
<1>2. ASSUME NEW m \in Id, HandleMessageDelete(u, m)
      PROVE  \E n \in Notice : Changes(u, m, n)
  <2> DEFINE n == [kind |-> "delete", id |-> m]
  <2>1. n \in Notice /\ n.kind = "delete" /\ n.id = m
    BY DEF Notice
  <2>2. CanTouch(u, m) /\ m \in DOMAIN messages
    BY <1>2 DEF HandleMessageDelete, CanTouch
  <2>3. Change(u, m, Deleted(messages[m].body), n)
    BY <1>2 DEF HandleMessageDelete, Deleted
  <2>. HIDE DEF n
  <2>4. Shown(messages[m].body, n, m) = Deleted(messages[m].body)
    BY <1>0, <2>1, <2>2, ShownChange
  <2>. QED BY <2>1, <2>2, <2>3, <2>4 DEF Changes
<1>3. ASSUME NEW m \in Id, HandleMessageReaction(u, m)
      PROVE  \E n \in Notice : Changes(u, m, n)
  <2> DEFINE n == [kind |-> "react", id |-> m, by |-> u]
  <2>1. n \in Notice /\ n.kind = "react" /\ n.id = m /\ n.by = u
    BY DEF Notice
  <2>2. CanTouch(u, m) /\ m \in DOMAIN messages
    BY <1>3 DEF HandleMessageReaction, CanTouch
  <2>3. Change(u, m, Reacted(messages[m].body, u), n)
    BY <1>3 DEF HandleMessageReaction, Reacted
  <2>. HIDE DEF n
  <2>4. Shown(messages[m].body, n, m) = Reacted(messages[m].body, u)
    BY <1>0, <2>1, <2>2, ShownChange
  <2>. QED BY <2>1, <2>2, <2>3, <2>4 DEF Changes
<1>4. ASSUME NEW m \in Id, HandleReadReceipt(u, m)
      PROVE  \E n \in Notice : Changes(u, m, n)
  <2> DEFINE n == [kind |-> "read", id |-> m]
  <2>1. n \in Notice /\ n.kind = "read" /\ n.id = m
    BY DEF Notice
  <2>2. CanTouch(u, m) /\ m \in DOMAIN messages
    BY <1>4 DEF HandleReadReceipt, CanTouch
  <2>3. Change(u, m, Receipted(messages[m].body), n)
    BY <1>4 DEF HandleReadReceipt, Receipted
  <2>. HIDE DEF n
  <2>4. Shown(messages[m].body, n, m) = Receipted(messages[m].body)
    BY <1>0, <2>1, <2>2, ShownChange
  <2>. QED BY <2>1, <2>2, <2>3, <2>4 DEF Changes
<1>. QED BY <1>1, <1>2, <1>3, <1>4 DEF Changing

(* What the four of them do to the table and the queues.                   *)
LEMMA ChangesIs ==
    ASSUME TypeOK, NEW u \in User, NEW m \in Id, NEW n \in Notice, Changes(u, m, n)
    PROVE  LET b == Shown(messages[m].body, n, m)
           IN  /\ messages[m].body \in Body /\ b \in Body
               /\ messages' \in Seq(Row) /\ Len(messages') = Len(messages)
               /\ DOMAIN messages' = DOMAIN messages
               /\ \A i \in DOMAIN messages : i # m => messages'[i] = messages[i]
               /\ messages'[m].body = b /\ messages'[m].delivered = messages[m].delivered
               /\ SameHead(messages'[m], messages[m])
               /\ down' = Deliver(Recipients(u, ConversationOf(u, m)), n)
               /\ UNCHANGED <<members, created, clock, conn, route, dead, login, batch, left, shown, synced, handed,
                             lost, away>>
<1> DEFINE b == Shown(messages[m].body, n, m)
<1>1. messages \in Seq(Row) /\ m \in DOMAIN messages /\ n.kind # "push" /\ m = n.id
  BY DEF TypeOK, Changes
<1>2. messages[m].body \in Body
  BY <1>1, RowAt, RowFields
<1>3. b \in Body
  BY <1>1, <1>2, ShownBody
<1>4. /\ messages' = SetBody(m, b) /\ down' = Deliver(Recipients(u, ConversationOf(u, m)), n)
      /\ UNCHANGED <<members, created, clock, conn, route, dead, login, batch, left, shown, synced, handed,
                             lost, away>>
  BY DEF Changes, Change, sessionVars, loginVars, ghostVars
<1> HIDE DEF b
<1>5. /\ messages' \in Seq(Row) /\ Len(messages') = Len(messages)
      /\ DOMAIN messages' = DOMAIN messages
      /\ \A i \in DOMAIN messages : i # m => messages'[i] = messages[i]
      /\ messages'[m].body = b /\ messages'[m].delivered = messages[m].delivered
      /\ SameHead(messages'[m], messages[m])
  BY <1>1, <1>3, <1>4, TableSetBody
<1>. QED BY <1>2, <1>3, <1>4, <1>5 DEF b

(* The limit of the offline push only leaves messages out. *)
LEMMA TrimmedIn ==
    ASSUME NEW S, NEW T \in TrimToLimit(S)
    PROVE  T \subseteq S
BY DEF TrimToLimit

(* Every step keeps the types. *)
LEMMA TypeNext == TypeOK /\ [Next]_vars => TypeOK'
<1> SUFFICES ASSUME TypeOK, [Next]_vars PROVE TypeOK'
  OBVIOUS
<1>0. /\ messages \in Seq(Row) /\ Len(messages) <= MaxMessages /\ Len(messages) \in Nat
      /\ down \in [User -> Seq(Notice)] /\ shown \in [User -> Batch]
      /\ synced \in [User -> SUBSET Id]
      /\ handed \in [Id -> SUBSET {"push", "history"}] /\ lost \in SUBSET Id /\ away \in SUBSET Id
      /\ login \in User \cup {None} /\ batch \in SUBSET DOMAIN messages /\ left \in SUBSET batch
  BY DEF TypeOK
<1>b. batch \in SUBSET Id
  BY <1>0, BatchedIs
<1>h. ASSUME NEW M, NEW k \in {"push", "history"}
      PROVE  Hand(M, k) \in [Id -> SUBSET {"push", "history"}]
  BY <1>0 DEF Hand
<1>1. ASSUME NEW u \in User, NEW v \in User, HandlePrivateMessage(u, v) PROVE TypeOK'
  <2> DEFINE m == Len(messages) + 1
             r == NewRow(u, v, route[v] # "none")
             push == [kind |-> "push", msgs |-> [Empty EXCEPT ![m] = r.body]]
             sent == Deliver({v}, push)
  <2>1. /\ m \in Id /\ messages' = Append(messages, r)
        /\ down' = [sent EXCEPT ![u] = Append(@, push)]
        /\ synced' = [w \in User |-> IF w \in {u, v} /\ route[w] = "live"
                                     THEN synced[w] \cup {m} ELSE synced[w]]
        /\ handed' \in {handed, Hand({m}, "push")} /\ away' \in {away, away \cup {m}}
        /\ UNCHANGED <<members, created, clock, sessionVars, loginVars, shown, lost>>
    BY <1>1 DEF HandlePrivateMessage
  <2>2. r \in Row /\ r.body \in Body
    BY NewRowTyped
  <2>3. push \in Notice
    BY <2>1, <2>2, OneMessage, PushTyped DEF Push
  <2>. HIDE DEF r, push
  <2>4. /\ messages' \in Seq(Row) /\ Len(messages') <= MaxMessages
        /\ DOMAIN messages \subseteq DOMAIN messages'
    BY <1>0, <2>1, <2>2, TableAppend DEF Id
  <2>5. down' \in [User -> Seq(Notice)]
    <3>1. sent \in [User -> Seq(Notice)]
      BY <1>0, <2>3, DeliverTyped
    <3>. HIDE DEF sent
    <3>. QED BY <2>1, <2>3, <3>1
  <2>6. synced' \in [User -> SUBSET Id] /\ away' \in SUBSET Id
    BY <1>0, <2>1
  <2>7. handed' \in [Id -> SUBSET {"push", "history"}]
    BY <1>0, <1>h, <2>1
  <2>. QED BY <2>1, <2>4, <2>5, <2>6, <2>7 DEF TypeOK, sessionVars, loginVars
<1>2. ASSUME NEW u \in User, HandleGroupMessage(u) PROVE TypeOK'
  <2> DEFINE m == Len(messages) + 1
             r == NewRow(u, Group, TRUE)
             push == [kind |-> "push", msgs |-> [Empty EXCEPT ![m] = r.body]]
  <2>1. /\ m \in Id /\ messages' = Append(messages, r) /\ down' = Deliver(members, push)
        /\ synced' = [w \in User |-> IF w \in members /\ route[w] = "live"
                                     THEN synced[w] \cup {m} ELSE synced[w]]
        /\ UNCHANGED <<members, created, clock, sessionVars, loginVars, shown, ghostVars>>
    BY <1>2 DEF HandleGroupMessage
  <2>2. r \in Row /\ r.body \in Body
    BY NewRowTyped
  <2>3. push \in Notice
    BY <2>1, <2>2, OneMessage, PushTyped DEF Push
  <2>. HIDE DEF r, push
  <2>4. /\ messages' \in Seq(Row) /\ Len(messages') <= MaxMessages
        /\ DOMAIN messages \subseteq DOMAIN messages'
    BY <1>0, <2>1, <2>2, TableAppend DEF Id
  <2>5. down' \in [User -> Seq(Notice)]
    BY <1>0, <2>1, <2>3, DeliverTyped
  <2>6. synced' \in [User -> SUBSET Id]
    BY <1>0, <2>1
  <2>. QED BY <2>1, <2>4, <2>5, <2>6 DEF TypeOK, sessionVars, loginVars, ghostVars
<1>3. ASSUME NEW u \in User, NEW m \in Id, NEW n \in Notice, Changes(u, m, n) PROVE TypeOK'
  <2>1. down' \in [User -> Seq(Notice)]
    BY <1>0, <1>3, ChangesIs, DeliverTyped
  <2>2. /\ messages' \in Seq(Row) /\ Len(messages') = Len(messages)
        /\ DOMAIN messages' = DOMAIN messages
        /\ UNCHANGED <<members, created, clock, conn, route, dead, login, batch, left, shown, synced, handed,
                             lost, away>>
    BY <1>3, ChangesIs
  <2>. QED BY <2>1, <2>2 DEF TypeOK
<1>4. ASSUME NEW u \in User, NEW c \in User \cup {Group}, HandleHistory(u, c) PROVE TypeOK'
  <2>1. PICK T \in TrimToLimit(InConversation(u, c)) :
            /\ down' = [down EXCEPT ![u] = Append(@, [kind |-> "push", msgs |-> Batched(T)])]
            /\ synced' = IF route[u] = "live" THEN [synced EXCEPT ![u] = @ \cup T] ELSE synced
            /\ handed' = Hand({m \in T : messages[m].conv = u}, "history")
    BY <1>4 DEF HandleHistory
  <2>2. T \in SUBSET DOMAIN messages
    BY TrimmedIn DEF InConversation
  <2>3. T \in SUBSET Id /\ [kind |-> "push", msgs |-> Batched(T)] \in Notice
    BY <1>0, <2>2, BatchedIs, PushTyped DEF Push
  <2>4. down' \in [User -> Seq(Notice)]
    BY <1>0, <2>1, <2>3
  <2>5. synced' \in [User -> SUBSET Id]
    BY <1>0, <2>1, <2>3
  <2>6. handed' \in [Id -> SUBSET {"push", "history"}]
    BY <1>h, <2>1
  <2>. QED BY <1>4, <2>4, <2>5, <2>6 DEF HandleHistory, TypeOK, tableVars, sessionVars, loginVars
<1>5. ASSUME NEW u \in User, HandleCreateGroup(u) \/ HandleJoinGroup(u) PROVE TypeOK'
  BY <1>5 DEF HandleCreateGroup, HandleJoinGroup, TypeOK, sessionVars, loginVars, ghostVars
<1>6. ASSUME NEW u \in User, HandleLeaveGroup(u) PROVE TypeOK'
  <2>1. shown' \in [User -> Batch]
    BY <1>0, <1>6 DEF HandleLeaveGroup, Batch
  <2>2. synced' \in [User -> SUBSET Id]
    BY <1>0, <1>6 DEF HandleLeaveGroup
  <2>. QED BY <1>6, <2>1, <2>2 DEF HandleLeaveGroup, TypeOK, sessionVars, loginVars, ghostVars
<1>7. ASSUME NEW u \in User, HandleLogin(u) PROVE TypeOK'
  <2>1. PICK T \in TrimToLimit(Waiting(u)) : batch' = T /\ left' = T
    BY <1>7 DEF HandleLogin
  <2>2. T \in SUBSET DOMAIN messages
    BY TrimmedIn DEF Waiting
  <2>3. synced' \in [User -> SUBSET Id] /\ login' \in User \cup {None}
    BY <1>0, <1>7 DEF HandleLogin
  <2>4. conn' \in [User -> {"on", "off"}] /\ route' \in [User -> {"none", "live", "dead"}]
    BY <1>7 DEF HandleLogin, TypeOK
  <2>. QED BY <1>7, <2>1, <2>2, <2>3, <2>4 DEF HandleLogin, TypeOK, tableVars, ghostVars
<1>15. ASSUME NEW m \in Id, MarkNext(m) PROVE TypeOK'
  <2>1. m \in DOMAIN messages /\ messages' = MarkDelivered(m) /\ left' = left \ {m} /\ batch' = batch
    BY <1>0, <1>15 DEF MarkNext
  <2>2. /\ messages' \in Seq(Row) /\ Len(messages') = Len(messages)
        /\ DOMAIN messages' = DOMAIN messages
    BY <1>0, <2>1, TableMarkDelivered
  <2>. QED BY <1>0, <1>15, <2>1, <2>2 DEF MarkNext, TypeOK, sessionVars, ghostVars
<1>16. ASSUME DeliverOffline PROVE TypeOK'
  <2>1. /\ login \in User /\ login' = None /\ batch' = {} /\ left' = {}
        /\ UNCHANGED <<tableVars, clock, sessionVars, shown, away>>
    BY <1>0, <1>16 DEF DeliverOffline, Idle
  <2>2. Push(Batched(batch)) \in Notice
    BY <1>0, BatchedIs, PushTyped
  <2>3. down' \in {down, [down EXCEPT ![login] = Append(@, Push(Batched(batch)))]}
    BY <1>16 DEF DeliverOffline, Push
  <2>4. down' \in [User -> Seq(Notice)]
    <3>1. Append(down[login], Push(Batched(batch))) \in Seq(Notice)
      BY <1>0, <2>1, <2>2
    <3>. QED BY <1>0, <2>3, <3>1
  <2>5. synced' \in [User -> SUBSET Id]
    <3>1. synced' \in {synced, [synced EXCEPT ![login] = @ \cup batch]}
      BY <1>16 DEF DeliverOffline
    <3>. QED BY <1>0, <1>b, <2>1, <3>1
  <2>6. handed' \in [Id -> SUBSET {"push", "history"}] /\ lost' \in SUBSET Id
    <3>1. handed' \in {handed, Hand(batch, "push")} /\ lost' \in {lost, lost \cup batch}
      BY <1>16 DEF DeliverOffline
    <3>. QED BY <1>0, <1>b, <1>h, <3>1
  <2>. QED BY <2>1, <2>4, <2>5, <2>6 DEF TypeOK, tableVars, sessionVars
<1>8. ASSUME NEW u \in User, Cut(u) PROVE TypeOK'
  <2>1. shown' \in [User -> Batch] /\ down' \in [User -> Seq(Notice)] /\ synced' \in [User -> SUBSET Id]
    BY <1>0, <1>8 DEF Cut, Empty, Batch
  <2>2. dead' \in [User -> 0 .. MaxDead]
    BY <1>8 DEF Cut, TypeOK
  <2>3. conn' \in [User -> {"on", "off"}] /\ route' \in [User -> {"none", "live", "dead"}]
    BY <1>8 DEF Cut, TypeOK
  <2>. QED BY <1>8, <2>1, <2>2, <2>3 DEF Cut, TypeOK, tableVars, loginVars, ghostVars
<1>9. ASSUME NEW u \in User, RemoveSession(u) PROVE TypeOK'
  <2>1. dead' \in [User -> 0 .. MaxDead]
    BY <1>9 DEF RemoveSession, TypeOK
  <2>2. route' \in [User -> {"none", "live", "dead"}] /\ synced' \in [User -> SUBSET Id]
    BY <1>9 DEF RemoveSession, TypeOK
  <2>. QED BY <1>9, <2>1, <2>2 DEF RemoveSession, TypeOK, tableVars, loginVars, ghostVars
<1>10. ASSUME NEW u \in User, HandleIncomingMessage(u) PROVE TypeOK'
  <2>1. Head(down[u]) \in Notice /\ Tail(down[u]) \in Seq(Notice)
    BY <1>0, <1>10 DEF HandleIncomingMessage
  <2>2. shown' \in [User -> Batch]
    <3>0. \A m \in Id : shown[u][m] \in Body \cup {None}
      BY <1>0 DEF Batch
    <3>1. \A m \in Id : Shown(shown[u][m], Head(down[u]), m) \in Body \cup {None}
      BY <2>1, <3>0, ShownTyped
    <3>2. [m \in Id |-> Shown(shown[u][m], Head(down[u]), m)] \in Batch
      BY <3>1 DEF Batch
    <3>3. shown' = [shown EXCEPT ![u] = [m \in Id |-> Shown(shown[u][m], Head(down[u]), m)]]
      BY <1>10 DEF HandleIncomingMessage
    <3>. QED BY <1>0, <3>2, <3>3
  <2>3. down' \in [User -> Seq(Notice)]
    BY <1>0, <1>10, <2>1 DEF HandleIncomingMessage
  <2>. QED BY <1>10, <2>2, <2>3 DEF HandleIncomingMessage, TypeOK, tableVars, sessionVars, loginVars, ghostVars
<1>11. ASSUME Tick PROVE TypeOK'
  <2>1. clock' \in 0 .. MaxClock
    BY <1>11 DEF Tick, TypeOK
  <2>. QED BY <1>11, <2>1 DEF Tick, TypeOK, tableVars, sessionVars, loginVars, ghostVars
<1>12. ASSUME Restart PROVE TypeOK'
  <2>1. shown' \in [User -> Batch] /\ down' \in [User -> Seq(Notice)] /\ synced' \in [User -> SUBSET Id]
    BY <1>12 DEF Restart, Empty, Batch
  <2>2. dead' \in [User -> 0 .. MaxDead] /\ lost' \in SUBSET Id
    BY <1>0, <1>b, <1>12 DEF Restart
  <2>3. conn' \in [User -> {"on", "off"}] /\ route' \in [User -> {"none", "live", "dead"}]
    BY <1>12 DEF Restart
  <2>. QED BY <1>12, <2>1, <2>2, <2>3 DEF Restart, TypeOK, tableVars
<1>13. ASSUME UNCHANGED vars PROVE TypeOK'
  BY <1>13 DEF vars, TypeOK, tableVars, sessionVars, loginVars, ghostVars
<1>14. ASSUME NEW u \in User, Changing(u) PROVE TypeOK'
  BY <1>3, <1>14, ChangingIs
<1>. QED
  BY <1>1, <1>2, <1>4, <1>5, <1>6, <1>7, <1>8, <1>9, <1>10, <1>11, <1>12, <1>13, <1>14, <1>15, <1>16
     DEF Next, Handle, Changing

(* The initial state is well typed. *)
LEMMA TypeInit == Init => TypeOK
<1> SUFFICES ASSUME Init PROVE TypeOK
  OBVIOUS
<1>1. messages \in Seq(Row) /\ Len(messages) <= MaxMessages
  BY DEF Init
<1>2. shown \in [User -> Batch] /\ down \in [User -> Seq(Notice)] /\ synced \in [User -> SUBSET Id]
  BY DEF Init, Empty, Batch
<1>3. dead \in [User -> 0 .. MaxDead] /\ clock \in 0 .. MaxClock
  BY DEF Init
<1>4. conn \in [User -> {"on", "off"}] /\ route \in [User -> {"none", "live", "dead"}]
  BY DEF Init
<1>5. members \in SUBSET User /\ created \in BOOLEAN /\ lost \in SUBSET Id /\ away \in SUBSET Id
  BY DEF Init
<1>6. handed \in [Id -> SUBSET {"push", "history"}]
  BY DEF Init
<1>7. login \in User \cup {None} /\ batch \in SUBSET DOMAIN messages /\ left \in SUBSET batch
  BY DEF Init
<1>. QED BY <1>1, <1>2, <1>3, <1>4, <1>5, <1>6, <1>7 DEF TypeOK

(* The tables, sessions, queues and stores keep their types.               *)
THEOREM SpecTypeOK == Spec => []TypeOK
BY TypeInit, TypeNext, PTL DEF Spec

-----------------------------------------------------------------------------
(***************************************************************************)
(* Private messages that wait for their recipient.                         *)
(***************************************************************************)

\* A login's batch holds private messages for its user, and is empty without a login.
Batching ==
    /\ login = None => batch = {}
    /\ \A m \in batch : messages[m].conv = login

(* A step that keeps the login, its batch and the rows of it keeps what the *)
(* batch is.                                                               *)
LEMMA BatchKept ==
    ASSUME Batching, UNCHANGED <<login, batch>>, \A m \in batch : messages'[m].conv = messages[m].conv
    PROVE  Batching'
BY DEF Batching

(* Every step keeps what a batch is.                                       *)
LEMMA BatchingNext == TypeOK /\ Batching /\ [Next]_vars => Batching'
<1> SUFFICES ASSUME TypeOK, Batching, [Next]_vars PROVE Batching'
  OBVIOUS
<1>0. messages \in Seq(Row) /\ batch \subseteq DOMAIN messages /\ left \subseteq batch
  BY DEF TypeOK
<1>1. CASE UNCHANGED <<login, batch, messages>>
  BY <1>1, BatchKept
<1>2. ASSUME NEW r \in Row, messages' = Append(messages, r), UNCHANGED <<login, batch>>
      PROVE  Batching'
  BY <1>0, <1>2, TableAppend, BatchKept
<1>3. ASSUME NEW u \in User, NEW v \in User, HandlePrivateMessage(u, v) PROVE Batching'
  <2>1. NewRow(u, v, route[v] # "none") \in Row
    BY NewRowTyped
  <2>. QED BY <1>2, <1>3, <2>1 DEF HandlePrivateMessage, loginVars
<1>4. ASSUME NEW u \in User, HandleGroupMessage(u) PROVE Batching'
  <2>1. NewRow(u, Group, TRUE) \in Row
    BY NewRowTyped
  <2>. QED BY <1>2, <1>4, <2>1 DEF HandleGroupMessage, loginVars
<1>5. ASSUME NEW u \in User, Changing(u) PROVE Batching'
  <2>1. PICK m \in Id, n \in Notice : Changes(u, m, n)
    BY <1>5, ChangingIs
  <2>2. /\ UNCHANGED <<login, batch>> /\ SameHead(messages'[m], messages[m])
        /\ \A i \in DOMAIN messages : i # m => messages'[i] = messages[i]
    BY <2>1, ChangesIs
  <2>3. \A i \in batch : messages'[i].conv = messages[i].conv
    BY <1>0, <2>2 DEF SameHead
  <2>. QED BY <2>2, <2>3, BatchKept
<1>6. ASSUME NEW u \in User, HandleLogin(u) PROVE Batching'
  <2>1. PICK T \in TrimToLimit(Waiting(u)) : batch' = T
    BY <1>6 DEF HandleLogin
  <2>2. \A m \in T : messages[m].conv = u
    BY TrimmedIn DEF Waiting
  <2>3. login' = u /\ login' # None /\ messages' = messages
    BY <1>6 DEF HandleLogin, tableVars
  <2>. QED BY <2>1, <2>2, <2>3 DEF Batching
<1>7. ASSUME NEW m \in Id, MarkNext(m) PROVE Batching'
  <2>1. m \in DOMAIN messages /\ messages' = MarkDelivered(m) /\ UNCHANGED <<login, batch>>
    BY <1>0, <1>7 DEF MarkNext
  <2>2. \A i \in DOMAIN messages : SameHead(messages'[i], messages[i])
    BY <1>0, <2>1, TableMarkDelivered
  <2>3. \A i \in batch : messages'[i].conv = messages[i].conv
    BY <1>0, <2>2 DEF SameHead
  <2>. QED BY <2>1, <2>3, BatchKept
<1>8. ASSUME DeliverOffline \/ Restart PROVE Batching'
  BY <1>8 DEF DeliverOffline, Restart, Batching
<1>. QED
  BY <1>1, <1>3, <1>4, <1>5, <1>6, <1>7, <1>8
     DEF Next, Handle, Changing, HandleHistory, HandleCreateGroup, HandleJoinGroup, HandleLeaveGroup, Cut,
         RemoveSession, HandleIncomingMessage, Tick, vars, tableVars, loginVars

\* WaitingIsNew and OfflinePushed, that what is marked is delivered, and that the
\* id of the next row is unused.
Delivery ==
    /\ \A m \in Id : handed[m] # {} => m \in DOMAIN messages
    /\ away \subseteq DOMAIN messages
    /\ WaitingIsNew
    /\ OfflinePushed
    /\ \A m \in batch \ left : messages[m].delivered

\* The history of the deliveries grows.
Grows ==
    /\ \A m \in Id : handed[m] \subseteq handed'[m]
    /\ lost \subseteq lost'
    /\ \A m \in batch \ left : m \in batch' \ left' \/ m \in lost' \/ "push" \in handed'[m]

(* The step of an unchanged table: the history only grows, pushes nothing  *)
(* that waits, and marks nothing.                                          *)
LEMMA DeliveryKept ==
    ASSUME TypeOK, Delivery, Grows, away' = away, DOMAIN messages' = DOMAIN messages,
           \A m \in DOMAIN messages : messages'[m].delivered = messages[m].delivered,
           \A m \in Id : "push" \in handed'[m] => "push" \in handed[m] \/ messages[m].delivered,
           \A m \in Id : handed'[m] \subseteq {"push", "history"},
           \A m \in Id : handed'[m] # {} => m \in DOMAIN messages,
           batch' \ left' \subseteq batch \ left
    PROVE  Delivery'
<1>0. DOMAIN messages \subseteq Id /\ batch \subseteq DOMAIN messages
  BY BatchedIs DEF TypeOK
<1>1. WaitingIsNew'
  BY <1>0 DEF Delivery, WaitingIsNew
<1>2. OfflinePushed'
  BY <1>0 DEF Delivery, OfflinePushed, Grows
<1>3. \A m \in batch' \ left' : messages'[m].delivered
  BY <1>0 DEF Delivery
<1>. QED BY <1>1, <1>2, <1>3 DEF Delivery

(* Every step keeps the delivery invariant.                                *)
LEMMA DeliveryNext == TypeOK /\ Batching /\ Delivery /\ [Next]_vars => Delivery'
<1> SUFFICES ASSUME TypeOK, Batching, Delivery, [Next]_vars PROVE Delivery'
  OBVIOUS
<1>0. /\ messages \in Seq(Row) /\ Len(messages) \in Nat /\ batch \subseteq DOMAIN messages /\ left \subseteq batch
      /\ handed \in [Id -> SUBSET {"push", "history"}]
  BY DEF TypeOK
<1>d. DOMAIN messages \subseteq Id
  BY BatchedIs DEF TypeOK
<1>k. ASSUME DOMAIN messages' = DOMAIN messages,
             \A m \in DOMAIN messages : messages'[m].delivered = messages[m].delivered,
             UNCHANGED <<batch, left, handed, lost, away>>
      PROVE  Delivery'
  BY <1>0, <1>k, DeliveryKept DEF Grows, Delivery
<1>1. CASE UNCHANGED <<messages, batch, left, handed, lost, away>>
  BY <1>1, <1>k
<1>2. ASSUME NEW r \in Row, messages' = Append(messages, r), UNCHANGED <<batch, left, lost>>,
             handed' = handed \/ (r.delivered /\ handed' = Hand({Len(messages) + 1}, "push")),
             away' = away \/ (~r.delivered /\ away' = away \cup {Len(messages) + 1})
      PROVE  Delivery'
  <2> DEFINE k == Len(messages) + 1
  <2>1. /\ DOMAIN messages' = DOMAIN messages \cup {k}
        /\ k \notin DOMAIN messages
        /\ \A m \in DOMAIN messages : messages'[m] = messages[m]
        /\ messages'[k] = r
    BY <1>0, <1>2, TableAppend
  <2>. HIDE DEF k
  <2>2. \A m \in Id : m # k => handed'[m] = handed[m]
    BY <1>2 DEF Hand, k
  <2>3. r.delivered \/ (handed' = handed /\ (k \in Id => handed[k] = {}))
    BY <1>2, <2>1 DEF Delivery
  <2>4. \A m \in DOMAIN messages' : m \in DOMAIN messages \/ m = k
    BY <2>1
  <2>5. \A m \in Id : handed'[m] # {} => m \in DOMAIN messages'
    BY <2>1, <2>2 DEF Delivery
  <2>6. WaitingIsNew'
    <3>1. ASSUME NEW m \in DOMAIN messages, ~messages'[m].delivered PROVE handed'[m] \subseteq {"history"}
      BY <1>d, <2>1, <2>2, <3>1 DEF Delivery, WaitingIsNew
    <3>2. CASE k \in Id /\ ~r.delivered
      BY <2>1, <2>3, <2>4, <3>1, <3>2 DEF WaitingIsNew
    <3>3. CASE r.delivered
      BY <2>1, <2>4, <3>1, <3>3 DEF WaitingIsNew
    <3>4. k \in Id
      <4>1. TypeOK'
        BY TypeNext
      <4>2. messages' \in Seq(Row) /\ Len(messages') <= MaxMessages /\ Len(messages') = Len(messages) + 1
        BY <1>0, <1>2, <4>1, TableAppend DEF TypeOK
      <4>. QED BY <1>0, <4>2 DEF Id, k
    <3>. QED BY <3>2, <3>3, <3>4
  <2>7. OfflinePushed'
    <3>1. ASSUME NEW m \in away, messages'[m].delivered
          PROVE  "push" \in handed'[m] \/ m \in lost' \/ m \in batch' \ left'
      <4>1. m \in DOMAIN messages /\ m \in Id /\ m # k
        BY <1>d, <2>1 DEF Delivery
      <4>. QED BY <1>2, <2>1, <2>2, <3>1, <4>1 DEF Delivery, OfflinePushed
    <3>. QED BY <1>2, <2>1, <3>1 DEF OfflinePushed, k
  <2>8. \A m \in batch' \ left' : messages'[m].delivered
    BY <1>0, <1>2, <2>1 DEF Delivery
  <2>9. away' \subseteq DOMAIN messages'
    BY <1>2, <2>1 DEF Delivery, k
  <2>. QED BY <2>5, <2>6, <2>7, <2>8, <2>9 DEF Delivery
<1>3. ASSUME NEW u \in User, NEW v \in User, HandlePrivateMessage(u, v) PROVE Delivery'
  <2> DEFINE r == NewRow(u, v, route[v] # "none")
  <2>1. r \in Row /\ r.delivered = (route[v] # "none")
    BY NewRowTyped
  <2>2. /\ messages' = Append(messages, r) /\ UNCHANGED <<batch, left, lost>>
        /\ handed' = IF route[v] = "live" THEN Hand({Len(messages) + 1}, "push") ELSE handed
        /\ away' = IF route[v] = "none" THEN away \cup {Len(messages) + 1} ELSE away
    BY <1>3 DEF HandlePrivateMessage, loginVars
  <2>. HIDE DEF r
  <2>. QED BY <1>2, <2>1, <2>2
<1>4. ASSUME NEW u \in User, HandleGroupMessage(u) PROVE Delivery'
  <2>1. NewRow(u, Group, TRUE) \in Row
    BY NewRowTyped
  <2>. QED BY <1>2, <1>4, <2>1 DEF HandleGroupMessage, loginVars, ghostVars
<1>5. ASSUME NEW u \in User, Changing(u) PROVE Delivery'
  <2>1. PICK m \in Id, n \in Notice : Changes(u, m, n)
    BY <1>5, ChangingIs
  <2>2. /\ DOMAIN messages' = DOMAIN messages /\ UNCHANGED <<batch, left, handed, lost, away>>
        /\ \A i \in DOMAIN messages : messages'[i].delivered = messages[i].delivered
    BY <2>1, ChangesIs
  <2>. QED BY <1>k, <2>2
<1>6. ASSUME NEW u \in User, NEW c \in User \cup {Group}, HandleHistory(u, c) PROVE Delivery'
  <2>1. PICK T \in TrimToLimit(InConversation(u, c)) :
            handed' = Hand({m \in T : messages[m].conv = u}, "history")
    BY <1>6 DEF HandleHistory
  <2>2. T \subseteq DOMAIN messages
    BY TrimmedIn DEF InConversation
  <2>3. UNCHANGED <<messages, batch, left, lost, away>>
    BY <1>6 DEF HandleHistory, tableVars, loginVars
  <2>4. \A m \in Id : /\ handed'[m] \subseteq handed[m] \cup {"history"}
                      /\ handed[m] \subseteq handed'[m]
                      /\ handed'[m] # handed[m] => m \in DOMAIN messages
    BY <2>1, <2>2 DEF Hand
  <2>5. /\ \A m \in Id : "push" \in handed'[m] => "push" \in handed[m]
        /\ \A m \in Id : handed'[m] \subseteq {"push", "history"}
        /\ \A m \in Id : handed'[m] # {} => m \in DOMAIN messages
    BY <1>0, <2>4 DEF Delivery
  <2>6. Grows
    BY <2>3, <2>4 DEF Grows
  <2>. QED BY <2>3, <2>5, <2>6, DeliveryKept
<1>7. ASSUME NEW u \in User, HandleLogin(u) PROVE Delivery'
  <2>1. /\ batch' = left' /\ batch = {} /\ UNCHANGED <<messages, handed, lost, away>>
    BY <1>7 DEF HandleLogin, Idle, Batching, tableVars, ghostVars
  <2>2. Grows
    BY <2>1 DEF Grows
  <2>3. \A m \in Id : handed'[m] \subseteq {"push", "history"}
    BY <1>0, <2>1
  <2>. QED BY <2>1, <2>2, <2>3, DeliveryKept DEF Delivery
<1>8. ASSUME NEW k \in Id, MarkNext(k) PROVE Delivery'
  <2>1. /\ k \in DOMAIN messages /\ k \in batch /\ k \in left /\ messages' = MarkDelivered(k)
        /\ left' = left \ {k} /\ UNCHANGED <<batch, handed, lost, away>>
    BY <1>0, <1>8 DEF MarkNext, ghostVars
  <2>2. /\ DOMAIN messages' = DOMAIN messages /\ messages'[k].delivered
        /\ \A i \in DOMAIN messages : i # k => messages'[i] = messages[i]
    BY <1>0, <2>1, TableMarkDelivered
  <2>3. WaitingIsNew'
    BY <2>1, <2>2 DEF Delivery, WaitingIsNew
  <2>4. OfflinePushed'
    BY <2>1, <2>2 DEF Delivery, OfflinePushed
  <2>5. \A m \in batch' \ left' : messages'[m].delivered
    BY <1>0, <2>1, <2>2 DEF Delivery
  <2>. QED BY <2>1, <2>2, <2>3, <2>4, <2>5 DEF Delivery
<1>9. ASSUME DeliverOffline PROVE Delivery'
  <2>1. left = {} /\ batch' = {} /\ left' = {} /\ UNCHANGED <<messages, away>>
    BY <1>9 DEF DeliverOffline, tableVars
  <2>2. CASE route[login] = "live"
    <3>1. handed' = Hand(batch, "push") /\ lost' = lost
      BY <1>9, <2>2 DEF DeliverOffline
    <3>2. \A m \in Id : /\ handed'[m] \subseteq handed[m] \cup {"push"}
                        /\ handed[m] \subseteq handed'[m]
                        /\ handed'[m] # handed[m] => m \in batch
                        /\ m \in batch => "push" \in handed'[m]
      BY <3>1 DEF Hand
    <3>3. \A m \in batch : messages[m].delivered /\ m \in DOMAIN messages /\ m \in Id
      BY <1>0, <1>d, <2>1 DEF Delivery
    <3>4. Grows
      BY <3>1, <3>2, <3>3 DEF Grows
    <3>5. /\ \A m \in Id : "push" \in handed'[m] => "push" \in handed[m] \/ messages[m].delivered
          /\ \A m \in Id : handed'[m] \subseteq {"push", "history"}
          /\ \A m \in Id : handed'[m] # {} => m \in DOMAIN messages
      BY <1>0, <3>2, <3>3 DEF Delivery
    <3>. QED BY <2>1, <3>4, <3>5, DeliveryKept
  <2>3. CASE route[login] # "live"
    <3>1. handed' = handed /\ lost' = lost \cup batch
      BY <1>9, <2>3 DEF DeliverOffline
    <3>2. Grows
      BY <3>1 DEF Grows
    <3>3. \A m \in Id : handed'[m] \subseteq {"push", "history"}
      BY <1>0, <3>1
    <3>. QED BY <2>1, <3>1, <3>2, <3>3, DeliveryKept DEF Delivery
  <2>. QED BY <2>2, <2>3
<1>10. ASSUME Restart PROVE Delivery'
  <2>1. /\ batch' = {} /\ left' = {} /\ lost' = lost \cup (batch \ left)
        /\ UNCHANGED <<messages, handed, away>>
    BY <1>10 DEF Restart, tableVars
  <2>2. Grows
    BY <2>1 DEF Grows
  <2>3. \A m \in Id : handed'[m] \subseteq {"push", "history"}
    BY <1>0, <2>1
  <2>. QED BY <2>1, <2>2, <2>3, DeliveryKept DEF Delivery
<1>. QED
  BY <1>1, <1>3, <1>4, <1>5, <1>6, <1>7, <1>8, <1>9, <1>10
     DEF Next, Handle, Changing, HandleCreateGroup, HandleJoinGroup, HandleLeaveGroup, Cut,
         RemoveSession, HandleIncomingMessage, Tick, vars, tableVars, loginVars, ghostVars

(* The initial state satisfies the delivery invariant, with no batch.      *)
LEMMA DeliveryInit == Init => Batching /\ Delivery
<1> SUFFICES ASSUME Init PROVE Batching /\ Delivery
  OBVIOUS
<1>1. batch = {} /\ away = {} /\ DOMAIN messages = {}
  BY DEF Init
<1>2. \A m \in Id : handed[m] = {}
  BY DEF Init
<1>. QED BY <1>1, <1>2 DEF Batching, Delivery, WaitingIsNew, OfflinePushed

(* deliverOffline repeats no push: a message it finds waiting was never    *)
(* pushed to a live session of its recipient, neither by                   *)
(* handlePrivateMessage nor by an earlier login; a history reply may have  *)
(* shown it.                                                               *)
THEOREM SpecWaitingIsNew == Spec => []WaitingIsNew
<1>1. Delivery => WaitingIsNew
  BY DEF Delivery
<1>. QED BY TypeInit, TypeNext, DeliveryInit, BatchingNext, DeliveryNext, <1>1, PTL DEF Spec

(* A message stored while its recipient had no session is marked delivered *)
(* only in the batch of a login that pushes it, or loses it because the    *)
(* process or the connection ends before deliverOffline sends the batch:   *)
(* trimToLimit, later logins and restarts lose nothing else.               *)
THEOREM SpecOfflinePushed == Spec => []OfflinePushed
<1>1. Delivery => OfflinePushed
  BY DEF Delivery
<1>. QED BY TypeInit, TypeNext, DeliveryInit, BatchingNext, DeliveryNext, <1>1, PTL DEF Spec

-----------------------------------------------------------------------------
(***************************************************************************)
(* Deletion.  A notice kills a message or brings one back to life; no      *)
(* queue holds a notice that revives what the client already shows as      *)
(* deleted, or what an earlier notice of the queue kills.                  *)
(***************************************************************************)

IsGone(v) == v # None /\ v.deleted

Kills(n, m) ==
    \/ n.kind = "delete" /\ n.id = m
    \/ n.kind = "push" /\ IsGone(n.msgs[m])

Revives(n, m) ==
    \/ n.kind = "edit" /\ n.id = m
    \/ n.kind = "push" /\ n.msgs[m] # None /\ ~n.msgs[m].deleted

\* The body in a push of a deleted message has no text.
Textless(n, m) == n.kind = "push" /\ IsGone(n.msgs[m]) => n.msgs[m].text = 0

\* Somebody has told the client, or is about to, that m is deleted.
SaidGone(q, v, m) == IsGone(v) \/ \E i \in 1 .. Len(q) : Kills(q[i], m)

StaysGone(q, v, m) ==
    /\ IsGone(v) => v.text = 0 /\ \A j \in 1 .. Len(q) : ~Revives(q[j], m)
    /\ \A i \in 1 .. Len(q) : Textless(q[i], m)
    /\ \A i \in 1 .. Len(q) : Kills(q[i], m) => \A j \in (i + 1) .. Len(q) : ~Revives(q[j], m)

GoneInTable(m) == m \in DOMAIN messages /\ messages[m].body.deleted

Deletion ==
    /\ \A m \in DOMAIN messages : messages[m].body.deleted => messages[m].body.text = 0
    /\ \A u \in User, m \in Id :
         /\ StaysGone(down[u], shown[u][m], m)
         /\ SaidGone(down[u], shown[u][m], m) => GoneInTable(m)

(* A notice that does not revive a deleted message may join the queue. *)
LEMMA GoneAppend ==
    ASSUME NEW q \in Seq(Notice), NEW v, NEW m, NEW n \in Notice, StaysGone(q, v, m),
           SaidGone(q, v, m) => ~Revives(n, m), Textless(n, m)
    PROVE  /\ StaysGone(Append(q, n), v, m)
           /\ SaidGone(Append(q, n), v, m) => SaidGone(q, v, m) \/ Kills(n, m)
<1> DEFINE r == Append(q, n)
<1>1. /\ Len(q) \in Nat /\ Len(r) = Len(q) + 1 /\ r[Len(q) + 1] = n
      /\ \A i \in 1 .. Len(q) : r[i] = q[i]
  OBVIOUS
<1> HIDE DEF r
<1>2. \A i \in 1 .. Len(r) : i \in 1 .. Len(q) \/ i = Len(q) + 1
  BY <1>1
<1>3. IsGone(v) => v.text = 0 /\ \A j \in 1 .. Len(r) : ~Revives(r[j], m)
  BY <1>1, <1>2 DEF StaysGone, SaidGone
<1>4. \A i \in 1 .. Len(r) : Textless(r[i], m)
  BY <1>1, <1>2 DEF StaysGone
<1>5. ASSUME NEW i \in 1 .. Len(r), Kills(r[i], m), NEW j \in (i + 1) .. Len(r)
      PROVE  ~Revives(r[j], m)
  <2>1. i \in 1 .. Len(q) /\ r[i] = q[i] /\ Kills(q[i], m)
    BY <1>1, <1>2, <1>5
  <2>2. CASE j = Len(q) + 1
    BY <1>1, <2>1, <2>2 DEF SaidGone
  <2>3. CASE j # Len(q) + 1
    <3>1. j \in (i + 1) .. Len(q) /\ j \in 1 .. Len(q)
      BY <1>1, <2>1, <2>3
    <3>. QED BY <1>1, <2>1, <3>1 DEF StaysGone
  <2>. QED BY <2>2, <2>3
<1>6. SaidGone(r, v, m) => SaidGone(q, v, m) \/ Kills(n, m)
  BY <1>1, <1>2 DEF SaidGone
<1>. QED BY <1>3, <1>4, <1>5, <1>6 DEF StaysGone, r

(* Handling such a notice neither revives a deleted message nor gives it a text. *)
LEMMA GoneShown ==
    ASSUME NEW v \in Body \cup {None}, NEW n \in Notice, NEW m \in Id,
           IsGone(v) => v.text = 0 /\ ~Revives(n, m), Textless(n, m)
    PROVE  /\ IsGone(Shown(v, n, m)) => Shown(v, n, m).text = 0 /\ (IsGone(v) \/ Kills(n, m))
           /\ IsGone(v) => IsGone(Shown(v, n, m))
<1>1. CASE n.kind = "push"
  BY <1>1, ShownPush DEF IsGone, Revives, Kills, Textless
<1>2. CASE n.kind # "push" /\ (v = None \/ m # n.id)
  BY <1>2, ShownOther DEF IsGone
<1>3. CASE n.kind # "push" /\ v # None /\ m = n.id
  <2>1. /\ v \in Body /\ Shown(v, n, m) \in Body
        /\ n.kind = "delete" => Shown(v, n, m).deleted /\ Shown(v, n, m).text = 0
        /\ n.kind # "delete" => Shown(v, n, m).deleted = v.deleted
        /\ n.kind \notin {"delete", "edit"} => Shown(v, n, m).text = v.text
    BY <1>3, ShownBody
  <2>2. Shown(v, n, m) # None
    BY <2>1
  <2>. QED BY <1>3, <2>1, <2>2 DEF IsGone, Revives, Kills
<1>. QED BY <1>1, <1>2, <1>3

(* Handling the first notice of a queue keeps what the queue says of a deleted message. *)
LEMMA GoneTail ==
    ASSUME NEW q \in Seq(Notice), q # <<>>, NEW v \in Body \cup {None}, NEW m \in Id, StaysGone(q, v, m)
    PROVE  LET w == Shown(v, Head(q), m)
           IN  /\ StaysGone(Tail(q), w, m)
               /\ SaidGone(Tail(q), w, m) => SaidGone(q, v, m)
               /\ IsGone(v) => IsGone(w) /\ w.text = 0
<1> DEFINE w == Shown(v, Head(q), m)
           t == Tail(q)
<1>1. /\ Len(q) \in Nat \ {0} /\ Len(t) = Len(q) - 1 /\ Head(q) = q[1] /\ Head(q) \in Notice
      /\ \A i \in 1 .. Len(t) : t[i] = q[i + 1]
  OBVIOUS
<1>2. 1 \in 1 .. Len(q)
  BY <1>1
<1>3. Textless(Head(q), m) /\ (IsGone(v) => v.text = 0 /\ ~Revives(Head(q), m))
  BY <1>1, <1>2 DEF StaysGone
<1>4. /\ IsGone(w) => w.text = 0 /\ (IsGone(v) \/ Kills(Head(q), m))
      /\ IsGone(v) => IsGone(w)
  BY <1>1, <1>3, GoneShown
<1> HIDE DEF w, t
<1>5. \A i \in 1 .. Len(t) : i + 1 \in 1 .. Len(q) /\ i + 1 \in 2 .. Len(q)
  BY <1>1
<1>6. \A i \in 1 .. Len(t) : Textless(t[i], m)
  BY <1>1, <1>5 DEF StaysGone
<1>7. ASSUME NEW i \in 1 .. Len(t), Kills(t[i], m), NEW j \in (i + 1) .. Len(t)
      PROVE  ~Revives(t[j], m)
  <2>1. j \in 1 .. Len(t) /\ i + 1 \in 1 .. Len(q) /\ j + 1 \in ((i + 1) + 1) .. Len(q)
    BY <1>1, <1>7
  <2>2. Kills(q[i + 1], m) /\ t[j] = q[j + 1]
    BY <1>1, <1>7, <2>1
  <2>. QED BY <2>1, <2>2 DEF StaysGone
<1>8. ASSUME IsGone(w), NEW j \in 1 .. Len(t) PROVE ~Revives(t[j], m)
  <2>1. t[j] = q[j + 1] /\ j + 1 \in 1 .. Len(q) /\ j + 1 \in (1 + 1) .. Len(q)
    BY <1>1, <1>5
  <2>2. CASE IsGone(v)
    BY <2>1, <2>2 DEF StaysGone
  <2>3. CASE Kills(Head(q), m)
    BY <1>1, <1>2, <2>1, <2>3 DEF StaysGone
  <2>. QED BY <1>4, <1>8, <2>2, <2>3
<1>9. SaidGone(t, w, m) => SaidGone(q, v, m)
  BY <1>1, <1>2, <1>4, <1>5 DEF SaidGone
<1>. QED BY <1>4, <1>6, <1>7, <1>8, <1>9 DEF StaysGone, w, t

(* A queue that is emptied, and a message that is dropped from the store.  *)
LEMMA GoneDropped ==
    ASSUME NEW q, NEW v, NEW m, NEW r \in {q, <<>>}, NEW w \in {v, None}, StaysGone(q, v, m)
    PROVE  StaysGone(r, w, m) /\ (SaidGone(r, w, m) => SaidGone(q, v, m))
<1>1. Len(<<>>) = 0 /\ 1 .. 0 = {}
  OBVIOUS
<1>2. ~IsGone(None)
  BY DEF IsGone
<1>3. CASE r = q
  BY <1>2, <1>3 DEF StaysGone, SaidGone
<1>4. CASE r = <<>>
  BY <1>1, <1>2, <1>4 DEF StaysGone, SaidGone
<1>. QED BY <1>3, <1>4

\* What Deletion says of one client and one message.
GoneAt(w, m) ==
    /\ StaysGone(down[w], shown[w][m], m)
    /\ SaidGone(down[w], shown[w][m], m) => GoneInTable(m)

\* The notice n may be put behind every queue in this step.
Harmless(n) ==
    \A m \in Id : /\ GoneInTable(m) => ~Revives(n, m)
                  /\ Kills(n, m) => GoneInTable(m)'
                  /\ Textless(n, m)

(* A step that adds the harmless notice to some queues, or empties them.   *)
LEMMA GoneStep ==
    ASSUME TypeOK, NEW w \in User, NEW m \in Id, GoneAt(w, m), GoneInTable(m) => GoneInTable(m)',
           NEW n \in Notice, Harmless(n), shown'[w][m] \in {shown[w][m], None},
           NEW q \in {down[w], <<>>}, down'[w] \in {q, Append(q, n), Append(Append(q, n), n)}
    PROVE  GoneAt(w, m)'
<1> DEFINE v == shown'[w][m]
           r == Append(q, n)
<1>1. q \in Seq(Notice)
  <2>1. down[w] \in Seq(Notice)
    BY DEF TypeOK
  <2>2. <<>> \in Seq(Notice)
    OBVIOUS
  <2>3. q = down[w] \/ q = <<>>
    OBVIOUS
  <2>. QED BY <2>1, <2>2, <2>3, Zenon
<1>2. StaysGone(q, v, m) /\ (SaidGone(q, v, m) => GoneInTable(m))
  BY GoneDropped DEF GoneAt
<1>3. /\ GoneInTable(m) => ~Revives(n, m)
      /\ Kills(n, m) => GoneInTable(m)' /\ ~Revives(n, m)
      /\ Textless(n, m)
  BY DEF Harmless, Kills, Revives, IsGone
<1> HIDE DEF v
<1>4. StaysGone(r, v, m) /\ (SaidGone(r, v, m) => SaidGone(q, v, m) \/ Kills(n, m))
  <2>1. SaidGone(q, v, m) => ~Revives(n, m)
    BY <1>2, <1>3
  <2>. QED BY <1>1, <1>2, <1>3, <2>1, GoneAppend
<1>5. r \in Seq(Notice)
  BY <1>1
<1> HIDE DEF r
<1>6. /\ StaysGone(Append(r, n), v, m)
      /\ SaidGone(Append(r, n), v, m) => SaidGone(r, v, m) \/ Kills(n, m)
  <2>1. SaidGone(r, v, m) => ~Revives(n, m)
    BY <1>2, <1>3, <1>4
  <2>. QED BY <1>3, <1>4, <1>5, <2>1, GoneAppend
<1>7. /\ StaysGone(down'[w], v, m)
      /\ SaidGone(down'[w], v, m) => SaidGone(q, v, m) \/ Kills(n, m)
  BY <1>2, <1>4, <1>6 DEF r
<1>. QED BY <1>2, <1>3, <1>7 DEF GoneAt, v

(* A step that sends a client nothing new about a message keeps its deletion. *)
LEMMA QuietStep ==
    ASSUME TypeOK, NEW w \in User, NEW m \in Id, GoneAt(w, m), GoneInTable(m) => GoneInTable(m)',
           shown'[w][m] \in {shown[w][m], None}, down'[w] \in {down[w], <<>>}
    PROVE  GoneAt(w, m)'
BY GoneDropped DEF GoneAt

(* A push of what the table has is harmless.                               *)
LEMMA PushHarmless ==
    ASSUME NEW b \in Batch, \A m \in Id : b[m] # None =>
              (GoneInTable(m) => b[m].deleted) /\ (b[m].deleted => GoneInTable(m)' /\ b[m].text = 0)
    PROVE  Harmless([kind |-> "push", msgs |-> b])
<1> DEFINE n == [kind |-> "push", msgs |-> b]
<1>1. n.kind = "push" /\ n.msgs = b
  OBVIOUS
<1> HIDE DEF n
<1>2. Harmless(n)
  BY <1>1 DEF Harmless, Revives, Kills, Textless, IsGone
<1>. QED BY <1>2 DEF n

(* Sending a notice appends it to a queue or leaves the queue alone. *)
LEMMA DeliveredTo ==
    ASSUME TypeOK, NEW W, NEW n, NEW w \in User
    PROVE  Deliver(W, n)[w] \in {down[w], Append(down[w], n)}
BY DEF Deliver

TableTextless == \A m \in DOMAIN messages : messages[m].body.deleted => messages[m].body.text = 0

\* The table's part of DeletedForGood, and the clients' part.
TableForGood ==
    \A m \in DOMAIN messages :
        messages[m].body.deleted => messages'[m].body.deleted /\ messages'[m].body.text = 0

ClientsForGood ==
    \A u \in User, m \in Id :
        (shown[u][m] # None /\ shown'[u][m] # None /\ shown[u][m].deleted) =>
            shown'[u][m].deleted /\ shown'[u][m].text = 0

(* A message deleted in the table stays so. *)
LEMMA TableGone ==
    ASSUME TypeOK, TableForGood, DOMAIN messages \subseteq DOMAIN messages'
    PROVE  \A m \in Id : GoneInTable(m) => GoneInTable(m)'
BY DEF TableForGood, GoneInTable

(* No step revives a deleted row, gives it a text, or removes a row. *)
LEMMA DeletionTable ==
    ASSUME TypeOK, TableTextless, [Next]_vars
    PROVE  TableTextless' /\ TableForGood /\ DOMAIN messages \subseteq DOMAIN messages'
<1>0. messages \in Seq(Row)
  BY DEF TypeOK
<1>1. CASE UNCHANGED messages
  BY <1>1 DEF TableTextless, TableForGood
<1>2. ASSUME NEW r \in Row, ~r.body.deleted, messages' = Append(messages, r)
      PROVE  TableTextless' /\ TableForGood /\ DOMAIN messages \subseteq DOMAIN messages'
  BY <1>0, <1>2, TableAppend DEF TableTextless, TableForGood
<1>3. ASSUME NEW u \in User, NEW v \in User, HandlePrivateMessage(u, v)
      PROVE  TableTextless' /\ TableForGood /\ DOMAIN messages \subseteq DOMAIN messages'
  <2>1. NewRow(u, v, route[v] # "none") \in Row /\ ~NewRow(u, v, route[v] # "none").body.deleted
    BY NewRowTyped
  <2>. QED BY <1>2, <1>3, <2>1 DEF HandlePrivateMessage
<1>4. ASSUME NEW u \in User, HandleGroupMessage(u)
      PROVE  TableTextless' /\ TableForGood /\ DOMAIN messages \subseteq DOMAIN messages'
  <2>1. NewRow(u, Group, TRUE) \in Row /\ ~NewRow(u, Group, TRUE).body.deleted
    BY NewRowTyped
  <2>. QED BY <1>2, <1>4, <2>1 DEF HandleGroupMessage
<1>5. ASSUME NEW u \in User, Changing(u)
      PROVE  TableTextless' /\ TableForGood /\ DOMAIN messages \subseteq DOMAIN messages'
  <2>1. PICK m \in Id, n \in Notice : Changes(u, m, n)
    BY <1>5, ChangingIs
  <2>2. /\ m \in DOMAIN messages /\ n.kind # "push" /\ m = n.id
        /\ n.kind = "edit" => ~messages[m].body.deleted
    BY <2>1 DEF Changes
  <2>3. /\ messages[m].body \in Body
        /\ DOMAIN messages' = DOMAIN messages
        /\ \A i \in DOMAIN messages : i # m => messages'[i] = messages[i]
        /\ messages'[m].body = Shown(messages[m].body, n, m)
    BY <2>1, ChangesIs
  <2> DEFINE b == Shown(messages[m].body, n, m)
  <2>4. /\ n.kind = "delete" => b.deleted /\ b.text = 0
        /\ n.kind # "delete" => b.deleted = messages[m].body.deleted
        /\ n.kind \notin {"delete", "edit"} => b.text = messages[m].body.text
    BY <2>2, <2>3, ShownBody
  <2>. HIDE DEF b
  <2>5. /\ messages[m].body.deleted => b.deleted
        /\ b.deleted => b.text = 0
    BY <2>2, <2>4 DEF TableTextless
  <2>. QED BY <2>2, <2>3, <2>5 DEF TableTextless, TableForGood, b
<1>6. ASSUME NEW k \in Id, MarkNext(k)
      PROVE  TableTextless' /\ TableForGood /\ DOMAIN messages \subseteq DOMAIN messages'
  <2>1. k \in DOMAIN messages /\ messages' = MarkDelivered(k)
    BY <1>6 DEF MarkNext, TypeOK
  <2>2. /\ DOMAIN messages' = DOMAIN messages
        /\ \A i \in DOMAIN messages : messages'[i].body = messages[i].body
    BY <1>0, <2>1, TableMarkDelivered
  <2>. QED BY <2>2 DEF TableTextless, TableForGood
<1>. QED
  BY <1>1, <1>3, <1>4, <1>5, <1>6
     DEF Next, Handle, Changing, HandleHistory, HandleCreateGroup, HandleJoinGroup, HandleLeaveGroup, Cut,
         HandleLogin, DeliverOffline, RemoveSession, HandleIncomingMessage, Tick, Restart, vars, tableVars

(* Every step keeps deletions, in the table and at the clients. *)
LEMMA DeletionNext ==
    ASSUME TypeOK, Deletion, [Next]_vars
    PROVE  Deletion' /\ TableForGood /\ ClientsForGood
<1>0. /\ messages \in Seq(Row) /\ Len(messages) <= MaxMessages /\ Len(messages) \in Nat
      /\ down \in [User -> Seq(Notice)] /\ shown \in [User -> Batch]
  BY DEF TypeOK
<1>a. TableTextless /\ \A w \in User, m \in Id : GoneAt(w, m)
  BY DEF Deletion, TableTextless, GoneAt
<1>b. TableTextless' /\ TableForGood /\ \A m \in Id : GoneInTable(m) => GoneInTable(m)'
  BY <1>a, DeletionTable, TableGone
<1>c. SUFFICES (\A w \in User, m \in Id : GoneAt(w, m)') /\ ClientsForGood
  <2>1. (\A w \in User, m \in Id : GoneAt(w, m)') => Deletion'
    BY <1>b DEF Deletion, TableTextless, GoneAt
  <2>. QED BY <1>b, <2>1
<1>d. \A w \in User, m \in Id : shown[w][m] \in Body \cup {None}
  BY <1>0 DEF Batch
<1>e. \A w \in User, m \in Id : IsGone(shown[w][m]) => shown[w][m].text = 0
  BY <1>a DEF GoneAt, StaysGone
<1>f. ASSUME \A w \in User, m \in Id : shown'[w][m] \in {shown[w][m], None}
      PROVE  ClientsForGood
  BY <1>e, <1>f DEF ClientsForGood, IsGone
<1>1. CASE /\ \A w \in User : down'[w] \in {down[w], <<>>}
           /\ \A w \in User, m \in Id : shown'[w][m] \in {shown[w][m], None}
  <2>1. \A w \in User, m \in Id : GoneAt(w, m)'
    BY <1>1, <1>a, <1>b, QuietStep
  <2>. QED BY <1>1, <1>f, <2>1
<1>2. ASSUME NEW n \in Notice, Harmless(n), shown' = shown,
             \A w \in User : \E q \in {down[w], <<>>} :
                                down'[w] \in {q, Append(q, n), Append(Append(q, n), n)}
      PROVE  (\A w \in User, m \in Id : GoneAt(w, m)') /\ ClientsForGood
  <2>1. ASSUME NEW w \in User, NEW m \in Id PROVE GoneAt(w, m)'
    <3>1. PICK q \in {down[w], <<>>} : down'[w] \in {q, Append(q, n), Append(Append(q, n), n)}
      BY <1>2
    <3>2. GoneAt(w, m) /\ (GoneInTable(m) => GoneInTable(m)')
      BY <1>a, <1>b
    <3>3. shown'[w][m] \in {shown[w][m], None}
      BY <1>2
    <3>. QED BY <1>2, <3>1, <3>2, <3>3, GoneStep
  <2>. QED BY <1>2, <1>f, <2>1
<1>3. ASSUME NEW u \in User, NEW v \in User, HandlePrivateMessage(u, v)
      PROVE  (\A w \in User, m \in Id : GoneAt(w, m)') /\ ClientsForGood
  <2> DEFINE k == Len(messages) + 1
             r == NewRow(u, v, route[v] # "none")
             e == [Empty EXCEPT ![k] = r.body]
             n == [kind |-> "push", msgs |-> e]
  <2>1. k \in Id /\ shown' = shown /\ down' = [Deliver({v}, n) EXCEPT ![u] = Append(@, n)]
    BY <1>3 DEF HandlePrivateMessage
  <2>2. r.body \in Body /\ ~r.body.deleted
    BY NewRowTyped
  <2>3. k \notin DOMAIN messages
    BY <1>0
  <2>. HIDE DEF r
  <2>4. e \in Batch /\ e[k] = r.body /\ \A i \in Id : i # k => e[i] = None
    BY <2>1, <2>2, OneMessage
  <2>. HIDE DEF e
  <2>5. n \in Notice /\ Harmless(n)
    <3>1. n \in Notice
      BY <2>4, PushTyped DEF Push
    <3>2. \A m \in Id : e[m] # None => ~GoneInTable(m) /\ ~e[m].deleted
      BY <2>2, <2>3, <2>4 DEF GoneInTable
    <3>. QED BY <2>4, <3>1, <3>2, PushHarmless
  <2>6. ASSUME NEW w \in User
        PROVE  down'[w] \in {down[w], Append(down[w], n), Append(Append(down[w], n), n)}
    <3>. HIDE DEF n
    <3>1. Deliver({v}, n)[w] \in {down[w], Append(down[w], n)} /\ DOMAIN Deliver({v}, n) = User
      BY DeliveredTo DEF Deliver
    <3>2. down'[w] \in {Deliver({v}, n)[w], Append(Deliver({v}, n)[w], n)}
      BY <2>1, <3>1
    <3>. QED BY <3>1, <3>2
  <2>. QED BY <1>2, <2>1, <2>5, <2>6
<1>4. ASSUME NEW u \in User, HandleGroupMessage(u)
      PROVE  (\A w \in User, m \in Id : GoneAt(w, m)') /\ ClientsForGood
  <2> DEFINE k == Len(messages) + 1
             r == NewRow(u, Group, TRUE)
             e == [Empty EXCEPT ![k] = r.body]
             n == [kind |-> "push", msgs |-> e]
  <2>1. k \in Id /\ shown' = shown /\ down' = Deliver(members, n)
    BY <1>4 DEF HandleGroupMessage
  <2>2. r.body \in Body /\ ~r.body.deleted
    BY NewRowTyped
  <2>3. k \notin DOMAIN messages
    BY <1>0
  <2>. HIDE DEF r
  <2>4. e \in Batch /\ e[k] = r.body /\ \A i \in Id : i # k => e[i] = None
    BY <2>1, <2>2, OneMessage
  <2>. HIDE DEF e
  <2>5. n \in Notice /\ Harmless(n)
    <3>1. n \in Notice
      BY <2>4, PushTyped DEF Push
    <3>2. \A m \in Id : e[m] # None => ~GoneInTable(m) /\ ~e[m].deleted
      BY <2>2, <2>3, <2>4 DEF GoneInTable
    <3>. QED BY <2>4, <3>1, <3>2, PushHarmless
  <2>6. \A w \in User : down'[w] \in {down[w], Append(down[w], n)}
    BY <2>1, DeliveredTo
  <2>. QED BY <1>2, <2>1, <2>5, <2>6
<1>5. ASSUME NEW u \in User, Changing(u)
      PROVE  (\A w \in User, m \in Id : GoneAt(w, m)') /\ ClientsForGood
  <2>1. PICK k \in Id, n \in Notice : Changes(u, k, n)
    BY <1>5, ChangingIs
  <2>2. /\ k \in DOMAIN messages /\ n.kind # "push" /\ k = n.id
        /\ n.kind = "edit" => ~messages[k].body.deleted
    BY <2>1 DEF Changes
  <2>3. /\ messages[k].body \in Body
        /\ DOMAIN messages' = DOMAIN messages
        /\ messages'[k].body = Shown(messages[k].body, n, k)
        /\ down' = Deliver(Recipients(u, ConversationOf(u, k)), n)
        /\ shown' = shown
    BY <2>1, ChangesIs
  <2>4. n.kind = "delete" => Shown(messages[k].body, n, k).deleted
    BY <2>2, <2>3, ShownBody
  <2>5. Harmless(n)
    BY <2>2, <2>3, <2>4 DEF Harmless, Revives, Kills, Textless, GoneInTable
  <2>6. \A w \in User : down'[w] \in {down[w], Append(down[w], n)}
    BY <2>3, DeliveredTo
  <2>. QED BY <1>2, <2>3, <2>5, <2>6
<1>6. ASSUME NEW T \in SUBSET DOMAIN messages, \A m \in T : messages'[m].body = messages[m].body,
             DOMAIN messages' = DOMAIN messages
      PROVE  LET n == [kind |-> "push", msgs |-> Batched(T)] IN n \in Notice /\ Harmless(n)
  <2>1. /\ Batched(T) \in Batch /\ T \in SUBSET Id
        /\ \A m \in T : Batched(T)[m] = messages[m].body
        /\ \A m \in Id : m \notin T => Batched(T)[m] = None
    BY <1>0, BatchedIs
  <2>2. [kind |-> "push", msgs |-> Batched(T)] \in Notice
    BY <2>1, PushTyped DEF Push
  <2>3. \A m \in Id : Batched(T)[m] # None =>
            /\ GoneInTable(m) => Batched(T)[m].deleted
            /\ Batched(T)[m].deleted => GoneInTable(m)' /\ Batched(T)[m].text = 0
    BY <1>6, <1>a, <2>1 DEF GoneInTable, TableTextless
  <2>4. Harmless([kind |-> "push", msgs |-> Batched(T)])
    BY <2>1, <2>3, PushHarmless
  <2>. QED BY <2>2, <2>4
<1>7. ASSUME NEW u \in User, NEW c \in User \cup {Group}, HandleHistory(u, c)
      PROVE  (\A w \in User, m \in Id : GoneAt(w, m)') /\ ClientsForGood
  <2>1. PICK T \in TrimToLimit(InConversation(u, c)) :
            down' = [down EXCEPT ![u] = Append(@, [kind |-> "push", msgs |-> Batched(T)])]
    BY <1>7 DEF HandleHistory
  <2> DEFINE n == [kind |-> "push", msgs |-> Batched(T)]
  <2>2. T \in SUBSET DOMAIN messages /\ messages' = messages /\ shown' = shown
    BY <1>7, TrimmedIn DEF InConversation, HandleHistory, tableVars
  <2>3. n \in Notice /\ Harmless(n)
    BY <1>6, <2>2
  <2>. HIDE DEF n
  <2>4. \A w \in User : down'[w] \in {down[w], Append(down[w], n)}
    BY <1>0, <2>1 DEF n
  <2>. QED BY <1>2, <2>2, <2>3, <2>4
<1>8. ASSUME DeliverOffline
      PROVE  (\A w \in User, m \in Id : GoneAt(w, m)') /\ ClientsForGood
  <2> DEFINE n == [kind |-> "push", msgs |-> Batched(batch)]
  <2>1. down' = down \/ down' = [down EXCEPT ![login] = Append(@, n)]
    BY <1>8 DEF DeliverOffline
  <2>2. batch \in SUBSET DOMAIN messages /\ messages' = messages /\ shown' = shown
    BY <1>8 DEF DeliverOffline, TypeOK, tableVars
  <2>3. n \in Notice /\ Harmless(n)
    BY <1>6, <2>2
  <2>. HIDE DEF n
  <2>4. \A w \in User : down'[w] \in {down[w], Append(down[w], n)}
    BY <1>0, <2>1
  <2>. QED BY <1>2, <2>2, <2>3, <2>4
<1>9. ASSUME NEW u \in User, HandleLeaveGroup(u)
      PROVE  (\A w \in User, m \in Id : GoneAt(w, m)') /\ ClientsForGood
  <2>1. \A w \in User, m \in Id : shown'[w][m] \in {shown[w][m], None}
    BY <1>0, <1>9 DEF HandleLeaveGroup
  <2>. QED BY <1>1, <1>9, <2>1 DEF HandleLeaveGroup
<1>10. ASSUME NEW u \in User, Cut(u)
      PROVE  (\A w \in User, m \in Id : GoneAt(w, m)') /\ ClientsForGood
  <2>1. \A w \in User, m \in Id : shown'[w][m] \in {shown[w][m], None}
    BY <1>0, <1>10 DEF Cut, Empty
  <2>2. \A w \in User : down'[w] \in {down[w], <<>>}
    BY <1>0, <1>10 DEF Cut
  <2>. QED BY <1>1, <2>1, <2>2
<1>11. ASSUME Restart PROVE (\A w \in User, m \in Id : GoneAt(w, m)') /\ ClientsForGood
  BY <1>1, <1>11 DEF Restart, Empty
<1>12. ASSUME NEW u \in User, HandleIncomingMessage(u)
      PROVE  (\A w \in User, m \in Id : GoneAt(w, m)') /\ ClientsForGood
  <2>1. /\ down[u] # <<>> /\ down' = [down EXCEPT ![u] = Tail(@)] /\ messages' = messages
        /\ shown' = [shown EXCEPT ![u] = [m \in Id |-> Shown(@[m], Head(down[u]), m)]]
    BY <1>12 DEF HandleIncomingMessage, tableVars
  <2>2. ASSUME NEW w \in User, w # u, NEW m \in Id
        PROVE  GoneAt(w, m)' /\ shown'[w][m] = shown[w][m]
    <3>1. shown'[w] = shown[w] /\ down'[w] = down[w]
      BY <1>0, <2>1, <2>2
    <3>. QED BY <1>a, <1>b, <3>1 DEF GoneAt
  <2>3. ASSUME NEW m \in Id
        PROVE  GoneAt(u, m)' /\ (IsGone(shown[u][m]) => IsGone(shown'[u][m]) /\ shown'[u][m].text = 0)
    <3>1. down'[u] = Tail(down[u]) /\ shown'[u][m] = Shown(shown[u][m], Head(down[u]), m)
      BY <1>0, <2>1
    <3>2. /\ StaysGone(Tail(down[u]), Shown(shown[u][m], Head(down[u]), m), m)
          /\ SaidGone(Tail(down[u]), Shown(shown[u][m], Head(down[u]), m), m)
                => SaidGone(down[u], shown[u][m], m)
          /\ IsGone(shown[u][m]) => IsGone(shown'[u][m]) /\ shown'[u][m].text = 0
      <4>1. down[u] \in Seq(Notice) /\ StaysGone(down[u], shown[u][m], m) /\ shown[u][m] \in Body \cup {None}
        BY <1>0, <1>a, <1>d DEF GoneAt
      <4>. QED BY <2>1, <3>1, <4>1, GoneTail
    <3>. QED BY <1>a, <1>b, <3>1, <3>2 DEF GoneAt
  <2>4. ClientsForGood
    BY <2>2, <2>3, <1>e DEF ClientsForGood, IsGone
  <2>. QED BY <2>2, <2>3, <2>4
<1>13. CASE UNCHANGED <<down, shown>>
  BY <1>1, <1>13
<1>. QED
  BY <1>3, <1>4, <1>5, <1>7, <1>8, <1>9, <1>10, <1>11, <1>12, <1>13
     DEF Next, Handle, Changing, HandleCreateGroup, HandleJoinGroup, HandleLogin, MarkNext, RemoveSession, Tick,
         vars

(* The initial state satisfies the deletion invariant. *)
LEMMA DeletionInit == Init => Deletion
<1> SUFFICES ASSUME Init PROVE Deletion
  OBVIOUS
<1>1. ASSUME NEW u \in User, NEW m \in Id PROVE down[u] = <<>> /\ shown[u][m] = None
  BY DEF Init, Empty
<1>2. 1 .. Len(<<>>) = {}
  OBVIOUS
<1>3. ASSUME NEW m PROVE StaysGone(<<>>, None, m) /\ ~SaidGone(<<>>, None, m)
  BY <1>2 DEF StaysGone, SaidGone, IsGone
<1>. QED BY <1>1, <1>3 DEF Init, Deletion

(* softDelete is for good: no edit, reaction, receipt, history or offline  *)
(* push, in whatever order they are handled and arrive, gives a deleted    *)
(* message a text again, in the table or in a client that shows it.        *)
THEOREM SpecDeletedForGood == Spec => DeletedForGood
<1>1. TypeOK /\ Deletion /\ [Next]_vars => Deletion'
  BY DeletionNext
<1>2. TypeOK /\ Deletion /\ [Next]_vars => [TableForGood /\ ClientsForGood]_vars
  BY DeletionNext
<1>. QED
  BY TypeInit, TypeNext, DeletionInit, <1>1, <1>2, PTL
     DEF Spec, DeletedForGood, TableForGood, ClientsForGood

-----------------------------------------------------------------------------
(***************************************************************************)
(* What a client will show once it has taken its queue.  The views on the  *)
(* way are given by a function h, so that no recursion is needed: h[i] is  *)
(* the message after the first i notices.                                  *)
(***************************************************************************)

View == Body \cup {None}

IsTrace(h, q, v, m) ==
    /\ h \in [0 .. Len(q) -> View]
    /\ h[0] = v
    /\ \A i \in 1 .. Len(q) : h[i] = Shown(h[i - 1], q[i], m)

\* A client that shows m as v shows it as b after the notices of q.
Ends(q, v, m, b) == \E h : IsTrace(h, q, v, m) /\ h[Len(q)] = b

(* What a queue ends in is a body or nothing. *)
LEMMA EndsView ==
    ASSUME NEW q \in Seq(Notice), NEW v, NEW m, NEW b, Ends(q, v, m, b)
    PROVE  b \in View
<1>1. Len(q) \in 0 .. Len(q)
  OBVIOUS
<1>. QED BY <1>1 DEF Ends, IsTrace

(* An empty queue ends in what is shown now. *)
LEMMA EndsEmpty ==
    ASSUME NEW v \in View, NEW m, NEW b
    PROVE  Ends(<<>>, v, m, b) <=> v = b
<1>1. Len(<<>>) = 0 /\ 1 .. 0 = {} /\ 0 \in 0 .. 0
  OBVIOUS
<1>2. Ends(<<>>, v, m, b) => v = b
  BY <1>1 DEF Ends, IsTrace
<1>3. Ends(<<>>, v, m, v)
  <2> DEFINE h == [i \in 0 .. 0 |-> v]
  <2>1. h \in [0 .. 0 -> View] /\ h[0] = v
    BY <1>1
  <2>. HIDE DEF h
  <2>2. IsTrace(h, <<>>, v, m) /\ h[Len(<<>>)] = v
    BY <1>1, <2>1 DEF IsTrace
  <2>. QED BY <2>2 DEF Ends
<1>. QED BY <1>2, <1>3

(* A further notice is applied to what the queue ended in before. *)
LEMMA EndsAppend ==
    ASSUME NEW q \in Seq(Notice), NEW v, NEW m \in Id, NEW b, NEW n \in Notice, Ends(q, v, m, b)
    PROVE  Ends(Append(q, n), v, m, Shown(b, n, m))
<1> DEFINE r == Append(q, n)
           c == Shown(b, n, m)
<1>1. /\ Len(q) \in Nat /\ Len(r) = Len(q) + 1 /\ r[Len(q) + 1] = n
      /\ \A i \in 1 .. Len(q) : r[i] = q[i]
  OBVIOUS
<1>2. c \in View
  BY EndsView, ShownTyped DEF View
<1> HIDE DEF r, c
<1>3. PICK h : IsTrace(h, q, v, m) /\ h[Len(q)] = b
  BY DEF Ends
<1> DEFINE g == [i \in 0 .. Len(r) |-> IF i = Len(r) THEN c ELSE h[i]]
<1>4. ASSUME NEW i \in 0 .. Len(q) PROVE g[i] = h[i] /\ h[i] \in View
  <2>1. i \in 0 .. Len(r) /\ i # Len(r)
    BY <1>1
  <2>2. g[i] = h[i]
    BY <2>1
  <2>3. h[i] \in View
    BY <1>3 DEF IsTrace
  <2>. QED BY <2>2, <2>3
<1>5. g[Len(r)] = c /\ g \in [0 .. Len(r) -> View]
  <2>1. \A i \in 0 .. Len(r) : i # Len(r) => i \in 0 .. Len(q)
    BY <1>1
  <2>2. Len(r) \in 0 .. Len(r)
    BY <1>1
  <2>. QED BY <1>2, <1>4, <2>1, <2>2
<1> HIDE DEF g
<1>6. g[0] = v
  BY <1>1, <1>3, <1>4 DEF IsTrace
<1>7. ASSUME NEW i \in 1 .. Len(r) PROVE g[i] = Shown(g[i - 1], r[i], m)
  <2>1. CASE i = Len(r)
    <3>1. i - 1 = Len(q) /\ Len(q) \in 0 .. Len(q)
      BY <1>1, <2>1
    <3>2. g[i - 1] = b /\ r[i] = n
      BY <1>1, <1>3, <1>4, <2>1, <3>1
    <3>. QED BY <1>5, <2>1, <3>2 DEF c
  <2>2. CASE i # Len(r)
    <3>1. i \in 1 .. Len(q) /\ i \in 0 .. Len(q) /\ i - 1 \in 0 .. Len(q)
      BY <1>1, <2>2
    <3>2. h[i] = Shown(h[i - 1], q[i], m) /\ r[i] = q[i]
      BY <1>1, <1>3, <3>1 DEF IsTrace
    <3>. QED BY <1>4, <3>1, <3>2
  <2>. QED BY <2>1, <2>2
<1>8. IsTrace(g, r, v, m)
  BY <1>5, <1>6, <1>7 DEF IsTrace
<1>. QED BY <1>5, <1>8 DEF Ends, r, c

(* Handling the first notice does not change what the queue ends in. *)
LEMMA EndsTail ==
    ASSUME NEW q \in Seq(Notice), q # <<>>, NEW v, NEW m \in Id, NEW b, Ends(q, v, m, b)
    PROVE  Ends(Tail(q), Shown(v, Head(q), m), m, b)
<1> DEFINE t == Tail(q)
<1>1. /\ Len(q) \in Nat \ {0} /\ Len(t) = Len(q) - 1 /\ Head(q) = q[1]
      /\ \A i \in 1 .. Len(t) : t[i] = q[i + 1]
  OBVIOUS
<1> HIDE DEF t
<1>2. PICK h : IsTrace(h, q, v, m) /\ h[Len(q)] = b
  BY DEF Ends
<1> DEFINE g == [i \in 0 .. Len(t) |-> h[i + 1]]
<1>3. \A i \in 0 .. Len(t) : i + 1 \in 0 .. Len(q) /\ g[i] = h[i + 1] /\ h[i + 1] \in View
  BY <1>1, <1>2 DEF IsTrace
<1>4. g \in [0 .. Len(t) -> View]
  BY <1>3
<1> HIDE DEF g
<1>5. g[0] = Shown(v, Head(q), m)
  <2>1. 1 \in 1 .. Len(q) /\ 0 \in 0 .. Len(t)
    BY <1>1
  <2>2. h[1] = Shown(h[1 - 1], q[1], m) /\ 1 - 1 = 0 /\ 0 + 1 = 1
    BY <1>2, <2>1 DEF IsTrace
  <2>. QED BY <1>1, <1>2, <1>3, <2>1, <2>2 DEF IsTrace
<1>6. ASSUME NEW i \in 1 .. Len(t) PROVE g[i] = Shown(g[i - 1], t[i], m)
  <2>1. /\ i \in 0 .. Len(t) /\ i - 1 \in 0 .. Len(t) /\ (i - 1) + 1 = i /\ (i + 1) - 1 = i
        /\ i + 1 \in 1 .. Len(q)
    BY <1>1
  <2>2. h[i + 1] = Shown(h[(i + 1) - 1], q[i + 1], m)
    BY <1>2, <2>1 DEF IsTrace
  <2>. QED BY <1>1, <1>3, <2>1, <2>2
<1>7. g[Len(t)] = b
  <2>1. Len(t) \in 0 .. Len(t) /\ Len(t) + 1 = Len(q)
    BY <1>1
  <2>. QED BY <1>2, <1>3, <2>1
<1>8. IsTrace(g, t, Shown(v, Head(q), m), m)
  BY <1>4, <1>5, <1>6 DEF IsTrace
<1>. QED BY <1>7, <1>8 DEF Ends, t

\* The notice carries the message m.
Carries(n, m) == n.kind = "push" /\ n.msgs[m] # None

(* A client that drops m takes the same queue to some end.                 *)
LEMMA EndsDropped ==
    ASSUME NEW q \in Seq(Notice), NEW v, NEW m, NEW b, Ends(q, v, m, b)
    PROVE  \E c : Ends(q, None, m, c)
<1>1. PICK h : IsTrace(h, q, v, m) /\ h[Len(q)] = b
  BY DEF Ends
<1>2. Len(q) \in Nat
  OBVIOUS
<1> DEFINE Pushed(i) == \E j \in 1 .. i : Carries(q[j], m)
           g == [i \in 0 .. Len(q) |-> IF Pushed(i) THEN h[i] ELSE None]
<1>3. g \in [0 .. Len(q) -> View] /\ \A i \in 0 .. Len(q) : g[i] = IF Pushed(i) THEN h[i] ELSE None
  BY <1>1 DEF IsTrace, View
<1>4. ~Pushed(0)
  OBVIOUS
<1> HIDE DEF g
<1>5. ASSUME NEW i \in 1 .. Len(q) PROVE g[i] = Shown(g[i - 1], q[i], m)
  <2>1. i \in 0 .. Len(q) /\ i - 1 \in 0 .. Len(q)
    BY <1>2
  <2>2. Pushed(i) <=> Pushed(i - 1) \/ Carries(q[i], m)
    BY <1>2
  <2>3. h[i] = Shown(h[i - 1], q[i], m)
    BY <1>1 DEF IsTrace
  <2>. HIDE DEF Pushed
  <2>4. CASE Pushed(i - 1)
    BY <1>3, <2>1, <2>2, <2>3, <2>4
  <2>5. CASE ~Pushed(i - 1) /\ Carries(q[i], m)
    <3>1. h[i] = q[i].msgs[m] /\ Shown(None, q[i], m) = q[i].msgs[m]
      BY <2>3, <2>5, ShownPush DEF Carries
    <3>. QED BY <1>3, <2>1, <2>2, <2>5, <3>1
  <2>6. CASE ~Pushed(i - 1) /\ ~Carries(q[i], m)
    <3>1. Shown(None, q[i], m) = None
      <4>1. CASE q[i].kind = "push"
        BY <2>6, <4>1, ShownPush DEF Carries
      <4>2. CASE q[i].kind # "push"
        BY <4>2, ShownOther
      <4>. QED BY <4>1, <4>2
    <3>. QED BY <1>3, <2>1, <2>2, <2>6, <3>1
  <2>. QED BY <2>4, <2>5, <2>6
<1>6. g[0] = None
  <2>1. 0 \in 0 .. Len(q)
    BY <1>2
  <2>. QED BY <1>3, <1>4, <2>1
<1>7. IsTrace(g, q, None, m)
  BY <1>3, <1>5, <1>6 DEF IsTrace
<1>. QED BY <1>7 DEF Ends

-----------------------------------------------------------------------------
(***************************************************************************)
(* ShownAsStored.  Of a message that u was sent over its present route,    *)
(* the queue of u leads from what u shows to what the table has.           *)
(***************************************************************************)

\* The message is in the table, and it is one that w may be told of.
Party(w, m) ==
    /\ m \in DOMAIN messages
    /\ messages[m].conv = Group \/ w \in {messages[m].from, messages[m].conv}

\* A client that shows m as v before the notices of q has heard of m, or will.
Mentions(q, v, m) == v # None \/ \E i \in 1 .. Len(q) : Carries(q[i], m)

Known(w, m) == Mentions(down[w], shown[w][m], m) => Party(w, m)

\* Whatever changes m is sent to w.
Covered(w, m) ==
    m \in synced[w] => /\ Party(w, m) /\ route[w] = "live"
                       /\ messages[m].conv = Group => w \in members

Told(w, m) ==
    \E b : /\ Ends(down[w], shown[w][m], m, b)
           /\ m \in synced[w] => b = messages[m].body

Echo ==
    /\ ~created => members = {}
    /\ \A w \in User, m \in Id : Known(w, m) /\ Covered(w, m) /\ Told(w, m)

(* A notice at the end of the queue is one more that may mention m.        *)
LEMMA MentionsAppend ==
    ASSUME NEW q \in Seq(Notice), NEW n \in Notice, NEW v, NEW m, Mentions(Append(q, n), v, m)
    PROVE  Mentions(q, v, m) \/ Carries(n, m)
<1> DEFINE r == Append(q, n)
<1>1. /\ Len(q) \in Nat /\ Len(r) = Len(q) + 1 /\ r[Len(q) + 1] = n
      /\ \A i \in 1 .. Len(q) : r[i] = q[i]
  OBVIOUS
<1>2. v # None \/ \E i \in 1 .. Len(r) : Carries(r[i], m)
  BY DEF Mentions
<1> HIDE DEF r
<1>3. ASSUME NEW i \in 1 .. Len(r), Carries(r[i], m) PROVE Mentions(q, v, m) \/ Carries(n, m)
  <2>1. i = Len(q) + 1 \/ i \in 1 .. Len(q)
    BY <1>1
  <2>. QED BY <1>1, <1>3, <2>1 DEF Mentions
<1>. QED BY <1>2, <1>3 DEF Mentions

(* Taking the first notice mentions nothing new.                           *)
LEMMA MentionsTail ==
    ASSUME NEW q \in Seq(Notice), q # <<>>, NEW v, NEW m,
           Mentions(Tail(q), Shown(v, Head(q), m), m)
    PROVE  Mentions(q, v, m)
<1> DEFINE t == Tail(q)
<1>1. /\ Len(q) \in Nat \ {0} /\ Len(t) = Len(q) - 1 /\ Head(q) = q[1]
      /\ \A i \in 1 .. Len(t) : t[i] = q[i + 1]
  OBVIOUS
<1>2. Shown(v, q[1], m) # None \/ \E i \in 1 .. Len(t) : Carries(t[i], m)
  BY <1>1 DEF Mentions
<1> HIDE DEF t
<1>3. ASSUME NEW i \in 1 .. Len(t), Carries(t[i], m) PROVE Mentions(q, v, m)
  <2>1. i + 1 \in 1 .. Len(q)
    BY <1>1
  <2>. QED BY <1>1, <1>3, <2>1 DEF Mentions
<1>4. CASE Shown(v, q[1], m) # None
  <2>1. 1 \in 1 .. Len(q)
    BY <1>1
  <2>2. CASE q[1].kind = "push"
    BY <1>4, <2>1, <2>2, ShownPush DEF Mentions, Carries
  <2>3. CASE q[1].kind # "push"
    BY <1>4, <2>3, ShownOther DEF Mentions
  <2>. QED BY <2>2, <2>3
<1>. QED BY <1>2, <1>3, <1>4

(* Who wrote a message, and to whom, never changes.                        *)
LEMMA HeadStays ==
    ASSUME TypeOK, [Next]_vars, NEW m \in DOMAIN messages
    PROVE  /\ m \in DOMAIN messages'
           /\ messages'[m].from = messages[m].from /\ messages'[m].conv = messages[m].conv
<1>0. messages \in Seq(Row)
  BY DEF TypeOK
<1>1. CASE UNCHANGED messages
  BY <1>1
<1>2. ASSUME NEW r \in Row, messages' = Append(messages, r)
      PROVE  m \in DOMAIN messages' /\ messages'[m] = messages[m]
  BY <1>0, <1>2, TableAppend
<1>3. ASSUME NEW u \in User, NEW v \in User, HandlePrivateMessage(u, v)
      PROVE  m \in DOMAIN messages' /\ messages'[m] = messages[m]
  <2>1. NewRow(u, v, route[v] # "none") \in Row
    BY NewRowTyped
  <2>. QED BY <1>2, <1>3, <2>1 DEF HandlePrivateMessage
<1>4. ASSUME NEW u \in User, HandleGroupMessage(u)
      PROVE  m \in DOMAIN messages' /\ messages'[m] = messages[m]
  <2>1. NewRow(u, Group, TRUE) \in Row
    BY NewRowTyped
  <2>. QED BY <1>2, <1>4, <2>1 DEF HandleGroupMessage
<1>5. ASSUME NEW u \in User, Changing(u)
      PROVE  m \in DOMAIN messages' /\ SameHead(messages'[m], messages[m])
  <2>1. PICK k \in Id, n \in Notice : Changes(u, k, n)
    BY <1>5, ChangingIs
  <2>2. /\ DOMAIN messages' = DOMAIN messages
        /\ \A i \in DOMAIN messages : i # k => messages'[i] = messages[i]
        /\ SameHead(messages'[k], messages[k])
    BY <2>1, ChangesIs
  <2>. QED BY <2>2 DEF SameHead
<1>6. ASSUME NEW k \in Id, MarkNext(k)
      PROVE  m \in DOMAIN messages' /\ SameHead(messages'[m], messages[m])
  <2>1. k \in DOMAIN messages /\ messages' = MarkDelivered(k)
    BY <1>6 DEF MarkNext, TypeOK
  <2>. QED BY <1>0, <2>1, TableMarkDelivered
<1>. QED
  BY <1>1, <1>3, <1>4, <1>5, <1>6
     DEF Next, Handle, Changing, HandleHistory, HandleCreateGroup, HandleJoinGroup, HandleLeaveGroup, Cut,
         HandleLogin, DeliverOffline, RemoveSession, HandleIncomingMessage, Tick, Restart, vars, tableVars,
         SameHead

(* Who may see a message does not change, nor its conversation. *)
LEMMA PartyStays ==
    ASSUME TypeOK, [Next]_vars, NEW w, NEW m, Party(w, m)
    PROVE  Party(w, m)' /\ messages'[m].conv = messages[m].conv
BY HeadStays DEF Party

\* The notice n is a push of the messages S, as the table has them after the step.
Tells(n, S) ==
    /\ n \in Notice
    /\ \A m \in Id : Carries(n, m) <=> m \in S
    /\ \A m \in Id : \A v : Shown(v, n, m) = IF m \in S THEN messages'[m].body ELSE v

(* A push at the end of the queue q.                                       *)
LEMMA PushStep ==
    ASSUME TypeOK, NEW w \in User, NEW m \in Id, NEW q \in Seq(Notice), NEW b,
           NEW S, NEW n, Tells(n, S),
           Ends(q, shown[w][m], m, b), Mentions(q, shown[w][m], m) => Party(w, m)',
           down'[w] = Append(q, n), shown'[w][m] = shown[w][m],
           m \in S => Party(w, m)', m \in synced'[w] /\ m \notin S => b = messages'[m].body
    PROVE  Known(w, m)' /\ Told(w, m)'
<1>1. Ends(Append(q, n), shown[w][m], m, Shown(b, n, m))
  BY EndsAppend DEF Tells
<1>2. m \in synced'[w] => Shown(b, n, m) = messages'[m].body
  BY DEF Tells
<1>3. Mentions(Append(q, n), shown[w][m], m) => Party(w, m)'
  BY MentionsAppend DEF Tells
<1>. QED BY <1>1, <1>2, <1>3 DEF Known, Told

(* The notice of a change at the end of the queue.                         *)
LEMMA ChangeStep ==
    ASSUME TypeOK, NEW w \in User, NEW m \in Id, NEW b, NEW n \in Notice, n.kind # "push",
           Ends(down[w], shown[w][m], m, b), Known(w, m), Party(w, m) => Party(w, m)',
           down'[w] = Append(down[w], n), shown'[w][m] = shown[w][m],
           m \in synced'[w] => Shown(b, n, m) = messages'[m].body
    PROVE  Known(w, m)' /\ Told(w, m)'
<1>0. down[w] \in Seq(Notice)
  BY DEF TypeOK
<1>1. Ends(Append(down[w], n), shown[w][m], m, Shown(b, n, m))
  BY <1>0, EndsAppend
<1>2. Mentions(Append(down[w], n), shown[w][m], m) => Party(w, m)'
  BY <1>0, MentionsAppend DEF Known, Carries
<1>. QED BY <1>1, <1>2 DEF Known, Told

(* Nothing for w, or w drops m.                                            *)
LEMMA SilentStep ==
    ASSUME TypeOK, NEW w \in User, NEW m \in Id, Known(w, m), Told(w, m),
           Party(w, m) => Party(w, m)', down'[w] = down[w],
           shown'[w][m] = shown[w][m] \/ (shown'[w][m] = None /\ m \notin synced'[w]),
           m \in synced'[w] => m \in synced[w] /\ messages'[m].body = messages[m].body
    PROVE  Known(w, m)' /\ Told(w, m)'
<1>0. down[w] \in Seq(Notice)
  BY DEF TypeOK
<1>1. PICK b : Ends(down[w], shown[w][m], m, b) /\ (m \in synced[w] => b = messages[m].body)
  BY DEF Told
<1>2. Known(w, m)'
  BY DEF Known, Mentions
<1>3. CASE shown'[w][m] = shown[w][m]
  BY <1>1, <1>2, <1>3 DEF Told
<1>4. CASE shown'[w][m] = None /\ m \notin synced'[w]
  <2>1. \E c : Ends(down[w], None, m, c)
    BY <1>0, <1>1, EndsDropped
  <2>. QED BY <1>2, <1>4, <2>1 DEF Told
<1>. QED BY <1>3, <1>4

(* The push of a message just stored.                                      *)
LEMMA FreshPush ==
    ASSUME TypeOK, NEW r \in Row, Len(messages) + 1 \in Id, messages' = Append(messages, r)
    PROVE  Tells(Push([Empty EXCEPT ![Len(messages) + 1] = r.body]), {Len(messages) + 1})
<1> DEFINE k == Len(messages) + 1
           e == [Empty EXCEPT ![k] = r.body]
           n == Push(e)
<1>1. messages'[k] = r /\ r.body \in Body
  BY TableAppend, RowFields DEF TypeOK
<1>2. e \in Batch /\ e[k] = r.body /\ \A i \in Id : i # k => e[i] = None
  BY <1>1, OneMessage
<1> HIDE DEF e
<1>3. n \in Notice /\ n.kind = "push" /\ n.msgs = e
  BY <1>2, PushTyped DEF Push
<1> HIDE DEF n
<1>4. \A m \in Id : Carries(n, m) <=> m \in {k}
  BY <1>1, <1>2, <1>3 DEF Carries
<1>5. ASSUME NEW m \in Id, NEW v PROVE Shown(v, n, m) = IF m \in {k} THEN messages'[m].body ELSE v
  BY <1>1, <1>2, <1>3, ShownPush
<1>6. Tells(n, {k})
  BY <1>3, <1>4, <1>5 DEF Tells
<1>. QED BY <1>6 DEF n, e

(* The push of a history or of what waits.                                 *)
LEMMA BatchPush ==
    ASSUME TypeOK, NEW T \in SUBSET DOMAIN messages, \A m \in T : messages'[m].body = messages[m].body
    PROVE  Tells(Push(Batched(T)), T)
<1> DEFINE e == Batched(T)
           n == Push(e)
<1>2. /\ e \in Batch /\ \A m \in T : e[m] = messages[m].body /\ messages[m].body \in Body
      /\ \A i \in Id : i \notin T => e[i] = None
  BY BatchedIs DEF TypeOK
<1> HIDE DEF e
<1>3. n \in Notice /\ n.kind = "push" /\ n.msgs = e
  BY <1>2, PushTyped DEF Push
<1> HIDE DEF n
<1>4. \A m \in Id : Carries(n, m) <=> m \in T
  BY <1>2, <1>3 DEF Carries
<1>5. ASSUME NEW m \in Id, NEW v PROVE Shown(v, n, m) = IF m \in T THEN messages'[m].body ELSE v
  BY <1>2, <1>3, ShownPush
<1>6. Tells(n, T)
  BY <1>3, <1>4, <1>5 DEF Tells
<1>. QED BY <1>6 DEF n, e

(* A private message; one to oneself is pushed twice.                      *)
LEMMA PrivateStep ==
    ASSUME TypeOK, Echo, [Next]_vars, NEW u \in User, NEW v \in User, HandlePrivateMessage(u, v),
           NEW w \in User, NEW m \in Id
    PROVE  Known(w, m)' /\ Covered(w, m)' /\ Told(w, m)'
<1> DEFINE k == Len(messages) + 1
           r == NewRow(u, v, route[v] # "none")
           n == Push([Empty EXCEPT ![k] = r.body])
           sent == Deliver({v}, n)
<1>1. /\ k \in Id /\ messages' = Append(messages, r)
      /\ down' = [sent EXCEPT ![u] = Append(@, n)]
      /\ synced' = [x \in User |-> IF x \in {u, v} /\ route[x] = "live"
                                   THEN synced[x] \cup {k} ELSE synced[x]]
      /\ shown' = shown /\ members' = members /\ route' = route
  BY DEF HandlePrivateMessage, Push, sessionVars
<1>2. r \in Row /\ r.from = u /\ r.conv = v
  <2>1. r \in Row
    BY NewRowTyped
  <2>. QED BY <2>1 DEF NewRow
<1>3. Tells(n, {k})
  <2>. HIDE DEF r
  <2>. QED BY <1>1, <1>2, FreshPush
<1>4. /\ messages'[k] = r /\ DOMAIN messages' = DOMAIN messages \cup {k} /\ k \notin DOMAIN messages
      /\ \A i \in DOMAIN messages : messages'[i] = messages[i]
  BY <1>1, <1>2, TableAppend DEF TypeOK
<1>5. Known(w, m) /\ Covered(w, m) /\ Told(w, m)
  BY DEF Echo
<1>6. down[w] \in Seq(Notice) /\ n \in Notice /\ sent \in [User -> Seq(Notice)]
  BY <1>3, DeliverTyped DEF TypeOK, Tells
<1> HIDE DEF r, n, k
<1>7. Party(w, m) => Party(w, m)' /\ messages'[m] = messages[m]
  BY <1>4, PartyStays DEF Party
<1>8. w \in {u, v} /\ m = k => Party(w, m)'
  BY <1>2, <1>4 DEF Party
<1>9. synced'[w] = IF w \in {u, v} /\ route[w] = "live" THEN synced[w] \cup {k} ELSE synced[w]
  BY <1>1
<1>10. Covered(w, m)'
  <2>1. CASE m \in synced[w]
    BY <1>1, <1>5, <1>7, <2>1 DEF Covered
  <2>2. CASE m \notin synced[w] /\ m \in synced'[w]
    <3>1. w \in {u, v} /\ m = k /\ route[w] = "live"
      BY <1>9, <2>2
    <3>2. messages'[m].conv # Group
      BY <1>2, <1>4, <3>1
    <3>. QED BY <1>1, <1>8, <3>1, <3>2 DEF Covered
  <2>3. CASE m \notin synced'[w]
    BY <2>3 DEF Covered
  <2>. QED BY <2>1, <2>2, <2>3
<1>11. PICK b : Ends(down[w], shown[w][m], m, b) /\ (m \in synced[w] => b = messages[m].body)
  BY <1>5 DEF Told
<1>12. m \in synced'[w] /\ m \notin {k} => b = messages'[m].body
  BY <1>5, <1>7, <1>9, <1>11 DEF Covered
<1>13. m \in synced[w] => m \notin {k}
  BY <1>4, <1>5 DEF Covered, Party
<1>14. Mentions(down[w], shown[w][m], m) => Party(w, m)'
  BY <1>5, <1>7 DEF Known
<1>15. sent[w] = (IF w = v /\ route[w] = "live" THEN Append(down[w], n) ELSE down[w])
  BY DEF Deliver
<1>16. down'[w] = IF w = u THEN Append(sent[w], n) ELSE sent[w]
  BY <1>1, <1>6
<1> HIDE DEF sent
<1>17. CASE down'[w] = Append(down[w], n) /\ w \in {u, v}
  <2>1. m \in {k} => Party(w, m)'
    BY <1>8, <1>17
  <2>2. Known(w, m)' /\ Told(w, m)'
    BY <1>1, <1>3, <1>6, <1>11, <1>12, <1>14, <1>17, <2>1, PushStep
  <2>. QED BY <1>10, <2>2
<1>18. CASE w = u /\ w = v /\ route[w] = "live"
  <2> DEFINE q == Append(down[w], n)
             c == Shown(b, n, m)
  <2>1. q \in Seq(Notice) /\ down'[w] = Append(q, n)
    BY <1>6, <1>15, <1>16, <1>18
  <2>2. Ends(q, shown[w][m], m, c)
    BY <1>6, <1>11, EndsAppend
  <2>3. m \in {k} => Party(w, m)'
    BY <1>8, <1>18
  <2>4. Mentions(q, shown[w][m], m) => Party(w, m)'
    BY <1>3, <1>6, <1>14, <2>3, MentionsAppend DEF Tells
  <2>5. m \in synced'[w] /\ m \notin {k} => c = messages'[m].body
    BY <1>3, <1>12 DEF Tells
  <2>. HIDE DEF q, c
  <2>6. Known(w, m)' /\ Told(w, m)'
    BY <1>1, <1>3, <2>1, <2>2, <2>3, <2>4, <2>5, PushStep
  <2>. QED BY <1>10, <2>6
<1>19. CASE w # u /\ ~(w = v /\ route[w] = "live")
  <2>1. down'[w] = down[w] /\ synced'[w] = synced[w]
    BY <1>9, <1>15, <1>16, <1>19
  <2>2. m \in synced[w] => messages'[m].body = messages[m].body
    BY <1>5, <1>7 DEF Covered
  <2>3. Known(w, m)' /\ Told(w, m)'
    BY <1>1, <1>5, <1>7, <2>1, <2>2, SilentStep
  <2>. QED BY <1>10, <2>3
<1>. QED BY <1>15, <1>16, <1>17, <1>18, <1>19

(* A message to the group.                                                 *)
LEMMA GroupStep ==
    ASSUME TypeOK, Echo, [Next]_vars, NEW u \in User, HandleGroupMessage(u),
           NEW w \in User, NEW m \in Id
    PROVE  Known(w, m)' /\ Covered(w, m)' /\ Told(w, m)'
<1> DEFINE k == Len(messages) + 1
           r == NewRow(u, Group, TRUE)
           n == Push([Empty EXCEPT ![k] = r.body])
<1>1. /\ k \in Id /\ messages' = Append(messages, r) /\ down' = Deliver(members, n)
      /\ synced' = [x \in User |-> IF x \in members /\ route[x] = "live"
                                   THEN synced[x] \cup {k} ELSE synced[x]]
      /\ shown' = shown /\ members' = members /\ route' = route
  BY DEF HandleGroupMessage, Push, sessionVars
<1>2. r \in Row /\ r.conv = Group
  <2>1. Group \in User \cup {Group} /\ TRUE \in BOOLEAN
    OBVIOUS
  <2>. QED BY <2>1, NewRowTyped
<1>3. Tells(n, {k})
  <2>. HIDE DEF r
  <2>. QED BY <1>1, <1>2, FreshPush
<1>4. /\ messages'[k] = r /\ DOMAIN messages' = DOMAIN messages \cup {k} /\ k \notin DOMAIN messages
      /\ \A i \in DOMAIN messages : messages'[i] = messages[i]
  BY <1>1, <1>2, TableAppend DEF TypeOK
<1>5. Known(w, m) /\ Covered(w, m) /\ Told(w, m) /\ down[w] \in Seq(Notice)
  BY DEF Echo, TypeOK
<1> HIDE DEF r, n, k
<1>6. Party(w, m) => Party(w, m)' /\ messages'[m] = messages[m]
  BY <1>4, PartyStays DEF Party
<1>7. m \in {k} => Party(w, m)'
  BY <1>2, <1>4 DEF Party
<1>8. synced'[w] = IF w \in members /\ route[w] = "live" THEN synced[w] \cup {k} ELSE synced[w]
  BY <1>1
<1>9. down'[w] = IF w \in members /\ route[w] = "live" THEN Append(down[w], n) ELSE down[w]
  BY <1>1 DEF Deliver
<1>10. Covered(w, m)'
  BY <1>1, <1>5, <1>6, <1>7, <1>8 DEF Covered
<1>11. PICK b : Ends(down[w], shown[w][m], m, b) /\ (m \in synced[w] => b = messages[m].body)
  BY <1>5 DEF Told
<1>12. m \in synced'[w] /\ m \notin {k} => b = messages'[m].body
  BY <1>5, <1>6, <1>8, <1>11 DEF Covered
<1>13. Mentions(down[w], shown[w][m], m) => Party(w, m)'
  BY <1>5, <1>6 DEF Known
<1>14. CASE w \in members /\ route[w] = "live"
  <2>1. Known(w, m)' /\ Told(w, m)'
    BY <1>1, <1>3, <1>5, <1>7, <1>9, <1>11, <1>12, <1>13, <1>14, PushStep
  <2>. QED BY <1>10, <2>1
<1>15. CASE ~(w \in members /\ route[w] = "live")
  <2>1. down'[w] = down[w] /\ synced'[w] = synced[w]
    BY <1>8, <1>9, <1>15
  <2>2. m \in synced[w] => messages'[m].body = messages[m].body
    BY <1>5, <1>6 DEF Covered
  <2>3. Known(w, m)' /\ Told(w, m)'
    BY <1>1, <1>5, <1>6, <2>1, <2>2, SilentStep
  <2>. QED BY <1>10, <2>3
<1>. QED BY <1>14, <1>15

(* An edit, a deletion, a reaction or a receipt: everybody who was sent    *)
(* the message is among the recipients.                                    *)
LEMMA ChangingStep ==
    ASSUME TypeOK, Echo, [Next]_vars, NEW u \in User, Changing(u), NEW w \in User, NEW m \in Id
    PROVE  Known(w, m)' /\ Covered(w, m)' /\ Told(w, m)'
<1>1. PICK k \in Id, n \in Notice : Changes(u, k, n)
  BY ChangingIs
<1>2. /\ k \in DOMAIN messages /\ n.kind # "push" /\ n.id = k /\ shown[u][k] # None
  BY <1>1 DEF Changes, CanTouch
<1>3. /\ DOMAIN messages' = DOMAIN messages
      /\ \A i \in DOMAIN messages : i # k => messages'[i] = messages[i]
      /\ messages'[k].body = Shown(messages[k].body, n, k)
      /\ down' = Deliver(Recipients(u, ConversationOf(u, k)), n)
      /\ members' = members /\ route' = route /\ shown' = shown /\ synced' = synced
  BY <1>1, ChangesIs
<1>4. Known(w, m) /\ Covered(w, m) /\ Told(w, m) /\ Party(u, k)
  <2>1. Known(u, k)
    BY DEF Echo
  <2>. QED BY <1>2, <2>1 DEF Echo, Known, Mentions
<1>5. Party(w, m) => Party(w, m)' /\ messages'[m].conv = messages[m].conv
  BY PartyStays
<1>6. Covered(w, m)'
  BY <1>3, <1>4, <1>5 DEF Covered
<1>7. PICK b : Ends(down[w], shown[w][m], m, b) /\ (m \in synced[w] => b = messages[m].body)
  BY <1>4 DEF Told
<1> DEFINE W == Recipients(u, ConversationOf(u, k))
<1>8. k \in synced[w] /\ m = k => w \in W /\ route[w] = "live"
  <2> SUFFICES ASSUME k \in synced[w], m = k PROVE w \in W /\ route[w] = "live"
    OBVIOUS
  <2>1. Party(w, k) /\ route[w] = "live" /\ (messages[k].conv = Group => w \in members)
    BY <1>4 DEF Covered
  <2>2. messages[k].from \in User /\ messages[k].conv \in User \cup {Group}
    BY <1>2, RowAt, RowFields DEF TypeOK
  <2>3. CASE messages[k].conv = Group
    BY <2>1, <2>3 DEF Recipients, ConversationOf
  <2>4. CASE messages[k].conv # Group /\ messages[k].from = u
    BY <2>1, <2>2, <2>4 DEF Recipients, ConversationOf, Party
  <2>5. CASE messages[k].conv # Group /\ messages[k].from # u
    <3>1. messages[k].conv = u
      BY <1>4, <2>5 DEF Party
    <3>2. W = {u, messages[k].from}
      BY <2>2, <2>5 DEF Recipients, ConversationOf
    <3>. QED BY <2>1, <2>5, <3>1, <3>2 DEF Party
  <2>. QED BY <2>3, <2>4, <2>5
<1>9. down'[w] = IF w \in W /\ route[w] = "live" THEN Append(down[w], n) ELSE down[w]
  BY <1>3 DEF Deliver
<1> HIDE DEF W
<1>10. m # k /\ m \in synced[w] => messages'[m] = messages[m]
  BY <1>3, <1>4 DEF Covered, Party
<1>11. CASE w \in W /\ route[w] = "live"
  <2>1. m \in synced'[w] => Shown(b, n, m) = messages'[m].body
    <3>1. m # n.id => Shown(b, n, m) = b
      BY <1>2, ShownOther
    <3>. QED BY <1>2, <1>3, <1>7, <1>10, <3>1
  <2>2. Known(w, m)' /\ Told(w, m)'
    BY <1>2, <1>3, <1>4, <1>5, <1>7, <1>9, <1>11, <2>1, ChangeStep
  <2>. QED BY <1>6, <2>2
<1>12. CASE ~(w \in W /\ route[w] = "live")
  <2>1. m \in synced'[w] => m \in synced[w] /\ messages'[m].body = messages[m].body
    BY <1>3, <1>8, <1>10, <1>12
  <2>2. down'[w] = down[w]
    BY <1>9, <1>12
  <2>3. Known(w, m)' /\ Told(w, m)'
    BY <1>3, <1>4, <1>5, <2>1, <2>2, SilentStep
  <2>. QED BY <1>6, <2>3
<1>. QED BY <1>11, <1>12

(* What a history pushes.                                                  *)
LEMMA HistoryStep ==
    ASSUME TypeOK, Echo, [Next]_vars, NEW u \in User, NEW c \in User \cup {Group},
           HandleHistory(u, c), NEW w \in User, NEW m \in Id
    PROVE  Known(w, m)' /\ Covered(w, m)' /\ Told(w, m)'
<1>1. PICK T \in TrimToLimit(InConversation(u, c)) :
          /\ down' = [down EXCEPT ![u] = Append(@, [kind |-> "push", msgs |-> Batched(T)])]
          /\ synced' = IF route[u] = "live" THEN [synced EXCEPT ![u] = @ \cup T] ELSE synced
  BY DEF HandleHistory
<1>2. /\ messages' = messages /\ members' = members /\ route' = route /\ shown' = shown
      /\ c = Group => u \in members
  BY DEF HandleHistory, tableVars, sessionVars, CanTalk
<1>3. T \in SUBSET DOMAIN messages /\ T \subseteq InConversation(u, c)
  BY TrimmedIn DEF InConversation
<1>4. \A i \in T : Party(u, i) /\ (messages[i].conv = Group => u \in members)
  <2> SUFFICES ASSUME NEW i \in T PROVE Party(u, i) /\ (messages[i].conv = Group => u \in members)
    OBVIOUS
  <2>1. i \in DOMAIN messages /\ messages[i].conv \in User \cup {Group}
    BY <1>3, RowAt, RowFields DEF TypeOK
  <2>2. CASE c = Group
    BY <1>2, <1>3, <2>1, <2>2 DEF InConversation, Party
  <2>3. CASE c # Group
    BY <1>3, <2>1, <2>3 DEF InConversation, Party
  <2>. QED BY <2>2, <2>3
<1> DEFINE n == Push(Batched(T))
<1>5. Tells(n, T)
  BY <1>2, <1>3, BatchPush
<1>6. Known(w, m) /\ Covered(w, m) /\ Told(w, m) /\ down[w] \in Seq(Notice)
  BY DEF Echo, TypeOK
<1>7. down'[w] = IF w = u THEN Append(down[w], n) ELSE down[w]
  BY <1>1 DEF TypeOK, Push
<1> HIDE DEF n
<1>8. synced'[w] = IF w = u /\ route[w] = "live" THEN synced[w] \cup T ELSE synced[w]
  BY <1>1 DEF TypeOK
<1>9. Party(w, m) <=> Party(w, m)'
  BY <1>2 DEF Party
<1>10. Covered(w, m)'
  BY <1>2, <1>4, <1>6, <1>8, <1>9 DEF Covered
<1>11. PICK b : Ends(down[w], shown[w][m], m, b) /\ (m \in synced[w] => b = messages[m].body)
  BY <1>6 DEF Told
<1>12. CASE w = u
  <2>1. m \in synced'[w] /\ m \notin T => b = messages'[m].body
    BY <1>2, <1>8, <1>11
  <2>2. Mentions(down[w], shown[w][m], m) => Party(w, m)'
    BY <1>6, <1>9 DEF Known
  <2>3. m \in T => Party(w, m)'
    BY <1>4, <1>9, <1>12
  <2>4. down'[w] = Append(down[w], n) /\ shown'[w][m] = shown[w][m]
    BY <1>2, <1>7, <1>12
  <2>5. Known(w, m)' /\ Told(w, m)'
    BY <1>5, <1>6, <1>11, <2>1, <2>2, <2>3, <2>4, PushStep
  <2>. QED BY <1>10, <2>5
<1>13. CASE w # u
  <2>1. down'[w] = down[w] /\ synced'[w] = synced[w]
    BY <1>7, <1>8, <1>13
  <2>2. Known(w, m)' /\ Told(w, m)'
    BY <1>2, <1>6, <1>9, <2>1, SilentStep
  <2>. QED BY <1>10, <2>2
<1>. QED BY <1>12, <1>13

(* A login starts the route anew: nothing was sent over it yet.            *)
LEMMA LoginStep ==
    ASSUME TypeOK, Echo, [Next]_vars, NEW u \in User, HandleLogin(u), NEW w \in User, NEW m \in Id
    PROVE  Known(w, m)' /\ Covered(w, m)' /\ Told(w, m)'
<1>1. /\ messages' = messages /\ members' = members /\ shown' = shown /\ down' = down
      /\ route' = [route EXCEPT ![u] = "live"] /\ synced' = [synced EXCEPT ![u] = {}]
  BY DEF HandleLogin, tableVars
<1>2. Known(w, m) /\ Covered(w, m) /\ Told(w, m)
  BY DEF Echo
<1>3. Party(w, m) <=> Party(w, m)'
  BY <1>1 DEF Party
<1>4. w = u => synced'[w] = {}
  BY <1>1 DEF TypeOK
<1>5. w # u => synced'[w] = synced[w] /\ route'[w] = route[w]
  BY <1>1 DEF TypeOK
<1>6. Covered(w, m)'
  BY <1>1, <1>2, <1>3, <1>4, <1>5 DEF Covered
<1>7. Known(w, m)' /\ Told(w, m)'
  BY <1>1, <1>2, <1>3, <1>4, <1>5, SilentStep
<1>. QED BY <1>6, <1>7

(* A mark changes no message.                                              *)
LEMMA MarkStep ==
    ASSUME TypeOK, Echo, [Next]_vars, NEW k \in Id, MarkNext(k), NEW w \in User, NEW m \in Id
    PROVE  Known(w, m)' /\ Covered(w, m)' /\ Told(w, m)'
<1>1. /\ messages' = MarkDelivered(k) /\ k \in DOMAIN messages /\ members' = members
      /\ shown' = shown /\ down' = down /\ route' = route /\ synced' = synced
  BY DEF MarkNext, TypeOK, sessionVars
<1>2. Known(w, m) /\ Covered(w, m) /\ Told(w, m)
  BY DEF Echo
<1>3. \A i \in DOMAIN messages : messages'[i].body = messages[i].body
  BY <1>1, TableMarkDelivered DEF TypeOK
<1>4. Party(w, m) => Party(w, m)' /\ messages'[m].conv = messages[m].conv
  BY PartyStays
<1>5. Covered(w, m)'
  BY <1>1, <1>2, <1>4 DEF Covered
<1>6. m \in synced'[w] => m \in synced[w] /\ messages'[m].body = messages[m].body
  BY <1>1, <1>2, <1>3 DEF Covered, Party
<1>7. Known(w, m)' /\ Told(w, m)'
  BY <1>1, <1>2, <1>4, <1>6, SilentStep
<1>. QED BY <1>5, <1>7

(* What a login pushes.                                                    *)
LEMMA OfflineStep ==
    ASSUME TypeOK, Batching, Echo, [Next]_vars, DeliverOffline, NEW w \in User, NEW m \in Id
    PROVE  Known(w, m)' /\ Covered(w, m)' /\ Told(w, m)'
<1>1. /\ messages' = messages /\ members' = members /\ route' = route /\ shown' = shown
      /\ login \in User /\ batch \in SUBSET DOMAIN messages
  BY DEF DeliverOffline, Idle, TypeOK, tableVars, sessionVars
<1>2. \A i \in batch : Party(login, i) /\ messages[i].conv # Group
  BY <1>1 DEF Batching, Party
<1> DEFINE n == Push(Batched(batch))
<1>3. Tells(n, batch)
  BY <1>1, BatchPush
<1>4. Known(w, m) /\ Covered(w, m) /\ Told(w, m) /\ down[w] \in Seq(Notice)
  BY DEF Echo, TypeOK
<1>5. Party(w, m) <=> Party(w, m)'
  BY <1>1 DEF Party
<1>6. CASE w = login /\ route[login] = "live" /\ batch # {}
  <2>1. down'[w] = Append(down[w], n) /\ synced'[w] = synced[w] \cup batch
    BY <1>6 DEF DeliverOffline, TypeOK, Push
  <2>. HIDE DEF n
  <2>2. Covered(w, m)'
    BY <1>1, <1>2, <1>4, <1>5, <1>6, <2>1 DEF Covered
  <2>3. PICK b : Ends(down[w], shown[w][m], m, b) /\ (m \in synced[w] => b = messages[m].body)
    BY <1>4 DEF Told
  <2>4. m \in synced'[w] /\ m \notin batch => b = messages'[m].body
    BY <1>1, <2>1, <2>3
  <2>5. Mentions(down[w], shown[w][m], m) => Party(w, m)'
    BY <1>4, <1>5 DEF Known
  <2>6. m \in batch => Party(w, m)'
    BY <1>2, <1>5, <1>6
  <2>7. shown'[w][m] = shown[w][m]
    BY <1>1
  <2>8. Known(w, m)' /\ Told(w, m)'
    BY <1>3, <1>4, <2>1, <2>3, <2>4, <2>5, <2>6, <2>7, PushStep
  <2>. QED BY <2>2, <2>8
<1>7. CASE ~(w = login /\ route[login] = "live" /\ batch # {})
  <2>1. down'[w] = down[w] /\ synced'[w] = synced[w]
    <3>1. CASE route[login] = "live"
      <4>1. /\ down' = IF batch = {} THEN down ELSE [down EXCEPT ![login] = Append(@, n)]
            /\ synced' = [synced EXCEPT ![login] = @ \cup batch]
        BY <3>1 DEF DeliverOffline, Push
      <4>. HIDE DEF n
      <4>2. w # login \/ batch = {}
        BY <1>7, <3>1
      <4>. QED BY <1>1, <4>1, <4>2 DEF TypeOK
    <3>2. CASE route[login] # "live"
      BY <3>2 DEF DeliverOffline
    <3>. QED BY <3>1, <3>2
  <2>2. Covered(w, m)'
    BY <1>1, <1>4, <1>5, <2>1 DEF Covered
  <2>3. Known(w, m)' /\ Told(w, m)'
    BY <1>1, <1>4, <1>5, <2>1, SilentStep
  <2>. QED BY <2>2, <2>3
<1>. QED BY <1>6, <1>7

(* A step that leaves the table, the queues and the clients to themselves, *)
(* takes nobody with a group message on his route out of the group, and    *)
(* ends the route of nobody who keeps what he was sent.                    *)
LEMMA CalmStep ==
    ASSUME TypeOK, Echo, [Next]_vars, UNCHANGED <<messages, down, shown>>,
           \A w \in User : synced'[w] \subseteq synced[w],
           \A w \in User : synced'[w] # {} => route'[w] = route[w],
           \A w \in User : \A m \in synced[w] :
               messages[m].conv = Group /\ w \in members => w \in members'
    PROVE  \A w \in User, m \in Id : Known(w, m)' /\ Covered(w, m)' /\ Told(w, m)'
<1> SUFFICES ASSUME NEW w \in User, NEW m \in Id PROVE Known(w, m)' /\ Covered(w, m)' /\ Told(w, m)'
  OBVIOUS
<1>1. Known(w, m) /\ Covered(w, m) /\ Told(w, m)
  BY DEF Echo
<1>2. Party(w, m) <=> Party(w, m)'
  BY DEF Party
<1>3. Covered(w, m)'
  BY <1>1, <1>2 DEF Covered
<1>4. Known(w, m)' /\ Told(w, m)'
  BY <1>1, <1>2, SilentStep
<1>. QED BY <1>3, <1>4

(* leaveGroup: the client drops the group, the queue stays.                *)
LEMMA LeaveStep ==
    ASSUME TypeOK, Echo, [Next]_vars, NEW u \in User, HandleLeaveGroup(u), NEW w \in User, NEW m \in Id
    PROVE  Known(w, m)' /\ Covered(w, m)' /\ Told(w, m)'
<1>1. /\ messages' = messages /\ down' = down /\ route' = route /\ members' = members \ {u}
      /\ synced' = [synced EXCEPT ![u] = @ \ GroupMessages]
      /\ shown' = [shown EXCEPT ![u] = [i \in Id |-> IF i \in GroupMessages THEN None ELSE @[i]]]
  BY DEF HandleLeaveGroup, sessionVars
<1>2. Known(w, m) /\ Covered(w, m) /\ Told(w, m)
  BY DEF Echo
<1>3. Party(w, m) <=> Party(w, m)'
  BY <1>1 DEF Party
<1>4. /\ synced'[w] = IF w = u THEN synced[w] \ GroupMessages ELSE synced[w]
      /\ shown'[w][m] = IF w = u /\ m \in GroupMessages THEN None ELSE shown[w][m]
  BY <1>1 DEF TypeOK
<1>5. Covered(w, m)'
  BY <1>1, <1>2, <1>3, <1>4 DEF Covered, Party, GroupMessages
<1>6. shown'[w][m] = shown[w][m] \/ (shown'[w][m] = None /\ m \notin synced'[w])
  BY <1>4
<1>7. Known(w, m)' /\ Told(w, m)'
  BY <1>1, <1>2, <1>3, <1>4, <1>6, SilentStep
<1>. QED BY <1>5, <1>7

(* A connection that is gone takes its queue and its route with it.        *)
LEMMA EndedStep ==
    ASSUME TypeOK, NEW w \in User, NEW m \in Id,
           down'[w] = <<>>, shown'[w] = Empty, synced'[w] = {}
    PROVE  Known(w, m)' /\ Covered(w, m)' /\ Told(w, m)'
<1>1. shown'[w][m] = None /\ None \in View
  BY DEF Empty, View
<1>2. Ends(<<>>, None, m, None)
  BY <1>1, EndsEmpty
<1>3. ~Mentions(<<>>, None, m)
  <2>1. 1 .. Len(<<>>) = {}
    OBVIOUS
  <2>. QED BY <2>1 DEF Mentions
<1>. QED BY <1>1, <1>2, <1>3 DEF Known, Covered, Told

(* The client takes a notice.                                              *)
LEMMA IncomingStep ==
    ASSUME TypeOK, Echo, [Next]_vars, NEW u \in User, HandleIncomingMessage(u),
           NEW w \in User, NEW m \in Id
    PROVE  Known(w, m)' /\ Covered(w, m)' /\ Told(w, m)'
<1>1. /\ down[u] # <<>> /\ down' = [down EXCEPT ![u] = Tail(@)]
      /\ messages' = messages /\ members' = members /\ route' = route /\ synced' = synced
      /\ shown' = [shown EXCEPT ![u] = [i \in Id |-> Shown(@[i], Head(down[u]), i)]]
  BY DEF HandleIncomingMessage, tableVars, sessionVars
<1>2. Known(w, m) /\ Covered(w, m) /\ Told(w, m) /\ down[w] \in Seq(Notice)
  BY DEF Echo, TypeOK
<1>3. Party(w, m) <=> Party(w, m)'
  BY <1>1 DEF Party
<1>4. Covered(w, m)'
  BY <1>1, <1>2, <1>3 DEF Covered
<1>5. CASE w # u
  <2>1. down'[w] = down[w] /\ shown'[w][m] = shown[w][m]
    BY <1>1, <1>5 DEF TypeOK
  <2>2. Known(w, m)' /\ Told(w, m)'
    BY <1>1, <1>2, <1>3, <2>1, SilentStep
  <2>. QED BY <1>4, <2>2
<1>6. CASE w = u
  <2>1. down'[w] = Tail(down[w]) /\ shown'[w][m] = Shown(shown[w][m], Head(down[w]), m)
    BY <1>1, <1>6 DEF TypeOK
  <2>2. PICK b : Ends(down[w], shown[w][m], m, b) /\ (m \in synced[w] => b = messages[m].body)
    BY <1>2 DEF Told
  <2>3. Ends(Tail(down[w]), Shown(shown[w][m], Head(down[w]), m), m, b)
    BY <1>1, <1>2, <1>6, <2>2, EndsTail
  <2>4. Told(w, m)'
    BY <1>1, <2>1, <2>2, <2>3 DEF Told
  <2>5. Known(w, m)'
    BY <1>1, <1>2, <1>3, <1>6, <2>1, MentionsTail DEF Known
  <2>. QED BY <1>4, <2>4, <2>5
<1>. QED BY <1>5, <1>6

(* Every step keeps the agreement of table, queues and displays. *)
LEMMA EchoNext == TypeOK /\ Batching /\ Echo /\ [Next]_vars => Echo'
<1> SUFFICES ASSUME TypeOK, Batching, Echo, [Next]_vars PROVE Echo'
  OBVIOUS
<1> DEFINE Kept(w, m) == Known(w, m)' /\ Covered(w, m)' /\ Told(w, m)'
<1> HIDE DEF Kept
<1>0. ~created => members = {}
  BY DEF Echo
<1>1. ~created' => members' = {}
  <2>1. ASSUME NEW u \in User, Changing(u) PROVE UNCHANGED <<members, created>>
    BY <2>1, ChangingIs, ChangesIs
  <2>2. ASSUME NEW u \in User, HandleCreateGroup(u) \/ HandleJoinGroup(u) \/ HandleLeaveGroup(u)
        PROVE  ~created' => members' = {}
    BY <1>0, <2>2 DEF HandleCreateGroup, HandleJoinGroup, HandleLeaveGroup
  <2>3. ASSUME NEW u \in User, NEW v \in User, HandlePrivateMessage(u, v)
        PROVE  UNCHANGED <<members, created>>
    BY <2>3 DEF HandlePrivateMessage
  <2>4. ASSUME NEW u \in User,
               \/ HandleGroupMessage(u) \/ \E c \in User \cup {Group} : HandleHistory(u, c)
               \/ HandleLogin(u) \/ Cut(u) \/ RemoveSession(u) \/ HandleIncomingMessage(u)
        PROVE  UNCHANGED <<members, created>>
    BY <2>4 DEF HandleGroupMessage, HandleHistory, HandleLogin, Cut, RemoveSession,
                HandleIncomingMessage, tableVars
  <2>5. CASE (\E m \in Id : MarkNext(m)) \/ DeliverOffline \/ Tick \/ Restart \/ UNCHANGED vars
    BY <1>0, <2>5 DEF MarkNext, DeliverOffline, Tick, Restart, vars, tableVars
  <2>. QED BY <1>0, <2>1, <2>2, <2>3, <2>4, <2>5 DEF Next, Handle, Changing
<1>2. ASSUME NEW u \in User, NEW w \in User, NEW m \in Id, Handle(u) PROVE Kept(w, m)
  <2>1. ASSUME NEW v \in User, HandlePrivateMessage(u, v) PROVE Kept(w, m)
    BY <2>1, PrivateStep DEF Kept
  <2>2. CASE HandleGroupMessage(u)
    BY <2>2, GroupStep DEF Kept
  <2>3. CASE Changing(u)
    BY <2>3, ChangingStep DEF Kept
  <2>4. ASSUME NEW c \in User \cup {Group}, HandleHistory(u, c) PROVE Kept(w, m)
    BY <2>4, HistoryStep DEF Kept
  <2>5. CASE HandleCreateGroup(u)
    <3>1. /\ UNCHANGED <<messages, down, shown>> /\ synced' = synced /\ route' = route /\ members = {}
      BY <1>0, <2>5 DEF HandleCreateGroup, sessionVars
    <3>. QED BY <3>1, CalmStep DEF Kept
  <2>6. CASE HandleJoinGroup(u)
    <3>1. /\ UNCHANGED <<messages, down, shown>> /\ synced' = synced /\ route' = route
          /\ members \subseteq members'
      BY <2>6 DEF HandleJoinGroup, sessionVars
    <3>. QED BY <3>1, CalmStep DEF Kept
  <2>7. CASE HandleLeaveGroup(u)
    BY <2>7, LeaveStep DEF Kept
  <2>8. CASE HandleLogin(u)
    BY <2>8, LoginStep DEF Kept
  <2>. QED BY <1>2, <2>1, <2>2, <2>3, <2>4, <2>5, <2>6, <2>7, <2>8 DEF Handle, Changing
<1>3. ASSUME NEW u \in User, NEW w \in User, NEW m \in Id, Cut(u) PROVE Kept(w, m)
  <2>1. /\ messages' = messages /\ members' = members
        /\ w # u => down'[w] = down[w] /\ shown'[w] = shown[w] /\ synced'[w] = synced[w]
                    /\ route'[w] = route[w]
        /\ w = u => down'[w] = <<>> /\ shown'[w] = Empty /\ synced'[w] = {}
    BY <1>3 DEF Cut, TypeOK, tableVars
  <2>2. CASE w = u
    BY <2>1, <2>2, EndedStep DEF Kept
  <2>3. CASE w # u
    <3>1. Known(w, m) /\ Covered(w, m) /\ Told(w, m)
      BY DEF Echo
    <3>2. Party(w, m) <=> Party(w, m)'
      BY <2>1 DEF Party
    <3>3. Covered(w, m)'
      BY <2>1, <2>3, <3>1, <3>2 DEF Covered
    <3>4. Known(w, m)' /\ Told(w, m)'
      BY <2>1, <2>3, <3>1, <3>2, SilentStep
    <3>. QED BY <3>3, <3>4 DEF Kept
  <2>. QED BY <2>2, <2>3
<1>4. ASSUME NEW u \in User, NEW w \in User, NEW m \in Id, RemoveSession(u) PROVE Kept(w, m)
  <2>1. UNCHANGED <<messages, members, down, shown>>
    BY <1>4 DEF RemoveSession, tableVars
  <2>2. \A x \in User : synced'[x] \subseteq synced[x] /\ (synced'[x] # {} => route'[x] = route[x])
    BY <1>4 DEF RemoveSession, TypeOK
  <2>. QED BY <2>1, <2>2, CalmStep DEF Kept
<1>5. ASSUME NEW u \in User, NEW w \in User, NEW m \in Id, HandleIncomingMessage(u) PROVE Kept(w, m)
  BY <1>5, IncomingStep DEF Kept
<1>6. ASSUME NEW w \in User, NEW m \in Id, Tick \/ UNCHANGED vars PROVE Kept(w, m)
  <2>1. UNCHANGED <<messages, members, down, shown, synced, route>>
    BY <1>6 DEF Tick, vars, tableVars, sessionVars
  <2>. QED BY <2>1, CalmStep DEF Kept
<1>7. ASSUME NEW w \in User, NEW m \in Id, Restart PROVE Kept(w, m)
  <2>1. down'[w] = <<>> /\ shown'[w] = Empty /\ synced'[w] = {}
    BY <1>7 DEF Restart
  <2>. QED BY <2>1, EndedStep DEF Kept
<1>8. ASSUME NEW w \in User, NEW m \in Id, NEW k \in Id, MarkNext(k) PROVE Kept(w, m)
  BY <1>8, MarkStep DEF Kept
<1>9. ASSUME NEW w \in User, NEW m \in Id, DeliverOffline PROVE Kept(w, m)
  BY <1>9, OfflineStep DEF Kept
<1>10. ASSUME NEW w \in User, NEW m \in Id PROVE Kept(w, m)
  BY <1>2, <1>3, <1>4, <1>5, <1>6, <1>7, <1>8, <1>9 DEF Next
<1>. QED BY <1>1, <1>10 DEF Echo, Kept

(* The initial state satisfies that agreement. *)
LEMMA EchoInit == Init => Echo
<1> SUFFICES ASSUME Init PROVE Echo
  OBVIOUS
<1>1. ASSUME NEW w \in User, NEW m \in Id PROVE Known(w, m) /\ Covered(w, m) /\ Told(w, m)
  <2>1. down[w] = <<>> /\ shown[w][m] = None /\ synced[w] = {} /\ None \in View /\ 1 .. Len(<<>>) = {}
    BY DEF Init, Empty, View
  <2>2. Ends(<<>>, None, m, None)
    BY <2>1, EndsEmpty
  <2>. QED BY <2>1, <2>2 DEF Known, Mentions, Covered, Told
<1>. QED BY <1>1 DEF Echo, Init

(* A client that has taken all its notices shows every message sent over   *)
(* its present route as the table has it: deliverToConversation, the       *)
(* histories, the offline push and updateMessageById together miss no      *)
(* edit, deletion, reaction or receipt, for any number of users, messages  *)
(* and notices on the way.                                                 *)
THEOREM SpecShownAsStored == Spec => []ShownAsStored
<1>1. TypeOK /\ Echo => ShownAsStored
  <2> SUFFICES ASSUME TypeOK, Echo, NEW u \in User, down[u] = <<>>, NEW m \in synced[u]
               PROVE  shown[u][m] = messages[m].body
    BY DEF ShownAsStored
  <2>1. m \in Id
    BY DEF TypeOK
  <2>2. shown[u][m] \in View
    BY <2>1 DEF TypeOK, Batch, View
  <2>3. PICK b : Ends(<<>>, shown[u][m], m, b) /\ b = messages[m].body
    BY <2>1 DEF Echo, Told
  <2>. QED BY <2>2, <2>3, EndsEmpty
<1>. QED BY TypeInit, TypeNext, DeliveryInit, BatchingNext, EchoInit, EchoNext, <1>1, PTL DEF Spec
=============================================================================
