------------------------------ MODULE Messaging ------------------------------
(***************************************************************************)
(* Chat messages end to end: MessageRepository, the message and group      *)
(* handlers of MessageRouter, the offline push of a login, and the         *)
(* messageStore of each client.  What the server sends travels in order    *)
(* and arrives later; a request of a client is handled in the step that    *)
(* sends it, because the client's view is already as old as the notices    *)
(* still on their way to it.                                               *)
(*                                                                         *)
(* A connection may be cut.  The server goes on routing to the dead        *)
(* session until it notices, and a client that has meanwhile logged in     *)
(* again loses its new route when the old session is removed               *)
(* (SessionRouting has the details).                                       *)
(*                                                                         *)
(* One handler runs at a time.  All of them are one step but the login,    *)
(* which marks its offline batch in the file message by message before it  *)
(* sends it: the client may go and the process may end between any two of  *)
(* these writes.                                                           *)
(***************************************************************************)
EXTENDS Integers, Sequences, FiniteSets

CONSTANTS
    User,         \* registered accounts, one client each
    Group,        \* the id of one group
    None,         \* no message body; no user
    Uses,         \* what the clients of this instance use: a group, kinds of change
    Limit,        \* messages of one offline push or history (100)
    MaxMessages,  \* bound: rows of the messages table
    MaxText,      \* bound: different texts; 0 is the empty text
    MaxClock,     \* bound: seconds of the server's clock
    MaxDead,      \* bound: dead sessions of one user in the pool
    MaxDown       \* bound: notices on their way to one client

ASSUME ConstantsAssumption ==
    /\ Group \notin User
    /\ Uses \subseteq {"group", "edit", "delete", "react", "read"}
    /\ Limit \in Nat \ {0}
    /\ {MaxMessages, MaxClock, MaxDead, MaxDown} \subseteq Nat
    /\ MaxText \in Nat \ {0}

VARIABLES
    messages,  \* the messages table; msg_id is the index
    members,   \* group_members of Group
    created,   \* Group is in the groups table
    clock,     \* seconds
    conn,      \* conn[u]: "on" while the client has a live, logged-in session
    route,     \* route[u]: findByUserId is "none", the "live" or a "dead" session
    dead,      \* dead[u]: dead sessions of u still in the pool
    login,     \* the user whose login is being handled
    batch,     \* its offline messages
    left,      \* those of them not marked yet
    down,      \* down[u]: notices on their way to the client of u
    shown,     \* shown[u][m]: message m in the messageStore of u
    synced,    \* history: messages sent to u over its present route
    handed,    \* history: how a live session of the recipient got a private message
    lost,      \* history: messages marked as delivered that no session got
    away       \* history: private messages stored while the recipient had no session

tableVars   == <<messages, members, created>>
sessionVars == <<conn, route, dead>>
loginVars   == <<login, batch, left>>
ghostVars   == <<handed, lost, away>>
vars == <<tableVars, clock, sessionVars, loginVars, down, shown, synced, ghostVars>>

Id   == 1 .. MaxMessages
Text == 0 .. MaxText
Body == [text : Text, deleted : BOOLEAN, reactions : SUBSET User, read : BOOLEAN]
Row  == [from : User, conv : User \cup {Group}, time : 0 .. MaxClock,
         delivered : BOOLEAN, body : Body]

ASSUME NoneAssumption == None \notin Body /\ None \notin User

\* The fields of a push: the message bodies it carries.
Batch  == [Id -> Body \cup {None}]
Notice == [kind : {"push"}, msgs : Batch]
            \cup [kind : {"edit"}, id : Id, text : Text]
            \cup [kind : {"delete", "read"}, id : Id]
            \cup [kind : {"react"}, id : Id, by : User]

Empty == [m \in Id |-> None]

(* Types.                                                                  *)
TypeOK ==
    /\ messages \in Seq(Row) /\ Len(messages) <= MaxMessages
    /\ members \in SUBSET User
    /\ created \in BOOLEAN
    /\ clock \in 0 .. MaxClock
    /\ conn \in [User -> {"on", "off"}]
    /\ route \in [User -> {"none", "live", "dead"}]
    /\ dead \in [User -> 0 .. MaxDead]
    /\ down \in [User -> Seq(Notice)]
    /\ shown \in [User -> Batch]
    /\ synced \in [User -> SUBSET Id]
    /\ login \in User \cup {None}
    /\ batch \in SUBSET DOMAIN messages /\ left \in SUBSET batch
    /\ handed \in [Id -> SUBSET {"push", "history"}]
    /\ lost \in SUBSET Id
    /\ away \in SUBSET Id

Init ==
    /\ messages = <<>>
    /\ members = {}
    /\ created = FALSE
    /\ clock = 0
    /\ conn = [u \in User |-> "off"]
    /\ route = [u \in User |-> "none"]
    /\ dead = [u \in User |-> 0]
    /\ down = [u \in User |-> <<>>]
    /\ shown = [u \in User |-> Empty]
    /\ synced = [u \in User |-> {}]
    /\ login = None
    /\ batch = {} /\ left = {}
    /\ handed = [m \in Id |-> {}]
    /\ lost = {}
    /\ away = {}

-----------------------------------------------------------------------------
(***************************************************************************)
(* MessageRepository.                                                      *)
(***************************************************************************)

\* trimToLimit: the newest Limit messages of S; the sort by seconds leaves the
\* order within one second open.
TrimToLimit(S) ==
    {T \in SUBSET S :
        /\ Cardinality(T) = IF Cardinality(S) < Limit THEN Cardinality(S) ELSE Limit
        /\ \A i \in T, j \in S \ T : messages[j].time <= messages[i].time}

\* offlineForUser: the private messages that wait for u.
Waiting(u) == {m \in DOMAIN messages : messages[m].conv = u /\ ~messages[m].delivered}

\* Mutant of MarkDelivered: nothing is written.
MarkNothing(m) == messages

\* Mutant of MarkDelivered: all messages of the recipient are marked.
MarkUnlimited(m) ==
    [i \in DOMAIN messages |->
        IF messages[i].conv = messages[m].conv
        THEN [messages[i] EXCEPT !.delivered = TRUE] ELSE messages[i]]

\* markDelivered: one update of the table and of the file.
MarkDelivered(m) ==
    [i \in DOMAIN messages |->
        IF i = m THEN [messages[i] EXCEPT !.delivered = TRUE] ELSE messages[i]]

\* privateHistory and groupHistory: what u can ask for as conversation c.
InConversation(u, c) ==
    {m \in DOMAIN messages :
        IF c = Group THEN messages[m].conv = Group
        ELSE \/ messages[m].from = u /\ messages[m].conv = c
             \/ messages[m].from = c /\ messages[m].conv = u}

Batched(T) == [m \in Id |-> IF m \in T THEN messages[m].body ELSE None]

\* savePrivate, saveGroup: the new row.
NewRow(u, c, delivered) ==
    [from |-> u, conv |-> c, time |-> clock, delivered |-> delivered,
     body |-> [text |-> 1, deleted |-> FALSE, reactions |-> {}, read |-> FALSE]]

\* Mutant of CanEdit: edit does not look at the deleted flag.
CanEditDeleted(u, m) == messages[m].from = u

\* The WHERE of edit and softDelete.
CanEdit(u, m) == messages[m].from = u /\ ~messages[m].body.deleted

SetBody(m, b) == [messages EXCEPT ![m].body = b]

-----------------------------------------------------------------------------
(***************************************************************************)
(* Sending to sessions.                                                    *)
(***************************************************************************)

\* Mutant of Recipients: only the other side is told.
RecipientsOther(u, c) == IF c = Group THEN members \ {u} ELSE {c}

\* deliverToConversation: who is told of what u does in conversation c.
Recipients(u, c) == IF c = Group THEN members ELSE {u, c}

\* The notice n goes to the users W; what goes to a dead session is lost.
Deliver(W, n) ==
    [w \in User |-> IF w \in W /\ route[w] = "live" THEN Append(down[w], n) ELSE down[w]]

\* The conversation in which the client of u shows message m.
ConversationOf(u, m) ==
    IF messages[m].conv = Group \/ messages[m].from = u
    THEN messages[m].conv ELSE messages[m].from

\* No login is being handled.
Idle == login = None

\* u is connected and the server takes its request; the bound on notices holds.
CanAct(u) == conn[u] = "on" /\ Idle /\ \A w \in User : Len(down[w]) < MaxDown

\* The history of handing over, with the messages of M handed by way of k.
Hand(M, k) == [m \in Id |-> IF m \in M THEN handed[m] \cup {k} ELSE handed[m]]

\* The client offers conversation c: a contact, or a group of u.  Its group list
\* comes with the replies to its own requests and to its login, so it follows the
\* member rows of u, but for the time a reply is on its way.
CanTalk(u, c) == CanAct(u) /\ (c = Group => u \in members)

\* The client of u shows m, in a conversation it offers.
CanTouch(u, m) ==
    /\ m \in DOMAIN messages
    /\ shown[u][m] # None
    /\ CanTalk(u, ConversationOf(u, m))

-----------------------------------------------------------------------------
(***************************************************************************)
(* The handlers.                                                           *)
(***************************************************************************)

\* handlePrivateMessage: to the session v is routed to, and back to the
\* session it came from.
HandlePrivateMessage(u, v) ==
    LET m    == Len(messages) + 1
        r    == NewRow(u, v, route[v] # "none")
        push == [kind |-> "push", msgs |-> [Empty EXCEPT ![m] = r.body]]
        sent == Deliver({v}, push)
    IN  /\ CanTalk(u, v)
        /\ m \in Id
        /\ messages' = Append(messages, r)
        /\ down' = [sent EXCEPT ![u] = Append(@, push)]
        /\ synced' = [w \in User |-> IF w \in {u, v} /\ route[w] = "live"
                                     THEN synced[w] \cup {m} ELSE synced[w]]
        /\ handed' = IF route[v] = "live" THEN Hand({m}, "push") ELSE handed
        /\ away' = IF route[v] = "none" THEN away \cup {m} ELSE away
        /\ UNCHANGED <<members, created, clock, sessionVars, loginVars, shown, lost>>

HandleGroupMessage(u) ==
    LET m    == Len(messages) + 1
        r    == NewRow(u, Group, TRUE)
        push == [kind |-> "push", msgs |-> [Empty EXCEPT ![m] = r.body]]
    IN  /\ CanTalk(u, Group)
        /\ m \in Id
        /\ messages' = Append(messages, r)
        /\ down' = Deliver(members, push)
        /\ synced' = [w \in User |-> IF w \in members /\ route[w] = "live"
                                     THEN synced[w] \cup {m} ELSE synced[w]]
        /\ UNCHANGED <<members, created, clock, sessionVars, loginVars, shown, ghostVars>>

\* What the four handlers below share: the row of m gets body b, and the
\* conversation gets the notice n.  Refusals go to the sender and change
\* nothing.
Change(u, m, b, n) ==
    /\ n.kind \in Uses
    /\ messages' = SetBody(m, b)
    /\ down' = Deliver(Recipients(u, ConversationOf(u, m)), n)
    /\ UNCHANGED <<members, created, clock, sessionVars, loginVars, shown, synced, ghostVars>>

HandleMessageEdit(u, m, t) ==
    /\ CanTouch(u, m)
    /\ ~shown[u][m].deleted
    /\ CanEdit(u, m)
    /\ Change(u, m, [messages[m].body EXCEPT !.text = t],
              [kind |-> "edit", id |-> m, text |-> t])

HandleMessageDelete(u, m) ==
    /\ CanTouch(u, m)
    /\ CanEdit(u, m)
    /\ Change(u, m, [messages[m].body EXCEPT !.text = 0, !.deleted = TRUE],
              [kind |-> "delete", id |-> m])

HandleMessageReaction(u, m) ==
    /\ CanTouch(u, m)
    /\ ~messages[m].body.deleted
    /\ Change(u, m, [messages[m].body EXCEPT !.reactions = @ \cup {u}],
              [kind |-> "react", id |-> m, by |-> u])

\* The client reports the latest message of another user as read.
HandleReadReceipt(u, m) ==
    /\ CanTouch(u, m)
    /\ messages[m].from # u
    /\ Change(u, m, [messages[m].body EXCEPT !.read = TRUE],
              [kind |-> "read", id |-> m])

\* The reply may hold messages that wait for u; it does not mark them.
HandleHistory(u, c) ==
    /\ CanTalk(u, c)
    /\ \E T \in TrimToLimit(InConversation(u, c)) :
         /\ T # {}
         /\ down' = [down EXCEPT ![u] = Append(@, [kind |-> "push", msgs |-> Batched(T)])]
         /\ synced' = IF route[u] = "live" THEN [synced EXCEPT ![u] = @ \cup T] ELSE synced
         /\ handed' = Hand({m \in T : messages[m].conv = u}, "history")
    /\ UNCHANGED <<tableVars, clock, sessionVars, loginVars, shown, lost, away>>

HandleCreateGroup(u) ==
    /\ "group" \in Uses
    /\ conn[u] = "on" /\ Idle
    /\ ~created
    /\ created' = TRUE
    /\ members' = {u}
    /\ UNCHANGED <<messages, clock, sessionVars, loginVars, down, shown, synced, ghostVars>>

HandleJoinGroup(u) ==
    /\ conn[u] = "on" /\ Idle
    /\ created
    /\ members' = members \cup {u}
    /\ UNCHANGED <<messages, created, clock, sessionVars, loginVars, down, shown, synced, ghostVars>>

GroupMessages == {m \in DOMAIN messages : messages[m].conv = Group}

\* leaveGroup drops the messages of the group from the store at once.
HandleLeaveGroup(u) ==
    /\ conn[u] = "on" /\ Idle
    /\ u \in members
    /\ members' = members \ {u}
    /\ shown' = [shown EXCEPT ![u] = [m \in Id |-> IF m \in GroupMessages THEN None ELSE @[m]]]
    /\ synced' = [synced EXCEPT ![u] = @ \ GroupMessages]
    /\ UNCHANGED <<messages, created, clock, sessionVars, loginVars, down, ghostVars>>

\* handleLogin of a client that starts anew: the new session takes the route,
\* and offlineForUser reads what waits.
HandleLogin(u) ==
    /\ Idle
    /\ conn[u] = "off"
    /\ conn' = [conn EXCEPT ![u] = "on"]
    /\ route' = [route EXCEPT ![u] = "live"]
    /\ synced' = [synced EXCEPT ![u] = {}]
    /\ login' = u
    /\ \E T \in TrimToLimit(Waiting(u)) : batch' = T /\ left' = T
    /\ UNCHANGED <<tableVars, clock, dead, down, shown, ghostVars>>

\* offlineForUser marks the batch one message after the other, the oldest first.
MarkNext(m) ==
    /\ m \in left
    /\ \A i \in left : messages[m].time <= messages[i].time
    /\ messages' = MarkDelivered(m)
    /\ left' = left \ {m}
    /\ UNCHANGED <<members, created, clock, sessionVars, login, batch, down, shown, synced, ghostVars>>

\* deliverOffline sends the marked batch to the session of the login; nobody gets
\* it when the client has gone meanwhile.
DeliverOffline ==
    /\ ~Idle /\ left = {}
    /\ login' = None /\ batch' = {}
    /\ IF route[login] = "live"
       THEN /\ down' = IF batch = {} THEN down
                       ELSE [down EXCEPT ![login] = Append(@, [kind |-> "push", msgs |-> Batched(batch)])]
            /\ synced' = [synced EXCEPT ![login] = @ \cup batch]
            /\ handed' = Hand(batch, "push")
            /\ UNCHANGED lost
       ELSE lost' = lost \cup batch /\ UNCHANGED <<down, synced, handed>>
    /\ UNCHANGED <<tableVars, clock, sessionVars, left, shown, away>>

-----------------------------------------------------------------------------
(***************************************************************************)
(* Connections, the clock, and the client.                                 *)
(***************************************************************************)

\* The client is gone; the server does not know yet.  Its store is empty when
\* it logs in again, so it is emptied here.
Cut(u) ==
    /\ conn[u] = "on"
    /\ dead[u] < MaxDead
    /\ conn' = [conn EXCEPT ![u] = "off"]
    /\ dead' = [dead EXCEPT ![u] = @ + 1]
    /\ route' = [route EXCEPT ![u] = IF @ = "live" THEN "dead" ELSE @]
    /\ down' = [down EXCEPT ![u] = <<>>]
    /\ shown' = [shown EXCEPT ![u] = Empty]
    /\ synced' = [synced EXCEPT ![u] = {}]
    /\ UNCHANGED <<tableVars, clock, loginVars, ghostVars>>

\* Mutant of RemoveSession: the same session is removed a second time.
RemoveSessionTwice(u) ==
    /\ Idle
    /\ dead[u] > 0
    /\ dead' = [dead EXCEPT ![u] = @ - 2]
    /\ route' = [route EXCEPT ![u] = "none"]
    /\ synced' = [synced EXCEPT ![u] = {}]
    /\ UNCHANGED <<tableVars, clock, conn, loginVars, down, shown, ghostVars>>

\* removeSession of a dead session erases the route of its user, whichever
\* session it names.
RemoveSession(u) ==
    /\ Idle
    /\ dead[u] > 0
    /\ dead' = [dead EXCEPT ![u] = @ - 1]
    /\ route' = [route EXCEPT ![u] = "none"]
    /\ synced' = [synced EXCEPT ![u] = {}]
    /\ UNCHANGED <<tableVars, clock, conn, loginVars, down, shown, ghostVars>>

\* The server process is killed, or an encode that throws ends it, and it starts
\* again; the database stays, with the marks of a batch that was not sent.
Restart ==
    /\ conn' = [u \in User |-> "off"]
    /\ route' = [u \in User |-> "none"]
    /\ dead' = [u \in User |-> 0]
    /\ down' = [u \in User |-> <<>>]
    /\ shown' = [u \in User |-> Empty]
    /\ synced' = [u \in User |-> {}]
    /\ lost' = lost \cup (batch \ left)
    /\ login' = None /\ batch' = {} /\ left' = {}
    /\ UNCHANGED <<tableVars, clock, handed, away>>

Tick ==
    /\ clock < MaxClock
    /\ clock' = clock + 1
    /\ UNCHANGED <<tableVars, sessionVars, loginVars, down, shown, synced, ghostVars>>

\* handleIncomingMessage: message m, shown as v, after the notice n.  A pushed
\* message replaces the one with its id; updateMessageById changes a message
\* that is there.
Shown(v, n, m) ==
    IF n.kind = "push" THEN (IF n.msgs[m] # None THEN n.msgs[m] ELSE v)
    ELSE IF v = None \/ m # n.id THEN v
    ELSE CASE n.kind = "edit"   -> [v EXCEPT !.text = n.text]
           [] n.kind = "delete" -> [v EXCEPT !.text = 0, !.deleted = TRUE]
           [] n.kind = "react"  -> [v EXCEPT !.reactions = @ \cup {n.by}]
           [] n.kind = "read"   -> [v EXCEPT !.read = TRUE]

HandleIncomingMessage(u) ==
    /\ down[u] # <<>>
    /\ down' = [down EXCEPT ![u] = Tail(@)]
    /\ shown' = [shown EXCEPT ![u] = [m \in Id |-> Shown(@[m], Head(down[u]), m)]]
    /\ UNCHANGED <<tableVars, clock, sessionVars, loginVars, synced, ghostVars>>

Handle(u) ==
    \/ \E v \in User : HandlePrivateMessage(u, v)
    \/ HandleGroupMessage(u)
    \/ \E m \in Id, t \in Text \ {0} : HandleMessageEdit(u, m, t)
    \/ \E m \in Id : HandleMessageDelete(u, m)
    \/ \E m \in Id : HandleMessageReaction(u, m)
    \/ \E m \in Id : HandleReadReceipt(u, m)
    \/ \E c \in User \cup {Group} : HandleHistory(u, c)
    \/ HandleCreateGroup(u)
    \/ HandleJoinGroup(u)
    \/ HandleLeaveGroup(u)
    \/ HandleLogin(u)

Next ==
    \/ \E u \in User : Handle(u) \/ Cut(u) \/ RemoveSession(u) \/ HandleIncomingMessage(u)
    \/ \E m \in Id : MarkNext(m)
    \/ DeliverOffline
    \/ Tick
    \/ Restart

Spec == Init /\ [][Next]_vars

-----------------------------------------------------------------------------
(***************************************************************************)
(* Properties.                                                             *)
(***************************************************************************)

(* A message that still waits for its recipient was never pushed to a live *)
(* session of his, so no offline push repeats a push.  A history reply may *)
(* have shown it without marking it (handleHistory): then the next login   *)
(* pushes it although the client has had it.                               *)
WaitingIsNew ==
    \A m \in DOMAIN messages : ~messages[m].delivered => handed[m] \subseteq {"history"}

(* While the route of u lasts and nothing is on its way, u's client shows  *)
(* every message it was sent over that route exactly as the table has it:  *)
(* no edit, deletion, reaction or receipt of anybody, made before or after *)
(* the message was pushed, is missing.                                     *)
ShownAsStored ==
    \A u \in User : (conn[u] = "on" /\ down[u] = <<>>) =>
        \A m \in synced[u] : shown[u][m] = messages[m].body

(* A deleted message shows no text again, neither in the table nor in a    *)
(* client, until the client drops it.                                      *)
DeletedForGood ==
    [][/\ \A m \in DOMAIN messages :
            messages[m].body.deleted => messages'[m].body.deleted /\ messages'[m].body.text = 0
       /\ \A u \in User, m \in Id :
            (shown[u][m] # None /\ shown'[u][m] # None /\ shown[u][m].deleted) =>
                shown'[u][m].deleted /\ shown'[u][m].text = 0]_vars

(* A private message stored while its recipient had no session waits       *)
(* through any number of restarts and of logins whose push was full, until *)
(* it is pushed to a live session of his.  The one way to lose it is the   *)
(* gap in offlineForUser: the process or the connection ends after the     *)
(* mark of the message and before the batch is sent.                       *)
OfflinePushed ==
    \A m \in away :
        messages[m].delivered => "push" \in handed[m] \/ m \in lost \/ m \in batch \ left
=============================================================================
