# LanChat Next: TLA+ models and proofs

LanChat Next is a chat system for a local network: a C++ server (standalone
Asio, SQLite through Qt) and a desktop client (React stores in a Tauri shell,
with the TCP connection in Rust). They exchange length-prefixed JSON frames over
one TCP connection per client. The repository also keeps the Qt program it grew
out of, under `legacy/`, with the JSON library in its trees. Paths below are
relative to the repository.

## 1. The system

| Part | State | Operations | Talks to |
|---|---|---|---|
| Session layer: `AsyncSession`, `SessionPool`, `TcpServer`, `PresenceManager` | sockets, the pool, `user_to_session_`, presence, `users.is_online` | accept, read, decode, rate limit, heartbeat, sweep, login, logout, removal | friends' sessions (presence notices) |
| Friendships: `FriendRepository`, four handlers of `MessageRouter`, `friendStore` | the `friendships` table, each client's friends and requests | request, accept, reject, remove, login reply | the other user's session, if routed |
| Messages and groups: `MessageRepository`, `ChannelRepository`, handlers, `messageStore` | the `messages` and `group_members` tables, each client's conversations | send, push, history, edit, delete, react, read, create/join/leave | every recipient's session |
| Client connection: `tcp_manager.rs`, `commands.rs`, `connectionStore` | write half, read task, status, reconnect timer and counter | connect, disconnect, end of the stream, connection-lost, timer, banner | the server, the stores |
| Client outbox: `offlineQueue`, `flushOfflineQueue` | the queue in localStorage | compose, flush, send, dequeue, restart | the connection, the server |
| Wire: `FrameCodec`, `doWrite`, `message_codec.rs`, `LegacyProtocolCodec` | accumulators, the write queue | encode, write, read, decode, cap | both ends |
| Store: `Database`, `UserRepository`, `ChannelRepository`, `LegacyMigrator` | the SQLite file, each process's cached tables, the schema version | open, migrate, register, login, profile, create/join/leave | the handlers; a second process on the same file |
| Legacy server and client (Qt): `MainWindow`, `NetworkThread`, `MessageDao`, the dialogs | a queue per thread, the GUI thread's maps, each client's lists | register, login, chat, groups, disconnect, reconnect | signals between threads, sockets |
| JSON library: `CJsonObject`, `cJSON` | nodes and links, cached wrappers, a key cursor | add, replace, delete, get, copy, move, parse | the legacy trees |
| AI and search, protocol constants, UI, logging | | | see section 7 |

What is hard here:

- **Sessions.** A user may have two sessions, one session may serve two users in
  turn, and a session may go in four ways (end of stream, rate limit, sweep,
  restart), some of them in the middle of a batch of frames. The route of a user,
  presence, the table and what friends were told are separate pieces of state.
- **Friendships.** Buttons act on what the client was told last; requests,
  answers and removals cross on the wire.
- **Messages.** "Delivered" is decided by the route, which may point to a dead
  session; edits race pushes of older states.
- **Client.** Commands run on a thread pool, replies and events reach the store
  in any order, timers outlive what armed them, and the queue outlives the
  client.
- **Wire.** Frames are cut anywhere by partial writes and reads; a limit or a
  frame that cannot be decoded may cost more than itself.
- **Store.** Every table is cached for the life of a process and rewritten as a
  whole; a group is created in two writes; a kill may come between any two.
- **Legacy.** Worker threads and the GUI thread exchange queued signals, and the
  client's lists are repaired by notices that cross.
- **JSON.** Wrappers, cursors and iterators point into a tree that dozens of
  overloads relink by hand.

`PROJECT.json` lists each hazard at its line with the properties that cover it.

## 2. Modules

| Module | Models | Checked by | Proved in |
|---|---|---|---|
| `SessionRouting` | the session layer | `MCSessionRouting` | `SessionRoutingProofs` |
| `Friendship` | friendships, table to store | `MCFriendship` | `FriendshipProofs` |
| `Messaging` | messages and one group, table to store | `MCMessaging` | `MessagingProofs` |
| `ClientLink` | the client's connection | itself | `ClientProofs` |
| `Outbox` | the offline queue and its flush, on top of `ClientLink` | `MCOutbox` | `ClientProofs` |
| `FrameChannel` | what both programs take a connection to be: an abstract first-in first-out channel | as a property of `Wire` | `WireProofs` (implemented by `Wire`) |
| `Wire` | framing, write queue and decoders, byte by byte; implements `FrameChannel` | itself | `WireProofs` |
| `Store` | the tables, their cache and file, accounts, groups, migrations | `MCStore` | `StoreProofs` |
| `LegacyServer` | the Qt server: threads, signals, slots, messages table | | `LegacyLoginProofs`, `LegacyProofs` |
| `LegacyChat` | the Qt clients on top of `LegacyServer` | `MCLegacyChat` | `LegacyLoginProofs`, `LegacyProofs` |
| `CJson` | cJSON: nodes, links, numbers | | |
| `CJsonObject` | the document class on top of `CJson` | `MCCJsonObject` | |

`Outbox` extends `ClientLink`: each of its steps is a step of the connection
(`Link(LinkNext)`), a step of the queue, or a restart. The server modules are
separate: `Messaging` and `Friendship` keep of a session only what their handlers
see (is it in the pool and logged in, is it the one a route names, is its peer
there), and why a session is removed is left to `SessionRouting`. The assumption
behind that, that a route never names a session of somebody else, is its
`RouteSound`; both modules have the removal of an older session that erases the
route of the newer one. That what the server sends travels whole and
in order, the `up` and `down` of these modules, is what `Wire` shows of the bytes
(`ChannelSpec`). The atomic statements on rows are what `Store` shows of the
tables, as long as one process uses the file.

### SessionRouting

The server runs one `io_context` on one thread (`TcpServer::run`), so a handler
is never interrupted. A read handler decodes every complete frame it has
(`batch`); here it takes one step per frame while `Idle` holds every other
handler back. This matters: after a rate-limit removal the loop goes on with the
remaining frames of a session that has left the pool. `RemoveSessions` is
`TcpServer::removeSession` with its presence update and its notices,
`HandleLogin` and `HandleLogout` are the handlers with bind and unbind. `view[s]`
is what the server has told the peer of `s` about its friends. `stale` stands
for "no heartbeat for 90 seconds", `rate` for the frames of the present
one-second window. `Restart` keeps only the users table. Other requests
(`HandleOther`) change nothing here.

### Friendship

`row` has a status per ordered pair. `SendRequestOutcomes` follows
`FriendRepository::sendRequest`, including that its `SELECT ... LIMIT 1` may
return either of two rows and that an `INSERT` onto an existing row fails on the
unique key. `pool`, `auth` and `route` are the server's sessions, `here[u]` the
session the client of `u` is at: when a client leaves a connection, by a loss or a
logout, the server keeps the old session, goes on reading what came over it, and
may remove it at any later time (`RemoveSession`), which erases the user's route
even if it names the newer session. Notices go where `route` says (`Notify`), replies
to the session that asked (`Send`); either reaches the client only if it is there
(`Reaches`). `behind` remembers that an older session of a user made or ended a
friendship, which his client is not told. `up` and `down` are the frames on their
way; the server handles frames of a connection in order, and after a removal at
the rate limit the rest of what it has read. `Offered` says which buttons the
client shows, on what it knows. A lost connection is restored by the client at
once, but unauthenticated; the client logs in only from its login form, so after a
loss it must log out (which also disconnects) before it is served again. Failure
replies only show a text and are left out. A restart of the server is, for this
module, the removal of every session.

### Messaging

`messages` is the table, `shown[u]` the store of a client, `down[u]` the notices
on their way. `route[u]` is what `findByUserId` finds: nothing, the live session,
or one whose peer is gone and not noticed yet. A request is handled in the step
that sends it: what makes requests stale is that the client's view lags behind by
the notices in `down`. `Waiting` and `TrimToLimit` are the offline push with its
limit and its order by seconds, which leaves ties open. A login takes several
steps: `HandleLogin` binds the session and reads the batch, `MarkNext` writes one
mark to the file, `DeliverOffline` sends the batch; no other handler runs in
between (`Idle`), but the client may go and the process may end (killed, or by an
`encode` that throws). Three history variables say what became of private messages:
`handed` how a live session of the recipient got one (a push or a history reply,
which marks nothing), `lost` which were marked in a login that never sent them, `away`
which were stored without a session. `CanTalk` asks the member rows for what the
client keeps as its group list; the two differ while a reply is on its way.
`mergeIncomingMessage`
and `normalizeTimestamp` are imported from a file that is not in the repository;
an incoming message is taken to replace the entry of the same id. Local copies of
messages not yet confirmed are left out, and the server's substring test on
stored reactions is taken as membership.

### ClientLink

`connect` of `tcp_manager.rs` goes through `disconnect` (abort the stored task,
drop the write half), dials, stores the write half, starts the read task and
stores its handle; `calls[k]` is the step one such command has reached, and
another command or a read task may run between any two. `Drop` and `ReportLost`
clear the shared write half whichever connection it belongs to, as the code does.
Replies (`ConnectResolves`, `ConnectRejects`, `DisconnectResolves`),
connection-lost events, timers and clicks reach `connectionStore` in any order.
`orphans` are armed timers whose id the store has overwritten with null.
`retryCount` is also reset by a heartbeat acknowledgement, which never arrives
because the client never sends a heartbeat.

### Outbox

`Compose` is `sendPrivateMessage`/`sendGroupMessage` without a connection. The
effect of `App.tsx` on the connection status is a separate step (`StartFlush`)
after the change. A flush reads the queue once, then for each message sends,
awaits the reply and reads the queue again to remove it. `Write` is `send_json`:
without a write half it fails; on a connection closed at the other end it may
succeed or fail. The server stores what arrives on a logged-in connection.
`Login` is a login that succeeds, from the login form. Messages sent while
connected go out directly and never enter the queue.

### Wire and FrameChannel

One direction of one connection; `link` says which pair of programs is on it
(server to Tauri client, Tauri client to server, legacy server to legacy client).
A byte is `<<k, i>>`, the i-th byte of the k-th frame, so a decoder that lost its
place reads a length out of bytes that are no header: a byte of text spells a
length above every limit, another mix may spell any. `WriteSome` is one completed
`async_write_some`, `ReadSome` one read of at most `ReadMax` bytes, and the decode
loop takes one step per frame, because a partial result is used after it.
`overrun` remembers that a receiver's cap has emptied its accumulator.
`Channel` instantiates `FrameChannel` with the frames of this connection up to the
first one that its receiver does not take in every case (`Readable`, `Promised`):
from a client, frames that exceed the server's limit together with their header;
to the client, frames that are not UTF-8; in the legacy program, frames above its
limit, or a connection that began with bytes of the last one. Behind such a frame
nothing is promised, and section 3 says what happens.

### Store

`disk` is the file, `cache[p]` and `loaded[p]` are `tables_` of a process, `pc[p]`
where its start has got to. `Change` is `insert`, `update` or `remove`: the cache
changes, and `SaveTable` rewrites the table in one transaction, or is rolled back
because the other process holds the lock or the table is missing; nobody looks at
the result. A process may end between any two statements. `createGroup` takes two
steps (`HandleCreateGroup`, `HostJoins`). The second process is the server started
with `--migrate`. `told` is what replies have confirmed, `mixed` whether both
processes have ever been up at once.

### LegacyServer and LegacyChat

A worker thread moves frames from the socket to its `msgQueue` and handles one
message of it at a time: a request becomes a signal in `events`, which the GUI
thread takes in order; the GUI thread's slots append notices to the same queues.
`MessageDao` uses the default database connection, which another class opens later
on another file, so whether its tables exist (`tables`) is chosen in `Init`. A
client is `LoginDialog` until the login reply and `MainWindow` after it; it reads
every frame that has arrived in one go. A client whose connection breaks comes
back on a new one without logging in again. `Scenario` says what people do in a
behaviour and where it starts. Unread messages are replayed in the order of their
rows; the query orders by whole seconds only (`MessageDao.cpp:127`), so this takes
the clock not to step back and SQLite to return ties in row order.

### CJson and CJsonObject

`heap` holds nodes with `child`, `next` and `prev`; a pointer is a node, `Null` or
`Freed`. Numbers are scaled: `Half` and `Full` stand for 2^32 and 2^64, and keep
wrap-around, sign extension and the bit pattern a negative integer leaves in
`valuedouble`. One document (`Root`) and the wrappers that `operator[]` caches per
key and per index are modelled, with the key cursor, the two iterators and every
overload of `Add`, `AddAsFirst`, `Replace`, `Delete` and `Get`; overloads that
differ in type only share a definition (`AddScalar`, `ReplaceScalar`). A copy is a
print and a parse, as in the code (`Reparse`). A call through a dead pointer is
undefined, and a behaviour ends before it. `off` are wrappers that a call has
changed the document under without erasing; `CacheSound` speaks of the others.
`leaked` are nodes nobody owns any more: `Replace` of a key or index that is not
there forgets its new tree, and move assignment the target's old tree and wrappers
(`Leak`); they stay allocated.

## 3. Runs

| Run | States | Question |
|---|---|---|
| `sessions` | 105,026 | Do route, presence, table and friends' views stay consistent? (`RouteSound`, `RoutedIsOnline`, `FriendViewFresh`, `PoolWatched`) |
| `sessions_live` | 105,340 | Does every ended or vanished connection give its place back? (`HalfOpenReclaimed`, `ClosedReleased`, `TypeOK`) |
| `friendship` | 535,570 | Do crossing requests leave one live row, and do clients with a route agree with it, through reconnects and removals of either session? (`OneLiveRow`, `FriendsAgree`, `RejectedUntilRemoved`, `TypeOK`) |
| `messaging_edits` | 742,995 | Do clients converge to the table under all four kinds of change? (`ShownAsStored`, `DeletedForGood`) |
| `messaging_offline` | 1,003,369 | Does no push repeat a push, and does what was stored for a user without a session wait until it is pushed, except for what is lost between mark and push? (`WaitingIsNew`, `OfflinePushed`, `TypeOK`) |
| `link` | 589,409 | Is every write half watched, and does a lost connection get noticed? (`WriterWatched`, `LostNoticed`, `LinkTypeOK`) |
| `outbox` | 5,300,256 | Does no message leave the queue before the transport took it? (`NothingForgotten`, `TypeOK`) |
| `wire` | 357,183 | Do the bytes implement the channel, within the limits, and is the client never handed something else? (`ChannelSpec`, `BufferBounded`, `ClientNeverGarbled`, `TypeOK`) |
| `store` | 1,111,100 | Does what was confirmed survive kills, restarts and migrations? (`ConfirmedIsStored`, `MembersHaveGroups`, `IdsUnique`, `SchemaComplete`, `TypeOK`) |
| `legacy` | 749,042 | Do the Qt clients end with the lists the server has, and with messages in order? (`FriendsAgree`, `MembersAgree`, `NoGhostUsers`, `PrivateInOrder`, `TypeOK`) |
| `json` | 148,026 | Do the trees stay disjoint and hold all but what is known to leak, the cache sound, a traversal complete, a value what was stored? (`TreesOwned`, `CacheSound`, `TraversalComplete`, `PutIsGot`, `TypeOK`) |

One run shows where the code differs from what the repository says of it:
`outbox_reconnect` (`QueuedIsStored`). A reconnected session is not logged in; the
flush sends, the server refuses, and the messages leave the queue marked as sent
(`messageStore.ts:375`, `App.tsx:129`).

### What the properties leave out, and why

The properties are stated so that they hold of the code. These behaviours of the
models are the reason for a condition in one of them.

- Sessions. Removing an older session of a user erases the route of the newer
  one (`SessionPool.cpp:19`): `RouteSound` says that a route is right, not that a
  logged-in session has one. A second Login on one connection leaves the first
  user online without a session (`SessionPool.cpp:28`): `RoutedIsOnline` goes one
  way only.
- Friendships. A second Reject, clicked before the first is confirmed, falls
  through to `removeFriendship` and deletes the rejection
  (`MessageRouter.cpp:706`): `RejectedUntilRemoved` allows a removal by either
  side. A request to an offline user is stored, but no reply shows it. The removal
  of an older session erases the route of the newer one (`SessionPool.cpp:19`): a
  live, logged-in client then misses every notice until it logs in again, and goes
  on showing an old list. What an older session of a client still brought about is
  answered there. `FriendsAgree` therefore speaks of clients that are at the
  session their notices are routed to, and that were not left `behind`.
  **The design document disagrees with the code about rejections**: a rejected row
  is to be cleaned up after 30 days
  (`docs/superpowers/specs/2026-05-29-v1.6.0-v1.7.0-redesign.md:301`). No code does
  it: a rejection holds until somebody removes the pair, and meanwhile refuses
  every request from the same side. `RejectedUntilRemoved` states what the code
  does. A run that refutes the document would show only that a clean-up that was
  never written does not run.
- Messages. A message to a user whose session is dead but still in the pool is
  stored as delivered and never pushed (`MessageRouter.cpp:304`): `OfflinePushed`
  speaks of users without a session. Group messages are never pushed later. The
  marks of an offline batch are in the file before the batch is sent
  (`MessageRepository.cpp:119`, `MessageRouter.cpp:808`): if the process or the
  connection ends in between, or the batch is too long for `encode`, the marked
  messages neither wait nor were sent. `OfflinePushed` names them (`lost`); it says
  nothing else is. A history reply shows a waiting message without marking it
  (`MessageRouter.cpp:421`), so the next login pushes it again: `WaitingIsNew` is
  about pushes.
- Wire. `encode` throws on a payload above its limit, out of `io_context::run`:
  the server ends. A frame whose size with its header exceeds the server's limit,
  and which arrives in pieces, is cleared with the accumulator
  (`AsyncSession.cpp:61`), and the rest of it is read as a header; the session may
  stay out of step. A frame that is not UTF-8, which the server produces when it
  cuts a summary by bytes (`MessageRouter.cpp:85`, `111`), ends the decode loop
  like an incomplete one (`message_codec.rs:24`): whole frames behind it wait for
  the next read. Enough such frames let what waits grow past the client's cap,
  which empties the accumulator in the middle of a frame (`tcp_manager.rs:69`);
  after that the client, too, may be out of step. `ClientNeverGarbled` therefore
  ends at `overrun`, and says that frames of text alone never lead there. The
  legacy client keeps half a frame across a reconnect.
- Store. With both processes up, each rewrites tables from its own cache, and a
  save that finds the file locked is lost silently: a confirmed account may
  vanish, and a member row may survive without its group. Only `IdsUnique` holds
  then. A kill inside `createGroup` leaves a group without members. `join` and
  `leave` do not ask for a login (user 0 may join), and a profile change does not
  ask whether the nickname is taken.
- Legacy. A second login of a user is ignored by the GUI thread, but its thread
  serves it, and its end takes the first one's entry. Frames that arrive in one
  read with the login reply are dropped by the login dialog (`missed`). A client
  that joined a group again while notices were on their way may list a member
  twice (`joins = 1`); threads stay members of groups when they end. A user who
  logged in on two connections has two items in a group's list, which the notice
  that one of them left removes together: `MembersAgree` speaks of the users of one
  connection. A notice for
  a closed dialog goes through a null pointer and ends the client. Messages
  delivered live stay unread in the table and are replayed at the next login.
- JSON. `Replace` leaves the cursor on the node it released: a `GetKey` after it
  is undefined and ends the behaviour, so `TraversalComplete` does not speak of it.
  `Replace` leaks its argument if there is no such key or index
  (`CJsonObject.cpp:1692`, `1854`, `3776`, `3938`), and move assignment leaks what
  the target had (`CJsonObject.cpp:88`): `TreesOwned` accounts for every node but
  these (`leaked`). A key that differs in case addresses the same member but another
  wrapper, which stays behind, as does one behind a shifted index, and the iterator
  of a key after a `Replace` of a scalar (`off`); `CacheSound` is about the others.
  A copy goes through text: 64-bit values that need more than an int, and reals
  with digits beyond the sixth decimal, do not survive it (`Portable`); the model
  has one such real (`Tiny`).

Two more states of `ClientLink` are reachable and worth knowing, though no
document says otherwise. If the connection-lost event is handled before the
connect's own reply while the attempts are used up, the store shows "connected"
without a write half and with nothing pending. And dismissing the reconnect
banner leaves the status at "connecting", in which neither Connect nor the login
form acts: only a logout or a restart ends it.

### Bounds

- `sessions`: two friends and two sessions give double logins of one user and
  logins of two users on one connection; a rate limit of one frame with batches
  of two makes the frame after a removal happen (20 frames in the code).
  `sessions_live` has a pool of one, so that a connection is refused.
- `friendship`: two users, since every statement of the table is about one pair.
  One of them reconnects and has two sessions, so that an older one is removed
  before or after a login on the newer; the other keeps one, which the server may
  remove, too. One request per session and two notices per client are on their
  way, so that a stale notice meets a newer one and a click a table that has
  changed. With one request per session no frame is left to be handled after a
  removal at the rate limit: that case is the theorem's.
- `messaging_*`: two users. `messaging_edits` has one group, one message and two
  notices on their way. `messaging_offline` has two messages, a push limit of one
  (100 in the code), two seconds and one dead session per user, and no group, whose
  messages are never pushed offline. With a limit of one a batch is marked or not;
  a batch cut off half-marked is the theorem's.
- `link`: three connections, two commands at once, one reconnect attempt (five
  in the code; one is enough to be at the limit and below it). The bound on
  forgotten timers never binds. `outbox`: three connections, one command at a
  time, one timer and one reconnect attempt, two overlapping flushes and two
  messages, so that two flushes send and dequeue the same message. `MaxCalls` and
  `MaxFlush` hold back a command or a flush until an earlier one has returned.
- `wire`: three frames of sizes below, at and above the server's limit, a header
  of four bytes and reads of up to six: headers cut in two, two frames in one read
  and a frame in three reads all happen. The client's limit is
  scaled so that, as in the code, the server's longest frame with a read fits it
  (`LimitsFit`), the legacy one so that frames above it occur. A backlog above
  the client's cap needs more unreadable frames than three and does not occur in
  this run; the theorem covers it.
- `store`: two users, two groups; a new file or one with an account whose hash is
  of the old kind; a legacy file of two users. `MCScopes` has one scope for the
  processes one after the other and two smaller ones for both at once.
- `legacy`: two users, three connections, one group, and seven scenarios: wrong
  passwords and registration, people coming and going, chats with and without a
  break, the dialogs' requests, group chat, and joining and leaving. Each bounds
  the frames clients send and the connections that break.
- `json`: up to four nodes and one wrapper, and four callers: one key in two
  spellings, positions, a walk over three keys, and every type of scalar with
  values at the limits of each width. Each may leak one or two nodes
  (`leaks`), which are then missing for the rest of the behaviour.

### Fairness

`sessions_live`: the timer of the sweep is re-armed and served, and so is a
failed read, although other handlers run in between (strong fairness, since
`Idle` disables them again and again); a handler that runs goes on; the 90
seconds of a silent peer pass. Peers owe nothing. `link`: the Tokio pool runs
every command and every read task that can go on, and the page's event loop takes
every reply and event (weak fairness). Timers, clicks and the server owe nothing.
`wire`: a write that was started completes, in part or in full, or fails; a read
returns when bytes are there; the decode loop goes on (weak fairness of each, what
Asio, Tokio and Qt's event loop give a connection that is up). Senders owe nothing,
and a connection may end at any time. The abstract channel then owes every promised
frame while the connection stays open.

## 4. Proofs

Each theorem holds for every value of the constants, under the named assumptions
of the modules: limits and bounds are naturals (`ConstantsAssumption`,
`BoundsAssumption`, `LinkAssumption`, `OutboxAssumption`, `StoreAssumption`,
`SizesAssumption`), the values "no user", "no session" and "no message"
(`NoneAssumption`, `SessionAssumption`) are none of these, friendship is symmetric
and irreflexive, no message is empty (`SizesAssumption`), and the client's cap has room for the
server's longest frame and a read (`LimitsFit`, as in the code). Of the legacy
program: its numbers of users, connections and groups are naturals
(`SizeAssumption`), and a scenario starts with no more users online and groups made
than there are (`ScenarioAssumption`).

- `SessionRoutingProofs`. `IInv` is types, the pool's limit and the four
  invariants of `sessions`. `RouteSound` needs the types only; the other two of
  `Routing` need it, because a notice reaches the session a route names.
  The work is in three lemmas, for removal, login and logout
  (`RemoveKeepsRouting`, `LoginKeepsRouting`, `LogoutKeepsRouting`); the other
  handlers change neither routes nor presence. Results: `SpecTypeOK`, `SpecRouteSound`,
  `SpecRoutedIsOnline`, `SpecFriendViewFresh`, `SpecPoolWatched`.
- `FriendshipProofs`. `FriendsAgree` speaks only of a client whose queue is
  empty, and is not inductive. `Told` says it of a queue of any length: for each
  other user, the last notice about him says what the table says, and if there is
  none, the store of a signed-in client does. It is claimed of the clients at the
  session their route names and not `behind` (`Followed`); a login over that session
  puts a client there, and its reply settles every pair at once. A route names a
  session of the pool that is logged in (`Routed`), so that the removal of the
  session a client is at takes the route with it. `Addressed` keeps notices about
  oneself out. Results: `SpecTypeOK`, `SpecOneLiveRow`, `SpecFriendsAgree`,
  `SpecRejectedUntilRemoved` (an action property).
- `ClientProofs`. Of the connection: `WriterWatched` is inductive with the types: a connect
  stays at "spawn" until its reader runs, and a command that aborted a reader
  stays at "drop" until it has cleared the write half. Results:
  `LinkSpecTypeOK`, `LinkSpecWriterWatched`.
  Of the outbox: `OutboxIInv` adds to the connection's invariant, which every
  step of the queue preserves, that a flush with a resolved send has its message
  in `taken` (`Sending`), and that the queue holds no message twice (`Once`): a
  flush removes by id, and without `Once` it would remove a message that has not
  been sent. Results: `SpecTypeOK`, `SpecNothingForgotten`, `SpecOnce`,
  `SpecWriterWatched` (the connection's property in the composition).
- `StoreProofs`. `IdsUnique` speaks of the file; the invariant is that no cache
  has an id twice either (`UniqueEverywhere`), since any cache may be written
  next. The others hold until both processes have been up at once: then one
  process at most is up (`Solo`), each step of its start finds the tables of the
  steps before it (`Schema`), and what it has loaded is what the file holds, which
  is what was confirmed, with the group of an unfinished `createGroup`
  (`KeptInv`). Results: `SpecTypeOK`, `SpecIdsUnique`, `SpecSchemaComplete`,
  `SpecConfirmedIsStored`, `SpecMembersHaveGroups`.
- `MessagingProofs`. `Delivery` is inductive once ids in `handed` and `away` are
  known to be rows and what is marked in the present login is known to be delivered.
  It needs `Batching`: the batch of a login holds private messages of the user who
  logs in, and is empty when no login is handled. `Grows` says that a step takes
  nothing from `handed` or `lost` and drops no marked message.
  `DeletedForGood` needs `Deletion`, which follows a deletion
  from the table through the queues to the clients: behind a notice that deletes a
  message no notice carries its text, because the table says "deleted" from then
  on. `ShownAsStored` needs `Echo`: the notices on their way to a client turn what
  it shows of a message into what the table holds (`Told`), and every later change
  of that message is sent to the client (`Covered`). What a queue turns a display
  into would be a recursion over the queue; it is stated instead as the existence of
  a trace, one display per notice (`Ends`), which needs no induction: appending
  or handling one notice extends or shortens the trace. Results: `SpecTypeOK`,
  `SpecWaitingIsNew`, `SpecOfflinePushed`, `SpecDeletedForGood` (an action
  property), `SpecShownAsStored`.
- `WireProofs`. The types say that the offset of a partial write stays inside the
  frame in front, and `BufferBounded` is inductive with them. `ClientNeverGarbled`
  rests on `DownInv`: the accumulator and the wire together (`Stream`) start at the
  first byte of a frame, go on byte by byte and frame by frame up to where the
  write queue stands, and lie behind everything received (`Intact`). That the
  first bytes of the accumulator are the bytes of the frame in front, one after
  the other, so that the decoder reads that frame's header and cuts there, is
  `FirstFrame`, an induction over positions made as a minimal counterexample. While all frames are text the loop leaves less than one
  frame behind, so that the cap never acts (`Room`). The proof attempt corrected
  the property: it was first stated without `overrun`, which the instance of the
  run satisfies, and which a longer series of unreadable frames refutes.
  `Wire` implements `FrameChannel` step by step (`SpecImplementsChannel`): a frame
  is sent when its message is encoded, handed over when the decode loop takes it,
  and every partial write or read in between is a stutter. What makes a step of the
  loop take the frame the channel owes next is an invariant for all three links
  (`ChannelInv`): as long as a promised frame is missing, or every frame sent was
  promised, and the accumulator is not a left-over, what is in the accumulator and on the wire is the bytes of the frames from
  the first one not handed over up to where the writer stands, and that frame's
  header says its size. Results: `SpecTypeOK`, `SpecBufferBounded`,
  `SpecClientNeverGarbled`, `SpecImplementsChannel`.
- `LegacyLoginProofs` and `LegacyProofs`. Five results on one tower of invariants,
  its first two levels (`Shape`, `LoginInv`) in a module of their own.
  `Shape` is types, the well-formedness of what the eight kinds of queues and lists
  hold, and which connection, thread and window belong together; it gives
  `TypeOK`. `LoginInv` says that a thread logs in once (`OneLogin`): the password is
  under way at most once, in one place, and nobody is online on the thread before
  its signal has arrived. `NoGhostUsers` is inductive with that, because the signal
  of a thread's end is queued behind the one of its login (`Farewell`). `Fresh`:
  until its login has arrived a thread was told nothing that only users are told.
  `PrivateInOrder` follows the numbers of messages through the sender's two queues
  and the signals (`Sending`), and from there through the table, the receiver's
  queue and socket to the window (`Sent`); what has been handled is earlier than
  what is still under way (`Passed`).
  `FriendsAgree` and `MembersAgree` speak of moments when nothing is under way. The
  invariants say it of every moment: a window's list, changed by the notices that are
  on their way to it in the order it will read them, names the right people, each
  once. For friends (`FriendsInv`) a set of places in the queue, those behind which a
  user is listed, stands for the recursion over the notices (`Turns`); before
  MainWindow is open the same is said of the list in the reply. For groups
  (`MembersInv`) it is a path through 0 and 1, one relation per notice (`Notes`). It
  needs to know that a thread's only join finds it outside the group and its client
  without news of it. That is `Joining`: a second path, of standings "never", "in"
  and "out", leads through the requests of a client on their way, in signals,
  queue and socket, from where the server has the thread to where the window is. The
  proof attempt corrected `MembersAgree`: it was stated of all users, which a user on
  two connections of the same group refutes, in a longer behaviour than the run has.
  Results: `SpecTypeOK`, `SpecNoGhostUsers`, `SpecPrivateInOrder`,
  `SpecFriendsAgree`, `SpecMembersAgree`.

## 5. Only model-checked

The liveness properties (`HalfOpenReclaimed`, `ClosedReleased`, `LostNoticed`, and
the fairness of `ChannelSpec`), which need ENABLED, are out of the prover's reach.
The JSON modules walk trees with recursive operators, on which the prover's main
backend gives up, and what such a walk returns for every tree is an induction over
data: their invariants are checked by TLC only. The violation is a counterexample of
TLC.

## 6. Plan

In this order:

1. The requests and timeouts of `authStore` (a late reply to a request that has
   timed out), and the streaming state of `searchStore`.
2. A statement of the JSON tree without recursion (a parent for every node, an order
   of siblings), to prove `TreesOwned` from.

## 7. Not modelled

- Password hashing (taken as injective), avatars, status texts and times.
- A full disk, and SQLite's own journal: a transaction is done or not done.
- AI requests, search, typing notices, file metadata: they change no state the
  properties speak of. That the server cuts their texts by bytes is in `Wire`.
- The protocol's field names and constants: the modules use the fields as records.
- In the legacy program: the counter of connections, the `channel_members` table,
  which nothing reads, layout and themes.
- In the JSON library: the text's layout and escapes, wrappers of wrappers and
  their cursors, the bulk array constructors, references, negative indices,
  allocation failure. The copies of the library in the two legacy trees are
  identical, and neither project file builds them.
- UI, notifications, translations, secure store, configuration, logging:
  presentation and platform I/O. The buttons that decide what a client may send
  are part of the models.
- Several server threads: `docs/audit-report-2026-05-30-v2.0.0-a1.md:32` speaks of
  them, but the code runs the `io_context` on one.

## 8. Running

In this directory, for a run of section 3 and for a proof module:

    tlc -workers 2 -config outbox.cfg MCOutbox
    tlc -workers 2 -config wire.cfg Wire
    tlapm FriendshipProofs.tla
