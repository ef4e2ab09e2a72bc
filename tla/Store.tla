------------------------------- MODULE Store --------------------------------
(***************************************************************************)
(* The server's tables: Database with its cache of every table and its     *)
(* file, the schema migration, UserRepository and ChannelRepository with   *)
(* the handlers that use them, and the second program that opens the same  *)
(* file: the server started with --migrate, which runs LegacyMigrator.     *)
(*                                                                         *)
(* A process loads a table when it first needs it and never again.  Every  *)
(* change is made in the cache, and the whole table is then rewritten in   *)
(* one transaction.  A process may be killed between any two of these.     *)
(***************************************************************************)
EXTENDS Naturals, Sequences

CONSTANTS
    Name,        \* nicknames
    Password,    \* passwords
    Legacy,      \* the legacy user file: a sequence of [nickname, password]
    Old,         \* users rows of an older file, with SHA-256 hashes (version 0) among them
    MaxUser,     \* bound: the largest user id
    MaxGroup,    \* bound: the largest group id
    Scopes       \* bounds a behaviour chooses from: records of
                 \*   user, group  the largest ids used
                 \*   together     may both processes run at once?

FirstUser  == 1000
FirstGroup == 2000
UserId  == FirstUser .. MaxUser
GroupId == FirstGroup + 1 .. MaxGroup
NoUser  == 0     \* the user of a session that is not authenticated

Process == {"server", "migrator"}
Table   == {"users", "groups", "group_members"}

UserRow  == [id : UserId, nickname : Name, password : Password, password_version : {0, 1}]
GroupRow == [group_id : GroupId, host_id : UserId]
Member   == (UserId \cup {NoUser}) \X GroupId

ASSUME StoreAssumption ==
    /\ MaxUser \in Nat /\ MaxGroup \in Nat
    /\ Scopes \subseteq [user : Nat, group : Nat, together : BOOLEAN]
    /\ Legacy \in Seq([nickname : Name, password : Password])
    /\ Old \in SUBSET UserRow
    /\ \A r, s \in Old : r.id = s.id => r = s

VARIABLES
    scope,     \* the bounds of this behaviour
    created,   \* the tables that exist in the file
    version,   \* schema_version in the file: "none", 0 or 1
    disk,      \* the rows of each table in the file
    pc,        \* pc[p]: "off", a step of the start, or "ready"
    loaded,    \* loaded[p]: the tables in tables_
    cache,     \* cache[p][t]: tables_[t], if loaded
    online,    \* users of the server's authenticated sessions
    joining,   \* createGroup has stored this group, its host has not joined: a member or <<>>
    item,      \* the next item of the legacy file
    told,      \* history: what replies have confirmed; not kept once mixed
    mixed      \* history: both processes have been running at once

fileVars == <<scope, created, version>>
procVars == <<pc, online, joining, item, mixed>>
vars == <<scope, created, version, disk, pc, loaded, cache, online, joining, item, told, mixed>>

SchemaTables == {"users", "messages", "groups", "group_members", "friendships"}

Empty == [t \in Table |-> {}]

\* A new file, or one with users in it.
Init ==
    /\ scope \in Scopes
    /\ \/ created = {} /\ version = "none" /\ disk = Empty
       \/ created = {"schema_version"} \cup SchemaTables /\ version = "1"
            /\ disk = [Empty EXCEPT !["users"] = Old]
    /\ pc = [p \in Process |-> "off"]
    /\ loaded = [p \in Process |-> {}]
    /\ cache = [p \in Process |-> Empty]
    /\ online = {} /\ joining = <<>> /\ item = 1
    /\ told = [Empty EXCEPT !["users"] = {[id |-> r.id, nickname |-> r.nickname, password |-> r.password]
                                            : r \in disk["users"]}]
    /\ mixed = FALSE

-----------------------------------------------------------------------------
(***************************************************************************)
(* Starting: open and migrate.  Each statement is a transaction.           *)
(***************************************************************************)

Alone(p) == \A q \in Process : q # p => pc[q] = "off"

\* The process starts and opens the file.
Start(p) ==
    /\ pc[p] = "off" /\ (Alone(p) \/ scope.together)
    /\ pc' = [pc EXCEPT ![p] = "open"]
    /\ item' = IF p = "migrator" THEN 1 ELSE item
    /\ mixed' = (mixed \/ ~Alone(p))
    /\ told' = IF mixed' THEN Empty ELSE told
    /\ UNCHANGED <<fileVars, disk, loaded, cache, online, joining>>

\* The step behind open: the schema if the server finds version 0, the users
\* table alone for the migrator.
BehindOpen(p) == IF p = "server" /\ version = "1" THEN "repositories" ELSE "users"
\* Mutant: the version is written before the friendships table is created.
BehindEarly(p, t) ==
    CASE p = "migrator" -> "ready"
      [] p = "server" /\ t = "users"         -> "messages"
      [] p = "server" /\ t = "messages"      -> "groups"
      [] p = "server" /\ t = "groups"        -> "group_members"
      [] p = "server" /\ t = "group_members" -> "version"
      [] p = "server" /\ t = "friendships"   -> "repositories"

\* The step behind ensureTable(t).
Behind(p, t) ==
    CASE p = "migrator" -> "ready"
      [] p = "server" /\ t = "users"         -> "messages"
      [] p = "server" /\ t = "messages"      -> "groups"
      [] p = "server" /\ t = "groups"        -> "group_members"
      [] p = "server" /\ t = "group_members" -> "friendships"
      [] p = "server" /\ t = "friendships"   -> "version"

\* A statement of a process that is not alone may find the file locked; nobody
\* looks at the result.
Created(p, t) == {created \cup {t}} \cup IF Alone(p) THEN {} ELSE {created}

\* Without a schema_version table it is created, and then given the row 0.
Open(p) ==
    /\ pc[p] = "open"
    /\ IF "schema_version" \in created
       THEN pc' = [pc EXCEPT ![p] = BehindOpen(p)] /\ UNCHANGED created
       ELSE pc' = [pc EXCEPT ![p] = "row"] /\ created' \in Created(p, "schema_version")
    /\ UNCHANGED <<scope, version, disk, loaded, cache, online, joining, item, told, mixed>>

FirstRow(p) ==
    /\ pc[p] = "row"
    /\ pc' = [pc EXCEPT ![p] = BehindOpen(p)]
    /\ version' \in (IF version = "none" THEN {"0"} ELSE {version}) \cup IF Alone(p) THEN {} ELSE {version}
    /\ UNCHANGED <<scope, created, disk, loaded, cache, online, joining, item, told, mixed>>

EnsureTable(p, t) ==
    /\ pc[p] = t
    /\ pc' = [pc EXCEPT ![p] = Behind(p, t)]
    /\ created' \in Created(p, t)
    /\ UNCHANGED <<scope, version, disk, loaded, cache, online, joining, item, told, mixed>>

SetSchemaVersion ==
    /\ pc["server"] = "version"
    /\ pc' = [pc EXCEPT !["server"] = "repositories"]
    /\ version' \in {"1"} \cup IF Alone("server") THEN {} ELSE {version}
    /\ UNCHANGED <<scope, created, disk, loaded, cache, online, joining, item, told, mixed>>

\* The constructors of the repositories ensure their tables once more.
Repositories ==
    /\ pc["server"] = "repositories"
    /\ pc' = [pc EXCEPT !["server"] = "ready"]
    /\ \E T \in SUBSET (SchemaTables \ {"friendships"}) :
          /\ Alone("server") => T = SchemaTables \ {"friendships"}
          /\ created' = created \cup T
    /\ UNCHANGED <<scope, version, disk, loaded, cache, online, joining, item, told, mixed>>

-----------------------------------------------------------------------------
(***************************************************************************)
(* Database: query, insert, update and remove.                             *)
(***************************************************************************)

\* Mutant: a table that is not in the cache counts as empty.
RowsUnloaded(p, t) == cache[p][t]

\* loadTable: the rows process p works on.
Rows(p, t) == IF t \in loaded[p] THEN cache[p][t] ELSE disk[t]

\* query: the tables of T are in the cache from now on.
Query(p, T) ==
    /\ cache' = [cache EXCEPT ![p] = [t \in Table |-> IF t \in T THEN Rows(p, t) ELSE @[t]]]
    /\ loaded' = [loaded EXCEPT ![p] = @ \cup T]
    /\ UNCHANGED disk

\* saveTable: the transaction is done, or finds the file locked by the other
\* process or the table missing and is rolled back.
SaveTable(p, t, rows) ==
    \/ t \in created /\ disk' = [disk EXCEPT ![t] = rows]
    \/ ~(t \in created /\ Alone(p)) /\ UNCHANGED disk

\* insert, update, remove: table t becomes rows, in the cache in any case.
Change(p, t, rows) ==
    /\ cache' = [cache EXCEPT ![p] = [@ EXCEPT ![t] = rows]]
    /\ loaded' = [loaded EXCEPT ![p] = @ \cup {t}]
    /\ SaveTable(p, t, rows)

-----------------------------------------------------------------------------
(***************************************************************************)
(* UserRepository and the account handlers.                                *)
(***************************************************************************)

Biggest(S) == CHOOSE m \in S : \A n \in S : n <= m

\* Mutant: the largest id, not the one behind it.
NewUserIdLargest(rows) == Biggest({FirstUser} \cup {r.id : r \in rows})

NewUserId(rows) == Biggest({FirstUser} \cup {r.id + 1 : r \in rows})

Taken(rows, n) == \E r \in rows : r.nickname = n

\* A reply confirms that table t now has the rows that matter to the user.
Tell(t, rows) == told' = IF mixed THEN told ELSE [told EXCEPT ![t] = rows]

Account(i, n, w) == [id |-> i, nickname |-> n, password |-> w]

\* create: refused for a nickname in use, otherwise a row with a bcrypt hash.
Create(p, n, w) ==
    LET rows == Rows(p, "users")
        i == NewUserId(rows)
    IN  \/ Taken(rows, n) /\ Query(p, {"users"}) /\ UNCHANGED told
        \/ /\ ~Taken(rows, n) /\ i \in UserId /\ i <= scope.user
           /\ Change(p, "users", rows \cup {[id |-> i, nickname |-> n, password |-> w,
                                             password_version |-> 1]})
           /\ Tell("users", told["users"] \cup {Account(i, n, w)})

\* A handler runs: the server is up and not in the middle of another one.
Serving == pc["server"] = "ready" /\ joining = <<>>

HandleRegister(n, w) ==
    /\ Serving
    /\ Create("server", n, w)
    /\ UNCHANGED <<fileVars, procVars>>

\* verifyPassword, with the upgrade of an old hash, then setOnlineStatus: the second
\* write of the users table repeats the first.  The lists of the reply only read.
HandleLogin(u, w) ==
    LET rows == Rows("server", "users")
        mine == {r \in rows : r.id = u}
        upgraded == (rows \ mine) \cup {[r EXCEPT !.password_version = 1] : r \in mine}
    IN  /\ Serving
        /\ \/ /\ \A r \in mine : r.password # w
              /\ Query("server", {"users"})
              /\ UNCHANGED online
           \/ /\ \E r \in mine : r.password = w
              /\ Change("server", "users", upgraded)
              /\ online' = online \cup {u}
        /\ UNCHANGED <<fileVars, pc, joining, item, told, mixed>>

\* Logout or the end of a session: setOnlineStatus writes the users table.
GoOffline(u) ==
    /\ Serving /\ u \in online
    /\ Change("server", "users", Rows("server", "users"))
    /\ online' = online \ {u}
    /\ UNCHANGED <<fileVars, pc, joining, item, told, mixed>>

\* updateProfile does not ask whether the nickname is in use.
HandleProfileUpdate(u, n) ==
    LET rows == Rows("server", "users")
        Renamed(S) == {IF r.id = u THEN [r EXCEPT !.nickname = n] ELSE r : r \in S}
    IN  /\ Serving /\ u \in online
        /\ Change("server", "users", Renamed(rows))
        /\ Tell("users", Renamed(told["users"]))
        /\ UNCHANGED <<fileVars, procVars>>

-----------------------------------------------------------------------------
(***************************************************************************)
(* ChannelRepository and the group handlers.                               *)
(***************************************************************************)

NewGroupId(rows) == Biggest({FirstGroup} \cup {r.group_id : r \in rows}) + 1

\* Mutant: the host joins first, and the group is stored with the reply.
HandleCreateGroupLast(u) ==
    LET g == NewGroupId(Rows("server", "groups"))
        rows == Rows("server", "group_members")
    IN  /\ Serving /\ u \in online /\ g \in GroupId /\ g <= scope.group
        /\ Change("server", "group_members", rows \cup {<<u, g>>})
        /\ joining' = <<u, g>>
        /\ UNCHANGED <<fileVars, pc, online, item, told, mixed>>

\* createGroup stores the group, and its host joins in a write of its own.
HandleCreateGroup(u) ==
    LET rows == Rows("server", "groups")
        g == NewGroupId(rows)
    IN  /\ Serving /\ u \in online /\ g \in GroupId /\ g <= scope.group
        /\ Change("server", "groups", rows \cup {[group_id |-> g, host_id |-> u]})
        /\ joining' = <<u, g>>
        /\ UNCHANGED <<fileVars, pc, online, item, told, mixed>>

\* The second write, and the reply.
HostJoins ==
    LET rows == Rows("server", "group_members")
    IN  /\ pc["server"] = "ready" /\ joining # <<>>
        /\ IF joining \in rows THEN Query("server", {"group_members"})
           ELSE Change("server", "group_members", rows \cup {joining})
        /\ told' = IF mixed THEN told
                   ELSE [told EXCEPT !["groups"] = @ \cup {[group_id |-> joining[2], host_id |-> joining[1]]},
                                     !["group_members"] = @ \cup {joining}]
        /\ joining' = <<>>
        /\ UNCHANGED <<fileVars, pc, online, item, mixed>>

\* join: the group exists, and a second row for the same member is not made.  The
\* handler does not ask whether the session is logged in.
HandleJoinGroup(u, g) ==
    LET rows == Rows("server", "group_members")
        exists == \E r \in Rows("server", "groups") : r.group_id = g
    IN  /\ Serving /\ u \in online \cup {NoUser} /\ g <= scope.group
        /\ \/ /\ ~exists
              /\ Query("server", {"groups"})
              /\ UNCHANGED told
           \/ /\ exists
              /\ IF <<u, g>> \in rows THEN Query("server", {"groups", "group_members"})
                 ELSE Change("server", "group_members", rows \cup {<<u, g>>})
              /\ Tell("group_members", told["group_members"] \cup {<<u, g>>})
        /\ UNCHANGED <<fileVars, procVars>>

\* leave writes the table whether or not there was a row.
HandleLeaveGroup(u, g) ==
    /\ Serving /\ u \in online \cup {NoUser} /\ g <= scope.group
    /\ Change("server", "group_members", Rows("server", "group_members") \ {<<u, g>>})
    /\ Tell("group_members", told["group_members"] \ {<<u, g>>})
    /\ UNCHANGED <<fileVars, procVars>>

-----------------------------------------------------------------------------
(***************************************************************************)
(* LegacyMigrator, and the end of a process.                               *)
(***************************************************************************)

\* One item of the file: skipped if the nickname is in use, created otherwise.
MigrateUser ==
    /\ pc["migrator"] = "ready" /\ item <= Len(Legacy)
    /\ Create("migrator", Legacy[item].nickname, Legacy[item].password)
    /\ item' = item + 1
    /\ UNCHANGED <<fileVars, pc, online, joining, mixed>>

\* Mutant: the group whose creation was cut short survives the process.
EndKeepsHandler(p) ==
    /\ pc[p] # "off"
    /\ pc' = [pc EXCEPT ![p] = "off"]
    /\ loaded' = [loaded EXCEPT ![p] = {}]
    /\ cache' = [cache EXCEPT ![p] = Empty]
    /\ online' = IF p = "server" THEN {} ELSE online
    /\ UNCHANGED <<fileVars, disk, joining, item, told, mixed>>

\* The process ends, or is killed between two statements; what is not in the file
\* is gone.
End(p) ==
    /\ pc[p] # "off"
    /\ pc' = [pc EXCEPT ![p] = "off"]
    /\ loaded' = [loaded EXCEPT ![p] = {}]
    /\ cache' = [cache EXCEPT ![p] = Empty]
    /\ online' = IF p = "server" THEN {} ELSE online
    /\ joining' = IF p = "server" THEN <<>> ELSE joining
    /\ UNCHANGED <<fileVars, disk, item, told, mixed>>

Next ==
    \/ \E p \in Process : Start(p) \/ Open(p) \/ FirstRow(p) \/ End(p)
    \/ \E p \in Process, t \in SchemaTables : EnsureTable(p, t)
    \/ SetSchemaVersion \/ Repositories
    \/ \E n \in Name, w \in Password : HandleRegister(n, w)
    \/ \E u \in UserId, w \in Password : HandleLogin(u, w)
    \/ \E u \in UserId : GoOffline(u) \/ HandleCreateGroup(u)
    \/ \E u \in UserId, n \in Name : HandleProfileUpdate(u, n)
    \/ HostJoins
    \/ \E u \in UserId \cup {NoUser}, g \in GroupId : HandleJoinGroup(u, g) \/ HandleLeaveGroup(u, g)
    \/ MigrateUser

Spec == Init /\ [][Next]_vars

-----------------------------------------------------------------------------
(***************************************************************************)
(* Properties.                                                             *)
(***************************************************************************)

\* Types; a process that is not up has nothing loaded, nobody online and no handler
\* under way, however it ended.
TypeOK ==
    /\ scope \in Scopes
    /\ created \in SUBSET ({"schema_version"} \cup SchemaTables)
    /\ version \in {"none", "0", "1"}
    /\ disk["users"] \in SUBSET UserRow /\ disk["groups"] \in SUBSET GroupRow
    /\ disk["group_members"] \in SUBSET Member
    /\ pc \in [Process -> {"off", "open", "row", "version", "repositories", "ready"} \cup SchemaTables]
    /\ loaded \in [Process -> SUBSET Table]
    /\ \A p \in Process : /\ cache[p]["users"] \in SUBSET UserRow
                          /\ cache[p]["groups"] \in SUBSET GroupRow
                          /\ cache[p]["group_members"] \in SUBSET Member
    /\ online \in SUBSET UserId
    /\ joining \in Member \cup {<<>>}
    /\ item \in 1 .. Len(Legacy) + 1
    /\ mixed \in BOOLEAN
    /\ \A p \in Process : pc[p] # "ready" => loaded[p] = {}
    /\ pc["server"] # "ready" => online = {} /\ joining = <<>>

\* As long as no two processes use the file at once, whatever was confirmed is in
\* the file, across restarts and kills: every account with the nickname and the
\* password it was given last, every group, and exactly the confirmed memberships
\* (Database::loadTable, saveTable, the handlers' replies).
ConfirmedIsStored ==
    mixed \/ /\ told["users"] = {Account(r.id, r.nickname, r.password) : r \in disk["users"]}
             /\ told["groups"] \subseteq disk["groups"]
             /\ told["group_members"] = disk["group_members"]

\* As long as no two processes use the file at once, no membership in the file
\* names a group that is not there, although createGroup writes the two tables one
\* after the other and may be killed in between: the id would go to the next group.
MembersHaveGroups ==
    mixed \/ \A m \in disk["group_members"] : \E r \in disk["groups"] : r.group_id = m[2]

\* No two accounts of the file have one id, not even when two processes rewrite the
\* table in turns from what each of them loaded (UserRepository::create).
IdsUnique == \A r, s \in disk["users"] : r.id = s.id => r = s

\* As long as no two processes use the file at once, a file of version 1 has every
\* table, wherever a migration was killed (Database::migrate).
SchemaComplete == mixed \/ (version = "1" => SchemaTables \subseteq created)
=============================================================================
