----------------------------- MODULE StoreProofs -----------------------------
(***************************************************************************)
(* The invariants of Store for any accounts, any legacy file and any       *)
(* number of restarts.  Four facts carry the proofs:                       *)
(*   UniqueEverywhere  ids are unique in the file and in every cache, so   *)
(*                     that whichever cache is written next has them so;   *)
(*   Solo              until both processes have run at once, at most one  *)
(*                     is up;                                              *)
(*   Schema            the tables that each step of the migration finds;   *)
(*   KeptInv           until then, a cached table is the file's table,     *)
(*                     what was confirmed is stored, and so is the group   *)
(*                     of an unfinished createGroup.                       *)
(***************************************************************************)
EXTENDS Store, TLAPS, WellFoundedInduction

\* The rows a table may hold.
RowsOf(t) == IF t = "users" THEN UserRow ELSE IF t = "groups" THEN GroupRow ELSE Member

Tables(f) == f = [t \in Table |-> f[t]] /\ \A t \in Table : f[t] \in SUBSET RowsOf(t)

\* The part of the types that Query and Change are about.
DatabaseOK ==
    /\ Tables(disk)
    /\ cache = [p \in Process |-> cache[p]]
    /\ \A p \in Process : Tables(cache[p])
    /\ loaded \in [Process -> SUBSET Table]

Typed == TypeOK /\ DatabaseOK /\ told = [t \in Table |-> told[t]]

UniqueIn(rows) == \A r, s \in rows : r.id = s.id => r = s

UniqueEverywhere == UniqueIn(disk["users"]) /\ \A p \in Process : UniqueIn(cache[p]["users"])

\* The tables the server has created when it comes to step s of its start.
Before(s) ==
    IF s = "messages" THEN {"users"}
    ELSE IF s = "groups" THEN {"users", "messages"}
    ELSE IF s = "group_members" THEN {"users", "messages", "groups"}
    ELSE IF s = "friendships" THEN {"users", "messages", "groups", "group_members"}
    ELSE IF s \in {"version", "repositories", "ready"} THEN SchemaTables
    ELSE {}

Solo == mixed \/ \A p \in Process : pc[p] # "off" => Alone(p)

Schema ==
    mixed \/ /\ pc["migrator"] \in {"off", "open", "row", "users", "ready"}
             /\ pc["migrator"] = "ready" => "users" \in created
             /\ Before(pc["server"]) \subseteq created
             /\ version = "1" => SchemaTables \subseteq created

\* The row createGroup stores for the member that is to join.
HostedGroup(j) == [group_id |-> j[2], host_id |-> j[1]]

USE StoreAssumption

-----------------------------------------------------------------------------
(* The largest of a bounded set of numbers, by minimal counterexample.     *)

Less == OpToRel(<, Nat)

(* A set of natural numbers that is not empty has a least element.         *)
LEMMA Least ==
    ASSUME NEW S \in SUBSET Nat, S # {}
    PROVE  \E m \in S : \A n \in S : m <= n
<1>1. IsWellFoundedOn(Less, Nat)
  BY NatLessThanWellFounded, Zenon DEF Less
<1>2. PICK m \in S : \A n \in S : ~ (<<n, m>> \in Less)
  BY <1>1, WFMin
<1>3. \A a, b \in Nat : a < b => <<a, b>> \in Less
  BY Zenon DEF Less, OpToRel
<1>4. ASSUME NEW n \in S PROVE m <= n
  <2>1. n \in Nat /\ m \in Nat /\ ~(n < m)
    BY <1>2, <1>3
  <2>. QED BY <2>1
<1>. QED BY <1>4

(* Biggest, which UserRepository::create and createGroup use for new ids,  *)
(* is the maximum of any bounded set of numbers that is not empty.         *)
LEMMA BiggestIsMax ==
    ASSUME NEW S \in SUBSET Nat, S # {}, NEW N \in Nat, \A n \in S : n <= N
    PROVE  Biggest(S) \in S /\ \A n \in S : n <= Biggest(S)
<1> DEFINE T == {d \in Nat : \E n \in S : d + n = N}
<1>1. T \in SUBSET Nat
  OBVIOUS
<1>2. T # {}
  <2>1. PICK n : n \in S
    OBVIOUS
  <2>2. N - n \in Nat /\ (N - n) + n = N
    BY <2>1
  <2>3. N - n \in T
    BY <2>1, <2>2
  <2>. QED BY <2>3
<1>3. PICK t \in T : \A x \in T : t <= x
  <2>. HIDE DEF T
  <2>. QED BY <1>1, <1>2, Least
<1>4. PICK m \in S : t + m = N
  OBVIOUS
<1>5. ASSUME NEW n \in S PROVE n <= m
  <2>1. N - n \in Nat /\ (N - n) + n = N
    OBVIOUS
  <2>2. N - n \in T
    BY <2>1
  <2>3. t <= N - n
    BY <1>3, <2>2
  <2>. QED BY <2>1, <2>3, <1>4
<1>. QED BY <1>5 DEF Biggest

(* A new user id is above every id of the table it was computed from.      *)
LEMMA NewUserIdIsNew ==
    ASSUME NEW rows \in SUBSET UserRow, NEW r \in rows
    PROVE  r.id < NewUserId(rows)
<1> DEFINE S == {FirstUser} \cup {s.id + 1 : s \in rows}
<1>1. S \in SUBSET Nat /\ S # {}
  BY DEF UserRow, UserId, FirstUser
<1>2. \A n \in S : n <= MaxUser + 1 + FirstUser
  BY DEF UserRow, UserId, FirstUser
<1>3. MaxUser + 1 + FirstUser \in Nat
  BY DEF FirstUser
<1>4. r.id + 1 \in S
  OBVIOUS
<1> HIDE DEF S
<1>5. r.id + 1 <= Biggest(S) /\ Biggest(S) \in Nat
  BY <1>1, <1>2, <1>3, <1>4, BiggestIsMax
<1>6. r.id \in Nat
  BY DEF UserRow, UserId, FirstUser
<1>. QED BY <1>5, <1>6 DEF NewUserId, S

-----------------------------------------------------------------------------
(* Query and Change, for any table.                                        *)

(* What a process reads of a table are rows of that table. *)
LEMMA RowsTyped ==
    ASSUME DatabaseOK, NEW p \in Process, NEW t \in Table
    PROVE  Rows(p, t) \in SUBSET RowsOf(t)
BY DEF DatabaseOK, Tables, Rows

(* A query keeps the types of file and caches. *)
LEMMA QueryTyped ==
    ASSUME DatabaseOK, NEW p \in Process, NEW T \in SUBSET Table, Query(p, T)
    PROVE  DatabaseOK'
<1>1. \A t \in Table : Rows(p, t) \in SUBSET RowsOf(t)
  BY RowsTyped
<1>2. Tables(cache'[p])
  BY <1>1 DEF Query, DatabaseOK, Tables
<1>3. ASSUME NEW q \in Process, q # p PROVE Tables(cache'[q])
  BY <1>3 DEF Query, DatabaseOK
<1>4. cache' = [q \in Process |-> cache'[q]]
  BY DEF Query, DatabaseOK
<1>5. loaded' \in [Process -> SUBSET Table]
  BY DEF Query, DatabaseOK
<1>. QED BY <1>2, <1>3, <1>4, <1>5 DEF Query, DatabaseOK

(* A change of a table to well-typed rows keeps the types of file and caches. *)
LEMMA ChangeTyped ==
    ASSUME DatabaseOK, NEW p \in Process, NEW t \in Table, NEW rows \in SUBSET RowsOf(t),
           Change(p, t, rows)
    PROVE  DatabaseOK'
<1>1. Tables(disk')
  BY DEF Change, SaveTable, DatabaseOK, Tables
<1>2. Tables(cache'[p])
  BY DEF Change, DatabaseOK, Tables
<1>3. ASSUME NEW q \in Process, q # p PROVE Tables(cache'[q])
  BY <1>3 DEF Change, DatabaseOK
<1>4. cache' = [q \in Process |-> cache'[q]]
  BY DEF Change, DatabaseOK
<1>5. loaded' \in [Process -> SUBSET Table]
  BY DEF Change, DatabaseOK
<1>. QED BY <1>1, <1>2, <1>3, <1>4, <1>5 DEF DatabaseOK

(* What is left to show of an action once the database has its types.      *)
LEMMA TypedFrom ==
    ASSUME DatabaseOK',
           scope' \in Scopes,
           created' \in SUBSET ({"schema_version"} \cup SchemaTables),
           version' \in {"none", "0", "1"},
           pc' \in [Process -> {"off", "open", "row", "version", "repositories", "ready"} \cup SchemaTables],
           online' \in SUBSET UserId, joining' \in Member \cup {<<>>},
           item' \in 1 .. Len(Legacy) + 1, mixed' \in BOOLEAN,
           \A p \in Process : pc'[p] # "ready" => loaded'[p] = {},
           pc'["server"] # "ready" => online' = {} /\ joining' = <<>>,
           told' = [t \in Table |-> told'[t]]
    PROVE  Typed'
<1>1. ASSUME NEW f, Tables(f)
      PROVE  f["users"] \in SUBSET UserRow /\ f["groups"] \in SUBSET GroupRow
             /\ f["group_members"] \in SUBSET Member
  BY <1>1 DEF Tables, RowsOf, Table
<1>2. /\ disk'["users"] \in SUBSET UserRow /\ disk'["groups"] \in SUBSET GroupRow
      /\ disk'["group_members"] \in SUBSET Member
  BY <1>1 DEF DatabaseOK
<1>3. ASSUME NEW p \in Process
      PROVE  /\ cache'[p]["users"] \in SUBSET UserRow /\ cache'[p]["groups"] \in SUBSET GroupRow
             /\ cache'[p]["group_members"] \in SUBSET Member
  BY <1>1 DEF DatabaseOK
<1>4. loaded' \in [Process -> SUBSET Table]
  BY DEF DatabaseOK
<1>. QED BY <1>2, <1>3, <1>4 DEF Typed, TypeOK

(* The initial state is well typed. *)
LEMMA TypedInit == Init => Typed
<1> SUFFICES ASSUME Init PROVE Typed
  OBVIOUS
<1>1. Tables(disk)
  BY DEF Init, Tables, Empty, RowsOf, Table
<1>2. \A p \in Process : Tables(cache[p])
  BY DEF Init, Tables, Empty, Table
<1>3. DatabaseOK
  BY <1>1, <1>2 DEF Init, DatabaseOK
<1>4. told = [t \in Table |-> told[t]]
  BY DEF Init, Empty
<1>5. TypeOK
  <2>1. /\ disk["users"] \in SUBSET UserRow /\ disk["groups"] \in SUBSET GroupRow
        /\ disk["group_members"] \in SUBSET Member
    BY <1>1 DEF Tables, RowsOf, Table
  <2>2. \A p \in Process : /\ cache[p]["users"] \in SUBSET UserRow
                           /\ cache[p]["groups"] \in SUBSET GroupRow
                           /\ cache[p]["group_members"] \in SUBSET Member
    BY <1>2 DEF Tables, RowsOf, Table
  <2>3. item \in 1 .. Len(Legacy) + 1
    <3>1. Len(Legacy) \in Nat
      OBVIOUS
    <3>. QED BY <3>1 DEF Init
  <2>4. /\ scope \in Scopes /\ version \in {"none", "0", "1"} /\ mixed \in BOOLEAN
        /\ created \in SUBSET ({"schema_version"} \cup SchemaTables)
        /\ online = {} /\ joining = <<>>
    BY DEF Init
  <2>5. /\ pc \in [Process -> {"off", "open", "row", "version", "repositories", "ready"} \cup SchemaTables]
        /\ loaded \in [Process -> SUBSET Table] /\ \A p \in Process : loaded[p] = {}
    BY DEF Init
  <2>. QED BY <2>1, <2>2, <2>3, <2>4, <2>5 DEF TypeOK
<1>. QED BY <1>3, <1>4, <1>5 DEF Typed

(* A step of a process that is up and leaves the file's schema alone.      *)
LEMMA TypedData ==
    ASSUME Typed, NEW p \in Process, pc[p] = "ready",
           DatabaseOK', \A q \in Process : q # p => loaded'[q] = loaded[q],
           UNCHANGED <<fileVars, pc, mixed>>,
           online' \in SUBSET UserId, joining' \in Member \cup {<<>>},
           item' \in 1 .. Len(Legacy) + 1,
           p = "migrator" => UNCHANGED <<online, joining>>,
           told' = [t \in Table |-> told'[t]]
    PROVE  Typed'
<1>1. \A q \in Process : pc'[q] # "ready" => loaded'[q] = {}
  BY DEF Typed, TypeOK
<1>2. pc'["server"] # "ready" => online' = {} /\ joining' = <<>>
  BY DEF Typed, TypeOK, Process
<1>3. /\ scope' \in Scopes /\ version' \in {"none", "0", "1"} /\ mixed' \in BOOLEAN
      /\ created' \in SUBSET ({"schema_version"} \cup SchemaTables)
      /\ pc' \in [Process -> {"off", "open", "row", "version", "repositories", "ready"} \cup SchemaTables]
  BY DEF Typed, TypeOK, fileVars
<1>. QED BY <1>1, <1>2, <1>3, TypedFrom

(* A statement of one process does not touch which tables another has loaded. *)
LEMMA OthersKeepTheirs ==
    ASSUME DatabaseOK, NEW p \in Process, NEW T, NEW t, NEW rows,
           Query(p, T) \/ Change(p, t, rows)
    PROVE  \A q \in Process : q # p => loaded'[q] = loaded[q]
BY DEF DatabaseOK, Query, Change

(* A confirmation keeps told a function on the tables. *)
LEMMA TellTyped ==
    ASSUME Typed, NEW t, NEW rows, Tell(t, rows)
    PROVE  told' = [x \in Table |-> told'[x]]
BY DEF Typed, Tell

(* createUser keeps the types and leaves the other process alone. *)
LEMMA CreateTyped ==
    ASSUME Typed, NEW p \in Process, NEW n \in Name, NEW w \in Password, Create(p, n, w)
    PROVE  /\ DatabaseOK' /\ \A q \in Process : q # p => loaded'[q] = loaded[q]
           /\ told' = [t \in Table |-> told'[t]]
<1> DEFINE rows == Rows(p, "users")
           i == NewUserId(rows)
           more == rows \cup {[id |-> i, nickname |-> n, password |-> w, password_version |-> 1]}
<1>0. DatabaseOK /\ "users" \in Table
  BY DEF Typed, Table
<1>1. CASE Query(p, {"users"}) /\ UNCHANGED told
  <2>1. DatabaseOK'
    BY <1>0, <1>1, QueryTyped
  <2>. QED BY <1>0, <1>1, <2>1, OthersKeepTheirs DEF Typed
<1>2. CASE i \in UserId /\ Change(p, "users", more)
           /\ Tell("users", told["users"] \cup {Account(i, n, w)})
  <2>1. rows \in SUBSET UserRow
    BY <1>0, RowsTyped DEF RowsOf
  <2>2. more \in SUBSET RowsOf("users")
    BY <1>2, <2>1 DEF UserRow, RowsOf
  <2>3. DatabaseOK'
    BY <1>0, <1>2, <2>2, ChangeTyped
  <2>. QED BY <1>0, <1>2, <2>3, TellTyped, OthersKeepTheirs
<1>. QED BY <1>1, <1>2 DEF Create

(* An entry of the legacy file has a nickname and a password. *)
LEMMA LegacyItem ==
    ASSUME NEW i \in 1 .. Len(Legacy)
    PROVE  Legacy[i] \in [nickname : Name, password : Password]
<1>1. Legacy \in Seq([nickname : Name, password : Password])
  OBVIOUS
<1> DEFINE R == [nickname : Name, password : Password]
<1> HIDE DEF R
<1>2. Legacy \in Seq(R)
  BY <1>1 DEF R
<1>3. Legacy[i] \in R
  BY <1>2
<1>. QED BY <1>3 DEF R

(* Every step keeps the types. *)
LEMMA TypedNext == Typed /\ [Next]_vars => Typed'
<1> SUFFICES ASSUME Typed, [Next]_vars PROVE Typed'
  OBVIOUS
<1>0. DatabaseOK /\ TypeOK /\ told = [t \in Table |-> told[t]]
  BY DEF Typed
<1>a. Len(Legacy) \in Nat /\ item \in 1 .. Len(Legacy) + 1
  BY <1>0 DEF TypeOK
<1>s. "server" \in Process /\ "migrator" \in Process
  BY DEF Process
<1>t. "users" \in Table /\ "groups" \in Table /\ "group_members" \in Table
  BY DEF Table
<1>1. ASSUME NEW p \in Process, Start(p) PROVE Typed'
  <2>1. DatabaseOK'
    BY <1>0, <1>1 DEF Start, DatabaseOK
  <2>2. told' = [t \in Table |-> told'[t]]
    BY <1>0, <1>1 DEF Start, Empty
  <2>3. item' \in 1 .. Len(Legacy) + 1
    BY <1>a, <1>1 DEF Start
  <2>4. \A q \in Process : pc'[q] # "ready" => loaded'[q] = {}
    BY <1>0, <1>1 DEF Start, TypeOK
  <2>5. pc'["server"] # "ready" => online' = {} /\ joining' = <<>>
    BY <1>0, <1>1, <1>s DEF Start, TypeOK
  <2>6. mixed' \in BOOLEAN
    BY <1>1 DEF Start
  <2>. QED BY <1>0, <1>1, <2>1, <2>2, <2>3, <2>4, <2>5, <2>6, TypedFrom DEF Start, TypeOK, fileVars
<1>2. ASSUME NEW p \in Process, Open(p) PROVE Typed'
  <2>1. DatabaseOK'
    BY <1>0, <1>2 DEF Open, DatabaseOK
  <2>2. created' \in SUBSET ({"schema_version"} \cup SchemaTables)
    BY <1>0, <1>2 DEF Open, TypeOK, Created
  <2>3. BehindOpen(p) \in {"repositories", "users"}
    BY DEF BehindOpen
  <2>4. /\ pc' \in [Process -> {"off", "open", "row", "version", "repositories", "ready"} \cup SchemaTables]
        /\ pc'[p] # "ready" /\ pc[p] # "ready" /\ \A q \in Process : q # p => pc'[q] = pc[q]
    BY <1>0, <1>2, <2>3 DEF Open, TypeOK, SchemaTables
  <2>5. /\ \A q \in Process : pc'[q] # "ready" => loaded'[q] = {}
        /\ pc'["server"] # "ready" => online' = {} /\ joining' = <<>>
    BY <1>0, <1>2, <1>s, <2>4 DEF Open, TypeOK
  <2>. QED BY <1>0, <1>2, <2>1, <2>2, <2>4, <2>5, TypedFrom DEF Open, TypeOK
<1>3. ASSUME NEW p \in Process, FirstRow(p) PROVE Typed'
  <2>1. DatabaseOK'
    BY <1>0, <1>3 DEF FirstRow, DatabaseOK
  <2>2. version' \in {"none", "0", "1"}
    BY <1>0, <1>3 DEF FirstRow, TypeOK
  <2>3. BehindOpen(p) \in {"repositories", "users"}
    BY DEF BehindOpen
  <2>4. /\ pc' \in [Process -> {"off", "open", "row", "version", "repositories", "ready"} \cup SchemaTables]
        /\ pc'[p] # "ready" /\ pc[p] # "ready" /\ \A q \in Process : q # p => pc'[q] = pc[q]
    BY <1>0, <1>3, <2>3 DEF FirstRow, TypeOK, SchemaTables
  <2>5. /\ \A q \in Process : pc'[q] # "ready" => loaded'[q] = {}
        /\ pc'["server"] # "ready" => online' = {} /\ joining' = <<>>
    BY <1>0, <1>3, <1>s, <2>4 DEF FirstRow, TypeOK
  <2>. QED BY <1>0, <1>3, <2>1, <2>2, <2>4, <2>5, TypedFrom DEF FirstRow, TypeOK
<1>4. ASSUME NEW p \in Process, End(p) PROVE Typed'
  <2>1. DatabaseOK'
    <3>1. Tables(Empty)
      BY DEF Tables, Empty
    <3>. QED BY <1>0, <1>4, <3>1 DEF End, DatabaseOK
  <2>2. \A q \in Process : pc'[q] # "ready" => loaded'[q] = {}
    BY <1>0, <1>4 DEF End, TypeOK
  <2>3. /\ pc'["server"] # "ready" => online' = {} /\ joining' = <<>>
        /\ online' \in SUBSET UserId /\ joining' \in Member \cup {<<>>}
    BY <1>0, <1>4, <1>s DEF End, TypeOK
  <2>. QED BY <1>0, <1>4, <2>1, <2>2, <2>3, TypedFrom DEF End, TypeOK, fileVars
<1>5. ASSUME NEW p \in Process, NEW t \in SchemaTables, EnsureTable(p, t) PROVE Typed'
  <2>1. DatabaseOK'
    BY <1>0, <1>5 DEF EnsureTable, DatabaseOK
  <2>2. created' \in SUBSET ({"schema_version"} \cup SchemaTables)
    BY <1>0, <1>5 DEF EnsureTable, TypeOK, Created
  <2>3. Behind(p, t) \in {"ready", "version"} \cup SchemaTables
    BY Zenon DEF Behind, Process, SchemaTables
  <2>4. /\ pc' \in [Process -> {"off", "open", "row", "version", "repositories", "ready"} \cup SchemaTables]
        /\ \A q \in Process : q # p => pc'[q] = pc[q]
    BY <1>0, <1>5, <2>3 DEF EnsureTable, TypeOK
  <2>5. pc[p] # "ready"
    BY <1>5 DEF EnsureTable, SchemaTables
  <2>6. loaded[p] = {} /\ (p = "server" => online = {} /\ joining = <<>>)
    BY <1>0, <2>5 DEF TypeOK
  <2>7. \A q \in Process : pc'[q] # "ready" => loaded'[q] = {}
    BY <1>0, <1>5, <2>4, <2>6 DEF EnsureTable, TypeOK
  <2>8. pc'["server"] # "ready" => online' = {} /\ joining' = <<>>
    BY <1>0, <1>5, <1>s, <2>4, <2>6 DEF EnsureTable, TypeOK
  <2>. QED BY <1>0, <1>5, <2>1, <2>2, <2>4, <2>7, <2>8, TypedFrom DEF EnsureTable, TypeOK
<1>6. ASSUME SetSchemaVersion PROVE Typed'
  <2>1. DatabaseOK'
    BY <1>0, <1>6 DEF SetSchemaVersion, DatabaseOK
  <2>2. \A q \in Process : pc'[q] # "ready" => loaded'[q] = {}
    BY <1>0, <1>6 DEF SetSchemaVersion, TypeOK
  <2>3. pc'["server"] # "ready" => online' = {} /\ joining' = <<>>
    BY <1>0, <1>6, <1>s DEF SetSchemaVersion, TypeOK
  <2>. QED BY <1>0, <1>6, <2>1, <2>2, <2>3, TypedFrom DEF SetSchemaVersion, TypeOK
<1>7. ASSUME Repositories PROVE Typed'
  <2>1. DatabaseOK'
    BY <1>0, <1>7 DEF Repositories, DatabaseOK
  <2>2. created' \in SUBSET ({"schema_version"} \cup SchemaTables)
    BY <1>0, <1>7 DEF Repositories, TypeOK
  <2>3. \A q \in Process : pc'[q] # "ready" => loaded'[q] = {}
    BY <1>0, <1>7 DEF Repositories, TypeOK
  <2>4. pc'["server"] # "ready" => online' = {} /\ joining' = <<>>
    BY <1>0, <1>7, <1>s DEF Repositories, TypeOK
  <2>. QED BY <1>0, <1>7, <2>1, <2>2, <2>3, <2>4, TypedFrom DEF Repositories, TypeOK
<1>8. ASSUME NEW n \in Name, NEW w \in Password, HandleRegister(n, w) PROVE Typed'
  <2>1. /\ DatabaseOK' /\ \A q \in Process : q # "server" => loaded'[q] = loaded[q]
        /\ told' = [t \in Table |-> told'[t]]
    BY <1>8, <1>s, CreateTyped DEF HandleRegister
  <2>. QED BY <1>0, <1>8, <1>s, <2>1, TypedData DEF HandleRegister, Serving, procVars, TypeOK
<1>9. ASSUME NEW u \in UserId, NEW w \in Password, HandleLogin(u, w) PROVE Typed'
  <2> DEFINE rows == Rows("server", "users")
             mine == {r \in rows : r.id = u}
             upgraded == (rows \ mine) \cup {[r EXCEPT !.password_version = 1] : r \in mine}
  <2>1. rows \in SUBSET UserRow
    BY <1>0, <1>s, <1>t, RowsTyped DEF RowsOf
  <2>2. upgraded \in SUBSET RowsOf("users")
    BY <2>1 DEF RowsOf, UserRow
  <2>3. /\ Query("server", {"users"}) \/ Change("server", "users", upgraded)
        /\ online' \in {online, online \cup {u}}
        /\ Serving /\ UNCHANGED <<fileVars, pc, joining, item, told, mixed>>
    BY <1>9 DEF HandleLogin
  <2>4. DatabaseOK'
    BY <1>0, <1>s, <1>t, <2>2, <2>3, QueryTyped, ChangeTyped
  <2>5. \A q \in Process : q # "server" => loaded'[q] = loaded[q]
    BY <1>0, <1>s, <2>3, OthersKeepTheirs
  <2>. QED BY <1>0, <1>s, <2>3, <2>4, <2>5, TypedData DEF Serving, TypeOK
<1>10. ASSUME NEW u \in UserId, GoOffline(u) PROVE Typed'
  <2>1. Change("server", "users", Rows("server", "users"))
    BY <1>10 DEF GoOffline
  <2>2. DatabaseOK'
    BY <1>0, <1>s, <1>t, <2>1, RowsTyped, ChangeTyped
  <2>3. \A q \in Process : q # "server" => loaded'[q] = loaded[q]
    BY <1>0, <1>s, <2>1, OthersKeepTheirs
  <2>. QED BY <1>0, <1>10, <1>s, <2>2, <2>3, TypedData DEF GoOffline, Serving, TypeOK
<1>11. ASSUME NEW u \in UserId, NEW n \in Name, HandleProfileUpdate(u, n) PROVE Typed'
  <2> DEFINE rows == Rows("server", "users")
             renamed == {IF r.id = u THEN [r EXCEPT !.nickname = n] ELSE r : r \in rows}
  <2>1. rows \in SUBSET UserRow
    BY <1>0, <1>s, <1>t, RowsTyped DEF RowsOf
  <2>2. renamed \in SUBSET RowsOf("users")
    BY <2>1 DEF RowsOf, UserRow
  <2>3. Change("server", "users", renamed)
    BY <1>11 DEF HandleProfileUpdate
  <2>4. DatabaseOK'
    BY <1>0, <1>s, <1>t, <2>2, <2>3, ChangeTyped
  <2>5. \A q \in Process : q # "server" => loaded'[q] = loaded[q]
    BY <1>0, <1>s, <2>3, OthersKeepTheirs
  <2>6. told' = [t \in Table |-> told'[t]]
    BY <1>11, TellTyped DEF HandleProfileUpdate
  <2>. QED BY <1>0, <1>11, <1>s, <2>4, <2>5, <2>6, TypedData
           DEF HandleProfileUpdate, Serving, procVars, TypeOK
<1>12. ASSUME NEW u \in UserId, HandleCreateGroup(u) PROVE Typed'
  <2> DEFINE rows == Rows("server", "groups")
             g == NewGroupId(rows)
             more == rows \cup {[group_id |-> g, host_id |-> u]}
  <2>1. g \in GroupId /\ Change("server", "groups", more) /\ joining' = <<u, g>>
        /\ Serving /\ UNCHANGED <<fileVars, pc, online, item, told, mixed>>
    BY <1>12 DEF HandleCreateGroup
  <2>2. rows \in SUBSET GroupRow
    BY <1>0, <1>s, <1>t, RowsTyped DEF RowsOf
  <2>3. more \in SUBSET RowsOf("groups")
    BY <2>1, <2>2 DEF RowsOf, GroupRow
  <2>4. DatabaseOK'
    BY <1>0, <1>s, <1>t, <2>1, <2>3, ChangeTyped
  <2>5. \A q \in Process : q # "server" => loaded'[q] = loaded[q]
    BY <1>0, <1>s, <2>1, OthersKeepTheirs
  <2>6. joining' \in Member \cup {<<>>}
    BY <2>1 DEF Member
  <2>. QED BY <1>0, <1>s, <2>1, <2>4, <2>5, <2>6, TypedData DEF Serving, TypeOK
<1>13. ASSUME HostJoins PROVE Typed'
  <2> DEFINE rows == Rows("server", "group_members")
  <2>1. /\ joining # <<>> /\ pc["server"] = "ready" /\ joining' = <<>>
        /\ Query("server", {"group_members"}) \/ Change("server", "group_members", rows \cup {joining})
        /\ UNCHANGED <<fileVars, pc, online, item, mixed>>
    BY <1>13 DEF HostJoins
  <2>2. rows \cup {joining} \in SUBSET RowsOf("group_members")
    BY <1>0, <1>s, <1>t, <2>1, RowsTyped DEF RowsOf, TypeOK
  <2>3. DatabaseOK'
    BY <1>0, <1>s, <1>t, <2>1, <2>2, QueryTyped, ChangeTyped
  <2>4. \A q \in Process : q # "server" => loaded'[q] = loaded[q]
    BY <1>0, <1>s, <2>1, OthersKeepTheirs
  <2>5. told' = [t \in Table |-> told'[t]]
    BY <1>0, <1>13 DEF HostJoins
  <2>. QED BY <1>0, <1>s, <2>1, <2>3, <2>4, <2>5, TypedData DEF TypeOK
<1>14. ASSUME NEW u \in UserId \cup {NoUser}, NEW g \in GroupId, HandleJoinGroup(u, g) PROVE Typed'
  <2> DEFINE rows == Rows("server", "group_members")
  <2>1. /\ \/ Query("server", {"groups"}) \/ Query("server", {"groups", "group_members"})
           \/ Change("server", "group_members", rows \cup {<<u, g>>})
        /\ UNCHANGED told \/ Tell("group_members", told["group_members"] \cup {<<u, g>>})
        /\ Serving /\ UNCHANGED <<fileVars, procVars>>
    BY <1>14 DEF HandleJoinGroup
  <2>2. rows \cup {<<u, g>>} \in SUBSET RowsOf("group_members")
    BY <1>0, <1>s, <1>t, RowsTyped DEF RowsOf, Member
  <2>3. DatabaseOK'
    BY <1>0, <1>s, <1>t, <2>1, <2>2, QueryTyped, ChangeTyped
  <2>4. \A q \in Process : q # "server" => loaded'[q] = loaded[q]
    BY <1>0, <1>s, <2>1, OthersKeepTheirs
  <2>5. told' = [t \in Table |-> told'[t]]
    BY <1>0, <2>1, TellTyped
  <2>. QED BY <1>0, <1>s, <2>1, <2>3, <2>4, <2>5, TypedData DEF Serving, procVars, TypeOK
<1>15. ASSUME NEW u \in UserId \cup {NoUser}, NEW g \in GroupId, HandleLeaveGroup(u, g) PROVE Typed'
  <2> DEFINE rows == Rows("server", "group_members")
  <2>1. /\ Change("server", "group_members", rows \ {<<u, g>>})
        /\ Tell("group_members", told["group_members"] \ {<<u, g>>})
        /\ Serving /\ UNCHANGED <<fileVars, procVars>>
    BY <1>15 DEF HandleLeaveGroup
  <2>2. rows \ {<<u, g>>} \in SUBSET RowsOf("group_members")
    BY <1>0, <1>s, <1>t, RowsTyped
  <2>3. DatabaseOK'
    BY <1>0, <1>s, <1>t, <2>1, <2>2, ChangeTyped
  <2>4. \A q \in Process : q # "server" => loaded'[q] = loaded[q]
    BY <1>0, <1>s, <2>1, OthersKeepTheirs
  <2>5. told' = [t \in Table |-> told'[t]]
    BY <2>1, TellTyped
  <2>. QED BY <1>0, <1>s, <2>1, <2>3, <2>4, <2>5, TypedData DEF Serving, procVars, TypeOK
<1>16. ASSUME MigrateUser PROVE Typed'
  <2>1. item \in 1 .. Len(Legacy)
    BY <1>a, <1>16 DEF MigrateUser
  <2>2. Legacy[item].nickname \in Name /\ Legacy[item].password \in Password
    <3>1. Legacy[item] \in [nickname : Name, password : Password]
      BY <2>1, LegacyItem
    <3>. QED BY <3>1
  <2>3. /\ DatabaseOK' /\ \A q \in Process : q # "migrator" => loaded'[q] = loaded[q]
        /\ told' = [t \in Table |-> told'[t]]
    BY <1>16, <1>s, <2>2, CreateTyped DEF MigrateUser
  <2>4. item' \in 1 .. Len(Legacy) + 1
    BY <1>a, <2>1, <1>16 DEF MigrateUser
  <2>. QED BY <1>0, <1>16, <1>s, <2>3, <2>4, TypedData DEF MigrateUser, TypeOK
<1>17. ASSUME UNCHANGED vars PROVE Typed'
  BY <1>0, <1>17 DEF vars, Typed, TypeOK, DatabaseOK
<1>. QED
  BY <1>1, <1>2, <1>3, <1>4, <1>5, <1>6, <1>7, <1>8, <1>9, <1>10, <1>11, <1>12, <1>13, <1>14, <1>15,
     <1>16, <1>17 DEF Next

(* Database, UserRepository and ChannelRepository keep their types through *)
(* every operation, restart and kill; a process that is not up has nothing *)
(* loaded, nobody online and no handler under way.                         *)
THEOREM SpecTypeOK == Spec => []TypeOK
<1>1. Typed => TypeOK
  BY DEF Typed
<1>. QED BY TypedInit, TypedNext, <1>1, PTL DEF Spec

-----------------------------------------------------------------------------
(***************************************************************************)
(* Ids, whichever processes use the file.                                  *)
(***************************************************************************)

(* What a process reads of the users table has no id twice. *)
LEMMA UniqueRows ==
    ASSUME UniqueEverywhere, NEW p \in Process
    PROVE  UniqueIn(Rows(p, "users"))
BY DEF UniqueEverywhere, Rows

(* A query brings no id twice into a cache. *)
LEMMA UniqueQuery ==
    ASSUME Typed, UniqueEverywhere, NEW p \in Process, NEW T \in SUBSET Table, Query(p, T)
    PROVE  UniqueEverywhere'
<1>0. DatabaseOK /\ "users" \in Table
  BY DEF Typed, Table
<1>1. UniqueIn(cache'[p]["users"])
  <2>1. cache'[p]["users"] \in {Rows(p, "users"), cache[p]["users"]}
    BY <1>0 DEF Query, DatabaseOK
  <2>. QED BY <2>1, UniqueRows DEF UniqueEverywhere
<1>2. \A q \in Process : q # p => cache'[q] = cache[q]
  BY <1>0 DEF Query, DatabaseOK
<1>. QED BY <1>1, <1>2 DEF Query, UniqueEverywhere

(* A change to rows without a repeated id keeps all copies of the table so. *)
LEMMA UniqueChange ==
    ASSUME Typed, UniqueEverywhere, NEW p \in Process, NEW t \in Table, NEW rows,
           t = "users" => UniqueIn(rows), Change(p, t, rows)
    PROVE  UniqueEverywhere'
<1>0. DatabaseOK /\ "users" \in Table
  BY DEF Typed, Table
<1>1. UniqueIn(cache'[p]["users"])
  <2>1. cache'[p]["users"] = IF t = "users" THEN rows ELSE cache[p]["users"]
    BY <1>0 DEF Change, DatabaseOK, Tables
  <2>. QED BY <2>1 DEF UniqueEverywhere
<1>2. \A q \in Process : q # p => cache'[q] = cache[q]
  BY <1>0 DEF Change, DatabaseOK
<1>3. UniqueIn(disk'["users"])
  <2>1. disk'["users"] \in {disk["users"], IF t = "users" THEN rows ELSE disk["users"]}
    BY <1>0 DEF Change, SaveTable, DatabaseOK, Tables
  <2>. QED BY <2>1 DEF UniqueEverywhere
<1>. QED BY <1>1, <1>2, <1>3 DEF UniqueEverywhere

(* createUser takes an id that its own copy does not use. *)
LEMMA UniqueCreate ==
    ASSUME Typed, UniqueEverywhere, NEW p \in Process, NEW n, NEW w, Create(p, n, w)
    PROVE  UniqueEverywhere'
<1> DEFINE rows == Rows(p, "users")
           i == NewUserId(rows)
           new == [id |-> i, nickname |-> n, password |-> w, password_version |-> 1]
<1>0. DatabaseOK /\ "users" \in Table
  BY DEF Typed, Table
<1>1. Query(p, {"users"}) \/ Change(p, "users", rows \cup {new})
  BY DEF Create
<1>2. rows \in SUBSET UserRow
  BY <1>0, RowsTyped DEF RowsOf
<1>3. \A r \in rows : r.id < i
  BY <1>2, NewUserIdIsNew
<1>4. \A r \in rows : r.id \in Nat
  BY <1>2 DEF UserRow, UserId, FirstUser
<1>5. \A r \in rows : r.id # i
  BY <1>3, <1>4
<1>6. UniqueIn(rows \cup {new})
  <2>. new.id = i
    OBVIOUS
  <2>. HIDE DEF new, i, rows
  <2>. QED BY <1>5, UniqueRows DEF UniqueIn, rows
<1>. QED BY <1>0, <1>1, <1>6, UniqueQuery, UniqueChange

(* The upgrade of an old hash and a change of nickname replace rows, and   *)
(* keep the id of each.                                                    *)
LEMMA UniqueReplaced ==
    ASSUME NEW rows, UniqueIn(rows), NEW f, \A r \in rows : f[r].id = r.id
    PROVE  UniqueIn({f[r] : r \in rows})
BY DEF UniqueIn

(* The upgrade of a password hash keeps the account. *)
LEMMA Upgraded ==
    ASSUME NEW r \in UserRow
    PROVE  LET s == [r EXCEPT !.password_version = 1]
           IN  s.id = r.id /\ s.nickname = r.nickname /\ s.password = r.password
BY DEF UserRow

(* A new nickname keeps the id and the password. *)
LEMMA RenamedRow ==
    ASSUME NEW r \in UserRow, NEW n
    PROVE  LET s == [r EXCEPT !.nickname = n]
           IN  s.id = r.id /\ s.nickname = n /\ s.password = r.password
BY DEF UserRow

(* Every step keeps ids unique in the file and in the caches. *)
LEMMA UniqueNext == Typed /\ UniqueEverywhere /\ [Next]_vars => UniqueEverywhere'
<1> SUFFICES ASSUME Typed, UniqueEverywhere, [Next]_vars PROVE UniqueEverywhere'
  OBVIOUS
<1>0. DatabaseOK
  BY DEF Typed
<1>s. "server" \in Process /\ "migrator" \in Process
  BY DEF Process
<1>t. "users" \in Table /\ "groups" \in Table /\ "group_members" \in Table
  BY DEF Table
<1>1. CASE UNCHANGED <<disk, cache>>
  BY <1>1 DEF UniqueEverywhere
<1>2. ASSUME NEW p \in Process, End(p) PROVE UniqueEverywhere'
  <2>1. \A q \in Process : cache'[q] \in {Empty, cache[q]}
    BY <1>0, <1>2 DEF End, DatabaseOK
  <2>2. UniqueIn(Empty["users"])
    BY DEF UniqueIn, Empty, Table
  <2>. QED BY <1>2, <2>1, <2>2 DEF End, UniqueEverywhere
<1>3. ASSUME NEW n \in Name, NEW w \in Password, HandleRegister(n, w) PROVE UniqueEverywhere'
  BY <1>3, <1>s, UniqueCreate DEF HandleRegister
<1>4. ASSUME NEW u \in UserId, NEW w \in Password, HandleLogin(u, w) PROVE UniqueEverywhere'
  <2> DEFINE rows == Rows("server", "users")
             mine == {r \in rows : r.id = u}
             upgraded == (rows \ mine) \cup {[r EXCEPT !.password_version = 1] : r \in mine}
             f == [r \in rows |-> IF r.id = u THEN [r EXCEPT !.password_version = 1] ELSE r]
  <2>1. rows \in SUBSET UserRow
    BY <1>0, <1>s, <1>t, RowsTyped DEF RowsOf
  <2>2. upgraded = {f[r] : r \in rows}
    OBVIOUS
  <2>3. \A r \in rows : f[r].id = r.id
    BY <2>1, Upgraded
  <2>4. UniqueIn(rows)
    BY <1>s, UniqueRows
  <2>5. UniqueIn(upgraded)
    <3>. HIDE DEF f, upgraded, rows
    <3>. QED BY <2>2, <2>3, <2>4, UniqueReplaced
  <2>6. Query("server", {"users"}) \/ Change("server", "users", upgraded)
    BY <1>4 DEF HandleLogin
  <2>. QED BY <1>s, <1>t, <2>5, <2>6, UniqueQuery, UniqueChange
<1>5. ASSUME NEW u \in UserId, GoOffline(u) PROVE UniqueEverywhere'
  BY <1>5, <1>s, <1>t, UniqueRows, UniqueChange DEF GoOffline
<1>6. ASSUME NEW u \in UserId, NEW n \in Name, HandleProfileUpdate(u, n) PROVE UniqueEverywhere'
  <2> DEFINE rows == Rows("server", "users")
             f == [r \in rows |-> IF r.id = u THEN [r EXCEPT !.nickname = n] ELSE r]
             renamed == {IF r.id = u THEN [r EXCEPT !.nickname = n] ELSE r : r \in rows}
  <2>1. rows \in SUBSET UserRow
    BY <1>0, <1>s, <1>t, RowsTyped DEF RowsOf
  <2>2. renamed = {f[r] : r \in rows}
    OBVIOUS
  <2>3. \A r \in rows : f[r].id = r.id
    BY <2>1, RenamedRow
  <2>4. UniqueIn(rows)
    BY <1>s, UniqueRows
  <2>5. UniqueIn(renamed)
    <3>. HIDE DEF f, renamed, rows
    <3>. QED BY <2>2, <2>3, <2>4, UniqueReplaced
  <2>6. Change("server", "users", renamed)
    BY <1>6 DEF HandleProfileUpdate
  <2>. QED BY <1>s, <1>t, <2>5, <2>6, UniqueChange
<1>7. ASSUME NEW u \in UserId, HandleCreateGroup(u) PROVE UniqueEverywhere'
  <2>1. \E rows : Change("server", "groups", rows)
    BY <1>7 DEF HandleCreateGroup
  <2>. QED BY <1>s, <1>t, <2>1, UniqueChange
<1>8. ASSUME HostJoins PROVE UniqueEverywhere'
  <2>1. Query("server", {"group_members"}) \/ \E rows : Change("server", "group_members", rows)
    BY <1>8 DEF HostJoins
  <2>. QED BY <1>s, <1>t, <2>1, UniqueQuery, UniqueChange
<1>9. ASSUME NEW u, NEW g, HandleJoinGroup(u, g) PROVE UniqueEverywhere'
  <2>1. \/ Query("server", {"groups"}) \/ Query("server", {"groups", "group_members"})
        \/ \E rows : Change("server", "group_members", rows)
    BY <1>9 DEF HandleJoinGroup
  <2>. QED BY <1>s, <1>t, <2>1, UniqueQuery, UniqueChange
<1>10. ASSUME NEW u, NEW g, HandleLeaveGroup(u, g) PROVE UniqueEverywhere'
  <2>1. \E rows : Change("server", "group_members", rows)
    BY <1>10 DEF HandleLeaveGroup
  <2>. QED BY <1>s, <1>t, <2>1, UniqueChange
<1>11. ASSUME MigrateUser PROVE UniqueEverywhere'
  BY <1>11, <1>s, UniqueCreate DEF MigrateUser
<1>. QED
  BY <1>1, <1>2, <1>3, <1>4, <1>5, <1>6, <1>7, <1>8, <1>9, <1>10, <1>11
     DEF Next, Start, Open, FirstRow, EnsureTable, SetSchemaVersion, Repositories, vars

(* No two accounts of the file have one id: UserRepository::create looks   *)
(* at the table its process has loaded, however old that is, and whichever *)
(* process writes next writes a table with one row for each id.            *)
THEOREM SpecIdsUnique == Spec => []IdsUnique
<1>1. Init => UniqueEverywhere
  BY DEF Init, UniqueEverywhere, UniqueIn, Empty, Table
<1>2. UniqueEverywhere => IdsUnique
  BY DEF UniqueEverywhere, UniqueIn, IdsUnique
<1>. QED BY TypedInit, TypedNext, UniqueNext, <1>1, <1>2, PTL DEF Spec

-----------------------------------------------------------------------------
(***************************************************************************)
(* The schema, while one process at a time uses the file.                  *)
(***************************************************************************)

(* Every step keeps: while the processes were never up together, at most one is up. *)
LEMMA SoloNext == Typed /\ Solo /\ [Next]_vars => Solo'
<1> SUFFICES ASSUME Typed, Solo, [Next]_vars, ~mixed' PROVE (\A p \in Process : pc[p] # "off" => Alone(p))'
  BY DEF Solo
<1>0. pc = [p \in Process |-> pc[p]]
  BY DEF Typed, TypeOK
<1>1. CASE UNCHANGED <<pc, mixed>>
  BY <1>1 DEF Solo, Alone
<1>2. ASSUME NEW p \in Process, Start(p) PROVE (\A q \in Process : pc[q] # "off" => Alone(q))'
  <2>1. Alone(p) /\ ~mixed
    BY <1>2 DEF Start
  <2>. QED BY <1>0, <1>2, <2>1 DEF Start, Alone
<1>3. ASSUME NEW p \in Process, pc[p] # "off", UNCHANGED mixed, NEW s, pc' = [pc EXCEPT ![p] = s]
      PROVE  (\A q \in Process : pc[q] # "off" => Alone(q))'
  <2>1. Alone(p)
    BY <1>3 DEF Solo
  <2>. QED BY <1>0, <1>3, <2>1 DEF Alone
<1>4. ASSUME NEW p \in Process, Open(p) \/ FirstRow(p) \/ End(p)
      PROVE  (\A q \in Process : pc[q] # "off" => Alone(q))'
  <2>1. pc[p] # "off" /\ UNCHANGED mixed /\ \E s : pc' = [pc EXCEPT ![p] = s]
    BY <1>4 DEF Open, FirstRow, End
  <2>. QED BY <2>1, <1>3
<1>5. ASSUME NEW p \in Process, NEW t \in SchemaTables, EnsureTable(p, t)
      PROVE  (\A q \in Process : pc[q] # "off" => Alone(q))'
  <2>1. pc[p] # "off" /\ UNCHANGED mixed /\ \E s : pc' = [pc EXCEPT ![p] = s]
    BY <1>5 DEF EnsureTable, SchemaTables
  <2>. QED BY <2>1, <1>3
<1>6. ASSUME SetSchemaVersion \/ Repositories PROVE (\A q \in Process : pc[q] # "off" => Alone(q))'
  <2>1. pc["server"] # "off" /\ UNCHANGED mixed /\ \E s : pc' = [pc EXCEPT !["server"] = s]
    BY <1>6 DEF SetSchemaVersion, Repositories
  <2>. QED BY <2>1, <1>3 DEF Process
<1>. QED
  BY <1>1, <1>2, <1>4, <1>5, <1>6
     DEF Next, HandleRegister, HandleLogin, GoOffline, HandleProfileUpdate, HandleCreateGroup, HostJoins,
         HandleJoinGroup, HandleLeaveGroup, MigrateUser, procVars, vars

(* Every step keeps the tables that the start of a process has got to. *)
LEMMA SchemaNext == Typed /\ Solo /\ Schema /\ [Next]_vars => Schema'
<1> DEFINE S == /\ pc["migrator"] \in {"off", "open", "row", "users", "ready"}
                /\ pc["migrator"] = "ready" => "users" \in created
                /\ Before(pc["server"]) \subseteq created
                /\ version = "1" => SchemaTables \subseteq created
<1> SUFFICES ASSUME Typed, Solo, Schema, [Next]_vars, ~mixed' PROVE S'
  BY DEF Schema
<1>0. pc = [p \in Process |-> pc[p]] /\ "server" \in Process /\ "migrator" \in Process
  BY DEF Typed, TypeOK, Process
<1>a. ~mixed /\ S /\ \A p \in Process : pc[p] # "off" => Alone(p)
  <2>1. ~mixed
    BY DEF Next, Start, Open, FirstRow, End, EnsureTable, SetSchemaVersion, Repositories, HandleRegister,
           HandleLogin, GoOffline, HandleProfileUpdate, HandleCreateGroup, HostJoins, HandleJoinGroup,
           HandleLeaveGroup, MigrateUser, procVars, vars
  <2>. QED BY <2>1 DEF Schema, Solo
<1>b. SchemaTables = {"users", "messages", "groups", "group_members", "friendships"}
  BY DEF SchemaTables
<1>1. CASE UNCHANGED <<pc, created, version>>
  BY <1>a, <1>1
<1>2. ASSUME NEW p \in Process, Start(p) PROVE S'
  BY <1>0, <1>a, <1>2 DEF Start, Before, fileVars
<1>3. ASSUME NEW p \in Process, End(p) PROVE S'
  BY <1>0, <1>a, <1>3 DEF End, Before, fileVars
<1>4. ASSUME NEW p \in Process, Open(p) PROVE S'
  <2>1. created \subseteq created' /\ version' = version
    BY <1>4 DEF Open, Created
  <2>2. BehindOpen(p) = "users" \/ (BehindOpen(p) = "repositories" /\ p = "server" /\ version = "1")
    BY DEF BehindOpen
  <2>3. pc' = [pc EXCEPT ![p] = "row"] \/ pc' = [pc EXCEPT ![p] = BehindOpen(p)]
    BY <1>4 DEF Open
  <2>. QED BY <1>0, <1>a, <2>1, <2>2, <2>3 DEF Before
<1>5. ASSUME NEW p \in Process, FirstRow(p) PROVE S'
  <2>1. created' = created /\ (version' = "1" => version = "1") /\ pc' = [pc EXCEPT ![p] = BehindOpen(p)]
    BY <1>5 DEF FirstRow
  <2>2. BehindOpen(p) = "users" \/ (BehindOpen(p) = "repositories" /\ p = "server" /\ version = "1")
    BY DEF BehindOpen
  <2>. QED BY <1>0, <1>a, <2>1, <2>2 DEF Before
<1>6. ASSUME NEW p \in Process, NEW t \in SchemaTables, EnsureTable(p, t) PROVE S'
  <2>1. Alone(p)
    BY <1>a, <1>6 DEF EnsureTable, SchemaTables
  <2>2. created' = created \cup {t} /\ version' = version /\ pc' = [pc EXCEPT ![p] = Behind(p, t)]
        /\ pc[p] = t
    BY <1>6, <2>1 DEF EnsureTable, Created
  <2>3. CASE p = "migrator"
    <3>1. t = "users" /\ Behind(p, t) = "ready"
      BY <1>a, <2>2, <2>3, Zenon DEF Behind, SchemaTables
    <3>. QED BY <1>0, <1>a, <2>2, <2>3, <3>1
  <2>4. CASE p = "server"
    <3>1. Before(Behind(p, t)) \subseteq Before(t) \cup {t}
      <4>1. /\ t = "users" => Behind(p, t) = "messages"
            /\ t = "messages" => Behind(p, t) = "groups"
            /\ t = "groups" => Behind(p, t) = "group_members"
            /\ t = "group_members" => Behind(p, t) = "friendships"
            /\ t = "friendships" => Behind(p, t) = "version"
        BY <2>4, Zenon DEF Behind
      <4>. QED BY <1>b, <4>1 DEF Before
    <3>. QED BY <1>0, <1>a, <2>2, <2>4, <3>1
  <2>. QED BY <2>3, <2>4 DEF Process
<1>7. ASSUME SetSchemaVersion PROVE S'
  BY <1>0, <1>a, <1>7 DEF SetSchemaVersion, Before
<1>8. ASSUME Repositories PROVE S'
  BY <1>0, <1>a, <1>8 DEF Repositories, Before
<1>. QED
  BY <1>1, <1>2, <1>3, <1>4, <1>5, <1>6, <1>7, <1>8
     DEF Next, HandleRegister, HandleLogin, GoOffline, HandleProfileUpdate, HandleCreateGroup, HostJoins,
         HandleJoinGroup, HandleLeaveGroup, MigrateUser, procVars, fileVars, vars

(* The initial state satisfies both invariants of the start. *)
LEMMA SchemaInit == Init => Solo /\ Schema
<1> SUFFICES ASSUME Init PROVE Solo /\ Schema
  OBVIOUS
<1>1. \A p \in Process : pc[p] = "off"
  BY DEF Init
<1>. QED BY <1>1 DEF Init, Solo, Schema, Before, Process

(* A file whose schema_version says 1 has every table, wherever a          *)
(* migration was killed: Database::migrate writes the version last, and    *)
(* starts again from the first table unless it is written.                 *)
THEOREM SpecSchemaComplete == Spec => []SchemaComplete
<1>1. Schema => SchemaComplete
  BY DEF Schema, SchemaComplete
<1>. QED BY TypedInit, TypedNext, SchemaInit, SoloNext, SchemaNext, <1>1, PTL DEF Spec

-----------------------------------------------------------------------------
(***************************************************************************)
(* What was confirmed, while one process at a time uses the file.          *)
(***************************************************************************)

Accounts(rows) == {Account(r.id, r.nickname, r.password) : r \in rows}

CachesAgree == \A p \in Process : \A t \in loaded[p] : cache[p][t] = disk[t]

HasGroup(m) == \E r \in disk["groups"] : r.group_id = m[2]

\* The three parts of ConfirmedIsStored, MembersHaveGroups, and the group of an
\* unfinished createGroup.
Kept ==
    /\ told["users"] = Accounts(disk["users"])
    /\ told["groups"] \subseteq disk["groups"]
    /\ told["group_members"] = disk["group_members"]
    /\ \A m \in disk["group_members"] : HasGroup(m)
    /\ joining # <<>> => HostedGroup(joining) \in disk["groups"]

KeptInv == mixed \/ (CachesAgree /\ Kept)

(* The process that is up works on the rows of the file.                   *)
LEMMA RowsAreStored ==
    ASSUME CachesAgree, NEW p \in Process, NEW t \in Table
    PROVE  Rows(p, t) = disk[t]
BY DEF CachesAgree, Rows

(* A query loads what the file holds and does not change the file. *)
LEMMA QueryAgrees ==
    ASSUME Typed, CachesAgree, NEW p \in Process, NEW T \in SUBSET Table, Query(p, T)
    PROVE  CachesAgree' /\ disk' = disk
<1>0. DatabaseOK
  BY DEF Typed
<1>1. \A t \in Table : Rows(p, t) = disk[t]
  BY RowsAreStored
<1>2. ASSUME NEW t \in loaded'[p] PROVE cache'[p][t] = disk[t]
  <2>1. t \in Table /\ (t \in T \/ t \in loaded[p])
    BY <1>0, <1>2 DEF Query, DatabaseOK
  <2>2. cache'[p][t] = IF t \in T THEN Rows(p, t) ELSE cache[p][t]
    BY <1>0, <2>1 DEF Query, DatabaseOK
  <2>. QED BY <1>1, <2>1, <2>2 DEF CachesAgree
<1>3. \A q \in Process : q # p => loaded'[q] = loaded[q] /\ cache'[q] = cache[q]
  BY <1>0 DEF Query, DatabaseOK
<1>4. disk' = disk
  BY DEF Query
<1>. QED BY <1>2, <1>3, <1>4 DEF CachesAgree

(* The write of the only process that is up reaches the file.              *)
LEMMA ChangeReachesFile ==
    ASSUME Typed, CachesAgree, NEW p \in Process, NEW t \in Table, NEW rows,
           Alone(p), t \in created, Change(p, t, rows)
    PROVE  CachesAgree' /\ disk' = [disk EXCEPT ![t] = rows]
<1>0. DatabaseOK
  BY DEF Typed
<1>1. disk' = [disk EXCEPT ![t] = rows]
  BY DEF Change, SaveTable
<1>2. ASSUME NEW x \in loaded'[p] PROVE cache'[p][x] = disk'[x]
  <2>1. x \in Table /\ (x = t \/ x \in loaded[p])
    BY <1>0, <1>2 DEF Change, DatabaseOK
  <2>2. cache'[p][x] = IF x = t THEN rows ELSE cache[p][x]
    BY <1>0, <2>1 DEF Change, DatabaseOK, Tables
  <2>3. disk'[x] = IF x = t THEN rows ELSE disk[x]
    BY <1>0, <1>1, <2>1 DEF DatabaseOK, Tables
  <2>. QED BY <2>1, <2>2, <2>3 DEF CachesAgree
<1>3. ASSUME NEW q \in Process, q # p PROVE loaded'[q] = {}
  <2>1. pc[q] # "ready"
    BY <1>3 DEF Alone
  <2>2. loaded'[q] = loaded[q]
    BY <1>0, <1>3 DEF Change, DatabaseOK
  <2>. QED BY <2>1, <2>2 DEF Typed, TypeOK
<1>. QED BY <1>1, <1>2, <1>3 DEF CachesAgree

(* An account that a process alone on the file creates is stored when it is confirmed. *)
LEMMA CreateKept ==
    ASSUME Typed, CachesAgree, Kept, ~mixed, NEW p \in Process, NEW n \in Name, NEW w \in Password,
           Alone(p), "users" \in created, Create(p, n, w), UNCHANGED joining
    PROVE  CachesAgree' /\ Kept'
<1> DEFINE rows == Rows(p, "users")
           i == NewUserId(rows)
           new == [id |-> i, nickname |-> n, password |-> w, password_version |-> 1]
<1>0. DatabaseOK /\ told = [t \in Table |-> told[t]] /\ "users" \in Table /\ rows = disk["users"]
  BY RowsAreStored DEF Typed, Table
<1>1. CASE Query(p, {"users"}) /\ UNCHANGED told
  <2>1. CachesAgree' /\ disk' = disk
    BY <1>0, <1>1, QueryAgrees
  <2>. QED BY <1>1, <2>1 DEF Kept, HasGroup
<1>2. CASE Change(p, "users", rows \cup {new}) /\ Tell("users", told["users"] \cup {Account(i, n, w)})
  <2>1. CachesAgree' /\ disk' = [disk EXCEPT !["users"] = rows \cup {new}]
    BY <1>0, <1>2, ChangeReachesFile
  <2>2. told' = [told EXCEPT !["users"] = told["users"] \cup {Account(i, n, w)}]
    BY <1>2 DEF Tell
  <2>3. Accounts(rows \cup {new}) = Accounts(rows) \cup {Account(i, n, w)}
    <3>1. Account(new.id, new.nickname, new.password) = Account(i, n, w)
      OBVIOUS
    <3>. HIDE DEF new, i, rows
    <3>. QED BY <3>1 DEF Accounts
  <2>4. told'["users"] = Accounts(disk'["users"])
    BY <1>0, <2>1, <2>2, <2>3 DEF Kept, DatabaseOK, Tables
  <2>5. /\ disk'["groups"] = disk["groups"] /\ disk'["group_members"] = disk["group_members"]
        /\ told'["groups"] = told["groups"] /\ told'["group_members"] = told["group_members"]
    BY <1>0, <2>1, <2>2 DEF DatabaseOK, Tables, Table
  <2>. QED BY <2>1, <2>4, <2>5 DEF Kept, HasGroup
<1>. QED BY <1>1, <1>2 DEF Create

(* The users table is rewritten, and the confirmed accounts follow.        *)
LEMMA UsersKept ==
    ASSUME Typed, Kept, NEW rows, disk' = [disk EXCEPT !["users"] = rows],
           told'["users"] = Accounts(rows), told'["groups"] = told["groups"],
           told'["group_members"] = told["group_members"], UNCHANGED joining
    PROVE  Kept'
<1>1. /\ disk'["users"] = rows /\ disk'["groups"] = disk["groups"]
      /\ disk'["group_members"] = disk["group_members"]
  BY DEF Typed, DatabaseOK, Tables, Table
<1>. QED BY <1>1 DEF Kept, HasGroup

(* The memberships are rewritten, and the confirmed ones follow.           *)
LEMMA MembersKept ==
    ASSUME Typed, Kept, NEW rows, disk' = [disk EXCEPT !["group_members"] = rows],
           \A m \in rows : HasGroup(m), told'["users"] = told["users"],
           told'["groups"] \subseteq disk["groups"], told'["group_members"] = rows,
           joining' # <<>> => joining' = joining
    PROVE  Kept'
<1>1. /\ disk'["users"] = disk["users"] /\ disk'["groups"] = disk["groups"]
      /\ disk'["group_members"] = rows
  BY DEF Typed, DatabaseOK, Tables, Table
<1>. QED BY <1>1 DEF Kept, HasGroup

(* The upgrade of password hashes changes no id, nickname or password. *)
LEMMA UpgradeKeepsAccounts ==
    ASSUME NEW rows \in SUBSET UserRow, NEW mine \in SUBSET rows
    PROVE  Accounts((rows \ mine) \cup {[r EXCEPT !.password_version = 1] : r \in mine}) = Accounts(rows)
<1> DEFINE f == [r \in mine |-> [r EXCEPT !.password_version = 1]]
<1>1. \A r \in mine : f[r].id = r.id /\ f[r].nickname = r.nickname /\ f[r].password = r.password
  BY Upgraded
<1>2. {[r EXCEPT !.password_version = 1] : r \in mine} = {f[r] : r \in mine}
  OBVIOUS
<1> HIDE DEF f
<1>3. Accounts((rows \ mine) \cup {f[r] : r \in mine}) = Accounts(rows)
  BY <1>1 DEF Accounts
<1>. QED BY <1>2, <1>3

\* updateProfile on the table, and on the confirmed accounts.
Renamed(S, u, n) == {IF r.id = u THEN [r EXCEPT !.nickname = n] ELSE r : r \in S}

(* A rename of a row is the rename of its account. *)
LEMMA RenameFollows ==
    ASSUME NEW rows \in SUBSET UserRow, NEW u, NEW n
    PROVE  Accounts(Renamed(rows, u, n)) = Renamed(Accounts(rows), u, n)
<1> DEFINE f == [r \in rows |-> IF r.id = u THEN [r EXCEPT !.nickname = n] ELSE r]
           A(r) == Account(r.id, r.nickname, r.password)
           h == [a \in Accounts(rows) |-> IF a.id = u THEN [a EXCEPT !.nickname = n] ELSE a]
<1>1. ASSUME NEW r \in rows PROVE A(f[r]) = h[A(r)]
  <2>1. A(r) \in Accounts(rows) /\ A(r).id = r.id
    BY DEF Accounts, Account
  <2>2. CASE r.id = u
    <3>1. f[r].id = r.id /\ f[r].nickname = n /\ f[r].password = r.password
      BY <2>2, RenamedRow
    <3>2. h[A(r)] = [A(r) EXCEPT !.nickname = n]
      BY <2>1, <2>2
    <3>3. [A(r) EXCEPT !.nickname = n] = Account(r.id, n, r.password)
      BY DEF Account
    <3>. QED BY <3>1, <3>2, <3>3
  <2>3. CASE r.id # u
    BY <2>1, <2>3
  <2>. QED BY <2>2, <2>3
<1>2. Renamed(rows, u, n) = {f[r] : r \in rows}
  BY DEF Renamed
<1>3. Renamed(Accounts(rows), u, n) = {h[a] : a \in Accounts(rows)}
  BY DEF Renamed
<1>4. Accounts({f[r] : r \in rows}) = {A(f[r]) : r \in rows}
  <2>. HIDE DEF f, h
  <2>. QED BY DEF Accounts
<1>5. {h[a] : a \in Accounts(rows)} = {h[A(r)] : r \in rows}
  <2>. HIDE DEF f, h
  <2>. QED BY DEF Accounts
<1> HIDE DEF f, h, A
<1>6. {A(f[r]) : r \in rows} = {h[A(r)] : r \in rows}
  BY <1>1
<1>. QED BY <1>2, <1>3, <1>4, <1>5, <1>6

(* Every step keeps what was confirmed, while the processes were never up together. *)
LEMMA KeptNext == Typed /\ Solo /\ Schema /\ KeptInv /\ [Next]_vars => KeptInv'
<1> SUFFICES ASSUME Typed, Solo, Schema, KeptInv, [Next]_vars, ~mixed' PROVE CachesAgree' /\ Kept'
  BY DEF KeptInv
<1>0. /\ DatabaseOK /\ told = [t \in Table |-> told[t]]
      /\ "server" \in Process /\ "migrator" \in Process
      /\ "users" \in Table /\ "groups" \in Table /\ "group_members" \in Table
  BY DEF Typed, Process, Table
<1>a. ~mixed
  BY DEF Next, Start, Open, FirstRow, End, EnsureTable, SetSchemaVersion, Repositories, HandleRegister,
         HandleLogin, GoOffline, HandleProfileUpdate, HandleCreateGroup, HostJoins, HandleJoinGroup,
         HandleLeaveGroup, MigrateUser, procVars, vars
<1>b. CachesAgree /\ Kept
  BY <1>a DEF KeptInv
<1>c. pc["server"] = "ready" => Alone("server") /\ \A t \in Table : t \in created
  BY <1>0, <1>a DEF Solo, Schema, Before, SchemaTables, Table
<1>d. \A t \in Table : Rows("server", t) = disk[t]
  BY <1>0, <1>b, RowsAreStored
<1>e. disk["users"] \in SUBSET UserRow
  BY <1>0 DEF DatabaseOK, Tables, RowsOf
<1>f. ASSUME NEW t \in Table, NEW rows, pc["server"] = "ready", Change("server", t, rows)
      PROVE  CachesAgree' /\ disk' = [disk EXCEPT ![t] = rows]
  BY <1>0, <1>b, <1>c, <1>f, ChangeReachesFile
<1>g. ASSUME NEW T \in SUBSET Table, Query("server", T)
      PROVE  CachesAgree' /\ disk' = disk
  BY <1>0, <1>b, <1>g, QueryAgrees
<1>h. ASSUME NEW t \in Table, NEW rows, Tell(t, rows)
      PROVE  told'[t] = rows /\ \A x \in Table : x # t => told'[x] = told[x]
  BY <1>0, <1>a, <1>h DEF Tell
<1>1. CASE UNCHANGED <<disk, loaded, cache, told, joining>>
  BY <1>1, <1>b DEF CachesAgree, Kept, HasGroup
<1>2. ASSUME NEW p \in Process, Start(p) PROVE CachesAgree' /\ Kept'
  BY <1>1, <1>2 DEF Start
<1>3. ASSUME NEW p \in Process, End(p) PROVE CachesAgree' /\ Kept'
  <2>1. CachesAgree'
    BY <1>0, <1>3, <1>b DEF End, CachesAgree, DatabaseOK
  <2>2. Kept'
    BY <1>3, <1>b DEF End, Kept, HasGroup
  <2>. QED BY <2>1, <2>2
<1>4. ASSUME NEW n \in Name, NEW w \in Password, HandleRegister(n, w) PROVE CachesAgree' /\ Kept'
  BY <1>0, <1>4, <1>a, <1>b, <1>c, CreateKept DEF HandleRegister, Serving, procVars
<1>5. ASSUME NEW u \in UserId, NEW w \in Password, HandleLogin(u, w) PROVE CachesAgree' /\ Kept'
  <2> DEFINE rows == Rows("server", "users")
             mine == {r \in rows : r.id = u}
             upgraded == (rows \ mine) \cup {[r EXCEPT !.password_version = 1] : r \in mine}
  <2>1. /\ Query("server", {"users"}) \/ Change("server", "users", upgraded)
        /\ pc["server"] = "ready" /\ UNCHANGED <<told, joining>>
    BY <1>5 DEF HandleLogin, Serving
  <2>2. CASE Query("server", {"users"})
    BY <1>0, <1>b, <1>g, <2>1, <2>2 DEF Kept, HasGroup
  <2>3. CASE Change("server", "users", upgraded)
    <3>1. CachesAgree' /\ disk' = [disk EXCEPT !["users"] = upgraded]
      BY <1>0, <1>f, <2>1, <2>3
    <3>2. Accounts(upgraded) = Accounts(disk["users"])
      BY <1>0, <1>d, <1>e, UpgradeKeepsAccounts
    <3>3. told'["users"] = Accounts(upgraded)
      BY <1>b, <2>1, <3>2 DEF Kept
    <3>. QED BY <1>b, <2>1, <3>1, <3>3, UsersKept
  <2>. QED BY <2>1, <2>2, <2>3
<1>6. ASSUME NEW u \in UserId, GoOffline(u) PROVE CachesAgree' /\ Kept'
  <2>1. /\ Change("server", "users", Rows("server", "users")) /\ pc["server"] = "ready"
        /\ UNCHANGED <<told, joining>>
    BY <1>6 DEF GoOffline, Serving
  <2>2. CachesAgree' /\ disk' = [disk EXCEPT !["users"] = Rows("server", "users")]
    BY <1>0, <1>f, <2>1
  <2>3. told'["users"] = Accounts(Rows("server", "users"))
    BY <1>0, <1>b, <1>d, <2>1 DEF Kept
  <2>. QED BY <1>b, <2>1, <2>2, <2>3, UsersKept
<1>7. ASSUME NEW u \in UserId, NEW n \in Name, HandleProfileUpdate(u, n) PROVE CachesAgree' /\ Kept'
  <2>1. /\ Change("server", "users", Renamed(Rows("server", "users"), u, n)) /\ pc["server"] = "ready"
        /\ Tell("users", Renamed(told["users"], u, n)) /\ UNCHANGED joining
    BY <1>7 DEF HandleProfileUpdate, Serving, procVars, Renamed
  <2>2. Accounts(Renamed(disk["users"], u, n)) = Renamed(Accounts(disk["users"]), u, n)
    BY <1>e, RenameFollows
  <2>3. CachesAgree' /\ disk' = [disk EXCEPT !["users"] = Renamed(disk["users"], u, n)]
    BY <1>0, <1>d, <1>f, <2>1
  <2>4. /\ told'["users"] = Renamed(told["users"], u, n) /\ told'["groups"] = told["groups"]
        /\ told'["group_members"] = told["group_members"]
    BY <1>0, <1>h, <2>1
  <2>5. told'["users"] = Accounts(Renamed(disk["users"], u, n))
    BY <1>b, <2>2, <2>4 DEF Kept
  <2>. QED BY <1>b, <2>1, <2>3, <2>4, <2>5, UsersKept
<1>8. ASSUME NEW u \in UserId, HandleCreateGroup(u) PROVE CachesAgree' /\ Kept'
  <2> DEFINE g == NewGroupId(Rows("server", "groups"))
             new == [group_id |-> g, host_id |-> u]
  <2>1. /\ Change("server", "groups", Rows("server", "groups") \cup {new}) /\ pc["server"] = "ready"
        /\ joining' = <<u, g>> /\ UNCHANGED told
    BY <1>8 DEF HandleCreateGroup, Serving
  <2>2. CachesAgree' /\ disk' = [disk EXCEPT !["groups"] = disk["groups"] \cup {new}]
    BY <1>0, <1>d, <1>f, <2>1
  <2>3. HostedGroup(joining') = new
    BY <2>1 DEF HostedGroup
  <2>. HIDE DEF g, new
  <2>4. /\ disk'["users"] = disk["users"] /\ disk'["groups"] = disk["groups"] \cup {new}
        /\ disk'["group_members"] = disk["group_members"]
    BY <1>0, <2>2 DEF DatabaseOK, Tables
  <2>. QED BY <1>b, <2>1, <2>2, <2>3, <2>4 DEF Kept, HasGroup
<1>9. ASSUME HostJoins PROVE CachesAgree' /\ Kept'
  <2> DEFINE rows == Rows("server", "group_members")
  <2>1. /\ pc["server"] = "ready" /\ joining # <<>> /\ joining' = <<>>
        /\ \/ joining \in rows /\ Query("server", {"group_members"})
           \/ Change("server", "group_members", rows \cup {joining})
    BY <1>9 DEF HostJoins
  <2>2. rows = disk["group_members"]
    BY <1>0, <1>d
  <2>3. told'["users"] = told["users"] /\ told'["groups"] = told["groups"] \cup {HostedGroup(joining)}
        /\ told'["group_members"] = told["group_members"] \cup {joining}
    BY <1>0, <1>9, <1>a DEF HostJoins, HostedGroup
  <2>4. HostedGroup(joining) \in disk["groups"] /\ HostedGroup(joining).group_id = joining[2]
    BY <1>b, <2>1 DEF Kept, HostedGroup
  <2>5. CASE joining \in rows /\ Query("server", {"group_members"})
    <3>1. CachesAgree' /\ disk' = disk
      BY <1>0, <1>g, <2>5
    <3>. QED BY <1>b, <2>1, <2>2, <2>3, <2>4, <2>5, <3>1 DEF Kept, HasGroup
  <2>6. CASE Change("server", "group_members", rows \cup {joining})
    <3>1. CachesAgree' /\ disk' = [disk EXCEPT !["group_members"] = rows \cup {joining}]
      BY <1>0, <1>f, <2>1, <2>6
    <3>2. \A m \in rows \cup {joining} : HasGroup(m)
      BY <1>b, <2>2, <2>4 DEF Kept, HasGroup
    <3>3. told'["groups"] \subseteq disk["groups"] /\ told'["group_members"] = rows \cup {joining}
      BY <1>b, <2>2, <2>3, <2>4 DEF Kept
    <3>. QED BY <1>b, <2>1, <2>3, <3>1, <3>2, <3>3, MembersKept
  <2>. QED BY <2>1, <2>5, <2>6
<1>10. ASSUME NEW u, NEW g, HandleJoinGroup(u, g) PROVE CachesAgree' /\ Kept'
  <2> DEFINE rows == Rows("server", "group_members")
  <2>1. pc["server"] = "ready" /\ UNCHANGED joining
    BY <1>10 DEF HandleJoinGroup, Serving, procVars
  <2>2. rows = disk["group_members"] /\ Rows("server", "groups") = disk["groups"]
    BY <1>0, <1>d
  <2>3. CASE Query("server", {"groups"}) /\ UNCHANGED told
    <3>1. CachesAgree' /\ disk' = disk
      BY <1>0, <1>g, <2>3
    <3>. QED BY <1>b, <2>1, <2>3, <3>1 DEF Kept, HasGroup
  <2>4. CASE /\ \E r \in Rows("server", "groups") : r.group_id = g
             /\ \/ <<u, g>> \in rows /\ Query("server", {"groups", "group_members"})
                \/ Change("server", "group_members", rows \cup {<<u, g>>})
             /\ Tell("group_members", told["group_members"] \cup {<<u, g>>})
    <3>1. /\ told'["users"] = told["users"] /\ told'["groups"] = told["groups"]
          /\ told'["group_members"] = rows \cup {<<u, g>>}
      BY <1>0, <1>b, <1>h, <2>2, <2>4 DEF Kept
    <3>2. \A m \in rows \cup {<<u, g>>} : HasGroup(m)
      <4>1. HasGroup(<<u, g>>)
        BY <2>2, <2>4 DEF HasGroup
      <4>. QED BY <1>b, <2>2, <4>1 DEF Kept
    <3>3. CASE <<u, g>> \in rows /\ Query("server", {"groups", "group_members"})
      <4>1. CachesAgree' /\ disk' = disk
        BY <1>0, <1>g, <3>3
      <4>. QED BY <1>b, <2>1, <2>2, <3>1, <3>3, <4>1 DEF Kept, HasGroup
    <3>4. CASE Change("server", "group_members", rows \cup {<<u, g>>})
      <4>1. CachesAgree' /\ disk' = [disk EXCEPT !["group_members"] = rows \cup {<<u, g>>}]
        BY <1>0, <1>f, <2>1, <3>4
      <4>2. told'["groups"] \subseteq disk["groups"]
        BY <1>b, <3>1 DEF Kept
      <4>. QED BY <1>b, <2>1, <3>1, <3>2, <4>1, <4>2, MembersKept
    <3>. QED BY <2>4, <3>3, <3>4
  <2>. QED BY <1>10, <2>3, <2>4 DEF HandleJoinGroup
<1>11. ASSUME NEW u, NEW g, HandleLeaveGroup(u, g) PROVE CachesAgree' /\ Kept'
  <2> DEFINE rows == Rows("server", "group_members")
  <2>1. /\ pc["server"] = "ready" /\ UNCHANGED joining
        /\ Change("server", "group_members", rows \ {<<u, g>>})
        /\ Tell("group_members", told["group_members"] \ {<<u, g>>})
    BY <1>11 DEF HandleLeaveGroup, Serving, procVars
  <2>2. rows = disk["group_members"]
    BY <1>0, <1>d
  <2>3. CachesAgree' /\ disk' = [disk EXCEPT !["group_members"] = rows \ {<<u, g>>}]
    BY <1>0, <1>f, <2>1
  <2>4. /\ told'["users"] = told["users"] /\ told'["groups"] = told["groups"]
        /\ told'["group_members"] = rows \ {<<u, g>>}
    BY <1>0, <1>b, <1>h, <2>1, <2>2 DEF Kept
  <2>5. \A m \in rows \ {<<u, g>>} : HasGroup(m)
    BY <1>b, <2>2 DEF Kept
  <2>6. told'["groups"] \subseteq disk["groups"]
    BY <1>b, <2>4 DEF Kept
  <2>. QED BY <1>b, <2>1, <2>3, <2>4, <2>5, <2>6, MembersKept
<1>12. ASSUME MigrateUser PROVE CachesAgree' /\ Kept'
  <2>1. item \in 1 .. Len(Legacy)
    <3>1. Len(Legacy) \in Nat /\ item \in 1 .. Len(Legacy) + 1
      BY DEF Typed, TypeOK
    <3>. QED BY <1>12, <3>1 DEF MigrateUser
  <2>2. Legacy[item].nickname \in Name /\ Legacy[item].password \in Password
    <3>1. Legacy[item] \in [nickname : Name, password : Password]
      BY <2>1, LegacyItem
    <3>. QED BY <3>1
  <2>3. Alone("migrator") /\ "users" \in created
    BY <1>0, <1>12, <1>a DEF MigrateUser, Solo, Schema
  <2>. QED BY <1>0, <1>12, <1>a, <1>b, <2>2, <2>3, CreateKept DEF MigrateUser
<1>. QED
  BY <1>1, <1>2, <1>3, <1>4, <1>5, <1>6, <1>7, <1>8, <1>9, <1>10, <1>11, <1>12
     DEF Next, Open, FirstRow, EnsureTable, SetSchemaVersion, Repositories, vars

(* The initial state satisfies the invariant of what was confirmed. *)
LEMMA KeptInit == Init => KeptInv
<1> SUFFICES ASSUME Init PROVE CachesAgree /\ Kept
  BY DEF KeptInv
<1>1. CachesAgree
  BY DEF Init, CachesAgree
<1>2. disk["groups"] = {} /\ disk["group_members"] = {} /\ told["groups"] = {} /\ told["group_members"] = {}
  BY DEF Init, Empty, Table
<1>3. told["users"] = Accounts(disk["users"])
  BY DEF Init, Empty, Table, Accounts, Account
<1>. QED BY <1>1, <1>2, <1>3 DEF Init, Kept

(* What a reply has confirmed is in the file, across restarts and kills,   *)
(* until two processes use the file at once: every account as it was last  *)
(* given, every group and exactly the confirmed memberships.  The cache of *)
(* the process that is up is never older than the file.                    *)
THEOREM SpecConfirmedIsStored == Spec => []ConfirmedIsStored
<1>1. KeptInv => ConfirmedIsStored
  BY DEF KeptInv, Kept, Accounts, ConfirmedIsStored
<1>. QED BY TypedInit, TypedNext, SchemaInit, SoloNext, SchemaNext, KeptInit, KeptNext, <1>1, PTL DEF Spec

(* A membership in the file names a group of the file: createGroup stores  *)
(* the group before its host joins it, and a kill in between leaves a      *)
(* group without members, never members without a group.                   *)
THEOREM SpecMembersHaveGroups == Spec => []MembersHaveGroups
<1>1. KeptInv => MembersHaveGroups
  BY DEF KeptInv, Kept, HasGroup, MembersHaveGroups
<1>. QED BY TypedInit, TypedNext, SchemaInit, SoloNext, SchemaNext, KeptInit, KeptNext, <1>1, PTL DEF Spec
=============================================================================
