----------------------------- MODULE CJsonObject -----------------------------
(***************************************************************************)
(* neb::CJsonObject, the C++ document class over cJSON that the legacy     *)
(* client and server keep in their trees.  One document, "root", and the   *)
(* wrapper objects its operator[] caches, one per key and per index.  An   *)
(* object either owns a tree (data) or refers into another's (ext); its    *)
(* Focus is the one it has.  Wrappers of wrappers and the cursors of       *)
(* wrappers are not modelled.                                              *)
(*                                                                         *)
(* An operation through a pointer to a released node is undefined          *)
(* behaviour; the model ends that line of calls, it follows no outcome.    *)
(* The state left on the way there is what the properties are about.       *)
(***************************************************************************)
EXTENDS CJson, SequencesExt

CONSTANTS
    Index,     \* array positions
    Callers,   \* bound: what a caller uses, [kinds, names, index, wraps, nodes, leaks]:
               \* types of scalars, keys, positions; wrappers and nodes at a time; nodes
               \* it lets leak
    Ints,      \* integers that callers store, each through the types that hold it
    Reals      \* floating point numbers that callers store

ASSUME CJsonObjectAssumption ==
    /\ Index \subseteq Nat
    /\ \A c \in Callers : c.names \subseteq Name /\ c.index \subseteq Index /\ {c.wraps, c.leaks} \subseteq Nat
    /\ Ints \subseteq -(Full \div 2) .. Full - 1

VARIABLES
    heap,     \* the cJSON nodes
    objs,     \* the document and its cached wrappers
    trav,     \* m_pKeyTravers of the document, its cursor over the keys
    iter,     \* m_object_iter and m_array_iter: the wrappers last found, or End
    caller,   \* the caller, one of Callers
    seen,     \* ghost: the keys GetKey gave since the cursor was at the document
    off,      \* ghost: wrappers a call changed the document under without erasing
    leaked    \* ghost: nodes that a call left allocated without an owner

vars == <<heap, objs, trav, iter, caller, seen, off, leaked>>

Root     == <<"root", "">>
KeyWraps == {"key"} \X Name
IdxWraps == {"idx"} \X Index
Wrapper     == KeyWraps \cup IdxWraps
Target   == {Root} \cup Wrapper
End      == <<"end", "">>

Absent == [live |-> FALSE, data |-> Null, ext |-> Null]
Empty  == [Absent EXCEPT !.live = TRUE]

Live     == {t \in Target : objs[t].live}
Focus(t) == IF objs[t].data # Null THEN objs[t].data ELSE objs[t].ext
Usable(t) == t \in Live /\ Focus(t) # Freed

IsObject(t) == Focus(t) \in Node /\ heap[Focus(t)].type = "Object"
IsArray(t)  == Focus(t) \in Node /\ heap[Focus(t)].type = "Array"

\* What a key or an index names in t, or Null.
KeyExist(t, k)   == IF IsObject(t) THEN GetObjectItem(heap, Focus(t), k) ELSE Null
ArrayItem(t, i)  == IF IsArray(t) THEN GetArrayItem(heap, Focus(t), i) ELSE Null
Item(w) == IF w[1] = "key" THEN KeyExist(Root, w[2]) ELSE ArrayItem(Root, w[2])

-----------------------------------------------------------------------------
(***************************************************************************)
(* Ends of calls.                                                          *)
(***************************************************************************)
\* The state after a call: heap h, objects o and cursor at, the wrappers E erased
\* (their own data with them), the nodes F released, the pointers into these dead.
After(h, o, at, E, F) ==
    LET gone  == F \cup UNION {Tree(h, o[w].data) : w \in E}
        to(p) == IF p \in gone THEN Freed ELSE p
    IN  /\ heap' = Release(h, gone)
        /\ objs' = [t \in Target |-> IF t \in E THEN Absent
                                     ELSE [o[t] EXCEPT !.ext = to(@)]]
        /\ trav' = to(at)
        /\ UNCHANGED caller

\* A call that loses nothing, and one that forgets the nodes L without releasing
\* them.
Leave(h, o, at, E, F) == After(h, o, at, E, F) /\ UNCHANGED leaked
Leak(h, o, at, E, L)  ==
    /\ Cardinality(leaked \cup L) <= caller.leaks
    /\ After(h, o, at, E, {})
    /\ leaked' = leaked \cup L

\* Only the document has caches: a call on a wrapper erases and resets nothing.
Cached(t, W)    == IF t = Root THEN W \cap Live ELSE {}
ResetIter(t, f) == iter' = IF t = Root THEN [iter EXCEPT ![f] = End] ELSE iter
Cursor(t, at)   == IF t = Root THEN at ELSE trav
Sees(t, s)      == seen' = IF t = Root THEN s ELSE seen

\* Erase the wrappers E of a change that concerns the wrappers W.
Misses(t, E, W) == off' = (off \ Cached(t, E)) \cup Cached(t, W \ E)

KeyWrap(k) == {<<"key", k>>}
IdxWrap(i) == {<<"idx", i>>}
Spelled(k) == {w \in KeyWraps : Lower[w[2]] = Lower[k]}
From(i)    == {w \in IdxWraps : w[2] >= i}

-----------------------------------------------------------------------------
(***************************************************************************)
(* What callers store: a new scalar node, a parse of another object's      *)
(* text, or the tree that object owns.  Each is the heap and the objects   *)
(* once the tree is there, and its first node.                             *)
(***************************************************************************)
Scalar(x, h, o) ==
    {[h |-> [h EXCEPT ![n] = x @@ Blank], o |-> o, n |-> n] : n \in FreeNodes(h)}

Value(fields, as, v) == fields @@ [put |-> [as |-> as, v |-> v]]

\* The node each type's overloads create; sign is what the unsigned ones pass.
Of(kind, values) == IF kind \in caller.kinds THEN values ELSE {}

Text  == {Value(CreateString, "string", v) : v \in Of("string", {0})}
Nil   == {Value(CreateNull, "null", v) : v \in Of("null", {0})}
Truth == {Value(CreateBool(b = 1), "bool", b) : b \in Of("bool", {0, 1})}
Real  == {Value(CreateDouble(d, -1), "real", d) : d \in Of("real", Reals)}
Narrow(sign) ==
    {Value(CreateInt(v, -1), "int32", v) : v \in {v \in Of("int32", Ints) : Signed(v, Half) = v}}
    \cup {Value(CreateInt(v, sign), "uint32", v) : v \in {v \in Of("uint32", Ints) : v % Half = v}}
Wide(sign) ==
    {Value(CreateInt(v, -1), "int64", v) : v \in {v \in Of("int64", Ints) : Signed(v, Full) = v}}
    \cup {Value(CreateInt(v, sign), "uint64", v) : v \in {v \in Of("uint64", Ints) : v % Full = v}}

FocusIn(o, t) == IF o[t].data # Null THEN o[t].data ELSE o[t].ext

\* cJSON_Parse(oJsonObject.ToString()); an empty object prints as "", no value.
CopyTree(n, h, o) ==
    IF n = Null THEN {}
    ELSE UNION {{[h |-> g, o |-> o, n |-> To[n]] : g \in ParsedHeaps(h, n, To)} :
                To \in Injection(Tree(h, n), FreeNodes(h))}
CopyOf(s, h, o) == CopyTree(FocusIn(o, s), h, o)

\* The move overloads take m_pJsonData; an object without it has nothing to give.
MoveOf(s, h, o) ==
    IF o[s].data = Null THEN {}
    ELSE {[h |-> h, o |-> [o EXCEPT ![s].data = Null], n |-> o[s].data]}

Movable(t, s) == s \notin {t, Root}

\* Bound: t's new container, if it is empty, and n nodes fit.
Spare      == caller.nodes - Cardinality(Node \ FreeNodes(heap))
Room(t, n) == Spare >= n + (IF Focus(t) = Null THEN 1 ELSE 0)
Size(s)    == IF Focus(s) = Null THEN 1 ELSE Cardinality(Tree(heap, Focus(s)))

\* The container an Add works in, created when the object is empty.
Opened(t, type) ==
    IF Focus(t) # Null THEN {[h |-> heap, o |-> objs, p |-> Focus(t)]}
    ELSE {[h |-> [heap EXCEPT ![n] = Plain(type) @@ Blank], p |-> n,
           o |-> [objs EXCEPT ![t].data = n]] : n \in FreeNodes(heap)}

\* An Add that fails on its argument has created the container all the same.
OpenOnly(t, type) ==
    /\ Usable(t) /\ Focus(t) = Null /\ Room(t, 0)
    /\ \E c \in Opened(t, type) :
          Leave(c.h, c.o, IF type = "Object" THEN Cursor(t, c.p) ELSE trav, {}, {})
    /\ UNCHANGED <<iter, seen, off>>

-----------------------------------------------------------------------------
(***************************************************************************)
(* Objects: members by key.                                                *)
(***************************************************************************)
\* Add what Offer gives as a new member k; E are the wrappers the call erases.
AddMember(t, k, Offer(_, _), E) ==
    /\ Usable(t)
    /\ \E c \in Opened(t, "Object") :
       /\ c.h[c.p].type = "Object"
       /\ GetObjectItem(c.h, c.p, k) = Null
       /\ \E g \in Offer(c.h, c.o) :
             Leave(AddItemToObject(g.h, c.p, k, g.n), g.o, Cursor(t, c.p), Cached(t, E), {})
    /\ Misses(t, E, Spelled(k))
    /\ Sees(t, <<>>)

AddScalar(t, k, x) ==
    /\ Room(t, 1)
    /\ AddMember(t, k, LAMBDA h, o : Scalar(x, h, o), {})
    /\ UNCHANGED iter

AddString(t, k) == \E x \in Text : AddScalar(t, k, x)
AddInt32(t, k) == \E x \in Narrow(1) : AddScalar(t, k, x)
AddInt64(t, k) == \E x \in Wide(1) : AddScalar(t, k, x)
AddBool(t, k) == \E x \in Truth : AddScalar(t, k, x)
AddReal(t, k) == \E x \in Real : AddScalar(t, k, x)
AddNull(t, k) == \E x \in Nil : AddScalar(t, k, x)

AddEmptySubObject(t, k) ==
    /\ Room(t, 1)
    /\ AddMember(t, k, LAMBDA h, o : Scalar(CreateObject, h, o), {})
    /\ ResetIter(t, "key")
AddEmptySubArray(t, k) ==
    /\ Room(t, 1)
    /\ AddMember(t, k, LAMBDA h, o : Scalar(CreateArray, h, o), {})
    /\ ResetIter(t, "idx")

\* Add(strKey, const CJsonObject&) of any object s, t itself included.
AddCopy(t, k, s) ==
    \/ /\ Usable(s) /\ Room(t, Size(s))
       /\ AddMember(t, k, LAMBDA h, o : CopyOf(s, h, o), KeyWrap(k))
       /\ ResetIter(t, "key")
    \/ s # t /\ Usable(s) /\ Focus(s) = Null /\ OpenOnly(t, "Object")

\* AddWithMove and Add(strKey, CJsonObject&&), of a wrapper that is not t
\* (moving a document into its own part is the caller's error).
AddMoved(t, k, s) ==
    \/ /\ Movable(t, s) /\ Room(t, 0)
       /\ AddMember(t, k, LAMBDA h, o : MoveOf(s, h, o), KeyWrap(k))
       /\ ResetIter(t, "key")
    \/ Movable(t, s) /\ objs[s].data = Null /\ OpenOnly(t, "Object")

\* Mutant of DeleteKey: the cached wrapper stays.
DeleteKeyKeepsWrapper(t, k) ==
    /\ Usable(t) /\ IsObject(t)
    /\ LET p == Focus(t)
           c == KeyExist(t, k)
       IN  Leave(IF c = Null THEN heap ELSE DetachItem(heap, p, c),
                 objs, Cursor(t, p), {}, Tree(heap, c))
    /\ ResetIter(t, "key")
    /\ Sees(t, <<>>)
    /\ UNCHANGED off

DeleteKey(t, k) ==
    /\ Usable(t) /\ IsObject(t)
    /\ LET p == Focus(t)
           c == KeyExist(t, k)
       IN  /\ Leave(IF c = Null THEN heap ELSE DetachItem(heap, p, c),
                    objs, Cursor(t, p), Cached(t, KeyWrap(k)), Tree(heap, c))
           /\ Misses(t, KeyWrap(k), IF c = Null THEN {} ELSE Spelled(k))
    /\ ResetIter(t, "key")
    /\ Sees(t, <<>>)

\* Replace member k.  When there is none nothing takes the new tree: it leaks.
ReplaceMember(t, k, Offer(_, _), E, miss) ==
    /\ Usable(t) /\ IsObject(t)
    /\ \E g \in Offer(heap, objs) :
          LET c == KeyExist(t, k) IN
          IF c = Null THEN Leak(g.h, g.o, trav, Cached(t, miss), Tree(g.h, g.n))
          ELSE Leave(ReplaceItem([g.h EXCEPT ![g.n].name = k], Focus(t), c, g.n), g.o,
                     trav, Cached(t, E), Tree(heap, c))
    /\ UNCHANGED seen

\* The scalar overloads erase the wrapper first and leave m_object_iter on it.
ReplaceScalar(t, k, x) ==
    /\ Room(t, 1)
    /\ ReplaceMember(t, k, LAMBDA h, o : Scalar(x, h, o), KeyWrap(k), KeyWrap(k))
    /\ off' = (off \ Cached(t, KeyWrap(k)))
                 \cup (IF KeyExist(t, k) = Null THEN {} ELSE Cached(t, Spelled(k) \ KeyWrap(k)))
                 \cup (IF t = Root THEN {iter.key} \cap KeyWrap(k) ELSE {})
    /\ UNCHANGED iter

ReplaceString(t, k) == \E x \in Text : ReplaceScalar(t, k, x)
ReplaceInt32(t, k) == \E x \in Narrow(1) : ReplaceScalar(t, k, x)
ReplaceInt64(t, k) == \E x \in Wide(1) : ReplaceScalar(t, k, x)
ReplaceBool(t, k) == \E x \in Truth : ReplaceScalar(t, k, x)
ReplaceReal(t, k) == \E x \in Real : ReplaceScalar(t, k, x)
ReplaceWithNull(t, k) == \E x \in Nil : ReplaceScalar(t, k, x)

\* The overloads for objects erase and reset once the member is replaced.
Replaced(t, k) ==
    IF KeyExist(t, k) = Null THEN UNCHANGED <<iter, off>>
    ELSE ResetIter(t, "key") /\ Misses(t, KeyWrap(k), Spelled(k))

ReplaceCopy(t, k, s) ==
    /\ Usable(s) /\ Room(t, Size(s))
    /\ ReplaceMember(t, k, LAMBDA h, o : CopyOf(s, h, o), KeyWrap(k), {})
    /\ Replaced(t, k)
ReplaceMoved(t, k, s) ==
    /\ Movable(t, s)
    /\ ReplaceMember(t, k, LAMBDA h, o : MoveOf(s, h, o), KeyWrap(k), {})
    /\ Replaced(t, k)

-----------------------------------------------------------------------------
(***************************************************************************)
(* Arrays: items by position.                                              *)
(***************************************************************************)
\* Add at the end, or at the head.  E are the wrappers the call erases, W those
\* whose position means another item afterwards.
AddItem(t, Offer(_, _), Link(_, _, _), E, W) ==
    /\ Usable(t)
    /\ \E c \in Opened(t, "Array") :
       /\ c.h[c.p].type = "Array"
       /\ \E g \in Offer(c.h, c.o) : Leave(Link(g.h, c.p, g.n), g.o, trav, Cached(t, E), {})
    /\ Misses(t, E, W)
    /\ UNCHANGED seen

\* The position an Add fills: the array's size before it.
EndOf(t) == IF IsArray(t) THEN GetArraySize(heap, Focus(t)) ELSE 0

AppendScalar(t, x) ==
    /\ Room(t, 1)
    /\ AddItem(t, LAMBDA h, o : Scalar(x, h, o), AddItemToArray, {}, IdxWrap(EndOf(t)))
    /\ UNCHANGED iter

AppendString(t) == \E x \in Text : AppendScalar(t, x)
AppendInt32(t) == \E x \in Narrow(1) : AppendScalar(t, x)
AppendInt64(t) == \E x \in Wide(1) : AppendScalar(t, x)
AppendBool(t) == \E x \in Truth : AppendScalar(t, x)
AppendReal(t) == \E x \in Real : AppendScalar(t, x)
AppendNull(t) == \E x \in Nil : AppendScalar(t, x)

AppendCopy(t, s) ==
    \/ /\ Usable(s) /\ Room(t, Size(s))
       /\ AddItem(t, LAMBDA h, o : CopyOf(s, h, o), AddItemToArray, From(EndOf(t)), IdxWrap(EndOf(t)))
       /\ ResetIter(t, "idx")
    \/ s # t /\ Usable(s) /\ Focus(s) = Null /\ OpenOnly(t, "Array")
AppendMoved(t, s) ==
    \/ /\ Movable(t, s) /\ Room(t, 0)
       /\ AddItem(t, LAMBDA h, o : MoveOf(s, h, o), AddItemToArray, From(EndOf(t)), IdxWrap(EndOf(t)))
       /\ ResetIter(t, "idx")
    \/ Movable(t, s) /\ objs[s].data = Null /\ OpenOnly(t, "Array")

\* The scalar overloads of AddAsFirst keep every wrapper.
FirstScalar(t, x) ==
    /\ Room(t, 1)
    /\ AddItem(t, LAMBDA h, o : Scalar(x, h, o), AddItemToArrayHead, {}, IdxWraps)
    /\ UNCHANGED iter

FirstString(t) == \E x \in Text : FirstScalar(t, x)
FirstInt32(t) == \E x \in Narrow(-1) : FirstScalar(t, x)
FirstInt64(t) == \E x \in Wide(-1) : FirstScalar(t, x)
FirstBool(t) == \E x \in Truth : FirstScalar(t, x)
FirstReal(t) == \E x \in Real : FirstScalar(t, x)
FirstNull(t) == \E x \in Nil : FirstScalar(t, x)

FirstCopy(t, s) ==
    \/ /\ Usable(s) /\ Room(t, Size(s))
       /\ AddItem(t, LAMBDA h, o : CopyOf(s, h, o), AddItemToArrayHead, IdxWraps, IdxWraps)
       /\ ResetIter(t, "idx")
    \/ s # t /\ Usable(s) /\ Focus(s) = Null /\ OpenOnly(t, "Array")
FirstMoved(t, s) ==
    \/ /\ Movable(t, s) /\ Room(t, 0)
       /\ AddItem(t, LAMBDA h, o : MoveOf(s, h, o), AddItemToArrayHead, IdxWraps, IdxWraps)
       /\ ResetIter(t, "idx")
    \/ Movable(t, s) /\ objs[s].data = Null /\ OpenOnly(t, "Array")

DeleteIdx(t, i) ==
    /\ Usable(t) /\ IsArray(t)
    /\ LET c == ArrayItem(t, i) IN
       /\ Leave(IF c = Null THEN heap ELSE DetachItem(heap, Focus(t), c), objs, trav,
                Cached(t, From(i)), Tree(heap, c))
       /\ Misses(t, From(i), {})
    /\ ResetIter(t, "idx")
    /\ UNCHANGED seen

ReplaceItemAt(t, i, Offer(_, _), E, miss) ==
    /\ Usable(t) /\ IsArray(t)
    /\ \E g \in Offer(heap, objs) :
          LET c == ArrayItem(t, i) IN
          IF c = Null THEN Leak(g.h, g.o, trav, Cached(t, miss), Tree(g.h, g.n))
          ELSE Leave(ReplaceItem(g.h, Focus(t), c, g.n), g.o, trav, Cached(t, E), Tree(heap, c))
    /\ UNCHANGED seen

SetScalar(t, i, x) ==
    /\ Room(t, 1)
    /\ ReplaceItemAt(t, i, LAMBDA h, o : Scalar(x, h, o), IdxWrap(i), IdxWrap(i))
    /\ off' = (off \ Cached(t, IdxWrap(i))) \cup (IF t = Root THEN {iter.idx} \cap IdxWrap(i) ELSE {})
    /\ UNCHANGED iter

SetString(t, i) == \E x \in Text : SetScalar(t, i, x)
SetInt32(t, i) == \E x \in Narrow(1) : SetScalar(t, i, x)
SetInt64(t, i) == \E x \in Wide(1) : SetScalar(t, i, x)
SetBool(t, i) == \E x \in Truth : SetScalar(t, i, x)
SetReal(t, i) == \E x \in Real : SetScalar(t, i, x)
SetNull(t, i) == \E x \in Nil : SetScalar(t, i, x)

SetDone(t, i) ==
    IF ArrayItem(t, i) = Null THEN UNCHANGED <<iter, off>>
    ELSE ResetIter(t, "idx") /\ Misses(t, IdxWrap(i), {})

SetCopy(t, i, s) ==
    /\ Usable(s) /\ Room(t, Size(s))
    /\ ReplaceItemAt(t, i, LAMBDA h, o : CopyOf(s, h, o), IdxWrap(i), {})
    /\ SetDone(t, i)
SetMoved(t, i, s) ==
    /\ Movable(t, s)
    /\ ReplaceItemAt(t, i, LAMBDA h, o : MoveOf(s, h, o), IdxWrap(i), {})
    /\ SetDone(t, i)

-----------------------------------------------------------------------------
(***************************************************************************)
(* The object itself: operator[], traversal, assignment, Clear.            *)
(***************************************************************************)
\* operator[]: the last wrapper again, a cached one, or a new one that refers to
\* the item, or to nothing.  The last wrapper, if erased since, is dangling.
At(w) ==
    LET f == w[1] IN
    /\ Usable(Root)
    /\ iter[f] = w => w \in Live
    /\ IF w \in Live THEN iter' = [iter EXCEPT ![f] = w] /\ UNCHANGED <<objs, off>>
       ELSE /\ Cardinality(Live) <= caller.wraps
            /\ objs' = [objs EXCEPT ![w] = [Empty EXCEPT !.ext = Item(w)]]
            /\ off' = off \ {w}
            /\ UNCHANGED iter
    /\ UNCHANGED <<heap, trav, caller, seen, leaked>>

\* Mutant of GetKey: the first key is not passed over.
GetKeyTwice ==
    /\ Usable(Root) /\ ~IsArray(Root) /\ trav \in Node
    /\ LET c == IF trav = Focus(Root) THEN heap[trav].child ELSE trav IN
       /\ c # Null
       /\ trav' = IF trav = Focus(Root) THEN c ELSE heap[c].next
       /\ seen' = Append(seen, heap[c].name)
    /\ UNCHANGED <<heap, objs, iter, caller, off, leaked>>

GetKey ==
    /\ ~IsArray(Root) /\ trav # Freed
    /\ LET c == IF trav # Null /\ trav = Focus(Root) THEN heap[trav].child ELSE trav IN
       \/ trav = Null /\ trav' = Focus(Root) /\ seen' = <<>>
       \/ c # Null /\ trav' = heap[c].next /\ seen' = Append(seen, heap[c].name)
    /\ UNCHANGED <<heap, objs, iter, caller, off, leaked>>

ResetTraversing == trav' = Focus(Root) /\ seen' = <<>> /\ UNCHANGED <<heap, objs, iter, caller, off, leaked>>

\* t comes to own the tree at n; its own tree and, of the document, every wrapper
\* are deleted.
Renew(t, h, n) ==
    Leave(h, [objs EXCEPT ![t] = [Empty EXCEPT !.data = n]], Cursor(t, n), Cached(t, Wrapper),
          Tree(h, objs[t].data))
\* A wrapper that is renewed no longer refers to its item.
Severed(t) == IF Item(t) = Null THEN {} ELSE {t}
Detach(t)  == off' = (IF t = Root THEN {} ELSE off \cup Severed(t)) /\ Sees(t, <<>>)
ResetIters(t) == iter' = IF t = Root THEN [key |-> End, idx |-> End] ELSE iter

Clear(t) == t \in Live /\ Renew(t, heap, Null) /\ Detach(t) /\ ResetIters(t)

\* Parse(oJsonObject.ToString()): the copy assignment, and Parse of that text.
Assign(t, s) ==
    /\ t \in Live /\ Usable(s) /\ Spare >= Size(s)
    /\ \/ Focus(s) = Null /\ Renew(t, heap, Null)
       \/ \E g \in CopyOf(s, heap, objs) : Renew(t, g.h, g.n)
    /\ Detach(t) /\ ResetIters(t)

\* The move assignment of a temporary copy of s overwrites what t has: its old
\* tree, its wrappers and what these own are deleted by nobody.
MoveAssign(t, s) ==
    /\ t \in Live /\ Usable(s) /\ Spare >= Size(s)
    /\ LET lost == {t} \cup Cached(t, Wrapper) IN
       \E g \in CopyOf(s, heap, objs) :
          Leak(g.h,
               [u \in Target |-> IF u = t THEN [Empty EXCEPT !.data = g.n]
                                ELSE IF u \in lost THEN Absent ELSE objs[u]],
               Cursor(t, g.n), Cached(t, Wrapper), UNION {Tree(heap, objs[u].data) : u \in lost})
    /\ Detach(t) /\ ResetIters(t)

\* The move constructor takes everything from t, and its new object is dropped:
\* as Clear, but t's iterators stay where they were.
MoveOut(t) ==
    /\ t \in Live
    /\ Renew(t, heap, Null)
    /\ off' = IF t = Root THEN {iter.key, iter.idx} \ {End} ELSE off \cup Severed(t)
    /\ Sees(t, <<>>)
    /\ UNCHANGED iter

\* Get(strKey, CJsonObject&) and Get(iWhich, CJsonObject&): u becomes a copy of c.
GetCopy(u, c) ==
    /\ u \in Live /\ c # Null /\ Spare >= Cardinality(Tree(heap, c))
    /\ \E g \in CopyTree(c, heap, objs) : Renew(u, g.h, g.n)
    /\ Detach(u) /\ ResetIters(u)

GetMember(t, k, u) == Usable(t) /\ GetCopy(u, KeyExist(t, k))
GetItem(t, i, u)   == Usable(t) /\ GetCopy(u, ArrayItem(t, i))

-----------------------------------------------------------------------------
(***************************************************************************)
(* Typed reads: <<value>>, or <<>> when the call returns false.  A string  *)
(* and a null have no value to tell apart and read as 0.                   *)
(***************************************************************************)
Has(c, types) == c # Null /\ heap[c].type \in types

\* (int32), (uint32), (int64) and (uint64) of valueint, or of valuedouble.
Integer(c, as) ==
    LET n == heap[c]
        z == IF n.type = "Int" THEN n.int ELSE IF n.dbl = Tiny THEN 0 ELSE n.dbl
    IN  CASE as = "int32" -> Signed(z, Half) [] as = "uint32" -> z % Half
          [] as = "int64" -> Signed(z, Full) [] as = "uint64" -> z % Full

MemberString(t, k) == IF Has(KeyExist(t, k), {"String"}) THEN <<0>> ELSE <<>>
MemberInt32(t, k, as) ==
    LET c == KeyExist(t, k) IN IF Has(c, {"Int", "Double"}) THEN <<Integer(c, as)>> ELSE <<>>
MemberInt64(t, k, as) ==
    LET c == KeyExist(t, k) IN IF Has(c, {"Int", "Double"}) THEN <<Integer(c, as)>> ELSE <<>>
MemberBool(t, k) ==
    LET c == KeyExist(t, k) IN
    IF Has(c, {"False", "True"}) THEN <<IF heap[c].type = "True" THEN 1 ELSE 0>> ELSE <<>>
MemberReal(t, k) ==
    LET c == KeyExist(t, k) IN IF Has(c, {"Int", "Double"}) THEN <<heap[c].dbl>> ELSE <<>>
MemberIsNull(t, k) == IF Has(KeyExist(t, k), {"NULL"}) THEN <<0>> ELSE <<>>

ItemString(t, i) == IF Has(ArrayItem(t, i), {"String"}) THEN <<0>> ELSE <<>>
ItemInt32(t, i, as) ==
    LET c == ArrayItem(t, i) IN IF Has(c, {"Int", "Double"}) THEN <<Integer(c, as)>> ELSE <<>>
ItemInt64(t, i, as) ==
    LET c == ArrayItem(t, i) IN IF Has(c, {"Int", "Double"}) THEN <<Integer(c, as)>> ELSE <<>>
ItemBool(t, i) ==
    LET c == ArrayItem(t, i) IN
    IF Has(c, {"False", "True"}) THEN <<IF heap[c].type = "True" THEN 1 ELSE 0>> ELSE <<>>
ItemReal(t, i) ==
    LET c == ArrayItem(t, i) IN IF Has(c, {"Int", "Double"}) THEN <<heap[c].dbl>> ELSE <<>>
ItemIsNull(t, i) == IF Has(ArrayItem(t, i), {"NULL"}) THEN <<0>> ELSE <<>>

-----------------------------------------------------------------------------
Init ==
    /\ heap = [n \in Node |-> Blank]
    /\ objs = [t \in Target |-> IF t = Root THEN Empty ELSE Absent]
    /\ trav = Null
    /\ iter = [key |-> End, idx |-> End]
    /\ caller \in Callers
    /\ seen = <<>>
    /\ off = {}
    /\ leaked = {}

KeyCalls(t, k) ==
    \/ AddString(t, k) \/ AddInt32(t, k) \/ AddInt64(t, k) \/ AddBool(t, k) \/ AddReal(t, k)
    \/ AddNull(t, k) \/ AddEmptySubObject(t, k) \/ AddEmptySubArray(t, k)
    \/ ReplaceString(t, k) \/ ReplaceInt32(t, k) \/ ReplaceInt64(t, k) \/ ReplaceBool(t, k)
    \/ ReplaceReal(t, k) \/ ReplaceWithNull(t, k) \/ DeleteKey(t, k)
    \/ \E s \in Live :
         \/ AddCopy(t, k, s) \/ AddMoved(t, k, s) \/ ReplaceCopy(t, k, s)
         \/ ReplaceMoved(t, k, s) \/ GetMember(t, k, s)

ItemCalls(t) ==
    \/ AppendString(t) \/ AppendInt32(t) \/ AppendInt64(t) \/ AppendBool(t) \/ AppendReal(t)
    \/ AppendNull(t)
    \/ FirstString(t) \/ FirstInt32(t) \/ FirstInt64(t) \/ FirstBool(t) \/ FirstReal(t)
    \/ FirstNull(t)
    \/ \E i \in caller.index :
         \/ SetString(t, i) \/ SetInt32(t, i) \/ SetInt64(t, i) \/ SetBool(t, i)
         \/ SetReal(t, i) \/ SetNull(t, i) \/ DeleteIdx(t, i)
         \/ \E s \in Live : SetCopy(t, i, s) \/ SetMoved(t, i, s) \/ GetItem(t, i, s)
    \/ \E s \in Live :
         AppendCopy(t, s) \/ AppendMoved(t, s) \/ FirstCopy(t, s) \/ FirstMoved(t, s)

ObjectCalls(t) ==
    \/ Clear(t) \/ MoveOut(t)
    \/ \E s \in Live : Assign(t, s) \/ MoveAssign(t, s)

Next ==
    \/ GetKey \/ ResetTraversing
    \/ \E k \in caller.names : At(<<"key", k>>) \/ \E t \in Live : KeyCalls(t, k)
    \/ \E i \in caller.index : At(<<"idx", i>>)
    \/ \E t \in Live : ItemCalls(t) \/ ObjectCalls(t)

Spec == Init /\ [][Next]_vars

-----------------------------------------------------------------------------
\* Links and owners point to allocated nodes; what refers into a tree may be dead.
TypeOK ==
    LET Ptr == (Node \ FreeNodes(heap)) \cup {Null} IN
    /\ \A n \in Node : {heap[n].child, heap[n].next, heap[n].prev} \subseteq Ptr
    /\ objs \in [Target -> [live : BOOLEAN, data : Ptr, ext : Ptr \cup {Freed}]]
    /\ trav \in Ptr \cup {Freed}
    /\ iter \in [key : KeyWraps \cup {End}, idx : IdxWraps \cup {End}]
    /\ off \subseteq Wrapper
    /\ leaked \subseteq Node \ FreeNodes(heap)
    /\ caller \in Callers

\* The trees that the document and its wrappers own are disjoint, none of them
\* holds a leaked node, and every other allocated node is in one: no call frees a
\* node it still links or links one twice, and none but a Replace that finds no
\* member or item and a move assignment leaves one behind.  next and prev agree.
TreesOwned ==
    LET tree(t) == Tree(heap, objs[t].data) IN
    /\ \A t, u \in Live : t = u \/ tree(t) \cap tree(u) = {}
    /\ UNION {tree(t) : t \in Live} = (Node \ FreeNodes(heap)) \ leaked
    /\ \A n \in Node : heap[n].next # Null => heap[heap[n].next].prev = n
    /\ \A n \in Node : heap[n].prev # Null => heap[heap[n].prev].next = n

\* A cached wrapper refers to the item its key or index names now, and an
\* iterator names a wrapper that exists, unless a call that erases too little
\* came between.
CacheSound ==
    \A w \in Wrapper \ off :
        /\ w \in Live => objs[w].ext = Item(w)
        /\ w \in {iter.key, iter.idx} => w \in Live

\* When the cursor is past the last key, GetKey has given each member's key once
\* and in order.
TraversalComplete ==
    IsObject(Root) /\ trav = Null =>
        [i \in DOMAIN seen |-> Lower[seen[i]]] =
        LET s == Kids(heap, Focus(Root)) IN [i \in DOMAIN s |-> Lower[heap[s[i]].name]]

GotMember(t, k, as) ==
    CASE as = "string" -> MemberString(t, k) [] as = "bool" -> MemberBool(t, k)
      [] as = "real" -> MemberReal(t, k)     [] as = "null" -> MemberIsNull(t, k)
      [] as \in {"int32", "uint32"} -> MemberInt32(t, k, as)
      [] OTHER -> MemberInt64(t, k, as)
GotItem(t, i, as) ==
    CASE as = "string" -> ItemString(t, i) [] as = "bool" -> ItemBool(t, i)
      [] as = "real" -> ItemReal(t, i)     [] as = "null" -> ItemIsNull(t, i)
      [] as \in {"int32", "uint32"} -> ItemInt32(t, i, as)
      [] OTHER -> ItemInt64(t, i, as)

\* A typed Get reads the value the same type's Add or Replace stored, from any
\* object that shows it, after any relinking and, where it is Portable, copying.
PutIsGot ==
    \A t \in Live : (IsObject(t) \/ IsArray(t)) =>
        LET s == Kids(heap, Focus(t)) IN
        \A i \in DOMAIN s :
            LET put == heap[s[i]].put IN
            put # NoPut =>
                <<put.v>> = IF IsObject(t) THEN GotMember(t, heap[s[i]].name, put.as)
                            ELSE GotItem(t, i - 1, put.as)
=============================================================================
