-------------------------------- MODULE CJson --------------------------------
(***************************************************************************)
(* The node lists of the retained C library cJSON: a heap of nodes linked  *)
(* by child, next and prev, and the functions that relink them.  A pointer *)
(* is a node, Null, or Freed once its node has been released.              *)
(*                                                                         *)
(* Numbers are scaled: an int has Half and a 64-bit integer Full values.   *)
(* A double is an integer or Tiny, a value below the six decimals that     *)
(* print_double writes.  Allocation succeeds.                              *)
(***************************************************************************)
EXTENDS Integers, Sequences, FiniteSets, TLC

CONSTANTS
    Name,      \* spellings of keys
    Lower,     \* Lower[k]: the key without its case
    Tiny,      \* a double that prints as 0.000000
    Half,      \* values of int32 and uint32 (2^32)
    Full,      \* values of int64 and uint64 (2^64)
    Node,      \* bound: the nodes malloc can give
    Null,      \* the null pointer
    Freed      \* a pointer to a released node

ASSUME CJsonAssumption ==
    /\ DOMAIN Lower = Name
    /\ {Half, Full} \subseteq Nat
    /\ 1 < Half /\ Half <= Full
    /\ Null # Freed /\ {Null, Freed} \cap Node = {}

\* Ghost: the type and value a caller stored in a node.
NoPut == [as |-> "nothing", v |-> 0]

\* What print and parse keep on every platform: not a 64-bit value that needs
\* more than an int, nor a real below the printed decimals.
Portable(put) ==
    /\ put.as \in {"int64", "uint64"} => -Half <= 2 * put.v /\ 2 * put.v < Half
    /\ put.as = "real" => put.v # Tiny

\* A node as cJSON_New_Item leaves it, and the place of a released node.
Blank == [type |-> "free", name |-> "", child |-> Null, next |-> Null, prev |-> Null,
          int |-> 0, dbl |-> 0, sign |-> 0, put |-> NoPut]

Unsigned(v, size) == v % size
Signed(v, size) == LET u == v % size IN IF 2 * u < size THEN u ELSE u - size

-----------------------------------------------------------------------------
(***************************************************************************)
(* The fields the cJSON_Create functions fill in.                          *)
(***************************************************************************)
Plain(type) == [type |-> type, int |-> 0, dbl |-> 0, sign |-> 0]

CreateNull       == Plain("NULL")
CreateBool(b)    == Plain(IF b THEN "True" ELSE "False")
CreateString     == Plain("String")
CreateArray      == Plain("Array")
CreateObject     == Plain("Object")

\* The argument is a uint64: the double of a negative number is its bit pattern.
CreateInt(v, sign) ==
    [type |-> "Int", int |-> Signed(v, Full), dbl |-> Unsigned(v, Full), sign |-> sign]
CreateDouble(d, sign) ==
    [type |-> "Double", int |-> IF d = Tiny THEN 0 ELSE d, dbl |-> d, sign |-> sign]

\* print_int: what the text says.  "%ld" and "%lu" take 32 bits where long has
\* 32 bits, 64 elsewhere.
PrintInt(n) ==
    IF n.sign = -1
    THEN IF Signed(n.int, Half) = n.int THEN {n.int} ELSE {n.int, Signed(n.int, Half)}
    ELSE LET u == Unsigned(n.int, Full) IN IF u < Half THEN {u} ELSE {u, Unsigned(u, Half)}

\* Mutant of ParseInt: the sign of the text is dropped.
ParseIntUnsigned(z) ==
    {[type |-> "Int", int |-> IF z < 0 THEN -z ELSE z, dbl |-> z, sign |-> 1]}

\* parse_number on an integer: beyond the int64 range the conversion from long
\* double gives the smallest or the largest value.
ParseInt(z) ==
    LET sign == IF z < 0 THEN -1 ELSE 1
        n    == sign * z
        ints == IF 2 * n < Full THEN {n} ELSE {-(Full \div 2), Full \div 2 - 1}
    IN  {[type |-> "Int", int |-> Signed(sign * i, Full), dbl |-> z, sign |-> sign] : i \in ints}

\* print_value and parse_value on one node: the node a parse of its text gives.
Reparse(n) ==
    CASE n.type = "Int"    -> UNION {ParseInt(z) : z \in PrintInt(n)}
      [] n.type = "Double" -> {CreateDouble(IF n.dbl = Tiny THEN 0 ELSE n.dbl,
                                            IF n.dbl # Tiny /\ n.dbl < 0 THEN -1 ELSE 1)}
      [] n.type = "True"   -> {[Plain("True") EXCEPT !.int = 1]}
      [] OTHER -> {Plain(n.type)}

-----------------------------------------------------------------------------
(***************************************************************************)
(* Walking the lists of a heap h.                                          *)
(***************************************************************************)
RECURSIVE Chain(_, _)
Chain(h, c) == IF c = Null THEN <<>> ELSE <<c>> \o Chain(h, h[c].next)

Kids(h, p) == Chain(h, h[p].child)

\* cJSON_Delete(c) releases the nodes after c too, and all below them.
RECURSIVE Below(_, _)
Below(h, c) ==
    IF c = Null THEN {} ELSE {c} \cup Below(h, h[c].child) \cup Below(h, h[c].next)

\* cJSON_strcasecmp; the elements of an array have no name.
SameName(a, b) == a # "" /\ Lower[a] = Lower[b]

\* cJSON_GetArrayItem and cJSON_GetObjectItem: the first match, or Null.
GetArraySize(h, p) == Len(Kids(h, p))
GetArrayItem(h, p, i) == LET s == Kids(h, p) IN IF i < Len(s) THEN s[i + 1] ELSE Null
GetObjectItem(h, p, k) ==
    LET s == SelectSeq(Kids(h, p), LAMBDA c : SameName(h[c].name, k))
    IN  IF s = <<>> THEN Null ELSE Head(s)

-----------------------------------------------------------------------------
(***************************************************************************)
(* Relinking.                                                              *)
(***************************************************************************)
AddItemToArray(h, p, n) ==
    LET s == Kids(h, p) IN
    IF s = <<>> THEN [h EXCEPT ![p].child = n]
    ELSE [h EXCEPT ![s[Len(s)]].next = n, ![n].prev = s[Len(s)]]

\* Mutant of AddItemToArrayHead: the old first item keeps an empty prev.
AddItemToArrayHeadOneWay(h, p, n) == [h EXCEPT ![n].next = h[p].child, ![p].child = n]

AddItemToArrayHead(h, p, n) ==
    LET c == h[p].child IN
    IF c = Null THEN [h EXCEPT ![p].child = n]
    ELSE [h EXCEPT ![n].prev = h[c].prev, ![n].next = c, ![c].prev = n, ![p].child = n]

AddItemToObject(h, p, k, n) == AddItemToArray([h EXCEPT ![n].name = k], p, n)

\* cJSON_DetachItemFromArray, of the item c.
DetachItem(h, p, c) ==
    LET prev == h[c].prev
        next == h[c].next
        a == IF prev # Null THEN [h EXCEPT ![prev].next = next] ELSE h
        b == IF next # Null THEN [a EXCEPT ![next].prev = prev] ELSE a
        d == IF c = h[p].child THEN [b EXCEPT ![p].child = next] ELSE b
    IN  [d EXCEPT ![c].prev = Null, ![c].next = Null]

\* Mutant of ReplaceItem: the previous item still points to the old one.
ReplaceItemKeepsNext(h, p, c, n) ==
    LET next == h[c].next
        a == [h EXCEPT ![n].next = next, ![n].prev = h[c].prev]
        b == IF next # Null THEN [a EXCEPT ![next].prev = n] ELSE a
    IN  IF c = h[p].child THEN [b EXCEPT ![p].child = n] ELSE b

\* cJSON_ReplaceItemInArray, of the item c by n; the caller releases c.
ReplaceItem(h, p, c, n) ==
    LET prev == h[c].prev
        next == h[c].next
        a == [h EXCEPT ![n].next = next, ![n].prev = prev]
        b == IF next # Null THEN [a EXCEPT ![next].prev = n] ELSE a
        d == IF c = h[p].child THEN [b EXCEPT ![p].child = n] ELSE [b EXCEPT ![prev].next = n]
    IN  [d EXCEPT ![c].next = Null, ![c].prev = Null]

\* The nodes of the tree at n, and their release.
Tree(h, n)    == IF n = Null THEN {} ELSE {n} \cup Below(h, h[n].child)
Release(h, F) == [n \in Node |-> IF n \in F THEN Blank ELSE h[n]]

-----------------------------------------------------------------------------
(***************************************************************************)
(* Allocation, and print followed by parse.                                *)
(***************************************************************************)
FreeNodes(h) == {n \in Node : h[n].type = "free"}

\* What parse_array rebuilds of a node d of the tree at n on its node To[d], from
\* the text that print_array wrote: the same items in the same order.
Links(h, n, To, d) ==
    LET at(c) == IF c \in DOMAIN To THEN To[c] ELSE Null IN
    [child |-> at(h[d].child),
     next  |-> IF d = n THEN Null ELSE at(h[d].next),
     prev  |-> IF d = n THEN Null ELSE at(h[d].prev)]

\* And what parse_object adds, from the text of print_object: a member's name.
\* The node that is printed has lost its own.
MemberName(h, n, d) == [name |-> IF d = n THEN "" ELSE h[d].name]

Carried(put) == [put |-> IF Portable(put) THEN put ELSE NoPut]

\* The heaps in which a parse has built, on the nodes To[d], what a print of the
\* tree at n says.
ParsedHeaps(h, n, To) ==
    LET D == DOMAIN To
        reparsed == {r \in [D -> UNION {Reparse(h[d]) : d \in D}] :
                         \A d \in D : r[d] \in Reparse(h[d])}
        node(r, d) == Links(h, n, To, d) @@ MemberName(h, n, d) @@ Carried(h[d].put) @@ r[d]
    IN  {[m \in Node |-> IF \E d \in D : To[d] = m
                         THEN node(r, CHOOSE d \in D : To[d] = m) ELSE h[m]] : r \in reparsed}
=============================================================================
