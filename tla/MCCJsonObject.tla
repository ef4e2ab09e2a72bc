---- MODULE MCCJsonObject ----
(* CJsonObject for TLC: callers that spell one key in two ways, that use       *)
(* positions, that walk several keys, and that store every type of scalar.     *)
EXTENDS CJsonObject
MCLower == [k \in Name |-> IF k = "A" THEN "a" ELSE k]
MCSymmetry == Permutations(Node)
MCInts == {-8, -2, 3, 15}
MCReals == {Tiny, -3}
MCCallers ==
    {[kinds |-> {"string"}, names |-> {"a", "A"}, index |-> {}, wraps |-> 1, nodes |-> 3, leaks |-> 2],
     [kinds |-> {"string"}, names |-> {}, index |-> {0, 1}, wraps |-> 1, nodes |-> 4, leaks |-> 1],
     [kinds |-> {"string"}, names |-> Name, index |-> {}, wraps |-> 0, nodes |-> 4, leaks |-> 1],
     [kinds |-> {"string", "null", "bool", "int32", "uint32", "int64", "uint64", "real"},
      names |-> {"a"}, index |-> {0}, wraps |-> 1, nodes |-> 3, leaks |-> 1]}
====
