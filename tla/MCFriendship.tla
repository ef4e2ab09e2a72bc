---------------------------- MODULE MCFriendship ----------------------------
(* Two users are every case the table tells apart: all its statements are   *)
(* about one pair.  One of them comes and goes: with two sessions she is at *)
(* one while the server may still keep the one before it.                  *)
EXTENDS Friendship, TLC

CONSTANTS ann, bob, s1, s2, s3

MCSlots == [u \in User |-> IF u = ann THEN {s1, s2} ELSE {s3}]

SessionSymmetry == Permutations({s1, s2})
=============================================================================
