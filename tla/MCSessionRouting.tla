-------------------------- MODULE MCSessionRouting --------------------------
(* Two friends and a few sessions: double logins, logins of both users on   *)
(* one connection, a full pool and frames after a rate-limit removal.       *)
EXTENDS SessionRouting, TLC

CONSTANTS ann, bob

MCFriends == (ann :> {bob}) @@ (bob :> {ann})
SessionSymmetry == Permutations(Session)
=============================================================================
