---------------------------- MODULE MCMessaging -----------------------------
(* Two users, one group and a limit of one message, so that an offline push *)
(* leaves a message behind.                                                 *)
EXTENDS Messaging, TLC

UserSymmetry == Permutations(User)
=============================================================================
