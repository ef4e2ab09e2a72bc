------------------------------ MODULE MCOutbox ------------------------------
(* Two messages, so that one is composed while the other is being sent, and *)
(* two connections, so that the flush runs after a reconnect.               *)
EXTENDS Outbox

MsgSymmetry == Permutations(Msg)
=============================================================================
