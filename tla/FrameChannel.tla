---------------------------- MODULE FrameChannel ----------------------------
(***************************************************************************)
(* What both programs take a connection to be: frames come out whole, once *)
(* and in the order they were sent, and every one comes out as long as the *)
(* connection stays open.  When it closes, whatever has not come out may   *)
(* be lost; a new connection starts empty.  Wire.tla shows that the framing*)
(* code implements this for the frames its reader accepts.                 *)
(***************************************************************************)
EXTENDS Naturals, Sequences

CONSTANT Frame      \* the frames that can be sent

VARIABLES sent,     \* the frames sent on this connection, oldest first
          got,      \* the frames received on this connection
          open      \* is the connection open?

chanVars == <<sent, got, open>>

Init == sent = <<>> /\ got = <<>> /\ open = TRUE

Send(f) == open /\ sent' = Append(sent, f) /\ UNCHANGED <<got, open>>

Receive == /\ Len(got) < Len(sent)
           /\ got' = Append(got, sent[Len(got) + 1])
           /\ UNCHANGED <<sent, open>>

Close == open /\ open' = FALSE /\ UNCHANGED <<sent, got>>

Reopen == ~open /\ open' = TRUE /\ sent' = <<>> /\ got' = <<>>

Next == (\E f \in Frame : Send(f)) \/ Receive \/ Close \/ Reopen

Spec == Init /\ [][Next]_chanVars /\ WF_chanVars(open /\ Receive)
=============================================================================
