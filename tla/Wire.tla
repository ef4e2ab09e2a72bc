-------------------------------- MODULE Wire --------------------------------
(***************************************************************************)
(* One direction of one TCP connection, byte by byte: the sender's framing *)
(* and write queue, the byte stream, and the receiver's accumulator and    *)
(* decoder.  `link` says which pair of programs is on it:                  *)
(*                                                                         *)
(*   "down"  the server's AsyncSession to the Tauri client's read task     *)
(*   "up"    TcpManager::send_json to the server's AsyncSession            *)
(*   "qt"    the legacy server's sendJson to the legacy client's socket    *)
(*                                                                         *)
(* A byte is <<k, i>>, the i-th byte of the k-th frame: what its header or *)
(* its text says follows from that.  Four bytes that are not the header of *)
(* one frame are read as a length all the same: text is at least 0x20, so  *)
(* a first byte of text spells a length above every limit; any other mix   *)
(* may spell any length.                                                   *)
(***************************************************************************)
EXTENDS Naturals, Sequences, SequencesExt

CONSTANTS Size,        \* lengths a message can have, in bytes
          ServerMax,   \* FrameCodec::MaxFrameBytes, 256 KiB
          ClientMax,   \* the limit of try_decode_frame, 4 MiB
          LegacyMax,   \* kMaxFrameBytes of decodeFrames, 4 MiB
          ReadMax,     \* the most bytes one read brings: read_buffer_, 64 KiB; buf, 8 KiB
          MaxFrames    \* bound: frames sent in a behaviour

HeaderBytes == 4

\* The server's longest frame fits the client's limit, with its header and a read.
ASSUME LimitsFit == HeaderBytes + ServerMax + ReadMax <= ClientMax

\* No message is empty: its text has a brace at least.
ASSUME SizesAssumption ==
    /\ Size \subseteq Nat \ {0}
    /\ {ServerMax, ClientMax, LegacyMax, ReadMax, MaxFrames} \subseteq Nat

VARIABLES link,       \* who is on the connection
          sent,       \* every frame ever framed: its size, and whether it is UTF-8
          first,      \* index of the first frame of this connection
          queue,      \* write_queue_: frames not yet written, by index
          offset,     \* write_offset_: bytes of the front frame already written
          writing,    \* writing_: an asynchronous write is under way
          wire,       \* bytes in the two sockets' buffers and between them
          acc,        \* read_accumulator_, accumulator, readBuffer
          reading,    \* the receiver is in its decoding loop
          got,        \* what the receiver was handed: a frame's index, or 0 for other text
          open,       \* the connection is up
          stale,      \* the connection began with bytes of the last one in acc
          overrun     \* history: a cap has emptied acc on this connection

writerVars == <<queue, offset, writing>>
vars == <<link, sent, first, queue, offset, writing, wire, acc, reading, got, open, stale, overrun>>

Links == {"down", "up", "qt"}

\* The receiver's limit.
Limit == CASE link = "up" -> ServerMax [] link = "down" -> ClientMax [] link = "qt" -> LegacyMax
\* A length above every limit.
TooLong == 1 + ServerMax + ClientMax + LegacyMax

\* Types; the offset lies within the front frame, and a write is under way exactly
\* while the queue is not empty.
TypeOK ==
    /\ link \in Links
    /\ sent \in Seq([size : Size, text : BOOLEAN])
    /\ first \in 1 .. Len(sent) + 1
    /\ queue \in Seq(first .. Len(sent))
    /\ offset \in IF queue = <<>> THEN {0} ELSE 0 .. HeaderBytes + sent[queue[1]].size - 1
    /\ writing = (queue # <<>>)
    /\ wire \in Seq((1 .. Len(sent)) \X (Nat \ {0}))
    /\ acc \in Seq((1 .. Len(sent)) \X (Nat \ {0}))
    /\ got \in Seq(0 .. Len(sent))
    /\ reading \in BOOLEAN /\ open \in BOOLEAN /\ stale \in BOOLEAN /\ overrun \in BOOLEAN

Init ==
    /\ link \in Links
    /\ sent = <<>> /\ first = 1
    /\ queue = <<>> /\ offset = 0 /\ writing = FALSE
    /\ wire = <<>> /\ acc = <<>> /\ reading = FALSE /\ got = <<>>
    /\ open = TRUE /\ stale = FALSE /\ overrun = FALSE

-----------------------------------------------------------------------------
(***************************************************************************)
(* Sending.                                                                *)
(***************************************************************************)

\* encode, encode_frame, encodeFrame: the length in four bytes, then the text.
EncodeOf(k, size) == [i \in 1 .. HeaderBytes + size |-> <<k, i>>]
Encode(k) == EncodeOf(k, sent[k].size)

\* Mutant: the new frame goes to the front of the queue.
DeliverFirst(size, text) ==
    /\ link = "down" /\ open /\ Len(sent) < MaxFrames
    /\ size <= ServerMax
    /\ sent' = Append(sent, [size |-> size, text |-> text])
    /\ queue' = <<Len(sent) + 1>> \o queue
    /\ writing' = TRUE
    /\ UNCHANGED <<link, first, offset, wire, acc, reading, got, open, stale, overrun>>

\* A frame that fits: it waits at the end of the queue, and is written at once
\* unless a write is already under way.
Deliver(size, text) ==
    /\ link = "down" /\ open /\ Len(sent) < MaxFrames
    /\ size <= ServerMax
    /\ sent' = Append(sent, [size |-> size, text |-> text])
    /\ queue' = Append(queue, Len(sent) + 1)
    /\ writing' = TRUE
    /\ UNCHANGED <<link, first, offset, wire, acc, reading, got, open, stale, overrun>>

\* A frame that does not: encode throws through the handler and out of
\* io_context::run, and TcpServer::run returns, with every connection.
DeliverTooLarge(size) ==
    /\ link = "down" /\ open
    /\ size > ServerMax
    /\ open' = FALSE /\ wire' = <<>>
    /\ queue' = <<>> /\ offset' = 0 /\ writing' = FALSE
    /\ UNCHANGED <<link, sent, first, acc, reading, got, stale, overrun>>

\* Mutant: a partial write counts as the whole frame.
WriteSomeAsAll(n) ==
    LET front == Encode(queue[1]) IN
    /\ writing /\ open
    /\ n \in 1 .. Len(front)
    /\ wire' = wire \o SubSeq(front, 1, n)
    /\ queue' = Tail(queue) /\ writing' = (Len(queue) > 1)
    /\ UNCHANGED <<link, sent, first, offset, acc, reading, got, open, stale, overrun>>

\* The write of the front frame completes with n more of its bytes: the rest of
\* the frame is next, or the next frame.
WriteSome(n) ==
    LET front == Encode(queue[1]) IN
    /\ writing /\ open
    /\ n \in 1 .. Len(front) - offset
    /\ wire' = wire \o SubSeq(front, offset + 1, offset + n)
    /\ IF offset + n < Len(front)
       THEN offset' = offset + n /\ UNCHANGED <<queue, writing>>
       ELSE offset' = 0 /\ queue' = Tail(queue) /\ writing' = (Len(queue) > 1)
    /\ UNCHANGED <<link, sent, first, acc, reading, got, open, stale, overrun>>

\* Mutant: the queue is dropped, the offset into its front frame is kept.
WriteFailsKeepsOffset ==
    /\ writing /\ ~open
    /\ queue' = <<>> /\ writing' = FALSE
    /\ UNCHANGED <<link, sent, first, offset, wire, acc, reading, got, open, stale, overrun>>

\* A write on a broken connection fails, and what is queued goes with it.
WriteFails ==
    /\ writing /\ ~open
    /\ queue' = <<>> /\ offset' = 0 /\ writing' = FALSE
    /\ UNCHANGED <<link, sent, first, wire, acc, reading, got, open, stale, overrun>>

\* send_json holds the writer's lock for the whole of write_all, and Qt keeps
\* what the socket does not take yet: a frame's bytes stay together.  Neither
\* looks at the length.
SendJson(size) ==
    /\ link \in {"up", "qt"} /\ open /\ Len(sent) < MaxFrames
    /\ sent' = Append(sent, [size |-> size, text |-> TRUE])
    /\ wire' = wire \o EncodeOf(Len(sent) + 1, size)
    /\ UNCHANGED <<link, first, queue, offset, writing, acc, reading, got, open, stale, overrun>>

-----------------------------------------------------------------------------
(***************************************************************************)
(* Receiving.                                                              *)
(***************************************************************************)

\* One read: some of the bytes that have arrived, as many as the buffer takes.
ReadSome(n) ==
    /\ ~reading /\ n \in 1 .. Len(wire)
    /\ acc' = acc \o SubSeq(wire, 1, n)
    /\ wire' = SubSeq(wire, n + 1, Len(wire))
    /\ reading' = TRUE
    /\ UNCHANGED <<link, sent, first, queue, offset, writing, got, open, stale, overrun>>

IsText(b) == b[2] > HeaderBytes
\* The text of every message starts with a brace.
IsBrace(b) == b[2] = HeaderBytes + 1
\* A header's first byte is 0 for every length up to 16 MiB, the others are anything.
MayBeBrace(b) == IsBrace(b) \/ b[2] \in 2 .. HeaderBytes

\* The lengths the first four bytes of the accumulator can spell, none if there
\* are fewer.
Spelled ==
    LET k == acc[1][1] IN
    IF Len(acc) < HeaderBytes THEN {}
    ELSE IF \A i \in 1 .. HeaderBytes : acc[i] = <<k, i>> THEN {sent[k].size}
    ELSE IF IsText(acc[1]) THEN {TooLong}
    ELSE (0 .. Limit) \cup {TooLong}

Valid(len) == len > 0 /\ len <= Limit

\* The frame whose text these bytes are, or 0.
MessageOf(bytes) ==
    LET k == bytes[1][1] IN
    IF bytes = SubSeq(Encode(k), HeaderBytes + 1, HeaderBytes + sent[k].size) THEN k ELSE 0

\* Mutant: no cap.
CappedNever(bytes) == bytes

\* After the loop the two readers drop an accumulator above the limit; the
\* legacy one has no such cap.
Capped(bytes) == IF link # "qt" /\ Len(bytes) > Limit THEN <<>> ELSE bytes

\* No whole frame is left: the loop ends.
NeedMore ==
    /\ reading
    /\ \/ Len(acc) < HeaderBytes
       \/ \E len \in Spelled : Valid(len) /\ Len(acc) < HeaderBytes + len
    /\ ~(link = "qt" /\ acc # <<>> /\ IsBrace(acc[1]))
    /\ acc' = Capped(acc)
    /\ overrun' = (overrun \/ Len(acc') < Len(acc))
    /\ reading' = FALSE
    /\ UNCHANGED <<link, sent, first, queue, offset, writing, wire, got, open, stale>>

\* A length of zero or above the limit empties the accumulator.  The server says
\* nothing; the client hands an error frame on and decodes again; the legacy
\* decoder hands on the whole buffer.
BadLength ==
    /\ reading
    /\ \E len \in Spelled : ~Valid(len)
    /\ acc' = <<>>
    /\ got' = IF link = "up" THEN got ELSE Append(got, IF link = "qt" THEN MessageOf(acc) ELSE 0)
    /\ reading' = (link = "down")
    /\ UNCHANGED <<link, sent, first, queue, offset, writing, wire, open, stale, overrun>>

\* The legacy decoder takes a buffer that starts with a brace for one bare message.
BareMessage ==
    /\ reading /\ link = "qt" /\ acc # <<>> /\ MayBeBrace(acc[1])
    /\ got' = Append(got, MessageOf(acc))
    /\ acc' = <<>>
    /\ reading' = FALSE
    /\ UNCHANGED <<link, sent, first, queue, offset, writing, wire, open, stale, overrun>>

\* A whole frame leaves the accumulator.  The client turns it into a string: text
\* that is not UTF-8 is dropped and ends its loop, whatever is behind it.
TakeFrame ==
    /\ reading
    /\ \E len \in Spelled :
        /\ Valid(len) /\ Len(acc) >= HeaderBytes + len
        /\ ~(link = "qt" /\ IsBrace(acc[1]))
        /\ LET m == MessageOf(SubSeq(acc, HeaderBytes + 1, HeaderBytes + len))
               rest == SubSeq(acc, HeaderBytes + len + 1, Len(acc))
               none == link = "down" /\ m # 0 /\ ~sent[m].text IN
           /\ got' = IF none THEN got ELSE Append(got, m)
           /\ acc' = IF none THEN Capped(rest) ELSE rest
           /\ overrun' = (overrun \/ Len(acc') < Len(rest))
           /\ reading' = ~none
    /\ UNCHANGED <<link, sent, first, queue, offset, writing, wire, open, stale>>

Decode == NeedMore \/ BadLength \/ BareMessage \/ TakeFrame

-----------------------------------------------------------------------------
(***************************************************************************)
(* The connection.                                                         *)
(***************************************************************************)

\* The connection breaks or is closed.  What has not been read is lost: bytes a
\* receiver still reads after a close are the bytes it read before it.
Cut ==
    /\ open
    /\ wire' = <<>>
    /\ open' = FALSE
    /\ UNCHANGED <<link, sent, first, queue, offset, writing, acc, reading, got, stale, overrun>>

\* A new connection has a session, a read task and an accumulator of its own;
\* the legacy client's socket is one object for the life of the program, and
\* connecting again leaves its readBuffer as it was.
Reconnect ==
    /\ ~open /\ ~reading
    /\ open' = TRUE
    /\ first' = Len(sent) + 1
    /\ queue' = <<>> /\ offset' = 0 /\ writing' = FALSE
    /\ wire' = <<>> /\ got' = <<>>
    /\ acc' = IF link = "qt" THEN acc ELSE <<>>
    /\ stale' = (acc' # <<>>) /\ overrun' = FALSE
    /\ UNCHANGED <<link, sent, reading>>

Write == \E n \in 1 .. HeaderBytes + ServerMax : WriteSome(n)
Read  == \E n \in 1 .. ReadMax : ReadSome(n)

Next ==
    \/ \E size \in Size, text \in BOOLEAN : Deliver(size, text)
    \/ \E size \in Size : DeliverTooLarge(size) \/ SendJson(size)
    \/ Write \/ WriteFails
    \/ Read
    \/ NeedMore \/ BadLength \/ BareMessage \/ TakeFrame
    \/ Cut \/ Reconnect

\* io_context and the client's runtime complete the writes and reads that can be
\* completed; nobody has to send, and no connection has to break or come back.
Spec == Init /\ [][Next]_vars /\ WF_vars(Write) /\ WF_vars(Read) /\ WF_vars(Decode)

-----------------------------------------------------------------------------
(***************************************************************************)
(* Properties.                                                             *)
(***************************************************************************)

\* The frames the receiver of this link takes in every case: on the way to the
\* server those that fit its limit with their header, on the way to the client
\* those that are UTF-8, in the legacy program those within the limit.
Readable(f) ==
    \/ link = "up" /\ HeaderBytes + f.size <= ServerMax
    \/ link = "down" /\ f.text
    \/ link = "qt" /\ f.size <= LegacyMax

\* The frames of this connection up to the first that is not readable; none if
\* the connection began with stale bytes.
Promised ==
    LET own == [i \in 1 .. Len(sent) - first + 1 |-> first + i - 1]
        good == {i \in 0 .. Len(own) : \A j \in 1 .. i : Readable(sent[own[j]])}
    IN  IF stale THEN <<>> ELSE SubSeq(own, 1, CHOOSE i \in good : \A j \in good : j <= i)

Channel == INSTANCE FrameChannel WITH
    Frame <- 1 .. MaxFrames,
    sent <- Promised,
    got <- SubSeq(got, 1, IF Len(got) < Len(Promised) THEN Len(got) ELSE Len(Promised))

\* The framing code implements the abstract channel: whatever the sizes of the
\* partial writes and reads, the frames before the first unreadable one arrive
\* whole, once, in order, and all of them while the connection stays open
\* (AsyncSession::doWrite, doRead, the read task of TcpManager::connect,
\* decodeFrames).
ChannelSpec == Channel!Spec

\* No receiver holds more than its limit between two reads, whatever length a
\* header claims (the caps of AsyncSession.cpp:60 and tcp_manager.rs:69; the legacy
\* decoder may hold one incomplete frame of the largest size).
BufferBounded == ~reading => Len(acc) <= IF link = "qt" THEN Limit + HeaderBytes - 1 ELSE Limit

\* Whatever is sent and whenever the connection breaks, the client is never handed
\* text the server did not send, nor a frame twice or out of order: an unreadable
\* frame costs that frame only.  The exception is the cap of tcp_manager.rs:69, which
\* empties the accumulator in the middle of a frame.  Frames of text alone never
\* reach it; the decoding loop ends at an unreadable one, and what is behind such
\* frames can pile up.
ClientNeverGarbled ==
    link = "down" =>
        /\ overrun => \E k \in first .. Len(sent) : ~sent[k].text
        /\ ~overrun => /\ \A i \in 1 .. Len(got) : got[i] >= first
                       /\ \A i \in 1 .. Len(got) - 1 : got[i] < got[i + 1]
=============================================================================
