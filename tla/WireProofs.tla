----------------------------- MODULE WireProofs -----------------------------
(***************************************************************************)
(* Framing for messages, limits, partial writes and reads of any size: the *)
(* types, the bound on every receiver's buffer, that the client is handed  *)
(* the server's frames and nothing else, and that the bytes, read and      *)
(* written in pieces, implement the channel of whole frames.               *)
(***************************************************************************)
EXTENDS Wire, SequenceTheorems, WellFoundedInduction, TLAPS

\* The bytes of the first n frames.
Byte(n) == (1 .. n) \X (Nat \ {0})

(* The limits, link by link.                                               *)
LEMMA LimitIs ==
    /\ link = "up" => Limit = ServerMax
    /\ link = "down" => Limit = ClientMax
    /\ link = "qt" => Limit = LegacyMax
<1>1. link = "up" => Limit = ServerMax
  BY Zenon DEF Limit
<1>2. link = "down" => Limit = ClientMax
  BY Zenon DEF Limit
<1>3. link = "qt" => Limit = LegacyMax
  BY Zenon DEF Limit
<1>. QED BY <1>1, <1>2, <1>3

(* The limit of a link is a natural number below the length that text spells. *)
LEMMA LimitTyped ==
    ASSUME link \in Links
    PROVE  Limit \in Nat /\ TooLong \in Nat /\ ~(TooLong <= Limit)
BY LimitIs, SizesAssumption DEF Links, TooLong

(* A byte names its frame and its place in it. *)
LEMMA ByteIs ==
    ASSUME NEW n \in Nat, NEW b \in Byte(n)
    PROVE  b = <<b[1], b[2]>> /\ b[1] \in 1 .. n /\ b[2] \in Nat \ {0}
BY DEF Byte

(* A sequence over a set is one over a larger set.                         *)
LEMMA SeqMono ==
    ASSUME NEW A, NEW B, A \subseteq B, NEW s \in Seq(A)
    PROVE  s \in Seq(B)
<1>1. Len(s) \in Nat /\ s \in [1 .. Len(s) -> A]
  OBVIOUS
<1>2. s \in [1 .. Len(s) -> B]
  BY <1>1
<1>. QED BY <1>1, <1>2, SeqDef

(* The empty sequence, and a longer one.                                   *)
LEMMA EmptyTyped ==
    ASSUME NEW S
    PROVE  <<>> \in Seq(S)
OBVIOUS

(* The first element of a sequence is one of its elements. *)
LEMMA FirstTyped ==
    ASSUME NEW S, NEW s \in Seq(S), s # <<>>
    PROVE  s[1] \in S
OBVIOUS

(* Appending an element keeps a sequence over the same set. *)
LEMMA AppendTyped ==
    ASSUME NEW S, NEW s \in Seq(S), NEW x \in S
    PROVE  Append(s, x) \in Seq(S)
OBVIOUS

(* A byte of the frames so far stays one when a frame is added. *)
LEMMA ByteMono ==
    ASSUME NEW n \in Nat, NEW m \in Nat, n <= m
    PROVE  Byte(n) \subseteq Byte(m)
BY DEF Byte

(* A part of a sequence.                                                   *)
LEMMA PartIs ==
    ASSUME NEW S, NEW s \in Seq(S), NEW a \in Nat \ {0}, NEW b \in Nat, b <= Len(s), a <= b + 1
    PROVE  /\ SubSeq(s, a, b) \in Seq(S) /\ Len(SubSeq(s, a, b)) = b - a + 1
           /\ \A i \in 1 .. b - a + 1 : SubSeq(s, a, b)[i] = s[a + i - 1]
<1>1. \A i \in a .. b : s[i] \in S
  OBVIOUS
<1>2. a \in Int /\ b \in Int
  OBVIOUS
<1>. QED BY <1>1, <1>2, SubSeqProperties

(* What encode makes of a message.                                         *)
LEMMA EncodeIs ==
    ASSUME NEW k \in Nat \ {0}, NEW size \in Nat, NEW n \in Nat, k <= n
    PROVE  /\ EncodeOf(k, size) \in Seq(Byte(n)) /\ Len(EncodeOf(k, size)) = HeaderBytes + size
           /\ \A i \in 1 .. HeaderBytes + size : EncodeOf(k, size)[i] = <<k, i>>
<1> DEFINE e == EncodeOf(k, size)
<1>1. HeaderBytes + size \in Nat
  BY DEF HeaderBytes
<1>2. \A i \in 1 .. HeaderBytes + size : <<k, i>> \in Byte(n)
  BY <1>1 DEF Byte
<1>3. e \in [1 .. HeaderBytes + size -> Byte(n)] /\ \A i \in 1 .. HeaderBytes + size : e[i] = <<k, i>>
  BY <1>2 DEF EncodeOf
<1>4. e \in Seq(Byte(n))
  BY <1>1, <1>3, SeqDef
<1>. HIDE DEF e
<1>5. Len(e) = HeaderBytes + size
  BY <1>1, <1>3, <1>4
<1>. QED BY <1>3, <1>4, <1>5 DEF e

(* What the decoder takes some bytes for.                                  *)
LEMMA MessageTyped ==
    ASSUME NEW bytes \in Seq(Byte(Len(sent))), bytes # <<>>, Len(sent) \in Nat
    PROVE  MessageOf(bytes) \in 0 .. Len(sent)
<1>1. bytes[1] \in Byte(Len(sent))
  OBVIOUS
<1>2. bytes[1][1] \in 1 .. Len(sent)
  BY <1>1, ByteIs
<1>. QED BY <1>2 DEF MessageOf

-----------------------------------------------------------------------------
(* Types.                                                                  *)

Frame == [size : Size, text : BOOLEAN]

\* The offset lies within the front frame of the queue q.
InFront(o, q, s) == o \in IF q = <<>> THEN {0} ELSE 0 .. HeaderBytes + s[q[1]].size - 1

(* The type invariant, with the facts about lengths that the steps use. *)
LEMMA Typed ==
    ASSUME TypeOK
    PROVE  /\ link \in Links /\ sent \in Seq(Frame) /\ Len(sent) \in Nat
           /\ first \in 1 .. Len(sent) + 1 /\ queue \in Seq(first .. Len(sent))
           /\ InFront(offset, queue, sent) /\ offset \in Nat
           /\ wire \in Seq(Byte(Len(sent))) /\ acc \in Seq(Byte(Len(sent)))
           /\ got \in Seq(0 .. Len(sent)) /\ Len(queue) \in Nat /\ Len(wire) \in Nat /\ Len(acc) \in Nat
<1>1. /\ link \in Links /\ sent \in Seq(Frame) /\ Len(sent) \in Nat
      /\ first \in 1 .. Len(sent) + 1 /\ queue \in Seq(first .. Len(sent))
      /\ InFront(offset, queue, sent)
      /\ wire \in Seq(Byte(Len(sent))) /\ acc \in Seq(Byte(Len(sent)))
      /\ got \in Seq(0 .. Len(sent))
  BY DEF TypeOK, Frame, Byte, InFront
<1>2. offset \in Nat
  <2>1. CASE queue = <<>>
    BY <1>1, <2>1 DEF InFront
  <2>2. CASE queue # <<>>
    BY <1>1, <2>2 DEF InFront, HeaderBytes
  <2>. QED BY <2>1, <2>2
<1>3. Len(queue) \in Nat /\ Len(wire) \in Nat /\ Len(acc) \in Nat
  BY <1>1
<1>. QED BY <1>1, <1>2, <1>3

(* The frame at the front of the queue.                                    *)
LEMMA FrontIs ==
    ASSUME TypeOK, queue # <<>>
    PROVE  /\ queue[1] \in first .. Len(sent) /\ queue[1] \in 1 .. Len(sent)
           /\ sent[queue[1]].size \in Nat \ {0}
           /\ Encode(queue[1]) \in Seq(Byte(Len(sent)))
           /\ Len(Encode(queue[1])) = HeaderBytes + sent[queue[1]].size
           /\ \A i \in 1 .. HeaderBytes + sent[queue[1]].size : Encode(queue[1])[i] = <<queue[1], i>>
           /\ offset < HeaderBytes + sent[queue[1]].size
<1> DEFINE q == queue[1]
<1>0. sent \in Seq(Frame) /\ Len(sent) \in Nat /\ first \in 1 .. Len(sent) + 1 /\ InFront(offset, queue, sent)
  BY Typed
<1>1. q \in first .. Len(sent)
  BY Typed
<1>2. q \in 1 .. Len(sent) /\ q \in Nat \ {0} /\ q <= Len(sent)
  BY <1>0, <1>1
<1>. HIDE DEF q
<1>3. sent[q] \in Frame
  BY <1>0, <1>2
<1>4. sent[q].size \in Nat \ {0}
  BY <1>3, SizesAssumption DEF Frame
<1>5. /\ EncodeOf(q, sent[q].size) \in Seq(Byte(Len(sent)))
      /\ Len(EncodeOf(q, sent[q].size)) = HeaderBytes + sent[q].size
      /\ \A i \in 1 .. HeaderBytes + sent[q].size : EncodeOf(q, sent[q].size)[i] = <<q, i>>
  BY <1>0, <1>2, <1>4, EncodeIs
<1>6. offset < HeaderBytes + sent[q].size
  BY <1>0, <1>4 DEF InFront, HeaderBytes, q
<1>. QED BY <1>1, <1>2, <1>4, <1>5, <1>6 DEF q, Encode

(* A new frame leaves the old ones as they were.                           *)
LEMMA SentGrows ==
    ASSUME TypeOK, NEW r \in Frame, sent' = Append(sent, r)
    PROVE  /\ sent' \in Seq(Frame) /\ Len(sent') = Len(sent) + 1
           /\ \A k \in 1 .. Len(sent) : sent'[k] = sent[k]
           /\ sent'[Len(sent) + 1] = r
           /\ first \in 1 .. Len(sent') + 1
           /\ queue \in Seq(first .. Len(sent')) /\ Len(sent') \in first .. Len(sent')
           /\ wire \in Seq(Byte(Len(sent'))) /\ acc \in Seq(Byte(Len(sent')))
           /\ got \in Seq(0 .. Len(sent'))
<1>0. /\ sent \in Seq(Frame) /\ Len(sent) \in Nat
      /\ first \in 1 .. Len(sent) + 1 /\ queue \in Seq(first .. Len(sent))
      /\ wire \in Seq(Byte(Len(sent))) /\ acc \in Seq(Byte(Len(sent)))
      /\ got \in Seq(0 .. Len(sent))
  BY Typed
<1>1. /\ sent' \in Seq(Frame) /\ Len(sent') = Len(sent) + 1
      /\ \A k \in 1 .. Len(sent) : sent'[k] = sent[k]
      /\ sent'[Len(sent) + 1] = r
  <2> DEFINE F == Frame
  <2>. HIDE DEF F
  <2>1. sent \in Seq(F) /\ r \in F
    BY <1>0 DEF F
  <2>2. /\ sent' \in Seq(F) /\ Len(sent') = Len(sent) + 1
        /\ \A k \in 1 .. Len(sent) : sent'[k] = sent[k]
        /\ sent'[Len(sent) + 1] = r
    BY <2>1
  <2>. QED BY <2>2 DEF F
<1>2. /\ first .. Len(sent) \subseteq first .. Len(sent') /\ 0 .. Len(sent) \subseteq 0 .. Len(sent')
      /\ first \in 1 .. Len(sent') + 1 /\ Len(sent') \in first .. Len(sent')
      /\ Len(sent') \in Nat /\ Len(sent) <= Len(sent')
  BY <1>0, <1>1
<1>3. Byte(Len(sent)) \subseteq Byte(Len(sent'))
  BY <1>0, <1>2, ByteMono
<1>4. queue \in Seq(first .. Len(sent')) /\ got \in Seq(0 .. Len(sent'))
  BY <1>0, <1>2, SeqMono
<1>5. wire \in Seq(Byte(Len(sent'))) /\ acc \in Seq(Byte(Len(sent')))
  BY <1>0, <1>3, SeqMono
<1>. QED BY <1>1, <1>2, <1>4, <1>5

(* The first bytes of the accumulator, when a length can be read.          *)
LEMMA SpelledTyped ==
    ASSUME TypeOK, NEW len \in Spelled
    PROVE  Len(acc) >= HeaderBytes /\ len \in Nat
<1>1. Len(acc) >= HeaderBytes
  BY Typed DEF Spelled, HeaderBytes
<1>2. acc[1] \in Byte(Len(sent))
  BY <1>1, Typed DEF HeaderBytes
<1>3. acc[1][1] \in 1 .. Len(sent)
  BY <1>2, ByteIs, Typed
<1>4. sent[acc[1][1]] \in Frame
  BY <1>3, Typed
<1>5. sent[acc[1][1]].size \in Nat
  BY <1>4, SizesAssumption DEF Frame
<1>6. Limit \in Nat /\ TooLong \in Nat
  BY LimitTyped, Typed
<1>7. \/ len = sent[acc[1][1]].size
      \/ len = TooLong
      \/ len \in 0 .. Limit
  BY Zenon DEF Spelled
<1>. QED BY <1>1, <1>5, <1>6, <1>7

(* A whole frame: its text, and what is behind it.                         *)
LEMMA TakenTyped ==
    ASSUME TypeOK, NEW len \in Spelled, Valid(len), Len(acc) >= HeaderBytes + len
    PROVE  /\ MessageOf(SubSeq(acc, HeaderBytes + 1, HeaderBytes + len)) \in 0 .. Len(sent)
           /\ SubSeq(acc, HeaderBytes + len + 1, Len(acc)) \in Seq(Byte(Len(sent)))
           /\ Len(SubSeq(acc, HeaderBytes + len + 1, Len(acc))) = Len(acc) - (HeaderBytes + len)
<1>1. len \in Nat \ {0}
  BY SpelledTyped DEF Valid
<1>2. acc \in Seq(Byte(Len(sent))) /\ Len(acc) \in Nat /\ Len(sent) \in Nat
  BY Typed
<1>3. /\ HeaderBytes + 1 \in Nat \ {0} /\ HeaderBytes + len \in Nat /\ HeaderBytes + len <= Len(acc)
      /\ HeaderBytes + 1 <= HeaderBytes + len + 1 /\ HeaderBytes + len + 1 \in Nat \ {0}
      /\ HeaderBytes + len + 1 <= Len(acc) + 1
  BY <1>1, <1>2 DEF HeaderBytes
<1> DEFINE b == SubSeq(acc, HeaderBytes + 1, HeaderBytes + len)
           r == SubSeq(acc, HeaderBytes + len + 1, Len(acc))
<1>4. b \in Seq(Byte(Len(sent))) /\ Len(b) = (HeaderBytes + len) - (HeaderBytes + 1) + 1
  <2> DEFINE S == Byte(Len(sent))
             x == HeaderBytes + 1
             y == HeaderBytes + len
  <2>1. acc \in Seq(S) /\ x \in Nat \ {0} /\ y \in Nat /\ y <= Len(acc) /\ x <= y + 1
    BY <1>2, <1>3
  <2>. HIDE DEF S, x, y
  <2>2. SubSeq(acc, x, y) \in Seq(S) /\ Len(SubSeq(acc, x, y)) = y - x + 1
    BY <2>1, PartIs
  <2>3. SubSeq(acc, x, y) = b
    BY Zenon DEF x, y
  <2>4. b \in Seq(S) /\ Len(b) = y - x + 1
    BY <2>2, <2>3, Zenon
  <2>. HIDE DEF b
  <2>. QED BY <2>4, Zenon DEF S, x, y
<1>5. r \in Seq(Byte(Len(sent))) /\ Len(r) = Len(acc) - (HeaderBytes + len + 1) + 1
  BY <1>2, <1>3, PartIs
<1>. HIDE DEF b, r
<1>6. b # <<>>
  BY <1>1, <1>4 DEF HeaderBytes
<1>7. MessageOf(b) \in 0 .. Len(sent)
  BY <1>2, <1>4, <1>6, MessageTyped
<1>8. Len(r) = Len(acc) - (HeaderBytes + len)
  BY <1>1, <1>2, <1>5 DEF HeaderBytes
<1>. QED BY <1>5, <1>7, <1>8 DEF b, r

(* The cap leaves an accumulator as it is or empties it. *)
LEMMA CappedTyped ==
    ASSUME NEW S, NEW s \in Seq(S)
    PROVE  Capped(s) \in Seq(S) /\ (Capped(s) = s \/ Capped(s) = <<>>)
BY DEF Capped

(* The bytes of one write.                                                 *)
LEMMA WrittenIs ==
    ASSUME TypeOK, writing, NEW n \in 1 .. Len(Encode(queue[1])) - offset
    PROVE  LET p == SubSeq(Encode(queue[1]), offset + 1, offset + n)
           IN  /\ p \in Seq(Byte(Len(sent))) /\ Len(p) = n
               /\ \A i \in 1 .. n : p[i] = <<queue[1], offset + i>>
<1> DEFINE e == Encode(queue[1])
           S == Byte(Len(sent))
           L == HeaderBytes + sent[queue[1]].size
<1>1. queue # <<>> /\ offset \in Nat
  BY Typed DEF TypeOK
<1>2. e \in Seq(S) /\ Len(e) = L /\ (\A i \in 1 .. L : e[i] = <<queue[1], i>>) /\ offset < L
  BY <1>1, FrontIs
<1>3. L \in Nat
  BY <1>2
<1>4. n \in 1 .. Len(e) - offset
  OBVIOUS
<1>. HIDE DEF e, S, L
<1>5. /\ n \in Nat \ {0} /\ offset + 1 \in Nat \ {0} /\ offset + n \in Nat /\ offset + n <= Len(e)
      /\ offset + 1 <= (offset + n) + 1
  BY <1>1, <1>2, <1>3, <1>4
<1> DEFINE x == offset + 1
           y == offset + n
<1>6. /\ x \in Nat \ {0} /\ y \in Nat /\ y <= Len(e) /\ x <= y + 1 /\ y - x + 1 = n
      /\ \A i \in 1 .. n : x + i - 1 = offset + i /\ offset + i \in 1 .. L
  BY <1>1, <1>2, <1>3, <1>5
<1>. HIDE DEF x, y
<1>7. /\ SubSeq(e, x, y) \in Seq(S) /\ Len(SubSeq(e, x, y)) = y - x + 1
      /\ \A i \in 1 .. y - x + 1 : SubSeq(e, x, y)[i] = e[x + i - 1]
  BY <1>2, <1>6, PartIs
<1>8. \A i \in 1 .. n : SubSeq(e, x, y)[i] = <<queue[1], offset + i>>
  BY <1>2, <1>6, <1>7
<1>. QED BY <1>6, <1>7, <1>8 DEF e, S, x, y

(* One read takes bytes from the front of the wire.                        *)
LEMMA ReadIs ==
    ASSUME TypeOK, NEW n \in 1 .. Len(wire)
    PROVE  /\ SubSeq(wire, 1, n) \in Seq(Byte(Len(sent))) /\ Len(SubSeq(wire, 1, n)) = n
           /\ \A i \in 1 .. n : SubSeq(wire, 1, n)[i] = wire[i]
           /\ SubSeq(wire, n + 1, Len(wire)) \in Seq(Byte(Len(sent)))
           /\ Len(SubSeq(wire, n + 1, Len(wire))) = Len(wire) - n
           /\ \A i \in 1 .. Len(wire) - n : SubSeq(wire, n + 1, Len(wire))[i] = wire[n + i]
<1> DEFINE S == Byte(Len(sent))
           x == n + 1
           l == Len(wire)
<1>1. wire \in Seq(S) /\ l \in Nat /\ n \in 1 .. l
  BY Typed
<1>. HIDE DEF S
<1>2. /\ 1 \in Nat \ {0} /\ n \in Nat /\ n <= l /\ 1 <= n + 1 /\ n - 1 + 1 = n /\ \A i \in 1 .. n : 1 + i - 1 = i
      /\ x \in Nat \ {0} /\ x <= l + 1 /\ l <= l /\ l - x + 1 = l - n /\ \A i \in 1 .. l - n : x + i - 1 = n + i
  BY <1>1
<1>3. /\ SubSeq(wire, 1, n) \in Seq(S) /\ Len(SubSeq(wire, 1, n)) = n - 1 + 1
      /\ \A i \in 1 .. n - 1 + 1 : SubSeq(wire, 1, n)[i] = wire[1 + i - 1]
  BY <1>1, <1>2, PartIs
<1>. HIDE DEF x
<1>4. /\ SubSeq(wire, x, l) \in Seq(S) /\ Len(SubSeq(wire, x, l)) = l - x + 1
      /\ \A i \in 1 .. l - x + 1 : SubSeq(wire, x, l)[i] = wire[x + i - 1]
  BY <1>1, <1>2, PartIs
<1>5. Len(SubSeq(wire, 1, n)) = n /\ \A i \in 1 .. n : SubSeq(wire, 1, n)[i] = wire[i]
  BY <1>2, <1>3
<1>6. Len(SubSeq(wire, x, l)) = l - n /\ \A i \in 1 .. l - n : SubSeq(wire, x, l)[i] = wire[n + i]
  BY <1>2, <1>4
<1>. QED BY <1>3, <1>4, <1>5, <1>6 DEF S, x

(* Every step keeps the types.                                             *)
LEMMA TypeNext == TypeOK /\ [Next]_vars => TypeOK'
<1> SUFFICES ASSUME TypeOK, [Next]_vars PROVE TypeOK'
  OBVIOUS
<1>0. /\ link \in Links /\ sent \in Seq(Frame) /\ Len(sent) \in Nat
      /\ first \in 1 .. Len(sent) + 1 /\ queue \in Seq(first .. Len(sent))
      /\ InFront(offset, queue, sent) /\ offset \in Nat
      /\ wire \in Seq(Byte(Len(sent))) /\ acc \in Seq(Byte(Len(sent)))
      /\ got \in Seq(0 .. Len(sent)) /\ Len(queue) \in Nat /\ Len(wire) \in Nat /\ Len(acc) \in Nat
  BY Typed
<1>1. writing = (queue # <<>>) /\ reading \in BOOLEAN /\ open \in BOOLEAN /\ stale \in BOOLEAN /\ overrun \in BOOLEAN
  BY DEF TypeOK
\* TypeOK in the words of this module.
<1>2. ASSUME link' \in Links, sent' \in Seq(Frame),
             first' \in 1 .. Len(sent') + 1, queue' \in Seq(first' .. Len(sent')),
             InFront(offset', queue', sent'), writing' = (queue' # <<>>),
             wire' \in Seq(Byte(Len(sent'))), acc' \in Seq(Byte(Len(sent'))),
             got' \in Seq(0 .. Len(sent')),
             reading' \in BOOLEAN, open' \in BOOLEAN, stale' \in BOOLEAN, overrun' \in BOOLEAN
      PROVE  TypeOK'
  BY <1>2 DEF TypeOK, Frame, Byte, InFront
<1>3. ASSUME NEW size \in Size, NEW text \in BOOLEAN, Deliver(size, text) PROVE TypeOK'
  <2> DEFINE r == [size |-> size, text |-> text]
  <2>1. r \in Frame
    BY DEF Frame
  <2>2. /\ sent' = Append(sent, r) /\ queue' = Append(queue, Len(sent) + 1)
        /\ UNCHANGED <<link, first, offset, wire, acc, reading, got, open, stale, overrun>>
    BY <1>3 DEF Deliver
  <2>3. writing' = TRUE
    BY <1>3 DEF Deliver
  <2>. HIDE DEF r
  <2>4. /\ sent' \in Seq(Frame) /\ Len(sent') = Len(sent) + 1
        /\ \A k \in 1 .. Len(sent) : sent'[k] = sent[k]
        /\ sent'[Len(sent) + 1] = r
        /\ first \in 1 .. Len(sent') + 1
        /\ queue \in Seq(first .. Len(sent')) /\ Len(sent') \in first .. Len(sent')
        /\ wire \in Seq(Byte(Len(sent'))) /\ acc \in Seq(Byte(Len(sent')))
        /\ got \in Seq(0 .. Len(sent'))
    BY <2>1, <2>2, SentGrows
  <2>5. /\ queue' \in Seq(first .. Len(sent')) /\ queue' # <<>>
        /\ queue'[1] = IF queue = <<>> THEN Len(sent) + 1 ELSE queue[1]
    BY <2>2, <2>4
  <2>6. InFront(offset', queue', sent')
    <3>1. CASE queue = <<>>
      <4>1. r.size \in Nat \ {0}
        BY <2>1, SizesAssumption DEF Frame
      <4>2. offset = 0
        BY <1>0, <3>1 DEF InFront
      <4>. QED BY <2>2, <2>4, <2>5, <3>1, <4>1, <4>2 DEF InFront, HeaderBytes
    <3>2. CASE queue # <<>>
      <4>1. queue[1] \in 1 .. Len(sent)
        BY <3>2, FrontIs
      <4>2. sent'[queue'[1]] = sent[queue[1]]
        BY <2>4, <2>5, <3>2, <4>1
      <4>. QED BY <1>0, <2>2, <2>5, <3>2, <4>2 DEF InFront
    <3>. QED BY <3>1, <3>2
  <2>. QED BY <1>0, <1>1, <1>2, <2>2, <2>3, <2>4, <2>5, <2>6
<1>4. ASSUME NEW size \in Size, DeliverTooLarge(size) PROVE TypeOK'
  <2>1. /\ open' = FALSE /\ wire' = <<>> /\ queue' = <<>> /\ offset' = 0 /\ writing' = FALSE
        /\ UNCHANGED <<link, sent, first, acc, reading, got, stale, overrun>>
    BY <1>4 DEF DeliverTooLarge
  <2>2. InFront(offset', queue', sent')
    BY <2>1 DEF InFront
  <2>3. wire' \in Seq(Byte(Len(sent'))) /\ queue' \in Seq(first' .. Len(sent'))
    BY <2>1, EmptyTyped, Zenon
  <2>4. open' \in BOOLEAN /\ writing' = (queue' # <<>>)
    BY <2>1, Zenon
  <2>5. UNCHANGED <<link, sent, first, acc, reading, got, stale, overrun>>
    BY <2>1
  <2>. QED BY <1>0, <1>1, <1>2, <2>2, <2>3, <2>4, <2>5
<1>5. ASSUME NEW size \in Size, SendJson(size) PROVE TypeOK'
  <2> DEFINE r == [size |-> size, text |-> TRUE]
             e == EncodeOf(Len(sent) + 1, size)
  <2>1. r \in Frame /\ size \in Nat
    BY SizesAssumption DEF Frame
  <2>2. /\ sent' = Append(sent, r) /\ wire' = wire \o e
        /\ UNCHANGED <<link, first, queue, offset, writing, acc, reading, got, open, stale, overrun>>
    BY <1>5 DEF SendJson
  <2>. HIDE DEF r
  <2>4. /\ sent' \in Seq(Frame) /\ Len(sent') = Len(sent) + 1
        /\ \A k \in 1 .. Len(sent) : sent'[k] = sent[k]
        /\ first \in 1 .. Len(sent') + 1
        /\ queue \in Seq(first .. Len(sent'))
        /\ wire \in Seq(Byte(Len(sent'))) /\ acc \in Seq(Byte(Len(sent')))
        /\ got \in Seq(0 .. Len(sent'))
    BY <2>1, <2>2, SentGrows
  <2>5. e \in Seq(Byte(Len(sent')))
    <3>1. Len(sent) + 1 \in Nat \ {0} /\ Len(sent') \in Nat /\ Len(sent) + 1 <= Len(sent')
      BY <1>0, <2>4
    <3>. QED BY <2>1, <3>1, EncodeIs
  <2>. HIDE DEF e
  <2>6. wire' \in Seq(Byte(Len(sent')))
    BY <2>2, <2>4, <2>5, ConcatProperties
  <2>7. InFront(offset', queue', sent')
    <3>1. queue # <<>> => queue[1] \in 1 .. Len(sent)
      BY FrontIs
    <3>. QED BY <1>0, <2>2, <2>4, <3>1 DEF InFront
  <2>. QED BY <1>0, <1>1, <1>2, <2>2, <2>4, <2>6, <2>7
<1>6. ASSUME NEW n, WriteSome(n) PROVE TypeOK'
  <2> DEFINE e == Encode(queue[1])
             b == SubSeq(e, offset + 1, offset + n)
  <2>1. /\ writing /\ n \in 1 .. Len(e) - offset /\ wire' = wire \o b
        /\ UNCHANGED <<link, sent, first, acc, reading, got, open, stale, overrun>>
    BY <1>6 DEF WriteSome
  <2>2. \/ offset + n < Len(e) /\ offset' = offset + n /\ queue' = queue /\ writing' = writing
        \/ offset' = 0 /\ queue' = Tail(queue) /\ writing' = (Len(queue) > 1)
    BY <1>6 DEF WriteSome
  <2>3. b \in Seq(Byte(Len(sent)))
    BY <2>1, WrittenIs
  <2>4. queue # <<>> /\ Len(e) = HeaderBytes + sent[queue[1]].size /\ sent[queue[1]].size \in Nat \ {0}
    BY <1>1, <2>1, FrontIs
  <2>. HIDE DEF b, e
  <2>5. wire' \in Seq(Byte(Len(sent')))
    BY <1>0, <2>1, <2>3, ConcatProperties
  <2>6. CASE offset + n < Len(e) /\ offset' = offset + n /\ queue' = queue /\ writing' = writing
    <3>1. InFront(offset', queue', sent')
      <4> DEFINE z == sent[queue[1]].size
      <4>1. n \in Nat /\ offset \in Nat /\ z \in Nat /\ offset + n < HeaderBytes + z
        BY <1>0, <2>1, <2>4, <2>6
      <4>. HIDE DEF z
      <4>2. offset + n \in 0 .. HeaderBytes + z - 1
        BY <4>1 DEF HeaderBytes
      <4>. QED BY <2>1, <2>4, <2>6, <4>2, Zenon DEF InFront, z
    <3>. QED BY <1>0, <1>1, <1>2, <2>1, <2>5, <2>6, <3>1
  <2>7. CASE offset' = 0 /\ queue' = Tail(queue) /\ writing' = (Len(queue) > 1)
    <3>1. /\ queue' \in Seq(first .. Len(sent)) /\ Len(queue') = Len(queue) - 1
      BY <1>0, <2>4, <2>7
    <3>2. (queue' # <<>>) <=> (Len(queue) > 1)
      BY <1>0, <3>1
    <3>3. InFront(offset', queue', sent')
      <4>1. CASE queue' = <<>>
        BY <2>7, <4>1 DEF InFront
      <4>2. CASE queue' # <<>>
        <5>1. queue' \in Seq(first .. Len(sent))
          BY <3>1
        <5>2. queue'[1] \in first .. Len(sent)
          BY <4>2, <5>1, FirstTyped, Zenon
        <5>3. queue'[1] \in 1 .. Len(sent)
          BY <1>0, <5>2
        <5>4. sent[queue'[1]] \in Frame
          BY <1>0, <5>3
        <5>5. sent[queue'[1]].size \in Nat \ {0}
          BY <5>4, SizesAssumption DEF Frame
        <5> DEFINE z == sent[queue'[1]].size
        <5>6. z \in Nat \ {0}
          BY <5>5
        <5>. HIDE DEF z
        <5>7. 0 \in 0 .. HeaderBytes + z - 1
          BY <5>6 DEF HeaderBytes
        <5>. QED BY <2>1, <2>7, <4>2, <5>7, Zenon DEF InFront, z
      <4>. QED BY <4>1, <4>2
    <3>4. writing' = (queue' # <<>>)
      BY <2>7, <3>2
    <3>. QED BY <1>0, <1>1, <1>2, <2>1, <2>5, <3>1, <3>3, <3>4
  <2>. QED BY <2>2, <2>6, <2>7
<1>7. CASE WriteFails
  <2>1. /\ queue' = <<>> /\ offset' = 0 /\ writing' = FALSE
        /\ UNCHANGED <<link, sent, first, wire, acc, reading, got, open, stale, overrun>>
    BY <1>7 DEF WriteFails
  <2>2. InFront(offset', queue', sent')
    BY <2>1 DEF InFront
  <2>3. queue' \in Seq(first' .. Len(sent'))
    BY <2>1, EmptyTyped, Zenon
  <2>4. writing' = (queue' # <<>>)
    BY <2>1, Zenon
  <2>5. UNCHANGED <<link, sent, first, wire, acc, reading, got, open, stale, overrun>>
    BY <2>1
  <2>. QED BY <1>0, <1>1, <1>2, <2>2, <2>3, <2>4, <2>5
<1>8. ASSUME NEW n, ReadSome(n) PROVE TypeOK'
  <2>1. /\ n \in 1 .. Len(wire) /\ acc' = acc \o SubSeq(wire, 1, n)
        /\ wire' = SubSeq(wire, n + 1, Len(wire))
        /\ UNCHANGED <<link, sent, first, queue, offset, writing, got, open, stale, overrun>>
    BY <1>8 DEF ReadSome
  <2>2. SubSeq(wire, 1, n) \in Seq(Byte(Len(sent))) /\ wire' \in Seq(Byte(Len(sent)))
    BY <2>1, ReadIs
  <2>3. acc' \in Seq(Byte(Len(sent)))
    BY <1>0, <2>1, <2>2, ConcatProperties
  <2>4. reading' \in BOOLEAN
    BY <1>8 DEF ReadSome
  <2>. QED BY <1>0, <1>1, <1>2, <2>1, <2>2, <2>3, <2>4
\* The steps of the receiver touch acc, got, reading and overrun only.
<1>9. ASSUME UNCHANGED <<link, sent, first, queue, offset, writing, wire, open, stale>>,
             acc' \in Seq(Byte(Len(sent))), got' \in Seq(0 .. Len(sent)),
             reading' \in BOOLEAN, overrun' \in BOOLEAN
      PROVE  TypeOK'
  BY <1>0, <1>1, <1>2, <1>9
<1>10. CASE NeedMore
  <2>1. /\ UNCHANGED <<link, sent, first, queue, offset, writing, wire, got, open, stale>>
        /\ acc' = Capped(acc)
    BY <1>10 DEF NeedMore
  <2>2. reading' \in BOOLEAN /\ overrun' \in BOOLEAN
    BY <1>10, Zenon DEF NeedMore
  <2>. QED BY <1>0, <1>9, <2>1, <2>2, CappedTyped
<1>11. CASE BadLength
  <2>1. /\ UNCHANGED <<link, sent, first, queue, offset, writing, wire, open, stale, overrun>>
        /\ acc' = <<>> /\ (got' = got \/ got' = Append(got, 0) \/ got' = Append(got, MessageOf(acc)))
    BY <1>11, Zenon DEF BadLength
  <2>2. reading' \in BOOLEAN
    BY <1>11, Zenon DEF BadLength
  <2>3. PICK len \in Spelled : TRUE
    BY <1>11 DEF BadLength
  <2>4. acc # <<>>
    BY <2>3, SpelledTyped DEF HeaderBytes
  <2>5. MessageOf(acc) \in 0 .. Len(sent) /\ 0 \in 0 .. Len(sent)
    BY <1>0, <2>4, MessageTyped
  <2>6. got' \in Seq(0 .. Len(sent))
    <3>1. Append(got, 0) \in Seq(0 .. Len(sent)) /\ Append(got, MessageOf(acc)) \in Seq(0 .. Len(sent))
      BY <1>0, <2>5, AppendTyped, Zenon
    <3>. QED BY <1>0, <2>1, <3>1, Zenon
  <2>7. acc' \in Seq(Byte(Len(sent)))
    BY <2>1, EmptyTyped, Zenon
  <2>. QED BY <1>0, <1>1, <1>9, <2>1, <2>2, <2>6, <2>7
<1>12. CASE BareMessage
  <2>1. /\ UNCHANGED <<link, sent, first, queue, offset, writing, wire, open, stale, overrun>>
        /\ acc' = <<>> /\ got' = Append(got, MessageOf(acc)) /\ acc # <<>>
    BY <1>12 DEF BareMessage
  <2>2. reading' \in BOOLEAN
    BY <1>12, Zenon DEF BareMessage
  <2>3. MessageOf(acc) \in 0 .. Len(sent)
    BY <1>0, <2>1, MessageTyped
  <2>. QED BY <1>0, <1>1, <1>9, <2>1, <2>2, <2>3
<1>13. CASE TakeFrame
  <2>1. PICK len \in Spelled :
          LET m == MessageOf(SubSeq(acc, HeaderBytes + 1, HeaderBytes + len))
              rest == SubSeq(acc, HeaderBytes + len + 1, Len(acc))
              none == link = "down" /\ m # 0 /\ ~sent[m].text
          IN  /\ Valid(len) /\ Len(acc) >= HeaderBytes + len
              /\ got' = IF none THEN got ELSE Append(got, m)
              /\ acc' = IF none THEN Capped(rest) ELSE rest
              /\ overrun' = (overrun \/ Len(acc') < Len(rest))
              /\ reading' = ~none
    BY <1>13, Zenon DEF TakeFrame
  <2> DEFINE m == MessageOf(SubSeq(acc, HeaderBytes + 1, HeaderBytes + len))
             rest == SubSeq(acc, HeaderBytes + len + 1, Len(acc))
  <2>2. m \in 0 .. Len(sent) /\ rest \in Seq(Byte(Len(sent)))
    BY <2>1, TakenTyped
  <2>3. /\ got' = got \/ got' = Append(got, m)
        /\ acc' = Capped(rest) \/ acc' = rest
    BY <2>1, Zenon
  <2>4. reading' \in BOOLEAN /\ overrun' \in BOOLEAN
    BY <2>1, Zenon
  <2>5. UNCHANGED <<link, sent, first, queue, offset, writing, wire, open, stale>>
    BY <1>13 DEF TakeFrame
  <2>. HIDE DEF m, rest
  <2>6. got' \in Seq(0 .. Len(sent))
    <3>1. Append(got, m) \in Seq(0 .. Len(sent))
      BY <1>0, <2>2, AppendTyped, Zenon
    <3>. QED BY <1>0, <2>3, <3>1, Zenon
  <2>7. acc' \in Seq(Byte(Len(sent)))
    BY <2>2, <2>3, CappedTyped, Zenon
  <2>. QED BY <1>9, <2>4, <2>5, <2>6, <2>7
<1>14. CASE Cut
  <2>1. /\ wire' = <<>> /\ open' = FALSE
        /\ UNCHANGED <<link, sent, first, queue, offset, writing, acc, reading, got, stale, overrun>>
    BY <1>14 DEF Cut
  <2>2. wire' \in Seq(Byte(Len(sent'))) /\ open' \in BOOLEAN
    BY <2>1, EmptyTyped, Zenon
  <2>3. UNCHANGED <<link, sent, first, queue, offset, writing, acc, reading, got, stale, overrun>>
    BY <2>1
  <2>. QED BY <1>0, <1>1, <1>2, <2>2, <2>3
<1>15. CASE Reconnect
  <2>1. /\ first' = Len(sent) + 1 /\ queue' = <<>> /\ offset' = 0
        /\ wire' = <<>> /\ got' = <<>> /\ (acc' = acc \/ acc' = <<>>)
        /\ UNCHANGED <<link, sent, reading>>
    BY <1>15 DEF Reconnect
  <2>2. open' \in BOOLEAN /\ stale' \in BOOLEAN /\ overrun' \in BOOLEAN /\ writing' = FALSE
    BY <1>15, Zenon DEF Reconnect
  <2>3. InFront(offset', queue', sent') /\ first' \in 1 .. Len(sent') + 1
    BY <1>0, <2>1 DEF InFront
  <2>4. /\ queue' \in Seq(first' .. Len(sent')) /\ wire' \in Seq(Byte(Len(sent')))
        /\ got' \in Seq(0 .. Len(sent'))
    BY <2>1, EmptyTyped, Zenon
  <2>5. acc' \in Seq(Byte(Len(sent)))
    BY <1>0, <2>1, EmptyTyped, Zenon
  <2>6. writing' = (queue' # <<>>)
    BY <2>1, <2>2, Zenon
  <2>7. UNCHANGED <<link, sent, reading>>
    BY <2>1
  <2>. QED BY <1>0, <1>1, <1>2, <2>2, <2>3, <2>4, <2>5, <2>6, <2>7
<1>16. CASE UNCHANGED vars
  BY <1>16 DEF vars, TypeOK
<1>. QED
  BY <1>3, <1>4, <1>5, <1>6, <1>7, <1>8, <1>10, <1>11, <1>12, <1>13, <1>14, <1>15, <1>16
     DEF Next, Write, Read

(* The initial state is well typed. *)
LEMMA TypeInit == Init => TypeOK
<1> SUFFICES ASSUME Init PROVE TypeOK
  OBVIOUS
<1>1. /\ link \in Links /\ sent = <<>> /\ first = 1 /\ queue = <<>> /\ offset = 0
      /\ wire = <<>> /\ acc = <<>> /\ got = <<>>
  BY DEF Init
<1>2. /\ writing = (queue # <<>>)
      /\ reading \in BOOLEAN /\ open \in BOOLEAN /\ stale \in BOOLEAN /\ overrun \in BOOLEAN
  BY Zenon DEF Init
<1>3. /\ sent \in Seq([size : Size, text : BOOLEAN]) /\ queue \in Seq(first .. Len(sent))
      /\ wire \in Seq((1 .. Len(sent)) \X (Nat \ {0})) /\ acc \in Seq((1 .. Len(sent)) \X (Nat \ {0}))
      /\ got \in Seq(0 .. Len(sent))
  BY <1>1, EmptyTyped, Zenon
<1>4. first \in 1 .. Len(sent) + 1
  BY <1>1
<1>5. offset \in IF queue = <<>> THEN {0} ELSE 0 .. HeaderBytes + sent[queue[1]].size - 1
  BY <1>1
<1>. QED BY <1>1, <1>2, <1>3, <1>4, <1>5, Zenon DEF TypeOK

(* For messages and limits of any size, the offset of the write in        *)
(* progress lies within the front frame, a write is under way exactly     *)
(* while something is queued, and every byte belongs to a frame that was  *)
(* sent (AsyncSession::deliver, doWrite).                                 *)
THEOREM SpecTypeOK == Spec => []TypeOK
BY TypeInit, TypeNext, PTL DEF Spec

-----------------------------------------------------------------------------
(* The receivers' buffers.                                                 *)

(* What the caps leave.                                                    *)
LEMMA CappedFits ==
    ASSUME link \in Links, link # "qt", NEW S, NEW s \in Seq(S)
    PROVE  Len(Capped(s)) <= Limit
<1>1. Limit \in Nat
  BY LimitTyped
<1>2. CASE Len(s) > Limit
  BY <1>1, <1>2 DEF Capped
<1>3. CASE ~(Len(s) > Limit)
  <2>1. Capped(s) = s
    BY <1>3 DEF Capped
  <2>. QED BY <1>1, <1>3, <2>1
<1>. QED BY <1>2, <1>3

(* Every step keeps the accumulator within its bound. *)
LEMMA BoundedNext == TypeOK /\ BufferBounded /\ [Next]_vars => BufferBounded'
<1> SUFFICES ASSUME TypeOK, BufferBounded, [Next]_vars PROVE BufferBounded'
  OBVIOUS
<1>0. link \in Links /\ Limit \in Nat /\ acc \in Seq(Byte(Len(sent))) /\ Len(acc) \in Nat
  BY Typed, LimitTyped
<1>1. ASSUME link' = link PROVE Limit' = Limit
  BY <1>1, Zenon DEF Limit
<1>2. ASSUME UNCHANGED <<link, acc, reading>> PROVE BufferBounded'
  <2>1. Limit' = Limit
    BY <1>1, <1>2
  <2>. QED BY <1>2, <2>1 DEF BufferBounded
<1>3. ASSUME link' = link, acc' = <<>> PROVE BufferBounded'
  <2>1. Limit' = Limit
    BY <1>1, <1>3
  <2>. QED BY <1>0, <1>3, <2>1 DEF BufferBounded, HeaderBytes
<1>4. ASSUME link' = link, reading' = TRUE PROVE BufferBounded'
  BY <1>4, Zenon DEF BufferBounded
<1>5. CASE NeedMore
  <2>1. link' = link /\ acc' = Capped(acc)
    BY <1>5 DEF NeedMore
  <2>2. Limit' = Limit
    BY <1>1, <2>1
  <2>3. CASE link # "qt"
    BY <1>0, <2>1, <2>2, <2>3, CappedFits DEF BufferBounded
  <2>4. CASE link = "qt"
    <3>1. acc' = acc
      BY <2>1, <2>4 DEF Capped
    <3>2. CASE Len(acc) < HeaderBytes
      BY <1>0, <2>1, <2>2, <2>4, <3>1, <3>2 DEF BufferBounded, HeaderBytes
    <3>3. CASE ~(Len(acc) < HeaderBytes)
      <4>1. PICK len \in Spelled : Valid(len) /\ Len(acc) < HeaderBytes + len
        BY <1>5, <3>3 DEF NeedMore
      <4>2. len \in Nat /\ len <= Limit
        BY <4>1, SpelledTyped DEF Valid
      <4>. QED BY <1>0, <2>1, <2>2, <2>4, <3>1, <4>1, <4>2 DEF BufferBounded, HeaderBytes
    <3>. QED BY <3>2, <3>3
  <2>. QED BY <2>3, <2>4
<1>6. CASE TakeFrame
  <2>1. PICK len \in Spelled :
          LET m == MessageOf(SubSeq(acc, HeaderBytes + 1, HeaderBytes + len))
              rest == SubSeq(acc, HeaderBytes + len + 1, Len(acc))
              none == link = "down" /\ m # 0 /\ ~sent[m].text
          IN  /\ Valid(len) /\ Len(acc) >= HeaderBytes + len
              /\ acc' = IF none THEN Capped(rest) ELSE rest
              /\ reading' = ~none
    BY <1>6, Zenon DEF TakeFrame
  <2>2. link' = link
    BY <1>6 DEF TakeFrame
  <2> DEFINE rest == SubSeq(acc, HeaderBytes + len + 1, Len(acc))
  <2>3. rest \in Seq(Byte(Len(sent)))
    BY <2>1, TakenTyped
  <2>4. reading' = TRUE \/ (link = "down" /\ acc' = Capped(rest))
    BY <2>1, Zenon
  <2>5. CASE link = "down" /\ acc' = Capped(rest)
    <3>. HIDE DEF rest
    <3>1. Limit' = Limit
      BY <1>1, <2>2
    <3>2. link # "qt"
      BY <2>5
    <3>. QED BY <1>0, <2>2, <2>3, <2>5, <3>1, <3>2, CappedFits DEF BufferBounded
  <2>. QED BY <1>4, <2>2, <2>4, <2>5
<1>7. CASE \E n \in 1 .. ReadMax : ReadSome(n)
  <2>1. link' = link /\ reading' = TRUE
    BY <1>7, Zenon DEF ReadSome
  <2>. QED BY <1>4, <2>1
<1>8. CASE Reconnect
  <2>1. UNCHANGED <<link, reading>> /\ (acc' = acc \/ acc' = <<>>)
    BY <1>8 DEF Reconnect
  <2>. QED BY <1>2, <1>3, <2>1
<1>9. CASE BadLength \/ BareMessage
  BY <1>3, <1>9 DEF BadLength, BareMessage
<1>10. ASSUME NEW size \in Size, NEW text \in BOOLEAN, Deliver(size, text) PROVE BufferBounded'
  BY <1>2, <1>10 DEF Deliver
<1>11. ASSUME NEW size \in Size, DeliverTooLarge(size) \/ SendJson(size) PROVE BufferBounded'
  BY <1>2, <1>11 DEF DeliverTooLarge, SendJson
<1>12. ASSUME NEW n, WriteSome(n) PROVE BufferBounded'
  BY <1>2, <1>12 DEF WriteSome
<1>13. CASE WriteFails \/ Cut
  BY <1>2, <1>13 DEF WriteFails, Cut
<1>14. CASE UNCHANGED vars
  BY <1>2, <1>14 DEF vars
<1>. QED
  BY <1>5, <1>6, <1>7, <1>8, <1>9, <1>10, <1>11, <1>12, <1>13, <1>14 DEF Next, Write, Read

(* For all limits and sizes, no receiver keeps more than its limit between *)
(* two reads (the caps of AsyncSession.cpp:60 and tcp_manager.rs:69), and  *)
(* the legacy decoder no more than one incomplete frame of the largest     *)
(* size.                                                                   *)
THEOREM SpecBufferBounded == Spec => []BufferBounded
<1>1. Init => BufferBounded
  <2> SUFFICES ASSUME Init PROVE BufferBounded
    OBVIOUS
  <2>1. Limit \in Nat /\ acc = <<>>
    BY LimitTyped DEF Init
  <2>. QED BY <2>1 DEF BufferBounded, HeaderBytes
<1>. QED BY <1>1, BoundedNext, SpecTypeOK, PTL DEF Spec

-----------------------------------------------------------------------------
(***************************************************************************)
(* What the client is handed.  As long as no cap has emptied it, the       *)
(* accumulator and the bytes behind it are one stream that starts at the   *)
(* start of a frame, goes on byte by byte to the frame's end and then at   *)
(* the start of a later frame, and ends where the writer will go on.       *)
(***************************************************************************)

\* The length of a frame on the wire.
FullOf(frames, k) == HeaderBytes + frames[k].size
Full(k) == FullOf(sent, k)

\* The bytes that may come after byte a: the next of its frame, or the first of
\* a later one.
Follows(a, b) ==
    IF a[2] < Full(a[1]) THEN b[1] = a[1] /\ b[2] = a[2] + 1 ELSE a[1] < b[1] /\ b[2] = 1

\* What the client has not decoded yet.
Stream == acc \o wire

\* A run of frames, the first from its start.
Run(s) ==
    /\ \A i \in 1 .. Len(s) : s[i][2] <= Full(s[i][1])
    /\ \A i \in 1 .. Len(s) - 1 : Follows(s[i], s[i + 1])
    /\ s # <<>> => s[1][2] = 1 /\ first <= s[1][1]

\* Every frame handed on is before those in the stream.
Behind(s) == s # <<>> => \A i \in 1 .. Len(got) : got[i] < s[1][1]

\* The queued frames are after all of them, but for the written part of the front one.
Ahead(s) ==
    \A j \in 1 .. Len(queue) :
        /\ \A i \in 1 .. Len(got) : got[i] < queue[j]
        /\ \A i \in 1 .. Len(s) :
            /\ s[i][1] <= queue[j]
            /\ s[i][1] = queue[j] => j = 1 /\ s[i][2] <= offset

\* The stream ends where the writer goes on.
Seam(s) ==
    open => /\ offset > 0 => s # <<>> /\ s[Len(s)][1] = queue[1] /\ s[Len(s)][2] = offset
            /\ offset = 0 /\ s # <<>> => s[Len(s)][2] = Full(s[Len(s)][1])

InOrder ==
    /\ \A i, j \in 1 .. Len(queue) : i < j => queue[i] < queue[j]
    /\ \A i \in 1 .. Len(got) : first <= got[i]
    /\ \A i \in 1 .. Len(got) - 1 : got[i] < got[i + 1]

Intact(s) == Run(s) /\ Behind(s) /\ Ahead(s) /\ Seam(s) /\ InOrder

Fits == \A k \in 1 .. Len(sent) : sent[k].size <= ServerMax
AllText == \A k \in first .. Len(sent) : sent[k].text
\* What a client that is sent text only has in its accumulator.
Room == ~overrun /\ Len(acc) < HeaderBytes + ServerMax + (IF reading THEN ReadMax ELSE 0)

\* The invariant of the server's link to the client.
DownInv ==
    link = "down" => Fits /\ (~overrun => Intact(Stream)) /\ (AllText => Room)

Less == OpToRel(<, Nat)

(* A set of natural numbers that is not empty has a least element.         *)
LEMMA Least ==
    ASSUME NEW S \in SUBSET Nat, S # {}
    PROVE  \E m \in S : \A n \in S : m <= n
<1>1. IsWellFoundedOn(Less, Nat)
  BY NatLessThanWellFounded, Zenon DEF Less
<1>2. PICK m \in S : \A n \in S : ~ (<<n, m>> \in Less)
  BY <1>1, WFMin
<1>3. \A a, b \in Nat : a < b => <<a, b>> \in Less
  BY Zenon DEF Less, OpToRel
<1>4. ASSUME NEW n \in S PROVE m <= n
  <2>1. n \in Nat /\ m \in Nat /\ ~(n < m)
    BY <1>2, <1>3
  <2>. QED BY <2>1
<1>. QED BY <1>4

(* The bytes of a sequence of bytes.                                       *)
LEMMA BytesIs ==
    ASSUME NEW n \in Nat, NEW s \in Seq(Byte(n))
    PROVE  \A i \in 1 .. Len(s) :
              s[i] = <<s[i][1], s[i][2]>> /\ s[i][1] \in 1 .. n /\ s[i][2] \in Nat \ {0}
<1>1. \A i \in 1 .. Len(s) : s[i] \in Byte(n)
  OBVIOUS
<1>. QED BY <1>1, ByteIs

(* Every frame has a header and some text.                                 *)
LEMMA FullIs ==
    ASSUME TypeOK, NEW k \in 1 .. Len(sent)
    PROVE  /\ sent[k].size \in Nat \ {0} /\ Full(k) \in Nat /\ Full(k) = HeaderBytes + sent[k].size
           /\ HeaderBytes < Full(k)
<1>1. sent[k] \in Frame
  BY Typed
<1>2. sent[k].size \in Nat \ {0}
  BY <1>1, SizesAssumption DEF Frame
<1>. QED BY <1>2 DEF Full, FullOf, HeaderBytes

(* Two sequences, one after the other.                                     *)
LEMMA JoinIs ==
    ASSUME NEW S, NEW a \in Seq(S), NEW b \in Seq(S)
    PROVE  /\ a \o b \in Seq(S) /\ Len(a \o b) = Len(a) + Len(b)
           /\ \A i \in 1 .. Len(a) : (a \o b)[i] = a[i]
           /\ \A i \in 1 .. Len(b) : (a \o b)[Len(a) + i] = b[i]
           /\ \A i \in Len(a) + 1 .. Len(a) + Len(b) : (a \o b)[i] = b[i - Len(a)]
<1>1. Len(a) \in Nat /\ Len(b) \in Nat
  OBVIOUS
<1>. QED BY <1>1, ConcatProperties

(* The bytes in the accumulator come before the bytes on the wire. *)
LEMMA StreamIs ==
    ASSUME TypeOK
    PROVE  /\ Stream \in Seq(Byte(Len(sent))) /\ Len(Stream) = Len(acc) + Len(wire)
           /\ \A i \in 1 .. Len(acc) : Stream[i] = acc[i]
           /\ Len(Stream) \in Nat
           /\ \A i \in 1 .. Len(Stream) :
                 /\ Stream[i] = <<Stream[i][1], Stream[i][2]>>
                 /\ Stream[i][1] \in 1 .. Len(sent) /\ Stream[i][2] \in Nat \ {0}
<1>1. wire \in Seq(Byte(Len(sent))) /\ acc \in Seq(Byte(Len(sent))) /\ Len(sent) \in Nat
  BY Typed
<1>2. /\ Stream \in Seq(Byte(Len(sent))) /\ Len(Stream) = Len(acc) + Len(wire)
      /\ \A i \in 1 .. Len(acc) : Stream[i] = acc[i]
  BY <1>1, JoinIs DEF Stream
<1>3. Len(Stream) \in Nat
  BY <1>2
<1>. QED BY <1>1, <1>2, <1>3, BytesIs

(* The first frame of a run lies in it byte after byte.                    *)
LEMMA FirstFrame ==
    ASSUME TypeOK, NEW s \in Seq(Byte(Len(sent))), Run(s), s # <<>>
    PROVE  \A i \in 1 .. Len(s) : i <= Full(s[1][1]) => s[i][1] = s[1][1] /\ s[i][2] = i
<1> DEFINE k == s[1][1]
           B == {i \in 1 .. Len(s) : i <= Full(k) /\ ~(s[i][1] = k /\ s[i][2] = i)}
<1>1. SUFFICES ASSUME B # {} PROVE FALSE
  OBVIOUS
<1>2. B \in SUBSET Nat
  OBVIOUS
<1>3. PICK m \in B : \A i \in B : m <= i
  <2>. HIDE DEF B
  <2>. QED BY <1>1, <1>2, Least
<1>4. m \in 1 .. Len(s) /\ m <= Full(k) /\ ~(s[m][1] = k /\ s[m][2] = m) /\ Len(s) \in Nat
  OBVIOUS
<1>5. k \in 1 .. Len(sent) /\ Full(k) \in Nat
  <2>1. 1 \in 1 .. Len(s) /\ Len(sent) \in Nat
    BY <1>4, Typed
  <2>2. k \in 1 .. Len(sent)
    BY <2>1, BytesIs
  <2>. QED BY <2>2, FullIs
<1>6. m # 1
  BY <1>4 DEF Run
<1>7. m - 1 \in 1 .. Len(s) - 1 /\ m - 1 \in 1 .. Len(s) /\ m - 1 < Full(k) /\ m - 1 <= Full(k) /\ (m - 1) + 1 = m /\ ~(m <= m - 1)
  BY <1>4, <1>5, <1>6
<1>8. s[m - 1][1] = k /\ s[m - 1][2] = m - 1
  BY <1>3, <1>7
<1>9. Follows(s[m - 1], s[m])
  <2>1. \A i \in 1 .. Len(s) - 1 : Follows(s[i], s[i + 1])
    BY DEF Run
  <2>. HIDE DEF B, k
  <2>. QED BY <1>7, <2>1
<1>. HIDE DEF B, k
<1>. QED BY <1>4, <1>7, <1>8, <1>9 DEF Follows

(* A receiver reads the length of the frame its accumulator starts with.   *)
LEMMA HeaderRead ==
    ASSUME TypeOK, Run(Stream), Len(acc) >= HeaderBytes
    PROVE  /\ acc[1][1] \in 1 .. Len(sent) /\ acc[1][1] = Stream[1][1] /\ Stream # <<>>
           /\ Spelled = {sent[acc[1][1]].size}
           /\ \A i \in 1 .. Len(acc) : i <= Full(acc[1][1]) => acc[i] = <<acc[1][1], i>>
<1> DEFINE k == acc[1][1]
<1>1. /\ Stream \in Seq(Byte(Len(sent))) /\ Len(Stream) = Len(acc) + Len(wire)
      /\ \A i \in 1 .. Len(acc) : Stream[i] = acc[i]
      /\ \A i \in 1 .. Len(Stream) :
            Stream[i] = <<Stream[i][1], Stream[i][2]>> /\ Stream[i][1] \in 1 .. Len(sent)
      /\ Len(acc) \in Nat /\ Len(wire) \in Nat
  BY StreamIs, Typed
<1>2. 1 \in 1 .. Len(acc) /\ 1 \in 1 .. Len(Stream) /\ Stream # <<>>
  BY <1>1 DEF HeaderBytes
<1>3. k = Stream[1][1] /\ k \in 1 .. Len(sent)
  BY <1>1, <1>2
<1>4. HeaderBytes < Full(k) /\ Full(k) \in Nat
  BY <1>3, FullIs
<1>5. \A i \in 1 .. Len(Stream) : i <= Full(k) => Stream[i][1] = k /\ Stream[i][2] = i
  BY <1>1, <1>2, <1>3, FirstFrame
<1>. HIDE DEF k
<1>6. \A i \in 1 .. Len(acc) : i <= Full(k) => acc[i] = <<k, i>>
  <2> SUFFICES ASSUME NEW i \in 1 .. Len(acc), i <= Full(k) PROVE acc[i] = <<k, i>>
    OBVIOUS
  <2>1. i \in 1 .. Len(Stream)
    BY <1>1
  <2>2. Stream[i] = <<Stream[i][1], Stream[i][2]>> /\ Stream[i][1] = k /\ Stream[i][2] = i /\ Stream[i] = acc[i]
    BY <1>1, <1>5, <2>1
  <2>. QED BY <2>2, Zenon
<1>7. \A i \in 1 .. HeaderBytes : i \in 1 .. Len(acc) /\ i <= Full(k)
  BY <1>1, <1>4 DEF HeaderBytes
<1>8. \A i \in 1 .. HeaderBytes : acc[i] = <<k, i>>
  BY <1>6, <1>7
<1>9. ~(Len(acc) < HeaderBytes)
  BY <1>1 DEF HeaderBytes
<1>10. Spelled = {sent[k].size}
  BY <1>8, <1>9, Zenon DEF Spelled, k
<1>. QED BY <1>2, <1>3, <1>6, <1>10 DEF k

(* The client accepts that length.                                         *)
LEMMA HeadIs ==
    ASSUME TypeOK, link = "down", Fits, Run(Stream), Len(acc) >= HeaderBytes
    PROVE  /\ acc[1][1] \in 1 .. Len(sent) /\ acc[1][1] = Stream[1][1] /\ Stream # <<>>
           /\ Spelled = {sent[acc[1][1]].size} /\ Valid(sent[acc[1][1]].size)
           /\ sent[acc[1][1]].size <= ServerMax
           /\ \A i \in 1 .. Len(acc) : i <= Full(acc[1][1]) => acc[i] = <<acc[1][1], i>>
<1> DEFINE k == acc[1][1]
<1>1. /\ k \in 1 .. Len(sent) /\ k = Stream[1][1] /\ Stream # <<>> /\ Spelled = {sent[k].size}
      /\ \A i \in 1 .. Len(acc) : i <= Full(k) => acc[i] = <<k, i>>
  BY HeaderRead
<1>. HIDE DEF k
<1>2. sent[k].size \in Nat \ {0} /\ sent[k].size <= ServerMax
  BY <1>1, FullIs DEF Fits
<1>3. Limit = ClientMax /\ ServerMax <= ClientMax
  BY LimitIs, LimitsFit, SizesAssumption DEF HeaderBytes
<1>4. Valid(sent[k].size)
  BY <1>2, <1>3, SizesAssumption DEF Valid
<1>. QED BY <1>1, <1>2, <1>4 DEF k

(* A whole frame is taken for the message it was made from.                *)
LEMMA FrameIs ==
    ASSUME TypeOK, Run(Stream), Len(acc) >= HeaderBytes, Len(acc) >= HeaderBytes + sent[acc[1][1]].size
    PROVE  MessageOf(SubSeq(acc, HeaderBytes + 1, HeaderBytes + sent[acc[1][1]].size)) = acc[1][1]
<1> DEFINE k == acc[1][1]
           S == Byte(Len(sent))
           x == HeaderBytes + 1
           y == HeaderBytes + sent[k].size
           b == SubSeq(acc, x, y)
           e == EncodeOf(k, sent[k].size)
           c == SubSeq(e, x, y)
<1>1. /\ k \in 1 .. Len(sent)
      /\ \A i \in 1 .. Len(acc) : i <= Full(k) => acc[i] = <<k, i>>
  BY HeaderRead
<1>2. /\ sent[k].size \in Nat \ {0} /\ acc \in Seq(S) /\ Len(acc) \in Nat /\ Len(sent) \in Nat
      /\ Full(k) = HeaderBytes + sent[k].size
  BY <1>1, FullIs, Typed
<1>3. /\ e \in Seq(S) /\ Len(e) = HeaderBytes + sent[k].size
      /\ \A i \in 1 .. HeaderBytes + sent[k].size : e[i] = <<k, i>>
  <2>1. k \in Nat \ {0} /\ k <= Len(sent) /\ sent[k].size \in Nat
    BY <1>1, <1>2
  <2>. HIDE DEF k
  <2>. QED BY <1>2, <2>1, EncodeIs
<1>4. /\ x \in Nat \ {0} /\ y \in Nat /\ y <= Len(acc) /\ x <= y + 1 /\ x <= y
      /\ y <= Len(e) /\ y - x + 1 \in Nat \ {0}
  <2> DEFINE z == sent[k].size
  <2>1. z \in Nat \ {0} /\ Len(acc) >= HeaderBytes + z /\ Len(acc) \in Nat /\ Len(e) = HeaderBytes + z
    BY <1>2, <1>3
  <2>2. y = HeaderBytes + z
    OBVIOUS
  <2>. HIDE DEF z, y, e
  <2>. QED BY <2>1, <2>2 DEF HeaderBytes
<1>5. \A i \in 1 .. y : acc[i] = <<k, i>> /\ e[i] = <<k, i>>
  <2>1. y \in Nat /\ y <= Len(acc) /\ Len(acc) \in Nat /\ Full(k) = y
    BY <1>2, <1>4
  <2>2. \A i \in 1 .. y : e[i] = <<k, i>>
    BY <1>3
  <2>. HIDE DEF e, y, k
  <2>3. \A i \in 1 .. y : i \in 1 .. Len(acc) /\ i <= Full(k)
    BY <2>1
  <2>. QED BY <1>1, <2>2, <2>3, Zenon
<1>6. ASSUME b = SubSeq(e, x, HeaderBytes + sent[b[1][1]].size), b[1][1] = k PROVE MessageOf(b) = k
  BY <1>6, Zenon DEF MessageOf, Encode
<1>. HIDE DEF e, S, x
<1>7. y = HeaderBytes + sent[k].size
  OBVIOUS
<1>. HIDE DEF y
<1>8. /\ b \in Seq(S) /\ Len(b) = y - x + 1
      /\ \A i \in 1 .. y - x + 1 : b[i] = acc[x + i - 1]
  BY <1>2, <1>4, PartIs
<1>9. /\ c \in Seq(S) /\ Len(c) = y - x + 1
      /\ \A i \in 1 .. y - x + 1 : c[i] = e[x + i - 1]
  BY <1>3, <1>4, PartIs
<1>. HIDE DEF b, c, k
<1>10. \A i \in 1 .. y - x + 1 : x + i - 1 \in 1 .. y
  BY <1>4
<1>11. b = c
  BY <1>5, <1>8, <1>9, <1>10, SeqEqual
<1>12. b[1] = <<k, x + 1 - 1>>
  BY <1>4, <1>5, <1>8, <1>10
<1>13. b[1][1] = k
  BY <1>12
<1>14. b = SubSeq(e, x, HeaderBytes + sent[b[1][1]].size)
  BY <1>7, <1>11, <1>13, Zenon DEF c
<1>15. MessageOf(b) = k
  BY <1>6, <1>13, <1>14
<1>. QED BY <1>15, Zenon DEF b, k, x, y

(* A new frame goes behind everything there is.                            *)
LEMMA IntactDeliver ==
    ASSUME TypeOK, Intact(Stream), NEW size \in Size, NEW text \in BOOLEAN, Deliver(size, text)
    PROVE  Intact(Stream)'
<1> DEFINE r == [size |-> size, text |-> text]
<1>1. r \in Frame
  BY DEF Frame
<1>2. /\ sent' = Append(sent, r) /\ queue' = Append(queue, Len(sent) + 1)
      /\ UNCHANGED <<link, first, offset, wire, acc, got, open>>
  BY DEF Deliver
<1>. HIDE DEF r
<1>3. \A k \in 1 .. Len(sent) : Full(k)' = Full(k)
  BY <1>1, <1>2, SentGrows DEF Full, FullOf
<1>4. Stream' = Stream
  BY <1>2 DEF Stream
<1>5. /\ Len(Stream) \in Nat /\ Len(sent) \in Nat
      /\ \A i \in 1 .. Len(Stream) : Stream[i][1] \in 1 .. Len(sent) /\ Stream[i][2] \in Nat \ {0}
      /\ queue \in Seq(first .. Len(sent)) /\ got \in Seq(0 .. Len(sent)) /\ Len(queue) \in Nat
      /\ InFront(offset, queue, sent) /\ offset \in Nat /\ first \in 1 .. Len(sent) + 1
  BY StreamIs, Typed
<1>6. /\ Len(queue') = Len(queue) + 1 /\ queue'[Len(queue) + 1] = Len(sent) + 1
      /\ \A j \in 1 .. Len(queue) : queue'[j] = queue[j] /\ queue[j] \in 1 .. Len(sent)
  BY <1>2, <1>5
<1>7. \A i \in 1 .. Len(got) : got[i] \in 0 .. Len(sent)
  BY <1>5
<1>8. Run(Stream)'
  <2>1. \A i \in 1 .. Len(Stream) : Full(Stream[i][1])' = Full(Stream[i][1])
    BY <1>3, <1>4, <1>5
  <2>2. \A i \in 1 .. Len(Stream) : Stream[i][2] <= Full(Stream[i][1])'
    BY <2>1 DEF Intact, Run
  <2>3. \A i \in 1 .. Len(Stream) - 1 : Follows(Stream[i], Stream[i + 1])'
    <3> SUFFICES ASSUME NEW i \in 1 .. Len(Stream) - 1 PROVE Follows(Stream[i], Stream[i + 1])'
      OBVIOUS
    <3>1. Follows(Stream[i], Stream[i + 1])
      BY DEF Intact, Run
    <3>2. i \in 1 .. Len(Stream)
      BY <1>5
    <3>. QED BY <1>4, <2>1, <3>1, <3>2 DEF Follows
  <2>. QED BY <1>2, <1>4, <2>2, <2>3 DEF Intact, Run
<1>9. Behind(Stream)'
  BY <1>2, <1>4 DEF Intact, Behind
<1>10. Ahead(Stream)'
  <2> SUFFICES ASSUME NEW j \in 1 .. Len(queue)'
              PROVE  /\ \A i \in 1 .. Len(got) : got[i] < queue'[j]
                     /\ \A i \in 1 .. Len(Stream) :
                          /\ Stream[i][1] <= queue'[j]
                          /\ Stream[i][1] = queue'[j] => j = 1 /\ Stream[i][2] <= offset
    BY <1>2, <1>4 DEF Ahead
  <2>1. CASE j \in 1 .. Len(queue)
    BY <1>6, <2>1 DEF Intact, Ahead
  <2>2. CASE j = Len(queue) + 1
    BY <1>5, <1>6, <1>7, <2>2
  <2>. QED BY <1>5, <1>6, <2>1, <2>2
<1>11. Seam(Stream)'
  <2>1. offset > 0 => queue # <<>>
    BY <1>5 DEF InFront
  <2>2. offset > 0 => queue'[1] = queue[1]
    BY <1>5, <1>6, <2>1
  <2>3. Stream # <<>> => Full(Stream[Len(Stream)][1])' = Full(Stream[Len(Stream)][1])
    <3>1. Stream # <<>> => Len(Stream) \in 1 .. Len(Stream)
      BY StreamIs
    <3>. QED BY <1>3, <1>4, <1>5, <3>1
  <2>. QED BY <1>2, <1>4, <2>2, <2>3 DEF Intact, Seam
<1>12. InOrder'
  <2>1. \A i, j \in 1 .. Len(queue') : i < j => queue'[i] < queue'[j]
    <3> SUFFICES ASSUME NEW i \in 1 .. Len(queue'), NEW j \in 1 .. Len(queue'), i < j
                 PROVE  queue'[i] < queue'[j]
      OBVIOUS
    <3>1. i \in 1 .. Len(queue)
      BY <1>5, <1>6
    <3>2. CASE j \in 1 .. Len(queue)
      BY <1>6, <3>1, <3>2 DEF Intact, InOrder
    <3>3. CASE j = Len(queue) + 1
      BY <1>5, <1>6, <3>1, <3>3
    <3>4. Len(queue') = Len(queue) + 1 /\ Len(queue) \in Nat
      BY <1>5, <1>6
    <3>5. j \in 1 .. Len(queue) \/ j = Len(queue) + 1
      BY <3>4
    <3>. QED BY <3>2, <3>3, <3>5
  <2>. QED BY <1>2, <2>1 DEF Intact, InOrder
<1>. QED BY <1>8, <1>9, <1>10, <1>11, <1>12 DEF Intact

(* The writer goes on where the stream ends.                               *)
LEMMA IntactWrite ==
    ASSUME TypeOK, Intact(Stream), NEW n, WriteSome(n)
    PROVE  Intact(Stream)'
<1> DEFINE q == queue[1]
           e == Encode(q)
           b == SubSeq(e, offset + 1, offset + n)
           L == Len(Stream)
<1>1. /\ writing /\ open /\ n \in 1 .. Len(e) - offset /\ wire' = wire \o b
      /\ UNCHANGED <<link, sent, first, acc, got, open>>
  BY DEF WriteSome
<1>2. \/ offset + n < Len(e) /\ offset' = offset + n /\ queue' = queue
      \/ offset + n = Len(e) /\ offset' = 0 /\ queue' = Tail(queue)
  <2>1. offset + n < Len(e) \/ offset + n = Len(e)
    <3>1. queue # <<>>
      BY <1>1 DEF TypeOK
    <3>2. Len(e) \in Nat /\ offset \in Nat
      BY <3>1, FrontIs, Typed DEF HeaderBytes
    <3>. HIDE DEF e
    <3>. QED BY <1>1, <3>2
  <2>2. \/ offset + n < Len(e) /\ offset' = offset + n /\ queue' = queue
        \/ ~(offset + n < Len(e)) /\ offset' = 0 /\ queue' = Tail(queue)
    BY DEF WriteSome
  <2>. HIDE DEF e
  <2>. QED BY <2>1, <2>2
<1>3. b \in Seq(Byte(Len(sent))) /\ Len(b) = n /\ \A i \in 1 .. n : b[i] = <<q, offset + i>>
  BY <1>1, WrittenIs
<1>4. /\ queue # <<>> /\ q \in first .. Len(sent) /\ q \in 1 .. Len(sent)
      /\ Len(e) = Full(q) /\ Full(q) \in Nat /\ offset < Full(q)
  <2>1. queue # <<>>
    BY <1>1 DEF TypeOK
  <2>. QED BY <2>1, FrontIs, FullIs DEF Full, FullOf
<1>5. /\ L \in Nat /\ Len(sent) \in Nat
      /\ \A i \in 1 .. L : Stream[i][1] \in 1 .. Len(sent) /\ Stream[i][2] \in Nat \ {0}
      /\ queue \in Seq(first .. Len(sent)) /\ got \in Seq(0 .. Len(sent)) /\ Len(queue) \in Nat
      /\ offset \in Nat /\ first \in 1 .. Len(sent) + 1
      /\ wire \in Seq(Byte(Len(sent))) /\ acc \in Seq(Byte(Len(sent)))
      /\ Stream \in Seq(Byte(Len(sent)))
  BY StreamIs, Typed
<1>6. n \in Nat \ {0} /\ offset + n <= Full(q)
  <2>. HIDE DEF e
  <2>. QED BY <1>1, <1>4, <1>5
<1>. HIDE DEF b, e, q
<1>7. Stream' = Stream \o b
  <2>1. acc \o (wire \o b) = (acc \o wire) \o b
    <3> DEFINE S == Byte(Len(sent))
    <3>1. acc \in Seq(S) /\ wire \in Seq(S) /\ b \in Seq(S)
      BY <1>3, <1>5
    <3>. HIDE DEF S
    <3>. QED BY <3>1, ConcatAssociative
  <2>2. Stream' = acc \o (wire \o b)
    BY <1>1, Zenon DEF Stream
  <2>. QED BY <2>1, <2>2, Zenon DEF Stream
<1>8. /\ Len(Stream') = L + n
      /\ \A i \in 1 .. L : Stream'[i] = Stream[i]
      /\ \A i \in L + 1 .. L + n : Stream'[i] = b[i - L]
  <2> DEFINE S == Byte(Len(sent))
  <2>1. Stream \in Seq(S) /\ b \in Seq(S)
    BY <1>3, <1>5
  <2>. HIDE DEF S
  <2>2. /\ Len(Stream \o b) = Len(Stream) + Len(b)
        /\ \A i \in 1 .. Len(Stream) : (Stream \o b)[i] = Stream[i]
        /\ \A i \in Len(Stream) + 1 .. Len(Stream) + Len(b) : (Stream \o b)[i] = b[i - Len(Stream)]
    BY <2>1, JoinIs
  <2>. QED BY <1>3, <1>7, <2>2, Zenon
<1>9. \A i \in L + 1 .. L + n : Stream'[i][1] = q /\ Stream'[i][2] = offset + (i - L)
  <2> SUFFICES ASSUME NEW i \in L + 1 .. L + n
               PROVE  Stream'[i][1] = q /\ Stream'[i][2] = offset + (i - L)
    OBVIOUS
  <2>1. i - L \in 1 .. n
    BY <1>5, <1>6
  <2>2. Stream'[i] = <<q, offset + (i - L)>>
    BY <1>3, <1>8, <2>1
  <2>. QED BY <2>2
<1>10. \A k : FullOf(sent', k) = Full(k)
  BY <1>1, Zenon DEF Full
<1>11. 1 \in 1 .. Len(queue) /\ queue[1] = q
  BY <1>4, <1>5 DEF q
<1>. HIDE DEF L
\* The first new byte comes after the last old one.
<1>12. L # 0 =>
         /\ offset > 0 => Stream[L][1] = q /\ Stream[L][2] = offset
         /\ offset = 0 => Stream[L][2] = Full(Stream[L][1]) /\ Stream[L][1] < q
  <2>1. SUFFICES ASSUME L # 0
                 PROVE  /\ offset > 0 => Stream[L][1] = q /\ Stream[L][2] = offset
                        /\ offset = 0 => Stream[L][2] = Full(Stream[L][1]) /\ Stream[L][1] < q
    OBVIOUS
  <2>2. Stream # <<>> /\ L \in 1 .. L
    BY <1>5, <2>1 DEF L
  <2>3. /\ offset > 0 => Stream[L][1] = q /\ Stream[L][2] = offset
        /\ offset = 0 => Stream[L][2] = Full(Stream[L][1])
    BY <1>1, <1>11, <2>2 DEF Intact, Seam, L
  <2>4. Stream[L][1] <= q /\ (Stream[L][1] = q => Stream[L][2] <= offset)
    BY <1>11, <2>2 DEF Intact, Ahead, L
  <2>5. Stream[L][1] \in Nat /\ q \in Nat /\ Stream[L][2] \in Nat \ {0}
    BY <1>4, <1>5, <2>2
  <2>6. offset = 0 => Stream[L][1] < q
    <3> DEFINE u == Stream[L][1]
               v == Stream[L][2]
    <3>1. u \in Nat /\ q \in Nat /\ v \in Nat \ {0} /\ u <= q /\ (u = q => v <= offset)
      BY <2>4, <2>5
    <3>. HIDE DEF u, v
    <3>2. offset = 0 => u < q
      BY <3>1
    <3>. QED BY <3>2 DEF u
  <2>. QED BY <2>3, <2>6
<1>13. Run(Stream)'
  <2>1. \A i \in 1 .. Len(Stream') : Stream'[i][2] <= FullOf(sent', Stream'[i][1])
    <3> SUFFICES ASSUME NEW i \in 1 .. L + n PROVE Stream'[i][2] <= FullOf(sent', Stream'[i][1])
      BY <1>8
    <3>1. CASE i \in 1 .. L
      <4>1. Stream[i][2] <= Full(Stream[i][1])
        BY <3>1 DEF Intact, Run, L
      <4>. QED BY <1>5, <1>8, <1>10, <3>1, <4>1
    <3>2. CASE i \in L + 1 .. L + n
      <4>1. offset + (i - L) <= Full(q)
        BY <1>4, <1>5, <1>6, <3>2
      <4>. QED BY <1>4, <1>9, <1>10, <3>2, <4>1
    <3>. QED BY <1>5, <1>6, <3>1, <3>2
  <2>2. \A i \in 1 .. Len(Stream') - 1 : Follows(Stream[i], Stream[i + 1])'
    <3> SUFFICES ASSUME NEW i \in 1 .. (L + n) - 1 PROVE Follows(Stream[i], Stream[i + 1])'
      BY <1>8
    <3>1. CASE i \in 1 .. L - 1
      <4>1. Follows(Stream[i], Stream[i + 1])
        BY <3>1 DEF Intact, Run, L
      <4>2. i \in 1 .. L /\ i + 1 \in 1 .. L
        BY <1>5, <3>1
      <4>3. Full(Stream[i][1])' = Full(Stream[i][1])
        BY <1>8, <1>10, <4>2 DEF Full
      <4>. QED BY <1>8, <4>1, <4>2, <4>3 DEF Follows
    <3>2. CASE i = L
      <4>1. L # 0 /\ i \in 1 .. L /\ i + 1 \in L + 1 .. L + n /\ offset + ((i + 1) - L) = offset + 1
        BY <1>5, <1>6, <3>2
      <4>2. Stream'[i] = Stream[i] /\ Stream'[i + 1][1] = q /\ Stream'[i + 1][2] = offset + 1
        BY <1>8, <1>9, <4>1
      <4>3. Full(Stream[i][1])' = Full(Stream[i][1])
        BY <1>10, <4>2 DEF Full
      <4>4. CASE offset > 0
        BY <1>4, <1>5, <1>12, <3>2, <4>1, <4>2, <4>3, <4>4 DEF Follows
      <4>5. CASE offset = 0
        BY <1>5, <1>12, <3>2, <4>1, <4>2, <4>3, <4>5 DEF Follows
      <4>. QED BY <1>5, <4>4, <4>5
    <3>3. CASE i \in L + 1 .. (L + n) - 1
      <4>1. /\ i \in L + 1 .. L + n /\ i + 1 \in L + 1 .. L + n
            /\ offset + (i - L) < Full(q) /\ offset + ((i + 1) - L) = (offset + (i - L)) + 1
        BY <1>4, <1>5, <1>6, <3>3
      <4>2. /\ Stream'[i][1] = q /\ Stream'[i][2] = offset + (i - L)
            /\ Stream'[i + 1][1] = q /\ Stream'[i + 1][2] = offset + ((i + 1) - L)
        BY <1>9, <4>1
      <4>3. Full(Stream[i][1])' = Full(q)
        BY <1>10, <4>2 DEF Full
      <4>. QED BY <1>4, <4>1, <4>2, <4>3 DEF Follows
    <3>. QED BY <1>5, <1>6, <3>1, <3>2, <3>3
  <2>3. Stream' # <<>> => Stream'[1][2] = 1 /\ first' <= Stream'[1][1]
    <3>1. CASE L = 0
      <4>1. Stream = <<>>
        BY <1>5, <3>1 DEF L
      <4>2. offset = 0
        BY <1>1, <1>5, <4>1 DEF Intact, Seam
      <4>3. 1 \in L + 1 .. L + n /\ offset + (1 - L) = 1
        BY <1>5, <1>6, <3>1, <4>2
      <4>. QED BY <1>1, <1>4, <1>5, <1>9, <4>3
    <3>2. CASE L # 0
      <4>1. Stream # <<>> /\ 1 \in 1 .. L
        BY <1>5, <3>2 DEF L
      <4>. QED BY <1>1, <1>8, <4>1 DEF Intact, Run
    <3>. QED BY <3>1, <3>2
  <2>. QED BY <2>1, <2>2, <2>3, Zenon DEF Run, Full
<1>14. Behind(Stream)'
  <2>1. CASE L = 0
    <3>1. 1 \in L + 1 .. L + n
      BY <1>5, <1>6, <2>1
    <3>2. \A i \in 1 .. Len(got) : got[i] < q
      BY <1>11 DEF Intact, Ahead
    <3>. QED BY <1>1, <1>9, <3>1, <3>2 DEF Behind
  <2>2. CASE L # 0
    <3>1. Stream # <<>> /\ 1 \in 1 .. L
      BY <1>5, <2>2 DEF L
    <3>. QED BY <1>1, <1>8, <3>1 DEF Intact, Behind
  <2>. QED BY <2>1, <2>2
\* No old byte is after the front frame, no new one is of another.
<1>15. /\ \A i \in 1 .. L : Stream[i][1] <= q /\ (Stream[i][1] = q => Stream[i][2] <= offset)
       /\ \A i \in 1 .. L + n :
            /\ Stream'[i][1] \in Nat /\ Stream'[i][2] \in Nat
            /\ Stream'[i][1] <= q /\ (Stream'[i][1] = q => Stream'[i][2] <= offset + n)
  <2>1. \A i \in 1 .. L : Stream[i][1] <= q /\ (Stream[i][1] = q => Stream[i][2] <= offset)
    BY <1>11 DEF Intact, Ahead, L
  <2>2. ASSUME NEW i \in 1 .. L + n
        PROVE  /\ Stream'[i][1] \in Nat /\ Stream'[i][2] \in Nat
               /\ Stream'[i][1] <= q /\ (Stream'[i][1] = q => Stream'[i][2] <= offset + n)
    <3>1. CASE i \in 1 .. L
      <4>1. Stream'[i] = Stream[i] /\ Stream[i][1] \in Nat /\ Stream[i][2] \in Nat
        BY <1>5, <1>8, <3>1
      <4> DEFINE u == Stream[i][1]
                 v == Stream[i][2]
      <4>2. u \in Nat /\ v \in Nat /\ u <= q /\ (u = q => v <= offset) /\ offset \in Nat /\ n \in Nat
        BY <1>5, <1>6, <2>1, <3>1, <4>1
      <4>. HIDE DEF u, v
      <4>3. u = q => v <= offset + n
        BY <4>2
      <4>. QED BY <4>1, <4>2, <4>3 DEF u, v
    <3>2. CASE i \in L + 1 .. L + n
      <4>1. offset + (i - L) \in Nat /\ offset + (i - L) <= offset + n /\ q \in Nat /\ q <= q
        BY <1>4, <1>5, <1>6, <3>2
      <4>. QED BY <1>9, <3>2, <4>1
    <3>. QED BY <1>5, <1>6, <3>1, <3>2
  <2>. QED BY <2>1, <2>2
<1>16. CASE offset + n < Len(e) /\ offset' = offset + n /\ queue' = queue
  <2>1. Ahead(Stream)'
    <3> SUFFICES ASSUME NEW j \in 1 .. Len(queue)
                 PROVE  /\ \A i \in 1 .. Len(got) : got[i] < queue[j]
                        /\ \A i \in 1 .. L + n :
                             /\ Stream'[i][1] <= queue[j]
                             /\ Stream'[i][1] = queue[j] => j = 1 /\ Stream'[i][2] <= offset + n
      BY <1>1, <1>8, <1>16 DEF Ahead
    <3>1. \A i \in 1 .. Len(got) : got[i] < queue[j]
      BY DEF Intact, Ahead
    <3>2. CASE j = 1
      BY <1>11, <1>15, <3>1, <3>2
    <3>3. CASE j # 1
      <4>1. q < queue[j] /\ queue[j] \in Nat /\ q \in Nat
        BY <1>5, <1>11, <3>3 DEF Intact, InOrder
      <4>. QED BY <1>15, <3>1, <4>1
    <3>. QED BY <3>2, <3>3
  <2>2. Seam(Stream)'
    <3>1. L + n \in L + 1 .. L + n /\ offset + ((L + n) - L) = offset + n /\ offset + n > 0
      BY <1>5, <1>6
    <3>2. Stream'[L + n][1] = q /\ Stream'[L + n][2] = offset + n
      BY <1>9, <3>1
    <3>3. Stream' # <<>>
      BY <1>5, <1>6, <1>8
    <3>4. ~(offset + n = 0)
      BY <1>5, <3>1
    <3>. QED BY <1>8, <1>11, <1>16, <3>1, <3>2, <3>3, <3>4 DEF Seam
  <2>3. InOrder'
    BY <1>1, <1>16 DEF Intact, InOrder
  <2>. QED BY <1>13, <1>14, <2>1, <2>2, <2>3 DEF Intact
<1>17. CASE offset + n = Len(e) /\ offset' = 0 /\ queue' = Tail(queue)
  <2>0. Len(queue') = Len(queue) - 1 /\ \A j \in 1 .. Len(queue) - 1 : queue'[j] = queue[j + 1]
    BY <1>4, <1>5, <1>17
  <2>1. Ahead(Stream)'
    <3> SUFFICES ASSUME NEW j \in 1 .. Len(queue) - 1
                 PROVE  /\ \A i \in 1 .. Len(got) : got[i] < queue[j + 1]
                        /\ \A i \in 1 .. L + n :
                             /\ Stream'[i][1] <= queue[j + 1]
                             /\ Stream'[i][1] # queue[j + 1]
      BY <1>1, <1>8, <1>17, <2>0 DEF Ahead
    <3>1. j + 1 \in 1 .. Len(queue) /\ 1 < j + 1
      BY <1>5
    <3>2. \A i \in 1 .. Len(got) : got[i] < queue[j + 1]
      BY <3>1 DEF Intact, Ahead
    <3>3. q < queue[j + 1] /\ queue[j + 1] \in Nat /\ q \in Nat
      <4>1. \A i, k \in 1 .. Len(queue) : i < k => queue[i] < queue[k]
        BY Zenon DEF Intact, InOrder
      <4>2. queue[1] < queue[j + 1]
        BY <1>11, <3>1, <4>1
      <4>3. queue[j + 1] \in first .. Len(sent)
        BY <1>5, <3>1
      <4>. QED BY <1>4, <1>5, <1>11, <4>2, <4>3
    <3>. QED BY <1>15, <3>2, <3>3
  <2>2. Seam(Stream)'
    <3>1. L + n \in L + 1 .. L + n /\ offset + ((L + n) - L) = offset + n
      BY <1>5, <1>6
    <3>2. Stream'[L + n][1] = q /\ Stream'[L + n][2] = Full(q)
      BY <1>4, <1>9, <1>17, <3>1
    <3>3. FullOf(sent', q) = Full(q)
      BY <1>10
    <3>. QED BY <1>8, <1>17, <3>2, <3>3 DEF Seam, Full
  <2>3. InOrder'
    <3>1. \A i, j \in 1 .. Len(queue') : i < j => queue'[i] < queue'[j]
      <4> SUFFICES ASSUME NEW i \in 1 .. Len(queue) - 1, NEW j \in 1 .. Len(queue) - 1, i < j
                   PROVE  queue[i + 1] < queue[j + 1]
        BY <2>0, Zenon
      <4>1. i + 1 \in 1 .. Len(queue) /\ j + 1 \in 1 .. Len(queue) /\ i + 1 < j + 1
        <5> DEFINE l == Len(queue)
        <5>1. l \in Nat /\ i \in 1 .. l - 1 /\ j \in 1 .. l - 1
          BY <1>5
        <5>. HIDE DEF l
        <5>2. i + 1 \in 1 .. l /\ j + 1 \in 1 .. l /\ i + 1 < j + 1
          BY <5>1
        <5>. QED BY <5>2 DEF l
      <4>. QED BY <4>1 DEF Intact, InOrder
    <3>. QED BY <1>1, <3>1 DEF Intact, InOrder
  <2>. QED BY <1>13, <1>14, <2>1, <2>2, <2>3 DEF Intact
<1>. QED BY <1>2, <1>16, <1>17

(* A connection that ends cuts the stream off somewhere.                   *)
LEMMA IntactLoss ==
    ASSUME TypeOK, Intact(Stream), UNCHANGED <<sent, first, acc, got>>,
           wire' = wire \/ wire' = <<>>, ~open',
           queue' = <<>> \/ (queue' = queue /\ offset' = offset)
    PROVE  Intact(Stream)'
<1>1. /\ Len(Stream) \in Nat /\ Len(Stream) = Len(acc) + Len(wire)
      /\ \A i \in 1 .. Len(acc) : Stream[i] = acc[i]
      /\ wire \in Seq(Byte(Len(sent))) /\ acc \in Seq(Byte(Len(sent)))
      /\ Len(acc) \in Nat /\ Len(wire) \in Nat
  BY StreamIs, Typed
<1>2. Stream' = Stream \/ Stream' = acc
  <2>1. CASE wire' = wire
    BY <2>1, Zenon DEF Stream
  <2>2. CASE wire' = <<>>
    <3>1. acc \o <<>> = acc
      BY <1>1, ConcatEmptySeq
    <3>. QED BY <2>2, <3>1, Zenon DEF Stream
  <2>. QED BY <2>1, <2>2
<1>3. /\ Len(Stream') \in Nat /\ Len(Stream') <= Len(Stream)
      /\ \A i \in 1 .. Len(Stream') : Stream'[i] = Stream[i]
      /\ Stream' # <<>> => Stream # <<>> /\ 1 \in 1 .. Len(Stream')
  <2>1. CASE Stream' = Stream
    BY <1>1, <2>1, StreamIs
  <2>2. CASE Stream' = acc
    BY <1>1, <2>2, StreamIs
  <2>. QED BY <1>2, <2>1, <2>2
<1>4. \A k : FullOf(sent', k) = FullOf(sent, k)
  OBVIOUS
<1>5. Run(Stream)'
  <2>1. \A i \in 1 .. Len(Stream') : Stream'[i][2] <= FullOf(sent', Stream'[i][1])
    <3> SUFFICES ASSUME NEW i \in 1 .. Len(Stream')
                 PROVE  Stream'[i][2] <= FullOf(sent', Stream'[i][1])
      OBVIOUS
    <3>1. i \in 1 .. Len(Stream)
      BY <1>1, <1>3
    <3>2. Stream[i][2] <= FullOf(sent, Stream[i][1])
      BY <3>1, Zenon DEF Intact, Run, Full
    <3>. QED BY <1>3, <1>4, <3>2
  <2>2. \A i \in 1 .. Len(Stream') - 1 : Follows(Stream[i], Stream[i + 1])'
    <3> SUFFICES ASSUME NEW i \in 1 .. Len(Stream') - 1 PROVE Follows(Stream[i], Stream[i + 1])'
      OBVIOUS
    <3>1. i \in 1 .. Len(Stream) - 1 /\ i \in 1 .. Len(Stream') /\ i + 1 \in 1 .. Len(Stream')
      BY <1>1, <1>3
    <3>2. Follows(Stream[i], Stream[i + 1])
      BY <3>1, Zenon DEF Intact, Run
    <3>3. Stream'[i] = Stream[i] /\ Stream'[i + 1] = Stream[i + 1]
      BY <1>3, <3>1
    <3>. QED BY <1>4, <3>2, <3>3 DEF Follows, Full
  <2>3. Stream' # <<>> => Stream'[1][2] = 1 /\ first' <= Stream'[1][1]
    BY <1>3 DEF Intact, Run
  <2>. QED BY <2>1, <2>2, <2>3, Zenon DEF Run, Full
<1>6. Behind(Stream)'
  BY <1>3 DEF Intact, Behind
<1>7. Seam(Stream)'
  BY Zenon DEF Seam
<1>8. CASE queue' = <<>>
  <2>1. Ahead(Stream)'
    BY <1>8 DEF Ahead
  <2>2. InOrder'
    BY <1>8 DEF Intact, InOrder
  <2>. QED BY <1>5, <1>6, <1>7, <2>1, <2>2 DEF Intact
<1>9. CASE queue' = queue /\ offset' = offset
  <2>1. \A i \in 1 .. Len(Stream') : i \in 1 .. Len(Stream)
    BY <1>1, <1>3
  <2>2. Ahead(Stream)'
    BY <1>3, <1>9, <2>1 DEF Intact, Ahead
  <2>3. InOrder'
    BY <1>9 DEF Intact, InOrder
  <2>. QED BY <1>5, <1>6, <1>7, <2>2, <2>3 DEF Intact
<1>. QED BY <1>8, <1>9

(* A read moves bytes from one part of the stream to the other.            *)
LEMMA IntactRead ==
    ASSUME TypeOK, Intact(Stream), NEW n, ReadSome(n)
    PROVE  Intact(Stream)'
<1> DEFINE x == SubSeq(wire, 1, n)
           y == SubSeq(wire, n + 1, Len(wire))
           S == Byte(Len(sent))
<1>1. /\ n \in 1 .. Len(wire) /\ acc' = acc \o x /\ wire' = y
      /\ UNCHANGED <<sent, first, queue, offset, got, open>>
  BY DEF ReadSome
<1>2. x \in Seq(S) /\ y \in Seq(S) /\ acc \in Seq(S) /\ wire \in Seq(S)
  BY <1>1, ReadIs, Typed
<1>3. x \o y = wire
  <2>1. 1 \in 1 .. Len(wire) + 1 /\ n \in 1 - 1 .. Len(wire) /\ Len(wire) \in n .. Len(wire)
    BY <1>1, <1>2
  <2>. HIDE DEF S
  <2>2. SubSeq(wire, 1, n) \o SubSeq(wire, n + 1, Len(wire)) = SubSeq(wire, 1, Len(wire))
    BY <1>2, <2>1, ConcatAdjacentSubSeq
  <2>3. SubSeq(wire, 1, Len(wire)) = wire
    BY <1>2, SubSeqFull
  <2>. QED BY <2>2, <2>3
<1>. HIDE DEF x, y, S
<1>4. (acc \o x) \o y = acc \o (x \o y)
  BY <1>2, ConcatAssociative
<1>5. Stream' = Stream
  BY <1>1, <1>3, <1>4, Zenon DEF Stream
<1>. QED BY <1>1, <1>5 DEF Intact, Run, Behind, Ahead, Seam, InOrder, Follows, Full

\* r is what is left of c when its first f elements are dropped.
IsRest(r, c, f) == Len(c) = f + Len(r) /\ \A i \in 1 .. Len(r) : r[i] = c[f + i]

(* What a decoder leaves behind a frame is the rest of its accumulator. *)
LEMMA RestIs ==
    ASSUME NEW S, NEW c \in Seq(S), NEW f \in 1 .. Len(c)
    PROVE  SubSeq(c, f + 1, Len(c)) \in Seq(S) /\ IsRest(SubSeq(c, f + 1, Len(c)), c, f)
<1> DEFINE x == f + 1
           l == Len(c)
<1>1. /\ x \in Nat \ {0} /\ l \in Nat /\ l <= Len(c) /\ x <= l + 1 /\ l - x + 1 = l - f
      /\ \A i \in 1 .. l - f : x + i - 1 = f + i
  OBVIOUS
<1>. HIDE DEF x, l
<1>2. /\ SubSeq(c, x, l) \in Seq(S) /\ Len(SubSeq(c, x, l)) = l - x + 1
      /\ \A i \in 1 .. l - x + 1 : SubSeq(c, x, l)[i] = c[x + i - 1]
  BY <1>1, PartIs
<1>3. Len(SubSeq(c, x, l)) = l - f /\ \A i \in 1 .. l - f : SubSeq(c, x, l)[i] = c[f + i]
  BY <1>1, <1>2
<1>4. f + (l - f) = l
  BY <1>1
<1>. QED BY <1>2, <1>3, <1>4, Zenon DEF x, l, IsRest

(* The same with another sequence behind it.                               *)
LEMMA Dropped ==
    ASSUME NEW S, NEW c \in Seq(S), NEW w \in Seq(S), NEW f \in 1 .. Len(c), NEW r \in Seq(S),
           IsRest(r, c, f)
    PROVE  r \o w \in Seq(S) /\ IsRest(r \o w, c \o w, f)
<1> DEFINE l == Len(c)
           m == Len(w)
<1>1. l \in Nat /\ m \in Nat /\ f \in Nat /\ f <= l /\ Len(r) = l - f
  BY DEF IsRest
<1>2. \A i \in 1 .. l - f : r[i] = c[f + i]
  BY <1>1 DEF IsRest
<1>3. /\ r \o w \in Seq(S) /\ Len(r \o w) = Len(r) + Len(w)
      /\ \A i \in 1 .. Len(r) : (r \o w)[i] = r[i]
      /\ \A i \in Len(r) + 1 .. Len(r) + Len(w) : (r \o w)[i] = w[i - Len(r)]
  BY JoinIs
<1>4. /\ Len(c \o w) = Len(c) + Len(w)
      /\ \A i \in 1 .. Len(c) : (c \o w)[i] = c[i]
      /\ \A i \in Len(c) + 1 .. Len(c) + Len(w) : (c \o w)[i] = w[i - Len(c)]
  BY JoinIs
<1>. HIDE DEF l, m
<1>5. \A i \in 1 .. (l - f) + m :
        \/ i \in 1 .. l - f /\ f + i \in 1 .. l
        \/ /\ i \in (l - f) + 1 .. (l - f) + m /\ f + i \in l + 1 .. l + m
           /\ i - (l - f) = (f + i) - l
  BY <1>1
<1>6. \A i \in 1 .. (l - f) + m : (r \o w)[i] = (c \o w)[f + i]
  <2> SUFFICES ASSUME NEW i \in 1 .. (l - f) + m PROVE (r \o w)[i] = (c \o w)[f + i]
    OBVIOUS
  <2>1. CASE i \in 1 .. l - f /\ f + i \in 1 .. l
    BY <1>1, <1>2, <1>3, <1>4, <2>1 DEF l
  <2>2. CASE /\ i \in (l - f) + 1 .. (l - f) + m /\ f + i \in l + 1 .. l + m
             /\ i - (l - f) = (f + i) - l
    <3>1. (r \o w)[i] = w[i - (l - f)]
      BY <1>1, <1>3, <2>2, Zenon DEF m
    <3>2. (c \o w)[f + i] = w[(f + i) - l]
      BY <1>4, <2>2, Zenon DEF l, m
    <3>. QED BY <2>2, <3>1, <3>2
  <2>. QED BY <1>5, <2>1, <2>2
<1>7. Len(r \o w) = (l - f) + m
  BY <1>1, <1>3, Zenon DEF m
<1>8. Len(c \o w) = l + m
  BY <1>4, Zenon DEF l, m
<1>9. (l - f) + m \in Nat /\ l + m = f + ((l - f) + m)
  BY <1>1
<1>. QED BY <1>3, <1>6, <1>7, <1>8, <1>9, Zenon DEF IsRest

\* The client takes frame k, the first of its accumulator.
Took(k) ==
    /\ link = "down" /\ k = acc[1][1]
    /\ Len(acc) >= HeaderBytes /\ Len(acc) >= Full(k)
    /\ acc' = SubSeq(acc, Full(k) + 1, Len(acc))
    /\ got' = got \/ got' = Append(got, k)
    /\ UNCHANGED <<sent, first, queue, offset, wire, open>>

(* A whole frame leaves the stream at its front.                           *)
LEMMA IntactTake ==
    ASSUME TypeOK, Fits, Intact(Stream), NEW k \in 1 .. Len(sent), Took(k)
    PROVE  Intact(Stream)'
<1> DEFINE F == Full(k)
           S == Byte(Len(sent))
           L == Len(Stream)
           M == Len(Stream')
<1>1. /\ Stream \in Seq(S) /\ L \in Nat /\ L = Len(acc) + Len(wire) /\ Len(acc) \in Nat /\ Len(wire) \in Nat
      /\ \A i \in 1 .. L : Stream[i][1] \in 1 .. Len(sent) /\ Stream[i][2] \in Nat \ {0}
      /\ acc \in Seq(S) /\ wire \in Seq(S) /\ Len(sent) \in Nat
      /\ queue \in Seq(first .. Len(sent)) /\ got \in Seq(0 .. Len(sent)) /\ Len(queue) \in Nat
      /\ offset \in Nat /\ first \in 1 .. Len(sent) + 1
  BY StreamIs, Typed
<1>2. F \in Nat /\ F <= Len(acc) /\ F > 0 /\ F \in 1 .. Len(acc)
  <2>1. F \in Nat /\ HeaderBytes < F /\ Len(acc) >= F
    BY FullIs, Zenon DEF Took
  <2>. HIDE DEF F
  <2>. QED BY <1>1, <2>1 DEF HeaderBytes
<1>3. Run(Stream)
  BY DEF Intact
<1>4. Stream # <<>> /\ k = Stream[1][1]
  BY <1>3, HeadIs DEF Took
<1>5. \A i \in 1 .. L : i <= F => Stream[i][1] = k /\ Stream[i][2] = i
  BY <1>1, <1>3, <1>4, FirstFrame
\* The stream is the frame and what is left.
<1>6. /\ L = F + M /\ M \in Nat /\ Stream' \in Seq(S)
      /\ \A i \in 1 .. M : Stream'[i] = Stream[F + i]
  <2> DEFINE r == SubSeq(acc, F + 1, Len(acc))
  <2>1. acc' = r /\ wire' = wire
    BY DEF Took
  <2>2. Stream' = r \o wire
    BY <2>1, Zenon DEF Stream
  <2>. HIDE DEF S, F
  <2>3. acc \in Seq(S) /\ wire \in Seq(S) /\ F \in 1 .. Len(acc)
    BY <1>1, <1>2
  <2>4. r \in Seq(S) /\ IsRest(r, acc, F)
    BY <2>3, RestIs
  <2>. HIDE DEF r
  <2>5. r \o wire \in Seq(S) /\ IsRest(r \o wire, acc \o wire, F)
    BY <2>3, <2>4, Dropped
  <2>6. Stream' \in Seq(S) /\ IsRest(Stream', Stream, F)
    BY <2>2, <2>5, Zenon DEF Stream
  <2>7. M \in Nat
    BY <2>6
  <2>. QED BY <2>6, <2>7, Zenon DEF IsRest
<1>. HIDE DEF M, F, L, S
<1>7. F \in 1 .. L /\ Stream[F][1] = k /\ Stream[F][2] = F
  BY <1>1, <1>2, <1>5
<1>8. /\ \A i \in 1 .. M : F + i \in 1 .. L /\ 1 \in 1 .. M /\ Stream'[i][1] \in Nat
      /\ \A i \in 1 .. M - 1 :
            F + i \in 1 .. L - 1 /\ i \in 1 .. M /\ i + 1 \in 1 .. M /\ F + (i + 1) = (F + i) + 1
  <2>1. F \in Nat /\ F > 0 /\ M \in Nat /\ L = F + M
    BY <1>2, <1>6
  <2>2. /\ \A i \in 1 .. M : F + i \in 1 .. L /\ 1 \in 1 .. M
        /\ \A i \in 1 .. M - 1 :
              F + i \in 1 .. L - 1 /\ i \in 1 .. M /\ i + 1 \in 1 .. M /\ F + (i + 1) = (F + i) + 1
    BY <2>1
  <2>3. \A i \in 1 .. L : Stream[i][1] \in Nat
    BY <1>1
  <2>. QED BY <1>6, <2>2, <2>3
\* What is behind the frame starts a later one.
<1>9. M # 0 => Stream'[1][2] = 1 /\ k < Stream'[1][1]
  <2> SUFFICES ASSUME M # 0 PROVE Stream'[1][2] = 1 /\ k < Stream'[1][1]
    OBVIOUS
  <2>1. F \in 1 .. L - 1 /\ 1 \in 1 .. M
    BY <1>1, <1>2, <1>6
  <2>2. Follows(Stream[F], Stream[F + 1])
    BY <1>3, <2>1 DEF Run, L
  <2>3. ~(F < F)
    BY <1>2
  <2>. QED BY <1>6, <1>7, <2>1, <2>2, <2>3 DEF Follows, F
<1>10. first <= k
  BY <1>3, <1>4 DEF Run
<1>11. Stream' # <<>> => M # 0
  BY <1>6 DEF M
<1>12. M # 0 => Stream' # <<>>
  BY DEF M
<1>13. /\ UNCHANGED <<sent, first, queue, offset, open>> /\ (got' = got \/ got' = Append(got, k))
       /\ \A kk : FullOf(sent', kk) = FullOf(sent, kk)
  BY DEF Took
<1>14. Run(Stream)'
  <2>1. \A i \in 1 .. M : Stream'[i][2] <= FullOf(sent', Stream'[i][1])
    <3> SUFFICES ASSUME NEW i \in 1 .. M PROVE Stream'[i][2] <= FullOf(sent', Stream'[i][1])
      OBVIOUS
    <3>1. Stream[F + i][2] <= FullOf(sent, Stream[F + i][1])
      BY <1>3, <1>8, Zenon DEF Run, Full, L
    <3>. QED BY <1>6, <1>13, <3>1
  <2>2. \A i \in 1 .. M - 1 : Follows(Stream[i], Stream[i + 1])'
    <3> SUFFICES ASSUME NEW i \in 1 .. M - 1 PROVE Follows(Stream[i], Stream[i + 1])'
      OBVIOUS
    <3>1. F + i \in 1 .. L - 1 /\ i \in 1 .. M /\ i + 1 \in 1 .. M /\ F + (i + 1) = (F + i) + 1
      BY <1>8
    <3>2. Follows(Stream[F + i], Stream[(F + i) + 1])
      BY <1>3, <3>1, Zenon DEF Run, L
    <3>3. Stream'[i] = Stream[F + i] /\ Stream'[i + 1] = Stream[(F + i) + 1]
      BY <1>6, <3>1
    <3>. QED BY <1>13, <3>2, <3>3 DEF Follows, Full
  <2>3. Stream' # <<>> => Stream'[1][2] = 1 /\ first' <= Stream'[1][1]
    <3> SUFFICES ASSUME Stream' # <<>> PROVE Stream'[1][2] = 1 /\ first' <= Stream'[1][1]
      OBVIOUS
    <3>1. M # 0
      BY <1>11
    <3>2. 1 \in 1 .. M
      BY <1>6, <3>1
    <3>3. Stream'[1][1] \in Nat
      BY <1>8, <3>2
    <3>4. first \in Nat /\ k \in Nat
      BY <1>1
    <3>5. first <= Stream'[1][1]
      BY <1>9, <1>10, <3>1, <3>3, <3>4
    <3>. QED BY <1>9, <1>13, <3>1, <3>5
  <2>. QED BY <2>1, <2>2, <2>3, Zenon DEF Run, Full, M
\* Everything handed on, this frame too, is before what is left and what is queued.
<1>15. \A i \in 1 .. Len(got) : got[i] < k /\ got[i] \in Nat /\ first <= got[i]
  <2>1. \A i \in 1 .. Len(got) : got[i] \in Nat
    BY <1>1
  <2>. QED BY <1>4, <2>1 DEF Intact, Behind, InOrder
<1>16. \A j \in 1 .. Len(queue) :
         queue[j] \in Nat /\ k < queue[j] /\ \A i \in 1 .. Len(got) : got[i] < queue[j]
  <2> SUFFICES ASSUME NEW j \in 1 .. Len(queue)
               PROVE  queue[j] \in Nat /\ k < queue[j] /\ \A i \in 1 .. Len(got) : got[i] < queue[j]
    OBVIOUS
  <2>1. queue[j] \in Nat
    BY <1>1
  <2>2. /\ \A i \in 1 .. Len(got) : got[i] < queue[j]
        /\ k <= queue[j] /\ (k = queue[j] => j = 1 /\ F <= offset)
    BY <1>7 DEF Intact, Ahead, L
  <2>3. k # queue[j]
    <3>1. SUFFICES ASSUME k = queue[j] PROVE FALSE
      OBVIOUS
    <3>2. queue # <<>> /\ k = queue[1] /\ F <= offset
      BY <1>1, <2>2, <3>1
    <3>3. offset < F
      BY <3>2, FrontIs DEF F, Full, FullOf
    <3>. QED BY <1>1, <1>2, <3>2, <3>3
  <2>. QED BY <2>1, <2>2, <2>3
<1>17. /\ Len(got') \in Nat
       /\ \A i \in 1 .. Len(got') : got'[i] \in Nat /\ got'[i] <= k /\ first <= got'[i]
       /\ \A i \in 1 .. Len(got') - 1 : got'[i] < got'[i + 1]
  <2>1. \A i \in 1 .. Len(got) - 1 : got[i] < got[i + 1]
    BY DEF Intact, InOrder
  <2>2. CASE got' = got
    BY <1>1, <1>2, <1>15, <2>1, <2>2
  <2>3. CASE got' = Append(got, k)
    <3>1. /\ Len(got) \in Nat /\ Len(got') = Len(got) + 1 /\ got'[Len(got) + 1] = k
          /\ \A i \in 1 .. Len(got) : got'[i] = got[i]
      <4> DEFINE T == 0 .. Len(sent)
      <4>1. got \in Seq(T) /\ k \in T
        BY <1>1
      <4>. HIDE DEF T
      <4>. QED BY <2>3, <4>1, AppendProperties
    <3>2. ASSUME NEW i \in 1 .. Len(got') PROVE got'[i] \in Nat /\ got'[i] <= k /\ first <= got'[i]
      <4>1. i \in 1 .. Len(got) \/ i = Len(got) + 1
        BY <3>1
      <4>. QED BY <1>10, <1>15, <3>1, <4>1
    <3>3. ASSUME NEW i \in 1 .. Len(got') - 1 PROVE got'[i] < got'[i + 1]
      <4>1. i \in 1 .. Len(got) - 1 \/ i = Len(got)
        BY <3>1
      <4>2. CASE i \in 1 .. Len(got) - 1
        <5>1. i \in 1 .. Len(got) /\ i + 1 \in 1 .. Len(got)
          BY <3>1, <4>2
        <5>. QED BY <2>1, <3>1, <4>2, <5>1
      <4>3. CASE i = Len(got)
        <5>1. i \in 1 .. Len(got) /\ got'[i + 1] = k
          BY <3>1, <4>3
        <5>. QED BY <1>15, <3>1, <5>1
      <4>. QED BY <4>1, <4>2, <4>3
    <3>. QED BY <3>1, <3>2, <3>3
  <2>. QED BY <1>13, <2>2, <2>3
<1>18. Behind(Stream)'
  <2> SUFFICES ASSUME Stream' # <<>>, NEW i \in 1 .. Len(got') PROVE got'[i] < Stream'[1][1]
    BY DEF Behind
  <2>1. k < Stream'[1][1] /\ 1 \in 1 .. M
    BY <1>6, <1>9, <1>11
  <2>2. Stream'[1][1] \in Nat
    BY <1>8, <2>1
  <2>. QED BY <1>17, <2>1, <2>2
<1>19. Ahead(Stream)'
  <2> SUFFICES ASSUME NEW j \in 1 .. Len(queue)
               PROVE  /\ \A i \in 1 .. Len(got') : got'[i] < queue[j]
                      /\ \A i \in 1 .. M :
                           /\ Stream'[i][1] <= queue[j]
                           /\ Stream'[i][1] = queue[j] => j = 1 /\ Stream'[i][2] <= offset
    BY <1>13 DEF Ahead, M
  <2>1. \A i \in 1 .. Len(got') : got'[i] < queue[j]
    <3> SUFFICES ASSUME NEW i \in 1 .. Len(got') PROVE got'[i] < queue[j]
      OBVIOUS
    <3>1. got'[i] \in Nat /\ got'[i] <= k /\ queue[j] \in Nat /\ k < queue[j]
      BY <1>16, <1>17
    <3>. QED BY <3>1
  <2>2. \A i \in 1 .. L :
           /\ Stream[i][1] <= queue[j]
           /\ Stream[i][1] = queue[j] => j = 1 /\ Stream[i][2] <= offset
    BY DEF Intact, Ahead, L
  <2>. QED BY <1>6, <1>8, <2>1, <2>2
<1>20. Seam(Stream)'
  <2>1. M # 0 => Stream'[M] = Stream[L]
    <3> SUFFICES ASSUME M # 0 PROVE Stream'[M] = Stream[L]
      OBVIOUS
    <3>1. M \in 1 .. M /\ F + M = L
      BY <1>6
    <3>. QED BY <1>6, <3>1
  <2>2. open => /\ offset > 0 => Stream[L][1] = queue[1] /\ Stream[L][2] = offset
                /\ offset = 0 => Stream[L][2] = FullOf(sent, Stream[L][1])
    BY <1>4, Zenon DEF Intact, Seam, L, Full
  <2>3. open /\ offset > 0 => M # 0
    <3> SUFFICES ASSUME open, offset > 0, M = 0 PROVE FALSE
      OBVIOUS
    <3>1. L = F
      BY <1>2, <1>6
    <3>2. queue # <<>>
      BY <1>1, Typed DEF InFront
    <3>3. 1 \in 1 .. Len(queue)
      BY <1>1, <3>2
    <3>. QED BY <1>7, <1>16, <2>2, <3>1, <3>3
  <2>. QED BY <1>11, <1>12, <1>13, <2>1, <2>2, <2>3 DEF Seam, Full, M
<1>21. InOrder'
  BY <1>13, <1>17 DEF Intact, InOrder
<1>. QED BY <1>14, <1>18, <1>19, <1>20, <1>21 DEF Intact

(* An empty stream is intact.                                              *)
LEMMA IntactEmpty ==
    ASSUME Stream = <<>>, queue = <<>>, got = <<>>, offset = 0
    PROVE  Intact(Stream)
<1>1. Len(Stream) = 0 /\ Len(queue) = 0 /\ Len(got) = 0
  OBVIOUS
<1>2. Run(Stream)
  BY <1>1 DEF Run
<1>3. Behind(Stream) /\ Seam(Stream)
  BY DEF Behind, Seam
<1>4. Ahead(Stream) /\ InOrder
  BY <1>1 DEF Ahead, InOrder
<1>. QED BY <1>2, <1>3, <1>4 DEF Intact

(* The initial state satisfies the invariant of the client's direction. *)
LEMMA DownInit == Init => DownInv
<1> SUFFICES ASSUME Init PROVE Fits /\ Intact(Stream) /\ Room
  BY DEF DownInv
<1>1. /\ sent = <<>> /\ queue = <<>> /\ got = <<>> /\ offset = 0 /\ acc = <<>> /\ wire = <<>>
      /\ ~reading /\ ~overrun
  BY DEF Init
<1>2. Stream = <<>>
  BY <1>1 DEF Stream
<1>3. Intact(Stream)
  BY <1>1, <1>2, IntactEmpty
<1>4. Fits
  BY <1>1 DEF Fits
<1>5. Room
  BY <1>1, SizesAssumption DEF Room, HeaderBytes
<1>. QED BY <1>3, <1>4, <1>5

(* No action moves a connection to another pair of programs.               *)
LEMMA SameLink == [Next]_vars => link' = link
BY DEF Next, vars, Deliver, DeliverTooLarge, SendJson, Write, WriteSome, WriteFails, Read, ReadSome,
       NeedMore, BadLength, BareMessage, TakeFrame, Cut, Reconnect

(* Every step of the server's link to the client keeps its invariant.      *)
LEMMA DownNext == TypeOK /\ DownInv /\ [Next]_vars => DownInv'
<1> SUFFICES ASSUME TypeOK, DownInv, [Next]_vars, link = "down"
             PROVE  (Fits /\ (~overrun => Intact(Stream)) /\ (AllText => Room))'
  BY SameLink DEF DownInv
<1> DEFINE Goal == (Fits /\ (~overrun => Intact(Stream)) /\ (AllText => Room))'
<1>1. Fits /\ (~overrun => Intact(Stream)) /\ (AllText => Room)
  BY DEF DownInv
<1>2. /\ Len(sent) \in Nat /\ first \in 1 .. Len(sent) + 1
      /\ acc \in Seq(Byte(Len(sent))) /\ Len(acc) \in Nat
  BY Typed
<1>3. ServerMax \in Nat /\ ReadMax \in Nat /\ HeaderBytes \in Nat /\ ClientMax \in Nat
  BY SizesAssumption DEF HeaderBytes
<1>4. ASSUME UNCHANGED <<sent, first>> PROVE Fits' /\ (AllText' <=> AllText)
  BY <1>1, <1>4 DEF Fits, AllText
\* The steps of the writer and of the connection leave the receiver alone.
<1>5. ASSUME UNCHANGED <<sent, first, acc, reading, overrun>>, ~overrun => Intact(Stream)'
      PROVE  Goal
  <2>1. Fits' /\ (AllText' => Room')
    BY <1>1, <1>4, <1>5 DEF Room
  <2>. QED BY <1>5, <2>1
<1>6. ASSUME NEW size \in Size, NEW text \in BOOLEAN, Deliver(size, text) PROVE Goal
  <2> DEFINE r == [size |-> size, text |-> text]
  <2>1. r \in Frame /\ r.size = size
    BY DEF Frame
  <2>2. /\ size <= ServerMax /\ sent' = Append(sent, r)
        /\ UNCHANGED <<first, acc, reading, overrun>>
    BY <1>6 DEF Deliver
  <2>. HIDE DEF r
  <2>3. /\ Len(sent') = Len(sent) + 1 /\ sent'[Len(sent) + 1] = r
        /\ \A k \in 1 .. Len(sent) : sent'[k] = sent[k]
    BY <2>1, <2>2, SentGrows
  <2>4. Fits'
    <3> SUFFICES ASSUME NEW k \in 1 .. Len(sent') PROVE sent'[k].size <= ServerMax
      BY DEF Fits
    <3>1. k \in 1 .. Len(sent) \/ k = Len(sent) + 1
      BY <1>2, <2>3
    <3>. QED BY <1>1, <2>1, <2>2, <2>3, <3>1 DEF Fits
  <2>5. AllText' => AllText
    <3> SUFFICES ASSUME AllText', NEW k \in first .. Len(sent) PROVE sent[k].text
      BY DEF AllText
    <3>1. k \in 1 .. Len(sent) /\ k \in first' .. Len(sent')
      BY <1>2, <2>2, <2>3
    <3>2. sent'[k].text
      BY <3>1, Zenon DEF AllText
    <3>. QED BY <2>3, <3>1, <3>2
  <2>6. AllText' => Room'
    BY <1>1, <2>2, <2>5 DEF Room
  <2>7. ~overrun' => Intact(Stream)'
    BY <1>1, <1>6, <2>2, IntactDeliver
  <2>. QED BY <2>4, <2>6, <2>7
<1>7. ASSUME NEW size \in Size, DeliverTooLarge(size) PROVE Goal
  <2>1. /\ UNCHANGED <<sent, first, acc, reading, got, overrun>>
        /\ wire' = <<>> /\ ~open' /\ queue' = <<>>
    BY <1>7 DEF DeliverTooLarge
  <2>. QED BY <1>1, <1>5, <2>1, IntactLoss
<1>8. ASSUME NEW n, WriteSome(n) PROVE Goal
  <2>1. UNCHANGED <<sent, first, acc, reading, overrun>>
    BY <1>8 DEF WriteSome
  <2>. QED BY <1>1, <1>5, <1>8, <2>1, IntactWrite
<1>9. CASE WriteFails
  <2>1. /\ UNCHANGED <<sent, first, acc, reading, got, overrun>>
        /\ wire' = wire /\ ~open' /\ queue' = <<>>
    BY <1>9 DEF WriteFails
  <2>. QED BY <1>1, <1>5, <2>1, IntactLoss
<1>10. CASE Cut
  <2>1. /\ UNCHANGED <<sent, first, acc, reading, got, overrun>>
        /\ wire' = <<>> /\ ~open' /\ queue' = queue /\ offset' = offset
    BY <1>10 DEF Cut
  <2>. QED BY <1>1, <1>5, <2>1, IntactLoss
<1>11. ASSUME NEW n \in 1 .. ReadMax, ReadSome(n) PROVE Goal
  <2>1. /\ UNCHANGED <<sent, first, overrun>> /\ ~reading /\ n \in 1 .. Len(wire)
        /\ acc' = acc \o SubSeq(wire, 1, n)
    BY <1>11 DEF ReadSome
  <2>2. reading'
    BY <1>11 DEF ReadSome
  <2>3. ~overrun' => Intact(Stream)'
    BY <1>1, <1>11, <2>1, IntactRead
  <2>4. SubSeq(wire, 1, n) \in Seq(Byte(Len(sent))) /\ Len(SubSeq(wire, 1, n)) = n
    BY <2>1, ReadIs
  <2>5. Len(acc') = Len(acc) + n
    BY <1>2, <2>1, <2>4, ConcatProperties
  <2>6. AllText' => Room'
    <3> SUFFICES ASSUME AllText PROVE Room'
      BY <1>4, <2>1
    <3>1. ~overrun /\ Len(acc) < HeaderBytes + ServerMax + 0
      BY <1>1, <2>1, Zenon DEF Room
    <3>2. Len(acc') < HeaderBytes + ServerMax + ReadMax
      BY <1>2, <1>3, <2>5, <3>1
    <3>. QED BY <2>1, <2>2, <3>1, <3>2, Zenon DEF Room
  <2>. QED BY <1>4, <2>1, <2>3, <2>6
<1>12. CASE NeedMore
  <2>1. /\ UNCHANGED <<sent, first, queue, offset, wire, got, open>>
        /\ acc' = Capped(acc)
        /\ Len(acc) < HeaderBytes \/ \E len \in Spelled : Valid(len) /\ Len(acc) < HeaderBytes + len
    BY <1>12 DEF NeedMore
  <2>2. ~reading' /\ (overrun' <=> (overrun \/ Len(acc') < Len(acc)))
    BY <1>12, Zenon DEF NeedMore
  <2>3. acc' = acc \/ acc' = <<>>
    BY <1>2, <2>1, CappedTyped
  <2>4. ASSUME ~overrun' PROVE Intact(Stream)'
    <3>1. ~overrun /\ ~(Len(acc') < Len(acc))
      BY <2>2, <2>4
    <3>2. acc' = acc
      BY <1>2, <2>3, <3>1
    <3>3. Stream' = Stream
      BY <2>1, <3>2 DEF Stream
    <3>. QED BY <1>1, <2>1, <3>1, <3>3
             DEF Intact, Run, Behind, Ahead, Seam, InOrder, Follows, Full
  <2>5. ASSUME AllText' PROVE Room'
    <3>1. ~overrun /\ Intact(Stream)
      BY <1>1, <1>4, <2>1, <2>5 DEF Room
    <3>2. Len(acc) < HeaderBytes + ServerMax
      <4>1. CASE Len(acc) < HeaderBytes
        BY <1>2, <1>3, <4>1
      <4>2. CASE ~(Len(acc) < HeaderBytes)
        <5>1. Len(acc) >= HeaderBytes
          BY <1>2, <1>3, <4>2
        <5>2. Spelled = {sent[acc[1][1]].size} /\ sent[acc[1][1]].size <= ServerMax
              /\ acc[1][1] \in 1 .. Len(sent)
          BY <1>1, <3>1, <5>1, HeadIs DEF Intact
        <5>3. Len(acc) < HeaderBytes + sent[acc[1][1]].size
          BY <2>1, <4>2, <5>2
        <5>4. sent[acc[1][1]].size \in Nat
          BY <5>2, FullIs
        <5> DEFINE z == sent[acc[1][1]].size
        <5>5. z \in Nat /\ z <= ServerMax /\ Len(acc) < HeaderBytes + z
          BY <5>2, <5>3, <5>4
        <5>. HIDE DEF z
        <5>. QED BY <1>2, <1>3, <5>5
      <4>. QED BY <4>1, <4>2
    <3>3. ~(Len(acc) > ClientMax)
      BY <1>2, <1>3, <3>2, LimitsFit
    <3>4. acc' = acc
      <4>1. Limit = ClientMax
        BY LimitIs
      <4>. QED BY <2>1, <3>3, <4>1 DEF Capped
    <3>5. ~(Len(acc) < Len(acc)) /\ Len(acc) < HeaderBytes + ServerMax + 0
      BY <1>2, <1>3, <3>2
    <3>. QED BY <2>2, <3>1, <3>4, <3>5, Zenon DEF Room
  <2>. QED BY <1>4, <2>1, <2>4, <2>5
<1>13. CASE BadLength
  <2>1. UNCHANGED <<sent, first, overrun>> /\ \E len \in Spelled : ~Valid(len)
    BY <1>13 DEF BadLength
  <2>2. overrun
    <3> SUFFICES ASSUME ~overrun PROVE FALSE
      OBVIOUS
    <3>1. PICK len \in Spelled : ~Valid(len)
      BY <2>1
    <3>2. Len(acc) >= HeaderBytes
      BY <3>1, SpelledTyped
    <3>3. Spelled = {sent[acc[1][1]].size} /\ Valid(sent[acc[1][1]].size)
      BY <1>1, <3>2, HeadIs DEF Intact
    <3>. QED BY <3>1, <3>3
  <2>3. ~AllText'
    BY <1>1, <1>4, <2>1, <2>2 DEF Room
  <2>. QED BY <1>4, <2>1, <2>2, <2>3
<1>14. CASE TakeFrame
  <2>1. PICK len \in Spelled :
          LET m == MessageOf(SubSeq(acc, HeaderBytes + 1, HeaderBytes + len))
              rest == SubSeq(acc, HeaderBytes + len + 1, Len(acc))
              none == link = "down" /\ m # 0 /\ ~sent[m].text
          IN  /\ Valid(len) /\ Len(acc) >= HeaderBytes + len
              /\ got' = IF none THEN got ELSE Append(got, m)
              /\ acc' = IF none THEN Capped(rest) ELSE rest
              /\ overrun' = (overrun \/ Len(acc') < Len(rest))
              /\ reading' = ~none
    BY <1>14, Zenon DEF TakeFrame
  <2>2. UNCHANGED <<sent, first, queue, offset, wire, open>> /\ reading
    BY <1>14 DEF TakeFrame
  <2> DEFINE k == acc[1][1]
             m == MessageOf(SubSeq(acc, HeaderBytes + 1, HeaderBytes + len))
             rest == SubSeq(acc, HeaderBytes + len + 1, Len(acc))
             none == link = "down" /\ m # 0 /\ ~sent[m].text
  <2>3. /\ Valid(len) /\ Len(acc) >= HeaderBytes + len /\ Len(acc) >= HeaderBytes
        /\ rest \in Seq(Byte(Len(sent))) /\ Len(rest) = Len(acc) - (HeaderBytes + len) /\ len \in Nat
    BY <2>1, TakenTyped, SpelledTyped
  <2>4. /\ got' = got \/ got' = Append(got, m)
        /\ none => acc' = Capped(rest)
        /\ ~none => acc' = rest
        /\ overrun' <=> (overrun \/ Len(acc') < Len(rest))
        /\ reading' <=> ~none
    BY <2>1, Zenon
  <2>5. none => m # 0 /\ ~sent[m].text
    OBVIOUS
  <2>6. ASSUME ~overrun
        PROVE  /\ k \in 1 .. Len(sent) /\ len = sent[k].size /\ m = k /\ first <= k
               /\ HeaderBytes + len = Full(k) /\ Intact(Stream)
    <3>1. Intact(Stream) /\ Run(Stream)
      BY <1>1, <2>6 DEF Intact
    <3>2. k \in 1 .. Len(sent) /\ Spelled = {sent[k].size} /\ k = Stream[1][1] /\ Stream # <<>>
      BY <1>1, <2>3, <3>1, HeadIs
    <3>3. len = sent[k].size
      BY <2>1, <3>2
    <3>4. HeaderBytes + len = Full(k)
      BY <3>3 DEF Full, FullOf
    <3>5. Len(acc) >= HeaderBytes + sent[acc[1][1]].size
      BY <2>3, <3>3
    <3>6. m = k
      BY <1>1, <2>3, <3>1, <3>3, <3>5, FrameIs, Zenon
    <3>7. first <= k
      BY <3>1, <3>2 DEF Run
    <3>. QED BY <3>1, <3>2, <3>3, <3>4, <3>6, <3>7
  <2>7. Len(Capped(rest)) < Len(rest) \/ Capped(rest) = rest
    <3>. HIDE DEF rest
    <3>1. Capped(rest) = rest \/ Capped(rest) = <<>>
      BY <2>3, CappedTyped
    <3>. QED BY <2>3, <3>1
  <2>8. rest = SubSeq(acc, (HeaderBytes + len) + 1, Len(acc))
    OBVIOUS
  <2>. HIDE DEF m, rest, none, k
  <2>9. ASSUME ~overrun' PROVE Intact(Stream)'
    <3>1. ~overrun /\ ~(Len(acc') < Len(rest))
      BY <2>4, <2>9
    <3>2. acc' = rest
      BY <2>4, <2>7, <3>1
    <3>3. /\ k \in 1 .. Len(sent) /\ m = k /\ HeaderBytes + len = Full(k) /\ Intact(Stream)
      BY <2>6, <3>1
    <3>4. Took(k)
      <4>1. acc' = SubSeq(acc, Full(k) + 1, Len(acc))
        BY <2>8, <3>2, <3>3
      <4>2. got' = got \/ got' = Append(got, k)
        BY <2>4, <3>3
      <4>3. Len(acc) >= HeaderBytes /\ Len(acc) >= Full(k)
        BY <2>3, <3>3
      <4>4. k = acc[1][1]
        BY DEF k
      <4>. QED BY <2>2, <4>1, <4>2, <4>3, <4>4 DEF Took
    <3>. QED BY <1>1, <3>3, <3>4, IntactTake
  <2>10. ASSUME AllText' PROVE Room'
    <3>1. AllText /\ Room
      BY <1>1, <1>4, <2>2, <2>10
    <3>2. ~overrun
      BY <3>1 DEF Room
    <3>3. k \in first .. Len(sent) /\ m = k
      BY <1>2, <2>6, <3>2
    <3>4. ~none
      BY <2>5, <3>1, <3>3 DEF AllText
    <3>5. acc' = rest /\ reading' /\ (overrun' <=> Len(rest) < Len(rest))
      BY <2>4, <3>2, <3>4
    <3>6. Len(acc) < HeaderBytes + ServerMax + ReadMax
      BY <2>2, <3>1, Zenon DEF Room
    <3>7. Len(rest) < HeaderBytes + ServerMax + ReadMax /\ ~(Len(rest) < Len(rest))
      BY <1>2, <1>3, <2>3, <3>6
    <3>. QED BY <3>5, <3>7, Zenon DEF Room
  <2>. QED BY <1>4, <2>2, <2>9, <2>10
<1>15. CASE Reconnect
  <2>1. /\ sent' = sent /\ queue' = <<>> /\ got' = <<>> /\ offset' = 0 /\ acc' = <<>> /\ wire' = <<>>
        /\ first' = Len(sent) + 1
    BY <1>15 DEF Reconnect
  <2>2. ~overrun' /\ ~reading'
    BY <1>15 DEF Reconnect
  <2>3. Stream' = <<>>
    BY <2>1 DEF Stream
  <2>4. Intact(Stream)'
    <3>1. Len(Stream') = 0 /\ Len(queue') = 0 /\ Len(got') = 0
      BY <2>1, <2>3
    <3>2. Run(Stream)'
      BY <2>3, <3>1 DEF Run
    <3>3. Behind(Stream)' /\ Seam(Stream)'
      BY <2>1, <2>3 DEF Behind, Seam
    <3>4. Ahead(Stream)' /\ InOrder'
      BY <3>1 DEF Ahead, InOrder
    <3>. QED BY <3>2, <3>3, <3>4 DEF Intact
  <2>5. Fits'
    BY <1>1, <2>1 DEF Fits
  <2>6. Room'
    BY <1>3, <2>1, <2>2 DEF Room, HeaderBytes
  <2>. QED BY <2>4, <2>5, <2>6
<1>16. CASE UNCHANGED vars
  <2>1. UNCHANGED <<sent, first, acc, reading, overrun, queue, offset, wire, got, open>>
    BY <1>16 DEF vars
  <2>2. Stream' = Stream
    BY <2>1 DEF Stream
  <2>3. ~overrun => Intact(Stream)'
    BY <1>1, <2>1, <2>2 DEF Intact, Run, Behind, Ahead, Seam, InOrder, Follows, Full
  <2>. QED BY <1>5, <2>1, <2>3
<1>17. ~BareMessage /\ \A size \in Size : ~SendJson(size)
  BY DEF BareMessage, SendJson
<1>. QED
  BY <1>6, <1>7, <1>8, <1>9, <1>10, <1>11, <1>12, <1>13, <1>14, <1>15, <1>16, <1>17
     DEF Next, Write, Read

(* For messages and limits of any size and any division into writes and   *)
(* reads: the client is handed the server's frames of this connection,    *)
(* each once and in order, and nothing else, unless the cap of            *)
(* tcp_manager.rs:69 emptied its accumulator; and frames of text alone    *)
(* never make it do so.                                                   *)
THEOREM SpecClientNeverGarbled == Spec => []ClientNeverGarbled
<1>1. DownInv => ClientNeverGarbled
  <2> SUFFICES ASSUME DownInv, link = "down" PROVE ClientNeverGarbled
    BY DEF ClientNeverGarbled
  <2>1. overrun => \E k \in first .. Len(sent) : ~sent[k].text
    BY DEF DownInv, AllText, Room
  <2>2. ~overrun => InOrder
    BY DEF DownInv, Intact
  <2>3. ASSUME ~overrun PROVE \A i \in 1 .. Len(got) : got[i] >= first
    BY <2>2, <2>3 DEF InOrder
  <2>. QED BY <2>1, <2>2, <2>3 DEF ClientNeverGarbled, InOrder
<1>. QED BY <1>1, DownInit, DownNext, SpecTypeOK, PTL DEF Spec

-----------------------------------------------------------------------------
(***************************************************************************)
(* The bytes implement the channel.  As long as a promised frame is        *)
(* missing, or all frames are promised, the stream is the bytes from the   *)
(* start of the next frame due to where the writer stands, none left out.  *)
(***************************************************************************)

\* How many frames this connection was given.
Own == Len(sent) + 1 - first

\* The byte after byte a.
NextByte(fr, a) == IF a[2] < FullOf(fr, a[1]) THEN <<a[1], a[2] + 1>> ELSE <<a[1] + 1, 1>>

\* The bytes of s, the first of them x, leave none out.
Chain(fr, s, x) ==
    /\ s # <<>> => s[1] = x
    /\ \A i \in 1 .. Len(s) : s[i][2] <= FullOf(fr, s[i][1])
    /\ \A i \in 1 .. Len(s) - 1 : s[i + 1] = NextByte(fr, s[i])

\* The byte that comes after them.
After(fr, s, x) == IF s = <<>> THEN x ELSE NextByte(fr, s[Len(s)])

\* The first byte of the frame to be received next, and the byte to be written next.
Due == <<first + Len(got), 1>>
Pen == IF queue = <<>> THEN <<Len(sent) + 1, 1>> ELSE <<queue[1], offset + 1>>

\* The queue holds the last frames.
Tidy == \A j \in 1 .. Len(queue) : queue[j] = Len(sent) - Len(queue) + j

Synced ==
    /\ Len(got) <= Own
    /\ Chain(sent, Stream, Due)
    /\ open => Pen = After(sent, Stream, Due) /\ Tidy

Live == ~stale /\ (Len(got) < Len(Promised) \/ Len(Promised) = Own)

ChannelInv ==
    /\ \A i \in 1 .. Len(Promised) : i <= Len(got) => got[i] = first + i - 1
    /\ Live => Synced
    /\ link # "down" => queue = <<>>

\* Readable, the link as a parameter.
Accepts(l, f) ==
    \/ l = "up" /\ HeaderBytes + f.size <= ServerMax
    \/ l = "down" /\ f.text
    \/ l = "qt" /\ f.size <= LegacyMax

\* Promised, the state as parameters.
PromisedOf(l, fr, f, st) ==
    LET own == [i \in 1 .. Len(fr) - f + 1 |-> f + i - 1]
        good == {i \in 0 .. Len(own) : \A j \in 1 .. i : Accepts(l, fr[own[j]])}
    IN  IF st THEN <<>> ELSE SubSeq(own, 1, CHOOSE i \in good : \A j \in good : j <= i)

\* What the promised frames are.
PromiseKept ==
    /\ Own \in Nat /\ Promised \in Seq(Nat) /\ Len(Promised) \in 0 .. Own
    /\ \A i \in 1 .. Len(Promised) : Promised[i] = first + i - 1 /\ Accepts(link, sent[first + i - 1])
    /\ stale => Promised = <<>>
    /\ ~stale /\ Len(Promised) < Own => ~Accepts(link, sent[first + Len(Promised)])

(* A set of natural numbers up to n that is not empty has a greatest       *)
(* element.                                                                *)
LEMMA Greatest ==
    ASSUME NEW n \in Nat, NEW S \in SUBSET (0 .. n), S # {}
    PROVE  \E m \in S : \A i \in S : i <= m
<1> DEFINE T == {n - i : i \in S}
<1>1. T \in SUBSET Nat /\ T # {}
  <2>1. \A i \in S : i \in 0 .. n
    OBVIOUS
  <2>2. \A i \in S : n - i \in Nat
    BY <2>1
  <2>3. T \in SUBSET Nat
    BY <2>2
  <2>4. PICK i \in S : TRUE
    OBVIOUS
  <2>5. n - i \in T
    OBVIOUS
  <2>. QED BY <2>3, <2>5
<1>2. PICK t \in T : \A i \in T : t <= i
  <2>. HIDE DEF T
  <2>. QED BY <1>1, Least
<1>3. PICK m \in S : t = n - m
  OBVIOUS
<1>4. ASSUME NEW i \in S PROVE i <= m
  <2>1. n - i \in T /\ i \in 0 .. n /\ m \in 0 .. n
    OBVIOUS
  <2>2. n - m <= n - i
    BY <1>2, <1>3, <2>1
  <2>. QED BY <2>1, <2>2
<1>. QED BY <1>4

(* The promised frames are the longest run of readable ones.               *)
LEMMA PromisedIs == TypeOK => PromiseKept
<1> SUFFICES ASSUME TypeOK PROVE PromiseKept
  OBVIOUS
<1> DEFINE n == Len(sent) - first + 1
           own == [i \in 1 .. n |-> first + i - 1]
           good == {i \in 0 .. Len(own) : \A j \in 1 .. i : Accepts(link, sent[own[j]])}
           p == CHOOSE i \in good : \A j \in good : j <= i
<1>1. Len(sent) \in Nat /\ first \in 1 .. Len(sent) + 1
  BY Typed
<1>2. n \in Nat /\ Own = n
  BY <1>1 DEF Own
<1>. HIDE DEF n
<1>3. own \in Seq(Nat) /\ Len(own) = n /\ \A i \in 1 .. n : own[i] = first + i - 1
  <2>1. own \in [1 .. n -> Nat]
    BY <1>1, <1>2
  <2>2. own \in Seq(Nat)
    BY <1>2, <2>1, SeqDef
  <2>. QED BY <1>2, <2>1, <2>2
<1>4. Promised = IF stale THEN <<>> ELSE SubSeq(own, 1, p)
  BY DEF Promised, Readable, Accepts, n
<1>. HIDE DEF own
<1>5. good \in SUBSET (0 .. n) /\ good # {}
  <2>1. 0 \in good
    BY <1>2, <1>3
  <2>. QED BY <1>3, <2>1
<1>6. p \in good /\ \A j \in good : j <= p
  <2>. HIDE DEF good
  <2>1. \E i \in good : \A j \in good : j <= i
    BY <1>2, <1>5, Greatest
  <2>. QED BY <2>1
<1>. HIDE DEF p
<1>7. p \in 0 .. n /\ \A j \in 1 .. p : Accepts(link, sent[own[j]])
  BY <1>3, <1>6
<1>8. CASE stale
  <2>1. Promised = <<>>
    BY <1>4, <1>8
  <2>. QED BY <1>2, <1>8, <2>1 DEF PromiseKept
<1>9. CASE ~stale
  <2>1. Promised = SubSeq(own, 1, p)
    BY <1>4, <1>9
  <2>2. /\ SubSeq(own, 1, p) \in Seq(Nat) /\ Len(SubSeq(own, 1, p)) = p - 1 + 1
        /\ \A i \in 1 .. p - 1 + 1 : SubSeq(own, 1, p)[i] = own[1 + i - 1]
    BY <1>2, <1>3, <1>7, PartIs
  <2>3. Promised \in Seq(Nat) /\ Len(Promised) = p /\ \A i \in 1 .. p : Promised[i] = own[i]
    BY <1>2, <1>7, <2>1, <2>2
  <2>4. \A i \in 1 .. p : own[i] = first + i - 1
    BY <1>2, <1>3, <1>7
  <2>5. p < n => ~Accepts(link, sent[first + p])
    <3>1. SUFFICES ASSUME p < n, Accepts(link, sent[first + p]) PROVE FALSE
      OBVIOUS
    <3>2. p + 1 \in 0 .. n /\ p + 1 \in 1 .. n /\ first + (p + 1) - 1 = first + p
      BY <1>1, <1>2, <1>7, <3>1
    <3>3. own[p + 1] = first + p
      BY <1>3, <3>2
    <3>4. \A j \in 1 .. p + 1 : j \in 1 .. p \/ j = p + 1
      BY <1>2, <1>7
    <3>5. \A j \in 1 .. p + 1 : Accepts(link, sent[own[j]])
      BY <1>7, <3>1, <3>3, <3>4
    <3>6. p + 1 \in good
      BY <1>3, <3>2, <3>5
    <3>. HIDE DEF good
    <3>. QED BY <1>2, <1>6, <1>7, <3>6
  <2>. QED BY <1>2, <1>7, <1>9, <2>3, <2>4, <2>5 DEF PromiseKept
<1>. QED BY <1>8, <1>9

(* A new frame is promised if all before it are, and it is readable.       *)
LEMMA PromisedGrows ==
    ASSUME TypeOK, TypeOK', NEW r \in Frame, sent' = Append(sent, r), UNCHANGED <<link, first, stale>>
    PROVE  /\ Own' = Own + 1
           /\ \/ Promised' = Promised
              \/ /\ ~stale /\ Len(Promised) = Own
                 /\ Len(Promised') = Len(Promised) + 1
                 /\ Promised' = Append(Promised, Len(sent) + 1)
<1> DEFINE p == Len(Promised)
           q == Len(Promised')
           n == Own
<1>1. /\ Len(sent) \in Nat /\ first \in 1 .. Len(sent) + 1
      /\ Len(sent') = Len(sent) + 1
      /\ \A k \in 1 .. Len(sent) : sent'[k] = sent[k]
  BY Typed, SentGrows
<1>2. Own' = n + 1 /\ n \in Nat /\ n = Len(sent) + 1 - first
  BY <1>1 DEF Own
<1>3. /\ Promised \in Seq(Nat) /\ p \in 0 .. n
      /\ \A i \in 1 .. p : Promised[i] = first + i - 1 /\ Accepts(link, sent[first + i - 1])
      /\ stale => Promised = <<>>
      /\ ~stale /\ p < n => ~Accepts(link, sent[first + p])
  BY PromisedIs DEF PromiseKept
<1>4. PromiseKept'
  BY PromisedIs, PTL
<1>5. /\ Promised' \in Seq(Nat) /\ q \in 0 .. n + 1
      /\ \A i \in 1 .. q : Promised'[i] = first + i - 1 /\ Accepts(link, sent'[first + i - 1])
      /\ stale => Promised' = <<>>
      /\ ~stale /\ q < n + 1 => ~Accepts(link, sent'[first + q])
  BY <1>2, <1>4 DEF PromiseKept
<1>6. \A k \in 1 .. Len(sent) : Accepts(link, sent'[k]) <=> Accepts(link, sent[k])
  BY <1>1
<1>7. CASE stale
  BY <1>2, <1>3, <1>5, <1>7
<1>8. CASE ~stale
  <2>. HIDE DEF p, q, n
  <2>1. ASSUME p < q PROVE p = n
    <3>1. SUFFICES ASSUME p < n PROVE FALSE
      BY <1>2, <1>3
    <3>2. first + p \in 1 .. Len(sent) /\ p + 1 \in 1 .. q /\ first + (p + 1) - 1 = first + p
      <4>1. first \in Nat /\ first >= 1 /\ Len(sent) \in Nat
        BY <1>1
      <4>2. q \in 0 .. n + 1 /\ p \in 0 .. n
        BY <1>3, <1>5
      <4>. QED BY <1>2, <2>1, <3>1, <4>1, <4>2
    <3>3. Accepts(link, sent'[first + (p + 1) - 1])
      BY <1>5, <3>2, Zenon
    <3>4. Accepts(link, sent'[first + p])
      BY <3>2, <3>3
    <3>. QED BY <1>3, <1>6, <1>8, <3>1, <3>2, <3>4
  <2>2. ASSUME q < p PROVE FALSE
    <3>1. first + q \in 1 .. Len(sent) /\ q + 1 \in 1 .. p /\ first + (q + 1) - 1 = first + q /\ q < n + 1
      <4>1. first \in Nat /\ first >= 1 /\ Len(sent) \in Nat
        BY <1>1
      <4>2. q \in 0 .. n + 1 /\ p \in 0 .. n
        BY <1>3, <1>5
      <4>. QED BY <1>2, <2>2, <4>1, <4>2
    <3>2. Accepts(link, sent[first + q])
      BY <1>3, <3>1
    <3>3. ~Accepts(link, sent'[first + q])
      BY <1>5, <1>8, <3>1
    <3>. QED BY <1>6, <3>1, <3>2, <3>3
  <2>3. CASE p = q
    <3>1. Promised' = Promised
      <4>1. \A i \in 1 .. p : Promised'[i] = Promised[i]
        BY <1>3, <1>5, <2>3
      <4>. QED BY <1>3, <1>5, <2>3, <4>1, SeqEqual DEF p, q
    <3>. QED BY <1>2, <3>1 DEF n
  <2>4. CASE p < q
    <3>1. p = n /\ q = p + 1 /\ first + (p + 1) - 1 = Len(sent) + 1
      BY <1>1, <1>2, <1>3, <1>5, <2>1, <2>4
    <3>2. Promised' = Append(Promised, Len(sent) + 1)
      <4> DEFINE a == Append(Promised, Len(sent) + 1)
      <4>1. /\ a \in Seq(Nat) /\ Len(a) = p + 1 /\ a[p + 1] = Len(sent) + 1
            /\ \A i \in 1 .. p : a[i] = Promised[i]
        BY <1>1, <1>3 DEF p
      <4>. HIDE DEF a
      <4>2. \A i \in 1 .. p + 1 : i \in 1 .. p \/ i = p + 1
        BY <1>2, <1>3
      <4>3. \A i \in 1 .. p + 1 : Promised'[i] = a[i]
        <5>1. ASSUME NEW i \in 1 .. p PROVE Promised'[i] = a[i]
          <6>1. i \in 1 .. q
            BY <1>2, <1>3, <3>1
          <6>2. Promised'[i] = first + i - 1
            BY <1>5, <6>1
          <6>. QED BY <1>3, <4>1, <6>2
        <5>2. p + 1 \in 1 .. q
          BY <1>2, <1>3, <3>1
        <5>3. Promised'[p + 1] = Len(sent) + 1
          BY <1>5, <3>1, <5>2
        <5>. QED BY <4>1, <4>2, <5>1, <5>3
      <4>4. Promised' \in Seq(Nat) /\ Len(Promised') = p + 1
        BY <1>5, <3>1 DEF q
      <4>5. Promised' = a
        BY <4>1, <4>3, <4>4, SeqEqual
      <4>. QED BY <4>5 DEF a
    <3>. QED BY <1>2, <1>8, <3>1, <3>2 DEF p, q, n
  <2>. QED BY <1>2, <1>3, <1>5, <2>2, <2>3, <2>4
<1>. QED BY <1>7, <1>8

(* The promise as a function of the state.                                 *)
LEMMA PromisedAs == Promised = PromisedOf(link, sent, first, stale)
BY DEF Promised, PromisedOf, Readable, Accepts

(* The promise depends on the frames and the connection only.              *)
LEMMA PromisedSame ==
    ASSUME UNCHANGED <<link, sent, first, stale>>
    PROVE  Promised' = Promised /\ Own' = Own
<1>1. Own' = Own
  BY DEF Own
<1>2. link' = link /\ sent' = sent /\ first' = first /\ stale' = stale
  OBVIOUS
<1>3. Promised = PromisedOf(link, sent, first, stale)
  BY PromisedAs
<1>4. (Promised = PromisedOf(link, sent, first, stale))'
  BY PromisedAs, PTL
<1>5. Promised' = Promised
  BY <1>2, <1>3, <1>4
<1>. QED BY <1>1, <1>5

(* A new connection promises nothing yet.                                  *)
LEMMA PromisedNone ==
    ASSUME TypeOK', Len(sent) \in Nat, sent' = sent, first' = Len(sent) + 1
    PROVE  Promised' = <<>> /\ Own' = 0
<1>1. Own' = 0
  BY DEF Own
<1>2. PromiseKept'
  BY PromisedIs, PTL
<1>. QED BY <1>1, <1>2 DEF PromiseKept

(* Two chains, the second from where the first ends.                       *)
LEMMA ChainJoin ==
    ASSUME NEW S, NEW a \in Seq(S), NEW b \in Seq(S), NEW fr, NEW x,
           Chain(fr, a, x), Chain(fr, b, After(fr, a, x))
    PROVE  /\ Chain(fr, a \o b, x)
           /\ After(fr, a \o b, x) = After(fr, b, After(fr, a, x))
<1> DEFINE l == Len(a)
           m == Len(b)
           c == a \o b
<1>1. /\ l \in Nat /\ m \in Nat /\ c \in Seq(S) /\ Len(c) = l + m
      /\ \A i \in 1 .. l : c[i] = a[i]
      /\ \A i \in 1 .. m : c[l + i] = b[i]
      /\ \A i \in l + 1 .. l + m : c[i] = b[i - l]
      /\ a = <<>> <=> l = 0
      /\ b = <<>> <=> m = 0
      /\ c = <<>> <=> l + m = 0
  BY JoinIs
<1>2. /\ a # <<>> => a[1] = x
      /\ \A i \in 1 .. l : a[i][2] <= FullOf(fr, a[i][1])
      /\ \A i \in 1 .. l - 1 : a[i + 1] = NextByte(fr, a[i])
  BY Zenon DEF Chain
<1>3. /\ b # <<>> => b[1] = After(fr, a, x)
      /\ \A i \in 1 .. m : b[i][2] <= FullOf(fr, b[i][1])
      /\ \A i \in 1 .. m - 1 : b[i + 1] = NextByte(fr, b[i])
  BY Zenon DEF Chain
<1>4. a # <<>> => After(fr, a, x) = NextByte(fr, a[l])
  BY Zenon DEF After
<1>5. a = <<>> => After(fr, a, x) = x
  BY Zenon DEF After
<1>. HIDE DEF l, m, c
<1>6. c # <<>> => c[1] = x
  <2>1. CASE l = 0 /\ m > 0
    <3>1. 1 \in l + 1 .. l + m /\ 1 - l = 1
      BY <1>1, <2>1
    <3>2. c[1] = b[1]
      BY <1>1, <3>1
    <3>. QED BY <1>1, <1>3, <1>5, <2>1, <3>2
  <2>2. CASE l > 0
    BY <1>1, <1>2, <2>2
  <2>. QED BY <1>1, <2>1, <2>2
<1>7. \A i \in 1 .. l + m : c[i][2] <= FullOf(fr, c[i][1])
  <2> SUFFICES ASSUME NEW i \in 1 .. l + m PROVE c[i][2] <= FullOf(fr, c[i][1])
    OBVIOUS
  <2>1. i \in 1 .. l \/ (i \in l + 1 .. l + m /\ i - l \in 1 .. m)
    BY <1>1
  <2>. QED BY <1>1, <1>2, <1>3, <2>1
<1>8. \A i \in 1 .. l + m - 1 : c[i + 1] = NextByte(fr, c[i])
  <2> SUFFICES ASSUME NEW i \in 1 .. l + m - 1 PROVE c[i + 1] = NextByte(fr, c[i])
    OBVIOUS
  <2>1. CASE i < l
    <3>1. i \in 1 .. l /\ i + 1 \in 1 .. l /\ i \in 1 .. l - 1
      BY <1>1, <2>1
    <3>. QED BY <1>1, <1>2, <3>1
  <2>2. CASE i = l
    <3>1. i \in 1 .. l /\ i + 1 \in l + 1 .. l + m /\ i + 1 - l = 1 /\ l # 0 /\ m # 0
      BY <1>1, <2>2
    <3>2. c[i + 1] = b[1] /\ c[i] = a[l]
      BY <1>1, <2>2, <3>1
    <3>. QED BY <1>1, <1>3, <1>4, <3>1, <3>2
  <2>3. CASE i > l
    <3>1. /\ i \in l + 1 .. l + m /\ i + 1 \in l + 1 .. l + m
          /\ i - l \in 1 .. m - 1 /\ i + 1 - l = (i - l) + 1
      BY <1>1, <2>3
    <3>2. c[i] = b[i - l] /\ c[i + 1] = b[(i - l) + 1]
      BY <1>1, <3>1
    <3>. QED BY <1>3, <3>1, <3>2
  <2>. QED BY <1>1, <2>1, <2>2, <2>3
<1>9. After(fr, c, x) = After(fr, b, After(fr, a, x))
  <2>1. CASE b = <<>>
    <3>1. c = a
      BY <1>1, <2>1, ConcatEmptySeq DEF c
    <3>. QED BY <2>1, <3>1 DEF After
  <2>2. CASE b # <<>>
    <3>1. Len(c) \in l + 1 .. l + m /\ Len(c) - l = m /\ c # <<>>
      BY <1>1, <2>2
    <3>2. c[Len(c)] = b[m]
      BY <1>1, <3>1
    <3>. QED BY <2>2, <3>1, <3>2 DEF After, m
  <2>. QED BY <2>1, <2>2
<1>10. Chain(fr, c, x)
  BY <1>1, <1>6, <1>7, <1>8 DEF Chain
<1>. QED BY <1>9, <1>10 DEF c

(* The front of a chain.                                                   *)
LEMMA ChainPart ==
    ASSUME NEW S, NEW s \in Seq(S), NEW p \in Seq(S), NEW fr, NEW x, Chain(fr, s, x),
           Len(p) <= Len(s), \A i \in 1 .. Len(p) : p[i] = s[i]
    PROVE  Chain(fr, p, x)
<1>1. /\ Len(p) \in Nat /\ Len(s) \in Nat
      /\ p # <<>> => s # <<>> /\ 1 \in 1 .. Len(p)
  OBVIOUS
<1>2. /\ s # <<>> => s[1] = x
      /\ \A i \in 1 .. Len(s) : s[i][2] <= FullOf(fr, s[i][1])
      /\ \A i \in 1 .. Len(s) - 1 : s[i + 1] = NextByte(fr, s[i])
  BY Zenon DEF Chain
<1>3. p # <<>> => p[1] = x
  BY <1>1, <1>2
<1>4. \A i \in 1 .. Len(p) : p[i][2] <= FullOf(fr, p[i][1])
  BY <1>1, <1>2
<1>5. \A i \in 1 .. Len(p) - 1 : p[i + 1] = NextByte(fr, p[i])
  BY <1>1, <1>2
<1>. QED BY <1>3, <1>4, <1>5, Zenon DEF Chain

\* The bytes of frame k from byte o + 1 on.
Inside(b, k, o) == \A i \in 1 .. Len(b) : b[i] = <<k, o + i>>

(* Some bytes of one frame.                                                *)
LEMMA ChainFrame ==
    ASSUME NEW S, NEW b \in Seq(S), b # <<>>, NEW k \in Nat, NEW o \in Nat, Inside(b, k, o),
           NEW fr, FullOf(fr, k) \in Nat, o + Len(b) <= FullOf(fr, k), NEW x, x = <<k, o + 1>>
    PROVE  /\ Chain(fr, b, x)
           /\ o + Len(b) < FullOf(fr, k) => After(fr, b, x) = <<k, o + Len(b) + 1>>
           /\ o + Len(b) = FullOf(fr, k) => After(fr, b, x) = <<k + 1, 1>>
<1> DEFINE n == Len(b)
           F == FullOf(fr, k)
<1>1. n \in Nat /\ n > 0 /\ F \in Nat /\ o + n <= F /\ \A i \in 1 .. n : b[i] = <<k, o + i>>
  BY DEF Inside
<1>. HIDE DEF n, F
<1>2. \A i \in 1 .. n : b[i][1] = k /\ b[i][2] = o + i
  BY <1>1
<1>3. b[1] = <<k, o + 1>>
  BY <1>1
<1>4. \A i \in 1 .. n : b[i][2] <= FullOf(fr, b[i][1])
  BY <1>1, <1>2 DEF F
<1>5. \A i \in 1 .. n - 1 : b[i + 1] = NextByte(fr, b[i])
  <2> SUFFICES ASSUME NEW i \in 1 .. n - 1 PROVE b[i + 1] = NextByte(fr, b[i])
    OBVIOUS
  <2>1. i \in 1 .. n /\ i + 1 \in 1 .. n /\ o + i < F /\ o + (i + 1) = (o + i) + 1
    BY <1>1
  <2>. QED BY <1>1, <1>2, <2>1 DEF NextByte, F
<1>6. Chain(fr, b, x)
  BY <1>3, <1>4, <1>5 DEF Chain, n
<1>7. After(fr, b, x) = NextByte(fr, b[n])
  BY DEF After, n
<1>8. b[n][1] = k /\ b[n][2] = o + n
  BY <1>1, <1>2
<1>9. NextByte(fr, b[n]) = IF o + n < F THEN <<k, o + n + 1>> ELSE <<k + 1, 1>>
  BY <1>8 DEF NextByte, F
<1>. QED BY <1>1, <1>6, <1>7, <1>9 DEF n, F

\* Two tables with the same first n frames.
Agree(gr, fr, n) == \A k \in 1 .. n : gr[k] = fr[k]

(* A chain with another table of frames, the same for its bytes.           *)
LEMMA ChainGrow ==
    ASSUME NEW n \in Nat, NEW s \in Seq(Byte(n)), NEW fr, NEW gr, NEW x, Chain(fr, s, x),
           Agree(gr, fr, n)
    PROVE  Chain(gr, s, x) /\ After(gr, s, x) = After(fr, s, x)
<1>1. \A k \in 1 .. n : FullOf(gr, k) = FullOf(fr, k)
  BY DEF FullOf, Agree
<1>2. \A i \in 1 .. Len(s) : s[i][1] \in 1 .. n
  BY BytesIs
<1>3. \A i \in 1 .. Len(s) : NextByte(gr, s[i]) = NextByte(fr, s[i])
  BY <1>1, <1>2 DEF NextByte
<1>4. Len(s) \in Nat /\ (s # <<>> => Len(s) \in 1 .. Len(s)) /\ \A i \in 1 .. Len(s) - 1 : i \in 1 .. Len(s)
  OBVIOUS
<1>5. /\ s # <<>> => s[1] = x
      /\ \A i \in 1 .. Len(s) : s[i][2] <= FullOf(fr, s[i][1])
      /\ \A i \in 1 .. Len(s) - 1 : s[i + 1] = NextByte(fr, s[i])
  BY Zenon DEF Chain
<1>6. \A i \in 1 .. Len(s) : s[i][2] <= FullOf(gr, s[i][1])
  BY <1>1, <1>2, <1>5
<1>7. \A i \in 1 .. Len(s) - 1 : s[i + 1] = NextByte(gr, s[i])
  BY <1>3, <1>4, <1>5
<1>8. After(gr, s, x) = After(fr, s, x)
  BY <1>3, <1>4 DEF After
<1>. QED BY <1>5, <1>6, <1>7, <1>8 DEF Chain

(* A chain from the start of a frame is a run of frames.                   *)
LEMMA ChainRun ==
    ASSUME TypeOK, NEW s \in Seq(Byte(Len(sent))), NEW k \in Nat, first <= k,
           Chain(sent, s, <<k, 1>>)
    PROVE  Run(s)
<1>1. /\ Len(sent) \in Nat /\ Len(s) \in Nat
      /\ \A i \in 1 .. Len(s) : s[i][1] \in 1 .. Len(sent) /\ s[i][2] \in Nat \ {0}
  BY Typed, BytesIs
<1>2. /\ s # <<>> => s[1] = <<k, 1>>
      /\ \A i \in 1 .. Len(s) : s[i][2] <= FullOf(sent, s[i][1])
      /\ \A i \in 1 .. Len(s) - 1 : s[i + 1] = NextByte(sent, s[i])
  BY Zenon DEF Chain
<1>3. \A i \in 1 .. Len(s) - 1 : Follows(s[i], s[i + 1])
  <2> SUFFICES ASSUME NEW i \in 1 .. Len(s) - 1 PROVE Follows(s[i], s[i + 1])
    OBVIOUS
  <2>1. s[i + 1] = NextByte(sent, s[i]) /\ i \in 1 .. Len(s)
    BY <1>1, <1>2
  <2>. QED BY <1>1, <2>1 DEF NextByte, Follows, Full
<1>4. s # <<>> => s[1][2] = 1 /\ first <= s[1][1]
  BY <1>2
<1>. QED BY <1>2, <1>3, <1>4, Zenon DEF Run, Full

(* What is left of a chain behind its first frame.                         *)
LEMMA ChainDrop ==
    ASSUME TypeOK, NEW s \in Seq(Byte(Len(sent))), NEW k \in 1 .. Len(sent), first <= k,
           Chain(sent, s, <<k, 1>>), NEW r \in Seq(Byte(Len(sent))), IsRest(r, s, Full(k))
    PROVE  /\ Chain(sent, r, <<k + 1, 1>>)
           /\ After(sent, r, <<k + 1, 1>>) = After(sent, s, <<k, 1>>)
<1> DEFINE F == Full(k)
           l == Len(s)
           m == Len(r)
<1>1. F \in Nat /\ F > 0 /\ l \in Nat /\ m \in Nat
  BY FullIs DEF HeaderBytes
<1>2. l = F + m /\ \A i \in 1 .. m : r[i] = s[F + i]
  BY Zenon DEF IsRest
<1>3. /\ s # <<>> => s[1] = <<k, 1>>
      /\ \A i \in 1 .. l : s[i][2] <= FullOf(sent, s[i][1])
      /\ \A i \in 1 .. l - 1 : s[i + 1] = NextByte(sent, s[i])
  BY Zenon DEF Chain
<1>4. s # <<>> /\ s[1][1] = k
  BY <1>1, <1>2, <1>3
<1>5. Run(s)
  BY ChainRun
<1>6. \A i \in 1 .. l : i <= F => s[i][1] = k /\ s[i][2] = i
  BY <1>4, <1>5, FirstFrame
<1>. HIDE DEF F, l, m
<1>7. NextByte(sent, s[F]) = <<k + 1, 1>>
  <2>1. F \in 1 .. l /\ F <= F
    BY <1>1, <1>2
  <2>2. s[F][1] = k /\ s[F][2] = F
    BY <1>6, <2>1
  <2>. QED BY <1>1, <2>2 DEF NextByte, F, Full
<1>8. r # <<>> => r[1] = <<k + 1, 1>>
  <2> SUFFICES ASSUME r # <<>> PROVE r[1] = <<k + 1, 1>>
    OBVIOUS
  <2>1. m > 0
    BY DEF m
  <2>2. F \in 1 .. l - 1 /\ 1 \in 1 .. m
    BY <1>1, <1>2, <2>1
  <2>. QED BY <1>2, <1>3, <1>7, <2>2
<1>9. \A i \in 1 .. m : r[i][2] <= FullOf(sent, r[i][1])
  <2> SUFFICES ASSUME NEW i \in 1 .. m PROVE r[i][2] <= FullOf(sent, r[i][1])
    OBVIOUS
  <2>1. F + i \in 1 .. l
    BY <1>1, <1>2
  <2>. QED BY <1>2, <1>3, <2>1
<1>10. \A i \in 1 .. m - 1 : r[i + 1] = NextByte(sent, r[i])
  <2> SUFFICES ASSUME NEW i \in 1 .. m - 1 PROVE r[i + 1] = NextByte(sent, r[i])
    OBVIOUS
  <2>1. F + i \in 1 .. l - 1 /\ i \in 1 .. m /\ i + 1 \in 1 .. m /\ F + (i + 1) = (F + i) + 1
    BY <1>1, <1>2
  <2>. QED BY <1>2, <1>3, <2>1
<1>11. After(sent, r, <<k + 1, 1>>) = After(sent, s, <<k, 1>>)
  <2>1. After(sent, s, <<k, 1>>) = NextByte(sent, s[l])
    BY <1>4 DEF After, l
  <2>2. CASE r = <<>>
    <3>1. l = F
      BY <1>1, <1>2, <2>2 DEF m
    <3>. QED BY <1>7, <2>1, <2>2, <3>1 DEF After
  <2>3. CASE r # <<>>
    <3>1. m \in 1 .. m
      BY <2>3 DEF m
    <3>2. r[m] = s[l]
      BY <1>2, <3>1
    <3>. QED BY <2>1, <2>3, <3>2 DEF After, m
  <2>. QED BY <2>2, <2>3
<1>12. Chain(sent, r, <<k + 1, 1>>)
  BY <1>8, <1>9, <1>10, Zenon DEF Chain, m
<1>. QED BY <1>11, <1>12

-----------------------------------------------------------------------------
(* One lemma per kind of step: the chain stays whole.                      *)

(* The types that the steps below need.                                    *)
LEMMA SyncedTyped ==
    ASSUME TypeOK
    PROVE  /\ Stream \in Seq(Byte(Len(sent))) /\ Len(sent) \in Nat /\ Len(got) \in Nat
           /\ first \in 1 .. Len(sent) + 1 /\ first + Len(got) \in Nat /\ first <= first + Len(got)
           /\ Due = <<first + Len(got), 1>> /\ Own \in Nat /\ Own = Len(sent) + 1 - first
<1>1. /\ Stream \in Seq(Byte(Len(sent))) /\ Len(sent) \in Nat /\ got \in Seq(0 .. Len(sent))
      /\ first \in 1 .. Len(sent) + 1
  BY Typed, StreamIs
<1>. QED BY <1>1 DEF Due, Own

(* A frame joins the write queue.                                          *)
LEMMA SyncedDeliver ==
    ASSUME TypeOK, Synced, NEW size \in Size, NEW text \in BOOLEAN, Deliver(size, text)
    PROVE  Synced'
<1> DEFINE r == [size |-> size, text |-> text]
           n == Len(sent)
           q == Len(queue)
<1>1. /\ open /\ sent' = Append(sent, r) /\ queue' = Append(queue, n + 1)
      /\ first' = first /\ offset' = offset /\ wire' = wire /\ acc' = acc /\ got' = got /\ open' = open
  BY DEF Deliver
<1>2. r \in Frame
  BY DEF Frame
<1>3. Len(sent') = n + 1 /\ \A k \in 1 .. n : sent'[k] = sent[k]
  BY <1>1, <1>2, SentGrows
<1>4. Stream' = Stream /\ Due' = Due
  BY <1>1 DEF Stream, Due
<1>5. /\ Stream \in Seq(Byte(n)) /\ n \in Nat /\ Len(got) \in Nat /\ first \in 1 .. n + 1
      /\ queue \in Seq(first .. n) /\ q \in Nat /\ offset \in Nat
      /\ queue = <<>> => offset = 0
  BY SyncedTyped, Typed DEF InFront
<1>6. Chain(sent, Stream, Due) /\ Len(got) <= Own /\ Pen = After(sent, Stream, Due) /\ Tidy
  BY <1>1 DEF Synced
<1>7. Chain(sent', Stream, Due) /\ After(sent', Stream, Due) = After(sent, Stream, Due)
  <2>. HIDE DEF n
  <2>1. /\ n \in Nat /\ Stream \in Seq(Byte(n)) /\ Chain(sent, Stream, Due)
        /\ Agree(sent', sent, n)
    BY <1>3, <1>5, <1>6 DEF Agree
  <2>2. \A gr : Agree(gr, sent, n) =>
            Chain(gr, Stream, Due) /\ After(gr, Stream, Due) = After(sent, Stream, Due)
    BY <2>1, ChainGrow
  <2>. QED BY <2>1, <2>2
<1>8. Len(got') <= Own'
  BY <1>1, <1>3, <1>5, <1>6 DEF Own
<1>9. /\ Len(queue') = q + 1 /\ queue' # <<>> /\ queue'[q + 1] = n + 1
      /\ \A j \in 1 .. q : queue'[j] = queue[j]
  BY <1>1, <1>5
<1>10. Pen' = Pen
  <2>1. Pen' = <<queue'[1], offset + 1>>
    BY <1>1, <1>9 DEF Pen
  <2>2. CASE queue = <<>>
    BY <1>5, <1>9, <2>1, <2>2 DEF Pen
  <2>3. CASE queue # <<>>
    BY <1>5, <1>9, <2>1, <2>3 DEF Pen
  <2>. QED BY <2>2, <2>3
<1>11. Tidy'
  <2>1. \A j \in 1 .. q : queue[j] = n - q + j
    BY <1>6 DEF Tidy
  <2>. HIDE DEF n, q
  <2>2. ASSUME NEW j \in 1 .. q + 1 PROVE queue'[j] = (n + 1) - (q + 1) + j
    <3>1. j \in 1 .. q \/ j = q + 1
      BY <1>5
    <3>2. (n + 1) - (q + 1) + j = n - q + j /\ n - q + (q + 1) = n + 1
      BY <1>5
    <3>. QED BY <1>9, <2>1, <3>1, <3>2
  <2>3. Len(sent') = n + 1 /\ Len(queue') = q + 1
    BY <1>3, <1>9
  <2>. QED BY <2>2, <2>3 DEF Tidy
<1>. QED BY <1>4, <1>6, <1>7, <1>8, <1>10, <1>11 DEF Synced

(* A frame goes to the socket in one piece.                                *)
LEMMA SyncedSend ==
    ASSUME TypeOK, Synced, queue = <<>>, NEW size \in Size, SendJson(size)
    PROVE  Synced'
<1> DEFINE r == [size |-> size, text |-> TRUE]
           n == Len(sent)
           m == n + 1
           b == EncodeOf(m, size)
           F == HeaderBytes + size
<1>1. /\ open /\ sent' = Append(sent, r) /\ wire' = wire \o b
      /\ first' = first /\ queue' = queue /\ offset' = offset /\ acc' = acc /\ got' = got /\ open' = open
  BY DEF SendJson
<1>2. r \in Frame /\ size \in Nat /\ F \in Nat /\ F > 0
  BY SizesAssumption DEF Frame, HeaderBytes
<1>3. /\ Len(sent') = m /\ (\A k \in 1 .. n : sent'[k] = sent[k]) /\ sent'[m] = r
      /\ wire \in Seq(Byte(Len(sent'))) /\ acc \in Seq(Byte(Len(sent')))
  BY <1>1, <1>2, SentGrows
<1>4. /\ Stream \in Seq(Byte(n)) /\ n \in Nat /\ Len(got) \in Nat /\ first \in 1 .. n + 1
  BY SyncedTyped
<1>5. Chain(sent, Stream, Due) /\ Len(got) <= Own /\ Pen = After(sent, Stream, Due)
  BY <1>1 DEF Synced
<1>6. Pen = <<m, 1>> /\ Pen' = <<m + 1, 1>> /\ Due' = Due
  BY <1>1, <1>3 DEF Pen, Due
<1>7. Chain(sent', Stream, Due) /\ After(sent', Stream, Due) = <<m, 1>>
  <2>. HIDE DEF n, m
  <2>1. /\ n \in Nat /\ Stream \in Seq(Byte(n)) /\ Chain(sent, Stream, Due)
        /\ Agree(sent', sent, n)
    BY <1>3, <1>4, <1>5 DEF Agree
  <2>2. \A gr : Agree(gr, sent, n) =>
            Chain(gr, Stream, Due) /\ After(gr, Stream, Due) = After(sent, Stream, Due)
    BY <2>1, ChainGrow
  <2>. QED BY <1>5, <1>6, <2>1, <2>2
<1>8. m \in Nat \ {0} /\ m \in Nat /\ m <= m
  BY <1>4
<1>9. /\ b \in Seq(Byte(m)) /\ Len(b) = F
      /\ \A i \in 1 .. F : b[i] = <<m, i>>
  <2>. HIDE DEF m
  <2>. QED BY <1>2, <1>8, EncodeIs
<1>10. FullOf(sent', m) = F
  BY <1>3 DEF FullOf
<1>11. Chain(sent', b, <<m, 1>>) /\ After(sent', b, <<m, 1>>) = <<m + 1, 1>>
  <2> DEFINE o == 0
  <2>. HIDE DEF b, F, m
  <2>1. b # <<>> /\ o \in Nat /\ o + Len(b) = F /\ o + 1 = 1 /\ Inside(b, m, o)
    BY <1>2, <1>9 DEF Inside
  <2>. HIDE DEF o
  <2>2. ASSUME NEW fr, FullOf(fr, m) = F
        PROVE  Chain(fr, b, <<m, 1>>) /\ After(fr, b, <<m, 1>>) = <<m + 1, 1>>
    <3> DEFINE x == <<m, 1>>
    <3>1. /\ FullOf(fr, m) \in Nat /\ o + Len(b) <= FullOf(fr, m) /\ o + Len(b) = FullOf(fr, m)
          /\ x = <<m, o + 1>> /\ b \in Seq(Byte(m)) /\ m \in Nat
      BY <1>2, <1>8, <1>9, <2>1, <2>2
    <3>. HIDE DEF x
    <3>2. Chain(fr, b, x) /\ After(fr, b, x) = <<m + 1, 1>>
      BY <2>1, <3>1, ChainFrame
    <3>. QED BY <3>2 DEF x
  <2>. QED BY <1>10, <2>2
<1>12. Stream' = Stream \o b
  <2>1. Stream' = acc \o (wire \o b)
    BY <1>1, Zenon DEF Stream
  <2>2. wire \in Seq(Byte(m)) /\ acc \in Seq(Byte(m))
    BY <1>3
  <2>. HIDE DEF b, m
  <2>3. (acc \o wire) \o b = acc \o (wire \o b)
    BY <1>9, <2>2, ConcatAssociative
  <2>. QED BY <2>1, <2>3, Zenon DEF Stream
<1>13. Stream \in Seq(Byte(m))
  BY <1>4, <1>8, ByteMono, SeqMono
<1>. HIDE DEF b, m, n
<1>14. Chain(sent', Stream \o b, Due) /\ After(sent', Stream \o b, Due) = <<m + 1, 1>>
  BY <1>7, <1>9, <1>11, <1>13, ChainJoin
<1>15. Len(got') <= Own'
  BY <1>1, <1>3, <1>4, <1>5 DEF Own, m, n
<1>16. Tidy'
  BY <1>1 DEF Tidy
<1>. QED BY <1>6, <1>12, <1>14, <1>15, <1>16 DEF Synced

(* A write adds the next bytes of the front frame.                         *)
LEMMA SyncedWrite ==
    ASSUME TypeOK, Synced, NEW n, WriteSome(n)
    PROVE  Synced'
<1> DEFINE k == queue[1]
           b == SubSeq(Encode(k), offset + 1, offset + n)
           F == Full(k)
           S == Byte(Len(sent))
<1>1. /\ writing /\ open /\ n \in 1 .. Len(Encode(k)) - offset /\ wire' = wire \o b
      /\ sent' = sent /\ first' = first /\ acc' = acc /\ got' = got /\ open' = open
      /\ IF offset + n < Len(Encode(k))
         THEN offset' = offset + n /\ queue' = queue
         ELSE offset' = 0 /\ queue' = Tail(queue)
  BY DEF WriteSome
<1>2. b \in Seq(S) /\ Len(b) = n /\ \A i \in 1 .. n : b[i] = <<k, offset + i>>
  BY <1>1, WrittenIs
<1>3. queue # <<>>
  BY <1>1 DEF TypeOK
<1>4. /\ k \in 1 .. Len(sent) /\ Len(Encode(k)) = F /\ F \in Nat /\ k \in Nat
      /\ queue \in Seq(first .. Len(sent)) /\ offset \in Nat /\ Len(queue) \in Nat /\ Len(sent) \in Nat
      /\ wire \in Seq(S) /\ acc \in Seq(S) /\ Stream \in Seq(S)
  <2>1. k \in 1 .. Len(sent) /\ Len(Encode(k)) = HeaderBytes + sent[k].size
    BY <1>3, FrontIs
  <2>2. F \in Nat /\ F = HeaderBytes + sent[k].size
    BY <2>1, FullIs
  <2>. QED BY <2>1, <2>2, Typed, StreamIs
<1>5. b \in Seq(S) /\ wire \in Seq(S) /\ acc \in Seq(S)
  BY <1>2, <1>4
<1>6. Len(b) = n /\ Inside(b, k, offset)
  <2>. HIDE DEF b, k
  <2>. QED BY <1>2, Zenon DEF Inside
<1>7. Chain(sent, Stream, Due) /\ Len(got) <= Own /\ Pen = After(sent, Stream, Due) /\ Tidy
  BY <1>1 DEF Synced
<1>8. Pen = <<k, offset + 1>> /\ Due' = Due /\ Own' = Own
  BY <1>1, <1>3 DEF Pen, Due, Own
<1>9. n \in Nat /\ n > 0 /\ offset + n <= F
  BY <1>1, <1>4
<1>10. /\ Chain(sent, b, Pen)
       /\ offset + n < F => After(sent, b, Pen) = <<k, offset + n + 1>>
       /\ offset + n = F => After(sent, b, Pen) = <<k + 1, 1>>
  <2>1. F = FullOf(sent, k)
    BY DEF Full
  <2>. HIDE DEF k, b, F, S
  <2>2. /\ b # <<>> /\ offset + Len(b) <= FullOf(sent, k) /\ k \in Nat /\ FullOf(sent, k) \in Nat
        /\ offset \in Nat
    BY <1>4, <1>9, <1>6, <2>1
  <2>3. /\ Chain(sent, b, Pen)
        /\ offset + Len(b) < FullOf(sent, k) => After(sent, b, Pen) = <<k, offset + Len(b) + 1>>
        /\ offset + Len(b) = FullOf(sent, k) => After(sent, b, Pen) = <<k + 1, 1>>
    BY <1>8, <1>5, <1>6, <2>2, ChainFrame
  <2>. QED BY <1>6, <2>1, <2>3
<1>11. Stream' = Stream \o b
  <2>1. Stream' = acc \o (wire \o b)
    BY <1>1, Zenon DEF Stream
  <2>. HIDE DEF b, S
  <2>2. (acc \o wire) \o b = acc \o (wire \o b)
    BY <1>5, ConcatAssociative
  <2>. QED BY <2>1, <2>2, Zenon DEF Stream
<1>12. Chain(sent, Stream \o b, Due) /\ After(sent, Stream \o b, Due) = After(sent, b, Pen)
  <2>. HIDE DEF b, S
  <2>1. Chain(sent, b, Pen) /\ Pen = After(sent, Stream, Due)
    BY <1>7, <1>10, Zenon
  <2>2. Chain(sent, b, After(sent, Stream, Due))
    BY <2>1, Zenon
  <2>3. /\ Chain(sent, Stream \o b, Due)
        /\ After(sent, Stream \o b, Due) = After(sent, b, After(sent, Stream, Due))
    BY <1>2, <1>4, <1>7, <2>2, ChainJoin
  <2>. QED BY <2>1, <2>3
<1>13. Pen' = After(sent, b, Pen) /\ Tidy'
  <2>. HIDE DEF b
  <2>1. CASE offset + n < F
    <3>1. offset' = offset + n /\ queue' = queue
      BY <1>1, <1>4, <2>1
    <3>2. Pen' = <<k, offset + n + 1>>
      BY <1>3, <3>1 DEF Pen
    <3>3. Tidy'
      BY <1>1, <1>7, <3>1 DEF Tidy
    <3>4. After(sent, b, Pen) = <<k, offset + n + 1>>
      BY <1>10, <2>1
    <3>. QED BY <3>2, <3>3, <3>4, Zenon
  <2>2. CASE offset + n = F
    <3> DEFINE q == Len(queue)
               l == Len(sent)
    <3>1. offset' = 0 /\ queue' = Tail(queue)
      BY <1>1, <1>4, <2>2
    <3>2. q > 0 /\ q \in Nat /\ Len(queue') = q - 1 /\ \A j \in 1 .. q - 1 : queue'[j] = queue[j + 1]
      BY <1>3, <1>4, <3>1
    <3>3. \A j \in 1 .. q : queue[j] = l - q + j
      BY <1>7 DEF Tidy
    <3>4. queue' = <<>> <=> q = 1
      <4>1. queue' \in Seq(first .. Len(sent))
        BY <1>3, <1>4, <3>1
      <4>2. queue' = <<>> <=> Len(queue') = 0
        BY <4>1
      <4>. HIDE DEF q
      <4>. QED BY <3>2, <4>2
    <3>5. l \in Nat /\ k = l - q + 1
      BY <1>4, <3>2, <3>3
    <3>. HIDE DEF q, l
    <3>6. Pen' = <<k + 1, 1>>
      <4>1. CASE q = 1
        <5>1. k + 1 = l + 1
          BY <3>5, <4>1
        <5>. QED BY <1>1, <3>4, <4>1, <5>1 DEF Pen, l
      <4>2. CASE q # 1
        <5>1. 1 \in 1 .. q - 1 /\ 2 \in 1 .. q
          BY <3>2, <4>2
        <5>2. queue'[1] = k + 1
          BY <3>2, <3>3, <3>5, <5>1
        <5>. QED BY <3>1, <3>4, <4>2, <5>2 DEF Pen
      <4>. QED BY <4>1, <4>2
    <3>7. \A j \in 1 .. q - 1 : queue'[j] = l - (q - 1) + j
      <4> SUFFICES ASSUME NEW j \in 1 .. q - 1 PROVE queue'[j] = l - (q - 1) + j
        OBVIOUS
      <4>1. j + 1 \in 1 .. q /\ l - q + (j + 1) = l - (q - 1) + j
        BY <3>2, <3>5
      <4>. QED BY <3>2, <3>3, <4>1
    <3>8. Tidy'
      BY <1>1, <3>2, <3>7 DEF Tidy, l
    <3>9. After(sent, b, Pen) = <<k + 1, 1>>
      BY <1>10, <2>2
    <3>. QED BY <3>6, <3>8, <3>9, Zenon
  <2>3. offset + n < F \/ offset + n = F
    <3>. HIDE DEF F
    <3>. QED BY <1>4, <1>9
  <2>. QED BY <2>1, <2>2, <2>3, Zenon
<1>14. Len(got') <= Own'
  BY <1>1, <1>7, <1>8
<1>. QED BY <1>1, <1>8, <1>11, <1>12, <1>13, <1>14 DEF Synced

(* A read moves bytes within the stream.                                   *)
LEMMA StreamRead ==
    ASSUME TypeOK, NEW n, ReadSome(n)
    PROVE  Stream' = Stream
<1> DEFINE x == SubSeq(wire, 1, n)
           y == SubSeq(wire, n + 1, Len(wire))
           S == Byte(Len(sent))
<1>1. n \in 1 .. Len(wire) /\ acc' = acc \o x /\ wire' = y
  BY DEF ReadSome
<1>2. x \in Seq(S) /\ y \in Seq(S) /\ acc \in Seq(S) /\ wire \in Seq(S)
  BY <1>1, ReadIs, Typed
<1>3. x \o y = wire
  <2>1. 1 \in 1 .. Len(wire) + 1 /\ n \in 1 - 1 .. Len(wire) /\ Len(wire) \in n .. Len(wire)
    BY <1>1, <1>2
  <2>. HIDE DEF S
  <2>2. SubSeq(wire, 1, n) \o SubSeq(wire, n + 1, Len(wire)) = SubSeq(wire, 1, Len(wire))
    BY <1>2, <2>1, ConcatAdjacentSubSeq
  <2>3. SubSeq(wire, 1, Len(wire)) = wire
    BY <1>2, SubSeqFull
  <2>. QED BY <2>2, <2>3
<1>. HIDE DEF x, y, S
<1>4. (acc \o x) \o y = acc \o (x \o y)
  BY <1>2, ConcatAssociative
<1>. QED BY <1>1, <1>3, <1>4, Zenon DEF Stream

(* A step that leaves the stream and the writer alone.                     *)
LEMMA SyncedSame ==
    ASSUME Synced, Stream' = Stream, UNCHANGED <<sent, first, queue, offset, got, open>>
    PROVE  Synced'
BY DEF Synced, Own, Due, Pen, Tidy

(* When the connection is lost, so is the end of the stream.               *)
LEMMA SyncedLoss ==
    ASSUME TypeOK, Synced, UNCHANGED <<sent, first, acc, got>>, wire' = wire \/ wire' = <<>>, ~open'
    PROVE  Synced'
<1> DEFINE S == Byte(Len(sent))
<1>1. /\ Len(Stream) \in Nat /\ Len(Stream) = Len(acc) + Len(wire) /\ Stream \in Seq(S)
      /\ \A i \in 1 .. Len(acc) : Stream[i] = acc[i]
      /\ wire \in Seq(S) /\ acc \in Seq(S) /\ Len(acc) \in Nat /\ Len(wire) \in Nat
  BY StreamIs, Typed
<1>2. Stream' = Stream \/ Stream' = acc
  <2>1. CASE wire' = wire
    BY <2>1, Zenon DEF Stream
  <2>2. CASE wire' = <<>>
    <3>1. acc \o <<>> = acc
      BY <1>1, ConcatEmptySeq
    <3>. QED BY <2>2, <3>1, Zenon DEF Stream
  <2>. QED BY <2>1, <2>2
<1>3. Len(acc) <= Len(Stream)
  BY <1>1
<1>4. Chain(sent, Stream, Due) /\ Len(got) <= Own
  BY DEF Synced
<1>. HIDE DEF S
<1>5. Chain(sent, acc, Due)
  BY <1>1, <1>3, <1>4, ChainPart
<1>6. Chain(sent, Stream', Due)
  BY <1>2, <1>4, <1>5
<1>. QED BY <1>4, <1>6 DEF Synced, Own, Due

-----------------------------------------------------------------------------
(* The receiver while a promised frame is missing.                         *)

\* The accumulator starts with frame k, which the receiver takes.
AtFrame(k) ==
    /\ k \in 1 .. Len(sent) /\ first <= k /\ k = first + Len(got)
    /\ Len(got) < Len(Promised) /\ Len(got) + 1 <= Own
    /\ Chain(sent, Stream, <<k, 1>>) /\ Run(Stream) /\ acc[1] = <<k, 1>>
    /\ Accepts(link, sent[k]) /\ Valid(sent[k].size)
    /\ link # "qt" => Full(k) <= Limit
    /\ Len(acc) >= HeaderBytes => Spelled = {sent[k].size}

(* Its accumulator starts with the next promised frame.                    *)
LEMMA LiveFront ==
    ASSUME TypeOK, DownInv, ChannelInv, Live, acc # <<>>
    PROVE  AtFrame(first + Len(got))
<1> DEFINE k == first + Len(got)
           g == Len(got)
<1>1. /\ Stream \in Seq(Byte(Len(sent))) /\ Len(sent) \in Nat /\ g \in Nat
      /\ first \in 1 .. Len(sent) + 1 /\ k \in Nat /\ first <= k
      /\ Due = <<k, 1>> /\ Own \in Nat /\ Own = Len(sent) + 1 - first
  BY SyncedTyped
<1>2. Synced
  BY DEF ChannelInv
<1>3. Chain(sent, Stream, <<k, 1>>) /\ g <= Own
  <2>1. Chain(sent, Stream, Due) /\ g <= Own
    BY <1>2 DEF Synced
  <2>. QED BY <1>1, <2>1
<1>. HIDE DEF k, g
<1>4. Run(Stream)
  BY <1>1, <1>3, ChainRun
<1>5. Stream # <<>> /\ Stream[1] = acc[1] /\ acc[1][1] \in 1 .. Len(sent)
  <2>1. /\ acc \in Seq(Byte(Len(sent))) /\ Len(acc) \in Nat /\ Len(wire) \in Nat
        /\ Len(Stream) = Len(acc) + Len(wire)
        /\ \A i \in 1 .. Len(acc) : Stream[i] = acc[i]
    BY Typed, StreamIs
  <2>2. 1 \in 1 .. Len(acc)
    BY <2>1
  <2>3. Stream # <<>>
    BY <1>1, <2>1, <2>2
  <2>. QED BY <1>1, <2>1, <2>2, <2>3, BytesIs
<1>6. acc[1] = <<k, 1>> /\ k \in 1 .. Len(sent)
  <2>1. acc[1] = <<k, 1>>
    BY <1>3, <1>5 DEF Chain
  <2>2. acc[1][1] = k
    BY <2>1
  <2>. QED BY <1>5, <2>1, <2>2
<1>7. g + 1 \in 1 .. Own /\ first + (g + 1) - 1 = k
  BY <1>1, <1>6 DEF k, g
<1>8. PromiseKept
  BY PromisedIs
<1>9. g + 1 \in 1 .. Len(Promised)
  <2>1. g < Len(Promised) \/ Len(Promised) = Own
    BY DEF Live, g
  <2>2. Len(Promised) \in 0 .. Own
    BY <1>8 DEF PromiseKept
  <2>. QED BY <1>1, <1>7, <2>1, <2>2
<1>10. Accepts(link, sent[k])
  <2>1. Accepts(link, sent[first + (g + 1) - 1])
    BY <1>8, <1>9 DEF PromiseKept
  <2>. QED BY <1>7, <2>1
<1>11. /\ sent[k].size \in Nat \ {0} /\ Full(k) = HeaderBytes + sent[k].size
       /\ link \in Links /\ Limit \in Nat
  BY <1>6, FullIs, Typed, LimitTyped
<1>12. Valid(sent[k].size) /\ (link # "qt" => Full(k) <= Limit)
  <2>1. CASE link = "up"
    <3>1. Limit = ServerMax /\ HeaderBytes + sent[k].size <= ServerMax /\ ServerMax \in Nat
      BY <1>10, <2>1, LimitIs, SizesAssumption DEF Accepts
    <3>. QED BY <1>11, <3>1 DEF Valid, HeaderBytes
  <2>2. CASE link = "down"
    <3>1. Limit = ClientMax /\ ServerMax \in Nat /\ ClientMax \in Nat /\ ReadMax \in Nat
      BY <2>2, LimitIs, SizesAssumption
    <3>2. sent[k].size <= ServerMax
      BY <1>6, <2>2 DEF DownInv, Fits
    <3>. QED BY <1>11, <3>1, <3>2, LimitsFit DEF Valid, HeaderBytes
  <2>3. CASE link = "qt"
    BY <1>10, <1>11, <2>3, LimitIs DEF Accepts, Valid
  <2>. QED BY <1>11, <2>1, <2>2, <2>3 DEF Links
<1>13. Len(acc) >= HeaderBytes => Spelled = {sent[k].size}
  <2>1. SUFFICES ASSUME Len(acc) >= HeaderBytes PROVE Spelled = {sent[k].size}
    OBVIOUS
  <2>2. Spelled = {sent[acc[1][1]].size}
    BY <1>4, <2>1, HeaderRead
  <2>3. acc[1][1] = k
    BY <1>6
  <2>. QED BY <2>2, <2>3
<1>14. g < Len(Promised) /\ g + 1 <= Own
  <2>1. Len(Promised) \in Nat
    BY <1>1, <1>8 DEF PromiseKept
  <2>. QED BY <1>1, <1>7, <1>9, <2>1
<1>. QED BY <1>1, <1>3, <1>4, <1>6, <1>10, <1>12, <1>13, <1>14 DEF AtFrame, k, g

(* It waits without dropping anything.                                     *)
LEMMA LiveWaits ==
    ASSUME TypeOK, DownInv, ChannelInv, Live, NeedMore
    PROVE  acc' = acc
<1>1. acc' = Capped(acc)
  BY DEF NeedMore
<1>2. CASE acc = <<>>
  BY <1>1, <1>2 DEF Capped
<1>3. CASE acc # <<>>
  <2> DEFINE k == first + Len(got)
  <2>1. AtFrame(k)
    BY <1>3, LiveFront
  <2>. HIDE DEF k
  <2>2. k \in 1 .. Len(sent) /\ (link # "qt" => Full(k) <= Limit)
    BY <2>1 DEF AtFrame
  <2>3. Full(k) = HeaderBytes + sent[k].size /\ HeaderBytes < Full(k) /\ Full(k) \in Nat
    BY <2>2, FullIs
  <2>4. Len(acc) < Full(k)
    <3>1. CASE Len(acc) < HeaderBytes
      BY <2>3, <3>1, Typed DEF HeaderBytes
    <3>2. CASE ~(Len(acc) < HeaderBytes)
      <4>1. \E len \in Spelled : Len(acc) < HeaderBytes + len
        BY <3>2 DEF NeedMore
      <4>2. Len(acc) >= HeaderBytes
        BY <3>2, Typed DEF HeaderBytes
      <4>3. Spelled = {sent[k].size}
        BY <2>1, <4>2 DEF AtFrame
      <4>. QED BY <2>3, <4>1, <4>3
    <3>. QED BY <3>1, <3>2
  <2>5. Limit \in Nat /\ Len(acc) \in Nat
    BY Typed, LimitTyped
  <2>. QED BY <1>1, <2>2, <2>3, <2>4, <2>5 DEF Capped
<1>. QED BY <1>2, <1>3

(* It never meets a length it refuses.                                     *)
LEMMA LiveGood ==
    ASSUME TypeOK, DownInv, ChannelInv, Live, BadLength
    PROVE  FALSE
<1>1. PICK len \in Spelled : ~Valid(len)
  BY DEF BadLength
<1>2. Len(acc) >= HeaderBytes
  BY SpelledTyped
<1>3. acc # <<>>
  BY <1>2 DEF HeaderBytes
<1> DEFINE k == first + Len(got)
<1>4. AtFrame(k)
  BY <1>3, LiveFront
<1>. HIDE DEF k
<1>. QED BY <1>1, <1>2, <1>4 DEF AtFrame

(* The legacy decoder never takes its buffer for a bare message.           *)
LEMMA LiveFramed ==
    ASSUME TypeOK, DownInv, ChannelInv, Live, BareMessage
    PROVE  FALSE
<1>1. acc # <<>> /\ MayBeBrace(acc[1])
  BY DEF BareMessage
<1> DEFINE k == first + Len(got)
<1>2. AtFrame(k)
  BY <1>1, LiveFront
<1>. HIDE DEF k
<1>3. acc[1][2] = 1
  BY <1>2 DEF AtFrame
<1>. QED BY <1>1, <1>3 DEF MayBeBrace, IsBrace, HeaderBytes

(* What it takes is the next promised frame.                               *)
LEMMA LiveTakes ==
    ASSUME TypeOK, DownInv, ChannelInv, Live, TakeFrame, NEW k, k = first + Len(got)
    PROVE  /\ AtFrame(k) /\ Len(acc) >= Full(k)
           /\ got' = Append(got, k) /\ acc' = SubSeq(acc, Full(k) + 1, Len(acc))
<1>1. PICK len \in Spelled :
        /\ Valid(len) /\ Len(acc) >= HeaderBytes + len
        /\ LET m == MessageOf(SubSeq(acc, HeaderBytes + 1, HeaderBytes + len))
               rest == SubSeq(acc, HeaderBytes + len + 1, Len(acc))
               none == link = "down" /\ m # 0 /\ ~sent[m].text IN
           /\ got' = IF none THEN got ELSE Append(got, m)
           /\ acc' = IF none THEN Capped(rest) ELSE rest
  BY DEF TakeFrame
<1>2. Len(acc) >= HeaderBytes
  BY SpelledTyped
<1>3. acc # <<>>
  BY <1>2 DEF HeaderBytes
<1>4. AtFrame(k)
  BY <1>3, LiveFront
<1>5. /\ k \in 1 .. Len(sent) /\ acc[1] = <<k, 1>> /\ Run(Stream) /\ Spelled = {sent[k].size}
      /\ Accepts(link, sent[k])
  BY <1>2, <1>4 DEF AtFrame
<1>6. acc[1][1] = k
  BY <1>5
<1>7. len = sent[k].size /\ Full(k) = HeaderBytes + len
  BY <1>5, FullIs
<1>8. MessageOf(SubSeq(acc, HeaderBytes + 1, HeaderBytes + len)) = k
  BY <1>1, <1>2, <1>5, <1>6, <1>7, FrameIs
<1>9. ~(link = "down" /\ k # 0 /\ ~sent[k].text)
  BY <1>5 DEF Accepts
<1>10. got' = Append(got, k) /\ acc' = SubSeq(acc, HeaderBytes + len + 1, Len(acc))
  BY <1>1, <1>8, <1>9
<1>. QED BY <1>1, <1>4, <1>7, <1>10

(* A frame leaves the front of the chain.                                  *)
LEMMA SyncedTake ==
    ASSUME TypeOK, DownInv, ChannelInv, Live, TakeFrame
    PROVE  Synced'
<1> DEFINE k == first + Len(got)
           S == Byte(Len(sent))
           r == SubSeq(acc, Full(k) + 1, Len(acc))
<1>1. /\ AtFrame(k) /\ Len(acc) >= Full(k) /\ got' = Append(got, k) /\ acc' = r
      /\ UNCHANGED <<link, sent, first, queue, offset, wire, open>>
  <2>1. UNCHANGED <<link, sent, first, queue, offset, wire, open>>
    BY DEF TakeFrame
  <2>. QED BY <2>1, LiveTakes
<1>2. /\ k \in 1 .. Len(sent) /\ first <= k /\ Chain(sent, Stream, <<k, 1>>) /\ Len(got) + 1 <= Own
  BY <1>1 DEF AtFrame
<1>3. /\ Stream \in Seq(S) /\ acc \in Seq(S) /\ wire \in Seq(S) /\ Len(acc) \in Nat /\ Len(got) \in Nat
      /\ first \in Nat /\ got \in Seq(0 .. Len(sent))
  BY Typed, SyncedTyped
<1>4. Full(k) \in 1 .. Len(acc)
  BY <1>1, <1>2, <1>3, FullIs DEF HeaderBytes
<1>5. r \in Seq(S) /\ IsRest(r, acc, Full(k))
  <2>. HIDE DEF S, k
  <2>. QED BY <1>3, <1>4, RestIs
<1>6. r \o wire \in Seq(S) /\ IsRest(r \o wire, Stream, Full(k))
  <2>. HIDE DEF S, k, r
  <2>. QED BY <1>3, <1>4, <1>5, Dropped DEF Stream
<1>7. Stream' = r \o wire
  BY <1>1, Zenon DEF Stream
<1>8. /\ Chain(sent, r \o wire, <<k + 1, 1>>)
      /\ After(sent, r \o wire, <<k + 1, 1>>) = After(sent, Stream, <<k, 1>>)
  <2>. HIDE DEF k, r
  <2>. QED BY <1>2, <1>3, <1>6, ChainDrop
<1>9. Len(got') = Len(got) + 1 /\ Due = <<k, 1>> /\ Due' = <<k + 1, 1>> /\ Own' = Own
  <2>1. Len(got') = Len(got) + 1
    BY <1>1, <1>2, <1>3
  <2>2. first + (Len(got) + 1) = k + 1
    BY <1>3
  <2>. QED BY <1>1, <2>1, <2>2 DEF Due, Own
<1>10. open => Pen = After(sent, Stream, Due) /\ Tidy
  BY DEF ChannelInv, Synced
<1>11. Pen' = Pen /\ (Tidy => Tidy')
  BY <1>1 DEF Pen, Tidy
<1>. HIDE DEF k, r
<1>12. Chain(sent, Stream, Due)'
  BY <1>1, <1>7, <1>8, <1>9
<1>13. (open => Pen = After(sent, Stream, Due) /\ Tidy)'
  BY <1>1, <1>7, <1>8, <1>9, <1>10, <1>11
<1>. QED BY <1>2, <1>9, <1>12, <1>13 DEF Synced

-----------------------------------------------------------------------------
(* Every step of the bytes is a step of the channel, or none.              *)

\* The frames received, as the channel counts them.
ReceivedOf(g, p) == SubSeq(g, 1, IF Len(g) < Len(p) THEN Len(g) ELSE Len(p))
Received == ReceivedOf(got, Promised)

ChannelStep == [Channel!Next]_(Channel!chanVars)

(* The steps of the channel, in terms of what it is mapped to.             *)
LEMMA StepIs ==
    /\ Promised' = Promised /\ Received' = Received /\ open' = open => ChannelStep
    /\ \A f \in 1 .. MaxFrames :
          open /\ Promised' = Append(Promised, f) /\ Received' = Received /\ open' = open => ChannelStep
    /\ /\ Len(Received) < Len(Promised) /\ Received' = Append(Received, Promised[Len(Received) + 1])
       /\ Promised' = Promised /\ open' = open
       => ChannelStep
    /\ open /\ ~open' /\ open' \in BOOLEAN /\ Promised' = Promised /\ Received' = Received => ChannelStep
    /\ ~open /\ open' /\ open' \in BOOLEAN /\ Promised' = <<>> /\ Received' = <<>> => ChannelStep
<1>1. Promised' = Promised /\ Received' = Received /\ open' = open => ChannelStep
  BY DEF ChannelStep, Received, ReceivedOf, Channel!chanVars
<1>2. ASSUME NEW f \in 1 .. MaxFrames,
             open, Promised' = Append(Promised, f), Received' = Received, open' = open
      PROVE  ChannelStep
  <2>1. Channel!Send(f)
    BY <1>2 DEF Received, ReceivedOf, Channel!Send
  <2>. QED BY <2>1 DEF ChannelStep, Channel!Next
<1>3. ASSUME Len(Received) < Len(Promised), Received' = Append(Received, Promised[Len(Received) + 1]),
             Promised' = Promised, open' = open
      PROVE  ChannelStep
  <2>1. Channel!Receive
    BY <1>3 DEF Received, ReceivedOf, Channel!Receive
  <2>. QED BY <2>1 DEF ChannelStep, Channel!Next
<1>4. ASSUME open, ~open', open' \in BOOLEAN, Promised' = Promised, Received' = Received
      PROVE  ChannelStep
  <2>1. Channel!Close
    BY <1>4 DEF Received, ReceivedOf, Channel!Close
  <2>. QED BY <2>1 DEF ChannelStep, Channel!Next
<1>5. ASSUME ~open, open', open' \in BOOLEAN, Promised' = <<>>, Received' = <<>>
      PROVE  ChannelStep
  <2>1. Channel!Reopen
    BY <1>5 DEF Received, ReceivedOf, Channel!Reopen
  <2>. QED BY <2>1 DEF ChannelStep, Channel!Next
<1>. QED BY <1>1, <1>2, <1>3, <1>4, <1>5

(* Fewer frames than promised count all, more do not count.                *)
LEMMA ReceivedIs ==
    ASSUME NEW S, NEW g \in Seq(S), NEW p \in Seq(Nat)
    PROVE  /\ Len(g) <= Len(p) => ReceivedOf(g, p) = g
           /\ \A m \in S : Len(p) <= Len(g) => ReceivedOf(Append(g, m), p) = ReceivedOf(g, p)
<1>1. Len(g) \in Nat /\ Len(p) \in Nat
  OBVIOUS
<1>2. ASSUME Len(g) <= Len(p) PROVE ReceivedOf(g, p) = g
  <2>1. ReceivedOf(g, p) = SubSeq(g, 1, Len(g))
    BY <1>1, <1>2 DEF ReceivedOf
  <2>. QED BY <2>1, SubSeqFull
<1>3. ASSUME NEW m \in S, Len(p) <= Len(g) PROVE ReceivedOf(Append(g, m), p) = ReceivedOf(g, p)
  <2> DEFINE a == Append(g, m)
             l == Len(p)
             x == SubSeq(a, 1, l)
             y == SubSeq(g, 1, l)
  <2>1. a \in Seq(S) /\ Len(a) = Len(g) + 1 /\ \A i \in 1 .. Len(g) : a[i] = g[i]
    OBVIOUS
  <2>2. ReceivedOf(a, p) = x /\ ReceivedOf(g, p) = y
    BY <1>1, <1>3, <2>1 DEF ReceivedOf
  <2>3. l \in Nat /\ 1 \in Nat \ {0} /\ l <= Len(a) /\ l <= Len(g) /\ 1 <= l + 1 /\ l - 1 + 1 = l
    BY <1>1, <1>3, <2>1
  <2>. HIDE DEF a, l
  <2>4. x \in Seq(S) /\ Len(x) = l - 1 + 1 /\ \A i \in 1 .. l - 1 + 1 : x[i] = a[1 + i - 1]
    BY <2>1, <2>3, PartIs
  <2>5. y \in Seq(S) /\ Len(y) = l - 1 + 1 /\ \A i \in 1 .. l - 1 + 1 : y[i] = g[1 + i - 1]
    BY <2>3, PartIs
  <2>. HIDE DEF x, y
  <2>6. ASSUME NEW i \in 1 .. l PROVE x[i] = y[i]
    <3>1. i \in 1 .. l - 1 + 1 /\ i \in 1 .. Len(g) /\ 1 + i - 1 = i
      BY <1>1, <2>3
    <3>2. x[i] = a[i]
      BY <2>4, <3>1
    <3>3. y[i] = g[i]
      BY <2>5, <3>1
    <3>. QED BY <2>1, <3>1, <3>2, <3>3
  <2>7. Len(x) = l /\ Len(y) = l
    BY <2>3, <2>4, <2>5
  <2>8. x = y
    BY <2>4, <2>5, <2>6, <2>7, SeqEqual
  <2>. QED BY <2>2, <2>8 DEF a
<1>. QED BY <1>2, <1>3

(* Steps that send and receive nothing.                                    *)
LEMMA StepSame ==
    ASSUME TypeOK, TypeOK', ChannelInv, UNCHANGED <<link, sent, first, stale, got>>,
           open' = open \/ (open /\ ~open'),
           link # "down" => queue' = <<>>,
           Live => Synced'
    PROVE  ChannelInv' /\ ChannelStep
<1>1. Promised' = Promised /\ Own' = Own
  BY PromisedSame
<1>2. Received' = Received
  BY <1>1 DEF Received
<1>3. open' \in BOOLEAN
  BY DEF TypeOK
<1>4. ChannelStep
  BY <1>1, <1>2, <1>3, StepIs
<1>5. Live' = Live
  BY <1>1 DEF Live
<1>6. ChannelInv'
  BY <1>1, <1>5 DEF ChannelInv
<1>. QED BY <1>4, <1>6

(* Steps that hand something on.                                           *)
LEMMA StepReceive ==
    ASSUME TypeOK, TypeOK', ChannelInv, UNCHANGED <<link, sent, first, stale, queue, open>>,
           NEW m \in 0 .. Len(sent), got' = Append(got, m),
           Live => m = first + Len(got) /\ Synced'
    PROVE  ChannelInv' /\ ChannelStep
<1> DEFINE g == Len(got)
           p == Len(Promised)
           S == 0 .. Len(sent)
<1>1. Promised' = Promised /\ Own' = Own
  BY PromisedSame
<1>2. got \in Seq(S) /\ g \in Nat /\ first \in Nat
  BY Typed
<1>3. /\ got' \in Seq(S) /\ Len(got') = g + 1 /\ got'[g + 1] = m
      /\ \A i \in 1 .. g : got'[i] = got[i]
  BY <1>2
<1>4. /\ Promised \in Seq(Nat) /\ p \in Nat /\ (stale => p = 0)
      /\ \A i \in 1 .. p : Promised[i] = first + i - 1
  BY PromisedIs DEF PromiseKept
<1>5. g < p => Live
  BY <1>2, <1>4 DEF Live
<1>6. Live' => Live
  BY <1>1, <1>2, <1>3, <1>4 DEF Live
<1>7. \A i \in 1 .. p : i <= g + 1 => got'[i] = first + i - 1
  <2> SUFFICES ASSUME NEW i \in 1 .. p, i <= g + 1 PROVE got'[i] = first + i - 1
    OBVIOUS
  <2>1. CASE i <= g
    <3>1. i \in 1 .. g
      BY <1>2, <1>4, <2>1
    <3>2. got[i] = first + i - 1
      BY <2>1 DEF ChannelInv
    <3>. QED BY <1>3, <3>1, <3>2
  <2>2. CASE i = g + 1
    <3>1. g < p /\ first + (g + 1) - 1 = first + g
      BY <1>2, <1>4, <2>2
    <3>. QED BY <1>3, <1>5, <2>2, <3>1
  <2>. QED BY <1>2, <1>4, <2>1, <2>2
<1>8. ChannelInv'
  <2>1. \A i \in 1 .. Len(Promised') : i <= Len(got') => got'[i] = first' + i - 1
    BY <1>1, <1>3, <1>7
  <2>2. (Live => Synced)'
    BY <1>6
  <2>3. (link # "down" => queue = <<>>)'
    BY DEF ChannelInv
  <2>. QED BY <2>1, <2>2, <2>3 DEF ChannelInv
<1>9. CASE g < p
  <2>1. Received = got
    BY <1>2, <1>4, <1>9, ReceivedIs DEF Received
  <2>2. ReceivedOf(got', Promised) = got'
    <3>1. Len(got') <= p
      BY <1>2, <1>3, <1>4, <1>9
    <3>. HIDE DEF S
    <3>. QED BY <1>3, <1>4, <3>1, ReceivedIs
  <2>3. Received' = got'
    BY <1>1, <2>2 DEF Received
  <2>4. m = Promised[g + 1]
    <3>1. g + 1 \in 1 .. p /\ first + (g + 1) - 1 = first + g
      BY <1>2, <1>4, <1>9
    <3>. QED BY <1>4, <1>5, <1>9, <3>1
  <2>5. ChannelStep
    BY <1>1, <1>9, <2>1, <2>3, <2>4, StepIs
  <2>. QED BY <1>8, <2>5
<1>10. CASE ~(g < p)
  <2>1. p <= g
    BY <1>2, <1>4, <1>10
  <2>. HIDE DEF S
  <2>2. ReceivedOf(Append(got, m), Promised) = ReceivedOf(got, Promised)
    BY <1>2, <1>4, <2>1, ReceivedIs DEF S
  <2>3. Received' = Received
    BY <1>1, <2>2 DEF Received
  <2>. QED BY <1>1, <1>8, <2>3, StepIs
<1>. QED BY <1>9, <1>10

(* Steps that send a frame.                                                *)
LEMMA StepSend ==
    ASSUME TypeOK, TypeOK', ChannelInv, UNCHANGED <<link, first, stale, got, open>>, open,
           Len(sent) < MaxFrames, NEW r \in Frame, sent' = Append(sent, r),
           link # "down" => queue' = <<>>,
           Live => Synced'
    PROVE  ChannelInv' /\ ChannelStep
<1> DEFINE g == Len(got)
           p == Len(Promised)
<1>1. /\ Own' = Own + 1
      /\ \/ Promised' = Promised
         \/ /\ ~stale /\ p = Own /\ Len(Promised') = p + 1 /\ Promised' = Append(Promised, Len(sent) + 1)
  BY PromisedGrows
<1>2. g \in Nat /\ Len(sent) \in Nat /\ got \in Seq(0 .. Len(sent)) /\ Own \in Nat
  BY Typed, SyncedTyped
<1>3. Promised \in Seq(Nat) /\ p \in 0 .. Own
  BY PromisedIs DEF PromiseKept
<1>4. CASE Promised' = Promised
  <2>1. Received' = Received
    BY <1>4 DEF Received
  <2>2. Live' => Live
    BY <1>1, <1>2, <1>3, <1>4 DEF Live
  <2>3. ChannelInv'
    BY <1>4, <2>2 DEF ChannelInv
  <2>. QED BY <1>4, <2>1, <2>3, StepIs
<1>5. CASE ~stale /\ p = Own /\ Len(Promised') = p + 1 /\ Promised' = Append(Promised, Len(sent) + 1)
  <2>1. Live
    BY <1>5 DEF Live
  <2>2. g <= p
    BY <1>5, <2>1 DEF ChannelInv, Synced
  <2>3. Received = got
    BY <1>2, <1>3, <2>2, ReceivedIs DEF Received
  <2>4. Promised' \in Seq(Nat) /\ g <= Len(Promised')
    BY <1>2, <1>3, <1>5, <2>2
  <2>5. ReceivedOf(got, Promised') = got
    BY <1>2, <2>4, ReceivedIs
  <2>6. Received' = Received
    BY <2>3, <2>5 DEF Received
  <2>7. Len(sent) + 1 \in 1 .. MaxFrames
    BY <1>2, SizesAssumption
  <2>8. ChannelStep
    BY <1>5, <2>6, <2>7, StepIs
  <2>9. \A i \in 1 .. p + 1 : i <= g => got[i] = first + i - 1
    <3> SUFFICES ASSUME NEW i \in 1 .. p + 1, i <= g PROVE got[i] = first + i - 1
      OBVIOUS
    <3>1. i \in 1 .. p
      BY <1>2, <1>3, <2>2
    <3>. QED BY <3>1 DEF ChannelInv
  <2>10. ChannelInv'
    BY <1>5, <2>1, <2>9 DEF ChannelInv
  <2>. QED BY <2>8, <2>10
<1>. QED BY <1>1, <1>4, <1>5

\* Nothing is under way, and nothing was sent on this connection.
Fresh ==
    /\ Len(sent) \in Nat /\ first = Len(sent) + 1
    /\ acc = <<>> /\ wire = <<>> /\ queue = <<>> /\ got = <<>>

(* A stream without bytes, on a connection without frames.                 *)
LEMMA SyncedEmpty == Fresh => Synced
<1> SUFFICES ASSUME Fresh PROVE Synced
  OBVIOUS
<1> USE DEF Fresh
<1>1. Stream = <<>>
  BY DEF Stream
<1>2. Len(got) = 0 /\ Own = 0 /\ Due = <<Len(sent) + 1, 1>> /\ Pen = <<Len(sent) + 1, 1>>
  BY DEF Own, Due, Pen
<1>3. Chain(sent, Stream, Due) /\ After(sent, Stream, Due) = Due
  BY <1>1 DEF Chain, After
<1>4. Tidy
  BY DEF Tidy
<1>. QED BY <1>2, <1>3, <1>4 DEF Synced

(* A new connection.                                                       *)
LEMMA StepReopen ==
    ASSUME TypeOK, TypeOK', Reconnect
    PROVE  ChannelInv' /\ ChannelStep
<1>1. /\ ~open /\ open' = TRUE /\ first' = Len(sent) + 1 /\ queue' = <<>> /\ wire' = <<>> /\ got' = <<>>
      /\ stale' = (acc' # <<>>) /\ sent' = sent
  BY DEF Reconnect
<1>2. Len(sent) \in Nat /\ Len(sent') \in Nat
  BY <1>1, Typed
<1>3. Promised' = <<>> /\ Own' = 0
  BY <1>1, <1>2, PromisedNone
<1>4. Received' = <<>>
  <2>1. ReceivedOf(<<>>, <<>>) = <<>>
    BY DEF ReceivedOf
  <2>. QED BY <1>1, <1>3, <2>1 DEF Received
<1>5. ChannelStep
  BY <1>1, <1>3, <1>4, StepIs
<1>6. ASSUME Live' PROVE Synced'
  <2>1. acc' = <<>>
    BY <1>1, <1>6 DEF Live
  <2>2. first' = Len(sent') + 1
    BY <1>1
  <2>3. Fresh'
    BY <1>1, <1>2, <2>1, <2>2 DEF Fresh
  <2>. QED BY <2>3, SyncedEmpty, PTL
<1>7. ChannelInv'
  BY <1>1, <1>3, <1>6 DEF ChannelInv
<1>. QED BY <1>5, <1>7

(* Every step keeps the invariant and is a step of the channel, or none.   *)
LEMMA ChannelNext ==
    TypeOK /\ TypeOK' /\ DownInv /\ ChannelInv /\ [Next]_vars => ChannelInv' /\ ChannelStep
<1> SUFFICES ASSUME TypeOK, TypeOK', DownInv, ChannelInv, [Next]_vars
             PROVE  ChannelInv' /\ ChannelStep
  OBVIOUS
<1>1. Live => Synced
  BY DEF ChannelInv
<1>2. link # "down" => queue = <<>>
  BY DEF ChannelInv
<1>3. ASSUME NEW size \in Size, NEW text \in BOOLEAN, Deliver(size, text)
      PROVE  ChannelInv' /\ ChannelStep
  <2> DEFINE r == [size |-> size, text |-> text]
  <2>1. /\ open /\ Len(sent) < MaxFrames /\ sent' = Append(sent, r) /\ link = "down"
        /\ UNCHANGED <<link, first, stale, got, open>>
    BY <1>3 DEF Deliver
  <2>2. r \in Frame
    BY DEF Frame
  <2>3. Live => Synced'
    BY <1>1, <1>3, SyncedDeliver
  <2>. HIDE DEF r
  <2>. QED BY <2>1, <2>2, <2>3, StepSend
<1>4. ASSUME NEW size \in Size, SendJson(size)
      PROVE  ChannelInv' /\ ChannelStep
  <2> DEFINE r == [size |-> size, text |-> TRUE]
  <2>1. /\ open /\ Len(sent) < MaxFrames /\ sent' = Append(sent, r) /\ link \in {"up", "qt"}
        /\ UNCHANGED <<link, first, stale, got, open, queue>>
    BY <1>4 DEF SendJson
  <2>2. r \in Frame
    BY DEF Frame
  <2>3. queue = <<>> /\ queue' = <<>>
    BY <1>2, <2>1
  <2>4. Live => Synced'
    BY <1>1, <1>4, <2>3, SyncedSend
  <2>. HIDE DEF r
  <2>. QED BY <2>1, <2>2, <2>3, <2>4, StepSend
<1>5. ASSUME NEW size \in Size, DeliverTooLarge(size)
      PROVE  ChannelInv' /\ ChannelStep
  <2>1. /\ open /\ open' = FALSE /\ wire' = <<>> /\ queue' = <<>>
        /\ UNCHANGED <<link, sent, first, acc, stale, got>>
    BY <1>5 DEF DeliverTooLarge
  <2>2. Live => Synced'
    BY <1>1, <2>1, SyncedLoss
  <2>. QED BY <2>1, <2>2, StepSame
<1>6. ASSUME NEW n, WriteSome(n)
      PROVE  ChannelInv' /\ ChannelStep
  <2>1. writing /\ UNCHANGED <<link, sent, first, stale, got, open>>
    BY <1>6 DEF WriteSome
  <2>2. link = "down"
    BY <1>2, <2>1 DEF TypeOK
  <2>3. Live => Synced'
    BY <1>1, <1>6, SyncedWrite
  <2>. QED BY <2>1, <2>2, <2>3, StepSame
<1>7. CASE WriteFails
  <2>1. ~open /\ queue' = <<>> /\ UNCHANGED <<link, sent, first, acc, wire, stale, got, open>>
    BY <1>7 DEF WriteFails
  <2>2. Live => Synced'
    BY <1>1, <2>1, SyncedLoss
  <2>. QED BY <2>1, <2>2, StepSame
<1>8. ASSUME NEW n, ReadSome(n)
      PROVE  ChannelInv' /\ ChannelStep
  <2>1. UNCHANGED <<link, sent, first, stale, got, open, queue, offset>>
    BY <1>8 DEF ReadSome
  <2>2. Stream' = Stream
    BY <1>8, StreamRead
  <2>3. Live => Synced'
    BY <1>1, <2>1, <2>2, SyncedSame
  <2>. QED BY <1>2, <2>1, <2>3, StepSame
<1>9. CASE NeedMore
  <2>1. UNCHANGED <<link, sent, first, stale, got, open, queue, offset, wire>>
    BY <1>9 DEF NeedMore
  <2>2. ASSUME Live PROVE Synced'
    <3>1. acc' = acc
      BY <1>9, <2>2, LiveWaits
    <3>2. Stream' = Stream
      BY <2>1, <3>1 DEF Stream
    <3>. QED BY <1>1, <2>1, <2>2, <3>2, SyncedSame
  <2>. QED BY <1>2, <2>1, <2>2, StepSame
<1>10. CASE BadLength
  <2>1. UNCHANGED <<link, sent, first, stale, open, queue>>
    BY <1>10 DEF BadLength
  <2>2. ~Live
    BY <1>10, LiveGood
  <2>3. got' = got \/ \E m \in 0 .. Len(sent) : got' = Append(got, m)
    <3>1. got' = got \/ got' = Append(got, MessageOf(acc)) \/ got' = Append(got, 0)
      BY <1>10 DEF BadLength
    <3>2. acc # <<>>
      <4>1. \E len \in Spelled : TRUE
        BY <1>10 DEF BadLength
      <4>. QED BY <4>1, SpelledTyped DEF HeaderBytes
    <3>3. MessageOf(acc) \in 0 .. Len(sent) /\ 0 \in 0 .. Len(sent)
      BY <3>2, MessageTyped, Typed
    <3>. QED BY <3>1, <3>3
  <2>4. CASE got' = got
    BY <1>2, <2>1, <2>2, <2>4, StepSame
  <2>5. ASSUME NEW m \in 0 .. Len(sent), got' = Append(got, m)
        PROVE  ChannelInv' /\ ChannelStep
    BY <2>1, <2>2, <2>5, StepReceive
  <2>. QED BY <2>3, <2>4, <2>5
<1>11. CASE BareMessage
  <2>1. /\ UNCHANGED <<link, sent, first, stale, open, queue>>
        /\ got' = Append(got, MessageOf(acc)) /\ acc # <<>>
    BY <1>11 DEF BareMessage
  <2>2. ~Live
    BY <1>11, LiveFramed
  <2>3. MessageOf(acc) \in 0 .. Len(sent)
    BY <2>1, MessageTyped, Typed
  <2>. QED BY <2>1, <2>2, <2>3, StepReceive
<1>12. CASE TakeFrame
  <2>1. UNCHANGED <<link, sent, first, stale, open, queue>>
    BY <1>12 DEF TakeFrame
  <2>2. ASSUME Live PROVE Synced' /\ got' = Append(got, first + Len(got))
    BY <1>12, <2>2, SyncedTake, LiveTakes
  <2>3. got' = got \/ \E m \in 0 .. Len(sent) : got' = Append(got, m)
    <3>1. PICK len \in Spelled :
            /\ Valid(len) /\ Len(acc) >= HeaderBytes + len
            /\ \/ got' = got
               \/ got' = Append(got, MessageOf(SubSeq(acc, HeaderBytes + 1, HeaderBytes + len)))
      BY <1>12 DEF TakeFrame
    <3>. QED BY <3>1, TakenTyped
  <2>4. /\ got \in Seq(0 .. Len(sent)) /\ Len(got) \in Nat
        /\ \A m : Append(got, m) # got /\ Append(got, m)[Len(got) + 1] = m
    BY Typed
  <2>5. CASE got' = got
    <3>1. ~Live
      BY <2>2, <2>4, <2>5
    <3>. QED BY <1>2, <2>1, <2>5, <3>1, StepSame
  <2>6. ASSUME NEW m \in 0 .. Len(sent), got' = Append(got, m)
        PROVE  ChannelInv' /\ ChannelStep
    <3>1. Live => m = first + Len(got)
      BY <2>2, <2>4, <2>6
    <3>. QED BY <2>1, <2>2, <2>6, <3>1, StepReceive
  <2>. QED BY <2>3, <2>5, <2>6
<1>13. CASE Cut
  <2>1. open /\ open' = FALSE /\ wire' = <<>> /\ UNCHANGED <<link, sent, first, acc, stale, got, queue>>
    BY <1>13 DEF Cut
  <2>2. Live => Synced'
    BY <1>1, <2>1, SyncedLoss
  <2>. QED BY <1>2, <2>1, <2>2, StepSame
<1>14. CASE Reconnect
  BY <1>14, StepReopen
<1>15. CASE UNCHANGED vars
  <2>1. UNCHANGED <<link, sent, first, stale, got, open, queue, offset, acc, wire>>
    BY <1>15 DEF vars
  <2>2. Stream' = Stream
    BY <2>1 DEF Stream
  <2>3. Live => Synced'
    BY <1>1, <2>1, <2>2, SyncedSame
  <2>. QED BY <1>2, <2>1, <2>3, StepSame
<1>. QED BY <1>3, <1>4, <1>5, <1>6, <1>7, <1>8, <1>9, <1>10, <1>11, <1>12, <1>13, <1>14, <1>15
         DEF Next, Write, Read

(* The first connection starts like any other.                             *)
LEMMA ChannelInit == Init => ChannelInv /\ Channel!Init
<1> SUFFICES ASSUME Init PROVE ChannelInv /\ Channel!Init
  OBVIOUS
<1>1. /\ sent = <<>> /\ first = 1 /\ queue = <<>> /\ wire = <<>> /\ acc = <<>> /\ got = <<>>
      /\ open = TRUE
  BY DEF Init
<1>2. TypeOK
  BY TypeInit
<1>3. PromiseKept
  BY <1>2, PromisedIs
<1>4. Own = 0 /\ Len(sent) \in Nat /\ first = Len(sent) + 1
  BY <1>1 DEF Own
<1>5. Promised = <<>>
  BY <1>3, <1>4 DEF PromiseKept
<1>6. Synced
  BY <1>1, <1>4, SyncedEmpty DEF Fresh
<1>7. ChannelInv
  BY <1>1, <1>5, <1>6 DEF ChannelInv
<1>8. Channel!Init
  BY <1>1, <1>5 DEF Channel!Init
<1>. QED BY <1>7, <1>8

(* The framing code implements the channel, whatever the sizes of the      *)
(* messages, of the partial writes and of the reads: the frames before the *)
(* first unreadable one come out whole, once and in order on every link    *)
(* (AsyncSession::doWrite, doRead, TcpManager::connect, decodeFrames).     *)
THEOREM SpecImplementsChannel == Spec => Channel!Init /\ [][Channel!Next]_(Channel!chanVars)
<1>1. Spec => [](TypeOK /\ DownInv)
  BY TypeInit, TypeNext, DownInit, DownNext, PTL DEF Spec
<1>2. Init => ChannelInv /\ Channel!Init
  BY ChannelInit
<1>3. TypeOK /\ TypeOK' /\ DownInv /\ ChannelInv /\ [Next]_vars =>
        ChannelInv' /\ [Channel!Next]_(Channel!chanVars)
  BY ChannelNext DEF ChannelStep
<1>. QED BY <1>1, <1>2, <1>3, PTL DEF Spec
=============================================================================
