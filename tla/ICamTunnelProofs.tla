------------------------- MODULE ICamTunnelProofs --------------------------
(***************************************************************************)
(* Theorems about ICamTunnel, for every number of connections, channel     *)
(* numbers, chunks and links.  A frame is read only as what the other side *)
(* decodes; the lemmas about ICamMessage say what that is.                 *)
(***************************************************************************)
EXTENDS ICamTunnel, SequenceTheorems, WellFoundedInduction, TLAPS

(* What a frame says to the one that decodes it.                           *)
Says(f, type, i) == icam_message_decode(f.bytes) = [type |-> type, channel_id |-> i]
Opens(f, i) == Says(f, kPacketTypeNewChannel, i)
Deletes(f, i) == Says(f, kPacketTypeDeleteChannel, i)
Ups(f, i) == Says(f, kPacketTypeLinkUp, i)
Downs(f, i) == Says(f, kPacketTypeLinkDown, i)
Carries(f, i, n) ==
    icam_message_decode(f.bytes) =
        [type |-> Transport, channel |-> i, data |-> <<f.owner, n>>]

(* The frames there are: to the camera and from it.                        *)
ToCamera(f) ==
    /\ f.owner \in Conns
    /\ \/ \E i \in Ids : Opens(f, i) \/ Deletes(f, i)
       \/ \E i \in UserIds, n \in 1 .. MaxData : Carries(f, i, n)
FromCamera(f) ==
    \/ \E i \in Ids : Ups(f, i) \/ Downs(f, i)
    \/ \E i \in UserIds : Carries(f, i, 0)

(* Frames and blocks, whatever they hold.                                  *)
FrameSet == [bytes : Seq(Nat), owner : Conns \cup {Nobody}]
BlockSet == [kind : {"accept", "read", "disconnect"}, link : Nat, frame : FrameSet]

IsRead(b) == b.kind = "read"
About(f, i) == AboutId(icam_message_decode(f.bytes), i)

Frames ==
    /\ toCamera \in Seq(FrameSet) /\ main \in Seq(BlockSet)
    /\ \A k \in DOMAIN toCamera : ToCamera(toCamera[k])
    /\ \A k \in DOMAIN main : IsRead(main[k]) => FromCamera(main[k].frame)

(* The links and the blocks on the main queue: what the camera sent was    *)
(* read before any news of the link, and a link that is up is the server's *)
(* or waits to be accepted.                                                *)
OnlyReads == \A k \in DOMAIN main : IsRead(main[k])
NoReads == \A k \in DOMAIN main : ~ IsRead(main[k])
Accepts(b) == b.kind = "accept" /\ b.link = link
Ordered == \A k, l \in DOMAIN main : k < l /\ IsRead(main[l]) => IsRead(main[k])
Known == \A k \in DOMAIN main : main[k].kind = "accept" => main[k].link <= link
Coming ==
    /\ main # <<>> /\ Accepts(main[Len(main)])
    /\ \A k \in DOMAIN main : Accepts(main[k]) => k = Len(main)
Idle == toCamera = <<>> /\ \A i \in Ids : cam[i] = Nobody
Links ==
    /\ conn <= link
    /\ up => link > 0
    /\ Ordered /\ Known
    /\ up /\ conn = link => OnlyReads
    /\ up /\ conn # link => Coming
    /\ ~ (up /\ conn = link) => Idle
    /\ conn = 0 => NoReads
    /\ conn # 0 => pendingConnectChannels = <<>>

(* The numbers.                                                            *)
NotOpened(i) == \A k \in DOMAIN toCamera : ~ Opens(toCamera[k], i)
NothingRead(i, from) ==
    \A k \in DOMAIN main : k >= from /\ IsRead(main[k]) => ~ About(main[k].frame, i)
Unknown(i) == cam[i] = Nobody /\ NotOpened(i)
Numbers ==
    \A i \in UserIds :
        /\ ~ ids[i] => Unknown(i) /\ NothingRead(i, 1)
        /\ \A k \in DOMAIN main : IsRead(main[k]) /\ Downs(main[k].frame, i) =>
              Unknown(i) /\ NothingRead(i, k + 1)
        /\ cam[i] # Nobody => NotOpened(i)
        /\ \A k, l \in DOMAIN toCamera : 
              Opens(toCamera[k], i) /\ Opens(toCamera[l], i) => k = l
        /\ \A k, l \in DOMAIN toCamera, n \in 1 .. MaxData :
              Carries(toCamera[k], i, n) /\ Opens(toCamera[l], i) => k < l

(* Whose they are.                                                         *)
Its(c, i) == c \in Conns /\ num[c] = i /\ connMap[i] \in {c, Nobody}
Owners ==
    /\ \A i \in Ids : connMap[i] # Nobody => num[connMap[i]] = i
    /\ \A i \in UserIds :
        /\ \A k \in DOMAIN main : IsRead(main[k]) /\ About(main[k].frame, i) =>
              Its(main[k].frame.owner, i)
        /\ cam[i] # Nobody => Its(cam[i], i)
        /\ \A k \in DOMAIN toCamera :
              /\ Opens(toCamera[k], i) => Its(toCamera[k].owner, i)
              /\ \A n \in 1 .. MaxData : Carries(toCamera[k], i, n) =>
                    num[toCamera[k].owner] = i /\ cam[i] \in {toCamera[k].owner, Nobody}

(* The connections: one that has not been made has left no trace, an open  *)
(* one has its number, one that waits to be announced too.                 *)
Waits(c) == \E k \in DOMAIN pendingConnectChannels : pendingConnectChannels[k] = c
Untouched(c) ==
    /\ sent[c] = 0 /\ ~ linked[c] /\ pendingBuf[c] = <<>> /\ received[c] = <<>>
    /\ \A i \in Ids : connMap[i] # c /\ cam[i] # c
    /\ \A k \in DOMAIN toCamera : toCamera[k].owner # c
    /\ \A k \in DOMAIN main : IsRead(main[k]) => main[k].frame.owner # c
    /\ ~ Waits(c)
HasNumber(c) == num[c] # 0 => connMap[num[c]] = c /\ ids[num[c]]
Connections ==
    /\ \A c \in Conns :
        /\ local[c] = "none" => Untouched(c)
        /\ local[c] = "open" => c \in channels /\ HasNumber(c)
    /\ \A c \in Conns : Waits(c) => HasNumber(c)
    /\ \A k, l \in DOMAIN pendingConnectChannels :
          pendingConnectChannels[k] = pendingConnectChannels[l] => k = l

(* The data kept until the link is up: all of it, in order.                *)
Kept ==
    \A c \in Conns :
        /\ \A k \in DOMAIN pendingBuf[c] : pendingBuf[c][k] = k
        /\ Len(pendingBuf[c]) <= sent[c] /\ Len(received[c]) <= sent[c]
        /\ linked[c] => pendingBuf[c] = <<>>
        /\ ~ linked[c] /\ local[c] = "open" => Len(pendingBuf[c]) = sent[c]

(* A connection that has still to be announced, or whose announcement or   *)
(* answer is under way, has sent nothing.                                  *)
Chunk(k, c, n) == toCamera[k].owner = c /\ Carries(toCamera[k], num[c], n)
Silent(c) ==
    /\ ~ linked[c] /\ received[c] = <<>>
    /\ \A k \in DOMAIN toCamera, n \in 1 .. MaxData : ~ Chunk(k, c, n)
Rises(k, c) == IsRead(main[k]) /\ main[k].frame.owner = c /\ Ups(main[k].frame, num[c])
NotRisen(c) == \A k \in DOMAIN main : ~ Rises(k, c)
Begins ==
    \A c \in Conns : num[c] # 0 =>
        /\ Waits(c) => Silent(c) /\ NotRisen(c) /\ cam[num[c]] # c
        /\ \A k \in DOMAIN toCamera : Opens(toCamera[k], num[c]) /\ toCamera[k].owner = c =>
              Silent(c) /\ NotRisen(c) /\ cam[num[c]] # c
        /\ \A k \in DOMAIN main : Rises(k, c) =>
              Silent(c) /\ \A l \in DOMAIN main : Rises(l, c) => k = l

(* The chunks under way to a camera that has the connection go on where it *)
(* has got to, in order and without a hole; of one that is linked and      *)
(* open, all that has been sent.                                           *)
Got(c) == Len(received[c])
UnderWay(c, m) == \E l \in DOMAIN toCamera : Chunk(l, c, m)
Stream(c) ==
    /\ \A k \in DOMAIN toCamera, n \in 1 .. MaxData : Chunk(k, c, n) =>
          /\ Got(c) < n /\ n <= sent[c]
          /\ \A m \in Got(c) + 1 .. n : UnderWay(c, m)
    /\ \A k, l \in DOMAIN toCamera, n, m \in 1 .. MaxData :
          Chunk(k, c, n) /\ Chunk(l, c, m) /\ k < l => n < m
    /\ linked[c] /\ local[c] = "open" =>
          \A m \in Got(c) + 1 .. sent[c] : UnderWay(c, m)
Streams == \A c \in Conns : num[c] # 0 /\ cam[num[c]] = c => Stream(c)

(* The inductive invariant.                                                *)
IInv ==
    /\ TypeOK /\ Frames /\ Links /\ Numbers /\ Owners /\ Connections
    /\ Kept /\ Begins /\ Streams /\ InOrder /\ NeverMixed

-----------------------------------------------------------------------------
(* The frames as bytes.                                                    *)

(* A number that two bytes stand for.                                     *)
PacksTo(p, n) == p \in Seq(Nat) /\ Len(p) = 2 /\ unpack_u16(p, 1) = n

(* A number is its quotient and its rest together. *)
LEMMA DivideAndMultiply ==
    ASSUME NEW n \in Int, NEW d \in Int, NEW m \in Int,
           d = n \div 256, m = n % 256
    PROVE  d * 256 + m = n
OBVIOUS

(* unpack_u16 undoes pack_u16. *)
LEMMA PackedNumber ==
    ASSUME NEW n \in Nat, n < 65536
    PROVE  PacksTo(pack_u16(n), n)
<1> DEFINE d == n \div 256
           m == n % 256
<1>1. d \in Int /\ d >= 0 /\ d < 256
  OBVIOUS
<1>2. m \in 0 .. 255
  OBVIOUS
<1>3. d * 256 + m = n
  BY <1>1, <1>2, DivideAndMultiply
<1>4. pack_u16(n) = <<d % 256, m>>
  BY DEF pack_u16
<1> HIDE DEF d, m
<1>5. d % 256 = d
  BY <1>1
<1>6. pack_u16(n) = <<d, m>>
  BY <1>4, <1>5
<1>7. <<d, m>> \in Seq(Nat) /\ Len(<<d, m>>) = 2 /\ <<d, m>>[1] = d /\ <<d, m>>[1 + 1] = m
  BY <1>1, <1>2
<1> DEFINE p == <<d, m>>
<1>8. p \in Seq(Nat) /\ Len(p) = 2 /\ p[1] = d /\ p[1 + 1] = m
  BY <1>7
<1> HIDE DEF p
<1>9. PacksTo(p, n)
  BY <1>3, <1>8 DEF PacksTo, unpack_u16
<1>10. pack_u16(n) = p
  BY <1>6 DEF p
<1> QED BY <1>9, <1>10

(* A number in one of two parts that were put together is read from it.    *)
Joined(p, q) == p \o q
Bytes(p) == p \in Seq(Nat) /\ Len(p) \in Nat

(* The length and the bytes of two parts put together. *)
LEMMA JoinedParts ==
    ASSUME NEW p, NEW q, Bytes(p), Bytes(q)
    PROVE  /\ Bytes(Joined(p, q)) /\ Len(Joined(p, q)) = Len(p) + Len(q)
           /\ \A j \in 1 .. Len(p) + Len(q) :
                 Joined(p, q)[j] = IF j <= Len(p) THEN p[j] ELSE q[j - Len(p)]
<1>1. p \in Seq(Nat) /\ q \in Seq(Nat) /\ Len(p) \in Nat /\ Len(q) \in Nat
  BY DEF Bytes
<1>2. /\ p \o q \in Seq(Nat) /\ Len(p \o q) = Len(p) + Len(q)
      /\ \A j \in 1 .. Len(p) + Len(q) :
            (p \o q)[j] = IF j <= Len(p) THEN p[j] ELSE q[j - Len(p)]
  BY <1>1, ConcatProperties
<1>3. Len(p) + Len(q) \in Nat
  BY <1>1
<1> QED BY <1>2, <1>3 DEF Bytes, Joined

(* A number in the first of two parts is read as it is there. *)
LEMMA UnpackBefore ==
    ASSUME NEW p, NEW q, Bytes(p), Bytes(q), NEW k \in Nat \ {0}, k + 1 <= Len(p)
    PROVE  unpack_u16(Joined(p, q), k) = unpack_u16(p, k)
<1>1. \A j \in 1 .. Len(p) + Len(q) :
         Joined(p, q)[j] = IF j <= Len(p) THEN p[j] ELSE q[j - Len(p)]
  BY JoinedParts
<1>2. Len(p) \in Nat /\ Len(q) \in Nat
  BY DEF Bytes
<1>3. k \in 1 .. Len(p) + Len(q) /\ k <= Len(p)
  BY <1>2
<1>4. k + 1 \in 1 .. Len(p) + Len(q)
  BY <1>2
<1>5. Joined(p, q)[k] = p[k] /\ Joined(p, q)[k + 1] = p[k + 1]
  BY <1>1, <1>3, <1>4
<1> QED BY <1>5 DEF unpack_u16

(* A number in the second of two parts is read further on. *)
LEMMA UnpackAfter ==
    ASSUME NEW p, NEW q, Bytes(p), Bytes(q), NEW k \in Nat \ {0}, k + 1 <= Len(q),
           NEW j, j = Len(p) + k
    PROVE  unpack_u16(Joined(p, q), j) = unpack_u16(q, k)
<1>1. \A i \in 1 .. Len(p) + Len(q) :
         Joined(p, q)[i] = IF i <= Len(p) THEN p[i] ELSE q[i - Len(p)]
  BY JoinedParts
<1>2. Len(p) \in Nat /\ Len(q) \in Nat
  BY DEF Bytes
<1>3. j \in 1 .. Len(p) + Len(q) /\ ~ (j <= Len(p)) /\ j - Len(p) = k
  BY <1>2
<1>4. j + 1 \in 1 .. Len(p) + Len(q) /\ ~ (j + 1 <= Len(p)) /\ (j + 1) - Len(p) = k + 1
  BY <1>2
<1>5. Joined(p, q)[j] = q[k]
  BY <1>1, <1>3
<1>6. Joined(p, q)[j + 1] = q[k + 1]
  BY <1>1, <1>4
<1> QED BY <1>5, <1>6 DEF unpack_u16

(* The header of a frame.                                                  *)
Heads(h, i, n) ==
    Bytes(h) /\ Len(h) = 4 /\ unpack_u16(h, 1) = n /\ unpack_u16(h, 3) = i

(* A header holds the size and the channel that were put into it. *)
LEMMA HeaderReads ==
    ASSUME NEW n \in Nat, n < 65536, NEW i \in Nat, i < 65536
    PROVE  Heads(icam_message_encode_header(i, n), i, n)
<1> DEFINE x == pack_u16(n)
           y == pack_u16(i)
<1>1. PacksTo(x, n) /\ PacksTo(y, i)
  BY PackedNumber
<1>2. icam_message_encode_header(i, n) = Joined(x, y)
  BY DEF icam_message_encode_header, Joined
<1> HIDE DEF x, y
<1>3. /\ Bytes(x) /\ Bytes(y) /\ Len(x) = 2 /\ Len(y) = 2
      /\ unpack_u16(x, 1) = n /\ unpack_u16(y, 1) = i
  BY <1>1 DEF PacksTo, Bytes
<1>4. Bytes(Joined(x, y)) /\ Len(Joined(x, y)) = 4
  <2>1. Bytes(Joined(x, y)) /\ Len(Joined(x, y)) = Len(x) + Len(y)
    <3>1. Bytes(x) /\ Bytes(y)
      BY <1>3
    <3> QED BY <3>1, JoinedParts
  <2> QED BY <1>3, <2>1
<1>5. unpack_u16(Joined(x, y), 1) = unpack_u16(x, 1)
  <2>1. 1 \in Nat \ {0} /\ 1 + 1 <= Len(x)
    BY <1>3
  <2>2. Bytes(x) /\ Bytes(y)
    BY <1>3
  <2> QED BY <2>2, <2>1, UnpackBefore
<1>6. unpack_u16(Joined(x, y), 3) = unpack_u16(y, 1)
  <2>1. 1 \in Nat \ {0} /\ 1 + 1 <= Len(y) /\ 3 = Len(x) + 1
    BY <1>3
  <2>2. Bytes(x) /\ Bytes(y)
    BY <1>3
  <2> QED BY <2>2, <2>1, UnpackAfter
<1> QED BY <1>2, <1>3, <1>4, <1>5, <1>6 DEF Heads

(* What is decoded from a control message that begins with a number.       *)
LEMMA ControlReads ==
    ASSUME NEW t \in IdTypes, NEW b, Bytes(b), NEW l \in 2 .. 4, Len(b) = l,
           NEW i, unpack_u16(b, 1) = i
    PROVE  /\ Bytes(Control(t, b))
           /\ icam_message_decode(Control(t, b)) = [type |-> t, channel_id |-> i]
<1> DEFINE h == icam_message_encode_header(0, 2 + Len(b))
           w == pack_u16(t)
<1>0. t \in Nat /\ t < 65536 /\ 2 + Len(b) \in Nat /\ 2 + Len(b) < 65536
  BY DEF IdTypes, kPacketTypeNewChannel, kPacketTypeDeleteChannel, kPacketTypeLinkUp,
         kPacketTypeLinkDown
<1>1. Control(t, b) = Joined(Joined(h, w), b)
  BY DEF Control, Joined
<1>2. Heads(h, 0, 2 + Len(b))
  BY <1>0, HeaderReads
<1>3. PacksTo(w, t)
  BY <1>0, PackedNumber
<1> HIDE DEF h, w
<1>4. /\ Bytes(h) /\ Len(h) = 4 /\ unpack_u16(h, 1) = 2 + l /\ unpack_u16(h, 3) = 0
      /\ Bytes(w) /\ Len(w) = 2 /\ unpack_u16(w, 1) = t
  BY <1>2, <1>3 DEF Heads, PacksTo, Bytes
<1> DEFINE x == Joined(h, w)
           f == Joined(x, b)
<1>5. Bytes(x) /\ Len(x) = Len(h) + Len(w)
  <2>1. Bytes(h) /\ Bytes(w)
    BY <1>4
  <2> QED BY <2>1, JoinedParts
<1>6. Len(x) = 6
  BY <1>4, <1>5
<1>7. unpack_u16(x, 1) = 2 + l /\ unpack_u16(x, 3) = 0 /\ unpack_u16(x, 5) = t
  <2>1. Bytes(h) /\ Bytes(w)
    BY <1>4
  <2>2. /\ 1 \in Nat \ {0} /\ 1 + 1 <= Len(h) /\ 3 \in Nat \ {0} /\ 3 + 1 <= Len(h)
        /\ 1 + 1 <= Len(w) /\ 5 = Len(h) + 1
    BY <1>4
  <2>3. unpack_u16(x, 1) = unpack_u16(h, 1)
    BY <2>1, <2>2, UnpackBefore
  <2>4. unpack_u16(x, 3) = unpack_u16(h, 3)
    BY <2>1, <2>2, UnpackBefore
  <2>5. unpack_u16(x, 5) = unpack_u16(w, 1)
    BY <2>1, <2>2, UnpackAfter
  <2> QED BY <1>4, <2>3, <2>4, <2>5
<1> HIDE DEF x
<1>8. Bytes(f) /\ Len(f) = Len(x) + Len(b)
  <2>1. Bytes(x) /\ Bytes(b)
    BY <1>5
  <2> QED BY <2>1, JoinedParts
<1>9. Len(f) = 6 + l
  BY <1>6, <1>8
<1>10. /\ unpack_u16(f, 1) = 2 + l /\ unpack_u16(f, 3) = 0
       /\ unpack_u16(f, 5) = t /\ unpack_u16(f, 7) = i
  <2>1. Bytes(x) /\ Bytes(b)
    BY <1>5
  <2>2. /\ 1 \in Nat \ {0} /\ 1 + 1 <= Len(x) /\ 3 \in Nat \ {0} /\ 3 + 1 <= Len(x)
        /\ 5 \in Nat \ {0} /\ 5 + 1 <= Len(x)
        /\ 1 + 1 <= Len(b) /\ 7 = Len(x) + 1
    BY <1>6
  <2>3. unpack_u16(f, 1) = unpack_u16(x, 1)
    BY <2>1, <2>2, UnpackBefore
  <2>4. unpack_u16(f, 3) = unpack_u16(x, 3)
    BY <2>1, <2>2, UnpackBefore
  <2>5. unpack_u16(f, 5) = unpack_u16(x, 5)
    BY <2>1, <2>2, UnpackBefore
  <2>6. unpack_u16(f, 7) = unpack_u16(b, 1)
    BY <2>1, <2>2, UnpackAfter
  <2> QED BY <1>7, <2>3, <2>4, <2>5, <2>6
<1> HIDE DEF f
<1>11. /\ ~ (Len(f) < kPacketHeaderSize) /\ ~ (Len(f) < unpack_u16(f, 1) + kPacketHeaderSize)
       /\ ~ (unpack_u16(f, 3) # 0) /\ unpack_u16(f, 5) \in IdTypes
  BY <1>9, <1>10 DEF kPacketHeaderSize
<1>12. icam_message_decode(f) = [type |-> unpack_u16(f, 5), channel_id |-> unpack_u16(f, 7)]
  BY <1>11 DEF icam_message_decode
<1> QED BY <1>1, <1>8, <1>10, <1>12 DEF x, f

(* The frames of the four encoders. *)
Encodes(bytes, t, i) ==
    bytes \in Seq(Nat) /\ icam_message_decode(bytes) = [type |-> t, channel_id |-> i]

(* A control message of one number is decoded as its type and that number. *)
LEMMA NumberAlone ==
    ASSUME NEW i \in Nat, i < 65536, NEW t \in IdTypes
    PROVE  Encodes(Control(t, pack_u16(i)), t, i)
<1> DEFINE b == pack_u16(i)
<1>1. PacksTo(b, i)
  BY PackedNumber
<1> HIDE DEF b
<1>2. Bytes(b) /\ Len(b) = 2 /\ unpack_u16(b, 1) = i
  BY <1>1 DEF PacksTo, Bytes
<1>3. 2 \in 2 .. 4
  OBVIOUS
<1>4. /\ Bytes(Control(t, b))
      /\ icam_message_decode(Control(t, b)) = [type |-> t, channel_id |-> i]
  BY <1>2, <1>3, ControlReads
<1> QED BY <1>4 DEF b, Encodes, Bytes

(* What each of the four encoders of icam_message.c makes of a number is   *)
(* decoded as the message of that type with that number.                   *)
THEOREM ControlFrames ==
    ASSUME NEW i \in Nat, i < 65536, NEW port \in Nat, port < 65536
    PROVE  /\ Encodes(icam_message_encode_new_channel(i, port), kPacketTypeNewChannel, i)
           /\ Encodes(icam_message_encode_delete_channel(i), kPacketTypeDeleteChannel, i)
           /\ Encodes(icam_message_encode_channel_linkup(i), kPacketTypeLinkUp, i)
           /\ Encodes(icam_message_encode_channel_linkdown(i), kPacketTypeLinkDown, i)
<1>1. Encodes(icam_message_encode_new_channel(i, port), kPacketTypeNewChannel, i)
  <2> DEFINE u == pack_u16(i)
             v == pack_u16(port)
             b == Joined(u, v)
  <2>1. PacksTo(u, i) /\ PacksTo(v, port)
    BY PackedNumber
  <2>2. icam_message_encode_new_channel(i, port) = Control(kPacketTypeNewChannel, b)
    BY DEF icam_message_encode_new_channel, Joined
  <2> HIDE DEF u, v
  <2>3. Bytes(u) /\ Bytes(v)
    BY <2>1 DEF PacksTo, Bytes
  <2>4. Len(u) = 2 /\ Len(v) = 2 /\ unpack_u16(u, 1) = i
    BY <2>1 DEF PacksTo
  <2>5. Bytes(b) /\ Len(b) = Len(u) + Len(v)
    BY <2>3, JoinedParts
  <2>6. Len(b) = 4 /\ 4 \in 2 .. 4
    BY <2>4, <2>5
  <2>7. 1 \in Nat \ {0} /\ 1 + 1 <= Len(u)
    BY <2>4
  <2>8. unpack_u16(b, 1) = i
    <3>1. unpack_u16(b, 1) = unpack_u16(u, 1)
      BY <2>3, <2>7, UnpackBefore
    <3> QED BY <2>4, <3>1
  <2> HIDE DEF b
  <2>9. kPacketTypeNewChannel \in IdTypes
    BY DEF IdTypes
  <2>10. /\ Bytes(Control(kPacketTypeNewChannel, b))
         /\ icam_message_decode(Control(kPacketTypeNewChannel, b)) =
               [type |-> kPacketTypeNewChannel, channel_id |-> i]
    BY <2>5, <2>6, <2>8, <2>9, ControlReads
  <2> QED BY <2>2, <2>10 DEF Encodes, Bytes
<1>2. {kPacketTypeDeleteChannel, kPacketTypeLinkUp, kPacketTypeLinkDown} \subseteq IdTypes
  BY DEF IdTypes
<1> QED BY <1>1, <1>2, NumberAlone
        DEF icam_message_encode_delete_channel, icam_message_encode_channel_linkup,
            icam_message_encode_channel_linkdown

(* A chunk of any length the two length bytes hold, 0 to 65535, is decoded *)
(* as the whole payload for its channel: writeTransportData:to: sends      *)
(* chunks up to that length.                                               *)
THEOREM ChunkFrame ==
    ASSUME NEW i \in Nat \ {0}, i < 65536, NEW d \in Seq(Nat), Len(d) < 65536
    PROVE  /\ TransportFrame(i, d) \in Seq(Nat)
           /\ icam_message_decode(TransportFrame(i, d)) =
                 [type |-> Transport, channel |-> i, data |-> d]
<1> DEFINE l == Len(d)
           h == icam_message_encode_header(i, Len(d))
           f == Joined(h, d)
<1>1. TransportFrame(i, d) = f
  BY DEF TransportFrame, Joined
<1>2. Heads(h, i, Len(d))
  <2>1. Len(d) \in Nat /\ Len(d) < 65536
    OBVIOUS
  <2> QED BY <2>1, HeaderReads
<1>3. l \in Nat /\ Len(d) = l
  OBVIOUS
<1> HIDE DEF h, l
<1>4. Bytes(h) /\ Bytes(d)
  BY <1>2 DEF Heads, Bytes
<1>5. Len(h) = 4 /\ unpack_u16(h, 1) = l /\ unpack_u16(h, 3) = i
  BY <1>2, <1>3 DEF Heads
<1>6. Bytes(f) /\ Len(f) = Len(h) + Len(d)
  BY <1>4, JoinedParts
<1>7. Len(f) = 4 + l
  BY <1>3, <1>5, <1>6
<1>8. 1 \in Nat \ {0} /\ 1 + 1 <= Len(h) /\ 3 \in Nat \ {0} /\ 3 + 1 <= Len(h)
  BY <1>5
<1>9. unpack_u16(f, 1) = unpack_u16(h, 1)
  BY <1>4, <1>8, UnpackBefore
<1>10. unpack_u16(f, 3) = unpack_u16(h, 3)
  BY <1>4, <1>8, UnpackBefore
<1> HIDE DEF f
<1>11. Payload(f) = d
  <2> DEFINE m == kPacketHeaderSize + 1
             n == kPacketHeaderSize + unpack_u16(f, 1)
             e == Payload(f)
  <2>1. m = 5 /\ n = 4 + l
    BY <1>5, <1>9 DEF kPacketHeaderSize
  <2>2. e = SubSeq(f, m, n)
    BY DEF Payload
  <2> HIDE DEF m, n, e
  <2>3. m \in Int /\ n \in Int /\ n - m + 1 = l /\ (m <= n \/ l = 0)
    BY <1>3, <2>1
  <2>4. f \in Seq(Nat)
    BY <1>6 DEF Bytes
  <2>5. \A j \in m .. n : f[j] \in Nat
    BY <1>3, <1>7, <2>1, <2>4
  <2>6. /\ e \in Seq(Nat)
        /\ Len(e) = IF m <= n THEN n - m + 1 ELSE 0
        /\ \A j \in 1 .. n - m + 1 : e[j] = f[m + j - 1]
    BY <2>2, <2>3, <2>5, SubSeqProperties
  <2>7. ASSUME NEW j \in 1 .. l
        PROVE  e[j] = d[j]
    <3>1. e[j] = f[m + j - 1] /\ m + j - 1 = 4 + j
      BY <1>3, <2>1, <2>3, <2>6
    <3>2. /\ 4 + j \in 1 .. Len(h) + Len(d) /\ ~ (4 + j <= Len(h))
          /\ (4 + j) - Len(h) = j
      BY <1>3, <1>5
    <3>3. f[4 + j] = IF 4 + j <= Len(h) THEN h[4 + j] ELSE d[(4 + j) - Len(h)]
      BY <1>4, <3>2, JoinedParts DEF f
    <3> QED BY <3>1, <3>2, <3>3
  <2>8. Len(e) = l
    BY <1>3, <2>3, <2>6
  <2>9. e = d
    BY <1>3, <2>6, <2>7, <2>8
  <2> QED BY <2>9 DEF e
<1>12. /\ ~ (Len(f) < kPacketHeaderSize) /\ ~ (Len(f) < unpack_u16(f, 1) + kPacketHeaderSize)
       /\ unpack_u16(f, 3) = i /\ i # 0
  BY <1>3, <1>5, <1>7, <1>9, <1>10 DEF kPacketHeaderSize
<1>13. icam_message_decode(f) = [type |-> Transport, channel |-> i, data |-> d]
  BY <1>11, <1>12 DEF icam_message_decode
<1>14. f \in Seq(Nat)
  BY <1>6 DEF Bytes
<1> QED BY <1>1, <1>13, <1>14

-----------------------------------------------------------------------------
(* Sequences.                                                              *)

(* A sequence with one more entry. *)
LEMMA AppendShape ==
    ASSUME NEW S, NEW s \in Seq(S), NEW x \in S
    PROVE  /\ Append(s, x) \in Seq(S) /\ Append(s, x) # <<>>
           /\ Len(Append(s, x)) = Len(s) + 1 /\ Len(s) \in Nat
           /\ DOMAIN s = 1 .. Len(s)
           /\ DOMAIN Append(s, x) = 1 .. Len(s) + 1
           /\ \A k \in DOMAIN s : k \in DOMAIN Append(s, x) /\ Append(s, x)[k] = s[k]
           /\ Append(s, x)[Len(s) + 1] = x
OBVIOUS

(* A sequence without its first entry. *)
LEMMA TailShape ==
    ASSUME NEW S, NEW s \in Seq(S), s # <<>>
    PROVE  /\ Tail(s) \in Seq(S) /\ Len(Tail(s)) = Len(s) - 1 /\ Len(s) \in Nat \ {0}
           /\ DOMAIN s = 1 .. Len(s) /\ DOMAIN Tail(s) = 1 .. Len(s) - 1
           /\ 1 \in DOMAIN s /\ Head(s) = s[1] /\ s[1] \in S
           /\ \A k \in DOMAIN Tail(s) : k + 1 \in DOMAIN s /\ Tail(s)[k] = s[k + 1]
           /\ \A k \in DOMAIN s : k # 1 => k - 1 \in DOMAIN Tail(s) /\ Tail(s)[k - 1] = s[k]
OBVIOUS

-----------------------------------------------------------------------------
(* What the frames mean.                                                   *)

(* The numbers of channels and connections.                                *)
LEMMA NumberSets ==
    /\ \A i \in Ids : i \in Nat /\ i < 65536
    /\ \A i \in UserIds : i \in Ids /\ i # 0
    /\ 0 \in Ids /\ Nobody \notin Conns /\ Conns \subseteq Nat
BY ConstantsAssumption DEF Ids, UserIds, Conns, Nobody, kUserChannelBase

(* A frame says one thing.                                                 *)
LEMMA OneMeaning ==
    ASSUME NEW f, NEW i, NEW j, NEW n, NEW m
    PROVE  /\ Opens(f, i) => ~ Deletes(f, j) /\ ~ Carries(f, j, n) /\ ~ Ups(f, j) /\ ~ Downs(f, j)
           /\ Deletes(f, i) => ~ Carries(f, j, n) /\ ~ Ups(f, j) /\ ~ Downs(f, j)
           /\ Ups(f, i) => ~ Carries(f, j, n) /\ ~ Downs(f, j)
           /\ Downs(f, i) => ~ Carries(f, j, n)
           /\ Opens(f, i) /\ Opens(f, j) => i = j
           /\ Ups(f, i) /\ Ups(f, j) => i = j
           /\ Downs(f, i) /\ Downs(f, j) => i = j
           /\ Carries(f, i, n) /\ Carries(f, j, m) => i = j /\ n = m
<1> USE DEF kPacketTypeNewChannel, kPacketTypeDeleteChannel, kPacketTypeLinkUp,
           kPacketTypeLinkDown, Transport
<1>1. Opens(f, i) => ~ Deletes(f, j) /\ ~ Ups(f, j) /\ ~ Downs(f, j)
  BY DEF Opens, Deletes, Ups, Downs, Says
<1>2. Opens(f, i) => ~ Carries(f, j, n)
  BY DEF Opens, Carries, Says
<1>3. Deletes(f, i) => ~ Carries(f, j, n) /\ ~ Ups(f, j) /\ ~ Downs(f, j)
  BY DEF Deletes, Carries, Ups, Downs, Says
<1>4. Ups(f, i) => ~ Carries(f, j, n) /\ ~ Downs(f, j)
  BY DEF Carries, Ups, Downs, Says
<1>5. Downs(f, i) => ~ Carries(f, j, n)
  BY DEF Carries, Downs, Says
<1>6. /\ Opens(f, i) /\ Opens(f, j) => i = j
      /\ Ups(f, i) /\ Ups(f, j) => i = j
      /\ Downs(f, i) /\ Downs(f, j) => i = j
  BY DEF Opens, Ups, Downs, Says
<1>7. ASSUME Carries(f, i, n), Carries(f, j, m) PROVE i = j /\ n = m
  <2>1. [type |-> Transport, channel |-> i, data |-> <<f.owner, n>>]
          = [type |-> Transport, channel |-> j, data |-> <<f.owner, m>>]
    BY <1>7 DEF Carries
  <2>2. i = j /\ <<f.owner, n>> = <<f.owner, m>>
    BY <2>1
  <2> QED BY <2>2
<1> QED BY <1>1, <1>2, <1>3, <1>4, <1>5, <1>6, <1>7

(* A read frame is about a number if it brings up, or down, or data.       *)
LEMMA AboutMeans ==
    ASSUME NEW f, FromCamera(f), NEW i
    PROVE  About(f, i) <=> Ups(f, i) \/ Downs(f, i) \/ Carries(f, i, 0)
<1> USE DEF kPacketTypeNewChannel, kPacketTypeDeleteChannel, kPacketTypeLinkUp,
           kPacketTypeLinkDown, Transport
<1>1. ASSUME NEW j, Ups(f, j) \/ Downs(f, j)
      PROVE  About(f, i) <=> i = j
  BY <1>1 DEF About, AboutId, Ups, Downs, Says, IdTypes
<1>2. ASSUME NEW j, Carries(f, j, 0)
      PROVE  About(f, i) <=> i = j
  BY <1>2 DEF About, AboutId, Carries, IdTypes
<1>3. ASSUME NEW j, Ups(f, j) PROVE About(f, i) <=> Ups(f, i) \/ Downs(f, i) \/ Carries(f, i, 0)
  BY <1>1, <1>3, OneMeaning
<1>4. ASSUME NEW j, Downs(f, j) PROVE About(f, i) <=> Ups(f, i) \/ Downs(f, i) \/ Carries(f, i, 0)
  BY <1>1, <1>4, OneMeaning
<1>5. ASSUME NEW j, Carries(f, j, 0)
      PROVE  About(f, i) <=> Ups(f, i) \/ Downs(f, i) \/ Carries(f, i, 0)
  BY <1>2, <1>5, OneMeaning
<1> QED BY <1>3, <1>4, <1>5 DEF FromCamera

(* What the encoders make.                                                 *)
LEMMA Encoded ==
    ASSUME NEW i \in Ids, NEW c \in Conns \cup {Nobody}
    PROVE  /\ Frame(icam_message_encode_new_channel(i, Port), c) \in FrameSet
           /\ Opens(Frame(icam_message_encode_new_channel(i, Port), c), i)
           /\ Frame(icam_message_encode_delete_channel(i), c) \in FrameSet
           /\ Deletes(Frame(icam_message_encode_delete_channel(i), c), i)
           /\ Frame(icam_message_encode_channel_linkup(i), c) \in FrameSet
           /\ Ups(Frame(icam_message_encode_channel_linkup(i), c), i)
           /\ Frame(icam_message_encode_channel_linkdown(i), c) \in FrameSet
           /\ Downs(Frame(icam_message_encode_channel_linkdown(i), c), i)
<1>1. i \in Nat /\ i < 65536 /\ Port \in Nat /\ Port < 65536
  BY NumberSets DEF Port
<1>2. /\ Encodes(icam_message_encode_new_channel(i, Port), kPacketTypeNewChannel, i)
      /\ Encodes(icam_message_encode_delete_channel(i), kPacketTypeDeleteChannel, i)
      /\ Encodes(icam_message_encode_channel_linkup(i), kPacketTypeLinkUp, i)
      /\ Encodes(icam_message_encode_channel_linkdown(i), kPacketTypeLinkDown, i)
  BY <1>1, ControlFrames
<1>3. ASSUME NEW b, NEW t, Encodes(b, t, i)
      PROVE  Frame(b, c) \in FrameSet /\ Says(Frame(b, c), t, i)
  BY <1>3 DEF Encodes, Frame, FrameSet, Says
<1> QED BY <1>2, <1>3 DEF Opens, Deletes, Ups, Downs

(* A frame of data is decoded as data of its channel, with its chunk. *)
LEMMA EncodedData ==
    ASSUME NEW i \in UserIds, NEW c \in Conns, NEW k \in Nat
    PROVE  Data(i, c, k) \in FrameSet /\ Carries(Data(i, c, k), i, k) /\ Data(i, c, k).owner = c
<1>1. i \in Nat \ {0} /\ i < 65536 /\ c \in Nat
  BY NumberSets
<1> DEFINE d == <<c, k>>
<1>2. d \in Seq(Nat) /\ Len(d) < 65536
  <2>1. d \in Seq(Nat) /\ Len(d) = 2 /\ 2 < 65536
    BY <1>1
  <2> HIDE DEF d
  <2> QED BY <2>1
<1> HIDE DEF d
<1>3. /\ TransportFrame(i, d) \in Seq(Nat)
      /\ icam_message_decode(TransportFrame(i, d)) =
            [type |-> Transport, channel |-> i, data |-> d]
  BY <1>1, <1>2, ChunkFrame
<1>4. /\ Data(i, c, k).owner = c /\ Data(i, c, k).bytes = TransportFrame(i, d)
      /\ Data(i, c, k) = [bytes |-> TransportFrame(i, d), owner |-> c]
  BY DEF Data, Frame, d
<1>5. Data(i, c, k) \in FrameSet
  BY <1>3, <1>4 DEF FrameSet
<1>6. Carries(Data(i, c, k), i, k)
  BY <1>3, <1>4 DEF Carries, d
<1> QED BY <1>4, <1>5, <1>6

(* What is decoded at the two ends.                                        *)
LEMMA ArrivedMeans ==
    ASSUME NEW f, ToCamera(f), NEW m, m = icam_message_decode(f.bytes)
    PROVE  /\ m.type = kPacketTypeNewChannel => m.channel_id \in Ids /\ Opens(f, m.channel_id)
           /\ m.type = kPacketTypeDeleteChannel =>
                 m.channel_id \in Ids /\ Deletes(f, m.channel_id)
           /\ m.type = Transport =>
                 /\ m.channel \in UserIds /\ m.data[2] \in 1 .. MaxData
                 /\ m.data[1] = f.owner /\ Carries(f, m.channel, m.data[2])
<1> USE DEF kPacketTypeNewChannel, kPacketTypeDeleteChannel, Transport
<1>1. ASSUME NEW i \in Ids, Opens(f, i) PROVE m.type = 3 /\ m.channel_id = i
  BY <1>1 DEF Opens, Says
<1>2. ASSUME NEW i \in Ids, Deletes(f, i) PROVE m.type = 4 /\ m.channel_id = i
  BY <1>2 DEF Deletes, Says
<1>3. ASSUME NEW i \in UserIds, NEW n \in 1 .. MaxData, Carries(f, i, n)
      PROVE  m.type = -1 /\ m.channel = i /\ m.data[2] = n /\ m.data[1] = f.owner
  BY <1>3 DEF Carries
<1> QED BY <1>1, <1>2, <1>3 DEF ToCamera

(* What the server decodes a frame of the camera as tells what frame it    *)
(* is.                                                                     *)
LEMMA ReceivedMeans ==
    ASSUME NEW f, FromCamera(f), NEW m, m = icam_message_decode(f.bytes)
    PROVE  /\ m.type = kPacketTypeLinkUp => m.channel_id \in Ids /\ Ups(f, m.channel_id)
           /\ m.type = kPacketTypeLinkDown => m.channel_id \in Ids /\ Downs(f, m.channel_id)
           /\ m.type = Transport => m.channel \in UserIds /\ Carries(f, m.channel, 0)
<1> USE DEF kPacketTypeLinkUp, kPacketTypeLinkDown, Transport
<1>1. ASSUME NEW i \in Ids, Ups(f, i) PROVE m.type = 5 /\ m.channel_id = i
  BY <1>1 DEF Ups, Says
<1>2. ASSUME NEW i \in Ids, Downs(f, i) PROVE m.type = 6 /\ m.channel_id = i
  BY <1>2 DEF Downs, Says
<1>3. ASSUME NEW i \in UserIds, Carries(f, i, 0)
      PROVE  m.type = -1 /\ m.channel = i
  BY <1>3 DEF Carries
<1> QED BY <1>1, <1>2, <1>3 DEF FromCamera

-----------------------------------------------------------------------------
(* Steps that only take away: of the frames under way, of the reads on the *)
(* main queue, of what the camera has.                                     *)

FramesLeft ==
    \E s \in Nat : \A k \in DOMAIN toCamera' :
        k + s \in DOMAIN toCamera /\ toCamera'[k] = toCamera[k + s]
ReadsLeft ==
    \E s \in Nat : \A k \in DOMAIN main' :
        IsRead(main'[k]) => k + s \in DOMAIN main /\ main'[k] = main[k + s]
CamLeft == \A i \in Ids : cam'[i] \in {cam[i], Nobody}
Sequences == toCamera \in Seq(FrameSet) /\ main \in Seq(BlockSet)
Fewer == FramesLeft /\ ReadsLeft /\ CamLeft /\ Sequences /\ Sequences'

(* The frames that are left are still such frames.                         *)
LEMMA FewerFrames ==
    ASSUME Frames, Fewer
    PROVE  Frames'
<1>1. PICK s \in Nat : \A k \in DOMAIN toCamera' :
         k + s \in DOMAIN toCamera /\ toCamera'[k] = toCamera[k + s]
  BY DEF Fewer, FramesLeft
<1>2. PICK t \in Nat : \A k \in DOMAIN main' :
         IsRead(main'[k]) => k + t \in DOMAIN main /\ main'[k] = main[k + t]
  BY DEF Fewer, ReadsLeft
<1>3. \A k \in DOMAIN toCamera' : ToCamera(toCamera'[k])
  BY <1>1 DEF Frames
<1>4. \A k \in DOMAIN main' : IsRead(main'[k]) => FromCamera(main'[k].frame)
  BY <1>2 DEF Frames
<1>5. toCamera' \in Seq(FrameSet) /\ main' \in Seq(BlockSet)
  BY DEF Fewer, Sequences
<1>6. (\A k \in DOMAIN toCamera : ToCamera(toCamera[k]))'
  BY <1>3 DEF ToCamera, Opens, Deletes, Carries, Says
<1>7. (\A k \in DOMAIN main : IsRead(main[k]) => FromCamera(main[k].frame))'
  BY <1>4 DEF FromCamera, IsRead, Ups, Downs, Carries, Says
<1> QED BY <1>5, <1>6, <1>7 DEF Frames


(* The reads that are left say no more of a number.                        *)
LEMMA ReadsNumbers ==
    ASSUME Sequences, Sequences', ReadsLeft, NEW i
    PROVE  /\ NothingRead(i, 1) => NothingRead(i, 1)'
           /\ \A k \in DOMAIN main' : IsRead(main'[k]) /\ Downs(main'[k].frame, i) =>
                 \E j \in DOMAIN main : /\ IsRead(main[j]) /\ Downs(main[j].frame, i)
                                        /\ NothingRead(i, j + 1) => NothingRead(i, k + 1)'
<1>1. PICK t \in Nat : \A k \in DOMAIN main' :
         IsRead(main'[k]) => k + t \in DOMAIN main /\ main'[k] = main[k + t]
  BY DEF ReadsLeft
<1>2. /\ \A k \in DOMAIN main : k \in Nat /\ k >= 1
      /\ \A k \in DOMAIN main' : k \in Nat
  BY DEF Sequences
<1>3. ASSUME NothingRead(i, 1) PROVE NothingRead(i, 1)'
  <2> SUFFICES ASSUME NEW k \in DOMAIN main', IsRead(main'[k])
               PROVE  ~ About(main'[k].frame, i)
    BY DEF NothingRead
  <2>1. k + t \in DOMAIN main /\ main'[k] = main[k + t] /\ k + t >= 1
    BY <1>1, <1>2
  <2> QED BY <1>3, <2>1 DEF NothingRead
<1>4. ASSUME NEW k \in DOMAIN main', IsRead(main'[k]), Downs(main'[k].frame, i)
      PROVE  \E j \in DOMAIN main : /\ IsRead(main[j]) /\ Downs(main[j].frame, i)
                                    /\ NothingRead(i, j + 1) => NothingRead(i, k + 1)'
  <2>1. k + t \in DOMAIN main /\ main'[k] = main[k + t]
    BY <1>1, <1>4
  <2>2. ASSUME NothingRead(i, (k + t) + 1) PROVE NothingRead(i, k + 1)'
    <3> SUFFICES ASSUME NEW l \in DOMAIN main', l >= k + 1, IsRead(main'[l])
                 PROVE  ~ About(main'[l].frame, i)
      BY DEF NothingRead
    <3>1. l + t \in DOMAIN main /\ main'[l] = main[l + t]
      BY <1>1
    <3>2. l + t >= (k + t) + 1
      BY <1>2
    <3> QED BY <2>2, <3>1, <3>2 DEF NothingRead
  <2> QED BY <1>4, <2>1, <2>2
<1> QED BY <1>3, <1>4

(* Nothing new is known about a number, or read.                           *)
LEMMA FewerAbout ==
    ASSUME Fewer, NEW i \in Ids
    PROVE  /\ Unknown(i) => Unknown(i)'
           /\ NotOpened(i) => NotOpened(i)'
           /\ NothingRead(i, 1) => NothingRead(i, 1)'
<1>1. PICK s \in Nat : \A k \in DOMAIN toCamera' :
         k + s \in DOMAIN toCamera /\ toCamera'[k] = toCamera[k + s]
  BY DEF Fewer, FramesLeft
<1>2. PICK t \in Nat : \A k \in DOMAIN main' :
         IsRead(main'[k]) => k + t \in DOMAIN main /\ main'[k] = main[k + t]
  BY DEF Fewer, ReadsLeft
<1>3. NotOpened(i) => NotOpened(i)'
  BY <1>1 DEF NotOpened
<1>4. cam'[i] \in {cam[i], Nobody}
  BY DEF Fewer, CamLeft
<1>5. Unknown(i) => Unknown(i)'
  BY <1>3, <1>4 DEF Unknown
<1>6. ASSUME NothingRead(i, 1) PROVE NothingRead(i, 1)'
  <2>1. SUFFICES ASSUME NEW k \in DOMAIN main', IsRead(main'[k])
                 PROVE  ~ About(main'[k].frame, i)
    BY DEF NothingRead
  <2>2. k + t \in DOMAIN main /\ main'[k] = main[k + t]
    BY <1>2, <2>1
  <2>3. k + t >= 1
    BY <2>2 DEF Fewer, Sequences
  <2> QED BY <1>6, <2>1, <2>2, <2>3 DEF NothingRead
<1> QED BY <1>3, <1>5, <1>6

(* The numbers stay right, if one that gets free is known nowhere. *)
LEMMA FewerNumbers ==
    ASSUME Numbers, Fewer,
           \A i \in UserIds : ~ ids'[i] => ~ ids[i] \/ (Unknown(i)' /\ NothingRead(i, 1)')
    PROVE  Numbers'
<1>1. PICK s \in Nat : \A k \in DOMAIN toCamera' :
         k + s \in DOMAIN toCamera /\ toCamera'[k] = toCamera[k + s]
  BY DEF Fewer, FramesLeft
<1>2. PICK t \in Nat : \A k \in DOMAIN main' :
         IsRead(main'[k]) => k + t \in DOMAIN main /\ main'[k] = main[k + t]
  BY DEF Fewer, ReadsLeft
<1>0. /\ \A k \in DOMAIN toCamera' : k \in Nat
      /\ \A k \in DOMAIN main' : k \in Nat
  BY DEF Fewer, Sequences
<1> SUFFICES ASSUME NEW i \in UserIds
             PROVE  /\ ~ ids'[i] => Unknown(i)' /\ NothingRead(i, 1)'
                    /\ \A k \in DOMAIN main' : IsRead(main'[k]) /\ Downs(main'[k].frame, i) =>
                          Unknown(i)' /\ NothingRead(i, k + 1)'
                    /\ cam'[i] # Nobody => NotOpened(i)'
                    /\ \A k, l \in DOMAIN toCamera' :
                          Opens(toCamera'[k], i) /\ Opens(toCamera'[l], i) => k = l
                    /\ \A k, l \in DOMAIN toCamera', n \in 1 .. MaxData :
                          Carries(toCamera'[k], i, n) /\ Opens(toCamera'[l], i) => k < l
  BY DEF Numbers
<1>3. i \in Ids
  BY NumberSets
<1>4. ~ ids'[i] => Unknown(i)' /\ NothingRead(i, 1)'
  BY <1>3, FewerAbout DEF Numbers
<1>5. ASSUME NEW k \in DOMAIN main', IsRead(main'[k]), Downs(main'[k].frame, i)
      PROVE  Unknown(i)' /\ NothingRead(i, k + 1)'
  <2>1. k + t \in DOMAIN main /\ main'[k] = main[k + t]
    BY <1>2, <1>5
  <2>2. Unknown(i) /\ NothingRead(i, (k + t) + 1)
    BY <1>5, <2>1 DEF Numbers
  <2>3. ASSUME NEW l \in DOMAIN main', l >= k + 1, IsRead(main'[l])
        PROVE  ~ About(main'[l].frame, i)
    <3>1. l + t \in DOMAIN main /\ main'[l] = main[l + t]
      BY <1>2, <2>3
    <3>2. l + t >= (k + t) + 1
      BY <1>0, <2>3
    <3> QED BY <2>2, <2>3, <3>1, <3>2 DEF NothingRead
  <2>4. NothingRead(i, k + 1)'
    BY <2>3 DEF NothingRead
  <2> QED BY <1>3, <2>2, <2>4, FewerAbout
<1>6. cam'[i] # Nobody => NotOpened(i)'
  <2>1. cam'[i] \in {cam[i], Nobody}
    BY <1>3 DEF Fewer, CamLeft
  <2> QED BY <1>3, <2>1, FewerAbout DEF Numbers
<1>7. ASSUME NEW k \in DOMAIN toCamera', NEW l \in DOMAIN toCamera',
             Opens(toCamera'[k], i), Opens(toCamera'[l], i)
      PROVE  k = l
  <2>1. /\ k + s \in DOMAIN toCamera /\ toCamera'[k] = toCamera[k + s]
        /\ l + s \in DOMAIN toCamera /\ toCamera'[l] = toCamera[l + s]
    BY <1>1
  <2>2. k + s = l + s
    BY <1>7, <2>1 DEF Numbers
  <2> QED BY <1>0, <2>2
<1>8. ASSUME NEW k \in DOMAIN toCamera', NEW l \in DOMAIN toCamera', NEW n \in 1 .. MaxData,
             Carries(toCamera'[k], i, n), Opens(toCamera'[l], i)
      PROVE  k < l
  <2>1. /\ k + s \in DOMAIN toCamera /\ toCamera'[k] = toCamera[k + s]
        /\ l + s \in DOMAIN toCamera /\ toCamera'[l] = toCamera[l + s]
    BY <1>1
  <2>2. k + s < l + s
    BY <1>8, <2>1 DEF Numbers
  <2> QED BY <1>0, <2>2
<1> QED BY <1>4, <1>5, <1>6, <1>7, <1>8

(* A connection has a number in the next state.                            *)
ItsThen(c, i) == c \in Conns /\ num'[c] = i /\ connMap'[i] \in {c, Nobody}

(* Frames and channels stay their connection's. *)
LEMMA FewerOwners ==
    ASSUME Owners, Fewer, num' = num,
           \A i \in Ids : connMap'[i] \in {connMap[i], Nobody}
    PROVE  Owners'
<1>1. PICK s \in Nat : \A k \in DOMAIN toCamera' :
         k + s \in DOMAIN toCamera /\ toCamera'[k] = toCamera[k + s]
  BY DEF Fewer, FramesLeft
<1>2. PICK t \in Nat : \A k \in DOMAIN main' :
         IsRead(main'[k]) => k + t \in DOMAIN main /\ main'[k] = main[k + t]
  BY DEF Fewer, ReadsLeft
<1>3. \A i \in Ids : connMap'[i] # Nobody => num'[connMap'[i]] = i
  BY DEF Owners
<1>4. ASSUME NEW i \in UserIds
      PROVE  /\ \A k \in DOMAIN main' : IsRead(main'[k]) /\ About(main'[k].frame, i) =>
                   ItsThen(main'[k].frame.owner, i)
             /\ cam'[i] # Nobody => ItsThen(cam'[i], i)
             /\ \A k \in DOMAIN toCamera' :
                   /\ Opens(toCamera'[k], i) => ItsThen(toCamera'[k].owner, i)
                   /\ \A n \in 1 .. MaxData : Carries(toCamera'[k], i, n) =>
                         num'[toCamera'[k].owner] = i /\ cam'[i] \in {toCamera'[k].owner, Nobody}
  <2>1. i \in Ids
    BY NumberSets
  <2>2. ASSUME NEW c, Its(c, i) PROVE ItsThen(c, i)
    BY <2>1, <2>2 DEF Its, ItsThen
  <2>3. cam'[i] \in {cam[i], Nobody}
    BY <2>1 DEF Fewer, CamLeft
  <2>4. \A k \in DOMAIN main' : IsRead(main'[k]) /\ About(main'[k].frame, i) =>
           Its(main[k + t].frame.owner, i) /\ main'[k] = main[k + t]
    BY <1>2 DEF Owners
  <2>5. cam'[i] # Nobody => Its(cam[i], i) /\ cam'[i] = cam[i]
    BY <2>3 DEF Owners
  <2>6. \A k \in DOMAIN toCamera' :
           /\ Opens(toCamera'[k], i) => Its(toCamera'[k].owner, i)
           /\ \A n \in 1 .. MaxData : Carries(toCamera'[k], i, n) =>
                 num[toCamera'[k].owner] = i /\ cam[i] \in {toCamera'[k].owner, Nobody}
    BY <1>1 DEF Owners
  <2>7. \A k \in DOMAIN main' : IsRead(main'[k]) /\ About(main'[k].frame, i) =>
           ItsThen(main'[k].frame.owner, i)
    BY <2>2, <2>4
  <2>8. cam'[i] # Nobody => ItsThen(cam'[i], i)
    BY <2>2, <2>5
  <2>9. \A k \in DOMAIN toCamera' : Opens(toCamera'[k], i) => ItsThen(toCamera'[k].owner, i)
    BY <2>2, <2>6
  <2> QED BY <2>3, <2>6, <2>7, <2>8, <2>9
<1> QED BY <1>3, <1>4 DEF Owners, Its, ItsThen


(* A connection that has sent nothing still has sent nothing.              *)
LEMMA LeftSilent ==
    ASSUME FramesLeft, num' = num, NEW c \in Conns, linked'[c] => linked[c],
           received'[c] = received[c] \/ ~ Silent(c), Silent(c)
    PROVE  Silent(c)'
<1>1. PICK s \in Nat : \A k \in DOMAIN toCamera' :
         k + s \in DOMAIN toCamera /\ toCamera'[k] = toCamera[k + s]
  BY DEF FramesLeft
<1>2. \A k \in DOMAIN toCamera', n \in 1 .. MaxData :
         ~ (toCamera'[k].owner = c /\ Carries(toCamera'[k], num'[c], n))
  BY <1>1 DEF Silent, Chunk
<1>3. ~ linked'[c] /\ received'[c] = <<>>
  BY DEF Silent
<1> QED BY <1>2, <1>3 DEF Silent, Chunk

(* The reads that are left say no more of links that come up.              *)
LEMMA ReadsRises ==
    ASSUME Sequences', ReadsLeft, num' = num, NEW c \in Conns
    PROVE  /\ NotRisen(c) => NotRisen(c)'
           /\ \A k \in DOMAIN main' : Rises(k, c)' => \E l \in DOMAIN main : Rises(l, c)
           /\ (\A k, l \in DOMAIN main : Rises(k, c) /\ Rises(l, c) => k = l)
                => \A k, l \in DOMAIN main' : Rises(k, c)' /\ Rises(l, c)' => k = l
<1>1. PICK t \in Nat : \A k \in DOMAIN main' :
         IsRead(main'[k]) => k + t \in DOMAIN main /\ main'[k] = main[k + t]
  BY DEF ReadsLeft
<1>2. \A k \in DOMAIN main' : k \in Nat
  BY DEF Sequences
<1>3. \A k \in DOMAIN main' : Rises(k, c)' => k + t \in DOMAIN main /\ Rises(k + t, c)
  BY <1>1 DEF Rises
<1>4. NotRisen(c) => NotRisen(c)'
  BY <1>3 DEF NotRisen
<1>5. ASSUME \A k, l \in DOMAIN main : Rises(k, c) /\ Rises(l, c) => k = l,
             NEW k \in DOMAIN main', NEW l \in DOMAIN main', Rises(k, c)', Rises(l, c)'
      PROVE  k = l
  <2>1. k + t = l + t
    BY <1>3, <1>5
  <2> QED BY <1>2, <2>1
<1> QED BY <1>3, <1>4, <1>5

(* No answer to an announcement comes up, and of one connection no second. *)
LEMMA FewerRises ==
    ASSUME Fewer, num' = num, NEW c \in Conns
    PROVE  /\ NotRisen(c) => NotRisen(c)'
           /\ \A k \in DOMAIN main' : Rises(k, c)' => \E l \in DOMAIN main : Rises(l, c)
           /\ (\A k, l \in DOMAIN main : Rises(k, c) /\ Rises(l, c) => k = l)
                => \A k, l \in DOMAIN main' : Rises(k, c)' /\ Rises(l, c)' => k = l
BY ReadsRises DEF Fewer

(* A connection still to be announced or answered stays silent. *)
LEMMA FewerBegins ==
    ASSUME Begins, Fewer, num \in [Conns -> {0} \cup UserIds], num' = num,
           \A c \in Conns : /\ Waits(c)' => Waits(c)
                            /\ linked'[c] => linked[c]
                            /\ received'[c] = received[c] \/ ~ Silent(c)
    PROVE  Begins'
<1>1. PICK s \in Nat : \A k \in DOMAIN toCamera' :
         k + s \in DOMAIN toCamera /\ toCamera'[k] = toCamera[k + s]
  BY DEF Fewer, FramesLeft
<1> SUFFICES ASSUME NEW c \in Conns, num[c] # 0
             PROVE  /\ Waits(c)' => Silent(c)' /\ NotRisen(c)' /\ cam'[num'[c]] # c
                    /\ \A k \in DOMAIN toCamera' :
                          Opens(toCamera'[k], num'[c]) /\ toCamera'[k].owner = c =>
                              Silent(c)' /\ NotRisen(c)' /\ cam'[num'[c]] # c
                    /\ \A k \in DOMAIN main' : Rises(k, c)' =>
                          Silent(c)' /\ \A l \in DOMAIN main' : Rises(l, c)' => k = l
  BY DEF Begins
<1>2. cam'[num'[c]] # c \/ cam[num[c]] = c
  <2>1. num[c] \in Ids /\ c # Nobody
    BY NumberSets
  <2>2. cam'[num[c]] \in {cam[num[c]], Nobody}
    BY <2>1 DEF Fewer, CamLeft
  <2> QED BY <2>1, <2>2
<1>3. Silent(c) => Silent(c)'
  BY LeftSilent DEF Fewer
<1>4. Waits(c)' => Silent(c)' /\ NotRisen(c)' /\ cam'[num'[c]] # c
  BY <1>2, <1>3, FewerRises DEF Begins
<1>5. \A k \in DOMAIN toCamera' :
         Opens(toCamera'[k], num'[c]) /\ toCamera'[k].owner = c =>
            Silent(c)' /\ NotRisen(c)' /\ cam'[num'[c]] # c
  BY <1>1, <1>2, <1>3, FewerRises DEF Begins
<1>6. ASSUME NEW k \in DOMAIN main', Rises(k, c)'
      PROVE  Silent(c)' /\ \A l \in DOMAIN main' : Rises(l, c)' => k = l
  <2>1. Silent(c)
    BY <1>6, FewerRises DEF Begins
  <2>2. \A j, l \in DOMAIN main : Rises(j, c) /\ Rises(l, c) => j = l
    BY DEF Begins
  <2> QED BY <1>3, <1>6, <2>1, <2>2, FewerRises
<1> QED BY <1>4, <1>5, <1>6

(* A connection that has not been made has still left no trace.            *)
LEMMA FewerUntouched ==
    ASSUME Fewer, NEW c \in Conns, Untouched(c),
           sent'[c] = sent[c], linked'[c] => linked[c], pendingBuf'[c] \in {pendingBuf[c], <<>>},
           received'[c] = received[c], Waits(c)' => Waits(c),
           \A i \in Ids : connMap'[i] \in {connMap[i], Nobody}
    PROVE  Untouched(c)'
<1>1. PICK s \in Nat : \A k \in DOMAIN toCamera' :
         k + s \in DOMAIN toCamera /\ toCamera'[k] = toCamera[k + s]
  BY DEF Fewer, FramesLeft
<1>2. PICK t \in Nat : \A k \in DOMAIN main' :
         IsRead(main'[k]) => k + t \in DOMAIN main /\ main'[k] = main[k + t]
  BY DEF Fewer, ReadsLeft
<1>3. \A k \in DOMAIN toCamera' : toCamera'[k].owner # c
  BY <1>1 DEF Untouched
<1>4. \A k \in DOMAIN main' : IsRead(main'[k]) => main'[k].frame.owner # c
  BY <1>2 DEF Untouched
<1>5. \A i \in Ids : connMap'[i] # c /\ cam'[i] # c
  BY NumberSets DEF Untouched, Fewer, CamLeft
<1>6. sent'[c] = 0 /\ ~ linked'[c] /\ pendingBuf'[c] = <<>> /\ received'[c] = <<>> /\ ~ Waits(c)'
  BY DEF Untouched
<1> QED BY <1>3, <1>4, <1>5, <1>6 DEF Untouched

(* The chunks to a camera that has nothing.                                *)
LEMMA NoStreams ==
    ASSUME num \in [Conns -> {0} \cup UserIds], num' = num, \A i \in Ids : cam'[i] = Nobody
    PROVE  Streams'
BY NumberSets DEF Streams

(* The chunks, when no frame goes and no chunk comes.                      *)
LEMMA SameStreams ==
    ASSUME Streams, num \in [Conns -> {0} \cup UserIds], num' = num, CamLeft,
           toCamera' = toCamera, received' = received, sent' = sent,
           \A c \in Conns : /\ linked'[c] => linked[c]
                            /\ local'[c] = "open" => local[c] = "open"
    PROVE  Streams'
<1> SUFFICES ASSUME NEW c \in Conns, num[c] # 0, cam'[num[c]] = c
             PROVE  /\ \A k \in DOMAIN toCamera, n \in 1 .. MaxData : Chunk(k, c, n)' =>
                          /\ Got(c)' < n /\ n <= sent'[c]
                          /\ \A m \in Got(c)' + 1 .. n : UnderWay(c, m)'
                    /\ \A k, l \in DOMAIN toCamera, n, m \in 1 .. MaxData :
                          Chunk(k, c, n)' /\ Chunk(l, c, m)' /\ k < l => n < m
                    /\ linked'[c] /\ local'[c] = "open" =>
                          \A m \in Got(c)' + 1 .. sent'[c] : UnderWay(c, m)'
  BY DEF Streams, Stream
<1>1. cam[num[c]] = c
  BY NumberSets DEF CamLeft
<1>2. Got(c)' = Got(c)
  BY DEF Got
<1>3. \A k, n : Chunk(k, c, n)' <=> Chunk(k, c, n)
  BY DEF Chunk
<1>4. \A m : UnderWay(c, m)' <=> UnderWay(c, m)
  BY <1>3 DEF UnderWay
<1> QED BY <1>1, <1>2, <1>3, <1>4 DEF Streams, Stream


(* A set of natural numbers that is not empty has its minimum.             *)
LEMMA MinIsThere ==
    ASSUME NEW S, S \subseteq Nat, S # {}
    PROVE  Min(S) \in S /\ \A y \in S : Min(S) <= y
<1>1. PICK x \in S : \A y \in S : ~ (<<y, x>> \in OpToRel(<, Nat))
  BY NatLessThanWellFounded, WFMin
<1>2. \A y \in S : x <= y
  <2> SUFFICES ASSUME NEW y \in S
               PROVE  x <= y
    OBVIOUS
  <2>1. x \in Nat /\ y \in Nat
    OBVIOUS
  <2>2. ~ (<<y, x>> \in OpToRel(<, Nat))
    BY <1>1
  <2>3. ~ (y < x)
    BY <2>1, <2>2 DEF OpToRel
  <2> QED BY <2>1, <2>3
<1> QED BY <1>1, <1>2 DEF Min


-----------------------------------------------------------------------------
(* Types.                                                                  *)

ChannelTypes ==
    /\ local \in [Conns -> {"none", "open", "closed"}] /\ sent \in [Conns -> 0..MaxData]
    /\ num \in [Conns -> {0} \cup UserIds] /\ linked \in [Conns -> BOOLEAN]
    /\ pendingBuf \in [Conns -> Seq(1..MaxData)]
ServerTypes ==
    /\ ids \in [Ids -> BOOLEAN] /\ connMap \in [Ids -> Conns \cup {Nobody}]
    /\ pendingConnectChannels \in Seq(Conns)
    /\ conn \in 0..MaxLinks /\ link \in 0..MaxLinks
FlagTypes ==
    /\ channels \subseteq Conns
    /\ started \in BOOLEAN /\ up \in BOOLEAN /\ mixed \in BOOLEAN
    /\ deaf \in [LinkIds -> {"no", "silent", "missed"}]
CameraTypes ==
    /\ cam \in [Ids -> Conns \cup {Nobody}] /\ received \in [Conns -> Seq(1..MaxData)]

(* The types of the variables, in four parts and the sequences. *)
LEMMA TypesApart ==
    /\ TypeOK => ChannelTypes /\ ServerTypes /\ FlagTypes /\ CameraTypes
    /\ ChannelTypes /\ ServerTypes /\ FlagTypes /\ CameraTypes /\ Sequences => TypeOK
<1>1. Sequences => \A k \in DOMAIN main : main[k].kind \in {"accept", "read", "disconnect"}
  <2>1. Sequences => \A k \in DOMAIN main : main[k] \in BlockSet
    BY DEF Sequences
  <2>2. \A b \in BlockSet : b.kind \in {"accept", "read", "disconnect"}
    BY DEF BlockSet
  <2> QED BY <2>1, <2>2
<1> QED BY <1>1 DEF TypeOK, ChannelTypes, ServerTypes, FlagTypes, CameraTypes

(* The blocks of the main queue.                                           *)
LEMMA BlockTypes ==
    ASSUME link \in Nat, conn \in Nat
    PROVE  /\ \A f \in FrameSet : ReadBlock(f) \in BlockSet
           /\ \A n \in Nat : AcceptBlock(n) \in BlockSet
           /\ DisconnectBlock \in BlockSet
<1>1. Frame(<<>>, Nobody) \in FrameSet
  BY DEF Frame, FrameSet
<1> QED BY <1>1 DEF ReadBlock, AcceptBlock, DisconnectBlock, BlockSet

(* The number a new connection gets is free, or 0.                         *)
LEMMA FirstFreeIs ==
    /\ FirstFree \in {0} \cup UserIds
    /\ FirstFree # 0 => FirstFree \in UserIds /\ ~ ids[FirstFree]
<1>1. CASE FreeIds = {}
  BY <1>1 DEF FirstFree
<1>2. CASE FreeIds # {}
  <2>1. FreeIds \subseteq Nat
    BY NumberSets DEF FreeIds
  <2>2. Min(FreeIds) \in FreeIds
    BY <1>2, <2>1, MinIsThere
  <2> QED BY <1>2, <2>2 DEF FirstFree, FreeIds
<1> QED BY <1>1, <1>2

(* A connection is found in the server's map under its number or not.      *)
LEMMA IdOfIs ==
    ASSUME ServerTypes, Owners, NEW c \in Conns
    PROVE  /\ IdOf(c) \in Ids /\ IdOf(c) \in {0, num[c]}
           /\ IdOf(c) # 0 => connMap[IdOf(c)] = c
           /\ num[c] # 0 /\ num[c] \in Ids /\ connMap[num[c]] = c => IdOf(c) = num[c]
<1> DEFINE found == {i \in Ids : connMap[i] = c}
<1>1. \A i \in found : i = num[c]
  BY NumberSets DEF Owners
<1>2. CASE found = {}
  BY <1>2, NumberSets DEF IdOf
<1>3. CASE found # {}
  <2>1. found = {num[c]} /\ num[c] \in Ids /\ num[c] \in Nat /\ connMap[num[c]] = c
    <3>1. num[c] \in found
      BY <1>1, <1>3
    <3> QED BY <1>1, <3>1, NumberSets
  <2>2. Max({num[c]}) = num[c]
    <3> DEFINE n == num[c]
    <3>1. n \in Nat
      BY <2>1
    <3> HIDE DEF n
    <3>2. \A x \in {n} : (\A y \in {n} : x >= y) <=> x = n
      BY <3>1
    <3>3. Max({n}) = n
      BY <3>2 DEF Max
    <3> QED BY <3>3 DEF n
  <2>3. IdOf(c) = num[c]
    BY <1>3, <2>1, <2>2 DEF IdOf
  <2> QED BY <2>1, <2>3
<1> QED BY <1>2, <1>3

(* The frames that go out.                                                 *)
LEMMA WrittenType ==
    ASSUME toCamera \in Seq(FrameSet), NEW s \in Seq(FrameSet), NEW n
    PROVE  Written(n, s) \in Seq(FrameSet)
BY ConcatProperties DEF Written

(* The frames of chunks: one for each, of the connection and its number. *)
LEMMA ChunksType ==
    ASSUME NEW c \in Conns, NEW i \in UserIds, NEW s \in Seq(1 .. MaxData), NEW t,
           t = [k \in DOMAIN s |-> Data(i, c, s[k])]
    PROVE  /\ t \in Seq(FrameSet) /\ Len(t) = Len(s) /\ DOMAIN t = DOMAIN s
           /\ \A k \in DOMAIN t : s[k] \in 1 .. MaxData /\ t[k].owner = c /\ Carries(t[k], i, s[k])
<1> DEFINE D == 1 .. MaxData
<1>0. s \in Seq(D) /\ \A n \in D : n \in Nat
  OBVIOUS
<1> HIDE DEF D
<1>1. Len(s) \in Nat /\ DOMAIN s = 1 .. Len(s) /\ \A k \in DOMAIN s : s[k] \in D
  BY <1>0
<1>2. \A k \in DOMAIN s : s[k] \in Nat
  BY <1>0, <1>1
<1>3. \A k \in DOMAIN s : /\ Data(i, c, s[k]) \in FrameSet /\ Carries(Data(i, c, s[k]), i, s[k])
                          /\ Data(i, c, s[k]).owner = c
  BY <1>2, EncodedData
<1>4. DOMAIN t = 1 .. Len(s) /\ \A k \in 1 .. Len(s) : t[k] = Data(i, c, s[k])
  BY <1>1
<1>5. t \in [1 .. Len(s) -> FrameSet]
  BY <1>1, <1>3
<1>6. t \in Seq(FrameSet) /\ Len(t) = Len(s)
  BY <1>1, <1>5, LenProperties, ElementOfSeq
<1> QED BY <1>1, <1>3, <1>4, <1>6 DEF D

(* Data that is sent makes frames. *)
LEMMA SendDataType ==
    ASSUME toCamera \in Seq(FrameSet), ServerTypes, Owners, ChannelTypes,
           NEW c \in Conns, NEW s \in Seq(1 .. MaxData)
    PROVE  SendData(c, s) \in Seq(FrameSet)
<1>1. IdOf(c) # 0 => IdOf(c) \in UserIds
  BY IdOfIs DEF ChannelTypes
<1>2. <<>> \in Seq(FrameSet)
  OBVIOUS
<1>3. ASSUME IdOf(c) # 0 PROVE [k \in DOMAIN s |-> Data(IdOf(c), c, s[k])] \in Seq(FrameSet)
  BY <1>1, <1>3, ChunksType
<1> QED BY <1>2, <1>3, WrittenType DEF SendData


(* What RemoveAt leaves, index by index. *)
LEMMA RemoveAtElements ==
    ASSUME NEW S, NEW q \in Seq(S), NEW k \in 1 .. Len(q)
    PROVE  /\ RemoveAt(q, k) \in Seq(S)
           /\ Len(RemoveAt(q, k)) = Len(q) - 1
           /\ \A j \in 1 .. Len(q) - 1 :
                 RemoveAt(q, k)[j] = q[IF j < k THEN j ELSE j + 1]
<1> DEFINE a == SubSeq(q, 1, k - 1)
           b == SubSeq(q, k + 1, Len(q))
<1>0. Len(q) \in Nat /\ k \in 1 .. Len(q) /\ k \in Nat
  OBVIOUS
<1>1. /\ a \in Seq(S) /\ Len(a) = k - 1
      /\ \A j \in 1 .. k - 1 : a[j] = q[j]
  <2>1. \A j \in 1 .. k - 1 : q[j] \in S
    OBVIOUS
  <2>2. /\ a \in Seq(S)
        /\ Len(a) = IF 1 <= k - 1 THEN (k - 1) - 1 + 1 ELSE 0
        /\ \A j \in 1 .. (k - 1) - 1 + 1 : a[j] = q[1 + j - 1]
    BY <2>1, SubSeqProperties
  <2> QED BY <2>2
<1>2. /\ b \in Seq(S) /\ Len(b) = Len(q) - k
      /\ \A j \in 1 .. Len(q) - k : b[j] = q[k + j]
  <2>1. \A j \in k + 1 .. Len(q) : q[j] \in S
    OBVIOUS
  <2>2. /\ b \in Seq(S)
        /\ Len(b) = IF k + 1 <= Len(q) THEN Len(q) - (k + 1) + 1 ELSE 0
        /\ \A j \in 1 .. Len(q) - (k + 1) + 1 : b[j] = q[(k + 1) + j - 1]
    BY <2>1, SubSeqProperties
  <2>3. \A j \in 1 .. Len(q) - k : (k + 1) + j - 1 = k + j
    BY <1>0
  <2> QED BY <1>0, <2>2, <2>3
<1>3. RemoveAt(q, k) = a \o b
  BY DEF RemoveAt
<1> HIDE DEF a, b
<1>4. /\ a \o b \in Seq(S)
      /\ Len(a \o b) = Len(a) + Len(b)
      /\ \A j \in 1 .. Len(a) + Len(b) :
            (a \o b)[j] = IF j <= Len(a) THEN a[j] ELSE b[j - Len(a)]
  BY <1>1, <1>2, ConcatProperties
<1>5. Len(a) + Len(b) = Len(q) - 1
  BY <1>0, <1>1, <1>2
<1>6. ASSUME NEW j \in 1 .. Len(q) - 1
      PROVE  (a \o b)[j] = q[IF j < k THEN j ELSE j + 1]
  <2>1. (a \o b)[j] = IF j <= Len(a) THEN a[j] ELSE b[j - Len(a)]
    BY <1>4, <1>5
  <2>2. CASE j < k
    <3>1. j <= Len(a) /\ j \in 1 .. k - 1
      BY <1>0, <1>1, <2>2
    <3> QED BY <1>1, <2>1, <2>2, <3>1
  <2>3. CASE ~ (j < k)
    <3>1. ~ (j <= Len(a)) /\ j - (k - 1) \in 1 .. Len(q) - k /\ k + (j - (k - 1)) = j + 1
      BY <1>0, <1>1, <2>3
    <3>2. b[j - (k - 1)] = q[j + 1]
      BY <1>2, <3>1
    <3> QED BY <1>1, <2>1, <2>3, <3>1, <3>2
  <2> QED BY <2>2, <2>3
<1> QED BY <1>3, <1>4, <1>5, <1>6

(* A list without one of its entries, which it has once.                   *)
LEMMA WithoutIs ==
    ASSUME NEW S, NEW s \in Seq(S), NEW c, c \in ToSet(s)
    PROVE  /\ Without(s, c) \in Seq(S)
           /\ \A j \in DOMAIN Without(s, c) : \E k \in DOMAIN s : Without(s, c)[j] = s[k]
           /\ (\A j, k \in DOMAIN s : s[j] = s[k] => j = k) =>
                 /\ \A j, k \in DOMAIN Without(s, c) :
                       Without(s, c)[j] = Without(s, c)[k] => j = k
                 /\ \A j \in DOMAIN Without(s, c) : Without(s, c)[j] # c
<1> DEFINE at == CHOOSE k \in DOMAIN s : s[k] = c
           r == Without(s, c)
<1>1. at \in DOMAIN s /\ s[at] = c
  <2>1. \E k \in DOMAIN s : s[k] = c
    BY DEF ToSet
  <2> QED BY <2>1
<1>2. Len(s) \in Nat /\ DOMAIN s = 1 .. Len(s)
  OBVIOUS
<1>3. r = RemoveAt(s, at)
  BY DEF Without
<1> HIDE DEF at, r
<1>4. /\ r \in Seq(S) /\ Len(r) = Len(s) - 1
      /\ \A j \in 1 .. Len(s) - 1 : r[j] = s[IF j < at THEN j ELSE j + 1]
  BY <1>1, <1>2, <1>3, RemoveAtElements
<1>5. DOMAIN r = 1 .. Len(s) - 1
  BY <1>4
<1>6. ASSUME NEW j \in DOMAIN r
      PROVE  \E k \in DOMAIN s : k # at /\ r[j] = s[k] /\ k = IF j < at THEN j ELSE j + 1
  <2> DEFINE k == IF j < at THEN j ELSE j + 1
  <2>1. k \in DOMAIN s /\ k # at
    BY <1>1, <1>2, <1>5
  <2>2. r[j] = s[k]
    BY <1>4, <1>5
  <2> QED BY <2>1, <2>2
<1>7. ASSUME \A j, k \in DOMAIN s : s[j] = s[k] => j = k,
             NEW j \in DOMAIN r, NEW k \in DOMAIN r, r[j] = r[k]
      PROVE  j = k
  <2>1. PICK x \in DOMAIN s : r[j] = s[x] /\ x = IF j < at THEN j ELSE j + 1
    BY <1>6
  <2>2. PICK y \in DOMAIN s : r[k] = s[y] /\ y = IF k < at THEN k ELSE k + 1
    BY <1>6
  <2>3. x = y
    BY <1>7, <2>1, <2>2
  <2>4. j \in Int /\ k \in Int /\ at \in Int
    BY <1>1, <1>2, <1>5
  <2> QED BY <2>1, <2>2, <2>3, <2>4
<1>8. ASSUME \A j, k \in DOMAIN s : s[j] = s[k] => j = k, NEW j \in DOMAIN r
      PROVE  r[j] # c
  BY <1>1, <1>6, <1>8
<1> QED BY <1>4, <1>6, <1>7, <1>8 DEF r

(* The heads of the two queues.                                            *)
LEMMA HeadFrame ==
    ASSUME Frames, toCamera # <<>>
    PROVE  /\ Head(toCamera) = toCamera[1] /\ 1 \in DOMAIN toCamera
           /\ ToCamera(toCamera[1]) /\ toCamera[1] \in FrameSet
           /\ Tail(toCamera) \in Seq(FrameSet)
BY TailShape DEF Frames

(* The first block on the main queue. *)
LEMMA HeadBlock ==
    ASSUME Frames, main # <<>>
    PROVE  /\ Head(main) = main[1] /\ 1 \in DOMAIN main /\ main[1] \in BlockSet
           /\ main[1].frame \in FrameSet /\ main[1].link \in Nat
           /\ IsRead(main[1]) => FromCamera(main[1].frame)
           /\ Tail(main) \in Seq(BlockSet)
<1>1. /\ Head(main) = main[1] /\ 1 \in DOMAIN main /\ main[1] \in BlockSet
      /\ Tail(main) \in Seq(BlockSet)
  BY TailShape DEF Frames
<1>2. main[1].frame \in FrameSet /\ main[1].link \in Nat
  BY <1>1 DEF BlockSet
<1> QED BY <1>1, <1>2 DEF Frames

(* One more block.                                                         *)
LEMMA MoreBlocks ==
    ASSUME Sequences, NEW b \in BlockSet
    PROVE  Append(main, b) \in Seq(BlockSet)
BY DEF Sequences

(* The blocks when the link goes down.                                     *)
LEMMA LinkDownType ==
    ASSUME Sequences, link \in Nat, conn \in Nat,
           NEW how \in {"noticed", "silent", "missed"}, LinkDown(how)
    PROVE  /\ main' \in Seq(BlockSet) /\ toCamera' = <<>>
           /\ \E n \in 0 .. Len(main) :
                 /\ \A k \in n + 1 .. Len(main) : IsRead(main[k])
                 /\ how # "noticed" => Len(main') = n
                 /\ how = "noticed" => Len(main') = n + 1 /\ main'[n + 1] = DisconnectBlock
                 /\ \A k \in 1 .. n : main'[k] = main[k]
<1>1. PICK n \in 0 .. Len(main) :
         /\ \A k \in n + 1 .. Len(main) : IsRead(main[k])
         /\ main' = SubSeq(main, 1, n) \o (IF how = "noticed" THEN <<DisconnectBlock>> ELSE <<>>)
  BY DEF LinkDown, IsRead
<1> DEFINE p == SubSeq(main, 1, n)
           q == IF how = "noticed" THEN <<DisconnectBlock>> ELSE <<>>
<1>2. main \in Seq(BlockSet) /\ Len(main) \in Nat /\ n \in Nat /\ n <= Len(main)
  BY DEF Sequences
<1>3. p \in Seq(BlockSet) /\ Len(p) = n /\ \A k \in 1 .. n : p[k] = main[k]
  <2>1. \A k \in 1 .. n : main[k] \in BlockSet
    BY <1>2
  <2>2. /\ p \in Seq(BlockSet)
        /\ Len(p) = IF 1 <= n THEN n - 1 + 1 ELSE 0
        /\ \A k \in 1 .. n - 1 + 1 : p[k] = main[1 + k - 1]
    BY <1>2, <2>1, SubSeqProperties
  <2>3. n - 1 + 1 = n /\ \A k \in 1 .. n : 1 + k - 1 = k
    BY <1>2
  <2> QED BY <1>2, <2>2, <2>3
<1>4. /\ q \in Seq(BlockSet) /\ Len(q) = IF how = "noticed" THEN 1 ELSE 0
      /\ how = "noticed" => q[1] = DisconnectBlock
  BY BlockTypes
<1>5. main' = p \o q
  BY <1>1
<1> HIDE DEF p, q
<1>6. /\ main' \in Seq(BlockSet) /\ Len(main') = Len(p) + Len(q)
      /\ \A k \in 1 .. Len(p) + Len(q) : main'[k] = IF k <= Len(p) THEN p[k] ELSE q[k - Len(p)]
  BY <1>3, <1>4, <1>5, ConcatProperties
<1>7. \A k \in 1 .. n : main'[k] = main[k]
  BY <1>2, <1>3, <1>4, <1>6
<1>8. how # "noticed" => Len(main') = n
  BY <1>3, <1>4, <1>6
<1>9. how = "noticed" => Len(main') = n + 1 /\ main'[n + 1] = DisconnectBlock
  BY <1>2, <1>3, <1>4, <1>6
<1> QED BY <1>1, <1>6, <1>7, <1>8, <1>9 DEF LinkDown

Typed == ChannelTypes /\ ServerTypes /\ FlagTypes /\ CameraTypes /\ Sequences

(* Steps of a local connection keep the types. *)
LEMMA ChannelStepTypes ==
    ASSUME Typed, Frames, Owners, NEW c \in Conns,
           LocalConnects(c) \/ LocalSends(c) \/ LocalCloses(c)
    PROVE  Typed'
<1> USE DEF Typed
<1>0. FirstFree \in {0} \cup UserIds /\ FirstFree \in Ids /\ c \in Conns \cup {Nobody}
  BY FirstFreeIs, NumberSets
<1>1. CASE LocalConnects(c)
  <2> USE <1>1 DEF LocalConnects
  <2>1. ChannelTypes'
    BY <1>0 DEF ChannelTypes
  <2>2. ServerTypes'
    <3>1. pendingConnectChannels' \in Seq(Conns)
      <4>1. pendingConnectChannels' \in {pendingConnectChannels, Append(pendingConnectChannels, c)}
        BY <1>1 DEF LocalConnects
      <4> QED BY <4>1 DEF ServerTypes
    <3> QED BY <1>0, <3>1 DEF ServerTypes, linkVars
  <2>3. FlagTypes' /\ CameraTypes'
    BY DEF FlagTypes, CameraTypes, linkVars
  <2>4. toCamera' \in Seq(FrameSet)
    <3> DEFINE f == Frame(icam_message_encode_new_channel(FirstFree, Port), c)
    <3>1. f \in FrameSet
      BY <1>0, Encoded
    <3> HIDE DEF f
    <3>2. <<f>> \in Seq(FrameSet)
      BY <3>1
    <3>3. Written(conn, <<f>>) \in Seq(FrameSet)
      BY <3>2, WrittenType DEF Sequences
    <3> QED BY <3>3 DEF Sequences, f
  <2> QED BY <2>1, <2>2, <2>3, <2>4 DEF Sequences
<1>2. CASE LocalSends(c)
  <2> USE <1>2 DEF LocalSends
  <2>0. sent'[c] = sent[c] + 1 /\ sent'[c] \in 1 .. MaxData
    BY ConstantsAssumption DEF ChannelTypes
  <2>1. ChannelTypes'
    <3>1. pendingBuf[c] \in Seq(1 .. MaxData)
      BY DEF ChannelTypes
    <3>2. Append(pendingBuf[c], sent'[c]) \in Seq(1 .. MaxData)
      BY <2>0, <3>1, AppendProperties
    <3>3. pendingBuf' \in [Conns -> Seq(1 .. MaxData)]
      BY <3>2 DEF ChannelTypes
    <3>4. sent' \in [Conns -> 0 .. MaxData]
      BY <2>0 DEF ChannelTypes
    <3> QED BY <3>3, <3>4 DEF ChannelTypes
  <2>2. ServerTypes'
    BY DEF ServerTypes, serverVars, linkVars
  <2>3. FlagTypes' /\ CameraTypes'
    BY DEF FlagTypes, CameraTypes, linkVars
  <2>4. toCamera' \in Seq(FrameSet)
    <3> DEFINE s == <<sent'[c]>>
    <3>1. s \in Seq(1 .. MaxData)
      BY <2>0
    <3> HIDE DEF s
    <3>2. SendData(c, s) \in Seq(FrameSet)
      BY <3>1, SendDataType DEF Sequences
    <3> QED BY <3>2 DEF Sequences, s
  <2> QED BY <2>1, <2>2, <2>3, <2>4 DEF Sequences
<1>3. CASE LocalCloses(c)
  <2> USE <1>3 DEF LocalCloses
  <2>1. ChannelTypes'
    BY DEF ChannelTypes, channelVars
  <2>2. ServerTypes'
    <3>1. pendingConnectChannels' \in Seq(Conns)
      <4>1. CASE c \in ToSet(pendingConnectChannels)
        BY <4>1, WithoutIs DEF ServerTypes
      <4> QED BY <4>1 DEF ServerTypes
    <3>2. connMap' \in [Ids -> Conns \cup {Nobody}] /\ ids' = ids
      BY DEF ServerTypes, KeepTaken
    <3> QED BY <3>1, <3>2 DEF ServerTypes, linkVars
  <2>3. FlagTypes' /\ CameraTypes'
    BY DEF FlagTypes, CameraTypes, linkVars
  <2>4. toCamera' \in Seq(FrameSet)
    <3> DEFINE f == Frame(icam_message_encode_delete_channel(IdOf(c)), c)
    <3>1. f \in FrameSet
      BY <1>0, Encoded, IdOfIs
    <3> HIDE DEF f
    <3>2. <<f>> \in Seq(FrameSet)
      BY <3>1
    <3>3. Written(conn, <<f>>) \in Seq(FrameSet)
      BY <3>2, WrittenType DEF Sequences
    <3> QED BY <3>3 DEF Sequences, f
  <2> QED BY <2>1, <2>2, <2>3, <2>4 DEF Sequences
<1> QED BY <1>1, <1>2, <1>3


(* Steps of the link and of the controller keep the types. *)
LEMMA LinkStepTypes ==
    ASSUME Typed, Links,
           CameraConnects \/ LinkLost \/ LossNoticed \/ Pause \/ Resume
    PROVE  Typed'
<1> USE DEF Typed
<1>0. /\ link \in Nat /\ conn \in Nat /\ link + 1 \in Nat
      /\ \A i \in Ids : Nobody \in Conns \cup {Nobody}
      /\ <<>> \in Seq(FrameSet)
  BY DEF ServerTypes
<1>1. CASE CameraConnects
  <2> USE <1>1 DEF CameraConnects
  <2>1. main' \in Seq(BlockSet)
    BY <1>0, BlockTypes, MoreBlocks
  <2>2. ChannelTypes'
    BY DEF ChannelTypes, localVars, channelVars
  <2>3. link' \in 0 .. MaxLinks
    BY <1>0, ConstantsAssumption
  <2>4. ServerTypes'
    BY <2>3 DEF ServerTypes, serverVars
  <2>5. FlagTypes' /\ CameraTypes'
    BY DEF FlagTypes, CameraTypes
  <2> QED BY <1>0, <2>1, <2>2, <2>4, <2>5 DEF Sequences
<1>2. ASSUME NEW how \in {"noticed", "silent", "missed"}, LinkDown(how)
      PROVE  /\ Sequences' /\ up' = FALSE /\ link' = link /\ received' = received
             /\ cam' \in [Ids -> Conns \cup {Nobody}]
             /\ deaf' \in [LinkIds -> {"no", "silent", "missed"}]
  <2>1. main' \in Seq(BlockSet) /\ toCamera' = <<>>
    BY <1>0, <1>2, LinkDownType
  <2>2. /\ up' = FALSE /\ link' = link /\ received' = received
        /\ cam' \in [Ids -> Conns \cup {Nobody}]
    BY <1>2 DEF LinkDown
  <2>3. deaf' \in [LinkIds -> {"no", "silent", "missed"}]
    BY <1>2 DEF LinkDown, FlagTypes
  <2> QED BY <1>0, <2>1, <2>2, <2>3 DEF Sequences
<1>3. CASE LinkLost
  <2>1. PICK how \in {"noticed", "silent", "missed"} : LinkDown(how)
    BY <1>3 DEF LinkLost
  <2>2. UNCHANGED <<localVars, channelVars, serverVars, channels, started, mixed>>
    BY <1>3 DEF LinkLost
  <2>3. ChannelTypes' /\ ServerTypes'
    BY <1>2, <2>1, <2>2 DEF ChannelTypes, ServerTypes, localVars, channelVars, serverVars
  <2>4. FlagTypes' /\ CameraTypes'
    BY <1>2, <2>1, <2>2 DEF FlagTypes, CameraTypes
  <2> QED BY <1>2, <2>1, <2>3, <2>4
<1>a. ASSUME OldSocketCloses
      PROVE  /\ Sequences' /\ up' = FALSE /\ link' = link /\ CameraTypes'
             /\ deaf' \in [LinkIds -> {"no", "silent", "missed"}]
  <2>1. main' \in Seq(BlockSet)
    BY <1>0, <1>a, BlockTypes, MoreBlocks DEF OldSocketCloses
  <2>2. deaf' \in [LinkIds -> {"no", "silent", "missed"}]
    BY <1>a DEF OldSocketCloses, FlagTypes
  <2> QED BY <1>a, <2>1, <2>2 DEF OldSocketCloses, Sequences, CameraTypes, cameraVars
<1>4. CASE LossNoticed
  <2>1. /\ OldSocketCloses
        /\ UNCHANGED <<localVars, channelVars, serverVars, channels, started, mixed>>
    BY <1>4 DEF LossNoticed
  <2>2. ChannelTypes' /\ ServerTypes'
    BY <1>a, <2>1 DEF ChannelTypes, ServerTypes, localVars, channelVars, serverVars
  <2>3. FlagTypes'
    BY <1>a, <2>1 DEF FlagTypes
  <2> QED BY <1>a, <2>1, <2>2, <2>3
<1>5. CASE Pause
  <2> USE DEF Pause
  <2>1. local' \in [Conns -> {"none", "open", "closed"}] /\ channels' \subseteq Conns
        /\ started' \in BOOLEAN
    BY <1>5 DEF ChannelTypes
  <2>2. UNCHANGED <<sent, channelVars, serverVars, mixed>>
    BY <1>5
  <2>3. CASE LinkDown("noticed")
    <3>1. LinkDown("noticed")
      BY <2>3
    <3>2. ChannelTypes' /\ ServerTypes'
      BY <1>2, <2>1, <2>2, <3>1 DEF ChannelTypes, ServerTypes, channelVars, serverVars
    <3>3. FlagTypes' /\ CameraTypes'
      BY <1>2, <2>1, <2>2, <3>1 DEF FlagTypes, CameraTypes
    <3> QED BY <1>2, <3>1, <3>2, <3>3
  <2>4. CASE OldSocketCloses
    <3>1. ChannelTypes' /\ ServerTypes'
      BY <1>a, <2>1, <2>2, <2>4 DEF ChannelTypes, ServerTypes, channelVars, serverVars
    <3>2. FlagTypes'
      BY <1>a, <2>1, <2>2, <2>4 DEF FlagTypes
    <3> QED BY <1>a, <2>4, <3>1, <3>2
  <2>5. CASE UNCHANGED <<main, linkVars, cameraVars, deaf>>
    <3>1. UNCHANGED <<main, linkVars, cameraVars, deaf>>
      BY <2>5
    <3>3. ChannelTypes' /\ ServerTypes'
      BY <2>1, <2>2, <3>1 DEF ChannelTypes, ServerTypes, channelVars, serverVars, linkVars
    <3>4. FlagTypes' /\ CameraTypes'
      BY <2>1, <2>2, <3>1 DEF FlagTypes, CameraTypes, linkVars, cameraVars
    <3> QED BY <3>1, <3>3, <3>4 DEF Sequences, cameraVars
  <2> QED BY <1>5, <2>3, <2>4, <2>5
<1>6. CASE Resume
  <2> USE <1>6 DEF Resume
  <2>1. ChannelTypes' /\ ServerTypes'
    BY DEF ChannelTypes, ServerTypes, localVars, channelVars, serverVars, linkVars
  <2>2. FlagTypes' /\ CameraTypes'
    BY DEF FlagTypes, CameraTypes, linkVars, cameraVars
  <2> QED BY <2>1, <2>2 DEF Sequences, cameraVars
<1> QED BY <1>1, <1>3, <1>4, <1>5, <1>6

(* What is announced when a camera connects.                               *)
LEMMA AnnouncedIs ==
    ASSUME ChannelTypes, NEW s \in Seq(Conns)
    PROVE  /\ Announced(s) \in Seq(FrameSet) /\ DOMAIN Announced(s) = DOMAIN s
           /\ \A k \in DOMAIN s : /\ s[k] \in Conns /\ Announced(s)[k].owner = s[k]
                                  /\ Opens(Announced(s)[k], num[s[k]])
                                  /\ num[s[k]] \in Ids
<1>1. Len(s) \in Nat /\ DOMAIN s = 1 .. Len(s) /\ \A k \in DOMAIN s : s[k] \in Conns
  BY LenProperties, ElementOfSeq
<1>2. \A k \in DOMAIN s : num[s[k]] \in Ids /\ s[k] \in Conns \cup {Nobody}
  BY <1>1, NumberSets DEF ChannelTypes
<1>3. \A k \in DOMAIN s : /\ NewChannel(s[k]) \in FrameSet /\ Opens(NewChannel(s[k]), num[s[k]])
                          /\ NewChannel(s[k]).owner = s[k]
  <2>1. \A k \in DOMAIN s : NewChannel(s[k]) \in FrameSet /\ Opens(NewChannel(s[k]), num[s[k]])
    BY <1>2, Encoded DEF NewChannel
  <2>2. \A k \in DOMAIN s : NewChannel(s[k]).owner = s[k]
    BY DEF NewChannel, Frame
  <2> QED BY <2>1, <2>2
<1> DEFINE t == Announced(s)
<1>4. DOMAIN t = 1 .. Len(s) /\ \A k \in 1 .. Len(s) : t[k] = NewChannel(s[k])
  BY <1>1 DEF Announced
<1>5. t \in [1 .. Len(s) -> FrameSet]
  BY <1>1, <1>3 DEF Announced
<1> HIDE DEF t
<1>6. t \in Seq(FrameSet)
  BY <1>1, <1>5
<1>7. \A k \in DOMAIN s : t[k] = NewChannel(s[k])
  BY <1>1, <1>4
<1>8. DOMAIN t = DOMAIN s
  BY <1>1, <1>4
<1> QED BY <1>1, <1>2, <1>3, <1>6, <1>7, <1>8 DEF t

(* Steps of the server keep the types. *)
LEMMA ServerStepTypes ==
    ASSUME Typed, Frames, Links, Owners, MainStep
    PROVE  Typed'
<1> USE DEF Typed
<1>0. /\ main # <<>> /\ main' = Tail(main) /\ Head(main) = main[1] /\ 1 \in DOMAIN main
      /\ main' \in Seq(BlockSet) /\ main[1].link \in Nat
  <2>1. main # <<>> /\ main' = Tail(main)
    BY DEF MainStep, DidAcceptNewSocket, HandleDisconnected, HandleDisconnectedOf, HandleLinkUp,
           HandleLinkDown, HandleTransportData, Reads
  <2> QED BY <2>1, HeadBlock
<1>1. ASSUME NEW cs \in SUBSET Conns, Closes(cs), num' = num, sent' = sent
      PROVE  ChannelTypes' /\ channels' \subseteq Conns
  <2>1. <<>> \in Seq(1 .. MaxData)
    OBVIOUS
  <2>2. pendingBuf' \in [Conns -> Seq(1 .. MaxData)]
    BY <1>1, <2>1 DEF Closes, ChannelTypes
  <2>3. local' \in [Conns -> {"none", "open", "closed"}] /\ linked' \in [Conns -> BOOLEAN]
    BY <1>1 DEF Closes, ChannelTypes
  <2> QED BY <1>1, <2>2, <2>3 DEF Closes, ChannelTypes, FlagTypes
<1>2. CASE DidAcceptNewSocket
  <2> USE <1>2 DEF DidAcceptNewSocket
  <2>1. toCamera' \in Seq(FrameSet)
    BY AnnouncedIs, WrittenType DEF Sequences, ServerTypes
  <2>2. conn' \in 0 .. MaxLinks
    <3>1. main[1].link <= link
      BY <1>0 DEF Links, Known
    <3> QED BY <1>0, <3>1, ConstantsAssumption DEF ServerTypes
  <2>3. ChannelTypes' /\ ServerTypes'
    BY <2>2 DEF ChannelTypes, ServerTypes, localVars, channelVars, linkVars
  <2>4. FlagTypes' /\ CameraTypes'
    BY DEF FlagTypes, CameraTypes, linkVars
  <2> QED BY <1>0, <2>1, <2>3, <2>4 DEF Sequences
<1>3. CASE HandleDisconnected
  <2> USE <1>3 DEF HandleDisconnected, HandleDisconnectedOf
  <2>1. InMap \in SUBSET Conns
    BY DEF InMap, ServerTypes
  <2>2. ChannelTypes' /\ channels' \subseteq Conns
    BY <1>1, <2>1
  <2>3. ids' \in [Ids -> BOOLEAN] /\ connMap' \in [Ids -> Conns \cup {Nobody}]
    BY DEF ServerTypes
  <2>4. conn' \in 0 .. MaxLinks
    BY ConstantsAssumption
  <2>5. ServerTypes'
    BY <2>3, <2>4 DEF ServerTypes, linkVars
  <2>6. FlagTypes' /\ CameraTypes'
    BY <2>2 DEF FlagTypes, CameraTypes, linkVars, cameraVars
  <2> QED BY <1>0, <2>2, <2>5, <2>6 DEF Sequences, cameraVars
<1>4. CASE HandleLinkUp
  <2> USE <1>4 DEF HandleLinkUp, Reads
  <2> DEFINE i == Received.channel_id
             c == connMap[i]
  <2>1. i \in Ids
    <3>1. FromCamera(main[1].frame) /\ Received = icam_message_decode(main[1].frame.bytes)
      BY <1>0, HeadBlock DEF Received, IsRead
    <3> QED BY <3>1, ReceivedMeans
  <2>2. c \in Conns \cup {Nobody}
    BY <2>1 DEF ServerTypes
  <2>3. \/ c = Nobody /\ UNCHANGED <<linked, pendingBuf, toCamera>>
        \/ /\ c # Nobody /\ toCamera' = SendData(c, pendingBuf[c])
           /\ pendingBuf' = [pendingBuf EXCEPT ![c] = <<>>]
           /\ linked' = [linked EXCEPT ![c] = TRUE]
    OBVIOUS
  <2> HIDE DEF c
  <2>4. toCamera' \in Seq(FrameSet)
    <3>1. CASE c = Nobody
      BY <2>3, <3>1 DEF Sequences
    <3>2. CASE c # Nobody
      <4>1. c \in Conns /\ pendingBuf[c] \in Seq(1 .. MaxData)
        BY <2>2, <3>2 DEF ChannelTypes
      <4>2. SendData(c, pendingBuf[c]) \in Seq(FrameSet)
        BY <4>1, SendDataType DEF Sequences
      <4> QED BY <2>3, <3>2, <4>2
    <3> QED BY <3>1, <3>2
  <2>5. pendingBuf' \in [Conns -> Seq(1 .. MaxData)] /\ linked' \in [Conns -> BOOLEAN]
    <3> DEFINE D == Seq(1 .. MaxData)
    <3>1. <<>> \in D /\ pendingBuf \in [Conns -> D] /\ linked \in [Conns -> BOOLEAN]
      BY DEF ChannelTypes
    <3> HIDE DEF D
    <3>2. pendingBuf' \in [Conns -> D]
      BY <2>3, <3>1
    <3>3. linked' \in [Conns -> BOOLEAN]
      BY <2>3, <3>1
    <3> QED BY <3>2, <3>3 DEF D
  <2>6. ChannelTypes' /\ ServerTypes'
    BY <2>5 DEF ChannelTypes, ServerTypes, localVars, serverVars, linkVars
  <2>7. FlagTypes' /\ CameraTypes'
    BY DEF FlagTypes, CameraTypes, linkVars
  <2> QED BY <1>0, <2>4, <2>6, <2>7 DEF Sequences
<1>5. CASE HandleLinkDown
  <2> USE <1>5 DEF HandleLinkDown, Reads
  <2>1. Received.channel_id \in Ids
    <3>1. FromCamera(main[1].frame) /\ Received = icam_message_decode(main[1].frame.bytes)
      BY <1>0, HeadBlock DEF Received, IsRead
    <3> QED BY <3>1, ReceivedMeans
  <2>2. {connMap[Received.channel_id]} \ {Nobody} \in SUBSET Conns
    BY <2>1 DEF ServerTypes
  <2>3. ChannelTypes' /\ channels' \subseteq Conns
    BY <1>1, <2>2
  <2>4. ServerTypes'
    BY <2>1 DEF ServerTypes, linkVars
  <2>5. FlagTypes' /\ CameraTypes'
    BY <2>3 DEF FlagTypes, CameraTypes, linkVars, cameraVars
  <2> QED BY <1>0, <2>3, <2>4, <2>5 DEF Sequences, cameraVars
<1>6. CASE HandleTransportData
  <2> USE <1>6 DEF HandleTransportData, Reads
  <2>1. mixed' \in BOOLEAN
    BY DEF FlagTypes
  <2>2. ChannelTypes' /\ ServerTypes'
    BY DEF ChannelTypes, ServerTypes, localVars, channelVars, serverVars, linkVars
  <2>3. FlagTypes' /\ CameraTypes'
    BY <2>1 DEF FlagTypes, CameraTypes, linkVars, cameraVars
  <2> QED BY <1>0, <2>2, <2>3 DEF Sequences, cameraVars
<1> QED BY <1>2, <1>3, <1>4, <1>5, <1>6 DEF MainStep


(* Steps of the camera keep the types. *)
LEMMA CameraStepTypes ==
    ASSUME Typed, Frames,
           CameraStep \/ \E i \in Ids : CameraSends(i) \/ CameraCloses(i)
    PROVE  Typed'
<1> USE DEF Typed
<1>0. link \in Nat /\ conn \in Nat /\ \A b \in BlockSet : Append(main, b) \in Seq(BlockSet)
  BY MoreBlocks DEF ServerTypes
<1>1. ASSUME CameraStep
      PROVE  /\ toCamera # <<>> /\ toCamera' = Tail(toCamera) /\ Head(toCamera) = toCamera[1]
             /\ toCamera' \in Seq(FrameSet)
             /\ ToCamera(toCamera[1]) /\ Arrived = icam_message_decode(toCamera[1].bytes)
             /\ toCamera[1].owner \in Conns
             /\ UNCHANGED <<localVars, channelVars, serverVars, channels, started, linkVars, deaf>>
  <2>1. /\ toCamera # <<>> /\ toCamera' = Tail(toCamera)
        /\ UNCHANGED <<localVars, channelVars, serverVars, channels, started, linkVars, deaf>>
    BY <1>1 DEF CameraStep, CameraOpens, CameraDeletes, CameraReceives, Takes
  <2>2. /\ Head(toCamera) = toCamera[1] /\ ToCamera(toCamera[1])
        /\ Tail(toCamera) \in Seq(FrameSet)
    BY <2>1, HeadFrame
  <2>3. toCamera[1].owner \in Conns
    BY <2>2 DEF ToCamera
  <2> QED BY <2>1, <2>2, <2>3 DEF Arrived
<1>2. ASSUME UNCHANGED <<localVars, channelVars, serverVars, channels, started, linkVars, deaf>>
      PROVE  ChannelTypes' /\ ServerTypes' /\ channels' = channels /\ started' = started
             /\ up' = up /\ deaf' = deaf
  BY <1>2 DEF ChannelTypes, ServerTypes, localVars, channelVars, serverVars, linkVars
<1>3. CASE CameraOpens
  <2> USE <1>3 DEF CameraOpens, Takes
  <2>1. CameraStep
    BY DEF CameraStep
  <2> DEFINE i == Arrived.channel_id
             c == toCamera[1].owner
  <2>2. i \in Ids /\ c \in Conns
    BY <1>1, <2>1, ArrivedMeans
  <2>3. /\ cam' = [cam EXCEPT ![i] = c]
        /\ main' = Append(main, ReadBlock(Frame(icam_message_encode_channel_linkup(i), c)))
    BY <1>1, <2>1 DEF ToServer
  <2> HIDE DEF i, c
  <2>4. main' \in Seq(BlockSet)
    BY <1>0, <2>2, <2>3, Encoded, BlockTypes
  <2>5. cam' \in [Ids -> Conns \cup {Nobody}]
    BY <2>2, <2>3 DEF CameraTypes
  <2>6. FlagTypes' /\ CameraTypes'
    BY <1>1, <1>2, <2>1, <2>5 DEF FlagTypes, CameraTypes
  <2> QED BY <1>1, <1>2, <2>1, <2>4, <2>6 DEF Sequences
<1>4. CASE CameraDeletes
  <2> USE <1>4 DEF CameraDeletes, Takes
  <2>1. CameraStep
    BY DEF CameraStep
  <2> DEFINE i == Arrived.channel_id
  <2>2. i \in Ids
    BY <1>1, <2>1, ArrivedMeans
  <2>3. /\ cam' = [cam EXCEPT ![i] = Nobody]
        /\ \/ main' = Append(main, ReadBlock(Frame(icam_message_encode_channel_linkdown(i), cam[i])))
           \/ main' = main
    BY DEF ToServer
  <2> HIDE DEF i
  <2>4. main' \in Seq(BlockSet)
    <3>1. cam[i] \in Conns \cup {Nobody}
      BY <2>2 DEF CameraTypes
    <3>2. ReadBlock(Frame(icam_message_encode_channel_linkdown(i), cam[i])) \in BlockSet
      BY <1>0, <2>2, <3>1, Encoded, BlockTypes
    <3> QED BY <1>0, <2>3, <3>2 DEF Sequences
  <2>5. cam' \in [Ids -> Conns \cup {Nobody}]
    BY <2>2, <2>3 DEF CameraTypes
  <2>6. FlagTypes' /\ CameraTypes'
    BY <1>1, <1>2, <2>1, <2>5 DEF FlagTypes, CameraTypes
  <2> QED BY <1>1, <1>2, <2>1, <2>4, <2>6 DEF Sequences
<1>5. CASE CameraReceives
  <2> USE <1>5 DEF CameraReceives, Takes
  <2>1. CameraStep
    BY DEF CameraStep
  <2> DEFINE n == Arrived.data[2]
             c == cam[Arrived.channel]
  <2>2. n \in 1 .. MaxData /\ c \in Conns \cup {Nobody}
    <3>1. Arrived.channel \in UserIds /\ n \in 1 .. MaxData
      BY <1>1, <2>1, ArrivedMeans
    <3> QED BY <3>1, NumberSets DEF CameraTypes
  <2>3. /\ \/ c = Nobody /\ received' = received /\ mixed' = mixed
           \/ /\ c # Nobody
              /\ received' = [received EXCEPT ![c] = Append(@, n)]
              /\ mixed' = (mixed \/ Arrived.data[1] # c)
        /\ cam' = cam /\ main' = main
    OBVIOUS
  <2> HIDE DEF n, c
  <2>4. received' \in [Conns -> Seq(1 .. MaxData)]
    <3> DEFINE D == 1 .. MaxData
    <3>1. received \in [Conns -> Seq(D)] /\ n \in D
      BY <2>2 DEF CameraTypes
    <3> HIDE DEF D
    <3>2. c # Nobody => received[c] \in Seq(D) /\ Append(received[c], n) \in Seq(D)
      BY <2>2, <3>1, AppendProperties
    <3>3. received' \in [Conns -> Seq(D)]
      BY <2>3, <3>1, <3>2
    <3> QED BY <3>3 DEF D
  <2>5. mixed' \in BOOLEAN
    BY <2>3 DEF FlagTypes
  <2>6. FlagTypes'
    BY <1>1, <1>2, <2>1, <2>5 DEF FlagTypes
  <2>7. CameraTypes'
    BY <2>3, <2>4 DEF CameraTypes
  <2> QED BY <1>1, <1>2, <2>1, <2>3, <2>6, <2>7 DEF Sequences
<1>6. ASSUME NEW i \in Ids, CameraSends(i)
      PROVE  Typed'
  <2> USE <1>6 DEF CameraSends
  <2>1. cam[i] \in Conns
    BY DEF CameraTypes
  <2>2. main' \in Seq(BlockSet)
    BY <1>0, <2>1, EncodedData, BlockTypes
  <2>3. ChannelTypes' /\ ServerTypes'
    BY DEF ChannelTypes, ServerTypes, localVars, channelVars, serverVars, linkVars
  <2>4. FlagTypes' /\ CameraTypes'
    BY DEF FlagTypes, CameraTypes, linkVars, cameraVars
  <2> QED BY <2>2, <2>3, <2>4 DEF Sequences, cameraVars
<1>7. ASSUME NEW i \in Ids, CameraCloses(i)
      PROVE  Typed'
  <2> USE <1>7 DEF CameraCloses, ToServer
  <2>1. cam[i] \in Conns \cup {Nobody}
    BY DEF CameraTypes
  <2>2. main' \in Seq(BlockSet)
    BY <1>0, <2>1, Encoded, BlockTypes
  <2>3. ChannelTypes' /\ ServerTypes'
    BY DEF ChannelTypes, ServerTypes, localVars, channelVars, serverVars, linkVars
  <2>4. FlagTypes'
    BY DEF FlagTypes, linkVars
  <2>5. cam' \in [Ids -> Conns \cup {Nobody}] /\ received' = received
    BY DEF CameraTypes
  <2> QED BY <2>2, <2>3, <2>4, <2>5 DEF Sequences, CameraTypes
<1> QED BY <1>3, <1>4, <1>5, <1>6, <1>7 DEF CameraStep

(* Every step keeps the types.                                             *)
LEMMA TypeStep ==
    ASSUME TypeOK, Frames, Links, Owners, [Next]_vars
    PROVE  TypeOK' /\ Sequences'
<1>1. Typed
  BY TypesApart DEF Typed, Frames, Sequences
<1>2. Typed => TypeOK /\ Sequences
  BY TypesApart DEF Typed
<1>3. Typed'
  <2>1. CASE UNCHANGED vars
    <3>1. ChannelTypes' /\ ServerTypes'
      BY <1>1, <2>1
         DEF Typed, ChannelTypes, ServerTypes, vars, localVars, channelVars, serverVars, linkVars
    <3>2. FlagTypes' /\ CameraTypes' /\ Sequences'
      BY <1>1, <2>1
         DEF Typed, FlagTypes, CameraTypes, Sequences, vars, linkVars, cameraVars
    <3> QED BY <3>1, <3>2 DEF Typed
  <2> QED BY <1>1, <2>1, ChannelStepTypes, LinkStepTypes, ServerStepTypes, CameraStepTypes
          DEF Next
<1>4. TypeOK' /\ Sequences'
  <2>1. ChannelTypes' /\ ServerTypes' /\ FlagTypes' /\ CameraTypes' /\ Sequences'
    BY <1>3 DEF Typed
  <2>2. (\A k \in DOMAIN main : main[k].kind \in {"accept", "read", "disconnect"})'
    <3>1. \A k \in DOMAIN main' : main'[k] \in BlockSet
      BY <2>1 DEF Sequences
    <3>2. \A b \in BlockSet : b.kind \in {"accept", "read", "disconnect"}
      BY DEF BlockSet
    <3> QED BY <3>1, <3>2
  <2> QED BY <2>1, <2>2 DEF TypeOK, ChannelTypes, ServerTypes, FlagTypes, CameraTypes
<1> QED BY <1>4


-----------------------------------------------------------------------------
(* Steps of the link, of the controller and of the data for the app.       *)

(* What the steps of the handlers preserve beside Links and NeverMixed.    *)
Tables == Frames /\ Numbers /\ Owners /\ Connections /\ Kept /\ Begins /\ Streams /\ InOrder

(* The camera's end is as it was, or all of it gone.                       *)
Cut == toCamera' = <<>> /\ \A i \in Ids : cam'[i] = Nobody
Whole == toCamera' = toCamera /\ cam' = cam

(* Nothing is added at the camera's end by either. *)
LEMMA FramesCut ==
    ASSUME Cut \/ Whole, Sequences
    PROVE  FramesLeft /\ CamLeft
<1>1. CASE Cut
  <2>1. DOMAIN toCamera' = {}
    BY <1>1 DEF Cut
  <2> QED BY <1>1, <2>1 DEF Cut, FramesLeft, CamLeft
<1>2. CASE Whole
  <2>1. \A k \in DOMAIN toCamera : k + 0 = k
    BY DEF Sequences
  <2>2. 0 \in Nat /\ \A k \in DOMAIN toCamera' :
           k + 0 \in DOMAIN toCamera /\ toCamera'[k] = toCamera[k + 0]
    BY <1>2, <2>1 DEF Whole
  <2>3. FramesLeft
    BY <2>2 DEF FramesLeft
  <2> QED BY <1>2, <2>3 DEF Whole, CamLeft
<1> QED BY <1>1, <1>2

(* A step that leaves the channels alone, but for local connections that   *)
(* close, keeps what the handlers keep.                                    *)
LEMMA QuietStep ==
    ASSUME IInv, ReadsLeft, Sequences', Cut \/ Whole,
           UNCHANGED <<channelVars, serverVars, sent, received>>,
           \A c \in Conns : /\ local'[c] = "none" => local[c] = "none"
                            /\ local'[c] = "open" => local[c] = "open" /\ c \in channels'
    PROVE  Tables'
<1>1. /\ Sequences /\ Frames /\ Numbers /\ Owners /\ Connections /\ Kept /\ Begins /\ Streams
      /\ InOrder
  BY DEF IInv, Frames, Sequences
<1>2. Fewer
  BY <1>1, FramesCut DEF Fewer
<1>3. /\ UNCHANGED <<num, linked, pendingBuf, ids, connMap, pendingConnectChannels, conn>>
      /\ sent' = sent /\ received' = received
  BY DEF channelVars, serverVars
<1>4. num \in [Conns -> {0} \cup UserIds]
  BY DEF IInv, TypeOK
<1>5. Frames'
  BY <1>1, <1>2, FewerFrames
<1>6. Numbers'
  BY <1>1, <1>2, <1>3, FewerNumbers
<1>7. Owners'
  BY <1>1, <1>2, <1>3, FewerOwners
<1>8. \A c : Waits(c)' <=> Waits(c)
  BY <1>3 DEF Waits
<1>9. Begins'
  BY <1>1, <1>2, <1>3, <1>4, <1>8, FewerBegins
<1>10. Connections'
  <2>1. \A c \in Conns : local'[c] = "none" => Untouched(c)'
    <3> SUFFICES ASSUME NEW c \in Conns, local'[c] = "none"
                 PROVE  Untouched(c)'
      OBVIOUS
    <3>1. Untouched(c)
      BY <1>1 DEF Connections
    <3> QED BY <1>2, <1>3, <1>8, <3>1, FewerUntouched
  <2>2. \A c : HasNumber(c)' <=> HasNumber(c)
    BY <1>3 DEF HasNumber
  <2> QED BY <1>1, <1>3, <1>8, <2>1, <2>2 DEF Connections
<1>11. Kept'
  BY <1>1, <1>3 DEF Kept
<1>12. Streams'
  <2>1. CASE Cut
    BY <1>3, <1>4, <2>1, NoStreams DEF Cut
  <2>2. CASE Whole
    BY <1>1, <1>2, <1>3, <1>4, <2>2, SameStreams DEF Whole, Fewer
  <2> QED BY <2>1, <2>2
<1>13. InOrder'
  BY <1>1, <1>3 DEF InOrder
<1> QED BY <1>5, <1>6, <1>7, <1>9, <1>10, <1>11, <1>12, <1>13 DEF Tables

(* The reads that are left when blocks that are no reads come, when the    *)
(* first block goes, and when the link goes down.                          *)
LEMMA ReadsThere ==
    ASSUME Sequences
    PROVE  /\ main' = main => ReadsLeft
           /\ \A b \in BlockSet : ~ IsRead(b) /\ main' = Append(main, b) => ReadsLeft
           /\ main # <<>> /\ main' = Tail(main) => ReadsLeft
<1>0. main \in Seq(BlockSet) /\ Len(main) \in Nat /\ DOMAIN main = 1 .. Len(main)
  BY DEF Sequences
<1>1. \A k \in DOMAIN main : k + 0 = k
  BY <1>0
<1>2. ASSUME main' = main PROVE ReadsLeft
  <2>1. 0 \in Nat /\ \A k \in DOMAIN main' :
           IsRead(main'[k]) => k + 0 \in DOMAIN main /\ main'[k] = main[k + 0]
    BY <1>1, <1>2
  <2> QED BY <2>1 DEF ReadsLeft
<1>3. ASSUME NEW b \in BlockSet, ~ IsRead(b), main' = Append(main, b) PROVE ReadsLeft
  <2>1. /\ DOMAIN main' = 1 .. Len(main) + 1 /\ main'[Len(main) + 1] = b
        /\ \A k \in DOMAIN main : main'[k] = main[k]
    BY <1>0, <1>3, AppendShape
  <2>2. \A k \in DOMAIN main' : IsRead(main'[k]) => k \in DOMAIN main
    BY <1>0, <1>3, <2>1
  <2>3. 0 \in Nat /\ \A k \in DOMAIN main' :
           IsRead(main'[k]) => k + 0 \in DOMAIN main /\ main'[k] = main[k + 0]
    BY <1>1, <2>1, <2>2
  <2> QED BY <2>3 DEF ReadsLeft
<1>4. ASSUME main # <<>>, main' = Tail(main) PROVE ReadsLeft
  <2>1. 1 \in Nat /\ \A k \in DOMAIN main' : k + 1 \in DOMAIN main /\ main'[k] = main[k + 1]
    BY <1>0, <1>4, TailShape
  <2> QED BY <2>1 DEF ReadsLeft
<1> QED BY <1>2, <1>3, <1>4

(* A link that goes down adds no read, and cuts off the camera. *)
LEMMA ReadsDown ==
    ASSUME Sequences, link \in Nat, conn \in Nat,
           NEW how \in {"noticed", "silent", "missed"}, LinkDown(how)
    PROVE  ReadsLeft /\ Cut /\ up' = FALSE /\ link' = link /\ received' = received
<1>1. PICK n \in 0 .. Len(main) :
         /\ how # "noticed" => Len(main') = n
         /\ how = "noticed" => Len(main') = n + 1 /\ main'[n + 1] = DisconnectBlock
         /\ \A k \in 1 .. n : main'[k] = main[k]
  BY LinkDownType
<1>2. /\ main \in Seq(BlockSet) /\ Len(main) \in Nat /\ DOMAIN main = 1 .. Len(main)
      /\ main' \in Seq(BlockSet) /\ DOMAIN main' = 1 .. Len(main')
  BY LinkDownType DEF Sequences
<1>3. ~ IsRead(DisconnectBlock)
  BY DEF IsRead, DisconnectBlock
<1>4. ASSUME NEW k \in DOMAIN main', IsRead(main'[k])
      PROVE  k + 0 \in DOMAIN main /\ main'[k] = main[k + 0]
  <2>1. k \in 1 .. n
    <3>1. CASE how = "noticed"
      <4>1. k \in 1 .. n + 1 /\ k # n + 1
        BY <1>1, <1>2, <1>3, <1>4, <3>1
      <4> QED BY <4>1
    <3>2. CASE how # "noticed"
      BY <1>1, <1>2, <3>2
    <3> QED BY <3>1, <3>2
  <2>2. k \in DOMAIN main /\ k + 0 = k
    BY <1>2, <2>1
  <2> QED BY <1>1, <2>1, <2>2
<1>5. ReadsLeft
  BY <1>4 DEF ReadsLeft
<1>6. Cut /\ up' = FALSE /\ link' = link /\ received' = received
  BY DEF LinkDown, Cut
<1> QED BY <1>5, <1>6


(* The order of the main queue when a block comes or the first one goes.   *)
LEMMA OrderAppended ==
    ASSUME Sequences, NEW b \in BlockSet, main' = Append(main, b)
    PROVE  /\ ~ IsRead(b) => (Ordered => Ordered') /\ (NoReads => NoReads')
           /\ IsRead(b) /\ OnlyReads => OnlyReads' /\ Ordered'
           /\ link' = link /\ Known /\ b.kind # "accept" => Known'
<1>1. /\ DOMAIN main = 1 .. Len(main) /\ Len(main) \in Nat
      /\ DOMAIN main' = 1 .. Len(main) + 1 /\ main'[Len(main) + 1] = b
      /\ \A k \in DOMAIN main : main'[k] = main[k]
  BY AppendShape DEF Sequences
<1>2. \A k \in DOMAIN main' : k = Len(main) + 1 \/ k \in DOMAIN main
  BY <1>1
<1>3. ASSUME ~ IsRead(b), Ordered, NEW k \in DOMAIN main', NEW l \in DOMAIN main',
             k < l, IsRead(main'[l])
      PROVE  IsRead(main'[k])
  <2>1. l \in DOMAIN main
    BY <1>1, <1>2, <1>3
  <2>2. k \in DOMAIN main
    BY <1>1, <1>3, <2>1
  <2> QED BY <1>1, <1>3, <2>1, <2>2 DEF Ordered
<1>4. ASSUME ~ IsRead(b), NoReads PROVE NoReads'
  BY <1>1, <1>2, <1>4 DEF NoReads
<1>5. ASSUME IsRead(b), OnlyReads PROVE \A k \in DOMAIN main' : IsRead(main'[k])
  BY <1>1, <1>2, <1>5 DEF OnlyReads
<1>6. ASSUME link' = link, Known, b.kind # "accept" PROVE Known'
  BY <1>1, <1>2, <1>6 DEF Known
<1> QED BY <1>3, <1>4, <1>5, <1>6 DEF Ordered, OnlyReads

(* The order of the main queue, when its first block goes. *)
LEMMA OrderTail ==
    ASSUME Sequences, main # <<>>, main' = Tail(main), link' = link
    PROVE  /\ Ordered => Ordered'
           /\ NoReads => NoReads'
           /\ OnlyReads => OnlyReads'
           /\ Known => Known'
           /\ Coming /\ ~ Accepts(main[1]) => Coming'
           /\ Coming /\ Accepts(main[1]) => main' = <<>>
           /\ Ordered /\ ~ IsRead(main[1]) => NoReads /\ NoReads'
<1>1. /\ DOMAIN main = 1 .. Len(main) /\ Len(main) \in Nat \ {0} /\ 1 \in DOMAIN main
      /\ DOMAIN main' = 1 .. Len(main) - 1 /\ Len(main') = Len(main) - 1
      /\ main' \in Seq(BlockSet)
      /\ \A k \in DOMAIN main' : k + 1 \in DOMAIN main /\ main'[k] = main[k + 1]
  BY TailShape DEF Sequences
<1>2. Ordered => Ordered'
  <2> SUFFICES ASSUME Ordered, NEW k \in DOMAIN main', NEW l \in DOMAIN main',
                      k < l, IsRead(main'[l])
               PROVE  IsRead(main'[k])
    BY DEF Ordered
  <2>1. k + 1 < l + 1 /\ k + 1 \in DOMAIN main /\ l + 1 \in DOMAIN main
    BY <1>1
  <2> QED BY <1>1, <2>1 DEF Ordered
<1>3. (NoReads => NoReads') /\ (OnlyReads => OnlyReads')
  BY <1>1 DEF NoReads, OnlyReads
<1>4. Known => Known'
  BY <1>1 DEF Known
<1>5. ASSUME Coming, ~ Accepts(main[1]) PROVE Coming'
  <2>1. Len(main) # 1
    BY <1>5 DEF Coming
  <2>2. Len(main') \in DOMAIN main' /\ Len(main') + 1 = Len(main)
    BY <1>1, <2>1
  <2>3. main'[Len(main')] = main[Len(main)]
    BY <1>1, <2>2
  <2>4. main'[Len(main')].kind = "accept" /\ main'[Len(main')].link = link'
    BY <1>5, <2>3 DEF Coming, Accepts
  <2>6. main' # <<>>
    <3>1. Len(main') # 0
      BY <1>1, <2>1
    <3>2. Len(<<>>) = 0
      OBVIOUS
    <3> QED BY <3>1, <3>2
  <2>5. ASSUME NEW k \in DOMAIN main', main'[k].kind = "accept" /\ main'[k].link = link
        PROVE  k = Len(main')
    <3>1. k + 1 \in DOMAIN main /\ Accepts(main[k + 1])
      BY <1>1, <2>5 DEF Accepts
    <3>2. k + 1 = Len(main)
      BY <1>5, <3>1 DEF Coming
    <3> QED BY <1>1, <3>2
  <2> QED BY <2>4, <2>5, <2>6 DEF Coming, Accepts
<1>6. ASSUME Coming, Accepts(main[1]) PROVE main' = <<>>
  <2>1. Len(main) = 1
    BY <1>1, <1>6 DEF Coming
  <2> QED BY <1>1, <2>1
<1>7. ASSUME Ordered, ~ IsRead(main[1]) PROVE NoReads
  <2> SUFFICES ASSUME NEW k \in DOMAIN main, IsRead(main[k])
               PROVE  FALSE
    BY DEF NoReads
  <2>1. CASE k = 1
    BY <1>7, <2>1
  <2>2. CASE k # 1
    <3>1. 1 < k
      BY <1>1, <2>2
    <3> QED BY <1>1, <1>7, <3>1 DEF Ordered
  <2> QED BY <2>1, <2>2
<1> QED BY <1>2, <1>3, <1>4, <1>5, <1>6, <1>7

(* The order of the main queue, when the link goes down. *)
LEMMA OrderDown ==
    ASSUME Sequences, link \in Nat, conn \in Nat,
           NEW how \in {"noticed", "silent", "missed"}, LinkDown(how)
    PROVE  (Ordered => Ordered') /\ (NoReads => NoReads') /\ (Known => Known')
<1>1. PICK n \in 0 .. Len(main) :
         /\ how # "noticed" => Len(main') = n
         /\ how = "noticed" => Len(main') = n + 1 /\ main'[n + 1] = DisconnectBlock
         /\ \A k \in 1 .. n : main'[k] = main[k]
  BY LinkDownType
<1>2. /\ main \in Seq(BlockSet) /\ Len(main) \in Nat /\ DOMAIN main = 1 .. Len(main)
      /\ main' \in Seq(BlockSet) /\ DOMAIN main' = 1 .. Len(main')
  BY LinkDownType DEF Sequences
<1>3. ~ IsRead(DisconnectBlock) /\ DisconnectBlock.kind # "accept"
  BY DEF IsRead, DisconnectBlock
<1>4. ASSUME NEW k \in DOMAIN main', IsRead(main'[k]) \/ main'[k].kind = "accept"
      PROVE  k \in 1 .. n /\ k \in DOMAIN main /\ main'[k] = main[k]
  <2>1. k \in 1 .. n
    <3>1. CASE how = "noticed"
      <4>1. k \in 1 .. n + 1 /\ k # n + 1
        BY <1>1, <1>2, <1>3, <1>4, <3>1
      <4> QED BY <4>1
    <3>2. CASE how # "noticed"
      BY <1>1, <1>2, <3>2
    <3> QED BY <3>1, <3>2
  <2>2. k \in DOMAIN main
    BY <1>2, <2>1
  <2> QED BY <1>1, <2>1, <2>2
<1>5. ASSUME Ordered, NEW k \in DOMAIN main', NEW l \in DOMAIN main', k < l, IsRead(main'[l])
      PROVE  IsRead(main'[k])
  <2>1. l \in 1 .. n /\ l \in DOMAIN main /\ main'[l] = main[l]
    BY <1>4, <1>5
  <2>2. k \in 1 .. n /\ k \in DOMAIN main
    BY <1>2, <1>5, <2>1
  <2>3. main'[k] = main[k]
    BY <1>1, <2>2
  <2> QED BY <1>5, <2>1, <2>2, <2>3 DEF Ordered
<1>6. link' = link
  BY DEF LinkDown
<1>7. Known => Known'
  BY <1>4, <1>6 DEF Known
<1>8. NoReads => NoReads'
  BY <1>4 DEF NoReads
<1> QED BY <1>5, <1>7, <1>8 DEF Ordered


(* What the invariant says of the types.                                   *)
LEMMA Held ==
    ASSUME IInv
    PROVE  /\ Typed /\ Sequences /\ ChannelTypes /\ ServerTypes /\ FlagTypes /\ CameraTypes
           /\ link \in Nat /\ conn \in Nat /\ num \in [Conns -> {0} \cup UserIds]
<1>1. ChannelTypes /\ ServerTypes /\ FlagTypes /\ CameraTypes /\ Sequences
  BY TypesApart DEF IInv, Frames, Sequences
<1> QED BY <1>1, ConstantsAssumption DEF Typed, ChannelTypes, ServerTypes

(* While anything is under way to the camera, or the camera has anything,  *)
(* the server has the link that is up.                                     *)
LEMMA LiveLink ==
    ASSUME IInv, toCamera # <<>> \/ \E i \in Ids : cam[i] # Nobody
    PROVE  up /\ conn = link /\ conn # 0 /\ OnlyReads /\ pendingConnectChannels = <<>>
<1>1. up /\ conn = link
  BY DEF IInv, Links, Idle
<1>2. conn # 0
  BY <1>1, Held DEF IInv, Links
<1> QED BY <1>1, <1>2 DEF IInv, Links

(* A read at the head of the main queue is of a link the server has had.   *)
LEMMA ReadAtHead ==
    ASSUME IInv, main # <<>>, IsRead(main[1])
    PROVE  conn # 0 /\ pendingConnectChannels = <<>>
<1>1. 1 \in DOMAIN main
  BY HeadBlock DEF IInv
<1>2. conn # 0
  BY <1>1 DEF IInv, Links, NoReads
<1> QED BY <1>2 DEF IInv, Links

(* A local connection that is open is the controller's and has its number. *)
LEMMA OpenOnesAreKnown ==
    ASSUME IInv, NEW c \in Conns, local[c] = "open"
    PROVE  c \in channels /\ HasNumber(c)
BY DEF IInv, Connections

(* A camera connects. *)
LEMMA ConnectsStep ==
    ASSUME IInv, Sequences', CameraConnects
    PROVE  Tables' /\ Links' /\ NeverMixed'
<1> DEFINE b == AcceptBlock(link + 1)
<1>1. /\ main' = Append(main, b) /\ b \in BlockSet /\ ~ IsRead(b)
      /\ b.kind = "accept" /\ b.link = link + 1
  BY Held, BlockTypes DEF CameraConnects, AcceptBlock, IsRead
<1> HIDE DEF b
<1>2. Cut /\ link' = link + 1 /\ up' = TRUE /\ up = FALSE
  BY Held DEF CameraConnects, Cut, FlagTypes
<1>3. /\ UNCHANGED <<local, sent, num, linked, pendingBuf, ids, connMap>>
      /\ UNCHANGED <<pendingConnectChannels, conn, channels, received, mixed>>
  BY DEF CameraConnects, localVars, channelVars, serverVars
<1>4. ReadsLeft
  BY <1>1, Held, ReadsThere
<1>5. Tables'
  BY <1>2, <1>3, <1>4, OpenOnesAreKnown, QuietStep DEF channelVars, serverVars
<1>6. /\ Ordered /\ Known /\ conn <= link /\ (conn = 0 => NoReads)
      /\ (conn # 0 => pendingConnectChannels = <<>>)
  BY DEF IInv, Links
<1>7. Ordered' /\ (conn = 0 => NoReads')
  BY <1>1, <1>6, Held, OrderAppended
<1>8. /\ DOMAIN main' = 1 .. Len(main) + 1 /\ Len(main') = Len(main) + 1 /\ Len(main) \in Nat
      /\ main' # <<>> /\ main'[Len(main) + 1] = b
      /\ \A k \in DOMAIN main : main'[k] = main[k]
      /\ DOMAIN main = 1 .. Len(main)
  BY <1>1, Held, AppendShape DEF Sequences
<1>9. \A k \in DOMAIN main' : k # Len(main') => (main'[k].kind = "accept" => main'[k].link <= link)
  <2>1. \A k \in DOMAIN main' : k # Len(main') => k \in DOMAIN main
    BY <1>8
  <2> QED BY <1>6, <1>8, <2>1 DEF Known
<1>10. Known'
  <2>1. \A k \in DOMAIN main' : main'[k].kind = "accept" => main'[k].link <= link + 1
    <3> SUFFICES ASSUME NEW k \in DOMAIN main', main'[k].kind = "accept"
                 PROVE  main'[k].link <= link + 1
      OBVIOUS
    <3>1. CASE k = Len(main')
      BY <1>1, <1>8, <3>1, Held
    <3>2. CASE k # Len(main')
      <4>1. main'[k].link \in Nat
        <5>1. main'[k] \in BlockSet
          BY DEF Sequences
        <5> QED BY <5>1 DEF BlockSet
      <4> QED BY <1>9, <3>2, <4>1, Held
    <3> QED BY <3>1, <3>2
  <2> QED BY <1>2, <2>1 DEF Known
<1>11. Coming'
  <2>1. \A k \in DOMAIN main' : k # Len(main') =>
           ~ (main'[k].kind = "accept" /\ main'[k].link = link')
    BY <1>2, <1>9, Held
  <2>2. main'[Len(main')].kind = "accept" /\ main'[Len(main')].link = link'
    BY <1>1, <1>2, <1>8
  <2> QED BY <1>8, <2>1, <2>2 DEF Coming, Accepts
<1>12. conn' <= link' /\ conn' # link' /\ link' > 0
  BY <1>2, <1>3, <1>6, Held
<1>13. Idle'
  BY <1>2 DEF Cut, Idle
<1>14. Links'
  BY <1>2, <1>3, <1>6, <1>7, <1>10, <1>11, <1>12, <1>13 DEF Links
<1>15. NeverMixed'
  BY <1>3 DEF IInv, NeverMixed
<1> QED BY <1>5, <1>14, <1>15

(* The link goes down, as the server is told or not. *)
LEMMA DownLinks ==
    ASSUME IInv, Sequences', NEW how \in {"noticed", "silent", "missed"}, LinkDown(how),
           UNCHANGED <<conn, pendingConnectChannels>>
    PROVE  Links'
<1>1. Cut /\ up' = FALSE /\ link' = link
  BY Held, ReadsDown
<1>2. Ordered' /\ Known' /\ (NoReads => NoReads')
  BY Held, OrderDown DEF IInv, Links
<1>3. Idle'
  BY <1>1 DEF Cut, Idle
<1> QED BY <1>1, <1>2, <1>3 DEF IInv, Links

(* The link is lost. *)
LEMMA LostStep ==
    ASSUME IInv, Sequences', LinkLost
    PROVE  Tables' /\ Links' /\ NeverMixed'
<1>1. PICK how \in {"noticed", "silent", "missed"} : LinkDown(how)
  BY DEF LinkLost
<1>2. /\ UNCHANGED <<local, sent, num, linked, pendingBuf, ids, connMap>>
      /\ UNCHANGED <<pendingConnectChannels, conn, channels, mixed>>
  BY DEF LinkLost, localVars, channelVars, serverVars
<1>3. ReadsLeft /\ Cut /\ received' = received
  BY <1>1, Held, ReadsDown
<1>4. Tables'
  BY <1>2, <1>3, OpenOnesAreKnown, QuietStep DEF channelVars, serverVars
<1>5. Links'
  BY <1>1, <1>2, DownLinks
<1> QED BY <1>2, <1>4, <1>5 DEF IInv, NeverMixed

(* The socket of a lost link closes, and a new link is lost with it.       *)
LEMMA ToldLinks ==
    ASSUME IInv, BelievedUp, OldSocketCloses, UNCHANGED <<conn, pendingConnectChannels>>
    PROVE  Links' /\ ReadsLeft /\ Whole /\ received' = received
<1>0. /\ main' = Append(main, DisconnectBlock) /\ up' = FALSE
      /\ UNCHANGED <<link, toCamera, cam, received>>
  BY DEF OldSocketCloses, cameraVars
<1>1. DisconnectBlock \in BlockSet /\ ~ IsRead(DisconnectBlock) /\ DisconnectBlock.kind # "accept"
  BY Held, BlockTypes DEF DisconnectBlock, IsRead
<1>2. Ordered' /\ Known' /\ (NoReads => NoReads')
  BY <1>0, <1>1, Held, OrderAppended DEF IInv, Links
<1>3. ReadsLeft
  BY <1>0, <1>1, Held, ReadsThere
<1>4. Idle'
  BY <1>0 DEF IInv, Links, Idle, BelievedUp
<1>5. Links'
  BY <1>0, <1>2, <1>4 DEF IInv, Links
<1> QED BY <1>0, <1>3, <1>5 DEF Whole

(* The server is told that a link has been lost in silence. *)
LEMMA NoticedStep ==
    ASSUME IInv, Sequences', LossNoticed
    PROVE  Tables' /\ Links' /\ NeverMixed'
<1>1. /\ UNCHANGED <<local, sent, num, linked, pendingBuf, ids, connMap>>
      /\ UNCHANGED <<pendingConnectChannels, conn, channels, mixed>>
  BY DEF LossNoticed, localVars, channelVars, serverVars
<1>2. BelievedUp /\ OldSocketCloses
  BY DEF LossNoticed
<1>3. Links' /\ ReadsLeft /\ Whole /\ received' = received
  BY <1>1, <1>2, ToldLinks
<1>4. Tables'
  BY <1>1, <1>3, OpenOnesAreKnown, QuietStep DEF channelVars, serverVars
<1> QED BY <1>1, <1>3, <1>4 DEF IInv, NeverMixed

(* Nothing happens to the links and to what is under way.                  *)
LEMMA SameLinks ==
    ASSUME IInv, UNCHANGED <<main, link, up, toCamera, cam, conn, pendingConnectChannels>>
    PROVE  Links' /\ ReadsLeft /\ Whole
<1>1. ReadsLeft
  BY Held, ReadsThere
<1>2. Links'
  <2>1. /\ Ordered' <=> Ordered
        /\ Known' <=> Known
        /\ OnlyReads' <=> OnlyReads
        /\ NoReads' <=> NoReads
    BY DEF Ordered, Known, OnlyReads, NoReads
  <2>2. (Coming' <=> Coming) /\ (Idle' <=> Idle)
    BY DEF Coming, Idle, Accepts
  <2>3. Links
    BY DEF IInv
  <2> QED BY <2>1, <2>2, <2>3 DEF Links
<1> QED BY <1>1, <1>2 DEF Whole

(* The app is paused and goes on. *)
LEMMA PauseStep ==
    ASSUME IInv, Sequences', Pause
    PROVE  Tables' /\ Links' /\ NeverMixed'
<1>1. /\ UNCHANGED <<sent, num, linked, pendingBuf, ids, connMap>>
      /\ UNCHANGED <<pendingConnectChannels, conn, mixed>>
      /\ channels' = {}
      /\ local' = [c \in Conns |-> IF c \in channels THEN "closed" ELSE local[c]]
  BY DEF Pause, channelVars, serverVars
<1>2. \A c \in Conns : /\ local'[c] = "none" => local[c] = "none"
                       /\ local'[c] = "open" => local[c] = "open" /\ c \in channels'
  BY <1>1, OpenOnesAreKnown
<1>3. Links' /\ ReadsLeft /\ (Cut \/ Whole) /\ received' = received
  <2>1. CASE LinkDown("noticed")
    BY <1>1, <2>1, Held, ReadsDown, DownLinks
  <2>2. CASE BelievedUp /\ OldSocketCloses
    BY <1>1, <2>2, ToldLinks
  <2>3. CASE UNCHANGED <<main, linkVars, cameraVars, deaf>>
    <3>1. UNCHANGED <<main, link, up, toCamera, cam, received>>
      BY <2>3 DEF linkVars, cameraVars
    <3> QED BY <1>1, <3>1, SameLinks
  <2> QED BY <2>1, <2>2, <2>3 DEF Pause
<1>4. Tables'
  BY <1>1, <1>2, <1>3, QuietStep DEF channelVars, serverVars
<1> QED BY <1>1, <1>3, <1>4 DEF IInv, NeverMixed

(* The controller starts again. *)
LEMMA ResumeStep ==
    ASSUME IInv, Sequences', Resume
    PROVE  Tables' /\ Links' /\ NeverMixed'
<1>1. /\ UNCHANGED <<local, sent, num, linked, pendingBuf, ids, connMap, link, up, main>>
      /\ UNCHANGED <<pendingConnectChannels, conn, channels, mixed, toCamera, cam, received>>
  BY DEF Resume, localVars, channelVars, serverVars, linkVars, cameraVars
<1>2. Links' /\ ReadsLeft /\ Whole
  BY <1>1, SameLinks
<1>3. Tables'
  BY <1>1, <1>2, OpenOnesAreKnown, QuietStep DEF channelVars, serverVars
<1> QED BY <1>1, <1>2, <1>3 DEF IInv, NeverMixed

(* The links when the first block has been handled and the server keeps    *)
(* its link.                                                               *)
LEMMA HandledLinks ==
    ASSUME IInv, main # <<>>, main' = Tail(main), IsRead(main[1]),
           UNCHANGED <<link, up, conn, pendingConnectChannels>>,
           ~ up \/ conn # link => toCamera' = toCamera, cam' = cam
    PROVE  Links' /\ ReadsLeft
<1>1. ReadsLeft
  BY Held, ReadsThere
<1>2. /\ Ordered' /\ Known'
      /\ NoReads => NoReads'
      /\ OnlyReads => OnlyReads'
      /\ Coming => Coming'
  <2>1. ~ Accepts(main[1])
    BY DEF Accepts, IsRead
  <2> QED BY <2>1, Held, OrderTail DEF IInv, Links
<1>3. ~ (up /\ conn = link) => Idle'
  BY DEF IInv, Links, Idle
<1> QED BY <1>1, <1>2, <1>3 DEF IInv, Links

(* Data for the app. *)
LEMMA DataStep ==
    ASSUME IInv, Sequences', HandleTransportData
    PROVE  Tables' /\ Links' /\ NeverMixed'
<1>1. /\ UNCHANGED <<local, sent, num, linked, pendingBuf, ids, connMap, link, up>>
      /\ UNCHANGED <<pendingConnectChannels, conn, channels, toCamera, cam, received>>
      /\ main # <<>> /\ Head(main).kind = "read" /\ main' = Tail(main)
      /\ Received.type = Transport
      /\ mixed' = (mixed \/ ( /\ connMap[Received.channel] \in channels
                              /\ connMap[Received.channel] # Head(main).frame.owner))
  BY DEF HandleTransportData, localVars, channelVars, serverVars, linkVars, cameraVars, Reads
<1>2. Head(main) = main[1] /\ 1 \in DOMAIN main /\ IsRead(main[1]) /\ FromCamera(main[1].frame)
  BY <1>1, HeadBlock DEF IInv, IsRead
<1>3. Links' /\ ReadsLeft
  BY <1>1, <1>2, HandledLinks
<1>4. Tables'
  BY <1>1, <1>3, OpenOnesAreKnown, QuietStep DEF channelVars, serverVars, Whole
<1> DEFINE i == Received.channel
           c == main[1].frame.owner
<1>5. i \in UserIds /\ Carries(main[1].frame, i, 0)
  BY <1>1, <1>2, ReceivedMeans DEF Received
<1> HIDE DEF i
<1>6. About(main[1].frame, i)
  BY <1>2, <1>5, AboutMeans
<1>7. Its(c, i)
  BY <1>2, <1>5, <1>6 DEF IInv, Owners
<1>8. connMap[i] \in {c, Nobody} /\ Nobody \notin channels
  BY <1>7, Held, NumberSets DEF Its, FlagTypes
<1>9. ~ mixed'
  <2>1. ~ (connMap[i] \in channels /\ connMap[i] # Head(main).frame.owner)
    BY <1>2, <1>8
  <2>2. ~ mixed
    BY DEF IInv, NeverMixed
  <2> QED BY <1>1, <2>1, <2>2 DEF i
<1> QED BY <1>3, <1>4, <1>9 DEF NeverMixed


(* Channels are closed. *)
LEMMA ClosesIs ==
    ASSUME IInv, NEW cs, Closes(cs), UNCHANGED <<sent, received>>
    PROVE  /\ \A c \in Conns :
                 /\ linked'[c] => linked[c]
                 /\ pendingBuf'[c] \in {pendingBuf[c], <<>>}
                 /\ local'[c] = "none" => local[c] = "none"
                 /\ local'[c] = "open" => local[c] = "open" /\ c \notin cs /\ c \in channels'
           /\ Kept'
<1>1. ASSUME NEW c \in Conns
      PROVE  /\ linked'[c] <=> linked[c] /\ c \notin cs
             /\ pendingBuf'[c] = IF c \in cs THEN <<>> ELSE pendingBuf[c]
             /\ local'[c] = IF c \in cs \cap channels THEN "closed" ELSE local[c]
             /\ channels' = channels \ cs
  BY DEF Closes
<1>2. ASSUME NEW c \in Conns
      PROVE  /\ local'[c] = "none" => local[c] = "none"
             /\ local'[c] = "open" => local[c] = "open" /\ c \notin cs /\ c \in channels'
  <2>1. local'[c] = "none" => local[c] = "none"
    BY <1>1
  <2>2. ASSUME local'[c] = "open" PROVE local[c] = "open" /\ c \notin cs /\ c \in channels'
    <3>1. local[c] = "open" /\ ~ (c \in cs \cap channels)
      BY <1>1, <2>2
    <3>2. c \in channels
      BY <3>1, OpenOnesAreKnown
    <3> QED BY <1>1, <3>1, <3>2
  <2> QED BY <2>1, <2>2
<1>3. Kept'
  <2> SUFFICES ASSUME NEW c \in Conns
               PROVE  /\ \A k \in DOMAIN pendingBuf'[c] : pendingBuf'[c][k] = k
                      /\ Len(pendingBuf'[c]) <= sent[c] /\ Len(received[c]) <= sent[c]
                      /\ linked'[c] => pendingBuf'[c] = <<>>
                      /\ ~ linked'[c] /\ local'[c] = "open" => Len(pendingBuf'[c]) = sent[c]
    BY DEF Kept
  <2>1. /\ \A k \in DOMAIN pendingBuf[c] : pendingBuf[c][k] = k
        /\ Len(pendingBuf[c]) <= sent[c] /\ Len(received[c]) <= sent[c]
        /\ linked[c] => pendingBuf[c] = <<>>
        /\ ~ linked[c] /\ local[c] = "open" => Len(pendingBuf[c]) = sent[c]
    BY DEF IInv, Kept
  <2>2. CASE c \in cs
    <3>1. pendingBuf'[c] = <<>> /\ ~ linked'[c] /\ local'[c] # "open"
      BY <1>1, <1>2, <2>2
    <3>2. Len(<<>>) = 0 /\ DOMAIN <<>> = {}
      OBVIOUS
    <3>3. 0 <= sent[c]
      BY Held DEF ChannelTypes
    <3> QED BY <2>1, <3>1, <3>2, <3>3
  <2>3. CASE c \notin cs
    BY <1>1, <1>2, <2>1, <2>3
  <2> QED BY <2>2, <2>3
<1>4. \A c \in Conns : (linked'[c] => linked[c]) /\ pendingBuf'[c] \in {pendingBuf[c], <<>>}
  BY <1>1
<1> QED BY <1>2, <1>3, <1>4

(* The server is told that its link is lost. *)
LEMMA DisconnectedStep ==
    ASSUME IInv, Sequences', HandleDisconnected
    PROVE  Tables' /\ Links' /\ NeverMixed'
<1>1. /\ UNCHANGED <<sent, received, num, toCamera, cam, link, up, mixed>>
      /\ main # <<>> /\ Head(main).kind = "disconnect" /\ main' = Tail(main)
      /\ Closes(InMap)
      /\ pendingConnectChannels' = <<>> /\ conn' = 0
      /\ connMap' = [i \in Ids |-> Nobody]
      /\ ids' = [i \in Ids |-> i < kUserChannelBase /\ ids[i]]
  BY DEF HandleDisconnected, HandleDisconnectedOf, linkVars, cameraVars
<1>2. Head(main) = main[1] /\ 1 \in DOMAIN main /\ ~ IsRead(main[1]) /\ ~ Accepts(main[1])
  BY <1>1, HeadBlock DEF IInv, IsRead, Accepts
<1>3. /\ NoReads' /\ Ordered' /\ Known'
      /\ Coming => Coming'
  BY <1>1, <1>2, Held, OrderTail DEF IInv, Links
<1>4. ~ (up /\ conn = link)
  BY <1>2 DEF IInv, Links, OnlyReads
<1>5. Idle /\ Idle'
  BY <1>1, <1>4 DEF IInv, Links, Idle
<1>6. up => Coming' /\ link > 0
  BY <1>3, <1>4 DEF IInv, Links
<1>7. Links'
  BY <1>1, <1>3, <1>5, <1>6, Held DEF Links
<1>8. Fewer
  BY <1>1, Held, ReadsThere, FramesCut DEF Fewer, Whole
<1>9. Frames'
  BY <1>8, FewerFrames DEF IInv
<1>10. Numbers'
  <2> SUFFICES \A i \in UserIds : Unknown(i)' /\ NothingRead(i, 1)'
    BY <1>8, FewerNumbers DEF IInv
  <2> TAKE i \in UserIds
  <2>1. NothingRead(i, 1)'
    BY <1>3 DEF NothingRead, NoReads
  <2>2. cam'[i] = Nobody /\ toCamera' = <<>>
    BY <1>5, NumberSets DEF Idle
  <2> QED BY <2>1, <2>2 DEF Unknown, NotOpened
<1>11. \A i \in Ids : connMap'[i] = Nobody
  BY <1>1
<1>12. Owners'
  BY <1>1, <1>8, <1>11, FewerOwners DEF IInv
<1>13. \A c : ~ Waits(c)'
  BY <1>1 DEF Waits
<1>14. /\ \A c \in Conns :
             /\ linked'[c] => linked[c]
             /\ pendingBuf'[c] \in {pendingBuf[c], <<>>}
             /\ local'[c] = "none" => local[c] = "none"
             /\ local'[c] = "open" => local[c] = "open" /\ c \notin InMap /\ c \in channels'
       /\ Kept'
  BY <1>1, ClosesIs
<1>15. Begins'
  BY <1>1, <1>8, <1>13, <1>14, Held, FewerBegins DEF IInv
<1>16. Streams'
  BY <1>1, <1>5, Held, NoStreams DEF Idle
<1>17. InOrder'
  BY <1>1 DEF IInv, InOrder
<1>18. Connections'
  <2>1. \A c \in Conns : local'[c] = "none" => Untouched(c)'
    <3> SUFFICES ASSUME NEW c \in Conns, local'[c] = "none"
                 PROVE  Untouched(c)'
      OBVIOUS
    <3>1. Untouched(c)
      BY <1>14 DEF IInv, Connections
    <3> QED BY <1>1, <1>8, <1>11, <1>13, <1>14, <3>1, FewerUntouched
  <2>2. ASSUME NEW c \in Conns, local'[c] = "open"
        PROVE  c \in channels' /\ HasNumber(c)'
    <3>1. local[c] = "open" /\ c \notin InMap /\ c \in channels'
      BY <1>14, <2>2
    <3>2. HasNumber(c)
      BY <3>1, OpenOnesAreKnown
    <3>3. num[c] = 0
      BY <3>1, <3>2, Held, NumberSets DEF HasNumber, InMap
    <3> QED BY <1>1, <3>1, <3>3 DEF HasNumber
  <2>3. \A k, l \in DOMAIN pendingConnectChannels' :
           pendingConnectChannels'[k] = pendingConnectChannels'[l] => k = l
    BY <1>1
  <2> QED BY <1>13, <2>1, <2>2, <2>3 DEF Connections
<1> QED BY <1>1, <1>7, <1>9, <1>10, <1>12, <1>14, <1>15, <1>16, <1>17, <1>18
        DEF IInv, NeverMixed, Tables


(* The camera says that a channel is down. *)
LEMMA DownStep ==
    ASSUME IInv, Sequences', HandleLinkDown
    PROVE  Tables' /\ Links' /\ NeverMixed'
<1>0. PICK i : i = Received.channel_id
  OBVIOUS
<1> DEFINE cs == {connMap[i]} \ {Nobody}
<1>1. /\ UNCHANGED <<sent, received, num, toCamera, cam, link, up, mixed>>
      /\ UNCHANGED <<connMap, pendingConnectChannels, conn>>
      /\ main # <<>> /\ Head(main).kind = "read" /\ main' = Tail(main)
      /\ Received.type = kPacketTypeLinkDown
      /\ Closes(cs)
      /\ ids' = [ids EXCEPT ![i] = FALSE]
  BY <1>0 DEF HandleLinkDown, Reads, linkVars, cameraVars
<1>2. Head(main) = main[1] /\ 1 \in DOMAIN main /\ IsRead(main[1]) /\ FromCamera(main[1].frame)
  BY <1>1, HeadBlock DEF IInv, IsRead
<1>3. i \in Ids /\ Downs(main[1].frame, i)
  BY <1>0, <1>1, <1>2, ReceivedMeans DEF Received
<1>4. Links' /\ ReadsLeft
  BY <1>1, <1>2, HandledLinks
<1>5. Fewer
  BY <1>1, <1>4, Held, FramesCut DEF Fewer, Whole
<1>6. Frames'
  BY <1>5, FewerFrames DEF IInv
<1>7. \A j \in Ids : j # i => ids'[j] = ids[j]
  BY <1>1, Held DEF ServerTypes
<1>8. ASSUME i \in UserIds PROVE Unknown(i)' /\ NothingRead(i, 1)'
  <2>1. Unknown(i) /\ NothingRead(i, 1 + 1)
    BY <1>2, <1>3, <1>8 DEF IInv, Numbers
  <2>2. Unknown(i)'
    BY <1>3, <1>5, <2>1, FewerAbout
  <2>3. /\ \A k \in DOMAIN main' : k + 1 \in DOMAIN main /\ main'[k] = main[k + 1]
        /\ \A k \in DOMAIN main' : k + 1 >= 1 + 1
    BY <1>1, Held, TailShape DEF Sequences
  <2>4. NothingRead(i, 1)'
    BY <2>1, <2>3 DEF NothingRead
  <2> QED BY <2>2, <2>4
<1>9. Numbers'
  <2>1. \A j \in UserIds : ~ ids'[j] => ~ ids[j] \/ (Unknown(j)' /\ NothingRead(j, 1)')
    BY <1>7, <1>8, NumberSets
  <2> QED BY <1>5, <2>1, FewerNumbers DEF IInv
<1>10. Owners'
  BY <1>1, <1>5, FewerOwners DEF IInv
<1>11. /\ \A c \in Conns :
             /\ linked'[c] => linked[c]
             /\ pendingBuf'[c] \in {pendingBuf[c], <<>>}
             /\ local'[c] = "none" => local[c] = "none"
             /\ local'[c] = "open" => local[c] = "open" /\ c \notin cs /\ c \in channels'
       /\ Kept'
  BY <1>1, ClosesIs
<1>12. \A c : Waits(c)' <=> Waits(c)
  BY <1>1 DEF Waits
<1>13. Begins'
  BY <1>1, <1>5, <1>11, <1>12, Held, FewerBegins DEF IInv
<1>14. Streams'
  BY <1>1, <1>5, <1>11, Held, SameStreams DEF IInv, Fewer
<1>15. InOrder'
  BY <1>1 DEF IInv, InOrder
<1>16. pendingConnectChannels = <<>>
  BY <1>1, <1>2, ReadAtHead
<1>17. Connections'
  <2>1. \A c \in Conns : local'[c] = "none" => Untouched(c)'
    <3> SUFFICES ASSUME NEW c \in Conns, local'[c] = "none"
                 PROVE  Untouched(c)'
      OBVIOUS
    <3>1. Untouched(c)
      BY <1>11 DEF IInv, Connections
    <3> QED BY <1>1, <1>5, <1>11, <1>12, <3>1, FewerUntouched
  <2>2. ASSUME NEW c \in Conns, local'[c] = "open"
        PROVE  c \in channels' /\ HasNumber(c)'
    <3>1. local[c] = "open" /\ c \notin cs /\ c \in channels'
      BY <1>11, <2>2
    <3>2. HasNumber(c)
      BY <3>1, OpenOnesAreKnown
    <3>3. ASSUME num[c] # 0 PROVE connMap[num[c]] = c /\ ids'[num[c]]
      <4>1. connMap[num[c]] = c /\ ids[num[c]] /\ num[c] \in Ids
        BY <3>2, <3>3, Held, NumberSets DEF HasNumber
      <4>2. num[c] # i
        BY <3>1, <4>1, NumberSets
      <4> QED BY <1>7, <4>1, <4>2
    <3> QED BY <1>1, <3>1, <3>3 DEF HasNumber
  <2>3. \A c : ~ Waits(c)'
    BY <1>1, <1>16 DEF Waits
  <2>4. \A k, l \in DOMAIN pendingConnectChannels' :
           pendingConnectChannels'[k] = pendingConnectChannels'[l] => k = l
    BY <1>1, <1>16
  <2> QED BY <2>1, <2>2, <2>3, <2>4 DEF Connections
<1> QED BY <1>1, <1>4, <1>6, <1>9, <1>10, <1>11, <1>13, <1>14, <1>15, <1>17
        DEF IInv, NeverMixed, Tables

(* The server takes the socket of a camera that has connected. *)
LEMMA AcceptStep ==
    ASSUME IInv, Sequences', DidAcceptNewSocket
    PROVE  Tables' /\ Links' /\ NeverMixed'
<1> DEFINE n == main[1].link
           s == pendingConnectChannels
<1>1. /\ UNCHANGED <<local, sent, num, linked, pendingBuf, ids, connMap, channels, link, up>>
      /\ UNCHANGED <<cam, received, mixed>>
      /\ main # <<>> /\ Head(main).kind = "accept" /\ main' = Tail(main)
      /\ conn' = Head(main).link /\ pendingConnectChannels' = <<>>
      /\ toCamera' = Written(Head(main).link, Announced(s))
  BY DEF DidAcceptNewSocket, localVars, channelVars, linkVars
<1>2. /\ Head(main) = main[1] /\ 1 \in DOMAIN main /\ ~ IsRead(main[1])
      /\ main[1].kind = "accept" /\ n \in Nat
  BY <1>1, HeadBlock DEF IInv, IsRead
<1>3. /\ NoReads' /\ Ordered' /\ Known' /\ NoReads
      /\ Coming /\ ~ Accepts(main[1]) => Coming'
      /\ Coming /\ Accepts(main[1]) => main' = <<>>
  BY <1>1, <1>2, Held, OrderTail DEF IInv, Links
<1>4. ~ (up /\ conn = link)
  BY <1>2 DEF IInv, Links, OnlyReads
<1>5. toCamera = <<>> /\ \A i \in Ids : cam[i] = Nobody /\ cam'[i] = Nobody
  BY <1>1, <1>4 DEF IInv, Links, Idle
<1>6. s \in Seq(Conns) /\ Announced(s) \in Seq(FrameSet)
  BY Held, AnnouncedIs DEF ServerTypes
<1>7. toCamera' = IF up /\ n = link THEN Announced(s) ELSE <<>>
  BY <1>1, <1>2, <1>5, <1>6 DEF Written
<1>8. Links'
  <2>1. n <= link
    BY <1>2 DEF IInv, Links, Known
  <2>2. up => Coming
    BY <1>4 DEF IInv, Links
  <2>3. ASSUME up, n = link PROVE OnlyReads'
    <3>1. main' = <<>>
      BY <1>2, <1>3, <2>2, <2>3 DEF Accepts
    <3> QED BY <3>1 DEF OnlyReads
  <2>4. ASSUME up, n # link PROVE Coming'
    BY <1>2, <1>3, <2>2, <2>4 DEF Accepts
  <2>5. ASSUME ~ (up /\ n = link) PROVE Idle'
    BY <1>5, <1>7, <2>5 DEF Idle
  <2>6. up' = up /\ link' = link /\ conn' = n /\ (up => link > 0) /\ pendingConnectChannels' = <<>>
    BY <1>1, <1>2 DEF IInv, Links
  <2> QED BY <1>3, <2>1, <2>3, <2>4, <2>5, <2>6 DEF Links
<1>9. ASSUME NEW k \in DOMAIN toCamera'
      PROVE  /\ k \in DOMAIN s /\ s[k] \in Conns /\ toCamera'[k].owner = s[k] /\ Waits(s[k])
             /\ Opens(toCamera'[k], num[s[k]]) /\ num[s[k]] \in Ids
             /\ HasNumber(s[k])
  <2>1. toCamera' = Announced(s)
    BY <1>7, <1>9
  <2>2. k \in DOMAIN s /\ Waits(s[k])
    BY <1>6, <1>9, <2>1, Held, AnnouncedIs DEF Waits
  <2>3. /\ s[k] \in Conns /\ toCamera'[k].owner = s[k]
        /\ Opens(toCamera'[k], num[s[k]]) /\ num[s[k]] \in Ids
    BY <1>6, <2>1, <2>2, Held, AnnouncedIs
  <2>4. HasNumber(s[k])
    BY <2>2, <2>3 DEF IInv, Connections
  <2> QED BY <2>2, <2>3, <2>4
<1> HIDE DEF s, n
<1>10. ASSUME NEW k \in DOMAIN toCamera', NEW i \in UserIds, Opens(toCamera'[k], i)
       PROVE  num[s[k]] = i /\ connMap[i] = s[k] /\ ids[i]
  <2>1. num[s[k]] = i
    BY <1>9, <1>10, OneMeaning
  <2> QED BY <1>9, <2>1, NumberSets DEF HasNumber
<1>11. \A k \in DOMAIN toCamera' : \A i, m : ~ Carries(toCamera'[k], i, m)
  BY <1>9, OneMeaning
<1>12. Frames'
  <2>1. ASSUME NEW k \in DOMAIN toCamera'
        PROVE  /\ toCamera'[k].owner \in Conns
               /\ \E i \in Ids : Opens(toCamera'[k], i)
    BY <1>9
  <2>2. (\A k \in DOMAIN toCamera : ToCamera(toCamera[k]))'
    BY <2>1 DEF ToCamera, Opens, Deletes, Carries, Says
  <2>3. (\A k \in DOMAIN main : IsRead(main[k]) => FromCamera(main[k].frame))'
    BY <1>3 DEF NoReads
  <2> QED BY <2>2, <2>3 DEF Frames, Sequences
<1>13. Numbers'
  <2> SUFFICES ASSUME NEW i \in UserIds
               PROVE  /\ ~ ids'[i] => Unknown(i)' /\ NothingRead(i, 1)'
                      /\ \A k \in DOMAIN main' : IsRead(main'[k]) /\ Downs(main'[k].frame, i) =>
                            Unknown(i)' /\ NothingRead(i, k + 1)'
                      /\ cam'[i] # Nobody => NotOpened(i)'
                      /\ \A k, l \in DOMAIN toCamera' :
                            Opens(toCamera'[k], i) /\ Opens(toCamera'[l], i) => k = l
                      /\ \A k, l \in DOMAIN toCamera', m \in 1 .. MaxData :
                            Carries(toCamera'[k], i, m) /\ Opens(toCamera'[l], i) => k < l
    BY DEF Numbers
  <2>1. NothingRead(i, 1)'
    BY <1>3 DEF NothingRead, NoReads
  <2>2. cam'[i] = Nobody
    BY <1>5, NumberSets
  <2>3. ~ ids'[i] => NotOpened(i)'
    BY <1>1, <1>10 DEF NotOpened
  <2>4. ASSUME NEW k \in DOMAIN toCamera', NEW l \in DOMAIN toCamera',
               Opens(toCamera'[k], i), Opens(toCamera'[l], i)
        PROVE  k = l
    <3>1. s[k] = s[l] /\ k \in DOMAIN s /\ l \in DOMAIN s
      BY <1>9, <1>10, <2>4
    <3> QED BY <3>1 DEF IInv, Connections, s
  <2> QED BY <1>3, <1>11, <2>1, <2>2, <2>3, <2>4 DEF Unknown, NoReads
<1>14. Owners'
  <2>1. \A i \in Ids : connMap'[i] # Nobody => num'[connMap'[i]] = i
    BY <1>1 DEF IInv, Owners
  <2>2. ASSUME NEW i \in UserIds, NEW k \in DOMAIN toCamera', Opens(toCamera'[k], i)
        PROVE  ItsThen(toCamera'[k].owner, i)
    BY <1>1, <1>9, <1>10, <2>2 DEF ItsThen
  <2>3. \A i \in UserIds : cam'[i] = Nobody
    BY <1>5, NumberSets
  <2> QED BY <1>3, <1>11, <2>1, <2>2, <2>3 DEF Owners, Its, ItsThen, NoReads
<1>15. \A c : ~ Waits(c)'
  BY <1>1 DEF Waits
<1>16. Connections'
  <2>1. ASSUME NEW c \in Conns, local'[c] = "none" PROVE Untouched(c)'
    <3>1. Untouched(c)
      BY <1>1, <2>1 DEF IInv, Connections
    <3>2. \A k \in DOMAIN toCamera' : toCamera'[k].owner # c
      BY <1>9, <3>1 DEF Untouched
    <3>3. \A i \in Ids : connMap'[i] # c /\ cam'[i] # c
      BY <1>1, <3>1 DEF Untouched
    <3> QED BY <1>1, <1>3, <1>15, <3>1, <3>2, <3>3 DEF Untouched, NoReads
  <2>2. \A c : HasNumber(c)' <=> HasNumber(c)
    BY <1>1 DEF HasNumber
  <2>3. \A k, l \in DOMAIN pendingConnectChannels' :
           pendingConnectChannels'[k] = pendingConnectChannels'[l] => k = l
    BY <1>1
  <2> QED BY <1>1, <1>15, <2>1, <2>2, <2>3 DEF Connections, IInv
<1>17. Begins'
  <2> SUFFICES ASSUME NEW c \in Conns, num[c] # 0, NEW k \in DOMAIN toCamera',
                      toCamera'[k].owner = c
               PROVE  Silent(c)' /\ NotRisen(c)' /\ cam'[num'[c]] # c
    BY <1>1, <1>3, <1>15 DEF Begins, Rises, NoReads
  <2>1. Waits(c)
    BY <1>9
  <2>2. Silent(c) /\ cam[num[c]] # c
    BY <2>1 DEF IInv, Begins
  <2>3. Silent(c)'
    BY <1>1, <1>11, <2>2 DEF Silent, Chunk
  <2>4. NotRisen(c)'
    BY <1>3 DEF NotRisen, Rises, NoReads
  <2> QED BY <1>1, <2>2, <2>3, <2>4
<1>18. Streams'
  BY <1>1, <1>5, Held, NoStreams
<1>19. Kept' /\ InOrder'
  BY <1>1 DEF IInv, InOrder, Kept
<1> QED BY <1>1, <1>8, <1>12, <1>13, <1>14, <1>16, <1>17, <1>18, <1>19
        DEF IInv, NeverMixed, Tables


-----------------------------------------------------------------------------
(* Steps that put frames of a connection behind those that are under way.  *)

(* What is written to a link comes last, or does not arrive.               *)
LEMMA WrittenIs ==
    ASSUME toCamera \in Seq(FrameSet), NEW t \in Seq(FrameSet), NEW n,
           toCamera' = Written(n, t)
    PROVE  /\ \A k \in DOMAIN toCamera : k \in DOMAIN toCamera' /\ toCamera'[k] = toCamera[k]
           /\ \A k \in DOMAIN toCamera' : k \notin DOMAIN toCamera =>
                 /\ \A l \in DOMAIN toCamera : l < k
                 /\ k - Len(toCamera) \in DOMAIN t /\ toCamera'[k] = t[k - Len(toCamera)]
                 /\ up /\ n = link
           /\ up /\ n = link => \A k \in DOMAIN t :
                 /\ k + Len(toCamera) \in DOMAIN toCamera'
                 /\ toCamera'[k + Len(toCamera)] = t[k]
<1> DEFINE a == Len(toCamera)
           b == Len(t)
<1>1. /\ a \in Nat /\ DOMAIN toCamera = 1 .. a
      /\ b \in Nat /\ DOMAIN t = 1 .. b
  BY LenProperties
<1>2. CASE ~ (up /\ n = link)
  <2>1. toCamera' = toCamera
    BY <1>2 DEF Written
  <2> QED BY <1>2, <2>1
<1>3. CASE up /\ n = link
  <2>1. toCamera' = toCamera \o t
    BY <1>3 DEF Written
  <2> HIDE DEF a, b
  <2>2. /\ toCamera' \in Seq(FrameSet) /\ Len(toCamera') = a + b
        /\ \A k \in 1 .. a + b : toCamera'[k] = IF k <= a THEN toCamera[k] ELSE t[k - a]
    BY <2>1, ConcatProperties DEF a, b
  <2>3. DOMAIN toCamera' = 1 .. a + b
    BY <2>2, LenProperties
  <2>4. \A k \in DOMAIN toCamera : k \in DOMAIN toCamera' /\ toCamera'[k] = toCamera[k]
    BY <1>1, <2>2, <2>3
  <2>5. \A k \in DOMAIN toCamera' : k \notin DOMAIN toCamera =>
           /\ \A l \in DOMAIN toCamera : l < k
           /\ k - a \in DOMAIN t /\ toCamera'[k] = t[k - a]
    <3> SUFFICES ASSUME NEW k \in 1 .. a + b, k \notin 1 .. a
                 PROVE  /\ \A l \in DOMAIN toCamera : l < k
                        /\ k - a \in DOMAIN t /\ toCamera'[k] = t[k - a]
      BY <1>1, <2>3
    <3>1. ~ (k <= a) /\ k - a \in 1 .. b
      BY <1>1
    <3>2. toCamera'[k] = t[k - a]
      BY <2>2, <3>1
    <3> QED BY <1>1, <3>1, <3>2
  <2>6. \A k \in DOMAIN t : k + a \in DOMAIN toCamera' /\ toCamera'[k + a] = t[k]
    <3> SUFFICES ASSUME NEW k \in 1 .. b
                 PROVE  k + a \in DOMAIN toCamera' /\ toCamera'[k + a] = t[k]
      BY <1>1
    <3>1. ~ (k + a <= a) /\ k + a \in 1 .. a + b /\ (k + a) - a = k
      BY <1>1
    <3> QED BY <2>2, <2>3, <3>1
  <2> QED BY <1>3, <2>4, <2>5, <2>6 DEF a
<1> QED BY <1>2, <1>3

(* The new frames delete a channel, or carry chunks of one that is not to  *)
(* be opened any more.                                                     *)
Brings(k, c) ==
    /\ num[c] \in UserIds /\ connMap[num[c]] = c /\ NotOpened(num[c])
    /\ \E n \in 1 .. MaxData : Carries(toCamera'[k], num[c], n)
Behind(c) ==
    /\ \A k \in DOMAIN toCamera : k \in DOMAIN toCamera' /\ toCamera'[k] = toCamera[k]
    /\ \A k \in DOMAIN toCamera' : k \notin DOMAIN toCamera =>
          toCamera'[k].owner = c /\ \A l \in DOMAIN toCamera : l < k
Added(c) ==
    /\ Behind(c)
    /\ \A k \in DOMAIN toCamera' : k \notin DOMAIN toCamera =>
          (\E j \in Ids : Deletes(toCamera'[k], j)) \/ Brings(k, c)

(* The frames stay such frames, when frames of a connection are added. *)
LEMMA AddedFrames ==
    ASSUME Frames, Sequences', NEW c \in Conns, Added(c), ReadsLeft
    PROVE  Frames'
<1>1. PICK t \in Nat : \A k \in DOMAIN main' :
         IsRead(main'[k]) => k + t \in DOMAIN main /\ main'[k] = main[k + t]
  BY DEF ReadsLeft
<1>2. \A k \in DOMAIN toCamera' : ToCamera(toCamera'[k])
  <2> SUFFICES ASSUME NEW k \in DOMAIN toCamera'
               PROVE  ToCamera(toCamera'[k])
    OBVIOUS
  <2>1. CASE k \in DOMAIN toCamera
    BY <2>1 DEF Added, Behind, Frames
  <2>2. CASE k \notin DOMAIN toCamera
    BY <2>2 DEF Added, Behind, Brings, ToCamera
  <2> QED BY <2>1, <2>2
<1>3. \A k \in DOMAIN main' : IsRead(main'[k]) => FromCamera(main'[k].frame)
  BY <1>1 DEF Frames
<1>4. (\A k \in DOMAIN toCamera : ToCamera(toCamera[k]))'
  BY <1>2 DEF ToCamera, Opens, Deletes, Carries, Says
<1>5. (\A k \in DOMAIN main : IsRead(main[k]) => FromCamera(main[k].frame))'
  BY <1>3 DEF FromCamera, IsRead, Ups, Downs, Carries, Says
<1> QED BY <1>4, <1>5 DEF Frames, Sequences

(* New frames open nothing. *)
LEMMA AddedOpen ==
    ASSUME NEW c, Added(c), NEW i, NEW k \in DOMAIN toCamera'
    PROVE  /\ Opens(toCamera'[k], i) => k \in DOMAIN toCamera /\ Opens(toCamera[k], i)
           /\ \A n : Carries(toCamera'[k], i, n) =>
                 \/ k \in DOMAIN toCamera /\ Carries(toCamera[k], i, n)
                 \/ /\ k \notin DOMAIN toCamera /\ toCamera'[k].owner = c
                    /\ i = num[c] /\ num[c] \in UserIds
                    /\ connMap[num[c]] = c /\ NotOpened(num[c])
<1>1. CASE k \in DOMAIN toCamera
  BY <1>1 DEF Added, Behind
<1>2. CASE k \notin DOMAIN toCamera
  <2>1. toCamera'[k].owner = c /\ ((\E j \in Ids : Deletes(toCamera'[k], j)) \/ Brings(k, c))
    BY <1>2 DEF Added, Behind
  <2>2. CASE \E j \in Ids : Deletes(toCamera'[k], j)
    BY <2>2, OneMeaning
  <2>3. CASE Brings(k, c)
    BY <1>2, <2>1, <2>3, OneMeaning DEF Brings
  <2> QED BY <2>1, <2>2, <2>3
<1> QED BY <1>1, <1>2

(* The numbers stay right, when frames of a connection are added. *)
LEMMA AddedNumbers ==
    ASSUME Numbers, Sequences, Sequences', NEW c, Added(c), ReadsLeft, cam' = cam, ids' = ids
    PROVE  Numbers'
<1> SUFFICES ASSUME NEW i \in UserIds
             PROVE  /\ ~ ids'[i] => Unknown(i)' /\ NothingRead(i, 1)'
                    /\ \A k \in DOMAIN main' : IsRead(main'[k]) /\ Downs(main'[k].frame, i) =>
                          Unknown(i)' /\ NothingRead(i, k + 1)'
                    /\ cam'[i] # Nobody => NotOpened(i)'
                    /\ \A k, l \in DOMAIN toCamera' :
                          Opens(toCamera'[k], i) /\ Opens(toCamera'[l], i) => k = l
                    /\ \A k, l \in DOMAIN toCamera', n \in 1 .. MaxData :
                          Carries(toCamera'[k], i, n) /\ Opens(toCamera'[l], i) => k < l
  BY DEF Numbers
<1>1. NotOpened(i) => NotOpened(i)'
  BY AddedOpen DEF NotOpened
<1>2. Unknown(i) => Unknown(i)'
  BY <1>1 DEF Unknown
<1>3. ~ ids'[i] => Unknown(i)' /\ NothingRead(i, 1)'
  BY <1>2, ReadsNumbers DEF Numbers
<1>4. ASSUME NEW k \in DOMAIN main', IsRead(main'[k]), Downs(main'[k].frame, i)
      PROVE  Unknown(i)' /\ NothingRead(i, k + 1)'
  <2>1. PICK j \in DOMAIN main : /\ IsRead(main[j]) /\ Downs(main[j].frame, i)
                                 /\ NothingRead(i, j + 1) => NothingRead(i, k + 1)'
    BY <1>4, ReadsNumbers
  <2> QED BY <1>2, <2>1 DEF Numbers
<1>5. cam'[i] # Nobody => NotOpened(i)'
  BY <1>1 DEF Numbers
<1>6. \A k, l \in DOMAIN toCamera' : Opens(toCamera'[k], i) /\ Opens(toCamera'[l], i) => k = l
  BY AddedOpen DEF Numbers
<1>7. ASSUME NEW k \in DOMAIN toCamera', NEW l \in DOMAIN toCamera', NEW n \in 1 .. MaxData,
             Carries(toCamera'[k], i, n), Opens(toCamera'[l], i)
      PROVE  k < l
  <2>1. l \in DOMAIN toCamera /\ Opens(toCamera[l], i)
    BY <1>7, AddedOpen
  <2>2. k \in DOMAIN toCamera /\ Carries(toCamera[k], i, n)
    BY <1>7, <2>1, AddedOpen DEF NotOpened
  <2> QED BY <2>1, <2>2 DEF Numbers
<1> QED BY <1>3, <1>4, <1>5, <1>6, <1>7

(* Frames and channels stay their connection's, when frames are added. *)
LEMMA AddedOwners ==
    ASSUME Owners, NEW c \in Conns, Added(c), ReadsLeft, cam' = cam, num' = num,
           \A i \in Ids : connMap'[i] \in {connMap[i], Nobody}
    PROVE  Owners'
<1>1. PICK t \in Nat : \A k \in DOMAIN main' :
         IsRead(main'[k]) => k + t \in DOMAIN main /\ main'[k] = main[k + t]
  BY DEF ReadsLeft
<1>2. \A i \in Ids : connMap'[i] # Nobody => num'[connMap'[i]] = i
  BY DEF Owners
<1>3. ASSUME NEW i \in UserIds
      PROVE  /\ \A k \in DOMAIN main' : IsRead(main'[k]) /\ About(main'[k].frame, i) =>
                   ItsThen(main'[k].frame.owner, i)
             /\ cam'[i] # Nobody => ItsThen(cam'[i], i)
             /\ \A k \in DOMAIN toCamera' :
                   /\ Opens(toCamera'[k], i) => ItsThen(toCamera'[k].owner, i)
                   /\ \A n \in 1 .. MaxData : Carries(toCamera'[k], i, n) =>
                         num'[toCamera'[k].owner] = i /\ cam'[i] \in {toCamera'[k].owner, Nobody}
  <2>1. i \in Ids
    BY NumberSets
  <2>2. ASSUME NEW d, Its(d, i) PROVE ItsThen(d, i)
    BY <2>1, <2>2 DEF Its, ItsThen
  <2>3. \A k \in DOMAIN main' : IsRead(main'[k]) /\ About(main'[k].frame, i) =>
           Its(main[k + t].frame.owner, i) /\ main'[k] = main[k + t]
    BY <1>1 DEF Owners
  <2>4. \A k \in DOMAIN main' : IsRead(main'[k]) /\ About(main'[k].frame, i) =>
           ItsThen(main'[k].frame.owner, i)
    BY <2>2, <2>3
  <2>5. cam'[i] # Nobody => ItsThen(cam'[i], i)
    BY <2>2 DEF Owners
  <2>6. ASSUME NEW k \in DOMAIN toCamera', Opens(toCamera'[k], i)
        PROVE  ItsThen(toCamera'[k].owner, i)
    <3>1. k \in DOMAIN toCamera /\ Opens(toCamera[k], i) /\ toCamera'[k] = toCamera[k]
      BY <2>6, AddedOpen DEF Added, Behind
    <3>2. Its(toCamera[k].owner, i)
      BY <3>1 DEF Owners
    <3> QED BY <2>2, <3>1, <3>2
  <2>7. ASSUME NEW k \in DOMAIN toCamera', NEW n \in 1 .. MaxData, Carries(toCamera'[k], i, n)
        PROVE  num'[toCamera'[k].owner] = i /\ cam'[i] \in {toCamera'[k].owner, Nobody}
    <3>1. CASE k \in DOMAIN toCamera /\ Carries(toCamera[k], i, n)
      <4>1. toCamera'[k] = toCamera[k]
        BY <3>1 DEF Added, Behind
      <4> QED BY <3>1, <4>1 DEF Owners
    <3>2. CASE toCamera'[k].owner = c /\ i = num[c] /\ connMap[num[c]] = c
      <4>1. cam[i] # Nobody => connMap[i] \in {cam[i], Nobody}
        BY DEF Owners, Its
      <4>2. c # Nobody
        BY NumberSets
      <4> QED BY <3>2, <4>1, <4>2
    <3> QED BY <2>7, <3>1, <3>2, AddedOpen
  <2> QED BY <2>4, <2>5, <2>6, <2>7
<1> QED BY <1>2, <1>3 DEF Owners, Its, ItsThen

(* Another connection that has left no trace has still left none. *)
LEMMA AddedUntouched ==
    ASSUME NEW c \in Conns, Added(c), ReadsLeft, cam' = cam, NEW d \in Conns, d # c, Untouched(d),
           sent'[d] = sent[d], linked'[d] = linked[d], pendingBuf'[d] = pendingBuf[d],
           received'[d] = received[d], Waits(d)' => Waits(d),
           \A i \in Ids : connMap'[i] \in {connMap[i], Nobody}
    PROVE  Untouched(d)'
<1>1. PICK t \in Nat : \A k \in DOMAIN main' :
         IsRead(main'[k]) => k + t \in DOMAIN main /\ main'[k] = main[k + t]
  BY DEF ReadsLeft
<1>2. \A k \in DOMAIN toCamera' : toCamera'[k].owner # d
  <2> SUFFICES ASSUME NEW k \in DOMAIN toCamera'
               PROVE  toCamera'[k].owner # d
    OBVIOUS
  <2>1. CASE k \in DOMAIN toCamera
    BY <2>1 DEF Added, Behind, Untouched
  <2>2. CASE k \notin DOMAIN toCamera
    BY <2>2 DEF Added, Behind
  <2> QED BY <2>1, <2>2
<1>3. \A k \in DOMAIN main' : IsRead(main'[k]) => main'[k].frame.owner # d
  BY <1>1 DEF Untouched
<1>4. \A i \in Ids : connMap'[i] # d /\ cam'[i] # d
  BY NumberSets DEF Untouched
<1>5. sent'[d] = 0 /\ ~ linked'[d] /\ pendingBuf'[d] = <<>> /\ received'[d] = <<>> /\ ~ Waits(d)'
  BY DEF Untouched
<1> QED BY <1>2, <1>3, <1>4, <1>5 DEF Untouched

(* No new frame carries a chunk of c.                                      *)
NoChunks(c) ==
    \A k \in DOMAIN toCamera', n \in 1 .. MaxData :
        k \notin DOMAIN toCamera => ~ Carries(toCamera'[k], num[c], n)

(* A connection stays silent, when frames that are not its chunks are      *)
(* added.                                                                  *)
LEMMA BehindSilent ==
    ASSUME NEW c, Behind(c), NEW d \in Conns, num'[d] = num[d], received'[d] = received[d],
           linked'[d] => linked[d], Silent(d), d # c \/ NoChunks(c)
    PROVE  Silent(d)'
<1> SUFFICES ASSUME NEW k \in DOMAIN toCamera', NEW n \in 1 .. MaxData,
                    toCamera'[k].owner = d, Carries(toCamera'[k], num[d], n)
             PROVE  FALSE
  BY DEF Silent, Chunk
<1>1. CASE k \in DOMAIN toCamera
  BY <1>1 DEF Added, Behind, Silent, Chunk
<1>2. CASE k \notin DOMAIN toCamera
  BY <1>2 DEF Added, Behind, NoChunks
<1> QED BY <1>1, <1>2

(* The same of frames that open nothing. *)
LEMMA AddedSilent ==
    ASSUME NEW c, Added(c), num' = num, received' = received, NEW d \in Conns,
           linked'[d] => linked[d], Silent(d), d # c \/ NoChunks(c)
    PROVE  Silent(d)'
BY BehindSilent DEF Added

(* Nobody waits for the announcement, or for the answer, of c.             *)
Begun(c) ==
    /\ ~ Waits(c)' /\ NotRisen(c)'
    /\ \A k \in DOMAIN toCamera : ~ (Opens(toCamera[k], num[c]) /\ toCamera[k].owner = c)

(* Connections still to be announced or answered stay silent, when frames  *)
(* of one that has begun are added.                                        *)
LEMMA AddedBegins ==
    ASSUME Begins, Sequences', NEW c \in Conns, Added(c), ReadsLeft, cam' = cam, num' = num,
           received' = received,
           \A d \in Conns : Waits(d)' => Waits(d),
           \A d \in Conns : d # c => (linked'[d] => linked[d]),
           num[c] = 0 \/ Begun(c) \/ ((linked'[c] => linked[c]) /\ NoChunks(c))
    PROVE  Begins'
<1> SUFFICES ASSUME NEW d \in Conns, num[d] # 0
             PROVE  /\ Waits(d)' => Silent(d)' /\ NotRisen(d)' /\ cam'[num'[d]] # d
                    /\ \A k \in DOMAIN toCamera' :
                          Opens(toCamera'[k], num'[d]) /\ toCamera'[k].owner = d =>
                              Silent(d)' /\ NotRisen(d)' /\ cam'[num'[d]] # d
                    /\ \A k \in DOMAIN main' : Rises(k, d)' =>
                          Silent(d)' /\ \A l \in DOMAIN main' : Rises(l, d)' => k = l
  BY DEF Begins
<1>1. ASSUME NEW k \in DOMAIN toCamera', Opens(toCamera'[k], num[d]), toCamera'[k].owner = d
      PROVE  k \in DOMAIN toCamera /\ Opens(toCamera[k], num[d]) /\ toCamera[k].owner = d
  BY <1>1, AddedOpen DEF Added, Behind
<1>2. CASE d = c /\ Begun(c)
  BY <1>1, <1>2 DEF Begun, NotRisen
<1>3. CASE ~ (d = c /\ Begun(c))
  <2>1. Silent(d) => Silent(d)'
    BY <1>3, AddedSilent
  <2>2. Waits(d)' => Silent(d)' /\ NotRisen(d)' /\ cam'[num'[d]] # d
    BY <2>1, ReadsRises DEF Begins
  <2>3. \A k \in DOMAIN toCamera' : Opens(toCamera'[k], num'[d]) /\ toCamera'[k].owner = d =>
           Silent(d)' /\ NotRisen(d)' /\ cam'[num'[d]] # d
    BY <1>1, <2>1, ReadsRises DEF Begins
  <2>4. ASSUME NEW k \in DOMAIN main', Rises(k, d)'
        PROVE  Silent(d)' /\ \A l \in DOMAIN main' : Rises(l, d)' => k = l
    <3>1. Silent(d)
      BY <2>4, ReadsRises DEF Begins
    <3>2. \A j, l \in DOMAIN main : Rises(j, d) /\ Rises(l, d) => j = l
      BY DEF Begins
    <3> QED BY <2>1, <2>4, <3>1, <3>2, ReadsRises
  <2> QED BY <2>2, <2>3, <2>4
<1> QED BY <1>2, <1>3

(* The chunks under way of a connection that no chunk comes to.            *)
LEMMA BehindStream ==
    ASSUME NEW c, Behind(c), NEW d \in Conns, num'[d] = num[d], received'[d] = received[d],
           d # c \/ NoChunks(c), Stream(d),
           sent[d] \in Nat, sent'[d] \in Nat, sent[d] <= sent'[d],
           linked'[d] /\ local'[d] = "open" =>
              linked[d] /\ local[d] = "open" /\ sent'[d] = sent[d]
    PROVE  Stream(d)'
<1>2. ASSUME NEW k \in DOMAIN toCamera', NEW n \in 1 .. MaxData, Chunk(k, d, n)'
      PROVE  k \in DOMAIN toCamera /\ Chunk(k, d, n)
  <2>1. toCamera'[k].owner = d /\ Carries(toCamera'[k], num[d], n)
    BY <1>2 DEF Chunk
  <2>2. k \in DOMAIN toCamera
    BY <2>1 DEF Added, Behind, NoChunks
  <2>3. toCamera'[k] = toCamera[k]
    BY <2>2 DEF Added, Behind
  <2> QED BY <2>1, <2>2, <2>3 DEF Chunk
<1>3. \A m : UnderWay(d, m) => UnderWay(d, m)'
  <2> SUFFICES ASSUME NEW m, NEW l \in DOMAIN toCamera, Chunk(l, d, m)
               PROVE  UnderWay(d, m)'
    BY DEF UnderWay
  <2>1. l \in DOMAIN toCamera' /\ toCamera'[l] = toCamera[l]
    BY DEF Added, Behind
  <2>2. Chunk(l, d, m)'
    BY <2>1 DEF Chunk
  <2> QED BY <2>1, <2>2 DEF UnderWay
<1>4. Got(d)' = Got(d)
  BY DEF Got
<1>5. ASSUME NEW k \in DOMAIN toCamera', NEW n \in 1 .. MaxData, Chunk(k, d, n)'
      PROVE  /\ Got(d)' < n /\ n <= sent'[d]
             /\ \A m \in Got(d)' + 1 .. n : UnderWay(d, m)'
  <2>1. k \in DOMAIN toCamera /\ Chunk(k, d, n)
    BY <1>2, <1>5
  <2>2. /\ Got(d) < n /\ n <= sent[d]
        /\ \A m \in Got(d) + 1 .. n : UnderWay(d, m)
    BY <2>1 DEF Stream
  <2>3. n <= sent'[d]
    BY <2>2
  <2> QED BY <1>3, <1>4, <2>2, <2>3
<1>6. \A k, l \in DOMAIN toCamera', n, m \in 1 .. MaxData :
         Chunk(k, d, n)' /\ Chunk(l, d, m)' /\ k < l => n < m
  BY <1>2 DEF Stream
<1>7. linked'[d] /\ local'[d] = "open" =>
         \A m \in Got(d)' + 1 .. sent'[d] : UnderWay(d, m)'
  BY <1>3, <1>4 DEF Stream
<1> QED BY <1>5, <1>6, <1>7 DEF Stream

(* A stream goes on, when frames that are not its chunks are added. *)
LEMMA AddedStream ==
    ASSUME NEW c, Added(c), num' = num, received' = received, NEW d \in Conns,
           d # c \/ NoChunks(c), Stream(d),
           sent[d] \in Nat, sent'[d] \in Nat, sent[d] <= sent'[d],
           linked'[d] /\ local'[d] = "open" =>
              linked[d] /\ local[d] = "open" /\ sent'[d] = sent[d]
    PROVE  Stream(d)'
BY BehindStream DEF Added

(* The links when the server writes to the link that is up.                *)
LEMMA WrittenLinks ==
    ASSUME IInv, UNCHANGED <<main, link, up, cam, conn>>,
           conn # 0 => pendingConnectChannels' = pendingConnectChannels,
           ~ (up /\ conn = link) => toCamera' = toCamera
    PROVE  Links' /\ ReadsLeft
<1>1. ReadsLeft
  BY Held, ReadsThere
<1>2. /\ Ordered' <=> Ordered
      /\ Known' <=> Known
      /\ OnlyReads' <=> OnlyReads
      /\ NoReads' <=> NoReads
      /\ Coming' <=> Coming
  BY DEF Ordered, Known, OnlyReads, NoReads, Coming, Accepts
<1>3. ~ (up /\ conn = link) => Idle'
  BY DEF IInv, Links, Idle
<1> QED BY <1>1, <1>2, <1>3 DEF IInv, Links

(* Data of a channel is sent under its number.                             *)
LEMMA SentIs ==
    ASSUME IInv, NEW c \in Conns, NEW s \in Seq(1 .. MaxData), toCamera' = SendData(c, s),
           \A k \in DOMAIN toCamera, i \in UserIds : 
              Opens(toCamera[k], i) /\ connMap[i] = c => toCamera[k].owner # c
    PROVE  /\ Added(c)
           /\ ~ (up /\ conn = link) => toCamera' = toCamera
           /\ \A k \in DOMAIN toCamera', n \in 1 .. MaxData :
                 k \notin DOMAIN toCamera /\ Carries(toCamera'[k], num[c], n) =>
                    k - Len(toCamera) \in DOMAIN s /\ n = s[k - Len(toCamera)]
           /\ up /\ conn = link /\ IdOf(c) # 0 => \A k \in DOMAIN s :
                 \E l \in DOMAIN toCamera' :
                    toCamera'[l].owner = c /\ Carries(toCamera'[l], num[c], s[k])
<1>0. toCamera \in Seq(FrameSet)
  BY Held DEF Sequences
<1>1. CASE IdOf(c) = 0
  <2>1. toCamera' = Written(conn, <<>>) /\ <<>> \in Seq(FrameSet) /\ DOMAIN <<>> = {}
    BY <1>1 DEF SendData
  <2>2. /\ \A k \in DOMAIN toCamera : k \in DOMAIN toCamera' /\ toCamera'[k] = toCamera[k]
        /\ \A k \in DOMAIN toCamera' : k \in DOMAIN toCamera
    BY <1>0, <2>1, WrittenIs
  <2>3. ~ (up /\ conn = link) => toCamera' = toCamera
    BY <2>1 DEF Written
  <2> QED BY <1>1, <2>2, <2>3 DEF Added, Behind
<1>2. CASE IdOf(c) # 0
  <2>1. IdOf(c) = num[c] /\ num[c] \in UserIds /\ connMap[num[c]] = c
    BY <1>2, Held, IdOfIs DEF IInv
  <2>2. NotOpened(num[c])
    <3> SUFFICES ASSUME NEW k \in DOMAIN toCamera, Opens(toCamera[k], num[c])
                 PROVE  FALSE
      BY DEF NotOpened
    <3>1. Its(toCamera[k].owner, num[c])
      BY <2>1 DEF IInv, Owners
    <3>2. toCamera[k].owner = c
      BY <2>1, <3>1, NumberSets DEF Its
    <3> QED BY <2>1, <3>2
  <2> DEFINE t == [k \in DOMAIN s |-> Data(num[c], c, s[k])]
  <2>3. /\ t \in Seq(FrameSet) /\ DOMAIN t = DOMAIN s
        /\ \A k \in DOMAIN t : /\ s[k] \in 1 .. MaxData /\ t[k].owner = c
                               /\ Carries(t[k], num[c], s[k])
    BY <2>1, ChunksType
  <2>4. toCamera' = Written(conn, t)
    BY <1>2, <2>1 DEF SendData
  <2> HIDE DEF t
  <2>5. /\ \A k \in DOMAIN toCamera : k \in DOMAIN toCamera' /\ toCamera'[k] = toCamera[k]
        /\ \A k \in DOMAIN toCamera' : k \notin DOMAIN toCamera =>
              /\ \A l \in DOMAIN toCamera : l < k
              /\ k - Len(toCamera) \in DOMAIN t /\ toCamera'[k] = t[k - Len(toCamera)]
        /\ up /\ conn = link => \A k \in DOMAIN t :
              /\ k + Len(toCamera) \in DOMAIN toCamera'
              /\ toCamera'[k + Len(toCamera)] = t[k]
    BY <1>0, <2>3, <2>4, WrittenIs
  <2>6. Added(c)
    <3>1. ASSUME NEW k \in DOMAIN toCamera', k \notin DOMAIN toCamera
          PROVE  toCamera'[k].owner = c /\ Brings(k, c)
      <4>1. k - Len(toCamera) \in DOMAIN t /\ toCamera'[k] = t[k - Len(toCamera)]
        BY <2>5, <3>1
      <4>2. toCamera'[k].owner = c /\ \E n \in 1 .. MaxData : Carries(toCamera'[k], num[c], n)
        BY <2>3, <4>1
      <4> QED BY <2>1, <2>2, <4>2 DEF Brings
    <3> QED BY <2>5, <3>1 DEF Added, Behind
  <2>7. ASSUME NEW k \in DOMAIN toCamera', NEW n \in 1 .. MaxData,
               k \notin DOMAIN toCamera, Carries(toCamera'[k], num[c], n)
        PROVE  k - Len(toCamera) \in DOMAIN s /\ n = s[k - Len(toCamera)]
    <3>1. k - Len(toCamera) \in DOMAIN t /\ toCamera'[k] = t[k - Len(toCamera)]
      BY <2>5, <2>7
    <3>2. Carries(toCamera'[k], num[c], s[k - Len(toCamera)])
      BY <2>3, <3>1
    <3> QED BY <2>3, <2>7, <3>1, <3>2, OneMeaning
  <2>8. ASSUME up, conn = link, NEW k \in DOMAIN s
        PROVE  \E l \in DOMAIN toCamera' :
                  toCamera'[l].owner = c /\ Carries(toCamera'[l], num[c], s[k])
    <3>1. k + Len(toCamera) \in DOMAIN toCamera' /\ toCamera'[k + Len(toCamera)] = t[k]
      BY <2>3, <2>5, <2>8
    <3>2. t[k].owner = c /\ Carries(t[k], num[c], s[k])
      BY <2>3
    <3> QED BY <3>1, <3>2
  <2>9. ~ (up /\ conn = link) => toCamera' = toCamera
    BY <2>4 DEF Written
  <2> QED BY <2>6, <2>7, <2>8, <2>9
<1> QED BY <1>1, <1>2

(* What is under way stays so. *)
LEMMA StillUnderWay ==
    ASSUME NEW c, Added(c), num' = num, NEW d, NEW m, UnderWay(d, m)
    PROVE  UnderWay(d, m)'
<1>1. PICK l \in DOMAIN toCamera : Chunk(l, d, m)
  BY DEF UnderWay
<1>2. l \in DOMAIN toCamera' /\ toCamera'[l] = toCamera[l]
  BY DEF Added, Behind
<1>3. Chunk(l, d, m)'
  BY <1>1, <1>2 DEF Chunk
<1> QED BY <1>2, <1>3 DEF UnderWay

(* The app sends data on a channel that is linked. *)
LEMMA SendsLinked ==
    ASSUME IInv, Sequences', NEW c \in Conns, LocalSends(c), linked[c]
    PROVE  Tables' /\ Links' /\ NeverMixed'
<1>0. PICK n : n = sent[c] + 1
  OBVIOUS
<1> DEFINE s == <<n>>
<1>1. /\ UNCHANGED <<local, num, linked, pendingBuf, ids, connMap, pendingConnectChannels, conn>>
      /\ UNCHANGED <<channels, main, link, up, cam, received, mixed>>
      /\ local[c] = "open" /\ sent[c] < MaxData
      /\ sent' = [sent EXCEPT ![c] = @ + 1]
      /\ toCamera' = SendData(c, <<sent'[c]>>)
  BY DEF LocalSends, serverVars, linkVars
<1>2. /\ sent'[c] = n /\ sent[c] \in Nat /\ n \in Nat /\ n \in 1 .. MaxData
      /\ \A d \in Conns : sent[d] \in Nat
      /\ \A d \in Conns : d # c => sent'[d] = sent[d]
  BY <1>0, <1>1, Held, ConstantsAssumption DEF ChannelTypes
<1>3. /\ s \in Seq(1 .. MaxData) /\ DOMAIN s = {1} /\ s[1] = n
      /\ toCamera' = SendData(c, s)
  BY <1>1, <1>2
<1> HIDE DEF s
<1>4. ASSUME NEW k \in DOMAIN toCamera, NEW i \in UserIds, Opens(toCamera[k], i), connMap[i] = c
      PROVE  toCamera[k].owner # c
  <2>1. num[c] = i /\ num[c] # 0
    BY <1>4, NumberSets DEF IInv, Owners
  <2> QED BY <1>4, <2>1 DEF IInv, Begins, Silent
<1>5. /\ Added(c)
      /\ ~ (up /\ conn = link) => toCamera' = toCamera
      /\ \A k \in DOMAIN toCamera', m \in 1 .. MaxData :
            k \notin DOMAIN toCamera /\ Carries(toCamera'[k], num[c], m) =>
               k - Len(toCamera) \in DOMAIN s /\ m = s[k - Len(toCamera)]
      /\ up /\ conn = link /\ IdOf(c) # 0 => \A k \in DOMAIN s :
            \E l \in DOMAIN toCamera' :
               toCamera'[l].owner = c /\ Carries(toCamera'[l], num[c], s[k])
  BY <1>3, <1>4, SentIs
<1>6. Links' /\ ReadsLeft
  BY <1>1, <1>5, WrittenLinks
<1>7. Frames'
  BY <1>5, <1>6, AddedFrames DEF IInv
<1>8. Numbers'
  BY <1>1, <1>5, <1>6, Held, AddedNumbers DEF IInv
<1>9. Owners'
  BY <1>1, <1>5, <1>6, AddedOwners DEF IInv
<1>10. \A d : Waits(d)' <=> Waits(d)
  BY <1>1 DEF Waits
<1>11. \A d : HasNumber(d)' <=> HasNumber(d)
  BY <1>1 DEF HasNumber
<1>12. Connections'
  <2>1. ASSUME NEW d \in Conns, local'[d] = "none" PROVE Untouched(d)'
    <3>1. d # c /\ Untouched(d)
      BY <1>1, <2>1 DEF IInv, Connections
    <3> QED BY <1>1, <1>2, <1>5, <1>6, <1>10, <3>1, AddedUntouched
  <2> QED BY <1>1, <1>10, <1>11, <2>1 DEF IInv, Connections
<1>13. Kept'
  <2> SUFFICES ASSUME NEW d \in Conns
               PROVE  /\ \A k \in DOMAIN pendingBuf[d] : pendingBuf[d][k] = k
                      /\ Len(pendingBuf[d]) <= sent'[d] /\ Len(received[d]) <= sent'[d]
                      /\ linked[d] => pendingBuf[d] = <<>>
                      /\ ~ linked[d] /\ local[d] = "open" => Len(pendingBuf[d]) = sent'[d]
    BY <1>1 DEF Kept
  <2>1. /\ \A k \in DOMAIN pendingBuf[d] : pendingBuf[d][k] = k
        /\ Len(pendingBuf[d]) <= sent[d] /\ Len(received[d]) <= sent[d]
        /\ linked[d] => pendingBuf[d] = <<>>
        /\ ~ linked[d] /\ local[d] = "open" => Len(pendingBuf[d]) = sent[d]
    BY DEF IInv, Kept
  <2>2. Len(pendingBuf[d]) \in Nat /\ Len(received[d]) \in Nat
    BY Held DEF ChannelTypes, CameraTypes
  <2>3. CASE d # c
    BY <1>2, <2>1, <2>3
  <2>4. CASE d = c
    <3>1. Len(pendingBuf[d]) <= sent'[d] /\ Len(received[d]) <= sent'[d]
      BY <1>0, <1>2, <2>1, <2>2, <2>4
    <3> QED BY <2>1, <2>4, <3>1
  <2> QED BY <2>3, <2>4
<1>14. Begins'
  <2>1. num[c] = 0 \/ Begun(c)
    <3> SUFFICES ASSUME num[c] # 0 PROVE Begun(c)
      OBVIOUS
    <3>1. ~ Silent(c)
      BY DEF Silent
    <3>2. ~ Waits(c)
      BY <3>1 DEF IInv, Begins
    <3>3. NotRisen(c)
      BY <3>1 DEF IInv, Begins, NotRisen
    <3>4. \A k \in DOMAIN toCamera : ~ (Opens(toCamera[k], num[c]) /\ toCamera[k].owner = c)
      BY <3>1 DEF IInv, Begins
    <3>5. NotRisen(c)'
      BY <1>1, <1>6, <3>3, ReadsRises
    <3> QED BY <1>10, <3>2, <3>4, <3>5 DEF Begun
  <2>2. \A d \in Conns : Waits(d)' => Waits(d)
    BY <1>10
  <2>3. \A d \in Conns : d # c => (linked'[d] => linked[d])
    BY <1>1
  <2>4. num' = num /\ cam' = cam /\ received' = received
    BY <1>1
  <2> QED BY <1>5, <1>6, <2>1, <2>2, <2>3, <2>4, AddedBegins DEF IInv
<1>15. ASSUME num[c] # 0, cam[num[c]] = c PROVE Stream(c)'
  <2>1. num[c] \in Ids /\ c # Nobody
    BY <1>15, Held, NumberSets
  <2>2. up /\ conn = link
    BY <1>15, <2>1, LiveLink
  <2>3. HasNumber(c)
    BY <1>1, OpenOnesAreKnown
  <2>4. IdOf(c) # 0
    BY <1>15, <2>1, <2>3, Held, IdOfIs DEF HasNumber, IInv
  <2>5. Stream(c)
    BY <1>15 DEF IInv, Streams
  <2>6. UnderWay(c, n)'
    <3>1. PICK l \in DOMAIN toCamera' : toCamera'[l].owner = c /\ Carries(toCamera'[l], num[c], n)
      BY <1>3, <1>5, <2>2, <2>4
    <3>2. Chunk(l, c, n)'
      BY <1>1, <3>1 DEF Chunk
    <3> QED BY <3>2 DEF UnderWay
  <2>7. Got(c)' = Got(c) /\ Got(c) \in Nat /\ Got(c) <= sent[c]
    BY <1>1, Held DEF Got, CameraTypes, IInv, Kept
  <2>8. \A m \in Got(c) + 1 .. n : UnderWay(c, m)'
    <3> SUFFICES ASSUME NEW m \in Got(c) + 1 .. n
                 PROVE  UnderWay(c, m)'
      OBVIOUS
    <3>1. CASE m = n
      BY <2>6, <3>1
    <3>2. CASE m # n
      <4>1. m \in Got(c) + 1 .. sent[c]
        BY <1>0, <1>2, <2>7, <3>2
      <4>2. UnderWay(c, m)
        BY <1>1, <2>5, <4>1 DEF Stream
      <4> QED BY <1>1, <1>5, <4>2, StillUnderWay
    <3> QED BY <3>1, <3>2
  <2>9. ASSUME NEW k \in DOMAIN toCamera', NEW m \in 1 .. MaxData, Chunk(k, c, m)'
        PROVE  \/ k \in DOMAIN toCamera /\ Chunk(k, c, m)
               \/ k \notin DOMAIN toCamera /\ m = n /\ k - Len(toCamera) = 1
    <3>1. toCamera'[k].owner = c /\ Carries(toCamera'[k], num[c], m)
      BY <1>1, <2>9 DEF Chunk
    <3>2. CASE k \in DOMAIN toCamera
      <4>1. toCamera'[k] = toCamera[k]
        BY <1>5, <3>2 DEF Added, Behind
      <4> QED BY <3>1, <3>2, <4>1 DEF Chunk
    <3>3. CASE k \notin DOMAIN toCamera
      <4>1. k - Len(toCamera) \in DOMAIN s /\ m = s[k - Len(toCamera)]
        BY <1>5, <3>1, <3>3
      <4> QED BY <1>3, <3>3, <4>1
    <3> QED BY <3>2, <3>3
  <2>10. ASSUME NEW k \in DOMAIN toCamera', NEW m \in 1 .. MaxData, Chunk(k, c, m)'
         PROVE  /\ Got(c)' < m /\ m <= sent'[c]
                /\ \A j \in Got(c)' + 1 .. m : UnderWay(c, j)'
    <3>1. CASE k \in DOMAIN toCamera /\ Chunk(k, c, m)
      <4>1. Got(c) < m /\ m <= sent[c]
        BY <2>5, <3>1 DEF Stream
      <4>2. m <= n
        BY <1>0, <1>2, <4>1
      <4> QED BY <1>2, <2>7, <2>8, <4>1, <4>2
    <3>2. CASE m = n
      <4>1. Got(c) < n
        BY <1>0, <1>2, <2>7
      <4> QED BY <1>2, <2>7, <2>8, <3>2, <4>1
    <3> QED BY <2>9, <2>10, <3>1, <3>2
  <2>11. ASSUME NEW k \in DOMAIN toCamera', NEW l \in DOMAIN toCamera',
                NEW m \in 1 .. MaxData, NEW j \in 1 .. MaxData,
                Chunk(k, c, m)', Chunk(l, c, j)', k < l
         PROVE  m < j
    <3>0. toCamera' \in Seq(FrameSet) /\ Len(toCamera) \in Nat /\ k \in Nat /\ l \in Nat
      BY Held DEF Sequences
    <3>1. CASE l \notin DOMAIN toCamera
      <4>1. j = n /\ l - Len(toCamera) = 1
        BY <2>9, <2>11, <3>1
      <4>2. k \in DOMAIN toCamera /\ Chunk(k, c, m)
        BY <2>9, <2>11, <3>0, <4>1
      <4>3. m <= sent[c]
        BY <2>5, <4>2 DEF Stream
      <4> QED BY <1>0, <1>2, <4>1, <4>3
    <3>2. CASE l \in DOMAIN toCamera
      <4>1. k \in DOMAIN toCamera
        <5>1. k \notin DOMAIN toCamera => l < k
          BY <1>5, <3>2 DEF Added, Behind
        <5> QED BY <2>11, <3>0, <5>1
      <4>2. Chunk(k, c, m) /\ Chunk(l, c, j)
        BY <2>9, <2>11, <3>2, <4>1
      <4> QED BY <2>5, <2>11, <3>2, <4>1, <4>2 DEF Stream
    <3> QED BY <3>1, <3>2
  <2>12. \A m \in Got(c)' + 1 .. sent'[c] : UnderWay(c, m)'
    BY <1>2, <2>7, <2>8
  <2> QED BY <2>10, <2>11, <2>12 DEF Stream
<1>16. Streams'
  <2> SUFFICES ASSUME NEW d \in Conns, num[d] # 0, cam[num[d]] = d
               PROVE  Stream(d)'
    BY <1>1 DEF Streams
  <2>1. CASE d = c
    BY <1>15, <2>1
  <2>2. CASE d # c
    <3>1. Stream(d)
      BY DEF IInv, Streams
    <3>2. /\ sent[d] \in Nat /\ sent'[d] \in Nat /\ sent[d] <= sent'[d] /\ sent'[d] = sent[d]
          /\ linked'[d] = linked[d] /\ local'[d] = local[d] /\ num' = num /\ received' = received
      BY <1>1, <1>2, <2>2
    <3> QED BY <1>5, <2>2, <3>1, <3>2, AddedStream
  <2> QED BY <2>1, <2>2
<1>17. InOrder'
  BY <1>1 DEF IInv, InOrder
<1> QED BY <1>1, <1>6, <1>7, <1>8, <1>9, <1>12, <1>13, <1>14, <1>16, <1>17
        DEF IInv, NeverMixed, Tables


(* Frames as they were are frames with nothing added. *)
LEMMA NothingAdded ==
    ASSUME toCamera' = toCamera, NEW c
    PROVE  Added(c) /\ NoChunks(c)
BY DEF Added, Behind, NoChunks

(* The app sends data on a channel that is not linked: it is kept. *)
LEMMA SendsUnlinked ==
    ASSUME IInv, Sequences', NEW c \in Conns, LocalSends(c), ~ linked[c]
    PROVE  Tables' /\ Links' /\ NeverMixed'
<1>0. PICK n : n = sent[c] + 1
  OBVIOUS
<1>1. /\ UNCHANGED <<local, num, linked, ids, connMap, pendingConnectChannels, conn>>
      /\ UNCHANGED <<channels, main, link, up, cam, received, mixed, toCamera>>
      /\ local[c] = "open" /\ sent[c] < MaxData
      /\ sent' = [sent EXCEPT ![c] = @ + 1]
      /\ pendingBuf' = [pendingBuf EXCEPT ![c] = Append(@, sent'[c])]
  BY DEF LocalSends, serverVars, linkVars
<1>2. /\ sent'[c] = n /\ sent[c] \in Nat /\ n \in Nat /\ n \in 1 .. MaxData
      /\ \A d \in Conns : sent[d] \in Nat
      /\ \A d \in Conns : d # c => sent'[d] = sent[d] /\ pendingBuf'[d] = pendingBuf[d]
      /\ pendingBuf'[c] = Append(pendingBuf[c], n)
  BY <1>0, <1>1, Held, ConstantsAssumption DEF ChannelTypes
<1>3. Added(c) /\ NoChunks(c)
  BY <1>1, NothingAdded
<1>4. Links' /\ ReadsLeft
  BY <1>1, WrittenLinks
<1>5. Frames'
  BY <1>3, <1>4, AddedFrames DEF IInv
<1>6. Numbers'
  BY <1>1, <1>3, <1>4, Held, AddedNumbers DEF IInv
<1>7. Owners'
  BY <1>1, <1>3, <1>4, AddedOwners DEF IInv
<1>8. \A d : Waits(d)' <=> Waits(d)
  BY <1>1 DEF Waits
<1>9. \A d : HasNumber(d)' <=> HasNumber(d)
  BY <1>1 DEF HasNumber
<1>10. Connections'
  <2>1. ASSUME NEW d \in Conns, local'[d] = "none" PROVE Untouched(d)'
    <3>1. d # c /\ Untouched(d)
      BY <1>1, <2>1 DEF IInv, Connections
    <3> QED BY <1>1, <1>2, <1>3, <1>4, <1>8, <3>1, AddedUntouched
  <2> QED BY <1>1, <1>8, <1>9, <2>1 DEF IInv, Connections
<1>11. Kept'
  <2> SUFFICES ASSUME NEW d \in Conns
               PROVE  /\ \A k \in DOMAIN pendingBuf'[d] : pendingBuf'[d][k] = k
                      /\ Len(pendingBuf'[d]) <= sent'[d] /\ Len(received[d]) <= sent'[d]
                      /\ linked[d] => pendingBuf'[d] = <<>>
                      /\ ~ linked[d] /\ local[d] = "open" => Len(pendingBuf'[d]) = sent'[d]
    BY <1>1 DEF Kept
  <2>1. /\ \A k \in DOMAIN pendingBuf[d] : pendingBuf[d][k] = k
        /\ Len(pendingBuf[d]) <= sent[d] /\ Len(received[d]) <= sent[d]
        /\ linked[d] => pendingBuf[d] = <<>>
        /\ ~ linked[d] /\ local[d] = "open" => Len(pendingBuf[d]) = sent[d]
    BY DEF IInv, Kept
  <2>3. CASE d # c
    BY <1>2, <2>1, <2>3
  <2>4. CASE d = c
    <3> DEFINE D == 1 .. MaxData
               p == pendingBuf[c]
               q == pendingBuf'[c]
    <3>1. p \in Seq(D) /\ n \in D /\ q = Append(p, n) /\ Len(p) = sent[c]
      BY <1>1, <1>2, <2>1, <2>4, Held DEF ChannelTypes
    <3> HIDE DEF D
    <3>2. /\ Len(q) = Len(p) + 1 /\ DOMAIN q = 1 .. Len(p) + 1 /\ q[Len(p) + 1] = n
          /\ DOMAIN p = 1 .. Len(p) /\ \A k \in DOMAIN p : q[k] = p[k]
      BY <3>1, AppendShape
    <3>3. Len(received[c]) <= sent[c] /\ Len(received[c]) \in Nat
      BY <2>1, <2>4, Held DEF CameraTypes
    <3>4. ASSUME NEW k \in DOMAIN q PROVE q[k] = k
      <4>1. CASE k = Len(p) + 1
        BY <1>0, <3>1, <3>2, <4>1
      <4>2. CASE k # Len(p) + 1
        <5>1. k \in DOMAIN p
          BY <1>2, <3>1, <3>2, <4>2
        <5> QED BY <2>1, <2>4, <3>2, <5>1
      <4> QED BY <4>1, <4>2
    <3>5. Len(q) = n /\ Len(received[c]) <= n
      BY <1>0, <1>2, <3>1, <3>2, <3>3
    <3> HIDE DEF q
    <3>6. Len(q) <= sent'[c] /\ Len(q) = sent'[c] /\ Len(received[c]) <= sent'[c]
      BY <1>2, <3>5
    <3> QED BY <2>4, <3>4, <3>6 DEF q
  <2> QED BY <2>3, <2>4
<1>12. Begins'
  <2>1. \A d \in Conns : Waits(d)' => Waits(d)
    BY <1>8
  <2>2. \A d \in Conns : linked'[d] => linked[d]
    BY <1>1
  <2>3. num' = num /\ cam' = cam /\ received' = received
    BY <1>1
  <2> QED BY <1>3, <1>4, <2>1, <2>2, <2>3, AddedBegins DEF IInv
<1>13. Streams'
  <2> SUFFICES ASSUME NEW d \in Conns, num[d] # 0, cam[num[d]] = d
               PROVE  Stream(d)'
    BY <1>1 DEF Streams
  <2>1. Stream(d)
    BY DEF IInv, Streams
  <2>2. sent[d] \in Nat /\ sent'[d] \in Nat /\ sent[d] <= sent'[d]
    <3>1. CASE d = c
      <4>1. sent'[c] = sent[c] + 1 /\ sent[c] \in Nat
        BY <1>0, <1>2
      <4> QED BY <3>1, <4>1
    <3>2. CASE d # c
      BY <1>2, <3>2
    <3> QED BY <3>1, <3>2
  <2>3. linked'[d] => linked[d] /\ local'[d] = local[d] /\ sent'[d] = sent[d]
    BY <1>1, <1>2
  <2> QED BY <1>1, <1>3, <2>1, <2>2, <2>3, AddedStream
<1>14. InOrder'
  BY <1>1 DEF IInv, InOrder
<1> QED BY <1>1, <1>4, <1>5, <1>6, <1>7, <1>10, <1>11, <1>12, <1>13, <1>14
        DEF IInv, NeverMixed, Tables

(* The frames of a channel that is closed.                                 *)
LEMMA DeleteAdded ==
    ASSUME toCamera \in Seq(FrameSet), NEW c \in Conns, NEW i \in Ids, NEW n,
           toCamera' = Written(n, <<Frame(icam_message_encode_delete_channel(i), c)>>)
    PROVE  Added(c) /\ NoChunks(c) /\ (~ (up /\ n = link) => toCamera' = toCamera)
<1> DEFINE f == Frame(icam_message_encode_delete_channel(i), c)
           t == <<f>>
<1>1. f \in FrameSet /\ Deletes(f, i) /\ f.owner = c
  BY Encoded DEF Frame
<1>2. toCamera' = Written(n, t)
  OBVIOUS
<1> HIDE DEF f
<1>3. t \in Seq(FrameSet) /\ DOMAIN t = {1} /\ t[1] = f
  BY <1>1
<1> HIDE DEF t
<1>4. /\ \A k \in DOMAIN toCamera : k \in DOMAIN toCamera' /\ toCamera'[k] = toCamera[k]
      /\ \A k \in DOMAIN toCamera' : k \notin DOMAIN toCamera =>
            /\ \A l \in DOMAIN toCamera : l < k
            /\ k - Len(toCamera) \in DOMAIN t /\ toCamera'[k] = t[k - Len(toCamera)]
  BY <1>2, <1>3, WrittenIs
<1>5. \A k \in DOMAIN toCamera' : k \notin DOMAIN toCamera => toCamera'[k] = f
  BY <1>3, <1>4
<1>6. Added(c)
  BY <1>1, <1>4, <1>5 DEF Added, Behind
<1>7. NoChunks(c)
  BY <1>1, <1>5, OneMeaning DEF NoChunks
<1> QED BY <1>2, <1>6, <1>7 DEF Written

(* A local connection is closed. *)
LEMMA ClosesStep ==
    ASSUME IInv, Sequences', NEW c \in Conns, LocalCloses(c)
    PROVE  Tables' /\ Links' /\ NeverMixed'
<1>1. /\ UNCHANGED <<sent, num, linked, pendingBuf, ids, conn>>
      /\ UNCHANGED <<channels, main, link, up, cam, received, mixed>>
      /\ local[c] = "open" /\ local' = [local EXCEPT ![c] = "closed"]
  BY DEF LocalCloses, channelVars, linkVars, KeepTaken
<1>2. /\ local'[c] = "closed" /\ \A d \in Conns : d # c => local'[d] = local[d]
  BY <1>1, Held DEF ChannelTypes
<1>3. /\ Added(c) /\ NoChunks(c)
      /\ ~ (up /\ conn = link) => toCamera' = toCamera
      /\ conn # 0 => pendingConnectChannels' = pendingConnectChannels
      /\ \A i \in Ids : connMap'[i] \in {connMap[i], Nobody}
      /\ \A d \in Conns : d # c => (HasNumber(d) => HasNumber(d)')
      /\ \A d \in Conns : Waits(d)' => Waits(d) /\ d # c
      /\ \A k, l \in DOMAIN pendingConnectChannels' :
            pendingConnectChannels'[k] = pendingConnectChannels'[l] => k = l
  <2> DEFINE s == pendingConnectChannels
  <2>1. s \in Seq(Conns)
    BY Held DEF ServerTypes
  <2>2. \A j, k \in DOMAIN s : s[j] = s[k] => j = k
    BY DEF IInv, Connections
  <2>3. CASE c \in ToSet(s)
    <3>1. s' = Without(s, c) /\ UNCHANGED <<connMap, ids, toCamera>>
      BY <2>3 DEF LocalCloses
    <3>2. /\ \A j \in DOMAIN s' : \E k \in DOMAIN s : s'[j] = s[k]
          /\ \A j, k \in DOMAIN s' : s'[j] = s'[k] => j = k
          /\ \A j \in DOMAIN s' : s'[j] # c
      BY <2>1, <2>2, <2>3, <3>1, WithoutIs
    <3>3. conn = 0
      <4>1. s # <<>>
        BY <2>3 DEF ToSet
      <4> QED BY <4>1 DEF IInv, Links
    <3>4. Added(c) /\ NoChunks(c)
      BY <3>1, NothingAdded
    <3>5. \A d : HasNumber(d) => HasNumber(d)'
      BY <1>1, <3>1 DEF HasNumber
    <3>6. \A d \in Conns : Waits(d)' => Waits(d) /\ d # c
      BY <3>2 DEF Waits
    <3> QED BY <3>1, <3>2, <3>3, <3>4, <3>5, <3>6
  <2>4. CASE c \notin ToSet(s)
    <3>1. /\ connMap' = [connMap EXCEPT ![IdOf(c)] = Nobody] /\ s' = s
          /\ toCamera' = Written(conn,
                <<Frame(icam_message_encode_delete_channel(IdOf(c)), c)>>)
      BY <2>4 DEF LocalCloses
    <3>2. IdOf(c) \in Ids /\ (IdOf(c) # 0 => connMap[IdOf(c)] = c)
      BY Held, IdOfIs DEF IInv
    <3>3. Added(c) /\ NoChunks(c) /\ (~ (up /\ conn = link) => toCamera' = toCamera)
      <4>1. PICK i : i = IdOf(c)
        OBVIOUS
      <4>2. toCamera' = Written(conn, <<Frame(icam_message_encode_delete_channel(i), c)>>)
        BY <3>1, <4>1
      <4>3. i \in Ids /\ toCamera \in Seq(FrameSet)
        BY <3>2, <4>1, Held DEF Sequences
      <4> QED BY <4>2, <4>3, DeleteAdded
    <3>4. \A i \in Ids : connMap'[i] = IF i = IdOf(c) THEN Nobody ELSE connMap[i]
      BY <3>1, Held DEF ServerTypes
    <3>5. ASSUME NEW d \in Conns, d # c, HasNumber(d) PROVE HasNumber(d)'
      <4> SUFFICES ASSUME num[d] # 0 PROVE connMap'[num[d]] = d /\ ids'[num[d]]
        BY <1>1 DEF HasNumber
      <4>1. connMap[num[d]] = d /\ ids[num[d]] /\ num[d] \in Ids
        BY <3>5, Held, NumberSets DEF HasNumber
      <4>2. num[d] # IdOf(c)
        BY <3>2, <3>5, <4>1
      <4> QED BY <1>1, <3>4, <4>1, <4>2
    <3>6. \A d \in Conns : Waits(d)' => Waits(d) /\ d # c
      BY <2>4, <3>1 DEF Waits, ToSet
    <3>7. \A i \in Ids : connMap'[i] \in {connMap[i], Nobody}
      BY <3>4
    <3> QED BY <2>2, <3>1, <3>3, <3>5, <3>6, <3>7
  <2> QED BY <2>3, <2>4
<1>4. Links' /\ ReadsLeft
  BY <1>1, <1>3, WrittenLinks
<1>5. Frames'
  BY <1>3, <1>4, AddedFrames DEF IInv
<1>6. Numbers'
  BY <1>1, <1>3, <1>4, Held, AddedNumbers DEF IInv
<1>7. Owners'
  BY <1>1, <1>3, <1>4, AddedOwners DEF IInv
<1>8. Connections'
  <2>1. ASSUME NEW d \in Conns, local'[d] = "none" PROVE Untouched(d)'
    <3>1. d # c /\ Untouched(d)
      BY <1>2, <2>1 DEF IInv, Connections
    <3> QED BY <1>1, <1>3, <1>4, <3>1, AddedUntouched
  <2>2. ASSUME NEW d \in Conns, local'[d] = "open" PROVE d \in channels' /\ HasNumber(d)'
    <3>1. d # c /\ local[d] = "open"
      BY <1>2, <2>2
    <3> QED BY <1>1, <1>3, <3>1, OpenOnesAreKnown
  <2>3. \A d \in Conns : Waits(d)' => HasNumber(d)'
    BY <1>3 DEF IInv, Connections
  <2> QED BY <1>3, <2>1, <2>2, <2>3 DEF Connections
<1>9. Kept'
  <2>1. \A d \in Conns : local'[d] = "open" => local[d] = "open"
    BY <1>2
  <2> QED BY <1>1, <2>1 DEF IInv, Kept
<1>10. Begins'
  <2>1. \A d \in Conns : Waits(d)' => Waits(d)
    BY <1>3
  <2>2. \A d \in Conns : linked'[d] => linked[d]
    BY <1>1
  <2>3. num' = num /\ cam' = cam /\ received' = received
    BY <1>1
  <2> QED BY <1>3, <1>4, <2>1, <2>2, <2>3, AddedBegins DEF IInv
<1>11. Streams'
  <2> SUFFICES ASSUME NEW d \in Conns, num[d] # 0, cam[num[d]] = d
               PROVE  Stream(d)'
    BY <1>1 DEF Streams
  <2>1. Stream(d)
    BY DEF IInv, Streams
  <2>2. sent[d] \in Nat /\ sent'[d] \in Nat /\ sent[d] <= sent'[d] /\ sent'[d] = sent[d]
    BY <1>1, Held DEF ChannelTypes
  <2>3. linked'[d] /\ local'[d] = "open" => linked[d] /\ local[d] = "open"
    BY <1>1, <1>2
  <2> QED BY <1>1, <1>3, <2>1, <2>2, <2>3, AddedStream
<1>12. InOrder'
  BY <1>1 DEF IInv, InOrder
<1> QED BY <1>1, <1>4, <1>5, <1>6, <1>7, <1>8, <1>9, <1>10, <1>11, <1>12
        DEF IInv, NeverMixed, Tables


(* The camera says that a channel is up. *)
LEMMA UpStep ==
    ASSUME IInv, Sequences', HandleLinkUp
    PROVE  Tables' /\ Links' /\ NeverMixed'
<1>0. PICK i, c : i = Received.channel_id /\ c = connMap[i]
  OBVIOUS
<1>1. /\ UNCHANGED <<local, sent, num, ids, connMap, pendingConnectChannels, conn>>
      /\ UNCHANGED <<channels, link, up, cam, received, mixed>>
      /\ main # <<>> /\ Head(main).kind = "read" /\ main' = Tail(main)
      /\ Received.type = kPacketTypeLinkUp
      /\ c = Nobody => UNCHANGED <<linked, pendingBuf, toCamera>>
      /\ c # Nobody => /\ toCamera' = SendData(c, pendingBuf[c])
                       /\ pendingBuf' = [pendingBuf EXCEPT ![c] = <<>>]
                       /\ linked' = [linked EXCEPT ![c] = TRUE]
  BY <1>0 DEF HandleLinkUp, Reads, localVars, serverVars, linkVars
<1>2. /\ Head(main) = main[1] /\ 1 \in DOMAIN main /\ IsRead(main[1])
      /\ FromCamera(main[1].frame)
  BY <1>1, HeadBlock DEF IInv, IsRead
<1>3. i \in Ids /\ Ups(main[1].frame, i)
  BY <1>0, <1>1, <1>2, ReceivedMeans DEF Received
<1>4. CASE c = Nobody
  <2>1. ReadsLeft
    BY <1>1, Held, ReadsThere
  <2>2. Tables'
    BY <1>1, <1>4, <2>1, OpenOnesAreKnown, QuietStep DEF Whole, channelVars, serverVars
  <2>3. Links'
    BY <1>1, <1>2, <1>4, HandledLinks
  <2> QED BY <1>1, <2>2, <2>3 DEF IInv, NeverMixed
<1>5. CASE c # Nobody
  <2>1. c \in Conns /\ num[c] = i /\ connMap[i] = c
    BY <1>0, <1>3, <1>5, Held DEF IInv, Owners, ServerTypes
  <2>2. ASSUME i # 0
        PROVE  /\ i \in UserIds /\ main[1].frame.owner = c /\ Silent(c)
               /\ \A l \in DOMAIN main : Rises(l, c) => l = 1
               /\ \A k \in DOMAIN toCamera :
                     ~ (Opens(toCamera[k], num[c]) /\ toCamera[k].owner = c)
    <3>1. i \in UserIds
      BY <2>1, <2>2, Held
    <3>2. Its(main[1].frame.owner, i)
      BY <1>2, <1>3, <3>1, AboutMeans DEF IInv, Owners
    <3>3. main[1].frame.owner = c
      BY <1>5, <2>1, <3>2 DEF Its
    <3>4. Rises(1, c)
      BY <1>2, <1>3, <2>1, <3>3 DEF Rises
    <3>5. Silent(c) /\ \A l \in DOMAIN main : Rises(l, c) => 1 = l
      BY <1>2, <2>1, <2>2, <3>4 DEF IInv, Begins
    <3>6. \A k \in DOMAIN toCamera : ~ (Opens(toCamera[k], num[c]) /\ toCamera[k].owner = c)
      BY <1>2, <2>1, <2>2, <3>4 DEF IInv, Begins, NotRisen
    <3> QED BY <3>1, <3>3, <3>5, <3>6
  <2>3. ASSUME NEW k \in DOMAIN toCamera, NEW j \in UserIds, Opens(toCamera[k], j),
               connMap[j] = c
        PROVE  toCamera[k].owner # c
    <3>1. num[c] = j /\ j # 0
      BY <1>5, <2>3, NumberSets DEF IInv, Owners
    <3> QED BY <2>1, <2>2, <2>3, <3>1
  <2> DEFINE s == pendingBuf[c]
  <2>4. /\ s \in Seq(1 .. MaxData) /\ DOMAIN s = 1 .. Len(s) /\ Len(s) \in Nat
        /\ sent[c] \in Nat
    BY <2>1, Held DEF ChannelTypes
  <2>5. /\ \A k \in DOMAIN s : s[k] = k
        /\ Len(s) <= sent[c]
        /\ ~ linked[c] /\ local[c] = "open" => Len(s) = sent[c]
    BY <2>1 DEF IInv, Kept
  <2>6. toCamera' = SendData(c, s)
    BY <1>1, <1>5
  <2> HIDE DEF s
  <2>7. /\ Added(c)
        /\ ~ (up /\ conn = link) => toCamera' = toCamera
        /\ \A k \in DOMAIN toCamera', m \in 1 .. MaxData :
              k \notin DOMAIN toCamera /\ Carries(toCamera'[k], num[c], m) =>
                 k - Len(toCamera) \in DOMAIN s /\ m = s[k - Len(toCamera)]
        /\ up /\ conn = link /\ IdOf(c) # 0 => \A k \in DOMAIN s :
              \E l \in DOMAIN toCamera' :
                 toCamera'[l].owner = c /\ Carries(toCamera'[l], num[c], s[k])
    BY <2>1, <2>3, <2>4, <2>6, SentIs
  <2>8. Links' /\ ReadsLeft
    BY <1>1, <1>2, <2>7, HandledLinks
  <2>9. /\ pendingBuf'[c] = <<>> /\ linked'[c] = TRUE
        /\ \A d \in Conns : d # c => pendingBuf'[d] = pendingBuf[d] /\ linked'[d] = linked[d]
    BY <1>1, <1>5, <2>1, Held DEF ChannelTypes
  <2>10. Frames'
    BY <2>1, <2>7, <2>8, AddedFrames DEF IInv
  <2>11. Numbers'
    BY <1>1, <2>7, <2>8, Held, AddedNumbers DEF IInv
  <2>12. Owners'
    BY <1>1, <2>1, <2>7, <2>8, AddedOwners DEF IInv
  <2>13. (\A d : Waits(d)' <=> Waits(d)) /\ \A d : HasNumber(d)' <=> HasNumber(d)
    BY <1>1 DEF Waits, HasNumber
  <2>14. Connections'
    <3>1. ASSUME NEW d \in Conns, local'[d] = "none" PROVE Untouched(d)'
      <4>1. d # c /\ Untouched(d)
        BY <1>1, <1>3, <2>1, <3>1 DEF IInv, Connections, Untouched
      <4> QED BY <1>1, <2>1, <2>7, <2>8, <2>9, <2>13, <4>1, AddedUntouched
    <3> QED BY <1>1, <2>13, <3>1 DEF IInv, Connections
  <2>15. Kept'
    <3> SUFFICES ASSUME NEW d \in Conns
                 PROVE  /\ \A k \in DOMAIN pendingBuf'[d] : pendingBuf'[d][k] = k
                        /\ Len(pendingBuf'[d]) <= sent[d] /\ Len(received[d]) <= sent[d]
                        /\ linked'[d] => pendingBuf'[d] = <<>>
                        /\ ~ linked'[d] /\ local[d] = "open" => Len(pendingBuf'[d]) = sent[d]
      BY <1>1 DEF Kept
    <3>1. /\ \A k \in DOMAIN pendingBuf[d] : pendingBuf[d][k] = k
          /\ Len(pendingBuf[d]) <= sent[d] /\ Len(received[d]) <= sent[d]
          /\ linked[d] => pendingBuf[d] = <<>>
          /\ ~ linked[d] /\ local[d] = "open" => Len(pendingBuf[d]) = sent[d]
      BY DEF IInv, Kept
    <3>2. CASE d # c
      BY <2>9, <3>1, <3>2
    <3>3. CASE d = c
      <4>1. DOMAIN <<>> = {} /\ Len(<<>>) = 0 /\ 0 <= sent[c]
        BY <2>4
      <4>2. Len(pendingBuf'[d]) <= sent[d] /\ \A k \in DOMAIN pendingBuf'[d] : pendingBuf'[d][k] = k
        BY <2>9, <3>3, <4>1
      <4> QED BY <2>9, <3>1, <3>3, <4>2
    <3> QED BY <3>2, <3>3
  <2>16. Begins'
    <3>1. num[c] = 0 \/ Begun(c)
      <4> SUFFICES ASSUME num[c] # 0 PROVE Begun(c)
        OBVIOUS
      <4>1. ~ Waits(c)'
        <5>1. pendingConnectChannels = <<>>
          BY <1>1, <1>2, ReadAtHead
        <5> QED BY <1>1, <5>1 DEF Waits
      <4>2. NotRisen(c)'
        <5> SUFFICES ASSUME NEW k \in DOMAIN main', Rises(k, c)'
                     PROVE  FALSE
          BY DEF NotRisen
        <5>1. k + 1 \in DOMAIN main /\ main'[k] = main[k + 1] /\ k + 1 # 1
          BY <1>1, Held, TailShape DEF Sequences
        <5>2. Rises(k + 1, c)
          BY <1>1, <5>1 DEF Rises
        <5> QED BY <2>1, <2>2, <5>1, <5>2
      <4> QED BY <2>1, <2>2, <4>1, <4>2 DEF Begun
    <3>2. \A d \in Conns : Waits(d)' => Waits(d)
      BY <2>13
    <3>3. \A d \in Conns : d # c => (linked'[d] => linked[d])
      BY <2>9
    <3>4. num' = num /\ cam' = cam /\ received' = received
      BY <1>1
    <3> QED BY <2>1, <2>7, <2>8, <3>1, <3>2, <3>3, <3>4, AddedBegins DEF IInv
  <2>17. ASSUME num[c] # 0, cam[num[c]] = c PROVE Stream(c)'
    <3>1. Silent(c)
      BY <2>1, <2>2, <2>17
    <3>2. up /\ conn = link
      BY <1>3, <1>5, <2>1, <2>17, LiveLink
    <3>3. IdOf(c) # 0
      BY <1>3, <2>1, <2>17, Held, IdOfIs DEF IInv
    <3>4. Got(c)' = 0
      BY <1>1, <3>1 DEF Got, Silent
    <3>5. ASSUME NEW m \in 1 .. Len(s) PROVE UnderWay(c, m)'
      <4>1. PICK l \in DOMAIN toCamera' : toCamera'[l].owner = c /\ Carries(toCamera'[l], num[c], m)
        BY <2>4, <2>5, <2>7, <3>2, <3>3
      <4>2. Chunk(l, c, m)'
        BY <1>1, <4>1 DEF Chunk
      <4> QED BY <4>2 DEF UnderWay
    <3>6. ASSUME NEW k \in DOMAIN toCamera', NEW m \in 1 .. MaxData, Chunk(k, c, m)'
          PROVE  m = k - Len(toCamera) /\ m \in 1 .. Len(s)
      <4>1. toCamera'[k].owner = c /\ Carries(toCamera'[k], num[c], m)
        BY <1>1, <3>6 DEF Chunk
      <4>2. k \notin DOMAIN toCamera
        BY <2>7, <3>1, <4>1 DEF Added, Behind, Silent, Chunk
      <4>3. k - Len(toCamera) \in DOMAIN s /\ m = s[k - Len(toCamera)]
        BY <2>7, <4>1, <4>2
      <4> QED BY <2>4, <2>5, <4>3
    <3>7. ASSUME NEW k \in DOMAIN toCamera', NEW m \in 1 .. MaxData, Chunk(k, c, m)'
          PROVE  /\ Got(c)' < m /\ m <= sent'[c]
                 /\ \A j \in Got(c)' + 1 .. m : UnderWay(c, j)'
      <4>1. m \in 1 .. Len(s)
        BY <3>6, <3>7
      <4>2. m <= sent'[c] /\ 0 < m
        BY <1>1, <2>4, <2>5, <4>1
      <4>3. \A j \in 0 + 1 .. m : j \in 1 .. Len(s)
        BY <2>4, <4>1
      <4> QED BY <3>4, <3>5, <4>2, <4>3
    <3>8. ASSUME NEW k \in DOMAIN toCamera', NEW l \in DOMAIN toCamera',
                 NEW m \in 1 .. MaxData, NEW j \in 1 .. MaxData,
                 Chunk(k, c, m)', Chunk(l, c, j)', k < l
          PROVE  m < j
      <4>1. m = k - Len(toCamera) /\ j = l - Len(toCamera)
        BY <3>6, <3>8
      <4>2. Len(toCamera) \in Nat /\ k \in Nat /\ l \in Nat
        BY Held DEF Sequences
      <4> QED BY <3>8, <4>1, <4>2
    <3>9. local'[c] = "open" => \A m \in Got(c)' + 1 .. sent'[c] : UnderWay(c, m)'
      <4> SUFFICES ASSUME local[c] = "open", NEW m \in 0 + 1 .. sent[c]
                   PROVE  UnderWay(c, m)'
        BY <1>1, <3>4
      <4>1. Len(s) = sent[c]
        BY <2>5, <3>1 DEF Silent
      <4>2. m \in 1 .. Len(s)
        BY <4>1
      <4> QED BY <3>5, <4>2
    <3> QED BY <3>7, <3>8, <3>9 DEF Stream
  <2>18. Streams'
    <3> SUFFICES ASSUME NEW d \in Conns, num[d] # 0, cam[num[d]] = d
                 PROVE  Stream(d)'
      BY <1>1 DEF Streams
    <3>1. CASE d = c
      BY <2>17, <3>1
    <3>2. CASE d # c
      <4>1. Stream(d)
        BY DEF IInv, Streams
      <4>2. /\ sent[d] \in Nat /\ sent'[d] \in Nat /\ sent[d] <= sent'[d] /\ sent'[d] = sent[d]
            /\ linked'[d] = linked[d] /\ local'[d] = local[d] /\ num' = num
            /\ received' = received
        BY <1>1, <2>9, <3>2, Held DEF ChannelTypes
      <4> QED BY <2>7, <3>2, <4>1, <4>2, AddedStream
    <3> QED BY <3>1, <3>2
  <2>19. InOrder'
    BY <1>1 DEF IInv, InOrder
  <2> QED BY <1>1, <2>8, <2>10, <2>11, <2>12, <2>14, <2>15, <2>16, <2>18, <2>19
          DEF IInv, NeverMixed, Tables
<1> QED BY <1>4, <1>5


(* A local connection is made and gets a number. *)
LEMMA ConnectionStep ==
    ASSUME IInv, Sequences', NEW c \in Conns, LocalConnects(c)
    PROVE  Tables' /\ Links' /\ NeverMixed'
<1>0. PICK n : n = FirstFree
  OBVIOUS
<1> DEFINE f == Frame(icam_message_encode_new_channel(n, Port), c)
           s == pendingConnectChannels
<1>1. /\ UNCHANGED <<sent, linked, pendingBuf, conn, main, link, up, cam, received, mixed>>
      /\ local[c] = "none" /\ local' = [local EXCEPT ![c] = "open"]
      /\ num' = [num EXCEPT ![c] = n]
      /\ ids' = [ids EXCEPT ![n] = TRUE]
      /\ connMap' = [connMap EXCEPT ![n] = c]
      /\ conn # 0 => toCamera' = Written(conn, <<f>>) /\ s' = s
      /\ conn = 0 => toCamera' = toCamera /\ s' = Append(s, c)
      /\ channels' = channels \cup {c}
  BY <1>0 DEF LocalConnects, linkVars
<1>2. n \in {0} \cup UserIds /\ n \in Ids /\ (n # 0 => n \in UserIds /\ ~ ids[n])
  BY <1>0, FirstFreeIs, NumberSets
<1>3. /\ local'[c] = "open" /\ num'[c] = n /\ ids'[n] /\ connMap'[n] = c
      /\ \A d \in Conns : d # c => local'[d] = local[d] /\ num'[d] = num[d]
      /\ \A i \in Ids : i # n => ids'[i] = ids[i] /\ connMap'[i] = connMap[i]
  BY <1>1, <1>2, Held DEF ChannelTypes, ServerTypes
<1>4. Untouched(c)
  BY <1>1 DEF IInv, Connections
<1>5. n # 0 => Unknown(n) /\ NothingRead(n, 1)
  BY <1>2 DEF IInv, Numbers
<1>6. f \in FrameSet /\ Opens(f, n) /\ f.owner = c
  BY <1>2, Encoded DEF Frame
<1> HIDE DEF f
<1>7. /\ Behind(c)
      /\ \A k \in DOMAIN toCamera' : k \notin DOMAIN toCamera =>
            Opens(toCamera'[k], n) /\ k - Len(toCamera) = 1
  <2>1. CASE conn = 0
    BY <1>1, <2>1 DEF Behind
  <2>2. CASE conn # 0
    <3> DEFINE t == <<f>>
    <3>1. t \in Seq(FrameSet) /\ DOMAIN t = {1} /\ t[1] = f
      BY <1>6
    <3>2. toCamera' = Written(conn, t) /\ toCamera \in Seq(FrameSet)
      BY <1>1, <2>2, Held DEF Sequences
    <3> HIDE DEF t
    <3>3. /\ \A k \in DOMAIN toCamera : k \in DOMAIN toCamera' /\ toCamera'[k] = toCamera[k]
          /\ \A k \in DOMAIN toCamera' : k \notin DOMAIN toCamera =>
                /\ \A l \in DOMAIN toCamera : l < k
                /\ k - Len(toCamera) \in DOMAIN t /\ toCamera'[k] = t[k - Len(toCamera)]
      BY <3>1, <3>2, WrittenIs
    <3>4. \A k \in DOMAIN toCamera' : k \notin DOMAIN toCamera =>
             toCamera'[k] = f /\ k - Len(toCamera) = 1
      BY <3>1, <3>3
    <3> QED BY <1>6, <3>3, <3>4 DEF Behind
  <2> QED BY <2>1, <2>2
<1>8. ASSUME NEW k \in DOMAIN toCamera', NEW l \in DOMAIN toCamera',
             k \notin DOMAIN toCamera, l \notin DOMAIN toCamera
      PROVE  k = l
  <2>1. k - Len(toCamera) = l - Len(toCamera)
    BY <1>7, <1>8
  <2>2. k \in Nat /\ l \in Nat /\ Len(toCamera) \in Nat
    BY Held DEF Sequences
  <2> QED BY <2>1, <2>2
<1>9. Links' /\ ReadsLeft
  <2>1. ~ (up /\ conn = link) => toCamera' = toCamera
    BY <1>1 DEF Written
  <2>2. conn # 0 => pendingConnectChannels' = pendingConnectChannels
    BY <1>1
  <2> QED BY <1>1, <2>1, <2>2, WrittenLinks
<1>10. Frames'
  <2>1. \A k \in DOMAIN toCamera' : ToCamera(toCamera'[k])
    <3> SUFFICES ASSUME NEW k \in DOMAIN toCamera'
                 PROVE  ToCamera(toCamera'[k])
      OBVIOUS
    <3>1. CASE k \in DOMAIN toCamera
      BY <1>7, <3>1 DEF Behind, IInv, Frames
    <3>2. CASE k \notin DOMAIN toCamera
      BY <1>2, <1>7, <3>2 DEF Behind, ToCamera
    <3> QED BY <3>1, <3>2
  <2>2. (\A k \in DOMAIN toCamera : ToCamera(toCamera[k]))'
    BY <2>1 DEF ToCamera, Opens, Deletes, Carries, Says
  <2>3. (\A k \in DOMAIN main : IsRead(main[k]) => FromCamera(main[k].frame))'
    BY <1>1 DEF IInv, Frames
  <2> QED BY <2>2, <2>3 DEF Frames, Sequences
<1>11. ASSUME NEW k \in DOMAIN toCamera', NEW i \in Ids
       PROVE  /\ k \in DOMAIN toCamera =>
                    toCamera'[k] = toCamera[k] /\ toCamera[k].owner # c
              /\ Opens(toCamera'[k], i) =>
                    k \in DOMAIN toCamera \/ (i = n /\ toCamera'[k].owner = c)
              /\ \A m : Carries(toCamera'[k], i, m) => k \in DOMAIN toCamera
  <2>1. k \in DOMAIN toCamera => toCamera'[k] = toCamera[k] /\ toCamera[k].owner # c
    BY <1>4, <1>7 DEF Behind, Untouched
  <2>2. k \notin DOMAIN toCamera => Opens(toCamera'[k], n) /\ toCamera'[k].owner = c
    BY <1>7 DEF Behind
  <2> QED BY <2>1, <2>2, OneMeaning
<1>12. Numbers'
  <2> SUFFICES ASSUME NEW i \in UserIds
               PROVE  /\ ~ ids'[i] => Unknown(i)' /\ NothingRead(i, 1)'
                      /\ \A k \in DOMAIN main : IsRead(main[k]) /\ Downs(main[k].frame, i) =>
                            Unknown(i)' /\ NothingRead(i, k + 1)'
                      /\ cam[i] # Nobody => NotOpened(i)'
                      /\ \A k, l \in DOMAIN toCamera' :
                            Opens(toCamera'[k], i) /\ Opens(toCamera'[l], i) => k = l
                      /\ \A k, l \in DOMAIN toCamera', m \in 1 .. MaxData :
                            Carries(toCamera'[k], i, m) /\ Opens(toCamera'[l], i) => k < l
    BY <1>1 DEF Numbers
  <2>1. i \in Ids /\ i # 0
    BY NumberSets
  <2>2. \A j : NothingRead(i, j)' <=> NothingRead(i, j)
    BY <1>1 DEF NothingRead
  <2>3. i # n => (NotOpened(i) => NotOpened(i)')
    BY <1>11, <2>1 DEF NotOpened
  <2>4. i # n => (Unknown(i) => Unknown(i)')
    BY <1>1, <2>3 DEF Unknown
  <2>5. ~ ids'[i] => Unknown(i)' /\ NothingRead(i, 1)'
    BY <1>3, <2>1, <2>2, <2>4 DEF IInv, Numbers
  <2>6. ASSUME NEW k \in DOMAIN main, IsRead(main[k]), Downs(main[k].frame, i)
        PROVE  Unknown(i)' /\ NothingRead(i, k + 1)'
    <3>1. Unknown(i) /\ NothingRead(i, k + 1)
      BY <2>6 DEF IInv, Numbers
    <3>2. About(main[k].frame, i) /\ k >= 1
      <4>1. FromCamera(main[k].frame)
        BY <2>6 DEF IInv, Frames
      <4> QED BY <2>6, <4>1, AboutMeans, Held DEF Sequences
    <3>3. i # n
      BY <1>5, <2>1, <2>6, <3>2 DEF NothingRead
    <3> QED BY <2>2, <2>4, <3>1, <3>3
  <2>7. cam[i] # Nobody => NotOpened(i)'
    BY <1>5, <2>1, <2>3 DEF IInv, Numbers, Unknown
  <2>8. ASSUME NEW k \in DOMAIN toCamera', NEW l \in DOMAIN toCamera',
               Opens(toCamera'[k], i), Opens(toCamera'[l], i)
        PROVE  k = l
    <3>1. CASE k \in DOMAIN toCamera /\ l \in DOMAIN toCamera
      <4>1. Opens(toCamera[k], i) /\ Opens(toCamera[l], i)
        BY <1>11, <2>1, <2>8, <3>1
      <4> QED BY <3>1, <4>1 DEF IInv, Numbers
    <3>2. CASE k \notin DOMAIN toCamera /\ l \notin DOMAIN toCamera
      BY <1>8, <3>2
    <3>3. i = n => k \notin DOMAIN toCamera /\ l \notin DOMAIN toCamera
      BY <1>5, <1>11, <2>1, <2>8 DEF Unknown, NotOpened
    <3>4. i # n => k \in DOMAIN toCamera /\ l \in DOMAIN toCamera
      BY <1>11, <2>1, <2>8
    <3> QED BY <3>1, <3>2, <3>3, <3>4
  <2>9. ASSUME NEW k \in DOMAIN toCamera', NEW l \in DOMAIN toCamera', NEW m \in 1 .. MaxData,
               Carries(toCamera'[k], i, m), Opens(toCamera'[l], i)
        PROVE  k < l
    <3>1. k \in DOMAIN toCamera /\ toCamera'[k] = toCamera[k]
      BY <1>11, <2>1, <2>9
    <3>2. CASE l \in DOMAIN toCamera
      <4>1. Opens(toCamera[l], i)
        BY <1>11, <2>1, <2>9, <3>2
      <4> QED BY <2>9, <3>1, <3>2, <4>1 DEF IInv, Numbers
    <3>3. CASE l \notin DOMAIN toCamera
      BY <1>7, <3>1, <3>3 DEF Behind
    <3> QED BY <3>2, <3>3
  <2> QED BY <2>5, <2>6, <2>7, <2>8, <2>9
<1>13. Owners'
  <2>1. ASSUME NEW i \in Ids, connMap'[i] # Nobody PROVE num'[connMap'[i]] = i
    <3>1. CASE i = n
      BY <1>3, <3>1
    <3>2. CASE i # n
      <4>1. connMap'[i] = connMap[i] /\ connMap[i] # c /\ connMap[i] \in Conns
        BY <1>3, <1>4, <2>1, <3>2, Held DEF Untouched, ServerTypes
      <4>2. num[connMap[i]] = i
        BY <2>1, <4>1 DEF IInv, Owners
      <4> QED BY <1>3, <4>1, <4>2
    <3> QED BY <3>1, <3>2
  <2>2. ASSUME NEW d, NEW i \in UserIds, i # n, d # c, Its(d, i) PROVE ItsThen(d, i)
    <3>1. i \in Ids
      BY NumberSets
    <3> QED BY <1>3, <2>2, <3>1 DEF Its, ItsThen
  <2>3. ASSUME NEW i \in UserIds, NEW k \in DOMAIN main, IsRead(main[k]), About(main[k].frame, i)
        PROVE  ItsThen(main[k].frame.owner, i)
    <3>1. Its(main[k].frame.owner, i) /\ main[k].frame.owner # c
      BY <1>4, <2>3 DEF IInv, Owners, Untouched
    <3>2. k >= 1 /\ i # 0
      BY Held, NumberSets DEF Sequences
    <3>3. i # n
      BY <1>5, <2>3, <3>2 DEF NothingRead
    <3> QED BY <2>2, <3>1, <3>3
  <2>4. ASSUME NEW i \in UserIds, cam[i] # Nobody PROVE ItsThen(cam[i], i)
    <3>1. Its(cam[i], i) /\ cam[i] # c /\ i # 0
      BY <1>4, <2>4, NumberSets DEF IInv, Owners, Untouched
    <3>2. i # n
      BY <1>5, <2>4, <3>1 DEF Unknown
    <3> QED BY <2>2, <3>1, <3>2
  <2>5. ASSUME NEW i \in UserIds, NEW k \in DOMAIN toCamera', Opens(toCamera'[k], i)
        PROVE  ItsThen(toCamera'[k].owner, i)
    <3>0. i \in Ids /\ i # 0
      BY NumberSets
    <3>1. CASE k \in DOMAIN toCamera
      <4>1. toCamera'[k] = toCamera[k] /\ toCamera[k].owner # c
        BY <1>11, <3>0, <3>1
      <4>2. i # n
        BY <1>5, <2>5, <3>0, <3>1, <4>1 DEF Unknown, NotOpened
      <4>3. Its(toCamera[k].owner, i)
        BY <2>5, <3>1, <4>1 DEF IInv, Owners
      <4> QED BY <2>2, <4>1, <4>2, <4>3
    <3>2. CASE k \notin DOMAIN toCamera
      <4>1. i = n /\ toCamera'[k].owner = c
        BY <1>11, <2>5, <3>0, <3>2
      <4> QED BY <1>3, <4>1 DEF ItsThen
    <3> QED BY <3>1, <3>2
  <2>6. ASSUME NEW i \in UserIds, NEW k \in DOMAIN toCamera', NEW m \in 1 .. MaxData,
               Carries(toCamera'[k], i, m)
        PROVE  num'[toCamera'[k].owner] = i /\ cam[i] \in {toCamera'[k].owner, Nobody}
    <3>0. i \in Ids
      BY NumberSets
    <3>1. k \in DOMAIN toCamera /\ toCamera'[k] = toCamera[k] /\ toCamera[k].owner # c
      BY <1>11, <2>6, <3>0
    <3>2. num[toCamera[k].owner] = i /\ cam[i] \in {toCamera[k].owner, Nobody}
      BY <2>6, <3>1 DEF IInv, Owners
    <3>3. toCamera[k].owner \in Conns
      BY <3>1 DEF IInv, Frames, ToCamera
    <3> QED BY <1>3, <3>1, <3>2, <3>3
  <2> QED BY <1>1, <2>1, <2>3, <2>4, <2>5, <2>6 DEF Owners, Its, ItsThen
<1>14. /\ \A d : Waits(d)' => Waits(d) \/ d = c
       /\ \A k, l \in DOMAIN s' : s'[k] = s'[l] => k = l
  <2>0. s \in Seq(Conns) /\ ~ Waits(c)
    BY <1>4, Held DEF ServerTypes, Untouched
  <2>1. CASE conn # 0
    BY <1>1, <2>1 DEF Waits, IInv, Connections
  <2>2. CASE conn = 0
    <3>1. /\ DOMAIN s = 1 .. Len(s) /\ Len(s) \in Nat /\ DOMAIN s' = 1 .. Len(s) + 1
          /\ \A k \in DOMAIN s : s'[k] = s[k]
          /\ s'[Len(s) + 1] = c
      BY <1>1, <2>0, <2>2, AppendShape
    <3>2. \A k \in DOMAIN s' : k \in DOMAIN s \/ k = Len(s) + 1
      BY <3>1
    <3>3. \A d : Waits(d)' => Waits(d) \/ d = c
      BY <3>1, <3>2 DEF Waits
    <3>4. \A k \in DOMAIN s : s[k] # c
      BY <2>0 DEF Waits
    <3>5. \A k, l \in DOMAIN s : s[k] = s[l] => k = l
      BY DEF IInv, Connections
    <3> QED BY <3>1, <3>2, <3>3, <3>4, <3>5
  <2> QED BY <2>1, <2>2
<1>15. /\ HasNumber(c)'
       /\ \A d \in Conns : d # c /\ HasNumber(d) => HasNumber(d)'
  <2>1. HasNumber(c)'
    BY <1>3 DEF HasNumber
  <2>2. ASSUME NEW d \in Conns, d # c, HasNumber(d) PROVE HasNumber(d)'
    <3> SUFFICES ASSUME num[d] # 0 PROVE connMap'[num[d]] = d /\ ids'[num[d]]
      BY <1>3, <2>2 DEF HasNumber
    <3>1. connMap[num[d]] = d /\ ids[num[d]] /\ num[d] \in Ids
      BY <2>2, Held, NumberSets DEF HasNumber
    <3>2. num[d] # n
      BY <1>2, <3>1
    <3> QED BY <1>3, <3>1, <3>2
  <2> QED BY <2>1, <2>2
<1>16. Connections'
  <2>1. ASSUME NEW d \in Conns, local'[d] = "none" PROVE Untouched(d)'
    <3>1. d # c /\ Untouched(d)
      BY <1>3, <2>1 DEF IInv, Connections
    <3>2. \A k \in DOMAIN toCamera' : toCamera'[k].owner # d
      <4> SUFFICES ASSUME NEW k \in DOMAIN toCamera'
                   PROVE  toCamera'[k].owner # d
        OBVIOUS
      <4>1. CASE k \in DOMAIN toCamera
        BY <1>7, <3>1, <4>1 DEF Behind, Untouched
      <4>2. CASE k \notin DOMAIN toCamera
        BY <1>7, <3>1, <4>2 DEF Behind
      <4> QED BY <4>1, <4>2
    <3>3. \A i \in Ids : connMap'[i] # d /\ cam'[i] # d
      <4>1. \A i \in Ids : connMap'[i] = c \/ connMap'[i] = connMap[i]
        BY <1>3
      <4> QED BY <1>1, <3>1, <4>1 DEF Untouched
    <3> QED BY <1>1, <1>14, <3>1, <3>2, <3>3 DEF Untouched
  <2>2. ASSUME NEW d \in Conns, local'[d] = "open" PROVE d \in channels' /\ HasNumber(d)'
    <3>1. CASE d = c
      BY <1>1, <1>15, <3>1
    <3>2. CASE d # c
      <4>1. local[d] = "open"
        BY <1>3, <2>2, <3>2
      <4> QED BY <1>1, <1>15, <3>2, <4>1, OpenOnesAreKnown
    <3> QED BY <3>1, <3>2
  <2>3. \A d \in Conns : Waits(d)' => HasNumber(d)'
    BY <1>14, <1>15 DEF IInv, Connections
  <2> QED BY <1>14, <2>1, <2>2, <2>3 DEF Connections
<1>17. Kept'
  <2>1. Len(pendingBuf[c]) = sent[c]
    <3>1. Len(<<>>) = 0
      OBVIOUS
    <3> QED BY <1>4, <3>1 DEF Untouched
  <2> QED BY <1>1, <1>3, <2>1 DEF IInv, Kept
<1>18. Begins'
  <2> SUFFICES ASSUME NEW d \in Conns, num'[d] # 0
               PROVE  /\ Waits(d)' => Silent(d)' /\ NotRisen(d)' /\ cam'[num'[d]] # d
                      /\ \A k \in DOMAIN toCamera' :
                            Opens(toCamera'[k], num'[d]) /\ toCamera'[k].owner = d =>
                                Silent(d)' /\ NotRisen(d)' /\ cam'[num'[d]] # d
                      /\ \A k \in DOMAIN main : Rises(k, d)' =>
                            Silent(d)' /\ \A l \in DOMAIN main : Rises(l, d)' => k = l
    BY <1>1 DEF Begins
  <2>1. CASE d = c
    <3>1. Silent(c)'
      <4>1. \A k \in DOMAIN toCamera', m \in 1 .. MaxData : ~ Chunk(k, c, m)'
        BY <1>2, <1>3, <1>11 DEF Chunk
      <4> QED BY <1>1, <1>4, <4>1 DEF Silent, Untouched
    <3>2. \A k \in DOMAIN main : ~ Rises(k, c)'
      BY <1>1, <1>4 DEF Rises, Untouched
    <3>3. NotRisen(c)'
      BY <1>1, <3>2 DEF NotRisen
    <3>4. cam'[num'[c]] # c
      BY <1>1, <1>2, <1>3, <1>4 DEF Untouched
    <3> QED BY <2>1, <3>1, <3>2, <3>3, <3>4
  <2>2. CASE d # c
    <3>1. num'[d] = num[d] /\ num[d] # 0 /\ linked'[d] = linked[d] /\ received'[d] = received[d]
      BY <1>1, <1>3, <2>2
    <3>2. Silent(d) => Silent(d)'
      BY <1>7, <2>2, <3>1, BehindSilent
    <3>3. \A k : Rises(k, d)' <=> Rises(k, d)
      BY <1>1, <3>1 DEF Rises
    <3>4. NotRisen(d) => NotRisen(d)'
      BY <1>1, <3>3 DEF NotRisen
    <3>5. Waits(d)' => Waits(d)
      BY <1>14, <2>2
    <3>6. ASSUME NEW k \in DOMAIN toCamera', Opens(toCamera'[k], num[d]), toCamera'[k].owner = d
          PROVE  k \in DOMAIN toCamera /\ Opens(toCamera[k], num[d]) /\ toCamera[k].owner = d
      BY <1>7, <2>2, <3>6 DEF Behind
    <3>7. Waits(d)' => Silent(d)' /\ NotRisen(d)' /\ cam'[num'[d]] # d
      BY <1>1, <3>1, <3>2, <3>4, <3>5 DEF IInv, Begins
    <3>8. \A k \in DOMAIN toCamera' :
             Opens(toCamera'[k], num'[d]) /\ toCamera'[k].owner = d =>
                Silent(d)' /\ NotRisen(d)' /\ cam'[num'[d]] # d
      BY <1>1, <3>1, <3>2, <3>4, <3>6 DEF IInv, Begins
    <3>9. \A k \in DOMAIN main : Rises(k, d)' =>
             Silent(d)' /\ \A l \in DOMAIN main : Rises(l, d)' => k = l
      BY <3>1, <3>2, <3>3 DEF IInv, Begins
    <3> QED BY <3>7, <3>8, <3>9
  <2> QED BY <2>1, <2>2
<1>19. Streams'
  <2> SUFFICES ASSUME NEW d \in Conns, num'[d] # 0, cam[num'[d]] = d
               PROVE  Stream(d)'
    BY <1>1 DEF Streams
  <2>1. d # c
    BY <1>2, <1>3, <1>4 DEF Untouched
  <2>2. num'[d] = num[d] /\ Stream(d)
    BY <1>3, <2>1 DEF IInv, Streams
  <2>3. /\ sent[d] \in Nat /\ sent'[d] \in Nat /\ sent[d] <= sent'[d] /\ sent'[d] = sent[d]
        /\ linked'[d] = linked[d] /\ local'[d] = local[d] /\ received'[d] = received[d]
    BY <1>1, <1>3, <2>1, Held DEF ChannelTypes
  <2> QED BY <1>7, <2>1, <2>2, <2>3, BehindStream
<1>20. InOrder'
  BY <1>1 DEF IInv, InOrder
<1> QED BY <1>1, <1>9, <1>10, <1>12, <1>13, <1>16, <1>17, <1>18, <1>19, <1>20
        DEF IInv, NeverMixed, Tables


-----------------------------------------------------------------------------
(* Steps of the camera: the first frame under way goes, and a block with   *)
(* what the camera says comes on the main queue.                           *)

(* Frames are left when none goes, and when the first one goes. *)
LEMMA FramesThere ==
    ASSUME Sequences, toCamera' = toCamera \/ (toCamera # <<>> /\ toCamera' = Tail(toCamera))
    PROVE  FramesLeft
<1>1. CASE toCamera' = toCamera
  <2>1. 0 \in Nat /\ \A k \in DOMAIN toCamera' :
           k + 0 \in DOMAIN toCamera /\ toCamera'[k] = toCamera[k + 0]
    <3>1. \A k \in DOMAIN toCamera : k + 0 = k
      BY DEF Sequences
    <3> QED BY <1>1, <3>1
  <2> QED BY <2>1 DEF FramesLeft
<1>2. CASE toCamera # <<>> /\ toCamera' = Tail(toCamera)
  <2>1. 1 \in Nat /\ \A k \in DOMAIN toCamera' :
           k + 1 \in DOMAIN toCamera /\ toCamera'[k] = toCamera[k + 1]
    BY <1>2, TailShape DEF Sequences
  <2> QED BY <2>1 DEF FramesLeft
<1> QED BY <1>1, <1>2

(* The chunks of a connection when the first frame that goes is not one.   *)
LEMMA TailStream ==
    ASSUME toCamera \in Seq(FrameSet), toCamera # <<>>, toCamera' = Tail(toCamera), NEW d,
           Got(d) \in Nat, sent[d] \in 0 .. MaxData,
           num'[d] = num[d], received'[d] = received[d], sent'[d] = sent[d],
           linked'[d] = linked[d], local'[d] = local[d], Stream(d),
           \A n \in 1 .. MaxData : ~ Chunk(1, d, n)
    PROVE  Stream(d)'
<1>1. /\ \A k \in DOMAIN toCamera' : k + 1 \in DOMAIN toCamera /\ toCamera'[k] = toCamera[k + 1]
      /\ \A k \in DOMAIN toCamera : k # 1 =>
            k - 1 \in DOMAIN toCamera' /\ toCamera'[k - 1] = toCamera[k]
      /\ \A k \in DOMAIN toCamera' : k \in Nat
  BY TailShape
<1>2. \A k \in DOMAIN toCamera' : \A n : Chunk(k, d, n)' => Chunk(k + 1, d, n)
  BY <1>1 DEF Chunk
<1>3. ASSUME NEW m \in 1 .. MaxData, UnderWay(d, m) PROVE UnderWay(d, m)'
  <2>1. PICK l \in DOMAIN toCamera : Chunk(l, d, m)
    BY <1>3 DEF UnderWay
  <2>2. l # 1
    BY <2>1
  <2>3. l - 1 \in DOMAIN toCamera' /\ toCamera'[l - 1] = toCamera[l]
    BY <1>1, <2>2
  <2>4. Chunk(l - 1, d, m)'
    BY <2>1, <2>3 DEF Chunk
  <2> QED BY <2>3, <2>4 DEF UnderWay
<1>4. Got(d)' = Got(d)
  BY DEF Got
<1>5. MaxData \in Nat
  BY ConstantsAssumption
<1>6. ASSUME NEW k \in DOMAIN toCamera', NEW n \in 1 .. MaxData, Chunk(k, d, n)'
      PROVE  /\ Got(d)' < n /\ n <= sent'[d]
             /\ \A m \in Got(d)' + 1 .. n : UnderWay(d, m)'
  <2>1. /\ Got(d) < n /\ n <= sent[d]
        /\ \A m \in Got(d) + 1 .. n : UnderWay(d, m)
    BY <1>1, <1>2, <1>6 DEF Stream
  <2>2. \A m \in Got(d) + 1 .. n : m \in 1 .. MaxData
    BY <1>5
  <2> QED BY <1>3, <1>4, <2>1, <2>2
<1>7. ASSUME NEW k \in DOMAIN toCamera', NEW l \in DOMAIN toCamera',
             NEW n \in 1 .. MaxData, NEW m \in 1 .. MaxData,
             Chunk(k, d, n)', Chunk(l, d, m)', k < l
      PROVE  n < m
  <2>1. k + 1 < l + 1 /\ k + 1 \in DOMAIN toCamera /\ l + 1 \in DOMAIN toCamera
    BY <1>1, <1>7
  <2>2. Chunk(k + 1, d, n) /\ Chunk(l + 1, d, m)
    BY <1>2, <1>7
  <2> QED BY <2>1, <2>2 DEF Stream
<1>8. linked'[d] /\ local'[d] = "open" =>
         \A m \in Got(d)' + 1 .. sent'[d] : UnderWay(d, m)'
  <2>1. linked[d] /\ local[d] = "open" => \A m \in Got(d) + 1 .. sent[d] : UnderWay(d, m)
    BY DEF Stream
  <2>2. \A m \in Got(d) + 1 .. sent[d] : m \in 1 .. MaxData
    BY <1>5
  <2> QED BY <1>3, <1>4, <2>1, <2>2
<1> QED BY <1>6, <1>7, <1>8 DEF Stream

(* A block from the camera, of which it is known what it is about.         *)
Comes(b, i) ==
    /\ b \in BlockSet /\ IsRead(b) /\ FromCamera(b.frame) /\ main' = Append(main, b)
    /\ \A j : About(b.frame, j) <=> j = i

(* What is on the main queue when a block has come: what was, and the      *)
(* block.                                                                  *)
LEMMA ComesIs ==
    ASSUME Sequences, NEW b, NEW i, Comes(b, i)
    PROVE  /\ \A k \in DOMAIN main' : \/ k \in DOMAIN main /\ main'[k] = main[k]
                                      \/ k = Len(main) + 1 /\ main'[k] = b
           /\ DOMAIN main = 1 .. Len(main) /\ Len(main) \in Nat
           /\ \A j, n : j # i /\ NothingRead(j, n) => NothingRead(j, n)'
<1>1. /\ DOMAIN main = 1 .. Len(main) /\ Len(main) \in Nat
      /\ DOMAIN main' = 1 .. Len(main) + 1 /\ main'[Len(main) + 1] = b
      /\ \A k \in DOMAIN main : main'[k] = main[k]
  BY AppendShape DEF Sequences, Comes
<1>2. \A k \in DOMAIN main' : \/ k \in DOMAIN main /\ main'[k] = main[k]
                              \/ k = Len(main) + 1 /\ main'[k] = b
  BY <1>1
<1>3. ASSUME NEW j, NEW n, j # i, NothingRead(j, n),
             NEW k \in DOMAIN main', k >= n, IsRead(main'[k])
      PROVE  ~ About(main'[k].frame, j)
  BY <1>2, <1>3 DEF NothingRead, Comes
<1> QED BY <1>1, <1>2, <1>3 DEF NothingRead

(* The frames stay such frames, when a block comes. *)
LEMMA ComesFrames ==
    ASSUME Frames, Sequences', NEW b, NEW i, Comes(b, i), FramesLeft
    PROVE  Frames'
<1>0. Sequences
  BY DEF Frames, Sequences
<1>1. PICK s \in Nat : \A k \in DOMAIN toCamera' :
         k + s \in DOMAIN toCamera /\ toCamera'[k] = toCamera[k + s]
  BY DEF FramesLeft
<1>2. \A k \in DOMAIN toCamera' : ToCamera(toCamera'[k])
  BY <1>1 DEF Frames
<1>3. \A k \in DOMAIN main' : IsRead(main'[k]) => FromCamera(main'[k].frame)
  <2>1. \A k \in DOMAIN main : IsRead(main[k]) => FromCamera(main[k].frame)
    BY DEF Frames
  <2>2. FromCamera(b.frame)
    BY DEF Comes
  <2> QED BY <1>0, <2>1, <2>2, ComesIs
<1>4. (\A k \in DOMAIN toCamera : ToCamera(toCamera[k]))'
  BY <1>2 DEF ToCamera, Opens, Deletes, Carries, Says
<1>5. (\A k \in DOMAIN main : IsRead(main[k]) => FromCamera(main[k].frame))'
  BY <1>3 DEF FromCamera, IsRead, Ups, Downs, Carries, Says
<1> QED BY <1>4, <1>5 DEF Frames, Sequences

(* The order of the main queue, when a block comes over the server's link. *)
LEMMA ComesLinks ==
    ASSUME IInv, up, conn = link, NEW b, NEW i, Comes(b, i),
           UNCHANGED <<link, up, conn, pendingConnectChannels>>
    PROVE  Links'
<1>1. OnlyReads /\ Known /\ conn <= link /\ link > 0 /\ pendingConnectChannels' = <<>>
      /\ conn # 0
  BY Held DEF IInv, Links
<1>2. OnlyReads' /\ Ordered' /\ Known'
  BY <1>1, Held, OrderAppended DEF Comes, IsRead
<1> QED BY <1>1, <1>2 DEF Links

(* The numbers stay right, when a block comes about one that is taken. *)
LEMMA ComesNumbers ==
    ASSUME Numbers, Frames, Sequences', NEW i \in Ids, NEW b, Comes(b, i), FramesLeft, ids' = ids,
           \A j \in Ids : j # i => cam'[j] = cam[j],
           i \in UserIds => /\ ids[i]
                            /\ \A k \in DOMAIN main :
                                  IsRead(main[k]) => ~ Downs(main[k].frame, i)
                            /\ Downs(b.frame, i) => Unknown(i)'
                            /\ cam'[i] # Nobody => NotOpened(i)'
    PROVE  Numbers'
<1>0. Sequences
  BY DEF Frames, Sequences
<1>1. PICK s \in Nat : \A k \in DOMAIN toCamera' :
         k + s \in DOMAIN toCamera /\ toCamera'[k] = toCamera[k + s]
  BY DEF FramesLeft
<1>2. /\ \A k \in DOMAIN main' : \/ k \in DOMAIN main /\ main'[k] = main[k]
                                 \/ k = Len(main) + 1 /\ main'[k] = b
      /\ DOMAIN main = 1 .. Len(main) /\ Len(main) \in Nat
      /\ \A j, n : j # i /\ NothingRead(j, n) => NothingRead(j, n)'
  BY <1>0, ComesIs
<1>3. \A k \in DOMAIN toCamera' : k \in Nat
  BY DEF Sequences
<1> SUFFICES ASSUME NEW j \in UserIds
             PROVE  /\ ~ ids'[j] => Unknown(j)' /\ NothingRead(j, 1)'
                    /\ \A k \in DOMAIN main' : IsRead(main'[k]) /\ Downs(main'[k].frame, j) =>
                          Unknown(j)' /\ NothingRead(j, k + 1)'
                    /\ cam'[j] # Nobody => NotOpened(j)'
                    /\ \A k, l \in DOMAIN toCamera' :
                          Opens(toCamera'[k], j) /\ Opens(toCamera'[l], j) => k = l
                    /\ \A k, l \in DOMAIN toCamera', n \in 1 .. MaxData :
                          Carries(toCamera'[k], j, n) /\ Opens(toCamera'[l], j) => k < l
  BY DEF Numbers
<1>4. j \in Ids
  BY NumberSets
<1>5. NotOpened(j) => NotOpened(j)'
  BY <1>1 DEF NotOpened
<1>6. j # i /\ Unknown(j) => Unknown(j)'
  BY <1>4, <1>5 DEF Unknown
<1>7. ~ ids'[j] => Unknown(j)' /\ NothingRead(j, 1)'
  BY <1>2, <1>6 DEF Numbers
<1>8. ASSUME NEW k \in DOMAIN main', IsRead(main'[k]), Downs(main'[k].frame, j)
      PROVE  Unknown(j)' /\ NothingRead(j, k + 1)'
  <2>1. CASE k \in DOMAIN main /\ main'[k] = main[k]
    <3>1. j # i /\ Unknown(j) /\ NothingRead(j, k + 1)
      BY <1>8, <2>1 DEF Numbers
    <3> QED BY <1>2, <1>6, <3>1
  <2>2. CASE k = Len(main) + 1 /\ main'[k] = b
    <3>1. About(b.frame, j)
      BY <1>8, <2>2, AboutMeans DEF Comes
    <3>2. j = i
      BY <3>1 DEF Comes
    <3>3. Unknown(j)'
      BY <1>8, <2>2, <3>2
    <3>4. NothingRead(j, k + 1)'
      <4>1. \A l \in DOMAIN main' : ~ (l >= k + 1)
        BY <1>2, <2>2
      <4> QED BY <4>1 DEF NothingRead
    <3> QED BY <3>3, <3>4
  <2> QED BY <1>2, <2>1, <2>2
<1>9. cam'[j] # Nobody => NotOpened(j)'
  BY <1>4, <1>5 DEF Numbers
<1>10. ASSUME NEW k \in DOMAIN toCamera', NEW l \in DOMAIN toCamera',
              Opens(toCamera'[k], j), Opens(toCamera'[l], j)
       PROVE  k = l
  <2>1. /\ k + s \in DOMAIN toCamera /\ toCamera'[k] = toCamera[k + s]
        /\ l + s \in DOMAIN toCamera /\ toCamera'[l] = toCamera[l + s]
    BY <1>1
  <2>2. k + s = l + s
    BY <1>10, <2>1 DEF Numbers
  <2> QED BY <1>3, <2>2
<1>11. ASSUME NEW k \in DOMAIN toCamera', NEW l \in DOMAIN toCamera', NEW n \in 1 .. MaxData,
              Carries(toCamera'[k], j, n), Opens(toCamera'[l], j)
       PROVE  k < l
  <2>1. /\ k + s \in DOMAIN toCamera /\ toCamera'[k] = toCamera[k + s]
        /\ l + s \in DOMAIN toCamera /\ toCamera'[l] = toCamera[l + s]
    BY <1>1
  <2>2. k + s < l + s
    BY <1>11, <2>1 DEF Numbers
  <2> QED BY <1>3, <2>2
<1> QED BY <1>7, <1>8, <1>9, <1>10, <1>11

(* Frames and channels stay their connection's, when a block of it comes. *)
LEMMA ComesOwners ==
    ASSUME Owners, Sequences, NEW i \in Ids, NEW b, Comes(b, i), FramesLeft,
           UNCHANGED <<num, connMap>>, \A j \in Ids : j # i => cam'[j] = cam[j],
           i \in UserIds => /\ Its(b.frame.owner, i)
                            /\ cam'[i] # Nobody => Its(cam'[i], i)
                            /\ \A k \in DOMAIN toCamera', n \in 1 .. MaxData :
                                  Carries(toCamera'[k], i, n) =>
                                     cam'[i] \in {toCamera'[k].owner, Nobody}
    PROVE  Owners'
<1>1. PICK s \in Nat : \A k \in DOMAIN toCamera' :
         k + s \in DOMAIN toCamera /\ toCamera'[k] = toCamera[k + s]
  BY DEF FramesLeft
<1>2. \A k \in DOMAIN main' : \/ k \in DOMAIN main /\ main'[k] = main[k]
                              \/ k = Len(main) + 1 /\ main'[k] = b
  BY ComesIs
<1>3. \A j \in Ids : connMap'[j] # Nobody => num'[connMap'[j]] = j
  BY DEF Owners
<1>4. ASSUME NEW j \in UserIds
      PROVE  /\ \A k \in DOMAIN main' : IsRead(main'[k]) /\ About(main'[k].frame, j) =>
                   ItsThen(main'[k].frame.owner, j)
             /\ cam'[j] # Nobody => ItsThen(cam'[j], j)
             /\ \A k \in DOMAIN toCamera' :
                   /\ Opens(toCamera'[k], j) => ItsThen(toCamera'[k].owner, j)
                   /\ \A n \in 1 .. MaxData : Carries(toCamera'[k], j, n) =>
                         num'[toCamera'[k].owner] = j /\ cam'[j] \in {toCamera'[k].owner, Nobody}
  <2>1. j \in Ids
    BY NumberSets
  <2>2. \A d : Its(d, j) => ItsThen(d, j)
    BY DEF Its, ItsThen
  <2>3. ASSUME NEW k \in DOMAIN main', IsRead(main'[k]), About(main'[k].frame, j)
        PROVE  ItsThen(main'[k].frame.owner, j)
    <3>1. CASE k \in DOMAIN main /\ main'[k] = main[k]
      BY <2>2, <2>3, <3>1 DEF Owners
    <3>2. CASE main'[k] = b
      <4>1. j = i
        BY <2>3, <3>2 DEF Comes
      <4> QED BY <2>2, <3>2, <4>1
    <3> QED BY <1>2, <3>1, <3>2
  <2>4. cam'[j] # Nobody => ItsThen(cam'[j], j)
    BY <2>1, <2>2 DEF Owners
  <2>5. ASSUME NEW k \in DOMAIN toCamera'
        PROVE  /\ Opens(toCamera'[k], j) => ItsThen(toCamera'[k].owner, j)
               /\ \A n \in 1 .. MaxData : Carries(toCamera'[k], j, n) =>
                     num'[toCamera'[k].owner] = j /\ cam'[j] \in {toCamera'[k].owner, Nobody}
    <3>1. /\ Opens(toCamera'[k], j) => Its(toCamera'[k].owner, j)
          /\ \A n \in 1 .. MaxData : Carries(toCamera'[k], j, n) =>
                num[toCamera'[k].owner] = j /\ cam[j] \in {toCamera'[k].owner, Nobody}
      BY <1>1 DEF Owners
    <3>2. j # i => cam'[j] = cam[j]
      BY <2>1
    <3> QED BY <2>2, <3>1, <3>2
  <2> QED BY <2>3, <2>4, <2>5
<1> QED BY <1>3, <1>4 DEF Owners, Its, ItsThen

(* The connections keep their numbers, when a block comes. *)
LEMMA ComesConnections ==
    ASSUME Connections, Sequences, NEW i \in Ids, NEW b, Comes(b, i), FramesLeft,
           UNCHANGED <<local, sent, num, linked, pendingBuf, ids, connMap>>,
           UNCHANGED <<pendingConnectChannels, channels, received>>,
           \A d \in Conns : Untouched(d) =>
              b.frame.owner # d /\ \A j \in Ids : cam'[j] # d
    PROVE  Connections'
<1>1. PICK s \in Nat : \A k \in DOMAIN toCamera' :
         k + s \in DOMAIN toCamera /\ toCamera'[k] = toCamera[k + s]
  BY DEF FramesLeft
<1>2. \A k \in DOMAIN main' : \/ k \in DOMAIN main /\ main'[k] = main[k]
                              \/ k = Len(main) + 1 /\ main'[k] = b
  BY ComesIs
<1>3. \A d : (Waits(d)' <=> Waits(d)) /\ (HasNumber(d)' <=> HasNumber(d))
  BY DEF Waits, HasNumber
<1>4. ASSUME NEW d \in Conns, local'[d] = "none" PROVE Untouched(d)'
  <2>1. Untouched(d)
    BY <1>4 DEF Connections
  <2>2. \A k \in DOMAIN toCamera' : toCamera'[k].owner # d
    BY <1>1, <2>1 DEF Untouched
  <2>3. \A k \in DOMAIN main' : IsRead(main'[k]) => main'[k].frame.owner # d
    BY <1>2, <2>1 DEF Untouched
  <2> QED BY <1>3, <2>1, <2>2, <2>3 DEF Untouched
<1> QED BY <1>3, <1>4 DEF Connections

(* Connections still to be announced or answered stay silent, when a block *)
(* comes that answers no announcement.                                     *)
LEMMA ComesBegins ==
    ASSUME Begins, Sequences, NEW i \in Ids, NEW b, Comes(b, i), FramesLeft, CamLeft,
           UNCHANGED <<num, linked, pendingConnectChannels, received>>,
           num \in [Conns -> {0} \cup UserIds], \A j : ~ Ups(b.frame, j)
    PROVE  Begins'
<1>1. PICK s \in Nat : \A k \in DOMAIN toCamera' :
         k + s \in DOMAIN toCamera /\ toCamera'[k] = toCamera[k + s]
  BY DEF FramesLeft
<1>2. \A k \in DOMAIN main' : \/ k \in DOMAIN main /\ main'[k] = main[k]
                              \/ k = Len(main) + 1 /\ main'[k] = b
  BY ComesIs
<1> SUFFICES ASSUME NEW d \in Conns, num[d] # 0
             PROVE  /\ Waits(d)' => Silent(d)' /\ NotRisen(d)' /\ cam'[num'[d]] # d
                    /\ \A k \in DOMAIN toCamera' :
                          Opens(toCamera'[k], num'[d]) /\ toCamera'[k].owner = d =>
                              Silent(d)' /\ NotRisen(d)' /\ cam'[num'[d]] # d
                    /\ \A k \in DOMAIN main' : Rises(k, d)' =>
                          Silent(d)' /\ \A l \in DOMAIN main' : Rises(l, d)' => k = l
  BY DEF Begins
<1>3. \A k \in DOMAIN main' : Rises(k, d)' => k \in DOMAIN main /\ Rises(k, d)
  BY <1>2 DEF Rises
<1>4. NotRisen(d) => NotRisen(d)'
  BY <1>3 DEF NotRisen
<1>5. Silent(d) => Silent(d)'
  BY LeftSilent
<1>6. cam[num[d]] # d => cam'[num'[d]] # d
  BY NumberSets DEF CamLeft
<1>7. Waits(d)' => Waits(d)
  BY DEF Waits
<1>8. \A k \in DOMAIN toCamera' : Opens(toCamera'[k], num'[d]) /\ toCamera'[k].owner = d =>
         Silent(d)' /\ NotRisen(d)' /\ cam'[num'[d]] # d
  BY <1>1, <1>4, <1>5, <1>6 DEF Begins
<1>9. Waits(d)' => Silent(d)' /\ NotRisen(d)' /\ cam'[num'[d]] # d
  BY <1>4, <1>5, <1>6, <1>7 DEF Begins
<1>10. \A k \in DOMAIN main' : Rises(k, d)' =>
          Silent(d)' /\ \A l \in DOMAIN main' : Rises(l, d)' => k = l
  BY <1>3, <1>5 DEF Begins
<1> QED BY <1>8, <1>9, <1>10


(* What every step with which the camera says something about a number     *)
(* preserves: i is the number, b the block.                                *)
LEMMA SpeaksStep ==
    ASSUME IInv, Sequences', NEW i \in Ids, NEW b, Comes(b, i), up, conn = link,
           UNCHANGED <<local, sent, num, linked, pendingBuf, ids, connMap>>,
           UNCHANGED <<pendingConnectChannels, conn, channels, link, up, received>>,
           toCamera' = toCamera \/ (toCamera # <<>> /\ toCamera' = Tail(toCamera)),
           \A j \in Ids : j # i => cam'[j] = cam[j],
           i \in UserIds => /\ ids[i]
                            /\ \A k \in DOMAIN main :
                                  IsRead(main[k]) => ~ Downs(main[k].frame, i)
                            /\ Downs(b.frame, i) => Unknown(i)'
                            /\ cam'[i] # Nobody => NotOpened(i)'
                            /\ Its(b.frame.owner, i)
                            /\ cam'[i] # Nobody => Its(cam'[i], i)
                            /\ \A k \in DOMAIN toCamera', n \in 1 .. MaxData :
                                  Carries(toCamera'[k], i, n) =>
                                     cam'[i] \in {toCamera'[k].owner, Nobody},
           \A d \in Conns : Untouched(d) => b.frame.owner # d /\ cam'[i] # d
    PROVE  /\ Frames' /\ Numbers' /\ Owners' /\ Connections' /\ Kept' /\ InOrder'
           /\ Links' /\ FramesLeft
<1>1. Sequences /\ Frames /\ Numbers /\ Owners /\ Connections
  BY Held DEF IInv
<1>2. FramesLeft
  BY <1>1, FramesThere
<1>3. Frames'
  BY <1>1, <1>2, ComesFrames
<1>4. Links'
  BY ComesLinks
<1>5. Numbers'
  BY <1>1, <1>2, ComesNumbers
<1>6. Owners'
  BY <1>1, <1>2, ComesOwners
<1>7. Connections'
  <2>1. ASSUME NEW d \in Conns, Untouched(d), NEW j \in Ids
        PROVE  b.frame.owner # d /\ cam'[j] # d
    BY <2>1 DEF Untouched
  <2>2. \A d \in Conns : Untouched(d) => b.frame.owner # d
    OBVIOUS
  <2> QED BY <1>1, <1>2, <2>1, <2>2, ComesConnections
<1>8. Kept' /\ InOrder'
  BY DEF IInv, Kept, InOrder
<1> QED BY <1>2, <1>3, <1>4, <1>5, <1>6, <1>7, <1>8

(* The streams, when the first frame under way goes.                       *)
LEMMA TailStreams ==
    ASSUME IInv, toCamera # <<>>, toCamera' = Tail(toCamera),
           UNCHANGED <<num, linked, local, sent>>,
           \A d \in Conns : num[d] # 0 /\ cam'[num[d]] = d =>
              \/ Stream(d)'
              \/ /\ cam[num[d]] = d /\ received'[d] = received[d]
                 /\ \A n \in 1 .. MaxData : ~ Chunk(1, d, n)
    PROVE  Streams'
<1> SUFFICES ASSUME NEW d \in Conns, num[d] # 0, cam'[num[d]] = d, ~ Stream(d)'
             PROVE  FALSE
  BY DEF Streams
<1>1. /\ cam[num[d]] = d /\ received'[d] = received[d]
      /\ \A n \in 1 .. MaxData : ~ Chunk(1, d, n)
  OBVIOUS
<1>2. Stream(d)
  BY <1>1 DEF IInv, Streams
<1>3. sent[d] \in 0 .. MaxData /\ received[d] \in Seq(1 .. MaxData)
  BY Held DEF ChannelTypes, CameraTypes
<1>4. Got(d) \in Nat
  BY <1>3 DEF Got
<1>5. toCamera \in Seq(FrameSet)
  BY Held DEF Sequences
<1> QED BY <1>1, <1>2, <1>3, <1>4, <1>5, TailStream

(* What the camera has is of the connection that has the number.           *)
LEMMA CameraHas ==
    ASSUME IInv, NEW i \in Ids, cam[i] # Nobody
    PROVE  /\ up /\ conn = link /\ cam[i] \in Conns
           /\ i \in UserIds => /\ ids[i] /\ NotOpened(i) /\ Its(cam[i], i)
                               /\ \A k \in DOMAIN main :
                                     IsRead(main[k]) => ~ Downs(main[k].frame, i)
           /\ \A d \in Conns : Untouched(d) => cam[i] # d
<1>1. up /\ conn = link
  BY LiveLink
<1>2. cam[i] \in Conns
  BY Held DEF CameraTypes
<1>3. ASSUME i \in UserIds
      PROVE  /\ ids[i] /\ NotOpened(i) /\ Its(cam[i], i)
             /\ \A k \in DOMAIN main : IsRead(main[k]) => ~ Downs(main[k].frame, i)
  BY <1>3 DEF IInv, Numbers, Owners, Unknown
<1>4. \A d \in Conns : Untouched(d) => cam[i] # d
  BY DEF Untouched
<1> QED BY <1>1, <1>2, <1>3, <1>4

(* The camera sends data. *)
LEMMA DataComesStep ==
    ASSUME IInv, Sequences', NEW i \in Ids, CameraSends(i)
    PROVE  Tables' /\ Links' /\ NeverMixed'
<1> DEFINE f == Data(i, cam[i], 0)
           b == ReadBlock(f)
<1>1. /\ i \in UserIds /\ cam[i] # Nobody /\ main' = Append(main, b)
      /\ UNCHANGED <<local, sent, num, linked, pendingBuf, ids, connMap>>
      /\ UNCHANGED <<pendingConnectChannels, conn, channels, link, up, received>>
      /\ UNCHANGED <<toCamera, cam, mixed>>
  BY DEF CameraSends, localVars, channelVars, serverVars, linkVars, cameraVars
<1>2. /\ up /\ conn = link /\ cam[i] \in Conns
      /\ ids[i] /\ NotOpened(i) /\ Its(cam[i], i)
      /\ \A k \in DOMAIN main : IsRead(main[k]) => ~ Downs(main[k].frame, i)
      /\ \A d \in Conns : Untouched(d) => cam[i] # d
  BY <1>1, CameraHas
<1>3. f \in FrameSet /\ Carries(f, i, 0) /\ f.owner = cam[i]
  BY <1>1, <1>2, EncodedData
<1>4. b \in BlockSet /\ IsRead(b) /\ b.frame = f
  BY <1>3, Held, BlockTypes DEF ReadBlock, IsRead
<1> HIDE DEF f, b
<1>5. FromCamera(f) /\ \A j : About(f, j) <=> j = i
  <2>1. FromCamera(f)
    BY <1>1, <1>3 DEF FromCamera
  <2>2. ASSUME NEW j, About(f, j) PROVE j = i
    BY <1>3, <2>1, <2>2, AboutMeans, OneMeaning
  <2>3. About(f, i)
    BY <1>3, <2>1, AboutMeans
  <2> QED BY <2>1, <2>2, <2>3
<1>6. Comes(b, i)
  BY <1>1, <1>4, <1>5 DEF Comes
<1>7. ~ Downs(f, i) /\ \A j : ~ Ups(f, j)
  BY <1>3, OneMeaning
<1>8. NotOpened(i)' /\ Its(cam'[i], i)
  BY <1>1, <1>2 DEF NotOpened
<1>9. \A k \in DOMAIN toCamera', n \in 1 .. MaxData :
         Carries(toCamera'[k], i, n) => cam'[i] \in {toCamera'[k].owner, Nobody}
  BY <1>1 DEF IInv, Owners
<1>10. /\ Frames' /\ Numbers' /\ Owners' /\ Connections' /\ Kept' /\ InOrder'
       /\ Links' /\ FramesLeft
  BY <1>1, <1>2, <1>3, <1>4, <1>6, <1>7, <1>8, <1>9, SpeaksStep
<1>11. CamLeft
  BY <1>1 DEF CamLeft
<1>12. Begins'
  BY <1>1, <1>4, <1>6, <1>7, <1>10, <1>11, Held, ComesBegins DEF IInv
<1>13. Streams'
  BY <1>1, <1>11, Held, SameStreams DEF IInv
<1>14. NeverMixed'
  BY <1>1 DEF IInv, NeverMixed
<1> QED BY <1>10, <1>12, <1>13, <1>14 DEF Tables

(* The camera gives up a channel that it has, by itself or for a delete.   *)
LEMMA DropStep ==
    ASSUME IInv, Sequences', NEW i \in Ids, cam[i] # Nobody,
           cam' = [cam EXCEPT ![i] = Nobody],
           ToServer(icam_message_encode_channel_linkdown(i), cam[i]),
           UNCHANGED <<local, sent, num, linked, pendingBuf, ids, connMap>>,
           UNCHANGED <<pendingConnectChannels, conn, channels, link, up, received, mixed>>,
           \/ toCamera' = toCamera
           \/ /\ toCamera # <<>> /\ toCamera' = Tail(toCamera)
              /\ \E j \in Ids : Deletes(toCamera[1], j)
    PROVE  Tables' /\ Links' /\ NeverMixed'
<1> DEFINE f == Frame(icam_message_encode_channel_linkdown(i), cam[i])
           b == ReadBlock(f)
<1>1. main' = Append(main, b)
  BY DEF ToServer
<1>2. /\ up /\ conn = link /\ cam[i] \in Conns
      /\ i \in UserIds => /\ ids[i] /\ NotOpened(i) /\ Its(cam[i], i)
                          /\ \A k \in DOMAIN main :
                                IsRead(main[k]) => ~ Downs(main[k].frame, i)
      /\ \A d \in Conns : Untouched(d) => cam[i] # d
  BY CameraHas
<1>3. f \in FrameSet /\ Downs(f, i) /\ f.owner = cam[i]
  BY <1>2, Encoded DEF Frame
<1>4. b \in BlockSet /\ IsRead(b) /\ b.frame = f
  BY <1>3, Held, BlockTypes DEF ReadBlock, IsRead
<1> HIDE DEF f, b
<1>5. FromCamera(f) /\ \A j : About(f, j) <=> j = i
  <2>1. FromCamera(f)
    BY <1>3 DEF FromCamera
  <2>2. ASSUME NEW j, About(f, j) PROVE j = i
    BY <1>3, <2>1, <2>2, AboutMeans, OneMeaning
  <2>3. About(f, i)
    BY <1>3, <2>1, AboutMeans
  <2> QED BY <2>1, <2>2, <2>3
<1>6. Comes(b, i)
  BY <1>1, <1>4, <1>5 DEF Comes
<1>7. \A j : ~ Ups(f, j)
  BY <1>3, OneMeaning
<1>8. /\ cam'[i] = Nobody /\ \A j \in Ids : j # i => cam'[j] = cam[j]
      /\ \A d \in Conns : cam'[i] # d
  BY Held, NumberSets DEF CameraTypes
<1>9. FramesLeft
  BY Held, FramesThere
<1>10. i \in UserIds => Unknown(i)'
  <2>1. NotOpened(i) => NotOpened(i)'
    BY <1>9 DEF FramesLeft, NotOpened
  <2> QED BY <1>2, <1>8, <2>1 DEF Unknown
<1>11. toCamera' = toCamera \/ (toCamera # <<>> /\ toCamera' = Tail(toCamera))
  OBVIOUS
<1>12. Frames' /\ Numbers' /\ Owners' /\ Connections' /\ Kept' /\ InOrder' /\ Links'
  BY <1>2, <1>3, <1>4, <1>6, <1>8, <1>10, <1>11, SpeaksStep
<1>13. CamLeft
  BY <1>8 DEF CamLeft
<1>14. Begins'
  BY <1>4, <1>6, <1>7, <1>9, <1>13, Held, ComesBegins DEF IInv
<1>15. Streams'
  <2>1. CASE toCamera' = toCamera
    BY <1>13, <2>1, Held, SameStreams DEF IInv
  <2>2. CASE toCamera # <<>> /\ toCamera' = Tail(toCamera) /\ \E j \in Ids : Deletes(toCamera[1], j)
    <3>1. \A d, n : ~ Chunk(1, d, n)
      BY <2>2, OneMeaning DEF Chunk
    <3>2. ASSUME NEW d \in Conns, num[d] # 0, cam'[num[d]] = d PROVE cam[num[d]] = d
      <4>1. num[d] \in Ids /\ d # Nobody
        BY <3>2, Held, NumberSets
      <4> QED BY <1>13, <3>2, <4>1 DEF CamLeft
    <3> QED BY <2>2, <3>1, <3>2, TailStreams
  <2> QED BY <2>1, <2>2
<1>16. NeverMixed'
  BY DEF IInv, NeverMixed
<1> QED BY <1>12, <1>14, <1>15, <1>16 DEF Tables

(* The camera closes a channel by itself. *)
LEMMA DropsStep ==
    ASSUME IInv, Sequences', NEW i \in Ids, CameraCloses(i)
    PROVE  Tables' /\ Links' /\ NeverMixed'
<1>1. /\ cam[i] # Nobody /\ cam' = [cam EXCEPT ![i] = Nobody]
      /\ ToServer(icam_message_encode_channel_linkdown(i), cam[i])
      /\ UNCHANGED <<local, sent, num, linked, pendingBuf, ids, connMap>>
      /\ UNCHANGED <<pendingConnectChannels, conn, channels, link, up, received, mixed>>
      /\ toCamera' = toCamera
  BY DEF CameraCloses, localVars, channelVars, serverVars, linkVars
<1> QED BY <1>1, DropStep


(* What every step that only takes the first frame under way preserves.    *)
LEMMA TakenTables ==
    ASSUME IInv, Sequences', toCamera # <<>>, toCamera' = Tail(toCamera),
           UNCHANGED <<local, sent, num, linked, pendingBuf, ids, connMap>>,
           UNCHANGED <<pendingConnectChannels, conn, channels, link, up, main, cam>>,
           \A d \in Conns : /\ Untouched(d) => received'[d] = received[d]
                            /\ received'[d] = received[d] \/ ~ Silent(d)
    PROVE  Frames' /\ Numbers' /\ Owners' /\ Connections' /\ Begins' /\ Links' /\ Fewer
<1>1. Fewer
  <2>1. Sequences /\ FramesLeft /\ ReadsLeft
    BY Held, FramesThere, ReadsThere
  <2> QED BY <2>1 DEF Fewer, CamLeft
<1>2. Frames' /\ Numbers' /\ Owners'
  BY <1>1, FewerFrames, FewerNumbers, FewerOwners DEF IInv
<1>3. \A d : (Waits(d)' <=> Waits(d)) /\ (HasNumber(d)' <=> HasNumber(d))
  BY DEF Waits, HasNumber
<1>4. Begins'
  BY <1>1, <1>3, Held, FewerBegins DEF IInv
<1>5. Connections'
  <2>1. ASSUME NEW d \in Conns, local'[d] = "none" PROVE Untouched(d)'
    <3>1. Untouched(d)
      BY <2>1 DEF IInv, Connections
    <3> QED BY <1>1, <1>3, <3>1, FewerUntouched
  <2> QED BY <1>3, <2>1 DEF Connections, IInv
<1>6. Links'
  <2>1. up /\ conn = link
    BY LiveLink
  <2>2. Ordered' /\ Known' /\ (NoReads => NoReads') /\ (OnlyReads => OnlyReads')
    BY DEF IInv, Links, Ordered, Known, NoReads, OnlyReads
  <2> QED BY <2>1, <2>2 DEF IInv, Links
<1> QED BY <1>1, <1>2, <1>4, <1>5, <1>6

(* A frame that the camera has no use for. *)
LEMMA IgnoresStep ==
    ASSUME IInv, Sequences', toCamera # <<>>, toCamera' = Tail(toCamera),
           UNCHANGED <<local, sent, num, linked, pendingBuf, ids, connMap>>,
           UNCHANGED <<pendingConnectChannels, conn, channels, link, up, main, cam>>,
           UNCHANGED <<received, mixed>>,
           \A i, n : Carries(toCamera[1], i, n) => cam[i] = Nobody
    PROVE  Tables' /\ Links' /\ NeverMixed'
<1>1. Frames' /\ Numbers' /\ Owners' /\ Connections' /\ Begins' /\ Links'
  BY TakenTables
<1>2. Kept' /\ InOrder' /\ NeverMixed'
  BY DEF IInv, Kept, InOrder, NeverMixed
<1>3. ASSUME NEW d \in Conns, num[d] # 0, cam'[num[d]] = d
      PROVE  \A n : ~ Chunk(1, d, n)
  BY <1>3, NumberSets DEF Chunk
<1>4. Streams'
  BY <1>3, TailStreams
<1> QED BY <1>1, <1>2, <1>4 DEF Tables

(* The camera is told to delete a channel.  It says nothing of one that it *)
(* does not have.                                                          *)
LEMMA DeletesStep ==
    ASSUME IInv, Sequences', CameraDeletes, "answers" \notin Faults
    PROVE  Tables' /\ Links' /\ NeverMixed'
<1>0. PICK i : i = Arrived.channel_id
  OBVIOUS
<1>1. /\ toCamera # <<>> /\ toCamera' = Tail(toCamera)
      /\ Arrived.type = kPacketTypeDeleteChannel
      /\ UNCHANGED <<local, sent, num, linked, pendingBuf, ids, connMap>>
      /\ UNCHANGED <<pendingConnectChannels, conn, channels, link, up, received, mixed>>
      /\ cam' = [cam EXCEPT ![i] = Nobody]
      /\ cam[i] # Nobody => ToServer(icam_message_encode_channel_linkdown(i), cam[i])
      /\ cam[i] = Nobody => main' = main
  BY <1>0 DEF CameraDeletes, Takes, localVars, channelVars, serverVars, linkVars
<1>2. Head(toCamera) = toCamera[1] /\ ToCamera(toCamera[1])
  BY <1>1, HeadFrame DEF IInv
<1>3. i \in Ids /\ Deletes(toCamera[1], i)
  BY <1>0, <1>1, <1>2, ArrivedMeans DEF Arrived
<1>4. CASE cam[i] # Nobody
  BY <1>1, <1>3, <1>4, DropStep
<1>5. CASE cam[i] = Nobody
  <2>1. cam' = cam
    BY <1>1, <1>3, <1>5, Held DEF CameraTypes
  <2>2. \A j, n : ~ Carries(toCamera[1], j, n)
    BY <1>3, OneMeaning
  <2> QED BY <1>1, <1>5, <2>1, <2>2, IgnoresStep
<1> QED BY <1>4, <1>5

(* The camera opens a channel: nothing of the connection is under way yet. *)
LEMMA OpensStep ==
    ASSUME IInv, Sequences', CameraOpens
    PROVE  Tables' /\ Links' /\ NeverMixed'
<1>0. PICK i, c : i = Arrived.channel_id /\ c = Head(toCamera).owner
  OBVIOUS
<1> DEFINE f == Frame(icam_message_encode_channel_linkup(i), c)
           b == ReadBlock(f)
<1>1. /\ toCamera # <<>> /\ toCamera' = Tail(toCamera)
      /\ Arrived.type = kPacketTypeNewChannel
      /\ UNCHANGED <<local, sent, num, linked, pendingBuf, ids, connMap>>
      /\ UNCHANGED <<pendingConnectChannels, conn, channels, link, up, received, mixed>>
      /\ cam' = [cam EXCEPT ![i] = c] /\ main' = Append(main, b)
  BY <1>0 DEF CameraOpens, Takes, ToServer, localVars, channelVars, serverVars, linkVars
<1>2. Head(toCamera) = toCamera[1] /\ ToCamera(toCamera[1]) /\ 1 \in DOMAIN toCamera
  BY <1>1, HeadFrame DEF IInv
<1>3. /\ i \in Ids /\ Opens(toCamera[1], i)
      /\ c \in Conns /\ toCamera[1].owner = c
  BY <1>0, <1>1, <1>2, ArrivedMeans DEF Arrived, ToCamera
<1>4. up /\ conn = link /\ conn # 0 /\ pendingConnectChannels = <<>>
  BY <1>1, LiveLink
<1>5. f \in FrameSet /\ Ups(f, i) /\ f.owner = c
  BY <1>3, Encoded DEF Frame
<1>6. b \in BlockSet /\ IsRead(b) /\ b.frame = f
  BY <1>5, Held, BlockTypes DEF ReadBlock, IsRead
<1> HIDE DEF f, b
<1>7. Comes(b, i)
  <2>1. FromCamera(f)
    BY <1>3, <1>5 DEF FromCamera
  <2>2. ASSUME NEW j, About(f, j) PROVE j = i
    BY <1>5, <2>1, <2>2, AboutMeans, OneMeaning
  <2>3. About(f, i)
    BY <1>5, <2>1, AboutMeans
  <2> QED BY <1>1, <1>6, <2>1, <2>2, <2>3 DEF Comes
<1>8. \A k \in DOMAIN toCamera' :
         k + 1 \in DOMAIN toCamera /\ toCamera'[k] = toCamera[k + 1] /\ k \in Nat /\ k >= 1
  BY <1>1, Held, TailShape DEF Sequences
<1>9. cam'[i] = c /\ \A j \in Ids : j # i => cam'[j] = cam[j]
  BY <1>1, <1>3, Held DEF CameraTypes
<1>10. ASSUME i \in UserIds
       PROVE  /\ ids[i] /\ Its(c, i)
              /\ \A k \in DOMAIN main : IsRead(main[k]) => ~ Downs(main[k].frame, i)
              /\ NotOpened(i)'
              /\ \A k \in DOMAIN toCamera', n \in 1 .. MaxData : ~ Carries(toCamera'[k], i, n)
  <2>1. ~ NotOpened(i)
    BY <1>2, <1>3 DEF NotOpened
  <2>2. ids[i] /\ \A k \in DOMAIN main : IsRead(main[k]) => ~ Downs(main[k].frame, i)
    BY <1>10, <2>1 DEF IInv, Numbers, Unknown
  <2>3. Its(c, i)
    BY <1>2, <1>3, <1>10 DEF IInv, Owners
  <2>4. ASSUME NEW k \in DOMAIN toCamera', Opens(toCamera'[k], i) PROVE FALSE
    <3>1. k + 1 = 1
      BY <1>2, <1>3, <1>8, <1>10, <2>4 DEF IInv, Numbers
    <3> QED BY <1>8, <3>1
  <2>5. ASSUME NEW k \in DOMAIN toCamera', NEW n \in 1 .. MaxData, Carries(toCamera'[k], i, n)
        PROVE  FALSE
    <3>1. k + 1 < 1
      BY <1>2, <1>3, <1>8, <1>10, <2>5 DEF IInv, Numbers
    <3> QED BY <1>8, <3>1
  <2> QED BY <2>2, <2>3, <2>4, <2>5 DEF NotOpened
<1>11. \A d \in Conns : Untouched(d) => c # d
  BY <1>2, <1>3 DEF Untouched
<1>12. ~ Downs(f, i) /\ \A j : Ups(f, j) => j = i
  BY <1>5, OneMeaning
<1>13. Its(c, i) => Its(cam'[i], i)
  BY <1>9
<1>14. /\ Frames' /\ Numbers' /\ Owners' /\ Connections' /\ Kept' /\ InOrder'
       /\ Links' /\ FramesLeft
  BY <1>1, <1>3, <1>4, <1>5, <1>6, <1>7, <1>9, <1>10, <1>11, <1>12, <1>13, SpeaksStep
<1>15. \A d \in Conns : Silent(d) => Silent(d)'
  BY <1>1, <1>14, LeftSilent
<1>16. num[c] = i /\ num[c] # 0 => Silent(c) /\ NotRisen(c)
  BY <1>2, <1>3 DEF IInv, Begins
<1>17. \A k \in DOMAIN main' : \/ k \in DOMAIN main /\ main'[k] = main[k]
                               \/ k = Len(main) + 1 /\ main'[k] = b
  BY <1>7, Held, ComesIs
<1>18. Begins'
  <2> SUFFICES ASSUME NEW d \in Conns, num[d] # 0
               PROVE  /\ ~ Waits(d)'
                      /\ \A k \in DOMAIN toCamera' :
                            Opens(toCamera'[k], num'[d]) /\ toCamera'[k].owner = d =>
                                Silent(d)' /\ NotRisen(d)' /\ cam'[num'[d]] # d
                      /\ \A k \in DOMAIN main' : Rises(k, d)' =>
                            Silent(d)' /\ \A l \in DOMAIN main' : Rises(l, d)' => k = l
    BY <1>1 DEF Begins
  <2>1. ~ Waits(d)'
    BY <1>1, <1>4 DEF Waits
  <2>2. num[d] \in UserIds /\ num[d] \in Ids
    BY Held, NumberSets
  <2>3. \A k \in DOMAIN main' : Rises(k, d)' =>
           \/ k \in DOMAIN main /\ Rises(k, d)
           \/ k = Len(main) + 1 /\ d = c /\ num[d] = i
    BY <1>1, <1>5, <1>6, <1>12, <1>17 DEF Rises
  <2>4. ASSUME NEW k \in DOMAIN toCamera', Opens(toCamera'[k], num[d]), toCamera'[k].owner = d
        PROVE  Silent(d)' /\ NotRisen(d)' /\ cam'[num[d]] # d
    <3>1. Silent(d) /\ NotRisen(d) /\ cam[num[d]] # d
      BY <1>8, <2>4 DEF IInv, Begins
    <3>2. num[d] # i
      BY <1>10, <2>2, <2>4 DEF NotOpened
    <3>3. NotRisen(d)'
      BY <2>3, <3>1, <3>2 DEF NotRisen
    <3> QED BY <1>9, <1>15, <2>2, <3>1, <3>2, <3>3
  <2>5. ASSUME NEW k \in DOMAIN main', Rises(k, d)'
        PROVE  Silent(d)' /\ \A l \in DOMAIN main' : Rises(l, d)' => k = l
    <3>1. CASE d = c /\ num[d] = i
      <4>1. Silent(d) /\ NotRisen(d)
        BY <1>16, <3>1
      <4>2. \A l \in DOMAIN main' : Rises(l, d)' => l = Len(main) + 1
        BY <2>3, <4>1 DEF NotRisen
      <4> QED BY <1>15, <2>5, <4>1, <4>2
    <3>2. CASE ~ (d = c /\ num[d] = i)
      <4>1. \A l \in DOMAIN main' : Rises(l, d)' => l \in DOMAIN main /\ Rises(l, d)
        BY <2>3, <3>2
      <4>2. Silent(d) /\ \A l \in DOMAIN main : Rises(l, d) => k = l
        BY <2>5, <4>1 DEF IInv, Begins
      <4> QED BY <1>15, <4>1, <4>2
    <3> QED BY <3>1, <3>2
  <2> QED BY <1>1, <2>1, <2>4, <2>5
<1>19. Streams'
  <2>1. ASSUME NEW d \in Conns, num[d] # 0, cam'[num[d]] = d, num[d] = i
        PROVE  Stream(d)'
    <3>1. Silent(d)'
      BY <1>9, <1>15, <1>16, <2>1
    <3> QED BY <3>1 DEF Stream, Silent
  <2>2. ASSUME NEW d \in Conns, num[d] # 0, cam'[num[d]] = d, num[d] # i
        PROVE  cam[num[d]] = d
    BY <1>9, <2>2, Held, NumberSets
  <2>3. \A d, n : ~ Chunk(1, d, n)
    BY <1>3, OneMeaning DEF Chunk
  <2> QED BY <1>1, <2>1, <2>2, <2>3, TailStreams
<1>20. NeverMixed'
  BY <1>1 DEF IInv, NeverMixed
<1> QED BY <1>14, <1>18, <1>19, <1>20 DEF Tables


(* The stream, when the camera gets the next chunk.                        *)
LEMMA TakenStream ==
    ASSUME toCamera \in Seq(FrameSet), toCamera # <<>>, toCamera' = Tail(toCamera), NEW c,
           Got(c) \in Nat, sent[c] \in 0 .. MaxData, Stream(c),
           NEW n \in 1 .. MaxData, Chunk(1, c, n), n = Got(c) + 1, Got(c)' = n,
           num'[c] = num[c], sent'[c] = sent[c], linked'[c] = linked[c], local'[c] = local[c]
    PROVE  Stream(c)'
<1>1. /\ \A k \in DOMAIN toCamera' : k + 1 \in DOMAIN toCamera /\ toCamera'[k] = toCamera[k + 1]
      /\ \A k \in DOMAIN toCamera : k # 1 =>
            k - 1 \in DOMAIN toCamera' /\ toCamera'[k - 1] = toCamera[k]
      /\ \A k \in DOMAIN toCamera' : k \in Nat /\ k >= 1
      /\ 1 \in DOMAIN toCamera
  BY TailShape
<1>2. \A k \in DOMAIN toCamera' : \A m : Chunk(k, c, m)' => Chunk(k + 1, c, m)
  BY <1>1 DEF Chunk
<1>3. ASSUME NEW m \in 1 .. MaxData, UnderWay(c, m), m # n PROVE UnderWay(c, m)'
  <2>1. PICK l \in DOMAIN toCamera : Chunk(l, c, m)
    BY <1>3 DEF UnderWay
  <2>2. l # 1
    BY <1>3, <2>1, OneMeaning DEF Chunk
  <2>3. l - 1 \in DOMAIN toCamera' /\ toCamera'[l - 1] = toCamera[l]
    BY <1>1, <2>2
  <2>4. Chunk(l - 1, c, m)'
    BY <2>1, <2>3 DEF Chunk
  <2> QED BY <2>3, <2>4 DEF UnderWay
<1>4. MaxData \in Nat
  BY ConstantsAssumption
<1>5. ASSUME NEW k \in DOMAIN toCamera', NEW m \in 1 .. MaxData, Chunk(k, c, m)'
      PROVE  /\ n < m /\ m <= sent[c]
             /\ \A x \in n + 1 .. m : UnderWay(c, x)'
  <2>1. k + 1 \in DOMAIN toCamera /\ Chunk(k + 1, c, m) /\ 1 < k + 1
    BY <1>1, <1>2, <1>5
  <2>2. m <= sent[c] /\ \A x \in Got(c) + 1 .. m : UnderWay(c, x)
    BY <2>1 DEF Stream
  <2>3. n < m
    BY <1>1, <2>1 DEF Stream
  <2>4. \A x \in n + 1 .. m : x \in Got(c) + 1 .. m /\ x \in 1 .. MaxData /\ x # n
    BY <1>4
  <2> QED BY <1>3, <2>2, <2>3, <2>4
<1>6. ASSUME NEW k \in DOMAIN toCamera', NEW l \in DOMAIN toCamera',
             NEW x \in 1 .. MaxData, NEW m \in 1 .. MaxData,
             Chunk(k, c, x)', Chunk(l, c, m)', k < l
      PROVE  x < m
  <2>1. k + 1 < l + 1 /\ k + 1 \in DOMAIN toCamera /\ l + 1 \in DOMAIN toCamera
    BY <1>1, <1>6
  <2>2. Chunk(k + 1, c, x) /\ Chunk(l + 1, c, m)
    BY <1>2, <1>6
  <2> QED BY <2>1, <2>2 DEF Stream
<1>7. ASSUME linked'[c], local'[c] = "open", NEW m \in n + 1 .. sent[c]
      PROVE  UnderWay(c, m)'
  <2>1. \A x \in Got(c) + 1 .. sent[c] : UnderWay(c, x)
    BY <1>7 DEF Stream
  <2>2. m \in Got(c) + 1 .. sent[c] /\ m \in 1 .. MaxData /\ m # n
    BY <1>4
  <2> QED BY <1>3, <2>1, <2>2
<1> QED BY <1>5, <1>6, <1>7 DEF Stream

(* The camera gets a chunk: it is of the connection it stands for, and the *)
(* next one of it.                                                         *)
LEMMA ReceivesStep ==
    ASSUME IInv, Sequences', CameraReceives
    PROVE  Tables' /\ Links' /\ NeverMixed'
<1>0. PICK i, n, o : i = Arrived.channel /\ n = Arrived.data[2] /\ o = Arrived.data[1]
  OBVIOUS
<1>00. PICK c : c = cam[i]
  OBVIOUS
<1>1. /\ toCamera # <<>> /\ toCamera' = Tail(toCamera)
      /\ Arrived.type = Transport
      /\ UNCHANGED <<local, sent, num, linked, pendingBuf, ids, connMap>>
      /\ UNCHANGED <<pendingConnectChannels, conn, channels, link, up, main, cam>>
      /\ c = Nobody => UNCHANGED <<received, mixed>>
      /\ c # Nobody => /\ received' = [received EXCEPT ![c] = Append(@, n)]
                       /\ mixed' = (mixed \/ o # c)
  BY <1>0, <1>00 DEF CameraReceives, Takes, localVars, channelVars, serverVars, linkVars
<1>2. Head(toCamera) = toCamera[1] /\ ToCamera(toCamera[1]) /\ 1 \in DOMAIN toCamera
  BY <1>1, HeadFrame DEF IInv
<1>3. i \in UserIds /\ n \in 1 .. MaxData /\ o = toCamera[1].owner /\ Carries(toCamera[1], i, n)
  BY <1>0, <1>1, <1>2, ArrivedMeans DEF Arrived
<1>4. CASE c = Nobody
  <2>1. \A j, m : Carries(toCamera[1], j, m) => cam[j] = Nobody
    BY <1>3, <1>4, <1>00, OneMeaning
  <2> QED BY <1>1, <1>4, <2>1, IgnoresStep
<1>5. CASE c # Nobody
  <2>1. c \in Conns /\ o = c /\ num[c] = i /\ num[c] # 0 /\ cam[num[c]] = c
    <3>1. num[o] = i /\ c \in {o, Nobody}
      BY <1>2, <1>3, <1>00 DEF IInv, Owners
    <3>2. c \in Conns
      BY <1>3, <1>5, <1>00, CameraHas, NumberSets
    <3> QED BY <1>3, <1>5, <1>00, <3>1, <3>2, NumberSets
  <2>2. Chunk(1, c, n)
    BY <1>3, <2>1 DEF Chunk
  <2>3. Stream(c)
    BY <2>1 DEF IInv, Streams
  <2>4. received[c] \in Seq(1 .. MaxData) /\ sent[c] \in 0 .. MaxData
    BY <2>1, Held DEF CameraTypes, ChannelTypes
  <2>5. Got(c) \in Nat
    BY <2>4 DEF Got
  <2>6. Got(c) < n /\ n <= sent[c] /\ \A m \in Got(c) + 1 .. n : UnderWay(c, m)
    BY <1>2, <1>3, <2>2, <2>3 DEF Stream
  <2>7. n = Got(c) + 1
    <3> SUFFICES ASSUME Got(c) + 1 < n PROVE FALSE
      BY <1>3, <2>5, <2>6
    <3>1. PICK l \in DOMAIN toCamera : Chunk(l, c, Got(c) + 1)
      BY <1>3, <2>5, <2>6 DEF UnderWay
    <3>2. l # 1
      BY <1>3, <2>2, <2>5, <3>1, OneMeaning DEF Chunk
    <3>3. 1 < l
      BY <3>2, Held DEF Sequences
    <3>4. Got(c) + 1 \in 1 .. MaxData
      BY <1>3, <2>5, ConstantsAssumption
    <3>5. n < Got(c) + 1
      BY <1>2, <1>3, <2>2, <2>3, <3>1, <3>3, <3>4 DEF Stream
    <3> QED BY <1>3, <2>5, <3>5
  <2>8. /\ received'[c] = Append(received[c], n)
        /\ \A d \in Conns : d # c => received'[d] = received[d]
    BY <1>1, <1>5, <2>1, Held DEF CameraTypes
  <2>9. /\ Len(received'[c]) = n
        /\ \A k \in DOMAIN received'[c] : k # n => k \in DOMAIN received[c]
                                                   /\ received'[c][k] = received[c][k]
        /\ n \in DOMAIN received'[c] /\ received'[c][n] = n
    BY <1>3, <2>4, <2>7, <2>8, AppendShape DEF Got
  <2>10. ~ Silent(c) /\ ~ Untouched(c)
    <3>1. ~ Silent(c)
      BY <1>2, <1>3, <2>2 DEF Silent
    <3>2. ~ Untouched(c)
      BY <1>3, <1>00, <2>1, NumberSets DEF Untouched
    <3> QED BY <3>1, <3>2
  <2>11. Frames' /\ Numbers' /\ Owners' /\ Connections' /\ Begins' /\ Links'
    BY <1>1, <2>8, <2>10, TakenTables
  <2>12. Kept'
    <3>1. ASSUME NEW d \in Conns PROVE Len(received'[d]) <= sent'[d]
      BY <1>1, <2>6, <2>8, <2>9 DEF IInv, Kept
    <3>2. UNCHANGED <<pendingBuf, sent, linked, local>>
      BY <1>1
    <3> QED BY <3>1, <3>2 DEF IInv, Kept
  <2>13. InOrder'
    BY <2>8, <2>9 DEF IInv, InOrder
  <2>14. Stream(c)'
    <3>1. Got(c)' = n
      BY <2>9 DEF Got
    <3>2. toCamera \in Seq(FrameSet)
      BY Held DEF Sequences
    <3> QED BY <1>1, <1>3, <2>2, <2>3, <2>4, <2>5, <2>7, <3>1, <3>2, TakenStream
  <2>15. Streams'
    <3>1. ASSUME NEW d \in Conns, d # c, NEW m PROVE ~ Chunk(1, d, m)
      BY <1>3, <2>1, <3>1 DEF Chunk
    <3> QED BY <1>1, <2>8, <2>14, <3>1, TailStreams
  <2>16. NeverMixed'
    <3>1. ~ mixed
      BY DEF IInv, NeverMixed
    <3>2. ~ mixed'
      BY <1>1, <1>5, <2>1, <3>1
    <3> QED BY <3>2 DEF NeverMixed
  <2> QED BY <2>11, <2>12, <2>13, <2>15, <2>16 DEF Tables
<1> QED BY <1>4, <1>5



-----------------------------------------------------------------------------
(* The invariant.                                                          *)

(* It holds in the beginning: nothing is connected, taken or under way.    *)
LEMMA BeginsRight == Init => IInv
<1> SUFFICES ASSUME Init PROVE IInv
  OBVIOUS
<1>1. DOMAIN toCamera = {} /\ DOMAIN main = {} /\ DOMAIN pendingConnectChannels = {}
  BY DEF Init
<1>2. /\ Sequences /\ pendingConnectChannels \in Seq(Conns)
      /\ \A S : <<>> \in Seq(S)
  BY DEF Init, Sequences
<1>3. TypeOK
  <2>1. MaxData \in Nat /\ MaxLinks \in Nat
    BY ConstantsAssumption
  <2>2. ChannelTypes
    <3>1. 0 \in 0 .. MaxData /\ <<>> \in Seq(1 .. MaxData)
      BY <1>2, <2>1
    <3> QED BY <3>1 DEF Init, ChannelTypes
  <2>3. ServerTypes
    <3>1. 0 \in 0 .. MaxLinks
      BY <2>1
    <3> QED BY <1>2, <3>1 DEF Init, ServerTypes
  <2>4. FlagTypes
    BY DEF Init, FlagTypes
  <2>5. CameraTypes
    BY <1>2 DEF Init, CameraTypes
  <2> QED BY <1>2, <2>2, <2>3, <2>4, <2>5, TypesApart
<1>4. Frames
  BY <1>1, <1>2 DEF Frames, Sequences
<1>5. Links
  BY <1>1 DEF Init, Links, Ordered, Known, OnlyReads, NoReads, Idle
<1>6. \A i \in Ids : cam[i] = Nobody /\ connMap[i] = Nobody
  BY DEF Init
<1>7. Numbers /\ Owners
  BY <1>1, <1>6, NumberSets DEF Numbers, Unknown, NotOpened, NothingRead, Owners
<1>8. \A c \in Conns : /\ local[c] = "none" /\ sent[c] = 0 /\ ~ linked[c] /\ num[c] = 0
                       /\ pendingBuf[c] = <<>> /\ received[c] = <<>> /\ ~ Waits(c)
  BY <1>1 DEF Init, Waits
<1>9. Connections
  <2>1. \A c \in Conns, i \in Ids : connMap[i] # c /\ cam[i] # c
    BY <1>6, NumberSets
  <2> QED BY <1>1, <1>8, <2>1 DEF Connections, Untouched
<1>10. Kept
  <2>1. Len(<<>>) = 0 /\ DOMAIN <<>> = {}
    OBVIOUS
  <2> QED BY <1>8, <2>1 DEF Kept
<1>11. Begins /\ Streams
  BY <1>8 DEF Begins, Streams
<1>12. InOrder /\ NeverMixed
  BY <1>8 DEF Init, InOrder, NeverMixed
<1> QED BY <1>3, <1>4, <1>5, <1>7, <1>9, <1>10, <1>11, <1>12 DEF IInv

(* Every step keeps it, of a camera that confirms the delete of what it    *)
(* has and of nothing else.                                                *)
LEMMA Inductive ==
    ASSUME "answers" \notin Faults, IInv, [Next]_vars
    PROVE  IInv'
<1>1. TypeOK' /\ Sequences'
  BY TypeStep DEF IInv
<1>2. Tables' /\ Links' /\ NeverMixed'
  <2>1. CASE UNCHANGED vars
    <3>1. /\ UNCHANGED <<local, sent, num, linked, pendingBuf, ids, connMap, conn>>
          /\ UNCHANGED <<pendingConnectChannels, channels, main, link, up, toCamera>>
          /\ UNCHANGED <<cam, received, mixed>>
      BY <2>1 DEF vars, localVars, channelVars, serverVars, linkVars, cameraVars
    <3>2. Links' /\ ReadsLeft /\ Whole
      BY <3>1, SameLinks
    <3>3. Tables'
      BY <1>1, <3>1, <3>2, OpenOnesAreKnown, QuietStep DEF channelVars, serverVars
    <3>4. NeverMixed'
      BY <3>1 DEF IInv, NeverMixed
    <3> QED BY <3>2, <3>3, <3>4
  <2>2. CASE MainStep
    BY <1>1, <2>2, AcceptStep, DisconnectedStep, UpStep, DownStep, DataStep DEF MainStep
  <2>3. CASE CameraStep
    BY <1>1, <2>3, OpensStep, DeletesStep, ReceivesStep DEF CameraStep
  <2>4. ASSUME NEW c \in Conns, LocalConnects(c) \/ LocalSends(c) \/ LocalCloses(c)
        PROVE  Tables' /\ Links' /\ NeverMixed'
    BY <1>1, <2>4, ConnectionStep, SendsLinked, SendsUnlinked, ClosesStep
  <2>5. CASE CameraConnects \/ LinkLost \/ LossNoticed
    BY <1>1, <2>5, ConnectsStep, LostStep, NoticedStep
  <2>6. ASSUME NEW i \in Ids, CameraSends(i) \/ CameraCloses(i)
        PROVE  Tables' /\ Links' /\ NeverMixed'
    BY <1>1, <2>6, DataComesStep, DropsStep
  <2>7. CASE Pause \/ Resume
    BY <1>1, <2>7, PauseStep, ResumeStep
  <2> QED BY <2>1, <2>2, <2>3, <2>4, <2>5, <2>6, <2>7 DEF Next
<1> QED BY <1>1, <1>2 DEF IInv, Tables

(* The invariant of every behaviour. *)
THEOREM Invariance == "answers" \notin Faults => (Spec => []IInv)
<1> SUFFICES ASSUME "answers" \notin Faults PROVE Spec => []IInv
  OBVIOUS
<1>1. Init => IInv
  BY BeginsRight
<1>2. IInv /\ [Next]_vars => IInv'
  BY Inductive
<1> QED BY <1>1, <1>2, PTL DEF Spec

(* The tables of ICamServer and of the controller keep their types         *)
(* (ICamServer.m:41-133, ICamController.m:24-29).                          *)
THEOREM TypeCorrect == "answers" \notin Faults => (Spec => []TypeOK)
<1> SUFFICES ASSUME "answers" \notin Faults PROVE Spec => []TypeOK
  OBVIOUS
<1>1. IInv => TypeOK
  BY DEF IInv
<1>2. Spec => []IInv
  BY Invariance
<1> QED BY <1>1, <1>2, PTL

(* Data of one connection never reaches another: whatever is closed at     *)
(* either end, whatever frames are under way and however often a number is *)
(* used again (handleTransportData:from:, handlePeerChannelMessage:).      *)
THEOREM NeverMixes == "answers" \notin Faults => (Spec => []NeverMixed)
<1> SUFFICES ASSUME "answers" \notin Faults PROVE Spec => []NeverMixed
  OBVIOUS
<1>1. IInv => NeverMixed
  BY DEF IInv
<1>2. Spec => []IInv
  BY Invariance
<1> QED BY <1>1, <1>2, PTL

(* The camera gets what the app sent on a connection in order and without  *)
(* a hole, however much was kept until the link was up (ICamChannel's      *)
(* sendData: and onLinkUp).                                                *)
THEOREM ArrivesInOrder == "answers" \notin Faults => (Spec => []InOrder)
<1> SUFFICES ASSUME "answers" \notin Faults PROVE Spec => []InOrder
  OBVIOUS
<1>1. IInv => InOrder
  BY DEF IInv
<1>2. Spec => []IInv
  BY Invariance
<1> QED BY <1>1, <1>2, PTL

(* A number that the server takes for free is free at the camera too, and  *)
(* nothing that names it is under way but deletes (addTransportChannel:    *)
(* callback:, handlePeerChannelMessage:).                                  *)
THEOREM FreeIdsIdle == "answers" \notin Faults => (Spec => []FreeIdIsIdle)
<1> SUFFICES ASSUME "answers" \notin Faults PROVE Spec => []FreeIdIsIdle
  OBVIOUS
<1>1. IInv => FreeIdIsIdle
  <2> SUFFICES ASSUME IInv, NEW i \in FreeIds
               PROVE  /\ cam[i] = Nobody
                      /\ \A k \in DOMAIN toCamera :
                            icam_message_decode(toCamera[k].bytes) #
                                [type |-> kPacketTypeNewChannel, channel_id |-> i]
                      /\ \A k \in DOMAIN main : main[k].kind = "read" =>
                            ~ AboutId(icam_message_decode(main[k].frame.bytes), i)
    BY DEF FreeIdIsIdle
  <2>1. i \in UserIds /\ ~ ids[i]
    BY DEF FreeIds
  <2>2. cam[i] = Nobody /\ NotOpened(i) /\ NothingRead(i, 1)
    BY <2>1 DEF IInv, Numbers, Unknown
  <2>3. \A k \in DOMAIN main : k >= 1
    BY Held DEF Sequences
  <2> QED BY <2>2, <2>3 DEF NotOpened, Opens, Says, NothingRead, IsRead, About
<1>2. Spec => []IInv
  BY Invariance
<1> QED BY <1>1, <1>2, PTL

=============================================================================
