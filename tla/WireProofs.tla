------------------------------ MODULE WireProofs ------------------------------
(***************************************************************************)
(* Proofs about one direction of a connection, for every size of a buffer  *)
(* and of a std::string and for messages of every length: what a sender    *)
(* reads, what a number becomes on its way through four bytes, that what   *)
(* is read is made of bytes, and what of each message arrives when packets *)
(* come whole.                                                             *)
(***************************************************************************)
EXTENDS Wire, TLAPS

LEMMA Lengths ==
  ASSUME NEW m \in Message
  PROVE  Len(m.msg) \in Nat /\ Len(m.name) \in Nat /\ m.via \in {"send", "broadcast"}
<1>1. m.msg \in Seq(Bytes) /\ m.name \in Seq(Bytes) /\ m.via \in {"send", "broadcast"}
  BY DEF Message
<1>2. \A s \in Seq(Bytes) : Len(s) \in Nat
  OBVIOUS
<1> QED
  BY <1>1, <1>2

LEMMA Sizes == BufSize \in Nat /\ StringSize \in Nat /\ 16 <= BufSize /\ 4 <= StringSize
  BY SizeAssumption DEF NumberSize

LEMMA PacketSizes ==
  ASSUME NEW m \in Message
  PROVE  /\ Written(m) = 16 + Len(m.msg) + Len(m.name)
         /\ Written(m) \in Nat
         /\ PacketSize(m) \in Nat
         /\ m.via = "send" => PacketSize(m) = Written(m)
         /\ m.via = "broadcast" => PacketSize(m) = 12 + Len(m.msg) + StringSize
<1>1. Len(m.msg) \in Nat /\ Len(m.name) \in Nat /\ StringSize \in Nat
  BY Lengths, Sizes
<1>2. Written(m) = 16 + Len(m.msg) + Len(m.name)
  BY <1>1 DEF Written, NumberSize
<1>3. BroadcastSize(m) = 12 + Len(m.msg) + StringSize
  BY <1>1 DEF BroadcastSize, NumberSize
<1>4. Written(m) \in Nat /\ BroadcastSize(m) \in Nat
  <2> DEFINE p == Len(m.msg)
             q == Len(m.name)
  <2>1. /\ p \in Nat /\ q \in Nat /\ StringSize \in Nat
        /\ Written(m) = 16 + p + q /\ BroadcastSize(m) = 12 + p + StringSize
    BY <1>1, <1>2, <1>3
  <2> HIDE DEF p, q
  <2> QED
    BY <2>1
<1> QED
  BY <1>2, <1>3, <1>4, Lengths DEF PacketSize

(* A buffer never shrinks, and after EnsureCapacity it has the room asked. *)
LEMMA RoomEnsured ==
  ASSUME NEW size \in Nat, NEW written \in Nat, NEW more \in Nat
  PROVE  /\ EnsureCapacity(size, written, more) \in Nat
         /\ EnsureCapacity(size, written, more) >= size
         /\ EnsureCapacity(size, written, more) >= written + more
  BY DEF EnsureCapacity, Larger

(* The buffer holds all that is written to it, whatever the lengths. *)
LEMMA WrittenIsHeld ==
  ASSUME NEW m \in Message
  PROVE  /\ Capacity(m) \in Nat
         /\ Capacity(m) >= BufSize
         /\ Capacity(m) >= Written(m)
<1> DEFINE p == Len(m.msg)
           q == Len(m.name)
           afterMsg == EnsureCapacity(BufSize, 16, p)
<1>1. p \in Nat /\ q \in Nat /\ 16 + p \in Nat /\ BufSize \in Nat /\ 16 \in Nat
  <2>1. p \in Nat /\ q \in Nat
    BY Lengths
  <2> HIDE DEF p, q
  <2> QED
    BY <2>1, Sizes
<1>2. Capacity(m) = EnsureCapacity(afterMsg, 16 + p, q)
  <2>1. 4 * NumberSize = 16
    BY DEF NumberSize
  <2> QED
    BY <2>1 DEF Capacity
<1>3. Written(m) = 16 + p + q
  BY PacketSizes
<1> HIDE DEF p, q
<1>4. afterMsg \in Nat /\ afterMsg >= BufSize
  BY <1>1, RoomEnsured
<1> HIDE DEF afterMsg
<1>5. Capacity(m) \in Nat /\ Capacity(m) >= afterMsg /\ Capacity(m) >= (16 + p) + q
  BY <1>1, <1>2, <1>4, RoomEnsured
<1> QED
  BY <1>1, <1>3, <1>4, <1>5

(* A packet that fits, and fits what it says of itself, ends NameRoom      *)
(* bytes behind its message, is held by the sender's buffer, and both      *)
(* lengths in it pass the checks of ReadString.                            *)
THEOREM FittingIsReadable ==
  ASSUME NEW m \in Message, Fits(m)
  PROVE  /\ NameRoom(m) \in Nat /\ PacketSize(m) = 16 + Len(m.msg) + NameRoom(m)
         /\ PacketSize(m) <= Capacity(m)
         /\ 16 + Len(m.msg) + Len(m.name) <= BufSize
<1> DEFINE p == Len(m.msg)
           q == Len(m.name)
<1>1. p \in Nat /\ q \in Nat
  BY Lengths
<1>2. PacketSize(m) <= BufSize /\ Written(m) <= BufSize
  BY DEF Fits
<1>3. /\ Written(m) = 16 + p + q
      /\ m.via = "send" => PacketSize(m) = Written(m)
      /\ m.via = "broadcast" => PacketSize(m) = 12 + p + StringSize
      /\ PacketSize(m) \in Nat
  BY PacketSizes
<1>4. m.via = "send" \/ m.via = "broadcast"
  BY Lengths
<1>5. Capacity(m) \in Nat /\ Capacity(m) >= BufSize
  BY WrittenIsHeld
<1>6. NameRoom(m) = IF m.via = "send" THEN q ELSE StringSize - 4
  BY DEF NameRoom, NumberSize
<1> HIDE DEF p, q
<1>7. NameRoom(m) \in Nat
  BY <1>1, <1>6, Sizes
<1>8. PacketSize(m) = 16 + p + NameRoom(m)
  <2>1. CASE m.via = "send"
    BY <1>3, <1>6, <2>1
  <2>2. CASE m.via # "send"
    BY <1>1, <1>3, <1>4, <1>6, <2>2, Sizes
  <2> QED
    BY <2>1, <2>2
<1>9. PacketSize(m) <= Capacity(m)
  BY <1>2, <1>3, <1>5, Sizes
<1>10. 16 + p + q <= BufSize
  BY <1>2, <1>3
<1> QED
  BY <1>7, <1>8, <1>9, <1>10 DEF p, q
-----------------------------------------------------------------------------
(* Only a broadcast that exceeds the buffer makes the sender overrun it. *)
OverrunInv ==
  /\ sent \in Seq(Message)
  /\ status = "overrun" =>
       \E i \in 1..Len(sent) : sent[i].via = "broadcast" /\ PacketSize(sent[i]) > BufSize

LEMMA SendKeeps ==
  ASSUME OverrunInv, Send
  PROVE  OverrunInv'
<1>1. PICK m \in Messages :
        /\ sent' = Append(sent, m)
        /\ IF PacketSize(m) <= Capacity(m)
           THEN stream' = stream \o Packet(m) /\ UNCHANGED status
           ELSE status' = "overrun" /\ UNCHANGED stream
  BY DEF Send
<1>2. m \in Message /\ sent \in Seq(Message) /\ status = "up"
  BY TrafficAssumption DEF OverrunInv, Send
<1>3. /\ sent' \in Seq(Message) /\ Len(sent') = Len(sent) + 1
      /\ sent'[Len(sent')] = m /\ Len(sent') \in 1..Len(sent')
  BY <1>1, <1>2
<1>4. CASE PacketSize(m) <= Capacity(m)
  BY <1>1, <1>2, <1>3, <1>4 DEF OverrunInv
<1>5. CASE ~(PacketSize(m) <= Capacity(m))
  <2>1. Capacity(m) \in Nat /\ Capacity(m) >= BufSize /\ Capacity(m) >= Written(m)
    BY <1>2, WrittenIsHeld
  <2>2. PacketSize(m) \in Nat /\ BufSize \in Nat /\ Written(m) \in Nat
    BY <1>2, PacketSizes, Sizes
  <2>3. m.via = "broadcast"
    BY <1>2, <1>5, <2>1, <2>2, Lengths, PacketSizes
  <2>4. PacketSize(m) > BufSize
    BY <1>5, <2>1, <2>2
  <2> QED
    BY <1>3, <2>3, <2>4 DEF OverrunInv
<1> QED
  BY <1>4, <1>5

LEMMA ReceiveKeeps ==
  ASSUME OverrunInv, Receive
  PROVE  OverrunInv'
<1>1. sent' = sent
  BY DEF Receive
<1>2. \A at, length : ReadString(at, length) # "overrun"
  BY DEF ReadString
<1>3. status' # "overrun"
  BY <1>2 DEF Receive
<1> QED
  BY <1>1, <1>3 DEF OverrunInv

(* No sender reads behind its buffer, unless it broadcasts a message that  *)
(* is too long as the broadcast counts.                                    *)
THEOREM SendersStayInBuffer == Spec => []SenderInBuffer
<1>1. Init => OverrunInv
  BY DEF Init, OverrunInv
<1>2. OverrunInv /\ [Next]_vars => OverrunInv'
  BY SendKeeps, ReceiveKeeps DEF Next, Idle, vars, OverrunInv
<1>3. OverrunInv => SenderInBuffer
  <2> SUFFICES ASSUME OverrunInv, status = "overrun",
                      \A i \in 1..Len(sent) : sent[i].via = "broadcast" => PacketSize(sent[i]) <= BufSize
               PROVE  FALSE
    BY DEF SenderInBuffer
  <2>1. PICK i \in 1..Len(sent) : sent[i].via = "broadcast" /\ PacketSize(sent[i]) > BufSize
    BY DEF OverrunInv
  <2>2. sent[i] \in Message
    BY <2>1 DEF OverrunInv
  <2>3. PacketSize(sent[i]) \in Nat /\ BufSize \in Nat
    BY <2>2, PacketSizes, Sizes
  <2> QED
    BY <2>1, <2>3
<1> QED
  BY <1>1, <1>2, <1>3, PTL DEF Spec
-----------------------------------------------------------------------------
(* Numbers: Shift8 and the four bytes. *)
LEMMA Divided ==
  ASSUME NEW v \in Nat
  PROVE  /\ Shift8(v) \in Nat /\ v % Byte \in Bytes /\ v = Shift8(v) * Byte + (v % Byte)
<1>1. Byte \in Nat /\ Byte > 8
  BY ByteAssumption
<1>2. v = Byte * (v \div Byte) + (v % Byte)
  BY <1>1
<1>3. v % Byte \in Bytes
  BY <1>1 DEF Bytes
<1>4. v \div Byte \in Nat
  BY <1>1
<1> QED
  BY <1>1, <1>2, <1>3, <1>4 DEF Shift8

LEMMA ShiftBelow ==
  ASSUME NEW v \in Nat, NEW w \in Nat, v < w * Byte
  PROVE  Shift8(v) < w
<1> DEFINE q == Shift8(v)
           r == v % Byte
<1>1. q \in Nat /\ r \in Nat /\ Byte \in Nat /\ v = q * Byte + r
  <2>1. Byte \in Nat
    BY ByteAssumption
  <2>2. q \in Nat /\ r \in Bytes /\ v = q * Byte + r
    BY Divided
  <2> QED
    BY <2>1, <2>2 DEF Bytes
<1> HIDE DEF q, r
<1>2. SUFFICES ASSUME w <= q PROVE FALSE
  BY <1>1 DEF q
<1>3. PICK k \in Nat : q = w + k
  BY <1>1, <1>2
<1>4. q * Byte = w * Byte + k * Byte /\ k * Byte \in Nat /\ w * Byte \in Nat
  BY <1>1, <1>3
<1> QED
  BY <1>1, <1>4

LEMMA NumberOfBytes ==
  ASSUME NEW v \in Nat
  PROVE  Number(v) \in Seq(Bytes) /\ Len(Number(v)) = 4
<1>1. Shift8(v) \in Nat /\ Shift8(Shift8(v)) \in Nat /\ Shift8(Shift8(Shift8(v))) \in Nat
  BY Divided
<1>2. v % Byte \in Bytes /\ Shift8(v) % Byte \in Bytes /\ Shift8(Shift8(v)) % Byte \in Bytes
      /\ Shift8(Shift8(Shift8(v))) % Byte \in Bytes
  BY <1>1, Divided
<1> QED
  BY <1>2 DEF Number

(* What ReadUInt32LE makes of the bytes that WriteUInt32LE wrote. *)
LEMMA NumberRead ==
  ASSUME NEW v \in Nat, v < Width, NEW b, NEW at \in Nat,
         \A i \in 1..4 : b[at + i - 1] = Number(v)[i]
  PROVE  Value(b, at) = v
<1> DEFINE q1 == Shift8(v)
           q2 == Shift8(q1)
           q3 == Shift8(q2)
<1>1. q1 \in Nat /\ q2 \in Nat /\ q3 \in Nat /\ Byte \in Nat
  BY Divided, ByteAssumption
<1>2. b[at] = q3 % Byte /\ b[at + 1] = q2 % Byte /\ b[at + 2] = q1 % Byte /\ b[at + 3] = v % Byte
  BY DEF Number
<1>3. q3 < Byte
  <2>1. Byte * Byte * Byte * Byte = ((Byte * Byte) * Byte) * Byte /\ Byte * Byte \in Nat /\ (Byte * Byte) * Byte \in Nat
    BY <1>1
  <2>2. q1 < (Byte * Byte) * Byte
    BY <2>1, ShiftBelow DEF Width
  <2>3. q2 < Byte * Byte
    BY <1>1, <2>1, <2>2, ShiftBelow
  <2> HIDE DEF q1, q2
  <2> QED
    BY <1>1, <2>3, ShiftBelow
<1>4. v = q1 * Byte + (v % Byte) /\ q1 = q2 * Byte + (q1 % Byte) /\ q2 = q3 * Byte + (q2 % Byte)
  BY <1>1, Divided
<1> HIDE DEF q1, q2, q3
<1>5. q3 % Byte = q3
  BY <1>1, <1>3, ByteAssumption
<1>6. b[at] * Byte + b[at + 1] = q2
  BY <1>2, <1>4, <1>5
<1>7. (b[at] * Byte + b[at + 1]) * Byte + b[at + 2] = q1
  BY <1>2, <1>4, <1>6
<1>8. ((b[at] * Byte + b[at + 1]) * Byte + b[at + 2]) * Byte + b[at + 3] = v
  BY <1>2, <1>4, <1>7
<1> QED
  BY <1>8 DEF Value

-----------------------------------------------------------------------------
(* s is a sequence of k elements, u, followed by one of l elements, w. *)
Parts(s, u, k, w, l) ==
  /\ Len(s) = k + l
  /\ \A i \in 1..k : s[i] = u[i]
  /\ \A i \in 1..l : s[k + i] = w[i]

LEMMA Joined ==
  ASSUME NEW S, NEW u \in Seq(S), NEW w \in Seq(S)
  PROVE  /\ u \o w \in Seq(S) /\ Len(u \o w) = Len(u) + Len(w)
         /\ Parts(u \o w, u, Len(u), w, Len(w))
<1>1. u \o w \in Seq(S) /\ Len(u \o w) = Len(u) + Len(w)
  OBVIOUS
<1>2. \A i \in 1..Len(u) : (u \o w)[i] = u[i]
  OBVIOUS
<1>3. \A i \in 1..Len(w) : (u \o w)[Len(u) + i] = w[i]
  OBVIOUS
<1> QED
  BY <1>1, <1>2, <1>3 DEF Parts

(* Where the parts stand when two strings, of p and q bytes, follow four   *)
(* numbers.                                                                *)
Laid(all, a, b, c, d, e, p, f, q) ==
  /\ Len(all) = 16 + p + q
  /\ \A i \in 1..4 : all[i] = a[i] /\ all[4 + i] = b[i] /\ all[8 + i] = c[i] /\ all[12 + i] = d[i]
  /\ \A i \in 1..p : all[16 + i] = e[i]
  /\ \A i \in 1..q : all[16 + p + i] = f[i]

LEMMA SixJoined ==
  ASSUME NEW S, NEW a \in Seq(S), NEW b \in Seq(S), NEW c \in Seq(S), NEW d \in Seq(S),
         NEW e \in Seq(S), NEW f \in Seq(S), NEW p \in Nat, NEW q \in Nat,
         Len(a) = 4, Len(b) = 4, Len(c) = 4, Len(d) = 4, Len(e) = p, Len(f) = q
  PROVE  \E all \in Seq(S) : all = a \o b \o c \o d \o e \o f /\ Laid(all, a, b, c, d, e, p, f, q)
<1>1. PICK s2 : s2 = a \o b
  OBVIOUS
<1>2. s2 \in Seq(S) /\ Len(s2) = Len(a) + Len(b) /\ Parts(s2, a, Len(a), b, Len(b))
  BY <1>1, Joined
<1>3. /\ Len(s2) = 8
      /\ \A i \in 1..4 : s2[i] = a[i]
      /\ \A i \in 1..4 : s2[4 + i] = b[i]
  BY <1>2 DEF Parts
<1>4. PICK s3 : s3 = s2 \o c
  OBVIOUS
<1>5. s3 \in Seq(S) /\ Len(s3) = Len(s2) + Len(c) /\ Parts(s3, s2, Len(s2), c, Len(c))
  BY <1>2, <1>4, Joined
<1>6. /\ Len(s3) = 12
      /\ \A i \in 1..8 : s3[i] = s2[i]
      /\ \A i \in 1..4 : s3[8 + i] = c[i]
  BY <1>3, <1>5 DEF Parts
<1>7. PICK s4 : s4 = s3 \o d
  OBVIOUS
<1>8. s4 \in Seq(S) /\ Len(s4) = Len(s3) + Len(d) /\ Parts(s4, s3, Len(s3), d, Len(d))
  BY <1>5, <1>7, Joined
<1>9. /\ Len(s4) = 16
      /\ \A i \in 1..12 : s4[i] = s3[i]
      /\ \A i \in 1..4 : s4[12 + i] = d[i]
  BY <1>6, <1>8 DEF Parts
<1>10. PICK s5 : s5 = s4 \o e
  OBVIOUS
<1>11. s5 \in Seq(S) /\ Len(s5) = Len(s4) + Len(e) /\ Parts(s5, s4, Len(s4), e, Len(e))
  BY <1>8, <1>10, Joined
<1>12. /\ Len(s5) = 16 + p
       /\ \A i \in 1..16 : s5[i] = s4[i]
       /\ \A i \in 1..p : s5[16 + i] = e[i]
  BY <1>9, <1>11 DEF Parts
<1>13. PICK all : all = s5 \o f
  OBVIOUS
<1>14. all \in Seq(S) /\ Len(all) = Len(s5) + Len(f) /\ Parts(all, s5, Len(s5), f, Len(f))
  BY <1>11, <1>13, Joined
<1>15. /\ Len(all) = 16 + p + q
       /\ \A i \in 1..(16 + p) : all[i] = s5[i]
       /\ \A i \in 1..q : all[16 + p + i] = f[i]
  BY <1>12, <1>14 DEF Parts
<1>16. \A i \in 1..p : all[16 + i] = e[i]
  <2> TAKE i \in 1..p
  <2>1. 16 + i \in 1..(16 + p)
    OBVIOUS
  <2>2. all[16 + i] = s5[16 + i]
    BY <2>1, <1>15
  <2>3. s5[16 + i] = e[i]
    BY <1>12
  <2> QED
    BY <2>2, <2>3
<1>17. \A i \in 1..16 : all[i] = s4[i]
  <2> TAKE i \in 1..16
  <2>1. i \in 1..(16 + p)
    OBVIOUS
  <2>2. all[i] = s5[i]
    BY <2>1, <1>15
  <2>3. s5[i] = s4[i]
    BY <1>12
  <2> QED
    BY <2>2, <2>3
<1>18. \A i \in 1..12 : all[i] = s3[i]
  <2> TAKE i \in 1..12
  <2>1. s4[i] = s3[i]
    BY <1>9
  <2>2. all[i] = s4[i]
    BY <1>17
  <2> QED
    BY <2>1, <2>2
<1>19. \A i \in 1..8 : all[i] = s2[i]
  BY <1>6, <1>18
<1>20. \A i \in 1..4 : all[i] = a[i] /\ all[4 + i] = b[i]
  BY <1>3, <1>19
<1>21. \A i \in 1..4 : all[8 + i] = c[i]
  BY <1>6, <1>18
<1>22. \A i \in 1..4 : all[12 + i] = d[i]
  BY <1>9, <1>17
<1>23. all = a \o b \o c \o d \o e \o f
  BY <1>1, <1>4, <1>7, <1>10, <1>13, Zenon
<1>24. \A i \in 1..4 : all[i] = a[i] /\ all[4 + i] = b[i] /\ all[8 + i] = c[i] /\ all[12 + i] = d[i]
  BY <1>20, <1>21, <1>22
<1>25. Laid(all, a, b, c, d, e, p, f, q)
  <2>1. Len(all) = 16 + p + q
    BY <1>15
  <2>2. \A i \in 1..q : all[16 + p + i] = f[i]
    BY <1>15
  <2> QED
    BY <2>1, <2>2, <1>16, <1>24, Zenon DEF Laid
<1> QED
  BY <1>14, <1>23, <1>25, Zenon

(* Where a packet's parts stand. *)
HeadAt(b, m) ==
  \A i \in 1..4 : /\ b[i] = Number(PacketSize(m))[i]
                  /\ b[4 + i] = Number(m.type)[i]
                  /\ b[8 + i] = Number(Len(m.msg))[i]
                  /\ b[12 + i] = Number(Len(m.name))[i]
StringsAt(b, m) ==
  /\ \A i \in 1..Len(m.msg) : b[16 + i] = m.msg[i]
  /\ \A i \in 1..Len(m.name) : b[16 + Len(m.msg) + i] = m.name[i]

LEMMA MessageParts ==
  ASSUME NEW m \in Message
  PROVE  /\ m.type \in 1..8 /\ m.type \in Nat /\ m.type < Width
         /\ m.msg \in Seq(Bytes) /\ m.name \in Seq(Bytes)
<1>1. m.type \in 1..8 /\ m.msg \in Seq(Bytes) /\ m.name \in Seq(Bytes)
  BY DEF Message, KnownTypes
<1>4. 8 < Width
  <2>1. Byte \in Nat /\ Byte > 8
    BY ByteAssumption
  <2>2. Byte * Byte >= Byte /\ Byte * Byte \in Nat
    BY <2>1
  <2>3. Byte * Byte * Byte >= Byte /\ Byte * Byte * Byte \in Nat
    BY <2>1, <2>2
  <2>4. Byte * Byte * Byte * Byte >= Byte /\ Byte * Byte * Byte * Byte \in Nat
    BY <2>1, <2>3
  <2> QED
    BY <2>1, <2>4 DEF Width
<1>5. Width \in Nat
  <2>1. Byte \in Nat
    BY ByteAssumption
  <2> QED
    BY <2>1 DEF Width
<1> QED
  BY <1>1, <1>4, <1>5

LEMMA ContentsAt ==
  ASSUME NEW m \in Message
  PROVE  /\ Contents(m) \in Seq(Bytes) /\ Len(Contents(m)) = Written(m)
         /\ HeadAt(Contents(m), m) /\ StringsAt(Contents(m), m)
<1>1. /\ PacketSize(m) \in Nat /\ m.type \in Nat /\ Len(m.msg) \in Nat /\ Len(m.name) \in Nat
      /\ Written(m) = 16 + Len(m.msg) + Len(m.name)
  BY PacketSizes, MessageParts, Lengths
<1>2. m.msg \in Seq(Bytes) /\ m.name \in Seq(Bytes)
  BY MessageParts
<1>3. PICK p, q : p = Len(m.msg) /\ q = Len(m.name)
  OBVIOUS
<1>4. PICK a, b, c, d : /\ a = Number(PacketSize(m)) /\ b = Number(m.type)
                        /\ c = Number(Len(m.msg)) /\ d = Number(Len(m.name))
  OBVIOUS
<1>5. /\ a \in Seq(Bytes) /\ b \in Seq(Bytes) /\ c \in Seq(Bytes) /\ d \in Seq(Bytes)
      /\ Len(a) = 4 /\ Len(b) = 4 /\ Len(c) = 4 /\ Len(d) = 4
  BY <1>1, <1>4, NumberOfBytes
<1>6. PICK all \in Seq(Bytes) :
         all = a \o b \o c \o d \o m.msg \o m.name /\ Laid(all, a, b, c, d, m.msg, p, m.name, q)
  BY <1>1, <1>2, <1>3, <1>5, SixJoined, Zenon
<1>7. Contents(m) = all
  BY <1>4, <1>6, Zenon DEF Contents
<1>8. HeadAt(all, m)
  BY <1>4, <1>6 DEF HeadAt, Laid
<1>9. StringsAt(all, m)
  BY <1>3, <1>6 DEF StringsAt, Laid
<1>10. Len(all) = Written(m)
  BY <1>1, <1>3, <1>6 DEF Laid
<1> QED
  BY <1>6, <1>7, <1>8, <1>9, <1>10, Zenon

LEMMA PacketOfBytes ==
  ASSUME NEW m \in Message
  PROVE  /\ Packet(m) \in Seq(Bytes) /\ Len(Packet(m)) = PacketSize(m)
         /\ \A i \in 1..PacketSize(m) : Packet(m)[i] = IF i <= Written(m) THEN Contents(m)[i] ELSE 0
<1>1. PacketSize(m) \in Nat /\ Written(m) \in Nat
  BY PacketSizes
<1>2. \A i \in 1..Written(m) : Contents(m)[i] \in Bytes
  BY <1>1, ContentsAt
<1>3. 0 \in Bytes
  BY ByteAssumption DEF Bytes
<1>4. \A i \in 1..PacketSize(m) : (IF i <= Written(m) THEN Contents(m)[i] ELSE 0) \in Bytes
  BY <1>1, <1>2, <1>3
<1> QED
  BY <1>1, <1>4 DEF Packet
-----------------------------------------------------------------------------
(* One recv() and what is read from it, b being the buffer it fills. *)
Taken(n) == [i \in 1..BufSize |-> IF i <= n THEN stream[i] ELSE 0]
MsgLength(b) == Value(b, 9)
NameLength(b) == Value(b, 13)
Verdict(b) == IF ReadString(16, MsgLength(b)) # "up" THEN ReadString(16, MsgLength(b))
              ELSE ReadString(16 + MsgLength(b), NameLength(b))
PartsOf(b) == [type |-> Value(b, 5),
               msg  |-> SubSeq(b, 17, 16 + MsgLength(b)),
               name |-> SubSeq(b, 16 + MsgLength(b) + 1, 16 + MsgLength(b) + NameLength(b))]
Read(n, b) ==
  /\ n <= BufSize
  /\ stream' = SubSeq(stream, n + 1, Len(stream))
  /\ whole' = (whole /\ count < Len(sent) /\ n = PacketSize(sent[count + 1]))
  /\ status' = Verdict(b)
  /\ got' = IF status' # "up" THEN got ELSE Handled(PartsOf(b))

LEMMA Receiving ==
  ASSUME Receive
  PROVE  /\ status = "up" /\ sent' = sent /\ count' = IF whole' THEN count + 1 ELSE count
         /\ \E n \in 1..Len(stream) : Read(n, Taken(n))
<1>1. /\ 4 * NumberSize = 16 /\ 2 * NumberSize + 1 = 9 /\ 3 * NumberSize + 1 = 13
      /\ NumberSize + 1 = 5 /\ 4 * NumberSize + 1 = 17
  BY DEF NumberSize
<1>2. \E n \in 1..Len(stream) : Read(n, Taken(n))
  BY <1>1 DEF Receive, Read, Taken, Verdict, PartsOf, MsgLength, NameLength
<1> QED
  BY <1>2 DEF Receive

LEMMA BytesTaken ==
  ASSUME stream \in Seq(Bytes), NEW n \in 1..Len(stream)
  PROVE  /\ Taken(n) \in Seq(Bytes) /\ Len(Taken(n)) = BufSize
         /\ \A i \in 1..BufSize : Taken(n)[i] = IF i <= n THEN stream[i] ELSE 0
<1>1. BufSize \in Nat /\ 0 \in Bytes
  BY Sizes, ByteAssumption DEF Bytes
<1>2. \A i \in 1..BufSize : (IF i <= n THEN stream[i] ELSE 0) \in Bytes
  BY <1>1
<1> QED
  BY <1>1, <1>2 DEF Taken

LEMMA Digit ==
  ASSUME NEW high \in Nat, NEW base \in Nat, NEW low \in Nat
  PROVE  high * base + low \in Nat
<1>1. high * base \in Nat
  OBVIOUS
<1> QED
  BY <1>1

LEMMA ValueIsNat ==
  ASSUME NEW b \in Seq(Bytes), NEW at \in Nat, at > 0, at + 3 <= Len(b)
  PROVE  Value(b, at) \in Nat
<1>1. b[at] \in Bytes /\ b[at + 1] \in Bytes /\ b[at + 2] \in Bytes /\ b[at + 3] \in Bytes
  OBVIOUS
<1>2. Byte \in Nat
  BY ByteAssumption
<1>3. b[at] \in Nat /\ b[at + 1] \in Nat /\ b[at + 2] \in Nat /\ b[at + 3] \in Nat
  BY <1>1, <1>2 DEF Bytes
<1>4. b[at] * Byte + b[at + 1] \in Nat
  BY <1>2, <1>3, Digit
<1>5. (b[at] * Byte + b[at + 1]) * Byte + b[at + 2] \in Nat
  BY <1>2, <1>3, <1>4, Digit
<1>6. ((b[at] * Byte + b[at + 1]) * Byte + b[at + 2]) * Byte + b[at + 3] \in Nat
  BY <1>2, <1>3, <1>5, Digit
<1> QED
  BY <1>6 DEF Value

LEMMA LengthsRead ==
  ASSUME NEW b \in Seq(Bytes), Len(b) = BufSize
  PROVE  Value(b, 5) \in Nat /\ MsgLength(b) \in Nat /\ NameLength(b) \in Nat
  BY Sizes, ValueIsNat DEF MsgLength, NameLength

(* What was read lies within the buffer if nothing was thrown. *)
LEMMA UpWithin ==
  ASSUME NEW b \in Seq(Bytes), Len(b) = BufSize, Verdict(b) = "up"
  PROVE  16 + MsgLength(b) + NameLength(b) <= BufSize
<1>1. MsgLength(b) \in Nat /\ NameLength(b) \in Nat /\ BufSize \in Nat
  BY LengthsRead, Sizes
<1> QED
  BY <1>1 DEF Verdict, ReadString

LEMMA PartsTyped ==
  ASSUME NEW b \in Seq(Bytes), Len(b) = BufSize, Verdict(b) = "up"
  PROVE  PartsOf(b) \in [type : Nat, msg : Seq(Bytes), name : Seq(Bytes)]
<1>1. /\ Value(b, 5) \in Nat /\ MsgLength(b) \in Nat /\ NameLength(b) \in Nat /\ BufSize \in Nat
      /\ 16 + MsgLength(b) + NameLength(b) <= BufSize
  BY LengthsRead, Sizes, UpWithin
<1>2. \A i, j \in Nat : i > 0 /\ j <= BufSize => SubSeq(b, i, j) \in Seq(Bytes)
  OBVIOUS
<1>3. SubSeq(b, 17, 16 + MsgLength(b)) \in Seq(Bytes)
  BY <1>1, <1>2
<1>4. SubSeq(b, 16 + MsgLength(b) + 1, 16 + MsgLength(b) + NameLength(b)) \in Seq(Bytes)
  BY <1>1, <1>2
<1> QED
  BY <1>1, <1>3, <1>4 DEF PartsOf

Record == [type : KnownTypes, msg : Seq(Bytes), name : Seq(Bytes)]

LEMMA HandledTyped ==
  ASSUME got \in Seq(Record), NEW parts \in [type : Nat, msg : Seq(Bytes), name : Seq(Bytes)]
  PROVE  Handled(parts) \in Seq(Record)
<1>1. CASE parts.type \in KnownTypes
  <2>1. parts \in Record
    BY <1>1 DEF Record
  <2> QED
    BY <2>1, <1>1 DEF Handled
<1>2. CASE parts.type \notin KnownTypes
  BY <1>2 DEF Handled
<1> QED
  BY <1>1, <1>2
-----------------------------------------------------------------------------
LEMMA SendTyped ==
  ASSUME TypeOK, Send
  PROVE  TypeOK'
<1>1. PICK m \in Messages :
        /\ sent' = Append(sent, m)
        /\ IF PacketSize(m) <= Capacity(m)
           THEN stream' = stream \o Packet(m) /\ UNCHANGED status
           ELSE status' = "overrun" /\ UNCHANGED stream
  BY DEF Send
<1>2. m \in Message /\ UNCHANGED <<got, count, whole>> /\ Len(sent) < MaxSends /\ MaxSends \in Nat
  BY TrafficAssumption, SizeAssumption DEF Send
<1>3. sent' \in Seq(Message) /\ Len(sent') = Len(sent) + 1 /\ Len(sent) \in Nat
  BY <1>1, <1>2 DEF TypeOK
<1>4. stream' \in Seq(Bytes)
  <2>1. Packet(m) \in Seq(Bytes) /\ stream \in Seq(Bytes)
    BY <1>2, PacketOfBytes DEF TypeOK
  <2>2. stream \o Packet(m) \in Seq(Bytes)
    BY <2>1
  <2>3. stream' = stream \o Packet(m) \/ stream' = stream
    BY <1>1, Zenon
  <2> QED
    BY <2>1, <2>2, <2>3, Zenon
<1>5. status' \in {"up", "thrown", "overrun", "overread"}
  BY <1>1 DEF TypeOK
<1>6. Len(sent') <= MaxSends /\ count' \in 0..Len(sent')
  BY <1>2, <1>3 DEF TypeOK
<1> QED
  BY <1>2, <1>3, <1>4, <1>5, <1>6 DEF TypeOK

LEMMA ReceiveTyped ==
  ASSUME TypeOK, Receive
  PROVE  TypeOK'
<1>1. PICK n \in 1..Len(stream) : Read(n, Taken(n))
  BY Receiving
<1>2. PICK b : b = Taken(n)
  OBVIOUS
<1>3. Read(n, b) /\ b \in Seq(Bytes) /\ Len(b) = BufSize
  BY <1>1, <1>2, BytesTaken DEF TypeOK
<1>4. stream \in Seq(Bytes) /\ sent' = sent /\ count' = IF whole' THEN count + 1 ELSE count
  BY Receiving DEF TypeOK
<1>5. stream' \in Seq(Bytes)
  BY <1>3, <1>4 DEF Read
<1>6. status' \in {"up", "thrown", "overrun", "overread"}
  BY <1>3 DEF Read, Verdict, ReadString
<1>7. got' \in Seq(Record)
  <2>1. got \in Seq(Record)
    BY DEF TypeOK, Record
  <2>2. CASE status' # "up"
    BY <1>3, <2>1, <2>2 DEF Read
  <2>3. CASE status' = "up"
    <3>1. Verdict(b) = "up" /\ got' = Handled(PartsOf(b))
      BY <1>3, <2>3 DEF Read
    <3>2. PartsOf(b) \in [type : Nat, msg : Seq(Bytes), name : Seq(Bytes)]
      BY <1>3, <3>1, PartsTyped
    <3> QED
      BY <2>1, <3>1, <3>2, HandledTyped
  <2> QED
    BY <2>2, <2>3
<1>8. whole' \in BOOLEAN /\ (whole' => count < Len(sent))
  BY <1>3 DEF Read
<1>9. count' \in 0..Len(sent')
  BY <1>4, <1>8 DEF TypeOK
<1> QED
  BY <1>4, <1>5, <1>6, <1>7, <1>8, <1>9 DEF TypeOK, Record

(* Bytes stay bytes: whatever a recv() returns, what is read from it       *)
(* without an exception are strings of the buffer's bytes.                 *)
THEOREM WireTypes == Spec => []TypeOK
<1>1. Init => TypeOK
  BY SizeAssumption DEF Init, TypeOK
<1>2. TypeOK /\ [Next]_vars => TypeOK'
  <2> SUFFICES ASSUME TypeOK, [Next]_vars PROVE TypeOK'
    OBVIOUS
  <2>1. CASE Send
    BY <2>1, SendTyped
  <2>2. CASE Receive
    BY <2>2, ReceiveTyped
  <2>3. CASE UNCHANGED vars
    BY <2>3 DEF vars, TypeOK
  <2> QED
    BY <2>1, <2>2, <2>3 DEF Next, Idle
<1> QED
  BY <1>1, <1>2, PTL DEF Spec
-----------------------------------------------------------------------------
LEMMA WidthLarge == BufSize < Width /\ Width \in Nat
<1>1. Byte \in Nat /\ Byte > 8 /\ BufSize < Byte * Byte /\ BufSize \in Nat
  BY ByteAssumption, Sizes
<1>2. Byte * Byte \in Nat
  BY <1>1
<1>3. Byte * Byte * Byte >= Byte * Byte /\ Byte * Byte * Byte \in Nat
  BY <1>1, <1>2
<1>4. Width >= Byte * Byte * Byte /\ Width \in Nat
  BY <1>1, <1>3 DEF Width
<1> QED
  BY <1>1, <1>2, <1>3, <1>4

LEMMA PieceIs ==
  ASSUME NEW S, NEW b \in Seq(S), NEW s \in Seq(S), NEW k \in Nat, NEW p \in Nat,
         Len(s) = p, k + p <= Len(b), \A i \in 1..p : b[k + i] = s[i]
  PROVE  SubSeq(b, k + 1, k + p) = s
<1>1. SubSeq(b, k + 1, k + p) \in Seq(S) /\ Len(SubSeq(b, k + 1, k + p)) = p
  OBVIOUS
<1>2. \A i \in 1..p : SubSeq(b, k + 1, k + p)[i] = b[k + i]
  OBVIOUS
<1> QED
  BY <1>1, <1>2

LEMMA FittingLengths ==
  ASSUME NEW m \in Message, Fits(m)
  PROVE  /\ Len(m.msg) \in Nat /\ Len(m.name) \in Nat /\ PacketSize(m) \in Nat /\ Written(m) \in Nat
         /\ Written(m) = 16 + Len(m.msg) + Len(m.name)
         /\ Len(m.msg) < Width /\ Len(m.name) < Width
<1>1. PICK p, q, w, size : p = Len(m.msg) /\ q = Len(m.name) /\ w = Written(m) /\ size = PacketSize(m)
  OBVIOUS
<1>2. p \in Nat /\ q \in Nat /\ w = 16 + p + q /\ size \in Nat
  BY <1>1, Lengths, PacketSizes
<1>3. w <= BufSize /\ BufSize \in Nat
  BY <1>1, Sizes DEF Fits
<1>4. BufSize < Width /\ Width \in Nat
  BY WidthLarge
<1>5. p < Width /\ q < Width /\ w \in Nat
  BY <1>2, <1>3, <1>4
<1> QED
  BY <1>1, <1>2, <1>5

(* What is made of a buffer with nothing in it but one fitting packet. *)
LEMMA ReadsBack ==
  ASSUME NEW m \in Message, Fits(m), NEW b \in Seq(Bytes), Len(b) = BufSize,
         \A i \in 1..BufSize : b[i] = IF i <= PacketSize(m) THEN Packet(m)[i] ELSE 0
  PROVE  /\ Value(b, 5) = m.type /\ MsgLength(b) = Len(m.msg) /\ NameLength(b) = Len(m.name)
         /\ Verdict(b) = "up"
         /\ PartsOf(b) = Arrived(m)
<1>1. PICK p, q, r : p = Len(m.msg) /\ q = Len(m.name) /\ r = NameRoom(m)
  OBVIOUS
<1>2. /\ p \in Nat /\ q \in Nat /\ p < Width /\ q < Width /\ BufSize \in Nat
      /\ 16 + p + q <= BufSize /\ r \in Nat
  BY <1>1, FittingLengths, FittingIsReadable, Sizes
<1>3. \A i \in 1..(16 + p + q) : b[i] = IF i <= 16 + p + r THEN Contents(m)[i] ELSE 0
  <2> TAKE i \in 1..(16 + p + q)
  <2>1. PICK w, size : w = Written(m) /\ size = PacketSize(m)
    OBVIOUS
  <2>2. w = 16 + p + q /\ size = 16 + p + r /\ size <= BufSize
    BY <1>1, <2>1, FittingLengths, FittingIsReadable DEF Fits
  <2>3. i \in 1..BufSize /\ i \in Nat /\ i >= 1 /\ i <= w
    BY <1>2, <2>2
  <2>4. CASE i <= size
    <3>1. i \in 1..size
      BY <1>2, <2>2, <2>3, <2>4
    <3>2. Packet(m)[i] = Contents(m)[i]
      BY <2>1, <2>3, <3>1, PacketOfBytes
    <3> QED
      BY <2>1, <2>2, <2>3, <2>4, <3>2
  <2>5. CASE ~(i <= size)
    BY <2>1, <2>2, <2>3, <2>5
  <2> QED
    BY <2>4, <2>5
<1>4. /\ HeadAt(Contents(m), m) /\ StringsAt(Contents(m), m)
  BY ContentsAt
<1>5. \A i \in 1..4 : /\ b[4 + i] = Number(m.type)[i]
                      /\ b[8 + i] = Number(p)[i]
                      /\ b[12 + i] = Number(q)[i]
  <2> TAKE i \in 1..4
  <2>1. 4 + i \in 1..(16 + p + q) /\ 8 + i \in 1..(16 + p + q) /\ 12 + i \in 1..(16 + p + q)
    BY <1>2
  <2>2. 4 + i <= 16 + p + r /\ 8 + i <= 16 + p + r /\ 12 + i <= 16 + p + r
    BY <1>2
  <2>3. b[4 + i] = Contents(m)[4 + i] /\ b[8 + i] = Contents(m)[8 + i] /\ b[12 + i] = Contents(m)[12 + i]
    BY <1>3, <2>1, <2>2
  <2> QED
    BY <1>1, <1>4, <2>3 DEF HeadAt
<1>6. Value(b, 5) = m.type
  <2>1. \A i \in 1..4 : b[5 + i - 1] = Number(m.type)[i]
    <3> TAKE i \in 1..4
    <3>1. 5 + i - 1 = 4 + i
      OBVIOUS
    <3> QED
      BY <1>5, <3>1
  <2>2. m.type \in Nat /\ m.type < Width
    BY MessageParts
  <2> QED
    BY <2>1, <2>2, NumberRead
<1>7. MsgLength(b) = p
  <2>1. \A i \in 1..4 : b[9 + i - 1] = Number(p)[i]
    <3> TAKE i \in 1..4
    <3>1. 9 + i - 1 = 8 + i
      OBVIOUS
    <3> QED
      BY <1>5, <3>1
  <2> QED
    BY <1>2, <2>1, NumberRead DEF MsgLength
<1>8. NameLength(b) = q
  <2>1. \A i \in 1..4 : b[13 + i - 1] = Number(q)[i]
    <3> TAKE i \in 1..4
    <3>1. 13 + i - 1 = 12 + i
      OBVIOUS
    <3> QED
      BY <1>5, <3>1
  <2> QED
    BY <1>2, <2>1, NumberRead DEF NameLength
<1>9. Verdict(b) = "up"
  <2>1. \A at, v \in Nat : at + v <= BufSize => ReadString(at, v) = "up"
    <3> TAKE at, v \in Nat
    <3> HAVE at + v <= BufSize
    <3>1. Width \in Nat /\ BufSize < Width
      BY WidthLarge
    <3>2. (at + v) % Width = at + v
      BY <1>2, <3>1
    <3> QED
      BY <1>2, <3>2 DEF ReadString, InBuffer
  <2>2. ReadString(16, p) = "up" /\ ReadString(16 + p, q) = "up"
    BY <1>2, <2>1
  <2> QED
    BY <1>7, <1>8, <2>2 DEF Verdict
<1>10. SubSeq(b, 17, 16 + p) = m.msg
  <2>1. \A i \in 1..p : b[16 + i] = m.msg[i]
    <3> TAKE i \in 1..p
    <3>1. 16 + i \in 1..(16 + p + q) /\ 16 + i <= 16 + p + r
      BY <1>2
    <3>2. b[16 + i] = Contents(m)[16 + i]
      BY <1>3, <3>1
    <3>3. Contents(m)[16 + i] = m.msg[i]
      BY <1>1, <1>4 DEF StringsAt
    <3> QED
      BY <3>2, <3>3
  <2> QED
    BY <1>1, <1>2, <2>1, MessageParts, PieceIs
<1>11. PICK name : name = [i \in 1..q |-> IF i <= r THEN m.name[i] ELSE 0]
  OBVIOUS
<1>12. name \in Seq(Bytes) /\ Len(name) = q
  <2>1. m.name \in Seq(Bytes) /\ 0 \in Bytes
    BY MessageParts, ByteAssumption DEF Bytes
  <2>2. \A i \in 1..q : (IF i <= r THEN m.name[i] ELSE 0) \in Bytes
    BY <1>1, <2>1
  <2> QED
    BY <1>2, <1>11, <2>2
<1>13. SubSeq(b, (16 + p) + 1, (16 + p) + q) = name
  <2>1. \A i \in 1..q : b[(16 + p) + i] = name[i]
    <3> TAKE i \in 1..q
    <3>1. (16 + p) + i \in 1..(16 + p + q) /\ ((16 + p) + i <= 16 + p + r <=> i <= r)
      BY <1>2
    <3>2. b[(16 + p) + i] = IF i <= r THEN Contents(m)[(16 + p) + i] ELSE 0
      BY <1>3, <3>1
    <3>3. Contents(m)[(16 + p) + i] = m.name[i]
      BY <1>1, <1>4 DEF StringsAt
    <3> QED
      BY <1>11, <3>2, <3>3
  <2>2. 16 + p \in Nat /\ (16 + p) + q <= Len(b)
    BY <1>2
  <2> QED
    BY <1>2, <1>12, <2>1, <2>2, PieceIs
<1>14. PartsOf(b) = [type |-> m.type, msg |-> m.msg, name |-> name]
  BY <1>6, <1>7, <1>8, <1>10, <1>13 DEF PartsOf
<1>15. PartsOf(b) = Arrived(m)
  BY <1>1, <1>11, <1>14 DEF Arrived
<1> QED
  BY <1>1, <1>6, <1>7, <1>8, <1>9, <1>15
-----------------------------------------------------------------------------
(* The bytes from the index `from` on, up to `to`, are m's packet. *)
PacketAt(m, from, to, bytes) ==
  /\ to = from + PacketSize(m)
  /\ \A j \in 1..PacketSize(m) : bytes[from + j] = Packet(m)[j]

(* The first `length` of bytes are the packets of the messages c + 1 to l, *)
(* one behind the other: that of msgs[k + 1] begins behind pos[k] bytes.   *)
Aligned(pos, c, l, msgs, length, bytes) ==
  /\ pos[c] = 0 /\ pos[l] = length
  /\ \A j, k \in c..l : j <= k => pos[j] <= pos[k]
  /\ \A k \in c..(l - 1) : PacketAt(msgs[k + 1], pos[k], pos[k + 1], bytes)

LEMMA PacketStays ==
  ASSUME NEW m \in Message, NEW bytes, NEW more, NEW length \in Nat, NEW from \in Nat, NEW to \in Nat,
         PacketAt(m, from, to, bytes), to <= length,
         \A i \in 1..length : more[i] = bytes[i]
  PROVE  PacketAt(m, from, to, more)
<1>1. PICK size : size = PacketSize(m)
  OBVIOUS
<1>2. size \in Nat /\ to = from + size /\ \A j \in 1..size : bytes[from + j] = Packet(m)[j]
  BY <1>1, PacketSizes DEF PacketAt
<1>3. \A j \in 1..size : more[from + j] = Packet(m)[j]
  <2> TAKE j \in 1..size
  <2>1. from + j \in 1..length
    BY <1>2
  <2>2. more[from + j] = bytes[from + j]
    BY <2>1
  <2> QED
    BY <1>2, <2>2
<1> QED
  BY <1>1, <1>2, <1>3 DEF PacketAt

(* after is msgs with m behind the first l, more is bytes with its packet. *)
Extended(after, msgs, l, m, more, bytes, n) ==
  /\ \A k \in 1..l : after[k] = msgs[k]
  /\ after[l + 1] = m
  /\ \A i \in 1..n : more[i] = bytes[i]
  /\ \A j \in 1..PacketSize(m) : more[n + j] = Packet(m)[j]

LEMMA AlignedAppend ==
  ASSUME NEW l \in Nat, NEW c \in 0..l, NEW n \in Nat, NEW msgs, NEW after, NEW bytes, NEW more,
         NEW m \in Message, NEW size \in Nat, size = PacketSize(m),
         \A k \in 1..l : msgs[k] \in Message,
         Extended(after, msgs, l, m, more, bytes, n),
         NEW pos \in [Nat -> Nat], Aligned(pos, c, l, msgs, n, bytes)
  PROVE  \E p \in [Nat -> Nat] : Aligned(p, c, l + 1, after, n + size, more)
<1>2. l \in Nat /\ n \in Nat /\ size \in Nat /\ c \in 0..l
  OBVIOUS
<1>3. after[l + 1] = m /\ \A k \in 1..l : after[k] = msgs[k]
  BY DEF Extended
<1>4. /\ \A i \in 1..n : more[i] = bytes[i]
      /\ \A j \in 1..size : more[n + j] = Packet(m)[j]
  BY DEF Extended
<1>5. PICK p : p = [pos EXCEPT ![l + 1] = n + size]
  OBVIOUS
<1>6. p \in [Nat -> Nat] /\ p[l + 1] = n + size /\ \A k \in 0..l : p[k] = pos[k]
  <2>1. l + 1 \in Nat /\ n + size \in Nat /\ \A k \in 0..l : k \in Nat /\ k # l + 1
    BY <1>2
  <2> QED
    BY <1>5, <2>1
<1>7. /\ pos[c] = 0 /\ pos[l] = n
      /\ \A j, k \in c..l : j <= k => pos[j] <= pos[k]
      /\ \A k \in c..(l - 1) : PacketAt(msgs[k + 1], pos[k], pos[k + 1], bytes)
  BY DEF Aligned
<1>8. p[c] = 0
  BY <1>2, <1>6, <1>7
<1>9. \A j, k \in c..(l + 1) : j <= k => p[j] <= p[k]
  <2> SUFFICES ASSUME NEW j \in c..(l + 1), NEW k \in c..(l + 1), j <= k PROVE p[j] <= p[k]
    OBVIOUS
  <2>1. CASE k <= l
    <3>1. j \in c..l /\ k \in c..l /\ j \in 0..l /\ k \in 0..l
      BY <1>2, <2>1
    <3> QED
      BY <1>6, <1>7, <3>1
  <2>2. CASE k = l + 1 /\ j <= l
    <3>1. j \in c..l /\ l \in c..l /\ j \in 0..l
      BY <1>2, <2>2
    <3>2. p[j] = pos[j] /\ j \in Nat
      BY <1>6, <3>1
    <3>3. pos[j] <= pos[l]
      BY <1>7, <2>2, <3>1
    <3>4. pos[j] <= n /\ pos[j] \in Nat /\ p[k] = n + size
      BY <1>6, <1>7, <2>2, <3>2, <3>3
    <3> QED
      BY <1>2, <3>2, <3>4
  <2>3. CASE k = l + 1 /\ j = l + 1
    BY <1>2, <1>6, <2>3
  <2> QED
    BY <1>2, <2>1, <2>2, <2>3
<1>10. \A k \in c..l : PacketAt(after[k + 1], p[k], p[k + 1], more)
  <2> TAKE k \in c..l
  <2>1. CASE k < l
    <3>1. k \in c..(l - 1) /\ k \in 0..l /\ k + 1 \in 0..l /\ k + 1 \in 1..l /\ k + 1 \in c..l /\ l \in c..l
      BY <1>2, <2>1
    <3>2. PacketAt(msgs[k + 1], pos[k], pos[k + 1], bytes)
      BY <1>7, <3>1
    <3>3. pos[k + 1] <= n
      <4>1. k + 1 <= l
        BY <1>2, <2>1
      <4>2. pos[k + 1] <= pos[l]
        BY <1>7, <3>1, <4>1
      <4> QED
        BY <1>7, <4>2
    <3>4. msgs[k + 1] \in Message /\ pos[k] \in Nat /\ pos[k + 1] \in Nat
      BY <3>1
    <3>5. PacketAt(msgs[k + 1], pos[k], pos[k + 1], more)
      <4>1. \A i \in 1..n : more[i] = bytes[i]
        BY <1>4
      <4> QED
        BY <1>2, <3>2, <3>3, <3>4, <4>1, PacketStays
    <3> QED
      BY <1>3, <1>6, <3>1, <3>5
  <2>2. CASE k = l
    <3>1. p[l] = n
      BY <1>2, <1>6, <1>7
    <3>2. PacketAt(m, n, n + size, more)
      BY <1>4 DEF PacketAt
    <3> QED
      BY <1>3, <1>6, <2>2, <3>1, <3>2
  <2> QED
    BY <1>2, <2>1, <2>2
<1>11. Aligned(p, c, l + 1, after, n + size, more)
  <2>1. (l + 1) - 1 = l
    OBVIOUS
  <2> QED
    BY <1>6, <1>8, <1>9, <1>10, <2>1 DEF Aligned
<1> QED
  BY <1>6, <1>11

LEMMA Rest ==
  ASSUME NEW S, NEW u \in Seq(S), NEW n \in Nat, n <= Len(u)
  PROVE  /\ Len(SubSeq(u, n + 1, Len(u))) = Len(u) - n
         /\ \A i \in 1..(Len(u) - n) : SubSeq(u, n + 1, Len(u))[i] = u[n + i]
  OBVIOUS

LEMMA AlignedShift ==
  ASSUME NEW l \in Nat, NEW c \in 0..(l - 1), NEW length \in Nat, NEW n \in 1..length,
         NEW msgs, NEW bytes, NEW rest,
         \A k \in 1..l : msgs[k] \in Message,
         \A i \in 1..(length - n) : rest[i] = bytes[n + i],
         n = PacketSize(msgs[c + 1]),
         NEW pos \in [Nat -> Nat], Aligned(pos, c, l, msgs, length, bytes)
  PROVE  /\ \A j \in 1..n : bytes[j] = Packet(msgs[c + 1])[j]
         /\ \E p \in [Nat -> Nat] : Aligned(p, c + 1, l, msgs, length - n, rest)
<1>2. l \in Nat /\ length \in Nat /\ c \in 0..(l - 1) /\ n \in 1..length /\ l > 0
  OBVIOUS
<1>3. /\ pos[c] = 0 /\ pos[l] = length
      /\ \A j, k \in c..l : j <= k => pos[j] <= pos[k]
      /\ \A k \in c..(l - 1) : PacketAt(msgs[k + 1], pos[k], pos[k + 1], bytes)
  BY DEF Aligned
<1>4. PacketAt(msgs[c + 1], 0, pos[c + 1], bytes)
  <2>1. c \in c..(l - 1)
    BY <1>2
  <2> QED
    BY <1>3, <2>1
<1>5. pos[c + 1] = n /\ \A j \in 1..n : bytes[j] = Packet(msgs[c + 1])[j]
  <2>1. pos[c + 1] = 0 + n /\ \A j \in 1..n : bytes[0 + j] = Packet(msgs[c + 1])[j]
    BY <1>4 DEF PacketAt
  <2> QED
    BY <1>2, <2>1
<1>6. \A i \in 1..(length - n) : rest[i] = bytes[n + i]
  OBVIOUS
<1>7. \A k \in (c + 1)..l : pos[k] \in Nat /\ pos[k] >= n /\ pos[k] <= length
  <2> TAKE k \in (c + 1)..l
  <2>1. k \in Nat /\ k \in c..l /\ c + 1 \in c..l /\ c + 1 <= k /\ l \in c..l /\ k <= l
    BY <1>2
  <2>2. pos[c + 1] <= pos[k] /\ pos[k] <= pos[l] /\ pos[k] \in Nat
    BY <1>3, <2>1
  <2> QED
    BY <1>2, <1>3, <1>5, <2>2
<1>8. PICK p : p = [k \in Nat |-> IF k \in (c + 1)..l THEN pos[k] - n ELSE 0]
  OBVIOUS
<1>9. p \in [Nat -> Nat] /\ \A k \in (c + 1)..l : p[k] = pos[k] - n
  <2>1. \A k \in (c + 1)..l : k \in Nat /\ pos[k] - n \in Nat
    <3> TAKE k \in (c + 1)..l
    <3>1. pos[k] \in Nat /\ pos[k] >= n /\ n \in Nat
      BY <1>2, <1>7
    <3>2. k \in Nat
      BY <1>2
    <3> QED
      BY <3>1, <3>2
  <2>2. \A k \in Nat : (IF k \in (c + 1)..l THEN pos[k] - n ELSE 0) \in Nat
    BY <2>1
  <2> QED
    BY <1>8, <2>1, <2>2
<1>10. p[c + 1] = 0 /\ p[l] = length - n
  <2>1. c + 1 \in (c + 1)..l /\ l \in (c + 1)..l
    BY <1>2
  <2> QED
    BY <1>2, <1>3, <1>5, <1>9, <2>1
<1>11. \A j, k \in (c + 1)..l : j <= k => p[j] <= p[k]
  <2> SUFFICES ASSUME NEW j \in (c + 1)..l, NEW k \in (c + 1)..l, j <= k PROVE p[j] <= p[k]
    OBVIOUS
  <2>1. j \in c..l /\ k \in c..l
    BY <1>2
  <2>2. pos[j] <= pos[k] /\ pos[j] \in Nat /\ pos[k] \in Nat /\ p[j] = pos[j] - n /\ p[k] = pos[k] - n
    BY <1>3, <1>7, <1>9, <2>1
  <2> QED
    BY <1>2, <2>2
<1>12. \A k \in (c + 1)..(l - 1) : PacketAt(msgs[k + 1], p[k], p[k + 1], rest)
  <2> TAKE k \in (c + 1)..(l - 1)
  <2>1. k \in c..(l - 1) /\ k \in (c + 1)..l /\ k + 1 \in (c + 1)..l /\ k + 1 \in 1..l
    BY <1>2
  <2>2. PICK m, size, a, b : m = msgs[k + 1] /\ size = PacketSize(m) /\ a = pos[k] /\ b = pos[k + 1]
    OBVIOUS
  <2>3. m \in Message /\ size \in Nat
    <3>1. m \in Message
      BY <2>1, <2>2
    <3> QED
      BY <2>2, <3>1, PacketSizes
  <2>4. PacketAt(m, a, b, bytes)
    BY <1>3, <2>1, <2>2
  <2>5. b = a + size /\ \A j \in 1..size : bytes[a + j] = Packet(m)[j]
    BY <2>2, <2>4 DEF PacketAt
  <2>6. a \in Nat /\ b \in Nat /\ a >= n /\ b <= length /\ p[k] = a - n /\ p[k + 1] = b - n
    BY <1>7, <1>9, <2>1, <2>2
  <2>7. \A j \in 1..size : rest[(a - n) + j] = Packet(m)[j]
    <3> TAKE j \in 1..size
    <3>1. (a - n) + j \in 1..(length - n) /\ n + ((a - n) + j) = a + j
      <4>1. a \in Nat /\ n \in Nat /\ length \in Nat /\ size \in Nat /\ a >= n /\ a + size <= length
        BY <1>2, <2>3, <2>5, <2>6
      <4> QED
        BY <4>1
    <3>2. rest[(a - n) + j] = bytes[a + j]
      BY <1>6, <3>1
    <3> QED
      BY <2>5, <3>2
  <2>8. b - n = (a - n) + size
    <3>1. a \in Nat /\ n \in Nat /\ size \in Nat /\ b = a + size
      BY <1>2, <2>3, <2>5, <2>6
    <3> QED
      BY <3>1
  <2>9. PacketAt(m, a - n, b - n, rest)
    BY <2>2, <2>7, <2>8 DEF PacketAt
  <2> QED
    BY <2>2, <2>6, <2>9
<1>13. Aligned(p, c + 1, l, msgs, length - n, rest)
  BY <1>10, <1>11, <1>12 DEF Aligned
<1> QED
  BY <1>5, <1>9, <1>13

-----------------------------------------------------------------------------
AllFit(msgs, l) == \A i \in 1..l : Fits(msgs[i])
Delivery(msgs, c) == [i \in 1..c |-> Arrived(msgs[i])]

(* What is under way are the packets not yet read, and nothing else. *)
InStep ==
  whole /\ AllFit(sent, Len(sent)) =>
    /\ status = "up" /\ got = Delivery(sent, count)
    /\ \E pos \in [Nat -> Nat] : Aligned(pos, count, Len(sent), sent, Len(stream), stream)
InStepInv == TypeOK /\ InStep

LEMMA DeliverySame ==
  ASSUME NEW l \in Nat, NEW c \in 0..l, NEW msgs, NEW after, \A k \in 1..l : after[k] = msgs[k]
  PROVE  Delivery(after, c) = Delivery(msgs, c)
<1>1. \A i \in 1..c : after[i] = msgs[i]
  OBVIOUS
<1> QED
  BY <1>1 DEF Delivery

LEMMA DeliveryNext ==
  ASSUME NEW msgs, NEW c \in Nat, NEW part, part = Arrived(msgs[c + 1]),
         NEW taken \in Seq(Record), taken = Delivery(msgs, c)
  PROVE  Append(taken, part) = Delivery(msgs, c + 1)
<1>1. Len(taken) = c /\ \A i \in 1..c : taken[i] = Delivery(msgs, c)[i]
  BY DEF Delivery
<1>2. \A i \in 1..c : Delivery(msgs, c)[i] = Delivery(msgs, c + 1)[i]
  BY DEF Delivery
<1>3. Delivery(msgs, c + 1)[c + 1] = part
  BY DEF Delivery
<1>4. Delivery(msgs, c + 1) = [i \in 1..(c + 1) |-> Delivery(msgs, c + 1)[i]]
  BY DEF Delivery
<1>5. Append(taken, part) = [i \in 1..(c + 1) |-> Append(taken, part)[i]]
  BY <1>1
<1>6. \A i \in 1..(c + 1) : Append(taken, part)[i] = IF i = c + 1 THEN part ELSE taken[i]
  BY <1>1
<1>7. \A i \in 1..(c + 1) : Append(taken, part)[i] = Delivery(msgs, c + 1)[i]
  <2> TAKE i \in 1..(c + 1)
  <2>1. CASE i = c + 1
    BY <1>3, <1>6, <2>1
  <2>2. CASE i # c + 1
    <3>1. i \in 1..c
      BY <2>2
    <3> QED
      BY <1>1, <1>2, <1>6, <2>2, <3>1
  <2> QED
    BY <2>1, <2>2
<1> QED
  BY <1>4, <1>5, <1>7

LEMMA SendInStep ==
  ASSUME InStepInv, Send
  PROVE  InStepInv'
<1>1. PICK m \in Messages :
        /\ sent' = Append(sent, m)
        /\ IF PacketSize(m) <= Capacity(m)
           THEN stream' = stream \o Packet(m) /\ UNCHANGED status
           ELSE status' = "overrun" /\ UNCHANGED stream
  BY DEF Send
<1>2. m \in Message /\ sent \in Seq(Message) /\ stream \in Seq(Bytes) /\ count \in 0..Len(sent)
  BY TrafficAssumption DEF InStepInv, TypeOK
<1>3. UNCHANGED <<got, count, whole>> /\ status = "up"
  BY DEF Send
<1>4. TypeOK'
  BY SendTyped DEF InStepInv
<1>5. PICK l, n, size : l = Len(sent) /\ n = Len(stream) /\ size = PacketSize(m)
  OBVIOUS
<1>6. l \in Nat /\ n \in Nat /\ size \in Nat /\ count \in 0..l
  <2>1. Len(sent) \in Nat /\ Len(stream) \in Nat
    BY <1>2
  <2>2. PacketSize(m) \in Nat
    BY <1>2, PacketSizes
  <2> QED
    BY <1>2, <1>5, <2>1, <2>2
<1>7. Len(sent') = l + 1 /\ sent'[l + 1] = m /\ \A k \in 1..l : sent'[k] = sent[k]
  BY <1>1, <1>2, <1>5
<1>8. \A k \in 1..l : sent[k] \in Message
  BY <1>2, <1>5
<1>9. ASSUME whole', AllFit(sent', Len(sent'))
      PROVE  /\ status' = "up" /\ got' = Delivery(sent', count')
             /\ \E pos \in [Nat -> Nat] : Aligned(pos, count', Len(sent'), sent', Len(stream'), stream')
  <2>1. whole
    BY <1>3, <1>9
  <2>2. \A i \in 1..(l + 1) : Fits(sent'[i])
    BY <1>7, <1>9 DEF AllFit
  <2>3. Fits(m)
    <3>1. l + 1 \in 1..(l + 1)
      BY <1>6
    <3> QED
      BY <1>7, <2>2, <3>1
  <2>4. AllFit(sent, Len(sent))
    <3>1. \A i \in 1..l : i \in 1..(l + 1)
      BY <1>6
    <3> QED
      BY <1>5, <1>7, <2>2, <3>1 DEF AllFit
  <2>5. PICK pos \in [Nat -> Nat] : Aligned(pos, count, l, sent, n, stream)
    BY <1>5, <2>1, <2>4 DEF InStepInv, InStep
  <2>6. PacketSize(m) <= Capacity(m)
    BY <1>2, <2>3, FittingIsReadable
  <2>7. stream' = stream \o Packet(m) /\ status' = "up"
    BY <1>1, <1>3, <2>6
  <2>8. Packet(m) \in Seq(Bytes) /\ Len(Packet(m)) = size
    BY <1>2, <1>5, PacketOfBytes
  <2>9. Len(stream') = n + size /\ Parts(stream', stream, n, Packet(m), size)
    BY <1>2, <1>5, <2>7, <2>8, Joined
  <2>10. Extended(sent', sent, l, m, stream', stream, n)
    BY <1>5, <1>7, <2>9 DEF Extended, Parts
  <2>11. \E p \in [Nat -> Nat] : Aligned(p, count, l + 1, sent', n + size, stream')
    BY <1>2, <1>5, <1>6, <1>8, <2>5, <2>10, AlignedAppend
  <2>12. got' = Delivery(sent', count')
    <3>1. got = Delivery(sent, count)
      BY <2>1, <2>4 DEF InStepInv, InStep
    <3>2. Delivery(sent', count) = Delivery(sent, count)
      <4>1. \A k \in 1..l : sent'[k] = sent[k]
        BY <1>7
      <4> QED
        BY <1>6, <4>1, DeliverySame
    <3> QED
      BY <1>3, <3>1, <3>2
  <2> QED
    BY <1>3, <1>7, <2>7, <2>9, <2>11, <2>12
<1> QED
  BY <1>4, <1>9 DEF InStepInv, InStep

LEMMA ReceiveInStep ==
  ASSUME InStepInv, Receive
  PROVE  InStepInv'
<1>1. PICK n \in 1..Len(stream) : Read(n, Taken(n))
  BY Receiving
<1>2. sent \in Seq(Message) /\ stream \in Seq(Bytes) /\ count \in 0..Len(sent) /\ got \in Seq(Record)
  BY DEF InStepInv, TypeOK, Record
<1>3. /\ status = "up" /\ sent' = sent /\ count' = IF whole' THEN count + 1 ELSE count
  BY Receiving
<1>4. TypeOK'
  BY ReceiveTyped DEF InStepInv
<1>5. PICK l, length : l = Len(sent) /\ length = Len(stream)
  OBVIOUS
<1>6. l \in Nat /\ length \in Nat /\ count \in 0..l /\ n \in 1..length
  <2>1. Len(sent) \in Nat /\ Len(stream) \in Nat
    BY <1>2
  <2> QED
    BY <1>2, <1>5, <2>1
<1>7. ASSUME whole', AllFit(sent', Len(sent'))
      PROVE  /\ status' = "up" /\ got' = Delivery(sent', count')
             /\ \E pos \in [Nat -> Nat] : Aligned(pos, count', Len(sent'), sent', Len(stream'), stream')
  <2>1. whole /\ count < l /\ n = PacketSize(sent[count + 1]) /\ n <= BufSize
    BY <1>1, <1>5, <1>7 DEF Read
  <2>2. AllFit(sent, Len(sent))
    BY <1>3, <1>7
  <2>3. PICK pos \in [Nat -> Nat] : Aligned(pos, count, l, sent, length, stream)
    BY <1>5, <2>1, <2>2 DEF InStepInv, InStep
  <2>4. PICK m : m = sent[count + 1]
    OBVIOUS
  <2>5. count \in 0..(l - 1) /\ count + 1 \in 1..l
    BY <1>6, <2>1
  <2>6. m \in Message /\ Fits(m) /\ n = PacketSize(m)
    BY <1>2, <1>5, <2>1, <2>2, <2>4, <2>5 DEF AllFit
  <2>7. \A k \in 1..l : sent[k] \in Message
    BY <1>2, <1>5
  <2>8. PICK rest : rest = stream'
    OBVIOUS
  <2>9. rest = SubSeq(stream, n + 1, length)
    BY <1>1, <1>5, <2>8 DEF Read
  <2>10. Len(rest) = length - n /\ \A i \in 1..(length - n) : rest[i] = stream[n + i]
    <3>1. n \in Nat /\ n <= Len(stream)
      BY <1>5, <1>6
    <3>2. /\ Len(SubSeq(stream, n + 1, Len(stream))) = Len(stream) - n
          /\ \A i \in 1..(Len(stream) - n) : SubSeq(stream, n + 1, Len(stream))[i] = stream[n + i]
      BY <1>2, <3>1, Rest
    <3> QED
      BY <1>5, <2>9, <3>2
  <2>11. /\ \A j \in 1..n : stream[j] = Packet(sent[count + 1])[j]
         /\ \E p \in [Nat -> Nat] : Aligned(p, count + 1, l, sent, length - n, rest)
    BY <1>6, <2>1, <2>3, <2>5, <2>7, <2>10, AlignedShift
  <2>12. PICK b : b = Taken(n)
    OBVIOUS
  <2>13. b \in Seq(Bytes) /\ Len(b) = BufSize /\ \A i \in 1..BufSize : b[i] = IF i <= n THEN stream[i] ELSE 0
    BY <1>2, <2>12, BytesTaken
  <2>14. \A i \in 1..BufSize : b[i] = IF i <= PacketSize(m) THEN Packet(m)[i] ELSE 0
    <3> TAKE i \in 1..BufSize
    <3>1. CASE i <= n
      <4>1. i \in 1..n
        BY <1>6, <3>1
      <4> QED
        BY <2>4, <2>6, <2>11, <2>13, <3>1, <4>1
    <3>2. CASE ~(i <= n)
      BY <2>6, <2>13, <3>2
    <3> QED
      BY <3>1, <3>2
  <2>15. Verdict(b) = "up" /\ PartsOf(b) = Arrived(m) /\ Value(b, 5) = m.type
    BY <2>6, <2>13, <2>14, ReadsBack
  <2>16. status' = "up" /\ got' = Handled(PartsOf(b))
    BY <1>1, <2>12, <2>15 DEF Read
  <2>17. got' = Append(got, PartsOf(b))
    <3>1. PartsOf(b).type \in KnownTypes
      <4>1. PartsOf(b).type = m.type
        BY <2>15 DEF PartsOf
      <4> QED
        BY <2>6, <4>1, MessageParts DEF KnownTypes
    <3> QED
      BY <2>16, <3>1 DEF Handled
  <2>18. got = Delivery(sent, count)
    BY <2>1, <2>2 DEF InStepInv, InStep
  <2>19. got' = Delivery(sent, count + 1)
    <3>1. count \in Nat
      BY <1>6
    <3> QED
      BY <1>2, <2>4, <2>15, <2>17, <2>18, <3>1, DeliveryNext
  <2>20. count' = count + 1
    BY <1>3, <1>7
  <2> QED
    BY <1>3, <1>5, <2>8, <2>10, <2>11, <2>16, <2>19, <2>20
<1> QED
  BY <1>4, <1>7 DEF InStepInv, InStep

(* Messages that fit into a buffer arrive in order, whole but for what a   *)
(* broadcast's count cuts from a name, as long as every recv() returns one *)
(* packet: what stands in the stream is then at every time the packets not *)
(* yet read, one behind the other.                                         *)
THEOREM WholePacketsArrive == Spec => []IntactWhenWhole
<1>1. Init => InStepInv
  <2> SUFFICES ASSUME Init PROVE InStepInv
    OBVIOUS
  <2>1. TypeOK /\ stream = <<>> /\ status = "up" /\ sent = <<>> /\ got = <<>> /\ count = 0
    BY SizeAssumption DEF Init, TypeOK
  <2>2. PICK pos : pos = [k \in Nat |-> 0]
    OBVIOUS
  <2>3. pos \in [Nat -> Nat] /\ Aligned(pos, 0, 0, sent, 0, stream)
    BY <2>2 DEF Aligned
  <2>4. Len(stream) = 0 /\ Len(sent) = 0 /\ got = Delivery(sent, 0)
    BY <2>1 DEF Delivery
  <2> QED
    BY <2>1, <2>3, <2>4 DEF InStepInv, InStep
<1>2. InStepInv /\ [Next]_vars => InStepInv'
  <2> SUFFICES ASSUME InStepInv, [Next]_vars PROVE InStepInv'
    OBVIOUS
  <2>1. CASE Send
    BY <2>1, SendInStep
  <2>2. CASE Receive
    BY <2>2, ReceiveInStep
  <2>3. CASE UNCHANGED vars
    BY <2>3 DEF vars, InStepInv, InStep, TypeOK
  <2> QED
    BY <2>1, <2>2, <2>3 DEF Next, Idle
<1>3. InStepInv => IntactWhenWhole
  BY DEF InStepInv, InStep, IntactWhenWhole, AllFit, Delivery
<1> QED
  BY <1>1, <1>2, <1>3, PTL DEF Spec
=============================================================================
