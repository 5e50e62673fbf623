--------------------------------- MODULE Wire ---------------------------------
(***************************************************************************)
(* One direction of one connection, byte by byte: how a packet is written  *)
(* to a Buffer (Dev/include/Buffer.h), how many bytes of it are sent       *)
(* (SendChatMessage, SendResponseMessage, BroadcastMessage), and what a    *)
(* reader makes of the bytes that one recv() returns (ReceiveMessages,     *)
(* ReceiveAthSocketMessages, AuthServer::RunSocket).  The other modules    *)
(* take packets to be whole; this one says when they are.                  *)
(***************************************************************************)
EXTENDS Integers, Sequences

CONSTANTS Byte,        \* 256 values
          BufSize,     \* 512
          StringSize,  \* sizeof(std::string): what the broadcast counts for the name
          Messages,    \* what may be sent: [via, type, msg, name]
          MaxSends     \* bound: packets sent

NumberSize == 4
Width == Byte * Byte * Byte * Byte   \* 2^32
Bytes == 0..(Byte - 1)
KnownTypes == 1..8     \* MESSAGE_TYPE
Message == [via : {"send", "broadcast"}, type : KnownTypes, msg : Seq(Bytes), name : Seq(Bytes)]

ASSUME SizeAssumption == /\ BufSize \in Nat /\ StringSize \in Nat /\ MaxSends \in Nat
                         /\ 4 * NumberSize <= BufSize /\ NumberSize <= StringSize
ASSUME TrafficAssumption == Messages \subseteq Message
(* Every length up to BufSize can be written in two bytes. *)
ASSUME ByteAssumption == Byte \in Nat /\ Byte > 8 /\ BufSize < Byte * Byte

VARIABLES
  stream,  \* bytes on their way
  sent,    \* the messages sent, in order (history)
  got,     \* the messages taken from the stream, in order
  whole,   \* every recv() so far returned exactly one packet (history)
  count,   \* how many did (history)
  status   \* "up"; "thrown": an exception ended the reader; bytes outside a
           \* buffer were sent ("overrun") or read ("overread")

vars == <<stream, sent, got, count, whole, status>>

Init == stream = <<>> /\ sent = <<>> /\ got = <<>> /\ count = 0 /\ whole = TRUE /\ status = "up"
-----------------------------------------------------------------------------
(* Writing. *)

Shift8(v) == v \div Byte   \* value >> 8
(* WriteUInt32LE, ReadUInt32LE: most significant byte first. *)
NumberUnmasked(v) == <<Shift8(Shift8(Shift8(v))), Shift8(Shift8(v)), Shift8(v), v>>
Number(v) ==
  <<Shift8(Shift8(Shift8(v))) % Byte, Shift8(Shift8(v)) % Byte, Shift8(v) % Byte, v % Byte>>
Value(b, at) == ((b[at] * Byte + b[at + 1]) * Byte + b[at + 2]) * Byte + b[at + 3]

Larger(a, b) == IF a < b THEN b ELSE a
EnsureCapacityNever(size, written, more) == size
(* EnsureCapacity(more): doubles, or more if that is not enough. *)
EnsureCapacity(size, written, more) ==
  IF written + more > size THEN Larger(2 * size, written + more) ELSE size
(* m_Size after the four numbers and the two strings, each checked alone. *)
Capacity(m) ==
  LET head == 4 * NumberSize
      afterMsg == EnsureCapacity(BufSize, head, Len(m.msg))
  IN  EnsureCapacity(afterMsg, head + Len(m.msg), Len(m.name))

Written(m) == 4 * NumberSize + Len(m.msg) + Len(m.name)
BroadcastSizeShort(m) == Len(m.msg) + 3 * NumberSize
(* BroadcastMessage counts sizeof(message.from) and no messageLength.      *)
BroadcastSize(m) == Len(m.msg) + 3 * NumberSize + StringSize
(* header.packetSize, which is also the number of bytes passed to send().  *)
PacketSize(m) == IF m.via = "send" THEN Written(m) ELSE BroadcastSize(m)

Contents(m) == Number(PacketSize(m)) \o Number(m.type) \o Number(Len(m.msg)) \o Number(Len(m.name))
               \o m.msg \o m.name
(* The first PacketSize bytes of the buffer; what was not written is 0. *)
Packet(m) == [i \in 1..PacketSize(m) |-> IF i <= Written(m) THEN Contents(m)[i] ELSE 0]

Send ==
  /\ status = "up" /\ Len(sent) < MaxSends
  /\ \E m \in Messages :
       /\ sent' = Append(sent, m)
       /\ IF PacketSize(m) <= Capacity(m)
          THEN stream' = stream \o Packet(m) /\ UNCHANGED status
          ELSE status' = "overrun" /\ UNCHANGED stream
  /\ UNCHANGED <<got, count, whole>>
-----------------------------------------------------------------------------
(* Reading. *)

(* ReadString: m_ReadIndex + length > m_Size, in 32 bits, throws. A length *)
(* close to 2^32 passes this check.                                        *)
InBuffer(at, length) == (at + length) % Width <= BufSize

(* ReadString(length) at the index `at`, with what comes of it *)
ReadString(at, length) ==
  IF ~InBuffer(at, length) THEN "thrown" ELSE IF at + length > BufSize THEN "overread" ELSE "up"

(* The handlers look at packets of known type only. *)
Handled(parts) == IF parts.type \in KnownTypes THEN Append(got, parts) ELSE got

(* One recv() into a zeroed buffer and the reading of a packet from it.    *)
(* packetSize is read and not used: whatever else came is dropped, and     *)
(* what is missing reads as 0.                                             *)
Receive ==
  /\ status = "up"
  /\ \E n \in 1..Len(stream) :
       LET buffer == [i \in 1..BufSize |-> IF i <= n THEN stream[i] ELSE 0]
           msgLength == Value(buffer, 2 * NumberSize + 1)
           nameLength == Value(buffer, 3 * NumberSize + 1)
           msgAt == 4 * NumberSize
           nameAt == msgAt + msgLength
       IN  /\ n <= BufSize
           /\ stream' = SubSeq(stream, n + 1, Len(stream))
           /\ whole' = (whole /\ count < Len(sent) /\ n = PacketSize(sent[count + 1]))
           /\ status' = IF ReadString(msgAt, msgLength) # "up" THEN ReadString(msgAt, msgLength)
                        ELSE ReadString(nameAt, nameLength)
           /\ got' = IF status' # "up" THEN got
                     ELSE Handled([type |-> Value(buffer, NumberSize + 1),
                                   msg |-> SubSeq(buffer, msgAt + 1, nameAt),
                                   name |-> SubSeq(buffer, nameAt + 1, nameAt + nameLength)])
  /\ count' = IF whole' THEN count + 1 ELSE count
  /\ UNCHANGED sent

(* Nothing more is sent, nothing more can be read. *)
Idle == (status # "up" \/ (stream = <<>> /\ Len(sent) = MaxSends)) /\ UNCHANGED vars

Next == Send \/ Receive \/ Idle

Spec == Init /\ [][Next]_vars
-----------------------------------------------------------------------------
TypeOK ==
  /\ stream \in Seq(Bytes)
  /\ sent \in Seq(Message) /\ Len(sent) <= MaxSends
  /\ got \in Seq([type : KnownTypes, msg : Seq(Bytes), name : Seq(Bytes)])
  /\ count \in 0..Len(sent) /\ whole \in BOOLEAN
  /\ status \in {"up", "thrown", "overrun", "overread"}

(* A buffer holds what is sent and all that it says it contains. *)
Fits(m) == PacketSize(m) <= BufSize /\ Written(m) <= BufSize

(* How much of a name is sent: a broadcast counts StringSize bytes for it, *)
(* and for the length of the message that it did not count.                *)
NameRoom(m) == IF m.via = "send" THEN Len(m.name) ELSE StringSize - NumberSize

(* What a reader makes of m: the part of the name that was cut reads as 0. *)
Arrived(m) ==
  [type |-> m.type, msg |-> m.msg,
   name |-> [i \in 1..Len(m.name) |-> IF i <= NameRoom(m) THEN m.name[i] ELSE 0]]

(* As long as every recv() returns one packet and the packets fit into a   *)
(* buffer, the messages are read in order and without an exception, type   *)
(* and message as they were sent, and of a broadcast's name exactly what   *)
(* lies behind StringSize - NumberSize bytes is lost (BroadcastMessage     *)
(* counts other bytes than it writes, ChatServer.cpp:420-438).             *)
IntactWhenWhole ==
  whole /\ (\A i \in 1..Len(sent) : Fits(sent[i])) =>
    status = "up" /\ got = [i \in 1..count |-> Arrived(sent[i])]

(* The sender never sends what lies behind its buffer: a packet sent alone *)
(* may have any length, since the buffer grows; a broadcast must fit into  *)
(* the buffer as the broadcast counts (BroadcastMessage, lines 420-438).   *)
SenderInBuffer ==
  (\A i \in 1..Len(sent) : sent[i].via = "broadcast" => PacketSize(sent[i]) <= BufSize)
  => status # "overrun"
=============================================================================
