---------------------------- MODULE Mqtt_proofs -----------------------------
(***************************************************************************)
(* Proofs about the MQTT client, for all limits and packet sizes and any   *)
(* number of connections.                                                  *)
(*                                                                         *)
(* NothingMisread: until readByte gives up inside a packet, or one comes   *)
(* whose length does not fit 16 bits, what is on its way is a row of whole *)
(* packets, the first of them without the pieces that readPacket has taken *)
(* (Framed).  LivePeerIsKept: from a ping on, there is a question, a piece *)
(* on its way or an answer in readPacket's hands, and nothing has been     *)
(* idle for longer than that (PingInv).                                    *)
(***************************************************************************)
EXTENDS Mqtt, SequenceTheorems, TLAPS

\* A row of packets after the first "left" pieces: every header is followed by the rest
\* of its packet, and that by the next header.
Framed(s, left) ==
  /\ left <= Len(s)
  /\ \A i \in 1..left : ~s[i].first
  /\ left < Len(s) => s[left + 1].first
  /\ \A i \in 1..Len(s) : s[i].first =>
       /\ i + s[i].size - 1 <= Len(s)
       /\ \A j \in (i + 1)..(i + s[i].size - 1) : ~s[j].first
       /\ i + s[i].size <= Len(s) => s[i + s[i].size].first

\* What the client has not read yet, and how much of it belongs to the packet it reads.
Stream == rx \o net
Left == IF pc = "read" /\ got > 0 THEN packet.size - got ELSE 0

Kinds == {"connack", "refused", "pingresp", "suback", "pingreq", "publish0", "publish1"}
Token == [kind : Kinds, size : Nat \ {0}, first : BOOLEAN]
Packets == [kind : Kinds \cup {"text", "none"}, size : Nat]
Questions == {"connect", "ping", "subscribe"}

WireOK ==
  /\ session \in BOOLEAN
  /\ asks \in Seq(Questions) /\ net \in Seq(Token) /\ rx \in Seq(Token)

ReadOK ==
  /\ pc \in {"idle", "await", "read"} /\ why \in {"connect", "loop"}
  /\ got \in Nat /\ packet \in Packets /\ byteAge \in Nat

FlagsOK ==
  /\ state \in {"disconnected", "failed", "lost", "timeout", "refused", "connected"}
  /\ tcp \in BOOLEAN /\ ping \in BOOLEAN /\ torn \in BOOLEAN /\ misread \in BOOLEAN

AgesOK ==
  /\ inAge \in Nat /\ outAge \in Nat /\ loopAge \in Nat /\ waiting \in Nat

TypeOK == WireOK /\ ReadOK /\ FlagsOK /\ AgesOK

\* A ping's answer is a packet of one piece.
PongsAreShort(s) ==
  \A i \in 1..Len(s) : s[i].kind = "pingresp" => s[i].first /\ s[i].size = 1

\* Without a connection nothing is under way; a wait or a read has one.
ControlInv ==
  /\ ~tcp => pc = "idle" /\ ~session /\ asks = <<>> /\ net = <<>> /\ rx = <<>>
  /\ state = "connected" => pc # "await" /\ (pc = "read" => why = "loop")

FrameInv ==
  /\ PongsAreShort(Stream)
  /\ pc = "read" /\ got > 0 => got <= packet.size
  /\ pc # "read" => got = 0
  /\ ~torn => ~misread /\ Framed(Stream, Left)

\* The answer to the ping is still to come, or in readPacket's hands.
Unanswered ==
  \/ \E i \in 1..Len(asks) : asks[i] = "ping"
  \/ \E i \in 1..Len(Stream) : Stream[i].kind = "pingresp"

PongInHand == pc = "read" /\ got > 0 /\ packet.kind = "pingresp" /\ packet.size = 1

PingInv ==
  state = "connected" /\ tcp /\ ping /\ ~torn =>
    \/ Unanswered /\ waiting >= inAge /\ waiting >= outAge
       /\ (pc = "read" => waiting >= loopAge)
    \/ PongInHand

MqttInv == TypeOK /\ ControlInv /\ FrameInv /\ PingInv
-----------------------------------------------------------------------------
\* The pieces of a packet, and what is on its way when a piece is read, arrives or is sent.
LEMMA ThePieces ==
  ASSUME NEW kind \in Kinds, NEW size \in Nat \ {0}
  PROVE  /\ Pieces(kind, size) \in Seq(Token) /\ Len(Pieces(kind, size)) = size
         /\ \A i \in 1..size : Pieces(kind, size)[i]
                                 = [kind |-> kind, size |-> size, first |-> i = 1]
  BY DEF Pieces, Token

LEMMA TokensIn ==
  ASSUME NEW s \in Seq(Token), NEW i \in 1..Len(s)
  PROVE  s[i] \in Token /\ s[i].size \in Nat \ {0}
<1>1. s[i] \in Token
  OBVIOUS
<1> QED BY <1>1 DEF Token

LEMMA StreamIsSeq == \A r, n \in Seq(Token) : r \o n \in Seq(Token)
  OBVIOUS

LEMMA StreamTail ==
  ASSUME NEW r \in Seq(Token), NEW n \in Seq(Token), r # <<>>
  PROVE  /\ Tail(r) \in Seq(Token) /\ Tail(r) \o n = Tail(r \o n)
         /\ r \o n \in Seq(Token) /\ r \o n # <<>> /\ Head(r) = (r \o n)[1]
  OBVIOUS

LEMMA StreamArrives ==
  ASSUME NEW r \in Seq(Token), NEW n \in Seq(Token), n # <<>>
  PROVE  /\ Append(r, Head(n)) \in Seq(Token) /\ Tail(n) \in Seq(Token)
         /\ Append(r, Head(n)) \o Tail(n) = r \o n
  OBVIOUS

LEMMA StreamGrows ==
  ASSUME NEW r \in Seq(Token), NEW n \in Seq(Token), NEW p \in Seq(Token)
  PROVE  n \o p \in Seq(Token) /\ r \o (n \o p) = (r \o n) \o p
  OBVIOUS

\* A piece is read from a row of packets: it is the rest of the one that is being read, or
\* the header of the next.
LEMMA FramedTail ==
  ASSUME NEW s \in Seq(Token), s # <<>>, NEW left \in Nat, Framed(s, left)
  PROVE  /\ left > 0 => ~s[1].first /\ Framed(Tail(s), left - 1)
         /\ left = 0 => s[1].first /\ Framed(Tail(s), s[1].size - 1)
<1> DEFINE t == Tail(s)
<1>1. Len(s) \in Nat \ {0} /\ Len(t) = Len(s) - 1
      /\ \A i \in 1..Len(t) : t[i] = s[i + 1]
  OBVIOUS
<1>2. \A i \in 1..Len(s) : s[i].size \in Nat \ {0}
  BY TokensIn
<1>3. \A i \in 1..Len(t) : t[i].first =>
        /\ i + t[i].size - 1 <= Len(t)
        /\ \A j \in (i + 1)..(i + t[i].size - 1) : ~t[j].first
        /\ i + t[i].size <= Len(t) => t[i + t[i].size].first
  <2> HIDE DEF t
  <2> SUFFICES ASSUME NEW i \in 1..Len(t), t[i].first
               PROVE  /\ i + t[i].size - 1 <= Len(t)
                      /\ \A j \in (i + 1)..(i + t[i].size - 1) : ~t[j].first
                      /\ i + t[i].size <= Len(t) => t[i + t[i].size].first
    OBVIOUS
  <2>1. i + 1 \in 1..Len(s) /\ t[i] = s[i + 1] /\ t[i].size \in Nat \ {0}
    BY <1>1, <1>2
  <2>2. /\ (i + 1) + t[i].size - 1 <= Len(s)
        /\ \A j \in ((i + 1) + 1)..((i + 1) + t[i].size - 1) : ~s[j].first
        /\ (i + 1) + t[i].size <= Len(s) => s[(i + 1) + t[i].size].first
    BY <2>1 DEF Framed
  <2>3. i + t[i].size - 1 <= Len(t)
    BY <1>1, <2>1, <2>2
  <2>4. ASSUME NEW j \in (i + 1)..(i + t[i].size - 1) PROVE ~t[j].first
    <3>1. j \in 1..Len(t) /\ j + 1 \in ((i + 1) + 1)..((i + 1) + t[i].size - 1)
      BY <2>1, <2>3, <1>1
    <3> QED BY <3>1, <2>2, <1>1
  <2>5. ASSUME i + t[i].size <= Len(t) PROVE t[i + t[i].size].first
    <3>1. i + t[i].size \in 1..Len(t) /\ (i + t[i].size) + 1 = (i + 1) + t[i].size
          /\ (i + 1) + t[i].size <= Len(s)
      BY <2>1, <2>5, <1>1
    <3> QED BY <3>1, <2>2, <1>1
  <2> QED BY <2>3, <2>4, <2>5
<1>4. ASSUME left > 0 PROVE ~s[1].first /\ Framed(t, left - 1)
  <2> HIDE DEF t
  <2>1. ~s[1].first /\ left - 1 <= Len(t)
    BY <1>1, <1>4 DEF Framed
  <2>2. \A i \in 1..(left - 1) : ~t[i].first
    BY <1>1, <1>4 DEF Framed
  <2>3. left - 1 < Len(t) => t[(left - 1) + 1].first
    BY <1>1, <1>4 DEF Framed
  <2> QED BY <2>1, <2>2, <2>3, <1>3 DEF Framed
<1>5. ASSUME left = 0 PROVE s[1].first /\ Framed(t, s[1].size - 1)
  <2> HIDE DEF t
  <2>1. s[1].first /\ 1 \in 1..Len(s) /\ s[1].size \in Nat \ {0}
    BY <1>1, <1>2, <1>5 DEF Framed
  <2>2. /\ s[1].size <= Len(s)
        /\ \A j \in 2..s[1].size : ~s[j].first
        /\ 1 + s[1].size <= Len(s) => s[1 + s[1].size].first
    BY <2>1, <1>1 DEF Framed
  <2>3. ASSUME NEW i \in 1..(s[1].size - 1) PROVE ~t[i].first
    <3>1. i \in 1..Len(t) /\ i + 1 \in 2..s[1].size
      BY <1>1, <2>1, <2>2
    <3> QED BY <3>1, <1>1, <2>2
  <2>4. ASSUME s[1].size - 1 < Len(t) PROVE t[(s[1].size - 1) + 1].first
    <3>1. s[1].size \in 1..Len(t) /\ (s[1].size - 1) + 1 = s[1].size
          /\ 1 + s[1].size <= Len(s)
      BY <2>4, <1>1, <2>1
    <3> QED BY <3>1, <1>1, <2>2
  <2> QED BY <1>1, <2>1, <2>2, <2>3, <2>4, <1>3 DEF Framed
<1> QED BY <1>4, <1>5

\* A packet is sent behind a row of packets.
LEMMA FramedSend ==
  ASSUME NEW s \in Seq(Token), NEW left \in Nat, Framed(s, left),
         NEW kind \in Kinds, NEW size \in Nat \ {0}
  PROVE  Framed(s \o Pieces(kind, size), left)
<1> DEFINE p == Pieces(kind, size)
           t == s \o p
<1>1. p \in Seq(Token) /\ Len(p) = size
      /\ \A i \in 1..size : (p[i].first <=> i = 1) /\ p[i].size = size
  <2>1. p \in Seq(Token) /\ Len(p) = size
    BY ThePieces
  <2>2. ASSUME NEW i \in 1..size PROVE (p[i].first <=> i = 1) /\ p[i].size = size
    <3>1. p[i] = [kind |-> kind, size |-> size, first |-> i = 1]
      BY ThePieces
    <3>2. [kind |-> kind, size |-> size, first |-> i = 1].first <=> i = 1
      OBVIOUS
    <3> HIDE DEF p
    <3> QED BY <3>1, <3>2
  <2> QED BY <2>1, <2>2
<1>2. Len(s) \in Nat /\ Len(t) = Len(s) + size
      /\ (\A i \in 1..Len(s) : t[i] = s[i])
      /\ (\A i \in (Len(s) + 1)..Len(t) : t[i] = p[i - Len(s)])
  <2> HIDE DEF p
  <2> QED BY <1>1
<1>3. \A i \in 1..Len(s) : s[i].size \in Nat \ {0}
  BY TokensIn
<1>4. \A i \in (Len(s) + 1)..Len(t) : (t[i].first <=> i = Len(s) + 1) /\ t[i].size = size
  <2> HIDE DEF p, t
  <2> SUFFICES ASSUME NEW i \in (Len(s) + 1)..Len(t)
               PROVE  (t[i].first <=> i = Len(s) + 1) /\ t[i].size = size
    OBVIOUS
  <2>1. i - Len(s) \in 1..size /\ (i - Len(s) = 1 <=> i = Len(s) + 1)
    BY <1>2
  <2>2. (p[i - Len(s)].first <=> i - Len(s) = 1) /\ p[i - Len(s)].size = size
    BY <2>1, <1>1
  <2> QED BY <2>1, <2>2, <1>2
<1> HIDE DEF p, t
<1>5. left <= Len(t) /\ \A i \in 1..left : ~t[i].first
  BY <1>2 DEF Framed
<1>6. left < Len(t) => t[left + 1].first
  <2>1. CASE left < Len(s)
    BY <2>1, <1>2 DEF Framed
  <2>2. CASE left = Len(s)
    <3>1. left + 1 \in (Len(s) + 1)..Len(t) /\ left + 1 = Len(s) + 1
      BY <2>2, <1>2
    <3> QED BY <3>1, <1>4
  <2> QED BY <2>1, <2>2, <1>2 DEF Framed
<1>7. ASSUME NEW i \in 1..Len(t), t[i].first
      PROVE  /\ i + t[i].size - 1 <= Len(t)
             /\ \A j \in (i + 1)..(i + t[i].size - 1) : ~t[j].first
             /\ i + t[i].size <= Len(t) => t[i + t[i].size].first
  <2>1. CASE i \in 1..Len(s)
    <3>1. t[i] = s[i] /\ s[i].size \in Nat \ {0}
      BY <2>1, <1>2, <1>3
    <3>2. /\ i + s[i].size - 1 <= Len(s)
          /\ \A j \in (i + 1)..(i + s[i].size - 1) : ~s[j].first
          /\ i + s[i].size <= Len(s) => s[i + s[i].size].first
      BY <2>1, <3>1, <1>7 DEF Framed
    <3>3. ASSUME NEW j \in (i + 1)..(i + s[i].size - 1) PROVE ~t[j].first
      <4>1. j \in 1..Len(s)
        BY <2>1, <3>1, <3>2
      <4> QED BY <4>1, <3>2, <1>2
    <3>4. t[i + s[i].size].first
      <4>1. CASE i + s[i].size <= Len(s)
        BY <4>1, <3>1, <3>2, <1>2
      <4>2. CASE i + s[i].size = Len(s) + 1
        <5>1. i + s[i].size \in (Len(s) + 1)..Len(t)
          BY <4>2, <1>2
        <5> QED BY <5>1, <4>2, <1>4
      <4>3. i + s[i].size <= Len(s) \/ i + s[i].size = Len(s) + 1
        <5>1. i \in Nat /\ s[i].size \in Nat /\ Len(s) \in Nat
          BY <2>1, <3>1, <1>2
        <5>2. PICK n \in Nat, m \in Nat : n = s[i].size /\ m = Len(s)
          BY <5>1
        <5>3. i + n - 1 <= m
          BY <3>2, <5>2
        <5>4. i + n <= m \/ i + n = m + 1
          BY <5>1, <5>2, <5>3
        <5> QED BY <5>2, <5>4
      <4> QED BY <4>1, <4>2, <4>3
    <3>5. i + s[i].size - 1 <= Len(t)
      BY <2>1, <3>1, <3>2, <1>2
    <3> QED BY <3>1, <3>3, <3>4, <3>5
  <2>2. CASE i \in (Len(s) + 1)..Len(t)
    <3>1. i = Len(s) + 1 /\ t[i].size = size
      BY <2>2, <1>4, <1>7
    <3> QED BY <3>1, <1>2, <1>4
  <2> QED BY <2>1, <2>2, <1>2
<1>8. QED BY <1>5, <1>6, <1>7 DEF Framed, t, p
-----------------------------------------------------------------------------
\* Nothing on its way, and numbers that grow older.
LEMMA NoWire == <<>> \in Seq(Questions) /\ <<>> \in Seq(Token) /\ Nothing \in Packets
  BY DEF Nothing, Packets

\* What readPacket takes for a header: the size of a packet that fits is kept.
LEMMA HeaderReads ==
  ASSUME NEW byte \in Token
  PROVE  /\ Header(byte) \subseteq Packets
         /\ \A h \in Header(byte) : h.size \in Nat \ {0}
         /\ byte.first /\ byte.size <= LengthWrap =>
              Header(byte) = {[kind |-> byte.kind, size |-> byte.size]}
<1>1. byte.size \in Nat \ {0} /\ byte.kind \in Kinds /\ LengthWrap \in Nat \ {0}
  BY MqttAssumption DEF Token
<1>2. PICK w \in Nat \ {0}, n \in Nat : w = LengthWrap /\ n = byte.size - 1
  BY <1>1
<1>3. n % w \in Nat /\ (n < w => n % w = n)
  BY <1>2
<1>4. /\ 1 + ((byte.size - 1) % LengthWrap) \in Nat \ {0}
      /\ byte.size <= LengthWrap => 1 + ((byte.size - 1) % LengthWrap) = byte.size
  <2>1. 1 + (n % w) \in Nat \ {0}
    BY <1>3
  <2>2. byte.size <= LengthWrap => n < w /\ 1 + n = byte.size
    BY <1>1, <1>2
  <2> QED BY <1>2, <1>3, <2>1, <2>2
<1>5. CASE byte.first
  BY <1>1, <1>4, <1>5 DEF Header, Packets
<1>6. CASE ~byte.first
  <2>1. Header(byte) = [kind : Guises, size : 1..LengthWrap]
    BY <1>6 DEF Header
  <2>2. Guises \subseteq Kinds \cup {"text", "none"}
    BY DEF Guises, Kinds
  <2>3. 1..LengthWrap \subseteq Nat \ {0}
    BY <1>1
  <2> QED BY <2>1, <2>2, <2>3, <1>6 DEF Packets
<1> QED BY <1>5, <1>6 DEF Token

LEMMA OlderIsNat == \A a, limit \in Nat : Older(a, limit) \in Nat
  BY DEF Older

\* Every step keeps the types.
LEMMA TypesKept == TypeOK /\ [Next]_vars => TypeOK'
<1> SUFFICES ASSUME TypeOK, [Next]_vars PROVE TypeOK'
  OBVIOUS
<1> USE NoWire DEF TypeOK
<1>0. KeepAlive \in Nat /\ SocketTimeout \in Nat
  BY MqttAssumption
<1>1. waiting \in Nat /\ (Watch \/ Time => waiting' \in Nat)
  <2>1. waiting \in Nat /\ Older(waiting, KeepAlive) \in Nat /\ 0 \in Nat
    BY <1>0, OlderIsNat DEF AgesOK
  <2> QED BY <2>1, Zenon DEF Watch, Time
<1>2. \A kind \in Kinds, size \in Nat \ {0} : Send(kind, size) => net' \in Seq(Token)
  BY ThePieces, StreamGrows DEF Send, WireOK
<1>3. \A q \in Questions : Append(asks, q) \in Seq(Questions)
  BY DEF WireOK
<1>4. ASSUME Connect, Watch PROVE TypeOK'
  <2>1. WireOK'
    BY <1>3, <1>4 DEF Connect, Ask, wire, WireOK, Questions
  <2>2. ReadOK'
    BY <1>4 DEF Connect, readVars, ReadOK
  <2>3. FlagsOK'
    BY <1>4 DEF Connect, Noticed, FlagsOK
  <2>4. AgesOK'
    BY <1>1, <1>4 DEF Connect, Noticed, AgesOK
  <2> QED BY <2>1, <2>2, <2>3, <2>4
<1>5. ASSUME Await, Watch PROVE TypeOK'
  <2>1. WireOK'
    BY <1>5 DEF Await, Stop, wire, WireOK
  <2>2. ReadOK'
    BY <1>5 DEF Await, Return, ReadOK
  <2>3. FlagsOK'
    BY <1>5 DEF Await, Stop, FlagsOK
  <2>4. AgesOK'
    BY <1>1, <1>5 DEF Await, Stop, AgesOK
  <2> QED BY <2>1, <2>2, <2>3, <2>4
<1>6. ASSUME Disconnect \/ ClientStops, Watch PROVE TypeOK'
  <2>1. WireOK' /\ ReadOK'
    BY <1>6 DEF Disconnect, ClientStops, Stop, readVars, WireOK, ReadOK
  <2>2. FlagsOK'
    BY <1>6 DEF Disconnect, ClientStops, Stop, FlagsOK
  <2>3. AgesOK'
    BY <1>1, <1>6 DEF Disconnect, ClientStops, AgesOK
  <2> QED BY <2>1, <2>2, <2>3
<1>7. ASSUME ReadByte, Watch PROVE TypeOK'
  <2>1. Tail(rx) \in Seq(Token) /\ Head(rx) \in Token
    BY <1>7 DEF ReadByte, Available, WireOK
  <2>2. WireOK'
    BY <2>1, <1>7 DEF ReadByte, TakeByte, WireOK
  <2>3. packet' \in Packets
    <3>1. Header(Head(rx)) \subseteq Packets
      BY <2>1, HeaderReads
    <3> QED BY <3>1, <2>1, <1>7 DEF ReadByte, ReadOK
  <2>4. ReadOK'
    BY <2>3, <1>7 DEF ReadByte, ReadOK
  <2>5. FlagsOK'
    BY <1>7 DEF ReadByte, FlagsOK
  <2>6. AgesOK'
    BY <1>1, <1>7 DEF ReadByte, AgesOK
  <2> QED BY <2>2, <2>4, <2>5, <2>6
<1>8. ASSUME PacketRead \/ ReadTimesOut, Watch PROVE TypeOK'
  <2>1. WireOK'
    BY <1>8 DEF PacketRead, Returned, ReadTimesOut, Dispatch, ConnectAnswered, Stop, wire, WireOK
  <2>2. ReadOK'
    BY <1>8 DEF PacketRead, ReadTimesOut, Return, ReadOK
  <2>3. FlagsOK'
    BY <1>8 DEF PacketRead, Returned, ReadTimesOut, Dispatch, ConnectAnswered, Stop, FlagsOK
  <2>4. AgesOK'
    BY <1>1, <1>8 DEF PacketRead, Returned, ReadTimesOut, Dispatch, ConnectAnswered, Stop, AgesOK
  <2> QED BY <2>1, <2>2, <2>3, <2>4
<1>9. ASSUME Loop, Watch PROVE TypeOK'
  <2>1. WireOK'
    BY <1>3, <1>9 DEF Loop, Ask, Stop, wire, WireOK, Questions
  <2>2. ReadOK'
    BY <1>9 DEF Loop, ReadAvailable, readVars, ReadOK
  <2>3. FlagsOK'
    BY <1>9 DEF Loop, Stop, FlagsOK
  <2>4. AgesOK'
    BY <1>1, <1>9 DEF Loop, Stop, AgesOK
  <2> QED BY <2>1, <2>2, <2>3, <2>4
<1>10. ASSUME Publish \/ BrokerDies, Watch PROVE TypeOK'
  BY <1>1, <1>10 DEF Publish, BrokerDies, readVars, wire, WireOK, ReadOK, FlagsOK, AgesOK
<1>11. ASSUME Subscribe, Watch PROVE TypeOK'
  <2>1. WireOK'
    BY <1>3, <1>11 DEF Subscribe, Ask, WireOK, Questions
  <2> QED BY <2>1, <1>1, <1>11 DEF Subscribe, readVars, ReadOK, FlagsOK, AgesOK
<1>12. ASSUME BrokerAnswers, Watch PROVE TypeOK'
  <2>1. Tail(asks) \in Seq(Questions) /\ Head(asks) \in {"connect", "ping", "subscribe"}
    BY <1>12 DEF BrokerAnswers, WireOK, Questions
  <2>2. \E kind \in {"connack", "refused", "pingresp", "suback"} :
          Send(kind, 1) \/ Send(kind, 2)
    BY <2>1, <1>12 DEF BrokerAnswers
  <2>3. {"connack", "refused", "pingresp", "suback"} \subseteq Kinds
    BY DEF Kinds
  <2>4. net' \in Seq(Token)
    BY <2>2, <2>3, <1>2
  <2>5. session' \in BOOLEAN
    BY <2>1, <1>12 DEF BrokerAnswers, WireOK
  <2>6. WireOK'
    BY <2>1, <2>4, <2>5, <1>12 DEF BrokerAnswers, WireOK
  <2> QED BY <2>6, <1>1, <1>12 DEF BrokerAnswers, readVars, ReadOK, FlagsOK, AgesOK
<1>13. ASSUME BrokerSends, Watch PROVE TypeOK'
  <2>1. {"pingreq", "publish0", "publish1"} \subseteq Kinds
        /\ 1..MaxSize \subseteq Nat \ {0}
    BY MqttAssumption DEF Kinds
  <2>2. \E kind \in {"pingreq", "publish0", "publish1"}, size \in Nat \ {0} :
          Send(kind, size)
    BY <2>1, <1>13 DEF BrokerSends
  <2>3. net' \in Seq(Token)
    BY <2>1, <2>2, <1>2
  <2> QED BY <2>3, <1>1, <1>13 DEF BrokerSends, readVars, WireOK, ReadOK, FlagsOK, AgesOK
<1>14. ASSUME Arrive, Watch PROVE TypeOK'
  <2>1. WireOK'
    BY <1>14, StreamArrives DEF Arrive, WireOK
  <2> QED BY <2>1, <1>1, <1>14 DEF Arrive, readVars, ReadOK, FlagsOK, AgesOK
<1>15. ASSUME Time PROVE TypeOK'
  <2>1. FlagsOK' /\ AgesOK'
    BY <1>0, <1>1, <1>15, OlderIsNat DEF Time, Tick, FlagsOK, AgesOK
  <2> QED BY <2>1, <1>0, <1>15, OlderIsNat DEF Time, Tick, wire, WireOK, ReadOK
<1>16. CASE UNCHANGED vars
  BY <1>16 DEF vars, readVars, wire, WireOK, ReadOK, FlagsOK, AgesOK
<1> HIDE DEF TypeOK
<1> QED BY <1>4, <1>5, <1>6, <1>7, <1>8, <1>9, <1>10, <1>11, <1>12, <1>13, <1>14, <1>15,
           <1>16, Zenon DEF Next, Step, Program, Others
\* A wait and a read have a connection, and without one nothing is under way.
LEMMA ControlKept == TypeOK /\ ControlInv /\ [Next]_vars => ControlInv'
<1> SUFFICES ASSUME TypeOK, ControlInv, [Next]_vars PROVE ControlInv'
  OBVIOUS
<1>1. CASE Connect
  BY <1>1 DEF Connect, Noticed, ControlInv, readVars, wire
<1>2. CASE Await
  BY <1>2 DEF Await, Stop, Return, ControlInv, wire
<1>3. CASE Disconnect \/ ClientStops
  BY <1>3 DEF Disconnect, ClientStops, Stop, ControlInv, readVars
<1>4. CASE ReadByte
  BY <1>4 DEF ReadByte, ControlInv
<1>5. CASE PacketRead
  BY <1>5 DEF PacketRead, Returned, Dispatch, ConnectAnswered, Stop, Return, ControlInv, wire
<1>6. CASE ReadTimesOut
  BY <1>6 DEF ReadTimesOut, ConnectAnswered, Stop, Return, ControlInv, wire
<1>7. CASE Loop
  BY <1>7 DEF Loop, ReadAvailable, Stop, ControlInv, readVars, wire
<1>8. CASE Publish \/ Subscribe \/ BrokerDies
  BY <1>8 DEF Publish, Subscribe, BrokerDies, ControlInv, readVars, wire
<1>9. CASE BrokerAnswers \/ BrokerSends \/ Arrive
  BY <1>9 DEF BrokerAnswers, BrokerSends, Arrive, ControlInv, readVars
<1>10. CASE Time
  BY <1>10 DEF Time, Tick, ControlInv, wire
<1>11. CASE UNCHANGED vars
  BY <1>11 DEF vars, readVars, wire, ControlInv
<1> QED BY <1>1, <1>2, <1>3, <1>4, <1>5, <1>6, <1>7, <1>8, <1>9, <1>10, <1>11, Zenon
        DEF Next, Step, Program, Others

-----------------------------------------------------------------------------
\* A packet joins the row, or a piece of it is read: the answers to pings stay short.
LEMMA ShortSend ==
  ASSUME NEW s \in Seq(Token), PongsAreShort(s),
         NEW kind \in Kinds, NEW size \in Nat \ {0}, kind = "pingresp" => size = 1
  PROVE  PongsAreShort(s \o Pieces(kind, size))
<1> DEFINE p == Pieces(kind, size)
<1>1. p \in Seq(Token) /\ Len(p) = size
      /\ \A i \in 1..size : p[i] = [kind |-> kind, size |-> size, first |-> i = 1]
  BY ThePieces
<1>2. ASSUME NEW i \in 1..size, p[i].kind = "pingresp"
      PROVE  p[i].first /\ p[i].size = 1
  <2>1. p[i] = [kind |-> kind, size |-> size, first |-> i = 1]
    BY <1>1
  <2>2. /\ [kind |-> kind, size |-> size, first |-> i = 1].first <=> i = 1
        /\ [kind |-> kind, size |-> size, first |-> i = 1].kind = kind
        /\ [kind |-> kind, size |-> size, first |-> i = 1].size = size
    OBVIOUS
  <2> HIDE DEF p
  <2>3. kind = "pingresp" /\ size = 1 /\ i = 1
    BY <2>1, <2>2, <1>2
  <2> QED BY <2>1, <2>2, <2>3
<1> HIDE DEF p
<1>3. p \in Seq(Token) /\ Len(p) = size
  BY <1>1
<1>4. Len(s \o p) = Len(s) + size /\ Len(s) \in Nat
      /\ (\A i \in 1..Len(s) : (s \o p)[i] = s[i])
      /\ (\A i \in (Len(s) + 1)..(Len(s) + size) : (s \o p)[i] = p[i - Len(s)])
  BY <1>3
<1>5. \A i \in 1..Len(s \o p) : i \in 1..Len(s) \/ (i \in (Len(s) + 1)..(Len(s) + size)
                                                /\ i - Len(s) \in 1..size)
  BY <1>4
<1> QED BY <1>2, <1>4, <1>5 DEF PongsAreShort, p

LEMMA ShortTail ==
  ASSUME NEW s \in Seq(Token), s # <<>>, PongsAreShort(s)
  PROVE  PongsAreShort(Tail(s)) /\ (s[1].kind = "pingresp" => s[1].first /\ s[1].size = 1)
<1>1. /\ 1 \in 1..Len(s)
      /\ \A i \in 1..Len(Tail(s)) : i + 1 \in 1..Len(s) /\ Tail(s)[i] = s[i + 1]
  OBVIOUS
<1> QED BY <1>1 DEF PongsAreShort

\* Nothing changes for the row; or no packet is being read after the step; or the
\* connection is gone.
LEMMA FrameSame ==
  ASSUME FrameInv, Stream' = Stream, pc' = pc, got' = got, packet' = packet,
         torn' = torn, misread' = misread
  PROVE  FrameInv'
  BY Zenon DEF FrameInv, Left

LEMMA FrameIdle ==
  ASSUME FrameInv, Stream' = Stream, got' = 0,
         torn' \/ (torn' = torn /\ misread' = misread /\ Left = 0)
  PROVE  FrameInv'
<1>1. Left' = 0
  BY DEF Left
<1> QED BY <1>1 DEF FrameInv

LEMMA FrameGone ==
  ASSUME FrameInv, Stream' = <<>>, got' = 0,
         torn' \/ ~misread' \/ (torn' = torn /\ misread' = misread)
  PROVE  FrameInv'
<1>1. Left' = 0
  BY DEF Left
<1>2. PongsAreShort(<<>>) /\ Framed(<<>>, 0)
  BY DEF PongsAreShort, Framed
<1> QED BY <1>1, <1>2 DEF FrameInv

\* What the broker sends is a packet; the answer to a ping is one piece.
LEMMA SendKeepsFrame ==
  ASSUME TypeOK, FrameInv, NEW kind \in Kinds, NEW size \in Nat \ {0},
         kind = "pingresp" => size = 1, Send(kind, size), rx' = rx, UNCHANGED readVars,
         torn' = torn, misread' = misread
  PROVE  /\ FrameInv'
         /\ Stream \in Seq(Token) /\ Stream' = Stream \o Pieces(kind, size)
<1>1. Stream \in Seq(Token) /\ Stream' = Stream \o Pieces(kind, size)
  <2>1. rx \in Seq(Token) /\ net \in Seq(Token) /\ Pieces(kind, size) \in Seq(Token)
    BY ThePieces DEF TypeOK, WireOK
  <2>2. rx' \o net' = rx \o (net \o Pieces(kind, size))
    BY DEF Send
  <2>3. rx \o (net \o Pieces(kind, size)) = (rx \o net) \o Pieces(kind, size)
    BY <2>1, StreamGrows
  <2>4. rx \o net \in Seq(Token)
    BY <2>1, StreamIsSeq
  <2> QED BY <2>2, <2>3, <2>4, Zenon DEF Stream
<1>2. Left' = Left
  BY DEF Left, readVars
<1>3. Left \in Nat
  BY DEF Left, FrameInv, TypeOK, ReadOK, Packets
<1>4. PongsAreShort(Stream)'
  BY <1>1, ShortSend DEF FrameInv
<1>5. ~torn => Framed(Stream, Left)'
  BY <1>1, <1>2, <1>3, FramedSend DEF FrameInv
<1> QED BY <1>1, <1>4, <1>5 DEF FrameInv, readVars
\* readPacket takes a piece.
LEMMA ReadKeepsFrame == TypeOK /\ FrameInv /\ ReadByte => FrameInv'
<1> SUFFICES ASSUME TypeOK, FrameInv, ReadByte PROVE FrameInv'
  OBVIOUS
<1>1. /\ Stream \in Seq(Token) /\ Stream # <<>>
      /\ Stream' = Tail(Stream) /\ Head(rx) = Stream[1] /\ Stream[1] \in Token
  <2>1. rx \in Seq(Token) /\ net \in Seq(Token) /\ rx # <<>> /\ rx' = Tail(rx) /\ net' = net
    BY DEF ReadByte, TakeByte, Available, TypeOK, WireOK
  <2>2. /\ Stream \in Seq(Token) /\ Stream # <<>>
        /\ Stream' = Tail(Stream) /\ Head(rx) = Stream[1]
    BY <2>1, StreamTail DEF Stream
  <2>3. 1 \in 1..Len(Stream)
    BY <2>2
  <2> QED BY <2>2, <2>3, TokensIn
<1>2. PongsAreShort(Stream)'
  BY <1>1, ShortTail DEF FrameInv
<1>3. /\ pc = "read" /\ pc' = "read" /\ got \in Nat /\ got' = got + 1
      /\ torn' = (torn \/ (Stream[1].first /\ Stream[1].size > LengthWrap))
      /\ packet.size \in Nat /\ (got > 0 => got < packet.size)
      /\ misread' = (misread \/ Stream[1].first # (got = 0))
  BY <1>1 DEF ReadByte, Complete, FrameInv, TypeOK, ReadOK, Packets
<1>6. ASSUME ~torn' PROVE ~torn /\ ~(Stream[1].first /\ Stream[1].size > LengthWrap)
  BY <1>3, <1>6, Zenon
<1>4. CASE got = 0
  <2>1. packet' \in Header(Stream[1])
    BY <1>1, <1>4 DEF ReadByte
  <2>2. /\ packet'.size \in Nat \ {0}
        /\ Stream[1].first /\ Stream[1].size <= LengthWrap => packet'.size = Stream[1].size
    BY <2>1, <1>1, HeaderReads
  <2>3. ASSUME ~torn' PROVE ~misread' /\ Framed(Stream, Left)'
    <3>1. Framed(Stream, 0) /\ ~misread
      BY <2>3, <1>6, <1>4 DEF FrameInv, Left
    <3>2. Stream[1].first /\ Framed(Tail(Stream), Stream[1].size - 1)
      BY <3>1, <1>1, FramedTail
    <3>5. Stream[1].size \in Nat /\ LengthWrap \in Nat
      BY <1>1, MqttAssumption DEF Token
    <3>6. Stream[1].size <= LengthWrap
      <4>1. ~(Stream[1].size > LengthWrap)
        BY <3>2, <2>3, <1>6, Zenon
      <4> QED BY <4>1, <3>5
    <3>3. Left' = Stream[1].size - 1
      BY <3>2, <3>6, <2>2, <1>3, <1>4 DEF Left
    <3>4. ~misread'
      BY <3>1, <3>2, <1>3, <1>4
    <3> QED BY <3>2, <3>3, <3>4, <1>1
  <2>4. got' = 1 /\ got' <= packet'.size
    BY <1>3, <1>4, <2>2
  <2> QED BY <1>2, <1>3, <2>3, <2>4 DEF FrameInv
<1>5. CASE got > 0
  <2>1. packet' = packet
    BY <1>5, <1>3 DEF ReadByte
  <2>2. Left \in Nat /\ Left > 0 /\ Left' = Left - 1
    BY <2>1, <1>3, <1>5 DEF Left
  <2>3. ASSUME ~torn' PROVE ~misread' /\ Framed(Stream, Left)'
    <3>1. Framed(Stream, Left) /\ ~misread
      BY <2>3, <1>6 DEF FrameInv
    <3>2. ~Stream[1].first /\ Framed(Tail(Stream), Left - 1)
      BY <3>1, <2>2, <1>1, FramedTail
    <3>3. ~misread'
      BY <3>1, <3>2, <1>3, <1>5, <1>1 DEF Token
    <3> QED BY <3>2, <3>3, <2>2, <1>1
  <2>4. got' <= packet'.size
    BY <1>3, <1>5, <2>1
  <2> QED BY <1>2, <1>3, <2>3, <2>4 DEF FrameInv
<1> QED BY <1>3, <1>4, <1>5

LEMMA FrameKept == TypeOK /\ ControlInv /\ FrameInv /\ [Next]_vars => FrameInv'
<1> SUFFICES ASSUME TypeOK, ControlInv, FrameInv, [Next]_vars PROVE FrameInv'
  OBVIOUS
<1>1. pc # "read" => Left = 0 /\ got = 0
  BY DEF Left, FrameInv
<1>2. rx' = rx /\ net' = net => Stream' = Stream
  BY DEF Stream
<1>3. rx' = <<>> /\ net' = <<>> => Stream' = <<>>
  BY DEF Stream
<1>4. CASE Connect
  <2>1. CASE UNCHANGED <<readVars, wire, torn, misread>>
    BY <2>1, <1>2, FrameSame DEF readVars, wire
  <2>2. CASE torn' = FALSE /\ misread' = FALSE /\ UNCHANGED <<got, net, rx>>
    <3>1. Stream' = <<>> /\ got' = 0
      BY <1>1, <1>3, <1>4, <2>2 DEF Connect, ControlInv
    <3> QED BY <3>1, <2>2, FrameGone
  <2> QED BY <2>1, <2>2, <1>4 DEF Connect
<1>5. CASE Await
  <2>1. pc = "await" /\ torn' = torn /\ misread' = misread
        /\ \/ rx' = rx /\ net' = net /\ got' = got
           \/ rx' = <<>> /\ net' = <<>> /\ got' = 0
    BY <1>5 DEF Await, Stop, Return, wire
  <2> QED BY <2>1, <1>1, <1>2, <1>3, FrameIdle, FrameGone
<1>6. CASE Disconnect \/ ClientStops
  <2>1. rx' = <<>> /\ net' = <<>> /\ got' = 0 /\ torn' = torn /\ misread' = misread
    BY <1>1, <1>6 DEF Disconnect, ClientStops, Stop, readVars
  <2> QED BY <2>1, <1>3, FrameGone
<1>7. CASE ReadByte
  BY <1>7, ReadKeepsFrame
<1>8. CASE PacketRead
  <2>1. Left = 0
    BY <1>8 DEF PacketRead, Complete, Left, TypeOK, ReadOK
  <2>2. got' = 0 /\ (torn' \/ (torn' = torn /\ misread' = misread))
    BY <1>8, Zenon DEF PacketRead, Return
  <2>3. (rx' = rx /\ net' = net) \/ (rx' = <<>> /\ net' = <<>>)
    <3>1. \E kind, length : Returned(kind, length)
      BY <1>8, Zenon DEF PacketRead
    <3>2. wire' = wire \/ Stop
      BY <3>1 DEF Returned, Dispatch, ConnectAnswered
    <3> QED BY <3>2 DEF wire, Stop
  <2> QED BY <2>1, <2>2, <2>3, <1>2, <1>3, FrameIdle, FrameGone
<1>9. CASE ReadTimesOut
  <2>1. got' = 0 /\ torn'
    BY <1>9 DEF ReadTimesOut, Return
  <2>2. (rx' = rx /\ net' = net) \/ (rx' = <<>> /\ net' = <<>>)
    <3>1. wire' = wire \/ Stop \/ (rx' = rx /\ net' = net)
      BY <1>9 DEF ReadTimesOut, ConnectAnswered
    <3> QED BY <3>1 DEF wire, Stop
  <2> QED BY <2>1, <2>2, <1>2, <1>3, FrameIdle, FrameGone
<1>10. CASE Loop
  <2>1. got = 0 /\ Left = 0 /\ torn' = torn /\ misread' = misread
    BY <1>1, <1>10 DEF Loop
  <2>2. got' = got
    BY <1>10, Zenon DEF Loop, ReadAvailable, readVars
  <2>3. (rx' = rx /\ net' = net) \/ (rx' = <<>> /\ net' = <<>>)
    <3>1. wire' = wire \/ Stop \/ (rx' = rx /\ net' = net)
      BY <1>10 DEF Loop
    <3> QED BY <3>1 DEF wire, Stop
  <2> QED BY <2>1, <2>2, <2>3, <1>2, <1>3, FrameIdle, FrameGone
<1>11. CASE Publish \/ Subscribe \/ BrokerDies
  BY <1>2, <1>11, FrameSame DEF Publish, Subscribe, BrokerDies, readVars, wire
<1>12. CASE BrokerAnswers
  <2>1. rx' = rx /\ UNCHANGED readVars /\ torn' = torn /\ misread' = misread
    BY <1>12 DEF BrokerAnswers
  <2>2. Head(asks) \in {"connect", "ping", "subscribe"}
    BY <1>12 DEF BrokerAnswers, TypeOK, WireOK, Questions
  <2>3. Send("connack", 2) \/ Send("refused", 2) \/ Send("pingresp", 1) \/ Send("suback", 2)
    BY <2>2, <1>12 DEF BrokerAnswers
  <2> QED BY <2>1, <2>3, SendKeepsFrame DEF Kinds
<1>13. CASE BrokerSends
  <2>1. rx' = rx /\ UNCHANGED readVars /\ torn' = torn /\ misread' = misread
    BY <1>13 DEF BrokerSends
  <2>2. \E kind \in {"pingreq", "publish0", "publish1"}, size \in Nat \ {0} :
          Send(kind, size)
    BY <1>13, MqttAssumption DEF BrokerSends
  <2> QED BY <2>1, <2>2, SendKeepsFrame DEF Kinds
<1>14. CASE Arrive
  <2>1. Stream' = Stream
    BY <1>14, StreamArrives DEF Arrive, Stream, TypeOK, WireOK
  <2> QED BY <2>1, <1>14, FrameSame DEF Arrive, readVars
<1>15. CASE Time
  BY <1>2, <1>15, FrameSame DEF Time, Tick, wire
<1>16. CASE UNCHANGED vars
  BY <1>2, <1>16, FrameSame DEF vars, readVars, wire
<1> QED BY <1>4, <1>5, <1>6, <1>7, <1>8, <1>9, <1>10, <1>11, <1>12, <1>13, <1>14, <1>15,
           <1>16, Zenon DEF Next, Step, Program, Others
-----------------------------------------------------------------------------
\* While the ping is unanswered, nothing is quiet; and it stays unanswered when
\* questions and packets are added, and when a question is answered.
LEMMA Unquiet == TypeOK' /\ Unanswered' => ~Quiet
  BY DEF TypeOK, WireOK, Unanswered, Quiet, Stream

LEMMA AskedSame == UNCHANGED <<asks, Stream>> /\ Unanswered => Unanswered'
  BY DEF Unanswered

LEMMA AskedMore ==
  ASSUME TypeOK, Unanswered, NEW q \in Questions, asks' = Append(asks, q), Stream' = Stream
  PROVE  Unanswered'
<1>1. asks \in Seq(Questions)
  BY DEF TypeOK, WireOK
<1>2. \A i \in 1..Len(asks) : i \in 1..Len(asks') /\ asks'[i] = asks[i]
  BY <1>1
<1> QED BY <1>2 DEF Unanswered

LEMMA SentMore ==
  ASSUME TypeOK, Unanswered, Stream \in Seq(Token), asks' = asks,
         NEW p \in Seq(Token), Stream' = Stream \o p
  PROVE  Unanswered'
<1>1. \A i \in 1..Len(Stream) : i \in 1..Len(Stream \o p) /\ (Stream \o p)[i] = Stream[i]
  OBVIOUS
<1> QED BY <1>1 DEF Unanswered

LEMMA Answered ==
  ASSUME TypeOK, FrameInv, Unanswered, BrokerAnswers
  PROVE  Unanswered'
<1>1. asks \in Seq(Questions) /\ asks # <<>> /\ asks' = Tail(asks) /\ rx' = rx
      /\ UNCHANGED readVars /\ torn' = torn /\ misread' = misread
  BY DEF BrokerAnswers, TypeOK, WireOK
<1>2. 1 \in 1..Len(asks) /\ asks[1] = Head(asks)
      /\ \A i \in 1..Len(asks) : i = 1 \/ (i - 1 \in 1..Len(asks') /\ asks'[i - 1] = asks[i])
  BY <1>1
<1>3. Head(asks) \in {"connect", "ping", "subscribe"}
  BY <1>1 DEF Questions
<1>4. Send("connack", 2) \/ Send("refused", 2) \/ Send("pingresp", 1) \/ Send("suback", 2)
  BY <1>3 DEF BrokerAnswers
<1>5. Head(asks) = "ping" => Send("pingresp", 1)
  BY DEF BrokerAnswers
<1>6. PICK kind \in Kinds, size \in Nat \ {0} :
        Send(kind, size) /\ (kind = "pingresp" => size = 1)
        /\ (Head(asks) = "ping" => kind = "pingresp")
  <2>1. CASE Head(asks) = "ping"
    BY <2>1, <1>5 DEF Kinds
  <2>2. CASE Head(asks) # "ping"
    BY <2>2, <1>4 DEF Kinds
  <2> QED BY <2>1, <2>2
<1>7. Stream \in Seq(Token) /\ Stream' = Stream \o Pieces(kind, size)
  BY <1>1, <1>6, SendKeepsFrame
<1>8. /\ Len(Stream') = Len(Stream) + size /\ Len(Stream) \in Nat
      /\ Stream'[Len(Stream) + 1] = Pieces(kind, size)[1]
      /\ \A i \in 1..Len(Stream) : Stream'[i] = Stream[i]
  <2> DEFINE p == Pieces(kind, size)
  <2>1. p \in Seq(Token) /\ Len(p) = size
    BY ThePieces
  <2>2. Stream' = Stream \o p
    BY <1>7
  <2>4. Len(p) >= 1
    BY <2>1
  <2> HIDE DEF p
  <2>3. /\ Len(Stream') = Len(Stream) + size /\ Len(Stream) \in Nat
        /\ Stream'[Len(Stream) + 1] = p[1]
        /\ \A i \in 1..Len(Stream) : Stream'[i] = Stream[i]
    <3>1. \A s \in Seq(Token) : /\ Len(s \o p) = Len(s) + size /\ Len(s) \in Nat
                               /\ (s \o p)[Len(s) + 1] = p[1]
                               /\ \A i \in 1..Len(s) : (s \o p)[i] = s[i]
      BY <2>1, <2>4
    <3> QED BY <3>1, <2>2, <1>7
  <2> QED BY <2>3 DEF p
<1>9. CASE \E i \in 1..Len(Stream) : Stream[i].kind = "pingresp"
  BY <1>8, <1>9 DEF Unanswered
<1>10. CASE Head(asks) = "ping"
  <2>1. Pieces(kind, size)[1] = [kind |-> kind, size |-> size, first |-> 1 = 1]
    BY ThePieces
  <2>2. Stream'[Len(Stream) + 1].kind = "pingresp"
    BY <2>1, <1>6, <1>8, <1>10
  <2>3. Len(Stream) + 1 \in 1..Len(Stream')
    BY <1>8
  <2> QED BY <2>2, <2>3 DEF Unanswered
<1>11. CASE Head(asks) # "ping" /\ \E i \in 1..Len(asks) : asks[i] = "ping"
  BY <1>2, <1>11 DEF Unanswered
<1> QED BY <1>9, <1>10, <1>11 DEF Unanswered

\* readPacket takes a piece: the answer is still on its way, or this was it.
LEMMA AnswerRead ==
  ASSUME TypeOK, FrameInv, Unanswered, ReadByte, ~torn
  PROVE  Unanswered' \/ PongInHand'
<1>1. rx \in Seq(Token) /\ net \in Seq(Token) /\ rx # <<>> /\ rx' = Tail(rx) /\ net' = net
      /\ asks' = asks
  BY DEF ReadByte, TakeByte, Available, TypeOK, WireOK
<1>2. Stream \in Seq(Token) /\ Stream # <<>> /\ Stream' = Tail(Stream) /\ Head(rx) = Stream[1]
  BY <1>1, StreamTail DEF Stream
<1>3. CASE \E i \in 1..Len(asks) : asks[i] = "ping"
  BY <1>1, <1>3 DEF Unanswered
<1>4. CASE Stream[1].kind = "pingresp"
  <2>1. Stream[1].first /\ Stream[1].size = 1
    BY <1>2, <1>4, ShortTail DEF FrameInv
  <2>2. got = 0
    <3>1. /\ got \in Nat /\ packet.size \in Nat /\ pc = "read" /\ ~Complete
          /\ Framed(Stream, Left)
      BY DEF ReadByte, FrameInv, TypeOK, ReadOK, Packets
    <3>2. got > 0 => Left \in Nat /\ Left > 0
      BY <3>1 DEF Left, Complete, FrameInv
    <3> QED BY <3>1, <3>2, <2>1, <1>2, FramedTail
  <2>3. packet' = [kind |-> "pingresp", size |-> 1] /\ got' = 1 /\ pc' = "read"
    <3>1. 1 \in 1..Len(Stream) /\ LengthWrap \in Nat \ {0}
      BY <1>2, MqttAssumption
    <3>2. Stream[1] \in Token /\ 1 <= LengthWrap
      BY <3>1, <1>2, TokensIn
    <3>3. Header(Stream[1]) = {[kind |-> "pingresp", size |-> 1]}
      BY <3>2, <1>4, <2>1, HeaderReads
    <3> QED BY <3>3, <1>2, <2>2 DEF ReadByte
  <2> QED BY <2>3 DEF PongInHand
<1>5. CASE Stream[1].kind # "pingresp" /\ \E i \in 1..Len(Stream) : Stream[i].kind = "pingresp"
  <2>1. PICK i \in 1..Len(Stream) : Stream[i].kind = "pingresp"
    BY <1>5
  <2>2. i # 1
    BY <2>1, <1>5
  <2>3. i - 1 \in 1..Len(Tail(Stream)) /\ Tail(Stream)[i - 1] = Stream[i]
    BY <2>2, <1>2
  <2> QED BY <2>1, <2>3, <1>2 DEF Unanswered
<1> QED BY <1>3, <1>4, <1>5 DEF Unanswered
\* A step with an age that grew no older than `waiting', or not at all.
LEMMA OlderTogether ==
  ASSUME NEW a \in Nat, NEW b \in Nat, NEW limit \in Nat, a <= b
  PROVE  a <= Older(b, limit) /\ Older(a, limit) <= Older(b, limit)
  BY DEF Older

LEMMA PingKept ==
  TypeOK /\ TypeOK' /\ ControlInv /\ FrameInv /\ PingInv /\ [Next]_vars => PingInv'
<1> SUFFICES ASSUME TypeOK, TypeOK', ControlInv, FrameInv, PingInv, [Next]_vars,
                    state' = "connected", tcp', ping', ~torn'
             PROVE  \/ /\ Unanswered' /\ waiting' >= inAge' /\ waiting' >= outAge'
                       /\ (pc' = "read" => waiting' >= loopAge')
                    \/ PongInHand'
  BY DEF PingInv
<1> DEFINE Young == /\ waiting >= inAge /\ waiting >= outAge
                    /\ pc = "read" => waiting >= loopAge
<1>1. inAge \in Nat /\ outAge \in Nat /\ loopAge \in Nat /\ waiting \in Nat /\ waiting' \in Nat
  BY DEF TypeOK, AgesOK
<1>2. Watch /\ Unanswered' => waiting' = waiting
  BY Unquiet DEF Watch
<1>3. ASSUME Connect PROVE FALSE
  BY <1>3 DEF Connect, Noticed, ControlInv
<1>4. ASSUME Await PROVE FALSE
  BY <1>4 DEF Await, ControlInv
<1>5. ASSUME Disconnect \/ ClientStops PROVE FALSE
  BY <1>5 DEF Disconnect, ClientStops, Stop
<1>6. ASSUME ReadTimesOut PROVE FALSE
  BY <1>6 DEF ReadTimesOut
<1>7. ASSUME ReadByte, Watch PROVE (Unanswered' /\ Young') \/ PongInHand'
  <2>1. state = "connected" /\ tcp /\ ping /\ ~torn /\ pc' = pc
        /\ inAge' = inAge /\ outAge' = outAge /\ loopAge' = loopAge
    BY <1>7 DEF ReadByte
  <2>2. ~PongInHand
    BY <1>7 DEF PongInHand, ReadByte, Complete, FrameInv, TypeOK, ReadOK
  <2>3. Unanswered /\ Young
    BY <2>1, <2>2 DEF PingInv
  <2>4. Unanswered' \/ PongInHand'
    BY <1>7, <2>1, <2>3, AnswerRead
  <2> QED BY <2>1, <2>3, <2>4, <1>2, <1>7
<1>8. ASSUME PacketRead, Watch PROVE Unanswered' /\ Young'
  <2>0. /\ packet.size < LengthWrap /\ torn' = torn
        /\ Returned(packet.kind, IF packet.size > BufferSize THEN 0 ELSE packet.size)
    BY <1>8 DEF PacketRead
  <2>1. why = "loop"
    BY <1>8, <2>0 DEF PacketRead, Returned, ConnectAnswered, ControlInv
  <2>2. state = "connected" /\ tcp /\ ping /\ ~torn /\ UNCHANGED wire /\ pc = "read"
        /\ pc' = "idle" /\ (inAge' = loopAge \/ inAge' = inAge)
        /\ (outAge' = loopAge \/ outAge' = outAge)
    BY <1>8, <2>1, <2>0 DEF PacketRead, Returned, Dispatch, Return
  <2>3. ~PongInHand
    <3> SUFFICES ASSUME PongInHand PROVE FALSE
      OBVIOUS
    <3>1. packet.kind = "pingresp" /\ packet.size = 1 /\ BufferSize \in Nat /\ BufferSize >= 1
      BY MqttAssumption DEF PongInHand
    <3>2. Dispatch("pingresp", 1)
      BY <3>1, <2>1, <2>0 DEF Returned
    <3>3. ~ping'
      <4>1. ping' = (ping /\ ~(1 > 0 /\ "pingresp" = "pingresp"))
        BY <3>2 DEF Dispatch
      <4>2. 1 > 0
        OBVIOUS
      <4> QED BY <4>1, <4>2, <3>1, Zenon
    <3> QED BY <3>3
  <2>4. Unanswered /\ Young
    BY <2>2, <2>3 DEF PingInv
  <2>5. Unanswered'
    BY <2>2, <2>4, AskedSame DEF wire, Stream
  <2> QED BY <2>2, <2>4, <2>5, <1>1, <1>2, <1>8
<1>9. ASSUME Loop, Watch PROVE Unanswered' /\ Young'
  <2>1. CASE tcp /\ KeepaliveDue /\ ~ping /\ Ask("ping") /\ inAge' = 0 /\ outAge' = 0
    <3>1. asks \in Seq(Questions) /\ asks' = Append(asks, "ping")
      BY <2>1 DEF Ask, TypeOK, WireOK
    <3>2. Len(asks') \in 1..Len(asks') /\ asks'[Len(asks')] = "ping"
      BY <3>1
    <3>3. Unanswered'
      BY <3>2 DEF Unanswered
    <3> QED BY <3>3, <2>1, <1>1, <1>9 DEF Loop
  <2>2. CASE tcp /\ ~KeepaliveDue /\ UNCHANGED <<state, tcp, inAge, outAge, ping, wire>>
    <3>1. pc = "idle" /\ torn' = torn /\ loopAge' = 0
      BY <1>9 DEF Loop
    <3>2. Unanswered /\ Young
      BY <2>2, <3>1 DEF PingInv, PongInHand
    <3>3. Unanswered'
      BY <2>2, <3>2, AskedSame DEF wire, Stream
    <3> QED BY <2>2, <3>1, <3>2, <3>3, <1>1, <1>2, <1>9
  <2> QED BY <2>1, <2>2, <1>9 DEF Loop
<1>10. ASSUME Publish \/ Subscribe \/ BrokerDies \/ Arrive \/ BrokerSends \/ BrokerAnswers,
              Watch
       PROVE  (Unanswered' /\ Young') \/ PongInHand'
  <2>1. state = "connected" /\ tcp /\ ping /\ ~torn /\ UNCHANGED readVars
        /\ inAge' = inAge /\ (outAge' = outAge \/ outAge' = 0) /\ loopAge' = loopAge
    <3>1. CASE Publish
      BY <3>1 DEF Publish
    <3>2. CASE Subscribe
      BY <3>2 DEF Subscribe
    <3>3. CASE BrokerDies
      BY <3>3 DEF BrokerDies
    <3>4. CASE Arrive
      BY <3>4 DEF Arrive
    <3>5. CASE BrokerSends
      BY <3>5 DEF BrokerSends
    <3>6. CASE BrokerAnswers
      BY <3>6 DEF BrokerAnswers
    <3> QED BY <3>1, <3>2, <3>3, <3>4, <3>5, <3>6, <1>10
  <2>2. CASE PongInHand
    BY <2>1, <2>2 DEF PongInHand, readVars
  <2>3. CASE Unanswered /\ Young
    <3>1. ASSUME Publish \/ BrokerDies PROVE Unanswered'
      BY <3>1, <2>3, AskedSame DEF Publish, BrokerDies, wire, Stream
    <3>2. ASSUME Subscribe PROVE Unanswered'
      BY <3>2, <2>3, AskedMore DEF Subscribe, Ask, Stream, Questions
    <3>3. ASSUME Arrive PROVE Unanswered'
      <4>1. Stream' = Stream /\ asks' = asks
        BY <3>3, StreamArrives DEF Arrive, Stream, TypeOK, WireOK
      <4> QED BY <4>1, <2>3, AskedSame
    <3>4. ASSUME BrokerSends PROVE Unanswered'
      <4>1. PICK kind \in {"pingreq", "publish0", "publish1"}, size \in Nat \ {0} :
              Send(kind, size)
        BY <3>4, MqttAssumption DEF BrokerSends
      <4>2. asks' = asks /\ rx' = rx /\ torn' = torn /\ misread' = misread
        BY <3>4 DEF BrokerSends
      <4>3. Stream \in Seq(Token) /\ Stream' = Stream \o Pieces(kind, size)
        BY <4>1, <4>2, <2>1, SendKeepsFrame DEF Kinds
      <4>4. Pieces(kind, size) \in Seq(Token)
        BY ThePieces DEF Kinds
      <4> QED BY <4>2, <4>3, <4>4, <2>3, SentMore
    <3>5. ASSUME BrokerAnswers PROVE Unanswered'
      BY <3>5, <2>3, Answered
    <3>6. Unanswered'
      BY <3>1, <3>2, <3>3, <3>4, <3>5, <1>10
    <3>7. pc' = pc
      BY <2>1 DEF readVars
    <3> QED BY <2>1, <2>3, <3>6, <3>7, <1>1, <1>2, <1>10
  <2> QED BY <2>1, <2>2, <2>3 DEF PingInv
<1>11. ASSUME Time PROVE (Unanswered' /\ Young') \/ PongInHand'
  <2>1. state = "connected" /\ tcp /\ ping /\ ~torn /\ UNCHANGED wire
        /\ pc' = pc /\ got' = got /\ packet' = packet
    BY <1>11 DEF Time, Tick
  <2>2. CASE PongInHand
    BY <2>1, <2>2 DEF PongInHand
  <2>3. CASE Unanswered /\ Young
    <3>1. Unanswered'
      BY <2>1, <2>3, AskedSame DEF wire, Stream
    <3>2. waiting' = Older(waiting, KeepAlive)
      BY <3>1, <1>11, Unquiet DEF Time
    <3>3. KeepAlive \in Nat
      BY MqttAssumption
    <3>4. inAge' = Older(inAge, KeepAlive) /\ outAge' = Older(outAge, KeepAlive)
          /\ (loopAge' = Older(loopAge, KeepAlive) \/ loopAge' = 0)
      BY <2>1, <1>11 DEF Time, Tick
    <3>5. waiting' >= inAge' /\ waiting' >= outAge'
      <4>1. inAge <= waiting /\ outAge <= waiting
        BY <2>3, <1>1
      <4>2. inAge' <= waiting' /\ outAge' <= waiting'
        BY <4>1, <3>2, <3>3, <3>4, <1>1, OlderTogether
      <4>3. inAge' \in Nat /\ outAge' \in Nat
        BY <3>3, <3>4, <1>1, OlderIsNat
      <4> QED BY <4>2, <4>3, <1>1
    <3>6. pc' = "read" => waiting' >= loopAge'
      <4>1. ASSUME pc' = "read" PROVE loopAge' <= waiting'
        <5>1. loopAge <= waiting
          BY <4>1, <2>1, <2>3, <1>1
        <5>2. loopAge' = 0 \/ loopAge' <= waiting'
          BY <5>1, <3>2, <3>3, <3>4, <1>1, OlderTogether
        <5> QED BY <5>2, <1>1
      <4>2. loopAge' \in Nat
        BY DEF TypeOK, AgesOK
      <4> QED BY <4>1, <4>2, <1>1
    <3> QED BY <3>1, <3>5, <3>6
  <2> QED BY <2>1, <2>2, <2>3 DEF PingInv
<1>12. CASE UNCHANGED vars
  <2>1. UNCHANGED <<wire, readVars, inAge, outAge, loopAge, waiting>> /\ PingInv
        /\ state = "connected" /\ tcp /\ ping /\ ~torn
    BY <1>12 DEF vars
  <2>2. pc' = pc /\ got' = got /\ packet' = packet /\ asks' = asks /\ Stream' = Stream
    BY <2>1 DEF wire, readVars, Stream
  <2> QED BY <2>1, <2>2, AskedSame DEF PingInv, PongInHand
<1> QED BY <1>3, <1>4, <1>5, <1>6, <1>7, <1>8, <1>9, <1>10, <1>11, <1>12, Zenon
        DEF Next, Step, Program, Others

-----------------------------------------------------------------------------
\* The inductive invariant.
LEMMA MqttInvHolds == Spec => []MqttInv
<1>1. Init => MqttInv
  <2> SUFFICES ASSUME Init PROVE MqttInv
    OBVIOUS
  <2>1. TypeOK
    BY NoWire DEF Init, TypeOK, WireOK, ReadOK, FlagsOK, AgesOK
  <2>2. ControlInv /\ PingInv
    BY DEF Init, ControlInv, PingInv
  <2>3. FrameInv
    <3>1. Stream = <<>> /\ Left = 0 /\ got = 0 /\ ~misread
      BY DEF Init, Stream, Left
    <3>2. PongsAreShort(<<>>) /\ Framed(<<>>, 0)
      BY DEF PongsAreShort, Framed
    <3> QED BY <3>1, <3>2 DEF FrameInv
  <2> QED BY <2>1, <2>2, <2>3 DEF MqttInv
<1>2. MqttInv /\ [Next]_vars => MqttInv'
  BY TypesKept, ControlKept, FrameKept, PingKept DEF MqttInv
<1> QED BY <1>1, <1>2, PTL DEF Spec

\* readPacket takes headers for headers and bodies for bodies on every connection on which
\* readByte has not given up inside a packet, for all limits and sizes of packets.
THEOREM HeadersAreHeaders == Spec => []NothingMisread
<1>1. MqttInv => NothingMisread
  BY DEF MqttInv, FrameInv, NothingMisread
<1> QED BY <1>1, MqttInvHolds, PTL

\* loop() gives up a connection only when its ping, or another question, or a packet it has
\* not read, was there without a pause for more than the keepalive interval.
THEOREM PeersAreKept == Spec => LivePeerIsKept
<1>1. MqttInv /\ [Next]_vars
        => [state = "connected" /\ state' = "timeout" => waiting > KeepAlive \/ torn]_vars
  <2> SUFFICES ASSUME MqttInv, Next, state = "connected", state' = "timeout", ~torn
               PROVE  waiting > KeepAlive
    BY DEF LivePeerIsKept
  <2>1. Loop /\ tcp /\ KeepaliveDue /\ ping
    <3>1. state' # state
      OBVIOUS
    <3>2. ~Time /\ ~ReadByte /\ ~Publish /\ ~Subscribe /\ ~BrokerDies /\ ~Arrive
          /\ ~BrokerSends /\ ~BrokerAnswers /\ ~ClientStops
      BY <3>1 DEF Time, Tick, ReadByte, Publish, Subscribe, BrokerDies, Arrive,
                  BrokerSends, BrokerAnswers, ClientStops
    <3>3. ~Connect /\ ~Disconnect
      BY DEF Connect, Noticed, Disconnect
    <3>4. ~Await
      BY DEF Await, MqttInv, ControlInv
    <3>5. ~PacketRead /\ ~ReadTimesOut
      BY <3>1 DEF PacketRead, Returned, ReadTimesOut, Dispatch, ConnectAnswered
    <3>6. Loop
      BY <3>2, <3>3, <3>4, <3>5, Zenon DEF Next, Step, Program, Others
    <3> QED BY <3>1, <3>6 DEF Loop
  <2>2. pc = "idle"
    BY <2>1 DEF Loop
  <2>3. waiting >= inAge /\ waiting >= outAge
    BY <2>1, <2>2 DEF MqttInv, PingInv, PongInHand
  <2>4. inAge > KeepAlive \/ outAge > KeepAlive
    BY <2>1 DEF KeepaliveDue
  <2>5. KeepAlive \in Nat /\ inAge \in Nat /\ outAge \in Nat /\ waiting \in Nat
    BY MqttAssumption DEF MqttInv, TypeOK, AgesOK
  <2> QED BY <2>3, <2>4, <2>5
<1> QED BY <1>1, MqttInvHolds, PTL DEF Spec, LivePeerIsKept
=============================================================================
