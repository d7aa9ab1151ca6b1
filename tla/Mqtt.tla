-------------------------------- MODULE Mqtt --------------------------------
(***************************************************************************)
(* PubSubClient against a broker that answers, falls silent or sends       *)
(* messages of its own: connect, the keepalive and the reading of packets  *)
(* in loop(), publish and subscribe.                                       *)
(*                                                                         *)
(* The bytes of a packet arrive one by one, in pieces: `first' is the      *)
(* header with the length, the others are its body.  The length readPacket *)
(* computes and its index into the buffer are 16 bits wide: LengthWrap     *)
(* stands for 2^16.  Ages replace times: an age is millis() - x,           *)
(* saturating above the limit it is compared with.                         *)
(***************************************************************************)
EXTENDS Naturals, Sequences

CONSTANTS
  KeepAlive,      \* MQTT_KEEPALIVE
  SocketTimeout,  \* MQTT_SOCKET_TIMEOUT
  BufferSize,     \* MQTT_MAX_PACKET_SIZE, in pieces
  LengthWrap,     \* what uint16_t holds, in pieces: the length of a packet wraps there
  MaxSize,        \* the longest message of the broker, in pieces
  MaxSends,       \* bound: subscriptions, and packets the broker sends unasked
  MaxConnects     \* bound: calls of connect()

ASSUME MqttAssumption ==
  /\ {KeepAlive, SocketTimeout, BufferSize, LengthWrap, MaxSize} \subseteq Nat \ {0}
  /\ BufferSize < LengthWrap
  /\ {MaxSends, MaxConnects} \subseteq Nat

VARIABLES
  state,     \* _state
  tcp,       \* _client->connected()
  pc,        \* "idle", "await" in connect, "read" in readPacket
  why,       \* who called readPacket: "connect" or "loop"
  got,       \* pieces of the packet read so far
  packet,    \* what readPacket takes it for
  inAge,     \* age of lastInActivity
  outAge,    \* age of lastOutActivity
  loopAge,   \* age of loop()'s t
  byteAge,   \* age of readByte's previousMillis
  ping,      \* pingOutstanding
  alive,     \* the broker answers
  session,   \* the broker accepted this connection
  asks,      \* what the broker still has to answer
  net,       \* pieces on their way to the client
  rx,        \* pieces available() tells of
  sends, connects,  \* for the bounds
  torn,      \* on this connection readByte timed out inside a packet, or a packet
             \* came whose length does not fit length or len
  misread,   \* something else than a header was taken for one, or a header for a body
  waiting    \* how long there has always been something unanswered or unread

readVars == <<pc, why, got, packet, byteAge>>
wire     == <<session, asks, net, rx>>
bounds   == <<sends, connects>>
vars == <<state, tcp, readVars, inAge, outAge, loopAge, ping, alive, wire, bounds,
          torn, misread, waiting>>

Nothing == [kind |-> "none", size |-> 0]
Older(age, limit) == IF age > limit THEN age ELSE age + 1

\* The pieces of a packet.
Pieces(kind, size) == [i \in 1..size |-> [kind |-> kind, size |-> size, first |-> i = 1]]

Init ==
  /\ state = "disconnected" /\ tcp = FALSE
  /\ pc = "idle" /\ why = "loop" /\ got = 0 /\ packet = Nothing /\ byteAge = 0
  /\ inAge = 0 /\ outAge = 0 /\ loopAge = 0 /\ ping = FALSE
  /\ alive = TRUE /\ session = FALSE /\ asks = <<>> /\ net = <<>> /\ rx = <<>>
  /\ sends = 0 /\ connects = 0
  /\ torn = FALSE /\ misread = FALSE /\ waiting = 0

-----------------------------------------------------------------------------
(* The connection                                                          *)

\* _client->stop(): the modem drops the connection, and what waits with it.
Stop ==
  /\ tcp' = FALSE /\ session' = FALSE
  /\ asks' = <<>> /\ net' = <<>> /\ rx' = <<>>

\* The client's available(), read() and write(): a byte waits, is taken, or a packet of the
\* meter goes out that the broker answers.
Available == rx # <<>>
TakeByte == rx' = Tail(rx)
Ask(kind) == asks' = Append(asks, kind)

Return == pc' = "idle" /\ got' = 0 /\ packet' = Nothing /\ byteAge' = 0 /\ why' = "loop"

\* connected() notices that the client is not.
Noticed == IF state = "connected" THEN "lost" ELSE state

\* connect() dials; CONNECT is written, and the wait for an answer begins.
Connect ==
  /\ pc = "idle" /\ ~tcp /\ connects < MaxConnects
  /\ connects' = connects + 1
  /\ \/ /\ state' = "failed"
        /\ UNCHANGED <<tcp, readVars, inAge, outAge, wire, torn, misread>>
     \/ /\ state' = Noticed
        /\ tcp' = TRUE /\ pc' = "await"
        /\ Ask("connect")
        /\ inAge' = 0 /\ outAge' = 0
        /\ torn' = FALSE /\ misread' = FALSE
        /\ UNCHANGED <<why, got, packet, byteAge, session, net, rx>>
  /\ UNCHANGED <<loopAge, ping, alive, sends>>

\* Something came, or the wait was too long.
Await ==
  /\ pc = "await"
  /\ \/ /\ Available
        /\ pc' = "read" /\ why' = "connect" /\ byteAge' = 0
        /\ UNCHANGED <<state, tcp, wire, got, packet>>
     \/ /\ ~Available /\ inAge >= SocketTimeout
        /\ state' = "timeout"
        /\ Stop /\ Return
  /\ UNCHANGED <<inAge, outAge, loopAge, ping, alive, bounds, torn, misread>>

\* Mutant: the ping of the last connection is still outstanding.
ConnectAnsweredKeepsPing(kind, length) ==
  IF length > 0 /\ kind = "connack"
  THEN /\ state' = "connected" /\ inAge' = 0
       /\ UNCHANGED <<tcp, ping, wire>>
  ELSE /\ state' = IF length > 0 /\ kind = "refused" THEN "refused" ELSE state
       /\ Stop
       /\ UNCHANGED <<inAge, ping>>

\* What connect() makes of the packet it read.
ConnectAnswered(kind, length) ==
  IF length > 0 /\ kind = "connack"
  THEN /\ state' = "connected" /\ inAge' = 0 /\ ping' = FALSE
       /\ UNCHANGED <<tcp, wire>>
  ELSE /\ state' = IF length > 0 /\ kind = "refused" THEN "refused" ELSE state
       /\ Stop
       /\ UNCHANGED <<inAge, ping>>

\* disconnect(), and a client that goes down under the library.
Disconnect ==
  /\ pc = "idle"
  /\ state' = "disconnected" /\ inAge' = 0 /\ outAge' = 0
  /\ Stop
  /\ UNCHANGED <<readVars, loopAge, ping, alive, bounds, torn, misread>>

ClientStops ==
  /\ pc = "idle" /\ tcp
  /\ Stop
  /\ UNCHANGED <<state, readVars, inAge, outAge, loopAge, ping, alive, bounds, torn,
                 misread>>

-----------------------------------------------------------------------------
(* Reading                                                                 *)

\* What loop() takes a byte of a body for, where it expects the type of a packet.
Guises == {"text", "pingresp", "publish1"}

\* readPacket's length is what the header says, less what does not fit 16 bits.  The
\* middle of a packet in the place of a header announces anything.
Header(byte) ==
  IF byte.first THEN {[kind |-> byte.kind, size |-> 1 + ((byte.size - 1) % LengthWrap)]}
                ELSE [kind : Guises, size : 1..LengthWrap]

\* Mutant: reading ends with the buffer.
CompleteWhenFull == got > 0 /\ (got = packet.size \/ got >= BufferSize)

\* readPacket has as many pieces as it understood; those beyond the buffer are
\* read and not stored.
Complete == got > 0 /\ got = packet.size

ReadByte ==
  /\ pc = "read" /\ ~Complete /\ Available
  /\ TakeByte /\ got' = got + 1 /\ byteAge' = 0
  /\ packet' \in IF got = 0 THEN Header(Head(rx)) ELSE {packet}
  /\ misread' = (misread \/ Head(rx).first # (got = 0))
  /\ torn' = (torn \/ (Head(rx).first /\ Head(rx).size > LengthWrap))
  /\ UNCHANGED <<state, tcp, pc, why, inAge, outAge, loopAge, ping, alive, session, asks,
                 net, bounds>>

\* loop() has a packet of this length; one that is too long has length 0.
Dispatch(kind, length) ==
  /\ inAge' = IF length > 0 THEN loopAge ELSE inAge
  /\ outAge' = IF length > 0 /\ kind = "publish1" THEN loopAge ELSE outAge
  /\ ping' = (ping /\ ~(length > 0 /\ kind = "pingresp"))
  /\ UNCHANGED <<state, tcp, wire>>

Returned(kind, length) ==
  IF why = "loop" THEN Dispatch(kind, length)
                  ELSE ConnectAnswered(kind, length) /\ UNCHANGED outAge

\* At LengthWrap pieces, length fits and len does not: it starts again at the front of
\* the buffer, whose first byte, the type, is then one of the body.
PacketRead ==
  /\ pc = "read" /\ Complete
  /\ \/ /\ packet.size < LengthWrap
        /\ Returned(packet.kind, IF packet.size > BufferSize THEN 0 ELSE packet.size)
        /\ UNCHANGED <<torn, misread>>
     \/ /\ packet.size >= LengthWrap
        /\ \E kind \in Guises, length \in {0, 1} :
             Returned(kind, length) /\ misread' = (misread \/ length > 0)
        /\ torn' = TRUE
  /\ Return
  /\ UNCHANGED <<loopAge, alive, bounds>>

\* readByte waited too long: the packet counts as empty, its rest is still to come.
ReadTimesOut ==
  /\ pc = "read" /\ ~Complete /\ ~Available /\ byteAge >= SocketTimeout
  /\ torn' = TRUE
  /\ IF why = "loop" THEN UNCHANGED <<state, tcp, wire, inAge, ping>>
                     ELSE ConnectAnswered(packet.kind, 0)
  /\ Return
  /\ UNCHANGED <<outAge, loopAge, alive, bounds, misread>>

-----------------------------------------------------------------------------
(* loop() and what the program sends                                       *)

\* Mutant: what the meter sends keeps the connection.
KeepaliveDueBoth == inAge > KeepAlive /\ outAge > KeepAlive

KeepaliveDue == inAge > KeepAlive \/ outAge > KeepAlive

\* After the keepalive: a packet, if one is there.
ReadAvailable ==
  IF ~Available THEN UNCHANGED readVars
  ELSE pc' = "read" /\ why' = "loop" /\ byteAge' = 0 /\ UNCHANGED <<got, packet>>

Loop ==
  /\ pc = "idle"
  /\ loopAge' = 0
  /\ \/ /\ ~tcp /\ state = "connected"
        /\ state' = "lost"
        /\ UNCHANGED <<tcp, readVars, inAge, outAge, ping, wire>>
     \/ /\ tcp /\ KeepaliveDue /\ ping
        /\ state' = "timeout"
        /\ Stop
        /\ UNCHANGED <<readVars, inAge, outAge, ping>>
     \/ /\ tcp /\ KeepaliveDue /\ ~ping
        /\ Ask("ping") /\ ping' = TRUE
        /\ inAge' = 0 /\ outAge' = 0
        /\ ReadAvailable
        /\ UNCHANGED <<state, tcp, session, net, rx>>
     \/ /\ tcp /\ ~KeepaliveDue
        /\ ReadAvailable
        /\ UNCHANGED <<state, tcp, inAge, outAge, ping, wire>>
  /\ UNCHANGED <<alive, bounds, torn, misread>>

\* publish and publish_P: QoS 0, nobody answers.  What is too long is not written.
Publish ==
  /\ pc = "idle" /\ tcp
  /\ outAge' = 0
  /\ UNCHANGED <<state, tcp, readVars, inAge, loopAge, ping, alive, wire, bounds, torn,
                 misread>>

\* subscribe and unsubscribe: the broker acknowledges.
Subscribe ==
  /\ pc = "idle" /\ tcp /\ sends < MaxSends
  /\ sends' = sends + 1
  /\ Ask("subscribe") /\ outAge' = 0
  /\ UNCHANGED <<state, tcp, readVars, inAge, loopAge, ping, alive, session, net, rx,
                 connects, torn, misread>>

-----------------------------------------------------------------------------
(* The broker, the network, the clock                                      *)

Send(kind, size) == net' = net \o Pieces(kind, size)

BrokerAnswers ==
  /\ alive /\ asks # <<>>
  /\ asks' = Tail(asks)
  /\ CASE Head(asks) = "connect" ->
            \/ Send("connack", 2) /\ session' = TRUE
            \/ Send("refused", 2) /\ UNCHANGED session
       [] Head(asks) = "ping" -> Send("pingresp", 1) /\ UNCHANGED session
       [] Head(asks) = "subscribe" -> Send("suback", 2) /\ UNCHANGED session
  /\ UNCHANGED <<state, tcp, readVars, inAge, outAge, loopAge, ping, alive, rx, bounds,
                 torn, misread>>

BrokerSends ==
  /\ alive /\ session /\ sends < MaxSends
  /\ sends' = sends + 1
  /\ \/ Send("pingreq", 1)
     \/ \E kind \in {"publish0", "publish1"}, size \in 1..MaxSize : Send(kind, size)
  /\ UNCHANGED <<state, tcp, readVars, inAge, outAge, loopAge, ping, alive, session,
                 asks, rx, connects, torn, misread>>

\* The broker is gone, and nothing tells the client.
BrokerDies ==
  /\ alive /\ alive' = FALSE
  /\ UNCHANGED <<state, tcp, readVars, inAge, outAge, loopAge, ping, wire, bounds, torn,
                 misread>>

Arrive ==
  /\ net # <<>>
  /\ net' = Tail(net) /\ rx' = Append(rx, Head(net))
  /\ UNCHANGED <<state, tcp, readVars, inAge, outAge, loopAge, ping, alive, session,
                 asks, bounds, torn, misread>>

\* An age that nobody reads stays.
Tick ==
  /\ inAge' = IF tcp THEN Older(inAge, KeepAlive) ELSE inAge
  /\ outAge' = IF tcp THEN Older(outAge, KeepAlive) ELSE outAge
  /\ loopAge' = IF why = "loop" /\ pc = "read" THEN Older(loopAge, KeepAlive) ELSE 0
  /\ byteAge' = IF pc = "read" /\ ~Complete THEN Older(byteAge, SocketTimeout) ELSE 0
  /\ UNCHANGED <<state, tcp, pc, why, got, packet, ping, alive, wire, bounds, torn,
                 misread>>

Program == Await \/ ReadByte \/ PacketRead \/ ReadTimesOut \/ Loop
Others == Connect \/ Disconnect \/ ClientStops \/ Publish \/ Subscribe
          \/ BrokerAnswers \/ BrokerSends \/ BrokerDies \/ Arrive

\* `waiting' counts while something is unanswered or unread.
Quiet == asks' = <<>> /\ net' = <<>> /\ rx' = <<>>

Watch == waiting' = IF Quiet THEN 0 ELSE waiting
Step == Program /\ Watch
Time == Tick /\ waiting' = IF Quiet THEN 0 ELSE Older(waiting, KeepAlive)

Next == Step \/ (Others /\ Watch) \/ Time

\* loop() is called again and again, and its waits have timeouts; the clock runs.
\* Nothing is asked of the broker, the network or the rest of the program.
Spec == Init /\ [][Next]_vars /\ WF_vars(Step) /\ WF_vars(Time)

-----------------------------------------------------------------------------
(* Properties                                                              *)

\* Headers are taken for headers and bodies for bodies, packets that are too long for
\* the buffer included, unless readByte gave up inside a packet or the broker sent one
\* of 2^16 bytes or more, whose length readPacket cuts to 16 bits (readPacket).
NothingMisread == misread => torn

\* loop() gives a connection up only after a whole keepalive interval in which there was
\* always a question unanswered or a packet unread: a broker that answers, to a program
\* that reads, is never dropped, whatever earlier connections left behind, as long as
\* the packets of this one were told apart.
LivePeerIsKept ==
  [][state = "connected" /\ state' = "timeout" => waiting > KeepAlive \/ torn]_vars

\* A connection to a broker that fell silent ends, however much the meter publishes on it.
DeadPeerIsLeft == (state = "connected" /\ ~alive) ~> state # "connected"
=============================================================================
