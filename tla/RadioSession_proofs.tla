------------------------ MODULE RadioSession_proofs -------------------------
(***************************************************************************)
(* Proofs about the use of the radio, for any number of tries, of commands *)
(* and of uses, and whatever the modem and the network do: the driver's    *)
(* flags tell the truth, and no session rests on the acknowledgement of    *)
(* another connection.                                                     *)
(***************************************************************************)
EXTENDS RadioSession, SequenceTheorems, TLAPS

\* What waits in the buffer and in the network belongs to the last connection, and the
\* buffer is empty while a socket opens: TCPconnect threw away what an earlier attempt
\* left, and the modem says nothing before the socket is open.
NowTokens == [kind : Kinds, conn : {conn}]

WireInv ==
  /\ conn \in Nat
  /\ mode = "data" => tcp = "open"
  /\ tcp = "dialing" => rx = <<>>
  /\ rx \in Seq(NowTokens) /\ net \in Seq(NowTokens)

\* Places without the flag, and places without a context.
FlagDownAt == {"evalIdle", "idle", "evalAttempt", "tcpStart", "evalUp", "dial", "dialing",
               "evalWait", "again", "stop", "shut"}
NoContextAt == {"evalIdle", "idle", "evalAttempt", "tcpStart", "evalWait", "again"}

FlagInv ==
  /\ registered => gprs
  /\ tcpFlag => registered /\ (tcp = "closed" \/ mode = "data")
  /\ pc \in FlagDownAt => ~tcpFlag
  /\ pc \in NoContextAt => ~registered
  /\ pc = "dialing" => registered /\ (tcp \in {"closed", "dialing"} \/ mode = "data")

\* The places of a session, which only a CONNACK of this connection leads to.
SessionAt == {"evalPublish", "stampData", "telemetry", "stampHb", "heartbeat",
              "evalListen", "loop"}

SessionInv ==
  /\ pc \in SessionAt <=> state \in {"Publish", "Listen"}
  /\ pc \in SessionAt \cup {"subscribe"} => tcpFlag /\ acked = conn
  /\ pc = "connack" => tcpFlag
  /\ asking => Queries

RadioInv == WireInv /\ FlagInv /\ SessionInv

-----------------------------------------------------------------------------
\* Where evaluateSignature runs, and what comes after it.
LEMMA TheEvals ==
  /\ Evals = {"evalIdle", "evalAttempt", "evalUp", "evalWait", "evalPublish",
              "evalListen", "evalDisconnect"}
  /\ NextPc["evalIdle"] = "idle" /\ NextPc["evalAttempt"] = "tcpStart"
  /\ NextPc["evalUp"] = "dial" /\ NextPc["evalWait"] = "again"
  /\ NextPc["evalPublish"] = "stampData" /\ NextPc["evalListen"] = "loop"
  /\ NextPc["evalDisconnect"] = "bye"
  BY DEF Evals, NextPc

\* No tokens, a token less, and a token more.
LEMMA NowEmpty == <<>> \in Seq(NowTokens) /\ <<>> \in Seq(NowTokens')
  OBVIOUS

LEMMA NowTail == \A q \in Seq(NowTokens) : q # <<>> =>
                   Tail(q) \in Seq(NowTokens) /\ Head(q) \in NowTokens
  BY HeadTailProperties

LEMMA NowAppend == \A q \in Seq(NowTokens), k \in Kinds :
                     Append(q, Token(k)) \in Seq(NowTokens)
<1>1. \A k \in Kinds : Token(k) \in NowTokens
  BY DEF Token, NowTokens
<1>. QED
  BY <1>1, AppendProperties

\* The place after the question for the clock, or without it.
AfterClock ==
  IF pc \in Stamps THEN IF pc = "stampData" THEN "telemetry" ELSE "heartbeat"
                   ELSE NextPc[pc]

\* Going on there keeps the invariant, whether the input was thrown away or not.
LEMMA GoingOn ==
  ASSUME RadioInv, pc \in Stamps \cup Evals, pc' = AfterClock,
         UNCHANGED <<state, registered, tcpFlag, modemVars, net, acked>>,
         rx' = rx \/ rx' = <<>>, ~asking'
  PROVE  RadioInv'
<1>1. WireInv'
  BY NowEmpty DEF RadioInv, WireInv, NowTokens, modemVars
<1>2. FlagInv'
  BY TheEvals DEF RadioInv, FlagInv, FlagDownAt, NoContextAt, AfterClock, Stamps, modemVars
<1>3. SessionInv'
  BY TheEvals DEF RadioInv, SessionInv, SessionAt, AfterClock, Stamps, modemVars
<1>. QED
  BY <1>1, <1>2, <1>3 DEF RadioInv

\* After a question the input is gone.
LEMMA InputDropped == DropInput => rx' = <<>>
  BY DEF DropInput

-----------------------------------------------------------------------------
\* When the meter starts.
LEMMA InitRadioInv == Init => RadioInv
  BY DEF Init, RadioInv, WireInv, FlagInv, SessionInv, NowTokens, SessionAt

\* The clock query.
LEMMA ClockKeeps ==
  RadioInv /\ (NoSignature \/ QueryClock \/ QueryAsData \/ QueryTimesOut) => RadioInv'
<1> SUFFICES ASSUME RadioInv PROVE
      NoSignature \/ QueryClock \/ QueryAsData \/ QueryTimesOut => RadioInv'
  OBVIOUS
<1>0. \A b : Use(b) /\ pc \in Stamps \cup Evals => pc' = AfterClock
  BY DEF Use, AfterClock
<1>1. ASSUME NoSignature PROVE RadioInv'
  <2>1. pc \notin Stamps /\ ~asking
    BY <1>1, TheEvals DEF NoSignature, RadioInv, SessionInv, Queries, Stamps
  <2>. QED
    BY <1>1, <2>1, GoingOn DEF NoSignature, AfterClock, driverVars, fsmVars
<1>2. ASSUME QueryClock PROVE RadioInv'
  <2>1. pc \in Stamps \cup Evals /\ pc' = AfterClock
    BY <1>0, <1>2 DEF QueryClock, Queries
  <2>. QED
    BY <1>2, <2>1, GoingOn, InputDropped DEF QueryClock, fsmVars
<1>3. ASSUME QueryAsData PROVE RadioInv'
  <2>1. WireInv'
    BY <1>3, InputDropped, NowEmpty DEF QueryAsData, RadioInv, WireInv, NowTokens, modemVars
  <2>2. FlagInv'
    BY <1>3 DEF QueryAsData, RadioInv, FlagInv, modemVars
  <2>3. SessionInv'
    BY <1>3 DEF QueryAsData, RadioInv, SessionInv, Queries, fsmVars, sigVars, modemVars
  <2>. QED
    BY <2>1, <2>2, <2>3 DEF RadioInv
<1>4. ASSUME QueryTimesOut PROVE RadioInv'
  <2>1. pc \in Stamps \cup Evals /\ pc' = AfterClock
    BY <1>0, <1>4 DEF QueryTimesOut, RadioInv, SessionInv, Queries
  <2>. QED
    BY <1>4, <2>1, GoingOn, InputDropped DEF QueryTimesOut, fsmVars
<1>. QED
  BY <1>1, <1>2, <1>3, <1>4

\* connect(): one action after the other.
LEMMA ConnectKeeps ==
  ASSUME RadioInv,
         WakeUp \/ TcpStarts \/ NoAddress \/ TcpStartFails \/ Dial \/ DialFails
         \/ Connected \/ NotConnected \/ Connack \/ NoConnack \/ Subscribe
         \/ TryAgain \/ GiveUp
  PROVE  RadioInv'
<1>0. WireInv /\ FlagInv /\ SessionInv
  BY DEF RadioInv
<1> SUFFICES WireInv' /\ FlagInv' /\ SessionInv'
  BY DEF RadioInv
<1> USE DEF FlagInv, FlagDownAt, NoContextAt, SessionInv, SessionAt
<1>1. CASE WakeUp \/ TryAgain \/ GiveUp
  <2>1. UNCHANGED <<registered, tcpFlag, asking, rx, modemVars, net, acked>>
        /\ pc' \in {"evalAttempt", "evalIdle"} /\ pc \in {"idle", "again"}
    BY <1>1 DEF WakeUp, TryAgain, GiveUp, driverVars
  <2>2. WireInv' /\ FlagInv'
    BY <1>0, <2>1 DEF WireInv, NowTokens, modemVars
  <2>3. ~asking
    BY <1>0, <2>1, TheEvals DEF Queries, Stamps
  <2>4. state' \notin {"Publish", "Listen"}
    BY <1>0, <1>1, <2>1 DEF WakeUp, TryAgain, GiveUp, fsmVars
  <2>. QED
    BY <2>1, <2>2, <2>3, <2>4
<1>2. CASE TcpStarts
  <2>1. WireInv'
    BY <1>0, <1>2, InputDropped, NowEmpty DEF TcpStarts, WireInv, NowTokens
  <2>2. ~asking /\ ~asking'
    BY <1>0, <1>2, TheEvals DEF TcpStarts, Queries, Stamps
  <2>. QED
    BY <1>0, <1>2, <2>1, <2>2 DEF TcpStarts, fsmVars
<1>3. CASE NoAddress \/ TcpStartFails
  <2>1. WireInv'
    BY <1>0, <1>3, InputDropped, NowEmpty DEF NoAddress, TcpStartFails, WireInv, NowTokens
  <2>2. ~asking /\ ~asking'
    BY <1>0, <1>3, TheEvals DEF NoAddress, TcpStartFails, Queries, Stamps, driverVars
  <2>. QED
    BY <1>0, <1>3, <2>1, <2>2 DEF NoAddress, TcpStartFails, fsmVars, driverVars
<1>4. CASE Dial
  <2>1. WireInv'
    BY <1>0, <1>4, InputDropped, NowEmpty DEF Dial, CanStart, WireInv, NowTokens
  <2>2. ~asking /\ ~asking'
    BY <1>0, <1>4, TheEvals DEF Dial, Queries, Stamps, driverVars
  <2>. QED
    BY <1>0, <1>4, <2>1, <2>2 DEF Dial, fsmVars, driverVars
<1>5. CASE DialFails \/ NotConnected
  <2>1. WireInv'
    BY <1>0, <1>5, InputDropped, NowEmpty
    DEF DialFails, NotConnected, WireInv, NowTokens, modemVars
  <2>2. ~asking /\ ~asking'
    BY <1>0, <1>5, TheEvals DEF DialFails, NotConnected, Queries, Stamps, driverVars
  <2>. QED
    BY <1>0, <1>5, <2>1, <2>2 DEF DialFails, NotConnected, fsmVars, driverVars, modemVars
<1>6. CASE Connected
  <2>1. rx # <<>> /\ rx' = Tail(rx) /\ UNCHANGED modemVars
    BY <1>6 DEF Connected
  <2>2. tcp # "dialing"
    BY <1>0, <2>1 DEF WireInv
  <2>3. net' = net \/ net' = Append(net, Token("connack")) \/ net' = Append(net, Token("refused"))
    BY <1>6 DEF Connected
  <2>5. net' \in Seq(NowTokens) /\ rx' \in Seq(NowTokens)
    BY <1>0, <2>1, <2>3, NowAppend, NowTail DEF WireInv, Kinds
  <2>6. WireInv'
    BY <1>0, <2>1, <2>2, <2>5 DEF WireInv, NowTokens, modemVars
  <2>7. tcp = "closed" \/ mode = "data"
    BY <1>0, <1>6, <2>2 DEF Connected
  <2>8. FlagInv'
    BY <1>0, <1>6, <2>1, <2>7 DEF Connected, modemVars
  <2>9. SessionInv'
    BY <1>0, <1>6, TheEvals DEF Connected, Queries, Stamps, fsmVars
  <2>. QED
    BY <2>6, <2>8, <2>9
<1>7. CASE Connack
  <2>1. rx # <<>> /\ rx' = Tail(rx) /\ UNCHANGED <<modemVars, net, driverVars, state>>
    BY <1>7 DEF Connack, fsmVars
  <2>2. rx' \in Seq(NowTokens) /\ Head(rx) \in NowTokens
    BY <1>0, <2>1 DEF WireInv
  <2>3. WireInv' /\ Head(rx).conn = conn
    BY <1>0, <2>1, <2>2 DEF WireInv, NowTokens, modemVars
  <2>. QED
    BY <1>0, <1>7, <2>1, <2>3, TheEvals
    DEF Connack, Queries, Stamps, driverVars, modemVars
<1>8. CASE NoConnack
  <2>1. (rx' = rx \/ (rx # <<>> /\ rx' = Tail(rx)))
        /\ UNCHANGED <<modemVars, net, driverVars, state>> /\ pc' = "mqttStop"
    BY <1>8 DEF NoConnack, fsmVars
  <2>2. rx' \in Seq(NowTokens)
    BY <1>0, <2>1, NowTail DEF WireInv
  <2>3. WireInv'
    BY <1>0, <2>1, <2>2 DEF WireInv, NowTokens, modemVars
  <2>. QED
    BY <1>0, <1>8, <2>1, <2>3, TheEvals DEF NoConnack, Queries, Stamps, driverVars, modemVars
<1>9. CASE Subscribe
  <2>1. UNCHANGED <<modemVars, rx, driverVars, acked>> /\ pc = "subscribe"
        /\ pc' = "evalPublish" /\ state' = "Publish"
    BY <1>9 DEF Subscribe
  <2>2. net' \in Seq(NowTokens)
    <3> DEFINE acks == <<Token("suback"), Token("suback")>>
               keeps == IF retained THEN <<Token("fp")>> ELSE <<>>
    <3>0. Token("suback") \in NowTokens /\ Token("fp") \in NowTokens
      BY DEF Token, NowTokens, Kinds
    <3>1. acks \in Seq(NowTokens) /\ keeps \in Seq(NowTokens)
      BY <3>0
    <3>2. net' = net \/ net' = (net \o acks) \o keeps
      BY <1>9 DEF Subscribe, SubscribeBoth
    <3>3. net \in Seq(NowTokens)
      BY <1>0 DEF WireInv
    <3> HIDE DEF acks, keeps
    <3>4. net \o acks \in Seq(NowTokens)
      BY <3>1, <3>3, ConcatProperties
    <3>5. (net \o acks) \o keeps \in Seq(NowTokens)
      BY <3>1, <3>4, ConcatProperties
    <3>. QED
      BY <3>2, <3>3, <3>5
  <2>3. WireInv'
    BY <1>0, <2>1, <2>2 DEF WireInv, NowTokens, modemVars
  <2>. QED
    BY <1>0, <2>1, <2>3, TheEvals DEF Queries, Stamps, driverVars, modemVars
<1>. QED
  BY <1>1, <1>2, <1>3, <1>4, <1>5, <1>6, <1>7, <1>8, <1>9

\* Publish, Listen and Disconnect.
LEMMA UseKeeps ==
  ASSUME RadioInv, Telemetry \/ Heartbeat \/ LoopOn \/ LoopOver \/ Bye \/ Stop \/ Shut
  PROVE  RadioInv'
<1>0. WireInv /\ FlagInv /\ SessionInv
  BY DEF RadioInv
<1> SUFFICES WireInv' /\ FlagInv' /\ SessionInv'
  BY DEF RadioInv
<1> USE DEF FlagInv, FlagDownAt, NoContextAt, SessionInv, SessionAt
<1>a. ~asking
  BY <1>0, TheEvals
  DEF Telemetry, Heartbeat, LoopOn, LoopOver, Bye, Stop, Shut, Queries, Stamps
<1>1. CASE Telemetry \/ Heartbeat
  <2>1. UNCHANGED <<driverVars, rx, modemVars, net, acked>>
    BY <1>1 DEF Telemetry, Heartbeat
  <2>2. WireInv'
    BY <1>0, <2>1 DEF WireInv, NowTokens, modemVars
  <2>. QED
    BY <1>0, <1>1, <1>a, <2>1, <2>2 DEF Telemetry, Heartbeat, driverVars, modemVars, fsmVars
<1>2. CASE LoopOn \/ LoopOver
  <2>1. UNCHANGED <<driverVars, modemVars, net, acked>> /\ Read
    BY <1>2 DEF LoopOn, LoopOver
  <2>2. rx' = rx \/ (rx # <<>> /\ rx' = Tail(rx))
    BY <2>1 DEF Read
  <2>3. rx' \in Seq(NowTokens) /\ (rx = <<>> => rx' = <<>>)
    BY <1>0, <2>2, NowTail DEF WireInv
  <2>4. WireInv'
    BY <1>0, <2>1, <2>3 DEF WireInv, NowTokens, modemVars
  <2>. QED
    BY <1>0, <1>2, <1>a, <2>1, <2>4 DEF LoopOn, LoopOver, driverVars, modemVars
<1>3. CASE Bye
  <2>1. WireInv'
    BY <1>0, <1>3 DEF Bye, WireInv, NowTokens, modemVars
  <2>. QED
    BY <1>0, <1>3, <1>a, <2>1 DEF Bye, driverVars, modemVars, fsmVars
<1>4. CASE Stop
  <2>1. rx' = <<>> /\ (net' = <<>> \/ net' = net) /\ conn' = conn
        /\ UNCHANGED <<registered, asking, gprs, state, acked>> /\ tcpFlag' = FALSE
        /\ pc \in {"mqttStop", "stop"} /\ pc' \in {"stop", "shut"}
    BY <1>4, InputDropped DEF Stop, FlagDown, fsmVars
  <2>2. mode' = "data" => tcp' = "open"
    BY <1>0, <1>4 DEF Stop, WireInv
  <2>3. WireInv'
    BY <1>0, <2>1, <2>2, NowEmpty DEF WireInv, NowTokens
  <2>. QED
    BY <1>0, <1>a, <2>1, <2>3
<1>5. CASE Shut
  <2>1. rx' = <<>> /\ (net' = <<>> \/ net' = net)
        /\ UNCHANGED <<conn, mode, asking, acked>> /\ registered' = FALSE /\ tcpFlag' = FALSE
        /\ pc = "shut" /\ pc' \in {"evalIdle", "evalWait"} /\ state' \in {state, "Idle"}
    BY <1>5, InputDropped DEF Shut
  <2>2. mode' = "data" => tcp' = "open"
    BY <1>0, <1>5 DEF Shut, WireInv
  <2>3. WireInv'
    BY <1>0, <2>1, <2>2, NowEmpty DEF WireInv, NowTokens
  <2>. QED
    BY <1>0, <1>a, <2>1, <2>3
<1>. QED
  BY <1>1, <1>2, <1>3, <1>4, <1>5

\* The modem, the network and the broker.
LEMMA WorldKeeps ==
  ASSUME RadioInv, World
  PROVE  RadioInv'
<1>0. WireInv /\ FlagInv /\ SessionInv
  BY DEF RadioInv
<1>1. UNCHANGED <<pc, state, driverVars, sigVars, gprs, acked>>
  BY DEF World, SocketOpens, SocketFails, PeerCloses, Deliver, SendCommand, fsmVars, modemVars
<1>2. CASE SocketOpens
  <2>1. rx = <<>> /\ net' = <<>> /\ conn' \in Nat /\ mode' = "data" /\ tcp' = "open"
        /\ tcp = "dialing"
    BY <1>0, <1>2 DEF SocketOpens, WireInv
  <2>2. rx' = <<[kind |-> "CONNECT", conn |-> conn']>>
    BY <1>2, <2>1 DEF SocketOpens
  <2>3. WireInv'
    BY <2>1, <2>2 DEF WireInv, NowTokens, Kinds
  <2>4. mode # "data" /\ ~tcpFlag
    BY <1>0, <2>1 DEF WireInv, FlagInv
  <2>5. FlagInv'
    BY <1>0, <1>1, <2>1, <2>4 DEF FlagInv, driverVars
  <2>6. SessionInv'
    BY <1>0, <1>1, <2>4 DEF SessionInv, Queries, driverVars, sigVars
  <2>. QED
    BY <2>3, <2>5, <2>6 DEF RadioInv
<1>3. CASE SocketFails \/ PeerCloses \/ Deliver \/ SendCommand
  <2>1. conn' = conn /\ (tcp' = tcp \/ tcp' = "closed") /\ (tcp' = "dialing" => rx' = rx)
        /\ (mode' = mode \/ (tcp' = "closed" /\ mode' = "command"))
    BY <1>0, <1>3 DEF SocketFails, PeerCloses, Deliver, SendCommand, modemVars, WireInv
  <2>2. rx' \in Seq(NowTokens)
    <3>1. CASE SocketFails \/ PeerCloses
      BY <1>0, <3>1, NowAppend DEF SocketFails, PeerCloses, WireInv, Kinds
    <3>2. CASE Deliver
      <4>1. Head(net) \in NowTokens
        BY <1>0, <3>2, NowTail DEF Deliver, WireInv
      <4>. QED
        BY <1>0, <3>2, <4>1, AppendProperties DEF Deliver, WireInv
    <3>. QED
      BY <1>0, <1>3, <3>1, <3>2 DEF SendCommand, WireInv
  <2>3. net' \in Seq(NowTokens)
    BY <1>0, <1>3, NowAppend, NowTail, NowEmpty
    DEF SocketFails, PeerCloses, Deliver, SendCommand, WireInv, Kinds
  <2>4. WireInv'
    <3>1. mode' = "data" => tcp' = "open"
      BY <1>0, <1>3 DEF SocketFails, PeerCloses, Deliver, SendCommand, modemVars, WireInv
    <3>. QED
      BY <1>0, <2>1, <2>2, <2>3, <3>1 DEF WireInv, NowTokens
  <2>5. FlagInv'
    BY <1>0, <1>1, <2>1 DEF FlagInv, driverVars
  <2>6. SessionInv'
    BY <1>0, <1>1, <2>1 DEF SessionInv, Queries, driverVars, sigVars
  <2>. QED
    BY <2>4, <2>5, <2>6 DEF RadioInv
<1>. QED
  BY <1>2, <1>3 DEF World

LEMMA RadioInvHolds == Spec => []RadioInv
<1>1. RadioInv /\ [Next]_vars => RadioInv'
  <2>1. RadioInv /\ UNCHANGED vars => RadioInv'
    <3>. SUFFICES ASSUME RadioInv, UNCHANGED vars PROVE WireInv' /\ FlagInv' /\ SessionInv'
      BY DEF RadioInv
    <3>1. UNCHANGED <<pc, state, registered, tcpFlag, asking, sigValid, rx, mode, tcp, gprs,
                      conn, net, acked>>
      BY DEF vars, fsmVars, driverVars, sigVars, modemVars
    <3>. QED
      BY <3>1 DEF RadioInv, WireInv, NowTokens, FlagInv, SessionInv, Queries
  <2>2. RadioInv /\ Main => RadioInv'
    BY ClockKeeps, ConnectKeeps, UseKeeps DEF Main
  <2>. QED
    BY <2>1, <2>2, WorldKeeps DEF Next
<1>. QED
  BY <1>1, InitRadioInv, PTL DEF Spec

\* The driver never believes in a context or a connection that the modem does not have,
\* unless the other end closed it, and no attempt starts with an old flag (TCPstart,
\* TCPconnect, stop, TCPstop).
THEOREM FlagsAreHonest == Spec => []FlagIsHonest
<1>1. RadioInv => FlagIsHonest
  BY DEF RadioInv, FlagInv, FlagDownAt, FlagIsHonest
<1>. QED
  BY <1>1, RadioInvHolds, PTL

\* Whatever arrives late, the meter publishes only on a connection that the broker
\* acknowledged (PubSubClient::connect, TCPconnect).
THEOREM SessionsAreAcked == Spec => []AckedThisConnection
<1>1. RadioInv => AckedThisConnection
  BY DEF RadioInv, SessionInv, AckedThisConnection
<1>. QED
  BY <1>1, RadioInvHolds, PTL

-----------------------------------------------------------------------------
(* When nothing fails                                                      *)

\* stop() leaves the modem without a connection, and TCPstop takes the context down.
DownInv ==
  /\ mode \in {"command", "data"}
  /\ pc \in NoContextAt => tcp = "closed" /\ ~gprs
  /\ pc = "shut" => tcp = "closed"
  /\ state = "Idle" => pc \in {"idle", "evalIdle"}

\* A step of the main thread that is not one of those leaves things as they are.
LEMMA DownStays ==
  ASSUME RadioInv, DownInv, ~faults, Main, ~Stop, ~Shut
  PROVE  DownInv'
<1> USE DEF DownInv, NoContextAt
<1>1. CASE NoSignature \/ QueryClock \/ QueryTimesOut
  <2>1. pc \in Stamps \cup Evals /\ UNCHANGED <<mode, tcp, gprs, state>> /\ pc' = AfterClock
    BY <1>1, TheEvals
    DEF NoSignature, QueryClock, QueryTimesOut, Queries, Use, AfterClock, Stamps, RadioInv,
        SessionInv, modemVars, fsmVars
  <2>2. pc' \in NoContextAt => pc \in NoContextAt
    BY <2>1, TheEvals DEF AfterClock, Stamps
  <2>3. pc' # "shut" /\ (pc = "evalIdle" => pc' = "idle") /\ pc # "idle"
    BY <2>1, TheEvals DEF AfterClock, Stamps
  <2>. QED
    BY <2>1, <2>2, <2>3
<1>2. CASE QueryAsData
  BY <1>2 DEF QueryAsData, modemVars, fsmVars
<1>3. CASE WakeUp \/ TryAgain \/ GiveUp
  BY <1>3 DEF WakeUp, TryAgain, GiveUp, modemVars, fsmVars
<1>4. CASE TcpStarts \/ NoAddress \/ TcpStartFails
  <2>1. pc = "tcpStart" /\ tcp = "closed" /\ state' = state /\ UNCHANGED <<mode, tcp>>
    BY <1>4 DEF TcpStarts, NoAddress, TcpStartFails, fsmVars
  <2>2. mode # "data"
    BY <2>1 DEF RadioInv, WireInv
  <2>3. TcpStarts
    BY <1>4, <2>1, <2>2 DEF NoAddress, TcpStartFails, CanStart
  <2>. QED
    BY <2>1, <2>3 DEF TcpStarts
<1>5. CASE Dial \/ DialFails \/ Connected \/ NotConnected
  BY <1>5 DEF Dial, DialFails, Connected, NotConnected, fsmVars, modemVars
<1>6. CASE Connack \/ NoConnack \/ Subscribe
  BY <1>6 DEF Connack, NoConnack, Subscribe, fsmVars, modemVars
<1>7. CASE Telemetry \/ Heartbeat \/ LoopOn \/ LoopOver \/ Bye
  BY <1>7 DEF Telemetry, Heartbeat, LoopOn, LoopOver, Bye, fsmVars, modemVars
<1>. QED
  BY <1>1, <1>2, <1>3, <1>4, <1>5, <1>6, <1>7 DEF Main

\* When nothing fails, no context is up and the modem takes commands between two uses of
\* the radio (GsmMqttClient::disconnect, stop, TCPstop).
THEOREM RadioGoesDown == Spec => []RadioIsDown
<1> DEFINE Calm == ~faults => DownInv
<1>1. Init => Calm
  BY DEF Init, DownInv, NoContextAt
<1>2. RadioInv /\ Calm /\ [Next]_vars => Calm'
  <2>. SUFFICES ASSUME RadioInv, Calm, [Next]_vars, ~faults' PROVE DownInv'
    OBVIOUS
  <2>0. ~faults /\ DownInv
    BY DEF Next, Main, World, vars
  <2>1. CASE Main /\ ~Stop /\ ~Shut
    BY <2>0, <2>1, DownStays
  <2>2. CASE Stop
    <3>1. mode' = "command" /\ tcp' = "closed" /\ pc \in {"mqttStop", "stop"}
          /\ pc' \in {"stop", "shut"} /\ state' = state
      BY <2>0, <2>2 DEF Stop, fsmVars
    <3>. QED
      BY <2>0, <3>1 DEF DownInv, NoContextAt
  <2>3. CASE Shut
    <3>1. pc = "shut" /\ tcp = "closed" /\ mode # "data"
      BY <2>0, <2>3 DEF Shut, DownInv, RadioInv, WireInv
    <3>2. tcp' = "closed" /\ ~gprs' /\ mode' = mode
      BY <2>0, <2>3, <3>1 DEF Shut
    <3>3. \/ state' = "Idle" /\ pc' = "evalIdle"
          \/ state' = state /\ pc' = "evalWait"
      BY <2>3 DEF Shut
    <3>. QED
      BY <2>0, <3>1, <3>2, <3>3 DEF DownInv
  <2>4. CASE World
    <3>1. UNCHANGED <<pc, state, gprs>> /\ (tcp = "closed" => tcp' = "closed")
          /\ mode' \in {mode, "command", "data"}
      BY <2>4 DEF World, SocketOpens, SocketFails, PeerCloses, Deliver, SendCommand,
                  fsmVars, modemVars
    <3>. QED
      BY <2>0, <3>1 DEF DownInv
  <2>5. CASE UNCHANGED vars
    BY <2>0, <2>5 DEF DownInv, vars, fsmVars, modemVars
  <2>. QED
    BY <2>1, <2>2, <2>3, <2>4, <2>5 DEF Next
<1>3. RadioInv /\ Calm => RadioIsDown
  BY DEF DownInv, NoContextAt, RadioIsDown, RadioInv, WireInv
<1>. QED
  BY <1>1, <1>2, <1>3, RadioInvHolds, PTL DEF Spec
=============================================================================
