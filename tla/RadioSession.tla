---------------------------- MODULE RadioSession ----------------------------
(***************************************************************************)
(* One use of the radio after another: GsmMqttClient::connect, the         *)
(* Publish, Listen and Disconnect states, PubSubClient, and the TCP half   *)
(* of the SIM800 driver, against a modem, a network and a broker.          *)
(*                                                                         *)
(* The modem has one serial line.  In command mode it answers AT           *)
(* commands; in (transparent) data mode every byte goes to the broker, and *)
(* what the broker sends comes back.  ATcommand does not look at the mode. *)
(*                                                                         *)
(* A packet, or a line of the modem, is one token.  Time is left out: a    *)
(* timeout may strike whenever the code waits.                             *)
(***************************************************************************)
EXTENDS Naturals, Sequences

CONSTANTS
  RadioRetryMax,   \* RADIO_RETRY_MAX
  ClockSet,        \* the modem's clock is valid
  Leaking,         \* flow and hour are such that classify() says NightLeak
  MaxWakes,        \* bound: uses of the radio
  MaxLoops,        \* bound: radio_.loop() calls in a listen window
  MaxCommands      \* bound: commands that arrive

ASSUME RadioAssumption ==
  /\ {RadioRetryMax, MaxLoops} \subseteq Nat \ {0}
  /\ {ClockSet, Leaking} \subseteq BOOLEAN
  /\ MaxWakes \in Nat /\ MaxCommands \in Nat

VARIABLES
  faults,      \* in this behaviour commands may go unanswered and connections may break
  state,       \* WaterboxFsm::state_
  pc,          \* where the main thread is
  tries,       \* attempt in GsmMqttClient::connect
  loops,       \* radio_.loop() calls in this window, for the bound
  wakes,       \* uses of the radio so far, for the bound
  registered,  \* the driver's STATE_REGISTERED
  tcpFlag,     \* the driver's STATE_TCPCONNECTED
  asking,      \* an AT command was written in data mode and waits for an answer
  sigValid,    \* ConsumptionSignature::valid_
  leakFlag,    \* WaterboxFsm::leakFlag_
  sent,        \* lk of the last telemetry, with the truth of the leak then
  rx,          \* what waits in the serial receive buffer
  mode,        \* of the modem: "command" or "data"
  tcp,         \* the modem's socket: "closed", "dialing", "open"
  gprs,        \* the modem's GPRS context
  conn,        \* the number of the TCP connection
  net,         \* what the broker sent and the network still holds
  junk,        \* this connection carried bytes that are no MQTT packet
  session,     \* the broker's view: "none", "open", "subscribed"
  retained,    \* the broker retains a fingerprint
  commands,    \* commands sent so far, for the bound
  acked,       \* the connection whose CONNACK connect() took for its own
  discarded    \* messages of the broker thrown away unread while publishing or listening

fsmVars    == <<state, tries, loops, wakes>>
driverVars == <<registered, tcpFlag, asking>>
sigVars    == <<sigValid, leakFlag, sent>>
modemVars  == <<mode, tcp, gprs, conn>>
brokerVars == <<junk, session, retained, commands>>
vars == <<faults, pc, fsmVars, driverVars, sigVars, rx, modemVars, net, brokerVars,
          acked, discarded>>

Token(kind) == [kind |-> kind, conn |-> conn]
Kinds == {"CONNECT", "FAIL", "CLOSED", "connack", "refused", "suback", "cmd", "fp"}
Messages == {"cmd", "fp"}

\* service() runs evaluateSignature at these places, and goes on to the next.
NextPc == [evalIdle       |-> "idle",
           evalAttempt    |-> "tcpStart",
           evalUp         |-> "dial",
           evalWait       |-> "again",
           evalPublish    |-> "stampData",
           evalListen     |-> "loop",
           evalDisconnect |-> "bye"]
Evals == DOMAIN NextPc

\* formatTimestamp runs at these places, before the packet is built.
Stamps == {"stampData", "stampHb"}

Init ==
  /\ faults \in BOOLEAN
  /\ state = "Idle" /\ pc = "idle" /\ tries = 0 /\ loops = 0 /\ wakes = 0
  /\ registered = FALSE /\ tcpFlag = FALSE /\ asking = FALSE
  /\ sigValid \in BOOLEAN /\ leakFlag = FALSE
  /\ sent = [lk |-> FALSE, leak |-> FALSE]
  /\ rx = <<>> /\ net = <<>>
  /\ mode = "command" /\ tcp = "closed" /\ gprs = FALSE /\ conn = 0
  /\ junk = FALSE /\ session = "none" /\ retained \in BOOLEAN
  /\ commands = 0 /\ acked = 0 /\ discarded = {}

-----------------------------------------------------------------------------
(* ATcommand                                                               *)

\* Everything in the receive buffer goes: cleanInput, or receive() read it.
DropInput ==
  /\ rx' = <<>>
  /\ discarded' = IF state \in {"Publish", "Listen"}
                  THEN discarded \cup (Messages \cap {rx[i].kind : i \in DOMAIN rx})
                  ELSE discarded

\* The text of an AT command goes to the broker when the modem is in data mode.
TextToBroker == junk' = (junk \/ mode = "data")

\* The broker understands what the meter writes now.
Understood == mode = "data" /\ tcp = "open" /\ ~junk

-----------------------------------------------------------------------------
(* The clock query                                                         *)

\* evaluateSignature gives up without a valid fingerprint.
NoSignature ==
  /\ pc \in Evals /\ ~sigValid
  /\ leakFlag' = FALSE
  /\ pc' = NextPc[pc]
  /\ UNCHANGED <<fsmVars, driverVars, sigValid, sent, rx, modemVars, net, brokerVars,
                 acked, discarded>>

Queries == pc \in Stamps \/ (pc \in Evals /\ sigValid)

\* What the caller of RTCget does with the answer.
Use(answered) ==
  IF pc \in Stamps
  THEN /\ pc' = IF pc = "stampData" THEN "telemetry" ELSE "heartbeat"
       /\ UNCHANGED sigVars
  ELSE /\ leakFlag' = (answered /\ Leaking)
       /\ pc' = NextPc[pc]
       /\ UNCHANGED <<sigValid, sent>>

\* In command mode the modem answers, or it does not.
QueryClock ==
  /\ Queries /\ mode = "command" /\ ~asking
  /\ DropInput
  /\ \/ Use(ClockSet)
     \/ faults /\ Use(FALSE)
  /\ UNCHANGED <<fsmVars, registered, tcpFlag, asking, modemVars, net, brokerVars, acked>>

\* In data mode the question goes to the broker ..
QueryAsData ==
  /\ Queries /\ mode = "data" /\ ~asking
  /\ DropInput
  /\ TextToBroker
  /\ asking' = TRUE
  /\ UNCHANGED <<pc, fsmVars, registered, tcpFlag, sigVars, modemVars, net,
                 session, retained, commands, acked>>

\* .. and receive() swallows what comes in until it gives up.
QueryTimesOut ==
  /\ asking
  /\ asking' = FALSE
  /\ DropInput
  /\ Use(FALSE)
  /\ UNCHANGED <<fsmVars, registered, tcpFlag, modemVars, net, brokerVars, acked>>

-----------------------------------------------------------------------------
(* GsmMqttClient::connect                                                  *)

\* Idle is over; the Connect state calls connect().
WakeUp ==
  /\ pc = "idle" /\ wakes < MaxWakes
  /\ wakes' = wakes + 1
  /\ state' = "Connect" /\ tries' = 1 /\ pc' = "evalAttempt"
  /\ UNCHANGED <<loops, driverVars, sigVars, rx, modemVars, net, brokerVars, acked, discarded>>

\* TCPstart: attach, configure transparent mode, start the task, bring the
\* context up, read the address.
CanStart == mode = "command" /\ tcp = "closed"

TcpStarts ==
  /\ pc = "tcpStart" /\ CanStart
  /\ gprs' = TRUE /\ registered' = TRUE
  /\ DropInput
  /\ pc' = "evalUp"
  /\ UNCHANGED <<fsmVars, tcpFlag, asking, sigVars, mode, tcp, conn, net,
                 brokerVars, acked>>

\* The context is up, but TCPGetMyIP reads two lines and finds no address in the second.
NoAddress ==
  /\ pc = "tcpStart" /\ CanStart /\ faults
  /\ gprs' = TRUE
  /\ DropInput
  /\ pc' = "shut"
  /\ UNCHANGED <<fsmVars, driverVars, sigVars, mode, tcp, conn, net, brokerVars, acked>>

\* Some command of TCPstart before that fails, perhaps after the context came up.  The
\* code goes straight to TCPstop: it sends no escape here.
TcpStartFails ==
  /\ pc = "tcpStart" /\ (faults \/ ~CanStart)
  /\ TextToBroker
  /\ gprs' \in {gprs, mode = "command"}
  /\ DropInput
  /\ pc' = "shut"
  /\ UNCHANGED <<fsmVars, driverVars, sigVars, mode, tcp, conn, net,
                 session, retained, commands, acked>>

\* PubSubClient::connect: CIPSTART is accepted, and TCPconnect waits for "CONNECT" ..
\* (Its way out for a client that is connected already is never taken: FlagIsHonest.)
Dial ==
  /\ pc = "dial" /\ ~tcpFlag /\ registered /\ CanStart
  /\ DropInput
  /\ tcp' = "dialing" /\ pc' = "dialing"
  /\ UNCHANGED <<fsmVars, driverVars, sigVars, mode, gprs, conn, net, brokerVars, acked>>

\* .. or it fails.
DialFails ==
  /\ pc = "dial" /\ ~tcpFlag /\ (faults \/ ~registered \/ ~CanStart)
  /\ DropInput
  /\ TextToBroker
  /\ pc' = "stop"
  /\ UNCHANGED <<fsmVars, driverVars, sigVars, modemVars, net,
                 session, retained, commands, acked>>

\* "CONNECT": the flag goes up, and the CONNECT packet goes out.  The broker
\* accepts or refuses the credentials.
Connected ==
  /\ pc = "dialing" /\ rx # <<>> /\ Head(rx).kind = "CONNECT"
  /\ rx' = Tail(rx)
  /\ tcpFlag' = TRUE
  /\ pc' = "connack"
  /\ IF Understood
     THEN \/ net' = Append(net, Token("connack")) /\ session' = "open"
          \/ faults /\ net' = Append(net, Token("refused")) /\ UNCHANGED session
     ELSE UNCHANGED <<net, session>>
  /\ UNCHANGED <<fsmVars, registered, asking, sigVars, modemVars, junk, retained,
                 commands, acked, discarded>>

\* The modem says anything else, or nothing for 29 seconds.
NotConnected ==
  /\ pc = "dialing"
  /\ IF rx = <<>> THEN faults ELSE Head(rx).kind # "CONNECT"
  /\ DropInput
  /\ pc' = "stop"
  /\ UNCHANGED <<fsmVars, driverVars, sigVars, modemVars, net, brokerVars, acked>>

Connack ==
  /\ pc = "connack" /\ rx # <<>> /\ Head(rx).kind = "connack"
  /\ rx' = Tail(rx)
  /\ acked' = Head(rx).conn
  /\ pc' = "subscribe"
  /\ UNCHANGED <<fsmVars, driverVars, sigVars, modemVars, net, brokerVars, discarded>>

\* Mutant: connect() goes on without a CONNACK.
NoConnackNeeded ==
  /\ pc = "connack"
  /\ IF rx = <<>> THEN faults ELSE Head(rx).kind # "connack"
  /\ pc' = "subscribe"
  /\ UNCHANGED <<fsmVars, driverVars, sigVars, rx, modemVars, net, brokerVars, acked, discarded>>

\* A refusal, another packet first, or nothing for MQTT_SOCKET_TIMEOUT.
NoConnack ==
  /\ pc = "connack"
  /\ IF rx = <<>> THEN faults ELSE Head(rx).kind # "connack"
  /\ rx' = IF rx = <<>> THEN rx ELSE Tail(rx)
  /\ pc' = "mqttStop"
  /\ UNCHANGED <<fsmVars, driverVars, sigVars, modemVars, net, brokerVars, acked, discarded>>

\* PubSubClient::subscribe writes its packet whoever listens; the broker answers
\* the one for commands and the one for fingerprints, and adds what it retains.
SubscribeBoth ==
  IF Understood /\ session = "open"
  THEN /\ session' = "subscribed"
       /\ net' = net \o <<Token("suback"), Token("suback")>>
                     \o (IF retained THEN <<Token("fp")>> ELSE <<>>)
  ELSE UNCHANGED <<net, session>>

\* Two SUBSCRIBE packets; the results are not looked at.
Subscribe ==
  /\ pc = "subscribe"
  /\ SubscribeBoth
  /\ state' = "Publish" /\ pc' = "evalPublish"
  /\ UNCHANGED <<tries, loops, wakes, driverVars, sigVars, rx, modemVars, junk, retained,
                 commands, acked, discarded>>

\* Mutant: an attempt that is not counted.
SameTry == tries

NextTry == tries + 1

\* After a failed attempt: wait, and try again or give up.
TryAgain ==
  /\ pc = "again" /\ tries < RadioRetryMax
  /\ tries' = NextTry
  /\ pc' = "evalAttempt"
  /\ UNCHANGED <<state, loops, wakes, driverVars, sigVars, rx, modemVars, net, brokerVars,
                 acked, discarded>>

GiveUp ==
  /\ pc = "again" /\ tries = RadioRetryMax
  /\ state' = "Idle" /\ pc' = "evalIdle"
  /\ UNCHANGED <<tries, loops, wakes, driverVars, sigVars, rx, modemVars, net, brokerVars,
                 acked, discarded>>

-----------------------------------------------------------------------------
(* Publish, Listen, Disconnect                                             *)

\* publishInfo needs no clock; publishTelemetry asked for it just before this.
\* A heartbeat may be due.
Telemetry ==
  /\ pc = "telemetry"
  /\ sent' = [lk |-> leakFlag, leak |-> sigValid /\ ClockSet /\ Leaking]
  /\ \/ pc' = "stampHb" /\ UNCHANGED <<state, loops>>
     \/ pc' = "evalListen" /\ state' = "Listen" /\ loops' = 0
  /\ UNCHANGED <<tries, wakes, driverVars, sigValid, leakFlag, rx, modemVars, net,
                 brokerVars, acked, discarded>>

Heartbeat ==
  /\ pc = "heartbeat"
  /\ pc' = "evalListen" /\ state' = "Listen" /\ loops' = 0
  /\ UNCHANGED <<tries, wakes, driverVars, sigVars, rx, modemVars, net, brokerVars,
                 acked, discarded>>

\* onMessage hands a fingerprint to onFingerprint.  (Commands are MeterCore's.)
OnMessage(packet) == sigValid' = (sigValid \/ packet.kind = "fp")

\* PubSubClient::loop reads one packet, if the driver says "connected".
Read ==
  IF tcpFlag /\ rx # <<>>
  THEN rx' = Tail(rx) /\ OnMessage(Head(rx))
  ELSE UNCHANGED <<rx, sigValid>>

\* One tick in Listen, and the window is not over yet ..
LoopOn ==
  /\ pc = "loop" /\ loops < MaxLoops
  /\ Read
  /\ loops' = loops + 1
  /\ pc' = "evalListen"
  /\ UNCHANGED <<state, tries, wakes, driverVars, leakFlag, sent, modemVars, net,
                 brokerVars, acked, discarded>>

\* .. or it is.
LoopOver ==
  /\ pc = "loop" /\ loops > 0
  /\ Read
  /\ state' = "Disconnect" /\ pc' = "evalDisconnect"
  /\ UNCHANGED <<tries, loops, wakes, driverVars, leakFlag, sent, modemVars, net,
                 brokerVars, acked, discarded>>

\* PubSubClient::disconnect writes DISCONNECT before it stops the client.
Goodbye == session' = IF tcpFlag /\ Understood THEN "none" ELSE session

\* Mutant: disconnect() trusts PubSubClient to have closed the modem.
ByeOnly ==
  /\ pc = "bye"
  /\ Goodbye
  /\ pc' = "evalIdle" /\ state' = "Idle" /\ tcpFlag' = FALSE
  /\ UNCHANGED <<tries, loops, wakes, registered, asking, sigVars, rx, modemVars,
                 net, junk, retained, commands, acked, discarded>>

\* GsmMqttClient::disconnect: a DISCONNECT packet if the driver says
\* "connected", and then stop and TCPstop in any case.
Bye ==
  /\ pc = "bye"
  /\ Goodbye
  /\ pc' = IF tcpFlag THEN "mqttStop" ELSE "stop"
  /\ UNCHANGED <<fsmVars, driverVars, sigVars, rx, modemVars, net, junk, retained, commands,
                 acked, discarded>>

\* Mutant: stop() leaves STATE_TCPCONNECTED to TCPstop.
FlagKept == tcpFlag

\* stop() takes STATE_TCPCONNECTED back.
FlagDown == FALSE

\* sim800Client::stop, from PubSubClient or from GsmMqttClient: the flag, the
\* escape sequence, AT and CIPCLOSE.  The escape may not be heard.
Stop ==
  /\ pc \in {"mqttStop", "stop"}
  /\ tcpFlag' = FlagDown
  /\ \/ /\ mode' = "command" /\ UNCHANGED junk
        /\ tcp' \in {"closed"} \cup {t \in {tcp} : faults}
     \/ /\ faults /\ mode = "data" /\ TextToBroker
        /\ UNCHANGED <<mode, tcp>>
  /\ net' = IF tcp' = "closed" THEN <<>> ELSE net
  /\ session' = IF tcp' = "closed" THEN "none" ELSE session
  /\ DropInput
  /\ pc' = IF pc = "mqttStop" THEN "stop" ELSE "shut"
  /\ UNCHANGED <<fsmVars, registered, asking, sigVars, gprs, conn, retained,
                 commands, acked>>

\* TCPstop: both flags, CIPSHUT and the detach; its result is not looked at.
Shut ==
  /\ pc = "shut"
  /\ registered' = FALSE /\ tcpFlag' = FALSE
  /\ \/ mode = "command" /\ tcp' = "closed" /\ gprs' = FALSE
     \/ (faults \/ mode = "data") /\ UNCHANGED <<tcp, gprs>>
  /\ TextToBroker
  /\ net' = IF tcp' = "closed" THEN <<>> ELSE net
  /\ session' = IF tcp' = "closed" THEN "none" ELSE session
  /\ DropInput
  /\ IF state = "Disconnect"
     THEN state' = "Idle" /\ pc' = "evalIdle"
     ELSE pc' = "evalWait" /\ UNCHANGED state
  /\ UNCHANGED <<tries, loops, wakes, asking, sigVars, mode, conn, retained,
                 commands, acked>>

-----------------------------------------------------------------------------
(* The modem, the network and the broker                                   *)

\* The socket opens, also after the code stopped waiting for it.
SocketOpens ==
  /\ tcp = "dialing" /\ mode = "command"
  /\ tcp' = "open" /\ mode' = "data" /\ conn' = conn + 1
  /\ junk' = FALSE /\ session' = "none" /\ net' = <<>>
  /\ rx' = Append(rx, [kind |-> "CONNECT", conn |-> conn'])
  /\ UNCHANGED <<pc, fsmVars, driverVars, sigVars, gprs, retained, commands, acked, discarded>>

SocketFails ==
  /\ faults /\ tcp = "dialing"
  /\ tcp' = "closed"
  /\ rx' = Append(rx, Token("FAIL"))
  /\ UNCHANGED <<pc, fsmVars, driverVars, sigVars, mode, gprs, conn, net, brokerVars,
                 acked, discarded>>

\* The broker or the network closes the connection, and the modem says so.
PeerCloses ==
  /\ tcp = "open" /\ (faults \/ junk \/ (session = "none" /\ state = "Disconnect"))
  /\ tcp' = "closed" /\ mode' = "command"
  /\ rx' = Append(rx, Token("CLOSED"))
  /\ net' = <<>> /\ session' = "none"
  /\ UNCHANGED <<pc, fsmVars, driverVars, sigVars, gprs, conn, junk, retained, commands,
                 acked, discarded>>

Deliver ==
  /\ net # <<>> /\ tcp = "open" /\ mode = "data"
  /\ rx' = Append(rx, Head(net))
  /\ net' = Tail(net)
  /\ UNCHANGED <<pc, fsmVars, driverVars, sigVars, modemVars, brokerVars, acked, discarded>>

\* An operator publishes to cmd.
SendCommand ==
  /\ session = "subscribed" /\ commands < MaxCommands
  /\ commands' = commands + 1
  /\ net' = Append(net, Token("cmd"))
  /\ UNCHANGED <<pc, fsmVars, driverVars, sigVars, rx, modemVars, junk, session, retained,
                 acked, discarded>>

Main ==
  /\ UNCHANGED faults
  /\ \/ NoSignature \/ QueryClock \/ QueryAsData \/ QueryTimesOut
     \/ WakeUp \/ TcpStarts \/ NoAddress \/ TcpStartFails \/ Dial \/ DialFails
     \/ Connected \/ NotConnected \/ Connack \/ NoConnack \/ Subscribe \/ TryAgain \/ GiveUp
     \/ Telemetry \/ Heartbeat \/ LoopOn \/ LoopOver \/ Bye \/ Stop \/ Shut

World ==
  /\ UNCHANGED faults
  /\ SocketOpens \/ SocketFails \/ PeerCloses \/ Deliver \/ SendCommand

Next == Main \/ World

Spec == Init /\ [][Next]_vars

\* The main loop runs on; where it waits for the modem, Main has the timeout.  When
\* nothing fails, the network does its part too.
FairSpec == Spec /\ WF_vars(Main) /\ WF_vars(~faults /\ World)

-----------------------------------------------------------------------------
PCs == Evals \cup Stamps \cup
       {"idle", "tcpStart", "dial", "dialing", "connack", "subscribe", "again",
        "telemetry", "heartbeat", "loop", "bye", "mqttStop", "stop", "shut"}

Tokens == [kind : Kinds, conn : 0..conn]

\* The shape of the state.
TypeOK ==
  /\ state \in {"Idle", "Connect", "Publish", "Listen", "Disconnect"} /\ pc \in PCs
  /\ tries \in 0..RadioRetryMax /\ loops \in 0..MaxLoops /\ wakes \in 0..MaxWakes
  /\ {faults, registered, tcpFlag, asking, sigValid, leakFlag, gprs, junk, retained}
       \subseteq BOOLEAN
  /\ sent \in [lk : BOOLEAN, leak : BOOLEAN]
  /\ rx \in Seq(Tokens) /\ net \in Seq(Tokens)
  /\ mode \in {"command", "data"} /\ tcp \in {"closed", "dialing", "open"}
  /\ session \in {"none", "open", "subscribed"}
  /\ conn \in Nat /\ commands \in 0..MaxCommands /\ acked \in 0..conn
  /\ discarded \subseteq Messages

\* The driver never believes in a context or a connection that the modem does not
\* have, unless the other end closed it behind its back; and an attempt never
\* starts with the flag of an earlier one (TCPstart, TCPconnect, stop, TCPstop).
FlagIsHonest ==
  /\ registered => gprs
  /\ tcpFlag => registered /\ (tcp = "closed" \/ mode = "data")
  /\ pc \in {"tcpStart", "evalUp", "dial", "dialing", "idle"} => ~tcpFlag

\* A session is published on only if this very connection was acknowledged: no
\* late CONNACK of an earlier attempt is taken for it, and no connection is
\* reused (PubSubClient::connect, cleanInput).
AckedThisConnection == state \in {"Publish", "Listen"} => acked = conn

\* When nothing fails, what the broker sends to a meter that publishes or listens
\* is read by loop() and not thrown away (ATcommand, cleanInput).
MessagesAreRead == ~faults => discarded = {}

\* When nothing fails, telemetry sent while water leaks at night carries lk = 1
\* (evaluateSignature, publishTelemetry).
LeakIsReported == ~faults /\ sent.leak => sent.lk

\* When nothing fails, no context is up and the modem takes commands between two
\* uses of the radio (disconnect, stop, TCPstop).
RadioIsDown == state = "Idle" /\ ~faults => ~gprs /\ mode = "command"

\* Each use of the radio ends, whatever the modem, the network and the broker do.
UseEnds == state # "Idle" ~> state = "Idle"
=============================================================================
