---------------------------- MODULE WaterboxFsm -----------------------------
(***************************************************************************)
(* WaterboxFsm::tick, the duty cycle of the radio: wait for the modem,     *)
(* idle, connect with bounded retries, publish, listen, disconnect.        *)
(*                                                                         *)
(* The code compares readings of millis(), a counter that wraps.  Only     *)
(* differences matter, so the model keeps ages: (millis() - last) modulo   *)
(* Wrap.  A radio call blocks, and time passes inside it: "now", read at   *)
(* the start of a tick, is then old, and tickAge says how old.             *)
(***************************************************************************)
EXTENDS Integers

CONSTANTS
  PublishTicks,    \* PUBLISH_INTERVAL_MS in clock ticks
  HeartbeatTicks,  \* HEARTBEAT_INTERVAL_MS
  ListenTicks,     \* CMD_LISTEN_MS
  SimRetryTicks,   \* SIM_RETRY_MS
  RetryDelayTicks, \* RADIO_RETRY_DELAY_MS, and the wait(1000) between two inits
  RadioRetryMax,   \* RADIO_RETRY_MAX
  SimInitTries,    \* SIM_INIT_TRIES
  Wrap,            \* where millis() wraps, in ticks
  MaxStall         \* bound: ticks one blocking call takes

ASSUME FsmAssumption ==
  /\ {PublishTicks, HeartbeatTicks, ListenTicks, SimRetryTicks} \subseteq Nat \ {0}
  /\ {RetryDelayTicks, RadioRetryMax, SimInitTries, MaxStall} \subseteq Nat \ {0}
  /\ Wrap \in Nat
  /\ \A t \in {PublishTicks, HeartbeatTicks, ListenTicks, SimRetryTicks, RetryDelayTicks} :
       t + MaxStall < Wrap
  /\ ListenTicks <= PublishTicks

VARIABLES
  state,         \* WaterboxFsm::state_
  pc,            \* where tick() is, or the radio call it is in
  tries,         \* the loop counter of GsmMqttClient::begin or connect
  tickAge,       \* millis() - now
  publishAge,    \* millis() - lastPublishMs_; it and the next are unused in WaitModem
  heartbeatAge,  \* millis() - lastHeartbeatMs_
  listenAge,     \* millis() - listenStartMs_, used in Listen only
  modemTryAge,   \* millis() - lastModemTryMs_, used in WaitModem only
  waitAge,       \* millis() - start in GsmMqttClient::wait
  stall,         \* ticks since the main thread last took a step, for the bound
  stateAge,      \* ticks since state_ last changed, saturating
  sentAge,       \* ticks since a heartbeat last went out, saturating
  connectAge,    \* ticks since the last Connect began, saturating
  radioEnd       \* how the last use of the radio ended

ages == <<tickAge, publishAge, heartbeatAge, listenAge, modemTryAge, waitAge>>
observers == <<sentAge, connectAge, radioEnd>>
vars == <<state, pc, tries, ages, stall, stateAge, observers>>

States == {"HaltAuth", "WaitModem", "Idle", "Connect", "Publish", "Listen", "Disconnect"}
RadioStates == {"Connect", "Publish", "Listen", "Disconnect"}

\* now - last, when now is tickAge old.
Since(age) == (age - tickAge) % Wrap

\* The assignment last = now.
AtNow == tickAge

\* WaterboxFsm::begin ends in HaltAuth when no credentials are compiled in, else
\* in WaitModem with the first modem init due.
Init ==
  /\ state \in {"HaltAuth", "WaitModem"}
  /\ pc = "tick" /\ tries = 0
  /\ tickAge = 0 /\ publishAge = 0 /\ heartbeatAge = 0 /\ listenAge = 0 /\ waitAge = 0
  /\ modemTryAge = SimRetryTicks
  /\ stall = 0
  /\ stateAge = 0 /\ sentAge = HeartbeatTicks
  /\ connectAge = PublishTicks /\ radioEnd = "none"

\* A step of the main thread ends a stall.
Step == stall' = 0

Enter(s) == state' = s /\ stateAge' = 0

Stay == UNCHANGED <<state, stateAge>>

\* The next tick() of loop().
Return == pc' = "tick"

-----------------------------------------------------------------------------
\* tick() runs service(), which may block in a clock query, and reads "now".
StartTick ==
  /\ pc = "tick" /\ pc' = "act"
  /\ tickAge' = 0
  /\ Step /\ Stay
  /\ UNCHANGED <<tries, publishAge, heartbeatAge, listenAge, modemTryAge, waitAge, observers>>

\* Nothing is due: HaltAuth for ever, WaitModem and Idle until their interval is over.
NothingDue ==
  /\ pc = "act"
  /\ \/ state = "HaltAuth"
     \/ state = "WaitModem" /\ Since(modemTryAge) < SimRetryTicks
     \/ state = "Idle" /\ Since(publishAge) < PublishTicks
  /\ Return /\ Step /\ Stay
  /\ UNCHANGED <<tries, ages, observers>>

\* radio_.begin() is called; the retry interval runs from "now", not from its end.
BeginModem ==
  /\ pc = "act" /\ state = "WaitModem" /\ Since(modemTryAge) >= SimRetryTicks
  /\ pc' = "init" /\ tries' = 0
  /\ modemTryAge' = AtNow
  /\ Step /\ Stay
  /\ UNCHANGED <<tickAge, publishAge, heartbeatAge, listenAge, waitAge, observers>>

\* One modem_.init(): it works, or the code waits a second and counts the try.
InitModem ==
  /\ pc = "init"
  /\ \/ pc' = "identify" /\ UNCHANGED <<tries, waitAge>>
     \/ pc' = "initWait" /\ tries' = tries + 1 /\ waitAge' = 0
  /\ Step /\ Stay
  /\ UNCHANGED <<tickAge, publishAge, heartbeatAge, listenAge, modemTryAge, observers>>

InitWaitOver ==
  /\ pc = "initWait" /\ waitAge >= RetryDelayTicks
  /\ pc' = IF tries < SimInitTries THEN "init" ELSE "tick"
  /\ Step /\ Stay
  /\ UNCHANGED <<tries, ages, observers>>

\* Reading the IMEI fails, and begin() returns false ..
IdentifyFails ==
  /\ pc = "identify"
  /\ Return /\ Step /\ Stay
  /\ UNCHANGED <<tries, ages, observers>>

\* .. or it works: the first publish and the first heartbeat are due at once.
ModemReady ==
  /\ pc = "identify"
  /\ Enter("Idle") /\ Return /\ Step
  /\ publishAge' = (AtNow + PublishTicks) % Wrap
  /\ heartbeatAge' = (AtNow + HeartbeatTicks) % Wrap
  /\ UNCHANGED <<tries, tickAge, listenAge, modemTryAge, waitAge, observers>>

PublishDue ==
  /\ pc = "act" /\ state = "Idle" /\ Since(publishAge) >= PublishTicks
  /\ Enter("Connect") /\ Return /\ Step
  /\ connectAge' = 0
  /\ UNCHANGED <<tries, ages, sentAge, radioEnd>>

CallConnect ==
  /\ pc = "act" /\ state = "Connect"
  /\ pc' = "tcpStart" /\ tries' = 0
  /\ Step /\ Stay
  /\ UNCHANGED <<ages, observers>>

\* Mutant: an attempt that is not counted.
UncountedTry == tries

NextTry == tries + 1

\* A failed attempt tears the radio down and waits.
AttemptFails ==
  /\ pc \in {"tcpStart", "mqttConnect"}
  /\ pc' = "retryWait" /\ waitAge' = 0
  /\ tries' = NextTry
  /\ Step /\ Stay
  /\ UNCHANGED <<tickAge, publishAge, heartbeatAge, listenAge, modemTryAge,
                 observers>>

TcpStarted ==
  /\ pc = "tcpStart" /\ pc' = "mqttConnect"
  /\ Step /\ Stay
  /\ UNCHANGED <<tries, ages, observers>>

MqttConnected ==
  /\ pc = "mqttConnect"
  /\ Enter("Publish") /\ Return /\ Step
  /\ UNCHANGED <<tries, ages, observers>>

\* The delay is over and attempts are left.
RetryWaitOver ==
  /\ pc = "retryWait" /\ waitAge >= RetryDelayTicks /\ tries < RadioRetryMax
  /\ pc' = "tcpStart"
  /\ Step /\ Stay
  /\ UNCHANGED <<tries, ages, observers>>

GivenUpAtNow == AtNow

\* "radio gave up this cycle": the next interval runs from "now", which was read
\* before the first attempt.
GiveUp ==
  /\ pc = "retryWait" /\ waitAge >= RetryDelayTicks /\ tries >= RadioRetryMax
  /\ publishAge' = GivenUpAtNow
  /\ radioEnd' = "gaveUp"
  /\ Enter("Idle") /\ Return /\ Step
  /\ UNCHANGED <<tries, tickAge, heartbeatAge, listenAge, modemTryAge, waitAge,
                 sentAge, connectAge>>

\* publishInfo and publishTelemetry, whatever they return (MeterCore has the
\* save that follows); then the heartbeat, if it is due by "now".
PublishReadings ==
  /\ pc = "act" /\ state = "Publish"
  /\ pc' = "readings"
  /\ Step /\ Stay
  /\ UNCHANGED <<tries, ages, observers>>

HeartbeatSent == AtNow

\* The heartbeat goes out; if publish() reports failure it stays due.
PublishHeartbeat ==
  /\ pc = "readings" /\ Since(heartbeatAge) >= HeartbeatTicks
  /\ pc' = "published"
  /\ \/ heartbeatAge' = HeartbeatSent /\ sentAge' = 0
     \/ UNCHANGED <<heartbeatAge, sentAge>>
  /\ Step /\ Stay
  /\ UNCHANGED <<tries, tickAge, publishAge, listenAge, modemTryAge, waitAge,
                 connectAge, radioEnd>>

\* listenStartMs_ = millis()
ListenFromMillis == 0

StartListening ==
  /\ \/ pc = "published"
     \/ pc = "readings" /\ Since(heartbeatAge) < HeartbeatTicks
  /\ listenAge' = ListenFromMillis
  /\ Enter("Listen") /\ Return /\ Step
  /\ UNCHANGED <<tries, tickAge, publishAge, heartbeatAge, modemTryAge, waitAge,
                 observers>>

\* radio_.loop() may wait for the rest of a packet.
ListenLoop ==
  /\ pc = "act" /\ state = "Listen"
  /\ pc' = "looped"
  /\ Step /\ Stay
  /\ UNCHANGED <<tries, ages, observers>>

KeepListening ==
  /\ pc = "looped" /\ Since(listenAge) < ListenTicks
  /\ Return /\ Step /\ Stay
  /\ UNCHANGED <<tries, ages, observers>>

ListenOver ==
  /\ pc = "looped" /\ Since(listenAge) >= ListenTicks
  /\ Enter("Disconnect") /\ Return /\ Step
  /\ UNCHANGED <<tries, ages, observers>>

CallDisconnect ==
  /\ pc = "act" /\ state = "Disconnect"
  /\ pc' = "disconnect"
  /\ Step /\ Stay
  /\ UNCHANGED <<tries, ages, observers>>

\* Mutant: the interval runs from "now", read before the disconnect.
PublishedAtNow == AtNow

\* lastPublishMs_ = millis()
PublishedAtMillis == 0

Disconnected ==
  /\ pc = "disconnect"
  /\ publishAge' = PublishedAtMillis
  /\ radioEnd' = "session"
  /\ Enter("Idle") /\ Return /\ Step
  /\ UNCHANGED <<tries, tickAge, heartbeatAge, listenAge, modemTryAge, waitAge,
                 sentAge, connectAge>>

-----------------------------------------------------------------------------
Up(age) == (age + 1) % Wrap

Waiting == state \in {"HaltAuth", "WaitModem"}

Saturate(age, limit) == IF age < limit THEN age + 1 ELSE age

\* The clock moves on, most of all inside a call that blocks.
Tick ==
  /\ stall < MaxStall
  /\ stall' = stall + 1
  /\ tickAge' = Up(tickAge)
  /\ publishAge' = IF Waiting THEN 0 ELSE Up(publishAge)
  /\ heartbeatAge' = IF Waiting THEN 0 ELSE Up(heartbeatAge)
  /\ listenAge' = IF state = "Listen" THEN Up(listenAge) ELSE 0
  /\ modemTryAge' = IF Waiting THEN Up(modemTryAge) ELSE 0
  /\ waitAge' = IF pc \in {"initWait", "retryWait"} THEN Up(waitAge) ELSE 0
  /\ stateAge' = Saturate(stateAge, PublishTicks)
  /\ sentAge' = Saturate(sentAge, HeartbeatTicks)
  /\ connectAge' = Saturate(connectAge, PublishTicks)
  /\ UNCHANGED <<state, pc, tries, radioEnd>>

\* wait() yields to service() again and again, so its stalls start afresh.
WaitYield ==
  /\ pc \in {"initWait", "retryWait"} /\ waitAge < RetryDelayTicks
  /\ stall > 0
  /\ Step /\ Stay
  /\ UNCHANGED <<pc, tries, ages, observers>>

Main ==
  \/ StartTick \/ NothingDue
  \/ BeginModem \/ InitModem \/ InitWaitOver \/ IdentifyFails \/ ModemReady
  \/ PublishDue \/ CallConnect \/ AttemptFails \/ TcpStarted \/ MqttConnected
  \/ RetryWaitOver \/ GiveUp
  \/ PublishReadings \/ PublishHeartbeat \/ StartListening
  \/ ListenLoop \/ KeepListening \/ ListenOver
  \/ CallDisconnect \/ Disconnected
  \/ WaitYield

Next == Main \/ Tick

Spec == Init /\ [][Next]_vars

\* loop() calls tick() for ever, every radio call ends (all have timeouts), and
\* millis() never stops.  The modem and the broker owe nothing.
FairSpec == Spec /\ WF_vars(Main) /\ WF_vars(Tick)

-----------------------------------------------------------------------------
PCs == {"tick", "act", "init", "initWait", "identify", "tcpStart", "mqttConnect",
        "retryWait", "readings", "published", "looped", "disconnect"}

\* The shape of the state; in particular the retry counters stay within
\* SIM_INIT_TRIES and RADIO_RETRY_MAX.
TypeOK ==
  /\ state \in States /\ pc \in PCs
  /\ tries \in Nat
  /\ pc \in {"init", "initWait"} => tries <= SimInitTries
  /\ state = "Connect" => tries <= RadioRetryMax \/ pc \in {"tick", "act"}
  /\ {tickAge, publishAge, heartbeatAge, listenAge, modemTryAge, waitAge} \subseteq 0..(Wrap - 1)
  /\ stall \in 0..MaxStall
  /\ stateAge \in 0..PublishTicks /\ sentAge \in 0..HeartbeatTicks
  /\ connectAge \in 0..PublishTicks
  /\ radioEnd \in {"none", "session", "gaveUp"}

\* After a session the radio rests for the whole publish interval, counted from
\* the end of the disconnect and not from its start (tick, Disconnect and Idle).
RestAfterSession ==
  [][state = "Idle" /\ state' = "Connect" /\ radioEnd = "session"
       => stateAge = PublishTicks]_vars

\* Two uses of the radio begin at least a publish interval apart, also when the
\* first gave up after attempts of any length (tick, Connect: lastPublishMs_ = now).
ConnectSpacing ==
  [][state = "Idle" /\ state' = "Connect" => connectAge = PublishTicks]_vars

\* A session listens for commands for the whole listen window, however long
\* publishing took (listenStartMs_).
ListenWindow ==
  [][state = "Listen" /\ state' = "Disconnect" => stateAge >= ListenTicks]_vars

\* Two heartbeats are a heartbeat interval apart, but for the time that the first
\* took to leave after its tick began (lastHeartbeatMs_ = now, and two calls follow).
HeartbeatSpacing ==
  [][sentAge' = 0 /\ sentAge # 0 => sentAge + 2 * MaxStall >= HeartbeatTicks]_vars

\* The four intervals of tick are kept over a wrapping clock and radio calls that
\* block, although each of them counts from a reading of millis() of its own.
TimesKept == RestAfterSession /\ ConnectSpacing /\ ListenWindow /\ HeartbeatSpacing

\* Whatever the modem and the broker do, the radio comes down again.
RadioComesDown == state \in RadioStates ~> state = "Idle"

\* .. and it is brought up again: Idle ends.
IdleEnds == state = "Idle" ~> state = "Connect"

\* The main loop is never caught in a radio call, so service() keeps sampling
\* pulses, saving and kicking the watchdog.
TickRecurs == []<>(pc = "tick")

\* The machine goes on for ever: the radio comes down, comes up again and lets
\* loop() go round, with a modem and a broker that may answer nothing (tick).
GoesOn == RadioComesDown /\ IdleEnds /\ TickRecurs
=============================================================================
