------------------------- MODULE WaterboxFsm_proofs -------------------------
(***************************************************************************)
(* Proofs about the duty cycle of the radio: its four intervals are kept   *)
(* for all intervals, wherever millis() wraps and however long the calls   *)
(* that block take (within the assumption on the constants).               *)
(***************************************************************************)
EXTENDS WaterboxFsm, TLAPS

PcsOf(s) ==
  CASE s = "WaitModem" -> {"tick", "act", "init", "initWait", "identify"}
    [] s = "Connect" -> {"tick", "act", "tcpStart", "mqttConnect", "retryWait"}
    [] s = "Publish" -> {"tick", "act", "readings", "published"}
    [] s = "Listen" -> {"tick", "act", "looped"}
    [] s = "Disconnect" -> {"tick", "act", "disconnect"}
    [] OTHER -> {"tick", "act"}

\* The constants, one by one.
LEMMA Constants ==
  /\ PublishTicks \in Nat /\ HeartbeatTicks \in Nat /\ ListenTicks \in Nat
  /\ MaxStall \in Nat /\ Wrap \in Nat
  /\ PublishTicks > 0 /\ HeartbeatTicks > 0 /\ MaxStall > 0
  /\ PublishTicks + MaxStall < Wrap /\ HeartbeatTicks + MaxStall < Wrap
  /\ ListenTicks <= PublishTicks
  BY FsmAssumption

\* Small numbers are not changed by the wrap.
LEMMA ModSmall ==
  ASSUME NEW a \in Nat, NEW m \in Nat, a < m
  PROVE  a % m = a
  OBVIOUS

\* One more tick, at most.
LEMMA UpBounds ==
  ASSUME NEW a \in Nat
  PROVE  /\ Up(a) \in Nat /\ Up(a) <= a + 1
         /\ a + 1 < Wrap => Up(a) = a + 1
  BY Constants, ModSmall DEF Up

\* "now" is older than "last" was, and not by much.
LEMMA SinceExact ==
  ASSUME NEW a \in Nat, tickAge \in Nat, tickAge <= a, a < Wrap
  PROVE  Since(a) = a - tickAge
  BY Constants, ModSmall DEF Since

\* The shape of the state, with the steps each state of the machine has.
Types ==
  /\ state \in States /\ pc \in PcsOf(state)
  /\ tickAge \in Nat /\ publishAge \in Nat /\ heartbeatAge \in Nat /\ listenAge \in Nat
  /\ stall \in Nat /\ stall <= MaxStall
  /\ stateAge \in Nat /\ stateAge <= PublishTicks
  /\ sentAge \in Nat /\ sentAge <= HeartbeatTicks
  /\ connectAge \in Nat /\ connectAge <= PublishTicks

\* What was read at the start of a tick is as old as the calls since then.
NowIsRecent ==
  /\ pc = "act" => tickAge <= stall
  /\ pc = "readings" => tickAge <= MaxStall + stall

\* Until it saturates, the time since the session is exactly publishAge ..
RestInv ==
  /\ Waiting => radioEnd = "none"
  /\ state = "Idle" /\ radioEnd = "session" /\ stateAge < PublishTicks =>
       publishAge = stateAge /\ (pc = "act" => tickAge <= publishAge)

\* .. the time since Connect bounds publishAge, also when the radio gave up ..
ConnectInv ==
  connectAge < PublishTicks =>
    /\ ~Waiting
    /\ state = "Idle" => publishAge <= connectAge /\ (pc = "act" => tickAge <= publishAge)
    /\ state \in RadioStates /\ pc # "tick" => tickAge <= connectAge

\* .. the time in Listen is exactly listenAge ..
ListenInv ==
  state = "Listen" /\ stateAge < PublishTicks =>
    listenAge = stateAge /\ (pc # "tick" => tickAge <= listenAge)

\* .. and heartbeatAge is the time since a heartbeat left, and what it took to leave.
HeartbeatInv ==
  sentAge + 2 * MaxStall < HeartbeatTicks =>
    ~Waiting /\ tickAge <= heartbeatAge /\ heartbeatAge <= sentAge + 2 * MaxStall

TimeInv == Types /\ NowIsRecent /\ RestInv /\ ConnectInv /\ ListenInv /\ HeartbeatInv

-----------------------------------------------------------------------------
\* At power-on no interval has begun.
LEMMA InitTimeInv == Init => TimeInv
<1> SUFFICES ASSUME Init PROVE TimeInv
  OBVIOUS
<1>1. Types
  BY Constants DEF Init, Types, States, PcsOf
<1>2. NowIsRecent /\ RestInv /\ ConnectInv /\ ListenInv
  BY Constants DEF Init, NowIsRecent, RestInv, ConnectInv, ListenInv
<1>3. HeartbeatInv
  BY Constants DEF Init, HeartbeatInv
<1>. QED
  BY <1>1, <1>2, <1>3 DEF TimeInv

\* Time passes.
LEMMA TickKeepsTimes == TimeInv /\ Tick => TimeInv'
<1> SUFFICES ASSUME TimeInv, Tick PROVE TimeInv'
  OBVIOUS
<1>0. Types /\ NowIsRecent /\ RestInv /\ ConnectInv /\ ListenInv /\ HeartbeatInv
  BY DEF TimeInv
<1>1. /\ tickAge' = Up(tickAge) /\ stall' = stall + 1 /\ stall < MaxStall
      /\ publishAge' = IF Waiting THEN 0 ELSE Up(publishAge)
      /\ heartbeatAge' = IF Waiting THEN 0 ELSE Up(heartbeatAge)
      /\ listenAge' = IF state = "Listen" THEN Up(listenAge) ELSE 0
      /\ UNCHANGED <<state, pc, radioEnd>>
  BY DEF Tick
<1>2. /\ stateAge' = IF stateAge < PublishTicks THEN stateAge + 1 ELSE stateAge
      /\ sentAge' = IF sentAge < HeartbeatTicks THEN sentAge + 1 ELSE sentAge
      /\ connectAge' = IF connectAge < PublishTicks THEN connectAge + 1 ELSE connectAge
  BY DEF Tick, Saturate
<1>3. /\ tickAge' \in Nat /\ tickAge' <= tickAge + 1
      /\ publishAge' \in Nat /\ heartbeatAge' \in Nat /\ listenAge' \in Nat
  BY <1>0, <1>1, UpBounds DEF Types
<1>4. Types'
  BY <1>0, <1>1, <1>2, <1>3, Constants DEF Types
<1>5. NowIsRecent'
  BY <1>0, <1>1, <1>3, Constants DEF Types, NowIsRecent
<1>6. RestInv'
  <2> SUFFICES ASSUME state = "Idle", radioEnd = "session", stateAge' < PublishTicks
               PROVE  publishAge' = stateAge' /\ (pc = "act" => tickAge' <= publishAge')
    BY <1>0, <1>1 DEF RestInv, Waiting
  <2>1. stateAge < PublishTicks /\ stateAge' = stateAge + 1
    BY <1>0, <1>2 DEF Types
  <2>2. publishAge = stateAge /\ (pc = "act" => tickAge <= publishAge)
    BY <1>0, <2>1 DEF RestInv
  <2>3. publishAge' = publishAge + 1
    BY <1>0, <1>1, <2>1, <2>2, UpBounds, Constants DEF Types, Waiting
  <2>. QED
    BY <1>0, <1>3, <2>1, <2>2, <2>3 DEF Types
<1>7. ConnectInv'
  <2> SUFFICES ASSUME connectAge' < PublishTicks
               PROVE  /\ ~Waiting
                      /\ state = "Idle" => /\ publishAge' <= connectAge'
                                           /\ pc = "act" => tickAge' <= publishAge'
                      /\ state \in RadioStates /\ pc # "tick" => tickAge' <= connectAge'
    BY <1>1 DEF ConnectInv, Waiting
  <2>1. connectAge < PublishTicks /\ connectAge' = connectAge + 1
    BY <1>0, <1>2 DEF Types
  <2>2. /\ ~Waiting
        /\ state = "Idle" => publishAge <= connectAge /\ (pc = "act" => tickAge <= publishAge)
        /\ state \in RadioStates /\ pc # "tick" => tickAge <= connectAge
    BY <1>0, <2>1 DEF ConnectInv
  <2>3. state = "Idle" => publishAge' = publishAge + 1
    BY <1>0, <1>1, <2>1, <2>2, UpBounds, Constants DEF Types
  <2>. QED
    BY <1>0, <1>3, <2>1, <2>2, <2>3 DEF Types
<1>8. ListenInv'
  <2> SUFFICES ASSUME state = "Listen", stateAge' < PublishTicks
               PROVE  listenAge' = stateAge' /\ (pc # "tick" => tickAge' <= listenAge')
    BY <1>1 DEF ListenInv
  <2>1. stateAge < PublishTicks /\ stateAge' = stateAge + 1
    BY <1>0, <1>2 DEF Types
  <2>2. listenAge = stateAge /\ (pc # "tick" => tickAge <= listenAge)
    BY <1>0, <2>1 DEF ListenInv
  <2>3. listenAge' = listenAge + 1
    BY <1>0, <1>1, <2>1, <2>2, UpBounds, Constants DEF Types
  <2>. QED
    BY <1>0, <1>3, <2>1, <2>2, <2>3 DEF Types
<1>9. HeartbeatInv'
  <2> SUFFICES ASSUME sentAge' + 2 * MaxStall < HeartbeatTicks
               PROVE  ~Waiting /\ tickAge' <= heartbeatAge' /\ heartbeatAge' <= sentAge' + 2 * MaxStall
    BY <1>1 DEF HeartbeatInv, Waiting
  <2>1. sentAge + 2 * MaxStall < HeartbeatTicks /\ sentAge' = sentAge + 1
    BY <1>0, <1>2, Constants DEF Types
  <2>2. ~Waiting /\ tickAge <= heartbeatAge /\ heartbeatAge <= sentAge + 2 * MaxStall
    BY <1>0, <2>1 DEF HeartbeatInv
  <2>3. heartbeatAge' = heartbeatAge + 1
    BY <1>0, <1>1, <2>1, <2>2, UpBounds, Constants DEF Types
  <2>. QED
    BY <1>0, <1>3, <2>1, <2>2, <2>3, Constants DEF Types
<1>. QED
  BY <1>4, <1>5, <1>6, <1>7, <1>8, <1>9 DEF TimeInv

\* The main thread takes a step.
LEMMA MainKeepsTimes == TimeInv /\ Main => TimeInv'
<1> SUFFICES ASSUME TimeInv, Main PROVE TimeInv'
  OBVIOUS
<1>0. Types /\ NowIsRecent /\ RestInv /\ ConnectInv /\ ListenInv /\ HeartbeatInv
  BY DEF TimeInv
<1> USE DEF Types, NowIsRecent, RestInv, ConnectInv, ListenInv, HeartbeatInv, PcsOf, States,
            RadioStates, Waiting, Step, Stay, Enter, Return, ages, observers
<1>1. CASE StartTick
  BY <1>0, <1>1, Constants DEF StartTick, TimeInv
<1>2. CASE NothingDue
  BY <1>0, <1>2, Constants DEF NothingDue, TimeInv
<1>3. CASE BeginModem
  BY <1>0, <1>3, Constants DEF BeginModem, TimeInv, AtNow
<1>4. CASE InitModem
  BY <1>0, <1>4, Constants DEF InitModem, TimeInv
<1>5. CASE InitWaitOver
  BY <1>0, <1>5, Constants DEF InitWaitOver, TimeInv
<1>6. CASE IdentifyFails
  BY <1>0, <1>6, Constants DEF IdentifyFails, TimeInv
<1>7. CASE ModemReady
  <2>1. publishAge' \in Nat /\ heartbeatAge' \in Nat
    BY <1>0, <1>7, Constants DEF ModemReady, AtNow
  <2>2. state = "WaitModem"
    BY <1>0, <1>7 DEF ModemReady
  <2>3. /\ state' = "Idle" /\ pc' = "tick" /\ stateAge' = 0 /\ stall' = 0
        /\ UNCHANGED <<tickAge, listenAge, sentAge, connectAge, radioEnd>>
    BY <1>7 DEF ModemReady
  <2>. QED
    BY <1>0, <2>1, <2>2, <2>3, Constants DEF TimeInv
<1>8. CASE PublishDue
  BY <1>0, <1>8, Constants DEF PublishDue, TimeInv
<1>9. CASE CallConnect
  BY <1>0, <1>9, Constants DEF CallConnect, TimeInv
<1>10. CASE AttemptFails
  BY <1>0, <1>10, Constants DEF AttemptFails, TimeInv
<1>11. CASE TcpStarted
  BY <1>0, <1>11, Constants DEF TcpStarted, TimeInv
<1>12. CASE MqttConnected
  BY <1>0, <1>12, Constants DEF MqttConnected, TimeInv
<1>13. CASE RetryWaitOver
  BY <1>0, <1>13, Constants DEF RetryWaitOver, TimeInv
<1>14. CASE GiveUp
  BY <1>0, <1>14, Constants DEF GiveUp, TimeInv, AtNow, GivenUpAtNow
<1>15. CASE PublishReadings
  BY <1>0, <1>15, Constants DEF PublishReadings, TimeInv
<1>16. CASE PublishHeartbeat
  BY <1>0, <1>16, Constants DEF PublishHeartbeat, TimeInv, AtNow, HeartbeatSent
<1>17. CASE StartListening
  BY <1>0, <1>17, Constants DEF StartListening, TimeInv, ListenFromMillis
<1>18. CASE ListenLoop
  BY <1>0, <1>18, Constants DEF ListenLoop, TimeInv
<1>19. CASE KeepListening
  BY <1>0, <1>19, Constants DEF KeepListening, TimeInv
<1>20. CASE ListenOver
  BY <1>0, <1>20, Constants DEF ListenOver, TimeInv
<1>21. CASE CallDisconnect
  BY <1>0, <1>21, Constants DEF CallDisconnect, TimeInv
<1>22. CASE Disconnected
  BY <1>0, <1>22, Constants DEF Disconnected, TimeInv, PublishedAtMillis
<1>23. CASE WaitYield
  BY <1>0, <1>23, Constants DEF WaitYield, TimeInv
<1>. QED
  BY <1>1, <1>2, <1>3, <1>4, <1>5, <1>6, <1>7, <1>8, <1>9, <1>10, <1>11, <1>12, <1>13, <1>14, <1>15, <1>16, <1>17, <1>18, <1>19, <1>20, <1>21, <1>22, <1>23 DEF Main

\* Every step keeps the invariant of times.
LEMMA StepKeepsTimes == TimeInv /\ [Next]_vars => TimeInv'
<1> SUFFICES ASSUME TimeInv, [Next]_vars PROVE TimeInv'
  OBVIOUS
<1>1. CASE Main
  BY <1>1, MainKeepsTimes
<1>2. CASE Tick
  BY <1>2, TickKeepsTimes
<1>3. CASE UNCHANGED vars
  BY <1>3 DEF vars, ages, observers, TimeInv, Types, NowIsRecent, RestInv, ConnectInv, ListenInv,
              HeartbeatInv, Waiting
<1>. QED
  BY <1>1, <1>2, <1>3 DEF Next

\* The invariant of the duty cycle's times.
THEOREM TimesCorrect == FairSpec => []TimeInv
<1>. QED
  BY InitTimeInv, StepKeepsTimes, PTL DEF FairSpec, Spec

-----------------------------------------------------------------------------
\* A step that leaves a state for another, as the intervals see it.
LEMMA WhoLeaves ==
  ASSUME [Next]_vars
  PROVE  /\ state = "Idle" /\ state' = "Connect" => PublishDue
         /\ state = "Listen" /\ state' = "Disconnect" => ListenOver
         /\ sentAge' = 0 /\ sentAge # 0 /\ Types => PublishHeartbeat
<1> USE DEF Step, Stay, Enter, Return, ages, observers
<1>1. CASE UNCHANGED vars
  BY <1>1 DEF vars
<1>2. CASE Tick
  BY <1>2, Constants DEF Tick, Saturate, Types
<1>3. CASE Main
  <2>1. state = "Idle" /\ state' = "Connect" => PublishDue
    BY <1>3 DEF Main, StartTick, NothingDue, BeginModem, InitModem, InitWaitOver, IdentifyFails,
       ModemReady, CallConnect, AttemptFails, TcpStarted, MqttConnected, RetryWaitOver, GiveUp,
       PublishReadings, StartListening, ListenLoop, KeepListening, CallDisconnect, Disconnected,
       WaitYield, ListenOver, PublishHeartbeat
  <2>2. state = "Listen" /\ state' = "Disconnect" => ListenOver
    BY <1>3 DEF Main, StartTick, NothingDue, BeginModem, InitModem, InitWaitOver, IdentifyFails,
       ModemReady, CallConnect, AttemptFails, TcpStarted, MqttConnected, RetryWaitOver, GiveUp,
       PublishReadings, StartListening, ListenLoop, KeepListening, CallDisconnect, Disconnected,
       WaitYield, PublishDue, PublishHeartbeat
  <2>3. sentAge' = 0 /\ sentAge # 0 => PublishHeartbeat
    BY <1>3 DEF Main, StartTick, NothingDue, BeginModem, InitModem, InitWaitOver, IdentifyFails,
       ModemReady, CallConnect, AttemptFails, TcpStarted, MqttConnected, RetryWaitOver, GiveUp,
       PublishReadings, StartListening, ListenLoop, KeepListening, CallDisconnect, Disconnected,
       WaitYield, ListenOver, PublishDue
  <2>. QED
    BY <2>1, <2>2, <2>3
<1>. QED
  BY <1>1, <1>2, <1>3 DEF Next

\* A session is followed by a whole publish interval, ..
LEMMA RestHolds ==
  ASSUME TimeInv, [Next]_vars, state = "Idle", state' = "Connect", radioEnd = "session"
  PROVE  stateAge = PublishTicks
<1> SUFFICES ASSUME stateAge < PublishTicks PROVE FALSE
  BY Constants DEF TimeInv, Types
<1>1. PublishDue
  BY WhoLeaves
<1>2. publishAge = stateAge /\ tickAge <= publishAge
  BY <1>1 DEF PublishDue, TimeInv, RestInv
<1>3. Since(publishAge) = publishAge - tickAge
  BY <1>2, SinceExact, Constants DEF TimeInv, Types
<1>. QED
  BY <1>1, <1>2, <1>3, Constants DEF PublishDue, TimeInv, Types

\* .. two Connects are a publish interval apart, ..
LEMMA SpacingHolds ==
  ASSUME TimeInv, [Next]_vars, state = "Idle", state' = "Connect"
  PROVE  connectAge = PublishTicks
<1> SUFFICES ASSUME connectAge < PublishTicks PROVE FALSE
  BY Constants DEF TimeInv, Types
<1>1. PublishDue
  BY WhoLeaves
<1>2. publishAge <= connectAge /\ tickAge <= publishAge
  BY <1>1 DEF PublishDue, TimeInv, ConnectInv
<1>3. Since(publishAge) = publishAge - tickAge
  BY <1>2, SinceExact, Constants DEF TimeInv, Types
<1>. QED
  BY <1>1, <1>2, <1>3, Constants DEF PublishDue, TimeInv, Types

\* .. a session listens for the whole window, ..
LEMMA WindowHolds ==
  ASSUME TimeInv, [Next]_vars, state = "Listen", state' = "Disconnect"
  PROVE  stateAge >= ListenTicks
<1> SUFFICES ASSUME stateAge < ListenTicks PROVE FALSE
  BY Constants DEF TimeInv, Types
<1>1. ListenOver
  BY WhoLeaves
<1>2. listenAge = stateAge /\ tickAge <= listenAge
  BY <1>1, Constants DEF ListenOver, TimeInv, Types, ListenInv
<1>3. Since(listenAge) = listenAge - tickAge
  BY <1>2, SinceExact, Constants DEF TimeInv, Types
<1>. QED
  BY <1>1, <1>2, <1>3, Constants DEF ListenOver, TimeInv, Types

\* .. and heartbeats keep their distance.
LEMMA HeartbeatHolds ==
  ASSUME TimeInv, [Next]_vars, sentAge' = 0, sentAge # 0
  PROVE  sentAge + 2 * MaxStall >= HeartbeatTicks
<1> SUFFICES ASSUME sentAge + 2 * MaxStall < HeartbeatTicks PROVE FALSE
  BY Constants DEF TimeInv, Types
<1>1. PublishHeartbeat
  BY WhoLeaves DEF TimeInv
<1>2. tickAge <= heartbeatAge /\ heartbeatAge <= sentAge + 2 * MaxStall
  BY DEF TimeInv, HeartbeatInv
<1>3. Since(heartbeatAge) = heartbeatAge - tickAge
  BY <1>2, SinceExact, Constants DEF TimeInv, Types
<1>. QED
  BY <1>1, <1>2, <1>3, Constants DEF PublishHeartbeat, TimeInv, Types

\* The four intervals of tick are kept, for all intervals and wherever the clock wraps,
\* although each counts from a reading of millis() of its own and every call may block.
THEOREM IntervalsKept == FairSpec => TimesKept
<1>1. TimeInv /\ [Next]_vars
        => [state = "Idle" /\ state' = "Connect" /\ radioEnd = "session"
              => stateAge = PublishTicks]_vars
  BY RestHolds
<1>2. TimeInv /\ [Next]_vars
        => [state = "Idle" /\ state' = "Connect" => connectAge = PublishTicks]_vars
  BY SpacingHolds
<1>3. TimeInv /\ [Next]_vars
        => [state = "Listen" /\ state' = "Disconnect" => stateAge >= ListenTicks]_vars
  BY WindowHolds
<1>4. TimeInv /\ [Next]_vars
        => [sentAge' = 0 /\ sentAge # 0 => sentAge + 2 * MaxStall >= HeartbeatTicks]_vars
  BY HeartbeatHolds
<1>. QED
  BY <1>1, <1>2, <1>3, <1>4, TimesCorrect, PTL
  DEF FairSpec, Spec, TimesKept, RestAfterSession, ConnectSpacing, ListenWindow, HeartbeatSpacing
=============================================================================
