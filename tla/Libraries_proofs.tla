-------------------------- MODULE Libraries_proofs --------------------------
(***************************************************************************)
(* Proofs about the libraries that the meter and the sketches use.         *)
(*                                                                         *)
(* Modem: an initialized modem hears the meter, and a modem that answers   *)
(* whenever it is on is brought up with two presses of the key, for any    *)
(* table of rates and any number of tries.                                 *)
(*                                                                         *)
(* Calendar: makeTime gives back every time that breakTime was given, as   *)
(* far as the table of years reaches.                                      *)
(*                                                                         *)
(* Gprs: a query reports its own answer, however late answers come.        *)
(*                                                                         *)
(* Clock and Alarms: the clock loses no part of a second, a slot means     *)
(* what its value says, one handler runs at a time, and nothing fires      *)
(* twice for one trigger or before its time, for any number of slots, any  *)
(* values and whatever the handlers do.                                    *)
(***************************************************************************)
EXTENDS Modem, Gprs, Alarms, FiniteSetTheorems, WellFoundedInduction, TLAPS


-----------------------------------------------------------------------------
(* Modem: the table of rates and the loops                                 *)

Table == 1..Len(Rates)

\* The table of rates.
LEMMA TheRates ==
  /\ Len(Rates) \in Nat /\ Len(Rates) > 0
  /\ \A i \in Table : Rates[i] \in RateSet
  /\ \A r \in RateSet : \E i \in Table : r = Rates[i]
  /\ Fastest \in RateSet /\ Rates[1] \in RateSet
<1>1. Len(Rates) \in Nat /\ Len(Rates) > 0
  BY ModemAssumption
<1>2. \A i \in Table : Rates[i] \in RateSet
  BY DEF Table, RateSet
<1>3. \A r \in RateSet : \E i \in Table : r = Rates[i]
  BY DEF Table, RateSet
<1>4. Len(Rates) \in Table /\ 1 \in Table
  BY <1>1 DEF Table
<1>. QED
  BY <1>1, <1>2, <1>3, <1>4 DEF Fastest

\* The bounds of the loops.
LEMMA TheLoops ==
  AutobaudTries \in Nat /\ AutobaudTries > 0 /\ SimInitTries \in Nat /\ SimInitTries > 0
  BY ModemAssumption

ModemTypes ==
  /\ power \in BOOLEAN /\ deaf \in Nat /\ echo \in BOOLEAN
  /\ rate \in RateSet \cup {Adapts}
  /\ saved \in [rate : RateSet \cup {Adapts}, echo : BOOLEAN]

DriverTypes ==
  /\ pc \in PCs /\ tries \in Nat /\ probes \in Nat
  /\ stateOn \in BOOLEAN /\ stateInit \in BOOLEAN /\ uart \in RateSet

\* The rate that is probed is one of the table.
ProbesInv ==
  /\ pc \in {"fixbaud", "setRate"} => probes \in Table /\ uart = Rates[probes]
  /\ pc = "autobaud" => probes \in 1..AutobaudTries

Searching == {"autobaud", "fixbaud", "setRate", "defaults", "save", "initFailed"}

\* While init searches, the flag is down.
HearsInv ==
  /\ pc \in Searching => ~stateInit
  /\ stateInit /\ pc \notin {"init", "reset"} => Hears

ModemInv == faults \in BOOLEAN /\ ModemTypes /\ DriverTypes /\ ProbesInv /\ HearsInv

-----------------------------------------------------------------------------
(* Modem: what the modem does                                              *)

\* It starts with settings it may have.
LEMMA StartTypes ==
  ASSUME ModemTypes, Start, power' \in BOOLEAN, saved' = saved
  PROVE  ModemTypes'
<1>1. saved.rate \in RateSet \cup {Adapts} /\ saved.echo \in BOOLEAN
  BY DEF ModemTypes
<1>2. deaf' \in Nat
  BY TheLoops DEF Start, Starting
<1>. QED
  BY <1>1, <1>2 DEF ModemTypes, Start

\* A command that goes unanswered leaves a modem that heard it as it was.
LEMMA UnansweredTypes ==
  ASSUME ModemTypes, Unanswered
  PROVE  ModemTypes' /\ (Hears /\ uart' = uart => Hears')
<1>1. deaf' \in Nat
  BY DEF ModemTypes, Unanswered
<1>2. Hears => deaf' = deaf
  BY DEF ModemTypes, Unanswered, Hears
<1>. QED
  BY <1>1, <1>2 DEF ModemTypes, Unanswered, Hears

LEMMA AnsweredTypes ==
  ASSUME ModemTypes, Answered
  PROVE  ModemTypes' /\ Hears /\ (uart' = uart => Hears')
  BY DEF ModemTypes, Answered, Hears, modemVars

LEMMA DefaultsTypes ==
  ASSUME ModemTypes, FactoryDefaults
  PROVE  ModemTypes' /\ Hears /\ (uart' = uart => Hears')
<1>1. rate' \in {rate, Adapts}
  BY DEF FactoryDefaults
<1>. QED
  BY <1>1 DEF ModemTypes, FactoryDefaults, Hears

-----------------------------------------------------------------------------
\* Whatever was found at power-on.
LEMMA InitModemInv == Init => ModemInv
<1> SUFFICES ASSUME Init PROVE ModemInv
  OBVIOUS
<1>1. saved \in [rate : RateSet \cup {Adapts}, echo : BOOLEAN]
  BY DEF Init
<1>2. ModemTypes
  BY <1>1 DEF Init, ModemTypes
<1>3. DriverTypes
  BY TheRates DEF Init, DriverTypes, PCs
<1>. QED
  BY <1>2, <1>3 DEF Init, ModemInv, ProbesInv, HearsInv, Searching

\* A step of the driver.
LEMMA DriverKeepsModem == ModemInv /\ Main => ModemInv'
<1> SUFFICES ASSUME ModemInv, Main PROVE ModemInv'
  OBVIOUS
<1>0. ModemTypes /\ DriverTypes /\ ProbesInv /\ HearsInv /\ faults' \in BOOLEAN
  BY DEF ModemInv, Main
<1>. SUFFICES ModemTypes' /\ DriverTypes' /\ ProbesInv' /\ HearsInv'
  BY <1>0 DEF ModemInv
<1> USE DEF DriverTypes, ProbesInv, HearsInv, Searching, PCs, driverVars
<1>1. CASE Begin
  <2>1. ModemTypes'
    BY <1>0, <1>1 DEF Begin, ModemTypes, modemVars
  <2>. QED
    BY <1>0, <1>1, <2>1 DEF Begin, Hears, modemVars
<1>2. CASE SwitchOn
  <2>1. CASE stateOn \/ power
    BY <1>0, <1>2, <2>1 DEF SwitchOn, ModemTypes, modemVars
  <2>2. CASE ~stateOn /\ ~power
    <3>1. ModemTypes'
      BY <1>0, <1>2, <2>2, StartTypes DEF SwitchOn, ModemTypes
    <3>. QED
      BY <1>0, <1>2, <3>1 DEF SwitchOn
  <2>. QED
    BY <2>1, <2>2
<1>3. CASE ResetModem
  <2>1. ModemTypes'
    BY <1>0, <1>3, StartTypes DEF ResetModem, ModemTypes, modemVars
  <2>2. pc' = "autobaud" /\ probes' = 1 /\ stateOn' = FALSE /\ stateInit' = FALSE
        /\ uart' = Fastest /\ tries' = tries
    BY <1>3 DEF ResetModem, OnForgotten, InitForgotten
  <2>3. DriverTypes' /\ ProbesInv'
    <3>1. Fastest \in RateSet
      BY TheRates
    <3>2. 1 \in 1..AutobaudTries
      BY TheLoops
    <3>. QED
      BY <1>0, <2>2, <3>1, <3>2
  <2>. QED
    BY <2>1, <2>2, <2>3
<1>4. CASE AutobaudFound
  BY <1>0, <1>4, AnsweredTypes DEF AutobaudFound, Initialized
<1>5. CASE AutobaudMissed
  <2>1. ModemTypes' /\ ~stateInit' /\ pc' \in {"autobaud", "fixbaud"}
    BY <1>0, <1>5, UnansweredTypes DEF AutobaudMissed, TryFixbaud
  <2>2. CASE probes < AutobaudTries
    BY <1>0, <1>5, <2>1, <2>2, TheLoops DEF AutobaudMissed
  <2>3. CASE ~(probes < AutobaudTries)
    BY <1>0, <1>5, <2>1, <2>3, TheRates DEF AutobaudMissed, TryFixbaud, Table
  <2>. QED
    BY <2>2, <2>3
<1>6. CASE NextRate
  <2>1. ModemTypes' /\ ~stateInit' /\ pc' \in {"fixbaud", "initFailed"}
    BY <1>0, <1>6, UnansweredTypes DEF NextRate, InitFailed
  <2>2. CASE probes < Len(Rates)
    <3>1. probes + 1 \in Table
      BY <1>0, <1>6, <2>2, TheRates DEF NextRate, Table
    <3>. QED
      BY <1>0, <1>6, <2>1, <2>2, <3>1, TheRates DEF NextRate
  <2>3. CASE ~(probes < Len(Rates))
    BY <1>0, <1>6, <2>1, <2>3 DEF NextRate, InitFailed
  <2>. QED
    BY <2>2, <2>3
<1>7. CASE RateFound
  BY <1>0, <1>7, AnsweredTypes DEF RateFound
<1>8. CASE SetRate
  <2>1. ModemTypes'
    BY <1>0, <1>8 DEF SetRate, ModemTypes, ThisRate
  <2>. QED
    BY <1>0, <1>8, <2>1 DEF SetRate
<1>9. CASE Defaults
  BY <1>0, <1>9, DefaultsTypes DEF Defaults
<1>10. CASE SaveProfile
  <2>1. ModemTypes'
    BY <1>0, <1>10 DEF SaveProfile, ModemTypes
  <2>. QED
    BY <1>0, <1>10, <2>1 DEF SaveProfile, Initialized, Hears
<1>11. CASE ProfileFails
  BY <1>0, <1>11, UnansweredTypes DEF ProfileFails, InitFailed
<1>12. CASE InitAgain
  <2>1. ModemTypes'
    BY <1>0, <1>12 DEF InitAgain, ModemTypes, modemVars
  <2>. QED
    BY <1>0, <1>12, <2>1 DEF InitAgain, TryCounted, TriesLeft
<1>13. CASE GetImei
  BY <1>0, <1>13, AnsweredTypes DEF GetImei
<1>14. CASE ImeiFails
  BY <1>0, <1>14, UnansweredTypes DEF ImeiFails
<1>15. CASE Factory
  BY <1>0, <1>15, DefaultsTypes DEF Factory
<1>16. CASE EchoOff
  <2>1. ModemTypes'
    BY <1>0, <1>16 DEF EchoOff, ModemTypes, EchoGone
  <2>. QED
    BY <1>0, <1>16, <2>1 DEF EchoOff, Hears
<1>17. CASE Creg
  <2>1. ModemTypes' /\ Hears'
    BY <1>0, <1>17, AnsweredTypes DEF Creg
  <2>. QED
    BY <1>0, <1>17, <2>1 DEF Creg
<1>18. CASE SetupFails
  BY <1>0, <1>18, UnansweredTypes DEF SetupFails
<1>. QED
  BY <1>1, <1>2, <1>3, <1>4, <1>5, <1>6, <1>7, <1>8, <1>9, <1>10, <1>11, <1>12, <1>13,
     <1>14, <1>15, <1>16, <1>17, <1>18 DEF Main, Driver

\* The meter restarts.
LEMMA RebootKeepsModem == ModemInv /\ Reboot => ModemInv'
<1> SUFFICES ASSUME ModemInv, Reboot PROVE ModemInv'
  OBVIOUS
<1>1. ModemTypes' /\ faults' \in BOOLEAN
  BY DEF ModemInv, Reboot, ModemTypes, modemVars
<1>2. DriverTypes'
  BY TheRates DEF Reboot, DriverTypes, PCs
<1>. QED
  BY <1>1, <1>2 DEF ModemInv, Reboot, ProbesInv, HearsInv, Searching

LEMMA ModemInvHolds == Spec => []ModemInv
<1>1. ModemInv /\ [Next]_vars => ModemInv'
  <2>1. ModemInv /\ UNCHANGED vars => ModemInv'
    <3>. SUFFICES ASSUME ModemInv, UNCHANGED vars PROVE ModemInv'
      OBVIOUS
    <3>1. ModemTypes'
      BY DEF ModemInv, ModemTypes, vars, modemVars
    <3>2. Hears' = Hears
      BY DEF Hears, vars, driverVars, modemVars
    <3>3. DriverTypes' /\ ProbesInv'
      BY DEF ModemInv, DriverTypes, ProbesInv, vars, driverVars
    <3>4. HearsInv'
      BY <3>2 DEF ModemInv, HearsInv, vars, driverVars
    <3>. QED
      BY <3>1, <3>3, <3>4 DEF ModemInv, vars
  <2>. QED
    BY <2>1, DriverKeepsModem, RebootKeepsModem DEF Next
<1>. QED
  BY <1>1, InitModemInv, PTL DEF Spec

\* A modem of which the driver says that it is initialized hears the meter, for every
\* table of rates and whatever goes unanswered (init_autobaud, init_fixbaud).
THEOREM InitializedMeansHears == Spec => []InitializedHears
<1>1. ModemInv => InitializedHears
  BY DEF ModemInv, HearsInv, InitializedHears
<1>. QED
  BY <1>1, ModemInvHolds, PTL

-----------------------------------------------------------------------------
(* Modem: a modem that answers whenever it is on                           *)

Pressed == {"reset", "autobaud", "fixbaud", "setRate", "defaults", "save", "initFailed"}
Heard   == {"setRate", "defaults", "save", "imei", "factory", "echoOff", "creg"}

\* A failed init has found the modem switched off by the first press of the key, so
\* that the second press switches it on.  While init_autobaud probes, the modem will
\* have started before the last probe; while init_fixbaud does, its rate is still to
\* come in the table.
CalmInv ==
  /\ tries <= 1 /\ (stateOn => pc = "reset")
  /\ pc = "init" /\ tries = 1 => ~power
  /\ pc \in Pressed /\ tries = 1 => power
  /\ pc = "initFailed" => ~power
  /\ pc = "autobaud" /\ power => deaf + probes <= AutobaudTries
  /\ pc = "fixbaud" /\ power =>
       deaf = 0 /\ \E i \in Table : probes <= i /\ rate = Rates[i]
  /\ pc \in Heard => Hears
  /\ pc \in {"creg", "ready"} => ~echo

LEMMA DriverKeepsCalm ==
  ASSUME ModemInv, ~faults, CalmInv, Main
  PROVE  CalmInv'
<1>0. ModemTypes /\ DriverTypes /\ ProbesInv
  BY DEF ModemInv
<1> USE DEF CalmInv, Pressed, Heard, driverVars
<1>1. CASE Begin
  BY <1>0, <1>1 DEF Begin, modemVars
<1>2. CASE SwitchOn
  <2>1. ~stateOn /\ pc' = "reset" /\ tries' = tries /\ power' = ~power
    BY <1>2 DEF SwitchOn
  <2>2. tries = 1 => power'
    BY <1>2, <2>1 DEF SwitchOn
  <2>. QED
    BY <2>1, <2>2
<1>3. CASE ResetModem
  <2>1. pc' = "autobaud" /\ probes' = 1 /\ stateOn' = FALSE /\ tries' = tries
        /\ power' = power
    BY <1>3 DEF ResetModem, OnForgotten, modemVars
  <2>2. power => deaf' + 1 <= AutobaudTries
    BY <1>3, TheLoops DEF ResetModem, Start, Starting
  <2>3. tries = 1 => power'
    BY <1>3, <2>1 DEF ResetModem
  <2>. QED
    BY <2>1, <2>2, <2>3
<1>4. CASE AutobaudFound
  <2>1. pc' = "imei" /\ tries' = tries /\ stateOn' = stateOn /\ Hears'
    BY <1>0, <1>4, AnsweredTypes DEF AutobaudFound, Initialized
  <2>. QED
    BY <1>4, <2>1 DEF AutobaudFound
<1>5. CASE AutobaudMissed
  <2>0. pc = "autobaud" /\ tries' = tries /\ stateOn' = stateOn /\ power' = power
        /\ rate' = rate /\ ~Hears
    BY <1>5 DEF AutobaudMissed, Unanswered
  <2>1. CASE probes < AutobaudTries
    <3>1. pc' = "autobaud" /\ probes' = probes + 1
      BY <1>5, <2>1 DEF AutobaudMissed
    <3>2. CASE ~power
      BY <2>0, <3>1, <3>2
    <3>3. CASE power
      <4>1. deaf' = IF deaf > 0 THEN deaf - 1 ELSE deaf
        BY <1>5, <3>3 DEF AutobaudMissed, Unanswered
      <4>2. deaf' + probes' <= AutobaudTries
        BY <1>0, <2>0, <2>1, <3>1, <3>3, <4>1, TheLoops DEF ModemTypes, DriverTypes
      <4>. QED
        BY <2>0, <3>1, <4>2
    <3>. QED
      BY <3>2, <3>3
  <2>2. CASE ~(probes < AutobaudTries)
    <3>1. pc' = "fixbaud" /\ probes' = 1
      BY <1>5, <2>2 DEF AutobaudMissed, TryFixbaud
    <3>2. CASE ~power
      BY <2>0, <3>1, <3>2
    <3>3. CASE power
      <4>1. deaf = 0
        BY <1>0, <2>0, <2>2, <3>3, TheLoops DEF ModemTypes, DriverTypes
      <4>2. rate # Adapts /\ deaf' = 0
        BY <1>5, <2>0, <3>3, <4>1 DEF AutobaudMissed, Unanswered, Hears
      <4>3. PICK i \in Table : rate = Rates[i]
        BY <1>0, <4>2, TheRates DEF ModemTypes
      <4>4. 1 <= i
        BY TheRates DEF Table
      <4>. QED
        BY <2>0, <3>1, <4>2, <4>3, <4>4
    <3>. QED
      BY <3>2, <3>3
  <2>. QED
    BY <2>1, <2>2
<1>6. CASE NextRate
  <2>0. pc = "fixbaud" /\ tries' = tries /\ stateOn' = stateOn /\ power' = power
        /\ rate' = rate /\ ~Hears
    BY <1>6 DEF NextRate, Unanswered
  <2>1. CASE ~power
    BY <1>6, <2>0, <2>1 DEF NextRate, InitFailed
  <2>2. CASE power
    <3>1. PICK i \in Table : probes <= i /\ rate = Rates[i]
      BY <2>0, <2>2
    <3>2. deaf = 0 /\ deaf' = 0
      BY <1>6, <2>0, <2>2 DEF NextRate, Unanswered
    <3>3. rate # Rates[probes]
      BY <1>0, <2>0, <2>2, <3>2 DEF ProbesInv, Hears
    <3>4. probes + 1 <= i /\ probes < Len(Rates)
      BY <1>0, <3>1, <3>3, TheRates DEF Table, DriverTypes
    <3>5. pc' = "fixbaud" /\ probes' = probes + 1
      BY <1>6, <3>4 DEF NextRate
    <3>. QED
      BY <2>0, <3>1, <3>2, <3>4, <3>5
  <2>. QED
    BY <2>1, <2>2
<1>7. CASE RateFound
  <2>1. Hears' /\ pc' = "setRate" /\ tries' = tries /\ stateOn' = stateOn /\ power'
    BY <1>0, <1>7, AnsweredTypes DEF RateFound, Hears
  <2>. QED
    BY <1>7, <2>1 DEF RateFound
<1>8. CASE SetRate
  <2>1. Hears'
    BY <1>0, <1>8 DEF SetRate, Hears, ThisRate, ProbesInv
  <2>. QED
    BY <1>8, <2>1 DEF SetRate, Hears
<1>9. CASE Defaults
  <2>1. Hears'
    BY <1>0, <1>9, DefaultsTypes DEF Defaults
  <2>. QED
    BY <1>9, <2>1 DEF Defaults, Hears
<1>10. CASE SaveProfile
  BY <1>10 DEF SaveProfile, Initialized, Hears
<1>11. CASE ProfileFails
  BY <1>11 DEF ProfileFails, Unanswered
<1>12. CASE InitAgain
  <2>1. tries = 0 /\ tries' = 1
    BY <1>0, <1>12 DEF InitAgain, TryCounted, DriverTypes
  <2>2. pc' \in {"init", "idle"} /\ stateOn' = stateOn /\ power' = power
    BY <1>12 DEF InitAgain, modemVars
  <2>. QED
    BY <1>12, <2>1, <2>2 DEF InitAgain
<1>13. CASE GetImei
  <2>1. Hears'
    BY <1>0, <1>13, AnsweredTypes DEF GetImei
  <2>. QED
    BY <1>13, <2>1 DEF GetImei
<1>14. CASE ImeiFails
  BY <1>14 DEF ImeiFails, Unanswered
<1>15. CASE Factory
  <2>1. Hears'
    BY <1>0, <1>15, DefaultsTypes DEF Factory
  <2>. QED
    BY <1>15, <2>1 DEF Factory
<1>16. CASE EchoOff
  BY <1>16 DEF EchoOff, EchoGone, Hears
<1>17. CASE Creg
  <2>1. Hears' /\ echo' = echo
    BY <1>0, <1>17, AnsweredTypes DEF Creg, Answered, modemVars
  <2>. QED
    BY <1>17, <2>1 DEF Creg
<1>18. CASE SetupFails
  BY <1>18 DEF SetupFails, Unanswered
<1>. QED
  BY <1>1, <1>2, <1>3, <1>4, <1>5, <1>6, <1>7, <1>8, <1>9, <1>10, <1>11, <1>12, <1>13,
     <1>14, <1>15, <1>16, <1>17, <1>18 DEF Main, Driver

\* A modem that answers whenever it is on is brought up with two presses of the key at
\* most and is quiet in the end, for every table of rates and whatever state the meter
\* finds it in (begin, switchOn, setup).
THEOREM CalmIsEasy == Spec => []CalmBringUp
<1> DEFINE Easy == ~faults => CalmInv
<1>1. Init => Easy
  BY DEF Init, CalmInv, Pressed, Heard
<1>2. ModemInv /\ Easy /\ [Next]_vars => Easy'
  <2>. SUFFICES ASSUME ModemInv, Easy, [Next]_vars, ~faults' PROVE CalmInv'
    OBVIOUS
  <2>1. CASE Main
    BY <2>1, DriverKeepsCalm DEF Main
  <2>2. CASE Reboot
    BY <2>2 DEF Reboot, CalmInv, Pressed, Heard
  <2>3. CASE UNCHANGED vars
    <3>1. Hears' = Hears /\ CalmInv
      BY <2>3 DEF Hears, vars, driverVars, modemVars
    <3>. QED
      BY <2>3, <3>1 DEF CalmInv, vars, driverVars, modemVars
  <2>. QED
    BY <2>1, <2>2, <2>3 DEF Next
<1>3. Easy => CalmBringUp
  BY DEF CalmInv, CalmBringUp, TwoPressesDo, QuietWhenReady
<1>. QED
  BY <1>1, <1>2, <1>3, ModemInvHolds, PTL DEF Spec

-----------------------------------------------------------------------------
(* Calendar: division                                                      *)

\* The quotient is the only number that leaves a remainder below the divisor.
LEMMA QuotientIs ==
  ASSUME NEW d \in Nat, d > 0, NEW q \in Int, NEW r \in Nat, r < d
  PROVE  (d * q + r) \div d = q /\ (d * q + r) % d = r
<1> DEFINE t == d * q + r
           p == t \div d
           m == t % d
<1>1. d * q \in Int /\ t \in Int
  OBVIOUS
<1>2. p \in Int /\ m \in 0..(d - 1) /\ t = d * p + m
  BY <1>1, Z3
<1>3. d * p + m = d * q + r
  BY <1>2
<1> HIDE DEF t, p, m
<1>4. CASE p >= q + 1
  <2>1. d * p >= d * (q + 1)
    BY <1>4, <1>2
  <2>2. d * (q + 1) = d * q + d
    BY <1>2
  <2>. QED
    BY <1>1, <1>2, <1>3, <2>1, <2>2
<1>5. CASE q >= p + 1
  <2>1. d * q >= d * (p + 1)
    BY <1>5, <1>2
  <2>2. d * (p + 1) = d * p + d
    BY <1>2
  <2>. QED
    BY <1>1, <1>2, <1>3, <2>1, <2>2
<1>6. CASE p = q
  BY <1>6, <1>3, <1>2, <1>1 DEF p, m, t
<1>. QED
  BY <1>4, <1>5, <1>6, <1>2

\* What a division leaves.
LEMMA Division ==
  ASSUME NEW t \in Nat, NEW d \in Nat, d > 0
  PROVE  t \div d \in Nat /\ t % d \in 0..(d - 1) /\ t = d * (t \div d) + (t % d)
<1> DEFINE q == t \div d
           r == t % d
<1>1. q \in Int /\ r \in 0..(d - 1) /\ t = d * q + r
  BY Z3
<1> HIDE DEF q, r
<1>2. ASSUME q < 0 PROVE FALSE
  <2>1. q + 1 <= 0
    BY <1>1, <1>2
  <2>2. d * (q + 1) <= 0
    BY <2>1, <1>1
  <2>3. d * (q + 1) = d * q + d
    BY <1>1
  <2>. QED
    BY <2>2, <2>3, <1>1
<1>3. q \in Nat
  BY <1>1, <1>2
<1>. QED
  BY <1>1, <1>3 DEF q, r

\* Dividing twice.
LEMMA DivideTwice ==
  ASSUME NEW t \in Nat, NEW a \in Nat, a > 0, NEW b \in Nat, b > 0
  PROVE  t \div (a * b) = (t \div a) \div b
<1> DEFINE p == t \div a
           s == t % a
           q == p \div b
           m == p % b
           r == a * m + s
<1>1. p \in Nat /\ s \in 0..(a - 1) /\ t = a * p + s
  BY Division
<1>2. q \in Nat /\ m \in 0..(b - 1) /\ p = b * q + m
  BY <1>1, Division
<1> HIDE DEF p, s, q, m
<1>3. a * b \in Nat /\ a * b > 0
  OBVIOUS
<1>4. a * p = a * (b * q) + a * m
  BY <1>2
<1>5. a * (b * q) = (a * b) * q
  BY <1>2
<1>6. t = (a * b) * q + r
  BY <1>1, <1>2, <1>4, <1>5
<1>7. a * m \in Nat /\ a * m <= a * (b - 1)
  BY <1>2
<1>8. a * (b - 1) = a * b - a
  OBVIOUS
<1>9. r \in Nat /\ r < a * b
  BY <1>7, <1>8, <1>1, <1>3
<1> HIDE DEF r
<1>10. ((a * b) * q + r) \div (a * b) = q
  BY <1>3, <1>9, <1>2, QuotientIs
<1>. QED
  BY <1>6, <1>10 DEF q, p

-----------------------------------------------------------------------------
(* Calendar: the tables                                                    *)

\* A set of numbers that is not empty has a least one.
LEMMA Least ==
  ASSUME NEW T, T \subseteq Nat, T # {}
  PROVE  \E x \in T : \A y \in T : x <= y
<1>1. PICK x \in T : \A y \in T : ~(<<y, x>> \in OpToRel(<, Nat))
  BY WFMin, NatLessThanWellFounded
<1>2. \A y \in T : ~(y < x)
  BY <1>1 DEF OpToRel
<1>. QED
  BY <1>2

\* The loops of breakTime stop, at the first entry that is beyond n.
LEMMA FirstBeyondIs ==
  ASSUME NEW N \in Nat, NEW sums, DOMAIN sums = 1..N,
         \A i \in 1..N : sums[i] \in Nat,
         NEW n \in Nat, NEW k \in 1..N, sums[k] > n, sums[1] <= n
  PROVE  /\ FirstBeyond(sums, n) \in 2..N
         /\ sums[FirstBeyond(sums, n)] > n
         /\ sums[FirstBeyond(sums, n) - 1] <= n
<1> DEFINE T == {i \in 1..N : sums[i] > n}
           Hits(i) == sums[i] > n /\ (i > 1 => sums[i - 1] <= n)
<1>1. PICK x \in T : \A y \in T : x <= y
  <2>1. T \subseteq Nat /\ k \in T
    OBVIOUS
  <2>. QED
    BY <2>1, Least
<1>2. x > 1 => sums[x - 1] <= n
  <2>1. x > 1 => x - 1 \in 1..N /\ ~(x - 1 \in T)
    BY <1>1
  <2>. QED
    BY <2>1
<1>3. \E i \in DOMAIN sums : Hits(i)
  BY <1>1, <1>2
<1>4. FirstBeyond(sums, n) \in DOMAIN sums /\ Hits(FirstBeyond(sums, n))
  BY <1>3 DEF FirstBeyond
<1>. QED
  BY <1>4

\* The units of time.
LEMMA Units ==
  /\ SECS_PER_MIN \in Nat \ {0} /\ MINS_PER_HOUR \in Nat \ {0} /\ HOURS_PER_DAY \in Nat \ {0}
  /\ SECS_PER_HOUR \in Nat \ {0} /\ SECS_PER_DAY \in Nat \ {0} /\ LastYear \in Nat \ {0}
<1>1. /\ SECS_PER_MIN \in Nat \ {0} /\ MINS_PER_HOUR \in Nat \ {0}
      /\ HOURS_PER_DAY \in Nat \ {0} /\ LastYear \in Nat \ {0}
  BY CalendarAssumption
<1>2. \A a, b \in Nat \ {0} : a * b \in Nat \ {0}
  OBVIOUS
<1>. QED
  BY <1>1, <1>2 DEF SECS_PER_HOUR, SECS_PER_DAY

\* One leap year more, or none.
LEMMA NextLeap ==
  ASSUME NEW y \in Nat
  PROVE  /\ LeapsBefore(y) \in Nat
         /\ LeapsBefore(y + 1) = LeapsBefore(y) + (YearLength(y) - 365)
<1> DEFINE L(n) == {i \in 0..(n - 1) : LEAP_YEAR(i)}
<1>1. IsFiniteSet(L(y))
  <2>1. IsFiniteSet(0..(y - 1))
    BY FS_Interval
  <2>. QED
    BY <2>1, FS_Subset
<1>2. Cardinality(L(y)) \in Nat
  BY <1>1, FS_CardinalityType
<1>3. CASE LEAP_YEAR(y)
  <2>1. L(y + 1) = L(y) \cup {y}
    BY <1>3
  <2>2. y \notin L(y)
    OBVIOUS
  <2>3. Cardinality(L(y + 1)) = Cardinality(L(y)) + 1
    BY <1>1, <2>1, <2>2, FS_AddElement
  <2>. QED
    BY <2>3, <1>2, <1>3 DEF LeapsBefore, YearLength
<1>4. CASE ~LEAP_YEAR(y)
  <2>1. L(y + 1) = L(y)
    BY <1>4
  <2>2. LeapsBefore(y + 1) = LeapsBefore(y) /\ LeapsBefore(y) \in Nat
    BY <2>1, <1>2 DEF LeapsBefore
  <2>3. YearLength(y) = 365
    BY <1>4 DEF YearLength
  <2>. QED
    BY <2>2, <2>3
<1>. QED
  BY <1>3, <1>4

\* The table of years is what makeTime adds up.
LEMMA TheYears ==
  /\ DOMAIN DaysToYear = 1..(LastYear + 2)
  /\ DaysToYear[1] = 0
  /\ \A y \in 0..(LastYear + 1) :
       /\ DaysToYear[y + 1] \in Nat
       /\ DaysToYear[y + 1] = y * 365 + LeapsBefore(y)
<1>1. ASSUME NEW y \in 0..(LastYear + 1)
      PROVE  /\ DaysToYear[y + 1] \in Nat
             /\ DaysToYear[y + 1] = y * 365 + LeapsBefore(y)
  <2>1. \A i \in 0..(y - 1) : YearLength(i) = 366 <=> LEAP_YEAR(i)
    BY DEF YearLength
  <2>2. {i \in 0..((y + 1) - 2) : YearLength(i) = 366} = {i \in 0..(y - 1) : LEAP_YEAR(i)}
    BY <2>1, Units
  <2>3. y + 1 \in 1..(LastYear + 2)
    BY Units
  <2>4. DaysToYear[y + 1] = y * 365 + LeapsBefore(y)
    BY <2>2, <2>3, Units DEF DaysToYear, LeapsBefore
  <2>. QED
    BY <2>4, NextLeap
<1>2. LeapsBefore(0) = 0
  <2>1. {i \in 0..(0 - 1) : LEAP_YEAR(i)} = {}
    OBVIOUS
  <2>. QED
    BY <2>1, FS_EmptySet DEF LeapsBefore
<1>3. DaysToYear[1] = 0
  <2>1. 0 \in 0..(LastYear + 1)
    BY Units
  <2>2. DaysToYear[0 + 1] = 0 * 365 + LeapsBefore(0)
    BY <1>1, <2>1
  <2>. QED
    BY <1>2, <2>2
<1>4. DOMAIN DaysToYear = 1..(LastYear + 2)
  BY DEF DaysToYear
<1>. QED
  BY <1>1, <1>3, <1>4

\* The table of months: whole numbers, from 0 to the length of the year.
LEMMA TheMonths ==
  ASSUME NEW y
  PROVE  LET start == DaysToMonth[LEAP_YEAR(y)] IN
         /\ DOMAIN start = 1..13 /\ \A i \in 1..13 : start[i] \in Nat
         /\ start[1] = 0 /\ start[13] = YearLength(y)
<1> DEFINE leap == LEAP_YEAR(y)
           Add(s) == [i \in 1..13 |-> IF i = 1 THEN 0 ELSE s[i - 1] + MonthLength(i - 1, leap)]
           Starts == <<0, 31, 59, 90, 120, 151, 181, 212, 243, 273, 304, 334, 365>>
           w == [i \in 1..13 |-> IF i > 2 /\ leap THEN Starts[i] + 1 ELSE Starts[i]]
           start == CHOOSE s : s = Add(s)
<1>1. leap \in BOOLEAN
  BY DEF LEAP_YEAR
<1>2. ASSUME NEW i \in 1..13
      PROVE  w[i] = IF i = 1 THEN 0 ELSE w[i - 1] + MonthLength(i - 1, leap)
  <2>1. \/ i = 1 \/ i = 2 \/ i = 3 \/ i = 4 \/ i = 5 \/ i = 6 \/ i = 7
        \/ i = 8 \/ i = 9 \/ i = 10 \/ i = 11 \/ i = 12 \/ i = 13
    OBVIOUS
  <2>. HIDE DEF leap
  <2>. QED
    BY <2>1, <1>1 DEF MonthLength, monthDays
<1>3. w = Add(w)
  BY <1>2
<1>4. start = Add(start)
  <2>. HIDE DEF Add
  <2>. QED
    BY <1>3
<1>5. DaysToMonth[leap] = start
  BY <1>1 DEF DaysToMonth
<1> HIDE DEF start
<1>6. /\ DOMAIN start = 1..13 /\ start[1] = 0
      /\ \A i \in 2..13 : start[i] = start[i - 1] + MonthLength(i - 1, leap)
  BY <1>4
<1> DEFINE feb == IF leap THEN 29 ELSE 28
<1>7. /\ start[2] = start[1] + 31 /\ start[3] = start[2] + feb /\ start[4] = start[3] + 31
      /\ start[5] = start[4] + 30 /\ start[6] = start[5] + 31 /\ start[7] = start[6] + 30
      /\ start[8] = start[7] + 31 /\ start[9] = start[8] + 31 /\ start[10] = start[9] + 30
      /\ start[11] = start[10] + 31 /\ start[12] = start[11] + 30 /\ start[13] = start[12] + 31
  <2>. HIDE DEF leap
  <2>. QED
    BY <1>6 DEF MonthLength, monthDays
<1>8. \A i \in 1..13 : start[i] \in Nat
  <2>1. \A i \in 1..13 :
          \/ i = 1 \/ i = 2 \/ i = 3 \/ i = 4 \/ i = 5 \/ i = 6 \/ i = 7
          \/ i = 8 \/ i = 9 \/ i = 10 \/ i = 11 \/ i = 12 \/ i = 13
    OBVIOUS
  <2>. HIDE DEF leap
  <2>. QED
    BY <2>1, <1>6, <1>7
<1>9. start[13] = YearLength(y)
  <2>1. start[13] = 337 + feb
    <3>. HIDE DEF leap
    <3>. QED
      BY <1>6, <1>7
  <2>. QED
    BY <2>1 DEF YearLength
<1>. QED
  BY <1>5, <1>6, <1>8, <1>9

-----------------------------------------------------------------------------
(* Calendar: dates and times                                               *)

\* The seconds, minutes, hours and days of a time add up to it.
LEMMA TimeOfDay ==
  ASSUME NEW t \in Nat
  PROVE  /\ t \div SECS_PER_DAY \in Nat
         /\ t % SECS_PER_MIN \in 0..(SECS_PER_MIN - 1)
         /\ (t \div SECS_PER_MIN) % MINS_PER_HOUR \in 0..(MINS_PER_HOUR - 1)
         /\ (t \div SECS_PER_HOUR) % HOURS_PER_DAY \in 0..(HOURS_PER_DAY - 1)
         /\ t = (t \div SECS_PER_DAY) * SECS_PER_DAY
                + ((t \div SECS_PER_HOUR) % HOURS_PER_DAY) * SECS_PER_HOUR
                + ((t \div SECS_PER_MIN) % MINS_PER_HOUR) * SECS_PER_MIN
                + (t % SECS_PER_MIN)
<1> DEFINE mins  == t \div SECS_PER_MIN
           hours == t \div SECS_PER_HOUR
           days  == t \div SECS_PER_DAY
           s == t % SECS_PER_MIN
           m == mins % MINS_PER_HOUR
           h == hours % HOURS_PER_DAY
<1>1. mins \in Nat /\ s \in 0..(SECS_PER_MIN - 1) /\ t = SECS_PER_MIN * mins + s
  BY Units, Division
<1>2. hours = mins \div MINS_PER_HOUR /\ days = hours \div HOURS_PER_DAY
  BY Units, DivideTwice DEF SECS_PER_HOUR, SECS_PER_DAY
<1> HIDE DEF mins
<1>3. hours \in Nat /\ m \in 0..(MINS_PER_HOUR - 1) /\ mins = MINS_PER_HOUR * hours + m
  BY <1>1, <1>2, Units, Division
<1> HIDE DEF hours
<1> HIDE DEF days
<1>4. days \in Nat /\ h \in 0..(HOURS_PER_DAY - 1) /\ hours = HOURS_PER_DAY * days + h
  <2>1. /\ hours \div HOURS_PER_DAY \in Nat /\ h \in 0..(HOURS_PER_DAY - 1)
        /\ hours = HOURS_PER_DAY * (hours \div HOURS_PER_DAY) + h
    BY <1>3, Units, Division
  <2>. QED
    BY <1>2, <2>1
<1> HIDE DEF s, m, h
<1>5. SECS_PER_HOUR * hours = days * SECS_PER_DAY + h * SECS_PER_HOUR
  <2>1. SECS_PER_HOUR * (HOURS_PER_DAY * days + h)
          = SECS_PER_HOUR * (HOURS_PER_DAY * days) + SECS_PER_HOUR * h
    BY <1>4, Units
  <2>2. SECS_PER_HOUR * (HOURS_PER_DAY * days) = days * (SECS_PER_HOUR * HOURS_PER_DAY)
    BY <1>4, Units
  <2>3. SECS_PER_HOUR * h = h * SECS_PER_HOUR
    BY <1>4, Units
  <2>. QED
    BY <1>4, <2>1, <2>2, <2>3 DEF SECS_PER_DAY
<1>6. SECS_PER_MIN * mins = SECS_PER_HOUR * hours + m * SECS_PER_MIN
  <2>1. SECS_PER_MIN * (MINS_PER_HOUR * hours + m)
          = SECS_PER_MIN * (MINS_PER_HOUR * hours) + SECS_PER_MIN * m
    BY <1>3, Units
  <2>2. SECS_PER_MIN * (MINS_PER_HOUR * hours) = (SECS_PER_MIN * MINS_PER_HOUR) * hours
    BY <1>3, Units
  <2>3. SECS_PER_MIN * m = m * SECS_PER_MIN
    BY <1>3, Units
  <2>. QED
    BY <1>3, <2>1, <2>2, <2>3 DEF SECS_PER_HOUR
<1>7. days * SECS_PER_DAY \in Nat /\ h * SECS_PER_HOUR \in Nat /\ m * SECS_PER_MIN \in Nat
  BY <1>1, <1>3, <1>4, Units
<1>8. t = days * SECS_PER_DAY + h * SECS_PER_HOUR + m * SECS_PER_MIN + s
  <2> DEFINE a == days * SECS_PER_DAY
             b == h * SECS_PER_HOUR
             c == m * SECS_PER_MIN
             d == SECS_PER_MIN * mins
             e == SECS_PER_HOUR * hours
  <2>1. a \in Nat /\ b \in Nat /\ c \in Nat /\ s \in Nat /\ t = d + s /\ d = e + c /\ e = a + b
    BY <1>1, <1>5, <1>6, <1>7
  <2>. HIDE DEF a, b, c, d, e
  <2>2. t = a + b + c + s
    BY <2>1
  <2>. QED
    BY <2>2 DEF a, b, c
<1>. QED
  BY <1>1, <1>3, <1>4, <1>8 DEF days, s, m, h, hours, mins

\* breakTime finds the year and the day of a time that the table reaches.
LEMMA TheYear ==
  ASSUME NEW days \in Nat, days < DaysToYear[LastYear + 2]
  PROVE  LET year == FirstBeyond(DaysToYear, days) - 2
             day  == days - DaysToYear[year + 1]
         IN  /\ year \in 0..LastYear
             /\ day \in 0..(YearLength(year) - 1)
             /\ days = year * 365 + LeapsBefore(year) + day
<1> DEFINE i == FirstBeyond(DaysToYear, days)
           y == i - 2
<1>1. LastYear + 2 \in Nat /\ LastYear + 2 \in 1..(LastYear + 2)
  BY Units
<1>2. \A k \in 1..(LastYear + 2) : DaysToYear[k] \in Nat
  <2>1. ASSUME NEW k \in 1..(LastYear + 2)
        PROVE  DaysToYear[k] \in Nat
    <3>1. k - 1 \in 0..(LastYear + 1)
      BY Units
    <3>2. DaysToYear[(k - 1) + 1] \in Nat
      BY <3>1, TheYears
    <3>. QED
      BY <3>2
  <2>. QED
    BY <2>1
<1>3. i \in 2..(LastYear + 2) /\ DaysToYear[i] > days /\ DaysToYear[i - 1] <= days
  BY <1>1, <1>2, TheYears, FirstBeyondIs
<1> HIDE DEF i
<1>4. y \in 0..LastYear /\ y + 1 \in 0..(LastYear + 1) /\ y \in 0..(LastYear + 1)
      /\ (y + 1) + 1 = i /\ y + 1 = i - 1
  BY <1>3, Units
<1>5. DaysToYear[y + 1] = y * 365 + LeapsBefore(y) /\ DaysToYear[y + 1] \in Nat
  BY <1>4, TheYears
<1>6. DaysToYear[i] = (y + 1) * 365 + LeapsBefore(y + 1) /\ DaysToYear[i] \in Nat
  BY <1>4, TheYears
<1> HIDE DEF y
<1>7. y \in Nat /\ YearLength(y) \in Nat
  BY <1>4 DEF YearLength
<1>8. LeapsBefore(y) \in Nat /\ LeapsBefore(y + 1) = LeapsBefore(y) + (YearLength(y) - 365)
  BY <1>7, NextLeap
<1>9. DaysToYear[y + 1] <= days
  BY <1>3, <1>4
<1>10. days - DaysToYear[y + 1] \in 0..(YearLength(y) - 1)
  BY <1>3, <1>5, <1>6, <1>7, <1>8, <1>9
<1>11. days = y * 365 + LeapsBefore(y) + (days - DaysToYear[y + 1])
  BY <1>5, <1>7, <1>8
<1>. QED
  BY <1>4, <1>10, <1>11 DEF y, i

\* And the month, and the day of the month.
LEMMA TheMonth ==
  ASSUME NEW y, NEW day \in 0..(YearLength(y) - 1)
  PROVE  LET start == DaysToMonth[LEAP_YEAR(y)]
             month == FirstBeyond(start, day) - 1
         IN  month \in 1..12 /\ start[month] \in 0..day
<1> DEFINE start == DaysToMonth[LEAP_YEAR(y)]
           i == FirstBeyond(start, day)
<1>1. DOMAIN start = 1..13 /\ \A k \in 1..13 : start[k] \in Nat
  BY TheMonths
<1>2. start[1] = 0 /\ start[13] = YearLength(y)
  BY TheMonths
<1> HIDE DEF start
<1>3. YearLength(y) \in Nat
  BY DEF YearLength
<1>4. i \in 2..13 /\ start[i - 1] <= day
  <2>1. 13 \in Nat /\ 13 \in 1..13 /\ day \in Nat /\ start[13] > day /\ start[1] <= day
    BY <1>2, <1>3
  <2>. HIDE DEF i
  <2>. QED
    BY <1>1, <2>1, FirstBeyondIs DEF i
<1>5. i - 1 \in 1..12 /\ start[i - 1] \in 0..day
  BY <1>1, <1>4
<1>. QED
  BY <1>5 DEF start

\* The fields of a date, with the year as a distance from 1970.
Dated ==
  [Second : 0..(SECS_PER_MIN - 1), Minute : 0..(MINS_PER_HOUR - 1), Hour : 0..(HOURS_PER_DAY - 1),
   Wday : 1..DAYS_PER_WEEK, Year : 0..LastYear, Month : 1..12, Day : 1..366]

\* breakTime makes a date of every time that the table of years reaches, and makeTime
\* gives that time back.
THEOREM DatesAndBack ==
  ASSUME NEW t \in Nat, InYears(t)
  PROVE  breakTime(t) \in Dated /\ makeTime(breakTime(t)) = t
<1> DEFINE days  == t \div SECS_PER_DAY
           year  == FirstBeyond(DaysToYear, days) - 2
           start == DaysToMonth[LEAP_YEAR(year)]
           day   == days - DaysToYear[year + 1]
           month == FirstBeyond(start, day) - 1
           hour  == (t \div SECS_PER_HOUR) % HOURS_PER_DAY
           minute == (t \div SECS_PER_MIN) % MINS_PER_HOUR
           second == t % SECS_PER_MIN
           mday  == (day - start[month]) + 1
<1>1. /\ days \in Nat /\ second \in 0..(SECS_PER_MIN - 1)
      /\ minute \in 0..(MINS_PER_HOUR - 1) /\ hour \in 0..(HOURS_PER_DAY - 1)
      /\ t = days * SECS_PER_DAY + hour * SECS_PER_HOUR + minute * SECS_PER_MIN + second
  BY TimeOfDay
<1>2. /\ year \in 0..LastYear /\ day \in 0..(YearLength(year) - 1)
      /\ days = year * 365 + LeapsBefore(year) + day
  BY <1>1, TheYear DEF InYears
<1>3. month \in 1..12 /\ start[month] \in 0..day
  BY <1>2, TheMonth
<1>4. breakTime(t) = [Second |-> second, Minute |-> minute, Hour |-> hour, Wday |-> dayOfWeek(t),
                       Year |-> year, Month |-> month, Day |-> mday]
  BY DEF breakTime
<1>5. dayOfWeek(t) \in 1..DAYS_PER_WEEK
  BY <1>1 DEF dayOfWeek, DAYS_PER_WEEK
<1> HIDE DEF days, year, start, day, month, hour, minute, second, mday
<1>6. mday \in 1..366 /\ start[month] + mday - 1 = day
  <2>1. YearLength(year) \in {365, 366}
    BY DEF YearLength
  <2>2. day \in 0..365
    BY <1>2, <2>1
  <2> DEFINE first == start[month]
  <2>3. first \in 0..day
    BY <1>3
  <2>4. mday = (day - first) + 1
    BY DEF mday
  <2>. HIDE DEF first
  <2>5. mday \in 1..366 /\ first + (mday - 1) = day
    BY <2>2, <2>3, <2>4
  <2>. QED
    BY <2>5 DEF first
<1>7. breakTime(t) \in Dated
  BY <1>1, <1>2, <1>3, <1>4, <1>5, <1>6 DEF Dated
<1>8. makeTime(breakTime(t))
        = (year * 365 + LeapsBefore(year) + start[month] + mday - 1) * SECS_PER_DAY
          + hour * SECS_PER_HOUR + minute * SECS_PER_MIN + second
  BY <1>4 DEF makeTime, start
<1>9. year * 365 + LeapsBefore(year) + start[month] + mday - 1 = days
  <2>1. LeapsBefore(year) \in Nat
    BY <1>2, NextLeap
  <2>. QED
    BY <1>2, <1>3, <1>6, <2>1
<1>. QED
  BY <1>1, <1>7, <1>8, <1>9

-----------------------------------------------------------------------------
(* Gprs                                                                    *)

\* What the modem's clock may hold.
Clocks == {NeverSet} \cup {Fields(t) : t \in RtcTimes}
Modems == [bearer : BOOLEAN, http : BOOLEAN, rtc : Clocks]

\* An answer that says what the time is names one that was set.
IsAnswer(a) == a.to = "+CCLK?" => a.value \in {0} \cup RtcTimes
AllAnswers(seq) == seq # <<>> => IsAnswer(seq[1])

\* An answer that comes late is still an answer to the command it was given to.
GprsInv ==
  /\ modem \in Modems
  /\ AllAnswers(late)
  /\ ReportIsItsOwn

\* A time that was set is read back, or taken for the time of a modem that was never
\* set: all the times of 2001 are.
LEMMA ReadBack ==
  ASSUME NEW f \in Clocks
  PROVE  FromFields(f) \in {0} \cup RtcTimes
<1>1. CASE f = NeverSet
  BY <1>1 DEF NeverSet, FromFields
<1>2. ASSUME NEW t \in RtcTimes, f = Fields(t)
      PROVE  FromFields(f) \in {0, t}
  <2> DEFINE fields == breakTime(t)
  <2>1. fields \in Dated /\ makeTime(fields) = t
    BY GprsAssumption, DatesAndBack
  <2>. HIDE DEF fields
  <2>2. Fields(t) = [fields EXCEPT !.Year = @ - 30]
    BY DEF Fields, fields
  <2>3. [Fields(t) EXCEPT !.Year = @ + 30] = fields
    <3>1. (fields.Year - 30) + 30 = fields.Year
      BY <2>1 DEF Dated
    <3>. QED
      BY <2>1, <2>2, <3>1 DEF Dated
  <2>. QED
    BY <1>2, <2>1, <2>3 DEF FromFields
<1>. QED
  BY <1>1, <1>2 DEF Clocks

\* What a command does to the modem.
LEMMA DoesTypes ==
  ASSUME GprsInv, NEW cmd
  PROVE  Does(cmd) \in Modems
  BY DEF GprsInv, Does, Modems

\* However a command ends, the driver gets an answer to it or to an earlier one.
LEMMA OutcomesAre ==
  ASSUME GprsInv, NEW cmd, NEW after \in Modems, NEW o \in Outcomes(cmd, after)
  PROVE  IsAnswer(o.got) /\ o.modem \in Modems /\ AllAnswers(o.late)
<1> DEFINE own == [ok |-> Accepts(cmd), to |-> cmd, value |-> Says(cmd)]
           now == IF own.ok THEN after ELSE modem
           End(got, m, rest) == [got |-> got, modem |-> m, late |-> rest]
<1>1. IsAnswer(own)
  <2>1. cmd = "+CCLK?" => Says(cmd) = FromFields(modem.rtc)
    BY DEF Says
  <2>2. modem.rtc \in Clocks
    BY DEF GprsInv, Modems
  <2>3. cmd = "+CCLK?" => Says(cmd) \in {0} \cup RtcTimes
    BY <2>1, <2>2, ReadBack
  <2>. QED
    BY <2>3 DEF IsAnswer
<1>2. IsAnswer(Silence)
  BY DEF Silence, IsAnswer
<1>3. now \in Modems /\ modem \in Modems /\ AllAnswers(late)
  BY DEF GprsInv
<1>4. late # <<>> => IsAnswer(late[1])
  BY <1>3 DEF AllAnswers
<1>5. AllAnswers(<<own>>) /\ AllAnswers(<<>>)
  BY <1>1 DEF AllAnswers
<1> HIDE DEF own, now
<1>6. \/ o = End(own, now, <<>>)
      \/ late # <<>> /\ \E rest \in {<<>>, <<own>>} : o = End(late[1], now, rest)
      \/ o = End(Silence, now, <<own>>)
      \/ \E m \in {modem, now} : o = End(Silence, m, late)
  BY DEF Outcomes, own, now
<1>. QED
  BY <1>1, <1>2, <1>3, <1>4, <1>5, <1>6

\* A command was sent, and has ended in one of the ways it may.
Sends(cmd, after) ==
  \E o \in Outcomes(cmd, after) : modem' = o.modem /\ late' = o.late

\* The exchange leaves the modem and what is late as they may be.
LEMMA SendsKeeps ==
  ASSUME GprsInv, NEW cmd, NEW after \in Modems, Sends(cmd, after)
  PROVE  modem' \in Modems /\ AllAnswers(late')
<1>1. PICK o \in Outcomes(cmd, after) : modem' = o.modem /\ late' = o.late
  BY DEF Sends
<1>. QED
  BY <1>1, OutcomesAre

\* A query believes only an answer to itself.
LEMMA QueryKeeps ==
  ASSUME GprsInv, NEW cmd, Query(cmd)
  PROVE  GprsInv'
<1>1. PICK o \in Outcomes(cmd, Does(cmd)) :
        /\ modem' = o.modem /\ late' = o.late
        /\ report' = IF Understands(cmd, o.got)
                     THEN [asked |-> cmd, to |-> o.got.to, value |-> o.got.value]
                     ELSE [asked |-> cmd, to |-> cmd, value |-> 0]
  BY DEF Query, ATcommand, Exchange
<1>2. IsAnswer(o.got) /\ o.modem \in Modems /\ AllAnswers(o.late)
  BY DoesTypes, OutcomesAre
<1>3. ReportIsItsOwn'
  <2>1. CASE Understands(cmd, o.got)
    BY <1>1, <1>2, <2>1 DEF Understands, Scans, ReportIsItsOwn, IsAnswer
  <2>2. CASE ~Understands(cmd, o.got)
    BY <1>1, <2>2 DEF ReportIsItsOwn
  <2>. QED
    BY <2>1, <2>2
<1>. QED
  BY <1>1, <1>2, <1>3 DEF GprsInv

\* The commands that are no query.
LEMMA CommandKeeps ==
  ASSUME GprsInv, NEW cmd, NEW after \in Modems, Sends(cmd, after),
         UNCHANGED report
  PROVE  GprsInv'
<1>1. modem' \in Modems /\ AllAnswers(late')
  BY SendsKeeps
<1>2. ReportIsItsOwn'
  BY DEF GprsInv, ReportIsItsOwn
<1>. QED
  BY <1>1, <1>2 DEF GprsInv

\* The modem was never set, and nothing was asked.
LEMMA GprsInitInv == GprsInit => GprsInv
  BY DEF GprsInit, GprsInv, Modems, Clocks, AllAnswers, ReportIsItsOwn

\* Every step keeps the invariant.
LEMMA GprsStep ==
  ASSUME GprsInv, [GprsNext]_gprsVars
  PROVE  GprsInv'
<1>1. CASE startNetwork \/ httpGET \/ HttpNoReply \/ Calm \/ UNCHANGED gprsVars
  BY <1>1 DEF startNetwork, httpGET, HttpNoReply, Calm, gprsVars, GprsInv, AllAnswers, ReportIsItsOwn
<1>2. CASE stopNetwork
  <2>1. Sends("+SAPBR=0,1", Does("+SAPBR=0,1")) /\ UNCHANGED report
    BY <1>2 DEF stopNetwork, ATcommand, Exchange, Sends
  <2>. QED
    BY <2>1, DoesTypes, CommandKeeps
<1>3. CASE Configure
  <2>1. \E cmd : Sends(cmd, Does(cmd)) /\ UNCHANGED report
    BY <1>3 DEF Configure, ATcommand, Exchange, Sends
  <2>. QED
    BY <2>1, DoesTypes, CommandKeeps
<1>4. CASE OpenBearer
  <2>1. Sends("+SAPBR=1,1", Does("+SAPBR=1,1")) /\ UNCHANGED report
    BY <1>4 DEF OpenBearer, ATcommand, Exchange, Sends
  <2>. QED
    BY <2>1, DoesTypes, CommandKeeps
<1>5. CASE Registered \/ checkNetwork
  <2>1. Sends("+SAPBR=2,1", Does("+SAPBR=2,1")) /\ UNCHANGED report
    BY <1>5 DEF Registered, checkNetwork, ATcommand, Exchange, Sends
  <2>. QED
    BY <2>1, DoesTypes, CommandKeeps
<1>6. CASE GetMyIP \/ getSignalQualityReport \/ RTCget
  BY <1>6, QueryKeeps DEF GetMyIP, getSignalQualityReport, RTCget
<1>7. CASE RTCset
  <2>1. PICK t \in RtcTimes :
          Sends("+CCLK=", [modem EXCEPT !.rtc = Fields(t)]) /\ UNCHANGED report
    BY <1>7 DEF RTCset, Exchange, Sends
  <2>2. [modem EXCEPT !.rtc = Fields(t)] \in Modems
    BY DEF GprsInv, Modems, Clocks
  <2>. QED
    BY <2>1, <2>2, CommandKeeps
<1>8. CASE HttpTerm \/ HttpClose
  <2>1. Sends("+HTTPTERM", Does("+HTTPTERM")) /\ UNCHANGED report
    BY <1>8 DEF HttpTerm, HttpClose, ATcommand, Exchange, Sends
  <2>. QED
    BY <2>1, DoesTypes, CommandKeeps
<1>9. CASE HttpInit \/ HttpInitAgain
  <2>1. Sends("+HTTPINIT", Does("+HTTPINIT")) /\ UNCHANGED report
    BY <1>9 DEF HttpInit, HttpInitAgain, ATcommand, Exchange, Sends
  <2>. QED
    BY <2>1, DoesTypes, CommandKeeps
<1>10. CASE HttpAction
  <2>1. \E cmd : Sends(cmd, Does(cmd)) /\ UNCHANGED report
    BY <1>10 DEF HttpAction, ATcommand, Exchange, Sends
  <2>. QED
    BY <2>1, DoesTypes, CommandKeeps
<1>11. CASE HttpReply
  <2>1. AllAnswers(<<>>) /\ AllAnswers(<<Rest>>)
    BY DEF Rest, AllAnswers, IsAnswer
  <2>2. late' = <<>> \/ late' = <<Rest>>
    BY <1>11 DEF HttpReply
  <2>. QED
    BY <1>11, <2>1, <2>2 DEF HttpReply, GprsInv, ReportIsItsOwn
<1>12. CASE Restart \/ BearerDrops
  <2>1. modem' \in Modems /\ UNCHANGED report
    BY <1>12 DEF Restart, BearerDrops, GprsInv, Modems
  <2>2. late' = <<>> \/ late' = late
    BY <1>12 DEF Restart, BearerDrops
  <2>. QED
    BY <2>1, <2>2 DEF GprsInv, AllAnswers, ReportIsItsOwn
<1>. QED
  BY <1>1, <1>2, <1>3, <1>4, <1>5, <1>6, <1>7, <1>8, <1>9, <1>10, <1>11, <1>12
     DEF GprsNext, GprsWork, Stops

\* What a query reports is the modem's answer to that very question, however late the
\* answers come and whichever of them take each other's place.
THEOREM ReportsAreTheirOwn == GprsSpec => []ReportIsItsOwn
<1>1. GprsInv => ReportIsItsOwn
  BY DEF GprsInv
<1>. QED
  BY GprsInitInv, GprsStep, <1>1, PTL DEF GprsSpec

-----------------------------------------------------------------------------
(* Clock                                                                   *)

\* What any whole number leaves when it is divided.
LEMMA Remainder ==
  ASSUME NEW t \in Int, NEW d \in Nat, d > 0
  PROVE  t \div d \in Int /\ t % d \in 0..(d - 1) /\ t = d * (t \div d) + (t % d)
  BY Z3

\* Numbers that are whole turns of a counter apart leave the same.
LEMMA WholeTurns ==
  ASSUME NEW m \in Nat, m > 0, NEW t \in Int, NEW k \in Int
  PROVE  (t + m * k) % m = t % m
<1> DEFINE q == t \div m
           r == t % m
<1>1. q \in Int /\ r \in 0..(m - 1) /\ t = m * q + r
  BY Remainder
<1> HIDE DEF q, r
<1>2. m * (q + k) = m * q + m * k
  BY <1>1
<1>3. m * q \in Int /\ m * k \in Int
  BY <1>1
<1>4. t + m * k = m * (q + k) + r
  BY <1>1, <1>2, <1>3
<1>5. (m * (q + k) + r) % m = r
  BY <1>1, QuotientIs
<1>. QED
  BY <1>4, <1>5 DEF r

\* The units of the clock.
LEMMA ClockUnits ==
  /\ MillisPerSecond \in Nat /\ MillisPerSecond > 0
  /\ MillisMod \in Nat /\ MillisPerSecond < MillisMod
  BY ClockAssumption

\* The milliseconds since prevMillis, when millis() has turned any number of times.
Gap(r, p) == ((r % MillisMod) - p) % MillisMod

\* They are the time that passed, less whole turns.
LEMMA GapIs ==
  ASSUME NEW r \in Int, NEW p \in Int
  PROVE  Gap(r, p) = (r - p) % MillisMod /\ Gap(r, p) \in 0..(MillisMod - 1)
<1> DEFINE m == MillisMod
           k == r \div m
           s == r % m
<1>1. m \in Nat /\ m > 0
  BY ClockUnits
<1>2. k \in Int /\ s \in 0..(m - 1) /\ r = m * k + s
  BY <1>1, Remainder
<1> HIDE DEF k, s, m
<1>3. m * k \in Int /\ s - p \in Int
  BY <1>1, <1>2
<1>4. r - p = (s - p) + m * k
  BY <1>2, <1>3
<1>5. ((s - p) + m * k) % m = (s - p) % m
  BY <1>1, <1>2, <1>3, WholeTurns
<1>6. (s - p) % m \in 0..(m - 1)
  BY <1>1, <1>3, Remainder
<1>. QED
  BY <1>4, <1>5, <1>6 DEF Gap, s, m

\* A remainder is not changed by taking it, and what is added to prevMillis is added to
\* what was there before the turns.
LEMMA GapMoves ==
  ASSUME NEW r \in Int, NEW p \in Int, NEW n \in Int,
         n <= Gap(r, p), Gap(r, p) - n < MillisMod
  PROVE  /\ Gap(r, (p + n) % MillisMod) = Gap(r, p) - n
         /\ (p + n) % MillisMod \in 0..(MillisMod - 1)
<1> DEFINE m == MillisMod
           g == Gap(r, p)
           k == (p + n) \div m
           s == (p + n) % m
           j == (r - p) \div m
<1>1. m \in Nat /\ m > 0
  BY ClockUnits
<1>2. k \in Int /\ s \in 0..(m - 1) /\ p + n = m * k + s
  BY <1>1, Remainder
<1>3. g \in 0..(m - 1) /\ g = (r - p) % m
  BY GapIs
<1>4. j \in Int /\ r - p = m * j + ((r - p) % m)
  BY <1>1, Remainder
<1>5. Gap(r, s) = (r - s) % m
  BY <1>2, GapIs
<1>6. g - n \in Nat /\ g - n < m
  BY <1>3, <1>1
<1> HIDE DEF k, s, m, g, j
<1>7. m * k \in Int /\ m * j \in Int /\ m * (j + k) = m * j + m * k
  BY <1>1, <1>2, <1>4
<1>8. r - s = m * (j + k) + (g - n)
  BY <1>2, <1>3, <1>4, <1>6, <1>7
<1>9. (m * (j + k) + (g - n)) % m = g - n
  BY <1>1, <1>2, <1>4, <1>6, QuotientIs
<1>. QED
  BY <1>2, <1>5, <1>8, <1>9 DEF m, s, g

\* A millisecond more.
LEMMA GapGrows ==
  ASSUME NEW r \in Int, NEW p \in Int, Gap(r, p) < MillisMod - 1
  PROVE  Gap(r + 1, p) = Gap(r, p) + 1
<1> DEFINE m == MillisMod
           g == Gap(r, p)
           j == (r - p) \div m
<1>1. m \in Nat /\ m > 0
  BY ClockUnits
<1>2. g \in 0..(m - 1) /\ g = (r - p) % m
  BY GapIs
<1>3. j \in Int /\ r - p = m * j + ((r - p) % m)
  BY <1>1, Remainder
<1>4. Gap(r + 1, p) = ((r + 1) - p) % m
  BY GapIs
<1>5. g + 1 < m
  BY <1>1, <1>2
<1> HIDE DEF m, g, j
<1>6. m * j \in Int
  BY <1>1, <1>3
<1>7. (r + 1) - p = m * j + (g + 1)
  BY <1>2, <1>3, <1>6
<1>8. (m * j + (g + 1)) % m = g + 1
  BY <1>1, <1>2, <1>3, <1>5, QuotientIs
<1>. QED
  BY <1>4, <1>7, <1>8 DEF m, g

\* The clock's variables.
Clks == [sys : Nat, prev : 0..(MillisMod - 1), interval : Nat, provider : BOOLEAN, nextSync : Int,
         status : {"timeNotSet", "timeNeedsSync", "timeSet"}]

\* The time a clock shows, in milliseconds.
Shows(c) == c.sys * MillisPerSecond + Gap(real, c.prev)

\* now() moves whole seconds and keeps the rest.
LEMMA CountedKeeps ==
  ASSUME NEW c \in Clks, real \in Nat
  PROVE  /\ Counted(c) \in Clks /\ Shows(Counted(c)) = Shows(c)
         /\ Gap(real, Counted(c).prev) < MillisPerSecond
<1> DEFINE e == Gap(real, c.prev)
           s == MillisPerSecond
           n == e \div s
           d == [c EXCEPT !.sys = @ + n, !.prev = (@ + n * s) % MillisMod]
<1>1. c.sys \in Nat /\ c.prev \in Int /\ e \in 0..(MillisMod - 1)
  <2>1. c.sys \in Nat /\ c.prev \in 0..(MillisMod - 1)
    BY DEF Clks
  <2>2. c.prev \in Int /\ real \in Int
    BY <2>1
  <2>. QED
    BY <2>1, <2>2, GapIs
<1>2. n \in Nat /\ e % s \in 0..(s - 1) /\ e = s * n + (e % s)
  BY <1>1, ClockUnits, Division
<1>3. Counted(c) = d
  BY DEF Counted, Elapsed, millis, Gap
<1> HIDE DEF e, n, s
<1>4. n * s = s * n /\ n * s \in Int
  BY <1>2, ClockUnits DEF s
<1>5. e - n * s = e % s
  BY <1>1, <1>2, <1>4
<1>6. n * s <= e /\ e - n * s < MillisMod /\ e - n * s < s
  BY <1>1, <1>2, <1>4, <1>5, ClockUnits DEF s
<1>7. /\ Gap(real, (c.prev + n * s) % MillisMod) = e - n * s
      /\ (c.prev + n * s) % MillisMod \in 0..(MillisMod - 1)
  BY <1>1, <1>4, <1>6, GapMoves DEF e
<1>8. d.sys = c.sys + n /\ d.prev = (c.prev + n * s) % MillisMod
  BY DEF Clks
<1>9. d \in Clks
  <2> DEFINE p == (c.prev + n * s) % MillisMod
  <2>1. p \in 0..(MillisMod - 1) /\ c.sys + n \in Nat
    BY <1>1, <1>2, <1>7
  <2>. HIDE DEF p
  <2>2. [c EXCEPT !.sys = c.sys + n, !.prev = p] \in Clks
    BY <2>1 DEF Clks
  <2>. QED
    BY <2>2 DEF p
<1>10. (c.sys + n) * s = c.sys * s + n * s /\ c.sys * s \in Int
  BY <1>1, <1>2, ClockUnits DEF s
<1>11. (c.sys + n) * s + (e - n * s) = c.sys * s + e
  BY <1>1, <1>4, <1>10
<1> HIDE DEF d
<1>12. Shows(d) = Shows(c)
  BY <1>7, <1>8, <1>11 DEF Shows, e, s
<1>. QED
  BY <1>3, <1>6, <1>7, <1>8, <1>9, <1>12 DEF s

\* A clock that is set shows the time it is set to, from this millisecond on.
LEMMA SetClockIs ==
  ASSUME NEW c \in Clks, NEW t \in Nat, real \in Nat
  PROVE  /\ SetClock(c, t) \in Clks /\ SetClock(c, t).sys = t
         /\ Gap(real, SetClock(c, t).prev) = 0
<1> DEFINE m == MillisMod
           p == real % m
<1>1. m \in Nat /\ m > 0 /\ p \in 0..(m - 1)
  BY ClockUnits, Remainder
<1>2. SetClock(c, t) \in Clks /\ SetClock(c, t).sys = t /\ SetClock(c, t).prev = p
  <2>1. t + c.interval \in Int
    BY DEF Clks
  <2>. HIDE DEF p
  <2> DEFINE d == [c EXCEPT !.sys = t, !.nextSync = t + c.interval, !.status = "timeSet",
                            !.prev = p]
  <2>2. d \in Clks /\ d.sys = t /\ d.prev = p
    BY <1>1, <2>1 DEF Clks
  <2>. QED
    BY <2>2 DEF SetClock, millis, p
<1>3. p - p = 0
  BY <1>1
<1>4. 0 % m = 0
  <2>1. m * 0 + 0 = 0
    BY <1>1
  <2>2. (m * 0 + 0) % m = 0
    <3>. HIDE DEF m
    <3>. QED
      BY <1>1, QuotientIs
  <2>. QED
    BY <2>1, <2>2
<1>. QED
  BY <1>2, <1>3, <1>4 DEF Gap

\* Whatever now() does, it shows the time it showed, or the provider's.
LEMMA NowShows ==
  ASSUME NEW c \in Clks, real \in Nat, NEW answer \in Answers(c)
  PROVE  /\ Now(c, answer) \in Clks
         /\ Gap(real, Now(c, answer).prev) < MillisPerSecond
         /\ answer \in Nat /\ (answer # 0 => AsksProvider(c))
         /\ Shows(Now(c, answer)) =
              IF AsksProvider(c) /\ answer # 0 THEN answer * MillisPerSecond ELSE Shows(c)
<1> DEFINE a == Counted(c)
<1>1. a \in Clks /\ Shows(a) = Shows(c) /\ Gap(real, a.prev) < MillisPerSecond
  BY CountedKeeps
<1>2. answer \in Nat /\ (answer # 0 => AsksProvider(c))
  BY DEF Answers
<1> HIDE DEF a
<1>3. CASE ~AsksProvider(c)
  BY <1>1, <1>3, <1>2 DEF Now, a
<1>4. CASE AsksProvider(c) /\ answer # 0
  <2>1. Now(c, answer) = SetClock(a, answer)
    BY <1>4 DEF Now, a
  <2>2. /\ SetClock(a, answer) \in Clks /\ SetClock(a, answer).sys = answer
        /\ Gap(real, SetClock(a, answer).prev) = 0
    BY <1>1, <1>2, SetClockIs
  <2>3. Shows(SetClock(a, answer)) = answer * MillisPerSecond
    BY <2>2, <1>2, ClockUnits DEF Shows
  <2>. QED
    BY <1>2, <1>4, <2>1, <2>2, <2>3, ClockUnits
<1>5. CASE AsksProvider(c) /\ answer = 0
  <2> DEFINE b == [a EXCEPT !.nextSync = a.sys + a.interval,
                            !.status = IF @ = "timeNotSet" THEN @ ELSE "timeNeedsSync"]
  <2>1. Now(c, answer) = b
    BY <1>5 DEF Now, a
  <2>2. b \in Clks /\ b.sys = a.sys /\ b.prev = a.prev
    <3>1. a.sys + a.interval \in Int
      BY <1>1 DEF Clks
    <3>. QED
      BY <1>1, <3>1 DEF Clks
  <2>. HIDE DEF b
  <2>3. Shows(b) = Shows(a)
    BY <2>2 DEF Shows
  <2>. QED
    BY <1>1, <1>2, <1>5, <2>1, <2>2, <2>3
<1>. QED
  BY <1>3, <1>4, <1>5

\* Dates that setTime is called with are after 1970.
LEMMA DatesAreTimes ==
  ASSUME NEW d \in Dates, NEW w
  PROVE  makeTime([d EXCEPT !.Year = YearSince1970(@), !.Wday = w]) \in Nat
<1> DEFINE y == YearSince1970(d.Year)
           e == [d EXCEPT !.Year = y, !.Wday = w]
           start == DaysToMonth[LEAP_YEAR(y)]
<1>1. /\ d.Second \in Nat /\ d.Minute \in Nat /\ d.Hour \in Nat
      /\ d.Month \in 1..12 /\ d.Day \in 1..31
      /\ d.Year \in Nat /\ (d.Year <= 99 \/ d.Year >= 1970)
  BY ClockAssumption
<1>2. y \in Nat
  BY <1>1 DEF YearSince1970
<1> HIDE DEF y
<1>3. /\ e.Second = d.Second /\ e.Minute = d.Minute /\ e.Hour = d.Hour
      /\ e.Month = d.Month /\ e.Day = d.Day /\ e.Year = y
  BY ClockAssumption
<1> HIDE DEF e
<1>4. start[d.Month] \in Nat
  BY <1>1, TheMonths
<1>5. LeapsBefore(y) \in Nat
  BY <1>2, NextLeap
<1> DEFINE days == y * 365 + LeapsBefore(y) + start[d.Month] + d.Day - 1
<1>6. days \in Nat
  BY <1>1, <1>2, <1>4, <1>5
<1>7. makeTime(e)
        = days * SECS_PER_DAY + d.Hour * SECS_PER_HOUR + d.Minute * SECS_PER_MIN + d.Second
  BY <1>3 DEF makeTime
<1> HIDE DEF days
<1>8. \A a, b \in Nat : a * b \in Nat
  OBVIOUS
<1>9. /\ days * SECS_PER_DAY \in Nat /\ d.Hour * SECS_PER_HOUR \in Nat
      /\ d.Minute * SECS_PER_MIN \in Nat
  BY <1>1, <1>6, <1>8, Units
<1>10. makeTime(e) \in Nat
  BY <1>1, <1>7, <1>9
<1>. QED
  BY <1>10 DEF e, y

ClockTypes ==
  real \in Nat /\ base \in Int /\ clk \in Clks /\ cacheTime \in Nat /\ refreshed \in BOOLEAN

ClockInv == ClockTypes /\ ClockIsTrue

\* The clock loses nothing: in the words of Shows.
LEMMA Loses == NoSecondLost <=> Shows(clk) = real - base
  BY DEF NoSecondLost, Shows, Gap, Elapsed, millis

\* Afterwards the clock shows its time, and less than a second of it is not counted.
JustRead == Shows(clk') = real - base' /\ Gap(real, clk'.prev) < MillisPerSecond

\* Reading the clock.
LEMMA ReadsNowShows ==
  ASSUME ClockInv, ReadsNow
  PROVE  clk' \in Clks /\ base' \in Int /\ JustRead
<1>1. real \in Nat /\ base \in Int /\ clk \in Clks /\ Shows(clk) = real - base
  BY Loses DEF ClockInv, ClockTypes, ClockIsTrue
<1>2. PICK answer \in Answers(clk) :
        /\ clk' = Now(clk, answer)
        /\ base' = IF AsksProvider(clk) /\ answer # 0
                   THEN real - answer * MillisPerSecond ELSE base
  BY DEF ReadsNow
<1> DEFINE c == Now(clk, answer)
<1>3. /\ c \in Clks /\ Gap(real, c.prev) < MillisPerSecond /\ answer \in Nat
      /\ Shows(c) = IF AsksProvider(clk) /\ answer # 0
                    THEN answer * MillisPerSecond ELSE Shows(clk)
  BY <1>1, NowShows
<1>4. answer * MillisPerSecond \in Int
  BY <1>3, ClockUnits
<1> HIDE DEF c
<1>5. base' \in Int /\ Shows(c) = real - base'
  BY <1>1, <1>2, <1>3, <1>4
<1>. QED
  BY <1>2, <1>3, <1>5 DEF JustRead, Shows, c

\* Setting it.
LEMMA SetsShows ==
  ASSUME ClockInv, NEW t \in Nat, Sets(t)
  PROVE  clk' \in Clks /\ base' \in Int /\ JustRead
<1>1. real \in Nat /\ clk \in Clks
  BY DEF ClockInv, ClockTypes
<1>2. clk' = SetClock(clk, t) /\ base' = real - t * MillisPerSecond
  BY DEF Sets
<1>3. clk' \in Clks /\ clk'.sys = t /\ Gap(real, clk'.prev) = 0
  BY <1>1, <1>2, SetClockIs
<1>4. t * MillisPerSecond \in Int
  BY ClockUnits
<1>5. base' \in Int /\ Shows(clk') = real - base'
  BY <1>1, <1>2, <1>3, <1>4 DEF Shows
<1>. QED
  BY <1>3, <1>5, ClockUnits DEF JustRead

\* Moving it.
LEMMA AdjustShows ==
  ASSUME ClockInv, adjustTime
  PROVE  clk' \in Clks /\ base' \in Int /\ Shows(clk') = real - base'
<1>1. real \in Nat /\ base \in Int /\ clk \in Clks /\ Shows(clk) = real - base
  BY Loses DEF ClockInv, ClockTypes, ClockIsTrue
<1>2. PICK d \in Drifts : /\ clk.sys + d >= 0 /\ clk' = [clk EXCEPT !.sys = @ + d]
                          /\ base' = base - d * MillisPerSecond
  BY DEF adjustTime
<1>3. d \in Int /\ clk.sys \in Nat /\ Gap(real, clk.prev) \in Int
  <2>1. clk.prev \in Int
    BY <1>1 DEF Clks
  <2>. QED
    BY <1>1, <2>1, GapIs, ClockAssumption DEF Clks
<1>4. clk' \in Clks /\ clk'.sys = clk.sys + d /\ clk'.prev = clk.prev
  BY <1>1, <1>2, <1>3 DEF Clks
<1>5. /\ (clk.sys + d) * MillisPerSecond = clk.sys * MillisPerSecond + d * MillisPerSecond
      /\ d * MillisPerSecond \in Int /\ clk.sys * MillisPerSecond \in Int
  BY <1>3, ClockUnits
<1>6. (clk.sys + d) * MillisPerSecond + Gap(real, clk.prev) = real - base'
  BY <1>1, <1>2, <1>3, <1>5 DEF Shows
<1>. QED
  BY <1>1, <1>2, <1>4, <1>5, <1>6 DEF Shows

\* Asking the provider for the first time.
LEMMA ProviderShows ==
  ASSUME ClockInv, setSyncProvider
  PROVE  clk' \in Clks /\ base' \in Int /\ JustRead
<1> DEFINE due == [clk EXCEPT !.provider = TRUE, !.nextSync = clk.sys]
<1>1. real \in Nat /\ base \in Int /\ clk \in Clks /\ Shows(clk) = real - base
  BY Loses DEF ClockInv, ClockTypes, ClockIsTrue
<1>2. PICK answer \in Answers(due) :
        /\ clk' = Now(due, answer)
        /\ base' = IF answer # 0 THEN real - answer * MillisPerSecond ELSE base
  BY DEF setSyncProvider
<1>3. due \in Clks /\ due.sys = clk.sys /\ due.prev = clk.prev
  <2>1. clk.sys \in Int
    BY <1>1 DEF Clks
  <2>. QED
    BY <1>1, <2>1 DEF Clks
<1>4. Shows(due) = Shows(clk)
  BY <1>3 DEF Shows
<1> HIDE DEF due
<1> DEFINE c == Now(due, answer)
<1>5. /\ c \in Clks /\ Gap(real, c.prev) < MillisPerSecond
      /\ answer \in Nat /\ (answer # 0 => AsksProvider(due))
      /\ Shows(c) = IF AsksProvider(due) /\ answer # 0
                    THEN answer * MillisPerSecond ELSE Shows(due)
  BY <1>1, <1>3, NowShows
<1>6. answer * MillisPerSecond \in Int
  BY <1>5, ClockUnits
<1> HIDE DEF c
<1>7. base' \in Int /\ Shows(c) = real - base'
  BY <1>1, <1>2, <1>4, <1>5, <1>6
<1>. QED
  BY <1>2, <1>5, <1>7 DEF JustRead, Shows, c

\* The clock keeps its promise when it shows the right time and the cache is left.
LEMMA ClockShows ==
  ASSUME ClockInv, clk' \in Clks, base' \in Int, Shows(clk') = real - base',
         UNCHANGED <<real, tm, cacheTime, refreshed>>
  PROVE  ClockInv'
<1>1. ClockTypes'
  BY DEF ClockInv, ClockTypes
<1>2. NoSecondLost'
  BY DEF NoSecondLost, Elapsed, millis, Shows, Gap
<1>3. CacheIsOfItsTime'
  BY DEF ClockInv, ClockIsTrue, CacheIsOfItsTime
<1>. QED
  BY <1>1, <1>2, <1>3 DEF ClockInv, ClockIsTrue

\* Power-on.
LEMMA ClockStarts == ClockInit => ClockInv
<1>1. SUFFICES ASSUME ClockInit PROVE ClockInv
  OBVIOUS
<1>2. PICK t \in {0} \cup Times :
        /\ clk = [sys |-> t, prev |-> 0, interval |-> FirstInterval, provider |-> FALSE,
                   nextSync |-> IF t = 0 THEN 0 ELSE t + FirstInterval,
                   status |-> IF t = 0 THEN "timeNotSet" ELSE "timeSet"]
        /\ base = 0 - t * MillisPerSecond
  BY <1>1 DEF ClockInit
<1>3. t \in Nat /\ FirstInterval \in Nat
  BY ClockAssumption
<1>4. t * MillisPerSecond \in Int
  BY <1>3, ClockUnits
<1>5. ClockTypes
  <2> DEFINE next == IF t = 0 THEN 0 ELSE t + FirstInterval
             status == IF t = 0 THEN "timeNotSet" ELSE "timeSet"
  <2>1. next \in Int /\ status \in {"timeNotSet", "timeNeedsSync", "timeSet"}
    BY <1>3
  <2>2. 0 \in 0..(MillisMod - 1)
    BY ClockUnits
  <2>. HIDE DEF next, status
  <2>3. [sys |-> t, prev |-> 0, interval |-> FirstInterval, provider |-> FALSE,
         nextSync |-> next, status |-> status] \in Clks
    BY <1>3, <2>1, <2>2 DEF Clks
  <2>4. clk \in Clks
    BY <1>2, <2>3 DEF next, status
  <2>. QED
    <3>1. real = 0 /\ cacheTime = 0 /\ refreshed = FALSE
      BY <1>1 DEF ClockInit
    <3>2. base \in Int
      BY <1>2, <1>4
    <3>. QED
      BY <2>4, <3>1, <3>2 DEF ClockTypes
<1>6. Gap(0, 0) = 0
  <2>1. Gap(0, 0) = (0 - 0) % MillisMod /\ Gap(0, 0) \in 0..(MillisMod - 1)
    BY GapIs
  <2>2. (MillisMod * 0 + 0) % MillisMod = 0 /\ MillisMod * 0 + 0 = 0
    BY ClockUnits, QuotientIs
  <2>. QED
    BY <2>1, <2>2
<1>7. NoSecondLost
  BY <1>1, <1>2, <1>3, <1>4, <1>6 DEF ClockInit, NoSecondLost, Elapsed, millis, Gap
<1>. QED
  BY <1>1, <1>5, <1>7 DEF ClockInit, ClockInv, ClockIsTrue, CacheIsOfItsTime

\* hour(t) and the others fill the cache with the date of the time they read.
LEMMA FieldsKeep ==
  ASSUME ClockInv, timeFields
  PROVE  ClockInv'
<1>1. ReadsNow /\ refreshCache(clk'.sys) /\ real' = real
  BY DEF timeFields
<1>2. clk' \in Clks /\ base' \in Int /\ JustRead
  BY <1>1, ReadsNowShows
<1>3. clk'.sys \in Nat
  BY <1>2 DEF Clks
<1>4. CASE UNCHANGED <<tm, cacheTime, refreshed>>
  BY <1>1, <1>2, <1>4, ClockShows DEF JustRead
<1>5. CASE tm' = breakTime(clk'.sys) /\ cacheTime' = clk'.sys /\ refreshed' = TRUE
  <2>1. InYears(cacheTime') => makeTime(tm') = cacheTime'
    BY <1>3, <1>5, DatesAndBack
  <2>2. CacheIsOfItsTime'
    BY <1>5, <2>1 DEF CacheIsOfItsTime, InYears
  <2>3. NoSecondLost'
    BY <1>1, <1>2 DEF JustRead, NoSecondLost, Elapsed, millis, Shows, Gap
  <2>. QED
    BY <1>1, <1>2, <1>3, <1>5, <2>2, <2>3 DEF ClockInv, ClockTypes, ClockIsTrue
<1>. QED
  BY <1>1, <1>4, <1>5 DEF refreshCache

\* A millisecond passes.
LEMMA TickKeeps ==
  ASSUME ClockInv, Tick
  PROVE  ClockInv'
<1>1. /\ real' = real + 1 /\ UNCHANGED <<clk, tm, cacheTime, base, refreshed>>
      /\ Gap(real, clk.prev) < MillisMod - 1
  BY DEF Tick, Elapsed, millis, Gap
<1>2. real \in Nat /\ base \in Int /\ clk \in Clks /\ Shows(clk) = real - base
  BY Loses DEF ClockInv, ClockTypes, ClockIsTrue
<1>3. clk.sys \in Nat /\ clk.prev \in Int
  BY <1>2 DEF Clks
<1>4. Gap(real + 1, clk.prev) = Gap(real, clk.prev) + 1 /\ Gap(real, clk.prev) \in Int
  <2>1. real \in Int
    BY <1>2
  <2>2. Gap(real, clk.prev) \in 0..(MillisMod - 1)
    BY <1>3, <2>1, GapIs
  <2>. QED
    BY <1>1, <1>3, <2>1, <2>2, GapGrows
<1>5. clk.sys * MillisPerSecond \in Int
  BY <1>3, ClockUnits
<1>6. clk.sys * MillisPerSecond + Gap(real + 1, clk.prev) = (real + 1) - base
  BY <1>2, <1>4, <1>5 DEF Shows
<1>7. NoSecondLost'
  BY <1>1, <1>6 DEF NoSecondLost, Elapsed, millis, Gap
<1>8. ClockTypes'
  BY <1>1, <1>2 DEF ClockInv, ClockTypes
<1>. QED
  BY <1>1, <1>7, <1>8 DEF ClockInv, ClockIsTrue, CacheIsOfItsTime

\* What a sketch calls.
LEMMA ClockCallKeeps ==
  ASSUME ClockInv, ClockCall
  PROVE  ClockInv'
<1>1. CASE setTime
  <2>1. PICK t \in Times : Sets(t)
    BY <1>1 DEF setTime
  <2>2. t \in Nat
    BY ClockAssumption
  <2>. QED
    BY <1>1, <2>1, <2>2, SetsShows, ClockShows DEF setTime, JustRead
<1>2. CASE setTimeFields
  <2>1. PICK d \in Dates :
          /\ tm' = [d EXCEPT !.Year = YearSince1970(@), !.Wday = tm.Wday]
          /\ Sets(makeTime(tm')) /\ refreshed' = FALSE /\ UNCHANGED <<real, cacheTime>>
    BY <1>2 DEF setTimeFields
  <2>2. makeTime(tm') \in Nat
    BY <2>1, DatesAreTimes
  <2>3. clk' \in Clks /\ base' \in Int /\ JustRead
    BY <2>1, <2>2, SetsShows
  <2>4. NoSecondLost'
    BY <2>1, <2>3 DEF JustRead, NoSecondLost, Elapsed, millis, Shows, Gap
  <2>. QED
    BY <2>1, <2>3, <2>4 DEF ClockInv, ClockTypes, ClockIsTrue, CacheIsOfItsTime
<1>3. CASE adjustTime
  BY <1>3, AdjustShows, ClockShows DEF adjustTime
<1>4. CASE setSyncProvider
  BY <1>4, ProviderShows, ClockShows DEF setSyncProvider, JustRead
<1>5. CASE setSyncInterval
  <2>1. PICK i \in Intervals :
          /\ clk' = [clk EXCEPT !.interval = i, !.nextSync = clk.sys + i]
          /\ UNCHANGED <<real, tm, cacheTime, base, refreshed>>
    BY <1>5 DEF setSyncInterval
  <2>2. i \in Nat
    BY ClockAssumption
  <2>3. clk' \in Clks /\ clk'.sys = clk.sys /\ clk'.prev = clk.prev
    <3>1. clk \in Clks
      BY DEF ClockInv, ClockTypes
    <3>2. clk.sys + i \in Int
      BY <2>2, <3>1 DEF Clks
    <3>. QED
      BY <2>1, <2>2, <3>1, <3>2 DEF Clks
  <2>4. Shows(clk') = real - base' /\ base' \in Int
    BY <2>1, <2>3, Loses DEF ClockInv, ClockTypes, ClockIsTrue, Shows
  <2>. QED
    BY <2>1, <2>3, <2>4, ClockShows
<1>6. CASE timeFields
  BY <1>6, FieldsKeep
<1>. QED
  BY <1>1, <1>2, <1>3, <1>4, <1>5, <1>6 DEF ClockCall

-----------------------------------------------------------------------------
(* Alarms: the slots                                                       *)

SlotSet ==
  [type : Types \cup {"dtNotAllocated"}, isEnabled : BOOLEAN, isOneShot : BOOLEAN,
   value : Nat, nextTrigger : Int, handler : BOOLEAN]

Periodic(a) == a.type \in {"dtDailyAlarm", "dtWeeklyAlarm"}

\* The trigger is the one that the value says.
IsSet(a) ==
  /\ a.type = "dtExplicitAlarm" => a.nextTrigger = a.value
  /\ Periodic(a) => a.nextTrigger - a.value = PeriodStart(a, a.nextTrigger - a.value)

\* A slot is enabled only if it may be, and a trigger that was ever computed for its
\* value is kept, or forgotten.
Meant(a) ==
  /\ a.type = "dtNotAllocated" => a.nextTrigger = 0 /\ ~a.isEnabled
  /\ a.isEnabled => Usable(a)
  /\ a.nextTrigger = 0 \/ IsSet(a)

\* What is known of a slot that updateNextTrigger does not work on ("no"), is going to
\* work on ("stamp"), or works on with the time t ("compare"): the trigger itself,
TriggerOK(a, mode) ==
  /\ Meant(a)
  /\ mode # "no" => a.isEnabled
  /\ mode = "no" /\ a.isEnabled => IsSet(a)

\* the one it last fired for,
OccurrenceOK(a, last, mode, t) ==
  /\ a.type = "dtExplicitAlarm" => a.isOneShot /\ last = Never
  /\ dtIsAlarm(a.type) /\ last # Never =>
       /\ a.nextTrigger >= last
       /\ mode = "no" /\ a.isEnabled => a.nextTrigger > last
       /\ mode = "compare" => a.nextTrigger <= t

\* and the second in which a timer was started.
TimerOK(a, arm, mode, t) ==
  a.type = "dtTimer" =>
    /\ mode = "no" /\ a.isEnabled =>
         ((a.nextTrigger - a.value) + 1) * MillisPerSecond > arm.real - arm.base
    /\ mode = "compare" => (t + 1) * MillisPerSecond > arm.real - arm.base

SlotOK(a, last, arm, mode, t) ==
  /\ a \in SlotSet /\ last \in Int /\ arm \in [real : Int, base : Int]
  /\ TriggerOK(a, mode) /\ OccurrenceOK(a, last, mode, t) /\ TimerOK(a, arm, mode, t)

Updating == phase \in {"stamp", "compare"}
Mode(i) == IF Updating /\ at = i THEN phase ELSE "no"

SlotsInv ==
  /\ DOMAIN alarm = Slots /\ DOMAIN occurrence = Slots /\ DOMAIN armed = Slots
  /\ \A i \in Slots : SlotOK(alarm[i], occurrence[i], armed[i], Mode(i), time)

InHandler == phase = "handler" \/ (Updating /\ back = "handler")
InSketch == phase = "sketch" \/ (Updating /\ back = "sketch")

\* serviceAlarms is at work unless a sketch is, and there is a handler if it called one.
ServiceInv ==
  /\ phase \in {"sketch", "loop", "stamp", "compare", "call", "handler", "return"}
  /\ back \in {"sketch", "handler", "call", "return"} /\ at \in Slots /\ time \in Nat
  /\ ~Updating => back = "sketch"
  /\ depth = IF InHandler THEN 1 ELSE 0
  /\ isServicing \in BOOLEAN /\ (isServicing <=> ~InSketch)
  /\ servicedAlarmId \in 0..dtNBR_ALARMS
  /\ ~InSketch /\ phase # "loop" => servicedAlarmId \in Slots

AlarmsInv == ClockInv /\ ServiceInv /\ SlotsInv

-----------------------------------------------------------------------------
(* Alarms: midnights and Sundays                                           *)

\* The midnight of a day, and a time in a day.
LEMMA Midnights ==
  ASSUME NEW p \in Int
  PROVE  (SECS_PER_DAY * p) \div SECS_PER_DAY = p /\ (SECS_PER_DAY * p) % SECS_PER_DAY = 0
<1>1. SECS_PER_DAY \in Nat /\ SECS_PER_DAY > 0
  BY Units
<1>2. SECS_PER_DAY * p + 0 = SECS_PER_DAY * p
  BY <1>1
<1>3. (SECS_PER_DAY * p + 0) \div SECS_PER_DAY = p /\ (SECS_PER_DAY * p + 0) % SECS_PER_DAY = 0
  BY <1>1, QuotientIs
<1>. QED
  BY <1>2, <1>3

\* The Sunday of a week.
LEMMA SundayIs ==
  ASSUME NEW t \in Int
  PROVE  previousSunday(t)
           = SECS_PER_DAY * ((t \div SECS_PER_DAY) - ((t \div SECS_PER_DAY + 4) % DAYS_PER_WEEK))
<1> DEFINE d == SECS_PER_DAY
           q == t \div d
           r == t % d
           w == (q + 4) % DAYS_PER_WEEK
<1>1. d \in Nat /\ d > 0
  BY Units
<1>2. q \in Int /\ r \in 0..(d - 1) /\ t = d * q + r
  BY <1>1, Remainder
<1>3. previousSunday(t) = t - (r + ((w + 1) - 1) * d)
  BY DEF previousSunday, SundayBefore, dayOfWeek
<1> HIDE DEF d, q, r
<1>4. w \in 0..6
  BY <1>2 DEF DAYS_PER_WEEK
<1> HIDE DEF w
<1>5. (w + 1) - 1 = w
  BY <1>4
<1>6. w * d = d * w /\ d * w \in Int /\ d * q \in Int
  BY <1>1, <1>2, <1>4
<1>7. d * (q - w) = d * q - d * w
  BY <1>1, <1>2, <1>4
<1>8. previousSunday(t) = d * (q - w)
  BY <1>2, <1>3, <1>5, <1>6, <1>7
<1>. QED
  BY <1>8 DEF d, w, q

\* The start of a day or week is the start of its own period, and so is its end, which
\* is still to come.
LEMMA Periods ==
  ASSUME NEW a, Periodic(a), NEW t \in Int
  PROVE  /\ PeriodStart(a, t) \in Int /\ PeriodEnd(a, t) \in Int /\ PeriodEnd(a, t) > t
         /\ PeriodStart(a, PeriodStart(a, t)) = PeriodStart(a, t)
         /\ PeriodStart(a, PeriodEnd(a, t)) = PeriodEnd(a, t)
<1> DEFINE d == SECS_PER_DAY
           q == t \div d
           r == t % d
           w == (q + 4) % DAYS_PER_WEEK
<1>1. d \in Nat /\ d > 0
  BY Units
<1>2. q \in Int /\ r \in 0..(d - 1) /\ t = d * q + r
  BY <1>1, Remainder
<1>3. CASE a.type = "dtDailyAlarm"
  <2>1. PeriodStart(a, t) = q * d /\ PeriodEnd(a, t) = q * d + d
    BY <1>3 DEF PeriodStart, PeriodEnd, previousMidnight, nextMidnight
  <2>2. \A x \in Int : PeriodStart(a, d * x) = d * x
    <3>1. ASSUME NEW x \in Int
          PROVE  PeriodStart(a, d * x) = d * x
      <4>1. PeriodStart(a, d * x) = ((d * x) \div d) * d
        BY <1>3 DEF PeriodStart, previousMidnight
      <4>2. (d * x) \div d = x
        BY Midnights
      <4>3. x * d = d * x
        BY <1>1
      <4>. QED
        BY <4>1, <4>2, <4>3
    <3>. QED
      BY <3>1
  <2>. HIDE DEF q, r, d
  <2>3. q * d = d * q /\ d * q \in Int /\ d * (q + 1) = d * q + d
    BY <1>1, <1>2
  <2>4. PeriodStart(a, d * q) = d * q /\ PeriodStart(a, d * (q + 1)) = d * (q + 1)
    BY <1>2, <2>2
  <2>5. d * q + d \in Int /\ d * q + d > t
    BY <1>1, <1>2, <2>3
  <2>. QED
    BY <2>1, <2>3, <2>4, <2>5
<1>4. CASE a.type = "dtWeeklyAlarm"
  <2> DEFINE p == q - w
  <2>1. w \in 0..6 /\ p \in Int /\ (p + 4) % 7 = 0 /\ ((p + 7) + 4) % 7 = 0
    <3>1. w = (q + 4) % 7
      BY DEF DAYS_PER_WEEK
    <3>. HIDE DEF q, w
    <3>. QED
      BY <1>2, <3>1
  <2>2. PeriodStart(a, t) = d * p
    BY <1>4, SundayIs DEF PeriodStart
  <2>3. PeriodEnd(a, t) = d * p + d * 7
    BY <1>4, SundayIs DEF PeriodEnd, nextSunday, SECS_PER_WEEK, DAYS_PER_WEEK
  <2>4. ASSUME NEW x \in Int, (x + 4) % 7 = 0
        PROVE  PeriodStart(a, d * x) = d * x
    <3>1. d * x \in Int
      BY <1>1
    <3>2. PeriodStart(a, d * x) = d * (((d * x) \div d) - ((((d * x) \div d) + 4) % 7))
      BY <1>4, <3>1, SundayIs DEF PeriodStart, DAYS_PER_WEEK
    <3>3. (d * x) \div d = x
      BY Midnights
    <3>4. x - 0 = x
      OBVIOUS
    <3>. QED
      BY <2>4, <3>2, <3>3, <3>4
  <2>. HIDE DEF q, r, d, w, p
  <2>5. d * p \in Int /\ d * 7 \in Int /\ d * (p + 7) = d * p + d * 7 /\ p + 7 \in Int
    BY <1>1, <2>1
  <2>6. PeriodStart(a, d * p) = d * p /\ PeriodStart(a, d * (p + 7)) = d * (p + 7)
    BY <2>1, <2>4, <2>5
  <2>7. d * p + d * 7 > t
    <3>1. q = p + w
      BY <1>2, <2>1 DEF p
    <3>2. d * q = d * p + d * w
      BY <1>1, <2>1, <3>1
    <3>3. d * w <= d * 6 /\ d * w \in Int
      BY <1>1, <2>1
    <3>4. d * 7 = d * 6 + d
      BY <1>1
    <3>. QED
      BY <1>1, <1>2, <2>5, <3>2, <3>3, <3>4
  <2>. QED
    BY <2>2, <2>3, <2>5, <2>6, <2>7
<1>. QED
  BY <1>3, <1>4 DEF Periodic

-----------------------------------------------------------------------------
(* Alarms: what the operations do to a slot                                *)

LEMMA SlotFields ==
  ASSUME NEW a \in SlotSet
  PROVE  /\ a.type \in Types \cup {"dtNotAllocated"} /\ a.isEnabled \in BOOLEAN
         /\ a.isOneShot \in BOOLEAN /\ a.value \in Nat /\ a.nextTrigger \in Int
         /\ a.handler \in BOOLEAN
  BY DEF SlotSet

\* A slot that is freed promises nothing.
LEMMA FreedIsOK ==
  ASSUME NEW a \in SlotSet, NEW arm \in [real : Int, base : Int], NEW t
  PROVE  SlotOK(Freed(a), Never, arm, "no", t)
<1>1. /\ Freed(a).type = "dtNotAllocated" /\ ~Freed(a).isEnabled /\ Freed(a).nextTrigger = 0
      /\ Freed(a) \in SlotSet
  <2> DEFINE o == a.isOneShot
             b == [Unallocated EXCEPT !.isOneShot = o]
  <2>1. o \in BOOLEAN
    BY SlotFields
  <2>. HIDE DEF o
  <2>2. /\ Unallocated \in SlotSet /\ Unallocated.type = "dtNotAllocated"
        /\ ~Unallocated.isEnabled /\ Unallocated.nextTrigger = 0
    BY DEF Unallocated, SlotSet
  <2>3. /\ b.type = "dtNotAllocated" /\ ~b.isEnabled /\ b.nextTrigger = 0
        /\ b \in SlotSet
    BY <2>1, <2>2 DEF SlotSet
  <2>. QED
    BY <2>3 DEF Freed, o
<1>2. TriggerOK(Freed(a), "no")
  BY <1>1 DEF TriggerOK, Meant
<1>3. OccurrenceOK(Freed(a), Never, "no", t) /\ TimerOK(Freed(a), arm, "no", t)
  BY <1>1 DEF OccurrenceOK, TimerOK
<1>4. Never \in Int
  BY DEF Never
<1>. QED
  BY <1>1, <1>2, <1>3, <1>4 DEF SlotOK

\* A slot that is disabled promises only what it will need when it is enabled again.
LEMMA DisabledIsOK ==
  ASSUME NEW a, NEW last, NEW arm, NEW t, SlotOK(a, last, arm, "no", t)
  PROVE  SlotOK([a EXCEPT !.isEnabled = FALSE], last, arm, "no", t)
<1> DEFINE b == [a EXCEPT !.isEnabled = FALSE]
<1>1. a \in SlotSet /\ last \in Int /\ arm \in [real : Int, base : Int]
  BY DEF SlotOK
<1>2. /\ b \in SlotSet /\ b.type = a.type /\ b.nextTrigger = a.nextTrigger /\ b.value = a.value
      /\ b.isOneShot = a.isOneShot /\ b.isEnabled = FALSE
  BY <1>1 DEF SlotSet
<1> HIDE DEF b
<1>3. IsSet(a) => IsSet(b)
  BY <1>2 DEF IsSet, Periodic, PeriodStart
<1>4. TriggerOK(b, "no")
  BY <1>2, <1>3 DEF SlotOK, TriggerOK, Meant
<1>5. OccurrenceOK(b, last, "no", t)
  BY <1>2 DEF SlotOK, OccurrenceOK
<1>6. TimerOK(b, arm, "no", t)
  BY <1>2 DEF SlotOK, TimerOK
<1>. QED
  BY <1>1, <1>2, <1>4, <1>5, <1>6 DEF SlotOK, b

\* What enable is given: a slot whose trigger is that of its value, or is to be found.
Given(a, last) ==
  /\ a \in SlotSet /\ last \in Int /\ a.type # "dtNotAllocated"
  /\ a.nextTrigger = 0 \/ IsSet(a)
  /\ a.type = "dtExplicitAlarm" => a.isOneShot /\ last = Never
  /\ dtIsAlarm(a.type) /\ last # Never => a.nextTrigger >= last

\* It is enabled if it may be, and then updateNextTrigger comes.
LEMMA EnabledIsOK ==
  ASSUME NEW a, NEW last, NEW arm \in [real : Int, base : Int], NEW t, Given(a, last)
  PROVE  SlotOK([a EXCEPT !.isEnabled = Usable(a)], last, arm,
                IF Usable(a) THEN "stamp" ELSE "no", t)
<1> DEFINE u == Usable(a)
           b == [a EXCEPT !.isEnabled = u]
           mode == IF u THEN "stamp" ELSE "no"
<1>1. a \in SlotSet /\ last \in Int
  BY DEF Given
<1>2. u \in BOOLEAN
  BY <1>1, SlotFields DEF Usable
<1> HIDE DEF u
<1>3. /\ b \in SlotSet /\ b.type = a.type /\ b.nextTrigger = a.nextTrigger /\ b.value = a.value
      /\ b.isOneShot = a.isOneShot /\ b.handler = a.handler /\ b.isEnabled = u
  BY <1>1, <1>2 DEF SlotSet
<1> HIDE DEF b
<1>4. Usable(b) <=> u
  BY <1>3 DEF Usable, u
<1>5. IsSet(a) => IsSet(b)
  BY <1>3 DEF IsSet, Periodic, PeriodStart
<1>6. TriggerOK(b, mode)
  BY <1>2, <1>3, <1>4, <1>5 DEF Given, TriggerOK, Meant
<1>7. OccurrenceOK(b, last, mode, t)
  BY <1>2, <1>3 DEF Given, OccurrenceOK
<1>8. TimerOK(b, arm, mode, t)
  BY <1>2, <1>3 DEF TimerOK
<1>9. SlotOK(b, last, arm, mode, t)
  BY <1>1, <1>3, <1>6, <1>7, <1>8 DEF SlotOK
<1>. QED
  BY <1>9 DEF b, u

\* A slot that fires and stays fires for the trigger it has.
LEMMA FiredIsOK ==
  ASSUME NEW a, NEW last, NEW arm, NEW t, SlotOK(a, last, arm, "no", t),
         a.isEnabled, ~a.isOneShot
  PROVE  SlotOK(a, a.nextTrigger, arm, "stamp", t)
<1>1. a \in SlotSet /\ arm \in [real : Int, base : Int] /\ a.nextTrigger \in Int
  BY SlotFields DEF SlotOK
<1>2. TriggerOK(a, "stamp")
  BY DEF SlotOK, TriggerOK
<1>3. OccurrenceOK(a, a.nextTrigger, "stamp", t)
  BY <1>1 DEF SlotOK, OccurrenceOK
<1>4. TimerOK(a, arm, "stamp", t)
  BY DEF TimerOK
<1>. QED
  BY <1>1, <1>2, <1>3, <1>4 DEF SlotOK

\* updateNextTrigger asks for the time.
LEMMA StampedIsOK ==
  ASSUME NEW a, NEW last, NEW arm, NEW t, SlotOK(a, last, arm, "stamp", t),
         NEW s \in Nat, NEW new \in [real : Int, base : Int],
         a.type = "dtTimer" => (s + 1) * MillisPerSecond > new.real - new.base
  PROVE  SlotOK(a, IF s < a.nextTrigger THEN Never ELSE last, new, "compare", s)
<1> DEFINE o == IF s < a.nextTrigger THEN Never ELSE last
<1>1. a \in SlotSet /\ a.nextTrigger \in Int /\ last \in Int
  BY SlotFields DEF SlotOK
<1>2. o \in Int
  BY <1>1 DEF Never
<1>3. TriggerOK(a, "compare")
  BY DEF SlotOK, TriggerOK
<1>4. OccurrenceOK(a, o, "compare", s)
  BY <1>1 DEF SlotOK, OccurrenceOK
<1>5. TimerOK(a, new, "compare", s)
  BY DEF TimerOK
<1>. QED
  BY <1>1, <1>2, <1>3, <1>4, <1>5 DEF SlotOK

\* And finds the trigger.
LEMMA UpdatedIsOK ==
  ASSUME NEW a, NEW last, NEW arm, NEW start, NEW t, time \in Nat,
         SlotOK(a, last, arm, "compare", time),
         NEW new \in {last, Never},
         new # Never /\ Periodic(a) /\ a.nextTrigger <= time => start = PeriodStart(a, time)
  PROVE  SlotOK([a EXCEPT !.nextTrigger = NextTrigger(a, start)], new, arm, "no", t)
<1> DEFINE n == NextTrigger(a, start)
           b == [a EXCEPT !.nextTrigger = n]
<1>1. /\ a \in SlotSet /\ a.nextTrigger \in Int /\ a.value \in Nat /\ last \in Int
      /\ arm \in [real : Int, base : Int]
      /\ a.type \in Types \cup {"dtNotAllocated"} /\ a.isEnabled
  BY SlotFields DEF SlotOK, TriggerOK
<1>2. a.type \in Types /\ Usable(a) /\ (a.nextTrigger = 0 \/ IsSet(a))
  BY <1>1 DEF SlotOK, TriggerOK, Meant
<1>3. new \in Int
  BY <1>1 DEF Never
<1>4. Periodic(a) =>
        /\ PeriodStart(a, time) \in Int /\ PeriodEnd(a, time) \in Int
        /\ PeriodEnd(a, time) > time
        /\ PeriodStart(a, PeriodStart(a, time)) = PeriodStart(a, time)
        /\ PeriodStart(a, PeriodEnd(a, time)) = PeriodEnd(a, time)
  BY Periods
<1>5. Periodic(a) /\ a.nextTrigger <= time =>
        n = a.value + (IF Passed(a, start) THEN PeriodEnd(a, time) ELSE PeriodStart(a, time))
  BY <1>1 DEF NextTrigger, Periodic
<1>6. a.type # "dtTimer" /\ a.nextTrigger > time => n = a.nextTrigger
  BY <1>1 DEF NextTrigger
<1>7. a.type = "dtExplicitAlarm" /\ a.nextTrigger <= time => n = a.value
  BY <1>1 DEF NextTrigger
<1>8. a.type = "dtTimer" => n = time + a.value
  BY DEF NextTrigger, TimerTrigger
<1>9. \/ a.type = "dtTimer" \/ a.type = "dtExplicitAlarm" \/ Periodic(a)
  BY <1>2 DEF Types, Periodic
<1> HIDE DEF n
<1>10. n \in Int
  BY <1>1, <1>4, <1>5, <1>6, <1>7, <1>8, <1>9
<1>11. /\ b \in SlotSet /\ b.type = a.type /\ b.nextTrigger = n /\ b.value = a.value
       /\ b.isOneShot = a.isOneShot /\ b.handler = a.handler /\ b.isEnabled
  BY <1>1, <1>10 DEF SlotSet
<1> HIDE DEF b
<1>12. IsSet(b)
  <2>1. CASE a.type = "dtTimer"
    BY <1>11, <2>1 DEF IsSet, Periodic
  <2>2. CASE a.type # "dtTimer" /\ a.nextTrigger > time
    <3>1. IsSet(a) /\ n = a.nextTrigger
      BY <1>2, <1>6, <2>2
    <3>. QED
      BY <1>11, <3>1 DEF IsSet, Periodic, PeriodStart
  <2>3. CASE a.type = "dtExplicitAlarm" /\ a.nextTrigger <= time
    BY <1>7, <1>11, <2>3 DEF IsSet, Periodic
  <2>4. CASE Periodic(a) /\ a.nextTrigger <= time
    <3>1. \/ n - a.value = PeriodEnd(a, time) \/ n - a.value = PeriodStart(a, time)
      BY <1>1, <1>4, <1>5, <2>4
    <3>2. n - a.value = PeriodStart(a, n - a.value)
      BY <1>4, <2>4, <3>1
    <3>. QED
      BY <1>11, <2>4, <3>2 DEF IsSet, Periodic, PeriodStart
  <2>. QED
    BY <1>1, <1>9, <2>1, <2>2, <2>3, <2>4
<1>13. TriggerOK(b, "no")
  <2>1. Usable(b)
    BY <1>2, <1>11 DEF Usable
  <2>. QED
    BY <1>2, <1>11, <1>12, <2>1 DEF TriggerOK, Meant, Types
<1>14. OccurrenceOK(b, new, "no", t)
  <2>1. a.type = "dtExplicitAlarm" => a.isOneShot /\ new = Never
    BY DEF SlotOK, OccurrenceOK
  <2>2. ASSUME dtIsAlarm(a.type), new # Never
        PROVE  n > new
    <3>1. new = last /\ a.nextTrigger <= time /\ last <= a.nextTrigger
      BY <2>2 DEF SlotOK, OccurrenceOK
    <3>2. Periodic(a)
      BY <1>9, <2>1, <2>2 DEF dtIsAlarm
    <3>3. start = PeriodStart(a, time)
      BY <2>2, <3>1, <3>2
    <3>4. n > time
      BY <1>1, <1>4, <1>5, <3>1, <3>2, <3>3 DEF Passed
    <3>. QED
      BY <1>1, <1>10, <3>1, <3>4
  <2>. QED
    BY <1>3, <1>10, <1>11, <2>1, <2>2 DEF OccurrenceOK
<1>15. TimerOK(b, arm, "no", t)
  <2>1. a.type = "dtTimer" => (time + 1) * MillisPerSecond > arm.real - arm.base
    BY DEF SlotOK, TimerOK
  <2>2. a.type = "dtTimer" => n - a.value = time
    BY <1>1, <1>8
  <2>. QED
    BY <1>11, <2>1, <2>2 DEF TimerOK
<1>16. SlotOK(b, new, arm, "no", t)
  BY <1>1, <1>3, <1>11, <1>13, <1>14, <1>15 DEF SlotOK
<1>. QED
  BY <1>16 DEF b, n

-----------------------------------------------------------------------------
(* Alarms: what the steps do to the slots                                  *)

\* While nothing works on a slot, the time that passes means nothing to it.
LEMMA AnyTime ==
  ASSUME NEW a, NEW last, NEW arm, NEW s, NEW t, SlotOK(a, last, arm, "no", s)
  PROVE  SlotOK(a, last, arm, "no", t)
  BY DEF SlotOK, OccurrenceOK, TimerOK

\* A step that works on one slot at most, and leaves that one right.
LEMMA OneSlot ==
  ASSUME SlotsInv, NEW i \in Slots,
         Updating => at = i, Updating' => at' = i,
         DOMAIN alarm' = Slots, DOMAIN occurrence' = Slots, DOMAIN armed' = Slots,
         \A j \in Slots \ {i} :
           /\ alarm'[j] = alarm[j] /\ occurrence'[j] = occurrence[j] /\ armed'[j] = armed[j],
         SlotOK(alarm'[i], occurrence'[i], armed'[i], IF Updating' THEN phase' ELSE "no", time')
  PROVE  SlotsInv'
<1>1. ASSUME NEW j \in Slots \ {i}
      PROVE  SlotOK(alarm'[j], occurrence'[j], armed'[j], "no", time')
  <2>1. SlotOK(alarm[j], occurrence[j], armed[j], "no", time)
    BY DEF SlotsInv, Mode
  <2>. QED
    BY <2>1, AnyTime
<1>2. \A j \in Slots : Mode(j)' = IF j = i /\ Updating' THEN phase' ELSE "no"
  BY DEF Mode
<1>3. \A j \in Slots : SlotOK(alarm'[j], occurrence'[j], armed'[j], Mode(j)', time')
  BY <1>1, <1>2
<1>. QED
  BY <1>3 DEF SlotsInv, SlotOK, TriggerOK, OccurrenceOK, TimerOK, Meant, IsSet, Usable, Periodic,
              PeriodStart

\* A step that leaves the slots alone, while nothing works on them.
LEMMA SlotsStay ==
  ASSUME SlotsInv, ~Updating, ~Updating', UNCHANGED <<alarm, occurrence, armed>>
  PROVE  SlotsInv'
<1>1. ASSUME NEW j \in Slots
      PROVE  SlotOK(alarm[j], occurrence[j], armed[j], "no", time')
  <2>1. SlotOK(alarm[j], occurrence[j], armed[j], "no", time)
    BY DEF SlotsInv, Mode
  <2>. QED
    BY <2>1, AnyTime
<1>2. \A j \in Slots : Mode(j)' = "no"
  BY DEF Mode
<1>3. \A j \in Slots : SlotOK(alarm'[j], occurrence'[j], armed'[j], Mode(j)', time')
  BY <1>1, <1>2
<1>. QED
  BY <1>3 DEF SlotsInv, SlotOK, TriggerOK, OccurrenceOK, TimerOK, Meant, IsSet, Usable, Periodic,
              PeriodStart

\* A slot that nothing works on.
LEMMA QuietSlot ==
  ASSUME SlotsInv, NEW i \in Slots, Updating => at # i
  PROVE  /\ SlotOK(alarm[i], occurrence[i], armed[i], "no", time)
         /\ alarm[i] \in SlotSet /\ occurrence[i] \in Int /\ armed[i] \in [real : Int, base : Int]
  BY DEF SlotsInv, Mode, SlotOK

\* create, enable and write end with enable.
LEMMA EnableAsKeeps ==
  ASSUME SlotsInv, ServiceInv, phase \in {"sketch", "handler"}, NEW i \in Slots, NEW a,
         EnableAs(i, a), NEW last, Given(a, last),
         DOMAIN occurrence' = Slots, occurrence'[i] = last,
         \A j \in Slots \ {i} : occurrence'[j] = occurrence[j]
  PROVE  SlotsInv'
<1> DEFINE u == Usable(a)
           b == [a EXCEPT !.isEnabled = u]
           mode == IF u THEN "stamp" ELSE "no"
<1>1. ~Updating /\ armed' = armed /\ alarm' = [alarm EXCEPT ![i] = b]
  BY DEF Updating, EnableAs
<1>2. /\ u => phase' = "stamp" /\ at' = i
      /\ ~u => phase' = phase
  BY DEF EnableAs, StartUpdate
<1>3. armed[i] \in [real : Int, base : Int]
  BY <1>1, QuietSlot
<1>4. SlotOK(b, last, armed[i], mode, time')
  BY <1>3, EnabledIsOK
<1> HIDE DEF u, b
<1>5. mode = IF Updating' THEN phase' ELSE "no"
  BY <1>2 DEF Updating
<1>6. DOMAIN alarm' = Slots /\ DOMAIN occurrence' = Slots /\ DOMAIN armed' = Slots
  BY <1>1 DEF SlotsInv
<1>7. alarm'[i] = b /\ occurrence'[i] = last /\ armed'[i] = armed[i]
  BY <1>1 DEF SlotsInv
<1>8. \A j \in Slots \ {i} :
        alarm'[j] = alarm[j] /\ occurrence'[j] = occurrence[j] /\ armed'[j] = armed[j]
  BY <1>1 DEF SlotsInv
<1>9. (Updating => at = i) /\ (Updating' => at' = i)
  BY <1>1, <1>2 DEF Updating
<1> HIDE DEF mode
<1>10. SlotOK(alarm'[i], occurrence'[i], armed'[i], IF Updating' THEN phase' ELSE "no", time')
  BY <1>4, <1>5, <1>7
<1>. QED
  BY <1>6, <1>8, <1>9, <1>10, OneSlot

\* create gives away the first free slot, with the fields that were asked for.
LEMMA CreateKeeps ==
  ASSUME SlotsInv, ServiceInv, create
  PROVE  SlotsInv'
<1>0. phase \in {"sketch", "handler"} /\ ~Updating
  BY DEF create, Calling, Updating
<1>1. CASE UNCHANGED <<alarm, phase, localVars, ghosts>>
  <2>1. ~Updating'
    BY <1>0, <1>1 DEF Updating
  <2>. QED
    BY <1>0, <1>1, <2>1, SlotsStay DEF ghosts
<1>2. ASSUME NEW r \in Requests, FreeSlots # {},
             LET i == CHOOSE j \in FreeSlots : \A k \in FreeSlots : j <= k
                 a == [alarm[i] EXCEPT !.handler = r.handler, !.isOneShot = r.isOneShot,
                                       !.type = r.type, !.value = r.value]
             IN  EnableAs(i, a) /\ occurrence' = [occurrence EXCEPT ![i] = Never]
      PROVE  SlotsInv'
  <2> DEFINE i == CHOOSE j \in FreeSlots : \A k \in FreeSlots : j <= k
             a == [alarm[i] EXCEPT !.handler = r.handler, !.isOneShot = r.isOneShot,
                                   !.type = r.type, !.value = r.value]
  <2>1. FreeSlots \subseteq Slots /\ FreeSlots \subseteq Nat
    BY AlarmsAssumption DEF FreeSlots, Slots
  <2>2. \E j \in FreeSlots : \A k \in FreeSlots : j <= k
    BY <1>2, <2>1, Least
  <2>3. i \in FreeSlots
    BY <2>2
  <2>4. EnableAs(i, a) /\ occurrence' = [occurrence EXCEPT ![i] = Never]
    BY <1>2
  <2>. HIDE DEF i
  <2>5. i \in Slots /\ alarm[i].type = "dtNotAllocated"
    BY <2>1, <2>3 DEF FreeSlots, isAllocated
  <2>6. SlotOK(alarm[i], occurrence[i], armed[i], "no", time) /\ alarm[i] \in SlotSet
    BY <1>0, <2>5, QuietSlot
  <2>7. /\ r.type \in Types /\ r.value \in Nat /\ r.isOneShot \in BOOLEAN /\ r.handler \in BOOLEAN
        /\ r.type = "dtExplicitAlarm" => r.isOneShot
    BY AlarmsAssumption DEF Requests
  <2>8. /\ a \in SlotSet /\ a.type = r.type /\ a.isOneShot = r.isOneShot
        /\ a.nextTrigger = alarm[i].nextTrigger
    BY <2>6, <2>7 DEF SlotSet
  <2>9. alarm[i].nextTrigger = 0
    BY <2>5, <2>6 DEF SlotOK, TriggerOK, Meant
  <2>. HIDE DEF a
  <2>10. Given(a, Never)
    BY <2>7, <2>8, <2>9 DEF Given, Never, Types
  <2>11. /\ DOMAIN occurrence' = Slots /\ occurrence'[i] = Never
         /\ \A j \in Slots \ {i} : occurrence'[j] = occurrence[j]
    BY <2>4, <2>5 DEF SlotsInv
  <2>. QED
    BY <1>0, <2>4, <2>5, <2>10, <2>11, EnableAsKeeps
<1>. QED
  BY <1>1, <1>2 DEF create

\* enable and write start from a slot that is in use.
LEMMA EnableKeeps ==
  ASSUME SlotsInv, ServiceInv, NEW i \in Slots, enable(i) \/ write(i)
  PROVE  SlotsInv'
<1> DEFINE a == alarm[i]
<1>1. phase \in {"sketch", "handler"} /\ ~Updating /\ a.type # "dtNotAllocated"
  BY DEF enable, write, Calling, Updating, isAllocated
<1>2. /\ SlotOK(a, occurrence[i], armed[i], "no", time) /\ a \in SlotSet /\ occurrence[i] \in Int
      /\ DOMAIN occurrence = Slots
  BY <1>1, QuietSlot DEF SlotsInv
<1>3. /\ a.nextTrigger = 0 \/ IsSet(a)
      /\ a.type = "dtExplicitAlarm" => a.isOneShot /\ occurrence[i] = Never
      /\ dtIsAlarm(a.type) /\ occurrence[i] # Never => a.nextTrigger >= occurrence[i]
  BY <1>2 DEF SlotOK, TriggerOK, Meant, OccurrenceOK
<1>4. CASE enable(i)
  <2>1. Given(a, occurrence[i])
    BY <1>1, <1>2, <1>3 DEF Given
  <2>2. EnableAs(i, a) /\ occurrence' = occurrence
    BY <1>4 DEF enable
  <2>. QED
    BY <1>1, <1>2, <2>1, <2>2, EnableAsKeeps
<1>5. CASE write(i)
  <2>1. PICK v \in Values : EnableAs(i, [a EXCEPT !.value = v, !.nextTrigger = 0])
    BY <1>5 DEF write
  <2>2. v \in Nat
    BY AlarmsAssumption
  <2> DEFINE b == [a EXCEPT !.value = v, !.nextTrigger = 0]
  <2>3. /\ b \in SlotSet /\ b.type = a.type /\ b.isOneShot = a.isOneShot /\ b.nextTrigger = 0
    <3>1. a \in SlotSet /\ 0 \in Int
      BY <1>2
    <3>. HIDE DEF a
    <3>. QED
      BY <2>2, <3>1 DEF SlotSet
  <2>4. EnableAs(i, b) /\ occurrence' = [occurrence EXCEPT ![i] = Never]
    BY <1>5, <2>1 DEF write
  <2>. HIDE DEF b
  <2>5. Given(b, Never)
    BY <1>1, <1>3, <2>3 DEF Given, Never
  <2>6. /\ DOMAIN occurrence' = Slots /\ occurrence'[i] = Never
        /\ \A j \in Slots \ {i} : occurrence'[j] = occurrence[j]
    BY <1>2, <2>4 DEF SlotsInv
  <2>. QED
    BY <1>1, <2>4, <2>5, <2>6, EnableAsKeeps
<1>. QED
  BY <1>4, <1>5

\* free and disable.
LEMMA FreeKeeps ==
  ASSUME SlotsInv, ServiceInv, NEW i \in Slots, free(i) \/ disable(i)
  PROVE  SlotsInv'
<1>1. ~Updating /\ ~Updating' /\ armed' = armed
  BY DEF free, disable, Calling, Updating, localVars, ghosts
<1>2. /\ SlotOK(alarm[i], occurrence[i], armed[i], "no", time) /\ alarm[i] \in SlotSet
      /\ armed[i] \in [real : Int, base : Int]
  BY <1>1, QuietSlot
<1>3. CASE free(i)
  <2>1. /\ alarm' = [alarm EXCEPT ![i] = Freed(alarm[i])]
        /\ occurrence' = [occurrence EXCEPT ![i] = Never]
    BY <1>3 DEF free
  <2>2. SlotOK(Freed(alarm[i]), Never, armed[i], "no", time')
    BY <1>2, FreedIsOK
  <2>. QED
    BY <1>1, <2>1, <2>2, OneSlot DEF SlotsInv
<1>4. CASE disable(i)
  <2> DEFINE b == [alarm[i] EXCEPT !.isEnabled = FALSE]
  <2>1. alarm' = [alarm EXCEPT ![i] = b] /\ occurrence' = occurrence
    BY <1>4 DEF disable, ghosts
  <2>2. SlotOK(b, occurrence[i], armed[i], "no", time)
    BY <1>2, DisabledIsOK
  <2>3. SlotOK(b, occurrence[i], armed[i], "no", time')
    BY <2>2, AnyTime
  <2>. HIDE DEF b
  <2>. QED
    BY <1>1, <2>1, <2>3, OneSlot DEF SlotsInv
<1>. QED
  BY <1>3, <1>4

\* The first reading of updateNextTrigger.
LEMMA StampKeeps ==
  ASSUME ClockInv, SlotsInv, ServiceInv, Stamp
  PROVE  SlotsInv'
<1>1. /\ at \in Slots /\ phase = "stamp" /\ phase' = "compare" /\ at' = at /\ alarm' = alarm
      /\ time' = clk'.sys
      /\ occurrence' = [occurrence EXCEPT ![at] =
                           IF time' < alarm[at].nextTrigger THEN Never ELSE occurrence[at]]
      /\ armed' = IF dtIsAlarm(alarm[at].type) THEN armed
                  ELSE [armed EXCEPT ![at] = [real |-> real, base |-> base']]
  BY DEF Stamp, ServiceInv
<1>2. clk' \in Clks /\ base' \in Int /\ JustRead
  BY ReadsNowShows DEF Stamp
<1>3. real \in Nat /\ clk'.sys \in Nat /\ clk'.prev \in Int
  <2>1. clk'.sys \in Nat /\ clk'.prev \in 0..(MillisMod - 1)
    BY <1>2 DEF Clks
  <2>. QED
    BY <2>1 DEF ClockInv, ClockTypes
<1>4. (clk'.sys + 1) * MillisPerSecond > real - base'
  <2>1. clk'.sys * MillisPerSecond \in Int /\ real \in Int
    BY <1>3, ClockUnits
  <2>2. (clk'.sys + 1) * MillisPerSecond = clk'.sys * MillisPerSecond + MillisPerSecond
    BY <1>3, ClockUnits
  <2>3. Gap(real, clk'.prev) \in 0..(MillisMod - 1)
    BY <1>3, <2>1, GapIs
  <2>. QED
    BY <1>2, <1>3, <2>1, <2>2, <2>3, ClockUnits DEF JustRead, Shows
<1>5. SlotOK(alarm[at], occurrence[at], armed[at], "stamp", time)
  BY <1>1 DEF SlotsInv, Mode, Updating
<1>6. /\ armed'[at] \in [real : Int, base : Int]
      /\ alarm[at].type = "dtTimer" =>
           (time' + 1) * MillisPerSecond > armed'[at].real - armed'[at].base
  <2>1. CASE dtIsAlarm(alarm[at].type)
    BY <1>1, <1>5, <2>1 DEF SlotOK, dtIsAlarm, Types
  <2>2. CASE ~dtIsAlarm(alarm[at].type)
    <3>1. armed'[at] = [real |-> real, base |-> base']
      BY <1>1, <2>2 DEF SlotsInv
    <3>. QED
      BY <1>1, <1>2, <1>3, <1>4, <3>1
  <2>. QED
    BY <2>1, <2>2
<1>7. SlotOK(alarm[at], IF time' < alarm[at].nextTrigger THEN Never ELSE occurrence[at],
             armed'[at], "compare", time')
  BY <1>1, <1>3, <1>5, <1>6, StampedIsOK
<1>8. occurrence'[at] = IF time' < alarm[at].nextTrigger THEN Never ELSE occurrence[at]
  BY <1>1 DEF SlotsInv
<1>9. SlotOK(alarm'[at], occurrence'[at], armed'[at], IF Updating' THEN phase' ELSE "no", time')
  BY <1>1, <1>7, <1>8 DEF Updating
<1>10. /\ DOMAIN alarm' = Slots /\ DOMAIN occurrence' = Slots /\ DOMAIN armed' = Slots
       /\ \A j \in Slots \ {at} :
            alarm'[j] = alarm[j] /\ occurrence'[j] = occurrence[j] /\ armed'[j] = armed[j]
  BY <1>1 DEF SlotsInv
<1>. QED
  BY <1>1, <1>9, <1>10, OneSlot

\* The end of it.
LEMMA EndUpdateKeeps ==
  ASSUME SlotsInv, ServiceInv, EndUpdate
  PROVE  SlotsInv'
<1> DEFINE a == alarm[at]
<1>1. /\ at \in Slots /\ time \in Nat /\ phase = "compare" /\ phase' = back /\ armed' = armed
      /\ back \in {"sketch", "handler", "call", "return"} /\ Len(reads) = ReadsNeeded(a)
  BY DEF EndUpdate, ServiceInv
<1>2. PICK start \in StartsRead(a) :
        /\ alarm' = [alarm EXCEPT ![at].nextTrigger = NextTrigger(a, start)]
        /\ occurrence' = IF reads = <<>> \/ start = PeriodStart(a, time) THEN occurrence
                         ELSE [occurrence EXCEPT ![at] = Never]
  BY DEF EndUpdate
<1>3. SlotOK(a, occurrence[at], armed[at], "compare", time)
  BY <1>1 DEF SlotsInv, Mode, Updating
<1>4. occurrence'[at] \in {occurrence[at], Never}
  BY <1>1, <1>2 DEF SlotsInv
<1>5. ASSUME occurrence'[at] # Never, Periodic(a), a.nextTrigger <= time
      PROVE  start = PeriodStart(a, time)
  <2>1. reads = <<>> \/ start = PeriodStart(a, time)
    BY <1>1, <1>2, <1>5 DEF SlotsInv
  <2>2. a.nextTrigger \in Int
    BY <1>3, SlotFields DEF SlotOK
  <2>3. ReadsNeeded(a) \in {1, 3}
    BY <1>1, <1>5, <2>2 DEF ReadsNeeded, Periodic, dtIsAlarm, Types
  <2>4. reads # <<>>
    BY <1>1, <2>3
  <2>. QED
    BY <2>1, <2>4
<1>6. SlotOK([a EXCEPT !.nextTrigger = NextTrigger(a, start)], occurrence'[at], armed[at], "no",
             time')
  <2> DEFINE new == occurrence'[at]
             last == occurrence[at]
             arm == armed[at]
  <2>1. new # Never /\ Periodic(a) /\ a.nextTrigger <= time => start = PeriodStart(a, time)
    BY <1>5
  <2>2. time \in Nat /\ SlotOK(a, last, arm, "compare", time) /\ new \in {last, Never}
    BY <1>1, <1>3, <1>4
  <2>. HIDE DEF a, new, last, arm
  <2>3. SlotOK([a EXCEPT !.nextTrigger = NextTrigger(a, start)], new, arm, "no", time')
    BY <2>1, <2>2, UpdatedIsOK
  <2>. QED
    BY <2>3 DEF new, arm
<1>7. alarm'[at] = [a EXCEPT !.nextTrigger = NextTrigger(a, start)]
  BY <1>1, <1>2 DEF SlotsInv
<1>8. ~Updating'
  BY <1>1 DEF Updating
<1>9. /\ DOMAIN alarm' = Slots /\ DOMAIN occurrence' = Slots /\ DOMAIN armed' = Slots
      /\ \A j \in Slots \ {at} :
           alarm'[j] = alarm[j] /\ occurrence'[j] = occurrence[j] /\ armed'[j] = armed[j]
  BY <1>1, <1>2 DEF SlotsInv
<1>. QED
  BY <1>1, <1>6, <1>7, <1>8, <1>9, OneSlot

\* A slot whose time has come.
LEMMA FireKeeps ==
  ASSUME SlotsInv, ServiceInv, Fire
  PROVE  SlotsInv'
<1> DEFINE i == servicedAlarmId
           a == alarm[i]
<1>1. phase = "loop" /\ MoreSlots /\ a.isEnabled /\ armed' = armed
  BY DEF Fire
<1>2. i \in Slots /\ ~Updating
  BY <1>1, AlarmsAssumption DEF ServiceInv, MoreSlots, Slots, Updating
<1>3. /\ SlotOK(a, occurrence[i], armed[i], "no", time) /\ a \in SlotSet
      /\ armed[i] \in [real : Int, base : Int]
  BY <1>2, QuietSlot
<1>4. CASE a.isOneShot
  <2>1. /\ alarm' = [alarm EXCEPT ![i] = Freed(a)] /\ phase' = AfterTest(a)
        /\ occurrence' = [occurrence EXCEPT ![i] = Never]
    BY <1>4 DEF Fire
  <2>2. SlotOK(Freed(a), Never, armed[i], "no", time')
    BY <1>3, FreedIsOK
  <2>3. ~Updating'
    BY <2>1 DEF Updating, AfterTest
  <2>4. /\ DOMAIN alarm' = Slots /\ DOMAIN occurrence' = Slots /\ DOMAIN armed' = Slots
        /\ alarm'[i] = Freed(a) /\ occurrence'[i] = Never
        /\ \A j \in Slots \ {i} :
             alarm'[j] = alarm[j] /\ occurrence'[j] = occurrence[j] /\ armed'[j] = armed[j]
    BY <1>1, <1>2, <2>1 DEF SlotsInv
  <2>. QED
    BY <1>1, <1>2, <2>2, <2>3, <2>4, OneSlot
<1>5. CASE ~a.isOneShot
  <2>1. /\ alarm' = alarm /\ phase' = "stamp" /\ at' = i
        /\ occurrence' = [occurrence EXCEPT ![i] = a.nextTrigger]
    BY <1>5 DEF Fire, StartUpdate
  <2>2. SlotOK(a, a.nextTrigger, armed[i], "stamp", time)
    BY <1>1, <1>3, <1>5, FiredIsOK
  <2>3. time' = time /\ Updating'
    BY <2>1 DEF Fire, Updating
  <2>4. /\ DOMAIN alarm' = Slots /\ DOMAIN occurrence' = Slots /\ DOMAIN armed' = Slots
        /\ alarm'[i] = a /\ occurrence'[i] = a.nextTrigger
        /\ \A j \in Slots \ {i} :
             alarm'[j] = alarm[j] /\ occurrence'[j] = occurrence[j] /\ armed'[j] = armed[j]
    BY <1>1, <1>2, <2>1 DEF SlotsInv
  <2>. QED
    BY <1>1, <1>2, <2>1, <2>2, <2>3, <2>4, OneSlot
<1>. QED
  BY <1>4, <1>5

\* A step that changes nothing the slots depend on.
LEMMA SlotsSame ==
  ASSUME SlotsInv, UNCHANGED <<alarm, occurrence, armed, phase, at, time>>
  PROVE  SlotsInv'
  BY DEF SlotsInv, Mode, Updating, SlotOK, TriggerOK, OccurrenceOK, TimerOK, Meant, IsSet, Usable,
         Periodic, PeriodStart

\* Every step leaves the slots right.
LEMMA SlotsStep ==
  ASSUME AlarmsInv, [AlarmsNext]_alarmsVars
  PROVE  SlotsInv'
<1>1. ClockInv /\ SlotsInv /\ ServiceInv
  BY DEF AlarmsInv
<1>2. CASE Call
  <2>1. CASE create
    BY <1>1, <2>1, CreateKeeps
  <2>2. CASE ClockOperation
    BY <1>1, <2>2, SlotsSame DEF ClockOperation, localVars, ghosts
  <2>3. ASSUME NEW i \in Slots, enable(i) \/ disable(i) \/ write(i) \/ free(i)
        PROVE  SlotsInv'
    BY <1>1, <2>3, EnableKeeps, FreeKeeps
  <2>. QED
    BY <1>2, <2>1, <2>2, <2>3 DEF Call
<1>3. CASE delay \/ waitForDigits
  <2>1. ~Updating /\ ~Updating' /\ UNCHANGED <<alarm, occurrence, armed>>
    BY <1>3 DEF delay, waitForDigits, serviceAlarms, Updating, ghosts
  <2>. QED
    BY <1>1, <2>1, SlotsStay
<1>4. CASE AlarmsWork
  <2>1. CASE Stamp
    BY <1>1, <2>1, StampKeeps
  <2>2. CASE ReadAgain
    BY <1>1, <2>2, SlotsSame DEF ReadAgain, ghosts
  <2>3. CASE EndUpdate
    BY <1>1, <2>3, EndUpdateKeeps
  <2>4. CASE Fire
    BY <1>1, <2>4, FireKeeps
  <2>5. CASE PassOver \/ CallHandler \/ HandlerReturns \/ Return \/ EndService
    <3>1. ~Updating /\ ~Updating' /\ UNCHANGED <<alarm, occurrence, armed>>
      BY <2>5 DEF PassOver, CallHandler, HandlerReturns, Return, EndService, NextSlot, Updating,
                  ghosts
    <3>. QED
      BY <1>1, <3>1, SlotsStay
  <2>. QED
    BY <1>4, <2>1, <2>2, <2>3, <2>4, <2>5 DEF AlarmsWork
<1>5. CASE TimePasses \/ UNCHANGED alarmsVars
  BY <1>1, <1>5, SlotsSame DEF TimePasses, alarmsVars, localVars, ghosts
<1>. QED
  BY <1>2, <1>3, <1>4, <1>5 DEF AlarmsNext

-----------------------------------------------------------------------------
(* Alarms: who is at work                                                  *)

\* A step that leaves all of it alone.
LEMMA ServiceSame ==
  ASSUME ServiceInv,
         UNCHANGED <<phase, back, at, time, depth, isServicing, servicedAlarmId>>
  PROVE  ServiceInv'
  BY DEF ServiceInv, Updating, InHandler, InSketch

\* An operation that is called comes back to who called it.
LEMMA EnableAsServes ==
  ASSUME ServiceInv, phase \in {"sketch", "handler"}, NEW i \in Slots, NEW a, EnableAs(i, a)
  PROVE  ServiceInv'
<1>1. UNCHANGED <<time, depth, isServicing, servicedAlarmId>>
  BY DEF EnableAs
<1>2. CASE UNCHANGED <<phase, at, back>>
  BY <1>1, <1>2, ServiceSame
<1>3. CASE phase' = "stamp" /\ at' = i /\ back' = phase
  BY <1>1, <1>3 DEF ServiceInv, Updating, InHandler, InSketch
<1>. QED
  BY <1>2, <1>3 DEF EnableAs, StartUpdate

\* The operations.
LEMMA CallServes ==
  ASSUME ServiceInv, Call
  PROVE  ServiceInv'
<1>1. CASE create
  <2>1. phase \in {"sketch", "handler"}
    BY <1>1 DEF create, Calling
  <2>2. CASE UNCHANGED <<alarm, phase, localVars, ghosts>>
    BY <2>2, ServiceSame DEF localVars, ghosts
  <2>3. ASSUME NEW r \in Requests, FreeSlots # {},
               LET i == CHOOSE j \in FreeSlots : \A k \in FreeSlots : j <= k
                   a == [alarm[i] EXCEPT !.handler = r.handler, !.isOneShot = r.isOneShot,
                                         !.type = r.type, !.value = r.value]
               IN  EnableAs(i, a) /\ occurrence' = [occurrence EXCEPT ![i] = Never]
        PROVE  ServiceInv'
    <3> DEFINE i == CHOOSE j \in FreeSlots : \A k \in FreeSlots : j <= k
    <3>1. FreeSlots \subseteq Slots /\ FreeSlots \subseteq Nat
      BY AlarmsAssumption DEF FreeSlots, Slots
    <3>2. \E j \in FreeSlots : \A k \in FreeSlots : j <= k
      BY <2>3, <3>1, Least
    <3>3. i \in Slots
      BY <3>1, <3>2
    <3>4. \E a : EnableAs(i, a)
      BY <2>3
    <3>. HIDE DEF i
    <3>. QED
      BY <2>1, <3>3, <3>4, EnableAsServes
  <2>. QED
    BY <1>1, <2>2, <2>3 DEF create
<1>2. CASE ClockOperation
  BY <1>2, ServiceSame DEF ClockOperation, localVars, ghosts
<1>3. ASSUME NEW i \in Slots, enable(i) \/ disable(i) \/ write(i) \/ free(i)
      PROVE  ServiceInv'
  <2>1. CASE enable(i) \/ write(i)
    <3>1. phase \in {"sketch", "handler"} /\ \E a : EnableAs(i, a)
      BY <2>1 DEF enable, write, Calling
    <3>. QED
      BY <3>1, EnableAsServes
  <2>2. CASE disable(i) \/ free(i)
    BY <2>2, ServiceSame DEF disable, free, localVars, ghosts
  <2>. QED
    BY <1>3, <2>1, <2>2
<1>. QED
  BY <1>1, <1>2, <1>3 DEF Call

\* Every step.
LEMMA ServiceStep ==
  ASSUME AlarmsInv, [AlarmsNext]_alarmsVars
  PROVE  ServiceInv'
<1>1. ClockInv /\ ServiceInv
  BY DEF AlarmsInv
<1>2. dtNBR_ALARMS \in Nat
  BY AlarmsAssumption
<1>3. CASE Call
  BY <1>1, <1>3, CallServes
<1>4. CASE delay \/ waitForDigits
  <2>1. phase \in {"sketch", "handler"} /\ serviceAlarms
    BY <1>4 DEF delay, waitForDigits
  <2>2. CASE isServicing
    <3>1. UNCHANGED <<phase, back, at, time, depth, isServicing, servicedAlarmId>>
      BY <2>1, <2>2 DEF serviceAlarms, ghosts
    <3>. QED
      BY <1>1, <3>1, ServiceSame
  <2>3. CASE ~isServicing
    <3>1. /\ isServicing' = TRUE /\ servicedAlarmId' = 0 /\ phase' = "loop"
          /\ UNCHANGED <<back, at, time, depth>>
      BY <2>1, <2>3 DEF serviceAlarms, ghosts
    <3>2. 0 \in 0..dtNBR_ALARMS
      BY <1>2
    <3>. QED
      BY <1>1, <2>1, <2>3, <3>1, <3>2 DEF ServiceInv, Updating, InHandler, InSketch
  <2>. QED
    BY <2>2, <2>3
<1>5. CASE Stamp
  <2>1. time' \in Nat
    BY <1>1, <1>5, ReadsNowShows DEF Stamp, Clks
  <2>. QED
    BY <1>1, <1>5, <2>1 DEF Stamp, ServiceInv, Updating, InHandler, InSketch
<1>6. CASE ReadAgain
  BY <1>1, <1>6, ServiceSame DEF ReadAgain, ghosts
<1>7. CASE EndUpdate
  <2>1. 0 \in Slots
    BY AlarmsAssumption DEF Slots
  <2>. QED
    BY <1>1, <1>7, <2>1 DEF EndUpdate, ServiceInv, Updating, InHandler, InSketch
<1>8. CASE PassOver \/ Return
  <2>1. /\ phase' = "loop" /\ servicedAlarmId' = servicedAlarmId + 1
        /\ UNCHANGED <<isServicing, at, back, time, depth>>
    BY <1>8 DEF PassOver, Return, NextSlot, ghosts
  <2>2. phase \in {"loop", "return"} /\ servicedAlarmId \in 0..(dtNBR_ALARMS - 1)
    BY <1>1, <1>2, <1>8 DEF PassOver, Return, MoreSlots, ServiceInv, Slots, InSketch, Updating
  <2>. QED
    BY <1>1, <1>2, <2>1, <2>2 DEF ServiceInv, Updating, InHandler, InSketch
<1>9. CASE Fire
  <2>1. servicedAlarmId \in Slots /\ phase = "loop"
    BY <1>1, <1>2, <1>9 DEF Fire, MoreSlots, ServiceInv, Slots
  <2>2. UNCHANGED <<servicedAlarmId, isServicing, time, depth>>
    BY <1>9 DEF Fire
  <2> DEFINE next == AfterTest(alarm[servicedAlarmId])
  <2>3. next \in {"call", "return"}
    BY DEF AfterTest
  <2>4. \/ phase' = next /\ UNCHANGED <<at, back>>
        \/ phase' = "stamp" /\ at' = servicedAlarmId /\ back' = next
    BY <1>9 DEF Fire, StartUpdate
  <2>. HIDE DEF next
  <2>. QED
    BY <1>1, <2>1, <2>2, <2>3, <2>4 DEF ServiceInv, Updating, InHandler, InSketch
<1>10. CASE CallHandler \/ HandlerReturns
  BY <1>1, <1>10 DEF CallHandler, HandlerReturns, localVars, ServiceInv, Updating, InHandler,
                     InSketch
<1>11. CASE EndService
  <2>1. /\ phase = "loop" /\ phase' = "sketch" /\ isServicing' = FALSE
        /\ servicedAlarmId' = 0 /\ UNCHANGED <<at, back, time, depth>>
    BY <1>11 DEF EndService, ghosts
  <2>2. 0 \in 0..dtNBR_ALARMS
    BY <1>2
  <2>. QED
    BY <1>1, <2>1, <2>2 DEF ServiceInv, Updating, InHandler, InSketch
<1>12. CASE TimePasses \/ UNCHANGED alarmsVars
  BY <1>1, <1>12, ServiceSame DEF TimePasses, alarmsVars, localVars, ghosts
<1>. QED
  BY <1>3, <1>4, <1>5, <1>6, <1>7, <1>8, <1>9, <1>10, <1>11, <1>12 DEF AlarmsNext, AlarmsWork

\* The clock, whatever the alarms do.
LEMMA ClockStep ==
  ASSUME ClockInv, [AlarmsNext]_alarmsVars
  PROVE  ClockInv'
<1>1. \/ ClockCall \/ Tick \/ UNCHANGED clockVars
      \/ ReadsNow /\ UNCHANGED <<real, tm, cacheTime, refreshed>>
  BY DEF AlarmsNext, AlarmsWork, Call, alarmsVars, clockVars, create, ClockOperation, enable,
         disable, write, free, delay, waitForDigits, Stamp, ReadAgain, EndUpdate, PassOver, Fire,
         CallHandler, HandlerReturns, Return, EndService, TimePasses
<1>2. CASE UNCHANGED clockVars
  BY <1>2 DEF clockVars, ClockInv, ClockTypes, ClockIsTrue, NoSecondLost, CacheIsOfItsTime, Elapsed,
              millis
<1>3. CASE ReadsNow /\ UNCHANGED <<real, tm, cacheTime, refreshed>>
  BY <1>3, ReadsNowShows, ClockShows DEF JustRead
<1>. QED
  BY <1>1, <1>2, <1>3, ClockCallKeeps, TickKeeps

\* Power-on.
LEMMA AlarmsStart == AlarmsInit => AlarmsInv
<1>1. SUFFICES ASSUME AlarmsInit PROVE AlarmsInv
  OBVIOUS
<1>2. ClockInv
  BY <1>1, ClockStarts DEF AlarmsInit
<1>3. ServiceInv
  <2>1. 0 \in Slots /\ 0 \in 0..dtNBR_ALARMS /\ 0 \in Nat
    BY AlarmsAssumption DEF Slots
  <2>. QED
    BY <1>1, <2>1 DEF AlarmsInit, ServiceInv, Updating, InHandler, InSketch
<1>4. ASSUME NEW i \in Slots
      PROVE  SlotOK(alarm[i], occurrence[i], armed[i], "no", time)
  <2>1. alarm[i] = Unallocated /\ occurrence[i] = Never /\ armed[i] = [real |-> 0, base |-> 0]
    BY <1>1 DEF AlarmsInit
  <2>2. /\ Unallocated \in SlotSet /\ Unallocated.type = "dtNotAllocated"
        /\ ~Unallocated.isEnabled /\ Unallocated.nextTrigger = 0
    BY DEF Unallocated, SlotSet
  <2>. QED
    BY <2>1, <2>2 DEF SlotOK, TriggerOK, Meant, OccurrenceOK, TimerOK, Never
<1>5. SlotsInv
  BY <1>1, <1>4 DEF AlarmsInit, SlotsInv, Mode, Updating
<1>. QED
  BY <1>2, <1>3, <1>5 DEF AlarmsInv

\* What the code keeps of its clock, its slots and its handlers.
THEOREM AlarmsAreKept == AlarmsSpec => []AlarmsInv
<1>1. AlarmsInv /\ [AlarmsNext]_alarmsVars => AlarmsInv'
  BY ClockStep, ServiceStep, SlotsStep DEF AlarmsInv
<1>. QED
  BY AlarmsStart, <1>1, PTL DEF AlarmsSpec

\* The clock loses and invents nothing, and what it caches is the date of its time.
THEOREM ClockKeepsTime == AlarmsSpec => []ClockIsTrue
<1>1. AlarmsInv => ClockIsTrue
  BY DEF AlarmsInv, ClockInv
<1>. QED
  BY AlarmsAreKept, <1>1, PTL

\* An enabled slot means what its value says, and one handler runs at a time.
THEOREM SlotsMeanTheirValues == AlarmsSpec => []SlotsAreSound
<1>1. ASSUME AlarmsInv PROVE SlotsAreSound
  <2>1. SlotsInv /\ ServiceInv
    BY <1>1 DEF AlarmsInv
  <2>2. ASSUME NEW i \in Slots, alarm[i].isEnabled, ~(phase \in {"stamp", "compare"} /\ at = i)
        PROVE  /\ isAllocated(i) /\ Usable(alarm[i]) /\ IsSet(alarm[i])
    <3>1. SlotOK(alarm[i], occurrence[i], armed[i], "no", time)
      BY <2>1, <2>2 DEF SlotsInv, Mode, Updating
    <3>. QED
      BY <2>2, <3>1 DEF SlotOK, TriggerOK, Meant, isAllocated
  <2>3. EnabledIsMeant
    BY <2>2 DEF EnabledIsMeant, IsSet, Periodic, dtIsAlarm, Types
  <2>4. OneHandlerAtATime
    <3>1. depth <= 1
      BY <2>1 DEF ServiceInv
    <3>2. depth = 1 => InHandler
      BY <2>1 DEF ServiceInv
    <3>3. InHandler => isServicing /\ servicedAlarmId \in Slots
      BY <2>1 DEF ServiceInv, InHandler, InSketch, Updating
    <3>. QED
      BY <3>1, <3>2, <3>3 DEF OneHandlerAtATime, getTriggeredAlarmId
  <2>. QED
    BY <2>3, <2>4 DEF SlotsAreSound
<1>. QED
  BY AlarmsAreKept, <1>1, PTL

\* A slot that fires is one that updateNextTrigger has left.
LEMMA FiringSlot ==
  ASSUME AlarmsInv, NEW i \in Slots, FiresFor(i)
  PROVE  /\ SlotOK(alarm[i], occurrence[i], armed[i], "no", time) /\ alarm[i].isEnabled
         /\ ReadsNow /\ clk'.sys >= alarm[i].nextTrigger /\ UNCHANGED real
  BY DEF AlarmsInv, SlotsInv, Mode, Updating, FiresFor, Fire

\* Nothing fires twice for one trigger or before its time.
THEOREM AlarmsFireWhenMeant == AlarmsSpec => FiresWhenMeant
<1>1. ASSUME AlarmsInv, NEW i \in Slots, FiresFor(i), dtIsAlarm(alarm[i].type),
             occurrence[i] # Never
      PROVE  alarm[i].nextTrigger > occurrence[i]
  BY <1>1, FiringSlot DEF SlotOK, OccurrenceOK
<1>2. ASSUME AlarmsInv, NEW i \in Slots, FiresFor(i), alarm[i].type = "dtTimer",
             armed[i].base = base'
      PROVE  real - armed[i].real > (alarm[i].value - 1) * MillisPerSecond
  <2> DEFINE a == alarm[i]
             s == clk'.sys
             m == MillisPerSecond
             g == Gap(real, clk'.prev)
             n == a.nextTrigger
             v == a.value
             b == base'
  <2>1. /\ SlotOK(a, occurrence[i], armed[i], "no", time) /\ a.isEnabled
        /\ ReadsNow /\ s >= n
    BY <1>2, FiringSlot
  <2>2. clk' \in Clks /\ b \in Int /\ JustRead /\ real \in Int
    BY <1>2, <2>1, ReadsNowShows DEF AlarmsInv, ClockInv, ClockTypes
  <2>3. s \in Nat /\ n \in Int /\ v \in Nat /\ armed[i].real \in Int /\ m \in Nat /\ m > 0
    BY <2>1, <2>2, SlotFields, ClockUnits DEF SlotOK, Clks
  <2>4. g \in Nat
    <3>1. clk'.prev \in 0..(MillisMod - 1) /\ MillisMod \in Nat
      BY <2>2, ClockUnits DEF Clks
    <3>2. clk'.prev \in Int
      BY <3>1
    <3>3. Gap(real, clk'.prev) \in 0..(MillisMod - 1)
      BY <2>2, <3>2, GapIs
    <3>. QED
      BY <3>1, <3>3
  <2>5. s * m + g = real - b
    BY <2>2 DEF JustRead, Shows
  <2>6. ((n - v) + 1) * m > armed[i].real - b
    BY <1>2, <2>1 DEF SlotOK, TimerOK
  <2>. HIDE DEF a, s, m, g, n, v, b
  <2>7. n * m <= s * m /\ n * m \in Int /\ s * m \in Int
    BY <2>1, <2>3
  <2>8. n * m = ((n - v) + 1) * m + (v - 1) * m
    <3>1. n = ((n - v) + 1) + (v - 1)
      BY <2>3
    <3>2. (((n - v) + 1) + (v - 1)) * m = ((n - v) + 1) * m + (v - 1) * m
      BY <2>3
    <3>. QED
      BY <3>1, <3>2
  <2>9. ((n - v) + 1) * m \in Int /\ (v - 1) * m \in Int
    BY <2>3
  <2>10. real - armed[i].real > (v - 1) * m
    BY <2>2, <2>3, <2>4, <2>5, <2>6, <2>7, <2>8, <2>9
  <2>. QED
    BY <2>10 DEF v, a, m
<1>3. AlarmsInv /\ [AlarmsNext]_alarmsVars =>
        [\A i \in Slots : FiresFor(i) /\ dtIsAlarm(alarm[i].type) /\ occurrence[i] # Never
           => alarm[i].nextTrigger > occurrence[i]]_alarmsVars
  BY <1>1
<1>4. AlarmsInv /\ [AlarmsNext]_alarmsVars =>
        [\A i \in Slots :
           FiresFor(i) /\ alarm[i].type = "dtTimer" /\ armed[i].base = base'
             => real - armed[i].real > (alarm[i].value - 1) * MillisPerSecond]_alarmsVars
  BY <1>2
<1>. QED
  BY AlarmsAreKept, <1>3, <1>4, PTL DEF AlarmsSpec, FiresWhenMeant, OccurrenceOnce, TimerWaits
=============================================================================
