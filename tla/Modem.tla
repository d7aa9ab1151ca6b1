------------------------------- MODULE Modem --------------------------------
(***************************************************************************)
(* Bringing the SIM800 up: GsmMqttClient::begin, the driver's init with    *)
(* power key, reset and search for a baud rate, getIMEI and setup.         *)
(*                                                                         *)
(* The power key toggles, and no line tells the driver whether the modem   *)
(* is on: all it can do is ask, and ask again.  The meter may restart at   *)
(* any time and find the modem as it was.                                  *)
(***************************************************************************)
EXTENDS Integers, Sequences

CONSTANTS
  Rates,          \* the baud rates init_fixbaud tries, in its order
  SimInitTries,   \* SIM_INIT_TRIES
  AutobaudTries,  \* probes of init_autobaud
  CregTries,      \* how often setup asks again for the registration
  MaxReboots      \* bound: restarts of the meter

ASSUME ModemAssumption ==
  /\ Rates \in Seq(Nat) /\ Rates # <<>>
  /\ {SimInitTries, AutobaudTries} \subseteq Nat \ {0}
  /\ {CregTries, MaxReboots} \subseteq Nat

VARIABLES
  faults,   \* in this behaviour commands may go unanswered
  pc,       \* where begin() is
  tries,    \* the loop counter of begin
  probes,   \* the loop counter of init_autobaud, init_fixbaud or setup
  stateOn,  \* STATE_ON of SIM800::state
  stateInit,\* STATE_INITIALIZED
  uart,     \* the rate of the meter's serial port
  imei,     \* imeicode_: "none", "unknown", "imei", or "echo" of the question
  power,    \* the modem is on
  deaf,     \* probes it will miss because it is still starting
  rate,     \* its rate: 0 when it adapts to what it hears
  echo,     \* it repeats what it is told
  saved,    \* the rate and echo of its stored profile
  reboots   \* for the bound

driverVars == <<tries, probes, stateOn, stateInit, uart, imei>>
modemVars  == <<power, deaf, rate, echo, saved>>
vars == <<faults, pc, driverVars, modemVars, reboots>>

Adapts == 0
RateSet == {Rates[i] : i \in 1..Len(Rates)}
Fastest == Rates[Len(Rates)]

\* A modem that is well has started when init_autobaud gives up.
Starting == 0..(AutobaudTries - 1)

Init ==
  /\ faults \in BOOLEAN
  /\ pc = "idle" /\ tries = 0 /\ probes = 0
  /\ stateOn = FALSE /\ stateInit = FALSE
  /\ uart = Fastest /\ imei = "none"
  /\ saved \in [rate : RateSet \cup {Adapts}, echo : BOOLEAN]
  /\ power \in BOOLEAN /\ deaf = 0 /\ rate = saved.rate /\ echo \in BOOLEAN
  /\ reboots = 0

-----------------------------------------------------------------------------
(* The modem                                                               *)

\* It starts from its stored profile.
Start ==
  /\ deaf' \in Starting
  /\ rate' = saved.rate /\ echo' = saved.echo

\* It hears a command, and answers unless something goes wrong.
Hears == power /\ deaf = 0 /\ rate \in {Adapts, uart}

\* AT commands with no effect on its settings, and their outcomes.
Answered  == Hears /\ UNCHANGED modemVars
Unanswered ==
  /\ Hears => faults
  /\ deaf' = IF power /\ deaf > 0 THEN deaf - 1 ELSE deaf
  /\ UNCHANGED <<power, rate, echo, saved>>

\* &F restores the factory defaults: echo, and perhaps the rate.
FactoryDefaults ==
  /\ Hears
  /\ echo' = TRUE /\ rate' \in {rate, Adapts}
  /\ UNCHANGED <<power, deaf, saved>>

-----------------------------------------------------------------------------
(* SIM800::init                                                            *)

\* WaterboxFsm calls begin() until it succeeds.
Begin ==
  /\ pc = "idle"
  /\ pc' = "init" /\ tries' = 0
  /\ UNCHANGED <<probes, stateOn, stateInit, uart, imei, modemVars>>

\* switchOn presses the power key, unless the driver believes the modem is on.
SwitchOn ==
  /\ pc = "init"
  /\ pc' = "reset" /\ stateOn' = TRUE
  /\ IF stateOn
     THEN UNCHANGED modemVars
     ELSE /\ power' = ~power
          /\ IF power THEN UNCHANGED <<deaf, rate, echo>> ELSE Start
          /\ UNCHANGED saved
  /\ UNCHANGED <<tries, probes, stateInit, uart, imei>>

\* Mutant: init_autobaud keeps STATE_ON.
OnKept == stateOn

\* state = STATE_NONE forgets that the key was pressed, so that the next init
\* presses it again.
OnForgotten == FALSE

\* Mutant: and STATE_INITIALIZED.
InitKept == stateInit

InitForgotten == FALSE

\* resetModem, and init_autobaud begins.
ResetModem ==
  /\ pc = "reset"
  /\ IF power THEN Start /\ UNCHANGED <<power, saved>> ELSE UNCHANGED modemVars
  /\ pc' = "autobaud" /\ probes' = 1
  /\ stateOn' = OnForgotten /\ stateInit' = InitForgotten
  /\ uart' = Fastest
  /\ UNCHANGED <<tries, imei>>

Initialized ==
  /\ pc' = "imei" /\ stateInit' = TRUE

\* init_onceautobaud
AutobaudFound ==
  /\ pc = "autobaud" /\ Answered
  /\ Initialized
  /\ UNCHANGED <<tries, probes, stateOn, uart, imei>>

\* init goes on with init_fixbaud, at the first rate of its table.
TryFixbaud == pc' = "fixbaud" /\ probes' = 1 /\ uart' = Rates[1]

AutobaudMissed ==
  /\ pc = "autobaud" /\ Unanswered
  /\ IF probes < AutobaudTries
     THEN pc' = "autobaud" /\ probes' = probes + 1 /\ UNCHANGED uart
     ELSE TryFixbaud
  /\ UNCHANGED <<tries, stateOn, stateInit, imei>>

InitFailed ==
  /\ pc' = "initFailed" /\ stateInit' = FALSE

\* The probe of init_fixbaud, or its +IPR, goes unanswered: the next rate.
NextRate ==
  /\ pc \in {"fixbaud", "setRate"} /\ Unanswered
  /\ IF probes < Len(Rates)
     THEN /\ pc' = "fixbaud" /\ probes' = probes + 1 /\ uart' = Rates[probes + 1]
          /\ UNCHANGED stateInit
     ELSE InitFailed /\ UNCHANGED <<probes, uart>>
  /\ UNCHANGED <<tries, stateOn, imei>>

RateFound ==
  /\ pc = "fixbaud" /\ Answered
  /\ pc' = "setRate"
  /\ UNCHANGED driverVars

ThisRate == Rates[probes]

\* +IPR with the rate that was found.
SetRate ==
  /\ pc = "setRate" /\ Hears
  /\ rate' = ThisRate
  /\ pc' = "defaults"
  /\ UNCHANGED <<driverVars, power, deaf, echo, saved>>

Defaults ==
  /\ pc = "defaults" /\ FactoryDefaults
  /\ pc' = "save"
  /\ UNCHANGED driverVars

\* &W
SaveProfile ==
  /\ pc = "save" /\ Hears
  /\ saved' = [rate |-> rate, echo |-> echo]
  /\ Initialized
  /\ UNCHANGED <<tries, probes, stateOn, uart, imei, power, deaf, rate, echo>>

\* &F or &W goes unanswered, and init_fixbaud returns false at once.
ProfileFails ==
  /\ pc \in {"defaults", "save"} /\ Unanswered
  /\ InitFailed
  /\ UNCHANGED <<tries, probes, stateOn, uart, imei>>

TryCounted == tries + 1

TriesLeft(n) == n < SimInitTries

\* "init retry": begin counts, waits a second and presses the key again.
InitAgain ==
  /\ pc = "initFailed"
  /\ tries' = TryCounted
  /\ pc' = IF TriesLeft(tries') THEN "init" ELSE "idle"
  /\ UNCHANGED <<probes, stateOn, stateInit, uart, imei, modemVars>>

-----------------------------------------------------------------------------
(* getIMEI and setup, whose result begin ignores                           *)

\* The first word of the answer to +GSN, which is the question with echo on.
FirstWord == IF echo THEN "echo" ELSE "imei"

GetImei ==
  /\ pc = "imei" /\ Answered
  /\ imei' = FirstWord
  /\ pc' = "factory"
  /\ UNCHANGED <<tries, probes, stateOn, stateInit, uart>>

ImeiFails ==
  /\ pc = "imei" /\ Unanswered
  /\ imei' = "unknown"
  /\ pc' = "idle"
  /\ UNCHANGED <<tries, probes, stateOn, stateInit, uart>>

\* setup: &F ..
Factory ==
  /\ pc = "factory" /\ FactoryDefaults
  /\ pc' = "echoOff"
  /\ UNCHANGED driverVars

\* Mutant: the echo stays as it is.
EchoStays == echo

EchoGone == FALSE

\* .. E0 ..
EchoOff ==
  /\ pc = "echoOff" /\ Hears
  /\ echo' = EchoGone
  /\ pc' = "creg" /\ probes' = 0
  /\ UNCHANGED <<tries, stateOn, stateInit, uart, imei, power, deaf, rate, saved>>

\* .. and +CREG? until the network has the modem, or often enough.
Creg ==
  /\ pc = "creg" /\ Answered
  /\ \/ pc' = "ready" /\ UNCHANGED probes
     \/ /\ pc' = IF probes = CregTries THEN "ready" ELSE "creg"
        /\ probes' = probes + 1
  /\ UNCHANGED <<tries, stateOn, stateInit, uart, imei>>

\* A command of setup goes unanswered; begin says so and returns true.
SetupFails ==
  /\ pc \in {"factory", "echoOff", "creg"} /\ Unanswered
  /\ pc' = "ready"
  /\ UNCHANGED driverVars

-----------------------------------------------------------------------------
\* The meter restarts; the modem has its own supply and stays as it is.
Reboot ==
  /\ reboots < MaxReboots /\ reboots' = reboots + 1
  /\ pc' = "idle" /\ tries' = 0 /\ probes' = 0
  /\ stateOn' = FALSE /\ stateInit' = FALSE
  /\ uart' = Fastest /\ imei' = "none"
  /\ UNCHANGED <<faults, modemVars>>

Driver ==
  \/ Begin \/ SwitchOn \/ ResetModem \/ AutobaudFound \/ AutobaudMissed
  \/ NextRate \/ RateFound \/ SetRate \/ Defaults \/ SaveProfile \/ ProfileFails
  \/ InitAgain \/ GetImei \/ ImeiFails \/ Factory \/ EchoOff \/ Creg \/ SetupFails

Main == Driver /\ UNCHANGED <<faults, reboots>>

Next == Main \/ Reboot

Spec == Init /\ [][Next]_vars

\* loop() goes on, and every command has a timeout.
FairSpec == Spec /\ WF_vars(Main)

-----------------------------------------------------------------------------
PCs == {"idle", "init", "reset", "autobaud", "fixbaud", "setRate", "defaults", "save",
        "initFailed", "imei", "factory", "echoOff", "creg", "ready"}

\* The shape of the state; the loops stay within their limits.
TypeOK ==
  /\ faults \in BOOLEAN /\ pc \in PCs
  /\ tries \in 0..SimInitTries
  /\ pc = "autobaud" => probes \in 1..AutobaudTries
  /\ pc \in {"fixbaud", "setRate"} => probes \in 1..Len(Rates)
  /\ pc = "creg" => probes \in 0..CregTries
  /\ {stateOn, stateInit, power, echo} \subseteq BOOLEAN
  /\ uart \in RateSet /\ rate \in RateSet \cup {Adapts}
  /\ saved \in [rate : RateSet \cup {Adapts}, echo : BOOLEAN]
  /\ imei \in {"none", "unknown", "imei", "echo"}
  /\ deaf \in 0..AutobaudTries /\ reboots \in 0..MaxReboots

\* When the driver says that the modem is initialized, it is on and at a rate at
\* which it hears the meter (init_autobaud, init_fixbaud).  Between the key press of
\* another init and the end of its reset the flag is old.
InitializedHears == stateInit /\ pc \notin {"init", "reset"} => Hears

\* A modem that answers whenever it is on needs at most two inits, whether the
\* first press of the key switched it on or off (begin, switchOn).
TwoPressesDo == ~faults => tries <= 1

\* When begin is over and every command was answered, the modem does not repeat
\* commands in front of its answers (setup).
QuietWhenReady == pc = "ready" /\ ~faults => ~echo

\* A modem that answers whenever it is on is brought up with two presses at most,
\* and in the end does not repeat the commands (begin, setup).
CalmBringUp == TwoPressesDo /\ QuietWhenReady

\* begin returns, whatever the modem does.
BeginEnds == pc \notin {"idle", "ready"} ~> pc \in {"idle", "ready"}

\* A modem that answers whenever it is on is brought up.
ComesUp == ~faults => []<>(pc = "ready")

\* begin ends, whatever it finds, and a modem that answers is ready in the end.
BringUpEnds == BeginEnds /\ ComesUp

\* The topics of a meter that is ready carry its IMEI ("Topics are per IMEI"),
\* at least when every command was answered (getIMEI, buildTopics).
ImeiIsReal == pc = "ready" /\ ~faults => imei = "imei"
=============================================================================
