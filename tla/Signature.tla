----------------------------- MODULE Signature -----------------------------
(***************************************************************************)
(* What the broker sends to the meter.  The household's fingerprint is a   *)
(* retained message, parsed, put in use and written to the EEPROM cell by  *)
(* cell, read back after a power loss, and evaluated against flow and hour *)
(* by every service().  A command moves the valve.                         *)
(*                                                                         *)
(* Flow and coefficients are whole units of 0.05 L/min, in which the       *)
(* margins of settings.h are exact, and each takes one cell.  The curve    *)
(* has one harmonic, of which the sine is known at the quarters.           *)
(***************************************************************************)
EXTENDS Crc8, Commands

CONSTANTS
  Messages,    \* what may be retained: [keys, w, a, t], the keys it has and their values
  Flows,       \* litresPerMinute()
  Hours,       \* hours of the modem's clock
  Payloads,    \* of commands: [payload, says], the symbols and what they mean
  MaxSends,    \* bound: fingerprints the cloud sends
  MaxCrashes   \* bound: power losses

ASSUME SignatureAssumption ==
  /\ \A m \in Messages : /\ m.keys \subseteq {"w", "a", "t"}
                         /\ {m.w, m.a, m.t} \subseteq Byte
  /\ \A c \in Payloads : c.payload \in Seq(STRING) /\ Means(c.payload, c.says)
  /\ Flows \subseteq Nat /\ Hours \subseteq 0..23
  /\ {MaxSends, MaxCrashes} \subseteq Nat

VARIABLES
  pc,        \* "off", "idle", or "put": inside EEPROM.put
  valid,     \* ConsumptionSignature::valid_
  params,    \* params_: <<w, a, t>>
  leakFlag,  \* WaterboxFsm::leakFlag_
  overFlag,  \* WaterboxFsm::overFlag_
  ee,        \* the cells of the record: magic, version, three of params, crc
  img,       \* what a save in progress writes
  at,        \* the cell it writes next
  retained,  \* the message the broker retains, if it does
  sent,      \* the parameters of every fingerprint sent
  seen,      \* flow and hour of the last evaluation
  valve,     \* what the last command that was obeyed did: "on", "off", or "none"
  asked,     \* what the last command that says something says
  sends, crashes  \* for the bounds

ram  == <<valid, params, leakFlag, overFlag, seen>>
rom  == <<ee, img, at>>
cloud == <<retained, sent, sends>>
orders == <<valve, asked>>
signatureVars == <<pc, ram, rom, cloud, orders, crashes>>

SIG_T1_H == 24
SIG_NIGHT_START_H == 0
SIG_NIGHT_END_H == 5
SIG_LEAK_MARGIN_LM == 3
SIG_OVER_MARGIN_LM == 10
SIG_FLOW_FLOOR_LM == 1
EEPROM_FP_MAGIC == 90
EEPROM_FP_VERSION == 1

Cleared == <<0, 0, SIG_T1_H>>
Unseen == [flow |-> 0, hour |-> 0]

-----------------------------------------------------------------------------
(* ConsumptionSignature                                                    *)

\* setParams: a period that is none becomes the day.
Usable(p) == IF p[3] = 0 THEN [p EXCEPT ![3] = SIG_T1_H] ELSE p

\* The sine of the hour, at the quarter of the period it falls in.
Sine(hour, period) == <<0, 1, 0, -1>>[(((4 * hour) \div period) % 4) + 1]

Predict(p, hour) ==
  LET w == p[1] + (p[2] * Sine(hour, p[3])) IN IF w < 0 THEN 0 ELSE w

IsNight(hour) ==
  IF SIG_NIGHT_START_H <= SIG_NIGHT_END_H
  THEN hour >= SIG_NIGHT_START_H /\ hour < SIG_NIGHT_END_H
  ELSE hour >= SIG_NIGHT_START_H \/ hour < SIG_NIGHT_END_H

Exceeds(p, flow, hour, margin) ==
  flow >= SIG_FLOW_FLOOR_LM /\ flow > Predict(p, hour) + margin

Classify(p, flow, hour) ==
  IF IsNight(hour)
  THEN IF Exceeds(p, flow, hour, SIG_LEAK_MARGIN_LM) THEN "NightLeak" ELSE "Ok"
  ELSE IF Exceeds(p, flow, hour, SIG_OVER_MARGIN_LM) THEN "Overuse" ELSE "Ok"

-----------------------------------------------------------------------------
(* The record and the message                                              *)

Image(p) == <<EEPROM_FP_MAGIC, EEPROM_FP_VERSION>> \o p \o <<CrcOf(p)>>
Stored == SubSeq(ee, 3, 5)

\* Mutant: the version is enough.
LoadableUnchecked == ee[1] = EEPROM_FP_MAGIC /\ ee[2] = EEPROM_FP_VERSION

Loadable ==
  /\ ee[1] = EEPROM_FP_MAGIC /\ ee[2] = EEPROM_FP_VERSION
  /\ ee[6] = CrcOf(Stored)

\* parseFingerprint needs the mean; what else is missing has a default.
Meant(m) == "w" \in m.keys
Parsed(m) == <<m.w, IF "a" \in m.keys THEN m.a ELSE 0,
                    IF "t" \in m.keys THEN m.t ELSE SIG_T1_H>>

SignatureInit ==
  /\ pc = "off" /\ valid = FALSE /\ params = Cleared
  /\ leakFlag = FALSE /\ overFlag = FALSE /\ seen = Unseen
  /\ ee = [i \in 1..6 |-> 255] /\ img = ee /\ at = 1
  /\ retained = {} /\ sent = {} /\ sends = 0 /\ crashes = 0
  /\ valve = "none" /\ asked = "none"

\* Mutant: the record is used as it is.
BootRaw ==
  /\ pc = "off" /\ pc' = "idle"
  /\ valid' = Loadable
  /\ params' = IF Loadable THEN Stored ELSE Cleared
  /\ leakFlag' = FALSE /\ overFlag' = FALSE /\ seen' = Unseen
  /\ UNCHANGED <<rom, cloud, orders, crashes>>

\* begin(): the flags are cleared and the record is loaded if it can be.
Boot ==
  /\ pc = "off" /\ pc' = "idle"
  /\ valid' = Loadable
  /\ params' = IF Loadable THEN Usable(Stored) ELSE Cleared
  /\ leakFlag' = FALSE /\ overFlag' = FALSE /\ seen' = Unseen
  /\ UNCHANGED <<rom, cloud, orders, crashes>>

\* Mutant: the fingerprint in use stays, and is what is saved.
AcceptFirst(p) ==
  /\ valid' = TRUE /\ params' = IF valid THEN params ELSE Usable(p)
  /\ img' = Image(params') /\ at' = 1 /\ pc' = "put"

\* onFingerprint: the parameters are used, and a save begins.
Accept(p) ==
  /\ valid' = TRUE /\ params' = Usable(p)
  /\ img' = Image(p) /\ at' = 1 /\ pc' = "put"

\* onMessage on the fingerprint topic.
OnFingerprint ==
  /\ pc = "idle"
  /\ \E m \in retained : Meant(m) /\ Accept(Parsed(m))
  /\ UNCHANGED <<leakFlag, overFlag, seen, ee, cloud, orders, crashes>>

\* What payloads make the meter do.
Orders == {[does |-> ParseCommand(Trimmed(c.payload)), says |-> c.says] : c \in Payloads}

\* onMessage on the command topic, and onCommand.  (The coil and the save that follows
\* are MeterCore's.)
OnCommand ==
  /\ pc = "idle"
  /\ \E o \in Orders :
       /\ valve' = IF o.does = "none" THEN valve ELSE o.does
       /\ asked' = IF o.says = "none" THEN asked ELSE o.says
  /\ UNCHANGED <<pc, ram, rom, cloud, crashes>>

PutCell ==
  /\ pc = "put"
  /\ ee' = [ee EXCEPT ![at] = img[at]]
  /\ IF at = 6 THEN pc' = "idle" /\ at' = 1 ELSE at' = at + 1 /\ UNCHANGED pc
  /\ UNCHANGED <<ram, img, cloud, orders, crashes>>

\* evaluateSignature, at an hour the modem knows or not.
Evaluate ==
  /\ pc = "idle"
  /\ \/ /\ leakFlag' = FALSE /\ overFlag' = FALSE /\ seen' = Unseen
     \/ /\ valid
        /\ \E flow \in Flows, hour \in Hours :
             /\ seen' = [flow |-> flow, hour |-> hour]
             /\ leakFlag' = (Classify(params, flow, hour) = "NightLeak")
             /\ overFlag' = (Classify(params, flow, hour) = "Overuse")
  /\ UNCHANGED <<pc, valid, params, rom, cloud, orders, crashes>>

\* The cloud replaces the retained message.
CloudSends ==
  /\ sends < MaxSends /\ sends' = sends + 1
  /\ \E m \in Messages :
       /\ retained' = {m}
       /\ sent' = IF Meant(m) THEN sent \cup {Parsed(m)} ELSE sent
  /\ UNCHANGED <<pc, ram, rom, orders, crashes>>

\* Power goes, between any two cells.
Crash ==
  /\ pc # "off" /\ crashes < MaxCrashes
  /\ pc' = "off" /\ crashes' = crashes + 1
  /\ valid' = FALSE /\ params' = Cleared /\ leakFlag' = FALSE /\ overFlag' = FALSE
  /\ seen' = Unseen /\ img' = [i \in 1..6 |-> 255] /\ at' = 1
  /\ UNCHANGED <<ee, cloud, orders>>

SignatureNext ==
  Boot \/ OnFingerprint \/ OnCommand \/ PutCell \/ Evaluate \/ CloudSends \/ Crash

\* Power comes back, and a save goes on; the rest owes nothing.  Neither does OnFingerprint:
\* in every session that subscribes the broker hands over the retained message, but the
\* clock is asked in data mode, before loop() reads or while it waits, and what the modem
\* had to say until then is thrown away, the message with it (cleanInput, receive).
SignatureSpec ==
  /\ SignatureInit /\ [][SignatureNext]_signatureVars
  /\ WF_signatureVars(Boot) /\ WF_signatureVars(PutCell)

-----------------------------------------------------------------------------
(* Properties                                                              *)

\* What the crc of a record cannot tell from a fingerprint that was sent, or from one
\* whose save stopped before the first crc was ever written.
Collides(p) == CrcOf(p) = 255 \/ \E q \in sent : CrcOf(p) = CrcOf(q)

\* A verdict is about a household's fingerprint: when one is made, some fingerprint that was
\* sent, whole, calls the flow a leak or overuse at that hour, whatever power losses left in
\* the EEPROM (loadFingerprint, setParams, classify).
VerdictIsOfASentPrint ==
  [][(leakFlag' \/ overFlag') /\ <<leakFlag, overFlag, seen>>' # <<leakFlag, overFlag, seen>>
     => \/ \E p \in sent :
             Classify(Usable(p), seen'.flow, seen'.hour) = IF leakFlag' THEN "NightLeak"
                                                                       ELSE "Overuse"
        \/ Stored \notin sent /\ Collides(Stored)]_signatureVars

\* The valve is where the last command told it to go: the words and the number of "v" are
\* understood with blanks, line ends and a terminator around them and other members beside
\* it, and nothing that says nothing moves the valve (onMessage, parseCommand).
ValveAsAsked == valve = asked

\* A restart changes no verdict: when no save is under way, the record holds the
\* parameters in use, or would be turned into them by setParams.
RestartChangesNothing ==
  pc = "idle" /\ valid => Loadable /\ Usable(Stored) = params

\* As long as there is always one more session in which the retained message gets through,
\* the fingerprint the broker retains comes into use and is what a restart would load,
\* again after power losses, even when they tore the record (onFingerprint,
\* saveFingerprint).  That there is one is a premise: nothing in the meter sees to it.
FingerprintComesBack ==
  ([]<><<OnFingerprint>>_signatureVars) =>
    \A m \in {x \in Messages : Meant(x)} :
      [](retained = {m} => <>(\/ retained # {m}
                              \/ /\ pc = "idle" /\ valid /\ params = Usable(Parsed(m))
                                 /\ Loadable /\ Usable(Stored) = params))
=============================================================================
