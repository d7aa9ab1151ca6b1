----------------------------- MODULE MeterCore ------------------------------
(***************************************************************************)
(* The metering core of the waterbox: the pulse interrupt and FlowMeter,   *)
(* the latching valve, and the EEPROM image of MeterStore, as WaterboxFsm  *)
(* drives them from service(), onCommand(), the publish step and begin().  *)
(*                                                                         *)
(* Main-loop code, the pulse interrupt, the clock and a loss of power are  *)
(* interleaved.  Power may go, or the watchdog bite, between any two       *)
(* bytes of an EEPROM write.                                               *)
(***************************************************************************)
EXTENDS Crc8

CONSTANTS
  SampleTicks,    \* FLOW_SAMPLE_MS in clock ticks
  SaveTicks,      \* EEPROM_SAVE_MS in clock ticks
  StoredPulses,   \* edges before the model starts
  BlankEeprom,    \* the EEPROM has never been written
  Bursts,         \* how many edges may come between two steps of the main thread
  MaxEdges,       \* bound: sensor edges from the start on
  MaxPublishes,   \* bound: publishes the broker connection accepts
  MaxCrashes      \* bound: power losses and watchdog resets

ASSUME CoreAssumption ==
  /\ SampleTicks \in Nat \ {0}
  /\ SaveTicks \in Nat \ {0}
  /\ StoredPulses \in Nat
  /\ BlankEeprom \in BOOLEAN
  /\ Bursts \subseteq Nat \ {0}
  /\ MaxEdges \in Nat
  /\ MaxPublishes \in Nat
  /\ MaxCrashes \in Nat

\* Totals fit into the four pulse bytes.
ASSUME TotalsFit == (StoredPulses + MaxEdges) \div 16777216 < 256

VARIABLES
  pc,           \* where the main thread is; "off" while there is no power
  edges,        \* falling edges the sensor produced since installation
  pulseCount,   \* FlowMeter::pulseCount_, written by the interrupt
  edgeLatched,  \* the CPU's interrupt flag while interrupts are masked
  taken,        \* the local n of takePulses
  totalPulses,  \* FlowMeter::totalPulses_
  sampleAge,    \* millis() - oldTime_, saturating at SampleTicks
  storeDirty,   \* MeterStore::dirty_
  saveAge,      \* millis() - lastSaveMs_, saturating at SaveTicks
  open,         \* LatchingValve::open_
  latch,        \* where the valve really is; moves only under a coil pulse
  ee,           \* the EEPROM cells of the meter image
  img,          \* the image a save in progress is writing
  at,           \* the next cell that save writes
  valveKnown,   \* this boot has pulsed the coil
  published,    \* last telemetry tl_ml published in this boot, in pulses
  publishes,    \* publishes so far, for the bound
  crashes       \* crashes so far, for the bound

meterVars == <<pulseCount, edgeLatched, taken, totalPulses, sampleAge>>
storeVars == <<storeDirty, saveAge, ee, img, at>>
valveVars == <<open, latch, valveKnown>>
pubVars   == <<published, publishes>>
vars == <<pc, edges, meterVars, storeVars, valveVars, pubVars, crashes>>

-----------------------------------------------------------------------------
(* The EEPROM image: magic, version, four little-endian pulse bytes,       *)
(* valve, crc.  The crc covers the pulse bytes and the valve.              *)

Magic == 165
Version == 1
Addr == 1..8
PulseAddr == 3..6

\* The covered bytes.  The top pulse byte is not cut to eight bits: TotalsFit.
Covered(p, isOpen) ==
  <<p % 256, (p \div 256) % 256, (p \div 65536) % 256, p \div 16777216,
    IF isOpen THEN 1 ELSE 0>>

ImageOf(p, isOpen) ==
  LET d == Covered(p, isOpen)
  IN  <<Magic, Version, d[1], d[2], d[3], d[4], d[5], CrcOf(d)>>

ErasedImage == [a \in Addr |-> 255]

\* What load() accepts, and the total and valve position it returns.
Valid(m) == /\ m[1] = Magic /\ m[2] = Version
            /\ CrcOf(<<m[3], m[4], m[5], m[6], m[7]>>) = m[8]
PulsesIn(m) == m[3] + 256 * m[4] + 65536 * m[5] + 16777216 * m[6]
OpenIn(m) == m[7] # 0

-----------------------------------------------------------------------------
\* A meter that stopped after a completed save, or one with a blank EEPROM in a
\* pipe that has already seen water.
Init ==
  /\ pc = "off"
  /\ edges = StoredPulses
  /\ latch \in BOOLEAN
  /\ ee = IF BlankEeprom THEN ErasedImage ELSE ImageOf(StoredPulses, latch)
  /\ pulseCount = 0 /\ edgeLatched = FALSE /\ taken = 0
  /\ totalPulses = 0 /\ sampleAge = 0
  /\ storeDirty = FALSE /\ saveAge = 0
  /\ img = ErasedImage /\ at = 1
  /\ open = FALSE /\ valveKnown = FALSE
  /\ published = 0 /\ publishes = 0 /\ crashes = 0

On == pc # "off"

\* Mutant: takePulses without noInterrupts().
NeverMasked == TRUE

\* noInterrupts() .. interrupts() in takePulses.
InterruptsOn == pc \notin {"masked", "copied", "cleared"}

\* The sensor closes n times.  The interrupt counts each at once, or the CPU
\* holds one until interrupts() (the window is microseconds: one edge at most).
\* With no power, or before attachInterrupt, nobody sees them.
Edge(n) ==
  /\ edges + n <= StoredPulses + MaxEdges
  /\ edges' = edges + n
  /\ \/ ~On /\ UNCHANGED <<pulseCount, edgeLatched>>
     \/ On /\ InterruptsOn /\ pulseCount' = pulseCount + n /\ UNCHANGED edgeLatched
     \/ /\ On /\ ~InterruptsOn /\ n = 1 /\ ~edgeLatched
        /\ edgeLatched' = TRUE /\ UNCHANGED pulseCount
  /\ UNCHANGED <<pc, taken, totalPulses, sampleAge, storeVars, valveVars, pubVars, crashes>>

\* A tick of millis(); both ages stop at the interval they are compared with.
Older(age, limit) == IF age < limit THEN age + 1 ELSE age

Tick ==
  /\ On
  /\ sampleAge' = Older(sampleAge, SampleTicks)
  /\ saveAge' = Older(saveAge, SaveTicks)
  /\ <<sampleAge', saveAge'>> # <<sampleAge, saveAge>>
  /\ UNCHANGED <<pc, edges, pulseCount, edgeLatched, taken, totalPulses, storeDirty,
                 ee, img, at, valveVars, pubVars, crashes>>

-----------------------------------------------------------------------------
\* The valve object starts as closed and leaves the coil alone.
ValveBegin == open' = FALSE /\ UNCHANGED latch

\* A coil pulse puts the latch where open_ will say it is.
Apply(isOpen) == latch' = isOpen /\ open' = isOpen

\* begin() applies the position of a valid image.
RestoreValve ==
  IF Valid(ee)
  THEN Apply(OpenIn(ee)) /\ valveKnown' = TRUE
  ELSE ValveBegin /\ valveKnown' = FALSE

\* The counters start from zero, a restored total is put back.
FlowBegin ==
  /\ pulseCount' = 0 /\ edgeLatched' = FALSE /\ taken' = 0 /\ sampleAge' = 0
  /\ totalPulses' = IF Valid(ee) THEN PulsesIn(ee) ELSE 0

\* WaterboxFsm::begin: load, valve, counters, then the interrupt is attached.
Boot ==
  /\ pc = "off"
  /\ pc' = "loop"
  /\ RestoreValve
  /\ FlowBegin
  /\ storeDirty' = FALSE /\ saveAge' = 0
  /\ img' = ErasedImage /\ at' = 1
  /\ published' = 0
  /\ UNCHANGED <<edges, ee, publishes, crashes>>

\* service() enters FlowMeter::update before a sample is due.
SkipSample ==
  /\ pc = "loop" /\ sampleAge < SampleTicks
  /\ pc' = "saveCheck"
  /\ UNCHANGED <<edges, meterVars, storeVars, valveVars, pubVars, crashes>>

\* A sample is due: oldTime_ becomes the time just read, interrupts go off.
BeginSample ==
  /\ pc = "loop" /\ sampleAge = SampleTicks
  /\ pc' = "masked" /\ sampleAge' = 0
  /\ UNCHANGED <<edges, pulseCount, edgeLatched, taken, totalPulses, storeVars,
                 valveVars, pubVars, crashes>>

CopyCount ==
  /\ pc = "masked"
  /\ pc' = "copied" /\ taken' = pulseCount
  /\ UNCHANGED <<edges, pulseCount, edgeLatched, totalPulses, sampleAge, storeVars,
                 valveVars, pubVars, crashes>>

\* Mutant: takePulses copies the counter and does not clear it.
ClearNothing ==
  /\ pc = "copied"
  /\ pc' = "cleared"
  /\ UNCHANGED <<edges, pulseCount, edgeLatched, taken, totalPulses, sampleAge, storeVars,
                 valveVars, pubVars, crashes>>

ClearCount ==
  /\ pc = "copied"
  /\ pc' = "cleared" /\ pulseCount' = 0
  /\ UNCHANGED <<edges, edgeLatched, taken, totalPulses, sampleAge, storeVars,
                 valveVars, pubVars, crashes>>

\* interrupts(): an edge the CPU held is counted now.
Unmask ==
  /\ pc = "cleared"
  /\ pc' = "add"
  /\ pulseCount' = IF edgeLatched THEN pulseCount + 1 ELSE pulseCount
  /\ edgeLatched' = FALSE
  /\ UNCHANGED <<edges, taken, totalPulses, sampleAge, storeVars, valveVars, pubVars, crashes>>

\* Mutant: the flag is what the last sample said, and a sample without pulses
\* forgets those that were not saved yet.
ConsumeLastDirty == storeDirty' = (taken > 0)

\* service() moves the dirty flag from the flow meter to the store.
ConsumeDirty == storeDirty' = (storeDirty \/ taken > 0)

\* The rest of update().
AddPulses ==
  /\ pc = "add"
  /\ pc' = "saveCheck"
  /\ totalPulses' = totalPulses + taken
  /\ ConsumeDirty
  /\ taken' = 0
  /\ UNCHANGED <<edges, pulseCount, edgeLatched, sampleAge, saveAge, ee, img, at,
                 valveVars, pubVars, crashes>>

\* MeterStore::save builds the image from its arguments and starts to write.
StartSave(isOpen) ==
  /\ pc' = "put"
  /\ img' = ImageOf(totalPulses, isOpen) /\ at' = 1

\* saveIfDue
SaveDue == storeDirty /\ saveAge = SaveTicks

SkipSave ==
  /\ pc = "saveCheck" /\ ~SaveDue
  /\ pc' = "loop"
  /\ UNCHANGED <<edges, meterVars, storeVars, valveVars, pubVars, crashes>>

SaveIfDue ==
  /\ pc = "saveCheck" /\ SaveDue
  /\ StartSave(open)
  /\ UNCHANGED <<edges, meterVars, storeDirty, saveAge, ee, valveVars, pubVars, crashes>>

\* Mutant: a cell more than the image has is written, with whatever lies behind it.
PutCellBeyond ==
  /\ pc = "put" /\ at \in 1..9
  /\ ee' = [a \in DOMAIN ee \cup {at} |->
              IF a # at THEN ee[a] ELSE IF at \in Addr THEN img[at] ELSE 255]
  /\ at' = at + 1
  /\ UNCHANGED <<pc, edges, meterVars, storeDirty, saveAge, img, valveVars, pubVars, crashes>>

\* EEPROM.put writes the cells upwards, one at a time.
PutCell ==
  /\ pc = "put" /\ at \in Addr
  /\ ee' = [ee EXCEPT ![at] = img[at]]
  /\ at' = at + 1
  /\ UNCHANGED <<pc, edges, meterVars, storeDirty, saveAge, img, valveVars, pubVars, crashes>>

\* After the last cell save() clears the flag and takes the time.
EndSave ==
  /\ pc = "put" /\ at \notin Addr
  /\ pc' = "loop"
  /\ storeDirty' = FALSE /\ saveAge' = 0
  /\ UNCHANGED <<edges, meterVars, ee, img, at, valveVars, pubVars, crashes>>

\* onCommand: the coil pulse moves the latch, then open_ follows ..
DriveCoil(toOpen) ==
  /\ pc = "loop"
  /\ pc' = IF toOpen THEN "opening" ELSE "closing"
  /\ latch' = toOpen
  /\ UNCHANGED <<edges, meterVars, storeVars, open, valveKnown, pubVars, crashes>>

\* Mutant: persistNow() runs before open_ follows the command.
PersistBeforeFlag(toOpen) ==
  /\ pc = IF toOpen THEN "opening" ELSE "closing"
  /\ open' = toOpen /\ valveKnown' = TRUE
  /\ StartSave(open)
  /\ UNCHANGED <<edges, meterVars, storeDirty, saveAge, ee, latch, pubVars, crashes>>

\* .. and persistNow() saves it with the current total.
PersistCommand(toOpen) ==
  /\ pc = IF toOpen THEN "opening" ELSE "closing"
  /\ open' = toOpen /\ valveKnown' = TRUE
  /\ StartSave(toOpen)
  /\ UNCHANGED <<edges, meterVars, storeDirty, saveAge, ee, latch, pubVars, crashes>>

\* Mutant: telemetry goes out and nothing is persisted.
PublishOnly ==
  /\ pc = "loop" /\ publishes < MaxPublishes
  /\ publishes' = publishes + 1
  /\ published' = totalPulses
  /\ UNCHANGED <<pc, edges, meterVars, storeVars, valveVars, crashes>>

\* The Publish state: telemetry went out, persistNow() follows.  The heartbeat,
\* which the state sends whether telemetry went out or not and which persists
\* nothing, is no such publish: the worker keeps its tl_ml in a table of its own,
\* from which nothing is billed, so it does not show in "published".
Publish ==
  /\ pc = "loop" /\ publishes < MaxPublishes
  /\ publishes' = publishes + 1
  /\ published' = totalPulses
  /\ StartSave(open)
  /\ UNCHANGED <<edges, meterVars, storeDirty, saveAge, ee, valveVars, crashes>>

\* Power goes, or the watchdog resets the CPU.  RAM is gone; the EEPROM, the
\* latch and the water are not.  An EEPROM cell is written whole or not at all.
Crash ==
  /\ On /\ crashes < MaxCrashes
  /\ pc' = "off"
  /\ crashes' = crashes + 1
  /\ UNCHANGED <<edges, meterVars, storeVars, valveVars, pubVars>>

Main == \/ Boot \/ SkipSample \/ BeginSample \/ CopyCount \/ ClearCount \/ Unmask
        \/ AddPulses \/ SkipSave \/ SaveIfDue \/ PutCell \/ EndSave
        \/ Publish
        \/ \E toOpen \in BOOLEAN : DriveCoil(toOpen) \/ PersistCommand(toOpen)

Next == Main \/ Tick \/ Crash \/ \E n \in Bursts : Edge(n)

Spec == Init /\ [][Next]_vars

\* loop() calls tick() for ever and millis() never stops; the radio layer keeps
\* calling service() while it waits.  Nothing obliges water or power to do anything.
FairSpec == Spec /\ WF_vars(Main) /\ WF_vars(Tick)

-----------------------------------------------------------------------------
PCs == {"off", "loop", "masked", "copied", "cleared", "add", "saveCheck", "put",
        "opening", "closing"}

\* The shape of the state.  The crc cell is left to Crc8.
FlagsOK ==
  /\ edgeLatched \in BOOLEAN /\ storeDirty \in BOOLEAN
  /\ open \in BOOLEAN /\ latch \in BOOLEAN /\ valveKnown \in BOOLEAN

CellsOK(m) ==
  DOMAIN m = Addr /\ m[6] \in Nat /\ \A a \in {3, 4, 5, 7} : m[a] \in Byte

CountersOK ==
  /\ pc \in PCs
  /\ edges \in Nat /\ pulseCount \in Nat /\ taken \in Nat /\ totalPulses \in Nat
  /\ sampleAge \in 0..SampleTicks /\ saveAge \in 0..SaveTicks
  /\ at \in 1..9
  /\ published \in Nat /\ publishes \in Nat /\ crashes \in Nat

TypeOK == FlagsOK /\ CountersOK /\ CellsOK(ee) /\ CellsOK(img)

\* Pulses the meter has seen in this boot, wherever they are at the moment.
InFlight == IF pc \in {"cleared", "add"} THEN taken ELSE 0
Held == IF edgeLatched THEN 1 ELSE 0
Counted == totalPulses + InFlight + pulseCount + Held

\* The meter never bills water that did not flow: neither the running total nor
\* any total a restart would accept exceeds the edges the sensor produced,
\* whatever mixture of two images a power loss leaves behind and even if the
\* crc accepts it (FlowMeter::takePulses, MeterStore::save and load).
NoPhantomPulses ==
  /\ On => Counted <= edges
  /\ Valid(ee) => ee[6] <= edges \div 16777216 /\ PulsesIn(ee) <= edges

\* While the meter has power every edge is counted once: none is lost or
\* doubled between the interrupt, takePulses and update ("pulses keep counting
\* in every state").
PulsesConserved == [][On /\ On' => Counted' - Counted = edges' - edges]_vars

\* Once this boot has pulsed the coil, the position the meter reports is the
\* position of the valve, except during a coil pulse (LatchingValve, begin,
\* onCommand).
ValveReportTrue ==
  valveKnown /\ pc \notin {"off", "opening", "closing"} => open = latch

\* Outside a save, an image that a restart would accept holds the valve position
\* the meter reports, so a restart does not move the valve (onCommand persists
\* each command).
StoredValveMatches ==
  pc \notin {"off", "put", "opening", "closing"} /\ Valid(ee) => OpenIn(ee) = open

\* A total that was published, and whose save has finished, is not lost by a
\* restart: the image holds at least that much (persistNow after publishTelemetry).
PublishedIsStored ==
  On /\ pc # "put" /\ published > 0 => Valid(ee) /\ PulsesIn(ee) >= published

-----------------------------------------------------------------------------
(* What makes the safety properties inductive.                             *)

\* The copy that takePulses made is still the counter until it is cleared.
CopyFresh == pc = "copied" => taken = pulseCount

\* A save writes the image of the total and position the meter reports now, and
\* the cells below "at" already hold it.
SaveInProgress ==
  pc = "put" => /\ img = ImageOf(totalPulses, open)
                /\ \A a \in Addr : a < at => ee[a] = img[a]

\* Between the coil pulse and persistNow the latch is where the command put it.
CoilDriven ==
  /\ pc = "opening" => latch = TRUE
  /\ pc = "closing" => latch = FALSE

PublishedCounted == On => published <= totalPulses

StoreInv == /\ TypeOK
            /\ CopyFresh /\ SaveInProgress /\ CoilDriven /\ PublishedCounted
            /\ ValveReportTrue /\ StoredValveMatches /\ PublishedIsStored

\* The value of the pulse cells at address k and above.
CellsFrom(m, k) ==
  (IF k <= 3 THEN m[3] ELSE 0) + (IF k <= 4 THEN 256 * m[4] ELSE 0)
  + (IF k <= 5 THEN 65536 * m[5] ELSE 0) + (IF k <= 6 THEN 16777216 * m[6] ELSE 0)

\* The cells a save has not reached yet.
OldCells == CellsFrom(ee, IF pc = "put" THEN at ELSE 1)

\* Either the old cells are covered by the running total, because it continued
\* from them, or the total started again from zero and both fit under the edges.
\* So no mixture of old and new cells exceeds the edges.
Ledger ==
  /\ On => /\ Counted <= edges
           /\ OldCells <= totalPulses \/ OldCells + Counted <= edges
  /\ pc = "off" => PulsesIn(ee) <= edges

\* The running totals the leads-to below asks about: the first pulse past zero,
\* where a meter with a spoilt image starts again, and the first and the last one
\* past the total the meter was installed with.
Totals == {1, StoredPulses + 1, StoredPulses + MaxEdges}

\* Whatever the running total has reached also reaches the EEPROM, in an image a
\* restart would accept, unless power goes first: no sample, command or publish
\* between a pulse and the rate-limited save makes the store forget that it is
\* behind (FlowMeter::update, consumeDirty, service, saveIfDue, save).
CountedIsSaved ==
  \A n \in Totals :
    (On /\ totalPulses >= n) ~> (~On \/ (Valid(ee) /\ PulsesIn(ee) >= n))

-----------------------------------------------------------------------------
\* The account behind the pulses: what MeterCore promises about the water.
Account == INSTANCE WaterAccount WITH
  powered  <- On,
  flowed   <- edges,
  counted  <- IF On THEN Counted ELSE 0,
  reported <- IF On THEN published ELSE 0,
  writing  <- pc = "put",
  readable <- Valid(ee),
  kept     <- PulsesIn(ee)

\* The metering core keeps the account: it counts the flow while it has power,
\* rewrites the record only in a save, shows a total only together with a save,
\* a finished save covers what was shown, a restart counts on from the record,
\* and a record that power loss left half written is never worth more than the
\* water that flowed (isr, takePulses, update, save, load, begin, publish step).
KeepsAccount == Account!Spec
=============================================================================
