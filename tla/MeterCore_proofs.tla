-------------------------- MODULE MeterCore_proofs --------------------------
(***************************************************************************)
(* Theorems about the metering core, for all intervals, bounds, stored     *)
(* totals and bursts.                                                      *)
(*                                                                         *)
(* The argument of NoPhantoms does not look at the crc.  While a save      *)
(* copies the cells of the image from the low byte up, the new cells below *)
(* "at" and the old cells from "at" on always add up to at most the edges: *)
(* either the old total was where this boot started counting, and then the *)
(* old high bytes are not above the new ones, or this boot started from    *)
(* zero, and then the old and the new total fit under the edges together.  *)
(* That is Ledger; OldCellsStep, StepConserves and CountedBounds carry it  *)
(* through every step, and ReadBound draws the conclusion.                 *)
(***************************************************************************)
EXTENDS MeterCore, WellFoundedInduction, TLAPS

\* The covered bytes of a total are bytes, and they add up to it (crc8's data,
\* the little-endian pulses of EepromImage).
LEMMA Bytes ==
  ASSUME NEW p \in Nat
  PROVE  /\ p % 256 \in 0..255 /\ (p \div 256) % 256 \in 0..255
         /\ (p \div 65536) % 256 \in 0..255 /\ p \div 16777216 \in Nat
         /\ p = (p % 256) + 256 * ((p \div 256) % 256)
                + 65536 * ((p \div 65536) % 256) + 16777216 * (p \div 16777216)
<1> DEFINE q == p \div 256
           r == p \div 65536
           s == p \div 16777216
<1>1. p % 256 \in 0..255 /\ q \in Nat /\ p = (p % 256) + 256 * q
  OBVIOUS
<1>2. r \in Nat /\ r = q \div 256
  OBVIOUS
<1>3. s \in Nat /\ s = r \div 256
  OBVIOUS
<1>4. q % 256 \in 0..255 /\ q = (q % 256) + 256 * r
  <2> HIDE DEF q, r
  <2> QED BY <1>1, <1>2
<1>5. r % 256 \in 0..255 /\ r = (r % 256) + 256 * s
  <2> HIDE DEF r, s
  <2> QED BY <1>2, <1>3
<1> HIDE DEF q, r, s
<1>6. p = (p % 256) + 256 * (q % 256) + 65536 * (r % 256) + 16777216 * s
  BY <1>1, <1>2, <1>3, <1>4, <1>5
<1> QED BY <1>1, <1>3, <1>4, <1>5, <1>6 DEF q, r, s

\* The pulse cells of the image that save() builds are worth the total.
LEMMA CellsOfTotal ==
  ASSUME NEW p \in Nat, NEW o \in BOOLEAN
  PROVE  LET m == ImageOf(p, o)
         IN  /\ DOMAIN m = Addr
             /\ m[3] \in 0..255 /\ m[4] \in 0..255 /\ m[5] \in 0..255 /\ m[6] \in Nat
             /\ p = m[3] + 256 * m[4] + 65536 * m[5] + 16777216 * m[6]
<1> DEFINE m == ImageOf(p, o)
<1>1. /\ DOMAIN m = Addr
      /\ m[3] = p % 256 /\ m[4] = (p \div 256) % 256
      /\ m[5] = (p \div 65536) % 256 /\ m[6] = p \div 16777216
  <2> HIDE DEF CrcOf
  <2> QED BY DEF ImageOf, Covered, Addr
<1> HIDE DEF m
<1>2. m[3] \in 0..255 /\ m[4] \in 0..255 /\ m[5] \in 0..255 /\ m[6] \in Nat
  BY <1>1, Bytes
<1>3. p = m[3] + 256 * m[4] + 65536 * m[5] + 16777216 * m[6]
  BY <1>1, Bytes
<1> QED BY <1>1, <1>2, <1>3 DEF m

\* Erased cells have the shape of cells.
LEMMA ErasedShape == CellsOK(ErasedImage)
  BY DEF ErasedImage, Addr, Byte, CellsOK

\* The image that save() builds has the shape of cells.
LEMMA ImageShape ==
  ASSUME NEW p \in Nat, NEW o \in BOOLEAN
  PROVE  CellsOK(ImageOf(p, o))
<1> DEFINE m == ImageOf(p, o)
<1>1. /\ DOMAIN m = Addr
      /\ m[3] \in 0..255 /\ m[4] \in 0..255 /\ m[5] \in 0..255 /\ m[6] \in Nat
  BY CellsOfTotal
<1> HIDE DEF m
<1>2. \A a \in {3, 4, 5, 7} : m[a] \in Byte
  <2>1. m[7] = IF o THEN 1 ELSE 0
    BY DEF m, ImageOf, Covered
  <2> QED BY <1>1, <2>1 DEF Byte
<1> QED BY <1>1, <1>2 DEF m, CellsOK

\* Cells of the right shape are numbers.
LEMMA CellsAreNumbers ==
  ASSUME NEW m, CellsOK(m)
  PROVE  m[3] \in 0..255 /\ m[4] \in 0..255 /\ m[5] \in 0..255 /\ m[6] \in Nat
  BY DEF CellsOK, Byte

\* What load() reads from cells of the right shape is a total.
LEMMA TotalOfCells == ASSUME NEW m, CellsOK(m) PROVE PulsesIn(m) \in Nat
<1>1. m[3] \in Nat /\ m[4] \in Nat /\ m[5] \in Nat /\ m[6] \in Nat
  BY CellsAreNumbers
<1>2. 256 * m[4] \in Nat /\ 65536 * m[5] \in Nat /\ 16777216 * m[6] \in Nat
  BY <1>1
<1> QED BY <1>1, <1>2 DEF PulsesIn

\* The part of the cells that a save has not reached is worth a number.
LEMMA CellsWorth == ASSUME NEW m, CellsOK(m), NEW k \in 1..9 PROVE CellsFrom(m, k) \in Nat
<1>1. m[3] \in Nat /\ m[4] \in Nat /\ m[5] \in Nat /\ m[6] \in Nat
  BY CellsAreNumbers
<1>2. 256 * m[4] \in Nat /\ 65536 * m[5] \in Nat /\ 16777216 * m[6] \in Nat
  BY <1>1
<1> QED BY <1>1, <1>2 DEF CellsFrom

\* The state keeps its shape.
THEOREM TypeCorrect == Spec => []TypeOK
<1> USE CoreAssumption DEF PCs
<1>1. Init => TypeOK
  <2> SUFFICES ASSUME Init PROVE TypeOK
    OBVIOUS
  <2>1. CellsOK(ee)
    BY ErasedShape, ImageShape, Zenon DEF Init
  <2>2. CellsOK(img)
    BY ErasedShape DEF Init
  <2>3. FlagsOK
    BY Zenon DEF Init, FlagsOK
  <2>4. CountersOK
    BY DEF Init, CountersOK
  <2> QED BY <2>1, <2>2, <2>3, <2>4 DEF TypeOK
<1>2. TypeOK /\ [Next]_vars => TypeOK'
  <2> SUFFICES ASSUME TypeOK, [Next]_vars PROVE TypeOK'
    OBVIOUS
  <2> USE DEF TypeOK
  <2>1. CASE Boot
    <3>1. FlagsOK'
      BY <2>1, Zenon DEF Boot, RestoreValve, Apply, ValveBegin, FlowBegin, OpenIn, FlagsOK
    <3>2. CountersOK'
      BY <2>1, TotalOfCells DEF Boot, RestoreValve, Apply, ValveBegin, FlowBegin, OpenIn, CountersOK
    <3>3. CellsOK(ee)' /\ CellsOK(img)'
      BY <2>1, ErasedShape DEF Boot, RestoreValve, Apply, ValveBegin, FlowBegin, OpenIn
    <3> QED BY <3>1, <3>2, <3>3
  <2>2. CASE SkipSample
    <3>1. FlagsOK'
      BY <2>2, Zenon DEF SkipSample, meterVars, storeVars, valveVars, pubVars, FlagsOK
    <3>2. CountersOK'
      BY <2>2 DEF SkipSample, meterVars, storeVars, valveVars, pubVars, CountersOK
    <3>3. CellsOK(ee)' /\ CellsOK(img)'
      BY <2>2 DEF SkipSample, meterVars, storeVars, valveVars, pubVars
    <3> QED BY <3>1, <3>2, <3>3
  <2>3. CASE BeginSample
    <3>1. FlagsOK'
      BY <2>3, Zenon DEF BeginSample, storeVars, valveVars, pubVars, FlagsOK
    <3>2. CountersOK'
      BY <2>3 DEF BeginSample, storeVars, valveVars, pubVars, CountersOK
    <3>3. CellsOK(ee)' /\ CellsOK(img)'
      BY <2>3 DEF BeginSample, storeVars, valveVars, pubVars
    <3> QED BY <3>1, <3>2, <3>3
  <2>4. CASE CopyCount
    <3>1. FlagsOK'
      BY <2>4, Zenon DEF CopyCount, storeVars, valveVars, pubVars, FlagsOK
    <3>2. CountersOK'
      BY <2>4 DEF CopyCount, storeVars, valveVars, pubVars, CountersOK
    <3>3. CellsOK(ee)' /\ CellsOK(img)'
      BY <2>4 DEF CopyCount, storeVars, valveVars, pubVars
    <3> QED BY <3>1, <3>2, <3>3
  <2>5. CASE ClearCount
    <3>1. FlagsOK'
      BY <2>5, Zenon DEF ClearCount, storeVars, valveVars, pubVars, FlagsOK
    <3>2. CountersOK'
      BY <2>5 DEF ClearCount, storeVars, valveVars, pubVars, CountersOK
    <3>3. CellsOK(ee)' /\ CellsOK(img)'
      BY <2>5 DEF ClearCount, storeVars, valveVars, pubVars
    <3> QED BY <3>1, <3>2, <3>3
  <2>6. CASE Unmask
    <3>1. FlagsOK'
      BY <2>6, Zenon DEF Unmask, storeVars, valveVars, pubVars, FlagsOK
    <3>2. CountersOK'
      BY <2>6 DEF Unmask, storeVars, valveVars, pubVars, CountersOK
    <3>3. CellsOK(ee)' /\ CellsOK(img)'
      BY <2>6 DEF Unmask, storeVars, valveVars, pubVars
    <3> QED BY <3>1, <3>2, <3>3
  <2>7. CASE AddPulses
    <3>1. FlagsOK'
      BY <2>7, Zenon DEF AddPulses, ConsumeDirty, valveVars, pubVars, FlagsOK
    <3>2. CountersOK'
      BY <2>7 DEF AddPulses, ConsumeDirty, valveVars, pubVars, CountersOK
    <3>3. CellsOK(ee)' /\ CellsOK(img)'
      BY <2>7 DEF AddPulses, ConsumeDirty, valveVars, pubVars
    <3> QED BY <3>1, <3>2, <3>3
  <2>8. CASE SkipSave
    <3>1. FlagsOK'
      BY <2>8, Zenon DEF SkipSave, meterVars, storeVars, valveVars, pubVars, FlagsOK
    <3>2. CountersOK'
      BY <2>8 DEF SkipSave, meterVars, storeVars, valveVars, pubVars, CountersOK
    <3>3. CellsOK(ee)' /\ CellsOK(img)'
      BY <2>8 DEF SkipSave, meterVars, storeVars, valveVars, pubVars
    <3> QED BY <3>1, <3>2, <3>3
  <2>9. CASE SaveIfDue
    <3>1. FlagsOK'
      BY <2>9, Zenon DEF SaveIfDue, StartSave, meterVars, valveVars, pubVars, FlagsOK
    <3>2. CountersOK'
      BY <2>9 DEF SaveIfDue, StartSave, meterVars, valveVars, pubVars, CountersOK
    <3>3. CellsOK(ee)' /\ CellsOK(img)'
      BY <2>9, ImageShape
      DEF SaveIfDue, StartSave, meterVars, valveVars, pubVars, FlagsOK, CountersOK
    <3> QED BY <3>1, <3>2, <3>3
  <2>10. CASE PutCell
    <3>1. FlagsOK'
      BY <2>10, Zenon DEF PutCell, meterVars, valveVars, pubVars, FlagsOK
    <3>2. CountersOK'
      BY <2>10 DEF PutCell, meterVars, valveVars, pubVars, CountersOK, Addr
    <3>3. CellsOK(ee)' /\ CellsOK(img)'
      BY <2>10 DEF PutCell, meterVars, valveVars, pubVars, CellsOK, Addr
    <3> QED BY <3>1, <3>2, <3>3
  <2>11. CASE EndSave
    <3>1. FlagsOK'
      BY <2>11, Zenon DEF EndSave, meterVars, valveVars, pubVars, FlagsOK
    <3>2. CountersOK'
      BY <2>11 DEF EndSave, meterVars, valveVars, pubVars, CountersOK
    <3>3. CellsOK(ee)' /\ CellsOK(img)'
      BY <2>11 DEF EndSave, meterVars, valveVars, pubVars
    <3> QED BY <3>1, <3>2, <3>3
  <2>12. CASE Publish
    <3>1. FlagsOK'
      BY <2>12, Zenon DEF Publish, StartSave, meterVars, valveVars, FlagsOK
    <3>2. CountersOK'
      BY <2>12 DEF Publish, StartSave, meterVars, valveVars, CountersOK
    <3>3. CellsOK(ee)' /\ CellsOK(img)'
      BY <2>12, ImageShape DEF Publish, StartSave, meterVars, valveVars, FlagsOK, CountersOK
    <3> QED BY <3>1, <3>2, <3>3
  <2>13. ASSUME NEW toOpen \in BOOLEAN, DriveCoil(toOpen) PROVE TypeOK'
    <3>1. FlagsOK'
      BY <2>13, Zenon DEF DriveCoil, meterVars, storeVars, pubVars, FlagsOK
    <3>2. CountersOK'
      BY <2>13 DEF DriveCoil, meterVars, storeVars, pubVars, CountersOK
    <3>3. CellsOK(ee)' /\ CellsOK(img)'
      BY <2>13 DEF DriveCoil, meterVars, storeVars, pubVars
    <3> QED BY <3>1, <3>2, <3>3
  <2>14. ASSUME NEW toOpen \in BOOLEAN, PersistCommand(toOpen) PROVE TypeOK'
    <3>1. FlagsOK'
      BY <2>14, Zenon DEF PersistCommand, StartSave, meterVars, pubVars, FlagsOK
    <3>2. CountersOK'
      BY <2>14 DEF PersistCommand, StartSave, meterVars, pubVars, CountersOK
    <3>3. CellsOK(ee)' /\ CellsOK(img)'
      BY <2>14, ImageShape DEF PersistCommand, StartSave, meterVars, pubVars, FlagsOK, CountersOK
    <3> QED BY <3>1, <3>2, <3>3
  <2>15. CASE Tick
    <3>1. FlagsOK'
      BY <2>15, Zenon DEF Tick, Older, valveVars, pubVars, FlagsOK
    <3>2. CountersOK'
      BY <2>15 DEF Tick, Older, valveVars, pubVars, CountersOK
    <3>3. CellsOK(ee)' /\ CellsOK(img)'
      BY <2>15 DEF Tick, Older, valveVars, pubVars
    <3> QED BY <3>1, <3>2, <3>3
  <2>16. CASE Crash
    <3>1. FlagsOK'
      BY <2>16, Zenon DEF Crash, meterVars, storeVars, valveVars, pubVars, FlagsOK
    <3>2. CountersOK'
      BY <2>16 DEF Crash, meterVars, storeVars, valveVars, pubVars, CountersOK
    <3>3. CellsOK(ee)' /\ CellsOK(img)'
      BY <2>16 DEF Crash, meterVars, storeVars, valveVars, pubVars
    <3> QED BY <3>1, <3>2, <3>3
  <2>17. ASSUME NEW n \in Bursts, Edge(n) PROVE TypeOK'
    <3>1. FlagsOK'
      BY <2>17, Zenon DEF Edge, storeVars, valveVars, pubVars, FlagsOK
    <3>2. CountersOK'
      BY <2>17 DEF Edge, storeVars, valveVars, pubVars, CountersOK
    <3>3. CellsOK(ee)' /\ CellsOK(img)'
      BY <2>17 DEF Edge, storeVars, valveVars, pubVars
    <3> QED BY <3>1, <3>2, <3>3
  <2>18. CASE UNCHANGED vars
    <3>1. FlagsOK'
      BY <2>18, Zenon DEF vars, meterVars, storeVars, valveVars, pubVars, FlagsOK
    <3>2. CountersOK'
      BY <2>18 DEF vars, meterVars, storeVars, valveVars, pubVars, CountersOK
    <3>3. CellsOK(ee)' /\ CellsOK(img)'
      BY <2>18 DEF vars, meterVars, storeVars, valveVars, pubVars
    <3> QED BY <3>1, <3>2, <3>3
  <2> QED BY <2>1, <2>2, <2>3, <2>4, <2>5, <2>6, <2>7, <2>8, <2>9,
             <2>10, <2>11, <2>12, <2>13, <2>14, <2>15, <2>16, <2>17, <2>18 DEF Next, Main
<1> QED BY <1>1, <1>2, PTL DEF Spec

\* A finished save is an image that load() accepts and reads back unchanged.
LEMMA SavedImage ==
  ASSUME NEW p \in Nat, NEW o \in BOOLEAN, NEW m,
         \A a \in Addr : m[a] = ImageOf(p, o)[a]
  PROVE  Valid(m) /\ PulsesIn(m) = p /\ OpenIn(m) = o
<1> DEFINE i == ImageOf(p, o)
<1>1. \A a \in Addr : m[a] = i[a]
  OBVIOUS
<1>2. /\ m[1] = i[1] /\ m[2] = i[2] /\ m[3] = i[3] /\ m[4] = i[4]
      /\ m[5] = i[5] /\ m[6] = i[6] /\ m[7] = i[7] /\ m[8] = i[8]
  <2> HIDE DEF i
  <2> QED BY <1>1 DEF Addr
<1>3. Valid(m)
  BY <1>2 DEF Valid, ImageOf, Covered
<1>4. PulsesIn(m) = p
  BY <1>2, CellsOfTotal DEF PulsesIn
<1>5. OpenIn(m) = o
  <2>1. m[7] = IF o THEN 1 ELSE 0
    BY <1>2 DEF ImageOf, Covered
  <2>2. CASE o = TRUE
    <3>1. m[7] # 0
      BY <2>1, <2>2
    <3> QED BY <2>2, <3>1, Zenon DEF OpenIn
  <2>3. CASE o = FALSE
    BY <2>1, <2>3 DEF OpenIn
  <2> QED BY <2>2, <2>3
<1> QED BY <1>3, <1>4, <1>5

\* A restart reads back what the meter reported: the safety of the store.
THEOREM StoreCorrect == Spec => []StoreInv
<1> DEFINE Parts == /\ CopyFresh /\ SaveInProgress /\ CoilDriven /\ PublishedCounted
                    /\ ValveReportTrue /\ StoredValveMatches /\ PublishedIsStored
<1>1. Init => Parts
  BY DEF Init, CopyFresh, SaveInProgress, CoilDriven, PublishedCounted, ValveReportTrue,
         StoredValveMatches, PublishedIsStored, On
<1>2. TypeOK /\ TypeOK' /\ Parts /\ [Next]_vars => Parts'
  <2> SUFFICES ASSUME TypeOK, TypeOK', Parts, [Next]_vars PROVE Parts'
    OBVIOUS
  <2> USE DEF TypeOK, FlagsOK, CountersOK, PCs, On
  <2>1. CASE Boot
    <3>1. ValveReportTrue'
      BY <2>1 DEF Boot, RestoreValve, Apply, ValveBegin, FlowBegin, ValveReportTrue
    <3>2. StoredValveMatches'
      BY <2>1 DEF Boot, RestoreValve, Apply, ValveBegin, FlowBegin, StoredValveMatches
    <3>3. PublishedIsStored'
      BY <2>1 DEF Boot, RestoreValve, Apply, ValveBegin, FlowBegin, PublishedIsStored
    <3>4. CopyFresh' /\ SaveInProgress' /\ CoilDriven' /\ PublishedCounted'
      BY <2>1 DEF Boot, RestoreValve, Apply, ValveBegin, FlowBegin,
         CopyFresh, SaveInProgress, CoilDriven, PublishedCounted,
         ValveReportTrue, StoredValveMatches, PublishedIsStored
    <3> QED BY <3>1, <3>2, <3>3, <3>4
  <2>2. CASE SkipSample
    BY <2>2 DEF SkipSample, meterVars, storeVars, valveVars, pubVars,
         CopyFresh, SaveInProgress, CoilDriven, PublishedCounted,
         ValveReportTrue, StoredValveMatches, PublishedIsStored
  <2>3. CASE BeginSample
    BY <2>3 DEF BeginSample, storeVars, valveVars, pubVars,
         CopyFresh, SaveInProgress, CoilDriven, PublishedCounted,
         ValveReportTrue, StoredValveMatches, PublishedIsStored
  <2>4. CASE CopyCount
    <3>1. CopyFresh'
      BY <2>4 DEF CopyCount, storeVars, valveVars, pubVars, CopyFresh
    <3>2. /\ SaveInProgress' /\ CoilDriven' /\ PublishedCounted' /\ ValveReportTrue'
         /\ StoredValveMatches' /\ PublishedIsStored'
      BY <2>4 DEF CopyCount, storeVars, valveVars, pubVars,
         CopyFresh, SaveInProgress, CoilDriven, PublishedCounted,
         ValveReportTrue, StoredValveMatches, PublishedIsStored
    <3> QED BY <3>1, <3>2
  <2>5. CASE ClearCount
    BY <2>5 DEF ClearCount, storeVars, valveVars, pubVars,
         CopyFresh, SaveInProgress, CoilDriven, PublishedCounted,
         ValveReportTrue, StoredValveMatches, PublishedIsStored
  <2>6. CASE Unmask
    BY <2>6 DEF Unmask, storeVars, valveVars, pubVars,
         CopyFresh, SaveInProgress, CoilDriven, PublishedCounted,
         ValveReportTrue, StoredValveMatches, PublishedIsStored
  <2>7. CASE AddPulses
    <3>1. PublishedCounted'
      BY <2>7 DEF AddPulses, ConsumeDirty, valveVars, pubVars, PublishedCounted
    <3>2. /\ CopyFresh' /\ SaveInProgress' /\ CoilDriven' /\ ValveReportTrue'
         /\ StoredValveMatches' /\ PublishedIsStored'
      BY <2>7 DEF AddPulses, ConsumeDirty, valveVars, pubVars,
         CopyFresh, SaveInProgress, CoilDriven, PublishedCounted,
         ValveReportTrue, StoredValveMatches, PublishedIsStored
    <3> QED BY <3>1, <3>2
  <2>8. CASE SkipSave
    BY <2>8 DEF SkipSave, meterVars, storeVars, valveVars, pubVars,
         CopyFresh, SaveInProgress, CoilDriven, PublishedCounted,
         ValveReportTrue, StoredValveMatches, PublishedIsStored
  <2>9. CASE SaveIfDue
    <3>1. SaveInProgress'
      BY <2>9 DEF SaveIfDue, StartSave, meterVars, valveVars, pubVars, SaveInProgress, Addr
    <3>2. /\ CopyFresh' /\ CoilDriven' /\ PublishedCounted' /\ ValveReportTrue'
         /\ StoredValveMatches' /\ PublishedIsStored'
      BY <2>9 DEF SaveIfDue, StartSave, meterVars, valveVars, pubVars,
         CopyFresh, SaveInProgress, CoilDriven, PublishedCounted,
         ValveReportTrue, StoredValveMatches, PublishedIsStored
    <3> QED BY <3>1, <3>2
  <2>10. CASE PutCell
    <3>1. SaveInProgress'
      BY <2>10 DEF PutCell, meterVars, valveVars, pubVars, SaveInProgress, Addr, CellsOK
    <3>2. /\ CopyFresh' /\ CoilDriven' /\ PublishedCounted' /\ ValveReportTrue'
         /\ StoredValveMatches' /\ PublishedIsStored'
      BY <2>10 DEF PutCell, meterVars, valveVars, pubVars,
         CopyFresh, SaveInProgress, CoilDriven, PublishedCounted,
         ValveReportTrue, StoredValveMatches, PublishedIsStored
    <3> QED BY <3>1, <3>2
  <2>11. CASE EndSave
    <3>1. StoredValveMatches'
      BY <2>11, SavedImage
      DEF EndSave, meterVars, valveVars, pubVars, StoredValveMatches, SaveInProgress, Addr
    <3>2. PublishedIsStored'
      BY <2>11, SavedImage
      DEF EndSave, meterVars, valveVars, pubVars, PublishedIsStored, PublishedCounted,
          SaveInProgress, Addr
    <3>3. /\ CopyFresh' /\ SaveInProgress' /\ CoilDriven' /\ PublishedCounted'
         /\ ValveReportTrue'
      BY <2>11 DEF EndSave, meterVars, valveVars, pubVars,
         CopyFresh, SaveInProgress, CoilDriven, PublishedCounted,
         ValveReportTrue, StoredValveMatches, PublishedIsStored
    <3> QED BY <3>1, <3>2, <3>3
  <2>12. CASE Publish
    <3>1. SaveInProgress'
      BY <2>12 DEF Publish, StartSave, meterVars, valveVars, SaveInProgress, Addr
    <3>2. /\ CopyFresh' /\ CoilDriven' /\ PublishedCounted' /\ ValveReportTrue'
         /\ StoredValveMatches' /\ PublishedIsStored'
      BY <2>12 DEF Publish, StartSave, meterVars, valveVars,
         CopyFresh, SaveInProgress, CoilDriven, PublishedCounted,
         ValveReportTrue, StoredValveMatches, PublishedIsStored
    <3> QED BY <3>1, <3>2
  <2>13. ASSUME NEW toOpen \in BOOLEAN, DriveCoil(toOpen) PROVE Parts'
    <3>1. CoilDriven'
      BY <2>13 DEF DriveCoil, meterVars, storeVars, pubVars, CoilDriven
    <3>2. /\ CopyFresh' /\ SaveInProgress' /\ PublishedCounted' /\ ValveReportTrue'
         /\ StoredValveMatches' /\ PublishedIsStored'
      BY <2>13 DEF DriveCoil, meterVars, storeVars, pubVars,
         CopyFresh, SaveInProgress, CoilDriven, PublishedCounted,
         ValveReportTrue, StoredValveMatches, PublishedIsStored
    <3> QED BY <3>1, <3>2
  <2>14. ASSUME NEW toOpen \in BOOLEAN, PersistCommand(toOpen) PROVE Parts'
    <3>1. SaveInProgress'
      BY <2>14 DEF PersistCommand, StartSave, meterVars, pubVars, SaveInProgress, Addr
    <3>2. ValveReportTrue'
      BY <2>14, Zenon DEF PersistCommand, StartSave, meterVars, pubVars, ValveReportTrue, CoilDriven
    <3>3. /\ CopyFresh' /\ CoilDriven' /\ PublishedCounted' /\ StoredValveMatches'
         /\ PublishedIsStored'
      BY <2>14 DEF PersistCommand, StartSave, meterVars, pubVars,
         CopyFresh, SaveInProgress, CoilDriven, PublishedCounted,
         ValveReportTrue, StoredValveMatches, PublishedIsStored
    <3> QED BY <3>1, <3>2, <3>3
  <2>15. CASE Tick
    BY <2>15 DEF Tick, valveVars, pubVars,
         CopyFresh, SaveInProgress, CoilDriven, PublishedCounted,
         ValveReportTrue, StoredValveMatches, PublishedIsStored
  <2>16. CASE Crash
    BY <2>16 DEF Crash, meterVars, storeVars, valveVars, pubVars,
         CopyFresh, SaveInProgress, CoilDriven, PublishedCounted,
         ValveReportTrue, StoredValveMatches, PublishedIsStored
  <2>17. ASSUME NEW n \in Bursts, Edge(n) PROVE Parts'
    <3>1. CopyFresh'
      BY <2>17 DEF Edge, storeVars, valveVars, pubVars, CopyFresh, InterruptsOn
    <3>2. /\ SaveInProgress' /\ CoilDriven' /\ PublishedCounted' /\ ValveReportTrue'
         /\ StoredValveMatches' /\ PublishedIsStored'
      BY <2>17 DEF Edge, storeVars, valveVars, pubVars,
         CopyFresh, SaveInProgress, CoilDriven, PublishedCounted,
         ValveReportTrue, StoredValveMatches, PublishedIsStored
    <3> QED BY <3>1, <3>2
  <2>18. CASE UNCHANGED vars
    BY <2>18 DEF vars, meterVars, storeVars, valveVars, pubVars, CopyFresh, SaveInProgress,
         CoilDriven, PublishedCounted, ValveReportTrue, StoredValveMatches, PublishedIsStored
  <2> QED BY <2>1, <2>2, <2>3, <2>4, <2>5, <2>6, <2>7, <2>8, <2>9, <2>10, <2>11, <2>12,
             <2>13, <2>14, <2>15, <2>16, <2>17, <2>18 DEF Next, Main
<1> QED BY <1>1, <1>2, TypeCorrect, PTL DEF Spec, StoreInv

\* The pulses counted in this boot are at least those already in the total.
LEMMA CountedBounds == ASSUME TypeOK PROVE Counted \in Nat /\ totalPulses <= Counted
<1>1. InFlight \in Nat /\ Held \in Nat
  BY DEF InFlight, Held, TypeOK, CountersOK
<1> QED BY <1>1 DEF Counted, TypeOK, CountersOK

\* Whatever is in the EEPROM at any moment, a restart reads at most the edges.
LEMMA ReadBound ==
  ASSUME TypeOK, SaveInProgress, Ledger
  PROVE  PulsesIn(ee) <= edges
<1>1. CASE pc = "off"
  BY <1>1 DEF Ledger
<1>2. CASE pc # "off" /\ pc # "put"
  <2>1. OldCells = PulsesIn(ee)
    BY <1>2, CellsAreNumbers DEF OldCells, CellsFrom, PulsesIn, TypeOK
  <2>2. PulsesIn(ee) \in Nat /\ edges \in Nat /\ totalPulses \in Nat
    BY TotalOfCells DEF TypeOK, CountersOK
  <2> QED BY <1>2, <2>1, <2>2, CountedBounds DEF Ledger, On
<1>3. CASE pc = "put"
  <2> DEFINE i == ImageOf(totalPulses, open)
  <2>1. totalPulses \in Nat /\ edges \in Nat /\ at \in 1..9 /\ open \in BOOLEAN
    BY DEF TypeOK, CountersOK, FlagsOK
  <2>11. /\ i[3] \in 0..255 /\ i[4] \in 0..255 /\ i[5] \in 0..255 /\ i[6] \in Nat
         /\ totalPulses = i[3] + 256 * i[4] + 65536 * i[5] + 16777216 * i[6]
    BY <2>1, CellsOfTotal
  <2> HIDE DEF i
  <2>12. PICK c3 \in 0..255, c4 \in 0..255, c5 \in 0..255, c6 \in Nat :
           c3 = i[3] /\ c4 = i[4] /\ c5 = i[5] /\ c6 = i[6]
    <3>1. i[3] \in 0..255 /\ i[4] \in 0..255 /\ i[5] \in 0..255 /\ i[6] \in Nat
      BY <2>11
    <3> QED BY <3>1, Zenon
  <2>2. totalPulses = c3 + 256 * c4 + 65536 * c5 + 16777216 * c6
    BY <2>11, <2>12
  <2>10. PICK b3 \in Nat, b4 \in Nat, b5 \in Nat, b6 \in Nat :
           ee[3] = b3 /\ ee[4] = b4 /\ ee[5] = b5 /\ ee[6] = b6
    <3>1. ee[3] \in Nat /\ ee[4] \in Nat /\ ee[5] \in Nat /\ ee[6] \in Nat
      <4>1. CellsOK(ee)
        BY DEF TypeOK
      <4>2. ee[3] \in 0..255 /\ ee[4] \in 0..255 /\ ee[5] \in 0..255 /\ ee[6] \in Nat
        BY <4>1, CellsAreNumbers, Zenon
      <4> QED BY <4>2
    <3> QED BY <3>1, Zenon
  <2>3. /\ Counted \in Nat /\ totalPulses <= Counted /\ Counted <= edges
        /\ \/ CellsFrom(ee, at) <= totalPulses
           \/ CellsFrom(ee, at) + Counted <= edges
    BY <1>3, CountedBounds DEF Ledger, OldCells, On
  <2>4. \A a \in Addr : a < at => ee[a] = i[a]
    BY <1>3 DEF SaveInProgress, i
  <2>5. CASE at <= 3
    BY <2>1, <2>3, <2>10, <2>5 DEF CellsFrom, PulsesIn
  <2>6. CASE at = 4
    <3>1. ee[3] = c3
      BY <2>12, <2>4, <2>6 DEF Addr
    <3>2. CellsFrom(ee, at) = 256 * b4 + 65536 * b5 + 16777216 * b6
      BY <2>10, <2>6 DEF CellsFrom
    <3>3. 256 * b4 + 65536 * b5 + 16777216 * b6 <= totalPulses
          => c3 + 256 * b4 + 65536 * b5 + 16777216 * b6 <= totalPulses
      BY <2>2
    <3>4. c3 <= totalPulses
      BY <2>2
    <3>5. PulsesIn(ee) = c3 + 256 * b4 + 65536 * b5 + 16777216 * b6
      BY <2>10, <3>1 DEF PulsesIn
    <3> QED BY <2>1, <2>3, <3>2, <3>3, <3>4, <3>5
  <2>7. CASE at = 5
    <3>1. ee[3] = c3 /\ ee[4] = c4
      BY <2>12, <2>4, <2>7 DEF Addr
    <3>2. CellsFrom(ee, at) = 65536 * b5 + 16777216 * b6
      BY <2>10, <2>7 DEF CellsFrom
    <3>3. 65536 * b5 + 16777216 * b6 <= totalPulses
          => c3 + 256 * c4 + 65536 * b5 + 16777216 * b6 <= totalPulses
      BY <2>2
    <3>4. c3 + 256 * c4 <= totalPulses
      BY <2>2
    <3>5. PulsesIn(ee) = c3 + 256 * c4 + 65536 * b5 + 16777216 * b6
      BY <2>10, <3>1 DEF PulsesIn
    <3> QED BY <2>1, <2>3, <3>2, <3>3, <3>4, <3>5
  <2>8. CASE at = 6
    <3>1. ee[3] = c3 /\ ee[4] = c4 /\ ee[5] = c5
      BY <2>12, <2>4, <2>8 DEF Addr
    <3>2. CellsFrom(ee, at) = 16777216 * b6
      BY <2>10, <2>8 DEF CellsFrom
    <3>3. 16777216 * b6 <= totalPulses
          => c3 + 256 * c4 + 65536 * c5 + 16777216 * b6 <= totalPulses
      BY <2>2
    <3>4. c3 + 256 * c4 + 65536 * c5 <= totalPulses
      BY <2>2
    <3>5. PulsesIn(ee) = c3 + 256 * c4 + 65536 * c5 + 16777216 * b6
      BY <2>10, <3>1 DEF PulsesIn
    <3> QED BY <2>1, <2>3, <3>2, <3>3, <3>4, <3>5
  <2>9. CASE at >= 7
    <3>1. ee[3] = c3 /\ ee[4] = c4 /\ ee[5] = c5 /\ ee[6] = c6
      BY <2>1, <2>12, <2>4, <2>9 DEF Addr
    <3>2. PulsesIn(ee) = totalPulses
      BY <2>2, <3>1 DEF PulsesIn
    <3> QED BY <2>1, <2>3, <3>2
  <2> QED BY <2>1, <2>5, <2>6, <2>7, <2>8, <2>9
<1> QED BY <1>1, <1>2, <1>3 DEF TypeOK, CountersOK, PCs

\* One step, with power before and after, moves the count and the edges alike.
LEMMA StepConserves ==
  ASSUME TypeOK, TypeOK', CopyFresh, [Next]_vars, On, On'
  PROVE  Counted' - Counted = edges' - edges
<1> USE DEF TypeOK, FlagsOK, CountersOK, On, Counted, InFlight, Held
<1>1. CASE Boot
  BY <1>1 DEF Boot, RestoreValve, Apply, ValveBegin, FlowBegin
<1>2. CASE SkipSample
  BY <1>2 DEF SkipSample, meterVars, storeVars, valveVars, pubVars
<1>3. CASE BeginSample
  BY <1>3 DEF BeginSample, storeVars, valveVars, pubVars
<1>4. CASE CopyCount
  BY <1>4 DEF CopyCount, storeVars, valveVars, pubVars
<1>5. CASE ClearCount
  BY <1>5 DEF ClearCount, storeVars, valveVars, pubVars, CopyFresh
<1>6. CASE Unmask
  BY <1>6 DEF Unmask, storeVars, valveVars, pubVars
<1>7. CASE AddPulses
  BY <1>7 DEF AddPulses, ConsumeDirty, valveVars, pubVars
<1>8. CASE SkipSave
  BY <1>8 DEF SkipSave, meterVars, storeVars, valveVars, pubVars
<1>9. CASE SaveIfDue
  BY <1>9 DEF SaveIfDue, StartSave, meterVars, valveVars, pubVars
<1>10. CASE PutCell
  BY <1>10 DEF PutCell, meterVars, valveVars, pubVars
<1>11. CASE EndSave
  BY <1>11 DEF EndSave, meterVars, valveVars, pubVars
<1>12. CASE Publish
  BY <1>12 DEF Publish, StartSave, meterVars, valveVars
<1>13. ASSUME NEW toOpen \in BOOLEAN, DriveCoil(toOpen) PROVE Counted' - Counted = edges' - edges
  BY <1>13 DEF DriveCoil, meterVars, storeVars, pubVars
<1>14. ASSUME NEW toOpen \in BOOLEAN, PersistCommand(toOpen)
       PROVE  Counted' - Counted = edges' - edges
  BY <1>14 DEF PersistCommand, StartSave, meterVars, pubVars
<1>15. CASE Tick
  BY <1>15 DEF Tick, valveVars, pubVars
<1>16. CASE Crash
  BY <1>16 DEF Crash, meterVars, storeVars, valveVars, pubVars
<1>17. ASSUME NEW n \in Bursts, Edge(n) PROVE Counted' - Counted = edges' - edges
  <2>1. n \in Nat
    BY CoreAssumption
  <2>2. edges' = edges + n /\ pc' = pc /\ taken' = taken /\ totalPulses' = totalPulses
    BY <1>17 DEF Edge
  <2>3. \/ pulseCount' = pulseCount + n /\ edgeLatched' = edgeLatched
        \/ n = 1 /\ ~edgeLatched /\ edgeLatched' = TRUE /\ pulseCount' = pulseCount
    BY <1>17, Zenon DEF Edge
  <2>4. \/ Held' = Held /\ pulseCount' = pulseCount + n
        \/ Held' = Held + 1 /\ n = 1 /\ pulseCount' = pulseCount
    <3>1. CASE pulseCount' = pulseCount + n /\ edgeLatched' = edgeLatched
      <4>1. Held' = Held
        BY <3>1, Zenon
      <4> QED BY <3>1, <4>1, Zenon
    <3>2. CASE n = 1 /\ ~edgeLatched /\ edgeLatched' = TRUE /\ pulseCount' = pulseCount
      <4>1. Held = 0
        BY <3>2
      <4>2. Held' = 1
        BY <3>2
      <4> QED BY <3>2, <4>1, <4>2
    <3> QED BY <2>3, <3>1, <3>2, Zenon
  <2>5. Held \in 0..1 /\ Held' \in 0..1 /\ InFlight \in Nat /\ InFlight' = InFlight
    BY <2>2
  <2> HIDE DEF Held, InFlight
  <2>6. PICK h \in 0..1, g \in 0..1, f \in Nat :
          h = Held /\ g = Held' /\ f = InFlight /\ f = InFlight'
    BY <2>5, Zenon
  <2>7. /\ Counted = totalPulses + f + pulseCount + h
        /\ Counted' = totalPulses + f + pulseCount' + g
    BY <2>2, <2>6, Zenon
  <2>8. (g = h /\ pulseCount' = pulseCount + n) \/ (g = h + 1 /\ n = 1 /\ pulseCount' = pulseCount)
    BY <2>4, <2>6, Zenon
  <2> HIDE DEF Counted
  <2>9. PICK c, d : c = Counted /\ d = Counted'
    OBVIOUS
  <2>11. /\ c = totalPulses + f + pulseCount + h
         /\ d = totalPulses + f + pulseCount' + g
    BY <2>7, <2>9, Zenon
  <2>12. h \in 0..1 /\ g \in 0..1 /\ f \in Nat
    BY <2>6, Zenon
  <2>13. totalPulses \in Nat /\ pulseCount \in Nat /\ pulseCount' \in Nat
    OBVIOUS
  <2>10. d - c = n
    <3>1. CASE g = h /\ pulseCount' = pulseCount + n
      BY <2>1, <2>11, <2>12, <2>13, <3>1
    <3>2. CASE g = h + 1 /\ n = 1 /\ pulseCount' = pulseCount
      BY <2>1, <2>11, <2>12, <2>13, <3>2
    <3> QED BY <2>8, <3>1, <3>2, Zenon
  <2> QED BY <2>1, <2>2, <2>9, <2>10
<1>18. CASE UNCHANGED vars
  BY <1>18 DEF vars, meterVars, storeVars, valveVars, pubVars
<1> QED BY <1>1, <1>2, <1>3, <1>4, <1>5, <1>6, <1>7, <1>8, <1>9, <1>10, <1>11, <1>12,
           <1>13, <1>14, <1>15, <1>16, <1>17, <1>18 DEF Next, Main

\* The cells a save has still to write are worth less with each step, or the save
\* has just ended and they are the total; the total never falls.
LEMMA OldCellsStep ==
  ASSUME TypeOK, TypeOK', SaveInProgress, [Next]_vars, On, On'
  PROVE  /\ totalPulses <= totalPulses'
         /\ OldCells' <= OldCells \/ OldCells' = totalPulses'
<1> DEFINE Goal == /\ totalPulses <= totalPulses'
                   /\ OldCells' <= OldCells \/ OldCells' = totalPulses'
<1> SUFFICES Goal
  OBVIOUS
<1>a. /\ totalPulses \in Nat /\ taken \in Nat /\ at \in 1..9
      /\ ee[3] \in Nat /\ ee[4] \in Nat /\ ee[5] \in Nat /\ ee[6] \in Nat
  <2>1. ee[3] \in 0..255 /\ ee[4] \in 0..255 /\ ee[5] \in 0..255 /\ ee[6] \in Nat
    BY CellsAreNumbers, Zenon DEF TypeOK
  <2> QED BY <2>1 DEF TypeOK, CountersOK
<1>b. ASSUME pc # "put" \/ at = 1, pc' # "put" \/ at' = 1, ee' = ee,
             totalPulses <= totalPulses'
      PROVE  Goal
  BY <1>a, <1>b DEF OldCells, CellsFrom
<1>1. CASE Boot
  BY <1>1 DEF Boot, RestoreValve, Apply, ValveBegin, FlowBegin, On
<1>2. CASE SkipSample
  BY <1>2, <1>a, <1>b DEF SkipSample, meterVars, storeVars, valveVars, pubVars
<1>3. CASE BeginSample
  BY <1>3, <1>a, <1>b DEF BeginSample, storeVars, valveVars, pubVars
<1>4. CASE CopyCount
  BY <1>4, <1>a, <1>b DEF CopyCount, storeVars, valveVars, pubVars
<1>5. CASE ClearCount
  BY <1>5, <1>a, <1>b DEF ClearCount, storeVars, valveVars, pubVars
<1>6. CASE Unmask
  BY <1>6, <1>a, <1>b DEF Unmask, storeVars, valveVars, pubVars
<1>7. CASE AddPulses
  BY <1>7, <1>a, <1>b DEF AddPulses, ConsumeDirty, valveVars, pubVars
<1>8. CASE SkipSave
  BY <1>8, <1>a, <1>b DEF SkipSave, meterVars, storeVars, valveVars, pubVars
<1>9. CASE SaveIfDue
  BY <1>9, <1>a, <1>b DEF SaveIfDue, StartSave, meterVars, valveVars, pubVars
<1>10. CASE PutCell
  <2>1. /\ pc = "put" /\ pc' = "put" /\ at \in 1..8 /\ at' = at + 1
        /\ totalPulses' = totalPulses
        /\ \A a \in Addr : a > at => ee'[a] = ee[a]
    BY <1>10 DEF PutCell, meterVars, Addr, TypeOK, CellsOK
  <2>2. \A a \in 3..6 : a > at => ee'[a] = ee[a]
    BY <2>1 DEF Addr
  <2>3. CellsFrom(ee', at + 1) = CellsFrom(ee, at + 1)
    BY <2>1, <2>2 DEF CellsFrom
  <2>4. CellsFrom(ee, at + 1) <= CellsFrom(ee, at)
    BY <1>a, <2>1 DEF CellsFrom
  <2>5. OldCells' = CellsFrom(ee', at + 1) /\ OldCells = CellsFrom(ee, at)
    BY <2>1 DEF OldCells
  <2> QED BY <1>a, <2>1, <2>3, <2>4, <2>5
<1>11. CASE EndSave
  <2>1. /\ pc = "put" /\ pc' = "loop" /\ at = 9 /\ ee' = ee /\ totalPulses' = totalPulses
    BY <1>11, <1>a DEF EndSave, meterVars, Addr
  <2>2. PulsesIn(ee) = totalPulses
    BY <2>1, SavedImage DEF SaveInProgress, Addr, TypeOK, FlagsOK, CountersOK
  <2>3. OldCells' = PulsesIn(ee)
    BY <1>a, <2>1 DEF OldCells, CellsFrom, PulsesIn
  <2> QED BY <1>a, <2>1, <2>2, <2>3
<1>12. CASE Publish
  BY <1>12, <1>a, <1>b DEF Publish, StartSave, meterVars, valveVars
<1>13. ASSUME NEW toOpen \in BOOLEAN, DriveCoil(toOpen) PROVE Goal
  BY <1>13, <1>a, <1>b DEF DriveCoil, meterVars, storeVars, pubVars
<1>14. ASSUME NEW toOpen \in BOOLEAN, PersistCommand(toOpen) PROVE Goal
  BY <1>14, <1>a, <1>b DEF PersistCommand, StartSave, meterVars, pubVars
<1>c. ASSUME UNCHANGED <<pc, at, ee, totalPulses>> PROVE Goal
  BY <1>a, <1>c DEF OldCells, CellsFrom
<1>15. CASE Tick
  BY <1>15, <1>c DEF Tick
<1>16. CASE Crash
  BY <1>16 DEF Crash, On
<1>17. ASSUME NEW n \in Bursts, Edge(n) PROVE Goal
  BY <1>17, <1>c DEF Edge, storeVars
<1>18. CASE UNCHANGED vars
  BY <1>18, <1>c DEF vars, meterVars, storeVars
<1> QED BY <1>1, <1>2, <1>3, <1>4, <1>5, <1>6, <1>7, <1>8, <1>9, <1>10, <1>11, <1>12,
           <1>13, <1>14, <1>15, <1>16, <1>17, <1>18 DEF Next, Main

\* With power, no edge is lost or counted twice.
THEOREM EveryPulseCounted == Spec => PulsesConserved
<1>1. TypeOK /\ TypeOK' /\ CopyFresh /\ [Next]_vars
      => [On /\ On' => Counted' - Counted = edges' - edges]_vars
  BY StepConserves
<1>2. StoreInv => CopyFresh
  BY DEF StoreInv
<1> QED BY <1>1, <1>2, TypeCorrect, StoreCorrect, PTL DEF Spec, PulsesConserved

\* An old total that fits under the edges next to the count still does after a
\* step in which both grow alike and the old total does not grow.
LEMMA SameGrowth ==
  ASSUME NEW o \in Nat, NEW o0 \in Nat, NEW c \in Nat, NEW c0 \in Nat,
         NEW e \in Nat, NEW e0 \in Nat, o <= o0, o0 + c0 <= e0, c - c0 = e - e0
  PROVE  o + c <= e
  OBVIOUS

\* On a meter that was written before, the old cells and the count stay covered by
\* the edges, through saves, crashes and restarts (MeterStore::save, load).
LEMMA LedgerInvariant == ASSUME ~BlankEeprom PROVE Spec => []Ledger
<1>1. Init => Ledger
  <2> SUFFICES ASSUME Init PROVE Ledger
    OBVIOUS
  <2>1. pc = "off" /\ edges = StoredPulses /\ ee = ImageOf(StoredPulses, latch)
        /\ latch \in BOOLEAN
    BY DEF Init
  <2>2. PulsesIn(ee) = edges
    BY <2>1, SavedImage, CoreAssumption
  <2>3. edges \in Nat
    BY <2>1, CoreAssumption
  <2> QED BY <2>1, <2>2, <2>3 DEF Ledger, On
<1>2. TypeOK /\ TypeOK' /\ StoreInv /\ Ledger /\ [Next]_vars => Ledger'
  <2> SUFFICES ASSUME TypeOK, TypeOK', StoreInv, Ledger, [Next]_vars PROVE Ledger'
    OBVIOUS
  <2>a. CopyFresh /\ SaveInProgress
    BY DEF StoreInv
  <2>b. /\ edges \in Nat /\ edges' \in Nat /\ totalPulses \in Nat /\ totalPulses' \in Nat
        /\ Counted \in Nat /\ Counted' \in Nat /\ totalPulses' <= Counted'
    <3>1. InFlight' \in Nat /\ Held' \in Nat
      BY DEF InFlight, Held, TypeOK, CountersOK
    <3>3. totalPulses' \in Nat /\ pulseCount' \in Nat
      BY DEF TypeOK, CountersOK
    <3>4. PICK f \in Nat, h \in Nat : f = InFlight' /\ h = Held'
      BY <3>1, Zenon
    <3>5. Counted' = totalPulses' + f + pulseCount' + h
      BY <3>4, Zenon DEF Counted
    <3>6. totalPulses' + f + pulseCount' + h \in Nat
          /\ totalPulses' <= totalPulses' + f + pulseCount' + h
      <4>1. f \in Nat /\ h \in Nat
        BY <3>4, Zenon
      <4>2. ASSUME NEW t \in Nat, NEW q \in Nat
            PROVE  t + f + q + h \in Nat /\ t <= t + f + q + h
        BY <4>1
      <4> QED BY <3>3, <4>2, Zenon
    <3>2. Counted' \in Nat /\ totalPulses' <= Counted'
      BY <3>5, <3>6, Zenon
    <3> QED BY <3>2, CountedBounds DEF TypeOK, CountersOK
  <2>c. OldCells \in Nat /\ OldCells' \in Nat
    <3>1. /\ (IF pc = "put" THEN at ELSE 1) \in 1..9
          /\ (IF pc = "put" THEN at ELSE 1)' \in 1..9
      BY DEF TypeOK, CountersOK
    <3>2. CellsOK(ee) /\ CellsOK(ee')
      BY DEF TypeOK, CellsOK
    <3> QED BY <3>1, <3>2, CellsWorth, Zenon DEF OldCells
  <2>1. CASE On /\ On'
    <3>1. Counted' - Counted = edges' - edges
      BY <2>1, <2>a, StepConserves
    <3>2. totalPulses <= totalPulses'
          /\ (OldCells' <= OldCells \/ OldCells' = totalPulses')
      BY <2>1, <2>a, OldCellsStep
    <3>3. Counted <= edges /\ (OldCells <= totalPulses \/ OldCells + Counted <= edges)
      BY <2>1 DEF Ledger
    <3>4. Counted' <= edges'
      BY <2>b, <3>1, <3>3
    <3>5. OldCells' <= totalPulses' \/ OldCells' + Counted' <= edges'
      <4>1. PICK o \in Nat, c \in Nat : o = OldCells' /\ c = Counted'
        BY <2>b, <2>c, Zenon
      <4>2. c - Counted = edges' - edges /\ (o <= OldCells \/ o = totalPulses')
        BY <3>1, <3>2, <4>1, Zenon
      <4>3. o <= totalPulses' \/ o + c <= edges'
        <5>1. o \in Nat /\ c \in Nat
          BY <4>1, Zenon
        <5>2. totalPulses' \in Nat /\ edges' \in Nat /\ totalPulses <= totalPulses'
          BY <2>b, <3>2
        <5>3. Counted \in Nat /\ edges \in Nat /\ totalPulses \in Nat /\ OldCells \in Nat
          BY <2>b, <2>c
        <5>4. CASE o = totalPulses'
          <6>1. totalPulses' <= totalPulses'
            BY <5>2
          <6> QED BY <5>4, <6>1, Zenon
        <5>5. CASE o <= OldCells /\ OldCells <= totalPulses
          BY <5>1, <5>2, <5>3, <5>5
        <5>6. CASE o <= OldCells /\ OldCells + Counted <= edges
          <6>1. c - Counted = edges' - edges
            BY <4>2
          <6>2. o + c <= edges'
            BY <5>1, <5>2, <5>3, <5>6, <6>1, SameGrowth, Zenon
          <6> QED BY <6>2, Zenon
        <5> QED BY <3>3, <4>2, <5>4, <5>5, <5>6
      <4> QED BY <4>1, <4>3, Zenon
    <3> QED BY <2>1, <3>4, <3>5 DEF Ledger, On
  <2>2. CASE On /\ ~On'
    <3>1. Crash
      BY <2>2 DEF On, Next, Main, Boot, SkipSample, BeginSample, CopyCount, ClearCount,
           Unmask, AddPulses, SkipSave, SaveIfDue, StartSave, PutCell, EndSave, Publish,
           DriveCoil, PersistCommand, Tick, Edge, vars
    <3>2. ee' = ee /\ edges' = edges /\ pc' = "off"
      BY <3>1 DEF Crash, storeVars
    <3>3. PulsesIn(ee) <= edges
      BY <2>a, ReadBound
    <3> QED BY <3>2, <3>3 DEF Ledger, On, PulsesIn
  <2>3. CASE ~On /\ On'
    <3>1. Boot
      BY <2>3 DEF On, Next, Main, Boot, SkipSample, BeginSample, CopyCount, ClearCount,
           Unmask, AddPulses, SkipSave, SaveIfDue, StartSave, PutCell, EndSave, Publish,
           DriveCoil, PersistCommand, Tick, Crash, Edge, vars
    <3>2. /\ ee' = ee /\ edges' = edges /\ pc' = "loop"
          /\ pulseCount' = 0 /\ edgeLatched' = FALSE
          /\ totalPulses' = PulsesIn(ee) \/ totalPulses' = 0
      BY <3>1 DEF Boot, RestoreValve, Apply, ValveBegin, FlowBegin
    <3>3. Counted' = totalPulses'
      <4>1. Held' = 0
        BY <3>2, Zenon DEF Held
      <4>2. InFlight' = 0
        BY <3>2 DEF InFlight
      <4>3. Counted' = totalPulses' + 0 + 0 + 0
        BY <3>2, <4>1, <4>2, Zenon DEF Counted
      <4>4. \A t \in Nat : t + 0 + 0 + 0 = t
        OBVIOUS
      <4> QED BY <2>b, <4>3, <4>4, Zenon
    <3>4. OldCells' = PulsesIn(ee)
      BY <3>2, CellsAreNumbers DEF OldCells, CellsFrom, PulsesIn, TypeOK
    <3>5. PulsesIn(ee) <= edges /\ PulsesIn(ee) \in Nat
      BY <2>3, TotalOfCells DEF Ledger, On, TypeOK
    <3> QED BY <2>b, <3>2, <3>3, <3>4, <3>5 DEF Ledger, On
  <2>4. CASE ~On /\ ~On'
    <3>1. ee' = ee /\ edges <= edges'
      <4>1. ASSUME NEW n \in Bursts, Edge(n) PROVE ee' = ee /\ edges <= edges'
        <5>1. n \in Nat
          BY CoreAssumption
        <5> QED BY <2>b, <4>1, <5>1 DEF Edge, storeVars
      <4>2. CASE UNCHANGED vars
        BY <2>b, <4>2 DEF vars, storeVars
      <4> QED
        BY <2>4, <4>1, <4>2 DEF On, Next, Main, Boot, SkipSample, BeginSample, CopyCount,
           ClearCount, Unmask, AddPulses, SkipSave, SaveIfDue, StartSave, PutCell, EndSave,
           Publish, DriveCoil, PersistCommand, Tick, Crash
    <3>2. PulsesIn(ee) <= edges /\ PulsesIn(ee) \in Nat /\ pc' = "off"
      BY <2>4, TotalOfCells DEF Ledger, On, TypeOK
    <3>3. PulsesIn(ee') <= edges'
      BY <2>b, <3>1, <3>2
    <3> QED BY <3>2, <3>3 DEF Ledger, On
  <2> QED BY <2>1, <2>2, <2>3, <2>4
<1> QED BY <1>1, <1>2, TypeCorrect, StoreCorrect, PTL DEF Spec

\* A meter whose EEPROM was written at least once never bills water that did not
\* flow, whatever power losses leave in the EEPROM.
THEOREM NoPhantoms == ASSUME ~BlankEeprom PROVE Spec => []NoPhantomPulses
<1>1. TypeOK /\ StoreInv /\ Ledger => NoPhantomPulses
  <2> SUFFICES ASSUME TypeOK, StoreInv, Ledger PROVE NoPhantomPulses
    OBVIOUS
  <2>1. PulsesIn(ee) <= edges
    BY ReadBound DEF StoreInv
  <2>2. ee[6] <= edges \div 16777216
    <3>2. ee[3] \in Nat /\ ee[4] \in Nat /\ ee[5] \in Nat /\ ee[6] \in Nat /\ edges \in Nat
      <4>1. ee[3] \in 0..255 /\ ee[4] \in 0..255 /\ ee[5] \in 0..255 /\ ee[6] \in Nat
        BY CellsAreNumbers, Zenon DEF TypeOK
      <4> QED BY <4>1 DEF TypeOK, CountersOK
    <3>3. 16777216 * ee[6] <= edges
      BY <2>1, <3>2 DEF PulsesIn
    <3> QED BY <3>2, <3>3
  <2> QED BY <2>1, <2>2 DEF NoPhantomPulses, Ledger
<1> QED BY <1>1, TypeCorrect, StoreCorrect, LedgerInvariant, PTL

\* The valve is where the meter says, a restart leaves it there, and a published
\* total survives a restart once its save has finished.
THEOREM ReportsHold ==
  Spec => [](ValveReportTrue /\ StoredValveMatches /\ PublishedIsStored)
<1>1. StoreInv => ValveReportTrue /\ StoredValveMatches /\ PublishedIsStored
  BY DEF StoreInv
<1> QED BY <1>1, StoreCorrect, PTL

-----------------------------------------------------------------------------
(***************************************************************************)
(* The checksum.  Exclusive or, a shift step and the eight steps of a byte *)
(* lose nothing: from different registers or different data they lead to   *)
(* different registers.  So two messages that differ in one byte drive the *)
(* register apart at that byte and it never meets again.                   *)
(***************************************************************************)


\* A set of numbers that is not empty has a least one.
LEMMA LeastNumber ==
  ASSUME NEW T, T \subseteq Nat, T # {}
  PROVE  \E x \in T : \A y \in T : x <= y
<1>1. PICK x \in T : \A y \in T : ~(<<y, x>> \in OpToRel(<, Nat))
  BY WFMin, NatLessThanWellFounded
<1>2. \A y \in T : ~(y < x)
  BY <1>1 DEF OpToRel
<1>. QED
  BY <1>2

\* Bytes are the numbers below 256.
LEMMA Bytes256 == \A n : n \in Byte <=> n \in Nat /\ n < 256
  BY DEF Byte

\* Bytes and their halves.
LEMMA Halves ==
  ASSUME NEW a \in Byte
  PROVE  /\ a \div 2 \in Byte /\ a % 2 \in {0, 1} /\ a = 2 * (a \div 2) + (a % 2)
         /\ \A n \in Nat : a < 2 * n => a \div 2 < n
  BY DEF Byte

\* One unrolling of Xor's definition.
XorStep(f) ==
  [p \in Byte \X Byte |->
     IF p[1] = 0 THEN p[2]
     ELSE IF p[2] = 0 THEN p[1]
     ELSE ((p[1] + p[2]) % 2) + 2 * f[<<p[1] \div 2, p[2] \div 2>>]]

\* What two functions agree on, their unrollings agree on twice as far.
LEMMA XorAgrees ==
  ASSUME NEW f, NEW g, NEW n \in Nat,
         \A p \in Byte \X Byte : p[1] < n => f[p] = g[p]
  PROVE  \A p \in Byte \X Byte : p[1] < 2 * n => XorStep(f)[p] = XorStep(g)[p]
<1>1. SUFFICES ASSUME NEW p \in Byte \X Byte, p[1] < 2 * n
               PROVE  XorStep(f)[p] = XorStep(g)[p]
  OBVIOUS
<1> DEFINE q == <<p[1] \div 2, p[2] \div 2>>
<1>2. q \in Byte \X Byte /\ q[1] < n
  BY <1>1, Halves
<1> HIDE DEF q
<1>3. f[q] = g[q]
  BY <1>2
<1>. QED
  BY <1>3 DEF XorStep, q

\* Xor is what its definition says.
LEMMA XorIs == Xor = XorStep(Xor)
<1>1. \E f : f = XorStep(f)
  <2> DEFINE f0 == [p \in Byte \X Byte |-> p[2]]
             Same(f, g, n) == \A p \in Byte \X Byte : p[1] < n => f[p] = g[p]
  <2>1. Same(f0, XorStep(f0), 1)
    <3>1. \A p \in Byte \X Byte : p[1] < 1 => p[1] = 0
      BY DEF Byte
    <3>2. \A p \in Byte \X Byte : p[1] = 0 => XorStep(f0)[p] = p[2]
      BY DEF XorStep
    <3> QED BY <3>1, <3>2
  <2>2. \A f, g : \A n \in Nat : Same(f, g, n) => Same(XorStep(f), XorStep(g), 2 * n)
    BY XorAgrees
  <2> HIDE DEF f0, Same
  <2>3. ASSUME NEW f, NEW n \in {1, 2, 4, 8, 16, 32, 64, 128}, Same(f, XorStep(f), n)
        PROVE  Same(XorStep(f), XorStep(XorStep(f)), 2 * n)
    BY <2>2, <2>3
  <2>4. PICK f1 : Same(f1, XorStep(f1), 2)
    BY <2>1, <2>3
  <2>5. PICK f2 : Same(f2, XorStep(f2), 4)
    BY <2>4, <2>3
  <2>6. PICK f3 : Same(f3, XorStep(f3), 8)
    BY <2>5, <2>3
  <2>7. PICK f4 : Same(f4, XorStep(f4), 16)
    BY <2>6, <2>3
  <2>8. PICK f5 : Same(f5, XorStep(f5), 32)
    BY <2>7, <2>3
  <2>9. PICK f6 : Same(f6, XorStep(f6), 64)
    BY <2>8, <2>3
  <2>10. PICK f7 : Same(f7, XorStep(f7), 128)
    BY <2>9, <2>3
  <2>11. PICK f8 : Same(f8, XorStep(f8), 256)
    BY <2>10, <2>3
  <2>12. \A p \in Byte \X Byte : f8[p] = XorStep(f8)[p]
    BY <2>11 DEF Same, Byte
  <2> DEFINE f9 == XorStep(f8)
  <2>13. \A p \in Byte \X Byte : f8[p] = f9[p]
    BY <2>12
  <2>14. XorStep(f9) = XorStep(f8)
    <3>1. \A p \in Byte \X Byte : <<p[1] \div 2, p[2] \div 2>> \in Byte \X Byte
      BY Halves
    <3> HIDE DEF f9
    <3> QED BY <2>13, <3>1 DEF XorStep
  <2> QED BY <2>14
<1>. QED
  BY <1>1 DEF Xor, XorStep

\* Below a power of two it stays there.
LEMMA XorBelow ==
  ASSUME NEW n \in Nat, n > 0,
         \A a, b \in Byte : a < n /\ b < n => Xor[<<a, b>>] \in Nat /\ Xor[<<a, b>>] < n
  PROVE  \A a, b \in Byte :
           a < 2 * n /\ b < 2 * n => Xor[<<a, b>>] \in Nat /\ Xor[<<a, b>>] < 2 * n
<1>1. SUFFICES ASSUME NEW a \in Byte, NEW b \in Byte, a < 2 * n, b < 2 * n
               PROVE  Xor[<<a, b>>] \in Nat /\ Xor[<<a, b>>] < 2 * n
  OBVIOUS
<1>3. a \in Nat /\ b \in Nat
  BY Bytes256
<1> DEFINE x == Xor[<<a \div 2, b \div 2>>]
           r == (a + b) % 2
<1>2. x \in Nat /\ x < n
  BY <1>1, Halves
<1>6. r \in {0, 1}
  BY <1>3
<1>4. Xor[<<a, b>>] = a \/ Xor[<<a, b>>] = b \/ Xor[<<a, b>>] = r + 2 * x
  BY XorIs DEF XorStep
<1> HIDE DEF x, r
<1>5. r + 2 * x \in Nat /\ r + 2 * x < 2 * n
  BY <1>2, <1>6
<1>. QED
  BY <1>1, <1>3, <1>4, <1>5

\* The exclusive or of bytes is a byte.
LEMMA XorByte == \A a, b \in Byte : Xor[<<a, b>>] \in Byte
<1> DEFINE Below(n) ==
      \A a, b \in Byte : a < n /\ b < n => Xor[<<a, b>>] \in Nat /\ Xor[<<a, b>>] < n
<1>1. Below(1)
  <2>1. \A a, b \in Byte : a < 1 /\ b < 1 => a = 0 /\ b = 0
    BY DEF Byte
  <2>2. 0 \in Byte
    BY DEF Byte
  <2>3. Xor[<<0, 0>>] = 0
    BY XorIs, <2>2 DEF XorStep
  <2> QED BY <2>1, <2>3
<1>2. \A n \in Nat : n > 0 /\ Below(n) => Below(2 * n)
  BY XorBelow
<1> HIDE DEF Below
<1>3. Below(2) /\ Below(4) /\ Below(8)
  BY <1>1, <1>2
<1>4. Below(16) /\ Below(32) /\ Below(64)
  BY <1>3, <1>2
<1>5. Below(128) /\ Below(256)
  BY <1>4, <1>2
<1>7. ASSUME NEW a \in Byte, NEW b \in Byte
      PROVE  Xor[<<a, b>>] \in Nat /\ Xor[<<a, b>>] < 256
  <2>1. a < 256 /\ b < 256
    BY Bytes256
  <2>2. Below(256)
    BY <1>5
  <2> QED BY <2>1, <2>2 DEF Below
<1>. QED
  BY <1>7, Bytes256

\* Bit by bit, also where the code's loop has nothing left to do.
LEMMA XorBits ==
  ASSUME NEW a \in Byte, NEW b \in Byte
  PROVE  Xor[<<a, b>>] = ((a + b) % 2) + 2 * Xor[<<a \div 2, b \div 2>>]
<1>0. 0 \in Byte /\ 0 \div 2 = 0 /\ 0 % 2 = 0
  BY DEF Byte
<1>1. a \in Nat /\ b \in Nat /\ a \div 2 \in Byte /\ b \div 2 \in Byte
  BY Halves DEF Byte
<1>2. CASE a = 0
  <2>1. Xor[<<0, b>>] = b /\ Xor[<<0, b \div 2>>] = b \div 2
    BY <1>0, <1>1, XorIs DEF XorStep
  <2>2. b = 2 * (b \div 2) + (b % 2) /\ (0 + b) % 2 = b % 2
    BY Halves, <1>1
  <2> QED BY <1>0, <1>1, <1>2, <2>1, <2>2
<1>3. CASE b = 0
  <2>1. Xor[<<a, 0>>] = a /\ Xor[<<a \div 2, 0>>] = a \div 2
    BY <1>0, <1>1, XorIs DEF XorStep
  <2>2. a = 2 * (a \div 2) + (a % 2) /\ (a + 0) % 2 = a % 2
    BY Halves, <1>1
  <2> QED BY <1>0, <1>1, <1>3, <2>1, <2>2
<1>4. CASE a # 0 /\ b # 0
  BY <1>4, XorIs DEF XorStep
<1>. QED
  BY <1>2, <1>3, <1>4

\* What differs in one argument differs in the result.
LEMMA XorTells ==
  \A a, b, c \in Byte :
    /\ Xor[<<a, b>>] = Xor[<<a, c>>] => b = c
    /\ Xor[<<b, a>>] = Xor[<<c, a>>] => b = c
<1> DEFINE Tells(n) ==
      \A a, b, c \in Byte : b < n /\ c < n =>
        /\ Xor[<<a, b>>] = Xor[<<a, c>>] => b = c
        /\ Xor[<<b, a>>] = Xor[<<c, a>>] => b = c
<1>1. Tells(1)
  BY DEF Byte
<1>2. ASSUME NEW n \in Nat, Tells(n) PROVE Tells(2 * n)
  <2>1. SUFFICES ASSUME NEW a \in Byte, NEW b \in Byte, NEW c \in Byte, b < 2 * n, c < 2 * n
                 PROVE  /\ Xor[<<a, b>>] = Xor[<<a, c>>] => b = c
                        /\ Xor[<<b, a>>] = Xor[<<c, a>>] => b = c
    OBVIOUS
  <2> DEFINE h == a \div 2
             i == b \div 2
             j == c \div 2
  <2>2. /\ h \in Byte /\ i \in Byte /\ j \in Byte /\ i < n /\ j < n
        /\ b = 2 * i + (b % 2) /\ c = 2 * j + (c % 2)
    BY <2>1, Halves
  <2>3. /\ Xor[<<h, i>>] = Xor[<<h, j>>] => i = j
        /\ Xor[<<i, h>>] = Xor[<<j, h>>] => i = j
    BY <1>2, <2>2
  <2>4. /\ Xor[<<a, b>>] = ((a + b) % 2) + 2 * Xor[<<h, i>>]
        /\ Xor[<<a, c>>] = ((a + c) % 2) + 2 * Xor[<<h, j>>]
        /\ Xor[<<b, a>>] = ((b + a) % 2) + 2 * Xor[<<i, h>>]
        /\ Xor[<<c, a>>] = ((c + a) % 2) + 2 * Xor[<<j, h>>]
    BY XorBits
  <2>5. /\ Xor[<<h, i>>] \in Nat /\ Xor[<<h, j>>] \in Nat
        /\ Xor[<<i, h>>] \in Nat /\ Xor[<<j, h>>] \in Nat
    BY <2>2, XorByte, Bytes256
  <2> HIDE DEF h, i, j
  <2>6. a \in Nat /\ b \in Nat /\ c \in Nat /\ i \in Nat /\ j \in Nat
    BY <2>2 DEF Byte
  <2>7. \A x, y \in Nat :
          /\ ((a + b) % 2) + 2 * x = ((a + c) % 2) + 2 * y => x = y /\ b % 2 = c % 2
          /\ ((b + a) % 2) + 2 * x = ((c + a) % 2) + 2 * y => x = y /\ b % 2 = c % 2
    BY <2>6
  <2>8. Xor[<<a, b>>] = Xor[<<a, c>>] => b = c
    BY <2>2, <2>3, <2>4, <2>5, <2>7
  <2>9. Xor[<<b, a>>] = Xor[<<c, a>>] => b = c
    BY <2>2, <2>3, <2>4, <2>5, <2>7
  <2> QED BY <2>8, <2>9
<1> HIDE DEF Tells
<1>3. Tells(2) /\ Tells(4) /\ Tells(8)
  <2>1. Tells(2 * 1) BY <1>1, <1>2
  <2>2. Tells(2 * 2) BY <2>1, <1>2
  <2>3. Tells(2 * 4) BY <2>2, <1>2
  <2> QED BY <2>1, <2>2, <2>3
<1>4. Tells(16) /\ Tells(32) /\ Tells(64)
  <2>1. Tells(2 * 8) BY <1>3, <1>2
  <2>2. Tells(2 * 16) BY <2>1, <1>2
  <2>3. Tells(2 * 32) BY <2>2, <1>2
  <2> QED BY <2>1, <2>2, <2>3
<1>5. Tells(256)
  <2>1. Tells(2 * 64) BY <1>4, <1>2
  <2>2. Tells(2 * 128) BY <2>1, <1>2
  <2> QED BY <2>2
<1>. QED
  BY <1>5, Bytes256 DEF Tells


\* A step of the register gives a byte, and steps from two bytes do not meet: what
\* has 0x8C mixed in has its top bit set, what has not has it clear.
LEMMA ShiftTells ==
  /\ \A c \in Byte : ShiftStep(c) \in Byte
  /\ \A c, d \in Byte : ShiftStep(c) = ShiftStep(d) => c = d
<1>1. ASSUME NEW a \in Byte, NEW b \in Byte
      PROVE  Xor[<<a, b>>] >= 2 * Xor[<<a \div 2, b \div 2>>] /\ Xor[<<a, b>>] \in Nat
  <2> DEFINE x == Xor[<<a \div 2, b \div 2>>]
             r == (a + b) % 2
  <2>1. a \in Nat /\ b \in Nat /\ x \in Nat /\ Xor[<<a, b>>] \in Nat
    BY Halves, XorByte, Bytes256
  <2>2. Xor[<<a, b>>] = r + 2 * x
    BY XorBits
  <2>3. r \in {0, 1}
    BY <2>1
  <2> HIDE DEF x, r
  <2>4. r + 2 * x >= 2 * x
    BY <2>1, <2>3
  <2> QED BY <2>1, <2>2, <2>4 DEF x
<1>2. ASSUME NEW x \in Byte, x < 128
      PROVE  Xor[<<x, 140>>] >= 128
  <2> DEFINE x1 == x \div 2
             x2 == x1 \div 2
             x3 == x2 \div 2
             x4 == x3 \div 2
             x5 == x4 \div 2
             x6 == x5 \div 2
  <2>1. /\ x1 \in Byte /\ x2 \in Byte /\ x3 \in Byte /\ x4 \in Byte /\ x5 \in Byte
        /\ x6 \in Byte
    BY Halves
  <2>2. x1 < 64 /\ x2 < 32 /\ x3 < 16 /\ x4 < 8 /\ x5 < 4 /\ x6 < 2
    <3>1. \A y \in Byte : \A m \in {2, 4, 8, 16, 32, 64} : y < 2 * m => y \div 2 < m
      BY Halves
    <3>2. x1 < 64
      BY <1>2, <3>1
    <3> HIDE DEF x1, x2, x3, x4, x5, x6
    <3>3. x2 < 32 BY <2>1, <3>1, <3>2 DEF x2
    <3>4. x3 < 16 BY <2>1, <3>1, <3>3 DEF x3
    <3>5. x4 < 8 BY <2>1, <3>1, <3>4 DEF x4
    <3>6. x5 < 4 BY <2>1, <3>1, <3>5 DEF x5
    <3>7. x6 < 2 BY <2>1, <3>1, <3>6 DEF x6
    <3> QED BY <3>2, <3>3, <3>4, <3>5, <3>6, <3>7
  <2>3. /\ 140 \div 2 = 70 /\ 70 \div 2 = 35 /\ 35 \div 2 = 17 /\ 17 \div 2 = 8
        /\ 8 \div 2 = 4 /\ 4 \div 2 = 2 /\ 2 \div 2 = 1
    OBVIOUS
  <2>4. /\ 140 \in Byte /\ 70 \in Byte /\ 35 \in Byte /\ 17 \in Byte /\ 8 \in Byte
        /\ 4 \in Byte /\ 2 \in Byte /\ 1 \in Byte /\ 0 \in Byte
    BY DEF Byte
  <2>5. x6 \div 2 = 0
    <3> HIDE DEF x6
    <3>1. x6 \in Nat
      BY <2>1, Bytes256
    <3> QED BY <2>2, <3>1
  <2>6. Xor[<<0, 1>>] = 1
    BY <2>4, XorIs DEF XorStep
  <2>7. Xor[<<x, 140>>] >= 2 * Xor[<<x1, 70>>] /\ Xor[<<x, 140>>] \in Nat
    BY <1>1, <2>3, <2>4
  <2> HIDE DEF x1
  <2>8. Xor[<<x1, 70>>] >= 2 * Xor[<<x2, 35>>] /\ Xor[<<x1, 70>>] \in Nat
    BY <1>1, <2>1, <2>3, <2>4
  <2> HIDE DEF x2
  <2>9. Xor[<<x2, 35>>] >= 2 * Xor[<<x3, 17>>] /\ Xor[<<x2, 35>>] \in Nat
    BY <1>1, <2>1, <2>3, <2>4
  <2> HIDE DEF x3
  <2>10. Xor[<<x3, 17>>] >= 2 * Xor[<<x4, 8>>] /\ Xor[<<x3, 17>>] \in Nat
    BY <1>1, <2>1, <2>3, <2>4
  <2> HIDE DEF x4
  <2>11. Xor[<<x4, 8>>] >= 2 * Xor[<<x5, 4>>] /\ Xor[<<x4, 8>>] \in Nat
    BY <1>1, <2>1, <2>3, <2>4
  <2> HIDE DEF x5
  <2>12. Xor[<<x5, 4>>] >= 2 * Xor[<<x6, 2>>] /\ Xor[<<x5, 4>>] \in Nat
    BY <1>1, <2>1, <2>3, <2>4
  <2> HIDE DEF x6
  <2>13. Xor[<<x6, 2>>] >= 2 /\ Xor[<<x6, 2>>] \in Nat
    BY <1>1, <2>1, <2>3, <2>4, <2>5, <2>6
  <2> QED BY <2>7, <2>8, <2>9, <2>10, <2>11, <2>12, <2>13
<1>3. ASSUME NEW c \in Byte
      PROVE  /\ ShiftStep(c) \in Byte
             /\ c % 2 = 1 => ShiftStep(c) = Xor[<<c \div 2, 140>>] /\ ShiftStep(c) >= 128
             /\ c % 2 # 1 => ShiftStep(c) = c \div 2 /\ ShiftStep(c) < 128
             /\ c \div 2 \in Byte
  <2>1. 140 \in Byte /\ c < 2 * 128
    BY Bytes256
  <2>2. c \div 2 \in Byte /\ c \div 2 < 128
    BY <2>1, Halves
  <2> QED BY <1>2, <2>1, <2>2, XorByte DEF ShiftStep
<1>4. ASSUME NEW c \in Byte, NEW d \in Byte, ShiftStep(c) = ShiftStep(d)
      PROVE  c = d
  <2>1. ShiftStep(c) \in Nat /\ ShiftStep(d) \in Nat /\ c \in Nat /\ d \in Nat
    BY <1>3, Bytes256
  <2>2. c % 2 = d % 2 /\ (c % 2 = 1 <=> d % 2 = 1)
    <3>1. (c % 2 = 1 => ShiftStep(c) >= 128) /\ (c % 2 # 1 => ShiftStep(c) < 128)
      BY <1>3
    <3>2. (d % 2 = 1 => ShiftStep(d) >= 128) /\ (d % 2 # 1 => ShiftStep(d) < 128)
      BY <1>3
    <3> QED BY <1>4, <2>1, <3>1, <3>2
  <2>3. c \div 2 = d \div 2
    <3>1. 140 \in Byte
      BY Bytes256
    <3>2. c \div 2 \in Byte /\ d \div 2 \in Byte
      BY Halves
    <3>3. CASE c % 2 = 1
      <4>1. Xor[<<c \div 2, 140>>] = Xor[<<d \div 2, 140>>]
        BY <1>3, <1>4, <2>2, <3>3
      <4> QED BY <3>1, <3>2, <4>1, XorTells, Zenon
    <3>4. CASE c % 2 # 1
      BY <1>3, <1>4, <2>2, <3>4
    <3> QED BY <3>3, <3>4
  <2> QED BY <2>1, <2>2, <2>3, Halves
<1>. QED
  BY <1>3, <1>4

\* A value that is carried through a row of functions: there is a row of results,
\* and every row of results stays in the set.
LEMMA Iterates ==
  ASSUME NEW n \in Nat, NEW S, NEW x \in S, NEW F \in [1..n -> [S -> S]]
  PROVE  /\ \E g : g = [i \in 0..n |-> IF i = 0 THEN x ELSE F[i][g[i - 1]]]
         /\ \A g : g = [i \in 0..n |-> IF i = 0 THEN x ELSE F[i][g[i - 1]]]
                     => \A i \in 0..n : g[i] \in S
<1> DEFINE Row(g, k) == g = [i \in 0..k |-> IF i = 0 THEN x ELSE F[i][g[i - 1]]]
<1>1. \A k \in 0..n : \E g : Row(g, k)
  <2> DEFINE T == {k \in 0..n : ~\E g : Row(g, k)}
  <2>1. SUFFICES ASSUME T # {} PROVE FALSE
    OBVIOUS
  <2>2. PICK k \in T : \A y \in T : k <= y
    <3>1. T \subseteq Nat
      OBVIOUS
    <3> HIDE DEF T
    <3> QED BY <2>1, <3>1, LeastNumber
  <2>3. k # 0
    <3> DEFINE g0 == [i \in 0..0 |-> x]
    <3>1. Row(g0, 0)
      OBVIOUS
    <3> QED BY <3>1
  <2>4. k - 1 \in 0..n /\ k - 1 \notin T /\ k \in Nat
    <3>1. k \in 0..n
      OBVIOUS
    <3> HIDE DEF T
    <3> QED BY <2>2, <2>3, <3>1
  <2>5. PICK g : Row(g, k - 1)
    BY <2>4
  <2> DEFINE h == [i \in 0..k |-> IF i = k THEN F[k][g[k - 1]] ELSE g[i]]
  <2>6. \A i \in 0..k : h[i] = IF i = 0 THEN x ELSE F[i][h[i - 1]]
    <3>1. \A i \in 0..(k - 1) : g[i] = IF i = 0 THEN x ELSE F[i][g[i - 1]]
      BY <2>5
    <3>2. TAKE i \in 0..k
    <3>3. i = k \/ i \in 0..(k - 1)
      BY <2>4
    <3>4. CASE i = k
      BY <2>3, <2>4, <3>4
    <3>5. CASE i \in 0..(k - 1)
      BY <2>4, <3>1, <3>5
    <3> QED BY <3>3, <3>4, <3>5
  <2>7. Row(h, k)
    <3>1. h = [i \in 0..k |-> h[i]]
      OBVIOUS
    <3> HIDE DEF h
    <3> QED BY <2>6, <3>1
  <2> QED BY <2>7
<1>2. ASSUME NEW g, Row(g, n) PROVE \A i \in 0..n : g[i] \in S
  <2> DEFINE T == {i \in 0..n : g[i] \notin S}
  <2>0. \A i \in 0..n : g[i] = IF i = 0 THEN x ELSE F[i][g[i - 1]]
    BY <1>2
  <2>1. SUFFICES ASSUME T # {} PROVE FALSE
    OBVIOUS
  <2>2. PICK k \in T : \A y \in T : k <= y
    <3>1. T \subseteq Nat
      OBVIOUS
    <3> HIDE DEF T
    <3> QED BY <2>1, <3>1, LeastNumber
  <2>3. k # 0
    BY <2>0
  <2>4. k - 1 \in 0..n /\ k - 1 \notin T /\ k \in 1..n
    BY <2>2, <2>3
  <2>5. g[k] = F[k][g[k - 1]] /\ g[k - 1] \in S
    BY <2>0, <2>3, <2>4
  <2>6. F[k] \in [S -> S]
    BY <2>4
  <2> QED BY <2>5, <2>6
<1>. QED
  BY <1>1, <1>2

\* What the eight steps of one byte come to.
LEMMA TableTells ==
  /\ \A c \in Byte : ByteTable[c] \in Byte
  /\ \A c, d \in Byte : ByteTable[c] = ByteTable[d] => c = d
<1> DEFINE Eight(c, f) == f = [i \in 0..8 |-> IF i = 0 THEN c ELSE ShiftStep(f[i - 1])]
           Steps(c) == CHOOSE f : Eight(c, f)
<1>1. \A c \in Byte : ByteTable[c] = Steps(c)[8]
  BY DEF ByteTable
<1>2. ASSUME NEW c \in Byte
      PROVE  Eight(c, Steps(c)) /\ \A i \in 0..8 : Steps(c)[i] \in Byte
  <2> DEFINE F == [i \in 1..8 |-> [b \in Byte |-> ShiftStep(b)]]
             Row(g) == g = [i \in 0..8 |-> IF i = 0 THEN c ELSE F[i][g[i - 1]]]
  <2>1. F \in [1..8 -> [Byte -> Byte]]
    BY ShiftTells
  <2>2. /\ \E g : Row(g)
        /\ \A g : Row(g) => \A i \in 0..8 : g[i] \in Byte
    <3>1. 8 \in Nat
      OBVIOUS
    <3>2. \A G \in [1..8 -> [Byte -> Byte]] :
            /\ \E g : g = [i \in 0..8 |-> IF i = 0 THEN c ELSE G[i][g[i - 1]]]
            /\ \A g : g = [i \in 0..8 |-> IF i = 0 THEN c ELSE G[i][g[i - 1]]]
                        => \A i \in 0..8 : g[i] \in Byte
      BY <3>1, Iterates
    <3> HIDE DEF F
    <3> QED BY <2>1, <3>2
  <2>3. \A i \in 1..8 : \A b \in Byte : F[i][b] = ShiftStep(b)
    OBVIOUS
  <2> HIDE DEF F
  <2>4. \E g : Eight(c, g)
    <3>1. PICK g : Row(g)
      BY <2>2
    <3>2. \A i \in 0..8 : g[i] \in Byte
      BY <2>2, <3>1
    <3>3. \A i \in 0..8 : i # 0 => i \in 1..8 /\ i - 1 \in 0..8
      OBVIOUS
    <3>4. \A i \in 0..8 : i # 0 => F[i][g[i - 1]] = ShiftStep(g[i - 1])
      BY <2>3, <3>2, <3>3
    <3>5. Eight(c, g)
      BY <3>1, <3>4
    <3> QED BY <3>5
  <2>5. Eight(c, Steps(c))
    BY <2>4
  <2>6. \A i \in 0..8 : Steps(c)[i] = IF i = 0 THEN c ELSE ShiftStep(Steps(c)[i - 1])
    <3> HIDE DEF Steps
    <3> QED BY <2>5
  <2> HIDE DEF Steps
  <2>7. Steps(c)[0] \in Byte /\ Steps(c)[1] \in Byte /\ Steps(c)[2] \in Byte
    BY <2>6, ShiftTells
  <2>8. Steps(c)[3] \in Byte /\ Steps(c)[4] \in Byte /\ Steps(c)[5] \in Byte
    BY <2>6, <2>7, ShiftTells
  <2>9. Steps(c)[6] \in Byte /\ Steps(c)[7] \in Byte /\ Steps(c)[8] \in Byte
    BY <2>6, <2>8, ShiftTells
  <2>10. \A i \in 0..8 : i \in {0, 1, 2, 3, 4, 5, 6, 7, 8}
    OBVIOUS
  <2> QED BY <2>5, <2>7, <2>8, <2>9, <2>10
<1> HIDE DEF Steps
<1>3. ASSUME NEW c \in Byte, NEW d \in Byte, Steps(c)[8] = Steps(d)[8]
      PROVE  c = d
  <2>1. \A b \in Byte : Steps(b)[0] = b
    BY <1>2
  <2>2. \A b \in Byte : \A i \in 0..7 : Steps(b)[i + 1] = ShiftStep(Steps(b)[i])
    <3>1. TAKE b \in Byte
    <3>2. TAKE i \in 0..7
    <3>3. i + 1 \in 0..8 /\ i + 1 # 0 /\ (i + 1) - 1 = i
      BY <3>2
    <3> QED BY <1>2, <3>1, <3>3
  <2> DEFINE Meet(i) == Steps(c)[i] = Steps(d)[i]
  <2>3. \A i \in 0..7 : Meet(i + 1) => Meet(i)
    <3>1. TAKE i \in 0..7
    <3>2. Steps(c)[i] \in Byte /\ Steps(d)[i] \in Byte
      BY <1>2, <3>1
    <3> QED BY <2>2, <3>1, <3>2, ShiftTells
  <2>4. Meet(8)
    BY <1>3
  <2> HIDE DEF Meet
  <2>5. Meet(0)
    <3>0. 7 \in 0..7 OBVIOUS
    <3>1. Meet(7 + 1) => Meet(7) BY <2>3, <3>0
    <3>2. Meet(6 + 1) => Meet(6) BY <2>3
    <3>3. Meet(5 + 1) => Meet(5) BY <2>3
    <3>4. Meet(4 + 1) => Meet(4) BY <2>3
    <3>5. Meet(3 + 1) => Meet(3) BY <2>3
    <3>6. Meet(2 + 1) => Meet(2) BY <2>3
    <3>7. Meet(1 + 1) => Meet(1) BY <2>3
    <3>8. Meet(0 + 1) => Meet(0) BY <2>3
    <3> QED BY <2>4, <3>1, <3>2, <3>3, <3>4, <3>5, <3>6, <3>7, <3>8
  <2> QED BY <2>1, <2>5 DEF Meet
<1>. QED
  BY <1>1, <1>2, <1>3


\* The registers behind each byte of a message.
LEMMA Registers ==
  ASSUME NEW d \in Seq(Byte)
  PROVE  \E f : /\ CrcOf(d) = f[Len(d)] /\ f[0] = 0
                /\ \A i \in 1..Len(d) : f[i] = ByteTable[Xor[<<f[i - 1], d[i]>>]]
                /\ \A i \in 0..Len(d) : f[i] \in Byte
<1> DEFINE Run(f) == f = [i \in 0..Len(d) |->
                            IF i = 0 THEN 0 ELSE ByteTable[Xor[<<f[i - 1], d[i]>>]]]
           Regs == CHOOSE f : Run(f)
           F == [i \in 1..Len(d) |-> [b \in Byte |-> ByteTable[Xor[<<b, d[i]>>]]]]
           Row(g) == g = [i \in 0..Len(d) |-> IF i = 0 THEN 0 ELSE F[i][g[i - 1]]]
<1>1. CrcOf(d) = Regs[Len(d)]
  BY DEF CrcOf
<1>2. Len(d) \in Nat /\ \A i \in 1..Len(d) : d[i] \in Byte
  OBVIOUS
<1>3. F \in [1..Len(d) -> [Byte -> Byte]]
  BY <1>2, XorByte, TableTells
<1>4. \A i \in 1..Len(d) : \A b \in Byte : F[i][b] = ByteTable[Xor[<<b, d[i]>>]]
  OBVIOUS
<1>5. /\ \E g : Row(g)
      /\ \A g : Row(g) => \A i \in 0..Len(d) : g[i] \in Byte
  <2>1. 0 \in Byte
    BY Bytes256
  <2>2. \A G \in [1..Len(d) -> [Byte -> Byte]] :
          /\ \E g : g = [i \in 0..Len(d) |-> IF i = 0 THEN 0 ELSE G[i][g[i - 1]]]
          /\ \A g : g = [i \in 0..Len(d) |-> IF i = 0 THEN 0 ELSE G[i][g[i - 1]]]
                      => \A i \in 0..Len(d) : g[i] \in Byte
    BY <1>2, <2>1, Iterates
  <2> HIDE DEF F
  <2> QED BY <1>3, <2>2
<1> HIDE DEF F
<1>6. \A i \in 0..Len(d) : i # 0 => i \in 1..Len(d) /\ i - 1 \in 0..Len(d)
  BY <1>2
<1>7. PICK g : Row(g)
  BY <1>5
<1>8. Run(g)
  <2>1. \A i \in 0..Len(d) : i # 0 => F[i][g[i - 1]] = ByteTable[Xor[<<g[i - 1], d[i]>>]]
    BY <1>4, <1>5, <1>6, <1>7
  <2> QED BY <1>7, <2>1
<1>9. Run(Regs)
  BY <1>8
<1> HIDE DEF Regs
<1>10. /\ Regs[0] = 0
       /\ \A i \in 1..Len(d) : Regs[i] = ByteTable[Xor[<<Regs[i - 1], d[i]>>]]
  <2>1. \A i \in 0..Len(d) :
          Regs[i] = IF i = 0 THEN 0 ELSE ByteTable[Xor[<<Regs[i - 1], d[i]>>]]
    BY <1>9
  <2>2. 0 \in 0..Len(d) /\ (\A i \in 1..Len(d) : i \in 0..Len(d) /\ i # 0)
    BY <1>2
  <2> QED BY <2>1, <2>2
<1>11. \A i \in 0..Len(d) : Regs[i] \in Byte
  <2> DEFINE T == {i \in 0..Len(d) : Regs[i] \notin Byte}
  <2>1. SUFFICES ASSUME T # {} PROVE FALSE
    OBVIOUS
  <2>2. PICK k \in T : \A y \in T : k <= y
    <3>1. T \subseteq Nat
      OBVIOUS
    <3> HIDE DEF T
    <3> QED BY <2>1, <3>1, LeastNumber
  <2>3. k \in 0..Len(d) /\ Regs[k] \notin Byte
    OBVIOUS
  <2>4. k # 0
    BY <1>10, <2>3, Bytes256
  <2>5. k \in 1..Len(d) /\ k - 1 \in 0..Len(d)
    BY <1>6, <2>3, <2>4
  <2>6. k - 1 \notin T
    <3> HIDE DEF T
    <3> QED BY <2>2, <2>5
  <2>7. Regs[k - 1] \in Byte
    BY <2>5, <2>6
  <2> QED BY <1>2, <1>10, <2>3, <2>5, <2>7, XorByte, TableTells
<1>. QED
  BY <1>1, <1>10, <1>11

\* crc8 gives a byte, and two messages of one length that differ in a single byte
\* have different sums.
THEOREM CrcTellsOneByte ==
  /\ \A d \in Seq(Byte) : CrcOf(d) \in Byte
  /\ \A d, e \in Seq(Byte) : \A k \in 1..Len(d) :
       /\ Len(e) = Len(d) /\ d[k] # e[k]
       /\ \A i \in 1..Len(d) : i # k => d[i] = e[i]
       => CrcOf(d) # CrcOf(e)
<1>1. ASSUME NEW d \in Seq(Byte) PROVE CrcOf(d) \in Byte
  BY Registers
<1>2. SUFFICES ASSUME NEW d \in Seq(Byte), NEW e \in Seq(Byte), NEW k \in 1..Len(d),
                      Len(e) = Len(d), d[k] # e[k],
                      \A i \in 1..Len(d) : i # k => d[i] = e[i]
               PROVE  CrcOf(d) # CrcOf(e)
  BY <1>1
<1>3. Len(d) \in Nat /\ (\A i \in 1..Len(d) : d[i] \in Byte /\ e[i] \in Byte)
  BY <1>2
<1>4. PICK f : /\ CrcOf(d) = f[Len(d)] /\ f[0] = 0
               /\ \A i \in 1..Len(d) : f[i] = ByteTable[Xor[<<f[i - 1], d[i]>>]]
               /\ \A i \in 0..Len(d) : f[i] \in Byte
  BY Registers
<1>5. PICK g : /\ CrcOf(e) = g[Len(d)] /\ g[0] = 0
               /\ \A i \in 1..Len(d) : g[i] = ByteTable[Xor[<<g[i - 1], e[i]>>]]
               /\ \A i \in 0..Len(d) : g[i] \in Byte
  BY <1>2, Registers
<1> DEFINE Right(i) == f[i] = g[i] <=> i < k
           T == {i \in 0..Len(d) : ~Right(i)}
<1>6. ASSUME NEW i \in 1..Len(d), Right(i - 1) PROVE Right(i)
  <2>1. /\ f[i - 1] \in Byte /\ g[i - 1] \in Byte /\ d[i] \in Byte /\ e[i] \in Byte
    BY <1>3, <1>4, <1>5
  <2>2. Xor[<<f[i - 1], d[i]>>] \in Byte /\ Xor[<<g[i - 1], e[i]>>] \in Byte
    BY <2>1, XorByte
  <2>3. f[i] = g[i] <=> Xor[<<f[i - 1], d[i]>>] = Xor[<<g[i - 1], e[i]>>]
    BY <1>4, <1>5, <2>2, TableTells
  <2>4. CASE i < k
    <3>1. d[i] = e[i] /\ f[i - 1] = g[i - 1]
      BY <1>2, <1>6, <2>4
    <3> QED BY <2>3, <2>4, <3>1
  <2>5. CASE i = k
    <3>1. d[i] # e[i] /\ f[i - 1] = g[i - 1]
      BY <1>2, <1>6, <2>5
    <3>2. Xor[<<f[i - 1], d[i]>>] # Xor[<<g[i - 1], e[i]>>]
      BY <2>1, <3>1, XorTells
    <3>3. ~(i < k)
      BY <2>5
    <3> QED BY <2>3, <3>2, <3>3
  <2>6. CASE i > k
    <3>1. d[i] = e[i] /\ f[i - 1] # g[i - 1]
      BY <1>2, <1>6, <2>6
    <3>2. Xor[<<f[i - 1], d[i]>>] # Xor[<<g[i - 1], e[i]>>]
      BY <2>1, <3>1, XorTells
    <3>3. ~(i < k)
      BY <2>6
    <3> QED BY <2>3, <3>2, <3>3
  <2> QED BY <2>4, <2>5, <2>6
<1>7. T = {}
  <2>1. SUFFICES ASSUME T # {} PROVE FALSE
    OBVIOUS
  <2>2. PICK m \in T : \A y \in T : m <= y
    <3>1. T \subseteq Nat
      OBVIOUS
    <3> HIDE DEF T
    <3> QED BY <2>1, <3>1, LeastNumber
  <2>3. m \in 0..Len(d) /\ ~Right(m)
    OBVIOUS
  <2>4. m # 0
    BY <1>4, <1>5, <2>3
  <2>5. m \in 1..Len(d) /\ m - 1 \in 0..Len(d)
    BY <1>3, <2>3, <2>4
  <2>6. m - 1 \notin T
    <3> HIDE DEF T
    <3> QED BY <2>2, <2>5
  <2>7. Right(m - 1)
    BY <2>5, <2>6
  <2> HIDE DEF Right
  <2> QED BY <1>6, <2>3, <2>5, <2>7
<1>8. Right(Len(d))
  <2>1. Len(d) \in 0..Len(d)
    BY <1>3
  <2> HIDE DEF Right
  <2> QED BY <1>7, <2>1
<1>. QED
  BY <1>3, <1>4, <1>5, <1>8

-----------------------------------------------------------------------------
(***************************************************************************)
(* MeterCore implements WaterAccount on every meter whose EEPROM was       *)
(* written before: each step of the main thread, the interrupt, the clock  *)
(* or a power loss is a step of the account or does not show in it.        *)
(*                                                                         *)
(* StepConserves gives what a step with power does to the count.  That the *)
(* record a save writes is never worth more than the flow is NoPhantoms,   *)
(* that a finished one covers what was published is StoreInv, that a save  *)
(* spoils the old record before it changes its worth is TornAtOnce.        *)
(***************************************************************************)

\* A step that leaves the flow, the record and the published total alone, that
\* neither starts nor ends a save, and that keeps the count does not show.
LEMMA Hidden ==
  ASSUME On, On', (pc = "put") = (pc' = "put"), ee' = ee, edges' = edges,
         Counted' = Counted, published' = published
  PROVE  UNCHANGED Account!account
<1>1. Valid(ee)' = Valid(ee) /\ PulsesIn(ee)' = PulsesIn(ee)
  BY DEF Valid, PulsesIn
<1>2. (IF On THEN Counted ELSE 0)' = (IF On THEN Counted ELSE 0)
      /\ (IF On THEN published ELSE 0)' = (IF On THEN published ELSE 0)
  BY Zenon
<1>3. On' = On
  BY DEF On
<1> QED BY <1>1, <1>2, <1>3, Zenon DEF Account!account

\* A save starts, with the published total unchanged or raised to the current one.
LEMMA SaveStarts ==
  ASSUME TypeOK, TypeOK', PublishedCounted, On, On', pc # "put", pc' = "put",
         ee' = ee, edges' = edges, Counted' = Counted,
         published' = published \/ published' = totalPulses
  PROVE  Account!Record
<1>1. published \in Nat /\ published' \in Nat /\ Counted \in Nat
      /\ published <= published' /\ published' <= Counted
  BY CountedBounds DEF TypeOK, CountersOK, PublishedCounted
<1>2. published' \in published..Counted
  <2> HIDE DEF Counted
  <2> QED BY <1>1
<1>3. Valid(ee)' = Valid(ee) /\ PulsesIn(ee)' = PulsesIn(ee)
  BY DEF Valid, PulsesIn
<1> QED BY <1>2, <1>3, Zenon DEF Account!Record

\* The count is a number after a step too.
LEMMA CountedNext == ASSUME TypeOK' PROVE Counted' \in Nat
<1>1. InFlight' \in Nat /\ Held' \in Nat
  BY DEF InFlight, Held, TypeOK, CountersOK
<1>2. totalPulses' \in Nat /\ pulseCount' \in Nat
  BY DEF TypeOK, CountersOK
<1>3. \A f, h, t, q \in Nat : t + f + q + h \in Nat
  OBVIOUS
<1> QED BY <1>1, <1>2, <1>3, Zenon DEF Counted

\* Two numbers that change alike.
LEMMA ChangeAlike ==
  ASSUME NEW c \in Nat, NEW d \in Nat, NEW e \in Nat, NEW f \in Nat, d - c = f - e
  PROVE  f = e => d = c
  OBVIOUS

\* The bound on the edges holds.
LEMMA EdgesBounded == Spec => [](edges <= StoredPulses + MaxEdges)
<1>1. Init => edges <= StoredPulses + MaxEdges
  BY CoreAssumption DEF Init
<1>2. edges <= StoredPulses + MaxEdges /\ [Next]_vars => (edges <= StoredPulses + MaxEdges)'
  <2> SUFFICES ASSUME edges <= StoredPulses + MaxEdges, [Next]_vars
               PROVE  edges' <= StoredPulses + MaxEdges
    OBVIOUS
  <2>1. CASE Main
    <3>1. edges' = edges
      BY <2>1 DEF Main, Boot, SkipSample, BeginSample, CopyCount, ClearCount, Unmask,
         AddPulses, SkipSave, SaveIfDue, PutCell, EndSave, Publish, DriveCoil, PersistCommand
    <3> QED BY <3>1
  <2>2. CASE Tick \/ Crash \/ UNCHANGED vars
    BY <2>2 DEF Tick, Crash, vars
  <2>3. ASSUME NEW n \in Bursts, Edge(n) PROVE edges' <= StoredPulses + MaxEdges
    BY <2>3 DEF Edge
  <2> QED BY <2>1, <2>2, <2>3 DEF Next
<1> QED BY <1>1, <1>2, PTL DEF Spec

\* The covered cells of an image that load() accepts are bytes.
LEMMA CoveredCells ==
  ASSUME NEW m, CellsOK(m), NEW e \in Nat, e <= StoredPulses + MaxEdges,
         m[6] <= e \div 16777216
  PROVE  <<m[3], m[4], m[5], m[6], m[7]>> \in Seq(Byte)
<1>1. m[6] \in Nat /\ m[6] < 256
  <2>1. StoredPulses \in Nat /\ MaxEdges \in Nat
    BY CoreAssumption
  <2>2. e \div 16777216 <= (StoredPulses + MaxEdges) \div 16777216
    BY <2>1
  <2>3. m[6] \in Nat
    BY DEF CellsOK
  <2> QED BY <2>1, <2>2, <2>3, TotalsFit
<1>2. m[3] \in Byte /\ m[4] \in Byte /\ m[5] \in Byte /\ m[6] \in Byte /\ m[7] \in Byte
  BY <1>1, Bytes256 DEF CellsOK
<1>. QED
  BY <1>2

\* From one image that load() accepts a single cell leads to no other: the first cell
\* that a save changes spoils the crc (MeterStore::save, load).
LEMMA TornAtOnce ==
  ASSUME TypeOK, TypeOK', edges <= StoredPulses + MaxEdges, edges' = edges,
         NoPhantomPulses, NoPhantomPulses', PutCell, Valid(ee), Valid(ee)'
  PROVE  \A a \in Addr : ee'[a] = ee[a]
<1> DEFINE d == <<ee[3], ee[4], ee[5], ee[6], ee[7]>>
           e == <<ee'[3], ee'[4], ee'[5], ee'[6], ee'[7]>>
<1>1. at \in Addr /\ (\A a \in Addr : a # at => ee'[a] = ee[a])
  BY DEF PutCell, TypeOK, CellsOK
<1>2. d \in Seq(Byte) /\ e \in Seq(Byte)
  <2>1. edges \in Nat /\ CellsOK(ee) /\ CellsOK(ee')
    BY DEF TypeOK, CountersOK, CellsOK
  <2>2. ee[6] <= edges \div 16777216 /\ ee'[6] <= edges \div 16777216
    BY DEF NoPhantomPulses
  <2> QED BY <2>1, <2>2, CoveredCells
<1>3. /\ ee[1] = Magic /\ ee'[1] = Magic /\ ee[2] = Version /\ ee'[2] = Version
      /\ CrcOf(d) = ee[8] /\ CrcOf(e) = ee'[8]
  BY DEF Valid
<1>4. /\ Len(d) = 5 /\ Len(e) = 5
      /\ \A i \in 1..5 : d[i] = ee[i + 2] /\ e[i] = ee'[i + 2]
  OBVIOUS
<1> HIDE DEF d, e
<1>5. SUFFICES ee'[at] = ee[at]
  BY <1>1
<1>6. CASE at \in {1, 2}
  BY <1>3, <1>6
<1>7. CASE at \in 3..7
  <2>1. SUFFICES ASSUME ee'[at] # ee[at] PROVE FALSE
    OBVIOUS
  <2>2. at - 2 \in 1..5 /\ (at - 2) + 2 = at
    BY <1>7
  <2>3. d[at - 2] # e[at - 2]
    BY <1>4, <2>1, <2>2
  <2>4. \A i \in 1..5 : i # at - 2 => d[i] = e[i]
    <3>1. \A i \in 1..5 : i # at - 2 => i + 2 # at /\ i + 2 \in Addr
      BY <1>7 DEF Addr
    <3> QED BY <1>1, <1>4, <3>1
  <2>5. CrcOf(d) # CrcOf(e)
    <3>1. PICK k \in 1..5 : k = at - 2
      BY <2>2
    <3>2. k \in 1..Len(d) /\ Len(e) = Len(d) /\ d[k] # e[k]
          /\ \A i \in 1..Len(d) : i # k => d[i] = e[i]
      BY <1>4, <2>3, <2>4, <3>1
    <3> QED BY <1>2, <3>2, CrcTellsOneByte, Zenon
  <2>6. ee'[8] = ee[8]
    BY <1>1, <1>7 DEF Addr
  <2> QED BY <1>3, <2>5, <2>6
<1>8. CASE at = 8
  <2>1. \A a \in 3..7 : ee'[a] = ee[a]
    BY <1>1, <1>8 DEF Addr
  <2>2. d = e
    BY <2>1 DEF d, e
  <2> QED BY <1>3, <1>8, <2>2
<1>. QED
  BY <1>1, <1>6, <1>7, <1>8 DEF Addr

\* Every step of the meter is a step of the account or does not show in it.
LEMMA AccountStep ==
  ASSUME TypeOK, TypeOK', StoreInv, NoPhantomPulses, NoPhantomPulses', [Next]_vars,
         edges <= StoredPulses + MaxEdges
  PROVE  [Account!Next]_(Account!account)
<1> DEFINE Goal == [Account!Next]_(Account!account)
<1> SUFFICES Goal
  OBVIOUS
<1>a. CopyFresh /\ SaveInProgress /\ PublishedCounted
  BY DEF StoreInv
<1>b. /\ edges \in Nat /\ edges' \in Nat /\ totalPulses \in Nat
      /\ Counted \in Nat /\ Counted' \in Nat
  <2>1. edges \in Nat /\ edges' \in Nat /\ totalPulses \in Nat
    BY DEF TypeOK, CountersOK
  <2> QED BY <2>1, CountedBounds, CountedNext, Zenon
<1>c. ASSUME On, On', edges' = edges PROVE Counted' = Counted
  <2>1. Counted' - Counted = edges' - edges
    BY <1>a, <1>c, StepConserves
  <2> QED BY <1>b, <1>c, <2>1, ChangeAlike, Zenon
<1>d. ASSUME On, On', (pc = "put") = (pc' = "put"), ee' = ee, edges' = edges,
             published' = published
      PROVE  Goal
  BY <1>c, <1>d, Hidden, Zenon
<1>e. ASSUME Account!Record PROVE Goal
  BY <1>e, Zenon DEF Account!Next
<1>1. CASE Boot
  <2>1. /\ pc = "off" /\ pc' = "loop" /\ edges' = edges /\ ee' = ee /\ published' = 0
        /\ totalPulses' = (IF Valid(ee) THEN PulsesIn(ee) ELSE 0)
        /\ pulseCount' = 0 /\ edgeLatched' = FALSE
    BY <1>1 DEF Boot, RestoreValve, FlowBegin
  <2>2. Counted' = totalPulses'
    <3>1. Held' = 0
      BY <2>1, Zenon DEF Held
    <3>2. InFlight' = 0
      BY <2>1 DEF InFlight
    <3>3. Counted' = totalPulses' + 0 + 0 + 0
      BY <2>1, <3>1, <3>2, Zenon DEF Counted
    <3>4. totalPulses' \in Nat
      BY DEF TypeOK, CountersOK
    <3>5. \A t \in Nat : t + 0 + 0 + 0 = t
      OBVIOUS
    <3> QED BY <3>3, <3>4, <3>5, Zenon
  <2>3. Valid(ee)' = Valid(ee) /\ PulsesIn(ee)' = PulsesIn(ee)
    BY <2>1 DEF Valid, PulsesIn
  <2>4. ~On /\ On' /\ (pc = "put") = FALSE /\ (pc' = "put") = FALSE
    BY <2>1 DEF On
  <2>5. Account!Restart
    BY <2>1, <2>2, <2>3, <2>4, Zenon DEF Account!Restart
  <2> QED BY <2>5, Zenon DEF Account!Next
<1>2. CASE SkipSample
  BY <1>2, <1>d DEF SkipSample, meterVars, storeVars, valveVars, pubVars, On
<1>3. CASE BeginSample
  BY <1>3, <1>d DEF BeginSample, storeVars, valveVars, pubVars, On
<1>4. CASE CopyCount
  BY <1>4, <1>d DEF CopyCount, storeVars, valveVars, pubVars, On
<1>5. CASE ClearCount
  BY <1>5, <1>d DEF ClearCount, storeVars, valveVars, pubVars, On
<1>6. CASE Unmask
  BY <1>6, <1>d DEF Unmask, storeVars, valveVars, pubVars, On
<1>7. CASE AddPulses
  BY <1>7, <1>d DEF AddPulses, valveVars, pubVars, On
<1>8. CASE SkipSave
  BY <1>8, <1>d DEF SkipSave, meterVars, storeVars, valveVars, pubVars, On
<1>9. CASE SaveIfDue
  <2>1. /\ On /\ On' /\ pc # "put" /\ pc' = "put" /\ ee' = ee /\ edges' = edges
        /\ published' = published
    BY <1>9 DEF SaveIfDue, StartSave, meterVars, valveVars, pubVars, On
  <2> QED BY <1>a, <1>c, <1>e, <2>1, SaveStarts, Zenon
<1>10. CASE PutCell
  <2>1. /\ On /\ On' /\ pc = "put" /\ pc' = "put" /\ edges' = edges
        /\ published' = published
    BY <1>10 DEF PutCell, meterVars, valveVars, pubVars, On
  <2>2. Counted' = Counted
    BY <1>c, <2>1
  <2>3. ASSUME Valid(ee)' PROVE PulsesIn(ee)' \in 0..edges
    <3>1. PulsesIn(ee)' \in Nat /\ PulsesIn(ee)' <= edges'
      BY <2>3, TotalOfCells DEF NoPhantomPulses, TypeOK
    <3> HIDE DEF PulsesIn
    <3> QED BY <1>b, <2>1, <3>1
  <2>4. Valid(ee)' \in BOOLEAN
    BY Zenon DEF Valid
  <2>5. On' = On /\ (pc = "put")' = (pc = "put")
    BY <2>1
  <2>6. ASSUME Valid(ee), Valid(ee)' PROVE PulsesIn(ee)' = PulsesIn(ee)
    <3>1. \A a \in Addr : ee'[a] = ee[a]
      BY <1>10, <2>1, <2>6, TornAtOnce
    <3>2. ee'[3] = ee[3] /\ ee'[4] = ee[4] /\ ee'[5] = ee[5] /\ ee'[6] = ee[6]
      BY <3>1 DEF Addr
    <3> QED BY <3>2 DEF PulsesIn
  <2>7. Account!Write
    BY <2>1, <2>2, <2>3, <2>4, <2>5, <2>6, Zenon DEF Account!Write
  <2> QED BY <2>7, Zenon DEF Account!Next
<1>11. CASE EndSave
  <2>1. /\ On /\ On' /\ pc = "put" /\ pc' = "loop" /\ at \notin Addr /\ ee' = ee
        /\ edges' = edges /\ published' = published
    BY <1>11 DEF EndSave, meterVars, valveVars, pubVars, On
  <2>2. Valid(ee) /\ PulsesIn(ee) = totalPulses
    <3>1. at = 9 /\ open \in BOOLEAN
      BY <2>1 DEF Addr, TypeOK, CountersOK, FlagsOK
    <3> QED BY <1>a, <1>b, <2>1, <3>1, SavedImage DEF SaveInProgress, Addr
  <2>3. PulsesIn(ee) \in published..Counted
    <3>1. published \in Nat /\ published <= totalPulses /\ totalPulses <= Counted
      BY <1>a, <2>1, CountedBounds DEF TypeOK, CountersOK, PublishedCounted
    <3> HIDE DEF Counted, PulsesIn
    <3> QED BY <1>b, <2>2, <3>1
  <2>4. Valid(ee)' = Valid(ee) /\ PulsesIn(ee)' = PulsesIn(ee)
    BY <2>1 DEF Valid, PulsesIn
  <2>5. Counted' = Counted
    BY <1>c, <2>1
  <2>6. On' = On /\ (pc' = "put") = FALSE
    BY <2>1
  <2>7. Account!Commit
    BY <2>1, <2>2, <2>3, <2>4, <2>5, <2>6, Zenon DEF Account!Commit
  <2> QED BY <2>7, Zenon DEF Account!Next
<1>12. CASE Publish
  <2>1. /\ On /\ On' /\ pc # "put" /\ pc' = "put" /\ ee' = ee /\ edges' = edges
        /\ published' = totalPulses
    BY <1>12 DEF Publish, StartSave, meterVars, valveVars, On
  <2> QED BY <1>a, <1>c, <1>e, <2>1, SaveStarts, Zenon
<1>13. ASSUME NEW toOpen \in BOOLEAN, DriveCoil(toOpen) PROVE Goal
  BY <1>13, <1>d DEF DriveCoil, meterVars, storeVars, pubVars, On
<1>14. ASSUME NEW toOpen \in BOOLEAN, PersistCommand(toOpen) PROVE Goal
  <2>1. /\ On /\ On' /\ pc # "put" /\ pc' = "put" /\ ee' = ee /\ edges' = edges
        /\ published' = published
    BY <1>14 DEF PersistCommand, StartSave, meterVars, pubVars, On
  <2> QED BY <1>a, <1>c, <1>e, <2>1, SaveStarts, Zenon
<1>15. CASE Tick
  BY <1>15, <1>d DEF Tick, valveVars, pubVars, On
<1>16. CASE Crash
  <2>1. On /\ ~On' /\ (pc' = "put") = FALSE /\ ee' = ee /\ edges' = edges
    BY <1>16 DEF Crash, storeVars, On
  <2>2. Valid(ee)' = Valid(ee) /\ PulsesIn(ee)' = PulsesIn(ee)
    BY <2>1 DEF Valid, PulsesIn
  <2>3. Account!PowerOff
    BY <2>1, <2>2, Zenon DEF Account!PowerOff
  <2> QED BY <2>3, Zenon DEF Account!Next
<1>17. ASSUME NEW n \in Bursts, Edge(n) PROVE Goal
  <2>1. n \in Nat \ {0}
    BY CoreAssumption
  <2>2. /\ pc' = pc /\ edges' = edges + n /\ ee' = ee /\ published' = published
    BY <1>17 DEF Edge, storeVars, pubVars
  <2>3. edges' \in Nat /\ edges' > edges
    BY <1>b, <2>1, <2>2
  <2>4. Valid(ee)' = Valid(ee) /\ PulsesIn(ee)' = PulsesIn(ee)
    BY <2>2 DEF Valid, PulsesIn
  <2>5. On' = On /\ (pc = "put")' = (pc = "put")
    BY <2>2 DEF On
  <2>6. ASSUME On PROVE Counted' = Counted + (edges' - edges)
    <3>1. Counted' - Counted = edges' - edges
      BY <1>a, <2>5, <2>6, StepConserves
    <3>2. PICK c \in Nat, d \in Nat, e \in Nat, f \in Nat :
            c = Counted /\ d = Counted' /\ e = edges /\ f = edges'
      BY <1>b, Zenon
    <3>3. d - c = f - e
      BY <3>1, <3>2, Zenon
    <3>4. d = c + (f - e)
      BY <3>3
    <3> QED BY <3>2, <3>4, Zenon
  <2>7. Account!Flow
    BY <2>2, <2>3, <2>4, <2>5, <2>6, Zenon DEF Account!Flow
  <2> QED BY <2>7, Zenon DEF Account!Next
<1>18. CASE UNCHANGED vars
  <2>1. On' = On /\ (pc = "put")' = (pc = "put") /\ ee' = ee /\ edges' = edges
        /\ published' = published
    BY <1>18 DEF vars, storeVars, pubVars, On
  <2>2. CASE On
    BY <1>d, <2>1, <2>2
  <2>3. CASE ~On
    <3>1. Valid(ee)' = Valid(ee) /\ PulsesIn(ee)' = PulsesIn(ee)
      BY <2>1 DEF Valid, PulsesIn
    <3> QED BY <2>1, <2>3, <3>1, Zenon DEF Account!account
  <2> QED BY <2>2, <2>3
<1> QED BY <1>1, <1>2, <1>3, <1>4, <1>5, <1>6, <1>7, <1>8, <1>9, <1>10, <1>11, <1>12,
           <1>13, <1>14, <1>15, <1>16, <1>17, <1>18 DEF Next, Main

\* On a meter that was written before, the metering core keeps the account that
\* WaterAccount promises: the refinement, for all intervals, bounds and bursts.
THEOREM Implementation == ASSUME ~BlankEeprom PROVE Spec => KeepsAccount
<1>1. Init => Account!Init
  <2> SUFFICES ASSUME Init PROVE Account!Init
    OBVIOUS
  <2>1. /\ pc = "off" /\ edges = StoredPulses /\ ee = ImageOf(StoredPulses, latch)
        /\ latch \in BOOLEAN
    BY DEF Init
  <2>2. Valid(ee) /\ PulsesIn(ee) = edges /\ edges \in Nat
    BY <2>1, SavedImage, CoreAssumption
  <2>3. On = FALSE /\ (pc = "put") = FALSE
    BY <2>1 DEF On
  <2>4. Valid(ee) = TRUE
    BY <2>2, Zenon DEF Valid
  <2> QED BY <2>2, <2>3, <2>4, Zenon DEF Account!Init
<1>2. TypeOK /\ TypeOK' /\ StoreInv /\ NoPhantomPulses /\ NoPhantomPulses' /\ [Next]_vars
      /\ edges <= StoredPulses + MaxEdges => [Account!Next]_(Account!account)
  BY AccountStep
<1> QED BY <1>1, <1>2, TypeCorrect, StoreCorrect, NoPhantoms, EdgesBounded, PTL
        DEF Spec, KeepsAccount, Account!Spec
=============================================================================
