------------------------------ MODULE Billing -------------------------------
(***************************************************************************)
(* The volume a household sees: pulses become tl_ml and mls in the meter,  *)
(* readings in Postgres, and MAX - MIN per time bucket in the portal.      *)
(*                                                                         *)
(* MeterCore says what the meter counts and stores, RadioSession and       *)
(* CloudWorker how readings travel; here a reading arrives or is lost, and *)
(* a restart falls back to a total that was saved.                         *)
(***************************************************************************)
EXTENDS Integers, FiniteSets, FiniteSetsExt, Functions

CONSTANTS
  PulsesPerLiter,  \* FLOW_PULSES_PER_LITER
  ULong,           \* 2^32, the range of the AVR's unsigned long
  TornSaves,       \* a save may be torn by a power loss, and its image refused
  MaxPulses,       \* bound: pulses
  MaxReadings,     \* bound: readings that arrive
  MaxBucket,       \* bound: hours (or days, weeks, months) that pass
  MaxRestarts      \* bound: power losses

ASSUME BillingAssumption ==
  /\ PulsesPerLiter \in Nat \ {0} /\ ULong \in Nat \ {0}
  /\ TornSaves \in BOOLEAN
  /\ {MaxPulses, MaxReadings, MaxBucket, MaxRestarts} \subseteq Nat

VARIABLES
  flowed,    \* pulses of water that went through
  total,     \* FlowMeter::totalPulses_
  interval,  \* pulses of the last sample
  sampled,   \* there was a sample since the last publish
  saved,     \* the total a restart finds in the EEPROM
  saving,    \* telemetry went out and persistNow is due
  bucket,    \* the hour it is
  readings,  \* the readings table: a set of [id, bucket, tl, mls, was]
  restarts,  \* for the bound
  tears      \* how many of the restarts tore a save

billingVars == <<flowed, total, interval, sampled, saved, saving, bucket, readings, restarts, tears>>

\* pulses * 1000UL / pulsesPerLiter_, in unsigned long.
MilliLitres(pulses) == ((pulses * 1000) % ULong) \div PulsesPerLiter

BillingInit ==
  /\ flowed = 0 /\ total = 0 /\ interval = 0 /\ sampled = FALSE
  /\ saved = 0 /\ saving = FALSE
  /\ bucket = 0 /\ readings = {} /\ restarts = 0 /\ tears = 0

Counted(n) == total + n

\* FlowMeter::update, one sample interval later.
Sample(n) ==
  /\ ~saving /\ flowed + n <= MaxPulses
  /\ flowed' = flowed + n
  /\ total' = Counted(n) /\ interval' = n /\ sampled' = TRUE
  /\ UNCHANGED <<saved, saving, bucket, readings, restarts, tears>>

\* Mutant: mls carries the total since boot.
RowWithTotal == [id |-> Cardinality(readings), bucket |-> bucket, was |-> flowed,
                 tl |-> MilliLitres(total), mls |-> MilliLitres(total)]

\* The row that insert_reading makes of a telemetry message, and, for the
\* properties, the water that had flowed by then.
Row == [id |-> Cardinality(readings), bucket |-> bucket, was |-> flowed,
        tl |-> MilliLitres(total), mls |-> MilliLitres(interval)]

\* publishTelemetry; sessions are further apart than samples.
Publish(arrives) ==
  /\ ~saving /\ sampled
  /\ Cardinality(readings) < MaxReadings
  /\ sampled' = FALSE /\ saving' = TRUE
  /\ readings' = IF arrives THEN readings \cup {Row} ELSE readings
  /\ UNCHANGED <<flowed, total, interval, saved, bucket, restarts, tears>>

\* persistNow after a publish, or saveIfDue.
Save ==
  /\ saved' = total /\ saving' = FALSE
  /\ saved' # saved \/ saving
  /\ UNCHANGED <<flowed, total, interval, sampled, bucket, readings, restarts, tears>>

\* Power is lost; the meter starts again from the total load() finds.
Restart ==
  /\ restarts < MaxRestarts /\ restarts' = restarts + 1
  /\ total' = saved
  /\ interval' = 0 /\ sampled' = FALSE /\ saving' = FALSE
  /\ UNCHANGED <<flowed, saved, bucket, readings, tears>>

\* Power is lost inside EEPROM.put, of a new total or of the valve alone: the crc does not
\* match, and load() finds no total at all.
TornSave ==
  /\ TornSaves
  /\ restarts < MaxRestarts /\ restarts' = restarts + 1 /\ tears' = tears + 1
  /\ total' = 0 /\ saved' = 0
  /\ interval' = 0 /\ sampled' = FALSE /\ saving' = FALSE
  /\ UNCHANGED <<flowed, bucket, readings>>

NextBucket ==
  /\ bucket < MaxBucket /\ bucket' = bucket + 1
  /\ UNCHANGED <<flowed, total, interval, sampled, saved, saving, readings, restarts, tears>>

BillingNext ==
  \/ \E n \in 0..MaxPulses : Sample(n)
  \/ \E arrives \in BOOLEAN : Publish(arrives)
  \/ Save \/ Restart \/ TornSave \/ NextBucket

BillingSpec == BillingInit /\ [][BillingNext]_billingVars

-----------------------------------------------------------------------------
(* The portal                                                              *)

\* MAX(tl_ml) - MIN(tl_ml)
Spread(rows) == Max({r.tl : r \in rows}) - Min({r.tl : r \in rows})

\* Mutant: the volume of the samples only.
VolumeOfSamples(rows) == SumFunction([r \in rows |-> r.mls])

\* COALESCE(NULLIF(MAX - MIN, 0), SUM(mls), 0)
Volume(rows) ==
  IF rows = {} THEN 0
  ELSE IF Spread(rows) # 0 THEN Spread(rows)
  ELSE SumFunction([r \in rows |-> r.mls])

\* consumption(): the readings grouped by bucket, and the sum the page shows.
InBucket(b) == {r \in readings : r.bucket = b}
Shown == SumFunction([b \in 0..bucket |-> Volume(InBucket(b))])

\* The volume of n pulses, however many.
TrueMilliLitres(n) == (n * 1000) \div PulsesPerLiter

-----------------------------------------------------------------------------
Rows == [id : 0..MaxReadings, bucket : 0..bucket, was : 0..flowed,
         tl : 0..TrueMilliLitres(MaxPulses), mls : 0..TrueMilliLitres(MaxPulses)]

\* The shape of the state.
BillingTypeOK ==
  /\ {flowed, total, interval, saved} \subseteq 0..MaxPulses
  /\ {sampled, saving} \subseteq BOOLEAN
  /\ bucket \in 0..MaxBucket /\ restarts \in 0..MaxRestarts /\ tears \in 0..restarts
  /\ readings \subseteq Rows /\ Cardinality(readings) <= MaxReadings

\* The water between two readings of one bucket is shown in full, as long as the
\* meter kept its total (consumption).
BucketIsCovered ==
  restarts = 0 => \A b \in 0..bucket : \A r, s \in InBucket(b) :
    TrueMilliLitres(s.was) - TrueMilliLitres(r.was) <= Volume(InBucket(b))

\* A household is never shown more water than went through its meter, plus once
\* more what a torn save threw away, plus the millilitre that rounding can add when a
\* restart makes the meter count over the same total again: with readings lost and the
\* fallback to SUM(mls) (consumption, totalMilliLitres, load).
ShownAgainAtMostOnce == Shown <= (tears + 1) * TrueMilliLitres(flowed) + restarts

\* What it should be: never more than went through the meter ("Volume is
\* millilitres from pulse count").
NeverMoreThanFlowed == Shown <= TrueMilliLitres(flowed)
=============================================================================
