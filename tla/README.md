# A verification of the 2G water meter

The repository holds a battery water meter (an AVR with a SIM800 modem), the libraries it is
built from, its cloud worker and a household portal. This directory keeps TLA+ models of
them, TLC runs that check the models on small instances, and TLAPS proofs about the metering
core, the duty cycle, the modem, the radio session, the worker, the portal and the JSON parser.

`<Module>.tla` models a part, `MC<Module>.tla` and `MC<Module>.cfg` instantiate it for TLC,
`<Module>_proofs.tla` holds theorems. `PROJECT.json` lists the runs, the source lines of
every definition, and the hazards with the properties that watch them.

## The system

| Part | State | Operations | Talks to |
|---|---|---|---|
| `FlowMeter` | pulse counter (written by an interrupt), total, interval volume, sample time | `onPulse`, `takePulses`, `update`, `totalMilliLitres` | sensor; `WaterboxFsm::service` |
| `LatchingValve` | reported position, and outside the program the latch itself | `open`, `close`, `apply` | `onCommand`, `begin` |
| `MeterStore` | dirty flag, time of the last save, 8-byte EEPROM image with crc, fingerprint record | `load`, `save`, `saveIfDue`, `loadFingerprint`, `saveFingerprint` | EEPROM |
| `WaterboxFsm` | state, four times, leak and overuse flags | `begin`, `tick`, `service`, `onCommand`, `onFingerprint` | all of the firmware |
| `GsmMqttClient` | topics, signal, handlers | `begin`, `connect`, `publish*`, `loop`, `disconnect`, `wait`, `onMessage`, `parse*` | modem driver, MQTT client; calls back `service`, `onCommand`, `onFingerprint` |
| `ConsumptionSignature` | parameters, valid flag | `setParams`, `predict`, `classify` | `evaluateSignature` |
| `sim800` library | flags for on, initialised, registered, HTTP, connected | power key, `init`, `getIMEI`, `setup`, AT commands, bearer, HTTP, clock, TCP, escape | the modem over one serial line |
| `GSMPubSubClient` library | session state, packet ids, keepalive times, one buffer | `connect`, `subscribe`, `publish`, `loop`, `disconnect`, `readPacket` | the same serial line, byte by byte |
| Time library | seconds, `millis()` of the last reading, sync provider, cached fields | `now`, `setTime`, `adjustTime`, `setSync*`, `breakTime`, `makeTime` | the modem's clock, or any provider |
| TimeAlarms library | a few slots | `create`, `enable`, `write`, `free`, `serviceAlarms`, `delay` | the Time library; calls back handlers |
| ArduinoJson library | a text parsed in place, a tree of nodes in a buffer | `parse*`, `set`, `add`, `remove`, `printTo`, `prettyPrintTo` | its caller |
| Cloud worker | one database connection and one MQTT client, shared by an ingest and a fit thread | `_on_message`, `_fit_all`; script `fit_once` | broker, Postgres |
| Portal | Postgres tables, a cookie per browser | `register`, `login`, `logout`, `address`, `consumption`, `heatmap` | Postgres, geocoder |

Readings go from the pulse interrupt to the total, by MQTT (QoS 0) to the worker, into
`readings`, and out of the portal as MAX - MIN of a time bucket. Fingerprints go from the
worker's hourly fit to a retained message and into the meter's EEPROM. Commands go from
the broker to the valve while the meter listens. The firmware uses the modem driver, the
MQTT client and Time; TimeAlarms, ArduinoJson and the HTTP part of the driver are used by
the libraries' own examples.

What is hard in it:

* **Interleaving** of the pulse interrupt with `update`; of `service()`, which every wait
  calls back, with the radio session it runs in; of alarm handlers with the service routine
  that they call again; of two Python threads and a script over the same rows; of portal
  requests between their queries.
* **Power losses** between any two bytes of an EEPROM write, or between driving the valve
  and saving it.
* **One serial line** that carries AT commands and MQTT, with no look at the mode; answers
  that come after their timeout and stand in front of the next.
* **Time**: `millis()` wraps, calls that block for minutes leave an old `now` behind, and a
  clock that is read twice in one expression may answer twice differently.
* **Failure** of modem commands, connections, Postgres, single queries; bounded retries.
* **Arithmetic**: millilitres in 32 bits, timeouts in 16, lengths in 8; buckets that do not
  meet.
* **Memory**: a parser that writes where it reads; nodes from a buffer that runs out.

What makes each part correct:

* Core: every pulse counted once; never a total above the water that flowed, whatever a
  crash does; the valve is where the meter says; published totals and commands survive.
* Duty cycle: full rest, full listen window, heartbeat spacing, no call that holds the
  main loop for ever.
* Modem: an initialized modem hears the meter, the toggling key does not lock the meter
  out, no echo in front of later answers; a query reports its own answer; bearer and HTTP
  come back after any failure.
* Radio: the driver's flags are true of the modem, only an acknowledged connection is
  published on, the radio is down between uses; packets stay framed, a live broker is kept
  and a dead one left.
* Fingerprint and commands: verdicts come from a fingerprint that was sent, restarts keep it,
  the valve is where the last command told it to be.
* Clock and alarms: no second is lost, an alarm fires once for each trigger, none is held up.
* JSON: parsing never destroys what it has yet to read or has read, and a printed document
  reads back.
* Worker: verdicts from a fresh fingerprint, `published` and `fp_valid` mean what they
  say, fingerprints reach the broker, storing recovers.
* Portal: keys and ownership hold under interleaving, location and address agree, the volume
  shown is water that flowed.

## Modules

| Layer | Modules |
|---|---|
| abstract | `WaterAccount`, implemented by `MeterCore` |
| firmware | `Crc8`, `MeterCore`, `WaterboxFsm`, `Modem`, `RadioSession`, `Commands`, `Signature` (extends `Crc8`, `Commands`) |
| libraries | `Mqtt`, `Calendar`, `Clock` (extends `Calendar`), `Alarms` (extends `Clock`), `Gprs` (extends `Calendar`), `JsonParser`, `JsonDocument` (extends `JsonParser`) |
| server | `CloudWorker`, `Portal`, `Billing` |
| proofs | `MeterCore_proofs`, `WaterboxFsm_proofs`, `RadioSession_proofs`, `Mqtt_proofs`, `JsonParser_proofs`, `Libraries_proofs` (`Modem`, `Calendar`, `Gprs`, `Clock`, `Alarms`), `CloudWorker_proofs`, `Household_proofs` (`Portal`, `Signature`, `Commands`, `Billing`) |

A module that shares a proof module with others prefixes its `Init`, `Next` and `Spec`
(`BillingSpec`, `SignatureSpec`, `GprsSpec`, `AlarmsSpec`); the rest call them by these names.

A definition whose comment starts with "Mutant" is a wrong version of the definition after it.
`PROJECT.json` names, for each property, one that TLC must find to break it; nothing else
uses them.

### `WaterAccount`
What the waterbox owes a household, without pulses in flight, ages, cells or checksums: a
count that follows the flow while there is power, a record that a restart counts on from,
totals shown only together with a new record, and a finished record that covers what was
shown. A record that is rewritten is unreadable from the first cell that changes until, perhaps,
a mixture is readable by accident, and that is never worth more than the water that flowed.
`MeterCore` implements it (`KeepsAccount`) under

| `WaterAccount` | `MeterCore` |
|---|---|
| `powered` | `On` |
| `flowed` | `edges` |
| `counted` | `Counted`: the total, and the pulses in the counter, the copy and the held edge |
| `reported` | `published` |
| `writing` | `pc = "put"` |
| `readable`, `kept` | `Valid(ee)`, `PulsesIn(ee)` |

### `Crc8`
`MeterStore`'s `crc8` as a fold over bytes with a table of the eight shift steps. `Xor` takes
its two bytes as one pair.

### `MeterCore`
Main-loop steps, the interrupt, the clock and power losses, interleaved. `pc` is the place
in `service()`, `onCommand` or the publish step; `takePulses` is four steps (`BeginSample`,
`CopyCount`, `ClearCount`, `Unmask`), with an edge held by the CPU while interrupts are
off. `EEPROM.put` writes one cell per step (`PutCell`), so a `Crash` can leave any mixture
of two images; `Boot` is `begin()` with `load`. `edges` and `latch` are the world: water and
valve. Ages replace times: `millis() - x`, saturating at the interval it is compared with.
A cell is written whole or not at all. The top pulse byte is not cut to eight bits: totals
stay below 2^32 pulses. `pulses_`-to-volume arithmetic is in `Billing`. `published` is what
telemetry said; the heartbeat, which persists nothing, goes into a table from which nothing is
billed.

### `WaterboxFsm`
`tick()` and the radio calls as sequences of blocking steps. Ages are the unsigned
differences `(millis() - last) % Wrap`, exactly; `tickAge` is how old the tick's `now` is.
`Tick` may pass up to `MaxStall` ticks inside one step, the stand-in for the longest
blocking call. `publishAge` and `heartbeatAge` are kept at 0 in `WaitModem`, where they are
not used. `stateAge`, `sentAge`, `radioEnd` and `connectAge` only observe. The LED is left
out.

### `RadioSession`
One use of the radio after another: driver, MQTT client, modem, network and broker. `rx` is
the serial buffer, in tokens; `mode` is the modem's. An AT exchange is one step and may go
unanswered in a behaviour with `faults` (a variable that `Init` chooses and no step changes, so
that one run holds both worlds). In data mode the AT text goes to the broker (`junk`), and
`cleanInput` and `receive` throw away what waits (`DropInput`). Each `service()` call of a
session evaluates the signature there; one evaluation stands for the many of a `wait`. Time
is left out: a wait may end by timeout whenever nothing came. Left out: signal quality,
keepalive (a session is shorter; `Mqtt` has it), and `PubSubClient::connect`'s branch for an
existing connection, which the third part of `FlagIsHonest` shows to be unreachable.

### `Modem`
`GsmMqttClient::begin` with the driver's `init`, `getIMEI` and `setup`. The power key toggles
(`SwitchOn`); the modem starts from its stored profile, misses `deaf` probes while it starts,
adapts to the rate it hears (`rate = Adapts`) or keeps a fixed one, and repeats commands
when `echo` is on. `&F` may or may not reset the rate: the data sheet is not in the
repository. `faults` is chosen by `Init`: without it a modem that hears answers. `Reboot` restarts
the meter and leaves the modem as it is. The branch of `switchOn` for a modem that is
already on is in the model and never taken, since `init_autobaud` forgets `STATE_ON`. Left out: the
`modem_.stop()` and `TCPstop()` of `begin`, which act on a connection that cannot exist
yet, the calls of `service()` between attempts, and debug output.

### `Gprs`
What else the driver offers: `startNetwork`, `stopNetwork` and `checkNetwork`, `httpGET`,
`GetMyIP`, the signal report, `RTCget` and `RTCset`. `pc` is the command that is next. One AT
command is one `Exchange`: the answer comes in time, late, or never. A late one stays in
`late`, where the next `cleanInput` drops it or, when it arrives after that, the next
`receive` takes it. A timeout is what is left of it in a `uint16_t`, and `receive` compares
`timeIsOut > millis()` on the absolute clock, so near the wrap it may not wait at all.
`receivelen`'s count is a byte. The sketch calls the operations in any order; `Restart` is
`init` after the modem was switched off and on; `Calm` ends the faults of a behaviour.

### `Mqtt`
`PubSubClient` in one connection after another, in the pieces that `readPacket` reads: the
header with its length, then the body. The length `readPacket` computes is cut to
`LengthWrap` pieces (`Header`), and so is the count of what it stores (`PacketRead`); what is
left of such a packet may look like a header of any kind and size (`Guises`). `Arrive` brings
a piece to `available()`, so a packet may be half there when `readByte` gives up. Ages of `lastInActivity`, `lastOutActivity`,
`loop()`'s `t` and `readByte`'s start stand for the times. The broker answers, sends, or
dies (`alive`). `torn`, `misread` and `waiting` only observe: what the property may except (a
read given up inside a packet, a packet whose length is cut or whose count wraps), a
body taken for a header, and how long something has been unanswered.

### `Commands`, `Signature`
`Commands` is pure: the trimming of `onMessage`, the copy into `msg_`, `parseCommand` and
`jsonFloat` over payloads of symbols; `Means` says the same for their sender, as a relation
between positions and without a search. Every payload of `Payloads` comes with what it means
(`SignatureAssumption`, which TLC evaluates). `Signature` is the path of a fingerprint: the broker
retains a message, `OnFingerprint` parses it, `setParams` puts it in use and the record goes
to the EEPROM in `PutCell` steps with the real crc; `Crash` may tear it, `Boot` loads it, and
`Evaluate` is `evaluateSignature` at a flow and an hour. Numbers are units of 0.05 L/min, in
which the margins of `settings.h` are whole, and each takes one cell of the record; the
curve has one harmonic at the quarters of the day, where a sine is 0, 1 or -1. `OnCommand`
moves the valve. `seen`, `sent` and `asked` observe.

### `Calendar`, `Clock`, `Alarms`
`Calendar` is `breakTime` and `makeTime` and the macros for midnights and Sundays, with the
lengths of minutes, hours and days as constants. `Clock` is `now()`, `setTime` in both forms,
`adjustTime`, the synchronisation and the cache of fields; `real` is the true time, of which
`millis()` is the rest. `Alarms` has the slots, `create`, `enable`, `write`, `free` and the
rest as `Call`, and `serviceAlarms` step by step: `updateNextTrigger` reads the clock at `Stamp` and
again at each `ReadAgain`, and time may pass, or the provider move the clock, in between. A
handler may call everything, `delay` included, which finds `isServicing` set.

### `JsonParser`, `JsonDocument`
`JsonParser` is the parser one character per step. Reading position `r` and writing position
`w` are in the same memory; `strings` is where the tree points and what it should find there.
`used` counts the `StaticJsonBuffer`. `JsonDocument` edits the outermost array or object
(`set`, `add`, `remove`, with a `String` that is copied or text that is not), prints it,
compact or through the `Prettyfier`, and parses the print. It is the only module with
`RECURSIVE` operators (printing follows the tree), and nothing is proved in it.

### `CloudWorker`
One meter, since every statement names an IMEI. Each SQL statement commits by itself
(`autocommit=True`), so `_on_message`, the fit thread and `fit_once` interleave between
statements. A fingerprint is `latest`, `older` or `none`; inserting a row ages every other
mention of one (`Aged`). A database or broker that goes away, a crash or a failed fit
takes one of `MaxTroubles`. `fitPc["once"]` is `never` until an operator runs the script. The
meter's session, the broker and Postgres are external and do only what the worker's code
relies on.

### `Portal`
Each request is its queries in order, one step each, without a transaction between them,
for several browsers. A person is an email address and knows its password. `Forms` is what
requests carry: an address or none with a location, none, or a part of one (`Part`). The address
route asks the geocoder only when there is an address and no location, and keeps what came when
the geocoder finds nothing; the portal's own page sends no location, but the route takes one. A
query or a call of the geocoder that throws ends the request with 500 (`QueryFails`). `given`
remembers what came with the request that wrote a row. Token expiry is left out.
`faults` is chosen by `Init`, as in `RadioSession`.

### `Billing`
Composes what the other parts promise into the volume a household sees: samples add pulses,
a reading arrives or is lost, a restart falls back to a saved total (what `MeterCore`
shows) or, when `TornSaves`, to 0, which `tears` counts: a save of a new total or of the valve
alone may be torn, so that may happen at any time. `MilliLitres` is
`totalPulses_ * 1000UL / pulsesPerLiter_` modulo `ULong`; `Volume` is the portal's SQL
expression. `ULong` is a constant, because TLC's integers have 32 bits. `was` in a row observes.

## Runs

| Run | Properties | What it shows |
|---|---|---|
| `core` | `TypeOK` `NoPhantomPulses` `StoredValveMatches` `PulsesConserved` `KeepsAccount` `CountedIsSaved` | counting and storing across two power losses, and that all of it keeps the account of `WaterAccount` |
| `fsm` | `TimesKept` `GoesOn` | the duty cycle over a wrapping clock: rest, spacing of connects, listen window and heartbeats; the radio comes down and up, and the main loop comes back |
| `radio` | `FlagIsHonest` `AckedThisConnection` `RadioIsDown` `UseEnds` | sessions with lost answers, refusals and broken links; `RadioIsDown` for those without |
| `modem` | `InitializedHears` `CalmBringUp` `BringUpEnds` | bringing the modem up, with and without answers, over two restarts of the meter |
| `gprs` | `ReportIsItsOwn` `NetworkComesBack` `HttpComesBack` | late and lost answers, dropped bearers and HTTP requests that give up half way |
| `mqtt` | `NothingMisread` `LivePeerIsKept` `DeadPeerIsLeft` | packets in pieces, too long for the buffer or for the 16-bit length included, and the keepalive |
| `signature` | `VerdictIsOfASentPrint` `RestartChangesNothing` `ValveAsAsked` `FingerprintComesBack` | messages, torn records and restarts; commands in a thousand spellings |
| `alarms` | `ClockIsTrue` `SlotsAreSound` `FiresWhenMeant` `DueIsServed` | alarms over a clock that moves between two readings |
| `json` | `InputIntact` `StringsSurvive` `PrintedReadsBack` `ParseEnds` | 2812 texts parsed in place, edited, printed and parsed again |
| `cloud` | `VerdictIsFresh` `MarkedWasHanded` `FingerprintIsRetained` | ingest, the worker's fit and `fit_once` over the same rows |
| `portal` | `PlaceOfOneRequest` `AnswersAreTrue` | two browsers, with and without locations in their requests and failing queries |
| `billing` | `ShownAgainAtMostOnce` `BucketIsCovered` | lost readings, restarts and torn saves |

Eight of these modules state a `TypeOK`: `MeterCore`, `WaterboxFsm`, `RadioSession`, `Modem`,
`CloudWorker`, `Portal`, `Alarms` (`AlarmsTypeOK`) and `Billing` (`BillingTypeOK`). The run `core`
lists its own; the others hold too and can be checked by adding them as an `INVARIANT` to the
configuration. The listed runs keep to the deeper properties. The types of all modules with
proofs are also parts of the invariants proved below.

### What does not hold

Some modules define a property that the code's documents or the reader might expect and that
TLC refutes. They are in no configuration; these constants show the counterexample:

| Property | With | Why |
|---|---|---|
| `NeverMoreThanFlowed` | `MCBilling`: `BillingSpec`, `PulsesPerLiter` 245, `ULong` 5000, `TornSaves` FALSE, `MaxPulses` 6, `MaxReadings` 4, `MaxBucket` 2, `MaxRestarts` 0 | `totalPulses_ * 1000UL` wraps, in 32 bits from 4294968 pulses, 17.5 m3 (`FlowMeter.cpp:66`; `README.md:25`) |
| `ImeiIsReal` | `MCModem`, the constants of the run `modem` | `getIMEI` asks before `setup` turns the echo off and takes the question for the answer (`sim800.cpp:617`; `README.md:28`) |
| `IngestRecovers` | `MCCloudWorker`: `FairSpec`, `Writers` {"worker"}, `MinSamples` 2, `MaxInbox` 4, `MaxTroubles` 1 | the database connection is opened once and never again (`worker.py:96`; `README.md:57`) |
| `LeakIsReported` | `MCRadioSession`: `Spec`, `RadioRetryMax` 2, `ClockSet` TRUE, `Leaking` TRUE, `MaxWakes` 1, `MaxLoops` 2, `MaxCommands` 1 | in data mode `evaluateSignature` gets no hour and clears the flag just before telemetry (`WaterboxFsm.cpp:42`; `docs/SIGNATURE.md:28`) |
| `MessagesAreRead` | the same | `cleanInput` throws away retained fingerprints and commands that have arrived (`sim800.cpp:232`; `docs/ARCHITECTURE.md:33`) |

### Disagreements seen while modelling

Firmware:

* `ts` is always `unset`: `publishTelemetry` asks the clock while the modem is in data mode
  (`GsmMqttClient.cpp:336`, `sim800.cpp:810`), the cause of `LeakIsReported` too. `README.md:27`
  promises the modem's time.
* With faults the radio can stay up in Idle: nobody looks at what `TCPstop` returns
  (`GsmMqttClient.cpp:319`).
* After a connect that gave up, the publish interval counts from before the attempts
  (`WaterboxFsm.cpp:187`), so Idle can be short; `ConnectSpacing` is what does hold.
* The LED is solid in Connect, before MQTT is up (`WaterboxFsm.cpp:65`, `docs/WIRING.md:49`), and
  idle in Disconnect, while it still is.
* On an EEPROM that was never written, a first save that is torn after the low pulse byte 116
  has a crc equal to the erased crc cell; the meter would start with 2^32 - 140 pulses.
* A torn fingerprint record passes its crc in one of 256 cases; `VerdictIsOfASentPrint` exempts
  those.
* `{"v":true}` and `{"v":"1"}` close the valve, since `atof` of them is 0; a string that reads
  "v" and is followed by another member's colon counts as the key; of a payload that does not
  fit `msg_`, the part that fits is obeyed (`GsmMqttClient.cpp`, `jsonFloat`, `parseCommand`).

The modem driver:

* `receive` takes a `uint16_t`: 85000 ms, "85 sec timeout!" (`sim800.cpp:456`), are 19464 ms, and
  the 150000 ms of `TCPconnect` are 18928.
* `timeIsOut > millis()` is compared without a difference: a wait that begins just before the
  clock wraps ends at once.
* `startNetwork` says registered after any `OK` to `SAPBR=2,1`, also one that says there is no
  bearer; `stopNetwork` stays registered when the bearer was closed already.
* A late `OK` can become the IMEI; `receivelen`'s byte count cannot end a read of 256 bytes or
  more; `httpGET` leaves the modem's HTTP service open on each early return.
* `RTCget` reports the year 2001 as never set, ignores the zone, and knows 2000 to 2099 only.

The libraries:

* MQTT: after `readPacket` gives up inside a packet the rest is taken for a new one; so is what
  is beyond a length cut to `uint16_t` (`GSMPubSubClient.cpp:237`), from 65536 bytes on; the
  keepalive is judged before a PINGRESP that has arrived is read; packets that are too long do
  not refresh `lastInActivity`; `connect` does not look at the type of what it takes for
  CONNACK; `publish` and `subscribe` do not look at `_state`.
* Alarms: a daily alarm fires twice when midnight passes between two calls of `now()` in
  `updateNextTrigger` (`TimeAlarms.cpp:45`, `:53`; `:62` for weekly ones); a timer fires up to a second
  early, against the comment at `TimeAlarms.cpp:76`; `getNextTrigger` counts disabled alarms (`:259`);
  an `AlarmID` of a one-shot that fired names whatever is in its slot now; a clock that is set back
  leaves triggers in the future.
* Time: `setTime` with six fields fills the cache without saying of which time (`Time.cpp:293`);
  before the first `refreshCache` the month is 0; `millis()` must be read once in 49.7 days;
  `setSyncInterval` postpones a synchronisation that is due.
* JSON: `[1]` fails with a nesting limit of 0 (`JsonParser.ipp:23`), where `JsonBuffer.hpp:145` speaks of
  nested arrays; the prettyfier takes a quote after an escaped backslash for escaped
  (`Prettyfier.hpp:37`); a `strdup` that fails leaves a null key (`JsonObject.hpp:187`) or a null string
  (`JsonArray.ipp:17`); a nested container that does not fit is added as the invalid one
  (`JsonArray.ipp:49`); removed nodes are not given back.

The server:

* `upsert_meter` puts `COALESCE(.., false)` into `VALUES`, so every data message, which has no
  `fp_valid`, resets the flag (`db.py:51`, `docs/diagrams/02-database-flow.html:78`).
* `register` inserts account and meter without a transaction; when the second insert fails,
  the email is "taken" by an account without a meter (`register/route.ts:23`). `AnswersAreTrue` says
  what holds without failing queries.
* `mark_published` marks the meter's latest row, which may be the other writer's when
  `fit_once` runs next to the worker (`db.py:128`).
* Several accounts may own one IMEI, and a login by IMEI asks only one of them
  (`login/route.ts:31`); an address given at registration is not geocoded, and one that comes
  with a location is stored with it, wherever that is (`address/route.ts:34`).
* A torn save restarts the total at 0, and MAX - MIN of that bucket shows the old total again
  (`ShownAgainAtMostOnce` is the bound). A restart can also add a millilitre by rounding: with 3
  pulses to the litre, totals of 0 and 3 in one hour, and of 2 and 3 in the next after a restart
  at 2, show 1000 and 334 ml, where the 4 pulses are 1333. Water between the last reading of a bucket and the
  first of the next is in neither.

### Bounds, and why they are enough

* `core`: 254 stored pulses and three edges carry the total over 256, so old and new images
  differ in two pulse bytes and every mixture of them occurs; two crashes give a crash
  during the recovery of another. Intervals of 1 and 2 ticks make samples and saves due in
  every order.
* `fsm`: intervals 5, 10, 2, 3, 2 keep the code's order heartbeat > publish > listen >= retry
  delay, and a heartbeat interval is longer than a session, a rest and the slack of
  `HeartbeatSpacing` together. A call may stall for a tick: the two publishing calls then last as
  long as the listen window, and two failing attempts longer than the publish interval, or
  shorter. `Wrap` 19 is above every interval plus a stall (`FsmAssumption`) and above a heartbeat
  interval plus a session, but not above what passes while heartbeats fail, so ages
  wrap. The code's 2^32 ms is 49 days, its longest interval one hour.
* `radio`: two uses and two tries show what one use leaves for the next and one try for the
  next; two loops and one command let a message come before, during or after the window.
* `modem`: the numbers are the code's (8 rates, 10 tries, 3 probes, 20 questions for the
  registration). Every profile, power state and echo is an initial state, and two
  restarts meet the modem wherever an earlier `begin` left it.
* `gprs`: seconds stand for milliseconds and `TimeoutMod` 66 for 65536, so 85 becomes 19, as
  in the code; an answer takes 1 second or 30, which is longer than 19 and shorter than 85.
  Bodies of 1, 150 and 300 characters are short, fit into 200, and exceed both that and the
  byte. The clock is set in 1999, 2000, 2001 and 2099. Nothing else is bounded.
* `mqtt`: keepalive 2 and socket timeout 1 keep their order. The buffer holds two pieces, a
  length wraps at four and a message has up to five, header included: messages that fit, that are
  too long for the buffer, whose count wraps, and whose length is cut. Two connections show what
  one leaves for the next. With one
  unasked packet of the broker, it can come before, between or after the answers.
* `signature`: five messages, of which two differ in every cell, one has no period, one only
  a mean and one no mean; three are sent, so a record is torn while it is rewritten twice; the
  flows and hours are on both sides of each margin.
* `alarms`: days of two seconds and a clock set to the last second of a Saturday bring a
  midnight and a week's end into eight milliseconds, two of them per second; `MillisMod` 8
  lets `millis()` wrap. Two slots and two calls let a handler reuse the slot of an alarm that
  is being served. Dates are a leap day, the turn of two centuries and a two-digit year.
* `json`: all texts of up to three of ten tokens, most of them broken, and all arrays and objects
  of two elements from ten values and four keys; limits that are and are not exceeded,
  buffers that do and do not suffice; two edits of an array and an object that fill the
  smaller buffer with one more node, so that keys, values and containers fail to fit in turn.
* `cloud`: one sample is the difference between a window that is full and one that is not;
  three messages are a whole session of the meter. One trouble shows each failure against
  every interleaving; with two the same properties hold (1.5 million states, minutes).
* `portal`: two browsers are two requests that overlap, and each property speaks of one
  account or two; two places tell an old address from a new one. Requests bring an address, an
  address with the other place as its location, an address with part of one, or neither.
* `billing`: three pulses to the litre round as unevenly as 245 do; four readings in three buckets
  give buckets with none, one and several; two restarts can both tear a save. `ULong` is out of
  reach there; 5000 shows what 2^32 does.

The states of the runs: `billing` 4.9 million, `portal` 4.2 million, `mqtt` 1.1 million, `alarms`
760,000, `cloud` 640,000, `json` 560,000, `core` 430,000, `radio` 310,000, `signature` 250,000, `fsm`
230,000, `modem` 120,000, `gprs` 50,000.

The constants whose names begin with `Max` (edges, publishes, crashes, stalls, wakes, loops,
commands, messages, troubles, pulses, readings, buckets, restarts, reboots, calls, sends,
connects, edits, the size of a message, real time) are bounds of the models and not limits of
the code. They end the behaviours of most modules, so those runs do not check for deadlock.
`core`, `fsm`, `gprs` and `signature` check it.

### Fairness

* `MeterCore`, `WaterboxFsm`: `WF(Main)` and `WF(Tick)`. `loop()` calls `tick()` without a
  condition, every modem call has a timeout, and the timer interrupt runs. Water, power,
  modem and broker owe nothing.
* `RadioSession`: `WF(Main)`, where a wait always has its timeout; the network and the modem
  act on their own only in behaviours without `faults`, and owe nothing in the others.
* `Modem`: `WF(Main)`: `begin()` goes on, since every command has a timeout, and `loop()` calls it
  again. The second part of `BringUpEnds` is about behaviours without `faults`.
* `Gprs`: `WF(Work)`, since every `receive` ends; `SF` of the calls of a sketch that lacks
  something and keeps trying, strong because other calls may be under way each time. The
  properties begin with `calm`: from some time on the modem answers in time. Nothing obliges it to.
* `Mqtt`: `WF(Step)` and `WF(Time)`: `loop()` is called again and again, its waits have
  timeouts, the clock runs. Nothing is asked of broker, network or the rest of the program.
* `Signature`: `WF(Boot)`, `WF(PutCell)`: power comes back, and a save goes on. `OnFingerprint`
  owes nothing: each session that subscribes is handed the retained message, but the meter's
  own AT commands may throw it away there, in one session or in all (see `MessagesAreRead`).
  `FingerprintComesBack` says as its premise that it gets through again and again.
* `Alarms`: `WF(delay)`, `WF(Work)`, `WF(TimePasses)`: a sketch waits with `Alarm.delay`, as the
  library asks, and handlers return.
* `JsonDocument`: `WF(Parse)`: the parser runs.
* `CloudWorker`: both threads of the worker (scheduled by Python), paho's network loop with
  its reconnect, and meters that keep their schedule. Nothing obliges anybody to run
  `fit_once`. `FingerprintIsRetained` assumes in its statement that samples stay
  sufficient, the database connection stays open and no more runs of `fit_once` start.
* `Portal`, `Billing`: no liveness is claimed; a browser may close at any time.

## Proofs

Eight modules hold proofs. Each theorem is about every value of the constants that satisfies
the module's assumption; the assumptions ask for little more than the kinds of the constants.
Where a theorem needs more, it says so in its own `ASSUME`.

### `MeterCore_proofs` (`CoreAssumption`, `TotalsFit`)

* `TypeCorrect`: `Spec => []TypeOK`.
* `StoreCorrect`: `Spec => []StoreInv`, and from it `ReportsHold`: `ValveReportTrue`,
  `StoredValveMatches` and `PublishedIsStored`. They are not inductive alone. `StoreInv` adds
  that a save in progress writes the image of what the meter reports now and that the
  cells below `at` hold it (`SaveInProgress`), where the latch is during a coil pulse
  (`CoilDriven`), that published pulses are counted (`PublishedCounted`), and that the copy
  of `takePulses` is fresh (`CopyFresh`).
* `EveryPulseCounted`: `PulsesConserved`, an action property, by the lemma `StepConserves`
  with one case per action.
* `NoPhantoms`: under `~BlankEeprom`, `Spec => []NoPhantomPulses`. The proof does not use the
  crc: a torn image that the crc happens to accept is covered too. The invariant `Ledger`
  says that the old cells a save has not reached are covered by the running total, or fit
  under the edges together with it; `ReadBound` concludes that no mixture of old low and
  new high bytes, or the reverse, exceeds the edges. Without `~BlankEeprom` it is false:
  erased cells are worth 2^32 - 1.
* `Implementation`, the refinement. Under `~BlankEeprom`, the initial states are initial states
  of `WaterAccount` and each step is one of its steps or does not show in it (`AccountStep`, one
  case per action). It rests on `StepConserves` for what is counted, `NoPhantoms` for what a
  torn record is worth, `StoreInv` for what a finished one holds, and `TornAtOnce` for the
  moment in between: from a record that a restart accepts no single cell leads to another, so
  the first cell that a save changes spoils it. This uses `TotalsFit`: the totals fit into the
  four pulse bytes, so what a record covers are bytes (`CoveredCells`).
* `CrcTellsOneByte`: `crc8` gives a byte, and two messages of one length that differ in one byte
  have different sums. `Xor`, `ByteTable` and `CrcOf` are recursive functions; that each is what
  its definition says is proved by finding a row of values (`XorIs`, by doubling up to 256;
  `Iterates`, by a least number without one). Then nothing is lost at any step: exclusive or with
  a byte (`XorTells`, bit by bit), a shift step, as only what 0x8C was mixed into has its top bit
  set (`ShiftTells`), and the eight of a byte (`TableTells`). So the registers of the two
  messages part at that byte and never meet again.

### `WaterboxFsm_proofs` (`FsmAssumption`)

Each interval and a stall fit into the clock's width, and listening is no longer than publishing.
`IntervalsKept`, from `TimesCorrect`: `TimeInv`. The four properties compare an observed age with
an interval, while the code compares wrapped differences; `TimeInv` says that until the
observer saturates its age is the difference (`RestInv`, `ConnectInv`, `ListenInv`,
`HeartbeatInv`), and that the tick's `now` is at most as old as the state (`NowIsRecent`). The
width matters in one lemma, `SinceExact`.

### `RadioSession_proofs` (`RadioAssumption`)

`FlagsAreHonest` and `SessionsAreAcked` from `RadioInv`: what is in the serial buffer or on its way
belongs to the last connection, and the buffer is empty while it is dialed (`WireInv`); where
the driver may believe in a context or a connection (`FlagInv`) and in a session
(`SessionInv`). `RadioGoesDown` needs `DownInv` too, about behaviours without faults.

### `Mqtt_proofs` (`MqttAssumption`)

* `HeadersAreHeaders`: `NothingMisread`, for packets of every size, any buffer and any
  `LengthWrap` above it. `FrameInv` says
  that what the client has not read (the pieces at hand and those in the network) is the
  rest of the packet it reads and then whole packets, header after header (`Framed`). It
  holds until `readByte` gives up inside a packet or a packet is as long as the length can wrap
  (`torn`), and one lemma each says that reading, arriving and sending keep it.
* `PeersAreKept`: `LivePeerIsKept`, an action property. `PingInv` says of an open ping that its
  answer is still owed or on its way, and that `waiting` has then lasted at least as long as
  either idle time, or that the answer is in `readPacket`'s hands. A PINGRESP must be a packet of one
  piece for that (`PongsAreShort`).

### `Libraries_proofs`

* `Modem` (`ModemAssumption`). `InitializedMeansHears` from `ModemInv`: while `init` searches for a
  rate its flag is down, and when it is up elsewhere the modem's rate is the meter's or adapts
  (`HearsInv`). `CalmIsEasy`: in a behaviour without faults, after a failed `init` the first press
  has switched the modem off; during `init_autobaud` the probes it still misses fit into the
  tries that are left; during `init_fixbaud` its rate is still ahead in the table (`CalmInv`).
* `Calendar` (`CalendarAssumption`). `DatesAndBack`: `makeTime(breakTime(t)) = t` for every time
  that the table of years reaches (`InYears`), for a table of any length and minutes, hours and
  days of any length. The search for the year and the month is the least number with a
  property, which well-founded induction over finite sets gives; the rest is division
  with remainder.
* `Gprs` (`GprsAssumption`). `ReportsAreTheirOwn` from `GprsInv`: an answer that comes late still
  carries a time that was set, or 0, if it answers a question for the time, and the modem's
  clock is one that was set. The year arithmetic of `RTCget` and `RTCset` rests on
  `DatesAndBack`, which is why the set times must be `InYears`.
* `Clock` and `Alarms` (`AlarmsAssumption`). `ClockKeepsTime`: `ClockInv`, in which the fraction that
  `prevMillis` keeps and the wrap of `millis()` are modular arithmetic, for any width and any
  number of milliseconds per second. `SlotsMeanTheirValues` and `AlarmsFireWhenMeant`, for any
  number of slots, any values and whatever handlers do: `SlotOK` says of each slot what its
  trigger means, that it lies after the occurrence it last fired for, and, for a timer, when
  it was started; each depends on whether `updateNextTrigger` is about to work on the slot
  or compares it (`Mode`). `ServiceInv` is the nesting of `serviceAlarms`, `delay` and handlers.
  The reading of the clock between `Stamp` and `ReadAgain` is where the proof is hard: the
  provider may set the clock back there. The proof changed the model in two places.
  `OccurrenceOnce` speaks of slots that have fired (`occurrence # Never`): the model's
  Sundays before the first week's end are negative numbers, smaller than `Never`. And the
  guards of some `CASE` arms overlapped, of which TLC takes the first and a proof may not.

### `JsonParser_proofs` (`JsonAssumption`)

`InputStaysIntact` and `StringsStay` from `ParserInv`: what the stack holds (`StackInv`); that writing
lags behind reading, and strictly before anything that is unquoted inside a container, where
a terminator is written behind the text (`PlaceInv`); that each string of the tree is below
the place that is written (`StringInv`). It is for texts of every length, so no bound of the
run `json` is behind it. `JsonDocument` uses the same steps, but the theorems are about
`JsonParser`'s own `Spec`, a single parse.

`NestingBounded`: containers are open at most `nestingLimit` deep, one more when the caller asked
for an array or an object, so the recursion of the code is bounded whatever the text. The
invariant `DepthInv` adds up: what is left of the limit and the containers that took one of it are
the limit (`LimitKept`), so `_nestingLimit`, a `uint8_t`, never wraps on the way back.

`EveryStepCloser` is the safety half of `ParseEnds`: `StepsLeft`, a natural number, falls with every
step, by reading on or by coming closer to a step that does (`Rank`); a text of n characters
takes at most 8n + 5 steps. That some step is possible until the parse is done is about
`ENABLED` and stays with the run.

### `CloudWorker_proofs` (`CloudAssumption`)

`VerdictsAreFresh` and `MarksMeanHanded` from `CloudInv`: a pass that inserted has left a row
(`RowInv`), a looked-up fingerprint is the latest unless a row was inserted since
(`VerdictInv`), and, as long as the worker is alone, the row a pass marks is its own and its
message was handed over (`HandedInv`).

### `Household_proofs`

* `Portal` (`PortalNone`, `PortalForms`). `PlacesMatch` from `PlaceInv`: a request carries the
  location that came with it until the geocoder answered, who is asked only when none did, and
  writes that or the place of its own address (`RequestPlace`). `AnswersHold` from
  `AnswerInv`: without faults each account has a meter or is being given one
  (`AccountsUsable`), and rows of `portal_meters` stay (`HomesStay`).
* `Signature` (`SignatureAssumption`, `CommandsAssumption`). `RestartsKeepThePrint` and
  `VerdictsAreMeant` from `SignatureInv`: what the broker retains was sent (`CloudInv`), the cell of the crc was never
  written or is the crc of a print that was sent (`CrcInv`), and a save writes the print in use
  from the first cell up (`SaveInv`). Nothing is used here of `crc8` but that it is a function.
  `VerdictIsOfASentPrint` is an action property, because the first attempt showed that a
  statement about states was false in general, though not within the bounds of the run:
  after a boot with a record whose crc collides, verdicts stay while the next print overwrites
  the record that they came from; and the crc cell of an EEPROM that was never written is 255,
  which is the crc of some torn first record. The property exempts what the crc cannot tell.
* `Commands`. `CommandsUnderstood`, for payloads of every length: when `Means(p, what)`, then
  `ParseCommand(Trimmed(p)) = what`. Each search is one lemma: trimming finds the text
  (`TextIs`), the copy is the front of it as far as anything fits (`CopyIs`), `strstr` and
  `strchr` stop at the first (`FirstOf`), `atof` reads what follows the blanks
  (`TrimmedHead`), and `NumberFound` puts them in a row. `ValveObeys`, that `ValveAsAsked` always
  holds, follows for any set of payloads. `Means` asks that an object's number lies inside
  `msg_` and that the key is not also in front as something else: what the meter makes of the
  rest nobody promises.
* `Billing` (`BillingAssumption`). `HouseholdsAreNotOvercharged` and `BucketsAreCovered`, for any
  pulses per litre, buckets, lost readings, restarts and torn saves, as long as
  `MaxPulses * 1000 < ULong`: beyond it `MilliLitres` wraps and the properties are false
  (`NeverMoreThanFlowed` above). The invariant is a ledger (`Ledger`): how much water had flowed,
  and what the total was, when the open bucket began and when the meter last published or
  restarted. It bounds what earlier buckets show, the samples of the open one and its
  totals; a restart from a total before the bucket's first closes its books, which can only happen
  while it has no rows. Volumes are rounded down, so the books of a bucket may gain one
  millilitre when the total is counted over again. That is the `+ restarts` of
  `ShownAgainAtMostOnce`: without it the property was false, with numbers that the run did not
  reach when it had 245 pulses to the litre; with 3 it does. The portal's `SUM` is a fold over a
  finite set: `SumIs` proves that any element may be added last, which needs that a
  recursion over subsets has a solution (`SumsOfSize`), by induction over their size as the
  least counterexample. That below the wrap `MilliLitres` is exact is `NoWrap`.

### What stays with TLC

TLC agrees with the theorems on the runs. Only model-checked are:

* liveness, which is out of the prover's reach, as is `ENABLED`: `CountedIsSaved`, `GoesOn`,
  `UseEnds`, `BringUpEnds`, `NetworkComesBack`, `HttpComesBack`, `DeadPeerIsLeft`,
  `FingerprintComesBack`, `DueIsServed`, `ParseEnds` (but see `EveryStepCloser`), `FingerprintIsRetained`;
* `PrintedReadsBack`: `JsonDocument` prints with `RECURSIVE` operators, and reading back is
  induction over documents.

## Not modelled

* Floating point: `litresPerMinute_`, the harmonics of `W(t)` beyond the quarters of a day, the
  least-squares fit. The volume in `unsigned long` is.
* The layout of the published JSON, which `snprintf` writes and nothing in the firmware reads.
* Of the sim800 library `switchOff` and the debug output; it has no SMS and no calls.
* Of the MQTT client QoS 1 and the output stream, which the firmware does not use.
* Of ArduinoJson numbers as text, casts, iterators, and the blocks of `DynamicJsonBuffer`.
* The blink patterns, Grafana and Compose, the replay tool, the simulator, the pages, the
  website and the hardware.

## Plan

Done: everything under "Modules", and a theorem for each safety property that the provers can
reach. Left, in this order:

1. `JsonDocument`: the editing of arrays and objects in a module without `RECURSIVE`, so that what
   the pool holds can be proved of every text.
2. `PortalPage`: answers to fetches that arrive after the selection changed
   (`src/user_portal/src/app/app/page.tsx:86`), and the routes `heatmap` and `fingerprint`.
