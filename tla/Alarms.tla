------------------------------- MODULE Alarms -------------------------------
(***************************************************************************)
(* The TimeAlarms library over the Clock: a few slots for alarms and       *)
(* timers, and serviceAlarms, which a sketch runs while it waits.          *)
(*                                                                         *)
(* now() is read again and again while one alarm is handled, and time      *)
(* passes, or the provider moves the clock, between two readings.  A       *)
(* handler may call any of the operations, delay included.                 *)
(***************************************************************************)
EXTENDS Clock, Sequences

CONSTANTS
  dtNBR_ALARMS,  \* slots
  Values,        \* alarm values, in seconds
  MaxCalls       \* bound: calls a sketch and its handlers make

ASSUME AlarmsAssumption ==
  /\ dtNBR_ALARMS \in Nat \ {0} /\ MaxCalls \in Nat /\ Values \subseteq Nat

VARIABLES
  alarm,     \* the slots
  phase,        \* "sketch", "loop", "stamp", "compare", "call", "handler", "return"
  servicedAlarmId, isServicing,
  at,        \* the slot updateNextTrigger works on
  back,      \* and where it returns to
  time,      \* its local
  reads,     \* the answers of now() in its comparison
  calls,     \* for the bound
  depth,     \* for the properties: handlers that have not returned
  occurrence,\* for the properties: the trigger that each slot last fired for
  armed      \* for the properties: when a timer was started, and base at that time

ghosts == <<depth, occurrence, armed>>
localVars == <<servicedAlarmId, isServicing, at, back, time, reads>>
alarmsVars == <<clockVars, alarm, phase, localVars, calls, ghosts>>

Slots == 0..(dtNBR_ALARMS - 1)
Types == {"dtTimer", "dtExplicitAlarm", "dtDailyAlarm", "dtWeeklyAlarm"}
dtIsAlarm(type) == type \in Types \ {"dtTimer"}
dtUseAbsoluteValue(type) == type \in {"dtTimer", "dtExplicitAlarm"}

Unallocated ==
  [type |-> "dtNotAllocated", isEnabled |-> FALSE, isOneShot |-> FALSE,
   value |-> 0, nextTrigger |-> 0, handler |-> FALSE]

isAllocated(i) == alarm[i].type # "dtNotAllocated"

dtINVALID_ALARM_ID == 255
getTriggeredAlarmId == IF isServicing THEN servicedAlarmId ELSE dtINVALID_ALARM_ID

Never == 0 - 1

AlarmsInit ==
  /\ ClockInit
  /\ alarm = [i \in Slots |-> Unallocated]
  /\ phase = "sketch" /\ servicedAlarmId = 0 /\ isServicing = FALSE
  /\ at = 0 /\ back = "sketch" /\ time = 0 /\ reads = <<>>
  /\ calls = 0 /\ depth = 0 /\ occurrence = [i \in Slots |-> Never]
  /\ armed = [i \in Slots |-> [real |-> 0, base |-> 0]]

-----------------------------------------------------------------------------
(* updateNextTrigger                                                       *)

StartUpdate(i, from) ==
  /\ phase' = "stamp" /\ at' = i /\ back' = from

\* time = now().  An alarm that was due may not be due any more.
Stamp ==
  /\ phase = "stamp"
  /\ ReadsNow
  /\ time' = clk'.sys /\ reads' = <<>> /\ phase' = "compare"
  /\ occurrence' = [occurrence EXCEPT ![at] = IF time' < alarm[at].nextTrigger THEN Never ELSE @]
  /\ armed' = IF dtIsAlarm(alarm[at].type) THEN armed
               ELSE [armed EXCEPT ![at] = [real |-> real, base |-> base']]
  /\ UNCHANGED <<real, tm, cacheTime, refreshed, alarm, servicedAlarmId, isServicing,
                 at, back, calls, depth>>

\* How often the comparison calls now(): not at all when nextTrigger is ahead.
ReadsNeeded(a) ==
  IF ~dtIsAlarm(a.type) \/ a.nextTrigger > time THEN 0
  ELSE CASE a.type = "dtDailyAlarm"  -> 1
         [] a.type = "dtWeeklyAlarm" -> 3
         [] OTHER -> 0

ReadAgain ==
  /\ phase = "compare" /\ Len(reads) < ReadsNeeded(alarm[at])
  /\ ReadsNow
  /\ reads' = Append(reads, clk'.sys)
  /\ UNCHANGED <<real, tm, cacheTime, refreshed, alarm, phase, servicedAlarmId, isServicing,
                 at, back, time, calls, ghosts>>

PeriodStart(a, t) ==
  IF a.type = "dtDailyAlarm" THEN previousMidnight(t) ELSE previousSunday(t)
PeriodEnd(a, t) ==
  IF a.type = "dtDailyAlarm" THEN nextMidnight(t) ELSE nextSunday(t)

Orders == {p \in [1..3 -> 1..3] : {p[1], p[2], p[3]} = 1..3}

\* C leaves open in which order the three calls of previousSunday are made.
StartsRead(a) ==
  CASE Len(reads) = 0 -> {0}
    [] Len(reads) = 1 -> {previousMidnight(reads[1])}
    [] Len(reads) = 3 -> {SundayBefore(reads[p[1]], reads[p[2]], reads[p[3]]) :
                            p \in Orders}

\* Mutant: an alarm whose time has come is set for the period it is in.
PassedBefore(a, start) == a.value + start < time

Passed(a, start) == a.value + start <= time

\* Mutant: a timer runs from its last trigger and not from the time it is served.
TimerFromLast(a) == a.nextTrigger + a.value

TimerTrigger(a) == time + a.value

NextTrigger(a, start) ==
  IF a.type = "dtTimer" THEN TimerTrigger(a)
  ELSE IF a.nextTrigger > time THEN a.nextTrigger
  ELSE IF a.type = "dtExplicitAlarm" THEN a.value
  ELSE a.value + (IF Passed(a, start) THEN PeriodEnd(a, time) ELSE PeriodStart(a, time))

EndUpdate ==
  /\ phase = "compare"
  /\ LET a == alarm[at]
     IN  /\ Len(reads) = ReadsNeeded(a)
         /\ \E start \in StartsRead(a) :
              /\ alarm' = [alarm EXCEPT ![at].nextTrigger = NextTrigger(a, start)]
              /\ occurrence' =
                   IF reads = <<>> \/ start = PeriodStart(a, time) THEN occurrence
                   ELSE [occurrence EXCEPT ![at] = Never]
  /\ phase' = back /\ at' = 0 /\ back' = "sketch" /\ time' = 0 /\ reads' = <<>>
  /\ UNCHANGED <<clockVars, servicedAlarmId, isServicing, calls, depth, armed>>

-----------------------------------------------------------------------------
(* The operations of a sketch and of a handler                             *)

Calling == phase \in {"sketch", "handler"} /\ calls < MaxCalls /\ calls' = calls + 1

Usable(a) == a.handler /\ ~(dtUseAbsoluteValue(a.type) /\ a.value = 0)

\* enable(i) after the slot was given the fields of a.
EnableAs(i, a) ==
  /\ alarm' = [alarm EXCEPT ![i] = [a EXCEPT !.isEnabled = Usable(a)]]
  /\ IF Usable(a) THEN StartUpdate(i, phase) ELSE UNCHANGED <<phase, at, back>>
  /\ UNCHANGED <<servicedAlarmId, isServicing, time, reads, depth, armed>>

\* What the eleven creators of the class may ask create for: a weekly value 0 is
\* refused for both, a daily one only for alarmOnce.
Requests ==
  {r \in [type : Types, value : Values, isOneShot : BOOLEAN, handler : BOOLEAN] :
     /\ r.type = "dtExplicitAlarm" => r.isOneShot
     /\ r.value = 0 => r.type = "dtDailyAlarm" /\ ~r.isOneShot
     /\ r.type = "dtDailyAlarm" => r.value <= SECS_PER_DAY}

FreeSlots == {i \in Slots : ~isAllocated(i)}

create ==
  /\ Calling
  /\ \E r \in Requests :
       /\ IF dtIsAlarm(r.type) THEN ReadsNow ELSE UNCHANGED <<clk, base>>
       /\ IF (dtIsAlarm(r.type) /\ clk'.sys < SECS_PER_YEAR) \/ FreeSlots = {}
          THEN UNCHANGED <<alarm, phase, localVars, ghosts>>
          ELSE LET i == CHOOSE j \in FreeSlots : \A k \in FreeSlots : j <= k
                   a == [alarm[i] EXCEPT !.handler = r.handler, !.isOneShot = r.isOneShot,
                                         !.type = r.type, !.value = r.value]
               IN  EnableAs(i, a) /\ occurrence' = [occurrence EXCEPT ![i] = Never]
  /\ UNCHANGED <<real, tm, cacheTime, refreshed>>

enable(i) ==
  /\ isAllocated(i) /\ Calling
  /\ EnableAs(i, alarm[i])
  /\ UNCHANGED <<clockVars, occurrence>>

disable(i) ==
  /\ isAllocated(i) /\ Calling
  /\ alarm' = [alarm EXCEPT ![i].isEnabled = FALSE]
  /\ UNCHANGED <<clockVars, phase, localVars, ghosts>>

\* Mutant: write leaves the trigger of the old value.
writeKeepingTrigger(i) ==
  /\ isAllocated(i) /\ Calling
  /\ \E v \in Values : EnableAs(i, [alarm[i] EXCEPT !.value = v])
  /\ occurrence' = [occurrence EXCEPT ![i] = Never]
  /\ UNCHANGED clockVars

write(i) ==
  /\ isAllocated(i) /\ Calling
  /\ \E v \in Values : EnableAs(i, [alarm[i] EXCEPT !.value = v, !.nextTrigger = 0])
  /\ occurrence' = [occurrence EXCEPT ![i] = Never]
  /\ UNCHANGED clockVars

Freed(a) == [Unallocated EXCEPT !.isOneShot = a.isOneShot]

free(i) ==
  /\ isAllocated(i) /\ Calling
  /\ alarm' = [alarm EXCEPT ![i] = Freed(@)]
  /\ occurrence' = [occurrence EXCEPT ![i] = Never]
  /\ UNCHANGED <<clockVars, phase, localVars, depth, armed>>

ClockOperation ==
  /\ Calling /\ ClockCall
  /\ UNCHANGED <<alarm, phase, localVars, ghosts>>

-----------------------------------------------------------------------------
(* serviceAlarms                                                           *)

serviceAlarms ==
  /\ IF isServicing THEN UNCHANGED <<isServicing, servicedAlarmId, phase>>
     ELSE isServicing' = TRUE /\ servicedAlarmId' = 0 /\ phase' = "loop"
  /\ UNCHANGED <<alarm, at, back, time, reads, calls, ghosts>>

\* One turn of delay's loop, and of the loops that wait for a digit of the time.
delay ==
  /\ phase \in {"sketch", "handler"}
  /\ serviceAlarms
  /\ UNCHANGED clockVars

waitForDigits ==
  /\ phase \in {"sketch", "handler"}
  /\ ReadsNow
  /\ serviceAlarms
  /\ UNCHANGED <<real, tm, cacheTime, refreshed>>

\* Mutant: the last slot is never looked at.
MoreButTheLast == servicedAlarmId < dtNBR_ALARMS - 1

MoreSlots == servicedAlarmId < dtNBR_ALARMS

NextSlot ==
  /\ servicedAlarmId' = servicedAlarmId + 1 /\ phase' = "loop"
  /\ UNCHANGED <<alarm, isServicing, at, back, time, reads, calls, ghosts>>

\* The handler is called if there is one.
AfterTest(a) == IF a.handler THEN "call" ELSE "return"

\* A slot that is not enabled does not even ask for the time.
PassOver ==
  /\ phase = "loop" /\ MoreSlots
  /\ LET a == alarm[servicedAlarmId]
     IN  IF a.isEnabled THEN ReadsNow /\ clk'.sys < a.nextTrigger
         ELSE UNCHANGED <<clk, base>>
  /\ NextSlot
  /\ UNCHANGED <<real, tm, cacheTime, refreshed>>

Fire ==
  /\ phase = "loop" /\ MoreSlots
  /\ LET i == servicedAlarmId
         a == alarm[i]
     IN  /\ a.isEnabled /\ ReadsNow /\ clk'.sys >= a.nextTrigger
         /\ IF a.isOneShot
            THEN /\ alarm' = [alarm EXCEPT ![i] = Freed(@)]
                 /\ phase' = AfterTest(a)
                 /\ occurrence' = [occurrence EXCEPT ![i] = Never]
                 /\ UNCHANGED <<at, back>>
            ELSE /\ StartUpdate(i, AfterTest(a))
                 /\ occurrence' = [occurrence EXCEPT ![i] = a.nextTrigger]
                 /\ UNCHANGED alarm
  /\ UNCHANGED <<real, tm, cacheTime, refreshed, servicedAlarmId, isServicing,
                 time, reads, calls, depth, armed>>

CallHandler ==
  /\ phase = "call" /\ phase' = "handler" /\ depth' = depth + 1
  /\ UNCHANGED <<clockVars, alarm, localVars, calls, occurrence, armed>>

HandlerReturns ==
  /\ phase = "handler" /\ phase' = "return" /\ depth' = depth - 1
  /\ UNCHANGED <<clockVars, alarm, localVars, calls, occurrence, armed>>

Return == phase = "return" /\ NextSlot /\ UNCHANGED clockVars

EndService ==
  /\ phase = "loop" /\ ~MoreSlots
  /\ isServicing' = FALSE /\ phase' = "sketch" /\ servicedAlarmId' = 0
  /\ UNCHANGED <<clockVars, alarm, at, back, time, reads, calls, ghosts>>

TimePasses == Tick /\ UNCHANGED <<alarm, phase, localVars, calls, ghosts>>

Call ==
  \/ create \/ ClockOperation
  \/ \E i \in Slots : enable(i) \/ disable(i) \/ write(i) \/ free(i)

AlarmsWork ==
  \/ Stamp \/ ReadAgain \/ EndUpdate \/ PassOver \/ Fire
  \/ CallHandler \/ HandlerReturns \/ Return \/ EndService

AlarmsNext == Call \/ delay \/ waitForDigits \/ AlarmsWork \/ TimePasses

\* A sketch waits with Alarm.delay, and handlers return.
AlarmsFairness == WF_alarmsVars(delay) /\ WF_alarmsVars(AlarmsWork) /\ WF_alarmsVars(TimePasses)

AlarmsSpec == AlarmsInit /\ [][AlarmsNext]_alarmsVars /\ AlarmsFairness
-----------------------------------------------------------------------------
(* Properties                                                              *)

\* The variables keep their types.
AlarmsTypeOK ==
  /\ real \in 0..MaxReal /\ base \in Int /\ refreshed \in BOOLEAN /\ cacheTime \in Nat
  /\ clk.sys \in Nat /\ clk.prev \in 0..(MillisMod - 1) /\ clk.nextSync \in Int
  /\ clk.interval \in Intervals /\ clk.provider \in BOOLEAN
  /\ clk.status \in {"timeNotSet", "timeNeedsSync", "timeSet"}
  /\ DOMAIN alarm = Slots
  /\ \A i \in Slots : alarm[i].type \in Types \cup {"dtNotAllocated"}
  /\ phase \in {"sketch", "loop", "stamp", "compare", "call", "handler", "return"}
  /\ servicedAlarmId \in 0..dtNBR_ALARMS /\ at \in Slots
  /\ back \in {"sketch", "handler", "call", "return"}
  /\ Len(reads) <= 3 /\ calls \in 0..MaxCalls /\ depth \in Nat

\* The clock loses and invents no part of a second, whoever sets it, adjusts it or
\* reads it and however seldom: the whole seconds of sysTime and the milliseconds
\* since prevMillis add up to the time since the clock's zero (now, setTime).
NoSecondLost == clk.sys * MillisPerSecond + Elapsed(clk) = real - base

\* The cached fields are the date of cacheTime, and makeTime gives that time back,
\* leap years, centuries and two-digit years included; unless they are those of
\* power-on, or setTime has put its six fields there: then hour(t) of that very
\* time gives other fields (refreshCache, setTime, breakTime, makeTime).
CacheIsOfItsTime ==
  refreshed => /\ tm = breakTime(cacheTime)
               /\ InYears(cacheTime) => makeTime(tm) = cacheTime

\* What the clock counts and what it caches are both true to the time that passed.
ClockIsTrue == NoSecondLost /\ CacheIsOfItsTime

\* A slot is enabled only if it is allocated, has a handler and a value that its
\* type may have, and no matter how often it was freed, given away again, written
\* or enabled, its next trigger is the time of day, the time of the week or the
\* moment that its value says (create, enable, write, free, updateNextTrigger).
EnabledIsMeant ==
  \A i \in Slots : LET a == alarm[i] IN
    a.isEnabled /\ ~(phase \in {"stamp", "compare"} /\ at = i) =>
      /\ isAllocated(i) /\ Usable(a)
      /\ a.type = "dtExplicitAlarm" => a.nextTrigger = a.value
      /\ dtIsAlarm(a.type) /\ a.type # "dtExplicitAlarm" =>
           LET start == a.nextTrigger - a.value IN start = PeriodStart(a, start)

\* serviceAlarms calls one handler at a time, also when that handler waits with
\* delay, so getTriggeredAlarmId names the alarm whose handler runs.
OneHandlerAtATime == depth <= 1 /\ (depth = 1 => getTriggeredAlarmId \in Slots)

\* Whatever a sketch does to its alarms, inside a handler or outside, an enabled
\* slot means what its value says, and one handler runs at a time.
SlotsAreSound == EnabledIsMeant /\ OneHandlerAtATime

FiresFor(i) == Fire /\ servicedAlarmId = i

\* A daily or weekly alarm fires at most once for each of its triggers, however
\* often it is enabled again and wherever the clock is moved.  The exception is the
\* one the code has: now() gave another day, or another second of the week, when
\* updateNextTrigger asked a second time, or an earlier time than when it was due.
OccurrenceOnce ==
  [][\A i \in Slots : FiresFor(i) /\ dtIsAlarm(alarm[i].type) /\ occurrence[i] # Never
       => alarm[i].nextTrigger > occurrence[i]]_alarmsVars

\* A timer's handler never runs more than a second before its value has passed,
\* counted from when it was enabled or last served, unless the clock was moved.
\* (The comment in updateNextTrigger promises the whole value.)
TimerWaits ==
  [][\A i \in Slots :
       FiresFor(i) /\ alarm[i].type = "dtTimer" /\ armed[i].base = base'
       => real - armed[i].real > (alarm[i].value - 1) * MillisPerSecond]_alarmsVars

\* Nothing fires twice for one trigger or before its time.
FiresWhenMeant == OccurrenceOnce /\ TimerWaits

Due(i) == alarm[i].isEnabled /\ clk.sys >= alarm[i].nextTrigger

\* An alarm that is due is served, freed, disabled or moved: no other alarm and no
\* handler that keeps creating alarms holds it up for ever (serviceAlarms).
DueIsServed == \A i \in Slots : []<>~Due(i)
=============================================================================
