------------------------------- MODULE Clock --------------------------------
(***************************************************************************)
(* The Time library's clock: seconds counted from millis() whenever        *)
(* somebody asks, corrected by a provider that is asked now and then, and  *)
(* a cache of the fields of the last time that was taken apart.            *)
(***************************************************************************)
EXTENDS Calendar

CONSTANTS
  MillisPerSecond,  \* 1000
  MillisMod,        \* 2^32, the width of millis()
  Intervals,        \* sync intervals; the first one is 300 seconds
  FirstInterval,
  Drifts,           \* how far the provider's time is from the clock's
  Times,            \* what setTime is called with
  Dates,            \* what setTime with six fields is called with
  MaxReal           \* bound: milliseconds

ASSUME ClockAssumption ==
  /\ MillisPerSecond \in Nat \ {0} /\ MillisMod \in Nat /\ MillisPerSecond < MillisMod
  /\ FirstInterval \in Intervals /\ Intervals \subseteq Nat /\ Drifts \subseteq Int
  /\ Times \subseteq Nat /\ MaxReal \in Nat
  /\ Dates \subseteq [Second : Nat, Minute : Nat, Hour : Nat, Wday : Nat,
                      Year : {y \in Nat : y <= 99 \/ y >= 1970}, Month : 1..12, Day : 1..31]

VARIABLES
  real,       \* milliseconds since power-on, unbounded in reality
  clk,        \* sysTime, prevMillis, nextSyncTime, syncInterval, Status, getTimePtr
  tm,         \* the cached fields
  cacheTime,  \* the time they are said to be of
  base,       \* for the properties: when the clock's time 0 was, on real's scale
  refreshed   \* for the properties: tm was last written by breakTime

clockVars == <<real, clk, tm, cacheTime, base, refreshed>>

millis == real % MillisMod

\* At power-on, or when setup() has set the clock.
ClockInit ==
  /\ real = 0
  /\ \E t \in {0} \cup Times :
       /\ clk = [sys |-> t, prev |-> 0, interval |-> FirstInterval, provider |-> FALSE,
                  nextSync |-> IF t = 0 THEN 0 ELSE t + FirstInterval,
                  status |-> IF t = 0 THEN "timeNotSet" ELSE "timeSet"]
       /\ base = 0 - t * MillisPerSecond
  /\ tm = [Second |-> 0, Minute |-> 0, Hour |-> 0, Wday |-> 0, Year |-> 0, Month |-> 0, Day |-> 0]
  /\ cacheTime = 0 /\ refreshed = FALSE

-----------------------------------------------------------------------------
(* now() and setTime(t)                                                    *)

Elapsed(c) == (millis - c.prev) % MillisMod

\* The loop of now(): whole seconds move from millis to sysTime.
Counted(c) ==
  LET n == Elapsed(c) \div MillisPerSecond
  IN  [c EXCEPT !.sys = @ + n, !.prev = (@ + n * MillisPerSecond) % MillisMod]

\* Mutant: setTime does not restart the second it is in.
SetClockMidSecond(c, t) ==
  [c EXCEPT !.sys = t, !.nextSync = t + c.interval, !.status = "timeSet"]

SetClock(c, t) ==
  [c EXCEPT !.sys = t, !.nextSync = t + c.interval, !.status = "timeSet", !.prev = millis]

AsksProvider(c) == c.provider /\ Counted(c).nextSync <= Counted(c).sys

\* What the provider may say: nothing (0), or a time that has drifted.
Answers(c) ==
  IF AsksProvider(c) THEN {0} \cup ({Counted(c).sys + d : d \in Drifts} \cap Nat) ELSE {0}

Now(c, answer) ==
  LET a == Counted(c)
  IN  IF ~AsksProvider(c) THEN a
      ELSE IF answer # 0 THEN SetClock(a, answer)
      ELSE [a EXCEPT !.nextSync = a.sys + a.interval,
                     !.status = IF @ = "timeNotSet" THEN @ ELSE "timeNeedsSync"]

\* Whoever calls now() gets clk'.sys.
ReadsNow ==
  \E answer \in Answers(clk) :
    /\ clk' = Now(clk, answer)
    /\ base' = IF AsksProvider(clk) /\ answer # 0
               THEN real - answer * MillisPerSecond ELSE base

Sets(t) ==
  /\ clk' = SetClock(clk, t)
  /\ base' = real - t * MillisPerSecond

-----------------------------------------------------------------------------
(* The operations of a sketch                                              *)

\* Time passes. Bound: somebody calls now() before millis() comes round.
Tick ==
  /\ real < MaxReal
  /\ Elapsed(clk) < MillisMod - 1
  /\ real' = real + 1
  /\ UNCHANGED <<clk, tm, cacheTime, base, refreshed>>

setTime ==
  /\ \E t \in Times : Sets(t)
  /\ UNCHANGED <<real, tm, cacheTime, refreshed>>

\* It builds the date in the cache's own fields and leaves cacheTime alone.
setTimeFields ==
  \E d \in Dates :
    /\ tm' = [d EXCEPT !.Year = YearSince1970(@), !.Wday = tm.Wday]
    /\ Sets(makeTime(tm'))
    /\ refreshed' = FALSE
    /\ UNCHANGED <<real, cacheTime>>

adjustTime ==
  \E d \in Drifts :
    /\ clk.sys + d >= 0     \* bound: no adjustment to before 1970
    /\ clk' = [clk EXCEPT !.sys = @ + d]
    /\ base' = base - d * MillisPerSecond
    /\ UNCHANGED <<real, tm, cacheTime, refreshed>>

\* It asks at once, and may fail at once.
setSyncProvider ==
  LET due == [clk EXCEPT !.provider = TRUE, !.nextSync = clk.sys]
  IN  /\ \E answer \in Answers(due) :
           /\ clk' = Now(due, answer)
           /\ base' = IF answer # 0 THEN real - answer * MillisPerSecond ELSE base
      /\ UNCHANGED <<real, tm, cacheTime, refreshed>>

setSyncInterval ==
  \E i \in Intervals :
    /\ clk' = [clk EXCEPT !.interval = i, !.nextSync = clk.sys + i]
    /\ UNCHANGED <<real, tm, cacheTime, base, refreshed>>

\* hour(t), day(t), year(t) and the others: refreshCache, then the field.
refreshCache(t) ==
  IF t = cacheTime THEN UNCHANGED <<tm, cacheTime, refreshed>>
  ELSE tm' = breakTime(t) /\ cacheTime' = t /\ refreshed' = TRUE

timeFields ==
  /\ ReadsNow
  /\ refreshCache(clk'.sys)
  /\ UNCHANGED real

ClockCall ==
  \/ setTime \/ setTimeFields \/ adjustTime
  \/ setSyncProvider \/ setSyncInterval \/ timeFields
=============================================================================
