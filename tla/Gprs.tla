-------------------------------- MODULE Gprs --------------------------------
(***************************************************************************)
(* The services of the SIM800 driver beside TCP: the bearer, an HTTP       *)
(* request, the signal report and the modem's clock, each a series of AT   *)
(* commands.                                                               *)
(*                                                                         *)
(* receive() waits for a time.  An answer that comes later is thrown away  *)
(* by the cleanInput of the next command, or is taken for its answer.      *)
(***************************************************************************)
EXTENDS Calendar

CONSTANTS
  TimeoutMod,    \* receive's timeout is a uint16_t of milliseconds
  ClockMod,      \* the width of millis()
  Delays,        \* how long the modem may take for an answer
  Quick,         \* and how long when all is well
  CountMod,      \* receivelen counts in a byte
  Lengths,       \* lengths of the body of an HTTP answer
  resultlength,  \* the room for it
  RtcTimes       \* what RTCset is called with

ASSUME GprsAssumption ==
  /\ {TimeoutMod, ClockMod, Quick, CountMod, resultlength} \subseteq Nat
  /\ Delays \subseteq Nat /\ Lengths \subseteq Nat /\ RtcTimes \subseteq Nat \ {0}
  /\ \A t \in RtcTimes : InYears(t)

VARIABLES
  command,          \* the command that is next, "idle" between two calls
  stateInitialized, \* STATE_INITIALIZED, STATE_REGISTERED and STATE_HTTPINITIALIZED
  stateRegistered,
  stateHttp,
  modem,            \* its bearer, its HTTP service and its clock
  late,             \* the answer that nobody waited for
  calm,             \* from now on everything is answered in time
  fetched,          \* httpGET has returned true since it was last called
  report            \* for the properties: what the last query asked and was told

flags == <<stateInitialized, stateRegistered, stateHttp>>
gprsVars == <<command, flags, modem, late, calm, fetched, report>>

\* What RTCwrite prints and RTCread scans: the year in two digits.
Fields(t) == LET tm == breakTime(t) IN [tm EXCEPT !.Year = @ - 30]
FromFields(f) == IF f.Year = 1 THEN 0 ELSE makeTime([f EXCEPT !.Year = @ + 30])

NeverSet == [Second |-> 0, Minute |-> 0, Hour |-> 0, Wday |-> 1, Year |-> 1, Month |-> 1, Day |-> 1]

GprsInit ==
  /\ command = "idle" /\ stateInitialized = TRUE
  /\ stateRegistered = FALSE /\ stateHttp = FALSE
  /\ modem = [bearer |-> FALSE, http |-> FALSE, rtc |-> NeverSet]
  /\ late = <<>> /\ calm = FALSE /\ fetched = FALSE
  /\ report = [asked |-> "none", to |-> "none", value |-> 0]

-----------------------------------------------------------------------------
(* ATcommand and receive                                                   *)

Timeout(cmd) ==
  CASE cmd = "+SAPBR=1,1" -> 85
    [] cmd = "+SAPBR=0,1" -> 65
    [] OTHER -> 5

\* How long receive waits that is called at a time of the clock: timeIsOut is
\* compared with millis() itself, and may lie behind it when the clock wraps.
Patience(now, timeout) ==
  LET timeIsOut == (now + (timeout % TimeoutMod)) % ClockMod
  IN  IF timeIsOut > now THEN timeIsOut - now ELSE 0

InTime(cmd) ==
  IF calm THEN Quick < Patience(0, Timeout(cmd))
  ELSE \E d \in Delays, now \in {0, ClockMod - 1} : d < Patience(now, Timeout(cmd))
Late(cmd) ==
  ~calm /\ \E d \in Delays, now \in {0, ClockMod - 1} : d >= Patience(now, Timeout(cmd))

HttpCommands == {"+HTTPTERM", "+HTTPPARA", "+HTTPACTION=0"}

\* The modem's part.  It refuses what it has already done.
Accepts(cmd) ==
  CASE cmd = "+SAPBR=1,1" -> ~modem.bearer
    [] cmd = "+SAPBR=0,1" -> modem.bearer
    [] cmd = "+HTTPINIT"  -> ~modem.http
    [] cmd \in HttpCommands -> modem.http
    [] OTHER -> TRUE

Does(cmd) ==
  CASE cmd = "+SAPBR=1,1" -> [modem EXCEPT !.bearer = TRUE]
    [] cmd = "+SAPBR=0,1" -> [modem EXCEPT !.bearer = FALSE]
    [] cmd = "+HTTPINIT"  -> [modem EXCEPT !.http = TRUE]
    [] cmd = "+HTTPTERM"  -> [modem EXCEPT !.http = FALSE]
    [] OTHER -> modem

Says(cmd) ==
  CASE cmd = "+SAPBR=2,1" -> IF modem.bearer THEN 1 ELSE 0
    [] cmd = "+CCLK?"     -> FromFields(modem.rtc)
    [] OTHER -> 0

Silence == [ok |-> FALSE, to |-> "none", value |-> 0]

\* How a command may end: what receive got, the modem, and what comes too late.
Outcomes(cmd, after) ==
  LET own == [ok |-> Accepts(cmd), to |-> cmd, value |-> Says(cmd)]
      now == IF own.ok THEN after ELSE modem
      End(got, m, rest) == [got |-> got, modem |-> m, late |-> rest]
      Overtaken == IF calm THEN {<<>>} ELSE {<<>>, <<own>>}
  IN  {o \in {End(own, now, <<>>)} : InTime(cmd)}
      \cup {End(late[1], now, rest) : rest \in {r \in Overtaken : late # <<>>}}
      \cup {o \in {End(Silence, now, <<own>>)} : Late(cmd)}
      \cup {End(Silence, m, late) : m \in {x \in {modem, now} : ~calm}}

\* Then(got) is what the driver does with the text that receive got.
Exchange(cmd, after, Then(_)) ==
  \E o \in Outcomes(cmd, after) : modem' = o.modem /\ late' = o.late /\ Then(o.got)

ATcommand(cmd, Then(_)) == Exchange(cmd, Does(cmd), Then)

\* The driver goes on at one place if the answer was OK, and at another if not.
Goes(yes, no, got) == command' = IF got.ok THEN yes ELSE no

-----------------------------------------------------------------------------
(* startNetwork, stopNetwork, checkNetwork                                 *)

Idle == command = "idle" /\ stateInitialized

startNetwork ==
  /\ Idle
  /\ command' = IF stateRegistered THEN "stopFirst" ELSE "cipmux"
  /\ UNCHANGED <<flags, modem, late, calm, fetched, report>>

\* Mutant: only if the driver believes that the bearer is open.
stopIfRegistered ==
  /\ command = "stopFirst" \/ (Idle /\ stateRegistered)
  /\ ATcommand("+SAPBR=0,1", LAMBDA got : stateRegistered' = (stateRegistered /\ ~got.ok))
  /\ command' = IF command = "idle" THEN "idle" ELSE "cipmux"
  /\ UNCHANGED <<stateInitialized, stateHttp, calm, fetched, report>>

\* "force stop ever": the call of a sketch asks for no flag at all.
stopNetwork ==
  /\ command \in {"stopFirst", "idle"}
  /\ ATcommand("+SAPBR=0,1", LAMBDA got : stateRegistered' = (stateRegistered /\ ~got.ok))
  /\ command' = IF command = "idle" THEN "idle" ELSE "cipmux"
  /\ UNCHANGED <<stateInitialized, stateHttp, calm, fetched, report>>

\* +CIPMUX=0, and the four settings of the bearer's profile.
Configure ==
  /\ \/ /\ command = "cipmux"
        /\ ATcommand("+CIPMUX=0",
             LAMBDA got : Goes(IF stateRegistered THEN "idle" ELSE "profile", "idle", got))
     \/ command = "profile" /\ ATcommand("+SAPBR=3,1", LAMBDA got : Goes("open", "idle", got))
  /\ UNCHANGED <<flags, calm, fetched, report>>

OpenBearer ==
  /\ command = "open"
  /\ ATcommand("+SAPBR=1,1", LAMBDA got : Goes("query", "idle", got))
  /\ UNCHANGED <<flags, calm, fetched, report>>

\* Any OK will do: what the query says is not looked at.
Registered ==
  /\ command = "query"
  /\ ATcommand("+SAPBR=2,1", LAMBDA got : stateRegistered' = (stateRegistered \/ got.ok))
  /\ command' = "idle"
  /\ UNCHANGED <<stateInitialized, stateHttp, calm, fetched, report>>

\* The text is an answer to this question, and not only an OK.
Scans(cmd, got) == got.ok /\ got.to = cmd

checkNetwork ==
  /\ Idle /\ stateRegistered
  /\ ATcommand("+SAPBR=2,1",
       LAMBDA got : stateRegistered' = (Scans("+SAPBR=2,1", got) /\ got.value = 1))
  /\ UNCHANGED <<command, stateInitialized, stateHttp, calm, fetched, report>>

-----------------------------------------------------------------------------
(* The queries                                                             *)

\* Mutant: every OK is taken for an answer.
Believes(cmd, got) == got.ok

Understands(cmd, got) == Scans(cmd, got)

Query(cmd) ==
  /\ ATcommand(cmd, LAMBDA got : report' =
       IF Understands(cmd, got) THEN [asked |-> cmd, to |-> got.to, value |-> got.value]
       ELSE [asked |-> cmd, to |-> cmd, value |-> 0])
  /\ UNCHANGED <<command, flags, calm, fetched>>

GetMyIP == Idle /\ stateRegistered /\ Query("+SAPBR=2,1")
getSignalQualityReport == Idle /\ Query("+CSQ")
\* RTCread and RTCwrite ask for no flag.
RTCget == command = "idle" /\ Query("+CCLK?")

RTCset ==
  /\ command = "idle"
  /\ \E t \in RtcTimes :
       /\ Fields(t).Year \in 0..99     \* a clock the modem does not refuse
       /\ Exchange("+CCLK=", [modem EXCEPT !.rtc = Fields(t)], LAMBDA got : TRUE)
  /\ UNCHANGED <<command, flags, calm, fetched, report>>

-----------------------------------------------------------------------------
(* httpGET                                                                 *)

httpGET ==
  /\ Idle /\ stateRegistered
  /\ command' = IF stateHttp THEN "term" ELSE "init"
  /\ fetched' = FALSE
  /\ UNCHANGED <<flags, modem, late, calm, report>>

\* HTTPTERM of an earlier request, or of a service that nobody ended: the answer
\* does not matter.
HttpTerm ==
  /\ command \in {"term", "termAgain"}
  /\ ATcommand("+HTTPTERM", LAMBDA got : TRUE)
  /\ command' = IF command = "term" THEN "init" ELSE "initAgain"
  /\ stateHttp' = (stateHttp /\ command = "termAgain")
  /\ UNCHANGED <<stateInitialized, stateRegistered, calm, fetched, report>>

\* Mutant: a refused HTTPINIT is the end of it.
RefusedGoes == "idle"

Refused == "termAgain"

HttpInit ==
  /\ command = "init"
  /\ ATcommand("+HTTPINIT", LAMBDA got : Goes("para", Refused, got))
  /\ UNCHANGED <<flags, calm, fetched, report>>

\* Only this second HTTPINIT sets the flag.
HttpInitAgain ==
  /\ command = "initAgain"
  /\ ATcommand("+HTTPINIT", LAMBDA got :
       Goes("para", "idle", got) /\ stateHttp' = (stateHttp \/ got.ok))
  /\ UNCHANGED <<stateInitialized, stateRegistered, calm, fetched, report>>

\* Two HTTPPARA, and HTTPACTION.
HttpAction ==
  /\ \/ command = "para" /\ ATcommand("+HTTPPARA", LAMBDA got : Goes("action", "idle", got))
     \/ command = "action" /\ ATcommand("+HTTPACTION=0", LAMBDA got : Goes("reply", "idle", got))
  /\ UNCHANGED <<flags, calm, fetched, report>>

\* receivelen's byte reaches every length below 256.
Fits(datalen) == datalen + 1 <= resultlength /\ datalen < CountMod

Rest == [ok |-> TRUE, to |-> "+HTTPREAD", value |-> 0]

\* No +HTTPACTION in time, or another status than 200.
HttpNoReply ==
  /\ command = "reply" /\ (~calm \/ ~modem.bearer)
  /\ command' = "idle" /\ late' = <<>>
  /\ UNCHANGED <<flags, modem, calm, fetched, report>>

\* The body: when httpGET gives up, the rest of it is still on its way.
HttpReply ==
  /\ command = "reply" /\ modem.bearer
  /\ \E datalen \in Lengths :
       \/ Fits(datalen) /\ command' = "close" /\ late' = <<>>
       \/ ~calm /\ command' = "idle" /\ late' = <<Rest>>
  /\ UNCHANGED <<flags, modem, calm, fetched, report>>

HttpClose ==
  /\ command = "close" /\ command' = "idle"
  /\ ATcommand("+HTTPTERM", LAMBDA got :
       fetched' = got.ok /\ stateHttp' = (stateHttp /\ ~got.ok))
  /\ UNCHANGED <<stateInitialized, stateRegistered, calm, report>>

-----------------------------------------------------------------------------
(* The rest of the world                                                   *)

\* A sketch calls init again: state = STATE_NONE, and the modem is reset.
Restart ==
  /\ command = "idle"
  /\ stateInitialized' \in BOOLEAN /\ (calm => stateInitialized')
  /\ stateRegistered' = FALSE /\ stateHttp' = FALSE
  /\ modem' = [modem EXCEPT !.bearer = FALSE, !.http = FALSE] /\ late' = <<>>
  /\ UNCHANGED <<command, calm, fetched, report>>

BearerDrops ==
  /\ ~calm /\ modem.bearer
  /\ modem' = [modem EXCEPT !.bearer = FALSE]
  /\ UNCHANGED <<command, flags, late, calm, fetched, report>>

Calm ==
  /\ ~calm /\ calm' = TRUE
  /\ UNCHANGED <<command, flags, modem, late, fetched, report>>

GprsWork ==
  \/ command = "stopFirst" /\ stopNetwork
  \/ Configure \/ OpenBearer \/ Registered
  \/ HttpTerm \/ HttpInit \/ HttpInitAgain \/ HttpAction \/ HttpNoReply \/ HttpReply \/ HttpClose

Stops == command = "idle" /\ stopNetwork

GprsNext ==
  \/ startNetwork \/ Stops \/ checkNetwork \/ GetMyIP \/ getSignalQualityReport
  \/ RTCget \/ RTCset \/ httpGET \/ GprsWork
  \/ Restart \/ BearerDrops \/ Calm

\* Every receive has a timeout, and a sketch that lacks something keeps trying.
GprsFairness ==
  /\ WF_gprsVars(GprsWork) /\ SF_gprsVars(startNetwork) /\ SF_gprsVars(Stops)
  /\ SF_gprsVars(checkNetwork) /\ SF_gprsVars(httpGET) /\ SF_gprsVars(~stateInitialized /\ Restart)

GprsSpec == GprsInit /\ [][GprsNext]_gprsVars /\ GprsFairness
-----------------------------------------------------------------------------
(* Properties                                                              *)

\* What a query reports is the modem's answer to that very question and never a
\* late one to another, and a time is one that was set (RTCread, getSignalQualityReport,
\* GetMyIP).
ReportIsItsOwn ==
  /\ report.to = report.asked
  /\ report.asked = "+CCLK?" => report.value \in {0} \cup RtcTimes

\* Whatever was lost or came late before, a sketch that stops, checks and starts the
\* network gets a bearer, and the driver knows of it ("force stop ever").
NetworkComesBack == calm ~> stateRegistered /\ modem.bearer

\* And httpGET succeeds again, although every early return leaves the modem's HTTP
\* service as it is and the driver's flag is not set by the first HTTPINIT.
HttpComesBack == calm ~> fetched
=============================================================================
