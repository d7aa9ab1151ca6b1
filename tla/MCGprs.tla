------------------------------- MODULE MCGprs -------------------------------
(* Seconds for milliseconds: a timeout of 66 would be none at all.  Days of two  *)
(* seconds; the clock is set to times in 1999, 2000, 2001 and 2099.              *)
EXTENDS Gprs

MCTime(y, d) == makeTime([Second |-> 0, Minute |-> 0, Hour |-> 1, Wday |-> 0,
                           Year |-> y - 1970, Month |-> 2, Day |-> d])
MCRtcTimes == {MCTime(1999, 1), MCTime(2000, 29), MCTime(2001, 28), MCTime(2099, 28)}
=============================================================================
