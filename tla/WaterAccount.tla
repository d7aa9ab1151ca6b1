---------------------------- MODULE WaterAccount -----------------------------
(***************************************************************************)
(* What the waterbox promises about the water it bills, without pulses in  *)
(* flight, ages, cells or checksums: a running count that follows the flow *)
(* while there is power, a record that a restart counts on from, and       *)
(* reports that the record catches up with.  MeterCore implements it.      *)
(***************************************************************************)
EXTENDS Integers

VARIABLES
  powered,
  flowed,     \* the water that went through the pipe
  counted,    \* what the meter knows of it; nothing without power
  reported,   \* the last total the household was shown in this run
  writing,    \* the record is being rewritten
  readable,   \* a restart would accept the record ..
  kept        \* .. and count on from this

account == <<powered, flowed, counted, reported, writing, readable, kept>>

Init ==
  /\ powered = FALSE /\ writing = FALSE /\ readable = TRUE
  /\ counted = 0 /\ reported = 0
  /\ flowed \in Nat /\ kept = flowed

\* Nothing that flows while there is power is missed, nothing else is counted.
Flow ==
  /\ flowed' \in Nat /\ flowed' > flowed
  /\ counted' = IF powered THEN counted + (flowed' - flowed) ELSE counted
  /\ UNCHANGED <<powered, reported, writing, readable, kept>>

\* A restart counts on from the record.
Restart ==
  /\ ~powered /\ powered'
  /\ counted' = IF readable THEN kept ELSE 0
  /\ reported' = 0
  /\ UNCHANGED <<flowed, writing, readable, kept>>

\* A new total may be shown, never a lower one and never more than was counted,
\* and only together with a new record.
Record ==
  /\ powered /\ ~writing /\ writing'
  /\ reported' \in reported..counted
  /\ UNCHANGED <<powered, flowed, counted, readable, kept>>

\* A record that is half written may be unreadable, and is from the first cell that
\* changes; it is never worth more than the water that flowed.
Write ==
  /\ writing
  /\ readable' \in BOOLEAN
  /\ readable' => kept' \in 0..flowed
  /\ readable /\ readable' => kept' = kept
  /\ UNCHANGED <<powered, flowed, counted, reported, writing>>

\* A finished record is readable and covers what was shown.
Commit ==
  /\ writing /\ ~writing'
  /\ readable /\ kept \in reported..counted
  /\ UNCHANGED <<powered, flowed, counted, reported, readable, kept>>

\* Power may go at any point; the record stays as it is.
PowerOff ==
  /\ powered /\ ~powered' /\ ~writing'
  /\ counted' = 0 /\ reported' = 0
  /\ UNCHANGED <<flowed, readable, kept>>

Next == Flow \/ Restart \/ Record \/ Write \/ Commit \/ PowerOff

Spec == Init /\ [][Next]_account
=============================================================================
