----------------------------- MODULE MCBilling ------------------------------
(* A few pulses, readings and hours.  Three pulses to the litre, so that     *)
(* millilitres are rounded as unevenly as 245 pulses round them.             *)
EXTENDS Billing
=============================================================================
