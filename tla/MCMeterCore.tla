---------------------------- MODULE MCMeterCore -----------------------------
(* Small instances of MeterCore.  StoredPulses is put just below a carry    *)
(* between two bytes of the total, so that a torn save mixes them.          *)
EXTENDS MeterCore
=============================================================================
