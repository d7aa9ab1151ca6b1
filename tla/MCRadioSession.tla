--------------------------- MODULE MCRadioSession ---------------------------
(* Small instances of RadioSession: a few uses of the radio, each with      *)
(* retries, so that what one attempt leaves behind meets the next.          *)
EXTENDS RadioSession
=============================================================================
