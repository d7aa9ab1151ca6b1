--------------------------- MODULE MCWaterboxFsm ----------------------------
(* Small instances of WaterboxFsm.  A connect that fails RADIO_RETRY_MAX    *)
(* times may take longer than the publish interval, as it may in the code.  *)
EXTENDS WaterboxFsm
=============================================================================
