--------------------------- MODULE MCCloudWorker ----------------------------
(* Small instances of CloudWorker: the worker with an operator who may run  *)
(* fit_once next to it, and the worker alone.                               *)
EXTENDS CloudWorker
=============================================================================
