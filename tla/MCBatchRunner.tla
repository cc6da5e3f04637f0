---------------------------- MODULE MCBatchRunner ----------------------------
(* BatchRunner with its constants given in the MCBatchRunner*.cfg files.     *)
EXTENDS BatchRunner
==============================================================================
