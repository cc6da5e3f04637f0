---------------------------- MODULE MCJobService ----------------------------
(* JobService with its constants given in MCJobService.cfg.                  *)
EXTENDS JobService
==============================================================================
