------------------------ MODULE MCDetectorBatchService ------------------------
(* DetectorBatchService with its constants given in the cfg file.            *)
EXTENDS DetectorBatchService
==============================================================================
