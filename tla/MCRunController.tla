---------------------------- MODULE MCRunController ----------------------------
(* RunController with three items of one size, of which two fit the staging      *)
(* area: two cohorts.                                                            *)
EXTENDS RunController

CONSTANTS a, b, c

MCManifest == <<a, b, c>>

MCSize == [i \in {a, b, c} |-> 1]
================================================================================
