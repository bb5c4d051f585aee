--------------------------- MODULE MCInspectionRun ---------------------------
(* One server for TLC: two disks, two or three names.                     *)
EXTENDS InspectionRun
==============================================================================
