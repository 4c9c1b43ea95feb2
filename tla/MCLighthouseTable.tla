------------------------- MODULE MCLighthouseTable -------------------------
(* LighthouseTable with interchangeable base stations.                     *)
EXTENDS LighthouseTable, TLC

NotForced == -1
Symmetry == Permutations(Stations)
=============================================================================
