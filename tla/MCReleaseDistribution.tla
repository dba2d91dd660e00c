------------------------- MODULE MCReleaseDistribution -------------------------
(***************************************************************************)
(* TLC instance of ReleaseDistribution: three tracks, two with equal splits *)
(* and two of one recording.                                               *)
(***************************************************************************)
EXTENDS ReleaseDistribution

CONSTANTS r1, r2

MCSplits == <<2, 4, 4>>
MCRecordingOf == <<r1, r2, r1>>
================================================================================
