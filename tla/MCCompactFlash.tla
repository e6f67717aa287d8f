--------------------------- MODULE MCCompactFlash ----------------------------
(* Constants of the runs of CompactFlash.                                  *)
EXTENDS CompactFlash

MCBlock == 0..1
MCCounts == 0..5
=============================================================================
