-------------------------- MODULE MCDfuBootloader --------------------------
(* TLC instance of DfuBootloader: both ends of the protected region, two   *)
(* blocks of one application sector, the first large sector, and a block   *)
(* past the end of the flash; the wLengths each handler tells apart.       *)
EXTENDS DfuBootloader

MCBlock == {0, 63, 64, 65, 256, 15001}
MCWLength == {0, 1, 6, 255, 256}
=============================================================================
