----------------------------- MODULE MCDfuTool -----------------------------
(* TLC instance of DfuTool: an image of 17 blocks, one more than a sector, *)
(* so that the second erase happens in the middle of the download.         *)
EXTENDS DfuTool

MCBlock == {0, 63} \cup (64..81)
MCWLength == {0, 1, 6, 256}
MCFunctions == {{"DOWNLOAD", "RESET"}, {"UPLOAD", "DOWNLOAD"}, {"RESET"}}
=============================================================================
