--------------------------- MODULE MCFlashCommand ---------------------------
(* TLC instance of FlashCommand: the image of MCDfuTool, one run. *)
EXTENDS FlashCommand

MCBlock == {0, 63} \cup (64..81)
MCWLength == {0, 1, 6, 256}
MCFunctions == {{"DOWNLOAD", "RESET"}}
=============================================================================
