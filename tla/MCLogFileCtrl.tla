--------------------------- MODULE MCLogFileCtrl ---------------------------
(* A log of a few lines, read by up to three runs of the program.          *)
EXTENDS LogFileCtrl
=============================================================================
