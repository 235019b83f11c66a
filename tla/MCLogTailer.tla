----------------------------- MODULE MCLogTailer -----------------------------
(* Bounded instances of LogTailer: its constants are numbers and flags, given *)
(* in the .cfg files, which choose what happens to the log file.              *)
EXTENDS LogTailer
=============================================================================
