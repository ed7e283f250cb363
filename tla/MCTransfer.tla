---------------------------- MODULE MCTransfer ----------------------------
(* Instances of Transfer for TLC: see README.md for the bounds. *)
EXTENDS Transfer

(* A busy connection or a failing disk, but not both for one file. *)
OneTrouble == {{"partial"}, {"read", "write"}}
ShortEnd == {{"partial", "partial_end"}}
FullDisk == {{"write"}}
BusyAndFailing == {{"partial", "read"}}
========================================================================
