----------------------------- MODULE MCRepeater -----------------------------
(* Small instances of Repeater for TLC. *)
EXTENDS Repeater

NoInventedCode == -1
TwoInventedCodes == -2
=============================================================================
