----------------------------- MODULE MCLogBuffer -----------------------------
(* Small instances of LogBuffer for TLC. *)
EXTENDS LogBuffer

CONSTANTS f1, f2

TwoFlushes == {f1, f2}
=============================================================================
