--------------------------- MODULE MCSessionStats ---------------------------
(* Small instances of SessionStats for TLC. *)
EXTENDS SessionStats

MCSentSeqs == 0 .. 1
MCRefls    == 0 .. 3
TwoBuckets == {0, 1}
=============================================================================
