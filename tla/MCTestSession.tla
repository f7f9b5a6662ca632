---------------------------- MODULE MCTestSession ----------------------------
(* Small instances of TestSession for TLC. *)
EXTENDS TestSession

MCWhen2    == [p \in 0 .. 1 |-> p]
MCWhen1    == [p \in 0 .. 0 |-> 1]
OneStray2  == [s \in 0 .. 2 |-> IF s = 2 THEN 1 ELSE 0]
NoStray2   == [s \in 0 .. 2 |-> 0]
EarlyOrLate == {0, 3}
=============================================================================
