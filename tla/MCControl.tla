------------------------------ MODULE MCControl ------------------------------
(* Small instances of Control for TLC: all modes with a limit; a caller who  *)
(* has no passphrase for a mode he offers; one who sets no limit; one who    *)
(* sets none and cannot cancel either.                                       *)
EXTENDS Control

Client(offered, passphrase, limited, cancellable) ==
  [offered |-> offered, passphrase |-> passphrase, limited |-> limited,
   cancellable |-> cancellable]

MCConfigs ==
  {Client(Modes, TRUE, TRUE, TRUE), Client({"mixed", "open"}, FALSE, TRUE, TRUE),
   Client({"open"}, FALSE, FALSE, TRUE), Client({"auth"}, TRUE, FALSE, FALSE)}
=============================================================================
