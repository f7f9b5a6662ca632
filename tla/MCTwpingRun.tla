------------------------------ MODULE MCTwpingRun ------------------------------
(* Instances of TwpingRun for TLC: a few command lines, each with something  *)
(* of its own.                                                               *)
EXTENDS TwpingRun

MCConfigs == Config

Plain ==
  [usage |-> "plain", count |-> 1, asked |-> {}, identity |-> FALSE,
   keyFile |-> "none", saves |-> TRUE, show |-> "summary", cancellable |-> TRUE]

MCArgSets ==
  {Plain,
   [Plain EXCEPT !.count = 0], [Plain EXCEPT !.count = 4],
   [Plain EXCEPT !.usage = "help"],
   [Plain EXCEPT !.asked = {"open", "auth"}],
   [Plain EXCEPT !.asked = {"encrypted"}, !.keyFile = "emptyEntry", !.saves = FALSE],
   [Plain EXCEPT !.identity = TRUE, !.keyFile = "entry", !.show = "raw"],
   [Plain EXCEPT !.show = "verbose", !.saves = FALSE, !.count = 5]}
=============================================================================
