------------------------------- MODULE TwpingRun -------------------------------
(***************************************************************************)
(* One measurement, twping/twping.go: run and RunLang.  run looks at its   *)
(* arguments, opens the control connection and the test socket, makes the  *)
(* exchanges of Control, prepares its output, runs the test session under  *)
(* a watcher goroutine, and on every return runs its deferred calls, the   *)
(* last one first.                                                         *)
(*                                                                         *)
(* The session is known by what TestSession shows of it: it ends, with an  *)
(* error or without, and when its socket is closed under it, it may end    *)
(* without an error though nothing was measured.                           *)
(***************************************************************************)
EXTENDS Control

CONSTANTS
  CountWrap,            \* 2^32: the number of packets is a uint32
  ArgSets               \* the arguments a command may have

(* "plain": neither a request for help nor anything wrong but what the     *)
(* other fields say; "asked" are the modes of -A, "keyFile" what readPass- *)
(* phrase finds in the file of -k, "show" what is to be printed.           *)
Args ==
  [usage : {"plain", "help", "bad"}, count : Nat,
   asked : SUBSET Modes \cup {{"invalid"}}, identity : BOOLEAN,
   keyFile : {"none", "unreadable", "noEntry", "emptyEntry", "entry"},
   saves : BOOLEAN, show : {"summary", "verbose", "raw", "quiet"},
   cancellable : BOOLEAN]

ASSUME CountWrapAssumption == CountWrap \in Nat \ {0}
ASSUME ArgSetsAssumption == ArgSets \subseteq Args

VARIABLES
  args,
  runPC,
  failure,              \* what run returns
  outcome,              \* what RunLang returns
  defers,               \* the deferred calls, the next one first
  sock,                 \* the test socket
  file,                 \* the save file
  buffered,             \* the bufio.Writers that hold something unwritten
  refused,              \* whether a write of theirs has failed, and who heard
  watcher,              \* the goroutine that waits for ctx.Done
  finished,             \* the channel finished is closed
  sess, cutShort,       \* how Session.Run ended; it was cut short
  complete,             \* stats.SetFinished(true)
  reported,             \* the summary has been printed
  ownCause              \* after the cancellation run met an error of its own

flowVars    == <<args, runPC, failure, outcome, defers>>
outputVars  == <<file, buffered, refused, reported>>
sessionVars == <<sock, watcher, finished, sess, cutShort, complete>>
runVars == <<flowVars, outputVars, sessionVars, ownCause>>
vars == <<controlVars, runVars>>

(* parseAuthMode: without -A all modes, but only for a user with a name.   *)
ModesFor(a) ==
  CASE a.asked # {} -> a.asked
    [] a.asked = {} /\ a.identity -> Modes
    [] a.asked = {} /\ ~ a.identity -> {"open"}

NeedsPassphrase(a) == ModesFor(a) \cap CipherControl # {}

(* The ControlConfig run makes; a passphrase may be an empty one.          *)
ClientConfig(a) ==
  [offered |-> ModesFor(a) \cap Modes,
   passphrase |-> NeedsPassphrase(a) /\ a.keyFile = "entry",
   limited |-> TRUE, cancellable |-> a.cancellable]

(* A write to a full disk or a closed pipe fails; a bufio.Writer keeps the *)
(* error and writes nothing more.  It is "returned" by the sink to the     *)
(* session, or "dropped".                                                  *)
Writers == {"file", "stdout"}

(* spec.NPackets: the conversion to uint32.                                *)
NPackets == args.count % CountWrap

Init ==
  /\ args \in ArgSets
  /\ ControlInit
  /\ config = ClientConfig(args)
  /\ runPC = "parse"
  /\ failure = "none" /\ outcome = "none"
  /\ defers = << >>
  /\ sock = "none"
  /\ file = "none" /\ buffered = {} /\ reported = FALSE
  /\ refused = [w \in Writers |-> "no"]
  /\ watcher = "none" /\ finished = FALSE
  /\ sess = "none" /\ cutShort = FALSE
  /\ complete = FALSE
  /\ ownCause = FALSE

-----------------------------------------------------------------------------
(* Mutants of Deferred: in the order of the defer statements; each twice.  *)
DeferredLast(calls) == defers \o calls

DeferredTwice(calls) == calls \o calls \o defers

(* The calls deferred so far, after those of "calls", in their order.      *)
Deferred(calls) == [k \in DOMAIN calls |-> calls[Len(calls) + 1 - k]] \o defers

Return(e) ==
  /\ failure' = e
  /\ runPC' = "unwind"

(* An error that no connection has to do with.                             *)
FailsItself(e) ==
  /\ Return(e)
  /\ ownCause' = cancelled

(* The arguments are refused, or help is asked for, or run goes on.        *)
ParseArgs ==
  /\ runPC = "parse"
  /\ LET wrong == \/ args.usage = "bad" \/ args.count = 0
                  \/ args.asked = {"invalid"}
                  \/ NeedsPassphrase(args)
                       /\ args.keyFile \notin {"entry", "emptyEntry"}
     IN  CASE args.usage = "help" -> Return("nil") /\ UNCHANGED ownCause
           [] args.usage # "help" /\ wrong -> FailsItself("usage")
           [] args.usage # "help" /\ ~ wrong ->
                runPC' = "open" /\ UNCHANGED <<failure, ownCause>>
  /\ UNCHANGED <<controlVars, args, outcome, defers, outputVars, sessionVars>>

(* The connection is open, or could not be opened: nothing is deferred yet.*)
OpenControl ==
  /\ runPC = "open"
  /\ \/ /\ ctlPC = "failed"
        /\ Return("control")
        /\ UNCHANGED defers
     \/ /\ ctlPC = "idle"
        /\ runPC' = "socket"
        /\ defers' = Deferred(<<"cntrl">>)
        /\ UNCHANGED failure
  /\ UNCHANGED <<controlVars, args, outcome, outputVars, sessionVars, ownCause>>

(* Mutant of OpenSocket: its Close is not deferred.                        *)
OpenSocketForGood ==
  /\ runPC = "socket"
  /\ \/ FailsItself("params") /\ UNCHANGED sock
     \/ sock' = "open" /\ runPC' = "request" /\ UNCHANGED <<failure, ownCause>>
  /\ UNCHANGED <<controlVars, args, outcome, defers, outputVars, watcher, finished, sess,
                 cutShort, complete>>

(* Loss timeout below the bucket width, an address that does not resolve,  *)
(* no socket to be had: run returns.                                       *)
OpenSocket ==
  /\ runPC = "socket"
  /\ \/ FailsItself("params") /\ UNCHANGED <<defers, sock>>
     \/ /\ sock' = "open"
        /\ defers' = Deferred(<<"sess">>)
        /\ runPC' = "request"
        /\ UNCHANGED <<failure, ownCause>>
  /\ UNCHANGED <<controlVars, args, outcome, outputVars, watcher, finished, sess,
                 cutShort, complete>>

(* An exchange begins; it is over when Control is idle again.              *)
Begin(pc, call, next) ==
  /\ runPC = pc
  /\ call
  /\ runPC' = next
  /\ UNCHANGED <<args, failure, outcome, defers, outputVars, sessionVars, ownCause>>

Request == Begin("request", CallRequest, "requested")
Start   == Begin("start", CallStart, "started")
Stop    == Begin("stop", CallStop, "stopped")

(* TestKeys and SetKeys follow the accepted request.                       *)
Exchanged(pc, next) ==
  /\ runPC = pc
  /\ ctlPC = "idle"
  /\ IF err = "none"
       THEN runPC' = next /\ UNCHANGED failure
       ELSE Return("exchange")
  /\ UNCHANGED <<controlVars, args, outcome, defers, outputVars, sessionVars, ownCause>>

Requested == Exchanged("requested", "start")
Started   == Exchanged("started", "output")

(* Mutant of PrepareOutput: nobody closes finished.                        *)
PrepareNoFinished ==
  /\ runPC = "output"
  /\ defers' = Deferred(IF args.saves THEN <<"stdout", "file", "flush">> ELSE <<"stdout">>)
  /\ file' = IF args.saves THEN "open" ELSE "none"
  /\ \/ FailsItself("stats") /\ UNCHANGED <<watcher, sess>>
     \/ /\ watcher' = "waiting" /\ sess' = "running" /\ runPC' = "run"
        /\ UNCHANGED <<failure, ownCause>>
  /\ UNCHANGED <<controlVars, args, outcome, buffered, refused, reported, sock, finished,
                 cutShort, complete>>

(* The output, the save file, the statistics; then the watcher and Run.    *)
(* os.Create and NewStats may end run, which has started the session at    *)
(* the server and does not stop it.                                        *)
PrepareOutput ==
  /\ runPC = "output"
  /\ LET output == IF args.saves THEN <<"stdout", "file", "flush">> ELSE <<"stdout">>
     IN  \/ /\ args.saves
            /\ defers' = Deferred(<<"stdout">>)
            /\ FailsItself("create")
            /\ UNCHANGED <<file, watcher, sess>>
         \/ /\ defers' = Deferred(output)
            /\ file' = IF args.saves THEN "open" ELSE "none"
            /\ FailsItself("stats")
            /\ UNCHANGED <<watcher, sess>>
         \/ /\ defers' = Deferred(Append(output, "finished"))
            /\ file' = IF args.saves THEN "open" ELSE "none"
            /\ watcher' = "waiting"
            /\ sess' = "running"
            /\ runPC' = "run"
            /\ UNCHANGED <<failure, ownCause>>
  /\ UNCHANGED <<controlVars, args, outcome, buffered, refused, reported, sock, finished,
                 cutShort, complete>>

(* Mutant of Watcher: ctx.Done ends it without closing the socket.         *)
WatcherOnlyEnds ==
  /\ watcher = "waiting"
  /\ cancelled \/ finished
  /\ watcher' = "done"
  /\ UNCHANGED <<controlVars, flowVars, outputVars, sock, finished, sess,
                 cutShort, complete, ownCause>>

(* When both channels are ready select takes either.                       *)
Watcher ==
  /\ watcher = "waiting"
  /\ \/ cancelled /\ sock' = "closed"
     \/ finished /\ UNCHANGED sock
  /\ watcher' = "done"
  /\ UNCHANGED <<controlVars, flowVars, outputVars, finished, sess, cutShort,
                 complete, ownCause>>

-----------------------------------------------------------------------------
(* Session.Run hands a record to the sink, which saves it, and prints it   *)
(* or hands it on to the statistics, which print it or not.                *)
SinkRecord ==
  /\ runPC = "run"
  /\ NPackets > 0
  /\ buffered' = buffered \cup (IF file = "open" THEN {"file"} ELSE {})
                           \cup (IF args.show \in {"verbose", "raw"} THEN {"stdout"} ELSE {})
  /\ UNCHANGED <<controlVars, flowVars, file, refused, reported, sessionVars, ownCause>>

(* A record is written to the save file first, to a raw output after it;   *)
(* the sink returns the error of either and Run returns it at once.  What  *)
(* is printed otherwise fails unheard, at the last flush if not before.    *)
SinkFails(writer, cut) ==
  /\ runPC = "run"
  /\ NPackets > 0
  /\ writer = "file" => file = "open"
  /\ writer = "stdout" => args.show = "raw"
  /\ cut => sock = "closed"
  /\ refused' = [refused EXCEPT ![writer] = "returned"]
  /\ buffered' = buffered \cup {writer} \cup (IF file = "open" THEN {"file"} ELSE {})
  /\ sess' = "error"
  /\ cutShort' = cut
  /\ runPC' = "ended"
  /\ UNCHANGED <<controlVars, args, failure, outcome, defers, file, reported, sock,
                 watcher, finished, complete, ownCause>>

(* Run refuses to send no packets.                                         *)
SessionReturns(cut) ==
  /\ runPC = "run"
  /\ cut => sock = "closed"
  /\ sess' \in IF NPackets = 0 THEN {"error"} ELSE {"nil", "error"}
  /\ cutShort' = cut
  /\ runPC' = "ended"
  /\ UNCHANGED <<controlVars, args, failure, outcome, defers, outputVars, sock,
                 watcher, finished, complete, ownCause>>

(* Mutant of SessionEnded: only an error is taken for an interruption.     *)
SessionEndedByError ==
  /\ runPC = "ended"
  /\ IF cancelled /\ sess = "error"
       THEN Return("interrupted")
       ELSE runPC' = "stop" /\ UNCHANGED failure
  /\ UNCHANGED <<controlVars, args, outcome, defers, outputVars, sessionVars, ownCause>>

(* A cancelled context comes before all that Run may have said.            *)
SessionEnded ==
  /\ runPC = "ended"
  /\ IF cancelled
       THEN Return("interrupted")
       ELSE runPC' = "stop" /\ UNCHANGED failure
  /\ UNCHANGED <<controlVars, args, outcome, defers, outputVars, sessionVars, ownCause>>

(* An error of StopSessions is only printed.  The summary is not for -Q    *)
(* and -R.                                                                 *)
Stopped ==
  /\ runPC = "stopped"
  /\ ctlPC = "idle"
  /\ IF sess = "error"
       THEN Return("session") /\ UNCHANGED <<complete, reported, buffered>>
       ELSE /\ Return("nil")
            /\ complete' = TRUE
            /\ reported' = (args.show \in {"summary", "verbose"})
            /\ buffered' = IF reported' THEN buffered \cup {"stdout"} ELSE buffered
  /\ UNCHANGED <<controlVars, args, outcome, defers, file, refused, sock, watcher,
                 finished, sess, cutShort, ownCause>>

-----------------------------------------------------------------------------
Accepts(writer) == refused[writer] = "no" /\ (writer = "file" => file = "open")

(* A flush writes what there is, or part of it, or nothing; its error is   *)
(* dropped, as is that of a flush to a closed file.                        *)
Flush(writer) ==
  \/ /\ Accepts(writer)
     /\ buffered' = buffered \ {writer}
     /\ UNCHANGED refused
  \/ /\ Accepts(writer)
     /\ writer \in buffered
     /\ refused' = [refused EXCEPT ![writer] = "dropped"]
     /\ UNCHANGED buffered
  \/ /\ ~ Accepts(writer)
     /\ UNCHANGED <<buffered, refused>>

(* The effect of the next deferred call.                                   *)
Perform(call) ==
  /\ IF call = "cntrl" THEN CloseControl ELSE UNCHANGED controlVars
  /\ finished' = (finished \/ call = "finished")
  /\ sock' = IF call = "sess" THEN "closed" ELSE sock
  /\ file' = IF call = "file" THEN "closed" ELSE file
  /\ CASE call = "stdout" -> Flush("stdout")
       [] call = "flush" -> Flush("file")
       [] OTHER -> UNCHANGED <<buffered, refused>>

Unwind ==
  /\ runPC = "unwind"
  /\ defers # << >>
  /\ Perform(Head(defers))
  /\ defers' = Tail(defers)
  /\ UNCHANGED <<args, runPC, failure, outcome, watcher, sess, cutShort, complete,
                 reported, ownCause>>

(* RunLang: an error of a cancelled run is "interrupted".                  *)
RunLangReturns ==
  /\ runPC = "unwind"
  /\ defers = << >>
  /\ outcome' = IF failure # "nil" /\ cancelled THEN "interrupted" ELSE failure
  /\ runPC' = "returned"
  /\ UNCHANGED <<controlVars, args, failure, defers, outputVars, sessionVars, ownCause>>

Main == \/ ParseArgs \/ OpenControl \/ OpenSocket \/ Request \/ Requested \/ Start \/ Started
        \/ PrepareOutput \/ SessionEnded \/ Stop \/ Stopped \/ Unwind
        \/ RunLangReturns

(* OpenControlContext begins when run has come to it.                      *)
ControlStep(step) ==
  (ctlPC = "dial" => runPC = "open") /\ step /\ UNCHANGED runVars

Surroundings == Watchdog \/ Server \/ TimePasses \/ Cancel

(* The measurement is over; the server and the clock have nothing to do.   *)
Over == runPC = "returned" /\ UNCHANGED vars

Next == \/ Main
        \/ Watcher
        \/ SinkRecord
        \/ \E cut \in BOOLEAN : SessionReturns(cut)
        \/ \E writer \in Writers, cut \in BOOLEAN : SinkFails(writer, cut)
        \/ ControlStep(Progress)
        \/ Surroundings /\ UNCHANGED runVars
        \/ Over

(* A session whose socket is closed ends; one whose socket is open may     *)
(* take any time, and the server owes nothing.                             *)
Fairness ==
  /\ WF_vars(Main)
  /\ WF_vars(Watcher)
  /\ WF_vars(ControlStep(Progress))
  /\ WF_vars(Watchdog /\ UNCHANGED runVars)
  /\ WF_vars(sock = "closed" /\ \E cut \in BOOLEAN : SessionReturns(cut))

Spec     == Init /\ [][Next]_vars
FairSpec == Spec /\ Fairness

-----------------------------------------------------------------------------
Failures == {"usage", "control", "params", "exchange", "create", "stats", "session",
             "interrupted"}

(* The values of run's variables; a call is deferred at most once.         *)
TypeOK ==
  /\ args \in ArgSets
  /\ runPC \in {"parse", "open", "socket", "request", "requested", "start", "started",
                "output", "run", "ended", "stop", "stopped", "unwind", "returned"}
  /\ failure \in Failures \cup {"none", "nil"}
  /\ outcome \in Failures \cup {"none", "nil"}
  /\ defers \in Seq({"cntrl", "sess", "stdout", "file", "flush", "finished"})
  /\ \A j, k \in DOMAIN defers : defers[j] = defers[k] => j = k
  /\ sock \in {"none", "open", "closed"}
  /\ file \in {"none", "open", "closed"}
  /\ watcher \in {"none", "waiting", "done"}
  /\ sess \in {"none", "running", "nil", "error"}
  /\ buffered \subseteq Writers
  /\ refused \in [Writers -> {"no", "returned", "dropped"}]
  /\ {finished, cutShort, complete, reported, ownCause} \subseteq BOOLEAN

(* Whatever ended run, and however far it had come, no connection, socket  *)
(* or file is left open when it returns (twping.go:291, 366, 434).         *)
AllReleased ==
  runPC = "returned" => conn # "up" /\ sock # "open" /\ file # "open"

(* When run returns, also after an error or an interruption, a buffer      *)
(* holds only what the operating system has refused to write; and when it  *)
(* refused a record while the session ran, run does not return nil.  It    *)
(* may return nil when the last flush fails (twping.go:426, 434-440).      *)
SavedRecordsWritten ==
  runPC = "returned" =>
    /\ \A w \in buffered : refused[w] # "no"
    /\ (\E w \in Writers : refused[w] = "returned") => outcome # "nil"

(* The summary is never that of a session that was cut short or had no     *)
(* packets: Run returns no error when its socket is closed under it, and   *)
(* only the test of the context tells; a count that is a multiple of 2^32  *)
(* passes the test of the arguments (twping.go:208, 378, 505-522).         *)
NoReportOfCutSession == reported \/ complete => ~ cutShort /\ NPackets > 0

(* Cancelling the context ends the measurement at every stage: during the  *)
(* handshake, in an exchange with a silent server and in a session however *)
(* long (twping.go:120-122, 486-503).                                      *)
CancelEndsRun == cancelled ~> runPC = "returned"

(* The watcher goroutine ends with run (twping.go:490-503).                *)
WatcherEnds == runPC = "returned" ~> watcher # "waiting"

(* "Cancellation reaches the sockets by closing them, so after it every    *)
(* error is its consequence, not a cause of its own" (twping.go:137-138).  *)
InterruptedIsConsequence == outcome = "interrupted" => ~ ownCause
=============================================================================
