------------------------------- MODULE Control -------------------------------
(***************************************************************************)
(* The TWAMP-Control client of owamp/control.go: OpenControlContext with   *)
(* its handshake, deadlines and watchdog, the exchanges RequestTWSession,  *)
(* StartSessions and StopSessions, and Close; opposite a server that       *)
(* answers as the protocol asks, refuses, falls silent or hangs up.        *)
(*                                                                         *)
(* A message is its kind, an accept code, the texts its HMAC covers and    *)
(* the place in the CBC chain at which it was encrypted: a message is read *)
(* as it was written only at the same place.                               *)
(***************************************************************************)
EXTENDS Naturals, Sequences

CONSTANTS
  Configs,            \* how a caller may configure and call the client
  ExchangeTimeout     \* ControlConfig.ExchangeTimeout, in units of time

Modes == {"open", "auth", "encrypted", "mixed"}
CipherControl == {"auth", "encrypted", "mixed"}      \* ModeDoCipherControl
NoMode == "undefined"

(* OfferedModes; a Passphrase that is not empty; exchangeTimeout > 0; a    *)
(* context that can be cancelled.                                          *)
Config == [offered : SUBSET Modes, passphrase : BOOLEAN, limited : BOOLEAN,
           cancellable : BOOLEAN]

ASSUME ConfigsAssumption == Configs \subseteq Config
ASSUME ExchangeTimeoutAssumption == ExchangeTimeout \in Nat \ {0}

NoDeadline == ExchangeTimeout + 1

VARIABLES
  config,             \* of the client, fixed
  ctlPC,              \* the step the client's caller is in
  err,                \* the error the last call returned
  mode,
  cli,                \* the client's HMACs and CBC chains
  decrypt,            \* Control.decrypt has been set
  conn,               \* the TCP connection, as the client sees it
  deadline,           \* the time left until its deadline, or NoDeadline
  waited,             \* history: the time the step in hand has taken
  cancelled,          \* the caller's context has been cancelled
  watchdog,           \* the goroutine of watchContext
  watchdogDone,       \* that channel has been closed
  phase,              \* the last call that succeeded
  toServer, toClient, \* the two directions of the connection
  srvPC, srvModes, srvMode, srv, srvGone

clientVars == <<ctlPC, err, mode, cli, decrypt, conn, deadline, waited, phase>>
ctxVars    == <<config, cancelled, watchdog, watchdogDone>>
wireVars   == <<toServer, toClient>>
serverVars == <<srvPC, srvModes, srvMode, srv, srvGone>>
controlVars == <<clientVars, ctxVars, wireVars, serverVars>>

Fresh == [sendMac |-> << >>, recvMac |-> << >>, enc |-> 0, dec |-> 0]
Codes == {"ok", "refused", "invalid", "noPort"}
Blocks(kind) ==
  CASE kind = "uptime" -> 1 [] kind = "request" -> 7 [] kind = "accept" -> 3
    [] kind \in {"start", "ack", "stop"} -> 2

Message(kind, code, digest, at) ==
  [kind |-> kind, code |-> code, digest |-> digest, at |-> at]

(* Outside the ciphered modes nothing is hashed or encrypted.              *)
Ciphered(m) == m \in CipherControl

-----------------------------------------------------------------------------
(* sendDigest and sendBlocks, for either side: the text joins what has     *)
(* been hashed since the last message, the hash starts anew, and the chain *)
(* moves on.  checkDigest and recvBlocks are the other half.               *)

(* Mutant of Wrote: the hash is not reset.                                 *)
WroteNoReset(side, m, kind) ==
  IF Ciphered(m)
    THEN [side EXCEPT !.enc = @ + Blocks(kind), !.sendMac = Append(@, kind)]
    ELSE side

Wrote(side, m, kind) ==
  IF Ciphered(m)
    THEN [side EXCEPT !.enc = @ + Blocks(kind), !.sendMac = << >>]
    ELSE side

Written(side, m, kind, code) ==
  IF Ciphered(m)
    THEN Message(kind, code, Append(side.sendMac, kind), side.enc)
    ELSE Message(kind, code, << >>, 0)

Read(side, m, msg) ==
  IF Ciphered(m)
    THEN [side EXCEPT !.dec = @ + Blocks(msg.kind), !.recvMac = << >>]
    ELSE side

Authentic(side, m, msg) ==
  Ciphered(m) => msg.at = side.dec /\ msg.digest = Append(side.recvMac, msg.kind)

(* The strongest mode both sides know; who names no mode offers them all.  *)
Offers == IF config.offered = {} THEN Modes ELSE config.offered
Strength == <<"open", "mixed", "auth", "encrypted">>

(* Mutant of SelectMode: the first mode found wins, from the weak end.     *)
SelectWeakest(avail) ==
  LET common == {k \in DOMAIN Strength : Strength[k] \in avail \cap Offers}
  IN  IF common = {} THEN NoMode
      ELSE Strength[CHOOSE k \in common : \A j \in common : k <= j]

SelectMode(avail) ==
  LET common == {k \in DOMAIN Strength : Strength[k] \in avail \cap Offers}
  IN  IF common = {} THEN NoMode
      ELSE Strength[CHOOSE k \in common : \A j \in common : j <= k]

-----------------------------------------------------------------------------
ControlInit ==
  /\ config \in Configs
  /\ ctlPC = "dial"
  /\ err = "none"
  /\ mode = NoMode
  /\ cli = Fresh
  /\ decrypt = FALSE
  /\ conn = "none"
  /\ deadline = NoDeadline
  /\ waited = 0
  /\ cancelled = FALSE
  /\ watchdog = "none"
  /\ watchdogDone = FALSE
  /\ phase = "none"
  /\ toServer = << >>
  /\ toClient = << >>
  /\ srvPC = "greet"
  /\ srvModes \in SUBSET Modes
  /\ srvMode = NoMode
  /\ srv = Fresh
  /\ srvGone = FALSE

(* Control.deadline: every read and every write gets the whole timeout.    *)
Armed == IF config.limited THEN ExchangeTimeout ELSE NoDeadline

(* Mutant of StepDeadline: only the first step of all arms it.             *)
KeepDeadline == deadline' = IF deadline = NoDeadline THEN Armed ELSE deadline

StepDeadline == deadline' = Armed

(* The caller goes on to another step, or stops waiting.                   *)
Go(pc) == ctlPC' = pc /\ waited' = 0

Waiting == ctlPC \in {"greeting", "serverStart", "uptime", "accept", "ack"}
Writing == ctlPC \in {"response", "request", "start", "stop"}
InStep  == Waiting \/ Writing

(* A deadline once set runs down, also while the caller does other things. *)
TimePasses ==
  /\ deadline \in 1 .. ExchangeTimeout
  /\ deadline' = deadline - 1
  /\ waited' = IF InStep THEN waited + 1 ELSE waited
  /\ UNCHANGED <<ctlPC, err, mode, cli, decrypt, conn, phase, ctxVars, wireVars,
                 serverVars>>

(* The caller's context ends.                                              *)
Cancel ==
  /\ config.cancellable
  /\ ~ cancelled
  /\ cancelled' = TRUE
  /\ UNCHANGED <<clientVars, config, watchdog, watchdogDone, wireVars, serverVars>>

(* Mutant of WatchdogCloses: the connection is left open.                  *)
WatchdogOnlyEnds ==
  /\ watchdog = "waiting"
  /\ cancelled
  /\ watchdog' = "done"
  /\ UNCHANGED <<clientVars, config, cancelled, watchdogDone, wireVars, serverVars>>

(* The watchdog closes the connection, or ends because Close says so.      *)
WatchdogCloses ==
  /\ watchdog = "waiting"
  /\ cancelled
  /\ conn' = "closed"
  /\ watchdog' = "done"
  /\ UNCHANGED <<ctlPC, err, mode, cli, decrypt, deadline, waited, phase, config,
                 cancelled, watchdogDone, wireVars, serverVars>>

WatchdogEnds ==
  /\ watchdog = "waiting"
  /\ watchdogDone
  /\ watchdog' = "done"
  /\ UNCHANGED <<clientVars, config, cancelled, watchdogDone, wireVars, serverVars>>

-----------------------------------------------------------------------------
(* DialContext, then watchContext; setup arms the deadline and reads.      *)
Dial ==
  /\ ctlPC = "dial"
  /\ \/ /\ conn' = "up"
        /\ watchdog' = IF config.cancellable THEN "waiting" ELSE "none"
        /\ StepDeadline
        /\ Go("greeting")
        /\ UNCHANGED err
     \/ /\ Go("failed")
        /\ err' = IF cancelled THEN "context" ELSE "dial"
        /\ UNCHANGED <<conn, watchdog, deadline>>
  /\ UNCHANGED <<mode, cli, decrypt, phase, config, cancelled, watchdogDone, wireVars,
                 serverVars>>

InSetup == ctlPC \in {"greeting", "response", "serverStart", "uptime"}
InCall  == ctlPC \notin {"idle", "failed", "closed"}

(* A step of a call fails: setup goes on to close what it opened, another  *)
(* call returns the error to its caller.                                   *)
FailWith(e) ==
  /\ err' = e
  /\ Go(IF InSetup THEN "undo" ELSE "idle")

(* The message the caller waits for is there and its deadline is not over. *)
CanRead(kind) ==
  /\ conn = "up"
  /\ deadline # 0
  /\ toClient # << >>
  /\ Head(toClient).kind = kind
  /\ toClient' = Tail(toClient)

(* Mutant of ReadFails: a read has no deadline.                            *)
ReadFailsNoDeadline ==
  /\ Waiting
  /\ \/ conn = "closed" /\ FailWith("closed")
     \/ conn = "up" /\ srvGone /\ toClient = << >> /\ FailWith("eof")
  /\ UNCHANGED <<mode, cli, decrypt, conn, deadline, phase, ctxVars, wireVars,
                 serverVars>>

(* A read ends without its message: the connection was closed at either    *)
(* end, or the deadline is over.                                           *)
ReadFails ==
  /\ Waiting
  /\ \/ conn = "closed" /\ FailWith("closed")
     \/ conn = "up" /\ deadline = 0 /\ FailWith("timeout")
     \/ conn = "up" /\ srvGone /\ toClient = << >> /\ FailWith("eof")
  /\ UNCHANGED <<mode, cli, decrypt, conn, deadline, phase, ctxVars, wireVars,
                 serverVars>>

(* Server-Greeting: modes, choice of the mode, the need of a passphrase;   *)
(* the identity, the random keys and PBKDF2 may fail too ("local").        *)
ReadGreeting ==
  /\ ctlPC = "greeting"
  /\ CanRead("greeting")
  /\ LET avail == Head(toClient).code
         m     == SelectMode(avail)
     IN  \/ avail = {} /\ FailWith("busy") /\ UNCHANGED <<mode, deadline>>
         \/ /\ avail # {} /\ m = NoMode
            /\ FailWith("noMode") /\ UNCHANGED <<mode, deadline>>
         \/ /\ m # NoMode
            /\ mode' = m
            /\ IF Ciphered(m) /\ ~ config.passphrase
                 THEN FailWith("passphrase") /\ UNCHANGED deadline
                 ELSE \/ Go("response") /\ StepDeadline /\ UNCHANGED err
                      \/ Ciphered(m) /\ FailWith("local") /\ UNCHANGED deadline
  /\ UNCHANGED <<cli, decrypt, conn, phase, ctxVars, toServer, serverVars>>

(* A write fails on a closed connection and after its deadline, and may    *)
(* fail on a connection the server has left.  The read that follows it,    *)
(* unless there is none, arms the deadline anew.                           *)
Write(msg, next) ==
  \/ /\ \/ conn = "closed" /\ FailWith("closed")
        \/ conn = "up" /\ deadline = 0 /\ FailWith("timeout")
        \/ conn = "up" /\ deadline # 0 /\ srvGone /\ FailWith("reset")
     /\ UNCHANGED <<toServer, deadline>>
  \/ /\ conn = "up" /\ deadline # 0
     /\ toServer' = Append(toServer, msg)
     /\ Go(next)
     /\ IF next = "idle" THEN UNCHANGED deadline ELSE StepDeadline
     /\ UNCHANGED err

(* Set-Up-Response, in clear; the session's HMACs and cipher begin here.   *)
WriteSetUpResponse ==
  /\ ctlPC = "response"
  /\ Write(Message("response", mode, << >>, 0), "serverStart")
  /\ UNCHANGED <<mode, cli, decrypt, conn, phase, ctxVars, toClient, serverVars>>

(* The first 32 octets of Server-Start.                                    *)
ReadServerStart ==
  /\ ctlPC = "serverStart"
  /\ CanRead("serverStart")
  /\ IF Head(toClient).code = "ok"
       THEN /\ Go("uptime")
            /\ decrypt' = Ciphered(mode)
            /\ StepDeadline
            /\ UNCHANGED err
       ELSE FailWith(Head(toClient).code) /\ UNCHANGED <<decrypt, deadline>>
  /\ UNCHANGED <<mode, cli, conn, phase, ctxVars, toServer, serverVars>>

(* Mutant of KeepUptime: the block is decrypted but not hashed.            *)
ForgetUptime == [cli EXCEPT !.dec = @ + Blocks("uptime")]

(* The uptime block has no digest of its own: the next one covers it.      *)
KeepUptime == [cli EXCEPT !.dec = @ + Blocks("uptime"), !.recvMac = Append(@, "uptime")]

(* The last block of Server-Start; with it the connection is open.         *)
ReadUptime ==
  /\ ctlPC = "uptime"
  /\ CanRead("uptime")
  /\ cli' = IF decrypt THEN KeepUptime ELSE cli
  /\ Go("idle")
  /\ phase' = "opened"
  /\ UNCHANGED <<err, mode, decrypt, conn, deadline, ctxVars, toServer,
                 serverVars>>

(* Mutants of UndoSetup: the connection is not closed; the raw error is    *)
(* returned.                                                               *)
UndoSetupLeaves ==
  /\ ctlPC = "undo"
  /\ err' = IF cancelled THEN "context" ELSE err
  /\ Go("failed")
  /\ UNCHANGED <<mode, cli, decrypt, conn, deadline, phase, ctxVars, wireVars,
                 serverVars>>

UndoSetupRaw ==
  /\ ctlPC = "undo"
  /\ conn' = "closed"
  /\ watchdogDone' = (watchdog # "none")
  /\ Go("failed")
  /\ UNCHANGED <<err, mode, cli, decrypt, deadline, phase, config, cancelled,
                 watchdog, wireVars, serverVars>>

(* setup failed: the connection is closed, and a cancelled caller is told  *)
(* of the cancellation.                                                    *)
UndoSetup ==
  /\ ctlPC = "undo"
  /\ conn' = "closed"
  /\ watchdogDone' = (watchdog # "none")
  /\ err' = IF cancelled THEN "context" ELSE err
  /\ Go("failed")
  /\ UNCHANGED <<mode, cli, decrypt, deadline, phase, config, cancelled,
                 watchdog, wireVars, serverVars>>

-----------------------------------------------------------------------------
(* The calls on an open connection, in the order twping makes them; after  *)
(* an error the caller only closes.                                        *)

May(p) == ctlPC = "idle" /\ err = "none" /\ phase = p

(* A call begins to write its message.                                     *)
Call(kind) ==
  /\ Go(kind)
  /\ StepDeadline
  /\ UNCHANGED <<err, mode, cli, decrypt, conn, phase, ctxVars, wireVars, serverVars>>

(* Addresses of different families are refused before anything is sent.    *)
CallRequest ==
  /\ May("opened")
  /\ \/ Call("request")
     \/ FailWith("family") /\ UNCHANGED <<mode, cli, decrypt, conn, deadline, phase,
                                          ctxVars, wireVars, serverVars>>

CallStart == May("accepted") /\ Call("start")
CallStop  == May("started") /\ Call("stop")

(* sendDigest and sendBlocks: the message is sealed, whatever becomes of   *)
(* the write.                                                              *)
WriteMessage(kind, next) ==
  /\ ctlPC = kind
  /\ cli' = Wrote(cli, mode, kind)
  /\ Write(Written(cli, mode, kind, "ok"), next)
  /\ UNCHANGED <<mode, decrypt, conn, ctxVars, toClient, serverVars>>

WriteRequest == WriteMessage("request", "accept") /\ UNCHANGED phase
WriteStart   == WriteMessage("start", "ack") /\ UNCHANGED phase

(* Stop-Sessions is written and not answered.                              *)
WriteStop ==
  /\ WriteMessage("stop", "idle")
  /\ phase' = IF err' = "none" THEN "stopped" ELSE phase

(* recvBlocks and checkDigest come before the fields are looked at.        *)
ReadAnswer(kind, reached) ==
  /\ ctlPC = kind
  /\ CanRead(kind)
  /\ LET msg == Head(toClient)
     IN  /\ cli' = Read(cli, mode, msg)
         /\ IF ~ Authentic(cli, mode, msg)
              THEN FailWith("hmac") /\ UNCHANGED phase
            ELSE IF msg.code # "ok"
              THEN FailWith(msg.code) /\ UNCHANGED phase
            ELSE Go("idle") /\ phase' = reached /\ UNCHANGED err
  /\ UNCHANGED <<mode, decrypt, conn, deadline, ctxVars, toServer, serverVars>>

ReadAccept == ReadAnswer("accept", "accepted")
ReadAck    == ReadAnswer("ack", "started")

(* Mutant of CloseControl: the watchdog is not told.                       *)
CloseOnlyConn ==
  /\ ctlPC \in {"idle", "closed"}
  /\ conn' = "closed"
  /\ Go("closed")
  /\ UNCHANGED <<err, mode, cli, decrypt, deadline, phase, ctxVars, wireVars,
                 serverVars>>

(* Close; a second call does no harm.                                      *)
CloseControl ==
  /\ ctlPC \in {"idle", "closed"}
  /\ conn' = "closed"
  /\ watchdogDone' = (watchdog # "none")
  /\ Go("closed")
  /\ UNCHANGED <<err, mode, cli, decrypt, deadline, phase, config, cancelled,
                 watchdog, wireVars, serverVars>>

-----------------------------------------------------------------------------
(* The server.                                                             *)

ServerFrame == UNCHANGED <<clientVars, ctxVars>>

ServerTakes(pc, kind) ==
  /\ ~ srvGone
  /\ srvPC = pc
  /\ toServer # << >>
  /\ Head(toServer).kind = kind
  /\ toServer' = Tail(toServer)

ServerGreets ==
  /\ ~ srvGone
  /\ srvPC = "greet"
  /\ toClient' = Append(toClient, Message("greeting", srvModes, << >>, 0))
  /\ srvPC' = "response"
  /\ UNCHANGED <<toServer, srvModes, srvMode, srv, srvGone>>
  /\ ServerFrame

ServerStarts ==
  /\ ServerTakes("response", "response")
  /\ srvMode' = Head(toServer).code
  /\ \E c \in Codes \ {"noPort"} :
       /\ toClient' = Append(toClient, Message("serverStart", c, << >>, 0))
       /\ srvPC' = IF c = "ok" THEN "uptime" ELSE "refused"
  /\ UNCHANGED <<srvModes, srv, srvGone>>
  /\ ServerFrame

(* The uptime block is encrypted and hashed, but its digest is not sent.   *)
ServerSendsUptime ==
  /\ ~ srvGone
  /\ srvPC = "uptime"
  /\ toClient' = Append(toClient, Message("uptime", "ok", << >>, srv.enc))
  /\ srv' = IF Ciphered(srvMode)
              THEN [srv EXCEPT !.enc = @ + 1, !.sendMac = Append(@, "uptime")]
              ELSE srv
  /\ srvPC' = "request"
  /\ UNCHANGED <<toServer, srvModes, srvMode, srvGone>>
  /\ ServerFrame

ServerAnswers(pc, answer, codes, next) ==
  /\ ServerTakes(pc, pc)
  /\ LET msg  == Head(toServer)
         took == Read(srv, srvMode, msg)
     IN  IF ~ Authentic(srv, srvMode, msg)
           THEN srvPC' = "rejected" /\ srv' = took /\ UNCHANGED toClient
           ELSE \E c \in codes :
                  /\ toClient' = Append(toClient, Written(took, srvMode, answer, c))
                  /\ srv' = Wrote(took, srvMode, answer)
                  /\ srvPC' = IF c = "ok" THEN next ELSE "refused"
  /\ UNCHANGED <<srvModes, srvMode, srvGone>>
  /\ ServerFrame

ServerAccepts == ServerAnswers("request", "accept", Codes, "start")
ServerAcks    == ServerAnswers("start", "ack", Codes \ {"noPort"}, "stop")

ServerStops ==
  /\ ServerTakes("stop", "stop")
  /\ srv' = Read(srv, srvMode, Head(toServer))
  /\ srvPC' = IF Authentic(srv, srvMode, Head(toServer)) THEN "done" ELSE "rejected"
  /\ UNCHANGED <<toClient, srvModes, srvMode, srvGone>>
  /\ ServerFrame

(* The server closes the connection, for whatever reason.                  *)
ServerHangsUp ==
  /\ ~ srvGone
  /\ srvGone' = TRUE
  /\ UNCHANGED <<wireVars, srvPC, srvModes, srvMode, srv>>
  /\ ServerFrame

-----------------------------------------------------------------------------
(* The steps of a call that has begun; the caller's calls; the rest.       *)
Progress == \/ Dial \/ ReadGreeting \/ WriteSetUpResponse \/ ReadServerStart
            \/ ReadUptime \/ UndoSetup \/ WriteRequest \/ ReadAccept \/ WriteStart
            \/ ReadAck \/ WriteStop \/ ReadFails
Calls    == CallRequest \/ CallStart \/ CallStop \/ CloseControl
Watchdog == WatchdogCloses \/ WatchdogEnds
Server   == \/ ServerGreets \/ ServerStarts \/ ServerSendsUptime
            \/ ServerAccepts \/ ServerAcks \/ ServerStops \/ ServerHangsUp

ControlNext == Progress \/ Calls \/ Watchdog \/ Server \/ TimePasses \/ Cancel

(* setup has failed and nothing of it is left: the caller has no Control.  *)
ControlOver ==
  /\ ctlPC = "failed"
  /\ UNCHANGED controlVars

(* Neither the server nor the caller owes a step; the runtime runs the     *)
(* client's goroutines and its timers.                                     *)
ControlFairness ==
  /\ WF_controlVars(Progress)
  /\ WF_controlVars(Watchdog)
  /\ WF_controlVars(TimePasses)

ControlSpec == ControlInit /\ [][ControlNext \/ ControlOver]_controlVars
ControlFairSpec == ControlSpec /\ ControlFairness

-----------------------------------------------------------------------------
Side == [sendMac : Seq({"uptime"}), recvMac : Seq({"uptime"}), enc : Nat, dec : Nat]

(* The values of the client's and the server's state.                      *)
ControlTypeOK ==
  /\ config \in Config
  /\ ctlPC \in {"dial", "greeting", "response", "serverStart", "uptime", "undo",
                "failed", "idle", "request", "accept", "start", "ack", "stop", "closed"}
  /\ phase \in {"none", "opened", "accepted", "started", "stopped"}
  /\ mode \in Modes \cup {NoMode}
  /\ srvMode \in Modes \cup {NoMode}
  /\ cli \in Side /\ srv \in Side
  /\ decrypt \in BOOLEAN
  /\ conn \in {"none", "up", "closed"}
  /\ deadline \in 0 .. NoDeadline /\ waited \in 0 .. ExchangeTimeout
  /\ cancelled \in BOOLEAN
  /\ watchdog \in {"none", "waiting", "done"}
  /\ watchdogDone \in BOOLEAN
  /\ err \in {"none", "dial", "context", "closed", "timeout", "eof", "reset",
              "busy", "noMode", "passphrase", "local", "family", "hmac"}
             \cup (Codes \ {"ok"})
  /\ Len(toServer) <= 1 /\ Len(toClient) <= 2

(* The two ends agree on every HMAC and on every place in the CBC chains:  *)
(* neither ever rejects a message of the other, though the uptime block    *)
(* has no digest of its own (control.go:330-338, 393-419).                 *)
PeersAgree == err # "hmac" /\ srvPC # "rejected"

(* The server works in the mode the client chose, which is the first in    *)
(* the order of selectMode that both offer (control.go:355-364).           *)
ModeAgreed ==
  srvMode # NoMode =>
    /\ srvMode = mode
    /\ mode \in srvModes \cap Offers
    /\ \A m \in srvModes \cap Offers :
         \/ m = mode
         \/ mode = "encrypted"
         \/ mode = "auth" /\ m \in {"mixed", "open"}
         \/ mode = "mixed" /\ m = "open"

(* No read and no write is failed by a deadline armed for an earlier one:  *)
(* what times out has had the whole timeout for itself, however long the   *)
(* steps before it took or the caller waited between his calls (deadline,  *)
(* control.go:204-209, called at 217, 303, 311, 336, 374 and 381).         *)
NoStaleDeadline ==
  [][err' = "timeout" => err = "timeout" \/ waited = ExchangeTimeout]_controlVars

(* A caller whose context was cancelled during the handshake is told so,   *)
(* never of the closed socket the cancellation came down to                *)
(* (control.go:172-178).                                                   *)
CancelIsReported == ctlPC = "failed" => err # "closed"

(* A handshake that failed leaves no connection and no watchdog that       *)
(* nobody could release (control.go:171-172).                              *)
FailedSetupReleases ==
  ctlPC = "failed" => conn # "up" /\ (watchdog = "waiting" => watchdogDone)

(* Every call ends, however silent the server (control.go:204-209); this   *)
(* needs a limit on the exchanges.                                         *)
CallsEnd == config.limited /\ InCall ~> ~ InCall

(* Without a limit too, a cancelled caller waits no longer: the watchdog   *)
(* closes the connection under the read (control.go:183-201).              *)
CancelEndsCall == cancelled /\ InCall ~> ~ InCall

(* The watchdog goroutine does not outlive the connection.                 *)
WatchdogReleased == ctlPC \in {"failed", "closed"} ~> watchdog # "waiting"
=============================================================================
