----------------------------- MODULE ControlProofs -----------------------------
(***************************************************************************)
(* The safety of a control connection, for all sets of modes and all ways  *)
(* to configure the client.                                                *)
(***************************************************************************)
EXTENDS Control, TLAPS

Errs == {"none", "dial", "context", "closed", "timeout", "eof", "reset", "busy",
         "noMode", "passphrase", "local", "family"} \cup (Codes \ {"ok"})

(* Types, and which errors there are: no refused HMAC.                     *)
TypeInv ==
  /\ config \in Config
  /\ ctlPC \in {"dial", "greeting", "response", "serverStart", "uptime", "undo",
                "failed", "idle", "request", "accept", "start", "ack", "stop", "closed"}
  /\ phase \in {"none", "opened", "accepted", "started", "stopped"}
  /\ cli \in Side /\ srv \in Side
  /\ decrypt \in BOOLEAN
  /\ conn \in {"none", "up", "closed"}
  /\ deadline \in 0 .. NoDeadline
  /\ cancelled \in BOOLEAN /\ watchdogDone \in BOOLEAN
  /\ watchdog \in {"none", "waiting", "done"}
  /\ err \in Errs
  /\ srvPC \in {"greet", "response", "uptime", "request", "start", "stop", "refused",
                "done"}

-----------------------------------------------------------------------------
(* m is the strongest mode of both sides.                                  *)
Strongest(m) ==
  /\ m \in srvModes \cap Offers
  /\ \A n \in srvModes \cap Offers :
       \/ n = m
       \/ m = "encrypted"
       \/ m = "auth" /\ n \in {"mixed", "open"}
       \/ m = "mixed" /\ n = "open"

(* The mode is chosen once, after the greeting, and the server learns it   *)
(* from the response.                                                      *)
ModeInv ==
  /\ srvModes \subseteq Modes
  /\ mode = NoMode \/ (mode \in Modes /\ Strongest(mode))
  /\ srvMode = NoMode \/ srvMode = mode
  /\ ctlPC \in {"dial", "greeting"} => mode = NoMode /\ srvPC \in {"greet", "response"}
  /\ ctlPC \in {"response", "serverStart", "uptime", "request", "accept", "start", "ack",
                "stop"} => mode # NoMode
  /\ phase # "none" => mode # NoMode
  /\ srvPC \in {"greet", "response"} => srvMode = NoMode
  /\ srvPC \in {"uptime", "request", "start", "stop"} => srvMode = mode /\ mode # NoMode

(* Every message is on its way at the place and with the texts hashed that *)
(* belong to its kind.                                                     *)
Sealed(kind, code, digest, at) ==
  IF Ciphered(mode) THEN Message(kind, code, digest, at)
                    ELSE Message(kind, code, << >>, 0)

ToServer ==
  IF mode = NoMode THEN {}
  ELSE {Message("response", mode, << >>, 0), Sealed("request", "ok", <<"request">>, 0),
        Sealed("start", "ok", <<"start">>, 7), Sealed("stop", "ok", <<"stop">>, 9)}

Clear == {Message("greeting", srvModes, << >>, 0), Message("uptime", "ok", << >>, 0)}
           \cup {Message("serverStart", c, << >>, 0) : c \in Codes}

ToClient ==
  Clear \cup {Sealed("accept", c, Append(<<"uptime">>, "accept"), 1) : c \in Codes}
        \cup {Sealed("ack", c, <<"ack">>, 4) : c \in Codes}

WireInv ==
  /\ toServer \in Seq(ToServer)
  /\ toClient \in Seq(ToClient)
  /\ ctlPC \in {"dial", "greeting"} => toServer = << >> /\ toClient \in Seq(Clear)

(* The state of a side's HMACs and chains, where they are used.            *)
At(side, sendMac, recvMac, enc, dec) ==
  Ciphered(mode) => /\ side.sendMac = sendMac /\ side.recvMac = recvMac
                    /\ side.enc = enc /\ side.dec = dec

ClientInv ==
  /\ InSetup \/ ctlPC = "dial" => cli = Fresh /\ phase = "none" /\ err = "none"
  /\ ctlPC = "uptime" => decrypt = Ciphered(mode)
  /\ May("opened")   => At(cli, << >>, <<"uptime">>, 0, 1)
  /\ ctlPC = "request" => At(cli, << >>, <<"uptime">>, 0, 1) /\ phase = "opened" /\ err = "none"
  /\ ctlPC = "accept" => At(cli, << >>, <<"uptime">>, 7, 1) /\ phase = "opened" /\ err = "none"
  /\ May("accepted") => At(cli, << >>, << >>, 7, 4)
  /\ ctlPC = "start" => At(cli, << >>, << >>, 7, 4) /\ phase = "accepted" /\ err = "none"
  /\ ctlPC = "ack" => At(cli, << >>, << >>, 9, 4) /\ phase = "accepted" /\ err = "none"
  /\ May("started")  => At(cli, << >>, << >>, 9, 6)
  /\ ctlPC = "stop" => At(cli, << >>, << >>, 9, 6) /\ phase = "started" /\ err = "none"
  /\ ctlPC = "idle" => phase # "none"

ServerInv ==
  /\ srvPC \in {"greet", "response", "uptime"} => srv = Fresh
  /\ srvPC = "request" => At(srv, <<"uptime">>, << >>, 1, 0)
  /\ srvPC = "start"   => At(srv, << >>, << >>, 4, 7)
  /\ srvPC = "stop"    => At(srv, << >>, << >>, 6, 9)

(* What a failed setup leaves; under it the connection is closed by the    *)
(* watchdog alone.                                                         *)
ReleaseInv ==
  /\ ctlPC = "dial" => conn = "none" /\ watchdog = "none"
  /\ (InSetup \/ ctlPC = "undo") /\ conn = "closed" => cancelled
  /\ ctlPC = "undo" /\ err = "closed" => cancelled
  /\ ctlPC = "failed" => /\ err # "closed" /\ conn # "up"
                         /\ watchdog = "waiting" => watchdogDone

(* The deadline of a step was armed when the step began: what is left of   *)
(* it and what the step has taken make up the whole timeout.               *)
DeadlineInv ==
  waited = IF InStep /\ deadline # NoDeadline THEN ExchangeTimeout - deadline ELSE 0

AgreeInv == ModeInv /\ WireInv /\ ClientInv /\ ServerInv
ControlInv == TypeInv /\ AgreeInv /\ ReleaseInv /\ DeadlineInv

-----------------------------------------------------------------------------
LEMMA Fixed == ControlNext => UNCHANGED <<config, srvModes>>
<1> USE DEF ctxVars, serverVars, clientVars, wireVars, ServerFrame, Call, ReadAnswer,
            ServerAnswers, ServerTakes, WriteMessage
<1>1. Progress => UNCHANGED <<config, srvModes>>
  BY DEF Progress, Dial, ReadGreeting, WriteSetUpResponse, ReadServerStart, ReadUptime,
         UndoSetup, WriteRequest, ReadAccept, WriteStart, ReadAck, WriteStop, ReadFails
<1>2. Calls => UNCHANGED <<config, srvModes>>
  BY DEF Calls, CallRequest, CallStart, CallStop, CloseControl
<1>3. Watchdog \/ TimePasses \/ Cancel => UNCHANGED <<config, srvModes>>
  BY DEF Watchdog, WatchdogCloses, WatchdogEnds, TimePasses, Cancel
<1>4. Server => UNCHANGED <<config, srvModes>>
  BY DEF Server, ServerGreets, ServerStarts, ServerSendsUptime, ServerAccepts,
         ServerAcks, ServerStops, ServerHangsUp
<1> QED  BY <1>1, <1>2, <1>3, <1>4 DEF ControlNext

(* What a message of the client's queue says, by its kind.                 *)
LEMMA ToClientKinds ==
  ASSUME NEW m \in ToClient
  PROVE  /\ m.kind = "greeting" => m.code = srvModes
         /\ m.kind \in {"serverStart", "accept", "ack"} => m.code \in Codes
         /\ Ciphered(mode) /\ m.kind = "accept" =>
              m.at = 1 /\ m.digest = Append(<<"uptime">>, "accept")
         /\ Ciphered(mode) /\ m.kind = "ack" => m.at = 4 /\ m.digest = <<"ack">>
<1>1. CASE m = Message("greeting", srvModes, << >>, 0)  BY <1>1 DEF Message
<1>2. CASE m = Message("uptime", "ok", << >>, 0)  BY <1>2 DEF Message
<1>3. ASSUME NEW c \in Codes, m = Message("serverStart", c, << >>, 0)
      PROVE  m.kind = "serverStart" /\ m.code \in Codes
  BY <1>3 DEF Message
<1>4. ASSUME NEW c \in Codes, m = Sealed("accept", c, Append(<<"uptime">>, "accept"), 1)
      PROVE  /\ m.kind = "accept" /\ m.code \in Codes
             /\ Ciphered(mode) => m.at = 1 /\ m.digest = Append(<<"uptime">>, "accept")
  BY <1>4 DEF Message, Sealed
<1>5. ASSUME NEW c \in Codes, m = Sealed("ack", c, <<"ack">>, 4)
      PROVE  /\ m.kind = "ack" /\ m.code \in Codes
             /\ Ciphered(mode) => m.at = 4 /\ m.digest = <<"ack">>
  BY <1>5 DEF Message, Sealed
<1> QED  BY <1>1, <1>2, <1>3, <1>4, <1>5 DEF ToClient, Clear

LEMMA ToServerKinds ==
  ASSUME NEW m \in ToServer
  PROVE  /\ mode # NoMode
         /\ m.kind = "response" => m.code = mode
         /\ Ciphered(mode) /\ m.kind = "request" => m.at = 0 /\ m.digest = <<"request">>
         /\ Ciphered(mode) /\ m.kind = "start" => m.at = 7 /\ m.digest = <<"start">>
         /\ Ciphered(mode) /\ m.kind = "stop" => m.at = 9 /\ m.digest = <<"stop">>
<1>1. mode # NoMode  BY DEF ToServer
<1>2. CASE m = Message("response", mode, << >>, 0)  BY <1>1, <1>2 DEF Message
<1>3. CASE m = Sealed("request", "ok", <<"request">>, 0)  BY <1>1, <1>3 DEF Message, Sealed
<1>4. CASE m = Sealed("start", "ok", <<"start">>, 7)  BY <1>1, <1>4 DEF Message, Sealed
<1>5. CASE m = Sealed("stop", "ok", <<"stop">>, 9)  BY <1>1, <1>5 DEF Message, Sealed
<1> QED  BY <1>2, <1>3, <1>4, <1>5 DEF ToServer

LEMMA HeadTail ==
  ASSUME NEW S, NEW q \in Seq(S), q # << >>
  PROVE  Head(q) \in S /\ Tail(q) \in Seq(S)
OBVIOUS

LEMMA ClientReads ==
  ASSUME WireInv, NEW k, CanRead(k)
  PROVE  /\ Head(toClient) \in ToClient /\ Head(toClient).kind = k
         /\ toClient' \in Seq(ToClient)
         /\ toClient \in Seq(Clear) => toClient' \in Seq(Clear)
BY HeadTail DEF WireInv, CanRead

LEMMA ServerReads ==
  ASSUME WireInv, NEW pc, NEW k, ServerTakes(pc, k)
  PROVE  /\ Head(toServer) \in ToServer /\ Head(toServer).kind = k
         /\ toServer' \in Seq(ToServer)
BY HeadTail DEF WireInv, ServerTakes

-----------------------------------------------------------------------------
(* SelectMode finds the strongest mode both sides know, or none.           *)
LEMMA SelectsStrongest ==
  ASSUME srvModes \subseteq Modes
  PROVE  \/ SelectMode(srvModes) = NoMode
         \/ SelectMode(srvModes) \in Modes /\ Strongest(SelectMode(srvModes))
<1> DEFINE common == {k \in DOMAIN Strength : Strength[k] \in srvModes \cap Offers}
           best == CHOOSE k \in common : \A i \in common : i <= k
<1>1. DOMAIN Strength = {1, 2, 3, 4}  BY DEF Strength
<1>2. /\ Strength[1] = "open" /\ Strength[2] = "mixed"
      /\ Strength[3] = "auth" /\ Strength[4] = "encrypted"
  BY DEF Strength
<1>3. CASE common = {}  BY <1>3 DEF SelectMode
<1>4. CASE common # {}
  <2>1. \E k \in common : \A i \in common : i <= k
    <3>1. CASE 4 \in common  BY <1>1, <3>1
    <3>2. CASE 4 \notin common /\ 3 \in common  BY <1>1, <3>2
    <3>3. CASE 4 \notin common /\ 3 \notin common /\ 2 \in common  BY <1>1, <3>3
    <3>4. CASE 4 \notin common /\ 3 \notin common /\ 2 \notin common
      <4>1. common = {1}  BY <1>1, <1>4, <3>4
      <4> QED  BY <4>1
    <3> QED  BY <3>1, <3>2, <3>3, <3>4
  <2>2. best \in common /\ \A i \in common : i <= best  BY <2>1
  <2>3. SelectMode(srvModes) = Strength[best]  BY <1>4 DEF SelectMode
  <2>4. \A n \in srvModes \cap Offers : \E i \in common : n = Strength[i]
    BY <1>1, <1>2 DEF Modes
  <2>5. best \in {1, 2, 3, 4}  BY <1>1, <2>2
  <2> HIDE DEF best
  <2>6. \A n \in srvModes \cap Offers : \E i \in {1, 2, 3, 4} : i <= best /\ n = Strength[i]
    BY <1>1, <2>2, <2>4
  <2>7. Strength[best] \in srvModes \cap Offers  BY <2>2
  <2>8. Strongest(Strength[best])
    <3>1. CASE best = 1  BY <1>2, <2>6, <2>7, <3>1 DEF Strongest
    <3>2. CASE best = 2  BY <1>2, <2>6, <2>7, <3>2 DEF Strongest
    <3>3. CASE best = 3  BY <1>2, <2>6, <2>7, <3>3 DEF Strongest
    <3>4. CASE best = 4  BY <1>2, <2>6, <2>7, <3>4 DEF Strongest
    <3> QED  BY <2>5, <3>1, <3>2, <3>3, <3>4
  <2> QED  BY <2>3, <2>7, <2>8
<1> QED  BY <1>3, <1>4

-----------------------------------------------------------------------------
LEMMA BlocksAreNumbers ==
  \A k \in {"uptime", "request", "accept", "start", "ack", "stop"} : Blocks(k) \in Nat
BY DEF Blocks

LEMMA SideSent ==
  ASSUME NEW side \in Side, NEW n \in Nat, NEW mac \in Seq({"uptime"})
  PROVE  [side EXCEPT !.enc = n, !.sendMac = mac] \in Side
BY DEF Side

LEMMA SideReceived ==
  ASSUME NEW side \in Side, NEW n \in Nat, NEW mac \in Seq({"uptime"})
  PROVE  [side EXCEPT !.dec = n, !.recvMac = mac] \in Side
BY DEF Side

LEMMA SideFields ==
  ASSUME NEW side \in Side, NEW b \in Nat
  PROVE  /\ side.enc + b \in Nat /\ side.dec + b \in Nat
         /\ << >> \in Seq({"uptime"})
         /\ Append(side.sendMac, "uptime") \in Seq({"uptime"})
         /\ Append(side.recvMac, "uptime") \in Seq({"uptime"})
BY DEF Side

LEMMA SideTypes ==
  ASSUME NEW side \in Side, NEW m, NEW k \in {"request", "accept", "start", "ack", "stop"}
  PROVE  /\ Wrote(side, m, k) \in Side
         /\ \A msg : msg.kind = k => Read(side, m, msg) \in Side
<1>1. Blocks(k) \in Nat  BY BlocksAreNumbers
<1>2. [side EXCEPT !.enc = @ + Blocks(k), !.sendMac = << >>] \in Side
  BY <1>1, SideFields, SideSent
<1>3. [side EXCEPT !.dec = @ + Blocks(k), !.recvMac = << >>] \in Side
  BY <1>1, SideFields, SideReceived
<1> QED  BY <1>2, <1>3 DEF Wrote, Read

LEMMA FreshTypes == Fresh \in Side
BY DEF Fresh, Side

LEMMA UptimeTypes ==
  ASSUME cli \in Side, srv \in Side
  PROVE  /\ KeepUptime \in Side
         /\ [srv EXCEPT !.enc = @ + 1, !.sendMac = Append(@, "uptime")] \in Side
<1>1. Blocks("uptime") \in Nat  BY BlocksAreNumbers
<1>2. KeepUptime \in Side  BY <1>1, SideFields, SideReceived DEF KeepUptime
<1>3. [srv EXCEPT !.enc = @ + 1, !.sendMac = Append(@, "uptime")] \in Side
  BY SideFields, SideSent
<1> QED  BY <1>2, <1>3

(* What is read is always authentic: each message is read at its place.    *)
LEMMA ClientTrusts ==
  ASSUME ControlInv, NEW k \in {"accept", "ack"}, ctlPC = k, CanRead(k)
  PROVE  Authentic(cli, mode, Head(toClient))
<1> DEFINE msg == Head(toClient)
<1>1. msg \in ToClient /\ msg.kind = k  BY ClientReads DEF ControlInv, AgreeInv
<1>2. CASE ~ Ciphered(mode)  BY <1>2 DEF Authentic
<1>3. CASE Ciphered(mode) /\ k = "accept"
  <2>1. msg.at = 1 /\ msg.digest = Append(<<"uptime">>, "accept")  BY <1>1, <1>3, ToClientKinds
  <2>2. cli.dec = 1 /\ cli.recvMac = <<"uptime">>
    BY <1>3 DEF ControlInv, AgreeInv, ClientInv, At
  <2> QED  BY <1>1, <1>3, <2>1, <2>2 DEF Authentic
<1>4. CASE Ciphered(mode) /\ k = "ack"
  <2>1. msg.at = 4 /\ msg.digest = <<"ack">>  BY <1>1, <1>4, ToClientKinds
  <2>2. cli.dec = 4 /\ cli.recvMac = << >>
    BY <1>4 DEF ControlInv, AgreeInv, ClientInv, At
  <2>3. Append(<< >>, "ack") = <<"ack">>  OBVIOUS
  <2> QED  BY <1>1, <1>4, <2>1, <2>2, <2>3 DEF Authentic
<1> QED  BY <1>2, <1>3, <1>4

LEMMA ServerTrusts ==
  ASSUME ControlInv, NEW k \in {"request", "start", "stop"}, ServerTakes(k, k)
  PROVE  Authentic(srv, srvMode, Head(toServer))
<1> DEFINE msg == Head(toServer)
<1>1. msg \in ToServer /\ msg.kind = k  BY ServerReads DEF ControlInv, AgreeInv
<1>2. srvPC = k  BY DEF ServerTakes
<1>3. srvMode = mode  BY <1>2 DEF ControlInv, AgreeInv, ModeInv
<1>4. CASE ~ Ciphered(mode)  BY <1>3, <1>4 DEF Authentic
<1>5. CASE Ciphered(mode) /\ k = "request"
  <2>1. msg.at = 0 /\ msg.digest = <<"request">>  BY <1>1, <1>5, ToServerKinds
  <2>2. srv.dec = 0 /\ srv.recvMac = << >>
    BY <1>2, <1>5 DEF ControlInv, AgreeInv, ServerInv, At
  <2>3. Append(<< >>, "request") = <<"request">>  OBVIOUS
  <2> QED  BY <1>1, <1>5, <2>1, <2>2, <2>3 DEF Authentic
<1>6. CASE Ciphered(mode) /\ k = "start"
  <2>1. msg.at = 7 /\ msg.digest = <<"start">>  BY <1>1, <1>6, ToServerKinds
  <2>2. srv.dec = 7 /\ srv.recvMac = << >>
    BY <1>2, <1>6 DEF ControlInv, AgreeInv, ServerInv, At
  <2>3. Append(<< >>, "start") = <<"start">>  OBVIOUS
  <2> QED  BY <1>1, <1>6, <2>1, <2>2, <2>3 DEF Authentic
<1>7. CASE Ciphered(mode) /\ k = "stop"
  <2>1. msg.at = 9 /\ msg.digest = <<"stop">>  BY <1>1, <1>7, ToServerKinds
  <2>2. srv.dec = 9 /\ srv.recvMac = << >>
    BY <1>2, <1>7 DEF ControlInv, AgreeInv, ServerInv, At
  <2>3. Append(<< >>, "stop") = <<"stop">>  OBVIOUS
  <2> QED  BY <1>1, <1>7, <2>1, <2>2, <2>3 DEF Authentic
<1> QED  BY <1>4, <1>5, <1>6, <1>7

-----------------------------------------------------------------------------
LEMMA ArmedTypes == Armed \in 0 .. NoDeadline /\ 0 .. NoDeadline \subseteq Nat
BY ExchangeTimeoutAssumption DEF Armed, NoDeadline

LEMMA TypeStep == ControlInv /\ ControlNext => TypeInv'
<1> SUFFICES ASSUME ControlInv, ControlNext PROVE TypeInv'  OBVIOUS
<1> USE DEF TypeInv, ctxVars, serverVars, clientVars, wireVars, ServerFrame, Go
<1>0. TypeInv /\ WireInv /\ config' = config /\ Armed \in 0 .. NoDeadline
  BY Fixed, ArmedTypes DEF ControlInv, AgreeInv
<1>1. ASSUME NEW e \in Errs, FailWith(e)
      PROVE  err' \in Errs /\ ctlPC' \in {"undo", "idle"}
  BY <1>1 DEF FailWith
<1>2. ASSUME NEW msg, NEW next \in {"serverStart", "accept", "ack", "idle"}, Write(msg, next)
      PROVE  /\ err' \in Errs /\ ctlPC' \in {"undo", "serverStart", "accept", "ack", "idle"}
             /\ deadline' \in 0 .. NoDeadline
  BY <1>0, <1>1, <1>2 DEF Write, StepDeadline, Errs
<1>3. CASE Dial  BY <1>0, <1>3 DEF Dial, StepDeadline, Errs
<1>4. CASE ReadGreeting  BY <1>0, <1>1, <1>4 DEF ReadGreeting, StepDeadline, Errs
<1>5. CASE WriteSetUpResponse  BY <1>0, <1>2, <1>5 DEF WriteSetUpResponse
<1>6. CASE ReadServerStart
  <2>1. Head(toClient).code \in Codes
    BY <1>0, <1>6, ClientReads, ToClientKinds DEF ReadServerStart
  <2>2. CASE Head(toClient).code = "ok"
    BY <1>0, <1>6, <2>2 DEF ReadServerStart, StepDeadline, Ciphered
  <2>3. CASE Head(toClient).code # "ok"
    <3>1. Head(toClient).code \in Errs  BY <2>1, <2>3 DEF Errs
    <3>2. FailWith(Head(toClient).code)  BY <1>6, <2>3 DEF ReadServerStart
    <3>3. err' \in Errs /\ ctlPC' \in {"undo", "idle"}  BY <1>1, <3>1, <3>2
    <3> QED  BY <1>0, <1>6, <2>3, <3>3 DEF ReadServerStart
  <2> QED  BY <2>2, <2>3
<1>7. CASE ReadUptime  BY <1>0, <1>7, UptimeTypes DEF ReadUptime
<1>8. CASE UndoSetup  BY <1>0, <1>8 DEF UndoSetup, Errs
<1>9. ASSUME NEW k \in {"accept", "ack"}, NEW reached \in {"accepted", "started"},
             ReadAnswer(k, reached)
      PROVE  TypeInv'
  <2>1. /\ Head(toClient).code \in Codes /\ Head(toClient).kind = k
        /\ Authentic(cli, mode, Head(toClient))
    BY <1>0, <1>9, ClientReads, ToClientKinds, ClientTrusts DEF ReadAnswer
  <2>2. cli' \in Side  BY <1>0, <1>9, <2>1, SideTypes DEF ReadAnswer
  <2>3. CASE Head(toClient).code = "ok"
    BY <1>0, <1>9, <2>1, <2>2, <2>3 DEF ReadAnswer
  <2>4. CASE Head(toClient).code # "ok"
    <3>1. Head(toClient).code \in Errs  BY <2>1, <2>4 DEF Errs
    <3>2. FailWith(Head(toClient).code) /\ UNCHANGED phase
      BY <1>9, <2>1, <2>4 DEF ReadAnswer
    <3>3. err' \in Errs /\ ctlPC' \in {"undo", "idle"}  BY <1>1, <3>1, <3>2
    <3> QED  BY <1>0, <1>9, <2>2, <3>2, <3>3 DEF ReadAnswer
  <2> QED  BY <2>3, <2>4
<1>10. CASE ReadFails  BY <1>0, <1>1, <1>10 DEF ReadFails, Errs
<1>11. ASSUME NEW k \in {"request", "start", "stop"}, NEW next \in {"accept", "ack", "idle"},
              WriteMessage(k, next)
       PROVE  /\ err' \in Errs /\ cli' \in Side
              /\ ctlPC' \in {"undo", "serverStart", "accept", "ack", "idle"}
              /\ deadline' \in 0 .. NoDeadline
              /\ UNCHANGED <<decrypt, conn, ctxVars, serverVars>>
  <2>1. cli' \in Side  BY <1>0, <1>11, SideTypes DEF WriteMessage
  <2>2. PICK msg : Write(msg, next)  BY <1>11 DEF WriteMessage
  <2>3. /\ err' \in Errs /\ ctlPC' \in {"undo", "serverStart", "accept", "ack", "idle"}
        /\ deadline' \in 0 .. NoDeadline
    BY <1>2, <2>2
  <2> QED  BY <1>11, <2>1, <2>3 DEF WriteMessage
<1>12. CASE WriteRequest \/ WriteStart \/ WriteStop
  <2>1. phase' \in {phase, "stopped"}
    BY <1>12 DEF WriteRequest, WriteStart, WriteStop
  <2> QED  BY <1>0, <1>11, <1>12, <2>1 DEF WriteRequest, WriteStart, WriteStop
<1>13. ASSUME NEW k \in {"request", "start", "stop"}, Call(k) PROVE TypeInv'
  BY <1>0, <1>13 DEF Call, StepDeadline
<1>14. CASE CallRequest \/ CallStart \/ CallStop
  <2>1. CASE CallRequest /\ FailWith("family")
    BY <1>0, <1>1, <2>1 DEF CallRequest, Call, StepDeadline, Errs
  <2> QED  BY <1>13, <1>14, <2>1 DEF CallRequest, CallStart, CallStop
<1>15. CASE CloseControl  BY <1>0, <1>15 DEF CloseControl
<1>16. CASE Watchdog \/ TimePasses \/ Cancel
  <2>1. CASE TimePasses
    <3>1. deadline' \in 0 .. NoDeadline
      BY <2>1, ExchangeTimeoutAssumption DEF TimePasses, NoDeadline
    <3> QED  BY <1>0, <2>1, <3>1 DEF TimePasses
  <2> QED  BY <1>0, <1>16, <2>1 DEF Watchdog, WatchdogCloses, WatchdogEnds, Cancel
<1>17. CASE ServerGreets  BY <1>0, <1>17 DEF ServerGreets
<1>18. CASE ServerStarts  BY <1>0, <1>18 DEF ServerStarts
<1>19. CASE ServerSendsUptime  BY <1>0, <1>19, UptimeTypes DEF ServerSendsUptime
<1>20. ASSUME NEW k \in {"request", "start"}, NEW answer \in {"accept", "ack"},
              NEW codes, NEW next \in {"start", "stop"},
              ServerAnswers(k, answer, codes, next)
       PROVE  TypeInv'
  <2>1. ServerTakes(k, k) /\ Head(toServer).kind = k
    BY <1>20 DEF ServerAnswers, ServerTakes
  <2>2. Authentic(srv, srvMode, Head(toServer))  BY <2>1, ServerTrusts
  <2>3. Read(srv, srvMode, Head(toServer)) \in Side  BY <1>0, <2>1, SideTypes
  <2>4. srv' \in Side
    BY <1>20, <2>2, <2>3, SideTypes DEF ServerAnswers
  <2>5. srvPC' \in {"start", "stop", "refused"}  BY <1>20, <2>2 DEF ServerAnswers
  <2> QED  BY <1>0, <1>20, <2>4, <2>5 DEF ServerAnswers
<1>21. CASE ServerStops
  <2>1. ServerTakes("stop", "stop") /\ Head(toServer).kind = "stop"
    BY <1>21 DEF ServerStops, ServerTakes
  <2>2. Authentic(srv, srvMode, Head(toServer))  BY <2>1, ServerTrusts
  <2>3. srv' \in Side /\ srvPC' = "done"
    BY <1>0, <1>21, <2>1, <2>2, SideTypes DEF ServerStops
  <2> QED  BY <1>0, <1>21, <2>3 DEF ServerStops
<1>22. CASE ServerHangsUp  BY <1>0, <1>22 DEF ServerHangsUp
<1>23. Progress => TypeInv'
  BY <1>3, <1>4, <1>5, <1>6, <1>7, <1>8, <1>9, <1>10, <1>12
     DEF Progress, ReadAccept, ReadAck
<1>24. Calls => TypeInv'  BY <1>14, <1>15 DEF Calls
<1>25. Server => TypeInv'
  BY <1>17, <1>18, <1>19, <1>20, <1>21, <1>22 DEF Server, ServerAccepts, ServerAcks
<1> QED  BY <1>16, <1>23, <1>24, <1>25 DEF ControlNext

-----------------------------------------------------------------------------
LEMMA ModeStep == ControlInv /\ ControlNext => ModeInv'
<1> SUFFICES ASSUME ControlInv, ControlNext PROVE ModeInv'  OBVIOUS
<1> USE DEF ctxVars, serverVars, clientVars, wireVars, ServerFrame, Go
<1>0. /\ ModeInv /\ WireInv /\ UNCHANGED <<config, srvModes>>
      /\ \A m : Strongest(m)' <=> Strongest(m)
  <2>1. UNCHANGED <<config, srvModes>>  BY Fixed
  <2> QED  BY <2>1 DEF ControlInv, AgreeInv, Strongest, Offers
(* The mode stays; the caller does not go back to the greeting.            *)
<1>1. ASSUME UNCHANGED <<mode, srvMode, srvPC>>,
             ctlPC' \in {"dial", "greeting"} => ctlPC \in {"dial", "greeting"},
             ctlPC' \in {"response", "serverStart", "uptime", "request", "accept", "start",
                        "ack", "stop"} => mode # NoMode,
             phase' # "none" => mode # NoMode
      PROVE  ModeInv'
  BY <1>0, <1>1 DEF ModeInv
<1>2. ASSUME NEW e, FailWith(e) PROVE ctlPC' \in {"undo", "idle"}
  BY <1>2 DEF FailWith
<1>3. ASSUME NEW msg, NEW next, Write(msg, next) PROVE ctlPC' \in {"undo", "idle", next}
  BY <1>2, <1>3 DEF Write
<1>4. CASE Dial  BY <1>0, <1>1, <1>4 DEF Dial, ModeInv
<1>5. CASE ReadGreeting
  <2> DEFINE m == SelectMode(srvModes)
  <2>1. Head(toClient).code = srvModes
    BY <1>0, <1>5, ClientReads, ToClientKinds DEF ReadGreeting
  <2>2. mode = NoMode /\ srvMode = NoMode  BY <1>0, <1>5 DEF ReadGreeting, ModeInv
  <2>3. m = NoMode \/ (m \in Modes /\ Strongest(m))
    BY <1>0, SelectsStrongest DEF ModeInv
  <2> HIDE DEF m
  <2>4. \/ mode' = NoMode /\ ctlPC' \in {"undo", "idle"}
        \/ mode' = m /\ m # NoMode /\ ctlPC' \in {"undo", "idle", "response"}
    BY <1>2, <1>5, <2>1, <2>2 DEF ReadGreeting, m
  <2>5. UNCHANGED <<srvMode, srvPC, phase>> /\ phase = "none" /\ srvPC \in {"greet", "response"}
    BY <1>0, <1>5 DEF ReadGreeting, ModeInv, ControlInv, AgreeInv, ClientInv, InSetup
  <2>6. mode' = NoMode \/ (mode' \in Modes /\ Strongest(mode'))  BY <2>3, <2>4
  <2>7. mode' = NoMode \/ (mode \in Modes /\ Strongest(mode))'  BY <1>0, <2>6
  <2> QED  BY <1>0, <2>2, <2>4, <2>5, <2>7 DEF ModeInv
<1>6. CASE WriteSetUpResponse
  BY <1>0, <1>1, <1>3, <1>6 DEF WriteSetUpResponse, ModeInv
<1>7. CASE ReadServerStart
  BY <1>0, <1>1, <1>2, <1>7 DEF ReadServerStart, ModeInv
<1>8. CASE ReadUptime  BY <1>0, <1>1, <1>8 DEF ReadUptime, ModeInv
<1>9. CASE UndoSetup  BY <1>0, <1>1, <1>9 DEF UndoSetup, ModeInv
<1>10. CASE ReadAccept
  BY <1>0, <1>1, <1>2, <1>10 DEF ReadAccept, ReadAnswer, ModeInv
<1>11. CASE ReadAck
  BY <1>0, <1>1, <1>2, <1>11 DEF ReadAck, ReadAnswer, ModeInv
<1>12. CASE ReadFails  BY <1>0, <1>1, <1>2, <1>12 DEF ReadFails, ModeInv
<1>13. CASE WriteRequest \/ WriteStart \/ WriteStop
  <2>1. ctlPC \in {"request", "start", "stop"} /\ mode # NoMode
    BY <1>0, <1>13 DEF WriteRequest, WriteStart, WriteStop, WriteMessage, ModeInv
  <2>2. ctlPC' \in {"undo", "idle", "accept", "ack"}
    BY <1>3, <1>13 DEF WriteRequest, WriteStart, WriteStop, WriteMessage
  <2> QED  BY <1>1, <1>13, <2>1, <2>2 DEF WriteRequest, WriteStart, WriteStop, WriteMessage
<1>14. CASE CallRequest
  <2>1. phase # "none"  BY <1>14 DEF CallRequest, May
  <2> QED  BY <1>0, <1>1, <1>2, <1>14, <2>1 DEF CallRequest, Call, ModeInv
<1>15. CASE CallStart \/ CallStop
  <2>1. phase # "none"  BY <1>15 DEF CallStart, CallStop, May
  <2> QED  BY <1>0, <1>1, <1>15, <2>1 DEF CallStart, CallStop, Call, ModeInv
<1>16. CASE CloseControl  BY <1>0, <1>1, <1>16 DEF CloseControl, ModeInv
<1>17. CASE Watchdog \/ TimePasses \/ Cancel
  BY <1>0, <1>1, <1>17 DEF Watchdog, WatchdogCloses, WatchdogEnds, TimePasses,
                           Cancel, ModeInv
<1>18. CASE ServerGreets  BY <1>0, <1>18 DEF ServerGreets, ModeInv
<1>19. CASE ServerStarts
  <2>1. Head(toServer) \in ToServer /\ Head(toServer).kind = "response"
    BY <1>0, <1>19, ServerReads DEF ServerStarts
  <2>2. srvMode' = mode /\ mode # NoMode  BY <1>19, <2>1, ToServerKinds DEF ServerStarts
  <2>3. ctlPC \notin {"dial", "greeting"}  BY <1>0, <2>2 DEF ModeInv
  <2> QED  BY <1>0, <1>19, <2>2, <2>3 DEF ServerStarts, ModeInv
<1>20. CASE ServerSendsUptime  BY <1>0, <1>20 DEF ServerSendsUptime, ModeInv
<1>21. ASSUME NEW k \in {"request", "start"}, NEW answer, NEW codes,
              NEW next \in {"start", "stop"}, ServerAnswers(k, answer, codes, next)
       PROVE  ModeInv'
  <2>1. ServerTakes(k, k) /\ srvPC = k  BY <1>21 DEF ServerAnswers, ServerTakes
  <2>2. Authentic(srv, srvMode, Head(toServer))  BY <2>1, ServerTrusts
  <2>3. srvPC' \in {"start", "stop", "refused"}  BY <1>21, <2>2 DEF ServerAnswers
  <2> QED  BY <1>0, <1>21, <2>1, <2>3 DEF ServerAnswers, ModeInv
<1>22. CASE ServerStops
  <2>1. ServerTakes("stop", "stop") /\ srvPC = "stop"  BY <1>22 DEF ServerStops, ServerTakes
  <2>2. Authentic(srv, srvMode, Head(toServer))  BY <2>1, ServerTrusts
  <2> QED  BY <1>0, <1>22, <2>1, <2>2 DEF ServerStops, ModeInv
<1>23. CASE ServerHangsUp  BY <1>0, <1>23 DEF ServerHangsUp, ModeInv
<1>24. Progress => ModeInv'
  BY <1>4, <1>5, <1>6, <1>7, <1>8, <1>9, <1>10, <1>11, <1>12, <1>13 DEF Progress
<1>25. Calls => ModeInv'  BY <1>14, <1>15, <1>16 DEF Calls
<1>26. Server => ModeInv'
  BY <1>18, <1>19, <1>20, <1>21, <1>22, <1>23 DEF Server, ServerAccepts, ServerAcks
<1> QED  BY <1>17, <1>24, <1>25, <1>26 DEF ControlNext

-----------------------------------------------------------------------------
(* What reading and writing do to the state of a side.                     *)
LEMMA ReadDoes ==
  ASSUME NEW side \in Side, NEW m, NEW msg
  PROVE  /\ Read(side, m, msg).sendMac = side.sendMac
         /\ Read(side, m, msg).enc = side.enc
         /\ Ciphered(m) => /\ Read(side, m, msg).recvMac = << >>
                           /\ Read(side, m, msg).dec = side.dec + Blocks(msg.kind)
BY DEF Read, Side

LEMMA WroteDoes ==
  ASSUME NEW side \in Side, NEW m, NEW k
  PROVE  /\ Wrote(side, m, k).recvMac = side.recvMac
         /\ Wrote(side, m, k).dec = side.dec
         /\ Ciphered(m) => /\ Wrote(side, m, k).sendMac = << >>
                           /\ Wrote(side, m, k).enc = side.enc + Blocks(k)
BY DEF Wrote, Side

LEMMA BlockCounts ==
  /\ Blocks("uptime") = 1 /\ Blocks("request") = 7 /\ Blocks("accept") = 3
  /\ Blocks("start") = 2 /\ Blocks("ack") = 2 /\ Blocks("stop") = 2
BY DEF Blocks

LEMMA Appended ==
  ASSUME NEW S, NEW q \in Seq(S), NEW e \in S
  PROVE  Append(q, e) \in Seq(S)
OBVIOUS

(* A message of the client, written where its call has begun.              *)
LEMMA ClientSeals ==
  ASSUME ControlInv, mode # NoMode
  PROVE  /\ ctlPC = "request" => Written(cli, mode, "request", "ok") \in ToServer
         /\ ctlPC = "start"   => Written(cli, mode, "start", "ok") \in ToServer
         /\ ctlPC = "stop"    => Written(cli, mode, "stop", "ok") \in ToServer
<1>1. /\ Append(<< >>, "request") = <<"request">>
      /\ Append(<< >>, "start") = <<"start">>
      /\ Append(<< >>, "stop") = <<"stop">>
  OBVIOUS
<1>2. ClientInv  BY DEF ControlInv, AgreeInv
<1>3. CASE ~ Ciphered(mode)  BY <1>3 DEF Written, Sealed, ToServer
<1>4. CASE Ciphered(mode)
  BY <1>1, <1>2, <1>4 DEF ClientInv, At, Written, Sealed, ToServer
<1> QED  BY <1>3, <1>4

(* And of the server, which has read a message just before.                *)
LEMMA ServerSeals ==
  ASSUME ControlInv, NEW c \in Codes, NEW msg
  PROVE  /\ srvPC = "request" =>
              Written(Read(srv, srvMode, msg), srvMode, "accept", c) \in ToClient
         /\ srvPC = "start" =>
              Written(Read(srv, srvMode, msg), srvMode, "ack", c) \in ToClient
<1>1. Append(<< >>, "ack") = <<"ack">>  OBVIOUS
<1>2. ServerInv /\ srv \in Side /\ ModeInv  BY DEF ControlInv, AgreeInv, TypeInv
<1>3. /\ Read(srv, srvMode, msg).sendMac = srv.sendMac
      /\ Read(srv, srvMode, msg).enc = srv.enc
  BY <1>2, ReadDoes
<1>4. srvPC \in {"request", "start"} => srvMode = mode  BY <1>2 DEF ModeInv
<1>5. CASE ~ Ciphered(mode)
  BY <1>4, <1>5 DEF Written, Sealed, ToClient
<1>6. CASE Ciphered(mode)
  BY <1>1, <1>2, <1>3, <1>4, <1>6 DEF ServerInv, At, Written, Sealed, ToClient
<1> QED  BY <1>5, <1>6

LEMMA WireStep == ControlInv /\ ControlNext => WireInv'
<1> SUFFICES ASSUME ControlInv, ControlNext PROVE WireInv'  OBVIOUS
<1> USE DEF ctxVars, serverVars, clientVars, wireVars, ServerFrame, Go
<1>0. /\ ModeInv /\ WireInv /\ ModeInv' /\ srvModes' = srvModes
  BY Fixed, ModeStep DEF ControlInv, AgreeInv
<1>1. /\ Clear' = Clear
      /\ mode' = mode => ToServer' = ToServer /\ ToClient' = ToClient
  BY <1>0 DEF Clear, ToServer, ToClient, Sealed
<1>2. ASSUME mode' = mode, toServer' \in Seq(ToServer), toClient' \in Seq(ToClient),
             ctlPC' \in {"dial", "greeting"} => ctlPC \in {"dial", "greeting"},
             ctlPC \in {"dial", "greeting"} => toServer' = toServer,
             ctlPC \in {"dial", "greeting"} => toClient' \in Seq(Clear)
      PROVE  WireInv'
  BY <1>1, <1>2, <1>0 DEF WireInv
<1>3. ASSUME NEW e, FailWith(e) PROVE ctlPC' \in {"undo", "idle"}
  BY <1>3 DEF FailWith
<1>4. ASSUME NEW msg \in ToServer, NEW next \in {"serverStart", "accept", "ack", "idle"},
             Write(msg, next)
      PROVE  toServer' \in Seq(ToServer) /\ ctlPC' \notin {"dial", "greeting"}
  <2>1. toServer \in Seq(ToServer)  BY <1>0 DEF WireInv
  <2>2. Append(toServer, msg) \in Seq(ToServer)  BY <2>1, Appended
  <2> QED  BY <1>3, <1>4, <2>1, <2>2 DEF Write
<1>5. CASE Dial  BY <1>0, <1>2, <1>5 DEF Dial, WireInv
<1>6. CASE ReadGreeting
  <2>1. toServer' = << >> /\ toClient' \in Seq(Clear)
    BY <1>0, <1>6, ClientReads DEF ReadGreeting, WireInv
  <2>2. Seq(Clear) \subseteq Seq(ToClient')  BY <1>1 DEF ToClient
  <2>3. << >> \in Seq(ToServer')  OBVIOUS
  <2> QED  BY <1>1, <2>1, <2>2, <2>3 DEF WireInv
<1>7. CASE WriteSetUpResponse
  <2>1. Message("response", mode, << >>, 0) \in ToServer
    BY <1>0, <1>7 DEF WriteSetUpResponse, ModeInv, ToServer
  <2> QED  BY <1>0, <1>2, <1>4, <1>7, <2>1 DEF WriteSetUpResponse, WireInv
<1>8. CASE ReadServerStart
  BY <1>0, <1>2, <1>3, <1>8, ClientReads DEF ReadServerStart, WireInv
<1>9. CASE ReadUptime
  BY <1>0, <1>2, <1>9, ClientReads DEF ReadUptime, WireInv
<1>10. CASE UndoSetup  BY <1>0, <1>2, <1>10 DEF UndoSetup, WireInv
<1>11. CASE ReadAccept
  BY <1>0, <1>2, <1>3, <1>11, ClientReads DEF ReadAccept, ReadAnswer, WireInv
<1>12. CASE ReadAck
  BY <1>0, <1>2, <1>3, <1>12, ClientReads DEF ReadAck, ReadAnswer, WireInv
<1>13. CASE ReadFails
  <2>1. ctlPC' \in {"undo", "idle"}  BY <1>3, <1>13 DEF ReadFails
  <2> QED  BY <1>0, <1>2, <1>13, <2>1 DEF ReadFails, WireInv
<1>14. CASE WriteRequest \/ WriteStart \/ WriteStop
  <2>1. ctlPC \in {"request", "start", "stop"} /\ mode # NoMode
    BY <1>0, <1>14 DEF WriteRequest, WriteStart, WriteStop, WriteMessage, ModeInv
  <2>2. Written(cli, mode, ctlPC, "ok") \in ToServer  BY <2>1, ClientSeals
  <2>3. /\ toServer' \in Seq(ToServer) /\ ctlPC' \notin {"dial", "greeting"}
        /\ UNCHANGED <<mode, toClient>>
    BY <1>4, <1>14, <2>2 DEF WriteRequest, WriteStart, WriteStop, WriteMessage
  <2> QED  BY <1>0, <1>2, <2>1, <2>3 DEF WireInv
<1>15. ASSUME May("opened") \/ May("accepted") \/ May("started")
       PROVE  ctlPC \notin {"dial", "greeting"}
  BY <1>15 DEF May
<1>16. CASE CallRequest
  BY <1>0, <1>2, <1>3, <1>15, <1>16 DEF CallRequest, Call, WireInv
<1>17. CASE CallStart \/ CallStop
  BY <1>0, <1>2, <1>15, <1>17 DEF CallStart, CallStop, Call, WireInv
<1>18. CASE CloseControl  BY <1>0, <1>2, <1>18 DEF CloseControl, WireInv
<1>19. CASE Watchdog \/ TimePasses \/ Cancel
  BY <1>0, <1>2, <1>19 DEF Watchdog, WatchdogCloses, WatchdogEnds, TimePasses,
                           Cancel, WireInv
(* Messages in clear keep to the first steps of the handshake.             *)
<1>20. ASSUME NEW m \in Clear, toClient' = Append(toClient, m),
              UNCHANGED <<mode, ctlPC, toServer>>
       PROVE  WireInv'
  <2>1. m \in ToClient  BY DEF ToClient
  <2>2. toClient' \in Seq(ToClient)  BY <1>0, <1>20, <2>1, Appended DEF WireInv
  <2>3. toClient \in Seq(Clear) => toClient' \in Seq(Clear)  BY <1>20, Appended
  <2> QED  BY <1>0, <1>2, <1>20, <2>2, <2>3 DEF WireInv
<1>21. CASE ServerGreets
  <2>1. Message("greeting", srvModes, << >>, 0) \in Clear  BY DEF Clear
  <2> QED  BY <1>20, <1>21, <2>1 DEF ServerGreets
<1>22. CASE ServerStarts
  <2>1. Head(toServer) \in ToServer /\ toServer' \in Seq(ToServer)
    BY <1>0, <1>22, ServerReads DEF ServerStarts
  <2>2. ctlPC \notin {"dial", "greeting"}
    BY <1>0, <1>22, <2>1, ToServerKinds DEF ServerStarts, ModeInv
  <2>3. PICK c \in Codes : toClient' = Append(toClient, Message("serverStart", c, << >>, 0))
    BY <1>22 DEF ServerStarts
  <2>4. Message("serverStart", c, << >>, 0) \in ToClient  BY DEF ToClient, Clear
  <2>5. toClient' \in Seq(ToClient)  BY <1>0, <2>3, <2>4, Appended DEF WireInv
  <2> QED  BY <1>0, <1>2, <1>22, <2>1, <2>2, <2>5 DEF ServerStarts
<1>23. CASE ServerSendsUptime
  <2>1. srv.enc = 0
    BY <1>23 DEF ServerSendsUptime, ControlInv, AgreeInv, ServerInv, Fresh
  <2>2. Message("uptime", "ok", << >>, srv.enc) \in Clear  BY <2>1 DEF Clear
  <2> QED  BY <1>20, <1>23, <2>2 DEF ServerSendsUptime
<1>24. ASSUME NEW k \in {"request", "start"}, NEW answer, NEW codes \in SUBSET Codes, NEW next,
              <<k, answer>> \in {<<"request", "accept">>, <<"start", "ack">>},
              ServerAnswers(k, answer, codes, next)
       PROVE  WireInv'
  <2>1. ServerTakes(k, k) /\ srvPC = k  BY <1>24 DEF ServerAnswers, ServerTakes
  <2>2. Authentic(srv, srvMode, Head(toServer))  BY <2>1, ServerTrusts
  <2>3. ctlPC \notin {"dial", "greeting"}  BY <1>0, <2>1 DEF ModeInv
  <2>4. PICK c \in codes : toClient' =
            Append(toClient, Written(Read(srv, srvMode, Head(toServer)), srvMode, answer, c))
    BY <1>24, <2>2 DEF ServerAnswers
  <2>5. Written(Read(srv, srvMode, Head(toServer)), srvMode, answer, c) \in ToClient
    BY <1>24, <2>1, ServerSeals
  <2>6. toClient' \in Seq(ToClient)  BY <1>0, <2>4, <2>5, Appended DEF WireInv
  <2>7. toServer' \in Seq(ToServer)  BY <1>0, <2>1, ServerReads
  <2> QED  BY <1>0, <1>2, <1>24, <2>3, <2>6, <2>7 DEF ServerAnswers
<1>25. CASE ServerStops
  <2>1. toServer' \in Seq(ToServer) /\ srvPC = "stop"
    BY <1>0, <1>25, ServerReads DEF ServerStops, ServerTakes
  <2>2. ctlPC \notin {"dial", "greeting"}  BY <1>0, <2>1 DEF ModeInv
  <2> QED  BY <1>0, <1>2, <1>25, <2>1, <2>2 DEF ServerStops, WireInv
<1>26. CASE ServerHangsUp  BY <1>0, <1>2, <1>26 DEF ServerHangsUp, WireInv
<1>27. Progress => WireInv'
  BY <1>5, <1>6, <1>7, <1>8, <1>9, <1>10, <1>11, <1>12, <1>13, <1>14 DEF Progress
<1>28. Calls => WireInv'  BY <1>16, <1>17, <1>18 DEF Calls
<1>29. Server => WireInv'
  <2>1. Codes \in SUBSET Codes /\ Codes \ {"noPort"} \in SUBSET Codes  OBVIOUS
  <2> QED  BY <1>21, <1>22, <1>23, <1>24, <1>25, <1>26, <2>1
           DEF Server, ServerAccepts, ServerAcks
<1> QED  BY <1>19, <1>27, <1>28, <1>29 DEF ControlNext

-----------------------------------------------------------------------------
LEMMA ServerStep == ControlInv /\ ControlNext => ServerInv'
<1> SUFFICES ASSUME ControlInv, ControlNext PROVE ServerInv'  OBVIOUS
<1> USE DEF ctxVars, serverVars, clientVars, wireVars, ServerFrame
<1>0. ModeInv /\ ServerInv /\ srv \in Side  BY DEF ControlInv, AgreeInv, TypeInv
(* The client's steps: only the choice of the mode matters to the server,  *)
(* whose HMACs are fresh then.                                             *)
<1>1. ASSUME UNCHANGED <<mode, srvPC, srv>> PROVE ServerInv'
  BY <1>0, <1>1 DEF ServerInv, At
<1>2. CASE ReadGreeting
  <2>1. srvPC \in {"greet", "response"} /\ UNCHANGED <<srvPC, srv>>
    BY <1>0, <1>2 DEF ReadGreeting, ModeInv
  <2> QED  BY <1>0, <2>1 DEF ServerInv
<1>3. Progress => ServerInv'
  BY <1>1, <1>2 DEF Progress, Dial, WriteSetUpResponse, ReadServerStart, ReadUptime,
                    UndoSetup, WriteRequest, WriteStart, WriteStop, WriteMessage,
                    ReadAccept, ReadAck, ReadAnswer, ReadFails
<1>4. Calls => ServerInv'
  BY <1>1 DEF Calls, CallRequest, CallStart, CallStop, Call, CloseControl
<1>5. Watchdog \/ TimePasses \/ Cancel => ServerInv'
  BY <1>1 DEF Watchdog, WatchdogCloses, WatchdogEnds, TimePasses, Cancel
<1>6. CASE ServerGreets  BY <1>0, <1>6 DEF ServerGreets, ServerInv
<1>7. CASE ServerStarts  BY <1>0, <1>7 DEF ServerStarts, ServerTakes, ServerInv
<1>8. CASE ServerSendsUptime
  <2>1. srv = Fresh /\ srvMode = mode /\ mode' = mode /\ srvPC' = "request"
    BY <1>0, <1>8 DEF ServerSendsUptime, ServerInv, ModeInv
  <2>2. CASE ~ Ciphered(mode)  BY <2>1, <2>2 DEF ServerInv, At
  <2>3. CASE Ciphered(mode)
    <3>1. Append(<< >>, "uptime") = <<"uptime">>  OBVIOUS
    <3>2. srv' = [Fresh EXCEPT !.enc = @ + 1, !.sendMac = Append(@, "uptime")]
      BY <1>8, <2>1, <2>3 DEF ServerSendsUptime
    <3>3. srv'.sendMac = <<"uptime">> /\ srv'.recvMac = << >> /\ srv'.enc = 1 /\ srv'.dec = 0
      BY <3>1, <3>2 DEF Fresh
    <3> QED  BY <2>1, <3>3 DEF ServerInv, At
  <2> QED  BY <2>2, <2>3
<1>9. ASSUME NEW k \in {"request", "start"}, NEW answer, NEW codes, NEW next,
             <<k, answer, next>> \in {<<"request", "accept", "start">>,
                                     <<"start", "ack", "stop">>},
             ServerAnswers(k, answer, codes, next)
      PROVE  ServerInv'
  <2> DEFINE took == Read(srv, srvMode, Head(toServer))
  <2>1. ServerTakes(k, k) /\ srvPC = k /\ Head(toServer).kind = k
    BY <1>9 DEF ServerAnswers, ServerTakes
  <2>2. Authentic(srv, srvMode, Head(toServer))  BY <2>1, ServerTrusts
  <2>3. srv' = Wrote(took, srvMode, answer) /\ srvPC' \in {next, "refused"} /\ mode' = mode
    BY <1>9, <2>2 DEF ServerAnswers
  <2>4. srvMode = mode  BY <1>0, <2>1 DEF ModeInv
  <2>5. CASE ~ Ciphered(mode)  BY <1>9, <2>3, <2>5 DEF ServerInv, At
  <2>6. CASE Ciphered(mode)
    <3>1. took \in Side  BY <1>0, <2>1, SideTypes
    <3>2. /\ took.sendMac = srv.sendMac /\ took.enc = srv.enc
          /\ took.recvMac = << >> /\ took.dec = srv.dec + Blocks(k)
      BY <1>0, <2>1, <2>4, <2>6, ReadDoes
    <3>3. /\ srv'.recvMac = << >> /\ srv'.dec = srv.dec + Blocks(k)
          /\ srv'.sendMac = << >> /\ srv'.enc = srv.enc + Blocks(answer)
      <4> HIDE DEF took
      <4> QED  BY <2>3, <2>4, <2>6, <3>1, <3>2, WroteDoes
    <3>4. CASE k = "request"
      <4>1. srv.enc = 1 /\ srv.dec = 0 /\ answer = "accept" /\ next = "start"
        BY <1>0, <1>9, <2>1, <2>6, <3>4 DEF ServerInv, At
      <4>2. srv'.enc = 4 /\ srv'.dec = 7  BY <3>3, <3>4, <4>1, BlockCounts
      <4> QED  BY <2>3, <3>3, <4>1, <4>2 DEF ServerInv, At
    <3>5. CASE k = "start"
      <4>1. srv.enc = 4 /\ srv.dec = 7 /\ answer = "ack" /\ next = "stop"
        BY <1>0, <1>9, <2>1, <2>6, <3>5 DEF ServerInv, At
      <4>2. srv'.enc = 6 /\ srv'.dec = 9  BY <3>3, <3>5, <4>1, BlockCounts
      <4> QED  BY <2>3, <3>3, <4>1, <4>2 DEF ServerInv, At
    <3> QED  BY <3>4, <3>5
  <2> QED  BY <2>5, <2>6
<1>10. CASE ServerStops
  <2>1. ServerTakes("stop", "stop")  BY <1>10 DEF ServerStops
  <2>2. Authentic(srv, srvMode, Head(toServer))  BY <2>1, ServerTrusts
  <2> QED  BY <1>10, <2>2 DEF ServerStops, ServerInv
<1>11. CASE ServerHangsUp  BY <1>1, <1>11 DEF ServerHangsUp
<1>12. Server => ServerInv'
  BY <1>6, <1>7, <1>8, <1>9, <1>10, <1>11 DEF Server, ServerAccepts, ServerAcks
<1> QED  BY <1>3, <1>4, <1>5, <1>12 DEF ControlNext

-----------------------------------------------------------------------------
LEMMA ReleaseStep == ControlInv /\ ControlNext => ReleaseInv'
<1> SUFFICES ASSUME ControlInv, ControlNext PROVE ReleaseInv'  OBVIOUS
<1> USE DEF ctxVars, serverVars, clientVars, wireVars, ServerFrame, InSetup, Go
<1>0. ReleaseInv /\ ClientInv /\ TypeInv  BY DEF ControlInv, AgreeInv
<1>1. CASE Dial  BY <1>0, <1>1 DEF Dial, ReleaseInv, ClientInv
(* The other steps of a call leave the connection and its watchdog alone.  *)
<1>2. ASSUME UNCHANGED <<conn, cancelled, watchdog, watchdogDone>>, ctlPC # "dial",
             ctlPC # "failed",
             \/ ctlPC' \in {"idle", "request", "accept", "start", "ack", "stop"}
             \/ ctlPC' \in {"response", "serverStart", "uptime"} /\ InSetup
             \/ ctlPC' = "undo" /\ InSetup /\ (err' = "closed" => conn = "closed")
      PROVE  ReleaseInv'
  BY <1>0, <1>2 DEF ReleaseInv
<1>3. ASSUME NEW e, FailWith(e)
      PROVE  err' = e /\ (ctlPC' = "idle" \/ (ctlPC' = "undo" /\ InSetup))
  BY <1>3 DEF FailWith
<1>4. ASSUME NEW msg, NEW next \in {"serverStart", "accept", "ack", "idle"}, Write(msg, next)
      PROVE  \/ ctlPC' = next
             \/ ctlPC' = "idle"
             \/ ctlPC' = "undo" /\ InSetup /\ (err' = "closed" => conn = "closed")
  BY <1>3, <1>4 DEF Write
<1>5. CASE ReadGreeting  BY <1>0, <1>2, <1>3, <1>5 DEF ReadGreeting
<1>6. CASE WriteSetUpResponse  BY <1>0, <1>2, <1>4, <1>6 DEF WriteSetUpResponse
<1>7. CASE ReadServerStart
  <2>1. Head(toClient).code \in Codes
    BY <1>7, ClientReads, ToClientKinds DEF ReadServerStart, ControlInv, AgreeInv
  <2>2. Head(toClient).code # "closed"  BY <2>1 DEF Codes
  <2> QED  BY <1>0, <1>2, <1>3, <1>7, <2>2 DEF ReadServerStart
<1>8. CASE ReadUptime  BY <1>0, <1>2, <1>8 DEF ReadUptime
<1>9. CASE UndoSetup  BY <1>0, <1>9 DEF UndoSetup, ReleaseInv, TypeInv
<1>10. CASE ReadAccept \/ ReadAck
  BY <1>0, <1>2, <1>3, <1>10 DEF ReadAccept, ReadAck, ReadAnswer
<1>11. CASE ReadFails
  BY <1>0, <1>2, <1>3, <1>11 DEF ReadFails, Waiting
<1>12. CASE WriteRequest \/ WriteStart \/ WriteStop
  BY <1>0, <1>2, <1>4, <1>12 DEF WriteRequest, WriteStart, WriteStop, WriteMessage
<1>13. CASE CallRequest \/ CallStart \/ CallStop
  BY <1>0, <1>2, <1>3, <1>13 DEF CallRequest, CallStart, CallStop, Call, May
<1>14. CASE CloseControl  BY <1>0, <1>14 DEF CloseControl, ReleaseInv
<1>15. CASE Watchdog
  BY <1>0, <1>15 DEF Watchdog, WatchdogCloses, WatchdogEnds, ReleaseInv
<1>16. CASE TimePasses \/ Cancel
  BY <1>0, <1>16 DEF TimePasses, Cancel, ReleaseInv
<1>17. CASE Server
  <2>1. UNCHANGED <<ctlPC, err, conn, cancelled, watchdog, watchdogDone>>
    BY <1>17 DEF Server, ServerGreets, ServerStarts, ServerSendsUptime, ServerAccepts,
                 ServerAcks, ServerAnswers, ServerStops, ServerHangsUp
  <2> QED  BY <1>0, <2>1 DEF ReleaseInv
<1> QED
  BY <1>1, <1>5, <1>6, <1>7, <1>8, <1>9, <1>10, <1>11, <1>12, <1>13, <1>14, <1>15, <1>16,
     <1>17 DEF ControlNext, Progress, Calls

-----------------------------------------------------------------------------
LEMMA ClientStep == ControlInv /\ ControlNext => ClientInv'
<1> SUFFICES ASSUME ControlInv, ControlNext PROVE ClientInv'  OBVIOUS
<1> USE DEF ctxVars, serverVars, clientVars, wireVars, ServerFrame, InSetup, May, Go
<1>0. ModeInv /\ WireInv /\ ClientInv /\ cli \in Side  BY DEF ControlInv, AgreeInv, TypeInv
<1>1. ASSUME UNCHANGED <<ctlPC, err, mode, cli, decrypt, phase>> PROVE ClientInv'
  BY <1>0, <1>1 DEF ClientInv, At
(* A call that failed leaves nothing to agree on.                          *)
<1>2. ASSUME \/ ctlPC' \in {"undo", "failed", "closed"}
             \/ ctlPC' = "idle" /\ err' # "none" /\ phase' # "none"
      PROVE  ClientInv'
  BY <1>2 DEF ClientInv
<1>3. ASSUME NEW e, FailWith(e), e # "none", phase' = phase, ~ InSetup => phase # "none"
      PROVE  ClientInv'
  BY <1>2, <1>3 DEF FailWith
<1>4. ASSUME NEW msg, NEW next, Write(msg, next), phase' = phase, ~ InSetup => phase # "none"
      PROVE  ClientInv' \/ (ctlPC' = next /\ err' = err)
  BY <1>3, <1>4 DEF Write
<1>5. CASE Dial  BY <1>0, <1>2, <1>5 DEF Dial, ClientInv
<1>6. CASE ReadGreeting
  <2>1. ClientInv' \/ (ctlPC' = "response" /\ err' = err)
    BY <1>3, <1>6 DEF ReadGreeting
  <2> QED  BY <1>0, <1>6, <2>1 DEF ReadGreeting, ClientInv
<1>7. CASE WriteSetUpResponse
  BY <1>0, <1>4, <1>7 DEF WriteSetUpResponse, ClientInv
<1>8. CASE ReadServerStart
  <2>1. Head(toClient).code \in Codes
    BY <1>0, <1>8, ClientReads, ToClientKinds DEF ReadServerStart
  <2>2. Head(toClient).code # "none"  BY <2>1 DEF Codes
  <2>3. CASE Head(toClient).code = "ok"  BY <1>0, <1>8, <2>3 DEF ReadServerStart, ClientInv
  <2>4. CASE Head(toClient).code # "ok"  BY <1>3, <1>8, <2>2, <2>4 DEF ReadServerStart
  <2> QED  BY <2>3, <2>4
<1>9. CASE ReadUptime
  <2>1. cli = Fresh /\ err = "none" /\ decrypt = Ciphered(mode) /\ mode' = mode
    BY <1>0, <1>9 DEF ReadUptime, ClientInv
  <2>2. Append(<< >>, "uptime") = <<"uptime">>  OBVIOUS
  <2>3. Ciphered(mode) => cli' = KeepUptime  BY <1>9, <2>1 DEF ReadUptime
  <2>4. /\ KeepUptime.sendMac = << >> /\ KeepUptime.recvMac = <<"uptime">>
        /\ KeepUptime.enc = 0 /\ KeepUptime.dec = 1
    BY <2>1, <2>2, BlockCounts DEF KeepUptime, Fresh
  <2>5. At(cli, << >>, <<"uptime">>, 0, 1)'  BY <2>1, <2>3, <2>4 DEF At
  <2> QED  BY <1>9, <2>5 DEF ReadUptime, ClientInv
<1>10. CASE UndoSetup  BY <1>2, <1>10 DEF UndoSetup
(* An answer that was asked for.                                           *)
<1>11. ASSUME NEW k \in {"accept", "ack"}, NEW reached, ReadAnswer(k, reached)
       PROVE  \/ ClientInv'
              \/ /\ ctlPC' = "idle" /\ phase' = reached /\ err' = "none"
                 /\ mode' = mode
                 /\ Ciphered(mode) => /\ cli'.sendMac = cli.sendMac /\ cli'.enc = cli.enc
                                      /\ cli'.recvMac = << >>
                                      /\ cli'.dec = cli.dec + Blocks(k)
  <2>1. /\ Head(toClient).code \in Codes /\ Head(toClient).kind = k
        /\ Authentic(cli, mode, Head(toClient))
    BY <1>0, <1>11, ClientReads, ToClientKinds, ClientTrusts DEF ReadAnswer
  <2>2. Head(toClient).code # "none"  BY <2>1 DEF Codes
  <2>3. ctlPC = k /\ phase # "none" /\ err = "none"
    BY <1>0, <1>11 DEF ReadAnswer, ClientInv
  <2>4. CASE Head(toClient).code = "ok"
    <3>1. ctlPC' = "idle" /\ phase' = reached /\ err' = "none" /\ mode' = mode
      BY <1>11, <2>1, <2>3, <2>4 DEF ReadAnswer
    <3>2. cli' = Read(cli, mode, Head(toClient))  BY <1>11 DEF ReadAnswer
    <3> QED  BY <1>0, <2>1, <3>1, <3>2, ReadDoes
  <2>5. CASE Head(toClient).code # "ok"
    <3>1. FailWith(Head(toClient).code) /\ UNCHANGED phase
      BY <1>11, <2>1, <2>5 DEF ReadAnswer
    <3> QED  BY <1>3, <2>2, <2>3, <3>1
  <2> QED  BY <2>4, <2>5
<1>12. CASE ReadAccept
  <2>1. At(cli, << >>, <<"uptime">>, 7, 1)
    BY <1>0, <1>12 DEF ReadAccept, ReadAnswer, ClientInv
  <2>2. CASE ClientInv'  BY <2>2
  <2>3. CASE ~ ClientInv'
    <3>1. /\ ctlPC' = "idle" /\ phase' = "accepted" /\ err' = "none" /\ mode' = mode
          /\ Ciphered(mode) => /\ cli'.sendMac = cli.sendMac /\ cli'.enc = cli.enc
                               /\ cli'.recvMac = << >>
                               /\ cli'.dec = cli.dec + Blocks("accept")
      BY <1>11, <1>12, <2>3 DEF ReadAccept
    <3>2. At(cli, << >>, << >>, 7, 4)'  BY <2>1, <3>1, BlockCounts DEF At
    <3> QED  BY <3>1, <3>2 DEF ClientInv
  <2> QED  BY <2>2, <2>3
<1>13. CASE ReadAck
  <2>1. At(cli, << >>, << >>, 9, 4)
    BY <1>0, <1>13 DEF ReadAck, ReadAnswer, ClientInv
  <2>2. CASE ClientInv'  BY <2>2
  <2>3. CASE ~ ClientInv'
    <3>1. /\ ctlPC' = "idle" /\ phase' = "started" /\ err' = "none" /\ mode' = mode
          /\ Ciphered(mode) => /\ cli'.sendMac = cli.sendMac /\ cli'.enc = cli.enc
                               /\ cli'.recvMac = << >>
                               /\ cli'.dec = cli.dec + Blocks("ack")
      BY <1>11, <1>13, <2>3 DEF ReadAck
    <3>2. At(cli, << >>, << >>, 9, 6)'  BY <2>1, <3>1, BlockCounts DEF At
    <3> QED  BY <3>1, <3>2 DEF ClientInv
  <2> QED  BY <2>2, <2>3
<1>14. CASE ReadFails
  <2>1. ~ InSetup => phase # "none"  BY <1>0, <1>14 DEF ReadFails, Waiting, ClientInv
  <2> QED  BY <1>3, <1>14, <2>1 DEF ReadFails
(* A message that a call has written.                                      *)
<1>15. ASSUME NEW k \in {"request", "start", "stop"}, NEW next, WriteMessage(k, next)
       PROVE  /\ ctlPC = k /\ mode' = mode
              /\ Ciphered(mode) => /\ cli'.recvMac = cli.recvMac /\ cli'.dec = cli.dec
                                   /\ cli'.sendMac = << >>
                                   /\ cli'.enc = cli.enc + Blocks(k)
              /\ \/ ctlPC' = next /\ err' = err
                 \/ ctlPC' = "idle" /\ err' # "none"
  <2>1. cli' = Wrote(cli, mode, k) /\ mode' = mode /\ ctlPC = k  BY <1>15 DEF WriteMessage
  <2>2. PICK msg : Write(msg, next)  BY <1>15 DEF WriteMessage
  <2>3. \/ ctlPC' = next /\ err' = err
        \/ ctlPC' = "idle" /\ err' # "none"
    BY <2>1, <2>2 DEF Write, FailWith
  <2> QED  BY <1>0, <2>1, <2>3, WroteDoes
<1>16. CASE WriteRequest
  <2>1. At(cli, << >>, <<"uptime">>, 0, 1) /\ phase' = "opened" /\ err = "none"
    BY <1>0, <1>15, <1>16 DEF WriteRequest, ClientInv
  <2>2. At(cli, << >>, <<"uptime">>, 7, 1)'
    BY <1>15, <1>16, <2>1, BlockCounts DEF At, WriteRequest
  <2>3. \/ ctlPC' = "accept" /\ err' = "none"
        \/ ctlPC' = "idle" /\ err' # "none"
    BY <1>15, <1>16, <2>1 DEF WriteRequest
  <2> QED  BY <2>1, <2>2, <2>3 DEF ClientInv
<1>17. CASE WriteStart
  <2>1. At(cli, << >>, << >>, 7, 4) /\ phase' = "accepted" /\ err = "none"
    BY <1>0, <1>15, <1>17 DEF WriteStart, ClientInv
  <2>2. At(cli, << >>, << >>, 9, 4)'
    BY <1>15, <1>17, <2>1, BlockCounts DEF At, WriteStart
  <2>3. \/ ctlPC' = "ack" /\ err' = "none"
        \/ ctlPC' = "idle" /\ err' # "none"
    BY <1>15, <1>17, <2>1 DEF WriteStart
  <2> QED  BY <2>1, <2>2, <2>3 DEF ClientInv
<1>18. CASE WriteStop
  <2>1. phase = "started" /\ err = "none"
    BY <1>0, <1>15, <1>18 DEF WriteStop, ClientInv
  <2>2. \/ ctlPC' = "idle" /\ err' = "none"
        \/ ctlPC' = "idle" /\ err' # "none"
    BY <1>15, <1>18, <2>1 DEF WriteStop
  <2>3. phase' = IF err' = "none" THEN "stopped" ELSE "started"
    BY <1>18, <2>1 DEF WriteStop
  <2> QED  BY <2>2, <2>3 DEF ClientInv
<1>19. CASE CloseControl  BY <1>2, <1>19 DEF CloseControl
<1>20. CASE Watchdog \/ TimePasses \/ Cancel
  BY <1>1, <1>20 DEF Watchdog, WatchdogCloses, WatchdogEnds, TimePasses, Cancel
<1>21. CASE Server
  BY <1>1, <1>21 DEF Server, ServerGreets, ServerStarts, ServerSendsUptime, ServerAccepts,
                     ServerAcks, ServerAnswers, ServerStops, ServerHangsUp
(* A call that begins: what may be agreed on stays.                        *)
<1>22. CASE CallRequest
  <2>1. At(cli, << >>, <<"uptime">>, 0, 1) /\ phase' = "opened" /\ err = "none"
        /\ ctlPC = "idle"
    BY <1>0, <1>22 DEF CallRequest, Call, ClientInv
  <2>2. CASE FailWith("family")  BY <1>2, <2>1, <2>2 DEF FailWith
  <2>3. CASE Call("request")  BY <2>1, <2>3 DEF Call, ClientInv, At
  <2> QED  BY <1>22, <2>2, <2>3 DEF CallRequest
<1>23. CASE CallStart
  BY <1>0, <1>23 DEF CallStart, Call, ClientInv, At
<1>24. CASE CallStop
  BY <1>0, <1>24 DEF CallStop, Call, ClientInv, At
<1> QED
  BY <1>5, <1>6, <1>7, <1>8, <1>9, <1>10, <1>12, <1>13, <1>14, <1>16, <1>17, <1>18, <1>19,
     <1>20, <1>21, <1>22, <1>23, <1>24 DEF ControlNext, Progress, Calls

-----------------------------------------------------------------------------
(* Every step of an exchange arms its own deadline.                        *)
LEMMA DeadlineStep == ControlInv /\ ControlNext => DeadlineInv'
<1> SUFFICES ASSUME ControlInv, ControlNext PROVE DeadlineInv'  OBVIOUS
<1> USE DEF ctxVars, serverVars, clientVars, wireVars, ServerFrame, Go
<1>0. /\ DeadlineInv /\ deadline \in 0 .. NoDeadline
      /\ ExchangeTimeout \in Nat /\ ExchangeTimeout # NoDeadline
  BY ExchangeTimeoutAssumption DEF ControlInv, TypeInv, NoDeadline
(* A step begins with its deadline armed, or none begins.                  *)
<1>1. ASSUME waited' = 0,
             \/ StepDeadline
             \/ ctlPC' \in {"dial", "undo", "failed", "idle", "closed"}
      PROVE  DeadlineInv'
  <2>1. CASE StepDeadline
    <3>1. deadline' = NoDeadline \/ deadline' = ExchangeTimeout
      BY <2>1 DEF StepDeadline, Armed
    <3> QED  BY <1>0, <1>1, <3>1 DEF DeadlineInv
  <2>2. CASE ctlPC' \in {"dial", "undo", "failed", "idle", "closed"}
    BY <1>1, <2>2 DEF DeadlineInv, InStep, Waiting, Writing
  <2> QED  BY <1>1, <2>1, <2>2
<1>2. ASSUME UNCHANGED <<ctlPC, deadline, waited>> PROVE DeadlineInv'
  BY <1>0, <1>2 DEF DeadlineInv, InStep, Waiting, Writing
<1>3. ASSUME NEW e, FailWith(e) PROVE DeadlineInv'
  BY <1>1, <1>3 DEF FailWith
<1>4. ASSUME NEW msg, NEW next, Write(msg, next) PROVE DeadlineInv'
  BY <1>1, <1>3, <1>4 DEF Write
<1>5. CASE Dial  BY <1>1, <1>5 DEF Dial
<1>6. CASE ReadGreeting  BY <1>1, <1>3, <1>6 DEF ReadGreeting
<1>7. CASE WriteSetUpResponse  BY <1>4, <1>7 DEF WriteSetUpResponse
<1>8. CASE ReadServerStart  BY <1>1, <1>3, <1>8 DEF ReadServerStart
<1>9. CASE ReadUptime \/ UndoSetup  BY <1>1, <1>9 DEF ReadUptime, UndoSetup
<1>10. CASE WriteRequest \/ WriteStart \/ WriteStop
  BY <1>4, <1>10 DEF WriteRequest, WriteStart, WriteStop, WriteMessage
<1>11. CASE ReadAccept \/ ReadAck
  BY <1>1, <1>3, <1>11 DEF ReadAccept, ReadAck, ReadAnswer
<1>12. CASE ReadFails  BY <1>3, <1>12 DEF ReadFails
<1>13. CASE CallRequest  BY <1>1, <1>3, <1>13 DEF CallRequest, Call
<1>14. CASE CallStart \/ CallStop  BY <1>1, <1>14 DEF CallStart, CallStop, Call
<1>15. CASE CloseControl  BY <1>1, <1>15 DEF CloseControl
<1>16. CASE TimePasses
  <2>1. /\ deadline \in 1 .. ExchangeTimeout /\ deadline' = deadline - 1
        /\ waited' = (IF InStep THEN waited + 1 ELSE waited)
        /\ InStep' <=> InStep
    BY <1>16 DEF TimePasses, InStep, Waiting, Writing
  <2>2. deadline # NoDeadline /\ deadline' # NoDeadline  BY <1>0, <2>1 DEF NoDeadline
  <2>3. InStep => waited' = ExchangeTimeout - deadline'
    BY <1>0, <2>1, <2>2 DEF DeadlineInv
  <2> QED  BY <1>0, <2>1, <2>2, <2>3 DEF DeadlineInv
<1>17. CASE Watchdog \/ Cancel
  BY <1>2, <1>17 DEF Watchdog, WatchdogCloses, WatchdogEnds, Cancel
<1>18. CASE Server
  BY <1>2, <1>18 DEF Server, ServerGreets, ServerStarts, ServerSendsUptime, ServerAccepts,
                     ServerAcks, ServerAnswers, ServerStops, ServerHangsUp
<1> QED
  BY <1>5, <1>6, <1>7, <1>8, <1>9, <1>10, <1>11, <1>12, <1>13, <1>14, <1>15, <1>16,
     <1>17, <1>18 DEF ControlNext, Progress, Calls

-----------------------------------------------------------------------------
LEMMA InitInv == ControlInit => ControlInv
<1> SUFFICES ASSUME ControlInit PROVE ControlInv  OBVIOUS
<1>1. TypeInv
  <2>1. NoDeadline \in 0 .. NoDeadline  BY ExchangeTimeoutAssumption DEF NoDeadline
  <2> QED  BY <2>1, ConfigsAssumption, FreshTypes DEF ControlInit, TypeInv, Errs
<1>2. NoMode \notin Modes  BY DEF NoMode, Modes
<1>3. ModeInv  BY DEF ControlInit, ModeInv
<1>4. WireInv  BY DEF ControlInit, WireInv
<1>5. ClientInv  BY DEF ControlInit, ClientInv, InSetup, May
<1>6. ServerInv  BY DEF ControlInit, ServerInv
<1>7. ReleaseInv  BY DEF ControlInit, ReleaseInv, InSetup
<1>8. DeadlineInv  BY DEF ControlInit, DeadlineInv
<1> QED  BY <1>1, <1>3, <1>4, <1>5, <1>6, <1>7, <1>8 DEF ControlInv, AgreeInv

LEMMA StutterInv == ControlInv /\ UNCHANGED controlVars => ControlInv'
<1> SUFFICES ASSUME ControlInv, UNCHANGED controlVars PROVE ControlInv'  OBVIOUS
<1> USE DEF controlVars, ctxVars, serverVars, clientVars, wireVars
<1>1. TypeInv'  BY DEF ControlInv, TypeInv
<1>2. ModeInv'  BY DEF ControlInv, AgreeInv, ModeInv, Strongest, Offers
<1>3. WireInv'  BY DEF ControlInv, AgreeInv, WireInv, ToServer, ToClient, Clear, Sealed
<1>4. ClientInv'  BY DEF ControlInv, AgreeInv, ClientInv, InSetup, May, At
<1>5. ServerInv'  BY DEF ControlInv, AgreeInv, ServerInv, At
<1>6. ReleaseInv'  BY DEF ControlInv, ReleaseInv, InSetup
<1>7. DeadlineInv'  BY DEF ControlInv, DeadlineInv, InStep, Waiting, Writing
<1> QED  BY <1>1, <1>2, <1>3, <1>4, <1>5, <1>6, <1>7 DEF ControlInv, AgreeInv

LEMMA StepInv == ControlInv /\ [ControlNext \/ ControlOver]_controlVars => ControlInv'
<1>1. ControlInv /\ ControlNext => ControlInv'
  BY TypeStep, ModeStep, WireStep, ClientStep, ServerStep, ReleaseStep, DeadlineStep
     DEF ControlInv, AgreeInv
<1> QED  BY <1>1, StutterInv DEF ControlOver

(* The inductive invariant: the place in the chains and the texts of every  *)
(* message, the modes, what a failed handshake leaves, and whose deadline  *)
(* is set (control.go:126-576).                                            *)
THEOREM ControlInvariant == ControlSpec => []ControlInv
BY InitInv, StepInv, PTL DEF ControlSpec

(* What the invariant says of the errors, the mode and the connection.     *)
LEMMA InvSays ==
  ControlInv => PeersAgree /\ ModeAgreed /\ CancelIsReported /\ FailedSetupReleases
<1> SUFFICES ASSUME ControlInv
             PROVE  PeersAgree /\ ModeAgreed /\ CancelIsReported /\ FailedSetupReleases
  OBVIOUS
<1>1. err # "hmac"  BY DEF ControlInv, TypeInv, Errs, Codes
<1>2. srvPC # "rejected"  BY DEF ControlInv, TypeInv
<1>3. ModeAgreed
  BY DEF ControlInv, AgreeInv, ModeInv, Strongest, ModeAgreed
<1>4. CancelIsReported /\ FailedSetupReleases
  BY DEF ControlInv, ReleaseInv, CancelIsReported, FailedSetupReleases
<1> QED  BY <1>1, <1>2, <1>3, <1>4 DEF PeersAgree

(* Neither end ever refuses the HMAC of the other or reads a message at    *)
(* another place of the CBC chain than it was written at, in any mode and  *)
(* at any point of the exchanges (control.go:393-419, 481-576).            *)
THEOREM ControlPeersAgree == ControlSpec => []PeersAgree
BY ControlInvariant, InvSays, PTL

(* The server works in the client's mode, the strongest both know, for     *)
(* every set of modes the two may offer (control.go:232-254, 355-364).     *)
THEOREM ControlModeAgreed == ControlSpec => []ModeAgreed
BY ControlInvariant, InvSays, PTL

(* Only a read or a write whose deadline is over times out.                *)
LEMMA TimeoutsAreDue ==
  ASSUME ControlInv, ControlNext, err' = "timeout", err # "timeout"
  PROVE  InStep /\ deadline = 0
<1> USE DEF ctxVars, serverVars, clientVars, wireVars, ServerFrame
<1>1. ASSUME NEW e, FailWith(e) PROVE err' = e  BY <1>1 DEF FailWith
<1>2. ASSUME NEW msg, NEW next, Write(msg, next) PROVE deadline = 0
  BY <1>1, <1>2 DEF Write
<1>3. CASE WriteSetUpResponse \/ WriteRequest \/ WriteStart \/ WriteStop
  BY <1>2, <1>3 DEF WriteSetUpResponse, WriteRequest, WriteStart, WriteStop, WriteMessage,
                    InStep, Writing
<1>4. CASE ReadFails  BY <1>1, <1>4 DEF ReadFails, InStep
<1>5. Head(toClient).code # "timeout" \/ ~ (ReadServerStart \/ ReadAccept \/ ReadAck)
  <2>1. Head(toClient).code \in Codes \/ ~ (ReadServerStart \/ ReadAccept \/ ReadAck)
    BY ClientReads, ToClientKinds
       DEF ReadServerStart, ReadAccept, ReadAck, ReadAnswer, ControlInv, AgreeInv
  <2> QED  BY <2>1 DEF Codes
<1>6. ~ (Dial \/ ReadGreeting \/ ReadServerStart \/ ReadUptime \/ UndoSetup \/ ReadAccept
           \/ ReadAck)
  BY <1>1, <1>5 DEF Dial, ReadGreeting, ReadServerStart, ReadUptime, UndoSetup, ReadAccept,
                    ReadAck, ReadAnswer
<1>7. ~ (Calls \/ Watchdog \/ Server \/ TimePasses \/ Cancel)
  BY <1>1 DEF Calls, CallRequest, CallStart, CallStop, Call, CloseControl, Watchdog,
       WatchdogCloses, WatchdogEnds, TimePasses, Cancel, Server, ServerGreets, ServerStarts,
       ServerSendsUptime, ServerAccepts, ServerAcks, ServerAnswers, ServerStops,
       ServerHangsUp
<1> QED  BY <1>3, <1>4, <1>6, <1>7 DEF ControlNext, Progress

(* A read or a write that times out has had the whole exchange timeout for *)
(* itself: no deadline outlives the step it was armed for, whatever the    *)
(* timeout is (control.go:204-209).                                        *)
THEOREM ControlNoStaleDeadline == ControlSpec => NoStaleDeadline
<1>1. ControlInv /\ [ControlNext \/ ControlOver]_controlVars
        => [err' = "timeout" => err = "timeout" \/ waited = ExchangeTimeout]_controlVars
  <2> SUFFICES ASSUME ControlInv, ControlNext, err' = "timeout", err # "timeout"
               PROVE  waited = ExchangeTimeout
    BY DEF ControlOver
  <2>1. InStep /\ deadline = 0  BY TimeoutsAreDue
  <2>2. deadline # NoDeadline  BY <2>1, ExchangeTimeoutAssumption DEF NoDeadline
  <2> QED  BY <2>1, <2>2, ExchangeTimeoutAssumption DEF ControlInv, DeadlineInv
<1> QED  BY <1>1, ControlInvariant, PTL DEF ControlSpec, NoStaleDeadline

(* A handshake that a cancellation cut off says so (control.go:172-178).   *)
THEOREM ControlCancelIsReported == ControlSpec => []CancelIsReported
BY ControlInvariant, InvSays, PTL

(* A failed handshake leaves no connection, and a watchdog only to end     *)
(* (control.go:171-172).                                                   *)
THEOREM ControlFailedSetupReleases == ControlSpec => []FailedSetupReleases
BY ControlInvariant, InvSays, PTL

-----------------------------------------------------------------------------
(* How many messages the client may still have to read: those on their way *)
(* and those the server will send before it waits for the client.          *)
Owed ==
  CASE srvPC = "greet" -> 1 + 2 * Len(toServer)
    [] srvPC = "response" -> 2 * Len(toServer)
    [] srvPC = "uptime" -> 1 + Len(toServer)
    [] OTHER -> Len(toServer)

Outstanding == Len(toClient) + Owed

FlowInv ==
  /\ Len(toServer) <= 1 /\ Outstanding <= 2
  /\ ctlPC \in {"dial", "greeting", "uptime", "accept", "ack"} => Outstanding <= 1
  /\ Writing \/ May("opened") \/ May("accepted") \/ May("started") => Outstanding = 0
  /\ srvPC \in {"greet", "response"} =>
       \A k \in DOMAIN toClient : toClient[k].kind = "greeting"
  /\ ctlPC \in {"uptime", "idle", "request", "accept", "start", "ack", "stop"} =>
       srvPC \notin {"greet", "response"}

LEMMA FlowStep == ControlInv /\ FlowInv /\ ControlNext => FlowInv'
<1> SUFFICES ASSUME ControlInv, FlowInv, ControlNext PROVE FlowInv'  OBVIOUS
<1> USE DEF ctxVars, serverVars, clientVars, wireVars, ServerFrame, InSetup, May, Go, Writing
<1>0. /\ FlowInv /\ ModeInv /\ ClientInv /\ WireInv
      /\ Len(toServer) \in Nat /\ Len(toClient) \in Nat /\ Owed \in Nat
  <2>1. WireInv  BY DEF ControlInv, AgreeInv
  <2>2. Len(toServer) \in Nat /\ Len(toClient) \in Nat  BY <2>1 DEF WireInv
  <2>3. Owed \in Nat  BY <2>2 DEF Owed
  <2> QED  BY <2>1, <2>2, <2>3 DEF ControlInv, AgreeInv
(* Nothing goes to or fro; a call begins only where it may.                *)
<1>1. ASSUME UNCHANGED <<toServer, toClient, srvPC>>,
             \/ ctlPC' \in {"undo", "failed", "closed"}
             \/ ctlPC' = "idle" /\ err' # "none"
                  /\ ctlPC \in {"idle", "request", "accept", "start", "ack", "stop"}
             \/ (May("opened") \/ May("accepted") \/ May("started"))
                  /\ ctlPC' \in {"request", "start", "stop"}
             \/ ctlPC = "dial" /\ ctlPC' = "greeting"
             \/ UNCHANGED <<ctlPC, err, phase>>
      PROVE  FlowInv'
  BY <1>0, <1>1 DEF FlowInv, Outstanding, Owed
(* The client reads a message.                                             *)
<1>2. ASSUME NEW kind, CanRead(kind), UNCHANGED <<toServer, srvPC>>,
             \/ ctlPC' \in {"undo", "failed", "closed"}
             \/ ctlPC = "greeting" /\ ctlPC' = "response"
             \/ ctlPC = "serverStart" /\ ctlPC' = "uptime" /\ kind = "serverStart"
             \/ ctlPC \in {"uptime", "accept", "ack"} /\ ctlPC' = "idle"
      PROVE  FlowInv'
  <2>1. /\ toClient # << >> /\ Head(toClient).kind = kind /\ toClient' = Tail(toClient)
        /\ toClient \in Seq(ToClient)
    BY <1>0, <1>2 DEF CanRead, WireInv
  <2>2. /\ Len(toClient') \in Nat /\ Len(toClient') = Len(toClient) - 1
        /\ 1 \in DOMAIN toClient /\ toClient[1].kind = kind
        /\ \A k \in DOMAIN toClient' : k + 1 \in DOMAIN toClient /\ toClient'[k] = toClient[k + 1]
    BY <2>1
  <2>3. Owed' = Owed  BY <1>2 DEF Owed
  <2>4. Outstanding' = Outstanding - 1 /\ Outstanding \in Nat /\ Outstanding' \in Nat
    BY <1>0, <2>2, <2>3 DEF Outstanding
  <2>5. kind = "serverStart" => srvPC \notin {"greet", "response"}
    BY <1>0, <2>2 DEF FlowInv
  <2>6. srvPC \in {"greet", "response"} =>
          \A k \in DOMAIN toClient' : toClient'[k].kind = "greeting"
    BY <1>0, <2>2 DEF FlowInv
  <2>7. Len(toServer') <= 1  BY <1>0, <1>2 DEF FlowInv
  <2>8. Outstanding' <= 1
        /\ (ctlPC \in {"greeting", "uptime", "accept", "ack"} => Outstanding' = 0)
    BY <1>0, <2>4 DEF FlowInv
  <2>9. ctlPC' \in {"uptime", "idle"} => srvPC \notin {"greet", "response"}
    BY <1>0, <1>2, <2>5 DEF FlowInv
  <2> QED  BY <1>2, <2>4, <2>6, <2>7, <2>8, <2>9 DEF FlowInv
(* The client writes a message, with nothing outstanding.                  *)
<1>3. ASSUME NEW msg, NEW next \in {"serverStart", "accept", "ack", "idle"},
             Write(msg, next), UNCHANGED <<toClient, srvPC>>, Outstanding = 0,
             \/ ctlPC = "response" /\ next = "serverStart"
             \/ ctlPC \in {"request", "start"} /\ next \in {"accept", "ack"}
             \/ ctlPC = "stop" /\ next = "idle" /\ (err' = "none" => phase' = "stopped")
      PROVE  FlowInv'
  <2>1. CASE UNCHANGED toServer /\ \E e : FailWith(e) /\ e # "none"
    BY <1>0, <1>1, <1>3, <2>1 DEF FailWith
  <2>2. CASE toServer' = Append(toServer, msg) /\ ctlPC' = next /\ UNCHANGED err
    <3>1. Len(toServer) = 0 /\ Len(toClient) = 0 /\ srvPC \notin {"greet", "uptime"}
      BY <1>0, <1>3 DEF Outstanding, Owed
    <3>2. Len(toServer') = 1 /\ Len(toClient') = 0
      BY <1>0, <1>3, <2>2, <3>1 DEF WireInv
    <3>3. Outstanding' = IF srvPC = "response" THEN 2 ELSE 1
      BY <1>3, <3>1, <3>2 DEF Outstanding, Owed
    <3>4. srvPC = "response" => ctlPC = "response"
      BY <1>0, <1>3 DEF FlowInv
    <3>5. \A k \in DOMAIN toClient' : toClient'[k].kind = "greeting"
      BY <1>0, <3>2, <1>3 DEF WireInv
    <3> QED  BY <1>3, <2>2, <3>1, <3>2, <3>3, <3>4, <3>5 DEF FlowInv
  <2> QED  BY <1>3, <2>1, <2>2 DEF Write
(* The server moves on: what it sends it owed.                             *)
<1>4. ASSUME UNCHANGED <<ctlPC, err, phase>>, toServer' \in {toServer, Tail(toServer)},
             toServer = << >> => toServer' = toServer,
             Outstanding' \in Nat, Outstanding' <= Outstanding,
             srvPC' \in {"greet", "response"} =>
               /\ srvPC \in {"greet", "response"}
               /\ \A k \in DOMAIN toClient' : toClient'[k].kind = "greeting"
      PROVE  FlowInv'
  <2>1. Len(toServer') <= 1
    <3>1. CASE toServer = << >>  BY <1>0, <1>4, <3>1 DEF FlowInv
    <3>2. CASE toServer # << >>
      <4>1. Len(Tail(toServer)) <= Len(toServer)  BY <1>0, <3>2 DEF WireInv
      <4> QED  BY <1>0, <1>4, <4>1 DEF FlowInv
    <3> QED  BY <3>1, <3>2
  <2>2. Outstanding \in Nat  BY <1>0 DEF Outstanding
  <2> QED  BY <1>0, <1>4, <2>1, <2>2 DEF FlowInv
<1>5. ASSUME NEW pc, NEW kind, ServerTakes(pc, kind)
      PROVE  /\ Len(toServer) = 1 /\ Len(toServer') = 0 /\ srvPC = pc
             /\ toServer' = Tail(toServer) /\ toServer # << >>
  <2>1. toServer # << >> /\ toServer \in Seq(ToServer) /\ toServer' = Tail(toServer)
        /\ srvPC = pc /\ Len(toServer) <= 1
    BY <1>0, <1>5 DEF ServerTakes, FlowInv, WireInv
  <2>2. Len(toServer) >= 1 /\ Len(Tail(toServer)) = Len(toServer) - 1  BY <2>1
  <2> QED  BY <1>0, <2>1, <2>2
<1>6. ASSUME NEW m, toClient' = Append(toClient, m)
      PROVE  /\ Len(toClient') = Len(toClient) + 1
             /\ \A k \in DOMAIN toClient' : toClient'[k] = m \/
                  (k \in DOMAIN toClient /\ toClient'[k] = toClient[k])
  BY <1>0, <1>6 DEF WireInv
<1>7. CASE Dial  BY <1>1, <1>7 DEF Dial
<1>8. CASE ReadGreeting
  BY <1>2, <1>8 DEF ReadGreeting, FailWith
<1>9. CASE WriteSetUpResponse
  BY <1>0, <1>3, <1>9 DEF WriteSetUpResponse, FlowInv
<1>10. CASE ReadServerStart
  BY <1>2, <1>10 DEF ReadServerStart, FailWith
<1>11. CASE ReadUptime  BY <1>2, <1>11 DEF ReadUptime
<1>12. CASE UndoSetup  BY <1>1, <1>12 DEF UndoSetup
<1>13. CASE ReadAccept \/ ReadAck
  <2>1. ctlPC' = "idle" /\ \E kind : CanRead(kind)
    BY <1>13 DEF ReadAccept, ReadAck, ReadAnswer, FailWith
  <2> QED  BY <1>2, <1>13, <2>1 DEF ReadAccept, ReadAck, ReadAnswer
<1>14. CASE ReadFails
  BY <1>1, <1>14 DEF ReadFails, Waiting, FailWith
<1>15. CASE WriteRequest \/ WriteStart
  <2>1. Outstanding = 0 /\ ctlPC \in {"request", "start"}
    BY <1>0, <1>15 DEF WriteRequest, WriteStart, WriteMessage, FlowInv
  <2> QED  BY <1>3, <1>15, <2>1 DEF WriteRequest, WriteStart, WriteMessage
<1>16. CASE WriteStop
  <2>1. Outstanding = 0 /\ ctlPC = "stop"
    BY <1>0, <1>16 DEF WriteStop, WriteMessage, FlowInv
  <2>2. err' = "none" => phase' = "stopped"  BY <1>16 DEF WriteStop
  <2> QED  BY <1>3, <1>16, <2>1, <2>2 DEF WriteStop, WriteMessage
<1>17. CASE CallRequest \/ CallStart \/ CallStop
  BY <1>1, <1>17 DEF CallRequest, CallStart, CallStop, Call, FailWith
<1>18. CASE CloseControl  BY <1>1, <1>18 DEF CloseControl
<1>19. CASE Watchdog \/ TimePasses \/ Cancel
  BY <1>1, <1>19 DEF Watchdog, WatchdogCloses, WatchdogEnds, TimePasses, Cancel
<1>20. CASE ServerGreets
  <2>1. PICK m : toClient' = Append(toClient, m) /\ m.kind = "greeting"
    BY <1>20 DEF ServerGreets, Message
  <2>2. srvPC = "greet" /\ srvPC' = "response" /\ UNCHANGED <<toServer, ctlPC, err, phase>>
    BY <1>20 DEF ServerGreets
  <2>3. Owed = 1 + 2 * Len(toServer) /\ Owed' = 2 * Len(toServer)  BY <2>2 DEF Owed
  <2>4. Outstanding' = Outstanding /\ Outstanding \in Nat
    BY <1>0, <1>6, <2>1, <2>3 DEF Outstanding
  <2>5. \A k \in DOMAIN toClient' : toClient'[k].kind = "greeting"
    BY <1>0, <1>6, <2>1, <2>2 DEF FlowInv
  <2> QED  BY <1>0, <1>4, <2>2, <2>4, <2>5
<1>21. CASE ServerStarts
  <2>1. ServerTakes("response", "response")  BY <1>21 DEF ServerStarts
  <2>2. PICK m : toClient' = Append(toClient, m)  BY <1>21 DEF ServerStarts
  <2>3. srvPC = "response" /\ srvPC' \in {"uptime", "refused"} /\ UNCHANGED <<ctlPC, err, phase>>
    BY <1>21, <2>1 DEF ServerStarts, ServerTakes
  <2>4. Len(toServer) = 1 /\ Len(toServer') = 0 /\ toServer' = Tail(toServer)
        /\ toServer # << >>
    BY <1>5, <2>1
  <2>5. Owed = 2 /\ Owed' \in {0, 1}  BY <2>3, <2>4 DEF Owed
  <2>6. Outstanding' \in Nat /\ Outstanding' <= Outstanding
    BY <1>0, <1>6, <2>2, <2>5 DEF Outstanding
  <2> QED  BY <1>4, <2>3, <2>4, <2>6
<1>22. CASE ServerSendsUptime
  BY <1>0, <1>4, <1>6, <1>22 DEF ServerSendsUptime, Outstanding, Owed
<1>23. ASSUME NEW k \in {"request", "start"}, NEW answer, NEW codes, NEW next \in {"start", "stop"},
              ServerAnswers(k, answer, codes, next)
       PROVE  FlowInv'
  <2>1. ServerTakes(k, k)  BY <1>23 DEF ServerAnswers
  <2>2. UNCHANGED toClient \/ \E m : toClient' = Append(toClient, m)
    BY <1>23 DEF ServerAnswers
  <2>3. srvPC' \in {"rejected", "refused", "start", "stop"} /\ UNCHANGED <<ctlPC, err, phase>>
    BY <1>23 DEF ServerAnswers
  <2> QED  BY <1>0, <1>4, <1>5, <1>6, <1>23, <2>1, <2>2, <2>3 DEF Outstanding, Owed
<1>24. CASE ServerStops
  <2>1. ServerTakes("stop", "stop")  BY <1>24 DEF ServerStops
  <2> QED  BY <1>0, <1>4, <1>5, <1>24, <2>1 DEF ServerStops, Outstanding, Owed
<1>25. CASE ServerHangsUp  BY <1>1, <1>25 DEF ServerHangsUp
<1>26. Progress => FlowInv'
  BY <1>7, <1>8, <1>9, <1>10, <1>11, <1>12, <1>13, <1>14, <1>15, <1>16 DEF Progress
<1>27. Calls => FlowInv'  BY <1>17, <1>18 DEF Calls
<1>28. Server => FlowInv'
  BY <1>20, <1>21, <1>22, <1>23, <1>24, <1>25 DEF Server, ServerAccepts, ServerAcks
<1> QED  BY <1>19, <1>26, <1>27, <1>28 DEF ControlNext

(* The values of the state of both ends, and how much is on its way: at    *)
(* most one message to the server and two to the client                    *)
(* (control.go:211-351, 421-576).                                          *)
THEOREM ControlTypes == ControlSpec => []ControlTypeOK
<1>1. ControlInit => FlowInv
  BY DEF ControlInit, FlowInv, Outstanding, Owed, May, Writing
<1>2. ControlInv /\ FlowInv /\ [ControlNext \/ ControlOver]_controlVars => FlowInv'
  BY FlowStep DEF ControlOver, controlVars, clientVars, ctxVars, wireVars, serverVars,
     FlowInv, Outstanding, Owed, May, Writing
<1>3. ControlInv /\ FlowInv => ControlTypeOK
  <2> SUFFICES ASSUME ControlInv, FlowInv PROVE ControlTypeOK  OBVIOUS
  <2>1. Len(toServer) \in Nat /\ Len(toClient) \in Nat
    BY DEF ControlInv, AgreeInv, WireInv
  <2>2. Owed \in Nat  BY <2>1 DEF Owed
  <2>3. Len(toServer) <= 1 /\ Len(toClient) <= 2  BY <2>1, <2>2 DEF FlowInv, Outstanding
  <2>4. mode \in Modes \cup {NoMode} /\ srvMode \in Modes \cup {NoMode}
    BY DEF ControlInv, AgreeInv, ModeInv
  <2>5. waited \in 0 .. ExchangeTimeout
    BY ExchangeTimeoutAssumption DEF ControlInv, TypeInv, DeadlineInv, NoDeadline
  <2> QED  BY <2>3, <2>4, <2>5 DEF ControlInv, TypeInv, Errs, ControlTypeOK
<1> QED  BY <1>1, <1>2, <1>3, InitInv, StepInv, PTL DEF ControlSpec
================================================================================
