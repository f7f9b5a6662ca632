----------------------------- MODULE TestSession -----------------------------
(***************************************************************************)
(* One client test session: owamp/session.go, Session.Run and the two      *)
(* goroutines it starts, send and receive, with the UDP socket, the path   *)
(* to the reflector and back, the record sink and the clock around them.   *)
(*                                                                         *)
(* Times are whole units of an explicit clock.  The schedule is given: it  *)
(* is fixed before the goroutines start.  A test packet on the path is     *)
(* only the number of replies it may still produce.                        *)
(***************************************************************************)
EXTENDS Naturals, Sequences

CONSTANTS
  NPackets,       \* TestSpec.NPackets
  When,           \* pktState.when of every packet
  LossTimeout,    \* TestSpec.LossTimeout
  RxCap,          \* capacity of the rx channel (1024 in the code)
  StartTimes,     \* what the clock may show when Run starts
  MaxTime,        \* bound of the clock
  MaxCopies,      \* bound on the replies one sent packet produces
  Stray,          \* replies nobody asked for, by the number they carry
  SinkMayFail,    \* may the RecordSink return an error?
  SocketMayFail   \* may a read fail otherwise than by a timeout or a close?

Pkts == 0 .. NPackets - 1
Seqs == 0 .. NPackets          \* NPackets stands for every number outside Pkts

ASSUME NPacketsAssumption == NPackets \in Nat \ {0}
ASSUME WhenAssumption ==
  /\ When \in [Pkts -> Nat]
  /\ \A p, q \in Pkts : p <= q => When[p] <= When[q]
ASSUME LossTimeoutAssumption == LossTimeout \in Nat
ASSUME RxCapAssumption == RxCap \in Nat \ {0}
ASSUME TimeAssumption ==
  /\ MaxTime \in Nat
  /\ StartTimes \subseteq 0 .. MaxTime
  /\ When[NPackets - 1] + LossTimeout < MaxTime
ASSUME PathAssumption == MaxCopies \in Nat /\ Stray \in [Seqs -> Nat]
ASSUME FlagAssumption == SinkMayFail \in BOOLEAN /\ SocketMayFail \in BOOLEAN

VARIABLES
  now,            \* the clock every goroutine reads
  open,           \* the UDP socket has not been closed
  readDeadline,   \* SetReadDeadline(time.Now()) has been called
  net,            \* replies under way, by the sequence number they carry
  rx,             \* the rx channel
  stopRx,         \* the stopRx channel is closed
  sendErr,        \* the sendErr channel (capacity 1)
  tick,           \* ticker.C: at most one tick, with the time it was made
  hit, closed,    \* the two flags of pktState
  resolved,       \* smallest number not yet accounted for
  runPC,          \* where Run is
  flushing,       \* why it is flushing
  flushNow,       \* the time its flush was given
  sendDone, sendFailure,
  result,         \* what Run returns
  records,        \* what the sink has accepted, in order
  sndPC, sndNext, \* where send is and the packet it works on
  sent,           \* packets written to the socket
  skipped,        \* packets send gave up as too late
  rcvPC, rcvItem  \* where receive is and the item it holds

clockVars == <<now>>
sockVars  == <<open, readDeadline>>
chanVars  == <<rx, stopRx, sendErr, tick>>
pktVars   == <<hit, closed, resolved, records>>
runVars   == <<runPC, flushing, flushNow, sendDone, sendFailure, result>>
sndVars   == <<sndPC, sndNext, sent, skipped>>
rcvVars   == <<rcvPC, rcvItem>>
vars == <<clockVars, sockVars, net, chanVars, pktVars, runVars, sndVars, rcvVars>>

NoErr   == "nil"
Errors  == {"setup", "errClosed"}                  \* what send may return
Reply(s)   == [kind |-> "rec", seq |-> s]
Failure(e) == [kind |-> e, seq |-> NPackets]
Items == {Reply(s) : s \in Seqs} \cup {Failure("errClosed"), Failure("other")}
Record == [seq : Pkts, lost : BOOLEAN]
NoTick == MaxTime + 1

Deadline      == When[NPackets - 1] + LossTimeout  \* lastSend.Add(timeout)
ExpiredAtSend(p, t) == t >= When[p]                \* mutant of Expired
Expired(p, t) == t >= When[p] + LossTimeout        \* ~ Before
TooLate(p, t) == t > When[p] + LossTimeout         \* After

-----------------------------------------------------------------------------
Init ==
  /\ now \in StartTimes
  /\ open = TRUE
  /\ readDeadline = FALSE
  /\ net = Stray
  /\ rx = << >>
  /\ stopRx = FALSE
  /\ sendErr = << >>
  /\ tick = NoTick
  /\ hit = [p \in Pkts |-> FALSE]
  /\ closed = [p \in Pkts |-> FALSE]
  /\ resolved = 0
  /\ records = << >>
  /\ runPC = "select"
  /\ flushing = "no"
  /\ flushNow = 0
  /\ sendDone = FALSE
  /\ sendFailure = NoErr
  /\ result = "none"
  /\ sndPC = "setup"
  /\ sndNext = 0
  /\ sent = {}
  /\ skipped = {}
  /\ rcvPC = "check"
  /\ rcvItem = Reply(NPackets)

-----------------------------------------------------------------------------
(* The surroundings: time, the ticker of 50 ms, and the owner of the       *)
(* session, who may close the socket at any moment.                        *)

Tick ==
  /\ now < MaxTime
  /\ now' = now + 1
  /\ UNCHANGED <<sockVars, net, chanVars, pktVars, runVars, sndVars, rcvVars>>

(* A tick nobody has taken yet keeps the time at which it was made.        *)
TickerFires ==
  /\ tick = NoTick
  /\ tick' = now
  /\ UNCHANGED <<clockVars, sockVars, net, rx, stopRx, sendErr, pktVars,
                 runVars, sndVars, rcvVars>>

Close ==
  /\ open
  /\ open' = FALSE
  /\ UNCHANGED <<clockVars, readDeadline, net, chanVars, pktVars, runVars,
                 sndVars, rcvVars>>

-----------------------------------------------------------------------------
(* Session.Run                                                             *)

(* Mutant of LoopTest: the last packet is forgotten.                       *)
LoopTestOffByOne == IF resolved < NPackets - 1 THEN "select" ELSE "await"

(* The test of the loop "for resolved < spec.NPackets".                    *)
LoopTest == IF resolved < NPackets THEN "select" ELSE "await"

(* Every return of Run goes on to its deferred calls.                      *)
Return(res) ==
  /\ result' = res
  /\ runPC' = "stop"
  /\ flushing' = "no"

StartFlush(why, t) ==
  /\ runPC' = "flush"
  /\ flushing' = why
  /\ flushNow' = t

TakeRx(item) ==
  /\ runPC = "select"
  /\ rx # << >>
  /\ item = Head(rx)
  /\ rx' = Tail(rx)
  /\ UNCHANGED <<clockVars, sockVars, net, stopRx, sendErr, tick, closed,
                 resolved, sendDone, sendFailure, sndVars, rcvVars>>

(* Mutant of OutOfWindow: closed packets still accept answers.             *)
OutOfRange(s) == s \notin Pkts

(* A reply outside the window: an unknown number or a closed packet.       *)
OutOfWindow(s) == s \in Pkts => closed[s]

RunDropsReply(s) ==
  /\ TakeRx(Reply(s))
  /\ OutOfWindow(s)
  /\ UNCHANGED <<hit, records, runPC, flushing, flushNow, result>>

RunTakesReply(s) ==
  /\ TakeRx(Reply(s))
  /\ ~ OutOfWindow(s)
  /\ hit' = [hit EXCEPT ![s] = TRUE]
  /\ records' = Append(records, [seq |-> s, lost |-> FALSE])
  /\ StartFlush("rx", now)
  /\ UNCHANGED result

(* The same reply when the sink returns an error.                          *)
RunReplySinkFails(s) ==
  /\ SinkMayFail
  /\ TakeRx(Reply(s))
  /\ ~ OutOfWindow(s)
  /\ hit' = [hit EXCEPT ![s] = TRUE]
  /\ Return("sink")
  /\ UNCHANGED <<records, flushNow>>

(* isFatalRx: only a closed socket ends the session.                       *)
RunIgnoresRxError ==
  /\ TakeRx(Failure("other"))
  /\ UNCHANGED <<hit, records, runPC, flushing, flushNow, result>>

(* Mutants of RunFatalRxError: return at once, or ignore it as well.       *)
RunFatalRxReturns ==
  /\ TakeRx(Failure("errClosed"))
  /\ Return(sendFailure)
  /\ UNCHANGED <<hit, records, flushNow>>

RunFatalRxIgnored ==
  /\ TakeRx(Failure("errClosed"))
  /\ UNCHANGED <<hit, records, runPC, flushing, flushNow, result>>

RunFatalRxError ==
  /\ TakeRx(Failure("errClosed"))
  /\ StartFlush("fatal", now)
  /\ UNCHANGED <<hit, records, result>>

(* sendErr is set to nil once it has been read: sendDone stands for that.  *)
RunSendDone ==
  /\ runPC \in {"select", "await"}
  /\ ~ sendDone
  /\ sendErr # << >>
  /\ sendErr' = Tail(sendErr)
  /\ sendDone' = TRUE
  /\ sendFailure' = Head(sendErr)
  /\ UNCHANGED <<clockVars, sockVars, net, rx, stopRx, tick, pktVars, runPC,
                 flushing, flushNow, result, sndVars, rcvVars>>

RunTick ==
  /\ runPC = "select"
  /\ tick # NoTick
  /\ tick' = NoTick
  /\ StartFlush("tick", tick)
  /\ UNCHANGED <<clockVars, sockVars, net, rx, stopRx, sendErr, pktVars,
                 sendDone, sendFailure, result, sndVars, rcvVars>>

(* flush looks at the time it was given, flushAll does not.                *)
FlushDue ==
  /\ runPC = "flush"
  /\ resolved < NPackets
  /\ flushing \in {"rx", "tick"} => Expired(resolved, flushNow)

(* Mutant of CloseResolved: the flag is not set.                           *)
CountResolved == resolved' = resolved + 1 /\ UNCHANGED closed

CloseResolved ==
  /\ closed' = [closed EXCEPT ![resolved] = TRUE]
  /\ resolved' = resolved + 1

FlushAnswered ==
  /\ FlushDue
  /\ hit[resolved]
  /\ CloseResolved
  /\ UNCHANGED <<clockVars, sockVars, net, chanVars, hit, records, runVars,
                 sndVars, rcvVars>>

FlushLost ==
  /\ FlushDue
  /\ ~ hit[resolved]
  /\ records' = Append(records, [seq |-> resolved, lost |-> TRUE])
  /\ CloseResolved
  /\ UNCHANGED <<clockVars, sockVars, net, chanVars, hit, runVars, sndVars,
                 rcvVars>>

FlushSinkFails ==
  /\ SinkMayFail
  /\ FlushDue
  /\ ~ hit[resolved]
  /\ Return("sink")
  /\ UNCHANGED <<clockVars, sockVars, net, chanVars, pktVars, flushNow,
                 sendDone, sendFailure, sndVars, rcvVars>>

(* What follows a flush: the loop test after a reply, flushAll after the   *)
(* last tick, the test of sendFailure after the others, the end after a    *)
(* fatal error.                                                            *)
FlushEnd ==
  /\ runPC = "flush"
  /\ ~ FlushDue
  /\ IF flushing = "fatal"
       THEN Return(sendFailure)
     ELSE IF flushing = "tick" /\ sendDone /\ flushNow > Deadline
       THEN flushing' = "late" /\ UNCHANGED <<runPC, result>>
     ELSE IF flushing \in {"tick", "late"} /\ sendDone /\ sendFailure # NoErr
       THEN Return(sendFailure)
     ELSE runPC' = LoopTest /\ flushing' = "no" /\ UNCHANGED result
  /\ UNCHANGED <<clockVars, sockVars, net, chanVars, pktVars, flushNow,
                 sendDone, sendFailure, sndVars, rcvVars>>

(* After the loop Run waits for send, then returns what it said.           *)
RunReturns ==
  /\ runPC = "await"
  /\ sendDone
  /\ Return(sendFailure)
  /\ UNCHANGED <<clockVars, sockVars, net, chanVars, pktVars, flushNow,
                 sendDone, sendFailure, sndVars, rcvVars>>

(* The deferred function: close(stopRx), then unblock the pending read.    *)
RunStopsRx ==
  /\ runPC = "stop"
  /\ stopRx' = TRUE
  /\ runPC' = "unblock"
  /\ UNCHANGED <<clockVars, sockVars, net, rx, sendErr, tick, pktVars,
                 flushing, flushNow, sendDone, sendFailure, result, sndVars,
                 rcvVars>>

RunUnblocksRead ==
  /\ runPC = "unblock"
  /\ readDeadline' = TRUE
  /\ runPC' = "returned"
  /\ UNCHANGED <<clockVars, open, net, chanVars, pktVars, flushing, flushNow,
                 sendDone, sendFailure, result, sndVars, rcvVars>>

Run == \/ \E s \in Seqs : \/ RunDropsReply(s)
                          \/ RunTakesReply(s)
                          \/ RunReplySinkFails(s)
       \/ RunIgnoresRxError
       \/ RunFatalRxError
       \/ RunSendDone
       \/ RunTick
       \/ FlushAnswered
       \/ FlushLost
       \/ FlushSinkFails
       \/ FlushEnd
       \/ RunReturns
       \/ RunStopsRx
       \/ RunUnblocksRead

-----------------------------------------------------------------------------
(* Session.send                                                            *)

(* Mutant of SendReturns: only an error is sent.                           *)
SendReturnsError(err) ==
  /\ IF err = NoErr THEN UNCHANGED sendErr ELSE sendErr' = Append(sendErr, err)
  /\ sndPC' = "done"

SendReturns(err) ==
  /\ sendErr' = Append(sendErr, err)
  /\ sndPC' = "done"

(* The random padding is drawn before the first packet, and rand.Read may  *)
(* end send there.  The error of an unknown mode is left out: selectMode   *)
(* returns none (control.go:355-364).                                      *)
SendSetup ==
  /\ sndPC = "setup"
  /\ \/ sndPC' = "sleep" /\ UNCHANGED sendErr
     \/ SendReturns("setup")
  /\ UNCHANGED <<clockVars, sockVars, net, rx, stopRx, tick, pktVars, runVars,
                 sndNext, sent, skipped, rcvVars>>

SendWakes ==
  /\ sndPC = "sleep"
  /\ sndNext < NPackets
  /\ now >= When[sndNext]
  /\ ~ TooLate(sndNext, now)
  /\ sndPC' = "write"
  /\ UNCHANGED <<clockVars, sockVars, net, chanVars, pktVars, runVars,
                 sndNext, sent, skipped, rcvVars>>

(* A packet more than the loss timeout late is not sent but marked hit.    *)
SendSkips ==
  /\ sndPC = "sleep"
  /\ sndNext < NPackets
  /\ now >= When[sndNext]
  /\ TooLate(sndNext, now)
  /\ hit' = [hit EXCEPT ![sndNext] = TRUE]
  /\ skipped' = skipped \cup {sndNext}
  /\ sndNext' = sndNext + 1
  /\ UNCHANGED <<clockVars, sockVars, net, chanVars, closed, resolved,
                 records, runVars, sndPC, sent, rcvVars>>

(* WriteToUDP succeeds; the path and the reflector produce any number of   *)
(* replies, none included.                                                 *)
SendWrites ==
  /\ sndPC = "write"
  /\ open
  /\ \E c \in 0 .. MaxCopies : net' = [net EXCEPT ![sndNext] = @ + c]
  /\ sent' = sent \cup {sndNext}
  /\ sndNext' = sndNext + 1
  /\ sndPC' = "sleep"
  /\ UNCHANGED <<clockVars, sockVars, chanVars, pktVars, runVars, skipped,
                 rcvVars>>

(* WriteToUDP fails: the packet is left out, and only a closed socket ends *)
(* send.                                                                   *)
SendWriteFails ==
  /\ sndPC = "write"
  /\ \/ open /\ sndNext' = sndNext + 1 /\ sndPC' = "sleep" /\ UNCHANGED sendErr
     \/ ~ open /\ SendReturns("errClosed") /\ UNCHANGED sndNext
  /\ UNCHANGED <<clockVars, sockVars, net, rx, stopRx, tick, pktVars, runVars,
                 sent, skipped, rcvVars>>

SendEnds ==
  /\ sndPC = "sleep"
  /\ sndNext = NPackets
  /\ SendReturns(NoErr)
  /\ UNCHANGED <<clockVars, sockVars, net, rx, stopRx, tick, pktVars, runVars,
                 sndNext, sent, skipped, rcvVars>>

Send == \/ SendSetup
        \/ SendWakes
        \/ SendSkips
        \/ SendWrites
        \/ SendWriteFails
        \/ SendEnds

-----------------------------------------------------------------------------
(* Session.receive                                                         *)

ReceiveChecksStop ==
  /\ rcvPC = "check"
  /\ rcvPC' = IF stopRx THEN "exited" ELSE "read"
  /\ UNCHANGED <<clockVars, sockVars, net, chanVars, pktVars, runVars, sndVars,
                 rcvItem>>

(* A datagram is read; too short, not authentic or without a valid error   *)
(* estimate it is dropped, else it becomes a record.                       *)
ReceiveReads(s) ==
  /\ rcvPC = "read"
  /\ open
  /\ ~ readDeadline
  /\ net[s] > 0
  /\ net' = [net EXCEPT ![s] = @ - 1]
  /\ \/ rcvPC' = "push" /\ rcvItem' = Reply(s)
     \/ rcvPC' = "check" /\ UNCHANGED rcvItem
  /\ UNCHANGED <<clockVars, sockVars, chanVars, pktVars, runVars, sndVars>>

(* The read fails: by the deadline, because the socket is closed, or       *)
(* otherwise.  stop is looked at first, a timeout is tried again, any      *)
(* other error is passed on and ends receive.                              *)
ReceiveFails(e) ==
  /\ rcvPC = "read"
  /\ CASE e = "timeout"   -> open /\ readDeadline
       [] e = "errClosed" -> ~ open
       [] e = "other"     -> open /\ SocketMayFail
  /\ IF stopRx THEN rcvPC' = "exited" /\ UNCHANGED rcvItem
     ELSE IF e = "timeout" THEN rcvPC' = "check" /\ UNCHANGED rcvItem
     ELSE rcvPC' = "push" /\ rcvItem' = Failure(e)
  /\ UNCHANGED <<clockVars, sockVars, net, chanVars, pktVars, runVars, sndVars>>

(* Mutant of ReceivePushes: the channel has no bound.                      *)
ReceivePushesAnyway ==
  /\ rcvPC = "push"
  /\ rx' = Append(rx, rcvItem)
  /\ rcvPC' = IF rcvItem.kind = "rec" THEN "check" ELSE "exited"
  /\ UNCHANGED <<clockVars, sockVars, net, stopRx, sendErr, tick, pktVars,
                 runVars, sndVars, rcvItem>>

(* Both select statements that offer an item to Run or see stop.           *)
ReceivePushes ==
  /\ rcvPC = "push"
  /\ Len(rx) < RxCap
  /\ rx' = Append(rx, rcvItem)
  /\ rcvPC' = IF rcvItem.kind = "rec" THEN "check" ELSE "exited"
  /\ UNCHANGED <<clockVars, sockVars, net, stopRx, sendErr, tick, pktVars,
                 runVars, sndVars, rcvItem>>

(* Mutant of ReceiveGivesUp: stop is seen only if there is room in rx.     *)
ReceiveGivesUpWithRoom ==
  /\ rcvPC = "push"
  /\ stopRx
  /\ Len(rx) < RxCap
  /\ rcvPC' = "exited"
  /\ UNCHANGED <<clockVars, sockVars, net, chanVars, pktVars, runVars, sndVars,
                 rcvItem>>

ReceiveGivesUp ==
  /\ rcvPC = "push"
  /\ stopRx
  /\ rcvPC' = "exited"
  /\ UNCHANGED <<clockVars, sockVars, net, chanVars, pktVars, runVars, sndVars,
                 rcvItem>>

Receive == \/ ReceiveChecksStop
           \/ \E s \in Seqs : ReceiveReads(s)
           \/ \E e \in {"timeout", "errClosed"} : ReceiveFails(e)
           \/ ReceivePushes
           \/ ReceiveGivesUp

-----------------------------------------------------------------------------
AllDone == runPC = "returned" /\ sndPC = "done" /\ rcvPC = "exited"

(* Run has returned and its goroutines have ended: nothing is left to do.  *)
Finished == AllDone /\ UNCHANGED vars

Next == \/ Tick
        \/ TickerFires
        \/ Close
        \/ Run
        \/ Send
        \/ Receive
        \/ ReceiveFails("other")
        \/ Finished

(* The clock moves, the ticker ticks, and the runtime runs every goroutine *)
(* that can move.  The owner need not close the socket, and a read need    *)
(* not fail.                                                               *)
Fairness == /\ WF_vars(Tick)
            /\ WF_vars(TickerFires)
            /\ WF_vars(Run)
            /\ WF_vars(Send)
            /\ WF_vars(Receive)

Spec     == Init /\ [][Next]_vars
FairSpec == Spec /\ Fairness
-----------------------------------------------------------------------------
(* The values of the state; the channels never exceed their capacities.    *)
TypeOK ==
  /\ now \in 0 .. MaxTime
  /\ open \in BOOLEAN
  /\ readDeadline \in BOOLEAN
  /\ net \in [Seqs -> Nat]
  /\ rx \in Seq(Items) /\ Len(rx) <= RxCap
  /\ stopRx \in BOOLEAN
  /\ sendErr \in Seq(Errors \cup {NoErr}) /\ Len(sendErr) <= 1
  /\ tick \in (0 .. MaxTime) \cup {NoTick}
  /\ hit \in [Pkts -> BOOLEAN]
  /\ closed \in [Pkts -> BOOLEAN]
  /\ resolved \in 0 .. NPackets
  /\ records \in Seq(Record)
  /\ runPC \in {"select", "flush", "await", "stop", "unblock", "returned"}
  /\ flushing \in {"no", "rx", "tick", "late", "fatal"}
  /\ flushNow \in 0 .. MaxTime
  /\ sendDone \in BOOLEAN
  /\ sendFailure \in Errors \cup {NoErr}
  /\ result \in Errors \cup {"none", "sink", NoErr}
  /\ sndPC \in {"setup", "sleep", "write", "done"}
  /\ sndNext \in 0 .. NPackets
  /\ sent \subseteq Pkts
  /\ skipped \subseteq Pkts
  /\ rcvPC \in {"check", "read", "push", "exited"}
  /\ rcvItem \in Items

(* The promise to the sink, with its state read off the session's.         *)
Stream == INSTANCE RecordStream
            WITH stream <- records, frontier <- resolved, exempt <- skipped

Recorded(p) == Stream!AnsweredIn(records, p) \/ Stream!LostIn(records, p)

(* Run and its goroutines, whatever their order, only take steps of the    *)
(* record stream (RecordSink, session.go:185-186; Run, :200-204).          *)
StreamRefined == Stream!Spec

(* A packet reported lost has no other record: neither an answer before    *)
(* nor a late answer or a second loss after ("closed", session.go:194-197; *)
(* RecordSink receives records as they become final, :185-186).            *)
LossIsFinal == Stream!LossIsFinal

(* When Run returns without an error every packet has a record, except     *)
(* those that send gave up (session.go:200-204 and :419-424).              *)
NilMeansComplete ==
  result = NoErr => \A p \in Pkts : Recorded(p) \/ p \in skipped

(* Run returns without an error only after the loss timeout of the last    *)
(* packet, unless its socket was closed (session.go:205-206).              *)
NoEarlyReturn == result = NoErr /\ open => now >= Deadline

(* A loss is reported only when the packet's loss timeout has passed, even *)
(* if the tick is an old one; closing the socket alone reports every open  *)
(* packet at once (flush and flushAll, session.go:254-269, 285-291).       *)
NoEarlyLoss ==
  [][\A p \in Pkts :
       Stream!LostIn(records', p) /\ ~ Stream!LostIn(records, p)
         => now >= When[p] + LossTimeout \/ ~ open]_vars

(* While Run waits in its select, a receive goroutine that has ended has   *)
(* left the error that ends the session in the channel ("a socket error    *)
(* ends the session", session.go:282-285).                                 *)
ReceiverServesRun ==
  runPC = "select" /\ rcvPC = "exited"
    => \E k \in DOMAIN rx : rx[k].kind # "rec"

(* Run returns (session.go:205-206).                                       *)
RunTerminates == <>(runPC = "returned")

(* Both goroutines of a session that has returned end, also when rx was    *)
(* full or nobody reads sendErr (session.go:235-242, 554-560, 581-585).    *)
GoroutinesEnd == runPC = "returned" ~> (sndPC = "done" /\ rcvPC = "exited")

-----------------------------------------------------------------------------
(* What comments of the code say and the code does not do.                 *)

(* "One record for each packet sent" (session.go:200-204): a packet        *)
(* reported lost is one whose time to be sent has come.  flush waits for   *)
(* When + LossTimeout; flushAll, after the socket is closed, for nothing.  *)
LostWasDue ==
  \A k \in DOMAIN records : records[k].lost => When[records[k].seq] <= now

(* "hit means that the packet needs no loss record: an answer came or the  *)
(* sender skipped it" (session.go:190-193): a skipped packet is never      *)
(* reported lost.                                                          *)
SkippedNotLost == \A p \in skipped : ~ Stream!LostIn(records, p)
=============================================================================
