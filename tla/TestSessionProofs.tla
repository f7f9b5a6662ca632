-------------------------- MODULE TestSessionProofs --------------------------
(***************************************************************************)
(* Proofs about TestSession for every number of packets, schedule, loss    *)
(* timeout, channel capacity and path: type correctness, the record        *)
(* stream, and the times of losses and of the return.                      *)
(***************************************************************************)
EXTENDS TestSession, TLAPS

-----------------------------------------------------------------------------
(* Types.  send puts its error into the empty channel: it does so once.    *)

SendErrEmpty    == sndPC # "done" => sendErr = << >>
SendNextInRange == sndPC = "write" => sndNext < NPackets

TypeInv == TypeOK /\ SendErrEmpty /\ SendNextInRange

LEMMA TypeInit == Init => TypeInv
<1> SUFFICES ASSUME Init PROVE TypeInv
  OBVIOUS
<1> USE NPacketsAssumption, TimeAssumption, RxCapAssumption DEF Init
<1>1. rcvItem \in Items
  BY DEF Items, Seqs
<1>2. /\ now \in 0 .. MaxTime
      /\ net \in [Seqs -> Nat]
      /\ resolved \in 0 .. NPackets /\ sndNext \in 0 .. NPackets
      /\ flushNow \in 0 .. MaxTime
  BY PathAssumption
<1>3. /\ rx \in Seq(Items) /\ Len(rx) <= RxCap
      /\ sendErr \in Seq(Errors \cup {NoErr}) /\ Len(sendErr) <= 1
      /\ records \in Seq(Record)
  OBVIOUS
<1> QED BY <1>1, <1>2, <1>3 DEF TypeInv, TypeOK, SendErrEmpty, SendNextInRange

(* An item appended to or taken from rx leaves a sequence of items.        *)
LEMMA ItemTypes ==
  /\ \A s \in Seqs : Reply(s) \in Items
  /\ Failure("errClosed") \in Items
  /\ Failure("other") \in Items
  BY DEF Items

LEMMA TakeRxType ==
  ASSUME TypeInv, NEW item, TakeRx(item)
  PROVE  rx' \in Seq(Items) /\ Len(rx') <= RxCap
  BY RxCapAssumption DEF TypeInv, TypeOK, TakeRx, chanVars

LEMMA RunTypeStep == TypeInv /\ Run => TypeInv'
<1> SUFFICES ASSUME TypeInv, Run PROVE TypeInv'
  OBVIOUS
<1> USE NPacketsAssumption, TimeAssumption
<1> USE DEF TypeInv, clockVars, sockVars, chanVars, pktVars, runVars, sndVars,
            rcvVars, Pkts, NoErr
<1>1. ASSUME NEW s \in Seqs, RunDropsReply(s) PROVE TypeInv'
  <2>1. rx' \in Seq(Items) /\ Len(rx') <= RxCap
    BY <1>1, TakeRxType DEF RunDropsReply
  <2> QED BY <1>1, <2>1 DEF RunDropsReply, TakeRx, TypeOK, SendErrEmpty, SendNextInRange
<1>2. ASSUME NEW s \in Seqs, RunTakesReply(s) PROVE TypeInv'
  <2>1. rx' \in Seq(Items) /\ Len(rx') <= RxCap
    BY <1>2, TakeRxType DEF RunTakesReply
  <2>2. s \in Pkts
    BY <1>2 DEF RunTakesReply, OutOfWindow
  <2>3. records' \in Seq(Record)
    BY <1>2, <2>2 DEF RunTakesReply, TypeOK, Record
  <2>4. hit' \in [Pkts -> BOOLEAN]
    BY <1>2, Zenon DEF RunTakesReply, TypeOK
  <2> QED BY <1>2, <2>1, <2>3, <2>4
          DEF RunTakesReply, TakeRx, StartFlush, TypeOK, SendErrEmpty, SendNextInRange
<1>3. ASSUME NEW s \in Seqs, RunReplySinkFails(s) PROVE TypeInv'
  <2>1. rx' \in Seq(Items) /\ Len(rx') <= RxCap
    BY <1>3, TakeRxType DEF RunReplySinkFails
  <2>2. hit' \in [Pkts -> BOOLEAN]
    BY <1>3, Zenon DEF RunReplySinkFails, TypeOK
  <2> QED BY <1>3, <2>1, <2>2
          DEF RunReplySinkFails, TakeRx, Return, TypeOK, SendErrEmpty, SendNextInRange
<1>4. CASE RunIgnoresRxError
  <2>1. rx' \in Seq(Items) /\ Len(rx') <= RxCap
    BY <1>4, TakeRxType DEF RunIgnoresRxError
  <2> QED BY <1>4, <2>1 DEF RunIgnoresRxError, TakeRx, TypeOK, SendErrEmpty, SendNextInRange
<1>5. CASE RunFatalRxError
  <2>1. rx' \in Seq(Items) /\ Len(rx') <= RxCap
    BY <1>5, TakeRxType DEF RunFatalRxError
  <2> QED BY <1>5, <2>1
          DEF RunFatalRxError, TakeRx, StartFlush, TypeOK, SendErrEmpty, SendNextInRange
<1>6. CASE RunSendDone
  BY <1>6 DEF RunSendDone, TypeOK, SendErrEmpty, SendNextInRange
<1>7. CASE RunTick
  BY <1>7 DEF RunTick, StartFlush, TypeOK, SendErrEmpty, SendNextInRange, NoTick
<1>8. CASE FlushAnswered
  BY <1>8 DEF FlushAnswered, FlushDue, CloseResolved, TypeOK, SendErrEmpty, SendNextInRange
<1>9. CASE FlushLost
  <2>1. resolved \in Pkts
    BY <1>9 DEF FlushLost, FlushDue, TypeOK
  <2>2. records' \in Seq(Record)
    BY <1>9, <2>1 DEF FlushLost, TypeOK, Record
  <2> QED BY <1>9, <2>1, <2>2
          DEF FlushLost, FlushDue, CloseResolved, TypeOK, SendErrEmpty, SendNextInRange
<1>10. CASE FlushSinkFails
  BY <1>10 DEF FlushSinkFails, Return, TypeOK, SendErrEmpty, SendNextInRange
<1>11. CASE FlushEnd
  BY <1>11 DEF FlushEnd, Return, LoopTest, TypeOK, SendErrEmpty, SendNextInRange
<1>12. CASE RunReturns
  BY <1>12 DEF RunReturns, Return, TypeOK, SendErrEmpty, SendNextInRange
<1>13. CASE RunStopsRx
  BY <1>13 DEF RunStopsRx, TypeOK, SendErrEmpty, SendNextInRange
<1>14. CASE RunUnblocksRead
  BY <1>14 DEF RunUnblocksRead, TypeOK, SendErrEmpty, SendNextInRange
<1> QED BY <1>1, <1>2, <1>3, <1>4, <1>5, <1>6, <1>7, <1>8, <1>9, <1>10, <1>11,
           <1>12, <1>13, <1>14 DEF Run

(* What send's single message leaves in sendErr.                           *)
LEMMA SendErrOnce ==
  ASSUME TypeInv, sndPC # "done",
         NEW e \in Errors \cup {NoErr}, SendReturns(e)
  PROVE  /\ sendErr' \in Seq(Errors \cup {NoErr})
         /\ Len(sendErr') <= 1
         /\ SendErrEmpty'
<1>1. sendErr' = <<e>> /\ sndPC' = "done"
  BY DEF TypeInv, SendErrEmpty, SendReturns
<1> QED BY <1>1 DEF SendErrEmpty

LEMMA SendTypeStep == TypeInv /\ Send => TypeInv'
<1> SUFFICES ASSUME TypeInv, Send PROVE TypeInv'
  OBVIOUS
<1> USE NPacketsAssumption, TimeAssumption, PathAssumption
<1> USE DEF TypeInv, clockVars, sockVars, chanVars, pktVars, runVars, sndVars,
            rcvVars, Pkts, NoErr, Errors
<1>1. CASE SendSetup
  <2>1. /\ sendErr' \in Seq(Errors \cup {NoErr})
        /\ Len(sendErr') <= 1
        /\ SendErrEmpty'
    <3>1. CASE SendReturns("setup")
      BY <3>1, <1>1, SendErrOnce DEF SendSetup
    <3>2. CASE sndPC' = "sleep" /\ UNCHANGED sendErr
      BY <3>2, <1>1 DEF SendSetup, SendErrEmpty, TypeOK
    <3> QED BY <1>1, <3>1, <3>2 DEF SendSetup
  <2> QED BY <1>1, <2>1 DEF SendSetup, SendReturns, TypeOK, SendNextInRange
<1>2. CASE SendWakes
  BY <1>2 DEF SendWakes, TypeOK, SendErrEmpty, SendNextInRange
<1>3. CASE SendSkips
  BY <1>3 DEF SendSkips, TypeOK, SendErrEmpty, SendNextInRange
<1>4. CASE SendWrites
  <2>1. sndNext \in Pkts
    BY <1>4 DEF SendWrites, TypeOK, SendNextInRange
  <2>2. net' \in [Seqs -> Nat]
    <3>1. PICK c \in 0 .. MaxCopies : net' = [net EXCEPT ![sndNext] = @ + c]
      BY <1>4 DEF SendWrites
    <3>2. c \in Nat /\ net[sndNext] \in Nat
      <4>1. c \in Nat
        BY <3>1
      <4>2. sndNext \in Seqs
        BY <2>1 DEF Seqs
      <4> QED BY <4>1, <4>2 DEF TypeOK
    <3>3. net[sndNext] + c \in Nat
      BY <3>2
    <3> QED BY <3>1, <3>3 DEF TypeOK
  <2> QED BY <1>4, <2>1, <2>2 DEF SendWrites, TypeOK, SendErrEmpty, SendNextInRange
<1>5. CASE SendWriteFails
  <2>1. sndNext \in Pkts
    BY <1>5 DEF SendWriteFails, TypeOK, SendNextInRange
  <2>2. /\ sendErr' \in Seq(Errors \cup {NoErr})
        /\ Len(sendErr') <= 1
        /\ SendErrEmpty'
    <3>1. CASE SendReturns("errClosed")
      BY <3>1, <1>5, SendErrOnce DEF SendWriteFails
    <3>2. CASE sndPC' = "sleep" /\ UNCHANGED sendErr
      BY <3>2, <1>5 DEF SendWriteFails, SendErrEmpty, TypeOK
    <3> QED BY <1>5, <3>1, <3>2 DEF SendWriteFails
  <2> QED BY <1>5, <2>1, <2>2 DEF SendWriteFails, SendReturns, TypeOK, SendNextInRange
<1>6. CASE SendEnds
  BY <1>6 DEF SendEnds, SendReturns, TypeOK, SendErrEmpty, SendNextInRange
<1> QED BY <1>1, <1>2, <1>3, <1>4, <1>5, <1>6 DEF Send

LEMMA ReceiveTypeStep ==
  TypeInv /\ (Receive \/ ReceiveFails("other")) => TypeInv'
<1> SUFFICES ASSUME TypeInv, Receive \/ ReceiveFails("other") PROVE TypeInv'
  OBVIOUS
<1> USE DEF TypeInv, clockVars, sockVars, chanVars, pktVars, runVars, sndVars,
            rcvVars
<1>1. CASE ReceiveChecksStop
  BY <1>1 DEF ReceiveChecksStop, TypeOK, SendErrEmpty, SendNextInRange
<1>2. ASSUME NEW s \in Seqs, ReceiveReads(s) PROVE TypeInv'
  <2>1. rcvItem' \in Items
    BY <1>2, ItemTypes DEF ReceiveReads, TypeOK
  <2>2. net' \in [Seqs -> Nat]
    BY <1>2 DEF ReceiveReads, TypeOK
  <2> QED BY <1>2, <2>1, <2>2 DEF ReceiveReads, TypeOK, SendErrEmpty, SendNextInRange
<1>3. ASSUME NEW e \in {"timeout", "errClosed", "other"}, ReceiveFails(e)
      PROVE TypeInv'
  <2>1. rcvItem' \in Items
    BY <1>3, ItemTypes DEF ReceiveFails, TypeOK
  <2> QED BY <1>3, <2>1 DEF ReceiveFails, TypeOK, SendErrEmpty, SendNextInRange
<1>4. CASE ReceivePushes
  <2>1. rx' \in Seq(Items) /\ Len(rx') <= RxCap
    BY <1>4, RxCapAssumption DEF ReceivePushes, TypeOK
  <2> QED BY <1>4, <2>1 DEF ReceivePushes, TypeOK, SendErrEmpty, SendNextInRange
<1>5. CASE ReceiveGivesUp
  BY <1>5 DEF ReceiveGivesUp, TypeOK, SendErrEmpty, SendNextInRange
<1> QED BY <1>1, <1>2, <1>3, <1>4, <1>5 DEF Receive

LEMMA TypeStep == TypeInv /\ [Next]_vars => TypeInv'
<1> SUFFICES ASSUME TypeInv, [Next]_vars PROVE TypeInv'
  OBVIOUS
<1> USE DEF clockVars, sockVars, chanVars, pktVars, runVars, sndVars, rcvVars
<1>1. CASE Tick
  BY <1>1, TimeAssumption DEF Tick, TypeInv, TypeOK, SendErrEmpty, SendNextInRange
<1>2. CASE TickerFires
  BY <1>2 DEF TickerFires, TypeInv, TypeOK, SendErrEmpty, SendNextInRange
<1>3. CASE Close
  <2>1. open' \in BOOLEAN
    BY <1>3, Zenon DEF Close
  <2> QED BY <1>3, <2>1 DEF Close, TypeInv, TypeOK, SendErrEmpty, SendNextInRange
<1>4. CASE UNCHANGED vars
  BY <1>4 DEF vars, TypeInv, TypeOK, SendErrEmpty, SendNextInRange
<1> QED BY <1>1, <1>2, <1>3, <1>4, RunTypeStep, SendTypeStep, ReceiveTypeStep
        DEF Next, Finished

(* Every variable keeps its type, and no channel exceeds its capacity.     *)
THEOREM TypeCorrect == Spec => []TypeOK
<1>1. TypeInv => TypeOK
  BY DEF TypeInv
<1> QED BY <1>1, TypeInit, TypeStep, PTL DEF Spec

-----------------------------------------------------------------------------
(* The record stream.  Three facts tie the flags of pktState to the        *)
(* records: closed marks exactly the packets below resolved; an answered   *)
(* packet is hit; a hit packet is answered or skipped while Run can still  *)
(* flush (a reply the sink refused is hit too, but then Run is over).      *)

Answered(p) == Stream!AnsweredIn(records, p)

ClosedIsPrefix == \A p \in Pkts : closed[p] <=> p < resolved
AnsweredIsHit  == \A p \in Pkts : Answered(p) => hit[p]
HitIsExplained ==
  runPC \in {"select", "flush", "await"}
    => \A p \in Pkts : hit[p] => Answered(p) \/ p \in skipped

FlagInv == ClosedIsPrefix /\ AnsweredIsHit /\ HitIsExplained

LEMMA FlagInit == Init => FlagInv
  BY NPacketsAssumption
  DEF Init, FlagInv, ClosedIsPrefix, AnsweredIsHit, HitIsExplained, Answered,
      Stream!AnsweredIn, Pkts

(* What appending a record changes for the packets that have an answer.    *)
LEMMA AppendAnswered ==
  ASSUME TypeOK, NEW r \in Record, records' = Append(records, r), NEW p \in Pkts
  PROVE  Answered(p)' <=> Answered(p) \/ (r.seq = p /\ ~ r.lost)
<1>1. /\ records \in Seq(Record)
      /\ Len(records) \in Nat
      /\ DOMAIN records = 1 .. Len(records)
      /\ DOMAIN records' = 1 .. Len(records) + 1
      /\ \A k \in DOMAIN records : records'[k] = records[k] /\ k \in DOMAIN records'
      /\ records'[Len(records) + 1] = r
  BY DEF TypeOK
<1> QED BY <1>1 DEF Answered, Stream!AnsweredIn

(* A step that leaves the packets' flags and records alone and does not    *)
(* send Run back into its loop keeps the invariant.                        *)
LEMMA FlagFrame ==
  ASSUME FlagInv, UNCHANGED <<pktVars, skipped>>,
         runPC' \in {"select", "flush", "await"}
           => runPC \in {"select", "flush", "await"}
  PROVE  FlagInv'
  BY DEF FlagInv, ClosedIsPrefix, AnsweredIsHit, HitIsExplained, Answered,
         Stream!AnsweredIn, pktVars

(* The steps that touch neither the packets nor the records.               *)
Quiet ==
  \/ Tick \/ TickerFires \/ Close
  \/ \E s \in Seqs : RunDropsReply(s) \/ ReceiveReads(s)
  \/ RunIgnoresRxError \/ RunFatalRxError \/ RunSendDone \/ RunTick
  \/ FlushSinkFails \/ FlushEnd \/ RunReturns \/ RunStopsRx
  \/ RunUnblocksRead
  \/ SendSetup \/ SendWakes \/ SendWrites \/ SendWriteFails \/ SendEnds
  \/ ReceiveChecksStop \/ ReceivePushes \/ ReceiveGivesUp
  \/ \E e \in {"timeout", "errClosed", "other"} : ReceiveFails(e)
  \/ UNCHANGED vars

LEMMA NextCases ==
  ASSUME [Next]_vars
  PROVE  \/ Quiet
         \/ \E s \in Seqs : RunTakesReply(s) \/ RunReplySinkFails(s)
         \/ FlushAnswered \/ FlushLost \/ SendSkips
  BY DEF Next, Run, Send, Receive, Finished, Quiet

LEMMA QuietFrame ==
  ASSUME Quiet
  PROVE  /\ UNCHANGED <<pktVars, skipped>>
         /\ runPC' \in {"select", "flush", "await"}
              => runPC \in {"select", "flush", "await"}
<1> USE DEF clockVars, sockVars, chanVars, pktVars, runVars, sndVars, rcvVars,
            vars
<1>1. CASE Tick \/ TickerFires \/ Close \/ UNCHANGED vars
  BY <1>1 DEF Tick, TickerFires, Close
<1>2. CASE \/ \E s \in Seqs : RunDropsReply(s)
           \/ RunIgnoresRxError \/ RunFatalRxError
  BY <1>2 DEF RunDropsReply, RunIgnoresRxError, RunFatalRxError, TakeRx, StartFlush
<1>3. CASE RunSendDone \/ RunTick
  BY <1>3 DEF RunSendDone, RunTick, StartFlush
<1>4. CASE FlushSinkFails \/ FlushEnd \/ RunReturns
  BY <1>4 DEF FlushSinkFails, FlushEnd, FlushDue, RunReturns, Return, LoopTest
<1>5. CASE RunStopsRx \/ RunUnblocksRead
  BY <1>5 DEF RunStopsRx, RunUnblocksRead
<1>6. CASE SendSetup \/ SendWakes \/ SendWrites \/ SendWriteFails \/ SendEnds
  BY <1>6 DEF SendSetup, SendWakes, SendWrites, SendWriteFails, SendEnds
<1>7. CASE \/ ReceiveChecksStop \/ ReceivePushes \/ ReceiveGivesUp
           \/ \E s \in Seqs : ReceiveReads(s)
           \/ \E e \in {"timeout", "errClosed", "other"} : ReceiveFails(e)
  BY <1>7 DEF ReceiveChecksStop, ReceivePushes, ReceiveGivesUp, ReceiveReads,
              ReceiveFails
<1> QED BY <1>1, <1>2, <1>3, <1>4, <1>5, <1>6, <1>7 DEF Quiet

LEMMA FlagStep == TypeInv /\ FlagInv /\ [Next]_vars => FlagInv'
<1> SUFFICES ASSUME TypeInv, FlagInv, [Next]_vars PROVE FlagInv'
  OBVIOUS
<1> USE NPacketsAssumption
<1> USE DEF pktVars, runVars, sndVars
<1>1. TypeOK
  BY DEF TypeInv
<1>2. CASE Quiet
  BY <1>2, QuietFrame, FlagFrame
<1>3. ASSUME NEW s \in Seqs, RunTakesReply(s) PROVE FlagInv'
  <2>1. s \in Pkts
    BY <1>3 DEF RunTakesReply, OutOfWindow
  <2>2. /\ runPC \in {"select", "flush", "await"}
        /\ hit' = [hit EXCEPT ![s] = TRUE]
        /\ records' = Append(records, [seq |-> s, lost |-> FALSE])
        /\ closed' = closed /\ resolved' = resolved /\ skipped' = skipped
    BY <1>3 DEF RunTakesReply, TakeRx
  <2>3. \A p \in Pkts : Answered(p)' <=> Answered(p) \/ s = p
    <3> DEFINE r == [seq |-> s, lost |-> FALSE]
    <3>1. r \in Record /\ r.seq = s /\ ~ r.lost
      BY <2>1 DEF Record
    <3>2. records' = Append(records, r)
      BY <2>2
    <3> HIDE DEF r
    <3> QED BY <1>1, <3>1, <3>2, AppendAnswered
  <2>4. \A p \in Pkts : hit'[p] <=> hit[p] \/ s = p
    BY <1>1, <2>2 DEF TypeOK
  <2>5. ClosedIsPrefix'
    BY <2>2 DEF FlagInv, ClosedIsPrefix
  <2>6. AnsweredIsHit'
    BY <2>3, <2>4 DEF FlagInv, AnsweredIsHit
  <2>7. HitIsExplained'
    BY <2>2, <2>3, <2>4 DEF FlagInv, HitIsExplained
  <2> QED BY <2>5, <2>6, <2>7 DEF FlagInv
<1>4. ASSUME NEW s \in Seqs, RunReplySinkFails(s) PROVE FlagInv'
  <2>1. /\ runPC' = "stop"
        /\ hit' = [hit EXCEPT ![s] = TRUE]
        /\ records' = records /\ closed' = closed /\ resolved' = resolved
    BY <1>4 DEF RunReplySinkFails, TakeRx, Return
  <2>2. \A p \in Pkts : hit[p] => hit'[p]
    BY <1>1, <2>1 DEF TypeOK
  <2> QED BY <2>1, <2>2 DEF FlagInv, ClosedIsPrefix, AnsweredIsHit,
                            HitIsExplained, Answered, Stream!AnsweredIn
<1>5. CASE FlushAnswered
  <2>1. /\ resolved \in Pkts /\ resolved' = resolved + 1
        /\ closed' = [closed EXCEPT ![resolved] = TRUE]
        /\ hit' = hit /\ records' = records /\ skipped' = skipped
        /\ runPC' = runPC
    BY <1>1, <1>5 DEF FlushAnswered, FlushDue, CloseResolved, TypeOK, Pkts
  <2>2. ClosedIsPrefix'
    BY <1>1, <2>1 DEF FlagInv, ClosedIsPrefix, TypeOK, Pkts
  <2> QED BY <2>1, <2>2 DEF FlagInv, AnsweredIsHit, HitIsExplained, Answered,
                            Stream!AnsweredIn
<1>6. CASE FlushLost
  <2>1. /\ resolved \in Pkts /\ resolved' = resolved + 1
        /\ closed' = [closed EXCEPT ![resolved] = TRUE]
        /\ records' = Append(records, [seq |-> resolved, lost |-> TRUE])
        /\ hit' = hit /\ skipped' = skipped /\ runPC' = runPC
    BY <1>1, <1>6 DEF FlushLost, FlushDue, CloseResolved, TypeOK, Pkts
  <2>2. ClosedIsPrefix'
    BY <1>1, <2>1 DEF FlagInv, ClosedIsPrefix, TypeOK, Pkts
  <2>3. \A p \in Pkts : Answered(p)' <=> Answered(p)
    <3> DEFINE r == [seq |-> resolved, lost |-> TRUE]
    <3>1. r \in Record /\ r.lost
      BY <2>1 DEF Record
    <3>2. records' = Append(records, r)
      BY <2>1
    <3> HIDE DEF r
    <3> QED BY <1>1, <3>1, <3>2, AppendAnswered
  <2> QED BY <2>1, <2>2, <2>3 DEF FlagInv, AnsweredIsHit, HitIsExplained
<1>7. CASE SendSkips
  <2>1. /\ hit' = [hit EXCEPT ![sndNext] = TRUE]
        /\ skipped' = skipped \cup {sndNext}
        /\ records' = records /\ closed' = closed /\ resolved' = resolved
        /\ runPC' = runPC
    BY <1>7 DEF SendSkips
  <2>2. \A p \in Pkts : hit'[p] <=> hit[p] \/ sndNext = p
    BY <1>1, <2>1 DEF TypeOK
  <2> QED BY <2>1, <2>2 DEF FlagInv, ClosedIsPrefix, AnsweredIsHit,
                            HitIsExplained, Answered, Stream!AnsweredIn
<1> QED BY <1>2, <1>3, <1>4, <1>5, <1>6, <1>7, NextCases

(* Every step of the session is a step of the record stream or stutters.   *)
LEMMA StreamStepRefined ==
  TypeInv /\ FlagInv /\ [Next]_vars => [Stream!Next]_(Stream!streamVars)
<1> SUFFICES ASSUME TypeInv, FlagInv, [Next]_vars
             PROVE  Stream!Next \/ UNCHANGED <<records, resolved, skipped>>
  BY DEF Stream!streamVars
<1> USE NPacketsAssumption
<1> USE DEF pktVars, sndVars, Stream!Pkts, Pkts
<1>1. TypeOK
  BY DEF TypeInv
<1>2. CASE Quiet
  BY <1>2, QuietFrame
<1>3. ASSUME NEW s \in Seqs, RunTakesReply(s) PROVE Stream!Next
  <2>1. s \in Pkts /\ ~ closed[s]
    BY <1>3 DEF RunTakesReply, OutOfWindow
  <2>2. s >= resolved
    BY <1>1, <2>1 DEF FlagInv, ClosedIsPrefix, TypeOK
  <2>3. Stream!Answer(s)
    BY <1>3, <2>2 DEF RunTakesReply, TakeRx, Stream!Answer
  <2> QED BY <2>1, <2>3 DEF Stream!Next
<1>4. ASSUME NEW s \in Seqs, RunReplySinkFails(s)
      PROVE  UNCHANGED <<records, resolved, skipped>>
  BY <1>4 DEF RunReplySinkFails, TakeRx
<1>5. CASE FlushAnswered
  <2>1. resolved \in Pkts /\ hit[resolved] /\ runPC = "flush"
    BY <1>1, <1>5 DEF FlushAnswered, FlushDue, TypeOK
  <2>2. Stream!AnsweredIn(records, resolved) \/ resolved \in skipped
    BY <2>1 DEF FlagInv, HitIsExplained, Answered
  <2>3. Stream!CloseAccounted
    BY <1>5, <2>1, <2>2 DEF FlushAnswered, CloseResolved, Stream!CloseAccounted
  <2> QED BY <2>3 DEF Stream!Next
<1>6. CASE FlushLost
  <2>1. resolved \in Pkts /\ ~ hit[resolved]
    BY <1>1, <1>6 DEF FlushLost, FlushDue, TypeOK
  <2>2. ~ Stream!AnsweredIn(records, resolved)
    BY <2>1 DEF FlagInv, AnsweredIsHit, Answered
  <2>3. Stream!CloseLost
    BY <1>6, <2>1, <2>2 DEF FlushLost, CloseResolved, Stream!CloseLost
  <2> QED BY <2>3 DEF Stream!Next
<1>7. CASE SendSkips
  <2>1. sndNext \in Pkts
    BY <1>1, <1>7 DEF SendSkips, TypeOK
  <2>2. Stream!Exempt(sndNext)
    BY <1>7 DEF SendSkips, Stream!Exempt
  <2> QED BY <2>1, <2>2 DEF Stream!Next
<1> QED BY <1>2, <1>3, <1>4, <1>5, <1>6, <1>7, NextCases

(* Run and its two goroutines, on any path and with any faults, give the   *)
(* sink a stream of records as RecordStream promises it.                   *)
THEOREM StreamRefinement == Spec => StreamRefined
<1>1. Init => Stream!Init
  BY DEF Init, Stream!Init
<1> QED BY <1>1, TypeInit, TypeStep, FlagInit, FlagStep, StreamStepRefined, PTL
        DEF Spec, StreamRefined, Stream!Spec

-----------------------------------------------------------------------------
(* The invariants of the stream, proved of RecordStream once, hold of the  *)
(* session because its steps are steps of the stream.                      *)

Promise == INSTANCE RecordStreamProofs
             WITH stream <- records, frontier <- resolved, exempt <- skipped

LEMMA SameStream ==
  /\ Stream!Init <=> Promise!Init
  /\ [Stream!Next]_(Stream!streamVars) <=> [Promise!Next]_(Promise!streamVars)
  /\ Promise!LossIsFinal <=> Stream!LossIsFinal
  /\ Promise!Accounted <=> Stream!Accounted
<1>1. Stream!Init <=> Promise!Init
  BY DEF Stream!Init, Promise!Init
<1>2. Stream!Next <=> Promise!Next
  BY DEF Stream!Next, Promise!Next, Stream!Answer, Promise!Answer,
         Stream!CloseAccounted, Promise!CloseAccounted,
         Stream!CloseLost, Promise!CloseLost, Stream!Exempt, Promise!Exempt,
         Stream!AnsweredIn, Promise!AnsweredIn, Stream!Pkts, Promise!Pkts
<1>3. UNCHANGED Stream!streamVars <=> UNCHANGED Promise!streamVars
  BY DEF Stream!streamVars, Promise!streamVars
<1>4. Promise!LossIsFinal <=> Stream!LossIsFinal
  BY DEF Promise!LossIsFinal, Stream!LossIsFinal
<1>5. Promise!Accounted <=> Stream!Accounted
  BY DEF Promise!Accounted, Stream!Accounted, Stream!AnsweredIn,
         Promise!AnsweredIn, Stream!LostIn, Promise!LostIn, Stream!Pkts,
         Promise!Pkts
<1> QED BY <1>1, <1>2, <1>3, <1>4, <1>5

LEMMA PromiseInit == Init => Promise!StreamInv
<1>1. Init => Promise!Init
  BY DEF Init, Promise!Init
<1> QED BY <1>1, NPacketsAssumption, Promise!StreamInit

LEMMA PromiseStep ==
  TypeInv /\ FlagInv /\ Promise!StreamInv /\ [Next]_vars => Promise!StreamInv'
  BY StreamStepRefined, SameStream, NPacketsAssumption, Promise!StreamStep

(* A packet reported lost has no other record.                             *)
THEOREM LossFinality == Spec => []LossIsFinal
<1>1. Promise!StreamInv => LossIsFinal
  BY DEF Promise!StreamInv, Promise!LossIsFinal, LossIsFinal, Stream!LossIsFinal
<1> QED BY <1>1, TypeInit, TypeStep, FlagInit, FlagStep, PromiseInit,
           PromiseStep, PTL DEF Spec

-----------------------------------------------------------------------------
(* Times.  No flush is given a time still to come; flushAll runs only past *)
(* the deadline of the last packet or on a closed socket; so a window is   *)
(* closed only when its timeout has passed or the socket is closed.        *)

Over(p) == now >= When[p] + LossTimeout \/ ~ open

RxClosed == \A k \in DOMAIN rx : rx[k].kind = "errClosed" => ~ open

TimeInv ==
  /\ flushNow <= now
  /\ tick # NoTick => tick <= now
  /\ runPC = "flush" => flushing \in {"rx", "tick", "late", "fatal"}
  /\ flushing = "late" => flushNow > Deadline
  /\ flushing = "fatal" => ~ open
  /\ RxClosed
  /\ rcvItem.kind = "errClosed" => ~ open
  /\ \A p \in Pkts : p < resolved => Over(p)

(* Run leaves its loop without an error only when every packet is closed.  *)
EndInv ==
  /\ runPC \in {"select", "flush", "await"} => result = "none"
  /\ runPC = "await" => resolved = NPackets
  /\ result = NoErr => resolved = NPackets

TimeVars == <<clockVars, open, rx, tick, resolved, runPC, flushing, flushNow,
              result, rcvItem>>

LEMMA TimeInit == Init => TimeInv /\ EndInv
  BY NPacketsAssumption, TimeAssumption
  DEF Init, TimeInv, EndInv, RxClosed, Reply, NoErr, Pkts

LEMMA FlushInTime ==
  ASSUME TypeOK, TimeInv, FlushDue
  PROVE  resolved \in Pkts /\ Over(resolved)
<1> USE NPacketsAssumption, WhenAssumption, LossTimeoutAssumption
<1>1. /\ resolved \in Pkts /\ NPackets - 1 \in Pkts /\ resolved <= NPackets - 1
      /\ now \in Nat /\ flushNow \in Nat /\ flushNow <= now
  BY DEF TypeOK, FlushDue, TimeInv, Pkts
<1>2. When[resolved] \in Nat /\ When[NPackets - 1] \in Nat
  BY <1>1
<1>3. When[resolved] <= When[NPackets - 1]
  BY <1>1
<1>4. CASE flushing \in {"rx", "tick"}
  BY <1>1, <1>2, <1>4 DEF FlushDue, Expired, Over
<1>5. CASE flushing = "late"
  BY <1>1, <1>2, <1>3, <1>5 DEF TimeInv, Deadline, Over
<1>6. CASE flushing = "fatal"
  BY <1>1, <1>6 DEF TimeInv, Over
<1> QED BY <1>1, <1>4, <1>5, <1>6 DEF FlushDue, TimeInv

LEMMA CloseInTime ==
  ASSUME TypeOK, TimeInv, FlushDue, CloseResolved,
         UNCHANGED <<now, open, tick, rx, runPC, flushing, flushNow, rcvItem>>
  PROVE  TimeInv'
<1>1. resolved \in Pkts /\ Over(resolved) /\ resolved' = resolved + 1
  BY FlushInTime DEF CloseResolved
<1>2. \A p \in Pkts : p < resolved' => Over(p)'
  BY <1>1 DEF Over, TimeInv, Pkts
<1> QED BY <1>2 DEF TimeInv, RxClosed, Over

LEMMA TakeInTime ==
  ASSUME TypeOK, TimeInv, NEW item \in Items, TakeRx(item)
  PROVE  RxClosed' /\ (item.kind = "errClosed" => ~ open)
<1>1. rx \in Seq(Items) /\ rx # << >> /\ item = rx[1] /\ rx' = Tail(rx)
      /\ open' = open
  BY DEF TypeOK, TakeRx, sockVars
<1>2. 1 \in DOMAIN rx /\ \A k \in DOMAIN rx' : rx'[k] = rx[k + 1] /\ k + 1 \in DOMAIN rx
  BY <1>1
<1> QED BY <1>1, <1>2 DEF TimeInv, RxClosed

LEMMA TimeStep == TypeInv /\ TimeInv /\ EndInv /\ [Next]_vars => TimeInv' /\ EndInv'
<1> SUFFICES ASSUME TypeInv, TimeInv, EndInv, [Next]_vars
             PROVE  TimeInv' /\ EndInv'
  OBVIOUS
<1> USE NPacketsAssumption
<1> USE DEF clockVars, sockVars, chanVars, pktVars, runVars, sndVars, rcvVars
<1>1. TypeOK
  BY DEF TypeInv
<1>2. ASSUME UNCHANGED TimeVars PROVE TimeInv' /\ EndInv'
  BY <1>2 DEF TimeVars, TimeInv, EndInv, RxClosed, Over
<1>3. CASE Tick
  BY <1>1, <1>3, WhenAssumption, LossTimeoutAssumption
     DEF Tick, TypeOK, TimeInv, EndInv, RxClosed, Over, NoTick
<1>4. CASE TickerFires
  BY <1>1, <1>4 DEF TickerFires, TypeOK, TimeInv, EndInv, RxClosed, Over
<1>5. CASE Close
  <2>1. ~ open'
    BY <1>5 DEF Close
  <2> QED BY <1>5, <2>1 DEF Close, TimeInv, EndInv, RxClosed, Over
<1>6. ASSUME NEW s \in Seqs, RunDropsReply(s) PROVE TimeInv' /\ EndInv'
  BY <1>1, <1>6, ItemTypes, TakeInTime
     DEF RunDropsReply, TakeRx, TimeInv, EndInv, Over
<1>7. ASSUME NEW s \in Seqs, RunTakesReply(s) PROVE TimeInv' /\ EndInv'
  <2>1. RxClosed'
    BY <1>1, <1>7, ItemTypes, TakeInTime DEF RunTakesReply
  <2>2. now <= now
    BY <1>1 DEF TypeOK
  <2> QED BY <1>7, <2>1, <2>2
          DEF RunTakesReply, TakeRx, StartFlush, TimeInv, EndInv, Over
<1>8. ASSUME NEW s \in Seqs, RunReplySinkFails(s) PROVE TimeInv' /\ EndInv'
  <2>1. RxClosed'
    BY <1>1, <1>8, ItemTypes, TakeInTime DEF RunReplySinkFails
  <2> QED BY <1>8, <2>1
          DEF RunReplySinkFails, TakeRx, Return, TimeInv, EndInv, Over, NoErr
<1>9. CASE RunIgnoresRxError
  BY <1>1, <1>9, ItemTypes, TakeInTime
     DEF RunIgnoresRxError, TakeRx, TimeInv, EndInv, Over
<1>10. CASE RunFatalRxError
  <2>1. RxClosed' /\ ~ open
    BY <1>1, <1>10, ItemTypes, TakeInTime DEF RunFatalRxError, Failure
  <2>2. now <= now
    BY <1>1 DEF TypeOK
  <2> QED BY <1>10, <2>1, <2>2
          DEF RunFatalRxError, TakeRx, StartFlush, TimeInv, EndInv, Over
<1>11. CASE RunTick
  BY <1>1, <1>11 DEF RunTick, StartFlush, TypeOK, TimeInv, EndInv, RxClosed, Over
<1>12. CASE FlushAnswered
  <2>1. TimeInv'
    BY <1>1, <1>12, CloseInTime DEF FlushAnswered
  <2> QED BY <1>1, <1>12, <2>1
          DEF FlushAnswered, FlushDue, EndInv, NoErr
<1>13. CASE FlushLost
  <2>1. TimeInv'
    BY <1>1, <1>13, CloseInTime DEF FlushLost
  <2> QED BY <1>1, <1>13, <2>1 DEF FlushLost, FlushDue, EndInv, NoErr
<1>14. CASE FlushSinkFails
  BY <1>14 DEF FlushSinkFails, Return, TimeInv, EndInv, RxClosed, Over, NoErr
<1>15. CASE FlushEnd
  <2>1. runPC = "flush" /\ UNCHANGED <<now, open, rx, tick, resolved, flushNow,
                                       rcvItem, sendDone, sendFailure>>
    BY <1>15 DEF FlushEnd
  <2>2. CASE flushing = "fatal"
    <3>1. resolved = NPackets
      BY <1>1, <1>15, <2>1, <2>2 DEF FlushEnd, FlushDue, TypeOK
    <3> QED BY <1>15, <2>1, <2>2, <3>1
            DEF FlushEnd, Return, TimeInv, EndInv, RxClosed, Over
  <2>3. CASE flushing # "fatal"
    <3>1. CASE flushing = "tick" /\ sendDone /\ flushNow > Deadline
      BY <1>15, <2>1, <2>3, <3>1
         DEF FlushEnd, TimeInv, EndInv, RxClosed, Over
    <3>2. CASE /\ ~ (flushing = "tick" /\ sendDone /\ flushNow > Deadline)
               /\ flushing \in {"tick", "late"} /\ sendDone /\ sendFailure # NoErr
      BY <1>15, <2>1, <2>3, <3>2
         DEF FlushEnd, Return, TimeInv, EndInv, RxClosed, Over
    <3>3. CASE /\ ~ (flushing = "tick" /\ sendDone /\ flushNow > Deadline)
               /\ ~ (flushing \in {"tick", "late"} /\ sendDone /\ sendFailure # NoErr)
      <4>1. runPC' = LoopTest /\ flushing' = "no" /\ result' = result
        BY <1>15, <2>3, <3>3 DEF FlushEnd
      <4>2. LoopTest = "await" => resolved = NPackets
        BY <1>1 DEF LoopTest, TypeOK
      <4> QED BY <2>1, <4>1, <4>2
              DEF LoopTest, TimeInv, EndInv, RxClosed, Over
    <3> QED BY <3>1, <3>2, <3>3
  <2> QED BY <2>2, <2>3
<1>16. CASE RunReturns
  BY <1>16 DEF RunReturns, Return, TimeInv, EndInv, RxClosed, Over
<1>17. CASE RunStopsRx
  BY <1>17 DEF RunStopsRx, TimeInv, EndInv, RxClosed, Over
<1>18. CASE RunUnblocksRead
  BY <1>18 DEF RunUnblocksRead, TimeInv, EndInv, RxClosed, Over
<1>19. ASSUME NEW s \in Seqs, ReceiveReads(s) PROVE TimeInv' /\ EndInv'
  BY <1>19 DEF ReceiveReads, Reply, TimeInv, EndInv, RxClosed, Over
<1>20. ASSUME NEW e \in {"timeout", "errClosed", "other"}, ReceiveFails(e)
       PROVE  TimeInv' /\ EndInv'
  <2>1. e = "errClosed" => ~ open
    BY <1>20 DEF ReceiveFails
  <2>2. rcvItem'.kind = "errClosed" => ~ open
    BY <1>20, <2>1 DEF ReceiveFails, Failure, TimeInv
  <2> QED BY <1>20, <2>2 DEF ReceiveFails, TimeInv, EndInv, RxClosed, Over
<1>21. CASE ReceivePushes
  <2>1. /\ rx \in Seq(Items) /\ rcvItem \in Items /\ rx' = Append(rx, rcvItem)
        /\ open' = open
    BY <1>1, <1>21 DEF ReceivePushes, TypeOK
  <2>2. \A k \in DOMAIN rx' : rx'[k] = rcvItem \/ (k \in DOMAIN rx /\ rx'[k] = rx[k])
    BY <2>1
  <2>3. RxClosed'
    BY <2>1, <2>2 DEF TimeInv, RxClosed
  <2> QED BY <1>21, <2>3 DEF ReceivePushes, TimeInv, EndInv, Over
<1>22. CASE Send \/ RunSendDone \/ ReceiveChecksStop \/ ReceiveGivesUp
  <2>1. UNCHANGED TimeVars
    BY <1>22 DEF TimeVars, Send, SendSetup, SendWakes, SendSkips, SendWrites,
             SendWriteFails, SendEnds, RunSendDone, ReceiveChecksStop,
             ReceiveGivesUp
  <2> QED BY <1>2, <2>1
<1>23. CASE UNCHANGED vars
  BY <1>2, <1>23 DEF vars, TimeVars
<1> QED BY <1>3, <1>4, <1>5, <1>6, <1>7, <1>8, <1>9, <1>10, <1>11, <1>12, <1>13,
           <1>14, <1>15, <1>16, <1>17, <1>18, <1>19, <1>20, <1>21, <1>22, <1>23
        DEF Next, Run, Receive, Finished

(* The one invariant the theorems below rest on.                           *)
SessionInv ==
  TypeInv /\ FlagInv /\ Promise!StreamInv /\ TimeInv /\ EndInv

LEMMA SessionInvariant == Spec => []SessionInv
<1>1. Init => SessionInv
  BY TypeInit, FlagInit, PromiseInit, TimeInit DEF SessionInv
<1>2. SessionInv /\ [Next]_vars => SessionInv'
  BY TypeStep, FlagStep, PromiseStep, TimeStep DEF SessionInv
<1> QED BY <1>1, <1>2, PTL DEF Spec

(* When Run returns without an error it has closed every window, and every *)
(* packet the sender did not give up has its record.                       *)
THEOREM CompleteOnReturn == Spec => []NilMeansComplete
<1>1. SessionInv => NilMeansComplete
  <2> SUFFICES ASSUME SessionInv, result = NoErr, NEW p \in Pkts
               PROVE  Recorded(p) \/ p \in skipped
    BY DEF NilMeansComplete
  <2>1. p < resolved
    BY NPacketsAssumption DEF SessionInv, EndInv, Pkts
  <2>2. Stream!Accounted
    BY SameStream DEF SessionInv, Promise!StreamInv
  <2> QED BY <2>1, <2>2 DEF Stream!Accounted, Stream!Pkts, Pkts, Recorded
<1> QED BY <1>1, SessionInvariant, PTL

(* An error-free return comes after the loss timeout of the last packet.   *)
THEOREM ReturnAfterDeadline == Spec => []NoEarlyReturn
<1>1. SessionInv => NoEarlyReturn
  <2> SUFFICES ASSUME SessionInv, result = NoErr, open PROVE now >= Deadline
    BY DEF NoEarlyReturn
  <2>1. NPackets - 1 \in Pkts /\ NPackets - 1 < resolved
    BY NPacketsAssumption DEF SessionInv, EndInv, Pkts
  <2> QED BY <2>1 DEF SessionInv, TimeInv, Over, Deadline
<1> QED BY <1>1, SessionInvariant, PTL

(* No step reports a loss before the packet's loss timeout has passed,     *)
(* unless the socket is closed.                                            *)
THEOREM LossAfterTimeout == Spec => NoEarlyLoss
<1>1. SessionInv /\ [Next]_vars =>
        [\A p \in Pkts :
           Stream!LostIn(records', p) /\ ~ Stream!LostIn(records, p)
             => now >= When[p] + LossTimeout \/ ~ open]_vars
  <2> SUFFICES ASSUME SessionInv, [Next]_vars, NEW p \in Pkts,
                      Stream!LostIn(records', p), ~ Stream!LostIn(records, p)
               PROVE  Over(p)
    BY DEF Over
  <2>1. TypeOK /\ TimeInv /\ records \in Seq(Record)
    BY DEF SessionInv, TypeInv, TypeOK
  <2>2. records' # records
    OBVIOUS
  <2>3. CASE FlushLost
    <3>1. resolved \in Pkts /\ Over(resolved)
      BY <2>1, <2>3, FlushInTime DEF FlushLost
    <3>2. records' = Append(records, [seq |-> resolved, lost |-> TRUE])
      BY <2>3 DEF FlushLost
    <3>3. \A k \in DOMAIN records' : \/ records'[k].seq = resolved
                                     \/ k \in DOMAIN records /\ records'[k] = records[k]
      BY <2>1, <3>2
    <3>4. p = resolved
      BY <3>3 DEF Stream!LostIn
    <3> QED BY <3>1, <3>4
  <2>4. ASSUME NEW s \in Seqs, RunTakesReply(s) PROVE FALSE
    <3>1. records' = Append(records, [seq |-> s, lost |-> FALSE])
      BY <2>4 DEF RunTakesReply
    <3>2. \A k \in DOMAIN records' : \/ ~ records'[k].lost
                                     \/ k \in DOMAIN records /\ records'[k] = records[k]
      BY <2>1, <3>1
    <3> QED BY <3>2 DEF Stream!LostIn
  <2>5. ASSUME \/ Quiet \/ \E s \in Seqs : RunReplySinkFails(s)
               \/ FlushAnswered \/ SendSkips
        PROVE  FALSE
    BY <2>2, <2>5, QuietFrame DEF RunReplySinkFails, FlushAnswered, SendSkips, pktVars
  <2> QED BY <2>2, <2>3, <2>4, <2>5, NextCases
<1> QED BY <1>1, SessionInvariant, PTL DEF Spec, NoEarlyLoss

-----------------------------------------------------------------------------
(* The receive goroutine.  Where reads fail by a timeout or a close alone, *)
(* it ends on the error of the closed socket, which Run finds in rx, or    *)
(* because Run is on its way out of the deferred calls.                    *)

Serving == runPC = "select" \/ (runPC = "flush" /\ flushing # "fatal")

ReceiverInv ==
  /\ stopRx => runPC \in {"unblock", "returned"}
  /\ rcvPC = "push" => rcvItem.kind # "other"
  /\ \A k \in DOMAIN rx : rx[k].kind # "other"
  /\ Serving /\ rcvPC = "exited" => \E k \in DOMAIN rx : rx[k].kind # "rec"

(* What Run leaves in rx when it takes an item.                            *)
LEMMA TakeLeaves ==
  ASSUME TypeOK, ReceiverInv, NEW item \in Items, TakeRx(item)
  PROVE  /\ item.kind # "other"
         /\ \A k \in DOMAIN rx' : rx'[k].kind # "other"
         /\ item.kind = "rec" /\ (\E k \in DOMAIN rx : rx[k].kind # "rec")
              => \E k \in DOMAIN rx' : rx'[k].kind # "rec"
<1>1. /\ rx \in Seq(Items) /\ rx # << >> /\ item = rx[1] /\ rx' = Tail(rx)
  BY DEF TypeOK, TakeRx
<1>2. /\ 1 \in DOMAIN rx
      /\ \A k \in DOMAIN rx' : rx'[k] = rx[k + 1] /\ k + 1 \in DOMAIN rx
      /\ \A k \in DOMAIN rx : k = 1 \/ (k - 1 \in DOMAIN rx' /\ rx'[k - 1] = rx[k])
  BY <1>1
<1>3. item.kind # "other" /\ \A k \in DOMAIN rx' : rx'[k].kind # "other"
  BY <1>1, <1>2 DEF ReceiverInv
<1>4. ASSUME item.kind = "rec", NEW k \in DOMAIN rx, rx[k].kind # "rec"
      PROVE  \E n \in DOMAIN rx' : rx'[n].kind # "rec"
  <2>1. k # 1  BY <1>1, <1>4
  <2>2. k - 1 \in DOMAIN rx' /\ rx'[k - 1] = rx[k]  BY <1>2, <2>1
  <2> QED  BY <1>4, <2>2
<1> QED  BY <1>3, <1>4

LEMMA ReceiverStep ==
  ASSUME ~ SocketMayFail
  PROVE  TypeInv /\ ReceiverInv /\ [Next]_vars => ReceiverInv'
<1> SUFFICES ASSUME TypeInv, ReceiverInv, [Next]_vars PROVE ReceiverInv'
  OBVIOUS
<1> USE DEF clockVars, sockVars, chanVars, pktVars, runVars, sndVars, rcvVars
<1>1. TypeOK
  BY DEF TypeInv
<1>2. ASSUME UNCHANGED <<rx, stopRx, runPC, flushing, rcvPC, rcvItem>>
      PROVE  ReceiverInv'
  BY <1>2 DEF ReceiverInv, Serving
<1>3. ASSUME UNCHANGED <<stopRx, rcvPC, rcvItem>>, stopRx => runPC' \in {"unblock", "returned"},
             Serving' => Serving,
             NEW item \in Items, item.kind = "rec", TakeRx(item)
      PROVE  ReceiverInv'
  BY <1>1, <1>3, TakeLeaves DEF ReceiverInv
<1>4. ASSUME NEW s \in Seqs,
             RunDropsReply(s) \/ RunTakesReply(s) \/ RunReplySinkFails(s)
      PROVE  ReceiverInv'
  <2>1. Reply(s) \in Items /\ Reply(s).kind = "rec" /\ TakeRx(Reply(s))
    BY <1>4, ItemTypes DEF Reply, RunDropsReply, RunTakesReply, RunReplySinkFails
  <2>2. UNCHANGED <<stopRx, rcvPC, rcvItem>> /\ runPC = "select" /\ ~ stopRx /\ Serving
    BY <2>1 DEF TakeRx, ReceiverInv, Serving
  <2> QED BY <1>3, <2>1, <2>2
<1>5. ~ RunIgnoresRxError
  <2>1. Failure("other").kind = "other"
    BY DEF Failure
  <2> QED BY <1>1, <2>1, ItemTypes, TakeLeaves DEF RunIgnoresRxError
<1>6. CASE RunFatalRxError
  <2>1. /\ TakeRx(Failure("errClosed")) /\ runPC' = "flush" /\ flushing' = "fatal"
    BY <1>6 DEF RunFatalRxError, StartFlush
  <2>2. \A k \in DOMAIN rx' : rx'[k].kind # "other"
    BY <1>1, <2>1, ItemTypes, TakeLeaves
  <2>3. UNCHANGED <<stopRx, rcvPC, rcvItem>> /\ ~ stopRx
    BY <2>1 DEF TakeRx, ReceiverInv
  <2> QED BY <2>1, <2>2, <2>3 DEF ReceiverInv, Serving
<1>7. ASSUME UNCHANGED <<rx, stopRx, rcvPC, rcvItem>>, ~ stopRx, Serving' => Serving
      PROVE  ReceiverInv'
  BY <1>7 DEF ReceiverInv
<1>8. CASE RunTick
  BY <1>7, <1>8 DEF RunTick, StartFlush, ReceiverInv, Serving
<1>9. CASE FlushSinkFails
  BY <1>7, <1>9 DEF FlushSinkFails, FlushDue, Return, ReceiverInv, Serving
<1>10. CASE FlushEnd
  <2>1. runPC = "flush" /\ UNCHANGED <<rx, stopRx, rcvPC, rcvItem>> /\ ~ stopRx
    BY <1>10 DEF FlushEnd, ReceiverInv
  <2>2. CASE flushing = "fatal"
    BY <1>7, <1>10, <2>1, <2>2 DEF FlushEnd, Return, Serving
  <2>3. CASE flushing # "fatal"
    BY <1>7, <2>1, <2>3 DEF Serving
  <2> QED BY <2>2, <2>3
<1>11. CASE RunReturns
  BY <1>7, <1>11 DEF RunReturns, Return, ReceiverInv, Serving
<1>12. CASE RunStopsRx \/ RunUnblocksRead
  BY <1>12 DEF RunStopsRx, RunUnblocksRead, ReceiverInv, Serving
<1>13. ASSUME NEW s \in Seqs, ReceiveReads(s) PROVE ReceiverInv'
  BY <1>13 DEF ReceiveReads, Reply, ReceiverInv, Serving
<1>14. ASSUME NEW e \in {"timeout", "errClosed", "other"}, ReceiveFails(e)
       PROVE  ReceiverInv'
  <2>1. e # "other" /\ UNCHANGED <<rx, stopRx, runPC, flushing>>
    BY <1>14 DEF ReceiveFails
  <2>2. CASE stopRx
    BY <1>14, <2>1, <2>2 DEF ReceiveFails, ReceiverInv, Serving
  <2>3. CASE ~ stopRx
    <3>1. rcvPC' # "exited" /\ (rcvPC' = "push" => rcvItem'.kind # "other")
      BY <1>14, <2>1, <2>3 DEF ReceiveFails, Failure
    <3> QED BY <2>1, <2>3, <3>1 DEF ReceiverInv
  <2> QED BY <2>2, <2>3
<1>15. CASE ReceivePushes
  <2>1. /\ rx \in Seq(Items) /\ rcvItem \in Items /\ rx' = Append(rx, rcvItem)
        /\ UNCHANGED <<stopRx, runPC, flushing, rcvItem>>
        /\ rcvItem.kind # "other"
        /\ rcvPC' = IF rcvItem.kind = "rec" THEN "check" ELSE "exited"
    BY <1>1, <1>15 DEF ReceivePushes, TypeOK, ReceiverInv
  <2>2. \A k \in DOMAIN rx' : rx'[k] = rcvItem \/ (k \in DOMAIN rx /\ rx'[k] = rx[k])
    BY <2>1
  <2>3. Len(rx) + 1 \in DOMAIN rx' /\ rx'[Len(rx) + 1] = rcvItem
    BY <2>1
  <2>4. \A k \in DOMAIN rx' : rx'[k].kind # "other"
    BY <2>1, <2>2 DEF ReceiverInv
  <2>5. rcvPC' = "exited" => \E k \in DOMAIN rx' : rx'[k].kind # "rec"
    BY <2>1, <2>3
  <2>6. rcvPC' # "push"
    BY <2>1
  <2> QED BY <2>1, <2>4, <2>5, <2>6 DEF ReceiverInv, Serving
<1>16. CASE ReceiveChecksStop \/ ReceiveGivesUp
  BY <1>16 DEF ReceiveChecksStop, ReceiveGivesUp, ReceiverInv, Serving
<1>17. CASE Tick \/ TickerFires \/ Close \/ Send \/ RunSendDone \/ FlushAnswered \/ FlushLost
  <2>1. UNCHANGED <<rx, stopRx, runPC, flushing, rcvPC, rcvItem>>
    BY <1>17 DEF Tick, TickerFires, Close, Send, SendSetup, SendWakes, SendSkips,
             SendWrites, SendWriteFails, SendEnds, RunSendDone, FlushAnswered, FlushLost
  <2> QED BY <1>2, <2>1
<1>18. CASE UNCHANGED vars
  BY <1>2, <1>18 DEF vars
<1> QED BY <1>4, <1>5, <1>6, <1>8, <1>9, <1>10, <1>11, <1>12, <1>13, <1>14, <1>15,
           <1>16, <1>17, <1>18
        DEF Next, Run, Receive, Finished

(* Where a read fails only by a timeout or a close, Run never waits for    *)
(* answers that nobody would bring (session.go:235-242, 282-285).  A read  *)
(* that fails otherwise ends receive and is ignored by Run: the hypothesis *)
(* is what TestSession_ReceiverServesRun does without.                     *)
THEOREM ReceiverIsHeard ==
  ASSUME ~ SocketMayFail
  PROVE  Spec => []ReceiverServesRun
<1>1. Init => ReceiverInv
  BY DEF Init, ReceiverInv
<1>2. TypeInv /\ ReceiverInv /\ [Next]_vars => ReceiverInv'
  BY ReceiverStep
<1>3. Spec => [](TypeInv /\ ReceiverInv)
  BY <1>1, <1>2, TypeInit, TypeStep, PTL DEF Spec
<1>4. ReceiverInv => ReceiverServesRun
  BY DEF ReceiverInv, Serving, ReceiverServesRun
<1> QED BY <1>3, <1>4, PTL
=============================================================================
