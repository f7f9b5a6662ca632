---------------------------- MODULE RecordStream ----------------------------
(***************************************************************************)
(* What Session.Run promises the RecordSink it is given (owamp/session.go, *)
(* the comments of RecordSink, pktState and Run), with no goroutine, no    *)
(* clock and no network: a stream of answered and lost records, and a      *)
(* frontier below which every packet has been accounted for.               *)
(***************************************************************************)
EXTENDS Naturals, Sequences

CONSTANT NPackets       \* TestSpec.NPackets

ASSUME NPacketsAssumption == NPackets \in Nat \ {0}

VARIABLES
  stream,               \* the records handed to the sink, in order
  frontier,             \* the packets below it are closed
  exempt                \* the packets the sender gave up on: no loss record

streamVars == <<stream, frontier, exempt>>

Pkts == 0 .. NPackets - 1

Record == [seq : Pkts, lost : BOOLEAN]

AnsweredIn(s, p) == \E k \in DOMAIN s : s[k].seq = p /\ ~ s[k].lost
LostIn(s, p)     == \E k \in DOMAIN s : s[k].seq = p /\ s[k].lost

-----------------------------------------------------------------------------
Init == /\ stream = << >>
        /\ frontier = 0
        /\ exempt = {}

(* A reply for a packet whose window is open: the first answer or a copy.  *)
Answer(p) ==
  /\ p >= frontier
  /\ stream' = Append(stream, [seq |-> p, lost |-> FALSE])
  /\ UNCHANGED <<frontier, exempt>>

(* Mutant of CloseAccounted: whether it was answered is not looked at.     *)
CloseSilently ==
  /\ frontier \in Pkts
  /\ frontier' = frontier + 1
  /\ UNCHANGED <<stream, exempt>>

(* The window of the first open packet ends with nothing to report.        *)
CloseAccounted ==
  /\ frontier \in Pkts
  /\ AnsweredIn(stream, frontier) \/ frontier \in exempt
  /\ frontier' = frontier + 1
  /\ UNCHANGED <<stream, exempt>>

(* Mutant of CloseLost: any open packet may be the one reported.           *)
CloseAnyLost ==
  /\ frontier \in Pkts
  /\ \E p \in frontier .. NPackets - 1 :
       /\ ~ AnsweredIn(stream, p)
       /\ stream' = Append(stream, [seq |-> p, lost |-> TRUE])
  /\ frontier' = frontier + 1
  /\ UNCHANGED exempt

(* The window of the first open packet ends without an answer.             *)
CloseLost ==
  /\ frontier \in Pkts
  /\ ~ AnsweredIn(stream, frontier)
  /\ stream' = Append(stream, [seq |-> frontier, lost |-> TRUE])
  /\ frontier' = frontier + 1
  /\ UNCHANGED exempt

(* The sender gives a packet up; nothing forbids that after its loss was   *)
(* reported.                                                               *)
Exempt(p) ==
  /\ exempt' = exempt \cup {p}
  /\ UNCHANGED <<stream, frontier>>

Next == \/ \E p \in Pkts : Answer(p) \/ Exempt(p)
        \/ CloseAccounted
        \/ CloseLost

Spec == Init /\ [][Next]_streamVars

-----------------------------------------------------------------------------
(* The type of the promise's state.                                        *)
StreamTypeOK == /\ stream \in Seq(Record)
                /\ frontier \in 0 .. NPackets
                /\ exempt \subseteq Pkts

(* A loss record is final: it is the only record its packet ever gets.     *)
LossIsFinal ==
  \A j, k \in DOMAIN stream :
    j # k /\ stream[j].seq = stream[k].seq => ~ stream[j].lost /\ ~ stream[k].lost

(* Losses are reported in the order of the sequence numbers.               *)
LossesInOrder ==
  \A j, k \in DOMAIN stream :
    j < k /\ stream[j].lost /\ stream[k].lost => stream[j].seq < stream[k].seq

(* No packet is forgotten: once its window is closed it has a record, or   *)
(* the sender gave it up.                                                  *)
Accounted ==
  \A p \in Pkts :
    p < frontier => AnsweredIn(stream, p) \/ LostIn(stream, p) \/ p \in exempt
=============================================================================
