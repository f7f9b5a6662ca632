---------------------------- MODULE SessionStats ----------------------------
(***************************************************************************)
(* A session feeding its statistics.  The path and the reflector lose,     *)
(* copy and reorder packets in both directions; the session hands records  *)
(* on in the order RecordStream allows, and the sink of twping.go passes   *)
(* each to Stats.Add, whose error ends the run.  The counters are compared *)
(* with what really happened on the path.                                  *)
(***************************************************************************)
EXTENDS Stats, Sequences, FiniteSets, FiniteSetsExt

CONSTANTS
  NPackets,
  MaxFwd,               \* bound on the copies of a packet on its way out
  MaxBck                \* bound on the copies of a reply on its way back

ASSUME PathAssumption ==
  /\ NPackets \in Nat \ {0} /\ SentSeqs = 0 .. NPackets - 1
  /\ MaxFwd \in Nat /\ MaxBck \in Nat
  /\ Refls = 0 .. NPackets * MaxFwd - 1

VARIABLES
  stream, frontier, exempt,  \* the session's side, as in RecordStream
  nextSend,                  \* the packet send works on
  outbound,                  \* copies of each packet on their way out
  reflSeq,                   \* the reflector's next number
  inbound,                   \* copies of each reply on their way back
  restarted,                 \* the reflector has started numbering anew
  answers                    \* how often each reply has been recorded

streamVars == <<stream, frontier, exempt>>
reflVars   == <<reflSeq, restarted>>
pathVars   == <<nextSend, outbound, inbound, reflVars>>
vars == <<statsVars, streamVars, pathVars, answers>>

Stream == INSTANCE RecordStream

Init ==
  /\ StatsInit
  /\ Stream!Init
  /\ nextSend = 0
  /\ outbound = [p \in SentSeqs |-> 0]
  /\ reflSeq = 0 /\ restarted = FALSE
  /\ inbound = [p \in SentSeqs |-> [r \in Refls |-> 0]]
  /\ answers = [p \in SentSeqs |-> [r \in Refls |-> 0]]

(* Mutant of SendPacket: the loop runs once too often.                     *)
SendOneMore ==
  /\ nextSend <= NPackets
  /\ \E c \in 0 .. MaxFwd :
       outbound' = [q \in SentSeqs |-> IF q = nextSend THEN c ELSE outbound[q]]
  /\ nextSend' = nextSend + 1
  /\ UNCHANGED <<statsVars, streamVars, reflVars, inbound, answers>>

(* A packet is written, whatever becomes of it on the way.                 *)
SendPacket ==
  /\ nextSend < NPackets
  /\ \E c \in 0 .. MaxFwd : outbound' = [outbound EXCEPT ![nextSend] = c]
  /\ nextSend' = nextSend + 1
  /\ UNCHANGED <<statsVars, streamVars, reflVars, inbound, answers>>

(* A packet is given up as too late.                                       *)
SkipPacket ==
  /\ nextSend < NPackets
  /\ Stream!Exempt(nextSend)
  /\ nextSend' = nextSend + 1
  /\ UNCHANGED <<statsVars, outbound, reflVars, inbound, answers>>

(* The reflector numbers every packet that reaches it and answers it.      *)
Reflect(p) ==
  /\ outbound[p] > 0
  /\ reflSeq \in Refls
  /\ outbound' = [outbound EXCEPT ![p] = @ - 1]
  /\ \E c \in 0 .. MaxBck : inbound' = [inbound EXCEPT ![p][reflSeq] = @ + c]
  /\ reflSeq' = reflSeq + 1
  /\ UNCHANGED <<statsVars, streamVars, nextSend, restarted, answers>>

(* The reflector loses its state and starts numbering at 0 again.          *)
RestartReflector ==
  /\ reflSeq > 0
  /\ reflSeq' = 0
  /\ restarted' = TRUE
  /\ UNCHANGED <<statsVars, streamVars, nextSend, outbound, inbound, answers>>

(* A reply arrives inside the packet's window and its record reaches Add.  *)
Deliver(p, r, b) ==
  /\ ~ addErr
  /\ inbound[p][r] > 0
  /\ inbound' = [inbound EXCEPT ![p][r] = @ - 1]
  /\ Stream!Answer(p)
  /\ AddAnswer(p, r, b)
  /\ answers' = IF addErr' THEN answers ELSE [answers EXCEPT ![p][r] = @ + 1]
  /\ UNCHANGED <<nextSend, outbound, reflVars>>

(* A reply outside the window is dropped by the session.                   *)
DropLate(p, r) ==
  /\ inbound[p][r] > 0
  /\ p < frontier
  /\ inbound' = [inbound EXCEPT ![p][r] = @ - 1]
  /\ UNCHANGED <<statsVars, streamVars, nextSend, outbound, reflVars, answers>>

(* The first window ends with a loss record, or with none to report.       *)
ExpireLost ==
  /\ ~ addErr
  /\ Stream!CloseLost
  /\ AddLost(frontier)
  /\ UNCHANGED <<pathVars, answers>>

ExpireAccounted ==
  /\ ~ addErr
  /\ Stream!CloseAccounted
  /\ UNCHANGED <<statsVars, pathVars, answers>>

(* All windows are closed, or the error of Add has ended the run.          *)
Finished ==
  /\ frontier = NPackets \/ addErr
  /\ UNCHANGED vars

Next == \/ SendPacket
        \/ SkipPacket
        \/ \E p \in SentSeqs : Reflect(p)
        \/ RestartReflector
        \/ \E p \in SentSeqs, r \in Refls, b \in Buckets : Deliver(p, r, b)
        \/ \E p \in SentSeqs, r \in Refls : DropLate(p, r)
        \/ ExpireLost
        \/ ExpireAccounted
        \/ Finished

Spec == Init /\ [][Next]_vars

-----------------------------------------------------------------------------
Answered(p) == \E r \in Refls : answers[p][r] > 0
Replies(p)  == {r \in Refls : answers[p][r] > 0}
LostPkts    == {p \in SentSeqs : Stream!LostIn(stream, p)}

(* The type of the counters and of the path.                               *)
TypeOK ==
  /\ StatsTypeOK
  /\ Stream!StreamTypeOK
  /\ nextSend \in 0 .. NPackets
  /\ outbound \in [SentSeqs -> 0 .. MaxFwd]
  /\ reflSeq \in 0 .. NPackets * MaxFwd /\ restarted \in BOOLEAN
  /\ inbound \in [SentSeqs -> [Refls -> Nat]]
  /\ answers \in [SentSeqs -> [Refls -> Nat]]

(* The sent and lost of the summary count packets, not records: every      *)
(* packet answered or lost exactly once, whatever was copied on the path   *)
(* and in whatever order the records came (stats.go:279-287, 318-322).     *)
PacketsCountedOnce ==
  /\ statLost = Cardinality(LostPkts)
  /\ statSent = Cardinality(LostPkts \cup {p \in SentSeqs : Answered(p)})

(* "A sequence number seen more than once with another reflected number is *)
(* a send duplicate, the same reflected number again is a reflect          *)
(* duplicate", and neither enters the histograms (docs/PROTOCOL.md:        *)
(* 240-243), for every order of arrival.                                   *)
DuplicatesClassified ==
  /\ dupsFwd = SumOver([p \in SentSeqs |-> Cardinality(Replies(p)) - 1],
                       {p \in SentSeqs : Answered(p)})
  /\ dupsBck = SumOver([a \in SentSeqs \X Refls |-> answers[a[1]][a[2]] - 1],
                       {a \in SentSeqs \X Refls : answers[a[1]][a[2]] > 0})
  /\ SumOver(buckets, Buckets) = statSent - statLost

(* [first, last) is the range of the numbers seen, though records come in  *)
(* the order in which packets are finished (stats.go:207-210).             *)
RangeOfRecords ==
  haveFirst => /\ \E k \in DOMAIN stream : stream[k].seq = first
               /\ \E k \in DOMAIN stream : stream[k].seq = last - 1
               /\ \A k \in DOMAIN stream : stream[k].seq \in first .. last - 1

(* Unless the reflector starts numbering anew, Add refuses none of the     *)
(* session's records: neither the second loss nor the conflict of          *)
(* reflected numbers ever happens (stats.go:280-282, 307-313).             *)
AddAccepts == addErr => restarted
=============================================================================
