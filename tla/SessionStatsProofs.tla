-------------------------- MODULE SessionStatsProofs --------------------------
(***************************************************************************)
(* The counters of a session's statistics, for any number of packets and   *)
(* of copies of them and of their replies.                                 *)
(***************************************************************************)
EXTENDS Integers, SessionStats, MathProofs, FiniteSetTheorems, TLAPS

Lost == {p \in SentSeqs : fwd[p].lost}
Seen == {p \in SentSeqs : fwd[p].seen > 0}

(* The nodes of the packets and what the stream and the path say of them.  *)
NodeInv ==
  /\ \A p \in SentSeqs : /\ fwd[p].lost <=> Stream!LostIn(stream, p)
                         /\ fwd[p].lost => p < frontier
                         /\ fwd[p].seen > 0 <=> Answered(p)
                         /\ fwd[p].seen > 0 => Stream!AnsweredIn(stream, p)
  /\ \A r \in Refls : bck[r].seen > 0 => /\ bck[r].assoc \in SentSeqs
                                         /\ answers[bck[r].assoc][r] > 0

CountInv ==
  /\ statLost = Cardinality(Lost)
  /\ statSent = Cardinality(Lost \cup Seen)

(* The reply r of the packet p is on its way or has been counted.          *)
Has(p, r) == inbound[p][r] > 0 \/ answers[p][r] > 0

(* As long as the reflector numbers on, a number belongs to one packet.    *)
NumberInv ==
  \/ restarted
  \/ /\ ~ addErr
     /\ \A p \in SentSeqs, r \in Refls : Has(p, r) => r < reflSeq
     /\ \A p, q \in SentSeqs, r \in Refls : Has(p, r) /\ Has(q, r) => p = q

RangeInv == /\ RangeOfRecords
            /\ ~ haveFirst => stream = << >> /\ last = 0

Inv == TypeOK /\ NodeInv /\ CountInv /\ NumberInv /\ RangeInv

-----------------------------------------------------------------------------
LEMMA Params ==
  /\ NPackets \in Nat \ {0} /\ SentSeqs = 0 .. NPackets - 1
  /\ MaxFwd \in Nat /\ MaxBck \in Nat
  /\ Refls = 0 .. NPackets * MaxFwd - 1
  /\ SentSeqs \subseteq Nat /\ Refls \subseteq Nat
  /\ Stream!Pkts = SentSeqs
BY PathAssumption, NumbersAssumption DEF Stream!Pkts

LEMMA SetsFinite ==
  /\ IsFiniteSet(SentSeqs)
  /\ \A T \in SUBSET SentSeqs : IsFiniteSet(T)
<1>1. IsFiniteSet(0 .. NPackets - 1)
  <2>1. 0 \in Int /\ NPackets - 1 \in Int  BY Params
  <2> QED  BY <2>1, FS_Interval
<1> QED  BY <1>1, Params, FS_Subset

(* The stream after one more record.                                       *)
LEMMA Recorded ==
  ASSUME stream \in Seq(Stream!Record), NEW p \in SentSeqs, NEW l \in BOOLEAN,
         stream' = Append(stream, [seq |-> p, lost |-> l])
  PROVE  /\ stream' \in Seq(Stream!Record)
         /\ \A k \in DOMAIN stream : k \in DOMAIN stream' /\ stream'[k] = stream[k]
         /\ \E k \in DOMAIN stream' : stream'[k].seq = p /\ stream'[k].lost = l
         /\ \A k \in DOMAIN stream' :
              \/ k \in DOMAIN stream /\ stream'[k] = stream[k]
              \/ stream'[k].seq = p /\ stream'[k].lost = l
<1> DEFINE r == [seq |-> p, lost |-> l]
           n == Len(stream)
<1>1. r \in Stream!Record /\ r.seq = p /\ r.lost = l  BY Params DEF Stream!Record
<1> HIDE DEF r
<1>2. stream' = Append(stream, r)  BY DEF r
<1>3. /\ stream' \in Seq(Stream!Record) /\ n \in Nat /\ DOMAIN stream = 1 .. n
      /\ DOMAIN stream' = 1 .. n + 1 /\ stream'[n + 1] = r
      /\ \A k \in 1 .. n : stream'[k] = stream[k]
  BY <1>1, <1>2
<1>4. n + 1 \in DOMAIN stream'  BY <1>3
<1>5. \A k \in DOMAIN stream' : k \in DOMAIN stream \/ k = n + 1  BY <1>3
<1>6. \A k \in DOMAIN stream : k \in DOMAIN stream'  BY <1>3
<1> QED  BY <1>1, <1>3, <1>4, <1>5, <1>6

(* An interval holds what lies between its ends.                           *)
LEMMA Between ==
  ASSUME NEW c \in Int, NEW d \in Int, NEW n \in Int, c <= n, n < d
  PROVE  n \in c .. d - 1
OBVIOUS

(* A wider interval holds what a narrower one holds.                       *)
LEMMA Widened ==
  ASSUME NEW a \in Int, NEW b \in Int, NEW c \in Int, NEW d \in Int,
         c <= a, b <= d, NEW n \in a .. b - 1
  PROVE  n \in c .. d - 1
OBVIOUS

(* CountRange keeps the range of what has been recorded.                   *)
LEMMA RangeKept ==
  ASSUME TypeOK, RangeInv, NEW p \in SentSeqs, NEW l \in BOOLEAN, CountRange(p),
         stream' = Append(stream, [seq |-> p, lost |-> l])
  PROVE  RangeInv' /\ first' \in Nat /\ last' \in Nat /\ haveFirst'
<1>1. /\ stream \in Seq(Stream!Record) /\ first \in Nat /\ last \in Nat /\ p \in Nat
      /\ haveFirst \in BOOLEAN
  BY Params DEF TypeOK, StatsTypeOK, Stream!StreamTypeOK
<1>2. /\ \A k \in DOMAIN stream : k \in DOMAIN stream' /\ stream'[k] = stream[k]
      /\ \E k \in DOMAIN stream' : stream'[k].seq = p
      /\ \A k \in DOMAIN stream' : \/ k \in DOMAIN stream /\ stream'[k] = stream[k]
                                   \/ stream'[k].seq = p
  BY <1>1, Recorded
<1>3. first' \in Int /\ last' \in Int /\ first' <= p /\ p < last'
  BY <1>1 DEF CountRange
<1>7. first \in Int /\ last \in Int /\ p \in Int  BY <1>1
<1>6. first' \in Nat /\ last' \in Nat /\ haveFirst'  BY <1>1 DEF CountRange
<1>4. CASE ~ haveFirst
  <2>1. stream = << >> /\ first' = p  BY <1>1, <1>4 DEF RangeInv, CountRange
  <2>2. \A k \in DOMAIN stream' : stream'[k].seq = p  BY <1>2, <2>1
  <2>3. last' = p + 1 /\ (p + 1) - 1 = p  BY <1>1, <1>4 DEF RangeInv, CountRange
  <2>4. p \in first' .. last' - 1  BY <1>1, <2>1, <2>3
  <2> QED  BY <1>2, <1>6, <2>1, <2>2, <2>3, <2>4 DEF RangeInv, RangeOfRecords
<1>5. CASE haveFirst
  <2>1. /\ \E k \in DOMAIN stream : stream[k].seq = first
        /\ \E k \in DOMAIN stream : stream[k].seq = last - 1
        /\ \A k \in DOMAIN stream : stream[k].seq \in first .. last - 1
    BY <1>5 DEF RangeInv, RangeOfRecords
  <2>2. /\ first' = p \/ (first' = first /\ first <= p)
        /\ last' = p + 1 \/ last' = last
        /\ first' <= first /\ last <= last'
    BY <1>1, <1>5 DEF CountRange
  <2>3. \E k \in DOMAIN stream' : stream'[k].seq = first'  BY <1>2, <2>1, <2>2
  <2>4. \E k \in DOMAIN stream' : stream'[k].seq = last' - 1
    <3>1. (p + 1) - 1 = p  BY <1>1
    <3> QED  BY <1>2, <2>1, <2>2, <3>1
  <2>5. ASSUME NEW k \in DOMAIN stream' PROVE stream'[k].seq \in first' .. last' - 1
    <3>1. p \in first' .. last' - 1  BY <1>3, <1>7, Between
    <3>2. CASE k \in DOMAIN stream /\ stream'[k] = stream[k]
      <4>1. stream[k].seq \in first .. last - 1  BY <2>1, <3>2
      <4>2. stream[k].seq \in first' .. last' - 1  BY <1>3, <1>7, <2>2, <4>1, Widened
      <4> QED  BY <3>2, <4>2
    <3> QED  BY <1>2, <3>1, <3>2
  <2> QED  BY <1>6, <2>3, <2>4, <2>5 DEF RangeInv, RangeOfRecords
<1> QED  BY <1>1, <1>4, <1>5, <1>6

(* What a record says of the packets: its own, and as before of the rest.  *)
LEMMA Told ==
  ASSUME stream \in Seq(Stream!Record), NEW p \in SentSeqs, NEW l \in BOOLEAN,
         stream' = Append(stream, [seq |-> p, lost |-> l]), NEW q \in SentSeqs
  PROVE  /\ Stream!LostIn(stream', q) <=> Stream!LostIn(stream, q) \/ (l /\ q = p)
         /\ Stream!AnsweredIn(stream', q) <=> Stream!AnsweredIn(stream, q) \/ (~ l /\ q = p)
BY Recorded DEF Stream!LostIn, Stream!AnsweredIn

-----------------------------------------------------------------------------
(* The counters are about the sets of packets lost and seen.               *)
LEMMA CountedOnce ==
  ASSUME TypeOK, NodeInv, CountInv
  PROVE  PacketsCountedOnce
<1>1. LostPkts = Lost  BY DEF NodeInv, LostPkts, Lost
<1>2. {p \in SentSeqs : Answered(p)} = Seen  BY DEF NodeInv, Seen
<1> QED  BY <1>1, <1>2 DEF CountInv, PacketsCountedOnce

(* One more packet lost.                                                   *)
LEMMA LossCounted ==
  ASSUME TypeOK, NodeInv, CountInv, NEW p \in SentSeqs,
         ~ fwd[p].lost, fwd[p].seen = 0,
         fwd' = [fwd EXCEPT ![p].lost = TRUE],
         statSent' = statSent + 1, statLost' = statLost + 1
  PROVE  /\ fwd' \in [SentSeqs -> Node(Refls)]
         /\ \A q \in SentSeqs : /\ fwd'[q].lost <=> fwd[q].lost \/ q = p
                                /\ fwd'[q].seen = fwd[q].seen
         /\ CountInv'
<1>1. fwd \in [SentSeqs -> Node(Refls)]  BY DEF TypeOK, StatsTypeOK
<1>2. fwd' \in [SentSeqs -> Node(Refls)]  BY <1>1 DEF Node
<1>3. \A q \in SentSeqs : /\ fwd'[q].lost <=> fwd[q].lost \/ q = p
                          /\ fwd'[q].seen = fwd[q].seen
  BY <1>1 DEF Node
<1>4. Lost' = Lost \cup {p} /\ p \notin Lost /\ Seen' = Seen /\ p \notin Seen
  BY <1>3 DEF Lost, Seen
<1>5. IsFiniteSet(Lost) /\ IsFiniteSet(Lost \cup Seen)  BY SetsFinite DEF Lost, Seen
<1>6. Lost' \cup Seen' = (Lost \cup Seen) \cup {p}  BY <1>4
<1>7. /\ Cardinality(Lost') = Cardinality(Lost) + 1
      /\ Cardinality(Lost' \cup Seen') = Cardinality(Lost \cup Seen) + 1
  BY <1>4, <1>5, <1>6, FS_AddElement
<1> QED  BY <1>2, <1>3, <1>7 DEF CountInv

(* One more packet answered for the first time.                            *)
LEMMA AnswerCounted ==
  ASSUME TypeOK, NodeInv, CountInv, NEW p \in SentSeqs, NEW r \in Refls, NEW b \in Buckets,
         ~ fwd[p].lost, CountFirst(p, r, b), UNCHANGED statLost
  PROVE  /\ fwd' \in [SentSeqs -> Node(Refls)]
         /\ \A q \in SentSeqs : /\ fwd'[q].lost = fwd[q].lost
                                /\ fwd'[q].seen > 0 <=> fwd[q].seen > 0 \/ q = p
         /\ CountInv'
<1>1. fwd \in [SentSeqs -> Node(Refls)] /\ fwd' = [fwd EXCEPT ![p].seen = 1, ![p].assoc = r]
  BY DEF TypeOK, StatsTypeOK, CountFirst
<1>2. fwd' \in [SentSeqs -> Node(Refls)]  BY <1>1 DEF Node
<1>3. \A q \in SentSeqs : /\ fwd'[q].lost = fwd[q].lost
                          /\ fwd'[q].seen > 0 <=> fwd[q].seen > 0 \/ q = p
  BY <1>1 DEF Node
<1>4. Lost' = Lost /\ p \notin Lost /\ Seen' = Seen \cup {p} /\ p \notin Seen
  BY <1>3, <1>1 DEF Lost, Seen, CountFirst
<1>5. IsFiniteSet(Lost \cup Seen)  BY SetsFinite DEF Lost, Seen
<1>6. Lost' \cup Seen' = (Lost \cup Seen) \cup {p} /\ p \notin Lost \cup Seen  BY <1>4
<1>7. Cardinality(Lost' \cup Seen') = Cardinality(Lost \cup Seen) + 1
  BY <1>5, <1>6, FS_AddElement
<1> QED  BY <1>2, <1>3, <1>4, <1>7 DEF CountInv, CountFirst

(* A duplicate changes no set.                                             *)
LEMMA DuplicateCounted ==
  ASSUME TypeOK, NodeInv, CountInv, NEW p \in SentSeqs, NEW r \in Refls, NEW b \in Buckets,
         CountSendDuplicate(p, r) \/ CountReflectDuplicate(p, r, b), UNCHANGED statLost
  PROVE  /\ fwd' \in [SentSeqs -> Node(Refls)]
         /\ \A q \in SentSeqs : /\ fwd'[q].lost = fwd[q].lost
                                /\ fwd'[q].seen > 0 <=> fwd[q].seen > 0
         /\ fwd[p].seen > 0
         /\ CountInv'
<1>1. /\ fwd \in [SentSeqs -> Node(Refls)] /\ fwd[p].seen > 0
      /\ fwd' = [fwd EXCEPT ![p].seen = @ + 1] \/ fwd' = fwd
      /\ statSent' = statSent
  BY DEF TypeOK, StatsTypeOK, CountSendDuplicate, CountReflectDuplicate, SendDuplicate
<1>2. fwd' \in [SentSeqs -> Node(Refls)]  BY <1>1 DEF Node
<1>3. \A q \in SentSeqs : /\ fwd'[q].lost = fwd[q].lost
                          /\ fwd'[q].seen > 0 <=> fwd[q].seen > 0
  BY <1>1 DEF Node
<1>4. Lost' = Lost /\ Seen' = Seen  BY <1>3 DEF Lost, Seen
<1> QED  BY <1>1, <1>2, <1>3, <1>4 DEF CountInv

-----------------------------------------------------------------------------
(* A step on the path leaves what has been counted as it was.              *)
LEMMA CountsKept ==
  ASSUME Inv, UNCHANGED <<statsVars, stream, frontier, answers>>
  PROVE  StatsTypeOK' /\ NodeInv' /\ CountInv' /\ RangeInv'
<1>1. /\ fwd' = fwd /\ bck' = bck /\ statSent' = statSent /\ statLost' = statLost
      /\ stream' = stream /\ frontier' = frontier /\ answers' = answers
      /\ first' = first /\ last' = last /\ haveFirst' = haveFirst
  BY DEF statsVars, nodeVars, counterVars, rangeVars
<1>2. StatsTypeOK'
  BY DEF Inv, TypeOK, StatsTypeOK, statsVars, nodeVars, counterVars, rangeVars
<1>3. NodeInv'  BY <1>1 DEF Inv, NodeInv, Answered
<1>4. CountInv'  BY <1>1 DEF Inv, CountInv, Lost, Seen
<1>5. RangeInv'  BY <1>1 DEF Inv, RangeInv, RangeOfRecords
<1> QED  BY <1>2, <1>3, <1>4, <1>5

(* Fewer replies on their way break no rule about their numbers.           *)
LEMMA NumbersKept ==
  ASSUME Inv, UNCHANGED <<reflSeq, restarted, addErr>>,
         \A p \in SentSeqs, r \in Refls : Has(p, r)' => Has(p, r)
  PROVE  NumberInv'
BY DEF Inv, NumberInv

(* A reply less on its way.                                                *)
LEMMA ReplyTaken ==
  ASSUME Inv, NEW p \in SentSeqs, NEW r \in Refls, inbound[p][r] > 0,
         inbound' = [inbound EXCEPT ![p][r] = @ - 1]
  PROVE  /\ inbound' \in [SentSeqs -> [Refls -> Nat]]
         /\ \A q \in SentSeqs, s \in Refls : inbound'[q][s] > 0 => inbound[q][s] > 0
<1>1. inbound \in [SentSeqs -> [Refls -> Nat]]  BY DEF Inv, TypeOK
<1>2. inbound[p][r] \in Nat /\ inbound[p][r] - 1 \in Nat  BY <1>1
<1>3. \A q \in SentSeqs, s \in Refls :
        inbound'[q][s] = IF q = p /\ s = r THEN inbound[p][r] - 1 ELSE inbound[q][s]
  BY <1>1
<1> QED  BY <1>1, <1>2, <1>3

(* The invariant holds at the start and after every action, one lemma for  *)
(* each.                                                                   *)
LEMMA InitInv == Init => Inv
<1> SUFFICES ASSUME Init PROVE Inv  OBVIOUS
<1>1. TypeOK
  <2>1. StatsTypeOK  BY DEF Init, StatsInit, StatsTypeOK, Node, NewNode
  <2>2. Stream!StreamTypeOK  BY Params DEF Init, Stream!Init, Stream!StreamTypeOK
  <2>3. NPackets * MaxFwd \in Nat  BY Params
  <2>4. 0 \in 0 .. NPackets /\ 0 \in 0 .. MaxFwd /\ 0 \in 0 .. NPackets * MaxFwd
    BY <2>3, Params
  <2>5. outbound \in [SentSeqs -> 0 .. MaxFwd]  BY <2>4 DEF Init
  <2>6. /\ inbound \in [SentSeqs -> [Refls -> Nat]] /\ answers \in [SentSeqs -> [Refls -> Nat]]
        /\ nextSend \in 0 .. NPackets /\ reflSeq \in 0 .. NPackets * MaxFwd
        /\ restarted \in BOOLEAN
    BY <2>4 DEF Init
  <2> QED  BY <2>1, <2>2, <2>5, <2>6 DEF TypeOK
<1>2. NodeInv
  BY DEF Init, StatsInit, NewNode, Stream!Init, NodeInv, Answered, Stream!LostIn,
         Stream!AnsweredIn
<1>3. CountInv
  <2>1. Lost = {} /\ Seen = {}  BY DEF Init, StatsInit, NewNode, Lost, Seen
  <2> QED  BY <2>1, FS_EmptySet DEF Init, StatsInit, CountInv
<1>4. NumberInv  BY DEF Init, StatsInit, NumberInv, Has
<1>5. RangeInv  BY DEF Init, StatsInit, Stream!Init, RangeInv, RangeOfRecords
<1> QED  BY <1>1, <1>2, <1>3, <1>4, <1>5 DEF Inv

LEMMA SendPacketInv ==
  ASSUME Inv, SendPacket
  PROVE  Inv'
<1>1. StatsTypeOK' /\ NodeInv' /\ CountInv' /\ RangeInv'
  BY CountsKept DEF SendPacket, streamVars
<1>2. TypeOK'
  <2>1. Stream!StreamTypeOK'
    BY DEF Inv, TypeOK, SendPacket, streamVars, Stream!StreamTypeOK
  <2>2. nextSend' \in 0 .. NPackets  BY Params DEF Inv, TypeOK, SendPacket
  <2>3. outbound' \in [SentSeqs -> 0 .. MaxFwd]  BY DEF Inv, TypeOK, SendPacket
  <2>4. UNCHANGED <<reflSeq, restarted, inbound, answers>>  BY DEF SendPacket, reflVars
  <2> QED  BY <1>1, <2>1, <2>2, <2>3, <2>4 DEF Inv, TypeOK
<1>3. NumberInv'
  BY NumbersKept DEF SendPacket, reflVars, statsVars, Has
<1> QED  BY <1>1, <1>2, <1>3 DEF Inv

LEMMA SkipPacketInv ==
  ASSUME Inv, SkipPacket
  PROVE  Inv'
<1>1. StatsTypeOK' /\ NodeInv' /\ CountInv' /\ RangeInv'
  BY CountsKept DEF SkipPacket, Stream!Exempt
<1>2. TypeOK'
  <2>1. Stream!StreamTypeOK'
    BY Params DEF Inv, TypeOK, SkipPacket, Stream!Exempt, Stream!StreamTypeOK
  <2>2. nextSend' \in 0 .. NPackets  BY Params DEF Inv, TypeOK, SkipPacket
  <2>3. UNCHANGED <<outbound, reflSeq, restarted, inbound, answers>>
    BY DEF SkipPacket, reflVars
  <2> QED  BY <1>1, <2>1, <2>2, <2>3 DEF Inv, TypeOK
<1>3. NumberInv'
  BY NumbersKept DEF SkipPacket, reflVars, statsVars, Has
<1> QED  BY <1>1, <1>2, <1>3 DEF Inv

(* The reflector's number is new, unless it has begun to number anew.      *)
LEMMA ReflectInv ==
  ASSUME Inv, NEW p \in SentSeqs, Reflect(p)
  PROVE  Inv'
<1> DEFINE N == NPackets * MaxFwd
<1>1. StatsTypeOK' /\ NodeInv' /\ CountInv' /\ RangeInv'
  BY CountsKept DEF Reflect, streamVars
<1>2. PICK c \in 0 .. MaxBck : inbound' = [inbound EXCEPT ![p][reflSeq] = @ + c]
  BY DEF Reflect
<1>3. /\ inbound \in [SentSeqs -> [Refls -> Nat]] /\ reflSeq \in Refls /\ c \in Nat
      /\ reflSeq \in Nat /\ reflSeq' = reflSeq + 1
  BY Params DEF Inv, TypeOK, Reflect
<1>4. inbound' \in [SentSeqs -> [Refls -> Nat]]
  <2>1. inbound[p][reflSeq] + c \in Nat  BY <1>3
  <2> QED  BY <1>2, <1>3, <2>1
<1>5. \A q \in SentSeqs, r \in Refls :
        inbound'[q][r] > 0 => inbound[q][r] > 0 \/ (q = p /\ r = reflSeq)
  BY <1>2, <1>3
<1>6. TypeOK'
  <2>1. Stream!StreamTypeOK'  BY DEF Inv, TypeOK, Reflect, streamVars, Stream!StreamTypeOK
  <2>2. outbound' \in [SentSeqs -> 0 .. MaxFwd]  BY Params DEF Inv, TypeOK, Reflect
  <2>3. reflSeq' \in 0 .. N
    <3>1. N \in Nat /\ reflSeq \in 0 .. N - 1  BY <1>3, Params
    <3> HIDE DEF N
    <3> QED  BY <1>3, <3>1
  <2> QED  BY <1>1, <1>4, <2>1, <2>2, <2>3 DEF Inv, TypeOK, Reflect
<1>7. NumberInv'
  <2>1. CASE restarted  BY <2>1 DEF Reflect, NumberInv
  <2>2. CASE ~ restarted
    <3>1. /\ ~ addErr
          /\ \A q \in SentSeqs, r \in Refls : Has(q, r) => r < reflSeq
          /\ \A q, s \in SentSeqs, r \in Refls : Has(q, r) /\ Has(s, r) => q = s
      BY <2>2 DEF Inv, NumberInv
    <3>2. addErr' = addErr /\ answers' = answers  BY DEF Reflect, statsVars
    <3>3. \A q \in SentSeqs, r \in Refls : Has(q, r)' => Has(q, r) \/ (q = p /\ r = reflSeq)
      BY <1>5, <3>2 DEF Has
    <3>4. \A q \in SentSeqs, r \in Refls : Has(q, r)' => r < reflSeq'
      <4> SUFFICES ASSUME NEW q \in SentSeqs, NEW r \in Refls, Has(q, r)'
                   PROVE  r < reflSeq'
        OBVIOUS
      <4>1. r \in Nat /\ (r < reflSeq \/ r = reflSeq)  BY <1>3, <3>1, <3>3, Params
      <4> QED  BY <1>3, <4>1
    <3>5. \A q \in SentSeqs : ~ Has(q, reflSeq)  BY <1>3, <3>1
    <3>6. \A q, s \in SentSeqs, r \in Refls : Has(q, r)' /\ Has(s, r)' => q = s
      BY <3>1, <3>3, <3>5
    <3> QED  BY <3>1, <3>2, <3>4, <3>6 DEF NumberInv
  <2> QED  BY <2>1, <2>2
<1> QED  BY <1>1, <1>6, <1>7 DEF Inv

LEMMA RestartInv ==
  ASSUME Inv, RestartReflector
  PROVE  Inv'
<1>1. StatsTypeOK' /\ NodeInv' /\ CountInv' /\ RangeInv'
  BY CountsKept DEF RestartReflector, streamVars
<1>2. TypeOK'
  <2>1. Stream!StreamTypeOK'
    BY DEF Inv, TypeOK, RestartReflector, streamVars, Stream!StreamTypeOK
  <2>2. NPackets * MaxFwd \in Nat  BY Params
  <2>3. reflSeq' \in 0 .. NPackets * MaxFwd  BY <2>2 DEF RestartReflector
  <2>4. restarted' \in BOOLEAN /\ UNCHANGED <<nextSend, outbound, inbound, answers>>
    BY DEF RestartReflector
  <2> QED  BY <1>1, <2>1, <2>3, <2>4 DEF Inv, TypeOK
<1>3. NumberInv'  BY DEF RestartReflector, NumberInv
<1> QED  BY <1>1, <1>2, <1>3 DEF Inv

LEMMA DropLateInv ==
  ASSUME Inv, NEW p \in SentSeqs, NEW r \in Refls, DropLate(p, r)
  PROVE  Inv'
<1>1. StatsTypeOK' /\ NodeInv' /\ CountInv' /\ RangeInv'
  BY CountsKept DEF DropLate, streamVars
<1>2. /\ inbound' \in [SentSeqs -> [Refls -> Nat]]
      /\ \A q \in SentSeqs, s \in Refls : inbound'[q][s] > 0 => inbound[q][s] > 0
  BY ReplyTaken DEF DropLate
<1>3. TypeOK'
  <2>1. Stream!StreamTypeOK'  BY DEF Inv, TypeOK, DropLate, streamVars, Stream!StreamTypeOK
  <2>2. UNCHANGED <<nextSend, outbound, reflSeq, restarted, answers>>
    BY DEF DropLate, reflVars
  <2> QED  BY <1>1, <1>2, <2>1, <2>2 DEF Inv, TypeOK
<1>4. NumberInv'
  <2>1. UNCHANGED <<reflSeq, restarted, addErr, answers>>
    BY DEF DropLate, reflVars, statsVars
  <2>2. \A q \in SentSeqs, s \in Refls : Has(q, s)' => Has(q, s)
    BY <1>2, <2>1 DEF Has
  <2> QED  BY <2>1, <2>2, NumbersKept
<1> QED  BY <1>1, <1>3, <1>4 DEF Inv

LEMMA ExpireAccountedInv ==
  ASSUME Inv, ExpireAccounted
  PROVE  Inv'
<1>1. /\ frontier \in Nat /\ frontier < NPackets /\ frontier' = frontier + 1
      /\ UNCHANGED <<statsVars, pathVars, answers, stream, exempt>>
  BY Params DEF Inv, TypeOK, Stream!StreamTypeOK, ExpireAccounted, Stream!CloseAccounted
<1>2. /\ fwd' = fwd /\ bck' = bck /\ statSent' = statSent /\ statLost' = statLost
      /\ first' = first /\ last' = last /\ haveFirst' = haveFirst /\ addErr' = addErr
      /\ UNCHANGED <<nextSend, outbound, inbound, reflSeq, restarted>>
  BY <1>1 DEF statsVars, nodeVars, counterVars, rangeVars, pathVars, reflVars
<1>3. TypeOK'
  <2>1. StatsTypeOK'
    BY <1>1 DEF Inv, TypeOK, StatsTypeOK, statsVars, nodeVars, counterVars, rangeVars
  <2>2. Stream!StreamTypeOK'
    BY <1>1, Params DEF Inv, TypeOK, Stream!StreamTypeOK, Stream!Record, Stream!Pkts
  <2> QED  BY <1>1, <1>2, <2>1, <2>2 DEF Inv, TypeOK
<1>4. NodeInv'
  <2>1. \A p \in SentSeqs : fwd[p].lost => p < frontier'
    BY <1>1, Params DEF Inv, NodeInv
  <2> QED  BY <1>1, <1>2, <2>1 DEF Inv, NodeInv, Answered
<1>5. CountInv' /\ RangeInv'
  BY <1>1, <1>2 DEF Inv, CountInv, Lost, Seen, RangeInv, RangeOfRecords
<1>6. NumberInv'  BY <1>1, <1>2, NumbersKept DEF Has
<1> QED  BY <1>3, <1>4, <1>5, <1>6 DEF Inv

(* The session reports a packet lost once, and never after an answer: Add  *)
(* finds the packet neither lost nor seen.                                 *)
LEMMA ExpireLostInv ==
  ASSUME Inv, ExpireLost
  PROVE  Inv'
<1>1. /\ frontier \in SentSeqs /\ frontier \in Nat /\ frontier < NPackets
      /\ frontier' = frontier + 1 /\ ~ Stream!AnsweredIn(stream, frontier)
      /\ stream' = Append(stream, [seq |-> frontier, lost |-> TRUE])
      /\ UNCHANGED <<exempt, pathVars, answers>>
      /\ AddLost(frontier) /\ CountRange(frontier)
  BY Params DEF Inv, TypeOK, Stream!StreamTypeOK, ExpireLost, Stream!CloseLost, AddLost
<1>2. ~ fwd[frontier].lost /\ fwd[frontier].seen = 0
  <2>1. ~ fwd[frontier].lost /\ ~ fwd[frontier].seen > 0  BY <1>1 DEF Inv, NodeInv
  <2>2. fwd[frontier].seen \in Nat  BY <1>1 DEF Inv, TypeOK, StatsTypeOK, Node
  <2> QED  BY <2>1, <2>2
<1>3. /\ fwd' = [fwd EXCEPT ![frontier].lost = TRUE]
      /\ statSent' = statSent + 1 /\ statLost' = statLost + 1
      /\ UNCHANGED <<bck, buckets, dupsFwd, dupsBck, addErr>>
      /\ UNCHANGED <<nextSend, outbound, inbound, reflSeq, restarted>>
  BY <1>1, <1>2 DEF AddLost, pathVars, reflVars
<1>4. /\ fwd' \in [SentSeqs -> Node(Refls)]
      /\ \A q \in SentSeqs : /\ fwd'[q].lost <=> fwd[q].lost \/ q = frontier
                             /\ fwd'[q].seen = fwd[q].seen
      /\ CountInv'
  BY <1>1, <1>2, <1>3, LossCounted DEF Inv
<1>5. stream \in Seq(Stream!Record)  BY DEF Inv, TypeOK, Stream!StreamTypeOK
<1>6. RangeInv' /\ first' \in Nat /\ last' \in Nat /\ haveFirst'
  BY <1>1, RangeKept DEF Inv
<1>7. TypeOK'
  <2>1. StatsTypeOK'
    BY <1>3, <1>4, <1>6 DEF Inv, TypeOK, StatsTypeOK
  <2>2. stream' \in Seq(Stream!Record)  BY <1>1, <1>5, Recorded
  <2>3. frontier' \in 0 .. NPackets  BY <1>1, Params
  <2>4. Stream!StreamTypeOK'
    BY <1>1, <2>2, <2>3 DEF Inv, TypeOK, Stream!StreamTypeOK
  <2> QED  BY <1>1, <1>3, <2>1, <2>4 DEF Inv, TypeOK
<1>8. NodeInv'
  <2>1. ASSUME NEW q \in SentSeqs
        PROVE  /\ fwd'[q].lost <=> Stream!LostIn(stream', q)
               /\ fwd'[q].lost => q < frontier'
               /\ fwd'[q].seen > 0 <=> Answered(q)'
               /\ fwd'[q].seen > 0 => Stream!AnsweredIn(stream', q)
    <3>1. /\ fwd[q].lost <=> Stream!LostIn(stream, q)
          /\ fwd[q].lost => q < frontier
          /\ fwd[q].seen > 0 <=> Answered(q)
          /\ fwd[q].seen > 0 => Stream!AnsweredIn(stream, q)
      BY DEF Inv, NodeInv
    <3>2. /\ Stream!LostIn(stream', q) <=> Stream!LostIn(stream, q) \/ q = frontier
          /\ Stream!AnsweredIn(stream', q) <=> Stream!AnsweredIn(stream, q)
      BY <1>1, <1>5, Told
    <3>3. q < frontier => q < frontier'  BY <1>1, Params
    <3>4. frontier < frontier'  BY <1>1
    <3>5. Answered(q)' <=> Answered(q)  BY <1>1 DEF Answered
    <3> QED  BY <1>4, <3>1, <3>2, <3>3, <3>4, <3>5
  <2>2. \A r \in Refls : bck'[r].seen > 0 => /\ bck'[r].assoc \in SentSeqs
                                            /\ answers'[bck'[r].assoc][r] > 0
    BY <1>1, <1>3 DEF Inv, NodeInv
  <2> QED  BY <2>1, <2>2 DEF NodeInv
<1>9. NumberInv'  BY <1>1, <1>3, NumbersKept DEF Has
<1> QED  BY <1>4, <1>6, <1>7, <1>8, <1>9 DEF Inv

(* While the reflector numbers on, the number of a reply on its way is     *)
(* tied to no other packet.                                                *)
LEMMA NoConflict ==
  ASSUME Inv, ~ restarted, NEW p \in SentSeqs, NEW r \in Refls, inbound[p][r] > 0
  PROVE  ~ Conflicting(p, r)
<1> SUFFICES ASSUME bck[r].seen > 0 PROVE bck[r].assoc = p  BY DEF Conflicting
<1>1. bck[r].assoc \in SentSeqs /\ answers[bck[r].assoc][r] > 0  BY DEF Inv, NodeInv
<1>2. Has(bck[r].assoc, r) /\ Has(p, r)  BY <1>1 DEF Has
<1> QED  BY <1>1, <1>2 DEF Inv, NumberInv

(* An answer that Add accepts.                                             *)
LEMMA Accepted ==
  ASSUME Inv, NEW p \in SentSeqs, NEW r \in Refls, NEW b \in Buckets,
         ~ addErr, ~ fwd[p].lost, ~ Conflicting(p, r), AddAnswer(p, r, b),
         answers' = [answers EXCEPT ![p][r] = @ + 1]
  PROVE  /\ fwd' \in [SentSeqs -> Node(Refls)]
         /\ \A q \in SentSeqs : /\ fwd'[q].lost = fwd[q].lost
                                /\ fwd'[q].seen > 0 <=> fwd[q].seen > 0 \/ q = p
                                /\ Answered(q)' <=> Answered(q) \/ q = p
         /\ answers' \in [SentSeqs -> [Refls -> Nat]]
         /\ bck' \in [Refls -> Node(SentSeqs)]
         /\ \A s \in Refls : bck'[s].seen > 0 => /\ bck'[s].assoc \in SentSeqs
                                                 /\ answers'[bck'[s].assoc][s] > 0
         /\ \A q \in SentSeqs, s \in Refls :
              answers'[q][s] > 0 <=> answers[q][s] > 0 \/ (q = p /\ s = r)
         /\ buckets' \in [Buckets -> Nat] /\ statSent' \in Nat /\ statLost' \in Nat
         /\ dupsFwd' \in Nat /\ dupsBck' \in Nat /\ ~ addErr'
         /\ CountInv'
<1>1. /\ bck \in [Refls -> Node(SentSeqs)] /\ answers \in [SentSeqs -> [Refls -> Nat]]
      /\ buckets \in [Buckets -> Nat] /\ statSent \in Nat /\ statLost \in Nat
      /\ dupsFwd \in Nat /\ dupsBck \in Nat
  BY DEF Inv, TypeOK, StatsTypeOK
<1>2. /\ Link(p, r)
      /\ \/ CountFirst(p, r, b)
         \/ CountSendDuplicate(p, r)
         \/ CountReflectDuplicate(p, r, b)
      /\ statLost' = statLost /\ addErr' = addErr
  BY DEF AddAnswer
<1>3. /\ fwd' \in [SentSeqs -> Node(Refls)]
      /\ \A q \in SentSeqs : /\ fwd'[q].lost = fwd[q].lost
                             /\ fwd'[q].seen > 0 <=> fwd[q].seen > 0 \/ q = p
      /\ CountInv'
  BY <1>2, AnswerCounted, DuplicateCounted DEF Inv
<1>4. answers[p][r] \in Nat /\ answers[p][r] + 1 \in Nat /\ answers[p][r] + 1 > 0  BY <1>1
<1>5. /\ answers' \in [SentSeqs -> [Refls -> Nat]]
      /\ \A q \in SentSeqs, s \in Refls :
           answers'[q][s] = IF q = p /\ s = r THEN answers[p][r] + 1 ELSE answers[q][s]
  BY <1>1, <1>4
<1>6. \A q \in SentSeqs, s \in Refls :
        answers'[q][s] > 0 <=> answers[q][s] > 0 \/ (q = p /\ s = r)
  BY <1>4, <1>5
<1>7. \A q \in SentSeqs : Answered(q)' <=> Answered(q) \/ q = p  BY <1>6 DEF Answered
<1>8. /\ bck' \in [Refls -> Node(SentSeqs)]
      /\ bck'[r].assoc = p /\ \A s \in Refls \ {r} : bck'[s] = bck[s]
  <2>1. bck' = [bck EXCEPT ![r].seen = @ + 1, ![r].assoc = p]  BY <1>2 DEF Link
  <2>2. bck[r].seen + 1 \in Nat /\ bck[r] \in Node(SentSeqs)  BY <1>1 DEF Node
  <2>3. bck' = [bck EXCEPT ![r] = [bck[r] EXCEPT !.seen = @ + 1, !.assoc = p]]
    BY <1>1, <2>1
  <2>4. /\ [bck[r] EXCEPT !.seen = @ + 1, !.assoc = p] \in Node(SentSeqs)
        /\ [bck[r] EXCEPT !.seen = @ + 1, !.assoc = p].assoc = p
    BY <2>2 DEF Node
  <2> QED  BY <1>1, <2>3, <2>4
<1>9. ASSUME NEW s \in Refls, bck'[s].seen > 0
      PROVE  bck'[s].assoc \in SentSeqs /\ answers'[bck'[s].assoc][s] > 0
  <2>1. CASE s = r  BY <1>6, <1>8, <2>1
  <2>2. CASE s # r
    <3>1. bck[s].assoc \in SentSeqs /\ answers[bck[s].assoc][s] > 0
      BY <1>8, <1>9, <2>2 DEF Inv, NodeInv
    <3> QED  BY <1>6, <1>8, <2>2, <3>1
  <2> QED  BY <2>1, <2>2
<1>10. /\ buckets' \in [Buckets -> Nat] /\ statSent' \in Nat
       /\ dupsFwd' \in Nat /\ dupsBck' \in Nat
  BY <1>1, <1>2 DEF CountFirst, CountSendDuplicate, CountReflectDuplicate
<1> QED  BY <1>1, <1>2, <1>3, <1>5, <1>6, <1>7, <1>8, <1>9, <1>10

(* A record reaches Add, which counts it or refuses it.                    *)
LEMMA DeliverInv ==
  ASSUME Inv, NEW p \in SentSeqs, NEW r \in Refls, NEW b \in Buckets, Deliver(p, r, b)
  PROVE  Inv'
<1>1. /\ ~ addErr /\ inbound[p][r] > 0 /\ p >= frontier
      /\ inbound' = [inbound EXCEPT ![p][r] = @ - 1]
      /\ stream' = Append(stream, [seq |-> p, lost |-> FALSE])
      /\ AddAnswer(p, r, b) /\ CountRange(p)
      /\ UNCHANGED <<frontier, exempt, nextSend, outbound, reflSeq, restarted>>
  BY DEF Deliver, Stream!Answer, AddAnswer, reflVars
<1>2. ~ fwd[p].lost
  <2>1. fwd[p].lost => p < frontier  BY DEF Inv, NodeInv
  <2>2. frontier \in Nat /\ p \in Nat  BY Params DEF Inv, TypeOK, Stream!StreamTypeOK
  <2> QED  BY <1>1, <2>1, <2>2
<1>3. /\ inbound' \in [SentSeqs -> [Refls -> Nat]]
      /\ \A q \in SentSeqs, s \in Refls : inbound'[q][s] > 0 => inbound[q][s] > 0
  BY <1>1, ReplyTaken
<1>4. stream \in Seq(Stream!Record)  BY DEF Inv, TypeOK, Stream!StreamTypeOK
<1>5. RangeInv' /\ first' \in Nat /\ last' \in Nat /\ haveFirst'
  BY <1>1, RangeKept DEF Inv
<1>6. Stream!StreamTypeOK'
  BY <1>1, <1>4, Recorded DEF Inv, TypeOK, Stream!StreamTypeOK
<1>7. \A q \in SentSeqs :
        /\ Stream!LostIn(stream', q) <=> Stream!LostIn(stream, q)
        /\ Stream!AnsweredIn(stream', q) <=> Stream!AnsweredIn(stream, q) \/ q = p
  BY <1>1, <1>4, Told
<1>8. CASE Conflicting(p, r)
  <2>1. /\ addErr' = TRUE /\ UNCHANGED <<nodeVars, counterVars>> /\ answers' = answers
    BY <1>1, <1>2, <1>8 DEF AddAnswer, Deliver
  <2>2. /\ fwd' = fwd /\ bck' = bck /\ statSent' = statSent /\ statLost' = statLost
    BY <2>1 DEF nodeVars, counterVars
  <2>3. StatsTypeOK'
    BY <1>5, <2>1 DEF Inv, TypeOK, StatsTypeOK, nodeVars, counterVars
  <2>4. TypeOK'  BY <1>1, <1>3, <1>6, <2>1, <2>3 DEF Inv, TypeOK
  <2>5. NodeInv'  BY <1>1, <1>7, <2>1, <2>2 DEF Inv, NodeInv, Answered
  <2>6. CountInv'  BY <2>2 DEF Inv, CountInv, Lost, Seen
  <2>7. NumberInv'  BY <1>1, <1>8, NoConflict DEF NumberInv
  <2> QED  BY <1>5, <2>4, <2>5, <2>6, <2>7 DEF Inv
<1>9. CASE ~ Conflicting(p, r)
  <2>1. addErr' = addErr /\ ~ addErr'  BY <1>1, <1>2, <1>9 DEF AddAnswer
  <2>8. addErr' \in BOOLEAN  BY <2>1 DEF Inv, TypeOK, StatsTypeOK
  <2>2. answers' = [answers EXCEPT ![p][r] = @ + 1]  BY <2>1 DEF Deliver
  <2>3. /\ fwd' \in [SentSeqs -> Node(Refls)]
        /\ \A q \in SentSeqs : /\ fwd'[q].lost = fwd[q].lost
                               /\ fwd'[q].seen > 0 <=> fwd[q].seen > 0 \/ q = p
                               /\ Answered(q)' <=> Answered(q) \/ q = p
        /\ answers' \in [SentSeqs -> [Refls -> Nat]]
        /\ bck' \in [Refls -> Node(SentSeqs)]
        /\ \A s \in Refls : bck'[s].seen > 0 => /\ bck'[s].assoc \in SentSeqs
                                                /\ answers'[bck'[s].assoc][s] > 0
        /\ \A q \in SentSeqs, s \in Refls :
             answers'[q][s] > 0 <=> answers[q][s] > 0 \/ (q = p /\ s = r)
        /\ buckets' \in [Buckets -> Nat] /\ statSent' \in Nat /\ statLost' \in Nat
        /\ dupsFwd' \in Nat /\ dupsBck' \in Nat
        /\ CountInv'
    BY <1>1, <1>2, <1>9, <2>2, Accepted
  <2>4. StatsTypeOK'  BY <1>5, <2>3, <2>8 DEF StatsTypeOK
  <2>5. TypeOK'  BY <1>1, <1>3, <1>6, <2>3, <2>4 DEF Inv, TypeOK
  <2>6. NodeInv'  BY <1>1, <1>7, <2>3 DEF Inv, NodeInv
  <2>7. NumberInv'
    <3>1. \A q \in SentSeqs, s \in Refls : Has(q, s)' => Has(q, s)
      BY <1>1, <1>3, <2>3 DEF Has
    <3> QED  BY <1>1, <2>1, <3>1, NumbersKept
  <2> QED  BY <1>5, <2>3, <2>5, <2>6, <2>7 DEF Inv
<1> QED  BY <1>8, <1>9

-----------------------------------------------------------------------------
(* The invariant: the nodes, the counters, the numbers of the replies and  *)
(* the range agree with the stream and the path, after any number of       *)
(* records in any order (stats.go:244-383).                                *)
THEOREM StatsInvariant == Spec => []Inv
<1>1. Inv /\ [Next]_vars => Inv'
  <2> SUFFICES ASSUME Inv, [Next]_vars PROVE Inv'  OBVIOUS
  <2>1. CASE SendPacket  BY <2>1, SendPacketInv
  <2>2. CASE SkipPacket  BY <2>2, SkipPacketInv
  <2>3. CASE \E p \in SentSeqs : Reflect(p)  BY <2>3, ReflectInv
  <2>4. CASE RestartReflector  BY <2>4, RestartInv
  <2>5. CASE \E p \in SentSeqs, r \in Refls, b \in Buckets : Deliver(p, r, b)
    BY <2>5, DeliverInv
  <2>6. CASE \E p \in SentSeqs, r \in Refls : DropLate(p, r)  BY <2>6, DropLateInv
  <2>7. CASE ExpireLost  BY <2>7, ExpireLostInv
  <2>8. CASE ExpireAccounted  BY <2>8, ExpireAccountedInv
  <2>9. CASE UNCHANGED vars
    <3>1. UNCHANGED <<statsVars, streamVars, pathVars, answers>>  BY <2>9 DEF vars
    <3>2. /\ UNCHANGED <<stream, frontier, exempt, nextSend, outbound, inbound, reflSeq, restarted>>
          /\ UNCHANGED <<answers, addErr>>
      BY <3>1 DEF streamVars, pathVars, reflVars, statsVars
    <3>3. StatsTypeOK' /\ NodeInv' /\ CountInv' /\ RangeInv'  BY <3>1, <3>2, CountsKept
    <3>4. TypeOK'  BY <3>2, <3>3 DEF Inv, TypeOK, Stream!StreamTypeOK
    <3>5. NumberInv'  BY <3>2, NumbersKept DEF Has
    <3> QED  BY <3>3, <3>4, <3>5 DEF Inv
  <2> QED  BY <2>1, <2>2, <2>3, <2>4, <2>5, <2>6, <2>7, <2>8, <2>9 DEF Next, Finished
<1> QED  BY InitInv, <1>1, PTL DEF Spec

(* All state keeps to its type.                                            *)
THEOREM StatsTypes == Spec => []TypeOK
<1>1. Inv => TypeOK  BY DEF Inv
<1> QED  BY <1>1, StatsInvariant, PTL

(* sent and lost count the packets answered or lost, each once, whatever   *)
(* was copied on the path (stats.go:279-287, 318-322).                     *)
THEOREM StatsCountPackets == Spec => []PacketsCountedOnce
<1>1. Inv => PacketsCountedOnce  BY CountedOnce DEF Inv
<1> QED  BY <1>1, StatsInvariant, PTL

(* [first, last) spans the numbers recorded in any order (stats.go:258-275). *)
THEOREM StatsRange == Spec => []RangeOfRecords
<1>1. Inv => RangeOfRecords  BY DEF Inv, RangeInv
<1> QED  BY <1>1, StatsInvariant, PTL

(* Only a reflector that numbers anew makes Add refuse a record            *)
(* (stats.go:280-282, 307-313).                                            *)
THEOREM StatsAccepts == Spec => []AddAccepts
<1>1. Inv => AddAccepts  BY DEF Inv, NumberInv, AddAccepts
<1> QED  BY <1>1, StatsInvariant, PTL

-----------------------------------------------------------------------------
(* What reaches Add is the record stream of a session: each step makes one *)
(* record of the stream, closes a window, gives a packet up, or leaves the *)
(* stream alone (session.go:244-335, twping.go:470-483).                   *)
THEOREM StatsHearTheStream == Spec => Stream!Spec
<1>1. Init => Stream!Init  BY DEF Init
<1>2. Inv /\ [Next]_vars => [Stream!Next]_(Stream!streamVars)
  <2> SUFFICES ASSUME Inv, [Next]_vars
               PROVE  Stream!Next \/ UNCHANGED <<stream, frontier, exempt>>
    BY DEF Stream!streamVars
  <2>1. CASE SkipPacket
    <3>1. nextSend \in SentSeqs /\ Stream!Exempt(nextSend)
      BY <2>1, Params DEF SkipPacket, Inv, TypeOK
    <3> QED  BY <3>1, Params DEF Stream!Next
  <2>2. ASSUME NEW p \in SentSeqs, NEW r \in Refls, NEW b \in Buckets, Deliver(p, r, b)
        PROVE  Stream!Next
    <3>1. Stream!Answer(p)  BY <2>2 DEF Deliver
    <3> QED  BY <3>1, Params DEF Stream!Next
  <2>3. CASE ExpireLost \/ ExpireAccounted
    BY <2>3 DEF ExpireLost, ExpireAccounted, Stream!Next
  <2>4. CASE SendPacket \/ RestartReflector
    BY <2>4 DEF SendPacket, RestartReflector, streamVars
  <2>5. CASE \E p \in SentSeqs : Reflect(p)  BY <2>5 DEF Reflect, streamVars
  <2>6. CASE \E p \in SentSeqs, r \in Refls : DropLate(p, r)
    BY <2>6 DEF DropLate, streamVars
  <2>7. CASE UNCHANGED vars  BY <2>7 DEF vars, streamVars
  <2> QED  BY <2>1, <2>2, <2>3, <2>4, <2>5, <2>6, <2>7 DEF Next, Finished
<1> QED  BY <1>1, <1>2, StatsInvariant, PTL DEF Spec, Stream!Spec

(* Summary takes for granted that Add gets the loss of a packet once, and  *)
(* before it no answer and after it none.                                  *)
RecordFits ==
  /\ ExpireLost => fwd[frontier].seen = 0 /\ ~ fwd[frontier].lost
  /\ \A p \in SentSeqs, r \in Refls, b \in Buckets : Deliver(p, r, b) => ~ fwd[p].lost

(* So it is, whatever is copied, delayed or numbered anew: neither the     *)
(* second loss that Add refuses nor the answer it ignores after a loss is  *)
(* ever handed to it (stats.go:279-282, 300-304).                          *)
THEOREM StatsRecordsFit == Spec => [][RecordFits]_vars
<1>1. Inv => RecordFits
  <2> SUFFICES ASSUME Inv PROVE RecordFits  OBVIOUS
  <2>1. ASSUME ExpireLost PROVE fwd[frontier].seen = 0 /\ ~ fwd[frontier].lost
    <3>1. frontier \in SentSeqs /\ ~ Stream!AnsweredIn(stream, frontier)
      BY <2>1, Params DEF ExpireLost, Stream!CloseLost
    <3>2. fwd[frontier].seen \in Nat  BY <3>1 DEF Inv, TypeOK, StatsTypeOK, Node
    <3>3. frontier \in Nat  BY <3>1, Params
    <3> QED  BY <3>1, <3>2, <3>3 DEF Inv, NodeInv
  <2>2. ASSUME NEW p \in SentSeqs, NEW r \in Refls, NEW b \in Buckets, Deliver(p, r, b)
        PROVE  ~ fwd[p].lost
    <3>1. p >= frontier  BY <2>2 DEF Deliver, Stream!Answer
    <3>2. p \in Nat /\ frontier \in Nat  BY Params DEF Inv, TypeOK, Stream!StreamTypeOK
    <3> QED  BY <3>1, <3>2 DEF Inv, NodeInv
  <2> QED  BY <2>1, <2>2 DEF RecordFits
<1> QED  BY <1>1, StatsInvariant, PTL

-----------------------------------------------------------------------------
(* The numbers of the replies recorded are those the nodes are tied to,    *)
(* and the number a packet's node keeps is one of its replies'.            *)
ReplyInv ==
  /\ \A p \in SentSeqs, r \in Refls :
       answers[p][r] > 0 => bck[r].seen > 0 /\ bck[r].assoc = p
  /\ \A p \in SentSeqs :
       fwd[p].seen > 0 => fwd[p].assoc \in Refls /\ answers[p][fwd[p].assoc] > 0

DupInv == ReplyInv /\ DuplicatesClassified

(* The summands and the sets they are summed over, for any table of the    *)
(* replies recorded.                                                       *)
Table       == [SentSeqs -> [Refls -> Nat]]
RepliesOf(an, p) == {r \in Refls : an[p][r] > 0}
MoreReplies(an)  == [p \in SentSeqs |-> Cardinality(RepliesOf(an, p)) - 1]
Repeated(an)     == [a \in SentSeqs \X Refls |-> an[a[1]][a[2]] - 1]
AnsweredIn(an)   == {p \in SentSeqs : \E r \in Refls : an[p][r] > 0}
RecordedIn(an)   == {a \in SentSeqs \X Refls : an[a[1]][a[2]] > 0}

LEMMA SumOverIs == \A f, S : SumOver(f, S) = SumOf(f, S)
BY Zenon DEF SumOver, SumOf

LEMMA Classified ==
  DuplicatesClassified <=>
    /\ dupsFwd = SumOf(MoreReplies(answers), AnsweredIn(answers))
    /\ dupsBck = SumOf(Repeated(answers), RecordedIn(answers))
    /\ SumOf(buckets, Buckets) = statSent - statLost
BY SumOverIs DEF DuplicatesClassified, MoreReplies, Repeated, AnsweredIn, RecordedIn,
                 Answered, Replies, RepliesOf

LEMMA ClassifiedNext ==
  DuplicatesClassified' <=>
    /\ dupsFwd' = SumOf(MoreReplies(answers'), AnsweredIn(answers'))
    /\ dupsBck' = SumOf(Repeated(answers'), RecordedIn(answers'))
    /\ SumOf(buckets', Buckets) = statSent' - statLost'
BY SumOverIs DEF DuplicatesClassified, MoreReplies, Repeated, AnsweredIn, RecordedIn,
                 Answered, Replies, RepliesOf

LEMMA RepliesFinite ==
  /\ IsFiniteSet(Refls) /\ IsFiniteSet(SentSeqs) /\ IsFiniteSet(SentSeqs \X Refls)
  /\ \A T \in SUBSET Refls : IsFiniteSet(T) /\ Cardinality(T) \in Nat
  /\ \A T \in SUBSET (SentSeqs \X Refls) : IsFiniteSet(T)
<1>1. IsFiniteSet(Refls)
  <2>1. NPackets * MaxFwd \in Nat  BY Params
  <2>2. 0 \in Int /\ NPackets * MaxFwd - 1 \in Int  BY <2>1
  <2>3. IsFiniteSet(0 .. NPackets * MaxFwd - 1)  BY <2>2, FS_Interval
  <2> QED  BY <2>3, Params
<1>2. \A T \in SUBSET Refls : IsFiniteSet(T) /\ Cardinality(T) \in Nat
  BY <1>1, FS_Subset, FS_CardinalityType
<1>3. IsFiniteSet(SentSeqs \X Refls)  BY <1>1, SetsFinite, FS_Product
<1>4. \A T \in SUBSET (SentSeqs \X Refls) : IsFiniteSet(T)  BY <1>3, FS_Subset
<1> QED  BY <1>1, <1>2, <1>3, <1>4, SetsFinite

LEMMA Summands ==
  ASSUME NEW an \in Table
  PROVE  /\ \A p \in SentSeqs : /\ MoreReplies(an)[p] = Cardinality(RepliesOf(an, p)) - 1
                                /\ Cardinality(RepliesOf(an, p)) \in Nat
                                /\ MoreReplies(an)[p] \in Int
         /\ \A p \in SentSeqs, r \in Refls : Repeated(an)[<<p, r>>] = an[p][r] - 1
         /\ \A a \in SentSeqs \X Refls : Repeated(an)[a] \in Int
         /\ IsFiniteSet(AnsweredIn(an)) /\ IsFiniteSet(RecordedIn(an))
         /\ RecordedIn(an) \subseteq SentSeqs \X Refls /\ AnsweredIn(an) \subseteq SentSeqs
         /\ \A p \in SentSeqs, r \in Refls : <<p, r>> \in RecordedIn(an) <=> an[p][r] > 0
<1>1. \A p \in SentSeqs : RepliesOf(an, p) \in SUBSET Refls  BY DEF RepliesOf
<1>2. \A p \in SentSeqs : Cardinality(RepliesOf(an, p)) \in Nat  BY <1>1, RepliesFinite
<1>3. \A a \in SentSeqs \X Refls : a[1] \in SentSeqs /\ a[2] \in Refls  OBVIOUS
<1>4. \A a \in SentSeqs \X Refls : an[a[1]][a[2]] \in Nat  BY <1>3 DEF Table
<1>5. \A p \in SentSeqs : MoreReplies(an)[p] = Cardinality(RepliesOf(an, p)) - 1
  BY DEF MoreReplies
<1>6. \A a \in SentSeqs \X Refls : Repeated(an)[a] = an[a[1]][a[2]] - 1  BY DEF Repeated
<1>7. AnsweredIn(an) \in SUBSET SentSeqs /\ RecordedIn(an) \in SUBSET (SentSeqs \X Refls)
  BY DEF AnsweredIn, RecordedIn
<1>8. IsFiniteSet(AnsweredIn(an)) /\ IsFiniteSet(RecordedIn(an))
  BY <1>7, RepliesFinite, SetsFinite
<1>9. \A p \in SentSeqs, r \in Refls : /\ <<p, r>> \in SentSeqs \X Refls
                                       /\ <<p, r>>[1] = p /\ <<p, r>>[2] = r
  OBVIOUS
<1>10. \A p \in SentSeqs, r \in Refls : Repeated(an)[<<p, r>>] = an[p][r] - 1
  BY <1>6, <1>9
<1>11. \A p \in SentSeqs, r \in Refls : <<p, r>> \in RecordedIn(an) <=> an[p][r] > 0
  BY <1>9 DEF RecordedIn
<1> QED  BY <1>2, <1>4, <1>5, <1>6, <1>7, <1>8, <1>10, <1>11

(* One more record of a reply: the other replies' summands stay.           *)
OneMore(an, new, p, r) ==
  /\ new \in Table /\ new[p][r] = an[p][r] + 1
  /\ \A q \in SentSeqs \ {p} : new[q] = an[q]
  /\ \A s \in Refls \ {r} : new[p][s] = an[p][s]

LEMMA OneMoreFound ==
  ASSUME NEW an \in Table, NEW p \in SentSeqs, NEW r \in Refls,
         NEW new, new = [an EXCEPT ![p][r] = @ + 1]
  PROVE  OneMore(an, new, p, r)
<1>1. an[p][r] \in Nat /\ an[p][r] + 1 \in Nat /\ an[p] \in [Refls -> Nat]  BY DEF Table
<1>2. new = [an EXCEPT ![p] = [an[p] EXCEPT ![r] = an[p][r] + 1]]  OBVIOUS
<1>3. [an[p] EXCEPT ![r] = an[p][r] + 1] \in [Refls -> Nat]  BY <1>1
<1> QED  BY <1>1, <1>2, <1>3 DEF OneMore, Table

LEMMA OthersStay ==
  ASSUME NEW an \in Table, NEW p \in SentSeqs, NEW r \in Refls, NEW new,
         OneMore(an, new, p, r)
  PROVE  /\ \A q \in SentSeqs \ {p} : MoreReplies(new)[q] = MoreReplies(an)[q]
         /\ \A a \in (SentSeqs \X Refls) \ {<<p, r>>} : Repeated(new)[a] = Repeated(an)[a]
         /\ AnsweredIn(new) = AnsweredIn(an) \cup {p}
         /\ RecordedIn(new) = RecordedIn(an) \cup {<<p, r>>}
         /\ RepliesOf(new, p) = RepliesOf(an, p) \cup {r}
<1>1. an[p][r] \in Nat  BY DEF Table
<1>2. /\ new \in Table /\ new[p][r] = an[p][r] + 1
      /\ \A q \in SentSeqs \ {p} : new[q] = an[q]
      /\ \A s \in Refls \ {r} : new[p][s] = an[p][s]
  BY DEF OneMore
<1>3. \A q \in SentSeqs \ {p} : RepliesOf(new, q) = RepliesOf(an, q)  BY <1>2 DEF RepliesOf
<1>4. \A q \in SentSeqs \ {p} : MoreReplies(new)[q] = MoreReplies(an)[q]
  BY <1>3 DEF MoreReplies
<1>5. ASSUME NEW a \in (SentSeqs \X Refls) \ {<<p, r>>}
      PROVE  Repeated(new)[a] = Repeated(an)[a]
  <2>1. PICK q \in SentSeqs, s \in Refls : a = <<q, s>>  OBVIOUS
  <2>2. q # p \/ s # r  BY <2>1
  <2>3. new[q][s] = an[q][s]  BY <1>2, <2>2
  <2>4. Repeated(new)[<<q, s>>] = new[q][s] - 1  BY <1>2, Summands
  <2>5. Repeated(an)[<<q, s>>] = an[q][s] - 1  BY Summands
  <2> QED  BY <2>1, <2>3, <2>4, <2>5
<1>6. \A q \in SentSeqs, s \in Refls : new[q][s] > 0 <=> an[q][s] > 0 \/ (q = p /\ s = r)
  BY <1>1, <1>2
<1>7. AnsweredIn(new) = AnsweredIn(an) \cup {p}  BY <1>6 DEF AnsweredIn
<1>8. RepliesOf(new, p) = RepliesOf(an, p) \cup {r}  BY <1>6 DEF RepliesOf
<1>9. RecordedIn(new) = RecordedIn(an) \cup {<<p, r>>}
  <2>1. \A q \in SentSeqs, s \in Refls : <<q, s>> \in RecordedIn(new) <=> new[q][s] > 0
    BY <1>2, Summands
  <2>2. \A q \in SentSeqs, s \in Refls : <<q, s>> \in RecordedIn(an) <=> an[q][s] > 0
    BY Summands
  <2>3. RecordedIn(new) \subseteq SentSeqs \X Refls  BY DEF RecordedIn
  <2>4. RecordedIn(an) \subseteq SentSeqs \X Refls  BY DEF RecordedIn
  <2>5. ASSUME NEW a \in SentSeqs \X Refls
        PROVE  a \in RecordedIn(new) <=> a \in RecordedIn(an) \cup {<<p, r>>}
    <3>1. PICK q \in SentSeqs, s \in Refls : a = <<q, s>>  OBVIOUS
    <3>2. a = <<p, r>> <=> q = p /\ s = r  BY <3>1
    <3> QED  BY <1>6, <2>1, <2>2, <3>1, <3>2
  <2>6. <<p, r>> \in SentSeqs \X Refls  OBVIOUS
  <2> QED  BY <2>3, <2>4, <2>5, <2>6
<1> QED  BY <1>4, <1>5, <1>7, <1>8, <1>9

(* A reply recorded again is one more reflect duplicate and nothing else.  *)
LEMMA RecordedAgain ==
  ASSUME NEW an \in Table, NEW p \in SentSeqs, NEW r \in Refls, an[p][r] > 0,
         NEW new, OneMore(an, new, p, r)
  PROVE  /\ SumOf(MoreReplies(new), AnsweredIn(new)) = SumOf(MoreReplies(an), AnsweredIn(an))
         /\ SumOf(Repeated(new), RecordedIn(new)) = SumOf(Repeated(an), RecordedIn(an)) + 1
<1> DEFINE f == MoreReplies(an)
           fn == MoreReplies(new)
           g == Repeated(an)
           gn == Repeated(new)
           A == AnsweredIn(an)
           R == RecordedIn(an)
           a == <<p, r>>
<1>1. /\ \A q \in SentSeqs \ {p} : fn[q] = f[q]
      /\ \A b \in (SentSeqs \X Refls) \ {a} : gn[b] = g[b]
      /\ AnsweredIn(new) = A \cup {p} /\ RecordedIn(new) = R \cup {a}
      /\ RepliesOf(new, p) = RepliesOf(an, p) \cup {r}
  BY OthersStay
<1>2. /\ IsFiniteSet(A) /\ IsFiniteSet(R) /\ A \subseteq SentSeqs /\ R \subseteq SentSeqs \X Refls
      /\ a \in R /\ g[a] = an[p][r] - 1 /\ \A b \in SentSeqs \X Refls : g[b] \in Int
      /\ \A q \in SentSeqs : f[q] \in Int
  BY Summands
<1>3. new \in Table /\ new[p][r] = an[p][r] + 1 /\ an[p][r] \in Nat  BY DEF OneMore, Table
<1>4. gn[a] = new[p][r] - 1 /\ \A b \in SentSeqs \X Refls : gn[b] \in Int
  BY <1>3, Summands
<1>5. r \in RepliesOf(an, p) /\ p \in A  BY DEF RepliesOf, AnsweredIn
<1>6. AnsweredIn(new) = A /\ RecordedIn(new) = R /\ RepliesOf(new, p) = RepliesOf(an, p)
  BY <1>1, <1>2, <1>5
<1>7. fn[p] = f[p]  BY <1>6 DEF MoreReplies
<1>8. gn[a] - g[a] = 1 /\ gn[a] \in Int /\ g[a] \in Int  BY <1>2, <1>3, <1>4
<1> HIDE DEF f, fn, g, gn, A, R, a
<1>9. SumOf(fn, A) = SumOf(f, A)
  <2>1. \A q \in A : f[q] \in Int /\ fn[q] = f[q]  BY <1>1, <1>2, <1>7
  <2> QED  BY <1>2, <2>1, SumSame
<1>10. SumOf(gn, R) = SumOf(g, R) + 1
  <2>1. \A b \in R : g[b] \in Int /\ gn[b] \in Int  BY <1>2, <1>4
  <2>2. \A b \in R \ {a} : gn[b] = g[b]  BY <1>1, <1>2
  <2>3. SumOf(gn, R) = SumOf(g, R) + (gn[a] - g[a])  BY <1>2, <2>1, <2>2, SumUpdate
  <2> QED  BY <1>8, <2>3
<1> QED  BY <1>6, <1>9, <1>10 DEF f, fn, g, gn, A, R

(* A new reply of a packet is a send duplicate unless it is the first.     *)
LEMMA RecordedNew ==
  ASSUME NEW an \in Table, NEW p \in SentSeqs, NEW r \in Refls, an[p][r] = 0,
         NEW new, OneMore(an, new, p, r)
  PROVE  /\ SumOf(Repeated(new), RecordedIn(new)) = SumOf(Repeated(an), RecordedIn(an))
         /\ SumOf(MoreReplies(new), AnsweredIn(new)) =
              SumOf(MoreReplies(an), AnsweredIn(an)) + IF p \in AnsweredIn(an) THEN 1 ELSE 0
<1> DEFINE f == MoreReplies(an)
           fn == MoreReplies(new)
           g == Repeated(an)
           gn == Repeated(new)
           A == AnsweredIn(an)
           R == RecordedIn(an)
           a == <<p, r>>
           n == Cardinality(RepliesOf(an, p))
<1>1. /\ \A q \in SentSeqs \ {p} : fn[q] = f[q]
      /\ \A b \in (SentSeqs \X Refls) \ {a} : gn[b] = g[b]
      /\ AnsweredIn(new) = A \cup {p} /\ RecordedIn(new) = R \cup {a}
      /\ RepliesOf(new, p) = RepliesOf(an, p) \cup {r}
  BY OthersStay
<1>2. /\ IsFiniteSet(A) /\ IsFiniteSet(R) /\ A \subseteq SentSeqs /\ R \subseteq SentSeqs \X Refls
      /\ a \notin R /\ \A b \in SentSeqs \X Refls : g[b] \in Int
      /\ \A q \in SentSeqs : f[q] \in Int
      /\ f[p] = n - 1 /\ n \in Nat
  BY Summands
<1>3. new \in Table /\ new[p][r] = 1  BY DEF OneMore
<1>4. /\ gn[a] = new[p][r] - 1 /\ \A b \in SentSeqs \X Refls : gn[b] \in Int
      /\ fn[p] = Cardinality(RepliesOf(new, p)) - 1
      /\ \A q \in SentSeqs : fn[q] \in Int
  BY <1>3, Summands
<1>5. Cardinality(RepliesOf(new, p)) = n + 1
  <2>1. r \notin RepliesOf(an, p)  BY DEF RepliesOf
  <2>2. IsFiniteSet(RepliesOf(an, p))  BY RepliesFinite DEF RepliesOf
  <2> QED  BY <1>1, <2>1, <2>2, FS_AddElement
<1>6. gn[a] = 0 /\ fn[p] = n /\ a \in SentSeqs \X Refls  BY <1>2, <1>3, <1>4, <1>5
<1>7. p \notin A => n = 0
  <2>1. p \notin A => RepliesOf(an, p) = {}  BY DEF AnsweredIn, RepliesOf
  <2> QED  BY <2>1, FS_EmptySet
<1> HIDE DEF f, fn, g, gn, A, R, a, n
<1>8. SumOf(gn, R \cup {a}) = SumOf(g, R)
  <2>1. \A b \in R \cup {a} : gn[b] \in Int  BY <1>2, <1>4, <1>6
  <2>2. IsFiniteSet(R) /\ a \notin R  BY <1>2
  <2>3. SumOf(gn, R \cup {a}) = SumOf(gn, R) + gn[a]  BY ONLY <2>1, <2>2, SumAdd
  <2>4. \A b \in R : g[b] \in Int /\ gn[b] = g[b]  BY <1>1, <1>2
  <2>5. SumOf(gn, R) = SumOf(g, R) /\ SumOf(g, R) \in Int  BY <1>2, <2>4, SumSame, SumInt
  <2> QED  BY <1>6, <2>3, <2>5
<1>9. CASE p \in A
  <2>1. \A q \in A : f[q] \in Int /\ fn[q] \in Int  BY <1>2, <1>4
  <2>2. \A q \in A \ {p} : fn[q] = f[q]  BY <1>1, <1>2
  <2>3. SumOf(fn, A) = SumOf(f, A) + (fn[p] - f[p])  BY <1>2, <1>9, <2>1, <2>2, SumUpdate
  <2>4. A \cup {p} = A  BY <1>9
  <2>5. fn[p] - f[p] = 1  BY <1>2, <1>6
  <2> QED  BY <1>1, <1>8, <1>9, <2>3, <2>4, <2>5 DEF f, fn, g, gn, A, R
<1>10. CASE p \notin A
  <2>1. \A q \in A \cup {p} : fn[q] \in Int  BY <1>2, <1>4
  <2>2. IsFiniteSet(A) /\ p \notin A  BY <1>2, <1>10
  <2>3. SumOf(fn, A \cup {p}) = SumOf(fn, A) + fn[p]  BY ONLY <2>1, <2>2, SumAdd
  <2>4. \A q \in A : f[q] \in Int /\ fn[q] = f[q]  BY <1>1, <1>2, <1>10
  <2>5. SumOf(fn, A) = SumOf(f, A) /\ SumOf(f, A) \in Int  BY <1>2, <2>4, SumSame, SumInt
  <2>6. SumOf(fn, A \cup {p}) = SumOf(f, A) + 0  BY <1>6, <1>7, <1>10, <2>3, <2>5
  <2> QED  BY <1>1, <1>8, <1>10, <2>6 DEF f, fn, g, gn, A, R
<1> QED  BY <1>9, <1>10

(* The nodes agree with the replies recorded, and the duplicates with both *)
(* (stats.go:244-383), whatever Add is given.                              *)
LEMMA DupKept ==
  ASSUME DupInv, UNCHANGED <<nodeVars, counterVars, answers>>
  PROVE  DupInv'
<1>1. /\ fwd' = fwd /\ bck' = bck /\ answers' = answers /\ buckets' = buckets
      /\ statSent' = statSent /\ statLost' = statLost /\ dupsFwd' = dupsFwd /\ dupsBck' = dupsBck
  BY DEF nodeVars, counterVars
<1>2. ReplyInv'  BY <1>1 DEF DupInv, ReplyInv
<1>3. DuplicatesClassified'  BY <1>1, Classified, ClassifiedNext DEF DupInv
<1> QED  BY <1>2, <1>3 DEF DupInv

LEMMA DupLoss ==
  ASSUME Inv, DupInv, ExpireLost
  PROVE  DupInv'
<1>1. /\ frontier \in SentSeqs /\ AddLost(frontier) /\ answers' = answers
  BY Params DEF Inv, TypeOK, Stream!StreamTypeOK, ExpireLost, Stream!CloseLost
<1>2. CASE fwd[frontier].lost
  <2>1. UNCHANGED <<nodeVars, counterVars, answers>>  BY <1>1, <1>2 DEF AddLost
  <2> QED  BY <2>1, DupKept
<1>3. CASE ~ fwd[frontier].lost
  <2>1. /\ fwd' = [fwd EXCEPT ![frontier].lost = TRUE]
        /\ statSent' = statSent + 1 /\ statLost' = statLost + 1
        /\ UNCHANGED <<bck, buckets, dupsFwd, dupsBck>>
    BY <1>1, <1>3 DEF AddLost
  <2>2. \A q \in SentSeqs : fwd'[q].seen = fwd[q].seen /\ fwd'[q].assoc = fwd[q].assoc
    BY <2>1 DEF Inv, TypeOK, StatsTypeOK, Node
  <2>3. ReplyInv'  BY <1>1, <2>1, <2>2 DEF DupInv, ReplyInv
  <2>4. statSent' - statLost' = statSent - statLost
    BY <2>1 DEF Inv, TypeOK, StatsTypeOK
  <2>5. DuplicatesClassified'
    BY <1>1, <2>1, <2>4, Classified, ClassifiedNext DEF DupInv
  <2> QED  BY <2>3, <2>5 DEF DupInv
<1> QED  BY <1>2, <1>3

(* The nodes of an accepted answer.                                        *)
LEMMA DupNodes ==
  ASSUME Inv, ReplyInv, NEW p \in SentSeqs, NEW r \in Refls, NEW b \in Buckets,
         ~ addErr, ~ fwd[p].lost, ~ Conflicting(p, r), AddAnswer(p, r, b),
         OneMore(answers, answers', p, r)
  PROVE  ReplyInv'
<1>1. /\ fwd \in [SentSeqs -> Node(Refls)] /\ bck \in [Refls -> Node(SentSeqs)]
      /\ answers \in [SentSeqs -> [Refls -> Nat]]
  BY DEF Inv, TypeOK, StatsTypeOK
<1>2. /\ Link(p, r)
      /\ \/ CountFirst(p, r, b)
         \/ CountSendDuplicate(p, r)
         \/ CountReflectDuplicate(p, r, b)
  BY DEF AddAnswer
<1>3. /\ answers'[p][r] > 0
      /\ \A q \in SentSeqs, s \in Refls :
           answers'[q][s] > 0 <=> answers[q][s] > 0 \/ (q = p /\ s = r)
  <2>1. answers[p][r] \in Nat  BY <1>1
  <2> QED  BY <2>1 DEF OneMore
<1>4. /\ bck'[r].assoc = p /\ bck'[r].seen > 0 /\ \A s \in Refls \ {r} : bck'[s] = bck[s]
  <2>1. bck' = [bck EXCEPT ![r].seen = @ + 1, ![r].assoc = p]  BY <1>2 DEF Link
  <2>2. bck[r].seen + 1 > 0 /\ bck[r] \in Node(SentSeqs)  BY <1>1 DEF Node
  <2>3. bck' = [bck EXCEPT ![r] = [bck[r] EXCEPT !.seen = @ + 1, !.assoc = p]]
    BY <1>1, <2>1
  <2>4. /\ [bck[r] EXCEPT !.seen = @ + 1, !.assoc = p].seen = bck[r].seen + 1
        /\ [bck[r] EXCEPT !.seen = @ + 1, !.assoc = p].assoc = p
    BY <2>2 DEF Node
  <2> QED  BY <1>1, <2>2, <2>3, <2>4
<1>5. ASSUME NEW q \in SentSeqs, NEW s \in Refls, answers'[q][s] > 0
      PROVE  bck'[s].seen > 0 /\ bck'[s].assoc = q
  <2>1. CASE s = r
    <3>1. q = p \/ answers[q][r] > 0  BY <1>3, <1>5, <2>1
    <3>2. answers[q][r] > 0 => bck[r].seen > 0 /\ bck[r].assoc = q  BY DEF ReplyInv
    <3>3. q = p  BY <3>1, <3>2 DEF Conflicting
    <3> QED  BY <1>4, <2>1, <3>3
  <2>2. CASE s # r  BY <1>3, <1>4, <1>5, <2>2 DEF ReplyInv
  <2> QED  BY <2>1, <2>2
<1>6. ASSUME NEW q \in SentSeqs, fwd'[q].seen > 0
      PROVE  fwd'[q].assoc \in Refls /\ answers'[q][fwd'[q].assoc] > 0
  <2>1. CASE CountFirst(p, r, b)
    <3>1. fwd'[p].assoc = r /\ \A k \in SentSeqs \ {p} : fwd'[k] = fwd[k]
      BY <1>1, <2>1 DEF CountFirst, Node
    <3>2. CASE q = p  BY <1>3, <3>1, <3>2
    <3>3. CASE q # p
      <4>1. fwd[q].assoc \in Refls /\ answers[q][fwd[q].assoc] > 0
        BY <1>6, <3>1, <3>3 DEF ReplyInv
      <4> QED  BY <1>3, <3>1, <3>3, <4>1
    <3> QED  BY <3>2, <3>3
  <2>2. CASE CountSendDuplicate(p, r) \/ CountReflectDuplicate(p, r, b)
    <3>1. \A k \in SentSeqs : /\ fwd'[k].assoc = fwd[k].assoc
                              /\ fwd'[k].seen > 0 <=> fwd[k].seen > 0
      <4>1. fwd[p].seen > 0 /\ (fwd' = [fwd EXCEPT ![p].seen = @ + 1] \/ fwd' = fwd)
        BY <2>2 DEF CountSendDuplicate, CountReflectDuplicate, SendDuplicate
      <4> QED  BY <1>1, <4>1 DEF Node
    <3>2. fwd[q].assoc \in Refls /\ answers[q][fwd[q].assoc] > 0
      BY <1>6, <3>1 DEF ReplyInv
    <3> QED  BY <1>3, <3>1, <3>2
  <2> QED  BY <1>2, <2>1, <2>2
<1> QED  BY <1>5, <1>6 DEF ReplyInv

(* Add classifies an answer by its nodes as the replies recorded say.      *)
LEMMA DupAnswer ==
  ASSUME Inv, DupInv, NEW p \in SentSeqs, NEW r \in Refls, NEW b \in Buckets,
         ~ addErr, ~ fwd[p].lost, ~ Conflicting(p, r), AddAnswer(p, r, b),
         OneMore(answers, answers', p, r)
  PROVE  DuplicatesClassified'
<1>1. /\ answers \in Table /\ buckets \in [Buckets -> Nat]
      /\ statSent \in Nat /\ statLost \in Nat /\ IsFiniteSet(Buckets)
      /\ dupsFwd \in Nat /\ dupsBck \in Nat /\ answers[p][r] \in Nat
      /\ fwd \in [SentSeqs -> Node(Refls)] /\ bck \in [Refls -> Node(SentSeqs)]
  BY FiniteBucketsAssumption DEF Inv, TypeOK, StatsTypeOK, Table
<1>2. /\ dupsFwd = SumOf(MoreReplies(answers), AnsweredIn(answers))
      /\ dupsBck = SumOf(Repeated(answers), RecordedIn(answers))
      /\ SumOf(buckets, Buckets) = statSent - statLost
  BY Classified DEF DupInv
<1>3. /\ \/ CountFirst(p, r, b)
         \/ CountSendDuplicate(p, r)
         \/ CountReflectDuplicate(p, r, b)
      /\ statLost' = statLost
  BY DEF AddAnswer
<1>4. fwd[p].seen > 0 <=> p \in AnsweredIn(answers)
  BY DEF Inv, NodeInv, Answered, AnsweredIn
<1>5. answers[p][r] > 0 <=> bck[r].seen > 0
  <2>1. answers[p][r] > 0 => bck[r].seen > 0  BY DEF DupInv, ReplyInv
  <2>2. bck[r].seen > 0 => bck[r].assoc = p /\ answers[bck[r].assoc][r] > 0
    BY DEF Conflicting, Inv, NodeInv
  <2> QED  BY <2>1, <2>2
<1>6. fwd[p].seen > 0 => fwd[p].assoc \in Refls /\ answers[p][fwd[p].assoc] > 0
  BY DEF DupInv, ReplyInv
<1>7. answers[p][r] = 0 \/ answers[p][r] > 0  BY <1>1
<1>8. CASE CountFirst(p, r, b)
  <2>1. p \notin AnsweredIn(answers)  BY <1>4, <1>8 DEF CountFirst
  <2>2. answers[p][r] = 0  BY <1>7, <2>1 DEF AnsweredIn
  <2>3. /\ SumOf(Repeated(answers'), RecordedIn(answers')) = dupsBck
        /\ SumOf(MoreReplies(answers'), AnsweredIn(answers')) = dupsFwd + 0
    BY <1>1, <1>2, <2>1, <2>2, RecordedNew
  <2>4. SumOf(buckets', Buckets) = SumOf(buckets, Buckets) + 1
    <3>1. buckets' = [buckets EXCEPT ![b] = @ + 1]  BY <1>8 DEF CountFirst
    <3>2. buckets[b] \in Nat /\ buckets'[b] = buckets[b] + 1 /\ buckets'[b] - buckets[b] = 1
      BY <1>1, <3>1
    <3>3. \A c \in Buckets \ {b} : buckets'[c] = buckets[c]  BY <1>1, <3>1
    <3>4. \A c \in Buckets : buckets[c] \in Int /\ buckets'[c] \in Int
      BY <1>1, <3>2, <3>3
    <3>5. SumOf(buckets', Buckets) = SumOf(buckets, Buckets) + (buckets'[b] - buckets[b])
      BY <1>1, <3>3, <3>4, SumUpdate
    <3> QED  BY <3>2, <3>5
  <2>5. statSent' = statSent + 1 /\ dupsFwd' = dupsFwd /\ dupsBck' = dupsBck
    BY <1>8 DEF CountFirst
  <2>6. SumOf(buckets', Buckets) = statSent' - statLost'  BY <1>1, <1>2, <1>3, <2>4, <2>5
  <2>7. dupsFwd' = SumOf(MoreReplies(answers'), AnsweredIn(answers'))  BY <1>1, <2>3, <2>5
  <2> QED  BY <2>3, <2>5, <2>6, <2>7, ClassifiedNext
<1>9. CASE CountSendDuplicate(p, r)
  <2>1. p \in AnsweredIn(answers) /\ bck[r].seen = 0
    BY <1>4, <1>9 DEF CountSendDuplicate, SendDuplicate
  <2>2. answers[p][r] = 0  BY <1>5, <1>7, <2>1
  <2>3. /\ SumOf(Repeated(answers'), RecordedIn(answers')) = dupsBck
        /\ SumOf(MoreReplies(answers'), AnsweredIn(answers')) = dupsFwd + 1
    BY <1>1, <1>2, <2>1, <2>2, RecordedNew
  <2>4. /\ dupsFwd' = dupsFwd + 1 /\ dupsBck' = dupsBck
        /\ buckets' = buckets /\ statSent' = statSent
    BY <1>9 DEF CountSendDuplicate
  <2> QED  BY <1>2, <1>3, <2>3, <2>4, ClassifiedNext
<1>10. CASE CountReflectDuplicate(p, r, b)
  <2>1. fwd[p].seen > 0 /\ (fwd[p].assoc = r \/ bck[r].seen # 0)
    BY <1>10 DEF CountReflectDuplicate, SendDuplicate
  <2>2. bck[r].seen \in Nat  BY <1>1 DEF Node
  <2>3. answers[p][r] > 0  BY <1>5, <1>6, <2>1, <2>2
  <2>4. /\ SumOf(MoreReplies(answers'), AnsweredIn(answers')) = dupsFwd
        /\ SumOf(Repeated(answers'), RecordedIn(answers')) = dupsBck + 1
    BY <1>1, <1>2, <2>3, RecordedAgain
  <2>5. /\ dupsFwd' = dupsFwd /\ dupsBck' = dupsBck + 1
        /\ buckets' = buckets /\ statSent' = statSent
    BY <1>10 DEF CountReflectDuplicate
  <2> QED  BY <1>2, <1>3, <2>4, <2>5, ClassifiedNext
<1> QED  BY <1>3, <1>8, <1>9, <1>10

LEMMA DupDeliver ==
  ASSUME Inv, DupInv, NEW p \in SentSeqs, NEW r \in Refls, NEW b \in Buckets, Deliver(p, r, b)
  PROVE  DupInv'
<1>1. /\ ~ addErr /\ p >= frontier /\ AddAnswer(p, r, b)
      /\ answers' = IF addErr' THEN answers ELSE [answers EXCEPT ![p][r] = @ + 1]
  BY DEF Deliver, Stream!Answer
<1>2. ~ fwd[p].lost
  <2>1. fwd[p].lost => p < frontier  BY DEF Inv, NodeInv
  <2>2. frontier \in Nat /\ p \in Nat  BY Params DEF Inv, TypeOK, Stream!StreamTypeOK
  <2> QED  BY <1>1, <2>1, <2>2
<1>3. CASE Conflicting(p, r)
  <2>1. addErr' = TRUE /\ UNCHANGED <<nodeVars, counterVars>>
    BY <1>1, <1>2, <1>3 DEF AddAnswer
  <2> QED  BY <1>1, <2>1, DupKept
<1>4. CASE ~ Conflicting(p, r)
  <2>1. addErr' = addErr  BY <1>1, <1>2, <1>4 DEF AddAnswer
  <2>2. answers \in Table  BY DEF Inv, TypeOK, Table
  <2>3. answers' = [answers EXCEPT ![p][r] = @ + 1]  BY <1>1, <2>1
  <2>4. OneMore(answers, answers', p, r)  BY <2>2, <2>3, OneMoreFound
  <2>5. ReplyInv'  BY <1>1, <1>2, <1>4, <2>4, DupNodes DEF DupInv
  <2>6. DuplicatesClassified'  BY <1>1, <1>2, <1>4, <2>4, DupAnswer
  <2> QED  BY <2>5, <2>6 DEF DupInv
<1> QED  BY <1>3, <1>4

LEMMA DupInit == Init => DupInv
<1> SUFFICES ASSUME Init PROVE DupInv  OBVIOUS
<1>1. ReplyInv  BY DEF Init, StatsInit, NewNode, ReplyInv
<1>2. AnsweredIn(answers) = {}  BY DEF Init, AnsweredIn
<1>3. RecordedIn(answers) = {}
  <2>1. answers \in Table /\ \A p \in SentSeqs, r \in Refls : ~ (answers[p][r] > 0)
    BY DEF Init, Table
  <2> QED  BY <2>1 DEF RecordedIn
<1>4. SumOf(buckets, Buckets) = 0
  <2>1. \A c \in Buckets : buckets[c] = 0  BY DEF Init, StatsInit
  <2> QED  BY <2>1, FiniteBucketsAssumption, SumZero
<1>5. dupsFwd = 0 /\ dupsBck = 0 /\ statSent - statLost = 0  BY DEF Init, StatsInit
<1>6. DuplicatesClassified  BY <1>2, <1>3, <1>4, <1>5, SumEmpty, Classified
<1> QED  BY <1>1, <1>6 DEF DupInv

(* Send duplicates are the further replies of a packet, reflect duplicates *)
(* the further copies of a reply, and the histogram holds the first answer *)
(* of each packet only, in every order of arrival (stats.go:316-335).      *)
THEOREM StatsClassifyDuplicates == Spec => []DuplicatesClassified
<1>1. Inv /\ DupInv /\ [Next]_vars => DupInv'
  <2> SUFFICES ASSUME Inv, DupInv, [Next]_vars PROVE DupInv'  OBVIOUS
  <2>1. CASE ExpireLost  BY <2>1, DupLoss
  <2>2. CASE \E p \in SentSeqs, r \in Refls, b \in Buckets : Deliver(p, r, b)
    BY <2>2, DupDeliver
  <2>3. CASE SendPacket \/ SkipPacket
    BY <2>3, DupKept DEF SendPacket, SkipPacket, statsVars
  <2>4. CASE \E p \in SentSeqs : Reflect(p)  BY <2>4, DupKept DEF Reflect, statsVars
  <2>5. CASE RestartReflector  BY <2>5, DupKept DEF RestartReflector, statsVars
  <2>6. CASE \E p \in SentSeqs, r \in Refls : DropLate(p, r)
    BY <2>6, DupKept DEF DropLate, statsVars
  <2>7. CASE ExpireAccounted  BY <2>7, DupKept DEF ExpireAccounted, statsVars
  <2>8. CASE UNCHANGED vars  BY <2>8, DupKept DEF vars, statsVars
  <2> QED
    BY <2>1, <2>2, <2>3, <2>4, <2>5, <2>6, <2>7, <2>8 DEF Next, Finished
<1>2. DupInv => DuplicatesClassified  BY DEF DupInv
<1> QED  BY DupInit, StatsInvariant, <1>1, <1>2, PTL DEF Spec

===============================================================================
