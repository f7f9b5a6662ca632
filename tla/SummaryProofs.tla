----------------------------- MODULE SummaryProofs -----------------------------
(***************************************************************************)
(* The figures of the reports, for any paths, clocks, numbers of packets   *)
(* and orders of the records.                                              *)
(***************************************************************************)
EXTENDS Integers, Summary, MathProofs, FiniteSetTheorems, TLAPS

(* The paths that fall into one bucket, or arrive with one TTL.            *)
InBucket(b)   == {w \in Paths : Bucket(Measure(w, offset)) = b}
WithTTL(t, n) == {w \in Paths : w.ttl[t] = n}

TypeInv ==
  /\ SummaryTypeOK
  /\ offset \in Offsets /\ clocksOffset \in BOOLEAN
  /\ startTime \in Int /\ endTime \in Int /\ printed \in Nat
  /\ firsts \in [Paths -> Nat] /\ answers \in [Paths -> Nat]

(* The extremes are those of the answers.                                  *)
DelayInv ==
  /\ \A t \in Delays, w \in Paths :
       answers[w] > 0 => /\ minDelay[t] <= Measure(w, offset)[t]
                         /\ Measure(w, offset)[t] <= maxDelay[t]
  /\ \A t \in Delays :
       \/ Seen(answers) = {} /\ minDelay[t] = Inf /\ maxDelay[t] = -Inf
       \/ /\ \E w \in Paths : answers[w] > 0 /\ minDelay[t] = Measure(w, offset)[t]
          /\ \E w \in Paths : answers[w] > 0 /\ maxDelay[t] = Measure(w, offset)[t]
  /\ clocksOffset <=>
       \E w \in Paths, t \in OneWay : answers[w] > 0 /\ Measure(w, offset)[t] < 0

(* Buckets and TTLs count the first answers.                               *)
CountInv ==
  /\ \A b \in Buckets : buckets[b] = SumOf(firsts, InBucket(b))
  /\ \A t \in OneWay, n \in TTLs :
       ttlCount[t][n] = IF t = "bck" /\ NoReflectedTTL THEN 0
                        ELSE SumOf(firsts, WithTTL(t, n))
  /\ SumOf(firsts, Paths) = statSent - statLost
  /\ (\E p \in SentSeqs : fwd[p].seen > 0) => Seen(firsts) # {}
  /\ Seen(answers) # {} => Seen(firsts) # {}

SumInv == TypeInv /\ DelayInv /\ CountInv

-----------------------------------------------------------------------------
LEMMA Kinds ==
  /\ OneWay = {"fwd", "bck"} /\ Measured = {"fwd", "bck", "rtt"}
  /\ Delays = {"fwd", "bck", "rtt", "proc"}
BY DEF OneWay, Measured, Delays

LEMMA PathTypes ==
  ASSUME NEW w \in Paths
  PROVE  /\ w.out \in Nat /\ w.proc \in Nat /\ w.back \in Nat
         /\ w.ttl \in [OneWay -> 0 .. 255]
         /\ \A t \in OneWay : w.ttl[t] \in TTLs
BY PathsAssumption DEF TTLs

LEMMA Measures ==
  ASSUME NEW w \in Paths, NEW o \in Offsets
  PROVE  /\ \A t \in Delays : /\ Measure(w, o)[t] \in Int
                              /\ -Inf < Measure(w, o)[t] /\ Measure(w, o)[t] < Inf
         /\ Measure(w, o)["rtt"] = Network(w) /\ Network(w) \in Nat
         /\ Bucket(Measure(w, o)) \in Buckets
         /\ \A t \in Measured : /\ Bucket(Measure(w, o))[t] = Measure(w, o)[t] \div Width
                                /\ Bucket(Measure(w, o))[t] \in Int
<1>1. o \in Int  BY DeparturesAssumption
<1>2. \A t \in Delays : Measure(w, o)[t] \in Int
  BY <1>1, PathTypes, Kinds DEF Measure
<1>3. Measure(w, o)["rtt"] = Network(w) /\ Network(w) \in Nat
  BY PathTypes DEF Measure, Network
<1>4. /\ Bucket(Measure(w, o)) \in Buckets
      /\ \A t \in Delays : -Inf < Measure(w, o)[t] /\ Measure(w, o)[t] < Inf
  BY DelaysAssumption
<1>5. \A t \in Measured : /\ Bucket(Measure(w, o))[t] = Measure(w, o)[t] \div Width
                          /\ Bucket(Measure(w, o))[t] \in Int
  BY <1>2, WidthAssumption, Kinds DEF Bucket
<1> QED  BY <1>2, <1>3, <1>4, <1>5

(* The four stamps tell the delays, whatever the clocks differ by.         *)
LEMMA DelayIs ==
  ASSUME offset \in Offsets, NEW p \in SentSeqs, NEW w \in Paths
  PROVE  /\ Delay(p, w) = Measure(w, offset)
         /\ Departures[p] \in Nat /\ Stamps(p, w).back \in Nat
         /\ Departures[p] <= Stamps(p, w).back
<1>1. offset \in Int /\ Departures[p] \in Nat  BY DeparturesAssumption
<1>2. w.out \in Nat /\ w.proc \in Nat /\ w.back \in Nat  BY PathTypes
<1> DEFINE s == Stamps(p, w)
<1>3. /\ s.send = Departures[p] /\ s.recv = Departures[p] + w.out + offset
      /\ s.reflected = Departures[p] + w.out + w.proc + offset
      /\ s.back = Departures[p] + w.out + w.proc + w.back
  BY DEF Stamps
<1> HIDE DEF s
<1>4. /\ s.reflected - s.recv = w.proc
      /\ s.back - s.send - w.proc = w.out + w.back
      /\ s.recv - s.send = w.out + offset
      /\ s.back - s.reflected = w.back - offset
  BY <1>1, <1>2, <1>3
<1>5. Delay(p, w) = Measure(w, offset)  BY <1>4 DEF Delay, Measure, s
<1>6. s.back \in Nat /\ Departures[p] <= s.back  BY <1>1, <1>2, <1>3
<1> QED  BY <1>1, <1>5, <1>6 DEF s

LEMMA Lesser ==
  ASSUME NEW a \in Int, NEW b \in Int
  PROVE  /\ Min({a, b}) = IF a <= b THEN a ELSE b
         /\ Max({a, b}) = IF a <= b THEN b ELSE a
<1>1. CASE a <= b
  <2>1. \A y \in {a, b} : a <= y /\ y <= b  BY <1>1
  <2>2. Min({a, b}) = a  BY <2>1, MinIs
  <2>3. Max({a, b}) = b  BY <2>1, MaxIs
  <2> QED  BY <1>1, <2>2, <2>3
<1>2. CASE ~ (a <= b)
  <2>1. \A y \in {a, b} : b <= y /\ y <= a  BY <1>2
  <2>2. Min({a, b}) = b  BY <2>1, MinIs
  <2>3. Max({a, b}) = a  BY <2>1, MaxIs
  <2> QED  BY <1>2, <2>2, <2>3
<1> QED  BY <1>1, <1>2

(* One more first answer on the path w, in any set of paths.               *)
LEMMA OneFirst ==
  ASSUME NEW f \in [Paths -> Nat], NEW w \in Paths, NEW T \in SUBSET Paths
  PROVE  SumOf([f EXCEPT ![w] = @ + 1], T) = SumOf(f, T) + IF w \in T THEN 1 ELSE 0
<1> DEFINE g == [f EXCEPT ![w] = @ + 1]
<1>1. IsFiniteSet(T)  BY PathsAssumption, FS_Subset
<1>2. \A v \in T : f[v] \in Int /\ g[v] \in Int  OBVIOUS
<1>3. g[w] - f[w] = 1 /\ \A v \in Paths \ {w} : g[v] = f[v]  OBVIOUS
<1>4. SumOf(f, T) \in Int  BY <1>1, <1>2, SumInt
<1> HIDE DEF g
<1>5. CASE w \in T
  <2>1. \A v \in T \ {w} : g[v] = f[v]  BY <1>3
  <2>2. SumOf(g, T) = SumOf(f, T) + (g[w] - f[w])  BY <1>1, <1>2, <1>5, <2>1, SumUpdate
  <2> QED  BY <1>3, <1>5, <2>2 DEF g
<1>6. CASE w \notin T
  <2>1. \A v \in T : f[v] \in Int /\ g[v] = f[v]  BY <1>2, <1>3, <1>6
  <2>2. SumOf(g, T) = SumOf(f, T)  BY <1>1, <2>1, SumSame
  <2> QED  BY <1>4, <1>6, <2>2 DEF g
<1> QED  BY <1>5, <1>6

LEMMA PathSums ==
  ASSUME NEW f \in [Paths -> Nat], NEW T \in SUBSET Paths
  PROVE  /\ IsFiniteSet(T) /\ SumOf(f, T) \in Nat
         /\ SumOf(f, T) > 0 <=> \E w \in T : f[w] > 0
<1>1. IsFiniteSet(T)  BY PathsAssumption, FS_Subset
<1>2. \A w \in T : f[w] \in Nat  OBVIOUS
<1> QED  BY <1>1, <1>2, SumNat, SumPositive

-----------------------------------------------------------------------------
LEMMA InitInv == Init => SumInv
<1> SUFFICES ASSUME Init PROVE SumInv  OBVIOUS
<1>1. TypeInv
  <2>1. StatsTypeOK  BY DEF Init, StatsInit, StatsTypeOK, Node, NewNode
  <2>2. Inf \in Int /\ -Inf \in Int  BY DEF Inf
  <2>3. minDelay \in [Delays -> Int] /\ maxDelay \in [Delays -> Int]  BY <2>2 DEF Init
  <2>4. ttlCount \in [OneWay -> [TTLs -> Nat]]  BY DEF Init
  <2>5. firsts \in [Paths -> Nat] /\ answers \in [Paths -> Nat]
        /\ \A w \in Paths : firsts[w] <= answers[w]
    BY DEF Init
  <2>6. /\ startTime <= endTime /\ startTime \in Int /\ endTime \in Int
        /\ offset \in Offsets /\ clocksOffset \in BOOLEAN
    <3>1. startTime = 0 /\ endTime = 0  BY DEF Init
    <3>2. offset \in Offsets /\ clocksOffset \in BOOLEAN  BY Zenon DEF Init
    <3> QED  BY <3>1, <3>2
  <2>7. printed \in Nat /\ (RecordLimit > 0 => printed <= RecordLimit)
    <3>1. printed = 0 /\ RecordLimit \in Nat  BY OutputAssumption DEF Init
    <3> QED  BY <3>1
  <2> QED  BY <2>1, <2>3, <2>4, <2>5, <2>6, <2>7 DEF TypeInv, SummaryTypeOK
<1>2. \A w \in Paths : firsts[w] = 0 /\ answers[w] = 0  BY DEF Init
<1>3. Seen(answers) = {}  BY <1>2 DEF Seen
<1>4. DelayInv
  <2>1. ~ clocksOffset /\ \A t \in Delays : minDelay[t] = Inf /\ maxDelay[t] = -Inf  BY DEF Init
  <2> QED  BY <1>2, <1>3, <2>1 DEF DelayInv
<1>5. CountInv
  <2>1. ASSUME NEW T \in SUBSET Paths PROVE SumOf(firsts, T) = 0
    <3>1. IsFiniteSet(T)  BY PathsAssumption, FS_Subset
    <3>2. \A w \in T : firsts[w] = 0  BY <1>2
    <3> QED  BY <3>1, <3>2, SumZero
  <2>2. \A b \in Buckets : buckets[b] = SumOf(firsts, InBucket(b))
    BY <2>1 DEF InBucket, Init, StatsInit
  <2>3. \A t \in OneWay, n \in TTLs :
          ttlCount[t][n] = IF t = "bck" /\ NoReflectedTTL THEN 0
                           ELSE SumOf(firsts, WithTTL(t, n))
    BY <2>1 DEF WithTTL, Init
  <2>4. SumOf(firsts, Paths) = statSent - statLost  BY <2>1 DEF Init, StatsInit
  <2>5. \A q \in SentSeqs : fwd[q].seen = 0  BY DEF Init, StatsInit, NewNode
  <2> QED  BY <1>3, <2>2, <2>3, <2>4, <2>5 DEF CountInv
<1> QED  BY <1>1, <1>4, <1>5 DEF SumInv

LEMMA TimesKept ==
  ASSUME TypeInv, NEW x \in Int, NEW y \in Int, x <= y, NEW q, CountRange(q), q \in Nat,
         CountTimes(q, x, y)
  PROVE  /\ startTime' \in Int /\ endTime' \in Int /\ startTime' <= endTime'
         /\ first' \in Nat /\ last' \in Nat /\ haveFirst' \in BOOLEAN
BY DEF TypeInv, SummaryTypeOK, StatsTypeOK, CountRange, CountTimes

LEMMA LinePrinted ==
  ASSUME TypeInv, PrintLine
  PROVE  printed' \in Nat /\ (RecordLimit > 0 => printed' <= RecordLimit)
BY OutputAssumption DEF TypeInv, SummaryTypeOK, PrintLine

(* A record that moves neither a counter nor a delay.                      *)
LEMMA FiguresKept ==
  ASSUME SumInv, UNCHANGED <<counterVars, offset, delayVars, recordVars>>,
         \A q \in SentSeqs : fwd'[q].seen = fwd[q].seen
  PROVE  DelayInv' /\ CountInv'
<1>1. /\ buckets' = buckets /\ statSent' = statSent /\ statLost' = statLost /\ offset' = offset
      /\ minDelay' = minDelay /\ maxDelay' = maxDelay /\ clocksOffset' = clocksOffset
      /\ ttlCount' = ttlCount /\ firsts' = firsts /\ answers' = answers
  BY DEF counterVars, delayVars, recordVars
<1>2. DelayInv'  BY <1>1 DEF SumInv, DelayInv, Seen
<1>3. CountInv'
  <2>1. \A b \in Buckets : InBucket(b)' = InBucket(b)  BY <1>1 DEF InBucket
  <2> QED  BY <1>1, <2>1 DEF SumInv, CountInv, Seen, WithTTL
<1> QED  BY <1>2, <1>3

LEMMA LossInv ==
  ASSUME SumInv, NEW p \in SentSeqs, Loss(p)
  PROVE  SumInv'
<1>1. /\ ~ fwd[p].lost /\ AddLost(p) /\ CountRange(p) /\ PrintLine
      /\ CountTimes(p, Departures[p] + LossTimeout, Departures[p] + LossTimeout)
      /\ UNCHANGED <<offset, delayVars, recordVars>>
  BY DEF Loss, AddLost
<1>2. Departures[p] + LossTimeout \in Int /\ p \in Nat
  BY DeparturesAssumption, NumbersAssumption
<1>3. /\ fwd' = [fwd EXCEPT ![p].lost = TRUE]
      /\ statSent' = statSent + 1 /\ statLost' = statLost + 1
      /\ UNCHANGED <<bck, buckets, dupsFwd, dupsBck, addErr>>
  BY <1>1 DEF AddLost
<1>4. /\ minDelay' = minDelay /\ maxDelay' = maxDelay /\ clocksOffset' = clocksOffset
      /\ ttlCount' = ttlCount /\ firsts' = firsts /\ answers' = answers /\ offset' = offset
  BY <1>1 DEF delayVars, recordVars
<1>5. TypeInv'
  <2>1. fwd' \in [SentSeqs -> Node(Refls)]
    BY <1>3 DEF SumInv, TypeInv, SummaryTypeOK, StatsTypeOK, Node
  <2>2. /\ startTime' \in Int /\ endTime' \in Int /\ startTime' <= endTime'
        /\ first' \in Nat /\ last' \in Nat /\ haveFirst' \in BOOLEAN
    BY <1>1, <1>2, TimesKept DEF SumInv
  <2>3. printed' \in Nat /\ (RecordLimit > 0 => printed' <= RecordLimit)
    BY <1>1, LinePrinted DEF SumInv
  <2>4. StatsTypeOK'
    BY <1>3, <2>1, <2>2 DEF SumInv, TypeInv, SummaryTypeOK, StatsTypeOK
  <2> QED  BY <1>4, <2>2, <2>3, <2>4 DEF SumInv, TypeInv, SummaryTypeOK
<1>6. \A q \in SentSeqs : fwd'[q].seen = fwd[q].seen
  BY <1>3 DEF SumInv, TypeInv, SummaryTypeOK, StatsTypeOK, Node
<1>7. DelayInv'  BY <1>4 DEF SumInv, DelayInv, Seen
<1>8. CountInv'
  <2>1. statSent' - statLost' = statSent - statLost
    BY <1>3 DEF SumInv, TypeInv, SummaryTypeOK, StatsTypeOK
  <2>2. \A b \in Buckets : InBucket(b)' = InBucket(b)  BY <1>4 DEF InBucket
  <2> QED  BY <1>3, <1>4, <1>6, <2>1, <2>2 DEF SumInv, CountInv, Seen, WithTTL
<1> QED  BY <1>5, <1>7, <1>8 DEF SumInv

(* The counters of Stats after an answer that is not refused.              *)
LEMMA Added ==
  ASSUME TypeInv, NEW p \in SentSeqs, NEW r \in Refls, NEW b \in Buckets,
         ~ addErr, ~ fwd[p].lost, ~ addErr', AddAnswer(p, r, b)
  PROVE  /\ fwd' \in [SentSeqs -> Node(Refls)] /\ bck' \in [Refls -> Node(SentSeqs)]
         /\ dupsFwd' \in Nat /\ dupsBck' \in Nat /\ statSent' \in Nat
         /\ statLost' = statLost /\ addErr' = addErr
         /\ \A q \in SentSeqs : fwd'[q].seen > 0 => fwd[q].seen > 0 \/ q = p
         /\ statSent' = IF fwd[p].seen = 0 THEN statSent + 1 ELSE statSent
         /\ buckets' = IF fwd[p].seen = 0 THEN [buckets EXCEPT ![b] = @ + 1] ELSE buckets
<1>1. /\ bck \in [Refls -> Node(SentSeqs)] /\ fwd \in [SentSeqs -> Node(Refls)]
      /\ statSent \in Nat /\ dupsFwd \in Nat /\ dupsBck \in Nat
  BY DEF TypeInv, SummaryTypeOK, StatsTypeOK
<1>2. /\ Link(p, r)
      /\ \/ CountFirst(p, r, b)
         \/ CountSendDuplicate(p, r)
         \/ CountReflectDuplicate(p, r, b)
      /\ statLost' = statLost /\ addErr' = addErr
  BY DEF AddAnswer
<1>3. bck' \in [Refls -> Node(SentSeqs)]
  <2>1. bck' = [bck EXCEPT ![r].seen = @ + 1, ![r].assoc = p]  BY <1>2 DEF Link
  <2>2. bck[r].seen + 1 \in Nat /\ bck[r] \in Node(SentSeqs)  BY <1>1 DEF Node
  <2>3. bck' = [bck EXCEPT ![r] = [bck[r] EXCEPT !.seen = @ + 1, !.assoc = p]]
    BY <1>1, <2>1
  <2>4. [bck[r] EXCEPT !.seen = @ + 1, !.assoc = p] \in Node(SentSeqs)  BY <2>2 DEF Node
  <2> QED  BY <1>1, <2>3, <2>4
<1>4. CASE CountFirst(p, r, b)
  <2>1. /\ fwd' = [fwd EXCEPT ![p].seen = 1, ![p].assoc = r] /\ fwd[p].seen = 0
        /\ statSent' = statSent + 1 /\ buckets' = [buckets EXCEPT ![b] = @ + 1]
        /\ dupsFwd' = dupsFwd /\ dupsBck' = dupsBck
    BY <1>4 DEF CountFirst
  <2>2. fwd' \in [SentSeqs -> Node(Refls)]  BY <1>1, <2>1 DEF Node
  <2>3. \A q \in SentSeqs : fwd'[q].seen > 0 => fwd[q].seen > 0 \/ q = p
    BY <1>1, <2>1 DEF Node
  <2> QED  BY <1>1, <1>2, <1>3, <2>1, <2>2, <2>3
<1>5. CASE CountSendDuplicate(p, r) \/ CountReflectDuplicate(p, r, b)
  <2>1. /\ fwd' = [fwd EXCEPT ![p].seen = @ + 1] \/ fwd' = fwd
        /\ fwd[p].seen > 0 /\ statSent' = statSent /\ buckets' = buckets
        /\ dupsFwd' \in {dupsFwd, dupsFwd + 1} /\ dupsBck' \in {dupsBck, dupsBck + 1}
    BY <1>5 DEF CountSendDuplicate, CountReflectDuplicate, SendDuplicate
  <2>2. fwd' \in [SentSeqs -> Node(Refls)]  BY <1>1, <2>1 DEF Node
  <2>3. \A q \in SentSeqs : fwd'[q].seen > 0 => fwd[q].seen > 0 \/ q = p
    BY <1>1, <2>1 DEF Node
  <2>4. fwd[p].seen # 0 /\ dupsFwd' \in Nat /\ dupsBck' \in Nat  BY <1>1, <2>1
  <2> QED  BY <1>1, <1>2, <1>3, <2>1, <2>2, <2>3, <2>4
<1> QED  BY <1>2, <1>4, <1>5

(* The delays of one more answer on the path w.                            *)
LEMMA DelaysCounted ==
  ASSUME SumInv, NEW w \in Paths, NEW fresh, CountDelays(Measure(w, offset), w, fresh),
         answers' = [answers EXCEPT ![w] = @ + 1], offset' = offset
  PROVE  /\ DelayInv'
         /\ minDelay' \in [Delays -> Int] /\ maxDelay' \in [Delays -> Int]
         /\ clocksOffset' \in BOOLEAN
<1> DEFINE d == Measure(w, offset)
<1>1. /\ answers \in [Paths -> Nat] /\ offset \in Offsets /\ clocksOffset \in BOOLEAN
      /\ minDelay \in [Delays -> Int] /\ maxDelay \in [Delays -> Int]
  BY DEF SumInv, TypeInv, SummaryTypeOK
<1>2. answers'[w] > 0 /\ \A v \in Paths : answers'[v] > 0 <=> answers[v] > 0 \/ v = w
  <2>1. answers[w] \in Nat /\ answers'[w] = answers[w] + 1  BY <1>1
  <2>2. \A v \in Paths \ {w} : answers'[v] = answers[v]  BY <1>1
  <2> QED  BY <2>1, <2>2
<1>3. \A t \in Delays : d[t] \in Int /\ -Inf < d[t] /\ d[t] < Inf  BY <1>1, Measures
<1>4. /\ minDelay' = [t \in Delays |-> Min({minDelay[t], d[t]})]
      /\ maxDelay' = [t \in Delays |-> Max({maxDelay[t], d[t]})]
      /\ clocksOffset' = (clocksOffset \/ \E t \in OneWay : d[t] < 0)
  BY DEF CountDelays
<1> HIDE DEF d
<1>5. \A t \in Delays : /\ minDelay'[t] = IF minDelay[t] <= d[t] THEN minDelay[t] ELSE d[t]
                        /\ maxDelay'[t] = IF maxDelay[t] <= d[t] THEN d[t] ELSE maxDelay[t]
  BY <1>1, <1>3, <1>4, Lesser
<1>6. /\ minDelay' \in [Delays -> Int] /\ maxDelay' \in [Delays -> Int]
      /\ clocksOffset' \in BOOLEAN
  <2>1. \A t \in Delays : minDelay[t] \in Int /\ maxDelay[t] \in Int  BY <1>1
  <2>2. \A t \in Delays : minDelay'[t] \in Int /\ maxDelay'[t] \in Int
    BY <1>3, <1>5, <2>1
  <2> QED  BY <1>1, <1>4, <2>2
<1>7. Inf \in Int  BY DEF Inf
<1>8. ASSUME NEW t \in Delays
      PROVE  /\ \A v \in Paths : answers'[v] > 0 => /\ minDelay'[t] <= Measure(v, offset)[t]
                                                   /\ Measure(v, offset)[t] <= maxDelay'[t]
             /\ \E v \in Paths : answers'[v] > 0 /\ minDelay'[t] = Measure(v, offset)[t]
             /\ \E v \in Paths : answers'[v] > 0 /\ maxDelay'[t] = Measure(v, offset)[t]
  <2>1. /\ minDelay[t] \in Int /\ maxDelay[t] \in Int /\ d[t] \in Int
        /\ -Inf < d[t] /\ d[t] < Inf
        /\ minDelay'[t] = IF minDelay[t] <= d[t] THEN minDelay[t] ELSE d[t]
        /\ maxDelay'[t] = IF maxDelay[t] <= d[t] THEN d[t] ELSE maxDelay[t]
    BY <1>1, <1>3, <1>5
  <2>2. \A v \in Paths : answers[v] > 0 => /\ minDelay[t] <= Measure(v, offset)[t]
                                           /\ Measure(v, offset)[t] <= maxDelay[t]
    BY DEF SumInv, DelayInv
  <2>3. \/ minDelay[t] = Inf /\ maxDelay[t] = -Inf
        \/ /\ \E v \in Paths : answers[v] > 0 /\ minDelay[t] = Measure(v, offset)[t]
           /\ \E v \in Paths : answers[v] > 0 /\ maxDelay[t] = Measure(v, offset)[t]
    BY DEF SumInv, DelayInv
  <2>4. \A v \in Paths : Measure(v, offset)[t] \in Int  BY <1>1, Measures
  <2>5. d[t] = Measure(w, offset)[t]  BY DEF d
  <2>6. ASSUME NEW v \in Paths, answers'[v] > 0
        PROVE  minDelay'[t] <= Measure(v, offset)[t] /\ Measure(v, offset)[t] <= maxDelay'[t]
    <3>1. CASE v = w  BY <2>1, <2>5, <3>1
    <3>2. CASE answers[v] > 0  BY <2>1, <2>2, <2>4, <3>2
    <3> QED  BY <1>2, <2>6, <3>1, <3>2
  <2>7. \E v \in Paths : answers'[v] > 0 /\ minDelay'[t] = Measure(v, offset)[t]
    <3>1. CASE minDelay'[t] = d[t]  BY <1>2, <2>5, <3>1
    <3>2. CASE minDelay'[t] # d[t]
      <4>1. minDelay'[t] = minDelay[t] /\ minDelay[t] <= d[t]  BY <2>1, <3>2
      <4>2. minDelay[t] # Inf  BY <1>7, <2>1, <4>1
      <4> QED  BY <1>2, <2>3, <4>1, <4>2
    <3> QED  BY <3>1, <3>2
  <2>8. \E v \in Paths : answers'[v] > 0 /\ maxDelay'[t] = Measure(v, offset)[t]
    <3>1. CASE maxDelay'[t] = d[t]  BY <1>2, <2>5, <3>1
    <3>2. CASE maxDelay'[t] # d[t]
      <4>1. maxDelay'[t] = maxDelay[t] /\ d[t] < maxDelay[t]  BY <2>1, <3>2
      <4>2. maxDelay[t] # -Inf  BY <1>7, <2>1, <4>1
      <4> QED  BY <1>2, <2>3, <4>1, <4>2
    <3> QED  BY <3>1, <3>2
  <2> QED  BY <2>6, <2>7, <2>8
<1>9. clocksOffset' <=> \E v \in Paths, t \in OneWay : answers'[v] > 0 /\ Measure(v, offset)[t] < 0
  BY <1>2, <1>4 DEF SumInv, DelayInv, d
<1>10. DelayInv'  BY <1>8, <1>9 DEF DelayInv
<1> QED  BY <1>6, <1>10

(* The counters after one more first answer on the path w.                 *)
LEMMA FirstCounted ==
  ASSUME SumInv, NEW w \in Paths, NEW p \in SentSeqs, CountTTL(w), offset' = offset,
         firsts' = [firsts EXCEPT ![w] = @ + 1],
         buckets' = [buckets EXCEPT ![Bucket(Measure(w, offset))] = @ + 1],
         statSent' = statSent + 1, statLost' = statLost
  PROVE  /\ CountInv' /\ ttlCount' \in [OneWay -> [TTLs -> Nat]]
         /\ buckets' \in [Buckets -> Nat]
<1> DEFINE c == Bucket(Measure(w, offset))
<1>1. /\ firsts \in [Paths -> Nat] /\ offset \in Offsets /\ buckets \in [Buckets -> Nat]
      /\ ttlCount \in [OneWay -> [TTLs -> Nat]] /\ statSent \in Nat /\ statLost \in Nat
  BY DEF SumInv, TypeInv, SummaryTypeOK, StatsTypeOK
<1>2. c \in Buckets  BY <1>1, Measures
<1>3. \A T \in SUBSET Paths : SumOf(firsts', T) = SumOf(firsts, T) + IF w \in T THEN 1 ELSE 0
  BY <1>1, OneFirst
<1>4. \A T \in SUBSET Paths : SumOf(firsts, T) \in Nat  BY <1>1, PathSums
<1>5. ASSUME NEW b \in Buckets
      PROVE  buckets'[b] = SumOf(firsts', InBucket(b)') /\ buckets'[b] \in Nat
  <2>1. InBucket(b)' = InBucket(b) /\ InBucket(b) \in SUBSET Paths  BY DEF InBucket
  <2>2. w \in InBucket(b) <=> b = c  BY DEF InBucket
  <2>3. buckets[b] = SumOf(firsts, InBucket(b)) /\ buckets[b] \in Nat
    BY <1>1 DEF SumInv, CountInv
  <2> HIDE DEF c
  <2>4. buckets' = [buckets EXCEPT ![c] = @ + 1]  BY DEF c
  <2>5. buckets'[b] = buckets[b] + IF b = c THEN 1 ELSE 0  BY <1>1, <1>2, <2>3, <2>4
  <2>6. SumOf(firsts', InBucket(b)) = SumOf(firsts, InBucket(b)) + IF w \in InBucket(b) THEN 1 ELSE 0
    BY <1>3, <2>1
  <2> QED  BY <2>1, <2>2, <2>3, <2>5, <2>6
<1>6. buckets' \in [Buckets -> Nat]  BY <1>1, <1>5
<1>7. ASSUME NEW t \in OneWay, NEW n \in TTLs
      PROVE  /\ ttlCount'[t][n] = IF t = "bck" /\ NoReflectedTTL THEN 0
                                  ELSE SumOf(firsts', WithTTL(t, n))
             /\ ttlCount'[t][n] \in Nat
  <2>1. /\ ttlCount[t] \in [TTLs -> Nat] /\ w.ttl[t] \in TTLs /\ ttlCount[t][n] \in Nat
    BY <1>1, PathTypes
  <2>2. ttlCount[t][n] = IF t = "bck" /\ NoReflectedTTL THEN 0 ELSE SumOf(firsts, WithTTL(t, n))
    BY DEF SumInv, CountInv
  <2>3. ttlCount'[t] = IF t = "bck" /\ NoReflectedTTL THEN ttlCount[t]
                       ELSE [ttlCount[t] EXCEPT ![w.ttl[t]] = @ + 1]
    BY DEF CountTTL
  <2>4. CASE t = "bck" /\ NoReflectedTTL  BY <2>1, <2>2, <2>3, <2>4
  <2>5. CASE ~ (t = "bck" /\ NoReflectedTTL)
    <3>1. ttlCount'[t][n] = ttlCount[t][n] + IF n = w.ttl[t] THEN 1 ELSE 0
      BY <2>1, <2>3, <2>5
    <3>2. WithTTL(t, n) \in SUBSET Paths /\ (w \in WithTTL(t, n) <=> n = w.ttl[t])
      BY DEF WithTTL
    <3>3. SumOf(firsts', WithTTL(t, n)) = SumOf(firsts, WithTTL(t, n))
                                          + IF w \in WithTTL(t, n) THEN 1 ELSE 0
      BY <1>3, <3>2
    <3> QED  BY <2>1, <2>2, <2>5, <3>1, <3>2, <3>3
  <2> QED  BY <2>4, <2>5
<1>8. ttlCount' \in [OneWay -> [TTLs -> Nat]]
  <2>1. \A t \in OneWay : ttlCount'[t] \in [TTLs -> Nat]
    <3> SUFFICES ASSUME NEW t \in OneWay PROVE ttlCount'[t] \in [TTLs -> Nat]  OBVIOUS
    <3>1. ttlCount'[t] = IF t = "bck" /\ NoReflectedTTL THEN ttlCount[t]
                         ELSE [ttlCount[t] EXCEPT ![w.ttl[t]] = @ + 1]
      BY DEF CountTTL
    <3>2. ttlCount[t] \in [TTLs -> Nat] /\ w.ttl[t] \in TTLs  BY <1>1, PathTypes
    <3> QED  BY <3>1, <3>2
  <2>2. ttlCount' = [t \in OneWay |-> ttlCount'[t]]  BY DEF CountTTL
  <2> QED  BY <2>1, <2>2
<1>9. SumOf(firsts', Paths) = statSent' - statLost'
  <2>1. SumOf(firsts, Paths) = statSent - statLost  BY DEF SumInv, CountInv
  <2>2. SumOf(firsts', Paths) = SumOf(firsts, Paths) + 1  BY <1>3
  <2> QED  BY <1>1, <2>1, <2>2
<1>10. Seen(firsts') # {}
  <2>1. firsts[w] \in Nat /\ firsts'[w] = firsts[w] + 1  BY <1>1
  <2> QED  BY <2>1 DEF Seen
<1>11. CountInv'  BY <1>5, <1>7, <1>9, <1>10 DEF CountInv, Seen, WithTTL
<1> QED  BY <1>6, <1>8, <1>11

LEMMA AnswerInv ==
  ASSUME SumInv, NEW p \in SentSeqs, NEW r \in Refls, NEW w \in Paths, Answer(p, r, w)
  PROVE  SumInv'
<1> DEFINE d == Measure(w, offset)
           fresh == fwd[p].seen = 0
<1>1. offset \in Offsets /\ p \in Nat
  BY NumbersAssumption DEF SumInv, TypeInv
<1>2. /\ Delay(p, w) = d
      /\ Departures[p] \in Nat /\ Stamps(p, w).back \in Nat
      /\ Departures[p] <= Stamps(p, w).back
  BY <1>1, DelayIs
<1>3. Bucket(d) \in Buckets  BY <1>1, Measures
<1>4. /\ ~ addErr /\ ~ fwd[p].lost
      /\ AddAnswer(p, r, Bucket(d))
      /\ CountTimes(p, Departures[p], Stamps(p, w).back)
      /\ offset' = offset
      /\ addErr' => UNCHANGED <<delayVars, printed, recordVars>>
      /\ ~ addErr' => /\ CountDelays(d, w, fresh)
                      /\ PrintLine
                      /\ firsts' = IF fresh THEN [firsts EXCEPT ![w] = @ + 1] ELSE firsts
                      /\ answers' = [answers EXCEPT ![w] = @ + 1]
  BY <1>2 DEF Answer
<1> HIDE DEF d, fresh
<1>5. CountRange(p)  BY <1>4 DEF AddAnswer
<1>6. /\ startTime' \in Int /\ endTime' \in Int /\ startTime' <= endTime'
      /\ first' \in Nat /\ last' \in Nat /\ haveFirst' \in BOOLEAN
  BY <1>1, <1>2, <1>4, <1>5, TimesKept DEF SumInv
<1>7. CASE addErr'
  <2>1. UNCHANGED <<nodeVars, counterVars>> /\ addErr' \in BOOLEAN
    <3>1. Conflicting(p, r)  BY <1>4, <1>7 DEF AddAnswer
    <3> QED  BY <1>4, <3>1 DEF AddAnswer
  <2>2. fwd' = fwd  BY <2>1 DEF nodeVars
  <2>3. DelayInv' /\ CountInv'  BY <1>4, <1>7, <2>1, <2>2, FiguresKept
  <2>4. StatsTypeOK'
    BY <1>6, <2>1 DEF SumInv, TypeInv, SummaryTypeOK, StatsTypeOK, nodeVars, counterVars
  <2>5. TypeInv'
    BY <1>4, <1>6, <1>7, <2>4 DEF SumInv, TypeInv, SummaryTypeOK, delayVars, recordVars
  <2> QED  BY <2>3, <2>5 DEF SumInv
<1>8. CASE ~ addErr'
  <2>1. /\ firsts \in [Paths -> Nat] /\ answers \in [Paths -> Nat]
        /\ \A v \in Paths : firsts[v] <= answers[v]
        /\ statSent \in Nat /\ statLost \in Nat /\ buckets \in [Buckets -> Nat]
        /\ ttlCount \in [OneWay -> [TTLs -> Nat]] /\ addErr \in BOOLEAN
    BY DEF SumInv, TypeInv, SummaryTypeOK, StatsTypeOK
  <2>2. /\ fwd' \in [SentSeqs -> Node(Refls)] /\ bck' \in [Refls -> Node(SentSeqs)]
        /\ dupsFwd' \in Nat /\ dupsBck' \in Nat /\ statSent' \in Nat
        /\ statLost' = statLost /\ addErr' = addErr
        /\ \A q \in SentSeqs : fwd'[q].seen > 0 => fwd[q].seen > 0 \/ q = p
        /\ statSent' = IF fresh THEN statSent + 1 ELSE statSent
        /\ buckets' = IF fresh THEN [buckets EXCEPT ![Bucket(d)] = @ + 1] ELSE buckets
    BY <1>3, <1>4, <1>8, Added DEF SumInv, fresh
  <2>3. /\ CountDelays(d, w, fresh) /\ PrintLine
        /\ firsts' = IF fresh THEN [firsts EXCEPT ![w] = @ + 1] ELSE firsts
        /\ answers' = [answers EXCEPT ![w] = @ + 1]
    BY <1>4, <1>8
  <2>4. /\ DelayInv'
        /\ minDelay' \in [Delays -> Int] /\ maxDelay' \in [Delays -> Int]
        /\ clocksOffset' \in BOOLEAN
    BY <1>4, <2>3, DelaysCounted DEF d
  <2>5. printed' \in Nat /\ (RecordLimit > 0 => printed' <= RecordLimit)
    BY <2>3, LinePrinted DEF SumInv
  <2>6. CountInv' /\ ttlCount' \in [OneWay -> [TTLs -> Nat]] /\ buckets' \in [Buckets -> Nat]
    <3>1. CASE fresh
      <4>1. CountTTL(w)  BY <2>3, <3>1 DEF CountDelays
      <4> QED  BY <1>4, <2>2, <2>3, <3>1, <4>1, FirstCounted DEF d
    <3>2. CASE ~ fresh
      <4>1. /\ ttlCount' = ttlCount /\ firsts' = firsts /\ buckets' = buckets
            /\ statSent' = statSent
        BY <2>2, <2>3, <3>2 DEF CountDelays
      <4>2. fwd[p].seen > 0
        <5>1. fwd[p].seen \in Nat
          BY DEF SumInv, TypeInv, SummaryTypeOK, StatsTypeOK, Node
        <5> QED  BY <3>2, <5>1 DEF fresh
      <4>3. Seen(firsts) # {}  BY <4>2 DEF SumInv, CountInv
      <4>4. \A b \in Buckets : InBucket(b)' = InBucket(b)  BY <1>4 DEF InBucket
      <4>5. CountInv'
        BY <2>2, <4>1, <4>3, <4>4 DEF SumInv, CountInv, Seen, WithTTL
      <4> QED  BY <2>1, <4>1, <4>5
    <3> QED  BY <3>1, <3>2
  <2>7. /\ firsts' \in [Paths -> Nat] /\ answers' \in [Paths -> Nat]
        /\ \A v \in Paths : firsts'[v] <= answers'[v]
    <3>1. firsts[w] \in Nat /\ answers[w] \in Nat /\ firsts[w] <= answers[w]  BY <2>1
    <3>2. \A v \in Paths \ {w} : firsts'[v] = firsts[v] /\ answers'[v] = answers[v]
      BY <2>1, <2>3
    <3>3. /\ firsts'[w] = IF fresh THEN firsts[w] + 1 ELSE firsts[w]
          /\ answers'[w] = answers[w] + 1
      BY <2>1, <2>3
    <3>4. firsts' \in [Paths -> Nat] /\ answers' \in [Paths -> Nat]
      BY <2>1, <2>3, <3>1
    <3>5. \A v \in Paths : firsts'[v] <= answers'[v]  BY <2>1, <3>1, <3>2, <3>3
    <3> QED  BY <3>4, <3>5
  <2>8. StatsTypeOK'  BY <1>6, <2>1, <2>2, <2>6 DEF StatsTypeOK
  <2>9. TypeInv'
    BY <1>1, <1>4, <1>6, <2>4, <2>5, <2>6, <2>7, <2>8 DEF TypeInv, SummaryTypeOK
  <2> QED  BY <2>4, <2>6, <2>9 DEF SumInv
<1> QED  BY <1>7, <1>8

-----------------------------------------------------------------------------
(* The invariant: extremes, buckets, TTLs and counters are those of the    *)
(* answers, whatever their order and number (stats.go:300-383).            *)
THEOREM SummaryInvariant == Spec => []SumInv
<1>1. SumInv /\ [Next]_vars => SumInv'
  <2> SUFFICES ASSUME SumInv, [Next]_vars PROVE SumInv'  OBVIOUS
  <2>1. CASE \E p \in SentSeqs, r \in Refls, w \in Paths : Answer(p, r, w)
    BY <2>1, AnswerInv
  <2>2. CASE \E p \in SentSeqs : Loss(p)  BY <2>2, LossInv
  <2>3. CASE UNCHANGED vars
    <3>1. UNCHANGED <<statsVars, offset, delayVars, startTime, endTime, printed, recordVars>>
      BY <2>3 DEF vars
    <3>2. UNCHANGED <<nodeVars, counterVars, rangeVars, addErr>>  BY <3>1 DEF statsVars
    <3>3. fwd' = fwd  BY <3>2 DEF nodeVars
    <3>4. DelayInv' /\ CountInv'  BY <3>1, <3>2, <3>3, FiguresKept
    <3>5. StatsTypeOK'
      BY <3>2 DEF SumInv, TypeInv, SummaryTypeOK, StatsTypeOK, nodeVars, counterVars, rangeVars
    <3>6. TypeInv'
      BY <3>1, <3>5 DEF SumInv, TypeInv, SummaryTypeOK, delayVars, recordVars
    <3> QED  BY <3>4, <3>6 DEF SumInv
  <2> QED  BY <2>1, <2>2, <2>3 DEF Next, Report
<1> QED  BY InitInv, <1>1, PTL DEF Spec

(* All figures keep to their type: the session ends no earlier than it     *)
(* began, -v prints no more lines than asked for, and no path has more     *)
(* first answers than answers (stats.go:259-275, 385-394).                 *)
THEOREM SummaryTyped == Spec => []SummaryTypeOK
<1>1. SumInv => SummaryTypeOK  BY DEF SumInv, TypeInv
<1> QED  BY <1>1, SummaryInvariant, PTL

-----------------------------------------------------------------------------
(* The bucket of a delay t on the path w, and the paths with a delay t in  *)
(* one of the buckets J.                                                   *)
Key(t, w)      == Measure(w, offset)[t] \div Width
WithKeys(t, J) == {w \in Paths : Key(t, w) \in J}

LEMMA SumOverIs == \A f, S : SumOver(f, S) = SumOf(f, S)
BY Zenon DEF SumOver, SumOf

LEMMA KeyTypes ==
  ASSUME SumInv, NEW t \in Measured, NEW w \in Paths
  PROVE  /\ Key(t, w) \in Int /\ Bucket(Measure(w, offset)) \in Buckets
         /\ Bucket(Measure(w, offset))[t] = Key(t, w)
         /\ Measure(w, offset)[t] \in Int /\ firsts[w] \in Nat
         /\ Measure(w, offset)[t] < (Key(t, w) + 1) * Width
         /\ Key(t, w) * Width <= Measure(w, offset)[t]
         /\ t \in Delays
<1>1. offset \in Offsets /\ t \in Delays /\ firsts[w] \in Nat
  BY Kinds DEF SumInv, TypeInv
<1> DEFINE d == Measure(w, offset)[t]
<1>2. d \in Int  BY <1>1, Measures
<1>3. /\ Bucket(Measure(w, offset)) \in Buckets
      /\ Bucket(Measure(w, offset))[t] = Key(t, w) /\ Key(t, w) \in Int
  BY <1>1, Measures DEF Key
<1> HIDE DEF d
<1>4. Key(t, w) = d \div Width  BY DEF Key, d
<1>5. d % Width \in 0 .. Width - 1 /\ d = Width * (d \div Width) + (d % Width)
  BY <1>2, WidthAssumption, IntDivision
<1>6. Width * Key(t, w) <= d /\ d < Width * Key(t, w) + Width
  BY <1>2, <1>3, <1>4, <1>5, WidthAssumption
<1>7. /\ (Key(t, w) + 1) * Width = Width * Key(t, w) + Width
      /\ Key(t, w) * Width = Width * Key(t, w)
  BY <1>3, WidthAssumption
<1> QED  BY <1>1, <1>2, <1>3, <1>6, <1>7 DEF d

LEMMA KeysAre ==
  ASSUME SumInv, NEW t \in Measured
  PROVE  /\ Keys(t) \in SUBSET Int /\ IsFiniteSet(Keys(t))
         /\ \A k : k \in Keys(t) <=> \E w \in Paths : firsts[w] > 0 /\ Key(t, w) = k
<1>1. \A b \in Buckets : /\ b[t] \in Int
                         /\ buckets[b] > 0 <=> \E w \in InBucket(b) : firsts[w] > 0
  <2> SUFFICES ASSUME NEW b \in Buckets
               PROVE  b[t] \in Int /\ (buckets[b] > 0 <=> \E w \in InBucket(b) : firsts[w] > 0)
    OBVIOUS
  <2>1. b[t] \in Int  BY BucketsAssumption
  <2>2. firsts \in [Paths -> Nat] /\ InBucket(b) \in SUBSET Paths
    BY DEF SumInv, TypeInv, InBucket
  <2>3. SumOf(firsts, InBucket(b)) > 0 <=> \E w \in InBucket(b) : firsts[w] > 0
    BY <2>2, PathSums
  <2> QED  BY <2>1, <2>3 DEF SumInv, CountInv
<1>2. \A k : k \in Keys(t) <=> \E b \in Buckets : buckets[b] > 0 /\ b[t] = k
  BY DEF Keys
<1>3. \A k : k \in Keys(t) <=> \E w \in Paths : firsts[w] > 0 /\ Key(t, w) = k
  <2> SUFFICES ASSUME NEW k
               PROVE  k \in Keys(t) <=> \E w \in Paths : firsts[w] > 0 /\ Key(t, w) = k
    OBVIOUS
  <2>1. ASSUME k \in Keys(t) PROVE \E w \in Paths : firsts[w] > 0 /\ Key(t, w) = k
    <3>1. PICK b \in Buckets : buckets[b] > 0 /\ b[t] = k  BY <1>2, <2>1
    <3>2. PICK w \in InBucket(b) : firsts[w] > 0  BY <1>1, <3>1
    <3>3. w \in Paths /\ Bucket(Measure(w, offset)) = b  BY DEF InBucket
    <3> QED  BY <3>1, <3>2, <3>3, KeyTypes
  <2>2. ASSUME NEW w \in Paths, firsts[w] > 0, Key(t, w) = k PROVE k \in Keys(t)
    <3> DEFINE b == Bucket(Measure(w, offset))
    <3>1. b \in Buckets /\ b[t] = k /\ w \in InBucket(b)  BY <2>2, KeyTypes DEF InBucket
    <3> HIDE DEF b
    <3> QED  BY <1>1, <1>2, <2>2, <3>1
  <2> QED  BY <2>1, <2>2
<1>4. Keys(t) \in SUBSET Int  BY <1>1, <1>2
<1>5. IsFiniteSet(Keys(t))
  <2> DEFINE f == [w \in Paths |-> Key(t, w)]
  <2>1. IsFiniteSet({f[w] : w \in Paths})  BY PathsAssumption, ImageFinite
  <2>2. Keys(t) \subseteq {f[w] : w \in Paths}  BY <1>3
  <2> QED  BY <2>1, <2>2, FS_Subset
<1> QED  BY <1>3, <1>4, <1>5

(* A histogram counts the first answers whose delay falls into its buckets. *)
LEMMA HistIs ==
  ASSUME SumInv, NEW t \in Measured, NEW k \in Keys(t)
  PROVE  /\ Hist(t)[k] = SumOf(firsts, WithKeys(t, {k}))
         /\ Hist(t)[k] \in Nat
<1> DEFINE B == {b \in Buckets : b[t] = k}
           S == WithKeys(t, {k})
           h == [w \in S |-> Bucket(Measure(w, offset))]
<1>1. Hist(t)[k] = SumOf(buckets, B)  BY SumOverIs DEF Hist
<1>2. firsts \in [Paths -> Nat] /\ S \in SUBSET Paths
  BY DEF SumInv, TypeInv, WithKeys
<1>3. IsFiniteSet(S) /\ SumOf(firsts, S) \in Nat  BY <1>2, PathSums
<1>4. IsFiniteSet(B)  BY FiniteBucketsAssumption, FS_Subset
<1>5. h \in [S -> B]
  <2>1. \A w \in S : w \in Paths /\ Key(t, w) = k  BY DEF WithKeys
  <2>2. \A w \in S : Bucket(Measure(w, offset)) \in B  BY <2>1, KeyTypes
  <2> QED  BY <2>2
<1>6. \A w \in S : firsts[w] \in Int  BY <1>2
<1>7. ASSUME NEW b \in B PROVE buckets[b] = SumOf(firsts, Fiber(h, S, b))
  <2>1. InBucket(b) = Fiber(h, S, b)
    <3>1. \A w \in Paths : Bucket(Measure(w, offset)) = b => Key(t, w) = k
      BY KeyTypes
    <3> QED  BY <3>1 DEF InBucket, WithKeys, Fiber
  <2>2. buckets[b] = SumOf(firsts, InBucket(b))  BY DEF SumInv, CountInv
  <2> QED  BY <2>1, <2>2
<1> HIDE DEF S, B, h
<1>8. \A b \in B : buckets[b] = SumOf(firsts, Fiber(h, S, b))  BY <1>7
<1>9. SumOf(buckets, B) = SumOf(firsts, S)
  BY ONLY <1>3, <1>4, <1>5, <1>6, <1>8, SumFibers
<1> QED  BY <1>1, <1>3, <1>9 DEF S

LEMMA HistSum ==
  ASSUME SumInv, NEW t \in Measured, NEW J \in SUBSET Keys(t)
  PROVE  SumOf(Hist(t), J) = SumOf(firsts, WithKeys(t, J))
<1> DEFINE S == WithKeys(t, J)
           h == [w \in S |-> Key(t, w)]
           g == Hist(t)
<1>1. firsts \in [Paths -> Nat] /\ S \in SUBSET Paths
  BY DEF SumInv, TypeInv, WithKeys
<1>2. IsFiniteSet(S)  BY <1>1, PathSums
<1>3. IsFiniteSet(J)  BY KeysAre, FS_Subset
<1>4. h \in [S -> J]  BY DEF WithKeys
<1>5. \A w \in S : firsts[w] \in Int  BY <1>1
<1>6. ASSUME NEW k \in J PROVE g[k] = SumOf(firsts, Fiber(h, S, k))
  <2>1. WithKeys(t, {k}) = Fiber(h, S, k)  BY DEF WithKeys, Fiber
  <2> QED  BY <2>1, HistIs
<1> HIDE DEF S, h, g
<1>7. \A k \in J : g[k] = SumOf(firsts, Fiber(h, S, k))  BY <1>6
<1>8. SumOf(g, J) = SumOf(firsts, S)
  BY ONLY <1>2, <1>3, <1>4, <1>5, <1>7, SumFibers
<1> QED  BY <1>8 DEF S, g

(* The same for any set of buckets, whether they are in use or not.        *)
LEMMA HistSumAny ==
  ASSUME SumInv, NEW t \in Measured, NEW J
  PROVE  SumOf(Hist(t), {k \in Keys(t) : k \in J}) = SumOf(firsts, WithKeys(t, J))
<1> DEFINE S == WithKeys(t, J)
           T == WithKeys(t, {k \in Keys(t) : k \in J})
<1>1. firsts \in [Paths -> Nat] /\ S \in SUBSET Paths /\ T \in SUBSET S
  BY DEF SumInv, TypeInv, WithKeys
<1>2. IsFiniteSet(S) /\ \A w \in S : firsts[w] \in Int  BY <1>1, PathSums
<1>3. ASSUME NEW w \in S \ T PROVE firsts[w] = 0
  <2>1. w \in Paths /\ Key(t, w) \in J /\ Key(t, w) \notin Keys(t)  BY DEF WithKeys
  <2>2. ~ (firsts[w] > 0)  BY <2>1, KeysAre
  <2>3. firsts[w] \in Nat  BY <1>1, <2>1
  <2> QED  BY <2>2, <2>3
<1>4. {k \in Keys(t) : k \in J} \in SUBSET Keys(t)  OBVIOUS
<1>5. SumOf(Hist(t), {k \in Keys(t) : k \in J}) = SumOf(firsts, T)
  BY <1>4, HistSum
<1> HIDE DEF S, T
<1>6. SumOf(firsts, S) = SumOf(firsts, T)  BY <1>1, <1>2, <1>3, SumDrop
<1> QED  BY <1>5, <1>6 DEF S

(* Every histogram holds every packet answered once.                       *)
LEMMA HistTotal ==
  ASSUME SumInv, NEW t \in Measured
  PROVE  /\ SumOf(Hist(t), Keys(t)) = SumOf(firsts, Paths)
         /\ SumOf(Hist(t), Keys(t)) = statSent - statLost
         /\ SumOf(Hist(t), Keys(t)) \in Nat
<1>1. {k \in Keys(t) : k \in Int} = Keys(t)  BY KeysAre
<1>2. WithKeys(t, Int) = Paths  BY KeyTypes DEF WithKeys
<1>3. SumOf(Hist(t), Keys(t)) = SumOf(firsts, Paths)  BY <1>1, <1>2, HistSumAny
<1>4. SumOf(firsts, Paths) \in Nat  BY PathSums DEF SumInv, TypeInv
<1> QED  BY <1>3, <1>4 DEF SumInv, CountInv

(* What is missing is missing everywhere.                                  *)
LEMMA NothingYet ==
  ASSUME SumInv
  PROVE  /\ Seen(answers) = {} <=> Seen(firsts) = {}
         /\ \A t \in Delays : /\ minDelay[t] \in Int /\ maxDelay[t] \in Int
                              /\ minDelay[t] < Inf <=> Seen(answers) # {}
                              /\ maxDelay[t] > -Inf <=> Seen(answers) # {}
         /\ \A t \in Measured : Keys(t) = {} <=> Seen(firsts) = {}
<1>1. /\ minDelay \in [Delays -> Int] /\ maxDelay \in [Delays -> Int] /\ offset \in Offsets
      /\ firsts \in [Paths -> Nat] /\ answers \in [Paths -> Nat]
      /\ \A w \in Paths : firsts[w] <= answers[w]
  BY DEF SumInv, TypeInv, SummaryTypeOK
<1>2. Seen(answers) = {} <=> Seen(firsts) = {}
  <2>1. \A w \in Paths : firsts[w] > 0 => answers[w] > 0
    <3> SUFFICES ASSUME NEW w \in Paths PROVE firsts[w] > 0 => answers[w] > 0  OBVIOUS
    <3>1. firsts[w] \in Nat /\ answers[w] \in Nat /\ firsts[w] <= answers[w]  BY <1>1
    <3> QED  BY <3>1
  <2>2. Seen(answers) # {} => Seen(firsts) # {}  BY DEF SumInv, CountInv
  <2> QED  BY <2>1, <2>2 DEF Seen
<1>3. ASSUME NEW t \in Delays
      PROVE  /\ minDelay[t] \in Int /\ maxDelay[t] \in Int
             /\ minDelay[t] < Inf <=> Seen(answers) # {}
             /\ maxDelay[t] > -Inf <=> Seen(answers) # {}
  <2>1. minDelay[t] \in Int /\ maxDelay[t] \in Int /\ Inf \in Int  BY <1>1 DEF Inf
  <2>2. CASE Seen(answers) = {}
    <3>1. \A w \in Paths : ~ (answers[w] > 0)  BY <2>2 DEF Seen
    <3>2. minDelay[t] = Inf /\ maxDelay[t] = -Inf  BY <3>1 DEF SumInv, DelayInv
    <3> QED  BY <2>1, <2>2, <3>2
  <2>3. CASE Seen(answers) # {}
    <3>1. /\ \E w \in Paths : minDelay[t] = Measure(w, offset)[t]
          /\ \E w \in Paths : maxDelay[t] = Measure(w, offset)[t]
      BY <2>3 DEF SumInv, DelayInv
    <3>2. \A w \in Paths : -Inf < Measure(w, offset)[t] /\ Measure(w, offset)[t] < Inf
      BY <1>1, Measures
    <3>3. minDelay[t] < Inf /\ -Inf < maxDelay[t]  BY <3>1, <3>2
    <3> QED  BY <2>1, <2>3, <3>3
  <2> QED  BY <2>2, <2>3
<1>4. ASSUME NEW t \in Measured PROVE Keys(t) = {} <=> Seen(firsts) = {}
  <2>1. \A k : k \in Keys(t) <=> \E w \in Paths : firsts[w] > 0 /\ Key(t, w) = k
    BY KeysAre
  <2> QED  BY <2>1 DEF Seen
<1> QED  BY <1>2, <1>3, <1>4

-----------------------------------------------------------------------------
LEMMA RoundTrip ==
  ASSUME SumInv
  PROVE  RoundTripIsNetworkTime
<1> DEFINE N == {Network(w) : w \in Seen(answers)}
<1>1. "rtt" \in Delays /\ "rtt" \in Measured  BY Kinds
<1>2. offset \in Offsets  BY DEF SumInv, TypeInv
<1>3. \A w \in Paths : Measure(w, offset)["rtt"] = Network(w) /\ Network(w) \in Int
  BY <1>2, Measures
<1>4. N \in SUBSET Int  BY <1>3 DEF Seen
<1>5. /\ minDelay["rtt"] \in Int /\ maxDelay["rtt"] \in Int
      /\ minDelay["rtt"] < Inf <=> Seen(answers) # {}
      /\ maxDelay["rtt"] > -Inf <=> Seen(answers) # {}
  BY <1>1, NothingYet
<1>6. ASSUME Seen(answers) # {}
      PROVE  minDelay["rtt"] = Min(N) /\ maxDelay["rtt"] = Max(N)
  <2>1. /\ \E w \in Paths : answers[w] > 0 /\ minDelay["rtt"] = Measure(w, offset)["rtt"]
        /\ \E w \in Paths : answers[w] > 0 /\ maxDelay["rtt"] = Measure(w, offset)["rtt"]
    BY <1>1, <1>6 DEF SumInv, DelayInv
  <2>2. \A w \in Paths : answers[w] > 0 => minDelay["rtt"] <= Network(w) /\ Network(w) <= maxDelay["rtt"]
    BY <1>1, <1>3 DEF SumInv, DelayInv
  <2>3. minDelay["rtt"] \in N /\ maxDelay["rtt"] \in N  BY <1>3, <2>1 DEF Seen
  <2>4. \A d \in N : minDelay["rtt"] <= d /\ d <= maxDelay["rtt"]  BY <2>2 DEF Seen
  <2> HIDE DEF N
  <2> QED  BY <1>4, <2>3, <2>4, MinIs, MaxIs
<1>7. SummaryReport.min["rtt"] = IF minDelay["rtt"] < Inf THEN {minDelay["rtt"]} ELSE {}
  BY <1>1 DEF SummaryReport
<1>8. SummaryReport.max["rtt"] = IF maxDelay["rtt"] > -Inf THEN {maxDelay["rtt"]} ELSE {}
  BY <1>1 DEF SummaryReport
<1>9. ASSUME NEW k \in Keys("rtt")
      PROVE  Hist("rtt")[k] = SumOver(firsts, {w \in Paths : Network(w) \div Width = k})
  <2>1. WithKeys("rtt", {k}) = {w \in Paths : Network(w) \div Width = k}
    BY <1>3 DEF WithKeys, Key
  <2> QED  BY <1>1, <2>1, HistIs, SumOverIs
<1>10. SummaryReport.min["rtt"] = IF Seen(answers) = {} THEN {} ELSE {Min(N)}
  BY <1>5, <1>6, <1>7
<1>11. SummaryReport.max["rtt"] = IF Seen(answers) = {} THEN {} ELSE {Max(N)}
  BY <1>5, <1>6, <1>8
<1> QED  BY <1>9, <1>10, <1>11 DEF RoundTripIsNetworkTime

(* The buckets that reach the share a of the answers, and the quantile.    *)
Reached(a, t, up) ==
  {k \in Keys(t) :
     LET upTo == SumOver(Hist(t), {j \in Keys(t) : j <= k})
         total == SumOver(Hist(t), Keys(t))
     IN  IF up THEN upTo * a[2] > a[1] * total ELSE upTo * a[2] >= a[1] * total}

LEMMA PercentileIs ==
  ASSUME SumInv, NEW t \in Measured, Keys(t) # {}, NEW a, NEW up
  PROVE  /\ Percentile(a, t, up) = IF Reached(a, t, up) = {} THEN Max(Keys(t))
                                   ELSE Min(Reached(a, t, up))
         /\ Percentile(a, t, up) \in Keys(t)
         /\ Reached(a, t, up) \in SUBSET Keys(t)
         /\ IsFiniteSet(Reached(a, t, up)) /\ Reached(a, t, up) \in SUBSET Int
<1>1. Percentile(a, t, up) = IF Reached(a, t, up) = {} THEN Max(Keys(t))
                             ELSE Min(Reached(a, t, up))
  BY Zenon DEF Percentile, Reached
<1>2. Reached(a, t, up) \in SUBSET Keys(t)  BY DEF Reached
<1>3. Keys(t) \in SUBSET Int /\ IsFiniteSet(Keys(t))  BY KeysAre
<1>4. IsFiniteSet(Reached(a, t, up)) /\ Reached(a, t, up) \in SUBSET Int
  BY <1>2, <1>3, FS_Subset
<1>5. Max(Keys(t)) \in Keys(t)  BY <1>3, Extremes
<1>6. Reached(a, t, up) # {} => Min(Reached(a, t, up)) \in Reached(a, t, up)
  BY <1>4, Extremes
<1> QED  BY <1>1, <1>2, <1>4, <1>5, <1>6

LEMMA NegativesWarned ==
  ASSUME SumInv
  PROVE  NegativeDelaysWarned
<1> DEFINE shown == UNION {SummaryReport.min[t] \cup SummaryReport.median[t] : t \in OneWay}
<1>1. offset \in Offsets  BY DEF SumInv, TypeInv
<1>2. SummaryReport.warned = clocksOffset  BY DEF SummaryReport
<1>3. ASSUME NEW t \in OneWay
      PROVE  /\ SummaryReport.min[t] = IF minDelay[t] < Inf THEN {minDelay[t]} ELSE {}
             /\ SummaryReport.median[t] = IF Keys(t) = {} THEN {} ELSE {Median(t)}
             /\ t \in Delays /\ t \in Measured
  BY Kinds DEF SummaryReport
<1>4. clocksOffset <=>
        \E w \in Paths, t \in OneWay : answers[w] > 0 /\ Measure(w, offset)[t] < 0
  BY DEF SumInv, DelayInv
<1>5. ASSUME NEW w \in Paths, NEW t \in OneWay, answers[w] > 0, Measure(w, offset)[t] < 0
      PROVE  \E d \in shown : d < 0
  <2>1. t \in Delays  BY <1>3
  <2>2. Seen(answers) # {}  BY <1>5 DEF Seen
  <2>3. minDelay[t] \in Int /\ minDelay[t] < Inf  BY <2>1, <2>2, NothingYet
  <2>4. minDelay[t] <= Measure(w, offset)[t]  BY <1>5, <2>1 DEF SumInv, DelayInv
  <2>5. Measure(w, offset)[t] \in Int  BY <1>1, <2>1, Measures
  <2>6. minDelay[t] < 0  BY <1>5, <2>3, <2>4, <2>5
  <2>7. minDelay[t] \in SummaryReport.min[t]  BY <1>3, <2>3
  <2>8. minDelay[t] \in shown  BY <2>7
  <2> QED  BY <2>6, <2>8
<1>6. ASSUME NEW d \in shown, d < 0
      PROVE  \E w \in Paths, t \in OneWay : answers[w] > 0 /\ Measure(w, offset)[t] < 0
  <2>1. PICK t \in OneWay : d \in SummaryReport.min[t] \/ d \in SummaryReport.median[t]
    OBVIOUS
  <2>2. CASE d \in SummaryReport.min[t]
    <3>1. d = minDelay[t] /\ minDelay[t] < Inf /\ t \in Delays  BY <1>3, <2>2
    <3>2. Seen(answers) # {}  BY <3>1, NothingYet
    <3>3. PICK w \in Paths : answers[w] > 0 /\ minDelay[t] = Measure(w, offset)[t]
      BY <3>1, <3>2 DEF SumInv, DelayInv
    <3> QED  BY <1>6, <3>1, <3>3
  <2>3. CASE d \in SummaryReport.median[t]
    <3>1. Keys(t) # {} /\ d = Median(t) /\ t \in Measured  BY <1>3, <2>3
    <3>2. d \in Keys(t)  BY <3>1, PercentileIs DEF Median
    <3>3. PICK w \in Paths : firsts[w] > 0 /\ Key(t, w) = d  BY <3>1, <3>2, KeysAre
    <3>4. answers[w] > 0
      <4>1. firsts[w] \in Nat /\ answers[w] \in Nat /\ firsts[w] <= answers[w]
        BY DEF SumInv, TypeInv, SummaryTypeOK
      <4> QED  BY <3>3, <4>1
    <3>5. Measure(w, offset)[t] < 0
      <4>1. /\ Key(t, w) \in Int /\ Measure(w, offset)[t] \in Int
            /\ Measure(w, offset)[t] < (Key(t, w) + 1) * Width
        BY <3>1, KeyTypes
      <4>2. d \in Int /\ d + 1 <= 0 /\ Measure(w, offset)[t] < (d + 1) * Width
        BY <1>6, <3>3, <4>1
      <4>3. (d + 1) * Width <= 0
        <5>1. -(d + 1) \in Nat /\ Width \in Nat  BY <4>2, WidthAssumption
        <5>2. (-(d + 1)) * Width \in Nat  BY <5>1
        <5>3. (d + 1) * Width = -((-(d + 1)) * Width)  BY <4>2, <5>1
        <5> QED  BY <5>2, <5>3
      <4>4. (d + 1) * Width \in Int  BY <4>2, WidthAssumption
      <4> QED  BY <4>1, <4>2, <4>3, <4>4
    <3> QED  BY <3>4, <3>5
  <2> QED  BY <2>1, <2>2, <2>3
<1>7. clocksOffset <=> \E d \in shown : d < 0  BY <1>4, <1>5, <1>6
<1> QED  BY <1>2, <1>7 DEF NegativeDelaysWarned

(* The rows of the machine's table of buckets add up to the histogram.     *)
RowOf(k) == [key |-> k, count |-> [t \in Measured |-> IF k \in Keys(t) THEN Hist(t)[k] ELSE 0]]

LEMMA BucketColumns ==
  ASSUME SumInv, NEW t \in Measured
  PROVE  /\ t = "rtt" => Column(MachineReport.rows, t) = statSent - statLost
         /\ Column(MachineReport.rows, t) <= statSent - statLost
<1> DEFINE K == Keys("rtt")
           R == MachineReport.rows
           f == [k \in K |-> RowOf(k).count[t]]
           g == [row \in R |-> row.count[t]]
           h == [k \in K |-> RowOf(k)]
           total == statSent - statLost
           C == {k \in K : k \in Keys(t)}
<1>1. "rtt" \in Measured  BY Kinds
<1>2. total \in Nat /\ SumOf(Hist(t), Keys(t)) = total  BY HistTotal
<1>3. /\ K \in SUBSET Int /\ IsFiniteSet(K) /\ Keys(t) \in SUBSET Int /\ IsFiniteSet(Keys(t))
      /\ C \in SUBSET K /\ C \in SUBSET Keys(t) /\ IsFiniteSet(C)
  <2>1. K \in SUBSET Int /\ IsFiniteSet(K) /\ Keys(t) \in SUBSET Int /\ IsFiniteSet(Keys(t))
    BY <1>1, KeysAre
  <2> QED  BY <2>1, FS_Subset
<1>4. Column(R, t) = SumOf(g, R)  BY SumOverIs DEF Column
<1>5. R = IF statSent > statLost THEN {h[k] : k \in K} ELSE {}
  BY Zenon DEF MachineReport, RowOf
<1>6. \A k \in K : f[k] = IF k \in Keys(t) THEN Hist(t)[k] ELSE 0  BY DEF RowOf
<1>7. \A k \in Keys(t) : Hist(t)[k] \in Nat  BY HistIs
<1>8. \A k \in K : f[k] \in Int  BY <1>6, <1>7
<1>9. SumOf(f, K) = SumOf(Hist(t), C)
  <2> HIDE DEF K, f
  <2>1. \A k \in K \ C : f[k] = 0  BY <1>6
  <2>2. SumOf(f, K) = SumOf(f, C)  BY <1>3, <1>8, <2>1, SumDrop
  <2>3. \A k \in C : Hist(t)[k] \in Int /\ f[k] = Hist(t)[k]  BY <1>6, <1>7
  <2>4. SumOf(f, C) = SumOf(Hist(t), C)  BY <1>3, <2>3, SumSame
  <2> QED  BY <2>2, <2>4
<1>10. SumOf(Hist(t), C) <= total  BY <1>2, <1>3, <1>7, SumPart
<1>11. t = "rtt" => SumOf(Hist(t), C) = total
  <2>1. t = "rtt" => C = Keys(t)  OBVIOUS
  <2> QED  BY <1>2, <2>1
<1>12. SumOf(g, R) = SumOf(f, K)
  <2>1. CASE statSent > statLost
    <3>1. R = {h[k] : k \in K}  BY <1>5, <2>1
    <3>2. \A x, y \in K : h[x] = h[y] => x = y  BY DEF RowOf
    <3>3. \A k \in K : g[h[k]] = f[k]
      <4>1. \A k \in K : h[k] \in R  BY <3>1
      <4> HIDE DEF R
      <4> QED  BY <4>1
    <3>4. IsFiniteSet(K)  BY <1>3
    <3> HIDE DEF K, f, g, h, R
    <3>5. SumOf(g, {h[k] : k \in K}) = SumOf(f, K)
      BY ONLY <1>8, <3>2, <3>3, <3>4, SumImage
    <3> QED  BY <3>1, <3>5
  <2>2. CASE ~ (statSent > statLost)
    <3>1. R = {}  BY <1>5, <2>2
    <3>2. total = 0
      <4>1. statSent \in Nat /\ statLost \in Nat
        BY DEF SumInv, TypeInv, SummaryTypeOK, StatsTypeOK
      <4> QED  BY <1>2, <2>2, <4>1
    <3>3. SumOf(firsts, Paths) = 0  BY <3>2 DEF SumInv, CountInv
    <3>4. firsts \in [Paths -> Nat]  BY DEF SumInv, TypeInv
    <3>5. \A w \in Paths : ~ (firsts[w] > 0)  BY <3>3, <3>4, PathSums
    <3>6. K = {}  BY <1>1, <3>5, KeysAre
    <3> HIDE DEF K, f, g, h, R
    <3> QED  BY <3>1, <3>6, SumEmpty
  <2> QED  BY <2>1, <2>2
<1> HIDE DEF K, R, f, g, h, total, C
<1>13. Column(R, t) = SumOf(Hist(t), C)  BY <1>4, <1>9, <1>12
<1>14. Column(R, t) <= total /\ (t = "rtt" => Column(R, t) = total)
  BY <1>10, <1>11, <1>13
<1> QED  BY <1>14 DEF R, total

LEMMA TTLsFinite == IsFiniteSet(TTLs)
<1>1. TTLs \subseteq 0 .. 255  BY PathTypes DEF TTLs
<1>2. IsFiniteSet(0 .. 255)
  <2>1. 0 \in Int /\ 255 \in Int  OBVIOUS
  <2> QED  BY <2>1, FS_Interval
<1> QED  BY <1>1, <1>2, FS_Subset

(* And the rows of the TTLs to the packets answered.                       *)
TTLRow(n) == [ttl |-> n, count |-> [t \in OneWay |-> ttlCount[t][n]]]

LEMMA TTLColumns ==
  ASSUME SumInv, NEW t \in OneWay
  PROVE  Column(MachineReport.ttlRows, t) =
           IF t = "bck" /\ NoReflectedTTL THEN 0 ELSE statSent - statLost
<1> DEFINE K == SeenTTLs("fwd") \cup SeenTTLs("bck")
           R == MachineReport.ttlRows
           f == [n \in TTLs |-> ttlCount[t][n]]
           g == [row \in R |-> row.count[t]]
           h == [n \in K |-> TTLRow(n)]
<1>1. /\ ttlCount \in [OneWay -> [TTLs -> Nat]] /\ firsts \in [Paths -> Nat]
      /\ statSent - statLost \in Int
  BY DEF SumInv, TypeInv, SummaryTypeOK, StatsTypeOK
<1>2. K \in SUBSET TTLs /\ IsFiniteSet(K) /\ IsFiniteSet(TTLs)
  <2>1. K \in SUBSET TTLs  BY DEF SeenTTLs
  <2> QED  BY <2>1, TTLsFinite, FS_Subset
<1>3. \A n \in TTLs : f[n] \in Nat /\ f[n] = ttlCount[t][n]  BY <1>1
<1>4. Column(R, t) = SumOf(g, R)  BY SumOverIs DEF Column
<1>5. R = {h[n] : n \in K}  BY Zenon DEF MachineReport, TTLRow
<1>6. SumOf(g, R) = SumOf(f, K)
  <2>1. \A x, y \in K : h[x] = h[y] => x = y  BY DEF TTLRow
  <2>2. \A n \in K : g[h[n]] = f[n]
    <3>1. \A n \in K : h[n] \in R /\ n \in TTLs  BY <1>2, <1>5
    <3> HIDE DEF R, K
    <3>2. \A n \in K : h[n].count[t] = ttlCount[t][n]  BY DEF TTLRow
    <3> QED  BY <3>1, <3>2
  <2>3. \A n \in K : f[n] \in Int  BY <1>2, <1>3
  <2> HIDE DEF K, f, g, h, R
  <2>4. SumOf(g, {h[n] : n \in K}) = SumOf(f, K)  BY ONLY <1>2, <2>1, <2>2, <2>3, SumImage
  <2> QED  BY <1>5, <2>4
<1>7. SumOf(f, TTLs) = SumOf(f, K)
  <2>1. \A n \in TTLs \ K : f[n] = 0
    <3>1. t \in {"fwd", "bck"}  BY Kinds
    <3>2. \A n \in TTLs \ K : ~ (ttlCount[t][n] > 0)  BY <3>1 DEF SeenTTLs
    <3> QED  BY <1>3, <3>2
  <2>2. \A n \in TTLs : f[n] \in Int  BY <1>3
  <2> HIDE DEF f, K
  <2> QED  BY <1>2, <2>1, <2>2, SumDrop
<1>8. \A n \in TTLs : f[n] = IF t = "bck" /\ NoReflectedTTL THEN 0 ELSE SumOf(firsts, WithTTL(t, n))
  BY <1>3 DEF SumInv, CountInv
<1>9. CASE t = "bck" /\ NoReflectedTTL
  <2>1. \A n \in TTLs : f[n] = 0  BY <1>8, <1>9
  <2> HIDE DEF f
  <2>2. SumOf(f, TTLs) = 0  BY <1>2, <2>1, SumZero
  <2> QED  BY <1>4, <1>6, <1>7, <1>9, <2>2
<1>10. CASE ~ (t = "bck" /\ NoReflectedTTL)
  <2> DEFINE e == [w \in Paths |-> w.ttl[t]]
  <2>1. e \in [Paths -> TTLs]  BY PathTypes
  <2>2. ASSUME NEW n \in TTLs PROVE f[n] = SumOf(firsts, Fiber(e, Paths, n))
    <3>1. WithTTL(t, n) = Fiber(e, Paths, n)  BY DEF WithTTL, Fiber
    <3> QED  BY <1>8, <1>10, <3>1
  <2> HIDE DEF f, e
  <2>3. \A n \in TTLs : f[n] = SumOf(firsts, Fiber(e, Paths, n))  BY <2>2
  <2>4. \A w \in Paths : firsts[w] \in Int  BY <1>1
  <2>5. IsFiniteSet(Paths)  BY PathsAssumption
  <2>6. SumOf(f, TTLs) = SumOf(firsts, Paths)
    BY ONLY <1>2, <2>1, <2>3, <2>4, <2>5, SumFibers
  <2>7. SumOf(firsts, Paths) = statSent - statLost  BY DEF SumInv, CountInv
  <2> QED  BY <1>4, <1>6, <1>7, <1>10, <2>6, <2>7
<1> QED  BY <1>9, <1>10

(* A quantile of a greater share comes no earlier.                         *)
LEMMA JitterPositive ==
  ASSUME SumInv, NEW t \in Measured, Keys(t) # {}, NEW up \in BOOLEAN
  PROVE  Jitter(t, up) >= 0
<1> DEFINE a == <<95, 100>>
           c == <<1, 2>>
           A == Reached(a, t, up)
           C == Reached(c, t, FALSE)
<1>1. Keys(t) \in SUBSET Int /\ IsFiniteSet(Keys(t))  BY KeysAre
<1>2. A \subseteq C
  <2>1. ASSUME NEW k \in A PROVE k \in C
    <3> DEFINE u == SumOf(Hist(t), {j \in Keys(t) : j <= k})
               n == SumOf(Hist(t), Keys(t))
    <3>1. n \in Nat  BY HistTotal
    <3>2. u \in Nat
      <4>1. {j \in Keys(t) : j <= k} \in SUBSET Keys(t)  OBVIOUS
      <4>2. IsFiniteSet({j \in Keys(t) : j <= k})  BY <1>1, <4>1, FS_Subset
      <4> QED  BY <4>2, HistIs, SumNat
    <3>3. k \in Keys(t) /\ (IF up THEN u * 100 > 95 * n ELSE u * 100 >= 95 * n)
      BY SumOverIs DEF Reached
    <3> HIDE DEF u, n
    <3>4. u * 2 >= 1 * n  BY <3>1, <3>2, <3>3
    <3> QED  BY <3>3, <3>4, SumOverIs DEF Reached, u, n
  <2> QED  BY <2>1
<1>3. /\ Percentile(a, t, up) = IF A = {} THEN Max(Keys(t)) ELSE Min(A)
      /\ Percentile(a, t, up) \in Keys(t)
      /\ A \in SUBSET Int /\ IsFiniteSet(A)
  BY PercentileIs
<1>4. /\ Percentile(c, t, FALSE) = IF C = {} THEN Max(Keys(t)) ELSE Min(C)
      /\ Percentile(c, t, FALSE) \in Keys(t) /\ C \in SUBSET Keys(t)
      /\ C \in SUBSET Int /\ IsFiniteSet(C)
  BY PercentileIs
<1>5. Jitter(t, up) = Percentile(a, t, up) - Percentile(c, t, FALSE)
  BY DEF Jitter, Median
<1> HIDE DEF A, C, a, c
<1> DEFINE hi == Percentile(a, t, up)
           lo == Percentile(c, t, FALSE)
<1>6. lo <= hi
  <2>1. CASE A = {}
    <3>1. Percentile(c, t, FALSE) <= Max(Keys(t))  BY <1>1, <1>4, Extremes
    <3> QED  BY <1>3, <2>1, <3>1
  <2>2. CASE A # {}
    <3>1. Min(A) \in A  BY <1>3, <2>2, Extremes
    <3>2. Min(A) \in C /\ C # {}  BY <1>2, <3>1
    <3>3. Min(C) <= Min(A)  BY <1>4, <3>2, Extremes
    <3> QED  BY <1>3, <1>4, <2>2, <3>2, <3>3
  <2> QED  BY <2>1, <2>2
<1>7. lo \in Int /\ hi \in Int  BY <1>1, <1>3, <1>4
<1>8. Jitter(t, up) = hi - lo  BY <1>5
<1> HIDE DEF lo, hi
<1> QED  BY <1>6, <1>7, <1>8

LEMMA Sections ==
  ASSUME SumInv
  PROVE  SectionsAgree
<1>1. /\ Column(MachineReport.rows, "rtt") = statSent - statLost
      /\ \A t \in OneWay : Column(MachineReport.rows, t) <= statSent - statLost
  BY Kinds, BucketColumns
<1>2. /\ Column(MachineReport.ttlRows, "fwd") = statSent - statLost
      /\ Column(MachineReport.ttlRows, "bck") = IF NoReflectedTTL THEN 0 ELSE statSent - statLost
  BY Kinds, TTLColumns
<1>3. ASSUME NEW t \in Measured
      PROVE  /\ SummaryReport.median[t] = {} <=> SummaryReport.min[t] = {}
             /\ \A k \in SummaryReport.median[t] :
                  minDelay[t] < (k + 1) * Width /\ k * Width <= maxDelay[t]
             /\ \A j \in SummaryReport.jitter[t] : j >= 0
  <2>1. /\ SummaryReport.min[t] = IF minDelay[t] < Inf THEN {minDelay[t]} ELSE {}
        /\ SummaryReport.median[t] = IF Keys(t) = {} THEN {} ELSE {Median(t)}
        /\ SummaryReport.jitter[t] = IF Keys(t) = {} THEN {} ELSE {Jitter(t, up) : up \in BOOLEAN}
        /\ t \in Delays
    BY Kinds DEF SummaryReport
  <2>2. SummaryReport.median[t] = {} <=> SummaryReport.min[t] = {}
    BY <2>1, NothingYet
  <2>3. ASSUME NEW k \in SummaryReport.median[t]
        PROVE  minDelay[t] < (k + 1) * Width /\ k * Width <= maxDelay[t]
    <3>1. Keys(t) # {} /\ k = Median(t)  BY <2>1, <2>3
    <3>2. k \in Keys(t)  BY <3>1, PercentileIs DEF Median
    <3>3. PICK w \in Paths : firsts[w] > 0 /\ Key(t, w) = k  BY <3>2, KeysAre
    <3>4. answers[w] > 0
      <4>1. firsts[w] \in Nat /\ answers[w] \in Nat /\ firsts[w] <= answers[w]
        BY DEF SumInv, TypeInv, SummaryTypeOK
      <4> QED  BY <3>3, <4>1
    <3>5. minDelay[t] <= Measure(w, offset)[t] /\ Measure(w, offset)[t] <= maxDelay[t]
      BY <2>1, <3>4 DEF SumInv, DelayInv
    <3>6. /\ Measure(w, offset)[t] < (k + 1) * Width /\ k * Width <= Measure(w, offset)[t]
          /\ Measure(w, offset)[t] \in Int /\ k \in Int
      BY <3>3, KeyTypes
    <3>7. minDelay[t] \in Int /\ maxDelay[t] \in Int  BY <2>1, NothingYet
    <3>8. (k + 1) * Width \in Int /\ k * Width \in Int  BY <3>6, WidthAssumption
    <3> QED  BY <3>5, <3>6, <3>7, <3>8
  <2>4. \A j \in SummaryReport.jitter[t] : j >= 0  BY <2>1, JitterPositive
  <2> QED  BY <2>2, <2>3, <2>4
<1> QED  BY <1>1, <1>2, <1>3 DEF SectionsAgree

-----------------------------------------------------------------------------
(* Ranks among the first answers, as PercentileHasItsRank names them.      *)
Networks  == {Network(w) : w \in Seen(firsts)}
Answers   == SumOver(firsts, Paths)
Below(d)  == SumOver(firsts, {w \in Paths : Network(w) < d})
UpTo(d)   == SumOver(firsts, {w \in Paths : Network(w) <= d})
OfRank(i) == CHOOSE d \in {Network(w) : w \in Seen(firsts)} : Below(d) < i /\ i <= UpTo(d)
Clip(i)   == Max({1, Min({i, Answers})})
Ceil(a)   == (a[1] * Answers + a[2] - 1) \div a[2]

(* A sum over the paths that satisfy more is no smaller.                   *)
LEMMA PathsPart ==
  ASSUME SumInv, NEW S \in SUBSET Paths, NEW T \in SUBSET S
  PROVE  /\ SumOf(firsts, S) \in Nat /\ SumOf(firsts, T) \in Nat
         /\ SumOf(firsts, T) <= SumOf(firsts, S)
<1>1. firsts \in [Paths -> Nat]  BY DEF SumInv, TypeInv
<1>2. IsFiniteSet(S) /\ \A w \in S : firsts[w] \in Nat  BY <1>1, PathSums
<1>3. SumOf(firsts, T) <= SumOf(firsts, S)  BY <1>2, SumPart
<1> QED  BY <1>1, <1>3, PathSums

LEMMA NetworksAre ==
  ASSUME SumInv
  PROVE  /\ Networks \in SUBSET Nat /\ Networks \in SUBSET Int /\ IsFiniteSet(Networks)
         /\ \A w \in Paths : Network(w) \in Nat /\ firsts[w] \in Nat
         /\ \A w \in Paths : firsts[w] > 0 => Network(w) \in Networks
         /\ \A d \in Networks : \E w \in Paths : firsts[w] > 0 /\ Network(w) = d
<1>1. firsts \in [Paths -> Nat] /\ offset \in Offsets  BY DEF SumInv, TypeInv
<1>2. \A w \in Paths : Network(w) \in Nat /\ firsts[w] \in Nat  BY <1>1, Measures
<1>3. Networks \in SUBSET Nat /\ Networks \in SUBSET Int  BY <1>2 DEF Networks, Seen
<1>4. IsFiniteSet(Networks)
  <2> DEFINE f == [w \in Paths |-> Network(w)]
  <2>1. IsFiniteSet({f[w] : w \in Paths})  BY PathsAssumption, ImageFinite
  <2>2. Networks \subseteq {f[w] : w \in Paths}  BY DEF Networks, Seen
  <2> QED  BY <2>1, <2>2, FS_Subset
<1> QED  BY <1>2, <1>3, <1>4 DEF Networks, Seen

(* Every rank is somebody's.                                               *)
LEMMA RankTaken ==
  ASSUME SumInv, NEW i \in Nat, 1 <= i, i <= Answers
  PROVE  /\ OfRank(i) \in Networks
         /\ Below(OfRank(i)) < i /\ i <= UpTo(OfRank(i))
<1> DEFINE D == Networks
           U == {d \in D : i <= UpTo(d)}
<1>1. /\ D \in SUBSET Int /\ IsFiniteSet(D) /\ U \in SUBSET Int /\ IsFiniteSet(U)
  <2>1. D \in SUBSET Int /\ IsFiniteSet(D)  BY NetworksAre
  <2> QED  BY <2>1, FS_Subset
<1>2. /\ Answers = SumOf(firsts, Paths) /\ Answers \in Nat
      /\ \A d : UpTo(d) = SumOf(firsts, {w \in Paths : Network(w) <= d})
      /\ \A d : Below(d) = SumOf(firsts, {w \in Paths : Network(w) < d})
  BY SumOverIs, PathsPart DEF Answers, UpTo, Below
<1>3. \A w \in Paths : firsts[w] \in Nat /\ Network(w) \in Nat  BY NetworksAre
<1>4. IsFiniteSet(Paths) /\ \A w \in Paths : firsts[w] \in Int
  BY <1>3, PathsAssumption
<1>5. D # {}
  <2>1. \E w \in Paths : firsts[w] > 0
    <3>1. firsts \in [Paths -> Nat] /\ SumOf(firsts, Paths) > 0
      BY <1>2 DEF SumInv, TypeInv
    <3> QED  BY <3>1, PathSums
  <2> QED  BY <2>1, NetworksAre
<1>6. Max(D) \in U
  <2>1. Max(D) \in D /\ \A d \in D : d <= Max(D)  BY <1>1, <1>5, Extremes
  <2> DEFINE S == {w \in Paths : Network(w) <= Max(D)}
  <2>2. \A w \in Paths \ S : firsts[w] = 0
    <3> SUFFICES ASSUME NEW w \in Paths \ S PROVE firsts[w] = 0  OBVIOUS
    <3>1. ~ (firsts[w] > 0)
      <4>1. firsts[w] > 0 => Network(w) \in D  BY NetworksAre
      <4> QED  BY <2>1, <4>1
    <3> QED  BY <1>3, <3>1
  <2>3. UpTo(Max(D)) = SumOf(firsts, S)  BY <1>2
  <2>4. S \in SUBSET Paths  OBVIOUS
  <2> HIDE DEF S
  <2>5. SumOf(firsts, Paths) = SumOf(firsts, S)  BY ONLY <1>4, <2>2, <2>4, SumDrop
  <2> QED  BY <1>2, <2>1, <2>3, <2>5
<1> DEFINE d == Min(U)
<1>7. d \in U /\ \A x \in U : d <= x  BY <1>1, <1>6, Extremes
<1>8. d \in D /\ i <= UpTo(d) /\ d \in Int  BY <1>1, <1>7
<1> DEFINE B == {w \in Paths : Network(w) < d}
           L == {x \in D : x < d}
<1> HIDE DEF d, D
<1>9. CASE L = {}
  <2>1. \A w \in B : firsts[w] = 0
    <3> SUFFICES ASSUME NEW w \in B PROVE firsts[w] = 0  OBVIOUS
    <3>1. ~ (firsts[w] > 0)
      <4>1. firsts[w] > 0 => Network(w) \in D  BY NetworksAre DEF D
      <4> QED  BY <1>9, <4>1
    <3> QED  BY <1>3, <3>1
  <2>2. IsFiniteSet(B)  BY <1>4, FS_Subset
  <2>3. SumOf(firsts, B) = 0  BY <2>1, <2>2, SumZero
  <2>4. Below(d) = 0  BY <1>2, <2>3
  <2> QED  BY <1>8, <2>4 DEF OfRank, Networks, D
<1>10. CASE L # {}
  <2> DEFINE x == Max(L)
             T == {w \in Paths : Network(w) <= x}
  <2>1. L \in SUBSET Int /\ IsFiniteSet(L)  BY <1>1, FS_Subset
  <2>2. x \in L /\ \A y \in L : y <= x  BY <1>10, <2>1, Extremes
  <2> HIDE DEF x
  <2>3. x \in D /\ x < d /\ x \in Int  BY <2>1, <2>2
  <2>4. x \notin U  BY <1>7, <1>8, <2>3
  <2>5. ~ (i <= UpTo(x))  BY <2>3, <2>4
  <2>6. T \in SUBSET B  BY <1>3, <1>8, <2>3
  <2>7. \A w \in B \ T : firsts[w] = 0
    <3> SUFFICES ASSUME NEW w \in B \ T PROVE firsts[w] = 0  OBVIOUS
    <3>1. Network(w) < d /\ ~ (Network(w) <= x)  OBVIOUS
    <3>2. Network(w) \notin L  BY <2>2, <3>1
    <3>3. Network(w) \notin D  BY <3>1, <3>2
    <3>4. ~ (firsts[w] > 0)  BY <3>3, NetworksAre DEF D
    <3> QED  BY <1>3, <3>4
  <2>8. IsFiniteSet(B)  BY <1>4, FS_Subset
  <2>9. Below(d) = SumOf(firsts, B) /\ UpTo(x) = SumOf(firsts, T)  BY <1>2
  <2>10. \A w \in B : firsts[w] \in Int  BY <1>4
  <2>11. SumOf(firsts, T) \in Nat  BY PathsPart
  <2> HIDE DEF B, T
  <2>12. SumOf(firsts, B) = SumOf(firsts, T)  BY ONLY <2>6, <2>7, <2>8, <2>10, SumDrop
  <2>13. Below(d) < i  BY <2>5, <2>9, <2>11, <2>12
  <2> QED  BY <1>8, <2>13 DEF OfRank, Networks, D
<1> QED  BY <1>9, <1>10

(* How often q must be taken to reach m, and to exceed it.                 *)
LEMMA CeilIs ==
  ASSUME NEW m \in Nat, NEW q \in Nat \ {0}
  PROVE  /\ (m + q - 1) \div q \in Nat /\ m \div q + 1 \in Nat
         /\ \A u \in Nat : u * q >= m <=> u >= (m + q - 1) \div q
         /\ \A u \in Nat : u * q > m <=> u >= m \div q + 1
         /\ m \div q + 1 \in {(m + q - 1) \div q, (m + q - 1) \div q + 1}
<1> DEFINE c == (m + q - 1) \div q
           f == m \div q
           r == (m + q - 1) % q
           s == m % q
<1>1. m + q - 1 \in Nat  OBVIOUS
<1>2. c \in Nat /\ r \in 0 .. q - 1 /\ m + q - 1 = q * c + r  BY <1>1, Division
<1>3. f \in Nat /\ s \in 0 .. q - 1 /\ m = q * f + s  BY Division
<1>4. f + 1 \in {c, c + 1}
  <2>1. ASSUME s = 0 PROVE c = f
    <3>1. m + q - 1 = q * f + (q - 1)  BY <1>3, <2>1
    <3>2. q - 1 \in 0 .. q - 1 /\ f \in Int  BY <1>3
    <3> HIDE DEF f, s
    <3>3. (q * f + (q - 1)) \div q = f  BY <3>2, DivisionUnique
    <3> QED  BY <3>1, <3>3
  <2>2. ASSUME s > 0 PROVE c = f + 1
    <3>1. m + q - 1 = q * (f + 1) + (s - 1)  BY <1>3, <2>2
    <3>2. s - 1 \in 0 .. q - 1 /\ f + 1 \in Int  BY <1>3, <2>2
    <3> HIDE DEF f, s
    <3>3. (q * (f + 1) + (s - 1)) \div q = f + 1  BY <3>2, DivisionUnique
    <3> QED  BY <3>1, <3>3
  <2> HIDE DEF c, f, s
  <2> QED  BY <1>2, <1>3, <2>1, <2>2
<1> HIDE DEF c, f, r, s
<1>5. ASSUME NEW u \in Nat PROVE u * q >= m <=> u >= c
  <2>1. ASSUME u >= c PROVE u * q >= m
    <3>1. u * q >= c * q  BY <1>2, <2>1
    <3> QED  BY <1>2, <3>1
  <2>2. ASSUME ~ (u >= c) PROVE ~ (u * q >= m)
    <3>1. u * q <= (c - 1) * q  BY <1>2, <2>2
    <3>2. (c - 1) * q = q * c - q  BY <1>2
    <3> QED  BY <1>2, <3>1, <3>2
  <2> QED  BY <2>1, <2>2
<1>6. ASSUME NEW u \in Nat PROVE u * q > m <=> u >= f + 1
  <2>1. ASSUME u >= f + 1 PROVE u * q > m
    <3>1. u * q >= (f + 1) * q  BY <1>3, <2>1
    <3>2. (f + 1) * q = q * f + q  BY <1>3
    <3> QED  BY <1>3, <3>1, <3>2
  <2>2. ASSUME ~ (u >= f + 1) PROVE ~ (u * q > m)
    <3>1. u * q <= f * q  BY <1>3, <2>2
    <3> QED  BY <1>3, <3>1
  <2> QED  BY <2>1, <2>2
<1> QED  BY <1>2, <1>3, <1>4, <1>5, <1>6 DEF c, f

(* The first answers in the buckets up to k.                               *)
UpToKey(k) == SumOf(firsts, {w \in Paths : Key("rtt", w) <= k})

(* The rank whose bucket a quantile takes.                                 *)
RankOf(a, up) == IF up THEN (a[1] * Answers) \div a[2] + 1 ELSE Ceil(a)

LEMMA AnswersAre ==
  ASSUME SumInv
  PROVE  Answers = SumOf(firsts, Paths) /\ Answers \in Nat
BY SumOverIs, PathsPart DEF Answers

LEMMA UpToKeyNat ==
  ASSUME SumInv, NEW k
  PROVE  UpToKey(k) \in Nat /\ UpToKey(k) <= Answers
<1>1. {w \in Paths : Key("rtt", w) <= k} \in SUBSET Paths  OBVIOUS
<1> QED  BY <1>1, PathsPart, AnswersAre DEF UpToKey

LEMMA ReachedIs ==
  ASSUME SumInv, NEW a \in Levels, NEW up \in BOOLEAN
  PROVE  /\ Reached(a, "rtt", up) = {k \in Keys("rtt") : UpToKey(k) >= RankOf(a, up)}
         /\ RankOf(a, FALSE) = Ceil(a) /\ RankOf(a, TRUE) \in {Ceil(a), Ceil(a) + 1}
         /\ RankOf(a, up) \in Nat
<1> DEFINE m == a[1] * Answers
           q == a[2]
<1>1. m \in Nat /\ q \in Nat \ {0}  BY LevelsAssumption, AnswersAre
<1>2. Ceil(a) = (m + q - 1) \div q /\ RankOf(a, TRUE) = m \div q + 1 /\ RankOf(a, FALSE) = Ceil(a)
  BY DEF Ceil, RankOf
<1>3. "rtt" \in Measured  BY Kinds
<1>4. ASSUME NEW k \in Keys("rtt")
      PROVE  SumOver(Hist("rtt"), {j \in Keys("rtt") : j <= k}) = UpToKey(k)
  <2> DEFINE J == {j \in Int : j <= k}
  <2>1. {j \in Keys("rtt") : j <= k} = {j \in Keys("rtt") : j \in J}  BY <1>3, KeysAre
  <2>2. {w \in Paths : Key("rtt", w) <= k} = WithKeys("rtt", J)  BY <1>3, KeyTypes DEF WithKeys
  <2> HIDE DEF J
  <2>3. SumOf(Hist("rtt"), {j \in Keys("rtt") : j \in J}) = SumOf(firsts, WithKeys("rtt", J))
    BY <1>3, HistSumAny
  <2> QED  BY <2>1, <2>2, <2>3, SumOverIs DEF UpToKey
<1>5. SumOver(Hist("rtt"), Keys("rtt")) = Answers  BY <1>3, HistTotal, AnswersAre, SumOverIs
<1>6. Reached(a, "rtt", up) =
        {k \in Keys("rtt") : IF up THEN UpToKey(k) * q > m ELSE UpToKey(k) * q >= m}
  BY Zenon, <1>4, <1>5 DEF Reached
<1> HIDE DEF m, q
<1>7. /\ \A u \in Nat : u * q >= m <=> u >= (m + q - 1) \div q
      /\ \A u \in Nat : u * q > m <=> u >= m \div q + 1
      /\ m \div q + 1 \in {(m + q - 1) \div q, (m + q - 1) \div q + 1}
      /\ (m + q - 1) \div q \in Nat /\ m \div q + 1 \in Nat
  BY <1>1, CeilIs
<1>8. RankOf(a, TRUE) \in {Ceil(a), Ceil(a) + 1}  BY <1>2, <1>7
<1>9. \A k : UpToKey(k) \in Nat  BY UpToKeyNat
<1>10. CASE up = TRUE
  <2>1. Reached(a, "rtt", up) = {k \in Keys("rtt") : UpToKey(k) * q > m}  BY <1>6, <1>10
  <2>2. \A k : UpToKey(k) * q > m <=> UpToKey(k) >= RankOf(a, up)  BY <1>2, <1>7, <1>9, <1>10
  <2> QED  BY <1>2, <1>7, <1>8, <1>10, <2>1, <2>2
<1>11. CASE up = FALSE
  <2>1. Reached(a, "rtt", up) = {k \in Keys("rtt") : UpToKey(k) * q >= m}  BY <1>6, <1>11
  <2>2. \A k : UpToKey(k) * q >= m <=> UpToKey(k) >= RankOf(a, up)  BY <1>2, <1>7, <1>9, <1>11
  <2> QED  BY <1>2, <1>7, <1>8, <1>11, <2>1, <2>2
<1> QED  BY <1>10, <1>11

LEMMA ClipIs ==
  ASSUME SumInv, Answers > 0, NEW i \in Nat
  PROVE  Clip(i) = IF i = 0 THEN 1 ELSE IF i <= Answers THEN i ELSE Answers
<1>1. Answers \in Nat  BY AnswersAre
<1>2. Min({i, Answers}) = IF i <= Answers THEN i ELSE Answers  BY <1>1, Lesser
<1>3. Min({i, Answers}) \in Nat  BY <1>1, <1>2
<1> DEFINE m == Min({i, Answers})
<1>4. Clip(i) = Max({1, m})  BY Zenon DEF Clip
<1> HIDE DEF m
<1>5. m \in Int /\ 1 \in Int  BY <1>3 DEF m
<1>6. Max({1, m}) = IF 1 <= m THEN m ELSE 1  BY <1>5, Lesser
<1>7. m = IF i <= Answers THEN i ELSE Answers  BY <1>2 DEF m
<1> QED  BY <1>1, <1>4, <1>6, <1>7

(* The bucket in which the rank i is reached is that of the answer of this *)
(* rank.                                                                   *)
LEMMA RankKey ==
  ASSUME SumInv, Answers > 0, NEW i \in Nat
  PROVE  LET X == {k \in Keys("rtt") : UpToKey(k) >= i}
         IN  (IF X = {} THEN Max(Keys("rtt")) ELSE Min(X)) = OfRank(Clip(i)) \div Width
<1> DEFINE K == Keys("rtt")
           X == {k \in K : UpToKey(k) >= i}
           c == Clip(i)
           d == OfRank(c)
           e == d \div Width
<1>1. "rtt" \in Measured  BY Kinds
<1>2. K \in SUBSET Int /\ IsFiniteSet(K) /\ X \in SUBSET Int
  BY <1>1, KeysAre
<1>3. Answers \in Nat /\ Answers = SumOf(firsts, Paths)  BY AnswersAre
<1>4. c = IF i = 0 THEN 1 ELSE IF i <= Answers THEN i ELSE Answers  BY ClipIs
<1>5. c \in Nat /\ 1 <= c /\ c <= Answers  BY <1>3, <1>4
<1> HIDE DEF c
<1>6. d \in Networks /\ Below(d) < c /\ c <= UpTo(d)  BY <1>5, RankTaken
<1> HIDE DEF d
<1>7. d \in Nat  BY <1>6, NetworksAre
<1>8. \A w \in Paths : /\ firsts[w] \in Nat /\ Network(w) \in Nat
                       /\ Key("rtt", w) = Network(w) \div Width /\ Key("rtt", w) \in Int
                       /\ Key("rtt", w) * Width <= Network(w)
                       /\ Network(w) < (Key("rtt", w) + 1) * Width
  <2> SUFFICES ASSUME NEW w \in Paths
               PROVE  /\ firsts[w] \in Nat /\ Network(w) \in Nat
                      /\ Key("rtt", w) = Network(w) \div Width /\ Key("rtt", w) \in Int
                      /\ Key("rtt", w) * Width <= Network(w)
                      /\ Network(w) < (Key("rtt", w) + 1) * Width
    OBVIOUS
  <2>1. offset \in Offsets  BY DEF SumInv, TypeInv
  <2>2. Measure(w, offset)["rtt"] = Network(w)  BY <2>1, Measures
  <2> QED  BY <1>1, <2>2, KeyTypes, NetworksAre DEF Key
<1>9. e \in K
  <2>1. PICK w \in Paths : firsts[w] > 0 /\ Network(w) = d  BY <1>6, NetworksAre
  <2>2. Key("rtt", w) = e  BY <1>8, <2>1
  <2> QED  BY <1>1, <2>1, <2>2, KeysAre
<1>10. \A k : UpToKey(k) \in Nat /\ UpToKey(k) <= Answers  BY UpToKeyNat
<1>11. e \in Int /\ e * Width <= d /\ d < (e + 1) * Width
  <2>1. d % Width \in 0 .. Width - 1 /\ d = Width * e + (d % Width) /\ e \in Nat
    BY <1>7, WidthAssumption, Division
  <2>2. (e + 1) * Width = Width * e + Width /\ e * Width = Width * e
    BY <2>1, WidthAssumption
  <2> HIDE DEF e
  <2> QED  BY <1>7, <2>1, <2>2, WidthAssumption
<1>12. /\ UpTo(d) = SumOf(firsts, {w \in Paths : Network(w) <= d})
       /\ Below(d) = SumOf(firsts, {w \in Paths : Network(w) < d})
  BY SumOverIs DEF UpTo, Below
<1> HIDE DEF e, K, X
<1>13. UpToKey(e) >= c
  <2> DEFINE S == {w \in Paths : Key("rtt", w) <= e}
             T == {w \in Paths : Network(w) <= d}
  <2>1. ASSUME NEW w \in Paths, Network(w) <= d, ~ (Key("rtt", w) <= e) PROVE FALSE
    <3>1. e + 1 <= Key("rtt", w)  BY <1>8, <1>11, <2>1
    <3>2. (e + 1) * Width <= Key("rtt", w) * Width  BY <1>8, <1>11, <3>1, WidthAssumption
    <3>3. (e + 1) * Width \in Int /\ Key("rtt", w) * Width \in Int
      BY <1>8, <1>11, WidthAssumption
    <3> QED  BY <1>7, <1>8, <1>11, <2>1, <3>2, <3>3
  <2>2. S \in SUBSET Paths /\ T \in SUBSET S  BY <2>1
  <2>3. UpToKey(e) = SumOf(firsts, S) /\ UpTo(d) = SumOf(firsts, T)  BY <1>12 DEF UpToKey
  <2> HIDE DEF S, T
  <2> QED  BY <1>5, <1>6, <2>2, <2>3, PathsPart
<1>14. ASSUME NEW j \in K, j < e PROVE UpToKey(j) < c
  <2> DEFINE S == {w \in Paths : Network(w) < d}
             T == {w \in Paths : Key("rtt", w) <= j}
  <2>1. ASSUME NEW w \in Paths, Key("rtt", w) <= j PROVE Network(w) < d
    <3>1. Key("rtt", w) + 1 <= e  BY <1>2, <1>8, <1>11, <1>14, <2>1
    <3>2. (Key("rtt", w) + 1) * Width <= e * Width  BY <1>8, <1>11, <3>1, WidthAssumption
    <3>3. (Key("rtt", w) + 1) * Width \in Int /\ e * Width \in Int
      BY <1>8, <1>11, WidthAssumption
    <3> QED  BY <1>7, <1>8, <1>11, <3>2, <3>3
  <2>2. S \in SUBSET Paths /\ T \in SUBSET S  BY <2>1
  <2>3. UpToKey(j) = SumOf(firsts, T) /\ Below(d) = SumOf(firsts, S)  BY <1>12 DEF UpToKey
  <2> HIDE DEF S, T
  <2> QED  BY <1>5, <1>6, <2>2, <2>3, PathsPart
<1>15. \A j \in K : UpToKey(j) > 0
  <2> SUFFICES ASSUME NEW j \in K PROVE UpToKey(j) > 0  OBVIOUS
  <2>1. PICK w \in Paths : firsts[w] > 0 /\ Key("rtt", w) = j  BY <1>1, KeysAre DEF K
  <2> DEFINE S == {v \in Paths : Key("rtt", v) <= j}
  <2>2. S \in SUBSET Paths /\ w \in S  BY <1>8, <2>1
  <2>3. firsts \in [Paths -> Nat]  BY DEF SumInv, TypeInv
  <2>4. SumOf(firsts, S) > 0
    <3> HIDE DEF S
    <3> QED  BY <2>1, <2>2, <2>3, PathSums
  <2> QED  BY <2>4 DEF UpToKey
<1>16. CASE i <= Answers
  <2>1. e \in X  BY <1>4, <1>5, <1>9, <1>10, <1>13, <1>16 DEF X
  <2>2. ASSUME NEW j \in X PROVE e <= j
    <3>1. j \in K /\ j \in Int /\ UpToKey(j) >= i  BY <1>2 DEF X
    <3>2. UpToKey(j) >= c  BY <1>4, <1>10, <1>15, <1>16, <3>1
    <3> QED  BY <1>5, <1>10, <1>11, <1>14, <3>1, <3>2
  <2>3. Min(X) = e  BY <1>2, <2>1, <2>2, MinIs
  <2> QED  BY <2>1, <2>3 DEF X, K, e, d, c
<1>17. CASE i > Answers
  <2>1. X = {}  BY <1>3, <1>10, <1>17 DEF X
  <2>2. ASSUME NEW j \in K PROVE j <= e
    <3>1. PICK w \in Paths : firsts[w] > 0 /\ Key("rtt", w) = j  BY <1>1, KeysAre DEF K
    <3>2. Network(w) <= d
      <4> SUFFICES ASSUME ~ (Network(w) <= d) PROVE FALSE  OBVIOUS
      <4> DEFINE T == {v \in Paths : Network(v) <= d}
                 U == Paths \ T
      <4>1. w \in U /\ T \in SUBSET Paths /\ U \in SUBSET Paths
            /\ T \cap U = {} /\ T \cup U = Paths
        OBVIOUS
      <4>2. firsts \in [Paths -> Nat] /\ \A v \in T \cup U : firsts[v] \in Int
        BY <1>8, <4>1 DEF SumInv, TypeInv
      <4>3. UpTo(d) = SumOf(firsts, T)  BY <1>12
      <4> HIDE DEF T, U
      <4>4. IsFiniteSet(T) /\ IsFiniteSet(U) /\ SumOf(firsts, T) \in Nat
            /\ SumOf(firsts, U) \in Nat /\ SumOf(firsts, U) > 0
        BY <3>1, <4>1, <4>2, PathSums
      <4>5. SumOf(firsts, T \cup U) = SumOf(firsts, T) + SumOf(firsts, U)
        BY <4>1, <4>2, <4>4, SumUnion
      <4>6. c = Answers  BY <1>3, <1>4, <1>17
      <4>7. Answers = SumOf(firsts, T) + SumOf(firsts, U)  BY <1>3, <4>1, <4>5
      <4>8. Answers <= SumOf(firsts, T)  BY <1>6, <4>3, <4>6
      <4> QED  BY <4>4, <4>7, <4>8
    <3>3. ASSUME e < j PROVE FALSE
      <4>1. e + 1 <= j /\ j \in Int  BY <1>2, <1>11, <3>3
      <4>2. (e + 1) * Width <= j * Width  BY <1>11, <4>1, WidthAssumption
      <4>3. (e + 1) * Width \in Int /\ j * Width \in Int  BY <1>11, <4>1, WidthAssumption
      <4> QED  BY <1>7, <1>8, <1>11, <3>1, <3>2, <4>2, <4>3
    <3> QED  BY <1>2, <1>11, <3>3
  <2>3. Max(K) = e  BY <1>2, <1>9, <2>2, MaxIs
  <2> QED  BY <2>1, <2>3 DEF X, K, e, d, c
<1> QED  BY <1>3, <1>16, <1>17

LEMMA Ranks ==
  ASSUME SumInv
  PROVE  PercentileHasItsRank
<1>1. ASSUME Answers > 0, NEW a \in Levels, NEW up \in BOOLEAN
      PROVE  Percentile(a, "rtt", up) = OfRank(Clip(RankOf(a, up))) \div Width
  <2> DEFINE X == {k \in Keys("rtt") : UpToKey(k) >= RankOf(a, up)}
  <2>1. Keys("rtt") # {} /\ "rtt" \in Measured
    <3>1. firsts \in [Paths -> Nat] /\ SumOf(firsts, Paths) > 0
      BY <1>1, AnswersAre DEF SumInv, TypeInv
    <3>2. \E w \in Paths : firsts[w] > 0  BY <3>1, PathSums
    <3> QED  BY <3>2, Kinds, KeysAre
  <2>2. Reached(a, "rtt", up) = X /\ RankOf(a, up) \in Nat  BY <1>1, ReachedIs
  <2>3. Percentile(a, "rtt", up) = IF X = {} THEN Max(Keys("rtt")) ELSE Min(X)
    BY <2>1, <2>2, PercentileIs
  <2> QED  BY <1>1, <2>2, <2>3, RankKey
<1>2. ASSUME Answers > 0, NEW a \in Levels
      PROVE  /\ Percentile(a, "rtt", FALSE) = OfRank(Clip(Ceil(a))) \div Width
             /\ Percentile(a, "rtt", TRUE) \in
                  {OfRank(Clip(i)) \div Width : i \in {Ceil(a), Ceil(a) + 1}}
  <2>1. RankOf(a, FALSE) = Ceil(a) /\ RankOf(a, TRUE) \in {Ceil(a), Ceil(a) + 1}
    BY ReachedIs
  <2>2. /\ Percentile(a, "rtt", FALSE) = OfRank(Clip(RankOf(a, FALSE))) \div Width
        /\ Percentile(a, "rtt", TRUE) = OfRank(Clip(RankOf(a, TRUE))) \div Width
    BY <1>1, <1>2
  <2> QED  BY <2>1, <2>2
<1> QED
  BY Zenon, <1>2 DEF PercentileHasItsRank, Answers, Below, UpTo, OfRank, Clip, Ceil

(* The round trip of the reports is the time on the network, whatever the  *)
(* clocks differ by (stats.go:339-343).                                    *)
THEOREM RoundTripHolds == Spec => []RoundTripIsNetworkTime
BY RoundTrip, SummaryInvariant, PTL

(* The reports warn of the clocks exactly when they show a negative delay  *)
(* (stats.go:351-353).                                                     *)
THEOREM ClocksAreWarnedOf == Spec => []NegativeDelaysWarned
BY NegativesWarned, SummaryInvariant, PTL

(* Every quantile the reports can ask for is the bucket of the answer that *)
(* has its rank, for any share and any number of answers; the product of   *)
(* the code, rounded up, moves it by one rank at most (stats.go:451-460).  *)
THEOREM PercentilesHaveTheirRank == Spec => []PercentileHasItsRank
BY Ranks, SummaryInvariant, PTL

(* The sections of the reports agree (stats.go:371-382, 514-701).          *)
THEOREM SectionsSpeakOfTheSame == Spec => []SectionsAgree
BY Sections, SummaryInvariant, PTL
===============================================================================
