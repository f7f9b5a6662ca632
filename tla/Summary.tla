------------------------------- MODULE Summary -------------------------------
(***************************************************************************)
(* The delays of owamp/stats.go and the reports made of them: the whole of *)
(* Stats.Add, its counters taken from Stats, with the quantiles, the       *)
(* jitter, the hops, PrintSummaryLang and PrintMachine.                    *)
(*                                                                         *)
(* A record is known by what truly happened to its packet: how long it was *)
(* on its way out, at the reflector and on its way back.  The reflector's  *)
(* clock is ahead of the client's by "offset".  Times are whole units.     *)
(* Error estimates and the marks of synchronised clocks are left out, and  *)
(* of the reports their wording.                                           *)
(***************************************************************************)
EXTENDS Stats, Integers, FiniteSets, FiniteSetsExt, Functions

CONSTANTS
  Paths,              \* what may happen to a packet
  Departures,         \* when each packet is sent
  LossTimeout,
  Offsets,            \* what the two clocks may differ by
  Width,              \* BucketWidth
  Levels,             \* quantiles asked for, as <<numerator, denominator>>
  RecordLimit,        \* -v=N; 0: no limit
  NoReflectedTTL,     \* the TTL of replies cannot be read
  MaxAnswers          \* bound on the records of answers

OneWay   == {"fwd", "bck"}
Measured == OneWay \cup {"rtt"}
Delays   == Measured \cup {"proc"}
TTLs     == {w.ttl[t] : w \in Paths, t \in OneWay}      \* of 0 .. 255

(* What the two clocks make of each of the delays.                         *)
Measure(w, o) == [proc |-> w.proc, rtt |-> w.out + w.back,
                  fwd |-> w.out + o, bck |-> w.back - o]

Bucket(d) == [t \in Measured |-> d[t] \div Width]

Inf == 1000000        \* infDelay, further off than any delay

ASSUME PathsAssumption ==
  /\ Paths \subseteq [out : Nat, proc : Nat, back : Nat, ttl : [OneWay -> 0 .. 255]]
  /\ IsFiniteSet(Paths)
ASSUME DeparturesAssumption ==
  Departures \in [SentSeqs -> Nat] /\ LossTimeout \in Nat /\ Offsets \subseteq Int
ASSUME WidthAssumption == Width \in Nat \ {0}
ASSUME LevelsAssumption ==
  \A a \in Levels : a[1] \in Nat /\ a[2] \in Nat \ {0} /\ a[1] <= a[2]
ASSUME OutputAssumption ==
  RecordLimit \in Nat /\ NoReflectedTTL \in BOOLEAN /\ MaxAnswers \in Nat
ASSUME DelaysAssumption ==
  \A w \in Paths, o \in Offsets :
    /\ Bucket(Measure(w, o)) \in Buckets
    /\ \A t \in Delays : -Inf < Measure(w, o)[t] /\ Measure(w, o)[t] < Inf
ASSUME BucketsAssumption == Buckets \subseteq [Measured -> Int]

VARIABLES
  offset,
  minDelay, maxDelay,
  clocksOffset,       \* a one-way delay was negative
  ttlCount,
  startTime, endTime,
  printed,            \* lines of -v
  firsts, answers     \* what happened to the first answers, and to all

delayVars  == <<minDelay, maxDelay, clocksOffset, ttlCount>>
recordVars == <<firsts, answers>>
vars == <<statsVars, offset, delayVars, startTime, endTime, printed, recordVars>>

Init ==
  /\ StatsInit
  /\ offset \in Offsets
  /\ minDelay = [t \in Delays |-> Inf]
  /\ maxDelay = [t \in Delays |-> -Inf]
  /\ clocksOffset = FALSE
  /\ ttlCount = [t \in OneWay |-> [n \in TTLs |-> 0]]
  /\ startTime = 0 /\ endTime = 0
  /\ printed = 0
  /\ firsts = [w \in Paths |-> 0]
  /\ answers = [w \in Paths |-> 0]

-----------------------------------------------------------------------------
(* The four time stamps of an answer, two of each clock.                   *)
Stamps(p, w) ==
  LET arrival == Departures[p] + w.out
  IN  [send |-> Departures[p],
       recv |-> arrival + offset,
       reflected |-> arrival + w.proc + offset,
       back |-> arrival + w.proc + w.back]

(* Mutant of Delay: the time at the reflector is not taken off.            *)
DelayGross(p, w) ==
  LET s == Stamps(p, w)
  IN  [proc |-> s.reflected - s.recv, rtt |-> s.back - s.send,
       fwd |-> s.recv - s.send, bck |-> s.back - s.reflected]

Delay(p, w) ==
  LET s == Stamps(p, w)
      proc == s.reflected - s.recv
  IN  [proc |-> proc, rtt |-> s.back - s.send - proc,
       fwd |-> s.recv - s.send, bck |-> s.back - s.reflected]

(* startTime and endTime; a loss record carries the moment of the timeout. *)
CountTimes(p, send, back) ==
  /\ startTime' = IF haveFirst /\ startTime <= send THEN startTime ELSE send
  /\ endTime' = IF back > endTime THEN back ELSE endTime

(* Mutant of PrintLine: the limit is passed by one.                        *)
PrintLineOneMore ==
  printed' = IF RecordLimit = 0 \/ printed <= RecordLimit THEN printed + 1 ELSE printed

(* mayPrint: a line for the record, while there is room.                   *)
PrintLine ==
  printed' = IF RecordLimit = 0 \/ printed < RecordLimit THEN printed + 1 ELSE printed

CountTTL(w) ==
  ttlCount' = [t \in OneWay |->
                 IF t = "bck" /\ NoReflectedTTL THEN ttlCount[t]
                 ELSE [ttlCount[t] EXCEPT ![w.ttl[t]] = @ + 1]]

(* Mutants of CountDelays: clocks are suspected only when both delays are  *)
(* negative; a duplicate counts among the hops.                            *)
CountDelaysBothNegative(d, w, fresh) ==
  /\ minDelay' = [t \in Delays |-> Min({minDelay[t], d[t]})]
  /\ maxDelay' = [t \in Delays |-> Max({maxDelay[t], d[t]})]
  /\ clocksOffset' = (clocksOffset \/ \A t \in OneWay : d[t] < 0)
  /\ IF fresh THEN CountTTL(w) ELSE UNCHANGED ttlCount

CountDelaysTTLAlways(d, w, fresh) ==
  /\ minDelay' = [t \in Delays |-> Min({minDelay[t], d[t]})]
  /\ maxDelay' = [t \in Delays |-> Max({maxDelay[t], d[t]})]
  /\ clocksOffset' = (clocksOffset \/ \E t \in OneWay : d[t] < 0)
  /\ CountTTL(w)

(* Duplicates count in the extremes, but not in histograms and hops.       *)
CountDelays(d, w, fresh) ==
  /\ minDelay' = [t \in Delays |-> Min({minDelay[t], d[t]})]
  /\ maxDelay' = [t \in Delays |-> Max({maxDelay[t], d[t]})]
  /\ clocksOffset' = (clocksOffset \/ \E t \in OneWay : d[t] < 0)
  /\ IF fresh THEN CountTTL(w) ELSE UNCHANGED ttlCount

(* Add of an answer.  After the loss of its packet the session hands on no *)
(* answer, and after an error nothing at all.                              *)
Answer(p, r, w) ==
  LET d == Delay(p, w)
      fresh == fwd[p].seen = 0
  IN  /\ ~ addErr /\ ~ fwd[p].lost
      /\ FoldFunction(+, 0, answers) < MaxAnswers
      /\ AddAnswer(p, r, Bucket(d))
      /\ CountTimes(p, Departures[p], Stamps(p, w).back)
      /\ IF addErr'
           THEN UNCHANGED <<delayVars, printed, recordVars>>
           ELSE /\ CountDelays(d, w, fresh)
                /\ PrintLine
                /\ firsts' = IF fresh THEN [firsts EXCEPT ![w] = @ + 1] ELSE firsts
                /\ answers' = [answers EXCEPT ![w] = @ + 1]
      /\ UNCHANGED offset

(* Add of a loss, which the session reports of unanswered packets only.    *)
Loss(p) ==
  /\ ~ addErr /\ ~ fwd[p].lost /\ fwd[p].seen = 0
  /\ AddLost(p)
  /\ CountTimes(p, Departures[p] + LossTimeout, Departures[p] + LossTimeout)
  /\ PrintLine
  /\ UNCHANGED <<offset, delayVars, recordVars>>

(* The session is over, whenever that is, and the reports are printed.     *)
Report == UNCHANGED vars

Next == \/ \E p \in SentSeqs, r \in Refls, w \in Paths : Answer(p, r, w)
        \/ \E p \in SentSeqs : Loss(p)
        \/ Report

Spec == Init /\ [][Next]_vars

-----------------------------------------------------------------------------
Keys(t) == {b[t] : b \in {c \in Buckets : buckets[c] > 0}}
Hist(t) == [k \in Keys(t) |-> SumOver(buckets, {b \in Buckets : b[t] = k})]

(* Mutant of Percentile: the bucket must exceed the target.                *)
PercentileAbove(a, t, up) ==
  LET h == Hist(t)
      total == SumOver(h, Keys(t))
      UpTo(k) == SumOver(h, {j \in Keys(t) : j <= k})
      reached == {k \in Keys(t) : UpTo(k) * a[2] > a[1] * total}
  IN  IF reached = {} THEN Max(Keys(t)) ELSE Min(reached)

(* percentile, as the number of a bucket: the first with which a * total   *)
(* records are reached, else the last.  The product is in floating point,  *)
(* and may come out above a whole number it should be ("up"): 0.55 * 100.  *)
Percentile(a, t, up) ==
  LET h == Hist(t)
      total == SumOver(h, Keys(t))
      UpTo(k) == SumOver(h, {j \in Keys(t) : j <= k})
      reached == {k \in Keys(t) : IF up THEN UpTo(k) * a[2] > a[1] * total
                                        ELSE UpTo(k) * a[2] >= a[1] * total}
  IN  IF reached = {} THEN Max(Keys(t)) ELSE Min(reached)

Median(t) == Percentile(<<1, 2>>, t, FALSE)

(* jitter, in buckets: P95 - P50.                                          *)
Jitter(t, up) == Percentile(<<95, 100>>, t, up) - Median(t)

(* ttlRange.                                                               *)
SeenTTLs(t) == {n \in TTLs : ttlCount[t][n] > 0}

(* PrintSummaryLang: "nan" stands where a figure has nothing to rest on.   *)
SummaryReport ==
  [warned |-> clocksOffset, sent |-> statSent, lost |-> statLost,
   dups |-> dupsFwd + dupsBck,
   min |-> [t \in Delays |-> IF minDelay[t] < Inf THEN {minDelay[t]} ELSE {}],
   max |-> [t \in Delays |-> IF maxDelay[t] > -Inf THEN {maxDelay[t]} ELSE {}],
   median |-> [t \in Measured |-> IF Keys(t) = {} THEN {} ELSE {Median(t)}],
   jitter |-> [t \in Measured |->
                 IF Keys(t) = {} THEN {} ELSE {Jitter(t, up) : up \in BOOLEAN}],
   hops |-> [t \in OneWay |-> {255 - n : n \in SeenTTLs(t)}]]

(* PrintMachine: the rows of its tables of buckets and of TTLs; a row of   *)
(* buckets for every bucket of the round trip.                             *)
MachineReport ==
  [sample |-> last - first, sent |-> statSent, lost |-> statLost,
   rows |-> IF statSent > statLost
              THEN {[key |-> k, count |-> [t \in Measured |->
                        IF k \in Keys(t) THEN Hist(t)[k] ELSE 0]] : k \in Keys("rtt")}
              ELSE {},
   ttlRows |-> {[ttl |-> n, count |-> [t \in OneWay |-> ttlCount[t][n]]] :
                  n \in SeenTTLs("fwd") \cup SeenTTLs("bck")}]

Column(rows, t) == SumOver([row \in rows |-> row.count[t]], rows)

-----------------------------------------------------------------------------
Seen(f) == {w \in Paths : f[w] > 0}
Network(w) == w.out + w.back

(* "Only the round trip is meaningful" when the clocks differ              *)
(* (docs/PROTOCOL.md:235-237): whatever they differ by, the round trip in  *)
(* the report is the time on the network and nothing else, in its extremes *)
(* and in its histogram.                                                   *)
RoundTripIsNetworkTime ==
  /\ SummaryReport.min["rtt"] = IF Seen(answers) = {} THEN {}
                                ELSE {Min({Network(w) : w \in Seen(answers)})}
  /\ SummaryReport.max["rtt"] = IF Seen(answers) = {} THEN {}
                                ELSE {Max({Network(w) : w \in Seen(answers)})}
  /\ \A k \in Keys("rtt") :
       Hist("rtt")[k] = SumOver(firsts, {w \in Paths : Network(w) \div Width = k})

(* The report warns of the clocks whenever anything it shows of a one-way  *)
(* delay is negative, and only then (docs/PROTOCOL.md:235-237).            *)
NegativeDelaysWarned ==
  LET shown == UNION {SummaryReport.min[t] \cup SummaryReport.median[t] : t \in OneWay}
  IN  SummaryReport.warned <=> \E d \in shown : d < 0

(* A quantile is the bucket of the record that has its rank among all      *)
(* first answers, sorted; the next rank at most when the product of        *)
(* percentile is rounded up past a whole number (stats.go:451-460).        *)
PercentileHasItsRank ==
  LET n == SumOver(firsts, Paths)
      Below(d) == SumOver(firsts, {w \in Paths : Network(w) < d})
      UpTo(d) == SumOver(firsts, {w \in Paths : Network(w) <= d})
      OfRank(i) == CHOOSE d \in {Network(w) : w \in Seen(firsts)} :
                     Below(d) < i /\ i <= UpTo(d)
      Ceil(a) == (a[1] * n + a[2] - 1) \div a[2]
      Clip(i) == Max({1, Min({i, n})})
  IN  n > 0 => \A a \in Levels :
        /\ Percentile(a, "rtt", FALSE) = OfRank(Clip(Ceil(a))) \div Width
        /\ Percentile(a, "rtt", TRUE) \in
             {OfRank(Clip(i)) \div Width : i \in {Ceil(a), Ceil(a) + 1}}

(* The sections of the reports speak of the same packets: each answered    *)
(* one is counted once in the round-trip column, once among the TTLs, and  *)
(* at most once in a one-way column; figures are missing together, and the *)
(* median is no further from the extremes than its bucket is wide.         *)
SectionsAgree ==
  /\ Column(MachineReport.rows, "rtt") = statSent - statLost
  /\ Column(MachineReport.ttlRows, "fwd") = statSent - statLost
  /\ Column(MachineReport.ttlRows, "bck") = IF NoReflectedTTL THEN 0 ELSE statSent - statLost
  /\ \A t \in OneWay : Column(MachineReport.rows, t) <= statSent - statLost
  /\ \A t \in Measured :
       /\ SummaryReport.median[t] = {} <=> SummaryReport.min[t] = {}
       /\ \A k \in SummaryReport.median[t] :
            minDelay[t] < (k + 1) * Width /\ k * Width <= maxDelay[t]
       /\ \A j \in SummaryReport.jitter[t] : j >= 0

(* The values of what Summary adds to the counters.                        *)
SummaryTypeOK ==
  /\ StatsTypeOK
  /\ minDelay \in [Delays -> Int] /\ maxDelay \in [Delays -> Int]
  /\ ttlCount \in [OneWay -> [TTLs -> Nat]]
  /\ startTime <= endTime
  /\ RecordLimit > 0 => printed <= RecordLimit
  /\ \A w \in Paths : firsts[w] <= answers[w]
=============================================================================
