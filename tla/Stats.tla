-------------------------------- MODULE Stats --------------------------------
(***************************************************************************)
(* The counters of owamp/stats.go: what Stats.Add does with one record.    *)
(* A record names its packet, and, unless it is lost, the number the       *)
(* reflector gave the reply and the histogram bucket its delay falls into. *)
(* The minima, maxima, error estimates and printed lines, on which no      *)
(* counter depends, are left out; ttlCount is counted like a bucket.       *)
(***************************************************************************)
EXTENDS Integers, FiniteSets, FiniteSetsExt

CONSTANTS
  SentSeqs,                 \* Sent.SeqNo of the records
  Refls,                \* Reflected.SeqNo of the records
  Buckets               \* histogram buckets

ASSUME NumbersAssumption == SentSeqs \subseteq Nat /\ Refls \subseteq Nat
ASSUME FiniteBucketsAssumption == IsFiniteSet(Buckets)

VARIABLES
  fwd,                  \* packetInfo by sent number
  bck,                  \* packetInfo by reflected number
  buckets,              \* packets counted in each bucket
  statSent, statLost,   \* Stats.sent and Stats.lost
  dupsFwd, dupsBck,
  first, last, haveFirst,
  addErr                \* Add has returned an error

nodeVars    == <<fwd, bck>>
counterVars == <<buckets, statSent, statLost, dupsFwd, dupsBck>>
rangeVars   == <<first, last, haveFirst>>
statsVars   == <<nodeVars, counterVars, rangeVars, addErr>>

(* associatedSeq is 0 until it is set, and is read only when seen > 0.     *)
NewNode == [seen |-> 0, lost |-> FALSE, assoc |-> 0]

StatsInit ==
  /\ fwd = [p \in SentSeqs |-> NewNode]
  /\ bck = [r \in Refls |-> NewNode]
  /\ buckets = [b \in Buckets |-> 0]
  /\ statSent = 0 /\ statLost = 0
  /\ dupsFwd = 0 /\ dupsBck = 0
  /\ first = 0 /\ last = 0 /\ haveFirst = FALSE
  /\ addErr = FALSE

-----------------------------------------------------------------------------
(* Mutant of CountRange: the first record fixes the lower end.             *)
CountRangeInOrder(p) ==
  /\ haveFirst' = TRUE
  /\ first' = IF haveFirst THEN first ELSE p
  /\ last' = IF p + 1 > last THEN p + 1 ELSE last

(* [first, last) spans every number seen, in whatever order they come.     *)
CountRange(p) ==
  /\ haveFirst' = TRUE
  /\ first' = IF haveFirst /\ first <= p THEN first ELSE p
  /\ last' = IF p + 1 > last THEN p + 1 ELSE last

(* Mutant of AddLost: the lost packet is not counted as sent.              *)
AddLostOnly(p) ==
  /\ CountRange(p)
  /\ IF fwd[p].lost
       THEN addErr' = TRUE /\ UNCHANGED <<nodeVars, counterVars>>
       ELSE /\ fwd' = [fwd EXCEPT ![p].lost = TRUE]
            /\ statLost' = statLost + 1
            /\ UNCHANGED <<bck, buckets, statSent, dupsFwd, dupsBck, addErr>>

(* A loss record: a second one for the same packet is an error.            *)
AddLost(p) ==
  /\ CountRange(p)
  /\ IF fwd[p].lost
       THEN addErr' = TRUE /\ UNCHANGED <<nodeVars, counterVars>>
       ELSE /\ fwd' = [fwd EXCEPT ![p].lost = TRUE]
            /\ statSent' = statSent + 1
            /\ statLost' = statLost + 1
            /\ UNCHANGED <<bck, buckets, dupsFwd, dupsBck, addErr>>

(* Mutant of Conflicting: the reflected node is compared with its own      *)
(* number.                                                                 *)
ConflictingReflected(p, r) == bck[r].seen > 0 /\ bck[r].assoc # r

(* The reply's number is already tied to another packet.                   *)
Conflicting(p, r) == bck[r].seen > 0 /\ bck[r].assoc # p

Link(p, r) ==
  bck' = [bck EXCEPT ![r].seen = @ + 1, ![r].assoc = p]

CountFirst(p, r, b) ==
  /\ fwd[p].seen = 0
  /\ fwd' = [fwd EXCEPT ![p].seen = 1, ![p].assoc = r]
  /\ statSent' = statSent + 1
  /\ buckets' = [buckets EXCEPT ![b] = @ + 1]
  /\ UNCHANGED <<dupsFwd, dupsBck>>

(* Mutant of SendDuplicate: the reply's own history is not looked at.      *)
OtherReply(p, r) == fwd[p].seen > 0 /\ fwd[p].assoc # r

(* A reply never seen, for a packet answered under another number.         *)
SendDuplicate(p, r) == fwd[p].seen > 0 /\ fwd[p].assoc # r /\ bck[r].seen = 0

CountSendDuplicate(p, r) ==
  /\ SendDuplicate(p, r)
  /\ fwd' = [fwd EXCEPT ![p].seen = @ + 1]
  /\ dupsFwd' = dupsFwd + 1
  /\ UNCHANGED <<buckets, statSent, dupsBck>>

CountReflectDuplicate(p, r, b) ==
  /\ fwd[p].seen > 0
  /\ ~ SendDuplicate(p, r)
  /\ dupsBck' = dupsBck + 1
  /\ UNCHANGED <<fwd, buckets, statSent, dupsFwd>>

(* An answer: ignored after the packet's loss, refused if its reflected    *)
(* number belongs to another packet, else the first answer or a duplicate. *)
AddAnswer(p, r, b) ==
  /\ CountRange(p)
  /\ IF fwd[p].lost
       THEN UNCHANGED <<nodeVars, counterVars, addErr>>
     ELSE IF Conflicting(p, r)
       THEN addErr' = TRUE /\ UNCHANGED <<nodeVars, counterVars>>
     ELSE /\ Link(p, r)
          /\ \/ CountFirst(p, r, b)
             \/ CountSendDuplicate(p, r)
             \/ CountReflectDuplicate(p, r, b)
          /\ UNCHANGED <<statLost, addErr>>

-----------------------------------------------------------------------------
SumOver(f, S) == MapThenSumSet(LAMBDA x : f[x], S)

Node(Assocs) == [seen : Nat, lost : BOOLEAN, assoc : Assocs \cup {0}]

StatsTypeOK ==
  /\ fwd \in [SentSeqs -> Node(Refls)]
  /\ bck \in [Refls -> Node(SentSeqs)]
  /\ buckets \in [Buckets -> Nat]
  /\ statSent \in Nat /\ statLost \in Nat
  /\ dupsFwd \in Nat /\ dupsBck \in Nat
  /\ first \in Nat /\ last \in Nat
  /\ haveFirst \in BOOLEAN
  /\ addErr \in BOOLEAN
=============================================================================
