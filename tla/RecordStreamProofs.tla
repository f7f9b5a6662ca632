------------------------- MODULE RecordStreamProofs -------------------------
(* Proofs about RecordStream, for any number of packets. *)
EXTENDS RecordStream, TLAPS

(* The inductive invariant: a reported loss lies below the frontier, so    *)
(* neither a later answer nor a later loss can be of the same packet.      *)
LostBelowFrontier ==
  \A k \in DOMAIN stream : stream[k].lost => stream[k].seq < frontier

StreamInv == /\ StreamTypeOK
             /\ LostBelowFrontier
             /\ LossIsFinal
             /\ LossesInOrder
             /\ Accounted

(* What appending one record does to a stream.                             *)
LEMMA AppendRecord ==
  ASSUME NEW s \in Seq(Record), NEW r \in Record
  PROVE  LET t == Append(s, r)
         IN  /\ t \in Seq(Record)
             /\ Len(s) \in Nat
             /\ DOMAIN s = 1 .. Len(s)
             /\ DOMAIN t = 1 .. Len(s) + 1
             /\ \A k \in DOMAIN s : t[k] = s[k] /\ k \in DOMAIN t
             /\ t[Len(s) + 1] = r
  OBVIOUS

LEMMA StreamInit == Init => StreamInv
  BY NPacketsAssumption
  DEF Init, StreamInv, StreamTypeOK, LostBelowFrontier, LossIsFinal,
      LossesInOrder, Accounted, Pkts

LEMMA StreamStep == StreamInv /\ [Next]_streamVars => StreamInv'
<1> SUFFICES ASSUME StreamInv, [Next]_streamVars PROVE StreamInv'
  OBVIOUS
<1> USE NPacketsAssumption DEF StreamInv, Pkts
<1>1. ASSUME NEW p \in Pkts, Answer(p) PROVE StreamInv'
  <2> DEFINE r == [seq |-> p, lost |-> FALSE]
  <2>1. r \in Record
    BY <1>1 DEF Record
  <2>2. /\ stream \in Seq(Record) /\ stream' = Append(stream, r)
        /\ frontier' = frontier /\ exempt' = exempt /\ p >= frontier
    BY <1>1 DEF Answer, StreamTypeOK
  <2>3. /\ stream' \in Seq(Record)
        /\ Len(stream) \in Nat
        /\ DOMAIN stream = 1 .. Len(stream)
        /\ DOMAIN stream' = 1 .. Len(stream) + 1
        /\ \A k \in DOMAIN stream : stream'[k] = stream[k] /\ k \in DOMAIN stream'
        /\ stream'[Len(stream) + 1] = r
    BY <2>1, <2>2, AppendRecord
  <2>4. StreamTypeOK'
    BY <2>2, <2>3 DEF StreamTypeOK
  <2>5. LostBelowFrontier'
    BY <2>2, <2>3 DEF LostBelowFrontier
  <2>6. LossIsFinal'
    BY <2>2, <2>3, <1>1 DEF LossIsFinal, LostBelowFrontier, StreamTypeOK
  <2>7. LossesInOrder'
    BY <2>2, <2>3 DEF LossesInOrder
  <2>8. Accounted'
    BY <2>2, <2>3 DEF Accounted, AnsweredIn, LostIn
  <2> QED BY <2>4, <2>5, <2>6, <2>7, <2>8
<1>2. ASSUME NEW p \in Pkts, Exempt(p) PROVE StreamInv'
  <2>1. StreamTypeOK'
    BY <1>2 DEF Exempt, StreamTypeOK
  <2>2. LostBelowFrontier' /\ LossIsFinal' /\ LossesInOrder'
    BY <1>2 DEF Exempt, LostBelowFrontier, LossIsFinal, LossesInOrder
  <2>3. Accounted'
    BY <1>2 DEF Exempt, Accounted, AnsweredIn, LostIn
  <2> QED BY <2>1, <2>2, <2>3
<1>3. CASE CloseAccounted
  <2>1. StreamTypeOK'
    BY <1>3 DEF CloseAccounted, StreamTypeOK
  <2>5. \A k \in DOMAIN stream : stream[k] \in Record
    BY DEF StreamTypeOK
  <2>2. LostBelowFrontier'
    BY <1>3, <2>5 DEF CloseAccounted, LostBelowFrontier, StreamTypeOK, Record
  <2>3. LossIsFinal' /\ LossesInOrder'
    BY <1>3 DEF CloseAccounted, LossIsFinal, LossesInOrder
  <2>4. Accounted'
    BY <1>3 DEF CloseAccounted, Accounted, AnsweredIn, LostIn, StreamTypeOK
  <2> QED BY <2>1, <2>2, <2>3, <2>4
<1>4. CASE CloseLost
  <2> DEFINE r == [seq |-> frontier, lost |-> TRUE]
  <2>1. r \in Record
    BY <1>4 DEF Record, CloseLost
  <2>2. /\ stream \in Seq(Record) /\ stream' = Append(stream, r)
        /\ frontier' = frontier + 1 /\ exempt' = exempt
        /\ frontier \in 0 .. NPackets - 1
        /\ ~ AnsweredIn(stream, frontier)
    BY <1>4 DEF CloseLost, StreamTypeOK
  <2>3. /\ stream' \in Seq(Record)
        /\ Len(stream) \in Nat
        /\ DOMAIN stream = 1 .. Len(stream)
        /\ DOMAIN stream' = 1 .. Len(stream) + 1
        /\ \A k \in DOMAIN stream : stream'[k] = stream[k] /\ k \in DOMAIN stream'
        /\ stream'[Len(stream) + 1] = r
    BY <2>1, <2>2, AppendRecord
  <2>4. \A k \in DOMAIN stream : stream[k] \in Record
    BY <2>2, <2>3
  <2>5. StreamTypeOK'
    BY <2>2, <2>3 DEF StreamTypeOK
  <2>6. LostBelowFrontier'
    BY <2>2, <2>3, <2>4 DEF LostBelowFrontier, Record
  <2>7. \A k \in DOMAIN stream : stream[k].seq # frontier
    BY <2>2, <2>3, <2>4 DEF LostBelowFrontier, AnsweredIn, Record
  <2>8. LossIsFinal'
    BY <2>2, <2>3, <2>7 DEF LossIsFinal
  <2>9. LossesInOrder'
    BY <2>2, <2>3, <2>4 DEF LossesInOrder, LostBelowFrontier, Record
  <2>10. Accounted'
    <3> SUFFICES ASSUME NEW p \in Pkts, p < frontier'
                 PROVE  (AnsweredIn(stream, p) \/ LostIn(stream, p) \/ p \in exempt)'
      BY DEF Accounted
    <3>1. CASE p = frontier
      BY <3>1, <2>2, <2>3 DEF LostIn
    <3>2. CASE p < frontier
      BY <3>2, <2>2, <2>3 DEF Accounted, AnsweredIn, LostIn
    <3> QED BY <3>1, <3>2, <2>2
  <2> QED BY <2>5, <2>6, <2>8, <2>9, <2>10
<1>5. CASE UNCHANGED streamVars
  BY <1>5 DEF streamVars, StreamTypeOK, LostBelowFrontier, LossIsFinal,
              LossesInOrder, Accounted, AnsweredIn, LostIn
<1> QED BY <1>1, <1>2, <1>3, <1>4, <1>5 DEF Next

(* Any system that keeps the promise gives every packet at most one loss   *)
(* record and nothing besides it, reports losses in order and forgets no   *)
(* packet.                                                                 *)
THEOREM StreamPromise == Spec => [](LossIsFinal /\ LossesInOrder /\ Accounted)
<1>1. Init => StreamInv
  BY StreamInit
<1>2. StreamInv /\ [Next]_streamVars => StreamInv'
  BY StreamStep
<1>3. StreamInv => LossIsFinal /\ LossesInOrder /\ Accounted
  BY DEF StreamInv
<1> QED BY <1>1, <1>2, <1>3, PTL DEF Spec
=============================================================================
