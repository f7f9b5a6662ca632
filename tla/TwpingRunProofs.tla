---------------------------- MODULE TwpingRunProofs ----------------------------
(***************************************************************************)
(* The safety of a measurement, for all arguments: run uses the control    *)
(* connection as ControlSpec says, releases all it has opened, writes what *)
(* it has buffered as far as it can and reports no session that was cut    *)
(* short.                                                                  *)
(***************************************************************************)
EXTENDS Integers, TwpingRun, ControlProofs

(* Every step of a measurement is one of the control connection or leaves  *)
(* it alone.                                                               *)
LEMMA StepsOfControl == [Next]_vars => [ControlNext \/ ControlOver]_controlVars
<1> SUFFICES ASSUME Next PROVE ControlNext \/ UNCHANGED controlVars
  BY DEF vars
<1>1. CASE Main
  <2>1. Request \/ Start \/ Stop => Calls
    BY DEF Request, Start, Stop, Begin, Calls
  <2>2. Unwind => CloseControl \/ UNCHANGED controlVars  BY DEF Unwind, Perform
  <2>3. ParseArgs \/ OpenControl \/ OpenSocket \/ Requested \/ Started \/ PrepareOutput
           \/ SessionEnded \/ Stopped \/ RunLangReturns => UNCHANGED controlVars
    BY DEF ParseArgs, OpenControl, OpenSocket, Requested, Started, Exchanged,
           PrepareOutput, SessionEnded, Stopped, RunLangReturns
  <2> QED  BY <1>1, <2>1, <2>2, <2>3 DEF Main, ControlNext, Calls
<1>2. CASE \/ Watcher \/ SinkRecord \/ \E cut \in BOOLEAN : SessionReturns(cut)
           \/ \E writer \in Writers, cut \in BOOLEAN : SinkFails(writer, cut)
  BY <1>2 DEF Watcher, SinkRecord, SessionReturns, SinkFails
<1>3. CASE ControlStep(Progress) \/ (Surroundings /\ UNCHANGED runVars)
  BY <1>3 DEF ControlStep, Surroundings, ControlNext
<1>4. CASE Over  BY <1>4 DEF Over, vars
<1> QED  BY <1>1, <1>2, <1>3, <1>4 DEF Next

(* A measurement uses its control connection as any caller may: every      *)
(* behaviour of run is one of Control, whose safety carries over           *)
(* (twping.go:287-398, 520-524).                                           *)
THEOREM RunIsAControl == Spec => ControlSpec
<1>1. Init => ControlInit  BY DEF Init
<1> QED  BY <1>1, StepsOfControl, PTL DEF Spec, ControlSpec

-----------------------------------------------------------------------------
(* The stack of deferred calls.                                            *)
DeferredCalls == {"cntrl", "sess", "stdout", "file", "flush", "finished"}

HoldsIn(d, call) == \E k \in DOMAIN d : d[k] = call
Distinct(d) == \A j, k \in DOMAIN d : d[j] = d[k] => j = k
FlushFirst(d) == \A j, k \in DOMAIN d : d[j] = "flush" /\ d[k] = "file" => j < k

LEMMA DeferredElements ==
  ASSUME NEW S, defers \in Seq(S), NEW calls \in Seq(S)
  PROVE  /\ Deferred(calls) \in Seq(S)
         /\ Len(Deferred(calls)) = Len(calls) + Len(defers)
         /\ \A k \in 1..Len(calls) : Deferred(calls)[k] = calls[Len(calls) + 1 - k]
         /\ \A k \in 1..Len(defers) : Deferred(calls)[Len(calls) + k] = defers[k]
<1> DEFINE n == Len(calls)
           r == [k \in DOMAIN calls |-> calls[n + 1 - k]]
<1>1. n \in Nat /\ DOMAIN calls = 1..n  OBVIOUS
<1>2. \A k \in 1..n : n + 1 - k \in 1..n  BY <1>1
<1>3. \A k \in 1..n : calls[n + 1 - k] \in S  BY <1>1, <1>2
<1>4. r \in Seq(S) /\ Len(r) = n  BY <1>1, <1>3
<1>5. \A k \in 1..n : r[k] = calls[n + 1 - k]  BY <1>1
<1>6. Deferred(calls) = r \o defers  BY DEF Deferred
<1> HIDE DEF r
<1>7. r \o defers \in Seq(S) /\ Len(r \o defers) = n + Len(defers)  BY <1>4
<1>8. \A k \in 1..n : (r \o defers)[k] = r[k]  BY <1>1, <1>4
<1>9. ASSUME NEW k \in 1..Len(defers) PROVE (r \o defers)[n + k] = defers[k]
  <2>1. n + k \in 1..(Len(r) + Len(defers)) /\ n + k > Len(r) /\ (n + k) - Len(r) = k
    BY <1>1, <1>4
  <2> QED  BY <1>4, <2>1
<1> QED  BY <1>5, <1>6, <1>7, <1>8, <1>9

LEMMA Pushes ==
  ASSUME NEW S, defers \in Seq(S), NEW calls \in Seq(S), Distinct(defers), Distinct(calls),
         \A c : ~ (HoldsIn(calls, c) /\ HoldsIn(defers, c))
  PROVE  /\ Deferred(calls) \in Seq(S)
         /\ Distinct(Deferred(calls))
         /\ \A c : HoldsIn(Deferred(calls), c) <=> HoldsIn(calls, c) \/ HoldsIn(defers, c)
<1> DEFINE n == Len(calls)
           d == Deferred(calls)
<1>1. /\ d \in Seq(S) /\ Len(d) = n + Len(defers)
      /\ \A k \in 1..n : d[k] = calls[n + 1 - k]
      /\ \A k \in 1..Len(defers) : d[n + k] = defers[k]
  BY DeferredElements
<1> HIDE DEF d
<1>2. n \in Nat /\ Len(defers) \in Nat
      /\ DOMAIN calls = 1..n /\ DOMAIN defers = 1..Len(defers) /\ DOMAIN d = 1..(n + Len(defers))
  BY <1>1
<1>3. \A k \in DOMAIN d : \/ k \in 1..n /\ n + 1 - k \in DOMAIN calls /\ d[k] = calls[n + 1 - k]
                          \/ k - n \in DOMAIN defers /\ d[k] = defers[k - n]
  <2> TAKE k \in DOMAIN d
  <2>1. CASE k \in 1..n  BY <1>1, <1>2, <2>1
  <2>2. CASE k \notin 1..n
    <3>1. k - n \in 1..Len(defers) /\ n + (k - n) = k  BY <1>2, <2>2
    <3> QED  BY <1>1, <1>2, <3>1
  <2> QED  BY <2>1, <2>2
<1>4. Distinct(d)
  <2> SUFFICES ASSUME NEW j \in DOMAIN d, NEW k \in DOMAIN d, d[j] = d[k] PROVE j = k
    BY DEF Distinct
  <2>1. j \in Int /\ k \in Int  BY <1>2
  <2>2. CASE j \in 1..n /\ n + 1 - j \in DOMAIN calls /\ d[j] = calls[n + 1 - j]
    <3>1. HoldsIn(calls, d[j])  BY <2>2 DEF HoldsIn
    <3>2. ~ (k - n \in DOMAIN defers /\ d[k] = defers[k - n])  BY <3>1 DEF HoldsIn
    <3>3. n + 1 - k \in DOMAIN calls /\ d[k] = calls[n + 1 - k]  BY <1>3, <3>2
    <3>4. n + 1 - j = n + 1 - k  BY <2>2, <3>3 DEF Distinct
    <3> QED  BY <1>2, <2>1, <3>4
  <2>3. CASE j - n \in DOMAIN defers /\ d[j] = defers[j - n]
    <3>1. HoldsIn(defers, d[j])  BY <2>3 DEF HoldsIn
    <3>2. ~ (n + 1 - k \in DOMAIN calls /\ d[k] = calls[n + 1 - k])  BY <3>1 DEF HoldsIn
    <3>3. k - n \in DOMAIN defers /\ d[k] = defers[k - n]  BY <1>3, <3>2
    <3>4. j - n = k - n  BY <2>3, <3>3 DEF Distinct
    <3> QED  BY <1>2, <2>1, <3>4
  <2> QED  BY <1>3, <2>2, <2>3
<1>5. ASSUME NEW c PROVE HoldsIn(d, c) <=> HoldsIn(calls, c) \/ HoldsIn(defers, c)
  <2>1. HoldsIn(d, c) => HoldsIn(calls, c) \/ HoldsIn(defers, c)  BY <1>3 DEF HoldsIn
  <2>2. ASSUME NEW k \in DOMAIN calls, calls[k] = c PROVE HoldsIn(d, c)
    <3>1. n + 1 - k \in 1..n /\ n + 1 - (n + 1 - k) = k  BY <1>2
    <3>2. d[n + 1 - k] = c /\ n + 1 - k \in DOMAIN d  BY <1>1, <1>2, <2>2, <3>1
    <3> QED  BY <3>2 DEF HoldsIn
  <2>3. ASSUME NEW k \in DOMAIN defers, defers[k] = c PROVE HoldsIn(d, c)
    <3>1. d[n + k] = c /\ n + k \in DOMAIN d  BY <1>1, <1>2, <2>3
    <3> QED  BY <3>1 DEF HoldsIn
  <2> QED  BY <2>1, <2>2, <2>3 DEF HoldsIn
<1> QED  BY <1>1, <1>4, <1>5 DEF d

(* On a stack with neither of them, the call that flushes the save file is *)
(* pushed after the one that closes it.                                    *)
LEMMA PushesInOrder ==
  ASSUME NEW S, defers \in Seq(S), NEW calls \in Seq(S),
         ~ HoldsIn(defers, "file"), ~ HoldsIn(defers, "flush"),
         \A j, k \in DOMAIN calls : calls[j] = "flush" /\ calls[k] = "file" => k < j
  PROVE  FlushFirst(Deferred(calls))
<1> DEFINE n == Len(calls)
           d == Deferred(calls)
<1>1. /\ d \in Seq(S) /\ Len(d) = n + Len(defers)
      /\ \A k \in 1..n : d[k] = calls[n + 1 - k]
      /\ \A k \in 1..Len(defers) : d[n + k] = defers[k]
  BY DeferredElements
<1> HIDE DEF d
<1>2. n \in Nat /\ Len(defers) \in Nat
      /\ DOMAIN calls = 1..n /\ DOMAIN defers = 1..Len(defers) /\ DOMAIN d = 1..(n + Len(defers))
  BY <1>1
<1>3. \A k \in DOMAIN d : d[k] \in {"file", "flush"} =>
                            n + 1 - k \in DOMAIN calls /\ d[k] = calls[n + 1 - k]
  <2> TAKE k \in DOMAIN d
  <2>1. CASE k \in 1..n  BY <1>1, <1>2, <2>1
  <2>2. CASE k \notin 1..n
    <3>1. k - n \in 1..Len(defers) /\ n + (k - n) = k  BY <1>2, <2>2
    <3>2. d[k] = defers[k - n] /\ k - n \in DOMAIN defers  BY <1>1, <1>2, <3>1
    <3> QED  BY <3>2 DEF HoldsIn
  <2> QED  BY <2>1, <2>2
<1>4. ASSUME NEW j \in DOMAIN d, NEW k \in DOMAIN d, d[j] = "flush", d[k] = "file"
      PROVE  j < k
  <2>1. n + 1 - k < n + 1 - j  BY <1>3, <1>4
  <2>2. j \in Int /\ k \in Int  BY <1>2
  <2> QED  BY <1>2, <2>1, <2>2
<1> QED  BY <1>4 DEF FlushFirst, d

LEMMA Pops ==
  ASSUME NEW S, NEW d \in Seq(S), d # << >>, Distinct(d), FlushFirst(d)
  PROVE  /\ Tail(d) \in Seq(S) /\ Distinct(Tail(d)) /\ FlushFirst(Tail(d))
         /\ \A c : HoldsIn(Tail(d), c) <=> HoldsIn(d, c) /\ c # Head(d)
         /\ Head(d) \in S /\ HoldsIn(d, Head(d))
         /\ Head(d) = "file" => ~ HoldsIn(d, "flush")
<1> DEFINE n == Len(d)
<1>1. /\ n \in Nat /\ n > 0 /\ DOMAIN d = 1..n
      /\ Head(d) = d[1] /\ 1 \in DOMAIN d
      /\ Tail(d) \in Seq(S) /\ Len(Tail(d)) = n - 1
      /\ \A k \in 1..(n - 1) : Tail(d)[k] = d[k + 1]
  OBVIOUS
<1>2. DOMAIN Tail(d) = 1..(n - 1)  BY <1>1
<1>3. \A k \in DOMAIN Tail(d) : k \in Int /\ k + 1 \in DOMAIN d /\ Tail(d)[k] = d[k + 1]
  BY <1>1, <1>2
<1>4. Distinct(Tail(d))
  <2> SUFFICES ASSUME NEW j \in DOMAIN Tail(d), NEW k \in DOMAIN Tail(d),
                      Tail(d)[j] = Tail(d)[k]
               PROVE  j = k
    BY DEF Distinct
  <2>1. j + 1 = k + 1  BY <1>3 DEF Distinct
  <2> QED  BY <1>3, <2>1
<1>5. FlushFirst(Tail(d))
  <2> SUFFICES ASSUME NEW j \in DOMAIN Tail(d), NEW k \in DOMAIN Tail(d),
                      Tail(d)[j] = "flush", Tail(d)[k] = "file"
               PROVE  j < k
    BY DEF FlushFirst
  <2>1. j + 1 < k + 1  BY <1>3 DEF FlushFirst
  <2> QED  BY <1>3, <2>1
<1>6. ASSUME NEW c PROVE HoldsIn(Tail(d), c) <=> HoldsIn(d, c) /\ c # Head(d)
  <2>1. ASSUME NEW k \in DOMAIN Tail(d), Tail(d)[k] = c
        PROVE  HoldsIn(d, c) /\ c # Head(d)
    <3>1. k + 1 \in DOMAIN d /\ d[k + 1] = c /\ k + 1 # 1  BY <1>2, <1>3, <2>1
    <3> QED  BY <1>1, <3>1 DEF HoldsIn, Distinct
  <2>2. ASSUME NEW k \in DOMAIN d, d[k] = c, c # Head(d) PROVE HoldsIn(Tail(d), c)
    <3>1. k # 1  BY <1>1, <2>2
    <3>2. k - 1 \in 1..(n - 1) /\ (k - 1) + 1 = k  BY <1>1, <3>1
    <3>3. Tail(d)[k - 1] = d[k]  BY <1>1, <3>2
    <3> QED  BY <1>2, <2>2, <3>2, <3>3 DEF HoldsIn
  <2> QED  BY <2>1, <2>2 DEF HoldsIn
<1>7. Head(d) = "file" => ~ HoldsIn(d, "flush")
  <2> SUFFICES ASSUME d[1] = "file", NEW k \in DOMAIN d, d[k] = "flush" PROVE FALSE
    BY <1>1 DEF HoldsIn
  <2>1. k < 1  BY <1>1 DEF FlushFirst
  <2> QED  BY <1>1, <2>1
<1> QED  BY <1>1, <1>4, <1>5, <1>6, <1>7 DEF HoldsIn

-----------------------------------------------------------------------------
Opening == {"socket", "request", "requested", "start", "started", "output"}
Working == {"run", "ended", "stop", "stopped"}

(* What may be deferred where run has come to; in the end all is done.     *)
StackInv ==
  /\ FlushFirst(defers)
  /\ runPC \in {"parse", "open", "returned"} => defers = << >>
  /\ runPC = "socket" => \A k \in DOMAIN defers : defers[k] \in {"cntrl"}
  /\ runPC \in Opening => \A k \in DOMAIN defers : defers[k] \in {"cntrl", "sess"}
  /\ runPC \in Working => /\ HoldsIn(defers, "stdout")
                          /\ file = "open" => HoldsIn(defers, "flush")

(* Whatever is open, or buffered and not refused, has a deferred call that *)
(* sees to it.                                                             *)
ReleasedInv ==
  /\ runPC = "parse" => ctlPC = "dial"
  /\ conn = "up" => runPC = "open" \/ HoldsIn(defers, "cntrl")
  /\ sock = "open" => HoldsIn(defers, "sess")
  /\ file = "open" => HoldsIn(defers, "file")
  /\ "stdout" \in buffered /\ refused["stdout"] = "no" => HoldsIn(defers, "stdout")
  /\ "file" \in buffered /\ refused["file"] = "no" =>
       file = "open" /\ HoldsIn(defers, "flush")
  /\ runPC \in Opening \cup {"parse", "open"} => file = "none" /\ buffered = {}

(* Only a cancellation closes the socket under a session, and run knows it *)
(* before it asks how the session went.                                    *)
CutInv ==
  /\ runPC \in Opening \cup {"parse", "open"} => sock # "closed" /\ watcher = "none"
  /\ runPC \in Opening \cup {"parse", "open", "run", "stop", "stopped"} => ~ cutShort
  /\ runPC = "run" /\ sock = "closed" => cancelled
  /\ runPC = "ended" /\ cutShort => cancelled
  /\ runPC \in {"ended", "stop", "stopped"} /\ NPackets = 0 => sess = "error"
  /\ runPC \in Opening \cup Working \cup {"parse", "open"} => ~ reported /\ ~ complete
  /\ reported \/ complete => ~ cutShort /\ NPackets > 0

(* A refused record is an error of the session, and stays one.             *)
Told == \E w \in Writers : refused[w] = "returned"

WriteInv ==
  /\ runPC \in Opening \cup {"parse", "open", "run"} => ~ Told
  /\ runPC \in {"ended", "stop", "stopped"} /\ Told => sess = "error"
  /\ runPC = "unwind" /\ Told => failure # "nil"
  /\ runPC = "returned" /\ Told => outcome # "nil"

RunInv == ControlInv /\ TypeOK /\ StackInv /\ ReleasedInv /\ CutInv /\ WriteInv

-----------------------------------------------------------------------------
(* The calls one step defers: what they are, and that the file is closed   *)
(* after it is flushed.                                                    *)
Good(calls, S) ==
  /\ calls \in Seq(DeferredCalls)
  /\ Distinct(calls)
  /\ \A j, k \in DOMAIN calls : calls[j] = "flush" /\ calls[k] = "file" => k < j
  /\ \A c : HoldsIn(calls, c) <=> c \in S

LEMMA OneCall == \A c \in DeferredCalls : Good(<<c>>, {c})
<1> TAKE c \in DeferredCalls
<1>1. <<c>> \in Seq(DeferredCalls) /\ DOMAIN <<c>> = {1} /\ <<c>>[1] = c  OBVIOUS
<1>2. c = "flush" => c # "file"  OBVIOUS
<1> QED  BY <1>1, <1>2 DEF Good, Distinct, HoldsIn

LEMMA SaveCalls == Good(<<"stdout", "file", "flush">>, {"stdout", "file", "flush"})
<1> DEFINE s == <<"stdout", "file", "flush">>
<1>1. /\ s \in Seq(DeferredCalls) /\ DOMAIN s = {1, 2, 3}
      /\ s[1] = "stdout" /\ s[2] = "file" /\ s[3] = "flush"
  BY DEF DeferredCalls
<1> HIDE DEF s
<1>2. Distinct(s)  BY <1>1 DEF Distinct
<1>3. \A j, k \in DOMAIN s : s[j] = "flush" /\ s[k] = "file" => k < j  BY <1>1
<1>4. \A c : HoldsIn(s, c) <=> c \in {"stdout", "file", "flush"}
  BY <1>1 DEF HoldsIn
<1> QED  BY <1>1, <1>2, <1>3, <1>4 DEF Good, s

LEMMA OneMore ==
  ASSUME NEW calls, NEW S, Good(calls, S), "finished" \notin S
  PROVE  Good(Append(calls, "finished"), S \cup {"finished"})
<1> DEFINE n == Len(calls)
           s == Append(calls, "finished")
<1>1. calls \in Seq(DeferredCalls) /\ n \in Nat /\ DOMAIN calls = 1..n  BY DEF Good
<1>2. /\ s \in Seq(DeferredCalls) /\ DOMAIN s = 1..(n + 1)
      /\ s[n + 1] = "finished" /\ \A k \in 1..n : s[k] = calls[k]
  BY <1>1 DEF DeferredCalls
<1> HIDE DEF s
<1>3. \A k \in DOMAIN s : k \in DOMAIN calls \/ k = n + 1  BY <1>1, <1>2
<1>4. \A k \in DOMAIN calls : calls[k] # "finished" /\ k \in DOMAIN s /\ s[k] = calls[k]
  BY <1>1, <1>2 DEF Good, HoldsIn
<1>5. Distinct(s)  BY <1>2, <1>3, <1>4 DEF Good, Distinct
<1>6. \A j, k \in DOMAIN s : s[j] = "flush" /\ s[k] = "file" => k < j
  BY <1>2, <1>3, <1>4 DEF Good
<1>7. n + 1 \in DOMAIN s  BY <1>1, <1>2
<1>8. \A c : HoldsIn(s, c) <=> c \in S \cup {"finished"}
  BY <1>2, <1>3, <1>4, <1>7 DEF Good, HoldsIn
<1> QED  BY <1>2, <1>5, <1>6, <1>8 DEF Good, s

(* What a step that defers calls does to the stack.                        *)
LEMMA Deferring ==
  ASSUME NEW calls, NEW S, Good(calls, S), TypeOK, defers' = Deferred(calls),
         NEW D, \A k \in DOMAIN defers : defers[k] \in D,
         D \cap S = {}, "file" \notin D, "flush" \notin D
  PROVE  /\ defers' \in Seq(DeferredCalls) /\ Distinct(defers') /\ FlushFirst(defers')
         /\ \A c : HoldsIn(defers', c) <=> c \in S \/ HoldsIn(defers, c)
         /\ \A k \in DOMAIN defers' : defers'[k] \in S \cup D
<1>1. /\ calls \in Seq(DeferredCalls) /\ Distinct(calls)
      /\ \A c : HoldsIn(calls, c) <=> c \in S
      /\ \A j, k \in DOMAIN calls : calls[j] = "flush" /\ calls[k] = "file" => k < j
  BY DEF Good
<1>2. defers \in Seq(DeferredCalls) /\ Distinct(defers)
  BY DEF TypeOK, Distinct, DeferredCalls
<1>3. \A c : HoldsIn(defers, c) => c \in D  BY DEF HoldsIn
<1>4. \A c : ~ (HoldsIn(calls, c) /\ HoldsIn(defers, c))  BY <1>1, <1>3
<1>5. /\ defers' \in Seq(DeferredCalls) /\ Distinct(defers')
      /\ \A c : HoldsIn(defers', c) <=> HoldsIn(calls, c) \/ HoldsIn(defers, c)
  BY <1>1, <1>2, <1>4, Pushes
<1>6. FlushFirst(defers')
  <2>1. ~ HoldsIn(defers, "file") /\ ~ HoldsIn(defers, "flush")  BY <1>3
  <2>2. FlushFirst(Deferred(calls))  BY <1>1, <1>2, <2>1, PushesInOrder
  <2> QED  BY <2>2
<1>7. \A c : HoldsIn(defers', c) <=> c \in S \/ HoldsIn(defers, c)  BY <1>1, <1>5
<1>8. ASSUME NEW k \in DOMAIN defers' PROVE defers'[k] \in S \cup D
  <2>1. HoldsIn(defers', defers'[k])  BY DEF HoldsIn
  <2> QED  BY <1>3, <1>7, <2>1
<1> QED  BY <1>5, <1>6, <1>7, <1>8

LEMMA PacketsNat == TypeOK => NPackets \in Nat
<1> SUFFICES ASSUME TypeOK PROVE NPackets \in Nat  OBVIOUS
<1>1. args.count \in Nat  BY ArgSetsAssumption DEF TypeOK, Args
<1> QED  BY <1>1, CountWrapAssumption DEF NPackets

(* What the steps of the control connection do to it, as run sees it.      *)
LEMMA ControlKeeps ==
  ASSUME ControlNext \/ UNCHANGED controlVars
  PROVE  /\ cancelled => cancelled'
         /\ ctlPC # "dial" /\ conn' = "up" => conn = "up"
         /\ Surroundings => ctlPC' = ctlPC
<1> USE DEF controlVars, ctxVars, serverVars, clientVars, wireVars, ServerFrame, Call,
            ReadAnswer, ServerAnswers, WriteMessage
<1>1. Progress => /\ cancelled => cancelled'
                  /\ ctlPC # "dial" /\ conn' = "up" => conn = "up"
  BY DEF Progress, Dial, ReadGreeting, WriteSetUpResponse, ReadServerStart, ReadUptime,
         UndoSetup, WriteRequest, ReadAccept, WriteStart, ReadAck, WriteStop, ReadFails
<1>2. Calls => /\ cancelled => cancelled'
               /\ conn' = "up" => conn = "up"
  BY DEF Calls, CallRequest, CallStart, CallStop, CloseControl
<1>3. Surroundings => /\ cancelled => cancelled'
                      /\ conn' = "up" => conn = "up"
                      /\ ctlPC' = ctlPC
  BY DEF Surroundings, Watchdog, WatchdogCloses, WatchdogEnds, TimePasses, Cancel,
         Server, ServerGreets, ServerStarts, ServerSendsUptime, ServerAccepts,
         ServerAcks, ServerStops, ServerHangsUp
<1> QED  BY <1>1, <1>2, <1>3 DEF ControlNext, Surroundings

-----------------------------------------------------------------------------
LEMMA RunInit == Init => RunInv
<1> SUFFICES ASSUME Init PROVE RunInv  OBVIOUS
<1>1. ControlInv  BY InitInv DEF Init
<1>2. TypeOK
  <2>1. {finished, cutShort, complete, reported, ownCause} = {FALSE}  BY DEF Init
  <2>2. \A S : << >> \in Seq(S)  OBVIOUS
  <2>3. defers \in Seq({"cntrl", "sess", "stdout", "file", "flush", "finished"})
        /\ \A j, k \in DOMAIN defers : defers[j] = defers[k] => j = k
    BY <2>2 DEF Init
  <2>4. args \in ArgSets /\ runPC = "parse" /\ failure = "none" /\ outcome = "none"
        /\ sock = "none" /\ file = "none" /\ watcher = "none" /\ sess = "none"
        /\ buffered = {}
    BY DEF Init
  <2>5. refused \in [Writers -> {"no", "returned", "dropped"}]  BY DEF Init
  <2> QED  BY <2>1, <2>3, <2>4, <2>5 DEF TypeOK
<1>3. StackInv /\ ReleasedInv
  BY DEF Init, ControlInit, StackInv, ReleasedInv, FlushFirst, HoldsIn, Opening, Working
<1>4. CutInv /\ WriteInv  BY DEF Init, CutInv, WriteInv, Told, Opening, Working
<1> QED  BY <1>1, <1>2, <1>3, <1>4 DEF RunInv

-----------------------------------------------------------------------------
(* The steps of the control connection, which leave run where it is.       *)
LEMMA ControlPart ==
  ASSUME RunInv,
         ControlStep(Progress) \/ (Surroundings /\ UNCHANGED runVars)
  PROVE  TypeOK' /\ StackInv' /\ ReleasedInv' /\ CutInv' /\ WriteInv'
<1> USE DEF runVars, flowVars, outputVars, sessionVars
<1>1. UNCHANGED runVars  BY DEF ControlStep
<1>2. ControlNext \/ UNCHANGED controlVars
  BY DEF ControlStep, Surroundings, ControlNext
<1>3. /\ cancelled => cancelled'
      /\ ctlPC # "dial" /\ conn' = "up" => conn = "up"
      /\ Surroundings => ctlPC' = ctlPC
  BY <1>2, ControlKeeps
<1>4. TypeOK'  BY <1>1 DEF RunInv, TypeOK
<1>5. StackInv'  BY <1>1 DEF RunInv, StackInv
<1>6. CutInv'  BY <1>1, <1>3 DEF RunInv, CutInv, NPackets
<1>7. ctlPC = "dial" => conn = "none"  BY DEF RunInv, ControlInv, ReleaseInv
<1>8. runPC = "parse" => ctlPC' = "dial"
  BY <1>3 DEF RunInv, ReleasedInv, ControlStep
<1>9. conn' = "up" => runPC = "open" \/ HoldsIn(defers, "cntrl")
  <2>1. CASE ctlPC # "dial"  BY <1>3, <2>1 DEF RunInv, ReleasedInv
  <2>2. CASE ctlPC = "dial" /\ ControlStep(Progress)  BY <2>2 DEF ControlStep
  <2>3. CASE ctlPC = "dial" /\ Surroundings
    <3>1. conn' # "up"
      BY <1>7, <2>3 DEF Surroundings, Watchdog, WatchdogCloses, WatchdogEnds,
           TimePasses, Cancel, Server, ServerGreets, ServerStarts, ServerSendsUptime,
           ServerAccepts, ServerAcks, ServerAnswers, ServerStops, ServerHangsUp,
           ServerFrame, clientVars
    <3> QED  BY <3>1
  <2> QED  BY <2>1, <2>2, <2>3
<1>10. ReleasedInv'  BY <1>1, <1>8, <1>9 DEF RunInv, ReleasedInv
<1>11. WriteInv'  BY <1>1 DEF RunInv, WriteInv, Told
<1> QED  BY <1>4, <1>5, <1>6, <1>10, <1>11

(* Steps of run on its way to a session that push nothing on the stack.    *)
LEMMA ForwardPart ==
  ASSUME RunInv,
         ParseArgs \/ Request \/ Requested \/ Start \/ Started \/ SessionEnded \/ Stop
  PROVE  TypeOK' /\ StackInv' /\ ReleasedInv' /\ CutInv' /\ WriteInv'
<1> USE DEF runVars, flowVars, outputVars, sessionVars, controlVars
<1>1. /\ UNCHANGED <<args, defers, sock, file, buffered, refused, watcher, finished, sess, cutShort,
                     complete, reported, outcome>>
      /\ UNCHANGED controlVars \/ Calls
  BY DEF ParseArgs, Request, Requested, Start, Started, SessionEnded, Stop, Begin,
         Exchanged, Calls
<1>2. /\ failure' \in Failures \cup {"none", "nil"}
      /\ ownCause' \in BOOLEAN
      /\ <<runPC, runPC'>> \in
           {<<"parse", "unwind">>, <<"parse", "open">>, <<"request", "requested">>,
            <<"requested", "unwind">>, <<"requested", "start">>, <<"start", "started">>,
            <<"started", "unwind">>, <<"started", "output">>, <<"ended", "unwind">>,
            <<"ended", "stop">>, <<"stop", "stopped">>}
  <2>1. failure \in Failures \cup {"none", "nil"} /\ ownCause \in BOOLEAN
        /\ cancelled \in BOOLEAN
    BY DEF RunInv, TypeOK, ControlInv, TypeInv
  <2>2. ParseArgs => <<runPC, runPC'>> \in {<<"parse", "unwind">>, <<"parse", "open">>}
                     /\ failure' \in Failures \cup {"none", "nil"} /\ ownCause' \in BOOLEAN
    BY <2>1 DEF ParseArgs, FailsItself, Return, Failures
  <2> QED
    BY <2>1, <2>2 DEF Request, Requested, Start, Started, SessionEnded, Stop, Begin,
         Exchanged, Return, Failures
<1>3. TypeOK'  BY <1>1, <1>2 DEF RunInv, TypeOK
<1>4. StackInv'  BY <1>1, <1>2 DEF RunInv, StackInv, Opening, Working
<1>5. /\ cancelled => cancelled'
      /\ conn' = "up" => conn = "up" /\ runPC # "open"
  <2>1. UNCHANGED controlVars => (cancelled => cancelled') /\ (conn' = "up" => conn = "up")
    BY DEF clientVars, ctxVars
  <2>2. Calls => (cancelled => cancelled') /\ (conn' = "up" => conn = "up")
    BY DEF Calls, CallRequest, CallStart, CallStop, CloseControl, Call, ctxVars
  <2> QED  BY <1>1, <1>2, <2>1, <2>2
<1>6. ReleasedInv'
  BY <1>1, <1>2, <1>5 DEF RunInv, ReleasedInv, Opening
<1>7. SessionEnded => (runPC' = "stop" => ~ cutShort)
  BY DEF SessionEnded, Return, RunInv, CutInv
<1>8. runPC = "ended" => SessionEnded
  BY DEF ParseArgs, Request, Requested, Start, Started, Stop, Begin, Exchanged
<1>9. CutInv'
  BY <1>1, <1>2, <1>5, <1>7, <1>8 DEF RunInv, CutInv, Opening, Working, NPackets
<1>10. runPC = "ended" /\ runPC' = "unwind" => failure' = "interrupted"
  BY <1>8 DEF SessionEnded, Return
<1>11. WriteInv'  BY <1>1, <1>2, <1>10 DEF RunInv, WriteInv, Told, Opening
<1> QED  BY <1>3, <1>4, <1>6, <1>9, <1>11

(* The steps that open something and defer its release.                    *)
LEMMA OpeningPart ==
  ASSUME RunInv, OpenControl \/ OpenSocket
  PROVE  TypeOK' /\ StackInv' /\ ReleasedInv' /\ CutInv' /\ WriteInv'
<1> USE DEF runVars, flowVars, outputVars, sessionVars, controlVars, clientVars, ctxVars
<1>1. TypeOK /\ StackInv /\ ReleasedInv /\ CutInv /\ WriteInv  BY DEF RunInv
<1>2. ownCause \in BOOLEAN /\ cancelled \in BOOLEAN /\ failure \in Failures \cup {"none", "nil"}
  BY DEF RunInv, TypeOK, ControlInv, TypeInv
<1>3. CASE OpenControl /\ ctlPC = "failed"
  <2>1. /\ runPC = "open" /\ runPC' = "unwind" /\ failure' = "control"
        /\ UNCHANGED <<args, outcome, defers, file, buffered, refused, reported, sock, watcher,
                       finished, sess, cutShort, complete, ownCause, conn, cancelled>>
    BY <1>3 DEF OpenControl, Return
  <2>2. conn # "up"  BY <1>3 DEF RunInv, ControlInv, ReleaseInv
  <2>3. TypeOK'  BY <1>1, <1>3, <2>1 DEF TypeOK, Failures
  <2> QED
    BY <1>1, <1>3, <2>1, <2>2, <2>3
       DEF StackInv, ReleasedInv, CutInv, WriteInv, Told, Opening, Working, NPackets,
           OpenControl
<1>4. CASE OpenControl /\ ctlPC = "idle"
  <2>1. runPC = "open" /\ defers = << >> /\ defers' = Deferred(<<"cntrl">>) /\ runPC' = "socket"
    BY <1>1, <1>4 DEF OpenControl, StackInv
  <2>2. UNCHANGED <<args, failure, outcome, file, buffered, refused, reported, sock, watcher, finished,
                    sess, cutShort, complete, ownCause, conn, cancelled>>
    BY <1>4 DEF OpenControl, Return
  <2>3. Good(<<"cntrl">>, {"cntrl"})  BY OneCall DEF DeferredCalls
  <2>4. /\ defers' \in Seq(DeferredCalls) /\ Distinct(defers') /\ FlushFirst(defers')
        /\ \A c : HoldsIn(defers', c) <=> c \in {"cntrl"} \/ HoldsIn(defers, c)
        /\ \A k \in DOMAIN defers' : defers'[k] \in {"cntrl"} \cup {}
    <3>1. \A k \in DOMAIN defers : defers[k] \in {}  BY <2>1
    <3>2. {} \cap {"cntrl"} = {} /\ "file" \notin {} /\ "flush" \notin {}  OBVIOUS
    <3> QED  BY <1>1, <2>1, <2>3, <3>1, <3>2, Deferring
  <2>5. TypeOK'  BY <1>1, <2>1, <2>2, <2>4 DEF TypeOK, Distinct, DeferredCalls
  <2>6. StackInv'  BY <2>1, <2>4 DEF StackInv, Opening, Working
  <2>7. ReleasedInv'  BY <1>1, <2>1, <2>2, <2>4 DEF ReleasedInv, Opening
  <2>8. CutInv'  BY <1>1, <2>1, <2>2 DEF CutInv, Opening, Working, NPackets
  <2>9. WriteInv'  BY <1>1, <2>1, <2>2 DEF WriteInv, Told, Opening
  <2> QED  BY <2>5, <2>6, <2>7, <2>8, <2>9
<1>5. CASE OpenSocket /\ runPC' = "unwind"
  <2>1. /\ runPC = "socket" /\ failure' = "params" /\ ownCause' = cancelled
        /\ UNCHANGED <<args, outcome, defers, file, buffered, refused, reported, sock, watcher,
                       finished, sess, cutShort, complete, conn, cancelled>>
    BY <1>5 DEF OpenSocket, FailsItself, Return
  <2>2. TypeOK'  BY <1>1, <1>2, <1>5, <2>1 DEF TypeOK, Failures
  <2> QED
    BY <1>1, <1>5, <2>1, <2>2
       DEF StackInv, ReleasedInv, CutInv, WriteInv, Told, Opening, Working, NPackets
<1>6. CASE OpenSocket /\ runPC' = "request"
  <2>1. /\ runPC = "socket" /\ defers' = Deferred(<<"sess">>)
        /\ \A k \in DOMAIN defers : defers[k] \in {"cntrl"}
    BY <1>1, <1>6 DEF OpenSocket, StackInv, FailsItself, Return
  <2>2. /\ sock' \in {sock, "open"}
        /\ UNCHANGED <<args, failure, outcome, file, buffered, refused, reported, watcher, finished,
                       sess, cutShort, complete, ownCause, conn, cancelled>>
    BY <1>6 DEF OpenSocket, FailsItself, Return
  <2>3. Good(<<"sess">>, {"sess"})  BY OneCall DEF DeferredCalls
  <2>4. /\ defers' \in Seq(DeferredCalls) /\ Distinct(defers') /\ FlushFirst(defers')
        /\ \A c : HoldsIn(defers', c) <=> c \in {"sess"} \/ HoldsIn(defers, c)
        /\ \A k \in DOMAIN defers' : defers'[k] \in {"sess"} \cup {"cntrl"}
    BY <1>1, <1>6, <2>1, <2>3, Deferring
  <2>5. TypeOK'  BY <1>1, <1>6, <2>2, <2>4 DEF TypeOK, Distinct, DeferredCalls
  <2>6. StackInv'  BY <1>6, <2>4 DEF StackInv, Opening, Working
  <2>7. ReleasedInv'
    BY <1>1, <1>6, <2>1, <2>2, <2>4 DEF ReleasedInv, Opening
  <2>8. CutInv'
    BY <1>1, <1>6, <2>1, <2>2 DEF CutInv, Opening, Working, NPackets
  <2>9. WriteInv'  BY <1>1, <1>6, <2>1, <2>2 DEF WriteInv, Told, Opening
  <2> QED  BY <2>5, <2>6, <2>7, <2>8, <2>9
<1> QED
  BY <1>3, <1>4, <1>5, <1>6 DEF OpenControl, OpenSocket, FailsItself, Return

(* The session and the goroutine that watches the context.                 *)
LEMMA SessionPart ==
  ASSUME RunInv,
         \/ Watcher \/ SinkRecord \/ (\E cut \in BOOLEAN : SessionReturns(cut)) \/ Stopped
         \/ \E writer \in Writers, cut \in BOOLEAN : SinkFails(writer, cut)
  PROVE  TypeOK' /\ StackInv' /\ ReleasedInv' /\ CutInv' /\ WriteInv'
<1> USE DEF runVars, flowVars, outputVars, sessionVars, controlVars, clientVars, ctxVars
<1>1. TypeOK /\ StackInv /\ ReleasedInv /\ CutInv /\ WriteInv  BY DEF RunInv
<1>2. CASE Watcher
  <2>1. TypeOK'  BY <1>1, <1>2 DEF Watcher, TypeOK
  <2>2. StackInv'  BY <1>1, <1>2 DEF Watcher, StackInv
  <2>3. ReleasedInv'  BY <1>1, <1>2 DEF Watcher, ReleasedInv
  <2>4. CutInv'  BY <1>1, <1>2 DEF Watcher, CutInv, Opening, Working, NPackets
  <2>5. WriteInv'  BY <1>1, <1>2 DEF Watcher, WriteInv, Told
  <2> QED  BY <2>1, <2>2, <2>3, <2>4, <2>5
<1>3. CASE SinkRecord
  <2>1. buffered' \subseteq buffered \cup {"file", "stdout"}
        /\ ("file" \in buffered' => "file" \in buffered \/ file = "open")
        /\ runPC = "run" /\ UNCHANGED <<args, runPC, failure, outcome, defers, file, refused, reported,
               sock, watcher, finished, sess, cutShort, complete, ownCause, conn, cancelled,
               ctlPC>>
    BY <1>3 DEF SinkRecord
  <2>2. TypeOK'  BY <1>1, <2>1 DEF TypeOK, Writers
  <2>3. StackInv'  BY <1>1, <2>1 DEF StackInv
  <2>4. ReleasedInv'
    BY <1>1, <2>1 DEF ReleasedInv, StackInv, Opening, Working
  <2>5. CutInv'  BY <1>1, <2>1 DEF CutInv, NPackets
  <2>6. WriteInv'  BY <1>1, <2>1 DEF WriteInv, Told
  <2> QED  BY <2>2, <2>3, <2>4, <2>5, <2>6
<1>4. ASSUME NEW cut \in BOOLEAN, SessionReturns(cut)
      PROVE  TypeOK' /\ StackInv' /\ ReleasedInv' /\ CutInv' /\ WriteInv'
  <2>1. /\ runPC = "run" /\ runPC' = "ended" /\ cutShort' = cut
        /\ cut => sock = "closed"
        /\ sess' \in {"nil", "error"} /\ (NPackets = 0 => sess' = "error")
        /\ UNCHANGED <<args, failure, outcome, defers, file, buffered, refused, reported,
               sock, watcher, finished, complete, ownCause, conn, cancelled, ctlPC>>
    BY <1>4 DEF SessionReturns
  <2>2. TypeOK'  BY <1>1, <1>4, <2>1 DEF TypeOK
  <2>3. StackInv'  BY <1>1, <2>1 DEF StackInv, Opening, Working
  <2>4. ReleasedInv'  BY <1>1, <2>1 DEF ReleasedInv, Opening
  <2>5. CutInv'  BY <1>1, <2>1 DEF CutInv, Opening, Working, NPackets
  <2>6. WriteInv'  BY <1>1, <2>1 DEF WriteInv, Told, Opening
  <2> QED  BY <2>2, <2>3, <2>4, <2>5, <2>6
<1>5. CASE Stopped
  <2>1. /\ runPC = "stopped" /\ runPC' = "unwind"
        /\ failure' \in {"session", "nil"}
        /\ complete' \in BOOLEAN /\ reported' \in BOOLEAN
        /\ reported' \/ complete' => sess # "error" \/ reported \/ complete
        /\ buffered' \subseteq buffered \cup {"stdout"}
        /\ sess = "error" => failure' = "session"
        /\ UNCHANGED <<args, outcome, defers, file, refused, sock, watcher, finished, sess,
               cutShort, ownCause, conn, cancelled, ctlPC>>
    <3>1. complete \in BOOLEAN /\ reported \in BOOLEAN  BY <1>1 DEF TypeOK
    <3>2. CASE sess = "error"  BY <1>5, <3>1, <3>2 DEF Stopped, Return
    <3>3. CASE sess # "error"
      <4>1. complete' = TRUE /\ reported' \in BOOLEAN /\ failure' = "nil"
        BY <1>5, <3>3 DEF Stopped, Return
      <4>2. buffered' \subseteq buffered \cup {"stdout"}
        BY <1>5, <3>3 DEF Stopped, Return
      <4> QED  BY <1>5, <3>3, <4>1, <4>2 DEF Stopped, Return
    <3> QED  BY <3>2, <3>3
  <2>2. TypeOK'  BY <1>1, <2>1 DEF TypeOK, Failures, Writers
  <2>3. StackInv'  BY <1>1, <2>1 DEF StackInv, Opening, Working
  <2>4. ReleasedInv'  BY <1>1, <2>1 DEF ReleasedInv, StackInv, Opening, Working
  <2>5. NPackets # 0 => NPackets > 0  BY <1>1, PacketsNat
  <2>6. reported' \/ complete' => ~ cutShort' /\ NPackets' > 0
    BY <1>1, <2>1, <2>5 DEF CutInv, NPackets, Working
  <2>7. CutInv'  BY <1>1, <2>1, <2>6 DEF CutInv, Opening, Working
  <2>8. WriteInv'  BY <1>1, <2>1 DEF WriteInv, Told, Opening
  <2> QED  BY <2>2, <2>3, <2>4, <2>7, <2>8
<1>6. ASSUME NEW writer \in Writers, NEW cut \in BOOLEAN, SinkFails(writer, cut)
      PROVE  TypeOK' /\ StackInv' /\ ReleasedInv' /\ CutInv' /\ WriteInv'
  <2>1. /\ runPC = "run" /\ runPC' = "ended" /\ cutShort' = cut /\ sess' = "error"
        /\ cut => sock = "closed"
        /\ buffered' \subseteq buffered \cup {"file", "stdout"}
        /\ "file" \in buffered' => "file" \in buffered \/ file = "open"
        /\ UNCHANGED <<args, failure, outcome, defers, file, reported, sock, watcher,
               finished, complete, ownCause, conn, cancelled, ctlPC>>
    BY <1>6 DEF SinkFails, Writers
  <2>2. refused' \in [Writers -> {"no", "returned", "dropped"}]
        /\ \A w \in Writers : refused'[w] = "no" => refused[w] = "no"
    BY <1>1, <1>6 DEF SinkFails, TypeOK
  <2>3. TypeOK'  BY <1>1, <1>6, <2>1, <2>2 DEF TypeOK, Writers
  <2>4. StackInv'  BY <1>1, <2>1 DEF StackInv, Opening, Working
  <2>5. ReleasedInv'
    BY <1>1, <2>1, <2>2 DEF ReleasedInv, StackInv, Opening, Working, Writers
  <2>6. CutInv'  BY <1>1, <2>1 DEF CutInv, Opening, Working, NPackets
  <2>7. WriteInv'  BY <2>1 DEF WriteInv, Opening
  <2> QED  BY <2>3, <2>4, <2>5, <2>6, <2>7
<1> QED  BY <1>2, <1>3, <1>4, <1>5, <1>6

(* The three ways on from the output: what is deferred for each.           *)
LEMMA OutputPart ==
  ASSUME RunInv, PrepareOutput
  PROVE  TypeOK' /\ StackInv' /\ ReleasedInv' /\ CutInv' /\ WriteInv'
<1> USE DEF runVars, flowVars, outputVars, sessionVars, controlVars, clientVars, ctxVars
<1> DEFINE output == IF args.saves THEN <<"stdout", "file", "flush">> ELSE <<"stdout">>
           O == IF args.saves THEN {"stdout", "file", "flush"} ELSE {"stdout"}
<1>1. /\ TypeOK /\ StackInv /\ ReleasedInv /\ CutInv /\ WriteInv /\ runPC = "output"
      /\ ownCause \in BOOLEAN /\ cancelled \in BOOLEAN /\ file = "none" /\ buffered = {}
      /\ failure \in Failures \cup {"none", "nil"}
      /\ \A k \in DOMAIN defers : defers[k] \in {"cntrl", "sess"}
      /\ ~ reported /\ ~ complete /\ ~ cutShort /\ sock # "closed"
  BY DEF RunInv, PrepareOutput, TypeOK, ControlInv, TypeInv, ReleasedInv, StackInv, CutInv,
         Opening
<1>2. Good(<<"stdout">>, {"stdout"})  BY OneCall DEF DeferredCalls
<1>3. Good(output, O)  BY <1>2, SaveCalls
<1>4. Good(Append(output, "finished"), O \cup {"finished"})
  <2>1. "finished" \notin O  OBVIOUS
  <2> HIDE DEF output, O
  <2> QED  BY <1>3, <2>1, OneMore
(* Whatever is deferred, the parts of the invariant follow.                *)
<1>5. ASSUME NEW calls, NEW S, Good(calls, S), defers' = Deferred(calls),
             S \subseteq {"stdout", "file", "flush", "finished"}, "stdout" \in S,
             \/ runPC' = "unwind" /\ failure' \in Failures /\ ownCause' = cancelled
                  /\ UNCHANGED <<watcher, sess>>
             \/ runPC' = "run" /\ watcher' = "waiting" /\ sess' = "running"
                  /\ UNCHANGED <<failure, ownCause>>,
             file' = "none" \/ (file' = "open" /\ {"file", "flush"} \subseteq S)
      PROVE  TypeOK' /\ StackInv' /\ ReleasedInv' /\ CutInv' /\ WriteInv'
  <2>1. UNCHANGED <<args, outcome, buffered, refused, reported, sock, finished, cutShort,
                    complete, conn, cancelled, ctlPC>>
    BY DEF PrepareOutput
  <2>2. {"cntrl", "sess"} \cap S = {}  BY <1>5
  <2>3. /\ defers' \in Seq(DeferredCalls) /\ Distinct(defers') /\ FlushFirst(defers')
        /\ \A c : HoldsIn(defers', c) <=> c \in S \/ HoldsIn(defers, c)
    BY <1>1, <1>5, <2>2, Deferring
  <2>4. TypeOK'  BY <1>1, <1>5, <2>1, <2>3 DEF TypeOK, Distinct, DeferredCalls
  <2>5. StackInv'  BY <1>1, <1>5, <2>1, <2>3 DEF StackInv, Opening, Working
  <2>6. ReleasedInv'  BY <1>1, <1>5, <2>1, <2>3 DEF ReleasedInv, Opening
  <2>7. CutInv'  BY <1>1, <1>5, <2>1 DEF CutInv, Opening, Working, NPackets
  <2>8. WriteInv'  BY <1>1, <1>5, <2>1 DEF WriteInv, Told, Opening
  <2> QED  BY <2>4, <2>5, <2>6, <2>7, <2>8
<1>6. CASE /\ defers' = Deferred(<<"stdout">>) /\ FailsItself("create")
           /\ UNCHANGED <<file, watcher, sess>>
  <2>1. runPC' = "unwind" /\ failure' \in Failures /\ ownCause' = cancelled
    BY <1>6 DEF FailsItself, Return, Failures
  <2> QED  BY <1>1, <1>2, <1>5, <1>6, <2>1
<1>7. CASE /\ defers' = Deferred(output) /\ FailsItself("stats")
           /\ file' = (IF args.saves THEN "open" ELSE "none")
           /\ UNCHANGED <<watcher, sess>>
  <2>1. runPC' = "unwind" /\ failure' \in Failures /\ ownCause' = cancelled
    BY <1>7 DEF FailsItself, Return, Failures
  <2>2. O \subseteq {"stdout", "file", "flush", "finished"} /\ "stdout" \in O
        /\ (file' = "none" \/ (file' = "open" /\ {"file", "flush"} \subseteq O))
    BY <1>7
  <2> HIDE DEF output, O
  <2> QED  BY <1>3, <1>5, <1>7, <2>1, <2>2
<1>8. CASE /\ defers' = Deferred(Append(output, "finished"))
           /\ file' = (IF args.saves THEN "open" ELSE "none")
           /\ watcher' = "waiting" /\ sess' = "running" /\ runPC' = "run"
           /\ UNCHANGED <<failure, ownCause>>
  <2> DEFINE F == O \cup {"finished"}
  <2>1. F \subseteq {"stdout", "file", "flush", "finished"} /\ "stdout" \in F
        /\ (file' = "none" \/ (file' = "open" /\ {"file", "flush"} \subseteq F))
    BY <1>8
  <2>2. Good(Append(output, "finished"), F)  BY <1>4
  <2> HIDE DEF output, F
  <2> QED  BY <1>5, <1>8, <2>1, <2>2
<1> QED  BY <1>6, <1>7, <1>8 DEF PrepareOutput

(* The deferred calls, and the end.                                        *)
LEMMA UnwindPart ==
  ASSUME RunInv, Unwind \/ RunLangReturns \/ Over
  PROVE  TypeOK' /\ StackInv' /\ ReleasedInv' /\ CutInv' /\ WriteInv'
<1> USE DEF runVars, flowVars, outputVars, sessionVars, controlVars, clientVars, ctxVars
<1>1. TypeOK /\ StackInv /\ ReleasedInv /\ CutInv /\ WriteInv  BY DEF RunInv
<1>2. CASE Unwind
  <2> DEFINE h == Head(defers)
  <2>1. defers \in Seq(DeferredCalls) /\ defers # << >> /\ Distinct(defers)
        /\ FlushFirst(defers) /\ defers' = Tail(defers)
    BY <1>1, <1>2 DEF Unwind, TypeOK, Distinct, DeferredCalls, StackInv
  <2>2. /\ defers' \in Seq(DeferredCalls) /\ Distinct(defers') /\ FlushFirst(defers')
        /\ \A c : HoldsIn(defers', c) <=> HoldsIn(defers, c) /\ c # h
        /\ h \in DeferredCalls
        /\ h = "file" => ~ HoldsIn(defers, "flush")
    BY <2>1, Pops
  <2>3. /\ runPC = "unwind" /\ UNCHANGED <<args, runPC, failure, outcome, watcher, sess,
             cutShort, complete, reported, ownCause>>
        /\ IF h = "cntrl" THEN CloseControl ELSE UNCHANGED controlVars
        /\ finished' \in BOOLEAN
        /\ sock' = IF h = "sess" THEN "closed" ELSE sock
        /\ file' = IF h = "file" THEN "closed" ELSE file
        /\ \/ h = "stdout" /\ Flush("stdout")
           \/ h = "flush" /\ Flush("file")
           \/ h \notin {"stdout", "flush"} /\ UNCHANGED <<buffered, refused>>
    <3>1. finished \in BOOLEAN  BY <1>1 DEF TypeOK
    <3> QED  BY <1>2, <3>1 DEF Unwind, Perform
  <2>9. /\ buffered' \subseteq buffered
        /\ refused' \in [Writers -> {"no", "returned", "dropped"}]
        /\ \A w \in Writers : /\ refused'[w] = "no" => refused[w] = "no"
                              /\ refused'[w] = "returned" => refused[w] = "returned"
        /\ h = "stdout" => "stdout" \notin buffered' \/ refused'["stdout"] # "no"
        /\ h = "flush" /\ file = "open" =>
             "file" \notin buffered' \/ refused'["file"] # "no"
    BY <1>1, <2>3 DEF TypeOK, Flush, Accepts, Writers
  <2> HIDE DEF h
  <2>4. /\ conn' = "up" => conn = "up" /\ h # "cntrl"
    BY <2>3 DEF CloseControl
  <2>5. TypeOK'  BY <1>1, <2>2, <2>3, <2>9 DEF TypeOK, Distinct, DeferredCalls
  <2>6. StackInv'  BY <1>1, <2>2, <2>3 DEF StackInv, Opening, Working
  <2>7. ReleasedInv'
    <3>1. conn' = "up" => HoldsIn(defers', "cntrl")
      BY <1>1, <2>2, <2>3, <2>4 DEF ReleasedInv
    <3>2. (sock' = "open" => HoldsIn(defers', "sess"))
          /\ (file' = "open" => HoldsIn(defers', "file"))
      BY <1>1, <2>2, <2>3 DEF ReleasedInv
    <3>3. "stdout" \in buffered' /\ refused'["stdout"] = "no" => HoldsIn(defers', "stdout")
      BY <1>1, <2>2, <2>9 DEF ReleasedInv, Writers
    <3>4. "file" \in buffered' /\ refused'["file"] = "no" =>
            file' = "open" /\ HoldsIn(defers', "flush")
      BY <1>1, <2>2, <2>3, <2>9 DEF ReleasedInv, Writers
    <3> QED  BY <2>3, <3>1, <3>2, <3>3, <3>4 DEF ReleasedInv, Opening
  <2>8. CutInv'  BY <1>1, <2>3 DEF CutInv, Opening, Working, NPackets
  <2>10. WriteInv'  BY <1>1, <2>3, <2>9 DEF WriteInv, Told, Opening
  <2> QED  BY <2>5, <2>6, <2>7, <2>8, <2>10
<1>3. CASE RunLangReturns
  <2>1. /\ runPC = "unwind" /\ runPC' = "returned" /\ defers = << >>
        /\ outcome' \in {"interrupted", failure}
        /\ UNCHANGED <<args, failure, defers, file, buffered, refused, reported, sock,
                       watcher, finished, sess, cutShort, complete, ownCause, conn, cancelled>>
    BY <1>3 DEF RunLangReturns
  <2>2. TypeOK'  BY <1>1, <2>1 DEF TypeOK, Failures
  <2>3. StackInv'  BY <1>1, <2>1 DEF StackInv, Opening, Working
  <2>4. ReleasedInv'  BY <1>1, <2>1 DEF ReleasedInv, Opening
  <2>5. CutInv'  BY <1>1, <2>1 DEF CutInv, Opening, Working, NPackets
  <2>6. WriteInv'  BY <1>1, <2>1 DEF WriteInv, Told, Opening
  <2> QED  BY <2>2, <2>3, <2>4, <2>5, <2>6
<1>4. CASE UNCHANGED vars
  BY <1>1, <1>4 DEF vars, TypeOK, StackInv, ReleasedInv, CutInv, WriteInv, Told, NPackets
<1> QED  BY <1>2, <1>3, <1>4 DEF Over

LEMMA RunStep == RunInv /\ [Next]_vars => RunInv'
<1> SUFFICES ASSUME RunInv, [Next]_vars PROVE RunInv'  OBVIOUS
<1>1. ControlInv'  BY StepsOfControl, StepInv DEF RunInv
<1>2. CASE UNCHANGED vars
  <2>1. TypeOK'  BY <1>2 DEF RunInv, vars, runVars, flowVars, outputVars, sessionVars, TypeOK
  <2>2. StackInv' /\ ReleasedInv' /\ CutInv' /\ WriteInv'
    BY <1>2 DEF RunInv, vars, runVars, flowVars, outputVars, sessionVars, controlVars,
                clientVars, ctxVars, StackInv, ReleasedInv, CutInv, WriteInv, Told, NPackets
  <2> QED  BY <1>1, <2>1, <2>2 DEF RunInv
<1>3. CASE Main
  BY <1>1, <1>3, ForwardPart, OpeningPart, OutputPart, SessionPart, UnwindPart
     DEF Main, RunInv
<1>4. CASE \/ Watcher \/ SinkRecord \/ \E cut \in BOOLEAN : SessionReturns(cut)
           \/ \E writer \in Writers, cut \in BOOLEAN : SinkFails(writer, cut)
  BY <1>1, <1>4, SessionPart DEF RunInv
<1>5. CASE ControlStep(Progress) \/ (Surroundings /\ UNCHANGED runVars)
  BY <1>1, <1>5, ControlPart DEF RunInv
<1>6. CASE Over  BY <1>1, <1>6, UnwindPart DEF RunInv
<1> QED  BY <1>2, <1>3, <1>4, <1>5, <1>6 DEF Next

-----------------------------------------------------------------------------
(* The inductive invariant of a measurement: its stack of deferred calls   *)
(* covers all it holds, and the context tells of every session cut short   *)
(* (twping.go:185-560).                                                    *)
THEOREM RunInvariant == Spec => []RunInv
BY RunInit, RunStep, PTL DEF Spec

(* The values of run's variables, for all arguments; no call is deferred   *)
(* twice (twping.go:185-560).                                              *)
THEOREM RunTypeOK == Spec => []TypeOK
<1>1. RunInv => TypeOK  BY DEF RunInv
<1> QED  BY <1>1, RunInvariant, PTL

(* However a run ends, it leaves no connection, socket or file open        *)
(* (twping.go:291, 366, 434).                                              *)
THEOREM RunReleasesAll == Spec => []AllReleased
<1>1. RunInv => AllReleased
  BY DEF RunInv, StackInv, ReleasedInv, HoldsIn, AllReleased
<1> QED  BY <1>1, RunInvariant, PTL

(* However a run ends, every buffer has been flushed, the save file before *)
(* it is closed: what stays in one is what the operating system refused to *)
(* write, and a refusal that the session met is not passed off as success  *)
(* (twping.go:426, 434-440, 520-525).                                      *)
THEOREM RunWritesRecords == Spec => []SavedRecordsWritten
<1>1. RunInv => SavedRecordsWritten
  <2> SUFFICES ASSUME RunInv, runPC = "returned"
               PROVE  /\ \A w \in buffered : refused[w] # "no"
                      /\ (\E w \in Writers : refused[w] = "returned") => outcome # "nil"
    BY DEF SavedRecordsWritten
  <2>1. defers = << >> /\ buffered \subseteq {"file", "stdout"}
    BY DEF RunInv, TypeOK, StackInv, Writers
  <2>2. \A c : ~ HoldsIn(defers, c)  BY <2>1 DEF HoldsIn
  <2> QED  BY <2>1, <2>2 DEF RunInv, ReleasedInv, WriteInv, Told
<1> QED  BY <1>1, RunInvariant, PTL

(* No summary of a session that was cut short or sent no packet, for every *)
(* number of packets asked for (twping.go:378, 505-522).                   *)
THEOREM RunReportsWholeSessions == Spec => []NoReportOfCutSession
<1>1. RunInv => NoReportOfCutSession  BY DEF RunInv, CutInv, NoReportOfCutSession
<1> QED  BY <1>1, RunInvariant, PTL
================================================================================
