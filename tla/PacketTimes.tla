----------------------------- MODULE PacketTimes -----------------------------
(***************************************************************************)
(* The times of a session: run chooses the start, Session.Run adds up the  *)
(* intervals of the schedule, and a packet gets its four time stamps, two  *)
(* of them from the reflector, through the octets of the packet and of     *)
(* its reply.  Moments are nanoseconds since 1970.                         *)
(***************************************************************************)
EXTENDS Schedule, Timestamp

CONSTANTS
  NPackets,
  Starts,             \* the moment run chooses the start, Control.RTTBound, -z
  Lags,               \* nanoseconds a packet is sent late
  Trips,              \* nanoseconds out, at the reflector and back
  Hosts               \* the two clocks; nanoseconds the reflector's is ahead

ASSUME PacketsAssumption == NPackets \in Nat \ {0}
ASSUME StartsAssumption ==
  Starts \subseteq [at : Nat, rtt : Num64s, num : Nat, den : Nat \ {0}]
ASSUME TripsAssumption ==
  Lags \subseteq Nat /\ Trips \subseteq [out : Nat, proc : Nat, back : Nat]
Clocks == [sync : BOOLEAN, errUsec : 0 .. Digit - 1]
ASSUME HostsAssumption == Hosts \subseteq [mine : Clocks, theirs : Clocks, ahead : Nat]

(* The times of the session, "nanos" after the choice and the start, and   *)
(* with no interval above "longest", stay before the seconds since 1900    *)
(* pass their digit, in 2036.                                              *)
InEra(s, nanos, longest) ==
  ((s.at + nanos) \div Nano + JAN1970 + s.num \div s.den + 2) * Digit
    + 2 * s.rtt + NPackets * longest < Word

Fits(longest) ==
  /\ \A k \in DOMAIN Slots :
       /\ Slots[k].mean <= longest
       /\ (Bits + 1) * Ln2 * Slots[k].mean <= longest * Digit
  /\ \A s \in Starts :
       /\ InEra(s, 0, longest)
       /\ \A lag \in Lags, trip \in Trips, h \in Hosts :
            InEra(s, lag + trip.out + trip.proc + trip.back + h.ahead, longest)

ASSUME EraAssumption == \E longest \in Num64s : Fits(longest)

VARIABLES
  chosen,             \* the moment of the choice, and what was asked for
  startTime,
  count, cum, when,   \* packets scheduled; the sum; when the last is due
  sum,                \* the sum, had it no bounds
  record,             \* the record of a packet, and the truth about it
  timesPC

planVars == <<chosen, startTime, count, cum, when, sum>>
vars == <<schedVars, planVars, record, timesPC>>

NoRecord == [none |-> TRUE]

Init ==
  /\ ScheduleInit
  /\ chosen \in Starts
  /\ startTime = 0
  /\ count = 0 /\ cum = 0 /\ when = 0 /\ sum = 0
  /\ record = NoRecord
  /\ timesPC = "start"

(* One second and two round trips ahead, or what -z says if that is more.  *)
StartDelay ==
  LET least == U64(FromUint32(1) + Mul(chosen.rtt, FromUint32(2)))
      asked == FromFloat(chosen.num, chosen.den)
  IN  IF asked > least THEN asked ELSE least

ChooseStart ==
  /\ timesPC = "start"
  /\ startTime' = U64(FromTime(chosen.at) + StartDelay)
  /\ when' = AbsTime(startTime')
  /\ timesPC' = "plan"
  /\ Ask
  /\ UNCHANGED <<slot, randVars, delta, chosen, count, cum, sum, record>>

Interval ==
  /\ timesPC = "plan"
  /\ NextDelta
  /\ UNCHANGED <<planVars, record, timesPC>>

(* Mutant of AddPacket: every interval is rounded by itself.               *)
AddPacketRounded ==
  /\ timesPC = "plan" /\ schedPC = "ready"
  /\ cum' = U64(cum + delta)
  /\ sum' = sum + delta
  /\ when' = when + Duration(delta)
  /\ count' = count + 1
  /\ IF count' < NPackets
       THEN Ask /\ UNCHANGED timesPC
       ELSE timesPC' = "planned" /\ schedPC' = "idle" /\ UNCHANGED <<j, u, v, left>>
  /\ UNCHANGED <<slot, randVars, delta, chosen, startTime, record>>

(* The loop of Run that fills pkts.                                        *)
AddPacket ==
  /\ timesPC = "plan" /\ schedPC = "ready"
  /\ cum' = U64(cum + delta)
  /\ sum' = sum + delta
  /\ when' = AbsTime(startTime) + Duration(cum')
  /\ count' = count + 1
  /\ IF count' < NPackets
       THEN Ask /\ UNCHANGED timesPC
       ELSE timesPC' = "planned" /\ schedPC' = "idle" /\ UNCHANGED <<j, u, v, left>>
  /\ UNCHANGED <<slot, randVars, delta, chosen, startTime, record>>

(* The last packet is sent and answered.  Its own stamp comes back in the  *)
(* reply as it was written into the packet; the reflector gives one error  *)
(* estimate for its two stamps.                                            *)
Exchange(lag, trip, h) ==
  /\ timesPC = "planned"
  /\ timesPC' = "done"
  /\ LET sent     == when + lag
         arrived  == sent + trip.out
         returned == arrived + trip.proc
         mine     == StampAt(h.mine, sent)
         theirIn  == StampAt(h.theirs, arrived + h.ahead)
         theirOut == StampAt(h.theirs, returned + h.ahead)
     IN  record' = [send |-> Decode(mine.time, EncodeErr(mine)),
                    recv |-> Decode(theirIn.time, EncodeErr(theirOut)),
                    reflected |-> Decode(theirOut.time, EncodeErr(theirOut)),
                    back |-> StampAt(h.mine, returned + trip.back),
                    trip |-> trip, hosts |-> h]
  /\ UNCHANGED <<schedVars, planVars>>

Done == timesPC = "done" /\ UNCHANGED vars

Next == \/ ChooseStart \/ Interval \/ AddPacket
        \/ \E lag \in Lags, trip \in Trips, h \in Hosts : Exchange(lag, trip, h)
        \/ Done

Spec == Init /\ [][Next]_vars

-----------------------------------------------------------------------------
(* The types of the times.                                                 *)
TimesTypeOK ==
  /\ ScheduleTypeOK
  /\ timesPC \in {"start", "plan", "planned", "done"}
  /\ startTime \in Num64s /\ cum \in Num64s
  /\ count \in 0 .. NPackets

(* The schedule starts no earlier than the second, the round trips or the  *)
(* -z seconds asked for, and every packet is due where the sum of the      *)
(* intervals puts it, to the nanosecond: roundings do not add up, and so   *)
(* no packet is due before the one ahead of it (session.go:217-226,        *)
(* twping.go:371-375).  This is the schedule TestSession assumes.          *)
ScheduleKept ==
  timesPC # "start" =>
    LET start == AbsTime(startTime)
        ahead == (start - chosen.at + 2) * Digit
    IN  /\ ahead >= Digit * Nano
        /\ ahead >= 2 * chosen.rtt * Nano
        /\ ahead * chosen.den >= chosen.num * Digit * Nano
        /\ (when - start) * Digit <= sum * Nano
        /\ sum * Nano < (when - start + 1) * Digit

(* An estimate of "errUsec" that has come through the octets: not below    *)
(* it, and above it by less than a unit of the multiplier, which is a      *)
(* fine one.                                                               *)
Estimates(ts, clock) ==
  LET exact == clock.errUsec * Digit
  IN  IF clock.errUsec = 0 THEN ~ ts.sync
      ELSE /\ ts.sync = clock.sync
           /\ ErrEstimate(ts) * Micro >= exact
           /\ ErrEstimate(ts) * Micro <= exact + Pow2[ts.scale] * Micro
           /\ ts.scale > 0 => 2 * ts.mult >= MultMod - 1

(* The stamps of a record tell the delays as they were, to one unit of     *)
(* 2^-32 s for each two stamps, whatever the clocks differ by; and an      *)
(* error estimate is never smaller than the error it stands for            *)
(* (timestamp.go:37-86, docs/PROTOCOL.md:196-208).                         *)
StampsFaithful ==
  timesPC = "done" =>
    LET Near(d, nanos) == d * Nano - nanos * Digit \in 1 - Nano .. Nano - 1
        r == record
        h == r.hosts
    IN  /\ Near(Delay(r.send, r.back), r.trip.out + r.trip.proc + r.trip.back)
        /\ Near(Delay(r.recv, r.reflected), r.trip.proc)
        /\ Near(Delay(r.send, r.recv), r.trip.out + h.ahead)
        /\ Near(Delay(r.reflected, r.back), r.trip.back - h.ahead)
        /\ Estimates(r.send, h.mine) /\ Estimates(r.back, h.mine)
        /\ Estimates(r.recv, h.theirs) /\ Estimates(r.reflected, h.theirs)
=============================================================================
