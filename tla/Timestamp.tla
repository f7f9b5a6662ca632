------------------------------ MODULE Timestamp ------------------------------
(***************************************************************************)
(* owamp/timestamp.go: a moment with an estimate of its error, Multiplier  *)
(* shifted left by Scale, in units of 2^-32 s; and the two octets that     *)
(* carry the estimate.                                                     *)
(***************************************************************************)
EXTENDS Num64

CONSTANTS
  ScaleMod,           \* 2^6: the scale has 6 bits
  MultMod             \* 2^8: the multiplier is an octet

ASSUME FieldsAssumption ==      \* every number of 64 bits has an estimate
  /\ ScaleMod \in Nat \ {0} /\ MultMod \in Nat \ {0, 1, 2}
  /\ Word <= Pow2[ScaleMod] * (MultMod - 1)

SyncBit == 2 * ScaleMod

(* The smallest number of shifts that brings e below 0xFF.                 *)
Shifts(e) ==
  CHOOSE s \in 0 .. ScaleMod :
    /\ e \div Pow2[s] < MultMod - 1
    /\ s > 0 => e \div Pow2[s - 1] >= MultMod - 1

(* Mutant of Multiplier: what was shifted out is forgotten.                *)
MultiplierDown(e) == (e \div Pow2[Shifts(e)]) % MultMod

(* One is added for what was shifted out.                                  *)
Multiplier(e) == (e \div Pow2[Shifts(e)] + 1) % MultMod

(* SetErrEstimate: an error of 0 is a clock that is not synchronised.      *)
StampAt(clock, wall) ==
  IF clock.errUsec = 0
    THEN [time |-> FromTime(wall), sync |-> FALSE, scale |-> 0, mult |-> 1]
    ELSE LET e == FromUsec(clock.errUsec)
         IN  [time |-> FromTime(wall), sync |-> clock.sync,
              scale |-> Shifts(e), mult |-> Multiplier(e)]

(* EncodeErrEstimate; senders put 0x3F, 0xFF where it refuses.             *)
EncodeErr(ts) ==
  IF ts.mult = 0 THEN <<ScaleMod - 1, MultMod - 1>>
  ELSE <<(ts.scale % ScaleMod) + (IF ts.sync THEN SyncBit ELSE 0), ts.mult>>

(* DecodeTimestamp.                                                        *)
Decode(time, octets) ==
  LET high == IF octets[2] = 0 THEN 0 ELSE octets[1]
  IN  [time |-> time, sync |-> high \div SyncBit = 1,
       scale |-> high % ScaleMod, mult |-> octets[2]]

ErrEstimate(ts) == U64(ts.mult * Pow2[ts.scale])

(* Delay, in units of 2^-32 s.                                             *)
Delay(from, to) ==
  IF to.time >= from.time THEN to.time - from.time ELSE - (from.time - to.time)
=============================================================================
