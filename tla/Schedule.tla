------------------------------- MODULE Schedule -------------------------------
(***************************************************************************)
(* owamp/schedule.go: the intervals between the packets of a session.      *)
(* Uniform values come four at a time from AES in counter mode; Knuth's    *)
(* algorithm 3.4.1.S makes exponential deviates of them, one step of the   *)
(* model for each value drawn; the slots take turns.                       *)
(*                                                                         *)
(* What AES makes of a counter is any number: the model knows a block by   *)
(* the counter that was encrypted.                                         *)
(***************************************************************************)
EXTENDS Num64, Sequences

CONSTANTS
  Bits,               \* 32
  ExpQ,               \* expQ, without its element 0
  CounterWrap,        \* 2^128
  Slots

Ln2 == ExpQ[1]

ASSUME BitsAssumption == Bits \in Nat \ {0} /\ Digit = Pow2[Bits] /\ Bits < Digit
ASSUME ExpQAssumption ==
  /\ ExpQ \in Seq(0 .. Digit - 1) /\ Len(ExpQ) > 1 /\ Ln2 > 0
  /\ ExpQ[Len(ExpQ)] = Digit - 1
ASSUME CounterAssumption == CounterWrap \in Nat \ {0} /\ CounterWrap % 4 = 0
ASSUME SlotsAssumption ==
  Slots \in Seq([type : {"exp", "literal"}, mean : Num64s]) /\ Slots # << >>

(* A mean up to six years: the longest interval still fits the 64 bits.    *)
ASSUME MeanAssumption ==
  \A k \in DOMAIN Slots : (Bits + 1) * Ln2 * Slots[k].mean < Word * Digit

VARIABLES
  slot,               \* which slot is next, from 0
  counter,
  block,              \* the counter whose encryption out holds
  schedPC,
  j, u,               \* leading ones of the first value, and its rest
  v, left,            \* least of the other values so far; values to draw
  delta               \* the interval NextDelta has made

randVars  == <<counter, block>>
schedVars == <<slot, randVars, schedPC, j, u, v, left, delta>>

Uniforms == 0 .. Digit - 1

ScheduleInit ==
  /\ slot = 0
  /\ counter = 0 /\ block = -1
  /\ schedPC = "idle"
  /\ j = 0 /\ u = 0 /\ v = Digit /\ left = 0
  /\ delta = 0

-----------------------------------------------------------------------------
(* uniform: a new block for every fourth value.                            *)
Uniform ==
  /\ block' = IF counter % 4 = 0 THEN counter ELSE block
  /\ counter' = (counter + 1) % CounterWrap

(* Exactly n leading ones.                                                 *)
Leading(x, n) ==
  /\ x >= Digit - Pow2[Bits - n]
  /\ n < Bits => x < Digit - Pow2[Bits - n - 1]

(* Mutant of Rest: the upper half of the word is not cleared.              *)
RestUnmasked(x, n) == x * Pow2[n + 1]

(* What follows the ones and the zero after them.                          *)
Rest(x, n) == (x * Pow2[n + 1]) % Digit

(* The first k >= 2 with w < expQ[k], or the length of the table.          *)
Level(w, k) ==
  /\ k <= Len(ExpQ) => w < ExpQ[k]
  /\ \A i \in 2 .. k - 1 : w >= ExpQ[i]

Slot == Slots[slot + 1]

(* NextDelta is called.                                                    *)
Ask ==
  /\ schedPC' = "next"
  /\ j' = 0 /\ u' = 0 /\ v' = Digit /\ left' = 0

(* NextDelta returns d.                                                    *)
Deliver(d) ==
  /\ delta' = d
  /\ schedPC' = "ready"
  /\ slot' = (slot + 1) % Len(Slots)

Literal ==
  /\ schedPC = "next"
  /\ Slot.type = "literal"
  /\ Deliver(Slot.mean)
  /\ UNCHANGED <<randVars, j, u, v, left>>

(* S1, S2 and the search of S3.                                            *)
DrawFirst(x) ==
  /\ schedPC = "next"
  /\ Slot.type = "exp"
  /\ Uniform
  /\ \E n \in 0 .. Bits : Leading(x, n) /\ j' = n /\ u' = Rest(x, n)
  /\ IF u' < Ln2
       THEN /\ Deliver(Mul(U64(Mul(FromUint32(j'), Ln2) + u'), Slot.mean))
            /\ UNCHANGED left
       ELSE /\ \E k \in 2 .. Len(ExpQ) + 1 : Level(u', k) /\ left' = k
            /\ schedPC' = "draw"
            /\ UNCHANGED <<slot, delta>>
  /\ UNCHANGED v

(* The least of k values; with the last one, S4.                           *)
DrawMore(x) ==
  /\ schedPC = "draw"
  /\ Uniform
  /\ v' = IF x < v THEN x ELSE v
  /\ left' = left - 1
  /\ IF left' = 0
       THEN Deliver(Mul(Mul(U64(FromUint32(j) + v'), Ln2), Slot.mean))
       ELSE UNCHANGED <<slot, schedPC, delta>>
  /\ UNCHANGED <<j, u>>

NextDelta == Literal \/ \E x \in Uniforms : DrawFirst(x) \/ DrawMore(x)

-----------------------------------------------------------------------------
(* The types; the search of S3 never leaves the table, though its last     *)
(* entry is below 1; and each block of AES gives its four values in turn   *)
(* before the next one is made, the counter starting at zero               *)
(* (docs/PROTOCOL.md:218-220).                                             *)
ScheduleTypeOK ==
  /\ slot \in 0 .. Len(Slots) - 1
  /\ counter \in 0 .. CounterWrap - 1 /\ block \in -1 .. CounterWrap - 1
  /\ schedPC \in {"idle", "next", "draw", "ready"}
  /\ j \in 0 .. Bits /\ u \in Uniforms
  /\ v \in 0 .. Digit /\ left \in 0 .. Len(ExpQ)
  /\ schedPC = "draw" <=> left > 0
  /\ delta \in Num64s
  /\ block # -1 => LET read == (counter - 1) % CounterWrap IN block = read - (read % 4)

(* The deviate of which the last interval was made, in units of 2^-64.     *)
Deviate == j * Ln2 * Digit + (IF u < Ln2 THEN u * Digit ELSE v * Ln2)

LastSlot == Slots[((slot - 1) % Len(Slots)) + 1]

(* An exponential interval is the deviate of algorithm S times the mean    *)
(* but for two truncations: no carry is lost, nothing overflows below the  *)
(* largest mean there may be; and it is never more than 33 ln 2 times the  *)
(* mean (schedule.go:89-124, num64.go:63-84).                              *)
IntervalExact ==
  schedPC = "ready" /\ LastSlot.type = "exp" =>
    LET exact == Deviate * LastSlot.mean
    IN  /\ delta * Word <= exact
        /\ exact < (delta + 1) * Word + LastSlot.mean * Digit
        /\ delta * Digit <= (Bits + 1) * Ln2 * LastSlot.mean
=============================================================================
