-------------------------------- MODULE Num64 --------------------------------
(***************************************************************************)
(* owamp/num64.go: time in fixed point, seconds in the upper half of a     *)
(* uint64 and their fraction in the lower one.  The width is a parameter;  *)
(* every operation that can pass 64 bits is cut as Go cuts it.             *)
(***************************************************************************)
EXTENDS Integers

CONSTANTS
  Digit,              \* 2^32
  Nano,               \* nanoseconds in a second
  Micro,              \* microseconds in a second
  JAN1970             \* seconds from the epoch of NTP to that of UNIX

ASSUME DigitAssumption == Digit \in Nat \ {0, 1}
ASSUME UnitsAssumption ==
  Nano \in Nat \ {0} /\ 2 * Nano <= Digit /\ Micro \in 2 .. Digit
ASSUME EpochAssumption == JAN1970 \in 0 .. Digit - 1

Word == Digit * Digit
Num64s == 0 .. Word - 1

(* A one shifted left by n.                                                *)
Pow2[n \in Nat] == IF n = 0 THEN 1 ELSE 2 * Pow2[n - 1]

U64(n)  == n % Word
Sec(n)  == n \div Digit
Frac(n) == n % Digit

FromUint32(v) == U64(v * Digit)

(* Num64FromFloat of a / b seconds.                                        *)
FromFloat(a, b) == U64((a \div b) * Digit) + ((a % b) * Digit) \div b

(* In nanoseconds; the seconds of a Num64 never pass an int64.             *)
Duration(n) == Sec(n) * Nano + U64(Frac(n) * Nano) \div Digit

FromDuration(d) ==
  IF d < 0 THEN 0
  ELSE U64((d \div Nano) * Digit) + U64((d % Nano) * Digit) \div Nano

FromUsec(u) ==
  U64((u \div Micro) * Digit) + U64((u % Micro) * Digit) \div Micro

(* One step of Knuth's algorithm 4.3.1.M: a carry, a product and a digit.  *)
MulStep(carry, a, b, w) == U64(carry + a * b + w)

(* Mutant of Mul: the last carry is not added.                             *)
MulNoCarry(x, y) ==
  LET t00 == MulStep(0, Frac(x), Frac(y), 0)
      t10 == MulStep(Sec(t00), Sec(x), Frac(y), 0)
      t01 == MulStep(0, Frac(x), Sec(y), Frac(t10))
      t11 == MulStep(0, Sec(x), Sec(y), Sec(t10))
  IN  U64(Frac(t11) * Digit) + Frac(t01)

(* The two middle digits of the product of x and y.                        *)
Mul(x, y) ==
  LET t00 == MulStep(0, Frac(x), Frac(y), 0)
      t10 == MulStep(Sec(t00), Sec(x), Frac(y), 0)
      t01 == MulStep(0, Frac(x), Sec(y), Frac(t10))
      t11 == MulStep(Sec(t01), Sec(x), Sec(y), Sec(t10))
  IN  U64(Frac(t11) * Digit) + Frac(t01)

(* Moments are nanoseconds since 1970.                                     *)
AbsTime(n) == (Sec(n) - JAN1970) * Nano + U64(Frac(n) * Nano) \div Digit

FromTime(t) ==
  U64((t \div Nano + JAN1970) * Digit) + U64((t % Nano) * Digit) \div Nano
=============================================================================
