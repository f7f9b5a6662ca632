-------------------------- MODULE PacketTimesProofs --------------------------
(***************************************************************************)
(* The times of a session, for every width of a digit, table, list of      *)
(* slots, counter, clock and path: the product of Num64 is exact but for   *)
(* what it must cut off; an estimate is never below the error it stands    *)
(* for; the intervals of the schedule are exact but for two truncations,   *)
(* and do not add up their roundings; the stamps tell the delays.          *)
(***************************************************************************)
EXTENDS PacketTimes, MathProofs

-----------------------------------------------------------------------------
LEMMA Pow2Exists == \E f : f = [n \in Nat |-> IF n = 0 THEN 1 ELSE 2 * f[n - 1]]
<1> DEFINE Good(g, n) == \A m \in 0 .. n : g[m] = IF m = 0 THEN 1 ELSE 2 * g[m - 1]
           P == {n \in Nat : \E g \in [Nat -> Nat] : Good(g, n)}
<1>1. 0 \in P
  <2> DEFINE g == [n \in Nat |-> 1]
  <2>1. g \in [Nat -> Nat] /\ Good(g, 0)  OBVIOUS
  <2> QED  BY <2>1
<1>2. ASSUME NEW n \in P PROVE n + 1 \in P
  <2>1. PICK g \in [Nat -> Nat] : Good(g, n)  OBVIOUS
  <2> DEFINE h == [m \in Nat |-> IF m = 0 THEN 1 ELSE 2 * g[m - 1]]
  <2>2. h \in [Nat -> Nat]  OBVIOUS
  <2>3. \A m \in 0 .. n : h[m] = g[m]  BY <2>1
  <2>4. Good(h, n + 1)  BY <2>3
  <2> HIDE DEF h
  <2>5. n + 1 \in Nat  OBVIOUS
  <2> QED  BY <2>2, <2>4, <2>5
<1>3. P = Nat  BY <1>1, <1>2, NatInduct
<1>4. ASSUME NEW f \in [Nat -> Nat], NEW g \in [Nat -> Nat], NEW n \in Nat,
             Good(f, n), Good(g, n)
      PROVE  f[n] = g[n]
  <2> DEFINE Q == {k \in Nat : k <= n => f[k] = g[k]}
  <2>1. 0 \in Q  BY <1>4
  <2>2. ASSUME NEW k \in Q PROVE k + 1 \in Q  BY <1>4
  <2>3. Q = Nat  BY <2>1, <2>2, NatInduct
  <2> QED  BY <2>3
<1> DEFINE G(n) == CHOOSE g \in [Nat -> Nat] : Good(g, n)
           F == [n \in Nat |-> G(n)[n]]
<1>5. ASSUME NEW n \in Nat PROVE G(n) \in [Nat -> Nat] /\ Good(G(n), n)
  BY <1>3
<1>6. \A n \in Nat : F[n] = G(n)[n]  OBVIOUS
<1> HIDE DEF G, P
<1>7. ASSUME NEW n \in Nat PROVE F[n] = IF n = 0 THEN 1 ELSE 2 * F[n - 1]
  <2>1. G(n) \in [Nat -> Nat] /\ Good(G(n), n) /\ n \in 0 .. n  BY <1>5
  <2>2. G(n)[n] = IF n = 0 THEN 1 ELSE 2 * G(n)[n - 1]  BY <2>1
  <2>3. CASE n = 0  BY <1>6, <2>2, <2>3
  <2>4. CASE n # 0
    <3>1. n - 1 \in Nat /\ Good(G(n), n - 1)  BY <2>1, <2>4
    <3>2. G(n - 1) \in [Nat -> Nat] /\ Good(G(n - 1), n - 1)  BY <1>5, <3>1
    <3>3. G(n)[n - 1] = G(n - 1)[n - 1]  BY <1>4, <2>1, <3>1, <3>2
    <3>4. F[n - 1] = G(n - 1)[n - 1]  BY <1>6, <3>1
    <3> QED  BY <1>6, <2>2, <2>4, <3>3, <3>4
  <2> QED  BY <2>3, <2>4
<1>8. F = [n \in Nat |-> F[n]]  OBVIOUS
<1> HIDE DEF F
<1>9. F = [n \in Nat |-> IF n = 0 THEN 1 ELSE 2 * F[n - 1]]  BY <1>7, <1>8
<1> QED  BY <1>9

LEMMA Pow2Step ==
  /\ Pow2[0] = 1
  /\ \A n \in Nat : Pow2[n] \in Nat \ {0} /\ Pow2[n + 1] = 2 * Pow2[n]
<1>1. Pow2 = [n \in Nat |-> IF n = 0 THEN 1 ELSE 2 * Pow2[n - 1]]
  BY Pow2Exists DEF Pow2
<1>2. \A n \in Nat : Pow2[n] = IF n = 0 THEN 1 ELSE 2 * Pow2[n - 1]
  BY Zenon, <1>1
<1>3. Pow2[0] = 1 /\ \A n \in Nat : Pow2[n + 1] = 2 * Pow2[n]
  <2>1. Pow2[0] = 1  BY <1>2
  <2>2. ASSUME NEW n \in Nat PROVE Pow2[n + 1] = 2 * Pow2[n]
    <3>1. n + 1 \in Nat /\ n + 1 # 0 /\ (n + 1) - 1 = n  OBVIOUS
    <3> QED  BY <1>2, <3>1
  <2> QED  BY <2>1, <2>2
<1> DEFINE P == {n \in Nat : Pow2[n] \in Nat \ {0}}
<1>4. P = Nat
  <2>1. 0 \in P  BY <1>3
  <2>2. \A n \in P : n + 1 \in P  BY <1>3
  <2> QED  BY <2>1, <2>2, NatInduct
<1> QED  BY <1>3, <1>4

(* A larger shift is more than twice a smaller one.                        *)
LEMMA Pow2Grows ==
  ASSUME NEW m \in Nat, NEW n \in Nat, m < n
  PROVE  2 * Pow2[m] <= Pow2[n]
<1> DEFINE P == {k \in Nat : 2 * Pow2[m] <= Pow2[m + 1 + k]}
<1>1. 0 \in P
  <2>1. m + 1 + 0 = m + 1  OBVIOUS
  <2> QED  BY <2>1, Pow2Step
<1>2. ASSUME NEW k \in P PROVE k + 1 \in P
  <2>1. m + 1 + k \in Nat /\ m + 1 + (k + 1) = (m + 1 + k) + 1  OBVIOUS
  <2>2. Pow2[m + 1 + (k + 1)] = 2 * Pow2[m + 1 + k] /\ Pow2[m + 1 + k] \in Nat
    BY <2>1, Pow2Step
  <2> QED  BY <2>2, Pow2Step
<1>3. P = Nat  BY <1>1, <1>2, NatInduct
<1> DEFINE k == n - m - 1
<1>4. k \in Nat /\ m + 1 + k = n  OBVIOUS
<1>5. 2 * Pow2[m] <= Pow2[m + 1 + k]
  <2> HIDE DEF k
  <2> QED  BY <1>3, <1>4
<1> QED  BY <1>4, <1>5

-----------------------------------------------------------------------------
LEMMA WordFacts == /\ Digit \in Nat \ {0} /\ Word \in Nat \ {0}
                   /\ \A a, b \in 0 .. Digit - 1 : a * Digit + b \in Num64s
<1>1. Digit \in Nat /\ Digit > 1  BY DigitAssumption
<1>2. Word \in Nat \ {0}  BY <1>1 DEF Word
<1>3. ASSUME NEW a \in 0 .. Digit - 1, NEW b \in 0 .. Digit - 1
      PROVE  a * Digit + b \in Num64s
  <2>1. a * Digit <= (Digit - 1) * Digit  BY <1>1
  <2>2. (Digit - 1) * Digit = Word - Digit  BY <1>1 DEF Word
  <2>3. a * Digit \in Nat  BY <1>1
  <2> QED  BY <1>1, <1>2, <2>1, <2>2, <2>3 DEF Num64s
<1> QED  BY <1>1, <1>2, <1>3

(* The two digits of a word.                                               *)
LEMMA Digits ==
  ASSUME NEW n \in Num64s
  PROVE  /\ Sec(n) \in 0 .. Digit - 1 /\ Frac(n) \in 0 .. Digit - 1
         /\ n = Sec(n) * Digit + Frac(n)
         /\ U64(n) = n
<1>1. n \in Nat /\ n < Word  BY WordFacts DEF Num64s
<1>2. /\ Sec(n) \in Nat /\ Frac(n) \in 0 .. Digit - 1
      /\ n = Digit * Sec(n) + Frac(n)
  BY <1>1, WordFacts, Division DEF Sec, Frac
<1>3. Sec(n) < Digit
  <2>1. SUFFICES ASSUME Sec(n) >= Digit PROVE FALSE  BY <1>2, WordFacts
  <2>2. Digit * Sec(n) >= Digit * Digit  BY <1>2, <2>1, WordFacts
  <2> QED  BY <1>1, <1>2, <2>2, WordFacts DEF Word
<1>4. U64(n) = n
  <2>1. n \in 0 .. Word - 1  BY <1>1, WordFacts
  <2>2. (Word * 0 + n) % Word = n  BY <2>1, WordFacts, DivisionUnique
  <2>3. Word * 0 + n = n  BY <1>1, WordFacts
  <2> QED  BY <2>2, <2>3 DEF U64
<1> QED  BY <1>2, <1>3, <1>4, WordFacts

(* A step of the product stays within the word.                            *)
LEMMA StepExact ==
  ASSUME NEW c \in 0 .. Digit - 1, NEW a \in 0 .. Digit - 1,
         NEW b \in 0 .. Digit - 1, NEW w \in 0 .. Digit - 1
  PROVE  /\ MulStep(c, a, b, w) = c + a * b + w
         /\ MulStep(c, a, b, w) \in Num64s
<1> DEFINE m == Digit - 1
<1>1. m \in Nat /\ Digit = m + 1  BY WordFacts
<1>2. a * b \in Nat /\ a * b <= m * m
  <2>1. a * b <= m * b  BY <1>1
  <2>2. m * b <= m * m  BY <1>1
  <2>3. a * b \in Nat /\ m * b \in Nat /\ m * m \in Nat  BY <1>1
  <2> QED  BY <2>1, <2>2, <2>3
<1>3. Word = m * m + m + m + 1  BY <1>1 DEF Word
<1>4. m * m \in Nat  BY <1>1
<1>5. c + a * b + w \in Num64s
  BY <1>1, <1>2, <1>3, <1>4 DEF Num64s
<1> QED  BY <1>5, Digits DEF MulStep

(* Mul is the exact product, cut off at both ends to the 32.32 format: for *)
(* no two numbers does a step of the algorithm overflow or lose a carry    *)
(* (num64.go:59-84).                                                       *)
THEOREM MulIsTruncatedProduct ==
  ASSUME NEW x \in Num64s, NEW y \in Num64s
  PROVE  Mul(x, y) = U64((x * y) \div Digit) /\ Mul(x, y) \in Num64s
<1> DEFINE D == Digit
           x0 == Frac(x)  x1 == Sec(x)  y0 == Frac(y)  y1 == Sec(y)
           t00 == MulStep(0, x0, y0, 0)
           t10 == MulStep(Sec(t00), x1, y0, 0)
           t01 == MulStep(0, x0, y1, Frac(t10))
           t11 == MulStep(Sec(t01), x1, y1, Sec(t10))
           a0 == Frac(t00)  a1 == Sec(t00)
           b0 == Frac(t10)  b1 == Sec(t10)
           c0 == Frac(t01)  c1 == Sec(t01)
           d0 == Frac(t11)  d1 == Sec(t11)
<1>0. D \in Nat \ {0} /\ 0 \in 0 .. D - 1  BY WordFacts
<1>1. /\ {x0, x1, y0, y1} \subseteq 0 .. D - 1
      /\ x = x1 * D + x0 /\ y = y1 * D + y0
  BY Digits
<1>2. /\ a0 \in 0 .. D - 1 /\ a1 \in 0 .. D - 1
      /\ x0 * y0 = a1 * D + a0
  <2>1. t00 = 0 + x0 * y0 + 0 /\ t00 \in Num64s  BY <1>0, <1>1, StepExact
  <2>2. a0 \in 0 .. D - 1 /\ a1 \in 0 .. D - 1 /\ t00 = a1 * D + a0  BY <2>1, Digits
  <2>3. x0 * y0 \in Nat  BY <1>0, <1>1
  <2> HIDE DEF x0, y0, t00, a0, a1
  <2> QED  BY <2>1, <2>2, <2>3
<1>3. /\ b0 \in 0 .. D - 1 /\ b1 \in 0 .. D - 1
      /\ a1 + x1 * y0 = b1 * D + b0
  <2>1. t10 = a1 + x1 * y0 + 0 /\ t10 \in Num64s  BY <1>0, <1>1, <1>2, StepExact
  <2>2. b0 \in 0 .. D - 1 /\ b1 \in 0 .. D - 1 /\ t10 = b1 * D + b0  BY <2>1, Digits
  <2>3. x1 * y0 \in Nat  BY <1>0, <1>1
  <2> HIDE DEF x1, y0, t10, a1, b0, b1
  <2> QED  BY <1>2, <2>1, <2>2, <2>3
<1>4. /\ c0 \in 0 .. D - 1 /\ c1 \in 0 .. D - 1
      /\ x0 * y1 + b0 = c1 * D + c0
  <2>1. t01 = 0 + x0 * y1 + b0 /\ t01 \in Num64s  BY <1>0, <1>1, <1>3, StepExact
  <2>2. c0 \in 0 .. D - 1 /\ c1 \in 0 .. D - 1 /\ t01 = c1 * D + c0  BY <2>1, Digits
  <2>3. x0 * y1 \in Nat  BY <1>0, <1>1
  <2> HIDE DEF x0, y1, t01, b0, c0, c1
  <2> QED  BY <1>3, <2>1, <2>2, <2>3
<1>5. /\ d0 \in 0 .. D - 1 /\ d1 \in 0 .. D - 1
      /\ c1 + x1 * y1 + b1 = d1 * D + d0
  <2>1. t11 = c1 + x1 * y1 + b1 /\ t11 \in Num64s  BY <1>1, <1>3, <1>4, StepExact
  <2> QED  BY <2>1, Digits
<1>6. Mul(x, y) = U64(d0 * D) + c0  BY DEF Mul
<1> HIDE DEF D, x0, x1, y0, y1, t00, t10, t01, t11, a0, a1, b0, b1, c0, c1, d0, d1
<1>7. x * y = D * (d1 * (D * D) + d0 * D + c0) + a0
  <2>1. x * y = x0 * y0 + (x1 * y0 + x0 * y1) * D + x1 * y1 * (D * D)
    BY <1>0, <1>1
  <2>2. x * y = a0 + (a1 + x1 * y0 + x0 * y1) * D + x1 * y1 * (D * D)
    BY <1>0, <1>1, <1>2, <2>1
  <2>3. x * y = a0 + (b0 + x0 * y1) * D + (b1 + x1 * y1) * (D * D)
    BY <1>0, <1>1, <1>2, <1>3, <2>2
  <2>4. x * y = a0 + c0 * D + (c1 + b1 + x1 * y1) * (D * D)
    <3>1. (b0 + x0 * y1) * D = c1 * (D * D) + c0 * D
      <4>1. b0 + x0 * y1 = c1 * D + c0  BY <1>0, <1>1, <1>3, <1>4
      <4>2. (c1 * D + c0) * D = c1 * (D * D) + c0 * D  BY <1>0, <1>4
      <4> QED  BY <4>1, <4>2
    <3>2. x * y = a0 + (c1 * (D * D) + c0 * D) + (b1 + x1 * y1) * (D * D)
      BY <2>3, <3>1
    <3>3. x1 * y1 \in Nat  BY <1>0, <1>1
    <3> QED  BY <1>0, <1>2, <1>3, <1>4, <3>2, <3>3
  <2>5. x * y = a0 + c0 * D + (d1 * D + d0) * (D * D)
    BY <1>0, <1>1, <1>3, <1>4, <1>5, <2>4
  <2> QED  BY <1>0, <1>2, <1>4, <1>5, <2>5
<1>8. d0 * D + c0 \in Num64s /\ d0 * D \in Num64s
  <2>1. d0 * D + c0 \in Num64s  BY <1>4, <1>5, WordFacts DEF D
  <2>2. d0 * D + 0 \in Num64s  BY <1>0, <1>5, WordFacts DEF D
  <2>3. d0 * D + 0 = d0 * D  BY <1>0, <1>5
  <2> QED  BY <2>1, <2>2, <2>3
<1>9. (x * y) \div Digit = Word * d1 + (d0 * D + c0)
  <2>1. d1 * (D * D) + d0 * D + c0 \in Nat  BY <1>0, <1>4, <1>5
  <2>2. (x * y) \div D = d1 * (D * D) + d0 * D + c0
    <3> DEFINE q == d1 * (D * D) + d0 * D + c0
    <3>1. q \in Int /\ x * y = D * q + a0  BY <1>7, <2>1
    <3> HIDE DEF q
    <3>2. (D * q + a0) \div D = q  BY <1>0, <1>2, <3>1, DivisionUnique
    <3>3. (x * y) \div D = q  BY <3>1, <3>2
    <3> QED  BY <3>3 DEF q
  <2>3. d1 * (D * D) + d0 * D + c0 = (D * D) * d1 + (d0 * D + c0)  BY <1>0, <1>4, <1>5
  <2> QED  BY <2>2, <2>3 DEF Word, D
<1>10. U64((x * y) \div Digit) = d0 * D + c0
  <2> DEFINE r == d0 * D + c0
  <2>1. r \in 0 .. Word - 1  BY <1>8, WordFacts DEF Num64s
  <2>2. d1 \in Nat  BY <1>0, <1>5
  <2> HIDE DEF r
  <2>3. (Word * d1 + r) % Word = r  BY <2>1, <2>2, WordFacts, DivisionUnique
  <2> QED  BY <1>9, <2>3 DEF U64, r
<1>11. U64(d0 * D) = d0 * D  BY <1>8, Digits
<1> QED  BY <1>6, <1>8, <1>10, <1>11

(* Where the product fits, Mul is short of it by less than a unit.         *)
LEMMA MulExact ==
  ASSUME NEW x \in Num64s, NEW y \in Num64s, x * y < Word * Digit
  PROVE  /\ Mul(x, y) \in Num64s
         /\ Mul(x, y) * Digit <= x * y
         /\ x * y < Mul(x, y) * Digit + Digit
<1> DEFINE p == x * y
           q == p \div Digit
           r == p % Digit
<1>1. p \in Nat  BY WordFacts DEF Num64s
<1>2. q \in Nat /\ r \in 0 .. Digit - 1 /\ p = Digit * q + r
  BY <1>1, WordFacts, Division
<1>3. p < Word * Digit  OBVIOUS
<1>4. Mul(x, y) = U64(q)  BY MulIsTruncatedProduct
<1> HIDE DEF p, q, r
<1>5. q < Word
  <2>1. CASE q >= Word
    <3>1. Digit * q >= Digit * Word  BY <1>2, <2>1, WordFacts
    <3> QED  BY <1>2, <1>3, <3>1, WordFacts
  <2> QED  BY <1>2, <2>1, WordFacts
<1>6. q \in Num64s  BY <1>2, <1>5, WordFacts DEF Num64s
<1>7. Mul(x, y) = q  BY <1>4, <1>6, Digits
<1>8. q * Digit <= p /\ p < q * Digit + Digit  BY <1>2, WordFacts
<1> QED  BY <1>6, <1>7, <1>8 DEF p

(* A duration that the format can hold comes back from it short of at most *)
(* one nanosecond, and never longer (num64.go:33-50).                      *)
THEOREM DurationRoundTrip ==
  ASSUME NEW d \in Nat, d \div Nano < Digit
  PROVE  Duration(FromDuration(d)) \in {d - 1, d}
<1> DEFINE s == d \div Nano
           r == d % Nano
           f == (r * Digit) \div Nano
           t == (f * Nano) \div Digit
<1>0. Digit \in Nat \ {0} /\ Nano \in Nat \ {0} /\ Nano <= Digit
  BY UnitsAssumption, WordFacts
<1>1. s \in 0 .. Digit - 1 /\ r \in 0 .. Nano - 1 /\ d = Nano * s + r
  <2>1. s \in Nat /\ r \in 0 .. Nano - 1 /\ d = Nano * s + r  BY <1>0, Division
  <2>2. s < Digit  OBVIOUS
  <2> QED  BY <1>0, <2>1, <2>2
<1> HIDE DEF s, r
<1>2. r * Digit \in Num64s /\ s * Digit \in Num64s
  <2>1. r \in 0 .. Digit - 1 /\ 0 \in 0 .. Digit - 1  BY <1>0, <1>1
  <2>2. r * Digit + 0 \in Num64s /\ s * Digit + 0 \in Num64s
    BY <1>1, <2>1, WordFacts
  <2>3. r * Digit + 0 = r * Digit /\ s * Digit + 0 = s * Digit
    BY <1>0, <1>1
  <2> QED  BY <2>2, <2>3
<1>3. f \in 0 .. Digit - 1 /\ f * Nano <= r * Digit /\ r * Digit < f * Nano + Nano
  <2> DEFINE w == r * Digit
  <2>1. w \in Nat  BY <1>0, <1>1
  <2>2. f \in Nat /\ w % Nano \in 0 .. Nano - 1 /\ w = Nano * f + (w % Nano)
    BY <1>0, <2>1, Division
  <2>3. f * Nano <= w /\ w < f * Nano + Nano
    <3> DEFINE x == w % Nano
    <3>1. f \in Nat /\ x \in 0 .. Nano - 1 /\ w = Nano * f + x  BY <2>2
    <3> HIDE DEF f, w, x
    <3> QED  BY <1>0, <2>1, <3>1
  <2>4. f < Digit
    <3>1. SUFFICES ASSUME f >= Digit PROVE FALSE  BY <1>0, <2>2
    <3>2. f * Nano >= Digit * Nano  BY <1>0, <2>2, <3>1
    <3>3. w <= (Nano - 1) * Digit  BY <1>0, <1>1
    <3>4. (Nano - 1) * Digit = Digit * Nano - Digit  BY <1>0
    <3> QED  BY <1>0, <2>1, <2>3, <3>2, <3>3, <3>4
  <2> HIDE DEF f
  <2>5. f \in 0 .. Digit - 1  BY <1>0, <2>2, <2>4
  <2> QED  BY <2>3, <2>5
<1>4. FromDuration(d) = s * Digit + f
  <2>1. ~ d < 0  OBVIOUS
  <2> QED  BY <1>2, <2>1, Digits DEF FromDuration, s, r
<1>5. Sec(FromDuration(d)) = s /\ Frac(FromDuration(d)) = f
  <2> HIDE DEF f
  <2>0. s \in Int  BY <1>1
  <2>1. (Digit * s + f) \div Digit = s /\ (Digit * s + f) % Digit = f
    BY <1>0, <1>3, <2>0, DivisionUnique
  <2>2. s * Digit + f = Digit * s + f  BY <1>0, <1>1
  <2> QED  BY <1>4, <2>1, <2>2 DEF Sec, Frac
<1>6. Duration(FromDuration(d)) = s * Nano + t
  <2>1. f * Nano \in Num64s
    <3>1. f * Nano \in Nat  BY <1>0, <1>3
    <3>2. r * Digit <= Word - 1  BY <1>2, WordFacts DEF Num64s
    <3>3. r * Digit \in Nat  BY <1>0, <1>1
    <3> HIDE DEF f
    <3> QED  BY <1>3, <3>1, <3>2, <3>3, WordFacts DEF Num64s
  <2> QED  BY <1>5, <2>1, Digits DEF Duration
<1>7. t \in {r - 1, r}
  <2> DEFINE w == f * Nano
  <2>1. w \in Nat  BY <1>0, <1>3
  <2>2. t \in Nat /\ w % Digit \in 0 .. Digit - 1 /\ w = Digit * t + (w % Digit)
    BY <1>0, <2>1, Division
  <2>3. w <= r * Digit /\ r * Digit < w + Nano  BY <1>3
  <2> HIDE DEF w, t
  <2>4. Digit * t <= r * Digit  BY <1>0, <1>1, <2>1, <2>2, <2>3
  <2>5. r * Digit < Digit * t + 2 * Digit  BY <1>0, <1>1, <2>1, <2>2, <2>3
  <2>6. t <= r
    <3>1. CASE t >= r + 1
      <4>1. Digit * t >= Digit * (r + 1)  BY <1>0, <1>1, <2>2, <3>1
      <4> QED  BY <1>0, <1>1, <2>2, <2>4, <4>1
    <3> QED  BY <1>1, <2>2, <3>1
  <2>7. r < t + 2
    <3>1. CASE r >= t + 2
      <4>1. Digit * r >= Digit * (t + 2)  BY <1>0, <1>1, <2>2, <3>1
      <4> QED  BY <1>0, <1>1, <2>2, <2>5, <4>1
    <3> QED  BY <1>1, <2>2, <3>1
  <2> QED  BY <1>1, <2>2, <2>6, <2>7
<1> QED  BY <1>0, <1>1, <1>6, <1>7

-----------------------------------------------------------------------------
LEMMA Units ==
  /\ Digit \in Nat \ {0, 1} /\ Word = Digit * Digit /\ Word \in Nat
  /\ Nano \in Nat \ {0} /\ 2 * Nano <= Digit
  /\ Micro \in Nat /\ Micro >= 2 /\ Micro <= Digit
  /\ JAN1970 \in Nat
BY DigitAssumption, UnitsAssumption, EpochAssumption, WordFacts DEF Word

(* The fraction r / b in one digit, rounded down.                          *)
LEMMA Fraction ==
  ASSUME NEW b \in Nat \ {0}, NEW r \in 0 .. b - 1
  PROVE  LET f == (r * Digit) \div b
         IN  f \in 0 .. Digit - 1 /\ f * b <= r * Digit /\ r * Digit < f * b + b
<1> DEFINE w == r * Digit
           f == w \div b
           x == w % b
<1>1. w \in Nat  BY Units
<1>2. f \in Nat /\ x \in 0 .. b - 1 /\ w = b * f + x  BY <1>1, Division
<1>3. w <= (b - 1) * Digit
  <2>1. r <= b - 1 /\ b - 1 \in Nat  OBVIOUS
  <2> QED  BY <2>1, Units
<1>4. (b - 1) * Digit = b * Digit - Digit  BY Units
<1>5. b * Digit \in Nat  BY Units
<1> HIDE DEF w, f, x
<1>6. f * b = b * f  BY <1>2
<1>7. f * b \in Nat  BY <1>2
<1>8. f * b <= w /\ w < f * b + b  BY <1>1, <1>2, <1>6, <1>7
<1>9. f < Digit
  <2>1. SUFFICES ASSUME f >= Digit PROVE FALSE  BY <1>2, Units
  <2>2. f * b >= b * Digit  BY <1>2, <2>1, Units
  <2> QED  BY <1>1, <1>3, <1>4, <1>5, <1>7, <1>8, <2>2, Units
<1> QED  BY <1>2, <1>8, <1>9, Units DEF w, f

LEMMA WholeSeconds ==
  ASSUME NEW n \in 0 .. Digit - 1
  PROVE  U64(n * Digit) = n * Digit /\ n * Digit \in Num64s
<1>1. n * Digit + 0 \in Num64s  BY WordFacts
<1>2. n * Digit + 0 = n * Digit  BY Units
<1> QED  BY <1>1, <1>2, Digits

(* What all conversions into Num64 have in common: a / b seconds, rounded  *)
(* down.                                                                   *)
LEMMA FixedPoint ==
  ASSUME NEW a \in Nat, NEW b \in Nat \ {0}, a \div b < Digit
  PROVE  LET n == U64((a \div b) * Digit) + ((a % b) * Digit) \div b
         IN  /\ n \in Num64s
             /\ n * b <= a * Digit /\ a * Digit < n * b + b
             /\ n >= (a \div b) * Digit /\ n < (a \div b) * Digit + Digit
<1> DEFINE q == a \div b
           r == a % b
           f == (r * Digit) \div b
           n == q * Digit + f
<1>1. q \in Nat /\ r \in 0 .. b - 1 /\ a = b * q + r  BY Division
<1>2. q < Digit  OBVIOUS
<1> HIDE DEF q, r
<1>3. q \in 0 .. Digit - 1  BY <1>1, <1>2, Units
<1>4. f \in 0 .. Digit - 1 /\ f * b <= r * Digit /\ r * Digit < f * b + b
  BY <1>1, Fraction
<1> HIDE DEF f
<1>5. n \in Num64s  BY <1>3, <1>4, WordFacts
<1>6. a * Digit = (q * Digit) * b + r * Digit  BY <1>1, Units
<1>7. n * b = (q * Digit) * b + f * b  BY <1>1, <1>4, Units
<1>8. /\ (q * Digit) * b \in Nat /\ r * Digit \in Nat /\ f * b \in Nat
      /\ q * Digit \in Nat
  BY <1>1, <1>4, Units
<1>9. n * b <= a * Digit /\ a * Digit < n * b + b
  BY <1>4, <1>6, <1>7, <1>8
<1>10. n >= q * Digit /\ n < q * Digit + Digit
  <2> DEFINE w == q * Digit
  <2>1. w \in Nat /\ f \in 0 .. Digit - 1  BY <1>4, <1>8
  <2> HIDE DEF w
  <2>2. w + f >= w /\ w + f < w + Digit  BY <2>1, Units
  <2> QED  BY <2>2 DEF w
<1>11. U64(q * Digit) = q * Digit  BY <1>3, WholeSeconds
<1> QED  BY <1>5, <1>9, <1>10, <1>11 DEF q, r, f

(* And out of it: nanoseconds, rounded down.                               *)
LEMMA DurationExact ==
  ASSUME NEW n \in Num64s
  PROVE  /\ Duration(n) \in Nat
         /\ Duration(n) * Digit <= n * Nano
         /\ n * Nano < Duration(n) * Digit + Digit
         /\ AbsTime(n) = Duration(n) - JAN1970 * Nano
<1> DEFINE q == Sec(n)
           r == Frac(n)
           w == r * Nano
           f == w \div Digit
           x == w % Digit
<1>1. q \in 0 .. Digit - 1 /\ r \in 0 .. Digit - 1 /\ n = q * Digit + r  BY Digits
<1> HIDE DEF q, r
<1>2. w \in Nat  BY <1>1, Units
<1>3. f \in Nat /\ x \in 0 .. Digit - 1 /\ w = Digit * f + x  BY <1>2, Units, Division
<1>4. w \in Num64s
  <2>1. w <= r * Digit  BY <1>1, Units
  <2>2. r * Digit \in Num64s  BY <1>1, WholeSeconds
  <2> QED  BY <1>2, <2>1, <2>2, Units DEF Num64s
<1>5. Duration(n) = q * Nano + f /\ AbsTime(n) = (q - JAN1970) * Nano + f
  BY <1>4, Digits DEF Duration, AbsTime, q, r
<1>6. n * Nano = (q * Nano) * Digit + w  BY <1>1, Units
<1> HIDE DEF w, f, x
<1>7. q * Nano \in Nat /\ (q * Nano) * Digit \in Nat /\ f * Digit \in Nat  BY <1>1, <1>3, Units
<1>8. Duration(n) * Digit = (q * Nano) * Digit + f * Digit  BY <1>3, <1>5, <1>7, Units
<1>9. w = f * Digit + x  BY <1>3, Units
<1>10. (q - JAN1970) * Nano = q * Nano - JAN1970 * Nano  BY <1>1, Units
<1>11. JAN1970 * Nano \in Nat  BY Units
<1> QED  BY <1>3, <1>5, <1>6, <1>7, <1>8, <1>9, <1>10, <1>11, Units

(* A moment before the turn of the era, rounded down.                      *)
LEMMA FromTimeExact ==
  ASSUME NEW t \in Nat, t \div Nano + JAN1970 < Digit
  PROVE  /\ FromTime(t) \in Num64s
         /\ FromTime(t) * Nano <= (t + JAN1970 * Nano) * Digit
         /\ (t + JAN1970 * Nano) * Digit < FromTime(t) * Nano + Nano
         /\ FromTime(t) >= JAN1970 * Digit
         /\ FromTime(t) < (t \div Nano + JAN1970) * Digit + Digit
<1> DEFINE a == t + JAN1970 * Nano
           q == t \div Nano
           r == t % Nano
<1>1. q \in Nat /\ r \in 0 .. Nano - 1 /\ t = Nano * q + r  BY Units, Division
<1>2. a \in Nat /\ a \div Nano = q + JAN1970 /\ a % Nano = r
  <2> HIDE DEF q, r
  <2>1. q + JAN1970 \in Int  BY <1>1, Units
  <2>2. /\ (Nano * (q + JAN1970) + r) \div Nano = q + JAN1970
        /\ (Nano * (q + JAN1970) + r) % Nano = r
    BY <1>1, <2>1, Units, DivisionUnique
  <2>3. Nano * (q + JAN1970) + r = a  BY <1>1, Units
  <2>4. a \in Nat  BY Units
  <2> QED  BY <2>2, <2>3, <2>4
<1>3. FromTime(t) = U64((a \div Nano) * Digit) + ((a % Nano) * Digit) \div Nano
  <2>1. r * Digit \in Num64s
    <3> HIDE DEF r
    <3>1. r \in 0 .. Digit - 1  BY <1>1, Units
    <3> QED  BY <3>1, WholeSeconds
  <2>2. U64(r * Digit) = r * Digit  BY <2>1, Digits
  <2> QED  BY <1>2, <2>2 DEF FromTime
<1>4. a \div Nano < Digit  BY <1>2
<1> DEFINE n == FromTime(t)
<1>5. /\ n \in Num64s /\ n * Nano <= a * Digit /\ a * Digit < n * Nano + Nano
      /\ n >= (q + JAN1970) * Digit /\ n < (q + JAN1970) * Digit + Digit
  <2> HIDE DEF a, q, r
  <2> QED  BY <1>2, <1>3, <1>4, FixedPoint, Units
<1>6. (q + JAN1970) * Digit >= JAN1970 * Digit
  <2> HIDE DEF q
  <2> QED  BY <1>1, Units
<1>7. n \in Nat /\ (q + JAN1970) * Digit \in Nat /\ JAN1970 * Digit \in Nat
  BY <1>1, <1>5, Units DEF Num64s
<1> HIDE DEF a, q, n
<1>8. n >= JAN1970 * Digit  BY <1>5, <1>6, <1>7
<1> QED  BY <1>5, <1>8 DEF a, q, n

-----------------------------------------------------------------------------
LEMMA Element ==
  ASSUME NEW S, NEW q \in Seq(S), NEW n \in 1 .. Len(q)
  PROVE  q[n] \in S
OBVIOUS

LEMMA Constants ==
  /\ Digit \in Nat \ {0} /\ Word = Digit * Digit
  /\ Bits \in Nat /\ Bits < Digit
  /\ Ln2 \in 1 .. Digit - 1
  /\ Len(Slots) \in Nat \ {0}
  /\ \A k \in 0 .. Len(Slots) - 1 :
       /\ Slots[k + 1].mean \in Num64s
       /\ (Bits + 1) * Ln2 * Slots[k + 1].mean < Word * Digit
<1>1. Digit \in Nat \ {0} /\ Word = Digit * Digit  BY WordFacts DEF Word
<1>2. Bits \in Nat /\ Bits < Digit  BY BitsAssumption
<1>3. Ln2 \in 1 .. Digit - 1
  <2>1. ExpQ \in Seq(0 .. Digit - 1) /\ Len(ExpQ) > 1 /\ ExpQ[1] > 0
    BY ExpQAssumption DEF Ln2
  <2>2. Len(ExpQ) \in Nat /\ 1 \in 1 .. Len(ExpQ)  BY <2>1
  <2>3. ExpQ[1] \in 0 .. Digit - 1  BY <2>1, <2>2, Element
  <2> QED  BY <1>1, <2>1, <2>3 DEF Ln2
<1>4. Len(Slots) \in Nat \ {0}  BY SlotsAssumption
<1>5. ASSUME NEW k \in 0 .. Len(Slots) - 1
      PROVE  /\ Slots[k + 1].mean \in Num64s
             /\ (Bits + 1) * Ln2 * Slots[k + 1].mean < Word * Digit
  <2>1. k + 1 \in DOMAIN Slots /\ k + 1 \in 1 .. Len(Slots)  BY <1>4, SlotsAssumption
  <2>2. Slots[k + 1] \in [type : {"exp", "literal"}, mean : Num64s]
    BY <2>1, SlotsAssumption, Element
  <2> QED  BY <2>1, <2>2, MeanAssumption
<1> QED  BY <1>1, <1>2, <1>3, <1>4, <1>5

(* The slot before the next one is the one that was next.                  *)
LEMMA SlotBefore ==
  ASSUME NEW n \in Nat \ {0}, NEW s \in 0 .. n - 1
  PROVE  (s + 1) % n \in 0 .. n - 1 /\ (((s + 1) % n) - 1) % n = s
<1>1. CASE s + 1 < n
  <2>1. (n * 0 + (s + 1)) % n = s + 1  BY <1>1, DivisionUnique
  <2>2. (n * 0 + s) % n = s  BY DivisionUnique
  <2>3. (s + 1) % n = s + 1 /\ s % n = s  BY <2>1, <2>2
  <2> QED  BY <1>1, <2>3
<1>2. CASE s + 1 = n
  <2>1. (n * 1 + 0) % n = 0  BY DivisionUnique
  <2>2. (n * (-1) + s) % n = s  BY DivisionUnique
  <2>3. n * (-1) + s = -1  BY <1>2
  <2>4. (s + 1) % n = 0  BY <1>2, <2>1
  <2> QED  BY <2>2, <2>3, <2>4
<1> QED  BY <1>1, <1>2

-----------------------------------------------------------------------------
(* An interval made of the deviate "inner" / Digit: the bounds of          *)
(* IntervalExact but for the truncation of the deviate itself.             *)
LEMMA TimesMean ==
  ASSUME NEW inner \in Nat, NEW m \in Num64s,
         inner <= (Bits + 1) * Ln2,
         (Bits + 1) * Ln2 * m < Word * Digit
  PROVE  LET d == Mul(inner, m)
         IN  /\ d \in Num64s
             /\ d * Word <= inner * Digit * m
             /\ inner * Digit * m < (d + 1) * Word
             /\ d * Digit <= (Bits + 1) * Ln2 * m
<1> DEFINE d == Mul(inner, m)
           top == (Bits + 1) * Ln2
<1>1. top \in Nat /\ m \in Nat  BY Constants, WordFacts DEF Num64s
<1>2. inner \in Num64s
  <2>1. Bits + 1 <= Digit /\ Ln2 <= Digit - 1  BY Constants
  <2>2. top <= Digit * Ln2  BY <2>1, Constants
  <2>3. Digit * Ln2 <= Digit * (Digit - 1)  BY <2>1, Constants
  <2>4. Digit * (Digit - 1) = Word - Digit  BY Constants
  <2>5. Digit * Ln2 \in Nat  BY Constants
  <2> HIDE DEF top
  <2>6. inner <= Word - 1
    <3>1. inner <= top  BY DEF top
    <3> QED  BY <1>1, <2>2, <2>3, <2>4, <2>5, <3>1, WordFacts
  <2> QED  BY <2>6, WordFacts DEF Num64s
<1>3. inner * m <= top * m
  <2>1. inner <= top  OBVIOUS
  <2> HIDE DEF top
  <2> QED  BY <1>1, <2>1
<1>4. inner * m \in Nat /\ top * m \in Nat /\ top * m < Word * Digit
  <2>1. top * m < Word * Digit  OBVIOUS
  <2> HIDE DEF top
  <2> QED  BY <1>1, <2>1
<1>5. inner * m < Word * Digit  BY <1>3, <1>4, WordFacts
<1>6. d \in Num64s /\ d * Digit <= inner * m /\ inner * m < d * Digit + Digit
  BY <1>2, <1>5, MulExact
<1>7. d \in Nat  BY <1>6, WordFacts DEF Num64s
<1>8. d * Digit <= top * m
  <2>1. d * Digit \in Nat  BY <1>7, Constants
  <2> HIDE DEF d, top
  <2> QED  BY <1>3, <1>4, <1>6, <2>1
<1>9. d * Word <= inner * Digit * m /\ inner * Digit * m < (d + 1) * Word
  <2> DEFINE p == inner * m
             q == d * Digit
  <2>1. p \in Nat /\ q \in Nat  BY <1>4, <1>7, Constants
  <2>2. inner * Digit * m = p * Digit  BY <1>1, Constants
  <2>3. d * Word = q * Digit  BY <1>7, Constants
  <2>4. (d + 1) * Word = (q + Digit) * Digit
    <3> HIDE DEF d
    <3> QED  BY <1>7, Constants
  <2>5. q <= p /\ p < q + Digit  BY <1>6
  <2> HIDE DEF p, q
  <2>6. q * Digit <= p * Digit  BY <2>1, <2>5, Constants
  <2>7. p * Digit < (q + Digit) * Digit  BY <2>1, <2>5, Constants
  <2> QED  BY <2>2, <2>3, <2>4, <2>6, <2>7
<1> QED  BY <1>6, <1>8, <1>9

(* The deviate of S2, from the first value alone, is exact.                *)
LEMMA ShortDeviate ==
  ASSUME NEW n \in 0 .. Bits, NEW w \in 0 .. Digit - 1, w < Ln2
  PROVE  /\ U64(Mul(FromUint32(n), Ln2) + w) = n * Ln2 + w
         /\ n * Ln2 + w \in Nat
         /\ n * Ln2 + w <= (Bits + 1) * Ln2
<1>1. n \in 0 .. Digit - 1 /\ 0 \in 0 .. Digit - 1 /\ Ln2 \in 0 .. Digit - 1  BY Constants
<1>2. FromUint32(n) = n * Digit /\ n * Digit \in Num64s
  <2>1. n * Digit + 0 \in Num64s  BY <1>1, WordFacts
  <2>2. n * Digit + 0 = n * Digit  BY Constants
  <2> QED  BY <2>1, <2>2, Digits DEF FromUint32
<1>3. n * Ln2 + w \in Num64s /\ n * Ln2 \in Num64s /\ Ln2 \in Num64s
  <2>1. n * Ln2 \in Nat /\ n * Ln2 <= n * Digit  BY <1>1, Constants
  <2>2. n * Digit + w \in Num64s  BY <1>1, WordFacts
  <2>3. 0 * Digit + Ln2 \in Num64s  BY <1>1, WordFacts
  <2>4. n * Digit \in Nat /\ 0 * Digit + Ln2 = Ln2  BY <1>1, Constants
  <2> QED  BY <2>1, <2>2, <2>3, <2>4, WordFacts DEF Num64s
<1>4. (n * Digit * Ln2) \div Digit = n * Ln2
  <2>1. n * Ln2 \in Int  BY <1>1, Constants
  <2>2. (Digit * (n * Ln2) + 0) \div Digit = n * Ln2  BY <1>1, <2>1, Constants, DivisionUnique
  <2>3. Digit * (n * Ln2) + 0 = n * Digit * Ln2  BY <1>1, Constants
  <2> QED  BY <2>2, <2>3
<1>5. Mul(FromUint32(n), Ln2) = n * Ln2
  BY <1>2, <1>3, <1>4, MulIsTruncatedProduct, Digits
<1>6. n * Ln2 + w <= (Bits + 1) * Ln2
  <2>1. n * Ln2 <= Bits * Ln2  BY Constants
  <2>2. n * Ln2 \in Nat /\ Bits * Ln2 \in Nat  BY Constants
  <2>3. (Bits + 1) * Ln2 = Bits * Ln2 + Ln2  BY Constants
  <2> QED  BY <2>1, <2>2, <2>3, Constants
<1> QED  BY <1>3, <1>5, <1>6, Digits, WordFacts DEF Num64s

(* That of S4 is short by less than a unit.                                *)
LEMMA LongDeviate ==
  ASSUME NEW n \in 0 .. Bits, NEW w \in 0 .. Digit - 1
  PROVE  LET inner == Mul(U64(FromUint32(n) + w), Ln2)
         IN  /\ inner \in Nat
             /\ inner * Digit <= (n * Digit + w) * Ln2
             /\ (n * Digit + w) * Ln2 < inner * Digit + Digit
             /\ inner <= (Bits + 1) * Ln2
<1> DEFINE x == n * Digit + w
           inner == Mul(x, Ln2)
<1>1. n \in 0 .. Digit - 1 /\ 0 \in 0 .. Digit - 1 /\ Ln2 \in 0 .. Digit - 1  BY Constants
<1>2. x \in Num64s /\ Ln2 \in Num64s
  <2>1. 0 * Digit + Ln2 \in Num64s  BY <1>1, WordFacts
  <2>2. 0 * Digit + Ln2 = Ln2  BY <1>1, Constants
  <2> QED  BY <1>1, <2>1, <2>2, WordFacts
<1>3. U64(FromUint32(n) + w) = x
  <2>1. n * Digit + 0 \in Num64s  BY <1>1, WordFacts
  <2>2. n * Digit + 0 = n * Digit  BY Constants
  <2>3. FromUint32(n) = n * Digit  BY <2>1, <2>2, Digits DEF FromUint32
  <2> QED  BY <1>2, <2>3, Digits
<1>4. x \in Nat /\ x < Word  BY <1>2, WordFacts DEF Num64s
<1>5. x * Ln2 < Word * Digit
  <2> HIDE DEF x
  <2>1. x * Ln2 <= Word * Ln2  BY <1>4, Constants
  <2>2. Word * Ln2 < Word * Digit  BY Constants, WordFacts
  <2>3. x * Ln2 \in Nat /\ Word * Ln2 \in Nat /\ Word * Digit \in Nat
    BY <1>4, Constants, WordFacts
  <2> QED  BY <2>1, <2>2, <2>3
<1>6. inner \in Num64s /\ inner * Digit <= x * Ln2 /\ x * Ln2 < inner * Digit + Digit
  BY <1>2, <1>5, MulExact
<1>7. inner \in Nat  BY <1>6, WordFacts DEF Num64s
<1>8. inner <= (Bits + 1) * Ln2
  <2> DEFINE top == (Bits + 1) * Ln2
  <2>1. x <= (Bits + 1) * Digit
    <3>1. n * Digit <= Bits * Digit  BY Constants
    <3>2. n * Digit \in Nat /\ Bits * Digit \in Nat  BY Constants
    <3>3. (Bits + 1) * Digit = Bits * Digit + Digit  BY Constants
    <3> QED  BY <3>1, <3>2, <3>3, Constants
  <2>2. x * Ln2 <= top * Digit
    <3> DEFINE b == (Bits + 1) * Digit
    <3>1. b \in Nat /\ x <= b  BY <2>1, Constants
    <3>2. top * Digit = b * Ln2  BY Constants
    <3> HIDE DEF x, b, top
    <3>3. x * Ln2 <= b * Ln2  BY <1>4, <3>1, Constants
    <3> QED  BY <3>2, <3>3
  <2>3. top \in Nat /\ x * Ln2 \in Nat  BY <1>4, Constants
  <2> HIDE DEF inner, x, top
  <2>4. inner * Digit <= top * Digit
    <3>1. inner * Digit \in Nat /\ top * Digit \in Nat  BY <1>7, <2>3, Constants
    <3> QED  BY <1>6, <2>2, <2>3, <3>1
  <2>5. inner <= top
    <3>1. CASE inner >= top + 1
      <4>1. inner * Digit >= (top + 1) * Digit  BY <1>7, <2>3, <3>1, Constants
      <4> QED  BY <1>7, <2>3, <2>4, <4>1, Constants
    <3> QED  BY <1>7, <2>3, <3>1
  <2> QED  BY <2>5 DEF top
<1> QED  BY <1>3, <1>6, <1>7, <1>8

-----------------------------------------------------------------------------
(* What the last interval was made of.                                     *)
MadeOfDeviate ==
  \/ /\ u < Ln2
     /\ delta = Mul(U64(Mul(FromUint32(j), Ln2) + u), LastSlot.mean)
  \/ /\ u >= Ln2
     /\ v < Digit
     /\ delta = Mul(Mul(U64(FromUint32(j) + v), Ln2), LastSlot.mean)

(* While values are drawn the slot is exponential and the first value was  *)
(* not enough; afterwards the interval is made of what was drawn.          *)
SchedInv ==
  /\ slot \in 0 .. Len(Slots) - 1
  /\ j \in 0 .. Bits /\ u \in Uniforms /\ v \in 0 .. Digit /\ left \in Nat
  /\ schedPC = "draw" => left > 0 /\ Slot.type = "exp" /\ u >= Ln2
  /\ schedPC = "ready" /\ LastSlot.type = "exp" => MadeOfDeviate
  /\ schedPC = "ready" /\ LastSlot.type = "literal" => delta = LastSlot.mean

LEMMA LastMean ==
  ASSUME slot \in 0 .. Len(Slots) - 1
  PROVE  LastSlot.mean \in Num64s /\ (Bits + 1) * Ln2 * LastSlot.mean < Word * Digit
<1> DEFINE k == (slot - 1) % Len(Slots)
<1>1. k \in 0 .. Len(Slots) - 1
  <2>1. slot - 1 \in Int /\ Len(Slots) \in Nat \ {0}  BY Constants
  <2> QED  BY <2>1, IntDivision
<1> HIDE DEF k
<1>2. /\ Slots[k + 1].mean \in Num64s
      /\ (Bits + 1) * Ln2 * Slots[k + 1].mean < Word * Digit
  BY <1>1, Constants
<1> QED  BY <1>2 DEF LastSlot, k

LEMMA IntervalFollows == SchedInv => IntervalExact
<1> DEFINE m == LastSlot.mean
           exact == Deviate * m
<1>1. SUFFICES ASSUME SchedInv, schedPC = "ready", LastSlot.type = "exp"
      PROVE  /\ delta * Word <= exact
             /\ exact < (delta + 1) * Word + m * Digit
             /\ delta * Digit <= (Bits + 1) * Ln2 * m
  BY DEF IntervalExact
<1>2. m \in Num64s /\ (Bits + 1) * Ln2 * m < Word * Digit /\ m \in Nat
  BY <1>1, LastMean, WordFacts DEF SchedInv, Num64s
<1>3. j \in 0 .. Bits /\ u \in 0 .. Digit - 1 /\ v \in 0 .. Digit /\ MadeOfDeviate
  BY <1>1 DEF SchedInv, Uniforms
<1> HIDE DEF m
<1>4. CASE u < Ln2
  <2> DEFINE inner == j * Ln2 + u
  <2>1. delta = Mul(inner, m) /\ inner \in Nat /\ inner <= (Bits + 1) * Ln2
    <3>1. ~ u >= Ln2  BY <1>3, <1>4, Constants
    <3>2. delta = Mul(U64(Mul(FromUint32(j), Ln2) + u), m)
      BY <1>3, <3>1 DEF MadeOfDeviate, m
    <3>3. /\ U64(Mul(FromUint32(j), Ln2) + u) = inner
          /\ inner \in Nat /\ inner <= (Bits + 1) * Ln2
      BY <1>3, <1>4, ShortDeviate
    <3> QED  BY <3>2, <3>3
  <2>2. Deviate = inner * Digit  BY <1>3, <1>4, Constants DEF Deviate
  <2> HIDE DEF inner
  <2>3. /\ delta \in Num64s /\ delta * Word <= inner * Digit * m
        /\ inner * Digit * m < (delta + 1) * Word
        /\ delta * Digit <= (Bits + 1) * Ln2 * m
    BY <1>2, <2>1, TimesMean
  <2>4. m * Digit \in Nat /\ (delta + 1) * Word \in Nat /\ inner * Digit * m \in Nat
    BY <1>2, <2>1, <2>3, Constants, WordFacts DEF Num64s
  <2> QED  BY <2>2, <2>3, <2>4
<1>5. CASE u >= Ln2
  <2> DEFINE inner == Mul(U64(FromUint32(j) + v), Ln2)
             e == (j * Digit + v) * Ln2
  <2>1. delta = Mul(inner, m) /\ v \in 0 .. Digit - 1
    BY <1>3, <1>5, Constants DEF MadeOfDeviate, m
  <2>2. /\ inner \in Nat /\ inner <= (Bits + 1) * Ln2
        /\ inner * Digit <= e /\ e < inner * Digit + Digit
    BY <1>3, <2>1, LongDeviate
  <2>3. Deviate = e
    <3>1. ~ u < Ln2  BY <1>3, <1>5, Constants
    <3>2. j * Ln2 * Digit + v * Ln2 = e  BY <1>3, Constants
    <3> QED  BY <3>1, <3>2 DEF Deviate
  <2>4. e \in Nat  BY <1>3, Constants
  <2> HIDE DEF inner, e
  <2>5. /\ delta \in Num64s /\ delta * Word <= inner * Digit * m
        /\ inner * Digit * m < (delta + 1) * Word
        /\ delta * Digit <= (Bits + 1) * Ln2 * m
    BY <1>2, <2>1, <2>2, TimesMean
  <2>6. inner * Digit * m <= e * m
    <3> DEFINE p == inner * Digit
    <3>1. p \in Nat /\ p <= e  BY <2>2, Constants
    <3> HIDE DEF p
    <3>2. p * m <= e * m  BY <1>2, <2>4, <3>1
    <3> QED  BY <3>2 DEF p
  <2>7. e * m <= inner * Digit * m + m * Digit
    <3> DEFINE p == inner * Digit + Digit
    <3>1. p \in Nat /\ e <= p  BY <2>2, <2>4, Constants
    <3>2. p * m = inner * Digit * m + m * Digit  BY <1>2, <2>2, Constants
    <3> HIDE DEF p
    <3>3. e * m <= p * m  BY <1>2, <2>4, <3>1
    <3> QED  BY <3>2, <3>3
  <2>8. /\ m * Digit \in Nat /\ (delta + 1) * Word \in Nat /\ inner * Digit * m \in Nat
        /\ e * m \in Nat /\ delta * Word \in Nat
    BY <1>2, <2>2, <2>4, <2>5, Constants, WordFacts DEF Num64s
  <2> QED  BY <2>3, <2>5, <2>6, <2>7, <2>8
<1> QED  BY <1>3, <1>4, <1>5, Constants

-----------------------------------------------------------------------------
LEMMA DelivererIsLast ==
  ASSUME NEW d, slot \in 0 .. Len(Slots) - 1, Deliver(d)
  PROVE  slot' \in 0 .. Len(Slots) - 1 /\ LastSlot' = Slot
BY SlotBefore, Constants DEF Deliver, LastSlot, Slot

LEMMA SchedInvInit == Init => SchedInv
BY Constants DEF Init, ScheduleInit, SchedInv, Uniforms

LEMMA SchedInvNext == SchedInv /\ [Next]_vars => SchedInv'
<1> USE DEF SchedInv, Uniforms
<1>1. SUFFICES ASSUME SchedInv, [Next]_vars PROVE SchedInv'  OBVIOUS
<1>2. ASSUME Ask, slot' = slot PROVE SchedInv'
  <2>1. schedPC' = "next" /\ j' = 0 /\ u' = 0 /\ v' = Digit /\ left' = 0
    BY <1>2 DEF Ask
  <2>2. 0 \in 0 .. Bits /\ 0 \in 0 .. Digit - 1 /\ Digit \in 0 .. Digit  BY Constants
  <2>3. schedPC' # "draw" /\ schedPC' # "ready"  BY <2>1
  <2> QED  BY <1>1, <1>2, <2>1, <2>2, <2>3
<1>3. CASE ChooseStart  BY <1>2, <1>3 DEF ChooseStart
<1>4. CASE Literal
  <2>1. Slot.type = "literal" /\ Deliver(Slot.mean) /\ UNCHANGED <<j, u, v, left>>
    BY <1>4 DEF Literal
  <2>2. slot' \in 0 .. Len(Slots) - 1 /\ LastSlot' = Slot
    BY <1>1, <2>1, DelivererIsLast
  <2> QED  BY <1>1, <2>1, <2>2 DEF Deliver
<1>5. ASSUME NEW x \in Uniforms, DrawFirst(x) PROVE SchedInv'
  <2>1. j' \in 0 .. Bits /\ u' \in Uniforms
    <3>1. PICK n \in 0 .. Bits : j' = n /\ u' = (x * Pow2[n + 1]) % Digit
      BY <1>5 DEF DrawFirst, Rest
    <3>2. n + 1 \in Nat  BY <3>1, Constants
    <3>3. Pow2[n + 1] \in Int  BY <3>2, Pow2Step
    <3>4. x * Pow2[n + 1] \in Int  BY <1>5, <3>3, Constants
    <3>5. (x * Pow2[n + 1]) % Digit \in 0 .. Digit - 1  BY <3>4, Constants, IntDivision
    <3> QED  BY <3>1, <3>5
  <2>2. Slot.type = "exp" /\ v' = v  BY <1>5 DEF DrawFirst
  <2>3. CASE u' < Ln2
    <3>1. /\ Deliver(Mul(U64(Mul(FromUint32(j'), Ln2) + u'), Slot.mean))
          /\ left' = left
      BY <1>5, <2>3 DEF DrawFirst
    <3>2. slot' \in 0 .. Len(Slots) - 1 /\ LastSlot' = Slot
      BY <1>1, <3>1, DelivererIsLast
    <3>3. schedPC' = "ready" /\ delta' = Mul(U64(Mul(FromUint32(j'), Ln2) + u'), LastSlot'.mean)
      BY <3>1, <3>2 DEF Deliver
    <3>4. MadeOfDeviate'  BY <2>3, <3>3 DEF MadeOfDeviate
    <3> QED  BY <1>1, <2>1, <2>2, <3>1, <3>2, <3>3, <3>4
  <2>4. CASE ~ u' < Ln2
    <3>1. /\ schedPC' = "draw" /\ slot' = slot
          /\ left' \in 2 .. Len(ExpQ) + 1
      BY <1>5, <2>4 DEF DrawFirst
    <3>2. Len(ExpQ) \in Nat  BY ExpQAssumption
    <3>3. u' >= Ln2 /\ Slot' = Slot  BY <2>1, <2>4, <3>1, Constants DEF Slot
    <3> QED  BY <1>1, <2>1, <2>2, <3>1, <3>2, <3>3
  <2> QED  BY <2>3, <2>4
<1>6. ASSUME NEW x \in Uniforms, DrawMore(x) PROVE SchedInv'
  <2>1. /\ schedPC = "draw" /\ j' = j /\ u' = u /\ left' = left - 1
        /\ v' = IF x < v THEN x ELSE v
    BY <1>6 DEF DrawMore
  <2>2. v' \in 0 .. Digit - 1 /\ left' \in Nat /\ u' >= Ln2 /\ Slot.type = "exp"
    BY <1>1, <1>6, <2>1, Constants
  <2>3. CASE left' = 0
    <3>1. Deliver(Mul(Mul(U64(FromUint32(j) + v'), Ln2), Slot.mean))
      BY <1>6, <2>3 DEF DrawMore
    <3>2. slot' \in 0 .. Len(Slots) - 1 /\ LastSlot' = Slot
      BY <1>1, <3>1, DelivererIsLast
    <3>3. schedPC' = "ready" /\ delta' = Mul(Mul(U64(FromUint32(j') + v'), Ln2), LastSlot'.mean)
      BY <2>1, <3>1, <3>2 DEF Deliver
    <3>4. MadeOfDeviate'  BY <2>2, <3>3, Constants DEF MadeOfDeviate
    <3> QED  BY <1>1, <2>1, <2>2, <3>2, <3>3, <3>4, Constants
  <2>4. CASE left' # 0
    <3>1. slot' = slot /\ schedPC' = "draw"  BY <1>6, <2>1, <2>4 DEF DrawMore
    <3>2. Slot' = Slot  BY <3>1 DEF Slot
    <3> QED  BY <1>1, <2>1, <2>2, <2>4, <3>1, <3>2, Constants
  <2> QED  BY <2>3, <2>4
<1>7. CASE AddPacket
  <2>1. slot' = slot  BY <1>7 DEF AddPacket
  <2>2. CASE Ask  BY <1>2, <2>1, <2>2
  <2>3. CASE schedPC' = "idle" /\ UNCHANGED <<j, u, v, left>>
    BY <1>1, <2>1, <2>3
  <2> QED  BY <1>7, <2>2, <2>3 DEF AddPacket
<1>8. CASE UNCHANGED schedVars
  BY <1>1, <1>8 DEF schedVars, randVars, Slot, LastSlot, MadeOfDeviate
<1>9. CASE Interval  BY <1>4, <1>5, <1>6, <1>9 DEF Interval, NextDelta
<1>10. CASE \E lag \in Lags, trip \in Trips, h \in Hosts : Exchange(lag, trip, h)
  BY <1>8, <1>10 DEF Exchange
<1>11. CASE UNCHANGED vars  BY <1>8, <1>11 DEF vars
<1> QED  BY <1>1, <1>3, <1>7, <1>9, <1>10, <1>11 DEF Next, Done

(* Every interval is the exponential deviate of algorithm S times the      *)
(* mean, but for two truncations (schedule.go:89-124, num64.go:63-84).     *)
THEOREM IntervalsExact == Spec => []IntervalExact
<1>1. Spec => []SchedInv  BY SchedInvInit, SchedInvNext, PTL DEF Spec
<1> QED  BY <1>1, IntervalFollows, PTL

-----------------------------------------------------------------------------
(* What is left of the first value is even, and so below the last entry of *)
(* the table.                                                              *)
LEMMA RestIsEven ==
  ASSUME NEW x \in Uniforms, NEW n \in 0 .. Bits
  PROVE  Rest(x, n) \in Uniforms /\ Rest(x, n) <= Digit - 2
<1> DEFINE b == Pow2[Bits - 1]
           a == x * Pow2[n]
           q == a \div b
           r == a % b
<1>1. b \in Nat \ {0} /\ Digit = 2 * b
  <2>1. Bits - 1 \in Nat /\ (Bits - 1) + 1 = Bits  BY BitsAssumption
  <2> QED  BY <2>1, Pow2Step, BitsAssumption
<1>2. a \in Nat /\ x * Pow2[n + 1] = 2 * a
  <2>1. n \in Nat /\ x \in Nat  BY Constants DEF Uniforms
  <2>2. Pow2[n] \in Nat /\ Pow2[n + 1] = 2 * Pow2[n]  BY <2>1, Pow2Step
  <2> QED  BY <2>1, <2>2
<1> HIDE DEF a, b
<1>3. q \in Nat /\ r \in 0 .. b - 1 /\ a = b * q + r  BY <1>1, <1>2, Division
<1> HIDE DEF q, r
<1>4. 2 * a = Digit * q + 2 * r /\ 2 * r \in 0 .. Digit - 1 /\ 2 * r <= Digit - 2
  BY <1>1, <1>2, <1>3
<1>5. (Digit * q + 2 * r) % Digit = 2 * r
  <2>1. q \in Int /\ Digit \in Nat \ {0}  BY <1>3, Constants
  <2> QED  BY <1>4, <2>1, DivisionUnique
<1>6. Rest(x, n) = 2 * r  BY <1>2, <1>4, <1>5 DEF Rest
<1> QED  BY <1>4, <1>6 DEF Uniforms

(* So the search of S3 ends within the table.                              *)
LEMMA LevelInTable ==
  ASSUME NEW w \in Uniforms, w <= Digit - 2, NEW k \in 2 .. Len(ExpQ) + 1, Level(w, k)
  PROVE  k \in 2 .. Len(ExpQ)
<1>1. Len(ExpQ) \in Nat /\ Len(ExpQ) >= 2 /\ ExpQ[Len(ExpQ)] = Digit - 1
  BY ExpQAssumption
<1>2. CASE k = Len(ExpQ) + 1
  <2>1. Len(ExpQ) \in 2 .. k - 1  BY <1>1, <1>2
  <2>2. w >= ExpQ[Len(ExpQ)]  BY <2>1 DEF Level
  <2> QED  BY <1>1, <2>2, Constants DEF Uniforms
<1> QED  BY <1>1, <1>2

(* The values of a block come in turn.                                     *)
DrawInv == ScheduleTypeOK /\ (block = -1 => counter = 0)

LEMMA UniformInTurn ==
  ASSUME DrawInv, Uniform
  PROVE  /\ counter' \in 0 .. CounterWrap - 1 /\ block' \in 0 .. CounterWrap - 1
         /\ LET read == (counter' - 1) % CounterWrap IN block' = read - (read % 4)
<1>1. /\ counter \in 0 .. CounterWrap - 1 /\ block \in -1 .. CounterWrap - 1
      /\ block = -1 => counter = 0
      /\ CounterWrap \in Nat \ {0}
      /\ block # -1 => block = ((counter - 1) % CounterWrap)
                                 - (((counter - 1) % CounterWrap) % 4)
  BY CounterAssumption DEF DrawInv, ScheduleTypeOK
<1>2. /\ block' = IF counter % 4 = 0 THEN counter ELSE block
      /\ counter' = (counter + 1) % CounterWrap
  BY DEF Uniform
<1>3. counter' \in 0 .. CounterWrap - 1 /\ (counter' - 1) % CounterWrap = counter
  BY <1>1, <1>2, SlotBefore
<1>4. block' \in 0 .. CounterWrap - 1 /\ block' = counter - (counter % 4)
  <2>1. CASE counter % 4 = 0  BY <1>1, <1>2, <2>1
  <2>2. CASE counter % 4 # 0
    <3>1. counter # 0 /\ block # -1 /\ block' = block  BY <1>1, <1>2, <2>2
    <3>2. (counter - 1) % CounterWrap = counter - 1
      <4> DEFINE c == counter - 1
      <4>1. c \in 0 .. CounterWrap - 1  BY <1>1, <3>1
      <4> HIDE DEF c
      <4>2. (CounterWrap * 0 + c) % CounterWrap = c  BY <1>1, <4>1, DivisionUnique
      <4>3. CounterWrap * 0 + c = c  BY <1>1, <4>1
      <4> QED  BY <4>2, <4>3 DEF c
    <3>3. block = (counter - 1) - ((counter - 1) % 4)  BY <1>1, <3>1, <3>2
    <3>4. (counter - 1) - ((counter - 1) % 4) = counter - (counter % 4)
      BY <1>1, <2>2
    <3> QED  BY <1>1, <3>1, <3>3, <3>4
  <2> QED  BY <2>1, <2>2
<1> QED  BY <1>3, <1>4

LEMMA DrawInvInit == Init => DrawInv
<1>1. Len(ExpQ) \in Nat /\ Len(Slots) \in Nat \ {0}  BY ExpQAssumption, Constants
<1>2. 0 \in Num64s /\ 0 \in Uniforms /\ Digit \in 0 .. Digit
  BY Units DEF Num64s, Uniforms
<1> QED
  BY <1>1, <1>2, Constants, CounterAssumption
  DEF Init, ScheduleInit, DrawInv, ScheduleTypeOK

LEMMA WordIsNum64 ==
  /\ \A n \in Nat : U64(n) \in Num64s
  /\ \A n \in 0 .. Digit - 1 : n \in Num64s
<1>1. \A n \in Nat : U64(n) \in Num64s  BY Units, Division DEF U64, Num64s
<1>2. Digit <= Word  BY Units
<1> QED  BY <1>1, <1>2, Units DEF Num64s

(* What NextDelta delivers is a Num64.                                     *)
LEMMA DeliverTyped ==
  ASSUME slot \in 0 .. Len(Slots) - 1, NEW x \in Num64s, Deliver(Mul(x, Slot.mean))
  PROVE  delta' \in Num64s /\ schedPC' = "ready"
<1>1. Slot.mean \in Num64s  BY Constants DEF Slot
<1> QED  BY <1>1, MulIsTruncatedProduct DEF Deliver

LEMMA DrawInvNext == DrawInv /\ SchedInv /\ [Next]_vars /\ SchedInv' => DrawInv'
<1> USE DEF DrawInv, ScheduleTypeOK
<1>1. SUFFICES ASSUME DrawInv, SchedInv, [Next]_vars, SchedInv' PROVE DrawInv'  OBVIOUS
<1> DEFINE PC == {"idle", "next", "draw", "ready"}
           T == /\ schedPC \in PC
                /\ left \in 0 .. Len(ExpQ)
                /\ schedPC = "draw" <=> left > 0
                /\ delta \in Num64s
           R == /\ counter \in 0 .. CounterWrap - 1 /\ block \in -1 .. CounterWrap - 1
                /\ block # -1 => LET read == (counter - 1) % CounterWrap
                                 IN  block = read - (read % 4)
                /\ block = -1 => counter = 0
<1>2. T /\ R  BY <1>1
<1>3. Len(ExpQ) \in Nat /\ Len(ExpQ) >= 2  BY ExpQAssumption
<1>4. T' /\ R' => DrawInv'  BY <1>1 DEF SchedInv
<1>5. UNCHANGED randVars => R'  BY <1>2 DEF randVars
<1>6. Uniform => R'
  <2>1. ASSUME Uniform PROVE R'
    <3>1. /\ counter' \in 0 .. CounterWrap - 1 /\ block' \in 0 .. CounterWrap - 1
          /\ LET read == (counter' - 1) % CounterWrap IN block' = read - (read % 4)
      BY <1>1, <2>1, UniformInTurn
    <3>2. CounterWrap \in Nat /\ block' # -1 /\ block' \in -1 .. CounterWrap - 1
      BY <3>1, CounterAssumption
    <3> QED  BY <3>1, <3>2
  <2> QED  BY <2>1
<1>7. ASSUME Ask, delta' = delta PROVE T'
  BY <1>2, <1>3, <1>7 DEF Ask
<1> HIDE DEF T, R
<1>8. CASE ChooseStart
  BY <1>4, <1>5, <1>7, <1>8 DEF ChooseStart
<1>9. CASE Literal
  <2>1. Slot.mean \in Num64s  BY <1>1, Constants DEF Slot, SchedInv
  <2>2. T'
    BY <1>2, <1>9, <2>1 DEF Literal, Deliver, T
  <2> QED  BY <1>4, <1>5, <1>9, <2>2 DEF Literal
<1>10. ASSUME NEW x \in Uniforms, DrawFirst(x) PROVE DrawInv'
  <2>1. R'  BY <1>6, <1>10 DEF DrawFirst
  <2>2. u' \in Uniforms /\ u' <= Digit - 2 /\ j' \in 0 .. Bits
    BY <1>10, RestIsEven DEF DrawFirst
  <2>3. T'
    <3>1. CASE u' < Ln2
      <4>1. /\ Deliver(Mul(U64(Mul(FromUint32(j'), Ln2) + u'), Slot.mean))
            /\ left' = left /\ left = 0 /\ left \in 0 .. Len(ExpQ)
        BY <1>2, <1>3, <1>10, <3>1 DEF DrawFirst, T
      <4>2. U64(Mul(FromUint32(j'), Ln2) + u') \in Num64s
        <5>1. j' * Digit \in Nat /\ Ln2 \in Num64s  BY <2>2, Constants, WordIsNum64
        <5>2. FromUint32(j') \in Num64s  BY <5>1, WordIsNum64 DEF FromUint32
        <5>3. Mul(FromUint32(j'), Ln2) \in Num64s  BY <5>1, <5>2, MulIsTruncatedProduct
        <5>4. Mul(FromUint32(j'), Ln2) + u' \in Nat
          BY <2>2, <5>3, Units DEF Num64s, Uniforms
        <5> QED  BY <5>4, WordIsNum64
      <4>3. delta' \in Num64s /\ schedPC' = "ready"
        BY <1>1, <4>1, <4>2, DeliverTyped DEF SchedInv
      <4> QED  BY <4>1, <4>3 DEF T
    <3>2. CASE ~ u' < Ln2
      <4>1. PICK k \in 2 .. Len(ExpQ) + 1 : Level(u', k) /\ left' = k
        BY <1>10, <3>2 DEF DrawFirst
      <4>2. k \in 2 .. Len(ExpQ)  BY <2>2, <4>1, LevelInTable
      <4>3. schedPC' = "draw" /\ delta' = delta  BY <1>10, <3>2 DEF DrawFirst
      <4> QED  BY <1>2, <1>3, <4>1, <4>2, <4>3 DEF T
    <3> QED  BY <3>1, <3>2
  <2> QED  BY <1>4, <2>1, <2>3
<1>11. ASSUME NEW x \in Uniforms, DrawMore(x) PROVE DrawInv'
  <2>1. R'  BY <1>6, <1>11 DEF DrawMore
  <2>2. /\ schedPC = "draw" /\ left' = left - 1 /\ j' = j
        /\ v' = IF x < v THEN x ELSE v
    BY <1>11 DEF DrawMore
  <2>3. left' \in 0 .. Len(ExpQ)  BY <1>2, <1>3, <2>2 DEF T
  <2>4. T'
    <3>1. CASE left' = 0
      <4>1. Deliver(Mul(Mul(U64(FromUint32(j) + v'), Ln2), Slot.mean))
        BY <1>11, <3>1 DEF DrawMore
      <4>2. Mul(U64(FromUint32(j) + v'), Ln2) \in Num64s
        <5>1. j * Digit \in Nat /\ Ln2 \in Num64s /\ v' \in Nat
          BY <1>1, Constants, WordIsNum64 DEF SchedInv
        <5>2. FromUint32(j) \in Num64s  BY <5>1, WordIsNum64 DEF FromUint32
        <5>3. FromUint32(j) + v' \in Nat  BY <5>1, <5>2, Units DEF Num64s
        <5>4. U64(FromUint32(j) + v') \in Num64s  BY <5>3, WordIsNum64
        <5> QED  BY <5>1, <5>4, MulIsTruncatedProduct
      <4>3. delta' \in Num64s /\ schedPC' = "ready"
        BY <1>1, <4>1, <4>2, DeliverTyped DEF SchedInv
      <4> QED  BY <1>3, <3>1, <4>3 DEF T
    <3>2. CASE left' # 0
      <4>1. schedPC' = schedPC /\ delta' = delta  BY <1>11, <3>2 DEF DrawMore
      <4> QED  BY <1>2, <2>2, <2>3, <3>2, <4>1 DEF T
    <3> QED  BY <3>1, <3>2
  <2> QED  BY <1>4, <2>1, <2>4
<1>12. CASE Interval  BY <1>9, <1>10, <1>11, <1>12 DEF Interval, NextDelta
<1>13. CASE AddPacket
  <2>1. R' /\ delta' = delta  BY <1>5, <1>13 DEF AddPacket
  <2>2. CASE Ask  BY <1>4, <1>7, <2>1, <2>2
  <2>3. CASE schedPC' = "idle" /\ left' = left
    BY <1>2, <1>4, <1>13, <2>1, <2>3 DEF AddPacket, T
  <2> QED  BY <1>13, <2>2, <2>3 DEF AddPacket
<1>14. CASE UNCHANGED schedVars
  BY <1>2, <1>4, <1>5, <1>14 DEF T, schedVars
<1>15. CASE \E lag \in Lags, trip \in Trips, h \in Hosts : Exchange(lag, trip, h)
  BY <1>14, <1>15 DEF Exchange
<1>16. CASE UNCHANGED vars  BY <1>14, <1>16 DEF vars
<1> QED  BY <1>1, <1>8, <1>12, <1>13, <1>15, <1>16 DEF Next, Done

-----------------------------------------------------------------------------
(* No interval is longer.                                                  *)
Longest == CHOOSE longest \in Num64s : Fits(longest)

LEMMA LongestFits == Longest \in Num64s /\ Longest \in Nat /\ Fits(Longest)
<1>1. Longest \in Num64s /\ Fits(Longest)  BY EraAssumption DEF Longest
<1> QED  BY <1>1, Units DEF Num64s

(* What the assumption on the era leaves room for.                         *)
LEMMA Room ==
  ASSUME NEW s \in Starts, NEW nanos \in Nat, InEra(s, nanos, Longest)
  PROVE  LET a == (s.at + nanos) \div Nano
             b == s.num \div s.den
         IN  /\ a \in Nat /\ b \in Nat /\ s.at \in Nat /\ s.rtt \in Num64s /\ s.rtt \in Nat
             /\ s.num \in Nat /\ s.den \in Nat \ {0}
             /\ a + JAN1970 < Digit /\ b < Digit /\ 2 < Digit
             /\ (a + JAN1970) * Digit + b * Digit + Digit + Digit
                  + 2 * s.rtt + NPackets * Longest < Word
             /\ (a + JAN1970) * Digit \in Nat /\ b * Digit \in Nat
             /\ NPackets * Longest \in Nat
<1> DEFINE a == (s.at + nanos) \div Nano
           b == s.num \div s.den
           m == NPackets * Longest
           r == 2 * s.rtt
           k == a + JAN1970 + b + 2
<1>1. s \in [at : Nat, rtt : Num64s, num : Nat, den : Nat \ {0}]  BY StartsAssumption
<1>2. /\ s.at \in Nat /\ s.rtt \in Num64s /\ s.num \in Nat /\ s.den \in Nat \ {0}
      /\ s.rtt \in Nat
  BY <1>1, Units DEF Num64s
<1>3. a \in Nat /\ b \in Nat
  <2>1. s.at + nanos \in Nat  BY <1>2
  <2> QED  BY <1>2, <2>1, Units, Division
<1>4. m \in Nat /\ r \in Nat  BY <1>2, LongestFits, PacketsAssumption
<1>5. k * Digit + r + m < Word  BY DEF InEra
<1> HIDE DEF a, b, m, r
<1>6. k * Digit \in Nat /\ k \in Nat  BY <1>3, Units
<1>7. k * Digit < Word
  <2> HIDE DEF k
  <2> QED  BY <1>4, <1>5, <1>6, Units
<1>8. k < Digit
  <2> HIDE DEF k
  <2>1. SUFFICES ASSUME k >= Digit PROVE FALSE  BY <1>6, Units
  <2>2. k * Digit >= Digit * Digit  BY <1>6, <2>1, Units
  <2> QED  BY <1>6, <1>7, <2>2, Units
<1>9. k * Digit = (a + JAN1970) * Digit + b * Digit + Digit + Digit  BY <1>3, Units
<1>10. (a + JAN1970) * Digit \in Nat /\ b * Digit \in Nat  BY <1>3, Units
<1>11. a + JAN1970 < Digit /\ b < Digit /\ 2 < Digit  BY <1>3, <1>8, Units
<1>12. (a + JAN1970) * Digit + b * Digit + Digit + Digit + r + m < Word
  BY <1>5, <1>9
<1> QED  BY <1>2, <1>3, <1>4, <1>10, <1>11, <1>12 DEF a, b, m, r

(* Every slot, and so every interval.                                      *)
LEMMA IntervalIsShort ==
  ASSUME SchedInv, schedPC = "ready", delta \in Num64s
  PROVE  delta <= Longest
<1> DEFINE k == ((slot - 1) % Len(Slots)) + 1
<1>1. k \in DOMAIN Slots /\ LastSlot = Slots[k]
  <2>1. slot - 1 \in Int /\ Len(Slots) \in Nat \ {0}
    BY Constants DEF SchedInv
  <2>2. (slot - 1) % Len(Slots) \in 0 .. Len(Slots) - 1  BY <2>1, IntDivision
  <2>3. DOMAIN Slots = 1 .. Len(Slots)  BY SlotsAssumption
  <2> QED  BY <2>1, <2>2, <2>3 DEF LastSlot
<1> HIDE DEF k
<1>2. LastSlot \in [type : {"exp", "literal"}, mean : Num64s]
  <2>1. k \in 1 .. Len(Slots)  BY <1>1, SlotsAssumption
  <2> QED  BY <1>1, <2>1, SlotsAssumption, Element
<1> DEFINE m == LastSlot.mean
<1>3. m <= Longest /\ (Bits + 1) * Ln2 * m <= Longest * Digit
  BY <1>1, LongestFits DEF Fits
<1>4. m \in Nat /\ delta \in Nat /\ Longest \in Nat
  BY <1>2, LongestFits, Units DEF Num64s
<1> HIDE DEF m
<1>5. CASE LastSlot.type = "literal"
  BY <1>3, <1>5 DEF SchedInv, m
<1>6. CASE LastSlot.type = "exp"
  <2>1. delta * Digit <= (Bits + 1) * Ln2 * m
    BY <1>6, IntervalFollows DEF IntervalExact, m
  <2>2. (Bits + 1) * Ln2 * m \in Nat  BY <1>4, Constants
  <2>3. delta * Digit <= Longest * Digit
    <3>1. delta * Digit \in Nat /\ Longest * Digit \in Nat  BY <1>4, Units
    <3> QED  BY <1>3, <2>1, <2>2, <3>1
  <2>4. CASE delta >= Longest + 1
    <3>1. delta * Digit >= (Longest + 1) * Digit  BY <1>4, <2>4, Units
    <3>2. (Longest + 1) * Digit = Longest * Digit + Digit  BY <1>4, Units
    <3>3. Longest * Digit \in Nat /\ delta * Digit \in Nat  BY <1>4, Units
    <3> QED  BY <2>3, <3>1, <3>2, <3>3, Units
  <2> QED  BY <1>4, <2>4
<1> QED  BY <1>2, <1>5, <1>6

(* The delay of the start is all that run asks for, and there is room for  *)
(* it and for the whole session.                                           *)
LEMMA StartDelayIs ==
  ASSUME chosen \in Starts
  PROVE  /\ StartDelay \in Nat
         /\ StartDelay >= Digit /\ StartDelay >= 2 * chosen.rtt
         /\ chosen.num * Digit < StartDelay * chosen.den + chosen.den
         /\ StartDelay <= Digit + 2 * chosen.rtt + (chosen.num \div chosen.den) * Digit
<1> DEFINE s == chosen
           b == s.num \div s.den
           r == 2 * s.rtt
           m == NPackets * Longest
           a == (s.at + 0) \div Nano
<1>1. InEra(s, 0, Longest)  BY LongestFits DEF Fits
<1>2. /\ a \in Nat /\ b \in Nat /\ s.rtt \in Num64s /\ s.rtt \in Nat
      /\ s.num \in Nat /\ s.den \in Nat \ {0} /\ b < Digit /\ 2 < Digit
      /\ (a + JAN1970) * Digit + b * Digit + Digit + Digit + r + m < Word
      /\ (a + JAN1970) * Digit \in Nat /\ b * Digit \in Nat /\ m \in Nat
  BY <1>1, Room
<1>3. Digit + r \in Num64s /\ r \in Num64s /\ r \in Nat
  <2> DEFINE x == (a + JAN1970) * Digit  y == b * Digit
  <2>1. x \in Nat /\ y \in Nat /\ r \in Nat /\ x + y + Digit + Digit + r + m < Word
    BY <1>2
  <2> HIDE DEF x, y, r, m
  <2> QED  BY <1>2, <2>1, Units DEF Num64s
<1>4. FromUint32(1) = Digit /\ FromUint32(2) = 2 * Digit /\ 2 * Digit \in Num64s
  <2>1. 1 \in 0 .. Digit - 1 /\ 2 \in 0 .. Digit - 1  BY <1>2, Units
  <2> QED  BY <2>1, WholeSeconds, Units DEF FromUint32
<1>5. Mul(s.rtt, 2 * Digit) = r
  <2>1. s.rtt * (2 * Digit) = Digit * r + 0  BY <1>2, Units
  <2>2. (Digit * r + 0) \div Digit = r
    <3>1. r \in Int /\ 0 \in 0 .. Digit - 1  BY <1>3, Units
    <3> HIDE DEF r
    <3> QED  BY <3>1, Units, DivisionUnique
  <2>3. Mul(s.rtt, 2 * Digit) = U64((s.rtt * (2 * Digit)) \div Digit)
    BY <1>2, <1>4, MulIsTruncatedProduct
  <2> QED  BY <1>3, <2>1, <2>2, <2>3, Digits
<1> DEFINE least == U64(FromUint32(1) + Mul(s.rtt, FromUint32(2)))
           asked == FromFloat(s.num, s.den)
<1>6. least = Digit + r
  <2>1. U64(Digit + r) = Digit + r  BY <1>3, Digits
  <2> QED  BY <1>4, <1>5, <2>1
<1>7. /\ asked \in Nat /\ s.num * Digit < asked * s.den + s.den
      /\ asked < b * Digit + Digit
  <2>1. /\ asked \in Num64s /\ s.num * Digit < asked * s.den + s.den
        /\ asked < b * Digit + Digit
    BY <1>2, FixedPoint DEF FromFloat
  <2> QED  BY <2>1, Units DEF Num64s
<1>8. StartDelay = IF asked > least THEN asked ELSE least  BY DEF StartDelay
<1> HIDE DEF asked, least
<1>9. CASE asked > least
  <2>1. StartDelay = asked  BY <1>8, <1>9
  <2>2. StartDelay >= Digit /\ StartDelay >= r  BY <1>3, <1>6, <1>7, <1>9, <2>1, Units
  <2>3. StartDelay <= Digit + r + b * Digit
    <3> DEFINE y == b * Digit
    <3>1. y \in Nat /\ asked < y + Digit  BY <1>2, <1>7
    <3> HIDE DEF y, r
    <3> QED  BY <1>3, <1>7, <2>1, <3>1, Units DEF y
  <2> QED  BY <1>7, <2>1, <2>2, <2>3
<1>10. CASE ~ asked > least
  <2>1. StartDelay = least /\ least \in Nat  BY <1>3, <1>6, <1>8, <1>10, Units
  <2>2. StartDelay >= Digit /\ StartDelay >= r  BY <1>3, <1>6, <2>1, Units
  <2>3. StartDelay <= Digit + r + b * Digit
    <3> DEFINE y == b * Digit
    <3>1. y \in Nat  BY <1>2
    <3> HIDE DEF y, r
    <3> QED  BY <1>3, <1>6, <2>1, <3>1, Units DEF y
  <2>4. s.num * Digit < least * s.den + s.den
    <3>1. asked <= least  BY <1>7, <1>10, <2>1
    <3>2. asked * s.den <= least * s.den  BY <1>2, <1>7, <2>1, <3>1
    <3>3. asked * s.den \in Nat /\ least * s.den \in Nat /\ s.num * Digit \in Nat
      BY <1>2, <1>7, <2>1, Units
    <3> QED  BY <1>2, <1>7, <3>2, <3>3
  <2> QED  BY <2>1, <2>2, <2>3, <2>4
<1> QED  BY <1>9, <1>10

-----------------------------------------------------------------------------
(* The sum never wraps, the start is where run asked for it, and the last  *)
(* packet is due the whole sum later: nothing is rounded on the way.       *)
PlanInv ==
  /\ timesPC \in {"start", "plan", "planned", "done"}
  /\ chosen \in Starts
  /\ count \in 0 .. NPackets
  /\ timesPC = "start" => count = 0 /\ startTime = 0
  /\ timesPC = "plan" => count < NPackets
  /\ sum \in Nat /\ cum = sum /\ sum <= count * Longest
  /\ timesPC # "start" => /\ startTime = FromTime(chosen.at) + StartDelay
                          /\ when = AbsTime(startTime) + Duration(sum)

TimesInv == SchedInv /\ DrawInv /\ PlanInv

(* The whole session fits in the 64 bits.                                  *)
LEMMA SessionFits ==
  ASSUME chosen \in Starts
  PROVE  LET start == FromTime(chosen.at) + StartDelay
         IN  /\ FromTime(chosen.at) \in Num64s /\ start \in Num64s
             /\ start + NPackets * Longest < Word
             /\ NPackets * Longest \in Nat
<1> DEFINE s == chosen
           a == (s.at + 0) \div Nano
           b == s.num \div s.den
           r == 2 * s.rtt
           m == NPackets * Longest
           x == (a + JAN1970) * Digit
           y == b * Digit
           f == FromTime(s.at)
<1>1. InEra(s, 0, Longest)  BY LongestFits DEF Fits
<1>2. /\ s.at \in Nat /\ s.rtt \in Nat /\ a + JAN1970 < Digit
      /\ x + y + Digit + Digit + r + m < Word
      /\ x \in Nat /\ y \in Nat /\ m \in Nat
  BY <1>1, Room
<1>3. s.at + 0 = s.at  BY <1>2
<1>4. f \in Num64s /\ f < x + Digit  BY <1>2, <1>3, FromTimeExact
<1>5. StartDelay \in Nat /\ StartDelay <= Digit + r + y  BY StartDelayIs
<1>6. f \in Nat /\ r \in Nat  BY <1>2, <1>4, Units DEF Num64s
<1> HIDE DEF x, y, f, m, r, a
<1>7. f + StartDelay + m < Word /\ f + StartDelay \in Nat
  BY <1>2, <1>4, <1>5, <1>6, Units
<1>8. f + StartDelay \in Num64s  BY <1>2, <1>7, Units DEF Num64s
<1> QED  BY <1>2, <1>4, <1>7, <1>8 DEF f, m

LEMMA DurationOfNothing == Duration(0) = 0
<1>1. 0 \in Num64s  BY Units DEF Num64s
<1>2. Duration(0) \in Nat /\ Duration(0) * Digit <= 0 * Nano  BY <1>1, DurationExact
<1>3. Duration(0) * Digit >= Duration(0)  BY <1>2, Units
<1>4. Duration(0) * Digit \in Nat /\ 0 * Nano = 0  BY <1>2, Units
<1> QED  BY <1>2, <1>3, <1>4

LEMMA PlanInvInit == Init => PlanInv
BY PacketsAssumption, LongestFits DEF Init, PlanInv

LEMMA PlanInvNext == TimesInv /\ [Next]_vars => PlanInv'
<1>1. SUFFICES ASSUME TimesInv, [Next]_vars PROVE PlanInv'  OBVIOUS
<1>2. SchedInv /\ DrawInv /\ PlanInv  BY <1>1 DEF TimesInv
<1>3. CASE ChooseStart
  <2>1. /\ timesPC = "start" /\ timesPC' = "plan" /\ chosen' = chosen
        /\ count' = count /\ cum' = cum /\ sum' = sum
        /\ startTime' = U64(FromTime(chosen.at) + StartDelay)
        /\ when' = AbsTime(startTime')
    BY <1>3 DEF ChooseStart
  <2>2. count = 0 /\ sum = 0 /\ cum = 0
    BY <1>2, <2>1, LongestFits DEF PlanInv
  <2>3. startTime' = FromTime(chosen.at) + StartDelay /\ startTime' \in Num64s
    BY <1>2, <2>1, SessionFits, Digits DEF PlanInv
  <2>4. AbsTime(startTime') \in Int
    <3>1. /\ Duration(startTime') \in Nat
          /\ AbsTime(startTime') = Duration(startTime') - JAN1970 * Nano
      BY <2>3, DurationExact
    <3> QED  BY <3>1, Units
  <2>5. when' = AbsTime(startTime') + Duration(sum')
    BY <2>1, <2>2, <2>4, DurationOfNothing
  <2>6. StartDelay' = StartDelay  BY <2>1 DEF StartDelay
  <2> QED
    BY <1>2, <2>1, <2>2, <2>3, <2>5, <2>6, PacketsAssumption, LongestFits DEF PlanInv
<1>4. CASE UNCHANGED <<planVars, timesPC>>
  BY <1>2, <1>4 DEF PlanInv, planVars, StartDelay
<1>5. CASE AddPacket
  <2>1. /\ timesPC = "plan" /\ schedPC = "ready"
        /\ cum' = U64(cum + delta) /\ sum' = sum + delta
        /\ when' = AbsTime(startTime) + Duration(cum')
        /\ count' = count + 1
        /\ chosen' = chosen /\ startTime' = startTime
        /\ timesPC' = IF count' < NPackets THEN timesPC ELSE "planned"
    BY <1>5 DEF AddPacket
  <2>2. delta \in Num64s  BY <1>2 DEF DrawInv, ScheduleTypeOK
  <2>3. delta \in Nat /\ delta <= Longest
    BY <1>2, <2>1, <2>2, IntervalIsShort, Units DEF Num64s
  <2>4. /\ chosen \in Starts /\ count \in Nat /\ count < NPackets
        /\ sum \in Nat /\ cum = sum /\ sum <= count * Longest
        /\ startTime = FromTime(chosen.at) + StartDelay
    BY <1>2, <2>1 DEF PlanInv
  <2>5. sum + delta <= (count + 1) * Longest
    <3>1. (count + 1) * Longest = count * Longest + Longest  BY <2>4, LongestFits
    <3>2. count * Longest \in Nat  BY <2>4, LongestFits
    <3> QED  BY <2>3, <2>4, <3>1, <3>2, LongestFits
  <2>6. (count + 1) * Longest <= NPackets * Longest
    BY <2>4, PacketsAssumption, LongestFits
  <2>7. sum + delta \in Num64s
    <3>1. /\ startTime \in Num64s /\ startTime + NPackets * Longest < Word
          /\ NPackets * Longest \in Nat
      BY <2>4, SessionFits
    <3>2. startTime \in Nat /\ (count + 1) * Longest \in Nat
      BY <2>4, <3>1, Units, LongestFits DEF Num64s
    <3>3. sum + delta < Word  BY <2>3, <2>4, <2>5, <2>6, <3>1, <3>2, Units
    <3> QED  BY <2>3, <2>4, <3>3, Units DEF Num64s
  <2>8. cum' = sum'  BY <2>1, <2>4, <2>7, Digits
  <2>9. StartDelay' = StartDelay  BY <2>1 DEF StartDelay
  <2>10. sum' \in Nat /\ sum' <= count' * Longest  BY <2>1, <2>3, <2>4, <2>5
  <2>11. /\ count' \in 0 .. NPackets
         /\ timesPC' = "plan" => count' < NPackets
         /\ timesPC' \in {"plan", "planned"}
    BY <2>1, <2>4, PacketsAssumption
  <2>12. startTime' = FromTime(chosen'.at) + StartDelay'  BY <2>1, <2>4, <2>9
  <2>13. when' = AbsTime(startTime') + Duration(sum')  BY <2>1, <2>8
  <2> QED  BY <2>1, <2>4, <2>8, <2>10, <2>11, <2>12, <2>13 DEF PlanInv
<1>6. CASE Interval  BY <1>4, <1>6 DEF Interval
<1>7. CASE \E lag \in Lags, trip \in Trips, h \in Hosts : Exchange(lag, trip, h)
  BY <1>2, <1>7 DEF Exchange, PlanInv, planVars, StartDelay
<1>8. CASE UNCHANGED vars  BY <1>4, <1>8 DEF vars
<1> QED  BY <1>1, <1>3, <1>5, <1>6, <1>7, <1>8 DEF Next, Done

LEMMA SumFits ==
  ASSUME PlanInv
  PROVE  sum \in Num64s /\ sum <= NPackets * Longest
<1>1. /\ chosen \in Starts /\ count \in Nat /\ count <= NPackets
      /\ sum \in Nat /\ sum <= count * Longest
  BY PacketsAssumption DEF PlanInv
<1>2. count * Longest <= NPackets * Longest /\ count * Longest \in Nat
  BY <1>1, PacketsAssumption, LongestFits
<1> DEFINE x == FromTime(chosen.at) + StartDelay
           m == NPackets * Longest
<1>3. x \in Num64s /\ x + m < Word /\ m \in Nat  BY <1>1, SessionFits
<1>4. x \in Nat  BY <1>3, Units DEF Num64s
<1> HIDE DEF x
<1>5. sum <= m /\ sum < Word  BY <1>1, <1>2, <1>3, <1>4, Units
<1> QED  BY <1>1, <1>5, Units DEF Num64s

(* The invariant of the schedule, its draws and its sum: no word of them   *)
(* overflows, and the sum of the code is the sum without bounds            *)
(* (schedule.go:60-163, session.go:217-226).                               *)
THEOREM TimesInvariant == Spec => []TimesInv
<1>1. Init => TimesInv  BY SchedInvInit, DrawInvInit, PlanInvInit DEF TimesInv
<1>2. TimesInv /\ [Next]_vars => TimesInv'
  BY SchedInvNext, DrawInvNext, PlanInvNext DEF TimesInv
<1> QED  BY <1>1, <1>2, PTL DEF Spec

(* The counters stay in their bounds, and each block of AES is used for    *)
(* four values in turn (schedule.go:60-124, session.go:217-226).           *)
THEOREM TimesTyped == Spec => []TimesTypeOK
<1>1. TimesInv => TimesTypeOK
  <2>1. SUFFICES ASSUME TimesInv PROVE TimesTypeOK  OBVIOUS
  <2>2. DrawInv /\ PlanInv  BY <2>1 DEF TimesInv
  <2>3. startTime \in Num64s
    <3>1. CASE timesPC = "start"  BY <2>2, <3>1, WordIsNum64, Units DEF PlanInv
    <3>2. CASE timesPC # "start"  BY <2>2, <3>2, SessionFits DEF PlanInv
    <3> QED  BY <3>1, <3>2
  <2>4. cum \in Num64s  BY <2>2, SumFits DEF PlanInv
  <2> QED  BY <2>2, <2>3, <2>4 DEF DrawInv, PlanInv, TimesTypeOK
<1> QED  BY <1>1, TimesInvariant, PTL

(* The start is ahead of the choice by the delay, but for the roundings.   *)
LEMMA StartIsAhead ==
  ASSUME PlanInv, timesPC # "start"
  PROVE  LET ahead == (AbsTime(startTime) - chosen.at + 2) * Digit
         IN  ahead \in Int /\ ahead >= StartDelay * Nano + Nano
<1> DEFINE s == chosen
           f == FromTime(s.at)
           a == s.at + JAN1970 * Nano
           d == Duration(startTime)
<1>1. s \in Starts /\ startTime = f + StartDelay  BY DEF PlanInv
<1>2. f \in Num64s /\ startTime \in Num64s  BY <1>1, SessionFits
<1>3. StartDelay \in Nat  BY <1>1, StartDelayIs
<1>4. s.at \in Nat /\ s.at \div Nano + JAN1970 < Digit
  <2>1. InEra(s, 0, Longest)  BY <1>1, LongestFits DEF Fits
  <2>2. s.at \in Nat /\ (s.at + 0) \div Nano + JAN1970 < Digit  BY <1>1, <2>1, Room
  <2>3. s.at + 0 = s.at  BY <2>2
  <2> QED  BY <2>2, <2>3
<1>5. a * Digit < f * Nano + Nano  BY <1>4, FromTimeExact
<1>6. /\ d \in Nat /\ startTime * Nano < d * Digit + Digit
      /\ AbsTime(startTime) = d - JAN1970 * Nano
  BY <1>2, DurationExact
<1>7. a \in Nat /\ f \in Nat /\ JAN1970 * Nano \in Nat
  BY <1>2, <1>4, Units DEF Num64s
<1>8. AbsTime(startTime) - s.at = d - a  BY <1>4, <1>6, <1>7
<1> DEFINE x == f * Nano  y == StartDelay * Nano  z == a * Digit  w == d * Digit
<1>9. x \in Nat /\ y \in Nat /\ z \in Nat /\ w \in Nat  BY <1>3, <1>6, <1>7, Units
<1>10. startTime * Nano = x + y  BY <1>1, <1>3, <1>7, Units
<1>11. (d - a + 2) * Digit = w - z + 2 * Digit  BY <1>6, <1>7, Units
<1>12. z < x + Nano /\ x + y < w + Digit  BY <1>5, <1>6, <1>10
<1> HIDE DEF x, y, z, w, f, a, d
<1>13. w - z + 2 * Digit \in Int /\ w - z + 2 * Digit >= y + Nano
  BY <1>9, <1>12, Units
<1> QED  BY <1>8, <1>11, <1>13 DEF y

(* No packet is due before the delay that was asked for, and every packet  *)
(* is due where the sum of the intervals puts it, to the nanosecond        *)
(* (session.go:217-226, twping.go:371-375).                                *)
THEOREM ScheduleIsKept == Spec => []ScheduleKept
<1>1. TimesInv => ScheduleKept
  <2>1. SUFFICES ASSUME TimesInv, timesPC # "start"
        PROVE LET start == AbsTime(startTime)
                  ahead == (start - chosen.at + 2) * Digit
              IN  /\ ahead >= Digit * Nano
                  /\ ahead >= 2 * chosen.rtt * Nano
                  /\ ahead * chosen.den >= chosen.num * Digit * Nano
                  /\ (when - start) * Digit <= sum * Nano
                  /\ sum * Nano < (when - start + 1) * Digit
    BY DEF ScheduleKept
  <2>2. PlanInv  BY <2>1 DEF TimesInv
  <2> DEFINE start == AbsTime(startTime)
             ahead == (start - chosen.at + 2) * Digit
             sd == StartDelay
             e == Duration(sum)
  <2>3. chosen \in Starts /\ startTime \in Num64s /\ when = start + e
    BY <2>1, <2>2, SessionFits DEF PlanInv
  <2>4. ahead \in Int /\ ahead >= sd * Nano + Nano  BY <2>1, <2>2, StartIsAhead
  <2>5. /\ sd \in Nat /\ sd >= Digit /\ sd >= 2 * chosen.rtt
        /\ chosen.num * Digit < sd * chosen.den + chosen.den
    BY <2>3, StartDelayIs
  <2>6. /\ chosen.rtt \in Nat /\ chosen.num \in Nat /\ chosen.den \in Nat \ {0}
    <3>1. chosen \in [at : Nat, rtt : Num64s, num : Nat, den : Nat \ {0}]
      BY <2>3, StartsAssumption
    <3> QED  BY <3>1, Units DEF Num64s
  <2>7. start \in Int
    <3>1. Duration(startTime) \in Nat /\ start = Duration(startTime) - JAN1970 * Nano
      BY <2>3, DurationExact
    <3> QED  BY <3>1, Units
  <2>8. e \in Nat /\ e * Digit <= sum * Nano /\ sum * Nano < e * Digit + Digit
    BY <2>2, SumFits, DurationExact
  <2> HIDE DEF start, ahead, sd, e
  <2>9. sd * Nano >= Digit * Nano /\ sd * Nano >= 2 * chosen.rtt * Nano
    <3>1. sd * Nano >= Digit * Nano  BY <2>5, Units
    <3> DEFINE r == 2 * chosen.rtt
    <3>2. r \in Nat /\ sd >= r  BY <2>5, <2>6
    <3> HIDE DEF r
    <3>3. sd * Nano >= r * Nano  BY <2>5, <3>2, Units
    <3> QED  BY <3>1, <3>3 DEF r
  <2>10. ahead >= Digit * Nano /\ ahead >= 2 * chosen.rtt * Nano
    BY <2>4, <2>5, <2>6, <2>9, Units
  <2>11. ahead * chosen.den >= chosen.num * Digit * Nano
    <3> DEFINE n == chosen.num * Digit
               d == chosen.den
               p == sd * d + d
    <3>1. n \in Nat /\ d \in Nat \ {0} /\ p \in Nat /\ n < p
      BY <2>5, <2>6, Units
    <3>2. (sd * Nano + Nano) * d = p * Nano  BY <2>5, <2>6, Units
    <3> HIDE DEF n, d, p
    <3>3. ahead * d >= (sd * Nano + Nano) * d
      <4> DEFINE q == sd * Nano + Nano
      <4>1. q \in Nat /\ ahead >= q  BY <2>4, <2>5, Units
      <4> HIDE DEF q
      <4>2. ahead * d >= q * d  BY <2>4, <3>1, <4>1
      <4> QED  BY <4>2 DEF q
    <3>4. p * Nano >= n * Nano  BY <3>1, Units
    <3>5. ahead * d \in Int /\ p * Nano \in Int /\ n * Nano \in Int
      BY <2>4, <3>1, Units
    <3> QED  BY <3>2, <3>3, <3>4, <3>5 DEF n, d
  <2>12. when - start = e  BY <2>3, <2>7, <2>8
  <2>13. (when - start + 1) * Digit = e * Digit + Digit  BY <2>8, <2>12, Units
  <2> QED  BY <2>8, <2>10, <2>11, <2>12, <2>13 DEF start, ahead
<1> QED  BY <1>1, TimesInvariant, PTL

(* No packet is due before the one ahead of it, also where two sums fall   *)
(* into the same nanosecond (session.go:220-226): the schedule TestSession *)
(* assumes.                                                                *)
NoneOvertaken == timesPC # "start" => when <= when'

THEOREM PacketsAscend == Spec => [][NoneOvertaken]_vars
<1> DEFINE I == TimesInv /\ sum \in Num64s
<1>1. TimesInv => sum \in Num64s  BY SumFits DEF TimesInv
<1>2. I /\ I' /\ [Next]_vars => [NoneOvertaken]_vars
  <2> SUFFICES ASSUME I, I', [Next]_vars, timesPC # "start" PROVE when <= when'
    BY DEF NoneOvertaken
  <2>1. PlanInv /\ PlanInv' /\ sum \in Num64s /\ sum' \in Num64s /\ DrawInv
    BY DEF TimesInv
  <2>2. /\ startTime = FromTime(chosen.at) + StartDelay
        /\ when = AbsTime(startTime) + Duration(sum)
    BY <2>1 DEF PlanInv
  <2>3. startTime \in Num64s  BY <2>1, <2>2, SessionFits DEF PlanInv
  <2>4. AbsTime(startTime) \in Int
    <3>1. /\ Duration(startTime) \in Nat
          /\ AbsTime(startTime) = Duration(startTime) - JAN1970 * Nano
      BY <2>3, DurationExact
    <3> QED  BY <3>1, Units
  <2>5. /\ Duration(sum) \in Nat /\ Duration(sum) * Digit <= sum * Nano
        /\ Duration(sum') \in Nat /\ sum' * Nano < Duration(sum') * Digit + Digit
    BY <2>1, DurationExact
  <2>6. CASE AddPacket
    <3>1. /\ timesPC' # "start" /\ startTime' = startTime /\ sum' = sum + delta
          /\ delta \in Nat /\ sum \in Nat /\ sum' \in Nat
      <4>1. /\ timesPC = "plan" /\ (timesPC' = timesPC \/ timesPC' = "planned")
            /\ startTime' = startTime /\ sum' = sum + delta
        BY <2>6 DEF AddPacket
      <4>2. delta \in Num64s  BY <2>1 DEF DrawInv, ScheduleTypeOK
      <4>3. \A n \in Num64s : n \in Nat  BY Units DEF Num64s
      <4> QED  BY <2>1, <4>1, <4>2, <4>3
    <3>2. when' = AbsTime(startTime) + Duration(sum')  BY <2>1, <3>1 DEF PlanInv
    <3> DEFINE d == Duration(sum)
               e == Duration(sum')
               x == sum * Nano
               y == sum' * Nano
    <3>3. x \in Nat /\ y \in Nat /\ x <= y  BY <3>1, Units
    <3>4. d \in Nat /\ e \in Nat /\ d * Digit <= x /\ y < e * Digit + Digit  BY <2>5
    <3> HIDE DEF d, e, x, y
    <3>5. d * Digit < (e + 1) * Digit
      <4>1. (e + 1) * Digit = e * Digit + Digit  BY <3>4, Units
      <4>2. d * Digit \in Nat /\ e * Digit \in Nat  BY <3>4, Units
      <4> QED  BY <3>3, <3>4, <4>1, <4>2, Units
    <3>6. d <= e
      <4>1. SUFFICES ASSUME e + 1 <= d PROVE FALSE  BY <3>4
      <4>2. (e + 1) * Digit <= d * Digit  BY <3>4, <4>1, Units
      <4>3. (e + 1) * Digit \in Nat /\ d * Digit \in Nat  BY <3>4, Units
      <4> QED  BY <3>5, <4>2, <4>3
    <3> QED  BY <2>2, <2>4, <3>2, <3>4, <3>6 DEF d, e
  <2>7. when \in Int  BY <2>2, <2>4, <2>5
  <2>8. CASE UNCHANGED when  BY <2>7, <2>8
  <2>9. ~ ChooseStart  BY DEF ChooseStart
  <2>10. Interval \/ Done \/ (\E lag \in Lags, trip \in Trips, h \in Hosts : Exchange(lag, trip, h))
          \/ UNCHANGED vars => UNCHANGED when
    BY DEF Interval, Done, Exchange, vars, planVars
  <2> QED  BY <2>6, <2>8, <2>9, <2>10 DEF Next
<1> QED  BY <1>1, <1>2, TimesInvariant, PTL DEF Spec

-----------------------------------------------------------------------------
(* Microseconds in fixed point, rounded down.                              *)
LEMMA FromUsecExact ==
  ASSUME NEW n \in 0 .. Digit - 1
  PROVE  LET e == FromUsec(n)
         IN  /\ e \in Nat /\ e * Micro <= n * Digit
             /\ n * Digit < e * Micro + Micro
             /\ 2 * e < Word
<1> DEFINE r == n % Micro
           e == FromUsec(n)
<1>1. n \in Nat /\ Micro \in Nat \ {0}  BY Units
<1>2. r \in 0 .. Micro - 1 /\ n \div Micro \in Nat /\ n \div Micro <= n
  <2>1. /\ n \div Micro \in Nat /\ r \in 0 .. Micro - 1
        /\ n = Micro * (n \div Micro) + r
    BY <1>1, Division
  <2> DEFINE q == n \div Micro
  <2>2. q \in Nat /\ n = Micro * q + r /\ r \in Nat  BY <1>1, <2>1
  <2> HIDE DEF q, r
  <2>3. Micro * q >= q  BY <1>1, <2>2
  <2>4. q <= n  BY <1>1, <2>2, <2>3
  <2> QED  BY <2>1, <2>4 DEF q
<1>3. U64(r * Digit) = r * Digit
  <2>1. r \in 0 .. Digit - 1  BY <1>2, Units
  <2> HIDE DEF r
  <2> QED  BY <2>1, WholeSeconds
<1>4. e = U64((n \div Micro) * Digit) + (r * Digit) \div Micro
  BY <1>3 DEF FromUsec
<1>5. n \div Micro < Digit  BY <1>1, <1>2, Units
<1>6. e \in Num64s /\ e * Micro <= n * Digit /\ n * Digit < e * Micro + Micro
  BY <1>1, <1>4, <1>5, FixedPoint
<1>7. e \in Nat  BY <1>6, Units DEF Num64s
<1> HIDE DEF e
<1>8. e * Micro >= 2 * e  BY <1>7, Units
<1>9. n * Digit <= Word - Digit
  <2>1. n * Digit <= (Digit - 1) * Digit  BY Units
  <2>2. (Digit - 1) * Digit = Word - Digit  BY Units
  <2> QED  BY <2>1, <2>2
<1>10. n * Digit \in Nat /\ e * Micro \in Nat  BY <1>7, Units
<1>11. 2 * e < Word  BY <1>6, <1>7, <1>8, <1>9, <1>10, Units
<1> QED  BY <1>6, <1>7, <1>11 DEF e

(* The quotient by a power of two, as a bound on the number.               *)
LEMMA Quotient ==
  ASSUME NEW e \in Nat, NEW d \in Nat \ {0}, NEW m \in Nat
  PROVE  e \div d < m <=> e < d * m
<1> DEFINE q == e \div d
           r == e % d
<1>1. q \in Nat /\ r \in 0 .. d - 1 /\ e = d * q + r  BY Division
<1> HIDE DEF q, r
<1>2. ASSUME q < m PROVE e < d * m
  <2>1. d * (q + 1) <= d * m  BY <1>1, <1>2
  <2>2. d * (q + 1) = d * q + d  BY <1>1
  <2>3. d * q \in Nat /\ d * m \in Nat  BY <1>1
  <2> QED  BY <1>1, <2>1, <2>2, <2>3
<1>3. ASSUME q >= m PROVE ~ e < d * m
  <2>1. d * q >= d * m  BY <1>1, <1>3
  <2>2. d * q \in Nat /\ d * m \in Nat  BY <1>1
  <2> QED  BY <1>1, <2>1, <2>2
<1> QED  BY <1>1, <1>2, <1>3 DEF q

(* The shifts of an estimate: few enough for their field, and no more than *)
(* the multiplier needs.                                                   *)
LEMMA ShiftsAre ==
  ASSUME NEW e \in Nat, 2 * e < Word
  PROVE  LET s == Shifts(e)
         IN  /\ s \in 0 .. ScaleMod - 1
             /\ e < Pow2[s] * (MultMod - 1)
             /\ s > 0 => 2 * e >= Pow2[s] * (MultMod - 1) /\ e >= Pow2[s]
<1> DEFINE m == MultMod - 1
           Good(s) == /\ e \div Pow2[s] < m
                      /\ s > 0 => e \div Pow2[s - 1] >= m
           T == {n \in Nat : e < Pow2[n] * m}
<1>1. m \in Nat /\ m >= 2 /\ ScaleMod \in Nat \ {0}
  BY FieldsAssumption
<1>2. ScaleMod - 1 \in T
  <2>1. ScaleMod - 1 \in Nat /\ (ScaleMod - 1) + 1 = ScaleMod  BY <1>1
  <2>2. Pow2[ScaleMod] = 2 * Pow2[ScaleMod - 1] /\ Pow2[ScaleMod - 1] \in Nat
    BY <2>1, Pow2Step
  <2> DEFINE p == Pow2[ScaleMod - 1] * m
  <2>3. Pow2[ScaleMod] * m = 2 * p /\ p \in Nat  BY <1>1, <2>2
  <2>4. Word <= 2 * p  BY <2>3, FieldsAssumption
  <2> HIDE DEF p
  <2>5. e < p  BY <2>3, <2>4, Units
  <2> QED  BY <2>1, <2>5 DEF p
<1>3. PICK n \in T : \A k \in T : n <= k
  <2>1. T \in SUBSET Nat /\ T # {}  BY <1>2
  <2> HIDE DEF T
  <2> QED  BY <2>1, LeastNat
<1>4. \A k \in Nat : Pow2[k] \in Nat \ {0} /\ Pow2[k + 1] = 2 * Pow2[k]
  BY Pow2Step
<1>5. \A k \in Nat : e \div Pow2[k] < m <=> k \in T
  BY <1>1, <1>4, Quotient
<1> HIDE DEF T
<1>6. n \in Nat /\ n <= ScaleMod - 1
  <2>1. n \in Nat  BY <1>3 DEF T
  <2> QED  BY <1>2, <1>3, <2>1
<1>7. Good(n)
  <2>1. e \div Pow2[n] < m  BY <1>3, <1>5, <1>6
  <2>2. ASSUME n > 0 PROVE e \div Pow2[n - 1] >= m
    <3>1. n - 1 \in Nat /\ ~ n <= n - 1  BY <1>6, <2>2
    <3>2. n - 1 \notin T  BY <1>3, <3>1
    <3>3. ~ e \div Pow2[n - 1] < m  BY <1>5, <3>1, <3>2
    <3>4. e \div Pow2[n - 1] \in Nat  BY <1>4, <3>1, Division
    <3> QED  BY <1>1, <3>3, <3>4
  <2> QED  BY <2>1, <2>2
<1>8. Shifts(e) \in 0 .. ScaleMod /\ Good(Shifts(e))
  <2>1. \E s \in 0 .. ScaleMod : Good(s)  BY <1>1, <1>6, <1>7
  <2>2. Shifts(e) = CHOOSE s \in 0 .. ScaleMod : Good(s)  BY DEF Shifts
  <2> HIDE DEF Good
  <2> QED  BY <2>1, <2>2
<1> DEFINE s == Shifts(e)
<1>9. s \in Nat /\ s <= ScaleMod /\ Good(s)  BY <1>1, <1>8
<1> HIDE DEF s
<1>10. s \in T  BY <1>5, <1>9
<1>11. e < Pow2[s] * m  BY <1>10 DEF T
<1>12. ASSUME s > 0 PROVE s - 1 \in Nat /\ 2 * e >= Pow2[s] * m /\ s - 1 \notin T
  <2>1. s - 1 \in Nat /\ (s - 1) + 1 = s  BY <1>9, <1>12
  <2>2. e \div Pow2[s - 1] \in Nat  BY <1>4, <2>1, Division
  <2>3. e \div Pow2[s - 1] >= m  BY <1>9, <1>12
  <2>4. s - 1 \notin T  BY <1>1, <1>5, <2>1, <2>2, <2>3
  <2>5. ~ e < Pow2[s - 1] * m  BY <2>1, <2>4 DEF T
  <2>6. Pow2[s] = 2 * Pow2[s - 1] /\ Pow2[s - 1] \in Nat  BY <1>4, <2>1
  <2> DEFINE p == Pow2[s - 1] * m
  <2>7. p \in Nat /\ Pow2[s] * m = 2 * p /\ ~ e < p  BY <1>1, <2>5, <2>6
  <2> HIDE DEF p
  <2>8. 2 * e >= Pow2[s] * m  BY <2>7
  <2> QED  BY <2>1, <2>4, <2>8
<1>13. ASSUME s > 0 PROVE e >= Pow2[s]
  <2>1. 2 * e >= Pow2[s] * m /\ Pow2[s] \in Nat  BY <1>4, <1>9, <1>12, <1>13
  <2>2. Pow2[s] * m >= Pow2[s] * 2  BY <1>1, <2>1
  <2>3. Pow2[s] * m \in Nat  BY <1>1, <2>1
  <2> QED  BY <2>1, <2>2, <2>3
<1>14. s # ScaleMod
  <2>1. SUFFICES ASSUME s = ScaleMod PROVE FALSE  OBVIOUS
  <2>2. s > 0  BY <1>1, <2>1
  <2> QED  BY <1>2, <1>12, <2>1, <2>2
<1>15. s \in 0 .. ScaleMod - 1  BY <1>1, <1>9, <1>14
<1> QED  BY <1>11, <1>12, <1>13, <1>15 DEF s

(* An estimate in its two fields: above the error, by at most a unit of    *)
(* the multiplier, which uses its upper bit if anything was shifted out.   *)
LEMMA MultiplierIs ==
  ASSUME NEW n \in 1 .. Digit - 1
  PROVE  LET e == FromUsec(n)
             s == Shifts(e)
             m == Multiplier(e)
         IN  /\ s \in 0 .. ScaleMod - 1 /\ m \in 1 .. MultMod - 1
             /\ U64(m * Pow2[s]) = m * Pow2[s] /\ m * Pow2[s] \in Nat
             /\ m * Pow2[s] * Micro >= n * Digit
             /\ m * Pow2[s] * Micro <= n * Digit + Pow2[s] * Micro
             /\ s > 0 => 2 * m >= MultMod - 1
<1> DEFINE e == FromUsec(n)
           s == Shifts(e)
           d == Pow2[s]
           q == e \div d
           r == e % d
           m == Multiplier(e)
           x == d * q
<1>1. e \in Nat /\ e * Micro <= n * Digit /\ n * Digit < e * Micro + Micro /\ 2 * e < Word
  BY FromUsecExact
<1> HIDE DEF e
<1>2. /\ s \in 0 .. ScaleMod - 1 /\ e < d * (MultMod - 1)
      /\ s > 0 => 2 * e >= d * (MultMod - 1) /\ e >= d
  BY <1>1, ShiftsAre
<1>3. d \in Nat \ {0}
  <2>1. s \in Nat  BY <1>2, FieldsAssumption
  <2> QED  BY <2>1, Pow2Step
<1>4. s = 0 => d = 1  BY Pow2Step
<1> HIDE DEF s, d
<1>5. q \in Nat /\ r \in 0 .. d - 1 /\ e = d * q + r  BY <1>1, <1>3, Division
<1>6. q < MultMod - 1
  <2>1. MultMod - 1 \in Nat  BY FieldsAssumption
  <2> QED  BY <1>1, <1>2, <1>3, <2>1, Quotient
<1>7. m = q + 1 /\ m \in 1 .. MultMod - 1
  <2>1. m = (q + 1) % MultMod  BY DEF Multiplier, s, d
  <2> HIDE DEF q, m
  <2>2. q + 1 \in 0 .. MultMod - 1 /\ MultMod \in Nat \ {0}
    BY <1>5, <1>6, FieldsAssumption
  <2>3. (MultMod * 0 + (q + 1)) % MultMod = q + 1  BY <2>2, DivisionUnique
  <2>4. MultMod * 0 + (q + 1) = q + 1  BY <1>5, FieldsAssumption
  <2> QED  BY <1>5, <1>6, <2>1, <2>2, <2>3, <2>4
<1> HIDE DEF q, r, m
<1>8. m * d = x + d /\ x \in Nat /\ x <= e /\ e < x + d /\ e \in Nat
  BY <1>1, <1>3, <1>5, <1>7
<1>9. m * d \in Num64s
  <2>1. CASE s = 0  BY <1>1, <1>3, <1>4, <1>8, <2>1, Units DEF Num64s
  <2>2. CASE s > 0
    <3>1. e >= d  BY <1>2, <2>2
    <3> QED  BY <1>1, <1>3, <1>8, <3>1, Units DEF Num64s
  <2> QED  BY <1>2, <2>1, <2>2, FieldsAssumption
<1> HIDE DEF x
<1>10. m * d * Micro >= n * Digit
  <2>1. m * d >= e + 1 /\ m * d \in Nat  BY <1>3, <1>8
  <2> DEFINE w == m * d
  <2>2. w \in Nat /\ w >= e + 1  BY <2>1
  <2> HIDE DEF w
  <2>3. w * Micro >= (e + 1) * Micro  BY <1>8, <2>2, Units
  <2>4. (e + 1) * Micro = e * Micro + Micro  BY <1>8, Units
  <2>5. w * Micro \in Nat /\ e * Micro \in Nat /\ n * Digit \in Nat
    BY <1>8, <2>2, Units
  <2> QED  BY <1>1, <2>3, <2>4, <2>5, Units DEF w
<1>11. m * d * Micro <= n * Digit + d * Micro
  <2>1. (x + d) * Micro = x * Micro + d * Micro  BY <1>3, <1>8, Units
  <2>2. x * Micro <= e * Micro  BY <1>8, Units
  <2>3. /\ x * Micro \in Nat /\ e * Micro \in Nat /\ n * Digit \in Nat
        /\ d * Micro \in Nat
    BY <1>3, <1>8, Units
  <2> QED  BY <1>1, <1>8, <2>1, <2>2, <2>3
<1>12. s > 0 => 2 * m >= MultMod - 1
  <2>1. SUFFICES ASSUME s > 0, 2 * m < MultMod - 1 PROVE FALSE
    BY <1>7, FieldsAssumption
  <2>2. 2 * e >= d * (MultMod - 1)  BY <1>2, <2>1
  <2>3. d * (MultMod - 1) >= d * (2 * m)  BY <1>3, <1>7, <2>1, FieldsAssumption
  <2>4. d * (2 * m) = 2 * (m * d) /\ d * (MultMod - 1) \in Nat
    BY <1>3, <1>7, FieldsAssumption
  <2>5. m * d \in Nat /\ e < m * d  BY <1>3, <1>8
  <2> QED  BY <1>8, <2>2, <2>3, <2>4, <2>5
<1>13. U64(m * d) = m * d /\ m * d \in Nat  BY <1>9, Digits, Units DEF Num64s
<1> QED  BY <1>2, <1>7, <1>10, <1>11, <1>12, <1>13 DEF e, s, d, m

(* The octets carry the fields unchanged.                                  *)
LEMMA OctetsCarry ==
  ASSUME NEW ts, ts.sync \in BOOLEAN,
         ts.scale \in 0 .. ScaleMod - 1, ts.mult \in 1 .. MultMod - 1,
         NEW time
  PROVE  LET got == Decode(time, EncodeErr(ts))
         IN  /\ got.time = time /\ got.sync = ts.sync
             /\ got.scale = ts.scale /\ got.mult = ts.mult
<1> DEFINE got == Decode(time, EncodeErr(ts))
           b == IF ts.sync THEN 1 ELSE 0
           high == SyncBit * b + ts.scale
<1>1. ScaleMod \in Nat \ {0} /\ SyncBit = 2 * ScaleMod /\ SyncBit \in Nat \ {0}
  BY FieldsAssumption DEF SyncBit
<1>2. b \in {0, 1} /\ (b = 1 <=> ts.sync)  OBVIOUS
<1>3. ts.mult # 0 /\ ts.scale \in Nat /\ ts.scale < ScaleMod
  BY <1>1, FieldsAssumption
<1>4. ts.scale % ScaleMod = ts.scale
  <2>1. (ScaleMod * 0 + ts.scale) % ScaleMod = ts.scale  BY <1>1, DivisionUnique
  <2>2. ScaleMod * 0 + ts.scale = ts.scale  BY <1>1, <1>3
  <2> QED  BY <2>1, <2>2
<1>5. EncodeErr(ts) = <<high, ts.mult>>
  <2>1. ts.scale + (IF ts.sync THEN SyncBit ELSE 0) = high  BY <1>1, <1>3
  <2> QED  BY <1>3, <1>4, <2>1 DEF EncodeErr
<1> HIDE DEF b
<1>6. high \div SyncBit = b
  <2> DEFINE c == ts.scale
  <2>1. b \in Int /\ c \in 0 .. SyncBit - 1  BY <1>1, <1>2, <1>3
  <2> HIDE DEF c
  <2>2. SyncBit \in Nat \ {0}  BY <1>1
  <2>3. (SyncBit * b + c) \div SyncBit = b  BY <2>1, <2>2, DivisionUnique
  <2> QED  BY <2>3 DEF c
<1>7. high % ScaleMod = ts.scale
  <2>1. 2 * b \in Int  BY <1>2
  <2>2. (ScaleMod * (2 * b) + ts.scale) % ScaleMod = ts.scale
    BY <1>1, <2>1, DivisionUnique
  <2>3. ScaleMod * (2 * b) + ts.scale = high  BY <1>1, <1>2, <1>3
  <2> QED  BY <2>2, <2>3
<1> HIDE DEF high
<1>8. got = [time |-> time, sync |-> high \div SyncBit = 1,
             scale |-> high % ScaleMod, mult |-> ts.mult]
  BY <1>3, <1>5 DEF Decode
<1>9. got.sync = (b = 1)  BY <1>6, <1>8
<1>10. got.time = time /\ got.scale = ts.scale /\ got.mult = ts.mult
  BY <1>7, <1>8
<1> QED  BY <1>2, <1>9, <1>10

(* So an estimate is what it should be, where it is made and where it has  *)
(* come through the octets.                                                *)
LEMMA EstimatesHold ==
  ASSUME NEW clock \in Clocks, NEW wall, NEW time
  PROVE  LET ts == StampAt(clock, wall)
             got == Decode(time, EncodeErr(ts))
         IN  /\ ts.time = FromTime(wall) /\ Estimates(ts, clock)
             /\ got.time = time /\ Estimates(got, clock)
<1> DEFINE ts == StampAt(clock, wall)
           got == Decode(time, EncodeErr(ts))
           n == clock.errUsec
<1>1. clock.sync \in BOOLEAN /\ n \in 0 .. Digit - 1  BY DEF Clocks
<1>2. CASE n = 0
  <2>1. ts = [time |-> FromTime(wall), sync |-> FALSE, scale |-> 0, mult |-> 1]
    BY <1>2 DEF StampAt
  <2>2. ts.time = FromTime(wall) /\ ts.sync = FALSE /\ ts.scale = 0 /\ ts.mult = 1
    BY <2>1
  <2>3. ts.sync \in BOOLEAN /\ ts.scale \in 0 .. ScaleMod - 1 /\ ts.mult \in 1 .. MultMod - 1
    <3>1. 0 \in 0 .. ScaleMod - 1 /\ 1 \in 1 .. MultMod - 1  BY FieldsAssumption
    <3>2. ts.sync \in BOOLEAN  BY Zenon, <2>2
    <3> QED  BY <2>2, <3>1, <3>2
  <2> HIDE DEF ts
  <2>4. got.time = time /\ got.sync = ts.sync  BY <2>3, OctetsCarry
  <2> HIDE DEF got
  <2>5. Estimates(ts, clock) /\ Estimates(got, clock)
    BY <1>2, <2>2, <2>4 DEF Estimates
  <2> QED  BY <2>2, <2>4, <2>5 DEF ts, got
<1>3. CASE n # 0
  <2> DEFINE e == FromUsec(n)
             s == Shifts(e)
             m == Multiplier(e)
  <2>1. ts = [time |-> FromTime(wall), sync |-> clock.sync, scale |-> s, mult |-> m]
    BY <1>3 DEF StampAt
  <2>2. ts.time = FromTime(wall) /\ ts.sync = clock.sync /\ ts.scale = s /\ ts.mult = m
    BY <2>1
  <2>3. n \in 1 .. Digit - 1  BY <1>1, <1>3, Units
  <2> HIDE DEF ts
  <2>4. /\ s \in 0 .. ScaleMod - 1 /\ m \in 1 .. MultMod - 1
        /\ U64(m * Pow2[s]) = m * Pow2[s] /\ m * Pow2[s] \in Nat
        /\ m * Pow2[s] * Micro >= n * Digit
        /\ m * Pow2[s] * Micro <= n * Digit + Pow2[s] * Micro
        /\ s > 0 => 2 * m >= MultMod - 1
    BY <2>3, MultiplierIs
  <2> HIDE DEF n, s, m
  <2>5. ASSUME NEW x, x.sync = clock.sync, x.scale = s, x.mult = m
        PROVE  Estimates(x, clock)
    <3>1. ErrEstimate(x) = m * Pow2[s]  BY <2>4, <2>5 DEF ErrEstimate
    <3> QED  BY <1>3, <2>4, <2>5, <3>1 DEF Estimates, n
  <2>6. ts.sync \in BOOLEAN /\ ts.scale \in 0 .. ScaleMod - 1 /\ ts.mult \in 1 .. MultMod - 1
    BY <1>1, <2>2, <2>4
  <2>7. got.time = time /\ got.sync = ts.sync /\ got.scale = ts.scale /\ got.mult = ts.mult
    BY <2>6, OctetsCarry
  <2> HIDE DEF got
  <2>8. Estimates(ts, clock) /\ Estimates(got, clock)  BY <2>2, <2>5, <2>7
  <2> QED  BY <2>2, <2>7, <2>8 DEF ts, got
<1> QED  BY <1>2, <1>3

-----------------------------------------------------------------------------
(* Every moment of the session is before the turn of the era.              *)
LEMMA MomentFits ==
  ASSUME PlanInv, timesPC # "start", NEW k \in Nat, NEW n \in Nat, k <= n,
         InEra(chosen, n, Longest)
  PROVE  /\ when \in Nat /\ when + k \in Nat
         /\ (when + k) \div Nano + JAN1970 < Digit
<1> DEFINE c == chosen
           q == (c.at + n) \div Nano
           z == (c.at + n) % Nano
           r == 2 * c.rtt
           y == (c.num \div c.den) * Digit
           m == NPackets * Longest
           f == FromTime(c.at)
           sd == StartDelay
           T == Duration(startTime)
           e == Duration(sum)
           w == JAN1970 * Nano
<1>1. c \in Starts /\ startTime = f + sd /\ when = AbsTime(startTime) + e
  BY DEF PlanInv
<1>2. /\ q \in Nat /\ y \in Nat /\ m \in Nat /\ r \in Nat /\ c.at \in Nat
      /\ q + JAN1970 < Digit
      /\ (q + JAN1970) * Digit + y + Digit + Digit + r + m < Word
  BY <1>1, Room
<1>3. c.at + n = Nano * q + z /\ z \in 0 .. Nano - 1
  <2>1. c.at + n \in Nat  BY <1>2
  <2> QED  BY <2>1, Units, Division
<1>4. /\ f \in Num64s /\ startTime \in Num64s /\ sd \in Nat /\ sd <= Digit + r + y
      /\ sum \in Num64s /\ sum <= m
  BY <1>1, SessionFits, StartDelayIs, SumFits
<1>5. f * Nano <= (c.at + w) * Digit /\ f >= JAN1970 * Digit
  <2>1. InEra(c, 0, Longest)  BY <1>1, LongestFits DEF Fits
  <2>2. (c.at + 0) \div Nano + JAN1970 < Digit  BY <1>1, <2>1, Room
  <2>3. c.at + 0 = c.at  BY <1>2
  <2> QED  BY <1>2, <2>2, <2>3, FromTimeExact
<1>6. /\ T \in Nat /\ T * Digit <= startTime * Nano
      /\ startTime * Nano < T * Digit + Digit /\ AbsTime(startTime) = T - w
  BY <1>4, DurationExact
<1>7. e \in Nat /\ e * Digit <= sum * Nano  BY <1>4, DurationExact
<1>8. f \in Nat /\ startTime \in Nat /\ sum \in Nat /\ w \in Nat
  BY <1>4, Units DEF Num64s
<1> HIDE DEF c, q, z, r, y, m, f, sd, T, e
<1>9. T >= w
  <2>1. SUFFICES ASSUME T + 1 <= w PROVE FALSE  BY <1>6, <1>8
  <2>2. startTime >= JAN1970 * Digit /\ JAN1970 * Digit \in Nat
    BY <1>1, <1>4, <1>5, <1>8, Units
  <2> DEFINE g == JAN1970 * Digit
  <2>3. startTime * Nano >= g * Nano
    <3>1. g \in Nat /\ startTime >= g  BY <2>2
    <3> HIDE DEF g
    <3> QED  BY <1>8, <3>1, Units
  <2>4. g * Nano = w * Digit  BY Units
  <2> HIDE DEF w
  <2>5. (T + 1) * Digit <= w * Digit  BY <1>6, <1>8, <2>1, Units
  <2>6. (T + 1) * Digit = T * Digit + Digit  BY <1>6, Units
  <2>7. /\ T * Digit \in Nat /\ w * Digit \in Nat /\ startTime * Nano \in Nat
    BY <1>6, <1>8, Units
  <2> QED  BY <1>6, <2>3, <2>4, <2>5, <2>6, <2>7, Units
<1> HIDE DEF w
<1>10. when = T - w + e /\ when \in Nat /\ when + k \in Nat
  BY <1>1, <1>6, <1>7, <1>8, <1>9
<1>11. (when + k) * Digit < (Nano * (Digit - JAN1970)) * Digit
  <2> DEFINE t1 == T * Digit    t2 == e * Digit   t3 == w * Digit
             t4 == k * Digit    t5 == c.at * Digit
             b == Digit + r + y + m
             room == q * Digit + Digit + b
  <2>1. t1 \in Nat /\ t2 \in Nat /\ t3 \in Nat /\ t4 \in Nat /\ t5 \in Nat /\ b \in Nat
    BY <1>2, <1>6, <1>7, <1>8, Units
  <2>2. (when + k) * Digit = t1 + t2 - t3 + t4  BY <1>6, <1>7, <1>8, <1>10, Units
  <2>3. f * Nano <= t5 + t3
    <3>1. (c.at + w) * Digit = t5 + t3  BY <1>2, <1>8, Units
    <3> QED  BY <1>5, <3>1
  <2>4. t1 + t2 <= f * Nano + b * Nano
    <3>1. startTime * Nano = f * Nano + sd * Nano  BY <1>1, <1>4, <1>8, Units
    <3>2. sd + sum <= b  BY <1>2, <1>4, <1>8, Units
    <3>3. (sd + sum) * Nano <= b * Nano
      <4> HIDE DEF b
      <4> QED  BY <1>4, <1>8, <2>1, <3>2, Units
    <3>4. (sd + sum) * Nano = sd * Nano + sum * Nano  BY <1>4, <1>8, Units
    <3>5. /\ sd * Nano \in Nat /\ sum * Nano \in Nat /\ f * Nano \in Nat
          /\ b * Nano \in Nat
      BY <1>4, <1>8, <2>1, Units
    <3> HIDE DEF t1, t2, b
    <3>6. t1 <= startTime * Nano /\ t2 <= sum * Nano  BY <1>6, <1>7 DEF t1, t2
    <3> QED  BY <2>1, <3>1, <3>3, <3>4, <3>5, <3>6
  <2>5. t4 + t5 <= Nano * (q * Digit) + Nano * Digit
    <3>1. k + c.at <= Nano * q + Nano
      <4> DEFINE nq == Nano * q
      <4>1. nq \in Nat /\ c.at + n = nq + z  BY <1>2, <1>3, Units
      <4> HIDE DEF nq
      <4>2. k + c.at <= nq + Nano  BY <1>2, <1>3, <4>1, Units
      <4> QED  BY <4>2 DEF nq
    <3>2. (k + c.at) * Digit = t4 + t5  BY <1>2, Units
    <3>3. (Nano * q + Nano) * Digit = Nano * (q * Digit) + Nano * Digit  BY <1>2, Units
    <3>4. (k + c.at) * Digit <= (Nano * q + Nano) * Digit
      <4> DEFINE a1 == k + c.at  a2 == Nano * q + Nano
      <4>1. a1 \in Nat /\ a2 \in Nat /\ a1 <= a2  BY <1>2, <3>1, Units
      <4> HIDE DEF a1, a2
      <4>2. a1 * Digit <= a2 * Digit  BY <4>1, Units
      <4> QED  BY <4>2 DEF a1, a2
    <3> QED  BY <3>2, <3>3, <3>4
  <2>6. Nano * room = Nano * (q * Digit) + Nano * Digit + b * Nano
    <3> DEFINE qd == q * Digit
    <3>1. qd \in Nat  BY <1>2, Units
    <3> HIDE DEF b, qd
    <3> QED  BY <2>1, <3>1, Units DEF qd
  <2>7. room < (Digit - JAN1970) * Digit
    <3> DEFINE qd == q * Digit  jd == JAN1970 * Digit
    <3>1. (q + JAN1970) * Digit = qd + jd /\ qd \in Nat /\ jd \in Nat  BY <1>2, Units
    <3>2. (Digit - JAN1970) * Digit = Word - jd  BY Units
    <3> HIDE DEF qd, jd
    <3>3. qd + Digit + (Digit + r + y + m) < Word - jd  BY <1>2, <3>1, Units
    <3> QED  BY <3>2, <3>3 DEF qd
  <2>8. Nano * room < Nano * ((Digit - JAN1970) * Digit)
    <3> DEFINE g == (Digit - JAN1970) * Digit
    <3>1. g \in Int /\ room \in Nat /\ room < g  BY <1>2, <2>1, <2>7, Units
    <3> HIDE DEF g, room
    <3>2. Nano * room < Nano * g  BY <3>1, Units
    <3> QED  BY <3>2 DEF g
  <2>9. Nano * ((Digit - JAN1970) * Digit) = (Nano * (Digit - JAN1970)) * Digit
    BY Units
  <2>10. /\ f * Nano \in Nat /\ b * Nano \in Nat
         /\ Nano * (q * Digit) \in Nat /\ Nano * Digit \in Nat
         /\ Nano * ((Digit - JAN1970) * Digit) \in Int /\ Nano * room \in Nat
    BY <1>2, <1>8, <2>1, Units
  <2> DEFINE bn == b * Nano  fn == f * Nano  qn == Nano * (q * Digit)
             dn == Nano * Digit  rn == Nano * room
             gn == Nano * ((Digit - JAN1970) * Digit)
  <2>11. t1 + t2 - t3 + t4 < gn
    <3>1. /\ fn <= t5 + t3 /\ t1 + t2 <= fn + bn /\ t4 + t5 <= qn + dn
          /\ rn = qn + dn + bn /\ rn < gn
      BY <2>3, <2>4, <2>5, <2>6, <2>8
    <3>2. /\ fn \in Nat /\ bn \in Nat /\ qn \in Nat /\ dn \in Nat
          /\ gn \in Int /\ rn \in Nat
      BY <2>10
    <3> HIDE DEF t1, t2, t3, t4, t5, bn, fn, qn, dn, rn, gn
    <3> QED  BY <2>1, <3>1, <3>2
  <2> QED  BY <2>2, <2>9, <2>11
<1>12. when + k < Nano * (Digit - JAN1970)
  <2> DEFINE a == when + k  g == Nano * (Digit - JAN1970)
  <2>1. a \in Nat /\ g \in Int /\ a * Digit < g * Digit  BY <1>10, <1>11, Units
  <2> HIDE DEF a, g
  <2>2. CASE a >= g
    <3>1. a * Digit >= g * Digit  BY <2>1, <2>2, Units
    <3>2. a * Digit \in Int /\ g * Digit \in Int  BY <2>1, Units
    <3> QED  BY <2>1, <3>1, <3>2
  <2> QED  BY <2>1, <2>2 DEF a, g
<1>13. (when + k) \div Nano < Digit - JAN1970
  <2> DEFINE a == when + k
  <2>1. a \in Nat /\ Digit - JAN1970 \in Nat
    BY <1>10, EpochAssumption, Units
  <2>2. a < Nano * (Digit - JAN1970)  BY <1>12
  <2> HIDE DEF a
  <2>3. a \div Nano < Digit - JAN1970  BY <2>1, <2>2, Units, Quotient
  <2> QED  BY <2>3 DEF a
<1>14. (when + k) \div Nano \in Nat  BY <1>10, Units, Division
<1> QED  BY <1>10, <1>13, <1>14, Units

(* The difference of two stamps, to a unit.                                *)
LEMMA DelayIsNear ==
  ASSUME NEW s \in Nat, NEW t \in Nat,
         s \div Nano + JAN1970 < Digit, t \div Nano + JAN1970 < Digit,
         NEW from, NEW to, from.time = FromTime(s), to.time = FromTime(t)
  PROVE  Delay(from, to) * Nano - (t - s) * Digit \in 1 - Nano .. Nano - 1
<1> DEFINE a == from.time  b == to.time  w == JAN1970 * Nano
<1>1. /\ a \in Num64s /\ a * Nano <= (s + w) * Digit /\ (s + w) * Digit < a * Nano + Nano
      /\ b \in Num64s /\ b * Nano <= (t + w) * Digit /\ (t + w) * Digit < b * Nano + Nano
  BY FromTimeExact
<1>2. a \in Nat /\ b \in Nat /\ w \in Nat  BY <1>1, Units DEF Num64s
<1> HIDE DEF w
<1>3. Delay(from, to) = b - a
  <2>1. Delay(from, to) = IF b >= a THEN b - a ELSE - (a - b)  BY DEF Delay
  <2> HIDE DEF a, b
  <2> QED  BY <1>2, <2>1
<1> HIDE DEF a, b
<1> DEFINE an == a * Nano  bn == b * Nano
           sd == (s + w) * Digit  td == (t + w) * Digit
<1>4. (b - a) * Nano = bn - an /\ (t - s) * Digit = td - sd  BY <1>2, Units
<1>5. an \in Nat /\ bn \in Nat /\ sd \in Nat /\ td \in Nat  BY <1>2, Units
<1>6. an <= sd /\ sd < an + Nano /\ bn <= td /\ td < bn + Nano  BY <1>1
<1> HIDE DEF an, bn, sd, td
<1>7. (bn - an) - (td - sd) \in 1 - Nano .. Nano - 1  BY <1>5, <1>6, Units
<1> QED  BY <1>3, <1>4, <1>7

LEMMA StampsNext ==
  TimesInv /\ StampsFaithful /\ [Next]_vars => StampsFaithful'
<1>1. SUFFICES ASSUME TimesInv, StampsFaithful, [Next]_vars PROVE StampsFaithful'
  OBVIOUS
<1>2. PlanInv  BY <1>1 DEF TimesInv
<1>3. ASSUME NEW lag \in Lags, NEW trip \in Trips, NEW h \in Hosts, Exchange(lag, trip, h)
      PROVE  StampsFaithful'
  <2> DEFINE sent     == when + lag
             arrived  == sent + trip.out
             returned == arrived + trip.proc
             mine     == StampAt(h.mine, sent)
             theirIn  == StampAt(h.theirs, arrived + h.ahead)
             theirOut == StampAt(h.theirs, returned + h.ahead)
             last     == StampAt(h.mine, returned + trip.back)
             send     == Decode(mine.time, EncodeErr(mine))
             recv     == Decode(theirIn.time, EncodeErr(theirOut))
             refl     == Decode(theirOut.time, EncodeErr(theirOut))
  <2>1. timesPC = "planned"
        /\ record' = [send |-> send, recv |-> recv, reflected |-> refl, back |-> last,
                      trip |-> trip, hosts |-> h]
    BY <1>3 DEF Exchange
  <2>2. /\ record'.send = send /\ record'.recv = recv /\ record'.reflected = refl
        /\ record'.back = last /\ record'.trip = trip /\ record'.hosts = h
    BY <2>1
  <2>3. /\ lag \in Nat /\ trip.out \in Nat /\ trip.proc \in Nat /\ trip.back \in Nat
        /\ h.mine \in Clocks /\ h.theirs \in Clocks /\ h.ahead \in Nat
    BY TripsAssumption, HostsAssumption
  <2> DEFINE all == lag + trip.out + trip.proc + trip.back + h.ahead
  <2>4. all \in Nat /\ InEra(chosen, all, Longest)
    BY <1>2, <2>3, LongestFits DEF PlanInv, Fits
  <2>5. ASSUME NEW k \in Nat, k <= all
        PROVE  when \in Nat /\ when + k \in Nat /\ (when + k) \div Nano + JAN1970 < Digit
    <3> HIDE DEF all
    <3> QED  BY <1>2, <2>1, <2>4, <2>5, MomentFits
  <2> DEFINE Fine(x) == x \in Nat /\ x \div Nano + JAN1970 < Digit
  <2>6. when \in Nat  BY <2>4, <2>5
  <2>7. /\ Fine(sent) /\ Fine(arrived + h.ahead) /\ Fine(returned + h.ahead)
        /\ Fine(returned + trip.back)
    <3>1. Fine(when + lag)  BY <2>3, <2>5
    <3>2. Fine(when + (lag + trip.out + h.ahead))  BY <2>3, <2>5
    <3>3. Fine(when + (lag + trip.out + trip.proc + h.ahead))  BY <2>3, <2>5
    <3>4. Fine(when + (lag + trip.out + trip.proc + trip.back))  BY <2>3, <2>5
    <3>5. /\ arrived + h.ahead = when + (lag + trip.out + h.ahead)
          /\ returned + h.ahead = when + (lag + trip.out + trip.proc + h.ahead)
          /\ returned + trip.back = when + (lag + trip.out + trip.proc + trip.back)
      BY <2>3, <2>6
    <3> QED  BY <3>1, <3>2, <3>3, <3>4, <3>5
  <2>8. /\ mine.time = FromTime(sent) /\ theirIn.time = FromTime(arrived + h.ahead)
        /\ theirOut.time = FromTime(returned + h.ahead)
        /\ last.time = FromTime(returned + trip.back)
        /\ send.time = mine.time /\ recv.time = theirIn.time /\ refl.time = theirOut.time
        /\ Estimates(send, h.mine) /\ Estimates(last, h.mine)
        /\ Estimates(recv, h.theirs) /\ Estimates(refl, h.theirs)
    <3> HIDE DEF sent, arrived, returned
    <3> QED  BY <2>3, EstimatesHold
  <2>9. /\ (returned + trip.back) - sent = trip.out + trip.proc + trip.back
        /\ (returned + h.ahead) - (arrived + h.ahead) = trip.proc
        /\ (arrived + h.ahead) - sent = trip.out + h.ahead
        /\ (returned + trip.back) - (returned + h.ahead) = trip.back - h.ahead
    BY <2>3, <2>6
  <2> DEFINE Near(d, nanos) == d * Nano - nanos * Digit \in 1 - Nano .. Nano - 1
  <2>10. ASSUME NEW s, NEW t, Fine(s), Fine(t), NEW from, NEW to,
                from.time = FromTime(s), to.time = FromTime(t)
         PROVE  Near(Delay(from, to), t - s)
    BY <2>10, DelayIsNear
  <2> HIDE DEF Near, Fine, mine, theirIn, theirOut, last, send, recv, refl, sent, arrived,
               returned
  <2>11. /\ Near(Delay(send, last), trip.out + trip.proc + trip.back)
         /\ Near(Delay(recv, refl), trip.proc)
         /\ Near(Delay(send, recv), trip.out + h.ahead)
         /\ Near(Delay(refl, last), trip.back - h.ahead)
    <3>1. Near(Delay(send, last), (returned + trip.back) - sent)  BY <2>7, <2>8, <2>10
    <3>2. Near(Delay(recv, refl), (returned + h.ahead) - (arrived + h.ahead))
      BY <2>7, <2>8, <2>10
    <3>3. Near(Delay(send, recv), (arrived + h.ahead) - sent)  BY <2>7, <2>8, <2>10
    <3>4. Near(Delay(refl, last), (returned + trip.back) - (returned + h.ahead))
      BY <2>7, <2>8, <2>10
    <3> QED  BY <2>9, <3>1, <3>2, <3>3, <3>4
  <2>12. /\ Near(Delay(record'.send, record'.back),
                 record'.trip.out + record'.trip.proc + record'.trip.back)
         /\ Near(Delay(record'.recv, record'.reflected), record'.trip.proc)
         /\ Near(Delay(record'.send, record'.recv),
                 record'.trip.out + record'.hosts.ahead)
         /\ Near(Delay(record'.reflected, record'.back),
                 record'.trip.back - record'.hosts.ahead)
    BY <2>2, <2>11
  <2>13. /\ Estimates(record'.send, record'.hosts.mine)
         /\ Estimates(record'.back, record'.hosts.mine)
         /\ Estimates(record'.recv, record'.hosts.theirs)
         /\ Estimates(record'.reflected, record'.hosts.theirs)
    BY <2>2, <2>8
  <2> QED  BY <2>12, <2>13 DEF StampsFaithful, Near, Estimates, Delay, ErrEstimate
<1>4. ASSUME timesPC' # "done" PROVE StampsFaithful'  BY <1>4 DEF StampsFaithful
<1>5. CASE ChooseStart  BY <1>4, <1>5 DEF ChooseStart
<1>6. CASE UNCHANGED <<record, timesPC>>
  BY <1>1, <1>6 DEF StampsFaithful, Estimates, Delay, ErrEstimate
<1>7. CASE Interval  BY <1>6, <1>7 DEF Interval
<1>8. CASE AddPacket
  <2>1. timesPC' # "done"  BY <1>8 DEF AddPacket
  <2> QED  BY <1>4, <2>1
<1>9. CASE UNCHANGED vars  BY <1>6, <1>9 DEF vars
<1> QED  BY <1>1, <1>3, <1>5, <1>7, <1>8, <1>9 DEF Next, Done

(* The stamps tell every delay to one unit of 2^-32 s, and no estimate is  *)
(* below the error it stands for (timestamp.go:37-86).                     *)
THEOREM StampsTellDelays == Spec => []StampsFaithful
<1>1. Init => StampsFaithful  BY DEF Init, StampsFaithful
<1>2. TimesInv /\ StampsFaithful /\ [Next]_vars => StampsFaithful'
  BY StampsNext
<1>3. Spec => [](TimesInv /\ StampsFaithful)
  <2>1. Init => TimesInv  BY SchedInvInit, DrawInvInit, PlanInvInit DEF TimesInv
  <2>2. TimesInv /\ [Next]_vars => TimesInv'
    BY SchedInvNext, DrawInvNext, PlanInvNext DEF TimesInv
  <2> QED  BY <1>1, <1>2, <2>1, <2>2, PTL DEF Spec
<1> QED  BY <1>3, PTL
=============================================================================
