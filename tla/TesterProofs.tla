---------------------------- MODULE TesterProofs ----------------------------
(***************************************************************************)
(* Tester.tla and Interposing.tla for any machine code, width of address,  *)
(* number and buffer: the allocator is ready when it is first asked, every *)
(* block goes back to where it came from, and what is printed through the  *)
(* fixed buffers is the number or the address meant.                       *)
(***************************************************************************)
EXTENDS Tester, SequenceTheorems, WellFoundedInduction, TLAPS

(* Induction over the numbers, as a property of a set of them. *)
LEMMA SetInduction ==
  ASSUME NEW S, 0 \in S, \A n \in Nat : n \in S => n + 1 \in S
  PROVE  \A n \in Nat : n \in S
<1>. SUFFICES ASSUME Nat \ S # {} PROVE FALSE OBVIOUS
<1>1. \E x \in Nat \ S : \A y \in Nat \ S : ~(<<y, x>> \in OpToRel(<, Nat))
  BY NatLessThanWellFounded, WFMin
<1>2. PICK x \in Nat \ S : \A y \in Nat \ S : ~(y < x) BY <1>1 DEF OpToRel
<1>3. x # 0 /\ x - 1 \in Nat /\ x - 1 < x BY <1>2
<1>4. x - 1 \in S BY <1>2, <1>3
<1>5. x - 1 + 1 \in S BY <1>3, <1>4
<1>. QED BY <1>2, <1>5

(* A recursion over the numbers has a solution. *)
Recurs(f, V, f0, step) ==
  f \in [Nat -> V] /\ f[0] = f0 /\ \A n \in Nat : f[n + 1] = step[<<n, f[n]>>]

LEMMA NatRecursion ==
  ASSUME NEW V, NEW f0 \in V, NEW step \in [Nat \X V -> V]
  PROVE  \E f : Recurs(f, V, f0, step)
<1>. DEFINE Begun(n) == {g \in [0 .. n -> V] :
                           g[0] = f0 /\ \A m \in 0 .. n - 1 : g[m + 1] = step[<<m, g[m]>>]}
<1>1. \A n \in Nat : Begun(n) # {}
  <2>. DEFINE S == {n \in Nat : Begun(n) # {}}
  <2>1. 0 \in S
    <3>. DEFINE g == [m \in 0 .. 0 |-> f0]
    <3>1. g \in Begun(0) OBVIOUS
    <3>. QED BY <3>1
  <2>2. ASSUME NEW n \in Nat, n \in S PROVE n + 1 \in S
    <3>1. PICK g : g \in Begun(n) BY <2>2
    <3>. DEFINE h == [m \in 0 .. n + 1 |-> IF m = n + 1 THEN step[<<n, g[n]>>] ELSE g[m]]
    <3>2. g[n] \in V /\ step[<<n, g[n]>>] \in V BY <3>1
    <3>3. h \in [0 .. n + 1 -> V] BY <3>1, <3>2
    <3>4. h[0] = f0 BY <3>1
    <3>5. ASSUME NEW m \in 0 .. n + 1 - 1 PROVE h[m + 1] = step[<<m, h[m]>>]
      <4>1. CASE m = n
        <5>1. n \in 0 .. n + 1 /\ n + 1 \in 0 .. n + 1 /\ n # n + 1 OBVIOUS
        <5>2. h[n + 1] = step[<<n, g[n]>>] /\ h[n] = g[n] BY <5>1
        <5>. QED BY <4>1, <5>2
      <4>2. CASE m # n
        <5>1. m \in 0 .. n - 1 /\ m + 1 \in 0 .. n /\ m + 1 # n + 1 BY <4>2
        <5>2. h[m + 1] = g[m + 1] /\ h[m] = g[m] BY <5>1
        <5>. QED BY <3>1, <5>1, <5>2
      <4>. QED BY <4>1, <4>2
    <3>. HIDE DEF h
    <3>6. h \in Begun(n + 1) BY <3>3, <3>4, <3>5
    <3>. QED BY <3>6
  <2>. HIDE DEF S
  <2>3. \A n \in Nat : n \in S BY <2>1, <2>2, SetInduction
  <2>. QED BY <2>3 DEF S
<1>2. \A m \in Nat : \A n, k \in Nat : \A g \in Begun(n), h \in Begun(k) :
        m <= n /\ m <= k => g[m] = h[m]
  <2>. DEFINE S == {m \in Nat : \A n, k \in Nat : \A g \in Begun(n), h \in Begun(k) :
                      m <= n /\ m <= k => g[m] = h[m]}
  <2>1. 0 \in S OBVIOUS
  <2>2. ASSUME NEW m \in Nat, m \in S PROVE m + 1 \in S
    <3>. SUFFICES ASSUME NEW n \in Nat, NEW k \in Nat, NEW g \in Begun(n), NEW h \in Begun(k),
                         m + 1 <= n, m + 1 <= k
                  PROVE  g[m + 1] = h[m + 1]
      OBVIOUS
    <3>1. m \in 0 .. n - 1 /\ m \in 0 .. k - 1 /\ m <= n /\ m <= k OBVIOUS
    <3>2. g[m + 1] = step[<<m, g[m]>>] /\ h[m + 1] = step[<<m, h[m]>>] BY <3>1
    <3>3. g[m] = h[m] BY <2>2, <3>1
    <3>. QED BY <3>2, <3>3
  <2>. HIDE DEF S
  <2>3. \A m \in Nat : m \in S BY <2>1, <2>2, SetInduction
  <2>. QED BY <2>3 DEF S
<1>. DEFINE f == [n \in Nat |-> (CHOOSE g : g \in Begun(n))[n]]
<1>3. ASSUME NEW n \in Nat, NEW g \in Begun(n) PROVE f[n] = g[n]
  <2>. HIDE DEF Begun
  <2>1. (CHOOSE h : h \in Begun(n)) \in Begun(n) BY <1>1
  <2>2. (CHOOSE h : h \in Begun(n))[n] = g[n] BY <1>2, <2>1
  <2>. QED BY <2>2
<1>. HIDE DEF f
<1>4. \A n \in Nat : f[n] \in V BY <1>1, <1>3
<1>5. f[0] = f0 BY <1>1, <1>3
<1>6. ASSUME NEW n \in Nat PROVE f[n + 1] = step[<<n, f[n]>>]
  <2>1. PICK g : g \in Begun(n + 1) BY <1>1
  <2>. DEFINE h == [m \in 0 .. n |-> g[m]]
  <2>2. h \in Begun(n)
    <3>1. \A m \in 0 .. n : m \in 0 .. n + 1 OBVIOUS
    <3>2. h \in [0 .. n -> V] /\ h[0] = f0 BY <2>1, <3>1
    <3>3. ASSUME NEW m \in 0 .. n - 1 PROVE h[m + 1] = step[<<m, h[m]>>]
      <4>1. m \in 0 .. n /\ m + 1 \in 0 .. n /\ m \in 0 .. n + 1 - 1 OBVIOUS
      <4>2. h[m] = g[m] /\ h[m + 1] = g[m + 1] BY <4>1
      <4>. QED BY <2>1, <4>1, <4>2
    <3>. QED BY <3>2, <3>3
  <2>3. f[n] = g[n] BY <1>3, <2>2
  <2>4. f[n + 1] = g[n + 1] BY <1>3, <2>1
  <2>. QED BY <2>1, <2>3, <2>4
<1>7. f \in [Nat -> V] BY <1>4 DEF f
<1>. QED BY <1>5, <1>6, <1>7 DEF Recurs

-----------------------------------------------------------------------------
LEMMA PowerRecursion ==
  ASSUME NEW b \in Nat
  PROVE  /\ Power(b, 0) = 1
         /\ \A n \in Nat : Power(b, n) \in Nat /\ Power(b, n + 1) = b * Power(b, n)
<1>. DEFINE Solves(g) == g = [k \in Nat |-> IF k = 0 THEN 1 ELSE b * g[k - 1]]
            step == [x \in Nat \X Nat |-> b * x[2]]
            pow == CHOOSE g : Solves(g)
<1>1. step \in [Nat \X Nat -> Nat] OBVIOUS
<1>2. PICK f \in [Nat -> Nat] : f[0] = 1 /\ \A n \in Nat : f[n + 1] = step[<<n, f[n]>>]
  <2>. HIDE DEF step
  <2>1. \E f : Recurs(f, Nat, 1, step) BY <1>1, NatRecursion
  <2>. QED BY <2>1 DEF Recurs
<1>3. \A n \in Nat : f[n + 1] = b * f[n] BY <1>2
<1>4. \A k \in Nat : f[k] = IF k = 0 THEN 1 ELSE b * f[k - 1]
  <2>. TAKE k \in Nat
  <2>1. CASE k = 0 BY <1>2, <2>1
  <2>2. CASE k # 0
    <3>1. k - 1 \in Nat /\ (k - 1) + 1 = k BY <2>2
    <3>. QED BY <1>3, <2>2, <3>1
  <2>. QED BY <2>1, <2>2
<1>5. Solves(f) BY <1>2, <1>4
<1>6. Solves(pow)
  <2>. HIDE DEF Solves
  <2>. QED BY <1>5
<1>. HIDE DEF pow
<1>7. \A k \in Nat : pow[k] = IF k = 0 THEN 1 ELSE b * pow[k - 1] BY <1>6
<1>8. \A n \in Nat : pow[n + 1] = b * pow[n]
  <2>. TAKE n \in Nat
  <2>1. n + 1 \in Nat /\ n + 1 # 0 /\ n + 1 - 1 = n OBVIOUS
  <2>. QED BY <1>7, <2>1
<1>9. \A n \in Nat : pow[n] \in Nat
  <2>. DEFINE S == {n \in Nat : pow[n] \in Nat}
  <2>1. 0 \in S BY <1>7
  <2>2. \A n \in Nat : n \in S => n + 1 \in S BY <1>8
  <2>. HIDE DEF S
  <2>3. \A n \in Nat : n \in S BY <2>1, <2>2, SetInduction
  <2>. QED BY <2>3 DEF S
<1>10. \A n : Power(b, n) = pow[n] BY Zenon DEF Power, pow
<1>. QED BY <1>7, <1>8, <1>9, <1>10

LEMMA Monotone ==
  ASSUME NEW a \in Int, NEW b \in Int, NEW c \in Nat, a <= b
  PROVE  a * c <= b * c
  OBVIOUS

LEMMA DivMod ==
  ASSUME NEW v \in Nat, NEW a \in Nat \ {0}
  PROVE  /\ v \div a \in Nat /\ v % a \in 0 .. a - 1
         /\ v = (v \div a) * a + (v % a)
  OBVIOUS

LEMMA Quotient ==
  ASSUME NEW v \in Nat, NEW a \in Nat \ {0}, NEW q \in Nat, q * a <= v, v < (q + 1) * a
  PROVE  v \div a = q
<1>. DEFINE d == v \div a
<1>1. d \in Nat /\ d * a <= v /\ v < (d + 1) * a
  <2>1. (d + 1) * a = d * a + a BY DivMod
  <2>. QED BY <2>1, DivMod
<1>. HIDE DEF d
<1>2. ASSUME d < q PROVE FALSE
  <2>1. (d + 1) * a <= q * a BY <1>1, <1>2, Monotone
  <2>. QED BY <1>1, <2>1
<1>3. ASSUME q < d PROVE FALSE
  <2>1. (q + 1) * a <= d * a BY <1>1, <1>3, Monotone
  <2>. QED BY <1>1, <2>1
<1>4. d = q BY <1>1, <1>2, <1>3
<1>. QED BY <1>4 DEF d

(* Dividing by one factor after the other. *)
LEMMA DivDiv ==
  ASSUME NEW v \in Nat, NEW a \in Nat \ {0}, NEW b \in Nat \ {0}
  PROVE  b * a \in Nat \ {0} /\ v \div (b * a) = (v \div a) \div b
<1>. DEFINE d == v \div a
            q == d \div b
<1>1. d \in Nat /\ v % a \in 0 .. a - 1 /\ v = d * a + (v % a) BY DivMod
<1>. HIDE DEF d
<1>2. q \in Nat /\ d % b \in 0 .. b - 1 /\ d = q * b + (d % b) BY <1>1, DivMod
<1>. HIDE DEF q
<1>3. b * a \in Nat \ {0} OBVIOUS
<1>4. q * b <= d /\ d + 1 <= (q + 1) * b
  <2>1. (q + 1) * b = q * b + b BY <1>2
  <2>2. q * b \in Nat BY <1>2
  <2>. QED BY <1>1, <1>2, <2>1, <2>2
<1>5. (q * b) * a <= d * a /\ (d + 1) * a <= ((q + 1) * b) * a
  <2>1. q * b \in Int /\ (q + 1) * b \in Int BY <1>2
  <2>. QED BY <1>1, <1>4, <2>1, Monotone
<1>6. (q * b) * a = q * (b * a) /\ ((q + 1) * b) * a = (q + 1) * (b * a) BY <1>2
<1>7. (d + 1) * a = d * a + a BY <1>1
<1>8. q * (b * a) <= v /\ v < (q + 1) * (b * a)
  <2>1. d * a \in Nat /\ q * (b * a) \in Nat /\ (q + 1) * (b * a) \in Nat BY <1>1, <1>2, <1>3
  <2>. QED BY <1>1, <1>5, <1>6, <1>7, <2>1
<1>9. v \div (b * a) = q BY <1>2, <1>3, <1>8, Quotient
<1>. QED BY <1>3, <1>9 DEF q, d

LEMMA PowerFacts ==
  ASSUME NEW b \in Nat \ {0}, NEW n \in Nat
  PROVE  /\ Power(b, n) \in Nat \ {0} /\ Power(b, 0) = 1
         /\ Power(b, n + 1) = b * Power(b, n)
<1>. DEFINE S == {m \in Nat : Power(b, m) \in Nat \ {0}}
<1>1. 0 \in S BY PowerRecursion
<1>2. ASSUME NEW m \in Nat, m \in S PROVE m + 1 \in S
  <2>1. Power(b, m) \in Nat \ {0} /\ Power(b, m + 1) = b * Power(b, m) BY <1>2, PowerRecursion
  <2>2. b * Power(b, m) \in Nat \ {0} BY <2>1, DivDiv
  <2>. QED BY <2>1, <2>2
<1>. HIDE DEF S
<1>3. n \in S BY <1>1, <1>2, SetInduction
<1>. QED BY <1>3, PowerRecursion DEF S

LEMMA Powers ==
  \A n \in Nat : /\ Power(2, n) \in Nat \ {0} /\ Power(10, n) \in Nat \ {0}
                 /\ Power(16, n) \in Nat \ {0} /\ Power(256, n) \in Nat \ {0}
<1>. TAKE n \in Nat
<1>1. Power(2, n) \in Nat \ {0} BY PowerFacts
<1>2. Power(10, n) \in Nat \ {0} BY PowerFacts
<1>3. Power(16, n) \in Nat \ {0} BY PowerFacts
<1>4. Power(256, n) \in Nat \ {0} BY PowerFacts
<1>. QED BY <1>1, <1>2, <1>3, <1>4

LEMMA Doubling ==
  \A n \in Nat :
    n + 1 \in Nat /\ Power(2, n) \in Nat \ {0} /\ Power(2, n + 1) = 2 * Power(2, n)
BY PowerFacts

LEMMA NextDigit ==
  ASSUME NEW v \in Nat, NEW b \in Nat \ {0}, NEW n \in Nat
  PROVE  v \div Power(b, n + 1) = (v \div Power(b, n)) \div b
<1>. DEFINE a == Power(b, n)
<1>1. a \in Nat \ {0} /\ Power(b, n + 1) = b * a BY PowerFacts
<1>. HIDE DEF a
<1>2. v \div (b * a) = (v \div a) \div b BY <1>1, DivDiv
<1>. QED BY <1>1, <1>2 DEF a

(* What Spelled computes, digit by digit. *)
Spells(f, text, k, N, radix) ==
  /\ f[k - 1] = 0
  /\ \A n \in k .. N : f[n] = radix * f[n - 1] + Digit(text[n])
  /\ Spelled(text, k, radix) = f[N]

LEMMA SpelledRecursion ==
  ASSUME NEW text, NEW N \in Nat, Len(text) = N, NEW k \in 1 .. N + 1, NEW radix \in Nat,
         \A n \in k .. N : Digit(text[n]) \in Int
  PROVE  \E f : Spells(f, text, k, N, radix)
<1>. DEFINE Solves(g) ==
              g = [n \in k - 1 .. N |-> IF n < k THEN 0 ELSE radix * g[n - 1] + Digit(text[n])]
            digit == [n \in Nat |-> IF n \in k .. N THEN Digit(text[n]) ELSE 0]
            step == [x \in Nat \X Int |-> radix * x[2] + digit[k + x[1]]]
            upTo == CHOOSE g : Solves(g)
<1>1. digit \in [Nat -> Int] OBVIOUS
<1>2. step \in [Nat \X Int -> Int]
  <2>. HIDE DEF digit
  <2>. QED BY <1>1
<1>3. PICK F \in [Nat -> Int] : F[0] = 0 /\ \A n \in Nat : F[n + 1] = step[<<n, F[n]>>]
  <2>. HIDE DEF step
  <2>1. 0 \in Int OBVIOUS
  <2>2. \E F : Recurs(F, Int, 0, step) BY <1>2, <2>1, NatRecursion, Zenon
  <2>. QED BY <2>2 DEF Recurs
<1>4. \A n \in Nat : F[n + 1] = radix * F[n] + digit[k + n]
  <2>. HIDE DEF digit
  <2>. QED BY <1>3
<1>. DEFINE f == [n \in k - 1 .. N |-> F[n - (k - 1)]]
<1>5. f[k - 1] = 0 BY <1>3
<1>6. \A n \in k .. N : f[n] = radix * f[n - 1] + Digit(text[n])
  <2>. TAKE n \in k .. N
  <2>1. /\ n \in k - 1 .. N /\ n - 1 \in k - 1 .. N /\ n - k \in Nat
        /\ n - (k - 1) = (n - k) + 1 /\ (n - 1) - (k - 1) = n - k /\ k + (n - k) = n
    OBVIOUS
  <2>2. f[n] = F[(n - k) + 1] /\ f[n - 1] = F[n - k] BY <2>1
  <2>3. F[(n - k) + 1] = radix * F[n - k] + digit[n] BY <1>4, <2>1
  <2>4. digit[n] = Digit(text[n]) BY <2>1
  <2>. QED BY <2>2, <2>3, <2>4
<1>. HIDE DEF f
<1>7. Solves(f)
  <2>1. f = [n \in k - 1 .. N |-> f[n]] BY DEF f
  <2>2. \A n \in k - 1 .. N :
          f[n] = IF n < k THEN 0 ELSE radix * f[n - 1] + Digit(text[n])
    <3>. TAKE n \in k - 1 .. N
    <3>1. CASE n < k
      <4>1. n = k - 1 BY <3>1
      <4>. QED BY <1>5, <3>1, <4>1
    <3>2. CASE ~(n < k)
      <4>1. n \in k .. N BY <3>2
      <4>. QED BY <1>6, <3>2, <4>1
    <3>. QED BY <3>1, <3>2
  <2>. QED BY <2>1, <2>2, Zenon
<1>8. Solves(upTo)
  <2>. HIDE DEF Solves
  <2>. QED BY <1>7
<1>. HIDE DEF upTo
<1>9. upTo[k - 1] = 0
  <2>1. k - 1 \in k - 1 .. N /\ k - 1 < k OBVIOUS
  <2>. QED BY <1>8, <2>1
<1>10. \A n \in k .. N : upTo[n] = radix * upTo[n - 1] + Digit(text[n])
  <2>. TAKE n \in k .. N
  <2>1. n \in k - 1 .. N /\ ~(n < k) OBVIOUS
  <2>. QED BY <1>8, <2>1
<1>11. Spelled(text, k, radix) = upTo[N] BY Zenon DEF Spelled, upTo
<1>. QED BY <1>9, <1>10, <1>11 DEF Spells

(* Digits that are those of a number, and enough of them, spell it. *)
DigitsOf(v, text, k, N, radix) ==
  \A n \in k .. N : Digit(text[n]) = (v \div Power(radix, N - n)) % radix

LEMMA Numeral ==
  ASSUME NEW text, NEW N \in Nat, Len(text) = N, NEW k \in 1 .. N + 1,
         NEW radix \in Nat \ {0}, NEW v \in Nat, v < Power(radix, N - k + 1),
         DigitsOf(v, text, k, N, radix)
  PROVE  Spelled(text, k, radix) = v
<1>. USE DEF DigitsOf
<1>1. ASSUME NEW n \in 0 .. N PROVE v \div Power(radix, n) \in Nat
  <2>. DEFINE a == Power(radix, n)
  <2>1. a \in Nat \ {0}
    <3>1. n \in Nat OBVIOUS
    <3>2. Power(radix, n) \in Nat \ {0} BY <3>1, PowerFacts, Zenon
    <3>. QED BY <3>2
  <2>. HIDE DEF a
  <2>2. v \div a \in Nat BY <2>1, DivMod
  <2>. QED BY <2>2 DEF a
<1>2. \A n \in k .. N : Digit(text[n]) \in Int
  <2>. TAKE n \in k .. N
  <2>1. v \div Power(radix, N - n) \in Nat BY <1>1
  <2>2. (v \div Power(radix, N - n)) % radix \in 0 .. radix - 1 BY <2>1, DivMod
  <2>. QED BY <2>2
<1>3. PICK f : /\ f[k - 1] = 0
               /\ \A n \in k .. N : f[n] = radix * f[n - 1] + Digit(text[n])
               /\ Spelled(text, k, radix) = f[N]
  <2>1. radix \in Nat OBVIOUS
  <2>2. \E f : Spells(f, text, k, N, radix) BY <1>2, <2>1, SpelledRecursion, Zenon
  <2>. QED BY <2>2 DEF Spells
<1>. DEFINE S == {m \in Nat : k - 1 + m <= N =>
                    f[k - 1 + m] = v \div Power(radix, N - (k - 1 + m))}
<1>4. 0 \in S
  <2>. DEFINE a == Power(radix, N - k + 1)
  <2>1. a \in Nat \ {0} BY PowerFacts
  <2>2. v < a OBVIOUS
  <2>. HIDE DEF a
  <2>3. v \div a = 0 BY <2>1, <2>2, Quotient
  <2>4. k - 1 + 0 = k - 1 /\ N - (k - 1 + 0) = N - k + 1 OBVIOUS
  <2>. QED BY <1>3, <2>3, <2>4 DEF a
<1>5. ASSUME NEW m \in Nat, m \in S PROVE m + 1 \in S
  <2>. SUFFICES ASSUME k - 1 + (m + 1) <= N
                PROVE  f[k - 1 + (m + 1)] = v \div Power(radix, N - (k - 1 + (m + 1)))
    OBVIOUS
  <2>. DEFINE n == k + m
              e == N - n
              d == v \div Power(radix, e)
  <2>1. /\ n \in k .. N /\ e \in Nat /\ e \in 0 .. N /\ k - 1 + (m + 1) = n
        /\ n - 1 = k - 1 + m /\ N - (k - 1 + m) = e + 1
    OBVIOUS
  <2>2. f[n - 1] = v \div Power(radix, e + 1) BY <1>5, <2>1
  <2>3. f[n] = radix * f[n - 1] + (d % radix) BY <1>3, <2>1
  <2>4. d \in Nat BY <1>1, <2>1
  <2>5. v \div Power(radix, e + 1) = d \div radix BY <2>1, NextDigit
  <2>. HIDE DEF d
  <2>6. d = (d \div radix) * radix + (d % radix) /\ d \div radix \in Nat BY <2>4, DivMod
  <2>7. f[n] = d BY <2>2, <2>3, <2>5, <2>6
  <2>. QED BY <2>1, <2>7 DEF d
<1>. HIDE DEF S
<1>6. N - k + 1 \in S BY <1>4, <1>5, SetInduction
<1>7. f[N] = v \div Power(radix, 0)
  <2>1. k - 1 + (N - k + 1) = N /\ N - N = 0 OBVIOUS
  <2>. QED BY <1>6, <2>1 DEF S
<1>8. v \div 1 = v OBVIOUS
<1>. QED BY <1>3, <1>7, <1>8, PowerFacts
-----------------------------------------------------------------------------
LEMMA IntDivMod ==
  ASSUME NEW v \in Int, NEW a \in Nat \ {0}
  PROVE  v \div a \in Int /\ v % a \in 0 .. a - 1 /\ v = (v \div a) * a + (v % a)
  OBVIOUS

LEMMA Remainder ==
  ASSUME NEW v \in Int, NEW a \in Nat \ {0}, NEW q \in Int, NEW r \in 0 .. a - 1, v = q * a + r
  PROVE  v % a = r
<1>. DEFINE d == v \div a
            m == v % a
<1>1. d \in Int /\ m \in 0 .. a - 1 /\ v = d * a + m BY IntDivMod
<1>. HIDE DEF d, m
<1>2. d * a \in Int /\ q * a \in Int BY <1>1
<1>3. (d + 1) * a = d * a + a /\ (q + 1) * a = q * a + a BY <1>1
<1>4. ASSUME d < q PROVE FALSE
  <2>1. (d + 1) * a <= q * a BY <1>1, <1>4, Monotone
  <2>. QED BY <1>1, <1>2, <1>3, <2>1
<1>5. ASSUME q < d PROVE FALSE
  <2>1. (q + 1) * a <= d * a BY <1>1, <1>5, Monotone
  <2>. QED BY <1>1, <1>2, <1>3, <2>1
<1>6. d = q BY <1>1, <1>4, <1>5
<1>7. m = r BY <1>1, <1>2, <1>6
<1>. QED BY <1>7 DEF m

LEMMA Widths ==
  ASSUME NEW P, P = Power(2, ImmBits - 1)
  PROVE  /\ ImmBits - 1 \in Nat /\ P \in Nat \ {0}
         /\ Power(2, ImmBits) = 2 * P
         /\ Power(2, WordBits - 1) = 64 * P /\ Power(2, WordBits) = 128 * P
<1>. DEFINE m == ImmBits - 1
<1>1. m \in Nat /\ ImmBits = m + 1 /\ WordBits = ((((((m + 1) + 1) + 1) + 1) + 1) + 1) + 1
      /\ WordBits - 1 = (((((m + 1) + 1) + 1) + 1) + 1) + 1
  BY InterposingAssumption DEF WordBits
<1>. HIDE DEF m
<1>2. \A n \in Nat :
        n + 1 \in Nat /\ Power(2, n) \in Nat \ {0} /\ Power(2, n + 1) = 2 * Power(2, n)
  BY Doubling, Zenon
<1>3. Power(2, m + 1) = 2 * Power(2, m) BY <1>1, <1>2
<1>4. Power(2, (m + 1) + 1) = 4 * Power(2, m) BY <1>1, <1>2, <1>3
<1>5. Power(2, ((m + 1) + 1) + 1) = 8 * Power(2, m) BY <1>1, <1>2, <1>4
<1>6. Power(2, (((m + 1) + 1) + 1) + 1) = 16 * Power(2, m) BY <1>1, <1>2, <1>5
<1>7. Power(2, ((((m + 1) + 1) + 1) + 1) + 1) = 32 * Power(2, m) BY <1>1, <1>2, <1>6
<1>8. Power(2, (((((m + 1) + 1) + 1) + 1) + 1) + 1) = 64 * Power(2, m) BY <1>1, <1>2, <1>7
<1>9. Power(2, ((((((m + 1) + 1) + 1) + 1) + 1) + 1) + 1) = 128 * Power(2, m)
  BY <1>1, <1>2, <1>8
<1>. QED BY <1>1, <1>2, <1>3, <1>8, <1>9 DEF m

(* A branch with link and its distance. *)
LEMMA Decoded ==
  ASSUME NEW inst \in 0 .. Power(2, WordBits) - 1, is_bl(inst)
  PROVE  \E distance \in -(Power(2, ImmBits - 1)) .. Power(2, ImmBits - 1) - 1 :
           /\ inst = (Bl * Power(2, ImmBits)) + (distance % Power(2, ImmBits))
           /\ decode_bl_offset(inst) = 4 * distance
<1>. DEFINE P == Power(2, ImmBits - 1)
            x == inst % (2 * P)
            distance == IF x >= P THEN x - 2 * P ELSE x
<1>1. /\ P \in Nat \ {0} /\ Power(2, ImmBits) = 2 * P
      /\ Power(2, WordBits - 1) = 64 * P /\ Power(2, WordBits) = 128 * P
  BY Widths
<1>. HIDE DEF P
<1>2. inst \in Nat /\ inst \div (2 * P) = 37 BY <1>1 DEF is_bl, Bl
<1>3. 2 * P \in Nat \ {0} /\ 128 * P \in Nat \ {0} BY <1>1
<1>4. x \in 0 .. 2 * P - 1 /\ inst = 37 * (2 * P) + x
  <2>1. x \in 0 .. 2 * P - 1 /\ inst = (inst \div (2 * P)) * (2 * P) + x BY <1>2, <1>3, DivMod
  <2>. QED BY <1>2, <2>1
<1>5. decode_bl_offset(inst) = Signed((x * 64) % (128 * P)) \div 16
  BY <1>1 DEF decode_bl_offset
<1>. HIDE DEF x
<1>6. (x * 64) % (128 * P) = x * 64
  <2>1. x * 64 \in 0 .. 128 * P - 1 /\ x * 64 \in Int BY <1>1, <1>4
  <2>2. x * 64 = 0 * (128 * P) + x * 64 BY <1>1, <1>4
  <2>. QED BY <1>3, <2>1, <2>2, Remainder
<1>7. Signed(x * 64) = IF x * 64 >= 64 * P THEN x * 64 - 128 * P ELSE x * 64
  BY <1>1 DEF Signed
<1>8. distance \in -P .. P - 1 BY <1>1, <1>4
<1>9. Signed(x * 64) = 16 * (4 * distance)
  <2>1. CASE x >= P BY <1>1, <1>4, <1>7, <2>1
  <2>2. CASE ~(x >= P) BY <1>1, <1>4, <1>7, <2>2
  <2>. QED BY <2>1, <2>2
<1>10. distance % (2 * P) = x
  <2>1. \E q \in Int : distance = q * (2 * P) + x
    <3>1. CASE x >= P
      <4>1. distance = (-1) * (2 * P) + x BY <1>1, <1>4, <3>1
      <4>. QED BY <4>1
    <3>2. CASE ~(x >= P)
      <4>1. distance = 0 * (2 * P) + x BY <1>1, <1>4, <3>2
      <4>. QED BY <4>1
    <3>. QED BY <3>1, <3>2
  <2>. HIDE DEF distance
  <2>2. distance \in Int BY <1>1, <1>8
  <2>. QED BY <1>3, <1>4, <2>1, <2>2, Remainder
<1>. HIDE DEF distance
<1>11. (16 * (4 * distance)) \div 16 = 4 * distance BY <1>1, <1>8
<1>12. decode_bl_offset(inst) = 4 * distance BY <1>5, <1>6, <1>9, <1>11
<1>13. inst = (Bl * Power(2, ImmBits)) + (distance % Power(2, ImmBits))
  BY <1>1, <1>4, <1>10 DEF Bl
<1>. QED BY <1>8, <1>12, <1>13 DEF P

LEMMA HexDigit ==
  ASSUME NEW x \in 0 .. 15
  PROVE  /\ nibble_to_ascii_hex(x) \in 48 .. 57 \union 97 .. 102
         /\ Digit(nibble_to_ascii_hex(x)) = x
BY DEF nibble_to_ascii_hex, Digit

LEMMA DecimalDigit ==
  ASSUME NEW v \in Nat
  PROVE  SizeDigit(v, FALSE) \in 48 .. 57 /\ Digit(SizeDigit(v, FALSE)) = v % 10
BY DEF SizeDigit, Digit

(* Two hexadecimal digits are a byte. *)
LEMMA TwoNibbles ==
  ASSUME NEW n \in Nat
  PROVE  Power(16, 2 * n) = Power(256, n)
<1>. DEFINE S == {m \in Nat : Power(16, 2 * m) = Power(256, m)}
<1>1. 0 \in S BY PowerFacts
<1>2. ASSUME NEW m \in Nat, m \in S PROVE m + 1 \in S
  <2>1. 2 * (m + 1) = (2 * m + 1) + 1 /\ 2 * m \in Nat /\ 2 * m + 1 \in Nat OBVIOUS
  <2>2. Power(16, (2 * m + 1) + 1) = 16 * (16 * Power(16, 2 * m)) BY <2>1, PowerFacts
  <2>3. Power(256, m + 1) = 256 * Power(256, m) /\ Power(256, m) \in Nat BY PowerFacts
  <2>. QED BY <1>2, <2>1, <2>2, <2>3
<1>. HIDE DEF S
<1>3. n \in S BY <1>1, <1>2, SetInduction
<1>. QED BY <1>3 DEF S

AreNibbles(v, m, b) ==
  /\ b \div 16 \in 0 .. 15 /\ b % 16 \in 0 .. 15
  /\ (v \div Power(16, 2 * m)) % 16 = b % 16
  /\ (v \div Power(16, 2 * m + 1)) % 16 = b \div 16

LEMMA Nibbles ==
  ASSUME NEW v \in Nat, NEW m \in Nat
  PROVE  AreNibbles(v, m, (v \div Power(256, m)) % 256)
<1>. DEFINE b == (v \div Power(256, m)) % 256
<1>. SUFFICES /\ b \div 16 \in 0 .. 15 /\ b % 16 \in 0 .. 15
              /\ (v \div Power(16, 2 * m)) % 16 = b % 16
              /\ (v \div Power(16, 2 * m + 1)) % 16 = b \div 16
  BY Zenon DEF AreNibbles
<1>. DEFINE w == v \div Power(256, m)
<1>1. w \in Nat
  <2>. DEFINE a == Power(256, m)
  <2>1. a \in Nat \ {0} BY Powers, Zenon
  <2>. HIDE DEF a
  <2>2. v \div a \in Nat BY <2>1, DivMod
  <2>. QED BY <2>2 DEF a
<1>2. v \div Power(16, 2 * m) = w BY TwoNibbles
<1>3. v \div Power(16, 2 * m + 1) = w \div 16
  <2>1. 2 * m \in Nat OBVIOUS
  <2>. QED BY <1>2, <2>1, NextDigit
<1>4. b = w % 256 OBVIOUS
<1>. HIDE DEF w, b
<1>. QED BY <1>1, <1>2, <1>3, <1>4

(* More digits than there are. *)
LEMMA NoMoreDigits ==
  ASSUME NEW v \in Nat, NEW b \in Nat \ {0}, NEW n \in Nat
  PROVE  v < Power(b, n) <=> v \div Power(b, n) = 0
<1>. DEFINE a == Power(b, n)
<1>1. a \in Nat \ {0} BY PowerFacts
<1>. HIDE DEF a
<1>2. v \div a \in Nat /\ v % a \in 0 .. a - 1 /\ v = (v \div a) * a + (v % a) BY <1>1, DivMod
<1>3. ASSUME v < a PROVE v \div a = 0 BY <1>1, <1>3, Quotient
<1>4. ASSUME v \div a = 0 PROVE v < a BY <1>1, <1>2, <1>4
<1>. QED BY <1>3, <1>4 DEF a
-----------------------------------------------------------------------------
LEMMA SeqOf ==
  ASSUME NEW n \in Nat, NEW S, NEW f \in [1 .. n -> S]
  PROVE  f \in Seq(S) /\ Len(f) = n /\ DOMAIN f = 1 .. n
OBVIOUS

(* Where the two threads are: main has made the first n of its calls, the  *)
(* other thread all but the last 4 - m of those it makes.                  *)
ACall == [f : Names, image : {"exe", "lib"}]
MainCalls ==
  Calls(my_pthread_init, "lib") \o Calls(main, "exe") \o Calls(mimalloc_tester_main, "lib")
ThreadCalls == Calls(<<"heap_empty">> \o pthread_test, "lib")
After(s, n) == SubSeq(s, n + 1, Len(s))

Given(t) == [by |-> "mimalloc", of |-> t, via |-> "malloc"]

MainToDo(n) ==
  \/ todo["main"] = After(MainCalls, n)
  \/ n = 10 /\ todo["main"] \in {<<Call("join_garbage", "lib")>>, <<Call("crashed", "lib")>>}

MainAt(n) ==
  /\ MainToDo(n)
  /\ n >= 1 => environ
  /\ n >= 2 => loaded = "yes"
  /\ n >= 3 => slot["main"] # None
  /\ n >= 4 => start = "my_thread_start"
  /\ n \in {5, 7} => p["main"] = Given("main")
  /\ Given("main") \in live <=> n \in {5, 7}

ThreadAt(m) ==
  /\ todo["t"] = After(ThreadCalls, m)
  /\ m < 4 => loaded = "yes"
  /\ m \in 1 .. 3 => slot["t"] # None
  /\ m = 2 => p["t"] = Given("t")
  /\ Given("t") \in live <=> m = 2

Typed ==
  /\ todo \in [Threads -> Seq(ACall)]
  /\ environ \in BOOLEAN /\ loaded \in {"no", "without environ", "yes"}
  /\ start \in {None, "my_thread_start", "thread_start"}
  /\ slot \in [Threads -> {None, "empty", "own"}]
  /\ p \in [Threads -> Blocks \union {NoBlock}] /\ live \subseteq Blocks

CInv ==
  /\ Typed
  /\ \A b \in live : b.via = "malloc" => b.by = "mimalloc"
  /\ \E n \in 0 .. 11, m \in 0 .. 4 : MainAt(n) /\ ThreadAt(m) /\ (n <= 9 => m = 4)

LEMMA CallsOf ==
  ASSUME NEW n \in Nat, NEW fs \in [1 .. n -> Names], NEW image \in {"exe", "lib"}
  PROVE  /\ Calls(fs, image) \in Seq(ACall) /\ Len(Calls(fs, image)) = n
         /\ \A k \in 1 .. n : Calls(fs, image)[k] = Call(fs[k], image)
<1>1. Calls(fs, image) = [k \in 1 .. n |-> Call(fs[k], image)] BY DEF Calls
<1>2. \A k \in 1 .. n : Call(fs[k], image) \in ACall BY DEF Call, ACall
<1>3. Calls(fs, image) \in [1 .. n -> ACall] BY <1>1, <1>2
<1>. QED BY <1>1, <1>3, SeqOf

LEMMA Joined ==
  ASSUME NEW S, NEW a \in Seq(S), NEW b \in Seq(S)
  PROVE  /\ a \o b \in Seq(S)
         /\ Len(a \o b) = Len(a) + Len(b)
         /\ \A k \in 1 .. Len(a) : (a \o b)[k] = a[k]
         /\ \A k \in Len(a) + 1 .. Len(a) + Len(b) : (a \o b)[k] = b[k - Len(a)]
OBVIOUS

LEMMA CallsAre ==
  /\ MainCalls \in Seq(ACall) /\ Len(MainCalls) = 11
  /\ \A k \in 1 .. 11 : MainCalls[k] =
       Call(<<"set_program_vars", "_mi_process_load", "heap_empty", "__pthread_init", "malloc",
              "free", "malloc", "free", "strdup", "pthread_create", "pthread_join">>[k],
            IF k \in 5 .. 6 THEN "exe" ELSE "lib")
  /\ ThreadCalls \in Seq(ACall) /\ Len(ThreadCalls) = 4
  /\ \A k \in 1 .. 4 : ThreadCalls[k] =
       Call(<<"heap_empty", "malloc", "free", "strdup">>[k], "lib")
<1>. DEFINE A == Calls(my_pthread_init, "lib")
            B == Calls(main, "exe")
            C == Calls(mimalloc_tester_main, "lib")
            D == <<"heap_empty">> \o pthread_test
<1>1. /\ A \in Seq(ACall) /\ Len(A) = 4
      /\ \A k \in 1 .. 4 : A[k] = Call(my_pthread_init[k], "lib")
  <2>1. my_pthread_init \in [1 .. 4 -> Names] BY DEF my_pthread_init, Names
  <2>. QED BY <2>1, CallsOf
<1>2. B \in Seq(ACall) /\ Len(B) = 2 /\ \A k \in 1 .. 2 : B[k] = Call(main[k], "exe")
  <2>1. main \in [1 .. 2 -> Names] BY DEF main, Names
  <2>. QED BY <2>1, CallsOf
<1>3. /\ C \in Seq(ACall) /\ Len(C) = 5
      /\ \A k \in 1 .. 5 : C[k] = Call(mimalloc_tester_main[k], "lib")
  <2>1. mimalloc_tester_main \in [1 .. 5 -> Names] BY DEF mimalloc_tester_main, Names
  <2>. QED BY <2>1, CallsOf
<1>4. /\ D \in [1 .. 4 -> Names] /\ D[1] = "heap_empty" /\ D[2] = "malloc"
      /\ D[3] = "free" /\ D[4] = "strdup"
  <2>. DEFINE a == <<"heap_empty">>
  <2>1. a \in [1 .. 1 -> Names] /\ a[1] = "heap_empty" BY DEF Names
  <2>2. pthread_test \in [1 .. 3 -> Names] BY DEF pthread_test, Names
  <2>. HIDE DEF a
  <2>3. a \in Seq(Names) /\ Len(a) = 1 BY <2>1, SeqOf
  <2>4. pthread_test \in Seq(Names) /\ Len(pthread_test) = 3 BY <2>2, SeqOf
  <2>. DEFINE d == a \o pthread_test
  <2>5. d \in Seq(Names) BY <2>3, <2>4, Joined, Zenon
  <2>6. Len(d) = Len(a) + Len(pthread_test) BY <2>3, <2>4, Joined, Zenon
  <2>7. \A k \in 1 .. Len(a) : d[k] = a[k] BY <2>3, <2>4, Joined, Zenon
  <2>8. \A k \in Len(a) + 1 .. Len(a) + Len(pthread_test) : d[k] = pthread_test[k - Len(a)]
    BY <2>3, <2>4, Joined, Zenon
  <2>9. D = d BY DEF a
  <2>. HIDE DEF d, D
  <2>10. d \in [1 .. 4 -> Names]
    <3>1. d \in [1 .. Len(d) -> Names] BY <2>5, LenProperties, Zenon
    <3>2. Len(d) = 4 BY <2>3, <2>4, <2>6
    <3>. QED BY <3>1, <3>2, Zenon
  <2>11. d[1] = a[1] BY <2>3, <2>7
  <2>12. d[2] = pthread_test[1] /\ d[3] = pthread_test[2] /\ d[4] = pthread_test[3]
    BY <2>3, <2>4, <2>8
  <2>. QED BY <2>1, <2>9, <2>10, <2>11, <2>12 DEF pthread_test
<1>5. /\ ThreadCalls \in Seq(ACall) /\ Len(ThreadCalls) = 4
      /\ \A k \in 1 .. 4 : ThreadCalls[k] = Call(D[k], "lib")
  BY <1>4, CallsOf DEF ThreadCalls
<1>. HIDE DEF A, B, C, D
<1>. DEFINE E == A \o B
            F == E \o C
<1>6. E \in Seq(ACall) BY <1>1, <1>2, Joined, Zenon
<1>7. Len(E) = Len(A) + Len(B) BY <1>1, <1>2, Joined, Zenon
<1>8. \A k \in 1 .. Len(A) : E[k] = A[k] BY <1>1, <1>2, Joined, Zenon
<1>9. \A k \in Len(A) + 1 .. Len(A) + Len(B) : E[k] = B[k - Len(A)]
  BY <1>1, <1>2, Joined, Zenon
<1>. HIDE DEF E
<1>10. F \in Seq(ACall) BY <1>3, <1>6, Joined, Zenon
<1>11. Len(F) = Len(E) + Len(C) BY <1>3, <1>6, Joined, Zenon
<1>12. \A k \in 1 .. Len(E) : F[k] = E[k] BY <1>3, <1>6, Joined, Zenon
<1>13. \A k \in Len(E) + 1 .. Len(E) + Len(C) : F[k] = C[k - Len(E)]
  BY <1>3, <1>6, Joined, Zenon
<1>14. MainCalls = F BY DEF MainCalls, A, B, C, E
<1>. HIDE DEF F
<1>15. Len(E) = 6 /\ Len(F) = 11 BY <1>1, <1>2, <1>3, <1>7, <1>11
<1>16. ASSUME NEW k \in 1 .. 4 PROVE F[k] = Call(my_pthread_init[k], "lib")
  BY <1>1, <1>8, <1>12, <1>15
<1>17. ASSUME NEW k \in 5 .. 6 PROVE F[k] = Call(main[k - 4], "exe")
  BY <1>1, <1>2, <1>9, <1>12, <1>15
<1>18. ASSUME NEW k \in 7 .. 11 PROVE F[k] = Call(mimalloc_tester_main[k - 6], "lib")
  BY <1>3, <1>13, <1>15
<1>19. ASSUME NEW k \in 1 .. 11
       PROVE  F[k] =
         Call(<<"set_program_vars", "_mi_process_load", "heap_empty", "__pthread_init", "malloc",
                "free", "malloc", "free", "strdup", "pthread_create", "pthread_join">>[k],
              IF k \in 5 .. 6 THEN "exe" ELSE "lib")
  <2>1. CASE k \in 1 .. 4 BY <1>16, <2>1 DEF my_pthread_init
  <2>2. CASE k \in 5 .. 6 BY <1>17, <2>2 DEF main
  <2>3. CASE k \in 7 .. 11 BY <1>18, <2>3 DEF mimalloc_tester_main
  <2>. QED BY <2>1, <2>2, <2>3
<1>20. ASSUME NEW k \in 1 .. 4
       PROVE  ThreadCalls[k] = Call(<<"heap_empty", "malloc", "free", "strdup">>[k], "lib")
  BY <1>4, <1>5
<1>. QED BY <1>5, <1>10, <1>14, <1>15, <1>19, <1>20

LEMMA AfterFacts ==
  ASSUME NEW s \in Seq(ACall), NEW n \in 0 .. Len(s)
  PROVE  /\ After(s, n) \in Seq(ACall)
         /\ After(s, n) = << >> <=> n = Len(s)
         /\ n < Len(s) => Head(After(s, n)) = s[n + 1] /\ Tail(After(s, n)) = After(s, n + 1)
<1>1. /\ After(s, n) \in Seq(ACall) /\ Len(After(s, n)) = Len(s) - n
  BY SubSeqProperties DEF After
<1>2. n < Len(s) => Head(After(s, n)) = s[n + 1] /\ Tail(After(s, n)) = After(s, n + 1)
  BY HeadTailOfSubSeq DEF After
<1>. QED BY <1>1, <1>2

(* The call that main, or the other thread, makes next.                    *)
LEMMA MainNext ==
  ASSUME NEW n \in 0 .. 11, MainToDo(n), todo["main"] # << >>
  PROVE  /\ n <= 10
         /\ Tail(todo["main"]) = After(MainCalls, n + 1)
         /\ \/ Current("main") = MainCalls[n + 1]
            \/ n = 10 /\ Current("main").f \in {"join_garbage", "crashed"}
<1>1. /\ After(MainCalls, n) = << >> <=> n = 11
      /\ n < 11 => /\ Head(After(MainCalls, n)) = MainCalls[n + 1]
                   /\ Tail(After(MainCalls, n)) = After(MainCalls, n + 1)
  <2>1. MainCalls \in Seq(ACall) /\ Len(MainCalls) = 11 BY CallsAre, Zenon
  <2>2. n \in 0 .. Len(MainCalls) BY <2>1
  <2>3. After(MainCalls, n) = << >> <=> n = Len(MainCalls) BY <2>1, <2>2, AfterFacts, Zenon
  <2>4. n < Len(MainCalls) => /\ Head(After(MainCalls, n)) = MainCalls[n + 1]
                              /\ Tail(After(MainCalls, n)) = After(MainCalls, n + 1)
    BY <2>1, <2>2, AfterFacts, Zenon
  <2>5. n = Len(MainCalls) <=> n = 11 BY <2>1
  <2>6. n < Len(MainCalls) <=> n < 11 BY <2>1
  <2>. QED BY <2>3, <2>4, <2>5, <2>6, Zenon
<1>2. CASE todo["main"] = After(MainCalls, n)
  <2>1. n < 11 /\ n <= 10 BY <1>1, <1>2
  <2>2. Head(todo["main"]) = MainCalls[n + 1] /\ Tail(todo["main"]) = After(MainCalls, n + 1)
    BY <1>1, <1>2, <2>1, Zenon
  <2>. QED BY <2>1, <2>2, Zenon DEF Current
<1>3. ASSUME n = 10, NEW c \in {Call("join_garbage", "lib"), Call("crashed", "lib")},
             todo["main"] = <<c>>
      PROVE  Tail(todo["main"]) = After(MainCalls, 11) /\ Current("main") = c
  <2>1. MainCalls \in Seq(ACall) /\ Len(MainCalls) = 11 BY CallsAre, Zenon
  <2>2. 11 \in 0 .. Len(MainCalls) /\ 11 = Len(MainCalls) BY <2>1
  <2>3. After(MainCalls, 11) = << >> BY <2>1, <2>2, AfterFacts, Zenon
  <2>4. Head(<<c>>) = c /\ Tail(<<c>>) = << >> OBVIOUS
  <2>. QED BY <1>3, <2>3, <2>4 DEF Current
<1>4. CASE n = 10 /\ todo["main"] \in {<<Call("join_garbage", "lib")>>, <<Call("crashed", "lib")>>}
  <2>1. PICK c \in {Call("join_garbage", "lib"), Call("crashed", "lib")} : todo["main"] = <<c>>
    BY <1>4
  <2>2. c.f \in {"join_garbage", "crashed"} BY DEF Call
  <2>3. Tail(todo["main"]) = After(MainCalls, 11) /\ Current("main") = c BY <1>3, <1>4, <2>1
  <2>. QED BY <1>4, <2>2, <2>3
<1>. QED BY <1>2, <1>4 DEF MainToDo

LEMMA MainCall ==
  ASSUME NEW n \in 0 .. 11, MainToDo(n), todo["main"] # << >>
  PROVE  LET f == Current("main").f IN
         /\ f = "set_program_vars" => n = 0
         /\ f = "_mi_process_load" => n = 1
         /\ f = "heap_empty" => n = 2
         /\ f = "__pthread_init" => n = 3
         /\ f = "malloc" => n \in {4, 6}
         /\ f = "free" => n \in {5, 7}
         /\ f = "strdup" => n = 8
         /\ f = "pthread_create" => n = 9
         /\ f \in {"pthread_join", "join_garbage"} => n = 10
         /\ f = "malloc" => Current("main") = Call("malloc", IF n = 4 THEN "exe" ELSE "lib")
         /\ f = "free" => Current("main") = Call("free", IF n = 5 THEN "exe" ELSE "lib")
<1>1. CASE Current("main") = MainCalls[n + 1]
  <2>1. n + 1 \in 1 .. 11 BY MainNext
  <2>2. Current("main") =
         Call(<<"set_program_vars", "_mi_process_load", "heap_empty", "__pthread_init", "malloc",
                "free", "malloc", "free", "strdup", "pthread_create", "pthread_join">>[n + 1],
              IF n + 1 \in 5 .. 6 THEN "exe" ELSE "lib")
    BY <1>1, <2>1, CallsAre
  <2>. QED BY <2>1, <2>2 DEF Call
<1>2. CASE n = 10 /\ Current("main").f \in {"join_garbage", "crashed"} BY <1>2
<1>. QED BY <1>1, <1>2, MainNext

LEMMA ThreadCall ==
  ASSUME NEW m \in 0 .. 4, todo["t"] = After(ThreadCalls, m), todo["t"] # << >>
  PROVE  LET f == Current("t").f IN
         /\ m < 4 /\ Tail(todo["t"]) = After(ThreadCalls, m + 1)
         /\ Current("t").image = "lib"
         /\ f = "heap_empty" <=> m = 0
         /\ f = "malloc" <=> m = 1
         /\ f = "free" <=> m = 2
         /\ f = "strdup" <=> m = 3
<1>1. m < 4 /\ Tail(todo["t"]) = After(ThreadCalls, m + 1) /\ Current("t") = ThreadCalls[m + 1]
  <2>1. ThreadCalls \in Seq(ACall) /\ Len(ThreadCalls) = 4 BY CallsAre, Zenon
  <2>2. m \in 0 .. Len(ThreadCalls) BY <2>1
  <2>3. After(ThreadCalls, m) = << >> <=> m = Len(ThreadCalls) BY <2>1, <2>2, AfterFacts, Zenon
  <2>4. m < Len(ThreadCalls) => /\ Head(After(ThreadCalls, m)) = ThreadCalls[m + 1]
                                /\ Tail(After(ThreadCalls, m)) = After(ThreadCalls, m + 1)
    BY <2>1, <2>2, AfterFacts, Zenon
  <2>5. m # Len(ThreadCalls) BY <2>3
  <2>6. m < 4 /\ m < Len(ThreadCalls) BY <2>1, <2>5
  <2>. QED BY <2>4, <2>6, Zenon DEF Current
<1>2. Current("t") = Call(<<"heap_empty", "malloc", "free", "strdup">>[m + 1], "lib")
  BY <1>1, CallsAre
<1>. QED BY <1>1, <1>2 DEF Call

(* A step of main alone, or of the other thread alone, as the invariant    *)
(* sees it.                                                                *)
LEMMA MainMoves ==
  ASSUME Typed, NEW n \in 0 .. 11, NEW m \in 0 .. 4, MainAt(n), ThreadAt(m), n <= 9 => m = 4,
         todo["main"] # << >>, todo' = [todo EXCEPT !["main"] = Tail(@)]
  PROVE  /\ n + 1 \in 0 .. 11 /\ MainToDo(n + 1)' /\ todo'["t"] = todo["t"]
         /\ (n + 1 <= 9 => m = 4) /\ todo' \in [Threads -> Seq(ACall)]
<1>1. n <= 10 /\ Tail(todo["main"]) = After(MainCalls, n + 1) BY MainNext DEF MainAt
<1>2. todo \in [Threads -> Seq(ACall)] /\ "main" \in Threads /\ "t" \in Threads
  BY DEF Typed, Threads
<1>3. Tail(todo["main"]) \in Seq(ACall) BY <1>2, HeadTailProperties
<1>4. /\ todo'["main"] = After(MainCalls, n + 1) /\ todo'["t"] = todo["t"]
      /\ todo' \in [Threads -> Seq(ACall)]
  BY <1>1, <1>2, <1>3 DEF Threads
<1>. QED BY <1>1, <1>4 DEF MainToDo

LEMMA ThreadMoves ==
  ASSUME Typed, NEW m \in 0 .. 4, ThreadAt(m),
         todo["t"] # << >>, todo' = [todo EXCEPT !["t"] = Tail(@)]
  PROVE  /\ m + 1 \in 0 .. 4 /\ m < 4 /\ todo'["t"] = After(ThreadCalls, m + 1)
         /\ todo'["main"] = todo["main"] /\ todo' \in [Threads -> Seq(ACall)]
<1>1. m < 4 /\ Tail(todo["t"]) = After(ThreadCalls, m + 1) BY ThreadCall DEF ThreadAt
<1>2. todo \in [Threads -> Seq(ACall)] /\ "main" \in Threads /\ "t" \in Threads
  BY DEF Typed, Threads
<1>3. Tail(todo["t"]) \in Seq(ACall) BY <1>2, HeadTailProperties
<1>. QED BY <1>1, <1>2, <1>3 DEF Threads

LEMMA InitCInv == Init => CInv
<1>. SUFFICES ASSUME Init PROVE CInv OBVIOUS
<1>1. todo = [t \in Threads |-> IF t = "main" THEN MainCalls ELSE << >>]
  BY DEF Init, MainCalls
<1>2. MainCalls \in Seq(ACall) /\ Len(MainCalls) = 11 /\ ThreadCalls \in Seq(ACall)
      /\ Len(ThreadCalls) = 4
  BY CallsAre, Zenon
<1>3. After(MainCalls, 0) = MainCalls
  <2>1. SubSeq(MainCalls, 1, Len(MainCalls)) = MainCalls BY <1>2, SubSeqFull, Zenon
  <2>. QED BY <2>1 DEF After
<1>4. After(ThreadCalls, 4) = << >>
  <2>1. 4 \in 0 .. Len(ThreadCalls) /\ 4 = Len(ThreadCalls) BY <1>2
  <2>. QED BY <1>2, <2>1, AfterFacts, Zenon
<1>5. todo["main"] = MainCalls /\ todo["t"] = << >> BY <1>1 DEF Threads
<1>6. todo \in [Threads -> Seq(ACall)]
  <2>1. << >> \in Seq(ACall) OBVIOUS
  <2>. QED BY <1>1, <1>2, <2>1
<1>7. /\ environ = FALSE /\ loaded = "no" /\ start = None /\ live = {}
      /\ slot = [t \in Threads |-> None] /\ p = [t \in Threads |-> NoBlock]
  BY DEF Init
<1>8. Typed BY <1>6, <1>7 DEF Typed
<1>9. MainAt(0) BY <1>3, <1>5, <1>7 DEF MainAt, MainToDo
<1>10. ThreadAt(4) BY <1>4, <1>5, <1>7 DEF ThreadAt
<1>. QED BY <1>7, <1>8, <1>9, <1>10 DEF CInv

LEMMA CInvKept == CInv /\ UNCHANGED process => CInv'
<1>. SUFFICES ASSUME CInv, UNCHANGED process PROVE CInv' OBVIOUS
<1>1. PICK n \in 0 .. 11, m \in 0 .. 4 : MainAt(n) /\ ThreadAt(m) /\ (n <= 9 => m = 4)
  BY DEF CInv
<1>2. /\ todo' = todo /\ environ' = environ /\ loaded' = loaded /\ start' = start
      /\ slot' = slot /\ p' = p /\ live' = live
  BY DEF process
<1>3. Typed' BY <1>2 DEF CInv, Typed
<1>4. MainAt(n)' BY <1>1, <1>2 DEF MainAt, MainToDo
<1>5. ThreadAt(m)' BY <1>1, <1>2 DEF ThreadAt
<1>6. \A b \in live' : b.via = "malloc" => b.by = "mimalloc" BY <1>2 DEF CInv
<1>. QED BY <1>1, <1>3, <1>4, <1>5, <1>6 DEF CInv

LEMMA StepVars == ASSUME CInv, set_program_vars, called = <<"set_program_vars">> PROVE CInv'
<1>1. PICK n \in 0 .. 11, m \in 0 .. 4 : MainAt(n) /\ ThreadAt(m) /\ (n <= 9 => m = 4)
  BY DEF CInv
<1>2. Typed /\ \A b \in live : b.via = "malloc" => b.by = "mimalloc" BY DEF CInv
<1>3. /\ todo["main"] # << >> /\ Current("main").f = "set_program_vars"
      /\ todo' = [todo EXCEPT !["main"] = Tail(@)]
      /\ environ' = TRUE /\ UNCHANGED <<loaded, start, slot, p, live>>
  BY DEF set_program_vars, At, Done, vars
<1>4. /\ n + 1 \in 0 .. 11 /\ MainToDo(n + 1)' /\ todo'["t"] = todo["t"]
      /\ (n + 1 <= 9 => m = 4) /\ todo' \in [Threads -> Seq(ACall)]
  BY <1>1, <1>2, <1>3, MainMoves
<1>5. n = 0 BY <1>1, <1>3, MainCall DEF MainAt
<1>6. MainAt(n + 1)' BY <1>1, <1>3, <1>4, <1>5 DEF MainAt
<1>7. ThreadAt(m)' BY <1>1, <1>3, <1>4, <1>5 DEF ThreadAt
<1>8. Typed' BY <1>2, <1>3, <1>4 DEF Typed
<1>. QED BY <1>2, <1>3, <1>4, <1>6, <1>7, <1>8 DEF CInv

LEMMA StepLoad == ASSUME CInv, _mi_process_load PROVE CInv'
<1>1. PICK n \in 0 .. 11, m \in 0 .. 4 : MainAt(n) /\ ThreadAt(m) /\ (n <= 9 => m = 4)
  BY DEF CInv
<1>2. Typed /\ \A b \in live : b.via = "malloc" => b.by = "mimalloc" BY DEF CInv
<1>3. /\ todo["main"] # << >> /\ Current("main").f = "_mi_process_load"
      /\ todo' = [todo EXCEPT !["main"] = Tail(@)]
      /\ loaded' = (IF environ THEN "yes" ELSE "without environ")
      /\ UNCHANGED <<environ, start, slot, p, live>>
  BY DEF _mi_process_load, At, Done
<1>4. /\ n + 1 \in 0 .. 11 /\ MainToDo(n + 1)' /\ todo'["t"] = todo["t"]
      /\ (n + 1 <= 9 => m = 4) /\ todo' \in [Threads -> Seq(ACall)]
  BY <1>1, <1>2, <1>3, MainMoves
<1>5. n = 1 BY <1>1, <1>3, MainCall DEF MainAt
<1>6. MainAt(n + 1)' BY <1>1, <1>3, <1>4, <1>5 DEF MainAt
<1>7. ThreadAt(m)'
  <2>1. m = 4 BY <1>1, <1>5
  <2>2. slot' = slot /\ p' = p /\ live' = live BY DEF _mi_process_load
  <2>3. ~(m < 4) BY <2>1
  <2>. QED BY <1>1, <1>4, <2>2, <2>3 DEF ThreadAt
<1>8. Typed' BY <1>2, <1>3, <1>4 DEF Typed
<1>. QED BY <1>2, <1>3, <1>4, <1>6, <1>7, <1>8 DEF CInv

LEMMA StepPthreadInit == ASSUME CInv, __pthread_init PROVE CInv'
<1>1. PICK n \in 0 .. 11, m \in 0 .. 4 : MainAt(n) /\ ThreadAt(m) /\ (n <= 9 => m = 4)
  BY DEF CInv
<1>2. Typed /\ \A b \in live : b.via = "malloc" => b.by = "mimalloc" BY DEF CInv
<1>3. /\ todo["main"] # << >> /\ Current("main").f = "__pthread_init"
      /\ todo' = [todo EXCEPT !["main"] = Tail(@)]
      /\ start' = "my_thread_start" /\ UNCHANGED <<environ, loaded, slot, p, live>>
  BY DEF __pthread_init, my_bsdthread_register, At, Done
<1>4. /\ n + 1 \in 0 .. 11 /\ MainToDo(n + 1)' /\ todo'["t"] = todo["t"]
      /\ (n + 1 <= 9 => m = 4) /\ todo' \in [Threads -> Seq(ACall)]
  BY <1>1, <1>2, <1>3, MainMoves
<1>5. n = 3 BY <1>1, <1>3, MainCall DEF MainAt
<1>6. MainAt(n + 1)' BY <1>1, <1>3, <1>4, <1>5 DEF MainAt
<1>7. ThreadAt(m)' BY <1>1, <1>3, <1>4, <1>5 DEF ThreadAt
<1>8. Typed' BY <1>2, <1>3, <1>4 DEF Typed
<1>. QED BY <1>2, <1>3, <1>4, <1>6, <1>7, <1>8 DEF CInv

LEMMA StepSetHeap == ASSUME CInv, NEW t \in Threads, SetHeap(t) PROVE CInv'
<1>1. PICK n \in 0 .. 11, m \in 0 .. 4 : MainAt(n) /\ ThreadAt(m) /\ (n <= 9 => m = 4)
  BY DEF CInv
<1>2. Typed /\ \A b \in live : b.via = "malloc" => b.by = "mimalloc" BY DEF CInv
<1>3. /\ todo[t] # << >> /\ Current(t).f = "heap_empty" /\ todo' = [todo EXCEPT ![t] = Tail(@)]
      /\ slot' = [slot EXCEPT ![t] = "empty"] /\ UNCHANGED <<environ, loaded, start, p, live>>
  BY DEF SetHeap, At, Done
<1>4. slot \in [Threads -> {None, "empty", "own"}] /\ "main" \in Threads /\ "t" \in Threads
  BY <1>2 DEF Typed, Threads
<1>5. CASE t = "main"
  <2>1. /\ n + 1 \in 0 .. 11 /\ MainToDo(n + 1)' /\ todo'["t"] = todo["t"]
        /\ (n + 1 <= 9 => m = 4) /\ todo' \in [Threads -> Seq(ACall)]
    BY <1>1, <1>2, <1>3, <1>5, MainMoves
  <2>2. n = 2 BY <1>1, <1>3, <1>5, MainCall DEF MainAt
  <2>3. slot'["main"] # None /\ slot'["t"] = slot["t"] BY <1>3, <1>4, <1>5 DEF None
  <2>4. MainAt(n + 1)' BY <1>1, <1>3, <2>1, <2>2, <2>3 DEF MainAt
  <2>5. ThreadAt(m)' BY <1>1, <1>3, <2>1, <2>3 DEF ThreadAt
  <2>6. Typed' BY <1>2, <1>3, <2>1 DEF Typed
  <2>. QED BY <1>2, <1>3, <2>1, <2>4, <2>5, <2>6 DEF CInv
<1>6. CASE t = "t"
  <2>1. /\ m + 1 \in 0 .. 4 /\ m < 4 /\ todo'["t"] = After(ThreadCalls, m + 1)
        /\ todo'["main"] = todo["main"] /\ todo' \in [Threads -> Seq(ACall)]
    BY <1>1, <1>2, <1>3, <1>6, ThreadMoves
  <2>2. m = 0 BY <1>1, <1>3, <1>6, ThreadCall DEF ThreadAt
  <2>3. slot'["t"] # None /\ slot'["main"] = slot["main"] BY <1>3, <1>4, <1>6 DEF None
  <2>4. MainAt(n)' BY <1>1, <1>3, <2>1, <2>3 DEF MainAt, MainToDo
  <2>5. ThreadAt(m + 1)' BY <1>1, <1>3, <2>1, <2>2, <2>3 DEF ThreadAt
  <2>6. Typed' BY <1>2, <1>3, <2>1 DEF Typed
  <2>. QED BY <1>1, <1>2, <1>3, <2>1, <2>4, <2>5, <2>6 DEF CInv
<1>. QED BY <1>5, <1>6 DEF Threads

LEMMA GivenFacts ==
  /\ Given("main") # Given("t") /\ Given("main") \in Blocks /\ Given("t") \in Blocks
  /\ \A u \in Threads : /\ Given(u).by = "mimalloc" /\ Given(u).of = u /\ Given(u).via = "malloc"
                        /\ Given(u) # NoBlock
BY DEF Given, Blocks, Threads, NoBlock, None

LEMMA StepMalloc == ASSUME CInv, NEW t \in Threads, malloc(t) PROVE CInv'
<1>1. PICK n \in 0 .. 11, m \in 0 .. 4 : MainAt(n) /\ ThreadAt(m) /\ (n <= 9 => m = 4)
  BY DEF CInv
<1>2. Typed /\ \A b \in live : b.via = "malloc" => b.by = "mimalloc" BY DEF CInv
<1>3. /\ todo[t] # << >> /\ Current(t).f = "malloc" /\ todo' = [todo EXCEPT ![t] = Tail(@)]
      /\ UNCHANGED <<environ, loaded, start>>
  BY DEF malloc, At, Done
<1>4. /\ slot \in [Threads -> {None, "empty", "own"}] /\ p \in [Threads -> Blocks \union {NoBlock}]
      /\ "main" \in Threads /\ "t" \in Threads
  BY <1>2 DEF Typed, Threads
<1>5. Current(t).image = "lib" \/ Current(t).image = "exe"
  <2>1. todo[t] \in Seq(ACall) BY <1>2 DEF Typed
  <2>2. Head(todo[t]) \in ACall BY <1>3, <2>1, HeadTailProperties
  <2>. QED BY <2>2 DEF Current, ACall
<1>6. Server("malloc", Current(t).image) = "mimalloc" BY <1>5 DEF Server, Interposed
<1>7. /\ slot' = [slot EXCEPT ![t] = "own"] /\ p' = [p EXCEPT ![t] = Given(t)]
      /\ live' = live \union {Given(t)}
  BY <1>6 DEF malloc, Given
<1>8. \A b \in live' : b.via = "malloc" => b.by = "mimalloc" BY <1>2, <1>7, GivenFacts
<1>9. /\ slot' \in [Threads -> {None, "empty", "own"}] /\ live' \subseteq Blocks
      /\ p' \in [Threads -> Blocks \union {NoBlock}]
  <2>1. Given(t) \in Blocks BY GivenFacts DEF Threads
  <2>. QED BY <1>2, <1>4, <1>7, <2>1 DEF Typed
<1>10. slot'[t] # None /\ p'[t] = Given(t) BY <1>4, <1>7 DEF None
<1>11. CASE t = "main"
  <2>1. /\ n + 1 \in 0 .. 11 /\ MainToDo(n + 1)' /\ todo'["t"] = todo["t"]
        /\ (n + 1 <= 9 => m = 4) /\ todo' \in [Threads -> Seq(ACall)]
    BY <1>1, <1>2, <1>3, <1>11, MainMoves
  <2>2. n \in {4, 6} BY <1>1, <1>3, <1>11, MainCall DEF MainAt
  <2>3. /\ slot'["t"] = slot["t"] /\ p'["t"] = p["t"] /\ Given("main") \in live'
        /\ Given("t") \in live' <=> Given("t") \in live
    BY <1>4, <1>7, <1>11, GivenFacts
  <2>4. n + 1 \in {5, 7} BY <2>2
  <2>5. MainAt(n + 1)' BY <1>1, <1>3, <1>10, <1>11, <2>1, <2>2, <2>3, <2>4 DEF MainAt
  <2>6. ThreadAt(m)' BY <1>1, <1>3, <2>1, <2>3 DEF ThreadAt
  <2>7. Typed' BY <1>2, <1>3, <1>9, <2>1 DEF Typed
  <2>. QED BY <1>8, <2>1, <2>5, <2>6, <2>7 DEF CInv
<1>12. CASE t = "t"
  <2>1. /\ m + 1 \in 0 .. 4 /\ m < 4 /\ todo'["t"] = After(ThreadCalls, m + 1)
        /\ todo'["main"] = todo["main"] /\ todo' \in [Threads -> Seq(ACall)]
    BY <1>1, <1>2, <1>3, <1>12, ThreadMoves
  <2>2. m = 1 BY <1>1, <1>3, <1>12, ThreadCall DEF ThreadAt
  <2>3. /\ slot'["main"] = slot["main"] /\ p'["main"] = p["main"] /\ Given("t") \in live'
        /\ Given("main") \in live' <=> Given("main") \in live
    BY <1>4, <1>7, <1>12, GivenFacts
  <2>4. m + 1 = 2 BY <2>2
  <2>5. MainAt(n)' BY <1>1, <1>3, <2>1, <2>3 DEF MainAt, MainToDo
  <2>6. ThreadAt(m + 1)' BY <1>1, <1>3, <1>10, <1>12, <2>1, <2>2, <2>3, <2>4 DEF ThreadAt
  <2>7. Typed' BY <1>2, <1>3, <1>9, <2>1 DEF Typed
  <2>. QED BY <1>1, <1>8, <2>1, <2>2, <2>5, <2>6, <2>7 DEF CInv
<1>. QED BY <1>11, <1>12 DEF Threads

LEMMA StepStrdup == ASSUME CInv, NEW t \in Threads, strdup(t) PROVE CInv'
<1>1. PICK n \in 0 .. 11, m \in 0 .. 4 : MainAt(n) /\ ThreadAt(m) /\ (n <= 9 => m = 4)
  BY DEF CInv
<1>2. Typed /\ \A b \in live : b.via = "malloc" => b.by = "mimalloc" BY DEF CInv
<1>3. /\ todo[t] # << >> /\ Current(t).f = "strdup" /\ todo' = [todo EXCEPT ![t] = Tail(@)]
      /\ UNCHANGED <<environ, loaded, start, slot>>
  BY DEF strdup, At, Done
<1>4. p \in [Threads -> Blocks \union {NoBlock}] /\ "main" \in Threads /\ "t" \in Threads
  BY <1>2 DEF Typed, Threads
<1>5. PICK b \in Blocks : /\ b.via = "strdup"
                          /\ p' = [p EXCEPT ![t] = b] /\ live' = live \union {b}
  <2>. DEFINE b == [by |-> Server("malloc", "libsystem"), of |-> t, via |-> "strdup"]
  <2>1. b \in Blocks /\ b.via = "strdup" BY DEF Server, Blocks
  <2>2. p' = [p EXCEPT ![t] = b] /\ live' = live \union {b} BY DEF strdup
  <2>. HIDE DEF b
  <2>. QED BY <2>1, <2>2
<1>6. /\ \A c \in live' : c.via = "malloc" => c.by = "mimalloc"
      /\ p' \in [Threads -> Blocks \union {NoBlock}] /\ live' \subseteq Blocks
  BY <1>2, <1>4, <1>5 DEF Typed
<1>7. \A u \in Threads : Given(u) \in live' <=> Given(u) \in live BY <1>5, GivenFacts
<1>8. CASE t = "main"
  <2>1. /\ n + 1 \in 0 .. 11 /\ MainToDo(n + 1)' /\ todo'["t"] = todo["t"]
        /\ (n + 1 <= 9 => m = 4) /\ todo' \in [Threads -> Seq(ACall)]
    BY <1>1, <1>2, <1>3, <1>8, MainMoves
  <2>2. n = 8 BY <1>1, <1>3, <1>8, MainCall DEF MainAt
  <2>3. p'["t"] = p["t"] BY <1>4, <1>5, <1>8
  <2>4. MainAt(n + 1)' BY <1>1, <1>3, <1>4, <1>7, <2>1, <2>2 DEF MainAt
  <2>5. ThreadAt(m)' BY <1>1, <1>3, <1>4, <1>7, <2>1, <2>3 DEF ThreadAt
  <2>6. Typed' BY <1>2, <1>3, <1>6, <2>1 DEF Typed
  <2>. QED BY <1>6, <2>1, <2>4, <2>5, <2>6 DEF CInv
<1>9. CASE t = "t"
  <2>1. /\ m + 1 \in 0 .. 4 /\ m < 4 /\ todo'["t"] = After(ThreadCalls, m + 1)
        /\ todo'["main"] = todo["main"] /\ todo' \in [Threads -> Seq(ACall)]
    BY <1>1, <1>2, <1>3, <1>9, ThreadMoves
  <2>2. m = 3 BY <1>1, <1>3, <1>9, ThreadCall DEF ThreadAt
  <2>3. p'["main"] = p["main"] BY <1>4, <1>5, <1>9
  <2>4. MainAt(n)' BY <1>1, <1>3, <1>4, <1>7, <2>1, <2>3 DEF MainAt, MainToDo
  <2>5. ThreadAt(m + 1)' BY <1>1, <1>3, <1>4, <1>7, <2>1, <2>2 DEF ThreadAt
  <2>6. Typed' BY <1>2, <1>3, <1>6, <2>1 DEF Typed
  <2>. QED BY <1>1, <1>6, <2>1, <2>2, <2>4, <2>5, <2>6 DEF CInv
<1>. QED BY <1>8, <1>9 DEF Threads

LEMMA StepFree == ASSUME CInv, NEW t \in Threads, free(t) PROVE CInv'
<1>1. PICK n \in 0 .. 11, m \in 0 .. 4 : MainAt(n) /\ ThreadAt(m) /\ (n <= 9 => m = 4)
  BY DEF CInv
<1>2. Typed /\ \A b \in live : b.via = "malloc" => b.by = "mimalloc" BY DEF CInv
<1>3. /\ todo[t] # << >> /\ Current(t).f = "free" /\ todo' = [todo EXCEPT ![t] = Tail(@)]
      /\ live' = live \ {p[t]} /\ UNCHANGED <<environ, loaded, start, slot, p>>
  BY DEF free, At, Done
<1>4. "main" \in Threads /\ "t" \in Threads BY DEF Threads
<1>5. CASE t = "main"
  <2>1. /\ n + 1 \in 0 .. 11 /\ MainToDo(n + 1)' /\ todo'["t"] = todo["t"]
        /\ (n + 1 <= 9 => m = 4) /\ todo' \in [Threads -> Seq(ACall)]
    BY <1>1, <1>2, <1>3, <1>5, MainMoves
  <2>2. n \in {5, 7} BY <1>1, <1>3, <1>5, MainCall DEF MainAt
  <2>3. live' = live \ {Given("main")} BY <1>1, <1>3, <1>5, <2>2 DEF MainAt
  <2>4. Given("main") \notin live' /\ (Given("t") \in live' <=> Given("t") \in live)
    BY <2>3, GivenFacts
  <2>5. n + 1 \notin {5, 7} BY <2>2
  <2>6. MainAt(n + 1)' BY <1>1, <1>3, <2>1, <2>2, <2>4, <2>5 DEF MainAt
  <2>7. ThreadAt(m)' BY <1>1, <1>3, <2>1, <2>4 DEF ThreadAt
  <2>8. Typed' BY <1>2, <1>3, <2>1 DEF Typed
  <2>. QED BY <1>2, <1>3, <2>1, <2>6, <2>7, <2>8 DEF CInv
<1>6. CASE t = "t"
  <2>1. /\ m + 1 \in 0 .. 4 /\ m < 4 /\ todo'["t"] = After(ThreadCalls, m + 1)
        /\ todo'["main"] = todo["main"] /\ todo' \in [Threads -> Seq(ACall)]
    BY <1>1, <1>2, <1>3, <1>6, ThreadMoves
  <2>2. m = 2 BY <1>1, <1>3, <1>6, ThreadCall DEF ThreadAt
  <2>3. live' = live \ {Given("t")} BY <1>1, <1>3, <1>6, <2>2 DEF ThreadAt
  <2>4. Given("t") \notin live' /\ (Given("main") \in live' <=> Given("main") \in live)
    BY <2>3, GivenFacts
  <2>5. MainAt(n)' BY <1>1, <1>3, <2>1, <2>4 DEF MainAt, MainToDo
  <2>6. ThreadAt(m + 1)' BY <1>1, <1>3, <2>1, <2>2, <2>4 DEF ThreadAt
  <2>7. Typed' BY <1>2, <1>3, <2>1 DEF Typed
  <2>. QED BY <1>1, <1>2, <1>3, <2>1, <2>2, <2>5, <2>6, <2>7 DEF CInv
<1>. QED BY <1>5, <1>6 DEF Threads

LEMMA StepCreate == ASSUME CInv, pthread_create PROVE CInv'
<1>1. PICK n \in 0 .. 11, m \in 0 .. 4 : MainAt(n) /\ ThreadAt(m) /\ (n <= 9 => m = 4)
  BY DEF CInv
<1>2. Typed /\ \A b \in live : b.via = "malloc" => b.by = "mimalloc" BY DEF CInv
<1>3. /\ todo["main"] # << >> /\ Current("main").f = "pthread_create"
      /\ environ' = environ /\ loaded' = loaded /\ start' = start /\ slot' = slot /\ p' = p
      /\ live' = live
  BY DEF pthread_create, At
<1>4. PICK ok \in BOOLEAN :
        todo' = [todo EXCEPT
          !["main"] = IF ok THEN Tail(@) ELSE <<Call("join_garbage", "lib")>>,
          !["t"] = IF ~ok THEN @
                   ELSE Calls((IF start = "my_thread_start" THEN <<"heap_empty">> ELSE << >>)
                                \o pthread_test, "lib")]
  BY DEF pthread_create
<1>5. n = 9 /\ m = 4 BY <1>1, <1>3, MainCall DEF MainAt
<1>6. start = "my_thread_start" BY <1>1, <1>5 DEF MainAt
<1>7. todo \in [Threads -> Seq(ACall)] /\ "main" \in Threads /\ "t" \in Threads
  BY <1>2 DEF Typed, Threads
<1>8. Tail(todo["main"]) = After(MainCalls, 10) /\ Tail(todo["main"]) \in Seq(ACall)
  <2>1. Tail(todo["main"]) = After(MainCalls, n + 1) BY <1>1, <1>3, MainNext DEF MainAt
  <2>2. n + 1 = 10 BY <1>5
  <2>3. Tail(todo["main"]) \in Seq(ACall) BY <1>3, <1>7, HeadTailProperties
  <2>. QED BY <2>1, <2>2, <2>3
<1>9. CASE ok
  <2>1. todo' = [todo EXCEPT !["main"] = Tail(@), !["t"] = ThreadCalls]
    BY <1>4, <1>6, <1>9 DEF ThreadCalls
  <2>2. ThreadCalls \in Seq(ACall) /\ Len(ThreadCalls) = 4 BY CallsAre, Zenon
  <2>3. todo'["main"] = After(MainCalls, 10) /\ todo'["t"] = ThreadCalls
    BY <1>7, <1>8, <2>1
  <2>4. todo' \in [Threads -> Seq(ACall)] BY <1>7, <1>8, <2>1, <2>2
  <2>5. todo'["t"] = After(ThreadCalls, 0)
    <3>1. SubSeq(ThreadCalls, 1, Len(ThreadCalls)) = ThreadCalls BY <2>2, SubSeqFull, Zenon
    <3>. QED BY <2>3, <3>1 DEF After
  <2>6. MainAt(10)' BY <1>1, <1>3, <1>5, <2>3 DEF MainAt, MainToDo
  <2>7. ThreadAt(0)' BY <1>1, <1>3, <1>5, <2>5 DEF ThreadAt, MainAt
  <2>8. Typed' BY <1>2, <1>3, <2>4 DEF Typed
  <2>. QED BY <1>2, <1>3, <2>6, <2>7, <2>8 DEF CInv
<1>10. CASE ~ok
  <2>. DEFINE c == Call("join_garbage", "lib")
  <2>1. <<c>> \in Seq(ACall)
    <3>1. c \in ACall BY DEF Call, ACall, Names
    <3>. HIDE DEF c
    <3>. QED BY <3>1
  <2>2. todo' = [todo EXCEPT !["main"] = <<c>>] BY <1>4, <1>7, <1>10
  <2>. HIDE DEF c
  <2>3. todo'["main"] = <<c>> /\ todo'["t"] = todo["t"] /\ todo' \in [Threads -> Seq(ACall)]
    BY <1>7, <2>1, <2>2
  <2>4. MainToDo(10)' BY <2>3 DEF c, MainToDo
  <2>5. MainAt(10)' BY <1>1, <1>3, <1>5, <2>4 DEF MainAt
  <2>6. ThreadAt(4)' BY <1>1, <1>3, <1>5, <2>3 DEF ThreadAt
  <2>7. Typed' BY <1>2, <1>3, <2>3 DEF Typed
  <2>. QED BY <1>2, <1>3, <2>5, <2>6, <2>7 DEF CInv
<1>. QED BY <1>9, <1>10

LEMMA StepJoin == ASSUME CInv, pthread_join \/ pthread_join_garbage PROVE CInv'
<1>1. PICK n \in 0 .. 11, m \in 0 .. 4 : MainAt(n) /\ ThreadAt(m) /\ (n <= 9 => m = 4)
  BY DEF CInv
<1>2. Typed /\ \A b \in live : b.via = "malloc" => b.by = "mimalloc" BY DEF CInv
<1>3. /\ todo["main"] # << >> /\ Current("main").f \in {"pthread_join", "join_garbage"}
      /\ environ' = environ /\ loaded' = loaded /\ start' = start /\ slot' = slot /\ p' = p
      /\ live' = live
      /\ \/ todo' = [todo EXCEPT !["main"] = Tail(@)]
         \/ todo' = [todo EXCEPT !["main"] = <<Call("crashed", "lib")>>]
  BY DEF pthread_join, pthread_join_garbage, At, Done
<1>4. n = 10 BY <1>1, <1>3, MainCall DEF MainAt
<1>5. CASE todo' = [todo EXCEPT !["main"] = Tail(@)]
  <2>1. /\ n + 1 \in 0 .. 11 /\ MainToDo(n + 1)' /\ todo'["t"] = todo["t"]
        /\ (n + 1 <= 9 => m = 4) /\ todo' \in [Threads -> Seq(ACall)]
    BY <1>1, <1>2, <1>3, <1>5, MainMoves
  <2>2. MainAt(n + 1)' BY <1>1, <1>3, <1>4, <2>1 DEF MainAt
  <2>3. ThreadAt(m)' BY <1>1, <1>3, <2>1 DEF ThreadAt
  <2>4. Typed' BY <1>2, <1>3, <2>1 DEF Typed
  <2>. QED BY <1>2, <1>3, <2>1, <2>2, <2>3, <2>4 DEF CInv
<1>6. CASE todo' = [todo EXCEPT !["main"] = <<Call("crashed", "lib")>>]
  <2>. DEFINE c == Call("crashed", "lib")
  <2>1. <<c>> \in Seq(ACall)
    <3>1. c \in ACall BY DEF Call, ACall, Names
    <3>. HIDE DEF c
    <3>. QED BY <3>1
  <2>2. todo \in [Threads -> Seq(ACall)] /\ "main" \in Threads /\ "t" \in Threads
    BY <1>2 DEF Typed, Threads
  <2>3. todo' = [todo EXCEPT !["main"] = <<c>>] BY <1>6
  <2>. HIDE DEF c
  <2>4. todo'["main"] = <<c>> /\ todo'["t"] = todo["t"] /\ todo' \in [Threads -> Seq(ACall)]
    BY <2>1, <2>2, <2>3
  <2>5. MainToDo(n)' BY <1>4, <2>4 DEF c, MainToDo
  <2>6. MainAt(n)' BY <1>1, <1>3, <1>4, <2>5 DEF MainAt
  <2>7. ThreadAt(m)' BY <1>1, <1>3, <2>4 DEF ThreadAt
  <2>8. Typed' BY <1>2, <1>3, <2>4 DEF Typed
  <2>. QED BY <1>1, <1>2, <1>3, <2>6, <2>7, <2>8 DEF CInv
<1>. QED BY <1>3, <1>5, <1>6

LEMMA CInvStep == CInv /\ [Next]_<<vars, process>> => CInv'
<1>. SUFFICES ASSUME CInv, [Next]_<<vars, process>> PROVE CInv' OBVIOUS
<1>1. CASE UNCHANGED process BY <1>1, CInvKept
<1>2. CASE set_program_vars
  <2>1. CASE called = <<"set_program_vars">> BY <1>2, <2>1, StepVars
  <2>2. CASE called # <<"set_program_vars">> BY <1>1, <1>2, <2>2 DEF set_program_vars
  <2>. QED BY <2>1, <2>2
<1>3. CASE _mi_process_load BY <1>3, StepLoad
<1>4. CASE __pthread_init BY <1>4, StepPthreadInit
<1>5. CASE \E t \in Threads : Step(t)
  BY <1>5, StepSetHeap, StepMalloc, StepStrdup, StepFree DEF Step
<1>6. CASE pthread_create BY <1>6, StepCreate
<1>7. CASE pthread_join \/ pthread_join_garbage BY <1>7, StepJoin
<1>. QED BY <1>1, <1>2, <1>3, <1>4, <1>5, <1>6, <1>7 DEF Next

LEMMA HeapIsReady == CInv => HeapReady
<1>. SUFFICES ASSUME CInv, NEW t \in Threads, At(t, "malloc") PROVE loaded = "yes" /\ slot[t] # None
  BY DEF HeapReady
<1>1. PICK n \in 0 .. 11, m \in 0 .. 4 : MainAt(n) /\ ThreadAt(m) BY DEF CInv
<1>2. todo[t] # << >> /\ Current(t).f = "malloc" BY DEF At
<1>3. CASE t = "main"
  <2>1. n \in {4, 6} BY <1>1, <1>2, <1>3, MainCall DEF MainAt
  <2>. QED BY <1>1, <1>3, <2>1 DEF MainAt
<1>4. CASE t = "t"
  <2>1. m = 1 BY <1>1, <1>2, <1>4, ThreadCall DEF ThreadAt
  <2>. QED BY <1>1, <1>4, <2>1 DEF ThreadAt
<1>. QED BY <1>3, <1>4 DEF Threads

LEMMA BlocksReturn == CInv => FreesOwn
<1>. SUFFICES ASSUME CInv PROVE FreesOwn OBVIOUS
<1>1. PICK n \in 0 .. 11, m \in 0 .. 4 : MainAt(n) /\ ThreadAt(m) BY DEF CInv
<1>2. Typed /\ \A b \in live : b.via = "malloc" => b.by = "mimalloc" BY DEF CInv
<1>3. ASSUME NEW t \in Threads, At(t, "free")
      PROVE  p[t] \in live /\ p[t].by = Server("free", Current(t).image)
  <2>1. todo[t] # << >> /\ Current(t).f = "free" BY <1>3 DEF At
  <2>2. p[t] = Given(t) /\ Given(t) \in live
    <3>1. CASE t = "main"
      <4>1. n \in {5, 7} BY <1>1, <2>1, <3>1, MainCall DEF MainAt
      <4>. QED BY <1>1, <3>1, <4>1 DEF MainAt
    <3>2. CASE t = "t"
      <4>1. m = 2 BY <1>1, <2>1, <3>2, ThreadCall DEF ThreadAt
      <4>. QED BY <1>1, <3>2, <4>1 DEF ThreadAt
    <3>. QED BY <3>1, <3>2 DEF Threads
  <2>3. Current(t).image = "lib" \/ Current(t).image = "exe"
    <3>1. todo[t] \in Seq(ACall) BY <1>2 DEF Typed
    <3>2. Head(todo[t]) \in ACall BY <2>1, <3>1, HeadTailProperties
    <3>. QED BY <3>2 DEF Current, ACall
  <2>4. Server("free", Current(t).image) = "mimalloc" BY <2>3 DEF Server, Interposed
  <2>. QED BY <2>2, <2>4, GivenFacts
<1>4. ASSUME NEW b \in live, NEW t \in Threads, todo[t] = << >>, b.of = t PROVE b.via = "strdup"
  <2>1. b \in Blocks BY <1>2 DEF Typed
  <2>2. SUFFICES ASSUME b.via = "malloc" PROVE FALSE BY <2>1 DEF Blocks
  <2>3. b = Given(t) BY <1>2, <1>4, <2>1, <2>2 DEF Blocks, Given
  <2>4. CASE t = "main"
    <3>1. n \in {5, 7} BY <1>1, <1>4, <2>3, <2>4 DEF MainAt
    <3>2. MainCalls \in Seq(ACall) /\ Len(MainCalls) = 11 BY CallsAre, Zenon
    <3>3. n \in 0 .. Len(MainCalls) /\ n # Len(MainCalls) BY <3>1, <3>2
    <3>4. After(MainCalls, n) # << >> BY <3>2, <3>3, AfterFacts, Zenon
    <3>. QED BY <1>1, <1>4, <2>4, <3>1, <3>4 DEF MainAt, MainToDo
  <2>5. CASE t = "t"
    <3>1. m = 2 BY <1>1, <1>4, <2>3, <2>5 DEF ThreadAt
    <3>2. ThreadCalls \in Seq(ACall) /\ Len(ThreadCalls) = 4 BY CallsAre, Zenon
    <3>3. m \in 0 .. Len(ThreadCalls) /\ m # Len(ThreadCalls) BY <3>1, <3>2
    <3>4. After(ThreadCalls, m) # << >> BY <3>2, <3>3, AfterFacts, Zenon
    <3>. QED BY <1>1, <1>4, <2>5, <3>4 DEF ThreadAt
  <2>. QED BY <2>4, <2>5 DEF Threads
<1>. QED BY <1>3, <1>4 DEF FreesOwn
-----------------------------------------------------------------------------
Chars == {Unwritten, 32, 120} \union 48 .. 57 \union 97 .. 102

(* set_program_vars is looking for the branch, or has found it. *)
Target == (base + 4 * (at - 1) + decode_bl_offset(code[at])) % Power(256, Bytes)
Byte(j) == (value \div Power(256, Bytes - 1 - j)) % 256

LookingOK ==
  called = <<"set_program_vars">> =>
    /\ pc \in {"scan", "ptr", "idle"}
    /\ code \in Codes /\ at \in DOMAIN code /\ \A j \in 1 .. at - 1 : ~is_bl(code[j])
    /\ pc # "scan" =>
         /\ is_bl(code[at]) /\ value = Target /\ value \in Addresses
         /\ Len(buf) = 2 + 2 * Bytes /\ buf[1] = 48 /\ buf[2] = 120
         /\ i \in 0 .. Bytes /\ (pc = "idle" => i = Bytes)
         /\ \A j \in 0 .. i - 1 : /\ buf[3 + 2 * j] = nibble_to_ascii_hex(Byte(j) \div 16)
                                   /\ buf[4 + 2 * j] = nibble_to_ascii_hex(Byte(j) % 16)

(* What is left of the number after j digits. *)
Left(j) == called[2] \div Power(10, j)

SizingOK ==
  called # << >> /\ called[1] = "write_size" =>
    /\ pc \in {"size", "idle", "aborted"} /\ called[2] \in Nat
    /\ pc # "size" => i = Len(buf) /\ (done <=> pc = "idle")
    /\ value = Left(i) /\ (done <=> i > 0 /\ value = 0)
    /\ \A j \in 0 .. i - 1 :
         buf[Len(buf) - j] = SizeDigit(Left(j), j > 0 /\ Left(j) = 0)

PInv ==
  /\ PrintingOK /\ buf \in Seq(Chars)
  /\ called \in {<< >>, <<"set_program_vars">>} \union ({"write_size"} \X Nat)
  /\ called = << >> => pc = "idle"
  /\ LookingOK /\ SizingOK

-----------------------------------------------------------------------------
LEMMA BytesOK == Bytes \in Nat /\ Bytes > 0
BY InterposingAssumption

USE BytesOK

LEMMA GivenCode ==
  ASSUME NEW c \in Codes
  PROVE  c \in Seq(0 .. Power(2, WordBits) - 1) /\ \E k \in DOMAIN c : is_bl(c[k])
BY InterposingAssumption

LEMMA InTheCode ==
  ASSUME NEW W, NEW c \in Seq(W), NEW k \in DOMAIN c
  PROVE  k \in Nat /\ k \in 1 .. Len(c) /\ c[k] \in W
OBVIOUS

LEMMA CallKinds ==
  /\ \A x \in {"write_size"} \X Nat :
       x # << >> /\ x # <<"set_program_vars">> /\ x[1] = "write_size" /\ x[2] \in Nat
  /\ <<"set_program_vars">> # << >> /\ <<"set_program_vars">>[1] # "write_size"
OBVIOUS

LEMMA Writing ==
  ASSUME NEW b \in Seq(Chars), NEW k, NEW x \in Chars, NEW c, c = [b EXCEPT ![k] = x]
  PROVE  /\ c \in Seq(Chars) /\ Len(c) = Len(b) /\ DOMAIN c = 1 .. Len(b)
         /\ \A j \in DOMAIN b : c[j] = IF j = k THEN x ELSE b[j]
<1>. DEFINE n == Len(b)
<1>1. n \in Nat /\ DOMAIN b = 1 .. n /\ b \in [1 .. n -> Chars] OBVIOUS
<1>. HIDE DEF n
<1>2. c \in [1 .. n -> Chars] BY <1>1
<1>3. \A j \in DOMAIN b : c[j] = IF j = k THEN x ELSE b[j] BY <1>1
<1>. QED BY <1>1, <1>2, <1>3, SeqOf DEF n

LEMMA BlankIs ==
  ASSUME NEW n \in Nat
  PROVE  Blank(n) \in Seq(Chars) /\ Len(Blank(n)) = n /\ DOMAIN Blank(n) = 1 .. n
<1>1. Blank(n) \in [1 .. n -> Chars] BY DEF Blank, Chars
<1>. QED BY <1>1, SeqOf

LEMMA InitPInv == PrintInit => PInv
<1>. SUFFICES ASSUME PrintInit PROVE PInv OBVIOUS
<1>1. Power(256, Bytes) \in Nat \ {0} BY Powers, Zenon
<1>2. 0 \in Addresses BY <1>1 DEF Addresses
<1>3. PrintingOK
  <2>1. /\ pc = "idle" /\ code = << >> /\ base = 0 /\ value = 0 /\ i = 0 /\ done = FALSE
        /\ buf = << >>
    BY DEF PrintInit
  <2>2. DOMAIN buf = {} /\ Len(buf) = 0 BY <2>1
  <2>3. /\ pc \in {"idle", "scan", "ptr", "size", "aborted"} /\ pc # "scan"
        /\ code \in Codes \union {<< >>} /\ base \in Addresses
    BY <1>2, <2>1
  <2>4. value \in Nat /\ i \in 0 .. Len(buf) BY <2>1, <2>2
  <2>5. \A k \in DOMAIN buf : FALSE BY <2>2
  <2>6. done \in BOOLEAN BY <2>1
  <2>. QED BY <2>3, <2>4, <2>5, <2>6 DEF PrintingOK
<1>4. called = << >> /\ pc = "idle" /\ buf \in Seq(Chars) BY DEF PrintInit
<1>. QED BY <1>3, <1>4, CallKinds DEF PInv, LookingOK, SizingOK

LEMMA StepSetProgramVars ==
  ASSUME PInv, NEW c \in Codes, NEW b \in Bases, SetProgramVars(c, b) PROVE PInv'
<1>1. /\ pc' = "scan" /\ code' = c /\ base' = b /\ at' = 1 /\ value' = 0 /\ i' = 0
      /\ done' = FALSE /\ buf' = << >> /\ called' = <<"set_program_vars">>
  BY DEF SetProgramVars
<1>2. c \in Seq(0 .. Power(2, WordBits) - 1) /\ \E k \in DOMAIN c : is_bl(c[k]) BY GivenCode
<1>3. 1 \in DOMAIN c BY <1>2
<1>4. PrintingOK'
  <2>1. b \in Addresses BY InterposingAssumption
  <2>2. DOMAIN buf' = {} /\ Len(buf') = 0 BY <1>1
  <2>3. /\ pc' \in {"idle", "scan", "ptr", "size", "aborted"} /\ at' \in DOMAIN code'
        /\ code' \in Codes \union {<< >>} /\ base' \in Addresses
    BY <1>1, <1>3, <2>1
  <2>4. value' \in Nat /\ i' \in 0 .. Len(buf') BY <1>1, <2>2
  <2>5. \A k \in DOMAIN buf' : FALSE BY <2>2
  <2>6. done' \in BOOLEAN BY <1>1
  <2>. QED BY <2>3, <2>4, <2>5, <2>6 DEF PrintingOK
<1>5. LookingOK' BY <1>1, <1>3 DEF LookingOK
<1>6. SizingOK' BY <1>1, CallKinds DEF SizingOK
<1>7. called' # << >> BY <1>1, CallKinds
<1>. QED BY <1>1, <1>4, <1>5, <1>6, <1>7 DEF PInv

LEMMA StepNextInstruction ==
  ASSUME PInv, NextInstruction PROVE PInv'
<1>1. /\ pc = "scan" /\ ~is_bl(code[at]) /\ at' = at + 1 /\ pc' = pc /\ code' = code
      /\ base' = base /\ value' = value /\ i' = i /\ done' = done /\ buf' = buf
      /\ called' = called
  BY DEF NextInstruction
<1>2. called = <<"set_program_vars">> BY <1>1, CallKinds DEF PInv, SizingOK
<1>3. code \in Codes /\ at \in DOMAIN code /\ \A j \in 1 .. at - 1 : ~is_bl(code[j])
  BY <1>2 DEF PInv, LookingOK
<1>4. code \in Seq(0 .. Power(2, WordBits) - 1) /\ \E k \in DOMAIN code : is_bl(code[k])
  BY <1>3, GivenCode
<1>5. at + 1 \in DOMAIN code /\ \A j \in 1 .. at + 1 - 1 : ~is_bl(code[j])
  <2>1. at \in Nat /\ DOMAIN code = 1 .. Len(code) /\ Len(code) \in Nat BY <1>3, <1>4
  <2>2. \A j \in 1 .. at : ~is_bl(code[j]) BY <1>1, <1>3, <2>1
  <2>3. PICK k \in DOMAIN code : is_bl(code[k]) BY <1>4
  <2>4. k > at BY <2>1, <2>2, <2>3
  <2>. QED BY <2>1, <2>2, <2>3, <2>4
<1>6. PrintingOK' BY <1>1, <1>5 DEF PInv, PrintingOK
<1>7. LookingOK'
  <2>1. /\ pc' = "scan" /\ code' \in Codes /\ at' \in DOMAIN code'
    BY <1>1, <1>3, <1>5, Zenon
  <2>2. ASSUME NEW j \in 1 .. at' - 1 PROVE ~is_bl(code'[j])
    <3>0. at' = at + 1 BY <1>1
    <3>1. j \in 1 .. at + 1 - 1
      <4>1. at \in Nat BY <1>3, <1>4
      <4>. QED BY <3>0, <4>1
    <3>2. ~is_bl(code[j]) BY <1>5, <3>1, Zenon
    <3>. QED BY <1>1, <3>2, Zenon
  <2>. QED BY <2>1, <2>2 DEF LookingOK
<1>8. SizingOK' BY <1>1, <1>2, CallKinds DEF SizingOK
<1>. QED BY <1>1, <1>6, <1>7, <1>8 DEF PInv

LEMMA StepFound ==
  ASSUME PInv, Found PROVE PInv'
<1>1. /\ pc = "scan" /\ is_bl(code[at]) /\ pc' = "ptr" /\ i' = 0 /\ code' = code /\ base' = base
      /\ at' = at /\ done' = done /\ called' = called /\ value' = Target
      /\ buf' = [Blank(2 + 2 * Bytes) EXCEPT ![1] = 48, ![2] = 120]
  BY DEF Found, Target
<1>2. called = <<"set_program_vars">> BY <1>1, CallKinds DEF PInv, SizingOK
<1>3. code \in Codes /\ at \in DOMAIN code /\ \A j \in 1 .. at - 1 : ~is_bl(code[j])
  BY <1>2 DEF PInv, LookingOK
<1>4. Target \in Addresses
  <2>1. code \in Seq(0 .. Power(2, WordBits) - 1) BY <1>3, GivenCode
  <2>2. at \in Nat /\ code[at] \in 0 .. Power(2, WordBits) - 1
    BY <1>3, <2>1, InTheCode, Zenon
  <2>3. decode_bl_offset(code[at]) \in Int
    <3>1. Power(2, ImmBits - 1) \in Nat BY Widths
    <3>. QED BY <1>1, <2>2, <3>1, Decoded
  <2>4. Power(256, Bytes) \in Nat \ {0} BY Powers, Zenon
  <2>5. base \in Int BY <2>4 DEF PInv, PrintingOK, Addresses
  <2>6. base + 4 * (at - 1) + decode_bl_offset(code[at]) \in Int BY <2>2, <2>3, <2>5
  <2>. QED BY <2>4, <2>6, IntDivMod DEF Target, Addresses
<1>5. /\ buf' \in Seq(Chars) /\ Len(buf') = 2 + 2 * Bytes /\ buf'[1] = 48 /\ buf'[2] = 120
      /\ DOMAIN buf' = 1 .. 2 + 2 * Bytes
  <2>. DEFINE n == 2 + 2 * Bytes
              b == Blank(n)
              c == [b EXCEPT ![1] = 48]
              d == [c EXCEPT ![2] = 120]
  <2>1. n \in Nat /\ 1 \in 1 .. n /\ 2 \in 1 .. n OBVIOUS
  <2>2. buf' = d BY <1>1
  <2>3. b \in Seq(Chars) /\ Len(b) = n /\ DOMAIN b = 1 .. n BY <2>1, BlankIs
  <2>. HIDE DEF b, n
  <2>4. 48 \in Chars /\ 120 \in Chars BY DEF Chars
  <2>5. c \in Seq(Chars) /\ Len(c) = n /\ DOMAIN c = 1 .. n /\ c[1] = 48
    BY <2>1, <2>3, <2>4, Writing
  <2>. HIDE DEF c
  <2>6. d \in Seq(Chars) /\ Len(d) = n /\ DOMAIN d = 1 .. n /\ d[1] = 48 /\ d[2] = 120
    BY <2>1, <2>4, <2>5, Writing
  <2>. QED BY <2>2, <2>6 DEF n
<1>6. Target' = Target BY <1>1 DEF Target
<1>7. value \in Nat /\ Target \in Nat
  <2>1. Power(256, Bytes) \in Nat \ {0} BY Powers, Zenon
  <2>. QED BY <1>4, <2>1 DEF PInv, PrintingOK, Addresses
<1>8. PrintingOK'
  <2>1. \A k \in DOMAIN buf' : buf'[k] \in Chars BY <1>5
  <2>2. i' \in 0 .. Len(buf') BY <1>1, <1>5
  <2>. QED BY <1>1, <1>7, <2>1, <2>2 DEF PInv, PrintingOK, Chars
<1>9. LookingOK'
  <2>1. 0 \in 0 .. Bytes OBVIOUS
  <2>. QED BY <1>1, <1>3, <1>4, <1>5, <1>6, <2>1 DEF LookingOK
<1>10. SizingOK' BY <1>1, <1>2, CallKinds DEF SizingOK
<1>. QED BY <1>1, <1>2, <1>5, <1>8, <1>9, <1>10, CallKinds DEF PInv

LEMMA StepPtrByte ==
  ASSUME PInv, PtrByte PROVE PInv'
<1>. DEFINE b == Byte(i)
            c == [buf EXCEPT ![3 + 2 * i] = nibble_to_ascii_hex(b \div 16)]
<1>1. /\ pc = "ptr" /\ i < Bytes /\ i' = i + 1 /\ pc' = pc /\ code' = code /\ base' = base
      /\ at' = at /\ value' = value /\ done' = done /\ called' = called
      /\ buf' = [c EXCEPT ![4 + 2 * i] = nibble_to_ascii_hex(b % 16)]
  BY DEF PtrByte, Byte
<1>2. called = <<"set_program_vars">> BY <1>1, CallKinds DEF PInv, SizingOK
<1>3. /\ code \in Codes /\ at \in DOMAIN code /\ \A j \in 1 .. at - 1 : ~is_bl(code[j])
      /\ is_bl(code[at]) /\ value = Target /\ value \in Addresses
      /\ Len(buf) = 2 + 2 * Bytes /\ buf[1] = 48 /\ buf[2] = 120 /\ i \in 0 .. Bytes
      /\ \A j \in 0 .. i - 1 : /\ buf[3 + 2 * j] = nibble_to_ascii_hex(Byte(j) \div 16)
                                /\ buf[4 + 2 * j] = nibble_to_ascii_hex(Byte(j) % 16)
  BY <1>1, <1>2 DEF PInv, LookingOK
<1>4. value \in Nat /\ Bytes - 1 - i \in Nat BY <1>1, <1>3 DEF PInv, PrintingOK
<1>5. b \div 16 \in 0 .. 15 /\ b % 16 \in 0 .. 15
  <2>. DEFINE m == Bytes - 1 - i
  <2>1. b = (value \div Power(256, m)) % 256 BY DEF Byte
  <2>2. m \in Nat BY <1>4
  <2>. HIDE DEF b, m
  <2>3. AreNibbles(value, m, (value \div Power(256, m)) % 256) BY <1>4, <2>2, Nibbles, Zenon
  <2>. QED BY <2>1, <2>3, Zenon DEF AreNibbles
<1>. HIDE DEF b
<1>6. nibble_to_ascii_hex(b \div 16) \in Chars /\ nibble_to_ascii_hex(b % 16) \in Chars
  BY <1>5, HexDigit DEF Chars
<1>7. buf \in Seq(Chars) /\ DOMAIN buf = 1 .. 2 + 2 * Bytes BY <1>3 DEF PInv
<1>8. /\ c \in Seq(Chars) /\ Len(c) = 2 + 2 * Bytes /\ DOMAIN c = 1 .. 2 + 2 * Bytes
      /\ \A j \in 1 .. 2 + 2 * Bytes :
           c[j] = IF j = 3 + 2 * i THEN nibble_to_ascii_hex(b \div 16) ELSE buf[j]
  <2>. DEFINE k == 3 + 2 * i
              x == nibble_to_ascii_hex(b \div 16)
  <2>1. c = [buf EXCEPT ![k] = x] BY DEF c
  <2>. HIDE DEF c, k, x
  <2>2. x \in Chars BY <1>6 DEF x
  <2>3. c \in Seq(Chars) /\ Len(c) = Len(buf) /\ DOMAIN c = 1 .. Len(buf)
    BY <1>7, <2>1, <2>2, Writing, Zenon
  <2>4. \A j \in DOMAIN buf : c[j] = IF j = k THEN x ELSE buf[j]
    BY <1>7, <2>1, <2>2, Writing, Zenon
  <2>. QED BY <1>3, <1>7, <2>3, <2>4 DEF k, x
<1>. HIDE DEF c
<1>9. /\ buf' \in Seq(Chars) /\ Len(buf') = 2 + 2 * Bytes /\ DOMAIN buf' = 1 .. 2 + 2 * Bytes
      /\ \A j \in 1 .. 2 + 2 * Bytes :
           buf'[j] = IF j = 4 + 2 * i THEN nibble_to_ascii_hex(b % 16) ELSE c[j]
  <2>. DEFINE k == 4 + 2 * i
              x == nibble_to_ascii_hex(b % 16)
  <2>1. buf' = [c EXCEPT ![k] = x] BY <1>1 DEF c
  <2>. HIDE DEF k, x
  <2>2. x \in Chars BY <1>6 DEF x
  <2>3. buf' \in Seq(Chars) /\ Len(buf') = Len(c) /\ DOMAIN buf' = 1 .. Len(c)
    BY <1>8, <2>1, <2>2, Writing, Zenon
  <2>4. \A j \in DOMAIN c : buf'[j] = IF j = k THEN x ELSE c[j]
    BY <1>8, <2>1, <2>2, Writing, Zenon
  <2>. QED BY <1>8, <2>3, <2>4 DEF k, x
<1>10. Target' = Target /\ \A j : Byte(j)' = Byte(j) BY <1>1 DEF Target, Byte
<1>11. buf'[1] = 48 /\ buf'[2] = 120
  <2>1. 1 \in 1 .. 2 + 2 * Bytes /\ 2 \in 1 .. 2 + 2 * Bytes OBVIOUS
  <2>2. 1 # 3 + 2 * i /\ 1 # 4 + 2 * i /\ 2 # 3 + 2 * i /\ 2 # 4 + 2 * i BY <1>3
  <2>. QED BY <1>3, <1>8, <1>9, <2>1, <2>2
<1>12. ASSUME NEW j \in 0 .. i
       PROVE  /\ buf'[3 + 2 * j] = nibble_to_ascii_hex(Byte(j) \div 16)
              /\ buf'[4 + 2 * j] = nibble_to_ascii_hex(Byte(j) % 16)
  <2>1. /\ 3 + 2 * j \in 1 .. 2 + 2 * Bytes /\ 4 + 2 * j \in 1 .. 2 + 2 * Bytes
        /\ 3 + 2 * j # 4 + 2 * i /\ 4 + 2 * j # 3 + 2 * i
    BY <1>1, <1>3
  <2>2. CASE j = i BY <1>8, <1>9, <2>1, <2>2 DEF b
  <2>3. CASE j # i
    <3>1. j \in 0 .. i - 1 /\ 3 + 2 * j # 3 + 2 * i /\ 4 + 2 * j # 4 + 2 * i BY <1>3, <2>3
    <3>. QED BY <1>3, <1>8, <1>9, <2>1, <3>1
  <2>. QED BY <2>2, <2>3
<1>13. i' \in 0 .. Bytes /\ i' \in 0 .. Len(buf') /\ i' - 1 = i BY <1>1, <1>3, <1>9
<1>14. PrintingOK'
  <2>1. \A k \in DOMAIN buf' : buf'[k] \in Chars BY <1>9
  <2>. QED BY <1>1, <1>13, <2>1 DEF PInv, PrintingOK, Chars
<1>15. LookingOK' BY <1>1, <1>2, <1>3, <1>9, <1>10, <1>11, <1>12, <1>13 DEF LookingOK
<1>16. SizingOK' BY <1>1, <1>2, CallKinds DEF SizingOK
<1>. QED BY <1>1, <1>2, <1>9, <1>14, <1>15, <1>16, CallKinds DEF PInv

LEMMA StepPtrWritten ==
  ASSUME PInv, PtrWritten PROVE PInv'
<1>1. /\ pc = "ptr" /\ i = Bytes /\ pc' = "idle"
      /\ UNCHANGED <<code, base, at, value, i, done, buf, called>>
  BY DEF PtrWritten
<1>2. called = <<"set_program_vars">> BY <1>1, CallKinds DEF PInv, SizingOK
<1>3. Target' = Target /\ \A j : Byte(j)' = Byte(j) BY <1>1 DEF Target, Byte
<1>4. PrintingOK' BY <1>1 DEF PInv, PrintingOK
<1>5. LookingOK' BY <1>1, <1>2, <1>3 DEF PInv, LookingOK
<1>6. SizingOK' BY <1>1, <1>2, CallKinds DEF SizingOK
<1>. QED BY <1>1, <1>2, <1>4, <1>5, <1>6, CallKinds DEF PInv

LEMMA StepWriteSize ==
  ASSUME PInv, NEW v \in Numbers, NEW sz \in Sizes, WriteSize(v, sz) PROVE PInv'
<1>1. /\ pc' = "size" /\ value' = v /\ i' = 0 /\ done' = FALSE /\ buf' = Blank(sz)
      /\ code' = << >> /\ base' = 0 /\ at' = 1 /\ called' = <<"write_size", v>>
  BY DEF WriteSize
<1>2. v \in Nat /\ sz \in Nat BY InterposingAssumption
<1>3. buf' \in Seq(Chars) /\ Len(buf') = sz /\ DOMAIN buf' = 1 .. sz BY <1>1, <1>2, BlankIs
<1>4. called' \in {"write_size"} \X Nat /\ called'[2] = v BY <1>1, <1>2
<1>5. Left(0)' = v
  <2>1. Power(10, 0) = 1 BY PowerFacts
  <2>2. v \div 1 = v BY <1>2
  <2>. QED BY <1>4, <2>1, <2>2 DEF Left
<1>6. PrintingOK'
  <2>1. \A k \in DOMAIN buf' : buf'[k] \in Chars BY <1>3
  <2>2. 0 \in Addresses
    <3>1. Power(256, Bytes) \in Nat \ {0} BY Powers, Zenon
    <3>. QED BY <3>1 DEF Addresses
  <2>3. i' \in 0 .. Len(buf') BY <1>1, <1>2, <1>3
  <2>. QED BY <1>1, <1>2, <2>1, <2>2, <2>3 DEF PrintingOK, Chars
<1>7. SizingOK'
  <2>1. value' = Left(i)' BY <1>1, <1>5
  <2>2. i' - 1 < 0 /\ ~(i' > 0) /\ ~done' BY <1>1
  <2>3. \A j \in 0 .. i' - 1 : FALSE BY <1>1
  <2>. QED BY <1>1, <1>2, <1>4, <2>1, <2>2, <2>3 DEF SizingOK
<1>8. LookingOK' BY <1>4, CallKinds DEF LookingOK
<1>. QED BY <1>3, <1>4, <1>6, <1>7, <1>8, CallKinds DEF PInv

LEMMA StepSizeTurn ==
  ASSUME PInv, SizeTurn PROVE PInv'
<1>1. /\ pc = "size" /\ i < Len(buf) /\ buf' = [buf EXCEPT ![Len(buf) - i] = SizeDigit(value, done)]
      /\ value' = value \div 10 /\ done' = (done \/ value' = 0) /\ i' = i + 1
      /\ UNCHANGED <<pc, code, base, at, called>>
  BY DEF SizeTurn
<1>2. called \in {"write_size"} \X Nat /\ called # <<"set_program_vars">>
  BY <1>1, CallKinds DEF PInv, LookingOK
<1>3. /\ called[2] \in Nat /\ value = Left(i) /\ (done <=> i > 0 /\ value = 0)
      /\ \A j \in 0 .. i - 1 :
           buf[Len(buf) - j] = SizeDigit(Left(j), j > 0 /\ Left(j) = 0)
  BY <1>2, CallKinds DEF PInv, SizingOK
<1>4. value \in Nat /\ done \in BOOLEAN /\ Len(buf) \in Nat /\ i \in 0 .. Len(buf)
  BY DEF PInv, PrintingOK
<1>5. SizeDigit(value, done) \in Chars
  <2>1. CASE done BY <2>1 DEF SizeDigit, Chars
  <2>2. CASE ~done BY <1>4, <2>2 DEF SizeDigit, Chars
  <2>. QED BY <2>1, <2>2, <1>4
<1>6. /\ buf' \in Seq(Chars) /\ Len(buf') = Len(buf) /\ DOMAIN buf' = 1 .. Len(buf)
      /\ \A j \in DOMAIN buf :
           buf'[j] = IF j = Len(buf) - i THEN SizeDigit(value, done) ELSE buf[j]
  <2>. DEFINE k == Len(buf) - i
              x == SizeDigit(value, done)
  <2>1. buf \in Seq(Chars) /\ x \in Chars BY <1>5 DEF PInv
  <2>2. buf' = [buf EXCEPT ![k] = x] BY <1>1
  <2>. HIDE DEF k, x
  <2>3. buf' \in Seq(Chars) /\ Len(buf') = Len(buf) /\ DOMAIN buf' = 1 .. Len(buf)
    BY <2>1, <2>2, Writing, Zenon
  <2>4. \A j \in DOMAIN buf : buf'[j] = IF j = k THEN x ELSE buf[j]
    BY <2>1, <2>2, Writing, Zenon
  <2>. QED BY <2>3, <2>4 DEF k, x
<1>7. DOMAIN buf = 1 .. Len(buf) BY DEF PInv
<1>8. \A j : Left(j)' = Left(j) BY <1>1 DEF Left
<1>9. value' = Left(i)'
  <2>1. i \in Nat /\ 10 \in Nat \ {0} BY <1>4
  <2>2. Left(i + 1) = Left(i) \div 10 BY <1>3, <2>1, NextDigit, Zenon DEF Left
  <2>3. Left(i)' = Left(i + 1) BY <1>1 DEF Left
  <2>. QED BY <1>1, <1>3, <2>2, <2>3
<1>10. done' <=> i' > 0 /\ value' = 0
  <2>1. done => value = 0 BY <1>3
  <2>2. value = 0 => value \div 10 = 0 OBVIOUS
  <2>3. i + 1 > 0 BY <1>4
  <2>. QED BY <1>1, <2>1, <2>2, <2>3
<1>11. ASSUME NEW j \in 0 .. i
       PROVE  buf'[Len(buf) - j] = SizeDigit(Left(j), j > 0 /\ Left(j) = 0)
  <2>1. Len(buf) - j \in DOMAIN buf BY <1>1, <1>4, <1>7
  <2>2. CASE j = i
    <3>1. done = (j > 0 /\ Left(j) = 0) BY <1>3, <1>4, <2>2
    <3>. QED BY <1>3, <1>6, <2>1, <2>2, <3>1
  <2>3. CASE j # i
    <3>1. j \in 0 .. i - 1 /\ Len(buf) - j # Len(buf) - i BY <1>4, <2>3
    <3>. QED BY <1>3, <1>6, <2>1, <3>1
  <2>. QED BY <2>2, <2>3
<1>12. i' \in 0 .. Len(buf') /\ i' - 1 = i /\ value' \in Nat /\ done' \in BOOLEAN
  BY <1>1, <1>4, <1>6
<1>13. PrintingOK'
  <2>1. \A k \in DOMAIN buf' : buf'[k] \in Chars BY <1>6
  <2>. QED BY <1>1, <1>12, <2>1 DEF PInv, PrintingOK, Chars
<1>14. SizingOK' BY <1>1, <1>3, <1>6, <1>8, <1>9, <1>10, <1>11, <1>12 DEF SizingOK
<1>15. LookingOK' BY <1>1, <1>2 DEF LookingOK
<1>. QED BY <1>1, <1>2, <1>6, <1>13, <1>14, <1>15, CallKinds DEF PInv

LEMMA StepSizeWritten ==
  ASSUME PInv, SizeWritten PROVE PInv'
<1>1. /\ pc = "size" /\ i = Len(buf) /\ pc' = (IF done THEN "idle" ELSE "aborted")
      /\ UNCHANGED <<code, base, at, value, i, done, buf, called>>
  BY DEF SizeWritten
<1>2. called \in {"write_size"} \X Nat /\ called # <<"set_program_vars">>
  BY <1>1, CallKinds DEF PInv, LookingOK
<1>3. \A j : Left(j)' = Left(j) BY <1>1 DEF Left
<1>4. done \in BOOLEAN BY DEF PInv, PrintingOK
<1>5. PrintingOK' BY <1>1 DEF PInv, PrintingOK
<1>6. SizingOK'
  <2>1. pc' \in {"idle", "aborted"} /\ (done' <=> pc' = "idle") BY <1>1, <1>4
  <2>. QED BY <1>1, <1>2, <1>3, <2>1, CallKinds DEF PInv, SizingOK
<1>7. LookingOK' BY <1>1, <1>2 DEF LookingOK
<1>. QED BY <1>1, <1>2, <1>5, <1>6, <1>7, CallKinds DEF PInv

LEMMA PInvKept ==
  ASSUME PInv, UNCHANGED vars PROVE PInv'
<1>1. UNCHANGED <<pc, code, base, at, value, i, done, buf, called>> BY DEF vars
<1>2. (\A j : Left(j)' = Left(j)) /\ Target' = Target /\ (\A j : Byte(j)' = Byte(j))
  BY <1>1 DEF Left, Target, Byte
<1>. QED BY <1>1, <1>2 DEF PInv, PrintingOK, LookingOK, SizingOK

LEMMA PInvStep == PInv /\ [Next]_<<vars, process>> => PInv'
<1>. SUFFICES ASSUME PInv, [Next]_<<vars, process>> PROVE PInv'
  OBVIOUS
<1>1. CASE Running
  BY <1>1, StepNextInstruction, StepFound, StepPtrByte, StepPtrWritten, StepSizeTurn,
     StepSizeWritten DEF Running
<1>2. CASE TryWriteSize BY <1>2, StepWriteSize DEF TryWriteSize
<1>3. CASE set_program_vars
  BY <1>3, StepSetProgramVars, PInvKept DEF set_program_vars
<1>4. CASE UNCHANGED vars BY <1>4, PInvKept
<1>5. ASSUME \/ _mi_process_load \/ __pthread_init
             \/ \E t \in Threads : Step(t)
             \/ pthread_create \/ pthread_join \/ pthread_join_garbage
      PROVE UNCHANGED vars
  BY <1>5 DEF _mi_process_load, __pthread_init, Step, SetHeap, malloc, strdup, free,
     pthread_create, pthread_join, pthread_join_garbage
<1>. QED BY <1>1, <1>2, <1>3, <1>4, <1>5 DEF Next
-----------------------------------------------------------------------------
LEMMA LeastOf ==
  ASSUME NEW T \in SUBSET Nat, T # {} PROVE \E x \in T : \A y \in T : x <= y
<1>1. \E x \in T : \A y \in T : ~(<<y, x>> \in OpToRel(<, Nat))
  BY NatLessThanWellFounded, WFMin
<1>2. PICK x \in T : \A y \in T : ~(<<y, x>> \in OpToRel(<, Nat)) BY <1>1
<1>3. ASSUME NEW y \in T PROVE x <= y
  <2>1. x \in Nat /\ y \in Nat OBVIOUS
  <2>2. ~(<<y, x>> \in OpToRel(<, Nat)) BY <1>2
  <2>3. ~(y < x) BY <2>1, <2>2 DEF OpToRel
  <2>. QED BY <2>1, <2>3
<1>. QED BY <1>3

LEMMA LeftFacts ==
  ASSUME called[2] \in Nat, NEW j \in Nat
  PROVE  /\ Left(j) \in Nat /\ Left(j + 1) = Left(j) \div 10
         /\ Left(j) = 0 <=> called[2] < Power(10, j)
<1>. DEFINE v == called[2]
<1>1. v \in Nat /\ 10 \in Nat \ {0} OBVIOUS
<1>. HIDE DEF v
<1>2. Power(10, j) \in Nat \ {0} BY Powers, Zenon
<1>3. v \div Power(10, j) \in Nat BY <1>1, <1>2, DivMod, Zenon
<1>4. v \div Power(10, j + 1) = (v \div Power(10, j)) \div 10 BY <1>1, NextDigit, Zenon
<1>5. v < Power(10, j) <=> v \div Power(10, j) = 0 BY <1>1, NoMoreDigits, Zenon
<1>. QED BY <1>3, <1>4, <1>5, Zenon DEF v, Left

LEMMA NothingLeft ==
  ASSUME called[2] \in Nat, NEW j \in Nat, Left(j) = 0, NEW m \in Nat, j <= m
  PROVE  Left(m) = 0
<1>. DEFINE S == {n \in Nat : Left(j + n) = 0}
<1>1. 0 \in S OBVIOUS
<1>2. ASSUME NEW n \in Nat, n \in S PROVE n + 1 \in S
  <2>1. Left((j + n) + 1) = Left(j + n) \div 10 BY LeftFacts
  <2>2. (j + n) + 1 = j + (n + 1) OBVIOUS
  <2>. QED BY <1>2, <2>1, <2>2
<1>. HIDE DEF S
<1>3. m - j \in S BY <1>1, <1>2, SetInduction
<1>. QED BY <1>3 DEF S

LEMMA SizeIsWritten == PInv => SizeFits
<1>. SUFFICES ASSUME PInv, called # << >>, called[1] = "write_size"
              PROVE  /\ pc = "aborted" => buf = << >> \/ called[2] >= Power(10, Len(buf))
                     /\ pc = "idle" =>
                          \E k \in DOMAIN buf :
                            /\ \A j \in 1 .. k - 1 : buf[j] = 32
                            /\ \A j \in k .. Len(buf) : buf[j] \in 48 .. 57
                            /\ Spelled(buf, k, 10) = called[2]
                            /\ buf[k] = 48 => k = Len(buf)
  BY DEF SizeFits
<1>. DEFINE N == Len(buf)
<1>1. /\ called[2] \in Nat /\ (pc # "size" => i = N /\ (done <=> pc = "idle"))
      /\ value = Left(i) /\ (done <=> i > 0 /\ value = 0)
      /\ \A j \in 0 .. i - 1 : buf[N - j] = SizeDigit(Left(j), j > 0 /\ Left(j) = 0)
  BY DEF PInv, SizingOK
<1>2. buf \in Seq(Chars) /\ N \in Nat /\ DOMAIN buf = 1 .. N BY DEF PInv
<1>. HIDE DEF N
<1>3. ASSUME pc = "aborted" PROVE buf = << >> \/ called[2] >= Power(10, N)
  <2>1. i = N /\ ~(N > 0 /\ Left(N) = 0) BY <1>1, <1>3
  <2>2. CASE N = 0 BY <1>2, <2>2 DEF N
  <2>3. CASE N # 0
    <3>1. Left(N) # 0 BY <1>2, <2>1, <2>3
    <3>2. ~(called[2] < Power(10, N)) BY <1>1, <1>2, <3>1, LeftFacts
    <3>3. Power(10, N) \in Nat \ {0} BY <1>2, Powers, Zenon
    <3>. QED BY <1>1, <3>2, <3>3
  <2>. QED BY <2>2, <2>3
<1>4. ASSUME pc = "idle"
      PROVE  \E k \in DOMAIN buf :
               /\ \A j \in 1 .. k - 1 : buf[j] = 32
               /\ \A j \in k .. N : buf[j] \in 48 .. 57
               /\ Spelled(buf, k, 10) = called[2]
               /\ buf[k] = 48 => k = N
  <2>1. i = N /\ N > 0 /\ Left(N) = 0 BY <1>1, <1>4
  <2>2. PICK n \in {j \in 1 .. N : Left(j) = 0} : \A j \in {j \in 1 .. N : Left(j) = 0} : n <= j
    <3>. DEFINE T == {j \in 1 .. N : Left(j) = 0}
    <3>1. N \in T /\ T \in SUBSET Nat BY <1>2, <2>1
    <3>. HIDE DEF T
    <3>2. \E x \in T : \A y \in T : x <= y BY <3>1, LeastOf
    <3>. QED BY <3>2 DEF T
  <2>. DEFINE k == N - n + 1
  <2>3. n \in 1 .. N /\ Left(n) = 0 /\ \A j \in 1 .. N : Left(j) = 0 => n <= j BY <2>2
  <2>4. k \in 1 .. N /\ k \in DOMAIN buf /\ N - k + 1 = n BY <1>2, <2>3
  <2>5. ASSUME NEW j \in 1 .. k - 1 PROVE buf[j] = 32
    <3>1. N - j \in 0 .. N - 1 /\ N - j \in Nat /\ n <= N - j /\ N - (N - j) = j /\ N - j > 0
      BY <1>2, <2>3
    <3>2. Left(N - j) = 0 BY <1>1, <2>3, <3>1, NothingLeft
    <3>3. buf[j] = SizeDigit(Left(N - j), TRUE) BY <1>1, <2>1, <3>1, <3>2
    <3>. QED BY <3>3 DEF SizeDigit
  <2>6. ASSUME NEW j \in k .. N
        PROVE  buf[j] \in 48 .. 57 /\ Digit(buf[j]) = Left(N - j) % 10
    <3>1. N - j \in 0 .. N - 1 /\ N - j \in Nat /\ N - j < n /\ N - (N - j) = j
      BY <1>2, <2>3
    <3>2. ~(N - j > 0 /\ Left(N - j) = 0) BY <1>2, <2>3, <3>1
    <3>3. buf[j] = SizeDigit(Left(N - j), FALSE) BY <1>1, <2>1, <3>1, <3>2
    <3>4. Left(N - j) \in Nat BY <1>1, <3>1, LeftFacts
    <3>. QED BY <3>3, <3>4, DecimalDigit
  <2>7. called[2] < Power(10, N - k + 1)
    <3>1. n \in Nat BY <1>2, <2>3
    <3>2. called[2] < Power(10, n) BY <1>1, <2>3, <3>1, LeftFacts, Zenon
    <3>. QED BY <2>4, <3>2, Zenon
  <2>8. Spelled(buf, k, 10) = called[2]
    <3>1. k \in 1 .. N + 1 /\ Len(buf) = N BY <1>2, <2>4 DEF N
    <3>. HIDE DEF k
    <3>2. DigitsOf(called[2], buf, k, N, 10) BY <2>6 DEF Left, DigitsOf
    <3>3. 10 \in Nat \ {0} OBVIOUS
    <3>. QED BY <1>1, <1>2, <2>7, <3>1, <3>2, <3>3, Numeral, Zenon
  <2>9. ASSUME buf[k] = 48 PROVE k = N
    <3>1. k \in k .. N /\ N - k = n - 1 /\ n - 1 \in Nat /\ (n - 1) + 1 = n
      BY <1>2, <2>3, <2>4
    <3>2. Left(n - 1) % 10 = 0
      <4>1. Digit(48) = 0 BY DEF Digit
      <4>. QED BY <2>6, <2>9, <3>1, <4>1
    <3>3. Left(n - 1) \div 10 = 0 /\ Left(n - 1) \in Nat BY <1>1, <2>3, <3>1, LeftFacts
    <3>4. Left(n - 1) = 0 BY <3>2, <3>3
    <3>5. n = 1 BY <1>2, <2>3, <3>4
    <3>. QED BY <1>2, <3>5
  <2>. HIDE DEF k
  <2>. QED BY <2>4, <2>5, <2>6, <2>8, <2>9
<1>. QED BY <1>3, <1>4 DEF N

LEMMA TargetIsPrinted == PInv => PrintsTarget
<1>. DEFINE P == Power(2, ImmBits - 1)
            N == 2 + 2 * Bytes
<1>. SUFFICES ASSUME PInv, called = <<"set_program_vars">>, pc = "idle"
              PROVE  \E distance \in -P .. P - 1 :
                       /\ code[FirstBl] = (Bl * Power(2, ImmBits)) + (distance % Power(2, ImmBits))
                       /\ SubSeq(buf, 1, 2) = <<48, 120>> /\ Len(buf) = N
                       /\ Spelled(buf, 3, 16)
                            = (base + 4 * (FirstBl - 1 + distance)) % Power(256, Bytes)
  BY DEF PrintsTarget
<1>1. /\ code \in Codes /\ at \in DOMAIN code /\ \A j \in 1 .. at - 1 : ~is_bl(code[j])
      /\ is_bl(code[at]) /\ value = Target /\ value \in Addresses
      /\ Len(buf) = N /\ buf[1] = 48 /\ buf[2] = 120 /\ i = Bytes
      /\ \A j \in 0 .. Bytes - 1 : /\ buf[3 + 2 * j] = nibble_to_ascii_hex(Byte(j) \div 16)
                                    /\ buf[4 + 2 * j] = nibble_to_ascii_hex(Byte(j) % 16)
  BY DEF PInv, LookingOK
<1>2. /\ code \in Seq(0 .. Power(2, WordBits) - 1) /\ at \in Nat
      /\ code[at] \in 0 .. Power(2, WordBits) - 1
  BY <1>1, GivenCode, InTheCode, Zenon
<1>3. FirstBl = at
  <2>1. \A k \in DOMAIN code : is_bl(code[k]) /\ (\A j \in 1 .. k - 1 : ~is_bl(code[j])) => k = at
    <3>. SUFFICES ASSUME NEW k \in DOMAIN code, is_bl(code[k]),
                         \A j \in 1 .. k - 1 : ~is_bl(code[j])
                  PROVE  k = at
      OBVIOUS
    <3>1. k \in Nat /\ k >= 1 /\ at >= 1 BY <1>1, <1>2
    <3>2. ~(k < at)
      <4>1. k < at => k \in 1 .. at - 1 BY <1>2, <3>1
      <4>. QED BY <1>1, <4>1
    <3>3. ~(at < k)
      <4>1. at < k => at \in 1 .. k - 1 BY <1>2, <3>1
      <4>. QED BY <1>1, <4>1
    <3>. QED BY <1>2, <3>1, <3>2, <3>3
  <2>. DEFINE Q(k) == is_bl(code[k]) /\ \A j \in 1 .. k - 1 : ~is_bl(code[j])
  <2>2. FirstBl = CHOOSE k \in DOMAIN code : Q(k) BY DEF FirstBl
  <2>3. Q(at) BY <1>1
  <2>4. \A k \in DOMAIN code : Q(k) => k = at BY <2>1
  <2>. HIDE DEF Q
  <2>. QED BY <1>1, <2>2, <2>3, <2>4
<1>4. PICK distance \in -P .. P - 1 :
        /\ code[at] = (Bl * Power(2, ImmBits)) + (distance % Power(2, ImmBits))
        /\ decode_bl_offset(code[at]) = 4 * distance
  BY <1>1, <1>2, Decoded
<1>5. Power(256, Bytes) \in Nat \ {0} BY Powers, Zenon
<1>6. value \in Nat /\ value < Power(256, Bytes) /\ base \in Nat
  BY <1>1, <1>5 DEF PInv, PrintingOK, Addresses
<1>7. value = (base + 4 * (at - 1 + distance)) % Power(256, Bytes)
  <2>1. distance \in Int BY Widths
  <2>2. base + 4 * (at - 1) + 4 * distance = base + 4 * (at - 1 + distance) BY <1>2, <1>6, <2>1
  <2>. QED BY <1>1, <1>4, <2>2 DEF Target
<1>8. ASSUME NEW n \in 3 .. N
      PROVE  Digit(buf[n]) = (value \div Power(16, N - n)) % 16
  <2>1. \E j \in 0 .. Bytes - 1 : n = 3 + 2 * j \/ n = 4 + 2 * j
    <3>1. CASE (n - 3) % 2 = 0
      <4>1. n = 3 + 2 * ((n - 3) \div 2) /\ (n - 3) \div 2 \in 0 .. Bytes - 1 BY <3>1
      <4>. QED BY <4>1
    <3>2. CASE (n - 3) % 2 # 0
      <4>1. n = 4 + 2 * ((n - 3) \div 2) /\ (n - 3) \div 2 \in 0 .. Bytes - 1 BY <3>2
      <4>. QED BY <4>1
    <3>. QED BY <3>1, <3>2
  <2>2. PICK j \in 0 .. Bytes - 1 : n = 3 + 2 * j \/ n = 4 + 2 * j BY <2>1
  <2>. DEFINE m == Bytes - 1 - j
  <2>3. m \in Nat BY <2>2
  <2>4. /\ Byte(j) \div 16 \in 0 .. 15 /\ Byte(j) % 16 \in 0 .. 15
        /\ (value \div Power(16, 2 * m)) % 16 = Byte(j) % 16
        /\ (value \div Power(16, 2 * m + 1)) % 16 = Byte(j) \div 16
    <3>. DEFINE b == Byte(j)
    <3>1. b = (value \div Power(256, m)) % 256 BY DEF Byte
    <3>. HIDE DEF b, m
    <3>2. AreNibbles(value, m, (value \div Power(256, m)) % 256)
      BY <1>6, <2>3, Nibbles, Zenon
    <3>3. AreNibbles(value, m, b) BY <3>1, <3>2, Zenon
    <3>. QED BY <3>3, Zenon DEF AreNibbles, b
  <2>5. CASE n = 3 + 2 * j
    <3>1. N - n = 2 * m + 1 BY <2>2, <2>5
    <3>2. Digit(buf[n]) = Byte(j) \div 16 BY <1>1, <2>2, <2>4, <2>5, HexDigit
    <3>. HIDE DEF m, N
    <3>. QED BY <2>4, <3>1, <3>2
  <2>6. CASE n = 4 + 2 * j
    <3>1. N - n = 2 * m BY <2>2, <2>6
    <3>2. Digit(buf[n]) = Byte(j) % 16 BY <1>1, <2>2, <2>4, <2>6, HexDigit
    <3>. HIDE DEF m, N
    <3>. QED BY <2>4, <3>1, <3>2
  <2>. QED BY <2>2, <2>5, <2>6
<1>9. Spelled(buf, 3, 16) = value
  <2>1. N \in Nat /\ 3 \in 1 .. N + 1 /\ N - 3 + 1 = 2 * Bytes OBVIOUS
  <2>2. value < Power(16, N - 3 + 1) BY <1>6, <2>1, TwoNibbles
  <2>. HIDE DEF N
  <2>3. DigitsOf(value, buf, 3, N, 16) BY <1>8 DEF DigitsOf
  <2>4. 16 \in Nat \ {0} /\ Len(buf) = N /\ value \in Nat BY <1>1, <1>6 DEF N
  <2>. QED BY <2>1, <2>2, <2>3, <2>4, Numeral, Zenon
<1>10. SubSeq(buf, 1, 2) = <<48, 120>>
  <2>1. buf \in Seq(Chars) /\ Len(buf) = N /\ N >= 2 BY <1>1 DEF PInv
  <2>2. /\ SubSeq(buf, 1, 2) \in Seq(Chars) /\ Len(SubSeq(buf, 1, 2)) = 2
        /\ SubSeq(buf, 1, 2)[1] = buf[1] /\ SubSeq(buf, 1, 2)[2] = buf[2]
    BY <2>1
  <2>. DEFINE a == SubSeq(buf, 1, 2)
              b == <<48, 120>>
  <2>3. b \in Seq(Chars) /\ Len(b) = 2 /\ b[1] = 48 /\ b[2] = 120
    <3>1. 48 \in Chars /\ 120 \in Chars BY DEF Chars
    <3>. QED BY <3>1
  <2>. HIDE DEF a, b
  <2>4. a \in Seq(Chars) /\ Len(a) = Len(b) /\ Len(a) = 2 /\ a[1] = b[1] /\ a[2] = b[2]
    BY <1>1, <2>2, <2>3 DEF a
  <2>5. \A k \in 1 .. Len(a) : a[k] = b[k]
    <3>. TAKE k \in 1 .. Len(a)
    <3>1. k = 1 \/ k = 2 BY <2>4
    <3>. QED BY <2>4, <3>1
  <2>6. a = b BY <2>3, <2>4, <2>5, SeqEqual, Zenon
  <2>. QED BY <2>6 DEF a, b
<1>. QED BY <1>1, <1>3, <1>4, <1>7, <1>9, <1>10
-----------------------------------------------------------------------------
(* Whatever machine code, addresses, numbers and buffers it is given, the  *)
(* program keeps to its types: the printing loops stay inside their        *)
(* buffers and the scan of set_program_vars inside the code.               *)
THEOREM TypeCorrect == Spec => []TypeOK
<1>1. Init => PInv /\ CInv BY InitPInv, InitCInv DEF Init
<1>2. PInv /\ CInv /\ [Next]_<<vars, process>> => (PInv /\ CInv)' BY PInvStep, CInvStep
<1>3. PInv /\ CInv => TypeOK BY DEF PInv, CInv, Typed, ACall, TypeOK
<1>. QED BY <1>1, <1>2, <1>3, PTL DEF Spec

(* write_size_to_strbuf, for any number and any size of the buffer: it     *)
(* aborts only when the buffer is too short, and otherwise what it leaves  *)
(* is the number in decimal, right-aligned and without leading zeros.      *)
THEOREM SizesFit == Spec => []SizeFits
<1>1. Init => PInv BY InitPInv DEF Init
<1>2. PInv /\ [Next]_<<vars, process>> => PInv' BY PInvStep
<1>3. PInv => SizeFits BY SizeIsWritten
<1>. QED BY <1>1, <1>2, <1>3, PTL DEF Spec

(* set_program_vars, for any code that holds a BL, any width of its field  *)
(* and of addresses: what it prints spells the address that the first BL   *)
(* branches to, all of whose digits there are.                             *)
THEOREM PrintsTheTarget == Spec => []PrintsTarget
<1>1. Init => PInv BY InitPInv DEF Init
<1>2. PInv /\ [Next]_<<vars, process>> => PInv' BY PInvStep
<1>3. PInv => PrintsTarget BY TargetIsPrinted
<1>. QED BY <1>1, <1>2, <1>3, PTL DEF Spec

(* In every interleaving of the two threads, and whether or not the second *)
(* could be created, mimalloc is loaded and the heap of the thread is set  *)
(* before it is asked for memory.                                          *)
THEOREM ReadyForHeap == Spec => []HeapReady
<1>1. Init => CInv BY InitCInv
<1>2. CInv /\ [Next]_<<vars, process>> => CInv' BY CInvStep
<1>3. CInv => HeapReady BY HeapIsReady
<1>. QED BY <1>1, <1>2, <1>3, PTL DEF Spec

(* free is given a live block of the allocator that serves it, and a       *)
(* thread that has finished leaves only what strdup made.                  *)
THEOREM BlocksGoBack == Spec => []FreesOwn
<1>1. Init => CInv BY InitCInv
<1>2. CInv /\ [Next]_<<vars, process>> => CInv' BY CInvStep
<1>3. CInv => FreesOwn BY BlocksReturn
<1>. QED BY <1>1, <1>2, <1>3, PTL DEF Spec
=============================================================================
