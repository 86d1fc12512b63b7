---------------------------- MODULE NaturalFacts ----------------------------
(***************************************************************************)
(* Facts about natural numbers that the proofs of several components rest  *)
(* on: the least element of a set, induction, and the remainders by which  *)
(* rings and address registers wrap.                                       *)
(*                                                                         *)
(* Induction is stated for a set instead of a predicate: S is the set of   *)
(* the numbers the claim holds for.                                        *)
(***************************************************************************)
EXTENDS Integers, WellFoundedInduction, TLAPS

(***************************************************************************)
(* A set of naturals that is not empty has a least element: what a         *)
(* CHOOSE of the least channel, event or time picks exists.                *)
(***************************************************************************)
LEMMA LeastNatural ==
  ASSUME NEW S \in SUBSET Nat, S # {}
  PROVE  \E m \in S : \A n \in S : m <= n
<1> DEFINE Less == {pair \in Nat \X Nat : pair[1] < pair[2]}
<1>1. IsWellFoundedOn(Less, Nat)
  BY NatLessThanWellFounded DEF OpToRel
<1>2. PICK m \in S : \A n \in S : ~(<<n, m>> \in Less)
  <2> HIDE DEF Less
  <2> QED
    BY <1>1, WFMin
<1>3. ASSUME NEW n \in S, n < m
      PROVE  FALSE
  <2>1. <<n, m>> \in Nat \X Nat
    OBVIOUS
  <2> QED
    BY <1>2, <1>3, <2>1
<1> QED
  BY <1>2, <1>3

(***************************************************************************)
(* Induction over the natural numbers.                                     *)
(***************************************************************************)
LEMMA NaturalInduction ==
  ASSUME NEW S, 0 \in S, \A n \in Nat : n \in S => n + 1 \in S
  PROVE  Nat \subseteq S
<1> SUFFICES ASSUME ~(Nat \subseteq S)
             PROVE  FALSE
  OBVIOUS
<1>1. PICK m \in Nat \ S : \A n \in Nat \ S : m <= n
  BY LeastNatural
<1>2. m - 1 \in Nat /\ m - 1 \in S
  BY <1>1
<1> QED
  BY <1>1, <1>2

-----------------------------------------------------------------------------
(***************************************************************************)
(* A number has one quotient and one remainder.                            *)
(***************************************************************************)
LEMMA OneRemainder ==
  ASSUME NEW n \in Nat \ {0}, NEW p \in Int, NEW q \in Int,
         NEW r \in 0..(n - 1), NEW s \in 0..(n - 1),
         n * p + r = n * q + s
  PROVE  p = q /\ r = s
<1>1. ASSUME NEW d \in Int, d >= 1
      PROVE  n * d >= n
  <2>1. n * (d - 1) >= 0
    BY <1>1
  <2> QED
    BY <2>1
<1>2. n * (p - q) = s - r /\ n * (q - p) = r - s
  OBVIOUS
<1>3. ~(p - q >= 1) /\ ~(q - p >= 1)
  BY <1>1, <1>2
<1> QED
  BY <1>3

(***************************************************************************)
(* The remainder of a number written as a multiple and a rest.             *)
(***************************************************************************)
LEMMA RemainderOf ==
  ASSUME NEW n \in Nat \ {0}, NEW q \in Int, NEW r \in 0..(n - 1)
  PROVE  (n * q + r) % n = r /\ (n * q + r) \div n = q
<1> DEFINE x == n * q + r
<1>1. x \in Int /\ x \div n \in Int /\ x % n \in 0..(n - 1) /\ x = n * (x \div n) + (x % n)
  OBVIOUS
<1> QED
  BY <1>1, OneRemainder

(***************************************************************************)
(* Adding before or after the wrap gives the same: an index or an address  *)
(* may be reduced at every step.                                           *)
(***************************************************************************)
LEMMA RemainderOfSum ==
  ASSUME NEW n \in Nat \ {0}, NEW x \in Int, NEW y \in Int
  PROVE  ((x % n) + y) % n = (x + y) % n
<1> DEFINE z == (x % n) + y
<1>1. x % n \in Int /\ x \div n \in Int /\ x = n * (x \div n) + (x % n)
  OBVIOUS
<1>2. z \in Int /\ z \div n \in Int /\ z % n \in 0..(n - 1) /\ z = n * (z \div n) + (z % n)
  BY <1>1
<1>3. x + y = n * ((x \div n) + (z \div n)) + (z % n)
  BY <1>1, <1>2
<1>4. (x \div n) + (z \div n) \in Int
  BY <1>1, <1>2
<1> HIDE DEF z
<1>5. (x + y) % n = z % n
  BY <1>2, <1>3, <1>4, RemainderOf
<1> QED
  BY <1>5 DEF z

(***************************************************************************)
(* A number below the modulus is its own remainder, and a whole turn       *)
(* changes nothing.                                                        *)
(***************************************************************************)
LEMMA SmallRemainder ==
  ASSUME NEW n \in Nat \ {0}, NEW x \in 0..(n - 1)
  PROVE  x % n = x
OBVIOUS

(***************************************************************************)
(* A whole turn changes no remainder.                                      *)
(***************************************************************************)
LEMMA WholeTurn ==
  ASSUME NEW n \in Nat \ {0}, NEW x \in Int
  PROVE  (x + n) % n = x % n
<1>1. x \div n \in Int /\ x % n \in 0..(n - 1) /\ x = n * (x \div n) + (x % n)
  OBVIOUS
<1>2. x + n = n * ((x \div n) + 1) + (x % n) /\ (x \div n) + 1 \in Int
  BY <1>1
<1>3. (n * ((x \div n) + 1) + (x % n)) % n = x % n
  BY <1>1, <1>2, RemainderOf
<1> QED
  BY <1>2, <1>3

(***************************************************************************)
(* Numbers less than a turn apart lie in different slots of a ring.        *)
(***************************************************************************)
LEMMA DifferentSlots ==
  ASSUME NEW n \in Nat \ {0}, NEW x \in Int, NEW y \in Int, x < y, y < x + n
  PROVE  x % n # y % n
<1>1. /\ x \div n \in Int /\ x % n \in 0..(n - 1) /\ x = n * (x \div n) + (x % n)
      /\ y \div n \in Int /\ y % n \in 0..(n - 1) /\ y = n * (y \div n) + (y % n)
  OBVIOUS
<1> SUFFICES ASSUME x % n = y % n
             PROVE  FALSE
  OBVIOUS
<1> DEFINE d == y - x
<1>2. d \in 1..(n - 1) /\ 0 \in 0..(n - 1) /\ d \in 0..(n - 1)
  OBVIOUS
<1>3. n * ((y \div n) - (x \div n)) + 0 = n * 0 + d
  BY <1>1
<1>4. (y \div n) - (x \div n) \in Int /\ 0 \in Int
  BY <1>1
<1>5. 0 = d
  BY <1>2, <1>3, <1>4, OneRemainder
<1> QED
  BY <1>2, <1>5

(***************************************************************************)
(* Numbers of two digits: their range, and the digits of a number.         *)
(***************************************************************************)
LEMMA TwoDigits ==
  ASSUME NEW n \in Nat \ {0}, NEW k \in Nat \ {0}, NEW high \in 0..(k - 1), NEW low \in 0..(n - 1)
  PROVE  n * high + low \in 0..(n * k - 1)
<1>1. n * (k - 1 - high) >= 0 /\ n * high >= 0
  OBVIOUS
<1>2. n * (k - 1 - high) = n * k - n - n * high
  OBVIOUS
<1>3. n * k \in Int /\ n * high \in Int
  OBVIOUS
<1> QED
  BY <1>1, <1>2, <1>3

(***************************************************************************)
(* A number below n * k is its two digits in base n.                       *)
(***************************************************************************)
LEMMA DigitsOf ==
  ASSUME NEW n \in Nat \ {0}, NEW k \in Nat \ {0}, NEW x \in 0..(n * k - 1)
  PROVE  /\ x \div n \in 0..(k - 1) /\ x % n \in 0..(n - 1)
         /\ x = n * (x \div n) + (x % n)
<1>1. PICK q \in Int : q = x \div n
  OBVIOUS
<1>2. PICK r \in 0..(n - 1) : r = x % n
  OBVIOUS
<1>3. x = n * q + r
  BY <1>1, <1>2
<1>4. q < k
  <2>1. SUFFICES ASSUME q >= k
                 PROVE  FALSE
    OBVIOUS
  <2>2. n * (q - k) >= 0
    BY <2>1
  <2>3. n * (q - k) = n * q - n * k
    OBVIOUS
  <2> QED
    BY <1>3, <2>2, <2>3
<1>5. q >= 0
  <2>1. SUFFICES ASSUME q <= -1
                 PROVE  FALSE
    OBVIOUS
  <2>2. n * (-1 - q) >= 0
    BY <2>1
  <2>3. n * (-1 - q) = -n - n * q
    OBVIOUS
  <2> QED
    BY <1>3, <2>2, <2>3
<1> QED
  BY <1>1, <1>2, <1>3, <1>4, <1>5

-----------------------------------------------------------------------------
(***************************************************************************)
(* Recursion: a first value and a step determine a function on Nat.  (The  *)
(* step is a function, where the library's theorems take an operator.)     *)
(***************************************************************************)
Follows(g, limit, first, step) ==
  g[0] = first /\ \A n \in 0..(limit - 1) : g[n + 1] = step[<<g[n], n>>]

Unfolds(f, first, step) ==
  f[0] = first /\ \A n \in Nat : f[n + 1] = step[<<f[n], n>>]

(***************************************************************************)
(* Some function on Nat has the given first value and step.                *)
(***************************************************************************)
LEMMA Recursion ==
  ASSUME NEW S, NEW first \in S, NEW step \in [S \X Nat -> S]
  PROVE  \E f \in [Nat -> S] : Unfolds(f, first, step)
<1> DEFINE Reached == {limit \in Nat : \E g \in [0..limit -> S] : Follows(g, limit, first, step)}
<1>1. Nat \subseteq Reached
  <2>1. 0 \in Reached
    <3>1. [n \in 0..0 |-> first] \in [0..0 -> S] /\ Follows([n \in 0..0 |-> first], 0, first, step)
      BY DEF Follows
    <3> QED
      BY <3>1
  <2>2. ASSUME NEW limit \in Nat, limit \in Reached
        PROVE  limit + 1 \in Reached
    <3>1. PICK g \in [0..limit -> S] : Follows(g, limit, first, step)
      BY <2>2
    <3> DEFINE h == [n \in 0..(limit + 1) |-> IF n <= limit THEN g[n] ELSE step[<<g[limit], limit>>]]
    <3>2. g[limit] \in S /\ step[<<g[limit], limit>>] \in S
      OBVIOUS
    <3>3. h \in [0..(limit + 1) -> S]
      BY <3>2
    <3>4. h[0] = first
      BY <3>1 DEF Follows
    <3>5. ASSUME NEW n \in 0..limit
          PROVE  h[n + 1] = step[<<h[n], n>>]
      <4>1. CASE n = limit
        BY <4>1
      <4>2. CASE n # limit
        <5>1. n \in 0..(limit - 1) /\ n + 1 \in 0..limit
          BY <4>2
        <5> QED
          BY <3>1, <5>1 DEF Follows
      <4> QED
        BY <4>1, <4>2
    <3> HIDE DEF h
    <3>6. Follows(h, limit + 1, first, step)
      BY <3>4, <3>5 DEF Follows
    <3> QED
      BY <3>3, <3>6
  <2> HIDE DEF Reached
  <2> QED
    BY <2>1, <2>2, NaturalInduction
<1>2. ASSUME NEW a \in Nat, NEW b \in Nat, NEW g, NEW h,
             Follows(g, a, first, step), Follows(h, b, first, step)
      PROVE  \A n \in Nat : n <= a /\ n <= b => g[n] = h[n]
  <2> DEFINE Agree == {n \in Nat : n <= a /\ n <= b => g[n] = h[n]}
  <2>1. 0 \in Agree
    BY <1>2 DEF Follows
  <2>2. ASSUME NEW n \in Nat, n \in Agree
        PROVE  n + 1 \in Agree
    <3>1. ASSUME n + 1 <= a, n + 1 <= b
          PROVE  g[n + 1] = h[n + 1]
      <4>1. n \in 0..(a - 1) /\ n \in 0..(b - 1) /\ g[n] = h[n]
        BY <2>2, <3>1
      <4> QED
        BY <1>2, <4>1 DEF Follows
    <3> QED
      BY <3>1
  <2>3. Nat \subseteq Agree
    <3> HIDE DEF Agree
    <3> QED
      BY <2>1, <2>2, NaturalInduction
  <2> QED
    BY <2>3
<1> DEFINE Pre(n) == CHOOSE g \in [0..n -> S] : Follows(g, n, first, step)
           f == [n \in Nat |-> Pre(n)[n]]
<1>3. ASSUME NEW n \in Nat
      PROVE  Pre(n) \in [0..n -> S] /\ Follows(Pre(n), n, first, step)
  BY <1>1
<1>4. f \in [Nat -> S]
  <2>1. ASSUME NEW n \in Nat
        PROVE  Pre(n)[n] \in S
    <3> HIDE DEF Pre
    <3> QED
      BY <1>3
  <2> QED
    BY <2>1
<1>5. f[0] = first
  <2>1. Pre(0)[0] = first
    <3> HIDE DEF Pre
    <3> QED
      BY <1>3 DEF Follows
  <2> QED
    BY <2>1
<1>6. ASSUME NEW n \in Nat
      PROVE  f[n + 1] = step[<<f[n], n>>]
  <2> HIDE DEF Pre
  <2>1. n + 1 \in Nat /\ n \in 0..((n + 1) - 1)
    OBVIOUS
  <2>2. Pre(n + 1)[n + 1] = step[<<Pre(n + 1)[n], n>>]
    BY <1>3, <2>1 DEF Follows
  <2>3. Pre(n + 1)[n] = Pre(n)[n]
    BY <1>2, <1>3, <2>1
  <2> QED
    BY <2>1, <2>2, <2>3
<1> HIDE DEF f
<1>7. Unfolds(f, first, step)
  BY <1>5, <1>6 DEF Unfolds
<1> QED
  BY <1>4, <1>7
=============================================================================
