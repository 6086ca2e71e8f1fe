---------------------------- MODULE FormatProofs ----------------------------
(***************************************************************************)
(* Proofs about the conversions: an integer is read back from a byte       *)
(* stream as it was written, whatever its width, the base of a byte, the   *)
(* groups of a varint and the order of the bytes; Lookup takes a host      *)
(* apart as it was put together, and a prefix makes the addresses it       *)
(* promises, for addresses of any size; an HTTP message is received as it  *)
(* was sent, in whatever pieces it comes and for a buffer of any size.     *)
(***************************************************************************)
EXTENDS Encoding, Address, HttpReceive, SequenceTheorems, FiniteSetTheorems, WellFoundedInduction, TLAPS

-----------------------------------------------------------------------------
(* Numbers and recursion.                                                  *)

\* Induction, for a set of numbers: one that contains each number whose predecessors it
\* contains has all numbers.
LEMMA AllNumbers ==
    ASSUME NEW S, \A n \in Nat : (\A m \in 0 .. n - 1 : m \in S) => n \in S
    PROVE  Nat \subseteq S
<1> DEFINE R == {p \in Nat \X Nat : p[1] < p[2]}
           T == Nat \ S
<1>1. SUFFICES ASSUME T # {} PROVE FALSE
  OBVIOUS
<1>2. IsWellFoundedOn(R, Nat)
  BY NatLessThanWellFounded DEF OpToRel
<1>3. PICK n \in T : \A m \in T : <<m, n>> \notin R
  <2>1. T \subseteq Nat
    OBVIOUS
  <2> HIDE DEF T, R
  <2> QED BY <1>1, <1>2, <2>1, WFMin
<1>4. ASSUME NEW m \in 0 .. n - 1 PROVE m \in S
  <2>1. m \in Nat /\ m < n
    OBVIOUS
  <2>2. <<m, n>> \in R
    BY <2>1
  <2> QED BY <1>3, <2>1, <2>2
<1> QED BY <1>4

\* the steps of a recursion, which look only at what is computed for smaller numbers
Steps(T) == {step \in [[Nat -> T] \X Nat -> T] : \A g, h \in [Nat -> T], n \in Nat :
                (\A i \in 0 .. n - 1 : g[i] = h[i]) => step[<<g, n>>] = step[<<h, n>>]}

\* Such a step has a function.
LEMMA Recursion ==
    ASSUME NEW T, NEW a \in T, NEW step \in Steps(T)
    PROVE  \E f \in [Nat -> T] : \A n \in Nat : f[n] = step[<<f, n>>]
<1> DEFINE Good(g, n) == \A i \in 0 .. n - 1 : g[i] = step[<<g, i>>]
           S == {n \in Nat : \E g \in [Nat -> T] : Good(g, n)}
           U == {n \in Nat : \A g, h \in [Nat -> T] : Good(g, n + 1) /\ Good(h, n + 1) => g[n] = h[n]}
<1>0. ASSUME NEW g \in [Nat -> T], NEW h \in [Nat -> T], NEW n \in Nat,
             \A i \in 0 .. n - 1 : g[i] = h[i]
      PROVE  step[<<g, n>>] = step[<<h, n>>]
  BY <1>0 DEF Steps
<1>t. ASSUME NEW g \in [Nat -> T], NEW n \in Nat PROVE step[<<g, n>>] \in T
  BY DEF Steps
<1>1. ASSUME NEW n \in Nat, NEW m \in Nat, NEW g, m <= n, Good(g, n) PROVE Good(g, m)
  BY <1>1
<1>2. Nat \subseteq U
  <2>1. ASSUME NEW n \in Nat, \A m \in 0 .. n - 1 : m \in U
        PROVE  n \in U
    <3>1. SUFFICES ASSUME NEW g \in [Nat -> T], NEW h \in [Nat -> T], Good(g, n + 1), Good(h, n + 1)
                   PROVE  g[n] = h[n]
      OBVIOUS
    <3>2. ASSUME NEW i \in 0 .. n - 1 PROVE g[i] = h[i]
      <4>1. Good(g, i + 1) /\ Good(h, i + 1)
        BY <3>1
      <4> QED BY <2>1, <4>1
    <3>3. g[n] = step[<<g, n>>] /\ h[n] = step[<<h, n>>]
      BY <3>1
    <3>4. step[<<g, n>>] = step[<<h, n>>]
      <4> HIDE DEF Good
      <4> QED BY <1>0, <3>2
    <3> QED BY <3>3, <3>4
  <2> HIDE DEF U
  <2> QED BY <2>1, AllNumbers
<1>3. Nat \subseteq S
  <2>1. ASSUME NEW n \in Nat, \A m \in 0 .. n - 1 : m \in S
        PROVE  n \in S
    <3>1. CASE n = 0
      <4>1. [i \in Nat |-> a] \in [Nat -> T] /\ Good([i \in Nat |-> a], n)
        BY <3>1
      <4> QED BY <4>1
    <3>2. CASE n > 0
      <4>0. n - 1 \in Nat /\ n - 1 \in 0 .. n - 1
        BY <3>2
      <4>1. PICK g \in [Nat -> T] : Good(g, n - 1)
        <5>1. n - 1 \in S
          BY <2>1, <4>0
        <5> HIDE DEF Good
        <5> QED BY <5>1
      <4>2. PICK h : h = [g EXCEPT ![n - 1] = step[<<g, n - 1>>]]
        OBVIOUS
      <4>3. h \in [Nat -> T] /\ h[n - 1] = step[<<g, n - 1>>]
        BY <1>t, <4>0, <4>2
      <4>4. \A i \in Nat : i # n - 1 => h[i] = g[i]
        BY <4>2
      <4>5. \A i \in 0 .. (n - 1) - 1 : i \in Nat /\ i # n - 1 /\ 0 .. i - 1 \subseteq 0 .. (n - 1) - 1
        BY <3>2
      <4>6. h[n - 1] = step[<<h, n - 1>>]
        <5>1. \A i \in 0 .. (n - 1) - 1 : g[i] = h[i]
          BY <4>4, <4>5
        <5>2. step[<<g, n - 1>>] = step[<<h, n - 1>>]
          BY <1>0, <4>0, <4>3, <5>1
        <5> QED BY <4>3, <5>2
      <4>7. ASSUME NEW i \in 0 .. (n - 1) - 1 PROVE h[i] = step[<<h, i>>]
        <5>1. i \in Nat /\ \A j \in 0 .. i - 1 : g[j] = h[j]
          BY <4>4, <4>5
        <5>2. step[<<g, i>>] = step[<<h, i>>]
          BY <1>0, <4>3, <5>1
        <5>3. g[i] = step[<<g, i>>]
          BY <4>1
        <5>4. h[i] = g[i]
          BY <4>4, <4>5
        <5> QED BY <5>2, <5>3, <5>4
      <4>8. \A i \in 0 .. n - 1 : i \in 0 .. (n - 1) - 1 \/ i = n - 1
        BY <3>2
      <4>9. Good(h, n)
        BY <4>6, <4>7, <4>8
      <4> HIDE DEF Good
      <4>10. \E k \in [Nat -> T] : Good(k, n)
        BY <4>3, <4>9
      <4> QED BY <4>10
    <3>3. n = 0 \/ n > 0
      OBVIOUS
    <3> HIDE DEF S
    <3> QED BY <3>1, <3>2, <3>3
  <2> HIDE DEF S
  <2> QED BY <2>1, AllNumbers
<1>4. ASSUME NEW n \in Nat PROVE \E g \in [Nat -> T] : Good(g, n + 1)
  <2>1. n + 1 \in S
    <3> HIDE DEF S
    <3> QED BY <1>3
  <2> HIDE DEF Good
  <2> QED BY <2>1
<1>5. PICK c : c = [n \in Nat |-> CHOOSE g \in [Nat -> T] : Good(g, n + 1)]
  OBVIOUS
<1>6. ASSUME NEW n \in Nat PROVE c[n] \in [Nat -> T] /\ Good(c[n], n + 1)
  <2> HIDE DEF Good
  <2> QED BY <1>4, <1>5
<1>7. PICK f : f = [n \in Nat |-> c[n][n]]
  OBVIOUS
<1>8. f \in [Nat -> T] /\ \A n \in Nat : f[n] = c[n][n]
  <2>1. \A n \in Nat : c[n] \in [Nat -> T]
    BY <1>6
  <2> QED BY <1>7, <2>1
<1>9. ASSUME NEW n \in Nat PROVE f[n] = step[<<f, n>>]
  <2>1. ASSUME NEW i \in 0 .. n - 1 PROVE f[i] = c[n][i]
    <3>1. i \in Nat /\ i + 1 \in Nat /\ n + 1 \in Nat /\ i + 1 <= n + 1
      OBVIOUS
    <3>2. c[n] \in [Nat -> T] /\ c[i] \in [Nat -> T]
      BY <1>6, <3>1
    <3>3. Good(c[i], i + 1) /\ Good(c[n], i + 1)
      <4> HIDE DEF Good
      <4>1. Good(c[n], n + 1) /\ Good(c[i], i + 1)
        BY <1>6, <3>1
      <4> QED BY <1>1, <3>1, <4>1
    <3>4. i \in U
      <4> HIDE DEF U
      <4> QED BY <1>2, <3>1
    <3>5. c[i][i] = c[n][i]
      <4> HIDE DEF Good
      <4> QED BY <3>2, <3>3, <3>4
    <3> QED BY <1>8, <3>1, <3>5
  <2>2. c[n] \in [Nat -> T] /\ Good(c[n], n + 1)
    BY <1>6
  <2>3. c[n][n] = step[<<c[n], n>>]
    <3>1. n \in 0 .. (n + 1) - 1
      OBVIOUS
    <3>2. ASSUME NEW g, Good(g, n + 1) PROVE g[n] = step[<<g, n>>]
      BY <3>1, <3>2
    <3> QED BY <2>2, <3>2
  <2>4. step[<<f, n>>] = step[<<c[n], n>>]
    <3> HIDE DEF Good
    <3> QED BY <1>0, <1>8, <2>1, <2>2
  <2> QED BY <1>8, <2>3, <2>4
<1> QED BY <1>8, <1>9

\* A set of numbers has a smallest one.
LEMMA Smallest ==
    ASSUME NEW I \in SUBSET Nat, I # {}
    PROVE  \E i \in I : \A j \in I : i <= j
<1>1. SUFFICES ASSUME ~ \E i \in I : \A j \in I : i <= j PROVE FALSE
  OBVIOUS
<1> DEFINE S == Nat \ I
<1>2. ASSUME NEW n \in Nat, \A m \in 0 .. n - 1 : m \in S PROVE n \in S
  BY <1>1, <1>2
<1>3. Nat \subseteq S
  <2> HIDE DEF S
  <2> QED BY <1>2, AllNumbers
<1> QED BY <1>3

\* the steps that depend on their number, up to the Nth
Turns(T, N) == [T \X (1 .. N) -> T]

\* A step taken N times from a beginning.
LEMMA Folded ==
    ASSUME NEW T, NEW a \in T, NEW N \in Nat, NEW next \in Turns(T, N)
    PROVE  \E f \in [0 .. N -> T] : f[0] = a /\ \A k \in 1 .. N : f[k] = next[<<f[k - 1], k>>]
<1> DEFINE step == [p \in [Nat -> T] \X Nat |->
                       IF p[2] \in 1 .. N THEN next[<<p[1][p[2] - 1], p[2]>>] ELSE a]
<1>1. ASSUME NEW g \in [Nat -> T], NEW n \in Nat
      PROVE  /\ step[<<g, n>>] = IF n \in 1 .. N THEN next[<<g[n - 1], n>>] ELSE a
             /\ step[<<g, n>>] \in T
  <2>1. step[<<g, n>>] = IF n \in 1 .. N THEN next[<<g[n - 1], n>>] ELSE a
    OBVIOUS
  <2>2. n \in 1 .. N => g[n - 1] \in T
    OBVIOUS
  <2>3. next \in [T \X (1 .. N) -> T]
    BY DEF Turns
  <2> HIDE DEF step
  <2> QED BY <2>1, <2>2, <2>3
<1>2. step \in [[Nat -> T] \X Nat -> T]
  <2>1. \A p \in [Nat -> T] \X Nat : (IF p[2] \in 1 .. N THEN next[<<p[1][p[2] - 1], p[2]>>] ELSE a) \in T
    <3> SUFFICES ASSUME NEW p \in [Nat -> T] \X Nat, p[2] \in 1 .. N
                 PROVE  next[<<p[1][p[2] - 1], p[2]>>] \in T
      OBVIOUS
    <3>1. PICK g \in [Nat -> T] : g = p[1]
      OBVIOUS
    <3>2. PICK n \in 1 .. N : n = p[2]
      OBVIOUS
    <3>3. n - 1 \in Nat
      OBVIOUS
    <3>4. g[n - 1] \in T
      BY <3>3
    <3>5. next \in [T \X (1 .. N) -> T]
      BY DEF Turns
    <3> QED BY <3>1, <3>2, <3>4, <3>5
  <2> QED BY <2>1
<1>3. step \in Steps(T)
  <2>1. ASSUME NEW g \in [Nat -> T], NEW h \in [Nat -> T], NEW n \in Nat, \A i \in 0 .. n - 1 : g[i] = h[i]
        PROVE  step[<<g, n>>] = step[<<h, n>>]
    <3>1. n \in 1 .. N => g[n - 1] = h[n - 1]
      BY <2>1
    <3> HIDE DEF step
    <3> QED BY <1>1, <3>1
  <2> HIDE DEF step
  <2> QED BY <1>2, <2>1 DEF Steps
<1>4. PICK f \in [Nat -> T] : \A n \in Nat : f[n] = step[<<f, n>>]
  <2> HIDE DEF step
  <2> QED BY <1>3, Recursion
<1>5. PICK g : g = [n \in 0 .. N |-> f[n]]
  OBVIOUS
<1>6. \A k \in 0 .. N : f[k] = IF k = 0 THEN a ELSE next[<<g[k - 1], k>>]
  <2> SUFFICES ASSUME NEW k \in 0 .. N PROVE f[k] = IF k = 0 THEN a ELSE next[<<g[k - 1], k>>]
    OBVIOUS
  <2>1. k \in Nat /\ (k # 0 => k \in 1 .. N /\ k - 1 \in 0 .. N)
    OBVIOUS
  <2>2. f[k] = IF k \in 1 .. N THEN next[<<f[k - 1], k>>] ELSE a
    <3> HIDE DEF step
    <3> QED BY <1>1, <1>4, <2>1
  <2>3. k # 0 => g[k - 1] = f[k - 1]
    BY <1>5, <2>1
  <2> QED BY <2>1, <2>2, <2>3
<1>7. g[0] = a /\ \A k \in 1 .. N : g[k] = next[<<g[k - 1], k>>]
  <2>1. 0 \in 0 .. N /\ \A k \in 1 .. N : k \in 0 .. N /\ k # 0
    OBVIOUS
  <2> QED BY <1>5, <1>6, <2>1
<1>8. g \in [0 .. N -> T]
  BY <1>4, <1>5
<1> QED BY <1>7, <1>8

-----------------------------------------------------------------------------
(* Division.                                                               *)

\* Quotient and remainder.
LEMMA Division ==
    ASSUME NEW b \in Nat \ {0}, NEW n \in Int
    PROVE  /\ n \div b \in Int /\ n % b \in 0 .. b - 1
           /\ n = b * (n \div b) + (n % b)
OBVIOUS

\* A product that exceeds a multiple of b by less than b is not of a larger factor.
LEMMA Products ==
    ASSUME NEW b \in Nat \ {0}, NEW q \in Int, NEW p \in Int, NEW r \in 0 .. b - 1, b * q <= b * p + r
    PROVE  q <= p
<1>1. SUFFICES ASSUME p + 1 <= q PROVE FALSE
  OBVIOUS
<1>2. b * (p + 1) <= b * q
  BY <1>1
<1>3. b * (p + 1) = b * p + b
  OBVIOUS
<1> QED BY <1>2, <1>3

\* They are the only ones.
LEMMA Divided ==
    ASSUME NEW b \in Nat \ {0}, NEW q \in Int, NEW r \in 0 .. b - 1
    PROVE  (b * q + r) \div b = q /\ (b * q + r) % b = r
<1>1. PICK n \in Int : n = b * q + r
  OBVIOUS
<1>2. PICK p \in Int : p = n \div b
  BY Division
<1>3. PICK s \in 0 .. b - 1 : s = n % b
  BY Division
<1>4. n = b * p + s
  BY <1>2, <1>3, Division
<1>5. q <= p /\ p <= q
  BY <1>1, <1>4, Products
<1>6. p = q
  BY <1>5
<1>7. s = r
  BY <1>1, <1>4, <1>6
<1> QED BY <1>1, <1>2, <1>3, <1>6, <1>7

\* What is below the modulus is its own remainder.
LEMMA Small ==
    ASSUME NEW b \in Nat \ {0}, NEW r \in 0 .. b - 1
    PROVE  r % b = r /\ r \div b = 0
<1>1. b * 0 + r = r
  OBVIOUS
<1>2. (b * 0 + r) \div b = 0 /\ (b * 0 + r) % b = r
  BY Divided
<1> QED BY <1>1, <1>2

\* The quotient of a natural number.
LEMMA QuotientNat ==
    ASSUME NEW b \in Nat \ {0}, NEW n \in Nat
    PROVE  n \div b \in Nat /\ n % b \in Nat /\ b * (n \div b) <= n
<1>1. PICK q \in Int : q = n \div b
  BY Division
<1>2. PICK r \in 0 .. b - 1 : r = n % b
  BY Division
<1>3. n = b * q + r
  BY <1>1, <1>2, Division
<1>4. q >= 0
  <2>1. b * 0 <= b * q + r
    BY <1>3
  <2> QED BY <2>1, Products
<1> QED BY <1>1, <1>2, <1>3, <1>4

\* To divide twice is to divide by the product, and the digit between two powers.
LEMMA DividedTwice ==
    ASSUME NEW a \in Nat \ {0}, NEW b \in Nat \ {0}, NEW n \in Nat
    PROVE  /\ a * b \in Nat \ {0}
           /\ (n \div a) \div b = n \div (a * b)
           /\ n % (a * b) = a * ((n \div a) % b) + (n % a)
<1>0. a * b \in Nat \ {0}
  OBVIOUS
<1>1. PICK q \in Nat : q = n \div a
  BY QuotientNat
<1>2. PICK r \in 0 .. a - 1 : r = n % a
  BY Division
<1>3. PICK p \in Nat : p = q \div b
  BY QuotientNat
<1>4. PICK s \in 0 .. b - 1 : s = q % b
  BY Division
<1>5. n = a * q + r /\ q = b * p + s
  <2>1. n = a * (n \div a) + (n % a) /\ q = b * (q \div b) + (q % b)
    BY Division
  <2> QED BY <1>1, <1>2, <1>3, <1>4, <2>1
<1>6. PICK c \in Nat \ {0} : c = a * b
  BY <1>0
<1>7. PICK t \in Nat : t = a * s + r
  OBVIOUS
<1>8. t <= c - 1
  <2>1. a * s <= a * (b - 1)
    OBVIOUS
  <2>2. a * (b - 1) = c - a
    BY <1>6
  <2> QED BY <1>7, <2>1, <2>2
<1>9. n = c * p + t
  <2>1. a * q = a * (b * p) + a * s
    BY <1>5
  <2>2. a * (b * p) = c * p
    BY <1>6
  <2> QED BY <1>5, <1>7, <2>1, <2>2
<1>10. n \div c = p /\ n % c = t
  <2>1. t \in 0 .. c - 1
    BY <1>8
  <2> QED BY <1>9, <2>1, Divided
<1> QED BY <1>0, <1>1, <1>2, <1>3, <1>4, <1>6, <1>7, <1>10

-----------------------------------------------------------------------------
(* Powers.                                                                 *)

\* The powers of a base are what their definition says.
LEMMA Powers ==
    ASSUME NEW b \in Nat \ {0}
    PROVE  /\ Power(b) \in [Nat -> Nat \ {0}]
           /\ Power(b)[0] = 1
           /\ \A n \in Nat : Power(b)[n + 1] = b * Power(b)[n]
<1> DEFINE T == Nat \ {0}
           step == [p \in [Nat -> T] \X Nat |-> IF p[2] = 0 THEN 1 ELSE b * p[1][p[2] - 1]]
<1>1. step \in [[Nat -> T] \X Nat -> T]
  <2>1. ASSUME NEW g \in [Nat -> T], NEW n \in Nat
        PROVE  (IF n = 0 THEN 1 ELSE b * g[n - 1]) \in T
    OBVIOUS
  <2> QED BY <2>1
<1>2. ASSUME NEW g \in [Nat -> T], NEW n \in Nat
      PROVE  step[<<g, n>>] = IF n = 0 THEN 1 ELSE b * g[n - 1]
  OBVIOUS
<1>3. ASSUME NEW g \in [Nat -> T], NEW h \in [Nat -> T], NEW n \in Nat, \A i \in 0 .. n - 1 : g[i] = h[i]
      PROVE  step[<<g, n>>] = step[<<h, n>>]
  <2>1. n # 0 => g[n - 1] = h[n - 1]
    BY <1>3
  <2> HIDE DEF step
  <2> QED BY <1>2, <2>1
<1>4. PICK f \in [Nat -> T] : \A n \in Nat : f[n] = step[<<f, n>>]
  <2>1. 1 \in T
    OBVIOUS
  <2>2. \A g, h \in [Nat -> T], n \in Nat :
           (\A i \in 0 .. n - 1 : g[i] = h[i]) => step[<<g, n>>] = step[<<h, n>>]
    <3> HIDE DEF step, T
    <3> QED BY <1>3
  <2>3. step \in Steps(T)
    <3> HIDE DEF step, T
    <3> QED BY <1>1, <2>2 DEF Steps
  <2> HIDE DEF step, T
  <2> QED BY <2>1, <2>3, Recursion
<1>5. f = [n \in Nat |-> IF n = 0 THEN 1 ELSE b * f[n - 1]]
  <2>1. \A n \in Nat : f[n] = IF n = 0 THEN 1 ELSE b * f[n - 1]
    <3> HIDE DEF step
    <3> QED BY <1>2, <1>4
  <2> QED BY <2>1
<1>6. Power(b) = [n \in Nat |-> IF n = 0 THEN 1 ELSE b * Power(b)[n - 1]]
  BY <1>5, Zenon DEF Power
<1>7. PICK p : p = Power(b)
  OBVIOUS
<1>8. p = [n \in Nat |-> IF n = 0 THEN 1 ELSE b * p[n - 1]]
  BY <1>6, <1>7
<1>9. p[0] = 1 /\ \A n \in Nat : p[n + 1] = b * p[n]
  <2>1. \A n \in Nat : p[n] = IF n = 0 THEN 1 ELSE b * p[n - 1]
    BY <1>8
  <2> QED BY <2>1
<1>10. \A n \in Nat : p[n] \in T
  <2> DEFINE S == {n \in Nat : p[n] \in T}
  <2>1. ASSUME NEW n \in Nat, \A m \in 0 .. n - 1 : m \in S PROVE n \in S
    <3>1. CASE n = 0
      BY <1>9, <3>1
    <3>2. CASE n > 0
      <4>1. n - 1 \in 0 .. n - 1 /\ n - 1 \in Nat /\ (n - 1) + 1 = n
        BY <3>2
      <4>2. p[n - 1] \in T /\ p[n] = b * p[n - 1]
        BY <1>9, <2>1, <4>1
      <4> QED BY <4>2
    <3> QED BY <3>1, <3>2
  <2> HIDE DEF S
  <2>2. Nat \subseteq S
    BY <2>1, AllNumbers
  <2> QED BY <2>2 DEF S
<1> QED BY <1>7, <1>8, <1>9, <1>10

-----------------------------------------------------------------------------
(* Sums.                                                                   *)

\* The sum of a sequence is its last partial sum.
LEMMA Totals ==
    ASSUME NEW N \in Nat, NEW term \in [1 .. N -> Nat]
    PROVE  \E sum \in [0 .. N -> Nat] :
              /\ sum[0] = 0 /\ \A n \in 1 .. N : sum[n] = sum[n - 1] + term[n]
              /\ Total(term) = sum[N]
<1> DEFINE more == [n \in Nat |-> IF n \in 1 .. N THEN term[n] ELSE 0]
           step == [p \in [Nat -> Nat] \X Nat |-> IF p[2] = 0 THEN 0 ELSE p[1][p[2] - 1] + more[p[2]]]
<1>0. more \in [Nat -> Nat]
  OBVIOUS
<1>1. step \in [[Nat -> Nat] \X Nat -> Nat]
  <2>1. ASSUME NEW g \in [Nat -> Nat], NEW n \in Nat
        PROVE  (IF n = 0 THEN 0 ELSE g[n - 1] + more[n]) \in Nat
    <3>1. more[n] \in Nat
      <4> HIDE DEF more
      <4> QED BY <1>0
    <3>2. n # 0 => g[n - 1] \in Nat
      OBVIOUS
    <3>3. \A x, y \in Nat : x + y \in Nat
      OBVIOUS
    <3>4. n # 0 => g[n - 1] + more[n] \in Nat
      <4> HIDE DEF more
      <4> QED BY <3>1, <3>2, <3>3
    <3> HIDE DEF more
    <3> QED BY <3>4
  <2> HIDE DEF more
  <2> QED BY <2>1
<1>2. ASSUME NEW g \in [Nat -> Nat], NEW n \in Nat
      PROVE  step[<<g, n>>] = IF n = 0 THEN 0 ELSE g[n - 1] + more[n]
  <2> HIDE DEF more
  <2> QED OBVIOUS
<1>3. step \in Steps(Nat)
  <2>1. ASSUME NEW g \in [Nat -> Nat], NEW h \in [Nat -> Nat], NEW n \in Nat, \A i \in 0 .. n - 1 : g[i] = h[i]
        PROVE  step[<<g, n>>] = step[<<h, n>>]
    <3>1. n # 0 => g[n - 1] = h[n - 1]
      BY <2>1
    <3> HIDE DEF step, more
    <3> QED BY <1>2, <3>1
  <2> HIDE DEF step
  <2> QED BY <1>1, <2>1 DEF Steps
<1>4. PICK f \in [Nat -> Nat] : \A n \in Nat : f[n] = step[<<f, n>>]
  <2> HIDE DEF step
  <2> QED BY <1>3, Recursion
<1>5. \A n \in Nat : f[n] = IF n = 0 THEN 0 ELSE f[n - 1] + more[n]
  <2> HIDE DEF step, more
  <2> QED BY <1>2, <1>4
<1>6. PICK g : g = [n \in 0 .. N |-> f[n]]
  OBVIOUS
<1>7. g = [n \in 0 .. N |-> IF n = 0 THEN 0 ELSE g[n - 1] + term[n]]
  <2>1. \A n \in 0 .. N : f[n] = IF n = 0 THEN 0 ELSE g[n - 1] + term[n]
    <3> SUFFICES ASSUME NEW n \in 0 .. N, n # 0 PROVE f[n] = g[n - 1] + term[n]
      BY <1>5
    <3>1. n \in Nat /\ n \in 1 .. N /\ n - 1 \in 0 .. N
      OBVIOUS
    <3>2. more[n] = term[n] /\ g[n - 1] = f[n - 1]
      BY <1>6, <3>1
    <3> HIDE DEF more
    <3> QED BY <1>5, <3>1, <3>2
  <2> QED BY <1>6, <2>1
<1>8. Len(term) = N
  OBVIOUS
<1>9. PICK sum : /\ sum = [n \in 0 .. N |-> IF n = 0 THEN 0 ELSE sum[n - 1] + term[n]]
                 /\ Total(term) = sum[N]
  <2> DEFINE Sum == CHOOSE sum : sum = [n \in 0 .. N |-> IF n = 0 THEN 0 ELSE sum[n - 1] + term[n]]
  <2>1. Sum = [n \in 0 .. N |-> IF n = 0 THEN 0 ELSE Sum[n - 1] + term[n]]
    BY <1>7, Zenon
  <2>2. Total(term) = Sum[N]
    BY <1>8, Zenon DEF Total
  <2> HIDE DEF Sum
  <2> QED BY <2>1, <2>2
<1>10. sum[0] = 0 /\ \A n \in 1 .. N : sum[n] = sum[n - 1] + term[n]
  <2>1. \A n \in 0 .. N : sum[n] = IF n = 0 THEN 0 ELSE sum[n - 1] + term[n]
    <3>1. sum = [n \in 0 .. N |-> IF n = 0 THEN 0 ELSE sum[n - 1] + term[n]]
      BY <1>9
    <3> QED BY <3>1, Zenon
  <2>2. 0 \in 0 .. N /\ \A n \in 1 .. N : n \in 0 .. N /\ n # 0
    OBVIOUS
  <2> QED BY <2>1, <2>2
<1>11. \A n \in 0 .. N : sum[n] \in Nat
  <2> DEFINE S == {n \in Nat : n \in 0 .. N => sum[n] \in Nat}
  <2>1. ASSUME NEW n \in Nat, \A m \in 0 .. n - 1 : m \in S PROVE n \in S
    <3>1. SUFFICES ASSUME n \in 0 .. N PROVE sum[n] \in Nat
      OBVIOUS
    <3>2. CASE n = 0
      BY <1>10, <3>2
    <3>3. CASE n > 0
      <4>1. n - 1 \in 0 .. n - 1 /\ n - 1 \in 0 .. N /\ n \in 1 .. N
        BY <3>1, <3>3
      <4>2. n - 1 \in S
        BY <2>1, <4>1
      <4>3. sum[n - 1] \in Nat /\ term[n] \in Nat
        BY <4>1, <4>2
      <4>4. sum[n] = sum[n - 1] + term[n]
        BY <1>10, <4>1
      <4>5. \A x, y \in Nat : x + y \in Nat
        OBVIOUS
      <4>6. sum[n] \in Nat
        BY <4>3, <4>4, <4>5
      <4> QED BY <4>6
    <3> QED BY <3>2, <3>3
  <2> HIDE DEF S
  <2>2. Nat \subseteq S
    BY <2>1, AllNumbers
  <2>3. 0 .. N \subseteq Nat
    OBVIOUS
  <2> QED BY <2>2, <2>3 DEF S
<1>12. sum \in [0 .. N -> Nat]
  BY <1>9, <1>11
<1> QED BY <1>9, <1>10, <1>12

\* A smaller power, times the base, divides a greater one.
LEMMA PowerDivides ==
    ASSUME NEW b \in Nat \ {0}, NEW k \in Nat, NEW n \in Nat, k < n
    PROVE  \E c \in Nat : Power(b)[n] = (Power(b)[k] * b) * c
<1>1. PICK P \in [Nat -> Nat \ {0}] : P = Power(b) /\ P[0] = 1 /\ \A m \in Nat : P[m + 1] = b * P[m]
  BY Powers
<1> DEFINE S == {m \in Nat : k < m => \E c \in Nat : P[m] = (P[k] * b) * c}
<1>2. ASSUME NEW m \in Nat, \A i \in 0 .. m - 1 : i \in S PROVE m \in S
  <2>1. SUFFICES ASSUME k < m PROVE \E c \in Nat : P[m] = (P[k] * b) * c
    OBVIOUS
  <2>2. m - 1 \in 0 .. m - 1 /\ m - 1 \in Nat /\ (m - 1) + 1 = m
    BY <2>1
  <2>3. P[m] = b * P[m - 1]
    BY <1>1, <2>2
  <2>4. PICK p \in Nat \ {0} : p = P[k]
    BY <1>1
  <2>5. CASE k = m - 1
    <3>1. b * p = (p * b) * 1
      OBVIOUS
    <3> QED BY <2>3, <2>4, <2>5, <3>1
  <2>6. CASE k < m - 1
    <3>1. m - 1 \in S
      BY <1>2, <2>2
    <3>2. PICK c \in Nat : P[m - 1] = (P[k] * b) * c
      BY <2>6, <3>1
    <3>3. b * ((p * b) * c) = (p * b) * (b * c) /\ b * c \in Nat
      OBVIOUS
    <3> QED BY <2>3, <2>4, <3>2, <3>3
  <2> QED BY <2>1, <2>2, <2>5, <2>6
<1>3. n \in S
  <2> HIDE DEF S
  <2>1. Nat \subseteq S
    BY <1>2, AllNumbers
  <2> QED BY <2>1
<1> QED BY <1>1, <1>3

\* Multiples of the power above a digit do not change it.
LEMMA DigitBelow ==
    ASSUME NEW p \in Nat \ {0}, NEW b \in Nat \ {0}, NEW x \in Nat, NEW n \in Nat,
           \E e \in Nat : n = p * (b * e) + x
    PROVE  (n \div p) % b = (x \div p) % b
<1>0. PICK e \in Nat : n = p * (b * e) + x
  OBVIOUS
<1>1. PICK q \in Nat : q = x \div p
  BY QuotientNat
<1>2. PICK r \in 0 .. p - 1 : r = x % p
  BY Division
<1>3. x = p * q + r
  <2>1. x = p * (x \div p) + (x % p)
    BY Division
  <2> QED BY <1>1, <1>2, <2>1
<1>4. p * (b * e) + x = p * (b * e + q) + r
  <2>1. PICK f \in Nat : f = b * e
    OBVIOUS
  <2>2. p * f + (p * q + r) = p * (f + q) + r
    OBVIOUS
  <2> QED BY <1>3, <2>1, <2>2
<1>5. b * e + q \in Int
  OBVIOUS
<1>6. (p * (b * e + q) + r) \div p = b * e + q
  BY <1>5, Divided
<1>7. PICK d \in 0 .. b - 1 : d = q % b
  BY Division
<1>8. PICK g \in Int : g = q \div b
  BY Division
<1>9. q = b * g + d
  <2>1. q = b * (q \div b) + (q % b)
    BY Division
  <2> QED BY <1>7, <1>8, <2>1
<1>10. b * e + q = b * (e + g) + d
  BY <1>9
<1>11. (b * (e + g) + d) % b = d
  BY Divided
<1> QED BY <1>0, <1>1, <1>4, <1>6, <1>7, <1>10, <1>11

-----------------------------------------------------------------------------
(* Digits.                                                                 *)

\* The digits of a number, with their powers, add up to it.
LEMMA DigitsSum ==
    ASSUME NEW b \in Nat \ {0}, NEW v \in Nat, NEW N \in Nat
    PROVE  Total([k \in 1 .. N |-> ((v \div Power(b)[k - 1]) % b) * Power(b)[k - 1]]) = v % Power(b)[N]
<1>1. PICK P \in [Nat -> Nat \ {0}] : P = Power(b) /\ P[0] = 1 /\ \A n \in Nat : P[n + 1] = b * P[n]
  BY Powers
<1>2. PICK term : term = [k \in 1 .. N |-> ((v \div P[k - 1]) % b) * P[k - 1]]
  OBVIOUS
<1>3. ASSUME NEW k \in 1 .. N
      PROVE  P[k - 1] \in Nat \ {0} /\ (v \div P[k - 1]) % b \in Nat /\ term[k] = ((v \div P[k - 1]) % b) * P[k - 1]
  <2>1. P[k - 1] \in Nat \ {0}
    BY <1>1
  <2>2. v \div P[k - 1] \in Nat
    BY <2>1, QuotientNat
  <2>3. (v \div P[k - 1]) % b \in Nat
    BY <2>2, QuotientNat
  <2> QED BY <1>2, <2>1, <2>3
<1>4. term \in [1 .. N -> Nat]
  <2>1. \A x, y \in Nat : x * y \in Nat
    OBVIOUS
  <2>2. \A k \in 1 .. N : term[k] \in Nat
    BY <1>3, <2>1
  <2> QED BY <1>2, <2>2
<1>5. PICK sum \in [0 .. N -> Nat] :
         /\ sum[0] = 0 /\ \A n \in 1 .. N : sum[n] = sum[n - 1] + term[n]
         /\ Total(term) = sum[N]
  BY <1>4, Totals
<1> DEFINE S == {n \in Nat : n \in 0 .. N => sum[n] = v % P[n]}
<1>6. ASSUME NEW n \in Nat, \A m \in 0 .. n - 1 : m \in S PROVE n \in S
  <2>1. SUFFICES ASSUME n \in 0 .. N PROVE sum[n] = v % P[n]
    OBVIOUS
  <2>2. CASE n = 0
    <3>1. v % 1 = 0
      BY Division
    <3> QED BY <1>1, <1>5, <2>2, <3>1
  <2>3. CASE n > 0
    <3>1. n - 1 \in 0 .. n - 1 /\ n - 1 \in 0 .. N /\ n \in 1 .. N /\ n - 1 \in Nat /\ (n - 1) + 1 = n
      BY <2>1, <2>3
    <3>2. n - 1 \in S
      BY <1>6, <3>1
    <3>3. sum[n - 1] = v % P[n - 1]
      BY <3>1, <3>2
    <3>4. sum[n] = sum[n - 1] + term[n]
      BY <1>5, <3>1
    <3>5. P[n] = b * P[n - 1]
      BY <1>1, <3>1
    <3>6. PICK a \in Nat \ {0} : a = P[n - 1]
      BY <1>1, <3>1
    <3>7. v % (a * b) = a * ((v \div a) % b) + (v % a)
      BY DividedTwice
    <3>8. term[n] = ((v \div a) % b) * a
      BY <1>3, <3>1, <3>6
    <3>9. (v \div a) % b \in Nat /\ v % a \in Nat
      <4>1. v \div a \in Nat /\ v % a \in Nat
        BY QuotientNat
      <4> QED BY <4>1, QuotientNat
    <3>10. \A x, y \in Nat : x * a + y = y + a * x
      OBVIOUS
    <3>11. a * b = b * a
      OBVIOUS
    <3>12. sum[n] = (v % a) + ((v \div a) % b) * a
      BY <3>3, <3>4, <3>6, <3>8
    <3>13. \A x, y \in Nat : y + x * a = a * x + y
      OBVIOUS
    <3>14. sum[n] = a * ((v \div a) % b) + (v % a)
      BY <3>9, <3>12, <3>13
    <3> QED BY <3>5, <3>6, <3>7, <3>11, <3>14
  <2>4. n = 0 \/ n > 0
    OBVIOUS
  <2> QED BY <2>2, <2>3, <2>4
<1>7. N \in S
  <2> HIDE DEF S
  <2>1. Nat \subseteq S
    BY <1>6, AllNumbers
  <2> QED BY <2>1
<1>8. Total(term) = v % P[N]
  BY <1>5, <1>7
<1> QED BY <1>1, <1>2, <1>8

\* The number that digits add up to has them.
LEMMA SumDigits ==
    ASSUME NEW b \in Nat \ {0}, NEW N \in Nat, NEW t \in [1 .. N -> 0 .. b - 1]
    PROVE  \E s \in 0 .. Power(b)[N] - 1 :
              /\ Total([k \in 1 .. N |-> t[k] * Power(b)[k - 1]]) = s
              /\ \A k \in 1 .. N : (s \div Power(b)[k - 1]) % b = t[k]
<1>1. PICK P \in [Nat -> Nat \ {0}] : P = Power(b) /\ P[0] = 1 /\ \A n \in Nat : P[n + 1] = b * P[n]
  BY Powers
<1>2. PICK term : term = [k \in 1 .. N |-> t[k] * P[k - 1]]
  OBVIOUS
<1>3. ASSUME NEW k \in 1 .. N
      PROVE  P[k - 1] \in Nat \ {0} /\ t[k] \in 0 .. b - 1 /\ t[k] \in Nat /\ term[k] = t[k] * P[k - 1]
  <2>1. k - 1 \in Nat /\ 0 .. b - 1 \subseteq Nat
    OBVIOUS
  <2>2. P[k - 1] \in Nat \ {0}
    BY <1>1, <2>1
  <2>3. t[k] \in 0 .. b - 1
    OBVIOUS
  <2>4. term[k] = t[k] * P[k - 1]
    BY <1>2
  <2> QED BY <2>1, <2>2, <2>3, <2>4
<1>4. term \in [1 .. N -> Nat]
  <2>1. \A x, y \in Nat : x * y \in Nat
    OBVIOUS
  <2>2. \A k \in 1 .. N : term[k] \in Nat
    BY <1>3, <2>1
  <2> QED BY <1>2, <2>2
<1>5. PICK sum \in [0 .. N -> Nat] :
         /\ sum[0] = 0 /\ \A n \in 1 .. N : sum[n] = sum[n - 1] + term[n]
         /\ Total(term) = sum[N]
  BY <1>4, Totals
<1> DEFINE S == {n \in Nat : n \in 0 .. N => /\ sum[n] \in 0 .. P[n] - 1
                                            /\ \A k \in 1 .. n : (sum[n] \div P[k - 1]) % b = t[k]}
<1>6. ASSUME NEW n \in Nat, \A m \in 0 .. n - 1 : m \in S PROVE n \in S
  <2>1. SUFFICES ASSUME n \in 0 .. N
                 PROVE  /\ sum[n] \in 0 .. P[n] - 1
                        /\ \A k \in 1 .. n : (sum[n] \div P[k - 1]) % b = t[k]
    OBVIOUS
  <2>2. CASE n = 0
    BY <1>1, <1>5, <2>2
  <2>3. CASE n > 0
    <3>1. n - 1 \in 0 .. n - 1 /\ n - 1 \in 0 .. N /\ n \in 1 .. N /\ n - 1 \in Nat /\ (n - 1) + 1 = n
      BY <2>1, <2>3
    <3>2. n - 1 \in S
      BY <1>6, <3>1
    <3>3. sum[n - 1] \in 0 .. P[n - 1] - 1 /\ \A k \in 1 .. n - 1 : (sum[n - 1] \div P[k - 1]) % b = t[k]
      BY <3>1, <3>2
    <3>4. PICK a \in Nat \ {0} : a = P[n - 1]
      BY <1>1, <3>1
    <3>5. PICK x \in 0 .. a - 1 : x = sum[n - 1]
      BY <3>3, <3>4
    <3>6. PICK d \in 0 .. b - 1 : d = t[n]
      BY <1>3, <3>1
    <3>7. sum[n] = d * a + x
      <4>1. sum[n] = sum[n - 1] + term[n] /\ term[n] = t[n] * P[n - 1]
        BY <1>3, <1>5, <3>1
      <4>2. sum[n] = x + d * a
        BY <3>4, <3>5, <3>6, <4>1
      <4> QED BY <4>2
    <3>8. P[n] = b * a
      BY <1>1, <3>1, <3>4
    <3>9. sum[n] \in 0 .. P[n] - 1
      <4>1. PICK e \in Nat : e = d * a
        OBVIOUS
      <4>2. PICK f \in Nat : f = b * a
        OBVIOUS
      <4>3. d * a <= (b - 1) * a /\ (b - 1) * a = b * a - a
        OBVIOUS
      <4>4. e <= f - a
        BY <4>1, <4>2, <4>3
      <4>5. sum[n] = e + x /\ P[n] = f
        BY <3>7, <3>8, <4>1, <4>2
      <4> QED BY <4>4, <4>5
    <3>10. ASSUME NEW k \in 1 .. n PROVE (sum[n] \div P[k - 1]) % b = t[k]
      <4>1. CASE k = n
        <5>1. (a * d + x) \div a = d
          <6>1. d \in Int
            OBVIOUS
          <6> QED BY <6>1, Divided
        <5>0. a * d = d * a
          OBVIOUS
        <5>2. d % b = d
          BY Small
        <5> QED BY <3>4, <3>6, <3>7, <4>1, <5>0, <5>1, <5>2
      <4>2. CASE k # n
        <5>1. k \in 1 .. n - 1 /\ k - 1 \in Nat /\ k \in Nat
          BY <4>2
        <5>2. PICK p \in Nat \ {0} : p = P[k - 1]
          BY <1>1, <5>1
        <5>3. PICK c \in Nat : a = (p * b) * c
          <6>1. k - 1 < n - 1
            BY <5>1
          <6>2. PICK i \in Nat : i = k - 1
            BY <5>1
          <6>3. PICK m \in Nat : m = n - 1
            BY <3>1
          <6>4. \E c \in Nat : Power(b)[m] = (Power(b)[i] * b) * c
            BY <6>1, <6>2, <6>3, PowerDivides
          <6> QED BY <1>1, <3>4, <5>2, <6>2, <6>3, <6>4
        <5>4. (x \div p) % b = t[k]
          BY <3>3, <3>5, <5>1, <5>2
        <5>5. sum[n] = p * (b * (c * d)) + x
          <6>1. d * ((p * b) * c) = p * (b * (c * d))
            OBVIOUS
          <6> QED BY <3>7, <5>3, <6>1
        <5>6. PICK m \in Nat : m = sum[n]
          BY <1>5, <2>1
        <5>7. PICK e \in Nat : e = c * d
          OBVIOUS
        <5>8. x \in Nat /\ m = p * (b * e) + x
          BY <5>5, <5>6, <5>7
        <5>9. \E f \in Nat : m = p * (b * f) + x
          BY <5>8
        <5>10. (m \div p) % b = (x \div p) % b
          BY <5>8, <5>9, DigitBelow
        <5> QED BY <5>2, <5>4, <5>6, <5>10
      <4> QED BY <4>1, <4>2
    <3> QED BY <3>9, <3>10
  <2>4. n = 0 \/ n > 0
    OBVIOUS
  <2> QED BY <2>2, <2>3, <2>4
<1>7. N \in S
  <2> HIDE DEF S
  <2>1. Nat \subseteq S
    BY <1>6, AllNumbers
  <2> QED BY <2>1
<1>8. /\ sum[N] \in 0 .. P[N] - 1
      /\ \A k \in 1 .. N : (sum[N] \div P[k - 1]) % b = t[k]
  BY <1>7
<1>9. Total([k \in 1 .. N |-> t[k] * Power(b)[k - 1]]) = sum[N]
  BY <1>1, <1>2, <1>5
<1> QED BY <1>1, <1>8, <1>9

-----------------------------------------------------------------------------
(* Integers of fixed width.                                                *)

\* the bytes of an integer
Words == [1 .. Digits -> 0 .. Digit - 1]

\* Memory holds as many digits as an integer has.
LEMMA MemoryHolds ==
    ASSUME NEW v \in Nat
    PROVE  /\ Memory(v) \in Words
           /\ \A k \in 1 .. Digits : Memory(v)[k] = (v \div Power(Digit)[k - 1]) % Digit
<1>1. Power(Digit) \in [Nat -> Nat \ {0}]
  BY Powers, WidthAssumption
<1>2. ASSUME NEW k \in 1 .. Digits PROVE (v \div Power(Digit)[k - 1]) % Digit \in 0 .. Digit - 1
  <2>1. k - 1 \in Nat
    OBVIOUS
  <2>2. PICK p \in Nat \ {0} : p = Power(Digit)[k - 1]
    BY <1>1, <2>1
  <2>3. v \div p \in Nat
    BY QuotientNat
  <2>4. (v \div p) % Digit \in 0 .. Digit - 1
    BY <2>3, Division, WidthAssumption
  <2> QED BY <2>2, <2>4
<1> QED BY <1>2 DEF Memory, Words

\* An integer of as many digits is what its memory holds.
LEMMA MemoryRead ==
    ASSUME NEW v \in Fixed
    PROVE  FromMemory(Memory(v)) = v
<1>1. PICK M \in Nat \ {0} : M = Power(Digit)[Digits]
  BY Powers, WidthAssumption
<1>2. v \in Nat /\ v \in 0 .. M - 1
  BY <1>1 DEF Fixed
<1>3. [k \in 1 .. Digits |-> Memory(v)[k] * Power(Digit)[k - 1]]
         = [k \in 1 .. Digits |-> ((v \div Power(Digit)[k - 1]) % Digit) * Power(Digit)[k - 1]]
  BY <1>2, MemoryHolds
<1>4. FromMemory(Memory(v)) = v % M
  <2>1. Digit \in Nat \ {0} /\ Digits \in Nat
    BY WidthAssumption
  <2>2. Total([k \in 1 .. Digits |-> ((v \div Power(Digit)[k - 1]) % Digit) * Power(Digit)[k - 1]])
           = v % Power(Digit)[Digits]
    BY <1>2, <2>1, DigitsSum
  <2> QED BY <1>1, <1>3, <2>2 DEF FromMemory
<1> QED BY <1>2, <1>4, Small

\* What is read from bytes has them in memory.
LEMMA MemoryKept ==
    ASSUME NEW t \in Words
    PROVE  FromMemory(t) \in Fixed /\ Memory(FromMemory(t)) = t
<1>3. t \in [1 .. Digits -> 0 .. Digit - 1]
  BY DEF Words
<1>4. PICK s \in 0 .. Power(Digit)[Digits] - 1 :
         /\ FromMemory(t) = s
         /\ \A k \in 1 .. Digits : (s \div Power(Digit)[k - 1]) % Digit = t[k]
  <2>1. Digit \in Nat \ {0} /\ Digits \in Nat
    BY WidthAssumption
  <2> QED BY <1>3, <2>1, SumDigits DEF FromMemory
<1>5. s \in Fixed /\ s \in Nat
  <2>1. Power(Digit)[Digits] \in Nat
    BY Powers, WidthAssumption
  <2> QED BY <1>4, <2>1 DEF Fixed
<1>6. Memory(s) = t
  BY <1>3, <1>4 DEF Memory
<1> QED BY <1>4, <1>5, <1>6

\* The bytes the other way round.
LEMMA Reversed ==
    ASSUME NEW t \in Words
    PROVE  /\ Reverse(t) \in Words /\ Reverse(Reverse(t)) = t
           /\ \A k \in 1 .. Digits : Reverse(t)[k] = t[Digits - k + 1]
<1>1. ASSUME NEW u \in Words
      PROVE  Reverse(u) = [k \in 1 .. Digits |-> u[(Digits - k) + 1]]
  <2>1. Len(u) = Digits
    BY WidthAssumption DEF Words
  <2> QED BY <2>1 DEF Reverse
<1>2. \A k \in 1 .. Digits : (Digits - k) + 1 \in 1 .. Digits /\ (Digits - ((Digits - k) + 1)) + 1 = k
  BY WidthAssumption
<1>3. PICK r : r = Reverse(t)
  OBVIOUS
<1>4. r = [k \in 1 .. Digits |-> t[(Digits - k) + 1]]
  BY <1>1, <1>3
<1>5. r \in Words
  BY <1>2, <1>4 DEF Words
<1>6. Reverse(r) = [k \in 1 .. Digits |-> r[(Digits - k) + 1]]
  BY <1>1, <1>5
<1>7. ASSUME NEW k \in 1 .. Digits PROVE Reverse(r)[k] = t[k]
  <2>1. PICK i \in 1 .. Digits : i = (Digits - k) + 1 /\ (Digits - i) + 1 = k
    BY <1>2
  <2>2. r[i] = t[k]
    BY <1>4, <2>1
  <2> QED BY <1>6, <2>1, <2>2
<1>8. Reverse(r) = t
  <2>1. t = [k \in 1 .. Digits |-> t[k]]
    BY DEF Words
  <2> QED BY <1>6, <1>7, <2>1
<1> QED BY <1>3, <1>4, <1>5, <1>8

\* An integer is read back in either byte order, and written with the last digit first in
\* the big one.
LEMMA FixedBack == FixedReadBack
<1> SUFFICES ASSUME NEW v \in Fixed
             PROVE  /\ \A order \in Orders : ReadFixed(WriteFixed(v, order), order) = v
                    /\ \A k \in 1 .. Digits :
                          WriteFixed(v, "big")[k] = (v \div Power(Digit)[Digits - k]) % Digit
  BY DEF FixedReadBack
<1>1. v \in Nat
  BY Powers, WidthAssumption DEF Fixed
<1>2. PICK t \in Words : t = Memory(v) /\ FromMemory(t) = v
  BY <1>1, MemoryHolds, MemoryRead
<1>3. PICK r \in Words : /\ r = Reverse(t) /\ Reverse(r) = t
                         /\ \A k \in 1 .. Digits : r[k] = t[Digits - k + 1]
  BY Reversed
<1>4. PICK w \in Fixed : w = FromMemory(r) /\ Memory(w) = r
  BY MemoryKept
<1>5. Byteswap(v) = w /\ Byteswap(w) = v
  BY <1>2, <1>3, <1>4 DEF Byteswap
<1>6. WriteFixed(v, "little") = t /\ WriteFixed(v, "big") = r
  BY <1>2, <1>4, <1>5 DEF WriteFixed, Machine
<1>7. ReadFixed(t, "little") = v /\ ReadFixed(r, "big") = v
  BY <1>2, <1>4, <1>5 DEF ReadFixed, Machine
<1>8. ASSUME NEW k \in 1 .. Digits PROVE r[k] = (v \div Power(Digit)[Digits - k]) % Digit
  <2>1. PICK i \in 1 .. Digits : i = Digits - k + 1 /\ i - 1 = Digits - k
    BY WidthAssumption
  <2>2. t[i] = (v \div Power(Digit)[i - 1]) % Digit
    BY <1>1, <1>2, MemoryHolds
  <2> QED BY <1>3, <2>1, <2>2
<1> QED BY <1>6, <1>7, <1>8 DEF Orders

-----------------------------------------------------------------------------
(* Zigzag.                                                                 *)

\* The modulus is twice its half.
LEMMA Halves ==
    /\ HalfModulus \in Nat \ {0} /\ Modulus \in Nat \ {0}
    /\ Modulus = 2 * HalfModulus
<1>1. PICK n \in Nat : n = Width - 1 /\ n + 1 = Width
  BY WidthAssumption
<1>2. Power(2) \in [Nat -> Nat \ {0}] /\ Power(2)[n + 1] = 2 * Power(2)[n]
  BY Powers
<1> QED BY <1>1, <1>2 DEF Modulus, HalfModulus

\* A number and its wrapped form, below and above.
LEMMA Wraps ==
    ASSUME NEW i \in Int
    PROVE  /\ i \in 0 .. Modulus - 1 => AsUnsigned(i) = i
           /\ i \in -Modulus .. -1 => AsUnsigned(i) = i + Modulus
<1>1. PICK M \in Nat \ {0} : M = Modulus
  BY Halves
<1>2. i \in 0 .. M - 1 => i % M = i
  BY Small
<1>3. ASSUME i \in -M .. -1 PROVE i % M = i + M
  <2>1. PICK r \in 0 .. M - 1 : r = i + M
    BY <1>3
  <2>2. (M * (-1) + r) % M = r
    BY Divided
  <2>3. M * (-1) + r = i
    BY <2>1
  <2> QED BY <2>1, <2>2, <2>3
<1> QED BY <1>1, <1>2, <1>3 DEF AsUnsigned

\* Zigzag gives an unsigned integer, from which the signed one is decoded.
LEMMA ZigzagBack ==
    ASSUME NEW v \in Signed
    PROVE  EncodeZigzag(v) \in Unsigned /\ DecodeZigzag(EncodeZigzag(v)) = v
<1>1. PICK H \in Nat \ {0} : H = HalfModulus
  BY Halves
<1>2. Modulus = 2 * H
  BY <1>1, Halves
<1>3. v \in Int /\ v \in -H .. H - 1
  BY <1>1 DEF Signed
<1>4. \A u : AsSigned(u) = IF u < H THEN u ELSE u - 2 * H
  BY <1>1, <1>2 DEF AsSigned
<1>5. \A i \in Int : /\ i \in 0 .. 2 * H - 1 => AsUnsigned(i) = i
                     /\ i \in -(2 * H) .. -1 => AsUnsigned(i) = i + 2 * H
  BY <1>2, Wraps
<1>6. EncodeZigzag(v) = IF v < 0 THEN -2 * v - 1 ELSE 2 * v
  <2>1. CASE v >= 0
    BY <1>3, <1>5, <2>1 DEF EncodeZigzag
  <2>2. CASE v = -H
    <3>1. Wrapped(-v) = -H
      BY <1>4, <1>5, <2>2 DEF Wrapped
    <3>2. Wrapped((-H) * 2) = 0
      BY <1>4, <1>5 DEF Wrapped
    <3>3. AsUnsigned(-1) = 2 * H - 1
      BY <1>5
    <3>4. EncodeZigzag(v) = AsUnsigned(0 - 1)
      BY <2>2, <3>1, <3>2 DEF EncodeZigzag
    <3>5. 0 - 1 = -1 /\ v < 0 /\ -2 * v - 1 = 2 * H - 1
      BY <2>2
    <3> QED BY <3>3, <3>4, <3>5
  <2>3. CASE v < 0 /\ v # -H
    <3>1. PICK w \in 1 .. H - 1 : w = -v
      BY <1>3, <2>3
    <3>2. Wrapped(w) = w
      BY <1>4, <1>5 DEF Wrapped
    <3>3. Wrapped(w * 2) = IF 2 * w < H THEN 2 * w ELSE 2 * w - 2 * H
      BY <1>4, <1>5 DEF Wrapped
    <3>4. AsUnsigned(Wrapped(w * 2) - 1) = 2 * w - 1
      BY <1>5, <3>3
    <3>5. EncodeZigzag(v) = AsUnsigned(Wrapped(Wrapped(w) * 2) - 1)
      BY <2>3, <3>1 DEF EncodeZigzag
    <3>6. EncodeZigzag(v) = 2 * w - 1
      BY <3>2, <3>4, <3>5
    <3>7. v = -w
      BY <1>3, <3>1
    <3> QED BY <3>6, <3>7
  <2> QED BY <1>3, <2>1, <2>2, <2>3
<1>7. PICK u \in 0 .. 2 * H - 1 : u = EncodeZigzag(v)
  BY <1>3, <1>6
<1>8. AsSigned(IF u % 2 = 0 THEN u \div 2 ELSE 2 * H - 1 - u \div 2) = v
  <2>1. CASE v >= 0
    <3>1. u = 2 * v + 0
      BY <1>3, <1>6, <1>7, <2>1
    <3>2. (2 * v + 0) \div 2 = v /\ (2 * v + 0) % 2 = 0
      BY <1>3, Divided
    <3> QED BY <1>3, <1>4, <2>1, <3>1, <3>2
  <2>2. CASE v < 0
    <3>1. PICK w \in Int : w = -v - 1
      BY <1>3
    <3>2. u = 2 * w + 1
      BY <1>3, <1>6, <1>7, <2>2, <3>1
    <3>3. (2 * w + 1) \div 2 = w /\ (2 * w + 1) % 2 = 1
      BY Divided
    <3>4. AsSigned(2 * H - 1 - w) = v
      BY <1>3, <1>4, <2>2, <3>1
    <3> QED BY <3>2, <3>3, <3>4
  <2> QED BY <1>3, <2>1, <2>2
<1> QED BY <1>2, <1>7, <1>8 DEF DecodeZigzag, Unsigned

-----------------------------------------------------------------------------
(* Varints.                                                                *)

\* A greater exponent, no smaller power.
LEMMA PowerGrows ==
    ASSUME NEW b \in Nat \ {0}, NEW k \in Nat, NEW n \in Nat, k <= n
    PROVE  Power(b)[k] <= Power(b)[n]
<1>1. Power(b)[k] \in Nat \ {0} /\ Power(b)[n] \in Nat \ {0}
  BY Powers
<1>2. CASE k = n
  BY <1>1, <1>2
<1>3. CASE k < n
  <2>1. PICK p \in Nat \ {0} : p = Power(b)[k]
    BY <1>1
  <2>2. PICK c \in Nat : Power(b)[n] = (p * b) * c
    BY <1>3, <2>1, PowerDivides
  <2>3. (p * b) * c # 0 => p <= (p * b) * c
    <3>1. (p * b) * c # 0 => b * c >= 1 /\ b * c \in Nat
      OBVIOUS
    <3>2. \A e \in Nat : e >= 1 => p <= p * e
      OBVIOUS
    <3>3. p * (b * c) = (p * b) * c
      OBVIOUS
    <3> QED BY <3>1, <3>2, <3>3
  <2> QED BY <1>1, <2>1, <2>2, <2>3
<1> QED BY <1>2, <1>3

\* The flag, and the powers of it.
LEMMA Flags ==
    /\ Flag \in Nat /\ Flag >= 2
    /\ \A n \in Nat : Power(2)[Group * n] = Power(Flag)[n]
<1>1. Power(2) \in [Nat -> Nat \ {0}] /\ Power(2)[0] = 1 /\ \A n \in Nat : Power(2)[n + 1] = 2 * Power(2)[n]
  BY Powers
<1>2. Flag \in Nat \ {0} /\ Flag >= 2
  <2>1. PICK g \in Nat : g + 1 = Group
    <3>1. Group - 1 \in Nat /\ (Group - 1) + 1 = Group
      BY WidthAssumption
    <3> QED BY <3>1
  <2>2. PICK p \in Nat \ {0} : p = Power(2)[g]
    BY <1>1
  <2>3. Flag = 2 * p
    BY <1>1, <2>1, <2>2 DEF Flag
  <2> QED BY <2>3
<1>3. \A m, n \in Nat : Power(2)[m + n] = Power(2)[m] * Power(2)[n]
  <2> SUFFICES ASSUME NEW m \in Nat, NEW n \in Nat PROVE Power(2)[m + n] = Power(2)[m] * Power(2)[n]
    OBVIOUS
  <2> DEFINE S == {i \in Nat : Power(2)[m + i] = Power(2)[m] * Power(2)[i]}
  <2>1. ASSUME NEW i \in Nat, \A j \in 0 .. i - 1 : j \in S PROVE i \in S
    <3>1. CASE i = 0
      <4>1. Power(2)[m] \in Nat
        BY <1>1
      <4> QED BY <1>1, <3>1, <4>1
    <3>2. CASE i > 0
      <4>1. PICK j \in Nat : j + 1 = i /\ j \in 0 .. i - 1 /\ m + i = (m + j) + 1 /\ m + j \in Nat
        <5>1. i - 1 \in Nat /\ (i - 1) + 1 = i /\ i - 1 \in 0 .. i - 1 /\ m + i = (m + (i - 1)) + 1 /\ m + (i - 1) \in Nat
          BY <3>2
        <5> QED BY <5>1
      <4>2. j \in S
        BY <2>1, <4>1
      <4>3. PICK p \in Nat : p = Power(2)[m]
        BY <1>1
      <4>4. PICK q \in Nat : q = Power(2)[j]
        BY <1>1
      <4>5. Power(2)[m + j] = p * q
        BY <4>2, <4>3, <4>4
      <4>6. Power(2)[m + i] = 2 * (p * q) /\ Power(2)[i] = 2 * q
        BY <1>1, <4>1, <4>4, <4>5
      <4>7. 2 * (p * q) = p * (2 * q)
        OBVIOUS
      <4> QED BY <4>3, <4>6, <4>7
    <3> HIDE DEF S
    <3> QED BY <3>1, <3>2
  <2> HIDE DEF S
  <2>2. Nat \subseteq S
    BY <2>1, AllNumbers
  <2> QED BY <2>2 DEF S
<1>4. ASSUME NEW n \in Nat PROVE Power(2)[Group * n] = Power(Flag)[n]
  <2> DEFINE S == {i \in Nat : Power(2)[Group * i] = Power(Flag)[i]}
  <2>0. Power(Flag)[0] = 1 /\ \A i \in Nat : Power(Flag)[i + 1] = Flag * Power(Flag)[i] /\ Power(Flag)[i] \in Nat
    BY <1>2, Powers
  <2>1. ASSUME NEW i \in Nat, \A j \in 0 .. i - 1 : j \in S PROVE i \in S
    <3>1. CASE i = 0
      <4>1. Group * i = 0
        BY <3>1, WidthAssumption
      <4> QED BY <1>1, <2>0, <3>1, <4>1
    <3>2. CASE i > 0
      <4>1. PICK j \in Nat : j + 1 = i /\ j \in 0 .. i - 1
        <5>1. i - 1 \in Nat /\ (i - 1) + 1 = i /\ i - 1 \in 0 .. i - 1
          BY <3>2
        <5> QED BY <5>1
      <4>2. j \in S
        BY <2>1, <4>1
      <4>3. PICK m \in Nat : m = Group * j
        BY WidthAssumption
      <4>4. Group * i = Group + m
        <5>1. PICK g \in Nat : g = Group
          BY WidthAssumption
        <5>2. g * (j + 1) = g + g * j
          OBVIOUS
        <5> QED BY <4>1, <4>3, <5>1, <5>2
      <4>5. Power(2)[Group + m] = Power(2)[Group] * Power(2)[m]
        BY <1>3, WidthAssumption
      <4>6. Power(2)[m] = Power(Flag)[j]
        BY <4>2, <4>3
      <4>7. Power(Flag)[i] = Flag * Power(Flag)[j]
        BY <2>0, <4>1
      <4> QED BY <4>4, <4>5, <4>6, <4>7 DEF Flag
    <3> HIDE DEF S
    <3> QED BY <3>1, <3>2
  <2> HIDE DEF S
  <2>2. Nat \subseteq S
    BY <2>1, AllNumbers
  <2> QED BY <2>2 DEF S
<1> QED BY <1>2, <1>4

\* What the loop of writeUint32 writes is what its definition says.
LEMMA VarintIs ==
    /\ Varint \in [Nat -> Seq(Nat)]
    /\ \A v \in Nat : Varint[v] = IF v < Flag THEN <<v>> ELSE <<(v % Flag) + Flag>> \o Varint[v \div Flag]
<1> DEFINE T == Seq(Nat)
           step == [p \in [Nat -> T] \X Nat |->
                      IF p[2] < Flag THEN <<p[2]>> ELSE <<(p[2] % Flag) + Flag>> \o p[1][p[2] \div Flag]]
<1>1. ASSUME NEW v \in Nat
      PROVE  /\ v \div Flag \in Nat /\ (v % Flag) + Flag \in Nat
             /\ v >= Flag => v \div Flag \in 0 .. v - 1
  <2>1. PICK f \in Nat \ {0} : f = Flag /\ f >= 2
    BY Flags
  <2>2. v \div f \in Nat /\ v % f \in Nat /\ f * (v \div f) <= v
    BY QuotientNat
  <2>3. \A q \in Nat : f * q <= v /\ v >= f => q <= v - 1
    <3> SUFFICES ASSUME NEW q \in Nat, f * q <= v, v >= f PROVE q <= v - 1
      OBVIOUS
    <3>1. 2 * q <= f * q
      BY <2>1
    <3>2. q >= 1 => q < 2 * q
      OBVIOUS
    <3> QED BY <2>1, <3>1, <3>2
  <2> QED BY <2>1, <2>2, <2>3
<1>2. ASSUME NEW g \in [Nat -> T], NEW v \in Nat
      PROVE  /\ (IF v < Flag THEN <<v>> ELSE <<(v % Flag) + Flag>> \o g[v \div Flag]) \in T
             /\ step[<<g, v>>] = IF v < Flag THEN <<v>> ELSE <<(v % Flag) + Flag>> \o g[v \div Flag]
  <2>1. g[v \div Flag] \in Seq(Nat) /\ <<(v % Flag) + Flag>> \in Seq(Nat) /\ <<v>> \in Seq(Nat)
    BY <1>1
  <2>2. \A x, y \in Seq(Nat) : x \o y \in Seq(Nat)
    OBVIOUS
  <2>3. <<(v % Flag) + Flag>> \o g[v \div Flag] \in Seq(Nat)
    BY <2>1, <2>2
  <2> QED BY <2>1, <2>3
<1>3. step \in [[Nat -> T] \X Nat -> T]
  BY <1>2
<1>4. step \in Steps(T)
  <2>1. ASSUME NEW g \in [Nat -> T], NEW h \in [Nat -> T], NEW v \in Nat, \A i \in 0 .. v - 1 : g[i] = h[i]
        PROVE  step[<<g, v>>] = step[<<h, v>>]
    <3>1. v >= Flag => g[v \div Flag] = h[v \div Flag]
      BY <1>1, <2>1
    <3>2. ~(v < Flag) => v >= Flag
      BY Flags
    <3> HIDE DEF step, T
    <3> QED BY <1>2, <3>1, <3>2
  <2> HIDE DEF step, T
  <2> QED BY <1>3, <2>1 DEF Steps
<1>5. PICK f \in [Nat -> T] : \A v \in Nat : f[v] = step[<<f, v>>]
  <2>1. <<>> \in T
    OBVIOUS
  <2> HIDE DEF step, T
  <2> QED BY <1>4, <2>1, Recursion
<1>6. f = [v \in Nat |-> IF v < Flag THEN <<v>> ELSE <<(v % Flag) + Flag>> \o f[v \div Flag]]
  <2>1. \A v \in Nat : f[v] = IF v < Flag THEN <<v>> ELSE <<(v % Flag) + Flag>> \o f[v \div Flag]
    <3> HIDE DEF step, T
    <3> QED BY <1>2, <1>5
  <2> QED BY <2>1
<1>7. Varint = [v \in Nat |-> IF v < Flag THEN <<v>> ELSE <<(v % Flag) + Flag>> \o Varint[v \div Flag]]
  BY <1>6, Zenon DEF Varint
<1>8. \A v \in Nat : Varint[v] = IF v < Flag THEN <<v>> ELSE <<(v % Flag) + Flag>> \o Varint[v \div Flag]
  BY <1>7, Zenon
<1> DEFINE S == {v \in Nat : Varint[v] \in Seq(Nat)}
<1>9. ASSUME NEW v \in Nat, \A u \in 0 .. v - 1 : u \in S PROVE v \in S
  <2>1. CASE v < Flag
    <3>1. Varint[v] = <<v>>
      BY <1>8, <2>1
    <3>2. <<v>> \in Seq(Nat)
      OBVIOUS
    <3> QED BY <3>1, <3>2
  <2>2. CASE ~(v < Flag)
    <3>0. v >= Flag
      BY <2>2, Flags
    <3>1. v \div Flag \in S
      <4>1. v \div Flag \in 0 .. v - 1
        BY <1>1, <3>0
      <4> HIDE DEF S
      <4> QED BY <1>9, <4>1
    <3>2. Varint[v \div Flag] \in Seq(Nat) /\ <<(v % Flag) + Flag>> \in Seq(Nat)
      BY <1>1, <3>1
    <3>3. \A x, y \in Seq(Nat) : x \o y \in Seq(Nat)
      OBVIOUS
    <3>4. Varint[v] = <<(v % Flag) + Flag>> \o Varint[v \div Flag]
      BY <1>8, <2>2
    <3> QED BY <3>2, <3>3, <3>4
  <2> QED BY <2>1, <2>2
<1>10. Nat \subseteq S
  <2> HIDE DEF S
  <2> QED BY <1>9, AllNumbers
<1>11. Varint \in [Nat -> Seq(Nat)]
  <2>1. \A v \in Nat : Varint[v] \in Seq(Nat)
    BY <1>10
  <2> QED BY <1>7, <2>1
<1> QED BY <1>8, <1>11

\* A varint has the number's digits to the base Flag, each with the flag but the last.
LEMMA VarintShape ==
    ASSUME NEW v \in Nat
    PROVE  \E L \in Nat \ {0} :
              /\ Varint[v] \in [1 .. L -> Nat] /\ Len(Varint[v]) = L
              /\ \A k \in 1 .. L : /\ Varint[v][k] < Flag <=> k = L
                                   /\ Varint[v][k] % Flag = (v \div Power(Flag)[k - 1]) % Flag
              /\ v < Power(Flag)[L] /\ (L > 1 => Power(Flag)[L - 1] <= v)
<1>1. PICK f \in Nat \ {0} : f = Flag /\ f >= 2
  BY Flags
<1>2. PICK P \in [Nat -> Nat \ {0}] : P = Power(f) /\ P[0] = 1 /\ \A n \in Nat : P[n + 1] = f * P[n]
  BY Powers
<1>3. P[1] = f
  <2>1. 0 \in Nat /\ 0 + 1 = 1
    OBVIOUS
  <2>2. P[0 + 1] = f * P[0]
    BY <1>2, <2>1
  <2> QED BY <1>2, <2>1, <2>2
<1> DEFINE Shape(u, s, L) ==
              /\ s \in [1 .. L -> Nat] /\ Len(s) = L
              /\ \A k \in 1 .. L : /\ s[k] < f <=> k = L
                                   /\ s[k] % f = (u \div P[k - 1]) % f
              /\ u < P[L] /\ (L > 1 => P[L - 1] <= u)
           S == {u \in Nat : \E L \in Nat \ {0} : Shape(u, Varint[u], L)}
<1>4. ASSUME NEW u \in Nat, \A w \in 0 .. u - 1 : w \in S PROVE u \in S
  <2>1. CASE u < f
    <3>1. Varint[u] = <<u>>
      BY <1>1, <2>1, VarintIs
    <3>2. u \div 1 = u
      <4>1. 1 * u + 0 = u
        OBVIOUS
      <4>2. (1 * u + 0) \div 1 = u
        BY Divided
      <4> QED BY <4>1, <4>2
    <3>3. Shape(u, <<u>>, 1)
      <4>1. <<u>> \in [1 .. 1 -> Nat] /\ Len(<<u>>) = 1 /\ <<u>>[1] = u
        OBVIOUS
      <4>2. P[1 - 1] = 1
        BY <1>2
      <4>3. \A k \in 1 .. 1 : k = 1
        OBVIOUS
      <4>4. u < P[1]
        BY <1>3, <2>1
      <4> QED BY <2>1, <3>2, <4>1, <4>2, <4>3, <4>4
    <3> HIDE DEF Shape
    <3>4. 1 \in Nat \ {0}
      OBVIOUS
    <3> QED BY <3>1, <3>3, <3>4
  <2>2. CASE u >= f
    <3>1. PICK w \in Nat : w = u \div f
      BY QuotientNat
    <3>2. PICK d \in 0 .. f - 1 : d = u % f
      BY Division
    <3>3. u = f * w + d
      <4>1. u = f * (u \div f) + (u % f)
        BY Division
      <4> QED BY <3>1, <3>2, <4>1
    <3>4. w \in 0 .. u - 1 /\ w >= 1
      <4>1. w >= 1
        BY <2>2, <3>3
      <4>2. 2 * w <= f * w
        BY <1>1
      <4>3. f * w <= u
        BY <3>3
      <4>4. PICK e \in Nat : e = f * w
        OBVIOUS
      <4> QED BY <4>1, <4>2, <4>3, <4>4
    <3>5. PICK L \in Nat \ {0} : Shape(w, Varint[w], L)
      <4>1. w \in S
        BY <1>4, <3>4
      <4> HIDE DEF Shape
      <4> QED BY <4>1
    <3>6. PICK t : t = Varint[w]
      OBVIOUS
    <3>7. t \in [1 .. L -> Nat] /\ Len(t) = L /\ t \in Seq(Nat)
      BY <3>5, <3>6, VarintIs
    <3>8. \A k \in 1 .. L : (t[k] < f <=> k = L) /\ t[k] % f = (w \div P[k - 1]) % f
      BY <3>5, <3>6
    <3>9. w < P[L] /\ (L > 1 => P[L - 1] <= w)
      BY <3>5
    <3>10. PICK b \in Nat : b = d + f
      BY <3>2
    <3>11. PICK s : s = Varint[u]
      OBVIOUS
    <3>12. s = <<b>> \o t
      <4>1. ~(u < f)
        BY <2>2
      <4> QED BY <1>1, <3>1, <3>2, <3>6, <3>10, <3>11, <4>1, VarintIs
    <3>13. /\ s \in [1 .. L + 1 -> Nat] /\ Len(s) = L + 1 /\ s[1] = b
           /\ \A k \in 2 .. L + 1 : s[k] = t[k - 1]
      <4>1. <<b>> \in Seq(Nat) /\ Len(<<b>>) = 1
        OBVIOUS
      <4>2. s \in Seq(Nat)
        BY <3>7, <3>12, <4>1
      <4>3. Len(s) = L + 1
        BY <3>7, <3>12, <4>1
      <4>4. s[1] = b
        BY <3>7, <3>12, <4>1
      <4>5. ASSUME NEW k \in 2 .. L + 1 PROVE s[k] = t[k - 1]
        <5>1. k \in 1 .. Len(<<b>>) + Len(t) /\ k > Len(<<b>>)
          BY <3>7, <4>1
        <5>2. (<<b>> \o t)[k] = t[k - Len(<<b>>)]
          BY <3>7, <4>1, <5>1
        <5> QED BY <3>12, <4>1, <5>2
      <4>6. s \in [1 .. L + 1 -> Nat]
        <5>1. s \in [1 .. Len(s) -> Nat]
          BY <4>2, LenProperties
        <5> QED BY <4>3, <5>1
      <4> QED BY <4>3, <4>4, <4>5, <4>6
    <3>14. ASSUME NEW k \in 1 .. L + 1
           PROVE  (s[k] < f <=> k = L + 1) /\ s[k] % f = (u \div P[k - 1]) % f
      <4>1. CASE k = 1
        <5>1. ~(b < f)
          BY <3>10
        <5>2. b = f * 1 + d
          BY <3>10
        <5>3. b % f = d
          BY <5>2, Divided
        <5>4. u \div 1 = u
          <6>1. 1 * u + 0 = u
            OBVIOUS
          <6>2. (1 * u + 0) \div 1 = u
            BY Divided
          <6> QED BY <6>1, <6>2
        <5>5. P[k - 1] = 1
          BY <1>2, <4>1
        <5>6. s[k] = b /\ k # L + 1
          BY <3>13, <4>1
        <5>7. s[k] % f = d /\ (u \div P[k - 1]) % f = d
          BY <3>2, <5>3, <5>4, <5>5, <5>6
        <5> QED BY <5>1, <5>6, <5>7
      <4>2. CASE k # 1
        <5>1. PICK j \in 1 .. L : j = k - 1 /\ k = j + 1 /\ j \in Nat
          BY <4>2
        <5>2. s[k] = t[j]
          <6>1. k \in 2 .. L + 1
            BY <4>2
          <6>2. s[k] = t[k - 1]
            BY <3>13, <6>1
          <6> QED BY <5>1, <6>2
        <5>3. PICK i \in Nat : i = j - 1 /\ i + 1 = k - 1
          BY <5>1
        <5>4. PICK p \in Nat \ {0} : p = P[i]
          BY <1>2
        <5>5. P[k - 1] = f * p
          BY <1>2, <5>3, <5>4
        <5>6. (u \div f) \div p = u \div (f * p)
          BY DividedTwice
        <5>7. t[j] % f = (w \div p) % f /\ (t[j] < f <=> j = L)
          BY <3>8, <5>1, <5>3, <5>4
        <5>8. j = L <=> k = L + 1
          BY <5>1
        <5> QED BY <3>1, <5>2, <5>5, <5>6, <5>7, <5>8
      <4> QED BY <4>1, <4>2
    <3>15. u < P[L + 1]
      <4>1. PICK p \in Nat \ {0} : p = P[L]
        BY <1>2
      <4>2. P[L + 1] = f * p
        BY <1>2, <4>1
      <4>3. f * (w + 1) <= f * p
        BY <3>9, <4>1
      <4>4. f * (w + 1) = f * w + f
        OBVIOUS
      <4>5. u < f * w + f
        BY <3>3
      <4>6. PICK x \in Nat : x = f * w
        OBVIOUS
      <4>7. PICK y \in Nat : y = f * p
        OBVIOUS
      <4> QED BY <4>2, <4>3, <4>4, <4>5, <4>6, <4>7
    <3>16. P[L] <= u
      <4>1. CASE L = 1
        BY <1>3, <2>2, <4>1
      <4>2. CASE L # 1
        <5>1. PICK i \in Nat : i = L - 1 /\ i + 1 = L /\ L > 1
          BY <4>2
        <5>2. PICK p \in Nat \ {0} : p = P[i]
          BY <1>2
        <5>3. p <= w
          BY <3>9, <5>1, <5>2
        <5>4. f * p <= f * w
          BY <5>3
        <5>5. P[L] = f * p
          BY <1>2, <5>1, <5>2
        <5> QED BY <3>3, <5>4, <5>5
      <4> QED BY <4>1, <4>2
    <3>17. Shape(u, s, L + 1)
      <4>1. L + 1 > 1 => P[(L + 1) - 1] <= u
        BY <3>16
      <4> QED BY <3>13, <3>14, <3>15, <4>1
    <3>18. L + 1 \in Nat \ {0}
      OBVIOUS
    <3> HIDE DEF Shape
    <3> QED BY <3>11, <3>17, <3>18
  <2>3. u < f \/ u >= f
    OBVIOUS
  <2> HIDE DEF S
  <2> QED BY <2>1, <2>2, <2>3
<1>5. v \in S
  <2> HIDE DEF S
  <2>1. Nat \subseteq S
    BY <1>4, AllNumbers
  <2> QED BY <2>1
<1>6. \E L \in Nat \ {0} : Shape(v, Varint[v], L)
  <2> HIDE DEF Shape
  <2> QED BY <1>5
<1> QED BY <1>1, <1>2, <1>6

\* The groups of a varint hold the width of an integer.
LEMMA GroupsSuffice == Groups \in Nat \ {0} /\ Width <= Group * Groups
<1>1. PICK g \in Nat \ {0} : g = Group
  BY WidthAssumption
<1>2. PICK w \in Nat \ {0} : w = Width
  BY WidthAssumption
<1>3. PICK n \in Nat : n = w + g - 1
  OBVIOUS
<1>4. PICK q \in Nat : q = n \div g
  BY QuotientNat
<1>5. PICK r \in 0 .. g - 1 : r = n % g
  BY Division
<1>6. n = g * q + r
  <2>1. n = g * (n \div g) + (n % g)
    BY Division
  <2> QED BY <1>4, <1>5, <2>1
<1>7. w <= g * q
  <2>1. PICK x \in Nat : x = g * q
    OBVIOUS
  <2> QED BY <1>3, <1>5, <1>6, <2>1
<1>8. q # 0
  <2>1. q = 0 => g * q = 0
    OBVIOUS
  <2> QED BY <1>7, <2>1
<1> QED BY <1>1, <1>2, <1>3, <1>4, <1>7, <1>8 DEF Groups

\* An unsigned integer is read back from its varint, whatever follows it.
LEMMA VarintBack ==
    ASSUME NEW v \in Unsigned, NEW follow \in Nat
    PROVE  /\ Len(Varint[v]) <= Groups
           /\ ReadVarint(Varint[v] \o <<follow>>) = v
           /\ BytesRead(Varint[v] \o <<follow>>) = Len(Varint[v])
<1>1. PICK f \in Nat \ {0} : f = Flag /\ f >= 2
  BY Flags
<1>2. PICK P \in [Nat -> Nat \ {0}] : P = Power(f) /\ P[0] = 1 /\ \A n \in Nat : P[n + 1] = f * P[n]
  BY Powers
<1>3. PICK M \in Nat \ {0} : M = Modulus
  BY Halves
<1>4. v \in Nat /\ v < M
  BY <1>3 DEF Unsigned
<1>5. PICK L \in Nat \ {0} :
         /\ Varint[v] \in [1 .. L -> Nat] /\ Len(Varint[v]) = L
         /\ \A k \in 1 .. L : /\ Varint[v][k] < f <=> k = L
                              /\ Varint[v][k] % f = (v \div P[k - 1]) % f
         /\ v < P[L] /\ (L > 1 => P[L - 1] <= v)
  BY <1>1, <1>2, <1>4, VarintShape
<1>6. L <= Groups
  <2>1. SUFFICES ASSUME L > Groups PROVE FALSE
    BY GroupsSuffice
  <2>2. PICK i \in Nat : i = L - 1 /\ Groups <= i /\ L > 1
    BY <2>1, GroupsSuffice
  <2>3. P[i] <= v
    BY <1>5, <2>2
  <2>4. PICK e \in Nat : e = Group * i
    BY WidthAssumption
  <2>5. Width <= e
    <3>1. PICK g \in Nat : g = Group
      BY WidthAssumption
    <3>2. PICK n \in Nat : n = Groups
      BY GroupsSuffice
    <3>3. g * n <= g * i
      BY <2>2, <3>2
    <3>4. Width <= g * n /\ Width \in Nat
      BY <3>1, <3>2, GroupsSuffice, WidthAssumption
    <3> QED BY <2>4, <3>1, <3>3, <3>4
  <2>6. P[i] = Power(2)[e]
    BY <1>1, <1>2, <2>4, Flags
  <2>7. PICK w \in Nat : w = Width
    BY WidthAssumption
  <2>8. Power(2)[w] <= Power(2)[e]
    BY <2>5, <2>7, PowerGrows
  <2>9. M <= P[i]
    BY <1>3, <2>6, <2>7, <2>8 DEF Modulus
  <2> QED BY <1>2, <1>4, <2>3, <2>9
<1>7. PICK s : s = Varint[v] \o <<follow>>
  OBVIOUS
<1>8. \A k \in 1 .. L : s[k] = Varint[v][k] /\ s[k] \in Nat
  <2>1. Varint[v] \in Seq(Nat) /\ <<follow>> \in Seq(Nat)
    BY <1>4, VarintIs
  <2>2. ASSUME NEW k \in 1 .. L PROVE s[k] = Varint[v][k]
    <3>1. \A p, q \in Seq(Nat) : \A i \in 1 .. Len(p) : (p \o q)[i] = p[i]
      OBVIOUS
    <3>2. k \in 1 .. Len(Varint[v])
      BY <1>5
    <3> QED BY <1>7, <2>1, <3>1, <3>2
  <2> QED BY <1>5, <2>2
<1>9. BytesRead(s) = L
  <2> DEFINE Ends(k) == (k = Groups \/ s[k] < Flag) /\ \A i \in 1 .. k - 1 : s[i] >= Flag
  <2>1. L \in 1 .. Groups /\ Ends(L)
    <3>1. L \in 1 .. Groups
      BY <1>6, GroupsSuffice
    <3>2. s[L] < Flag
      <4>1. L \in 1 .. L
        OBVIOUS
      <4> QED BY <1>1, <1>5, <1>8, <4>1
    <3>3. ASSUME NEW i \in 1 .. L - 1 PROVE s[i] >= Flag
      <4>1. i \in 1 .. L /\ i # L
        OBVIOUS
      <4>2. ~(s[i] < f) /\ s[i] \in Nat
        BY <1>5, <1>8, <4>1
      <4> QED BY <1>1, <4>2
    <3> QED BY <3>1, <3>2, <3>3
  <2>2. ASSUME NEW k \in 1 .. Groups, Ends(k) PROVE k = L
    <3>1. CASE k < L
      <4>1. k # Groups
        BY <1>6, <3>1, GroupsSuffice
      <4>2. s[k] < Flag /\ k \in 1 .. L
        BY <2>2, <3>1, <4>1, GroupsSuffice
      <4>3. k = L
        BY <1>1, <1>5, <1>8, <4>2
      <4> QED BY <4>3
    <3>2. CASE k > L
      <4>1. L \in 1 .. k - 1
        BY <3>2
      <4>2. s[L] >= Flag
        BY <2>2, <4>1
      <4>3. s[L] < f /\ s[L] \in Nat
        <5>1. L \in 1 .. L
          OBVIOUS
        <5> QED BY <1>5, <1>8, <5>1
      <4> QED BY <1>1, <4>2, <4>3
    <3> QED BY <3>1, <3>2, GroupsSuffice
  <2>3. BytesRead(s) = CHOOSE k \in 1 .. Groups : Ends(k)
    BY DEF BytesRead
  <2> HIDE DEF Ends
  <2> QED BY <2>1, <2>2, <2>3
<1>10. ASSUME NEW k \in 1 .. L
       PROVE  Part(s, k) = ((v \div Power(f)[k - 1]) % f) * Power(f)[k - 1]
  <2>1. PICK i \in Nat : i = k - 1
    OBVIOUS
  <2>2. PICK p \in Nat \ {0} : p = Power(f)[i]
    BY <1>2
  <2>3. Power(2)[Group * i] = p
    BY <1>1, <2>2, Flags
  <2>4. s[k] % f = (v \div p) % f
    BY <1>2, <1>5, <1>8, <2>1, <2>2
  <2>5. PICK q \in Nat : q = v \div p /\ p * q <= v
    BY <1>4, QuotientNat
  <2>6. PICK d \in Nat : d = q % f /\ d <= q
    <3>1. q % f \in 0 .. f - 1
      BY Division
    <3>2. q % f <= q
      <4>1. PICK x \in Nat : x = q \div f
        BY QuotientNat
      <4>2. PICK y \in 0 .. f - 1 : y = q % f
        BY <3>1
      <4>3. q = f * x + y
        <5>1. q = f * (q \div f) + (q % f)
          BY Division
        <5> QED BY <4>1, <4>2, <5>1
      <4>4. PICK z \in Nat : z = f * x
        OBVIOUS
      <4> QED BY <4>2, <4>3, <4>4
    <3> QED BY <3>1, <3>2
  <2>7. PICK e \in Nat : e = d * p
    OBVIOUS
  <2>8. e <= v
    <3>1. p * d <= p * q
      BY <2>6
    <3>2. p * d = d * p
      OBVIOUS
    <3>3. PICK z \in Nat : z = p * q
      OBVIOUS
    <3> QED BY <1>4, <2>5, <2>7, <3>1, <3>2, <3>3
  <2>9. e \in 0 .. M - 1
    BY <1>4, <2>8
  <2>10. e % M = e
    BY <2>9, Small
  <2>11. Part(s, k) = ((s[k] % Flag) * Power(2)[Group * (k - 1)]) % Modulus
    BY DEF Part
  <2>12. Part(s, k) = e
    BY <1>1, <1>3, <2>1, <2>3, <2>4, <2>5, <2>6, <2>7, <2>10, <2>11
  <2> QED BY <2>1, <2>2, <2>5, <2>6, <2>7, <2>12
<1>11. [k \in 1 .. BytesRead(s) |-> Part(s, k)]
          = [k \in 1 .. L |-> ((v \div Power(f)[k - 1]) % f) * Power(f)[k - 1]]
  BY <1>9, <1>10
<1>12. ReadVarint(s) = v % Power(f)[L]
  <2>1. Total([k \in 1 .. L |-> ((v \div Power(f)[k - 1]) % f) * Power(f)[k - 1]]) = v % Power(f)[L]
    BY <1>4, DigitsSum
  <2> QED BY <1>11, <2>1 DEF ReadVarint
<1>13. v % Power(f)[L] = v
  <2>1. PICK p \in Nat \ {0} : p = P[L]
    BY <1>2
  <2>2. v \in 0 .. p - 1
    BY <1>4, <1>5, <2>1
  <2> QED BY <1>2, <2>1, <2>2, Small
<1> QED BY <1>5, <1>6, <1>7, <1>9, <1>12, <1>13

\* Unsigned and signed integers are read back from their varints.
LEMMA VarintsBack == VarintsReadBack
<1>1. Flag \in Nat /\ {0, Flag} \subseteq Nat
  BY Flags
<1>2. ASSUME integer \in Unsigned, NEW follow \in {0, Flag}
      PROVE  /\ Len(Varint[integer]) <= Groups
             /\ ReadVarint(Varint[integer] \o <<follow>>) = integer
             /\ BytesRead(Varint[integer] \o <<follow>>) = Len(Varint[integer])
  <2>1. PICK v \in Unsigned : v = integer
    BY <1>2
  <2>2. follow \in Nat
    BY <1>1
  <2> QED BY <2>1, <2>2, VarintBack
<1>3. ASSUME integer \in Signed
      PROVE  DecodeZigzag(ReadVarint(Varint[EncodeZigzag(integer)] \o <<0>>)) = integer
  <2>1. PICK v \in Signed : v = integer
    BY <1>3
  <2>2. PICK u \in Unsigned : u = EncodeZigzag(v) /\ DecodeZigzag(u) = v
    BY ZigzagBack
  <2>3. ReadVarint(Varint[u] \o <<0>>) = u
    <3>1. 0 \in Nat
      OBVIOUS
    <3> QED BY <3>1, VarintBack
  <2> QED BY <2>1, <2>2, <2>3
<1> QED BY <1>2, <1>3 DEF VarintsReadBack

\* Integers of any width are read back as they were written: the fixed-width ones of
\* writeFint16 ... writeFuint64 in either byte order, the varints of writeUint32, writeUint64
\* and, through zigzag, writeInt32 and writeInt64, with groups of any size.
THEOREM IntegersReadBack == InitInteger /\ [][NextInteger]_integer => []ReadBack
<1>1. ReadBack
  BY VarintsBack, FixedBack DEF ReadBack
<1> QED BY <1>1, PTL

-----------------------------------------------------------------------------
(* Addresses: how a host is taken apart.                                   *)

\* Where a character is met first.
LEMMA Found ==
    ASSUME NEW s \in Seq(Runs), NEW c
    PROVE  /\ \A i \in 1 .. Len(s) : s[i] = c /\ (\A j \in 1 .. i - 1 : s[j] # c) => Find(s, c) = i
           /\ (\A i \in 1 .. Len(s) : s[i] # c) => Find(s, c) = 0
           /\ Find(s, c) \in 0 .. Len(s)
           /\ Find(s, c) # 0 => s[Find(s, c)] = c
           /\ \A i \in 1 .. Len(s) : s[i] = c => Find(s, c) <= i /\ Find(s, c) # 0
<1> DEFINE I == {i \in 1 .. Len(s) : s[i] = c}
<1>1. Find(s, c) = IF I # {} THEN Min(I) ELSE 0
  BY DEF Find, SelectInSeq
<1>2. ASSUME NEW i \in I, \A j \in I : i <= j PROVE Min(I) = i
  <2>1. \A k \in I : (\A j \in I : k <= j) => k = i
    BY <1>2
  <2> HIDE DEF I
  <2> QED BY <1>2, <2>1 DEF Min
<1>3. ASSUME NEW i \in 1 .. Len(s), s[i] = c, \A j \in 1 .. i - 1 : s[j] # c PROVE Find(s, c) = i
  <2>1. i \in I /\ \A j \in I : i <= j
    BY <1>3
  <2> HIDE DEF I
  <2> QED BY <1>1, <1>2, <2>1
<1>4. ASSUME \A i \in 1 .. Len(s) : s[i] # c PROVE Find(s, c) = 0
  <2>1. I = {}
    BY <1>4
  <2> QED BY <1>1, <2>1
<1>5. ASSUME I # {} PROVE \E i \in I : \A j \in I : i <= j
  <2>1. I \subseteq Nat
    OBVIOUS
  <2> HIDE DEF I
  <2> QED BY <1>5, <2>1, Smallest
<1>6. Find(s, c) \in 0 .. Len(s) /\ (Find(s, c) # 0 => s[Find(s, c)] = c)
  <2>1. CASE I = {}
    BY <1>1, <2>1
  <2>2. CASE I # {}
    <3>1. PICK i \in I : \A j \in I : i <= j
      <4> HIDE DEF I
      <4> QED BY <1>5, <2>2
    <3>2. Find(s, c) = i
      <4> HIDE DEF I
      <4> QED BY <1>1, <1>2, <2>2, <3>1
    <3> QED BY <3>1, <3>2
  <2> QED BY <2>1, <2>2
<1>7. ASSUME NEW i \in 1 .. Len(s), s[i] = c PROVE Find(s, c) <= i /\ Find(s, c) # 0
  <2>1. i \in I
    BY <1>7
  <2>2. PICK k \in I : \A j \in I : k <= j
    <3> HIDE DEF I
    <3> QED BY <1>5, <2>1
  <2>3. Find(s, c) = k
    <3> HIDE DEF I
    <3> QED BY <1>1, <1>2, <2>1, <2>2
  <2>4. k # 0
    OBVIOUS
  <2> HIDE DEF I
  <2> QED BY <2>1, <2>2, <2>3, <2>4
<1> QED BY <1>3, <1>4, <1>6, <1>7

\* Two sequences one after the other.
LEMMA Joined ==
    ASSUME NEW p \in Seq(Runs), NEW q \in Seq(Runs)
    PROVE  /\ p \o q \in Seq(Runs) /\ Len(p \o q) = Len(p) + Len(q)
           /\ \A i \in 1 .. Len(p) : (p \o q)[i] = p[i]
           /\ \A i \in 1 .. Len(q) : (p \o q)[Len(p) + i] = q[i]
<1>1. p \o q \in Seq(Runs) /\ Len(p \o q) = Len(p) + Len(q) /\ \A i \in 1 .. Len(p) : (p \o q)[i] = p[i]
  OBVIOUS
<1>2. ASSUME NEW i \in 1 .. Len(q) PROVE (p \o q)[Len(p) + i] = q[i]
  <2>1. PICK k \in 1 .. Len(p) + Len(q) : k = Len(p) + i /\ k > Len(p) /\ k - Len(p) = i
    OBVIOUS
  <2>2. (p \o q)[k] = q[k - Len(p)]
    BY <2>1
  <2> QED BY <2>1, <2>2
<1> QED BY <1>1, <1>2

\* What is left of a sequence before its last element.
LEMMA LastOf ==
    ASSUME NEW s \in Seq(Runs), NEW k \in Nat \ {0}, Len(s) = k
    PROVE  SubSeq(s, k, Len(s)) = <<s[k]>>
<1>1. SubSeq(s, k, k) = [i \in 1 .. 1 |-> s[k]]
  OBVIOUS
<1>2. <<s[k]>> = [i \in 1 .. 1 |-> s[k]]
  OBVIOUS
<1> QED BY <1>1, <1>2

\* A host in brackets needs no second look; one that is plain gets it.
LEMMA Looked ==
    ASSUME NEW h, NEW n, NEW s, NEW o
    PROVE  /\ LookupBracketed(h) = [node |-> n, service |-> s, ok |-> TRUE] /\ n # <<>>
                 => LookupAddress(h) = [node |-> n, service |-> s, ok |-> TRUE]
           /\ LookupBracketed(h) = [node |-> <<>>, service |-> Nothing, ok |-> TRUE]
              /\ LookupPlain(h) = [node |-> n, service |-> s, ok |-> o]
                 => LookupAddress(h) = [node |-> IF n = <<>> THEN h ELSE n, service |-> s, ok |-> o]
<1>1. ASSUME NEW x, NEW p
      PROVE  [[node |-> x, service |-> s, ok |-> p] EXCEPT !.node = IF @ = <<>> THEN h ELSE @]
                = [node |-> IF x = <<>> THEN h ELSE x, service |-> s, ok |-> p]
  OBVIOUS
<1>2. ASSUME LookupBracketed(h) = [node |-> n, service |-> s, ok |-> TRUE], n # <<>>
      PROVE  LookupAddress(h) = [node |-> n, service |-> s, ok |-> TRUE]
  BY <1>1, <1>2 DEF LookupAddress
<1>3. ASSUME LookupBracketed(h) = [node |-> <<>>, service |-> Nothing, ok |-> TRUE],
             LookupPlain(h) = [node |-> n, service |-> s, ok |-> o]
      PROVE  LookupAddress(h) = [node |-> IF n = <<>> THEN h ELSE n, service |-> s, ok |-> o]
  BY <1>1, <1>3 DEF LookupAddress
<1> QED BY <1>2, <1>3

\* what a caller can mean
Meanings == [node : Nodes, service : Services \cup {Nothing}, bracketed : BOOLEAN]

\* Lookup asks for what is meant.
LEMMA LookupKept ==
    ASSUME NEW a \in Meanings, NEW r, r = LookupAddress(HostOf(a))
    PROVE  IF IsV6(a.node) /\ ~a.bracketed
             THEN r.ok => r.service # Nothing /\ r.service[1] = ":"
             ELSE r = [node |-> a.node, ok |-> TRUE,
                       service |-> IF a.service = Nothing THEN Nothing ELSE <<a.service>>]
<1>1. PICK n \in Nodes : n = a.node
  BY DEF Meanings
<1>2. PICK v \in Services \cup {Nothing} : v = a.service
  BY DEF Meanings
<1>3. n \in Seq(Runs) /\ n # <<>> /\ Len(n) \in Nat \ {0} /\ DOMAIN n = 1 .. Len(n)
  BY AddressAssumption
<1>4. \A i \in 1 .. Len(n) : n[i] # "[" /\ n[i] # "]"
  BY <1>3, AddressAssumption
<1>5. v # Nothing => v \in Runs /\ v # ":"
  BY AddressAssumption
<1>6. \A q \in Seq(Runs) : q # Nothing
  BY AddressAssumption
<1>7. PICK tail : tail = IF v = Nothing THEN <<>> ELSE <<":", v>>
  OBVIOUS
<1>8. tail \in Seq(Runs) /\ Len(tail) = (IF v = Nothing THEN 0 ELSE 2)
      /\ (v # Nothing => tail[1] = ":" /\ tail[2] = v)
  <2>1. CASE v = Nothing
    BY <1>7, <2>1
  <2>2. CASE v # Nothing
    <3>1. tail = <<":", v>> /\ v \in Runs /\ ":" \in Runs
      BY <1>5, <1>7, <2>2, AddressAssumption
    <3>2. tail \in Seq(Runs) /\ Len(tail) = 2 /\ tail[1] = ":" /\ tail[2] = v
      BY <3>1
    <3> QED BY <2>2, <3>2
  <2> QED BY <2>1, <2>2
<1>9. CASE a.bracketed
  <2>1. PICK h : h = HostOf(a)
    OBVIOUS
  <2>2. h = (<<"[">> \o n \o <<"]">>) \o tail
    BY <1>1, <1>2, <1>7, <1>9, <2>1 DEF HostOf
  <2>3. PICK N \in Nat \ {0} : N = Len(n)
    BY <1>3
  <2>4. /\ h \in Seq(Runs) /\ Len(h) = N + 2 + Len(tail)
        /\ h[1] = "[" /\ h[N + 2] = "]"
        /\ \A i \in 1 .. N : h[i + 1] = n[i]
        /\ \A i \in 1 .. Len(tail) : h[N + 2 + i] = tail[i]
    <3>1. /\ <<"[">> \in Seq(Runs) /\ Len(<<"[">>) = 1 /\ <<"[">>[1] = "["
          /\ <<"]">> \in Seq(Runs) /\ Len(<<"]">>) = 1 /\ <<"]">>[1] = "]"
      BY AddressAssumption
    <3>2. PICK x \in Seq(Runs) : /\ x = <<"[">> \o n /\ Len(x) = 1 + N /\ x[1] = "["
                                   /\ \A i \in 1 .. N : x[1 + i] = n[i]
      <4>1. PICK b \in Seq(Runs) : b = <<"[">> /\ Len(b) = 1 /\ b[1] = "["
        BY <3>1
      <4>2. PICK x \in Seq(Runs) : x = b \o n
        BY <1>3, <4>1, Joined
      <4>3. /\ Len(x) = Len(b) + Len(n) /\ \A i \in 1 .. Len(b) : x[i] = b[i]
            /\ \A i \in 1 .. Len(n) : x[Len(b) + i] = n[i]
        BY <1>3, <4>2, Joined
      <4>4. Len(x) = 1 + N /\ x[1] = "[" /\ \A i \in 1 .. N : x[1 + i] = n[i]
        BY <2>3, <4>1, <4>3
      <4> QED BY <4>1, <4>2, <4>4
    <3>3. PICK y \in Seq(Runs) : /\ y = x \o <<"]">> /\ Len(y) = N + 2
                                   /\ \A i \in 1 .. N + 1 : y[i] = x[i]
                                   /\ y[N + 2] = "]"
      <4>1. PICK b \in Seq(Runs) : b = <<"]">> /\ Len(b) = 1 /\ b[1] = "]"
        BY <3>1
      <4>2. PICK y \in Seq(Runs) : y = x \o b
        BY <4>1, Joined
      <4>3. /\ Len(y) = Len(x) + Len(b) /\ \A i \in 1 .. Len(x) : y[i] = x[i]
            /\ \A i \in 1 .. Len(b) : y[Len(x) + i] = b[i]
        BY <4>2, Joined
      <4>4. Len(y) = N + 2 /\ \A i \in 1 .. N + 1 : y[i] = x[i]
        BY <3>2, <4>1, <4>3
      <4>5. y[N + 2] = "]"
        <5>1. 1 \in 1 .. Len(b) /\ Len(x) + 1 = N + 2
          BY <3>2, <4>1
        <5>2. y[Len(x) + 1] = b[1]
          BY <4>3, <5>1
        <5> QED BY <4>1, <5>1, <5>2
      <4> QED BY <4>1, <4>2, <4>4, <4>5
    <3>4. /\ h \in Seq(Runs) /\ Len(h) = N + 2 + Len(tail)
          /\ \A i \in 1 .. N + 2 : h[i] = y[i]
          /\ \A i \in 1 .. Len(tail) : h[N + 2 + i] = tail[i]
      <4>1. h = y \o tail
        BY <2>2, <3>2, <3>3
      <4>2. /\ h \in Seq(Runs) /\ Len(h) = Len(y) + Len(tail)
            /\ \A i \in 1 .. Len(y) : h[i] = y[i]
            /\ \A i \in 1 .. Len(tail) : h[Len(y) + i] = tail[i]
        BY <1>8, <4>1, Joined
      <4> QED BY <3>3, <4>2
    <3>5. 1 \in 1 .. N + 1 /\ 1 \in 1 .. N + 2 /\ N + 2 \in 1 .. N + 2
      OBVIOUS
    <3>6. h[1] = "[" /\ h[N + 2] = "]"
      BY <3>2, <3>3, <3>4, <3>5
    <3>7. ASSUME NEW i \in 1 .. N PROVE h[i + 1] = n[i]
      <4>1. i + 1 \in 1 .. N + 1 /\ i + 1 \in 1 .. N + 2 /\ 1 + i = i + 1
        OBVIOUS
      <4> QED BY <3>2, <3>3, <3>4, <4>1
    <3> QED BY <3>4, <3>6, <3>7
  <2>5. Find(h, "]") = N + 2
    <3>1. ASSUME NEW j \in 1 .. N + 1 PROVE h[j] # "]"
      <4>1. CASE j = 1
        BY <2>4, <4>1
      <4>2. CASE j # 1
        <5>1. PICK i \in 1 .. N : j = i + 1
          <6>1. j - 1 \in 1 .. N /\ j = (j - 1) + 1
            BY <4>2
          <6> QED BY <6>1
        <5> QED BY <1>4, <2>3, <2>4, <5>1
      <4> QED BY <4>1, <4>2
    <3>2. PICK c \in Nat : c = N + 2 /\ c - 1 = N + 1
      OBVIOUS
    <3>3. c \in 1 .. Len(h) /\ h[c] = "]" /\ \A j \in 1 .. c - 1 : h[j] # "]"
      BY <1>8, <2>4, <3>1, <3>2
    <3> QED BY <2>4, <3>2, <3>3, Found
  <2>6. SubSeq(h, 2, (N + 2) - 1) = n
    <3>1. SubSeq(h, 2, (N + 2) - 1) = [i \in 1 .. N |-> h[i + 1]]
      BY <2>4
    <3> QED BY <1>3, <2>3, <2>4, <3>1
  <2>7. CASE v = Nothing
    <3>1. Len(h) = N + 2
      BY <1>8, <2>4, <2>7
    <3>2. LookupBracketed(h) = [node |-> n, service |-> Nothing, ok |-> TRUE]
      <4>1. PICK c \in Nat : c = N + 2 /\ c # 0 /\ ~(c < Len(h)) /\ Len(h) # 0
        BY <3>1
      <4> QED BY <2>4, <2>5, <2>6, <4>1 DEF LookupBracketed
    <3>3. r = [node |-> n, service |-> Nothing, ok |-> TRUE]
      BY <1>3, <2>1, <3>2, Looked
    <3> QED BY <1>1, <1>2, <1>9, <2>7, <3>3
  <2>8. CASE v # Nothing
    <3>1. Len(h) = N + 4 /\ h[(N + 2) + 1] = ":" /\ h[N + 4] = v
      BY <1>8, <2>4, <2>8
    <3>2. After(h, (N + 2) + 2) = <<v>>
      BY <2>4, <3>1, LastOf DEF After
    <3>3. LookupBracketed(h) = [node |-> n, service |-> <<v>>, ok |-> TRUE]
      <4>1. PICK c \in Nat : /\ c = N + 2 /\ c # 0 /\ c < Len(h) /\ Len(h) # 0
                             /\ h[c + 1] = ":" /\ c + 2 <= Len(h) /\ After(h, c + 2) = <<v>>
        BY <3>1, <3>2
      <4> QED BY <2>4, <2>5, <2>6, <4>1 DEF LookupBracketed
    <3>4. r = [node |-> n, service |-> <<v>>, ok |-> TRUE]
      BY <1>3, <2>1, <3>3, Looked
    <3> QED BY <1>1, <1>2, <1>9, <2>8, <3>4
  <2> QED BY <2>7, <2>8
<1>10. CASE ~a.bracketed
  <2>1. PICK h : h = HostOf(a)
    OBVIOUS
  <2>2. h = n \o tail
    BY <1>1, <1>2, <1>7, <1>10, <2>1 DEF HostOf
  <2>3. PICK N \in Nat \ {0} : N = Len(n)
    BY <1>3
  <2>4. /\ h \in Seq(Runs) /\ Len(h) = N + Len(tail) /\ h # <<>>
        /\ \A i \in 1 .. N : h[i] = n[i]
        /\ \A i \in 1 .. Len(tail) : h[N + i] = tail[i]
    <3>1. /\ h \in Seq(Runs) /\ Len(h) = N + Len(tail)
          /\ \A i \in 1 .. N : h[i] = n[i]
          /\ \A i \in 1 .. Len(tail) : h[N + i] = tail[i]
      BY <1>3, <1>8, <2>2, <2>3, Joined
    <3>2. Len(h) # 0
      BY <1>8, <3>1
    <3> QED BY <3>1, <3>2
  <2>5. h[1] # "["
    BY <1>4, <2>3, <2>4
  <2>6. LookupBracketed(h) = [node |-> <<>>, service |-> Nothing, ok |-> TRUE]
    BY <2>5 DEF LookupBracketed
  <2>7. \A m, s, o : LookupPlain(h) = [node |-> m, service |-> s, ok |-> o]
                       => r = [node |-> IF m = <<>> THEN h ELSE m, service |-> s, ok |-> o]
    BY <2>1, <2>6, Looked
  <2>8. CASE IsV6(n)
    <3>1. PICK i \in 1 .. N : n[i] = ":"
      BY <1>3, <2>3, <2>8 DEF IsV6
    <3>2. PICK j \in 1 .. N : j # i /\ n[j] = ":"
      BY <1>3, <2>3, <3>1, AddressAssumption
    <3>3. h[i] = ":" /\ h[j] = ":" /\ i \in 1 .. Len(h) /\ j \in 1 .. Len(h)
      BY <1>8, <2>4, <3>1, <3>2
    <3>4. PICK c \in 0 .. Len(h) : c = Find(h, ":") /\ (c # 0 => h[c] = ":")
      BY <2>4, Found
    <3>5. CASE c = Len(h)
      <4>2. LookupPlain(h) = [node |-> <<>>, service |-> <<":">>, ok |-> FALSE]
        BY <1>8, <2>4, <3>4, <3>5 DEF LookupPlain
      <4>3. ~r.ok
        BY <2>7, <4>2
      <4> QED BY <1>1, <1>10, <2>8, <4>3
    <3>6. CASE c # Len(h)
      <4>1. c # 0
        BY <2>4, <3>3, <3>4, Found
      <4>2. \E m \in c + 1 .. Len(h) : h[m] = ":"
        <5>1. c <= i /\ c <= j
          BY <2>4, <3>3, <3>4, Found
        <5>2. i > c \/ j > c
          BY <3>2, <5>1
        <5> QED BY <3>3, <5>2
      <4>3. LookupPlain(h) = [node |-> <<>>, service |-> After(h, c), ok |-> TRUE]
        BY <3>4, <3>6, <4>1, <4>2 DEF LookupPlain
      <4>4. r.service = After(h, c)
        BY <2>7, <4>3
      <4>5. After(h, c) \in Seq(Runs) /\ After(h, c)[1] = ":"
        BY <2>4, <3>4, <4>1 DEF After
      <4>6. r.service # Nothing /\ r.service[1] = ":"
        BY <1>6, <4>4, <4>5
      <4> QED BY <1>1, <1>10, <2>8, <4>6
    <3> QED BY <3>5, <3>6
  <2>9. CASE ~IsV6(n)
    <3>1. \A i \in 1 .. N : h[i] # ":"
      BY <1>3, <2>3, <2>4, <2>9 DEF IsV6
    <3>2. CASE v = Nothing
      <4>1. Find(h, ":") = 0
        BY <1>8, <2>4, <3>1, <3>2, Found
      <4>2. LookupPlain(h) = [node |-> <<>>, service |-> Nothing, ok |-> TRUE]
        <5>1. Len(h) # 0 /\ ~ \E m \in 0 + 1 .. Len(h) : h[m] = ":"
          BY <1>8, <2>4, <3>1, <3>2
        <5> QED BY <4>1, <5>1 DEF LookupPlain
      <4>3. h = n
        BY <1>3, <1>7, <2>2, <3>2
      <4>4. r = [node |-> n, service |-> Nothing, ok |-> TRUE]
        BY <2>7, <4>2, <4>3
      <4> QED BY <1>1, <1>2, <1>10, <2>9, <3>2, <4>4
    <3>3. CASE v # Nothing
      <4>1. Len(h) = N + 2 /\ h[N + 1] = ":" /\ h[N + 2] = v
        BY <1>8, <2>4, <3>3
      <4>2. PICK c \in Nat : c = N + 1 /\ c - 1 = N /\ c + 1 = N + 2
        OBVIOUS
      <4>3. Find(h, ":") = c
        <5>1. c \in 1 .. Len(h) /\ h[c] = ":" /\ \A j \in 1 .. c - 1 : h[j] # ":"
          BY <3>1, <4>1, <4>2
        <5> QED BY <2>4, <5>1, Found
      <4>4. ~ \E m \in c + 1 .. Len(h) : h[m] = ":"
        <5>1. \A m \in c + 1 .. Len(h) : m = N + 2
          BY <4>1, <4>2
        <5> QED BY <1>5, <3>3, <4>1, <5>1
      <4>5. SubSeq(h, 1, c - 1) = n
        <5>1. SubSeq(h, 1, c - 1) = [i \in 1 .. N |-> h[i]]
          BY <2>4, <4>1, <4>2
        <5> QED BY <1>3, <2>3, <2>4, <5>1
      <4>6. After(h, c + 1) = <<v>>
        <5>1. PICK k \in Nat \ {0} : k = c + 1 /\ k = Len(h)
          BY <4>1, <4>2
        <5>2. SubSeq(h, k, Len(h)) = <<h[k]>>
          BY <2>4, <5>1, LastOf
        <5> QED BY <4>1, <4>2, <5>1, <5>2 DEF After
      <4>7. LookupPlain(h) = [node |-> n, service |-> <<v>>, ok |-> TRUE]
        <5>1. c # 0 /\ c # Len(h)
          BY <4>1, <4>2
        <5> QED BY <4>3, <4>4, <4>5, <4>6, <5>1 DEF LookupPlain
      <4>8. r = [node |-> n, service |-> <<v>>, ok |-> TRUE]
        BY <1>3, <2>7, <4>7
      <4> QED BY <1>1, <1>2, <1>10, <2>9, <3>3, <4>8
    <3> QED BY <3>2, <3>3
  <2> QED BY <2>8, <2>9
<1> QED BY <1>9, <1>10 DEF Meanings

-----------------------------------------------------------------------------
(* Addresses: prefixes.                                                    *)

\* A bit of a byte, and its byte.
LEMMA BitOf ==
    ASSUME NEW i \in Bits
    PROVE  /\ i \in Nat /\ i \div ByteBits \in 0 .. AddressBytes - 1 /\ i % ByteBits \in 0 .. ByteBits - 1
           /\ i = ByteBits * (i \div ByteBits) + (i % ByteBits)
<1>1. PICK b \in Nat \ {0} : b = ByteBits
  BY AddressAssumption
<1>2. PICK n \in Nat \ {0} : n = AddressBytes
  BY AddressAssumption
<1>3. n * b \in Nat /\ i \in 0 .. n * b - 1 /\ i \in Nat
  BY <1>1, <1>2 DEF Bits
<1>4. PICK q \in Nat : q = i \div b
  BY <1>3, QuotientNat
<1>5. PICK r \in 0 .. b - 1 : r = i % b
  <2>1. PICK j \in Int : j = i
    BY <1>3
  <2>2. j % b \in 0 .. b - 1
    BY Division
  <2> QED BY <2>1, <2>2
<1>6. i = b * q + r
  <2>1. i = b * (i \div b) + (i % b)
    BY <1>3, Division
  <2> QED BY <1>4, <1>5, <2>1
<1>7. q <= n - 1
  <2>1. b * q <= b * (n - 1) + (b - 1)
    <3>1. b * (n - 1) + b = n * b
      OBVIOUS
    <3>2. PICK x \in Nat : x = b * q
      OBVIOUS
    <3>3. PICK y \in Nat : y = n * b
      OBVIOUS
    <3>4. x <= y - 1
      BY <1>3, <1>6, <3>2, <3>3
    <3> QED BY <3>1, <3>2, <3>3, <3>4
  <2> QED BY <2>1, Products
<1> QED BY <1>1, <1>2, <1>3, <1>4, <1>5, <1>6, <1>7

\* The bit of a byte and a place in it.
LEMMA BitAt ==
    ASSUME NEW q \in 0 .. AddressBytes - 1, NEW r \in 0 .. ByteBits - 1
    PROVE  /\ q * ByteBits + r \in Bits
           /\ (q * ByteBits + r) \div ByteBits = q /\ (q * ByteBits + r) % ByteBits = r
<1>1. PICK b \in Nat \ {0} : b = ByteBits
  BY AddressAssumption
<1>2. PICK n \in Nat \ {0} : n = AddressBytes
  BY AddressAssumption
<1>3. q \in Nat /\ r \in 0 .. b - 1 /\ q <= n - 1
  BY <1>1, <1>2
<1>4. (b * q + r) \div b = q /\ (b * q + r) % b = r /\ b * q = q * b
  <2>1. (b * q + r) \div b = q /\ (b * q + r) % b = r
    <3>1. PICK t \in Int : t = q
      BY <1>3
    <3>2. PICK u \in 0 .. b - 1 : u = r
      BY <1>3
    <3>3. (b * t + u) \div b = t /\ (b * t + u) % b = u
      BY Divided
    <3> QED BY <3>1, <3>2, <3>3
  <2>2. b * q = q * b
    BY <1>3
  <2> QED BY <2>1, <2>2
<1>5. q * b + r \in 0 .. n * b - 1
  <2>1. q * b <= (n - 1) * b
    BY <1>3
  <2>2. (n - 1) * b = n * b - b
    OBVIOUS
  <2>3. PICK x \in Nat : x = q * b
    BY <1>3
  <2>4. PICK y \in Nat : y = n * b
    OBVIOUS
  <2> QED BY <1>3, <2>1, <2>2, <2>3, <2>4
<1> QED BY <1>1, <1>2, <1>4, <1>5 DEF Bits

\* the bit that takes the place of bit i when the bytes are swapped
Swapped(i) == (AddressBytes - 1 - (i \div ByteBits)) * ByteBits + (i % ByteBits)

\* Swapping twice swaps back.
LEMMA SwapsBack ==
    ASSUME NEW i \in Bits
    PROVE  /\ Swapped(i) \in Bits /\ Swapped(Swapped(i)) = i
           /\ Swapped(i) \div ByteBits = AddressBytes - 1 - (i \div ByteBits)
           /\ Swapped(i) % ByteBits = i % ByteBits
<1>1. PICK q \in 0 .. AddressBytes - 1 : q = i \div ByteBits
  BY BitOf
<1>2. PICK r \in 0 .. ByteBits - 1 : r = i % ByteBits
  BY BitOf
<1>3. PICK p \in 0 .. AddressBytes - 1 : p = AddressBytes - 1 - q /\ AddressBytes - 1 - p = q
  <2>1. AddressBytes - 1 - q \in 0 .. AddressBytes - 1 /\ AddressBytes - 1 - (AddressBytes - 1 - q) = q
    BY AddressAssumption
  <2> QED BY <2>1
<1>4. PICK k : k = Swapped(i)
  OBVIOUS
<1>5. k = p * ByteBits + r
  BY <1>1, <1>2, <1>3, <1>4 DEF Swapped
<1>6. k \in Bits /\ k \div ByteBits = p /\ k % ByteBits = r
  BY <1>5, BitAt
<1>7. Swapped(k) = q * ByteBits + r
  BY <1>3, <1>6 DEF Swapped
<1>8. i = q * ByteBits + r
  <2>1. i = ByteBits * q + r
    BY <1>1, <1>2, BitOf
  <2>2. ByteBits * q = q * ByteBits
    BY AddressAssumption
  <2> QED BY <2>1, <2>2
<1> QED BY <1>1, <1>2, <1>3, <1>4, <1>6, <1>7, <1>8

\* Swapping the bytes of a mask, and of the bits beside it.
LEMMA SwapMask ==
    ASSUME NEW mask \in SUBSET Bits
    PROVE  /\ Swap(mask) = {i \in Bits : Swapped(i) \in mask}
           /\ Swap(Bits \ mask) = Bits \ Swap(mask)
<1>1. ASSUME NEW m \in SUBSET Bits PROVE Swap(m) = {i \in Bits : Swapped(i) \in m}
  <2>1. Swap(m) = {Swapped(i) : i \in m}
    BY DEF Swap, Swapped
  <2>2. ASSUME NEW i \in m PROVE Swapped(i) \in Bits /\ Swapped(Swapped(i)) \in m
    BY SwapsBack
  <2>3. ASSUME NEW i \in Bits, Swapped(i) \in m PROVE i \in {Swapped(j) : j \in m}
    <3>1. i = Swapped(Swapped(i))
      BY SwapsBack
    <3> QED BY <2>3, <3>1
  <2> QED BY <2>1, <2>2, <2>3
<1>2. \A i \in Bits : Swapped(i) \in Bits
  BY SwapsBack
<1> QED BY <1>1, <1>2

\* A mask of n bits, swapped, has n bits.
LEMMA MaskSize ==
    ASSUME NEW n \in Nat, 0 .. n - 1 \subseteq Bits
    PROVE  Cardinality(Swap(0 .. n - 1)) = n
<1> DEFINE S == 0 .. n - 1
           U == Swap(S)
           f == [i \in S |-> Swapped(i)]
<1>1. \A i \in S : i \in Bits
  OBVIOUS
<1>2. U = {Swapped(i) : i \in S}
  BY DEF Swap, Swapped
<1>3. f \in Bijection(S, U)
  <2>1. f \in [S -> U]
    BY <1>2
  <2>2. \A i, j \in S : f[i] = f[j] => i = j
    <3> SUFFICES ASSUME NEW i \in S, NEW j \in S, Swapped(i) = Swapped(j) PROVE i = j
      OBVIOUS
    <3>1. i = Swapped(Swapped(i)) /\ j = Swapped(Swapped(j))
      BY <1>1, SwapsBack
    <3> QED BY <3>1
  <2>3. \A u \in U : \E i \in S : f[i] = u
    BY <1>2
  <2> HIDE DEF S, U, f
  <2> QED BY <2>1, <2>2, <2>3 DEF Bijection, Injection, Surjection, IsInjective
<1>4. IsFiniteSet(S) /\ Cardinality(S) = n
  <2>1. IsFiniteSet(0 .. n - 1) /\ Cardinality(0 .. n - 1) = IF 0 > n - 1 THEN 0 ELSE (n - 1) - 0 + 1
    BY FS_Interval
  <2> QED BY <2>1
<1>5. Cardinality(U) = Cardinality(S)
  <2> HIDE DEF S, U, f
  <2>1. ExistsBijection(S, U)
    BY <1>3 DEF ExistsBijection
  <2> QED BY <1>4, <2>1, FS_Bijection
<1> QED BY <1>4, <1>5

\* What a mask must be for a prefix of n bits.
PrefixKept(f, n) ==
    /\ f = "v4" => made \in MakeV4(bits, n)
    /\ f = "v6" => made \in MakeV6(bits, n)

AddressInv ==
    /\ bits \subseteq Bits /\ family \in {"v4", "v6"}
    /\ meant.node # <<>> => meant \in Meanings /\ lookedUp = LookupAddress(HostOf(meant))
    /\ prefix # 0 => prefix \in 1 .. AddressBytes * ByteBits /\ PrefixKept(family, prefix)

\* The addresses of an IPv4 prefix agree with each other, and are not those of the prefix.
LEMMA V4Made ==
    ASSUME NEW address \in SUBSET Bits, NEW n \in 1 .. AddressBytes * ByteBits,
           NEW m \in MakeV4(address, n)
    PROVE  /\ m.network = address \cap m.subnet
           /\ m.broadcast = address \cup (Bits \ m.subnet)
           /\ n < AddressBytes * ByteBits => Cardinality(m.subnet) = n /\ m.subnet # Covered(n)
<1>1. PICK w \in Nat : w = AddressBytes * ByteBits /\ Bits = 0 .. w - 1
  BY AddressAssumption DEF Bits
<1>2. PICK mask \in CreateMask(n, w) :
         m = [broadcast |-> address \cup Swap(Bits \ mask), network |-> address \cap Swap(mask),
              subnet |-> Swap(mask)]
  BY <1>1 DEF MakeV4
<1>3. mask \in SUBSET Bits /\ (n < w => mask = 0 .. n - 1)
  <2>1. CASE n < w
    <3>1. mask = 0 .. n - 1
      BY <1>2, <2>1 DEF CreateMask
    <3>2. n \in Nat
      BY <1>1
    <3> QED BY <1>1, <2>1, <3>1, <3>2
  <2>2. CASE ~(n < w)
    <3>1. mask \in {{}, 0 .. w - 1}
      BY <1>2, <2>2 DEF CreateMask
    <3> QED BY <1>1, <2>2, <3>1
  <2> QED BY <2>1, <2>2
<1>4. m.network = address \cap m.subnet /\ m.broadcast = address \cup (Bits \ m.subnet)
  BY <1>2, <1>3, SwapMask
<1>5. ASSUME n < w PROVE Cardinality(m.subnet) = n /\ m.subnet # Covered(n)
  <2>1. m.subnet = Swap(0 .. n - 1) /\ 0 .. n - 1 \in SUBSET Bits /\ n \in Nat
    BY <1>1, <1>2, <1>3, <1>5
  <2>2. Cardinality(m.subnet) = n
    BY <2>1, MaskSize
  <2>3. PICK q \in 0 .. AddressBytes - 1 : q = AddressBytes - 1
    BY AddressAssumption
  <2>4. 0 \in 0 .. ByteBits - 1
    BY AddressAssumption
  <2>5. PICK i \in Bits : i = q * ByteBits + 0 /\ i \div ByteBits = q /\ i % ByteBits = 0
    BY <2>3, <2>4, BitAt
  <2>6. Swapped(i) = 0
    <3>1. AddressBytes - 1 - q = 0
      BY <2>3, AddressAssumption
    <3>2. 0 * ByteBits + 0 = 0
      BY AddressAssumption
    <3> QED BY <2>5, <3>1, <3>2 DEF Swapped
  <2>7. i \in m.subnet
    <3>1. 0 \in 0 .. n - 1
      BY <1>1
    <3>2. PICK S \in SUBSET Bits : S = 0 .. n - 1
      BY <2>1
    <3>3. Swap(S) = {j \in Bits : Swapped(j) \in S}
      BY SwapMask
    <3>4. i \in Swap(S)
      BY <2>6, <3>1, <3>2, <3>3
    <3> QED BY <2>1, <3>2, <3>4
  <2>8. i \notin Covered(n)
    <3>1. PICK b \in Nat \ {0} : b = ByteBits
      BY AddressAssumption
    <3>2. PICK a \in Nat \ {0} : a = AddressBytes
      BY AddressAssumption
    <3>3. (a - 1) * b + (b - 1 - 0) = a * b - 1
      OBVIOUS
    <3>4. ~((i \div ByteBits) * ByteBits + (ByteBits - 1 - (i % ByteBits)) < n)
      BY <1>1, <1>5, <2>3, <2>5, <3>1, <3>2, <3>3
    <3> QED BY <3>4 DEF Covered
  <2> QED BY <2>2, <2>7, <2>8
<1> QED BY <1>1, <1>4, <1>5

\* Those of an IPv6 prefix of whole bytes are.
LEMMA V6Made ==
    ASSUME NEW address \in SUBSET Bits, NEW n \in 1 .. AddressBytes * ByteBits, n % ByteBits = 0,
           NEW m \in MakeV6(address, n)
    PROVE  /\ m.subnet = Covered(n)
           /\ m.broadcast = address \cup (Bits \ Covered(n))
           /\ m.network \cap (Bits \ FromByte(n \div ByteBits + 1)) = address \cap Covered(n)
<1>1. PICK b \in Nat \ {0} : b = ByteBits
  BY AddressAssumption
<1>2. n \in Nat /\ AddressBytes * b \in Nat
  BY <1>1, AddressAssumption
<1>3. PICK k \in Nat : k = n \div b
  BY <1>2, QuotientNat
<1>4. n = b * k
  <2>1. n = b * (n \div b) + (n % b)
    BY <1>2, Division
  <2>2. n = b * k + 0
    BY <1>1, <1>3, <2>1
  <2> QED BY <2>2
<1>5. CreateMask(0, b) = {{}}
  <2>1. 0 < b /\ 0 .. 0 - 1 = {}
    OBVIOUS
  <2> QED BY <2>1 DEF CreateMask
<1>6. m = [broadcast |-> address \cup InByte(k, (0 .. b - 1) \ {}) \cup FromByte(k + 1),
           network   |-> address \ InByte(k, (0 .. b - 1) \ {}),
           subnet    |-> InByte(k, {}) \cup BeforeByte(k)]
  BY <1>1, <1>3, <1>5 DEF MakeV6
<1>7. (0 .. b - 1) \ {} = 0 .. b - 1
  OBVIOUS
<1>8. InByte(k, {}) = {}
  BY DEF InByte
<1>9. ASSUME NEW i \in Bits
      PROVE  /\ i \in Covered(n) <=> i \div b < k
             /\ i \in InByte(k, 0 .. b - 1) <=> i \div b = k
             /\ \A j \in Nat : i \in FromByte(j) <=> i \div b >= j
             /\ i \div b \in Nat
  <2>1. PICK q \in Nat : q = i \div b
    BY <1>1, BitOf
  <2>2. PICK r \in 0 .. b - 1 : r = i % b
    BY <1>1, BitOf
  <2>3. i = b * q + r
    BY <1>1, <2>1, <2>2, BitOf
  <2>4. i \in Covered(n) <=> q * b + (b - 1 - r) < b * k
    BY <1>1, <1>4, <2>1, <2>2 DEF Covered
  <2>5. q * b + (b - 1 - r) < b * k <=> q < k
    <3>1. ASSUME q < k PROVE q * b + (b - 1 - r) < b * k
      <4>1. b * (q + 1) <= b * k /\ b * (q + 1) = b * q + b /\ q * b = b * q
        BY <3>1
      <4>2. PICK x \in Nat : x = b * q
        OBVIOUS
      <4>3. PICK y \in Nat : y = b * k
        OBVIOUS
      <4> QED BY <4>1, <4>2, <4>3
    <3>2. ASSUME k <= q PROVE ~(q * b + (b - 1 - r) < b * k)
      <4>1. b * k <= b * q /\ q * b = b * q
        BY <3>2
      <4>2. PICK x \in Nat : x = b * q
        OBVIOUS
      <4>3. PICK y \in Nat : y = b * k
        OBVIOUS
      <4> QED BY <4>1, <4>2, <4>3
    <3>3. q < k \/ k <= q
      OBVIOUS
    <3> QED BY <3>1, <3>2, <3>3
  <2>6. i \in InByte(k, 0 .. b - 1) <=> q = k
    <3>1. ASSUME i \in InByte(k, 0 .. b - 1) PROVE q = k
      <4>1. PICK s \in 0 .. b - 1 : i = k * b + s
        BY <1>1, <3>1 DEF InByte
      <4>2. (b * k + s) \div b = k /\ b * k = k * b
        <5>1. (b * k + s) \div b = k
          BY Divided
        <5>2. b * k = k * b
          OBVIOUS
        <5> QED BY <5>1, <5>2
      <4> QED BY <2>1, <4>1, <4>2
    <3>2. ASSUME q = k PROVE i \in InByte(k, 0 .. b - 1)
      <4>1. b * k = k * b
        OBVIOUS
      <4>2. i = k * b + r
        BY <2>3, <3>2, <4>1
      <4> QED BY <1>1, <4>2 DEF InByte
    <3> QED BY <3>1, <3>2
  <2>7. \A j \in Nat : i \in FromByte(j) <=> q >= j
    BY <1>1, <2>1 DEF FromByte
  <2> QED BY <2>1, <2>4, <2>5, <2>6, <2>7
<1>10. Covered(n) \subseteq Bits /\ InByte(k, 0 .. b - 1) \subseteq Bits
       /\ \A j : FromByte(j) \subseteq Bits /\ BeforeByte(j) = Bits \ FromByte(j)
  BY DEF Covered, InByte, FromByte, BeforeByte
<1>11. k + 1 \in Nat /\ \A q \in Nat : (q < k <=> ~(q >= k)) /\ (q >= k <=> q = k \/ q >= k + 1) /\ (q < k <=> q # k /\ ~(q >= k + 1))
  OBVIOUS
<1>12. m.subnet = Covered(n)
  <2>1. m.subnet = BeforeByte(k)
    BY <1>6, <1>8
  <2>2. \A i \in Bits : i \in BeforeByte(k) <=> i \in Covered(n)
    BY <1>9, <1>10, <1>11
  <2> QED BY <1>10, <2>1, <2>2
<1>13. m.broadcast = address \cup (Bits \ Covered(n))
  <2>1. m.broadcast = address \cup InByte(k, 0 .. b - 1) \cup FromByte(k + 1)
    BY <1>6, <1>7
  <2>2. \A i \in Bits : i \in InByte(k, 0 .. b - 1) \/ i \in FromByte(k + 1) <=> i \notin Covered(n)
    BY <1>9, <1>11
  <2> QED BY <1>10, <2>1, <2>2
<1>14. m.network \cap (Bits \ FromByte(k + 1)) = address \cap Covered(n)
  <2>1. m.network = address \ InByte(k, 0 .. b - 1)
    BY <1>6, <1>7
  <2>2. \A i \in Bits : i \notin InByte(k, 0 .. b - 1) /\ i \notin FromByte(k + 1) <=> i \in Covered(n)
    BY <1>9, <1>11
  <2> QED BY <1>10, <2>1, <2>2
<1> QED BY <1>1, <1>3, <1>12, <1>13, <1>14

\* What is looked up is what is meant, and what is made is what is made of the address.
LEMMA AddressInvSuffices == AddressInv => AddressesAsAsked
<1> SUFFICES ASSUME AddressInv PROVE AddressesAsAsked
  OBVIOUS
<1>1. ASSUME meant.node # <<>>
      PROVE  IF IsV6(meant.node) /\ ~meant.bracketed
               THEN lookedUp.ok => lookedUp.service # Nothing /\ lookedUp.service[1] = ":"
               ELSE lookedUp = [node |-> meant.node, ok |-> TRUE,
                         service |-> IF meant.service = Nothing THEN Nothing ELSE <<meant.service>>]
  <2>1. PICK a \in Meanings : a = meant /\ lookedUp = LookupAddress(HostOf(a))
    BY <1>1 DEF AddressInv
  <2>2. PICK r : r = lookedUp
    OBVIOUS
  <2>3. IF IsV6(a.node) /\ ~a.bracketed
          THEN r.ok => r.service # Nothing /\ r.service[1] = ":"
          ELSE r = [node |-> a.node, ok |-> TRUE,
                    service |-> IF a.service = Nothing THEN Nothing ELSE <<a.service>>]
    BY <2>1, <2>2, LookupKept
  <2> QED BY <2>1, <2>2, <2>3
<1>2. ASSUME prefix # 0, family = "v4"
      PROVE  /\ made.network = bits \cap made.subnet
             /\ made.broadcast = bits \cup (Bits \ made.subnet)
             /\ prefix < AddressBytes * ByteBits
                   => Cardinality(made.subnet) = prefix /\ made.subnet # Covered(prefix)
  <2>1. PICK n \in 1 .. AddressBytes * ByteBits : n = prefix
    BY <1>2 DEF AddressInv
  <2>2. PICK address \in SUBSET Bits : address = bits
    BY DEF AddressInv
  <2>3. PICK m \in MakeV4(address, n) : m = made
    BY <1>2, <2>1, <2>2 DEF AddressInv, PrefixKept
  <2> QED BY <2>1, <2>2, <2>3, V4Made
<1>3. ASSUME prefix # 0, family = "v6", prefix % ByteBits = 0
      PROVE  /\ made.subnet = Covered(prefix)
             /\ made.broadcast = bits \cup (Bits \ Covered(prefix))
             /\ made.network \cap (Bits \ FromByte(prefix \div ByteBits + 1))
                   = bits \cap Covered(prefix)
  <2>1. PICK n \in 1 .. AddressBytes * ByteBits : n = prefix
    BY <1>3 DEF AddressInv
  <2>2. PICK address \in SUBSET Bits : address = bits
    BY DEF AddressInv
  <2>3. PICK m \in MakeV6(address, n) : m = made
    BY <1>3, <2>1, <2>2 DEF AddressInv, PrefixKept
  <2>4. n % ByteBits = 0
    BY <1>3, <2>1
  <2>5. /\ m.subnet = Covered(n)
        /\ m.broadcast = address \cup (Bits \ Covered(n))
        /\ m.network \cap (Bits \ FromByte(n \div ByteBits + 1)) = address \cap Covered(n)
    BY <2>4, V6Made
  <2> QED BY <2>1, <2>2, <2>3, <2>5
<1> QED BY <1>1, <1>2, <1>3 DEF AddressesAsAsked

\* Lookup asks getaddrinfo() for the node and the service the caller means, whatever they
\* are, and the broadcast, network and subnet addresses of a prefix stand in the relations
\* AddressesAsAsked states, for addresses of any size.
THEOREM AddressesKept == AddressSpec => []AddressesAsAsked
<1>1. AddressInit => AddressInv
  BY DEF AddressInit, AddressInv
<1>2. AddressInv /\ [AddressNext]_addressVars => AddressInv'
  <2> SUFFICES ASSUME AddressInv, [AddressNext]_addressVars PROVE AddressInv'
    OBVIOUS
  <2>1. ASSUME NEW node \in Nodes, NEW service \in Services \cup {Nothing}, NEW bracketed \in BOOLEAN,
               DoLookup(node, service, bracketed)
        PROVE  AddressInv'
    <3>1. meant' \in Meanings
      BY <2>1 DEF DoLookup, Meanings
    <3> QED BY <2>1, <3>1 DEF DoLookup, AddressInv, PrefixKept
  <2>2. ASSUME NEW f \in {"v4", "v6"}, NEW n \in 1 .. AddressBytes * ByteBits, MakeAddresses(f, n)
        PROVE  AddressInv'
    BY <2>2 DEF MakeAddresses, AddressInv, PrefixKept
  <2>3. CASE UNCHANGED addressVars
    BY <2>3 DEF addressVars, AddressInv, PrefixKept
  <2> QED BY <2>1, <2>2, <2>3 DEF AddressNext
<1> QED BY <1>1, <1>2, AddressInvSuffices, PTL DEF AddressSpec

-----------------------------------------------------------------------------
(* HTTP: the parsers.                                                      *)

Units == {"bare", "sized", "chunked", "name", "value", "encoding", "end", "size", "eol", "last",
          "cr", "lf", "x", "y"}
States == {"start", "fields", "name", "value", "size", "final", "error"}
Parsers == [cs : States, nread : Nat, total : Nat, kind : Units, field : BOOLEAN,
            length : Nat, chunked : BOOLEAN, size : Nat]

\* The transitions are those of a function.
LEMMA Targets ==
    ASSUME NEW cs, NEW unit
    PROVE  /\ \A t \in Transitions : t[1] = cs /\ t[2] = unit => Target(cs, unit) = t[3]
           /\ (\A t \in Transitions : ~(t[1] = cs /\ t[2] = unit)) => Target(cs, unit) = "error"
           /\ Target(cs, unit) \in States
<1> DEFINE to == {t \in Transitions : t[1] = cs /\ t[2] = unit}
<1>1. Target(cs, unit) = IF to = {} THEN "error" ELSE (CHOOSE t \in to : TRUE)[3]
  BY DEF Target
<1>2. \A t, u \in Transitions : t[1] = u[1] /\ t[2] = u[2] => t[3] = u[3]
  BY DEF Transitions, FieldRows, RequestRows, ResponseRows, ChunkRows
<1>3. \A t \in Transitions : t[3] \in States
  BY DEF Transitions, FieldRows, RequestRows, ResponseRows, ChunkRows, States
<1>4. ASSUME NEW t \in to PROVE Target(cs, unit) = t[3]
  <2>1. PICK u \in to : u = CHOOSE v \in to : TRUE
    OBVIOUS
  <2>2. u[3] = t[3]
    BY <1>2
  <2> HIDE DEF to
  <2> QED BY <1>1, <2>1, <2>2
<1>5. (\A t \in Transitions : ~(t[1] = cs /\ t[2] = unit)) => Target(cs, unit) = "error"
  <2>1. SUFFICES ASSUME \A t \in Transitions : ~(t[1] = cs /\ t[2] = unit) PROVE Target(cs, unit) = "error"
    OBVIOUS
  <2>2. to = {}
    BY <2>1
  <2> HIDE DEF to
  <2> QED BY <1>1, <2>2
<1>6. Target(cs, unit) \in States
  <2>1. CASE to = {}
    <3> HIDE DEF to
    <3> QED BY <1>1, <2>1 DEF States
  <2>2. CASE to # {}
    <3>1. PICK t \in to : TRUE
      BY <2>2
    <3>2. Target(cs, unit) = t[3]
      BY <1>4
    <3> QED BY <1>3, <3>2
  <2> QED BY <2>1, <2>2
<1>7. \A t \in Transitions : t[1] = cs /\ t[2] = unit => Target(cs, unit) = t[3]
  BY <1>4
<1> QED BY <1>5, <1>6, <1>7

\* What one unit does to a parser.
LEMMA Consumed ==
    ASSUME NEW p \in Parsers, NEW unit \in Units
    PROVE  /\ Consume(p, unit) \in Parsers
           /\ p.cs \in {"final", "error"} => Consume(p, unit) = p
           /\ p.cs \notin {"final", "error"} =>
                LET q == Consume(p, unit) IN
                /\ q.cs = Target(p.cs, unit)
                /\ q.nread = IF q.cs = "error" THEN p.nread ELSE p.nread + 1
                /\ q.kind = IF p.cs = "start" THEN unit ELSE p.kind
                /\ q.field <=> (unit = "name" \/ (p.field /\ unit = "value"))
                /\ q.length = IF p.cs = "value" /\ p.field THEN 2 ELSE p.length
                /\ q.chunked <=> (p.chunked \/ unit \in {"encoding", "size", "last"})
                /\ q.size = IF unit = "size" THEN 2 ELSE p.size
<1>1. Len(Body) = 2
  BY DEF Body
<1>2. PICK to \in States : to = Target(p.cs, unit)
  BY Targets
<1>3. CASE p.cs \in {"final", "error"}
  BY <1>3 DEF Consume
<1>4. CASE p.cs \notin {"final", "error"}
  <2>1. Consume(p, unit) =
          [p EXCEPT !.cs = to,
                   !.nread = IF to = "error" THEN @ ELSE @ + 1,
                   !.kind = IF p.cs = "start" THEN unit ELSE @,
                   !.field = unit = "name" \/ (@ /\ unit = "value"),
                   !.length = IF p.cs = "value" /\ p.field THEN 2 ELSE @,
                   !.chunked = @ \/ unit \in {"encoding", "size", "last"},
                   !.size = IF unit = "size" THEN 2 ELSE @]
    BY <1>1, <1>2, <1>4 DEF Consume
  <2>2. Consume(p, unit) =
          [cs |-> to, nread |-> IF to = "error" THEN p.nread ELSE p.nread + 1, total |-> p.total,
           kind |-> IF p.cs = "start" THEN unit ELSE p.kind,
           field |-> unit = "name" \/ (p.field /\ unit = "value"),
           length |-> IF p.cs = "value" /\ p.field THEN 2 ELSE p.length,
           chunked |-> p.chunked \/ unit \in {"encoding", "size", "last"},
           size |-> IF unit = "size" THEN 2 ELSE p.size]
    BY <2>1 DEF Parsers
  <2>3. PICK n \in Nat : n = IF to = "error" THEN p.nread ELSE p.nread + 1
    BY DEF Parsers
  <2>4. PICK k \in Units : k = IF p.cs = "start" THEN unit ELSE p.kind
    BY DEF Parsers
  <2>5. PICK f \in BOOLEAN : f <=> (unit = "name" \/ (p.field /\ unit = "value"))
    OBVIOUS
  <2>6. PICK l \in Nat : l = IF p.cs = "value" /\ p.field THEN 2 ELSE p.length
    BY DEF Parsers
  <2>7. PICK c \in BOOLEAN : c <=> (p.chunked \/ unit \in {"encoding", "size", "last"})
    OBVIOUS
  <2>8. PICK z \in Nat : z = IF unit = "size" THEN 2 ELSE p.size
    BY DEF Parsers
  <2>9. p.total \in Nat /\ p.field \in BOOLEAN /\ p.chunked \in BOOLEAN
    BY DEF Parsers
  <2>10. PICK q : q = [cs |-> to, nread |-> n, total |-> p.total, kind |-> k, field |-> f,
                       length |-> l, chunked |-> c, size |-> z]
    OBVIOUS
  <2>11. Consume(p, unit) = q
    <3>1. f = (unit = "name" \/ (p.field /\ unit = "value"))
      BY <2>5, <2>9
    <3>2. c = (p.chunked \/ unit \in {"encoding", "size", "last"})
      BY <2>7, <2>9
    <3> QED BY <2>2, <2>3, <2>4, <2>6, <2>8, <2>10, <3>1, <3>2
  <2>12. q \in Parsers
    BY <1>2, <2>9, <2>10 DEF Parsers
  <2>13. /\ q.cs = to /\ q.nread = n /\ q.kind = k /\ q.field = f /\ q.length = l
         /\ q.chunked = c /\ q.size = z
    BY <2>10
  <2> QED BY <1>2, <1>4, <2>3, <2>4, <2>5, <2>6, <2>7, <2>8, <2>11, <2>12, <2>13
<1> QED BY <1>3, <1>4

\* The states a parser goes through.
LEMMA Executed ==
    ASSUME NEW p \in Parsers, NEW text \in Seq(Units)
    PROVE  \E run \in [0 .. Len(text) -> Parsers] :
              /\ run[0] = [p EXCEPT !.nread = 0, !.field = FALSE]
              /\ \A k \in 1 .. Len(text) : run[k] = Consume(run[k - 1], text[k])
              /\ Execute(p, text) = [run[Len(text)] EXCEPT !.total =
                    IF role = "request" THEN p.total + run[Len(text)].nread ELSE run[Len(text)].nread]
<1>1. PICK N \in Nat : N = Len(text)
  OBVIOUS
<1>2. PICK a \in Parsers : a = [p EXCEPT !.nread = 0, !.field = FALSE]
  BY DEF Parsers
<1>3. PICK next : next = [t \in Parsers \X (1 .. N) |-> Consume(t[1], text[t[2]])]
  OBVIOUS
<1>4. next \in [Parsers \X (1 .. N) -> Parsers] /\ \A q \in Parsers, k \in 1 .. N : next[<<q, k>>] = Consume(q, text[k])
  <2>1. \A q \in Parsers, k \in 1 .. N : text[k] \in Units /\ Consume(q, text[k]) \in Parsers
    BY <1>1, Consumed
  <2>2. \A t \in Parsers \X (1 .. N) : Consume(t[1], text[t[2]]) \in Parsers
    BY <2>1
  <2> QED BY <1>3, <2>2
<1>5. PICK f \in [0 .. N -> Parsers] : f[0] = a /\ \A k \in 1 .. N : f[k] = next[<<f[k - 1], k>>]
  <2> HIDE DEF Parsers
  <2>1. next \in [Parsers \X (1 .. N) -> Parsers]
    BY <1>4
  <2>2. \E f \in [0 .. N -> Parsers] : f[0] = a /\ \A k \in 1 .. N : f[k] = next[<<f[k - 1], k>>]
    <3>1. PICK T : T = Parsers
      OBVIOUS
    <3>2. a \in T /\ N \in Nat /\ next \in Turns(T, N)
      BY <2>1, <3>1 DEF Turns
    <3>3. \E f \in [0 .. N -> T] : f[0] = a /\ \A k \in 1 .. N : f[k] = next[<<f[k - 1], k>>]
      BY <3>2, Folded
    <3> QED BY <3>1, <3>3
  <2> QED BY <2>2
<1>6. f = [k \in 0 .. N |-> IF k = 0 THEN a ELSE Consume(f[k - 1], text[k])]
  <2>1. ASSUME NEW k \in 0 .. N PROVE f[k] = IF k = 0 THEN a ELSE Consume(f[k - 1], text[k])
    <3>1. k = 0 \/ (k \in 1 .. N /\ k - 1 \in 0 .. N)
      OBVIOUS
    <3> QED BY <1>4, <1>5, <3>1
  <2> QED BY <2>1
<1>a. f = [k \in 0 .. Len(text) |-> IF k = 0 THEN [p EXCEPT !.nread = 0, !.field = FALSE]
                                   ELSE Consume(f[k - 1], text[k])]
  BY <1>1, <1>2, <1>6
<1>7. PICK run : /\ run = [k \in 0 .. N |-> IF k = 0 THEN a ELSE Consume(run[k - 1], text[k])]
                 /\ Execute(p, text) = [run[N] EXCEPT !.total =
                       IF role = "request" THEN p.total + run[N].nread ELSE run[N].nread]
  <2> DEFINE R == CHOOSE run : run = [k \in 0 .. Len(text) |-> IF k = 0 THEN [p EXCEPT !.nread = 0, !.field = FALSE]
                                                                      ELSE Consume(run[k - 1], text[k])]
  <2>1. R = [k \in 0 .. Len(text) |-> IF k = 0 THEN [p EXCEPT !.nread = 0, !.field = FALSE]
                                                  ELSE Consume(R[k - 1], text[k])]
    BY <1>a, Zenon
  <2>2. Execute(p, text) = [R[Len(text)] EXCEPT !.total =
                       IF role = "request" THEN p.total + R[Len(text)].nread ELSE R[Len(text)].nread]
    BY Zenon DEF Execute
  <2> HIDE DEF R
  <2> QED BY <1>1, <1>2, <2>1, <2>2
<1>8. run[0] = a /\ \A k \in 1 .. N : run[k] = Consume(run[k - 1], text[k])
  <2>1. \A k \in 0 .. N : run[k] = IF k = 0 THEN a ELSE Consume(run[k - 1], text[k])
    <3>1. run = [k \in 0 .. N |-> IF k = 0 THEN a ELSE Consume(run[k - 1], text[k])]
      BY <1>7
    <3> QED BY <3>1, Zenon
  <2>2. 0 \in 0 .. N /\ \A k \in 1 .. N : k \in 0 .. N /\ k # 0
    OBVIOUS
  <2> QED BY <2>1, <2>2
<1>9. \A k \in 0 .. N : run[k] \in Parsers
  <2> DEFINE S == {k \in Nat : k \in 0 .. N => run[k] \in Parsers}
  <2>1. ASSUME NEW k \in Nat, \A m \in 0 .. k - 1 : m \in S PROVE k \in S
    <3>1. SUFFICES ASSUME k \in 0 .. N PROVE run[k] \in Parsers
      OBVIOUS
    <3>2. CASE k = 0
      BY <1>8, <3>2
    <3>3. CASE k > 0
      <4>1. k - 1 \in 0 .. k - 1 /\ k - 1 \in 0 .. N /\ k \in 1 .. N
        BY <3>1, <3>3
      <4>2. k - 1 \in S
        BY <2>1, <4>1
      <4>3. run[k - 1] \in Parsers /\ text[k] \in Units
        BY <1>1, <4>1, <4>2
      <4>4. Consume(run[k - 1], text[k]) \in Parsers
        BY <4>3, Consumed
      <4> QED BY <1>8, <4>1, <4>4
    <3> QED BY <3>2, <3>3
  <2> HIDE DEF S
  <2>2. Nat \subseteq S
    BY <2>1, AllNumbers
  <2>3. 0 .. N \subseteq Nat
    OBVIOUS
  <2> QED BY <2>2, <2>3 DEF S
<1>10. run \in [0 .. N -> Parsers]
  BY <1>7, <1>9
<1> QED BY <1>1, <1>2, <1>7, <1>8, <1>10

\* A sequence of units after another.
LEMMA After2 ==
    ASSUME NEW p \in Seq(Units), NEW q \in Seq(Units)
    PROVE  /\ p \o q \in Seq(Units) /\ Len(p \o q) = Len(p) + Len(q)
           /\ \A i \in 1 .. Len(p) + Len(q) : (p \o q)[i] = IF i <= Len(p) THEN p[i] ELSE q[i - Len(p)]
OBVIOUS

\* The bodies and the messages, unit by unit.
LEMMA Messages ==
    /\ Body \in Seq(Units) /\ Len(Body) = 2 /\ Body[1] = "x" /\ Body[2] = "y"
    /\ Text("bare") \in Seq(Units) /\ Len(Text("bare")) = 2
    /\ Text("bare")[1] = "bare" /\ Text("bare")[2] = "end"
    /\ Text("sized") \in Seq(Units) /\ Len(Text("sized")) = 6
    /\ Text("sized")[1] = "sized" /\ Text("sized")[2] = "name" /\ Text("sized")[3] = "value"
    /\ Text("sized")[4] = "end" /\ Text("sized")[5] = "x" /\ Text("sized")[6] = "y"
    /\ Text("chunked") \in Seq(Units) /\ Len(Text("chunked")) = 13
    /\ Text("chunked")[1] = "chunked" /\ Text("chunked")[2] = "encoding" /\ Text("chunked")[3] = "end"
    /\ Text("chunked")[4] = "size" /\ Text("chunked")[5] = "eol" /\ Text("chunked")[6] = "x"
    /\ Text("chunked")[7] = "y" /\ Text("chunked")[8] = "cr" /\ Text("chunked")[9] = "lf"
    /\ Text("chunked")[10] = "last" /\ Text("chunked")[11] = "eol"
<1>1. Body \in Seq(Units) /\ Len(Body) = 2 /\ Body[1] = "x" /\ Body[2] = "y"
  BY DEF Body, Units
<1>2. /\ Text("bare") \in Seq(Units) /\ Len(Text("bare")) = 2
      /\ Text("bare")[1] = "bare" /\ Text("bare")[2] = "end"
  BY DEF Text, Units
<1>3. /\ Text("sized") \in Seq(Units) /\ Len(Text("sized")) = 6
      /\ Text("sized")[1] = "sized" /\ Text("sized")[2] = "name" /\ Text("sized")[3] = "value"
      /\ Text("sized")[4] = "end" /\ Text("sized")[5] = "x" /\ Text("sized")[6] = "y"
  <2>1. PICK s : s = <<"sized", "name", "value", "end">>
    OBVIOUS
  <2>2. /\ s \in Seq(Units) /\ Len(s) = 4
        /\ s[1] = "sized" /\ s[2] = "name" /\ s[3] = "value" /\ s[4] = "end"
    BY <2>1 DEF Units
  <2>3. Text("sized") = s \o Body
    BY <2>1 DEF Text
  <2>4. PICK u : u = s \o Body
    OBVIOUS
  <2>5. u \in Seq(Units) /\ Len(u) = 6 /\ \A i \in 1 .. 6 : u[i] = IF i <= 4 THEN s[i] ELSE Body[i - 4]
    <3>1. /\ s \o Body \in Seq(Units) /\ Len(s \o Body) = Len(s) + Len(Body)
          /\ \A i \in 1 .. Len(s) + Len(Body) : (s \o Body)[i] = IF i <= Len(s) THEN s[i] ELSE Body[i - Len(s)]
      BY <1>1, <2>2, <2>4, After2
    <3> QED BY <1>1, <2>2, <2>4, <3>1
  <2>6. u[1] = s[1] /\ u[2] = s[2] /\ u[3] = s[3] /\ u[4] = s[4] /\ u[5] = Body[1] /\ u[6] = Body[2]
    BY <2>5
  <2> QED BY <1>1, <2>2, <2>3, <2>4, <2>5, <2>6
<1>4. /\ Text("chunked") \in Seq(Units) /\ Len(Text("chunked")) = 13
      /\ Text("chunked")[1] = "chunked" /\ Text("chunked")[2] = "encoding" /\ Text("chunked")[3] = "end"
      /\ Text("chunked")[4] = "size" /\ Text("chunked")[5] = "eol" /\ Text("chunked")[6] = "x"
      /\ Text("chunked")[7] = "y" /\ Text("chunked")[8] = "cr" /\ Text("chunked")[9] = "lf"
      /\ Text("chunked")[10] = "last" /\ Text("chunked")[11] = "eol"
  <2>1. PICK s : s = <<"chunked", "encoding", "end", "size", "eol">>
    OBVIOUS
  <2>2. /\ s \in Seq(Units) /\ Len(s) = 5
        /\ s[1] = "chunked" /\ s[2] = "encoding" /\ s[3] = "end" /\ s[4] = "size" /\ s[5] = "eol"
    BY <2>1 DEF Units
  <2>3. PICK t : t = <<"cr", "lf", "last", "eol", "cr", "lf">>
    OBVIOUS
  <2>4. /\ t \in Seq(Units) /\ Len(t) = 6
        /\ t[1] = "cr" /\ t[2] = "lf" /\ t[3] = "last" /\ t[4] = "eol"
    BY <2>3 DEF Units
  <2>5. PICK u : u = s \o Body
    OBVIOUS
  <2>6. u \in Seq(Units) /\ Len(u) = 7 /\ \A i \in 1 .. 7 : u[i] = IF i <= 5 THEN s[i] ELSE Body[i - 5]
    <3>1. /\ s \o Body \in Seq(Units) /\ Len(s \o Body) = Len(s) + Len(Body)
          /\ \A i \in 1 .. Len(s) + Len(Body) : (s \o Body)[i] = IF i <= Len(s) THEN s[i] ELSE Body[i - Len(s)]
      BY <1>1, <2>2, <2>5, After2
    <3> QED BY <1>1, <2>2, <2>5, <3>1
  <2>7. /\ u[1] = s[1] /\ u[2] = s[2] /\ u[3] = s[3] /\ u[4] = s[4] /\ u[5] = s[5]
        /\ u[6] = Body[1] /\ u[7] = Body[2]
    BY <2>6
  <2>8. PICK w : w = u \o t
    OBVIOUS
  <2>9. w \in Seq(Units) /\ Len(w) = 13 /\ \A i \in 1 .. 13 : w[i] = IF i <= 7 THEN u[i] ELSE t[i - 7]
    <3>1. /\ u \o t \in Seq(Units) /\ Len(u \o t) = Len(u) + Len(t)
          /\ \A i \in 1 .. Len(u) + Len(t) : (u \o t)[i] = IF i <= Len(u) THEN u[i] ELSE t[i - Len(u)]
      BY <2>4, <2>6, <2>8, After2
    <3>2. Len(u) = 7 /\ Len(t) = 6
      BY <2>4, <2>6
    <3>3. Len(u) + Len(t) = 13
      BY <3>2
    <3>4. w \in Seq(Units) /\ Len(w) = 13
      BY <2>8, <3>1, <3>3
    <3>5. \A i \in 1 .. 13 : w[i] = IF i <= 7 THEN u[i] ELSE t[i - 7]
      BY <2>8, <3>1, <3>2, <3>3
    <3> QED BY <3>4, <3>5
  <2>10. /\ w[1] = u[1] /\ w[2] = u[2] /\ w[3] = u[3] /\ w[4] = u[4] /\ w[5] = u[5] /\ w[6] = u[6]
         /\ w[7] = u[7] /\ w[8] = t[1] /\ w[9] = t[2] /\ w[10] = t[3] /\ w[11] = t[4]
    BY <2>9
  <2>11. Text("chunked") = w
    BY <2>1, <2>3, <2>5, <2>8 DEF Text
  <2> QED BY <1>1, <2>2, <2>4, <2>7, <2>9, <2>10, <2>11
<1> QED BY <1>1, <1>2, <1>3, <1>4

\* where the head of a message ends, and the parser's state after i of its units, of which
\* this call has read those after the first c
HeadLen(kind) == IF kind = "bare" THEN 2 ELSE IF kind = "sized" THEN 4 ELSE 3
Stage(kind, i) ==
    IF i = 0 THEN "start" ELSE IF i = HeadLen(kind) THEN "final"
    ELSE IF kind = "sized" /\ i = 2 THEN "name" ELSE IF kind = "sized" /\ i = 3 THEN "value" ELSE "fields"
At(p, kind, i, c) ==
    /\ p.cs = Stage(kind, i) /\ p.nread = i - c /\ (i > 0 => p.kind = kind)
    /\ p.field <=> (kind = "sized" /\ i \in {2, 3})
    /\ p.length = IF kind = "sized" /\ i = 4 THEN 2 ELSE 0
    /\ p.chunked <=> (kind = "chunked" /\ i >= 2)

\* a parser as a call begins
Anew(p) == [p EXCEPT !.nread = 0, !.field = FALSE]

\* The lengths of the messages and of their heads.
LEMMA Lengths ==
    ASSUME NEW kind \in {"bare", "sized", "chunked"}
    PROVE  /\ Text(kind) \in Seq(Units) /\ Len(Text(kind)) \in {2, 6, 13} /\ HeadLen(kind) \in {2, 3, 4}
           /\ HeadLen(kind) <= Len(Text(kind))
           /\ kind = "bare"    => HeadLen(kind) = 2 /\ Len(Text(kind)) = 2
           /\ kind = "sized"   => HeadLen(kind) = 4 /\ Len(Text(kind)) = 6
           /\ kind = "chunked" => HeadLen(kind) = 3 /\ Len(Text(kind)) = 13
<1>1. CASE kind = "bare"
  BY <1>1, Messages DEF HeadLen
<1>2. CASE kind = "sized"
  BY <1>2, Messages DEF HeadLen
<1>3. CASE kind = "chunked"
  BY <1>3, Messages DEF HeadLen
<1> QED BY <1>1, <1>2, <1>3

\* One unit of a head.
LEMMA HeadUnit ==
    ASSUME NEW kind \in Kinds, NEW p \in Parsers, NEW i \in 0 .. HeadLen(kind) - 1, NEW c \in 0 .. i,
           At(p, kind, i, c), role \in {"request", "response"}
    PROVE  At(Consume(p, Text(kind)[i + 1]), kind, i + 1, c)
<1>1. kind \in {"bare", "sized"} \/ (kind = "chunked" /\ role = "response")
  BY DEF Kinds
<1>2. HeadLen(kind) \in {2, 3, 4} /\ i \in {0, 1, 2, 3} /\ i < HeadLen(kind) /\ c \in Nat
  BY DEF HeadLen
<1>3. PICK unit \in Units : unit = Text(kind)[i + 1]
  <2>1. i + 1 \in 1 .. Len(Text(kind)) /\ Text(kind) \in Seq(Units)
    <3>1. Text(kind) \in Seq(Units) /\ Len(Text(kind)) \in {2, 6, 13} /\ HeadLen(kind) <= Len(Text(kind))
      <4>1. CASE kind = "bare"
        BY <4>1, Messages DEF HeadLen
      <4>2. CASE kind = "sized"
        BY <4>2, Messages DEF HeadLen
      <4>3. CASE kind = "chunked"
        BY <4>3, Messages DEF HeadLen
      <4> QED BY <1>1, <4>1, <4>2, <4>3
    <3> QED BY <1>2, <3>1
  <2> QED BY <2>1
<1>u. /\ kind = "bare" => (i = 0 /\ unit = "bare") \/ (i = 1 /\ unit = "end")
      /\ kind = "sized" => \/ i = 0 /\ unit = "sized"
                           \/ i = 1 /\ unit = "name"
                           \/ i = 2 /\ unit = "value"
                           \/ i = 3 /\ unit = "end"
      /\ kind = "chunked" => \/ i = 0 /\ unit = "chunked"
                             \/ i = 1 /\ unit = "encoding"
                             \/ i = 2 /\ unit = "end"
  <2>1. kind = "bare" => (i = 0 /\ unit = "bare") \/ (i = 1 /\ unit = "end")
    BY <1>2, <1>3, Messages DEF HeadLen
  <2>2. kind = "sized" => \/ i = 0 /\ unit = "sized"
                          \/ i = 1 /\ unit = "name"
                          \/ i = 2 /\ unit = "value"
                          \/ i = 3 /\ unit = "end"
    BY <1>2, <1>3, Messages DEF HeadLen
  <2>3. kind = "chunked" => \/ i = 0 /\ unit = "chunked"
                            \/ i = 1 /\ unit = "encoding"
                            \/ i = 2 /\ unit = "end"
    BY <1>2, <1>3, Messages DEF HeadLen
  <2> QED BY <2>1, <2>2, <2>3
<1>4. PICK q : q = Consume(p, unit)
  OBVIOUS
<1>5. p.cs = Stage(kind, i) /\ p.cs \notin {"final", "error"}
  BY <1>2 DEF At, Stage
<1>6. /\ q.cs = Target(p.cs, unit)
      /\ q.nread = IF q.cs = "error" THEN p.nread ELSE p.nread + 1
      /\ q.kind = IF p.cs = "start" THEN unit ELSE p.kind
      /\ q.field <=> (unit = "name" \/ (p.field /\ unit = "value"))
      /\ q.length = IF p.cs = "value" /\ p.field THEN 2 ELSE p.length
      /\ q.chunked <=> (p.chunked \/ unit \in {"encoding", "size", "last"})
  BY <1>4, <1>5, Consumed
<1>7. <<p.cs, unit, Stage(kind, i + 1)>> \in Transitions
  <2>1. CASE kind = "bare"
    BY <1>1, <1>5, <1>u, <2>1
       DEF Stage, HeadLen, Transitions, FieldRows, RequestRows, ResponseRows
  <2>2. CASE kind = "sized"
    BY <1>1, <1>5, <1>u, <2>2
       DEF Stage, HeadLen, Transitions, FieldRows, RequestRows, ResponseRows
  <2>3. CASE kind = "chunked"
    BY <1>1, <1>5, <1>u, <2>3
       DEF Stage, HeadLen, Transitions, FieldRows, ResponseRows
  <2> QED BY <1>1, <2>1, <2>2, <2>3
<1>8. q.cs = Stage(kind, i + 1)
  <2>1. PICK t \in Transitions : t = <<p.cs, unit, Stage(kind, i + 1)>>
    BY <1>7
  <2>2. t[1] = p.cs /\ t[2] = unit /\ t[3] = Stage(kind, i + 1)
    BY <2>1
  <2> QED BY <1>6, <2>1, <2>2, Targets
<1>9. q.cs # "error" /\ q.nread = i + 1 - c
  BY <1>2, <1>6, <1>8 DEF At, Stage
<1>10. q.kind = kind
  BY <1>1, <1>5, <1>6, <1>u DEF At, Stage, HeadLen
<1>11. q.field <=> (kind = "sized" /\ i + 1 \in {2, 3})
  <2>1. p.field <=> (kind = "sized" /\ i \in {2, 3})
    BY DEF At
  <2>2. (unit = "name" \/ ((kind = "sized" /\ i \in {2, 3}) /\ unit = "value")) <=> (kind = "sized" /\ i + 1 \in {2, 3})
    BY <1>1, <1>u
  <2> QED BY <1>6, <2>1, <2>2
<1>12. q.length = IF kind = "sized" /\ i + 1 = 4 THEN 2 ELSE 0
  BY <1>1, <1>2, <1>5, <1>6 DEF At, Stage, HeadLen
<1>13. q.chunked <=> (kind = "chunked" /\ i + 1 >= 2)
  <2>1. p.chunked <=> (kind = "chunked" /\ i >= 2)
    BY DEF At
  <2>2. ((kind = "chunked" /\ i >= 2) \/ unit \in {"encoding", "size", "last"}) <=> (kind = "chunked" /\ i + 1 >= 2)
    BY <1>1, <1>u
  <2> QED BY <1>6, <2>1, <2>2
<1> QED BY <1>3, <1>4, <1>8, <1>9, <1>10, <1>11, <1>12, <1>13 DEF At

\* A parser that has finished stays as it is.
LEMMA Stays ==
    ASSUME NEW N \in Nat, NEW text \in Seq(Units), Len(text) = N, NEW run \in [0 .. N -> Parsers],
           \A k \in 1 .. N : run[k] = Consume(run[k - 1], text[k]),
           NEW h \in 0 .. N, run[h].cs \in {"final", "error"}
    PROVE  run[N] = run[h]
<1> DEFINE S == {n \in Nat : h + n <= N => run[h + n] = run[h]}
<1>1. ASSUME NEW n \in Nat, \A m \in 0 .. n - 1 : m \in S PROVE n \in S
  <2>1. SUFFICES ASSUME h + n <= N, n # 0 PROVE run[h + n] = run[h]
    OBVIOUS
  <2>2. n - 1 \in 0 .. n - 1 /\ h + (n - 1) <= N /\ h + n \in 1 .. N /\ h + n - 1 = h + (n - 1)
    BY <2>1
  <2>3. run[h + (n - 1)] = run[h]
    BY <1>1, <2>2
  <2>4. run[h + n] = Consume(run[h], text[h + n])
    BY <2>2, <2>3
  <2>5. text[h + n] \in Units /\ run[h] \in Parsers
    BY <2>2
  <2> QED BY <2>4, <2>5, Consumed
<1>2. N - h \in S
  <2> HIDE DEF S
  <2>1. Nat \subseteq S
    BY <1>1, AllNumbers
  <2> QED BY <2>1
<1> QED BY <1>2

\* The head of a message, from its unit c on, as far as text has it.
LEMMA HeadRead ==
    ASSUME role \in {"request", "response"}, NEW kind \in Kinds,
           NEW c \in 0 .. HeadLen(kind) - 1, NEW p \in Parsers, At(Anew(p), kind, c, c),
           NEW text \in Seq(Units), \A i \in 1 .. Len(text) : c + i <= HeadLen(kind) => text[i] = Text(kind)[c + i]
    PROVE  LET q == Execute(p, text) IN
           /\ q \in Parsers
           /\ Len(text) >= HeadLen(kind) - c => At(q, kind, HeadLen(kind), c)
           /\ Len(text) < HeadLen(kind) - c => At(q, kind, c + Len(text), c)
           /\ q.total = IF role = "request" THEN p.total + q.nread ELSE q.nread
<1>1. PICK N \in Nat : N = Len(text)
  OBVIOUS
<1>2. PICK run \in [0 .. N -> Parsers] :
              /\ run[0] = [p EXCEPT !.nread = 0, !.field = FALSE]
              /\ \A k \in 1 .. N : run[k] = Consume(run[k - 1], text[k])
              /\ Execute(p, text) = [run[N] EXCEPT !.total =
                    IF role = "request" THEN p.total + run[N].nread ELSE run[N].nread]
  <2>1. \E run \in [0 .. Len(text) -> Parsers] :
              /\ run[0] = [p EXCEPT !.nread = 0, !.field = FALSE]
              /\ \A k \in 1 .. Len(text) : run[k] = Consume(run[k - 1], text[k])
              /\ Execute(p, text) = [run[Len(text)] EXCEPT !.total =
                    IF role = "request" THEN p.total + run[Len(text)].nread ELSE run[Len(text)].nread]
    BY Executed, Zenon
  <2> QED BY <1>1, <2>1
<1>3. PICK h \in {2, 3, 4} : h = HeadLen(kind)
  BY DEF HeadLen
<1> DEFINE S == {n \in Nat : n <= N /\ c + n <= h => At(run[n], kind, c + n, c)}
<1>4. ASSUME NEW n \in Nat, \A m \in 0 .. n - 1 : m \in S PROVE n \in S
  <2>1. SUFFICES ASSUME n <= N, c + n <= h PROVE At(run[n], kind, c + n, c)
    OBVIOUS
  <2>2. CASE n = 0
    BY <1>2, <2>2 DEF Anew
  <2>3. CASE n # 0
    <3>1. n - 1 \in 0 .. n - 1 /\ n - 1 \in 0 .. N /\ n \in 1 .. N /\ c + (n - 1) \in 0 .. h - 1
      BY <2>1, <2>3
    <3>2. n - 1 \in S
      BY <1>4, <3>1
    <3>3. PICK i \in 0 .. h - 1 : i = c + (n - 1) /\ i + 1 = c + n /\ c \in 0 .. i
      BY <3>1
    <3>4. At(run[n - 1], kind, i, c)
      BY <2>1, <3>1, <3>2, <3>3
    <3>5. PICK r \in Parsers : r = run[n - 1]
      BY <3>1
    <3>6. At(Consume(r, Text(kind)[i + 1]), kind, i + 1, c)
      BY <1>3, <3>3, <3>4, <3>5, HeadUnit
    <3>7. text[n] = Text(kind)[c + n]
      BY <1>1, <1>3, <2>1, <3>1
    <3> QED BY <1>2, <3>1, <3>3, <3>5, <3>6, <3>7
  <2> QED BY <2>2, <2>3
<1>5. \A n \in 0 .. N : c + n <= h => At(run[n], kind, c + n, c)
  <2>1. Nat \subseteq S
    <3> HIDE DEF S
    <3> QED BY <1>4, AllNumbers
  <2> QED BY <2>1
<1>6. PICK q \in Parsers : q = run[N]
  OBVIOUS
<1>7. N >= h - c => At(q, kind, h, c)
  <2>1. SUFFICES ASSUME N >= h - c PROVE At(q, kind, h, c)
    OBVIOUS
  <2>2. h - c \in 0 .. N /\ c + (h - c) = h
    BY <1>3, <2>1
  <2>3. At(run[h - c], kind, h, c)
    BY <1>5, <2>2
  <2>4. run[h - c].cs = "final"
    BY <1>3, <2>3 DEF At, Stage
  <2>5. PICK k \in 0 .. N : k = h - c
    BY <2>2
  <2>6. run[N] = run[k]
    <3>1. /\ Len(text) = N /\ run[k].cs \in {"final", "error"}
          /\ \A j \in 1 .. N : run[j] = Consume(run[j - 1], text[j])
      BY <1>1, <1>2, <2>4, <2>5
    <3> HIDE DEF S
    <3> QED BY <3>1, Stays
  <2> QED BY <1>6, <2>3, <2>5, <2>6
<1>8. N < h - c => At(q, kind, c + N, c)
  BY <1>3, <1>5, <1>6
<1>9. PICK t \in Nat : t = IF role = "request" THEN p.total + q.nread ELSE q.nread
  <2>1. p.total \in Nat /\ q.nread \in Nat
    BY DEF Parsers
  <2>2. p.total + q.nread \in Nat
    BY <2>1
  <2> QED BY <2>1, <2>2
<1>10. PICK r : r = Execute(p, text)
  OBVIOUS
<1>11. r = [q EXCEPT !.total = t]
  BY <1>2, <1>6, <1>9, <1>10
<1>12. /\ r \in Parsers /\ r.total = t /\ r.nread = q.nread /\ r.cs = q.cs /\ r.kind = q.kind
       /\ r.field = q.field /\ r.length = q.length /\ r.chunked = q.chunked
  BY <1>11 DEF Parsers
<1>13. \A i : At(q, kind, i, c) => At(r, kind, i, c)
  BY <1>12 DEF At
<1> QED BY <1>1, <1>3, <1>7, <1>8, <1>9, <1>10, <1>12, <1>13

\* A parser that meets what it cannot read.
LEMMA Refused ==
    ASSUME NEW p \in Parsers, p.cs \notin {"final", "error"}, NEW text \in Seq(Units), Len(text) >= 1,
           \A t \in Transitions : ~(t[1] = p.cs /\ t[2] = text[1])
    PROVE  Execute(p, text).cs = "error"
<1>1. PICK N \in Nat \ {0} : N = Len(text)
  OBVIOUS
<1>2. PICK run \in [0 .. N -> Parsers] :
              /\ run[0] = [p EXCEPT !.nread = 0, !.field = FALSE]
              /\ \A k \in 1 .. N : run[k] = Consume(run[k - 1], text[k])
              /\ Execute(p, text) = [run[N] EXCEPT !.total =
                    IF role = "request" THEN p.total + run[N].nread ELSE run[N].nread]
  <2>1. \E run \in [0 .. Len(text) -> Parsers] :
              /\ run[0] = [p EXCEPT !.nread = 0, !.field = FALSE]
              /\ \A k \in 1 .. Len(text) : run[k] = Consume(run[k - 1], text[k])
              /\ Execute(p, text) = [run[Len(text)] EXCEPT !.total =
                    IF role = "request" THEN p.total + run[Len(text)].nread ELSE run[Len(text)].nread]
    BY Executed, Zenon
  <2> QED BY <1>1, <2>1
<1>3. PICK r \in Parsers : r = run[0]
  BY <1>1
<1>4. r.cs = p.cs
  BY <1>2, <1>3 DEF Parsers
<1>5. PICK unit \in Units : unit = text[1]
  BY <1>1
<1>6. 1 \in 1 .. N /\ 1 - 1 = 0 /\ 1 \in 0 .. N
  OBVIOUS
<1>7. run[1] = Consume(r, unit)
  BY <1>2, <1>3, <1>5, <1>6
<1>8. run[1].cs = "error"
  <2>1. Target(r.cs, unit) = "error"
    BY <1>4, <1>5, Targets
  <2>2. Consume(r, unit).cs = Target(r.cs, unit)
    BY <1>4, Consumed
  <2> QED BY <1>7, <2>1, <2>2
<1>9. run[N].cs = "error"
  <2>1. PICK k \in 0 .. N : k = 1 /\ run[k].cs \in {"final", "error"}
    BY <1>6, <1>8
  <2>2. /\ Len(text) = N
        /\ \A j \in 1 .. N : run[j] = Consume(run[j - 1], text[j])
    BY <1>1, <1>2
  <2>3. run[N] = run[k]
    BY <2>1, <2>2, Stays
  <2> QED BY <1>8, <2>1, <2>3
<1>10. PICK q \in Parsers : q = run[N]
  BY <1>1
<1> QED BY <1>2, <1>9, <1>10 DEF Parsers

\* The line that begins a chunk.
LEMMA ChunkLine ==
    ASSUME role = "response", NEW text \in Seq(Units), Len(text) >= 1, text[1] \in {"size", "last"},
           Len(text) >= 2 => text[2] = "eol"
    PROVE  LET q == Execute(FreshParser, text) IN
           /\ Len(text) = 1 => q.cs = "size" /\ q.total = 1
           /\ Len(text) >= 2 => /\ q.cs = "final" /\ q.total = 2
                                /\ q.size = IF text[1] = "size" THEN 2 ELSE 0
<1>0. FreshParser \in Parsers
  BY DEF FreshParser, Parsers, States, Units
<1>1. PICK N \in Nat \ {0} : N = Len(text)
  OBVIOUS
<1>2. PICK run \in [0 .. N -> Parsers] :
              /\ run[0] = [FreshParser EXCEPT !.nread = 0, !.field = FALSE]
              /\ \A k \in 1 .. N : run[k] = Consume(run[k - 1], text[k])
              /\ Execute(FreshParser, text) = [run[N] EXCEPT !.total = run[N].nread]
  <2>1. \E run \in [0 .. Len(text) -> Parsers] :
              /\ run[0] = [FreshParser EXCEPT !.nread = 0, !.field = FALSE]
              /\ \A k \in 1 .. Len(text) : run[k] = Consume(run[k - 1], text[k])
              /\ Execute(FreshParser, text) = [run[Len(text)] EXCEPT !.total =
                    IF role = "request" THEN FreshParser.total + run[Len(text)].nread ELSE run[Len(text)].nread]
    BY <1>0, Executed, Zenon
  <2>2. role # "request"
    OBVIOUS
  <2> QED BY <1>1, <2>1, <2>2
<1>3. PICK r \in Parsers : r = run[0]
  BY <1>1
<1>4. r.cs = "start" /\ r.nread = 0 /\ r.size = 0
  BY <1>2, <1>3 DEF FreshParser
<1>5. PICK unit \in {"size", "last"} : unit = text[1] /\ unit \in Units
  BY <1>1
<1>6. PICK s \in Parsers : s = run[1]
  BY <1>1
<1>7. s = Consume(r, unit)
  <2>1. 1 \in 1 .. N /\ 1 - 1 = 0
    OBVIOUS
  <2> QED BY <1>2, <1>3, <1>5, <1>6, <2>1
<1>8. s.cs = "size" /\ s.nread = 1 /\ s.size = IF unit = "size" THEN 2 ELSE 0
  <2>1. <<"start", unit, "size">> \in Transitions
    BY DEF Transitions, ChunkRows
  <2>2. Target("start", unit) = "size"
    <3>1. PICK t \in Transitions : t = <<"start", unit, "size">>
      BY <2>1
    <3>2. t[1] = "start" /\ t[2] = unit /\ t[3] = "size"
      BY <3>1
    <3> QED BY <3>2, Targets
  <2>3. /\ s.cs = Target(r.cs, unit)
        /\ s.nread = IF s.cs = "error" THEN r.nread ELSE r.nread + 1
        /\ s.size = IF unit = "size" THEN 2 ELSE r.size
    BY <1>4, <1>5, <1>7, Consumed
  <2> QED BY <1>4, <2>2, <2>3
<1>9. CASE N = 1
  <2>1. Execute(FreshParser, text) = [s EXCEPT !.total = s.nread]
    BY <1>2, <1>6, <1>9
  <2>2. [s EXCEPT !.total = s.nread].cs = "size" /\ [s EXCEPT !.total = s.nread].total = 1
    BY <1>8 DEF Parsers
  <2> QED BY <1>1, <1>9, <2>1, <2>2
<1>10. CASE N >= 2
  <2>1. PICK u \in Parsers : u = run[2]
    BY <1>10
  <2>2. u = Consume(s, "eol")
    <3>1. 2 \in 1 .. N /\ 2 - 1 = 1 /\ text[2] = "eol"
      BY <1>1, <1>10
    <3> QED BY <1>2, <1>6, <2>1, <3>1
  <2>3. u.cs = "final" /\ u.nread = 2 /\ u.size = s.size
    <3>1. <<"size", "eol", "final">> \in Transitions
      BY DEF Transitions, ChunkRows
    <3>2. Target("size", "eol") = "final"
      <4>1. PICK t \in Transitions : t = <<"size", "eol", "final">>
        BY <3>1
      <4>2. t[1] = "size" /\ t[2] = "eol" /\ t[3] = "final"
        BY <4>1
      <4> QED BY <4>2, Targets
    <3>3. PICK e \in Units : e = "eol"
      BY DEF Units
    <3>4. /\ u.cs = Target(s.cs, e)
          /\ u.nread = IF u.cs = "error" THEN s.nread ELSE s.nread + 1
          /\ u.size = IF e = "size" THEN 2 ELSE s.size
      BY <1>8, <2>2, <3>3, Consumed
    <3> QED BY <1>8, <3>2, <3>3, <3>4
  <2>4. run[N] = u
    <3>1. PICK k \in 0 .. N : k = 2 /\ run[k].cs \in {"final", "error"}
      BY <1>10, <2>1, <2>3
    <3>2. /\ Len(text) = N
          /\ \A j \in 1 .. N : run[j] = Consume(run[j - 1], text[j])
      BY <1>1, <1>2
    <3>3. run[N] = run[k]
      BY <3>1, <3>2, Stays
    <3> QED BY <2>1, <3>1, <3>3
  <2>5. Execute(FreshParser, text) = [u EXCEPT !.total = u.nread]
    BY <1>2, <2>4
  <2>6. /\ [u EXCEPT !.total = u.nread].cs = "final" /\ [u EXCEPT !.total = u.nread].total = 2
        /\ [u EXCEPT !.total = u.nread].size = s.size
    BY <2>3 DEF Parsers
  <2>7. 2 # 1 /\ N # 1
    BY <1>10
  <2> QED BY <1>1, <1>5, <1>8, <2>5, <2>6, <2>7
<1> QED BY <1>9, <1>10

\* The beginning of a sequence, and the rest.
LEMMA Pieces ==
    ASSUME NEW w \in Seq(Units), NEW n \in 0 .. Len(w)
    PROVE  /\ SubSeq(w, 1, n) \in Seq(Units) /\ Len(SubSeq(w, 1, n)) = n
           /\ \A i \in 1 .. n : SubSeq(w, 1, n)[i] = w[i]
           /\ SubSeq(w, n + 1, Len(w)) \in Seq(Units) /\ Len(SubSeq(w, n + 1, Len(w))) = Len(w) - n
           /\ \A i \in 1 .. Len(w) - n : SubSeq(w, n + 1, Len(w))[i] = w[n + i]
<1>1. /\ SubSeq(w, 1, n) \in Seq(Units) /\ Len(SubSeq(w, 1, n)) = n
      /\ \A i \in 1 .. n : SubSeq(w, 1, n)[i] = w[i]
  OBVIOUS
<1>2. SubSeq(w, n + 1, Len(w)) \in Seq(Units) /\ Len(SubSeq(w, n + 1, Len(w))) = Len(w) - n
  OBVIOUS
<1>3. \A i \in 1 .. Len(w) - n : SubSeq(w, n + 1, Len(w))[i] = w[n + i]
  OBVIOUS
<1> QED BY <1>1, <1>2, <1>3

\* Short sequences.
LEMMA Shorts ==
    ASSUME NEW s \in Seq(Units)
    PROVE  /\ Len(s) = 0 => s = <<>>
           /\ Len(s) >= 2 /\ s[1] = "x" /\ s[2] = "y" => SubSeq(s, 1, 2) = Body
           /\ SubSeq(s, 1, 0) = <<>>
<1>1. Len(s) = 0 => s = <<>>
  OBVIOUS
<1>2. SubSeq(s, 1, 0) = <<>>
  OBVIOUS
<1>3. ASSUME Len(s) >= 2, s[1] = "x", s[2] = "y" PROVE SubSeq(s, 1, 2) = Body
  <2>1. PICK t : t = SubSeq(s, 1, 2)
    OBVIOUS
  <2>2. t \in Seq(Units) /\ Len(t) = 2 /\ t[1] = s[1] /\ t[2] = s[2]
    BY <1>3, <2>1
  <2>3. t = <<"x", "y">>
    BY <1>3, <2>2
  <2> QED BY <2>1, <2>3 DEF Body
<1> QED BY <1>1, <1>2, <1>3
-----------------------------------------------------------------------------
(* HTTP: what is received.                                                 *)

\* w is a message from its unit c + 1 on
TailOf(w, kind, c) ==
    /\ w \in Seq(Units) /\ Len(w) = Len(Text(kind)) - c
    /\ \A i \in 1 .. Len(w) : w[i] = Text(kind)[c + i]

\* w has each request from its first line on
Aligned(w) ==
    \A i \in 1 .. Len(w), kind \in {"bare", "sized"} : w[i] = kind =>
       \A j \in 1 .. Len(Text(kind)) : i + j - 1 \in 1 .. Len(w) /\ w[i + j - 1] = Text(kind)[j]

\* b is a body but for l units, which are the first of w
BodyAhead(w, l, b) ==
    /\ l \in {1, 2} /\ b \in Seq(Units) /\ Len(b) = 2 - l /\ l <= Len(w)
    /\ \A i \in 1 .. Len(b) : b[i] = Body[i]
    /\ \A i \in 1 .. l : w[i] = Body[2 - l + i]

\* p has read the first c units of a message, of which w is what is left, and no part of a field
HeadAt(w, p, kind, c) ==
    /\ TailOf(w, kind, c) /\ p \in Parsers /\ c \in 0 .. HeadLen(kind) - 1
    /\ Stage(kind, c) \in {"start", "fields"} /\ At(Anew(p), kind, c, c)

\* the buffer d and then w are a chunked message from its unit c + 1 on
ChunkAhead(d, w, c) ==
    /\ d \in Seq(Units) /\ w \in Seq(Units) /\ Len(d) + Len(w) = 13 - c
    /\ \A i \in 1 .. Len(d) : d[i] = Text("chunked")[c + i]
    /\ \A i \in 1 .. Len(w) : w[i] = Text("chunked")[c + Len(d) + i]

AllClean(s) == \A i \in 1 .. Len(s) : s[i].clean
BodiesKept(s) == \A i \in 1 .. Len(s) : s[i].clean => s[i].body = BodyOf(s[i].kind)

\* A server is at the beginning of a request, or what it did read was cut: then nothing is
\* claimed of it, until it answers.
RequestInv ==
    /\ Aligned(wire)
    /\ clean => /\ at \in {"head", "body", "serve", "failed", "done"}
                /\ at \in {"head", "serve"} => data = <<>> /\ parser = FreshParser
                /\ at = "body" => parser.kind = "sized" /\ BodyAhead(wire, left, body)
    /\ clean /\ ~pipelined /\ AllClean(received) =>
          /\ at = "head"  => \/ wire = <<>> /\ Len(received) = messages
                             \/ Len(received) + 1 = messages /\ \E kind \in {"bare", "sized"} : wire = Text(kind)
          /\ at = "body"  => Len(received) + 1 = messages /\ Len(wire) = left
          /\ at = "serve" => wire = <<>> /\ Len(received) = messages

\* A client is somewhere in the one response, after a head it has read in whole fields, or
\* at the beginning or after the line of a chunk.
ResponseInv ==
    clean => /\ at \in {"head", "body", "chunk", "failed", "done"}
             /\ at = "head"  => /\ data = <<>> /\ body = <<>>
                                /\ \/ messages = 0 /\ wire = <<>> /\ parser = FreshParser
                                   \/ messages = 1 /\ \E kind \in Kinds : \E c \in 0 .. 3 : HeadAt(wire, parser, kind, c)
             /\ at = "body"  => messages = 1 /\ parser.kind = "sized" /\ BodyAhead(wire, left, body)
             /\ at = "chunk" => /\ messages = 1 /\ parser.kind = "chunked"
                                /\ \E c \in {3, 4, 9, 10} : /\ ChunkAhead(data, wire, c)
                                                            /\ c # 3 => data = <<>>
                                                            /\ body = IF c < 9 THEN <<>> ELSE Body

HttpInv ==
    /\ role \in {"request", "response"} /\ messages \in Nat /\ clean \in BOOLEAN /\ wire \in Seq(Units)
    /\ \E S : received \in Seq(S)
    /\ BodiesKept(received)
    /\ at \in {"aborted", "corrupt"} => ~clean
    /\ role = "request" => RequestInv
    /\ role = "response" => ResponseInv

\* What is left of aligned requests is aligned.
LEMMA AlignedRest ==
    ASSUME NEW w \in Seq(Units), Aligned(w), NEW n \in 0 .. Len(w)
    PROVE  Aligned(SubSeq(w, n + 1, Len(w)))
<1>1. PICK v \in Seq(Units) : v = SubSeq(w, n + 1, Len(w)) /\ Len(v) = Len(w) - n
                              /\ \A i \in 1 .. Len(w) - n : v[i] = w[n + i]
  BY Pieces
<1>2. ASSUME NEW i \in 1 .. Len(v), NEW kind \in {"bare", "sized"}, v[i] = kind, NEW j \in 1 .. Len(Text(kind))
      PROVE  i + j - 1 \in 1 .. Len(v) /\ v[i + j - 1] = Text(kind)[j]
  <2>1. n + i \in 1 .. Len(w) /\ w[n + i] = kind
    BY <1>1, <1>2
  <2>2. Len(Text(kind)) \in Nat
    BY Messages
  <2>3. (n + i) + j - 1 \in 1 .. Len(w) /\ w[(n + i) + j - 1] = Text(kind)[j]
    BY <2>1 DEF Aligned
  <2>4. PICK k \in Nat : k = i + j - 1 /\ n + k = (n + i) + j - 1 /\ k >= 1
    BY <2>2
  <2>5. k \in 1 .. Len(w) - n
    BY <2>3, <2>4
  <2>6. v[k] = w[n + k]
    BY <1>1, <2>5
  <2> QED BY <1>1, <2>3, <2>4, <2>5, <2>6
<1>3. Aligned(v)
  BY <1>2 DEF Aligned
<1> QED BY <1>1, <1>3

\* One request more keeps them aligned.
LEMMA AlignedMore ==
    ASSUME NEW w \in Seq(Units), Aligned(w), NEW kind \in {"bare", "sized"}
    PROVE  w \o Text(kind) \in Seq(Units) /\ Aligned(w \o Text(kind))
<1>1. PICK t \in Seq(Units) : t = Text(kind)
  BY Messages
<1>2. PICK v \in Seq(Units) : v = w \o t /\ Len(v) = Len(w) + Len(t)
                              /\ \A i \in 1 .. Len(w) + Len(t) : v[i] = IF i <= Len(w) THEN w[i] ELSE t[i - Len(w)]
  BY After2
<1>3. ASSUME NEW i \in 1 .. Len(t), NEW k \in {"bare", "sized"}, t[i] = k PROVE i = 1 /\ k = kind
  <2>1. CASE kind = "bare"
    <3>1. Len(t) = 2 /\ t[1] = "bare" /\ t[2] = "end"
      BY <1>1, <2>1, Messages
    <3>2. i = 1 \/ i = 2
      BY <3>1
    <3> QED BY <1>3, <2>1, <3>1, <3>2
  <2>2. CASE kind = "sized"
    <3>1. /\ Len(t) = 6 /\ t[1] = "sized" /\ t[2] = "name" /\ t[3] = "value" /\ t[4] = "end"
          /\ t[5] = "x" /\ t[6] = "y"
      BY <1>1, <2>2, Messages
    <3>2. i = 1 \/ i = 2 \/ i = 3 \/ i = 4 \/ i = 5 \/ i = 6
      BY <3>1
    <3> QED BY <1>3, <2>2, <3>1, <3>2
  <2> QED BY <2>1, <2>2
<1>4. ASSUME NEW i \in 1 .. Len(v), NEW k \in {"bare", "sized"}, v[i] = k, NEW j \in 1 .. Len(Text(k))
      PROVE  i + j - 1 \in 1 .. Len(v) /\ v[i + j - 1] = Text(k)[j]
  <2>0. Len(Text(k)) \in Nat
    BY Messages
  <2>1. CASE i <= Len(w)
    <3>1. w[i] = k /\ i \in 1 .. Len(w)
      BY <1>2, <1>4, <2>1
    <3>2. i + j - 1 \in 1 .. Len(w) /\ w[i + j - 1] = Text(k)[j]
      BY <3>1 DEF Aligned
    <3>3. PICK m \in 1 .. Len(w) : m = i + j - 1
      BY <3>2
    <3>4. v[m] = w[m] /\ m \in 1 .. Len(v)
      BY <1>2
    <3> QED BY <3>2, <3>3, <3>4
  <2>2. CASE i > Len(w)
    <3>1. PICK m \in 1 .. Len(t) : m = i - Len(w)
      BY <1>2, <2>2
    <3>2. t[m] = k
      BY <1>2, <1>4, <2>2, <3>1
    <3>3. m = 1 /\ k = kind
      BY <1>3, <3>2
    <3>4. PICK q \in Nat : q = i + j - 1 /\ q = Len(w) + j /\ j \in 1 .. Len(t)
      BY <1>1, <2>0, <3>1, <3>3
    <3>5. q \in 1 .. Len(w) + Len(t) /\ ~(q <= Len(w)) /\ q - Len(w) = j
      BY <2>0, <3>4
    <3>6. v[q] = t[j]
      BY <1>2, <3>5
    <3> QED BY <1>1, <1>2, <3>3, <3>4, <3>5, <3>6
  <2> QED BY <2>1, <2>2
<1>5. Aligned(v)
  BY <1>4 DEF Aligned
<1> QED BY <1>1, <1>2, <1>5

\* A step after which nothing is claimed of the receiver.
LEMMA Uncleaned ==
    ASSUME HttpInv, role' = role, messages' \in Nat, wire' \in Seq(Units), role = "request" => Aligned(wire'),
           received' = received, clean' = FALSE \/ (clean' = clean /\ at' \in {"failed", "done"})
    PROVE  HttpInv'
<1>1. RequestInv' \/ role # "request"
  BY DEF RequestInv, HttpInv
<1>2. ResponseInv' \/ role = "request"
  BY DEF ResponseInv, HttpInv
<1> QED BY <1>1, <1>2 DEF HttpInv

\* A message is delivered.
LEMMA Delivered ==
    ASSUME HttpInv, NEW p, NEW b, NEW ok \in BOOLEAN, Deliver(p, b, ok), ok => b = BodyOf(p.kind),
           role' = role, messages' = messages, pipelined' = pipelined,
           wire' \in Seq(Units), role = "request" => Aligned(wire'),
           role = "request" /\ ok /\ ~pipelined /\ AllClean(received)
              => wire' = <<>> /\ Len(received) + 1 = messages
    PROVE  HttpInv'
<1>1. PICK S : received \in Seq(S)
  BY DEF HttpInv
<1>2. PICK r : r = [kind |-> p.kind, body |-> b, clean |-> ok]
  OBVIOUS
<1>3. PICK T : T = S \cup {r}
  OBVIOUS
<1>4. received' = Append(received, r) /\ received \in Seq(T) /\ r \in T
  BY <1>1, <1>2, <1>3 DEF Deliver
<1>5. /\ received' \in Seq(T) /\ Len(received') = Len(received) + 1 /\ Len(received) \in Nat
      /\ \A i \in 1 .. Len(received) : received'[i] = received[i]
      /\ received'[Len(received) + 1] = r
  BY <1>4
<1>6. r.clean = ok /\ r.body = b /\ r.kind = p.kind
  BY <1>2
<1>7. \A i \in 1 .. Len(received') : i \in 1 .. Len(received) \/ i = Len(received) + 1
  BY <1>5
<1>8. BodiesKept(received')
  <2>1. BodiesKept(received)
    BY DEF HttpInv
  <2> QED BY <1>5, <1>6, <1>7, <2>1 DEF BodiesKept
<1>9. AllClean(received') => AllClean(received) /\ ok
  <2>1. SUFFICES ASSUME AllClean(received') PROVE AllClean(received) /\ ok
    OBVIOUS
  <2>2. \A i \in 1 .. Len(received) : i \in 1 .. Len(received')
    BY <1>5
  <2>3. AllClean(received)
    BY <1>5, <2>1, <2>2 DEF AllClean
  <2>4. Len(received) + 1 \in 1 .. Len(received')
    BY <1>5
  <2>5. ok
    BY <1>5, <1>6, <2>1, <2>4 DEF AllClean
  <2> QED BY <2>3, <2>5
<1>10. /\ clean' = TRUE /\ at' = (IF role = "request" THEN "serve" ELSE "done")
       /\ data' = <<>> /\ parser' = FreshParser
  BY DEF Deliver
<1>11. role = "request" => RequestInv'
  BY <1>5, <1>9, <1>10 DEF RequestInv
<1>12. role = "response" => ResponseInv'
  BY <1>10 DEF ResponseInv
<1>13. (at \in {"aborted", "corrupt"} => ~clean)'
  BY <1>10
<1>14. (\E U : received \in Seq(U))'
  BY <1>5
<1>15. role' \in {"request", "response"} /\ messages' \in Nat /\ clean' \in BOOLEAN
  BY <1>10 DEF HttpInv
<1> QED BY <1>8, <1>11, <1>12, <1>13, <1>14, <1>15 DEF HttpInv

\* text goes on with a message from its unit c + 1 on, as far as the head goes
Continues(text, kind, c) == \A i \in 1 .. Len(text) : c + i <= HeadLen(kind) => text[i] = Text(kind)[c + i]

\* what the parser makes of the text, of a head with h units to come, and what is left of it
HeadPiece(q, rest, text, kind, c, h) ==
    /\ q \in Parsers /\ q.total <= Len(text) /\ rest \in Seq(Units) /\ Len(rest) = Len(text) - q.total
    /\ \A i \in 1 .. Len(rest) : rest[i] = text[q.total + i]
    /\ Len(text) >= h => /\ q.cs = "final" /\ q.total = h /\ q.kind = kind
                         /\ q.length = (IF kind = "sized" THEN 2 ELSE 0)
                         /\ (q.chunked <=> (kind = "chunked"))
    /\ Len(text) < h  => /\ q.cs = Stage(kind, c + Len(text)) /\ q.cs # "final"
                         /\ q.total = Len(text) /\ At(q, kind, c + Len(text), c)

\* The first units of a message with the parser at its unit c: what the parser makes of them,
\* and what is left of them.
LEMMA PieceOfHead ==
    ASSUME role \in {"request", "response"}, NEW kind \in Kinds, NEW c \in 0 .. HeadLen(kind) - 1,
           NEW p \in Parsers, p.total = 0 \/ role = "response", At(Anew(p), kind, c, c),
           NEW text \in Seq(Units), Continues(text, kind, c),
           NEW q, q = Execute(p, text), NEW rest, rest = SubSeq(text, q.total + 1, Len(text)),
           NEW h, h = HeadLen(kind) - c
    PROVE  HeadPiece(q, rest, text, kind, c, h)
<1>1. h \in 1 .. 4 /\ HeadLen(kind) = c + h /\ HeadLen(kind) \in {2, 3, 4}
  BY DEF HeadLen
<1>2. h \in 1 .. 4 /\ h = HeadLen(kind) - c /\ HeadLen(kind) = c + h /\ HeadLen(kind) \in {2, 3, 4}
  BY <1>1
<1>3. /\ q \in Parsers
      /\ Len(text) >= HeadLen(kind) - c => At(q, kind, HeadLen(kind), c)
      /\ Len(text) < HeadLen(kind) - c => At(q, kind, c + Len(text), c)
      /\ q.total = IF role = "request" THEN p.total + q.nread ELSE q.nread
  BY HeadRead DEF Continues
<1>4. q.total = q.nread
  BY <1>3 DEF Parsers
<1>5. Len(text) >= h => /\ q.cs = "final" /\ q.total = h /\ q.kind = kind
                        /\ q.length = (IF kind = "sized" THEN 2 ELSE 0)
                        /\ q.chunked <=> (kind = "chunked")
  <2>1. SUFFICES ASSUME Len(text) >= h, At(q, kind, c + h, c)
                 PROVE  /\ q.cs = "final" /\ q.total = h /\ q.kind = kind
                        /\ q.length = (IF kind = "sized" THEN 2 ELSE 0)
                        /\ q.chunked <=> (kind = "chunked")
    BY <1>2, <1>3
  <2>2. q.cs = "final" /\ q.total = h /\ q.kind = kind
    BY <1>2, <1>4, <2>1 DEF At, Stage
  <2>3. q.length = (IF kind = "sized" THEN 2 ELSE 0)
    BY <1>2, <2>1 DEF At, HeadLen
  <2>4. q.chunked <=> (kind = "chunked")
    BY <1>2, <2>1 DEF At, HeadLen
  <2> QED BY <2>2, <2>3, <2>4
<1>6. Len(text) < h  => /\ q.cs = Stage(kind, c + Len(text)) /\ q.cs # "final"
                        /\ q.total = Len(text) /\ At(q, kind, c + Len(text), c)
  <2>1. SUFFICES ASSUME Len(text) < h, At(q, kind, c + Len(text), c)
                 PROVE  /\ q.cs = Stage(kind, c + Len(text)) /\ q.cs # "final" /\ q.total = Len(text)
    BY <1>2, <1>3
  <2> QED BY <1>2, <1>4, <2>1 DEF At, Stage
<1>7. q.total \in 0 .. Len(text)
  BY <1>2, <1>5, <1>6
<1>8. PICK t \in 0 .. Len(text) : t = q.total
  BY <1>7
<1>9. rest \in Seq(Units) /\ Len(rest) = Len(text) - t /\ \A i \in 1 .. Len(text) - t : rest[i] = text[t + i]
  BY <1>8, Pieces
<1>10. /\ rest \in Seq(Units) /\ Len(rest) = Len(text) - q.total
       /\ \A i \in 1 .. Len(rest) : rest[i] = text[q.total + i]
  BY <1>8, <1>9
<1>11. q.total <= Len(text)
  BY <1>7
<1> QED BY <1>3, <1>5, <1>6, <1>10, <1>11 DEF HeadPiece

\* A fresh parser is at the beginning of whatever comes.
LEMMA Fresh ==
    /\ FreshParser \in Parsers /\ FreshParser.total = 0 /\ FreshParser.cs = "start"
    /\ \A kind : At(Anew(FreshParser), kind, 0, 0)
<1>1. FreshParser \in Parsers /\ FreshParser.total = 0 /\ FreshParser.cs = "start"
  BY DEF FreshParser, Parsers, States, Units
<1>2. PICK p : p = Anew(FreshParser)
  OBVIOUS
<1>3. /\ p.cs = "start" /\ p.nread = 0 /\ p.field = FALSE /\ p.length = 0 /\ p.chunked = FALSE
  BY <1>2 DEF FreshParser, Anew
<1>4. \A kind : At(p, kind, 0, 0)
  BY <1>3 DEF At, Stage
<1> QED BY <1>1, <1>2, <1>4

\* Part of a body, and the rest.
LEMMA PieceOfBody ==
    ASSUME NEW w \in Seq(Units), NEW l, NEW b, BodyAhead(w, l, b), NEW n \in 1 .. Len(w), n <= l
    PROVE  LET v == SubSeq(w, n + 1, Len(w))
               a == b \o SubSeq(w, 1, n)
           IN  /\ n = l => a = Body
               /\ n # l => BodyAhead(v, l - n, a)
<1>0. n \in 0 .. Len(w) /\ b \in Seq(Units)
  BY DEF BodyAhead
<1>1. PICK v \in Seq(Units) : /\ v = SubSeq(w, n + 1, Len(w)) /\ Len(v) = Len(w) - n
                              /\ \A i \in 1 .. Len(w) - n : v[i] = w[n + i]
  BY <1>0, Pieces
<1>2. PICK s \in Seq(Units) : /\ s = SubSeq(w, 1, n) /\ Len(s) = n
                              /\ \A i \in 1 .. n : s[i] = w[i]
  BY <1>0, Pieces
<1>3. PICK a \in Seq(Units) : /\ a = b \o s /\ Len(a) = Len(b) + n
                              /\ \A i \in 1 .. Len(b) + n : a[i] = IF i <= Len(b) THEN b[i] ELSE s[i - Len(b)]
  <2>1. /\ b \o s \in Seq(Units) /\ Len(b \o s) = Len(b) + Len(s)
        /\ \A i \in 1 .. Len(b) + Len(s) : (b \o s)[i] = IF i <= Len(b) THEN b[i] ELSE s[i - Len(b)]
    BY <1>0, After2
  <2> QED BY <1>2, <2>1
<1>4. /\ l \in {1, 2} /\ b \in Seq(Units) /\ Len(b) = 2 - l /\ l <= Len(w)
      /\ \A i \in 1 .. Len(b) : b[i] = Body[i]
      /\ \A i \in 1 .. l : w[i] = Body[2 - l + i]
  BY DEF BodyAhead
<1>5. CASE n = l /\ l = 1
  <2>1. Len(b) = 1 /\ b[1] = Body[1] /\ w[1] = Body[2] /\ s[1] = w[1]
    BY <1>2, <1>4, <1>5
  <2>2. Len(a) = 2 /\ a[1] = Body[1] /\ a[2] = Body[2]
    BY <1>3, <1>5, <2>1
  <2>3. a = Body
    BY <2>2 DEF Body
  <2> QED BY <1>1, <1>2, <1>3, <1>5, <2>3
<1>6. CASE n = l /\ l = 2
  <2>1. Len(b) = 0 /\ w[1] = Body[1] /\ w[2] = Body[2] /\ s[1] = w[1] /\ s[2] = w[2]
    BY <1>2, <1>4, <1>6
  <2>2. Len(a) = 2 /\ a[1] = Body[1] /\ a[2] = Body[2]
    <3>0. PICK m \in Nat : m = Len(b) /\ m = 0
      BY <2>1
    <3>1. Len(a) = 2 /\ \A i \in 1 .. 2 : a[i] = IF i <= 0 THEN b[i] ELSE s[i - 0]
      <4>1. Len(a) = m + 2 /\ \A i \in 1 .. m + 2 : a[i] = IF i <= m THEN b[i] ELSE s[i - m]
        BY <1>3, <1>6, <3>0
      <4> QED BY <3>0, <4>1
    <3>2. a[1] = s[1] /\ a[2] = s[2]
      BY <3>1
    <3> QED BY <2>1, <3>1, <3>2
  <2>3. a = Body
    BY <2>2 DEF Body
  <2> QED BY <1>1, <1>2, <1>3, <1>6, <2>3
<1>7. CASE n = 1 /\ l = 2
  <2>1. Len(b) = 0 /\ w[1] = Body[1] /\ w[2] = Body[2] /\ s[1] = w[1]
    BY <1>2, <1>4, <1>7
  <2>2. Len(a) = 1 /\ a[1] = Body[1]
    <3>0. PICK m \in Nat : m = Len(b) /\ m = 0
      BY <2>1
    <3>1. Len(a) = 1 /\ \A i \in 1 .. 1 : a[i] = IF i <= 0 THEN b[i] ELSE s[i - 0]
      <4>1. Len(a) = m + 1 /\ \A i \in 1 .. m + 1 : a[i] = IF i <= m THEN b[i] ELSE s[i - m]
        BY <1>3, <1>7, <3>0
      <4> QED BY <3>0, <4>1
    <3>2. a[1] = s[1]
      BY <3>1
    <3> QED BY <2>1, <3>1, <3>2
  <2>3. Len(v) = Len(w) - 1 /\ v[1] = w[2] /\ 1 <= Len(v)
    BY <1>1, <1>4, <1>7
  <2>4. BodyAhead(v, 1, a)
    BY <2>1, <2>2, <2>3 DEF BodyAhead
  <2> QED BY <1>1, <1>2, <1>3, <1>7, <2>4
<1> QED BY <1>4, <1>5, <1>6, <1>7

\* The part of a body that comes with the head.
LEMMA BodyBegun ==
    ASSUME NEW rest \in Seq(Units), NEW v \in Seq(Units), Len(rest) + Len(v) >= 2,
           \A i \in 1 .. Len(rest) : i <= 2 => rest[i] = Body[i],
           \A i \in 1 .. Len(v) : Len(rest) + i <= 2 => v[i] = Body[Len(rest) + i]
    PROVE  /\ Len(rest) < 2 => BodyAhead(v, 2 - Len(rest), rest)
           /\ Len(rest) >= 2 => SubSeq(rest, 1, 2) = Body
<1>1. CASE Len(rest) = 0
  <2>1. \A i \in 1 .. 2 : i \in 1 .. Len(v) /\ Len(rest) + i = i /\ 2 - 2 + i = i
    BY <1>1
  <2>2. \A i \in 1 .. 2 : v[i] = Body[2 - 2 + i]
    BY <1>1, <2>1
  <2> QED BY <1>1, <2>1, <2>2 DEF BodyAhead
<1>2. CASE Len(rest) = 1
  <2>1. v[1] = Body[2] /\ rest[1] = Body[1] /\ 1 <= Len(v)
    <3>1. 1 \in 1 .. Len(v) /\ Len(rest) + 1 = 2 /\ 1 \in 1 .. Len(rest)
      BY <1>2
    <3> QED BY <3>1
  <2>2. \A i \in 1 .. 1 : i = 1 /\ 2 - 1 + i = 2
    OBVIOUS
  <2> QED BY <1>2, <2>1, <2>2 DEF BodyAhead
<1>3. CASE Len(rest) >= 2
  <2>1. rest[1] = Body[1] /\ rest[2] = Body[2]
    BY <1>3
  <2>2. rest[1] = "x" /\ rest[2] = "y"
    BY <2>1, Messages
  <2>3. SubSeq(rest, 1, 2) = Body
    BY <1>3, <2>2, Shorts
  <2> QED BY <1>3, <2>3
<1>4. Len(rest) \in Nat
  OBVIOUS
<1>5. Len(rest) = 0 \/ Len(rest) = 1 \/ Len(rest) >= 2
  <2>1. PICK k \in Nat : k = Len(rest)
    BY <1>4
  <2>2. k = 0 \/ k = 1 \/ k >= 2
    OBVIOUS
  <2> QED BY <2>1, <2>2
<1> QED BY <1>1, <1>2, <1>3, <1>5

\* What a read takes, and what it leaves.
LEMMA ReadsPiece ==
    ASSUME HttpInv, NEW n \in 1 .. Len(wire), wire' = SubSeq(wire, n + 1, Len(wire))
    PROVE  /\ wire \in Seq(Units) /\ Len(wire) \in Nat /\ n \in Nat /\ n \in 0 .. Len(wire)
           /\ wire' \in Seq(Units) /\ Len(wire') = Len(wire) - n
           /\ \A i \in 1 .. Len(wire') : wire'[i] = wire[n + i]
           /\ role = "request" => Aligned(wire')
           /\ Chunk(n) \in Seq(Units) /\ Len(Chunk(n)) = n /\ \A i \in 1 .. n : Chunk(n)[i] = wire[i]
<1>1. wire \in Seq(Units) /\ Len(wire) \in Nat /\ n \in Nat /\ n \in 0 .. Len(wire)
  BY DEF HttpInv
<1>2. /\ wire' \in Seq(Units) /\ Len(wire') = Len(wire) - n
      /\ \A i \in 1 .. Len(wire) - n : wire'[i] = wire[n + i]
      /\ Chunk(n) \in Seq(Units) /\ Len(Chunk(n)) = n /\ \A i \in 1 .. n : Chunk(n)[i] = wire[i]
  BY <1>1, Pieces DEF Chunk
<1>3. role = "request" => Aligned(wire')
  BY <1>1, AlignedRest DEF HttpInv, RequestInv
<1> QED BY <1>1, <1>2, <1>3

\* The head is complete: nothing is claimed of a receiver whose head was cut.
LEMMA CutHeadDone ==
    ASSUME HttpInv, NEW p, NEW rest, HeadDone(p, rest, FALSE), role' = role, messages' = messages,
           pipelined' = pipelined, wire' \in Seq(Units), role = "request" => Aligned(wire')
    PROVE  HttpInv'
<1>1. CASE Deliver(p, SubSeq(rest, 1, p.length), FALSE)
  BY <1>1, Delivered
<1>2. CASE clean' = FALSE /\ received' = received
  <2>1. messages' \in Nat
    BY DEF HttpInv
  <2> QED BY <1>2, <2>1, Uncleaned
<1> QED BY <1>1, <1>2 DEF HeadDone

\* A piece of a head, after an earlier one was cut.
LEMMA CutHead ==
    ASSUME HttpInv, ~clean, NEW n \in 1 .. Len(wire), ReadHead(n)
    PROVE  HttpInv'
<1>1. /\ wire' = SubSeq(wire, n + 1, Len(wire))
      /\ role' = role /\ messages' = messages /\ pipelined' = pipelined
  BY DEF ReadHead, Reads, peerVars
<1>2. wire' \in Seq(Units) /\ (role = "request" => Aligned(wire')) /\ messages' \in Nat /\ clean = FALSE
  BY <1>1, ReadsPiece DEF HttpInv
<1>3. PICK text : text = data \o Chunk(n)
  OBVIOUS
<1>4. PICK p : p = Execute(parser, text)
  OBVIOUS
<1>5. PICK rest : rest = SubSeq(text, p.total + 1, Len(text))
  OBVIOUS
<1>6. \/ clean' = FALSE /\ received' = received
      \/ Fail
      \/ HeadDone(p, rest, FALSE)
  <2>1. (clean /\ (p.cs = "final" \/ (role = "response" /\ p.cs \notin {"name", "value"}))) = FALSE
    OBVIOUS
  <2> QED BY <1>3, <1>4, <1>5, <2>1 DEF ReadHead
<1>7. CASE clean' = FALSE /\ received' = received
  BY <1>1, <1>2, <1>7, Uncleaned
<1>8. CASE Fail
  <2>1. received' = received /\ clean' = clean /\ at' = "failed"
    BY <1>8 DEF Fail
  <2> QED BY <1>1, <1>2, <2>1, Uncleaned
<1>9. CASE HeadDone(p, rest, FALSE)
  BY <1>1, <1>2, <1>9, CutHeadDone
<1> QED BY <1>6, <1>7, <1>8, <1>9

\* A request's head, whole.
LEMMA RequestHead ==
    ASSUME HttpInv, clean, role = "request", NEW n \in 1 .. Len(wire), ReadHead(n)
    PROVE  HttpInv'
<1>1. /\ wire' = SubSeq(wire, n + 1, Len(wire)) /\ at = "head"
      /\ role' = role /\ messages' = messages /\ pipelined' = pipelined
  BY DEF ReadHead, Reads, peerVars
<1>2. /\ wire \in Seq(Units) /\ Len(wire) \in Nat /\ n \in Nat /\ n \in 0 .. Len(wire)
      /\ wire' \in Seq(Units) /\ Len(wire') = Len(wire) - n
      /\ \A i \in 1 .. Len(wire') : wire'[i] = wire[n + i]
      /\ Aligned(wire')
  BY <1>1, ReadsPiece
<1>3. PICK text \in Seq(Units) : text = Chunk(n) /\ Len(text) = n /\ \A i \in 1 .. n : text[i] = wire[i]
  BY <1>1, ReadsPiece
<1>4. data = <<>> /\ parser = FreshParser /\ Aligned(wire) /\ messages' \in Nat /\ clean = TRUE
  BY <1>1 DEF HttpInv, RequestInv
<1>5. data \o Chunk(n) = text
  BY <1>3, <1>4
<1>6. PICK p : p = Execute(FreshParser, text)
  OBVIOUS
<1>7. PICK rest : rest = SubSeq(text, p.total + 1, Len(text))
  OBVIOUS
<1>8. PICK ok \in BOOLEAN : ok <=> p.cs = "final"
  OBVIOUS
<1>9. \/ p.total > Len(text) /\ clean' = ok /\ received' = received
      \/ Fail
      \/ p.total <= Len(text) /\ p.cs = "final" /\ HeadDone(p, rest, TRUE)
      \/ p.cs # "final" /\ clean' = ok /\ received' = received
  <2>1. ok = (clean /\ (p.cs = "final" \/ (role = "response" /\ p.cs \notin {"name", "value"})))
    BY <1>4, <1>8
  <2>2. \/ p.total > Len(text) /\ clean' = ok /\ received' = received
        \/ Fail
        \/ p.total <= Len(text) /\ p.cs = "final" /\ HeadDone(p, rest, ok)
        \/ p.cs # "final" /\ clean' = ok /\ received' = received
    BY <1>4, <1>5, <1>6, <1>7, <2>1 DEF ReadHead
  <2>3. p.cs = "final" => ok = TRUE
    BY <1>8
  <2> QED BY <2>2, <2>3
<1>10. CASE Fail
  <2>1. received' = received /\ clean' = clean /\ at' = "failed"
    BY <1>10 DEF Fail
  <2> QED BY <1>1, <1>2, <1>4, <2>1, Uncleaned
<1>11. CASE p.cs # "final" /\ clean' = ok /\ received' = received
  BY <1>1, <1>2, <1>4, <1>8, <1>11, Uncleaned
<1>12. CASE p.cs = "final" /\ ~Fail
  <2>1. wire[1] \in {"bare", "sized"}
    <3>1. SUFFICES ASSUME wire[1] \notin {"bare", "sized"} PROVE FALSE
      OBVIOUS
    <3>2. Len(text) >= 1 /\ text[1] = wire[1]
      BY <1>3
    <3>3. \A t \in Transitions : ~(t[1] = "start" /\ t[2] = text[1])
      BY <3>1, <3>2 DEF Transitions, FieldRows, RequestRows
    <3>4. Execute(FreshParser, text).cs = "error"
      BY <3>2, <3>3, Fresh, Refused
    <3> QED BY <1>6, <1>12, <3>4
  <2>2. PICK kind \in {"bare", "sized"} : kind = wire[1]
    BY <2>1
  <2>3. \A j \in 1 .. Len(Text(kind)) : j \in 1 .. Len(wire) /\ wire[j] = Text(kind)[j]
    <3>1. 1 \in 1 .. Len(wire) /\ Len(Text(kind)) \in Nat
      <4>1. Len(Text(kind)) \in {2, 6, 13}
        BY Lengths
      <4> QED BY <1>2, <4>1
    <3>2. \A j \in 1 .. Len(Text(kind)) : 1 + j - 1 \in 1 .. Len(wire) /\ wire[1 + j - 1] = Text(kind)[j]
      BY <1>4, <2>2, <3>1 DEF Aligned
    <3>3. \A j \in 1 .. Len(Text(kind)) : 1 + j - 1 = j
      BY <3>1
    <3> QED BY <3>2, <3>3
  <2>4. kind \in Kinds /\ HeadLen(kind) \in {2, 4} /\ HeadLen(kind) <= Len(Text(kind)) /\ Len(Text(kind)) \in {2, 6}
    <3>1. kind \in Kinds
      BY DEF Kinds
    <3>2. kind \in {"bare", "sized", "chunked"} /\ (kind = "bare" \/ kind = "sized")
      OBVIOUS
    <3> QED BY <3>1, <3>2, Lengths
  <2>5. PICK h \in {2, 4} : h = HeadLen(kind)
    BY <2>4
  <2>6. /\ p \in Parsers /\ p.total <= Len(text) /\ rest \in Seq(Units) /\ Len(rest) = Len(text) - p.total
        /\ \A i \in 1 .. Len(rest) : rest[i] = text[p.total + i]
        /\ Len(text) >= h => /\ p.total = h /\ p.kind = kind
                             /\ p.length = (IF kind = "sized" THEN 2 ELSE 0)
        /\ Len(text) < h => p.cs # "final"
    <3>1. PICK c : c = 0
      OBVIOUS
    <3>2. c \in 0 .. HeadLen(kind) - 1 /\ HeadLen(kind) - c = h
      BY <2>5, <3>1
    <3>3. Continues(text, kind, c)
      <4> SUFFICES ASSUME NEW i \in 1 .. Len(text), c + i <= HeadLen(kind) PROVE text[i] = Text(kind)[c + i]
        BY DEF Continues
      <4>1. c + i = i /\ i \in 1 .. n /\ i \in 1 .. Len(Text(kind))
        BY <1>3, <2>4, <3>1
      <4> QED BY <1>3, <2>3, <4>1
    <3>4. At(Anew(FreshParser), kind, c, c) /\ FreshParser \in Parsers /\ FreshParser.total = 0
      BY <3>1, Fresh
    <3>5. HeadPiece(p, rest, text, kind, c, h)
      <4>1. PICK fresh \in Parsers : fresh = FreshParser /\ (fresh.total = 0 \/ role = "response")
                                    /\ At(Anew(fresh), kind, c, c)
        BY <3>4
      <4>2. role \in {"request", "response"} /\ kind \in Kinds
        BY <2>4
      <4>3. c \in 0 .. HeadLen(kind) - 1 /\ h = HeadLen(kind) - c
        BY <3>2
      <4>4. p = Execute(fresh, text)
        BY <1>6, <4>1
      <4> QED BY <1>7, <3>3, <4>1, <4>2, <4>3, <4>4, PieceOfHead
    <3> QED BY <3>5 DEF HeadPiece
  <2>7. n >= h /\ p.total = h /\ p.kind = kind /\ Len(rest) = n - h /\ Len(rest) \in Nat
        /\ p.length = (IF kind = "sized" THEN 2 ELSE 0)
    BY <1>2, <1>3, <1>12, <2>5, <2>6
  <2>8. HeadDone(p, rest, TRUE)
    <3>1. ~(p.total > Len(text))
      BY <1>3, <2>7
    <3>2. Fail \/ HeadDone(p, rest, TRUE)
      BY <1>9, <1>12, <3>1
    <3> QED BY <1>12, <3>2
  <2>9. ~pipelined /\ AllClean(received) => wire = Text(kind) /\ Len(received) + 1 = messages
    <3>1. SUFFICES ASSUME ~pipelined, AllClean(received) PROVE wire = Text(kind) /\ Len(received) + 1 = messages
      OBVIOUS
    <3>2. wire # <<>>
      BY <1>2
    <3>3. PICK k \in {"bare", "sized"} : wire = Text(k) /\ Len(received) + 1 = messages
      BY <1>1, <1>4, <3>1, <3>2 DEF HttpInv, RequestInv
    <3>4. k = kind
      BY <2>2, <3>3, Messages
    <3> QED BY <3>3, <3>4
  <2>10. CASE kind = "bare"
    <3>1. Deliver(p, <<>>, TRUE)
      <4>1. p.length = 0 /\ ~(0 > Len(rest))
        BY <2>7, <2>10
      <4>2. SubSeq(rest, 1, 0) = <<>>
        BY <2>6, Shorts
      <4> QED BY <2>8, <4>1, <4>2 DEF HeadDone
    <3>2. <<>> = BodyOf(p.kind)
      BY <2>7, <2>10 DEF BodyOf
    <3>3. ~pipelined /\ AllClean(received) => wire' = <<>> /\ Len(received) + 1 = messages
      <4>1. SUFFICES ASSUME ~pipelined, AllClean(received) PROVE wire' = <<>>
        BY <2>9
      <4>2. Len(wire) = 2
        BY <2>9, <2>10, <4>1, Messages
      <4>3. h = 2
        BY <2>5, <2>10 DEF HeadLen
      <4>4. Len(wire') = 0
        BY <1>2, <2>7, <4>2, <4>3
      <4> QED BY <1>2, <4>4, Shorts
    <3> QED BY <1>1, <1>2, <3>1, <3>2, <3>3, Delivered
  <2>11. CASE kind = "sized"
    <3>0. h = 4 /\ p.length = 2 /\ Len(Text(kind)) = 6
      BY <2>5, <2>7, <2>11, Messages DEF HeadLen
    <3>1. /\ Len(rest) < 2 => BodyAhead(wire', 2 - Len(rest), rest)
          /\ Len(rest) >= 2 => SubSeq(rest, 1, 2) = Body
      <4>0. Body[1] = Text(kind)[5] /\ Body[2] = Text(kind)[6] /\ 5 \in 1 .. Len(Text(kind)) /\ 6 \in 1 .. Len(Text(kind))
        <5>1. Body[1] = Text("sized")[5] /\ Body[2] = Text("sized")[6]
          BY Messages
        <5>2. 5 \in 1 .. Len(Text(kind)) /\ 6 \in 1 .. Len(Text(kind))
          BY <3>0
        <5> QED BY <2>11, <5>1, <5>2
      <4>1. wire[5] = Body[1] /\ wire[6] = Body[2] /\ Len(wire) >= 6
        BY <2>3, <4>0
      <4>2. Len(rest) = n - 4 /\ Len(wire') = Len(wire) - n
        BY <1>2, <2>7, <3>0
      <4>3. Len(rest) + Len(wire') >= 2
        BY <1>2, <4>1, <4>2
      <4>4. ASSUME NEW i \in 1 .. Len(rest), i <= 2 PROVE rest[i] = Body[i]
        <5>1. 4 + i \in 1 .. n
          BY <1>2, <4>2
        <5>2. rest[i] = wire[4 + i]
          BY <1>3, <2>6, <2>7, <3>0, <5>1
        <5>3. i = 1 \/ i = 2
          BY <4>4
        <5> QED BY <4>1, <5>2, <5>3
      <4>5. ASSUME NEW i \in 1 .. Len(wire'), Len(rest) + i <= 2 PROVE wire'[i] = Body[Len(rest) + i]
        <5>1. wire'[i] = wire[n + i]
          BY <1>2
        <5>2. PICK k \in {1, 2} : k = Len(rest) + i /\ n + i = 4 + k
          BY <1>2, <2>7, <4>2, <4>5
        <5>3. wire[4 + k] = Body[k]
          BY <4>1
        <5> QED BY <5>1, <5>2, <5>3
      <4> QED BY <1>2, <2>6, <4>3, <4>4, <4>5, BodyBegun
    <3>2. CASE Len(rest) >= 2
      <4>1. Deliver(p, Body, TRUE)
        <5>1. ~(2 > Len(rest))
          BY <2>7, <3>2
        <5> QED BY <2>8, <3>0, <3>1, <3>2, <5>1 DEF HeadDone
      <4>2. Body = BodyOf(p.kind)
        BY <2>7, <2>11 DEF BodyOf
      <4>3. ~pipelined /\ AllClean(received) => wire' = <<>> /\ Len(received) + 1 = messages
        <5>1. SUFFICES ASSUME ~pipelined, AllClean(received) PROVE wire' = <<>>
          BY <2>9
        <5>2. Len(wire) = 6
          BY <2>9, <3>0, <5>1
        <5>3. Len(wire') = 0
          BY <1>2, <2>7, <3>0, <3>2, <5>2
        <5> QED BY <1>2, <5>3, Shorts
      <4> QED BY <1>1, <1>2, <4>1, <4>2, <4>3, Delivered
    <3>3. CASE Len(rest) < 2
      <4>1. /\ at' = "body" /\ left' = 2 - Len(rest) /\ body' = rest
            /\ parser' = p /\ data' = <<>> /\ clean' = TRUE /\ received' = received
        <5>1. ~(2 <= Len(rest))
          BY <2>7, <3>3
        <5> QED BY <2>8, <3>0, <3>3, <5>1 DEF HeadDone
      <4>2. BodyAhead(wire', left', body') /\ parser'.kind = "sized"
        BY <2>7, <2>11, <3>1, <3>3, <4>1
      <4>3. ~pipelined /\ AllClean(received) => Len(received) + 1 = messages /\ Len(wire') = left'
        <5>1. SUFFICES ASSUME ~pipelined, AllClean(received) PROVE Len(wire') = left'
          BY <2>9
        <5>2. Len(wire) = 6
          BY <2>9, <3>0, <5>1
        <5> QED BY <1>2, <2>7, <3>0, <4>1, <5>2
      <4>4. RequestInv'
        BY <1>1, <1>2, <4>1, <4>2, <4>3 DEF RequestInv
      <4> QED BY <1>1, <1>2, <1>4, <4>1, <4>4 DEF HttpInv
    <3> QED BY <2>7, <3>2, <3>3
  <2> QED BY <2>10, <2>11
<1> QED BY <1>8, <1>9, <1>10, <1>11, <1>12

\* A response's head goes on where no field was cut.
LEMMA HeadGoesOn ==
    ASSUME NEW kind, NEW c \in 0 .. 3, NEW n \in 1 .. 4, NEW p \in Parsers, c + n < HeadLen(kind),
           At(p, kind, c + n, c), p.cs \notin {"name", "value"}
    PROVE  /\ c + n \in 0 .. HeadLen(kind) - 1 /\ c + n \in 0 .. 3 /\ Stage(kind, c + n) \in {"start", "fields"}
           /\ At(Anew(p), kind, c + n, c + n)
<1>1. PICK i \in 1 .. 3 : i = c + n /\ i < HeadLen(kind) /\ i \in 0 .. HeadLen(kind) - 1
  BY DEF HeadLen
<1>2. Stage(kind, i) \in {"start", "fields"} /\ ~(kind = "sized" /\ i \in {2, 3})
  BY <1>1 DEF At, Stage
<1>3. PICK q : q = Anew(p)
  OBVIOUS
<1>4. /\ q.cs = p.cs /\ q.nread = 0 /\ q.kind = p.kind /\ q.field = FALSE
      /\ q.length = p.length /\ q.chunked = p.chunked
  BY <1>3 DEF Anew, Parsers
<1>5. At(p, kind, i, c)
  BY <1>1
<1>6. At(q, kind, i, i)
  <2>1. q.cs = Stage(kind, i) /\ q.kind = kind /\ q.nread = i - i
    BY <1>1, <1>4, <1>5 DEF At
  <2>2. q.length = IF kind = "sized" /\ i = 4 THEN 2 ELSE 0
    BY <1>4, <1>5 DEF At
  <2>3. q.chunked <=> (kind = "chunked" /\ i >= 2)
    BY <1>4, <1>5 DEF At
  <2>4. q.field <=> (kind = "sized" /\ i \in {2, 3})
    BY <1>2, <1>4
  <2> QED BY <2>1, <2>2, <2>3, <2>4 DEF At
<1> QED BY <1>1, <1>2, <1>3, <1>6

\* r is w, or its beginning, from its unit h + 1 on
PartFrom(r, w, h) == r \in Seq(Units) /\ \A i \in 1 .. Len(r) : r[i] = w[h + i]

\* A part of a part.
LEMMA PartOfPart ==
    ASSUME NEW t, NEW c \in Nat, NEW w \in Seq(Units), PartFrom(w, t, c),
           NEW h \in Nat, NEW r \in Seq(Units), PartFrom(r, w, h), h + Len(r) <= Len(w)
    PROVE  PartFrom(r, t, c + h)
<1>1. ASSUME NEW i \in 1 .. Len(r) PROVE r[i] = t[(c + h) + i]
  <2>1. h + i \in 1 .. Len(w) /\ c + (h + i) = (c + h) + i
    OBVIOUS
  <2> QED BY <2>1 DEF PartFrom
<1> QED BY <1>1 DEF PartFrom

\* A response's head, as far as it has come.
LEMMA ResponseHead ==
    ASSUME HttpInv, clean, role = "response", NEW n \in 1 .. Len(wire), ReadHead(n)
    PROVE  HttpInv'
<1>1. /\ wire' = SubSeq(wire, n + 1, Len(wire)) /\ at = "head"
      /\ role' = role /\ messages' = messages /\ pipelined' = pipelined
  BY DEF ReadHead, Reads, peerVars
<1>2. /\ wire \in Seq(Units) /\ Len(wire) \in Nat /\ n \in Nat /\ n \in 0 .. Len(wire)
      /\ wire' \in Seq(Units) /\ Len(wire') = Len(wire) - n
      /\ \A i \in 1 .. Len(wire') : wire'[i] = wire[n + i]
  BY <1>1, ReadsPiece
<1>3. PICK text \in Seq(Units) : text = Chunk(n) /\ Len(text) = n /\ \A i \in 1 .. n : text[i] = wire[i]
  BY <1>1, ReadsPiece
<1>4. data = <<>> /\ body = <<>> /\ messages' \in Nat /\ messages = 1 /\ clean = TRUE
      /\ \E kind \in Kinds : \E c \in 0 .. 3 : HeadAt(wire, parser, kind, c)
  <2>1. wire # <<>>
    BY <1>2
  <2> QED BY <1>1, <2>1 DEF HttpInv, ResponseInv
<1>5. data \o Chunk(n) = text
  BY <1>3, <1>4
<1>6. PICK kind \in Kinds : \E c \in 0 .. 3 : HeadAt(wire, parser, kind, c)
  BY <1>4
<1>7. PICK c \in 0 .. 3 : HeadAt(wire, parser, kind, c)
  BY <1>6
<1>8. /\ kind \in {"bare", "sized", "chunked"} /\ TailOf(wire, kind, c) /\ c \in 0 .. HeadLen(kind) - 1
      /\ parser \in Parsers /\ At(Anew(parser), kind, c, c)
  BY <1>7 DEF HeadAt, Kinds
<1>9. PICK t \in Seq(Units) : t = Text(kind) /\ HeadLen(kind) <= Len(t)
  BY <1>8, Lengths
<1>10. Len(wire) = Len(t) - c /\ \A i \in 1 .. Len(wire) : wire[i] = t[c + i]
  BY <1>8, <1>9 DEF TailOf
<1>11. PICK h \in 1 .. 4 : h = HeadLen(kind) - c /\ HeadLen(kind) = c + h
  BY <1>8, Lengths
<1>12. PICK p : p = Execute(parser, text)
  OBVIOUS
<1>13. PICK rest : rest = SubSeq(text, p.total + 1, Len(text))
  OBVIOUS
<1>14. HeadPiece(p, rest, text, kind, c, h)
  <2>1. Continues(text, kind, c)
    BY <1>3, <1>9, <1>10 DEF Continues
  <2>2. PICK fresh \in Parsers : fresh = parser /\ At(Anew(fresh), kind, c, c) /\ p = Execute(fresh, text)
    BY <1>8, <1>12
  <2>3. role \in {"request", "response"} /\ (fresh.total = 0 \/ role = "response")
    OBVIOUS
  <2> QED BY <1>8, <1>11, <1>13, <2>1, <2>2, <2>3, PieceOfHead
<1>15. PICK ok \in BOOLEAN : ok <=> p.cs \notin {"name", "value"}
  OBVIOUS
<1>16. /\ ~(p.total > Len(text))
       /\ \/ Fail
          \/ p.cs = "final" /\ HeadDone(p, rest, TRUE)
          \/ /\ p.cs \notin {"error", "final"} /\ data' = rest /\ parser' = p /\ clean' = ok
             /\ UNCHANGED <<at, left, body, received>>
  <2>1. p.total <= Len(text) /\ p.total \in Nat /\ Len(text) \in Nat
    BY <1>14 DEF HeadPiece, Parsers
  <2>2. ~(p.total > Len(text))
    BY <2>1
  <2>3. ok = (clean /\ (p.cs = "final" \/ (role = "response" /\ p.cs \notin {"name", "value"})))
    BY <1>4, <1>15
  <2>4. \/ Fail
        \/ p.cs = "final" /\ HeadDone(p, rest, ok)
        \/ /\ p.cs \notin {"error", "final"} /\ data' = rest /\ parser' = p /\ clean' = ok
           /\ UNCHANGED <<at, left, body, received>>
    BY <1>3, <1>5, <1>12, <1>13, <2>2, <2>3 DEF ReadHead
  <2>5. p.cs = "final" => ok = TRUE
    BY <1>15
  <2> QED BY <2>2, <2>4, <2>5
<1>17. CASE Fail
  <2>1. received' = received /\ clean' = clean /\ at' = "failed"
    BY <1>17 DEF Fail
  <2> QED BY <1>1, <1>2, <1>4, <2>1, Uncleaned
<1>18. CASE /\ p.cs \notin {"error", "final"} /\ data' = rest /\ parser' = p /\ clean' = ok
            /\ UNCHANGED <<at, left, body, received>>
  <2>1. CASE ok = FALSE
    BY <1>1, <1>2, <1>4, <1>18, <2>1, Uncleaned
  <2>2. CASE ok = TRUE
    <3>1. n < h /\ rest \in Seq(Units) /\ Len(rest) = 0 /\ p \in Parsers /\ At(p, kind, c + n, c)
      <4>1. Len(text) < h
        BY <1>2, <1>3, <1>14, <1>18 DEF HeadPiece
      <4> QED BY <1>2, <1>3, <1>14, <4>1 DEF HeadPiece
    <3>2. PICK m \in 1 .. 4 : m = n /\ c + m < HeadLen(kind)
      BY <1>2, <1>11, <3>1
    <3>3. c + m \in 0 .. HeadLen(kind) - 1 /\ c + m \in 0 .. 3 /\ Stage(kind, c + m) \in {"start", "fields"}
          /\ At(Anew(p), kind, c + m, c + m)
      <4>1. p.cs \notin {"name", "value"} /\ At(p, kind, c + m, c) /\ p \in Parsers
        BY <1>15, <2>2, <3>1, <3>2
      <4> QED BY <3>2, <4>1, HeadGoesOn
    <3>4. TailOf(wire', kind, c + m)
      <4>1. Len(wire') = Len(Text(kind)) - (c + m)
        BY <1>2, <1>9, <1>10, <3>2
      <4>2. ASSUME NEW i \in 1 .. Len(wire') PROVE wire'[i] = Text(kind)[(c + m) + i]
        <5>1. n + i \in 1 .. Len(wire) /\ c + (n + i) = (c + n) + i
          BY <1>2
        <5> QED BY <1>2, <1>9, <1>10, <3>2, <5>1
      <4> QED BY <1>2, <4>1, <4>2 DEF TailOf
    <3>5. PICK d \in 0 .. 3 : d = c + m
      BY <3>3
    <3>6. HeadAt(wire', parser', kind, d)
      BY <1>18, <3>1, <3>3, <3>4, <3>5 DEF HeadAt
    <3>7. data' = <<>> /\ body' = <<>> /\ messages' = 1 /\ kind \in Kinds' /\ at' = "head"
      BY <1>1, <1>4, <1>18, <3>1, Shorts DEF Kinds
    <3>8. ResponseInv'
      BY <3>6, <3>7 DEF ResponseInv
    <3>9. received' = received /\ clean' \in BOOLEAN
      BY <1>18
    <3> QED BY <1>1, <1>2, <1>4, <3>7, <3>8, <3>9 DEF HttpInv
  <2> QED BY <2>1, <2>2
<1>19. CASE p.cs = "final" /\ HeadDone(p, rest, TRUE)
  <2>1. n >= h /\ p.total = h /\ p.kind = kind /\ rest \in Seq(Units) /\ Len(rest) = n - h
        /\ p.length = (IF kind = "sized" THEN 2 ELSE 0) /\ (p.chunked <=> (kind = "chunked"))
        /\ \A i \in 1 .. Len(rest) : rest[i] = wire[h + i]
    <3>1. Len(text) >= h
      BY <1>2, <1>3, <1>14, <1>19 DEF HeadPiece
    <3>2. p.total = h /\ p.kind = kind /\ rest \in Seq(Units) /\ Len(rest) = n - h
          /\ p.length = (IF kind = "sized" THEN 2 ELSE 0) /\ (p.chunked <=> (kind = "chunked"))
          /\ \A i \in 1 .. Len(rest) : rest[i] = text[h + i]
      BY <1>3, <1>14, <3>1 DEF HeadPiece
    <3>3. ASSUME NEW i \in 1 .. Len(rest) PROVE rest[i] = wire[h + i]
      <4>1. h + i \in 1 .. n
        BY <1>2, <1>3, <3>1, <3>2
      <4> QED BY <1>3, <3>2, <4>1
    <3> QED BY <1>3, <3>1, <3>2, <3>3
  <2>2. PICK H \in {2, 3, 4} : H = HeadLen(kind)
    BY <1>8, Lengths
  <2>3. /\ Len(rest) \in Nat /\ Len(wire') \in Nat /\ Len(rest) + Len(wire') = Len(t) - H
        /\ \A i \in 1 .. Len(rest) : rest[i] = t[H + i]
        /\ \A i \in 1 .. Len(wire') : wire'[i] = t[H + Len(rest) + i]
    <3>1. PICK v \in Seq(Units) : v = wire' /\ Len(v) = Len(wire) - n /\ \A i \in 1 .. Len(v) : v[i] = wire[n + i]
      BY <1>2
    <3>2. H \in Nat /\ H = c + h /\ H <= Len(t) /\ c \in Nat /\ h \in Nat
      BY <1>9, <1>11, <2>2
    <3>3. PICK w \in Seq(Units) : w = wire /\ Len(w) = Len(t) - c /\ PartFrom(w, t, c)
      BY <1>2, <1>10 DEF PartFrom
    <3>4. /\ n \in Nat /\ n + Len(v) <= Len(w) /\ PartFrom(v, w, n)
          /\ h + Len(rest) <= Len(w) /\ PartFrom(rest, w, h) /\ Len(rest) \in Nat /\ Len(v) \in Nat
      BY <1>2, <2>1, <3>1, <3>3 DEF PartFrom
    <3>5. PartFrom(rest, t, c + h) /\ PartFrom(v, t, c + n)
      BY <2>1, <3>2, <3>3, <3>4, PartOfPart
    <3>6. c + n = H + Len(rest) /\ Len(rest) + Len(v) = Len(t) - H
      <4>1. c \in Nat /\ h \in Nat /\ n \in Nat /\ Len(w) \in Nat /\ Len(t) \in Nat
        BY <1>2, <3>2, <3>3
      <4>2. Len(rest) = n - h /\ Len(v) = Len(w) - n /\ Len(w) = Len(t) - c /\ H = c + h
        BY <2>1, <3>1, <3>2, <3>3
      <4> QED BY <4>1, <4>2
    <3> QED BY <3>1, <3>2, <3>4, <3>5, <3>6 DEF PartFrom
  <2>4. CASE kind = "bare"
    <3>1. Deliver(p, <<>>, TRUE)
      <4>1. p.length = 0 /\ ~(0 > Len(rest)) /\ ~p.chunked
        BY <2>1, <2>3, <2>4
      <4>2. SubSeq(rest, 1, 0) = <<>>
        BY <2>1, Shorts
      <4> QED BY <1>19, <4>1, <4>2 DEF HeadDone
    <3>2. <<>> = BodyOf(p.kind)
      BY <2>1, <2>4 DEF BodyOf
    <3> QED BY <1>1, <1>2, <3>1, <3>2, Delivered
  <2>5. CASE kind = "sized"
    <3>1. H = 4 /\ Len(t) = 6 /\ t[5] = Body[1] /\ t[6] = Body[2]
      BY <1>9, <2>2, <2>5, Messages DEF HeadLen
    <3>2. /\ Len(rest) < 2 => BodyAhead(wire', 2 - Len(rest), rest)
          /\ Len(rest) >= 2 => SubSeq(rest, 1, 2) = Body
      <4>1. Len(rest) + Len(wire') >= 2
        BY <2>3, <3>1
      <4>2. ASSUME NEW i \in 1 .. Len(rest), i <= 2 PROVE rest[i] = Body[i]
        <5>1. i = 1 \/ i = 2
          BY <4>2
        <5>2. rest[i] = t[4 + i]
          BY <2>3, <3>1
        <5> QED BY <3>1, <5>1, <5>2
      <4>3. ASSUME NEW i \in 1 .. Len(wire'), Len(rest) + i <= 2 PROVE wire'[i] = Body[Len(rest) + i]
        <5>1. PICK k \in {1, 2} : k = Len(rest) + i
          BY <2>3, <4>3
        <5>2. wire'[i] = t[4 + k]
          <6>1. wire'[i] = t[4 + Len(rest) + i] /\ 4 + Len(rest) + i = 4 + k
            BY <2>3, <3>1, <5>1
          <6> QED BY <6>1
        <5> QED BY <3>1, <5>1, <5>2
      <4>4. PICK v \in Seq(Units) : v = wire'
        BY <1>2
      <4> QED BY <2>1, <4>1, <4>2, <4>3, <4>4, BodyBegun
    <3>3. CASE Len(rest) >= 2
      <4>1. Deliver(p, Body, TRUE)
        <5>1. ~(2 > Len(rest)) /\ p.length = 2 /\ ~p.chunked
          BY <2>1, <2>3, <2>5, <3>3
        <5> QED BY <1>19, <3>2, <3>3, <5>1 DEF HeadDone
      <4>2. Body = BodyOf(p.kind)
        BY <2>1, <2>5 DEF BodyOf
      <4> QED BY <1>1, <1>2, <4>1, <4>2, Delivered
    <3>4. CASE Len(rest) < 2
      <4>1. /\ at' = "body" /\ left' = 2 - Len(rest) /\ body' = rest
            /\ parser' = p /\ data' = <<>> /\ clean' = TRUE /\ received' = received
        <5>1. ~(2 <= Len(rest)) /\ p.length = 2 /\ ~p.chunked
          BY <2>1, <2>3, <2>5, <3>4
        <5> QED BY <1>19, <5>1 DEF HeadDone
      <4>2. BodyAhead(wire', left', body') /\ parser'.kind = "sized" /\ messages' = 1
        BY <1>1, <1>4, <2>1, <2>5, <3>2, <3>4, <4>1
      <4>3. ResponseInv'
        BY <4>1, <4>2 DEF ResponseInv
      <4> QED BY <1>1, <1>2, <1>4, <4>1, <4>3 DEF HttpInv
    <3> QED BY <2>3, <3>3, <3>4
  <2>6. CASE kind = "chunked"
    <3>1. at' = "chunk" /\ data' = rest /\ parser' = p /\ clean' = TRUE /\ body' = body /\ received' = received
      BY <1>19, <2>1, <2>6 DEF HeadDone
    <3>2. H = 3 /\ Len(t) = 13
      BY <1>9, <2>2, <2>6, Messages DEF HeadLen
    <3>3. ChunkAhead(rest, wire', 3)
      <4>1. Len(rest) + Len(wire') = 13 - 3
        BY <2>3, <3>2
      <4> QED BY <1>2, <1>9, <2>1, <2>3, <2>6, <3>2, <4>1 DEF ChunkAhead
    <3>4. PICK d \in {3, 4, 9, 10} : d = 3 /\ d < 9
      OBVIOUS
    <3>5. /\ ChunkAhead(data', wire', d) /\ (d # 3 => data' = <<>>)
          /\ body' = IF d < 9 THEN <<>> ELSE Body
      BY <1>4, <3>1, <3>3, <3>4
    <3>6. messages' = 1 /\ parser'.kind = "chunked"
      BY <1>1, <1>4, <2>1, <2>6, <3>1
    <3>7. ResponseInv'
      BY <3>1, <3>5, <3>6 DEF ResponseInv
    <3> QED BY <1>1, <1>2, <1>4, <3>1, <3>7 DEF HttpInv
  <2> QED BY <1>8, <2>4, <2>5, <2>6
<1> QED BY <1>16, <1>17, <1>18, <1>19

\* What the receiver knows is unchanged.
LEMMA SameHttp ==
    ASSUME HttpInv, UNCHANGED <<role, wire, messages, pipelined, at, data, parser, left, body, clean, received>>
    PROVE  HttpInv'
<1>1. RequestInv => RequestInv'
  BY DEF RequestInv
<1>2. ResponseInv => ResponseInv'
  BY DEF ResponseInv, Kinds, HeadAt
<1> QED BY <1>1, <1>2 DEF HttpInv

\* A piece of a body.
LEMMA BodyStep ==
    ASSUME HttpInv, NEW n \in 1 .. Len(wire), ReadBody(n)
    PROVE  HttpInv'
<1>1. /\ wire' = SubSeq(wire, n + 1, Len(wire)) /\ at = "body" /\ n <= left
      /\ role' = role /\ messages' = messages /\ pipelined' = pipelined
  BY DEF ReadBody, Reads, peerVars
<1>2. /\ wire \in Seq(Units) /\ Len(wire) \in Nat /\ n \in Nat
      /\ wire' \in Seq(Units) /\ Len(wire') = Len(wire) - n
      /\ role = "request" => Aligned(wire')
  BY <1>1, ReadsPiece
<1>3. \/ n = left /\ Deliver(parser, body \o Chunk(n), clean)
      \/ /\ n # left /\ left' = left - n /\ body' = body \o Chunk(n)
         /\ UNCHANGED <<at, data, parser, clean, received>>
  BY DEF ReadBody
<1>4. messages' \in Nat /\ clean \in BOOLEAN
  BY <1>1 DEF HttpInv
<1>5. CASE clean = FALSE
  <2>1. CASE Deliver(parser, body \o Chunk(n), clean)
    <3>1. PICK b : b = body \o Chunk(n)
      OBVIOUS
    <3>2. PICK ok \in BOOLEAN : ok = clean /\ ok = FALSE
      BY <1>5
    <3>3. Deliver(parser, b, ok)
      BY <2>1, <3>1, <3>2
    <3> QED BY <1>1, <1>2, <3>2, <3>3, Delivered
  <2>2. CASE clean' = clean /\ received' = received
    BY <1>1, <1>2, <1>4, <1>5, <2>2, Uncleaned
  <2> QED BY <1>3, <2>1, <2>2
<1>6. CASE clean = TRUE
  <2>1. /\ parser.kind = "sized" /\ BodyAhead(wire, left, body) /\ (role = "response" => messages = 1)
        /\ role = "request" /\ ~pipelined /\ AllClean(received) => Len(received) + 1 = messages /\ Len(wire) = left
    BY <1>1, <1>6 DEF HttpInv, RequestInv, ResponseInv
  <2>2. PICK a : a = body \o Chunk(n)
    OBVIOUS
  <2>3. (n = left => a = Body) /\ (n # left => BodyAhead(wire', left - n, a))
    <3>1. PICK w \in Seq(Units) : w = wire
      BY <1>2
    <3>2. PICK v : v = SubSeq(w, n + 1, Len(w)) /\ v = wire'
      BY <1>1, <3>1
    <3>3. a = body \o SubSeq(w, 1, n)
      BY <2>2, <3>1 DEF Chunk
    <3>4. BodyAhead(w, left, body) /\ n \in 1 .. Len(w)
      BY <2>1, <3>1
    <3> QED BY <1>1, <3>2, <3>3, <3>4, PieceOfBody
  <2>4. left \in {1, 2}
    BY <2>1 DEF BodyAhead
  <2>5. CASE n = left /\ Deliver(parser, body \o Chunk(n), clean)
    <3>1. Deliver(parser, Body, TRUE)
      BY <1>6, <2>2, <2>3, <2>5
    <3>2. Body = BodyOf(parser.kind)
      BY <2>1 DEF BodyOf
    <3>3. role = "request" /\ ~pipelined /\ AllClean(received) => wire' = <<>> /\ Len(received) + 1 = messages
      <4>1. SUFFICES ASSUME Len(wire) = left PROVE wire' = <<>>
        BY <2>1
      <4>2. Len(wire') = 0
        BY <1>2, <2>5, <4>1
      <4> QED BY <1>2, <4>2, Shorts
    <3> QED BY <1>1, <1>2, <3>1, <3>2, <3>3, Delivered
  <2>6. CASE /\ n # left /\ left' = left - n /\ body' = body \o Chunk(n)
             /\ UNCHANGED <<at, data, parser, clean, received>>
    <3>1. BodyAhead(wire', left', body') /\ at' = "body" /\ parser'.kind = "sized"
      BY <1>1, <2>1, <2>2, <2>3, <2>6
    <3>2. role = "request" /\ ~pipelined /\ AllClean(received) => Len(received) + 1 = messages /\ Len(wire') = left'
      BY <1>2, <2>1, <2>4, <2>6
    <3>3. role = "request" => RequestInv'
      BY <1>1, <1>2, <2>6, <3>1, <3>2 DEF RequestInv
    <3>4. role = "response" => ResponseInv'
      BY <1>1, <2>1, <3>1 DEF ResponseInv
    <3> QED BY <1>1, <1>2, <1>4, <2>6, <3>1, <3>3, <3>4 DEF HttpInv
  <2> QED BY <1>3, <2>5, <2>6
<1> QED BY <1>4, <1>5, <1>6

\* The steps that fail, and the rest of a chunk that was cut.
LEMMA FailingSteps ==
    ASSUME HttpInv, ReadBodyFails \/ ReadFails \/ (\E n \in 1 .. Len(wire) : ReadChunkData(n))
    PROVE  HttpInv'
<1>1. /\ wire \in Seq(Units) /\ messages \in Nat /\ clean \in BOOLEAN
      /\ role = "request" => Aligned(wire)
  BY DEF HttpInv, RequestInv
<1>2. CASE ReadBodyFails
  <2>1. role' = role /\ messages' = messages /\ wire' = wire /\ received' = received /\ clean' = FALSE
    BY <1>2 DEF ReadBodyFails, peerVars
  <2> QED BY <1>1, <2>1, Uncleaned
<1>3. CASE ReadFails
  <2>1. /\ role' = role /\ messages' = messages /\ wire' = wire
        /\ received' = received /\ clean' = clean /\ at' = "failed"
    BY <1>3 DEF ReadFails, Fail, peerVars
  <2> QED BY <1>1, <2>1, Uncleaned
<1>4. ASSUME NEW n \in 1 .. Len(wire), ReadChunkData(n) PROVE HttpInv'
  <2>1. /\ wire' = SubSeq(wire, n + 1, Len(wire)) /\ at = "chunkdata"
        /\ role' = role /\ messages' = messages /\ received' = received /\ clean' = clean
    BY <1>4 DEF ReadChunkData, Reads, peerVars
  <2>2. wire' \in Seq(Units) /\ (role = "request" => Aligned(wire'))
    BY <2>1, ReadsPiece
  <2>3. clean = FALSE
    BY <1>1, <2>1 DEF HttpInv, RequestInv, ResponseInv
  <2> QED BY <1>1, <2>1, <2>2, <2>3, Uncleaned
<1> QED BY <1>2, <1>3, <1>4

\* The server answers.
LEMMA ServeStep ==
    ASSUME HttpInv, NEW keepAlive \in BOOLEAN, Serve(keepAlive)
    PROVE  HttpInv'
<1>1. /\ role' = role /\ messages' = messages /\ pipelined' = pipelined /\ at = "serve"
      /\ at' \in {"head", "done"}
      /\ wire' = wire /\ data' = data /\ parser' = parser /\ left' = left /\ body' = body
      /\ clean' = clean /\ received' = received
  BY DEF Serve, peerVars
<1>2. role = "request" => RequestInv'
  BY <1>1 DEF HttpInv, RequestInv
<1>3. role = "response" => ResponseInv'
  BY <1>1 DEF HttpInv, ResponseInv
<1> QED BY <1>1, <1>2, <1>3 DEF HttpInv

\* The peer sends a message.
LEMMA SendStep ==
    ASSUME HttpInv, NEW kind \in Kinds, PeerSends(kind)
    PROVE  HttpInv'
<1>1. /\ role' = role /\ messages' = messages + 1 /\ wire' = wire \o Text(kind)
      /\ pipelined' = (pipelined \/ Len(received) < messages \/ at = "serve")
      /\ at' = at /\ data' = data /\ parser' = parser /\ left' = left /\ body' = body
      /\ clean' = clean /\ received' = received
  BY DEF PeerSends
<1>2. /\ wire \in Seq(Units) /\ messages \in Nat /\ clean \in BOOLEAN /\ Len(received) \in Nat
      /\ role \in {"request", "response"}
  BY DEF HttpInv
<1>3. PICK t \in Seq(Units) : t = Text(kind)
  <2>1. kind \in {"bare", "sized", "chunked"}
    BY DEF Kinds
  <2> QED BY <2>1, Lengths
<1>4. /\ wire' \in Seq(Units) /\ Len(wire') = Len(wire) + Len(t)
      /\ \A i \in 1 .. Len(wire) + Len(t) : wire'[i] = IF i <= Len(wire) THEN wire[i] ELSE t[i - Len(wire)]
  <2>1. PICK w \in Seq(Units) : w = wire
    BY <1>2
  <2>2. /\ w \o t \in Seq(Units) /\ Len(w \o t) = Len(w) + Len(t)
        /\ \A i \in 1 .. Len(w) + Len(t) : (w \o t)[i] = IF i <= Len(w) THEN w[i] ELSE t[i - Len(w)]
    BY After2
  <2> QED BY <1>1, <1>3, <2>1, <2>2
<1>5. wire = <<>> => wire' = t
  BY <1>1, <1>3
<1>6. CASE role = "request"
  <2>1. kind \in {"bare", "sized"}
    BY <1>6 DEF Kinds
  <2>2. Aligned(wire')
    <3>1. PICK w \in Seq(Units) : w = wire /\ Aligned(w)
      BY <1>2, <1>6 DEF HttpInv, RequestInv
    <3> QED BY <1>1, <2>1, <3>1, AlignedMore
  <2>3. clean' => /\ at' \in {"head", "body", "serve", "failed", "done"}
                  /\ at' \in {"head", "serve"} => data' = <<>> /\ parser' = FreshParser
                  /\ at' = "body" => parser'.kind = "sized" /\ BodyAhead(wire', left', body')
    <3>1. BodyAhead(wire, left, body) => BodyAhead(wire', left', body')
      <4>1. SUFFICES ASSUME BodyAhead(wire, left, body) PROVE BodyAhead(wire', left', body')
        OBVIOUS
      <4>2. left \in {1, 2} /\ left <= Len(wire)
        BY <4>1 DEF BodyAhead
      <4>3. \A i \in 1 .. left : wire'[i] = wire[i]
        BY <1>2, <1>4, <4>2
      <4>4. left <= Len(wire')
        BY <1>2, <1>4, <4>2
      <4> QED BY <1>1, <1>4, <4>1, <4>3, <4>4 DEF BodyAhead
    <3> QED BY <1>1, <1>6, <3>1 DEF HttpInv, RequestInv
  <2>4. clean' /\ ~pipelined' /\ AllClean(received') =>
          /\ at' = "head"  => \/ wire' = <<>> /\ Len(received') = messages'
                              \/ Len(received') + 1 = messages' /\ \E k \in {"bare", "sized"} : wire' = Text(k)
          /\ at' = "body"  => Len(received') + 1 = messages' /\ Len(wire') = left'
          /\ at' = "serve" => wire' = <<>> /\ Len(received') = messages'
    <3>1. SUFFICES ASSUME clean', ~pipelined', AllClean(received')
                   PROVE  /\ at = "head" /\ wire' = Text(kind) /\ Len(received) + 1 = messages'
                          \/ at \notin {"head", "body", "serve"}
      BY <1>1, <2>1
    <3>2. ~pipelined /\ ~(Len(received) < messages) /\ at # "serve" /\ AllClean(received) /\ clean
      BY <1>1, <3>1
    <3>3. /\ at = "head"  => \/ wire = <<>> /\ Len(received) = messages
                             \/ Len(received) + 1 = messages
          /\ at = "body"  => Len(received) + 1 = messages
      BY <1>6, <3>2 DEF HttpInv, RequestInv
    <3> QED BY <1>1, <1>2, <1>3, <1>5, <3>2, <3>3
  <2>5. RequestInv'
    BY <2>2, <2>3, <2>4 DEF RequestInv
  <2> QED BY <1>1, <1>2, <1>4, <1>6, <2>5 DEF HttpInv
<1>7. CASE role = "response"
  <2>1. messages < 1
    BY <1>7 DEF PeerSends
  <2>2. messages = 0
    BY <1>2, <2>1
  <2>3. CASE clean = FALSE
    <3>1. received' = received /\ clean' = FALSE /\ role' = role /\ messages' \in Nat
      BY <1>1, <1>2, <2>3
    <3> QED BY <1>4, <1>7, <3>1, Uncleaned
  <2>4. CASE clean = TRUE
    <3>1. at \in {"head", "failed", "done"}
          /\ (at = "head" => data = <<>> /\ body = <<>> /\ wire = <<>> /\ parser = FreshParser)
      BY <1>7, <2>2, <2>4 DEF HttpInv, ResponseInv
    <3>2. at = "head" => HeadAt(wire', FreshParser, kind, 0)
      <4>1. SUFFICES ASSUME wire' = t PROVE HeadAt(wire', FreshParser, kind, 0)
        BY <1>5, <3>1
      <4>2. TailOf(t, kind, 0)
        <5>1. Len(t) = Len(Text(kind)) - 0 /\ \A i \in 1 .. Len(t) : t[i] = Text(kind)[0 + i]
          BY <1>3
        <5> QED BY <5>1 DEF TailOf
      <4>3. 0 \in 0 .. HeadLen(kind) - 1 /\ Stage(kind, 0) \in {"start", "fields"}
        BY DEF HeadLen, Stage
      <4> QED BY <4>1, <4>2, <4>3, Fresh DEF HeadAt
    <3>3. kind \in Kinds' /\ messages' = 1
      BY <1>1, <2>2 DEF Kinds
    <3>4. ResponseInv'
      BY <1>1, <3>1, <3>2, <3>3 DEF ResponseInv
    <3> QED BY <1>1, <1>2, <1>4, <1>7, <3>4 DEF HttpInv
  <2> QED BY <1>2, <2>3, <2>4
<1> QED BY <1>2, <1>6, <1>7

\* Before anything has come.
LEMMA HttpBegins == HttpInit => HttpInv
<1> SUFFICES ASSUME HttpInit PROVE HttpInv
  OBVIOUS
<1>1. /\ role \in {"request", "response"} /\ wire = <<>> /\ messages = 0 /\ pipelined = FALSE
      /\ at = "head" /\ data = <<>> /\ parser = FreshParser /\ body = <<>> /\ clean = TRUE /\ received = <<>>
  BY DEF HttpInit
<1>2. wire \in Seq(Units) /\ Len(wire) = 0 /\ received \in Seq(Units) /\ Len(received) = 0
  BY <1>1
<1>3. Aligned(wire) /\ BodiesKept(received)
  BY <1>2 DEF Aligned, BodiesKept
<1>4. RequestInv
  BY <1>1, <1>2, <1>3 DEF RequestInv
<1>5. ResponseInv
  BY <1>1 DEF ResponseInv
<1> QED BY <1>1, <1>2, <1>3, <1>4, <1>5 DEF HttpInv

\* A call of a parser leaves a parser.
LEMMA StillParser ==
    ASSUME NEW p \in Parsers, NEW text \in Seq(Units)
    PROVE  Execute(p, text) \in Parsers
<1>1. PICK N \in Nat : N = Len(text)
  OBVIOUS
<1>2. PICK run \in [0 .. N -> Parsers] :
          Execute(p, text) = [run[N] EXCEPT !.total = IF role = "request" THEN p.total + run[N].nread ELSE run[N].nread]
  <2>1. \E run \in [0 .. Len(text) -> Parsers] :
              /\ run[0] = [p EXCEPT !.nread = 0, !.field = FALSE]
              /\ \A k \in 1 .. Len(text) : run[k] = Consume(run[k - 1], text[k])
              /\ Execute(p, text) = [run[Len(text)] EXCEPT !.total =
                    IF role = "request" THEN p.total + run[Len(text)].nread ELSE run[Len(text)].nread]
    BY Executed, Zenon
  <2> QED BY <1>1, <2>1
<1>3. PICK q \in Parsers : q = run[N]
  BY <1>1
<1>4. PICK t \in Nat : t = IF role = "request" THEN p.total + q.nread ELSE q.nread
  BY DEF Parsers
<1>5. Execute(p, text) = [q EXCEPT !.total = t]
  BY <1>2, <1>3, <1>4
<1> QED BY <1>5 DEF Parsers

\* Reading on in a chunked message.
LEMMA ChunkText ==
    ASSUME NEW d, NEW w, NEW c \in {3, 4, 9, 10}, ChunkAhead(d, w, c), NEW n \in 1 .. Len(w)
    PROVE  /\ ChunkAhead(d \o SubSeq(w, 1, n), SubSeq(w, n + 1, Len(w)), c)
           /\ Len(d \o SubSeq(w, 1, n)) >= 1
<1>1. /\ d \in Seq(Units) /\ w \in Seq(Units) /\ Len(d) + Len(w) = 13 - c
      /\ \A i \in 1 .. Len(d) : d[i] = Text("chunked")[c + i]
      /\ \A i \in 1 .. Len(w) : w[i] = Text("chunked")[c + Len(d) + i]
  BY DEF ChunkAhead
<1>2. PICK t \in Seq(Units) : t = Text("chunked")
  BY Messages
<1>3. n \in 0 .. Len(w) /\ n \in Nat /\ Len(w) \in Nat /\ Len(d) \in Nat
  BY <1>1
<1>4. PICK v \in Seq(Units) : /\ v = SubSeq(w, n + 1, Len(w)) /\ Len(v) = Len(w) - n
                              /\ \A i \in 1 .. Len(w) - n : v[i] = w[n + i]
  BY <1>1, <1>3, Pieces
<1>5. PICK s \in Seq(Units) : /\ s = SubSeq(w, 1, n) /\ Len(s) = n
                              /\ \A i \in 1 .. n : s[i] = w[i]
  BY <1>1, <1>3, Pieces
<1>6. PICK a \in Seq(Units) : /\ a = d \o s /\ Len(a) = Len(d) + n
                              /\ \A i \in 1 .. Len(d) + n : a[i] = IF i <= Len(d) THEN d[i] ELSE s[i - Len(d)]
  <2>1. /\ d \o s \in Seq(Units) /\ Len(d \o s) = Len(d) + Len(s)
        /\ \A i \in 1 .. Len(d) + Len(s) : (d \o s)[i] = IF i <= Len(d) THEN d[i] ELSE s[i - Len(d)]
    BY <1>1, After2
  <2> QED BY <1>5, <2>1
<1>7. ASSUME NEW i \in 1 .. Len(a) PROVE a[i] = t[c + i]
  <2>1. CASE i <= Len(d)
    BY <1>1, <1>2, <1>3, <1>6, <2>1
  <2>2. CASE i > Len(d)
    <3>0. PICK x \in Nat : x = Len(d)
      BY <1>3
    <3>4. PICK k \in 1 .. n : k = i - x
      <4>1. i \in 1 .. x + n /\ i > x
        BY <1>6, <2>2, <3>0
      <4>2. i - x \in 1 .. n
        BY <1>3, <4>1
      <4> QED BY <4>2
    <3>5. c \in Int /\ x \in Int /\ i \in Int /\ k \in Int
      OBVIOUS
    <3>6. c + x + k = c + i
      BY <3>4, <3>5
    <3>1. k = i - Len(d) /\ c + Len(d) + k = c + i
      BY <3>0, <3>4, <3>6
    <3>2. a[i] = s[k]
      BY <1>3, <1>6, <2>2, <3>1
    <3>3. s[k] = w[k] /\ k \in 1 .. Len(w)
      BY <1>3, <1>5
    <3> QED BY <1>1, <1>2, <3>1, <3>2, <3>3
  <2> QED BY <1>3, <2>1, <2>2
<1>8. ASSUME NEW i \in 1 .. Len(v) PROVE v[i] = t[c + Len(a) + i]
  <2>1. i \in 1 .. Len(w) - n /\ n + i \in 1 .. Len(w)
    BY <1>3, <1>4
  <2>2. c + Len(d) + (n + i) = c + Len(a) + i
    BY <1>3, <1>6, <2>1
  <2> QED BY <1>1, <1>2, <1>4, <2>1, <2>2
<1>9. Len(a) + Len(v) = 13 - c /\ Len(a) >= 1
  <2>1. PICK x \in Nat, y \in Nat, m \in Nat : x = Len(d) /\ y = Len(w) /\ m = n
    BY <1>3
  <2>2. Len(a) = x + m /\ Len(v) = y - m /\ x + y = 13 - c /\ m >= 1
    BY <1>1, <1>4, <1>6, <2>1
  <2>3. (x + m) + (y - m) = x + y /\ x + m >= 1
    BY <2>2
  <2> QED BY <2>2, <2>3
<1> QED BY <1>2, <1>4, <1>5, <1>6, <1>7, <1>8, <1>9 DEF ChunkAhead

\* A chunk's line, after a read that was cut.
LEMMA CutChunkLine ==
    ASSUME HttpInv, ~clean, NEW n \in 1 .. Len(wire), ReadChunkLine(n)
    PROVE  HttpInv'
<1>1. /\ wire' = SubSeq(wire, n + 1, Len(wire))
      /\ role' = role /\ messages' = messages /\ pipelined' = pipelined
  BY DEF ReadChunkLine, Reads, peerVars
<1>2. wire' \in Seq(Units) /\ (role = "request" => Aligned(wire')) /\ messages' \in Nat /\ clean = FALSE
  BY <1>1, ReadsPiece DEF HttpInv
<1>3. \/ clean' = FALSE /\ received' = received
      \/ \E q : Deliver(q, body, FALSE)
  <2>1. PICK text : text = data \o Chunk(n)
    OBVIOUS
  <2>2. PICK p : p = Execute(FreshParser, text)
    OBVIOUS
  <2>3. PICK rest : rest = SubSeq(text, p.total + 1, Len(text))
    OBVIOUS
  <2>4. (clean /\ Len(rest) - 2 = p.size) = FALSE
    OBVIOUS
  <2>5. \/ Fail
        \/ UNCHANGED <<clean, received>>
        \/ Deliver([p EXCEPT !.kind = parser.kind], body, FALSE)
        \/ clean' = FALSE /\ UNCHANGED received
    BY <2>1, <2>2, <2>3, <2>4 DEF ReadChunkLine
  <2> QED BY <1>2, <2>5 DEF Fail
<1>4. CASE clean' = FALSE /\ received' = received
  BY <1>1, <1>2, <1>4, Uncleaned
<1>5. ASSUME NEW q, Deliver(q, body, FALSE) PROVE HttpInv'
  <2>1. PICK b : b = body
    OBVIOUS
  <2>2. PICK ok \in BOOLEAN : ok = FALSE
    OBVIOUS
  <2>3. Deliver(q, b, ok)
    BY <1>5, <2>1, <2>2
  <2> QED BY <1>1, <1>2, <2>2, <2>3, Delivered
<1> QED BY <1>3, <1>4, <1>5

\* Nothing.
LEMMA NoUnits ==
    /\ <<>> \in Seq(Units) /\ Len(<<>>) = 0 /\ Len(<<>>) \in Nat
    /\ \A s \in Seq(Units) : SubSeq(s, 2, 1) = <<>> /\ SubSeq(s, 3, 2) = <<>>
OBVIOUS

\* the parser p has read the line of the chunk that text begins with, from unit c of the
\* message on, and rest is what follows it
LineRead(p, text, rest, c) ==
    /\ rest \in Seq(Units) /\ Len(rest) \in Nat
    /\ Len(text) = 1 => p.cs = "size" /\ Len(rest) = 0
    /\ Len(text) # 1 => /\ p.cs = "final" /\ p.size = (IF c = 3 THEN 2 ELSE 0)
                        /\ Len(rest) = Len(text) - 2
                        /\ \A i \in 1 .. Len(rest) : rest[i] = Text("chunked")[c + 2 + i]

\* Where the text is at the beginning of a chunk, what the parser makes of its line, and what
\* is left.
LEMMA LineParsed ==
    ASSUME role = "response", NEW c \in {3, 9}, NEW text, NEW v, ChunkAhead(text, v, c), Len(text) >= 1,
           NEW p, p = Execute(FreshParser, text), NEW rest, rest = SubSeq(text, p.total + 1, Len(text))
    PROVE  LineRead(p, text, rest, c)
<1>1. /\ text \in Seq(Units) /\ v \in Seq(Units)
      /\ \A i \in 1 .. Len(text) : text[i] = Text("chunked")[c + i]
  BY DEF ChunkAhead
<1>2. /\ text[1] = (IF c = 3 THEN "size" ELSE "last")
      /\ Len(text) >= 2 => text[2] = "eol"
  <2>1. text[1] = Text("chunked")[c + 1] /\ (Len(text) >= 2 => text[2] = Text("chunked")[c + 2])
    <3>1. 1 \in 1 .. Len(text) /\ (Len(text) >= 2 => 2 \in 1 .. Len(text))
      BY <1>1
    <3> QED BY <1>1, <3>1
  <2>2. CASE c = 3
    <3>1. text[1] = Text("chunked")[4] /\ (Len(text) >= 2 => text[2] = Text("chunked")[5])
      BY <2>1, <2>2
    <3> QED BY <2>2, <3>1, Messages
  <2>3. CASE c = 9
    <3>1. text[1] = Text("chunked")[10] /\ (Len(text) >= 2 => text[2] = Text("chunked")[11])
      BY <2>1, <2>3
    <3> QED BY <2>3, <3>1, Messages
  <2> QED BY <2>2, <2>3
<1>3. /\ Len(text) = 1 => p.cs = "size" /\ p.total = 1
      /\ Len(text) >= 2 => /\ p.cs = "final" /\ p.total = 2
                           /\ p.size = IF text[1] = "size" THEN 2 ELSE 0
  <2>1. text[1] \in {"size", "last"}
    BY <1>2
  <2> QED BY <1>1, <1>2, <2>1, ChunkLine
<1>4. PICK L \in Nat : L = Len(text) /\ L >= 1
  BY <1>1
<1>5. CASE L = 1
  <2>1. rest = SubSeq(text, 2, 1)
    BY <1>3, <1>4, <1>5
  <2>2. SubSeq(text, 2, 1) = <<>>
    BY <1>1, NoUnits
  <2>4. rest = <<>>
    BY <2>1, <2>2
  <2>3. rest \in Seq(Units) /\ Len(rest) = 0 /\ Len(rest) \in Nat
    BY <2>4, NoUnits, Zenon
  <2> QED BY <1>3, <1>4, <1>5, <2>3 DEF LineRead
<1>6. CASE L >= 2
  <2>1. PICK k \in 0 .. Len(text) : k = 2
    BY <1>4, <1>6
  <2>2. PICK r \in Seq(Units) : /\ r = SubSeq(text, k + 1, Len(text)) /\ Len(r) = Len(text) - k
                                /\ \A i \in 1 .. Len(text) - k : r[i] = text[k + i]
    BY <1>1, Pieces
  <2>7. r = rest
    BY <1>3, <1>4, <1>6, <2>1, <2>2
  <2>3. /\ rest \in Seq(Units) /\ Len(rest) = Len(text) - 2
        /\ \A i \in 1 .. Len(text) - 2 : rest[i] = text[2 + i]
    BY <2>1, <2>2, <2>7
  <2>4. ASSUME NEW i \in 1 .. Len(rest) PROVE rest[i] = Text("chunked")[c + 2 + i]
    <3>1. i \in 1 .. L - 2 /\ 2 + i \in 1 .. L /\ c + (2 + i) = c + 2 + i
      BY <1>4, <1>6, <2>3
    <3> QED BY <1>1, <1>4, <2>3, <3>1
  <2>5. p.cs = "final" /\ p.size = (IF c = 3 THEN 2 ELSE 0)
    BY <1>2, <1>3, <1>4, <1>6
  <2>8. Len(r) \in Nat /\ Len(text) # 1
    BY <1>4, <1>6
  <2>6. Len(text) # 1 /\ Len(rest) \in Nat
    BY <2>7, <2>8, Zenon
  <2> QED BY <2>3, <2>4, <2>5, <2>6 DEF LineRead
<1>7. L = 1 \/ L >= 2
  BY <1>4
<1> QED BY <1>5, <1>6, <1>7

\* A chunk's line, with the chunk when it comes whole.
LEMMA ChunkLineStep ==
    ASSUME HttpInv, clean, NEW n \in 1 .. Len(wire), ReadChunkLine(n)
    PROVE  HttpInv'
<1>1. /\ wire' = SubSeq(wire, n + 1, Len(wire)) /\ at = "chunk"
      /\ role' = role /\ messages' = messages /\ pipelined' = pipelined
  BY DEF ReadChunkLine, Reads, peerVars
<1>2. clean = TRUE /\ messages \in Nat /\ role = "response"
  BY <1>1 DEF HttpInv, RequestInv
<1>3. messages = 1 /\ parser.kind = "chunked"
      /\ \E c \in {3, 4, 9, 10} : /\ ChunkAhead(data, wire, c)
                                  /\ c # 3 => data = <<>>
                                  /\ body = IF c < 9 THEN <<>> ELSE Body
  BY <1>1, <1>2 DEF HttpInv, ResponseInv
<1>4. PICK c \in {3, 4, 9, 10} : /\ ChunkAhead(data, wire, c)
                                 /\ c # 3 => data = <<>>
                                 /\ body = IF c < 9 THEN <<>> ELSE Body
  BY <1>3
<1>5. PICK text : text = data \o Chunk(n)
  OBVIOUS
<1>6. ChunkAhead(text, wire', c) /\ Len(text) >= 1 /\ wire' \in Seq(Units) /\ text \in Seq(Units)
  <2>1. PICK w : w = wire
    OBVIOUS
  <2>2. ChunkAhead(data, w, c) /\ n \in 1 .. Len(w) /\ text = data \o SubSeq(w, 1, n)
        /\ wire' = SubSeq(w, n + 1, Len(w))
    BY <1>1, <1>4, <1>5, <2>1 DEF Chunk
  <2>3. ChunkAhead(text, wire', c) /\ Len(text) >= 1
    BY <2>2, ChunkText
  <2> QED BY <2>3 DEF ChunkAhead
<1>7. PICK p \in Parsers : p = Execute(FreshParser, text)
  BY <1>6, Fresh, StillParser
<1>8. PICK rest : rest = SubSeq(text, p.total + 1, Len(text))
  OBVIOUS
<1>9. PICK q : q = [p EXCEPT !.kind = parser.kind]
  OBVIOUS
<1>16. q.kind = "chunked"
  BY <1>3, <1>9 DEF Parsers
<1>10. PICK ok \in BOOLEAN : ok <=> Len(rest) - 2 = p.size
  OBVIOUS
<1>11. \/ Fail
       \/ /\ p.cs \notin {"error", "final"}
          /\ data' = rest /\ UNCHANGED <<at, parser, left, body, clean, received>>
       \/ /\ p.cs = "final" /\ p.size = 0
          /\ Deliver(q, body, ok)
       \/ /\ p.cs = "final" /\ p.size # 0
          /\ body' = body \o SubSeq(rest, 1, p.size)
          /\ data' = SubSeq(rest, p.size + 1, Len(rest) - 2)
          /\ parser' = q /\ clean' = ok
          /\ UNCHANGED <<at, left, received>>
       \/ p.cs = "final" /\ clean' = FALSE /\ UNCHANGED received
       \/ /\ p.cs = "final" /\ p.size > Len(rest) - 2 /\ Len(rest) - 2 >= 0
          /\ clean' = ok /\ UNCHANGED received
  <2>1. ok = (clean /\ Len(rest) - 2 = p.size)
    BY <1>2, <1>10
  <2> QED BY <1>5, <1>7, <1>8, <1>9, <2>1 DEF ReadChunkLine
<1>12. CASE Fail
  <2>1. received' = received /\ clean' = clean /\ at' = "failed"
    BY <1>12 DEF Fail
  <2> QED BY <1>1, <1>2, <1>6, <2>1, Uncleaned
<1>13. CASE clean' = FALSE /\ received' = received
  BY <1>1, <1>2, <1>6, <1>13, Uncleaned
<1>14. CASE c \in {4, 10}
  <2>1. text[1] = "eol"
    <3>1. text[1] = Text("chunked")[c + 1]
      <4>1. 1 \in 1 .. Len(text)
        BY <1>6
      <4> QED BY <1>6, <4>1 DEF ChunkAhead
    <3>2. CASE c = 4
      <4>1. text[1] = Text("chunked")[5]
        BY <3>1, <3>2
      <4> QED BY <4>1, Messages
    <3>3. CASE c = 10
      <4>1. text[1] = Text("chunked")[11]
        BY <3>1, <3>3
      <4> QED BY <4>1, Messages
    <3> QED BY <1>14, <3>2, <3>3
  <2>2. \A t \in Transitions : ~(t[1] = "start" /\ t[2] = text[1])
    BY <2>1 DEF Transitions, FieldRows, RequestRows, ResponseRows, ChunkRows
  <2>3. p.cs = "error"
    <3>1. PICK fresh \in Parsers : fresh = FreshParser /\ fresh.cs = "start"
      BY Fresh
    <3>2. Execute(fresh, text).cs = "error"
      BY <1>6, <2>2, <3>1, Refused
    <3> QED BY <1>7, <3>1, <3>2
  <2>4. Fail
    BY <1>11, <2>3
  <2> QED BY <1>12, <2>4
<1>15. CASE c \in {3, 9}
  <2>0. LineRead(p, text, rest, c)
    <3>1. PICK v : v = wire'
      OBVIOUS
    <3>2. PICK d \in {3, 9} : d = c
      BY <1>15
    <3>3. ChunkAhead(text, v, d)
      BY <1>6, <3>1, <3>2
    <3> QED BY <1>2, <1>6, <1>7, <1>8, <3>2, <3>3, LineParsed
  <2>1. /\ rest \in Seq(Units) /\ Len(rest) \in Nat
        /\ Len(text) = 1 => p.cs = "size" /\ Len(rest) = 0
        /\ Len(text) # 1 => /\ p.cs = "final" /\ p.size = (IF c = 3 THEN 2 ELSE 0)
                            /\ Len(rest) = Len(text) - 2
                            /\ \A i \in 1 .. Len(rest) : rest[i] = Text("chunked")[c + 2 + i]
    BY <2>0 DEF LineRead
  <2>2. Len(text) + Len(wire') = 13 - c /\ Len(text) \in Nat /\ Len(wire') \in Nat
        /\ \A i \in 1 .. Len(wire') : wire'[i] = Text("chunked")[c + Len(text) + i]
    BY <1>6 DEF ChunkAhead
  <2>3. CASE /\ p.cs \notin {"error", "final"}
             /\ data' = rest /\ UNCHANGED <<at, parser, left, body, clean, received>>
    <3>1. Len(text) = 1 /\ data' = <<>>
      BY <2>1, <2>3, Shorts
    <3>2. PICK e \in {3, 4, 9, 10} : e = c + 1 /\ e # 3 /\ (e < 9 <=> c < 9)
      BY <1>15
    <3>3. ChunkAhead(<<>>, wire', e)
      <4>1. Len(wire') = 13 - e /\ \A i \in 1 .. Len(wire') : wire'[i] = Text("chunked")[e + i]
        BY <2>2, <3>1, <3>2
      <4>2. PICK d \in Seq(Units) : d = <<>> /\ Len(d) = 0
        BY NoUnits
      <4>3. Len(d) + Len(wire') = 13 - e /\ e + Len(d) = e
        BY <2>2, <3>2, <4>1, <4>2
      <4>4. ChunkAhead(d, wire', e)
        BY <1>6, <4>1, <4>2, <4>3 DEF ChunkAhead
      <4> QED BY <4>2, <4>4
    <3>4. body' = IF e < 9 THEN <<>> ELSE Body
      BY <1>4, <2>3, <3>2
    <3>5. ResponseInv'
      BY <1>1, <1>3, <2>3, <3>1, <3>2, <3>3, <3>4 DEF ResponseInv
    <3> QED BY <1>1, <1>2, <1>6, <2>3, <3>5 DEF HttpInv
  <2>4. CASE p.cs = "final" /\ p.size = 0 /\ Deliver(q, body, ok)
    <3>1. body = Body
      BY <1>4, <1>15, <2>1, <2>4
    <3>2. body = BodyOf(q.kind)
      BY <1>16, <3>1 DEF BodyOf
    <3>3. PICK b : b = body
      OBVIOUS
    <3> QED BY <1>1, <1>2, <1>6, <2>4, <3>2, <3>3, Delivered
  <2>5. CASE /\ p.cs = "final" /\ p.size # 0
             /\ body' = body \o SubSeq(rest, 1, p.size)
             /\ data' = SubSeq(rest, p.size + 1, Len(rest) - 2)
             /\ parser' = q /\ clean' = ok
             /\ UNCHANGED <<at, left, received>>
    <3>1. CASE ok = FALSE
      BY <1>1, <1>2, <1>6, <2>5, <3>1, Uncleaned
    <3>2. CASE ok = TRUE
      <4>1. c = 3 /\ p.size = 2 /\ Len(text) # 1
        BY <1>15, <2>1, <2>5
      <4>2. Len(rest) = 4 /\ Len(text) = 6
        <5>1. PICK k \in Nat, m \in Nat : k = Len(rest) /\ m = Len(text)
          BY <2>1, <2>2
        <5>2. k - 2 = 2 /\ k = m - 2
          BY <1>10, <2>1, <3>2, <4>1, <5>1
        <5> QED BY <5>1, <5>2
      <4>3. rest[1] = "x" /\ rest[2] = "y"
        <5>1. rest[1] = Text("chunked")[6] /\ rest[2] = Text("chunked")[7]
          <6>1. \A i \in 1 .. 4 : rest[i] = Text("chunked")[3 + 2 + i]
            BY <2>1, <4>1, <4>2
          <6>2. rest[1] = Text("chunked")[3 + 2 + 1] /\ rest[2] = Text("chunked")[3 + 2 + 2]
            BY <6>1
          <6> QED BY <6>2
        <5> QED BY <5>1, Messages
      <4>4. SubSeq(rest, 1, 2) = Body
        <5>1. PICK r \in Seq(Units) : r = rest
          BY <2>1
        <5>2. Len(r) >= 2 /\ r[1] = "x" /\ r[2] = "y"
          BY <4>2, <4>3, <5>1
        <5>3. SubSeq(r, 1, 2) = Body
          BY <5>2, Shorts
        <5> QED BY <5>1, <5>3
      <4>5. body' = Body
        <5>1. body = <<>>
          BY <1>4, <4>1
        <5>2. body' = <<>> \o Body
          BY <2>5, <4>1, <4>4, <5>1
        <5> QED BY <5>2, Messages
      <4>6. data' = <<>>
        <5>1. data' = SubSeq(rest, 3, 2)
          BY <2>5, <4>1, <4>2
        <5> QED BY <2>1, <5>1, NoUnits
      <4>7. ChunkAhead(<<>>, wire', 9)
        <5>1. Len(wire') = 4 /\ \A i \in 1 .. Len(wire') : wire'[i] = Text("chunked")[9 + i]
          <6>1. PICK k \in Nat : k = Len(wire')
            BY <2>2
          <6>2. 6 + k = 13 - 3
            BY <2>2, <4>1, <4>2, <6>1
          <6>3. \A i \in 1 .. k : wire'[i] = Text("chunked")[3 + 6 + i]
            BY <2>2, <4>1, <4>2, <6>1
          <6>4. k = 4 /\ \A i \in 1 .. k : 3 + 6 + i = 9 + i
            BY <6>2
          <6> QED BY <6>1, <6>3, <6>4
        <5>2. PICK d \in Seq(Units) : d = <<>> /\ Len(d) = 0
          BY NoUnits
        <5>3. Len(d) + Len(wire') = 13 - 9 /\ 9 + Len(d) = 9
          BY <5>1, <5>2
        <5>4. ChunkAhead(d, wire', 9)
          BY <1>6, <5>1, <5>2, <5>3 DEF ChunkAhead
        <5> QED BY <5>2, <5>4
      <4>8. PICK e \in {3, 4, 9, 10} : e = 9 /\ e # 3 /\ ~(e < 9)
        OBVIOUS
      <4>9. messages' = 1 /\ parser'.kind = "chunked" /\ at' = "chunk"
        BY <1>1, <1>3, <1>16, <2>5
      <4>10. ResponseInv'
        BY <4>5, <4>6, <4>7, <4>8, <4>9 DEF ResponseInv
      <4>11. received' = received /\ clean' \in BOOLEAN
        BY <2>5
      <4> QED BY <1>1, <1>2, <1>6, <4>9, <4>10, <4>11 DEF HttpInv
    <3> QED BY <3>1, <3>2
  <2>6. CASE /\ p.cs = "final" /\ p.size > Len(rest) - 2 /\ Len(rest) - 2 >= 0
             /\ clean' = ok /\ UNCHANGED received
    <3>1. p.size \in Nat /\ Len(rest) - 2 \in Int
      BY <2>1 DEF Parsers
    <3>2. ~(Len(rest) - 2 = p.size)
      BY <2>6, <3>1
    <3> QED BY <1>10, <1>13, <2>6, <3>2
  <2> QED BY <1>11, <1>12, <1>13, <2>3, <2>4, <2>5, <2>6
<1> QED BY <1>14, <1>15

\* A step of the receiver or of the peer.
LEMMA HttpStep == HttpInv /\ [HttpNext]_httpVars => HttpInv'
<1> SUFFICES ASSUME HttpInv, [HttpNext]_httpVars PROVE HttpInv'
  OBVIOUS
<1>1. ASSUME NEW kind \in Kinds, PeerSends(kind) PROVE HttpInv'
  BY <1>1, SendStep
<1>2. CASE PeerCloses
  BY <1>2, SameHttp DEF PeerCloses
<1>3. ASSUME NEW n \in 1 .. Len(wire), ReadHead(n) PROVE HttpInv'
  <2>1. role \in {"request", "response"}
    BY DEF HttpInv
  <2> QED BY <1>3, <2>1, CutHead, RequestHead, ResponseHead
<1>4. ASSUME NEW n \in 1 .. Len(wire), ReadBody(n) PROVE HttpInv'
  BY <1>4, BodyStep
<1>5. ASSUME NEW n \in 1 .. Len(wire), ReadChunkLine(n) PROVE HttpInv'
  BY <1>5, CutChunkLine, ChunkLineStep
<1>6. CASE ReadBodyFails \/ ReadFails \/ (\E n \in 1 .. Len(wire) : ReadChunkData(n))
  BY <1>6, FailingSteps
<1>7. ASSUME NEW keepAlive \in BOOLEAN, Serve(keepAlive) PROVE HttpInv'
  BY <1>7, ServeStep
<1>8. CASE UNCHANGED httpVars
  BY <1>8, SameHttp DEF httpVars
<1> QED BY <1>1, <1>2, <1>3, <1>4, <1>5, <1>6, <1>7, <1>8 DEF HttpNext

\* Whatever the reads return, a message none of whose parts was cut is received as it was sent.
LEMMA HttpKept == HttpInv => ReceivedAsSent
<1> SUFFICES ASSUME HttpInv PROVE ReceivedAsSent
  OBVIOUS
<1>1. PICK S : received \in Seq(S)
  BY DEF HttpInv
<1>2. DOMAIN received = 1 .. Len(received)
  BY <1>1
<1>3. \A i \in DOMAIN received : received[i].clean => received[i].body = BodyOf(received[i].kind)
  BY <1>2 DEF HttpInv, BodiesKept
<1>4. at \in {"aborted", "corrupt"} => ~clean
  BY DEF HttpInv
<1>5. ASSUME at = "head", clean, ~pipelined, parser.cs = "start", \A i \in DOMAIN received : received[i].clean
      PROVE  wire = <<>> \/ wire[1] \in {"bare", "sized", "chunked"}
  <2>1. AllClean(received) /\ role \in {"request", "response"}
    BY <1>2, <1>5 DEF AllClean, HttpInv
  <2>2. CASE role = "request"
    <3>1. wire = <<>> \/ wire = Text("bare") \/ wire = Text("sized")
      BY <1>5, <2>1, <2>2 DEF HttpInv, RequestInv
    <3> QED BY <3>1, Messages
  <2>3. CASE role = "response"
    <3>1. wire = <<>> \/ \E kind \in Kinds : \E c \in 0 .. 3 : HeadAt(wire, parser, kind, c)
      BY <1>5, <2>3 DEF HttpInv, ResponseInv
    <3>2. ASSUME NEW kind \in Kinds, NEW c \in 0 .. 3, HeadAt(wire, parser, kind, c)
          PROVE  wire[1] \in {"bare", "sized", "chunked"}
      <4>1. /\ kind \in {"bare", "sized", "chunked"} /\ TailOf(wire, kind, c) /\ c \in 0 .. HeadLen(kind) - 1
            /\ parser \in Parsers /\ At(Anew(parser), kind, c, c)
        BY <3>2 DEF HeadAt, Kinds
      <4>2. PICK q : q = Anew(parser)
        OBVIOUS
      <4>8. q.cs = "start"
        <5>1. PICK p \in Parsers : p = parser /\ p.cs = "start"
          BY <1>5, <4>1
        <5>2. q = Anew(p)
          BY <4>2, <5>1
        <5> QED BY <5>1, <5>2 DEF Anew, Parsers
      <4>3. Stage(kind, c) = "start"
        BY <4>1, <4>2, <4>8 DEF At
      <4>4. c = 0
        BY <4>3 DEF Stage
      <4>5. Len(wire) >= 1 /\ \A i \in 1 .. Len(wire) : wire[i] = Text(kind)[0 + i]
        BY <4>1, <4>4, Lengths DEF TailOf
      <4>6. wire[1] = Text(kind)[1]
        <5>1. 1 \in 1 .. Len(wire) /\ 0 + 1 = 1
          BY <4>1, <4>5 DEF TailOf
        <5> QED BY <4>5, <5>1
      <4>7. Text("bare")[1] = "bare" /\ Text("sized")[1] = "sized" /\ Text("chunked")[1] = "chunked"
        BY Messages
      <4> QED BY <4>1, <4>6, <4>7
    <3> QED BY <3>1, <3>2
  <2> QED BY <2>1, <2>2, <2>3
<1> QED BY <1>3, <1>4, <1>5 DEF ReceivedAsSent

\* HttpSession::recvRequest, HttpServer::handleClient, HttpConnection::recvResponse: a message
\* of which no read cut a part the receiver needs whole is received as it was sent, in any
\* pieces, for buffers of any size and any number of requests; the server stays in step with a
\* client that waits, and nothing is read outside the buffer.
THEOREM MessagesReceived == HttpSpec => []ReceivedAsSent
<1>1. HttpSpec => []HttpInv
  BY HttpBegins, HttpStep, PTL DEF HttpSpec
<1> QED BY <1>1, HttpKept, PTL
=============================================================================
