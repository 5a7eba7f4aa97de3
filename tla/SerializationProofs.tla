------------------------- MODULE SerializationProofs -------------------------
(***************************************************************************)
(* Proofs about Serialization, for messages of any types and values, blocks *)
(* of any size and contents, and numbers of any width: no stream leaves its *)
(* bounds, and a message takes the bytes that were announced.               *)
(***************************************************************************)
EXTENDS Serialization, FiniteSetTheorems, TLAPS

-----------------------------------------------------------------------------
(* Induction.  A set of numbers that is closed under successors misses none: *)
(* otherwise taking one away from each number it misses below n would be an  *)
(* injection of a finite set into a smaller one.                             *)
LEMMA SetInduction ==
  ASSUME NEW S, 0 \in S, \A n \in Nat : n \in S => n + 1 \in S
  PROVE  \A n \in Nat : n \in S
<1> SUFFICES ASSUME NEW n \in Nat, n \notin S PROVE FALSE
  OBVIOUS
<1> DEFINE T == {i \in 0 .. n : i \notin S}
           f == [i \in T |-> i - 1]
<1>1. IsFiniteSet(T)
  <2>1. T \in SUBSET (0 .. n) /\ IsFiniteSet(0 .. n)
    BY FS_Interval
  <2>2. QED BY <2>1, FS_Subset
<1>2. n \in T
  OBVIOUS
<1>3. Cardinality(T \ {n}) < Cardinality(T)
  <2>1. Cardinality(T \ {n}) = Cardinality(T) - 1
    BY <1>1, <1>2, FS_RemoveElement
  <2>2. QED BY <1>1, <2>1, FS_CardinalityType
<1>4. f \in [T -> T \ {n}]
  <2> SUFFICES ASSUME NEW i \in T PROVE i - 1 \in T \ {n}
    OBVIOUS
  <2>1. i \in Nat /\ i # 0 /\ i <= n
    OBVIOUS
  <2>2. i - 1 \in Nat /\ (i - 1) + 1 = i
    BY <2>1
  <2>3. i - 1 \notin S
    BY <2>2
  <2>4. QED BY <2>1, <2>2, <2>3
<1>5. \E x, y \in T : x # y /\ f[x] = f[y]
  <2> HIDE DEF T, f
  <2> QED BY <1>1, <1>2, <1>3, <1>4, FS_RemoveElement, FS_PigeonHole
<1>6. QED BY <1>5

(* Induction up to a bound. *)
LEMMA BoundedInduction ==
  ASSUME NEW n \in Nat, NEW S, 0 \in S,
         \A i \in Nat : i \in S /\ i + 1 <= n => i + 1 \in S
  PROVE  \A i \in 0 .. n : i \in S
<1> DEFINE T == {i \in Nat : i <= n => i \in S}
<1>1. 0 \in T
  OBVIOUS
<1>2. \A i \in Nat : i \in T => i + 1 \in T
  <2> SUFFICES ASSUME NEW i \in Nat, i \in T, i + 1 <= n PROVE i + 1 \in S
    OBVIOUS
  <2>1. i <= n
    OBVIOUS
  <2>2. QED BY <2>1
<1> HIDE DEF T
<1>3. \A i \in Nat : i \in T
  BY <1>1, <1>2, SetInduction
<1>4. QED BY <1>3 DEF T

(* A recursive function on 0 .. n whose steps are functions on a set exists. *)
LEMMA Recursion ==
  ASSUME NEW D, NEW s \in D, NEW n \in Nat, NEW F \in [1 .. n -> [D -> D]]
  PROVE  \E g \in [0 .. n -> D] : g[0] = s /\ \A i \in 1 .. n : g[i] = F[i][g[i - 1]]
<1> DEFINE G(m) == {g \in [0 .. m -> D] : g[0] = s /\ \A i \in 1 .. m : g[i] = F[i][g[i - 1]]}
           S == {m \in Nat : G(m) # {}}
<1>1. 0 \in S
  <2>1. [i \in 0 .. 0 |-> s] \in G(0)
    OBVIOUS
  <2>2. QED BY <2>1
<1>2. ASSUME NEW m \in Nat, m \in S, m + 1 <= n PROVE m + 1 \in S
  <2>1. PICK g \in [0 .. m -> D] : g[0] = s /\ \A i \in 1 .. m : g[i] = F[i][g[i - 1]]
    BY <1>2
  <2> DEFINE h == [i \in 0 .. m + 1 |-> IF i = m + 1 THEN F[m + 1][g[m]] ELSE g[i]]
  <2>2. F[m + 1][g[m]] \in D
    <3>1. g[m] \in D /\ m + 1 \in 1 .. n
      BY <1>2, <2>1
    <3>2. F[m + 1] \in [D -> D]
      BY <3>1
    <3>3. QED BY <3>1, <3>2
  <2>3. h \in [0 .. m + 1 -> D] /\ h[0] = s
    BY <2>1, <2>2
  <2>4. \A i \in 1 .. m + 1 : h[i] = F[i][h[i - 1]]
    <3> SUFFICES ASSUME NEW i \in 1 .. m + 1 PROVE h[i] = F[i][h[i - 1]]
      OBVIOUS
    <3>1. CASE i = m + 1
      <4>1. i - 1 = m /\ h[m] = g[m] /\ h[i] = F[m + 1][g[m]]
        BY <3>1
      <4>2. QED BY <3>1, <4>1
    <3>2. CASE i # m + 1
      <4>1. i \in 1 .. m /\ h[i] = g[i] /\ h[i - 1] = g[i - 1]
        BY <3>2
      <4>2. QED BY <2>1, <4>1
    <3>3. QED BY <3>1, <3>2
  <2>5. h \in G(m + 1)
    BY <2>3, <2>4
  <2>6. QED BY <2>5
<1> HIDE DEF S
<1>3. \A m \in 0 .. n : m \in S
  BY <1>1, <1>2, BoundedInduction
<1>4. QED BY <1>3 DEF S


-----------------------------------------------------------------------------
(* Numbers *)

(* The powers up to the k-th. *)
Powers(k) == CHOOSE p : p = [i \in 0 .. k |-> IF i = 0 THEN 1 ELSE ByteModulus * p[i - 1]]

LEMMA PowersFrom ==
  ASSUME NEW k \in Nat
  PROVE  /\ Powers(k)[0] = 1
         /\ \A i \in 1 .. k : Powers(k)[i] = ByteModulus * Powers(k)[i - 1]
         /\ Power(k) = Powers(k)[k]
<1> DEFINE D == Nat
           F == [i \in 1 .. k |-> [x \in D |-> ByteModulus * x]]
           p == CHOOSE p : p = [i \in 0 .. k |-> IF i = 0 THEN 1 ELSE ByteModulus * p[i - 1]]
<1>1. \A i \in 1 .. k, x \in D : F[i][x] = ByteModulus * x /\ ByteModulus * x \in D
  BY SerializationAssumption
<1>2. 1 \in D /\ F \in [1 .. k -> [D -> D]]
  BY <1>1
<1>3. p = [i \in 0 .. k |-> IF i = 0 THEN 1 ELSE ByteModulus * p[i - 1]]
  <2>1. PICK g \in [0 .. k -> D] : g[0] = 1 /\ \A i \in 1 .. k : g[i] = F[i][g[i - 1]]
    <3> HIDE DEF D, F
    <3>1. QED BY <1>2, Recursion
  <2> HIDE DEF D, F
  <2>2. \A i \in 1 .. k : g[i] = ByteModulus * g[i - 1]
    <3>1. \A i \in 1 .. k : i - 1 \in 0 .. k
      OBVIOUS
    <3>2. QED BY <1>1, <2>1, <3>1
  <2>3. g = [i \in 0 .. k |-> IF i = 0 THEN 1 ELSE ByteModulus * g[i - 1]]
    <3>1. \A i \in 0 .. k : g[i] = IF i = 0 THEN 1 ELSE ByteModulus * g[i - 1]
      BY <2>1, <2>2
    <3>2. QED BY <2>1, <3>1
  <2>4. QED BY <2>3
<1>4. Power(k) = p[k] /\ p = Powers(k)
  BY DEF Power, Powers
<1> HIDE DEF p
<1>5. p[0] = 1 /\ \A i \in 1 .. k : p[i] = ByteModulus * p[i - 1]
  <2>1. p[0] = 1
    BY <1>3
  <2>2. ASSUME NEW i \in 1 .. k PROVE p[i] = ByteModulus * p[i - 1]
    <3>1. i \in 0 .. k /\ i # 0
      OBVIOUS
    <3>2. QED BY <1>3, <3>1
  <2>3. QED BY <2>1, <2>2
<1>6. QED BY <1>4, <1>5

LEMMA PowerNat == ASSUME NEW k \in Nat PROVE Power(k) \in Nat \ {0}
<1> DEFINE S == {i \in 0 .. k : Powers(k)[i] \in Nat \ {0}}
<1>1. 0 \in S
  BY PowersFrom
<1>2. ASSUME NEW i \in Nat, i \in S, i + 1 <= k PROVE i + 1 \in S
  <2>1. i + 1 \in 1 .. k /\ (i + 1) - 1 = i
    BY <1>2
  <2>2. Powers(k)[i + 1] = ByteModulus * Powers(k)[(i + 1) - 1]
    BY <2>1, PowersFrom
  <2>3. QED BY <1>2, <2>1, <2>2, SerializationAssumption
<1> HIDE DEF S
<1>3. \A i \in 0 .. k : i \in S
  BY <1>1, <1>2, BoundedInduction
<1>4. QED BY <1>3, PowersFrom DEF S

LEMMA PowerNext ==
  /\ Power(0) = 1
  /\ \A k \in Nat : Power(k + 1) = ByteModulus * Power(k)
<1>1. Power(0) = 1
  BY PowersFrom
<1>2. ASSUME NEW k \in Nat PROVE Power(k + 1) = ByteModulus * Power(k)
  <2> DEFINE p == Powers(k)
             q == Powers(k + 1)
             S == {i \in 0 .. k : q[i] = p[i]}
  <2>1. /\ p[0] = 1 /\ \A i \in 1 .. k : p[i] = ByteModulus * p[i - 1]
        /\ Power(k) = p[k]
    BY PowersFrom
  <2>2. /\ q[0] = 1 /\ \A i \in 1 .. k + 1 : q[i] = ByteModulus * q[i - 1]
        /\ Power(k + 1) = q[k + 1]
    <3>1. k + 1 \in Nat
      OBVIOUS
    <3>2. QED BY <3>1, PowersFrom
  <2> HIDE DEF p, q
  <2>3. 0 \in S
    BY <2>1, <2>2
  <2>4. ASSUME NEW i \in Nat, i \in S, i + 1 <= k PROVE i + 1 \in S
    <3>1. i + 1 \in 1 .. k /\ i + 1 \in 1 .. k + 1 /\ (i + 1) - 1 = i
      BY <2>4
    <3>2. p[i + 1] = ByteModulus * p[(i + 1) - 1] /\ q[i + 1] = ByteModulus * q[(i + 1) - 1]
      BY <2>1, <2>2, <3>1
    <3>3. QED BY <2>4, <3>1, <3>2
  <2> HIDE DEF S
  <2>5. \A i \in 0 .. k : i \in S
    BY <2>3, <2>4, BoundedInduction
  <2>6. q[k] = p[k]
    BY <2>5 DEF S
  <2>7. q[k + 1] = ByteModulus * q[(k + 1) - 1] /\ (k + 1) - 1 = k
    BY <2>2
  <2>8. QED BY <2>1, <2>2, <2>6, <2>7
<1>3. QED BY <1>1, <1>2

LEMMA UintNat == UintModulus \in Nat \ {0} /\ LengthSize \in Nat \ {0}
  BY PowerNat, SerializationAssumption DEF UintModulus

LEMMA Unwrapped == \A n \in Nat : n < UintModulus => n % UintModulus = n
  BY UintNat

LEMMA ByteNat == Byte \subseteq Nat /\ 0 \in Byte /\ 1 \in Byte
  BY SerializationAssumption DEF Byte

(* The partial sums of n numbers. *)
Sums(T, n, g) == g = [i \in 0 .. n |-> IF i = 0 THEN 0 ELSE g[i - 1] + T[i]]

(* A sum of natural numbers is one, and none of them is larger than the sum. *)
LEMMA Total ==
  ASSUME NEW n \in Nat, NEW T, \A i \in 1 .. n : T[i] \in Nat
  PROVE  /\ \E g : Sums(T, n, g)
         /\ \A g : Sums(T, n, g) =>
              /\ g \in [0 .. n -> Nat] /\ g[0] = 0
              /\ \A i \in 1 .. n : g[i] = g[i - 1] + T[i] /\ g[i] <= g[n] /\ T[i] <= g[n]
<1> DEFINE D == Nat
           F == [i \in 1 .. n |-> [x \in D |-> x + T[i]]]
<1>1. \A i \in 1 .. n, x \in D : F[i][x] = x + T[i] /\ x + T[i] \in D
  OBVIOUS
<1>2. \E g : g = [i \in 0 .. n |-> IF i = 0 THEN 0 ELSE g[i - 1] + T[i]]
  <2>1. 0 \in D /\ F \in [1 .. n -> [D -> D]]
    BY <1>1
  <2>2. PICK g \in [0 .. n -> D] : g[0] = 0 /\ \A i \in 1 .. n : g[i] = F[i][g[i - 1]]
    <3> HIDE DEF D, F
    <3>1. QED BY <2>1, Recursion
  <2> HIDE DEF D, F
  <2>3. \A i \in 1 .. n : g[i] = g[i - 1] + T[i]
    <3>1. \A i \in 1 .. n : i - 1 \in 0 .. n
      OBVIOUS
    <3>2. QED BY <1>1, <2>2, <3>1
  <2>4. \A i \in 0 .. n : g[i] = IF i = 0 THEN 0 ELSE g[i - 1] + T[i]
    BY <2>2, <2>3
  <2>5. g = [i \in 0 .. n |-> IF i = 0 THEN 0 ELSE g[i - 1] + T[i]]
    BY <2>2, <2>4
  <2>6. QED BY <2>5
<1>3. ASSUME NEW g, g = [i \in 0 .. n |-> IF i = 0 THEN 0 ELSE g[i - 1] + T[i]]
      PROVE  /\ g \in [0 .. n -> Nat] /\ g[0] = 0
             /\ \A i \in 1 .. n : g[i] = g[i - 1] + T[i] /\ g[i] <= g[n] /\ T[i] <= g[n]
  <2>1. g[0] = 0 /\ \A i \in 1 .. n : g[i] = g[i - 1] + T[i]
    BY <1>3
  <2>2. \A i \in 0 .. n : g[i] \in Nat
    <3> DEFINE S == {i \in 0 .. n : g[i] \in Nat}
    <3>1. 0 \in S
      BY <2>1
    <3>2. \A i \in Nat : i \in S /\ i + 1 <= n => i + 1 \in S
      BY <2>1
    <3> HIDE DEF S
    <3>3. \A i \in 0 .. n : i \in S
      BY <3>1, <3>2, BoundedInduction
    <3>4. QED BY <3>3 DEF S
  <2>3. \A i \in 0 .. n : g[n - i] <= g[n]
    <3> DEFINE S == {i \in 0 .. n : g[n - i] <= g[n]}
    <3>1. 0 \in S
      BY <2>2
    <3>2. \A i \in Nat : i \in S /\ i + 1 <= n => i + 1 \in S
      <4> SUFFICES ASSUME NEW i \in Nat, g[n - i] <= g[n], i + 1 <= n
                   PROVE  g[n - (i + 1)] <= g[n]
        OBVIOUS
      <4>1. n - i \in 1 .. n /\ (n - i) - 1 = n - (i + 1)
        OBVIOUS
      <4>2. g[n - i] = g[n - (i + 1)] + T[n - i]
        BY <2>1, <4>1
      <4>3. g[n - i] \in Nat /\ g[n - (i + 1)] \in Nat /\ T[n - i] \in Nat /\ g[n] \in Nat
        BY <2>2, <4>1
      <4>4. QED BY <4>2, <4>3
    <3> HIDE DEF S
    <3>3. \A i \in 0 .. n : i \in S
      BY <3>1, <3>2, BoundedInduction
    <3>4. QED BY <3>3 DEF S
  <2>4. ASSUME NEW i \in 1 .. n PROVE g[i] <= g[n] /\ T[i] <= g[n]
    <3>1. n - i \in 0 .. n /\ n - (n - i) = i /\ i - 1 \in 0 .. n
      OBVIOUS
    <3>2. g[i] <= g[n]
      BY <2>3, <3>1
    <3>3. g[i] \in Nat /\ g[i - 1] \in Nat /\ g[n] \in Nat /\ T[i] \in Nat
      BY <2>2, <3>1
    <3>4. QED BY <2>1, <3>2, <3>3
  <2>5. g \in [0 .. n -> Nat]
    BY <1>3, <2>2
  <2>6. QED BY <2>1, <2>4, <2>5
<1>4. QED BY <1>2, <1>3 DEF Sums

(* What that says of a function of partial sums that is at hand.             *)
Totals(T, n, g) ==
  /\ g \in [0 .. n -> Nat] /\ g[0] = 0
  /\ \A i \in 1 .. n : g[i] = g[i - 1] + T[i] /\ g[i] <= g[n] /\ T[i] <= g[n]

LEMMA SumsTotal ==
  ASSUME NEW n \in Nat, NEW T, \A i \in 1 .. n : T[i] \in Nat, NEW g, Sums(T, n, g)
  PROVE  Totals(T, n, g)
<1>1. \A h : Sums(T, n, h) => Totals(T, n, h)
  BY Total DEF Totals
<1>2. QED BY <1>1

(* The sum of equal numbers is a product. *)
LEMMA TotalEqual ==
  ASSUME NEW n \in Nat, NEW c \in Nat, NEW T, \A i \in 1 .. n : T[i] = c, NEW g, Sums(T, n, g)
  PROVE  g[n] = n * c
<1> DEFINE S == {i \in 0 .. n : g[i] = i * c}
<1>0. g[0] = 0 /\ \A i \in 1 .. n : g[i] = g[i - 1] + c
  BY DEF Sums
<1>1. 0 \in S
  BY <1>0
<1>2. ASSUME NEW i \in Nat, i \in S, i + 1 <= n PROVE i + 1 \in S
  <2>1. g[i + 1] = g[(i + 1) - 1] + c /\ (i + 1) - 1 = i
    BY <1>0, <1>2
  <2>2. i * c + c = (i + 1) * c
    OBVIOUS
  <2>3. QED BY <1>2, <2>1, <2>2
<1> HIDE DEF S
<1>3. \A i \in 0 .. n : i \in S
  BY <1>1, <1>2, BoundedInduction
<1>4. QED BY <1>3 DEF S

(* A sum in 32 bits is the sum if that fits. *)
Wrapped(T, n, start) ==
  CHOOSE w : w = [i \in 0 .. n |-> IF i = 0 THEN start ELSE (w[i - 1] + T[i]) % UintModulus]

LEMMA TotalWrapped ==
  ASSUME NEW n \in Nat, NEW T, \A i \in 1 .. n : T[i] \in Nat, NEW g, Sums(T, n, g),
         NEW start \in Nat, start + g[n] < UintModulus
  PROVE  Wrapped(T, n, start)[n] = start + g[n]
<1>1. /\ g \in [0 .. n -> Nat] /\ g[0] = 0
      /\ \A i \in 1 .. n : g[i] = g[i - 1] + T[i] /\ g[i] <= g[n]
  <2>1. Totals(T, n, g)
    BY SumsTotal
  <2>2. QED BY <2>1 DEF Totals
<1>2. ASSUME NEW i \in 1 .. n
      PROVE  (start + g[i - 1] + T[i]) % UintModulus = start + g[i]
  <2>1. i - 1 \in 0 .. n /\ i \in 0 .. n /\ n \in 0 .. n
    OBVIOUS
  <2>2. g[i - 1] \in Nat /\ g[i] \in Nat /\ g[n] \in Nat /\ T[i] \in Nat
    BY <1>1, <2>1
  <2>3. g[i] = g[i - 1] + T[i] /\ g[i] <= g[n]
    BY <1>1
  <2>4. start + g[i] < UintModulus
    BY <2>2, <2>3, UintNat
  <2>5. start + g[i - 1] + T[i] = start + g[i] /\ start + g[i] \in Nat
    BY <2>2, <2>3
  <2>6. QED BY <2>4, <2>5, Unwrapped
<1> DEFINE w == CHOOSE w : w = [i \in 0 .. n |->
                  IF i = 0 THEN start ELSE (w[i - 1] + T[i]) % UintModulus]
           sum == [i \in 0 .. n |-> start + g[i]]
<1>3. sum = [i \in 0 .. n |-> IF i = 0 THEN start ELSE (sum[i - 1] + T[i]) % UintModulus]
  <2>1. ASSUME NEW i \in 0 .. n
        PROVE  sum[i] = IF i = 0 THEN start ELSE (sum[i - 1] + T[i]) % UintModulus
    <3>1. CASE i = 0
      BY <1>1, <3>1
    <3>2. CASE i # 0
      <4>1. i \in 1 .. n /\ i - 1 \in 0 .. n
        BY <3>2
      <4>2. sum[i] = start + g[i] /\ sum[i - 1] = start + g[i - 1]
        BY <4>1
      <4>3. QED BY <1>2, <3>2, <4>1, <4>2
    <3>3. QED BY <3>1, <3>2
  <2>2. QED BY <2>1
<1>4. w = [i \in 0 .. n |-> IF i = 0 THEN start ELSE (w[i - 1] + T[i]) % UintModulus]
  BY <1>3
<1> HIDE DEF w, sum
<1> DEFINE S == {i \in 0 .. n : w[i] = start + g[i]}
<1>5. 0 \in S
  BY <1>1, <1>4
<1>6. ASSUME NEW i \in Nat, i \in S, i + 1 <= n PROVE i + 1 \in S
  <2>1. i + 1 \in 1 .. n /\ (i + 1) - 1 = i
    BY <1>6
  <2>2. w[i + 1] = (w[(i + 1) - 1] + T[i + 1]) % UintModulus
    BY <1>4, <2>1
  <2>3. w[i] = start + g[i]
    BY <1>6
  <2>4. (start + g[(i + 1) - 1] + T[i + 1]) % UintModulus = start + g[i + 1]
    BY <1>2, <2>1
  <2>5. QED BY <2>1, <2>2, <2>3, <2>4
<1> HIDE DEF S
<1>7. \A i \in 0 .. n : i \in S
  BY <1>5, <1>6, BoundedInduction
<1>8. w[n] = start + g[n]
  BY <1>7 DEF S
<1>9. QED BY <1>8 DEF w, Wrapped

(* Where the byte of a number in a sequence of numbers is.                   *)
LEMMA Quotient ==
  ASSUME NEW a \in Nat, NEW b \in Nat \ {0}, NEW n \in Nat, a < n * b
  PROVE  a \div b \in 0 .. n - 1 /\ a % b \in 0 .. b - 1
<1>1. a \div b \in Nat /\ a % b \in 0 .. b - 1 /\ a = b * (a \div b) + (a % b)
  OBVIOUS
<1>2. a \div b < n
  <2> DEFINE q == a \div b
  <2>1. q \in Nat /\ b * q <= a
    BY <1>1
  <2> HIDE DEF q
  <2>2. SUFFICES ASSUME q >= n PROVE FALSE
    BY <2>1 DEF q
  <2>3. b * q >= n * b
    BY <2>1, <2>2
  <2>4. QED BY <2>1, <2>3
<1>3. QED BY <1>1, <1>2

LEMMA Factor == ASSUME NEW a \in Nat, NEW b \in Nat \ {0} PROVE a * b \in Nat /\ a <= a * b
  OBVIOUS

(* sum are the partial sums of what n bytes are worth at their places.       *)
BytesSummed(bytes, n, sum) ==
  /\ FromBytes(bytes) = sum[n] /\ \A i \in 0 .. n : sum[i] \in Nat
  /\ sum[0] = 0 /\ \A i \in 1 .. n : sum[i] = sum[i - 1] + bytes[i] * Power(i - 1)

(* Reading bytes as a number gives a number, and writing one gives bytes.    *)
LEMMA FromBytesSums ==
  ASSUME NEW bytes \in Seq(Byte), NEW n, n = Len(bytes)
  PROVE  \E sum : BytesSummed(bytes, n, sum)
<1> DEFINE T == [i \in 1 .. n |-> bytes[i] * Power(i - 1)]
           sum == CHOOSE sum : sum = [i \in 0 .. n |->
                    IF i = 0 THEN 0 ELSE sum[i - 1] + bytes[i] * Power(i - 1)]
<1>1. n \in Nat /\ \A i \in 1 .. n : T[i] \in Nat
  <2>1. ASSUME NEW i \in 1 .. n PROVE bytes[i] * Power(i - 1) \in Nat
    <3>1. bytes[i] \in Byte /\ i - 1 \in Nat
      OBVIOUS
    <3>2. bytes[i] \in Nat /\ Power(i - 1) \in Nat
      BY <3>1, ByteNat, PowerNat
    <3>3. \A x, y \in Nat : x * y \in Nat
      OBVIOUS
    <3>4. QED BY <3>2, <3>3
  <2>2. QED BY <2>1
<1>2. \A i \in 1 .. n : T[i] = bytes[i] * Power(i - 1)
  OBVIOUS
<1>3. FromBytes(bytes) = sum[n]
  BY DEF FromBytes
<1> HIDE DEF T
<1>4. sum = [i \in 0 .. n |-> IF i = 0 THEN 0 ELSE sum[i - 1] + T[i]]
  <2>1. PICK g : g = [i \in 0 .. n |-> IF i = 0 THEN 0 ELSE g[i - 1] + T[i]]
    BY <1>1, Total DEF Sums
  <2>2. g = [i \in 0 .. n |-> IF i = 0 THEN 0 ELSE g[i - 1] + bytes[i] * Power(i - 1)]
    <3>1. \A i \in 0 .. n : g[i] = IF i = 0 THEN 0 ELSE g[i - 1] + bytes[i] * Power(i - 1)
      BY <1>1, <1>2, <2>1
    <3>2. QED BY <2>1, <3>1
  <2>3. sum = [i \in 0 .. n |-> IF i = 0 THEN 0 ELSE sum[i - 1] + bytes[i] * Power(i - 1)]
    BY <2>2
  <2> HIDE DEF sum
  <2>4. \A i \in 0 .. n : sum[i] = IF i = 0 THEN 0 ELSE sum[i - 1] + T[i]
    BY <1>1, <1>2, <2>3
  <2>5. QED BY <2>3, <2>4
<1> HIDE DEF sum
<1>5. sum \in [0 .. n -> Nat]
  <2>1. Totals(T, n, sum)
    BY <1>1, <1>4, SumsTotal DEF Sums
  <2>2. QED BY <2>1 DEF Totals
<1>6. sum[0] = 0 /\ \A i \in 1 .. n : sum[i] = sum[i - 1] + bytes[i] * Power(i - 1)
  BY <1>1, <1>2, <1>4
<1>7. BytesSummed(bytes, n, sum)
  <2>1. \A i \in 0 .. n : sum[i] \in Nat
    BY <1>5
  <2>2. QED BY <1>3, <1>6, <2>1 DEF BytesSummed
<1>8. QED BY <1>7

LEMMA FromBytesNat == ASSUME NEW bytes \in Seq(Byte) PROVE FromBytes(bytes) \in Nat
<1>1. Len(bytes) \in Nat
  OBVIOUS
<1>2. PICK sum : BytesSummed(bytes, Len(bytes), sum)
  BY FromBytesSums
<1>3. QED BY <1>1, <1>2 DEF BytesSummed

LEMMA ToBytesBytes ==
  ASSUME NEW n \in Int, NEW size \in Nat
  PROVE  ToBytes(n, size) \in Seq(Byte) /\ Len(ToBytes(n, size)) = size
<1>1. ASSUME NEW i \in 1 .. size PROVE (n \div Power(i - 1)) % ByteModulus \in Byte
  <2>1. Power(i - 1) \in Nat \ {0}
    BY PowerNat
  <2>2. n \div Power(i - 1) \in Int
    BY <2>1
  <2>3. QED BY <2>2, SerializationAssumption DEF Byte
<1>2. QED BY <1>1 DEF ToBytes

(* Division that comes out with a rest. *)
LEMMA QuotientIs ==
  ASSUME NEW q \in Nat, NEW b \in Nat \ {0}, NEW r \in 0 .. b - 1
  PROVE  (q * b + r) \div b = q /\ (q * b + r) % b = r
<1> DEFINE a == q * b + r
           p == a \div b
           t == a % b
<1>1. q * b \in Nat
  OBVIOUS
<1>2. a \in Nat
  BY <1>1
<1>3. p \in Int /\ t \in 0 .. b - 1 /\ a = b * p + t
  <2> HIDE DEF a
  <2>1. QED BY <1>2
<1>4. q * b + r = b * p + t
  BY <1>3
<1> HIDE DEF p, t, a
<1>5. q = p
  <2>1. CASE q >= p + 1
    <3>1. b * q >= b * (p + 1) /\ b * (p + 1) = b * p + b /\ b * q = q * b
      BY <1>3, <2>1
    <3>2. QED BY <1>3, <1>4, <3>1
  <2>2. CASE p >= q + 1
    <3>1. b * p >= b * (q + 1) /\ b * (q + 1) = b * q + b /\ b * q = q * b
      BY <1>3, <2>2
    <3>2. QED BY <1>3, <1>4, <3>1
  <2>3. QED BY <1>3, <2>1, <2>2
<1>6. t = r
  BY <1>1, <1>3, <1>4, <1>5
<1>7. QED BY <1>5, <1>6 DEF p, t, a

(* Dividing twice. *)
LEMMA QuotientTwice ==
  ASSUME NEW a \in Nat, NEW b \in Nat \ {0}, NEW c \in Nat \ {0}
  PROVE  /\ a \div b \in Nat
         /\ a \div b = c * (a \div (c * b)) + ((a \div b) % c)
<1> DEFINE q == a \div b
           r == a % b
           p == q \div c
           t == q % c
<1>1. q \in Int /\ r \in 0 .. b - 1 /\ a = b * q + r
  OBVIOUS
<1>2. q \in Nat
  <2> HIDE DEF q, r
  <2>1. SUFFICES ASSUME q <= -1 PROVE FALSE
    BY <1>1
  <2>2. b * q <= b * (-1)
    BY <1>1, <2>1
  <2>3. QED BY <1>1, <2>2
<1>3. p \in Int /\ t \in 0 .. c - 1 /\ q = c * p + t
  <2> HIDE DEF q
  <2>1. QED BY <1>2
<1>4. p \in Nat
  <2> HIDE DEF p, q, t
  <2>1. SUFFICES ASSUME p <= -1 PROVE FALSE
    BY <1>3
  <2>2. c * p <= c * (-1)
    BY <1>3, <2>1
  <2>3. QED BY <1>2, <1>3, <2>2
<1> HIDE DEF q, r, p, t
<1> DEFINE d == c * b
           u == b * t + r
<1>5. d \in Nat \ {0}
  OBVIOUS
<1>6. u \in 0 .. d - 1
  <2>1. b * t \in Nat /\ b * t <= b * (c - 1) /\ b * (c - 1) = d - b
    BY <1>3
  <2>2. QED BY <1>1, <2>1
<1>7. a = p * d + u
  <2>1. b * q = b * (c * p + t) /\ b * (c * p + t) = p * (c * b) + b * t
    BY <1>3, <1>4
  <2> DEFINE x == p * (c * b)
             y == b * t
  <2>2. x \in Int /\ y \in Int /\ a = (x + y) + r
    BY <1>1, <1>3, <1>4, <2>1
  <2>3. a = p * d + u <=> a = x + (y + r)
    OBVIOUS
  <2> HIDE DEF x, y, d, u
  <2>4. a = x + (y + r)
    BY <1>1, <2>2
  <2>5. QED BY <2>3, <2>4
<1> HIDE DEF d, u
<1>8. a \div d = p
  BY <1>4, <1>5, <1>6, <1>7, QuotientIs
<1>9. QED BY <1>2, <1>3, <1>8 DEF d, q, t, p

(* A number of size bytes is what its bytes are read as. *)
LEMMA NumberBack ==
  ASSUME NEW size \in Nat, NEW v \in 0 .. Power(size) - 1
  PROVE  FromBytes(ToBytes(v, size)) = v
<1> DEFINE bytes == ToBytes(v, size)
<1>0. v \in Nat /\ v < Power(size)
  BY PowerNat
<1>1. bytes \in Seq(Byte) /\ Len(bytes) = size
  BY <1>0, ToBytesBytes
<1>2. \A i \in 1 .. size : bytes[i] = (v \div Power(i - 1)) % ByteModulus
  BY DEF ToBytes
<1> HIDE DEF bytes
<1>3. PICK sum :
        /\ FromBytes(bytes) = sum[size] /\ \A i \in 0 .. size : sum[i] \in Nat
        /\ sum[0] = 0 /\ \A i \in 1 .. size : sum[i] = sum[i - 1] + bytes[i] * Power(i - 1)
  <2>1. PICK sum : BytesSummed(bytes, size, sum)
    BY <1>1, FromBytesSums
  <2>2. QED BY <2>1 DEF BytesSummed
<1> DEFINE S == {i \in 0 .. size : sum[i] + Power(i) * (v \div Power(i)) = v}
<1>4. 0 \in S
  <2>1. v \div 1 = v
    BY <1>0
  <2>2. sum[0] + Power(0) * (v \div Power(0)) = v
    BY <1>0, <1>3, <2>1, PowerNext
  <2>3. QED BY <2>2
<1>5. ASSUME NEW i \in Nat, i \in S, i + 1 <= size PROVE i + 1 \in S
  <2> DEFINE P == Power(i)
             q == v \div P
             Q == v \div (ByteModulus * P)
             d == q % ByteModulus
  <2>1. P \in Nat \ {0} /\ ByteModulus \in Nat \ {0} /\ Power(i + 1) = ByteModulus * P
    BY PowerNat, PowerNext, SerializationAssumption
  <2>2. q \in Nat /\ q = ByteModulus * Q + d
    <3> HIDE DEF P
    <3>1. QED BY <1>0, <2>1, QuotientTwice
  <2>3. Q \in Int /\ d \in Int
    <3>1. ByteModulus * P \in Nat \ {0}
      <4> HIDE DEF P
      <4>1. QED BY <2>1
    <3>2. \A a \in Nat, b \in Nat \ {0} : a \div b \in Int /\ a % b \in Int
      OBVIOUS
    <3>3. QED BY <1>0, <2>1, <2>2, <3>1, <3>2
  <2>4. i + 1 \in 1 .. size /\ (i + 1) - 1 = i /\ i \in 0 .. size
    BY <1>5
  <2>5. sum[i + 1] = sum[i] + d * P
    <3>1. sum[i + 1] = sum[(i + 1) - 1] + bytes[i + 1] * Power((i + 1) - 1)
      BY <1>3, <2>4
    <3>2. bytes[i + 1] = (v \div Power((i + 1) - 1)) % ByteModulus
      BY <1>2, <2>4
    <3>3. QED BY <2>4, <3>1, <3>2
  <2>6. sum[i] + P * q = v /\ sum[i] \in Nat
    BY <1>3, <1>5, <2>4
  <2> HIDE DEF P, q, Q, d
  <2>7. P * q = ByteModulus * P * Q + d * P
    BY <2>1, <2>2, <2>3
  <2>8. ByteModulus * P * Q \in Int /\ d * P \in Int
    BY <2>1, <2>3
  <2>9. sum[i + 1] + ByteModulus * P * Q = v
    BY <1>0, <2>5, <2>6, <2>7, <2>8
  <2>10. Power(i + 1) * (v \div Power(i + 1)) = ByteModulus * P * Q
    BY <2>1 DEF Q
  <2>11. QED BY <2>4, <2>9, <2>10
<1> HIDE DEF S
<1>6. \A i \in 0 .. size : i \in S
  BY <1>4, <1>5, BoundedInduction
<1>7. sum[size] + Power(size) * (v \div Power(size)) = v
  BY <1>6 DEF S
<1>8. v \div Power(size) = 0
  <2>1. \A a \in Nat, b \in Nat \ {0} : a < b => a \div b = 0
    OBVIOUS
  <2>2. QED BY <1>0, <2>1, PowerNat
<1>9. sum[size] = v
  <2>1. sum[size] \in Nat /\ Power(size) \in Nat
    BY <1>3, PowerNat
  <2>2. QED BY <1>7, <1>8, <2>1
<1>10. QED BY <1>3, <1>9 DEF bytes

-----------------------------------------------------------------------------
(* Streams: whatever they have read so far.                                  *)

Streams(V) ==
  [memory : [Address -> Byte], at : Nat, end : Nat,
   exception : {"none", "StreamOverrun", "bad_alloc"},
   touched : SUBSET Nat, got : Seq(V), full : BOOLEAN]

IsStream(s) == \E V : s \in Streams(V)

InBounds(s) == s.touched \subseteq 0 .. s.end - 1

(* What every call keeps. *)
Keeps(s, r) ==
  IsStream(s) =>
    /\ IsStream(r)
    /\ r.end = s.end
    /\ r.full = s.full

(* What every call that reads keeps. *)
Reads(s, r) ==
  /\ Keeps(s, r)
  /\ InBounds(s) => InBounds(r)

LEMMA WiderSeq == ASSUME NEW V, NEW W, V \subseteq W, NEW q \in Seq(V) PROVE q \in Seq(W)
  OBVIOUS

LEMMA AppendSeq ==
  ASSUME NEW V, NEW q \in Seq(V), NEW x
  PROVE  /\ Append(q, x) \in Seq(V \cup {x})
         /\ Len(Append(q, x)) = Len(q) + 1 /\ Append(q, x)[Len(q) + 1] = x
<1>1. q \in Seq(V \cup {x}) /\ x \in V \cup {x}
  BY WiderSeq
<1>2. QED BY <1>1

LEMMA SetGot ==
  ASSUME NEW s, IsStream(s), NEW q, NEW V, q \in Seq(V)
  PROVE  /\ IsStream([s EXCEPT !.got = q])
         /\ [s EXCEPT !.got = q].got = q
         /\ [s EXCEPT !.got = q].at = s.at
         /\ Reads(s, [s EXCEPT !.got = q])
         /\ Thrown([s EXCEPT !.got = q]) <=> Thrown(s)
<1>1. PICK W : s \in Streams(W)
  BY DEF IsStream
<1>2. [s EXCEPT !.got = q] \in Streams(V)
  BY <1>1 DEF Streams
<1>3. QED BY <1>1, <1>2 DEF Streams, IsStream, Reads, Keeps, InBounds, Thrown

LEMMA NewStream ==
  ASSUME NEW memory \in [Address -> Byte], NEW count \in Nat, NEW full \in BOOLEAN
  PROVE  /\ IsStream(Stream(memory, count, full))
         /\ Stream(memory, count, full) =
              [memory |-> memory, at |-> 0, end |-> count, exception |-> "none",
               touched |-> {}, got |-> <<>>, full |-> full]
<1>1. Stream(memory, count, full) =
              [memory |-> memory, at |-> 0, end |-> count, exception |-> "none",
               touched |-> {}, got |-> <<>>, full |-> full]
  <2> DEFINE r == Stream(memory, count, full)
           R == [memory : {<<>>, memory}, at : {0}, end : {0, count}, exception : {"none"},
                 touched : {{}}, got : {<<>>}, full : {FALSE, full}]
  <2>0. NoStream \in R
    BY DEF NoStream
  <2>1. r \in R
    BY <2>0 DEF Stream
  <2>2. /\ r.memory = memory /\ r.at = 0 /\ r.end = count /\ r.exception = "none"
        /\ r.touched = {} /\ r.got = <<>> /\ r.full = full
    BY DEF Stream, NoStream
  <2>3. QED
    <3> HIDE DEF r
    <3>1. r = [memory |-> memory, at |-> 0, end |-> count, exception |-> "none",
               touched |-> {}, got |-> <<>>, full |-> full]
      BY <2>1, <2>2
    <3>2. QED BY <3>1 DEF r
<1>2. <<>> \in Seq({})
  OBVIOUS
<1>3. Stream(memory, count, full) \in Streams({})
  BY <1>1, <1>2 DEF Streams
<1>4. QED BY <1>1, <1>3 DEF IsStream

(* A stream that is moved by len bytes throws if and only if they are not    *)
(* all there, and has thrown for ever.                                       *)
LEMMA Advanced ==
  ASSUME NEW s, IsStream(s), NEW len \in Nat
  PROVE  /\ Reads(s, advance(s, len)) /\ IsStream(advance(s, len))
         /\ advance(s, len).got = s.got /\ advance(s, len).memory = s.memory
         /\ advance(s, len).touched = s.touched
         /\ Thrown(advance(s, len)) <=> Thrown(s) \/ s.at + len > s.end
         /\ Thrown(s) => advance(s, len) = s
         /\ ~Thrown(s) => advance(s, len).at = s.at + len
<1>1. PICK V : s \in Streams(V)
  BY DEF IsStream
<1>2. advance(s, len) \in Streams(V)
  <2>1. CASE Thrown(s)
    BY <1>1, <2>1 DEF advance
  <2>2. CASE ~Thrown(s)
    <3> DEFINE e == IF s.at + len > s.end THEN "StreamOverrun" ELSE s.exception
    <3>1. advance(s, len) = [s EXCEPT !.at = s.at + len, !.exception = e]
      BY <1>1, <2>2 DEF Streams, advance
    <3>2. s.at + len \in Nat /\ e \in {"none", "StreamOverrun", "bad_alloc"}
      BY <1>1 DEF Streams
    <3> HIDE DEF e
    <3>3. QED BY <1>1, <3>1, <3>2 DEF Streams
  <2>3. QED BY <2>1, <2>2
<1>3. QED BY <1>1, <1>2 DEF Streams, IsStream, Reads, Keeps, InBounds, Thrown, advance

(* What take read is as long as it should be, and the stream has moved by    *)
(* that much.                                                                *)
LEMMA Took ==
  ASSUME NEW s, IsStream(s), NEW len \in Nat
  PROVE  /\ Reads(s, take(s, len)) /\ IsStream(take(s, len))
         /\ Thrown(take(s, len)) <=> Thrown(s) \/ s.at + len > s.end
         /\ ~Thrown(take(s, len)) =>
              /\ take(s, len).got # <<>>
              /\ LastRead(take(s, len)) \in Seq(Byte)
<1> DEFINE next == advance(s, len)
           bytes == [i \in 1 .. len |-> IF s.at + i - 1 \in DOMAIN s.memory
                                        THEN s.memory[s.at + i - 1] ELSE 0]
           span == s.at .. s.at + len - 1
<1>1. PICK V : s \in Streams(V)
  BY DEF IsStream
<1>2. /\ Reads(s, next) /\ next.got = s.got /\ next.touched = s.touched
      /\ Thrown(next) <=> Thrown(s) \/ s.at + len > s.end
      /\ IsStream(next) /\ next.end = s.end
  BY Advanced DEF Reads, Keeps
<1>3. CASE Thrown(next)
  BY <1>2, <1>3 DEF take
<1>4. CASE ~Thrown(next)
  <2>1. bytes \in Seq(Byte)
    <3>1. \A i \in 1 .. len : bytes[i] \in Byte
      BY <1>1, ByteNat DEF Streams
    <3>2. QED BY <3>1
  <2> DEFINE q == Append(next.got, bytes)
             W == V \cup {bytes}
  <2>2. q \in Seq(W) /\ Len(q) = Len(next.got) + 1 /\ q[Len(next.got) + 1] = bytes
    BY <1>1, <1>2, AppendSeq DEF Streams
  <2>3. Len(q) \in Nat \ {0} /\ q[Len(q)] = bytes
    BY <1>1, <1>2, <2>2 DEF Streams
  <2>4. PICK U : next \in Streams(U)
    BY <1>2 DEF IsStream
  <2>5. take(s, len) = [next EXCEPT !.touched = next.touched \cup span, !.got = q]
    BY <1>4 DEF take
  <2> HIDE DEF next, bytes, q, W
  <2>6. span \subseteq Nat
    BY <1>1 DEF Streams
  <2>7. take(s, len) \in Streams(W)
    BY <2>2, <2>4, <2>5, <2>6 DEF Streams
  <2>8. /\ take(s, len).end = s.end /\ take(s, len).full = next.full
        /\ take(s, len).touched = s.touched \cup span /\ take(s, len).got = q
        /\ ~Thrown(take(s, len))
    BY <1>2, <1>4, <2>4, <2>5 DEF Streams, Thrown
  <2>9. InBounds(s) => InBounds(take(s, len))
    <3>1. s.at \in Nat /\ s.end \in Nat /\ s.at + len <= s.end
      BY <1>1, <1>2, <1>4 DEF Streams
    <3>2. span \subseteq 0 .. s.end - 1
      BY <3>1
    <3>3. QED BY <2>8, <3>2 DEF InBounds
  <2>10. next.full = s.full
    BY <1>2 DEF Reads, Keeps
  <2>11. take(s, len).got # <<>> /\ LastRead(take(s, len)) = bytes
    BY <2>3, <2>8 DEF LastRead
  <2>12. IsStream(take(s, len))
    BY <2>7 DEF IsStream
  <2>13. QED BY <1>2, <1>4, <2>1, <2>8, <2>9, <2>10, <2>11, <2>12 DEF Reads, Keeps
<1>5. QED BY <1>3, <1>4

LEMMA Converted ==
  ASSUME NEW s, IsStream(s), NEW v
  PROVE  /\ Reads(s, Convert(s, v)) /\ IsStream(Convert(s, v))
         /\ Thrown(Convert(s, v)) <=> Thrown(s)
         /\ ~Thrown(s) /\ s.got # <<>> => LastRead(Convert(s, v)) = v
<1>1. CASE Thrown(s)
  BY <1>1 DEF Convert, Reads, Keeps
<1>2. CASE ~Thrown(s)
  <2> DEFINE q == [s.got EXCEPT ![Len(s.got)] = v]
  <2>1. PICK V : s \in Streams(V)
    BY DEF IsStream
  <2>2. s.got \in Seq(V \cup {v})
    BY <2>1, WiderSeq DEF Streams
  <2>3. q \in Seq(V \cup {v}) /\ Len(q) = Len(s.got)
    <3> DEFINE W == V \cup {v}
               n == Len(s.got)
    <3>1. n \in Nat /\ s.got \in [1 .. n -> W] /\ v \in W
      BY <2>2
    <3>2. q \in [1 .. n -> W]
      <4> HIDE DEF n, W
      <4>1. [s.got EXCEPT ![n] = v] \in [1 .. n -> W]
        BY <3>1
      <4>2. QED BY <4>1 DEF n
    <3> HIDE DEF n, W, q
    <3>3. q \in Seq(W) /\ Len(q) = n
      BY <3>1, <3>2
    <3>4. QED BY <3>3 DEF n, W
  <2>4. s.got # <<>> => q[Len(q)] = v
    BY <2>2, <2>3
  <2>5. Convert(s, v) = [s EXCEPT !.got = q]
    BY <1>2, <2>1 DEF Convert, Streams
  <2> HIDE DEF q
  <2>6. QED BY <2>3, <2>4, <2>5, SetGot DEF LastRead, Reads, Keeps
<1>3. QED BY <1>1, <1>2

LEMMA Forgotten ==
  ASSUME NEW s, IsStream(s)
  PROVE  /\ Reads(s, Forget(s)) /\ IsStream(Forget(s))
         /\ Thrown(Forget(s)) <=> Thrown(s)
<1> DEFINE q == SubSeq(s.got, 1, Len(s.got) - 1)
<1>1. PICK V : s \in Streams(V)
  BY DEF IsStream
<1>2. q \in Seq(V)
  <2>1. s.got \in Seq(V) /\ Len(s.got) \in Nat
    BY <1>1 DEF Streams
  <2>2. \A i \in 1 .. Len(s.got) - 1 : s.got[i] \in V
    BY <2>1
  <2>3. QED BY <2>1, <2>2
<1>3. Forget(s) = [s EXCEPT !.got = q]
  BY DEF Forget
<1> HIDE DEF q
<1>4. QED BY <1>2, <1>3, SetGot DEF Reads, Keeps

LEMMA Reserved ==
  ASSUME NEW s, IsStream(s), NEW n
  PROVE  /\ Reads(s, reserve(s, n)) /\ IsStream(reserve(s, n))
         /\ Thrown(s) => Thrown(reserve(s, n))
<1>1. PICK V : s \in Streams(V)
  BY DEF IsStream
<1>2. reserve(s, n) \in Streams(V)
  BY <1>1 DEF Streams, reserve
<1>3. QED BY <1>1, <1>2 DEF Streams, IsStream, Reads, Keeps, InBounds, Thrown, reserve

-----------------------------------------------------------------------------
(* Loops.  All calls that the loops of Serialization make, with the index of *)
(* the iteration and the type and value that the loop is about.              *)
Called(loop, w, i, type, v) ==
  CASE loop = "fixedWrite"  -> simpleWrite(w, 1, v[i])
    [] loop = "fixedRead"   -> simpleRead(w, 1)
    [] loop = "writeAll"    -> writeElement(w, type, v[i])
    [] loop = "readAll"     -> readElement(w, type)
    [] loop = "serialize"   -> writeMember(w, type[i], v[i])
    [] loop = "deserialize" -> readMember(w, type[i])

(* One iteration, which does nothing after an exception. *)
Iteration(loop, w, i, type, v) == IF Thrown(w) THEN w ELSE Called(loop, w, i, type, v)

(* The iterations of a loop follow each other. *)
Iterates(loop, s, type, v, n, after) ==
  after = [i \in 0 .. n |-> IF i = 0 THEN s ELSE Iteration(loop, after[i - 1], i, type, v)]

LEMMA Iterations ==
  ASSUME NEW loop, NEW s, NEW type, NEW v, NEW n \in Nat
  PROVE  \E after : Iterates(loop, s, type, v, n, after)
<1> DEFINE next(w, i) == Iteration(loop, w, i, type, v)
           trace(m, g) == g = [i \in 0 .. m |-> IF i = 0 THEN s ELSE next(g[i - 1], i)]
           S == {m \in Nat : \E g : trace(m, g)}
<1> HIDE DEF next
<1>1. 0 \in S
  <2>1. trace(0, [i \in 0 .. 0 |-> s])
    OBVIOUS
  <2>2. QED BY <2>1
<1>2. ASSUME NEW m \in Nat, m \in S PROVE m + 1 \in S
  <2>1. PICK g : trace(m, g)
    BY <1>2
  <2> DEFINE h == [i \in 0 .. m + 1 |-> IF i = m + 1 THEN next(g[m], i) ELSE g[i]]
  <2>2. ASSUME NEW i \in 0 .. m + 1 PROVE h[i] = IF i = 0 THEN s ELSE next(h[i - 1], i)
    <3>1. i # 0 => h[i - 1] = g[i - 1]
      OBVIOUS
    <3>2. i # m + 1 => h[i] = g[i] /\ g[i] = IF i = 0 THEN s ELSE next(g[i - 1], i)
      BY <2>1
    <3>3. h[m + 1] = next(g[m], m + 1) /\ (m + 1) - 1 = m /\ m + 1 # 0
      OBVIOUS
    <3> HIDE DEF h
    <3>4. CASE i = m + 1
      BY <3>1, <3>3, <3>4
    <3>5. CASE i # m + 1
      BY <3>1, <3>2, <3>5
    <3>6. QED BY <3>4, <3>5
  <2>3. trace(m + 1, h)
    BY <2>2
  <2> HIDE DEF h
  <2>4. QED BY <2>3
<1> HIDE DEF S
<1>3. \A m \in 0 .. n : m \in S
  BY <1>1, <1>2, BoundedInduction
<1>4. \E g : trace(n, g)
  BY <1>3 DEF S
<1>5. QED BY <1>4 DEF next, Iterates

LEMMA FixedReadLoop ==
  ASSUME NEW s, NEW size \in Nat
  PROVE  \E after : /\ Iterates("fixedRead", [s EXCEPT !.got = <<>>], 0, 0, size, after)
                    /\ fixedRead(s, size) = [after[size] EXCEPT !.got = Append(s.got, after[size].got)]
<1> DEFINE n == size
           start == [s EXCEPT !.got = <<>>]
           after == CHOOSE after : after = [i \in 0 .. n |->
                      IF i = 0 THEN start ELSE IF Thrown(after[i - 1]) THEN after[i - 1]
                                               ELSE simpleRead(after[i - 1], 1)]
<1>1. fixedRead(s, size) = [after[n] EXCEPT !.got = Append(s.got, after[n].got)]
  BY DEF fixedRead, Loop
<1>2. \A w, i : Iteration("fixedRead", w, i, 0, 0) = IF Thrown(w) THEN w ELSE simpleRead(w, 1)
  BY DEF Iteration, Called
<1>3. n \in Nat
  OBVIOUS
<1> HIDE DEF n, start
<1>4. Iterates("fixedRead", start, 0, 0, n, after)
  <2>1. PICK g : Iterates("fixedRead", start, 0, 0, n, g)
    BY <1>3, Iterations
  <2>2. g = [i \in 0 .. n |-> IF i = 0 THEN start ELSE IF Thrown(g[i - 1]) THEN g[i - 1]
                              ELSE simpleRead(g[i - 1], 1)]
    BY <1>2, <2>1 DEF Iterates
  <2>3. after = [i \in 0 .. n |-> IF i = 0 THEN start ELSE IF Thrown(after[i - 1]) THEN after[i - 1]
                                  ELSE simpleRead(after[i - 1], 1)]
    BY <2>2
  <2> HIDE DEF after
  <2>4. QED BY <1>2, <2>3 DEF Iterates
<1> HIDE DEF after
<1>5. QED BY <1>1, <1>4 DEF n, start

LEMMA ReadAllLoop ==
  ASSUME NEW s, NEW type, NEW m \in Nat
  PROVE  \E after : /\ Iterates("readAll", [s EXCEPT !.got = <<>>], type, 0, m, after)
                    /\ readAll(s, type, m) = [after[m] EXCEPT !.got = Append(s.got, after[m].got)]
<1> DEFINE n == m
           start == [s EXCEPT !.got = <<>>]
           after == CHOOSE after : after = [i \in 0 .. n |->
                      IF i = 0 THEN start ELSE IF Thrown(after[i - 1]) THEN after[i - 1]
                                               ELSE readElement(after[i - 1], type)]
<1>1. readAll(s, type, m) = [after[n] EXCEPT !.got = Append(s.got, after[n].got)]
  BY DEF readAll, Loop
<1>2. \A w, i : Iteration("readAll", w, i, type, 0) = IF Thrown(w) THEN w ELSE readElement(w, type)
  BY DEF Iteration, Called
<1>3. n \in Nat
  OBVIOUS
<1> HIDE DEF n, start
<1>4. Iterates("readAll", start, type, 0, n, after)
  <2>1. PICK g : Iterates("readAll", start, type, 0, n, g)
    BY <1>3, Iterations
  <2>2. g = [i \in 0 .. n |-> IF i = 0 THEN start ELSE IF Thrown(g[i - 1]) THEN g[i - 1]
                              ELSE readElement(g[i - 1], type)]
    BY <1>2, <2>1 DEF Iterates
  <2>3. after = [i \in 0 .. n |-> IF i = 0 THEN start ELSE IF Thrown(after[i - 1]) THEN after[i - 1]
                                  ELSE readElement(after[i - 1], type)]
    BY <2>2
  <2> HIDE DEF after
  <2>4. QED BY <1>2, <2>3 DEF Iterates
<1> HIDE DEF after
<1>5. QED BY <1>1, <1>4 DEF n, start

LEMMA DeserializeLoop ==
  ASSUME NEW s, NEW type, Len(type) \in Nat
  PROVE  \E after : /\ Iterates("deserialize", s, type, 0, Len(type), after)
                    /\ deserialize(s, type) = after[Len(type)]
<1> DEFINE n == Len(type)
           start == s
           after == CHOOSE after : after = [i \in 0 .. n |->
                      IF i = 0 THEN start ELSE IF Thrown(after[i - 1]) THEN after[i - 1]
                                               ELSE readMember(after[i - 1], type[i])]
<1>1. deserialize(s, type) = after[n]
  BY DEF deserialize, Loop
<1>2. \A w, i : Iteration("deserialize", w, i, type, 0) = IF Thrown(w) THEN w ELSE readMember(w, type[i])
  BY DEF Iteration, Called
<1>3. n \in Nat
  OBVIOUS
<1> HIDE DEF n, start
<1>4. Iterates("deserialize", start, type, 0, n, after)
  <2>1. PICK g : Iterates("deserialize", start, type, 0, n, g)
    BY <1>3, Iterations
  <2>2. g = [i \in 0 .. n |-> IF i = 0 THEN start ELSE IF Thrown(g[i - 1]) THEN g[i - 1]
                              ELSE readMember(g[i - 1], type[i])]
    BY <1>2, <2>1 DEF Iterates
  <2>3. after = [i \in 0 .. n |-> IF i = 0 THEN start ELSE IF Thrown(after[i - 1]) THEN after[i - 1]
                                  ELSE readMember(after[i - 1], type[i])]
    BY <2>2
  <2> HIDE DEF after
  <2>4. QED BY <1>2, <2>3 DEF Iterates
<1> HIDE DEF after
<1>5. QED BY <1>1, <1>4 DEF n, start

LEMMA FixedWriteLoop ==
  ASSUME NEW s, NEW v, NEW size \in Nat
  PROVE  \E after : /\ Iterates("fixedWrite", s, 0, v, size, after)
                    /\ fixedWrite(s, size, v) = after[size]
<1> DEFINE n == size
           start == s
           after == CHOOSE after : after = [i \in 0 .. n |->
                      IF i = 0 THEN start ELSE IF Thrown(after[i - 1]) THEN after[i - 1]
                                               ELSE simpleWrite(after[i - 1], 1, v[i])]
<1>1. fixedWrite(s, size, v) = after[n]
  BY DEF fixedWrite, Loop
<1>2. \A w, i : Iteration("fixedWrite", w, i, 0, v) = IF Thrown(w) THEN w ELSE simpleWrite(w, 1, v[i])
  BY DEF Iteration, Called
<1>3. n \in Nat
  OBVIOUS
<1> HIDE DEF n, start
<1>4. Iterates("fixedWrite", start, 0, v, n, after)
  <2>1. PICK g : Iterates("fixedWrite", start, 0, v, n, g)
    BY <1>3, Iterations
  <2>2. g = [i \in 0 .. n |-> IF i = 0 THEN start ELSE IF Thrown(g[i - 1]) THEN g[i - 1]
                              ELSE simpleWrite(g[i - 1], 1, v[i])]
    BY <1>2, <2>1 DEF Iterates
  <2>3. after = [i \in 0 .. n |-> IF i = 0 THEN start ELSE IF Thrown(after[i - 1]) THEN after[i - 1]
                                  ELSE simpleWrite(after[i - 1], 1, v[i])]
    BY <2>2
  <2> HIDE DEF after
  <2>4. QED BY <1>2, <2>3 DEF Iterates
<1> HIDE DEF after
<1>5. QED BY <1>1, <1>4 DEF n, start

LEMMA WriteAllLoop ==
  ASSUME NEW s, NEW type, NEW v, Len(v) \in Nat
  PROVE  \E after : /\ Iterates("writeAll", s, type, v, Len(v), after)
                    /\ writeAll(s, type, v) = after[Len(v)]
<1> DEFINE n == Len(v)
           start == s
           after == CHOOSE after : after = [i \in 0 .. n |->
                      IF i = 0 THEN start ELSE IF Thrown(after[i - 1]) THEN after[i - 1]
                                               ELSE writeElement(after[i - 1], type, v[i])]
<1>1. writeAll(s, type, v) = after[n]
  BY DEF writeAll, Loop
<1>2. \A w, i : Iteration("writeAll", w, i, type, v) = IF Thrown(w) THEN w ELSE writeElement(w, type, v[i])
  BY DEF Iteration, Called
<1>3. n \in Nat
  OBVIOUS
<1> HIDE DEF n, start
<1>4. Iterates("writeAll", start, type, v, n, after)
  <2>1. PICK g : Iterates("writeAll", start, type, v, n, g)
    BY <1>3, Iterations
  <2>2. g = [i \in 0 .. n |-> IF i = 0 THEN start ELSE IF Thrown(g[i - 1]) THEN g[i - 1]
                              ELSE writeElement(g[i - 1], type, v[i])]
    BY <1>2, <2>1 DEF Iterates
  <2>3. after = [i \in 0 .. n |-> IF i = 0 THEN start ELSE IF Thrown(after[i - 1]) THEN after[i - 1]
                                  ELSE writeElement(after[i - 1], type, v[i])]
    BY <2>2
  <2> HIDE DEF after
  <2>4. QED BY <1>2, <2>3 DEF Iterates
<1> HIDE DEF after
<1>5. QED BY <1>1, <1>4 DEF n, start

LEMMA SerializeLoop ==
  ASSUME NEW s, NEW type, NEW v, Len(type) \in Nat
  PROVE  \E after : /\ Iterates("serialize", s, type, v, Len(type), after)
                    /\ serialize(s, type, v) = after[Len(type)]
<1> DEFINE n == Len(type)
           start == s
           after == CHOOSE after : after = [i \in 0 .. n |->
                      IF i = 0 THEN start ELSE IF Thrown(after[i - 1]) THEN after[i - 1]
                                               ELSE writeMember(after[i - 1], type[i], v[i])]
<1>1. serialize(s, type, v) = after[n]
  BY DEF serialize, Loop
<1>2. \A w, i : Iteration("serialize", w, i, type, v) = IF Thrown(w) THEN w ELSE writeMember(w, type[i], v[i])
  BY DEF Iteration, Called
<1>3. n \in Nat
  OBVIOUS
<1> HIDE DEF n, start
<1>4. Iterates("serialize", start, type, v, n, after)
  <2>1. PICK g : Iterates("serialize", start, type, v, n, g)
    BY <1>3, Iterations
  <2>2. g = [i \in 0 .. n |-> IF i = 0 THEN start ELSE IF Thrown(g[i - 1]) THEN g[i - 1]
                              ELSE writeMember(g[i - 1], type[i], v[i])]
    BY <1>2, <2>1 DEF Iterates
  <2>3. after = [i \in 0 .. n |-> IF i = 0 THEN start ELSE IF Thrown(after[i - 1]) THEN after[i - 1]
                                  ELSE writeMember(after[i - 1], type[i], v[i])]
    BY <2>2
  <2> HIDE DEF after
  <2>4. QED BY <1>2, <2>3 DEF Iterates
<1> HIDE DEF after
<1>5. QED BY <1>1, <1>4 DEF n, start

-----------------------------------------------------------------------------
(* Reading                                                                   *)

LEMMA ReadsOn == ASSUME NEW s, NEW r, NEW t, IsStream(s), Reads(s, r), Reads(r, t) PROVE Reads(s, t)
  BY DEF Reads, Keeps

(* A loop reads if its calls do. *)
LEMMA LoopReads ==
  ASSUME NEW loop, NEW s, NEW type, NEW v, NEW n \in Nat, NEW after,
         Iterates(loop, s, type, v, n, after), IsStream(s),
         \A w : \A i \in 1 .. n : IsStream(w) => Reads(w, Called(loop, w, i, type, v))
  PROVE  Reads(s, after[n]) /\ IsStream(after[n])
<1> DEFINE S == {i \in 0 .. n : Reads(s, after[i]) /\ IsStream(after[i])}
<1>0. after[0] = s /\ \A i \in 1 .. n : after[i] = Iteration(loop, after[i - 1], i, type, v)
  BY DEF Iterates
<1>1. 0 \in S
  BY <1>0 DEF Reads, Keeps
<1>2. ASSUME NEW i \in Nat, i \in S, i + 1 <= n PROVE i + 1 \in S
  <2>1. i + 1 \in 1 .. n /\ (i + 1) - 1 = i
    BY <1>2
  <2>2. after[i + 1] = Iteration(loop, after[i], i + 1, type, v)
    <3>1. after[i + 1] = Iteration(loop, after[(i + 1) - 1], i + 1, type, v)
      BY <1>0, <2>1
    <3>2. QED BY <2>1, <3>1
  <2>3. Reads(after[i], after[i + 1])
    <3>1. Reads(after[i], Called(loop, after[i], i + 1, type, v))
      BY <1>2, <2>1
    <3>2. QED BY <1>2, <2>2, <3>1 DEF Iteration, Reads, Keeps
  <2>4. Reads(s, after[i + 1])
    BY <1>2, <2>3, ReadsOn
  <2>5. QED BY <1>2, <2>1, <2>3, <2>4 DEF Reads, Keeps
<1> HIDE DEF S
<1>3. \A i \in 0 .. n : i \in S
  BY <1>1, <1>2, BoundedInduction
<1>4. QED BY <1>3 DEF S

(* What is read into a value of its own is added to the values of the stream. *)
LEMMA Collected ==
  ASSUME NEW s, IsStream(s), NEW r, Reads([s EXCEPT !.got = <<>>], r)
  PROVE  Reads(s, [r EXCEPT !.got = Append(s.got, r.got)])
<1> DEFINE t == [s EXCEPT !.got = <<>>]
           q == Append(s.got, r.got)
<1>1. IsStream(t) /\ Reads(s, t)
  <2>1. <<>> \in Seq({})
    OBVIOUS
  <2>2. QED BY <2>1, SetGot
<1>2. IsStream(r) /\ Reads(s, r)
  <2> HIDE DEF t
  <2>1. Reads(t, r)
    BY DEF t
  <2>2. QED BY <1>1, <2>1, ReadsOn DEF Reads, Keeps
<1>3. PICK V : s.got \in Seq(V)
  BY DEF IsStream, Streams
<1>4. q \in Seq(V \cup {r.got})
  BY <1>3, AppendSeq
<1> HIDE DEF q, t
<1>5. Reads(r, [r EXCEPT !.got = q])
  BY <1>2, <1>4, SetGot
<1>6. QED BY <1>2, <1>5, ReadsOn DEF q

LEMMA SimpleReads ==
  ASSUME NEW s, IsStream(s), NEW size \in Nat
  PROVE  /\ Reads(s, simpleRead(s, size)) /\ IsStream(simpleRead(s, size))
         /\ ~Thrown(simpleRead(s, size)) => LastRead(simpleRead(s, size)) \in Nat
<1> DEFINE read == take(s, size)
           v == FromBytes(LastRead(read))
<1>1. /\ Reads(s, read) /\ IsStream(read)
      /\ ~Thrown(read) => read.got # <<>> /\ v \in Nat
  BY Took, FromBytesNat
<1>2. simpleRead(s, size) = Convert(read, v)
  BY DEF simpleRead
<1> HIDE DEF read, v
<1>3. QED BY <1>1, <1>2, Converted, ReadsOn

LEMMA BoolReads == ASSUME NEW s, IsStream(s) PROVE Reads(s, boolRead(s))
<1> DEFINE read == take(s, 1)
           v == LastRead(read) # <<0>>
<1>1. Reads(s, read) /\ IsStream(read)
  BY Took
<1>2. boolRead(s) = Convert(read, v)
  BY DEF boolRead
<1> HIDE DEF read, v
<1>3. QED BY <1>1, <1>2, Converted, ReadsOn

LEMMA FixedReads == ASSUME NEW s, IsStream(s), NEW size \in Nat PROVE Reads(s, fixedRead(s, size))
<1> DEFINE t == [s EXCEPT !.got = <<>>]
<1>1. IsStream(t)
  <2>1. <<>> \in Seq({})
    OBVIOUS
  <2>2. QED BY <2>1, SetGot
<1>2. PICK after : /\ Iterates("fixedRead", t, 0, 0, size, after)
                   /\ fixedRead(s, size) =
                        [after[size] EXCEPT !.got = Append(s.got, after[size].got)]
  BY FixedReadLoop
<1>3. \A w : \A i \in 1 .. size : IsStream(w) => Reads(w, Called("fixedRead", w, i, 0, 0))
  BY SimpleReads DEF Called
<1> HIDE DEF t
<1>4. Reads(t, after[size])
  BY <1>1, <1>2, <1>3, LoopReads
<1>5. QED BY <1>2, <1>4, Collected DEF t

LEMMA StringReads == ASSUME NEW s, IsStream(s) PROVE Reads(s, stringRead(s))
<1> DEFINE prefixed == simpleRead(s, LengthSize)
           len == LastRead(prefixed)
           read == take(Forget(prefixed), len)
<1>1. /\ Reads(s, prefixed) /\ IsStream(prefixed)
      /\ ~Thrown(prefixed) => len \in Nat
  BY SimpleReads, UintNat
<1>2. stringRead(s) = IF Thrown(prefixed) THEN prefixed ELSE reserve(read, len)
  BY DEF stringRead
<1> HIDE DEF prefixed, len
<1>3. CASE Thrown(prefixed)
  BY <1>1, <1>2, <1>3
<1>4. CASE ~Thrown(prefixed)
  <2>1. Reads(s, Forget(prefixed)) /\ IsStream(Forget(prefixed))
    BY <1>1, Forgotten, ReadsOn
  <2>2. Reads(s, read) /\ IsStream(read)
    BY <1>1, <1>4, <2>1, Took, ReadsOn
  <2> HIDE DEF read
  <2>3. QED BY <1>2, <1>4, <2>2, Reserved, ReadsOn
<1>5. QED BY <1>3, <1>4

LEMMA ElementReads ==
  ASSUME NEW s, IsStream(s), NEW type, IsElementType(type) PROVE Reads(s, readElement(s, type))
<1>1. CASE type.kind = "simple" /\ type.size \in Nat \ {0}
  BY <1>1, SimpleReads DEF readElement
<1>2. CASE type.kind = "fixed" /\ type.size \in Nat
  BY <1>2, FixedReads DEF readElement
<1>3. CASE type = Bool
  BY <1>3, BoolReads DEF readElement, Bool
<1>4. CASE type = String
  BY <1>4, StringReads DEF readElement, String
<1>5. QED BY <1>1, <1>2, <1>3, <1>4 DEF IsElementType

LEMMA ReadAllReads ==
  ASSUME NEW s, IsStream(s), NEW type, IsElementType(type), NEW n \in Nat
  PROVE  Reads(s, readAll(s, type, n))
<1> DEFINE t == [s EXCEPT !.got = <<>>]
<1>1. IsStream(t)
  <2>1. <<>> \in Seq({})
    OBVIOUS
  <2>2. QED BY <2>1, SetGot
<1>2. PICK after : /\ Iterates("readAll", t, type, 0, n, after)
                   /\ readAll(s, type, n) =
                        [after[n] EXCEPT !.got = Append(s.got, after[n].got)]
  <2>1. \A m \in Nat : \E after :
          /\ Iterates("readAll", t, type, 0, m, after)
          /\ readAll(s, type, m) = [after[m] EXCEPT !.got = Append(s.got, after[m].got)]
    BY ReadAllLoop
  <2>2. QED BY <2>1
<1>3. \A w : \A i \in 1 .. n : IsStream(w) => Reads(w, Called("readAll", w, i, type, 0))
  BY ElementReads DEF Called
<1> HIDE DEF t
<1>4. Reads(t, after[n])
  BY <1>1, <1>2, <1>3, LoopReads
<1>5. QED BY <1>2, <1>4, Collected DEF t

LEMMA VectorReads ==
  ASSUME NEW s, IsStream(s), NEW type, IsElementType(type) PROVE Reads(s, vectorRead(s, type))
<1> DEFINE prefixed == simpleRead(s, LengthSize)
           len == LastRead(prefixed)
           data_len == (type.size * len) % UintModulus
           resized == reserve(Forget(prefixed), len)
           read == take(resized, data_len)
           v == Unpacked(LastRead(read), type.size, len)
<1>1. /\ Reads(s, prefixed) /\ IsStream(prefixed)
      /\ ~Thrown(prefixed) => len \in Nat
  BY SimpleReads, UintNat
<1>2. vectorRead(s, type) =
        IF Thrown(prefixed) THEN prefixed
        ELSE IF Thrown(resized) THEN resized
        ELSE IF ~IsSimple(type) THEN readAll(resized, type, len)
        ELSE IF len = 0 THEN [resized EXCEPT !.got = Append(resized.got, <<>>)]
        ELSE Convert(read, v)
  BY DEF vectorRead
<1>3. /\ ~Thrown(prefixed) /\ IsSimple(type) => data_len \in Nat
      /\ Reads(s, resized) /\ IsStream(resized)
  <2>1. IsSimple(type) => type.size \in Nat
    BY DEF IsSimple, IsElementType, Bool, String
  <2>2. ~Thrown(prefixed) /\ IsSimple(type) => data_len \in Nat
    <3> HIDE DEF len
    <3>1. SUFFICES ASSUME type.size \in Nat, len \in Nat PROVE data_len \in Nat
      BY <1>1, <2>1
    <3>2. type.size * len \in Nat
      BY <3>1
    <3>3. QED BY <3>2, UintNat
  <2> HIDE DEF prefixed, len
  <2>3. Reads(s, Forget(prefixed)) /\ IsStream(Forget(prefixed))
    BY <1>1, Forgotten, ReadsOn
  <2>4. QED BY <2>2, <2>3, Reserved, ReadsOn
<1> HIDE DEF prefixed, resized, len, data_len, v
<1>4. CASE Thrown(prefixed) \/ Thrown(resized)
  BY <1>1, <1>2, <1>3, <1>4
<1>5. CASE ~Thrown(prefixed) /\ ~Thrown(resized) /\ ~IsSimple(type)
  BY <1>1, <1>2, <1>3, <1>5, ReadAllReads, ReadsOn
<1>6. CASE ~Thrown(prefixed) /\ ~Thrown(resized) /\ IsSimple(type) /\ len = 0
  <2>1. PICK V : resized.got \in Seq(V)
    BY <1>3 DEF IsStream, Streams
  <2>2. Append(resized.got, <<>>) \in Seq(V \cup {<<>>})
    BY <2>1, AppendSeq
  <2>3. Reads(resized, [resized EXCEPT !.got = Append(resized.got, <<>>)])
    BY <1>3, <2>2, SetGot
  <2>4. QED BY <1>2, <1>3, <1>6, <2>3, ReadsOn
<1>7. CASE ~Thrown(prefixed) /\ ~Thrown(resized) /\ IsSimple(type) /\ len # 0
  <2>1. Reads(s, read) /\ IsStream(read)
    BY <1>3, <1>7, Took, ReadsOn
  <2> HIDE DEF read
  <2>2. QED BY <1>2, <1>7, <2>1, Converted, ReadsOn
<1>8. QED BY <1>4, <1>5, <1>6, <1>7

LEMMA ArrayReads ==
  ASSUME NEW s, IsStream(s), NEW type, IsElementType(type), NEW n \in Nat
  PROVE  Reads(s, arrayRead(s, type, n))
<1> DEFINE len == (n * type.size) % UintModulus
           read == take(s, len)
           v == Unpacked(LastRead(read), type.size, n)
<1>1. arrayRead(s, type, n) = IF IsSimple(type) THEN Convert(read, v) ELSE readAll(s, type, n)
  BY DEF arrayRead
<1>2. CASE IsSimple(type)
  <2>1. type.size \in Nat
    BY <1>2 DEF IsSimple, IsElementType, Bool, String
  <2>2. len \in Nat
    <3>1. n * type.size \in Nat
      BY <2>1
    <3>2. QED BY <3>1, UintNat
  <2> HIDE DEF len
  <2>3. Reads(s, read) /\ IsStream(read)
    BY <2>2, Took
  <2> HIDE DEF read, v
  <2>4. QED BY <1>1, <1>2, <2>3, Converted, ReadsOn
<1>3. CASE ~IsSimple(type)
  BY <1>1, <1>3, ReadAllReads
<1>4. QED BY <1>2, <1>3

LEMMA RestReads == ASSUME NEW s, IsStream(s) PROVE Reads(s, restRead(s))
<1> DEFINE size == getLength(s)
<1>1. PICK V : s \in Streams(V)
  BY DEF IsStream
<1>2. size \in Nat
  <2>1. s.end - s.at \in Int
    BY <1>1 DEF Streams
  <2>2. QED BY <2>1, UintNat DEF getLength
<1>3. \/ restRead(s) = take(s, size)
      \/ restRead(s) = [s EXCEPT !.got = Append(s.got, <<>>)]
  BY DEF restRead
<1> HIDE DEF size
<1>4. Append(s.got, <<>>) \in Seq(V \cup {<<>>})
  BY <1>1, AppendSeq DEF Streams
<1>5. Reads(s, [s EXCEPT !.got = Append(s.got, <<>>)])
  BY <1>4, SetGot
<1>6. QED BY <1>2, <1>3, <1>5, Took

LEMMA MemberReads ==
  ASSUME NEW s, IsStream(s), NEW type, IsMemberType(type) PROVE Reads(s, readMember(s, type))
<1>1. CASE IsElementType(type)
  <2>1. readMember(s, type) = readElement(s, type)
    BY <1>1 DEF readMember, IsElementType, Bool, String
  <2>2. QED BY <1>1, <2>1, ElementReads
<1>2. CASE type.kind = "vector" /\ IsElementType(type.of)
  BY <1>2, VectorReads DEF readMember
<1>3. CASE type.kind = "array" /\ IsElementType(type.of) /\ type.n \in Nat \ {0}
  BY <1>3, ArrayReads DEF readMember
<1>4. CASE type = Rest
  BY <1>4, RestReads DEF readMember, Rest
<1>5. QED BY <1>1, <1>2, <1>3, <1>4 DEF IsMemberType

(* Whatever a type and the bytes of a block are, reading one out of the      *)
(* other stays in bounds.                                                    *)
LEMMA DeserializeReads ==
  ASSUME NEW s, IsStream(s), NEW type \in Seq(Types) PROVE Reads(s, deserialize(s, type))
<1> DEFINE n == Len(type)
<1>1. n \in Nat
  OBVIOUS
<1>2. \A i \in 1 .. n : IsMemberType(type[i])
  BY MessageAssumption
<1>3. PICK after : /\ Iterates("deserialize", s, type, 0, n, after)
                   /\ deserialize(s, type) = after[n]
  BY DeserializeLoop
<1>4. \A w : \A i \in 1 .. n : IsStream(w) => Reads(w, Called("deserialize", w, i, type, 0))
  BY <1>2, MemberReads DEF Called
<1> HIDE DEF n
<1>5. QED BY <1>1, <1>3, <1>4, LoopReads

-----------------------------------------------------------------------------
(* Writing                                                                   *)

(* A stream that has not thrown has not come past its end. *)
Sound(s) == IsStream(s) /\ (~Thrown(s) => s.at <= s.end)

(* A call that writes n bytes throws if and only if they do not fit. *)
Writes(s, r, n) ==
  Sound(s) =>
    /\ Sound(r)
    /\ r.end = s.end
    /\ Thrown(r) <=> Thrown(s) \/ s.at + n > s.end
    /\ ~Thrown(r) => r.at = s.at + n
    /\ InBounds(s) => InBounds(r)

LEMMA KeepsOn ==
  ASSUME NEW s, NEW r, NEW t, IsStream(s), Keeps(s, r), Keeps(r, t)
  PROVE  Keeps(s, t) /\ IsStream(r) /\ IsStream(t)
  BY DEF Keeps

LEMMA WritesOn ==
  ASSUME NEW s, NEW r, NEW t, NEW n \in Nat, NEW m \in Nat, Writes(s, r, n), Writes(r, t, m)
  PROVE  Writes(s, t, n + m)
<1> SUFFICES ASSUME Sound(s) PROVE Writes(s, t, n + m)
  BY DEF Writes
<1>1. s.at \in Nat /\ s.end \in Nat
  BY DEF Sound, IsStream, Streams
<1>2. QED BY <1>1 DEF Writes

LEMMA WritesNothing == ASSUME NEW s PROVE Writes(s, s, 0)
<1> SUFFICES ASSUME Sound(s) PROVE Writes(s, s, 0)
  BY DEF Writes
<1>1. s.at \in Nat /\ s.end \in Nat
  BY DEF Sound, IsStream, Streams
<1>2. QED BY <1>1 DEF Writes, Sound

(* Copying as many bytes as the stream is moved by is writing them. *)
LEMMA Puts ==
  ASSUME NEW s, IsStream(s), NEW len \in Nat, NEW source \in Seq(Byte)
  PROVE  /\ Keeps(s, put(s, len, source)) /\ IsStream(put(s, len, source))
         /\ Len(source) = len => Writes(s, put(s, len, source), len)
<1> DEFINE next == advance(s, len)
           span == s.at .. s.at + Len(source) - 1
           memory == [a \in DOMAIN next.memory |->
                        IF a \in span THEN source[a - s.at + 1] ELSE next.memory[a]]
<1>1. PICK V : s \in Streams(V)
  BY DEF IsStream
<1>2. /\ Keeps(s, next) /\ IsStream(next) /\ next.end = s.end /\ next.full = s.full
      /\ next.touched = s.touched
      /\ Thrown(next) <=> Thrown(s) \/ s.at + len > s.end
      /\ Thrown(s) => next = s
      /\ ~Thrown(s) => next.at = s.at + len
  BY Advanced DEF Reads, Keeps
<1>3. s.at \in Nat /\ s.end \in Nat
  BY <1>1 DEF Streams
<1>4. CASE Thrown(next)
  <2>1. put(s, len, source) = next
    BY <1>4 DEF put
  <2>2. Writes(s, next, len)
    BY <1>2, <1>3, <1>4 DEF Writes, Sound, InBounds
  <2>3. QED BY <1>2, <2>1, <2>2
<1>5. CASE ~Thrown(next)
  <2>1. PICK U : next \in Streams(U)
    BY <1>2 DEF IsStream
  <2>2. memory \in [Address -> Byte]
    <3>1. next.memory \in [Address -> Byte]
      BY <2>1 DEF Streams
    <3>2. ASSUME NEW a \in Address, a \in span PROVE source[a - s.at + 1] \in Byte
      <4>1. a - s.at + 1 \in 1 .. Len(source)
        BY <1>3, <3>2
      <4>2. QED BY <4>1
    <3>3. QED BY <3>1, <3>2
  <2>3. span \subseteq Nat
    BY <1>3
  <2>4. put(s, len, source) = [next EXCEPT !.touched = next.touched \cup span, !.memory = memory]
    BY <1>5 DEF put
  <2>5. Len(source) = len /\ s.at + len <= s.end => span \subseteq 0 .. s.end - 1
    BY <1>3
  <2> HIDE DEF next, span, memory
  <2>6. put(s, len, source) \in Streams(U)
    BY <2>1, <2>2, <2>3, <2>4 DEF Streams
  <2>7. /\ put(s, len, source).end = s.end /\ put(s, len, source).full = s.full
        /\ put(s, len, source).touched = s.touched \cup span
        /\ put(s, len, source).at = next.at
        /\ ~Thrown(put(s, len, source))
    BY <1>2, <1>5, <2>1, <2>4 DEF Streams, Thrown
  <2>8. IsStream(put(s, len, source))
    BY <2>6 DEF IsStream
  <2>9. Len(source) = len => Writes(s, put(s, len, source), len)
    BY <1>2, <1>3, <1>5, <2>5, <2>7, <2>8 DEF Writes, Sound, InBounds
  <2>10. QED BY <2>7, <2>8, <2>9 DEF Keeps
<1>6. QED BY <1>4, <1>5

(* A loop keeps what its calls keep, and writes as much as they write. *)
LEMMA LoopKeeps ==
  ASSUME NEW loop, NEW s, NEW type, NEW v, NEW n \in Nat, NEW after,
         Iterates(loop, s, type, v, n, after), IsStream(s),
         \A w : \A i \in 1 .. n : IsStream(w) => Keeps(w, Called(loop, w, i, type, v))
  PROVE  Keeps(s, after[n]) /\ IsStream(after[n])
<1> DEFINE S == {i \in 0 .. n : Keeps(s, after[i]) /\ IsStream(after[i])}
<1>0. after[0] = s /\ \A i \in 1 .. n : after[i] = Iteration(loop, after[i - 1], i, type, v)
  BY DEF Iterates
<1>1. 0 \in S
  BY <1>0 DEF Keeps
<1>2. ASSUME NEW i \in Nat, i \in S, i + 1 <= n PROVE i + 1 \in S
  <2>1. i + 1 \in 1 .. n /\ (i + 1) - 1 = i
    BY <1>2
  <2>2. after[i + 1] = Iteration(loop, after[i], i + 1, type, v)
    <3>1. after[i + 1] = Iteration(loop, after[(i + 1) - 1], i + 1, type, v)
      BY <1>0, <2>1
    <3>2. QED BY <2>1, <3>1
  <2>3. Keeps(after[i], after[i + 1])
    <3>1. Keeps(after[i], Called(loop, after[i], i + 1, type, v))
      BY <1>2, <2>1
    <3>2. QED BY <1>2, <2>2, <3>1 DEF Iteration, Keeps
  <2>4. QED BY <1>2, <2>1, <2>3, KeepsOn
<1> HIDE DEF S
<1>3. \A i \in 0 .. n : i \in S
  BY <1>1, <1>2, BoundedInduction
<1>4. QED BY <1>3 DEF S

LEMMA LoopWrites ==
  ASSUME NEW loop, NEW s, NEW type, NEW v, NEW n \in Nat, NEW after,
         Iterates(loop, s, type, v, n, after),
         NEW T, \A i \in 1 .. n : T[i] \in Nat, NEW g, Sums(T, n, g),
         \A w : \A i \in 1 .. n : Sound(w) => Writes(w, Called(loop, w, i, type, v), T[i])
  PROVE  Writes(s, after[n], g[n])
<1> SUFFICES ASSUME Sound(s) PROVE Writes(s, after[n], g[n])
  BY DEF Writes
<1> DEFINE S == {i \in 0 .. n : Writes(s, after[i], g[i]) /\ Sound(after[i])}
<1>0. after[0] = s /\ \A i \in 1 .. n : after[i] = Iteration(loop, after[i - 1], i, type, v)
  BY DEF Iterates
<1>t. /\ g \in [0 .. n -> Nat] /\ g[0] = 0
      /\ \A i \in 1 .. n : g[i] = g[i - 1] + T[i]
  <2>1. Totals(T, n, g)
    BY SumsTotal
  <2>2. QED BY <2>1 DEF Totals
<1>1. 0 \in S
  BY <1>0, <1>t, WritesNothing
<1>2. ASSUME NEW i \in Nat, i \in S, i + 1 <= n PROVE i + 1 \in S
  <2>1. i + 1 \in 1 .. n /\ (i + 1) - 1 = i /\ i \in 0 .. n
    BY <1>2
  <2>2. after[i + 1] = Iteration(loop, after[i], i + 1, type, v)
    <3>1. after[i + 1] = Iteration(loop, after[(i + 1) - 1], i + 1, type, v)
      BY <1>0, <2>1
    <3>2. QED BY <2>1, <3>1
  <2>3. g[i + 1] = g[i] + T[i + 1] /\ g[i] \in Nat /\ T[i + 1] \in Nat
    <3>1. g[i + 1] = g[(i + 1) - 1] + T[i + 1] /\ g[i] \in Nat /\ T[i + 1] \in Nat
      BY <1>t, <2>1
    <3>2. QED BY <2>1, <3>1
  <2>4. Writes(after[i], after[i + 1], T[i + 1])
    <3>1. Writes(after[i], Called(loop, after[i], i + 1, type, v), T[i + 1])
      BY <1>2, <2>1
    <3>2. CASE ~Thrown(after[i])
      BY <2>2, <3>1, <3>2 DEF Iteration
    <3>3. CASE Thrown(after[i])
      BY <2>2, <3>3 DEF Iteration, Writes
    <3>4. QED BY <3>2, <3>3
  <2>5. Writes(s, after[i + 1], g[i + 1])
    BY <1>2, <2>3, <2>4, WritesOn
  <2>6. Sound(after[i + 1])
    BY <2>5 DEF Writes
  <2>7. QED BY <2>1, <2>5, <2>6
<1> HIDE DEF S
<1>3. \A i \in 0 .. n : i \in S
  BY <1>1, <1>2, BoundedInduction
<1>4. QED BY <1>3 DEF S

LEMMA SimpleWrites ==
  ASSUME NEW s, IsStream(s), NEW size \in Nat, NEW v \in Int
  PROVE  /\ Keeps(s, simpleWrite(s, size, v)) /\ IsStream(simpleWrite(s, size, v))
         /\ Writes(s, simpleWrite(s, size, v), size)
  BY ToBytesBytes, Puts DEF simpleWrite

LEMMA FixedWrites ==
  ASSUME NEW s, IsStream(s), NEW size \in Nat, NEW v \in [1 .. size -> Byte]
  PROVE  /\ Keeps(s, fixedWrite(s, size, v))
         /\ Writes(s, fixedWrite(s, size, v), size)
<1> DEFINE T == [i \in 1 .. size |-> 1]
<1>1. PICK after : /\ Iterates("fixedWrite", s, 0, v, size, after)
                   /\ fixedWrite(s, size, v) = after[size]
  BY FixedWriteLoop
<1>2. \A i \in 1 .. size : v[i] \in Int
  <2>1. \A i \in 1 .. size : v[i] \in Byte
    OBVIOUS
  <2>2. \A b \in Byte : b \in Int
    BY ByteNat
  <2>3. QED BY <2>1, <2>2
<1>3. \A w : \A i \in 1 .. size : IsStream(w) => Keeps(w, Called("fixedWrite", w, i, 0, v))
  BY <1>2, SimpleWrites DEF Called
<1>4. \A i \in 1 .. size : T[i] = 1
  OBVIOUS
<1>5. \A w : \A i \in 1 .. size : Sound(w) => Writes(w, Called("fixedWrite", w, i, 0, v), T[i])
  BY <1>2, <1>4, SimpleWrites DEF Called, Sound
<1> HIDE DEF T
<1>6. PICK g : Sums(T, size, g)
  <2>1. \A i \in 1 .. size : T[i] \in Nat
    BY <1>4
  <2>2. QED BY <2>1, Total
<1>7. g[size] = size
  <2>1. g[size] = size * 1
    BY <1>4, <1>6, TotalEqual
  <2>2. QED BY <2>1
<1>8. Keeps(s, after[size])
  BY <1>1, <1>3, LoopKeeps
<1>9. Writes(s, after[size], g[size])
  BY <1>1, <1>4, <1>5, <1>6, LoopWrites
<1>10. QED BY <1>1, <1>7, <1>8, <1>9

LEMMA BoolWrites ==
  ASSUME NEW s, IsStream(s), NEW v
  PROVE  Keeps(s, boolWrite(s, v)) /\ Writes(s, boolWrite(s, v), 1)
<1> DEFINE n == IF v THEN 1 ELSE 0
<1>1. n \in Int
  OBVIOUS
<1>2. boolWrite(s, v) = put(s, 1, ToBytes(n, 1))
  BY DEF boolWrite
<1> HIDE DEF n
<1>3. QED BY <1>1, <1>2, ToBytesBytes, Puts

LEMMA StringWrites ==
  ASSUME NEW s, IsStream(s), NEW v \in Seq(Byte)
  PROVE  /\ Keeps(s, stringWrite(s, v))
         /\ Len(v) < UintModulus => Writes(s, stringWrite(s, v), LengthSize + Len(v))
<1> DEFINE len == Len(v) % UintModulus
           prefixed == simpleWrite(s, LengthSize, len)
<1>1. len \in Nat /\ Len(v) \in Nat /\ (Len(v) < UintModulus => len = Len(v))
  BY UintNat, Unwrapped
<1>2. stringWrite(s, v) = IF Len(v) > 0 THEN put(prefixed, len, v) ELSE prefixed
  BY DEF stringWrite
<1> HIDE DEF len
<1>3. Keeps(s, prefixed) /\ IsStream(prefixed) /\ Writes(s, prefixed, LengthSize)
  BY <1>1, UintNat, SimpleWrites
<1> HIDE DEF prefixed
<1>4. CASE Len(v) > 0
  <2>1. /\ Keeps(prefixed, put(prefixed, len, v))
        /\ Len(v) = len => Writes(prefixed, put(prefixed, len, v), len)
    BY <1>1, <1>3, Puts
  <2>2. QED BY <1>1, <1>2, <1>3, <1>4, <2>1, KeepsOn, WritesOn, UintNat
<1>5. CASE ~(Len(v) > 0)
  <2>1. LengthSize + Len(v) = LengthSize
    BY <1>1, <1>5, UintNat
  <2>2. QED BY <1>2, <1>3, <1>5, <2>1
<1>6. QED BY <1>4, <1>5

(* How large an element is, and how it is written. *)
LEMMA ElementNat ==
  ASSUME NEW type, IsElementType(type), NEW v \in ElementValues(type)
  PROVE  ElementSize(type, v) \in Nat
<1>1. CASE type = String
  BY <1>1, UintNat DEF ElementSize, ElementValues, String, IsFixedSize
<1>2. CASE type = Bool
  BY <1>2 DEF ElementSize, Bool, IsFixedSize
<1>3. QED BY <1>1, <1>2 DEF ElementSize, IsFixedSize, IsElementType

LEMMA ElementWrites ==
  ASSUME NEW s, IsStream(s), NEW type, IsElementType(type), NEW v \in ElementValues(type)
  PROVE  /\ Keeps(s, writeElement(s, type, v))
         /\ ElementSize(type, v) < UintModulus =>
              Writes(s, writeElement(s, type, v), ElementSize(type, v))
<1>1. CASE type.kind = "simple" /\ type.size \in Nat \ {0}
  <2>1. v \in Int
    <3>1. v \in 0 .. Power(type.size) - 1
      BY <1>1 DEF ElementValues
    <3>2. QED BY <1>1, <3>1, PowerNat
  <2>2. writeElement(s, type, v) = simpleWrite(s, type.size, v) /\ ElementSize(type, v) = type.size
    BY <1>1 DEF writeElement, ElementSize, IsFixedSize
  <2>3. QED BY <1>1, <2>1, <2>2, SimpleWrites
<1>2. CASE type.kind = "fixed" /\ type.size \in Nat
  <2>1. v \in [1 .. type.size -> Byte]
    BY <1>2 DEF ElementValues
  <2>2. writeElement(s, type, v) = fixedWrite(s, type.size, v) /\ ElementSize(type, v) = type.size
    BY <1>2 DEF writeElement, ElementSize, IsFixedSize
  <2>3. QED BY <1>2, <2>1, <2>2, FixedWrites
<1>3. CASE type = Bool
  <2>1. writeElement(s, type, v) = boolWrite(s, v) /\ ElementSize(type, v) = 1
    BY <1>3 DEF writeElement, ElementSize, IsFixedSize, Bool
  <2>2. QED BY <2>1, BoolWrites
<1>4. CASE type = String
  <2>1. v \in Seq(Byte)
    BY <1>4 DEF ElementValues, String
  <2>2. writeElement(s, type, v) = stringWrite(s, v) /\ ElementSize(type, v) = LengthSize + Len(v)
    BY <1>4 DEF writeElement, ElementSize, IsFixedSize, String
  <2>3. LengthSize + Len(v) < UintModulus => Len(v) < UintModulus
    BY <2>1, UintNat
  <2>4. QED BY <2>1, <2>2, <2>3, StringWrites
<1>5. QED BY <1>1, <1>2, <1>3, <1>4 DEF IsElementType

(* The bytes of a sequence of numbers are as many as all of theirs.          *)
LEMMA PackedBytes ==
  ASSUME NEW size \in Nat \ {0}, NEW n \in Nat, NEW v, Len(v) = n, \A i \in 1 .. n : v[i] \in Int
  PROVE  Packed(v, size) \in Seq(Byte) /\ Len(Packed(v, size)) = n * size
<1> DEFINE m == n * size
<1>1. m \in Nat
  BY Factor
<1>2. ASSUME NEW k \in 1 .. m
      PROVE  ToBytes(v[((k - 1) \div size) + 1], size)[((k - 1) % size) + 1] \in Byte
  <2>1. (k - 1) \div size \in 0 .. n - 1 /\ (k - 1) % size \in 0 .. size - 1
    <3>1. k - 1 \in Nat /\ k - 1 < n * size
      BY <1>1
    <3>2. QED BY <3>1, Quotient
  <2> DEFINE i == ((k - 1) \div size) + 1
             j == ((k - 1) % size) + 1
  <2>2. i \in 1 .. n /\ j \in 1 .. size
    BY <2>1
  <2> HIDE DEF i, j
  <2>3. v[i] \in Int
    BY <2>2
  <2>4. ToBytes(v[i], size) \in Seq(Byte) /\ Len(ToBytes(v[i], size)) = size
    BY <2>3, ToBytesBytes
  <2>5. ToBytes(v[i], size)[j] \in Byte
    BY <2>2, <2>4
  <2>6. QED BY <2>5 DEF i, j
<1>3. Packed(v, size) = [k \in 1 .. m |->
        ToBytes(v[((k - 1) \div size) + 1], size)[((k - 1) % size) + 1]]
  BY DEF Packed
<1> HIDE DEF m
<1>4. Packed(v, size) \in Seq(Byte) /\ Len(Packed(v, size)) = m
  BY <1>1, <1>2, <1>3
<1>5. QED BY <1>4 DEF m

-----------------------------------------------------------------------------
(* Sizes of containers and of messages                                       *)

ElementSum(type, v, n) == Sum(LAMBDA i : ElementSize(type, v[i]), n)
Size(type, v) == Sum(LAMBDA i : MemberSize(type[i], v[i]), Len(type))

(* T are the sizes of the n elements of v, and g their partial sums.         *)
Summed(type, v, n, T, g) ==
  /\ \A i \in 1 .. n : T[i] = ElementSize(type, v[i]) /\ T[i] \in Nat
  /\ Sums(T, n, g) /\ g[n] \in Nat
  /\ \A i \in 1 .. n : T[i] <= g[n]
  /\ ElementSum(type, v, n) = g[n]

LEMMA ElementSums ==
  ASSUME NEW type, IsElementType(type), NEW n \in Nat, NEW v,
         \A i \in 1 .. n : v[i] \in ElementValues(type)
  PROVE  \E T, g : Summed(type, v, n, T, g)
<1> DEFINE T == [i \in 1 .. n |-> ElementSize(type, v[i])]
           sum == CHOOSE sum : sum = [i \in 0 .. n |->
                    IF i = 0 THEN 0 ELSE sum[i - 1] + ElementSize(type, v[i])]
<1>1. \A i \in 1 .. n : T[i] = ElementSize(type, v[i])
  OBVIOUS
<1>2. ElementSum(type, v, n) = sum[n]
  BY DEF ElementSum, Sum
<1> HIDE DEF T
<1>3. \A i \in 1 .. n : T[i] \in Nat
  BY <1>1, ElementNat
<1>4. Sums(T, n, sum)
  <2>1. PICK g : Sums(T, n, g)
    BY <1>3, Total
  <2>2. g = [i \in 0 .. n |-> IF i = 0 THEN 0 ELSE g[i - 1] + ElementSize(type, v[i])]
    <3>1. \A i \in 0 .. n : g[i] = IF i = 0 THEN 0 ELSE g[i - 1] + ElementSize(type, v[i])
      BY <1>1, <2>1 DEF Sums
    <3>2. QED BY <2>1, <3>1 DEF Sums
  <2>3. sum = [i \in 0 .. n |-> IF i = 0 THEN 0 ELSE sum[i - 1] + ElementSize(type, v[i])]
    BY <2>2
  <2> HIDE DEF sum
  <2>4. \A i \in 0 .. n : sum[i] = IF i = 0 THEN 0 ELSE sum[i - 1] + T[i]
    BY <1>1, <2>3
  <2>5. QED BY <2>3, <2>4 DEF Sums
<1> HIDE DEF sum
<1>5. sum[n] \in Nat /\ \A i \in 1 .. n : T[i] <= sum[n]
  <2>1. sum \in [0 .. n -> Nat] /\ \A i \in 1 .. n : T[i] <= sum[n]
    <3>1. Totals(T, n, sum)
      BY <1>3, <1>4, SumsTotal
    <3>2. QED BY <3>1 DEF Totals
  <2>2. QED BY <2>1
<1>6. Summed(type, v, n, T, sum)
  BY <1>1, <1>2, <1>3, <1>4, <1>5 DEF Summed
<1>7. QED BY <1>6

LEMMA MemberNat ==
  ASSUME NEW type, IsMemberType(type), NEW v \in MemberValues(type)
  PROVE  MemberSize(type, v) \in Nat
<1>1. CASE IsElementType(type)
  <2>1. MemberSize(type, v) = ElementSize(type, v) /\ v \in ElementValues(type)
    BY <1>1 DEF MemberSize, MemberValues, IsElementType, Bool, String
  <2>2. QED BY <1>1, <2>1, ElementNat
<1>2. CASE type.kind = "vector" /\ IsElementType(type.of)
  <2>1. v \in Seq(ElementValues(type.of))
    BY <1>2 DEF MemberValues
  <2>2. MemberSize(type, v) = LengthSize + ElementSum(type.of, v, Len(v))
    BY <1>2 DEF MemberSize, ElementSum
  <2>3. Len(v) \in Nat /\ \A i \in 1 .. Len(v) : v[i] \in ElementValues(type.of)
    BY <2>1
  <2>4. ElementSum(type.of, v, Len(v)) \in Nat
    BY <1>2, <2>3, ElementSums DEF Summed
  <2>5. QED BY <2>2, <2>4, UintNat
<1>3. CASE type.kind = "array" /\ IsElementType(type.of) /\ type.n \in Nat \ {0}
  <2>1. v \in [1 .. type.n -> ElementValues(type.of)]
    BY <1>3 DEF MemberValues
  <2>2. MemberSize(type, v) = ElementSum(type.of, v, type.n)
    BY <1>3 DEF MemberSize, ElementSum
  <2>3. \A i \in 1 .. type.n : v[i] \in ElementValues(type.of)
    BY <2>1
  <2>4. ElementSum(type.of, v, type.n) \in Nat
    <3>1. type.n \in Nat
      BY <1>3
    <3>2. \A m \in Nat : (\A i \in 1 .. m : v[i] \in ElementValues(type.of))
                            => ElementSum(type.of, v, m) \in Nat
      BY <1>3, ElementSums DEF Summed
    <3>3. QED BY <2>3, <3>1, <3>2
  <2>5. QED BY <2>2, <2>4
<1>4. CASE type = Rest
  BY <1>4 DEF MemberSize, MemberValues, Rest
<1>5. QED BY <1>1, <1>2, <1>3, <1>4 DEF IsMemberType

(* The sizes of a message's members. *)
IsMessage(type, v) ==
  /\ type \in Seq(Types)
  /\ \A i \in 1 .. Len(type) : v[i] \in MemberValues(type[i])

(* T are the sizes of the members of v, and g their partial sums.            *)
SummedMembers(type, v, T, g) ==
  /\ \A i \in 1 .. Len(type) : T[i] = MemberSize(type[i], v[i]) /\ T[i] \in Nat
  /\ Sums(T, Len(type), g) /\ g[Len(type)] \in Nat
  /\ \A i \in 1 .. Len(type) : T[i] <= g[Len(type)]
  /\ Size(type, v) = g[Len(type)]
  /\ Expressible(type, v) <=> g[Len(type)] < UintModulus

LEMMA MemberSums ==
  ASSUME NEW type, NEW v, IsMessage(type, v)
  PROVE  \E T, g : SummedMembers(type, v, T, g)
<1> DEFINE n == Len(type)
           T == [i \in 1 .. n |-> MemberSize(type[i], v[i])]
           sum == CHOOSE sum : sum = [i \in 0 .. n |->
                    IF i = 0 THEN 0 ELSE sum[i - 1] + MemberSize(type[i], v[i])]
<1>1. \A i \in 1 .. n : T[i] = MemberSize(type[i], v[i])
  OBVIOUS
<1>2. Size(type, v) = sum[n]
  BY DEF Size, Sum
<1>e. Expressible(type, v) <=> sum[n] < UintModulus
  BY DEF Expressible, Sum
<1>0. n \in Nat /\ \A i \in 1 .. n : IsMemberType(type[i]) /\ v[i] \in MemberValues(type[i])
  BY MessageAssumption DEF IsMessage
<1> HIDE DEF T, n
<1>3. \A i \in 1 .. n : T[i] \in Nat
  BY <1>0, <1>1, MemberNat
<1>4. Sums(T, n, sum)
  <2>1. PICK g : Sums(T, n, g)
    BY <1>0, <1>3, Total
  <2>2. g = [i \in 0 .. n |-> IF i = 0 THEN 0 ELSE g[i - 1] + MemberSize(type[i], v[i])]
    <3>1. \A i \in 0 .. n : g[i] = IF i = 0 THEN 0 ELSE g[i - 1] + MemberSize(type[i], v[i])
      BY <1>0, <1>1, <2>1 DEF Sums
    <3>2. QED BY <2>1, <3>1 DEF Sums
  <2>3. sum = [i \in 0 .. n |-> IF i = 0 THEN 0 ELSE sum[i - 1] + MemberSize(type[i], v[i])]
    BY <2>2
  <2> HIDE DEF sum
  <2>4. \A i \in 0 .. n : sum[i] = IF i = 0 THEN 0 ELSE sum[i - 1] + T[i]
    BY <1>0, <1>1, <2>3
  <2>5. QED BY <2>3, <2>4 DEF Sums
<1> HIDE DEF sum
<1>5. sum[n] \in Nat /\ \A i \in 1 .. n : T[i] <= sum[n]
  <2>1. n \in Nat
    BY <1>0
  <2>2. sum \in [0 .. n -> Nat] /\ \A i \in 1 .. n : T[i] <= sum[n]
    <3>1. Totals(T, n, sum)
      BY <1>3, <1>4, <2>1, SumsTotal
    <3>2. QED BY <3>1 DEF Totals
  <2>3. QED BY <2>1, <2>2
<1>6. SummedMembers(type, v, T, sum)
  BY <1>1, <1>2, <1>e, <1>3, <1>4, <1>5 DEF n, SummedMembers
<1>7. QED BY <1>6

LEMMA WriteAllWrites ==
  ASSUME NEW s, IsStream(s), NEW type, IsElementType(type), NEW v, NEW n \in Nat, Len(v) = n,
         \A i \in 1 .. n : v[i] \in ElementValues(type)
  PROVE  /\ Keeps(s, writeAll(s, type, v))
         /\ ElementSum(type, v, n) < UintModulus =>
              Writes(s, writeAll(s, type, v), ElementSum(type, v, n))
<1>1. PICK after : /\ Iterates("writeAll", s, type, v, n, after)
                   /\ writeAll(s, type, v) = after[n]
  BY WriteAllLoop
<1>2. PICK T, g : /\ \A i \in 1 .. n : T[i] = ElementSize(type, v[i]) /\ T[i] \in Nat
                  /\ Sums(T, n, g) /\ g[n] \in Nat
                  /\ \A i \in 1 .. n : T[i] <= g[n]
                  /\ ElementSum(type, v, n) = g[n]
  <2>1. PICK T, g : Summed(type, v, n, T, g)
    BY ElementSums
  <2>2. QED BY <2>1 DEF Summed
<1>3. \A w : \A i \in 1 .. n : IsStream(w) => Keeps(w, Called("writeAll", w, i, type, v))
  BY ElementWrites DEF Called
<1>4. Keeps(s, after[n])
  BY <1>1, <1>3, LoopKeeps
<1>5. ASSUME ElementSum(type, v, n) < UintModulus PROVE Writes(s, after[n], g[n])
  <2>1. \A i \in 1 .. n : T[i] \in Nat /\ T[i] < UintModulus /\ T[i] = ElementSize(type, v[i])
    BY <1>2, <1>5, UintNat
  <2>2. \A w : \A i \in 1 .. n : Sound(w) => Writes(w, Called("writeAll", w, i, type, v), T[i])
    <3> SUFFICES ASSUME NEW w, NEW i \in 1 .. n, Sound(w)
                 PROVE  Writes(w, Called("writeAll", w, i, type, v), T[i])
      OBVIOUS
    <3>1. Called("writeAll", w, i, type, v) = writeElement(w, type, v[i]) /\ IsStream(w)
      BY DEF Called, Sound
    <3>2. QED BY <2>1, <3>1, ElementWrites
  <2>3. QED BY <1>1, <1>2, <2>1, <2>2, LoopWrites
<1>6. QED BY <1>1, <1>2, <1>4, <1>5

(* Equal elements are as large as one of them as often as there are some. *)
LEMMA EqualElements ==
  ASSUME NEW type, IsElementType(type), IsFixedSize(type), NEW n \in Nat, NEW v,
         \A i \in 1 .. n : v[i] \in ElementValues(type)
  PROVE  type.size \in Nat /\ ElementSum(type, v, n) = n * type.size
<1>1. type.size \in Nat
  BY DEF IsElementType, IsFixedSize, Bool, String
<1>2. PICK T, g : /\ \A i \in 1 .. n : T[i] = ElementSize(type, v[i])
                  /\ Sums(T, n, g) /\ ElementSum(type, v, n) = g[n]
  <2>1. PICK T, g : Summed(type, v, n, T, g)
    BY ElementSums
  <2>2. QED BY <2>1 DEF Summed
<1>3. \A i \in 1 .. n : T[i] = type.size
  BY <1>2 DEF ElementSize
<1>4. \A c \in Nat : (\A i \in 1 .. n : T[i] = c) => g[n] = n * c
  BY <1>2, TotalEqual
<1>5. QED BY <1>1, <1>2, <1>3, <1>4

LEMMA ModBelow == \A n \in Nat : n % UintModulus \in Nat /\ n % UintModulus <= n
<1> SUFFICES ASSUME NEW n \in Nat PROVE n % UintModulus \in Nat /\ n % UintModulus <= n
  OBVIOUS
<1>1. CASE n < UintModulus
  BY <1>1, Unwrapped
<1>2. CASE ~(n < UintModulus)
  <2>1. n % UintModulus \in Nat /\ n % UintModulus < UintModulus
    BY UintNat
  <2>2. QED BY <1>2, <2>1, UintNat
<1>3. QED BY <1>1, <1>2

(* The elements of a simple type. *)
LEMMA SimpleElements ==
  ASSUME NEW type, IsElementType(type), IsSimple(type), NEW n \in Nat, NEW v, Len(v) = n,
         \A i \in 1 .. n : v[i] \in ElementValues(type)
  PROVE  /\ type.size \in Nat \ {0}
         /\ ElementSum(type, v, n) = n * type.size
         /\ Packed(v, type.size) \in Seq(Byte)
         /\ Len(Packed(v, type.size)) = n * type.size
<1>1. type.size \in Nat \ {0} /\ IsFixedSize(type) /\ type.kind = "simple"
  BY DEF IsElementType, IsSimple, IsFixedSize, Bool, String
<1>2. \A i \in 1 .. n : v[i] \in Int
  <2>1. Power(type.size) \in Nat
    BY <1>1, PowerNat
  <2>2. \A i \in 1 .. n : v[i] \in 0 .. Power(type.size) - 1
    BY <1>1 DEF ElementValues
  <2>3. QED BY <2>1, <2>2
<1>3. ElementSum(type, v, n) = n * type.size
  BY <1>1, EqualElements
<1>4. \A size \in Nat \ {0} : Packed(v, size) \in Seq(Byte) /\ Len(Packed(v, size)) = n * size
  BY <1>2, PackedBytes
<1>5. QED BY <1>1, <1>3, <1>4

LEMMA VectorWrites ==
  ASSUME NEW s, IsStream(s), NEW type, IsElementType(type), NEW v, NEW n \in Nat, Len(v) = n,
         v = <<>> <=> n = 0, \A i \in 1 .. n : v[i] \in ElementValues(type)
  PROVE  /\ Keeps(s, vectorWrite(s, type, v))
         /\ LengthSize + ElementSum(type, v, n) < UintModulus =>
              Writes(s, vectorWrite(s, type, v), LengthSize + ElementSum(type, v, n))
<1> DEFINE len == n % UintModulus
           data_len == (len * type.size) % UintModulus
           prefixed == simpleWrite(s, LengthSize, len)
           packed == Packed(v, type.size)
           sum == ElementSum(type, v, n)
<1>1. len \in Nat /\ len <= n
  BY ModBelow
<1>2. vectorWrite(s, type, v) =
        IF ~IsSimple(type) THEN writeAll(prefixed, type, v)
        ELSE IF v = <<>> THEN prefixed
        ELSE put(prefixed, data_len, SubSeq(packed, 1, data_len))
  BY DEF vectorWrite
<1>3. Keeps(s, prefixed) /\ IsStream(prefixed) /\ Writes(s, prefixed, LengthSize)
  <2> HIDE DEF len
  <2>1. QED BY <1>1, UintNat, SimpleWrites
<1>4. sum \in Nat
  BY ElementSums DEF Summed
<1>5. LengthSize + sum < UintModulus => sum < UintModulus
  BY <1>4, UintNat
<1> HIDE DEF prefixed, sum
<1>6. CASE ~IsSimple(type)
  <2>1. /\ Keeps(prefixed, writeAll(prefixed, type, v))
        /\ sum < UintModulus => Writes(prefixed, writeAll(prefixed, type, v), sum)
    BY <1>3, WriteAllWrites DEF sum
  <2>2. Keeps(s, writeAll(prefixed, type, v))
    BY <1>3, <2>1, KeepsOn
  <2>3. LengthSize + sum < UintModulus => Writes(s, writeAll(prefixed, type, v), LengthSize + sum)
    BY <1>3, <1>4, <1>5, <2>1, WritesOn, UintNat
  <2>4. QED BY <1>2, <1>6, <2>2, <2>3 DEF sum
<1>7. CASE IsSimple(type) /\ v = <<>>
  <2>1. sum = 0
    BY <1>7, SimpleElements DEF sum
  <2>2. LengthSize + sum = LengthSize
    BY <2>1, UintNat
  <2>3. QED BY <1>2, <1>3, <1>7, <2>2 DEF sum
<1>8. CASE IsSimple(type) /\ v # <<>>
  <2>1. /\ type.size \in Nat \ {0} /\ sum = n * type.size
        /\ packed \in Seq(Byte) /\ Len(packed) = n * type.size
    BY <1>8, SimpleElements DEF sum
  <2> HIDE DEF packed
  <2>2. data_len \in Nat /\ data_len <= n * type.size
    <3> HIDE DEF len
    <3>1. len * type.size \in Nat /\ len * type.size <= n * type.size
      BY <1>1, <2>1
    <3> DEFINE m == len * type.size
    <3>2. data_len = m % UintModulus /\ m \in Nat /\ m <= n * type.size
      BY <3>1
    <3>3. n * type.size \in Nat
      BY <2>1, Factor
    <3> HIDE DEF m, data_len
    <3>4. m % UintModulus \in Nat /\ m % UintModulus <= m
      BY <3>2, ModBelow
    <3>5. QED BY <3>2, <3>3, <3>4
  <2>3. sum < UintModulus => data_len = sum
    <3>1. SUFFICES ASSUME sum < UintModulus PROVE data_len = sum
      OBVIOUS
    <3>2. n <= n * type.size
      BY <2>1, Factor
    <3>3. len = n
      BY <2>1, <3>1, <3>2, <1>4, UintNat, Unwrapped
    <3>4. QED BY <1>4, <2>1, <3>1, <3>3, Unwrapped
  <2> DEFINE source == SubSeq(packed, 1, data_len)
             r == put(prefixed, data_len, source)
  <2>4. source \in Seq(Byte) /\ Len(source) = data_len
    <3> HIDE DEF data_len
    <3>1. data_len \in 0 .. Len(packed)
      BY <2>1, <2>2
    <3>2. \A i \in 1 .. data_len : packed[i] \in Byte
      BY <2>1, <3>1
    <3>3. QED BY <2>1, <3>1, <3>2
  <2> HIDE DEF data_len, source
  <2>5. Keeps(prefixed, r) /\ Writes(prefixed, r, data_len)
    BY <1>3, <2>2, <2>4, Puts
  <2>6. vectorWrite(s, type, v) = r
    BY <1>2, <1>8 DEF source
  <2> HIDE DEF r
  <2>7. Keeps(s, r)
    BY <1>3, <2>5, KeepsOn
  <2>8. LengthSize + sum < UintModulus => Writes(s, r, LengthSize + sum)
    BY <1>3, <1>4, <1>5, <2>3, <2>5, WritesOn, UintNat
  <2>9. QED BY <2>6, <2>7, <2>8 DEF sum
<1>9. QED BY <1>6, <1>7, <1>8

LEMMA ArrayWrites ==
  ASSUME NEW s, IsStream(s), NEW type, IsElementType(type), NEW n \in Nat, NEW v, Len(v) = n,
         \A i \in 1 .. n : v[i] \in ElementValues(type)
  PROVE  /\ Keeps(s, arrayWrite(s, type, n, v))
         /\ ElementSum(type, v, n) < UintModulus =>
              Writes(s, arrayWrite(s, type, n, v), ElementSum(type, v, n))
<1>1. CASE ~IsSimple(type)
  <2>1. arrayWrite(s, type, n, v) = writeAll(s, type, v)
    BY <1>1 DEF arrayWrite
  <2>2. QED BY <2>1, WriteAllWrites
<1>2. CASE IsSimple(type)
  <2> DEFINE m == n * type.size
             len == m % UintModulus
             packed == Packed(v, type.size)
             r == put(s, len, packed)
  <2>1. arrayWrite(s, type, n, v) = r
    BY <1>2 DEF arrayWrite
  <2>2. /\ type.size \in Nat \ {0} /\ ElementSum(type, v, n) = m
        /\ packed \in Seq(Byte) /\ Len(packed) = m
    BY <1>2, SimpleElements
  <2>3. m \in Nat
    BY <2>2, Factor
  <2> HIDE DEF m, packed
  <2>4. len \in Nat /\ (m < UintModulus => len = m)
    BY <2>3, ModBelow, Unwrapped
  <2> HIDE DEF len
  <2>5. Keeps(s, r) /\ (Len(packed) = len => Writes(s, r, len))
    BY <2>2, <2>4, Puts
  <2> HIDE DEF r
  <2>6. QED BY <2>1, <2>2, <2>4, <2>5
<1>3. QED BY <1>1, <1>2

LEMMA RestWrites ==
  ASSUME NEW s, IsStream(s), NEW v \in Seq(Byte)
  PROVE  /\ Keeps(s, restWrite(s, v))
         /\ Len(v) < UintModulus => Writes(s, restWrite(s, v), Len(v))
<1>1. CASE v = <<>>
  <2>1. restWrite(s, v) = s /\ Len(v) = 0
    BY <1>1 DEF restWrite
  <2>2. QED BY <2>1, WritesNothing DEF Keeps
<1>2. CASE v # <<>>
  <2> DEFINE len == Len(v) % UintModulus
  <2>1. restWrite(s, v) = put(s, len, v)
    BY <1>2 DEF restWrite
  <2>2. len \in Nat /\ (Len(v) < UintModulus => len = Len(v))
    BY ModBelow, Unwrapped
  <2> HIDE DEF len
  <2>3. QED BY <2>1, <2>2, Puts
<1>3. QED BY <1>1, <1>2

LEMMA MemberWrites ==
  ASSUME NEW s, IsStream(s), NEW type, IsMemberType(type), NEW v \in MemberValues(type)
  PROVE  /\ Keeps(s, writeMember(s, type, v))
         /\ MemberSize(type, v) < UintModulus =>
              Writes(s, writeMember(s, type, v), MemberSize(type, v))
<1>1. CASE IsElementType(type)
  <2>1. /\ MemberSize(type, v) = ElementSize(type, v) /\ v \in ElementValues(type)
        /\ writeMember(s, type, v) = writeElement(s, type, v)
    BY <1>1 DEF MemberSize, MemberValues, IsElementType, Bool, String, writeMember
  <2>2. QED BY <1>1, <2>1, ElementWrites
<1>2. CASE type.kind = "vector" /\ IsElementType(type.of)
  <2>1. v \in Seq(ElementValues(type.of))
    BY <1>2 DEF MemberValues
  <2>2. /\ MemberSize(type, v) = LengthSize + ElementSum(type.of, v, Len(v))
        /\ writeMember(s, type, v) = vectorWrite(s, type.of, v)
    BY <1>2 DEF MemberSize, ElementSum, writeMember
  <2>3. /\ Len(v) \in Nat /\ \A i \in 1 .. Len(v) : v[i] \in ElementValues(type.of)
        /\ v = <<>> <=> Len(v) = 0
    BY <2>1
  <2>4. \A n \in Nat : Len(v) = n => 
          /\ Keeps(s, vectorWrite(s, type.of, v))
          /\ LengthSize + ElementSum(type.of, v, n) < UintModulus =>
               Writes(s, vectorWrite(s, type.of, v), LengthSize + ElementSum(type.of, v, n))
    BY <1>2, <2>3, VectorWrites
  <2>5. QED BY <2>2, <2>3, <2>4
<1>3. CASE type.kind = "array" /\ IsElementType(type.of) /\ type.n \in Nat \ {0}
  <2>1. v \in [1 .. type.n -> ElementValues(type.of)]
    BY <1>3 DEF MemberValues
  <2>2. /\ MemberSize(type, v) = ElementSum(type.of, v, type.n)
        /\ writeMember(s, type, v) = arrayWrite(s, type.of, type.n, v)
    BY <1>3 DEF MemberSize, ElementSum, writeMember
  <2>3. /\ \A i \in 1 .. type.n : v[i] \in ElementValues(type.of)
        /\ type.n \in Nat /\ Len(v) = type.n
    BY <1>3, <2>1
  <2>4. \A n \in Nat : Len(v) = n /\ (\A i \in 1 .. n : v[i] \in ElementValues(type.of)) =>
          /\ Keeps(s, arrayWrite(s, type.of, n, v))
          /\ ElementSum(type.of, v, n) < UintModulus =>
               Writes(s, arrayWrite(s, type.of, n, v), ElementSum(type.of, v, n))
    BY <1>3, ArrayWrites
  <2>5. QED BY <2>2, <2>3, <2>4
<1>4. CASE type = Rest
  <2>1. /\ v \in Seq(Byte) /\ MemberSize(type, v) = Len(v)
        /\ writeMember(s, type, v) = restWrite(s, v)
    BY <1>4 DEF MemberSize, MemberValues, Rest, writeMember
  <2>2. QED BY <2>1, RestWrites
<1>5. QED BY <1>1, <1>2, <1>3, <1>4 DEF IsMemberType

(* Writing a message keeps its stream one, and a message of less than 2^32   *)
(* bytes takes its size of it.                                               *)
LEMMA SerializeWrites ==
  ASSUME NEW s, IsStream(s), NEW type, NEW v, IsMessage(type, v)
  PROVE  /\ Keeps(s, serialize(s, type, v))
         /\ Size(type, v) \in Nat
         /\ Expressible(type, v) <=> Size(type, v) < UintModulus
         /\ Expressible(type, v) => Writes(s, serialize(s, type, v), Size(type, v))
<1> DEFINE n == Len(type)
<1>1. n \in Nat /\ \A i \in 1 .. n : IsMemberType(type[i]) /\ v[i] \in MemberValues(type[i])
  BY MessageAssumption DEF IsMessage
<1>2. PICK after : /\ Iterates("serialize", s, type, v, n, after)
                   /\ serialize(s, type, v) = after[n]
  BY <1>1, SerializeLoop
<1>3. PICK T, g : /\ \A i \in 1 .. n : T[i] = MemberSize(type[i], v[i]) /\ T[i] \in Nat
                  /\ Sums(T, n, g) /\ g[n] \in Nat
                  /\ \A i \in 1 .. n : T[i] <= g[n]
                  /\ Size(type, v) = g[n]
                  /\ Expressible(type, v) <=> g[n] < UintModulus
  <2>1. PICK T, g : SummedMembers(type, v, T, g)
    BY MemberSums
  <2>2. QED BY <2>1 DEF SummedMembers
<1> HIDE DEF n
<1>4. \A w : \A i \in 1 .. n : IsStream(w) => Keeps(w, Called("serialize", w, i, type, v))
  BY <1>1, MemberWrites DEF Called
<1>5. Keeps(s, after[n])
  BY <1>1, <1>2, <1>4, LoopKeeps
<1>6. ASSUME g[n] < UintModulus PROVE Writes(s, after[n], g[n])
  <2>1. \A i \in 1 .. n : T[i] \in Nat /\ T[i] < UintModulus /\ T[i] = MemberSize(type[i], v[i])
    BY <1>3, <1>6, UintNat
  <2>2. \A w : \A i \in 1 .. n : Sound(w) => Writes(w, Called("serialize", w, i, type, v), T[i])
    <3> SUFFICES ASSUME NEW w, NEW i \in 1 .. n, Sound(w)
                 PROVE  Writes(w, Called("serialize", w, i, type, v), T[i])
      OBVIOUS
    <3>1. Called("serialize", w, i, type, v) = writeMember(w, type[i], v[i]) /\ IsStream(w)
      BY DEF Called, Sound
    <3>2. QED BY <1>1, <2>1, <3>1, MemberWrites
  <2>3. QED BY <1>1, <1>2, <1>3, <2>1, <2>2, LoopWrites
<1>7. QED BY <1>2, <1>3, <1>5, <1>6

-----------------------------------------------------------------------------
(* Lengths: a length of less than 2^32 is counted as what it is. *)

LEMMA ElementLengths ==
  ASSUME NEW type, NEW v, ElementSize(type, v) \in Nat, ElementSize(type, v) < UintModulus
  PROVE  elementLength(type, v) = ElementSize(type, v)
<1>1. elementLength(type, v) = ElementSize(type, v) % UintModulus
  BY DEF elementLength, ElementSize
<1>2. QED BY <1>1, Unwrapped

LEMMA LengthSums ==
  ASSUME NEW type, IsElementType(type), NEW v, NEW n \in Nat, Len(v) = n,
         \A i \in 1 .. n : v[i] \in ElementValues(type),
         NEW start \in Nat, start + ElementSum(type, v, n) < UintModulus
  PROVE  sumOfLengths(type, v, start) = start + ElementSum(type, v, n)
<1>1. PICK T, g : /\ \A i \in 1 .. n : T[i] = ElementSize(type, v[i]) /\ T[i] \in Nat
                  /\ Sums(T, n, g) /\ g[n] \in Nat
                  /\ \A i \in 1 .. n : T[i] <= g[n]
                  /\ ElementSum(type, v, n) = g[n]
  <2>1. PICK T, g : Summed(type, v, n, T, g)
    BY ElementSums
  <2>2. QED BY <2>1 DEF Summed
<1>2. \A i \in 1 .. n : elementLength(type, v[i]) = T[i]
  <2>1. \A i \in 1 .. n : T[i] < UintModulus
    BY <1>1, UintNat
  <2>2. QED BY <1>1, <2>1, ElementLengths
<1> DEFINE U == [i \in 1 .. n |-> elementLength(type, v[i])]
           w == CHOOSE w : w = [i \in 0 .. n |->
                  IF i = 0 THEN start ELSE (w[i - 1] + elementLength(type, v[i])) % UintModulus]
           c == CHOOSE c : c = [i \in 0 .. n |->
                  IF i = 0 THEN start ELSE (c[i - 1] + T[i]) % UintModulus]
<1>3. sumOfLengths(type, v, start) = w[n]
  BY DEF sumOfLengths
<1>4. \A h : h = [i \in 0 .. n |->
                  IF i = 0 THEN start ELSE (h[i - 1] + elementLength(type, v[i])) % UintModulus]
         <=> h = [i \in 0 .. n |-> IF i = 0 THEN start ELSE (h[i - 1] + T[i]) % UintModulus]
  <2>1. ASSUME NEW h, NEW i \in 0 .. n
        PROVE  (IF i = 0 THEN start ELSE (h[i - 1] + elementLength(type, v[i])) % UintModulus)
             = (IF i = 0 THEN start ELSE (h[i - 1] + T[i]) % UintModulus)
    BY <1>2
  <2>2. ASSUME NEW h
        PROVE [i \in 0 .. n |-> IF i = 0 THEN start
                                ELSE (h[i - 1] + elementLength(type, v[i])) % UintModulus]
            = [i \in 0 .. n |-> IF i = 0 THEN start ELSE (h[i - 1] + T[i]) % UintModulus]
    BY <2>1
  <2>3. QED BY <2>2
<1>5. w = c
  BY <1>4
<1>6. c[n] = start + g[n]
  <2>1. c = Wrapped(T, n, start)
    BY DEF Wrapped
  <2>2. start + g[n] < UintModulus
    BY <1>1
  <2> HIDE DEF c, w, U
  <2>3. \A m \in Nat, k \in Nat :
          (\A i \in 1 .. m : T[i] \in Nat) /\ Sums(T, m, g) /\ k + g[m] < UintModulus =>
            Wrapped(T, m, k)[m] = k + g[m]
    BY TotalWrapped
  <2>4. QED BY <1>1, <2>1, <2>2, <2>3
<1>7. QED BY <1>1, <1>3, <1>5, <1>6

(* Elements of a fixed size are counted by the first of them. *)
LEMMA FixedLengths ==
  ASSUME NEW type, IsElementType(type), IsFixedSize(type), NEW n \in Nat \ {0}, NEW v,
         \A i \in 1 .. n : v[i] \in ElementValues(type), ElementSum(type, v, n) < UintModulus
  PROVE  elementLength(type, v[1]) = type.size
<1>1. type.size \in Nat /\ ElementSum(type, v, n) = n * type.size
  BY EqualElements
<1>2. type.size <= n * type.size /\ n * type.size \in Nat
  BY <1>1
<1>3. type.size < UintModulus
  BY <1>1, <1>2, UintNat
<1>4. elementLength(type, v[1]) = type.size % UintModulus
  BY DEF elementLength
<1>5. QED BY <1>1, <1>3, <1>4, Unwrapped

LEMMA VectorLengths ==
  ASSUME NEW type, IsElementType(type), NEW v, NEW n \in Nat, Len(v) = n,
         v = <<>> <=> n = 0, \A i \in 1 .. n : v[i] \in ElementValues(type),
         LengthSize + ElementSum(type, v, n) < UintModulus
  PROVE  vectorLength(type, v) = LengthSize + ElementSum(type, v, n)
<1> DEFINE sum == ElementSum(type, v, n)
<1>1. sum \in Nat /\ LengthSize \in Nat
  BY ElementSums, UintNat DEF Summed
<1>2. (LengthSize + sum) % UintModulus = LengthSize + sum
  BY <1>1, Unwrapped
<1>3. CASE ~IsFixedSize(type)
  <2>1. vectorLength(type, v) = sumOfLengths(type, v, LengthSize)
    BY <1>3 DEF vectorLength, IsFixedSize, IsSimple
  <2>2. \A k \in Nat : k + sum < UintModulus => sumOfLengths(type, v, k) = k + sum
    BY LengthSums
  <2>3. QED BY <1>1, <2>1, <2>2
<1>4. CASE IsSimple(type)
  <2>1. vectorLength(type, v) = (LengthSize + n * type.size) % UintModulus /\ IsFixedSize(type)
    BY <1>4 DEF vectorLength, IsFixedSize, IsSimple
  <2>2. sum = n * type.size
    BY <2>1, EqualElements
  <2>3. QED BY <1>2, <2>1, <2>2
<1>5. CASE IsFixedSize(type) /\ ~IsSimple(type)
  <2> DEFINE rest == IF v = <<>> THEN 0 ELSE elementLength(type, v[1]) * n
  <2>1. vectorLength(type, v) = (LengthSize + rest) % UintModulus
    BY <1>5 DEF vectorLength
  <2>2. type.size \in Nat /\ sum = n * type.size
    BY <1>5, EqualElements
  <2>3. rest = sum
    <3>1. CASE n = 0
      BY <2>2, <3>1
    <3>2. CASE n # 0
      <4>1. sum < UintModulus
        BY <1>1, UintNat
      <4>2. elementLength(type, v[1]) = type.size
        BY <1>5, <3>2, <4>1, FixedLengths
      <4>3. type.size * n = n * type.size
        BY <2>2
      <4>4. QED BY <2>2, <3>2, <4>2, <4>3
    <3>3. QED BY <3>1, <3>2
  <2>4. QED BY <1>2, <2>1, <2>3
<1>6. QED BY <1>3, <1>4, <1>5

LEMMA ArrayLengths ==
  ASSUME NEW type, IsElementType(type), NEW n \in Nat \ {0}, NEW v, Len(v) = n,
         \A i \in 1 .. n : v[i] \in ElementValues(type), ElementSum(type, v, n) < UintModulus
  PROVE  arrayLength(type, n, v) = ElementSum(type, v, n)
<1> DEFINE sum == ElementSum(type, v, n)
<1>1. sum \in Nat
  BY ElementSums DEF Summed
<1>2. sum % UintModulus = sum
  BY <1>1, Unwrapped
<1>3. CASE ~IsFixedSize(type)
  <2>1. arrayLength(type, n, v) = sumOfLengths(type, v, 0)
    BY <1>3 DEF arrayLength, IsFixedSize, IsSimple
  <2>2. \A k \in Nat : k + sum < UintModulus => sumOfLengths(type, v, k) = k + sum
    BY LengthSums
  <2>3. QED BY <1>1, <2>1, <2>2
<1>4. CASE IsFixedSize(type)
  <2>1. type.size \in Nat /\ sum = n * type.size
    BY <1>4, EqualElements
  <2>2. elementLength(type, v[1]) = type.size
    BY <1>4, FixedLengths
  <2>3. type.size * n = n * type.size
    BY <2>1
  <2>4. arrayLength(type, n, v) = (n * type.size) % UintModulus
    BY <1>4, <2>2, <2>3 DEF arrayLength
  <2>5. QED BY <1>2, <2>1, <2>4
<1>5. QED BY <1>3, <1>4

LEMMA MemberLengths ==
  ASSUME NEW type, IsMemberType(type), NEW v \in MemberValues(type),
         MemberSize(type, v) < UintModulus
  PROVE  memberLength(type, v) = MemberSize(type, v)
<1>1. CASE IsElementType(type)
  <2>1. /\ MemberSize(type, v) = ElementSize(type, v) /\ v \in ElementValues(type)
        /\ memberLength(type, v) = elementLength(type, v)
    BY <1>1 DEF MemberSize, MemberValues, IsElementType, Bool, String, memberLength
  <2>2. QED BY <1>1, <2>1, ElementNat, ElementLengths
<1>2. CASE type.kind = "vector" /\ IsElementType(type.of)
  <2>1. v \in Seq(ElementValues(type.of))
    BY <1>2 DEF MemberValues
  <2>2. /\ MemberSize(type, v) = LengthSize + ElementSum(type.of, v, Len(v))
        /\ memberLength(type, v) = vectorLength(type.of, v)
    BY <1>2 DEF MemberSize, ElementSum, memberLength
  <2>3. /\ Len(v) \in Nat /\ \A i \in 1 .. Len(v) : v[i] \in ElementValues(type.of)
        /\ v = <<>> <=> Len(v) = 0
    BY <2>1
  <2>4. \A n \in Nat :
          Len(v) = n /\ LengthSize + ElementSum(type.of, v, n) < UintModulus =>
            vectorLength(type.of, v) = LengthSize + ElementSum(type.of, v, n)
    BY <1>2, <2>3, VectorLengths
  <2>5. QED BY <2>2, <2>3, <2>4
<1>3. CASE type.kind = "array" /\ IsElementType(type.of) /\ type.n \in Nat \ {0}
  <2>1. v \in [1 .. type.n -> ElementValues(type.of)]
    BY <1>3 DEF MemberValues
  <2>2. /\ MemberSize(type, v) = ElementSum(type.of, v, type.n)
        /\ memberLength(type, v) = arrayLength(type.of, type.n, v)
    BY <1>3 DEF MemberSize, ElementSum, memberLength
  <2>3. /\ \A i \in 1 .. type.n : v[i] \in ElementValues(type.of)
        /\ type.n \in Nat \ {0} /\ Len(v) = type.n
    BY <1>3, <2>1
  <2>4. \A n \in Nat \ {0} :
          /\ Len(v) = n
          /\ \A i \in 1 .. n : v[i] \in ElementValues(type.of)
          /\ ElementSum(type.of, v, n) < UintModulus
          => arrayLength(type.of, n, v) = ElementSum(type.of, v, n)
    BY <1>3, ArrayLengths
  <2>5. QED BY <2>2, <2>3, <2>4
<1>4. CASE type = Rest
  <2>1. /\ v \in Seq(Byte) /\ MemberSize(type, v) = Len(v)
        /\ memberLength(type, v) = Len(v) % UintModulus
    BY <1>4 DEF MemberSize, MemberValues, Rest, memberLength
  <2>2. QED BY <2>1, Unwrapped
<1>5. QED BY <1>1, <1>2, <1>3, <1>4 DEF IsMemberType

(* What is announced of a message of less than 2^32 bytes is its size. *)
LEMMA SerializationLengths ==
  ASSUME NEW type, NEW v, IsMessage(type, v), Expressible(type, v)
  PROVE  serializationLength(type, v) = Size(type, v)
<1> DEFINE n == Len(type)
<1>1. n \in Nat /\ \A i \in 1 .. n : IsMemberType(type[i]) /\ v[i] \in MemberValues(type[i])
  BY MessageAssumption DEF IsMessage
<1>2. PICK T, g : /\ \A i \in 1 .. n : T[i] = MemberSize(type[i], v[i]) /\ T[i] \in Nat
                  /\ Sums(T, n, g) /\ g[n] \in Nat
                  /\ \A i \in 1 .. n : T[i] <= g[n]
                  /\ Size(type, v) = g[n]
                  /\ Expressible(type, v) <=> g[n] < UintModulus
  <2>1. PICK T, g : SummedMembers(type, v, T, g)
    BY MemberSums
  <2>2. QED BY <2>1 DEF SummedMembers
<1> DEFINE w == CHOOSE w : w = [i \in 0 .. n |->
                  IF i = 0 THEN 0 ELSE (w[i - 1] + memberLength(type[i], v[i])) % UintModulus]
           c == CHOOSE c : c = [i \in 0 .. n |->
                  IF i = 0 THEN 0 ELSE (c[i - 1] + T[i]) % UintModulus]
<1>3. serializationLength(type, v) = w[n]
  BY DEF serializationLength
<1> HIDE DEF n
<1>4. \A i \in 1 .. n : memberLength(type[i], v[i]) = T[i]
  <2>1. \A i \in 1 .. n : T[i] < UintModulus
    BY <1>1, <1>2, UintNat
  <2>2. QED BY <1>1, <1>2, <2>1, MemberLengths
<1>5. \A h : h = [i \in 0 .. n |->
                  IF i = 0 THEN 0 ELSE (h[i - 1] + memberLength(type[i], v[i])) % UintModulus]
         <=> h = [i \in 0 .. n |-> IF i = 0 THEN 0 ELSE (h[i - 1] + T[i]) % UintModulus]
  <2>1. ASSUME NEW h, NEW i \in 0 .. n
        PROVE  (IF i = 0 THEN 0 ELSE (h[i - 1] + memberLength(type[i], v[i])) % UintModulus)
             = (IF i = 0 THEN 0 ELSE (h[i - 1] + T[i]) % UintModulus)
    BY <1>1, <1>4
  <2>2. ASSUME NEW h
        PROVE [i \in 0 .. n |-> IF i = 0 THEN 0
                                ELSE (h[i - 1] + memberLength(type[i], v[i])) % UintModulus]
            = [i \in 0 .. n |-> IF i = 0 THEN 0 ELSE (h[i - 1] + T[i]) % UintModulus]
    BY <2>1
  <2>3. QED BY <2>2
<1>6. w = c
  BY <1>5
<1>7. c[n] = 0 + g[n]
  <2>1. c = Wrapped(T, n, 0)
    BY DEF Wrapped
  <2>2. 0 + g[n] < UintModulus
    BY <1>2
  <2> HIDE DEF c, w
  <2>3. \A m \in Nat, k \in Nat :
          (\A i \in 1 .. m : T[i] \in Nat) /\ Sums(T, m, g) /\ k + g[m] < UintModulus =>
            Wrapped(T, m, k)[m] = k + g[m]
    BY TotalWrapped
  <2>4. QED BY <1>1, <1>2, <2>1, <2>2, <2>3
<1> HIDE DEF w, c
<1>8. 0 + g[n] = g[n]
  BY <1>2
<1>9. QED BY <1>2, <1>3, <1>6, <1>7, <1>8

-----------------------------------------------------------------------------
(* Reading back: what was written, and is still there, is what is read.      *)

(* The bytes are in memory from address b on. *)
Stored(memory, b, bytes) == \A i \in 1 .. Len(bytes) : memory[b + i - 1] = bytes[i]

(* A call that writes n bytes leaves the others alone. *)
Frames(s, r, n) == \A a \in Address : a \notin s.at .. s.at + n - 1 => r.memory[a] = s.memory[a]

(* A stream within the block, and one of a process that has memory left. *)
Within(s) == IsStream(s) /\ s.at <= s.end /\ s.end <= Capacity /\ ~Thrown(s)
Ready(s) == Within(s) /\ ~s.full

(* r has read x from n bytes of s, or found that they are not all there. *)
Back(s, r, n, x) ==
  /\ IsStream(r) /\ r.end = s.end /\ r.full = s.full
  /\ s.at + n <= s.end =>
       ~Thrown(r) /\ r.at = s.at + n /\ r.memory = s.memory /\ r.got = Append(s.got, x)
  /\ s.at + n > s.end => r.exception = "StreamOverrun"

LEMMA PutStores ==
  ASSUME NEW s, Sound(s), s.end <= Capacity, NEW source \in Seq(Byte), NEW n, n = Len(source),
         ~Thrown(put(s, n, source))
  PROVE  /\ Stored(put(s, n, source).memory, s.at, source)
         /\ Frames(s, put(s, n, source), n)
<1> DEFINE next == advance(s, n)
           span == s.at .. s.at + Len(source) - 1
           memory == [a \in DOMAIN next.memory |->
                        IF a \in span THEN source[a - s.at + 1] ELSE next.memory[a]]
           r == put(s, n, source)
<1>1. PICK V : s \in Streams(V)
  BY DEF Sound, IsStream
<1>2. n \in Nat
  OBVIOUS
<1>3. /\ IsStream(next) /\ next.memory = s.memory
      /\ Thrown(next) <=> Thrown(s) \/ s.at + n > s.end
  BY <1>1, <1>2, Advanced DEF Sound
<1>4. r = IF Thrown(next) THEN next
          ELSE [next EXCEPT !.touched = next.touched \cup span, !.memory = memory]
  BY DEF put
<1>5. ~Thrown(next)
  BY <1>4
<1>6. s.at \in Nat /\ s.end \in Nat /\ s.at + n <= Capacity
  BY <1>1, <1>2, <1>3, <1>5, SerializationAssumption DEF Streams
<1>7. DOMAIN s.memory = Address
  BY <1>1 DEF Streams
<1>8. \A a \in Address : memory[a] = IF a \in span THEN source[a - s.at + 1] ELSE s.memory[a]
  BY <1>3, <1>7
<1>9. r.memory = memory
  <2>1. PICK U : next \in Streams(U)
    BY <1>3 DEF IsStream
  <2> HIDE DEF next, span, memory
  <2>2. QED BY <1>4, <1>5, <2>1 DEF Streams
<1> HIDE DEF memory, next, r
<1>10. ASSUME NEW i \in 1 .. Len(source) PROVE memory[s.at + i - 1] = source[i]
  <2>1. s.at + i - 1 \in Address /\ s.at + i - 1 \in span /\ (s.at + i - 1) - s.at + 1 = i
    <3> DEFINE b == s.at
    <3>1. b \in Nat /\ i \in Nat /\ 1 <= i /\ i <= n /\ b + n <= Capacity /\ Capacity \in Nat
          /\ n = Len(source)
      BY <1>2, <1>6, SerializationAssumption
    <3> HIDE DEF b
    <3>2. /\ b + i - 1 \in 0 .. Capacity - 1 /\ b + i - 1 \in b .. b + Len(source) - 1
          /\ (b + i - 1) - b + 1 = i
      BY <3>1
    <3>3. QED BY <3>2 DEF b, Address
  <2> HIDE DEF span
  <2>2. memory[s.at + i - 1] = source[(s.at + i - 1) - s.at + 1]
    BY <1>8, <2>1
  <2>3. QED BY <2>1, <2>2
<1>11. \A a \in Address : a \notin s.at .. s.at + n - 1 => memory[a] = s.memory[a]
  BY <1>8
<1>12. QED BY <1>9, <1>10, <1>11 DEF Stored, Frames, r

LEMMA TakeBack ==
  ASSUME NEW s, Within(s), NEW source \in Seq(Byte), NEW n, n = Len(source),
         Stored(s.memory, s.at, source)
  PROVE  Back(s, take(s, n), n, source)
<1> DEFINE next == advance(s, n)
           bytes == [i \in 1 .. n |-> IF s.at + i - 1 \in DOMAIN s.memory
                                      THEN s.memory[s.at + i - 1] ELSE 0]
           span == s.at .. s.at + n - 1
           r == take(s, n)
<1>1. PICK V : s \in Streams(V)
  BY DEF Ready, Within, IsStream
<1>2. n \in Nat
  OBVIOUS
<1>3. /\ IsStream(next) /\ next.memory = s.memory /\ next.got = s.got
      /\ Keeps(s, next)
      /\ Thrown(next) <=> Thrown(s) \/ s.at + n > s.end
      /\ ~Thrown(s) => next.at = s.at + n
  BY <1>1, <1>2, Advanced DEF Ready, Within, Reads
<1>4. r = IF Thrown(next) THEN next
          ELSE [next EXCEPT !.touched = next.touched \cup span, !.got = Append(next.got, bytes)]
  BY DEF take
<1>5. IsStream(r) /\ Keeps(s, r)
  BY <1>2, Took DEF Ready, Within, Reads
<1>6. s.at + n > s.end => next.exception = "StreamOverrun"
  <2>1. s.at + n > s.end => next = [s EXCEPT !.at = s.at + n, !.exception = "StreamOverrun"]
    BY <1>1 DEF advance, Ready, Within, Streams
  <2> HIDE DEF next
  <2>2. QED BY <1>1, <2>1 DEF Streams
<1>7. s.at + n <= s.end => bytes = source
  <2>1. SUFFICES ASSUME s.at + n <= s.end PROVE bytes = source
    OBVIOUS
  <2>2. ASSUME NEW i \in 1 .. n PROVE bytes[i] = source[i]
    <3>1. s.at + i - 1 \in DOMAIN s.memory
      <4>1. s.at \in Nat /\ s.end \in Nat /\ Capacity \in Nat /\ DOMAIN s.memory = Address
        BY <1>1, SerializationAssumption DEF Streams
      <4>2. QED BY <2>1, <4>1 DEF Ready, Within, Address
    <3>2. QED BY <3>1 DEF Stored
  <2>3. source = [i \in 1 .. n |-> source[i]]
    OBVIOUS
  <2>4. QED BY <2>2, <2>3
<1> HIDE DEF bytes, next, r, span
<1>8. CASE s.at + n <= s.end
  <2>1. ~Thrown(next)
    BY <1>1, <1>2, <1>3, <1>8 DEF Ready, Within, Streams
  <2>2. PICK U : next \in Streams(U)
    BY <1>3 DEF IsStream
  <2>3. r = [next EXCEPT !.touched = next.touched \cup span, !.got = Append(next.got, bytes)]
    BY <1>4, <2>1
  <2>4. /\ r.at = next.at /\ r.memory = next.memory /\ r.exception = next.exception
        /\ r.got = Append(next.got, bytes)
    BY <2>2, <2>3 DEF Streams
  <2>5. QED BY <1>1, <1>2, <1>3, <1>5, <1>7, <1>8, <2>1, <2>4
            DEF Back, Thrown, Keeps, Ready, Within, Streams, r
<1>9. CASE s.at + n > s.end
  BY <1>1, <1>2, <1>3, <1>4, <1>5, <1>6, <1>9 DEF Back, Ready, Within, Keeps, Streams, r
<1>10. QED BY <1>1, <1>2, <1>8, <1>9 DEF Streams

LEMMA ConvertBack ==
  ASSUME NEW s, IsStream(s), NEW r, NEW n \in Nat, NEW x, Back(s, r, n, x), NEW y
  PROVE  Back(s, Convert(r, y), n, y)
<1> DEFINE c == Convert(r, y)
<1>1. PICK V : s \in Streams(V)
  BY DEF IsStream
<1>2. IsStream(r) /\ IsStream(c) /\ Keeps(r, c)
  BY Converted DEF Back, Reads
<1>3. CASE s.at + n > s.end
  <2>1. Thrown(r) /\ c = r
    BY <1>3 DEF Back, Thrown, Convert
  <2>2. QED BY <1>1, <1>3, <2>1 DEF Back, Streams
<1>4. CASE s.at + n <= s.end
  <2> DEFINE q == Append(s.got, x)
  <2>1. ~Thrown(r) /\ r.got = q /\ r.at = s.at + n /\ r.memory = s.memory
    BY <1>4 DEF Back
  <2>2. PICK W : r \in Streams(W)
    BY <1>2 DEF IsStream
  <2>3. c = [r EXCEPT !.got = [r.got EXCEPT ![Len(r.got)] = y]]
    BY <2>1, <2>2 DEF Convert, Streams
  <2>4. [q EXCEPT ![Len(q)] = y] = Append(s.got, y)
    <3>1. s.got \in Seq(V)
      BY <1>1 DEF Streams
    <3>2. q \in Seq(V \cup {x}) /\ Len(q) = Len(s.got) + 1
      BY <3>1, AppendSeq
    <3>3. Append(s.got, y) \in Seq(V \cup {y}) /\ Len(Append(s.got, y)) = Len(s.got) + 1
      BY <3>1, AppendSeq
    <3>4. Len(s.got) \in Nat /\ DOMAIN q = 1 .. Len(s.got) + 1
          /\ DOMAIN Append(s.got, y) = 1 .. Len(s.got) + 1
      BY <3>1, <3>2, <3>3
    <3>5. ASSUME NEW i \in 1 .. Len(s.got) + 1
          PROVE  [q EXCEPT ![Len(q)] = y][i] = Append(s.got, y)[i]
      <4>1. CASE i = Len(s.got) + 1
        <5>1. Append(s.got, y)[i] = y
          BY <3>1, <4>1, AppendSeq
        <5> HIDE DEF q
        <5>2. QED BY <3>2, <3>4, <4>1, <5>1
      <4>2. CASE i # Len(s.got) + 1
        <5>1. i \in 1 .. Len(s.got)
          BY <3>4, <4>2
        <5>2. q[i] = s.got[i] /\ Append(s.got, y)[i] = s.got[i]
          BY <3>1, <5>1
        <5> HIDE DEF q
        <5>3. QED BY <3>2, <3>4, <4>2, <5>2
      <4>3. QED BY <4>1, <4>2
    <3>6. Append(s.got, y) = [i \in 1 .. Len(s.got) + 1 |-> Append(s.got, y)[i]]
      BY <3>3, <3>4
    <3>7. QED BY <3>4, <3>5, <3>6
  <2> HIDE DEF q, c
  <2>5. /\ c.got = Append(s.got, y) /\ c.at = r.at /\ c.memory = r.memory
        /\ c.exception = r.exception
    BY <2>1, <2>2, <2>3, <2>4 DEF Streams
  <2>6. QED BY <1>1, <1>2, <1>4, <2>1, <2>5 DEF Back, Thrown, Keeps, Streams, c
<1>5. s.at \in Nat /\ s.end \in Nat
  BY <1>1 DEF Streams
<1>6. QED BY <1>3, <1>4, <1>5

LEMMA SimpleBack ==
  ASSUME NEW s, Within(s), NEW size \in Nat, NEW v \in 0 .. Power(size) - 1,
         Stored(s.memory, s.at, ToBytes(v, size))
  PROVE  Back(s, simpleRead(s, size), size, v)
<1> DEFINE bytes == ToBytes(v, size)
           read == take(s, size)
<1>0. v \in Int
  BY PowerNat
<1>1. bytes \in Seq(Byte) /\ Len(bytes) = size
  BY <1>0, ToBytesBytes
<1>2. Back(s, read, size, bytes)
  <2> HIDE DEF bytes
  <2>1. \A n : n = Len(bytes) => Back(s, take(s, n), n, bytes)
    BY <1>1, TakeBack DEF bytes
  <2>2. QED BY <1>1, <2>1
<1>3. FromBytes(bytes) = v
  BY NumberBack
<1>4. simpleRead(s, size) = Convert(read, FromBytes(LastRead(read)))
  BY DEF simpleRead
<1>5. PICK V : s \in Streams(V)
  BY DEF Ready, Within, IsStream
<1> HIDE DEF bytes, read
<1>6. CASE s.at + size <= s.end
  <2>1. read.got = Append(s.got, bytes)
    BY <1>2, <1>6 DEF Back
  <2>2. LastRead(read) = bytes
    <3>1. s.got \in Seq(V) /\ Len(s.got) \in Nat
      BY <1>5 DEF Streams
    <3>2. Len(Append(s.got, bytes)) = Len(s.got) + 1 /\ Append(s.got, bytes)[Len(s.got) + 1] = bytes
      BY <3>1, AppendSeq
    <3>3. QED BY <2>1, <3>2 DEF LastRead
  <2>3. simpleRead(s, size) = Convert(read, v)
    BY <1>3, <1>4, <2>2
  <2>4. QED BY <1>2, <2>3, ConvertBack DEF Ready, Within
<1>7. CASE s.at + size > s.end
  <2>1. Back(s, Convert(read, FromBytes(LastRead(read))), size, FromBytes(LastRead(read)))
    BY <1>2, ConvertBack DEF Ready, Within
  <2>2. s.at \in Nat /\ s.end \in Nat
    BY <1>5 DEF Streams
  <2>3. QED BY <1>4, <1>7, <2>1, <2>2 DEF Back
<1>8. QED BY <1>5, <1>6, <1>7 DEF Streams

(* Two memories that are the same from address b on. *)
Same(memory, other, b, n) == \A a \in Address : a \in b .. b + n - 1 => memory[a] = other[a]

(* Whoever reads the n bytes at b, whatever there is around them, gets x; to *)
(* read what ends where the stream ends it has to end there.                 *)
Held(loop, memory, b, i, type, n, x) ==
  \A w : /\ Ready(w) /\ w.at = b /\ Same(w.memory, memory, b, n)
         /\ loop = "deserialize" /\ type[i] = Rest => w.end = b + n
         => Back(w, Called(loop, w, i, type, 0), n, x)

(* A call that wrote n bytes from which x is read. *)
Leaves(s, r, loop, i, type, n, x) ==
  Frames(s, r, n) /\ Held(loop, r.memory, s.at, i, type, n, x)

LEMMA SumsGrow ==
  ASSUME NEW n \in Nat, NEW T, \A i \in 1 .. n : T[i] \in Nat, NEW g, Sums(T, n, g)
  PROVE  \A i \in 0 .. n : \A j \in 0 .. i : g[j] <= g[i]
<1> DEFINE S == {i \in 0 .. n : \A j \in 0 .. i : g[j] <= g[i]}
<1>1. g \in [0 .. n -> Nat] /\ \A i \in 1 .. n : g[i] = g[i - 1] + T[i]
  <2>1. Totals(T, n, g)
    BY SumsTotal
  <2>2. QED BY <2>1 DEF Totals
<1>2. 0 \in S
  BY <1>1
<1>3. ASSUME NEW i \in Nat, i \in S, i + 1 <= n PROVE i + 1 \in S
  <2>1. i + 1 \in 1 .. n /\ (i + 1) - 1 = i /\ i \in 0 .. n /\ i + 1 \in 0 .. n
    BY <1>3
  <2>2. g[i + 1] = g[i] + T[i + 1] /\ g[i] \in Nat /\ T[i + 1] \in Nat
    <3>1. g[i + 1] = g[(i + 1) - 1] + T[i + 1]
      BY <1>1, <2>1
    <3>2. QED BY <1>1, <2>1, <3>1
  <2>3. ASSUME NEW j \in 0 .. i + 1 PROVE g[j] <= g[i + 1]
    <3>1. j \in 0 .. n /\ (j \in 0 .. i \/ j = i + 1)
      BY <2>1
    <3>2. g[j] \in Nat
      BY <1>1, <3>1
    <3>3. j \in 0 .. i => g[j] <= g[i]
      BY <1>3
    <3>4. QED BY <2>2, <3>1, <3>2, <3>3
  <2>4. QED BY <2>1, <2>3
<1> HIDE DEF S
<1>4. \A i \in 0 .. n : i \in S
  BY <1>2, <1>3, BoundedInduction
<1>5. QED BY <1>4 DEF S

LEMMA StoredSame ==
  ASSUME NEW memory, NEW other, NEW b \in Nat, NEW bytes, NEW n \in Nat, n = Len(bytes),
         b + n <= Capacity, Stored(memory, b, bytes), NEW m \in Nat, n <= m, Same(other, memory, b, m)
  PROVE  Stored(other, b, bytes)
<1>1. ASSUME NEW i \in 1 .. n PROVE b + i - 1 \in Address /\ b + i - 1 \in b .. b + m - 1
  BY SerializationAssumption DEF Address
<1>2. QED BY <1>1 DEF Stored, Same

LEMMA SamePart ==
  ASSUME NEW memory, NEW other, NEW b \in Nat, NEW n \in Nat, Same(memory, other, b, n),
         NEW c \in Nat, NEW m \in Nat, b <= c, c + m <= b + n
  PROVE  Same(memory, other, c, m)
<1>1. \A a \in Address : a \in c .. c + m - 1 => a \in b .. b + n - 1
  BY SerializationAssumption DEF Address
<1>2. QED BY <1>1 DEF Same

LEMMA HeldMoves ==
  ASSUME NEW loop, NEW memory, NEW other, NEW b, NEW i, NEW type, NEW n, NEW x,
         Held(loop, memory, b, i, type, n, x), Same(other, memory, b, n)
  PROVE  Held(loop, other, b, i, type, n, x)
<1>1. ASSUME NEW w, Same(w.memory, other, b, n) PROVE Same(w.memory, memory, b, n)
  BY <1>1 DEF Same
<1>2. QED BY <1>1 DEF Held

(* Bytes that a call left alone are the same after it. *)
LEMMA FramedSame ==
  ASSUME NEW s, NEW r, NEW n \in Nat, Frames(s, r, n), s.at \in Nat,
         NEW b \in Nat, NEW m \in Nat, b + m <= s.at
  PROVE  Same(r.memory, s.memory, b, m)
<1>1. \A a \in Address : a \in b .. b + m - 1 => a \notin s.at .. s.at + n - 1
  BY SerializationAssumption DEF Address
<1>2. QED BY <1>1 DEF Frames, Same

LEMMA FramesOn ==
  ASSUME NEW s, NEW r, NEW t, NEW n \in Nat, NEW m \in Nat, s.at \in Nat, r.at = s.at + n,
         Frames(s, r, n), Frames(r, t, m)
  PROVE  Frames(s, t, n + m)
<1>1. ASSUME NEW a \in Address, a \notin s.at .. s.at + (n + m) - 1
      PROVE  a \notin s.at .. s.at + n - 1 /\ a \notin r.at .. r.at + m - 1
  <2>1. a \in Nat
    BY SerializationAssumption DEF Address
  <2>2. QED BY <1>1, <2>1
<1>2. QED BY <1>1 DEF Frames

(* A loop of calls leaves what each of its calls leaves, one after another. *)
LEMMA LoopLeaves ==
  ASSUME NEW loop, NEW read, NEW s, NEW type, NEW v, NEW n \in Nat, NEW after,
         Iterates(loop, s, type, v, n, after), Sound(s), s.end <= Capacity,
         NEW T, \A i \in 1 .. n : T[i] \in Nat, NEW g, Sums(T, n, g),
         \A w : \A i \in 1 .. n : Sound(w) => Writes(w, Called(loop, w, i, type, v), T[i]),
         \A w : \A i \in 1 .. n :
           Sound(w) /\ w.end <= Capacity /\ ~Thrown(Called(loop, w, i, type, v)) =>
             Leaves(w, Called(loop, w, i, type, v), read, i, type, T[i], v[i])
  PROVE  ~Thrown(after[n]) =>
           /\ Frames(s, after[n], g[n])
           /\ \A i \in 1 .. n : Held(read, after[n].memory, s.at + g[i - 1], i, type, T[i], v[i])
<1> DEFINE Left(r, i) ==
             /\ Frames(s, r, g[i])
             /\ \A j \in 1 .. i : Held(read, r.memory, s.at + g[j - 1], j, type, T[j], v[j])
           S == {i \in 0 .. n : /\ Writes(s, after[i], g[i])
                                /\ ~Thrown(after[i]) => Left(after[i], i)}
<1>0. after[0] = s /\ \A i \in 1 .. n : after[i] = Iteration(loop, after[i - 1], i, type, v)
  BY DEF Iterates
<1>s. s.at \in Nat /\ s.end \in Nat
  BY DEF Sound, IsStream, Streams
<1>t. /\ g \in [0 .. n -> Nat] /\ g[0] = 0
      /\ \A i \in 1 .. n : g[i] = g[i - 1] + T[i]
      /\ \A i \in 0 .. n : \A j \in 0 .. i : g[j] <= g[i]
  <2>1. Totals(T, n, g)
    BY SumsTotal
  <2>2. QED BY <2>1, SumsGrow DEF Totals
<1>1. 0 \in S
  <2>1. Writes(s, after[0], g[0])
    BY <1>0, <1>t, WritesNothing
  <2>2. Left(after[0], 0)
    BY <1>0 DEF Frames
  <2>3. QED BY <2>1, <2>2
<1>2. ASSUME NEW i \in Nat, i \in S, i + 1 <= n PROVE i + 1 \in S
  <2>1. i + 1 \in 1 .. n /\ (i + 1) - 1 = i /\ i \in 0 .. n
    BY <1>2
  <2> DEFINE w == after[i]
             r == after[i + 1]
             c == Called(loop, w, i + 1, type, v)
  <2>2. r = Iteration(loop, w, i + 1, type, v)
    <3>1. r = Iteration(loop, after[(i + 1) - 1], i + 1, type, v)
      BY <1>0, <2>1
    <3>2. QED BY <2>1, <3>1
  <2>3. g[i + 1] = g[i] + T[i + 1] /\ g[i] \in Nat /\ T[i + 1] \in Nat
    <3>1. g[i + 1] = g[(i + 1) - 1] + T[i + 1] /\ g[i] \in Nat /\ T[i + 1] \in Nat
      BY <1>t, <2>1
    <3>2. QED BY <2>1, <3>1
  <2>4. /\ Writes(s, w, g[i]) /\ Sound(w) /\ w.end = s.end
        /\ ~Thrown(w) => w.at = s.at + g[i] /\ Left(w, i)
    BY <1>2 DEF Writes
  <2>5. Writes(w, r, T[i + 1])
    <3>1. Writes(w, c, T[i + 1])
      BY <2>1, <2>4
    <3>2. CASE ~Thrown(w)
      BY <2>2, <3>1, <3>2 DEF Iteration
    <3>3. CASE Thrown(w)
      BY <2>2, <3>3 DEF Iteration, Writes
    <3>4. QED BY <3>2, <3>3
  <2>6. Writes(s, r, g[i + 1])
    BY <2>3, <2>4, <2>5, WritesOn
  <2>7. ASSUME ~Thrown(r) PROVE Left(r, i + 1)
    <3>1. ~Thrown(w) /\ r = c
      BY <2>2, <2>7 DEF Iteration
    <3>2. Leaves(w, r, read, i + 1, type, T[i + 1], v[i + 1])
      BY <2>1, <2>4, <2>7, <3>1
    <3>3. w.at = s.at + g[i] /\ Left(w, i)
      BY <2>4, <3>1
    <3> HIDE DEF w, r, c
    <3>4. Frames(s, r, g[i + 1])
      BY <1>s, <2>3, <3>2, <3>3, FramesOn DEF Leaves
    <3>5. ASSUME NEW j \in 1 .. i + 1
          PROVE  Held(read, r.memory, s.at + g[j - 1], j, type, T[j], v[j])
      <4>1. CASE j = i + 1
        BY <2>1, <3>2, <3>3, <4>1 DEF Leaves
      <4>2. CASE j # i + 1
        <5>1. j \in 1 .. i /\ j \in 1 .. n /\ j - 1 \in 0 .. n /\ j \in 0 .. i
          BY <1>2, <4>2
        <5>2. Held(read, w.memory, s.at + g[j - 1], j, type, T[j], v[j])
          BY <3>3, <5>1
        <5>3. g[j] = g[j - 1] + T[j] /\ g[j - 1] \in Nat /\ T[j] \in Nat /\ g[j] <= g[i]
          BY <1>t, <2>1, <5>1
        <5>4. /\ s.at + g[j - 1] \in Nat /\ w.at \in Nat
              /\ (s.at + g[j - 1]) + T[j] <= w.at
          BY <1>s, <2>3, <3>3, <5>3
        <5>5. Same(r.memory, w.memory, s.at + g[j - 1], T[j])
          BY <2>3, <3>2, <5>3, <5>4, FramedSame DEF Leaves
        <5>6. QED BY <5>2, <5>5, HeldMoves
      <4>3. QED BY <4>1, <4>2
    <3>6. QED BY <3>4, <3>5
  <2>8. QED BY <2>1, <2>6, <2>7
<1> HIDE DEF S
<1>3. \A i \in 0 .. n : i \in S
  BY <1>1, <1>2, BoundedInduction
<1>4. n \in S
  BY <1>3
<1>5. QED BY <1>4 DEF S

(* A stream that had read nothing has read x from n bytes, or found that     *)
(* they are not all there.                                                   *)
Filled(s, r, n, x) ==
  /\ IsStream(r) /\ r.end = s.end /\ r.full = s.full
  /\ s.at + n <= s.end =>
       ~Thrown(r) /\ r.at = s.at + n /\ r.memory = s.memory /\ r.got = x
  /\ s.at + n > s.end => r.exception = "StreamOverrun"

Firsts(v, n) == [i \in 1 .. n |-> v[i]]

LEMMA FirstsNext ==
  ASSUME NEW v, NEW n \in Nat
  PROVE  Firsts(v, 0) = <<>> /\ Append(Firsts(v, n), v[n + 1]) = Firsts(v, n + 1)
<1>1. Firsts(v, 0) = <<>>
  BY DEF Firsts
<1> DEFINE V == {v[i] : i \in 1 .. n}
           q == Firsts(v, n)
           r == Append(q, v[n + 1])
<1>2. q \in Seq(V) /\ Len(q) = n /\ \A i \in 1 .. n : q[i] = v[i]
  BY DEF Firsts
<1> HIDE DEF q, V
<1>3. DOMAIN r = 1 .. n + 1 /\ r = [i \in 1 .. n + 1 |-> r[i]]
  BY <1>2
<1>4. ASSUME NEW i \in 1 .. n + 1 PROVE r[i] = v[i]
  <2>1. CASE i = n + 1
    BY <1>2, <2>1
  <2>2. CASE i # n + 1
    <3>1. i \in 1 .. n
      BY <2>2
    <3>2. QED BY <1>2, <3>1
  <2>3. QED BY <2>1, <2>2
<1> HIDE DEF r
<1>5. r = Firsts(v, n + 1)
  BY <1>3, <1>4 DEF Firsts
<1>6. QED BY <1>1, <1>5 DEF r, q

(* A loop of calls reads what is held for each of them. *)
LEMMA LoopBack ==
  ASSUME NEW loop, NEW s, Ready(s), s.got = <<>>, NEW type, NEW v, NEW n \in Nat,
         NEW after, Iterates(loop, s, type, 0, n, after),
         NEW T, \A i \in 1 .. n : T[i] \in Nat, NEW g, Sums(T, n, g),
         \A i \in 1 .. n : Held(loop, s.memory, s.at + g[i - 1], i, type, T[i], v[i]),
         \A i \in 1 .. n : loop = "deserialize" /\ type[i] = Rest => s.end = s.at + g[i]
  PROVE  Filled(s, after[n], g[n], Firsts(v, n))
<1> DEFINE S == {i \in 0 .. n : Filled(s, after[i], g[i], Firsts(v, i))}
<1>0. after[0] = s /\ \A i \in 1 .. n : after[i] = Iteration(loop, after[i - 1], i, type, 0)
  BY DEF Iterates
<1>s. s.at \in Nat /\ s.end \in Nat
  BY DEF Ready, Within, IsStream, Streams
<1>t. /\ g \in [0 .. n -> Nat] /\ g[0] = 0
      /\ \A i \in 1 .. n : g[i] = g[i - 1] + T[i]
  <2>1. Totals(T, n, g)
    BY SumsTotal
  <2>2. QED BY <2>1 DEF Totals
<1>1. 0 \in S
  BY <1>0, <1>s, <1>t, FirstsNext DEF Filled, Ready, Within
<1>2. ASSUME NEW i \in Nat, i \in S, i + 1 <= n PROVE i + 1 \in S
  <2>1. i + 1 \in 1 .. n /\ (i + 1) - 1 = i /\ i \in 0 .. n
    BY <1>2
  <2> DEFINE w == after[i]
             r == after[i + 1]
             c == Called(loop, w, i + 1, type, 0)
  <2>2. r = Iteration(loop, w, i + 1, type, 0)
    <3>1. r = Iteration(loop, after[(i + 1) - 1], i + 1, type, 0)
      BY <1>0, <2>1
    <3>2. QED BY <2>1, <3>1
  <2>3. g[i + 1] = g[i] + T[i + 1] /\ g[i] \in Nat /\ T[i + 1] \in Nat
    <3>1. g[i + 1] = g[(i + 1) - 1] + T[i + 1] /\ g[i] \in Nat /\ T[i + 1] \in Nat
      BY <1>t, <2>1
    <3>2. QED BY <2>1, <3>1
  <2>4. Filled(s, w, g[i], Firsts(v, i))
    BY <1>2
  <2>5. Held(loop, s.memory, s.at + g[i], i + 1, type, T[i + 1], v[i + 1])
    <3>1. Held(loop, s.memory, s.at + g[(i + 1) - 1], i + 1, type, T[i + 1], v[i + 1])
      BY <2>1
    <3>2. QED BY <2>1, <3>1
  <2>6. loop = "deserialize" /\ type[i + 1] = Rest => s.end = s.at + g[i + 1]
    BY <2>1
  <2> HIDE DEF w, r, c
  <2>7. CASE s.at + g[i] > s.end
    <3>1. w.exception = "StreamOverrun" /\ r = w
      BY <2>2, <2>4, <2>7 DEF Filled, Iteration, Thrown
    <3>2. s.at + g[i + 1] > s.end
      BY <1>s, <2>3, <2>7
    <3>3. Filled(s, r, g[i + 1], Firsts(v, i + 1))
      BY <1>s, <2>3, <2>4, <3>1, <3>2 DEF Filled
    <3>4. QED BY <2>1, <3>3 DEF r
  <2>8. CASE s.at + g[i] <= s.end
    <3>1. /\ IsStream(w) /\ w.end = s.end /\ w.full = s.full /\ ~Thrown(w)
          /\ w.at = s.at + g[i] /\ w.memory = s.memory /\ w.got = Firsts(v, i)
      BY <2>4, <2>8 DEF Filled
    <3>2. r = c
      BY <2>2, <3>1 DEF Iteration, c
    <3>3. Ready(w)
      BY <2>8, <3>1 DEF Ready, Within
    <3>4. loop = "deserialize" /\ type[i + 1] = Rest => w.end = (s.at + g[i]) + T[i + 1]
      BY <1>s, <2>3, <2>6, <3>1
    <3>5. Back(w, c, T[i + 1], v[i + 1])
      BY <2>5, <3>1, <3>3, <3>4 DEF Held, Same, c
    <3>6. Append(Firsts(v, i), v[i + 1]) = Firsts(v, i + 1)
      BY FirstsNext
    <3>7. w.at + T[i + 1] = s.at + g[i + 1]
      BY <1>s, <2>3, <3>1
    <3>8. Filled(s, r, g[i + 1], Firsts(v, i + 1))
      BY <3>1, <3>2, <3>5, <3>6, <3>7 DEF Filled, Back
    <3>9. QED BY <2>1, <3>8 DEF r
  <2>9. QED BY <1>s, <2>3, <2>7, <2>8
<1> HIDE DEF S
<1>3. \A i \in 0 .. n : i \in S
  BY <1>1, <1>2, BoundedInduction
<1>4. n \in S
  BY <1>3
<1>5. QED BY <1>4 DEF S

(* What a loop reads into a value of its own. *)
LEMMA CollectedBack ==
  ASSUME NEW s, Within(s), NEW r, NEW n \in Nat, NEW x, Filled([s EXCEPT !.got = <<>>], r, n, x)
  PROVE  Back(s, [r EXCEPT !.got = Append(s.got, r.got)], n, x)
<1> DEFINE t == [s EXCEPT !.got = <<>>]
           q == Append(s.got, r.got)
           c == [r EXCEPT !.got = q]
<1>1. PICK V : s \in Streams(V)
  BY DEF Ready, Within, IsStream
<1>2. /\ t.at = s.at /\ t.end = s.end /\ t.full = s.full /\ t.memory = s.memory
      /\ s.at \in Nat /\ s.end \in Nat
  BY <1>1 DEF Streams
<1> HIDE DEF t
<1>3. Filled(t, r, n, x)
  BY DEF t
<1>4. IsStream(r)
  BY <1>3 DEF Filled
<1>5. q \in Seq(V \cup {r.got})
  <2>1. s.got \in Seq(V)
    BY <1>1 DEF Streams
  <2>2. QED BY <2>1, AppendSeq
<1> HIDE DEF q
<1>6. PICK W : r \in Streams(W)
  BY <1>4 DEF IsStream
<1>7. IsStream(c) /\ c.got = q /\ c.at = r.at /\ (Thrown(c) <=> Thrown(r))
  BY <1>4, <1>5, SetGot
<1>8. c.end = r.end /\ c.full = r.full /\ c.memory = r.memory /\ c.exception = r.exception
  BY <1>6 DEF Streams
<1> HIDE DEF c
<1>9. Back(s, c, n, x)
  <2>1. s.at + n <= s.end => q = Append(s.got, x)
    BY <1>2, <1>3 DEF Filled, q
  <2>2. QED BY <1>2, <1>3, <1>7, <1>8, <2>1 DEF Filled, Back
<1>10. QED BY <1>9 DEF c, q

LEMMA EmptyWithin ==
  ASSUME NEW s, Within(s)
  PROVE  /\ Within([s EXCEPT !.got = <<>>]) /\ [s EXCEPT !.got = <<>>].got = <<>>
         /\ [s EXCEPT !.got = <<>>].memory = s.memory /\ [s EXCEPT !.got = <<>>].at = s.at
         /\ [s EXCEPT !.got = <<>>].end = s.end
         /\ [s EXCEPT !.got = <<>>].full = s.full
<1>1. <<>> \in Seq({})
  OBVIOUS
<1>2. PICK V : s \in Streams(V)
  BY DEF Ready, Within, IsStream
<1>3. /\ IsStream([s EXCEPT !.got = <<>>])
      /\ Thrown([s EXCEPT !.got = <<>>]) <=> Thrown(s)
  BY <1>1, SetGot DEF Ready, Within
<1>4. QED BY <1>2, <1>3 DEF Ready, Within, Streams

(* What is the same in all is the same in each of its parts. *)
LEMMA SumsSame ==
  ASSUME NEW n \in Nat, NEW T, \A i \in 1 .. n : T[i] \in Nat, NEW g, Sums(T, n, g),
         NEW b \in Nat, NEW memory, NEW other, Same(memory, other, b, g[n]), NEW i \in 1 .. n
  PROVE  Same(memory, other, b + g[i - 1], T[i])
<1>1. /\ g[n] \in Nat /\ g[i - 1] \in Nat /\ T[i] \in Nat
      /\ g[i] = g[i - 1] + T[i] /\ g[i] <= g[n]
  <2>1. n \in 0 .. n /\ i - 1 \in 0 .. n
    OBVIOUS
  <2>2. g \in [0 .. n -> Nat] /\ \A j \in 1 .. n : g[j] = g[j - 1] + T[j] /\ g[j] <= g[n]
    <3>1. Totals(T, n, g)
      BY SumsTotal
    <3>2. QED BY <3>1 DEF Totals
  <2>3. QED BY <2>1, <2>2
<1>2. b + g[i - 1] \in Nat /\ b <= b + g[i - 1] /\ (b + g[i - 1]) + T[i] <= b + g[n]
  BY <1>1
<1>3. QED BY <1>1, <1>2, SamePart

-----------------------------------------------------------------------------
(* What each kind of element leaves, and how it is read back. *)

LEMMA SimpleLeaves ==
  ASSUME NEW s, Sound(s), s.end <= Capacity, NEW size \in Nat, NEW v \in 0 .. Power(size) - 1,
         NEW r, r = simpleWrite(s, size, v), ~Thrown(r)
  PROVE  /\ Frames(s, r, size) /\ Stored(r.memory, s.at, ToBytes(v, size))
         /\ s.at + size <= Capacity
         /\ \A w : Ready(w) /\ w.at = s.at /\ Same(w.memory, r.memory, s.at, size) =>
              Back(w, simpleRead(w, size), size, v)
<1> DEFINE bytes == ToBytes(v, size)
<1>1. v \in Int
  BY PowerNat
<1>2. bytes \in Seq(Byte) /\ Len(bytes) = size
  BY <1>1, ToBytesBytes
<1>3. Stored(r.memory, s.at, bytes) /\ Frames(s, r, size)
  <2>1. r = put(s, size, bytes)
    BY DEF simpleWrite
  <2> HIDE DEF bytes
  <2>2. \A n : n = Len(bytes) /\ ~Thrown(put(s, n, bytes)) =>
          Stored(put(s, n, bytes).memory, s.at, bytes) /\ Frames(s, put(s, n, bytes), n)
    BY <1>2, PutStores
  <2>3. QED BY <1>2, <2>1, <2>2
<1>4. s.at \in Nat /\ s.end \in Nat /\ s.at + size <= Capacity
  <2>1. Writes(s, r, size)
    BY <1>1, SimpleWrites DEF Sound
  <2>2. s.at + size <= s.end /\ s.at \in Nat /\ s.end \in Nat
    BY <2>1 DEF Writes, Sound, IsStream, Streams
  <2>3. QED BY <2>2, SerializationAssumption
<1>5. ASSUME NEW w, Ready(w), w.at = s.at, Same(w.memory, r.memory, s.at, size)
      PROVE  Back(w, simpleRead(w, size), size, v)
  <2> HIDE DEF bytes
  <2>1. \A n \in Nat : n = Len(bytes) /\ s.at + n <= Capacity /\ Same(w.memory, r.memory, s.at, n)
          => Stored(w.memory, s.at, bytes)
    BY <1>3, <1>4, StoredSame
  <2>2. Stored(w.memory, w.at, bytes)
    BY <1>2, <1>4, <1>5, <2>1
  <2>3. QED BY <1>5, <2>2, SimpleBack DEF bytes, Ready
<1>6. QED BY <1>3, <1>4, <1>5 DEF bytes

LEMMA BoolLeaves ==
  ASSUME NEW s, Sound(s), s.end <= Capacity, NEW v \in BOOLEAN,
         NEW r, r = boolWrite(s, v), ~Thrown(r)
  PROVE  /\ Frames(s, r, 1)
         /\ \A w : Ready(w) /\ w.at = s.at /\ Same(w.memory, r.memory, s.at, 1) =>
              Back(w, boolRead(w), 1, v)
<1> DEFINE n == IF v THEN 1 ELSE 0
           bytes == ToBytes(n, 1)
<1>1. n \in Int /\ n \in 0 .. Power(1) - 1
  <2>1. Power(0 + 1) = ByteModulus * Power(0) /\ Power(0) = 1
    BY PowerNext
  <2>2. Power(1) \in Nat /\ Power(1) >= 2
    BY <2>1, SerializationAssumption
  <2>3. QED BY <2>2
<1>2. bytes \in Seq(Byte) /\ Len(bytes) = 1
  <2> HIDE DEF n
  <2>1. QED BY <1>1, ToBytesBytes
<1>3. bytes = <<0>> <=> ~v
  <2>1. Power(0) = 1
    BY PowerNext
  <2>2. bytes = [i \in 1 .. 1 |-> (n \div Power(i - 1)) % ByteModulus]
    BY DEF ToBytes
  <2> HIDE DEF bytes
  <2>3. bytes[1] = (n \div Power(0)) % ByteModulus
    BY <2>2
  <2>4. n \div 1 = n /\ n % ByteModulus = n
    BY SerializationAssumption
  <2>5. bytes[1] = n
    BY <2>1, <2>3, <2>4
  <2>6. bytes = <<0>> <=> bytes[1] = 0
    BY <1>2
  <2>7. QED BY <2>5, <2>6
<1> HIDE DEF n, bytes
<1>4. r = put(s, 1, bytes) /\ r = simpleWrite(s, 1, n)
  BY DEF boolWrite, simpleWrite, n, bytes
<1>5. /\ Frames(s, r, 1) /\ Stored(r.memory, s.at, bytes)
      /\ s.at + 1 <= Capacity
  BY <1>1, <1>4, SimpleLeaves DEF bytes
<1>6. ASSUME NEW w, Ready(w), w.at = s.at, Same(w.memory, r.memory, s.at, 1)
      PROVE  Back(w, boolRead(w), 1, v)
  <2> DEFINE read == take(w, 1)
  <2>0. s.at \in Nat
    BY DEF Sound, IsStream, Streams
  <2>1. Stored(w.memory, w.at, bytes)
    <3>1. \A m \in Nat : m = Len(bytes) /\ s.at + m <= Capacity /\ Same(w.memory, r.memory, s.at, m)
            => Stored(w.memory, s.at, bytes)
      BY <1>5, <2>0, StoredSame
    <3>2. QED BY <1>2, <1>5, <1>6, <3>1
  <2>2. Back(w, read, 1, bytes)
    BY <1>2, <1>6, <2>1, TakeBack DEF Ready
  <2>3. boolRead(w) = Convert(read, LastRead(read) # <<0>>)
    BY DEF boolRead
  <2>4. PICK V : w \in Streams(V)
    BY <1>6 DEF Ready, Within, IsStream
  <2> HIDE DEF read
  <2>5. CASE w.at + 1 <= w.end
    <3>1. read.got = Append(w.got, bytes)
      BY <2>2, <2>5 DEF Back
    <3>2. LastRead(read) = bytes
      BY <2>4, <3>1, AppendSeq DEF LastRead, Streams
    <3>3. (LastRead(read) # <<0>>) = v
      BY <1>3, <3>2
    <3>4. boolRead(w) = Convert(read, v)
      BY <2>3, <3>3
    <3>5. QED BY <1>6, <2>2, <3>4, ConvertBack DEF Ready, Within
  <2>6. CASE w.at + 1 > w.end
    <3>1. Back(w, boolRead(w), 1, LastRead(read) # <<0>>)
      BY <1>6, <2>2, <2>3, ConvertBack DEF Ready, Within
    <3>2. QED BY <2>4, <2>6, <3>1 DEF Back, Streams
  <2>7. QED BY <2>4, <2>5, <2>6 DEF Streams
<1>7. QED BY <1>5, <1>6

LEMMA FixedLeaves ==
  ASSUME NEW s, Sound(s), s.end <= Capacity, NEW size \in Nat, NEW v \in [1 .. size -> Byte],
         NEW r, r = fixedWrite(s, size, v), ~Thrown(r)
  PROVE  /\ Frames(s, r, size)
         /\ \A w : Ready(w) /\ w.at = s.at /\ Same(w.memory, r.memory, s.at, size) =>
              Back(w, fixedRead(w, size), size, v)
<1> DEFINE T == [i \in 1 .. size |-> 1]
<1>1. PICK after : /\ Iterates("fixedWrite", s, 0, v, size, after)
                   /\ r = after[size]
  BY FixedWriteLoop
<1>2. \A i \in 1 .. size : v[i] \in Int /\ v[i] \in 0 .. Power(1) - 1
  <2>1. Power(0 + 1) = ByteModulus * Power(0) /\ Power(0) = 1 /\ 0 + 1 = 1
    BY PowerNext
  <2>2. Power(1) = ByteModulus /\ ByteModulus \in Nat
    BY <2>1, SerializationAssumption
  <2>3. \A b \in Byte : b \in Int /\ b \in 0 .. Power(1) - 1
    BY <2>2 DEF Byte
  <2>4. QED BY <2>3
<1>3. \A i \in 1 .. size : T[i] = 1
  OBVIOUS
<1> HIDE DEF T
<1>4. \A w : \A i \in 1 .. size : Sound(w) => Writes(w, Called("fixedWrite", w, i, 0, v), T[i])
  BY <1>2, <1>3, SimpleWrites DEF Called, Sound
<1>5. \A w : \A i \in 1 .. size :
        Sound(w) /\ w.end <= Capacity /\ ~Thrown(Called("fixedWrite", w, i, 0, v)) =>
          Leaves(w, Called("fixedWrite", w, i, 0, v), "fixedRead", i, 0, T[i], v[i])
  <2> SUFFICES ASSUME NEW w, NEW i \in 1 .. size, Sound(w), w.end <= Capacity,
                      ~Thrown(simpleWrite(w, 1, v[i]))
               PROVE  Leaves(w, simpleWrite(w, 1, v[i]), "fixedRead", i, 0, 1, v[i])
    BY <1>3 DEF Called
  <2>1. /\ Frames(w, simpleWrite(w, 1, v[i]), 1)
        /\ \A u : Ready(u) /\ u.at = w.at /\ Same(u.memory, simpleWrite(w, 1, v[i]).memory, w.at, 1) =>
              Back(u, simpleRead(u, 1), 1, v[i])
    <3>1. v[i] \in 0 .. Power(1) - 1
      BY <1>2
    <3>2. QED BY <3>1, SimpleLeaves
  <2>2. \A u : Called("fixedRead", u, i, 0, 0) = simpleRead(u, 1)
    BY DEF Called
  <2>3. QED BY <2>1, <2>2 DEF Leaves, Held
<1>8. \A i \in 1 .. size : T[i] \in Nat
  BY <1>3
<1>6. PICK g : Sums(T, size, g)
  BY <1>8, Total
<1>7. g[size] = size
  <2>1. g[size] = size * 1
    BY <1>3, <1>6, TotalEqual
  <2>2. QED BY <2>1
<1>9. /\ Frames(s, r, g[size])
      /\ \A i \in 1 .. size : Held("fixedRead", r.memory, s.at + g[i - 1], i, 0, T[i], v[i])
  <2>1. ~Thrown(after[size])
    BY <1>1
  <2>2. /\ Frames(s, after[size], g[size])
        /\ \A i \in 1 .. size : Held("fixedRead", after[size].memory, s.at + g[i - 1], i, 0, T[i], v[i])
    BY <1>1, <1>4, <1>5, <1>6, <1>8, <2>1, LoopLeaves
  <2>3. QED BY <1>1, <2>2
<1>10. ASSUME NEW w, Ready(w), w.at = s.at, Same(w.memory, r.memory, s.at, size)
       PROVE  Back(w, fixedRead(w, size), size, v)
  <2> DEFINE t == [w EXCEPT !.got = <<>>]
  <2>1. PICK read : /\ Iterates("fixedRead", t, 0, 0, size, read)
                    /\ fixedRead(w, size) = [read[size] EXCEPT !.got = Append(w.got, read[size].got)]
    BY FixedReadLoop
  <2>2. Ready(t) /\ t.got = <<>> /\ t.memory = w.memory /\ t.at = s.at
    BY <1>10, EmptyWithin DEF Ready
  <2>3. \A i \in 1 .. size : Held("fixedRead", t.memory, t.at + g[i - 1], i, 0, T[i], v[i])
    <3> SUFFICES ASSUME NEW i \in 1 .. size
                 PROVE  Held("fixedRead", t.memory, s.at + g[i - 1], i, 0, T[i], v[i])
      BY <2>2
    <3>1. Same(t.memory, r.memory, s.at + g[i - 1], T[i])
      BY <1>6, <1>7, <1>8, <1>10, <2>2, SumsSame DEF Sound, IsStream, Streams
    <3>2. QED BY <1>9, <3>1, HeldMoves
  <2> HIDE DEF t
  <2>4. Filled(t, read[size], size, Firsts(v, size))
    BY <1>6, <1>7, <1>8, <2>1, <2>2, <2>3, LoopBack
  <2>5. Firsts(v, size) = v
    BY DEF Firsts
  <2> DEFINE f == read[size]
  <2>6. Filled([w EXCEPT !.got = <<>>], f, size, v)
    BY <2>4, <2>5 DEF t
  <2>7. fixedRead(w, size) = [f EXCEPT !.got = Append(w.got, f.got)]
    BY <2>1
  <2> HIDE DEF f
  <2>8. Back(w, [f EXCEPT !.got = Append(w.got, f.got)], size, v)
    BY <1>10, <2>6, CollectedBack DEF Ready
  <2>9. QED BY <2>7, <2>8
<1>11. QED BY <1>7, <1>9, <1>10

(* Reading a length and taking it off again: what is left is the stream that *)
(* has moved on.                                                             *)
MovedOn(s, f, n) ==
  /\ Within(f) /\ f.at = s.at + n /\ f.end = s.end /\ f.full = s.full
  /\ f.memory = s.memory /\ f.got = s.got

LEMMA PrefixBack ==
  ASSUME NEW s, Within(s), NEW len \in 0 .. UintModulus - 1,
         Stored(s.memory, s.at, ToBytes(len, LengthSize)),
         NEW p, p = simpleRead(s, LengthSize)
  PROVE  /\ s.at + LengthSize > s.end => Thrown(p) /\ \A x : \A n \in Nat : Back(s, p, LengthSize + n, x)
         /\ s.at + LengthSize <= s.end =>
              ~Thrown(p) /\ LastRead(p) = len /\ MovedOn(s, Forget(p), LengthSize)
<1>1. Back(s, p, LengthSize, len)
  <2>1. len \in 0 .. Power(LengthSize) - 1
    BY DEF UintModulus
  <2>2. QED BY <2>1, UintNat, SimpleBack
<1>2. PICK V : s \in Streams(V)
  BY DEF Ready, Within, IsStream
<1>3. s.at \in Nat /\ s.end \in Nat /\ s.got \in Seq(V) /\ LengthSize \in Nat
  BY <1>2, UintNat DEF Streams
<1>4. CASE s.at + LengthSize > s.end
  <2>1. p.exception = "StreamOverrun" /\ Thrown(p)
    BY <1>1, <1>4 DEF Back, Thrown
  <2>2. ASSUME NEW x, NEW n \in Nat PROVE Back(s, p, LengthSize + n, x)
    <3>1. s.at + (LengthSize + n) > s.end
      BY <1>3, <1>4
    <3>2. QED BY <1>1, <1>3, <2>1, <3>1 DEF Back
  <2>3. QED BY <1>3, <1>4, <2>1, <2>2
<1>5. CASE s.at + LengthSize <= s.end
  <2>1. /\ IsStream(p) /\ ~Thrown(p) /\ p.at = s.at + LengthSize /\ p.memory = s.memory
        /\ p.got = Append(s.got, len) /\ p.end = s.end /\ p.full = s.full
    BY <1>1, <1>5 DEF Back
  <2>2. LastRead(p) = len
    BY <1>3, <2>1, AppendSeq DEF LastRead
  <2>3. SubSeq(p.got, 1, Len(p.got) - 1) = s.got
    <3>1. p.got \in Seq(V \cup {len}) /\ Len(p.got) = Len(s.got) + 1
      BY <1>3, <2>1, AppendSeq
    <3>2. Len(s.got) \in Nat /\ Len(p.got) - 1 = Len(s.got)
      BY <1>3, <3>1
    <3>3. \A i \in 1 .. Len(s.got) : p.got[i] = s.got[i]
      BY <1>3, <2>1
    <3>4. SubSeq(p.got, 1, Len(s.got)) = [i \in 1 .. Len(s.got) |-> p.got[i]]
      BY <3>1, <3>2
    <3>5. s.got = [i \in 1 .. Len(s.got) |-> s.got[i]]
      BY <1>3
    <3>6. QED BY <3>2, <3>3, <3>4, <3>5
  <2>4. Forget(p) = [p EXCEPT !.got = s.got]
    <3>1. PICK W : p \in Streams(W)
      BY <2>1 DEF IsStream
    <3>2. QED BY <2>3, <3>1 DEF Forget, Streams
  <2>5. /\ IsStream([p EXCEPT !.got = s.got])
        /\ Thrown([p EXCEPT !.got = s.got]) <=> Thrown(p)
    BY <1>3, <2>1, SetGot
  <2>6. /\ Forget(p).at = p.at /\ Forget(p).end = p.end /\ Forget(p).full = p.full
        /\ Forget(p).memory = p.memory /\ Forget(p).got = s.got
    <3>1. PICK W : p \in Streams(W)
      BY <2>1 DEF IsStream
    <3>2. QED BY <2>4, <3>1 DEF Streams
  <2>7. MovedOn(s, Forget(p), LengthSize)
    BY <1>5, <2>1, <2>4, <2>5, <2>6 DEF MovedOn, Ready, Within
  <2>8. QED BY <1>3, <1>5, <2>1, <2>2, <2>7
<1>6. QED BY <1>3, <1>4, <1>5

(* What is read from the stream that has moved on. *)
LEMMA BackOn ==
  ASSUME NEW s, Within(s), NEW n \in Nat, NEW m \in Nat, NEW f, MovedOn(s, f, n), NEW r, NEW x,
         Back(f, r, m, x)
  PROVE  Back(s, r, n + m, x)
<1>1. s.at \in Nat /\ s.end \in Nat
  BY DEF Ready, Within, IsStream, Streams
<1>2. f.at + m = s.at + (n + m)
  BY <1>1 DEF MovedOn
<1>3. QED BY <1>2 DEF Back, MovedOn

LEMMA NotFull == ASSUME NEW s, ~s.full, NEW n PROVE reserve(s, n) = s
  BY DEF reserve

(* What is written after a length. *)
LEMMA PrefixLeaves ==
  ASSUME NEW s, Sound(s), s.end <= Capacity, NEW len \in 0 .. UintModulus - 1,
         NEW p, p = simpleWrite(s, LengthSize, len),
         NEW r, NEW n \in Nat, Writes(p, r, n), ~Thrown(r), Frames(p, r, n)
  PROVE  /\ Frames(s, r, LengthSize + n)
         /\ Sound(p) /\ ~Thrown(p) /\ p.end = s.end /\ p.at = s.at + LengthSize
         /\ s.at \in Nat /\ s.at + (LengthSize + n) <= Capacity
         /\ Stored(r.memory, s.at, ToBytes(len, LengthSize))
<1>0. len \in Int /\ LengthSize \in Nat /\ Capacity \in Nat
  BY UintNat, SerializationAssumption
<1>1. Writes(s, p, LengthSize)
  BY <1>0, SimpleWrites DEF Sound
<1>2. Sound(p) /\ ~Thrown(p) /\ p.end = s.end /\ p.at = s.at + LengthSize
  BY <1>1 DEF Writes
<1>3. s.at \in Nat /\ s.end \in Nat /\ s.at + (LengthSize + n) <= Capacity
  <2>1. s.at \in Nat /\ s.end \in Nat
    BY DEF Sound, IsStream, Streams
  <2>2. r.at <= r.end /\ r.at = p.at + n /\ r.end = p.end
    BY <1>2 DEF Writes, Sound
  <2>3. QED BY <1>0, <1>2, <2>1, <2>2
<1>4. Frames(s, p, LengthSize) /\ Stored(p.memory, s.at, ToBytes(len, LengthSize))
  <2>1. len \in 0 .. Power(LengthSize) - 1
    BY DEF UintModulus
  <2>2. QED BY <1>0, <1>2, <2>1, SimpleLeaves
<1>5. Frames(s, r, LengthSize + n)
  BY <1>0, <1>2, <1>3, <1>4, FramesOn
<1>6. Stored(r.memory, s.at, ToBytes(len, LengthSize))
  <2>1. Same(r.memory, p.memory, s.at, LengthSize)
    BY <1>0, <1>2, <1>3, FramedSame
  <2>2. Len(ToBytes(len, LengthSize)) = LengthSize
    BY <1>0, ToBytesBytes
  <2>3. s.at + LengthSize <= Capacity
    BY <1>0, <1>3
  <2>4. QED BY <1>0, <1>3, <1>4, <2>1, <2>2, <2>3, StoredSame
<1>7. QED BY <1>2, <1>3, <1>5, <1>6

(* A length and what comes after it, in a memory with the same bytes. *)
LEMMA PrefixStays ==
  ASSUME NEW memory, NEW other, NEW b \in Nat, NEW len \in Nat, NEW n \in Nat,
         b + (LengthSize + n) <= Capacity, Stored(memory, b, ToBytes(len, LengthSize)),
         Same(other, memory, b, LengthSize + n)
  PROVE  Stored(other, b, ToBytes(len, LengthSize))
<1>1. LengthSize \in Nat /\ Capacity \in Nat /\ len \in Int
  BY UintNat, SerializationAssumption
<1>2. Len(ToBytes(len, LengthSize)) = LengthSize
  BY <1>1, ToBytesBytes
<1> DEFINE k == LengthSize
           m == LengthSize + n
           bytes == ToBytes(len, LengthSize)
<1>3. k \in Nat /\ m \in Nat /\ k <= m /\ b + k <= Capacity
  BY <1>1
<1>4. k = Len(bytes) /\ Stored(memory, b, bytes) /\ Same(other, memory, b, m)
  BY <1>2
<1> HIDE DEF k, m, bytes
<1>5. Stored(other, b, bytes)
  BY <1>3, <1>4, StoredSame
<1>6. QED BY <1>5 DEF bytes

LEMMA BodyStays ==
  ASSUME NEW memory, NEW other, NEW b \in Nat, NEW bytes \in Seq(Byte), NEW n \in Nat, n = Len(bytes),
         b + (LengthSize + n) <= Capacity, Stored(memory, b + LengthSize, bytes),
         Same(other, memory, b, LengthSize + n)
  PROVE  Stored(other, b + LengthSize, bytes)
<1>1. LengthSize \in Nat /\ Capacity \in Nat
  BY UintNat, SerializationAssumption
<1> DEFINE c == b + LengthSize
<1>2. c \in Nat /\ b <= c /\ c + n <= b + (LengthSize + n) /\ LengthSize + n \in Nat /\ c + n <= Capacity
  BY <1>1
<1> HIDE DEF c
<1>3. Same(other, memory, c, n)
  BY <1>2, SamePart
<1>4. Stored(memory, c, bytes)
  BY DEF c
<1>5. Stored(other, c, bytes)
  <2>1. \A m \in Nat : n <= m /\ Same(other, memory, c, m) => Stored(other, c, bytes)
    BY <1>2, <1>4, StoredSame
  <2>2. QED BY <1>3, <2>1
<1>6. QED BY <1>5 DEF c

(* Bytes that are copied in one piece, if there are any. *)
LEMMA BodyLeaves ==
  ASSUME NEW s, Sound(s), s.end <= Capacity, NEW source \in Seq(Byte), NEW n, n = Len(source),
         NEW r, r = put(s, n, source) \/ (n = 0 /\ r = s), ~Thrown(r)
  PROVE  Writes(s, r, n) /\ Frames(s, r, n) /\ Stored(r.memory, s.at, source)
<1>1. n \in Nat
  OBVIOUS
<1>2. CASE n = 0 /\ r = s
  BY <1>2, WritesNothing DEF Frames, Stored
<1>3. CASE r = put(s, n, source)
  BY <1>1, <1>3, Puts, PutStores DEF Sound
<1>4. QED BY <1>2, <1>3

LEMMA StringLeaves ==
  ASSUME NEW s, Sound(s), s.end <= Capacity, NEW v \in Seq(Byte), NEW n, n = Len(v),
         n < UintModulus, NEW r, r = stringWrite(s, v), ~Thrown(r)
  PROVE  /\ Frames(s, r, LengthSize + n)
         /\ \A w : Ready(w) /\ w.at = s.at /\ Same(w.memory, r.memory, s.at, LengthSize + n) =>
              Back(w, stringRead(w), LengthSize + n, v)
<1>0. n \in Nat /\ n \in 0 .. UintModulus - 1 /\ LengthSize \in Nat /\ n \in Int
  BY UintNat
<1> DEFINE p == simpleWrite(s, LengthSize, n)
<1>1. r = IF n = 0 THEN p ELSE put(p, n, v)
  <2>1. Len(v) % UintModulus = n
    BY <1>0, Unwrapped
  <2>2. QED BY <1>0, <2>1 DEF stringWrite
<1>2. Writes(s, p, LengthSize)
  BY <1>0, SimpleWrites DEF Sound
<1>3. Sound(p) /\ p.end = s.end
  BY <1>2 DEF Writes
<1>4. Writes(p, r, n) /\ Frames(p, r, n) /\ Stored(r.memory, p.at, v)
  <2> HIDE DEF p
  <2>1. QED BY <1>1, <1>3, BodyLeaves
<1>5. /\ Frames(s, r, LengthSize + n) /\ p.at = s.at + LengthSize
      /\ s.at \in Nat /\ s.at + (LengthSize + n) <= Capacity
      /\ Stored(r.memory, s.at, ToBytes(n, LengthSize))
  BY <1>0, <1>4, PrefixLeaves
<1> HIDE DEF p
<1>6. ASSUME NEW w, Ready(w), w.at = s.at, Same(w.memory, r.memory, s.at, LengthSize + n)
      PROVE  Back(w, stringRead(w), LengthSize + n, v)
  <2> DEFINE q == simpleRead(w, LengthSize)
             f == Forget(q)
  <2>1. Stored(w.memory, w.at, ToBytes(n, LengthSize))
    BY <1>0, <1>5, <1>6, PrefixStays
  <2>2. Stored(w.memory, w.at + LengthSize, v)
    <3>1. Stored(r.memory, s.at + LengthSize, v)
      BY <1>4, <1>5
    <3>2. \A other : Same(other, r.memory, s.at, LengthSize + n) => Stored(other, s.at + LengthSize, v)
      <4> DEFINE b == s.at
      <4>1. /\ b \in Nat /\ b + (LengthSize + n) <= Capacity /\ Stored(r.memory, b + LengthSize, v)
            /\ \A other : Same(other, r.memory, s.at, LengthSize + n) <=>
                           Same(other, r.memory, b, LengthSize + n)
        BY <1>5, <3>1
      <4>2. \A other : Stored(other, s.at + LengthSize, v) <=> Stored(other, b + LengthSize, v)
        OBVIOUS
      <4> HIDE DEF b
      <4>3. QED BY <1>0, <4>1, <4>2, BodyStays
    <3>3. QED BY <1>6, <3>2
  <2>3. /\ w.at + LengthSize > w.end => Thrown(q) /\ Back(w, q, LengthSize + n, v)
        /\ w.at + LengthSize <= w.end => ~Thrown(q) /\ LastRead(q) = n /\ MovedOn(w, f, LengthSize)
    BY <1>0, <1>6, <2>1, PrefixBack DEF Ready
  <2>4. w.at \in Nat /\ w.end \in Nat
    BY <1>6 DEF Ready, Within, IsStream, Streams
  <2>5. stringRead(w) = IF Thrown(q) THEN q ELSE reserve(take(f, LastRead(q)), LastRead(q))
    BY DEF stringRead
  <2> HIDE DEF q, f
  <2>6. CASE w.at + LengthSize > w.end
    BY <2>3, <2>5, <2>6
  <2>7. CASE w.at + LengthSize <= w.end
    <3>1. Back(f, take(f, n), n, v) /\ ~f.full
      BY <1>6, <2>2, <2>3, <2>7, TakeBack DEF MovedOn, Ready
    <3>2. stringRead(w) = take(f, n)
      BY <2>3, <2>5, <2>7, <3>1, NotFull DEF Back
    <3>3. QED BY <1>0, <1>6, <2>3, <2>7, <3>1, <3>2, BackOn DEF Ready
  <2>8. QED BY <1>0, <2>4, <2>6, <2>7
<1>7. QED BY <1>5, <1>6

LEMMA ElementLeaves ==
  ASSUME NEW s, Sound(s), s.end <= Capacity, NEW type, IsElementType(type),
         NEW v \in ElementValues(type), ElementSize(type, v) < UintModulus,
         NEW r, r = writeElement(s, type, v), ~Thrown(r), NEW i
  PROVE  Leaves(s, r, "readAll", i, type, ElementSize(type, v), v)
<1> DEFINE n == ElementSize(type, v)
<1>1. ASSUME Frames(s, r, n),
             \A w : Ready(w) /\ w.at = s.at /\ Same(w.memory, r.memory, s.at, n) =>
               Back(w, readElement(w, type), n, v)
      PROVE  Leaves(s, r, "readAll", i, type, n, v)
  <2>1. \A w : Called("readAll", w, i, type, 0) = readElement(w, type)
    BY DEF Called
  <2> HIDE DEF n
  <2>2. QED BY <1>1, <2>1 DEF Leaves, Held
<1>2. CASE type.kind = "simple" /\ type.size \in Nat \ {0}
  <2>1. v \in 0 .. Power(type.size) - 1
    BY <1>2 DEF ElementValues
  <2>2. /\ writeElement(s, type, v) = simpleWrite(s, type.size, v) /\ n = type.size
        /\ \A w : readElement(w, type) = simpleRead(w, type.size)
    BY <1>2 DEF writeElement, readElement, ElementSize, IsFixedSize
  <2> HIDE DEF n
  <2>3. \A size \in Nat : v \in 0 .. Power(size) - 1 /\ r = simpleWrite(s, size, v) =>
          /\ Frames(s, r, size)
          /\ \A w : Ready(w) /\ w.at = s.at /\ Same(w.memory, r.memory, s.at, size) =>
               Back(w, simpleRead(w, size), size, v)
    BY SimpleLeaves
  <2>4. /\ Frames(s, r, n)
        /\ \A w : Ready(w) /\ w.at = s.at /\ Same(w.memory, r.memory, s.at, n) =>
             Back(w, simpleRead(w, n), n, v)
    BY <1>2, <2>1, <2>2, <2>3
  <2>5. Leaves(s, r, "readAll", i, type, n, v)
    BY <1>1, <2>2, <2>4
  <2>6. QED BY <2>5 DEF n
<1>3. CASE type.kind = "fixed" /\ type.size \in Nat
  <2>1. v \in [1 .. type.size -> Byte]
    BY <1>3 DEF ElementValues
  <2>2. /\ writeElement(s, type, v) = fixedWrite(s, type.size, v) /\ n = type.size
        /\ \A w : readElement(w, type) = fixedRead(w, type.size)
    BY <1>3 DEF writeElement, readElement, ElementSize, IsFixedSize
  <2> HIDE DEF n
  <2>3. \A size \in Nat : v \in [1 .. size -> Byte] /\ r = fixedWrite(s, size, v) =>
          /\ Frames(s, r, size)
          /\ \A w : Ready(w) /\ w.at = s.at /\ Same(w.memory, r.memory, s.at, size) =>
               Back(w, fixedRead(w, size), size, v)
    BY FixedLeaves
  <2>4. /\ Frames(s, r, n)
        /\ \A w : Ready(w) /\ w.at = s.at /\ Same(w.memory, r.memory, s.at, n) =>
             Back(w, fixedRead(w, n), n, v)
    BY <1>3, <2>1, <2>2, <2>3
  <2>5. Leaves(s, r, "readAll", i, type, n, v)
    BY <1>1, <2>2, <2>4
  <2>6. QED BY <2>5 DEF n
<1>4. CASE type = Bool
  <2>1. v \in BOOLEAN
    BY <1>4 DEF ElementValues, Bool
  <2>2. /\ writeElement(s, type, v) = boolWrite(s, v) /\ n = 1
        /\ \A w : readElement(w, type) = boolRead(w)
    BY <1>4 DEF writeElement, readElement, ElementSize, IsFixedSize, Bool
  <2> HIDE DEF n
  <2>3. Leaves(s, r, "readAll", i, type, n, v)
    BY <1>1, <2>1, <2>2, BoolLeaves
  <2>4. QED BY <2>3 DEF n
<1>5. CASE type = String
  <2>1. v \in Seq(Byte)
    BY <1>5 DEF ElementValues, String
  <2>2. /\ writeElement(s, type, v) = stringWrite(s, v) /\ n = LengthSize + Len(v)
        /\ \A w : readElement(w, type) = stringRead(w)
    BY <1>5 DEF writeElement, readElement, ElementSize, IsFixedSize, String
  <2>3. Len(v) < UintModulus
    BY <2>1, <2>2, UintNat
  <2> HIDE DEF n
  <2>4. /\ Frames(s, r, LengthSize + Len(v))
        /\ \A w : Ready(w) /\ w.at = s.at /\ Same(w.memory, r.memory, s.at, LengthSize + Len(v)) =>
             Back(w, stringRead(w), LengthSize + Len(v), v)
    <3>1. \A m : m = Len(v) /\ m < UintModulus =>
            /\ Frames(s, r, LengthSize + m)
            /\ \A w : Ready(w) /\ w.at = s.at /\ Same(w.memory, r.memory, s.at, LengthSize + m) =>
                 Back(w, stringRead(w), LengthSize + m, v)
      BY <2>1, <2>2, StringLeaves
    <3>2. QED BY <2>3, <3>1
  <2>5. Leaves(s, r, "readAll", i, type, n, v)
    BY <1>1, <2>2, <2>4
  <2>6. QED BY <2>5 DEF n
<1>6. QED BY <1>2, <1>3, <1>4, <1>5 DEF IsElementType

LEMMA WriteAllLeaves ==
  ASSUME NEW s, Sound(s), s.end <= Capacity, NEW type, IsElementType(type), NEW v,
         NEW n \in Nat, Len(v) = n, \A i \in 1 .. n : v[i] \in ElementValues(type),
         ElementSum(type, v, n) < UintModulus, NEW r, r = writeAll(s, type, v), ~Thrown(r)
  PROVE  /\ Frames(s, r, ElementSum(type, v, n))
         /\ \A w : Ready(w) /\ w.at = s.at /\ Same(w.memory, r.memory, s.at, ElementSum(type, v, n)) =>
              Back(w, readAll(w, type, n), ElementSum(type, v, n), Firsts(v, n))
<1>1. PICK after : Iterates("writeAll", s, type, v, n, after) /\ r = after[n]
  BY WriteAllLoop
<1>2. PICK T, g : /\ \A i \in 1 .. n : T[i] = ElementSize(type, v[i]) /\ T[i] \in Nat
                  /\ Sums(T, n, g) /\ g[n] \in Nat
                  /\ \A i \in 1 .. n : T[i] <= g[n]
                  /\ ElementSum(type, v, n) = g[n]
  <2>1. PICK T, g : Summed(type, v, n, T, g)
    BY ElementSums
  <2>2. QED BY <2>1 DEF Summed
<1>3. \A i \in 1 .. n : T[i] \in Nat /\ T[i] < UintModulus /\ T[i] = ElementSize(type, v[i])
  BY <1>2, UintNat
<1>4. \A w : \A i \in 1 .. n : Sound(w) => Writes(w, Called("writeAll", w, i, type, v), T[i])
  <2> SUFFICES ASSUME NEW w, NEW i \in 1 .. n, Sound(w)
               PROVE  Writes(w, Called("writeAll", w, i, type, v), T[i])
    OBVIOUS
  <2>1. Called("writeAll", w, i, type, v) = writeElement(w, type, v[i]) /\ IsStream(w)
    BY DEF Called, Sound
  <2>2. QED BY <1>3, <2>1, ElementWrites
<1>5. \A w : \A i \in 1 .. n :
        Sound(w) /\ w.end <= Capacity /\ ~Thrown(Called("writeAll", w, i, type, v)) =>
          Leaves(w, Called("writeAll", w, i, type, v), "readAll", i, type, T[i], v[i])
  <2> SUFFICES ASSUME NEW w, NEW i \in 1 .. n, Sound(w), w.end <= Capacity,
                      ~Thrown(Called("writeAll", w, i, type, v))
               PROVE  Leaves(w, Called("writeAll", w, i, type, v), "readAll", i, type, T[i], v[i])
    OBVIOUS
  <2>1. Called("writeAll", w, i, type, v) = writeElement(w, type, v[i])
    BY DEF Called
  <2>2. Leaves(w, writeElement(w, type, v[i]), "readAll", i, type, ElementSize(type, v[i]), v[i])
    BY <1>3, <2>1, ElementLeaves
  <2>3. QED BY <1>3, <2>1, <2>2
<1>6. /\ Frames(s, r, g[n])
      /\ \A i \in 1 .. n : Held("readAll", r.memory, s.at + g[i - 1], i, type, T[i], v[i])
  <2>1. ~Thrown(after[n])
    BY <1>1
  <2>2. /\ Frames(s, after[n], g[n])
        /\ \A i \in 1 .. n : Held("readAll", after[n].memory, s.at + g[i - 1], i, type, T[i], v[i])
    BY <1>1, <1>2, <1>4, <1>5, <2>1, LoopLeaves
  <2>3. QED BY <1>1, <2>2
<1>7. ASSUME NEW w, Ready(w), w.at = s.at, Same(w.memory, r.memory, s.at, g[n])
      PROVE  Back(w, readAll(w, type, n), g[n], Firsts(v, n))
  <2> DEFINE t == [w EXCEPT !.got = <<>>]
  <2>1. PICK read : /\ Iterates("readAll", t, type, 0, n, read)
                    /\ readAll(w, type, n) = [read[n] EXCEPT !.got = Append(w.got, read[n].got)]
    <3>1. \A m \in Nat : \E read :
            /\ Iterates("readAll", t, type, 0, m, read)
            /\ readAll(w, type, m) = [read[m] EXCEPT !.got = Append(w.got, read[m].got)]
      BY ReadAllLoop
    <3>2. QED BY <3>1
  <2>2. Ready(t) /\ t.got = <<>> /\ t.memory = w.memory /\ t.at = s.at
    BY <1>7, EmptyWithin DEF Ready
  <2>3. \A i \in 1 .. n : Held("readAll", t.memory, t.at + g[i - 1], i, type, T[i], v[i])
    <3> SUFFICES ASSUME NEW i \in 1 .. n
                 PROVE  Held("readAll", t.memory, s.at + g[i - 1], i, type, T[i], v[i])
      BY <2>2
    <3>1. Same(t.memory, r.memory, s.at + g[i - 1], T[i])
      BY <1>2, <1>7, <2>2, SumsSame DEF Sound, IsStream, Streams
    <3>2. QED BY <1>6, <3>1, HeldMoves
  <2> DEFINE f == read[n]
  <2>4. readAll(w, type, n) = [f EXCEPT !.got = Append(w.got, f.got)]
    BY <2>1
  <2> HIDE DEF t
  <2>5. Filled(t, f, g[n], Firsts(v, n))
    BY <1>2, <2>1, <2>2, <2>3, LoopBack
  <2> HIDE DEF f
  <2>6. Filled([w EXCEPT !.got = <<>>], f, g[n], Firsts(v, n))
    BY <2>5 DEF t
  <2>7. Back(w, [f EXCEPT !.got = Append(w.got, f.got)], g[n], Firsts(v, n))
    BY <1>2, <1>7, <2>6, CollectedBack DEF Ready
  <2>8. QED BY <2>4, <2>7
<1>8. QED BY <1>2, <1>6, <1>7

(* Numbers that were put together are taken apart again. *)
LEMMA UnpackedBack ==
  ASSUME NEW size \in Nat \ {0}, NEW n \in Nat, NEW v, Len(v) = n,
         \A i \in 1 .. n : v[i] \in 0 .. Power(size) - 1
  PROVE  Unpacked(Packed(v, size), size, n) = Firsts(v, n)
<1> DEFINE bytes == Packed(v, size)
<1>1. Power(size) \in Nat /\ \A i \in 1 .. n : v[i] \in Int
  BY PowerNat
<1>2. bytes \in Seq(Byte) /\ Len(bytes) = n * size /\ n * size \in Nat
  BY <1>1, PackedBytes, Factor
<1>3. \A k \in 1 .. n * size :
        bytes[k] = ToBytes(v[((k - 1) \div size) + 1], size)[((k - 1) % size) + 1]
  BY DEF Packed
<1> HIDE DEF bytes
<1>4. ASSUME NEW i \in 1 .. n
      PROVE  /\ i * size <= n * size
             /\ FromBytes(SubSeq(bytes, (i - 1) * size + 1, i * size)) = v[i]
  <2> DEFINE a == (i - 1) * size
             e == i * size
             m == n * size
  <2>1. a \in Nat /\ e \in Nat /\ m \in Nat /\ e = a + size /\ e <= m
    <3>1. i \in Nat /\ i - 1 \in Nat /\ n - i \in Nat
      OBVIOUS
    <3>2. i * size = (i - 1) * size + size /\ n * size = (n - i) * size + i * size
      BY <3>1
    <3>3. (i - 1) * size \in Nat /\ (n - i) * size \in Nat
      BY <3>1, Factor
    <3>4. QED BY <1>2, <3>1, <3>2, <3>3
  <2>2. ASSUME NEW j \in 1 .. size PROVE bytes[a + j] = ToBytes(v[i], size)[j]
    <3>1. (a + (j - 1)) \div size = i - 1 /\ (a + (j - 1)) % size = j - 1
      <4>1. i - 1 \in Nat /\ j - 1 \in 0 .. size - 1
        OBVIOUS
      <4>2. QED BY <4>1, QuotientIs
    <3> HIDE DEF a, e, m
    <3>2. a + j \in 1 .. m /\ (a + j) - 1 = a + (j - 1) /\ (i - 1) + 1 = i /\ (j - 1) + 1 = j
      BY <2>1
    <3>3. bytes[a + j] = ToBytes(v[(((a + j) - 1) \div size) + 1], size)[(((a + j) - 1) % size) + 1]
      BY <1>3, <3>2 DEF m
    <3>4. QED BY <3>1, <3>2, <3>3
  <2>3. ToBytes(v[i], size) \in Seq(Byte) /\ Len(ToBytes(v[i], size)) = size
    BY <1>1, ToBytesBytes
  <2> DEFINE part == SubSeq(bytes, a + 1, e)
             whole == ToBytes(v[i], size)
  <2> HIDE DEF a, e, m
  <2>4. part = [j \in 1 .. size |-> bytes[a + j]]
    <3>1. part = [j \in 1 .. (e - (a + 1)) + 1 |-> bytes[(j + (a + 1)) - 1]]
      BY <1>2, <2>1 DEF m
    <3>2. (e - (a + 1)) + 1 = size /\ \A j \in 1 .. size : (j + (a + 1)) - 1 = a + j
      BY <2>1
    <3>3. QED BY <3>1, <3>2
  <2>5. whole = [j \in 1 .. size |-> whole[j]]
    BY <2>3
  <2>6. \A j \in 1 .. size : bytes[a + j] = whole[j]
    BY <2>2
  <2> HIDE DEF part, whole
  <2>7. part = whole
    BY <2>4, <2>5, <2>6
  <2>8. FromBytes(whole) = v[i]
    BY NumberBack DEF whole
  <2>9. QED BY <2>1, <2>7, <2>8 DEF part, a, e, m
<1>5. Unpacked(bytes, size, n) = [i \in 1 .. n |->
        IF i * size <= Len(bytes) THEN FromBytes(SubSeq(bytes, (i - 1) * size + 1, i * size)) ELSE 0]
  BY DEF Unpacked
<1>6. QED BY <1>2, <1>4, <1>5 DEF Firsts, bytes

(* What was read, converted. *)
LEMMA ReadAs ==
  ASSUME NEW s, Within(s), NEW n \in Nat, NEW read, NEW x, Back(s, read, n, x), NEW y, NEW z,
         LastRead(read) = x => z = y
  PROVE  Back(s, Convert(read, z), n, y)
<1>1. PICK V : s \in Streams(V)
  BY DEF Ready, Within, IsStream
<1>2. s.at \in Nat /\ s.end \in Nat /\ s.got \in Seq(V)
  BY <1>1 DEF Streams
<1>3. CASE s.at + n <= s.end
  <2>1. read.got = Append(s.got, x)
    BY <1>3 DEF Back
  <2>2. LastRead(read) = x
    BY <1>2, <2>1, AppendSeq DEF LastRead
  <2>3. QED BY <2>2, ConvertBack DEF Ready, Within
<1>4. CASE s.at + n > s.end
  <2>1. Back(s, Convert(read, z), n, z)
    BY ConvertBack DEF Ready, Within
  <2>2. QED BY <1>2, <1>4, <2>1 DEF Back
<1>5. QED BY <1>2, <1>3, <1>4

(* A value that takes no bytes. *)
LEMMA NothingBack ==
  ASSUME NEW s, Within(s), NEW x
  PROVE  Back(s, [s EXCEPT !.got = Append(s.got, x)], 0, x)
<1> DEFINE q == Append(s.got, x)
           c == [s EXCEPT !.got = q]
<1>1. PICK V : s \in Streams(V)
  BY DEF Ready, Within, IsStream
<1>2. s.at \in Nat /\ s.end \in Nat /\ q \in Seq(V \cup {x})
  BY <1>1, AppendSeq DEF Streams
<1> HIDE DEF q
<1>3. IsStream(c) /\ c.got = q /\ c.at = s.at /\ (Thrown(c) <=> Thrown(s))
  BY <1>2, SetGot DEF Ready, Within
<1>4. c.end = s.end /\ c.full = s.full /\ c.memory = s.memory
  BY <1>1 DEF Streams
<1> HIDE DEF c
<1>5. Back(s, c, 0, x)
  BY <1>2, <1>3, <1>4 DEF Back, Ready, Within, q
<1>6. QED BY <1>5 DEF c, q

LEMMA WholeSeq == ASSUME NEW q \in Seq(Byte), NEW n, n = Len(q) PROVE SubSeq(q, 1, n) = q
<1>1. SubSeq(q, 1, Len(q)) = [i \in 1 .. Len(q) |-> q[i]]
  OBVIOUS
<1>2. QED BY <1>1

(* What is read after a length of n. *)
LEMMA AfterPrefix ==
  ASSUME NEW s, Sound(s), s.end <= Capacity, NEW n \in 0 .. UintModulus - 1,
         NEW p, p = simpleWrite(s, LengthSize, n), NEW r, NEW m \in Nat,
         Writes(p, r, m), ~Thrown(r), Frames(p, r, m),
         NEW w, Ready(w), w.at = s.at, Same(w.memory, r.memory, s.at, LengthSize + m),
         NEW q, q = simpleRead(w, LengthSize)
  PROVE  /\ w.at + LengthSize > w.end => Thrown(q) /\ \A x : Back(w, q, LengthSize + m, x)
         /\ w.at + LengthSize <= w.end =>
              /\ ~Thrown(q) /\ LastRead(q) = n
              /\ MovedOn(w, Forget(q), LengthSize)
              /\ Forget(q).at = p.at /\ Same(Forget(q).memory, r.memory, p.at, m)
<1>0. n \in Nat /\ LengthSize \in Nat
  BY UintNat
<1>1. /\ p.at = s.at + LengthSize
      /\ s.at \in Nat /\ s.at + (LengthSize + m) <= Capacity
      /\ Stored(r.memory, s.at, ToBytes(n, LengthSize))
  BY PrefixLeaves
<1>2. Stored(w.memory, w.at, ToBytes(n, LengthSize))
  BY <1>0, <1>1, PrefixStays
<1>3. /\ w.at + LengthSize > w.end => Thrown(q) /\ \A x : Back(w, q, LengthSize + m, x)
      /\ w.at + LengthSize <= w.end =>
           ~Thrown(q) /\ LastRead(q) = n /\ MovedOn(w, Forget(q), LengthSize)
  BY <1>2, PrefixBack DEF Ready
<1>4. Same(w.memory, r.memory, p.at, m)
  <2> DEFINE b == s.at
             c == p.at
             k == LengthSize + m
  <2>1. b \in Nat /\ c \in Nat /\ k \in Nat /\ b <= c /\ c + m <= b + k
    BY <1>0, <1>1
  <2>2. Same(w.memory, r.memory, b, k)
    OBVIOUS
  <2> HIDE DEF b, c, k
  <2>3. Same(w.memory, r.memory, c, m)
    BY <2>1, <2>2, SamePart
  <2>4. QED BY <2>3 DEF c
<1>5. QED BY <1>1, <1>3, <1>4 DEF MovedOn

LEMMA VectorLeaves ==
  ASSUME NEW s, Sound(s), s.end <= Capacity, NEW type, IsElementType(type), NEW v,
         NEW n \in Nat, Len(v) = n, v = <<>> <=> n = 0,
         \A i \in 1 .. n : v[i] \in ElementValues(type),
         NEW sum, sum = ElementSum(type, v, n), LengthSize + sum < UintModulus, n < UintModulus,
         NEW r, r = vectorWrite(s, type, v), ~Thrown(r)
  PROVE  /\ Frames(s, r, LengthSize + sum)
         /\ \A w : Ready(w) /\ w.at = s.at /\ Same(w.memory, r.memory, s.at, LengthSize + sum) =>
              Back(w, vectorRead(w, type), LengthSize + sum, Firsts(v, n))
<1> DEFINE p == simpleWrite(s, LengthSize, n)
<1>0. /\ n \in 0 .. UintModulus - 1 /\ LengthSize \in Nat /\ n \in Int
      /\ sum \in Nat /\ sum < UintModulus
  <2>1. sum \in Nat
    BY ElementSums DEF Summed
  <2>2. QED BY <2>1, UintNat
<1>1. n % UintModulus = n
  BY <1>0, Unwrapped
<1>2. Sound(p) /\ p.end = s.end
  <2>1. Writes(s, p, LengthSize)
    BY <1>0, SimpleWrites DEF Sound
  <2>2. QED BY <2>1 DEF Writes
<1>3. CASE ~IsSimple(type)
  <2>1. r = writeAll(p, type, v)
    BY <1>1, <1>3 DEF vectorWrite
  <2> HIDE DEF p
  <2>2. /\ Writes(p, r, sum) /\ Frames(p, r, sum)
        /\ \A u : Ready(u) /\ u.at = p.at /\ Same(u.memory, r.memory, p.at, sum) =>
             Back(u, readAll(u, type, n), sum, Firsts(v, n))
    BY <1>0, <1>2, <2>1, WriteAllWrites, WriteAllLeaves DEF Sound
  <2>3. Frames(s, r, LengthSize + sum)
    BY <1>0, <2>2, PrefixLeaves DEF p
  <2>4. ASSUME NEW w, Ready(w), w.at = s.at, Same(w.memory, r.memory, s.at, LengthSize + sum)
        PROVE  Back(w, vectorRead(w, type), LengthSize + sum, Firsts(v, n))
    <3> DEFINE q == simpleRead(w, LengthSize)
               f == Forget(q)
    <3>1. /\ w.at + LengthSize > w.end => Thrown(q) /\ \A x : Back(w, q, LengthSize + sum, x)
          /\ w.at + LengthSize <= w.end =>
               /\ ~Thrown(q) /\ LastRead(q) = n /\ MovedOn(w, f, LengthSize)
               /\ f.at = p.at /\ Same(f.memory, r.memory, p.at, sum)
      BY <1>0, <2>2, <2>4, AfterPrefix DEF p
    <3>2. w.at \in Nat /\ w.end \in Nat
      BY <2>4 DEF Ready, Within, IsStream, Streams
    <3>3. Thrown(q) => vectorRead(w, type) = q
      BY DEF vectorRead
    <3>4. LET resized == reserve(f, LastRead(q))
          IN  ~Thrown(q) /\ ~Thrown(resized) => vectorRead(w, type) = readAll(resized, type, LastRead(q))
      BY <1>3 DEF vectorRead
    <3> HIDE DEF q, f
    <3>5. CASE w.at + LengthSize > w.end
      BY <3>1, <3>3, <3>5
    <3>6. CASE w.at + LengthSize <= w.end
      <4>1. Ready(f) /\ ~f.full /\ ~Thrown(f) /\ LastRead(q) = n /\ ~Thrown(q)
        BY <2>4, <3>1, <3>6 DEF MovedOn, Ready, Within
      <4>2. vectorRead(w, type) = readAll(f, type, n)
        BY <3>4, <4>1, NotFull
      <4>3. Back(f, readAll(f, type, n), sum, Firsts(v, n))
        BY <2>2, <3>1, <3>6, <4>1
      <4>4. QED BY <1>0, <2>4, <3>1, <3>6, <4>2, <4>3, BackOn DEF Ready
    <3>7. QED BY <1>0, <3>2, <3>5, <3>6
  <2>5. QED BY <2>3, <2>4
<1>4. CASE IsSimple(type)
  <2> DEFINE size == type.size
             packed == Packed(v, type.size)
  <2>1. /\ size \in Nat \ {0} /\ sum = n * size
        /\ packed \in Seq(Byte) /\ Len(packed) = sum
    BY <1>4, SimpleElements
  <2>2. \A i \in 1 .. n : v[i] \in 0 .. Power(size) - 1
    BY <1>4 DEF ElementValues, IsSimple
  <2>3. Unpacked(packed, size, n) = Firsts(v, n)
    <3>1. \A k \in Nat \ {0} : (\A i \in 1 .. n : v[i] \in 0 .. Power(k) - 1)
            => Unpacked(Packed(v, k), k, n) = Firsts(v, n)
      BY UnpackedBack
    <3>2. QED BY <2>1, <2>2, <3>1
  <2>4. (n * size) % UintModulus = sum /\ (size * n) % UintModulus = sum
    <3>1. sum % UintModulus = sum
      BY <1>0, Unwrapped
    <3>2. size * n = n * size
      BY <2>1
    <3>3. QED BY <2>1, <3>1, <3>2
  <2>5. n = 0 <=> sum = 0
    <3>1. n * size = 0 <=> n = 0
      BY <2>1
    <3>2. QED BY <2>1, <3>1
  <2>6. r = put(p, sum, packed) \/ (sum = 0 /\ r = p)
    <3>1. r = IF v = <<>> THEN p
              ELSE put(p, (n * size) % UintModulus, SubSeq(packed, 1, (n * size) % UintModulus))
      BY <1>1, <1>4 DEF vectorWrite
    <3> HIDE DEF packed, p, size
    <3>2. SubSeq(packed, 1, sum) = packed
      BY <2>1, WholeSeq
    <3>3. QED BY <2>4, <2>5, <3>1, <3>2
  <2> HIDE DEF packed, p
  <2>7. Writes(p, r, sum) /\ Frames(p, r, sum) /\ Stored(r.memory, p.at, packed)
    BY <1>2, <2>1, <2>6, BodyLeaves
  <2>8. Frames(s, r, LengthSize + sum) /\ p.at = s.at + LengthSize /\ s.at \in Nat
        /\ s.at + (LengthSize + sum) <= Capacity
    BY <1>0, <2>7, PrefixLeaves DEF p
  <2>9. ASSUME NEW w, Ready(w), w.at = s.at, Same(w.memory, r.memory, s.at, LengthSize + sum)
        PROVE  Back(w, vectorRead(w, type), LengthSize + sum, Firsts(v, n))
    <3> DEFINE q == simpleRead(w, LengthSize)
               f == Forget(q)
    <3>1. /\ w.at + LengthSize > w.end => Thrown(q) /\ \A x : Back(w, q, LengthSize + sum, x)
          /\ w.at + LengthSize <= w.end =>
               /\ ~Thrown(q) /\ LastRead(q) = n /\ MovedOn(w, f, LengthSize)
               /\ f.at = p.at /\ Same(f.memory, r.memory, p.at, sum)
      BY <1>0, <2>7, <2>9, AfterPrefix DEF p
    <3>2. w.at \in Nat /\ w.end \in Nat
      BY <2>9 DEF Ready, Within, IsStream, Streams
    <3>3. Thrown(q) => vectorRead(w, type) = q
      BY DEF vectorRead
    <3>4. LET resized == reserve(f, LastRead(q))
              len == LastRead(q)
              read == take(resized, (size * len) % UintModulus)
          IN  ~Thrown(q) /\ ~Thrown(resized) =>
                vectorRead(w, type) = IF len = 0 THEN [resized EXCEPT !.got = Append(resized.got, <<>>)]
                                      ELSE Convert(read, Unpacked(LastRead(read), size, len))
      BY <1>4 DEF vectorRead
    <3> HIDE DEF q, f
    <3>5. CASE w.at + LengthSize > w.end
      BY <3>1, <3>3, <3>5
    <3>6. CASE w.at + LengthSize <= w.end
      <4> DEFINE read == take(f, sum)
                 z == Unpacked(LastRead(read), size, n)
      <4>1. Ready(f) /\ ~f.full /\ ~Thrown(f) /\ LastRead(q) = n /\ ~Thrown(q)
        BY <2>9, <3>1, <3>6 DEF MovedOn, Ready, Within
      <4>2. vectorRead(w, type) = IF n = 0 THEN [f EXCEPT !.got = Append(f.got, <<>>)]
                                  ELSE Convert(read, z)
        <5>1. reserve(f, n) = f
          BY <4>1, NotFull
        <5> HIDE DEF size
        <5>2. QED BY <2>4, <3>4, <4>1, <5>1
      <4>3. Stored(f.memory, f.at, packed)
        <5>1. p.at \in Nat /\ p.at + sum <= Capacity
          BY <1>0, <2>8, SerializationAssumption
        <5>2. f.at = p.at /\ Same(f.memory, r.memory, p.at, sum)
          BY <3>1, <3>6
        <5>3. \A b \in Nat : b + sum <= Capacity /\ Stored(r.memory, b, packed)
                               /\ Same(f.memory, r.memory, b, sum) => Stored(f.memory, b, packed)
          <6>1. \A b \in Nat, m \in Nat :
                  b + sum <= Capacity /\ Stored(r.memory, b, packed) /\ sum <= m
                  /\ Same(f.memory, r.memory, b, m) => Stored(f.memory, b, packed)
            BY <1>0, <2>1, StoredSame
          <6>2. QED BY <1>0, <6>1
        <5>4. QED BY <2>7, <5>1, <5>2, <5>3
      <4>4. Back(f, vectorRead(w, type), sum, Firsts(v, n))
        <5>1. CASE n = 0
          <6>1. Firsts(v, n) = <<>> /\ sum = 0
            BY <2>5, <5>1 DEF Firsts
          <6>2. QED BY <4>1, <4>2, <5>1, <6>1, NothingBack DEF Ready
        <5>2. CASE n # 0
          <6>1. Back(f, read, sum, packed)
            BY <2>1, <4>1, <4>3, TakeBack DEF Ready
          <6>2. LastRead(read) = packed => z = Firsts(v, n)
            BY <2>3
          <6> HIDE DEF read, z
          <6>3. Back(f, Convert(read, z), sum, Firsts(v, n))
            BY <1>0, <4>1, <6>1, <6>2, ReadAs DEF Ready
          <6>4. QED BY <4>2, <5>2, <6>3
        <5>3. QED BY <5>1, <5>2
      <4>5. QED BY <1>0, <2>9, <3>1, <3>6, <4>4, BackOn DEF Ready
    <3>7. QED BY <1>0, <3>2, <3>5, <3>6
  <2>10. QED BY <2>8, <2>9
<1>5. QED BY <1>3, <1>4

LEMMA ArrayLeaves ==
  ASSUME NEW s, Sound(s), s.end <= Capacity, NEW type, IsElementType(type),
         NEW n \in Nat, NEW v, Len(v) = n, \A i \in 1 .. n : v[i] \in ElementValues(type),
         NEW sum, sum = ElementSum(type, v, n), sum < UintModulus,
         NEW r, r = arrayWrite(s, type, n, v), ~Thrown(r)
  PROVE  /\ Frames(s, r, sum)
         /\ \A w : Ready(w) /\ w.at = s.at /\ Same(w.memory, r.memory, s.at, sum) =>
              Back(w, arrayRead(w, type, n), sum, Firsts(v, n))
<1>1. CASE ~IsSimple(type)
  <2>1. r = writeAll(s, type, v) /\ \A w : arrayRead(w, type, n) = readAll(w, type, n)
    BY <1>1 DEF arrayWrite, arrayRead
  <2>2. QED BY <2>1, WriteAllLeaves
<1>2. CASE IsSimple(type)
  <2> DEFINE size == type.size
             packed == Packed(v, type.size)
  <2>1. /\ size \in Nat \ {0} /\ sum = n * size
        /\ packed \in Seq(Byte) /\ Len(packed) = sum
    BY <1>2, SimpleElements
  <2>2. \A i \in 1 .. n : v[i] \in 0 .. Power(size) - 1
    BY <1>2 DEF ElementValues, IsSimple
  <2>3. Unpacked(packed, size, n) = Firsts(v, n)
    <3>1. \A k \in Nat \ {0} : (\A i \in 1 .. n : v[i] \in 0 .. Power(k) - 1)
            => Unpacked(Packed(v, k), k, n) = Firsts(v, n)
      BY UnpackedBack
    <3>2. QED BY <2>1, <2>2, <3>1
  <2>4. sum \in Nat /\ (n * size) % UintModulus = sum
    <3>1. sum \in Nat
      BY <2>1
    <3>2. sum % UintModulus = sum
      BY <3>1, Unwrapped
    <3>3. QED BY <2>1, <3>1, <3>2
  <2>5. r = put(s, sum, packed)
    BY <1>2, <2>4 DEF arrayWrite
  <2>6. \A w : LET read == take(w, sum)
               IN  arrayRead(w, type, n) = Convert(read, Unpacked(LastRead(read), size, n))
    BY <1>2, <2>4 DEF arrayRead
  <2> HIDE DEF packed, size
  <2>7. Frames(s, r, sum) /\ Stored(r.memory, s.at, packed) /\ s.at \in Nat /\ s.at + sum <= Capacity
    <3>1. Writes(s, r, sum) /\ Frames(s, r, sum) /\ Stored(r.memory, s.at, packed)
      BY <2>1, <2>5, BodyLeaves
    <3>2. s.at \in Nat /\ s.end \in Nat /\ r.at = s.at + sum /\ r.at <= r.end /\ r.end = s.end
      BY <3>1 DEF Writes, Sound, IsStream, Streams
    <3>3. QED BY <2>4, <3>1, <3>2, SerializationAssumption
  <2>8. ASSUME NEW w, Ready(w), w.at = s.at, Same(w.memory, r.memory, s.at, sum)
        PROVE  Back(w, arrayRead(w, type, n), sum, Firsts(v, n))
    <3> DEFINE read == take(w, sum)
               z == Unpacked(LastRead(read), size, n)
    <3>1. Stored(w.memory, w.at, packed)
      <4>1. \A b \in Nat, m \in Nat :
              b + sum <= Capacity /\ Stored(r.memory, b, packed) /\ sum <= m
              /\ Same(w.memory, r.memory, b, m) => Stored(w.memory, b, packed)
        BY <2>1, <2>4, StoredSame
      <4>2. QED BY <2>4, <2>7, <2>8, <4>1
    <3>2. Back(w, read, sum, packed)
      BY <2>1, <2>8, <3>1, TakeBack DEF Ready
    <3>3. LastRead(read) = packed => z = Firsts(v, n)
      BY <2>3
    <3>4. arrayRead(w, type, n) = Convert(read, z)
      BY <2>6
    <3> HIDE DEF read, z
    <3>5. Back(w, Convert(read, z), sum, Firsts(v, n))
      BY <2>4, <2>8, <3>2, <3>3, ReadAs DEF Ready
    <3>6. QED BY <3>4, <3>5
  <2>9. QED BY <2>7, <2>8
<1>3. QED BY <1>1, <1>2

(* The rest of a stream is what was written last, if the stream ends there.  *)
LEMMA RestLeaves ==
  ASSUME NEW s, Sound(s), s.end <= Capacity, NEW v \in Seq(Byte), NEW n, n = Len(v),
         n < UintModulus, NEW r, r = restWrite(s, v), ~Thrown(r)
  PROVE  /\ Frames(s, r, n)
         /\ \A w : Ready(w) /\ w.at = s.at /\ Same(w.memory, r.memory, s.at, n) /\ w.end = s.at + n =>
              Back(w, restRead(w), n, v)
<1>1. n \in Nat /\ n % UintModulus = n /\ (v = <<>> <=> n = 0)
  BY Unwrapped
<1>2. r = put(s, n, v) \/ (n = 0 /\ r = s)
  BY <1>1 DEF restWrite
<1>3. Writes(s, r, n) /\ Frames(s, r, n) /\ Stored(r.memory, s.at, v)
  BY <1>2, BodyLeaves
<1>4. s.at \in Nat /\ s.at + n <= Capacity
  <2>1. s.at \in Nat /\ s.end \in Nat /\ r.at = s.at + n /\ r.at <= r.end /\ r.end = s.end
    BY <1>3 DEF Writes, Sound, IsStream, Streams
  <2>2. QED BY <1>1, <2>1, SerializationAssumption
<1>5. ASSUME NEW w, Ready(w), w.at = s.at, Same(w.memory, r.memory, s.at, n), w.end = s.at + n
      PROVE  Back(w, restRead(w), n, v)
  <2>1. getLength(w) = n
    <3>1. w.end - w.at = n
      BY <1>1, <1>4, <1>5
    <3>2. QED BY <1>1, <3>1 DEF getLength
  <2>2. allocate(w, n)
    BY <1>5 DEF allocate, Ready, Within
  <2>3. restRead(w) = IF n > 0 THEN take(w, n) ELSE [w EXCEPT !.got = Append(w.got, <<>>)]
    BY <2>1, <2>2 DEF restRead
  <2>4. CASE n > 0
    <3>1. Stored(w.memory, w.at, v)
      <4>1. \A b \in Nat, m \in Nat :
              b + n <= Capacity /\ Stored(r.memory, b, v) /\ n <= m
              /\ Same(w.memory, r.memory, b, m) => Stored(w.memory, b, v)
        BY <1>1, StoredSame
      <4>2. QED BY <1>1, <1>3, <1>4, <1>5, <4>1
    <3>2. Back(w, take(w, n), n, v)
      BY <1>5, <3>1, TakeBack DEF Ready
    <3>3. QED BY <2>3, <2>4, <3>2
  <2>5. CASE n = 0
    BY <1>1, <1>5, <2>3, <2>5, NothingBack DEF Ready
  <2>6. QED BY <1>1, <2>4, <2>5
<1>6. QED BY <1>3, <1>5

LEMMA MemberLeaves ==
  ASSUME NEW s, Sound(s), s.end <= Capacity, NEW types, NEW i, IsMemberType(types[i]),
         NEW v \in MemberValues(types[i]), MemberSize(types[i], v) < UintModulus,
         types[i].kind = "vector" => Len(v) < UintModulus,
         NEW r, r = writeMember(s, types[i], v), ~Thrown(r)
  PROVE  Leaves(s, r, "deserialize", i, types, MemberSize(types[i], v), v)
<1> DEFINE type == types[i]
           n == MemberSize(type, v)
<1>1. ASSUME Frames(s, r, n),
             \A w : /\ Ready(w) /\ w.at = s.at /\ Same(w.memory, r.memory, s.at, n)
                    /\ type = Rest => w.end = s.at + n
                    => Back(w, readMember(w, type), n, v)
      PROVE  Leaves(s, r, "deserialize", i, types, n, v)
  <2>1. \A w : Called("deserialize", w, i, types, 0) = readMember(w, type)
    BY DEF Called
  <2> HIDE DEF n
  <2>2. QED BY <1>1, <2>1 DEF Leaves, Held
<1> HIDE DEF type
<1>h. /\ IsMemberType(type) /\ v \in MemberValues(type) /\ n < UintModulus
      /\ type.kind = "vector" => Len(v) < UintModulus
      /\ r = writeMember(s, type, v)
  BY DEF type
<1>2. CASE IsElementType(type)
  <2>1. /\ n = ElementSize(type, v) /\ v \in ElementValues(type)
        /\ r = writeElement(s, type, v)
        /\ \A w : readMember(w, type) = readElement(w, type)
    BY <1>2, <1>h DEF MemberSize, MemberValues, IsElementType, Bool, String, writeMember, readMember
  <2> HIDE DEF n
  <2>2. Leaves(s, r, "readAll", i, type, n, v)
    BY <1>2, <1>h, <2>1, ElementLeaves
  <2>3. /\ Frames(s, r, n)
        /\ \A w : Ready(w) /\ w.at = s.at /\ Same(w.memory, r.memory, s.at, n) =>
             Back(w, readElement(w, type), n, v)
    <3>1. \A w : Called("readAll", w, i, type, 0) = readElement(w, type)
      BY DEF Called
    <3>2. QED BY <2>2, <3>1 DEF Leaves, Held
  <2>4. QED BY <1>1, <2>1, <2>3 DEF n, type
<1>3. CASE type.kind = "vector" /\ IsElementType(type.of)
  <2>1. v \in Seq(ElementValues(type.of))
    BY <1>3, <1>h DEF MemberValues
  <2>2. /\ n = LengthSize + ElementSum(type.of, v, Len(v))
        /\ r = vectorWrite(s, type.of, v)
        /\ \A w : readMember(w, type) = vectorRead(w, type.of)
    BY <1>3, <1>h DEF MemberSize, ElementSum, writeMember, readMember
  <2>3. /\ Len(v) \in Nat /\ \A j \in 1 .. Len(v) : v[j] \in ElementValues(type.of)
        /\ v = <<>> <=> Len(v) = 0
        /\ Len(v) < UintModulus /\ Firsts(v, Len(v)) = v
    <3>1. \A V : \A q \in Seq(V) : Firsts(q, Len(q)) = q
      BY DEF Firsts
    <3>2. QED BY <1>3, <1>h, <2>1, <3>1
  <2> HIDE DEF n
  <2>4. \A m \in Nat : \A sum : 
          /\ Len(v) = m /\ (v = <<>> <=> m = 0) /\ sum = ElementSum(type.of, v, m)
          /\ \A j \in 1 .. m : v[j] \in ElementValues(type.of)
          /\ LengthSize + sum < UintModulus /\ m < UintModulus
          => /\ Frames(s, r, LengthSize + sum)
             /\ \A w : Ready(w) /\ w.at = s.at /\ Same(w.memory, r.memory, s.at, LengthSize + sum) =>
                  Back(w, vectorRead(w, type.of), LengthSize + sum, Firsts(v, m))
    BY <1>3, <2>2, VectorLeaves
  <2>5. /\ Frames(s, r, n)
        /\ \A w : Ready(w) /\ w.at = s.at /\ Same(w.memory, r.memory, s.at, n) =>
             Back(w, vectorRead(w, type.of), n, v)
    BY <1>h, <2>2, <2>3, <2>4
  <2>6. QED BY <1>1, <2>2, <2>5 DEF n, type
<1>4. CASE type.kind = "array" /\ IsElementType(type.of) /\ type.n \in Nat \ {0}
  <2>1. v \in [1 .. type.n -> ElementValues(type.of)]
    BY <1>4, <1>h DEF MemberValues
  <2>2. /\ n = ElementSum(type.of, v, type.n)
        /\ r = arrayWrite(s, type.of, type.n, v)
        /\ \A w : readMember(w, type) = arrayRead(w, type.of, type.n)
    BY <1>4, <1>h DEF MemberSize, ElementSum, writeMember, readMember
  <2>3. /\ type.n \in Nat /\ Len(v) = type.n
        /\ \A j \in 1 .. type.n : v[j] \in ElementValues(type.of)
        /\ Firsts(v, type.n) = v
    BY <1>4, <2>1 DEF Firsts
  <2> HIDE DEF n
  <2>4. \A m \in Nat : \A sum :
          /\ Len(v) = m /\ sum = ElementSum(type.of, v, m) /\ sum < UintModulus
          /\ r = arrayWrite(s, type.of, m, v)
          /\ \A j \in 1 .. m : v[j] \in ElementValues(type.of)
          => /\ Frames(s, r, sum)
             /\ \A w : Ready(w) /\ w.at = s.at /\ Same(w.memory, r.memory, s.at, sum) =>
                  Back(w, arrayRead(w, type.of, m), sum, Firsts(v, m))
    BY <1>4, ArrayLeaves
  <2>5. /\ Frames(s, r, n)
        /\ \A w : Ready(w) /\ w.at = s.at /\ Same(w.memory, r.memory, s.at, n) =>
             Back(w, arrayRead(w, type.of, type.n), n, v)
    BY <1>h, <2>2, <2>3, <2>4
  <2>6. QED BY <1>1, <2>2, <2>5 DEF n, type
<1>5. CASE type = Rest
  <2>1. /\ v \in Seq(Byte) /\ n = Len(v)
        /\ r = restWrite(s, v)
        /\ \A w : readMember(w, type) = restRead(w)
    BY <1>5, <1>h DEF MemberSize, MemberValues, Rest, writeMember, readMember
  <2> HIDE DEF n
  <2>2. /\ Frames(s, r, n)
        /\ \A w : Ready(w) /\ w.at = s.at /\ Same(w.memory, r.memory, s.at, n) /\ w.end = s.at + n =>
             Back(w, restRead(w), n, v)
    BY <1>h, <2>1, RestLeaves
  <2>3. QED BY <1>1, <1>5, <2>1, <2>2 DEF n, type
<1>6. QED BY <1>2, <1>3, <1>4, <1>5, <1>h DEF IsMemberType, type

(* A message that was written whole is read from what was left, by a stream  *)
(* that is as long as the message if its type has a rest in it.              *)
LEMMA MessageBack ==
  ASSUME NEW s, Sound(s), s.end <= Capacity, NEW type, NEW v, IsMessage(type, v),
         Expressible(type, v), Countable(type, v), v = Firsts(v, Len(type)),
         NEW r, r = serialize(s, type, v), ~Thrown(r),
         NEW w, Ready(w), w.got = <<>>, w.at = s.at, w.memory = r.memory,
         IsRaw(type) => RestLast(type) /\ w.end = s.at + Size(type, v)
  PROVE  Filled(w, deserialize(w, type), Size(type, v), v)
<1> DEFINE n == Len(type)
<1>1. n \in Nat /\ \A i \in 1 .. n : IsMemberType(type[i]) /\ v[i] \in MemberValues(type[i])
  BY MessageAssumption DEF IsMessage
<1>2. PICK after : Iterates("serialize", s, type, v, n, after) /\ r = after[n]
  BY <1>1, SerializeLoop
<1>3. PICK T, g : /\ \A i \in 1 .. n : T[i] = MemberSize(type[i], v[i]) /\ T[i] \in Nat
                  /\ Sums(T, n, g) /\ g[n] \in Nat
                  /\ \A i \in 1 .. n : T[i] <= g[n]
                  /\ Size(type, v) = g[n]
                  /\ Expressible(type, v) <=> g[n] < UintModulus
  <2>1. PICK T, g : SummedMembers(type, v, T, g)
    BY MemberSums
  <2>2. QED BY <2>1 DEF SummedMembers
<1>4. PICK read : Iterates("deserialize", w, type, 0, n, read) /\ deserialize(w, type) = read[n]
  BY <1>1, DeserializeLoop
<1>d. DOMAIN type = 1 .. n
  BY DEF IsMessage
<1>5. \A i \in 1 .. n : type[i].kind = "vector" => Len(v[i]) < UintModulus
  <2>1. \A i \in DOMAIN type : type[i].kind = "vector" => Len(v[i]) < UintModulus
    BY Zenon DEF Countable
  <2>2. QED BY <1>d, <2>1
<1>6. \A i \in 1 .. n : type[i] = Rest => i = n /\ w.end = w.at + g[n]
  <2>1. SUFFICES ASSUME NEW i \in 1 .. n, type[i] = Rest PROVE i = n /\ w.end = w.at + g[n]
    OBVIOUS
  <2>2. IsRaw(type)
    BY <1>d, <2>1 DEF IsRaw
  <2>3. QED BY <1>3, <1>d, <2>1, <2>2 DEF RestLast
<1> HIDE DEF n
<1>7. \A i \in 1 .. n : T[i] \in Nat /\ T[i] < UintModulus /\ T[i] = MemberSize(type[i], v[i])
  BY <1>3, UintNat
<1>8. \A u : \A i \in 1 .. n : Sound(u) => Writes(u, Called("serialize", u, i, type, v), T[i])
  <2> SUFFICES ASSUME NEW u, NEW i \in 1 .. n, Sound(u)
               PROVE  Writes(u, Called("serialize", u, i, type, v), T[i])
    OBVIOUS
  <2>1. Called("serialize", u, i, type, v) = writeMember(u, type[i], v[i]) /\ IsStream(u)
    BY DEF Called, Sound
  <2>2. QED BY <1>1, <1>7, <2>1, MemberWrites
<1>9. \A u : \A i \in 1 .. n :
        Sound(u) /\ u.end <= Capacity /\ ~Thrown(Called("serialize", u, i, type, v)) =>
          Leaves(u, Called("serialize", u, i, type, v), "deserialize", i, type, T[i], v[i])
  <2> SUFFICES ASSUME NEW u, NEW i \in 1 .. n, Sound(u), u.end <= Capacity,
                      ~Thrown(Called("serialize", u, i, type, v))
               PROVE  Leaves(u, Called("serialize", u, i, type, v), "deserialize", i, type, T[i], v[i])
    OBVIOUS
  <2>1. Called("serialize", u, i, type, v) = writeMember(u, type[i], v[i])
    BY DEF Called
  <2>2. Leaves(u, writeMember(u, type[i], v[i]), "deserialize", i, type,
               MemberSize(type[i], v[i]), v[i])
    BY <1>1, <1>5, <1>7, <2>1, MemberLeaves
  <2>3. QED BY <1>7, <2>1, <2>2
<1>10. \A i \in 1 .. n : Held("deserialize", w.memory, w.at + g[i - 1], i, type, T[i], v[i])
  <2>1. ~Thrown(after[n]) /\ \A i \in 1 .. n : T[i] \in Nat
    BY <1>2, <1>7
  <2>2. \A i \in 1 .. n : Held("deserialize", after[n].memory, s.at + g[i - 1], i, type, T[i], v[i])
    BY <1>1, <1>2, <1>3, <1>8, <1>9, <2>1, LoopLeaves
  <2>3. QED BY <1>2, <2>2
<1>11. \A i \in 1 .. n : "deserialize" = "deserialize" /\ type[i] = Rest => w.end = w.at + g[i]
  BY <1>6
<1> DEFINE f == read[n]
<1>12. Filled(w, f, g[n], Firsts(v, n))
  BY <1>1, <1>3, <1>4, <1>7, <1>10, <1>11, LoopBack
<1> HIDE DEF f
<1>13. Firsts(v, n) = v
  BY DEF n
<1>14. QED BY <1>3, <1>4, <1>12, <1>13 DEF f

-----------------------------------------------------------------------------
(* Reading anything: what is read from bytes that may be anybody's is a      *)
(* value, and writing that value gives the bytes back.                       *)

LEMMA PowerAbove ==
  ASSUME NEW i \in Nat, NEW k \in Nat
  PROVE  \E c \in Nat : Power(i + k) = c * Power(i)
<1> DEFINE S == {j \in 0 .. k : \E c \in Nat : Power(i + j) = c * Power(i)}
<1>0. Power(i) \in Nat /\ ByteModulus \in Nat
  BY PowerNat, SerializationAssumption
<1>1. 0 \in S
  <2>1. Power(i + 0) = 1 * Power(i)
    BY <1>0
  <2>2. QED BY <2>1
<1>2. ASSUME NEW j \in Nat, j \in S, j + 1 <= k PROVE j + 1 \in S
  <2>1. PICK c \in Nat : Power(i + j) = c * Power(i)
    BY <1>2
  <2>2. Power((i + j) + 1) = ByteModulus * (c * Power(i)) /\ (i + j) + 1 = i + (j + 1)
    BY <2>1, PowerNext
  <2>3. \A a, b, d \in Nat : a * (b * d) = (a * b) * d /\ a * b \in Nat
    OBVIOUS
  <2>4. Power(i + (j + 1)) = (ByteModulus * c) * Power(i) /\ ByteModulus * c \in Nat
    BY <1>0, <2>2, <2>3
  <2>5. QED BY <1>2, <2>4
<1> HIDE DEF S
<1>3. \A j \in 0 .. k : j \in S
  BY <1>1, <1>2, BoundedInduction
<1>4. QED BY <1>3 DEF S

(* The bytes that are read as a number are the bytes of that number.         *)
LEMMA BytesNumber ==
  ASSUME NEW bytes \in Seq(Byte), NEW n, n = Len(bytes)
  PROVE  FromBytes(bytes) \in 0 .. Power(n) - 1 /\ ToBytes(FromBytes(bytes), n) = bytes
<1>0. n \in Nat /\ ByteModulus \in Nat \ {0} /\ \A i \in 1 .. n : bytes[i] \in 0 .. ByteModulus - 1
  BY SerializationAssumption DEF Byte
<1>1. PICK sum :
        /\ FromBytes(bytes) = sum[n] /\ \A i \in 0 .. n : sum[i] \in Nat
        /\ sum[0] = 0 /\ \A i \in 1 .. n : sum[i] = sum[i - 1] + bytes[i] * Power(i - 1)
  <2>1. PICK sum : BytesSummed(bytes, n, sum)
    BY FromBytesSums
  <2>2. QED BY <2>1 DEF BytesSummed
<1>2. \A i \in 0 .. n : sum[i] < Power(i)
  <2> DEFINE S == {i \in 0 .. n : sum[i] < Power(i)}
  <2>1. 0 \in S
    <3>1. sum[0] = 0 /\ Power(0) = 1 /\ 0 \in 0 .. n
      BY <1>0, <1>1, PowerNext
    <3>2. QED BY <3>1
  <2>2. ASSUME NEW i \in Nat, i \in S, i + 1 <= n PROVE i + 1 \in S
    <3>1. i + 1 \in 1 .. n /\ (i + 1) - 1 = i /\ i \in 0 .. n
      BY <2>2
    <3> DEFINE d == bytes[i + 1]
               P == Power(i)
    <3>2. sum[i + 1] = sum[i] + d * P
      <4>1. sum[i + 1] = sum[(i + 1) - 1] + bytes[i + 1] * Power((i + 1) - 1)
        BY <1>1, <3>1
      <4>2. QED BY <3>1, <4>1
    <3>3. d \in 0 .. ByteModulus - 1 /\ P \in Nat /\ sum[i] \in Nat /\ sum[i] < P
          /\ Power(i + 1) = ByteModulus * P
      BY <1>0, <1>1, <2>2, <3>1, PowerNat, PowerNext
    <3> HIDE DEF d, P
    <3>4. d * P <= (ByteModulus - 1) * P /\ (ByteModulus - 1) * P = ByteModulus * P - P
          /\ d * P \in Nat /\ ByteModulus * P \in Nat
      BY <1>0, <3>3
    <3>5. sum[i + 1] < Power(i + 1)
      BY <3>2, <3>3, <3>4
    <3>6. QED BY <3>1, <3>5
  <2> HIDE DEF S
  <2>3. \A i \in 0 .. n : i \in S
    BY <1>0, <2>1, <2>2, BoundedInduction
  <2>4. QED BY <2>3 DEF S
<1>3. ASSUME NEW i \in 1 .. n PROVE (sum[n] \div Power(i - 1)) % ByteModulus = bytes[i]
  <2> DEFINE P == Power(i - 1)
             d == bytes[i]
             low == sum[i - 1]
             Above(m) == \E h \in Nat : sum[m] = (h * ByteModulus + d) * P + low
             S == {k \in 0 .. n - i : Above(i + k)}
  <2>0. i \in Nat /\ i - 1 \in Nat /\ n - i \in Nat /\ i - 1 \in 0 .. n /\ (i - 1) + 1 = i
    BY <1>0
  <2>1. P \in Nat \ {0} /\ d \in 0 .. ByteModulus - 1 /\ low \in 0 .. P - 1
        /\ Power(i) = ByteModulus * P
    <3>1. P \in Nat \ {0} /\ Power((i - 1) + 1) = ByteModulus * P
      BY <2>0, PowerNat, PowerNext
    <3>2. low \in Nat /\ low < P
      BY <1>1, <1>2, <2>0
    <3>3. QED BY <1>0, <2>0, <3>1, <3>2
  <2>2. 0 \in S
    <3>1. sum[i] = low + d * P
      BY <1>1
    <3> HIDE DEF P, d, low
    <3>2. sum[i + 0] = (0 * ByteModulus + d) * P + low
      <4>1. d * P \in Nat /\ 0 * ByteModulus + d = d /\ low \in Nat /\ i + 0 = i
        BY <1>0, <2>0, <2>1
      <4>2. QED BY <3>1, <4>1
    <3>3. QED BY <2>0, <3>2
  <2>3. ASSUME NEW k \in Nat, k \in S, k + 1 <= n - i PROVE k + 1 \in S
    <3> DEFINE m == i + k
               e == bytes[i + k + 1]
    <3>1. m \in Nat /\ m + 1 \in 1 .. n /\ (m + 1) - 1 = m /\ m + 1 = i + (k + 1) /\ m \in 0 .. n
      BY <2>0, <2>3
    <3>2. PICK h \in Nat : sum[m] = (h * ByteModulus + d) * P + low
      BY <2>3
    <3>3. PICK c \in Nat : Power(m) = c * (ByteModulus * P)
      <4>1. \E c \in Nat : Power(i + k) = c * Power(i)
        BY <2>0, <2>3, PowerAbove
      <4>2. QED BY <2>1, <4>1
    <3>4. sum[m + 1] = sum[m] + e * Power(m) /\ e \in Nat
      <4>1. sum[m + 1] = sum[(m + 1) - 1] + bytes[m + 1] * Power((m + 1) - 1)
        BY <1>1, <3>1
      <4>2. e = bytes[m + 1] /\ e \in Nat
        BY <1>0, <3>1
      <4> HIDE DEF m, e
      <4>3. QED BY <3>1, <4>1, <4>2
    <3> HIDE DEF m, e, P, d, low
    <3>5. \A a, b, x, y, z, B, Q \in Nat :
            ((a * B + x) * Q + y) + z * (b * (B * Q)) = ((a + z * b) * B + x) * Q + y
      OBVIOUS
    <3>6. sum[m + 1] = ((h + e * c) * ByteModulus + d) * P + low
      BY <1>0, <2>1, <3>2, <3>3, <3>4, <3>5
    <3>7. h + e * c \in Nat
      BY <3>4
    <3>8. \E u \in Nat : sum[i + (k + 1)] = (u * ByteModulus + d) * P + low
      BY <3>1, <3>6, <3>7
    <3>9. QED BY <2>0, <2>3, <3>8
  <2> HIDE DEF S
  <2>4. \A k \in 0 .. n - i : k \in S
    BY <2>0, <2>2, <2>3, BoundedInduction
  <2>5. PICK h \in Nat : sum[n] = (h * ByteModulus + d) * P + low
    <3>1. n - i \in 0 .. n - i /\ i + (n - i) = n
      BY <1>0, <2>0
    <3>2. Above(i + (n - i))
      BY <2>4, <3>1 DEF S
    <3>3. QED BY <3>1, <3>2
  <2> HIDE DEF P, d, low
  <2>6. h * ByteModulus + d \in Nat
    BY <1>0, <2>1
  <2>7. sum[n] \div P = h * ByteModulus + d
    BY <2>1, <2>5, <2>6, QuotientIs
  <2>8. (h * ByteModulus + d) % ByteModulus = d
    BY <1>0, <2>1, QuotientIs
  <2>9. QED BY <2>7, <2>8 DEF P, d
<1>4. ToBytes(FromBytes(bytes), n) = [i \in 1 .. n |-> (sum[n] \div Power(i - 1)) % ByteModulus]
  BY <1>1 DEF ToBytes
<1>5. bytes = [i \in 1 .. n |-> bytes[i]]
  OBVIOUS
<1>6. sum[n] \in 0 .. Power(n) - 1
  <2>1. n \in 0 .. n /\ Power(n) \in Nat
    BY <1>0, PowerNat
  <2>2. sum[n] \in Nat /\ sum[n] < Power(n)
    BY <1>1, <1>2, <2>1
  <2>3. QED BY <2>1, <2>2
<1>7. QED BY <1>1, <1>3, <1>4, <1>5, <1>6

(* Bytes that are taken apart into numbers are put together again.           *)
LEMMA PackedBack ==
  ASSUME NEW size \in Nat \ {0}, NEW n \in Nat, NEW bytes \in Seq(Byte), Len(bytes) = n * size,
         NEW v, v = Unpacked(bytes, size, n)
  PROVE  v \in [1 .. n -> 0 .. Power(size) - 1] /\ Packed(v, size) = bytes
<1> DEFINE Part(i) == SubSeq(bytes, (i - 1) * size + 1, i * size)
<1>1. ASSUME NEW i \in 1 .. n
      PROVE  /\ v[i] = FromBytes(Part(i)) /\ v[i] \in 0 .. Power(size) - 1
             /\ ToBytes(v[i], size) = Part(i)
             /\ \A j \in 1 .. size : Part(i)[j] = bytes[(i - 1) * size + j]
  <2> DEFINE a == (i - 1) * size
             e == i * size
             m == n * size
             part == SubSeq(bytes, a + 1, e)
  <2>1. a \in Nat /\ e \in Nat /\ m \in Nat /\ e = a + size /\ e <= m
    <3>1. i \in Nat /\ i - 1 \in Nat /\ n - i \in Nat
      OBVIOUS
    <3>2. i * size = (i - 1) * size + size /\ n * size = (n - i) * size + i * size
      BY <3>1
    <3>3. (i - 1) * size \in Nat /\ (n - i) * size \in Nat /\ n * size \in Nat
      BY <3>1, Factor
    <3>4. QED BY <3>1, <3>2, <3>3
  <2>2. v[i] = FromBytes(part)
    <3>1. v[i] = IF e <= Len(bytes) THEN FromBytes(part) ELSE 0
      BY DEF Unpacked
    <3> HIDE DEF a, e, m, part
    <3>2. e <= Len(bytes)
      BY <2>1 DEF m
    <3>3. QED BY <3>1, <3>2
  <2> HIDE DEF a, e, m
  <2>3. part \in Seq(Byte) /\ Len(part) = size /\ \A j \in 1 .. size : part[j] = bytes[a + j]
    <3>0. Len(bytes) = m
      BY DEF m
    <3>1. part = [j \in 1 .. (e - (a + 1)) + 1 |-> bytes[(j + (a + 1)) - 1]]
      BY <2>1, <3>0
    <3>2. (e - (a + 1)) + 1 = size /\ \A j \in 1 .. size : (j + (a + 1)) - 1 = a + j /\ a + j \in 1 .. m
      BY <2>1
    <3>3. part = [j \in 1 .. size |-> bytes[a + j]]
      BY <3>1, <3>2
    <3>4. \A j \in 1 .. size : bytes[a + j] \in Byte
      BY <3>0, <3>2
    <3> HIDE DEF part
    <3>5. QED BY <3>3, <3>4
  <2> HIDE DEF part
  <2>4. FromBytes(part) \in 0 .. Power(size) - 1 /\ ToBytes(FromBytes(part), size) = part
    <3>1. \A k : k = Len(part) =>
            FromBytes(part) \in 0 .. Power(k) - 1 /\ ToBytes(FromBytes(part), k) = part
      BY <2>3, BytesNumber
    <3>2. QED BY <2>3, <3>1
  <2>5. QED BY <2>2, <2>3, <2>4 DEF part, a, e
<1>2. v \in [1 .. n -> 0 .. Power(size) - 1]
  <2>1. v = [i \in 1 .. n |-> v[i]]
    BY DEF Unpacked
  <2>2. QED BY <1>1, <2>1
<1> HIDE DEF Part
<1>3. Len(v) = n
  BY <1>2
<1>4. ASSUME NEW k \in 1 .. n * size
      PROVE  ToBytes(v[((k - 1) \div size) + 1], size)[((k - 1) % size) + 1] = bytes[k]
  <2> DEFINE q == (k - 1) \div size
             r == (k - 1) % size
  <2>1. n * size \in Nat /\ k - 1 \in Nat /\ k - 1 < n * size
    BY Factor
  <2>2. q \in 0 .. n - 1 /\ r \in 0 .. size - 1
    <3>1. \A a \in Nat : a < n * size => a \div size \in 0 .. n - 1 /\ a % size \in 0 .. size - 1
      BY Quotient
    <3>2. QED BY <2>1, <3>1
  <2>3. k - 1 = size * q + r
    <3>1. \A a \in Nat : a = size * (a \div size) + (a % size)
      OBVIOUS
    <3>2. QED BY <2>1, <3>1
  <2> HIDE DEF q, r
  <2>4. q + 1 \in 1 .. n /\ r + 1 \in 1 .. size /\ (q + 1) - 1 = q
    BY <2>2
  <2>5. q * size + (r + 1) = k
    <3>1. size * q = q * size /\ q * size \in Int
      BY <2>2
    <3>2. QED BY <2>2, <2>3, <3>1
  <2>6. ToBytes(v[q + 1], size)[r + 1] = bytes[((q + 1) - 1) * size + (r + 1)]
    BY <1>1, <2>4
  <2>7. QED BY <2>4, <2>5, <2>6 DEF q, r
<1>5. Packed(v, size) =
        [k \in 1 .. n * size |-> ToBytes(v[((k - 1) \div size) + 1], size)[((k - 1) % size) + 1]]
  BY <1>3 DEF Packed
<1>6. bytes = [k \in 1 .. n * size |-> bytes[k]]
  OBVIOUS
<1>7. QED BY <1>2, <1>4, <1>5, <1>6

(* Where the same bytes are stored, memories are the same.                   *)
LEMMA StoredBoth ==
  ASSUME NEW memory, NEW other, NEW b \in Nat, NEW bytes, NEW n \in Nat, n = Len(bytes),
         Stored(memory, b, bytes), Stored(other, b, bytes)
  PROVE  Same(memory, other, b, n)
<1>1. ASSUME NEW a \in Address, a \in b .. b + n - 1 PROVE memory[a] = other[a]
  <2> DEFINE i == a - b + 1
  <2>1. i \in 1 .. n /\ b + i - 1 = a
    BY <1>1
  <2> HIDE DEF i
  <2>2. QED BY <2>1 DEF Stored
<1>2. QED BY <1>1 DEF Same

LEMMA SameJoined ==
  ASSUME NEW memory, NEW other, NEW b \in Nat, NEW k \in Nat, NEW m \in Nat, NEW c, c = b + k,
         Same(memory, other, b, k), Same(memory, other, c, m)
  PROVE  Same(memory, other, b, k + m)
<1>1. ASSUME NEW a \in Address, a \in b .. b + (k + m) - 1
      PROVE  a \in b .. b + k - 1 \/ a \in c .. c + m - 1
  BY <1>1
<1>2. QED BY <1>1 DEF Same

(* r has read x from n bytes of s. *)
Gives(s, r, n, x) == Back(s, r, n, x) /\ s.at + n <= s.end

LEMMA TakeGives ==
  ASSUME NEW s, Within(s), NEW n \in Nat, NEW r, r = take(s, n), ~Thrown(r)
  PROVE  \E bytes \in Seq(Byte) :
           Len(bytes) = n /\ Stored(s.memory, s.at, bytes) /\ Gives(s, r, n, bytes)
<1> DEFINE bytes == [i \in 1 .. n |-> s.memory[s.at + i - 1]]
<1>1. PICK V : s \in Streams(V)
  BY DEF Within, IsStream
<1>2. s.at + n <= s.end /\ s.at \in Nat /\ s.end \in Nat /\ s.memory \in [Address -> Byte]
  <2>1. Thrown(take(s, n)) <=> Thrown(s) \/ s.at + n > s.end
    BY Took DEF Within
  <2>2. s.at \in Nat /\ s.end \in Nat /\ s.memory \in [Address -> Byte]
    BY <1>1 DEF Streams
  <2>3. QED BY <2>1, <2>2
<1>3. ASSUME NEW i \in 1 .. n PROVE bytes[i] \in Byte
  <2>1. s.at + i - 1 \in Address
    BY <1>2, SerializationAssumption DEF Address, Within
  <2>2. QED BY <1>2, <2>1
<1>4. bytes \in Seq(Byte) /\ Len(bytes) = n
  BY <1>3
<1>5. Stored(s.memory, s.at, bytes)
  BY <1>4 DEF Stored
<1> HIDE DEF bytes
<1>6. Back(s, take(s, n), n, bytes)
  BY <1>4, <1>5, TakeBack
<1>7. QED BY <1>2, <1>4, <1>5, <1>6 DEF Gives

LEMMA SimpleGives ==
  ASSUME NEW s, Within(s), NEW size \in Nat, NEW r, r = simpleRead(s, size), ~Thrown(r)
  PROVE  \E v \in 0 .. Power(size) - 1 :
           Stored(s.memory, s.at, ToBytes(v, size)) /\ Gives(s, r, size, v)
<1> DEFINE read == take(s, size)
<1>1. r = Convert(read, FromBytes(LastRead(read)))
  BY DEF simpleRead
<1>2. IsStream(s) /\ IsStream(read)
  BY Took DEF Within
<1> HIDE DEF read
<1>3. ~Thrown(read)
  BY <1>1, <1>2, Converted
<1>4. PICK bytes \in Seq(Byte) :
        Len(bytes) = size /\ Stored(s.memory, s.at, bytes) /\ Gives(s, read, size, bytes)
  BY <1>3, TakeGives DEF read
<1> DEFINE v == FromBytes(bytes)
<1>5. v \in 0 .. Power(size) - 1 /\ ToBytes(v, size) = bytes
  <2>1. \A n : n = Len(bytes) =>
          FromBytes(bytes) \in 0 .. Power(n) - 1 /\ ToBytes(FromBytes(bytes), n) = bytes
    BY BytesNumber
  <2>2. QED BY <1>4, <2>1
<1> HIDE DEF v
<1>6. Back(s, r, size, v)
  BY <1>4, <1>5, SimpleBack
<1>7. QED BY <1>4, <1>5, <1>6 DEF Gives

(* Whoever writes x at b, and has room for it, puts there the n bytes that   *)
(* are in memory.                                                            *)
Again(loop, memory, b, i, type, n, x) ==
  \A w, v : /\ Sound(w) /\ w.end <= Capacity /\ w.at = b /\ v[i] = x
            /\ ~Thrown(Called(loop, w, i, type, v))
            => Same(Called(loop, w, i, type, v).memory, memory, b, n)

OfBool(type) == type = Bool \/ (type.kind \in {"vector", "array"} /\ type.of = Bool)

(* x, read by a call of a loop from n bytes at b, is of the type that was    *)
(* asked for, and these bytes are the ones that x is written as.             *)
Accepts(loop, memory, b, i, type, n, x) ==
  CASE loop = "fixedRead" ->
         x \in Byte /\ n = 1 /\ Again("fixedWrite", memory, b, i, type, n, x)
    [] loop = "readAll" ->
         /\ x \in ElementValues(type) /\ n = ElementSize(type, x)
         /\ type # Bool /\ n < UintModulus => Again("writeAll", memory, b, i, type, n, x)
    [] loop = "deserialize" ->
         /\ x \in MemberValues(type[i])
         /\ type[i].kind = "vector" => Len(x) < UintModulus
         /\ MemberSize(type[i], x) < UintModulus =>
              /\ n = MemberSize(type[i], x)
              /\ OfBool(type[i]) \/ Again("serialize", memory, b, i, type, n, x)

(* A loop that comes to its end has read a value with each of its calls.     *)
LEMMA LoopAccepts ==
  ASSUME NEW loop, NEW s, Within(s), s.got = <<>>, NEW type, NEW n \in Nat,
         NEW after, Iterates(loop, s, type, 0, n, after), ~Thrown(after[n]),
         \A w : \A i \in 1 .. n :
           Within(w) /\ w.full = s.full /\ ~Thrown(Called(loop, w, i, type, 0)) =>
             \E m \in Nat : \E x : /\ Gives(w, Called(loop, w, i, type, 0), m, x)
                                   /\ Accepts(loop, w.memory, w.at, i, type, m, x)
  PROVE  \E A, g, v :
           /\ \A i \in 1 .. n : A[i] \in Nat
           /\ Sums(A, n, g)
           /\ Filled(s, after[n], g[n], Firsts(v, n)) /\ s.at + g[n] <= s.end
           /\ \A i \in 1 .. n : Accepts(loop, s.memory, s.at + g[i - 1], i, type, A[i], v[i])
<1> DEFINE g == [i \in 0 .. n |-> after[i].at - s.at]
           A == [i \in 1 .. n |-> g[i] - g[i - 1]]
           v == [i \in 1 .. n |-> LastRead(after[i])]
           Done(i) == /\ Filled(s, after[i], g[i], Firsts(v, i)) /\ s.at + g[i] <= s.end
                      /\ g[i] \in Nat
                      /\ \A j \in 1 .. i : /\ A[j] \in Nat /\ g[j] = g[j - 1] + A[j]
                                           /\ Accepts(loop, s.memory, s.at + g[j - 1], j, type, A[j], v[j])
           S == {i \in 0 .. n : ~Thrown(after[i]) => Done(i)}
<1>0. after[0] = s /\ \A i \in 1 .. n : after[i] = Iteration(loop, after[i - 1], i, type, 0)
  BY DEF Iterates
<1>s. PICK V : s \in Streams(V)
  BY DEF Within, IsStream
<1>t. s.at \in Nat /\ s.end \in Nat
  BY <1>s DEF Streams
<1>g. \A i \in 0 .. n : g[i] = after[i].at - s.at
  OBVIOUS
<1>a. \A i \in 1 .. n : A[i] = g[i] - g[i - 1] /\ v[i] = LastRead(after[i])
  OBVIOUS
<1> HIDE DEF g, A, v
<1>1. 0 \in S
  <2>1. g[0] = 0
    BY <1>0, <1>t, <1>g
  <2>2. Firsts(v, 0) = <<>>
    BY FirstsNext
  <2>3. Filled(s, after[0], g[0], Firsts(v, 0)) /\ s.at + g[0] <= s.end
    BY <1>0, <1>t, <2>1, <2>2 DEF Filled, Within
  <2>4. QED BY <2>1, <2>3
<1>2. ASSUME NEW i \in Nat, i \in S, i + 1 <= n PROVE i + 1 \in S
  <2>1. i + 1 \in 1 .. n /\ (i + 1) - 1 = i /\ i \in 0 .. n /\ i + 1 \in 0 .. n
    BY <1>2
  <2> DEFINE w == after[i]
             r == after[i + 1]
             c == Called(loop, w, i + 1, type, 0)
  <2>2. r = Iteration(loop, w, i + 1, type, 0)
    <3>1. r = Iteration(loop, after[(i + 1) - 1], i + 1, type, 0)
      BY <1>0, <2>1
    <3>2. QED BY <2>1, <3>1
  <2>3. SUFFICES ASSUME ~Thrown(r) PROVE Done(i + 1)
    BY <2>1
  <2>4. ~Thrown(w) /\ r = c
    BY <2>2, <2>3 DEF Iteration
  <2>5. Done(i)
    BY <1>2, <2>4
  <2>6. /\ IsStream(w) /\ w.end = s.end /\ w.full = s.full
        /\ w.at = s.at + g[i] /\ w.memory = s.memory /\ w.got = Firsts(v, i)
        /\ g[i] \in Nat /\ w.at <= w.end
    BY <1>t, <2>5 DEF Filled
  <2>7. Within(w)
    BY <2>4, <2>6 DEF Within
  <2>m. PICK m \in Nat :
          \E x : Gives(w, c, m, x) /\ Accepts(loop, w.memory, w.at, i + 1, type, m, x)
    BY <2>1, <2>3, <2>4, <2>6, <2>7
  <2>8. PICK x : Gives(w, c, m, x) /\ Accepts(loop, w.memory, w.at, i + 1, type, m, x)
    BY <2>m
  <2> HIDE DEF w, r, c
  <2>9. /\ IsStream(r) /\ r.end = s.end /\ r.full = s.full /\ ~Thrown(r)
        /\ r.at = w.at + m /\ r.memory = s.memory /\ r.got = Append(Firsts(v, i), x)
        /\ r.at <= s.end
    BY <2>4, <2>6, <2>8 DEF Gives, Back
  <2>10. g[i + 1] = g[i] + m /\ A[i + 1] = m
    <3>1. g[i + 1] = r.at - s.at
      BY <1>g, <2>1 DEF r
    <3>2. g[i + 1] = g[i] + m
      BY <1>t, <2>6, <2>9, <3>1
    <3>3. A[i + 1] = g[i + 1] - g[(i + 1) - 1]
      BY <1>a, <2>1
    <3>4. QED BY <2>1, <2>6, <3>2, <3>3
  <2>11. v[i + 1] = x
    <3>1. v[i + 1] = LastRead(r)
      BY <1>a, <2>1 DEF r
    <3>2. Firsts(v, i) \in Seq({v[j] : j \in 1 .. i}) 
      BY DEF Firsts
    <3>3. LastRead(r) = x
      BY <2>9, <3>2, AppendSeq DEF LastRead
    <3>4. QED BY <3>1, <3>3
  <2>12. r.got = Firsts(v, i + 1)
    BY <2>9, <2>11, FirstsNext
  <2>13. s.at + g[i + 1] = r.at
    BY <1>t, <2>6, <2>9, <2>10
  <2>14. Filled(s, r, g[i + 1], Firsts(v, i + 1)) /\ s.at + g[i + 1] <= s.end /\ g[i + 1] \in Nat
    <3>1. s.at + g[i + 1] = r.at /\ r.at <= s.end /\ g[i + 1] \in Nat
      BY <2>6, <2>8, <2>9, <2>10, <2>13
    <3>2. r.memory = s.memory /\ r.got = Firsts(v, i + 1) /\ ~Thrown(r)
      BY <2>9, <2>12
    <3>3. s.at + g[i + 1] <= s.end /\ ~(s.at + g[i + 1] > s.end)
      BY <1>t, <3>1
    <3>4. QED BY <2>9, <3>1, <3>2, <3>3 DEF Filled
  <2>15. ASSUME NEW j \in 1 .. i + 1
         PROVE  /\ A[j] \in Nat /\ g[j] = g[j - 1] + A[j]
                /\ Accepts(loop, s.memory, s.at + g[j - 1], j, type, A[j], v[j])
    <3>1. CASE j = i + 1
      BY <2>1, <2>6, <2>8, <2>10, <2>11, <3>1
    <3>2. CASE j # i + 1
      <4>1. j \in 1 .. i
        BY <3>2
      <4>2. QED BY <2>5, <4>1
    <3>3. QED BY <3>1, <3>2
  <2>16. QED BY <2>14, <2>15 DEF r
<1> HIDE DEF S
<1>3. \A i \in 0 .. n : i \in S
  BY <1>1, <1>2, BoundedInduction
<1>4. Done(n)
  BY <1>3 DEF S
<1>5. Sums(A, n, g)
  <2>1. g = [i \in 0 .. n |-> g[i]]
    BY DEF g
  <2>2. g[0] = 0
    BY <1>0, <1>t, <1>g
  <2>3. \A i \in 0 .. n : g[i] = IF i = 0 THEN 0 ELSE g[i - 1] + A[i]
    BY <1>4, <2>2
  <2>4. QED BY <2>1, <2>3 DEF Sums
<1>6. QED BY <1>4, <1>5

(* A loop of calls that each put the same bytes puts the same bytes.         *)
LEMMA LoopAgain ==
  ASSUME NEW loop, NEW s, NEW type, NEW v, NEW n \in Nat, NEW after,
         Iterates(loop, s, type, v, n, after), Sound(s), s.end <= Capacity,
         NEW T, \A i \in 1 .. n : T[i] \in Nat, NEW g, Sums(T, n, g), NEW memory,
         \A w : \A i \in 1 .. n : Sound(w) => Writes(w, Called(loop, w, i, type, v), T[i]),
         \A w : \A i \in 1 .. n :
           Sound(w) /\ w.end <= Capacity /\ ~Thrown(Called(loop, w, i, type, v)) =>
             Frames(w, Called(loop, w, i, type, v), T[i]),
         \A i \in 1 .. n : Again(loop, memory, s.at + g[i - 1], i, type, T[i], v[i])
  PROVE  ~Thrown(after[n]) => Same(after[n].memory, memory, s.at, g[n])
<1> DEFINE S == {i \in 0 .. n : /\ Writes(s, after[i], g[i])
                                /\ ~Thrown(after[i]) => Same(after[i].memory, memory, s.at, g[i])}
<1>0. after[0] = s /\ \A i \in 1 .. n : after[i] = Iteration(loop, after[i - 1], i, type, v)
  BY DEF Iterates
<1>s. s.at \in Nat /\ s.end \in Nat
  BY DEF Sound, IsStream, Streams
<1>t. /\ g \in [0 .. n -> Nat] /\ g[0] = 0
      /\ \A i \in 1 .. n : g[i] = g[i - 1] + T[i]
  <2>1. Totals(T, n, g)
    BY SumsTotal
  <2>2. QED BY <2>1 DEF Totals
<1>1. 0 \in S
  <2>1. Writes(s, after[0], g[0])
    BY <1>0, <1>t, WritesNothing
  <2>2. Same(after[0].memory, memory, s.at, g[0])
    BY <1>s, <1>t DEF Same
  <2>3. QED BY <2>1, <2>2
<1>2. ASSUME NEW i \in Nat, i \in S, i + 1 <= n PROVE i + 1 \in S
  <2>1. i + 1 \in 1 .. n /\ (i + 1) - 1 = i /\ i \in 0 .. n
    BY <1>2
  <2> DEFINE w == after[i]
             r == after[i + 1]
             c == Called(loop, w, i + 1, type, v)
  <2>2. r = Iteration(loop, w, i + 1, type, v)
    <3>1. r = Iteration(loop, after[(i + 1) - 1], i + 1, type, v)
      BY <1>0, <2>1
    <3>2. QED BY <2>1, <3>1
  <2>3. g[i + 1] = g[i] + T[i + 1] /\ g[i] \in Nat /\ T[i + 1] \in Nat
    <3>1. g[i + 1] = g[(i + 1) - 1] + T[i + 1] /\ g[i] \in Nat /\ T[i + 1] \in Nat
      BY <1>t, <2>1
    <3>2. QED BY <2>1, <3>1
  <2>4. /\ Writes(s, w, g[i]) /\ Sound(w) /\ w.end = s.end
        /\ ~Thrown(w) => w.at = s.at + g[i] /\ Same(w.memory, memory, s.at, g[i])
    BY <1>2 DEF Writes
  <2>5. Writes(w, r, T[i + 1])
    <3>1. Writes(w, c, T[i + 1])
      BY <2>1, <2>4
    <3>2. CASE ~Thrown(w)
      BY <2>2, <3>1, <3>2 DEF Iteration
    <3>3. CASE Thrown(w)
      BY <2>2, <3>3 DEF Iteration, Writes
    <3>4. QED BY <3>2, <3>3
  <2>6. Writes(s, r, g[i + 1])
    BY <2>3, <2>4, <2>5, WritesOn
  <2>7. ASSUME ~Thrown(r) PROVE Same(r.memory, memory, s.at, g[i + 1])
    <3>1. ~Thrown(w) /\ r = c
      BY <2>2, <2>7 DEF Iteration
    <3>2. Frames(w, r, T[i + 1])
      BY <2>1, <2>4, <2>7, <3>1
    <3>3. w.at = s.at + g[i] /\ Same(w.memory, memory, s.at, g[i])
      BY <2>4, <3>1
    <3>4. Same(r.memory, memory, w.at, T[i + 1])
      <4>1. Again(loop, memory, s.at + g[(i + 1) - 1], i + 1, type, T[i + 1], v[i + 1])
        BY <2>1
      <4>2. QED BY <2>1, <2>4, <2>7, <3>1, <3>3, <4>1 DEF Again
    <3> HIDE DEF w, r, c
    <3>5. Same(r.memory, w.memory, s.at, g[i])
      BY <1>s, <2>3, <3>2, <3>3, FramedSame
    <3>6. Same(r.memory, memory, s.at, g[i])
      BY <3>3, <3>5 DEF Same
    <3>7. Same(r.memory, memory, s.at, g[i] + T[i + 1])
      BY <1>s, <2>3, <3>3, <3>4, <3>6, SameJoined
    <3>8. QED BY <2>3, <3>7
  <2>8. QED BY <2>1, <2>6, <2>7
<1> HIDE DEF S
<1>3. \A i \in 0 .. n : i \in S
  BY <1>1, <1>2, BoundedInduction
<1>4. n \in S
  BY <1>3
<1>5. QED BY <1>4 DEF S

-----------------------------------------------------------------------------
(* Reading what could have been written: what every type's reader accepts is *)
(* a value of the type, from the bytes that the type's writer puts for it.   *)

LEMMA ByteNumbers == Byte = 0 .. Power(1) - 1
<1>1. Power(0 + 1) = ByteModulus * Power(0) /\ Power(0) = 1 /\ 0 + 1 = 1
  BY PowerNext
<1>2. Power(1) = ByteModulus
  BY <1>1, SerializationAssumption
<1>3. QED BY <1>2 DEF Byte

LEMMA SimpleAgain ==
  ASSUME NEW s, Sound(s), s.end <= Capacity, NEW size \in Nat, NEW v \in 0 .. Power(size) - 1,
         NEW r, r = simpleWrite(s, size, v), ~Thrown(r),
         NEW memory, Stored(memory, s.at, ToBytes(v, size))
  PROVE  Same(r.memory, memory, s.at, size)
<1>1. Stored(r.memory, s.at, ToBytes(v, size))
  BY SimpleLeaves
<1>2. Len(ToBytes(v, size)) = size
  <2>1. Power(size) \in Nat
    BY PowerNat
  <2>2. v \in Int
    BY <2>1
  <2>3. QED BY <2>2, ToBytesBytes
<1>3. s.at \in Nat
  BY DEF Sound, IsStream, Streams
<1>4. QED BY <1>1, <1>2, <1>3, StoredBoth

(* A length that is written before other bytes. *)
LEMMA PrefixAgain ==
  ASSUME NEW s, Sound(s), s.end <= Capacity, NEW len \in 0 .. UintModulus - 1,
         NEW p, p = simpleWrite(s, LengthSize, len),
         NEW r, NEW n \in Nat, Writes(p, r, n), ~Thrown(r), Frames(p, r, n),
         NEW memory, Stored(memory, s.at, ToBytes(len, LengthSize)),
         Same(r.memory, memory, p.at, n)
  PROVE  Same(r.memory, memory, s.at, LengthSize + n)
<1>0. len \in Int /\ LengthSize \in Nat
  BY UintNat
<1>1. /\ p.at = s.at + LengthSize /\ s.at \in Nat
      /\ Stored(r.memory, s.at, ToBytes(len, LengthSize))
  BY PrefixLeaves
<1>2. Len(ToBytes(len, LengthSize)) = LengthSize
  BY <1>0, ToBytesBytes
<1>3. Same(r.memory, memory, s.at, LengthSize)
  BY <1>0, <1>1, <1>2, StoredBoth
<1>4. QED BY <1>0, <1>1, <1>3, SameJoined

LEMMA BoolGives ==
  ASSUME NEW s, Within(s), NEW r, r = boolRead(s), ~Thrown(r)
  PROVE  \E v \in BOOLEAN : Gives(s, r, 1, v)
<1> DEFINE read == take(s, 1)
           v == LastRead(read) # <<0>>
<1>1. r = Convert(read, v)
  BY DEF boolRead
<1>2. IsStream(s) /\ IsStream(read)
  BY Took DEF Within
<1>3. v \in BOOLEAN
  OBVIOUS
<1> HIDE DEF read, v
<1>4. ~Thrown(read)
  BY <1>1, <1>2, Converted
<1>5. PICK bytes \in Seq(Byte) : Gives(s, read, 1, bytes)
  BY <1>4, TakeGives DEF read
<1>6. Back(s, r, 1, v)
  BY <1>1, <1>2, <1>5, ConvertBack DEF Gives
<1>7. QED BY <1>3, <1>5, <1>6 DEF Gives

(* The stream a loop of reads came to, and the call the loop belongs to.     *)
LEMMA Gathered ==
  ASSUME NEW s, Within(s), NEW f, Reads([s EXCEPT !.got = <<>>], f),
         NEW r, r = [f EXCEPT !.got = Append(s.got, f.got)], ~Thrown(r)
  PROVE  ~Thrown(f)
<1>1. IsStream([s EXCEPT !.got = <<>>])
  BY EmptyWithin DEF Within
<1>2. IsStream(f)
  BY <1>1 DEF Reads, Keeps
<1>3. PICK W : f \in Streams(W)
  BY <1>2 DEF IsStream
<1> DEFINE q == Append(s.got, f.got)
<1>4. r = [f EXCEPT !.got = q]
  OBVIOUS
<1> HIDE DEF q
<1>5. r.exception = f.exception
  BY <1>3, <1>4 DEF Streams
<1>6. QED BY <1>5 DEF Thrown

LEMMA FixedGives ==
  ASSUME NEW s, Within(s), NEW size \in Nat, NEW r, r = fixedRead(s, size), ~Thrown(r)
  PROVE  \E x \in [1 .. size -> Byte] :
           /\ Gives(s, r, size, x)
           /\ \A w : Sound(w) /\ w.end <= Capacity /\ w.at = s.at /\ ~Thrown(fixedWrite(w, size, x))
                => Same(fixedWrite(w, size, x).memory, s.memory, s.at, size)
<1> DEFINE t == [s EXCEPT !.got = <<>>]
<1>1. PICK read : /\ Iterates("fixedRead", t, 0, 0, size, read)
                  /\ fixedRead(s, size) = [read[size] EXCEPT !.got = Append(s.got, read[size].got)]
  BY FixedReadLoop
<1>2. Within(t) /\ t.got = <<>> /\ t.memory = s.memory /\ t.at = s.at /\ t.end = s.end /\ t.full = s.full
  BY EmptyWithin
<1> DEFINE f == read[size]
<1>3. r = [f EXCEPT !.got = Append(s.got, f.got)]
  BY <1>1
<1> HIDE DEF t
<1>4. Reads(t, f)
  <2>1. \A w : \A i \in 1 .. size : IsStream(w) => Reads(w, Called("fixedRead", w, i, 0, 0))
    BY SimpleReads DEF Called
  <2>2. QED BY <1>1, <1>2, <2>1, LoopReads DEF Within
<1>5. ~Thrown(f)
  <2> HIDE DEF f
  <2>1. Reads([s EXCEPT !.got = <<>>], f)
    BY <1>4 DEF t
  <2>2. QED BY <1>3, <2>1, Gathered
<1>6. \A w : \A i \in 1 .. size :
        Within(w) /\ w.full = t.full /\ ~Thrown(Called("fixedRead", w, i, 0, 0)) =>
          \E m \in Nat : \E x : /\ Gives(w, Called("fixedRead", w, i, 0, 0), m, x)
                                /\ Accepts("fixedRead", w.memory, w.at, i, 0, m, x)
  <2> SUFFICES ASSUME NEW w, NEW i \in 1 .. size, Within(w), ~Thrown(simpleRead(w, 1))
               PROVE  \E m \in Nat : \E x : /\ Gives(w, simpleRead(w, 1), m, x)
                                            /\ Accepts("fixedRead", w.memory, w.at, i, 0, m, x)
    BY DEF Called
  <2>1. PICK x \in 0 .. Power(1) - 1 :
          Stored(w.memory, w.at, ToBytes(x, 1)) /\ Gives(w, simpleRead(w, 1), 1, x)
    BY SimpleGives
  <2>2. Again("fixedWrite", w.memory, w.at, i, 0, 1, x)
    <3> SUFFICES ASSUME NEW u, NEW v, Sound(u), u.end <= Capacity, u.at = w.at, v[i] = x,
                        ~Thrown(simpleWrite(u, 1, x))
                 PROVE  Same(simpleWrite(u, 1, x).memory, w.memory, w.at, 1)
      BY DEF Again, Called
    <3>1. QED BY <2>1, SimpleAgain
  <2>3. Accepts("fixedRead", w.memory, w.at, i, 0, 1, x)
    BY <2>1, <2>2, ByteNumbers DEF Accepts
  <2>4. QED BY <2>1, <2>3
<1>7. PICK A, g, v :
        /\ \A i \in 1 .. size : A[i] \in Nat
        /\ Sums(A, size, g)
        /\ Filled(t, f, g[size], Firsts(v, size)) /\ t.at + g[size] <= t.end
        /\ \A i \in 1 .. size : Accepts("fixedRead", t.memory, t.at + g[i - 1], i, 0, A[i], v[i])
  BY <1>1, <1>2, <1>5, <1>6, LoopAccepts
<1> HIDE DEF f
<1>8. \A i \in 1 .. size : /\ v[i] \in Byte /\ A[i] = 1
                           /\ Again("fixedWrite", s.memory, s.at + g[i - 1], i, 0, A[i], v[i])
  BY <1>2, <1>7 DEF Accepts
<1>9. g[size] = size
  <2>1. g[size] = size * 1
    BY <1>7, <1>8, TotalEqual
  <2>2. QED BY <2>1
<1> DEFINE x == Firsts(v, size)
<1>10. x \in [1 .. size -> Byte] /\ \A i \in 1 .. size : x[i] = v[i]
  BY <1>8 DEF Firsts
<1> HIDE DEF x
<1>11. Gives(s, r, size, x)
  <2>1. Filled([s EXCEPT !.got = <<>>], f, size, x)
    BY <1>7, <1>9 DEF t, x
  <2>2. Back(s, [f EXCEPT !.got = Append(s.got, f.got)], size, x)
    BY <2>1, CollectedBack
  <2>3. QED BY <1>2, <1>3, <1>7, <1>9, <2>2 DEF Gives
<1>12. ASSUME NEW w, Sound(w), w.end <= Capacity, w.at = s.at, ~Thrown(fixedWrite(w, size, x))
       PROVE  Same(fixedWrite(w, size, x).memory, s.memory, s.at, size)
  <2>1. PICK after : /\ Iterates("fixedWrite", w, 0, x, size, after)
                     /\ fixedWrite(w, size, x) = after[size]
    BY FixedWriteLoop
  <2>2. \A i \in 1 .. size : x[i] \in Int /\ x[i] \in 0 .. Power(1) - 1
    BY <1>10, ByteNumbers, ByteNat
  <2>3. \A u : \A i \in 1 .. size : Sound(u) => Writes(u, Called("fixedWrite", u, i, 0, x), A[i])
    BY <1>8, <2>2, SimpleWrites DEF Called, Sound
  <2>4. \A u : \A i \in 1 .. size :
          Sound(u) /\ u.end <= Capacity /\ ~Thrown(Called("fixedWrite", u, i, 0, x)) =>
            Frames(u, Called("fixedWrite", u, i, 0, x), A[i])
    <3> SUFFICES ASSUME NEW u, NEW i \in 1 .. size, Sound(u), u.end <= Capacity,
                        ~Thrown(simpleWrite(u, 1, x[i]))
                 PROVE  Frames(u, simpleWrite(u, 1, x[i]), 1)
      BY <1>8 DEF Called
    <3>1. QED BY <2>2, SimpleLeaves
  <2>5. \A i \in 1 .. size : Again("fixedWrite", s.memory, w.at + g[i - 1], i, 0, A[i], x[i])
    BY <1>8, <1>10, <1>12
  <2>6. ~Thrown(after[size]) => Same(after[size].memory, s.memory, w.at, g[size])
    BY <1>7, <1>12, <2>1, <2>3, <2>4, <2>5, LoopAgain
  <2>7. QED BY <1>9, <1>12, <2>1, <2>6
<1>13. QED BY <1>10, <1>11, <1>12

(* A length that is read before other bytes. *)
LEMMA PrefixGives ==
  ASSUME NEW s, Within(s), NEW q, q = simpleRead(s, LengthSize), ~Thrown(q)
  PROVE  \E len \in 0 .. UintModulus - 1 :
           /\ Stored(s.memory, s.at, ToBytes(len, LengthSize))
           /\ LastRead(q) = len /\ MovedOn(s, Forget(q), LengthSize)
<1>1. LengthSize \in Nat
  BY UintNat
<1>2. PICK len \in 0 .. Power(LengthSize) - 1 :
        Stored(s.memory, s.at, ToBytes(len, LengthSize)) /\ Gives(s, q, LengthSize, len)
  BY <1>1, SimpleGives
<1>3. len \in 0 .. UintModulus - 1
  BY DEF UintModulus
<1>4. s.at + LengthSize <= s.end
  BY <1>2 DEF Gives
<1>5. LastRead(q) = len /\ MovedOn(s, Forget(q), LengthSize)
  BY <1>2, <1>3, <1>4, PrefixBack
<1>6. QED BY <1>2, <1>3, <1>5

LEMMA GivesOn ==
  ASSUME NEW s, Within(s), NEW n \in Nat, NEW m \in Nat, NEW f, MovedOn(s, f, n), NEW r, NEW x,
         Gives(f, r, m, x)
  PROVE  Gives(s, r, n + m, x)
<1>1. s.at \in Nat /\ s.end \in Nat
  BY DEF Within, IsStream, Streams
<1>2. s.at + (n + m) <= s.end
  BY <1>1 DEF Gives, MovedOn
<1>3. QED BY <1>2, BackOn DEF Gives

LEMMA ReserveGives ==
  ASSUME NEW s, IsStream(s), NEW n, ~Thrown(reserve(s, n))
  PROVE  reserve(s, n) = s
  BY DEF reserve, Thrown, IsStream, Streams

LEMMA StringGives ==
  ASSUME NEW s, Within(s), NEW r, r = stringRead(s), ~Thrown(r)
  PROVE  \E n \in 0 .. UintModulus - 1 : \E x \in Seq(Byte) :
           /\ Len(x) = n /\ Gives(s, r, LengthSize + n, x)
           /\ \A w : Sound(w) /\ w.end <= Capacity /\ w.at = s.at /\ ~Thrown(stringWrite(w, x))
                => Same(stringWrite(w, x).memory, s.memory, s.at, LengthSize + n)
<1> DEFINE q == simpleRead(s, LengthSize)
           f == Forget(q)
<1>1. r = IF Thrown(q) THEN q ELSE reserve(take(f, LastRead(q)), LastRead(q))
  BY DEF stringRead
<1>2. ~Thrown(q)
  BY <1>1
<1>3. PICK n \in 0 .. UintModulus - 1 :
        /\ Stored(s.memory, s.at, ToBytes(n, LengthSize))
        /\ LastRead(q) = n /\ MovedOn(s, f, LengthSize)
  BY <1>2, PrefixGives
<1> HIDE DEF q, f
<1>4. n \in Nat /\ LengthSize \in Nat /\ n < UintModulus /\ n \in Int
  BY UintNat
<1>5. Within(f) /\ f.at = s.at + LengthSize /\ f.memory = s.memory
  BY <1>3 DEF MovedOn
<1>6. r = take(f, n)
  <2>1. IsStream(take(f, n))
    BY <1>4, <1>5, Took DEF Within
  <2>2. QED BY <1>1, <1>2, <1>3, <2>1, ReserveGives
<1>7. PICK x \in Seq(Byte) : Len(x) = n /\ Stored(f.memory, f.at, x) /\ Gives(f, r, n, x)
  BY <1>4, <1>5, <1>6, TakeGives
<1>8. Gives(s, r, LengthSize + n, x)
  BY <1>3, <1>4, <1>7, GivesOn
<1>9. ASSUME NEW w, Sound(w), w.end <= Capacity, w.at = s.at, ~Thrown(stringWrite(w, x))
      PROVE  Same(stringWrite(w, x).memory, s.memory, s.at, LengthSize + n)
  <2> DEFINE p == simpleWrite(w, LengthSize, n)
             a == stringWrite(w, x)
  <2>1. a = IF n = 0 THEN p ELSE put(p, n, x)
    <3>1. Len(x) % UintModulus = n
      BY <1>4, <1>7, Unwrapped
    <3>2. QED BY <1>4, <1>7, <3>1 DEF stringWrite
  <2>2. Sound(p) /\ p.end = w.end
    <3>1. Writes(w, p, LengthSize)
      BY <1>4, <1>9, SimpleWrites DEF Sound
    <3>2. QED BY <1>9, <3>1 DEF Writes
  <2>3. ~Thrown(a)
    BY <1>9
  <2> HIDE DEF a
  <2>4. Writes(p, a, n) /\ Frames(p, a, n) /\ Stored(a.memory, p.at, x)
    <3> HIDE DEF p
    <3>1. QED BY <1>7, <1>9, <2>1, <2>2, <2>3, BodyLeaves
  <2>5. p.at = s.at + LengthSize /\ s.at \in Nat
    BY <1>4, <1>9, <2>3, <2>4, PrefixLeaves
  <2> HIDE DEF p
  <2>6. Same(a.memory, s.memory, p.at, n)
    BY <1>4, <1>5, <1>7, <2>4, <2>5, StoredBoth
  <2>7. Same(a.memory, s.memory, w.at, LengthSize + n)
    BY <1>3, <1>4, <1>9, <2>3, <2>4, <2>6, PrefixAgain DEF p
  <2>8. QED BY <1>9, <2>7 DEF a
<1>10. QED BY <1>7, <1>8, <1>9

LEMMA ElementGives ==
  ASSUME NEW s, Within(s), NEW type, IsElementType(type),
         NEW r, r = readElement(s, type), ~Thrown(r), NEW i
  PROVE  \E n \in Nat : \E x :
           Gives(s, r, n, x) /\ Accepts("readAll", s.memory, s.at, i, type, n, x)
<1>1. ASSUME NEW n \in Nat, NEW x, Gives(s, r, n, x),
             x \in ElementValues(type), n = ElementSize(type, x),
             type = Bool \/ \A w : /\ Sound(w) /\ w.end <= Capacity /\ w.at = s.at
                                   /\ ~Thrown(writeElement(w, type, x))
                                   => Same(writeElement(w, type, x).memory, s.memory, s.at, n)
      PROVE  \E m \in Nat : \E y :
               Gives(s, r, m, y) /\ Accepts("readAll", s.memory, s.at, i, type, m, y)
  <2>1. type # Bool => Again("writeAll", s.memory, s.at, i, type, n, x)
    <3> SUFFICES ASSUME type # Bool, NEW w, NEW v, Sound(w), w.end <= Capacity, w.at = s.at, v[i] = x,
                        ~Thrown(writeElement(w, type, x))
                 PROVE  Same(writeElement(w, type, x).memory, s.memory, s.at, n)
      BY DEF Again, Called
    <3>1. QED BY <1>1
  <2>2. Accepts("readAll", s.memory, s.at, i, type, n, x)
    BY <1>1, <2>1 DEF Accepts
  <2>3. QED BY <1>1, <2>2
<1>2. CASE type.kind = "simple" /\ type.size \in Nat \ {0}
  <2> DEFINE size == type.size
  <2>1. r = simpleRead(s, size) /\ \A w, x : writeElement(w, type, x) = simpleWrite(w, size, x)
    BY <1>2 DEF readElement, writeElement
  <2>2. /\ \A x : ElementSize(type, x) = size
        /\ ElementValues(type) = 0 .. Power(size) - 1 /\ size \in Nat
    BY <1>2 DEF ElementSize, IsFixedSize, ElementValues
  <2> HIDE DEF size
  <2>3. PICK x \in 0 .. Power(size) - 1 :
          Stored(s.memory, s.at, ToBytes(x, size)) /\ Gives(s, r, size, x)
    BY <2>1, <2>2, SimpleGives
  <2>4. \A w : Sound(w) /\ w.end <= Capacity /\ w.at = s.at /\ ~Thrown(simpleWrite(w, size, x))
               => Same(simpleWrite(w, size, x).memory, s.memory, s.at, size)
    BY <2>2, <2>3, SimpleAgain
  <2>5. QED BY <1>1, <2>1, <2>2, <2>3, <2>4
<1>3. CASE type.kind = "fixed" /\ type.size \in Nat
  <2> DEFINE size == type.size
  <2>1. r = fixedRead(s, size) /\ \A w, x : writeElement(w, type, x) = fixedWrite(w, size, x)
    BY <1>3 DEF readElement, writeElement
  <2>2. /\ \A x : ElementSize(type, x) = size
        /\ ElementValues(type) = [1 .. size -> Byte] /\ size \in Nat
    BY <1>3 DEF ElementSize, IsFixedSize, ElementValues
  <2> HIDE DEF size
  <2>3. PICK x \in [1 .. size -> Byte] :
          /\ Gives(s, r, size, x)
          /\ \A w : Sound(w) /\ w.end <= Capacity /\ w.at = s.at /\ ~Thrown(fixedWrite(w, size, x))
               => Same(fixedWrite(w, size, x).memory, s.memory, s.at, size)
    BY <2>1, <2>2, FixedGives
  <2>4. QED BY <1>1, <2>1, <2>2, <2>3
<1>4. CASE type = Bool
  <2>1. r = boolRead(s) /\ ElementValues(type) = BOOLEAN /\ \A x : ElementSize(type, x) = 1
    BY <1>4 DEF readElement, ElementValues, ElementSize, IsFixedSize, Bool
  <2>2. PICK x \in BOOLEAN : Gives(s, r, 1, x)
    BY <2>1, BoolGives
  <2>3. QED BY <1>1, <1>4, <2>1, <2>2
<1>5. CASE type = String
  <2>1. /\ r = stringRead(s) /\ ElementValues(type) = Seq(Byte)
        /\ \A x : ElementSize(type, x) = LengthSize + Len(x)
        /\ \A w, x : writeElement(w, type, x) = stringWrite(w, x)
    BY <1>5 DEF readElement, writeElement, ElementValues, ElementSize, IsFixedSize, String
  <2>2. PICK n \in 0 .. UintModulus - 1 : \E x \in Seq(Byte) :
          /\ Len(x) = n /\ Gives(s, r, LengthSize + n, x)
          /\ \A w : Sound(w) /\ w.end <= Capacity /\ w.at = s.at /\ ~Thrown(stringWrite(w, x))
               => Same(stringWrite(w, x).memory, s.memory, s.at, LengthSize + n)
    BY <2>1, StringGives
  <2>3. PICK x \in Seq(Byte) :
          /\ Len(x) = n /\ Gives(s, r, LengthSize + n, x)
          /\ \A w : Sound(w) /\ w.end <= Capacity /\ w.at = s.at /\ ~Thrown(stringWrite(w, x))
               => Same(stringWrite(w, x).memory, s.memory, s.at, LengthSize + n)
    BY <2>2
  <2>4. LengthSize + n \in Nat
    BY UintNat
  <2>5. QED BY <1>1, <2>1, <2>3, <2>4
<1>6. QED BY <1>2, <1>3, <1>4, <1>5 DEF IsElementType

(* The same terms have the same sums. *)
SameTerms(T, A, n) == \A i \in 1 .. n : T[i] \in Nat /\ A[i] = T[i]

LEMMA SumsUnique ==
  ASSUME NEW n \in Nat, NEW T, NEW A, SameTerms(T, A, n),
         NEW g, Sums(T, n, g), NEW h, Sums(A, n, h)
  PROVE  g = h
<1>0. \A i \in 1 .. n : T[i] \in Nat /\ A[i] = T[i]
  BY DEF SameTerms
<1> DEFINE S == {i \in 0 .. n : g[i] = h[i]}
<1>1. g \in [0 .. n -> Nat] /\ g[0] = 0 /\ \A i \in 1 .. n : g[i] = g[i - 1] + T[i]
  <2>1. Totals(T, n, g)
    BY <1>0, SumsTotal
  <2>2. QED BY <2>1 DEF Totals
<1>2. \A i \in 1 .. n : A[i] \in Nat
  BY <1>0
<1>3. h \in [0 .. n -> Nat] /\ h[0] = 0 /\ \A i \in 1 .. n : h[i] = h[i - 1] + A[i]
  <2>1. Totals(A, n, h)
    BY <1>2, SumsTotal
  <2>2. QED BY <2>1 DEF Totals
<1>4. 0 \in S
  BY <1>1, <1>3
<1>5. ASSUME NEW i \in Nat, i \in S, i + 1 <= n PROVE i + 1 \in S
  <2>1. i + 1 \in 1 .. n /\ (i + 1) - 1 = i /\ g[i] = h[i]
    BY <1>5
  <2>2. g[i + 1] = g[(i + 1) - 1] + T[i + 1] /\ h[i + 1] = h[(i + 1) - 1] + A[i + 1]
        /\ A[i + 1] = T[i + 1]
    BY <1>0, <1>1, <1>3, <2>1
  <2>3. QED BY <2>1, <2>2
<1> HIDE DEF S
<1>6. \A i \in 0 .. n : i \in S
  BY <1>4, <1>5, BoundedInduction
<1>7. \A i \in 0 .. n : g[i] = h[i]
  BY <1>6 DEF S
<1>8. QED BY <1>1, <1>3, <1>7

LEMMA ReadAllGives ==
  ASSUME NEW s, Within(s), NEW type, IsElementType(type), NEW n \in Nat,
         NEW r, r = readAll(s, type, n), ~Thrown(r)
  PROVE  \E x \in [1 .. n -> ElementValues(type)] : \E m \in Nat :
           /\ Gives(s, r, m, x) /\ m = ElementSum(type, x, n)
           /\ type # Bool /\ m < UintModulus =>
                \A w : Sound(w) /\ w.end <= Capacity /\ w.at = s.at /\ ~Thrown(writeAll(w, type, x))
                  => Same(writeAll(w, type, x).memory, s.memory, s.at, m)
<1> DEFINE t == [s EXCEPT !.got = <<>>]
<1>1. PICK read : /\ Iterates("readAll", t, type, 0, n, read)
                  /\ readAll(s, type, n) = [read[n] EXCEPT !.got = Append(s.got, read[n].got)]
  <2>1. \A m \in Nat : \E read :
          /\ Iterates("readAll", t, type, 0, m, read)
          /\ readAll(s, type, m) = [read[m] EXCEPT !.got = Append(s.got, read[m].got)]
    BY ReadAllLoop
  <2>2. QED BY <2>1
<1>2. Within(t) /\ t.got = <<>> /\ t.memory = s.memory /\ t.at = s.at /\ t.end = s.end /\ t.full = s.full
  BY EmptyWithin
<1> DEFINE f == read[n]
<1>3. r = [f EXCEPT !.got = Append(s.got, f.got)]
  BY <1>1
<1> HIDE DEF t
<1>4. Reads(t, f)
  <2>1. \A w : \A i \in 1 .. n : IsStream(w) => Reads(w, Called("readAll", w, i, type, 0))
    BY ElementReads DEF Called
  <2>2. QED BY <1>1, <1>2, <2>1, LoopReads DEF Within
<1>5. ~Thrown(f)
  <2> HIDE DEF f
  <2>1. Reads([s EXCEPT !.got = <<>>], f)
    BY <1>4 DEF t
  <2>2. QED BY <1>3, <2>1, Gathered
<1>6. \A w : \A i \in 1 .. n :
        Within(w) /\ w.full = t.full /\ ~Thrown(Called("readAll", w, i, type, 0)) =>
          \E m \in Nat : \E x : /\ Gives(w, Called("readAll", w, i, type, 0), m, x)
                                /\ Accepts("readAll", w.memory, w.at, i, type, m, x)
  <2> SUFFICES ASSUME NEW w, NEW i \in 1 .. n, Within(w), ~Thrown(readElement(w, type))
               PROVE  \E m \in Nat : \E x : /\ Gives(w, readElement(w, type), m, x)
                                            /\ Accepts("readAll", w.memory, w.at, i, type, m, x)
    BY DEF Called
  <2>1. QED BY ElementGives
<1>7. PICK A, g, v :
        /\ \A i \in 1 .. n : A[i] \in Nat
        /\ Sums(A, n, g)
        /\ Filled(t, f, g[n], Firsts(v, n)) /\ t.at + g[n] <= t.end
        /\ \A i \in 1 .. n : Accepts("readAll", t.memory, t.at + g[i - 1], i, type, A[i], v[i])
  BY <1>1, <1>2, <1>5, <1>6, LoopAccepts
<1> HIDE DEF f
<1> DEFINE x == Firsts(v, n)
           m == g[n]
<1>8. \A i \in 1 .. n :
        /\ v[i] \in ElementValues(type) /\ A[i] = ElementSize(type, v[i])
        /\ type # Bool /\ A[i] < UintModulus =>
             Again("writeAll", s.memory, s.at + g[i - 1], i, type, A[i], v[i])
  BY <1>2, <1>7 DEF Accepts
<1>9. x \in [1 .. n -> ElementValues(type)] /\ \A i \in 1 .. n : x[i] = v[i]
  BY <1>8 DEF Firsts
<1>10. g \in [0 .. n -> Nat] /\ \A i \in 1 .. n : A[i] <= g[n]
  <2>1. \A h : Sums(A, n, h) =>
              /\ h \in [0 .. n -> Nat] /\ h[0] = 0
              /\ \A i \in 1 .. n : h[i] = h[i - 1] + A[i] /\ h[i] <= h[n] /\ A[i] <= h[n]
    BY <1>7, Total
  <2>2. QED BY <1>7, <2>1
<1> HIDE DEF x
<1>11. m \in Nat /\ m = ElementSum(type, x, n)
  <2>0. \A i \in 1 .. n : x[i] \in ElementValues(type)
    BY <1>9
  <2>1. PICK T, h : /\ \A i \in 1 .. n : T[i] = ElementSize(type, x[i]) /\ T[i] \in Nat
                    /\ Sums(T, n, h) /\ h[n] \in Nat
                    /\ \A i \in 1 .. n : T[i] <= h[n]
                    /\ ElementSum(type, x, n) = h[n]
    <3>1. PICK T, h : Summed(type, x, n, T, h)
      BY <2>0, ElementSums
    <3>2. QED BY <3>1 DEF Summed
  <2>2. \A i \in 1 .. n : T[i] = A[i]
    BY <1>8, <1>9, <2>1
  <2>3. g = h
    <3>1. SameTerms(A, T, n)
      BY <1>7, <2>2 DEF SameTerms
    <3>2. Sums(A, n, g) /\ Sums(T, n, h)
      BY <1>7, <2>1
    <3>3. QED BY <3>1, <3>2, SumsUnique
  <2>4. QED BY <1>10, <2>1, <2>3
<1>12. Gives(s, r, m, x)
  <2> HIDE DEF m
  <2>1. Filled([s EXCEPT !.got = <<>>], f, m, x)
    BY <1>7 DEF t, x, m
  <2>2. Back(s, [f EXCEPT !.got = Append(s.got, f.got)], m, x)
    BY <1>11, <2>1, CollectedBack
  <2>3. QED BY <1>2, <1>3, <1>7, <2>2 DEF Gives, m
<1>13. ASSUME type # Bool, m < UintModulus,
              NEW w, Sound(w), w.end <= Capacity, w.at = s.at, ~Thrown(writeAll(w, type, x))
       PROVE  Same(writeAll(w, type, x).memory, s.memory, s.at, m)
  <2>1. PICK after : Iterates("writeAll", w, type, x, n, after) /\ writeAll(w, type, x) = after[n]
    <3>1. Len(x) = n
      BY <1>9
    <3>2. QED BY <3>1, WriteAllLoop
  <2>2. \A i \in 1 .. n : /\ A[i] \in Nat /\ A[i] < UintModulus
                          /\ A[i] = ElementSize(type, x[i]) /\ x[i] \in ElementValues(type)
    <3> SUFFICES ASSUME NEW i \in 1 .. n
                 PROVE  /\ A[i] \in Nat /\ A[i] < UintModulus
                        /\ A[i] = ElementSize(type, x[i]) /\ x[i] \in ElementValues(type)
      OBVIOUS
    <3>1. A[i] \in Nat /\ A[i] <= m
      BY <1>7, <1>10
    <3> HIDE DEF m
    <3>2. A[i] < UintModulus
      BY <1>11, <1>13, <3>1, UintNat
    <3>3. QED BY <1>8, <1>9, <3>1, <3>2
  <2>3. \A u : \A i \in 1 .. n : Sound(u) => Writes(u, Called("writeAll", u, i, type, x), A[i])
    <3> SUFFICES ASSUME NEW u, NEW i \in 1 .. n, Sound(u)
                 PROVE  Writes(u, writeElement(u, type, x[i]), A[i])
      BY DEF Called
    <3>1. QED BY <2>2, ElementWrites DEF Sound
  <2>4. \A u : \A i \in 1 .. n :
          Sound(u) /\ u.end <= Capacity /\ ~Thrown(Called("writeAll", u, i, type, x)) =>
            Frames(u, Called("writeAll", u, i, type, x), A[i])
    <3> SUFFICES ASSUME NEW u, NEW i \in 1 .. n, Sound(u), u.end <= Capacity,
                        ~Thrown(writeElement(u, type, x[i]))
                 PROVE  Frames(u, writeElement(u, type, x[i]), A[i])
      BY DEF Called
    <3>1. QED BY <2>2, ElementLeaves DEF Leaves
  <2>5. \A i \in 1 .. n : Again("writeAll", s.memory, w.at + g[i - 1], i, type, A[i], x[i])
    BY <1>8, <1>9, <1>13, <2>2
  <2>6. ~Thrown(after[n]) => Same(after[n].memory, s.memory, w.at, g[n])
    BY <1>7, <1>13, <2>1, <2>3, <2>4, <2>5, LoopAgain
  <2>7. QED BY <1>13, <2>1, <2>6
<1>14. QED BY <1>9, <1>11, <1>12, <1>13

(* Bytes of any length are taken apart into numbers of one size. *)
LEMMA UnpackedNumbers ==
  ASSUME NEW size \in Nat \ {0}, NEW n \in Nat, NEW bytes \in Seq(Byte),
         NEW v, v = Unpacked(bytes, size, n)
  PROVE  v \in [1 .. n -> 0 .. Power(size) - 1]
<1>1. ASSUME NEW i \in 1 .. n PROVE v[i] \in 0 .. Power(size) - 1
  <2> DEFINE a == (i - 1) * size
             e == i * size
             part == SubSeq(bytes, a + 1, e)
  <2>1. a \in Nat /\ e \in Nat /\ e = a + size
    <3>1. i \in Nat /\ i - 1 \in Nat
      OBVIOUS
    <3>2. i * size = (i - 1) * size + size
      BY <3>1
    <3>3. (i - 1) * size \in Nat
      BY <3>1, Factor
    <3>4. QED BY <3>2, <3>3
  <2>2. v[i] = IF e <= Len(bytes) THEN FromBytes(part) ELSE 0
    BY DEF Unpacked
  <2> HIDE DEF a, e
  <2>3. CASE e <= Len(bytes)
    <3>1. part = [j \in 1 .. (e - (a + 1)) + 1 |-> bytes[(j + (a + 1)) - 1]]
      BY <2>1, <2>3
    <3>2. (e - (a + 1)) + 1 = size /\ \A j \in 1 .. size : (j + (a + 1)) - 1 = a + j
      BY <2>1
    <3>3. part = [j \in 1 .. size |-> bytes[a + j]]
      BY <3>1, <3>2
    <3>4. \A j \in 1 .. size : bytes[a + j] \in Byte
      BY <2>1, <2>3
    <3> HIDE DEF part
    <3>5. part \in Seq(Byte) /\ Len(part) = size
      BY <3>3, <3>4
    <3>6. FromBytes(part) \in 0 .. Power(size) - 1
      <4>1. \A k : k = Len(part) => FromBytes(part) \in 0 .. Power(k) - 1
        BY <3>5, BytesNumber
      <4>2. QED BY <3>5, <4>1
    <3>7. QED BY <2>2, <2>3, <3>6
  <2>4. CASE ~(e <= Len(bytes))
    <3>1. Power(size) \in Nat \ {0}
      BY PowerNat
    <3>2. v[i] = 0
      BY <2>2, <2>4
    <3>3. QED BY <3>1, <3>2
  <2>5. QED BY <2>3, <2>4
<1>2. v = [i \in 1 .. n |-> v[i]]
  BY DEF Unpacked
<1>3. QED BY <1>1, <1>2

(* The numbers of a container that is read in one piece. *)
GivesPacked(s, r, m, size, n) ==
  \E x \in [1 .. n -> 0 .. Power(size) - 1] :
    /\ m \in Nat /\ Gives(s, r, m, x)
    /\ n * size < UintModulus => m = n * size /\ Stored(s.memory, s.at, Packed(x, size))

LEMMA PackedGives ==
  ASSUME NEW s, Within(s), NEW size \in Nat \ {0}, NEW n \in Nat,
         NEW m, m = (n * size) % UintModulus, NEW read, read = take(s, m), ~Thrown(read),
         NEW r, r = Convert(read, Unpacked(LastRead(read), size, n))
  PROVE  GivesPacked(s, r, m, size, n)
<1>1. n * size \in Nat /\ m \in Nat
  BY Factor, ModBelow
<1>2. PICK bytes \in Seq(Byte) :
        Len(bytes) = m /\ Stored(s.memory, s.at, bytes) /\ Gives(s, read, m, bytes)
  BY <1>1, TakeGives
<1> DEFINE x == Unpacked(bytes, size, n)
<1>3. x \in [1 .. n -> 0 .. Power(size) - 1]
  BY UnpackedNumbers
<1>4. Gives(s, r, m, x)
  <2> DEFINE z == Unpacked(LastRead(read), size, n)
  <2>1. LastRead(read) = bytes => z = x
    OBVIOUS
  <2> HIDE DEF z, x
  <2>2. Back(s, Convert(read, z), m, x)
    BY <1>1, <1>2, <2>1, ReadAs DEF Gives
  <2>3. QED BY <1>2, <2>2 DEF Gives, z
<1>5. ASSUME n * size < UintModulus PROVE m = n * size /\ Packed(x, size) = bytes
  <2>1. m = n * size
    <3>1. \A k \in Nat : k < UintModulus => k % UintModulus = k
      BY Unwrapped
    <3>2. QED BY <1>1, <1>5, <3>1
  <2>2. Len(bytes) = n * size
    BY <1>2, <2>1
  <2>3. Packed(x, size) = bytes
    BY <2>2, PackedBack
  <2>4. QED BY <2>1, <2>3
<1> HIDE DEF x
<1>6. QED BY <1>1, <1>2, <1>3, <1>4, <1>5 DEF GivesPacked

(* Who writes a vector puts a length and then its elements. *)
LEMMA VectorAgain ==
  ASSUME NEW s, Sound(s), s.end <= Capacity, NEW type, IsElementType(type), NEW x,
         NEW n \in 0 .. UintModulus - 1, Len(x) = n, x = <<>> <=> n = 0,
         \A i \in 1 .. n : x[i] \in ElementValues(type),
         NEW sum, sum = ElementSum(type, x, n), LengthSize + sum < UintModulus,
         NEW r, r = vectorWrite(s, type, x), ~Thrown(r),
         NEW memory, Stored(memory, s.at, ToBytes(n, LengthSize)),
         IsSimple(type) => Stored(memory, s.at + LengthSize, Packed(x, type.size)),
         ~IsSimple(type) =>
           \A w : Sound(w) /\ w.end <= Capacity /\ w.at = s.at + LengthSize /\ ~Thrown(writeAll(w, type, x))
             => Same(writeAll(w, type, x).memory, memory, s.at + LengthSize, sum)
  PROVE  Same(r.memory, memory, s.at, LengthSize + sum)
<1> DEFINE p == simpleWrite(s, LengthSize, n)
<1>0. n \in Nat /\ n \in Int /\ LengthSize \in Nat /\ sum \in Nat /\ sum < UintModulus
  <2>1. n \in Nat
    BY UintNat
  <2>2. sum \in Nat
    BY <2>1, ElementSums DEF Summed
  <2>3. QED BY <2>1, <2>2, UintNat
<1>1. n % UintModulus = n
  <2>1. n < UintModulus
    BY <1>0, UintNat
  <2>2. QED BY <1>0, <2>1, Unwrapped
<1>2. Sound(p) /\ p.end = s.end
  <2>1. Writes(s, p, LengthSize)
    BY <1>0, SimpleWrites DEF Sound
  <2>2. QED BY <2>1 DEF Writes
<1>3. ASSUME Writes(p, r, sum), Frames(p, r, sum)
      PROVE  p.at = s.at + LengthSize /\ ~Thrown(p) /\ s.at \in Nat
  BY <1>0, <1>3, PrefixLeaves
<1>4. CASE ~IsSimple(type)
  <2>1. r = writeAll(p, type, x)
    BY <1>1, <1>4 DEF vectorWrite
  <2> HIDE DEF p
  <2>2. Writes(p, r, sum) /\ Frames(p, r, sum)
    BY <1>0, <1>2, <2>1, WriteAllWrites, WriteAllLeaves DEF Sound
  <2>3. Same(r.memory, memory, p.at, sum)
    BY <1>2, <1>3, <1>4, <2>1, <2>2
  <2>4. QED BY <1>0, <2>2, <2>3, PrefixAgain DEF p
<1>5. CASE IsSimple(type)
  <2> DEFINE size == type.size
             packed == Packed(x, type.size)
  <2>1. /\ size \in Nat \ {0} /\ sum = n * size
        /\ packed \in Seq(Byte) /\ Len(packed) = sum
    BY <1>0, <1>5, SimpleElements
  <2>2. (n * size) % UintModulus = sum
    BY <1>0, <2>1, Unwrapped
  <2>3. n = 0 <=> sum = 0
    <3>1. n * size = 0 <=> n = 0
      BY <1>0, <2>1
    <3>2. QED BY <2>1, <3>1
  <2>4. r = put(p, sum, packed) \/ (sum = 0 /\ r = p)
    <3>1. r = IF x = <<>> THEN p
              ELSE put(p, (n * size) % UintModulus, SubSeq(packed, 1, (n * size) % UintModulus))
      BY <1>1, <1>5 DEF vectorWrite
    <3> HIDE DEF packed, p, size
    <3>2. SubSeq(packed, 1, sum) = packed
      BY <2>1, WholeSeq
    <3>3. QED BY <2>2, <2>3, <3>1, <3>2
  <2>s. Stored(memory, s.at + LengthSize, packed)
    BY <1>5
  <2> HIDE DEF packed, p, size
  <2>5. Writes(p, r, sum) /\ Frames(p, r, sum) /\ Stored(r.memory, p.at, packed)
    BY <1>2, <2>1, <2>4, BodyLeaves
  <2>6. p.at = s.at + LengthSize /\ s.at \in Nat
    BY <1>3, <2>5
  <2>7. Same(r.memory, memory, p.at, sum)
    BY <1>0, <2>1, <2>5, <2>6, <2>s, StoredBoth
  <2>8. QED BY <1>0, <2>5, <2>7, PrefixAgain DEF p
<1>6. QED BY <1>4, <1>5

LEMMA VectorGives ==
  ASSUME NEW s, Within(s), NEW type, IsElementType(type),
         NEW r, r = vectorRead(s, type), ~Thrown(r)
  PROVE  \E n \in 0 .. UintModulus - 1 : \E x \in [1 .. n -> ElementValues(type)] : \E m \in Nat :
           /\ Gives(s, r, LengthSize + m, x)
           /\ LengthSize + ElementSum(type, x, n) < UintModulus =>
                /\ m = ElementSum(type, x, n)
                /\ type # Bool =>
                     \A w : Sound(w) /\ w.end <= Capacity /\ w.at = s.at /\ ~Thrown(vectorWrite(w, type, x))
                       => Same(vectorWrite(w, type, x).memory, s.memory, s.at, LengthSize + m)
<1> DEFINE q == simpleRead(s, LengthSize)
           f == Forget(q)
           len == LastRead(q)
           data == (type.size * len) % UintModulus
           resized == reserve(f, len)
           read == take(resized, data)
<1>1. r = IF Thrown(q) THEN q
          ELSE IF Thrown(resized) THEN resized
          ELSE IF ~IsSimple(type) THEN readAll(resized, type, len)
          ELSE IF len = 0 THEN [resized EXCEPT !.got = Append(resized.got, <<>>)]
          ELSE Convert(read, Unpacked(LastRead(read), type.size, len))
  BY DEF vectorRead
<1>2. ~Thrown(q) /\ ~Thrown(resized)
  <2> HIDE DEF q, resized, read, len
  <2>1. QED BY <1>1
<1>3. PICK n \in 0 .. UintModulus - 1 :
        /\ Stored(s.memory, s.at, ToBytes(n, LengthSize))
        /\ len = n /\ MovedOn(s, f, LengthSize)
  BY <1>2, PrefixGives
<1>4. n \in Nat /\ LengthSize \in Nat /\ n \in Int
  BY UintNat
<1> HIDE DEF q, f
<1>5. Within(f) /\ f.at = s.at + LengthSize /\ f.memory = s.memory
  BY <1>3 DEF MovedOn
<1>6. resized = f
  BY <1>2, <1>5, ReserveGives DEF Within
<1> HIDE DEF resized, len
<1>7. ASSUME NEW x \in [1 .. n -> ElementValues(type)], NEW m \in Nat, Gives(f, r, m, x),
             LengthSize + ElementSum(type, x, n) < UintModulus =>
               /\ m = ElementSum(type, x, n)
               /\ type # Bool /\ IsSimple(type) => Stored(f.memory, f.at, Packed(x, type.size))
               /\ type # Bool /\ ~IsSimple(type) =>
                    \A w : Sound(w) /\ w.end <= Capacity /\ w.at = f.at /\ ~Thrown(writeAll(w, type, x))
                      => Same(writeAll(w, type, x).memory, f.memory, f.at, m)
      PROVE  \E k \in 0 .. UintModulus - 1 : \E y \in [1 .. k -> ElementValues(type)] : \E l \in Nat :
               /\ Gives(s, r, LengthSize + l, y)
               /\ LengthSize + ElementSum(type, y, k) < UintModulus =>
                    /\ l = ElementSum(type, y, k)
                    /\ type # Bool =>
                         \A w : /\ Sound(w) /\ w.end <= Capacity /\ w.at = s.at
                                /\ ~Thrown(vectorWrite(w, type, y))
                           => Same(vectorWrite(w, type, y).memory, s.memory, s.at, LengthSize + l)
  <2>1. Gives(s, r, LengthSize + m, x)
    BY <1>3, <1>4, <1>7, GivesOn
  <2>2. ASSUME LengthSize + ElementSum(type, x, n) < UintModulus, type # Bool,
               NEW w, Sound(w), w.end <= Capacity, w.at = s.at, ~Thrown(vectorWrite(w, type, x))
        PROVE  Same(vectorWrite(w, type, x).memory, s.memory, s.at, LengthSize + m)
    <3>1. Len(x) = n /\ (x = <<>> <=> n = 0) /\ \A i \in 1 .. n : x[i] \in ElementValues(type)
      BY <1>4, <1>7
    <3>2. /\ m = ElementSum(type, x, n) /\ LengthSize + m < UintModulus
          /\ Stored(s.memory, w.at, ToBytes(n, LengthSize))
          /\ IsSimple(type) => Stored(s.memory, w.at + LengthSize, Packed(x, type.size))
          /\ ~IsSimple(type) =>
               \A u : /\ Sound(u) /\ u.end <= Capacity /\ u.at = w.at + LengthSize
                      /\ ~Thrown(writeAll(u, type, x))
                 => Same(writeAll(u, type, x).memory, s.memory, w.at + LengthSize, m)
      BY <1>3, <1>5, <1>7, <2>2
    <3>3. Same(vectorWrite(w, type, x).memory, s.memory, w.at, LengthSize + m)
      BY <2>2, <3>1, <3>2, VectorAgain
    <3>4. QED BY <2>2, <3>3
  <2>3. QED BY <1>7, <2>1, <2>2
<1>8. CASE ~IsSimple(type)
  <2>1. r = readAll(f, type, n)
    <3> HIDE DEF read
    <3>1. QED BY <1>1, <1>2, <1>3, <1>6, <1>8
  <2>2. PICK x \in [1 .. n -> ElementValues(type)] : \E m \in Nat :
          /\ Gives(f, r, m, x) /\ m = ElementSum(type, x, n)
          /\ type # Bool /\ m < UintModulus =>
               \A w : Sound(w) /\ w.end <= Capacity /\ w.at = f.at /\ ~Thrown(writeAll(w, type, x))
                 => Same(writeAll(w, type, x).memory, f.memory, f.at, m)
    BY <1>4, <1>5, <2>1, ReadAllGives
  <2>3. PICK m \in Nat :
          /\ Gives(f, r, m, x) /\ m = ElementSum(type, x, n)
          /\ type # Bool /\ m < UintModulus =>
               \A w : Sound(w) /\ w.end <= Capacity /\ w.at = f.at /\ ~Thrown(writeAll(w, type, x))
                 => Same(writeAll(w, type, x).memory, f.memory, f.at, m)
    BY <2>2
  <2>4. LengthSize + m < UintModulus => m < UintModulus
    BY UintNat
  <2>5. QED BY <1>7, <1>8, <2>3, <2>4
<1>9. CASE IsSimple(type)
  <2> DEFINE size == type.size
  <2>1. size \in Nat \ {0} /\ ElementValues(type) = 0 .. Power(size) - 1
    BY <1>9 DEF IsElementType, IsSimple, ElementValues, Bool, String
  <2>2. ASSUME NEW x \in [1 .. n -> ElementValues(type)] PROVE ElementSum(type, x, n) = n * size
    <3>1. Len(x) = n /\ \A i \in 1 .. n : x[i] \in ElementValues(type)
      BY <1>4, <2>2
    <3>2. QED BY <1>4, <1>9, <3>1, SimpleElements
  <2>3. n * size \in Nat /\ size * n = n * size
    BY <1>4, <2>1, Factor
  <2> HIDE DEF size
  <2>s. LengthSize + n * size < UintModulus => n * size < UintModulus
    BY <2>3, UintNat
  <2>4. CASE n = 0
    <3>1. r = [f EXCEPT !.got = Append(f.got, <<>>)]
      <4> HIDE DEF read
      <4>1. QED BY <1>1, <1>2, <1>3, <1>6, <1>9, <2>4
    <3>2. f.at \in Nat /\ f.end \in Nat
      BY <1>5 DEF Within, IsStream, Streams
    <3>3. Gives(f, r, 0, <<>>)
      BY <1>5, <3>1, <3>2, NothingBack DEF Gives, Within
    <3>4. <<>> \in [1 .. n -> ElementValues(type)]
      BY <2>4
    <3>5. ElementSum(type, <<>>, n) = 0
      <4>1. n * size = 0
        BY <2>1, <2>4
      <4>2. QED BY <2>2, <3>4, <4>1
    <3>6. Stored(f.memory, f.at, Packed(<<>>, type.size))
      <4>1. \A j \in 1 .. 0 : <<>>[j] \in Int
        OBVIOUS
      <4>2. Len(Packed(<<>>, type.size)) = 0 * type.size
        BY <2>1, <4>1, PackedBytes DEF size
      <4>3. 0 * type.size = 0
        BY <2>1 DEF size
      <4>4. QED BY <4>2, <4>3 DEF Stored
    <3> DEFINE x == <<>>
    <3>7. /\ x \in [1 .. n -> ElementValues(type)] /\ 0 = ElementSum(type, x, n) /\ Gives(f, r, 0, x)
          /\ Stored(f.memory, f.at, Packed(x, type.size))
      BY <3>3, <3>4, <3>5, <3>6
    <3> HIDE DEF x
    <3>8. 0 \in Nat
      OBVIOUS
    <3>9. QED BY <1>7, <1>9, <3>7, <3>8
  <2>5. CASE n # 0
    <3>1. data = (n * size) % UintModulus
      BY <1>3, <2>3 DEF size
    <3>2. r = Convert(read, Unpacked(LastRead(read), size, n))
      <4> HIDE DEF read
      <4>1. QED BY <1>1, <1>2, <1>3, <1>6, <1>9, <2>5 DEF size
    <3>3. read = take(f, data)
      BY <1>6
    <3>d. data \in Nat
      BY <2>3, <3>1, ModBelow
    <3> HIDE DEF data, read
    <3>4. ~Thrown(read)
      <4>1. IsStream(read)
        BY <1>5, <3>3, <3>d, Took DEF Within
      <4>2. QED BY <3>2, <4>1, Converted
    <3>5. PICK x \in [1 .. n -> 0 .. Power(size) - 1] :
            /\ data \in Nat /\ Gives(f, r, data, x)
            /\ n * size < UintModulus => data = n * size /\ Stored(f.memory, f.at, Packed(x, size))
      <4>1. \A k \in Nat : \A l : /\ l = (k * size) % UintModulus /\ read = take(f, l)
                                  /\ r = Convert(read, Unpacked(LastRead(read), size, k))
              => GivesPacked(f, r, l, size, k)
        BY <1>5, <2>1, <3>4, PackedGives
      <4>2. GivesPacked(f, r, data, size, n)
        BY <1>4, <3>1, <3>2, <3>3, <4>1
      <4>3. QED BY <4>2 DEF GivesPacked
    <3>6. x \in [1 .. n -> ElementValues(type)] /\ ElementSum(type, x, n) = n * size
      BY <2>1, <2>2
    <3>7. QED BY <1>7, <1>9, <2>s, <3>5, <3>6 DEF size
  <2>6. QED BY <2>4, <2>5
<1>10. QED BY <1>8, <1>9

LEMMA ArrayGives ==
  ASSUME NEW s, Within(s), NEW type, IsElementType(type), NEW n \in Nat,
         NEW r, r = arrayRead(s, type, n), ~Thrown(r)
  PROVE  \E x \in [1 .. n -> ElementValues(type)] : \E m \in Nat :
           /\ Gives(s, r, m, x)
           /\ ElementSum(type, x, n) < UintModulus =>
                /\ m = ElementSum(type, x, n)
                /\ type # Bool =>
                     \A w : Sound(w) /\ w.end <= Capacity /\ w.at = s.at /\ ~Thrown(arrayWrite(w, type, n, x))
                       => Same(arrayWrite(w, type, n, x).memory, s.memory, s.at, m)
<1>1. CASE ~IsSimple(type)
  <2>1. r = readAll(s, type, n) /\ \A w, x : arrayWrite(w, type, n, x) = writeAll(w, type, x)
    BY <1>1 DEF arrayRead, arrayWrite
  <2>2. PICK x \in [1 .. n -> ElementValues(type)] : \E m \in Nat :
          /\ Gives(s, r, m, x) /\ m = ElementSum(type, x, n)
          /\ type # Bool /\ m < UintModulus =>
               \A w : Sound(w) /\ w.end <= Capacity /\ w.at = s.at /\ ~Thrown(writeAll(w, type, x))
                 => Same(writeAll(w, type, x).memory, s.memory, s.at, m)
    BY <2>1, ReadAllGives
  <2>3. QED BY <2>1, <2>2
<1>2. CASE IsSimple(type)
  <2> DEFINE size == type.size
             data == (n * size) % UintModulus
             read == take(s, data)
  <2>1. size \in Nat \ {0} /\ ElementValues(type) = 0 .. Power(size) - 1
    BY <1>2 DEF IsElementType, IsSimple, ElementValues, Bool, String
  <2>2. ASSUME NEW x \in [1 .. n -> ElementValues(type)]
        PROVE  /\ ElementSum(type, x, n) = n * size
               /\ Packed(x, size) \in Seq(Byte) /\ Len(Packed(x, size)) = n * size
    <3>1. Len(x) = n /\ \A i \in 1 .. n : x[i] \in ElementValues(type)
      BY <2>2
    <3>2. QED BY <1>2, <3>1, SimpleElements
  <2>3. r = Convert(read, Unpacked(LastRead(read), size, n))
    BY <1>2 DEF arrayRead
  <2>w. \A w, x : arrayWrite(w, type, n, x) = put(w, data, Packed(x, size))
    BY <1>2 DEF arrayWrite
  <2> HIDE DEF size
  <2>4. n * size \in Nat
    BY <2>1, Factor
  <2>5. data \in Nat
    BY <2>4, ModBelow
  <2>6. ~Thrown(read)
    <3> HIDE DEF data
    <3>1. IsStream(read)
      BY <2>5, Took DEF Within
    <3> HIDE DEF read
    <3>2. QED BY <2>3, <3>1, Converted
  <2>7. PICK x \in [1 .. n -> 0 .. Power(size) - 1] :
          /\ Gives(s, r, data, x)
          /\ n * size < UintModulus => data = n * size /\ Stored(s.memory, s.at, Packed(x, size))
    <3>1. \A l : \A u : l = (n * size) % UintModulus /\ u = take(s, l) /\ ~Thrown(u)
                        /\ r = Convert(u, Unpacked(LastRead(u), size, n))
            => GivesPacked(s, r, l, size, n)
      BY <2>1, PackedGives
    <3>2. GivesPacked(s, r, data, size, n)
      BY <2>3, <2>6, <3>1
    <3>3. QED BY <3>2 DEF GivesPacked
  <2>8. x \in [1 .. n -> ElementValues(type)] /\ ElementSum(type, x, n) = n * size
    BY <2>1, <2>2
  <2>9. ASSUME n * size < UintModulus,
               NEW w, Sound(w), w.end <= Capacity, w.at = s.at, ~Thrown(arrayWrite(w, type, n, x))
        PROVE  Same(arrayWrite(w, type, n, x).memory, s.memory, s.at, data)
    <3> DEFINE packed == Packed(x, size)
               a == put(w, data, packed)
    <3>1. /\ packed \in Seq(Byte) /\ Len(packed) = data /\ Stored(s.memory, s.at, packed)
          /\ arrayWrite(w, type, n, x) = a
      BY <2>2, <2>7, <2>8, <2>9, <2>w
    <3> HIDE DEF packed, data
    <3>2. Stored(a.memory, w.at, packed)
      BY <2>9, <3>1, BodyLeaves
    <3>3. w.at \in Nat
      BY <2>9 DEF Sound, IsStream, Streams
    <3> HIDE DEF a
    <3>4. Same(a.memory, s.memory, s.at, data)
      BY <2>5, <2>9, <3>1, <3>2, <3>3, StoredBoth
    <3>5. QED BY <3>1, <3>4
  <2> HIDE DEF data
  <2>10. QED BY <2>5, <2>7, <2>8, <2>9
<1>3. QED BY <1>1, <1>2

(* What is left of a stream, or nothing if there is no memory for it. *)
LEMMA RestGives ==
  ASSUME NEW s, Within(s), NEW r, r = restRead(s), ~Thrown(r)
  PROVE  \E n \in Nat : \E x \in Seq(Byte) :
           /\ Len(x) = n /\ n < UintModulus /\ Gives(s, r, n, x)
           /\ \A w : Sound(w) /\ w.end <= Capacity /\ w.at = s.at /\ ~Thrown(restWrite(w, x))
                => Same(restWrite(w, x).memory, s.memory, s.at, n)
<1> DEFINE n == getLength(s)
<1>0. s.at \in Nat /\ s.end \in Nat
  BY DEF Within, IsStream, Streams
<1>1. n \in Nat /\ n < UintModulus
  <2>1. s.end - s.at \in Int
    BY <1>0
  <2>2. QED BY <2>1, UintNat DEF getLength
<1>2. r = IF allocate(s, n) /\ n > 0 THEN take(s, n) ELSE [s EXCEPT !.got = Append(s.got, <<>>)]
  BY DEF restRead
<1> HIDE DEF n
<1>3. CASE allocate(s, n) /\ n > 0
  <2>1. r = take(s, n)
    BY <1>2, <1>3
  <2>2. PICK x \in Seq(Byte) : Len(x) = n /\ Stored(s.memory, s.at, x) /\ Gives(s, r, n, x)
    BY <1>1, <2>1, TakeGives
  <2>3. ASSUME NEW w, Sound(w), w.end <= Capacity, w.at = s.at, ~Thrown(restWrite(w, x))
        PROVE  Same(restWrite(w, x).memory, s.memory, s.at, n)
    <3> DEFINE a == restWrite(w, x)
    <3>1. a = put(w, n, x)
      <4>1. x # <<>> /\ n % UintModulus = n
        BY <1>1, <1>3, <2>2, Unwrapped
      <4>2. QED BY <2>2, <4>1 DEF restWrite
    <3>2. Stored(a.memory, w.at, x)
      <4>1. ~Thrown(a)
        BY <2>3
      <4> HIDE DEF a
      <4>2. QED BY <2>2, <2>3, <3>1, <4>1, BodyLeaves
    <3> HIDE DEF a
    <3>3. Same(a.memory, s.memory, s.at, n)
      BY <1>0, <1>1, <2>2, <2>3, <3>2, StoredBoth
    <3>4. QED BY <3>3 DEF a
  <2>4. QED BY <1>1, <2>2, <2>3
<1>4. CASE ~(allocate(s, n) /\ n > 0)
  <2>1. Gives(s, r, 0, <<>>)
    BY <1>0, <1>2, <1>4, NothingBack DEF Gives, Within
  <2>2. <<>> \in Seq(Byte) /\ Len(<<>>) = 0 /\ 0 \in Nat /\ 0 < UintModulus
    BY UintNat
  <2>3. ASSUME NEW w, w.at = s.at PROVE Same(restWrite(w, <<>>).memory, s.memory, s.at, 0)
    BY <1>0 DEF Same
  <2>4. QED BY <2>1, <2>2, <2>3
<1>5. QED BY <1>3, <1>4

LEMMA MemberGives ==
  ASSUME NEW s, Within(s), NEW types, NEW i, IsMemberType(types[i]),
         NEW r, r = readMember(s, types[i]), ~Thrown(r)
  PROVE  \E n \in Nat : \E x :
           Gives(s, r, n, x) /\ Accepts("deserialize", s.memory, s.at, i, types, n, x)
<1> DEFINE type == types[i]
<1>1. ASSUME NEW n \in Nat, NEW x, Gives(s, r, n, x), x \in MemberValues(type),
             type.kind = "vector" => Len(x) < UintModulus,
             MemberSize(type, x) < UintModulus =>
               /\ n = MemberSize(type, x)
               /\ ~OfBool(type) =>
                    \A w : Sound(w) /\ w.end <= Capacity /\ w.at = s.at /\ ~Thrown(writeMember(w, type, x))
                      => Same(writeMember(w, type, x).memory, s.memory, s.at, n)
      PROVE  \E m \in Nat : \E y :
               Gives(s, r, m, y) /\ Accepts("deserialize", s.memory, s.at, i, types, m, y)
  <2>1. ASSUME MemberSize(type, x) < UintModulus, ~OfBool(type)
        PROVE  Again("serialize", s.memory, s.at, i, types, n, x)
    <3> SUFFICES ASSUME NEW w, NEW v, Sound(w), w.end <= Capacity, w.at = s.at, v[i] = x,
                        ~Thrown(writeMember(w, type, x))
                 PROVE  Same(writeMember(w, type, x).memory, s.memory, s.at, n)
      BY DEF Again, Called
    <3>1. QED BY <1>1, <2>1
  <2>2. Accepts("deserialize", s.memory, s.at, i, types, n, x)
    BY <1>1, <2>1 DEF Accepts
  <2>3. QED BY <1>1, <2>2
<1> HIDE DEF type
<1>h. IsMemberType(type) /\ r = readMember(s, type)
  BY DEF type
<1>2. CASE IsElementType(type)
  <2>1. /\ type.kind # "vector" /\ r = readElement(s, type) /\ MemberValues(type) = ElementValues(type)
        /\ \A x : MemberSize(type, x) = ElementSize(type, x)
        /\ \A w, x : writeMember(w, type, x) = writeElement(w, type, x)
    <3>1. type.kind # "vector" /\ type.kind # "array" /\ type.kind # "rest"
      BY <1>2 DEF IsElementType, Bool, String
    <3>2. r = readElement(s, type)
      BY <1>h, <3>1 DEF readMember
    <3>3. MemberValues(type) = ElementValues(type)
      BY <3>1 DEF MemberValues
    <3>4. \A x : MemberSize(type, x) = ElementSize(type, x)
      BY <3>1 DEF MemberSize
    <3>5. \A w, x : writeMember(w, type, x) = writeElement(w, type, x)
      BY <3>1 DEF writeMember
    <3>6. QED BY <3>1, <3>2, <3>3, <3>4, <3>5
  <2>2. PICK n \in Nat : \E x :
          Gives(s, r, n, x) /\ Accepts("readAll", s.memory, s.at, 1, type, n, x)
    BY <1>2, <2>1, ElementGives
  <2>3. PICK x : Gives(s, r, n, x) /\ Accepts("readAll", s.memory, s.at, 1, type, n, x)
    BY <2>2
  <2>4. /\ x \in ElementValues(type) /\ n = ElementSize(type, x)
        /\ type # Bool /\ n < UintModulus => Again("writeAll", s.memory, s.at, 1, type, n, x)
    BY <2>3 DEF Accepts
  <2>5. ASSUME Again("writeAll", s.memory, s.at, 1, type, n, x),
               NEW w, Sound(w), w.end <= Capacity, w.at = s.at, ~Thrown(writeElement(w, type, x))
        PROVE  Same(writeElement(w, type, x).memory, s.memory, s.at, n)
    <3> DEFINE v == [j \in 1 .. 1 |-> x]
    <3>1. v[1] = x
      OBVIOUS
    <3> HIDE DEF v
    <3>2. Called("writeAll", w, 1, type, v) = writeElement(w, type, x)
      BY <3>1 DEF Called
    <3>3. QED BY <2>5, <3>1, <3>2 DEF Again
  <2>6. ~OfBool(type) => type # Bool
    BY DEF OfBool
  <2>7. QED BY <1>1, <2>1, <2>3, <2>4, <2>5, <2>6
<1>3. CASE type.kind = "vector" /\ IsElementType(type.of)
  <2>1. /\ r = vectorRead(s, type.of) /\ MemberValues(type) = Seq(ElementValues(type.of))
        /\ \A x : MemberSize(type, x) = LengthSize + ElementSum(type.of, x, Len(x))
        /\ \A w, x : writeMember(w, type, x) = vectorWrite(w, type.of, x)
        /\ ~OfBool(type) => type.of # Bool
    BY <1>3, <1>h DEF MemberSize, ElementSum, MemberValues, writeMember, readMember, OfBool
  <2>2. PICK n \in 0 .. UintModulus - 1 : \E x \in [1 .. n -> ElementValues(type.of)] : \E m \in Nat :
          /\ Gives(s, r, LengthSize + m, x)
          /\ LengthSize + ElementSum(type.of, x, n) < UintModulus =>
               /\ m = ElementSum(type.of, x, n)
               /\ type.of # Bool =>
                    \A w : /\ Sound(w) /\ w.end <= Capacity /\ w.at = s.at
                           /\ ~Thrown(vectorWrite(w, type.of, x))
                      => Same(vectorWrite(w, type.of, x).memory, s.memory, s.at, LengthSize + m)
    BY <1>3, <2>1, VectorGives
  <2>3. PICK x \in [1 .. n -> ElementValues(type.of)] : \E m \in Nat :
          /\ Gives(s, r, LengthSize + m, x)
          /\ LengthSize + ElementSum(type.of, x, n) < UintModulus =>
               /\ m = ElementSum(type.of, x, n)
               /\ type.of # Bool =>
                    \A w : /\ Sound(w) /\ w.end <= Capacity /\ w.at = s.at
                           /\ ~Thrown(vectorWrite(w, type.of, x))
                      => Same(vectorWrite(w, type.of, x).memory, s.memory, s.at, LengthSize + m)
    BY <2>2
  <2>4. PICK m \in Nat :
          /\ Gives(s, r, LengthSize + m, x)
          /\ LengthSize + ElementSum(type.of, x, n) < UintModulus =>
               /\ m = ElementSum(type.of, x, n)
               /\ type.of # Bool =>
                    \A w : /\ Sound(w) /\ w.end <= Capacity /\ w.at = s.at
                           /\ ~Thrown(vectorWrite(w, type.of, x))
                      => Same(vectorWrite(w, type.of, x).memory, s.memory, s.at, LengthSize + m)
    BY <2>3
  <2>5. n \in Nat /\ LengthSize + m \in Nat /\ n < UintModulus
    BY UintNat
  <2>6. x \in Seq(ElementValues(type.of)) /\ Len(x) = n
    BY <2>5
  <2>7. QED BY <1>1, <2>1, <2>4, <2>5, <2>6
<1>4. CASE type.kind = "array" /\ IsElementType(type.of) /\ type.n \in Nat \ {0}
  <2>1. /\ r = arrayRead(s, type.of, type.n)
        /\ MemberValues(type) = [1 .. type.n -> ElementValues(type.of)]
        /\ \A x : MemberSize(type, x) = ElementSum(type.of, x, type.n)
        /\ \A w, x : writeMember(w, type, x) = arrayWrite(w, type.of, type.n, x)
        /\ ~OfBool(type) => type.of # Bool
    BY <1>4, <1>h DEF MemberSize, ElementSum, MemberValues, writeMember, readMember, OfBool
  <2>2. PICK x \in [1 .. type.n -> ElementValues(type.of)] : \E m \in Nat :
          /\ Gives(s, r, m, x)
          /\ ElementSum(type.of, x, type.n) < UintModulus =>
               /\ m = ElementSum(type.of, x, type.n)
               /\ type.of # Bool =>
                    \A w : /\ Sound(w) /\ w.end <= Capacity /\ w.at = s.at
                           /\ ~Thrown(arrayWrite(w, type.of, type.n, x))
                      => Same(arrayWrite(w, type.of, type.n, x).memory, s.memory, s.at, m)
    <3>1. \A n \in Nat : r = arrayRead(s, type.of, n) =>
            \E x \in [1 .. n -> ElementValues(type.of)] : \E m \in Nat :
              /\ Gives(s, r, m, x)
              /\ ElementSum(type.of, x, n) < UintModulus =>
                   /\ m = ElementSum(type.of, x, n)
                   /\ type.of # Bool =>
                        \A w : /\ Sound(w) /\ w.end <= Capacity /\ w.at = s.at
                               /\ ~Thrown(arrayWrite(w, type.of, n, x))
                          => Same(arrayWrite(w, type.of, n, x).memory, s.memory, s.at, m)
      BY <1>4, ArrayGives
    <3>2. type.n \in Nat
      BY <1>4
    <3>3. QED BY <2>1, <3>1, <3>2
  <2>3. QED BY <1>1, <1>4, <2>1, <2>2
<1>5. CASE type = Rest
  <2>1. /\ type.kind # "vector" /\ r = restRead(s) /\ MemberValues(type) = Seq(Byte)
        /\ \A x : MemberSize(type, x) = Len(x)
        /\ \A w, x : writeMember(w, type, x) = restWrite(w, x)
    BY <1>5, <1>h DEF MemberSize, MemberValues, Rest, writeMember, readMember
  <2>2. PICK n \in Nat : \E x \in Seq(Byte) :
          /\ Len(x) = n /\ n < UintModulus /\ Gives(s, r, n, x)
          /\ \A w : Sound(w) /\ w.end <= Capacity /\ w.at = s.at /\ ~Thrown(restWrite(w, x))
               => Same(restWrite(w, x).memory, s.memory, s.at, n)
    BY <2>1, RestGives
  <2>3. PICK x \in Seq(Byte) :
          /\ Len(x) = n /\ n < UintModulus /\ Gives(s, r, n, x)
          /\ \A w : Sound(w) /\ w.end <= Capacity /\ w.at = s.at /\ ~Thrown(restWrite(w, x))
               => Same(restWrite(w, x).memory, s.memory, s.at, n)
    BY <2>2
  <2>4. QED BY <1>1, <2>1, <2>3
<1>6. QED BY <1>2, <1>3, <1>4, <1>5, <1>h DEF IsMemberType

(* A reader that comes to an end has a message, and its bytes are the ones   *)
(* that the message is written as.                                           *)
LEMMA MessageGives ==
  ASSUME NEW s, Within(s), s.got = <<>>, NEW type \in Seq(Types),
         NEW r, r = deserialize(s, type), ~Thrown(r), NEW x, x = r.got
  PROVE  /\ IsMessage(type, x)
         /\ Expressible(type, x) =>
              /\ r.at = s.at + Size(type, x) /\ r.at <= s.end
              /\ ~HasBool(type) =>
                   \A w : Sound(w) /\ w.end <= Capacity /\ w.at = s.at /\ ~Thrown(serialize(w, type, x))
                     => Same(serialize(w, type, x).memory, s.memory, s.at, Size(type, x))
<1> DEFINE n == Len(type)
<1>1. n \in Nat /\ DOMAIN type = 1 .. n /\ \A i \in 1 .. n : IsMemberType(type[i])
  BY MessageAssumption
<1>2. PICK read : Iterates("deserialize", s, type, 0, n, read) /\ r = read[n]
  BY <1>1, DeserializeLoop
<1> HIDE DEF n
<1>3. \A w : \A i \in 1 .. n :
        Within(w) /\ w.full = s.full /\ ~Thrown(Called("deserialize", w, i, type, 0)) =>
          \E m \in Nat : \E y : /\ Gives(w, Called("deserialize", w, i, type, 0), m, y)
                                /\ Accepts("deserialize", w.memory, w.at, i, type, m, y)
  <2> SUFFICES ASSUME NEW w, NEW i \in 1 .. n, Within(w), ~Thrown(readMember(w, type[i]))
               PROVE  \E m \in Nat : \E y : /\ Gives(w, readMember(w, type[i]), m, y)
                                            /\ Accepts("deserialize", w.memory, w.at, i, type, m, y)
    BY DEF Called
  <2>1. QED BY <1>1, MemberGives
<1>4. PICK A, g, v :
        /\ \A i \in 1 .. n : A[i] \in Nat
        /\ Sums(A, n, g)
        /\ Filled(s, r, g[n], Firsts(v, n)) /\ s.at + g[n] <= s.end
        /\ \A i \in 1 .. n : Accepts("deserialize", s.memory, s.at + g[i - 1], i, type, A[i], v[i])
  <2>1. ~Thrown(read[n])
    BY <1>2
  <2>2. \E A, g, v :
          /\ \A i \in 1 .. n : A[i] \in Nat
          /\ Sums(A, n, g)
          /\ Filled(s, read[n], g[n], Firsts(v, n)) /\ s.at + g[n] <= s.end
          /\ \A i \in 1 .. n : Accepts("deserialize", s.memory, s.at + g[i - 1], i, type, A[i], v[i])
    BY <1>1, <1>2, <1>3, <2>1, LoopAccepts
  <2>3. QED BY <1>2, <2>2
<1>5. r.at = s.at + g[n] /\ x = Firsts(v, n) /\ r.at <= s.end
  BY <1>4 DEF Filled
<1>6. \A i \in 1 .. n :
        /\ x[i] = v[i] /\ x[i] \in MemberValues(type[i])
        /\ type[i].kind = "vector" => Len(x[i]) < UintModulus
        /\ MemberSize(type[i], x[i]) < UintModulus =>
             /\ A[i] = MemberSize(type[i], x[i])
             /\ OfBool(type[i]) \/ Again("serialize", s.memory, s.at + g[i - 1], i, type, A[i], x[i])
  <2>1. \A i \in 1 .. n : x[i] = v[i]
    BY <1>5 DEF Firsts
  <2>2. QED BY <1>4, <2>1 DEF Accepts
<1>7. IsMessage(type, x)
  BY <1>6 DEF IsMessage, n
<1>8. ASSUME Expressible(type, x)
      PROVE  /\ r.at = s.at + Size(type, x) /\ r.at <= s.end
             /\ ~HasBool(type) =>
                  \A w : Sound(w) /\ w.end <= Capacity /\ w.at = s.at /\ ~Thrown(serialize(w, type, x))
                    => Same(serialize(w, type, x).memory, s.memory, s.at, Size(type, x))
  <2>1. PICK T, h : /\ \A i \in 1 .. n : T[i] = MemberSize(type[i], x[i]) /\ T[i] \in Nat
                    /\ Sums(T, n, h) /\ h[n] \in Nat
                    /\ \A i \in 1 .. n : T[i] <= h[n]
                    /\ Size(type, x) = h[n]
                    /\ Expressible(type, x) <=> h[n] < UintModulus
    <3>1. PICK T, h : SummedMembers(type, x, T, h)
      BY <1>7, MemberSums
    <3>2. QED BY <3>1 DEF n, SummedMembers
  <2>2. \A i \in 1 .. n : T[i] \in Nat /\ T[i] < UintModulus /\ T[i] = MemberSize(type[i], x[i])
    BY <1>8, <2>1, UintNat
  <2>3. \A i \in 1 .. n : A[i] = T[i]
    BY <1>6, <2>2
  <2>4. h = g
    <3>1. \A i \in 1 .. n : T[i] \in Nat
      BY <2>2
    <3>2. Sums(T, n, h) /\ Sums(A, n, g) /\ n \in Nat
      BY <1>1, <1>4, <2>1
    <3>3. SameTerms(T, A, n)
      BY <2>3, <3>1 DEF SameTerms
    <3>4. QED BY <3>2, <3>3, SumsUnique
  <2>5. Size(type, x) = g[n]
    BY <1>1, <2>1, <2>4
  <2>6. ASSUME ~HasBool(type), NEW w, Sound(w), w.end <= Capacity, w.at = s.at,
               ~Thrown(serialize(w, type, x))
        PROVE  Same(serialize(w, type, x).memory, s.memory, s.at, g[n])
    <3>1. PICK after : Iterates("serialize", w, type, x, n, after) /\ serialize(w, type, x) = after[n]
      BY <1>1, SerializeLoop DEF n
    <3>2. \A u : \A i \in 1 .. n : Sound(u) => Writes(u, Called("serialize", u, i, type, x), A[i])
      <4> SUFFICES ASSUME NEW u, NEW i \in 1 .. n, Sound(u)
                   PROVE  Writes(u, writeMember(u, type[i], x[i]), A[i])
        BY DEF Called
      <4>1. QED BY <1>1, <1>6, <2>2, <2>3, MemberWrites DEF Sound
    <3>3. \A u : \A i \in 1 .. n :
            Sound(u) /\ u.end <= Capacity /\ ~Thrown(Called("serialize", u, i, type, x)) =>
              Frames(u, Called("serialize", u, i, type, x), A[i])
      <4> SUFFICES ASSUME NEW u, NEW i \in 1 .. n, Sound(u), u.end <= Capacity,
                          ~Thrown(writeMember(u, type[i], x[i]))
                   PROVE  Frames(u, writeMember(u, type[i], x[i]), A[i])
        BY DEF Called
      <4>1. Leaves(u, writeMember(u, type[i], x[i]), "deserialize", i, type,
                   MemberSize(type[i], x[i]), x[i])
        BY <1>1, <1>6, <2>2, MemberLeaves
      <4>2. QED BY <2>2, <2>3, <4>1 DEF Leaves
    <3>4. \A i \in 1 .. n : Again("serialize", s.memory, w.at + g[i - 1], i, type, A[i], x[i])
      <4>1. \A i \in 1 .. n : ~OfBool(type[i])
        BY <1>1, <2>6 DEF HasBool, OfBool
      <4>2. QED BY <1>6, <2>2, <2>6, <4>1
    <3>5. ~Thrown(after[n])
      BY <2>6, <3>1
    <3>6. Same(after[n].memory, s.memory, w.at, g[n])
      BY <1>1, <1>4, <2>6, <3>1, <3>2, <3>3, <3>4, <3>5, LoopAgain
    <3>7. QED BY <2>6, <3>1, <3>6
  <2>7. QED BY <1>5, <2>5, <2>6
<1>9. QED BY <1>7, <1>8

-----------------------------------------------------------------------------
(* The invariant: every call leaves streams that lie in the block, in their  *)
(* bounds, and as far as they were announced to come.                        *)
SInv == TypeOK /\ WithinBounds /\ LengthExact

(* What TypeOK says of one stream. *)
StreamOK(s) ==
  /\ s.end \in 0 .. Capacity
  /\ s.exception \in {"none", "StreamOverrun", "bad_alloc"}
  /\ s # NoStream => s.memory \in [Address -> Byte]

LEMMA StreamTyped ==
  ASSUME NEW s, IsStream(s), s.end \in 0 .. Capacity
  PROVE  StreamOK(s)
  BY DEF StreamOK, IsStream, Streams

LEMMA NoStreamTyped == StreamOK(NoStream) /\ NoStream.touched = {} /\ NoStream.end = 0
  BY SerializationAssumption DEF StreamOK, NoStream

(* A stream made of the block. *)
LEMMA BlockStream ==
  ASSUME NEW memory \in [Address -> Byte], NEW size \in 0 .. Capacity, NEW full \in BOOLEAN
  PROVE  LET s == Stream(memory, size, full)
         IN  /\ IsStream(s) /\ Sound(s) /\ InBounds(s) /\ ~Thrown(s)
             /\ s.at = 0 /\ s.end = size
<1> DEFINE s == Stream(memory, size, full)
<1>1. size \in Nat
  BY SerializationAssumption
<1>2. /\ IsStream(s)
      /\ s = [memory |-> memory, at |-> 0, end |-> size, exception |-> "none",
              touched |-> {}, got |-> <<>>, full |-> full]
  BY <1>1, NewStream
<1> HIDE DEF s
<1>3. IsStream(s) /\ Sound(s) /\ InBounds(s) /\ ~Thrown(s) /\ s.at = 0 /\ s.end = size
  BY <1>1, <1>2 DEF Sound, InBounds, Thrown
<1>4. QED BY <1>3 DEF s

LEMMA MessageTyped ==
  ASSUME NEW message \in Messages
  PROVE  message.type \in Seq(Types) /\ IsMessage(message.type, message.value)
<1>1. message.type \in Seq(Types) /\ \A i \in DOMAIN message.type :
                                       message.value[i] \in MemberValues(message.type[i])
  BY MessageAssumption
<1>2. DOMAIN message.type = 1 .. Len(message.type)
  BY <1>1
<1>3. QED BY <1>1, <1>2 DEF IsMessage

LEMMA SInvInit == Init => SInv
<1> SUFFICES ASSUME Init PROVE SInv
  OBVIOUS
<1>1. TypeOK
  BY NoStreamTyped, SerializationAssumption DEF Init, TypeOK, StreamOK
<1>2. WithinBounds
  BY NoStreamTyped DEF Init, WithinBounds
<1>3. LengthExact
  BY DEF Init, LengthExact
<1>4. QED BY <1>1, <1>2, <1>3 DEF SInv

LEMMA SInvNext == SInv /\ [Next]_vars => SInv'
<1> SUFFICES ASSUME SInv, [Next]_vars PROVE SInv'
  OBVIOUS
<1>1. /\ block \in [Address -> Byte]
      /\ sent \in Messages \cup {NoMessage}
      /\ asked \in {message.type : message \in Messages} \cup {<<>>}
      /\ StreamOK(out) /\ StreamOK(in)
  BY DEF SInv, TypeOK, StreamOK
<1>2. ASSUME NEW message \in Messages, NEW size \in 0 .. Capacity, Serialize(message, size)
      PROVE  SInv'
  <2> DEFINE s == Stream(block, size, FALSE)
             r == serialize(s, message.type, message.value)
  <2>1. /\ sent' = message /\ out' = r /\ block' = r.memory
        /\ asked' = asked /\ in' = in
    BY <1>2 DEF Serialize
  <2>2. IsStream(s) /\ Sound(s) /\ InBounds(s) /\ ~Thrown(s) /\ s.at = 0 /\ s.end = size
    BY <1>1, BlockStream
  <2>3. IsMessage(message.type, message.value)
    BY MessageTyped
  <2> DEFINE n == Size(message.type, message.value)
  <2> HIDE DEF s
  <2>4. /\ Keeps(s, r) /\ n \in Nat
        /\ Expressible(message.type, message.value) => Writes(s, r, n)
    BY <2>2, <2>3, SerializeWrites
  <2> HIDE DEF r, n
  <2>5. IsStream(r) /\ r.end = size /\ StreamOK(r)
    BY <2>2, <2>4, StreamTyped DEF Keeps
  <2>6. r.memory \in [Address -> Byte]
    BY <2>5 DEF IsStream, Streams
  <2>7. TypeOK'
    BY <1>1, <2>1, <2>5, <2>6 DEF TypeOK, StreamOK
  <2>8. WithinBounds'
    <3>1. Expressible(message.type, message.value) => r.touched \subseteq 0 .. r.end - 1
      BY <2>2, <2>4 DEF Writes, InBounds
    <3>2. in.touched \subseteq 0 .. in.end - 1
      BY DEF SInv, WithinBounds
    <3>3. QED BY <2>1, <3>1, <3>2 DEF WithinBounds
  <2>9. LengthExact'
    <3> SUFFICES ASSUME Expressible(message.type, message.value)
                 PROVE  /\ Thrown(r) <=> serializationLength(message.type, message.value) > r.end
                        /\ ~Thrown(r) => r.at = serializationLength(message.type, message.value)
      BY <2>1 DEF LengthExact
    <3>1. serializationLength(message.type, message.value) = n
      BY <2>3, SerializationLengths DEF n
    <3>2. /\ Thrown(r) <=> 0 + n > r.end
          /\ ~Thrown(r) => r.at = 0 + n
      BY <2>2, <2>4 DEF Writes
    <3>3. 0 + n = n
      BY <2>4
    <3>4. QED BY <3>1, <3>2, <3>3
  <2>10. QED BY <2>7, <2>8, <2>9 DEF SInv
<1>3. ASSUME NEW message \in Messages, NEW size \in 0 .. Capacity, NEW full \in BOOLEAN,
             Deserialize(message.type, size, full)
      PROVE  SInv'
  <2> DEFINE s == Stream(block, size, full)
             r == deserialize(s, message.type)
  <2>1. /\ asked' = message.type /\ in' = r
        /\ block' = block /\ sent' = sent /\ out' = out
    BY <1>3 DEF Deserialize
  <2>2. IsStream(s) /\ InBounds(s) /\ s.end = size
    BY <1>1, BlockStream
  <2> HIDE DEF s
  <2>3. Reads(s, r)
    BY <2>2, MessageTyped, DeserializeReads
  <2> HIDE DEF r
  <2>4. IsStream(r) /\ r.end = size /\ StreamOK(r) /\ InBounds(r)
    BY <2>2, <2>3, StreamTyped DEF Reads, Keeps
  <2>5. TypeOK'
    BY <1>1, <2>1, <2>4 DEF TypeOK, StreamOK
  <2>6. WithinBounds'
    BY <2>1, <2>4 DEF SInv, WithinBounds, InBounds
  <2>7. LengthExact'
    BY <2>1 DEF SInv, LengthExact
  <2>8. QED BY <2>5, <2>6, <2>7 DEF SInv
<1>4. CASE Reallocate
  <2>1. /\ block' = [a \in Address |-> 0] /\ sent' = NoMessage /\ out' = NoStream
        /\ asked' = <<>> /\ in' = NoStream
    BY <1>4 DEF Reallocate
  <2>2. block' \in [Address -> Byte]
    BY <2>1, ByteNat
  <2>3. TypeOK'
    BY <2>1, <2>2, NoStreamTyped DEF TypeOK, StreamOK
  <2>4. WithinBounds'
    BY <2>1, NoStreamTyped DEF WithinBounds
  <2>5. LengthExact'
    BY <2>1 DEF LengthExact
  <2>6. QED BY <2>3, <2>4, <2>5 DEF SInv
<1>5. CASE UNCHANGED vars
  BY <1>5 DEF SInv, vars, TypeOK, WithinBounds, LengthExact
<1>6. QED BY <1>2, <1>3, <1>4, <1>5 DEF Next

LEMMA SInvHolds == Spec => []SInv
  BY SInvInit, SInvNext, PTL DEF Spec

(* Whatever is written into the block or read out of it, by calls of         *)
(* serialize and deserialize that return or throw, leaves a block of bytes   *)
(* and streams whose ends lie in it.                                         *)
THEOREM StreamsTyped == Spec => []TypeOK
<1>1. SInv => TypeOK
  BY DEF SInv
<1>2. QED BY <1>1, SInvHolds, PTL

(* No stream reads or writes a byte outside of the count it was made with:   *)
(* a reader never, whatever length the bytes of the block claim, a writer of *)
(* a message of less than 2^32 bytes never.                                  *)
THEOREM StreamsWithinBounds == Spec => []WithinBounds
<1>1. SInv => WithinBounds
  BY DEF SInv
<1>2. QED BY <1>1, SInvHolds, PTL

(* A message of less than 2^32 bytes fits a stream if and only if the length *)
(* that serializationLength gave fits, and uses up that length.              *)
THEOREM LengthsExact == Spec => []LengthExact
<1>1. SInv => LengthExact
  BY DEF SInv
<1>2. QED BY <1>1, SInvHolds, PTL
(* What was sent whole is what a reader of the block finds, of any size if   *)
(* the type has no rest in it and of its own size otherwise.                 *)
Readable ==
  Ended(out) /\ Expressible(sent.type, sent.value) /\ Countable(sent.type, sent.value) =>
    \A size \in 0 .. Capacity :
      (IsRaw(sent.type) => RestLast(sent.type) /\ size = Size(sent.type, sent.value)) =>
        Filled(Stream(block, size, FALSE), deserialize(Stream(block, size, FALSE), sent.type),
               Size(sent.type, sent.value), sent.value)

(* The stream of a reader that lacks no memory. *)
LEMMA BlockReady ==
  ASSUME NEW memory \in [Address -> Byte], NEW size \in 0 .. Capacity
  PROVE  LET w == Stream(memory, size, FALSE)
         IN  Ready(w) /\ w.got = <<>> /\ w.at = 0 /\ w.end = size /\ w.memory = memory /\ ~w.full
<1> DEFINE w == Stream(memory, size, FALSE)
<1>1. size \in Nat /\ 0 <= size /\ size <= Capacity /\ FALSE \in BOOLEAN
  BY SerializationAssumption
<1>2. /\ IsStream(w)
      /\ w = [memory |-> memory, at |-> 0, end |-> size, exception |-> "none",
              touched |-> {}, got |-> <<>>, full |-> FALSE]
  BY <1>1, NewStream
<1> HIDE DEF w
<1>3. Ready(w) /\ w.got = <<>> /\ w.at = 0 /\ w.end = size /\ w.memory = memory /\ ~w.full
  BY <1>1, <1>2 DEF Ready, Within, Thrown
<1>4. QED BY <1>3 DEF w

(* The invariant of the round trip: before it is read, the block can be.     *)
RInv == SInv /\ Readable /\ RoundTrip

LEMMA RInvInit == Init => RInv
<1>1. Init => Readable /\ RoundTrip
  BY DEF Init, Readable, RoundTrip, Ended
<1>2. QED BY <1>1, SInvInit DEF RInv

LEMMA RInvNext == RInv /\ [Next]_vars => RInv'
<1> SUFFICES ASSUME RInv, [Next]_vars PROVE RInv'
  OBVIOUS
<1>1. SInv /\ SInv' /\ block \in [Address -> Byte]
  BY SInvNext DEF RInv, SInv, TypeOK
<1>2. ASSUME NEW message \in Messages, NEW size \in 0 .. Capacity, Serialize(message, size)
      PROVE  Readable' /\ RoundTrip'
  <2> DEFINE s == Stream(block, size, FALSE)
             type == message.type
             v == message.value
             r == serialize(s, type, v)
  <2>1. sent' = message /\ out' = r /\ block' = r.memory /\ in' = NoStream
    BY <1>2 DEF Serialize
  <2>2. RoundTrip'
    BY <2>1 DEF RoundTrip
  <2>3. Sound(s) /\ IsStream(s) /\ s.at = 0 /\ s.end = size /\ s.end <= Capacity
    <3>1. IsStream(s) /\ Sound(s) /\ s.at = 0 /\ s.end = size
      BY <1>1, BlockStream
    <3>2. size <= Capacity
      BY SerializationAssumption
    <3>3. QED BY <3>1, <3>2
  <2>4. IsMessage(type, v) /\ v = Firsts(v, Len(type))
    <3>1. IsMessage(type, v) /\ type \in Seq(Types) /\ v = [i \in DOMAIN type |-> v[i]]
      BY MessageTyped, MessageAssumption
    <3>2. DOMAIN type = 1 .. Len(type)
      BY <3>1
    <3>3. QED BY <3>1, <3>2 DEF Firsts
  <2>5. r.memory \in [Address -> Byte]
    BY <1>1, <2>1 DEF SInv, TypeOK
  <2> HIDE DEF s, r
  <2>6. ASSUME ~Thrown(r), Expressible(type, v), Countable(type, v),
               NEW count \in 0 .. Capacity,
               IsRaw(type) => RestLast(type) /\ count = Size(type, v)
        PROVE  Filled(Stream(r.memory, count, FALSE), deserialize(Stream(r.memory, count, FALSE), type),
                      Size(type, v), v)
    <3> DEFINE w == Stream(r.memory, count, FALSE)
    <3>1. Ready(w) /\ w.got = <<>> /\ w.at = 0 /\ w.end = count /\ w.memory = r.memory
      BY <2>5, BlockReady
    <3>2. Size(type, v) \in Nat
      BY <2>3, <2>4, SerializeWrites
    <3> HIDE DEF w
    <3>3. Filled(w, deserialize(w, type), Size(type, v), v)
      BY <2>3, <2>4, <2>6, <3>1, <3>2, MessageBack DEF r
    <3>4. QED BY <3>3 DEF w
  <2>7. Readable'
    BY <2>1, <2>6 DEF Readable, Ended
  <2>8. QED BY <2>2, <2>7
<1>3. ASSUME NEW message \in Messages, NEW size \in 0 .. Capacity, NEW full \in BOOLEAN,
             Deserialize(message.type, size, full)
      PROVE  Readable' /\ RoundTrip'
  <2> DEFINE s == Stream(block, size, full)
             r == deserialize(s, message.type)
  <2>1. /\ asked' = message.type /\ in' = r
        /\ block' = block /\ sent' = sent /\ out' = out
    BY <1>3 DEF Deserialize
  <2>2. Readable'
    BY <2>1 DEF RInv, Readable
  <2>3. ASSUME Ended(out), Expressible(sent.type, sent.value), Countable(sent.type, sent.value),
               r # NoStream, message.type = sent.type, ~r.full
        PROVE  LET length == serializationLength(sent.type, sent.value)
               IN  IF IsRaw(sent.type)
                   THEN r.end = length /\ RestLast(sent.type) => Ended(r) /\ r.got = sent.value
                   ELSE IF r.end >= length
                        THEN Ended(r) /\ r.got = sent.value /\ r.at = length
                        ELSE r.exception = "StreamOverrun"
    <3> DEFINE length == Size(sent.type, sent.value)
               w == Stream(block, size, FALSE)
    <3>1. sent \in Messages \/ sent = NoMessage
      BY <1>1 DEF SInv, TypeOK
    <3>2. IsMessage(sent.type, sent.value)
      <4>1. CASE sent \in Messages
        BY <4>1, MessageTyped
      <4>2. CASE sent = NoMessage
        BY <4>2 DEF NoMessage, IsMessage
      <4>3. QED BY <3>1, <4>1, <4>2
    <3>3. IsStream(s) /\ s.full = full /\ s.end = size
      <4>1. size \in Nat
        BY SerializationAssumption
      <4>2. /\ IsStream(s)
            /\ s = [memory |-> block, at |-> 0, end |-> size, exception |-> "none",
                    touched |-> {}, got |-> <<>>, full |-> full]
        BY <1>1, <4>1, NewStream
      <4> HIDE DEF s
      <4>3. QED BY <4>2
    <3>4. r.full = full
      <4>1. Reads(s, r)
        BY <3>3, MessageTyped, DeserializeReads
      <4>2. QED BY <3>3, <4>1 DEF Reads, Keeps
    <3>5. s = w /\ r = deserialize(w, sent.type)
      BY <2>3, <3>4
    <3>6. /\ w.at = 0 /\ w.end = size
      BY <1>1, BlockReady
    <3>7. serializationLength(sent.type, sent.value) = length
      BY <2>3, <3>2, SerializationLengths
    <3>8. length \in Nat /\ size \in Nat
      BY <3>2, <3>3, SerializeWrites, SerializationAssumption
    <3>9. (IsRaw(sent.type) => RestLast(sent.type) /\ size = length) => Filled(w, r, length, sent.value)
      BY <2>3, <3>5 DEF RInv, Readable
    <3> HIDE DEF w, r, length, s
    <3>10. (IsRaw(sent.type) => RestLast(sent.type) /\ size = length) =>
             /\ IsStream(r) /\ r.end = size
             /\ length <= size => ~Thrown(r) /\ r.at = length /\ r.got = sent.value
             /\ length > size => r.exception = "StreamOverrun"
      BY <3>6, <3>8, <3>9 DEF Filled
    <3>11. r.end = size
      BY <3>3, MessageTyped, DeserializeReads DEF Reads, Keeps, r
    <3>12. r # NoStream
      BY <2>3 DEF r
    <3>13. QED BY <3>7, <3>8, <3>10, <3>11, <3>12 DEF Ended, length, r
  <2>4. RoundTrip'
    BY <2>1, <2>3 DEF RoundTrip
  <2>5. QED BY <2>2, <2>4
<1>4. ASSUME Reallocate PROVE Readable' /\ RoundTrip'
  <2>1. out' = NoStream
    BY <1>4 DEF Reallocate
  <2>2. ~Ended(out')
    BY <2>1 DEF Ended
  <2>3. Readable'
    BY <2>2 DEF Readable
  <2>4. RoundTrip'
    BY <2>2 DEF RoundTrip
  <2>5. QED BY <2>3, <2>4
<1>5. ASSUME UNCHANGED vars PROVE Readable' /\ RoundTrip'
  <2>1. block' = block /\ sent' = sent /\ out' = out /\ asked' = asked /\ in' = in
    BY <1>5 DEF vars
  <2>2. Readable'
    BY <2>1 DEF RInv, Readable
  <2>3. RoundTrip'
    BY <2>1 DEF RInv, RoundTrip
  <2>4. QED BY <2>2, <2>3
<1>6. Readable' /\ RoundTrip'
  BY <1>2, <1>3, <1>4, <1>5 DEF Next
<1>7. QED BY <1>1, <1>6 DEF RInv

(* Reading gives back what was sent: every message of less than 2^32 bytes   *)
(* and elements that serialize put into the block whole is what deserialize  *)
(* takes out of it, from a count that covers it, and a shorter count throws. *)
THEOREM MessagesRoundTrip == Spec => []RoundTrip
<1>1. RInv => RoundTrip
  BY DEF RInv
<1>2. Spec => []RInv
  BY RInvInit, RInvNext, PTL DEF Spec
<1>3. QED BY <1>1, <1>2, PTL

(* The invariant of the reader that asks for any type: streams in the block, *)
(* and of what they accept, what AcceptsOnlyMessages says.                   *)
AInv == SInv /\ AcceptsOnlyMessages

LEMMA AInvInit == Init => AInv
<1>1. Init => AcceptsOnlyMessages
  BY DEF Init, AcceptsOnlyMessages, Ended
<1>2. QED BY <1>1, SInvInit DEF AInv

LEMMA AInvNext == AInv /\ [Next]_vars => AInv'
<1> SUFFICES ASSUME AInv, [Next]_vars PROVE AInv'
  OBVIOUS
<1>1. SInv /\ SInv' /\ block \in [Address -> Byte]
  BY SInvNext DEF AInv, SInv, TypeOK
<1>2. ASSUME NEW message \in Messages, NEW size \in 0 .. Capacity, Serialize(message, size)
      PROVE  AcceptsOnlyMessages'
  <2>1. in' = NoStream
    BY <1>2 DEF Serialize
  <2>2. QED BY <2>1 DEF AcceptsOnlyMessages, Ended
<1>3. ASSUME NEW message \in Messages, NEW size \in 0 .. Capacity, NEW full \in BOOLEAN,
             Deserialize(message.type, size, full)
      PROVE  AcceptsOnlyMessages'
  <2> DEFINE s == Stream(block, size, full)
             type == message.type
             r == deserialize(s, type)
             x == r.got
             w == Stream([a \in Address |-> 0], r.at, FALSE)
             again == serialize(w, type, x)
  <2>1. asked' = type /\ in' = r /\ block' = block
    BY <1>3 DEF Deserialize
  <2>2. size \in Nat /\ size <= Capacity /\ Capacity \in Nat /\ [a \in Address |-> 0] \in [Address -> Byte]
    BY SerializationAssumption, ByteNat
  <2>3. Within(s) /\ s.got = <<>> /\ s.at = 0 /\ s.end = size /\ s.memory = block
    <3>1. /\ IsStream(s)
          /\ s = [memory |-> block, at |-> 0, end |-> size, exception |-> "none",
                  touched |-> {}, got |-> <<>>, full |-> full]
      BY <1>1, <2>2, NewStream
    <3> HIDE DEF s
    <3>2. QED BY <2>2, <3>1 DEF Within, Thrown
  <2>4. type \in Seq(Types)
    BY MessageTyped
  <2>5. SUFFICES ASSUME ~Thrown(r), Expressible(type, x)
                 PROVE  /\ serializationLength(type, x) = r.at
                        /\ ~Thrown(again) /\ again.at = r.at
                        /\ HasBool(type) \/ \A a \in 0 .. r.at - 1 : again.memory[a] = block[a]
    BY <2>1 DEF AcceptsOnlyMessages, Ended
  <2> HIDE DEF s
  <2>6. /\ IsMessage(type, x)
        /\ r.at = s.at + Size(type, x) /\ r.at <= s.end
        /\ ~HasBool(type) =>
             \A u : Sound(u) /\ u.end <= Capacity /\ u.at = s.at /\ ~Thrown(serialize(u, type, x))
               => Same(serialize(u, type, x).memory, s.memory, s.at, Size(type, x))
    <3> HIDE DEF r, type
    <3>1. QED BY <2>3, <2>4, <2>5, MessageGives DEF r
  <2>7. serializationLength(type, x) = Size(type, x)
    BY <2>5, <2>6, SerializationLengths
  <2> HIDE DEF r, x, type
  <2>8. Size(type, x) \in Nat
    BY <2>3, <2>6, SerializeWrites DEF Within
  <2>9. r.at = Size(type, x) /\ r.at \in 0 .. Capacity
    BY <2>2, <2>3, <2>6, <2>8
  <2>10. IsStream(w) /\ Sound(w) /\ w.at = 0 /\ w.end = r.at /\ ~Thrown(w)
    BY <2>2, <2>9, BlockStream
  <2> HIDE DEF w
  <2>11. Writes(w, again, Size(type, x))
    BY <2>5, <2>6, <2>10, SerializeWrites
  <2> HIDE DEF again
  <2>12. ~Thrown(again) /\ again.at = r.at
    BY <2>8, <2>9, <2>10, <2>11 DEF Writes
  <2>13. ASSUME ~HasBool(type), NEW a \in 0 .. r.at - 1 PROVE again.memory[a] = block[a]
    <3>1. Same(again.memory, block, 0, r.at)
      BY <2>2, <2>3, <2>6, <2>9, <2>10, <2>12, <2>13 DEF again
    <3>2. a \in Address /\ a \in 0 .. 0 + r.at - 1
      BY <2>2, <2>9, <2>13 DEF Address
    <3>3. QED BY <3>1, <3>2 DEF Same
  <2>14. QED BY <2>7, <2>9, <2>12, <2>13
<1>4. ASSUME Reallocate PROVE AcceptsOnlyMessages'
  <2>1. in' = NoStream
    BY <1>4 DEF Reallocate
  <2>2. QED BY <2>1 DEF AcceptsOnlyMessages, Ended
<1>5. ASSUME UNCHANGED vars PROVE AcceptsOnlyMessages'
  BY <1>5 DEF AInv, AcceptsOnlyMessages, vars
<1>6. AcceptsOnlyMessages'
  BY <1>2, <1>3, <1>4, <1>5 DEF Next
<1>7. QED BY <1>1, <1>6 DEF AInv

(* Whatever bytes are in the block, a message of another type, an older one  *)
(* or half of one: deserialize throws or gives a message of the type that    *)
(* was asked for, whose length is what was read and whose bytes are these,   *)
(* but for a bool, which several bytes stand for.                            *)
THEOREM AcceptedAreMessages == Spec => []AcceptsOnlyMessages
<1>1. AInv => AcceptsOnlyMessages
  BY DEF AInv
<1>2. Spec => []AInv
  BY AInvInit, AInvNext, PTL DEF Spec
<1>3. QED BY <1>1, <1>2, PTL

=============================================================================
