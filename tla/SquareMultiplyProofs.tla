-------------------------- MODULE SquareMultiplyProofs --------------------------
(***************************************************************************)
(* For secrets of any width, any generator and any modulus: the loops of   *)
(* dh.c compute the power they should, and the two ends agree.             *)
(***************************************************************************)
EXTENDS SquareMultiply, SequenceLemmas, FiniteSetTheorems, TLAPS

--------------------------------------------------------------------------------
(* Recursive functions *)

\* The values that repeated use of h on a gives, up to the n-th.
Approx(V, a, h, n) == {g \in [0..n -> V] : g[0] = a /\ \A k \in 0..n - 1 : g[k + 1] = h[g[k]]}

\* There are such values, up to every number.
LEMMA ApproxExists ==
    ASSUME NEW V, NEW a \in V, NEW h \in [V -> V], NEW n \in Nat
    PROVE  Approx(V, a, h, n) # {}
<1> DEFINE S == {k \in Nat : Approx(V, a, h, k) # {}}
<1>1. 0 \in S
  <2>1. [k \in 0..0 |-> a] \in Approx(V, a, h, 0)
    BY DEF Approx
  <2> QED BY <2>1
<1>2. ASSUME NEW k \in Nat, k \in S PROVE k + 1 \in S
  <2>1. PICK g : g \in Approx(V, a, h, k)
    BY <1>2
  <2> DEFINE e == [j \in 0..k + 1 |-> IF j = k + 1 THEN h[g[k]] ELSE g[j]]
  <2>2. g \in [0..k -> V] /\ g[0] = a /\ \A j \in 0..k - 1 : g[j + 1] = h[g[j]]
    BY <2>1 DEF Approx
  <2>3. e \in [0..k + 1 -> V] /\ e[0] = a
    BY <2>2
  <2>4. ASSUME NEW j \in 0..(k + 1) - 1 PROVE e[j + 1] = h[e[j]]
    <3>1. CASE j = k
      BY <3>1
    <3>2. CASE j # k
      <4>1. j \in 0..k - 1 /\ j + 1 \in 0..k /\ j + 1 # k + 1
        BY <3>2
      <4> QED BY <2>2, <4>1
    <3> QED BY <3>1, <3>2
  <2>5. e \in Approx(V, a, h, k + 1)
    BY <2>3, <2>4 DEF Approx
  <2> QED BY <2>5
<1>3. Nat \subseteq S
  <2> HIDE DEF S
  <2> QED BY <1>1, <1>2, SetInduction
<1> QED BY <1>3

\* And only one for each number, however far the others go.
LEMMA ApproxUnique ==
    ASSUME NEW V, NEW a \in V, NEW h \in [V -> V], NEW k \in Nat,
           NEW m \in Nat, NEW n \in Nat, k <= m, k <= n,
           NEW f \in Approx(V, a, h, m), NEW g \in Approx(V, a, h, n)
    PROVE  f[k] = g[k]
<1> DEFINE S == {j \in Nat : j <= m /\ j <= n => f[j] = g[j]}
<1>1. /\ f[0] = a /\ \A j \in 0..m - 1 : f[j + 1] = h[f[j]]
      /\ g[0] = a /\ \A j \in 0..n - 1 : g[j + 1] = h[g[j]]
  BY DEF Approx
<1>2. 0 \in S
  BY <1>1
<1>3. \A j \in Nat : j \in S => j + 1 \in S
  <2> SUFFICES ASSUME NEW j \in Nat, j \in S, j + 1 <= m, j + 1 <= n PROVE f[j + 1] = g[j + 1]
    OBVIOUS
  <2>1. j \in 0..m - 1 /\ j \in 0..n - 1 /\ j <= m /\ j <= n
    OBVIOUS
  <2> QED BY <1>1, <2>1
<1>4. Nat \subseteq S
  <2> HIDE DEF S
  <2> QED BY <1>2, <1>3, SetInduction
<1> QED BY <1>4

\* A function that is defined by its value at 0 and from each value to the next exists.
LEMMA Recursion ==
    ASSUME NEW V, NEW a \in V, NEW h \in [V -> V]
    PROVE  \E f \in [Nat -> V] : f[0] = a /\ \A n \in Nat : n # 0 => f[n] = h[f[n - 1]]
<1> DEFINE A(n) == CHOOSE g : g \in Approx(V, a, h, n)
           f == [n \in Nat |-> A(n)[n]]
<1>1. ASSUME NEW n \in Nat PROVE A(n) \in Approx(V, a, h, n)
  BY ApproxExists
<1> HIDE DEF A
<1>2. ASSUME NEW n \in Nat PROVE f[n] \in V
  <2>1. A(n) \in [0..n -> V] /\ n \in 0..n
    BY <1>1 DEF Approx
  <2> QED BY <2>1
<1>3. f[0] = a
  BY <1>1 DEF Approx
<1>4. ASSUME NEW n \in Nat, n # 0 PROVE f[n] = h[f[n - 1]]
  <2>1. n - 1 \in Nat /\ n - 1 \in 0..n - 1 /\ (n - 1) + 1 = n /\ n - 1 <= n /\ n - 1 <= n - 1
    BY <1>4
  <2>2. A(n)[(n - 1) + 1] = h[A(n)[n - 1]]
    BY <1>1, <2>1 DEF Approx
  <2>3. A(n)[n - 1] = A(n - 1)[n - 1]
    BY <1>1, <2>1, ApproxUnique
  <2> QED BY <2>1, <2>2, <2>3
<1>5. f \in [Nat -> V]
  BY <1>2
<1> HIDE DEF f
<1> QED BY <1>3, <1>4, <1>5

\* Two doubles.
LEMMA TwoDoubles ==
    /\ Two[0] = 1
    /\ \A k \in Nat : Two[k] \in Nat /\ Two[k] > 0 /\ Two[k + 1] = 2 * Two[k]
<1> DEFINE h == [v \in Nat |-> 2 * v]
<1>1. \E f \in [Nat -> Nat] : f[0] = 1 /\ \A n \in Nat : n # 0 => f[n] = h[f[n - 1]]
  <2>1. h \in [Nat -> Nat]
    OBVIOUS
  <2> HIDE DEF h
  <2>2. PICK V, a : V = Nat /\ a = 1
    OBVIOUS
  <2>3. a \in V /\ h \in [V -> V]
    BY <2>1, <2>2
  <2>4. \E f \in [Nat -> V] : f[0] = a /\ \A n \in Nat : n # 0 => f[n] = h[f[n - 1]]
    BY <2>3, Recursion
  <2> QED BY <2>2, <2>4
<1>2. \E f : f = [n \in Nat |-> IF n = 0 THEN 1 ELSE 2 * f[n - 1]]
  <2>1. PICK f \in [Nat -> Nat] : f[0] = 1 /\ \A n \in Nat : n # 0 => f[n] = h[f[n - 1]]
    BY <1>1
  <2>2. ASSUME NEW n \in Nat PROVE f[n] = IF n = 0 THEN 1 ELSE 2 * f[n - 1]
    <3>1. n # 0 => n - 1 \in Nat /\ f[n - 1] \in Nat
      OBVIOUS
    <3>2. \A v \in Nat : h[v] = 2 * v
      OBVIOUS
    <3> HIDE DEF h
    <3> QED BY <2>1, <3>1, <3>2
  <2>3. f = [n \in Nat |-> f[n]]
    OBVIOUS
  <2>4. f = [n \in Nat |-> IF n = 0 THEN 1 ELSE 2 * f[n - 1]]
    BY <2>2, <2>3
  <2> QED BY <2>4
<1>3. Two = [n \in Nat |-> IF n = 0 THEN 1 ELSE 2 * Two[n - 1]]
  BY <1>2 DEF Two
<1>4. \A n \in Nat : Two[n + 1] = 2 * Two[n]
  <2> SUFFICES ASSUME NEW n \in Nat PROVE Two[n + 1] = 2 * Two[n]
    OBVIOUS
  <2>1. n + 1 \in Nat /\ n + 1 # 0 /\ (n + 1) - 1 = n
    OBVIOUS
  <2> QED BY <1>3, <2>1
<1>5. Two[0] = 1
  BY <1>3
<1> DEFINE S == {k \in Nat : Two[k] \in Nat /\ Two[k] > 0}
<1>6. 0 \in S /\ \A k \in Nat : k \in S => k + 1 \in S
  BY <1>4, <1>5
<1>7. Nat \subseteq S
  <2> HIDE DEF S
  <2> QED BY <1>6, SetInduction
<1> QED BY <1>4, <1>5, <1>7

\* Power multiplies.
LEMMA PowerMultiplies ==
    ASSUME NEW m \in Nat, m > 1, NEW x \in Nat
    PROVE  /\ Power(x, 0, m) = 1
           /\ \A n \in Nat : /\ Power(x, n, m) \in 0..m - 1
                            /\ Power(x, n + 1, m) = (Power(x, n, m) * x) % m
<1> DEFINE h == [v \in Nat |-> (v * x) % m]
<1>1. \E f \in [Nat -> Nat] : f[0] = 1 /\ \A n \in Nat : n # 0 => f[n] = h[f[n - 1]]
  <2>1. h \in [Nat -> Nat]
    OBVIOUS
  <2> HIDE DEF h
  <2>2. PICK V, a : V = Nat /\ a = 1
    OBVIOUS
  <2>3. a \in V /\ h \in [V -> V]
    BY <2>1, <2>2
  <2>4. \E f \in [Nat -> V] : f[0] = a /\ \A n \in Nat : n # 0 => f[n] = h[f[n - 1]]
    BY <2>3, Recursion
  <2> QED BY <2>2, <2>4
<1> DEFINE Is(p) == p = [k \in Nat |-> IF k = 0 THEN 1 ELSE (p[k - 1] * x) % m]
           p == CHOOSE p : Is(p)
<1>2. \E f : Is(f)
  <2>1. PICK f \in [Nat -> Nat] : f[0] = 1 /\ \A n \in Nat : n # 0 => f[n] = h[f[n - 1]]
    BY <1>1
  <2>2. ASSUME NEW n \in Nat PROVE f[n] = IF n = 0 THEN 1 ELSE (f[n - 1] * x) % m
    <3>1. n # 0 => n - 1 \in Nat /\ f[n - 1] \in Nat
      OBVIOUS
    <3>2. \A v \in Nat : h[v] = (v * x) % m
      OBVIOUS
    <3> HIDE DEF h
    <3> QED BY <2>1, <3>1, <3>2
  <2>3. f = [n \in Nat |-> f[n]]
    OBVIOUS
  <2>4. f = [n \in Nat |-> IF n = 0 THEN 1 ELSE (f[n - 1] * x) % m]
    BY <2>2, <2>3
  <2> QED BY <2>4
<1>3. Is(p)
  <2> HIDE DEF Is
  <2> QED BY <1>2
<1>4. \A n : Power(x, n, m) = p[n]
  BY DEF Power
<1> HIDE DEF p
<1>5. p[0] = 1
  BY <1>3
<1>6. \A n \in Nat : p[n + 1] = (p[n] * x) % m
  <2> SUFFICES ASSUME NEW n \in Nat PROVE p[n + 1] = (p[n] * x) % m
    OBVIOUS
  <2>1. n + 1 \in Nat /\ n + 1 # 0 /\ (n + 1) - 1 = n
    OBVIOUS
  <2> QED BY <1>3, <2>1
<1> DEFINE S == {k \in Nat : p[k] \in 0..m - 1}
<1>7. 0 \in S
  BY <1>5
<1>8. \A k \in Nat : k \in S => k + 1 \in S
  BY <1>6
<1>9. Nat \subseteq S
  <2> HIDE DEF S
  <2> QED BY <1>7, <1>8, SetInduction
<1> QED BY <1>4, <1>5, <1>6, <1>9

--------------------------------------------------------------------------------
(* Arithmetic *)

LEMMA DivMod ==
    ASSUME NEW a \in Nat, NEW d \in Nat, d > 0
    PROVE  a \div d \in Nat /\ a % d \in 0..d - 1 /\ a = d * (a \div d) + (a % d)
OBVIOUS

LEMMA DivModOf ==
    ASSUME NEW d \in Nat, d > 0, NEW q \in Nat, NEW r \in Nat, r < d
    PROVE  (d * q + r) \div d = q /\ (d * q + r) % d = r
OBVIOUS

\* A factor may be reduced first.
LEMMA ModTimes ==
    ASSUME NEW a \in Nat, NEW b \in Nat, NEW m \in Nat, m > 1
    PROVE  (a * (b % m)) % m = (a * b) % m
<1>0. m > 0
  OBVIOUS
<1>1. PICK q \in Nat, r \in Nat : r = b % m /\ b = m * q + r
  <2>1. b \div m \in Nat /\ b % m \in Nat /\ b = m * (b \div m) + (b % m)
    BY <1>0, DivMod
  <2> WITNESS b \div m \in Nat, b % m \in Nat
  <2> QED BY <2>1
<1>2. PICK p \in Nat, s \in Nat : s < m /\ a * r = m * p + s
  <2>1. PICK c \in Nat : c = a * r
    OBVIOUS
  <2>2. c \div m \in Nat /\ c % m \in 0..m - 1 /\ c = m * (c \div m) + (c % m)
    BY <1>0, DivMod
  <2>3. c % m < m
    BY <2>2
  <2> WITNESS c \div m \in Nat, c % m \in Nat
  <2> QED BY <2>1, <2>2, <2>3
<1>3. a * b = m * (a * q + p) + s
  <2>1. a * b = a * (m * q) + a * r
    BY <1>1
  <2>2. a * (m * q) = m * (a * q) /\ m * (a * q + p) = m * (a * q) + m * p
    OBVIOUS
  <2> QED BY <1>2, <2>1, <2>2
<1>4. a * q + p \in Nat
  OBVIOUS
<1>5. (a * b) % m = s /\ (a * r) % m = s
  <2>1. PICK c \in Nat : c = a * q + p
    BY <1>4
  <2>2. (m * c + s) % m = s /\ (m * p + s) % m = s
    BY <1>0, <1>2, DivModOf
  <2> QED BY <1>2, <1>3, <2>1, <2>2
<1> QED BY <1>1, <1>5

\* The products of powers.
LEMMA PowerAdds ==
    ASSUME NEW m \in Nat, m > 1, NEW x \in Nat, NEW n \in Nat, NEW k \in Nat
    PROVE  (Power(x, n, m) * Power(x, k, m)) % m = Power(x, n + k, m)
<1> DEFINE P(j) == Power(x, j, m)
           S == {j \in Nat : (P(n) * P(j)) % m = P(n + j)}
<1>1. /\ P(0) = 1
      /\ \A j \in Nat : P(j) \in 0..m - 1 /\ P(j + 1) = (P(j) * x) % m
  BY PowerMultiplies
<1>0. \A u, v \in Nat : (u * (v % m)) % m = (u * v) % m
  BY ModTimes, ZenonT(30)
<1> HIDE DEF P
<1>2. 0 \in S
  <2>1. P(n) \in 0..m - 1 /\ n + 0 = n
    BY <1>1
  <2>2. P(n) % m = P(n)
    BY <2>1
  <2> QED BY <1>1, <2>1, <2>2
<1>3. ASSUME NEW j \in Nat, j \in S PROVE j + 1 \in S
  <2>1. PICK u \in Nat, v \in Nat : u = P(n) /\ v = P(j)
    BY <1>1, SMTT(30)
  <2>2. (u * v) % m = P(n + j)
    BY <1>3, <2>1
  <2>3. (u * P(j + 1)) % m = (u * (v * x)) % m
    <3>1. PICK c \in Nat : c = v * x
      OBVIOUS
    <3>2. P(j + 1) = c % m
      BY <1>1, <2>1, <3>1
    <3>3. (u * (c % m)) % m = (u * c) % m
      BY <1>0
    <3> QED BY <3>1, <3>2, <3>3
  <2>4. P((n + j) + 1) = (x * (u * v)) % m
    <3>1. PICK c \in Nat, d \in Nat : c = u * v /\ d = n + j
      OBVIOUS
    <3>2. P(d + 1) = (P(d) * x) % m
      BY <1>1
    <3>3. P(d + 1) = ((c % m) * x) % m
      BY <2>2, <3>1, <3>2
    <3>4. (x * (c % m)) % m = (x * c) % m
      BY <1>0
    <3>5. (c % m) * x = x * (c % m)
      OBVIOUS
    <3> QED BY <3>1, <3>3, <3>4, <3>5
  <2>5. u * (v * x) = x * (u * v) /\ (n + j) + 1 = n + (j + 1)
    OBVIOUS
  <2>6. (P(n) * P(j + 1)) % m = P(n + (j + 1))
    BY <2>1, <2>3, <2>4, <2>5
  <2> QED BY <2>6
<1>4. Nat \subseteq S
  <2> HIDE DEF S
  <2> QED BY <1>2, <1>3, SetInduction
<1> QED BY <1>4 DEF P

\* The power of a power.
LEMMA PowerOfPower ==
    ASSUME NEW m \in Nat, m > 1, NEW x \in Nat, NEW n \in Nat, NEW k \in Nat
    PROVE  Power(Power(x, n, m), k, m) = Power(x, n * k, m)
<1>1. PICK y \in Nat : y = Power(x, n, m)
  <2>1. Power(x, n, m) \in 0..m - 1
    BY PowerMultiplies
  <2> QED BY <2>1
<1> DEFINE P(j) == Power(x, j, m)
           Q(j) == Power(y, j, m)
           S == {j \in Nat : Q(j) = P(n * j)}
<1>2. /\ P(0) = 1 /\ Q(0) = 1 /\ y = P(n)
      /\ \A j \in Nat : P(j) \in Nat /\ Q(j + 1) = (Q(j) * y) % m
  <2>1. \A v \in Nat : /\ Power(v, 0, m) = 1
                      /\ \A j \in Nat : /\ Power(v, j, m) \in 0..m - 1
                                       /\ Power(v, j + 1, m) = (Power(v, j, m) * v) % m
    BY PowerMultiplies, Zenon
  <2>2. \A j \in 0..m - 1 : j \in Nat
    OBVIOUS
  <2> QED BY <1>1, <2>1, <2>2, Zenon
<1>3. \A k1, k2 \in Nat : (P(k1) * P(k2)) % m = P(k1 + k2)
  BY PowerAdds
<1> HIDE DEF P, Q
<1>4. 0 \in S
  BY <1>2
<1>5. ASSUME NEW j \in Nat, j \in S PROVE j + 1 \in S
  <2>1. n * j \in Nat /\ n * j + n = n * (j + 1)
    OBVIOUS
  <2>2. Q(j + 1) = P(n * j + n)
    BY <1>2, <1>3, <1>5, <2>1
  <2> QED BY <2>1, <2>2
<1>6. Nat \subseteq S
  <2> HIDE DEF S
  <2> QED BY <1>4, <1>5, SetInduction
<1> QED BY <1>1, <1>6 DEF P, Q

--------------------------------------------------------------------------------
(* Bits *)

\* To read one bit more is to double and to add it.
LEMMA OneBitMore ==
    ASSUME NEW a \in Nat, NEW t \in Nat, t > 0
    PROVE  a \div t = 2 * (a \div (2 * t)) + ((a \div t) % 2)
<1>1. PICK q \in Nat, r \in Nat : q = a \div t /\ r < t /\ a = t * q + r
  <2>1. a \div t \in Nat /\ a % t \in Nat /\ a % t < t /\ a = t * (a \div t) + (a % t)
    BY DivMod
  <2> WITNESS a \div t \in Nat, a % t \in Nat
  <2> QED BY <2>1
<1>2. PICK h \in Nat, b \in {0, 1} : b = q % 2 /\ q = 2 * h + b
  <2>1. q \div 2 \in Nat /\ q % 2 \in {0, 1} /\ q = 2 * (q \div 2) + (q % 2)
    OBVIOUS
  <2> WITNESS q \div 2 \in Nat, q % 2 \in {0, 1}
  <2> QED BY <2>1
<1>3. PICK d \in Nat, c \in Nat : d = 2 * t /\ c = t * b + r
  OBVIOUS
<1>4. d > 0 /\ c < d
  <2>1. CASE b = 0
    BY <1>1, <1>3, <2>1
  <2>2. CASE b = 1
    BY <1>1, <1>3, <2>2
  <2> QED BY <2>1, <2>2
<1>5. a = d * h + c
  <2>1. t * q = t * (2 * h) + t * b
    BY <1>2
  <2>2. t * (2 * h) = (2 * t) * h
    OBVIOUS
  <2> QED BY <1>1, <1>3, <2>1, <2>2
<1>6. a \div d = h
  BY <1>4, <1>5, DivModOf
<1> QED BY <1>1, <1>2, <1>3, <1>6

LEMMA TwoGrows ==
    ASSUME NEW j \in Nat, NEW k \in Nat, j <= k
    PROVE  Two[j] <= Two[k]
<1> DEFINE S == {d \in Nat : Two[j] <= Two[j + d]}
<1>1. 0 \in S
  <2>1. j + 0 = j /\ Two[j] \in Nat
    BY TwoDoubles
  <2> QED BY <2>1
<1>2. ASSUME NEW d \in Nat, d \in S PROVE d + 1 \in S
  <2>1. j + d \in Nat /\ (j + d) + 1 = j + (d + 1)
    OBVIOUS
  <2>2. Two[j] \in Nat /\ Two[j + d] \in Nat /\ Two[(j + d) + 1] = 2 * Two[j + d]
    BY <2>1, TwoDoubles
  <2> QED BY <1>2, <2>1, <2>2
<1>3. Nat \subseteq S
  <2> HIDE DEF S
  <2> QED BY <1>1, <1>2, SetInduction
<1>4. k - j \in Nat /\ j + (k - j) = k
  OBVIOUS
<1> QED BY <1>3, <1>4

\* The highest bit of a number that is not 0.
LEMMA HighestBit ==
    ASSUME NEW a \in 0..Two[Width] - 1, a # 0
    PROVE  NumBits(a) \in Nat \ {0} /\ a \div Two[NumBits(a) - 1] = 1
<1>1. Width \in Nat /\ a \in Nat /\ a < Two[Width] /\ \A k \in Nat : Two[k] \in Nat /\ Two[k] > 0
  BY NumberAssumption, TwoDoubles
<1>2. PICK n \in Nat : Two[n] <= a /\ ~(Two[n + 1] <= a)
  <2> DEFINE S == {k \in Nat : Two[k] <= a}
  <2>1. 0 \in S
    BY <1>1, TwoDoubles
  <2>2. Width \notin S
    BY <1>1
  <2>3. ASSUME \A k \in Nat : k \in S => k + 1 \in S PROVE FALSE
    <3> HIDE DEF S
    <3>1. Nat \subseteq S
      BY <2>1, <2>3, SetInduction
    <3> QED BY <1>1, <2>2, <3>1
  <2> QED BY <2>3
<1>3. \A k \in Nat : Two[k] <= a <=> k <= n
  <2> SUFFICES ASSUME NEW k \in Nat PROVE Two[k] <= a <=> k <= n
    OBVIOUS
  <2>1. CASE k <= n
    BY <1>1, <1>2, <2>1, TwoGrows
  <2>2. CASE ~(k <= n)
    <3>1. n + 1 \in Nat /\ n + 1 <= k
      BY <2>2
    <3> QED BY <1>1, <1>2, <2>2, <3>1, TwoGrows
  <2> QED BY <2>1, <2>2
<1>4. n <= Width - 1
  BY <1>1, <1>3
<1>5. {k \in 0..Width - 1 : Two[k] <= a} = 0..n
  BY <1>1, <1>3, <1>4
<1>6. NumBits(a) = n + 1
  <2>1. Cardinality(0..n) = n + 1
    <3>1. 0 \in Int /\ n \in Int /\ ~(0 > n) /\ n - 0 + 1 = n + 1
      OBVIOUS
    <3> QED BY <3>1, FS_Interval
  <2> QED BY <1>5, <2>1 DEF NumBits
<1>7. a \div Two[n] = 1
  <2>1. PICK t \in Nat : t = Two[n] /\ t > 0 /\ t <= a /\ a < 2 * t
    <3>1. Two[n + 1] = 2 * Two[n]
      BY TwoDoubles
    <3> QED BY <1>1, <1>2, <3>1
  <2>2. PICK r \in Nat : r = a - t
    BY <1>1, <2>1
  <2>3. r < t /\ a = t * 1 + r
    BY <1>1, <2>1, <2>2
  <2>4. (t * 1 + r) \div t = 1
    BY <2>1, <2>3, DivModOf
  <2> QED BY <2>1, <2>3, <2>4
<1>8. n + 1 \in Nat \ {0} /\ (n + 1) - 1 = n
  OBVIOUS
<1> QED BY <1>6, <1>7, <1>8

\* The secret 0 has no bits: the loop has no turn.
LEMMA NoBits == NumBits(0) = 0
<1>1. {k \in 0..Width - 1 : Two[k] <= 0} = {}
  BY NumberAssumption, TwoDoubles
<1> QED BY <1>1, FS_EmptySet DEF NumBits

\* What the loop starts with: nothing but the highest bit was read.
LEMMA FirstRead ==
    ASSUME NEW a \in 0..Two[Width] - 1
    PROVE  /\ FirstBit(a) \in Int /\ FirstBit(a) >= -2 /\ (FirstBit(a) >= 0 => a # 0) /\ Meant(a) \in Nat
           /\ Meant(a) \div Two[IF FirstBit(a) < 0 THEN 0 ELSE FirstBit(a) + 1] = 1
<1>1. Two[0] = 1 /\ Two[Width] \in Nat /\ 1 \div 1 = 1
  BY NumberAssumption, TwoDoubles
<1>2. a \in Nat /\ Meant(a) \in Nat
  BY <1>1 DEF Meant
<1>3. CASE a = 0
  BY <1>1, <1>3, NoBits DEF FirstBit, Meant
<1>4. CASE a # 0
  <2>1. NumBits(a) \in Nat \ {0} /\ a \div Two[NumBits(a) - 1] = 1
    BY <1>4, HighestBit
  <2>2. FirstBit(a) \in Int /\ FirstBit(a) + 1 = NumBits(a) - 1 /\ FirstBit(a) >= -1
    BY <2>1 DEF FirstBit
  <2>3. (IF FirstBit(a) < 0 THEN 0 ELSE FirstBit(a) + 1) = NumBits(a) - 1
    BY <2>2
  <2> QED BY <1>2, <1>4, <2>1, <2>2, <2>3 DEF Meant
<1> QED BY <1>3, <1>4

\* One turn of the loop: from the power of what was read before the k-th bit to that of what
\* was read after it.
LEMMA OneTurn ==
    ASSUME NEW a \in Nat, NEW k \in Nat, NEW m \in Nat, m > 1, NEW x \in Nat, NEW b,
           b = Power(x, a \div Two[k + 1], m)
    PROVE  IF IsBitSet(a, k) THEN (((b * b) % m) * x) % m = Power(x, a \div Two[k], m)
                             ELSE (b * b) % m = Power(x, a \div Two[k], m)
<1>1. PICK t \in Nat : t = Two[k] /\ t > 0 /\ Two[k + 1] = 2 * t
  BY TwoDoubles
<1>2. PICK h \in Nat, c \in {0, 1} : /\ h = a \div Two[k + 1] /\ c = (a \div t) % 2
                                   /\ a \div t = 2 * h + c
  <2>1. PICK d \in Nat : d = 2 * t /\ d > 0
    BY <1>1
  <2>2. a \div t \in Nat /\ a \div d \in Nat
    BY <1>1, <2>1, DivMod
  <2>3. a \div t = 2 * (a \div (2 * t)) + ((a \div t) % 2)
    BY <1>1, OneBitMore
  <2>4. PICK q \in Nat : q = a \div t
    BY <2>2
  <2>5. PICK c \in {0, 1} : c = q % 2
    OBVIOUS
  <2>6. PICK h \in Nat : h = a \div d
    BY <2>2
  <2>7. h = a \div Two[k + 1] /\ c = (a \div t) % 2 /\ a \div t = 2 * h + c
    BY <1>1, <2>1, <2>3, <2>4, <2>5, <2>6
  <2> QED BY <2>7
<1>3. (b * b) % m = Power(x, h + h, m) /\ h + h = 2 * h
  <2>1. (Power(x, h, m) * Power(x, h, m)) % m = Power(x, h + h, m)
    BY PowerAdds
  <2> QED BY <1>2, <2>1
<1>4. CASE c = 0
  BY <1>1, <1>2, <1>3, <1>4 DEF IsBitSet
<1>5. CASE c = 1
  <2>1. PICK n \in Nat : n = h + h
    OBVIOUS
  <2>2. Power(x, n + 1, m) = (Power(x, n, m) * x) % m
    BY PowerMultiplies
  <2>3. IsBitSet(a, k) /\ a \div Two[k] = n + 1
    BY <1>1, <1>2, <1>5, <2>1 DEF IsBitSet
  <2> QED BY <1>3, <2>1, <2>2, <2>3
<1> QED BY <1>2, <1>4, <1>5

--------------------------------------------------------------------------------
(* The two ends *)

LEMMA OtherEnd ==
    ASSUME NEW e \in End
    PROVE  Other(e) \in End /\ Other(e) # e /\ Other(Other(e)) = e
<1>1. IsFiniteSet(End \ {e}) /\ Cardinality(End \ {e}) = 1
  <2>1. PICK s : s = End
    OBVIOUS
  <2>2. IsFiniteSet(s) /\ Cardinality(s) = 2 /\ e \in s
    BY <2>1, EndAssumption
  <2>3. IsFiniteSet(s \ {e}) /\ Cardinality(s \ {e}) = Cardinality(s) - 1
    BY <2>2, FS_RemoveElement
  <2> QED BY <2>1, <2>2, <2>3
<1>2. PICK o : End \ {e} = {o}
  <2>1. \E o : End \ {e} = {o}
    BY <1>1, FS_Singleton
  <2> QED BY <2>1
<1>3. o \in End /\ o # e /\ \A d \in End : d = e \/ d = o
  BY <1>2
<1>4. Other(e) = o
  BY <1>3 DEF Other
<1>5. Other(o) = e
  BY <1>3 DEF Other
<1> QED BY <1>3, <1>4, <1>5

Places == {"share", "wait", "secret", "done"}

Types == /\ modp \in Nat /\ modp > 1 /\ G \in Nat /\ G < modp
         /\ exponent \in [End -> 0..Two[Width] - 1]
         /\ at \in [End -> Places] /\ i \in [End -> Int]
         /\ base \in [End -> 0..modp - 1] /\ share \in [End -> 0..modp - 1]
         /\ key \in [End -> 0..modp - 1] /\ failed \subseteq End

\* The index stays below the bit the loop starts at.
Below == \A e \in End : i[e] <= FirstBit(exponent[e])

\* secret_maker runs on a share that does not change any more.
Begun == \A e \in End : at[e] \in {"secret", "done"} => at[Other(e)] # "share"

\* The results, of the ends that did not fail.
Shares == \A e \in End : at[e] # "share" /\ e \notin failed =>
    share[e] = Power(G, Meant(exponent[e]), modp)
Keys == \A e \in End : at[e] = "done" /\ e \notin failed =>
    key[e] = Power(share[Other(e)], Meant(exponent[e]), modp)

IInv == Types /\ Below /\ Begun /\ BaseIsPower /\ Shares /\ Keys

\* What the invariant says of one end.
LEMMA EndFacts ==
    ASSUME IInv, NEW e \in End
    PROVE  /\ exponent[e] \in Nat /\ exponent[e] \in 0..Two[Width] - 1 /\ Meant(exponent[e]) \in Nat
           /\ Root(e) \in Nat /\ Root(e) < modp /\ i[e] \in Int /\ base[e] \in 0..modp - 1
           /\ FirstBit(exponent[e]) \in Int
           /\ i[e] >= 0 => exponent[e] # 0
           /\ Other(e) \in End /\ Other(e) # e
<1>1. exponent[e] \in 0..Two[Width] - 1 /\ i[e] \in Int /\ base[e] \in 0..modp - 1
  BY DEF IInv, Types
<1>2. exponent[e] \in Nat /\ Two[Width] \in Nat
  BY <1>1, TwoDoubles, NumberAssumption
<1>3. /\ Meant(exponent[e]) \in Nat /\ FirstBit(exponent[e]) \in Int
      /\ FirstBit(exponent[e]) >= 0 => exponent[e] # 0
  BY <1>1, FirstRead
<1>4. i[e] <= FirstBit(exponent[e])
  BY DEF IInv, Below
<1>5. Root(e) \in Nat /\ Root(e) < modp
  <2>1. share[Other(e)] \in 0..modp - 1 /\ modp \in Nat /\ G \in Nat /\ G < modp
    BY OtherEnd DEF IInv, Types
  <2> QED BY <2>1 DEF Root
<1>6. i[e] >= 0 => exponent[e] # 0
  BY <1>1, <1>3, <1>4
<1> QED BY <1>1, <1>2, <1>3, <1>5, <1>6, OtherEnd

\* The first power is the root.
LEMMA FirstPower ==
    ASSUME NEW m \in Nat, m > 1, NEW x \in Nat, x < m
    PROVE  Power(x, 1, m) = x
<1>1. Power(x, 0, m) = 1 /\ Power(x, 0 + 1, m) = (Power(x, 0, m) * x) % m
  BY PowerMultiplies
<1>2. (1 * x) % m = x /\ 0 + 1 = 1
  OBVIOUS
<1> QED BY <1>1, <1>2

LEMMA InitHolds == Init => IInv
<1> SUFFICES ASSUME Init PROVE IInv
  OBVIOUS
<1>1. /\ modp \in Nat /\ modp > 1 /\ G \in Nat /\ G < modp
      /\ exponent \in [End -> 0..Two[Width] - 1]
  BY NumberAssumption DEF Init
<1>2. \A e \in End : /\ at[e] = "share" /\ base[e] = G /\ i[e] = FirstBit(exponent[e])
                     /\ exponent[e] \in 0..Two[Width] - 1
  BY DEF Init
<1>3. \A e \in End :
        /\ FirstBit(exponent[e]) \in Int
        /\ Meant(exponent[e]) \div Two[IF FirstBit(exponent[e]) < 0 THEN 0 ELSE FirstBit(exponent[e]) + 1] = 1
  BY <1>2, FirstRead
<1>4. Types
  <2>1. i \in [End -> Int]
    BY <1>2, <1>3 DEF Init
  <2>2. 0 \in 0..modp - 1 /\ G \in 0..modp - 1
    BY <1>1
  <2>3. /\ base \in [End -> 0..modp - 1] /\ share \in [End -> 0..modp - 1]
        /\ key \in [End -> 0..modp - 1]
    BY <2>2 DEF Init
  <2>4. at \in [End -> Places] /\ failed \subseteq End
    BY DEF Init, Places
  <2> QED BY <1>1, <2>1, <2>3, <2>4 DEF Types
<1>5. Below
  BY <1>2, <1>3 DEF Below
<1>6. BaseIsPower
  <2>1. Power(G, 1, modp) = G
    BY <1>1, FirstPower
  <2> QED BY <1>2, <1>3, <2>1 DEF BaseIsPower, Root
<1>7. Begun /\ Shares /\ Keys
  BY <1>2 DEF Begun, Shares, Keys
<1> QED BY <1>4, <1>5, <1>6, <1>7 DEF IInv

BaseOf(e) == at[e] \in {"share", "secret"} =>
    base[e] = Power(Root(e), Meant(exponent[e]) \div Two[IF i[e] < 0 THEN 0 ELSE i[e] + 1], modp)

LEMMA BaseNow == BaseIsPower <=> \A e \in End : BaseOf(e)
BY DEF BaseIsPower, BaseOf

LEMMA BaseNext == BaseIsPower' <=> \A e \in End : BaseOf(e)'
BY DEF BaseIsPower, BaseOf

\* A loop is not disturbed by a step of the other end.
LEMMA BaseKept ==
    ASSUME IInv, NEW d \in End, UNCHANGED <<exponent, modp>>, at'[d] = at[d], i'[d] = i[d],
           base'[d] = base[d], at[d] = "secret" => share'[Other(d)] = share[Other(d)]
    PROVE  BaseOf(d)'
<1>1. BaseOf(d)
  BY BaseNow DEF IInv
<1>2. at[d] \in {"share", "secret"} => Root(d)' = Root(d)
  BY DEF Root
<1> QED BY <1>1, <1>2 DEF BaseOf, Meant

\* What a loop has computed when all bits are read.
LEMMA LoopEnds ==
    ASSUME IInv, NEW e \in End, at[e] \in {"share", "secret"}, i[e] < 0
    PROVE  base[e] = Power(Root(e), Meant(exponent[e]), modp)
<1>1. base[e] = Power(Root(e), Meant(exponent[e]) \div Two[0], modp)
  BY BaseNow DEF IInv, BaseOf
<1>2. Two[0] = 1 /\ Meant(exponent[e]) \in Nat
  BY TwoDoubles, EndFacts
<1>3. Meant(exponent[e]) \div 1 = Meant(exponent[e])
  BY <1>2
<1> QED BY <1>1, <1>2, <1>3

LEMMA TurnPower ==
    ASSUME IInv, NEW e \in End, Turn(e)
    PROVE  /\ Squared(e) = Power(Root(e), Meant(exponent[e]) \div Two[i[e]], modp)
           /\ Squared(e) \in 0..modp - 1
<1>1. PICK a \in Nat, k \in Nat, m \in Nat, x \in Nat :
        a = exponent[e] /\ k = i[e] /\ m = modp /\ x = Root(e)
  <2>1. exponent[e] \in Nat /\ i[e] \in Nat /\ modp \in Nat /\ Root(e) \in Nat
    BY EndFacts DEF Turn, IInv, Types
  <2> QED BY <2>1
<1>2. m > 1 /\ Meant(exponent[e]) = a
  BY <1>1, EndFacts DEF Turn, IInv, Types, Meant
<1>3. base[e] = Power(x, a \div Two[k + 1], m)
  <2>1. BaseOf(e) /\ ~(i[e] < 0)
    BY <1>1, BaseNow DEF IInv
  <2> QED BY <1>1, <1>2, <2>1 DEF BaseOf, Turn
<1>4. Squared(e) = Power(x, a \div Two[k], m)
  <2>1. IF IsBitSet(a, k) THEN (((base[e] * base[e]) % m) * x) % m = Power(x, a \div Two[k], m)
                          ELSE (base[e] * base[e]) % m = Power(x, a \div Two[k], m)
    BY <1>2, <1>3, OneTurn
  <2> QED BY <1>1, <2>1 DEF Squared
<1>5. a \div Two[k] \in Nat
  BY TwoDoubles, DivMod
<1>6. Power(x, a \div Two[k], m) \in 0..m - 1
  BY <1>2, <1>5, PowerMultiplies
<1> QED BY <1>1, <1>2, <1>4, <1>6

LEMMA TurnKeeps == ASSUME IInv, NEW e \in End, Turn(e) PROVE IInv'
<1>1. /\ at[e] \in {"share", "secret"} /\ i[e] \in Int /\ i[e] >= 0
      /\ base' = [base EXCEPT ![e] = Squared(e)] /\ i' = [i EXCEPT ![e] = @ - 1]
      /\ UNCHANGED <<modp, exponent, at, share, key, failed>>
  BY EndFacts DEF Turn
<1>2. base \in [End -> 0..modp - 1] /\ i \in [End -> Int]
  BY DEF IInv, Types
<1>3. Types'
  <2>1. base' \in [End -> 0..modp - 1] /\ i' \in [End -> Int]
    BY <1>1, <1>2, TurnPower
  <2> QED BY <1>1, <2>1 DEF IInv, Types
<1>4. Below'
  <2>1. \A d \in End : i'[d] <= i[d] /\ FirstBit(exponent[d]) \in Int /\ i[d] \in Int /\ i'[d] \in Int
    BY <1>1, <1>2, EndFacts
  <2>2. \A d \in End : i[d] <= FirstBit(exponent[d])
    BY DEF IInv, Below
  <2> QED BY <1>1, <2>1, <2>2 DEF Below, FirstBit, NumBits
<1>5. BaseIsPower'
  <2>1. ASSUME NEW d \in End, d # e PROVE BaseOf(d)'
    BY <1>1, <1>2, <2>1, BaseKept
  <2>2. BaseOf(e)'
    <3>1. (IF i'[e] < 0 THEN 0 ELSE i'[e] + 1) = i[e]
      BY <1>1, <1>2
    <3>2. base'[e] = Power(Root(e), Meant(exponent[e]) \div Two[i[e]], modp)
      BY <1>1, <1>2, TurnPower
    <3>3. Root(e)' = Root(e) /\ Meant(exponent[e])' = Meant(exponent[e]) /\ modp' = modp
      BY <1>1 DEF Root, Meant
    <3> QED BY <3>1, <3>2, <3>3 DEF BaseOf
  <2> QED BY <2>1, <2>2, BaseNext
<1>6. Begun' /\ Shares' /\ Keys'
  BY <1>1 DEF IInv, Begun, Shares, Keys, Meant
<1> QED BY <1>3, <1>4, <1>5, <1>6 DEF IInv

LEMMA ShareMadeKeeps == ASSUME IInv, NEW e \in End, ShareMade(e) PROVE IInv'
<1>1. /\ at[e] = "share" /\ i[e] < 0
      /\ share' = [share EXCEPT ![e] = base[e]] /\ at' = [at EXCEPT ![e] = "wait"]
      /\ UNCHANGED <<modp, exponent, i, base, key, failed>>
  BY DEF ShareMade
<1>2. share \in [End -> 0..modp - 1] /\ at \in [End -> Places] /\ base[e] \in 0..modp - 1
  BY EndFacts DEF IInv, Types
<1>3. Types'
  <2>1. share' \in [End -> 0..modp - 1] /\ at' \in [End -> Places]
    BY <1>1, <1>2 DEF Places
  <2> QED BY <1>1, <2>1 DEF IInv, Types
<1>4. Below'
  BY <1>1 DEF IInv, Below, FirstBit, NumBits
\* Nobody uses the share of e yet.
<1>5. \A d \in End : at[d] \in {"secret", "done"} => d # e /\ share'[Other(d)] = share[Other(d)]
  BY <1>1, <1>2, OtherEnd DEF IInv, Begun
<1>6. BaseIsPower'
  <2>1. ASSUME NEW d \in End, d # e PROVE BaseOf(d)'
    BY <1>1, <1>2, <1>5, <2>1, BaseKept
  <2>2. BaseOf(e)'
    BY <1>1, <1>2 DEF BaseOf
  <2> QED BY <2>1, <2>2, BaseNext
<1>7. Begun'
  BY <1>1, <1>2, OtherEnd DEF IInv, Begun
<1>8. Shares'
  <2>1. base[e] = Power(G, Meant(exponent[e]), modp)
    BY <1>1, LoopEnds DEF Root
  <2> QED BY <1>1, <1>2, <2>1 DEF IInv, Shares, Meant
<1>9. Keys'
  BY <1>1, <1>2, <1>5 DEF IInv, Keys, Meant
<1> QED BY <1>3, <1>4, <1>6, <1>7, <1>8, <1>9 DEF IInv

LEMMA ShareReceivedKeeps == ASSUME IInv, NEW e \in End, ShareReceived(e) PROVE IInv'
<1>1. /\ at[e] = "wait" /\ at[Other(e)] # "share" /\ at' = [at EXCEPT ![e] = "secret"]
      /\ base' = [base EXCEPT ![e] = share[Other(e)]] /\ i' = [i EXCEPT ![e] = FirstBit(exponent[e])]
      /\ UNCHANGED <<modp, exponent, share, key, failed>>
  BY DEF ShareReceived
<1>2. /\ base \in [End -> 0..modp - 1] /\ at \in [End -> Places] /\ i \in [End -> Int]
      /\ share[Other(e)] \in 0..modp - 1 /\ Other(e) \in End /\ Other(e) # e
      /\ FirstBit(exponent[e]) \in Int /\ exponent[e] \in 0..Two[Width] - 1
      /\ modp \in Nat /\ modp > 1
  BY EndFacts DEF IInv, Types
<1>3. Types'
  <2>1. base' \in [End -> 0..modp - 1] /\ at' \in [End -> Places] /\ i' \in [End -> Int]
    BY <1>1, <1>2 DEF Places
  <2> QED BY <1>1, <2>1 DEF IInv, Types
<1>4. Below'
  BY <1>1, <1>2, SMTT(30) DEF IInv, Below, FirstBit, NumBits
<1>5. BaseIsPower'
  <2>1. ASSUME NEW d \in End, d # e PROVE BaseOf(d)'
    BY <1>1, <1>2, <2>1, BaseKept
  <2>2. BaseOf(e)'
    <3>1. base'[e] = share[Other(e)] /\ i'[e] = FirstBit(exponent[e]) /\ Root(e)' = share[Other(e)]
      BY <1>1, <1>2 DEF Root
    <3>2. Power(share[Other(e)], 1, modp) = share[Other(e)]
      BY <1>2, FirstPower
    <3>3. Meant(exponent[e]) \div
            Two[IF FirstBit(exponent[e]) < 0 THEN 0 ELSE FirstBit(exponent[e]) + 1] = 1
      BY <1>2, FirstRead
    <3>4. exponent' = exponent /\ modp' = modp
      BY <1>1
    <3> QED BY <3>1, <3>2, <3>3, <3>4 DEF BaseOf, Meant
  <2> QED BY <2>1, <2>2, BaseNext
<1>6. Begun'
  BY <1>1, <1>2 DEF IInv, Begun
<1>7. Shares' /\ Keys'
  BY <1>1, <1>2 DEF IInv, Shares, Keys, Meant
<1> QED BY <1>3, <1>4, <1>5, <1>6, <1>7 DEF IInv

LEMMA SecretMadeKeeps == ASSUME IInv, NEW e \in End, SecretMade(e) PROVE IInv'
<1>1. /\ at[e] = "secret" /\ i[e] < 0
      /\ key' = [key EXCEPT ![e] = base[e]] /\ at' = [at EXCEPT ![e] = "done"]
      /\ UNCHANGED <<modp, exponent, i, base, share, failed>>
  BY DEF SecretMade
<1>2. key \in [End -> 0..modp - 1] /\ at \in [End -> Places] /\ base[e] \in 0..modp - 1
  BY EndFacts DEF IInv, Types
<1>3. Types'
  <2>1. key' \in [End -> 0..modp - 1] /\ at' \in [End -> Places]
    BY <1>1, <1>2 DEF Places
  <2> QED BY <1>1, <2>1 DEF IInv, Types
<1>4. Below'
  BY <1>1 DEF IInv, Below, FirstBit, NumBits
<1>5. BaseIsPower'
  <2>1. ASSUME NEW d \in End, d # e PROVE BaseOf(d)'
    BY <1>1, <1>2, <2>1, BaseKept
  <2>2. BaseOf(e)'
    BY <1>1, <1>2 DEF BaseOf
  <2> QED BY <2>1, <2>2, BaseNext
<1>6. Begun'
  BY <1>1, <1>2, OtherEnd DEF IInv, Begun
<1>7. Shares'
  BY <1>1, <1>2 DEF IInv, Shares, Meant
<1>8. Keys'
  <2>1. base[e] = Power(share[Other(e)], Meant(exponent[e]), modp)
    BY <1>1, LoopEnds DEF Root
  <2> QED BY <1>1, <1>2, <2>1 DEF IInv, Keys, Meant
<1> QED BY <1>3, <1>4, <1>5, <1>6, <1>7, <1>8 DEF IInv

LEMMA NoMemoryKeeps == ASSUME IInv, NEW e \in End, NoMemory(e) PROVE IInv'
<1>1. /\ at[e] \in {"share", "secret"} /\ failed' = failed \cup {e}
      /\ at' = [at EXCEPT ![e] = IF @ = "share" THEN "wait" ELSE "done"]
      /\ UNCHANGED <<modp, exponent, i, base, share, key>>
  BY DEF NoMemory
<1>2. at \in [End -> Places]
  BY DEF IInv, Types
<1>3. Types'
  <2>1. at' \in [End -> Places] /\ failed' \subseteq End
    BY <1>1, <1>2 DEF Places, IInv, Types
  <2> QED BY <1>1, <2>1 DEF IInv, Types
<1>4. Below'
  BY <1>1 DEF IInv, Below, FirstBit, NumBits
<1>5. BaseIsPower'
  <2>1. ASSUME NEW d \in End, d # e PROVE BaseOf(d)'
    BY <1>1, <1>2, <2>1, BaseKept
  <2>2. BaseOf(e)'
    BY <1>1, <1>2 DEF BaseOf
  <2> QED BY <2>1, <2>2, BaseNext
<1>6. Begun'
  BY <1>1, <1>2, OtherEnd DEF IInv, Begun
<1>7. Shares' /\ Keys'
  BY <1>1, <1>2 DEF IInv, Shares, Keys, Meant
<1> QED BY <1>3, <1>4, <1>5, <1>6, <1>7 DEF IInv

LEMMA NextHolds == IInv /\ [Next]_vars => IInv'
<1> SUFFICES ASSUME IInv, [Next]_vars PROVE IInv'
  OBVIOUS
<1>1. ASSUME NEW e \in End, Turn(e) \/ ShareMade(e) \/ ShareReceived(e) \/ SecretMade(e) \/ NoMemory(e)
      PROVE  IInv'
  BY <1>1, TurnKeeps, ShareMadeKeeps, ShareReceivedKeeps, SecretMadeKeeps, NoMemoryKeeps
<1>2. CASE UNCHANGED vars
  BY <1>2 DEF vars, IInv, Types, Below, FirstBit, NumBits, Begun, BaseIsPower, Root, Meant, Shares, Keys
<1> QED BY <1>1, <1>2 DEF Next

LEMMA Inductive == Spec => []IInv
BY InitHolds, NextHolds, PTL DEF Spec

\* In every turn of both loops base is the root to the power that the bits already read make, for
\* secrets of any width, 0 and 1 among them, any generator and any modulus.
THEOREM LoopsComputePowers == Spec => []BaseIsPower
<1>1. IInv => BaseIsPower
  BY DEF IInv
<1> QED BY <1>1, Inductive, PTL

\* Two ends that computed their secret without an error hold the same one, G to the power of both.
THEOREM EndsAgree == Spec => []SecretsAgree
<1>1. IInv => SecretsAgree
  <2> SUFFICES ASSUME IInv, failed = {}, \A e \in End : at[e] = "done", NEW e \in End
               PROVE  key[e] = Power(G, Meant(exponent[e]) * Meant(exponent[Other(e)]), modp)
    BY DEF SecretsAgree
  <2>1. PICK o \in End : o = Other(e)
    BY OtherEnd
  <2>2. PICK m \in Nat, g \in Nat, a \in Nat, b \in Nat :
          m = modp /\ g = G /\ a = Meant(exponent[e]) /\ b = Meant(exponent[o])
    <3>1. modp \in Nat /\ G \in Nat /\ Meant(exponent[e]) \in Nat /\ Meant(exponent[o]) \in Nat
      BY EndFacts DEF IInv, Types
    <3> QED BY <3>1
  <2>3. m > 1
    BY <2>2 DEF IInv, Types
  <2>4. share[o] = Power(g, b, m) /\ key[e] = Power(share[o], a, m)
    BY <2>1, <2>2 DEF IInv, Shares, Keys
  <2>5. Power(Power(g, b, m), a, m) = Power(g, b * a, m)
    BY <2>3, PowerOfPower
  <2>6. b * a = a * b
    OBVIOUS
  <2> QED BY <2>1, <2>2, <2>4, <2>5, <2>6
<1> QED BY <1>1, Inductive, PTL

================================================================================
