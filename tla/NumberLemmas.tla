--------------------------- MODULE NumberLemmas ----------------------------
(***************************************************************************)
(* Facts about numbers that the proofs of several modules need: remainders *)
(* (an index that wraps), quotients, products, least and largest numbers,  *)
(* functions defined by recursion over the naturals, powers of two, the    *)
(* exclusive or of two numbers, sums, fractions in lowest terms, sums over *)
(* finite sets as the library folds them, and the weights of the ways      *)
(* through finitely many states, which the forward and the backward        *)
(* recursion add up.                                                       *)
(***************************************************************************)
EXTENDS Integers, Sequences, Fractions, FiniteSetTheorems, WellFoundedInduction, TLAPS

-----------------------------------------------------------------------------
(* Remainders. *)

\* Quotient and remainder of a position.
LEMMA QuotientRemainder ==
    ASSUME NEW S \in Nat \ {0}, NEW a \in Nat
    PROVE  /\ a = S * (a \div S) + (a % S)
           /\ a % S \in 0..(S - 1)
           /\ a \div S \in Nat
OBVIOUS

\* A remainder is recognised by its equation.
LEMMA RemainderUnique ==
    ASSUME NEW S \in Nat \ {0}, NEW q \in Nat, NEW r \in 0..(S - 1)
    PROVE  (S * q + r) % S = r
OBVIOUS

\* Advancing a wrapped index is wrapping the advanced position: the queues
\* compute (i + 1) & mask on an index that is already wrapped.
LEMMA WrapSucc ==
    ASSUME NEW S \in Nat \ {0}, NEW a \in Nat
    PROVE  ((a % S) + 1) % S = (a + 1) % S
<1> DEFINE q == a \div S
           r == a % S
<1>1. a = S * q + r /\ r \in 0..(S - 1) /\ q \in Nat
  BY QuotientRemainder
<1> HIDE DEF q, r
<1>2. CASE r + 1 < S
  <2>1. a + 1 = S * q + (r + 1)
    BY <1>1
  <2>2. (a + 1) % S = r + 1
    BY <2>1, <1>1, <1>2, RemainderUnique
  <2>3. (r + 1) % S = r + 1
    BY <1>1, <1>2
  <2> QED
    BY <2>2, <2>3 DEF r
<1>3. CASE r + 1 = S
  <2>1. a + 1 = S * (q + 1) + 0
    BY <1>1, <1>3
  <2>2. (a + 1) % S = 0
    BY <2>1, <1>1, q + 1 \in Nat, 0 \in 0..(S - 1), RemainderUnique
  <2>3. (r + 1) % S = 0
    BY <1>1, <1>3
  <2> QED
    BY <2>2, <2>3 DEF r
<1> QED
  BY <1>1, <1>2, <1>3

\* One turn of the ring comes back to the same slot.
LEMMA WrapTurn ==
    ASSUME NEW S \in Nat \ {0}, NEW a \in Nat
    PROVE  (a + S) % S = a % S
<1> DEFINE q == a \div S
           r == a % S
<1>1. a = S * q + r /\ r \in 0..(S - 1) /\ q \in Nat
  BY QuotientRemainder
<1> HIDE DEF q, r
<1>2. a + S = S * (q + 1) + r
  BY <1>1
<1>3. (a + S) % S = r
  BY <1>1, <1>2, q + 1 \in Nat, RemainderUnique
<1> QED
  BY <1>3 DEF r

\* Two positions less than one turn apart are in different slots.
LEMMA WrapDistinct ==
    ASSUME NEW S \in Nat \ {0}, NEW a \in Nat, NEW b \in Nat, a < b, b < a + S
    PROVE  a % S # b % S
<1> SUFFICES ASSUME a % S = b % S PROVE FALSE
  OBVIOUS
<1> DEFINE q == a \div S
           p == b \div S
           r == a % S
<1>1. a = S * q + r /\ r \in 0..(S - 1) /\ q \in Nat
  BY QuotientRemainder
<1>2. b = S * p + r /\ p \in Nat
  BY QuotientRemainder
<1> HIDE DEF q, r, p
<1>3. b - a = S * (p - q)
  BY <1>1, <1>2
<1>4. CASE p <= q
  <2>1. S * (q - p) >= 0
    BY <1>1, <1>2, <1>4
  <2> QED
    BY <2>1, <1>3, <1>1, <1>2
<1>5. CASE p > q
  <2>1. S * (p - q) >= S
    BY <1>1, <1>2, <1>5
  <2> QED
    BY <2>1, <1>3
<1> QED
  BY <1>1, <1>2, <1>4, <1>5

-----------------------------------------------------------------------------
(* Least and largest. *)

\* A set of numbers has a least one: the form in which these proofs use
\* induction, from a least counterexample.
LEMMA LeastNumber ==
    ASSUME NEW S, S \subseteq Nat, S # {}
    PROVE  \E k \in S : \A m \in S : k <= m
<1> DEFINE R == {p \in Nat \X Nat : p[1] < p[2]}
<1>1. IsWellFoundedOn(R, Nat)
  BY NatLessThanWellFounded DEF OpToRel
<1>2. PICK k \in S : \A m \in S : <<m, k>> \notin R
  BY <1>1, WFMin
<1>3. ASSUME NEW m \in S PROVE k <= m
  <2>1. <<m, k>> \in Nat \X Nat /\ <<m, k>> \notin R
    BY <1>2
  <2>2. ~(m < k)
    BY <2>1
  <2> QED
    BY <2>2
<1> QED
  BY <1>3

\* A set of integers with an upper bound has a largest.
LEMMA Largest ==
    ASSUME NEW S, S \subseteq Int, S # {}, NEW u \in Int, \A x \in S : x <= u
    PROVE  \E m \in S : \A x \in S : x <= m
<1> DEFINE D == {u - x : x \in S}
<1>1. D \subseteq Nat /\ D # {}
  <2>1. \A x \in S : x \in Int /\ x <= u
    OBVIOUS
  <2>2. \A x \in S : u - x \in Nat
    BY <2>1
  <2> QED
    BY <2>2
<1>2. PICK d \in D : \A e \in D : d <= e
  <2> HIDE DEF D
  <2> QED
    BY <1>1, LeastNumber
<1>3. PICK m \in S : d = u - m
  BY <1>2
<1>4. ASSUME NEW x \in S PROVE x <= m
  <2>1. u - x \in D
    OBVIOUS
  <2>2. u - m <= u - x
    BY <1>2, <1>3, <2>1
  <2> QED
    BY <2>2
<1> QED
  BY <1>4

\* What holds of zero and, with each number below a limit, of the next holds up to
\* the limit.
LEMMA CountUp ==
    ASSUME NEW L \in Nat, NEW S, 0 \in S, \A n \in 0..(L - 1) : n \in S => n + 1 \in S
    PROVE  \A n \in 0..L : n \in S
<1> DEFINE Z == {n \in Nat : n <= L /\ n \notin S}
<1>1. ASSUME Z # {} PROVE FALSE
  <2>1. Z \subseteq Nat
    OBVIOUS
  <2>2. PICK n \in Z : \A l \in Z : n <= l
    <3> HIDE DEF Z
    <3> QED
      BY <1>1, <2>1, LeastNumber, Zenon
  <2>3. n - 1 \in Nat /\ n - 1 \in 0..(L - 1) /\ n <= L /\ n \notin S /\ (n - 1) + 1 = n
    <3>1. n # 0
      OBVIOUS
    <3> QED
      BY <3>1
  <2>4. n - 1 \notin Z
    BY <2>2, <2>3
  <2>5. n - 1 \in S
    BY <2>3, <2>4
  <2>6. (n - 1) + 1 \in S
    BY <2>3, <2>5
  <2> QED
    BY <2>3, <2>6
<1> QED
  BY <1>1

-----------------------------------------------------------------------------
(* Quotients. *)

\* A quotient is the greatest number whose multiple does not exceed the dividend.
LEMMA Quotient ==
    ASSUME NEW x \in Nat, NEW d \in Nat \ {0}
    PROVE  x \div d \in Nat /\ d * (x \div d) <= x /\ x < d * (x \div d) + d
BY QuotientRemainder

\* The same for numbers that are not positions.
LEMMA Quotients ==
    ASSUME NEW q \in Nat, NEW n \in Nat \ {0}
    PROVE  q \div n \in Nat /\ q % n \in Nat /\ q = n * (q \div n) + (q % n)
<1>1. /\ q = n * (q \div n) + (q % n) /\ q % n \in 0..(n - 1)
      /\ q \div n \in Nat
  BY QuotientRemainder
<1>2. q % n \in Nat
  BY <1>1
<1> QED
  BY <1>1, <1>2

\* Whatever fits d times is within the quotient.
LEMMA QuotientGreatest ==
    ASSUME NEW x \in Nat, NEW d \in Nat \ {0}, NEW q \in Nat, d * q <= x
    PROVE  q <= x \div d
<1> DEFINE p == x \div d
<1>1. p \in Nat /\ x < d * p + d
  BY Quotient
<1> HIDE DEF p
<1>2. ASSUME p + 1 <= q PROVE FALSE
  <2>1. d * (p + 1) <= d * q
    <3>1. d * (q - (p + 1)) >= 0
      BY <1>1, <1>2
    <3> QED
      BY <1>1, <3>1
  <2>2. d * (p + 1) = d * p + d
    BY <1>1
  <2> QED
    BY <1>1, <2>1, <2>2
<1> QED
  BY <1>1, <1>2 DEF p

\* A larger divisor, a smaller quotient.
LEMMA QuotientFalls ==
    ASSUME NEW x \in Nat, NEW s \in Nat \ {0}, NEW t \in Nat \ {0}, s <= t
    PROVE  x \div t <= x \div s
<1> DEFINE q == x \div t
<1>1. q \in Nat /\ t * q <= x
  BY Quotient
<1> HIDE DEF q
<1>2. s * q <= t * q
  <2>1. (t - s) * q >= 0
    BY <1>1
  <2> QED
    BY <1>1, <2>1
<1>3. s * q <= x
  BY <1>1, <1>2
<1>4. q <= x \div s
  BY <1>1, <1>3, QuotientGreatest
<1> QED
  BY <1>4 DEF q

\* A multiple divided.
LEMMA MultipleDivided ==
    ASSUME NEW k \in Nat \ {0}, NEW e \in Int
    PROVE  (k * e) \div k = e
<1>1. PICK d \in Int : d = k * e
  OBVIOUS
<1>2. PICK q \in Int : q = d \div k /\ k * q <= d /\ d < k * q + k
  OBVIOUS
<1>3. k * (e - q) >= 0 /\ k * (e - q) < k
  <2>1. k * (e - q) = d - k * q
    BY <1>1
  <2> QED
    BY <1>2, <2>1
<1>4. ~(e - q >= 1)
  <2>1. ASSUME e - q >= 1 PROVE FALSE
    <3>1. k * ((e - q) - 1) >= 0
      BY <2>1
    <3>2. k * ((e - q) - 1) = k * (e - q) - k
      OBVIOUS
    <3> QED
      BY <1>3, <3>1, <3>2
  <2> QED
    BY <2>1
<1>5. ~(e - q <= -1)
  <2>1. ASSUME e - q <= -1 PROVE FALSE
    <3>1. k * (q - e) >= 1
      BY <2>1
    <3>2. k * (q - e) = -(k * (e - q))
      OBVIOUS
    <3> QED
      BY <1>3, <3>1, <3>2
  <2> QED
    BY <2>1
<1> QED
  BY <1>1, <1>2, <1>4, <1>5

\* What is the same n times over is the same.
LEMMA Cancelled ==
    ASSUME NEW n \in Nat \ {0}, NEW a \in Int, NEW b \in Int, n * a = n * b
    PROVE  a = b
<1>1. n * (a - b) = 0
  <2>1. n * (a - b) = n * a - n * b
    OBVIOUS
  <2>2. n * a \in Int
    OBVIOUS
  <2> QED
    BY <2>1, <2>2
<1>2. CASE a > b
  <2>1. n * (a - b) > 0
    BY <1>2
  <2> QED
    BY <1>1, <2>1
<1>3. CASE a < b
  <2>1. n * (b - a) > 0
    BY <1>3
  <2>2. n * (b - a) = -(n * (a - b))
    OBVIOUS
  <2> QED
    BY <1>1, <2>1, <2>2
<1> QED
  BY <1>2, <1>3

-----------------------------------------------------------------------------
(* Products. *)

\* A product rises with its factor.
LEMMA ProductRises ==
    ASSUME NEW a \in Nat, NEW x \in Int, NEW y \in Int, x <= y
    PROVE  a * x \in Int /\ a * y \in Int /\ a * x <= a * y
<1>1. a * (y - x) >= 0
  OBVIOUS
<1> QED
  BY <1>1

\* The same from either side.
LEMMA Products ==
    ASSUME NEW a \in Nat, NEW b \in Nat, NEW c \in Nat, a <= b
    PROVE  c * a <= c * b /\ a * c <= b * c /\ c * a \in Nat /\ c * b \in Nat
<1>1. c * (b - a) >= 0
  OBVIOUS
<1> QED
  BY <1>1

\* The product of two numbers is between their squares, and half the sum of the
\* products with both is between their cubes.
LEMMA SquaresAndCubes ==
    ASSUME NEW a \in Nat, NEW b \in Nat
    PROVE  /\ a * a \in Nat /\ a * b \in Nat /\ b * b \in Nat
           /\ (a * b) * (a + b) \in Nat
           /\ a <= b => /\ a * a <= a * b /\ a * b <= b * b
                        /\ 2 * ((a * a) * a) <= (a * b) * (a + b)
                        /\ (a * b) * (a + b) <= 2 * ((b * b) * b)
<1>1. /\ a * a \in Nat /\ a * b \in Nat /\ b * b \in Nat
      /\ (a * b) * (a + b) \in Nat
  OBVIOUS
<1>2. ASSUME a <= b PROVE a * a <= a * b /\ a * b <= b * b
  BY <1>2, Products
<1>3. ASSUME a <= b PROVE /\ 2 * ((a * a) * a) <= (a * b) * (a + b)
                          /\ (a * b) * (a + b) <= 2 * ((b * b) * b)
  <2>1. PICK x, y, z \in Nat : x = a * a /\ y = a * b /\ z = b * b
    BY <1>1
  <2>2. x <= y /\ y <= z
    BY <1>2, <1>3, <2>1
  <2>3. x * a <= y * a /\ y * a <= z * a /\ x * b <= y * b /\ y * b <= z * b
    BY <2>2, Products
  <2>4. y * (a + b) = y * a + y * b
    OBVIOUS
  <2>5. x * b = y * a /\ y * b = z * a
    BY <2>1
  <2>6. y * b <= z * b /\ x * a <= y * a /\ x * a <= x * b /\ z * a <= z * b
    BY <1>3, <2>3, Products
  <2>7. /\ x * a \in Nat /\ y * a \in Nat /\ y * b \in Nat /\ z * b \in Nat
        /\ x * b \in Nat /\ z * a \in Nat
    OBVIOUS
  <2> QED
    BY <2>1, <2>3, <2>4, <2>5, <2>6, <2>7
<1> QED
  BY <1>1, <1>2, <1>3

\* Two quotients of the same number: how far apart they are.
LEMMA PartsDiffer ==
    ASSUME NEW U \in Nat, NEW a \in Nat, NEW b \in Nat, NEW d \in Int, NEW c \in Int,
           U = a * d, U = b * c
    PROVE  U * (b - a) = (a * b) * (d - c)
<1>1. (a * b) * (d - c) = b * (a * d) - a * (b * c)
  OBVIOUS
<1> QED
  BY <1>1

\* The larger square has the larger root.
LEMMA SquareRootRises ==
    ASSUME NEW x \in Nat, NEW y \in Nat, x * x > y * y PROVE x > y
<1>1. ASSUME x <= y PROVE FALSE
  <2>1. x * x <= y * x /\ y * x <= y * y
    BY <1>1, Products
  <2> QED
    BY <2>1
<1> QED
  BY <1>1

\* What a number can be multiplied back from is one number.
LEMMA ProductUndone ==
    ASSUME NEW H \in Nat \ {0}, NEW m \in Nat, NEW w \in Nat, (m * w) % H = 1,
           NEW x \in 0..(H - 1), NEW y \in 0..(H - 1), (x * m) % H = (y * m) % H
    PROVE  x = y
<1>1. PICK k \in Nat : m * w = H * k + 1
  <2>1. m * w \in Nat
    OBVIOUS
  <2> QED
    BY <2>1, Quotients
<1>2. x * m \in Nat /\ y * m \in Nat
  OBVIOUS
<1>3. PICK q, r, s \in Nat : x * m = H * q + s /\ y * m = H * r + s
  <2>1. PICK i, j \in Nat : i = x * m /\ j = y * m /\ i % H = j % H
    BY <1>2
  <2>2. /\ i \div H \in Nat /\ i % H \in Nat /\ i = H * (i \div H) + (i % H)
        /\ j \div H \in Nat /\ j = H * (j \div H) + (j % H)
    BY Quotients
  <2> QED
    BY <2>1, <2>2
<1>4. PICK e \in Int : e = (q - r) * w - k * (x - y)
  <2>1. (q - r) * w - k * (x - y) \in Int
    OBVIOUS
  <2> QED
    BY <2>1
<1>5. x - y = H * e
  <2>1. (x * m - y * m) * w = (H * (q - r)) * w
    <3>1. x * m - y * m = H * (q - r)
      BY <1>3
    <3> QED
      BY <3>1
  <2>2. (x * m - y * m) * w = (x - y) * (m * w)
    OBVIOUS
  <2>3. (x - y) * (H * k + 1) = H * (k * (x - y)) + (x - y)
    OBVIOUS
  <2>4. (H * (q - r)) * w = H * ((q - r) * w)
    OBVIOUS
  <2>5. H * e = H * ((q - r) * w) - H * (k * (x - y))
    BY <1>4
  <2>6. H * ((q - r) * w) = H * (k * (x - y)) + (x - y)
    BY <1>1, <2>1, <2>2, <2>3, <2>4, Zenon
  <2>7. PICK i, j \in Int : i = H * ((q - r) * w) /\ j = H * (k * (x - y))
    <3>1. H * ((q - r) * w) \in Int /\ H * (k * (x - y)) \in Int
      OBVIOUS
    <3> QED
      BY <3>1
  <2> QED
    BY <2>5, <2>6, <2>7
<1>6. ~(e >= 1)
  <2>1. ASSUME e >= 1 PROVE FALSE
    <3>1. H * (e - 1) >= 0 /\ H * (e - 1) = H * e - H
      BY <2>1
    <3> QED
      BY <1>5, <3>1
  <2> QED
    BY <2>1
<1>7. ~(e <= -1)
  <2>1. ASSUME e <= -1 PROVE FALSE
    <3>1. H * (-e - 1) >= 0 /\ H * (-e - 1) = -(H * e) - H
      BY <2>1
    <3> QED
      BY <1>5, <3>1
  <2> QED
    BY <2>1
<1>8. e = 0
  BY <1>6, <1>7
<1> QED
  BY <1>5, <1>8

-----------------------------------------------------------------------------
(* Functions defined by recursion. *)

\* A value and a step define a function of the naturals: each number's function up
\* to it exists and is the only one.
Begins(S, b, step, n, f) ==
    /\ f \in [0..n -> S] /\ f[0] = b
    /\ \A m \in 0..(n - 1) : f[m + 1] = step[<<m, f[m]>>]

\* Two beginnings agree where both are defined.
LEMMA BeginningsAgree ==
    ASSUME NEW S, NEW b, NEW step, NEW i \in Nat, NEW j \in Nat, NEW f, NEW g,
           Begins(S, b, step, i, f), Begins(S, b, step, j, g), NEW m \in Nat, m <= i, m <= j
    PROVE  f[m] = g[m]
<1> DEFINE Z == {k \in Nat : k <= i /\ k <= j /\ f[k] # g[k]}
<1>1. ASSUME Z # {} PROVE FALSE
  <2>1. Z \subseteq Nat
    OBVIOUS
  <2>2. PICK k \in Z : \A l \in Z : k <= l
    <3> HIDE DEF Z
    <3> QED
      BY <1>1, <2>1, LeastNumber, Zenon
  <2>3. k \in Nat /\ k <= i /\ k <= j /\ f[k] # g[k]
    OBVIOUS
  <2>4. k # 0
    BY <2>3 DEF Begins
  <2>5. k - 1 \in Nat /\ (k - 1) + 1 = k /\ k - 1 \in 0..(i - 1) /\ k - 1 \in 0..(j - 1)
    BY <2>3, <2>4
  <2>6. f[k - 1] = g[k - 1]
    <3>1. k - 1 \notin Z
      BY <2>2, <2>3
    <3> QED
      BY <2>3, <2>5, <3>1
  <2>7. f[k] = step[<<k - 1, f[k - 1]>>] /\ g[k] = step[<<k - 1, g[k - 1]>>]
    <3>1. f[(k - 1) + 1] = step[<<k - 1, f[k - 1]>>]
      BY <2>5, Zenon DEF Begins
    <3>2. g[(k - 1) + 1] = step[<<k - 1, g[k - 1]>>]
      BY <2>5, Zenon DEF Begins
    <3> QED
      BY <2>5, <3>1, <3>2
  <2> QED
    BY <2>3, <2>6, <2>7
<1> QED
  BY <1>1

Follows(S, b, step) ==
    \E u \in [Nat -> S] : u[0] = b /\ \A n \in Nat : u[n + 1] = step[<<n, u[n]>>]

\* So the recursion defines a function over all the naturals.
LEMMA RecursionOverNat ==
    ASSUME NEW S, NEW b \in S, NEW step \in [Nat \X S -> S]
    PROVE  Follows(S, b, step)
<1> DEFINE Z == {n \in Nat : ~\E f : Begins(S, b, step, n, f)}
<1>1. \A n \in Nat : \E f : Begins(S, b, step, n, f)
  <2>1. ASSUME Z # {} PROVE FALSE
    <3>1. Z \subseteq Nat
      OBVIOUS
    <3>2. PICK n \in Z : \A l \in Z : n <= l
      <4> HIDE DEF Z
      <4> QED
        BY <2>1, <3>1, LeastNumber, Zenon
    <3>3. CASE n = 0
      <4>1. Begins(S, b, step, 0, [m \in 0..0 |-> b])
        BY DEF Begins
      <4> QED
        BY <3>3, <4>1
    <3>4. CASE n # 0
      <4>1. n \in Nat /\ n - 1 \in Nat
        BY <3>4
      <4>2. n - 1 \notin Z
        BY <3>2, <4>1
      <4>3. PICK f : Begins(S, b, step, n - 1, f)
        BY <4>1, <4>2
      <4> DEFINE g == [m \in 0..n |-> IF m = n THEN step[<<n - 1, f[n - 1]>>] ELSE f[m]]
      <4>4. f \in [0..(n - 1) -> S] /\ f[0] = b
        BY <4>3 DEF Begins
      <4>5. step[<<n - 1, f[n - 1]>>] \in S
        <5>1. f[n - 1] \in S
          BY <4>1, <4>4
        <5>2. <<n - 1, f[n - 1]>> \in Nat \X S
          BY <4>1, <5>1
        <5> QED
          BY <5>2
      <4>6. g \in [0..n -> S] /\ g[0] = b
        <5>1. \A m \in 0..n : m # n => m \in 0..(n - 1)
          BY <4>1
        <5> QED
          BY <3>4, <4>1, <4>4, <4>5, <5>1
      <4>7. ASSUME NEW m \in 0..(n - 1) PROVE g[m + 1] = step[<<m, g[m]>>]
        <5>1. m # n /\ m \in 0..n /\ m + 1 \in 0..n
          BY <4>1
        <5>2. g[m] = f[m]
          BY <5>1
        <5>3. CASE m = n - 1
          <6>1. m + 1 = n
            BY <4>1, <5>3
          <6> QED
            BY <5>1, <5>2, <5>3, <6>1
        <5>4. CASE m # n - 1
          <6>1. m \in 0..((n - 1) - 1) /\ m + 1 # n
            BY <4>1, <5>4
          <6>2. f[m + 1] = step[<<m, f[m]>>]
            BY <4>3, <6>1 DEF Begins
          <6> QED
            BY <5>1, <5>2, <6>1, <6>2
        <5> QED
          BY <5>3, <5>4
      <4>8. Begins(S, b, step, n, g)
        <5> HIDE DEF g
        <5> QED
          BY <4>6, <4>7 DEF Begins
      <4> QED
        BY <4>8
    <3> QED
      BY <3>3, <3>4
  <2> QED
    BY <2>1
<1> DEFINE F(n) == CHOOSE f : Begins(S, b, step, n, f)
           u == [n \in Nat |-> F(n)[n]]
<1>2. ASSUME NEW n \in Nat PROVE Begins(S, b, step, n, F(n))
  BY <1>1
<1> HIDE DEF F, Z
<1>3. u \in [Nat -> S]
  <2>1. ASSUME NEW n \in Nat PROVE F(n)[n] \in S
    <3>1. F(n) \in [0..n -> S] /\ n \in 0..n
      BY <1>2 DEF Begins
    <3> QED
      BY <3>1
  <2> QED
    BY <2>1
<1>4. u[0] = b
  BY <1>2 DEF Begins
<1>5. ASSUME NEW n \in Nat PROVE u[n + 1] = step[<<n, u[n]>>]
  <2>1. n + 1 \in Nat /\ n <= n + 1 /\ n <= n /\ n \in 0..((n + 1) - 1)
    OBVIOUS
  <2>2. Begins(S, b, step, n + 1, F(n + 1)) /\ Begins(S, b, step, n, F(n))
    BY <1>2, <2>1
  <2>3. F(n + 1)[n] = F(n)[n]
    <3> HIDE DEF u
    <3>1. ASSUME NEW f, NEW g, Begins(S, b, step, n + 1, f), Begins(S, b, step, n, g)
          PROVE  f[n] = g[n]
      BY <2>1, <3>1, BeginningsAgree
    <3> QED
      BY <2>2, <3>1, Zenon
  <2>4. F(n + 1)[n + 1] = step[<<n, F(n + 1)[n]>>]
    BY <2>1, <2>2, Zenon DEF Begins
  <2> QED
    BY <2>1, <2>3, <2>4
<1> HIDE DEF u
<1> QED
  BY <1>3, <1>4, <1>5 DEF Follows

-----------------------------------------------------------------------------
(* Powers of two. *)

Doubles(p) == p = [n \in Nat |-> IF n = 0 THEN 1 ELSE 2 * p[n - 1]]

\* The powers of two as the models define them.
LEMMA DoublesExists == \E p : Doubles(p)
<1> DEFINE step == [q \in Nat \X Nat |-> 2 * q[2]]
<1>1. step \in [Nat \X Nat -> Nat] /\ 1 \in Nat
  OBVIOUS
<1>2. PICK u \in [Nat -> Nat] : u[0] = 1 /\ \A n \in Nat : u[n + 1] = step[<<n, u[n]>>]
  <2> HIDE DEF step
  <2>1. Follows(Nat, 1, step)
    BY <1>1, RecursionOverNat, Zenon
  <2> QED
    BY <2>1 DEF Follows
<1>3. ASSUME NEW n \in Nat PROVE u[n + 1] = 2 * u[n]
  <2>1. <<n, u[n]>> \in Nat \X Nat
    BY <1>2
  <2> QED
    BY <1>2, <2>1
<1>4. ASSUME NEW n \in Nat, n # 0 PROVE u[n] = 2 * u[n - 1]
  <2>1. n - 1 \in Nat /\ (n - 1) + 1 = n
    BY <1>4
  <2> QED
    BY <1>3, <2>1
<1>5. u = [n \in Nat |-> IF n = 0 THEN 1 ELSE 2 * u[n - 1]]
  <2>1. u = [n \in Nat |-> u[n]]
    BY <1>2
  <2>2. \A n \in Nat : u[n] = IF n = 0 THEN 1 ELSE 2 * u[n - 1]
    BY <1>2, <1>4
  <2> QED
    BY <2>1, <2>2
<1> QED
  BY <1>5 DEF Doubles

\* They double, and the power of a sum is the product of the powers.
LEMMA DoublesIs ==
    ASSUME NEW p, Doubles(p)
    PROVE  /\ p[0] = 1 /\ \A n \in Nat : p[n] \in Nat \ {0} /\ p[n + 1] = 2 * p[n]
           /\ \A a, b \in Nat : p[a + b] = p[a] * p[b]
<1>1. p[0] = 1
  BY DEF Doubles
<1>2. ASSUME NEW n \in Nat PROVE p[n + 1] = 2 * p[n]
  <2>1. n + 1 \in Nat /\ n + 1 # 0 /\ (n + 1) - 1 = n
    OBVIOUS
  <2> QED
    BY <2>1 DEF Doubles
<1>3. ASSUME NEW n \in Nat PROVE p[n] \in Nat \ {0}
  <2> DEFINE A == {k \in Nat : p[k] \in Nat \ {0}}
  <2>1. 0 \in A
    BY <1>1
  <2>2. \A k \in 0..(n - 1) : k \in A => k + 1 \in A
    BY <1>2
  <2>3. \A k \in 0..n : k \in A
    <3> HIDE DEF A
    <3> QED
      BY <2>1, <2>2, CountUp
  <2> QED
    BY <2>3
<1>4. ASSUME NEW a \in Nat, NEW b \in Nat PROVE p[a + b] = p[a] * p[b]
  <2> DEFINE A == {k \in Nat : p[a + k] = p[a] * p[k]}
  <2>1. 0 \in A
    <3>1. p[a] * 1 = p[a]
      BY <1>3
    <3> QED
      BY <1>1, <3>1
  <2>2. ASSUME NEW k \in 0..(b - 1), k \in A PROVE k + 1 \in A
    <3>1. k \in Nat /\ k + 1 \in Nat /\ a + k \in Nat /\ a + (k + 1) = (a + k) + 1
      OBVIOUS
    <3>2. p[(a + k) + 1] = 2 * p[a + k] /\ p[k + 1] = 2 * p[k]
      BY <1>2, <3>1
    <3>3. p[a] \in Nat /\ p[k] \in Nat
      BY <1>3, <3>1
    <3>4. 2 * (p[a] * p[k]) = p[a] * (2 * p[k])
      BY <3>3
    <3> QED
      BY <2>2, <3>1, <3>2, <3>4
  <2>3. \A k \in 0..b : k \in A
    <3> HIDE DEF A
    <3> QED
      BY <2>1, <2>2, CountUp
  <2> QED
    BY <2>3
<1> QED
  BY <1>1, <1>2, <1>3, <1>4

\* Of two positive profits, s and t old in half seconds, the one ahead scores
\* higher.
LEMMA AheadAtAnyTime ==
    ASSUME NEW p, Doubles(p), NEW M \in Nat, NEW n \in 0..M, NEW s \in 0..n, NEW t \in 0..n,
           NEW x \in Nat, NEW y \in Nat, x * x * p[s] > 4 * (y * y) * p[t]
    PROVE  x * p[M - (n - s) \div 2] > y * p[M - (n - t) \div 2]
<1>1. \A i \in Nat : p[i] \in Nat \ {0}
  BY DoublesIs
<1>2. ASSUME NEW i \in 0..n
      PROVE  \E e, r \in Nat : /\ e = M - (n - i) \div 2 /\ r \in {0, 1}
                               /\ e + e = ((M + M) - n) + (i + r)
  <2>1. PICK q, r \in Nat : q = (n - i) \div 2 /\ r = (n - i) % 2 /\ n - i = 2 * q + r
    <3>1. n - i \in Nat /\ 2 \in Nat \ {0}
      OBVIOUS
    <3> QED
      BY <3>1, Quotients
  <2>2. r \in {0, 1}
    BY <2>1
  <2>3. M - q \in Nat
    BY <2>1
  <2>4. (M - q) + (M - q) = ((M + M) - n) + (i + r)
    BY <2>1
  <2> QED
    BY <2>1, <2>2, <2>3, <2>4
<1>3. PICK e, v \in Nat : /\ e = M - (n - s) \div 2 /\ v \in {0, 1}
                          /\ e + e = ((M + M) - n) + (s + v)
  BY <1>2
<1>4. PICK f, w \in Nat : /\ f = M - (n - t) \div 2 /\ w \in {0, 1}
                          /\ f + f = ((M + M) - n) + (t + w)
  BY <1>2
<1>5. PICK c \in Nat : c = (M + M) - n
  <2>1. (M + M) - n \in Nat
    OBVIOUS
  <2> QED
    BY <2>1
<1>6. s \in Nat /\ t \in Nat /\ s + v \in Nat /\ t + w \in Nat
  OBVIOUS
<1>7. PICK C, S, T, V, U, E, F \in Nat \ {0} :
        C = p[c] /\ S = p[s] /\ T = p[t] /\ V = p[v] /\ U = p[w] /\ E = p[e] /\ F = p[f]
  BY <1>1, <1>6, Zenon
<1>8. E * E = C * (S * V) /\ F * F = C * (T * U)
  <2>0. \A a, b \in Nat : p[a + b] = p[a] * p[b]
    BY DoublesIs
  <2>1. p[e + e] = p[e] * p[e] /\ p[f + f] = p[f] * p[f]
    BY <2>0, Zenon
  <2>2. p[c + (s + v)] = p[c] * p[s + v] /\ p[c + (t + w)] = p[c] * p[t + w]
    BY <1>6, <2>0, Zenon
  <2>3. p[s + v] = p[s] * p[v] /\ p[t + w] = p[t] * p[w]
    <3>1. v \in Nat /\ w \in Nat
      OBVIOUS
    <3> QED
      BY <1>6, <2>0, <3>1, Zenon
  <2>4. e + e = c + (s + v) /\ f + f = c + (t + w)
    BY <1>3, <1>4, <1>5
  <2> QED
    BY <1>7, <2>1, <2>2, <2>3, <2>4
<1>9. V >= 1 /\ U <= 2
  <2>1. p[0] = 1 /\ p[1] = 2
    <3>1. p[0 + 1] = 2 * p[0] /\ p[0] = 1
      BY DoublesIs
    <3> QED
      BY <3>1
  <2> QED
    BY <1>4, <1>7, <2>1
<1>10. PICK X, Y \in Nat : X = x * x /\ Y = y * y
  OBVIOUS
<1>11. X * S > 4 * Y * T
  BY <1>7, <1>10
<1>12. (X * S) * V > (Y * T) * U
  <2>1. PICK a, b \in Nat : a = X * S /\ b = Y * T
    BY <1>7
  <2>2. a > 4 * b
    <3>1. 4 * Y * T = 4 * (Y * T)
      BY <1>7
    <3> QED
      BY <1>11, <2>1, <3>1
  <2>3. a * V >= a
    <3>1. 1 <= V /\ a * 1 <= a * V
      BY <1>9, Products
    <3> QED
      BY <3>1
  <2>4. b * U <= 2 * b
    <3>1. b * U <= b * 2
      BY <1>9, Products
    <3> QED
      BY <3>1
  <2>5. PICK g, h \in Nat : g = a * V /\ h = b * U
    OBVIOUS
  <2>6. g > h
    BY <2>2, <2>3, <2>4, <2>5
  <2> QED
    BY <2>1, <2>5, <2>6
<1>13. (x * E) * (x * E) > (y * F) * (y * F)
  <2>1. (x * E) * (x * E) = X * (E * E) /\ (y * F) * (y * F) = Y * (F * F)
    BY <1>7, <1>10
  <2>2. X * (C * (S * V)) = C * ((X * S) * V) /\ Y * (C * (T * U)) = C * ((Y * T) * U)
    BY <1>7
  <2>3. PICK g, h \in Nat : g = (X * S) * V /\ h = (Y * T) * U
    BY <1>7
  <2>4. C * g > C * h
    <3>1. C * (g - h) >= 1
      <4>1. PICK k \in Nat \ {0} : k = g - h
        <5>1. g > h
          BY <1>12, <2>3
        <5>2. g - h \in Nat \ {0}
          BY <5>1
        <5> QED
          BY <5>2
      <4>2. C * k >= 1
        BY <1>7
      <4> QED
        BY <4>1, <4>2
    <3>2. C * (g - h) = C * g - C * h /\ C * g \in Int /\ C * h \in Int
      BY <1>7
    <3> QED
      BY <3>1, <3>2
  <2> QED
    BY <1>8, <2>1, <2>2, <2>3, <2>4
<1>14. x * E > y * F
  <2>1. x * E \in Nat /\ y * F \in Nat
    BY <1>7
  <2> QED
    BY <1>13, <2>1, SquareRootRises
<1> QED
  BY <1>3, <1>4, <1>7, <1>14

-----------------------------------------------------------------------------
(* Exclusive or. *)

Xors(h) ==
    h = [p \in Nat \X Nat |->
            IF p[1] = 0 THEN p[2] ELSE 2 * h[<<p[1] \div 2, p[2] \div 2>>] + ((p[1] + p[2]) % 2)]

\* A number is twice its half and its last bit.
LEMMA Halves ==
    ASSUME NEW a \in Nat
    PROVE  /\ a \div 2 \in Nat /\ a \div 2 <= a /\ (a # 0 => a \div 2 < a)
           /\ a % 2 \in {0, 1} /\ a = 2 * (a \div 2) + (a % 2)
<1>1. a = 2 * (a \div 2) + (a % 2) /\ a % 2 \in 0..(2 - 1) /\ a \div 2 \in Nat
  BY QuotientRemainder
<1> QED
  BY <1>1

\* The function with n bits looked at.
LEMMA XorExists == \E h : Xors(h)
<1> DEFINE Pairs == Nat \X Nat
           S == [Pairs -> Nat]
           half(p) == <<p[1] \div 2, p[2] \div 2>>
           one(f) == [p \in Pairs |-> IF p[1] = 0 THEN p[2] ELSE 2 * f[half(p)] + ((p[1] + p[2]) % 2)]
           step == [q \in Nat \X S |-> one(q[2])]
           b == [p \in Pairs |-> p[2]]
<1>1. ASSUME NEW p \in Pairs
      PROVE  /\ p[1] \in Nat /\ p[2] \in Nat /\ half(p) \in Pairs /\ half(p)[1] = p[1] \div 2
             /\ (p[1] + p[2]) % 2 \in Nat
  <2>1. p[1] \in Nat /\ p[2] \in Nat
    OBVIOUS
  <2>2. p[1] \div 2 \in Nat /\ p[2] \div 2 \in Nat
    BY <2>1, Halves
  <2>3. (p[1] + p[2]) % 2 \in Nat
    BY <2>1
  <2> QED
    BY <2>1, <2>2, <2>3
<1> HIDE DEF half
<1>2. b \in S
  BY <1>1
<1>3. ASSUME NEW f \in S PROVE one(f) \in S
  <2>1. ASSUME NEW p \in Pairs
        PROVE  (IF p[1] = 0 THEN p[2] ELSE 2 * f[half(p)] + ((p[1] + p[2]) % 2)) \in Nat
    <3>1. f[half(p)] \in Nat
      BY <1>1
    <3> QED
      BY <1>1, <3>1
  <2> QED
    BY <2>1
<1>4. step \in [Nat \X S -> S]
  <2>1. \A q \in Nat \X S : q[2] \in S
    OBVIOUS
  <2> HIDE DEF one, S
  <2> QED
    BY <1>3, <2>1
<1>5. PICK u \in [Nat -> S] : u[0] = b /\ \A n \in Nat : u[n + 1] = step[<<n, u[n]>>]
  <2> HIDE DEF step, S, b
  <2>1. Follows(S, b, step)
    BY <1>2, <1>4, RecursionOverNat, Zenon
  <2> QED
    BY <2>1 DEF Follows
<1>6. ASSUME NEW n \in Nat PROVE u[n + 1] = one(u[n]) /\ u[n] \in S
  <2> HIDE DEF one, S
  <2>1. u[n] \in S /\ <<n, u[n]>> \in Nat \X S
    BY <1>5
  <2>2. step[<<n, u[n]>>] = one(u[n])
    BY <2>1
  <2> QED
    BY <1>5, <2>1, <2>2
<1> HIDE DEF step
<1>7. ASSUME NEW n \in Nat, NEW p \in Pairs
      PROVE  u[n + 1][p] = IF p[1] = 0 THEN p[2] ELSE 2 * u[n][half(p)] + ((p[1] + p[2]) % 2)
  BY <1>6
<1>8. ASSUME NEW p \in Pairs, NEW n \in Nat, p[1] <= n PROVE u[n + 1][p] = u[n][p]
  <2> DEFINE A == {k \in Nat : \A r \in Pairs : r[1] <= k => u[k + 1][r] = u[k][r]}
  <2>1. 0 \in A
    <3>1. ASSUME NEW r \in Pairs, r[1] <= 0 PROVE u[0 + 1][r] = u[0][r]
      <4>1. r[1] = 0
        BY <1>1, <3>1
      <4>2. u[0][r] = r[2]
        BY <1>5
      <4> QED
        BY <1>7, <4>1, <4>2
    <3> QED
      BY <3>1
  <2>2. ASSUME NEW k \in 0..(n - 1), k \in A PROVE k + 1 \in A
    <3>1. k \in Nat /\ k + 1 \in Nat
      OBVIOUS
    <3>2. ASSUME NEW r \in Pairs, r[1] <= k + 1 PROVE u[(k + 1) + 1][r] = u[k + 1][r]
      <4>1. CASE r[1] = 0
        <5>1. u[(k + 1) + 1][r] = r[2] /\ u[k + 1][r] = r[2]
          BY <1>7, <3>1, <4>1, Zenon
        <5> QED
          BY <5>1
      <4>2. CASE r[1] # 0
        <5>1. half(r) \in Pairs /\ half(r)[1] <= k
          <6>1. r[1] \div 2 < r[1] /\ r[1] \div 2 \in Nat
            BY <1>1, <4>2, Halves
          <6> QED
            BY <1>1, <3>1, <3>2, <6>1
        <5>2. u[k + 1][half(r)] = u[k][half(r)]
          BY <2>2, <5>1
        <5>3. /\ u[(k + 1) + 1][r] = 2 * u[k + 1][half(r)] + ((r[1] + r[2]) % 2)
              /\ u[k + 1][r] = 2 * u[k][half(r)] + ((r[1] + r[2]) % 2)
          BY <1>7, <3>1, <4>2
        <5> QED
          BY <5>2, <5>3
      <4> QED
        BY <4>1, <4>2
    <3> QED
      BY <3>1, <3>2
  <2>3. \A k \in 0..n : k \in A
    <3> HIDE DEF A
    <3> QED
      BY <2>1, <2>2, CountUp
  <2> QED
    BY <1>8, <2>3
<1>9. ASSUME NEW p \in Pairs, NEW n \in Nat, p[1] <= n PROVE u[n][p] = u[p[1]][p]
  <2>0. PICK f \in Nat : f = p[1] /\ f <= n
    BY <1>1, <1>9
  <2> DEFINE A == {k \in Nat : u[f + k][p] = u[f][p]}
  <2>1. n - f \in Nat /\ f + (n - f) = n
    BY <2>0
  <2>2. 0 \in A
    BY <2>1
  <2>3. ASSUME NEW k \in 0..((n - f) - 1), k \in A PROVE k + 1 \in A
    <3>1. /\ k \in Nat /\ k + 1 \in Nat /\ f + k \in Nat /\ f <= f + k
          /\ f + (k + 1) = (f + k) + 1
      BY <2>1
    <3>2. u[(f + k) + 1][p] = u[f + k][p]
      BY <1>8, <2>0, <3>1
    <3> QED
      BY <2>3, <3>1, <3>2
  <2>4. \A k \in 0..(n - f) : k \in A
    <3> HIDE DEF A
    <3> QED
      BY <2>1, <2>2, <2>3, CountUp
  <2>5. n - f \in A
    <3>1. n - f \in 0..(n - f)
      BY <2>1
    <3> HIDE DEF A
    <3> QED
      BY <2>4, <3>1
  <2> QED
    BY <2>0, <2>1, <2>5
<1> DEFINE h == [p \in Pairs |-> u[p[1]][p]]
<1>10. ASSUME NEW p \in Pairs
       PROVE  h[p] = IF p[1] = 0 THEN p[2] ELSE 2 * h[half(p)] + ((p[1] + p[2]) % 2)
  <2>1. CASE p[1] = 0
    BY <1>5, <2>1
  <2>2. CASE p[1] # 0
    <3>1. p[1] - 1 \in Nat /\ (p[1] - 1) + 1 = p[1]
      <4>1. PICK f \in Nat : f = p[1] /\ f # 0
        BY <1>1, <2>2
      <4>2. f - 1 \in Nat /\ (f - 1) + 1 = f
        BY <4>1
      <4> QED
        BY <4>1, <4>2, Zenon
    <3>2. half(p) \in Pairs /\ half(p)[1] <= p[1] - 1
      <4>1. p[1] \div 2 < p[1] /\ p[1] \div 2 \in Nat
        BY <1>1, <2>2, Halves
      <4> QED
        BY <1>1, <3>1, <4>1
    <3>3. u[p[1] - 1][half(p)] = u[half(p)[1]][half(p)]
      BY <1>9, <3>1, <3>2
    <3>4. u[(p[1] - 1) + 1][p] = 2 * u[p[1] - 1][half(p)] + ((p[1] + p[2]) % 2)
      BY <1>7, <2>2, <3>1
    <3>5. h[p] = u[p[1]][p] /\ h[half(p)] = u[half(p)[1]][half(p)]
      BY <3>2
    <3> QED
      BY <2>2, <3>1, <3>3, <3>4, <3>5
  <2> QED
    BY <2>1, <2>2
<1>11. h = [p \in Pairs |-> h[p]]
  OBVIOUS
<1> HIDE DEF h
<1>12. h = [p \in Pairs |-> IF p[1] = 0 THEN p[2] ELSE 2 * h[half(p)] + ((p[1] + p[2]) % 2)]
  BY <1>10, <1>11
<1> QED
  BY <1>12 DEF Xors, half

\* One bit, whether or not any is left.
LEMMA XorBit ==
    ASSUME NEW h, Xors(h), NEW a \in Nat, NEW b \in Nat
    PROVE  h[<<a, b>>] = 2 * h[<<a \div 2, b \div 2>>] + ((a + b) % 2)
<1>1. ASSUME NEW c \in Nat PROVE h[<<0, c>>] = c
  <2>1. <<0, c>> \in Nat \X Nat /\ <<0, c>>[1] = 0 /\ <<0, c>>[2] = c
    OBVIOUS
  <2> QED
    BY <2>1 DEF Xors
<1>2. CASE a = 0
  <2>1. b \div 2 \in Nat /\ b = 2 * (b \div 2) + (b % 2)
    BY Halves
  <2>2. 0 \div 2 = 0 /\ 0 + b = b
    OBVIOUS
  <2>3. h[<<0, b>>] = b /\ h[<<0, b \div 2>>] = b \div 2
    BY <1>1, <2>1
  <2> QED
    BY <1>2, <2>1, <2>2, <2>3
<1>3. CASE a # 0
  <2>1. <<a, b>> \in Nat \X Nat /\ <<a, b>>[1] = a /\ <<a, b>>[2] = b
    OBVIOUS
  <2> QED
    BY <1>3, <2>1 DEF Xors
<1> QED
  BY <1>2, <1>3

\* No more bits than it is given.
LEMMA XorBounded ==
    ASSUME NEW h, Xors(h), NEW p, Doubles(p), NEW n \in Nat,
           NEW a \in 0..(p[n] - 1), NEW b \in 0..(p[n] - 1)
    PROVE  h[<<a, b>>] \in 0..(p[n] - 1)
<1> DEFINE A == {k \in Nat : \A x, y \in 0..(p[k] - 1) : h[<<x, y>>] \in 0..(p[k] - 1)}
<1>1. p[0] = 1 /\ \A k \in Nat : p[k] \in Nat \ {0} /\ p[k + 1] = 2 * p[k]
  BY DoublesIs
<1>2. 0 \in A
  <2>1. ASSUME NEW x \in 0..(p[0] - 1), NEW y \in 0..(p[0] - 1) PROVE h[<<x, y>>] \in 0..(p[0] - 1)
    <3>1. x = 0 /\ y = 0
      BY <1>1, <2>1
    <3>2. <<0, 0>> \in Nat \X Nat /\ <<0, 0>>[1] = 0 /\ <<0, 0>>[2] = 0
      OBVIOUS
    <3>3. h[<<0, 0>>] = 0
      BY <3>2 DEF Xors
    <3> QED
      BY <1>1, <3>1, <3>3
  <2> QED
    BY <2>1
<1>3. ASSUME NEW k \in 0..(n - 1), k \in A PROVE k + 1 \in A
  <2>1. PICK P \in Nat \ {0} : P = p[k] /\ p[k + 1] = 2 * P
    BY <1>1
  <2>2. ASSUME NEW x \in 0..(2 * P - 1), NEW y \in 0..(2 * P - 1)
        PROVE  h[<<x, y>>] \in 0..(2 * P - 1)
    <3>1. x \in Nat /\ y \in Nat
      OBVIOUS
    <3>2. x \div 2 \in 0..(P - 1) /\ y \div 2 \in 0..(P - 1)
      <4>1. /\ x \div 2 \in Nat /\ x % 2 \in {0, 1} /\ x = 2 * (x \div 2) + (x % 2)
            /\ y \div 2 \in Nat /\ y % 2 \in {0, 1} /\ y = 2 * (y \div 2) + (y % 2)
        BY <3>1, Halves
      <4> QED
        BY <2>1, <2>2, <4>1
    <3>3. PICK z \in 0..(P - 1) : z = h[<<x \div 2, y \div 2>>]
      BY <1>3, <2>1, <3>2
    <3>4. PICK r \in {0, 1} : r = (x + y) % 2
      <4>1. x + y \in Nat
        BY <3>1
      <4> QED
        BY <4>1, Halves
    <3>5. h[<<x, y>>] = 2 * z + r
      BY <3>1, <3>3, <3>4, XorBit
    <3> QED
      BY <3>3, <3>4, <3>5
  <2>3. k + 1 \in Nat
    OBVIOUS
  <2> QED
    BY <2>1, <2>2, <2>3
<1>4. \A k \in 0..n : k \in A
  <2> HIDE DEF A
  <2> QED
    BY <1>2, <1>3, CountUp
<1>5. n \in A
  BY <1>4
<1> QED
  BY <1>5

\* One argument and the result determine the other.
LEMMA XorUndone ==
    ASSUME NEW h, Xors(h), NEW p, Doubles(p), NEW n \in Nat,
           NEW a \in 0..(p[n] - 1), NEW b \in 0..(p[n] - 1),
           NEW c \in 0..(p[n] - 1), NEW d \in 0..(p[n] - 1),
           h[<<a, b>>] = h[<<c, d>>], a = c \/ b = d
    PROVE  a = c /\ b = d
<1> DEFINE H(k) == 0..(p[k] - 1)
           A == {k \in Nat : \A x, y, z, t \in H(k) :
                   (h[<<x, y>>] = h[<<z, t>>] /\ (x = z \/ y = t)) => (x = z /\ y = t)}
<1>1. p[0] = 1 /\ \A k \in Nat : p[k] \in Nat \ {0} /\ p[k + 1] = 2 * p[k]
  BY DoublesIs
<1>2. 0 \in A
  <2>1. \A x \in H(0) : x = 0
    BY <1>1
  <2> QED
    BY <2>1
<1>3. ASSUME NEW k \in 0..(n - 1), k \in A PROVE k + 1 \in A
  <2>0. k \in Nat /\ k + 1 \in Nat
    OBVIOUS
  <2>1. PICK P \in Nat \ {0} : P = p[k] /\ p[k + 1] = 2 * P
    BY <1>1, <2>0
  <2>2. ASSUME NEW x \in H(k + 1), NEW y \in H(k + 1), NEW z \in H(k + 1), NEW t \in H(k + 1),
               h[<<x, y>>] = h[<<z, t>>], x = z \/ y = t
        PROVE  x = z /\ y = t
    <3>1. /\ x \in Nat /\ y \in Nat /\ z \in Nat /\ t \in Nat
          /\ x < 2 * P /\ y < 2 * P /\ z < 2 * P /\ t < 2 * P
      BY <2>1
    <3>2. ASSUME NEW i \in Nat, i < 2 * P
          PROVE  \E j \in 0..(P - 1), r \in {0, 1} : j = i \div 2 /\ i = 2 * j + r
      <4>1. i \div 2 \in Nat /\ i % 2 \in {0, 1} /\ i = 2 * (i \div 2) + (i % 2)
        BY Halves
      <4>2. i \div 2 \in 0..(P - 1)
        BY <3>2, <4>1
      <4> QED
        BY <4>1, <4>2
    <3>a. PICK xx \in 0..(P - 1), rx \in {0, 1} : xx = x \div 2 /\ x = 2 * xx + rx
      BY <3>1, <3>2
    <3>b. PICK yy \in 0..(P - 1), ry \in {0, 1} : yy = y \div 2 /\ y = 2 * yy + ry
      BY <3>1, <3>2
    <3>c. PICK zz \in 0..(P - 1), rz \in {0, 1} : zz = z \div 2 /\ z = 2 * zz + rz
      BY <3>1, <3>2
    <3>d. PICK tt \in 0..(P - 1), rt \in {0, 1} : tt = t \div 2 /\ t = 2 * tt + rt
      BY <3>1, <3>2
    <3>3. PICK u \in 0..(P - 1), e \in {0, 1} : u = h[<<xx, yy>>] /\ e = (x + y) % 2 /\ h[<<x, y>>] = 2 * u + e
      <4>1. h[<<x, y>>] = 2 * h[<<xx, yy>>] + ((x + y) % 2)
        BY <3>1, <3>a, <3>b, <3>c, <3>d, XorBit
      <4>2. h[<<xx, yy>>] \in 0..(P - 1)
        BY <2>0, <2>1, XorBounded
      <4>3. x + y \in Nat /\ (x + y) % 2 \in {0, 1}
        BY <3>1, Halves
      <4> QED
        BY <4>1, <4>2, <4>3
    <3>4. PICK v \in 0..(P - 1), f \in {0, 1} : v = h[<<zz, tt>>] /\ f = (z + t) % 2 /\ h[<<z, t>>] = 2 * v + f
      <4>1. h[<<z, t>>] = 2 * h[<<zz, tt>>] + ((z + t) % 2)
        BY <3>1, <3>a, <3>b, <3>c, <3>d, XorBit
      <4>2. h[<<zz, tt>>] \in 0..(P - 1)
        BY <2>0, <2>1, XorBounded
      <4>3. z + t \in Nat /\ (z + t) % 2 \in {0, 1}
        BY <3>1, Halves
      <4> QED
        BY <4>1, <4>2, <4>3
    <3>5. u = v /\ e = f
      <4>1. 2 * u + e = 2 * v + f
        BY <2>2, <3>3, <3>4
      <4> QED
        BY <4>1
    <3>6. xx = zz \/ yy = tt
      BY <2>2, <3>a, <3>b, <3>c, <3>d
    <3>7. xx = zz /\ yy = tt
      <4>1. xx \in H(k) /\ yy \in H(k) /\ zz \in H(k) /\ tt \in H(k)
        BY <2>1
      <4>2. h[<<xx, yy>>] = h[<<zz, tt>>]
        BY <3>3, <3>4, <3>5
      <4>3. \A i, j, l, o \in H(k) :
               (h[<<i, j>>] = h[<<l, o>>] /\ (i = l \/ j = o)) => (i = l /\ j = o)
        BY <1>3
      <4> HIDE DEF A, H
      <4> QED
        BY <3>6, <4>1, <4>2, <4>3
    <3>8. (x + y) % 2 = (z + t) % 2
      BY <3>3, <3>4, <3>5
    <3>9. (rx + ry) % 2 = (rz + rt) % 2
      <4>1. (x + y) % 2 = (rx + ry) % 2 /\ (z + t) % 2 = (rz + rt) % 2
        <5>1. x + y = 2 * (xx + yy) + (rx + ry) /\ z + t = 2 * (zz + tt) + (rz + rt)
          BY <3>a, <3>b, <3>c, <3>d
        <5>2. (2 * (xx + yy) + (rx + ry)) % 2 = (rx + ry) % 2
          OBVIOUS
        <5>3. (2 * (zz + tt) + (rz + rt)) % 2 = (rz + rt) % 2
          OBVIOUS
        <5> QED
          BY <5>1, <5>2, <5>3
      <4> QED
        BY <3>8, <4>1
    <3>10. (rx = rz \/ ry = rt) => (rx = rz /\ ry = rt)
      BY <3>9
    <3>11. rx = rz \/ ry = rt
      <4>1. x = 2 * xx + rx /\ z = 2 * xx + rz /\ y = 2 * yy + ry /\ t = 2 * yy + rt
        BY <3>a, <3>b, <3>c, <3>d, <3>7
      <4>2. /\ 2 * xx + rx = 2 * xx + rz => rx = rz
            /\ 2 * yy + ry = 2 * yy + rt => ry = rt
        OBVIOUS
      <4> QED
        BY <2>2, <4>1, <4>2, Zenon
    <3> QED
      BY <3>a, <3>b, <3>c, <3>d, <3>7, <3>10, <3>11
  <2> QED
    BY <2>0, <2>2
<1>4. \A k \in 0..n : k \in A
  <2> HIDE DEF A
  <2> QED
    BY <1>2, <1>3, CountUp
<1>5. n \in A
  BY <1>4
<1> QED
  BY <1>5

-----------------------------------------------------------------------------
(* Sums of whole numbers, over a set of positions and along a sequence. *)

\* Sets of numbers below a number.
LEMMA NumbersBelow ==
    ASSUME NEW i \in Nat \ {0}, NEW S
    PROVE  /\ S \subseteq 1..(i - 1) => i \notin S /\ S \cup {i} \subseteq 1..i
           /\ S \subseteq 1..i /\ i \notin S => S \subseteq 1..(i - 1)
           /\ S \subseteq 1..(i - 1) => S \subseteq 1..i
<1>1. \A x : x \in 1..(i - 1) <=> x \in 1..i /\ x # i
  OBVIOUS
<1>2. i \in 1..i
  OBVIOUS
<1>3. ASSUME S \subseteq 1..(i - 1) PROVE i \notin S /\ S \cup {i} \subseteq 1..i /\ S \subseteq 1..i
  BY <1>1, <1>2, <1>3, Zenon
<1>4. ASSUME S \subseteq 1..i, i \notin S PROVE S \subseteq 1..(i - 1)
  BY <1>1, <1>4, Zenon
<1> QED
  BY <1>3, <1>4, Zenon

\* A step's two factors have the same sign.
LEMMA SquaresGrow ==
    ASSUME NEW delta \in Int, NEW n \in Nat, n >= 1
    PROVE  delta \div n \in Int /\ delta * (delta - delta \div n) \in Nat
<1>1. PICK q \in Int : q = delta \div n /\ n * q <= delta /\ delta < n * q + n
  OBVIOUS
<1>2. CASE delta >= 0
  <2>1. q <= delta
    <3>1. CASE q <= 0
      BY <1>2, <3>1
    <3>2. CASE q > 0
      <4>1. (n - 1) * q >= 0
        BY <3>2
      <4>2. (n - 1) * q = n * q - q
        OBVIOUS
      <4> QED
        BY <1>1, <4>1, <4>2
    <3> QED
      BY <3>1, <3>2
  <2>2. delta * (delta - q) \in Nat
    BY <1>2, <2>1
  <2> QED
    BY <1>1, <2>2
<1>3. CASE ~(delta >= 0)
  <2>1. q >= delta
    <3>1. ASSUME q < delta PROVE FALSE
      <4>1. q + 1 <= 0 /\ (n - 1) * (q + 1) <= 0
        BY <1>3, <3>1
      <4>2. n * q + n = (q + 1) + (n - 1) * (q + 1)
        OBVIOUS
      <4> QED
        BY <1>1, <3>1, <4>1, <4>2
    <3> QED
      BY <3>1
  <2>2. (-delta) * (q - delta) \in Nat
    <3>1. -delta \in Nat /\ q - delta \in Nat
      BY <1>3, <2>1
    <3> QED
      BY <3>1
  <2>3. delta * (delta - q) = (-delta) * (q - delta)
    OBVIOUS
  <2> QED
    BY <1>1, <2>2, <2>3
<1> QED
  BY <1>2, <1>3

\* The mean of one more, and how far the new number is from both means.
LEMMA MeanMoves ==
    ASSUME NEW n \in Nat \ {0}, NEW c \in Nat, NEW a \in Int, NEW T \in Int, NEW x \in Int,
           NEW S \in Int, S = c * (n * (n + 1)), n * a = S * T
    PROVE  \E d \in Int :
             /\ d = n * x - T
             /\ S * x - a = (n + 1) * (c * d)
             /\ (S * x - a) \div (n + 1) = c * d
             /\ (n + 1) * (a + c * d) = S * (T + x)
             /\ S * x - (a + c * d) = n * (c * d)
<1>1. a = c * ((n + 1) * T)
  <2>1. PICK b \in Int : b = c * ((n + 1) * T)
    <3>1. (n + 1) * T \in Int
      OBVIOUS
    <3> QED
      BY <3>1
  <2>2. n * b = S * T
    BY <2>1
  <2> QED
    BY <2>1, <2>2, Cancelled
<1>2. PICK d \in Int : d = n * x - T
  OBVIOUS
<1>3. PICK e \in Int : e = c * d
  OBVIOUS
<1>4. S * x - a = (n + 1) * e
  BY <1>1, <1>2, <1>3
<1>5. (S * x - a) \div (n + 1) = e
  <2>1. PICK k \in Nat \ {0} : k = n + 1
    OBVIOUS
  <2>2. (k * e) \div k = e
    BY <2>1, MultipleDivided
  <2> QED
    BY <1>4, <2>1, <2>2
<1>6. (n + 1) * (a + e) = S * (T + x)
  BY <1>1, <1>2, <1>3
<1>7. S * x - (a + e) = n * e
  BY <1>1, <1>2, <1>3
<1> QED
  BY <1>2, <1>3, <1>4, <1>5, <1>6, <1>7

\* The weights of a set of options, summed as the model's Units sums them.
SetSum(f, L, S) ==
    LET sum[n \in 0..L] ==
          IF n = 0 THEN 0 ELSE sum[n - 1] + (IF n \in S THEN f[n] ELSE 0)
    IN sum[L]

Chosen(f, n, S) == IF n \in S THEN f[n] ELSE 0

Adds(h, f, L, S) ==
    h = [n \in 0..L |-> IF n = 0 THEN 0 ELSE h[n - 1] + (IF n \in S THEN f[n] ELSE 0)]

Adding(u, f, L, S) ==
    /\ u \in [0..L -> Int] /\ u[0] = 0
    /\ \A n \in 1..L : u[n] = u[n - 1] + Chosen(f, n, S)

\* The partial sums exist,
LEMMA AddingExists ==
    ASSUME NEW L \in Nat, NEW f \in [1..L -> Int], NEW S
    PROVE  \E u : Adding(u, f, L, S)
<1> DEFINE Good(u, m) == /\ u \in [0..L -> Int] /\ u[0] = 0
                         /\ \A n \in 1..m : u[n] = u[n - 1] + Chosen(f, n, S)
           Z == {m \in 0..L : ~\E u : Good(u, m)}
<1>1. \A n \in 1..L : Chosen(f, n, S) \in Int
  BY DEF Chosen
<1>2. Z = {}
  <2>1. SUFFICES ASSUME Z # {} PROVE FALSE
    OBVIOUS
  <2>2. PICK m \in Z : \A k \in Z : m <= k
    <3>1. Z \subseteq Nat
      OBVIOUS
    <3> HIDE DEF Z
    <3> QED
      BY <2>1, <3>1, LeastNumber
  <2>3. m \in 0..L /\ ~\E u : Good(u, m)
    <3> HIDE DEF Good
    <3> QED
      BY <2>2
  <2>4. CASE m = 0
    <3> DEFINE u == [n \in 0..L |-> 0]
    <3>1. Good(u, m)
      BY <2>4
    <3> HIDE DEF u, Good
    <3> QED
      BY <2>3, <3>1
  <2>5. CASE m # 0
    <3>1. m - 1 \in 0..L /\ m \in 1..L /\ ~(m <= m - 1)
      BY <2>3, <2>5
    <3>2. PICK u : Good(u, m - 1)
      <4>1. m - 1 \notin Z
        <5> HIDE DEF Z
        <5> QED
          BY <2>2, <3>1
      <4> HIDE DEF Good
      <4> QED
        BY <3>1, <4>1
    <3>3. u[m - 1] \in Int
      BY <3>1, <3>2
    <3>4. PICK x \in Int : x = u[m - 1] + Chosen(f, m, S)
      BY <1>1, <3>1, <3>3
    <3> DEFINE w == [u EXCEPT ![m] = x]
    <3>5. w \in [0..L -> Int] /\ w[0] = 0
      BY <3>1, <3>2
    <3>6. ASSUME NEW n \in 1..m PROVE w[n] = w[n - 1] + Chosen(f, n, S)
      <4>1. n \in 0..L /\ n - 1 \in 0..L /\ n - 1 # m
        BY <3>1
      <4>2. w[n - 1] = u[n - 1]
        BY <3>2, <4>1
      <4>3. CASE n = m
        BY <3>2, <3>4, <4>1, <4>2, <4>3
      <4>4. CASE n # m
        <5>1. n \in 1..(m - 1)
          BY <3>1, <4>4
        <5>2. w[n] = u[n]
          BY <3>2, <4>1, <4>4
        <5> QED
          BY <3>2, <4>2, <5>1, <5>2
      <4> QED
        BY <4>3, <4>4
    <3>7. Good(w, m)
      BY <3>5, <3>6
    <3> HIDE DEF w, Good
    <3> QED
      BY <2>3, <3>7
  <2> QED
    BY <2>4, <2>5
<1>3. PICK u : Good(u, L)
  <2>1. L \in 0..L
    OBVIOUS
  <2>2. ~~\E u : Good(u, L)
    <3> HIDE DEF Good
    <3> QED
      BY <1>2, <2>1
  <2> HIDE DEF Good
  <2> QED
    BY <2>2
<1> QED
  BY <1>3 DEF Adding

\* Whatever solves the recursion, it ends in the same sum.
LEMMA AddsEnds ==
    ASSUME NEW L \in Nat, NEW f \in [1..L -> Int], NEW S, NEW u, Adding(u, f, L, S)
    PROVE  /\ Adds(u, f, L, S) /\ u[L] \in Int
           /\ \A h : Adds(h, f, L, S) => h[L] = u[L]
<1>1. Adds(u, f, L, S)
  <2>1. \A n \in 0..L : n # 0 => n \in 1..L
    OBVIOUS
  <2>2. \A n \in 0..L :
          u[n] = IF n = 0 THEN 0 ELSE u[n - 1] + (IF n \in S THEN f[n] ELSE 0)
    BY <2>1 DEF Adding, Chosen
  <2> QED
    BY <2>2 DEF Adding, Adds
<1>2. ASSUME NEW h, Adds(h, f, L, S) PROVE h[L] = u[L]
  <2> DEFINE Z == {n \in 0..L : h[n] # u[n]}
  <2>1. SUFFICES ASSUME Z # {} PROVE FALSE
    <3>1. L \in 0..L
      OBVIOUS
    <3> QED
      BY <3>1
  <2>2. PICK n \in Z : \A k \in Z : n <= k
    <3>1. Z \subseteq Nat
      OBVIOUS
    <3> HIDE DEF Z
    <3> QED
      BY <2>1, <3>1, LeastNumber
  <2>3. n \in 0..L /\ h[n] # u[n] /\ n \in Nat
    BY <2>2
  <2>4. n # 0
    BY <1>1, <1>2, <2>3 DEF Adds
  <2>5. n - 1 \in 0..L /\ ~(n <= n - 1)
    BY <2>3, <2>4
  <2>6. h[n - 1] = u[n - 1]
    BY <2>2, <2>5
  <2>7. h[n] = u[n]
    <3>1. h[n] = h[n - 1] + (IF n \in S THEN f[n] ELSE 0)
      BY <1>2, <2>3, <2>4 DEF Adds
    <3>2. u[n] = u[n - 1] + (IF n \in S THEN f[n] ELSE 0)
      BY <1>1, <2>3, <2>4 DEF Adds
    <3> QED
      BY <2>6, <3>1, <3>2
  <2> QED
    BY <2>3, <2>7
<1>3. u[L] \in Int
  BY DEF Adding
<1> QED
  BY <1>1, <1>2, <1>3

\* the sum is the last of them,
LEMMA SetSumIs ==
    ASSUME NEW L \in Nat, NEW f \in [1..L -> Int], NEW S, NEW u, Adding(u, f, L, S)
    PROVE  SetSum(f, L, S) = u[L]
<1> DEFINE B(h) == h = [n \in 0..L |->
                          IF n = 0 THEN 0 ELSE h[n - 1] + (IF n \in S THEN f[n] ELSE 0)]
<1>1. SetSum(f, L, S) = (CHOOSE h : B(h))[L]
  BY Zenon DEF SetSum
<1>2. \A h : B(h) <=> Adds(h, f, L, S)
  BY Zenon DEF Adds
<1>3. PICK h : Adds(h, f, L, S) /\ SetSum(f, L, S) = h[L]
  <2>1. \E h : B(h)
    <3> HIDE DEF B
    <3> QED
      BY <1>2, AddsEnds
  <2> HIDE DEF B
  <2> QED
    BY <1>1, <1>2, <2>1
<1> QED
  BY <1>3, AddsEnds

\* a number,
LEMMA SetSumTyped ==
    ASSUME NEW L \in Nat, NEW f \in [1..L -> Int], NEW S
    PROVE  SetSum(f, L, S) \in Int
<1>1. PICK u : Adding(u, f, L, S)
  BY AddingExists
<1> QED
  BY <1>1, SetSumIs, AddsEnds

\* nothing for no position,
LEMMA SetSumEmpty ==
    ASSUME NEW L \in Nat, NEW f \in [1..L -> Int]
    PROVE  SetSum(f, L, {}) = 0
<1> DEFINE u == [n \in 0..L |-> 0]
<1>1. Adding(u, f, L, {})
  BY DEF Adding, Chosen
<1>2. u[L] = 0
  OBVIOUS
<1> HIDE DEF u
<1> QED
  BY <1>1, <1>2, SetSumIs

\* One option more adds its weight.
LEMMA SetSumWith ==
    ASSUME NEW L \in Nat, NEW f \in [1..L -> Int], NEW S, NEW i \in 1..L, i \notin S
    PROVE  SetSum(f, L, S \cup {i}) = SetSum(f, L, S) + f[i]
<1>1. PICK u : Adding(u, f, L, S)
  BY AddingExists
<1>2. /\ u \in [0..L -> Int] /\ u[0] = 0
      /\ \A n \in 1..L : u[n] = u[n - 1] + Chosen(f, n, S)
  BY <1>1 DEF Adding
<1>3. PICK x \in Int : x = f[i]
  OBVIOUS
<1> DEFINE w == [n \in 0..L |-> IF n < i THEN u[n] ELSE u[n] + x]
<1>4. w \in [0..L -> Int] /\ w[0] = 0 /\ w[L] = u[L] + x
  <2>1. \A n \in 0..L : u[n] \in Int
    BY <1>2
  <2>2. w \in [0..L -> Int]
    BY <2>1
  <2>3. w[0] = 0
    BY <1>2
  <2>4. w[L] = u[L] + x
    OBVIOUS
  <2> QED
    BY <2>2, <2>3, <2>4
<1>5. ASSUME NEW n \in 1..L PROVE w[n] = w[n - 1] + Chosen(f, n, S \cup {i})
  <2>1. n \in 0..L /\ n - 1 \in 0..L /\ u[n] \in Int /\ u[n - 1] \in Int
    BY <1>2
  <2>2. u[n] = u[n - 1] + Chosen(f, n, S) /\ Chosen(f, n, S) \in Int
    BY <1>2 DEF Chosen
  <2>3. CASE n = i
    <3>1. w[n] = u[n] + x /\ w[n - 1] = u[n - 1]
      BY <2>1, <2>3
    <3>2. Chosen(f, n, S) = 0 /\ Chosen(f, n, S \cup {i}) = x
      BY <1>3, <2>3 DEF Chosen
    <3> HIDE DEF w
    <3> QED
      BY <2>1, <2>2, <3>1, <3>2
  <2>4. CASE n < i
    <3>1. w[n] = u[n] /\ w[n - 1] = u[n - 1]
      BY <2>1, <2>4
    <3>2. Chosen(f, n, S) = Chosen(f, n, S \cup {i})
      BY <2>4 DEF Chosen
    <3> HIDE DEF w
    <3> QED
      BY <2>2, <3>1, <3>2
  <2>5. CASE n > i
    <3>1. w[n] = u[n] + x /\ w[n - 1] = u[n - 1] + x
      BY <2>1, <2>5
    <3>2. Chosen(f, n, S) = Chosen(f, n, S \cup {i})
      BY <2>5 DEF Chosen
    <3> HIDE DEF w
    <3> QED
      BY <2>1, <2>2, <3>1, <3>2
  <2> QED
    BY <2>3, <2>4, <2>5
<1> HIDE DEF w
<1>6. Adding(w, f, L, S \cup {i})
  BY <1>4, <1>5 DEF Adding
<1>7. SetSum(f, L, S \cup {i}) = w[L] /\ SetSum(f, L, S) = u[L]
  BY <1>1, <1>6, SetSumIs
<1> QED
  BY <1>3, <1>4, <1>7

\* and not negative if no term is.
LEMMA SetSumNatural ==
    ASSUME NEW L \in Nat, NEW f \in [1..L -> Nat], NEW S
    PROVE  SetSum(f, L, S) \in Nat
<1>0. f \in [1..L -> Int]
  OBVIOUS
<1>1. PICK u : Adding(u, f, L, S)
  BY <1>0, AddingExists
<1>2. /\ u \in [0..L -> Int] /\ u[0] = 0
      /\ \A n \in 1..L : u[n] = u[n - 1] + Chosen(f, n, S)
  BY <1>1 DEF Adding
<1> DEFINE Z == {n \in 0..L : u[n] \notin Nat}
<1>3. Z = {}
  <2>1. SUFFICES ASSUME Z # {} PROVE FALSE
    OBVIOUS
  <2>2. PICK n \in Z : \A k \in Z : n <= k
    <3>1. Z \subseteq Nat
      OBVIOUS
    <3> HIDE DEF Z
    <3> QED
      BY <2>1, <3>1, LeastNumber
  <2>3. n \in 0..L /\ u[n] \notin Nat /\ n \in Nat
    BY <2>2
  <2>4. n # 0
    BY <1>2, <2>3
  <2>5. n \in 1..L /\ n - 1 \in 0..L /\ ~(n <= n - 1)
    BY <2>3, <2>4
  <2>6. u[n - 1] \in Nat
    BY <2>2, <2>5
  <2>7. Chosen(f, n, S) \in Nat
    BY <2>5 DEF Chosen
  <2> QED
    BY <1>2, <2>3, <2>5, <2>6, <2>7
<1>4. u[L] \in Nat
  <2>1. L \in 0..L
    OBVIOUS
  <2> QED
    BY <1>3, <2>1
<1> QED
  BY <1>0, <1>1, <1>4, SetSumIs

\* A recursion of that form ends in the sum.
LEMMA SummedUp ==
    ASSUME NEW L \in Nat, NEW f \in [1..L -> Int], NEW S, NEW h, Adds(h, f, L, S)
    PROVE  h[L] = SetSum(f, L, S)
<1>1. PICK u : Adding(u, f, L, S)
  BY AddingExists
<1> QED
  BY <1>1, SetSumIs, AddsEnds

\* So does the function a model defines inside its sum.
LEMMA AddsExists ==
    ASSUME NEW L \in Nat, NEW f \in [1..L -> Int], NEW S
    PROVE  \E h : Adds(h, f, L, S)
  BY AddingExists, AddsEnds

\* The options chosen in a cell.
OfSeq(chosen) == {chosen[n] : n \in DOMAIN chosen}

\* One more option chosen.
LEMMA OfAppended ==
    ASSUME NEW s \in Seq(Nat), NEW i \in Nat
    PROVE  Append(s, i) \in Seq(Nat) /\ OfSeq(Append(s, i)) = OfSeq(s) \cup {i}
<1>1. /\ Append(s, i) \in Seq(Nat) /\ Len(Append(s, i)) = Len(s) + 1
      /\ Append(s, i)[Len(s) + 1] = i
      /\ \A n \in 1..Len(s) : Append(s, i)[n] = s[n]
  OBVIOUS
<1>2. DOMAIN s = 1..Len(s) /\ DOMAIN Append(s, i) = 1..(Len(s) + 1) /\ Len(s) \in Nat
  BY <1>1
<1>3. ASSUME NEW x \in OfSeq(Append(s, i)) PROVE x \in OfSeq(s) \cup {i}
  <2>1. PICK n \in 1..(Len(s) + 1) : x = Append(s, i)[n]
    BY <1>2 DEF OfSeq
  <2>2. CASE n = Len(s) + 1
    BY <1>1, <2>1, <2>2
  <2>3. CASE n # Len(s) + 1
    <3>1. n \in 1..Len(s)
      BY <1>2, <2>3
    <3> QED
      BY <1>1, <1>2, <2>1, <3>1 DEF OfSeq
  <2> QED
    BY <2>2, <2>3
<1>4. ASSUME NEW x \in OfSeq(s) PROVE x \in OfSeq(Append(s, i))
  <2>1. PICK n \in 1..Len(s) : x = s[n]
    BY <1>2 DEF OfSeq
  <2>2. n \in 1..(Len(s) + 1) /\ x = Append(s, i)[n]
    BY <1>1, <1>2, <2>1
  <2> QED
    BY <1>2, <2>2 DEF OfSeq
<1>5. i \in OfSeq(Append(s, i))
  <2>1. Len(s) + 1 \in 1..(Len(s) + 1)
    BY <1>2
  <2> QED
    BY <1>1, <1>2, <2>1 DEF OfSeq
<1> QED
  BY <1>1, <1>3, <1>4, <1>5

\* What a measure g of the legs adds up to along a sequence of them.
Along(g, s) == SetSum([n \in 1..Len(s) |-> g[s[n]]], Len(s), 1..Len(s))

\* A path of no steps weighs nothing,
LEMMA AlongNone ==
    ASSUME NEW g
    PROVE  Along(g, <<>>) = 0
<1> DEFINE f == [n \in 1..Len(<<>>) |-> g[(<<>>)[n]]]
<1>1. Len(<<>>) = 0 /\ \A n \in 1..Len(<<>>) : FALSE
  OBVIOUS
<1>2. f \in [1..0 -> Int] /\ 1..0 = {}
  BY <1>1
<1> HIDE DEF f
<1>3. SetSum(f, 0, {}) = 0
  BY <1>2, SetSumEmpty
<1> QED
  BY <1>1, <1>2, <1>3 DEF Along, f

\* and a first step adds its own weight.
LEMMA AlongFirst ==
    ASSUME NEW K \in Nat, NEW g \in [1..K -> Int], NEW l \in 1..K, NEW s \in Seq(1..K)
    PROVE  /\ <<l>> \o s \in Seq(1..K)
           /\ Along(g, s) \in Int
           /\ Along(g, <<l>> \o s) = g[l] + Along(g, s)
<1> DEFINE t == <<l>> \o s
           L == Len(s)
           f == [n \in 1..L |-> g[s[n]]]
           e == [n \in 1..Len(t) |-> g[t[n]]]
<1>1. /\ L \in Nat /\ t \in Seq(1..K) /\ Len(t) = L + 1 /\ t[1] = l
      /\ \A n \in 1..L : t[n + 1] = s[n] /\ s[n] \in 1..K
  <2>1. <<l>> \in Seq(1..K) /\ Len(<<l>>) = 1 /\ (<<l>>)[1] = l
    OBVIOUS
  <2>2. /\ t \in Seq(1..K) /\ Len(t) = 1 + Len(s)
        /\ \A n \in 1..(1 + Len(s)) : t[n] = IF n <= 1 THEN (<<l>>)[n] ELSE s[n - 1]
    BY <2>1
  <2>3. Len(s) \in Nat /\ \A n \in 1..Len(s) : s[n] \in 1..K
    OBVIOUS
  <2> HIDE DEF t
  <2>4. t[1] = l
    <3>1. 1 \in 1..(1 + Len(s))
      BY <2>3
    <3> QED
      BY <2>1, <2>2, <3>1
  <2>5. ASSUME NEW n \in 1..L PROVE t[n + 1] = s[n]
    <3>1. n + 1 \in 1..(1 + Len(s)) /\ ~(n + 1 <= 1) /\ (n + 1) - 1 = n
      BY <2>3
    <3> QED
      BY <2>2, <3>1
  <2> QED
    BY <2>2, <2>3, <2>4, <2>5
<1> HIDE DEF t
<1>2. f \in [1..L -> Int]
  <2>1. \A n \in 1..L : g[s[n]] \in Int
    BY <1>1
  <2> QED
    BY <2>1
<1>3. e \in [1..(L + 1) -> Int] /\ e[1] = g[l] /\ \A n \in 1..L : e[n + 1] = f[n]
  <2>1. \A n \in 1..Len(t) : t[n] \in 1..K
    BY <1>1
  <2>2. \A n \in 1..Len(t) : g[t[n]] \in Int
    BY <2>1
  <2>3. e \in [1..(L + 1) -> Int]
    BY <1>1, <2>2
  <2>4. 1 \in 1..Len(t)
    BY <1>1
  <2>5. e[1] = g[l]
    BY <1>1, <2>4
  <2>6. ASSUME NEW n \in 1..L PROVE e[n + 1] = f[n]
    <3>1. n + 1 \in 1..Len(t)
      BY <1>1
    <3> QED
      BY <1>1, <3>1
  <2> QED
    BY <2>3, <2>5, <2>6
<1>4. Along(g, s) = SetSum(f, L, 1..L) /\ Along(g, t) = SetSum(e, L + 1, 1..(L + 1))
  <2>1. Along(g, t) = SetSum(e, Len(t), 1..Len(t))
    BY DEF Along
  <2> QED
    BY <1>1, <2>1 DEF Along
<1> HIDE DEF f, e, L
<1>5. PICK u : Adding(u, f, L, 1..L)
  BY <1>1, <1>2, AddingExists
<1>6. /\ u \in [0..L -> Int] /\ u[0] = 0
      /\ \A n \in 1..L : u[n] = u[n - 1] + f[n]
  BY <1>5 DEF Adding, Chosen
<1>7. PICK x \in Int : x = g[l]
  OBVIOUS
<1> DEFINE w == [n \in 0..(L + 1) |-> IF n = 0 THEN 0 ELSE x + u[n - 1]]
<1>8. w \in [0..(L + 1) -> Int] /\ w[0] = 0 /\ w[L + 1] = x + u[L]
  <2>1. \A n \in 0..(L + 1) : n # 0 => n - 1 \in 0..L
    BY <1>1
  <2>2. \A n \in 0..(L + 1) : n # 0 => u[n - 1] \in Int
    BY <1>6, <2>1
  <2>3. w \in [0..(L + 1) -> Int]
    BY <2>2
  <2>4. L + 1 \in 0..(L + 1) /\ 0 \in 0..(L + 1) /\ L + 1 # 0 /\ (L + 1) - 1 = L
    BY <1>1
  <2> QED
    BY <2>3, <2>4
<1>9. ASSUME NEW n \in 1..(L + 1) PROVE w[n] = w[n - 1] + e[n]
  <2>1. n \in 0..(L + 1) /\ n - 1 \in 0..(L + 1) /\ n # 0 /\ n - 1 \in 0..L
    BY <1>1
  <2>2. w[n] = x + u[n - 1] /\ u[n - 1] \in Int
    BY <1>6, <2>1
  <2>3. CASE n = 1
    <3>1. w[n - 1] = 0 /\ u[n - 1] = 0
      BY <1>6, <1>8, <2>3
    <3> HIDE DEF w
    <3> QED
      BY <1>3, <1>7, <2>2, <2>3, <3>1
  <2>4. CASE n # 1
    <3>1. n - 1 \in 1..L /\ n - 1 # 0 /\ (n - 1) - 1 \in 0..L
      BY <1>1, <2>4
    <3>2. w[n - 1] = x + u[(n - 1) - 1]
      BY <2>1, <3>1
    <3>3. u[n - 1] = u[(n - 1) - 1] + f[n - 1] /\ u[(n - 1) - 1] \in Int
      BY <1>6, <3>1
    <3>4. e[n] = f[n - 1] /\ f[n - 1] \in Int
      <4>1. e[(n - 1) + 1] = f[n - 1]
        BY <1>3, <3>1
      <4>2. (n - 1) + 1 = n
        BY <2>1
      <4> QED
        BY <1>2, <3>1, <4>1, <4>2
    <3> HIDE DEF w
    <3> QED
      BY <2>2, <3>2, <3>3, <3>4
  <2> QED
    BY <2>3, <2>4
<1> HIDE DEF w
<1>10. Adding(w, e, L + 1, 1..(L + 1))
  BY <1>8, <1>9 DEF Adding, Chosen
<1>11. SetSum(f, L, 1..L) = u[L] /\ u[L] \in Int
  <2>1. L \in Nat /\ L \in 0..L
    BY <1>1
  <2>2. SetSum(f, L, 1..L) = u[L]
    BY <1>2, <1>5, <2>1, SetSumIs
  <2>3. u[L] \in Int
    BY <1>6, <2>1
  <2> QED
    BY <2>2, <2>3
<1>12. SetSum(e, L + 1, 1..(L + 1)) = w[L + 1]
  <2>1. PICK M \in Nat : M = L + 1
    BY <1>1
  <2>2. e \in [1..M -> Int] /\ Adding(w, e, M, 1..M)
    BY <1>3, <1>10, <2>1
  <2>3. SetSum(e, M, 1..M) = w[M]
    BY <2>2, SetSumIs
  <2> QED
    BY <2>1, <2>3
<1> QED
  BY <1>1, <1>4, <1>7, <1>8, <1>11, <1>12 DEF t

\* The sum of a sequence of numbers, and the sequence of their squares.
Total(s) == SetSum(s, Len(s), 1..Len(s))

Squared(s) == [n \in 1..Len(s) |-> s[n] * s[n]]

\* A sequence of numbers is a function over its positions.
LEMMA IntegerSequence ==
    ASSUME NEW s \in Seq(Int)
    PROVE  Len(s) \in Nat /\ s \in [1..Len(s) -> Int]
OBVIOUS

\* One more number adds to the sum.
LEMMA TotalAppended ==
    ASSUME NEW s \in Seq(Int), NEW x \in Int
    PROVE  /\ Total(s) \in Int /\ Total(Append(s, x)) = Total(s) + x
<1>1. PICK L \in Nat : L = Len(s)
  BY IntegerSequence
<1>2. PICK t : t = Append(s, x)
  OBVIOUS
<1>3. /\ t \in Seq(Int) /\ Len(t) = L + 1 /\ t[L + 1] = x
      /\ \A n \in 1..L : t[n] = s[n]
  BY <1>1, <1>2
<1>4. t \in [1..(L + 1) -> Int]
  BY <1>3, IntegerSequence
<1>5. PICK u : Adding(u, t, L + 1, 1..(L + 1))
  <2>1. L + 1 \in Nat
    OBVIOUS
  <2> QED
    BY <1>4, <2>1, AddingExists
<1>6. Total(t) = u[L + 1]
  BY <1>3, <1>4, <1>5, SetSumIs DEF Total
<1>7. /\ \A n \in 0..(L + 1) : u[n] \in Int
      /\ u[0] = 0
      /\ \A n \in 1..(L + 1) : u[n] = u[n - 1] + t[n]
  BY <1>5 DEF Adding, Chosen
<1> DEFINE v == [n \in 0..L |-> u[n]]
<1>8. Adding(v, s, L, 1..L)
  <2>1. v \in [0..L -> Int] /\ v[0] = 0
    BY <1>7
  <2>2. ASSUME NEW n \in 1..L PROVE v[n] = v[n - 1] + Chosen(s, n, 1..L)
    <3>1. n \in 1..(L + 1) /\ n \in 0..L /\ n - 1 \in 0..L
      OBVIOUS
    <3>2. u[n] = u[n - 1] + s[n]
      BY <1>3, <1>7, <3>1
    <3> QED
      BY <3>1, <3>2 DEF Chosen
  <2> HIDE DEF v
  <2> QED
    BY <2>1, <2>2 DEF Adding
<1>9. Total(s) = v[L] /\ v[L] = u[L]
  <2>1. s \in [1..L -> Int]
    BY <1>1, IntegerSequence
  <2>2. v[L] = u[L]
    OBVIOUS
  <2> HIDE DEF v
  <2> QED
    BY <1>1, <1>8, <2>1, <2>2, SetSumIs DEF Total
<1> HIDE DEF v
<1>10. L \in 0..(L + 1) /\ L + 1 \in 1..(L + 1) /\ (L + 1) - 1 = L
  OBVIOUS
<1>11. u[L + 1] = u[L] + x /\ u[L] \in Int
  BY <1>3, <1>7, <1>10
<1> QED
  BY <1>2, <1>6, <1>9, <1>11

\* No numbers sum to nothing.
LEMMA TotalNothing == Total(<<>>) = 0
<1>1. PICK s \in Seq(Int) : s = <<>> /\ Len(s) = 0
  <2>1. <<>> \in Seq(Int) /\ Len(<<>>) = 0
    OBVIOUS
  <2> QED
    BY <2>1
<1>2. s \in [1..0 -> Int]
  BY <1>1, IntegerSequence
<1>3. PICK u : Adding(u, s, 0, 1..0)
  BY <1>2, AddingExists
<1>4. Total(s) = u[0]
  <2>1. SetSum(s, 0, 1..0) = u[0]
    <3>1. 0 \in Nat
      OBVIOUS
    <3> QED
      BY <1>2, <1>3, <3>1, SetSumIs
  <2> QED
    BY <1>1, <2>1 DEF Total
<1> QED
  BY <1>1, <1>3, <1>4 DEF Adding

\* The squares of one more number.
LEMMA SquaredAppended ==
    ASSUME NEW s \in Seq(Int), NEW x \in Int
    PROVE  Squared(s) \in Seq(Int) /\ Squared(Append(s, x)) = Append(Squared(s), x * x)
<1>1. PICK L \in Nat : L = Len(s)
  BY IntegerSequence
<1>2. \A n \in 1..L : s[n] \in Int
  BY <1>1
<1>3. \A n \in 1..L : s[n] * s[n] \in Int
  <2>1. \A a \in Int : a * a \in Int
    OBVIOUS
  <2> QED
    BY <1>2, <2>1
<1>4. Squared(s) = [n \in 1..L |-> s[n] * s[n]]
  BY <1>1 DEF Squared
<1>5. Squared(s) \in Seq(Int) /\ Len(Squared(s)) = L
  BY <1>3, <1>4
<1>6. PICK t : t = Append(s, x)
  OBVIOUS
<1>7. /\ t \in Seq(Int) /\ Len(t) = L + 1 /\ t[L + 1] = x
      /\ \A n \in 1..L : t[n] = s[n]
  BY <1>1, <1>6
<1>8. Squared(t) = [n \in 1..(L + 1) |-> t[n] * t[n]]
  BY <1>7 DEF Squared
<1>9. PICK y \in Int : y = x * x
  OBVIOUS
<1>10. PICK q, r : q = Squared(s) /\ r = Append(q, y)
  OBVIOUS
<1>11. /\ r = [n \in 1..(L + 1) |-> r[n]] /\ r[L + 1] = y
       /\ \A n \in 1..L : r[n] = q[n]
  <2>1. q \in Seq(Int) /\ Len(q) = L
    BY <1>5, <1>10
  <2>2. r \in Seq(Int) /\ Len(r) = L + 1
    BY <1>9, <1>10, <2>1
  <2>3. r = [n \in 1..(L + 1) |-> r[n]]
    BY <2>2
  <2> QED
    BY <1>9, <1>10, <2>1, <2>3
<1>12. \A n \in 1..(L + 1) : r[n] = t[n] * t[n]
  <2>1. \A n \in 1..(L + 1) : n \in 1..L \/ n = L + 1
    OBVIOUS
  <2>2. \A n \in 1..L : r[n] = s[n] * s[n]
    BY <1>4, <1>10, <1>11
  <2> QED
    BY <1>7, <1>9, <1>11, <2>1, <2>2
<1> QED
  BY <1>5, <1>6, <1>8, <1>9, <1>10, <1>11, <1>12

Ascends(s) == \A i, j \in 1..Len(s) : i <= j => s[i] <= s[j]

\* The more of the worst, the better their average, and no better than the next.
LEMMA AveragesRise ==
    ASSUME NEW s \in Seq(Int), Ascends(s), NEW u \in [Nat -> Int], u[0] = 0,
           \A n \in 0..(Len(s) - 1) : u[n + 1] = u[n] + s[n + 1]
    PROVE  /\ \A n \in 0..(Len(s) - 1) : u[n] <= n * s[n + 1]
           /\ \A i, j \in 0..Len(s) : i <= j => u[i] * j <= u[j] * i
<1>1. PICK L \in Nat : L = Len(s)
  OBVIOUS
<1>2. \A n \in 0..(L - 1) : s[n + 1] \in Int
  <2>1. \A i \in 1..L : s[i] \in Int
    BY <1>1
  <2>2. \A n \in 0..(L - 1) : n + 1 \in 1..L
    OBVIOUS
  <2> QED
    BY <2>1, <2>2
<1>3. ASSUME NEW i \in 0..(L - 1), NEW j \in 0..(L - 1), i <= j PROVE s[i + 1] <= s[j + 1]
  <2>1. i + 1 \in 1..L /\ j + 1 \in 1..L /\ i + 1 <= j + 1
    BY <1>3
  <2> QED
    BY <1>1, <2>1 DEF Ascends
<1>4. \A n \in 0..(L - 1) : u[n + 1] = u[n] + s[n + 1]
  BY <1>1
<1>5. ASSUME NEW n \in 0..(L - 1) PROVE u[n] <= n * s[n + 1]
  <2> DEFINE A == {k \in Nat : k <= L - 1 => u[k] <= k * s[k + 1]}
  <2>1. 0 \in A
    <3>1. ASSUME 0 <= L - 1 PROVE 0 <= 0 * s[0 + 1]
      <4>1. s[0 + 1] \in Int
        BY <1>2, <3>1
      <4> QED
        BY <4>1
    <3> QED
      BY <3>1
  <2>2. ASSUME NEW k \in 0..((L - 1) - 1), k \in A PROVE k + 1 \in A
    <3>1. k \in Nat /\ k + 1 \in Nat /\ k \in 0..(L - 1) /\ k + 1 \in 0..(L - 1)
      OBVIOUS
    <3>2. PICK a, b, x \in Int : a = s[k + 1] /\ b = s[(k + 1) + 1] /\ x = u[k]
      BY <1>2, <3>1
    <3>3. x <= k * a /\ u[k + 1] = x + a /\ a <= b
      <4>1. k <= L - 1 /\ k <= k + 1
        BY <3>1
      <4>2. u[k] <= k * s[k + 1]
        BY <2>2, <4>1
      <4>3. s[k + 1] <= s[(k + 1) + 1]
        BY <1>3, <3>1, <4>1
      <4>4. u[k + 1] = u[k] + s[k + 1]
        BY <1>4, <3>1
      <4> QED
        BY <3>2, <4>2, <4>3, <4>4
    <3>4. (k + 1) * a = k * a + a
      OBVIOUS
    <3>5. (k + 1) * a <= (k + 1) * b
      BY <3>1, <3>3, ProductRises
    <3>6. k * a \in Int /\ (k + 1) * b \in Int
      OBVIOUS
    <3>7. u[k + 1] <= (k + 1) * s[(k + 1) + 1]
      <4>1. PICK c, d, e \in Int : c = k * a /\ d = (k + 1) * a /\ e = (k + 1) * b
        BY <3>6
      <4>2. x + a <= e
        BY <3>3, <3>4, <3>5, <4>1
      <4>3. u[k + 1] <= e
        BY <3>3, <4>2
      <4> QED
        BY <3>2, <4>1, <4>3, Zenon
    <3> QED
      BY <3>1, <3>7
  <2>3. L - 1 \in Nat
    BY <1>5
  <2>4. \A k \in 0..(L - 1) : k \in A
    <3> HIDE DEF A
    <3> QED
      BY <2>1, <2>2, <2>3, CountUp
  <2> QED
    BY <2>4
<1>6. ASSUME NEW i \in 0..L, NEW j \in 0..L, i <= j PROVE u[i] * j <= u[j] * i
  <2> DEFINE A == {k \in Nat : i + k <= L => u[i] * (i + k) <= u[i + k] * i}
  <2>1. 0 \in A
    OBVIOUS
  <2>2. ASSUME NEW k \in 0..((L - i) - 1), k \in A PROVE k + 1 \in A
    <3>1. /\ k \in Nat /\ k + 1 \in Nat /\ i \in Nat /\ i + k \in 0..(L - 1) /\ i \in 0..(L - 1)
          /\ i <= i + k /\ i + (k + 1) = (i + k) + 1 /\ i + k <= L
      OBVIOUS
    <3>2. PICK a, b, x, y \in Int : a = s[i + 1] /\ b = s[(i + k) + 1] /\ x = u[i] /\ y = u[i + k]
      <4>1. s[i + 1] \in Int /\ s[(i + k) + 1] \in Int
        BY <1>2, <3>1
      <4>2. i + k \in Nat
        BY <3>1
      <4>3. u[i] \in Int /\ u[i + k] \in Int
        BY <3>1, <4>2
      <4> QED
        BY <4>1, <4>3, Zenon
    <3>3. /\ x <= i * a /\ a <= b /\ x * (i + k) <= y * i
          /\ u[(i + k) + 1] = y + b
      BY <1>3, <1>4, <1>5, <2>2, <3>1, <3>2
    <3>4. i * a <= i * b
      BY <3>1, <3>3, ProductRises
    <3>5. x * ((i + k) + 1) = x * (i + k) + x /\ (y + b) * i = y * i + i * b
      BY <3>1
    <3>6. x * (i + k) \in Int /\ y * i \in Int /\ i * a \in Int /\ i * b \in Int
      BY <3>1
    <3>7. x * ((i + k) + 1) <= (y + b) * i
      <4>1. PICK c, d, e, f, g, h \in Int :
              /\ c = x * (i + k) /\ d = y * i /\ e = i * a /\ f = i * b
              /\ g = x * ((i + k) + 1) /\ h = (y + b) * i
        <5>1. x * ((i + k) + 1) \in Int /\ (y + b) * i \in Int
          BY <3>1
        <5> QED
          BY <3>6, <5>1, Zenon
      <4>2. c <= d /\ x <= e /\ e <= f /\ g = c + x /\ h = d + f
        BY <3>3, <3>4, <3>5, <4>1, Zenon
      <4>3. g <= h
        BY <4>2
      <4> QED
        BY <4>1, <4>3, Zenon
    <3>8. u[i] * (i + (k + 1)) <= u[i + (k + 1)] * i
      BY <3>1, <3>2, <3>3, <3>7
    <3> QED
      BY <3>1, <3>8
  <2>3. L - i \in Nat /\ j - i \in 0..(L - i) /\ i + (j - i) = j /\ j <= L
    BY <1>6
  <2>4. \A k \in 0..(L - i) : k \in A
    <3> HIDE DEF A
    <3> QED
      BY <2>1, <2>2, <2>3, CountUp
  <2>5. j - i \in A
    BY <2>3, <2>4
  <2> QED
    BY <2>3, <2>5
<1> QED
  BY <1>1, <1>5, <1>6

-----------------------------------------------------------------------------
(* Fractions in lowest terms, their order and their sums. *)

\* A function that each element gets from a smaller one.
Shrinks(D, size, less, base, c, extra) ==
    \E h \in [D -> Nat] : \A p \in D :
        h[p] = IF size[p] = 0 THEN base[p] ELSE c * h[less[p]] + extra[p]

\* A recursion whose argument shrinks in size defines a function.
LEMMA RecursionBySize ==
    ASSUME NEW D, NEW size \in [D -> Nat], NEW less \in [D -> D],
           NEW base \in [D -> Nat], NEW extra \in [D -> Nat], NEW c \in Nat,
           \A p \in D : size[p] # 0 => size[less[p]] < size[p]
    PROVE  Shrinks(D, size, less, base, c, extra)
<1> DEFINE S == [D -> Nat]
           one(f) == [p \in D |-> IF size[p] = 0 THEN base[p] ELSE c * f[less[p]] + extra[p]]
           step == [q \in Nat \X S |-> one(q[2])]
<1>1. ASSUME NEW f \in S PROVE one(f) \in S
  <2>1. ASSUME NEW p \in D
        PROVE  (IF size[p] = 0 THEN base[p] ELSE c * f[less[p]] + extra[p]) \in Nat
    <3>1. f[less[p]] \in Nat /\ extra[p] \in Nat /\ base[p] \in Nat
      OBVIOUS
    <3>2. c * f[less[p]] \in Nat
      BY <3>1
    <3> QED
      BY <3>1, <3>2
  <2> QED
    BY <2>1
<1>2. step \in [Nat \X S -> S]
  <2>1. \A q \in Nat \X S : q[2] \in S
    OBVIOUS
  <2> HIDE DEF one, S
  <2> QED
    BY <1>1, <2>1
<1>3. PICK u \in [Nat -> S] : u[0] = base /\ \A n \in Nat : u[n + 1] = step[<<n, u[n]>>]
  <2>1. base \in S
    OBVIOUS
  <2> HIDE DEF step, S
  <2>2. Follows(S, base, step)
    BY <1>2, <2>1, RecursionOverNat, Zenon
  <2> QED
    BY <2>2 DEF Follows
<1>4. ASSUME NEW n \in Nat PROVE u[n + 1] = one(u[n]) /\ u[n] \in S
  <2> HIDE DEF one, S
  <2>1. u[n] \in S /\ <<n, u[n]>> \in Nat \X S
    BY <1>3
  <2>2. step[<<n, u[n]>>] = one(u[n])
    BY <2>1
  <2> QED
    BY <1>3, <2>1, <2>2
<1> HIDE DEF step
<1>5. ASSUME NEW n \in Nat, NEW p \in D
      PROVE  u[n + 1][p] = IF size[p] = 0 THEN base[p] ELSE c * u[n][less[p]] + extra[p]
  BY <1>4
<1>6. ASSUME NEW L \in Nat
      PROVE  \A k \in 0..L : \A r \in D : size[r] <= k => u[k + 1][r] = u[k][r]
  <2> DEFINE A == {k \in Nat : \A r \in D : size[r] <= k => u[k + 1][r] = u[k][r]}
  <2>1. 0 \in A
    <3>1. ASSUME NEW r \in D, size[r] <= 0 PROVE u[0 + 1][r] = u[0][r]
      <4>1. size[r] = 0
        BY <3>1
      <4>2. u[0][r] = base[r]
        BY <1>3
      <4> QED
        BY <1>5, <4>1, <4>2
    <3> QED
      BY <3>1
  <2>2. ASSUME NEW k \in 0..(L - 1), k \in A PROVE k + 1 \in A
    <3>1. k \in Nat /\ k + 1 \in Nat
      OBVIOUS
    <3>2. ASSUME NEW r \in D, size[r] <= k + 1 PROVE u[(k + 1) + 1][r] = u[k + 1][r]
      <4>1. CASE size[r] = 0
        <5>1. u[(k + 1) + 1][r] = base[r] /\ u[k + 1][r] = base[r]
          BY <1>5, <3>1, <4>1, Zenon
        <5> QED
          BY <5>1
      <4>2. CASE size[r] # 0
        <5>1. less[r] \in D /\ size[less[r]] <= k
          <6>1. less[r] \in D /\ size[less[r]] \in Nat /\ size[r] \in Nat
            OBVIOUS
          <6>2. size[less[r]] < size[r]
            BY <4>2
          <6> QED
            BY <3>1, <3>2, <6>1, <6>2
        <5>2. u[k + 1][less[r]] = u[k][less[r]]
          BY <2>2, <5>1
        <5>3. /\ u[(k + 1) + 1][r] = c * u[k + 1][less[r]] + extra[r]
              /\ u[k + 1][r] = c * u[k][less[r]] + extra[r]
          BY <1>5, <3>1, <4>2
        <5> QED
          BY <5>2, <5>3
      <4> QED
        BY <4>1, <4>2
    <3> QED
      BY <3>1, <3>2
  <2>3. \A k \in 0..L : k \in A
    <3> HIDE DEF A
    <3> QED
      BY <2>1, <2>2, CountUp
  <2> QED
    BY <2>3
<1>7. ASSUME NEW p \in D, NEW n \in Nat, size[p] <= n PROVE u[n][p] = u[size[p]][p]
  <2>0. PICK f \in Nat : f = size[p] /\ f <= n
    BY <1>7
  <2> DEFINE A == {k \in Nat : u[f + k][p] = u[f][p]}
  <2>1. n - f \in Nat /\ f + (n - f) = n
    BY <2>0
  <2>2. 0 \in A
    BY <2>1
  <2>3. ASSUME NEW k \in 0..((n - f) - 1), k \in A PROVE k + 1 \in A
    <3>1. /\ k \in Nat /\ k + 1 \in Nat /\ f + k \in Nat /\ f <= f + k
          /\ f + (k + 1) = (f + k) + 1 /\ f + k \in 0..(f + k)
      BY <2>1
    <3>2. u[(f + k) + 1][p] = u[f + k][p]
      BY <1>6, <2>0, <3>1
    <3> QED
      BY <2>3, <3>1, <3>2
  <2>4. \A k \in 0..(n - f) : k \in A
    <3> HIDE DEF A
    <3> QED
      BY <2>1, <2>2, <2>3, CountUp
  <2>5. n - f \in A
    <3>1. n - f \in 0..(n - f)
      BY <2>1
    <3> HIDE DEF A
    <3> QED
      BY <2>4, <3>1
  <2> QED
    BY <2>0, <2>1, <2>5
<1> DEFINE h == [p \in D |-> u[size[p]][p]]
<1>8. ASSUME NEW p \in D
      PROVE  h[p] = IF size[p] = 0 THEN base[p] ELSE c * h[less[p]] + extra[p]
  <2>1. CASE size[p] = 0
    BY <1>3, <2>1
  <2>2. CASE size[p] # 0
    <3>0. PICK f \in Nat : f = size[p] /\ f # 0
      BY <2>2
    <3>1. f - 1 \in Nat /\ (f - 1) + 1 = f
      BY <3>0
    <3>2. less[p] \in D /\ size[less[p]] <= f - 1
      <4>1. less[p] \in D /\ size[less[p]] \in Nat
        OBVIOUS
      <4>2. size[less[p]] < size[p]
        BY <2>2
      <4> QED
        BY <3>0, <4>1, <4>2
    <3>3. u[f - 1][less[p]] = u[size[less[p]]][less[p]]
      BY <1>7, <3>1, <3>2
    <3>4. u[(f - 1) + 1][p] = c * u[f - 1][less[p]] + extra[p]
      BY <1>5, <2>2, <3>1
    <3>5. h[p] = u[f][p] /\ h[less[p]] = u[size[less[p]]][less[p]]
      BY <3>0, <3>2
    <3> QED
      BY <2>2, <3>1, <3>3, <3>4, <3>5
  <2> QED
    BY <2>1, <2>2
<1>9. h \in [D -> Nat]
  <2>1. ASSUME NEW p \in D PROVE u[size[p]][p] \in Nat
    <3>1. size[p] \in Nat
      OBVIOUS
    <3>2. u[size[p]] \in S
      BY <1>3, <3>1
    <3> QED
      BY <3>2
  <2> QED
    BY <2>1
<1> HIDE DEF h
<1> QED
  BY <1>8, <1>9 DEF Shrinks


Euclids(g) == g = [p \in Nat \X Nat |-> IF p[2] = 0 THEN p[1] ELSE g[<<p[2], p[1] % p[2]>>]]

\* Euclid's algorithm ends,
LEMMA EuclidExists == \E g : Euclids(g)
<1> DEFINE D == Nat \X Nat
           size == [p \in D |-> p[2]]
           base == [p \in D |-> p[1]]
           less == [p \in D |-> IF p[2] = 0 THEN p ELSE <<p[2], p[1] % p[2]>>]
           extra == [p \in D |-> 0]
<1>1. ASSUME NEW p \in D, p[2] # 0
      PROVE  <<p[2], p[1] % p[2]>> \in D /\ p[1] % p[2] < p[2]
  <2>1. p[1] \in Nat /\ p[2] \in Nat \ {0}
    BY <1>1
  <2>2. p[1] % p[2] \in 0..(p[2] - 1)
    BY <2>1, QuotientRemainder
  <2> QED
    BY <2>1, <2>2
<1>2. size \in [D -> Nat] /\ base \in [D -> Nat] /\ extra \in [D -> Nat] /\ 1 \in Nat
  OBVIOUS
<1>3. less \in [D -> D]
  <2>1. ASSUME NEW p \in D PROVE (IF p[2] = 0 THEN p ELSE <<p[2], p[1] % p[2]>>) \in D
    BY <1>1
  <2> HIDE DEF D
  <2> QED
    BY <2>1
<1>4. \A p \in D : size[p] # 0 => size[less[p]] < size[p]
  <2>1. ASSUME NEW p \in D, size[p] # 0 PROVE size[less[p]] < size[p]
    <3>1. size[p] = p[2] /\ p[2] # 0
      BY <2>1
    <3>2. less[p] = <<p[2], p[1] % p[2]>>
      BY <3>1
    <3>3. <<p[2], p[1] % p[2]>> \in D /\ p[1] % p[2] < p[2]
      BY <1>1, <3>1
    <3>4. size[<<p[2], p[1] % p[2]>>] = p[1] % p[2]
      BY <3>3
    <3> QED
      BY <3>1, <3>2, <3>3, <3>4
  <2> QED
    BY <2>1
<1>5. Shrinks(D, size, less, base, 1, extra)
  <2> HIDE DEF D, size, less, base, extra
  <2> QED
    BY <1>2, <1>3, <1>4, RecursionBySize
<1>6. PICK h \in [D -> Nat] : \A p \in D :
        h[p] = IF size[p] = 0 THEN base[p] ELSE 1 * h[less[p]] + extra[p]
  BY <1>5, Zenon DEF Shrinks
<1>7. ASSUME NEW p \in D PROVE h[p] = IF p[2] = 0 THEN p[1] ELSE h[<<p[2], p[1] % p[2]>>]
  <2>1. CASE p[2] = 0
    BY <1>6, <2>1
  <2>2. CASE p[2] # 0
    <3>1. <<p[2], p[1] % p[2]>> \in D
      BY <1>1, <2>2
    <3>2. less[p] = <<p[2], p[1] % p[2]>> /\ size[p] = p[2] /\ extra[p] = 0
      BY <2>2
    <3>3. h[p] = 1 * h[less[p]] + 0
      BY <1>6, <2>2, <3>2
    <3>4. h[less[p]] \in Nat
      BY <1>6, <3>1, <3>2
    <3> QED
      BY <2>2, <3>2, <3>3, <3>4
  <2> QED
    BY <2>1, <2>2
<1>8. h = [p \in D |-> h[p]]
  BY <1>6
<1>9. h = [p \in D |-> IF p[2] = 0 THEN p[1] ELSE h[<<p[2], p[1] % p[2]>>]]
  BY <1>7, <1>8
<1> QED
  BY <1>9 DEF Euclids

\* k divides both a and b, and is made of them.
Measures(k, a, b) ==
    /\ k \in Nat \ {0}
    /\ \E m \in Int : a = k * m
    /\ \E m \in Int : b = k * m
    /\ \E u, v \in Int : u * a + v * b = k

\* on the greatest common measure, which is a combination of the two numbers;
LEMMA EuclidMeasures ==
    ASSUME NEW g, Euclids(g), NEW a \in Nat, NEW b \in Nat, a # 0 \/ b # 0
    PROVE  Measures(g[<<a, b>>], a, b)
<1> DEFINE Z == {n \in Nat : \E m \in Nat : (m # 0 \/ n # 0) /\ ~Measures(g[<<m, n>>], m, n)}
<1>1. ASSUME NEW m \in Nat, NEW n \in Nat
      PROVE  g[<<m, n>>] = IF n = 0 THEN m ELSE g[<<n, m % n>>]
  <2>1. <<m, n>> \in Nat \X Nat
    OBVIOUS
  <2>2. g = [p \in Nat \X Nat |-> IF p[2] = 0 THEN p[1] ELSE g[<<p[2], p[1] % p[2]>>]]
    BY DEF Euclids
  <2> QED
    BY <2>1, <2>2
<1>2. ASSUME Z # {} PROVE FALSE
  <2>1. Z \subseteq Nat
    OBVIOUS
  <2>2. PICK n \in Z : \A k \in Z : n <= k
    <3> HIDE DEF Z
    <3> QED
      BY <1>2, <2>1, LeastNumber
  <2>3. PICK m \in Nat : n \in Nat /\ (m # 0 \/ n # 0) /\ ~Measures(g[<<m, n>>], m, n)
    BY <2>2
  <2>4. CASE n = 0
    <3>1. g[<<m, n>>] = m /\ m \in Nat \ {0}
      BY <1>1, <2>3, <2>4
    <3>2. m = m * 1 /\ n = m * 0 /\ 1 * m + 0 * n = m
      BY <2>3, <2>4
    <3>3. Measures(m, m, n)
      BY <3>1, <3>2, 0 \in Int, 1 \in Int DEF Measures
    <3> QED
      BY <2>3, <3>1, <3>3
  <2>5. CASE n # 0
    <3> DEFINE r == m % n
               q == m \div n
    <3>1. /\ m = n * q + r /\ r \in Nat /\ r < n /\ q \in Nat
      BY <2>3, <2>5, QuotientRemainder
    <3>2. g[<<m, n>>] = g[<<n, r>>]
      BY <1>1, <2>3, <2>5
    <3> HIDE DEF r, q
    <3>3. Measures(g[<<n, r>>], n, r)
      <4>1. r \notin Z
        <5> HIDE DEF Z
        <5> QED
          BY <2>2, <2>3, <3>1
      <4> QED
        BY <2>3, <2>5, <3>1, <4>1
    <3>4. PICK k \in Nat \ {0} : k = g[<<n, r>>]
      BY <3>3 DEF Measures
    <3>5. PICK x, y, u, v \in Int : n = k * x /\ r = k * y /\ u * n + v * r = k
      BY <3>3, <3>4 DEF Measures
    <3>6. m = k * (x * q + y)
      <4>1. m = (k * x) * q + k * y
        BY <3>1, <3>5
      <4>2. (k * x) * q + k * y = k * (x * q + y)
        BY <3>1
      <4> QED
        BY <4>1, <4>2
    <3>7. v * m + (u - v * q) * n = k
      <4>1. v * m = v * (n * q) + v * r
        BY <2>3, <3>1
      <4>2. (u - v * q) * n = u * n - v * (n * q)
        BY <2>3, <3>1
      <4>3. v * (n * q) \in Int /\ v * r \in Int /\ u * n \in Int
        BY <2>3, <3>1
      <4> QED
        BY <3>5, <4>1, <4>2, <4>3
    <3>8. x * q + y \in Int /\ u - v * q \in Int
      BY <3>1
    <3>9. Measures(k, m, n)
      BY <3>5, <3>6, <3>7, <3>8 DEF Measures
    <3> QED
      BY <2>3, <3>2, <3>4, <3>9
  <2> QED
    BY <2>4, <2>5
<1>3. b \notin Z
  BY <1>2
<1> QED
  BY <1>3

\* so Common does, whatever the sign of the first.
LEMMA CommonMeasures ==
    ASSUME NEW a \in Int, NEW b \in Nat \ {0}
    PROVE  Measures(Common(a, b), a, b)
<1>1. PICK g : g = Gcd /\ Euclids(g)
  <2>1. Gcd = CHOOSE g : Euclids(g)
    BY Zenon DEF Gcd, Euclids
  <2> QED
    BY <2>1, EuclidExists, Zenon
<1> DEFINE c == IF a < 0 THEN -a ELSE a
<1>2. c \in Nat /\ (c = a \/ (c = -a))
  OBVIOUS
<1>3. Common(a, b) = g[<<c, b>>]
  BY <1>1 DEF Common
<1> HIDE DEF c
<1>4. Measures(g[<<c, b>>], c, b)
  BY <1>1, <1>2, EuclidMeasures
<1>5. PICK k \in Nat \ {0} : k = g[<<c, b>>]
  BY <1>4 DEF Measures
<1>6. PICK x, y, u, v \in Int : c = k * x /\ b = k * y /\ u * c + v * b = k
  BY <1>4, <1>5 DEF Measures
<1>7. CASE c = a
  BY <1>3, <1>4, <1>7
<1>8. CASE c = -a
  <2>1. a = k * (-x) /\ (-u) * a + v * b = k
    <3>1. a = -(k * x) /\ k * x \in Int
      BY <1>2, <1>6, <1>8
    <3>2. -(k * x) = k * (-x)
      BY <1>6
    <3>3. (-u) * a = u * c
      BY <1>8, <1>2
    <3> QED
      BY <1>6, <3>1, <3>2, <3>3
  <2>2. -x \in Int /\ -u \in Int
    OBVIOUS
  <2>3. Measures(k, a, b)
    BY <1>6, <2>1, <2>2 DEF Measures
  <2> QED
    BY <1>3, <1>5, <2>3
<1> QED
  BY <1>2, <1>7, <1>8

\* Numbers that make one together, and fractions in lowest terms.
Coprime(x, y) == \E u, v \in Int : u * x + v * y = 1
\* The fractions in lowest terms,
Reduced == {a \in [n : Int, d : Nat \ {0}] : Coprime(a.n, a.d)}

\* a is n over d.
Worth(a, n, d) == a \in Reduced /\ n \in Int /\ d \in Nat \ {0} /\ a.n * d = n * a.d

\* What such a fraction is made of;
LEMMA ReducedIs ==
    ASSUME NEW a \in Reduced
    PROVE  /\ a.n \in Int /\ a.d \in Nat \ {0} /\ a = [n |-> a.n, d |-> a.d]
           /\ \E u, v \in Int : u * a.n + v * a.d = 1
BY DEF Reduced, Coprime

\* it is worth its own numerator over its own denominator.
LEMMA WorthItself ==
    ASSUME NEW a \in Reduced
    PROVE  Worth(a, a.n, a.d)
BY ReducedIs DEF Worth

\* Products cancel.
LEMMA CancelledBy ==
    ASSUME NEW k \in Nat \ {0}, NEW x \in Int, NEW y \in Int, x * k = y * k
    PROVE  x = y
<1>1. k * x = k * y
  OBVIOUS
<1> QED
  BY <1>1, Cancelled

\* One value has one reduced fraction.
LEMMA ReducedUnique ==
    ASSUME NEW a \in Reduced, NEW b \in Reduced, a.n * b.d = b.n * a.d
    PROVE  a = b
<1>1. PICK an, bn \in Int, ad, bd \in Nat \ {0} :
        an = a.n /\ bn = b.n /\ ad = a.d /\ bd = b.d
  BY ReducedIs
<1>2. PICK u, v \in Int : u * an + v * ad = 1
  BY <1>1, ReducedIs
<1>3. PICK x, y \in Int : x * bn + y * bd = 1
  BY <1>1, ReducedIs
<1>4. an * bd = bn * ad
  BY <1>1
<1>5. bd = ad * (u * bn + v * bd)
  <2>1. bd = (u * an + v * ad) * bd
    BY <1>2
  <2>2. (u * an + v * ad) * bd = u * (an * bd) + v * ad * bd
    OBVIOUS
  <2>3. u * (an * bd) = u * (bn * ad)
    BY <1>4
  <2>4. u * (bn * ad) + v * ad * bd = ad * (u * bn + v * bd)
    OBVIOUS
  <2> QED
    BY <2>1, <2>2, <2>3, <2>4
<1>6. ad = bd * (x * an + y * ad)
  <2>1. ad = (x * bn + y * bd) * ad
    BY <1>3
  <2>2. (x * bn + y * bd) * ad = x * (bn * ad) + y * bd * ad
    OBVIOUS
  <2>3. x * (bn * ad) = x * (an * bd)
    BY <1>4
  <2>4. x * (an * bd) + y * bd * ad = bd * (x * an + y * ad)
    OBVIOUS
  <2> QED
    BY <2>1, <2>2, <2>3, <2>4
<1>7. ad = bd
  <2>1. PICK s, t \in Int : s = u * bn + v * bd /\ t = x * an + y * ad
    OBVIOUS
  <2>2. bd = ad * s /\ ad = bd * t
    BY <1>5, <1>6, <2>1
  <2>3. s > 0 /\ t > 0
    <3>1. ASSUME s <= 0 PROVE FALSE
      <4>1. ad * (-s) >= 0
        BY <3>1
      <4>2. ad * (-s) = -(ad * s)
        OBVIOUS
      <4> QED
        BY <2>2, <4>1, <4>2
    <3>2. ASSUME t <= 0 PROVE FALSE
      <4>1. bd * (-t) >= 0
        BY <3>2
      <4>2. bd * (-t) = -(bd * t)
        OBVIOUS
      <4> QED
        BY <2>2, <4>1, <4>2
    <3> QED
      BY <3>1, <3>2
  <2>4. ad <= bd
    <3>1. ad * (s - 1) >= 0
      BY <2>3
    <3>2. ad * (s - 1) = ad * s - ad
      OBVIOUS
    <3> QED
      BY <2>2, <3>1, <3>2
  <2>5. bd <= ad
    <3>1. bd * (t - 1) >= 0
      BY <2>3
    <3>2. bd * (t - 1) = bd * t - bd
      OBVIOUS
    <3> QED
      BY <2>2, <3>1, <3>2
  <2> QED
    BY <2>4, <2>5
<1>8. an = bn
  BY <1>4, <1>7, CancelledBy
<1> QED
  BY <1>1, <1>7, <1>8, ReducedIs

\* What is worth the same is the same.
LEMMA WorthSame ==
    ASSUME NEW a, NEW b, NEW n, NEW d, NEW m, NEW e,
           Worth(a, n, d), Worth(b, m, e), n * e = m * d
    PROVE  a = b
<1>1. PICK an, bn \in Int, ad, bd \in Nat \ {0} :
        an = a.n /\ bn = b.n /\ ad = a.d /\ bd = b.d
  BY ReducedIs DEF Worth
<1>2. /\ an * d = n * ad /\ bn * e = m * bd /\ n \in Int /\ m \in Int
      /\ d \in Nat \ {0} /\ e \in Nat \ {0}
  BY <1>1 DEF Worth
<1>3. (an * bd) * (d * e) = (bn * ad) * (d * e)
  <2>1. (an * bd) * (d * e) = (an * d) * (bd * e)
    BY <1>2
  <2>2. (an * d) * (bd * e) = (n * ad) * (bd * e)
    BY <1>2
  <2>3. (n * ad) * (bd * e) = (n * e) * (ad * bd)
    BY <1>2
  <2>4. (n * e) * (ad * bd) = (m * d) * (ad * bd)
    OBVIOUS
  <2>5. (m * d) * (ad * bd) = (m * bd) * (ad * d)
    BY <1>2
  <2>6. (m * bd) * (ad * d) = (bn * e) * (ad * d)
    BY <1>2
  <2>7. (bn * e) * (ad * d) = (bn * ad) * (d * e)
    BY <1>2
  <2> QED
    BY <2>1, <2>2, <2>3, <2>4, <2>5, <2>6, <2>7
<1>4. d * e \in Nat \ {0}
  BY <1>2
<1>5. an * bd = bn * ad
  <2>1. an * bd \in Int /\ bn * ad \in Int
    OBVIOUS
  <2> QED
    BY <1>3, <1>4, <2>1, CancelledBy
<1>6. a \in Reduced /\ b \in Reduced
  BY DEF Worth
<1> QED
  BY <1>1, <1>5, <1>6, ReducedUnique

\* A fraction may be widened or shortened.
LEMMA WorthScaled ==
    ASSUME NEW a, NEW n, NEW d, NEW m \in Int, NEW e \in Nat \ {0},
           Worth(a, n, d), n * e = m * d
    PROVE  Worth(a, m, e)
<1>1. PICK an \in Int, ad \in Nat \ {0} : an = a.n /\ ad = a.d
  BY ReducedIs DEF Worth
<1>2. an * d = n * ad /\ n \in Int /\ d \in Nat \ {0}
  BY <1>1 DEF Worth
<1>3. (an * e) * d = (m * ad) * d
  <2>1. (an * e) * d = (an * d) * e
    BY <1>2
  <2>2. (an * d) * e = (n * ad) * e
    BY <1>2
  <2>3. (n * ad) * e = (n * e) * ad
    BY <1>2
  <2>4. (n * e) * ad = (m * d) * ad
    OBVIOUS
  <2>5. (m * d) * ad = (m * ad) * d
    BY <1>2
  <2> QED
    BY <2>1, <2>2, <2>3, <2>4, <2>5
<1>4. an * e = m * ad
  <2>1. an * e \in Int /\ m * ad \in Int
    OBVIOUS
  <2> QED
    BY <1>2, <1>3, <2>1, CancelledBy
<1> QED
  BY <1>1, <1>4 DEF Worth

\* Ratio reduces, and keeps the worth.
LEMMA RatioIs ==
    ASSUME NEW n \in Int, NEW d \in Nat \ {0}
    PROVE  Worth(Ratio(n, d), n, d)
<1>1. PICK k \in Nat \ {0} : k = Common(n, d)
  BY CommonMeasures DEF Measures
<1>2. PICK x, y, u, v \in Int : n = k * x /\ d = k * y /\ u * n + v * d = k
  <2>1. Measures(k, n, d)
    BY <1>1, CommonMeasures
  <2> QED
    BY <2>1 DEF Measures
<1>3. n \div k = x /\ d \div k = y
  BY <1>2, MultipleDivided
<1>4. y > 0
  <2>1. ASSUME y <= 0 PROVE FALSE
    <3>1. k * (-y) >= 0
      BY <2>1
    <3>2. k * (-y) = -(k * y)
      OBVIOUS
    <3> QED
      BY <1>2, <3>1, <3>2
  <2> QED
    BY <2>1
<1>5. u * x + v * y = 1
  <2>1. (u * x + v * y) * k = 1 * k
    <3>1. (u * x + v * y) * k = u * (k * x) + v * (k * y)
      OBVIOUS
    <3>2. u * (k * x) + v * (k * y) = u * n + v * d
      BY <1>2
    <3> QED
      BY <1>2, <3>1, <3>2
  <2>2. u * x + v * y \in Int /\ 1 \in Int
    OBVIOUS
  <2> QED
    BY <2>1, <2>2, CancelledBy
<1>6. Ratio(n, d) = [n |-> x, d |-> y]
  BY <1>1, <1>3, Zenon DEF Ratio
<1>7. [n |-> x, d |-> y] \in Reduced
  <2>1. [n |-> x, d |-> y] \in [n : Int, d : Nat \ {0}]
    BY <1>4
  <2> QED
    BY <1>5, <2>1 DEF Reduced, Coprime
<1>8. x * d = n * y
  BY <1>2
<1> QED
  BY <1>6, <1>7, <1>8 DEF Worth

\* Sums,
LEMMA PlusWorth ==
    ASSUME NEW a, NEW b, NEW n, NEW d, NEW m, NEW e, Worth(a, n, d), Worth(b, m, e)
    PROVE  Worth(Plus(a, b), n * e + m * d, d * e)
<1>1. PICK an, bn \in Int, ad, bd \in Nat \ {0} :
        an = a.n /\ bn = b.n /\ ad = a.d /\ bd = b.d
  BY ReducedIs DEF Worth
<1>2. /\ an * d = n * ad /\ bn * e = m * bd /\ n \in Int /\ m \in Int
      /\ d \in Nat \ {0} /\ e \in Nat \ {0}
  BY <1>1 DEF Worth
<1>3. PICK k \in Nat \ {0} : k = Common(ad, bd) /\ Measures(k, ad, bd)
  <2>1. Measures(Common(ad, bd), ad, bd)
    BY CommonMeasures
  <2>2. Common(ad, bd) \in Nat \ {0}
    BY <2>1 DEF Measures
  <2> QED
    BY <2>1, <2>2
<1>4. PICK x, y \in Int : ad = k * x /\ bd = k * y
  BY <1>3 DEF Measures
<1>5. y > 0
  <2>1. ASSUME y <= 0 PROVE FALSE
    <3>1. k * (-y) >= 0
      BY <2>1
    <3>2. k * (-y) = -(k * y)
      OBVIOUS
    <3> QED
      BY <1>4, <3>1, <3>2
  <2> QED
    BY <2>1
<1>6. Plus(a, b) = Ratio(an * y + bn * x, ad * y)
  <2>1. ad \div k = x /\ bd \div k = y
    BY <1>4, MultipleDivided
  <2> QED
    BY <1>1, <1>3, <2>1, Zenon DEF Plus
<1>7. an * y + bn * x \in Int /\ ad * y \in Nat \ {0}
  BY <1>5
<1>8. Worth(Plus(a, b), an * y + bn * x, ad * y)
  BY <1>6, <1>7, RatioIs
<1>9. (an * y + bn * x) * (d * e) = (n * e + m * d) * (ad * y)
  <2>1. (an * y + bn * x) * (d * e) = (an * d) * (y * e) + (bn * e) * (x * d)
    BY <1>2
  <2>2. (an * d) * (y * e) = (n * ad) * (y * e) /\ (bn * e) * (x * d) = (m * bd) * (x * d)
    BY <1>2
  <2>3. (m * bd) * (x * d) = (m * d) * (ad * y)
    <3>1. (m * bd) * (x * d) = (m * (k * y)) * (x * d)
      BY <1>4
    <3>2. (m * (k * y)) * (x * d) = (m * d) * ((k * x) * y)
      BY <1>2
    <3> QED
      BY <1>4, <3>1, <3>2
  <2>4. (n * ad) * (y * e) = (n * e) * (ad * y)
    BY <1>2
  <2>5. (n * e) * (ad * y) + (m * d) * (ad * y) = (n * e + m * d) * (ad * y)
    BY <1>2
  <2> QED
    BY <2>1, <2>2, <2>3, <2>4, <2>5
<1>10. n * e + m * d \in Int /\ d * e \in Nat \ {0}
  BY <1>2
<1> HIDE DEF Plus
<1> QED
  BY <1>8, <1>9, <1>10, WorthScaled

\* differences,
LEMMA MinusWorth ==
    ASSUME NEW a, NEW b, NEW n, NEW d, NEW m, NEW e, Worth(a, n, d), Worth(b, m, e)
    PROVE  Worth(Minus(a, b), n * e - m * d, d * e)
<1> DEFINE c == [b EXCEPT !.n = -b.n]
<1>1. /\ n \in Int /\ d \in Nat \ {0} /\ m \in Int /\ e \in Nat \ {0} /\ b \in Reduced
      /\ b.n * e = m * b.d
  BY DEF Worth
<1>2. b.n \in Int /\ b.d \in Nat \ {0} /\ b = [n |-> b.n, d |-> b.d]
  BY <1>1, ReducedIs
<1>3. c = [n |-> -b.n, d |-> b.d]
  BY <1>2
<1>4. c \in Reduced
  <2>1. PICK u, v \in Int : u * b.n + v * b.d = 1
    BY <1>1, ReducedIs
  <2>2. (-u) * (-b.n) + v * b.d = 1
    <3>1. (-u) * (-b.n) = u * b.n
      BY <1>2
    <3> QED
      BY <2>1, <3>1
  <2>3. -u \in Int
    OBVIOUS
  <2>4. c \in [n : Int, d : Nat \ {0}] /\ c.n = -b.n /\ c.d = b.d
    BY <1>2, <1>3
  <2> HIDE DEF c
  <2> QED
    BY <2>2, <2>3, <2>4 DEF Reduced, Coprime
<1>5. c.n * e = (-m) * c.d
  <2>1. c.n = -b.n /\ c.d = b.d
    BY <1>3
  <2>2. (-b.n) * e = -(b.n * e) /\ (-m) * b.d = -(m * b.d)
    BY <1>1, <1>2
  <2> QED
    BY <1>1, <2>1, <2>2
<1>6. Worth(c, -m, e)
  <2>1. -m \in Int
    BY <1>1
  <2> HIDE DEF c
  <2> QED
    BY <1>1, <1>4, <1>5, <2>1 DEF Worth
<1>7. Minus(a, b) = Plus(a, c)
  BY DEF Minus
<1> HIDE DEF c
<1>8. Worth(Plus(a, c), n * e + (-m) * d, d * e)
  BY <1>6, PlusWorth
<1>9. n * e + (-m) * d = n * e - m * d
  BY <1>1
<1> QED
  BY <1>7, <1>8, <1>9

\* (a number coprime to two is coprime to their product,
LEMMA CoprimeProduct ==
    ASSUME NEW x \in Int, NEW y \in Int, NEW z \in Int, Coprime(x, y), Coprime(x, z)
    PROVE  Coprime(x, y * z)
<1>1. PICK s, t \in Int : s * x + t * y = 1
  BY DEF Coprime
<1>2. PICK u, v \in Int : u * x + v * z = 1
  BY DEF Coprime
<1>3. (s * x + t * y) * (u * x + v * z) = (s * x * u + s * v * z + t * y * u) * x + (t * v) * (y * z)
  OBVIOUS
<1>4. (s * x * u + s * v * z + t * y * u) * x + (t * v) * (y * z) = 1
  BY <1>1, <1>2, <1>3
<1>5. s * x * u + s * v * z + t * y * u \in Int /\ t * v \in Int
  OBVIOUS
<1> QED
  BY <1>4, <1>5 DEF Coprime

\* in either order)
LEMMA CoprimeTurned ==
    ASSUME NEW x \in Int, NEW y \in Int, Coprime(x, y)
    PROVE  Coprime(y, x)
<1>1. PICK s, t \in Int : s * x + t * y = 1
  BY DEF Coprime
<1>2. t * y + s * x = 1
  BY <1>1
<1> QED
  BY <1>2 DEF Coprime

\* What is left when the common part is divided out.
LEMMA CommonParts ==
    ASSUME NEW a \in Int, NEW b \in Nat \ {0}
    PROVE  \E k \in Nat \ {0}, x \in Int, y \in Nat \ {0} :
             /\ k = Common(a, b) /\ a = k * x /\ b = k * y /\ Coprime(x, y)
             /\ a \div k = x /\ b \div k = y
<1>1. PICK k \in Nat \ {0} : k = Common(a, b) /\ Measures(k, a, b)
  <2>1. Measures(Common(a, b), a, b)
    BY CommonMeasures
  <2>2. Common(a, b) \in Nat \ {0}
    BY <2>1 DEF Measures
  <2> QED
    BY <2>1, <2>2
<1>2. PICK x, y, u, v \in Int : a = k * x /\ b = k * y /\ u * a + v * b = k
  BY <1>1 DEF Measures
<1>3. y \in Nat \ {0}
  <2>1. ASSUME y <= 0 PROVE FALSE
    <3>1. k * (-y) >= 0
      BY <2>1
    <3>2. k * (-y) = -(k * y)
      OBVIOUS
    <3> QED
      BY <1>2, <3>1, <3>2
  <2> QED
    BY <2>1
<1>4. u * x + v * y = 1
  <2>1. (u * x + v * y) * k = 1 * k
    <3>1. (u * x + v * y) * k = u * (k * x) + v * (k * y)
      OBVIOUS
    <3>2. u * (k * x) + v * (k * y) = u * a + v * b
      BY <1>2
    <3> QED
      BY <1>2, <3>1, <3>2
  <2>2. u * x + v * y \in Int /\ 1 \in Int
    OBVIOUS
  <2> QED
    BY <2>1, <2>2, CancelledBy
<1>5. a \div k = x /\ b \div k = y
  BY <1>2, MultipleDivided
<1>6. Coprime(x, y)
  BY <1>4 DEF Coprime
<1> QED
  BY <1>1, <1>2, <1>3, <1>5, <1>6

\* products
LEMMA TimesWorth ==
    ASSUME NEW a, NEW b, NEW n, NEW d, NEW m, NEW e, Worth(a, n, d), Worth(b, m, e)
    PROVE  Worth(Times(a, b), n * m, d * e)
<1>1. PICK an, bn \in Int, ad, bd \in Nat \ {0} :
        an = a.n /\ bn = b.n /\ ad = a.d /\ bd = b.d
  BY ReducedIs DEF Worth
<1>2. /\ an * d = n * ad /\ bn * e = m * bd /\ n \in Int /\ m \in Int
      /\ d \in Nat \ {0} /\ e \in Nat \ {0}
  BY <1>1 DEF Worth
<1>3. PICK k \in Nat \ {0}, x \in Int, y \in Nat \ {0} :
        /\ k = Common(an, bd) /\ an = k * x /\ bd = k * y /\ Coprime(x, y)
        /\ an \div k = x /\ bd \div k = y
  BY CommonParts
<1>4. PICK l \in Nat \ {0}, w \in Int, z \in Nat \ {0} :
        /\ l = Common(bn, ad) /\ bn = l * w /\ ad = l * z /\ Coprime(w, z)
        /\ bn \div l = w /\ ad \div l = z
  BY CommonParts
<1>5. Times(a, b) = [n |-> x * w, d |-> z * y]
  BY <1>1, <1>3, <1>4, Zenon DEF Times
<1>6. Coprime(x, z)
  <2>1. PICK u, v \in Int : u * an + v * ad = 1
    BY <1>1, ReducedIs DEF Worth
  <2>2. (u * k) * x + (v * l) * z = u * (k * x) + v * (l * z)
    OBVIOUS
  <2>3. (u * k) * x + (v * l) * z = 1
    BY <1>3, <1>4, <2>1, <2>2
  <2>4. u * k \in Int /\ v * l \in Int
    OBVIOUS
  <2> QED
    BY <2>3, <2>4 DEF Coprime
<1>7. Coprime(w, y)
  <2>1. PICK u, v \in Int : u * bn + v * bd = 1
    BY <1>1, ReducedIs DEF Worth
  <2>2. (u * l) * w + (v * k) * y = u * (l * w) + v * (k * y)
    OBVIOUS
  <2>3. (u * l) * w + (v * k) * y = 1
    BY <1>3, <1>4, <2>1, <2>2
  <2>4. u * l \in Int /\ v * k \in Int
    OBVIOUS
  <2> QED
    BY <2>3, <2>4 DEF Coprime
<1>8. Coprime(x * w, z * y)
  <2>1. z * y \in Int /\ x * w \in Int
    OBVIOUS
  <2>2. Coprime(x, z * y) /\ Coprime(w, z * y)
    BY <1>3, <1>4, <1>6, <1>7, CoprimeProduct
  <2>3. Coprime(z * y, x) /\ Coprime(z * y, w)
    BY <2>1, <2>2, CoprimeTurned
  <2>4. Coprime(z * y, x * w)
    BY <2>1, <2>3, CoprimeProduct
  <2> QED
    BY <2>1, <2>4, CoprimeTurned
<1>9. [n |-> x * w, d |-> z * y] \in Reduced
  <2>1. x * w \in Int /\ z * y \in Nat \ {0}
    OBVIOUS
  <2>2. PICK c : c = [n |-> x * w, d |-> z * y]
    OBVIOUS
  <2>3. c \in [n : Int, d : Nat \ {0}] /\ c.n = x * w /\ c.d = z * y
    BY <2>1, <2>2
  <2> QED
    BY <1>8, <2>2, <2>3 DEF Reduced
<1>10. (x * w) * (d * e) = (n * m) * (z * y)
  <2>1. ((x * w) * (d * e)) * (k * l) = ((n * m) * (z * y)) * (k * l)
    <3>1. ((x * w) * (d * e)) * (k * l) = ((k * x) * d) * ((l * w) * e)
      BY <1>2
    <3>2. ((k * x) * d) * ((l * w) * e) = (an * d) * (bn * e)
      BY <1>3, <1>4
    <3>3. (an * d) * (bn * e) = (n * ad) * (m * bd)
      BY <1>2
    <3>4. (n * ad) * (m * bd) = (n * (l * z)) * (m * (k * y))
      BY <1>3, <1>4
    <3>5. (n * (l * z)) * (m * (k * y)) = ((n * m) * (z * y)) * (k * l)
      BY <1>2
    <3> QED
      BY <3>1, <3>2, <3>3, <3>4, <3>5
  <2>2. k * l \in Nat \ {0} /\ (x * w) * (d * e) \in Int /\ (n * m) * (z * y) \in Int
    BY <1>2
  <2> QED
    BY <2>1, <2>2, CancelledBy
<1>11. n * m \in Int /\ d * e \in Nat \ {0}
  BY <1>2
<1> QED
  BY <1>5, <1>9, <1>10, <1>11 DEF Worth

\* and quotients are worth what the fractions of arithmetic are.
LEMMA OverWorth ==
    ASSUME NEW a, NEW b, NEW n, NEW d, NEW m, NEW e, Worth(a, n, d), Worth(b, m, e), m > 0
    PROVE  Worth(Over(a, b), n * e, d * m)
<1>1. /\ m \in Nat \ {0} /\ e \in Nat \ {0} /\ b \in Reduced /\ b.n * e = m * b.d
  BY DEF Worth
<1>2. PICK bn \in Int, bd \in Nat \ {0} : bn = b.n /\ bd = b.d
  BY <1>1, ReducedIs
<1>3. bn * e = m * bd
  BY <1>1, <1>2
<1>4. bn > 0
  <2>1. ASSUME bn <= 0 PROVE FALSE
    <3>1. (-bn) * e >= 0
      BY <1>1, <2>1
    <3>2. (-bn) * e = -(bn * e) /\ bn * e \in Int
      BY <1>1
    <3>3. m * bd > 0
      BY <1>1
    <3> QED
      BY <1>3, <3>1, <3>2, <3>3
  <2> QED
    BY <2>1
<1> DEFINE c == [n |-> bd, d |-> bn]
<1>5. c \in Reduced
  <2>1. Coprime(bn, bd)
    BY <1>1, <1>2, ReducedIs DEF Coprime
  <2>2. Coprime(bd, bn)
    BY <2>1, CoprimeTurned
  <2>3. c \in [n : Int, d : Nat \ {0}] /\ c.n = bd /\ c.d = bn
    BY <1>4
  <2> HIDE DEF c
  <2> QED
    BY <2>2, <2>3 DEF Reduced
<1>6. Worth(c, e, m)
  <2>1. bd * m = e * bn
    <3>1. bd * m = m * bd /\ e * bn = bn * e
      BY <1>1
    <3> QED
      BY <1>3, <3>1
  <2>2. c.n = bd /\ c.d = bn /\ e \in Int
    BY <1>1
  <2> HIDE DEF c
  <2> QED
    BY <1>1, <1>5, <2>1, <2>2 DEF Worth
<1>7. Over(a, b) = Times(a, c)
  BY <1>2 DEF Over
<1> HIDE DEF c
<1> QED
  BY <1>6, <1>7, TimesWorth

\* A whole number as a fraction.
LEMMA WholesAre ==
    ASSUME NEW n \in Int
    PROVE  Worth(Ratio(n, 1), n, 1) /\ Ratio(n, 1) \in Reduced
BY RatioIs DEF Worth

\* Once a fraction is that fraction.
LEMMA TimesOne ==
    ASSUME NEW a \in Reduced
    PROVE  Times(a, Ratio(1, 1)) = a
<1>1. PICK n \in Int, d \in Nat \ {0} : Worth(a, n, d)
  BY WorthItself, ReducedIs
<1>2. Worth(Times(a, Ratio(1, 1)), n * 1, d * 1)
  BY <1>1, WholesAre, TimesWorth
<1>3. (n * 1) * d = n * (d * 1)
  OBVIOUS
<1> QED
  BY <1>1, <1>2, <1>3, WorthSame

\* The operations stay within lowest terms.
LEMMA ReducedClosed ==
    ASSUME NEW a \in Reduced, NEW b \in Reduced
    PROVE  Plus(a, b) \in Reduced /\ Minus(a, b) \in Reduced /\ Times(a, b) \in Reduced
<1>1. Worth(a, a.n, a.d) /\ Worth(b, b.n, b.d)
  BY WorthItself
<1>2. /\ Worth(Plus(a, b), a.n * b.d + b.n * a.d, a.d * b.d)
      /\ Worth(Minus(a, b), a.n * b.d - b.n * a.d, a.d * b.d)
      /\ Worth(Times(a, b), a.n * b.n, a.d * b.d)
  BY <1>1, PlusWorth, MinusWorth, TimesWorth, Zenon
<1> QED
  BY <1>2, Zenon DEF Worth

\* A factor of every term is a factor of the sum.
LEMMA TimesPlus ==
    ASSUME NEW k \in Reduced, NEW a \in Reduced, NEW x \in Reduced, NEW c \in Reduced
    PROVE  Plus(Times(k, a), Times(Times(k, x), c)) = Times(k, Plus(a, Times(x, c)))
<1>1. PICK kn, an, xn, cn \in Int, kd, ad, xd, cd \in Nat \ {0} :
        Worth(k, kn, kd) /\ Worth(a, an, ad) /\ Worth(x, xn, xd) /\ Worth(c, cn, cd)
  <2>1. /\ k.n \in Int /\ a.n \in Int /\ x.n \in Int /\ c.n \in Int
        /\ k.d \in Nat \ {0} /\ a.d \in Nat \ {0} /\ x.d \in Nat \ {0} /\ c.d \in Nat \ {0}
    BY ReducedIs
  <2>2. Worth(k, k.n, k.d) /\ Worth(a, a.n, a.d) /\ Worth(x, x.n, x.d) /\ Worth(c, c.n, c.d)
    BY WorthItself
  <2> QED
    BY <2>1, <2>2, Zenon
<1>2. Worth(Times(k, a), kn * an, kd * ad) /\ Worth(Times(k, x), kn * xn, kd * xd)
  BY <1>1, TimesWorth, Zenon
<1>3. Worth(Times(Times(k, x), c), (kn * xn) * cn, (kd * xd) * cd)
  BY <1>1, <1>2, TimesWorth, Zenon
<1>4. Worth(Plus(Times(k, a), Times(Times(k, x), c)),
            (kn * an) * ((kd * xd) * cd) + ((kn * xn) * cn) * (kd * ad),
            (kd * ad) * ((kd * xd) * cd))
  BY <1>2, <1>3, PlusWorth, Zenon
<1>5. Worth(Times(x, c), xn * cn, xd * cd)
  BY <1>1, TimesWorth, Zenon
<1>6. Worth(Plus(a, Times(x, c)), an * (xd * cd) + (xn * cn) * ad, ad * (xd * cd))
  BY <1>1, <1>5, PlusWorth, Zenon
<1>7. Worth(Times(k, Plus(a, Times(x, c))),
            kn * (an * (xd * cd) + (xn * cn) * ad), kd * (ad * (xd * cd)))
  BY <1>1, <1>6, TimesWorth, Zenon
<1>8. ((kn * an) * ((kd * xd) * cd) + ((kn * xn) * cn) * (kd * ad)) * (kd * (ad * (xd * cd)))
        = (kn * (an * (xd * cd) + (xn * cn) * ad)) * ((kd * ad) * ((kd * xd) * cd))
  OBVIOUS
<1> QED
  BY <1>4, <1>7, <1>8, WorthSame, Zenon

\* u adds up f, as SumUpTo does.
Accrues(u, f, L) ==
    /\ u \in [Nat -> Reduced] /\ u[0] = Ratio(0, 1)
    /\ \A n \in 0..(L - 1) : u[n + 1] = Plus(u[n], f[n + 1])

\* as the recursion inside SumOf defines them:
Accrual(h, f, L) == h = [n \in 0..L |-> IF n = 0 THEN Ratio(0, 1) ELSE Plus(h[n - 1], f[n])]

\* that recursion ends on the last of them.
LEMMA AccrualIs ==
    ASSUME NEW L \in Nat, NEW f, NEW u, Accrues(u, f, L)
    PROVE  (\E h : Accrual(h, f, L)) /\ \A h : Accrual(h, f, L) => h[L] = u[L]
<1>1. u[0] = Ratio(0, 1) /\ \A n \in 0..(L - 1) : u[n + 1] = Plus(u[n], f[n + 1])
  BY DEF Accrues
<1>2. \E h : Accrual(h, f, L)
  <2> DEFINE h == [n \in 0..L |-> u[n]]
  <2>1. ASSUME NEW n \in 0..L
        PROVE  h[n] = IF n = 0 THEN Ratio(0, 1) ELSE Plus(h[n - 1], f[n])
    <3>1. CASE n = 0
      BY <1>1, <3>1
    <3>2. CASE n # 0
      <4>1. n - 1 \in 0..(L - 1) /\ n - 1 \in 0..L /\ (n - 1) + 1 = n
        BY <3>2
      <4>2. u[(n - 1) + 1] = Plus(u[n - 1], f[(n - 1) + 1])
        BY <1>1, <4>1
      <4>3. h[n - 1] = u[n - 1] /\ h[n] = u[n]
        BY <4>1
      <4>4. h[n] = Plus(h[n - 1], f[n])
        BY <4>1, <4>2, <4>3
      <4> HIDE DEF h
      <4> QED
        BY <3>2, <4>4
    <3> QED
      BY <3>1, <3>2
  <2>2. h = [n \in 0..L |-> h[n]]
    OBVIOUS
  <2> HIDE DEF h
  <2>3. Accrual(h, f, L)
    BY <2>1, <2>2, Zenon DEF Accrual
  <2> QED
    BY <2>3
<1>3. ASSUME NEW h, Accrual(h, f, L) PROVE h[L] = u[L]
  <2> DEFINE A == {n \in Nat : h[n] = u[n]}
  <2>1. ASSUME NEW n \in 0..L
        PROVE  h[n] = IF n = 0 THEN Ratio(0, 1) ELSE Plus(h[n - 1], f[n])
    BY <1>3, Zenon DEF Accrual
  <2>2. 0 \in A
    <3>1. 0 \in 0..L
      OBVIOUS
    <3>2. h[0] = Ratio(0, 1)
      BY <2>1, <3>1
    <3> QED
      BY <1>1, <3>2
  <2>3. ASSUME NEW n \in 0..(L - 1), n \in A PROVE n + 1 \in A
    <3>1. n + 1 \in 0..L /\ n + 1 # 0 /\ (n + 1) - 1 = n /\ n + 1 \in Nat
      OBVIOUS
    <3>2. h[n + 1] = Plus(h[n], f[n + 1])
      BY <2>1, <3>1
    <3>3. h[n] = u[n]
      BY <2>3
    <3>4. h[n + 1] = u[n + 1]
      BY <1>1, <3>2, <3>3
    <3> QED
      BY <3>1, <3>4
  <2>4. \A n \in 0..L : n \in A
    <3> HIDE DEF A
    <3> QED
      BY <2>2, <2>3, CountUp
  <2>5. L \in 0..L
    OBVIOUS
  <2> QED
    BY <2>4, <2>5
<1> QED
  BY <1>2, <1>3

\* x, weighed by c, makes a.
Weighs(x, c, L, a) ==
    \E u : Accrues(u, [n \in 1..L |-> Times(x[n], c[n])], L) /\ u[L] = a

\* Of no products it is zero,
LEMMA WeighsNothing ==
    ASSUME NEW x, NEW c
    PROVE  Weighs(x, c, 0, Ratio(0, 1))
<1> DEFINE u == [n \in Nat |-> Ratio(0, 1)]
<1>1. u \in [Nat -> Reduced]
  BY WholesAre
<1>2. u[0] = Ratio(0, 1) /\ 0..(0 - 1) = {}
  OBVIOUS
<1> HIDE DEF u
<1> QED
  BY <1>1, <1>2 DEF Weighs, Accrues

\* it scales with one side,
LEMMA WeighsScaled ==
    ASSUME NEW L \in Nat, NEW x, NEW y, NEW c, NEW a, NEW k \in Reduced, Weighs(x, c, L, a),
           \A n \in 1..L : x[n] \in Reduced /\ c[n] \in Reduced /\ y[n] = Times(k, x[n])
    PROVE  Weighs(y, c, L, Times(k, a))
<1> DEFINE f == [n \in 1..L |-> Times(x[n], c[n])]
           g == [n \in 1..L |-> Times(y[n], c[n])]
<1>1. PICK u : Accrues(u, f, L) /\ u[L] = a
  BY DEF Weighs
<1>2. /\ u \in [Nat -> Reduced] /\ u[0] = Ratio(0, 1)
      /\ \A n \in 0..(L - 1) : u[n + 1] = Plus(u[n], f[n + 1])
  BY <1>1 DEF Accrues
<1> DEFINE w == [n \in Nat |-> Times(k, u[n])]
<1>3. w \in [Nat -> Reduced]
  <2>1. \A n \in Nat : Times(k, u[n]) \in Reduced
    BY <1>2, ReducedClosed
  <2> QED
    BY <2>1
<1>4. w[0] = Ratio(0, 1)
  <2>1. PICK n \in Int, d \in Nat \ {0} : Worth(k, n, d)
    BY WorthItself, ReducedIs
  <2>2. Worth(Ratio(0, 1), 0, 1)
    BY WholesAre, 0 \in Int
  <2>3. Worth(Times(k, Ratio(0, 1)), n * 0, d * 1)
    BY <2>1, <2>2, TimesWorth, Zenon
  <2>4. (n * 0) * 1 = 0 * (d * 1)
    OBVIOUS
  <2>5. Times(k, Ratio(0, 1)) = Ratio(0, 1)
    BY <2>2, <2>3, <2>4, WorthSame, Zenon
  <2> QED
    BY <1>2, <2>5
<1>5. ASSUME NEW n \in 0..(L - 1) PROVE w[n + 1] = Plus(w[n], g[n + 1])
  <2>1. n \in Nat /\ n + 1 \in Nat /\ n + 1 \in 1..L
    OBVIOUS
  <2>2. x[n + 1] \in Reduced /\ c[n + 1] \in Reduced /\ y[n + 1] = Times(k, x[n + 1])
    BY <2>1
  <2>3. u[n + 1] = Plus(u[n], Times(x[n + 1], c[n + 1])) /\ u[n] \in Reduced
    BY <1>2, <2>1
  <2>4. g[n + 1] = Times(Times(k, x[n + 1]), c[n + 1])
    BY <2>1, <2>2
  <2>5. w[n] = Times(k, u[n]) /\ w[n + 1] = Times(k, u[n + 1])
    BY <2>1
  <2> HIDE DEF w, g
  <2>6. Plus(Times(k, u[n]), Times(Times(k, x[n + 1]), c[n + 1]))
          = Times(k, Plus(u[n], Times(x[n + 1], c[n + 1])))
    BY <2>2, <2>3, TimesPlus
  <2> QED
    BY <2>3, <2>4, <2>5, <2>6
<1>6. w[L] = Times(k, a)
  BY <1>1
<1> HIDE DEF w
<1>7. Accrues(w, g, L)
  <2> HIDE DEF g
  <2> QED
    BY <1>3, <1>4, <1>5 DEF Accrues
<1> QED
  BY <1>6, <1>7 DEF Weighs

\* and one more pair adds its product.
LEMMA WeighsAppended ==
    ASSUME NEW L \in Nat, NEW x, NEW y, NEW c, NEW b, NEW a, Weighs(x, c, L, a),
           \A n \in 1..L : y[n] = x[n] /\ b[n] = c[n],
           y[L + 1] \in Reduced, b[L + 1] \in Reduced
    PROVE  Weighs(y, b, L + 1, Plus(a, Times(y[L + 1], b[L + 1])))
<1> DEFINE f == [n \in 1..L |-> Times(x[n], c[n])]
           g == [n \in 1..(L + 1) |-> Times(y[n], b[n])]
           last == Plus(a, Times(y[L + 1], b[L + 1]))
<1>1. PICK u : Accrues(u, f, L) /\ u[L] = a
  BY DEF Weighs
<1>2. /\ u \in [Nat -> Reduced] /\ u[0] = Ratio(0, 1)
      /\ \A n \in 0..(L - 1) : u[n + 1] = Plus(u[n], f[n + 1])
  BY <1>1 DEF Accrues
<1> DEFINE w == [n \in Nat |-> IF n <= L THEN u[n] ELSE last]
<1>3. last \in Reduced
  <2>1. a \in Reduced
    BY <1>1, <1>2
  <2> QED
    BY <2>1, ReducedClosed
<1>4. w \in [Nat -> Reduced] /\ w[0] = Ratio(0, 1)
  <2> HIDE DEF last
  <2> QED
    BY <1>2, <1>3
<1>5. ASSUME NEW n \in 0..((L + 1) - 1) PROVE w[n + 1] = Plus(w[n], g[n + 1])
  <2>1. n \in Nat /\ n + 1 \in Nat /\ n + 1 \in 1..(L + 1) /\ n <= L
    OBVIOUS
  <2>2. CASE n < L
    <3>1. n \in 0..(L - 1) /\ n + 1 \in 1..L /\ n + 1 <= L
      BY <2>1, <2>2
    <3>2. g[n + 1] = Times(y[n + 1], b[n + 1]) /\ f[n + 1] = Times(x[n + 1], c[n + 1])
      BY <2>1, <3>1
    <3>3. g[n + 1] = f[n + 1]
      BY <3>1, <3>2
    <3>4. w[n] = u[n] /\ w[n + 1] = u[n + 1]
      BY <2>1, <3>1
    <3> HIDE DEF w, g, f
    <3> QED
      BY <1>2, <3>1, <3>3, <3>4
  <2>3. CASE n = L
    <3>1. w[n] = a /\ w[n + 1] = last
      BY <1>1, <2>1, <2>3
    <3>2. g[n + 1] = Times(y[L + 1], b[L + 1])
      BY <2>1, <2>3
    <3> HIDE DEF w, g
    <3> QED
      BY <3>1, <3>2
  <2> QED
    BY <2>1, <2>2, <2>3
<1>6. w[L + 1] = last
  OBVIOUS
<1> HIDE DEF w, last
<1>7. Accrues(w, g, L + 1)
  <2> HIDE DEF g
  <2> QED
    BY <1>4, <1>5 DEF Accrues
<1>8. L + 1 \in Nat
  OBVIOUS
<1> QED
  BY <1>6, <1>7 DEF Weighs, last

\* The sum of s[1..L] is a.
SumsTo(s, L, a) == \E u : Accrues(u, s, L) /\ u[L] = a

\* is the sum,
LEMMA SumOfIs ==
    ASSUME NEW L \in Nat, NEW s, NEW a, SumsTo(s, L, a)
    PROVE  SumOf(s, L) = a /\ a \in Reduced
<1> DEFINE B(h) == h = [k \in 0..L |-> IF k = 0 THEN Ratio(0, 1) ELSE Plus(h[k - 1], s[k])]
<1>1. PICK u : Accrues(u, s, L) /\ u[L] = a
  BY DEF SumsTo
<1>2. (\E h : Accrual(h, s, L)) /\ \A h : Accrual(h, s, L) => h[L] = u[L]
  BY <1>1, AccrualIs
<1>3. SumOf(s, L) = (CHOOSE h : B(h))[L]
  BY Zenon DEF SumOf
<1>4. \A h : B(h) <=> Accrual(h, s, L)
  BY Zenon DEF Accrual
<1> HIDE DEF B
<1>5. B(CHOOSE h : B(h))
  <2>1. \E h : B(h)
    BY <1>2, <1>4, Zenon
  <2> QED
    BY <2>1, Zenon
<1>6. SumOf(s, L) = a
  BY <1>1, <1>2, <1>3, <1>4, <1>5
<1>7. a \in Reduced
  BY <1>1 DEF Accrues
<1> QED
  BY <1>6, <1>7

\* and there is one.
LEMMA SumOfExists ==
    ASSUME NEW L \in Nat, NEW s, \A n \in 1..L : s[n] \in Reduced
    PROVE  SumsTo(s, L, SumOf(s, L)) /\ SumOf(s, L) \in Reduced
<1> DEFINE next(n, a) == IF n < L THEN Plus(a, s[n + 1]) ELSE a
           step == [q \in Nat \X Reduced |-> next(q[1], q[2])]
<1>1. ASSUME NEW n \in Nat, NEW a \in Reduced
      PROVE  next(n, a) \in Reduced
  <2>1. CASE n < L
    <3>1. n + 1 \in 1..L
      BY <2>1
    <3>2. Plus(a, s[n + 1]) \in Reduced
      BY <3>1, ReducedClosed
    <3> QED
      BY <2>1, <3>2
  <2>2. CASE ~(n < L)
    BY <2>2
  <2> QED
    BY <2>1, <2>2
<1>2. step \in [Nat \X Reduced -> Reduced]
  <2> HIDE DEF next
  <2>1. \A q \in Nat \X Reduced : next(q[1], q[2]) \in Reduced
    BY <1>1
  <2> QED
    BY <2>1
<1>3. \A n \in Nat, a \in Reduced : step[<<n, a>>] = next(n, a)
  <2> HIDE DEF next
  <2> QED
    OBVIOUS
<1> HIDE DEF step
<1>4. Ratio(0, 1) \in Reduced
  BY WholesAre, 0 \in Int
<1>5. PICK u \in [Nat -> Reduced] : u[0] = Ratio(0, 1) /\ \A n \in Nat : u[n + 1] = step[<<n, u[n]>>]
  <2>1. Follows(Reduced, Ratio(0, 1), step)
    BY <1>2, <1>4, RecursionOverNat
  <2> QED
    BY <2>1 DEF Follows
<1>6. ASSUME NEW n \in 0..(L - 1) PROVE u[n + 1] = Plus(u[n], s[n + 1])
  <2>1. n \in Nat /\ n < L /\ u[n] \in Reduced
    OBVIOUS
  <2>2. u[n + 1] = next(n, u[n])
    BY <1>3, <1>5, <2>1
  <2> QED
    BY <2>1, <2>2
<1>7. Accrues(u, s, L)
  BY <1>5, <1>6, Zenon DEF Accrues
<1>8. SumsTo(s, L, u[L])
  BY <1>7, Zenon DEF SumsTo
<1> QED
  BY <1>8, SumOfIs


\* The order of fractions, by the numerators over a common denominator.
NotAbove(a, b) == a.n * b.d <= b.n * a.d

\* A positive factor keeps the order.
LEMMA MultiplesOrdered ==
    ASSUME NEW k \in Nat \ {0}, NEW x \in Int, NEW y \in Int
    PROVE  k * x <= k * y <=> x <= y
<1>1. ASSUME x <= y PROVE k * x <= k * y
  BY <1>1, ProductRises
<1>2. ASSUME x > y PROVE k * x > k * y
  <2>1. k * (x - y) > 0
    BY <1>2
  <2>2. k * (x - y) = k * x - k * y /\ k * x \in Int /\ k * y \in Int
    OBVIOUS
  <2> QED
    BY <2>1, <2>2
<1>3. k * x \in Int /\ k * y \in Int
  OBVIOUS
<1> QED
  BY <1>1, <1>2, <1>3

\* The order is that of the worths,
LEMMA NotAboveIs ==
    ASSUME NEW a, NEW b, NEW n, NEW d, NEW m, NEW e, Worth(a, n, d), Worth(b, m, e)
    PROVE  NotAbove(a, b) <=> n * e <= m * d
<1>1. PICK an \in Int, bn \in Int, ad \in Nat \ {0}, bd \in Nat \ {0} :
        an = a.n /\ bn = b.n /\ ad = a.d /\ bd = b.d
  BY ReducedIs DEF Worth
<1>2. /\ an * d = n * ad /\ bn * e = m * bd
      /\ n \in Int /\ m \in Int /\ d \in Nat \ {0} /\ e \in Nat \ {0}
  BY <1>1 DEF Worth
<1>3. PICK k \in Nat \ {0}, l \in Nat \ {0} : k = d * e /\ l = ad * bd
  <2>1. d * e \in Nat \ {0} /\ ad * bd \in Nat \ {0}
    BY <1>2
  <2> QED
    BY <2>1
<1>4. PICK x \in Int, y \in Int, z \in Int, w \in Int :
        x = an * bd /\ y = bn * ad /\ z = n * e /\ w = m * d
  BY <1>2
<1>5. k * x = l * z
  <2>1. k * x = (an * d) * (bd * e)
    BY <1>2, <1>3, <1>4
  <2>2. (an * d) * (bd * e) = (n * ad) * (bd * e)
    BY <1>2
  <2>3. (n * ad) * (bd * e) = l * z
    BY <1>2, <1>3, <1>4
  <2> QED
    BY <2>1, <2>2, <2>3
<1>6. k * y = l * w
  <2>1. k * y = (bn * e) * (ad * d)
    BY <1>2, <1>3, <1>4
  <2>2. (bn * e) * (ad * d) = (m * bd) * (ad * d)
    BY <1>2
  <2>3. (m * bd) * (ad * d) = l * w
    BY <1>2, <1>3, <1>4
  <2> QED
    BY <2>1, <2>2, <2>3
<1>7. (k * x <= k * y <=> x <= y) /\ (l * z <= l * w <=> z <= w)
  BY MultiplesOrdered
<1>8. x <= y <=> z <= w
  BY <1>5, <1>6, <1>7
<1>9. NotAbove(a, b) <=> x <= y
  BY <1>1, <1>4 DEF NotAbove
<1> QED
  BY <1>4, <1>8, <1>9

\* and so is the sign.
LEMMA SignIs ==
    ASSUME NEW a, NEW n, NEW d, Worth(a, n, d)
    PROVE  (a.n > 0 <=> n > 0) /\ (a.n >= 0 <=> n >= 0) /\ (a.n = 0 <=> n = 0)
<1>1. PICK an \in Int, ad \in Nat \ {0} : an = a.n /\ ad = a.d
  BY ReducedIs DEF Worth
<1>2. an * d = n * ad /\ n \in Int /\ d \in Nat \ {0}
  BY <1>1 DEF Worth
<1>3. \A x \in Int, k \in Nat \ {0} : (x * k > 0 <=> x > 0) /\ (x * k >= 0 <=> x >= 0) /\ (x * k = 0 <=> x = 0)
  <2> SUFFICES ASSUME NEW x \in Int, NEW k \in Nat \ {0}
               PROVE  (x * k > 0 <=> x > 0) /\ (x * k >= 0 <=> x >= 0) /\ (x * k = 0 <=> x = 0)
    OBVIOUS
  <2>1. CASE x > 0
    <3>1. x * k > 0
      BY <2>1
    <3> QED
      BY <2>1, <3>1
  <2>2. CASE x = 0
    BY <2>2
  <2>3. CASE x < 0
    <3>1. (-x) * k > 0
      BY <2>3
    <3>2. (-x) * k = -(x * k) /\ x * k \in Int
      OBVIOUS
    <3>3. x * k < 0
      BY <3>1, <3>2
    <3> QED
      BY <2>3, <3>3
  <2> QED
    BY <2>1, <2>2, <2>3
<1>4. (an * d > 0 <=> an > 0) /\ (an * d >= 0 <=> an >= 0) /\ (an * d = 0 <=> an = 0)
  BY <1>2, <1>3
<1>5. (n * ad > 0 <=> n > 0) /\ (n * ad >= 0 <=> n >= 0) /\ (n * ad = 0 <=> n = 0)
  BY <1>2, <1>3
<1> QED
  BY <1>1, <1>2, <1>4, <1>5

\* AtMost compares by the sign of a difference: the same order.
LEMMA AtMostIs ==
    ASSUME NEW a \in Reduced, NEW b \in Reduced
    PROVE  AtMost(a, b) <=> NotAbove(a, b)
<1>1. PICK n \in Int, m \in Int, d \in Nat \ {0}, e \in Nat \ {0} :
        n = a.n /\ m = b.n /\ d = a.d /\ e = b.d /\ Worth(a, n, d) /\ Worth(b, m, e)
  BY WorthItself, ReducedIs
<1>2. PICK x \in Int, y \in Int, k \in Int : x = n * e /\ y = m * d /\ k = d * e
  OBVIOUS
<1>3. Worth(Minus(a, b), x - y, k)
  BY <1>1, <1>2, MinusWorth
<1>4. Minus(a, b).n > 0 <=> x - y > 0
  BY <1>3, SignIs
<1>5. Minus(a, b).n \in Int
  BY <1>3, ReducedIs DEF Worth
<1> QED
  BY <1>1, <1>2, <1>4, <1>5 DEF AtMost, NotAbove

\* Every fraction is worth something,
LEMMA ReducedWorth ==
    ASSUME NEW a \in Reduced
    PROVE  \E n \in Int, d \in Nat \ {0} : Worth(a, n, d)
BY WorthItself, ReducedIs

\* the order is transitive,
LEMMA NotAboveThrough ==
    ASSUME NEW a \in Reduced, NEW b \in Reduced, NEW c \in Reduced, NotAbove(a, b), NotAbove(b, c)
    PROVE  NotAbove(a, c)
<1>1. PICK an \in Int, bn \in Int, cn \in Int, ad \in Nat \ {0}, bd \in Nat \ {0}, cd \in Nat \ {0} :
        an = a.n /\ bn = b.n /\ cn = c.n /\ ad = a.d /\ bd = b.d /\ cd = c.d
  BY ReducedIs
<1>2. PICK x \in Int, y \in Int, z \in Int, w \in Int :
        x = an * bd /\ y = bn * ad /\ z = bn * cd /\ w = cn * bd /\ x <= y /\ z <= w
  <2>1. an * bd <= bn * ad /\ bn * cd <= cn * bd
    BY <1>1 DEF NotAbove
  <2> QED
    BY <2>1
<1>3. cd * x <= cd * y /\ ad * z <= ad * w
  BY <1>2, ProductRises
<1>4. PICK l \in Int, r \in Int : l = an * cd /\ r = cn * ad
  OBVIOUS
<1>5. cd * x = bd * l /\ cd * y = ad * z /\ ad * w = bd * r
  BY <1>2, <1>4
<1>6. bd * l <= bd * r
  <2>1. cd * x \in Int /\ cd * y \in Int /\ ad * w \in Int
    OBVIOUS
  <2> QED
    BY <1>3, <1>5, <2>1
<1>7. l <= r
  BY <1>6, MultiplesOrdered
<1> QED
  BY <1>1, <1>4, <1>7 DEF NotAbove

\* sums keep it,
LEMMA PlusOrdered ==
    ASSUME NEW a \in Reduced, NEW b \in Reduced, NEW c \in Reduced, NEW e \in Reduced,
           NotAbove(a, b), NotAbove(c, e)
    PROVE  NotAbove(Plus(a, c), Plus(b, e))
<1>1. PICK an \in Int, ad \in Nat \ {0} : Worth(a, an, ad)
  BY ReducedWorth
<1>2. PICK bn \in Int, bd \in Nat \ {0} : Worth(b, bn, bd)
  BY ReducedWorth
<1>3. PICK cn \in Int, cd \in Nat \ {0} : Worth(c, cn, cd)
  BY ReducedWorth
<1>4. PICK en \in Int, ed \in Nat \ {0} : Worth(e, en, ed)
  BY ReducedWorth
<1>5. PICK x \in Int, y \in Int, z \in Int, w \in Int :
        /\ x = an * bd /\ y = bn * ad /\ x <= y
        /\ z = cn * ed /\ w = en * cd /\ z <= w
  <2>1. an * bd <= bn * ad /\ cn * ed <= en * cd
    BY <1>1, <1>2, <1>3, <1>4, NotAboveIs
  <2> QED
    BY <2>1
<1>6. PICK k \in Nat, l \in Nat : k = cd * ed /\ l = ad * bd
  OBVIOUS
<1>7. k * x <= k * y /\ l * z <= l * w /\ k * x \in Int /\ k * y \in Int /\ l * z \in Int /\ l * w \in Int
  BY <1>5, <1>6, ProductRises
<1>8. k * x + l * z <= k * y + l * w
  BY <1>7
<1>9. /\ (an * cd + cn * ad) * (bd * ed) = k * x + l * z
      /\ (bn * ed + en * bd) * (ad * cd) = k * y + l * w
  <2>1. (an * cd + cn * ad) * (bd * ed) = (cd * ed) * (an * bd) + (ad * bd) * (cn * ed)
    OBVIOUS
  <2>2. (bn * ed + en * bd) * (ad * cd) = (cd * ed) * (bn * ad) + (ad * bd) * (en * cd)
    OBVIOUS
  <2> QED
    BY <1>5, <1>6, <2>1, <2>2
<1>10. /\ Worth(Plus(a, c), an * cd + cn * ad, ad * cd)
       /\ Worth(Plus(b, e), bn * ed + en * bd, bd * ed)
  BY <1>1, <1>2, <1>3, <1>4, PlusWorth, Zenon
<1>11. NotAbove(Plus(a, c), Plus(b, e)) <=>
         (an * cd + cn * ad) * (bd * ed) <= (bn * ed + en * bd) * (ad * cd)
  BY <1>10, NotAboveIs, Zenon
<1> QED
  BY <1>8, <1>9, <1>11

\* What is added is not negative.
LEMMA PlusRises ==
    ASSUME NEW a \in Reduced, NEW b \in Reduced, b.n >= 0
    PROVE  NotAbove(a, Plus(a, b)) /\ (a.n >= 0 => Plus(a, b).n >= 0 /\ NotAbove(b, Plus(a, b)))
<1>1. PICK an \in Int, ad \in Nat \ {0} : Worth(a, an, ad)
  BY ReducedWorth
<1>2. PICK bn \in Nat, bd \in Nat \ {0} : Worth(b, bn, bd)
  <2>1. PICK bn \in Int, bd \in Nat \ {0} : Worth(b, bn, bd)
    BY ReducedWorth
  <2>2. bn >= 0
    BY <2>1, SignIs
  <2> QED
    BY <2>1, <2>2
<1>3. Worth(Plus(a, b), an * bd + bn * ad, ad * bd)
  BY <1>1, <1>2, PlusWorth, Zenon
<1>4. NotAbove(a, Plus(a, b)) <=> an * (ad * bd) <= (an * bd + bn * ad) * ad
  BY <1>1, <1>3, NotAboveIs, Zenon
<1>5. an * (ad * bd) <= (an * bd + bn * ad) * ad
  <2>1. (an * bd + bn * ad) * ad = an * (ad * bd) + bn * (ad * ad)
    OBVIOUS
  <2>2. bn * (ad * ad) >= 0 /\ an * (ad * bd) \in Int /\ bn * (ad * ad) \in Int
    OBVIOUS
  <2> QED
    BY <2>1, <2>2
<1>6. ASSUME a.n >= 0
      PROVE  Plus(a, b).n >= 0 /\ NotAbove(b, Plus(a, b))
  <2>1. an \in Nat
    BY <1>1, <1>6, SignIs
  <2>2. an * bd + bn * ad >= 0
    <3>1. an * bd \in Nat /\ bn * ad \in Nat
      BY <2>1
    <3> QED
      BY <3>1
  <2>3. Plus(a, b).n >= 0
    BY <1>3, <2>2, SignIs
  <2>4. NotAbove(b, Plus(a, b)) <=> bn * (ad * bd) <= (an * bd + bn * ad) * bd
    BY <1>2, <1>3, NotAboveIs, Zenon
  <2>5. bn * (ad * bd) <= (an * bd + bn * ad) * bd
    <3>1. (an * bd + bn * ad) * bd = bn * (ad * bd) + an * (bd * bd)
      OBVIOUS
    <3>2. an * (bd * bd) \in Nat /\ bn * (ad * bd) \in Int
      BY <2>1
    <3> QED
      BY <3>1, <3>2
  <2> QED
    BY <2>3, <2>4, <2>5
<1> QED
  BY <1>4, <1>5, <1>6

\* and so does a factor that is not negative.
LEMMA TimesOrdered ==
    ASSUME NEW k \in Reduced, NEW a \in Reduced, NEW b \in Reduced, k.n >= 0, NotAbove(a, b)
    PROVE  NotAbove(Times(k, a), Times(k, b))
<1>1. PICK an \in Int, ad \in Nat \ {0} : Worth(a, an, ad)
  BY ReducedWorth
<1>2. PICK bn \in Int, bd \in Nat \ {0} : Worth(b, bn, bd)
  BY ReducedWorth
<1>3. PICK kn \in Nat, kd \in Nat \ {0} : Worth(k, kn, kd)
  <2>1. PICK kn \in Int, kd \in Nat \ {0} : Worth(k, kn, kd)
    BY ReducedWorth
  <2>2. kn >= 0
    BY <2>1, SignIs
  <2> QED
    BY <2>1, <2>2
<1>4. PICK x \in Int, y \in Int, f \in Nat : x = an * bd /\ y = bn * ad /\ x <= y /\ f = kn * kd
  <2>1. an * bd <= bn * ad
    BY <1>1, <1>2, NotAboveIs
  <2> QED
    BY <2>1
<1>5. f * x <= f * y
  BY <1>4, ProductRises
<1>6. (kn * an) * (kd * bd) = f * x /\ (kn * bn) * (kd * ad) = f * y
  BY <1>4
<1>7. Worth(Times(k, a), kn * an, kd * ad) /\ Worth(Times(k, b), kn * bn, kd * bd)
  BY <1>1, <1>2, <1>3, TimesWorth, Zenon
<1>8. NotAbove(Times(k, a), Times(k, b)) <=> (kn * an) * (kd * bd) <= (kn * bn) * (kd * ad)
  BY <1>7, NotAboveIs, Zenon
<1> QED
  BY <1>5, <1>6, <1>8

\* The sign of a product.
LEMMA TimesSign ==
    ASSUME NEW a \in Reduced, NEW b \in Reduced
    PROVE  /\ a.n >= 0 /\ b.n >= 0 => Times(a, b).n >= 0
           /\ a.n > 0 /\ b.n > 0 => Times(a, b).n > 0
           /\ Times(a, a).n >= 0
           /\ a.n = 0 => Times(a, b) = Ratio(0, 1)
           /\ Times(a, b) = Times(b, a)
<1>1. PICK an \in Int, ad \in Nat \ {0} : Worth(a, an, ad)
  BY ReducedWorth
<1>2. PICK bn \in Int, bd \in Nat \ {0} : Worth(b, bn, bd)
  BY ReducedWorth
<1>3. Worth(Times(a, b), an * bn, ad * bd) /\ Worth(Times(a, a), an * an, ad * ad) /\ Worth(Times(b, a), bn * an, bd * ad)
  BY <1>1, <1>2, TimesWorth, Zenon
<1>4. /\ Times(a, b).n >= 0 <=> an * bn >= 0
      /\ Times(a, b).n > 0 <=> an * bn > 0
      /\ Times(a, a).n >= 0 <=> an * an >= 0
  BY <1>3, SignIs, Zenon
<1>5. (a.n > 0 <=> an > 0) /\ (a.n >= 0 <=> an >= 0) /\ (a.n = 0 <=> an = 0) /\ (b.n > 0 <=> bn > 0) /\ (b.n >= 0 <=> bn >= 0)
  BY <1>1, <1>2, SignIs, Zenon
<1>6. an >= 0 /\ bn >= 0 => an * bn >= 0
  OBVIOUS
<1>7. an > 0 /\ bn > 0 => an * bn > 0
  OBVIOUS
<1>8. an * an >= 0
  OBVIOUS
<1>9. an = 0 => Times(a, b) = Ratio(0, 1)
  <2> SUFFICES ASSUME an = 0 PROVE Times(a, b) = Ratio(0, 1)
    OBVIOUS
  <2>1. Worth(Ratio(0, 1), 0, 1)
    BY WholesAre, 0 \in Int
  <2>2. (an * bn) * 1 = 0 * (ad * bd)
    OBVIOUS
  <2> QED
    BY <1>3, <2>1, <2>2, WorthSame, Zenon
<1>10. Times(a, b) = Times(b, a)
  <2>1. (an * bn) * (bd * ad) = (bn * an) * (ad * bd)
    OBVIOUS
  <2> QED
    BY <1>3, <2>1, WorthSame, Zenon
<1> QED
  BY <1>4, <1>5, <1>6, <1>7, <1>8, <1>9, <1>10

\* Divided by a positive fraction.
LEMMA OverOrdered ==
    ASSUME NEW a \in Reduced, NEW b \in Reduced, b.n > 0
    PROVE  /\ Over(a, b) \in Reduced
           /\ (a.n >= 0 => Over(a, b).n >= 0) /\ (a.n > 0 => Over(a, b).n > 0)
           /\ \A k \in Reduced : /\ NotAbove(Times(k, b), a) => NotAbove(k, Over(a, b))
                                 /\ NotAbove(a, Times(k, b)) => NotAbove(Over(a, b), k)
<1>1. PICK an \in Int, ad \in Nat \ {0} : Worth(a, an, ad)
  BY ReducedWorth
<1>2. PICK bn \in Nat \ {0}, bd \in Nat \ {0} : Worth(b, bn, bd)
  <2>1. PICK bn \in Int, bd \in Nat \ {0} : Worth(b, bn, bd)
    BY ReducedWorth
  <2>2. bn > 0
    BY <2>1, SignIs
  <2> QED
    BY <2>1, <2>2
<1>3. Worth(Over(a, b), an * bd, ad * bn)
  <2>1. bn > 0
    OBVIOUS
  <2> QED
    BY <1>1, <1>2, <2>1, OverWorth, Zenon
<1>4. Over(a, b) \in Reduced
  BY <1>3 DEF Worth
<1>5. /\ Over(a, b).n >= 0 <=> an * bd >= 0
      /\ Over(a, b).n > 0 <=> an * bd > 0
  BY <1>3, SignIs, Zenon
<1>6. (a.n > 0 <=> an > 0) /\ (a.n >= 0 <=> an >= 0)
  BY <1>1, SignIs, Zenon
<1>7. (an >= 0 => an * bd >= 0) /\ (an > 0 => an * bd > 0)
  OBVIOUS
<1>8. ASSUME NEW k \in Reduced
      PROVE  /\ NotAbove(Times(k, b), a) => NotAbove(k, Over(a, b))
             /\ NotAbove(a, Times(k, b)) => NotAbove(Over(a, b), k)
  <2>1. PICK kn \in Int, kd \in Nat \ {0} : Worth(k, kn, kd)
    BY ReducedWorth
  <2>2. Worth(Times(k, b), kn * bn, kd * bd)
    BY <1>2, <2>1, TimesWorth, Zenon
  <2>3. NotAbove(Times(k, b), a) <=> (kn * bn) * ad <= an * (kd * bd)
    BY <1>1, <2>2, NotAboveIs, Zenon
  <2>4. NotAbove(a, Times(k, b)) <=> an * (kd * bd) <= (kn * bn) * ad
    BY <1>1, <2>2, NotAboveIs, Zenon
  <2>5. NotAbove(k, Over(a, b)) <=> kn * (ad * bn) <= (an * bd) * kd
    BY <1>3, <2>1, NotAboveIs, Zenon
  <2>6. NotAbove(Over(a, b), k) <=> (an * bd) * kd <= kn * (ad * bn)
    BY <1>3, <2>1, NotAboveIs, Zenon
  <2>7. (kn * bn) * ad = kn * (ad * bn) /\ an * (kd * bd) = (an * bd) * kd
    OBVIOUS
  <2> QED
    BY <2>3, <2>4, <2>5, <2>6, <2>7
<1> QED
  BY <1>4, <1>5, <1>6, <1>7, <1>8


\* Terms none of which is above the other's: sums in that order.
LEMMA SumsOrdered ==
    ASSUME NEW L \in Nat, NEW f, NEW g,
           \A n \in 1..L : f[n] \in Reduced /\ g[n] \in Reduced /\ NotAbove(f[n], g[n])
    PROVE  NotAbove(SumOf(f, L), SumOf(g, L))
<1>1. PICK u : Accrues(u, f, L) /\ u[L] = SumOf(f, L)
  BY SumOfExists DEF SumsTo
<1>2. PICK w : Accrues(w, g, L) /\ w[L] = SumOf(g, L)
  BY SumOfExists DEF SumsTo
<1> DEFINE A == {n \in Nat : NotAbove(u[n], w[n])}
<1>3. 0 \in A
  <2>1. u[0] = Ratio(0, 1) /\ w[0] = Ratio(0, 1)
    BY <1>1, <1>2 DEF Accrues
  <2>2. Worth(Ratio(0, 1), 0, 1)
    BY WholesAre, 0 \in Int
  <2>3. NotAbove(Ratio(0, 1), Ratio(0, 1))
    BY <2>2, NotAboveIs
  <2> QED
    BY <2>1, <2>3
<1>4. ASSUME NEW n \in 0..(L - 1), n \in A PROVE n + 1 \in A
  <2>1. n \in Nat /\ n + 1 \in Nat /\ n + 1 \in 1..L
    OBVIOUS
  <2>2. /\ u[n] \in Reduced /\ u[n + 1] = Plus(u[n], f[n + 1])
        /\ w[n] \in Reduced /\ w[n + 1] = Plus(w[n], g[n + 1])
    BY <1>1, <1>2, <2>1 DEF Accrues
  <2>3. NotAbove(u[n], w[n])
    BY <1>4
  <2>4. NotAbove(Plus(u[n], f[n + 1]), Plus(w[n], g[n + 1]))
    BY <2>1, <2>2, <2>3, PlusOrdered
  <2> QED
    BY <2>1, <2>2, <2>4
<1>5. \A n \in 0..L : n \in A
  <2> HIDE DEF A
  <2> QED
    BY <1>3, <1>4, CountUp
<1>6. L \in 0..L
  OBVIOUS
<1> QED
  BY <1>1, <1>2, <1>5, <1>6

\* A common factor of the terms is one of the sum.
LEMMA SumScaled ==
    ASSUME NEW L \in Nat, NEW f, NEW g, NEW k \in Reduced,
           \A n \in 1..L : f[n] \in Reduced /\ g[n] = Times(k, f[n])
    PROVE  SumOf(g, L) = Times(k, SumOf(f, L))
<1> DEFINE one == [n \in 1..L |-> Ratio(1, 1)]
           x == [n \in 1..L |-> Times(f[n], one[n])]
           y == [n \in 1..L |-> Times(g[n], one[n])]
<1>1. Ratio(1, 1) \in Reduced
  BY WholesAre, 1 \in Int
<1>2. \A n \in 1..L : x[n] = f[n] /\ y[n] = g[n]
  <2>1. \A n \in 1..L : g[n] \in Reduced
    BY ReducedClosed
  <2> QED
    BY <2>1, TimesOne
<1>3. \A n \in 0..(L - 1) : n + 1 \in 1..L
  OBVIOUS
<1>4. Weighs(f, one, L, SumOf(f, L))
  <2>1. PICK u : Accrues(u, f, L) /\ u[L] = SumOf(f, L)
    BY SumOfExists DEF SumsTo
  <2> HIDE DEF x, y, one
  <2>2. Accrues(u, x, L)
    BY <1>2, <1>3, <2>1 DEF Accrues
  <2> QED
    BY <2>1, <2>2 DEF Weighs, x
<1>5. Weighs(g, one, L, Times(k, SumOf(f, L)))
  <2>1. \A n \in 1..L : f[n] \in Reduced /\ one[n] \in Reduced /\ g[n] = Times(k, f[n])
    BY <1>1
  <2> HIDE DEF one
  <2> QED
    BY <1>4, <2>1, WeighsScaled
<1>6. SumsTo(g, L, Times(k, SumOf(f, L)))
  <2>1. PICK w : Accrues(w, y, L) /\ w[L] = Times(k, SumOf(f, L))
    BY <1>5 DEF Weighs
  <2> HIDE DEF x, y, one
  <2>2. Accrues(w, g, L)
    BY <1>2, <1>3, <2>1 DEF Accrues
  <2> QED
    BY <2>1, <2>2 DEF SumsTo
<1> QED
  BY <1>6, SumOfIs

\* No term is more than the sum of terms that are not negative.
LEMMA TermWithin ==
    ASSUME NEW L \in Nat, NEW f, \A n \in 1..L : f[n] \in Reduced /\ f[n].n >= 0
    PROVE  SumOf(f, L).n >= 0 /\ \A i \in 1..L : NotAbove(f[i], SumOf(f, L))
<1>1. PICK u : Accrues(u, f, L) /\ u[L] = SumOf(f, L)
  BY SumOfExists DEF SumsTo
<1>2. ASSUME NEW i \in Nat
      PROVE  u[L].n >= 0 /\ (1 <= i /\ i <= L => NotAbove(f[i], u[L]))
  <2> DEFINE A == {n \in Nat : u[n].n >= 0 /\ (1 <= i /\ i <= n => NotAbove(f[i], u[n]))}
  <2>1. 0 \in A
    <3>1. u[0] = Ratio(0, 1) /\ Worth(Ratio(0, 1), 0, 1)
      BY <1>1, WholesAre, 0 \in Int DEF Accrues
    <3>2. u[0].n >= 0
      BY <3>1, SignIs
    <3> QED
      BY <3>2
  <2>2. ASSUME NEW n \in 0..(L - 1), n \in A PROVE n + 1 \in A
    <3>1. n \in Nat /\ n + 1 \in Nat /\ n + 1 \in 1..L /\ f[n + 1] \in Reduced /\ f[n + 1].n >= 0
      OBVIOUS
    <3>2. u[n] \in Reduced /\ u[n + 1] = Plus(u[n], f[n + 1]) /\ u[n + 1] \in Reduced
      BY <1>1, <3>1 DEF Accrues
    <3>3. u[n].n >= 0 /\ (1 <= i /\ i <= n => NotAbove(f[i], u[n]))
      BY <2>2
    <3>4. NotAbove(u[n], u[n + 1]) /\ u[n + 1].n >= 0 /\ NotAbove(f[n + 1], u[n + 1])
      BY <3>1, <3>2, <3>3, PlusRises
    <3>5. ASSUME 1 <= i, i <= n + 1 PROVE NotAbove(f[i], u[n + 1])
      <4>1. CASE i = n + 1
        BY <3>4, <4>1
      <4>2. CASE i # n + 1
        <5>1. i <= n /\ i \in 1..L /\ f[i] \in Reduced
          BY <3>1, <3>5, <4>2
        <5>2. NotAbove(f[i], u[n])
          BY <3>3, <3>5, <5>1
        <5> QED
          BY <3>2, <3>4, <5>1, <5>2, NotAboveThrough
      <4> QED
        BY <4>1, <4>2
    <3> QED
      BY <3>1, <3>4, <3>5
  <2>3. \A n \in 0..L : n \in A
    <3> HIDE DEF A
    <3> QED
      BY <2>1, <2>2, CountUp
  <2>4. L \in 0..L
    OBVIOUS
  <2> QED
    BY <2>3, <2>4
<1>3. 0 \in Nat /\ \A i \in 1..L : i \in Nat /\ 1 <= i /\ i <= L
  OBVIOUS
<1> QED
  BY <1>1, <1>2, <1>3
-----------------------------------------------------------------------------
(* Sums over finite sets. *)

\* Sets have sizes, and one element less makes one less.
LEMMA SetSizes ==
    ASSUME NEW X, IsFiniteSet(X)
    PROVE  \A s \in SUBSET X :
             /\ IsFiniteSet(s) /\ Cardinality(s) \in Nat
             /\ Cardinality(s) = 0 <=> s = {}
             /\ Cardinality(s) <= Cardinality(X)
             /\ \A x \in s : Cardinality(s \ {x}) = Cardinality(s) - 1
BY FS_Subset, FS_CardinalityType, FS_EmptySet, FS_RemoveElement

\* A set of sets that is not empty has a smallest one.
LEMMA SmallestSet ==
    ASSUME NEW X, IsFiniteSet(X), NEW B \in SUBSET (SUBSET X), B # {}
    PROVE  \E s \in B : \A r \in B : Cardinality(s) <= Cardinality(r)
<1> DEFINE N == {Cardinality(s) : s \in B}
<1>1. N \subseteq Nat /\ N # {}
  BY SetSizes
<1>2. PICK k \in N : \A m \in N : k <= m
  BY <1>1, LeastNumber
<1> QED
  BY <1>2

\* What holds of no elements and goes on with one more holds of all.
LEMMA SetsGrow ==
    ASSUME NEW X, IsFiniteSet(X), NEW Z, {} \in Z,
           \A s \in SUBSET X : \A x \in X \ s : s \in Z => s \cup {x} \in Z
    PROVE  X \in Z
<1> DEFINE B == {s \in SUBSET X : s \notin Z}
<1> SUFFICES ASSUME B # {} PROVE FALSE
  OBVIOUS
<1>1. PICK s \in B : \A r \in B : Cardinality(s) <= Cardinality(r)
  BY SmallestSet
<1>2. PICK x \in s : TRUE
  OBVIOUS
<1>3. /\ Cardinality(s \ {x}) = Cardinality(s) - 1 /\ Cardinality(s) \in Nat
      /\ s \ {x} \in SUBSET X
  BY <1>2, SetSizes
<1>4. s \ {x} \in Z
  BY <1>1, <1>3
<1>5. (s \ {x}) \cup {x} \in Z /\ (s \ {x}) \cup {x} = s
  BY <1>2, <1>3, <1>4
<1> QED
  BY <1>5

Choice(s) == CHOOSE x \in s : TRUE

\* h sums f as the folds of the library do, over the subsets of X.
Sums(h, X, f) ==
    h = [s \in SUBSET X |-> IF s = {} THEN 0 ELSE f[Choice(s)] + h[s \ {Choice(s)}]]

LEMMA SumsExist ==
    ASSUME NEW X, IsFiniteSet(X), NEW f \in [X -> Int]
    PROVE  \E h \in [SUBSET X -> Int] : Sums(h, X, f)
<1> DEFINE Right(h, s) == h[s] = IF s = {} THEN 0 ELSE f[Choice(s)] + h[s \ {Choice(s)}]
           UpTo(n) == \E h \in [SUBSET X -> Int] :
                        \A s \in SUBSET X : Cardinality(s) <= n => Right(h, s)
           Z == {n \in Nat : UpTo(n)}
<1>0. \A s \in SUBSET X : s # {} => Choice(s) \in s /\ f[Choice(s)] \in Int
  BY DEF Choice
<1>1. UpTo(0)
  <2> DEFINE h == [s \in SUBSET X |-> 0]
  <2>1. h \in [SUBSET X -> Int]
    OBVIOUS
  <2>2. \A s \in SUBSET X : Cardinality(s) <= 0 => s = {}
    BY SetSizes
  <2> QED
    BY <2>1, <2>2
<1>2. ASSUME NEW n \in Nat, UpTo(n)
      PROVE  UpTo(n + 1)
  <2>1. PICK h \in [SUBSET X -> Int] :
           \A s \in SUBSET X : Cardinality(s) <= n => Right(h, s)
    BY <1>2
  <2> DEFINE g == [s \in SUBSET X |->
                     IF s = {} THEN 0 ELSE f[Choice(s)] + h[s \ {Choice(s)}]]
  <2>2. g \in [SUBSET X -> Int]
    BY <1>0
  <2>3. ASSUME NEW s \in SUBSET X, Cardinality(s) <= n + 1
        PROVE  Right(g, s)
    <3>1. CASE s = {}
      BY <3>1
    <3>2. CASE s # {}
      <4> DEFINE r == s \ {Choice(s)}
      <4>1. r \in SUBSET X /\ Cardinality(r) <= n
        BY <1>0, <2>3, <3>2, SetSizes
      <4>2. h[r] = g[r]
        BY <2>1, <4>1
      <4>3. g[s] = f[Choice(s)] + h[r]
        BY <3>2
      <4> QED
        BY <3>2, <4>2, <4>3
    <3> QED
      BY <3>1, <3>2
  <2> QED
    BY <2>2, <2>3
<1>3. UpTo(Cardinality(X))
  <2> HIDE DEF UpTo
  <2>1. Cardinality(X) \in Nat
    BY SetSizes
  <2>2. 0 \in Z /\ \A n \in 0..(Cardinality(X) - 1) : n \in Z => n + 1 \in Z
    BY <1>1, <1>2, <2>1
  <2> HIDE DEF Z
  <2>3. Cardinality(X) \in Z
    BY <2>1, <2>2, CountUp
  <2> QED
    BY <2>3 DEF Z
<1>4. PICK h \in [SUBSET X -> Int] : \A s \in SUBSET X : Right(h, s)
  BY <1>3, SetSizes
<1> QED
  BY <1>4 DEF Sums

\* Sums of functions that agree are equal.
LEMMA SumsAgree ==
    ASSUME NEW X, NEW Y, IsFiniteSet(X), IsFiniteSet(Y), NEW S, S \subseteq X, S \subseteq Y,
           NEW f, NEW e, \A x \in S : e[x] = f[x],
           NEW h, Sums(h, X, f), NEW g, Sums(g, Y, e)
    PROVE  g[S] = h[S]
<1> DEFINE B == {s \in SUBSET S : g[s] # h[s]}
<1> SUFFICES ASSUME B # {} PROVE FALSE
  OBVIOUS
<1>0. IsFiniteSet(S)
  BY FS_Subset
<1>1. PICK s \in B : \A r \in B : Cardinality(s) <= Cardinality(r)
  BY <1>0, SmallestSet
<1>2. s # {}
  BY DEF Sums
<1>3. Choice(s) \in s
  BY <1>2 DEF Choice
<1> DEFINE r == s \ {Choice(s)}
<1>4. r \in SUBSET S /\ Cardinality(r) = Cardinality(s) - 1 /\ Cardinality(s) \in Nat
  BY <1>0, <1>3, SetSizes
<1>5. g[r] = h[r]
  BY <1>1, <1>4
<1>6. g[s] = e[Choice(s)] + g[r] /\ h[s] = f[Choice(s)] + h[r]
  BY <1>2 DEF Sums
<1> QED
  BY <1>3, <1>5, <1>6

\* Any element can be taken out first.
Removes(h, X, f) == \A s \in SUBSET X : \A x \in s : h[s] = f[x] + h[s \ {x}]

LEMMA SumsRemove ==
    ASSUME NEW X, IsFiniteSet(X),
           NEW f \in [X -> Int], NEW h \in [SUBSET X -> Int], Sums(h, X, f)
    PROVE  Removes(h, X, f)
<1> DEFINE Fine(s) == \A x \in s : h[s] = f[x] + h[s \ {x}]
           B == {s \in SUBSET X : ~Fine(s)}
<1> SUFFICES ASSUME B # {} PROVE FALSE
  BY DEF Removes
<1>0. B \in SUBSET (SUBSET X)
  OBVIOUS
<1> HIDE DEF B
<1>1. PICK s \in B : \A r \in B : Cardinality(s) <= Cardinality(r)
  BY <1>0, SmallestSet
<1> USE DEF B
<1>2. PICK x \in s : h[s] # f[x] + h[s \ {x}]
  OBVIOUS
<1> DEFINE y == Choice(s)
<1>3. y \in s
  BY <1>2 DEF Choice
<1> HIDE DEF y, Fine
<1>4. h[s] = f[y] + h[s \ {y}]
  BY <1>2 DEF Sums, y
<1>5. x # y
  BY <1>2, <1>4
<1> DEFINE r == (s \ {x}) \ {y}
<1>6. Fine(s \ {x}) /\ Fine(s \ {y})
  <2>1. /\ s \ {x} \in SUBSET X /\ s \ {y} \in SUBSET X
        /\ Cardinality(s \ {x}) < Cardinality(s) /\ Cardinality(s \ {y}) < Cardinality(s)
    BY <1>2, <1>3, SetSizes
  <2>2. Cardinality(s \ {x}) \in Nat /\ Cardinality(s \ {y}) \in Nat /\ Cardinality(s) \in Nat
    BY <1>2, SetSizes
  <2> QED
    BY <1>1, <2>1, <2>2
<1>7. h[s \ {x}] = f[y] + h[r]
  BY <1>3, <1>5, <1>6 DEF Fine
<1>8. h[s \ {y}] = f[x] + h[r]
  <2>1. r = (s \ {y}) \ {x} /\ x \in s \ {y}
    BY <1>2, <1>5
  <2> QED
    BY <1>6, <2>1 DEF Fine
<1>9. f[x] \in Int /\ f[y] \in Int /\ h[r] \in Int
  BY <1>2, <1>3
<1>10. h[s] = f[y] + (f[x] + h[r])
  BY <1>4, <1>8
<1>11. f[x] + h[s \ {x}] = f[x] + (f[y] + h[r])
  BY <1>7
<1> HIDE DEF r
<1> QED
  BY <1>2, <1>9, <1>10, <1>11

\* The sum of a function's values, as the library computes it.
AddedUp(f) ==
    LET h[s \in SUBSET DOMAIN f] ==
          IF s = {} THEN 0 ELSE f[CHOOSE x \in s : TRUE] + h[s \ {CHOOSE x \in s : TRUE}]
    IN h[DOMAIN f]

LEMMA AddedUpIs ==
    ASSUME NEW X, IsFiniteSet(X), NEW f \in [X -> Int],
           NEW h \in [SUBSET X -> Int], Sums(h, X, f)
    PROVE  AddedUp(f) = h[X]
<1> DEFINE D(g) == g = [s \in SUBSET DOMAIN f |-> IF s = {} THEN 0
                           ELSE f[CHOOSE x \in s : TRUE] + g[s \ {CHOOSE x \in s : TRUE}]]
<1>1. AddedUp(f) = (CHOOSE g : D(g))[DOMAIN f]
  BY Zenon DEF AddedUp
<1>2. \A g : D(g) <=> Sums(g, X, f)
  BY Zenon DEF Sums, Choice
<1>3. D(CHOOSE g : D(g))
  <2>1. D(h)
    BY <1>2, Zenon
  <2> QED
    BY <2>1
<1>4. Sums(CHOOSE g : D(g), X, f)
  BY <1>2, <1>3, Zenon
<1> HIDE DEF D
<1>5. (CHOOSE g : D(g))[X] = h[X]
  BY <1>4, SumsAgree
<1> QED
  BY <1>1, <1>5

\* A sum of nothing, of what is known to be numbers, with one more, and of the
\* same values.
LEMMA AddedUpNothing == ASSUME NEW f, DOMAIN f = {} PROVE AddedUp(f) = 0
<1> DEFINE D(g) == g = [s \in SUBSET DOMAIN f |-> IF s = {} THEN 0
                           ELSE f[CHOOSE x \in s : TRUE] + g[s \ {CHOOSE x \in s : TRUE}]]
<1>1. AddedUp(f) = (CHOOSE g : D(g))[DOMAIN f]
  BY Zenon DEF AddedUp
<1>2. D([s \in SUBSET DOMAIN f |-> 0])
  OBVIOUS
<1>3. D(CHOOSE g : D(g))
  BY <1>2
<1> QED
  BY <1>1, <1>3

LEMMA AddedUpTyped ==
    ASSUME NEW X, IsFiniteSet(X), NEW f \in [X -> Int]
    PROVE  AddedUp(f) \in Int
<1>1. PICK h \in [SUBSET X -> Int] : Sums(h, X, f)
  BY SumsExist
<1> QED
  BY <1>1, AddedUpIs

LEMMA AddedUpSame ==
    ASSUME NEW X, NEW f, NEW g, f \in [X -> Int], g \in [X -> Int], \A x \in X : f[x] = g[x]
    PROVE  AddedUp(f) = AddedUp(g)
<1>1. f = g
  OBVIOUS
<1> QED
  BY <1>1

\* Sums over the subsets, which grow by one element at a time.
PartOf(f, s) == [x \in s |-> f[x]]

LEMMA AddedUpWith ==
    ASSUME NEW X, IsFiniteSet(X), NEW f \in [X -> Int], NEW x \in X
    PROVE  AddedUp(f) = f[x] + AddedUp(PartOf(f, X \ {x}))
<1> DEFINE e == [y \in X \ {x} |-> f[y]]
<1>1. PICK h \in [SUBSET X -> Int] : Sums(h, X, f)
  BY SumsExist
<1>2. IsFiniteSet(X \ {x}) /\ e \in [X \ {x} -> Int] /\ \A y \in X \ {x} : e[y] = f[y]
  BY FS_Subset
<1> HIDE DEF e
<1>3. PICK g \in [SUBSET (X \ {x}) -> Int] : Sums(g, X \ {x}, e)
  BY <1>2, SumsExist
<1>4. AddedUp(f) = h[X] /\ AddedUp(e) = g[X \ {x}]
  BY <1>1, <1>2, <1>3, AddedUpIs
<1>5. g[X \ {x}] = h[X \ {x}]
  BY <1>1, <1>2, <1>3, SumsAgree
<1>6. h[X] = f[x] + h[X \ {x}]
  <2>1. Removes(h, X, f)
    BY <1>1, SumsRemove
  <2> QED
    BY <2>1 DEF Removes
<1>7. AddedUp(f) = f[x] + AddedUp(e)
  BY <1>4, <1>5, <1>6
<1> QED
  BY <1>7 DEF e, PartOf

LEMMA PartGrows ==
    ASSUME NEW X, IsFiniteSet(X), NEW f \in [X -> Int], NEW s \in SUBSET X, NEW x \in X \ s
    PROVE  AddedUp(PartOf(f, s \cup {x})) = f[x] + AddedUp(PartOf(f, s))
<1>1. PICK Y, g : Y = s \cup {x} /\ g = PartOf(f, s \cup {x})
  OBVIOUS
<1>2. IsFiniteSet(Y) /\ g \in [Y -> Int] /\ x \in Y /\ g[x] = f[x]
  BY <1>1, FS_Subset DEF PartOf
<1>3. PartOf(g, Y \ {x}) = PartOf(f, s)
  BY <1>1 DEF PartOf
<1>4. AddedUp(g) = g[x] + AddedUp(PartOf(g, Y \ {x}))
  BY <1>2, AddedUpWith
<1> QED
  BY <1>1, <1>2, <1>3, <1>4

LEMMA PartNothing == ASSUME NEW f PROVE AddedUp(PartOf(f, {})) = 0
BY AddedUpNothing DEF PartOf

LEMMA PartWhole == ASSUME NEW X, NEW f \in [X -> Int] PROVE PartOf(f, X) = f
BY DEF PartOf

LEMMA PartTyped ==
    ASSUME NEW X, IsFiniteSet(X), NEW f \in [X -> Int], NEW s \in SUBSET X
    PROVE  AddedUp(PartOf(f, s)) \in Int /\ PartOf(f, s) \in [s -> Int] /\ IsFiniteSet(s)
<1>1. PartOf(f, s) \in [s -> Int] /\ IsFiniteSet(s)
  BY FS_Subset DEF PartOf
<1> QED
  BY <1>1, AddedUpTyped

\* Sums of natural numbers are natural numbers.
LEMMA AddedUpNatural ==
    ASSUME NEW X, IsFiniteSet(X), NEW f \in [X -> Nat]
    PROVE  AddedUp(f) \in Nat
<1> DEFINE Z == {s \in SUBSET X : AddedUp(PartOf(f, s)) \in Nat}
<1>0. f \in [X -> Int]
  OBVIOUS
<1>1. {} \in Z
  BY PartNothing
<1>2. ASSUME NEW s \in SUBSET X, NEW x \in X \ s, s \in Z PROVE s \cup {x} \in Z
  <2>1. AddedUp(PartOf(f, s \cup {x})) = f[x] + AddedUp(PartOf(f, s))
    BY <1>0, PartGrows
  <2> QED
    BY <1>2, <2>1
<1> HIDE DEF Z
<1>3. X \in Z
  BY <1>1, <1>2, SetsGrow
<1> QED
  BY <1>0, <1>3, PartWhole DEF Z

\* A factor of every value is one of the sum.
LEMMA AddedUpScaled ==
    ASSUME NEW X, IsFiniteSet(X), NEW f \in [X -> Int], NEW c \in Int, NEW g,
           g \in [X -> Int], \A x \in X : g[x] = c * f[x]
    PROVE  AddedUp(g) = c * AddedUp(f)
<1> DEFINE Z == {s \in SUBSET X : AddedUp(PartOf(g, s)) = c * AddedUp(PartOf(f, s))}
<1>1. {} \in Z
  BY PartNothing
<1>2. ASSUME NEW s \in SUBSET X, NEW x \in X \ s, s \in Z PROVE s \cup {x} \in Z
  <2>1. /\ AddedUp(PartOf(f, s \cup {x})) = f[x] + AddedUp(PartOf(f, s))
        /\ AddedUp(PartOf(g, s \cup {x})) = g[x] + AddedUp(PartOf(g, s))
    BY PartGrows
  <2>2. AddedUp(PartOf(f, s)) \in Int /\ f[x] \in Int /\ g[x] = c * f[x]
    BY PartTyped
  <2>3. AddedUp(PartOf(g, s)) = c * AddedUp(PartOf(f, s))
    BY <1>2
  <2>4. ASSUME NEW a \in Int, NEW b \in Int PROVE c * a + c * b = c * (a + b)
    OBVIOUS
  <2> QED
    BY <2>1, <2>2, <2>3, <2>4
<1> HIDE DEF Z
<1>3. X \in Z
  BY <1>1, <1>2, SetsGrow
<1> QED
  BY <1>3, PartWhole DEF Z

\* Sums of sums.
LEMMA AddedUpPlus ==
    ASSUME NEW X, IsFiniteSet(X), NEW f \in [X -> Int], NEW g \in [X -> Int], NEW e,
           e \in [X -> Int], \A x \in X : e[x] = f[x] + g[x]
    PROVE  AddedUp(e) = AddedUp(f) + AddedUp(g)
<1> DEFINE Z == {s \in SUBSET X : AddedUp(PartOf(e, s)) = AddedUp(PartOf(f, s)) + AddedUp(PartOf(g, s))}
<1>1. {} \in Z
  BY PartNothing
<1>2. ASSUME NEW s \in SUBSET X, NEW x \in X \ s, s \in Z PROVE s \cup {x} \in Z
  <2>1. /\ AddedUp(PartOf(f, s \cup {x})) = f[x] + AddedUp(PartOf(f, s))
        /\ AddedUp(PartOf(g, s \cup {x})) = g[x] + AddedUp(PartOf(g, s))
        /\ AddedUp(PartOf(e, s \cup {x})) = e[x] + AddedUp(PartOf(e, s))
    BY PartGrows
  <2>2. /\ AddedUp(PartOf(f, s)) \in Int /\ AddedUp(PartOf(g, s)) \in Int
        /\ f[x] \in Int /\ g[x] \in Int /\ e[x] = f[x] + g[x]
    BY PartTyped
  <2>3. AddedUp(PartOf(e, s)) = AddedUp(PartOf(f, s)) + AddedUp(PartOf(g, s))
    BY <1>2
  <2> QED
    BY <2>1, <2>2, <2>3
<1> HIDE DEF Z
<1>3. X \in Z
  BY <1>1, <1>2, SetsGrow
<1> QED
  BY <1>3, PartWhole DEF Z

\* A sum with one value changed.
LEMMA AddedUpChanged ==
    ASSUME NEW X, IsFiniteSet(X), NEW f \in [X -> Int], NEW g \in [X -> Int], NEW x \in X,
           \A y \in X \ {x} : g[y] = f[y]
    PROVE  AddedUp(g) = AddedUp(f) + (g[x] - f[x])
<1>1. PartOf(g, X \ {x}) = PartOf(f, X \ {x})
  BY DEF PartOf
<1>2. AddedUp(f) = f[x] + AddedUp(PartOf(f, X \ {x}))
  BY AddedUpWith
<1>4. AddedUp(g) = g[x] + AddedUp(PartOf(g, X \ {x}))
  BY AddedUpWith
<1>3. AddedUp(PartOf(f, X \ {x})) \in Int
  <2>1. PartOf(f, X \ {x}) \in [X \ {x} -> Int] /\ IsFiniteSet(X \ {x})
    BY FS_Subset DEF PartOf
  <2> QED
    BY <2>1, AddedUpTyped
<1> QED
  BY <1>1, <1>2, <1>3, <1>4

LEMMA AddedUpZero ==
    ASSUME NEW X, IsFiniteSet(X), NEW f, f = [x \in X |-> 0]
    PROVE  AddedUp(f) = 0
<1>1. f \in [X -> Int] /\ \A x \in X : f[x] = 0 * f[x]
  OBVIOUS
<1>2. AddedUp(f) = 0 * AddedUp(f) /\ AddedUp(f) \in Int
  BY <1>1, AddedUpScaled, AddedUpTyped
<1> QED
  BY <1>2

\* A sum is the sum of the sums of its parts.
LEMMA AddedUpByParts ==
    ASSUME NEW X, IsFiniteSet(X), NEW J, IsFiniteSet(J), NEW f \in [X -> Int], NEW k \in [X -> J],
           NEW g, g = [j \in J |-> AddedUp(PartOf(f, {x \in X : k[x] = j}))]
    PROVE  AddedUp(f) = AddedUp(g)
<1> DEFINE In(s, j) == {x \in s : k[x] = j}
           G(s) == [j \in J |-> AddedUp(PartOf(f, In(s, j)))]
           Z == {s \in SUBSET X : AddedUp(PartOf(f, s)) = AddedUp(G(s))}
<1>0. \A s \in SUBSET X : G(s) \in [J -> Int]
  BY PartTyped
<1>1. {} \in Z
  <2>1. G({}) = [j \in J |-> 0]
    BY PartNothing
  <2> HIDE DEF G
  <2>2. AddedUp(G({})) = 0
    BY <2>1, AddedUpZero
  <2> QED
    BY <2>2, PartNothing
<1>2. ASSUME NEW s \in SUBSET X, NEW x \in X \ s, s \in Z PROVE s \cup {x} \in Z
  <2>1. \A j \in J \ {k[x]} : G(s \cup {x})[j] = G(s)[j]
    <3>1. \A j \in J \ {k[x]} : In(s \cup {x}, j) = In(s, j)
      OBVIOUS
    <3> QED
      BY <3>1
  <2>2. G(s \cup {x})[k[x]] = f[x] + G(s)[k[x]]
    <3>1. /\ In(s \cup {x}, k[x]) = In(s, k[x]) \cup {x} /\ In(s, k[x]) \in SUBSET X
          /\ x \in X \ In(s, k[x])
      OBVIOUS
    <3>2. AddedUp(PartOf(f, In(s, k[x]) \cup {x})) = f[x] + AddedUp(PartOf(f, In(s, k[x])))
      BY <3>1, PartGrows
    <3> QED
      BY <3>1, <3>2
  <2>3. G(s) \in [J -> Int] /\ G(s \cup {x}) \in [J -> Int] /\ k[x] \in J /\ f[x] \in Int
    BY <1>0
  <2>4. AddedUp(PartOf(f, s \cup {x})) = f[x] + AddedUp(PartOf(f, s))
    BY PartGrows
  <2>5. AddedUp(PartOf(f, s)) = AddedUp(G(s)) /\ AddedUp(PartOf(f, s)) \in Int
    BY <1>2, PartTyped
  <2> HIDE DEF G, In
  <2>6. AddedUp(G(s \cup {x})) = AddedUp(G(s)) + (G(s \cup {x})[k[x]] - G(s)[k[x]])
    <3>1. PICK a, b, i : a = G(s) /\ b = G(s \cup {x}) /\ i = k[x]
      OBVIOUS
    <3>2. a \in [J -> Int] /\ b \in [J -> Int] /\ i \in J /\ \A j \in J \ {i} : b[j] = a[j]
      BY <2>1, <2>3, <3>1
    <3>3. AddedUp(b) = AddedUp(a) + (b[i] - a[i])
      BY <3>2, AddedUpChanged
    <3> QED
      BY <3>1, <3>3
  <2>7. G(s)[k[x]] \in Int
    BY <2>3
  <2> QED
    BY <2>2, <2>3, <2>4, <2>5, <2>6, <2>7
<1>3. G(X) = g
  OBVIOUS
<1> HIDE DEF Z, G
<1>4. X \in Z
  BY <1>1, <1>2, SetsGrow
<1> QED
  BY <1>3, <1>4, PartWhole DEF Z

RowSums(X, f) == [x \in X |-> AddedUp(f[x])]
ColumnSums(X, Y, f) == [y \in Y |-> AddedUp([x \in X |-> f[x][y]])]

\* Two sums one inside the other can be exchanged.
LEMMA AddedUpExchanged ==
    ASSUME NEW X, IsFiniteSet(X), NEW Y, IsFiniteSet(Y), NEW f \in [X -> [Y -> Int]]
    PROVE  AddedUp(RowSums(X, f)) = AddedUp(ColumnSums(X, Y, f))
<1> DEFINE In(s, y) == AddedUp(PartOf([x \in X |-> f[x][y]], s))
           G(s) == [y \in Y |-> In(s, y)]
           F == [x \in X |-> AddedUp(f[x])]
           Z == {s \in SUBSET X : AddedUp(PartOf(F, s)) = AddedUp(G(s))}
<1>0. F \in [X -> Int] /\ \A y \in Y : [x \in X |-> f[x][y]] \in [X -> Int]
  BY AddedUpTyped
<1>1. \A s \in SUBSET X : G(s) \in [Y -> Int]
  BY <1>0, PartTyped
<1>2. {} \in Z
  <2>1. G({}) = [y \in Y |-> 0]
    BY PartNothing
  <2> HIDE DEF G, F
  <2>2. AddedUp(G({})) = 0
    BY <2>1, AddedUpZero
  <2> QED
    BY <2>2, PartNothing
<1>3. ASSUME NEW s \in SUBSET X, NEW x \in X \ s, s \in Z PROVE s \cup {x} \in Z
  <2>1. \A y \in Y : In(s \cup {x}, y) = f[x][y] + In(s, y)
    <3> SUFFICES ASSUME NEW y \in Y PROVE In(s \cup {x}, y) = f[x][y] + In(s, y)
      OBVIOUS
    <3> DEFINE c == [z \in X |-> f[z][y]]
    <3>1. c \in [X -> Int] /\ c[x] = f[x][y]
      OBVIOUS
    <3> HIDE DEF c
    <3>2. AddedUp(PartOf(c, s \cup {x})) = c[x] + AddedUp(PartOf(c, s))
      BY <3>1, PartGrows
    <3> QED
      BY <3>1, <3>2 DEF c
  <2>2. \A y \in Y : G(s \cup {x})[y] = f[x][y] + G(s)[y]
    BY <2>1
  <2>3. G(s) \in [Y -> Int] /\ G(s \cup {x}) \in [Y -> Int] /\ f[x] \in [Y -> Int]
    BY <1>1
  <2>4. F[x] = AddedUp(f[x])
    OBVIOUS
  <2> HIDE DEF G, In, F
  <2>5. AddedUp(G(s \cup {x})) = AddedUp(f[x]) + AddedUp(G(s))
    <3>1. PICK a, b, c : a = G(s) /\ b = G(s \cup {x}) /\ c = f[x]
      OBVIOUS
    <3>2. a \in [Y -> Int] /\ b \in [Y -> Int] /\ c \in [Y -> Int] /\ \A y \in Y : b[y] = c[y] + a[y]
      BY <2>2, <2>3, <3>1
    <3>3. AddedUp(b) = AddedUp(c) + AddedUp(a)
      BY <3>2, AddedUpPlus
    <3> QED
      BY <3>1, <3>3
  <2>6. AddedUp(PartOf(F, s \cup {x})) = F[x] + AddedUp(PartOf(F, s))
    BY <1>0, PartGrows
  <2> QED
    BY <1>3, <2>4, <2>5, <2>6
<1>4. G(X) = [y \in Y |-> AddedUp([x \in X |-> f[x][y]])]
  BY <1>0, PartWhole
<1> HIDE DEF Z, G, F
<1>5. X \in Z
  BY <1>2, <1>3, SetsGrow
<1>6. AddedUp(F) = AddedUp(G(X))
  BY <1>0, <1>5, PartWhole DEF Z
<1> QED
  BY <1>4, <1>6 DEF F, RowSums, ColumnSums
-----------------------------------------------------------------------------
(* Ways through finitely many states. *)

\* There are finitely many ways through finitely many states.
LEMMA WaysFinite ==
    ASSUME NEW L \in Nat, NEW S, IsFiniteSet(S)
    PROVE  IsFiniteSet([1..L -> S])
<1> DEFINE graph == [p \in [1..L -> S] |-> {<<t, p[t]>> : t \in 1..L}]
<1>1. IsFiniteSet(SUBSET ((1..L) \X S))
  <2>1. IsFiniteSet(1..L)
    BY FS_Interval
  <2>2. IsFiniteSet((1..L) \X S)
    BY <2>1, FS_Product
  <2> QED
    BY <2>2, FS_SUBSET
<1>2. graph \in [[1..L -> S] -> SUBSET ((1..L) \X S)]
  OBVIOUS
<1>3. ASSUME NEW p \in [1..L -> S], NEW q \in [1..L -> S], graph[p] = graph[q] PROVE p = q
  <2>1. ASSUME NEW t \in 1..L PROVE p[t] = q[t]
    <3>1. <<t, p[t]>> \in graph[q]
      BY <1>3
    <3>2. PICK s \in 1..L : <<t, p[t]>> = <<s, q[s]>>
      BY <3>1
    <3> QED
      BY <3>2
  <2> QED
    BY <2>1
<1> HIDE DEF graph
<1>4. graph \in Injection([1..L -> S], SUBSET ((1..L) \X S))
  BY <1>2, <1>3 DEF Injection, IsInjective
<1> QED
  BY <1>1, <1>4, FS_Injection

\* c goes from place t on by the factors k.
Chained(c, t, L, k) == c \in [1..L -> Nat] /\ \A s \in t..(L - 1) : c[s + 1] = c[s] * k[s + 1]

LEMMA ChainExists ==
    ASSUME NEW L \in Nat, NEW t \in 1..L, NEW k \in [1..L -> Nat], NEW b \in Nat
    PROVE  \E c : Chained(c, t, L, k) /\ c[t] = b
<1> DEFINE Good(c, n) == /\ c \in [1..L -> Nat] /\ c[t] = b
                         /\ \A s \in t..(n - 1) : c[s + 1] = c[s] * k[s + 1]
           Z == {n \in 0..L : \E c : Good(c, n)}
<1>1. 0 \in Z
  <2>1. Good([s \in 1..L |-> b], 0)
    OBVIOUS
  <2> QED
    BY <2>1
<1>2. ASSUME NEW n \in 0..(L - 1), n \in Z PROVE n + 1 \in Z
  <2>0. n + 1 \in 0..L
    OBVIOUS
  <2>1. PICK c : Good(c, n)
    BY <1>2
  <2>2. CASE n < t
    <3>1. Good(c, n + 1)
      BY <2>1, <2>2
    <3> HIDE DEF Good
    <3> QED
      BY <2>0, <3>1
  <2>3. CASE n >= t
    <3> DEFINE d == [c EXCEPT ![n + 1] = c[n] * k[n + 1]]
    <3>1. n \in 1..L /\ n + 1 \in 1..L
      BY <2>3
    <3>2. c[n] \in Nat /\ k[n + 1] \in Nat
      BY <2>1, <3>1
    <3>3. c[n] * k[n + 1] \in Nat
      BY <3>2
    <3>4. d \in [1..L -> Nat] /\ d[n + 1] = c[n] * k[n + 1] /\ \A s \in 1..n : d[s] = c[s]
      BY <2>1, <3>1, <3>3
    <3> HIDE DEF d
    <3>5. \A s \in t..n : d[s + 1] = d[s] * k[s + 1]
      <4>1. \A s \in t..(n - 1) : s \in 1..n /\ s + 1 \in 1..n
        OBVIOUS
      <4>2. \A s \in t..(n - 1) : d[s + 1] = d[s] * k[s + 1]
        BY <2>1, <3>4, <4>1
      <4>3. d[n + 1] = d[n] * k[n + 1]
        BY <3>1, <3>4
      <4>4. \A s \in t..n : s \in t..(n - 1) \/ s = n
        OBVIOUS
      <4> QED
        BY <4>2, <4>3, <4>4
    <3>6. d[t] = b
      BY <2>1, <2>3, <3>4
    <3>7. Good(d, n + 1)
      BY <3>4, <3>5, <3>6
    <3> HIDE DEF Good
    <3> QED
      BY <2>0, <3>7
  <2> HIDE DEF Z
  <2>4. n < t \/ n >= t
    OBVIOUS
  <2> QED
    BY <2>2, <2>3, <2>4
<1> HIDE DEF Z
<1>3. \A n \in 0..L : n \in Z
  BY <1>1, <1>2, CountUp
<1>4. L \in Z
  BY <1>3
<1>5. PICK c : Good(c, L)
  <2> HIDE DEF Good
  <2> QED
    BY <1>4 DEF Z
<1> QED
  BY <1>5 DEF Chained

ChainFrom(L, k, b) == \E c : Chained(c, 1, L, k) /\ c[1] = b

LEMMA ChainBegins ==
    ASSUME NEW L \in Nat, 1 \in 1..L, NEW k \in [1..L -> Nat], NEW b \in Nat
    PROVE  ChainFrom(L, k, b)
BY ChainExists DEF ChainFrom

\* A chain that starts from one gives every other one by the same factors.
LEMMA ChainsAgree ==
    ASSUME NEW L \in Nat, NEW t \in 1..L, NEW u \in t..L,
           NEW k, NEW x, NEW m, NEW c, Chained(x, t, L, k), Chained(c, t, L, m), c[t] = 1,
           \A s \in (t + 1)..u : m[s] = k[s] /\ k[s] \in Nat
    PROVE  x[u] = x[t] * c[u]
<1> DEFINE Z == {n \in 0..(u - t) : x[t + n] = x[t] * c[t + n]}
<1>0. u - t \in Nat /\ x[t] \in Nat
  BY DEF Chained
<1>1. 0 \in Z
  BY <1>0
<1>2. ASSUME NEW n \in 0..(u - t - 1), n \in Z PROVE n + 1 \in Z
  <2>1. PICK s : s = t + n
    OBVIOUS
  <2>2. s \in t..(L - 1) /\ s + 1 \in (t + 1)..u /\ s \in 1..L /\ t + (n + 1) = s + 1
    BY <2>1
  <2>3. x[s + 1] = x[s] * k[s + 1] /\ c[s + 1] = c[s] * k[s + 1]
    BY <2>2 DEF Chained
  <2>4. x[s] = x[t] * c[s]
    BY <1>2, <2>1
  <2>5. c[s] \in Nat /\ k[s + 1] \in Nat
    BY <2>2 DEF Chained
  <2>6. ASSUME NEW a \in Nat, NEW b \in Nat, NEW e \in Nat PROVE (a * b) * e = a * (b * e)
    OBVIOUS
  <2>7. x[s + 1] = x[t] * c[s + 1]
    BY <1>0, <2>3, <2>4, <2>5, <2>6
  <2>8. n + 1 \in 0..(u - t)
    BY <1>0
  <2> QED
    BY <2>2, <2>7, <2>8
<1> HIDE DEF Z
<1>3. u - t \in Z
  BY <1>0, <1>1, <1>2, CountUp
<1>4. x[t + (u - t)] = x[t] * c[t + (u - t)] /\ t + (u - t) = u
  BY <1>3 DEF Z
<1> QED
  BY <1>4

-----------------------------------------------------------------------------
(* Weights of the ways through S at L times: by the transitions tr and, at *)
(* each time, the emissions em.                                            *)

Ways(S, L) == [1..L -> S]

Links(tr, em, p, L) == [s \in 1..L |-> IF s = 1 THEN 0 ELSE tr[p[s - 1]][p[s]] * em[s][p[s]]]

\* w[p][t] is the weight of p up to time t.
Weighing(S, L, tr, em, w) ==
    /\ IsFiniteSet(S) /\ L \in Nat \ {0}
    /\ tr \in [S -> [S -> Nat]] /\ em \in [1..L -> [S -> Nat]]
    /\ \A p \in Ways(S, L) : w[p][1] = em[1][p[1]] /\ Chained(w[p], 1, L, Links(tr, em, p, L))

\* Every way has a weight.
LEMMA AllWeighed ==
    ASSUME NEW S, IsFiniteSet(S), NEW L \in Nat \ {0},
           NEW tr \in [S -> [S -> Nat]], NEW em \in [1..L -> [S -> Nat]]
    PROVE  \E w : Weighing(S, L, tr, em, w)
<1> DEFINE Right(p, c) == Chained(c, 1, L, Links(tr, em, p, L)) /\ c[1] = em[1][p[1]]
           Weigh(p) == CHOOSE c : Right(p, c)
           w == [p \in Ways(S, L) |-> Weigh(p)]
<1>1. ASSUME NEW p \in Ways(S, L) PROVE \E c : Right(p, c)
  <2>1. \A s \in 1..L : p[s] \in S
    BY DEF Ways
  <2>2. Links(tr, em, p, L) \in [1..L -> Nat]
    <3>1. ASSUME NEW s \in 1..L, s # 1 PROVE tr[p[s - 1]][p[s]] * em[s][p[s]] \in Nat
      <4>1. p[s - 1] \in S /\ p[s] \in S
        BY <2>1, <3>1
      <4>2. PICK x, y : x = tr[p[s - 1]][p[s]] /\ y = em[s][p[s]]
        OBVIOUS
      <4>3. x \in Nat /\ y \in Nat
        BY <4>1, <4>2
      <4>4. x * y \in Nat
        BY <4>3
      <4> QED
        BY <4>2, <4>4
    <3> QED
      BY <3>1 DEF Links
  <2>3. em[1][p[1]] \in Nat /\ 1 \in 1..L /\ L \in Nat
    BY <2>1
  <2>4. ChainFrom(L, Links(tr, em, p, L), em[1][p[1]])
    BY <2>2, <2>3, ChainBegins
  <2> QED
    BY <2>4 DEF ChainFrom
<1>2. ASSUME NEW p \in Ways(S, L) PROVE w[p] = Weigh(p) /\ Right(p, Weigh(p))
  <2> HIDE DEF Right
  <2> QED
    BY <1>1, Zenon
<1> HIDE DEF w, Weigh
<1>3. ASSUME NEW p \in Ways(S, L)
      PROVE  w[p][1] = em[1][p[1]] /\ Chained(w[p], 1, L, Links(tr, em, p, L))
  <2>1. w[p] = Weigh(p) /\ Right(p, w[p])
    BY <1>2
  <2> QED
    BY <2>1
<1>4. Weighing(S, L, tr, em, w)
  BY <1>3 DEF Weighing
<1> QED
  BY <1>4

\* The forward and the backward recursion.
Forwards(S, L, tr, em, al) ==
    /\ al \in [1..L -> [S -> Nat]]
    /\ \A j \in S : al[1][j] = em[1][j]
    /\ \A t \in 1..(L - 1), j \in S :
         al[t + 1][j] = AddedUp([i \in S |-> al[t][i] * tr[i][j]]) * em[t + 1][j]

Backwards(S, L, tr, em, be) ==
    /\ be \in [1..L -> [S -> Nat]]
    /\ \A i \in S : be[L][i] = 1
    /\ \A t \in 1..(L - 1), i \in S :
         be[t][i] = AddedUp([j \in S |-> tr[i][j] * em[t + 1][j] * be[t + 1][j]])

\* The ways that agree with r from time t to time u, and what they weigh up to n.
Agreeing(S, L, r, t, u) == {p \in Ways(S, L) : \A s \in t..u : p[s] = r[s]}
WeightsOf(A, w, n) == [p \in A |-> w[p][n]]

LEMMA WeightsTyped ==
    ASSUME NEW S, NEW L, NEW tr, NEW em, NEW w, Weighing(S, L, tr, em, w),
           NEW A \in SUBSET Ways(S, L), NEW n \in 1..L
    PROVE  IsFiniteSet(A) /\ WeightsOf(A, w, n) \in [A -> Int]
           /\ \A p \in A : w[p][n] \in Nat
<1>1. IsFiniteSet(Ways(S, L))
  BY WaysFinite DEF Weighing, Ways
<1>2. \A p \in Ways(S, L) : w[p] \in [1..L -> Nat]
  BY DEF Weighing, Chained
<1>3. \A p \in A : w[p][n] \in Nat
  BY <1>2
<1> QED
  BY <1>1, <1>3, FS_Subset DEF WeightsOf

\* Of one way.
LEMMA OneWeighs ==
    ASSUME NEW S, NEW L, NEW tr, NEW em, NEW w, Weighing(S, L, tr, em, w),
           NEW r \in Ways(S, L), NEW n \in 1..L
    PROVE  AddedUp(WeightsOf({r}, w, n)) = w[r][n]
<1>1. {r} \in SUBSET Ways(S, L) /\ r \in {r}
  OBVIOUS
<1>2. IsFiniteSet({r}) /\ WeightsOf({r}, w, n) \in [{r} -> Int] /\ w[r][n] \in Nat
  BY <1>1, WeightsTyped
<1>3. AddedUp(WeightsOf({r}, w, n))
        = WeightsOf({r}, w, n)[r] + AddedUp(PartOf(WeightsOf({r}, w, n), {r} \ {r}))
  BY <1>1, <1>2, AddedUpWith
<1>4. {r} \ {r} = {} /\ WeightsOf({r}, w, n)[r] = w[r][n]
  BY DEF WeightsOf
<1> QED
  BY <1>2, <1>3, <1>4, PartNothing

LEMMA ForwardCounts ==
    ASSUME NEW S, NEW L, NEW tr, NEW em, NEW w, NEW al,
           Weighing(S, L, tr, em, w), Forwards(S, L, tr, em, al)
    PROVE  \A t \in 1..L : \A r \in Ways(S, L) :
             AddedUp(WeightsOf(Agreeing(S, L, r, t, L), w, t)) = al[t][r[t]]
<1> DEFINE Counted(t) == \A r \in Ways(S, L) :
                           AddedUp(WeightsOf(Agreeing(S, L, r, t, L), w, t)) = al[t][r[t]]
           Z == {n \in 0..(L - 1) : Counted(n + 1)}
<1>0. L \in Nat \ {0} /\ L - 1 \in Nat
  BY DEF Weighing
<1>1. 0 \in Z
  <2>1. ASSUME NEW r \in Ways(S, L) PROVE AddedUp(WeightsOf(Agreeing(S, L, r, 1, L), w, 1)) = al[1][r[1]]
    <3>1. Agreeing(S, L, r, 1, L) = {r}
      <4>1. ASSUME NEW p \in Ways(S, L), \A s \in 1..L : p[s] = r[s] PROVE p = r
        <5>1. p \in [1..L -> S] /\ r \in [1..L -> S]
          BY <4>1 DEF Ways
        <5> QED
          BY <1>0, <4>1, <5>1
      <4> QED
        BY <4>1 DEF Agreeing
    <3>2. AddedUp(WeightsOf({r}, w, 1)) = w[r][1]
      BY <1>0, OneWeighs
    <3>3. r[1] \in S
      BY <1>0 DEF Ways
    <3> QED
      BY <3>1, <3>2, <3>3 DEF Weighing, Forwards
  <2> QED
    BY <1>0, <2>1
<1>2. ASSUME NEW t \in 1..(L - 1), Counted(t) PROVE Counted(t + 1)
  <2> SUFFICES ASSUME NEW r \in Ways(S, L)
               PROVE  AddedUp(WeightsOf(Agreeing(S, L, r, t + 1, L), w, t + 1)) = al[t + 1][r[t + 1]]
    OBVIOUS
  <2>1. PICK A, f, k, e : /\ A = Agreeing(S, L, r, t + 1, L)
                          /\ f = WeightsOf(A, w, t + 1)
                          /\ k = [p \in A |-> p[t]]
                          /\ e = em[t + 1][r[t + 1]]
    OBVIOUS
  <2>2. t \in 1..L /\ t + 1 \in 1..L /\ t + 1 # 1 /\ (t + 1) - 1 = t
    BY <1>0
  <2>3. r[t + 1] \in S /\ e \in Nat
    BY <2>1, <2>2 DEF Ways, Weighing
  <2>4. A \in SUBSET Ways(S, L)
    BY <2>1 DEF Agreeing
  <2>5. IsFiniteSet(A) /\ f \in [A -> Int] /\ k \in [A -> S] /\ IsFiniteSet(S)
    <3>1. IsFiniteSet(A) /\ f \in [A -> Int]
      BY <2>1, <2>2, <2>4, WeightsTyped
    <3>2. k \in [A -> S]
      BY <2>1, <2>2, <2>4 DEF Ways
    <3>3. IsFiniteSet(S)
      BY DEF Weighing
    <3> QED
      BY <3>1, <3>2, <3>3
  <2> DEFINE Part(i) == {p \in A : k[p] = i}
             g == [i \in S |-> AddedUp(PartOf(f, Part(i)))]
             h == [i \in S |-> al[t][i] * tr[i][r[t + 1]]]
  <2>6. h \in [S -> Int] /\ \A i \in S : tr[i][r[t + 1]] \in Nat /\ al[t][i] \in Nat
    <3>1. \A i \in S : tr[i][r[t + 1]] \in Nat /\ al[t][i] \in Nat
      BY <2>2, <2>3 DEF Weighing, Forwards
    <3> QED
      BY <3>1
  <2>7. ASSUME NEW i \in S PROVE g[i] = e * h[i]
    <3>1. PICK q, B, c : /\ q = [r EXCEPT ![t] = i] /\ B = Agreeing(S, L, q, t, L)
                         /\ c = tr[i][r[t + 1]] * e
      OBVIOUS
    <3>2. q \in Ways(S, L) /\ q[t] = i /\ \A s \in 1..L : s # t => q[s] = r[s]
      BY <2>2, <3>1 DEF Ways
    <3>3. Part(i) = B
      <4>1. ASSUME NEW p \in Ways(S, L)
            PROVE  (\A s \in t..L : p[s] = q[s])
                     <=> (\A s \in (t + 1)..L : p[s] = r[s]) /\ p[t] = i
        BY <2>2, <3>2
      <4>2. \A p : p \in B <=> p \in Ways(S, L) /\ \A s \in t..L : p[s] = q[s]
        BY <3>1 DEF Agreeing
      <4>3. \A p : p \in A <=> p \in Ways(S, L) /\ \A s \in (t + 1)..L : p[s] = r[s]
        BY <2>1 DEF Agreeing
      <4>4. \A p \in A : k[p] = p[t]
        BY <2>1
      <4> QED
        BY <4>1, <4>2, <4>3, <4>4
    <3>4. B \in SUBSET Ways(S, L) /\ B \subseteq A
      BY <3>1, <3>3 DEF Agreeing
    <3>5. /\ IsFiniteSet(B) /\ WeightsOf(B, w, t) \in [B -> Int]
          /\ \A p \in B : w[p][t] \in Nat /\ w[p][t + 1] \in Nat
      BY <2>2, <3>4, WeightsTyped
    <3>6. c \in Int
      BY <2>3, <2>6, <3>1
    <3>7. ASSUME NEW p \in B PROVE w[p][t + 1] = c * w[p][t]
      <4>1. p \in Ways(S, L) /\ p[t] = i /\ p[t + 1] = r[t + 1]
        BY <2>2, <3>1, <3>2 DEF Agreeing
      <4>2. w[p][t + 1] = w[p][t] * Links(tr, em, p, L)[t + 1]
        BY <2>2, <4>1 DEF Weighing, Chained
      <4>3. Links(tr, em, p, L)[t + 1] = c
        BY <2>1, <2>2, <3>1, <4>1 DEF Links
      <4> QED
        BY <3>5, <3>6, <4>2, <4>3
    <3>8. PartOf(f, B) \in [B -> Int] /\ \A p \in B : PartOf(f, B)[p] = c * WeightsOf(B, w, t)[p]
      <4>1. \A p \in B : PartOf(f, B)[p] = w[p][t + 1] /\ WeightsOf(B, w, t)[p] = w[p][t]
        BY <2>1, <3>4 DEF PartOf, WeightsOf
      <4>2. PartOf(f, B) \in [B -> Int]
        BY <2>5, <3>4 DEF PartOf
      <4> QED
        BY <3>7, <4>1, <4>2
    <3>9. AddedUp(PartOf(f, B)) = c * AddedUp(WeightsOf(B, w, t))
      BY <3>5, <3>6, <3>8, AddedUpScaled
    <3>10. AddedUp(WeightsOf(B, w, t)) = al[t][i]
      BY <1>2, <3>1, <3>2
    <3>11. g[i] = AddedUp(PartOf(f, B)) /\ h[i] = al[t][i] * tr[i][r[t + 1]]
      BY <3>3
    <3>12. ASSUME NEW a \in Nat, NEW b \in Nat PROVE (b * e) * a = e * (a * b)
      BY <2>3
    <3> HIDE DEF g, h
    <3> QED
      BY <2>6, <3>1, <3>9, <3>10, <3>11, <3>12
  <2>8. g = [i \in S |-> AddedUp(PartOf(f, Part(i)))]
    OBVIOUS
  <2> HIDE DEF g, h
  <2>9. AddedUp(f) = AddedUp(g)
    BY <2>5, <2>8, AddedUpByParts
  <2>10. g \in [S -> Int]
    <3>1. \A i \in S : e * h[i] \in Int
      BY <2>3, <2>6
    <3> QED
      BY <2>7, <2>8, <3>1
  <2>11. AddedUp(g) = e * AddedUp(h)
    BY <2>3, <2>5, <2>6, <2>7, <2>10, AddedUpScaled
  <2>12. al[t + 1][r[t + 1]] = AddedUp(h) * e
    BY <2>1, <2>3 DEF Forwards, h
  <2>13. AddedUp(h) \in Int
    BY <2>5, <2>6, AddedUpTyped
  <2> QED
    BY <2>1, <2>3, <2>9, <2>11, <2>12, <2>13
<1>3. ASSUME NEW n \in 0..((L - 1) - 1), n \in Z PROVE n + 1 \in Z
  <2> HIDE DEF Counted
  <2>1. n + 1 \in 1..(L - 1) /\ Counted(n + 1) /\ n + 1 \in 0..(L - 1)
    BY <1>0, <1>3
  <2> QED
    BY <1>2, <2>1
<1> HIDE DEF Z, Counted
<1>4. \A n \in 0..(L - 1) : n \in Z
  BY <1>0, <1>1, <1>3, CountUp
<1>5. ASSUME NEW t \in 1..L PROVE Counted(t)
  <2>1. t - 1 \in 0..(L - 1) /\ (t - 1) + 1 = t
    BY <1>0
  <2>2. t - 1 \in Z
    BY <1>4, <2>1
  <2> QED
    BY <2>1, <2>2 DEF Z
<1> QED
  BY <1>5 DEF Counted

LEMMA BackwardCounts ==
    ASSUME NEW S, NEW L, NEW tr, NEW em, NEW w, NEW al, NEW be,
           Weighing(S, L, tr, em, w), Forwards(S, L, tr, em, al), Backwards(S, L, tr, em, be),
           NEW t \in 1..L
    PROVE  \A u \in t..L : \A r \in Ways(S, L) : \A c :
             Chained(c, t, L, Links(tr, em, r, L)) /\ c[t] = 1 =>
               AddedUp(WeightsOf(Agreeing(S, L, r, t, u), w, L)) = al[t][r[t]] * c[u] * be[u][r[u]]
<1> DEFINE Runs(c, r) == Chained(c, t, L, Links(tr, em, r, L)) /\ c[t] = 1
           Counted(u) == \A r \in Ways(S, L) : \A c : Runs(c, r) =>
               AddedUp(WeightsOf(Agreeing(S, L, r, t, u), w, L)) = al[t][r[t]] * c[u] * be[u][r[u]]
           Z == {n \in 0..(L - t) : Counted(L - n)}
<1>0. L \in Nat \ {0} /\ L - t \in Nat /\ L \in 1..L
  BY DEF Weighing
<1>1. Counted(L)
  <2> SUFFICES ASSUME NEW r \in Ways(S, L), NEW c, Runs(c, r)
               PROVE  AddedUp(WeightsOf(Agreeing(S, L, r, t, L), w, L))
                        = al[t][r[t]] * c[L] * be[L][r[L]]
    OBVIOUS
  <2>1. PICK A : A = Agreeing(S, L, r, t, L)
    OBVIOUS
  <2>2. A \in SUBSET Ways(S, L)
    BY <2>1 DEF Agreeing
  <2>3. /\ IsFiniteSet(A) /\ WeightsOf(A, w, t) \in [A -> Int] /\ WeightsOf(A, w, L) \in [A -> Int]
        /\ \A p \in A : w[p][t] \in Nat
    BY <1>0, <2>2, WeightsTyped
  <2>4. c[L] \in Nat
    BY <1>0 DEF Chained
  <2>5. ASSUME NEW p \in A PROVE w[p][L] = c[L] * w[p][t]
    <3>1. p \in Ways(S, L) /\ \A s \in t..L : p[s] = r[s]
      BY <2>1 DEF Agreeing
    <3>2. Chained(w[p], 1, L, Links(tr, em, p, L))
      BY <3>1 DEF Weighing
    <3>3. Chained(w[p], t, L, Links(tr, em, p, L))
      BY <3>2 DEF Chained
    <3>4. ASSUME NEW s \in (t + 1)..L
          PROVE  /\ Links(tr, em, r, L)[s] = Links(tr, em, p, L)[s]
                 /\ Links(tr, em, p, L)[s] \in Nat
      <4>1. s \in 1..L /\ s # 1 /\ s - 1 \in t..L /\ s \in t..L /\ s - 1 \in 1..L
        BY <1>0
      <4>2. p[s] = r[s] /\ p[s - 1] = r[s - 1] /\ p[s] \in S /\ p[s - 1] \in S
        BY <3>1, <4>1 DEF Ways
      <4>3. tr[p[s - 1]][p[s]] \in Nat /\ em[s][p[s]] \in Nat
        BY <4>1, <4>2 DEF Weighing
      <4> QED
        BY <4>1, <4>2, <4>3 DEF Links
    <3>5. L \in t..L
      BY <1>0
    <3>6. w[p][L] = w[p][t] * c[L]
      BY <1>0, <3>3, <3>4, <3>5, ChainsAgree
    <3> QED
      BY <2>3, <2>4, <3>6
  <2>6. \A p \in A : WeightsOf(A, w, L)[p] = c[L] * WeightsOf(A, w, t)[p]
    BY <2>5 DEF WeightsOf
  <2>7. AddedUp(WeightsOf(A, w, L)) = c[L] * AddedUp(WeightsOf(A, w, t))
    BY <2>3, <2>4, <2>6, AddedUpScaled
  <2>8. AddedUp(WeightsOf(A, w, t)) = al[t][r[t]]
    BY <2>1, ForwardCounts
  <2>9. r[t] \in S /\ r[L] \in S
    BY <1>0 DEF Ways
  <2>10. al[t][r[t]] \in Nat /\ be[L][r[L]] = 1
    BY <2>9 DEF Forwards, Backwards
  <2> QED
    BY <2>1, <2>4, <2>7, <2>8, <2>10
<1>2. ASSUME NEW u \in t..(L - 1), Counted(u + 1) PROVE Counted(u)
  <2> SUFFICES ASSUME NEW r \in Ways(S, L), NEW c, Runs(c, r)
               PROVE  AddedUp(WeightsOf(Agreeing(S, L, r, t, u), w, L))
                        = al[t][r[t]] * c[u] * be[u][r[u]]
    OBVIOUS
  <2>1. PICK A, f, k, e : /\ A = Agreeing(S, L, r, t, u)
                          /\ f = WeightsOf(A, w, L)
                          /\ k = [p \in A |-> p[u + 1]]
                          /\ e = al[t][r[t]] * c[u]
    OBVIOUS
  <2>2. u \in 1..L /\ u + 1 \in 1..L /\ u + 1 # 1 /\ (u + 1) - 1 = u /\ u \in 1..(L - 1)
    BY <1>0
  <2>3. r[u] \in S /\ r[t] \in S
    BY <2>2 DEF Ways
  <2>4. e \in Nat /\ al[t][r[t]] \in Nat /\ c[u] \in Nat
    BY <2>1, <2>2, <2>3 DEF Forwards, Chained
  <2>5. A \in SUBSET Ways(S, L)
    BY <2>1 DEF Agreeing
  <2>6. IsFiniteSet(A) /\ f \in [A -> Int] /\ k \in [A -> S] /\ IsFiniteSet(S)
    <3>1. IsFiniteSet(A) /\ f \in [A -> Int]
      BY <1>0, <2>1, <2>5, WeightsTyped
    <3>2. k \in [A -> S]
      BY <2>1, <2>2, <2>5 DEF Ways
    <3>3. IsFiniteSet(S)
      BY DEF Weighing
    <3> QED
      BY <3>1, <3>2, <3>3
  <2> DEFINE Part(i) == {p \in A : k[p] = i}
             g == [j \in S |-> AddedUp(PartOf(f, Part(j)))]
             h == [j \in S |-> tr[r[u]][j] * em[u + 1][j] * be[u + 1][j]]
  <2>7. \A j \in S : tr[r[u]][j] \in Nat /\ em[u + 1][j] \in Nat /\ be[u + 1][j] \in Nat
    BY <2>2, <2>3 DEF Weighing, Backwards
  <2>8. h \in [S -> Int]
    BY <2>7
  <2>9. ASSUME NEW j \in S PROVE g[j] = e * h[j]
    <3>1. PICK q, B : q = [r EXCEPT ![u + 1] = j] /\ B = Agreeing(S, L, q, t, u + 1)
      OBVIOUS
    <3>2. q \in Ways(S, L) /\ q[u + 1] = j /\ \A s \in 1..L : s # u + 1 => q[s] = r[s]
      BY <2>2, <3>1 DEF Ways
    <3>3. Part(j) = B
      <4>1. ASSUME NEW p \in Ways(S, L)
            PROVE  (\A s \in t..(u + 1) : p[s] = q[s])
                     <=> (\A s \in t..u : p[s] = r[s]) /\ p[u + 1] = j
        <5>1. \A s \in t..u : s \in 1..L /\ s # u + 1 /\ s \in t..(u + 1)
          BY <1>0, <2>2
        <5>2. \A s \in t..(u + 1) : s \in t..u \/ s = u + 1
          BY <2>2
        <5>3. u + 1 \in t..(u + 1)
          BY <2>2
        <5>4. \A s \in t..u : q[s] = r[s]
          BY <3>2, <5>1
        <5> QED
          BY <3>2, <5>1, <5>2, <5>3, <5>4
      <4>2. \A p : p \in B <=> p \in Ways(S, L) /\ \A s \in t..(u + 1) : p[s] = q[s]
        BY <3>1 DEF Agreeing
      <4>3. \A p : p \in A <=> p \in Ways(S, L) /\ \A s \in t..u : p[s] = r[s]
        BY <2>1 DEF Agreeing
      <4>4. \A p \in A : k[p] = p[u + 1]
        BY <2>1
      <4> QED
        BY <4>1, <4>2, <4>3, <4>4
    <3>4. PartOf(f, B) = WeightsOf(B, w, L)
      <4>1. B \subseteq A
        BY <3>3
      <4> QED
        BY <2>1, <4>1 DEF PartOf, WeightsOf
    <3>5. Links(tr, em, q, L) \in [1..L -> Nat] /\ Links(tr, em, r, L) \in [1..L -> Nat]
      <4>1. ASSUME NEW p \in Ways(S, L), NEW s \in 1..L, s # 1
            PROVE  tr[p[s - 1]][p[s]] * em[s][p[s]] \in Nat
        <5>1. p[s - 1] \in S /\ p[s] \in S
          BY <1>0, <4>1 DEF Ways
        <5>2. tr[p[s - 1]][p[s]] \in Nat /\ em[s][p[s]] \in Nat
          BY <5>1 DEF Weighing
        <5> QED
          BY <5>2
      <4>2. ASSUME NEW p \in Ways(S, L) PROVE Links(tr, em, p, L) \in [1..L -> Nat]
        BY <4>1 DEF Links
      <4> QED
        BY <3>2, <4>2
    <3>6. PICK d : Chained(d, t, L, Links(tr, em, q, L)) /\ d[t] = 1
      BY <1>0, <3>5, ChainExists
    <3>7. d[u] = c[u]
      <4>1. ASSUME NEW s \in (t + 1)..u
            PROVE  /\ Links(tr, em, r, L)[s] = Links(tr, em, q, L)[s]
                   /\ Links(tr, em, q, L)[s] \in Nat
        <5>1. s \in 1..L /\ s - 1 \in 1..L /\ s # u + 1 /\ s - 1 # u + 1
          BY <1>0, <2>2
        <5>2. q[s] = r[s] /\ q[s - 1] = r[s - 1]
          BY <3>2, <5>1
        <5> QED
          BY <3>5, <5>1, <5>2 DEF Links
      <4>2. d[u] = d[t] * c[u]
        BY <1>0, <2>2, <3>6, <4>1, ChainsAgree
      <4> QED
        BY <2>4, <3>6, <4>2
    <3>8. d[u + 1] = c[u] * (tr[r[u]][j] * em[u + 1][j])
      <4>1. d[u + 1] = d[u] * Links(tr, em, q, L)[u + 1]
        BY <3>6 DEF Chained
      <4>2. q[u] = r[u]
        BY <2>2, <3>2
      <4>3. Links(tr, em, q, L)[u + 1] = tr[r[u]][j] * em[u + 1][j]
        BY <2>2, <3>2, <4>2 DEF Links
      <4> QED
        BY <3>7, <4>1, <4>3
    <3>9. q[t] = r[t]
      BY <2>2, <3>2
    <3>10. AddedUp(WeightsOf(B, w, L)) = al[t][r[t]] * d[u + 1] * be[u + 1][j]
      BY <1>2, <3>1, <3>2, <3>6, <3>9
    <3>11. g[j] = AddedUp(WeightsOf(B, w, L)) /\ h[j] = tr[r[u]][j] * em[u + 1][j] * be[u + 1][j]
      BY <3>3, <3>4
    <3>12. ASSUME NEW x \in Nat, NEW y \in Nat, NEW a \in Nat, NEW b \in Nat, NEW z \in Nat
           PROVE  x * (y * (a * b)) * z = (x * y) * (a * b * z)
      <4>1. a * b \in Nat
        OBVIOUS
      <4>2. ASSUME NEW m \in Nat PROVE x * (y * m) * z = (x * y) * (m * z)
        OBVIOUS
      <4> QED
        BY <4>1, <4>2
    <3> HIDE DEF g, h
    <3> QED
      BY <2>1, <2>4, <2>7, <3>8, <3>10, <3>11, <3>12
  <2>10. g = [j \in S |-> AddedUp(PartOf(f, Part(j)))]
    OBVIOUS
  <2> HIDE DEF g, h
  <2>11. AddedUp(f) = AddedUp(g)
    BY <2>6, <2>10, AddedUpByParts
  <2>12. g \in [S -> Int]
    <3>1. \A j \in S : e * h[j] \in Int
      BY <2>4, <2>8
    <3> QED
      BY <2>9, <2>10, <3>1
  <2>13. AddedUp(g) = e * AddedUp(h)
    BY <2>4, <2>6, <2>8, <2>9, <2>12, AddedUpScaled
  <2>14. be[u][r[u]] = AddedUp(h)
    BY <2>2, <2>3 DEF Backwards, h
  <2> QED
    BY <2>1, <2>11, <2>13, <2>14
<1>3. ASSUME NEW n \in 0..((L - t) - 1), n \in Z PROVE n + 1 \in Z
  <2> HIDE DEF Counted
  <2>1. /\ L - (n + 1) \in t..(L - 1) /\ (L - (n + 1)) + 1 = L - n /\ Counted(L - n)
        /\ n + 1 \in 0..(L - t)
    BY <1>0, <1>3
  <2>2. Counted(L - (n + 1))
    BY <1>2, <2>1
  <2> QED
    BY <2>1, <2>2
<1>4. 0 \in Z
  <2> HIDE DEF Counted
  <2>1. L - 0 = L /\ 0 \in 0..(L - t)
    BY <1>0
  <2> QED
    BY <1>1, <2>1
<1> HIDE DEF Z, Counted
<1>5. \A n \in 0..(L - t) : n \in Z
  BY <1>0, <1>3, <1>4, CountUp
<1>6. ASSUME NEW u \in t..L PROVE Counted(u)
  <2>1. L - u \in 0..(L - t) /\ L - (L - u) = u
    BY <1>0
  <2>2. L - u \in Z
    BY <1>5, <2>1
  <2> QED
    BY <2>1, <2>2 DEF Z
<1> QED
  BY <1>6 DEF Counted

\* What passes through a state, and what makes a move, at a time.
LEMMA StateShares ==
    ASSUME NEW S, NEW L, NEW tr, NEW em, NEW w, NEW al, NEW be,
           Weighing(S, L, tr, em, w), Forwards(S, L, tr, em, al), Backwards(S, L, tr, em, be),
           NEW t \in 1..L, NEW i \in S
    PROVE  AddedUp(WeightsOf({p \in Ways(S, L) : p[t] = i}, w, L)) = al[t][i] * be[t][i]
<1>0. L \in Nat \ {0} /\ t \in t..L
  BY DEF Weighing
<1>1. PICK r : r = [s \in 1..L |-> i]
  OBVIOUS
<1>2. r \in Ways(S, L) /\ r[t] = i
  BY <1>1 DEF Ways
<1>3. Links(tr, em, r, L) \in [1..L -> Nat]
  <2>1. \A s \in 1..L : s # 1 => r[s - 1] = i /\ r[s] = i
    BY <1>0, <1>1
  <2>2. \A s \in 1..L : tr[i][i] * em[s][i] \in Nat
    BY DEF Weighing
  <2> QED
    BY <2>1, <2>2 DEF Links
<1>4. PICK c : Chained(c, t, L, Links(tr, em, r, L)) /\ c[t] = 1
  BY <1>0, <1>3, ChainExists
<1>5. AddedUp(WeightsOf(Agreeing(S, L, r, t, t), w, L)) = al[t][r[t]] * c[t] * be[t][r[t]]
  BY <1>0, <1>2, <1>4, BackwardCounts
<1>6. Agreeing(S, L, r, t, t) = {p \in Ways(S, L) : p[t] = i}
  BY <1>2 DEF Agreeing
<1>7. al[t][i] \in Nat
  BY DEF Forwards
<1> QED
  BY <1>2, <1>4, <1>5, <1>6, <1>7

LEMMA MoveShares ==
    ASSUME NEW S, NEW L, NEW tr, NEW em, NEW w, NEW al, NEW be,
           Weighing(S, L, tr, em, w), Forwards(S, L, tr, em, al), Backwards(S, L, tr, em, be),
           NEW t \in 1..(L - 1), NEW i \in S, NEW j \in S
    PROVE  AddedUp(WeightsOf({p \in Ways(S, L) : p[t] = i /\ p[t + 1] = j}, w, L))
             = al[t][i] * (tr[i][j] * em[t + 1][j] * be[t + 1][j])
<1>0. L \in Nat \ {0} /\ t \in 1..L /\ t + 1 \in t..L /\ t + 1 \in 1..L /\ t + 1 # 1
      /\ (t + 1) - 1 = t /\ t \in t..(L - 1)
  BY DEF Weighing
<1>1. PICK r : r = [s \in 1..L |-> IF s = t THEN i ELSE j]
  OBVIOUS
<1>2. r \in Ways(S, L) /\ r[t] = i /\ r[t + 1] = j
  BY <1>0, <1>1 DEF Ways
<1>3. Links(tr, em, r, L) \in [1..L -> Nat]
  <2>1. ASSUME NEW s \in 1..L, s # 1 PROVE tr[r[s - 1]][r[s]] * em[s][r[s]] \in Nat
    <3>1. r[s - 1] \in S /\ r[s] \in S
      BY <1>0, <1>2, <2>1 DEF Ways
    <3>2. tr[r[s - 1]][r[s]] \in Nat /\ em[s][r[s]] \in Nat
      BY <3>1 DEF Weighing
    <3> QED
      BY <3>2
  <2> QED
    BY <2>1 DEF Links
<1>4. PICK c : Chained(c, t, L, Links(tr, em, r, L)) /\ c[t] = 1
  BY <1>0, <1>3, ChainExists
<1>5. AddedUp(WeightsOf(Agreeing(S, L, r, t, t + 1), w, L))
        = al[t][r[t]] * c[t + 1] * be[t + 1][r[t + 1]]
  BY <1>0, <1>2, <1>4, BackwardCounts
<1>6. Agreeing(S, L, r, t, t + 1) = {p \in Ways(S, L) : p[t] = i /\ p[t + 1] = j}
  BY <1>0, <1>2 DEF Agreeing
<1>7. al[t][i] \in Nat /\ tr[i][j] \in Nat /\ em[t + 1][j] \in Nat /\ be[t + 1][j] \in Nat
  BY <1>0 DEF Forwards, Weighing, Backwards
<1>8. c[t + 1] = tr[i][j] * em[t + 1][j]
  <2>1. c[t + 1] = c[t] * Links(tr, em, r, L)[t + 1]
    BY <1>0, <1>4 DEF Chained
  <2>2. Links(tr, em, r, L)[t + 1] = tr[i][j] * em[t + 1][j]
    BY <1>0, <1>2 DEF Links
  <2> QED
    BY <1>4, <1>7, <2>1, <2>2
<1>9. ASSUME NEW x \in Nat, NEW y \in Nat, NEW z \in Nat PROVE x * y * z = x * (y * z)
  OBVIOUS
<1>10. tr[i][j] * em[t + 1][j] \in Nat
  BY <1>7
<1>11. al[t][i] * (tr[i][j] * em[t + 1][j]) * be[t + 1][j]
         = al[t][i] * (tr[i][j] * em[t + 1][j] * be[t + 1][j])
  BY <1>7, <1>9, <1>10
<1> QED
  BY <1>2, <1>5, <1>6, <1>8, <1>11
=============================================================================
