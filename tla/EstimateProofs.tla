--------------------------- MODULE EstimateProofs ---------------------------
(***************************************************************************)
(* What holds of the components that estimate, for every value of their    *)
(* constants: the running variance, the greeks, the tails of the returns,  *)
(* the hypotheses, the mixtures, the tracked volatility and the training   *)
(* of the regime filter; of the signer; and the types of all components    *)
(* that one thread uses at a time.                                         *)
(***************************************************************************)
EXTENDS SequentialProofs

-----------------------------------------------------------------------------
(* The running variance. *)

\* The sum of the squares of the deviations of one more.
LEMMA SquaresMove ==
    ASSUME NEW n \in Nat \ {0}, NEW c \in Nat, NEW T \in Int, NEW Q \in Int, NEW x \in Int,
           NEW m \in Int, NEW S \in Int, NEW d \in Int, S = c * (n * (n + 1)),
           d = n * x - T, n * m = S * S * (n * Q - T * T)
    PROVE  (n + 1) * (m + ((n + 1) * (c * d)) * (n * (c * d)))
             = S * S * ((n + 1) * (Q + x * x) - (T + x) * (T + x))
<1> DEFINE left == (n + 1) * (m + ((n + 1) * (c * d)) * (n * (c * d)))
           right == S * S * ((n + 1) * (Q + x * x) - (T + x) * (T + x))
<1>1. left \in Int /\ right \in Int
  OBVIOUS
<1>2. n * left = (n + 1) * (n * m) + (S * d) * (S * d)
  OBVIOUS
<1>3. (n + 1) * (n * m) + (S * d) * (S * d)
        = S * S * ((n + 1) * (n * Q - T * T) + d * d)
  OBVIOUS
<1>4. (n + 1) * (n * Q - T * T) + d * d
        = n * ((n + 1) * (Q + x * x) - (T + x) * (T + x))
  OBVIOUS
<1>5. n * right = S * S * (n * ((n + 1) * (Q + x * x) - (T + x) * (T + x)))
  OBVIOUS
<1>6. n * left = n * right
  BY <1>2, <1>3, <1>4, <1>5
<1> HIDE DEF left, right
<1>7. left = right
  BY <1>1, <1>6, Cancelled
<1> QED
  BY <1>7 DEF left, right

\* The model's sums are these sums.
SumOfMoves == Numbers!SumOf(LAMBDA x : x)

SumOfSquares == Numbers!SumOf(LAMBDA x : x * x)

LEMMA SumsAre ==
    ASSUME moves \in Seq(Int)
    PROVE  SumOfMoves = Total(moves) /\ SumOfSquares = Total(Squared(moves))
<1> DEFINE B(h) == h = [i \in 0..Len(moves) |-> IF i = 0 THEN 0 ELSE h[i - 1] + moves[i]]
           C(h) == h = [i \in 0..Len(moves) |->
                          IF i = 0 THEN 0 ELSE h[i - 1] + moves[i] * moves[i]]
<1>1. PICK L \in Nat : L = Len(moves) /\ moves \in [1..L -> Int]
  BY IntegerSequence
<1>2. PICK q \in Seq(Int) : q = Squared(moves)
  <2>1. PICK s \in Seq(Int) : s = moves
    OBVIOUS
  <2>2. Squared(s) \in Seq(Int)
    BY <2>1, 0 \in Int, SquaredAppended
  <2> QED
    BY <2>1, <2>2
<1>3. Len(q) = L /\ q \in [1..L -> Int] /\ \A i \in 1..L : q[i] = moves[i] * moves[i]
  BY <1>1, <1>2 DEF Squared
<1>4. SumOfMoves = (CHOOSE h : B(h))[Len(moves)]
  BY Zenon DEF SumOfMoves, Numbers!SumOf
<1>5. SumOfSquares = (CHOOSE h : C(h))[Len(moves)]
  BY Zenon DEF SumOfSquares, Numbers!SumOf
<1>6. \A i \in 0..L : i # 0 => i \in 1..L
  OBVIOUS
<1>7. ASSUME NEW h PROVE B(h) <=> Adds(h, moves, L, 1..L)
  <2>1. \A i \in 0..L : (IF i = 0 THEN 0 ELSE h[i - 1] + moves[i])
          = (IF i = 0 THEN 0 ELSE h[i - 1] + (IF i \in 1..L THEN moves[i] ELSE 0))
    BY <1>6, Zenon
  <2> QED
    BY <1>1, <2>1, Zenon DEF Adds
<1>8. ASSUME NEW h PROVE C(h) <=> Adds(h, q, L, 1..L)
  <2>1. \A i \in 0..L : (IF i = 0 THEN 0 ELSE h[i - 1] + moves[i] * moves[i])
          = (IF i = 0 THEN 0 ELSE h[i - 1] + (IF i \in 1..L THEN q[i] ELSE 0))
    BY <1>3, <1>6, Zenon
  <2> QED
    BY <1>1, <2>1, Zenon DEF Adds
<1> HIDE DEF B, C
<1>9. SumOfMoves = Total(moves)
  <2>1. \E h : Adds(h, moves, L, 1..L)
    BY <1>1, AddsExists
  <2>2. PICK h : SumOfMoves = h[L] /\ Adds(h, moves, L, 1..L)
    BY <1>1, <1>4, <1>7, <2>1
  <2>3. h[L] = SetSum(moves, L, 1..L)
    BY <1>1, <2>2, SummedUp
  <2> QED
    BY <1>1, <2>2, <2>3 DEF Total
<1>10. SumOfSquares = Total(q)
  <2>1. \E h : Adds(h, q, L, 1..L)
    BY <1>3, AddsExists
  <2>2. PICK h : SumOfSquares = h[L] /\ Adds(h, q, L, 1..L)
    BY <1>1, <1>5, <1>8, <2>1
  <2>3. h[L] = SetSum(q, L, 1..L)
    BY <1>3, <2>2, SummedUp
  <2> QED
    BY <1>3, <2>2, <2>3 DEF Total
<1> QED
  BY <1>2, <1>9, <1>10

\* What is kept is what the sums of all returns make it.
VarianceInv ==
    /\ moves \in Seq(Int) /\ mean \in Int /\ m2 \in Int
    /\ Len(moves) = 0 => mean = 0 /\ m2 = 0
    /\ Len(moves) * mean = Scale * Total(moves)
    /\ Len(moves) * m2 = Scale * Scale * (Len(moves) * Total(Squared(moves))
                                            - Total(moves) * Total(moves))

LEMMA VarianceFirst ==
    ASSUME Numbers!NumbersAssumption, Numbers!Init
    PROVE  VarianceInv
<1>1. moves = <<>> /\ mean = 0 /\ m2 = 0
  BY DEF Numbers!Init
<1>2. moves \in Seq(Int) /\ Len(moves) = 0
  BY <1>1
<1>3. Squared(moves) = <<>>
  BY <1>1, <1>2 DEF Squared
<1>4. Total(moves) = 0 /\ Total(Squared(moves)) = 0
  BY <1>1, <1>3, TotalNothing
<1>5. Scale \in Nat
  BY DEF Numbers!NumbersAssumption
<1> QED
  BY <1>1, <1>2, <1>4, <1>5 DEF VarianceInv

LEMMA VarianceMoves ==
    ASSUME Numbers!NumbersAssumption, VarianceInv, NEW x \in Moves, Numbers!Observe(x)
    PROVE  VarianceInv'
<1>1. x \in Int /\ Scale \in Nat /\ MaxCount \in Nat
  BY DEF Numbers!NumbersAssumption
<1>2. PICK n \in Nat : n = Len(moves) /\ n < MaxCount
  BY <1>1 DEF VarianceInv, Numbers!Observe
<1>3. PICK a \in Int, m \in Int, s \in Seq(Int) : a = mean /\ m = m2 /\ s = moves
  BY DEF VarianceInv
<1>4. /\ mean' = a + (Scale * x - a) \div (n + 1)
      /\ m2' = m + (Scale * x - a) * (Scale * x - mean')
      /\ moves' = Append(s, x)
  BY <1>2, <1>3 DEF Numbers!Observe, Numbers!Squares
<1>5. moves' \in Seq(Int) /\ Len(moves') = n + 1
  BY <1>1, <1>2, <1>3, <1>4
<1>6. PICK y \in Int : y = x * x
  BY <1>1
<1>7. PICK T \in Int, Q \in Int : /\ T = Total(s) /\ Total(moves') = T + x
                                  /\ Q = Total(Squared(s)) /\ Total(Squared(moves')) = Q + y
  <2>1. Total(s) \in Int /\ Total(Append(s, x)) = Total(s) + x
    BY <1>1, TotalAppended
  <2>2. Squared(s) \in Seq(Int) /\ Squared(Append(s, x)) = Append(Squared(s), y)
    BY <1>1, <1>6, SquaredAppended
  <2>3. /\ Total(Squared(s)) \in Int
        /\ Total(Append(Squared(s), y)) = Total(Squared(s)) + y
    BY <2>2, TotalAppended
  <2> QED
    BY <1>4, <2>1, <2>2, <2>3
<1>8. /\ n = 0 => a = 0 /\ m = 0
      /\ n * a = Scale * T
      /\ n * m = Scale * Scale * (n * Q - T * T)
  BY <1>2, <1>3, <1>7 DEF VarianceInv
<1>9. /\ mean' \in Int /\ m2' \in Int
      /\ (n + 1) * mean' = Scale * (T + x)
      /\ (n + 1) * m2' = Scale * Scale * ((n + 1) * (Q + y) - (T + x) * (T + x))
  <2>1. CASE n = 0
    <3>1. T = 0 /\ Q = 0
      <4>1. s \in Seq(Int) /\ Len(s) = 0
        BY <1>2, <1>3, <2>1
      <4>2. s = <<>>
        BY <4>1
      <4>3. Squared(s) = <<>>
        BY <4>1, <4>2 DEF Squared
      <4> QED
        BY <1>7, <4>2, <4>3, TotalNothing
    <3>2. PICK z \in Int : z = Scale * x
      BY <1>1
    <3>3. mean' = z
      BY <1>4, <1>8, <2>1, <3>2
    <3>4. m2' = 0
      BY <1>4, <1>8, <2>1, <3>2, <3>3
    <3> QED
      BY <1>1, <1>6, <2>1, <3>1, <3>2, <3>3, <3>4
  <2>2. CASE n # 0
    <3>1. PICK c \in Nat : Scale = c * (n * (n + 1))
      <4>1. n \in 1..(MaxCount - 1)
        BY <1>1, <1>2, <2>2
      <4>2. \E c \in 1..Scale : Scale = c * (n * (n + 1))
        BY <4>1 DEF Numbers!NumbersAssumption
      <4> QED
        BY <1>1, <4>2
    <3>2. n \in Nat \ {0} /\ Scale \in Int
      BY <1>1, <2>2
    <3>3. PICK d \in Int :
             /\ d = n * x - T
             /\ Scale * x - a = (n + 1) * (c * d)
             /\ (Scale * x - a) \div (n + 1) = c * d
             /\ (n + 1) * (a + c * d) = Scale * (T + x)
             /\ Scale * x - (a + c * d) = n * (c * d)
      BY <1>1, <1>8, <3>1, <3>2, MeanMoves
    <3>4. mean' = a + c * d
      BY <1>4, <3>3
    <3>5. m2' = m + ((n + 1) * (c * d)) * (n * (c * d))
      BY <1>4, <3>3, <3>4
    <3>6. (n + 1) * (m + ((n + 1) * (c * d)) * (n * (c * d)))
             = Scale * Scale * ((n + 1) * (Q + x * x) - (T + x) * (T + x))
      BY <1>1, <1>8, <3>1, <3>2, <3>3, SquaresMove
    <3>7. c * d \in Int /\ ((n + 1) * (c * d)) * (n * (c * d)) \in Int
      <4>1. PICK e \in Int : e = c * d
        OBVIOUS
      <4>2. (n + 1) * e \in Int /\ n * e \in Int
        OBVIOUS
      <4> QED
        BY <4>1, <4>2
    <3>8. mean' \in Int /\ (n + 1) * mean' = Scale * (T + x)
      BY <3>3, <3>4, <3>7
    <3>9. m2' \in Int
      BY <3>5, <3>7
    <3>10. (n + 1) * m2' = Scale * Scale * ((n + 1) * (Q + y) - (T + x) * (T + x))
      BY <1>6, <3>5, <3>6
    <3> QED
      BY <3>8, <3>9, <3>10
  <2> QED
    BY <2>1, <2>2
<1>10. Len(moves') # 0
  BY <1>5
<1> QED
  BY <1>5, <1>7, <1>9, <1>10 DEF VarianceInv

LEMMA VarianceHolds ==
    ASSUME VarianceInv
    PROVE  Numbers!VarianceExact
<1>1. SumOfMoves = Total(moves) /\ SumOfSquares = Total(Squared(moves))
  BY SumsAre DEF VarianceInv
<1>2. Numbers!VarianceExact <=>
        /\ Len(moves) * mean = Scale * SumOfMoves
        /\ Len(moves) * m2 = Scale * Scale * (Len(moves) * SumOfSquares
                                                - SumOfMoves * SumOfMoves)
  BY Zenon DEF Numbers!VarianceExact, SumOfMoves, SumOfSquares
<1> QED
  BY <1>1, <1>2 DEF VarianceInv

\* What the proof of VariancesExact goes by, in every state.
LEMMA VarianceKept ==
    ASSUME Numbers!NumbersAssumption
    PROVE  Numbers!Spec => []VarianceInv
<1>1. Numbers!Init => VarianceInv
  BY VarianceFirst
<1>2. VarianceInv /\ [Numbers!Next]_Numbers!vars => VarianceInv'
  <2>1. ASSUME VarianceInv, UNCHANGED <<moves, mean, m2>> PROVE VarianceInv'
    BY <2>1 DEF VarianceInv
  <2>2. ASSUME VarianceInv, Numbers!Next PROVE VarianceInv'
    <3>1. CASE \E x \in Moves : Numbers!Observe(x)
      BY <2>2, <3>1, VarianceMoves
    <3>2. CASE \E mu \in Mus, account \in Accounts, gap \in Gaps :
                 Numbers!Size(mu, account, gap)
      <4>1. UNCHANGED <<moves, mean, m2>>
        BY <3>2 DEF Numbers!Size
      <4> QED
        BY <2>1, <2>2, <4>1
    <3> QED
      BY <2>2, <3>1, <3>2 DEF Numbers!Next
  <2>3. UNCHANGED Numbers!vars => UNCHANGED <<moves, mean, m2>>
    BY DEF Numbers!vars
  <2> QED
    BY <2>1, <2>2, <2>3
<1> QED
  BY <1>1, <1>2, PTL DEF Numbers!Spec

\* The running mean and variance are those of all returns at once
\* (law_of_large_numbers.hpp:22-36).
THEOREM VariancesExact ==
    ASSUME Numbers!NumbersAssumption
    PROVE  Numbers!Spec => []Numbers!VarianceExact
<1>1. VarianceInv => Numbers!VarianceExact
  BY VarianceHolds
<1> QED
  BY <1>1, VarianceKept, PTL

-----------------------------------------------------------------------------
(* The greeks. *)

\* A number between two others stays so when all are multiplied.
LEMMA BetweenTimes ==
    ASSUME NEW e \in Int, NEW x \in Int, NEW y \in Int, NEW z \in Int, x <= y, y <= z
    PROVE  Greeks!Between(e * y, e * x, e * z) /\ Greeks!Between(e * y, e * z, e * x)
<1>1. e * y - e * x = e * (y - x) /\ e * z - e * y = e * (z - y)
  OBVIOUS
<1>2. e * x \in Int /\ e * y \in Int /\ e * z \in Int
  OBVIOUS
<1>3. CASE e >= 0
  <2>1. e * (y - x) >= 0 /\ e * (z - y) >= 0
    BY <1>3
  <2> QED
    BY <1>1, <1>2, <2>1 DEF Greeks!Between
<1>4. CASE e < 0
  <2>1. e * (y - x) <= 0 /\ e * (z - y) <= 0
    BY <1>4
  <2> QED
    BY <1>1, <1>2, <2>1 DEF Greeks!Between
<1> QED
  BY <1>3, <1>4

\* Added to, too.
LEMMA BetweenPlus ==
    ASSUME NEW a \in Int, NEW x \in Int, NEW y \in Int, NEW z \in Int, Greeks!Between(y, x, z)
    PROVE  Greeks!Between(a + y, a + x, a + z)
BY DEF Greeks!Between

\* An option's distance d, and u and w, the parts of the unit that it and the root
\* leave.
Divides(o, d, u, w) ==
    /\ d = Greeks!Distance(o) /\ d \in Nat \ {0} /\ u \in Nat /\ Unit = u * d
    /\ w \in Nat /\ Unit = w * o.root

LEMMA DivisionExists ==
    ASSUME Greeks!GreeksAssumption, NEW o \in Greeks!Options, Greeks!Live(o)
    PROVE  /\ \E d, u, w : Divides(o, d, u, w)
           /\ o.s \in Nat /\ o.k \in Nat /\ o.v \in Nat \ {0} /\ o.root \in Nat \ {0}
           /\ o.call \in BOOLEAN
<1>1. o.s \in Prices /\ o.k \in Prices /\ o.v \in Vols /\ o.root \in Roots /\ o.call \in BOOLEAN
  BY DEF Greeks!Options
<1>2. /\ o.s \in Nat /\ o.k \in Nat /\ o.v \in Nat \ {0} /\ o.root \in Nat \ {0}
  <2>1. /\ \A n \in Prices : n \in Nat
        /\ \A n \in Vols : n \in Nat
        /\ \A n \in Roots : n \in Nat
    BY DEF Greeks!GreeksAssumption
  <2>2. o.v > 0 /\ o.root > 0
    BY DEF Greeks!Live
  <2>3. o.s \in Nat /\ o.k \in Nat /\ o.v \in Nat /\ o.root \in Nat
    BY <1>1, <2>1
  <2> QED
    BY <2>2, <2>3
<1>3. Greeks!Distance(o) \in Nat \ {0}
  BY <1>2 DEF Greeks!Distance, Greeks!Abs
<1>4. PICK u \in 1..Unit : Unit = u * Greeks!Distance(o)
  <2>1. \A a, b \in Prices : \E c \in 1..Unit : Unit = c * (Greeks!Abs(a - b) + 1)
    BY DEF Greeks!GreeksAssumption
  <2>2. \E c \in 1..Unit : Unit = c * (Greeks!Abs(o.s - o.k) + 1)
    BY <1>1, <2>1
  <2> QED
    BY <2>2 DEF Greeks!Distance
<1>5. PICK w \in 1..Unit : Unit = w * o.root
  BY <1>1, <1>2 DEF Greeks!GreeksAssumption
<1>6. Unit \in Nat
  BY DEF Greeks!GreeksAssumption
<1>7. Divides(o, Greeks!Distance(o), u, w)
  <2>1. u \in Nat /\ w \in Nat
    BY <1>4, <1>5, <1>6
  <2> QED
    BY <1>3, <1>4, <1>5, <2>1 DEF Divides
<1>8. \E d, y, z : Divides(o, d, y, z)
  BY <1>7
<1> QED
  BY <1>1, <1>2, <1>8

\* Every quotient comes out even.
Pulled(U, u, d, n) ==
    /\ (10 * ((U * U) * U) * n) \div d = 10 * n * ((U * U) * u)
    /\ (10 * ((U * U) * U) * n) \div (d * d) = 10 * n * ((U * u) * u)
    /\ (10 * ((U * U) * U) * n) \div ((d * d) * d) = 10 * n * ((u * u) * u)

LEMMA PulledIs ==
    ASSUME NEW U \in Nat, NEW u \in Nat, NEW d \in Nat \ {0}, U = u * d, NEW n \in Nat
    PROVE  Pulled(U, u, d, n)
<1>1. /\ U * U \in Nat /\ (U * U) * u \in Nat /\ U * u \in Nat /\ (U * u) * u \in Nat
      /\ u * u \in Nat /\ (u * u) * u \in Nat
      /\ d * d \in Nat \ {0} /\ (d * d) * d \in Nat \ {0}
  <2>1. d * d \in Nat \ {0}
    OBVIOUS
  <2>2. (d * d) * d \in Nat \ {0}
    BY <2>1
  <2> QED
    BY <2>1, <2>2
<1>2. (U * U) * U = d * ((U * U) * u)
  BY <1>1
<1>3. (U * U) * u = d * ((U * u) * u)
  BY <1>1
<1>4. (U * u) * u = d * ((u * u) * u)
  BY <1>1
<1>5. PICK x, y, z \in Nat : x = (U * U) * u /\ y = (U * u) * u /\ z = (u * u) * u
  BY <1>1
<1>6. 10 * ((U * U) * U) * n = d * (10 * n * x)
  BY <1>2, <1>5
<1>7. 10 * ((U * U) * U) * n = (d * d) * (10 * n * y)
  <2>1. x = d * y
    BY <1>3, <1>5
  <2>2. d * (10 * n * (d * y)) = (d * d) * (10 * n * y)
    OBVIOUS
  <2> QED
    BY <1>6, <2>1, <2>2
<1>8. 10 * ((U * U) * U) * n = ((d * d) * d) * (10 * n * z)
  <2>1. y = d * z
    BY <1>4, <1>5
  <2>2. (d * d) * (10 * n * (d * z)) = ((d * d) * d) * (10 * n * z)
    OBVIOUS
  <2> QED
    BY <1>7, <2>1, <2>2
<1>9. 10 * n * x \in Nat /\ 10 * n * y \in Nat /\ 10 * n * z \in Nat
  OBVIOUS
<1>10. PICK e, f \in Nat \ {0} : e = d * d /\ f = (d * d) * d
  BY <1>1
<1>11. (d * (10 * n * x)) \div d = 10 * n * x
  BY <1>9, MultipleDivided
<1>12. (e * (10 * n * y)) \div e = 10 * n * y
  BY <1>9, MultipleDivided
<1>13. (f * (10 * n * z)) \div f = 10 * n * z
  BY <1>9, MultipleDivided
<1> QED
  BY <1>5, <1>6, <1>7, <1>8, <1>10, <1>11, <1>12, <1>13 DEF Pulled

\* The price and its derivatives, without quotients.
PricedAs(o, h, u, w) ==
    /\ h.price = Greeks!Precision * Greeks!Intrinsic(o)
                   + 40 * Greeks!Field * o.v * o.root * o.k
                   + 10 * (Liquidity * o.v) * ((Unit * Unit) * u)
    /\ h.delta = Greeks!Precision * Greeks!Slope(o)
                   - Greeks!Sign(o) * (10 * (Liquidity * o.v) * ((Unit * u) * u))
    /\ h.gamma = 2 * (10 * (Liquidity * o.v) * ((u * u) * u))
    /\ h.vega = 40 * Greeks!Field * o.root * o.k + 10 * Liquidity * ((Unit * Unit) * u)
    /\ h.vanna = -Greeks!Sign(o) * (10 * Liquidity * ((Unit * u) * u))
    /\ h.theta = -(20 * o.v * o.k * ((Unit * Unit) * w))
    /\ h.vomma = 0 /\ h.charm = 0

LEMMA PricedIs ==
    ASSUME Greeks!GreeksAssumption, NEW o \in Greeks!Options, Greeks!Live(o),
           NEW d, NEW u, NEW w, Divides(o, d, u, w)
    PROVE  PricedAs(o, Greeks!Hamiltonian(o), u, w)
<1>1. /\ o.s \in Nat /\ o.k \in Nat /\ o.v \in Nat \ {0} /\ o.root \in Nat \ {0}
      /\ Liquidity \in Nat /\ Unit \in Nat
  BY DivisionExists DEF Greeks!GreeksAssumption
<1>2. /\ d = Greeks!Distance(o) /\ d \in Nat \ {0} /\ u \in Nat /\ Unit = u * d
      /\ w \in Nat /\ Unit = w * o.root
  BY DEF Divides
<1>3. Liquidity * o.v \in Nat
  BY <1>1
<1>4. Greeks!Field = (Unit * Unit) * Unit
  BY <1>1 DEF Greeks!Field, Greeks!Cube
<1>5. ASSUME NEW n \in Nat
      PROVE  /\ Greeks!Pull(n, d) = 10 * n * ((Unit * Unit) * u)
             /\ Greeks!Pull(n, Greeks!Square(d)) = 10 * n * ((Unit * u) * u)
             /\ Greeks!Pull(n, Greeks!Cube(d)) = 10 * n * ((u * u) * u)
  <2>1. /\ Greeks!Pull(n, d) = (10 * ((Unit * Unit) * Unit) * n) \div d
        /\ Greeks!Pull(n, Greeks!Square(d)) = (10 * ((Unit * Unit) * Unit) * n) \div (d * d)
        /\ Greeks!Pull(n, Greeks!Cube(d)) = (10 * ((Unit * Unit) * Unit) * n) \div ((d * d) * d)
    BY <1>2, <1>4 DEF Greeks!Pull, Greeks!Square, Greeks!Cube
  <2>2. Pulled(Unit, u, d, n)
    BY <1>1, <1>2, PulledIs
  <2> QED
    BY <2>1, <2>2, Zenon DEF Pulled
<1>6. Greeks!YearlyTheta(o) = -(20 * o.v * o.k * ((Unit * Unit) * w))
  <2>1. PICK U, v, k, r \in Nat : U = Unit /\ v = o.v /\ k = o.k /\ r = o.root /\ r # 0 /\ U = w * r
    BY <1>1, <1>2
  <2>2. PICK z \in Nat : z = (U * U) * w
    BY <1>2
  <2>3. (U * U) * U = r * z
    BY <1>2, <2>1, <2>2
  <2>4. 20 * (r * z) * v * k = r * (20 * v * k * z)
    OBVIOUS
  <2>5. (r * (20 * v * k * z)) \div r = 20 * v * k * z
    <3>1. 20 * v * k * z \in Int
      OBVIOUS
    <3> QED
      BY <2>1, <3>1, MultipleDivided
  <2>6. Greeks!YearlyTheta(o) = -((20 * (r * z) * v * k) \div r)
    BY <1>4, <2>1, <2>3 DEF Greeks!YearlyTheta
  <2> QED
    BY <2>1, <2>2, <2>4, <2>5, <2>6
<1>7. Greeks!Hamiltonian(o) =
        [price |-> Greeks!Price(o), delta |-> Greeks!Delta(o), gamma |-> Greeks!Gamma(o),
         vega |-> Greeks!Vega(o), theta |-> Greeks!YearlyTheta(o), vanna |-> Greeks!Vanna(o),
         vomma |-> 0, charm |-> 0]
  BY DEF Greeks!Hamiltonian
<1>8. Greeks!Mass(o) = Liquidity * o.v
  BY DEF Greeks!Mass
<1>9. Greeks!Price(o) = Greeks!Precision * Greeks!Intrinsic(o)
                   + 40 * Greeks!Field * o.v * o.root * o.k
                   + 10 * (Liquidity * o.v) * ((Unit * Unit) * u)
  BY <1>2, <1>3, <1>5, <1>8 DEF Greeks!Price
<1>10. Greeks!Delta(o) = Greeks!Precision * Greeks!Slope(o)
                   - Greeks!Sign(o) * (10 * (Liquidity * o.v) * ((Unit * u) * u))
  BY <1>2, <1>3, <1>5, <1>8 DEF Greeks!Delta
<1>11. Greeks!Gamma(o) = 2 * (10 * (Liquidity * o.v) * ((u * u) * u))
  BY <1>2, <1>3, <1>5, <1>8 DEF Greeks!Gamma
<1>12. /\ Greeks!Vega(o) = 40 * Greeks!Field * o.root * o.k + 10 * Liquidity * ((Unit * Unit) * u)
       /\ Greeks!Vanna(o) = -Greeks!Sign(o) * (10 * Liquidity * ((Unit * u) * u))
  BY <1>1, <1>2, <1>5 DEF Greeks!Vega, Greeks!Vanna
<1> QED
  BY <1>6, <1>7, <1>9, <1>10, <1>11, <1>12 DEF PricedAs

\* What the members of these formulas are.
LEMMA FieldIs ==
    ASSUME Greeks!GreeksAssumption
    PROVE  /\ Greeks!Field \in Nat /\ Greeks!Precision \in Nat /\ Unit \in Nat /\ Liquidity \in Nat
           /\ Greeks!Field = (Unit * Unit) * Unit
<1>1. Unit \in Nat /\ Liquidity \in Nat
  BY DEF Greeks!GreeksAssumption
<1>2. Unit * Unit \in Nat /\ (Unit * Unit) * Unit \in Nat
  BY <1>1
<1> QED
  BY <1>1, <1>2 DEF Greeks!Field, Greeks!Precision, Greeks!Cube

\* A move of the spot on one side of the strike: how the intrinsic value and the
\* distance change.
LEMMA SameSide ==
    ASSUME NEW o \in Greeks!Options, NEW p \in Greeks!Options,
           o.s \in Int, o.k \in Int, p.s \in Int, p.k = o.k, p.call = o.call,
           (p.s - o.k) * (o.s - o.k) > 0
    PROVE  /\ Greeks!Slope(p) = Greeks!Slope(o) /\ Greeks!Sign(p) = Greeks!Sign(o)
           /\ Greeks!Slope(o) \in {-1, 0, 1} /\ Greeks!Sign(o) \in {-1, 1}
           /\ Greeks!Intrinsic(o) \in Int /\ Greeks!Intrinsic(p) \in Int
           /\ Greeks!Intrinsic(p) - Greeks!Intrinsic(o) = Greeks!Slope(o) * (p.s - o.s)
           /\ Greeks!Distance(o) - Greeks!Distance(p) = Greeks!Sign(o) * (o.s - p.s)
<1>1. PICK x, y \in Int : x = o.s - o.k /\ y = p.s - o.k
  OBVIOUS
<1>2. y * x > 0
  BY <1>1
<1>3. (x > 0 /\ y > 0) \/ (x < 0 /\ y < 0)
  <2>1. x = 0 => y * x = 0
    OBVIOUS
  <2>2. (x > 0 /\ y <= 0) => y * x <= 0
    OBVIOUS
  <2>3. (x < 0 /\ y >= 0) => y * x <= 0
    OBVIOUS
  <2> QED
    BY <1>2, <2>1, <2>2, <2>3
<1>4. CASE x > 0 /\ y > 0
  <2>1. /\ Greeks!Distance(o) = x + 1 /\ Greeks!Distance(p) = y + 1
        /\ Greeks!Sign(o) = 1 /\ Greeks!Sign(p) = 1
    BY <1>1, <1>4 DEF Greeks!Distance, Greeks!Abs, Greeks!Sign
  <2>2. CASE o.call
    <3>1. /\ Greeks!Intrinsic(o) = x /\ Greeks!Intrinsic(p) = y
          /\ Greeks!Slope(o) = 1 /\ Greeks!Slope(p) = 1
      BY <1>1, <1>4, <2>2 DEF Greeks!Intrinsic, Greeks!Slope
    <3> QED
      BY <1>1, <2>1, <3>1
  <2>3. CASE ~o.call
    <3>1. /\ Greeks!Intrinsic(o) = 0 /\ Greeks!Intrinsic(p) = 0
          /\ Greeks!Slope(o) = 0 /\ Greeks!Slope(p) = 0
      BY <1>1, <1>4, <2>3 DEF Greeks!Intrinsic, Greeks!Slope
    <3> QED
      BY <1>1, <2>1, <3>1
  <2> QED
    BY <2>2, <2>3
<1>5. CASE x < 0 /\ y < 0
  <2>1. /\ Greeks!Distance(o) = 1 - x /\ Greeks!Distance(p) = 1 - y
        /\ Greeks!Sign(o) = -1 /\ Greeks!Sign(p) = -1
    BY <1>1, <1>5 DEF Greeks!Distance, Greeks!Abs, Greeks!Sign
  <2>2. CASE o.call
    <3>1. /\ Greeks!Intrinsic(o) = 0 /\ Greeks!Intrinsic(p) = 0
          /\ Greeks!Slope(o) = 0 /\ Greeks!Slope(p) = 0
      BY <1>1, <1>5, <2>2 DEF Greeks!Intrinsic, Greeks!Slope
    <3> QED
      BY <1>1, <2>1, <3>1
  <2>3. CASE ~o.call
    <3>1. /\ Greeks!Intrinsic(o) = -x /\ Greeks!Intrinsic(p) = -y
          /\ Greeks!Slope(o) = -1 /\ Greeks!Slope(p) = -1
      BY <1>1, <1>5, <2>3 DEF Greeks!Intrinsic, Greeks!Slope
    <3> QED
      BY <1>1, <2>1, <3>1
  <2> QED
    BY <2>2, <2>3
<1> QED
  BY <1>3, <1>4, <1>5

\* The parts of the unit that two distances leave: their products are between
\* their squares, one way or the other.
LEMMA PartsBetween ==
    ASSUME NEW a \in Nat, NEW b \in Nat, NEW e \in Int
    PROVE  /\ Greeks!Between(e * (a * b), e * (a * a), e * (b * b))
           /\ Greeks!Between(e * ((a * b) * (a + b)), e * (2 * ((a * a) * a)), e * (2 * ((b * b) * b)))
<1>1. PICK x, y, z, f, g, h \in Nat :
        /\ x = a * a /\ y = a * b /\ z = b * b
        /\ f = 2 * ((a * a) * a) /\ g = (a * b) * (a + b) /\ h = 2 * ((b * b) * b)
  BY SquaresAndCubes
<1>2. CASE a <= b
  <2>1. x <= y /\ y <= z /\ f <= g /\ g <= h
    BY <1>1, <1>2, SquaresAndCubes
  <2>2. Greeks!Between(e * y, e * x, e * z) /\ Greeks!Between(e * g, e * f, e * h)
    <3>1. x \in Int /\ y \in Int /\ z \in Int /\ f \in Int /\ g \in Int /\ h \in Int
      OBVIOUS
    <3>2. Greeks!Between(e * y, e * x, e * z)
      BY <2>1, <3>1, BetweenTimes, Zenon
    <3>3. Greeks!Between(e * g, e * f, e * h)
      BY <2>1, <3>1, BetweenTimes, Zenon
    <3> QED
      BY <3>2, <3>3
  <2> QED
    BY <1>1, <2>2
<1>3. CASE b <= a
  <2>1. /\ b * b <= b * a /\ b * a <= a * a
        /\ 2 * ((b * b) * b) <= (b * a) * (b + a) /\ (b * a) * (b + a) <= 2 * ((a * a) * a)
    BY <1>3, SquaresAndCubes
  <2>2. b * a = a * b /\ (b * a) * (b + a) = (a * b) * (a + b)
    OBVIOUS
  <2>3. z <= y /\ y <= x /\ h <= g /\ g <= f
    BY <1>1, <2>1, <2>2
  <2>4. Greeks!Between(e * y, e * x, e * z) /\ Greeks!Between(e * g, e * f, e * h)
    <3>1. x \in Int /\ y \in Int /\ z \in Int /\ f \in Int /\ g \in Int /\ h \in Int
      OBVIOUS
    <3>2. Greeks!Between(e * y, e * x, e * z)
      BY <2>3, <3>1, BetweenTimes, Zenon
    <3>3. Greeks!Between(e * g, e * f, e * h)
      BY <2>3, <3>1, BetweenTimes, Zenon
    <3> QED
      BY <3>2, <3>3
  <2> QED
    BY <1>1, <2>4
<1> QED
  BY <1>2, <1>3

\* The changes of price and delta over a move x of the spot, in numbers: j and i
\* the intrinsic values, t its slope, a and b the parts of the unit U, g the side.
LEMMA SpotArithmetic ==
    ASSUME NEW P \in Int, NEW t \in Int, NEW M \in Int, NEW U \in Int, NEW a \in Nat, NEW b \in Nat,
           NEW x \in Int, NEW g \in {-1, 1}, NEW i \in Int, NEW j \in Int, NEW r \in Int,
           j - i = t * x, U * (b - a) = (a * b) * (g * (-x))
    PROVE  /\ (P * j + r + 10 * M * ((U * U) * b)) - (P * i + r + 10 * M * ((U * U) * a))
                = P * (t * x) + (-(10 * M * U * (g * x))) * (a * b)
           /\ (P * t - g * (10 * M * ((U * a) * a))) * x
                = P * (t * x) + (-(10 * M * U * (g * x))) * (a * a)
           /\ (P * t - g * (10 * M * ((U * b) * b))) * x
                = P * (t * x) + (-(10 * M * U * (g * x))) * (b * b)
           /\ (P * t - g * (10 * M * ((U * b) * b))) - (P * t - g * (10 * M * ((U * a) * a)))
                = (10 * M * x) * ((a * b) * (a + b))
           /\ (2 * (10 * M * ((a * a) * a))) * x = (10 * M * x) * (2 * ((a * a) * a))
           /\ (2 * (10 * M * ((b * b) * b))) * x = (10 * M * x) * (2 * ((b * b) * b))
<1>0. PICK c, D \in Int : c = (a * b) * (g * (-x)) /\ D = 10 * M
  <2>1. (a * b) * (g * (-x)) \in Int /\ 10 * M \in Int
    OBVIOUS
  <2> QED
    BY <2>1
<1>1. (P * j + r + 10 * M * ((U * U) * b)) - (P * i + r + 10 * M * ((U * U) * a))
        = P * (t * x) + (-(10 * M * U * (g * x))) * (a * b)
  <2>1. P * j - P * i = P * (t * x)
    <3>1. P * j - P * i = P * (j - i)
      OBVIOUS
    <3> QED
      BY <3>1
  <2>2. 10 * M * ((U * U) * b) - 10 * M * ((U * U) * a) = (D * U) * (U * (b - a))
    BY <1>0
  <2>3. (D * U) * c = (-(D * U * (g * x))) * (a * b)
    BY <1>0
  <2>4. /\ P * j \in Int /\ P * i \in Int /\ 10 * M * ((U * U) * b) \in Int
        /\ 10 * M * ((U * U) * a) \in Int
    OBVIOUS
  <2>5. (P * j + r + 10 * M * ((U * U) * b)) - (P * i + r + 10 * M * ((U * U) * a))
          = (P * j - P * i) + (10 * M * ((U * U) * b) - 10 * M * ((U * U) * a))
    BY <2>4
  <2>6. 10 * M * ((U * U) * b) - 10 * M * ((U * U) * a) = (-(10 * M * U * (g * x))) * (a * b)
    BY <1>0, <2>2, <2>3
  <2> QED
    BY <2>1, <2>5, <2>6, Zenon
<1>2. /\ (P * t - g * (10 * M * ((U * a) * a))) * x
           = P * (t * x) + (-(10 * M * U * (g * x))) * (a * a)
      /\ (P * t - g * (10 * M * ((U * b) * b))) * x
           = P * (t * x) + (-(10 * M * U * (g * x))) * (b * b)
  OBVIOUS
<1>3. (P * t - g * (10 * M * ((U * b) * b))) - (P * t - g * (10 * M * ((U * a) * a)))
        = (10 * M * x) * ((a * b) * (a + b))
  <2>1. (P * t - g * (10 * M * ((U * b) * b))) - (P * t - g * (10 * M * ((U * a) * a)))
          = -(g * D * (a + b) * (U * (b - a)))
    BY <1>0
  <2>2. -(g * D * (a + b) * c) = g * g * (D * x) * ((a * b) * (a + b))
    BY <1>0
  <2>3. g * g = 1
    OBVIOUS
  <2>4. -(g * D * (a + b) * c) = (D * x) * ((a * b) * (a + b))
    BY <2>2, <2>3
  <2> QED
    BY <1>0, <2>1, <2>4
<1>4. /\ (2 * (10 * M * ((a * a) * a))) * x = (10 * M * x) * (2 * ((a * a) * a))
      /\ (2 * (10 * M * ((b * b) * b))) * x = (10 * M * x) * (2 * ((b * b) * b))
  OBVIOUS
<1> QED
  BY <1>1, <1>2, <1>3, <1>4

\* A move of the spot.
LEMMA SpotMoves ==
    ASSUME Greeks!GreeksAssumption, NEW o \in Greeks!Options, NEW p \in Greeks!Options,
           Greeks!Live(o), Greeks!Live(p), p.k = o.k, p.v = o.v, p.root = o.root, p.call = o.call,
           (p.s - o.k) * (o.s - o.k) > 0,
           NEW g, g = Greeks!Hamiltonian(o), NEW h, h = Greeks!Hamiltonian(p)
    PROVE  /\ Greeks!Between(h.price - g.price, g.delta * (p.s - o.s), h.delta * (p.s - o.s))
           /\ Greeks!Between(h.delta - g.delta, g.gamma * (p.s - o.s), h.gamma * (p.s - o.s))
<1>1. PICK d, a, w : Divides(o, d, a, w)
  BY DivisionExists
<1>2. PICK c, b, z : Divides(p, c, b, z)
  BY DivisionExists
<1>3. PricedAs(o, g, a, w) /\ PricedAs(p, h, b, z)
  <2>1. PricedAs(o, Greeks!Hamiltonian(o), a, w)
    BY <1>1, PricedIs
  <2>2. PricedAs(p, Greeks!Hamiltonian(p), b, z)
    BY <1>2, PricedIs
  <2> QED
    BY <2>1, <2>2
<1>4. /\ o.s \in Int /\ o.k \in Int /\ p.s \in Int
      /\ o.v \in Nat /\ o.root \in Nat /\ o.k \in Nat
  <2>1. o.s \in Nat /\ o.k \in Nat /\ o.v \in Nat \ {0} /\ o.root \in Nat \ {0}
    BY DivisionExists
  <2>2. p.s \in Nat
    BY DivisionExists
  <2> QED
    BY <2>1, <2>2
<1>5. /\ Greeks!Field \in Nat /\ Greeks!Precision \in Nat /\ Unit \in Nat /\ Liquidity \in Nat
  BY FieldIs
<1>6. /\ Greeks!Slope(p) = Greeks!Slope(o) /\ Greeks!Sign(p) = Greeks!Sign(o)
      /\ Greeks!Slope(o) \in {-1, 0, 1} /\ Greeks!Sign(o) \in {-1, 1}
      /\ Greeks!Intrinsic(o) \in Int /\ Greeks!Intrinsic(p) \in Int
      /\ Greeks!Intrinsic(p) - Greeks!Intrinsic(o) = Greeks!Slope(o) * (p.s - o.s)
      /\ Greeks!Distance(o) - Greeks!Distance(p) = Greeks!Sign(o) * (o.s - p.s)
  BY <1>4, SameSide
<1>7. PICK U, P, M, r, x, t, e, i, j \in Int :
        /\ U = Unit /\ P = Greeks!Precision /\ M = Liquidity * o.v
        /\ r = 40 * Greeks!Field * o.v * o.root * o.k /\ x = p.s - o.s
        /\ t = Greeks!Slope(o) /\ e = Greeks!Sign(o)
        /\ i = Greeks!Intrinsic(o) /\ j = Greeks!Intrinsic(p)
  <2>1. Liquidity * o.v \in Int /\ p.s - o.s \in Int
    BY <1>4, <1>5
  <2>2. 40 * Greeks!Field * o.v * o.root * o.k \in Int
    BY <1>4, <1>5
  <2>3. Greeks!Slope(o) \in Int /\ Greeks!Sign(o) \in Int
    BY <1>6
  <2>4. Unit \in Int /\ Greeks!Precision \in Int
    BY <1>5
  <2> QED
    BY <1>6, <2>1, <2>2, <2>3, <2>4, Zenon
<1>8. /\ a \in Nat /\ b \in Nat /\ U = a * d /\ U = b * c /\ d \in Nat /\ c \in Nat
      /\ d - c = e * (-x) /\ j - i = t * x /\ e \in {-1, 1} /\ U \in Nat
  BY <1>1, <1>2, <1>4, <1>5, <1>6, <1>7 DEF Divides
<1>9. U * (b - a) = (a * b) * (e * (-x))
  <2>1. U * (b - a) = (a * b) * (d - c)
    BY <1>8, PartsDiffer
  <2> QED
    BY <1>8, <2>1
<1>10. /\ g.price = P * i + r + 10 * M * ((U * U) * a)
       /\ g.delta = P * t - e * (10 * M * ((U * a) * a))
       /\ g.gamma = 2 * (10 * M * ((a * a) * a))
       /\ h.price = P * j + r + 10 * M * ((U * U) * b)
       /\ h.delta = P * t - e * (10 * M * ((U * b) * b))
       /\ h.gamma = 2 * (10 * M * ((b * b) * b))
  BY <1>3, <1>6, <1>7, Zenon DEF PricedAs
<1>11. /\ h.price - g.price = P * (t * x) + (-(10 * M * U * (e * x))) * (a * b)
       /\ g.delta * x = P * (t * x) + (-(10 * M * U * (e * x))) * (a * a)
       /\ h.delta * x = P * (t * x) + (-(10 * M * U * (e * x))) * (b * b)
       /\ h.delta - g.delta = (10 * M * x) * ((a * b) * (a + b))
       /\ g.gamma * x = (10 * M * x) * (2 * ((a * a) * a))
       /\ h.gamma * x = (10 * M * x) * (2 * ((b * b) * b))
  BY <1>8, <1>9, <1>10, SpotArithmetic
<1>12. PICK m, n, y \in Int : m = P * (t * x) /\ n = -(10 * M * U * (e * x)) /\ y = 10 * M * x
  BY <1>8
<1>13. Greeks!Between(h.price - g.price, g.delta * x, h.delta * x)
  <2>1. Greeks!Between(n * (a * b), n * (a * a), n * (b * b))
    BY <1>8, PartsBetween
  <2>2. n * (a * b) \in Int /\ n * (a * a) \in Int /\ n * (b * b) \in Int
    BY <1>8
  <2>3. Greeks!Between(m + n * (a * b), m + n * (a * a), m + n * (b * b))
    BY <2>1, <2>2, BetweenPlus, Zenon
  <2> QED
    BY <1>11, <1>12, <2>3, Zenon
<1>14. Greeks!Between(h.delta - g.delta, g.gamma * x, h.gamma * x)
  <2>1. Greeks!Between(y * ((a * b) * (a + b)), y * (2 * ((a * a) * a)), y * (2 * ((b * b) * b)))
    BY <1>8, PartsBetween
  <2> QED
    BY <1>11, <1>12, <2>1, Zenon
<1> QED
  BY <1>7, <1>13, <1>14, Zenon

\* A move of the volatility.
LEMMA VolMoves ==
    ASSUME Greeks!GreeksAssumption, NEW o \in Greeks!Options, NEW p \in Greeks!Options,
           Greeks!Live(o), Greeks!Live(p), p.k = o.k, p.s = o.s, p.root = o.root, p.call = o.call,
           NEW g, g = Greeks!Hamiltonian(o), NEW h, h = Greeks!Hamiltonian(p)
    PROVE  /\ h.price - g.price = g.vega * (p.v - o.v)
           /\ h.delta - g.delta = g.vanna * (p.v - o.v)
           /\ h.vega = g.vega
<1>1. PICK d, a, w : Divides(o, d, a, w)
  BY DivisionExists
<1>2. Divides(p, d, a, w)
  BY <1>1 DEF Divides, Greeks!Distance
<1>3. PricedAs(o, g, a, w) /\ PricedAs(p, h, a, w)
  <2>1. PricedAs(o, Greeks!Hamiltonian(o), a, w)
    BY <1>1, PricedIs
  <2>2. PricedAs(p, Greeks!Hamiltonian(p), a, w)
    BY <1>2, PricedIs
  <2> QED
    BY <2>1, <2>2
<1>4. /\ o.v \in Nat /\ o.root \in Nat /\ o.k \in Nat /\ p.v \in Nat /\ o.s \in Int
  <2>1. o.s \in Nat /\ o.k \in Nat /\ o.v \in Nat \ {0} /\ o.root \in Nat \ {0}
    BY DivisionExists
  <2>2. p.v \in Nat
    BY DivisionExists
  <2> QED
    BY <2>1, <2>2
<1>5. /\ Greeks!Field \in Nat /\ Greeks!Precision \in Nat /\ Unit \in Nat /\ Liquidity \in Nat
  BY FieldIs
<1>6. /\ Greeks!Slope(p) = Greeks!Slope(o) /\ Greeks!Sign(p) = Greeks!Sign(o)
      /\ Greeks!Intrinsic(p) = Greeks!Intrinsic(o)
      /\ Greeks!Slope(o) \in {-1, 0, 1} /\ Greeks!Sign(o) \in {-1, 1}
      /\ Greeks!Intrinsic(o) \in Int
  BY <1>4 DEF Greeks!Slope, Greeks!Sign, Greeks!Intrinsic
<1>7. PICK i, s, f, L, k, r, x, y, e, v, q \in Int :
        /\ i = Greeks!Precision * Greeks!Intrinsic(o) /\ s = Greeks!Precision * Greeks!Slope(o)
        /\ f = Greeks!Field /\ L = Liquidity /\ k = o.k /\ r = o.root
        /\ x = (Unit * Unit) * a /\ y = (Unit * a) * a /\ e = Greeks!Sign(o) /\ v = o.v /\ q = p.v
  <2>1. a \in Nat
    BY <1>1 DEF Divides
  <2>2. Greeks!Precision * Greeks!Intrinsic(o) \in Int /\ Greeks!Precision * Greeks!Slope(o) \in Int
    BY <1>5, <1>6
  <2>3. (Unit * Unit) * a \in Int /\ (Unit * a) * a \in Int
    BY <1>5, <2>1
  <2>4. Greeks!Sign(o) \in Int
    BY <1>6
  <2>5. /\ Greeks!Field \in Int /\ Liquidity \in Int /\ o.k \in Int /\ o.root \in Int
        /\ o.v \in Int /\ p.v \in Int
    BY <1>4, <1>5
  <2> QED
    BY <2>2, <2>3, <2>4, <2>5, Zenon
<1>8. /\ g.price = i + 40 * f * v * r * k + 10 * (L * v) * x
      /\ h.price = i + 40 * f * q * r * k + 10 * (L * q) * x
      /\ g.delta = s - e * (10 * (L * v) * y)
      /\ h.delta = s - e * (10 * (L * q) * y)
      /\ g.vega = 40 * f * r * k + 10 * L * x
      /\ h.vega = 40 * f * r * k + 10 * L * x
      /\ g.vanna = -e * (10 * L * y)
  BY <1>3, <1>6, <1>7, Zenon DEF PricedAs
<1>9. (i + 40 * f * q * r * k + 10 * (L * q) * x) - (i + 40 * f * v * r * k + 10 * (L * v) * x)
        = (40 * f * r * k + 10 * L * x) * (q - v)
  OBVIOUS
<1>10. (s - e * (10 * (L * q) * y)) - (s - e * (10 * (L * v) * y)) = (-e * (10 * L * y)) * (q - v)
  OBVIOUS
<1> QED
  BY <1>7, <1>8, <1>9, <1>10, Zenon

\* A move of the root, the time.
LEMMA TimeMoves ==
    ASSUME Greeks!GreeksAssumption, NEW o \in Greeks!Options, NEW p \in Greeks!Options,
           Greeks!Live(o), Greeks!Live(p), p.k = o.k, p.s = o.s, p.v = o.v, p.call = o.call,
           NEW g, g = Greeks!Hamiltonian(o), NEW h, h = Greeks!Hamiltonian(p)
    PROVE  /\ Greeks!Between(h.price - g.price,
                             -g.theta * (Greeks!Square(p.root) - Greeks!Square(o.root)),
                             -h.theta * (Greeks!Square(p.root) - Greeks!Square(o.root)))
           /\ h.delta = g.delta
<1>1. PICK d, a, w : Divides(o, d, a, w)
  BY DivisionExists
<1>2. PICK c, b, z : Divides(p, c, b, z)
  BY DivisionExists
<1>3. PricedAs(o, g, a, w) /\ PricedAs(p, h, b, z)
  <2>1. PricedAs(o, Greeks!Hamiltonian(o), a, w)
    BY <1>1, PricedIs
  <2>2. PricedAs(p, Greeks!Hamiltonian(p), b, z)
    BY <1>2, PricedIs
  <2> QED
    BY <2>1, <2>2
<1>4. /\ o.v \in Nat /\ o.root \in Nat \ {0} /\ o.k \in Nat /\ p.root \in Nat \ {0} /\ o.s \in Int
  <2>1. o.s \in Nat /\ o.k \in Nat /\ o.v \in Nat \ {0} /\ o.root \in Nat \ {0}
    BY DivisionExists
  <2>2. p.root \in Nat \ {0}
    BY DivisionExists
  <2> QED
    BY <2>1, <2>2
<1>5. /\ Greeks!Field \in Nat /\ Greeks!Precision \in Nat /\ Unit \in Nat /\ Liquidity \in Nat
      /\ Greeks!Field = (Unit * Unit) * Unit
  BY FieldIs
<1>6. /\ Greeks!Slope(p) = Greeks!Slope(o) /\ Greeks!Sign(p) = Greeks!Sign(o)
      /\ Greeks!Intrinsic(p) = Greeks!Intrinsic(o)
      /\ Greeks!Slope(o) \in {-1, 0, 1} /\ Greeks!Sign(o) \in {-1, 1}
      /\ Greeks!Intrinsic(o) \in Int /\ Greeks!Distance(p) = Greeks!Distance(o)
  BY <1>4 DEF Greeks!Slope, Greeks!Sign, Greeks!Intrinsic, Greeks!Distance
<1>7. /\ a \in Nat /\ d \in Nat \ {0} /\ b \in Nat /\ c = d /\ Unit = a * d /\ Unit = b * d
      /\ w \in Nat /\ z \in Nat /\ Unit = w * o.root /\ Unit = z * p.root
  BY <1>1, <1>2, <1>6 DEF Divides
<1>8. a = b
  <2>1. d * a = d * b
    BY <1>7
  <2>2. a \in Int /\ b \in Int
    BY <1>7
  <2> QED
    BY <1>7, <2>1, <2>2, Cancelled
<1>9. PICK i, U, f, k, v, r, q, m, x \in Int :
        /\ i = Greeks!Precision * Greeks!Intrinsic(o) /\ U = Unit /\ f = Greeks!Field /\ k = o.k
        /\ v = o.v /\ r = o.root /\ q = p.root /\ m = 10 * (Liquidity * o.v) * ((Unit * Unit) * a)
        /\ x = (20 * v * k) * (U * U)
  <2>1. Greeks!Precision * Greeks!Intrinsic(o) \in Int
    BY <1>5, <1>6
  <2>2. 10 * (Liquidity * o.v) * ((Unit * Unit) * a) \in Int
    BY <1>4, <1>5, <1>7
  <2>3. (20 * o.v * o.k) * (Unit * Unit) \in Int
    BY <1>4, <1>5
  <2>4. /\ Greeks!Field \in Int /\ Unit \in Int /\ o.k \in Int /\ o.root \in Int
        /\ o.v \in Int /\ p.root \in Int
    BY <1>4, <1>5
  <2> QED
    BY <2>1, <2>2, <2>3, <2>4, Zenon
<1>10. /\ g.price = i + 40 * f * v * r * k + m
       /\ h.price = i + 40 * f * v * q * k + m
       /\ g.theta = -(20 * v * k * ((U * U) * w))
       /\ h.theta = -(20 * v * k * ((U * U) * z))
       /\ h.delta = g.delta
  BY <1>3, <1>6, <1>8, <1>9, Zenon DEF PricedAs
<1>11. /\ f = (U * U) * U /\ U = w * r /\ U = z * q /\ r \in Nat /\ q \in Nat /\ v \in Nat
       /\ k \in Nat /\ U \in Nat
  BY <1>4, <1>5, <1>7, <1>9
<1>12. x \in Nat
  BY <1>9, <1>11
<1>13. h.price - g.price = x * (2 * (U * (q - r)))
  <2>1. (i + 40 * ((U * U) * U) * v * q * k + m) - (i + 40 * ((U * U) * U) * v * r * k + m)
          = ((20 * v * k) * (U * U)) * (2 * (U * (q - r)))
    OBVIOUS
  <2> QED
    BY <1>9, <1>10, <1>11, <2>1
<1>14. /\ -g.theta * (q * q - r * r) = x * ((w * (q + r)) * (q - r))
       /\ -h.theta * (q * q - r * r) = x * ((z * (q + r)) * (q - r))
  <2>1. /\ -(-(20 * v * k * ((U * U) * w))) * (q * q - r * r)
             = ((20 * v * k) * (U * U)) * ((w * (q + r)) * (q - r))
        /\ -(-(20 * v * k * ((U * U) * z))) * (q * q - r * r)
             = ((20 * v * k) * (U * U)) * ((z * (q + r)) * (q - r))
    BY <1>7
  <2> QED
    BY <1>9, <1>10, <2>1
\* With U = w r = z q: w (q + r) (q - r) is greater than 2 U (q - r) by w (q - r) (q - r),
\* and z (q + r) (q - r) smaller than it by z (q - r) (q - r).
<1>15. PICK A, B, C \in Int : /\ A = (w * (q + r)) * (q - r) /\ B = 2 * (U * (q - r))
                              /\ C = (z * (q + r)) * (q - r)
  <2>1. (w * (q + r)) * (q - r) \in Int /\ 2 * (U * (q - r)) \in Int /\ (z * (q + r)) * (q - r) \in Int
    BY <1>7
  <2> QED
    BY <2>1
<1>16. C <= B /\ B <= A
  <2>1. A - B = w * ((q - r) * (q - r))
    <3>1. (w * (q + r)) * (q - r) - 2 * ((w * r) * (q - r)) = w * ((q - r) * (q - r))
      BY <1>7
    <3> QED
      BY <1>11, <1>15, <3>1
  <2>2. B - C = z * ((q - r) * (q - r))
    <3>1. 2 * ((z * q) * (q - r)) - (z * (q + r)) * (q - r) = z * ((q - r) * (q - r))
      BY <1>7
    <3> QED
      BY <1>11, <1>15, <3>1
  <2>3. (q - r) * (q - r) \in Nat
    OBVIOUS
  <2>4. w * ((q - r) * (q - r)) >= 0 /\ z * ((q - r) * (q - r)) >= 0
    BY <1>7, <2>3
  <2> QED
    BY <1>15, <2>1, <2>2, <2>4
<1>17. Greeks!Between(x * B, x * A, x * C)
  <2>1. x \in Int
    BY <1>12
  <2> QED
    BY <1>15, <1>16, <2>1, BetweenTimes, Zenon
<1>18. Greeks!Between(h.price - g.price, -g.theta * (q * q - r * r), -h.theta * (q * q - r * r))
  BY <1>13, <1>14, <1>15, <1>17, Zenon
<1> QED
  BY <1>9, <1>10, <1>18, Zenon DEF Greeks!Square

\* What no move changes the sign of.
LEMMA GreeksSigned ==
    ASSUME Greeks!GreeksAssumption, NEW o \in Greeks!Options, Greeks!Live(o)
    PROVE  /\ Greeks!Hamiltonian(o).gamma \in Nat /\ Greeks!Hamiltonian(o).vega \in Nat
           /\ Greeks!Hamiltonian(o).theta \in Int /\ Greeks!Hamiltonian(o).theta <= 0
           /\ Greeks!Hamiltonian(o).delta \in Int
           /\ Greeks!Hamiltonian(o).vomma = 0 /\ Greeks!Hamiltonian(o).charm = 0
<1>1. PICK d, a, w : Divides(o, d, a, w)
  BY DivisionExists
<1>2. PricedAs(o, Greeks!Hamiltonian(o), a, w)
  BY <1>1, PricedIs
<1>3. /\ o.v \in Nat /\ o.root \in Nat /\ o.k \in Nat /\ o.s \in Int
  BY DivisionExists
<1>4. /\ Greeks!Field \in Nat /\ Greeks!Precision \in Nat /\ Unit \in Nat /\ Liquidity \in Nat
  BY FieldIs
<1>5. a \in Nat /\ w \in Nat
  BY <1>1 DEF Divides
<1>6. PICK x, y, z, t \in Nat : /\ x = (Unit * Unit) * a /\ y = (Unit * a) * a /\ z = (a * a) * a
                                /\ t = (Unit * Unit) * w
  <2>1. /\ (Unit * Unit) * a \in Nat /\ (Unit * a) * a \in Nat /\ (a * a) * a \in Nat
        /\ (Unit * Unit) * w \in Nat
    BY <1>4, <1>5
  <2> QED
    BY <2>1, Zenon
<1>7. PICK M, f, s, e \in Int : /\ M = Liquidity * o.v /\ f = 40 * Greeks!Field * o.root * o.k
                          /\ s = Greeks!Precision * Greeks!Slope(o) /\ e = Greeks!Sign(o)
  <2>1. Greeks!Slope(o) \in {-1, 0, 1} /\ Greeks!Sign(o) \in {-1, 1}
    BY <1>3 DEF Greeks!Slope, Greeks!Sign
  <2>2. Liquidity * o.v \in Int
    BY <1>3, <1>4
  <2>3. 40 * Greeks!Field * o.root * o.k \in Int
    BY <1>3, <1>4
  <2>4. Greeks!Precision * Greeks!Slope(o) \in Int /\ Greeks!Sign(o) \in Int
    BY <1>4, <2>1
  <2> QED
    BY <2>2, <2>3, <2>4, Zenon
<1>8. M >= 0 /\ f >= 0
  BY <1>3, <1>4, <1>7
<1>9. /\ Greeks!Hamiltonian(o).gamma = 2 * (10 * M * z)
      /\ Greeks!Hamiltonian(o).vega = f + 10 * Liquidity * x
      /\ Greeks!Hamiltonian(o).theta = -(20 * o.v * o.k * t)
      /\ Greeks!Hamiltonian(o).delta = s - e * (10 * M * y)
      /\ Greeks!Hamiltonian(o).vomma = 0 /\ Greeks!Hamiltonian(o).charm = 0
  BY <1>2, <1>6, <1>7, Zenon DEF PricedAs
<1>10. 2 * (10 * M * z) \in Nat
  <2>1. M * z >= 0
    BY <1>8
  <2>2. 2 * (10 * M * z) = 20 * (M * z)
    OBVIOUS
  <2> QED
    BY <2>1, <2>2
<1>11. f + 10 * Liquidity * x \in Nat
  BY <1>4, <1>8
<1>12. -(20 * o.v * o.k * t) \in Int /\ -(20 * o.v * o.k * t) <= 0
  BY <1>3
<1>13. s - e * (10 * M * y) \in Int
  OBVIOUS
<1> QED
  BY <1>9, <1>10, <1>11, <1>12, <1>13, Zenon

\* What an edge in scalping takes.
LEMMA EdgeNeedsMoves ==
    ASSUME NEW g \in Nat, NEW s \in Nat, NEW r \in Nat, NEW v \in Nat, NEW t \in Int, t <= 0,
           g * (s * s) * (r * r - v * v) + 2 * t > 0
    PROVE  r > v
<1>1. ASSUME r <= v PROVE FALSE
  <2>1. r * r <= v * v
    <3>1. r * r <= r * v /\ r * v <= v * v
      BY <1>1, Products
    <3> QED
      BY <3>1
  <2>2. PICK a \in Nat : a = g * (s * s)
    <3>1. g * (s * s) \in Nat
      OBVIOUS
    <3> QED
      BY <3>1
  <2>3. PICK b \in Nat : b = v * v - r * r
    BY <2>1
  <2>4. a * b >= 0
    OBVIOUS
  <2>5. a * (r * r - v * v) = -(a * b)
    BY <2>3
  <2> QED
    BY <2>2, <2>4, <2>5
<1> QED
  BY <1>1

\* A put nearer the spot, still out of the money.
LEMMA NearerPutDearer ==
    ASSUME Greeks!GreeksAssumption, NEW o \in Greeks!Options, NEW p \in Greeks!Options,
           Greeks!Live(o), Greeks!Live(p), p.v = o.v, p.s = o.s, p.root = o.root, p.call = o.call,
           ~o.call, o.k < p.k, p.k < o.s
    PROVE  Greeks!Hamiltonian(o).price <= Greeks!Hamiltonian(p).price
<1>1. PICK d, a, w : Divides(o, d, a, w)
  BY DivisionExists
<1>2. PICK c, b, z : Divides(p, c, b, z)
  BY DivisionExists
<1>3. PricedAs(o, Greeks!Hamiltonian(o), a, w) /\ PricedAs(p, Greeks!Hamiltonian(p), b, z)
  <2>1. PricedAs(o, Greeks!Hamiltonian(o), a, w)
    BY <1>1, PricedIs
  <2>2. PricedAs(p, Greeks!Hamiltonian(p), b, z)
    BY <1>2, PricedIs
  <2> QED
    BY <2>1, <2>2
<1>4. o.v \in Nat /\ o.root \in Nat /\ o.k \in Nat /\ o.s \in Nat /\ p.k \in Nat
  <2>1. o.s \in Nat /\ o.k \in Nat /\ o.v \in Nat \ {0} /\ o.root \in Nat \ {0}
    BY DivisionExists
  <2>2. p.k \in Nat
    BY DivisionExists
  <2> QED
    BY <2>1, <2>2
<1>5. /\ Greeks!Field \in Nat /\ Greeks!Precision \in Nat /\ Unit \in Nat /\ Liquidity \in Nat
  BY FieldIs
<1>6. Greeks!Intrinsic(o) = 0 /\ Greeks!Intrinsic(p) = 0
  BY <1>4 DEF Greeks!Intrinsic
<1>7. /\ a \in Nat /\ b \in Nat /\ d \in Nat \ {0} /\ c \in Nat \ {0} /\ Unit = a * d
      /\ Unit = b * c /\ c < d
  <2>1. Greeks!Distance(o) = o.s - o.k + 1 /\ Greeks!Distance(p) = o.s - p.k + 1
    BY <1>4 DEF Greeks!Distance, Greeks!Abs
  <2> QED
    BY <1>1, <1>2, <1>4, <2>1 DEF Divides
<1>8. a <= b
  <2>1. ASSUME b < a PROVE FALSE
    <3>1. b * c <= b * d
      BY <1>7, Products
    <3>2. (a - b) * d >= 1
      BY <1>7, <2>1
    <3>3. (a - b) * d = a * d - b * d
      BY <1>7
    <3>4. b * c \in Nat /\ b * d \in Nat
      BY <1>7
    <3> QED
      BY <1>7, <3>1, <3>2, <3>3, <3>4
  <2> QED
    BY <1>7, <2>1
<1>9. PICK f, m, U \in Nat : /\ f = 40 * Greeks!Field * o.v * o.root /\ m = 10 * (Liquidity * o.v)
                             /\ U = Unit * Unit
  <2>1. 40 * Greeks!Field * o.v * o.root \in Nat
    BY <1>4, <1>5
  <2>2. 10 * (Liquidity * o.v) \in Nat /\ Unit * Unit \in Nat
    BY <1>4, <1>5
  <2> QED
    BY <2>1, <2>2, Zenon
<1>10. /\ Greeks!Hamiltonian(o).price = Greeks!Precision * 0 + f * o.k + m * (U * a)
       /\ Greeks!Hamiltonian(p).price = Greeks!Precision * 0 + f * p.k + m * (U * b)
  BY <1>3, <1>6, <1>9, Zenon DEF PricedAs
<1>11. f * o.k <= f * p.k
  BY <1>4, Products
<1>12. U * a <= U * b /\ U * a \in Nat /\ U * b \in Nat
  BY <1>7, <1>8, Products
<1>13. m * (U * a) <= m * (U * b)
  BY <1>12, Products
<1>14. Greeks!Precision * 0 = 0 /\ f * o.k \in Nat /\ f * p.k \in Nat /\ m * (U * a) \in Nat /\ m * (U * b) \in Nat
  BY <1>4, <1>5, <1>12
<1> QED
  BY <1>10, <1>11, <1>13, <1>14

\* The greeks are those of the option, and those before were those of the option
\* before, which differs in one input or in none.
GreeksKept ==
    /\ option \in Greeks!Options /\ greeks = Greeks!Hamiltonian(option)
    /\ before.option \in Greeks!Options /\ before.greeks = Greeks!Hamiltonian(before.option)
    /\ option.call = before.option.call
    /\ \/ option.k = before.option.k /\ option.v = before.option.v /\ option.root = before.option.root
       \/ option.s = before.option.s /\ option.v = before.option.v /\ option.root = before.option.root
       \/ option.s = before.option.s /\ option.k = before.option.k /\ option.root = before.option.root
       \/ option.s = before.option.s /\ option.k = before.option.k /\ option.v = before.option.v

LEMMA GreeksKeptStep ==
    ASSUME GreeksKept, [Greeks!Next]_(Greeks!vars)
    PROVE  GreeksKept'
<1>1. CASE UNCHANGED Greeks!vars
  BY <1>1 DEF GreeksKept, Greeks!vars
<1>2. ASSUME NEW o \in Greeks!Options, Greeks!Reprice(o), o.call = option.call,
             \/ o.k = option.k /\ o.v = option.v /\ o.root = option.root
             \/ o.s = option.s /\ o.v = option.v /\ o.root = option.root
             \/ o.s = option.s /\ o.k = option.k /\ o.root = option.root
             \/ o.s = option.s /\ o.k = option.k /\ o.v = option.v
      PROVE  GreeksKept'
  <2>1. /\ option' = o /\ greeks' = Greeks!Hamiltonian(o)
        /\ before' = [option |-> option, greeks |-> greeks]
    BY <1>2 DEF Greeks!Reprice
  <2>2. /\ before'.option = option /\ before'.greeks = greeks
    BY <2>1
  <2>3. before'.option \in Greeks!Options /\ before'.greeks = Greeks!Hamiltonian(before'.option)
    BY <2>2 DEF GreeksKept
  <2> QED
    BY <1>2, <2>1, <2>2, <2>3 DEF GreeksKept
<1>3. option \in Greeks!Options
  BY DEF GreeksKept
<1>4. ASSUME NEW s \in Prices, Greeks!Reprice([option EXCEPT !.s = s]) PROVE GreeksKept'
  <2>1. [option EXCEPT !.s = s] \in Greeks!Options
    BY <1>3 DEF Greeks!Options
  <2>2. /\ [option EXCEPT !.s = s].call = option.call /\ [option EXCEPT !.s = s].k = option.k
        /\ [option EXCEPT !.s = s].v = option.v /\ [option EXCEPT !.s = s].root = option.root
    BY <1>3 DEF Greeks!Options
  <2> QED
    BY <1>2, <1>4, <2>1, <2>2
<1>5. ASSUME NEW s \in Prices, Greeks!Reprice([option EXCEPT !.k = s]) PROVE GreeksKept'
  <2>1. [option EXCEPT !.k = s] \in Greeks!Options
    BY <1>3 DEF Greeks!Options
  <2>2. /\ [option EXCEPT !.k = s].call = option.call /\ [option EXCEPT !.k = s].s = option.s
        /\ [option EXCEPT !.k = s].v = option.v /\ [option EXCEPT !.k = s].root = option.root
    BY <1>3 DEF Greeks!Options
  <2> QED
    BY <1>2, <1>5, <2>1, <2>2
<1>6. ASSUME NEW s \in Vols, Greeks!Reprice([option EXCEPT !.v = s]) PROVE GreeksKept'
  <2>1. [option EXCEPT !.v = s] \in Greeks!Options
    BY <1>3 DEF Greeks!Options
  <2>2. /\ [option EXCEPT !.v = s].call = option.call /\ [option EXCEPT !.v = s].k = option.k
        /\ [option EXCEPT !.v = s].s = option.s /\ [option EXCEPT !.v = s].root = option.root
    BY <1>3 DEF Greeks!Options
  <2> QED
    BY <1>2, <1>6, <2>1, <2>2
<1>7. ASSUME NEW s \in Roots, Greeks!Reprice([option EXCEPT !.root = s]) PROVE GreeksKept'
  <2>1. [option EXCEPT !.root = s] \in Greeks!Options
    BY <1>3 DEF Greeks!Options
  <2>2. /\ [option EXCEPT !.root = s].call = option.call /\ [option EXCEPT !.root = s].k = option.k
        /\ [option EXCEPT !.root = s].v = option.v /\ [option EXCEPT !.root = s].s = option.s
    BY <1>3 DEF Greeks!Options
  <2> QED
    BY <1>2, <1>7, <2>1, <2>2
<1> QED
  BY <1>1, <1>4, <1>5, <1>6, <1>7 DEF Greeks!Next

LEMMA GreeksKeptInit ==
    ASSUME Greeks!Init PROVE GreeksKept
<1>1. /\ option \in Greeks!Options /\ greeks = Greeks!Hamiltonian(option)
      /\ before.option = option /\ before.greeks = greeks
  BY DEF Greeks!Init
<1> QED
  BY <1>1 DEF GreeksKept

LEMMA GreeksKeptRight ==
    ASSUME Greeks!GreeksAssumption, GreeksKept
    PROVE  Greeks!GreeksRight
<1> SUFFICES ASSUME Greeks!Live(option), Greeks!Live(before.option)
             PROVE  Greeks!SlopesOfPrice /\ Greeks!ForecastsHold /\ Greeks!PutsDearerHigher
  BY DEF Greeks!GreeksRight
<1> DEFINE o == before.option   g == before.greeks
<1>1. /\ option \in Greeks!Options /\ greeks = Greeks!Hamiltonian(option)
      /\ o \in Greeks!Options /\ g = Greeks!Hamiltonian(o) /\ option.call = o.call
  BY DEF GreeksKept
<1>2. /\ option.s \in Nat /\ option.k \in Nat /\ option.v \in Nat /\ option.root \in Nat
      /\ o.s \in Nat /\ o.k \in Nat /\ o.v \in Nat /\ o.root \in Nat /\ option.call \in BOOLEAN
  <2>1. /\ option.s \in Nat /\ option.k \in Nat /\ option.v \in Nat \ {0} /\ option.root \in Nat \ {0}
        /\ option.call \in BOOLEAN
    BY <1>1, DivisionExists
  <2>2. o.s \in Nat /\ o.k \in Nat /\ o.v \in Nat \ {0} /\ o.root \in Nat \ {0}
    BY <1>1, DivisionExists
  <2> QED
    BY <2>1, <2>2
<1>3. Greeks!Live(o)
  OBVIOUS
<1>4. \/ option.k = o.k /\ option.v = o.v /\ option.root = o.root
      \/ option.s = o.s /\ option.v = o.v /\ option.root = o.root
      \/ option.s = o.s /\ option.k = o.k /\ option.root = o.root
      \/ option.s = o.s /\ option.k = o.k /\ option.v = o.v
  BY DEF GreeksKept
<1>5. greeks["price"] = greeks.price /\ greeks["delta"] = greeks.delta
  OBVIOUS
<1> HIDE DEF o, g
<1>6. /\ option.s # o.s => option.k = o.k /\ option.v = o.v /\ option.root = o.root
      /\ option.k # o.k => option.s = o.s /\ option.v = o.v /\ option.root = o.root
      /\ option.v # o.v => option.s = o.s /\ option.k = o.k /\ option.root = o.root
      /\ option.root # o.root => option.s = o.s /\ option.k = o.k /\ option.v = o.v
  BY <1>4
<1>7. ASSUME option.s - o.s # 0, (option.s - option.k) * (o.s - o.k) > 0
      PROVE  /\ Greeks!Between(greeks.price - g.price, g.delta * (option.s - o.s), greeks.delta * (option.s - o.s))
             /\ Greeks!Between(greeks.delta - g.delta, g.gamma * (option.s - o.s), greeks.gamma * (option.s - o.s))
  <2>1. option.s # o.s
    BY <1>2, <1>7
  <2>2. option.k = o.k /\ option.v = o.v /\ option.root = o.root
    BY <1>6, <2>1
  <2>3. (option.s - o.k) * (o.s - o.k) > 0
    BY <1>7, <2>2
  <2> QED
    BY <1>1, <1>3, <2>2, <2>3, SpotMoves
<1>8. ASSUME option.v # o.v
      PROVE  /\ greeks.price - g.price = g.vega * (option.v - o.v)
             /\ greeks.delta - g.delta = g.vanna * (option.v - o.v)
             /\ greeks.vega = g.vega
  BY <1>1, <1>3, <1>6, <1>8, VolMoves
<1>9. ASSUME option.root # o.root
      PROVE  /\ Greeks!Between(greeks.price - g.price,
                               -g.theta * (Greeks!Square(option.root) - Greeks!Square(o.root)),
                               -greeks.theta * (Greeks!Square(option.root) - Greeks!Square(o.root)))
             /\ greeks.delta = g.delta
  BY <1>1, <1>3, <1>6, <1>9, TimeMoves
<1>10. Greeks!SlopesOfPrice
  <2>1. option.v - o.v # 0 => option.v # o.v
    BY <1>2
  <2>2. Greeks!Square(option.root) - Greeks!Square(o.root) # 0 => option.root # o.root
    <3>1. ASSUME option.root = o.root PROVE Greeks!Square(option.root) - Greeks!Square(o.root) = 0
      <4>1. Greeks!Square(o.root) \in Int
        BY <1>2 DEF Greeks!Square
      <4> QED
        BY <3>1, <4>1
    <3> QED
      BY <3>1
  <2> QED
    BY <1>7, <1>8, <1>9, <2>1, <2>2, Zenon DEF Greeks!SlopesOfPrice, o, g
<1>11. Greeks!ForecastsHold
  <2>1. /\ greeks.gamma \in Nat /\ greeks.theta \in Int /\ greeks.theta <= 0
    BY <1>1, GreeksSigned
  <2>2. g.vomma = 0 /\ g.charm = 0 /\ g.vega \in Nat /\ g.delta \in Int
    BY <1>1, <1>3, GreeksSigned
  <2>3. option.v # o.v => greeks.vega = Greeks!VegaAfter(g, option.v - o.v)
    <3>1. Greeks!VegaAfter(g, option.v - o.v) = g.vega
      BY <1>2, <2>2 DEF Greeks!VegaAfter
    <3> QED
      BY <1>8, <3>1
  <2>4. option.root # o.root =>
          greeks.delta = g.delta
             + Greeks!DeltaChange(g, Greeks!Square(o.root) - Greeks!Square(option.root))
    <3>1. Greeks!Square(o.root) - Greeks!Square(option.root) \in Int
      BY <1>2 DEF Greeks!Square
    <3>2. Greeks!DeltaChange(g, Greeks!Square(o.root) - Greeks!Square(option.root)) = 0
      BY <2>2, <3>1 DEF Greeks!DeltaChange
    <3> QED
      BY <1>9, <2>2, <3>2
  <2>5. \A realized \in Vols : Greeks!NetEdge(realized) > 0 => realized > option.v
    <3>1. \A n \in Vols : n \in Nat
      BY DEF Greeks!GreeksAssumption
    <3>2. ASSUME NEW realized \in Vols, Greeks!NetEdge(realized) > 0 PROVE realized > option.v
      <4>1. realized \in Nat
        BY <3>1
      <4>2. greeks.gamma * (option.s * option.s) * (realized * realized - option.v * option.v)
              + 2 * greeks.theta > 0
        BY <3>2 DEF Greeks!NetEdge, Greeks!Square
      <4> QED
        BY <1>2, <2>1, <4>1, <4>2, EdgeNeedsMoves
    <3> QED
      BY <3>2
  <2> QED
    BY <2>3, <2>4, <2>5, Zenon DEF Greeks!ForecastsHold, o, g
<1>12. Greeks!PutsDearerHigher
  <2>1. ASSUME ~option.call, o.k < option.k, option.k < option.s, option.s = o.s
        PROVE  g.price <= greeks.price
    <3>1. o.k # option.k
      BY <1>2, <2>1
    <3>2. option.v = o.v /\ option.root = o.root /\ option.k < o.s /\ ~o.call
      BY <1>1, <1>6, <2>1, <3>1
    <3> QED
      BY <1>1, <1>3, <2>1, <3>2, NearerPutDearer
  <2> QED
    BY <2>1, Zenon DEF Greeks!PutsDearerHigher, o, g
<1> QED
  BY <1>10, <1>11, <1>12

\* What the proof of GreeksAreSlopes goes by, in every state.
LEMMA GreeksStay == ASSUME Greeks!GreeksAssumption PROVE Greeks!Spec => []GreeksKept
<1>1. Greeks!Init => GreeksKept
  BY GreeksKeptInit
<1>2. GreeksKept /\ [Greeks!Next]_(Greeks!vars) => GreeksKept'
  BY GreeksKeptStep
<1> QED
  BY <1>1, <1>2, PTL DEF Greeks!Spec

\* The greeks of aad_greeks.hpp are the slopes of its price, and what is built on
\* them holds, for any prices, volatilities and times whatever.
THEOREM GreeksAreSlopes == ASSUME Greeks!GreeksAssumption PROVE Greeks!Spec => []Greeks!GreeksRight
<1>1. GreeksKept => Greeks!GreeksRight
  BY GreeksKeptRight
<1> QED
  BY <1>1, GreeksStay, PTL

-----------------------------------------------------------------------------
(* The tails of the returns. *)

LEMMA InsertKeeps ==
    ASSUME NEW t \in Seq(Int), Ascends(t), NEW x \in Int
    PROVE  /\ Risk!Insert(t, x) \in Seq(Int) /\ Len(Risk!Insert(t, x)) = Len(t) + 1
           /\ Ascends(Risk!Insert(t, x))
<1> DEFINE r == Risk!Insert(t, x)
<1>1. PICK L \in Nat : L = Len(t)
  OBVIOUS
<1>2. \A i \in 1..L : t[i] \in Int
  BY <1>1
<1>3. r = [i \in 1..(L + 1) |-> IF i <= L /\ t[i] <= x THEN t[i]
                                ELSE IF i = 1 \/ t[i - 1] <= x THEN x ELSE t[i - 1]]
  BY <1>1, Zenon DEF Risk!Insert
<1> HIDE DEF r
<1>4. ASSUME NEW i \in 1..(L + 1)
      PROVE  /\ r[i] \in Int
             /\ (i <= L /\ t[i] <= x) => r[i] = t[i]
             /\ (~(i <= L /\ t[i] <= x) /\ (i = 1 \/ t[i - 1] <= x)) => r[i] = x
             /\ (~(i <= L /\ t[i] <= x) /\ ~(i = 1 \/ t[i - 1] <= x)) => r[i] = t[i - 1]
  <2>1. r[i] = IF i <= L /\ t[i] <= x THEN t[i]
               ELSE IF i = 1 \/ t[i - 1] <= x THEN x ELSE t[i - 1]
    BY <1>3
  <2>2. i <= L => t[i] \in Int
    BY <1>2
  <2>3. i # 1 => t[i - 1] \in Int
    BY <1>2
  <2> QED
    BY <2>1, <2>2, <2>3
<1>5. r \in [1..(L + 1) -> Int]
  <2>1. DOMAIN r = 1..(L + 1) /\ r = [i \in 1..(L + 1) |-> r[i]]
    BY <1>3
  <2> QED
    BY <1>4, <2>1
<1>6. L + 1 \in Nat
  OBVIOUS
<1>7. r \in Seq(Int) /\ Len(r) = L + 1
  BY <1>5, <1>6
<1>8. ASSUME NEW i \in 1..(L + 1), NEW j \in 1..(L + 1), i < j PROVE r[i] <= r[j]
  <2>1. \A k, l \in 1..L : k <= l => t[k] <= t[l]
    BY <1>1 DEF Ascends
  <2>2. i \in 1..L /\ j - 1 \in 1..L /\ i <= j - 1 /\ j # 1
    BY <1>8
  <2>3. t[i] \in Int /\ t[j - 1] \in Int /\ t[i] <= t[j - 1]
    BY <1>2, <2>1, <2>2
  <2>4. j <= L => t[j] \in Int /\ t[i] <= t[j]
    BY <1>2, <2>1, <2>2
  <2>5. i # 1 => t[i - 1] \in Int /\ t[i - 1] <= t[i]
    <3>1. i # 1 => i - 1 \in 1..L /\ i - 1 <= i
      BY <2>2
    <3> QED
      BY <1>2, <2>1, <2>2, <3>1
  <2>6. CASE t[i] <= x
    BY <1>4, <2>2, <2>3, <2>4, <2>6
  <2>7. CASE ~(t[i] <= x)
    <3>1. r[i] <= t[i]
      BY <1>4, <2>2, <2>3, <2>5, <2>7
    <3>2. ~(j <= L /\ t[j] <= x) /\ ~(j = 1 \/ t[j - 1] <= x)
      BY <2>2, <2>3, <2>4, <2>7
    <3>3. r[j] = t[j - 1] /\ r[i] \in Int
      BY <1>4, <3>2
    <3> QED
      BY <2>3, <3>1, <3>3
  <2> QED
    BY <2>6, <2>7
<1>9. Ascends(r)
  <2>1. ASSUME NEW i \in 1..(L + 1), NEW j \in 1..(L + 1), i <= j PROVE r[i] <= r[j]
    <3>1. CASE i = j
      BY <1>4, <3>1
    <3>2. CASE i # j
      BY <1>8, <2>1, <3>2
    <3> QED
      BY <3>1, <3>2
  <2> QED
    BY <1>7, <2>1 DEF Ascends
<1> QED
  BY <1>1, <1>7, <1>9, Zenon DEF r

LEMMA SortedRises ==
    ASSUME NEW s \in Seq(Int)
    PROVE  /\ Risk!Sorted(s) \in Seq(Int) /\ Len(Risk!Sorted(s)) = Len(s)
           /\ Ascends(Risk!Sorted(s))
<1> DEFINE B(h) == h = [n \in 0..Len(s) |-> IF n = 0 THEN <<>> ELSE Risk!Insert(h[n - 1], s[n])]
           S == {t \in Seq(Int) : Ascends(t)}
           step == [p \in Nat \X S |-> IF p[1] < Len(s) THEN Risk!Insert(p[2], s[p[1] + 1]) ELSE p[2]]
<1>1. Risk!Sorted(s) = (CHOOSE h : B(h))[Len(s)]
  BY Zenon DEF Risk!Sorted
<1>2. Len(s) \in Nat /\ \A n \in Nat : n < Len(s) => s[n + 1] \in Int
  <2>1. Len(s) \in Nat /\ \A i \in 1..Len(s) : s[i] \in Int
    OBVIOUS
  <2>2. \A n \in Nat : n < Len(s) => n + 1 \in 1..Len(s)
    BY <2>1
  <2> QED
    BY <2>1, <2>2
<1>3. <<>> \in S
  <2>1. <<>> \in Seq(Int) /\ Len(<<>>) = 0
    OBVIOUS
  <2> QED
    BY <2>1 DEF Ascends
<1>4. step \in [Nat \X S -> S]
  <2>1. ASSUME NEW n \in Nat, NEW t \in S
        PROVE  (IF n < Len(s) THEN Risk!Insert(t, s[n + 1]) ELSE t) \in S
    BY <1>2, InsertKeeps
  <2>2. ASSUME NEW p \in Nat \X S
        PROVE  (IF p[1] < Len(s) THEN Risk!Insert(p[2], s[p[1] + 1]) ELSE p[2]) \in S
    <3>1. p[1] \in Nat /\ p[2] \in S
      OBVIOUS
    <3> HIDE DEF S
    <3> QED
      BY <2>1, <3>1
  <2> HIDE DEF S
  <2> QED
    BY <2>2
<1> HIDE DEF S
<1>5. PICK u \in [Nat -> S] : u[0] = <<>> /\ \A n \in Nat : u[n + 1] = step[<<n, u[n]>>]
  <2> HIDE DEF step
  <2>1. Follows(S, <<>>, step)
    BY <1>3, <1>4, RecursionOverNat, Zenon
  <2> QED
    BY <2>1 DEF Follows
<1>6. ASSUME NEW n \in Nat, n < Len(s) PROVE u[n + 1] = Risk!Insert(u[n], s[n + 1])
  <2>1. <<n, u[n]>> \in Nat \X S
    BY <1>5
  <2>2. step[<<n, u[n]>>] = Risk!Insert(u[n], s[n + 1])
    BY <1>6, <2>1
  <2> QED
    BY <1>5, <2>2
<1> HIDE DEF step
<1>7. B([n \in 0..Len(s) |-> u[n]])
  <2>1. ASSUME NEW n \in 0..Len(s), n # 0 PROVE u[n] = Risk!Insert(u[n - 1], s[n])
    <3>1. n - 1 \in Nat /\ n - 1 < Len(s) /\ (n - 1) + 1 = n
      BY <1>2, <2>1
    <3>2. u[(n - 1) + 1] = Risk!Insert(u[n - 1], s[(n - 1) + 1])
      BY <1>6, <3>1
    <3> QED
      BY <3>1, <3>2
  <2>2. \A n \in 0..Len(s) : n # 0 => n - 1 \in 0..Len(s)
    BY <1>2
  <2> QED
    BY <1>5, <2>1, <2>2
<1>8. PICK h : h = (CHOOSE g : B(g)) /\ B(h)
  <2> HIDE DEF B
  <2> QED
    BY <1>7, Zenon
<1>9. h[Len(s)] = u[Len(s)]
  <2> DEFINE A == {n \in Nat : h[n] = u[n]}
  <2>1. 0 \in A
    <3>0. 0 \in 0..Len(s)
      BY <1>2
    <3>1. h[0] = <<>>
      <4>1. h = [n \in 0..Len(s) |-> IF n = 0 THEN <<>> ELSE Risk!Insert(h[n - 1], s[n])]
        BY <1>8
      <4> QED
        BY <3>0, <4>1
    <3> QED
      BY <1>5, <3>1
  <2>2. ASSUME NEW n \in 0..(Len(s) - 1), n \in A PROVE n + 1 \in A
    <3>1. n \in Nat /\ n < Len(s) /\ n + 1 \in 0..Len(s) /\ n + 1 # 0 /\ (n + 1) - 1 = n
      BY <1>2
    <3>2. h[n + 1] = Risk!Insert(h[(n + 1) - 1], s[n + 1])
      BY <1>8, <3>1
    <3> QED
      BY <1>6, <2>2, <3>1, <3>2
  <2>3. \A n \in 0..Len(s) : n \in A
    <3> HIDE DEF A
    <3> QED
      BY <1>2, <2>1, <2>2, CountUp
  <2>4. Len(s) \in 0..Len(s)
    BY <1>2
  <2> QED
    BY <2>3, <2>4
<1>10. Len(u[Len(s)]) = Len(s)
  <2> DEFINE A == {n \in Nat : Len(u[n]) = n}
  <2>1. 0 \in A
    BY <1>5
  <2>2. ASSUME NEW n \in 0..(Len(s) - 1), n \in A PROVE n + 1 \in A
    <3>1. n \in Nat /\ n < Len(s) /\ n + 1 \in Nat
      BY <1>2
    <3>2. u[n] \in Seq(Int) /\ Ascends(u[n])
      BY <1>5, <3>1 DEF S
    <3>3. Len(Risk!Insert(u[n], s[n + 1])) = Len(u[n]) + 1
      BY <1>2, <3>1, <3>2, InsertKeeps
    <3> QED
      BY <1>6, <2>2, <3>1, <3>3
  <2>3. \A n \in 0..Len(s) : n \in A
    <3> HIDE DEF A
    <3> QED
      BY <1>2, <2>1, <2>2, CountUp
  <2>4. Len(s) \in 0..Len(s)
    BY <1>2
  <2> QED
    BY <2>3, <2>4
<1>11. u[Len(s)] \in S
  BY <1>2, <1>5
<1> HIDE DEF B
<1>12. Risk!Sorted(s) = u[Len(s)]
  BY <1>1, <1>8, <1>9
<1> QED
  BY <1>10, <1>11, <1>12 DEF S

\* The sums of its first members.
LEMMA SumsOfFirst ==
    ASSUME NEW s \in Seq(Int)
    PROVE  \E u \in [Nat -> Int] :
             /\ u[0] = 0
             /\ \A n \in 0..(Len(s) - 1) : u[n + 1] = u[n] + s[n + 1]
             /\ \A n \in 0..Len(s) : Risk!SumOfFirst(n, s) = u[n]
<1> DEFINE step == [p \in Nat \X Int |-> IF p[1] < Len(s) THEN p[2] + s[p[1] + 1] ELSE p[2]]
<1>1. Len(s) \in Nat /\ \A n \in Nat : n < Len(s) => s[n + 1] \in Int
  <2>1. Len(s) \in Nat /\ \A i \in 1..Len(s) : s[i] \in Int
    OBVIOUS
  <2>2. \A n \in Nat : n < Len(s) => n + 1 \in 1..Len(s)
    BY <2>1
  <2> QED
    BY <2>1, <2>2
<1>2. step \in [Nat \X Int -> Int]
  <2>1. ASSUME NEW p \in Nat \X Int
        PROVE  (IF p[1] < Len(s) THEN p[2] + s[p[1] + 1] ELSE p[2]) \in Int
    BY <1>1
  <2> QED
    BY <2>1
<1>3. PICK u \in [Nat -> Int] : u[0] = 0 /\ \A n \in Nat : u[n + 1] = step[<<n, u[n]>>]
  <2>1. 0 \in Int
    OBVIOUS
  <2> HIDE DEF step
  <2>2. Follows(Int, 0, step)
    BY <1>2, <2>1, RecursionOverNat, Zenon
  <2> QED
    BY <2>2 DEF Follows
<1>4. ASSUME NEW n \in 0..(Len(s) - 1) PROVE u[n + 1] = u[n] + s[n + 1]
  <2>1. n \in Nat /\ n < Len(s) /\ <<n, u[n]>> \in Nat \X Int
    BY <1>1, <1>3
  <2>2. step[<<n, u[n]>>] = u[n] + s[n + 1]
    BY <2>1
  <2> QED
    BY <1>3, <2>1, <2>2
<1> HIDE DEF step
<1>5. ASSUME NEW c \in 0..Len(s) PROVE Risk!SumOfFirst(c, s) = u[c]
  <2> DEFINE B(h) == h = [n \in 0..c |-> IF n = 0 THEN 0 ELSE h[n - 1] + s[n]]
  <2>1. Risk!SumOfFirst(c, s) = (CHOOSE h : B(h))[c]
    BY Zenon DEF Risk!SumOfFirst
  <2>2. B([n \in 0..c |-> u[n]])
    <3>1. ASSUME NEW n \in 0..c, n # 0 PROVE u[n] = u[n - 1] + s[n] /\ n - 1 \in 0..c
      <4>1. n - 1 \in 0..(Len(s) - 1) /\ (n - 1) + 1 = n /\ n - 1 \in 0..c
        BY <1>1, <3>1
      <4>2. u[(n - 1) + 1] = u[n - 1] + s[(n - 1) + 1]
        BY <1>4, <4>1
      <4> QED
        BY <4>1, <4>2
    <3> QED
      BY <1>3, <3>1
  <2>3. PICK h : h = (CHOOSE g : B(g)) /\ B(h)
    <3> HIDE DEF B
    <3> QED
      BY <2>2, Zenon
  <2> DEFINE A == {n \in Nat : h[n] = u[n]}
  <2>4. c \in Nat /\ c <= Len(s)
    BY <1>1
  <2>5. 0 \in A
    <3>0. 0 \in 0..c
      BY <2>4
    <3>1. h[0] = 0
      <4>1. h = [n \in 0..c |-> IF n = 0 THEN 0 ELSE h[n - 1] + s[n]]
        BY <2>3
      <4> QED
        BY <3>0, <4>1
    <3> QED
      BY <1>3, <3>1
  <2>6. ASSUME NEW n \in 0..(c - 1), n \in A PROVE n + 1 \in A
    <3>1. n \in Nat /\ n \in 0..(Len(s) - 1) /\ n + 1 \in 0..c /\ n + 1 # 0 /\ (n + 1) - 1 = n
      BY <1>1, <2>4
    <3>2. h[n + 1] = h[(n + 1) - 1] + s[n + 1]
      BY <2>3, <3>1
    <3> QED
      BY <1>4, <2>6, <3>1, <3>2
  <2>7. \A n \in 0..c : n \in A
    <3> HIDE DEF A
    <3> QED
      BY <2>4, <2>5, <2>6, CountUp
  <2>8. c \in 0..c
    BY <2>4
  <2>9. h[c] = u[c]
    BY <2>7, <2>8
  <2> HIDE DEF B
  <2> QED
    BY <2>1, <2>3, <2>9
<1> QED
  BY <1>3, <1>4, <1>5

\* The tails of one history.
LEMMA TailsOf ==
    ASSUME Risk!RiskAssumption, NEW s \in Seq(Int), Ascends(s)
    PROVE  /\ Risk!Below(Risk!Cvar(s, Tail99), Risk!Cvar(s, Tail95))
           /\ Risk!Below(Risk!Var(s, Tail99), Risk!Var(s, Tail95))
           /\ Risk!Below(Risk!Cvar(s, Tail95), Risk!Var(s, Tail95))
           /\ Risk!Below(Risk!Cvar(s, Tail99), Risk!Var(s, Tail99))
<1>1. CASE s = <<>>
  <2>1. \A tail : Risk!Cvar(s, tail) = [sum |-> 0, count |-> 1]
                  /\ Risk!Var(s, tail) = [sum |-> 0, count |-> 1]
    BY <1>1 DEF Risk!Cvar, Risk!Var, Risk!Nothing, Risk!Average
  <2> QED
    BY <2>1 DEF Risk!Below
<1>2. CASE s # <<>>
  <2>1. PICK L \in Nat : L = Len(s) /\ L # 0
    BY <1>2
  <2>2. PICK u \in [Nat -> Int] :
             /\ u[0] = 0
             /\ \A n \in 0..(Len(s) - 1) : u[n + 1] = u[n] + s[n + 1]
             /\ \A n \in 0..Len(s) : Risk!SumOfFirst(n, s) = u[n]
    BY SumsOfFirst
  <2>3. /\ \A n \in 0..(L - 1) : u[n] <= n * s[n + 1]
        /\ \A i, j \in 0..L : i <= j => u[i] * j <= u[j] * i
    BY <2>1, <2>2, AveragesRise
  <2>4. \A i \in 1..L : s[i] \in Int
    BY <2>1
  <2>5. /\ Tail99 \in Nat /\ Tail95 \in Nat /\ Whole \in Nat \ {0} /\ Tail99 <= Tail95
        /\ Tail95 < Whole
    BY DEF Risk!RiskAssumption
  <2>6. ASSUME NEW tail \in Nat, tail < Whole
        PROVE  Risk!TailIndex(s, tail) \in 0..(L - 1)
    <3>1. L * tail \in Nat
      BY <2>1
    <3>2. PICK q \in Nat : q = (L * tail) \div Whole /\ Whole * q <= L * tail
      BY <2>5, <3>1, Quotient
    <3>3. q < L
      <4>1. ASSUME L <= q PROVE FALSE
        <5>1. Whole * L <= Whole * q
          BY <2>5, <4>1, ProductRises
        <5>2. L * (Whole - tail) >= 1
          BY <2>1, <2>5, <2>6
        <5>3. L * (Whole - tail) = Whole * L - L * tail
          BY <2>5
        <5>4. Whole * L \in Int /\ Whole * q \in Int
          BY <2>5
        <5> QED
          BY <3>1, <3>2, <5>1, <5>2, <5>3, <5>4
      <4> QED
        BY <4>1
    <3> QED
      BY <2>1, <3>2, <3>3 DEF Risk!TailIndex
  <2>7. PICK m, n \in 0..(L - 1) : m = Risk!TailIndex(s, Tail99) /\ n = Risk!TailIndex(s, Tail95)
    <3>1. Tail99 < Whole
      BY <2>5
    <3> QED
      BY <2>5, <2>6, <3>1
  <2>8. m <= n
    <3>1. L * Tail99 \in Nat /\ L * Tail95 \in Nat /\ L * Tail99 <= L * Tail95
      <4>1. Tail99 \in Int /\ Tail95 \in Int
        BY <2>5
      <4>2. L * Tail99 <= L * Tail95
        BY <2>1, <2>5, <4>1, ProductRises
      <4>3. L * Tail99 \in Nat /\ L * Tail95 \in Nat
        BY <2>5
      <4> QED
        BY <4>2, <4>3
    <3>2. PICK a, b \in Nat : a = L * Tail99 /\ b = L * Tail95 /\ a <= b
      BY <3>1
    <3>3. a \div Whole \in Nat /\ Whole * (a \div Whole) <= a
      BY <2>5, Quotient
    <3>4. Whole * (a \div Whole) <= b
      BY <2>5, <3>2, <3>3
    <3>5. a \div Whole <= b \div Whole
      BY <2>5, <3>3, <3>4, QuotientGreatest
    <3> QED
      BY <2>1, <2>7, <3>2, <3>5 DEF Risk!TailIndex
  \* The average of an empty tail is that of one member.
  <2>9. ASSUME NEW k \in 0..(L - 1), NEW tail, k = Risk!TailIndex(s, tail)
        PROVE  \E c \in 1..L : /\ c >= k /\ (k = 0 => c = 1) /\ (k # 0 => c = k)
                               /\ Risk!Cvar(s, tail) = [sum |-> u[c], count |-> c]
                               /\ Risk!Var(s, tail) = [sum |-> s[k + 1], count |-> 1]
                               /\ u[c] <= s[k + 1] * c
    <3>1. Risk!Var(s, tail) = [sum |-> s[k + 1], count |-> 1]
      BY <1>2, <2>9 DEF Risk!Var, Risk!Average
    <3>2. CASE k = 0
      <4>1. Risk!Cvar(s, tail) = [sum |-> s[1], count |-> 1]
        BY <1>2, <2>9, <3>2 DEF Risk!Cvar, Risk!Average
      <4>2. u[1] = s[1] /\ s[1] \in Int /\ 1 \in 1..L
        <5>1. 0 \in 0..(L - 1) /\ 1 \in 1..L /\ 0 + 1 = 1
          BY <2>1
        <5>2. u[0 + 1] = u[0] + s[0 + 1]
          BY <2>1, <2>2, <5>1, Zenon
        <5> QED
          BY <2>2, <2>4, <5>1, <5>2
      <4>3. s[k + 1] = s[1] /\ u[1] <= s[k + 1] * 1 /\ 1 >= k
        BY <3>2, <4>2
      <4> QED
        BY <3>1, <3>2, <4>1, <4>2, <4>3, Zenon
    <3>3. CASE k # 0
      <4>1. k \in 1..L /\ k \in 0..L /\ k + 1 \in 1..L
        BY <2>1, <3>3
      <4>2. Risk!Cvar(s, tail) = [sum |-> u[k], count |-> k]
        BY <1>2, <2>1, <2>2, <2>9, <3>3, <4>1 DEF Risk!Cvar, Risk!Average
      <4>3. u[k] <= s[k + 1] * k
        <5>1. k * s[k + 1] = s[k + 1] * k
          BY <2>4, <4>1
        <5> QED
          BY <2>3, <5>1
      <4>4. k >= k
        BY <4>1
      <4> QED
        BY <3>1, <3>3, <4>1, <4>2, <4>3, <4>4, Zenon
    <3> QED
      BY <3>2, <3>3
  <2>10. PICK c \in 1..L : /\ c >= m /\ (m = 0 => c = 1) /\ (m # 0 => c = m)
                           /\ Risk!Cvar(s, Tail99) = [sum |-> u[c], count |-> c]
                           /\ Risk!Var(s, Tail99) = [sum |-> s[m + 1], count |-> 1]
                           /\ u[c] <= s[m + 1] * c
    BY <2>7, <2>9
  <2>11. PICK d \in 1..L : /\ d >= n /\ (n = 0 => d = 1) /\ (n # 0 => d = n)
                           /\ Risk!Cvar(s, Tail95) = [sum |-> u[d], count |-> d]
                           /\ Risk!Var(s, Tail95) = [sum |-> s[n + 1], count |-> 1]
                           /\ u[d] <= s[n + 1] * d
    BY <2>7, <2>9
  <2>12. c <= d
    BY <2>8, <2>10, <2>11
  <2>13. u[c] * d <= u[d] * c
    <3>1. c \in 0..L /\ d \in 0..L
      OBVIOUS
    <3> QED
      BY <2>3, <2>12, <3>1
  <2>14. s[m + 1] <= s[n + 1] /\ s[m + 1] \in Int /\ s[n + 1] \in Int
    <3>1. m + 1 \in 1..L /\ n + 1 \in 1..L /\ m + 1 <= n + 1
      BY <2>8
    <3> QED
      BY <2>1, <2>4, <3>1 DEF Ascends
  <2>15. u[c] \in Int /\ u[d] \in Int
    <3>1. c \in Nat /\ d \in Nat
      OBVIOUS
    <3> QED
      BY <2>2, <3>1
  <2>16. /\ Risk!Below([sum |-> u[c], count |-> c], [sum |-> u[d], count |-> d])
         /\ Risk!Below([sum |-> s[m + 1], count |-> 1], [sum |-> s[n + 1], count |-> 1])
         /\ Risk!Below([sum |-> u[d], count |-> d], [sum |-> s[n + 1], count |-> 1])
         /\ Risk!Below([sum |-> u[c], count |-> c], [sum |-> s[m + 1], count |-> 1])
    <3>1. \A a, b, x, y : Risk!Below([sum |-> a, count |-> x], [sum |-> b, count |-> y])
                            <=> a * y <= b * x
      BY DEF Risk!Below
    <3>2. s[m + 1] * 1 = s[m + 1] /\ s[n + 1] * 1 = s[n + 1] /\ u[c] * 1 = u[c] /\ u[d] * 1 = u[d]
      BY <2>14, <2>15
    <3>3. s[m + 1] * 1 <= s[n + 1] * 1 /\ u[d] * 1 <= s[n + 1] * d /\ u[c] * 1 <= s[m + 1] * c
      BY <2>10, <2>11, <2>14, <3>2
    <3> QED
      BY <2>13, <3>1, <3>3, Zenon
  <2> QED
    BY <2>10, <2>11, <2>16
<1> QED
  BY <1>1, <1>2

\* CVaR and VaR of advanced_risk_manager.hpp:52-118 are in order for every history
\* of returns: the deeper tail is worse, and no tail's average is better than its
\* border.
THEOREM TailsInOrder == ASSUME Risk!RiskAssumption PROVE Risk!Spec => []Risk!TailsOrdered
<1>1. Risk!Init => Risk!TailsOrdered
  <2>1. ASSUME Risk!Init
        PROVE  \A m \in {"cvar95", "cvar99", "var95", "var99"} : metrics[m] = [sum |-> 0, count |-> 1]
    BY <2>1 DEF Risk!Init, Risk!NoMetrics, Risk!Nothing, Risk!Average
  <2>2. ASSUME Risk!Init
        PROVE  /\ metrics.cvar95 = [sum |-> 0, count |-> 1] /\ metrics.cvar99 = [sum |-> 0, count |-> 1]
               /\ metrics.var95 = [sum |-> 0, count |-> 1] /\ metrics.var99 = [sum |-> 0, count |-> 1]
    BY <2>1, <2>2
  <2> QED
    BY <2>2 DEF Risk!TailsOrdered, Risk!Below
<1>2. Risk!TailsOrdered /\ [Risk!Next]_(Risk!vars) => Risk!TailsOrdered'
  <2>1. ASSUME Risk!TailsOrdered, UNCHANGED Risk!vars PROVE Risk!TailsOrdered'
    BY <2>1 DEF Risk!TailsOrdered, Risk!vars, Risk!Below
  <2>2. ASSUME Risk!CalculateRiskMetrics PROVE Risk!TailsOrdered'
    <3>1. PICK n \in 0..MaxHistory : history' \in [1..n -> Returns]
      BY <2>2 DEF Risk!CalculateRiskMetrics
    <3>2. history' \in Seq(Int)
      <4>1. n \in Nat
        BY <3>1 DEF Risk!RiskAssumption
      <4>2. \A y \in Returns : y \in Int
        BY DEF Risk!RiskAssumption
      <4>3. history' \in [1..n -> Int]
        BY <3>1, <4>2
      <4> QED
        BY <4>1, <4>3
    <3> DEFINE w == Risk!Sorted(history')
    <3>3. w \in Seq(Int) /\ Ascends(w)
      BY <3>2, SortedRises
    <3>4. /\ metrics'.cvar95 = Risk!Cvar(w, Tail95) /\ metrics'.cvar99 = Risk!Cvar(w, Tail99)
          /\ metrics'.var95 = Risk!Var(w, Tail95) /\ metrics'.var99 = Risk!Var(w, Tail99)
      BY <2>2 DEF Risk!CalculateRiskMetrics
    <3> HIDE DEF w
    <3>5. /\ Risk!Below(Risk!Cvar(w, Tail99), Risk!Cvar(w, Tail95))
          /\ Risk!Below(Risk!Var(w, Tail99), Risk!Var(w, Tail95))
          /\ Risk!Below(Risk!Cvar(w, Tail95), Risk!Var(w, Tail95))
          /\ Risk!Below(Risk!Cvar(w, Tail99), Risk!Var(w, Tail99))
      BY <3>3, TailsOf
    <3> QED
      BY <3>4, <3>5 DEF Risk!TailsOrdered
  <2> QED
    BY <2>1, <2>2 DEF Risk!Next
<1> QED
  BY <1>1, <1>2, PTL DEF Risk!Spec

-----------------------------------------------------------------------------
(* The hypotheses. *)

LEMMA MemoryDoubles == Doubles(Memory!Power)
<1>1. Memory!Power = CHOOSE p : Doubles(p)
  BY Zenon DEF Memory!Power, Doubles
<1> QED
  BY <1>1, DoublesExists, Zenon

LEMMA AheadScoresHigher ==
    ASSUME Memory!MemoryAssumption, now \in 0..MaxTime,
           NEW a \in [profit : Profits, at : 0..now], NEW b \in [profit : Profits, at : 0..now],
           Memory!Ahead(a, b)
    PROVE  Memory!Score(a) > Memory!Score(b)
<1>1. /\ a.profit \in Int /\ b.profit \in Int /\ a.at \in 0..now /\ b.at \in 0..now
      /\ MaxTime \in Nat
  BY DEF Memory!MemoryAssumption
<1>2. PICK p : p = Memory!Power /\ Doubles(p)
  BY MemoryDoubles
<1>3. ASSUME NEW i \in 0..now PROVE p[MaxTime - (now - i) \div 2] \in Nat \ {0}
  <2>1. MaxTime - (now - i) \div 2 \in Nat
    BY <1>1
  <2> QED
    BY <1>2, <2>1, DoublesIs
<1>4. PICK x, y \in Nat \ {0} :
        /\ x = p[MaxTime - (now - a.at) \div 2] /\ y = p[MaxTime - (now - b.at) \div 2]
  BY <1>1, <1>3
<1>5. Memory!Score(a) = a.profit * x /\ Memory!Score(b) = b.profit * y
  BY <1>2, <1>4 DEF Memory!Score
<1>6. CASE a.profit > 0 /\ b.profit <= 0
  <2>1. PICK c, d \in Nat : c = a.profit /\ c # 0 /\ d = -b.profit
    BY <1>1, <1>6
  <2>2. c * x >= 1 /\ d * y >= 0 /\ b.profit * y = -(d * y) /\ c * x \in Int /\ d * y \in Int
    BY <1>1, <2>1
  <2> QED
    BY <1>5, <2>1, <2>2
<1>7. CASE a.profit = 0 /\ b.profit < 0
  <2>1. PICK d \in Nat : d = -b.profit /\ d # 0
    BY <1>1, <1>7
  <2>2. 0 * x = 0 /\ d * y >= 1 /\ b.profit * y = -(d * y) /\ d * y \in Int
    BY <1>1, <2>1
  <2> QED
    BY <1>5, <1>7, <2>2
<1>8. CASE a.profit > 0 /\ b.profit > 0
           /\ a.profit * a.profit * p[a.at] > 4 * (b.profit * b.profit) * p[b.at]
  <2>1. a.profit \in Nat /\ b.profit \in Nat
    BY <1>1, <1>8
  <2>2. a.profit * p[MaxTime - (now - a.at) \div 2] > b.profit * p[MaxTime - (now - b.at) \div 2]
    BY <1>1, <1>2, <1>8, <2>1, AheadAtAnyTime
  <2> QED
    BY <1>4, <1>5, <2>2
<1>9. CASE a.profit < 0 /\ b.profit < 0
           /\ 4 * (a.profit * a.profit) * p[a.at] < b.profit * b.profit * p[b.at]
  <2>1. PICK c, d \in Nat : c = -a.profit /\ d = -b.profit
    BY <1>1, <1>9
  <2>2. c * c = a.profit * a.profit /\ d * d = b.profit * b.profit
    BY <1>1, <2>1
  <2>3. p[a.at] \in Nat /\ p[b.at] \in Nat
    <3>1. \A n \in Nat : p[n] \in Nat
      BY <1>2, DoublesIs
    <3>2. a.at \in Nat /\ b.at \in Nat
      BY <1>1
    <3> QED
      BY <3>1, <3>2
  <2>4. d * d * p[b.at] > 4 * (c * c) * p[a.at]
    <3>1. 4 * (c * c) * p[a.at] < d * d * p[b.at]
      BY <1>9, <2>2
    <3>2. 4 * (c * c) * p[a.at] \in Int /\ d * d * p[b.at] \in Int
      BY <2>3
    <3> QED
      BY <3>1, <3>2
  <2>5. d * p[MaxTime - (now - b.at) \div 2] > c * p[MaxTime - (now - a.at) \div 2]
    BY <1>1, <1>2, <2>4, AheadAtAnyTime
  <2>6. d * y > c * x
    BY <1>4, <2>5
  <2>7. a.profit * x = -(c * x) /\ b.profit * y = -(d * y) /\ c * x \in Int /\ d * y \in Int
    BY <1>1, <1>4, <2>1
  <2> QED
    BY <1>5, <2>6, <2>7
<1> QED
  BY <1>2, <1>6, <1>7, <1>8, <1>9 DEF Memory!Ahead

\* No hypothesis is younger than the clock, and what get_top_k returned has been
\* added before it was asked.
MemoryKept ==
    /\ now \in 0..MaxTime /\ hypotheses \in Seq([profit : Profits, at : 0..now])
    /\ asked.of \in 0..Len(hypotheses)
    /\ best \in Seq(1..asked.of)
    /\ Memory!RankingKept

\* What is ranked is asked for of the hypotheses that are there, and stays so when
\* more are added.
LEMMA MoreHypotheses ==
    ASSUME MemoryKept, UNCHANGED <<best, asked>>, now' \in now..MaxTime,
           hypotheses' \in Seq([profit : Profits, at : 0..now']), Len(hypotheses) <= Len(hypotheses)',
           \A i \in 1..Len(hypotheses) : hypotheses'[i] = hypotheses[i]
    PROVE  MemoryKept'
<1>1. asked.of \in 0..Len(hypotheses) /\ now \in 0..MaxTime /\ best \in Seq(1..asked.of)
      /\ Len(hypotheses) \in Nat /\ Len(hypotheses)' \in Nat
  BY DEF MemoryKept
<1>2. \A h \in 1..asked.of : hypotheses'[h] = hypotheses[h]
  BY <1>1
<1>3. \A i \in DOMAIN best : best[i] \in 1..asked.of
  BY <1>1
<1>4. Memory!RankingKept'
  <2>1. ASSUME NEW i \in DOMAIN best, NEW h \in 1..asked.of,
               Memory!Ahead(hypotheses'[h], hypotheses'[best[i]])
        PROVE  \E j \in 1..(i - 1) : best[j] = h
    <3>1. hypotheses'[h] = hypotheses[h] /\ hypotheses'[best[i]] = hypotheses[best[i]]
      BY <1>2, <1>3
    <3>2. Memory!Ahead(hypotheses[h], hypotheses[best[i]])
      BY <2>1, <3>1, Zenon
    <3> QED
      BY <3>2 DEF MemoryKept, Memory!RankingKept
  <2>2. \A a, b : Memory!Ahead(a, b)' <=> Memory!Ahead(a, b)
    BY DEF Memory!Ahead
  <2> QED
    BY <2>1 DEF Memory!RankingKept, Memory!Ahead
<1>5. now' \in 0..MaxTime /\ asked'.of \in 0..Len(hypotheses)' /\ best' \in Seq(1..asked'.of)
  BY <1>1
<1> QED
  BY <1>4, <1>5 DEF MemoryKept

LEMMA WiderSequence ==
    ASSUME NEW R, NEW S, R \subseteq S, NEW s \in Seq(R)
    PROVE  s \in Seq(S) /\ \A i \in 1..Len(s) : s[i] \in R
<1>1. \A i \in 1..Len(s) : s[i] \in R
  OBVIOUS
<1>2. s \in [1..Len(s) -> S] /\ Len(s) \in Nat
  BY <1>1
<1> QED
  BY <1>1, <1>2

LEMMA RankedBest ==
    ASSUME Memory!MemoryAssumption, MemoryKept, NEW k \in Ks, Memory!GetTopK(k)
    PROVE  MemoryKept'
<1>1. PICK r \in Memory!Rankings : best' = IF Len(r) > k THEN SubSeq(r, 1, k) ELSE r
  BY DEF Memory!GetTopK
<1>2. asked'.of = Len(hypotheses) /\ now' = now /\ hypotheses' = hypotheses
  BY DEF Memory!GetTopK
<1>3. PICK L \in Nat : L = Len(hypotheses) /\ DOMAIN hypotheses = 1..L
  BY DEF MemoryKept
<1>4. /\ r \in [1..L -> 1..L] /\ \A h \in 1..L : \E j \in 1..L : r[j] = h
      /\ \A i, j \in 1..L : i < j => Memory!Score(hypotheses[r[i]]) >= Memory!Score(hypotheses[r[j]])
  <2>1. r \in Memory!Bijection(1..L, 1..L)
    <3>1. r \in Memory!Bijection(DOMAIN hypotheses, DOMAIN hypotheses)
      BY Zenon DEF Memory!Rankings
    <3> QED
      BY <1>3, <3>1
  <2>2. r \in [1..L -> 1..L] /\ \A h \in 1..L : \E j \in 1..L : r[j] = h
    BY <2>1 DEF Memory!Bijection, Memory!Injection, Memory!Surjection, Memory!IsInjective
  <2>3. DOMAIN r = 1..L
    BY <2>2
  <2>4. \A i, j \in DOMAIN r : i < j => Memory!Score(hypotheses[r[i]]) >= Memory!Score(hypotheses[r[j]])
    BY Zenon DEF Memory!Rankings
  <2> QED
    BY <2>2, <2>3, <2>4, Zenon
<1>5. r \in Seq(1..L) /\ Len(r) = L
  BY <1>4
<1>6. k \in Nat
  <2>1. \A n \in Ks : n \in Nat
    BY DEF Memory!MemoryAssumption
  <2> QED
    BY <2>1
<1>7. /\ best' \in Seq(1..L)
      /\ DOMAIN (best') \subseteq 1..L
      /\ \A i \in DOMAIN (best') : best'[i] = r[i] /\ \A j \in 1..i : j \in DOMAIN (best')
  <2>1. CASE Len(r) > k
    <3>1. best' = SubSeq(r, 1, k) /\ k <= L
      BY <1>1, <1>5, <1>6, <2>1
    <3>2. best' = [i \in 1..k |-> r[i]]
      BY <1>5, <1>6, <3>1
    <3>3. \A i \in 1..k : i \in 1..L /\ r[i] \in 1..L
      BY <1>4, <1>6, <3>1
    <3>4. best' \in [1..k -> 1..L]
      BY <3>2, <3>3
    <3>5. best' \in Seq(1..L)
      BY <1>6, <3>4
    <3>6. DOMAIN (best') = 1..k /\ \A i \in 1..k : best'[i] = r[i] /\ \A j \in 1..i : j \in 1..k
      BY <1>6, <3>2
    <3> QED
      BY <3>3, <3>5, <3>6
  <2>2. CASE ~(Len(r) > k)
    <3>1. best' = r
      BY <1>1, <2>2
    <3>2. DOMAIN r = 1..L /\ \A i \in 1..L : \A j \in 1..i : j \in 1..L
      BY <1>4
    <3> QED
      BY <1>5, <3>1, <3>2
  <2> QED
    BY <2>1, <2>2
<1>8. \A i \in 1..L : hypotheses[i] \in [profit : Profits, at : 0..now]
  <2>1. hypotheses \in Seq([profit : Profits, at : 0..now])
    BY DEF MemoryKept
  <2> QED
    BY <1>3, <2>1, WiderSequence
<1>9. now \in 0..MaxTime
  BY DEF MemoryKept
<1>10. ASSUME NEW h \in 1..L PROVE Memory!Score(hypotheses[h]) \in Int
  <2>1. PICK p : p = Memory!Power /\ Doubles(p)
    BY MemoryDoubles
  <2>2. /\ hypotheses[h].profit \in Profits /\ hypotheses[h].at \in 0..now
    BY <1>8
  <2>3. hypotheses[h].profit \in Int
    <3>1. \A n \in Profits : n \in Int
      BY DEF Memory!MemoryAssumption
    <3> QED
      BY <2>2, <3>1
  <2>4. MaxTime - (now - hypotheses[h].at) \div 2 \in Nat
    BY <1>9, <2>2 DEF Memory!MemoryAssumption
  <2>5. p[MaxTime - (now - hypotheses[h].at) \div 2] \in Nat
    <3>1. \A n \in Nat : p[n] \in Nat
      BY <2>1, DoublesIs
    <3> QED
      BY <2>4, <3>1
  <2> QED
    BY <2>1, <2>3, <2>5 DEF Memory!Score
<1>11. ASSUME NEW i \in DOMAIN (best'), NEW h \in 1..L,
              Memory!Ahead(hypotheses[h], hypotheses[best'[i]])
       PROVE  \E j \in 1..(i - 1) : best'[j] = h
  <2>1. i \in 1..L /\ best'[i] = r[i] /\ r[i] \in 1..L
    BY <1>4, <1>7
  <2>2. Memory!Score(hypotheses[h]) > Memory!Score(hypotheses[r[i]])
    BY <1>8, <1>9, <1>11, <2>1, AheadScoresHigher
  <2>3. PICK j \in 1..L : r[j] = h
    BY <1>4
  <2>4. Memory!Score(hypotheses[h]) \in Int /\ Memory!Score(hypotheses[r[i]]) \in Int
    BY <1>10, <2>1
  <2>5. ~(i < j)
    <3>1. ASSUME i < j PROVE FALSE
      <4>1. Memory!Score(hypotheses[r[i]]) >= Memory!Score(hypotheses[r[j]])
        BY <1>4, <2>1, <3>1
      <4> QED
        BY <2>2, <2>3, <2>4, <4>1
    <3> QED
      BY <3>1
  <2>6. i # j
    <3>1. ASSUME i = j PROVE FALSE
      BY <2>2, <2>3, <2>4, <3>1
    <3> QED
      BY <3>1
  <2>7. j \in 1..(i - 1) /\ j \in 1..i
    BY <2>1, <2>5, <2>6
  <2>8. best'[j] = r[j]
    BY <1>7, <2>7
  <2> QED
    BY <2>3, <2>7, <2>8
<1>12. Memory!RankingKept'
  BY <1>2, <1>3, <1>11 DEF Memory!RankingKept, Memory!Ahead
<1>13. /\ now' \in 0..MaxTime /\ hypotheses' \in Seq([profit : Profits, at : 0..now'])
       /\ asked'.of \in 0..Len(hypotheses') /\ best' \in Seq(1..asked'.of)
  BY <1>2, <1>3, <1>7, <1>9 DEF MemoryKept
<1> QED
  BY <1>12, <1>13 DEF MemoryKept

LEMMA MemoryKeptStep ==
    ASSUME Memory!MemoryAssumption, MemoryKept, [Memory!Next]_(Memory!vars)
    PROVE  MemoryKept'
<1>1. /\ now \in 0..MaxTime /\ hypotheses \in Seq([profit : Profits, at : 0..now])
      /\ Len(hypotheses) \in Nat /\ MaxTime \in Nat
  BY DEF MemoryKept, Memory!MemoryAssumption
<1>2. ASSUME NEW t \in now..MaxTime PROVE hypotheses \in Seq([profit : Profits, at : 0..t])
  <2>1. \A n \in 0..now : n \in 0..t
    BY <1>1
  <2>2. [profit : Profits, at : 0..now] \subseteq [profit : Profits, at : 0..t]
    BY <2>1
  <2> QED
    BY <1>1, <2>2, WiderSequence, Zenon
<1>3. CASE UNCHANGED Memory!vars
  <2>1. UNCHANGED <<now, hypotheses, best, asked>>
    BY <1>3 DEF Memory!vars
  <2>2. now' \in now..MaxTime /\ Len(hypotheses) <= Len(hypotheses)'
        /\ hypotheses' \in Seq([profit : Profits, at : 0..now'])
    BY <1>1, <2>1
  <2> QED
    BY <2>1, <2>2, MoreHypotheses
<1>4. CASE Memory!Tick
  <2>1. now' = now + 1 /\ now < MaxTime /\ UNCHANGED <<hypotheses, best, asked>>
    BY <1>4 DEF Memory!Tick
  <2>2. now' \in now..MaxTime
    BY <1>1, <2>1
  <2>3. hypotheses' \in Seq([profit : Profits, at : 0..now'])
    BY <1>2, <2>1, <2>2
  <2>4. Len(hypotheses) <= Len(hypotheses)'
    BY <1>1, <2>1
  <2> QED
    BY <2>1, <2>2, <2>3, <2>4, MoreHypotheses
<1>5. ASSUME NEW p \in Profits, Memory!AddHypothesis(p) PROVE MemoryKept'
  <2>1. hypotheses' = Append(hypotheses, [profit |-> p, at |-> now]) /\ UNCHANGED <<now, best, asked>>
    BY <1>5 DEF Memory!AddHypothesis
  <2>2. [profit |-> p, at |-> now] \in [profit : Profits, at : 0..now] /\ now' \in now..MaxTime
    BY <1>1, <2>1
  <2>3. PICK x : x = [profit |-> p, at |-> now] /\ x \in [profit : Profits, at : 0..now]
    BY <2>2
  <2>4. hypotheses' = Append(hypotheses, x)
    BY <2>1, <2>3
  <2>5. PICK R : R = [profit : Profits, at : 0..now]
    OBVIOUS
  <2>6. hypotheses \in Seq(R) /\ x \in R
    BY <1>1, <2>3, <2>5
  <2>7. /\ hypotheses' \in Seq(R) /\ Len(hypotheses)' = Len(hypotheses) + 1
        /\ \A i \in 1..Len(hypotheses) : hypotheses'[i] = hypotheses[i]
    BY <2>4, <2>6
  <2>8. hypotheses' \in Seq([profit : Profits, at : 0..now']) /\ Len(hypotheses) <= Len(hypotheses)'
    BY <1>1, <2>1, <2>5, <2>7
  <2> QED
    BY <2>1, <2>2, <2>7, <2>8, MoreHypotheses
<1>6. ASSUME NEW k \in Ks, Memory!GetTopK(k) PROVE MemoryKept'
  BY <1>6, RankedBest
<1> QED
  BY <1>3, <1>4, <1>5, <1>6 DEF Memory!Next

LEMMA MemoryKeptInit == ASSUME Memory!MemoryAssumption, Memory!Init PROVE MemoryKept
<1>1. now = 0 /\ hypotheses = <<>> /\ best = <<>> /\ asked.of = 0
  BY DEF Memory!Init
<1>2. 0 \in 0..MaxTime
  BY DEF Memory!MemoryAssumption
<1>3. \A S : <<>> \in Seq(S) /\ Len(<<>>) = 0
  OBVIOUS
<1>4. DOMAIN best = {}
  BY <1>1
<1>5. Memory!RankingKept
  BY <1>4 DEF Memory!RankingKept
<1> QED
  BY <1>1, <1>2, <1>3, <1>5 DEF MemoryKept

\* What the proof of RankingsKept goes by, in every state.
LEMMA MemoryStays == ASSUME Memory!MemoryAssumption PROVE Memory!Spec => []MemoryKept
<1>1. Memory!Init => MemoryKept
  BY MemoryKeptInit
<1>2. MemoryKept /\ [Memory!Next]_(Memory!vars) => MemoryKept'
  BY MemoryKeptStep
<1> QED
  BY <1>1, <1>2, PTL DEF Memory!Spec

\* A hypothesis that is ahead of another is never ranked behind it, nor left out
\* for it (hypothesis_memory.hpp:17-52), whatever the profits and ages.
THEOREM RankingsKept == ASSUME Memory!MemoryAssumption PROVE Memory!Spec => []Memory!RankingKept
<1>1. MemoryKept => Memory!RankingKept
  BY DEF MemoryKept
<1> QED
  BY <1>1, MemoryStays, PTL

-----------------------------------------------------------------------------
(* The signer. *)

Hashes == 0..(HashMod - 1)

Mixed(a, b) == (Signer!Xor[<<a, b>>] * Multiplier) % HashMod

\* A step of the hash can be undone.
LEMMA HashSteps ==
    ASSUME Signer!SignerAssumption, NEW a \in Hashes, NEW b \in Hashes
    PROVE  /\ Mixed(a, b) \in Hashes /\ Signer!Xor[<<a, b>>] \in Hashes
           /\ \A c, d \in Hashes :
                 /\ (Mixed(a, b) = Mixed(c, d) /\ (a = c \/ b = d)) => (a = c /\ b = d)
                 /\ (Signer!Xor[<<a, b>>] = Signer!Xor[<<c, d>>] /\ (a = c \/ b = d)) => (a = c /\ b = d)
<1>1. PICK h : h = Signer!Xor /\ Xors(h)
  <2>1. Signer!Xor = CHOOSE h : Xors(h)
    BY Zenon DEF Signer!Xor, Xors
  <2> QED
    BY <2>1, XorExists, Zenon
<1>2. PICK p : p = Signer!Power /\ Doubles(p)
  <2>1. Signer!Power = CHOOSE p : Doubles(p)
    BY Zenon DEF Signer!Power, Doubles
  <2> QED
    BY <2>1, DoublesExists, Zenon
<1>3. PICK bits \in Nat : HashMod = p[bits] /\ HashMod \in Nat \ {0}
  <2>1. HashMod \in Nat \ {0}
    <3>1. Offset \in 0..(HashMod - 1)
      BY DEF Signer!SignerAssumption
    <3>2. \E b0 \in 1..HashMod : HashMod = p[b0]
      BY <1>2 DEF Signer!SignerAssumption
    <3>3. PICK b0 \in 1..HashMod : HashMod = p[b0]
      BY <3>2
    <3>4. b0 \in Nat
      OBVIOUS
    <3> QED
      BY <1>2, <3>3, <3>4, DoublesIs
  <2>2. PICK b0 \in 1..HashMod : HashMod = p[b0]
    BY <1>2 DEF Signer!SignerAssumption
  <2>3. b0 \in Nat
    OBVIOUS
  <2> QED
    BY <2>1, <2>2, <2>3
<1>4. Hashes = 0..(p[bits] - 1)
  BY <1>3 DEF Hashes
<1>5. ASSUME NEW c \in Hashes, NEW d \in Hashes PROVE h[<<c, d>>] \in Hashes
  <2>1. c \in 0..(p[bits] - 1) /\ d \in 0..(p[bits] - 1)
    BY <1>4
  <2>2. h[<<c, d>>] \in 0..(p[bits] - 1)
    BY <1>1, <1>2, <2>1, XorBounded
  <2> QED
    BY <1>4, <2>2
<1>6. ASSUME NEW c \in Hashes, NEW d \in Hashes, h[<<a, b>>] = h[<<c, d>>], a = c \/ b = d
      PROVE  a = c /\ b = d
  <2>1. /\ a \in 0..(p[bits] - 1) /\ b \in 0..(p[bits] - 1)
        /\ c \in 0..(p[bits] - 1) /\ d \in 0..(p[bits] - 1)
    BY <1>4
  <2> QED
    BY <1>1, <1>2, <1>6, <2>1, XorUndone
<1>7. PICK w \in Nat : Multiplier \in Nat /\ (Multiplier * w) % HashMod = 1
  <2>1. Multiplier \in Nat /\ \E w \in 0..(HashMod - 1) : (Multiplier * w) % HashMod = 1
    BY DEF Signer!SignerAssumption
  <2> QED
    BY <2>1
<1>8. ASSUME NEW c \in Hashes, NEW d \in Hashes, Mixed(a, b) = Mixed(c, d)
      PROVE  h[<<a, b>>] = h[<<c, d>>]
  <2>1. PICK x, y \in 0..(HashMod - 1) : x = h[<<a, b>>] /\ y = h[<<c, d>>]
    BY <1>5 DEF Hashes
  <2>2. (x * Multiplier) % HashMod = (y * Multiplier) % HashMod
    BY <1>1, <1>8, <2>1 DEF Mixed
  <2>3. x = y
    BY <1>3, <1>7, <2>2, ProductUndone
  <2> QED
    BY <2>1, <2>3
<1>9. Mixed(a, b) \in Hashes
  <2>1. PICK x \in Nat : x = h[<<a, b>>] * Multiplier
    <3>1. h[<<a, b>>] \in Nat
      BY <1>5 DEF Hashes
    <3> QED
      BY <1>7, <3>1
  <2>2. x % HashMod \in 0..(HashMod - 1)
    BY <1>3, QuotientRemainder
  <2> QED
    BY <1>1, <2>1, <2>2 DEF Mixed, Hashes
<1> QED
  BY <1>1, <1>5, <1>6, <1>8, <1>9

LEMMA HashRuns ==
    ASSUME Signer!SignerAssumption, NEW c \in Signer!Payloads
    PROVE  \E u \in [Nat -> Hashes] :
             /\ u[0] = Offset
             /\ \A n \in 0..(PayloadLength - 1) : u[n + 1] = Mixed(u[n], c[n + 1])
             /\ Signer!Hash(c) = u[PayloadLength]
<1>1. /\ PayloadLength \in Nat /\ Offset \in Hashes /\ \A i \in 1..PayloadLength : c[i] \in Hashes
  BY DEF Signer!SignerAssumption, Signer!Payloads, Hashes
<1>2. \A n \in Nat : n < PayloadLength => c[n + 1] \in Hashes
  BY <1>1
<1> DEFINE step == [q \in Nat \X Hashes |-> IF q[1] < PayloadLength THEN Mixed(q[2], c[q[1] + 1]) ELSE q[2]]
           B(h) == h = [n \in 0..PayloadLength |->
                          IF n = 0 THEN Offset ELSE (Signer!Xor[<<h[n - 1], c[n]>>] * Multiplier) % HashMod]
<1>3. step \in [Nat \X Hashes -> Hashes]
  <2>1. ASSUME NEW q \in Nat \X Hashes
        PROVE  (IF q[1] < PayloadLength THEN Mixed(q[2], c[q[1] + 1]) ELSE q[2]) \in Hashes
    <3>1. q[1] \in Nat /\ q[2] \in Hashes
      OBVIOUS
    <3>2. \A a, b \in Hashes : Mixed(a, b) \in Hashes
      BY HashSteps
    <3> QED
      BY <1>2, <3>1, <3>2
  <2> QED
    BY <2>1
<1>4. PICK u \in [Nat -> Hashes] : u[0] = Offset /\ \A n \in Nat : u[n + 1] = step[<<n, u[n]>>]
  <2> HIDE DEF step
  <2>1. Follows(Hashes, Offset, step)
    BY <1>1, <1>3, RecursionOverNat, Zenon
  <2> QED
    BY <2>1 DEF Follows
<1>5. ASSUME NEW n \in 0..(PayloadLength - 1) PROVE u[n + 1] = Mixed(u[n], c[n + 1])
  <2>1. n \in Nat /\ n < PayloadLength
    BY <1>1
  <2>2. <<n, u[n]>> \in Nat \X Hashes
    BY <1>4, <2>1
  <2>3. step[<<n, u[n]>>] = Mixed(u[n], c[n + 1])
    BY <2>1, <2>2
  <2> QED
    BY <1>4, <2>1, <2>3
<1> HIDE DEF step
<1>6. B([n \in 0..PayloadLength |-> u[n]])
  <2>1. ASSUME NEW n \in 0..PayloadLength, n # 0
        PROVE  /\ u[n] = (Signer!Xor[<<u[n - 1], c[n]>>] * Multiplier) % HashMod
               /\ n - 1 \in 0..PayloadLength
    <3>1. n - 1 \in 0..(PayloadLength - 1) /\ (n - 1) + 1 = n /\ n - 1 \in 0..PayloadLength
      BY <1>1, <2>1
    <3>2. u[(n - 1) + 1] = Mixed(u[n - 1], c[(n - 1) + 1])
      BY <1>5, <3>1
    <3> QED
      BY <3>1, <3>2 DEF Mixed
  <2> QED
    BY <1>4, <2>1
<1>7. PICK h : h = (CHOOSE g : B(g)) /\ B(h)
  <2> HIDE DEF B
  <2> QED
    BY <1>6, Zenon
<1>8. Signer!Hash(c) = (CHOOSE g : B(g))[PayloadLength]
  BY Zenon DEF Signer!Hash
<1> DEFINE A == {n \in Nat : h[n] = u[n]}
<1>9. 0 \in A
  <2>1. 0 \in 0..PayloadLength
    BY <1>1
  <2>2. h = [n \in 0..PayloadLength |->
               IF n = 0 THEN Offset ELSE (Signer!Xor[<<h[n - 1], c[n]>>] * Multiplier) % HashMod]
    BY <1>7
  <2>3. h[0] = Offset
    BY <2>1, <2>2
  <2> QED
    BY <1>4, <2>3
<1>10. ASSUME NEW n \in 0..(PayloadLength - 1), n \in A PROVE n + 1 \in A
  <2>1. n \in Nat /\ n + 1 \in 0..PayloadLength /\ n + 1 # 0 /\ (n + 1) - 1 = n
    BY <1>1
  <2>2. h = [i \in 0..PayloadLength |->
               IF i = 0 THEN Offset ELSE (Signer!Xor[<<h[i - 1], c[i]>>] * Multiplier) % HashMod]
    BY <1>7
  <2>3. h[n + 1] = (Signer!Xor[<<h[(n + 1) - 1], c[n + 1]>>] * Multiplier) % HashMod
    BY <2>1, <2>2
  <2>4. h[n + 1] = Mixed(h[n], c[n + 1])
    BY <2>1, <2>3 DEF Mixed
  <2> QED
    BY <1>5, <1>10, <2>1, <2>4
<1>11. \A n \in 0..PayloadLength : n \in A
  <2> HIDE DEF A, B
  <2> QED
    BY <1>1, <1>9, <1>10, CountUp
<1>12. h[PayloadLength] = u[PayloadLength]
  <2>1. PayloadLength \in 0..PayloadLength
    BY <1>1
  <2> QED
    BY <1>11, <2>1
<1> HIDE DEF B
<1> QED
  BY <1>4, <1>5, <1>7, <1>8, <1>12

\* One byte changed changes the hash.
LEMMA HashTells ==
    ASSUME Signer!SignerAssumption, NEW c \in Signer!Payloads, NEW d \in Signer!Payloads,
           NEW m \in 1..PayloadLength, c[m] # d[m],
           \A i \in 1..PayloadLength : i # m => c[i] = d[i]
    PROVE  Signer!Hash(c) # Signer!Hash(d)
<1>1. /\ PayloadLength \in Nat
      /\ \A i \in 1..PayloadLength : c[i] \in Hashes /\ d[i] \in Hashes
  BY DEF Signer!SignerAssumption, Signer!Payloads, Hashes
<1>2. PICK u \in [Nat -> Hashes] :
             /\ u[0] = Offset
             /\ \A n \in 0..(PayloadLength - 1) : u[n + 1] = Mixed(u[n], c[n + 1])
             /\ Signer!Hash(c) = u[PayloadLength]
  BY HashRuns
<1>3. PICK v \in [Nat -> Hashes] :
             /\ v[0] = Offset
             /\ \A n \in 0..(PayloadLength - 1) : v[n + 1] = Mixed(v[n], d[n + 1])
             /\ Signer!Hash(d) = v[PayloadLength]
  BY HashRuns
\* Equal before the byte, different from it on.
<1> DEFINE A == {n \in Nat : u[n] = v[n] <=> n < m}
<1>4. 0 \in A
  BY <1>2, <1>3
<1>5. ASSUME NEW n \in 0..(PayloadLength - 1), n \in A PROVE n + 1 \in A
  <2>1. n \in Nat /\ n + 1 \in 1..PayloadLength
    BY <1>1
  <2>2. u[n] \in Hashes /\ v[n] \in Hashes /\ c[n + 1] \in Hashes /\ d[n + 1] \in Hashes
    BY <1>1, <1>2, <1>3, <2>1
  <2>3. u[n + 1] = Mixed(u[n], c[n + 1]) /\ v[n + 1] = Mixed(v[n], d[n + 1])
    BY <1>2, <1>3
  <2>4. (Mixed(u[n], c[n + 1]) = Mixed(v[n], d[n + 1]) /\ (u[n] = v[n] \/ c[n + 1] = d[n + 1]))
          => (u[n] = v[n] /\ c[n + 1] = d[n + 1])
    <3>1. PICK e, f, g, h \in Hashes :
             e = u[n] /\ f = c[n + 1] /\ g = v[n] /\ h = d[n + 1]
      BY <2>2, Zenon
    <3>2. (Mixed(e, f) = Mixed(g, h) /\ (e = g \/ f = h)) => (e = g /\ f = h)
      BY HashSteps
    <3> QED
      BY <3>1, <3>2, Zenon
  <2>5. u[n] = v[n] <=> n < m
    BY <1>5
  <2>6. CASE n + 1 < m
    <3>1. c[n + 1] = d[n + 1] /\ n < m
      BY <2>1, <2>6
    <3> QED
      BY <2>1, <2>3, <2>5, <2>6, <3>1
  <2>7. CASE n + 1 = m
    <3>1. c[n + 1] # d[n + 1] /\ n < m
      BY <2>1, <2>7
    <3>2. u[n + 1] # v[n + 1]
      BY <2>3, <2>4, <2>5, <3>1
    <3> QED
      BY <2>1, <2>7, <3>2
  <2>8. CASE n + 1 > m
    <3>1. n + 1 # m /\ ~(n < m)
      BY <2>1, <2>8
    <3>2. c[n + 1] = d[n + 1] /\ u[n] # v[n]
      BY <2>1, <2>5, <3>1
    <3>3. u[n + 1] # v[n + 1]
      BY <2>3, <2>4, <3>2
    <3> QED
      BY <2>1, <2>8, <3>3
  <2> QED
    BY <2>1, <2>6, <2>7, <2>8
<1>6. \A n \in 0..PayloadLength : n \in A
  <2> HIDE DEF A
  <2> QED
    BY <1>1, <1>4, <1>5, CountUp
<1>7. u[PayloadLength] # v[PayloadLength]
  <2>1. PayloadLength \in 0..PayloadLength /\ ~(PayloadLength < m)
    BY <1>1
  <2> QED
    BY <1>6, <2>1
<1> QED
  BY <1>2, <1>3, <1>7

\* The signature is that of what was signed, and what verify_signature returned
\* still holds.
SignatureKept ==
    /\ data \in Signer!Payloads /\ signed \in Signer!Payloads
    /\ signature = Signer!Signature(signed)
    /\ verified = "valid" => Signer!Signature(data) = signature
    /\ verified = "invalid" => Signer!Signature(data) # signature

LEMMA SignatureTells ==
    ASSUME Signer!SignerAssumption, SignatureKept
    PROVE  Signer!AlterationTold
<1>1. /\ data \in Signer!Payloads /\ signed \in Signer!Payloads
      /\ DOMAIN data = 1..PayloadLength /\ DOMAIN signed = 1..PayloadLength
  BY DEF SignatureKept, Signer!Payloads
<1>2. ASSUME {n \in 1..PayloadLength : data[n] # signed[n]} = {} PROVE verified # "invalid"
  <2>1. \A n \in 1..PayloadLength : data[n] = signed[n]
    BY <1>2
  <2>2. data = signed
    <3>1. /\ data = [i \in 1..PayloadLength |-> data[i]]
          /\ signed = [i \in 1..PayloadLength |-> signed[i]]
      BY <1>1 DEF Signer!Payloads
    <3> QED
      BY <2>1, <3>1
  <2> QED
    BY <2>2 DEF SignatureKept
<1>3. ASSUME NEW m \in 1..PayloadLength, {n \in 1..PayloadLength : data[n] # signed[n]} = {m}
      PROVE  verified # "valid"
  <2>1. data[m] # signed[m] /\ \A i \in 1..PayloadLength : i # m => data[i] = signed[i]
    BY <1>3
  <2>2. Signer!Hash(data) # Signer!Hash(signed)
    BY <1>1, <2>1, HashTells
  <2>3. Signer!Hash(data) \in Hashes /\ Signer!Hash(signed) \in Hashes
    <3>1. ASSUME NEW c \in Signer!Payloads PROVE Signer!Hash(c) \in Hashes
      <4>1. PayloadLength \in Nat
        BY DEF Signer!SignerAssumption
      <4> QED
        BY <4>1, HashRuns
    <3> QED
      BY <1>1, <3>1
  <2>4. 0 \in Masks /\ 0 \in Hashes
    BY DEF Signer!SignerAssumption, Hashes
  <2>5. Signer!Xor[<<Signer!Hash(data), 0>>] # Signer!Xor[<<Signer!Hash(signed), 0>>]
    BY <2>2, <2>3, <2>4, HashSteps
  <2>6. Signer!Signature(data) # Signer!Signature(signed)
    <3>1. /\ Signer!Signature(data)[0] = Signer!Xor[<<Signer!Hash(data), 0>>]
          /\ Signer!Signature(signed)[0] = Signer!Xor[<<Signer!Hash(signed), 0>>]
      BY <2>4 DEF Signer!Signature
    <3> QED
      BY <2>5, <3>1
  <2> QED
    BY <2>6 DEF SignatureKept
<1> QED
  BY <1>2, <1>3, Zenon DEF Signer!AlterationTold

LEMMA SignatureKeptStep ==
    ASSUME SignatureKept, [Signer!Next]_(Signer!vars)
    PROVE  SignatureKept'
<1>1. CASE UNCHANGED Signer!vars
  <2>1. UNCHANGED <<data, signed, signature, verified>>
    BY <1>1 DEF Signer!vars
  <2> QED
    BY <2>1 DEF SignatureKept
<1>2. CASE Signer!SignPayload
  <2>1. signed' = data /\ data' = data /\ signature' = Signer!Signature(data) /\ verified' = "no"
    BY <1>2 DEF Signer!SignPayload
  <2>2. data' \in Signer!Payloads /\ signed' \in Signer!Payloads /\ signature' = Signer!Signature(signed')
    BY <2>1 DEF SignatureKept
  <2> QED
    BY <2>1, <2>2 DEF SignatureKept
<1>3. CASE Signer!VerifySignature
  <2>1. /\ UNCHANGED <<data, signed, signature>>
        /\ verified' = IF Signer!Signature(data) = signature THEN "valid" ELSE "invalid"
    BY <1>3 DEF Signer!VerifySignature
  <2> QED
    BY <2>1 DEF SignatureKept
<1>4. ASSUME NEW n \in 1..PayloadLength, NEW b \in Bytes, Signer!Alter(n, b) PROVE SignatureKept'
  <2>1. /\ UNCHANGED <<signed, signature>> /\ verified' = "no" /\ data' = [data EXCEPT ![n] = b]
    BY <1>4 DEF Signer!Alter
  <2>2. data' \in Signer!Payloads
    BY <2>1 DEF SignatureKept, Signer!Payloads
  <2> QED
    BY <2>1, <2>2 DEF SignatureKept
<1> QED
  BY <1>1, <1>2, <1>3, <1>4 DEF Signer!Next

\* What the proof of AlterationsTold goes by, in every state.
LEMMA SignatureStays == ASSUME Signer!SignerAssumption PROVE Signer!Spec => []SignatureKept
<1>1. Signer!Init => SignatureKept
  BY DEF Signer!Init, SignatureKept
<1>2. SignatureKept /\ [Signer!Next]_(Signer!vars) => SignatureKept'
  BY SignatureKeptStep
<1> QED
  BY <1>1, <1>2, PTL DEF Signer!Spec

\* A payload with one byte changed is not taken for the one signed, and the one
\* signed is (enclave_signer.hpp:32-73), for any width of the hash.
THEOREM AlterationsTold == ASSUME Signer!SignerAssumption PROVE Signer!Spec => []Signer!AlterationTold
<1>1. SignatureKept => Signer!AlterationTold
  BY SignatureTells
<1> QED
  BY <1>1, SignatureStays, PTL

-----------------------------------------------------------------------------
(* The mixtures. *)

\* The mixture reckons as the module of fractions does.
LEMMA MixtureReckons ==
    ASSUME NEW a, NEW b
    PROVE  /\ Mixture!Ratio(a, b) = Ratio(a, b) /\ Mixture!Plus(a, b) = Plus(a, b)
           /\ Mixture!Minus(a, b) = Minus(a, b) /\ Mixture!Times(a, b) = Times(a, b)
           /\ Mixture!Over(a, b) = Over(a, b) /\ (Mixture!AtMost(a, b) <=> AtMost(a, b))
           /\ Mixture!SumOf(a, b) = SumOf(a, b)
<1>1. Mixture!Gcd = Gcd
  BY Zenon DEF Mixture!Gcd, Gcd
<1>2. \A c, d : Mixture!Common(c, d) = Common(c, d)
  BY <1>1, Zenon DEF Mixture!Common, Common
<1>3. \A c, d : Mixture!Ratio(c, d) = Ratio(c, d)
  BY <1>2, Zenon DEF Mixture!Ratio, Ratio
<1>4. \A c, d : Mixture!Plus(c, d) = Plus(c, d)
  BY <1>2, <1>3, Zenon DEF Mixture!Plus, Plus
<1>5. \A c, d : Mixture!Times(c, d) = Times(c, d)
  BY <1>2, Zenon DEF Mixture!Times, Times
<1>6. Mixture!Minus(a, b) = Minus(a, b)
  BY <1>4, Zenon DEF Mixture!Minus, Minus
<1>7. Mixture!Over(a, b) = Over(a, b)
  BY <1>5, Zenon DEF Mixture!Over, Over
<1>8. Mixture!AtMost(a, b) <=> AtMost(a, b)
  BY <1>6, Zenon DEF Mixture!AtMost, AtMost
<1>9. Mixture!SumOf(a, b) = SumOf(a, b)
  <2>1. Mixture!SumOf(a, b)
          = (CHOOSE h : h = [k \in 0..b |-> IF k = 0 THEN Mixture!Ratio(0, 1)
                                             ELSE Mixture!Plus(h[k - 1], a[k])])[b]
    BY Zenon DEF Mixture!SumOf
  <2>2. SumOf(a, b)
          = (CHOOSE h : h = [k \in 0..b |-> IF k = 0 THEN Ratio(0, 1) ELSE Plus(h[k - 1], a[k])])[b]
    BY Zenon DEF SumOf
  <2> QED
    BY <1>3, <1>4, <2>1, <2>2
<1> QED
  BY <1>3, <1>4, <1>5, <1>6, <1>7, <1>8, <1>9

\* What observation t gives to component k, and component k's share of what the
\* state is responsible for in it.
Weighed(f, t, k) == Times(components[k].weight, Ratio(f[k][components[k].age][Readings[t]], 1))
Portion(f, k, t) ==
    Times(Ratio(responsible[t], 1),
          Over(Weighed(f, t, k), SumOf([j \in 1..Parts |-> Weighed(f, t, j)], Parts)))

\* The inductive invariant: weights are positive, and what is new fits the
\* observations of the state.
OwnReadings == {Readings[t] : t \in {s \in 1..Len(Readings) : responsible[s] > 0}}
Fits(c) ==
    /\ c.mean \in Reduced /\ c.covariance \in Reduced
    /\ \A l \in Int : (\A o \in OwnReadings : l <= o) => NotAbove(Ratio(l, 1), c.mean)
    /\ \A h \in Int : (\A o \in OwnReadings : o <= h) => NotAbove(c.mean, Ratio(h, 1))
    /\ NotAbove(Least, c.covariance)
    /\ NotAbove(c.weight, Ratio(1, 1))
    /\ OwnReadings # {}
MixtureInv ==
    /\ responsible \in [1..Len(Readings) -> Responsible]
    /\ gauss \in Tables /\ nig \in Tables
    /\ component \in 1..(Parts + 1)
    /\ DOMAIN components = 1..Parts /\ components = [k \in 1..Parts |-> components[k]]
    /\ \A k \in 1..Parts :
         /\ components[k].weight \in Reduced /\ components[k].weight.n > 0
         /\ components[k].age \in {"old", "new"}
         /\ components[k].age = "new" => Fits(components[k])

\* What a positive fraction is not above is positive.
LEMMA NotAboveSign ==
    ASSUME NEW a \in Reduced, NEW b \in Reduced, NotAbove(a, b), a.n > 0
    PROVE  b.n > 0
<1>1. PICK an \in Nat \ {0}, ad \in Nat \ {0}, bn \in Int, bd \in Nat \ {0} :
        an = a.n /\ ad = a.d /\ bn = b.n /\ bd = b.d
  BY ReducedIs
<1>2. an * bd <= bn * ad
  BY <1>1 DEF NotAbove
<1>3. an * bd > 0
  OBVIOUS
<1>4. ASSUME bn <= 0 PROVE FALSE
  <2>1. (-bn) * ad >= 0
    BY <1>4
  <2>2. (-bn) * ad = -(bn * ad) /\ bn * ad \in Int /\ an * bd \in Int
    OBVIOUS
  <2> QED
    BY <1>2, <1>3, <2>1, <2>2
<1> QED
  BY <1>1, <1>4

\* The observations are numbers.
LEMMA ReadingsAre ==
    ASSUME Mixture!MixtureAssumption
    PROVE  /\ Parts \in Nat \ {0} /\ Len(Readings) \in Nat
           /\ \A t \in 1..Len(Readings) : Readings[t] \in Int
           /\ DOMAIN Readings = 1..Len(Readings)
BY DEF Mixture!MixtureAssumption

\* The share the module computes is that portion.
LEMMA SharesAre ==
    ASSUME Mixture!MixtureAssumption, NEW f, NEW k, NEW t
    PROVE  Mixture!Share(f, k, t) = Portion(f, k, t)
<1>1. \A j : Mixture!Times(components[j].weight, Mixture!Ratio(f[j][components[j].age][Readings[t]], 1))
               = Weighed(f, t, j)
  BY MixtureReckons DEF Weighed
<1>2. Mixture!Share(f, k, t)
        = Mixture!Times(Mixture!Ratio(responsible[t], 1),
            Mixture!Over(Mixture!Times(components[k].weight,
                                       Mixture!Ratio(f[k][components[k].age][Readings[t]], 1)),
              Mixture!SumOf([j \in 1..Parts |->
                  Mixture!Times(components[j].weight,
                                Mixture!Ratio(f[j][components[j].age][Readings[t]], 1))], Parts)))
  BY Zenon DEF Mixture!Share, Mixture!SumUpTo
<1>3. [j \in 1..Parts |-> Mixture!Times(components[j].weight,
                            Mixture!Ratio(f[j][components[j].age][Readings[t]], 1))]
        = [j \in 1..Parts |-> Weighed(f, t, j)]
  BY <1>1
<1> DEFINE all == SumOf([j \in 1..Parts |-> Weighed(f, t, j)], Parts)
<1>4. Mixture!SumOf([j \in 1..Parts |-> Weighed(f, t, j)], Parts) = all
  BY MixtureReckons
<1>5. Portion(f, k, t) = Times(Ratio(responsible[t], 1), Over(Weighed(f, t, k), all))
  BY Zenon DEF Portion
<1> HIDE DEF all
<1>6. Mixture!Share(f, k, t)
        = Mixture!Times(Mixture!Ratio(responsible[t], 1), Mixture!Over(Weighed(f, t, k), all))
  BY <1>1, <1>2, <1>3, <1>4, Zenon
<1> QED
  BY <1>5, <1>6, MixtureReckons

\* A share is positive where the state is responsible, nothing where it is not,
\* and no more than what the state is responsible for.
LEMMA PortionIs ==
    ASSUME Mixture!MixtureAssumption, MixtureInv, NEW f \in Tables, NEW k \in 1..Parts,
           NEW t \in 1..Len(Readings)
    PROVE  /\ responsible[t] \in Nat /\ Ratio(responsible[t], 1) \in Reduced
           /\ Portion(f, k, t) \in Reduced /\ Portion(f, k, t).n >= 0
           /\ responsible[t] > 0 => Portion(f, k, t).n > 0
           /\ responsible[t] = 0 => Portion(f, k, t) = Ratio(0, 1)
           /\ NotAbove(Portion(f, k, t), Ratio(responsible[t], 1))
<1> DEFINE g == Ratio(responsible[t], 1)
           w == [j \in 1..Parts |-> Weighed(f, t, j)]
           all == SumOf(w, Parts)
<1>1. responsible[t] \in Nat
  BY DEF MixtureInv, Mixture!MixtureAssumption
<1>2. Worth(g, responsible[t], 1) /\ g \in Reduced
  BY <1>1, WholesAre
<1>3. g.n >= 0 /\ (responsible[t] > 0 => g.n > 0) /\ (responsible[t] = 0 => g.n = 0)
  <2> HIDE DEF g
  <2> QED
    BY <1>1, <1>2, SignIs
<1>4. ASSUME NEW j \in 1..Parts PROVE w[j] = Weighed(f, t, j) /\ w[j] \in Reduced /\ w[j].n > 0
  <2>1. PICK n \in Nat \ {0} : n = f[j][components[j].age][Readings[t]]
    BY ReadingsAre DEF MixtureInv, Mixture!MixtureAssumption
  <2>2. Worth(Ratio(n, 1), n, 1) /\ Ratio(n, 1) \in Reduced
    BY WholesAre
  <2>3. Ratio(n, 1).n > 0
    BY <2>2, SignIs
  <2>4. components[j].weight \in Reduced /\ components[j].weight.n > 0
    BY DEF MixtureInv
  <2>5. Times(components[j].weight, Ratio(n, 1)) \in Reduced /\ Times(components[j].weight, Ratio(n, 1)).n > 0
    BY <2>2, <2>3, <2>4, ReducedClosed, TimesSign
  <2> QED
    BY <2>1, <2>5 DEF Weighed
<1>5. Parts \in Nat
  BY ReadingsAre
<1>6. \A j \in 1..Parts : w[j] \in Reduced /\ w[j].n >= 0
  <2> HIDE DEF w
  <2>1. ASSUME NEW j \in 1..Parts PROVE w[j] \in Reduced /\ w[j].n >= 0
    <3>1. w[j] \in Reduced /\ w[j].n > 0
      BY <1>4
    <3>2. w[j].n \in Int
      BY <3>1, ReducedIs
    <3> QED
      BY <3>1, <3>2
  <2> QED
    BY <2>1
<1> DEFINE own == w[k]
<1>7. own \in Reduced /\ own.n > 0 /\ own = Weighed(f, t, k)
  BY <1>4
<1>8. all \in Reduced /\ NotAbove(own, all)
  <2> HIDE DEF w
  <2> QED
    BY <1>5, <1>6, TermWithin, SumOfExists
<1> HIDE DEF own, all
<1>9. all.n > 0
  BY <1>7, <1>8, NotAboveSign
<1>10. Over(own, all) \in Reduced /\ Over(own, all).n > 0 /\ NotAbove(Over(own, all), Ratio(1, 1))
  <2>1. Ratio(1, 1) \in Reduced
    BY WholesAre, 1 \in Int
  <2>2. Times(Ratio(1, 1), all) = all
    BY <1>8, <2>1, TimesSign, TimesOne
  <2> QED
    BY <1>7, <1>8, <1>9, <2>1, <2>2, OverOrdered
<1>11. Portion(f, k, t) = Times(g, Over(own, all))
  BY <1>7, Zenon DEF Portion, all, w
<1> DEFINE o == Over(own, all)
<1> HIDE DEF g, o
<1>12. o \in Reduced /\ o.n > 0 /\ NotAbove(o, Ratio(1, 1)) /\ Portion(f, k, t) = Times(g, o)
  BY <1>10, <1>11 DEF o
<1>13. NotAbove(Times(g, o), Times(g, Ratio(1, 1))) /\ Times(g, Ratio(1, 1)) = g
  <2>1. Ratio(1, 1) \in Reduced
    BY WholesAre, 1 \in Int
  <2> QED
    BY <1>2, <1>3, <1>12, <2>1, TimesOrdered, TimesOne
<1>14. Times(g, o) \in Reduced
  BY <1>2, <1>12, ReducedClosed
<1>15. /\ Times(g, o).n >= 0 /\ (responsible[t] > 0 => Times(g, o).n > 0)
       /\ (responsible[t] = 0 => Times(g, o) = Ratio(0, 1))
  <2>1. o.n >= 0
    <3>1. o.n \in Int
      BY <1>12, ReducedIs
    <3> QED
      BY <1>12, <3>1
  <2> QED
    BY <1>2, <1>3, <1>12, <2>1, TimesSign
<1>16. NotAbove(Times(g, o), g)
  BY <1>13
<1> QED
  BY <1>1, <1>2, <1>12, <1>14, <1>15, <1>16 DEF g

\* The new weight, mean and variance.
Portions(f, k)  == [t \in 1..Len(Readings) |-> Portion(f, k, t)]
\* The component's share over all observations, its mean and its spread.
MassOf(k)       == SumOf(Portions(gauss, k), Len(Readings))
Responsibles    == [t \in 1..Len(Readings) |-> Ratio(responsible[t], 1)]
ResponsibleSum  == SumOf(Responsibles, Len(Readings))
MeanOf(k)       == Over(SumOf([t \in 1..Len(Readings) |->
                       Times(Portion(gauss, k, t), Ratio(Readings[t], 1))], Len(Readings)), MassOf(k))
SquareOff(k, t) == Times(Minus(Ratio(Readings[t], 1), MeanOf(k)), Minus(Ratio(Readings[t], 1), MeanOf(k)))
SpreadOf(k)     == Over(SumOf([t \in 1..Len(Readings) |->
                       Times(Portion(nig, k, t), SquareOff(k, t))], Len(Readings)), MassOf(k))

\* These are what the module computes.
LEMMA MixtureComputes ==
    ASSUME Mixture!MixtureAssumption, NEW k
    PROVE  /\ Mixture!GammaSum = ResponsibleSum /\ Mixture!Mass(k) = MassOf(k)
           /\ Mixture!NewMean(k) = MeanOf(k)
           /\ Mixture!NewCovariance(k) = Plus(SpreadOf(k), Least)
<1> DEFINE L == Len(Readings)
<1>1. \A f, j, t : Mixture!Share(f, j, t) = Portion(f, j, t)
  BY SharesAre
<1>2. Mixture!GammaSum = ResponsibleSum
  <2>1. Mixture!GammaSum = Mixture!SumOf([t \in 1..L |-> Mixture!Ratio(responsible[t], 1)], L)
    BY Zenon DEF Mixture!GammaSum, Mixture!SumUpTo, Mixture!T
  <2>2. [t \in 1..L |-> Mixture!Ratio(responsible[t], 1)] = Responsibles
    BY MixtureReckons DEF Responsibles
  <2> QED
    BY <2>1, <2>2, MixtureReckons DEF ResponsibleSum
<1>3. Mixture!Mass(k) = MassOf(k)
  <2>1. Mixture!Mass(k) = Mixture!SumOf([t \in 1..L |-> Mixture!Share(gauss, k, t)], L)
    BY Zenon DEF Mixture!Mass, Mixture!SumUpTo, Mixture!T
  <2>2. [t \in 1..L |-> Mixture!Share(gauss, k, t)] = Portions(gauss, k)
    BY <1>1 DEF Portions
  <2> QED
    BY <2>1, <2>2, MixtureReckons DEF MassOf
<1>4. Mixture!NewMean(k) = MeanOf(k)
  <2>1. Mixture!NewMean(k)
          = Mixture!Over(Mixture!SumOf([t \in 1..L |->
              Mixture!Times(Mixture!Share(gauss, k, t), Mixture!Ratio(Readings[t], 1))], L), Mixture!Mass(k))
    BY Zenon DEF Mixture!NewMean, Mixture!SumUpTo, Mixture!T, Mixture!Of
  <2>2. [t \in 1..L |-> Mixture!Times(Mixture!Share(gauss, k, t), Mixture!Ratio(Readings[t], 1))]
          = [t \in 1..L |-> Times(Portion(gauss, k, t), Ratio(Readings[t], 1))]
    BY <1>1, MixtureReckons
  <2> QED
    BY <1>3, <2>1, <2>2, MixtureReckons DEF MeanOf
<1>5. Mixture!NewCovariance(k) = Plus(SpreadOf(k), Least)
  <2> DEFINE off(t) == Mixture!Minus(Mixture!Ratio(Readings[t], 1), Mixture!NewMean(k))
  <2>1. Mixture!NewCovariance(k)
          = Mixture!Plus(Mixture!Over(Mixture!SumOf([t \in 1..L |->
              Mixture!Times(Mixture!Share(nig, k, t), Mixture!Times(off(t), off(t)))], L), Mixture!Mass(k)), Least)
    BY Zenon DEF Mixture!NewCovariance, Mixture!SumUpTo, Mixture!T, Mixture!Of
  <2>2. \A t : Mixture!Times(off(t), off(t)) = SquareOff(k, t)
    BY <1>4, MixtureReckons DEF SquareOff
  <2> HIDE DEF off
  <2>3. [t \in 1..L |-> Mixture!Times(Mixture!Share(nig, k, t), Mixture!Times(off(t), off(t)))]
          = [t \in 1..L |-> Times(Portion(nig, k, t), SquareOff(k, t))]
    BY <1>1, <2>2, MixtureReckons
  <2> QED
    BY <1>3, <2>1, <2>3, MixtureReckons DEF SpreadOf
<1> QED
  BY <1>2, <1>3, <1>4, <1>5

\* Nothing, as a fraction.
LEMMA NothingIs == Ratio(0, 1) \in Reduced /\ Worth(Ratio(0, 1), 0, 1) /\ Ratio(0, 1).n = 0
<1>1. Ratio(0, 1) \in Reduced /\ Worth(Ratio(0, 1), 0, 1)
  BY WholesAre, 0 \in Int
<1>2. Ratio(0, 1).n = 0
  BY <1>1, SignIs
<1> QED
  BY <1>1, <1>2

\* Some observation is the state's, and the component's share of it too.
LEMMA MassIs ==
    ASSUME Mixture!MixtureAssumption, MixtureInv, NEW k \in 1..Parts, ResponsibleSum.n > 0
    PROVE  /\ OwnReadings # {}
           /\ MassOf(k) \in Reduced /\ MassOf(k).n > 0 /\ ResponsibleSum \in Reduced
           /\ NotAbove(MassOf(k), ResponsibleSum)
<1>1. PICK L \in Nat : L = Len(Readings)
  BY ReadingsAre
<1> DEFINE s == Portions(gauss, k)
           r == Responsibles
<1>2. ASSUME NEW t \in 1..L
      PROVE  /\ responsible[t] \in Nat
             /\ r[t] = Ratio(responsible[t], 1) /\ r[t] \in Reduced
             /\ s[t] \in Reduced /\ s[t].n >= 0 /\ NotAbove(s[t], r[t])
             /\ responsible[t] > 0 => s[t].n > 0
  <2>1. r[t] = Ratio(responsible[t], 1) /\ s[t] = Portion(gauss, k, t)
    BY <1>1 DEF Portions, Responsibles
  <2>2. gauss \in Tables /\ t \in 1..Len(Readings)
    BY <1>1 DEF MixtureInv
  <2> HIDE DEF r, s
  <2> QED
    BY <2>1, <2>2, PortionIs
<1>3. MassOf(k) = SumOf(s, L) /\ ResponsibleSum = SumOf(r, L)
  BY <1>1 DEF MassOf, ResponsibleSum
<1> HIDE DEF r, s
<1>4. PICK t \in 1..L : responsible[t] > 0
  <2>1. ASSUME \A t \in 1..L : ~(responsible[t] > 0) PROVE FALSE
    <3>1. \A t \in 1..L : r[t] = Ratio(0, 1)
      <4>1. \A t \in 1..L : responsible[t] = 0
        BY <1>2, <2>1
      <4> QED
        BY <1>2, <4>1
    <3>2. \A t \in 1..L : r[t] \in Reduced /\ r[t] = Times(Ratio(0, 1), r[t])
      BY <3>1, NothingIs, TimesSign
    <3>3. SumOf(r, L) = Times(Ratio(0, 1), SumOf(r, L))
      BY <3>2, NothingIs, SumScaled
    <3>4. SumOf(r, L) \in Reduced
      BY <1>2, SumOfExists
    <3>5. SumOf(r, L) = Ratio(0, 1)
      BY <3>3, <3>4, NothingIs, TimesSign
    <3> QED
      BY <1>3, <3>5, NothingIs
  <2> QED
    BY <2>1
<1>5. OwnReadings # {}
  BY <1>1, <1>4 DEF OwnReadings
<1>6. \A n \in 1..L : s[n] \in Reduced /\ s[n].n >= 0 /\ r[n] \in Reduced /\ NotAbove(s[n], r[n])
  BY <1>2
<1>7. SumOf(s, L) \in Reduced /\ SumOf(r, L) \in Reduced /\ NotAbove(SumOf(s, L), SumOf(r, L))
  BY <1>6, SumOfExists, SumsOrdered
<1>8. NotAbove(s[t], SumOf(s, L))
  BY <1>6, TermWithin
<1>9. SumOf(s, L).n > 0
  BY <1>2, <1>4, <1>7, <1>8, NotAboveSign
<1> QED
  BY <1>3, <1>5, <1>7, <1>9

\* A weighted mean lies among what is weighed.
LEMMA MeanIs ==
    ASSUME Mixture!MixtureAssumption, MixtureInv, NEW k \in 1..Parts, ResponsibleSum.n > 0
    PROVE  /\ MeanOf(k) \in Reduced
           /\ \A l \in Int : (\A o \in OwnReadings : l <= o) => NotAbove(Ratio(l, 1), MeanOf(k))
           /\ \A h \in Int : (\A o \in OwnReadings : o <= h) => NotAbove(MeanOf(k), Ratio(h, 1))
<1>1. PICK L \in Nat : L = Len(Readings) /\ \A t \in 1..L : Readings[t] \in Int
  BY ReadingsAre
<1> DEFINE s == Portions(gauss, k)
           x == [t \in 1..Len(Readings) |-> Times(Portion(gauss, k, t), Ratio(Readings[t], 1))]
<1>2. ASSUME NEW t \in 1..L
      PROVE  /\ responsible[t] \in Nat
             /\ s[t] \in Reduced /\ s[t].n >= 0 /\ (responsible[t] = 0 => s[t] = Ratio(0, 1))
             /\ x[t] = Times(s[t], Ratio(Readings[t], 1)) /\ x[t] \in Reduced
             /\ Ratio(Readings[t], 1) \in Reduced /\ Worth(Ratio(Readings[t], 1), Readings[t], 1)
  <2>1. s[t] = Portion(gauss, k, t) /\ x[t] = Times(Portion(gauss, k, t), Ratio(Readings[t], 1))
    BY <1>1 DEF Portions
  <2>2. gauss \in Tables /\ t \in 1..Len(Readings)
    BY <1>1 DEF MixtureInv
  <2> HIDE DEF s, x
  <2>3. Worth(Ratio(Readings[t], 1), Readings[t], 1) /\ Ratio(Readings[t], 1) \in Reduced
    BY <1>1, WholesAre
  <2>4. /\ responsible[t] \in Nat /\ s[t] \in Reduced /\ s[t].n >= 0
        /\ (responsible[t] = 0 => s[t] = Ratio(0, 1))
    BY <2>1, <2>2, PortionIs
  <2>5. x[t] \in Reduced
    BY <2>1, <2>3, <2>4, ReducedClosed
  <2> QED
    BY <2>1, <2>3, <2>4, <2>5
<1>3. MassOf(k) = SumOf(s, L) /\ MeanOf(k) = Over(SumOf(x, L), MassOf(k))
  BY <1>1 DEF MassOf, MeanOf
<1> HIDE DEF s, x
<1>4. MassOf(k) \in Reduced /\ MassOf(k).n > 0 /\ SumOf(x, L) \in Reduced
  BY <1>2, MassIs, SumOfExists
<1>5. ASSUME NEW l \in Int
      PROVE  /\ Ratio(l, 1) \in Reduced
             /\ (\A o \in OwnReadings : l <= o) => NotAbove(Times(Ratio(l, 1), MassOf(k)), SumOf(x, L))
             /\ (\A o \in OwnReadings : o <= l) => NotAbove(SumOf(x, L), Times(Ratio(l, 1), MassOf(k)))
  <2> DEFINE y == [t \in 1..L |-> Times(Ratio(l, 1), s[t])]
  <2>1. Ratio(l, 1) \in Reduced /\ Worth(Ratio(l, 1), l, 1)
    BY WholesAre
  <2>2. \A t \in 1..L : s[t] \in Reduced /\ y[t] = Times(Ratio(l, 1), s[t]) /\ y[t] \in Reduced /\ x[t] \in Reduced
    BY <1>2, <2>1, ReducedClosed
  <2>3. ASSUME NEW t \in 1..L
        PROVE  /\ (responsible[t] > 0 => l <= Readings[t]) => NotAbove(y[t], x[t])
               /\ (responsible[t] > 0 => Readings[t] <= l) => NotAbove(x[t], y[t])
    <3>1. y[t] = Times(s[t], Ratio(l, 1))
      BY <1>2, <2>1, <2>2, TimesSign
    <3> HIDE DEF y
    <3>2. CASE responsible[t] > 0
      <4>1. /\ NotAbove(Ratio(l, 1), Ratio(Readings[t], 1)) <=> l * 1 <= Readings[t] * 1
            /\ NotAbove(Ratio(Readings[t], 1), Ratio(l, 1)) <=> Readings[t] * 1 <= l * 1
        BY <1>2, <2>1, NotAboveIs, Zenon
      <4>2. Readings[t] \in Int
        BY <1>1
      <4>3. /\ l <= Readings[t] => NotAbove(Ratio(l, 1), Ratio(Readings[t], 1))
            /\ Readings[t] <= l => NotAbove(Ratio(Readings[t], 1), Ratio(l, 1))
        BY <4>1, <4>2
      <4> QED
        BY <1>2, <2>1, <3>1, <3>2, <4>3, TimesOrdered
    <3>3. CASE ~(responsible[t] > 0)
      <4>1. s[t] = Ratio(0, 1)
        BY <1>2, <3>3
      <4>2. y[t] = Ratio(0, 1) /\ x[t] = Ratio(0, 1)
        BY <1>2, <2>1, <3>1, <4>1, NothingIs, TimesSign
      <4>3. NotAbove(Ratio(0, 1), Ratio(0, 1))
        BY NothingIs, NotAboveIs
      <4> QED
        BY <4>2, <4>3
    <3> QED
      BY <3>2, <3>3
  <2> HIDE DEF y
  <2>4. SumOf(y, L) = Times(Ratio(l, 1), MassOf(k))
    BY <1>3, <2>1, <2>2, SumScaled
  <2>5. ASSUME NEW t \in 1..L, responsible[t] > 0 PROVE Readings[t] \in OwnReadings
    BY <1>1, <2>5 DEF OwnReadings
  <2>6. ASSUME \A o \in OwnReadings : l <= o
        PROVE  NotAbove(Times(Ratio(l, 1), MassOf(k)), SumOf(x, L))
    <3>1. \A t \in 1..L : NotAbove(y[t], x[t])
      BY <2>3, <2>5, <2>6
    <3> QED
      BY <2>2, <2>4, <3>1, SumsOrdered
  <2>7. ASSUME \A o \in OwnReadings : o <= l
        PROVE  NotAbove(SumOf(x, L), Times(Ratio(l, 1), MassOf(k)))
    <3>1. \A t \in 1..L : NotAbove(x[t], y[t])
      BY <2>3, <2>5, <2>7
    <3> QED
      BY <2>2, <2>4, <3>1, SumsOrdered
  <2> QED
    BY <2>1, <2>6, <2>7
<1>6. MeanOf(k) \in Reduced
  BY <1>3, <1>4, OverOrdered
<1>7. ASSUME NEW l \in Int, \A o \in OwnReadings : l <= o PROVE NotAbove(Ratio(l, 1), MeanOf(k))
  BY <1>3, <1>4, <1>5, <1>7, OverOrdered
<1>8. ASSUME NEW h \in Int, \A o \in OwnReadings : o <= h PROVE NotAbove(MeanOf(k), Ratio(h, 1))
  BY <1>3, <1>4, <1>5, <1>8, OverOrdered
<1> QED
  BY <1>6, <1>7, <1>8

\* The floor of the variance is positive,
LEMMA LeastIs ==
    ASSUME Mixture!MixtureAssumption
    PROVE  Least \in Reduced /\ Least.n > 0
<1>1. PICK n \in Nat \ {0}, d \in Nat \ {0} : n = Least.n /\ d = Least.d /\ Least = Ratio(n, d)
  BY MixtureReckons DEF Mixture!MixtureAssumption
<1>2. Worth(Least, n, d)
  BY <1>1, RatioIs
<1> QED
  BY <1>1, <1>2 DEF Worth

\* and a mean of squares adds to it.
LEMMA SpreadFits ==
    ASSUME Mixture!MixtureAssumption, MixtureInv, NEW k \in 1..Parts, ResponsibleSum.n > 0
    PROVE  Plus(SpreadOf(k), Least) \in Reduced /\ NotAbove(Least, Plus(SpreadOf(k), Least))
<1>1. PICK L \in Nat : L = Len(Readings) /\ \A t \in 1..L : Readings[t] \in Int
  BY ReadingsAre
<1> DEFINE q == [t \in 1..Len(Readings) |-> Times(Portion(nig, k, t), SquareOff(k, t))]
<1>2. ASSUME NEW t \in 1..L PROVE q[t] \in Reduced /\ q[t].n >= 0
  <2>1. q[t] = Times(Portion(nig, k, t), SquareOff(k, t))
    BY <1>1
  <2>2. nig \in Tables /\ t \in 1..Len(Readings)
    BY <1>1 DEF MixtureInv
  <2>3. Portion(nig, k, t) \in Reduced /\ Portion(nig, k, t).n >= 0
    BY <2>2, PortionIs
  <2>4. Minus(Ratio(Readings[t], 1), MeanOf(k)) \in Reduced
    BY <1>1, MeanIs, WholesAre, ReducedClosed
  <2>5. SquareOff(k, t) \in Reduced /\ SquareOff(k, t).n >= 0
    BY <2>4, ReducedClosed, TimesSign DEF SquareOff
  <2> HIDE DEF q
  <2> QED
    BY <2>1, <2>3, <2>5, ReducedClosed, TimesSign
<1>3. SpreadOf(k) = Over(SumOf(q, L), MassOf(k))
  BY <1>1 DEF SpreadOf
<1> HIDE DEF q
<1>4. SumOf(q, L) \in Reduced /\ SumOf(q, L).n >= 0
  BY <1>2, SumOfExists, TermWithin
<1>5. MassOf(k) \in Reduced /\ MassOf(k).n > 0
  BY MassIs
<1>6. SpreadOf(k) \in Reduced /\ SpreadOf(k).n >= 0
  BY <1>3, <1>4, <1>5, OverOrdered
<1>7. Least \in Reduced /\ Least.n >= 0
  <2>1. Least \in Reduced /\ Least.n > 0
    BY LeastIs
  <2>2. Least.n \in Int
    BY <2>1, ReducedIs
  <2> QED
    BY <2>1, <2>2
<1> QED
  BY <1>6, <1>7, PlusRises, ReducedClosed

\* The mass over all the mass is a share of one.
LEMMA WeightFits ==
    ASSUME Mixture!MixtureAssumption, MixtureInv, NEW k \in 1..Parts, ResponsibleSum.n > 0
    PROVE  /\ Over(MassOf(k), ResponsibleSum) \in Reduced
           /\ Over(MassOf(k), ResponsibleSum).n > 0
           /\ NotAbove(Over(MassOf(k), ResponsibleSum), Ratio(1, 1))
<1>1. /\ MassOf(k) \in Reduced /\ MassOf(k).n > 0 /\ ResponsibleSum \in Reduced
      /\ NotAbove(MassOf(k), ResponsibleSum)
  BY MassIs
<1>2. Ratio(1, 1) \in Reduced
  BY WholesAre, 1 \in Int
<1>3. Times(Ratio(1, 1), ResponsibleSum) = ResponsibleSum
  BY <1>1, <1>2, TimesSign, TimesOne
<1> QED
  BY <1>1, <1>2, <1>3, OverOrdered

\* A set of readings has a least and a greatest one.
LEMMA ReadingsBounded ==
    ASSUME Mixture!MixtureAssumption, OwnReadings # {}
    PROVE  \E l, h \in OwnReadings : \A o \in OwnReadings : o \in Int /\ l <= o /\ o <= h
<1>1. PICK L \in Nat : L = Len(Readings) /\ \A t \in 1..L : Readings[t] \in Int
  BY ReadingsAre
<1> DEFINE A == {n \in Nat : \E u \in Nat : \A t \in 1..L : t <= n => Readings[t] <= u /\ -u <= Readings[t]}
<1>2. 0 \in A
  <2>1. \A t \in 1..L : ~(t <= 0)
    OBVIOUS
  <2> QED
    BY <2>1, 0 \in Nat
<1>3. ASSUME NEW n \in 0..(L - 1), n \in A PROVE n + 1 \in A
  <2>1. PICK u \in Nat : \A t \in 1..L : t <= n => Readings[t] <= u /\ -u <= Readings[t]
    BY <1>3
  <2>2. n + 1 \in 1..L /\ n + 1 \in Nat /\ n \in Nat
    OBVIOUS
  <2>3. PICK r \in Int : r = Readings[n + 1]
    BY <1>1, <2>2
  <2>4. PICK w \in Nat : w >= u /\ w >= r /\ w >= -r
    <3>1. CASE r >= 0
      <4>1. u + r \in Nat /\ u + r >= u /\ u + r >= r /\ u + r >= -r
        BY <3>1
      <4> QED
        BY <4>1
    <3>2. CASE r < 0
      <4>1. u - r \in Nat /\ u - r >= u /\ u - r >= r /\ u - r >= -r
        BY <3>2
      <4> QED
        BY <4>1
    <3> QED
      BY <3>1, <3>2
  <2>5. ASSUME NEW t \in 1..L, t <= n + 1 PROVE Readings[t] <= w /\ -w <= Readings[t]
    <3>1. CASE t = n + 1
      BY <2>3, <2>4, <3>1
    <3>2. CASE t # n + 1
      <4>1. t <= n
        BY <2>2, <2>5, <3>2
      <4>2. Readings[t] <= u /\ -u <= Readings[t] /\ Readings[t] \in Int
        BY <1>1, <2>1, <4>1
      <4> QED
        BY <2>4, <4>2
    <3> QED
      BY <3>1, <3>2
  <2> QED
    BY <2>2, <2>5
<1>4. \A n \in 0..L : n \in A
  <2> HIDE DEF A
  <2> QED
    BY <1>2, <1>3, CountUp
<1>5. PICK u \in Nat : \A t \in 1..L : Readings[t] <= u /\ -u <= Readings[t]
  <2>1. L \in A /\ \A t \in 1..L : t <= L
    BY <1>4
  <2> QED
    BY <2>1
<1>6. \A o \in OwnReadings : o \in Int /\ o <= u /\ -o <= u
  <2>1. \A t \in 1..L : Readings[t] \in Int /\ Readings[t] <= u /\ -Readings[t] <= u
    BY <1>1, <1>5
  <2> QED
    BY <1>1, <2>1 DEF OwnReadings
<1>7. PICK h \in OwnReadings : \A o \in OwnReadings : o <= h
  <2>1. u \in Int /\ OwnReadings \subseteq Int
    BY <1>6
  <2> QED
    BY <1>6, <2>1, Largest
<1>8. PICK l \in OwnReadings : \A o \in OwnReadings : l <= o
  <2> DEFINE D == {-o : o \in OwnReadings}
  <2>1. u \in Int /\ D \subseteq Int /\ D # {} /\ \A d \in D : d <= u
    BY <1>6
  <2>2. PICK m \in D : \A d \in D : d <= m
    <3> HIDE DEF D
    <3> QED
      BY <2>1, Largest
  <2>3. PICK l \in OwnReadings : m = -l
    BY <2>2
  <2>4. ASSUME NEW o \in OwnReadings PROVE l <= o
    <3>1. -o \in D /\ o \in Int /\ l \in Int
      BY <1>6
    <3>2. -o <= -l
      BY <2>2, <2>3, <3>1
    <3> QED
      BY <3>1, <3>2
  <2> QED
    BY <2>4
<1> QED
  BY <1>6, <1>7, <1>8

\* The invariant holds at first,
LEMMA MixtureFirst ==
    ASSUME Mixture!MixtureAssumption, Mixture!Init
    PROVE  MixtureInv
<1>1. PICK p \in Nat \ {0} : p = Parts
  BY ReadingsAre
<1>2. /\ responsible \in [1..Len(Readings) -> Responsible] /\ gauss \in Tables /\ nig \in Tables
      /\ component = 1
      /\ components = [m \in 1..Parts |->
           [weight |-> Mixture!Ratio(1, Parts), mean |-> Mixture!Of(1),
            covariance |-> Mixture!Ratio(1, 1), age |-> "old"]]
  BY DEF Mixture!Init, Mixture!T
<1>3. Ratio(1, p) \in Reduced /\ Ratio(1, p).n > 0
  <2>1. Worth(Ratio(1, p), 1, p)
    BY RatioIs, 1 \in Int
  <2>2. Ratio(1, p) \in Reduced
    BY <2>1 DEF Worth
  <2> QED
    BY <2>1, <2>2, SignIs
<1>4. \A k \in 1..Parts : components[k].weight = Ratio(1, p) /\ components[k].age = "old"
  BY <1>1, <1>2, MixtureReckons
<1>5. DOMAIN components = 1..Parts /\ components = [k \in 1..Parts |-> components[k]]
  BY <1>2
<1>6. component \in 1..(Parts + 1)
  BY <1>1, <1>2
<1> QED
  BY <1>2, <1>3, <1>4, <1>5, <1>6 DEF MixtureInv

\* every step keeps it,
LEMMA MixtureStep ==
    ASSUME Mixture!MixtureAssumption, MixtureInv, [Mixture!Next]_(Mixture!vars)
    PROVE  MixtureInv'
<1>1. /\ responsible \in [1..Len(Readings) -> Responsible]
      /\ gauss \in Tables /\ nig \in Tables
      /\ component \in 1..(Parts + 1)
      /\ DOMAIN components = 1..Parts /\ components = [k \in 1..Parts |-> components[k]]
      /\ \A k \in 1..Parts :
           /\ components[k].weight \in Reduced /\ components[k].weight.n > 0
           /\ components[k].age \in {"old", "new"}
           /\ components[k].age = "new" => Fits(components[k])
  BY DEF MixtureInv
<1>2. ASSUME responsible' = responsible PROVE OwnReadings' = OwnReadings
  BY <1>2 DEF OwnReadings
<1>3. Parts \in Nat \ {0}
  BY ReadingsAre
<1>4. CASE Mixture!UpdateComponent
  <2> DEFINE new == [weight |-> Over(MassOf(component), ResponsibleSum), mean |-> MeanOf(component),
                     covariance |-> Plus(SpreadOf(component), Least), age |-> "new"]
  <2>1. /\ Mixture!GammaSum.n > 0 /\ component <= Parts
        /\ components' = [components EXCEPT ![component] =
             [weight |-> Mixture!Over(Mixture!Mass(component), Mixture!GammaSum),
              mean |-> Mixture!NewMean(component), covariance |-> Mixture!NewCovariance(component),
              age |-> "new"]]
        /\ component' = component + 1
        /\ responsible' = responsible /\ gauss' = gauss /\ nig' = nig
    BY <1>4, Zenon DEF Mixture!UpdateComponent
  <2>2. component \in 1..Parts /\ component' \in 1..(Parts + 1)
    BY <1>1, <1>3, <2>1
  <2>3. ResponsibleSum.n > 0 /\ components' = [components EXCEPT ![component] = new]
    BY <2>1, MixtureComputes, MixtureReckons
  <2>4. new.weight \in Reduced /\ new.weight.n > 0 /\ new.age = "new" /\ Fits(new)
    <3>1. /\ Over(MassOf(component), ResponsibleSum) \in Reduced
          /\ Over(MassOf(component), ResponsibleSum).n > 0
          /\ NotAbove(Over(MassOf(component), ResponsibleSum), Ratio(1, 1))
      BY <2>2, <2>3, WeightFits
    <3>2. /\ MeanOf(component) \in Reduced
          /\ \A l \in Int : (\A o \in OwnReadings : l <= o) => NotAbove(Ratio(l, 1), MeanOf(component))
          /\ \A h \in Int : (\A o \in OwnReadings : o <= h) => NotAbove(MeanOf(component), Ratio(h, 1))
      BY <2>2, <2>3, MeanIs
    <3>3. /\ Plus(SpreadOf(component), Least) \in Reduced
          /\ NotAbove(Least, Plus(SpreadOf(component), Least))
      BY <2>2, <2>3, SpreadFits
    <3>4. OwnReadings # {}
      BY <2>2, <2>3, MassIs
    <3>5. /\ new.weight = Over(MassOf(component), ResponsibleSum) /\ new.mean = MeanOf(component)
          /\ new.covariance = Plus(SpreadOf(component), Least) /\ new.age = "new"
      OBVIOUS
    <3> HIDE DEF new
    <3> QED
      BY <3>1, <3>2, <3>3, <3>4, <3>5, Zenon DEF Fits
  <2> HIDE DEF new
  <2>5. /\ DOMAIN components' = 1..Parts /\ components' = [k \in 1..Parts |-> components'[k]]
        /\ \A k \in 1..Parts : components'[k] = IF k = component THEN new ELSE components[k]
    BY <1>1, <2>2, <2>3
  <2>6. ASSUME NEW k \in 1..Parts
        PROVE  /\ components'[k].weight \in Reduced /\ components'[k].weight.n > 0
               /\ components'[k].age \in {"old", "new"}
               /\ components'[k].age = "new" => Fits(components[k])'
    <3>1. Fits(components[k])' <=>
            /\ components'[k].mean \in Reduced /\ components'[k].covariance \in Reduced
            /\ \A l \in Int : (\A o \in OwnReadings : l <= o) => NotAbove(Ratio(l, 1), components'[k].mean)
            /\ \A h \in Int : (\A o \in OwnReadings : o <= h) => NotAbove(components'[k].mean, Ratio(h, 1))
            /\ NotAbove(Least, components'[k].covariance)
            /\ NotAbove(components'[k].weight, Ratio(1, 1))
            /\ OwnReadings # {}
      <4>1. OwnReadings' = OwnReadings
        BY <1>2, <2>1
      <4> QED
        BY <4>1, Zenon DEF Fits, NotAbove
    <3>2. CASE k = component
      <4>1. components'[k] = new
        BY <2>5, <3>2
      <4> QED
        BY <2>4, <3>1, <4>1 DEF Fits
    <3>3. CASE k # component
      <4>1. components'[k] = components[k]
        BY <2>5, <3>3
      <4> QED
        BY <1>1, <3>1, <4>1 DEF Fits
    <3> QED
      BY <3>2, <3>3
  <2> QED
    BY <1>1, <2>1, <2>2, <2>5, <2>6, Zenon DEF MixtureInv
<1>5. CASE Mixture!Skip \/ UNCHANGED Mixture!vars
  <2>1. /\ responsible' = responsible /\ gauss' = gauss /\ nig' = nig /\ components' = components
        /\ component' \in 1..(Parts + 1)
    BY <1>1, <1>3, <1>5 DEF Mixture!Skip, Mixture!vars
  <2>2. OwnReadings' = OwnReadings
    BY <1>2, <2>1
  <2>3. \A k \in 1..Parts : Fits(components[k])' <=> Fits(components[k])
    BY <2>1, <2>2, Zenon DEF Fits, NotAbove
  <2> QED
    BY <1>1, <2>1, <2>3 DEF MixtureInv
<1> QED
  BY <1>4, <1>5 DEF Mixture!Next

\* and it says what the run checks.
LEMMA MixtureFits ==
    ASSUME Mixture!MixtureAssumption, MixtureInv
    PROVE  Mixture!MixtureSound
<1> DEFINE own == {Readings[t] : t \in {s \in 1..Mixture!T : responsible[s] > 0}}
<1>1. own = OwnReadings
  BY DEF OwnReadings, Mixture!T
<1>2. SUFFICES ASSUME NEW k \in Mixture!Updated
               PROVE  /\ Mixture!AtMost(Mixture!Ratio(Mixture!Min(own), 1), components[k].mean)
                      /\ Mixture!AtMost(components[k].mean, Mixture!Ratio(Mixture!Max(own), 1))
                      /\ Mixture!AtMost(Least, components[k].covariance)
                      /\ components[k].weight.n > 0
                      /\ Mixture!AtMost(components[k].weight, Mixture!Ratio(1, 1))
  BY Zenon DEF Mixture!MixtureSound
<1> HIDE DEF own
<1>3. k \in 1..Parts /\ components[k].age = "new"
  BY DEF Mixture!Updated
<1>4. components[k].weight \in Reduced /\ components[k].weight.n > 0 /\ Fits(components[k])
  BY <1>3 DEF MixtureInv
<1> DEFINE c == components[k]
<1>5. /\ c.weight \in Reduced /\ c.weight.n > 0
      /\ c.mean \in Reduced /\ c.covariance \in Reduced
      /\ \A l \in Int : (\A o \in OwnReadings : l <= o) => NotAbove(Ratio(l, 1), c.mean)
      /\ \A h \in Int : (\A o \in OwnReadings : o <= h) => NotAbove(c.mean, Ratio(h, 1))
      /\ NotAbove(Least, c.covariance)
      /\ NotAbove(c.weight, Ratio(1, 1))
      /\ OwnReadings # {}
  BY <1>4 DEF Fits
<1> HIDE DEF c
<1>6. PICK l, h \in OwnReadings : \A o \in OwnReadings : o \in Int /\ l <= o /\ o <= h
  BY <1>5, ReadingsBounded
<1>7. Mixture!Min(own) = l /\ Mixture!Max(own) = h
  <2>1. \A m \in OwnReadings : (\A o \in OwnReadings : m <= o) => m = l
    BY <1>6
  <2>2. \A m \in OwnReadings : (\A o \in OwnReadings : m >= o) => m = h
    BY <1>6
  <2>3. \A o \in OwnReadings : l <= o /\ h >= o
    BY <1>6
  <2>4. Mixture!Min(own) = l
    BY <1>1, <2>1, <2>3 DEF Mixture!Min
  <2>5. Mixture!Max(own) = h
    BY <1>1, <2>2, <2>3 DEF Mixture!Max
  <2> QED
    BY <2>4, <2>5
<1>8. l \in Int /\ h \in Int /\ NotAbove(Ratio(l, 1), c.mean) /\ NotAbove(c.mean, Ratio(h, 1))
  BY <1>5, <1>6
<1>9. Ratio(l, 1) \in Reduced /\ Ratio(h, 1) \in Reduced /\ Ratio(1, 1) \in Reduced /\ Least \in Reduced
  BY <1>8, WholesAre, 1 \in Int, LeastIs
<1>10. /\ AtMost(Ratio(l, 1), c.mean) /\ AtMost(c.mean, Ratio(h, 1))
       /\ AtMost(Least, c.covariance) /\ AtMost(c.weight, Ratio(1, 1))
  BY <1>5, <1>8, <1>9, AtMostIs
<1>11. /\ Mixture!AtMost(Mixture!Ratio(Mixture!Min(own), 1), c.mean)
       /\ Mixture!AtMost(c.mean, Mixture!Ratio(Mixture!Max(own), 1))
       /\ Mixture!AtMost(Least, c.covariance)
       /\ Mixture!AtMost(c.weight, Mixture!Ratio(1, 1))
  BY <1>7, <1>10, MixtureReckons
<1> QED
  BY <1>5, <1>11 DEF c

\* What the proof of MixturesFit goes by, in every state.
LEMMA MixtureKept ==
    ASSUME Mixture!MixtureAssumption PROVE Mixture!Spec => []MixtureInv
<1>1. Mixture!Init => MixtureInv
  BY MixtureFirst
<1>2. MixtureInv /\ [Mixture!Next]_(Mixture!vars) => MixtureInv'
  BY MixtureStep
<1> QED
  BY <1>1, <1>2, PTL DEF Mixture!Spec

\* Whatever the densities are and whichever components are new already, a new mean
\* lies among the observations of the state, a new variance is positive and a new
\* weight is a share of the state's (dgmh_eigen.hpp:354-467).
THEOREM MixturesFit ==
    ASSUME Mixture!MixtureAssumption PROVE Mixture!Spec => []Mixture!MixtureSound
<1>1. MixtureInv => Mixture!MixtureSound
  BY MixtureFits
<1> QED
  BY <1>1, MixtureKept, PTL

-----------------------------------------------------------------------------
(* The tracker. *)

\* The tracker reckons as the module of fractions does.
LEMMA TrackerReckons ==
    ASSUME NEW a, NEW b
    PROVE  /\ Tracker!Ratio(a, b) = Ratio(a, b) /\ Tracker!Plus(a, b) = Plus(a, b)
           /\ Tracker!Minus(a, b) = Minus(a, b) /\ Tracker!Times(a, b) = Times(a, b)
           /\ Tracker!Over(a, b) = Over(a, b) /\ Tracker!SumOf(a, b) = SumOf(a, b)
<1>1. Tracker!Gcd = Gcd
  BY Zenon DEF Tracker!Gcd, Gcd
<1>2. \A c, d : Tracker!Common(c, d) = Common(c, d)
  BY <1>1, Zenon DEF Tracker!Common, Common
<1>3. \A c, d : Tracker!Ratio(c, d) = Ratio(c, d)
  BY <1>2, Zenon DEF Tracker!Ratio, Ratio
<1>4. \A c, d : Tracker!Plus(c, d) = Plus(c, d)
  BY <1>2, <1>3, Zenon DEF Tracker!Plus, Plus
<1>5. \A c, d : Tracker!Times(c, d) = Times(c, d)
  BY <1>2, Zenon DEF Tracker!Times, Times
<1>6. Tracker!Minus(a, b) = Minus(a, b)
  BY <1>4, Zenon DEF Tracker!Minus, Minus
<1>7. Tracker!Over(a, b) = Over(a, b)
  BY <1>5, Zenon DEF Tracker!Over, Over
<1>8. Tracker!SumOf(a, b) = SumOf(a, b)
  <2>1. Tracker!SumOf(a, b)
          = (CHOOSE h : h = [k \in 0..b |-> IF k = 0 THEN Tracker!Ratio(0, 1)
                                             ELSE Tracker!Plus(h[k - 1], a[k])])[b]
    BY Zenon DEF Tracker!SumOf
  <2>2. SumOf(a, b)
          = (CHOOSE h : h = [k \in 0..b |-> IF k = 0 THEN Ratio(0, 1) ELSE Plus(h[k - 1], a[k])])[b]
    BY Zenon DEF SumOf
  <2> QED
    BY <1>3, <1>4, <2>1, <2>2
<1> QED
  BY <1>3, <1>4, <1>5, <1>6, <1>7, <1>8

\* The weights of the points make one.
LEMMA CentreIs ==
    ASSUME Tracker!TrackerAssumption
    PROVE  Tracker!Centre = Ratio(1, 1)
<1>1. PICK I \in Nat \ {0} : I = InvAlpha2
  BY DEF Tracker!TrackerAssumption
<1> DEFINE m == Ratio(1 - I, 1)
           s == Ratio(I, 2)
<1>2. Tracker!Centre = Plus(Plus(s, m), s)
  <2>1. Tracker!Wm[-1] = s /\ Tracker!Wm[0] = m /\ Tracker!Wm[1] = s
    <3>1. -1 \in Tracker!Points /\ 0 \in Tracker!Points /\ 1 \in Tracker!Points
      BY DEF Tracker!Points
    <3>2. -1 # 0 /\ 1 # 0
      OBVIOUS
    <3> QED
      BY <1>1, <3>1, <3>2, TrackerReckons DEF Tracker!Wm
  <2> HIDE DEF s, m
  <2>2. Tracker!Centre = Tracker!Plus(Tracker!Plus(Tracker!Wm[-1], Tracker!Wm[0]), Tracker!Wm[1])
    BY Zenon DEF Tracker!Centre, Tracker!Sum3
  <2> QED
    BY <2>1, <2>2, TrackerReckons, Zenon
<1>3. Worth(m, 1 - I, 1) /\ Worth(s, I, 2)
  <2>1. 1 - I \in Int /\ I \in Int /\ 2 \in Nat \ {0}
    OBVIOUS
  <2> QED
    BY <2>1, WholesAre, RatioIs
<1> HIDE DEF m, s
<1>4. Worth(Plus(s, m), I * 1 + (1 - I) * 2, 2 * 1)
  BY <1>3, PlusWorth, Zenon
<1>5. Worth(Plus(Plus(s, m), s), (I * 1 + (1 - I) * 2) * 2 + I * (2 * 1), (2 * 1) * 2)
  BY <1>3, <1>4, PlusWorth, Zenon
<1>6. ((I * 1 + (1 - I) * 2) * 2 + I * (2 * 1)) * 1 = 1 * ((2 * 1) * 2)
  OBVIOUS
<1>7. Worth(Ratio(1, 1), 1, 1)
  BY WholesAre, 1 \in Int
<1> QED
  BY <1>2, <1>5, <1>6, <1>7, WorthSame, Zenon

\* The points spread as the covariance does.
LEMMA SpreadIs ==
    ASSUME Tracker!TrackerAssumption, covariance \in Reduced
    PROVE  Tracker!Spread = covariance
<1>1. PICK I \in Nat \ {0} : I = InvAlpha2
  BY DEF Tracker!TrackerAssumption
<1> DEFINE s == Ratio(I, 2)
           m == Plus(Ratio(1 - I, 1), Minus(Ratio(3, 1), Ratio(1, I)))
           w == Tracker!Wc
           terms == [p \in Tracker!Points |-> Tracker!Times(w[p], Tracker!Ratio(p * p, 1))]
<1>2. w[-1] = s /\ w[0] = m /\ w[1] = s
  <2>1. /\ -1 \in Tracker!Points /\ 0 \in Tracker!Points /\ 1 \in Tracker!Points
        /\ -1 # 0 /\ 1 # 0
    BY DEF Tracker!Points
  <2>2. Tracker!Wm[-1] = s /\ Tracker!Wm[0] = Ratio(1 - I, 1) /\ Tracker!Wm[1] = s
    BY <1>1, <2>1, TrackerReckons DEF Tracker!Wm
  <2>3. DOMAIN Tracker!Wm = Tracker!Points
    BY DEF Tracker!Wm
  <2>4. w = [Tracker!Wm EXCEPT ![0] = Tracker!Plus(Tracker!Wm[0],
                 Tracker!Minus(Tracker!Ratio(3, 1), Tracker!Ratio(1, InvAlpha2)))]
    BY Zenon DEF Tracker!Wc
  <2>5. Tracker!Plus(Tracker!Wm[0], Tracker!Minus(Tracker!Ratio(3, 1), Tracker!Ratio(1, InvAlpha2))) = m
    BY <1>1, <2>2, TrackerReckons
  <2> HIDE DEF w, m, s
  <2> QED
    BY <2>1, <2>2, <2>3, <2>4, <2>5
<1>3. Worth(s, I, 2) /\ m \in Reduced
  <2>1. 1 - I \in Int /\ I \in Int /\ 2 \in Nat \ {0} /\ 3 \in Int /\ 1 \in Int
    OBVIOUS
  <2>2. Worth(s, I, 2)
    BY <2>1, RatioIs
  <2>3. Worth(Ratio(1, I), 1, I)
    BY <2>1, RatioIs
  <2>4. Ratio(1 - I, 1) \in Reduced /\ Ratio(3, 1) \in Reduced /\ Ratio(1, I) \in Reduced
    BY <2>1, <2>3, WholesAre DEF Worth
  <2>5. m \in Reduced
    BY <2>4, ReducedClosed
  <2> QED
    BY <2>2, <2>5
<1> HIDE DEF m, s
<1>4. s \in Reduced
  BY <1>3 DEF Worth
<1>5. terms[-1] = s /\ terms[0] = Times(m, Ratio(0, 1)) /\ terms[1] = s
  <2>1. -1 \in Tracker!Points /\ 0 \in Tracker!Points /\ 1 \in Tracker!Points
    BY DEF Tracker!Points
  <2>2. (-1) * (-1) = 1 /\ 0 * 0 = 0 /\ 1 * 1 = 1
    OBVIOUS
  <2>3. terms[-1] = Times(s, Ratio(1, 1)) /\ terms[1] = Times(s, Ratio(1, 1))
    BY <1>2, <2>1, <2>2, TrackerReckons
  <2>4. terms[0] = Times(m, Ratio(0, 1))
    BY <1>2, <2>1, <2>2, TrackerReckons
  <2> HIDE DEF terms
  <2> QED
    BY <1>4, <2>3, <2>4, TimesOne
<1> DEFINE z == Times(m, Ratio(0, 1))
           sum == Plus(Plus(s, z), s)
<1>6. Tracker!Spread = Times(covariance, Over(sum, Ratio(I, 1)))
  <2>1. Tracker!Spread = Tracker!Times(covariance, Tracker!Over(Tracker!Sum3(terms), Tracker!Ratio(InvAlpha2, 1)))
    BY Zenon DEF Tracker!Spread
  <2>2. Tracker!Sum3(terms) = Tracker!Plus(Tracker!Plus(terms[-1], terms[0]), terms[1])
    BY Zenon DEF Tracker!Sum3
  <2> HIDE DEF terms
  <2>3. Tracker!Sum3(terms) = sum
    BY <1>5, <2>2, TrackerReckons
  <2> HIDE DEF sum
  <2> QED
    BY <1>1, <2>1, <2>3, TrackerReckons
<1>7. Worth(z, 0, 1)
  <2>1. PICK n \in Int, d \in Nat \ {0} : Worth(m, n, d)
    BY <1>3, WorthItself, ReducedIs
  <2>2. Worth(Ratio(0, 1), 0, 1)
    BY WholesAre, 0 \in Int
  <2>3. Worth(z, n * 0, d * 1)
    BY <2>1, <2>2, TimesWorth, Zenon
  <2>4. (n * 0) * 1 = 0 * (d * 1) /\ 0 \in Int /\ 1 \in Nat \ {0}
    OBVIOUS
  <2> HIDE DEF z
  <2> QED
    BY <2>3, <2>4, WorthScaled
<1> HIDE DEF z
<1>8. Worth(Plus(s, z), I * 1 + 0 * 2, 2 * 1)
  BY <1>3, <1>7, PlusWorth, Zenon
<1>9. Worth(sum, (I * 1 + 0 * 2) * 2 + I * (2 * 1), (2 * 1) * 2)
  BY <1>3, <1>8, PlusWorth, Zenon
<1> HIDE DEF sum
<1>10. Worth(Ratio(I, 1), I, 1) /\ I > 0
  BY WholesAre
<1>11. Worth(Over(sum, Ratio(I, 1)), ((I * 1 + 0 * 2) * 2 + I * (2 * 1)) * 1, ((2 * 1) * 2) * I)
  BY <1>9, <1>10, OverWorth, Zenon
<1>12. (((I * 1 + 0 * 2) * 2 + I * (2 * 1)) * 1) * 1 = 1 * (((2 * 1) * 2) * I)
  OBVIOUS
<1>13. Worth(Ratio(1, 1), 1, 1)
  BY WholesAre, 1 \in Int
<1>14. Over(sum, Ratio(I, 1)) = Ratio(1, 1)
  BY <1>11, <1>12, <1>13, WorthSame, Zenon
<1> QED
  BY <1>6, <1>14, TimesOne

\* What an observation of noise r weighs, with a the part of v explained so far.
GainWorth(v, r, a, P, K, kept) ==
    \E an \in Int, q, h, g \in Nat \ {0} :
        /\ h = v * q - an /\ g = h + r * q
        /\ Worth(a, an, q) /\ Worth(P, h, q) /\ Worth(Plus(P, Ratio(r, 1)), g, q)
        /\ Worth(K, h, g) /\ Worth(kept, r * q, g)

\* The Kalman gain and what it leaves, with a common denominator.
LEMMA GainIsWorth ==
    ASSUME NEW v \in Int, NEW r \in Nat \ {0}, NEW a \in Reduced, NEW P, NEW K, NEW kept,
           P = Minus(Ratio(v, 1), a), P.n > 0,
           K = Over(P, Plus(P, Ratio(r, 1))), kept = Minus(Ratio(1, 1), K)
    PROVE  GainWorth(v, r, a, P, K, kept)
<1>1. PICK an \in Int, q \in Nat \ {0} : Worth(a, an, q)
  BY WorthItself, ReducedIs
<1>2. PICK h \in Int : h = v * q - an
  OBVIOUS
<1>3. Worth(P, h, q)
  <2>1. Worth(Ratio(v, 1), v, 1)
    BY WholesAre
  <2>2. Worth(P, v * q - an * 1, 1 * q)
    BY <1>1, <2>1, MinusWorth, Zenon
  <2>3. (v * q - an * 1) * q = h * (1 * q)
    BY <1>2
  <2> QED
    BY <2>2, <2>3, WorthScaled
<1>4. h > 0
  <2>1. PICK pn \in Int, pd \in Nat \ {0} : pn = P.n /\ pd = P.d /\ pn > 0 /\ pn * q = h * pd
    BY <1>3, ReducedIs DEF Worth
  <2>2. pn * q > 0
    BY <2>1
  <2>3. ASSUME h <= 0 PROVE FALSE
    <3>1. (-h) * pd >= 0
      BY <2>3
    <3>2. (-h) * pd = -(h * pd) /\ h * pd \in Int
      OBVIOUS
    <3> QED
      BY <2>1, <2>2, <3>1, <3>2
  <2> QED
    BY <2>3
<1>5. PICK g \in Nat \ {0} : g = h + r * q
  <2>1. r * q \in Nat
    OBVIOUS
  <2>2. h + r * q \in Nat \ {0}
    BY <1>4, <2>1
  <2> QED
    BY <2>2
<1>6. Worth(Plus(P, Ratio(r, 1)), g, q)
  <2>1. Worth(Ratio(r, 1), r, 1)
    BY WholesAre
  <2>2. Worth(Plus(P, Ratio(r, 1)), h * 1 + r * q, q * 1)
    BY <1>3, <2>1, PlusWorth, Zenon
  <2>3. (h * 1 + r * q) * q = g * (q * 1)
    BY <1>5
  <2> QED
    BY <2>2, <2>3, WorthScaled
<1>7. Worth(K, h, g)
  <2>1. g > 0
    OBVIOUS
  <2>2. Worth(K, h * q, q * g)
    BY <1>3, <1>6, <2>1, OverWorth, Zenon
  <2>3. (h * q) * g = h * (q * g)
    OBVIOUS
  <2> QED
    BY <2>2, <2>3, WorthScaled
<1>8. Worth(kept, r * q, g)
  <2>1. Worth(Ratio(1, 1), 1, 1)
    BY WholesAre, 1 \in Int
  <2>2. Worth(kept, 1 * g - h * 1, 1 * g)
    BY <1>7, <2>1, MinusWorth, Zenon
  <2>3. (1 * g - h * 1) * g = (r * q) * (1 * g)
    BY <1>5
  <2>4. r * q \in Int
    OBVIOUS
  <2> QED
    BY <2>2, <2>3, <2>4, WorthScaled
<1>9. h \in Nat \ {0}
  BY <1>4
<1> QED
  BY <1>1, <1>2, <1>3, <1>5, <1>6, <1>7, <1>8, <1>9, Zenon DEF GainWorth

\* What the new estimate leaves is what the old one left, less the gain.
LEMMA GainLeaves ==
    ASSUME NEW v \in Int, NEW r \in Nat \ {0}, NEW a, NEW P, NEW K, NEW kept,
           GainWorth(v, r, a, P, K, kept)
    PROVE  LET left == Minus(P, Times(Times(K, Plus(P, Ratio(r, 1))), K))
           IN  left = Minus(Ratio(v, 1), Plus(Times(kept, a), Times(K, Ratio(v, 1)))) /\ left.n > 0
<1>1. PICK an \in Int, q, h, g \in Nat \ {0} :
        /\ h = v * q - an /\ g = h + r * q
        /\ Worth(a, an, q) /\ Worth(P, h, q) /\ Worth(Plus(P, Ratio(r, 1)), g, q)
        /\ Worth(K, h, g) /\ Worth(kept, r * q, g)
  BY Zenon DEF GainWorth
<1> DEFINE left == Minus(P, Times(Times(K, Plus(P, Ratio(r, 1))), K))
           w == Ratio(v, 1)
<1>2. Worth(w, v, 1)
  BY WholesAre
<1> HIDE DEF w
<1>3. Worth(Times(K, Plus(P, Ratio(r, 1))), h * g, g * q)
  BY <1>1, TimesWorth, Zenon
<1>4. Worth(Times(Times(K, Plus(P, Ratio(r, 1))), K), (h * g) * h, (g * q) * g)
  BY <1>1, <1>3, TimesWorth, Zenon
<1>5. Worth(left, h * ((g * q) * g) - ((h * g) * h) * q, q * ((g * q) * g))
  BY <1>1, <1>4, MinusWorth, Zenon
<1> HIDE DEF left
<1>6. Worth(Times(kept, a), (r * q) * an, g * q) /\ Worth(Times(K, w), h * v, g * 1)
  BY <1>1, <1>2, TimesWorth, Zenon
<1>7. Worth(Plus(Times(kept, a), Times(K, w)),
            ((r * q) * an) * (g * 1) + (h * v) * (g * q), (g * q) * (g * 1))
  BY <1>6, PlusWorth, Zenon
<1>8. Worth(Minus(w, Plus(Times(kept, a), Times(K, w))),
            v * ((g * q) * (g * 1)) - (((r * q) * an) * (g * 1) + (h * v) * (g * q)) * 1,
            1 * ((g * q) * (g * 1)))
  BY <1>2, <1>7, MinusWorth, Zenon
<1>9. Worth(left, h * r, g)
  <2>1. h * ((g * q) * g) - ((h * g) * h) * q = (h * g * q) * (g - h)
    OBVIOUS
  <2>2. (h * g * q) * (g - h) = (h * g * q) * (r * q)
    BY <1>1
  <2>3. ((h * g * q) * (r * q)) * g = (h * r) * (q * ((g * q) * g))
    OBVIOUS
  <2>4. (h * ((g * q) * g) - ((h * g) * h) * q) * g = (h * r) * (q * ((g * q) * g))
    BY <2>1, <2>2, <2>3
  <2>5. h * r \in Int
    OBVIOUS
  <2>6. PICK n, d : n = h * ((g * q) * g) - ((h * g) * h) * q /\ d = q * ((g * q) * g)
    OBVIOUS
  <2>7. Worth(left, n, d) /\ n * g = (h * r) * d
    BY <1>5, <2>4, <2>6
  <2> QED
    BY <2>5, <2>7, WorthScaled
<1>10. Worth(Minus(w, Plus(Times(kept, a), Times(K, w))), h * r, g)
  <2>1. v * ((g * q) * (g * 1)) - (((r * q) * an) * (g * 1) + (h * v) * (g * q)) * 1
          = (g * q) * (v * g - (r * an + h * v))
    OBVIOUS
  <2>2. v * g - (r * an + h * v) = v * (h + r * q) - (r * an + h * v)
    BY <1>1
  <2>3. v * (h + r * q) - (r * an + h * v) = r * (v * q - an)
    OBVIOUS
  <2>4. r * (v * q - an) = h * r
    BY <1>1
  <2>5. v * ((g * q) * (g * 1)) - (((r * q) * an) * (g * 1) + (h * v) * (g * q)) * 1
          = (g * q) * (h * r)
    BY <2>1, <2>2, <2>3, <2>4
  <2>6. ((g * q) * (h * r)) * g = (h * r) * (1 * ((g * q) * (g * 1)))
    OBVIOUS
  <2>7. (v * ((g * q) * (g * 1)) - (((r * q) * an) * (g * 1) + (h * v) * (g * q)) * 1) * g
          = (h * r) * (1 * ((g * q) * (g * 1)))
    BY <2>5, <2>6
  <2>8. h * r \in Int
    OBVIOUS
  <2> QED
    BY <1>8, <2>7, <2>8, WorthScaled
<1>11. left = Minus(w, Plus(Times(kept, a), Times(K, w)))
  <2>1. (h * r) * g = (h * r) * g
    OBVIOUS
  <2> QED
    BY <1>9, <1>10, <2>1, WorthSame, Zenon
<1>12. left.n > 0
  <2>1. PICK n \in Int, d \in Nat \ {0} : n = left.n /\ d = left.d /\ n * g = (h * r) * d
    BY <1>9, ReducedIs DEF Worth
  <2>2. (h * r) * d > 0
    <3>1. h * r > 0
      OBVIOUS
    <3>2. PICK k \in Nat \ {0} : k = h * r
      BY <3>1
    <3>3. k * d > 0
      OBVIOUS
    <3> QED
      BY <3>2, <3>3
  <2>3. ASSUME n <= 0 PROVE FALSE
    <3>1. (-n) * g >= 0
      BY <2>3
    <3>2. (-n) * g = -(n * g) /\ n * g \in Int
      OBVIOUS
    <3> QED
      BY <2>1, <2>2, <3>1, <3>2
  <2> QED
    BY <2>1, <2>3
<1> QED
  BY <1>11, <1>12 DEF left, w

\* What was explained stays so, and what is observed is explained.
LEMMA GainExplains ==
    ASSUME NEW v \in Int, NEW r \in Nat \ {0}, NEW a, NEW P, NEW K, NEW kept,
           GainWorth(v, r, a, P, K, kept)
    PROVE  /\ \A n \in Int : Plus(Times(kept, Ratio(n, 1)), Times(K, Ratio(n, 1))) = Ratio(n, 1)
           /\ Plus(Times(kept, a), Times(K, Ratio(v + r, 1))) = Ratio(v, 1)
           /\ K \in Reduced /\ kept \in Reduced
<1>1. PICK an \in Int, q, h, g \in Nat \ {0} :
        /\ h = v * q - an /\ g = h + r * q
        /\ Worth(a, an, q) /\ Worth(P, h, q) /\ Worth(Plus(P, Ratio(r, 1)), g, q)
        /\ Worth(K, h, g) /\ Worth(kept, r * q, g)
  BY Zenon DEF GainWorth
<1>2. ASSUME NEW n \in Int PROVE Plus(Times(kept, Ratio(n, 1)), Times(K, Ratio(n, 1))) = Ratio(n, 1)
  <2> DEFINE w == Ratio(n, 1)
  <2>1. Worth(w, n, 1)
    BY WholesAre
  <2> HIDE DEF w
  <2>2. Worth(Times(kept, w), (r * q) * n, g * 1) /\ Worth(Times(K, w), h * n, g * 1)
    BY <1>1, <2>1, TimesWorth, Zenon
  <2>3. Worth(Plus(Times(kept, w), Times(K, w)),
              ((r * q) * n) * (g * 1) + (h * n) * (g * 1), (g * 1) * (g * 1))
    BY <2>2, PlusWorth, Zenon
  <2>4. (((r * q) * n) * (g * 1) + (h * n) * (g * 1)) * 1 = n * ((g * 1) * (g * 1))
    <3>1. (((r * q) * n) * (g * 1) + (h * n) * (g * 1)) * 1 = n * (g * (h + r * q))
      OBVIOUS
    <3>2. n * (g * (h + r * q)) = n * (g * g)
      BY <1>1
    <3>3. n * (g * g) = n * ((g * 1) * (g * 1))
      OBVIOUS
    <3> QED
      BY <3>1, <3>2, <3>3
  <2>5. Plus(Times(kept, w), Times(K, w)) = w
    BY <2>1, <2>3, <2>4, WorthSame, Zenon
  <2> QED
    BY <2>5 DEF w
<1>3. Plus(Times(kept, a), Times(K, Ratio(v + r, 1))) = Ratio(v, 1)
  <2> DEFINE w == Ratio(v + r, 1)
  <2>1. Worth(w, v + r, 1) /\ Worth(Ratio(v, 1), v, 1)
    <3>1. v + r \in Int
      OBVIOUS
    <3> QED
      BY <3>1, WholesAre
  <2> HIDE DEF w
  <2>2. Worth(Times(kept, a), (r * q) * an, g * q) /\ Worth(Times(K, w), h * (v + r), g * 1)
    BY <1>1, <2>1, TimesWorth, Zenon
  <2>3. Worth(Plus(Times(kept, a), Times(K, w)),
              ((r * q) * an) * (g * 1) + (h * (v + r)) * (g * q), (g * q) * (g * 1))
    BY <2>2, PlusWorth, Zenon
  <2>4. (((r * q) * an) * (g * 1) + (h * (v + r)) * (g * q)) * 1 = v * ((g * q) * (g * 1))
    <3>1. (((r * q) * an) * (g * 1) + (h * (v + r)) * (g * q)) * 1
            = (g * q) * (r * an + h * v + h * r)
      OBVIOUS
    <3>2. r * an + h * v + h * r = v * g
      <4>1. r * an + h * v + h * r = r * an + h * v + (v * q - an) * r
        BY <1>1
      <4>2. r * an + h * v + (v * q - an) * r = v * (h + r * q)
        OBVIOUS
      <4> QED
        BY <1>1, <4>1, <4>2
    <3>3. (g * q) * (v * g) = v * ((g * q) * (g * 1))
      OBVIOUS
    <3> QED
      BY <3>1, <3>2, <3>3
  <2>5. Plus(Times(kept, a), Times(K, w)) = Ratio(v, 1)
    BY <2>1, <2>3, <2>4, WorthSame, Zenon
  <2> QED
    BY <2>5 DEF w
<1>4. K \in Reduced /\ kept \in Reduced
  BY <1>1 DEF Worth
<1> QED
  BY <1>2, <1>3, <1>4

\* How the tracked state varies after n predictions, and how the observations
\* i and j, made after s[i] and s[j] of them, vary together.
Walked(n) == Ratio(FirstNoise + ProcessNoise * n, 1)
Lesser(a, b) == IF a <= b THEN a ELSE b
Varies(s, i, j) ==
    Ratio(FirstNoise + ProcessNoise * Lesser(s[i], s[j]) + (IF i = j THEN ReadingNoise ELSE 0), 1)
VariesWith(s, i) == [j \in 1..Len(s) |-> Varies(s, i, j)]
WalkedTo(s)      == [j \in 1..Len(s) |-> Walked(s[j])]

\* The inductive invariant: the weights x explain what the state shares with
\* every observation, and P is what they leave unexplained.
Explains(w, s)   == \A i \in 1..Len(s) : Weighs(w, VariesWith(s, i), Len(s), Walked(s[i]))
LeavesOver(w, s, p, P) == \E a \in Reduced : Weighs(w, WalkedTo(s), Len(s), a) /\ P = Minus(Walked(p), a)
Tracks(w, s, p, P) ==
    /\ w \in Seq(Reduced) /\ s \in Seq(Nat) /\ Len(w) = Len(s)
    /\ p \in Nat /\ \A i \in 1..Len(s) : s[i] <= p
    /\ P \in Reduced /\ P.n > 0
    /\ Explains(w, s) /\ LeavesOver(w, s, p, P)

\* The variances of the walk are whole numbers.
LEMMA WalksAre ==
    ASSUME Tracker!TrackerAssumption, NEW n \in Nat
    PROVE  /\ FirstNoise + ProcessNoise * n \in Nat
           /\ Walked(n) \in Reduced
           /\ Worth(Walked(n), FirstNoise + ProcessNoise * n, 1)
<1>1. FirstNoise \in Nat /\ ProcessNoise \in Nat
  BY DEF Tracker!TrackerAssumption
<1>2. ProcessNoise * n \in Nat
  BY <1>1
<1>3. FirstNoise + ProcessNoise * n \in Nat
  BY <1>1, <1>2
<1> QED
  BY <1>3, WholesAre DEF Walked

\* At first the estimate is of what was there before any prediction.
LEMMA TracksFirst ==
    ASSUME Tracker!TrackerAssumption
    PROVE  Tracks(<<>>, <<>>, 0, Ratio(FirstNoise, 1))
<1>1. /\ <<>> \in Seq(Reduced) /\ <<>> \in Seq(Nat) /\ Len(<<>>) = 0 /\ 0 \in Nat
      /\ 1..0 = {}
  OBVIOUS
<1>2. FirstNoise \in Nat \ {0} /\ ProcessNoise \in Nat
  BY DEF Tracker!TrackerAssumption
<1>3. FirstNoise + ProcessNoise * 0 = FirstNoise
  BY <1>2
<1>4. Worth(Ratio(FirstNoise, 1), FirstNoise, 1)
  BY <1>2, WholesAre
<1>5. Walked(0) = Ratio(FirstNoise, 1)
  BY <1>3 DEF Walked
<1>6. Weighs(<<>>, WalkedTo(<<>>), 0, Ratio(0, 1))
  BY WeighsNothing
<1>7. Ratio(0, 1) \in Reduced /\ Worth(Ratio(0, 1), 0, 1)
  BY WholesAre, 0 \in Int
<1>8. Ratio(FirstNoise, 1) = Minus(Ratio(FirstNoise, 1), Ratio(0, 1))
  <2>1. Worth(Minus(Ratio(FirstNoise, 1), Ratio(0, 1)), FirstNoise * 1 - 0 * 1, 1 * 1)
    BY <1>4, <1>7, MinusWorth, Zenon
  <2>2. (FirstNoise * 1 - 0 * 1) * 1 = FirstNoise * (1 * 1)
    BY <1>2
  <2> QED
    BY <1>4, <2>1, <2>2, WorthSame, Zenon
<1>9. LeavesOver(<<>>, <<>>, 0, Ratio(FirstNoise, 1))
  BY <1>1, <1>5, <1>6, <1>7, <1>8 DEF LeavesOver
<1>10. Ratio(FirstNoise, 1) \in Reduced /\ Ratio(FirstNoise, 1).n > 0
  <2>1. PICK n \in Int, d \in Nat \ {0} :
          n = Ratio(FirstNoise, 1).n /\ d = Ratio(FirstNoise, 1).d /\ n * 1 = FirstNoise * d
    BY <1>4, ReducedIs DEF Worth
  <2>2. FirstNoise * d > 0
    BY <1>2
  <2> QED
    BY <1>4, <2>1, <2>2 DEF Worth
<1>11. Explains(<<>>, <<>>)
  BY <1>1 DEF Explains
<1> QED
  BY <1>1, <1>9, <1>10, <1>11 DEF Tracks

\* A prediction adds its noise to what is unexplained.
LEMMA TracksPredicted ==
    ASSUME Tracker!TrackerAssumption, NEW w, NEW s, NEW p, NEW P, Tracks(w, s, p, P)
    PROVE  Tracks(w, s, p + 1, Plus(P, Ratio(ProcessNoise, 1)))
<1>1. /\ w \in Seq(Reduced) /\ s \in Seq(Nat) /\ Len(w) = Len(s)
      /\ p \in Nat /\ \A i \in 1..Len(s) : s[i] <= p
      /\ P \in Reduced /\ P.n > 0
      /\ Explains(w, s) /\ LeavesOver(w, s, p, P)
  BY DEF Tracks
<1>2. FirstNoise \in Nat /\ ProcessNoise \in Nat
  BY DEF Tracker!TrackerAssumption
<1> DEFINE T == Plus(P, Ratio(ProcessNoise, 1))
<1>3. Worth(Ratio(ProcessNoise, 1), ProcessNoise, 1) /\ Ratio(ProcessNoise, 1) \in Reduced
  BY <1>2, WholesAre
<1>4. LeavesOver(w, s, p + 1, T)
  <2>1. PICK a \in Reduced : Weighs(w, WalkedTo(s), Len(s), a) /\ P = Minus(Walked(p), a)
    BY <1>1 DEF LeavesOver
  <2>2. PICK an \in Int, ad \in Nat \ {0} : Worth(a, an, ad)
    BY WorthItself, ReducedIs
  <2>3. PICK f \in Nat : f = FirstNoise + ProcessNoise * p /\ Worth(Walked(p), f, 1)
    BY <1>1, WalksAre
  <2>4. PICK g \in Nat : g = FirstNoise + ProcessNoise * (p + 1) /\ Worth(Walked(p + 1), g, 1)
    <3>1. p + 1 \in Nat
      BY <1>1
    <3> QED
      BY <3>1, WalksAre
  <2>5. g = f + ProcessNoise
    <3>1. ProcessNoise * (p + 1) = ProcessNoise * p + ProcessNoise /\ ProcessNoise * p \in Nat
      BY <1>1, <1>2
    <3> QED
      BY <1>2, <2>3, <2>4, <3>1
  <2>6. Worth(P, f * ad - an * 1, 1 * ad)
    BY <2>1, <2>2, <2>3, MinusWorth, Zenon
  <2>7. Worth(T, (f * ad - an * 1) * 1 + ProcessNoise * (1 * ad), (1 * ad) * 1)
    BY <1>3, <2>6, PlusWorth, Zenon
  <2>8. Worth(Minus(Walked(p + 1), a), g * ad - an * 1, 1 * ad)
    BY <2>2, <2>4, MinusWorth, Zenon
  <2>9. ((f * ad - an * 1) * 1 + ProcessNoise * (1 * ad)) * (1 * ad)
          = (g * ad - an * 1) * ((1 * ad) * 1)
    BY <1>2, <2>5
  <2> HIDE DEF T
  <2>10. T = Minus(Walked(p + 1), a)
    BY <2>7, <2>8, <2>9, WorthSame, Zenon
  <2> QED
    BY <2>1, <2>10 DEF LeavesOver
<1>5. T \in Reduced
  BY <1>1, <1>3, ReducedClosed
<1>6. T.n > 0
  <2>1. PICK n \in Int, d \in Nat \ {0} : n = P.n /\ Worth(P, n, d)
    BY <1>1, WorthItself, ReducedIs
  <2>2. Worth(T, n * 1 + ProcessNoise * d, d * 1)
    BY <1>3, <2>1, PlusWorth, Zenon
  <2>3. PICK m \in Int : m = n * 1 + ProcessNoise * d
    BY <1>2
  <2>4. m > 0
    <3>1. ProcessNoise * d \in Nat
      BY <1>2
    <3> QED
      BY <1>1, <2>1, <2>3, <3>1
  <2>5. PICK e \in Nat \ {0} : e = d * 1
    OBVIOUS
  <2>6. Worth(T, m, e)
    BY <2>2, <2>3, <2>5
  <2> HIDE DEF T
  <2>7. PICK tn \in Int, td \in Nat \ {0} : tn = T.n /\ td = T.d /\ tn * e = m * td
    BY <1>5, <2>6, ReducedIs DEF Worth
  <2>8. m * td > 0
    BY <2>4
  <2>9. ASSUME tn <= 0 PROVE FALSE
    <3>1. (-tn) * e >= 0
      BY <2>9
    <3>2. (-tn) * e = -(tn * e) /\ tn * e \in Int
      OBVIOUS
    <3> QED
      BY <2>7, <2>8, <3>1, <3>2
  <2> QED
    BY <2>7, <2>9
<1>7. p + 1 \in Nat /\ \A i \in 1..Len(s) : s[i] <= p + 1
  <2>1. ASSUME NEW i \in 1..Len(s) PROVE s[i] <= p + 1
    <3>1. s[i] \in Nat /\ s[i] <= p
      BY <1>1
    <3> QED
      BY <1>1, <3>1
  <2> QED
    BY <1>1, <2>1
<1> QED
  BY <1>1, <1>4, <1>5, <1>6, <1>7, Zenon DEF Tracks

\* An observation is explained with the ones before it.
LEMMA TracksObserved ==
    ASSUME Tracker!TrackerAssumption, NEW w, NEW s, NEW p, NEW P, NEW K, NEW kept,
           Tracks(w, s, p, P), K = Over(P, Plus(P, Ratio(ReadingNoise, 1))),
           kept = Minus(Ratio(1, 1), K)
    PROVE  Tracks(Append([i \in DOMAIN w |-> Times(kept, w[i])], K), Append(s, p), p,
                  Minus(P, Times(Times(K, Plus(P, Ratio(ReadingNoise, 1))), K)))
<1>1. /\ w \in Seq(Reduced) /\ s \in Seq(Nat) /\ Len(w) = Len(s)
      /\ p \in Nat /\ \A i \in 1..Len(s) : s[i] <= p
      /\ P \in Reduced /\ P.n > 0
      /\ Explains(w, s) /\ LeavesOver(w, s, p, P)
  BY DEF Tracks
<1>2. PICK L \in Nat : L = Len(s) /\ L = Len(w) /\ DOMAIN w = 1..L /\ DOMAIN s = 1..L
  BY <1>1
<1>3. PICK r \in Nat \ {0} : r = ReadingNoise
  BY DEF Tracker!TrackerAssumption
<1>4. PICK v \in Nat : v = FirstNoise + ProcessNoise * p /\ Walked(p) = Ratio(v, 1) /\ Ratio(v, 1) \in Reduced
  <2>1. FirstNoise + ProcessNoise * p \in Nat /\ Walked(p) \in Reduced
    BY <1>1, WalksAre
  <2> QED
    BY <2>1 DEF Walked
<1>5. PICK a \in Reduced : Weighs(w, WalkedTo(s), L, a) /\ P = Minus(Ratio(v, 1), a)
  BY <1>1, <1>2, <1>4 DEF LeavesOver
<1>6. GainWorth(v, r, a, P, K, kept)
  <2>1. v \in Int
    OBVIOUS
  <2> QED
    BY <1>1, <1>3, <1>5, <2>1, GainIsWorth
<1>7. /\ \A n \in Int : Plus(Times(kept, Ratio(n, 1)), Times(K, Ratio(n, 1))) = Ratio(n, 1)
      /\ Plus(Times(kept, a), Times(K, Ratio(v + r, 1))) = Ratio(v, 1)
      /\ K \in Reduced /\ kept \in Reduced
  <2>1. v \in Int
    OBVIOUS
  <2> QED
    BY <1>6, <2>1, GainExplains
<1> DEFINE left == Minus(P, Times(Times(K, Plus(P, Ratio(r, 1))), K))
           known == Plus(Times(kept, a), Times(K, Ratio(v, 1)))
<1>8. left = Minus(Ratio(v, 1), known) /\ left.n > 0
  <2>1. v \in Int
    OBVIOUS
  <2> QED
    BY <1>6, <2>1, GainLeaves
<1>9. known \in Reduced /\ left \in Reduced
  <2>1. known \in Reduced
    BY <1>4, <1>7, ReducedClosed
  <2> HIDE DEF known, left
  <2> QED
    BY <1>4, <1>8, <2>1, ReducedClosed
<1> HIDE DEF left, known
<1> DEFINE y == [i \in DOMAIN w |-> Times(kept, w[i])]
           z == Append(y, K)
           t == Append(s, p)
<1>10. /\ z \in Seq(Reduced) /\ Len(z) = L + 1 /\ z[L + 1] = K
       /\ \A i \in 1..L : z[i] = y[i] /\ y[i] = Times(kept, w[i]) /\ w[i] \in Reduced
  <2>1. \A i \in 1..L : w[i] \in Reduced
    BY <1>1, <1>2
  <2>2. \A i \in 1..L : Times(kept, w[i]) \in Reduced
    BY <1>7, <2>1, ReducedClosed
  <2>3. y \in Seq(Reduced) /\ Len(y) = L
    BY <1>2, <2>2
  <2>4. \A i \in 1..L : y[i] = Times(kept, w[i])
    BY <1>2
  <2> HIDE DEF y
  <2>5. z \in Seq(Reduced) /\ Len(z) = L + 1 /\ z[L + 1] = K /\ \A i \in 1..L : z[i] = y[i]
    BY <1>7, <2>3
  <2> QED
    BY <2>1, <2>4, <2>5
<1>11. /\ t \in Seq(Nat) /\ Len(t) = L + 1 /\ t[L + 1] = p
       /\ \A i \in 1..L : t[i] = s[i] /\ s[i] \in Nat /\ s[i] <= p
  BY <1>1, <1>2
<1> HIDE DEF z, t
<1>12. \A i \in 1..Len(t) : t[i] <= p
  <2>1. ASSUME NEW i \in 1..(L + 1) PROVE t[i] <= p
    <3>1. i \in 1..L \/ i = L + 1
      OBVIOUS
    <3> QED
      BY <1>1, <1>11, <3>1
  <2> QED
    BY <1>11, <2>1
<1>13. ASSUME NEW c, NEW b, NEW e, Weighs(w, c, L, e),
              \A j \in 1..L : c[j] \in Reduced /\ b[j] = c[j], b[L + 1] \in Reduced
       PROVE  Weighs(z, b, L + 1, Plus(Times(kept, e), Times(K, b[L + 1])))
  <2>1. Weighs(y, c, L, Times(kept, e))
    <3> HIDE DEF y
    <3>1. \A j \in 1..L : w[j] \in Reduced /\ c[j] \in Reduced /\ y[j] = Times(kept, w[j])
      BY <1>10, <1>13
    <3> QED
      BY <1>7, <1>13, <3>1, WeighsScaled
  <2> HIDE DEF y
  <2>2. z[L + 1] \in Reduced /\ \A j \in 1..L : z[j] = y[j] /\ b[j] = c[j]
    BY <1>7, <1>10, <1>13
  <2>3. Weighs(z, b, L + 1, Plus(Times(kept, e), Times(z[L + 1], b[L + 1])))
    BY <1>13, <2>1, <2>2, WeighsAppended
  <2> QED
    BY <1>10, <2>3
<1>14. L + 1 \in 1..(L + 1) /\ \A j \in 1..L : j \in 1..(L + 1) /\ j # L + 1
  OBVIOUS
<1>15. \A j \in 1..L : Walked(s[j]) \in Reduced
  BY <1>11, WalksAre
<1>16. LeavesOver(z, t, p, left)
  <2>1. \A j \in 1..L : WalkedTo(s)[j] = Walked(s[j])
    BY <1>2 DEF WalkedTo
  <2>2. \A j \in 1..L : WalkedTo(t)[j] = Walked(s[j])
    BY <1>11, <1>14 DEF WalkedTo
  <2>3. WalkedTo(t)[L + 1] = Ratio(v, 1)
    BY <1>4, <1>11, <1>14 DEF WalkedTo
  <2>4. Weighs(z, WalkedTo(t), L + 1, Plus(Times(kept, a), Times(K, WalkedTo(t)[L + 1])))
    BY <1>4, <1>5, <1>13, <1>15, <2>1, <2>2, <2>3
  <2>5. Weighs(z, WalkedTo(t), L + 1, known)
    BY <2>3, <2>4 DEF known
  <2> QED
    BY <1>4, <1>8, <1>9, <1>11, <2>5 DEF LeavesOver
<1>17. ASSUME NEW i \in 1..L
       PROVE  Weighs(z, VariesWith(t, i), L + 1, Walked(t[i]))
  <2>1. PICK m \in Nat : m = FirstNoise + ProcessNoise * s[i] /\ Walked(s[i]) = Ratio(m, 1)
    <3>1. s[i] \in Nat
      BY <1>11
    <3>2. FirstNoise + ProcessNoise * s[i] \in Nat
      BY <3>1, WalksAre
    <3> QED
      BY <3>2 DEF Walked
  <2>2. \A j \in 1..L : VariesWith(s, i)[j] = Varies(s, i, j)
    BY <1>2 DEF VariesWith
  <2>3. \A j \in 1..L : VariesWith(t, i)[j] = Varies(t, i, j) /\ Varies(t, i, j) = Varies(s, i, j)
    <3>1. \A j \in 1..L : VariesWith(t, i)[j] = Varies(t, i, j)
      BY <1>11, <1>14 DEF VariesWith
    <3>2. t[i] = s[i] /\ \A j \in 1..L : t[j] = s[j]
      BY <1>11
    <3>3. \A j \in 1..L : Varies(t, i, j) = Varies(s, i, j)
      BY <3>2 DEF Varies
    <3> QED
      BY <3>1, <3>3
  <2>4. VariesWith(t, i)[L + 1] = Ratio(m, 1)
    <3>1. VariesWith(t, i)[L + 1] = Varies(t, i, L + 1)
      BY <1>11, <1>14 DEF VariesWith
    <3>2. t[i] = s[i] /\ Lesser(t[i], t[L + 1]) = s[i] /\ i # L + 1
      BY <1>11, <1>14 DEF Lesser
    <3>3. Varies(t, i, L + 1) = Ratio(FirstNoise + ProcessNoise * s[i] + 0, 1)
      BY <3>2 DEF Varies
    <3>4. m + 0 = m
      OBVIOUS
    <3> QED
      BY <2>1, <3>1, <3>3, <3>4
  <2>5. \A j \in 1..L : Varies(s, i, j) \in Reduced
    <3> SUFFICES ASSUME NEW j \in 1..L PROVE Varies(s, i, j) \in Reduced
      OBVIOUS
    <3>1. Lesser(s[i], s[j]) \in Nat
      BY <1>11 DEF Lesser
    <3>2. FirstNoise + ProcessNoise * Lesser(s[i], s[j]) \in Nat
      BY <3>1, WalksAre
    <3>3. (IF i = j THEN ReadingNoise ELSE 0) \in Nat
      BY <1>3
    <3>4. FirstNoise + ProcessNoise * Lesser(s[i], s[j]) + (IF i = j THEN ReadingNoise ELSE 0) \in Int
      BY <3>2, <3>3
    <3> QED
      BY <3>4, WholesAre DEF Varies
  <2>6. Weighs(w, VariesWith(s, i), L, Ratio(m, 1))
    BY <1>1, <1>2, <2>1 DEF Explains
  <2>7. Ratio(m, 1) \in Reduced
    BY WholesAre, m \in Int
  <2>8. Weighs(z, VariesWith(t, i), L + 1,
               Plus(Times(kept, Ratio(m, 1)), Times(K, VariesWith(t, i)[L + 1])))
    BY <1>13, <2>2, <2>3, <2>4, <2>5, <2>6, <2>7
  <2>9. Plus(Times(kept, Ratio(m, 1)), Times(K, Ratio(m, 1))) = Ratio(m, 1)
    BY <1>7, m \in Int
  <2> QED
    BY <1>11, <2>1, <2>4, <2>8, <2>9
<1>18. Weighs(z, VariesWith(t, L + 1), L + 1, Walked(t[L + 1]))
  <2>1. \A j \in 1..L : VariesWith(t, L + 1)[j] = Walked(s[j])
    <3> SUFFICES ASSUME NEW j \in 1..L PROVE VariesWith(t, L + 1)[j] = Walked(s[j])
      OBVIOUS
    <3>1. VariesWith(t, L + 1)[j] = Varies(t, L + 1, j)
      BY <1>11, <1>14 DEF VariesWith
    <3>2. s[j] \in Nat /\ t[j] = s[j] /\ s[j] <= p /\ t[L + 1] = p /\ j # L + 1
      BY <1>11, <1>14
    <3>3. Lesser(t[L + 1], t[j]) = s[j]
      BY <1>1, <3>2 DEF Lesser
    <3>4. Varies(t, L + 1, j) = Ratio(FirstNoise + ProcessNoise * s[j] + 0, 1)
      BY <3>2, <3>3 DEF Varies
    <3>5. FirstNoise + ProcessNoise * s[j] \in Nat
      BY <3>2, WalksAre
    <3>6. FirstNoise + ProcessNoise * s[j] + 0 = FirstNoise + ProcessNoise * s[j]
      BY <3>5
    <3> QED
      BY <3>1, <3>4, <3>6 DEF Walked
  <2>2. VariesWith(t, L + 1)[L + 1] = Ratio(v + r, 1)
    <3>1. VariesWith(t, L + 1)[L + 1] = Varies(t, L + 1, L + 1)
      BY <1>11, <1>14 DEF VariesWith
    <3>2. Lesser(t[L + 1], t[L + 1]) = p
      BY <1>11 DEF Lesser
    <3> QED
      BY <1>3, <1>4, <3>1, <3>2 DEF Varies
  <2>3. \A j \in 1..L : WalkedTo(s)[j] = Walked(s[j])
    BY <1>2 DEF WalkedTo
  <2>4. Ratio(v + r, 1) \in Reduced
    BY WholesAre, v + r \in Int
  <2>5. Weighs(z, VariesWith(t, L + 1), L + 1,
               Plus(Times(kept, a), Times(K, VariesWith(t, L + 1)[L + 1])))
    BY <1>5, <1>13, <1>15, <2>1, <2>2, <2>3, <2>4
  <2> QED
    BY <1>4, <1>7, <1>11, <2>2, <2>5
<1>19. Explains(z, t)
  <2>1. ASSUME NEW i \in 1..(L + 1) PROVE Weighs(z, VariesWith(t, i), L + 1, Walked(t[i]))
    <3>1. i \in 1..L \/ i = L + 1
      OBVIOUS
    <3> QED
      BY <1>17, <1>18, <3>1
  <2> QED
    BY <1>11, <2>1 DEF Explains
<1>20. Tracks(z, t, p, left)
  <2>1. z \in Seq(Reduced) /\ t \in Seq(Nat) /\ Len(z) = Len(t)
    BY <1>10, <1>11
  <2> QED
    BY <1>1, <1>8, <1>9, <1>12, <1>16, <1>19, <2>1, Zenon DEF Tracks
<1> QED
  BY <1>3, <1>20 DEF z, t, left

TrackerInv == Tracks(state, seen, predictions, covariance)

\* What the weights explain is the sum of what each explains.
LEMMA TrackedSumsAgree ==
    ASSUME NEW L \in Nat, NEW f, NEW c, NEW a, Weighs(state, c, L, a),
           \A n \in 1..L : f[n] = Times(state[n], c[n])
    PROVE  SumOf(f, L) = a
<1> DEFINE g == [n \in 1..L |-> Times(state[n], c[n])]
<1>1. PICK u : Accrues(u, g, L) /\ u[L] = a
  BY DEF Weighs
<1>2. \A n \in 0..(L - 1) : n + 1 \in 1..L
  OBVIOUS
<1>3. \A n \in 0..(L - 1) : g[n + 1] = f[n + 1]
  BY <1>2
<1> HIDE DEF g
<1>4. Accrues(u, f, L)
  BY <1>1, <1>3 DEF Accrues
<1> QED
  BY <1>1, <1>4, SumOfIs DEF SumsTo

\* its least of two is the lesser,
LEMMA LesserIs ==
    ASSUME NEW a \in Int, NEW b \in Int
    PROVE  Tracker!Min({a, b}) = Lesser(a, b)
<1>1. Lesser(a, b) \in {a, b} /\ \A y \in {a, b} : Lesser(a, b) <= y
  BY DEF Lesser
<1>2. \A m \in {a, b} : (\A y \in {a, b} : m <= y) => m = Lesser(a, b)
  BY DEF Lesser
<1> QED
  BY <1>1, <1>2 DEF Tracker!Min

\* so the invariant is the property,
LEMMA TracksIsOptimal ==
    ASSUME Tracker!TrackerAssumption, TrackerInv
    PROVE  TrackingOptimal
<1>1. /\ state \in Seq(Reduced) /\ seen \in Seq(Nat) /\ Len(state) = Len(seen)
      /\ predictions \in Nat
      /\ Explains(state, seen) /\ LeavesOver(state, seen, predictions, covariance)
  BY DEF Tracks, TrackerInv
<1>2. PICK L \in Nat : L = Len(state) /\ L = Len(seen) /\ DOMAIN state = 1..L
  BY <1>1
<1>3. \A n : Tracker!Ratio(n, 1) = Ratio(n, 1)
  BY TrackerReckons
<1>4. \A i : Tracker!WithState(i) = Walked(seen[i])
  BY <1>3 DEF Tracker!WithState, Walked
<1>5. \A i, j \in 1..L : Tracker!Together(i, j) = Varies(seen, i, j)
  <2> SUFFICES ASSUME NEW i \in 1..L, NEW j \in 1..L
               PROVE  Tracker!Together(i, j) = Varies(seen, i, j)
    OBVIOUS
  <2>1. seen[i] \in Int /\ seen[j] \in Int
    BY <1>1, <1>2
  <2>2. Tracker!Min({seen[i], seen[j]}) = Lesser(seen[i], seen[j])
    BY <2>1, LesserIs
  <2> QED
    BY <1>3, <2>2 DEF Tracker!Together, Varies
<1>6. ASSUME NEW i \in 1..L
      PROVE  Tracker!SumUpTo(L, LAMBDA j : Tracker!Times(state[j], Tracker!Together(i, j)))
               = Walked(seen[i])
  <2> DEFINE f == [j \in 1..L |-> Tracker!Times(state[j], Tracker!Together(i, j))]
  <2>1. Tracker!SumUpTo(L, LAMBDA j : Tracker!Times(state[j], Tracker!Together(i, j)))
          = Tracker!SumOf(f, L)
    BY Zenon DEF Tracker!SumUpTo
  <2>2. Weighs(state, VariesWith(seen, i), L, Walked(seen[i]))
    BY <1>1, <1>2 DEF Explains
  <2>3. \A j \in 1..L : f[j] = Times(state[j], VariesWith(seen, i)[j])
    BY <1>2, <1>5, TrackerReckons DEF VariesWith
  <2> HIDE DEF f
  <2> QED
    BY <2>1, <2>2, <2>3, TrackedSumsAgree, TrackerReckons
<1>7. covariance = Tracker!Minus(Tracker!Ratio(FirstNoise + ProcessNoise * predictions, 1),
        Tracker!SumUpTo(L, LAMBDA i : Tracker!Times(state[i], Tracker!WithState(i))))
  <2> DEFINE f == [j \in 1..L |-> Tracker!Times(state[j], Tracker!WithState(j))]
  <2>1. Tracker!SumUpTo(L, LAMBDA i : Tracker!Times(state[i], Tracker!WithState(i)))
          = Tracker!SumOf(f, L)
    BY Zenon DEF Tracker!SumUpTo
  <2>2. PICK a \in Reduced : Weighs(state, WalkedTo(seen), L, a) /\ covariance = Minus(Walked(predictions), a)
    BY <1>1, <1>2 DEF LeavesOver
  <2>3. \A j \in 1..L : f[j] = Times(state[j], WalkedTo(seen)[j])
    BY <1>2, <1>4, TrackerReckons DEF WalkedTo
  <2> HIDE DEF f
  <2>4. Tracker!SumOf(f, L) = a
    BY <2>2, <2>3, TrackedSumsAgree, TrackerReckons
  <2> QED
    BY <2>1, <2>2, <2>4, TrackerReckons DEF Walked
<1>8. ASSUME NEW i \in DOMAIN state
      PROVE  Tracker!SumUpTo(Len(state), LAMBDA j : Tracker!Times(state[j], Tracker!Together(i, j)))
               = Tracker!WithState(i)
  BY <1>2, <1>4, <1>6, Zenon
<1>9. covariance = Tracker!Minus(Tracker!Ratio(FirstNoise + ProcessNoise * predictions, 1),
        Tracker!SumUpTo(Len(state), LAMBDA i : Tracker!Times(state[i], Tracker!WithState(i))))
  BY <1>2, <1>7, Zenon
<1> QED
  BY <1>8, <1>9, Zenon DEF TrackingOptimal, Tracker!TrackingOptimal

\* and every step keeps it.
LEMMA TrackerKeeps ==
    ASSUME Tracker!TrackerAssumption, TrackerInv, [Tracker!Next]_Tracker!vars
    PROVE  TrackerInv'
<1>1. Tracks(state, seen, predictions, covariance)
  BY DEF TrackerInv
<1>2. state \in Seq(Reduced) /\ covariance \in Reduced /\ covariance.n > 0
  BY <1>1 DEF Tracks
<1>3. Tracker!Centre = Ratio(1, 1) /\ Tracker!Spread = covariance
  BY <1>2, CentreIs, SpreadIs
<1>4. CASE Tracker!Predict
  <2>1. /\ covariance' = Tracker!Plus(Tracker!Spread, Tracker!Ratio(ProcessNoise, 1))
        /\ state' = [i \in DOMAIN state |-> Tracker!Times(state[i], Tracker!Centre)]
        /\ predictions' = predictions + 1 /\ seen' = seen
    BY <1>4, Zenon DEF Tracker!Predict
  <2>2. covariance' = Plus(covariance, Ratio(ProcessNoise, 1))
    BY <1>3, <2>1, TrackerReckons
  <2>3. state' = state
    <3>1. \A i \in DOMAIN state : Tracker!Times(state[i], Tracker!Centre) = state[i]
      <4>1. \A i \in DOMAIN state : state[i] \in Reduced
        BY <1>2
      <4> QED
        BY <1>3, <4>1, TimesOne, TrackerReckons
    <3>2. state' = [i \in DOMAIN state |-> state[i]]
      BY <2>1, <3>1
    <3> QED
      BY <1>2, <3>2
  <2>4. Tracks(state, seen, predictions + 1, Plus(covariance, Ratio(ProcessNoise, 1)))
    BY <1>1, TracksPredicted
  <2> QED
    BY <2>1, <2>2, <2>3, <2>4 DEF TrackerInv
<1>5. CASE Tracker!Update
  <2> DEFINE S == Plus(covariance, Ratio(ReadingNoise, 1))
             K == Over(covariance, S)
             kept == Minus(Ratio(1, 1), K)
  <2>1. K \in Reduced
    <3>1. PICK r \in Nat \ {0} : r = ReadingNoise
      BY DEF Tracker!TrackerAssumption
    <3>2. PICK a \in Reduced : covariance = Minus(Walked(predictions), a)
      BY <1>1 DEF Tracks, LeavesOver
    <3>3. predictions \in Nat
      BY <1>1 DEF Tracks
    <3>4. PICK v \in Nat : Walked(predictions) = Ratio(v, 1)
      BY <3>3, WalksAre DEF Walked
    <3>5. GainWorth(v, r, a, covariance, K, kept)
      <4>1. v \in Int
        OBVIOUS
      <4> QED
        BY <1>2, <3>1, <3>2, <3>4, <4>1, GainIsWorth
    <3> QED
      <4>1. v \in Int
        OBVIOUS
      <4> HIDE DEF K, kept
      <4> QED
        BY <3>5, <4>1, GainExplains
  <2>2. Tracker!Plus(Tracker!Spread, Tracker!Ratio(ReadingNoise, 1)) = S
    BY <1>3, TrackerReckons
  <2>3. Tracker!Over(Tracker!Spread, S) = K
    BY <1>3, TrackerReckons
  <2> HIDE DEF S, K
  <2>4. Tracker!Minus(Tracker!Ratio(1, 1), Tracker!Times(K, Tracker!Centre)) = kept
    BY <1>3, <2>1, TimesOne, TrackerReckons
  <2> HIDE DEF kept
  <2>5. /\ state' = Append([i \in DOMAIN state |-> Tracker!Times(kept, state[i])], K)
        /\ covariance' = Tracker!Minus(covariance, Tracker!Times(Tracker!Times(K, S), K))
        /\ seen' = Append(seen, predictions) /\ predictions' = predictions
    BY <1>5, <2>2, <2>3, <2>4, Zenon DEF Tracker!Update
  <2>6. covariance' = Minus(covariance, Times(Times(K, S), K))
    BY <2>5, TrackerReckons
  <2>7. state' = Append([i \in DOMAIN state |-> Times(kept, state[i])], K)
    <3>1. \A i \in DOMAIN state : Tracker!Times(kept, state[i]) = Times(kept, state[i])
      BY TrackerReckons
    <3>2. [i \in DOMAIN state |-> Tracker!Times(kept, state[i])] = [i \in DOMAIN state |-> Times(kept, state[i])]
      BY <3>1
    <3> QED
      BY <2>5, <3>2
  <2>8. Tracks(Append([i \in DOMAIN state |-> Times(kept, state[i])], K), Append(seen, predictions),
               predictions, Minus(covariance, Times(Times(K, S), K)))
    BY <1>1, TracksObserved DEF K, S, kept
  <2> QED
    BY <2>5, <2>6, <2>7, <2>8 DEF TrackerInv
<1>6. CASE UNCHANGED Tracker!vars
  BY <1>1, <1>6 DEF Tracker!vars, TrackerInv
<1> QED
  BY <1>4, <1>5, <1>6 DEF Tracker!Next

\* What the proof of VolatilityTracked goes by, in every state.
LEMMA TrackerKept ==
    ASSUME Tracker!TrackerAssumption PROVE Tracker!Spec => []TrackerInv
<1>1. Tracker!Init => TrackerInv
  <2> SUFFICES ASSUME Tracker!Init PROVE TrackerInv
    OBVIOUS
  <2>1. state = <<>> /\ covariance = Ratio(FirstNoise, 1) /\ predictions = 0 /\ seen = <<>>
    BY TrackerReckons DEF Tracker!Init
  <2> QED
    BY <2>1, TracksFirst DEF TrackerInv
<1>2. TrackerInv /\ [Tracker!Next]_Tracker!vars => TrackerInv'
  BY TrackerKeeps
<1> QED
  BY <1>1, <1>2, PTL DEF Tracker!Spec

\* However predictions and updates follow each other, no other linear estimate is
\* nearer the volatility, and the covariance is what it is off by
\* (ukf_tracker.hpp:45-115).
THEOREM VolatilityTracked ==
    ASSUME Tracker!TrackerAssumption PROVE Tracker!Spec => []TrackingOptimal
<1>1. TrackerInv => TrackingOptimal
  BY TracksIsOptimal
<1> QED
  BY <1>1, TrackerKept, PTL

-----------------------------------------------------------------------------
(* Training: the rows of the two recursions count the ways through the states. *)

\* The sums of the library.
LEMMA SumsInTraining == ASSUME NEW f PROVE Training!SumFunction(f) = AddedUp(f)
BY Zenon DEF Training!SumFunction, Training!SumFunctionOnSet, Training!FoldFunctionOnSet,
             Training!MapThenFoldSet, AddedUp

Hidden == Training!States
Rows == [Hidden -> Nat]

\* A row of each recursion for the observations o and the transitions a, from
\* the rows f before it and from the rows b after it.
Into(a, row, j) == [i \in Hidden |-> row[i] * a[i][j]]
ForwardRow(o, a, f, t) ==
    [j \in Hidden |-> (IF t = 1 THEN 1 ELSE AddedUp(Into(a, f[t - 1], j))) * Emission[o[t]][j]]
Onward(o, a, b, n, i) ==
    [j \in Hidden |-> a[i][j] * Emission[o[Len(o) - Len(b) + n + 1]][j] * b[n + 1][j]]
BackwardRow(o, a, b, n) ==
    [i \in Hidden |-> IF n = Len(b) THEN 1 ELSE AddedUp(Onward(o, a, b, n, i))]

ForwardFilled(o, a, f) ==
    /\ f \in Seq(Rows) /\ Len(f) <= Len(o)
    /\ \A t \in 1..Len(f) : f[t] = ForwardRow(o, a, f, t)

BackwardFilled(o, a, b) ==
    /\ b \in Seq(Rows) /\ Len(b) <= Len(o)
    /\ \A n \in 1..Len(b) : b[n] = BackwardRow(o, a, b, n)

\* What follows from the rows.
Shares(o, f, b) == [t \in 1..Len(o) |-> [i \in Hidden |-> f[t][i] * b[t][i]]]
Moving(o, a, f, b) ==
    [t \in 1..(Len(o) - 1) |-> [i \in Hidden |-> [j \in Hidden |->
       f[t][i] * Onward(o, a, b, t, i)[j]]]]
Taught(o, g, x) ==
    [i \in Hidden |->
       [visits |-> AddedUp([t \in 1..(Len(o) - 1) |-> g[t][i]]),
        moves |-> [j \in Hidden |-> AddedUp([t \in 1..(Len(o) - 1) |-> x[t][i][j]])]]]

\* The rows are those of the recursions, and the rest follows from them.
TrainingInv ==
    /\ observations \in Seq(DOMAIN Emission) /\ Len(observations) \in Nat \ {0}
    /\ transition \in StartWeights
    /\ ForwardFilled(observations, transition, forward)
    /\ BackwardFilled(observations, transition, backward)
    /\ Len(backward) # 0 => Len(forward) = Len(observations)
    /\ \/ gamma = <<>> /\ xi = <<>> /\ learnt = <<>>
       \/ /\ Len(backward) = Len(observations)
          /\ gamma = Shares(observations, forward, backward)
          /\ xi = Moving(observations, transition, forward, backward)
          /\ learnt = <<>> \/ learnt = Taught(observations, gamma, xi)

LEMMA TrainingConstants ==
    ASSUME Training!TrainingAssumption
    PROVE  /\ Hidden # {} /\ IsFiniteSet(Hidden)
           /\ \A a \in StartWeights : a \in [Hidden -> Rows]
           /\ \A o \in DOMAIN Emission : Emission[o] \in Rows
<1>1. Hidden = 0..(HiddenStates - 1) /\ HiddenStates \in Nat \ {0}
  BY DEF Training!TrainingAssumption, Hidden, Training!States
<1>2. 0 \in Hidden
  BY <1>1
<1>3. IsFiniteSet(Hidden)
  BY <1>1, FS_Interval
<1> QED
  BY <1>2, <1>3 DEF Training!TrainingAssumption, Hidden, Rows

LEMMA TrainingFirst ==
    ASSUME Training!TrainingAssumption, Training!Init PROVE TrainingInv
<1>1. PICK n \in 1..MaxLength : observations \in [1..n -> DOMAIN Emission]
  BY DEF Training!Init
<1>2. n \in Nat \ {0}
  BY DEF Training!TrainingAssumption
<1>3. observations \in Seq(DOMAIN Emission) /\ Len(observations) \in Nat \ {0}
  BY <1>1, <1>2
<1>4. forward = <<>> /\ backward = <<>>
  BY DEF Training!Init
<1>5. /\ ForwardFilled(observations, transition, forward)
      /\ BackwardFilled(observations, transition, backward) /\ Len(backward) = 0
  BY <1>3, <1>4 DEF ForwardFilled, BackwardFilled
<1>6. transition \in StartWeights /\ gamma = <<>> /\ xi = <<>> /\ learnt = <<>>
  BY DEF Training!Init
<1> QED
  BY <1>3, <1>5, <1>6 DEF TrainingInv

\* One more row of each recursion.
LEMMA ForwardOn ==
    ASSUME Training!TrainingAssumption, NEW o \in Seq(DOMAIN Emission), NEW a \in StartWeights,
           NEW f, ForwardFilled(o, a, f), Len(f) < Len(o),
           NEW g, g = Append(f, ForwardRow(o, a, f, Len(f) + 1))
    PROVE  ForwardFilled(o, a, g)
<1>1. PICK t : t = Len(f) + 1
  OBVIOUS
<1>2. f \in Seq(Rows) /\ Len(f) \in Nat /\ Len(o) \in Nat
  BY DEF ForwardFilled
<1>3. t \in 1..Len(o) /\ o[t] \in DOMAIN Emission /\ t - 1 = Len(f)
  BY <1>1, <1>2
<1>4. ForwardRow(o, a, f, t) \in Rows
  <2>1. ASSUME NEW j \in Hidden, t # 1
        PROVE  AddedUp(Into(a, f[t - 1], j)) \in Nat
    <3>1. f[t - 1] \in Rows /\ a \in [Hidden -> Rows]
      BY <1>2, <1>3, <2>1, TrainingConstants
    <3>2. Into(a, f[t - 1], j) \in [Hidden -> Nat]
      BY <3>1 DEF Rows, Into
    <3> QED
      BY <3>2, AddedUpNatural, TrainingConstants
  <2>2. Emission[o[t]] \in [Hidden -> Nat]
    BY <1>3, TrainingConstants DEF Rows
  <2>3. ASSUME NEW j \in Hidden PROVE ForwardRow(o, a, f, t)[j] \in Nat
    BY <2>1, <2>2, <2>3 DEF ForwardRow
  <2>4. ForwardRow(o, a, f, t) = [j \in Hidden |-> ForwardRow(o, a, f, t)[j]]
    BY DEF ForwardRow
  <2> QED
    BY <2>3, <2>4 DEF Rows
<1>5. /\ g \in Seq(Rows) /\ Len(g) = t /\ g[t] = ForwardRow(o, a, f, t)
      /\ \A s \in 1..(t - 1) : g[s] = f[s]
  BY <1>1, <1>2, <1>4
<1>6. ASSUME NEW s \in 1..t PROVE g[s] = ForwardRow(o, a, g, s)
  <2>1. ForwardRow(o, a, g, s) = ForwardRow(o, a, f, s)
    <3>1. CASE s = 1
      BY <3>1 DEF ForwardRow
    <3>2. CASE s # 1
      <4>1. g[s - 1] = f[s - 1]
        BY <1>3, <1>5, <3>2
      <4> QED
        BY <4>1 DEF ForwardRow
    <3> QED
      BY <3>1, <3>2
  <2>2. CASE s = t
    BY <1>5, <2>1, <2>2
  <2>3. CASE s # t
    <3>1. s \in 1..(t - 1) /\ s \in 1..Len(f)
      BY <1>3, <2>3
    <3>2. f[s] = ForwardRow(o, a, f, s)
      BY <3>1 DEF ForwardFilled
    <3> QED
      BY <1>5, <2>1, <3>1, <3>2
  <2> QED
    BY <2>2, <2>3
<1> QED
  BY <1>3, <1>5, <1>6 DEF ForwardFilled

LEMMA BackwardOn ==
    ASSUME Training!TrainingAssumption, NEW o \in Seq(DOMAIN Emission), NEW a \in StartWeights,
           NEW b, BackwardFilled(o, a, b), Len(b) < Len(o), NEW row, NEW c, c = <<row>> \o b,
           row = [i \in Hidden |-> IF b = <<>> THEN 1
                                   ELSE AddedUp([j \in Hidden |->
                                     a[i][j] * Emission[o[Len(o) - Len(b) + 1]][j] * b[1][j]])]
    PROVE  BackwardFilled(o, a, c)
<1>1. b \in Seq(Rows) /\ Len(b) \in Nat /\ Len(o) \in Nat
  BY DEF BackwardFilled
<1>2. PICK t : t = Len(o) - Len(b)
  OBVIOUS
<1>3. t \in 1..Len(o) /\ (b # <<>> => t + 1 \in 1..Len(o) /\ o[t + 1] \in DOMAIN Emission)
  BY <1>1, <1>2
<1>4. row \in Rows
  <2>1. ASSUME NEW i \in Hidden, b # <<>>
        PROVE  AddedUp([j \in Hidden |-> a[i][j] * Emission[o[Len(o) - Len(b) + 1]][j] * b[1][j]])
                 \in Nat
    <3>1. b[1] \in Rows /\ a[i] \in Rows /\ Emission[o[t + 1]] \in Rows
      BY <1>1, <1>3, <2>1, TrainingConstants
    <3>2. ASSUME NEW j \in Hidden PROVE a[i][j] * Emission[o[t + 1]][j] * b[1][j] \in Nat
      <4>1. a[i][j] \in Nat /\ Emission[o[t + 1]][j] \in Nat /\ b[1][j] \in Nat
        BY <3>1 DEF Rows
      <4>2. ASSUME NEW x \in Nat, NEW y \in Nat, NEW z \in Nat PROVE x * y * z \in Nat
        OBVIOUS
      <4> QED
        BY <4>1, <4>2
    <3>3. [j \in Hidden |-> a[i][j] * Emission[o[t + 1]][j] * b[1][j]] \in [Hidden -> Nat]
      BY <3>2
    <3> QED
      BY <1>2, <3>3, AddedUpNatural, TrainingConstants
  <2>2. \A i \in Hidden : row[i] \in Nat
    BY <2>1
  <2> QED
    BY <2>2 DEF Rows
<1>5. /\ c \in Seq(Rows) /\ Len(c) = Len(b) + 1 /\ c[1] = row
      /\ \A n \in 1..Len(b) : c[n + 1] = b[n]
  BY <1>1, <1>4
<1>6. c[1] = BackwardRow(o, a, c, 1)
  <2>1. CASE b = <<>>
    <3>1. Len(c) = 1
      BY <1>5, <2>1
    <3> QED
      BY <1>5, <2>1, <3>1 DEF BackwardRow
  <2>2. CASE b # <<>>
    <3>1. Len(b) >= 1 /\ Len(c) # 1
      BY <1>1, <1>5, <2>2
    <3>2. c[2] = b[1] /\ 1 + 1 = 2 /\ Len(o) - Len(c) + 1 + 1 = Len(o) - Len(b) + 1
      BY <1>1, <1>5, <3>1
    <3>3. ASSUME NEW i \in Hidden
          PROVE  Onward(o, a, c, 1, i) = [j \in Hidden |->
                   a[i][j] * Emission[o[Len(o) - Len(b) + 1]][j] * b[1][j]]
      BY <3>2 DEF Onward
    <3> QED
      BY <1>5, <2>2, <3>1, <3>3 DEF BackwardRow
  <2> QED
    BY <2>1, <2>2
<1>7. ASSUME NEW n \in 1..Len(b) PROVE c[n + 1] = BackwardRow(o, a, c, n + 1)
  <2>1. b[n] = BackwardRow(o, a, b, n)
    BY DEF BackwardFilled
  <2>2. n + 1 = Len(c) <=> n = Len(b)
    BY <1>1, <1>5
  <2>3. ASSUME NEW i \in Hidden, n # Len(b) PROVE Onward(o, a, c, n + 1, i) = Onward(o, a, b, n, i)
    <3>1. n + 1 \in 1..Len(b)
      BY <1>1, <2>3
    <3>2. c[(n + 1) + 1] = b[n + 1]
      BY <1>5, <3>1
    <3>3. Len(o) - Len(c) + (n + 1) + 1 = Len(o) - Len(b) + n + 1
      BY <1>1, <1>5
    <3> QED
      BY <3>2, <3>3 DEF Onward
  <2>4. BackwardRow(o, a, c, n + 1) = BackwardRow(o, a, b, n)
    BY <2>2, <2>3 DEF BackwardRow
  <2> QED
    BY <1>5, <2>1, <2>4
<1>8. ASSUME NEW m \in 1..Len(c) PROVE c[m] = BackwardRow(o, a, c, m)
  <2>1. m = 1 \/ (m - 1 \in 1..Len(b) /\ (m - 1) + 1 = m)
    BY <1>1, <1>5
  <2> QED
    BY <1>6, <1>7, <2>1
<1>9. Len(c) <= Len(o)
  BY <1>1, <1>5
<1>10. \A n \in 1..Len(c) : c[n] = BackwardRow(o, a, c, n)
  BY <1>8
<1> QED
  BY <1>5, <1>9, <1>10 DEF BackwardFilled

\* A row that is filled has natural weights, and so have its moves.
LEMMA MovesTyped ==
    ASSUME Training!TrainingAssumption, NEW o \in Seq(DOMAIN Emission), NEW a \in StartWeights,
           NEW f, ForwardFilled(o, a, f), Len(f) = Len(o),
           NEW b, BackwardFilled(o, a, b), Len(b) = Len(o), NEW t \in 1..(Len(o) - 1)
    PROVE  /\ Moving(o, a, f, b)[t] \in [Hidden -> Rows]
           /\ \A i \in Hidden : /\ Onward(o, a, b, t, i) \in Rows /\ f[t][i] \in Nat
                               /\ \A j \in Hidden : /\ Moving(o, a, f, b)[t][i][j]
                                                       = f[t][i] * Onward(o, a, b, t, i)[j]
                                                  /\ Onward(o, a, b, t, i)[j]
                                                       = a[i][j] * Emission[o[t + 1]][j] * b[t + 1][j]
<1>1. /\ f[t] \in Rows /\ b[t + 1] \in Rows /\ a \in [Hidden -> Rows]
      /\ Emission[o[t + 1]] \in Rows /\ Len(o) - Len(b) + t + 1 = t + 1
  <2>1. Len(o) \in Nat /\ t \in 1..Len(f) /\ t + 1 \in 1..Len(b) /\ o[t + 1] \in DOMAIN Emission
    OBVIOUS
  <2> QED
    BY <2>1, TrainingConstants DEF ForwardFilled, BackwardFilled
<1>2. ASSUME NEW i \in Hidden, NEW j \in Hidden
      PROVE  /\ Onward(o, a, b, t, i)[j] = a[i][j] * Emission[o[t + 1]][j] * b[t + 1][j]
             /\ Onward(o, a, b, t, i)[j] \in Nat
             /\ Moving(o, a, f, b)[t][i][j] = f[t][i] * Onward(o, a, b, t, i)[j]
             /\ Moving(o, a, f, b)[t][i][j] \in Nat
  <2>1. /\ a[i][j] \in Nat /\ Emission[o[t + 1]][j] \in Nat /\ b[t + 1][j] \in Nat
        /\ f[t][i] \in Nat
    BY <1>1 DEF Rows
  <2>2. ASSUME NEW x \in Nat, NEW y \in Nat PROVE x * y \in Nat
    OBVIOUS
  <2>3. Onward(o, a, b, t, i)[j] = a[i][j] * Emission[o[t + 1]][j] * b[t + 1][j]
    BY <1>1 DEF Onward
  <2>4. Moving(o, a, f, b)[t][i][j] = f[t][i] * Onward(o, a, b, t, i)[j]
    BY DEF Moving
  <2>5. Onward(o, a, b, t, i)[j] \in Nat
    BY <2>1, <2>2, <2>3
  <2>6. f[t][i] * Onward(o, a, b, t, i)[j] \in Nat
    BY <2>1, <2>2, <2>5
  <2> QED
    BY <2>3, <2>4, <2>5, <2>6
<1>3. ASSUME NEW i \in Hidden PROVE Onward(o, a, b, t, i) \in Rows
  <2>1. Onward(o, a, b, t, i) = [j \in Hidden |-> Onward(o, a, b, t, i)[j]]
    BY DEF Onward
  <2> QED
    BY <1>2, <2>1 DEF Rows
<1>4. Moving(o, a, f, b)[t] \in [Hidden -> Rows]
  <2> DEFINE X == Moving(o, a, f, b)[t]
  <2>1. X = [i \in Hidden |-> X[i]] /\ \A i \in Hidden : X[i] = [j \in Hidden |-> X[i][j]]
    BY DEF Moving
  <2>2. \A i \in Hidden, j \in Hidden : X[i][j] \in Nat
    BY <1>2
  <2> HIDE DEF X
  <2>3. \A i \in Hidden : X[i] \in Rows
    BY <2>1, <2>2 DEF Rows
  <2>4. X \in [Hidden -> Rows]
    BY <2>1, <2>3
  <2> QED
    BY <2>4 DEF X
<1> QED
  BY <1>1, <1>2, <1>3, <1>4 DEF Rows

\* Every step keeps the rows those of the recursions.
LEMMA ForwardKeeps ==
    ASSUME Training!TrainingAssumption, TrainingInv, Training!Forward PROVE TrainingInv'
<1>1. /\ Len(forward) < Len(observations)
      /\ UNCHANGED <<observations, transition, backward, gamma, xi, learnt>>
  BY DEF Training!Forward, Training!T
<1>2. forward' = Append(forward, ForwardRow(observations, transition, forward, Len(forward) + 1))
  BY SumsInTraining DEF Training!Forward, ForwardRow, Into, Hidden
<1>3. /\ observations \in Seq(DOMAIN Emission) /\ Len(observations) \in Nat \ {0}
      /\ transition \in StartWeights /\ ForwardFilled(observations, transition, forward)
      /\ BackwardFilled(observations, transition, backward)
  BY DEF TrainingInv
<1>4. ForwardFilled(observations, transition, forward')
  BY <1>1, <1>2, <1>3, ForwardOn
<1>5. Len(backward) = 0 /\ gamma = <<>> /\ xi = <<>> /\ learnt = <<>>
  <2>1. Len(forward) \in Nat /\ Len(backward) \in Nat
    BY <1>3 DEF ForwardFilled, BackwardFilled
  <2> QED
    BY <1>1, <1>3, <2>1 DEF TrainingInv
<1> QED
  BY <1>1, <1>3, <1>4, <1>5 DEF TrainingInv

LEMMA BackwardKeeps ==
    ASSUME Training!TrainingAssumption, TrainingInv, Training!Backward PROVE TrainingInv'
<1> DEFINE L == Len(observations)
           Row == [i \in Hidden |-> IF backward = <<>> THEN 1
                    ELSE AddedUp([j \in Hidden |->
                           transition[i][j] * Emission[observations[L - Len(backward) + 1]][j]
                             * backward[1][j]])]
<1>1. /\ Len(forward) = L /\ Len(backward) < L
      /\ UNCHANGED <<observations, transition, forward, gamma, xi, learnt>>
  BY DEF Training!Backward, Training!T
<1>3. /\ observations \in Seq(DOMAIN Emission) /\ L \in Nat \ {0}
      /\ transition \in StartWeights /\ ForwardFilled(observations, transition, forward)
      /\ BackwardFilled(observations, transition, backward)
      /\ backward \in Seq(Rows) /\ Len(backward) \in Nat
  BY DEF TrainingInv, BackwardFilled
<1>2. backward' = <<Row>> \o backward
  <2>1. PICK t : t = L - Len(backward)
    OBVIOUS
  <2>2. backward' = <<[i \in Hidden |-> IF t = L THEN 1
                        ELSE AddedUp([j \in Hidden |-> Training!Ahead(t, i, j)])]>> \o backward
    BY <2>1, SumsInTraining DEF Training!Backward, Training!T, Hidden
  <2>3. t = L <=> backward = <<>>
    BY <1>3, <2>1
  <2>4. Len(backward) - (L - t) + 1 = 1
    BY <1>3, <2>1
  <2>5. ASSUME NEW i, NEW j
        PROVE  Training!Ahead(t, i, j)
                 = transition[i][j] * Emission[observations[L - Len(backward) + 1]][j] * backward[1][j]
    BY <2>1, <2>4 DEF Training!Ahead, Training!T
  <2>6. [i \in Hidden |-> IF t = L THEN 1
                        ELSE AddedUp([j \in Hidden |-> Training!Ahead(t, i, j)])] = Row
    BY <2>3, <2>5
  <2> QED
    BY <2>2, <2>6
<1>4. BackwardFilled(observations, transition, backward')
  <2> HIDE DEF Row
  <2>1. Len(backward) < Len(observations)
    BY <1>1
  <2>2. \E r : r = Row
    OBVIOUS
  <2>3. PICK r : r = Row
    BY <2>2
  <2>4. r = [i \in Hidden |-> IF backward = <<>> THEN 1
                    ELSE AddedUp([j \in Hidden |->
                           transition[i][j] * Emission[observations[Len(observations) - Len(backward) + 1]][j]
                             * backward[1][j]])]
    BY <2>3 DEF Row
  <2>5. backward' = <<r>> \o backward
    BY <1>2, <2>3
  <2> QED
    BY <1>3, <2>1, <2>4, <2>5, BackwardOn
<1>5. gamma = <<>> /\ xi = <<>> /\ learnt = <<>>
  BY <1>1, <1>3 DEF TrainingInv
<1> QED
  BY <1>1, <1>3, <1>4, <1>5 DEF TrainingInv

LEMMA ResponsibilitiesKeep ==
    ASSUME Training!TrainingAssumption, TrainingInv, Training!Responsibilities PROVE TrainingInv'
<1>1. /\ Len(backward) = Len(observations) /\ gamma = <<>>
      /\ UNCHANGED <<observations, transition, forward, backward, learnt>>
  BY DEF Training!Responsibilities, Training!T
<1>2. gamma' = Shares(observations, forward, backward)
  BY DEF Training!Responsibilities, Training!T, Shares, Hidden
<1>3. Len(observations) \in Nat \ {0}
  BY DEF TrainingInv
<1>4. xi' = Moving(observations, transition, forward, backward)
  <2>1. xi' = [t \in 1..(Len(observations) - 1) |-> [i \in Hidden |-> [j \in Hidden |->
                 forward[t][i] * Training!Ahead(t, i, j)]]]
    BY DEF Training!Responsibilities, Training!T, Hidden
  <2>2. ASSUME NEW t \in 1..(Len(observations) - 1), NEW i \in Hidden, NEW j \in Hidden
        PROVE  Training!Ahead(t, i, j) = Onward(observations, transition, backward, t, i)[j]
    <3>1. /\ Len(backward) - (Len(observations) - t) + 1 = t + 1
          /\ Len(observations) - Len(backward) + t + 1 = t + 1
      BY <1>1, <1>3
    <3> QED
      BY <3>1 DEF Training!Ahead, Training!T, Onward
  <2> QED
    BY <2>1, <2>2 DEF Moving
<1>5. learnt = <<>>
  <2>1. gamma # Shares(observations, forward, backward) \/ learnt = <<>>
    <3>1. 1 \in DOMAIN Shares(observations, forward, backward)
      BY <1>3 DEF Shares
    <3>2. Shares(observations, forward, backward) # <<>>
      BY <3>1
    <3> QED
      BY <1>1, <3>2
  <2> QED
    BY <2>1 DEF TrainingInv
<1>6. /\ Len(backward') = Len(observations')
      /\ gamma' = Shares(observations', forward', backward')
      /\ xi' = Moving(observations', transition', forward', backward') /\ learnt' = <<>>
  BY <1>1, <1>2, <1>4, <1>5
<1>7. /\ observations' \in Seq(DOMAIN Emission) /\ Len(observations') \in Nat \ {0}
      /\ transition' \in StartWeights
      /\ ForwardFilled(observations', transition', forward')
      /\ BackwardFilled(observations', transition', backward')
      /\ Len(backward') # 0 => Len(forward') = Len(observations')
  BY <1>1 DEF TrainingInv
<1> QED
  BY <1>6, <1>7 DEF TrainingInv

LEMMA LearningKeeps ==
    ASSUME Training!TrainingAssumption, TrainingInv, Training!Update PROVE TrainingInv'
<1>1. /\ gamma # <<>> /\ UNCHANGED <<observations, transition, forward, backward, gamma, xi>>
  BY DEF Training!Update
<1>2. learnt' = Taught(observations, gamma, xi)
  BY SumsInTraining DEF Training!Update, Training!Visits, Training!T, Taught, Hidden
<1>3. /\ Len(backward) = Len(observations)
      /\ gamma = Shares(observations, forward, backward)
      /\ xi = Moving(observations, transition, forward, backward)
  BY <1>1 DEF TrainingInv
<1>4. /\ Len(backward') = Len(observations')
      /\ gamma' = Shares(observations', forward', backward')
      /\ xi' = Moving(observations', transition', forward', backward')
      /\ learnt' = Taught(observations', gamma', xi')
  BY <1>1, <1>2, <1>3
<1>5. /\ observations' \in Seq(DOMAIN Emission) /\ Len(observations') \in Nat \ {0}
      /\ transition' \in StartWeights
      /\ ForwardFilled(observations', transition', forward')
      /\ BackwardFilled(observations', transition', backward')
      /\ Len(backward') # 0 => Len(forward') = Len(observations')
  BY <1>1 DEF TrainingInv
<1> QED
  BY <1>4, <1>5 DEF TrainingInv

\* The invariant of training.
LEMMA TrainingKept ==
    ASSUME Training!TrainingAssumption PROVE Training!Spec => []TrainingInv
<1>1. Training!Init => TrainingInv
  BY TrainingFirst
<1>2. TrainingInv /\ [Training!Next]_Training!vars => TrainingInv'
  <2>1. ASSUME TrainingInv, UNCHANGED Training!vars PROVE TrainingInv'
    <3>1. UNCHANGED <<observations, transition, forward, backward, gamma, xi, learnt>>
      BY <2>1 DEF Training!vars
    <3> QED
      BY <2>1, <3>1 DEF TrainingInv
  <2> QED
    BY <2>1, ForwardKeeps, BackwardKeeps, ResponsibilitiesKeep, LearningKeeps DEF Training!Next
<1> QED
  BY <1>1, <1>2, PTL DEF Training!Spec

Emitted(o) == [t \in 1..Len(o) |-> Emission[o[t]]]

\* Every way has a weight.
LEMMA WaysWeighed ==
    ASSUME Training!TrainingAssumption, NEW o \in Seq(DOMAIN Emission), Len(o) \in Nat \ {0},
           NEW a \in StartWeights
    PROVE  \E w : Weighing(Hidden, Len(o), a, Emitted(o), w)
<1>1. a \in [Hidden -> [Hidden -> Nat]] /\ IsFiniteSet(Hidden)
  BY TrainingConstants DEF Rows
<1>2. Emitted(o) \in [1..Len(o) -> [Hidden -> Nat]]
  BY TrainingConstants DEF Emitted, Rows
<1> QED
  BY <1>1, <1>2, AllWeighed

\* The reference weighs them the same.
LEMMA PathWeighs ==
    ASSUME Training!TrainingAssumption, TrainingInv,
           NEW w, Weighing(Hidden, Len(observations), transition, Emitted(observations), w),
           NEW p \in Ways(Hidden, Len(observations))
    PROVE  Training!PathWeight(transition, p) = w[p][Len(observations)]
<1> DEFINE L == Len(observations)
           along == CHOOSE g : g = [t \in 1..L |-> Emission[observations[t]][p[t]]
                                     * (IF t = 1 THEN 1
                                        ELSE g[t - 1] * transition[p[t - 1]][p[t]])]
<1>1. Training!PathWeight(transition, p) = along[L]
  BY Zenon DEF Training!PathWeight, Training!T
<1>2. L \in Nat \ {0} /\ observations \in Seq(DOMAIN Emission)
  BY DEF TrainingInv
<1>3. /\ w[p] \in [1..L -> Nat] /\ w[p][1] = Emission[observations[1]][p[1]]
      /\ \A s \in 1..(L - 1) : w[p][s + 1]
           = w[p][s] * (transition[p[s]][p[s + 1]] * Emission[observations[s + 1]][p[s + 1]])
  <2>1. Chained(w[p], 1, L, Links(transition, Emitted(observations), p, L))
    BY DEF Weighing
  <2>2. Emitted(observations)[1] = Emission[observations[1]]
    BY <1>2 DEF Emitted
  <2>3. ASSUME NEW s \in 1..(L - 1)
        PROVE  Links(transition, Emitted(observations), p, L)[s + 1]
                 = transition[p[s]][p[s + 1]] * Emission[observations[s + 1]][p[s + 1]]
    <3>1. s + 1 \in 1..L /\ s + 1 # 1 /\ (s + 1) - 1 = s
      BY <1>2
    <3> QED
      BY <3>1 DEF Links, Emitted
  <2> QED
    BY <2>1, <2>2, <2>3 DEF Chained, Weighing
<1>4. ASSUME NEW s \in 1..L PROVE Emission[observations[s]][p[s]] \in Nat
  <2>1. observations[s] \in DOMAIN Emission /\ p[s] \in Hidden
    BY <1>2 DEF Ways
  <2>2. Emission[observations[s]] \in [Hidden -> Nat]
    BY <2>1, TrainingConstants DEF Rows
  <2> QED
    BY <2>1, <2>2
<1>5. \A s \in 1..(L - 1) : transition[p[s]][p[s + 1]] \in Nat
  <2>1. \A s \in 1..(L - 1) : p[s] \in Hidden /\ p[s + 1] \in Hidden
    BY <1>2 DEF Ways
  <2> QED
    BY <2>1 DEF Weighing
<1> DEFINE RowOf(g) == g = [t \in 1..L |-> Emission[observations[t]][p[t]]
                                     * (IF t = 1 THEN 1
                                        ELSE g[t - 1] * transition[p[t - 1]][p[t]])]
<1>6. RowOf(w[p])
  <2> DEFINE v == [t \in 1..L |-> Emission[observations[t]][p[t]]
                                     * (IF t = 1 THEN 1
                                        ELSE w[p][t - 1] * transition[p[t - 1]][p[t]])]
  <2>1. ASSUME NEW t \in 1..L PROVE v[t] = w[p][t]
    <3>1. CASE t = 1
      <4>1. Emission[observations[1]][p[1]] * 1 = Emission[observations[1]][p[1]]
        BY <1>4, <3>1
      <4> QED
        BY <1>3, <3>1, <4>1
    <3>2. CASE t # 1
      <4>1. PICK s \in 1..(L - 1) : s = t - 1
        BY <1>2, <3>2
      <4>2. s + 1 = t
        BY <4>1
      <4>0. /\ w[p][s] \in Nat /\ transition[p[s]][p[s + 1]] \in Nat
            /\ Emission[observations[t]][p[t]] \in Nat
        <5>1. s \in 1..L
          BY <1>2
        <5> QED
          BY <1>3, <1>4, <1>5, <5>1
      <4>3. PICK x \in Nat, y \in Nat, z \in Nat :
              /\ x = w[p][s] /\ y = transition[p[s]][p[t]] /\ z = Emission[observations[t]][p[t]]
        BY <4>0, <4>2
      <4>4. x * (y * z) = z * (x * y)
        <5>1. ASSUME NEW l \in Nat, NEW m \in Nat, NEW n \in Nat PROVE l * (m * n) = n * (l * m)
          OBVIOUS
        <5> QED
          BY <5>1
      <4>5. w[p][t] = x * (y * z)
        BY <1>3, <4>2, <4>3
      <4>6. v[t] = z * (x * y)
        BY <3>2, <4>1, <4>3
      <4> QED
        BY <4>4, <4>5, <4>6
    <3> QED
      BY <3>1, <3>2
  <2>2. v = [t \in 1..L |-> v[t]] /\ w[p] = [t \in 1..L |-> w[p][t]]
    BY <1>3
  <2>3. v = w[p]
    <3> HIDE DEF v
    <3> QED
      BY <2>1, <2>2
  <2> QED
    BY <2>3
<1>7. RowOf(along)
  BY <1>6, Zenon
<1> HIDE DEF along
<1> DEFINE Z == {n \in 0..(L - 1) : along[n + 1] = w[p][n + 1]}
<1>8. 0 \in Z
  <2>1. 1 \in 1..L /\ 0 \in 0..(L - 1)
    BY <1>2
  <2>2. along[1] = Emission[observations[1]][p[1]] * 1
    BY <1>7, <2>1
  <2> QED
    BY <1>3, <1>4, <2>1, <2>2
<1>9. ASSUME NEW n \in 0..((L - 1) - 1), n \in Z PROVE n + 1 \in Z
  <2>1. PICK s \in 1..(L - 1) : s = n + 1
    BY <1>2
  <2>2. s + 1 \in 1..L /\ s + 1 # 1 /\ (s + 1) - 1 = s /\ s \in 0..(L - 1)
    BY <1>2
  <2>3. along[s] = w[p][s]
    BY <1>9, <2>1
  <2>4. along[s + 1] = Emission[observations[s + 1]][p[s + 1]]
                         * (along[s] * transition[p[s]][p[s + 1]])
    BY <1>7, <2>2
  <2>5. w[p][s + 1] = Emission[observations[s + 1]][p[s + 1]]
                         * (w[p][s] * transition[p[s]][p[s + 1]])
    BY <1>6, <2>2
  <2>6. along[s + 1] = w[p][s + 1]
    BY <2>3, <2>4, <2>5
  <2> QED
    BY <2>1, <2>2, <2>6
<1>10. \A n \in 0..(L - 1) : n \in Z
  <2> HIDE DEF Z
  <2>1. L - 1 \in Nat
    BY <1>2
  <2> QED
    BY <1>8, <1>9, <2>1, CountUp
<1>11. L - 1 \in 0..(L - 1) /\ (L - 1) + 1 = L
  BY <1>2
<1>12. along[(L - 1) + 1] = w[p][(L - 1) + 1]
  <2>1. L - 1 \in Z
    BY <1>10, <1>11
  <2> QED
    BY <2>1
<1> QED
  BY <1>1, <1>11, <1>12

\* The sums over ways of the reference.
LEMMA PathSums ==
    ASSUME Training!TrainingAssumption, TrainingInv,
           NEW w, Weighing(Hidden, Len(observations), transition, Emitted(observations), w),
           NEW A, A \subseteq Ways(Hidden, Len(observations))
    PROVE  Training!PathSum(A) = AddedUp(WeightsOf(A, w, Len(observations)))
<1>1. [p \in A |-> Training!PathWeight(transition, p)] = WeightsOf(A, w, Len(observations))
  BY PathWeighs DEF WeightsOf
<1> QED
  BY <1>1, SumsInTraining DEF Training!PathSum

\* The filled rows are those of the recursions over whole matrices.
LEMMA RowsRecur ==
    ASSUME Training!TrainingAssumption, TrainingInv, Len(backward) = Len(observations)
    PROVE  /\ Forwards(Hidden, Len(observations), transition, Emitted(observations), forward)
           /\ Backwards(Hidden, Len(observations), transition, Emitted(observations), backward)
<1> DEFINE L == Len(observations)
<1>1. /\ observations \in Seq(DOMAIN Emission) /\ L \in Nat \ {0} /\ transition \in StartWeights
      /\ ForwardFilled(observations, transition, forward) /\ Len(forward) = L
      /\ BackwardFilled(observations, transition, backward)
  BY DEF TrainingInv
<1>2. /\ forward \in [1..L -> Rows] /\ backward \in [1..L -> Rows]
  BY <1>1 DEF ForwardFilled, BackwardFilled
<1>3. \A t \in 1..L : Emitted(observations)[t] = Emission[observations[t]]
  BY DEF Emitted
<1>4. \A t \in 1..L : forward[t] = ForwardRow(observations, transition, forward, t)
  BY <1>1 DEF ForwardFilled
<1>5. \A t \in 1..L : backward[t] = BackwardRow(observations, transition, backward, t)
  BY <1>1 DEF BackwardFilled
<1>6. Forwards(Hidden, L, transition, Emitted(observations), forward)
  <2>1. ASSUME NEW j \in Hidden PROVE forward[1][j] = Emitted(observations)[1][j]
    <3>1. 1 \in 1..L /\ Emission[observations[1]][j] \in Nat
      BY <1>1, TrainingConstants DEF Rows
    <3>2. forward[1] = ForwardRow(observations, transition, forward, 1)
      BY <1>4, <3>1
    <3>3. ForwardRow(observations, transition, forward, 1)[j] = 1 * Emission[observations[1]][j]
      BY DEF ForwardRow
    <3>4. forward[1][j] = Emission[observations[1]][j]
      BY <3>1, <3>2, <3>3
    <3> QED
      BY <1>3, <3>1, <3>4
  <2>2. ASSUME NEW t \in 1..(L - 1), NEW j \in Hidden
        PROVE  forward[t + 1][j]
                 = AddedUp([i \in Hidden |-> forward[t][i] * transition[i][j]])
                     * Emitted(observations)[t + 1][j]
    <3>1. t + 1 \in 1..L /\ t + 1 # 1 /\ (t + 1) - 1 = t
      BY <1>1
    <3>2. forward[t + 1] = ForwardRow(observations, transition, forward, t + 1)
      BY <1>4, <3>1
    <3>3. ForwardRow(observations, transition, forward, t + 1)[j]
            = AddedUp(Into(transition, forward[t], j)) * Emission[observations[t + 1]][j]
      BY <3>1 DEF ForwardRow
    <3>4. Emitted(observations)[t + 1] = Emission[observations[t + 1]]
      BY <1>3, <3>1
    <3> QED
      BY <3>2, <3>3, <3>4 DEF Into
  <2> QED
    BY <1>2, <2>1, <2>2 DEF Forwards, Rows
<1>7. Backwards(Hidden, L, transition, Emitted(observations), backward)
  <2>1. ASSUME NEW i \in Hidden PROVE backward[L][i] = 1
    <3>1. L \in 1..L
      BY <1>1
    <3> QED
      BY <1>5, <3>1 DEF BackwardRow
  <2>2. ASSUME NEW t \in 1..(L - 1), NEW i \in Hidden
        PROVE  backward[t][i]
                 = AddedUp([j \in Hidden |-> transition[i][j] * Emitted(observations)[t + 1][j]
                                               * backward[t + 1][j]])
    <3>1. t \in 1..L /\ t + 1 \in 1..L /\ t # Len(backward)
          /\ Len(observations) - Len(backward) + t + 1 = t + 1
      BY <1>1
    <3>2. Emission[observations[t + 1]] = Emitted(observations)[t + 1]
      BY <1>3, <3>1
    <3>3. backward[t] = BackwardRow(observations, transition, backward, t)
      BY <1>5, <3>1
    <3>4. BackwardRow(observations, transition, backward, t)[i]
            = AddedUp(Onward(observations, transition, backward, t, i))
      BY <3>1 DEF BackwardRow
    <3>5. Onward(observations, transition, backward, t, i)
            = [j \in Hidden |-> transition[i][j] * Emitted(observations)[t + 1][j]
                                  * backward[t + 1][j]]
      BY <3>1, <3>2 DEF Onward
    <3> QED
      BY <3>3, <3>4, <3>5
  <2> QED
    BY <1>2, <2>1, <2>2 DEF Backwards, Rows
<1> QED
  BY <1>6, <1>7

LEMMA SharesCount ==
    ASSUME Training!TrainingAssumption, TrainingInv PROVE Training!SharesOfPaths
<1> DEFINE L == Len(observations)
<1> SUFFICES ASSUME gamma # <<>> PROVE
      /\ \A t \in 1..L, i \in Hidden :
           gamma[t][i] = Training!PathSum({p \in Ways(Hidden, L) : p[t] = i})
      /\ \A t \in 1..(L - 1), i \in Hidden, j \in Hidden :
           xi[t][i][j] = Training!PathSum({p \in Ways(Hidden, L) : p[t] = i /\ p[t + 1] = j})
  BY DEF Training!SharesOfPaths, Training!Paths, Training!T, Ways, Hidden
<1>1. /\ observations \in Seq(DOMAIN Emission) /\ L \in Nat \ {0} /\ transition \in StartWeights
      /\ ForwardFilled(observations, transition, forward) /\ Len(forward) = L
      /\ BackwardFilled(observations, transition, backward) /\ Len(backward) = L
      /\ gamma = Shares(observations, forward, backward)
      /\ xi = Moving(observations, transition, forward, backward)
  BY DEF TrainingInv
<1>2. PICK w : Weighing(Hidden, L, transition, Emitted(observations), w)
  BY <1>1, WaysWeighed
<1>3. /\ Forwards(Hidden, L, transition, Emitted(observations), forward)
      /\ Backwards(Hidden, L, transition, Emitted(observations), backward)
  BY <1>1, RowsRecur
<1>4. ASSUME NEW t \in 1..L, NEW i \in Hidden
      PROVE  gamma[t][i] = Training!PathSum({p \in Ways(Hidden, L) : p[t] = i})
  <2>1. AddedUp(WeightsOf({p \in Ways(Hidden, L) : p[t] = i}, w, L)) = forward[t][i] * backward[t][i]
    BY <1>2, <1>3, StateShares
  <2>2. Training!PathSum({p \in Ways(Hidden, L) : p[t] = i})
          = AddedUp(WeightsOf({p \in Ways(Hidden, L) : p[t] = i}, w, L))
    BY <1>2, PathSums
  <2>3. gamma[t][i] = forward[t][i] * backward[t][i]
    BY <1>1 DEF Shares
  <2> QED
    BY <2>1, <2>2, <2>3
<1>5. ASSUME NEW t \in 1..(L - 1), NEW i \in Hidden, NEW j \in Hidden
      PROVE  xi[t][i][j] = Training!PathSum({p \in Ways(Hidden, L) : p[t] = i /\ p[t + 1] = j})
  <2> DEFINE A == {p \in Ways(Hidden, L) : p[t] = i /\ p[t + 1] = j}
  <2>1. AddedUp(WeightsOf(A, w, L))
          = forward[t][i] * (transition[i][j] * Emitted(observations)[t + 1][j] * backward[t + 1][j])
    BY <1>2, <1>3, MoveShares
  <2>2. Training!PathSum(A) = AddedUp(WeightsOf(A, w, L))
    BY <1>2, PathSums
  <2>3. xi[t][i][j] = forward[t][i] * (transition[i][j] * Emission[observations[t + 1]][j]
                                         * backward[t + 1][j])
    BY <1>1, MovesTyped
  <2>4. Emitted(observations)[t + 1] = Emission[observations[t + 1]]
    BY <1>1 DEF Emitted
  <2> QED
    BY <2>1, <2>2, <2>3, <2>4
<1> QED
  BY <1>4, <1>5

\* A row times a number adds up to the number times what it added up to.
LEMMA RowScaled ==
    ASSUME Training!TrainingAssumption, NEW g \in [Hidden -> Int], NEW e \in [Hidden -> Int],
           NEW c \in Int, \A j \in Hidden : e[j] = c * g[j]
    PROVE  AddedUp(e) = c * AddedUp(g)
<1>1. IsFiniteSet(Hidden)
  BY TrainingConstants
<1>2. ASSUME NEW X, X = Hidden PROVE AddedUp(e) = c * AddedUp(g)
  <2>1. /\ IsFiniteSet(X) /\ g \in [X -> Int] /\ e \in [X -> Int]
        /\ \A j \in X : e[j] = c * g[j]
    BY <1>1, <1>2
  <2> QED
    BY <2>1, AddedUpScaled
<1> QED
  BY <1>2

\* Every row learnt is one of probabilities.
LEMMA RowsAddUp ==
    ASSUME Training!TrainingAssumption, TrainingInv, learnt # <<>>, NEW i \in Hidden
    PROVE  AddedUp(learnt[i].moves) = learnt[i].visits
<1> DEFINE L == Len(observations)
           X == 1..(L - 1)
           F == [t \in X |-> xi[t][i]]
<1>1. /\ observations \in Seq(DOMAIN Emission) /\ L \in Nat \ {0} /\ transition \in StartWeights
      /\ ForwardFilled(observations, transition, forward) /\ Len(forward) = L
      /\ BackwardFilled(observations, transition, backward) /\ Len(backward) = L
      /\ gamma = Shares(observations, forward, backward)
      /\ xi = Moving(observations, transition, forward, backward)
      /\ learnt = Taught(observations, gamma, xi)
  BY DEF TrainingInv
<1>2. IsFiniteSet(X) /\ IsFiniteSet(Hidden)
  BY <1>1, FS_Interval, TrainingConstants
<1>3. ASSUME NEW t \in X
      PROVE  xi[t][i] \in [Hidden -> Int] /\ gamma[t][i] = AddedUp(xi[t][i])
  <2>0. t \in 1..(Len(observations) - 1) /\ t \in 1..L /\ Len(forward) = Len(observations)
        /\ Len(backward) = Len(observations)
    BY <1>1
  <2> DEFINE G == Onward(observations, transition, backward, t, i)
  <2>1. /\ G \in Rows /\ forward[t][i] \in Nat
        /\ xi[t] \in [Hidden -> Rows]
        /\ \A j \in Hidden : xi[t][i][j] = forward[t][i] * G[j]
    BY <1>1, <2>0, MovesTyped
  <2>2. xi[t][i] \in Rows
    BY <2>1
  <2>3. xi[t][i] \in [Hidden -> Int] /\ G \in [Hidden -> Int] /\ forward[t][i] \in Int
    BY <2>1, <2>2 DEF Rows
  <2>4. AddedUp(xi[t][i]) = forward[t][i] * AddedUp(G)
    <3> HIDE DEF G
    <3>1. PICK g, e, c : g = G /\ e = xi[t][i] /\ c = forward[t][i]
      OBVIOUS
    <3>2. /\ g \in [Hidden -> Int] /\ e \in [Hidden -> Int] /\ c \in Int
          /\ \A j \in Hidden : e[j] = c * g[j]
      BY <2>1, <2>3, <3>1
    <3>3. AddedUp(e) = c * AddedUp(g)
      BY <3>2, RowScaled
    <3> QED
      BY <3>1, <3>3
  <2>5. backward[t][i] = AddedUp(G)
    <3>1. backward[t] = BackwardRow(observations, transition, backward, t) /\ t # Len(backward)
      BY <1>1, <2>0 DEF BackwardFilled
    <3> QED
      BY <3>1 DEF BackwardRow
  <2>6. gamma[t][i] = forward[t][i] * backward[t][i]
    BY <1>1, <2>0 DEF Shares
  <2> QED
    BY <2>3, <2>4, <2>5, <2>6
<1>4. F \in [X -> [Hidden -> Int]] /\ \A t \in X : F[t] = xi[t][i]
  BY <1>3
<1>5. learnt[i].moves = [j \in Hidden |-> AddedUp([t \in X |-> F[t][j]])]
  BY <1>1 DEF Taught
<1>6. learnt[i].visits = AddedUp([t \in X |-> AddedUp(F[t])])
  <2>1. learnt[i].visits = AddedUp([t \in X |-> gamma[t][i]])
    BY <1>1 DEF Taught
  <2>2. [t \in X |-> gamma[t][i]] = [t \in X |-> AddedUp(F[t])]
    BY <1>3
  <2> QED
    BY <2>1, <2>2
<1>7. AddedUp([t \in X |-> AddedUp(F[t])])
        = AddedUp([j \in Hidden |-> AddedUp([t \in X |-> F[t][j]])])
  <2> HIDE DEF F, X
  <2>1. F \in [X -> [Hidden -> Int]] /\ IsFiniteSet(X) /\ IsFiniteSet(Hidden)
    BY <1>2, <1>4
  <2>2. AddedUp(RowSums(X, F)) = AddedUp(ColumnSums(X, Hidden, F))
    BY <2>1, AddedUpExchanged
  <2> QED
    BY <2>2 DEF RowSums, ColumnSums
<1> QED
  BY <1>5, <1>6, <1>7

\* Training counts every path through the states, and what it learns are rows of
\* probabilities: the recursions, the responsibilities and the sums of lines
\* 270-351, for every number of states and observations and all weights.
THEOREM PathsStayCounted ==
    ASSUME Training!TrainingAssumption PROVE Training!Spec => []PathsCounted
<1>1. ASSUME TrainingInv PROVE PathsCounted
  <2>1. Training!SharesOfPaths
    BY <1>1, SharesCount
  <2>2. learnt # <<>> =>
          \A i \in Hidden : Training!SumFunction(learnt[i].moves) = learnt[i].visits
    BY <1>1, RowsAddUp, SumsInTraining
  <2> QED
    BY <2>1, <2>2 DEF PathsCounted, Training!PathsCounted, Hidden
<1> QED
  BY <1>1, TrainingKept, PTL

-----------------------------------------------------------------------------
(* What the estimates promise together, and what tells of damage. *)

\* The greeks are the slopes of the price, the running variance is that of the
\* returns, tails of the returns are in order, a hypothesis that is ahead stays
\* ahead, and new mixtures fit what their states are responsible for
\* (aad_greeks.hpp, law_of_large_numbers.hpp, advanced_risk_manager.hpp,
\* hypothesis_memory.hpp, dgmh_eigen.hpp).
THEOREM EstimatesStaySound ==
    ASSUME Greeks!GreeksAssumption, Numbers!NumbersAssumption, Risk!RiskAssumption,
           Memory!MemoryAssumption, Mixture!MixtureAssumption
    PROVE  Greeks!Spec /\ Numbers!Spec /\ Risk!Spec /\ Memory!Spec /\ Mixture!Spec
             => []EstimatesSound
<1>1. Greeks!Spec => []Greeks!GreeksRight
  BY GreeksAreSlopes
<1>2. Numbers!Spec => []Numbers!VarianceExact
  BY VariancesExact
<1>3. Risk!Spec => []Risk!TailsOrdered
  BY TailsInOrder
<1>4. Memory!Spec => []Memory!RankingKept
  BY RankingsKept
<1>5. Mixture!Spec => []Mixture!MixtureSound
  BY MixturesFit
<1> QED
  BY <1>1, <1>2, <1>3, <1>4, <1>5, PTL DEF EstimatesSound

\* The audit reports damaged canaries and accepts an unused live block; an order
\* with one byte changed is not taken for the one signed (canary_guard.hpp,
\* enclave_signer.hpp).
THEOREM DamageIsTold ==
    ASSUME Guard!GuardAssumption, Signer!SignerAssumption
    PROVE  Guard!Spec /\ Signer!Spec => []DamageTold
<1>1. Guard!Spec => []Guard!AuditTells
  BY AuditsTell
<1>2. Signer!Spec => []Signer!AlterationTold
  BY AlterationsTold
<1> QED
  BY <1>1, <1>2, PTL DEF DamageTold

-----------------------------------------------------------------------------
(* Types. *)

LEMMA TreeTyped ==
    ASSUME Tree!TreeAssumption PROVE Tree!Spec => []Tree!TypeOK
<1>1. TreeInv => Tree!TypeOK
  BY DEF TreeInv, Tree!TypeOK
<1> QED
  BY <1>1, TreeKept, PTL

LEMMA CacheTyped ==
    ASSUME Cache!CacheAssumption PROVE Cache!Spec => []Cache!TypeOK
<1>1. CacheInv => Cache!TypeOK
  BY DEF CacheInv, Cache!TypeOK
<1> QED
  BY <1>1, CacheKept, PTL

LEMMA CollarTyped ==
    ASSUME Collar!CollarAssumption PROVE Collar!Spec => []Collar!TypeOK
<1>1. CollarInv => Collar!TypeOK
  <2> SUFFICES ASSUME CollarInv PROVE Collar!TypeOK
    OBVIOUS
  <2>1. low < high
    <3>1. PICK width \in [0..Halvings -> 1..(Highest - Lowest)] : high - low = width[halved]
      BY DEF CollarInv, Halved
    <3>2. width[halved] \in 1..(Highest - Lowest) /\ Lowest \in Nat /\ Highest \in Nat
          /\ low \in Nat /\ high \in Nat
      BY <3>1, StrikesAre, PricesAre DEF CollarInv
    <3> QED
      BY <3>1, <3>2
  <2> QED
    BY <2>1 DEF CollarInv, Collar!TypeOK
<1> QED
  BY <1>1, CollarKept, PTL

LEMMA NumbersTyped ==
    ASSUME Numbers!NumbersAssumption PROVE Numbers!Spec => []Numbers!TypeOK
<1>1. NumbersInv => Numbers!TypeOK
  <2> SUFFICES ASSUME NumbersInv PROVE trade.shares \in Nat
    BY DEF NumbersInv, Numbers!TypeOK
  <2>1. ASSUME NEW a \in Nat, NEW t \in Nat, NEW g \in Int PROVE Numbers!Shares(a, t, g) \in Nat
    <3>1. CASE g <= 0
      BY <3>1 DEF Numbers!Shares
    <3>2. CASE g > 0
      <4>1. a * t \in Nat /\ 200 * g \in Nat \ {0}
        BY <3>2
      <4>2. (a * t) \div (200 * g) \in Nat
        BY <4>1, Quotients
      <4> QED
        BY <3>2, <4>2 DEF Numbers!Shares
    <3> QED
      BY <3>1, <3>2
  <2>2. CASE trade = Numbers!NoTrade
    BY <2>2 DEF Numbers!NoTrade
  <2>3. CASE /\ trade.account \in Nat /\ trade.gap \in Int
             /\ trade.shares = Numbers!Shares(trade.account, tier, trade.gap)
    <3>1. tier \in Nat
      BY DEF NumbersInv
    <3> QED
      BY <2>1, <2>3, <3>1
  <2> QED
    BY <2>2, <2>3 DEF NumbersInv
<1> QED
  BY <1>1, NumbersKept, PTL

LEMMA SizingTyped ==
    ASSUME Sizing!SizingAssumption PROVE Sizing!Spec => []Sizing!TypeOK
<1>1. Sizing!Init => Sizing!TypeOK
  <2>1. 0 \in 0..MaxPosition
    BY DEF Sizing!SizingAssumption
  <2>2. ASSUME Sizing!Init PROVE position = 0 /\ viable = FALSE /\ reasons = {}
    BY <2>2 DEF Sizing!Init
  <2> QED
    BY <2>1, <2>2 DEF Sizing!TypeOK
<1>2. Sizing!TypeOK /\ [Sizing!Next]_Sizing!sizingVars => Sizing!TypeOK'
  <2>1. ASSUME Sizing!TypeOK, UNCHANGED Sizing!sizingVars PROVE Sizing!TypeOK'
    BY <2>1 DEF Sizing!TypeOK, Sizing!sizingVars
  <2>2. ASSUME Sizing!Next PROVE Sizing!TypeOK'
    <3>0. PICK o \in Offered : \E first, second \in Sizing!BelowOnePercent(o) :
            /\ position' = Sizing!Position(o) /\ viable' = Sizing!Viable(o, first)
            /\ reasons' = IF Sizing!Viable(o, first) THEN {} ELSE Sizing!Reasons(o, second)
      BY <2>2 DEF Sizing!Next, Sizing!CalculateOptimalPosition, Sizing!Calls, Offered
    <3>1. PICK first, second \in Sizing!BelowOnePercent(o) :
            /\ position' = Sizing!Position(o) /\ viable' = Sizing!Viable(o, first)
            /\ reasons' = IF Sizing!Viable(o, first) THEN {} ELSE Sizing!Reasons(o, second)
      BY <3>0
    <3>2. Sizing!Position(o) \in 0..MaxPosition
      BY PositionIs, LimitsAre
    <3>3. Sizing!Viable(o, first) \in BOOLEAN
      BY DEF Sizing!Viable
    <3>4. Sizing!Reasons(o, second) \subseteq {"expected value", "ruin", "tail"}
      BY DEF Sizing!Reasons
    <3> QED
      BY <3>1, <3>2, <3>3, <3>4 DEF Sizing!TypeOK
  <2> QED
    BY <2>1, <2>2
<1> QED
  BY <1>1, <1>2, PTL DEF Sizing!Spec

LEMMA SignatureTyped ==
    ASSUME Signer!SignerAssumption PROVE Signer!Spec => []Signer!TypeOK
<1>1. ASSUME NEW d \in Signer!Payloads PROVE Signer!Signature(d) \in [Masks -> Hashes]
  <2>1. PICK u \in [Nat -> Hashes] : Signer!Hash(d) = u[PayloadLength]
    BY HashRuns
  <2>2. Signer!Hash(d) \in Hashes /\ \A m \in Masks : m \in Hashes
    BY <2>1 DEF Signer!SignerAssumption, Hashes
  <2>3. \A m \in Masks : Signer!Xor[<<Signer!Hash(d), m>>] \in Hashes
    BY <2>2, HashSteps
  <2> QED
    BY <2>3 DEF Signer!Signature
<1>2. Signer!Init => Signer!TypeOK
  BY <1>1 DEF Signer!Init, Signer!TypeOK, Hashes
<1>3. Signer!TypeOK /\ [Signer!Next]_Signer!vars => Signer!TypeOK'
  <2> SUFFICES ASSUME Signer!TypeOK, [Signer!Next]_Signer!vars PROVE Signer!TypeOK'
    OBVIOUS
  <2>1. CASE Signer!SignPayload
    BY <2>1, <1>1 DEF Signer!SignPayload, Signer!TypeOK, Hashes
  <2>2. CASE Signer!VerifySignature
    BY <2>2 DEF Signer!VerifySignature, Signer!TypeOK
  <2>3. ASSUME NEW n \in 1..PayloadLength, NEW b \in Bytes, Signer!Alter(n, b) PROVE Signer!TypeOK'
    BY <2>3 DEF Signer!Alter, Signer!TypeOK, Signer!Payloads
  <2>4. CASE UNCHANGED Signer!vars
    BY <2>4 DEF Signer!vars, Signer!TypeOK
  <2> QED
    BY <2>1, <2>2, <2>3, <2>4 DEF Signer!Next
<1> QED
  BY <1>2, <1>3, PTL DEF Signer!Spec

LEMMA LoopTyped ==
    ASSUME Allocator!LoopAssumption PROVE Allocator!Spec => []Allocator!TypeOK
<1>1. Allocator!Init => operations \in 0..NumOps
  BY DEF Allocator!Init, Allocator!LoopAssumption
<1>2. operations \in 0..NumOps /\ [Allocator!Next]_Allocator!vars => (operations \in 0..NumOps)'
  BY DEF Allocator!Next, Allocator!Operate, Allocator!Finish, Allocator!vars,
         Allocator!LoopAssumption
<1>3. ASSUME LoopInv, operations \in 0..NumOps PROVE Allocator!TypeOK
  <2>1. Allocator!Range(active) \subseteq Blocks
    BY <1>3 DEF LoopInv, Allocator!Range
  <2> QED
    BY <1>3, <2>1 DEF LoopInv, Allocator!TypeOK
<1> QED
  BY <1>1, <1>2, <1>3, LoopKept, PTL DEF Allocator!Spec

LEMMA TrackerTyped ==
    ASSUME Tracker!TrackerAssumption PROVE Tracker!Spec => []Tracker!TypeOK
<1>1. ASSUME TrackerInv PROVE Tracker!TypeOK
  <2>1. /\ state \in Seq(Reduced) /\ seen \in Seq(Nat) /\ Len(state) = Len(seen)
        /\ predictions \in Nat /\ covariance \in Reduced /\ covariance.n > 0
    BY <1>1 DEF TrackerInv, Tracks
  <2>2. Reduced \subseteq [n : Int, d : Nat \ {0}]
    BY DEF Reduced
  <2>3. state \in Seq([n : Int, d : Nat \ {0}])
    BY <2>1, <2>2, WiderSequence
  <2>4. covariance \in [n : Nat \ {0}, d : Nat \ {0}]
    BY <2>1, <2>2
  <2> QED
    BY <2>1, <2>3, <2>4 DEF Tracker!TypeOK
<1> QED
  BY <1>1, TrackerKept, PTL

LEMMA GuardTyped ==
    ASSUME Guard!GuardAssumption PROVE Guard!Spec => []Guard!TypeOK
<1>1. ASSUME Guard!Init PROVE Guard!TypeOK
  <2>1. DOMAIN word = Guard!Block /\ life = "raw" /\ generation = 0 /\ used = FALSE
    BY <1>1 DEF Guard!Init
  <2>2. 0 \in 0..MaxGeneration
    BY DEF Guard!GuardAssumption
  <2> QED
    BY <2>1, <2>2 DEF Guard!TypeOK
<1>2. Guard!TypeOK /\ [Guard!Next]_Guard!vars => Guard!TypeOK'
  <2> SUFFICES ASSUME Guard!TypeOK, [Guard!Next]_Guard!vars PROVE Guard!TypeOK'
    OBVIOUS
  <2>1. CASE Guard!Initialize
    <3>1. DOMAIN word' = Guard!Block
      BY <2>1 DEF Guard!Initialize, Guard!Initialized
    <3>2. generation' = generation + 1 /\ life' = "live" /\ used' = FALSE
      BY <2>1 DEF Guard!Initialize
    <3>3. generation' \in 0..MaxGeneration
      BY <2>1, <3>2 DEF Guard!Initialize, Guard!TypeOK, Guard!GuardAssumption
    <3> QED
      BY <3>1, <3>2, <3>3 DEF Guard!TypeOK
  <2>2. CASE Guard!MarkFreed
    BY <2>2 DEF Guard!MarkFreed, Guard!TypeOK
  <2>3. CASE Guard!Store
    BY <2>3 DEF Guard!Store, Guard!TypeOK
  <2>4. CASE Guard!Stray
    BY <2>4 DEF Guard!Stray, Guard!TypeOK
  <2>5. CASE UNCHANGED Guard!vars
    BY <2>5 DEF Guard!vars, Guard!TypeOK
  <2> QED
    BY <2>1, <2>2, <2>3, <2>4, <2>5 DEF Guard!Next
<1> QED
  BY <1>1, <1>2, PTL DEF Guard!Spec

LEMMA GreeksTyped ==
    ASSUME Greeks!GreeksAssumption PROVE Greeks!Spec => []Greeks!TypeOK
<1>1. ASSUME NEW o \in Greeks!Options, NEW h, h = Greeks!Hamiltonian(o)
      PROVE  h.gamma >= 0 /\ h.vega >= 0 /\ h.theta <= 0
  <2>1. CASE Greeks!Live(o)
    BY <1>1, <2>1, GreeksSigned
  <2>2. CASE ~Greeks!Live(o)
    BY <1>1, <2>2 DEF Greeks!Hamiltonian
  <2> QED
    BY <2>1, <2>2
<1>2. GreeksKept => Greeks!TypeOK
  BY <1>1 DEF GreeksKept, Greeks!TypeOK
<1> QED
  BY <1>2, GreeksStay, PTL

\* Of two options or fewer nothing is sorted.
HullSmall ==
    /\ offers \in Seq(Offers)
    /\ Hull!Small => hull \in Seq(Offers) /\ sorted = <<>>

LEMMA HullTyped ==
    ASSUME Hull!HullAssumption PROVE Hull!Spec => []Hull!TypeOK
<1>1. ASSUME Hull!Init PROVE HullSmall
  <2>1. PICK n \in 0..MaxOffers : offers \in [1..n -> Offers]
    BY <1>1 DEF Hull!Init
  <2>2. n \in Nat
    BY DEF Hull!HullAssumption
  <2>3. offers \in Seq(Offers) /\ <<>> \in Seq(Offers)
    BY <2>1, <2>2
  <2> QED
    BY <1>1, <2>3 DEF Hull!Init, HullSmall
<1>2. ASSUME HullInv, HullSmall, [Hull!Next]_(Hull!vars) PROVE HullSmall'
  <2>1. CASE Hull!ReturnSmall
    BY <1>2, <2>1 DEF Hull!ReturnSmall, HullSmall, Hull!Small
  <2>2. CASE Hull!Sort
    BY <1>2, <2>2 DEF Hull!Sort, HullSmall, Hull!Small
  <2>3. CASE Hull!Look
    <3>1. sorted # <<>>
      <4>1. looked \in 0..Len(sorted) /\ looked < Len(sorted)
        BY <1>2, <2>3 DEF Hull!Look, HullInv
      <4>2. Len(<<>>) = 0
        OBVIOUS
      <4> QED
        BY <4>1, <4>2
    <3> QED
      BY <1>2, <2>3, <3>1 DEF Hull!Look, HullSmall, Hull!Small
  <2>4. CASE UNCHANGED Hull!vars
    BY <1>2, <2>4 DEF Hull!vars, HullSmall, Hull!Small
  <2> QED
    BY <1>2, <2>1, <2>2, <2>3, <2>4 DEF Hull!Next
<1>3. ASSUME HullInv, HullSmall PROVE Hull!TypeOK
  <2>1. sorted \in Seq(Offers) /\ looked \in 0..Len(sorted)
    BY <1>3 DEF HullInv
  <2>2. CASE Hull!Small
    BY <1>3, <2>1, <2>2 DEF HullSmall, Hull!TypeOK
  <2>3. CASE ~Hull!Small
    BY <1>3, <2>1, <2>3 DEF HullInv, Hull!TypeOK
  <2> QED
    BY <2>2, <2>3
<1> QED
  BY <1>1, <1>2, <1>3, HullStays, PTL DEF Hull!Spec

\* Old components are fractions as well.
MixtureTypes ==
    LET Fraction == [n : Int, d : Nat \ {0}]
    IN components \in [1..Parts -> [weight : Fraction, mean : Fraction, covariance : Fraction,
                                    age : {"old", "new"}]]

LEMMA MixtureTyped ==
    ASSUME Mixture!MixtureAssumption PROVE Mixture!Spec => []Mixture!TypeOK
<1> DEFINE Fraction == [n : Int, d : Nat \ {0}]
           Typed == [weight : Fraction, mean : Fraction, covariance : Fraction,
                     age : {"old", "new"}]
<1>1. Reduced \subseteq Fraction
  BY DEF Reduced
<1>2. ASSUME Mixture!Init PROVE MixtureTypes
  <2>1. Ratio(1, Parts) \in Reduced /\ Mixture!Of(1) \in Reduced /\ Ratio(1, 1) \in Reduced
    <3>1. Parts \in Nat \ {0} /\ Readings[1] \in Int
      BY DEF Mixture!MixtureAssumption
    <3>2. Worth(Ratio(1, Parts), 1, Parts) /\ Ratio(Readings[1], 1) \in Reduced
          /\ Ratio(1, 1) \in Reduced
      BY <3>1, RatioIs, WholesAre
    <3>3. Mixture!Of(1) = Ratio(Readings[1], 1)
      BY MixtureReckons DEF Mixture!Of
    <3> QED
      BY <3>2, <3>3 DEF Worth
  <2>2. components = [m \in 1..Parts |-> [weight |-> Ratio(1, Parts), mean |-> Mixture!Of(1),
                                          covariance |-> Ratio(1, 1), age |-> "old"]]
    BY <1>2, MixtureReckons DEF Mixture!Init
  <2>3. [weight |-> Ratio(1, Parts), mean |-> Mixture!Of(1),
         covariance |-> Ratio(1, 1), age |-> "old"] \in Typed
    BY <1>1, <2>1
  <2> HIDE DEF Typed
  <2>4. components \in [1..Parts -> Typed]
    BY <2>2, <2>3
  <2> QED
    BY <2>4 DEF MixtureTypes, Typed
<1>3. ASSUME MixtureInv, MixtureTypes, [Mixture!Next]_(Mixture!vars) PROVE MixtureTypes'
  <2>1. CASE Mixture!UpdateComponent
    <3>1. component \in 1..Parts
      BY <1>3, <2>1 DEF Mixture!UpdateComponent, MixtureInv
    <3>2. PICK c : /\ c = [weight |-> Over(MassOf(component), ResponsibleSum),
                           mean |-> MeanOf(component),
                           covariance |-> Plus(SpreadOf(component), Least), age |-> "new"]
                   /\ components' = [components EXCEPT ![component] = c]
      BY <2>1, MixtureComputes, MixtureReckons DEF Mixture!UpdateComponent
    <3>3. ResponsibleSum.n > 0
      BY <2>1, MixtureComputes DEF Mixture!UpdateComponent
    <3>4. /\ Over(MassOf(component), ResponsibleSum) \in Reduced /\ MeanOf(component) \in Reduced
          /\ Plus(SpreadOf(component), Least) \in Reduced
      BY <1>3, <3>1, <3>3, WeightFits, MeanIs, SpreadFits
    <3>5. c \in Typed
      BY <1>1, <3>2, <3>4
    <3>6. components \in [1..Parts -> Typed]
      BY <1>3 DEF MixtureTypes
    <3> HIDE DEF Typed
    <3>7. components' \in [1..Parts -> Typed]
      BY <3>2, <3>5, <3>6
    <3> QED
      BY <3>7 DEF MixtureTypes, Typed
  <2>2. CASE Mixture!Skip
    BY <1>3, <2>2 DEF Mixture!Skip, MixtureTypes
  <2>3. CASE UNCHANGED Mixture!vars
    BY <1>3, <2>3 DEF Mixture!vars, MixtureTypes
  <2> QED
    BY <1>3, <2>1, <2>2, <2>3 DEF Mixture!Next
<1>4. ASSUME MixtureInv, MixtureTypes PROVE Mixture!TypeOK
  <2>1. components \in [1..Parts -> Typed] /\ Parts \in Nat
    BY <1>4 DEF MixtureTypes, Mixture!MixtureAssumption
  <2> HIDE DEF Typed
  <2>2. components \in Seq(Typed) /\ Len(components) = Parts
    BY <2>1
  <2>3. /\ responsible \in [1..Mixture!T -> Responsible] /\ gauss \in Tables /\ nig \in Tables
        /\ component \in 1..(Parts + 1)
    BY <1>4 DEF MixtureInv, Mixture!T
  <2> QED
    BY <2>2, <2>3 DEF Mixture!TypeOK, Typed
<1> QED
  BY <1>2, <1>3, <1>4, MixtureKept, PTL DEF Mixture!Spec

LEMMA RouterTyped ==
    ASSUME Router!RouterAssumption PROVE Router!Spec => []Router!TypeOK
<1>0. /\ NumBrokers \in Nat \ {0} /\ MaxBelief \in Nat \ {0} /\ Penalties \subseteq Nat
  BY DEF Router!RouterAssumption
<1>1. Router!Init => Router!TypeOK
  BY <1>0 DEF Router!Init, Router!TypeOK
<1>2. RouterInv /\ RouterInv' /\ Router!TypeOK /\ [Router!Next]_Router!vars => Router!TypeOK'
  <2> SUFFICES ASSUME RouterInv, Router!TypeOK, [Router!Next]_Router!vars PROVE Router!TypeOK'
    OBVIOUS
  <2>1. CASE UNCHANGED Router!vars
    <3>1. UNCHANGED <<alpha, beta, fragments>>
      BY <2>1 DEF Router!vars
    <3> QED
      BY <3>1 DEF Router!TypeOK
  <2>2. CASE Router!SplitOrder
    <3>1. PICK q \in Quantities, n \in 1..MaxFragments :
            \E route \in [1..n -> Router!SelectBestBroker] :
              fragments' = fragments \o
                [i \in 1..n |-> [order |-> Len(ordered) + 1, broker |-> route[i],
                                 quantity |-> Router!FragmentQuantity(q, n, i)]]
      BY <2>2 DEF Router!SplitOrder
    <3>2. PICK route \in [1..n -> Router!SelectBestBroker] :
              fragments' = fragments \o
                [i \in 1..n |-> [order |-> Len(ordered) + 1, broker |-> route[i],
                                 quantity |-> Router!FragmentQuantity(q, n, i)]]
      BY <3>1
    <3>3. Router!SelectBestBroker \subseteq Router!Brokers
      <4>1. ASSUME NEW b \in Router!Brokers PROVE b % ByteMod \in Router!Brokers
        <5>1. b \in Nat /\ b < NumBrokers /\ ByteMod \in Nat \ {0}
          BY <1>0 DEF Router!Brokers, Router!RouterAssumption
        <5>2. b % ByteMod \in Nat /\ b % ByteMod <= b
          <6>1. b % ByteMod \in Nat /\ b \div ByteMod \in Nat /\ b = ByteMod * (b \div ByteMod) + (b % ByteMod)
            BY <5>1, Quotients
          <6>2. ByteMod * (b \div ByteMod) \in Nat
            BY <5>1, <6>1
          <6> QED
            BY <5>1, <6>1, <6>2
        <5> QED
          BY <1>0, <5>1, <5>2 DEF Router!Brokers
      <4> QED
        BY <4>1 DEF Router!SelectBestBroker
    <3> DEFINE new == [i \in 1..n |-> [order |-> Len(ordered) + 1, broker |-> route[i],
                                       quantity |-> Router!FragmentQuantity(q, n, i)]]
    <3>4. n \in Nat
      BY DEF Router!RouterAssumption
    <3>5. \A i \in 1..n : new[i].broker \in Router!Brokers
      BY <3>3
    <3> DEFINE S == {fragments[i] : i \in 1..Len(fragments)} \cup {new[i] : i \in 1..n}
    <3>6. fragments \in Seq(S) /\ Len(fragments) \in Nat
      <4>1. fragments \in Seq(Fragment)
        BY DEF RouterInv
      <4>2. PICK m \in Nat : m = Len(fragments) /\ fragments \in [1..m -> Fragment]
        BY <4>1
      <4>3. fragments \in [1..m -> S]
        BY <4>2
      <4> QED
        BY <4>2, <4>3
    <3>7. new \in Seq(S) /\ Len(new) = n
      BY <3>4
    <3>8. fragments' = fragments \o new
      BY <3>2
    <3>9. \A i \in 1..Len(fragments) : fragments[i].broker \in Router!Brokers
      BY <3>6 DEF Router!TypeOK
    <3> HIDE DEF new, S
    <3>10. /\ fragments' \in Seq(S) /\ Len(fragments') = Len(fragments) + n
           /\ \A i \in 1..(Len(fragments) + n) :
                fragments'[i] = IF i <= Len(fragments) THEN fragments[i] ELSE new[i - Len(fragments)]
      BY <3>6, <3>7, <3>8, Joined
    <3>11. ASSUME NEW i \in DOMAIN fragments' PROVE fragments'[i].broker \in Router!Brokers
      <4>1. i \in 1..(Len(fragments) + n)
        BY <3>10
      <4>2. CASE i <= Len(fragments)
        <5>1. i \in 1..Len(fragments)
          BY <4>1, <4>2
        <5> QED
          BY <3>9, <3>10, <4>1, <4>2, <5>1
      <4>3. CASE ~(i <= Len(fragments))
        <5>1. i - Len(fragments) \in 1..n
          BY <3>4, <3>6, <4>1, <4>3
        <5> QED
          BY <3>5, <3>10, <4>1, <4>3, <5>1
      <4> QED
        BY <4>2, <4>3
    <3>12. UNCHANGED <<alpha, beta>>
      BY <2>2 DEF Router!SplitOrder
    <3> QED
      BY <3>11, <3>12 DEF Router!TypeOK
  <2>3. CASE Router!RecordExecution
    <3>1. PICK b \in {fragments[i].broker : i \in DOMAIN fragments} :
            /\ \/ alpha' = [alpha EXCEPT ![b] = @ + 1] /\ UNCHANGED beta
               \/ \E p \in Penalties :
                    beta' = [beta EXCEPT ![b] = @ + p] /\ UNCHANGED alpha
            /\ alpha'[b] <= MaxBelief /\ beta'[b] <= MaxBelief
            /\ UNCHANGED <<fragments, ordered>>
      BY <2>3 DEF Router!RecordExecution
    <3>2. b \in Router!Brokers
      BY DEF Router!TypeOK
    <3>3. CASE alpha' = [alpha EXCEPT ![b] = @ + 1] /\ UNCHANGED beta
      <4>1. alpha' \in [Router!Brokers -> 1..MaxBelief]
        BY <1>0, <3>1, <3>2, <3>3 DEF Router!TypeOK
      <4> QED
        BY <3>1, <3>3, <4>1 DEF Router!TypeOK
    <3>4. ASSUME NEW p \in Penalties, beta' = [beta EXCEPT ![b] = @ + p], UNCHANGED alpha
          PROVE  Router!TypeOK'
      <4>1. p \in Nat
        BY <1>0
      <4>2. beta' \in [Router!Brokers -> 1..MaxBelief]
        BY <1>0, <3>1, <3>2, <3>4, <4>1 DEF Router!TypeOK
      <4> QED
        BY <3>1, <3>4, <4>2 DEF Router!TypeOK
    <3> QED
      BY <3>1, <3>3, <3>4
  <2> QED
    BY <2>1, <2>2, <2>3 DEF Router!Next
<1> QED
  BY <1>1, <1>2, RouterKept, PTL DEF Router!Spec

LEMMA RegimeTyped ==
    ASSUME Regime!RegimeAssumption PROVE Regime!Spec => []Regime!TypeOK
<1> DEFINE Kinds == /\ log_transition \in Trainings \cup {Regime!Uniform}
                    /\ current_state \in Regime!States /\ change_detected \in BOOLEAN
                    /\ raising \in BOOLEAN /\ acknowledged \in Regime!States
<1>1. ASSUME NEW v \in [Regime!States -> Int]
      PROVE  /\ Regime!Normalised(v) \in [Regime!States -> Int] /\ Regime!Best(Regime!Normalised(v)) = 0
             /\ Regime!BestState(Regime!Normalised(v)) \in Regime!States
  <2> DEFINE w == Regime!Normalised(v)
  <2>1. PICK b \in Int : /\ b = Regime!Best(v) /\ \E i \in Regime!States : b = v[i]
                         /\ \A k \in Regime!States : v[k] <= b
    BY BestIs
  <2>2. w = [j \in Regime!States |-> v[j] - b]
    BY <2>1 DEF Regime!Normalised
  <2>3. w \in [Regime!States -> Int]
    BY <2>2
  <2> HIDE DEF w
  <2>4. PICK i \in Regime!States : Regime!Best(w) = w[i] /\ \A k \in Regime!States : w[k] <= Regime!Best(w)
    BY <2>3, BestIs
  <2>5. PICK k \in Regime!States : v[k] = b
    BY <2>1
  <2>6. w[k] = 0 /\ w[i] <= 0 /\ w[k] <= w[i] /\ w[i] \in Int
    <3>1. w[k] = v[k] - b /\ w[i] = v[i] - b /\ v[i] \in Int /\ v[i] <= b /\ w[k] <= w[i]
      BY <2>1, <2>2, <2>4
    <3> QED
      BY <2>5, <3>1
  <2>7. Regime!Best(w) = 0
    BY <2>4, <2>6
  <2>8. Regime!BestState(w) \in Regime!States
    <3> DEFINE S == {j \in Regime!States : w[j] = Regime!Best(w)}
    <3>1. i \in S /\ S \subseteq Nat
      BY <2>4 DEF Regime!States
    <3>2. \A j \in S : j \in Nat
      BY <3>1
    <3> HIDE DEF S
    <3>3. \E m \in S : \A j \in S : m <= j
      BY <3>1, <3>2, LeastNumber
    <3>4. Regime!Min(S) \in S
      BY <3>3 DEF Regime!Min
    <3> QED
      BY <3>4 DEF S, Regime!BestState
  <2> QED
    BY <2>3, <2>7, <2>8 DEF w
<1>2. RegimeInv => log_probs \in [Regime!States -> Int] /\ Regime!Best(log_probs) = 0
                    /\ Regime!BestState(log_probs) \in Regime!States
  BY <1>1 DEF RegimeInv
<1>3. Regime!Init => Kinds
  <2>1. 0 \in Regime!States
    BY DEF Regime!RegimeAssumption, Regime!States
  <2> QED
    BY <2>1 DEF Regime!Init
<1>4. RegimeInv /\ RegimeInv' /\ Kinds /\ [Regime!Next]_Regime!vars => Kinds'
  <2> SUFFICES ASSUME RegimeInv', Kinds, [Regime!Next]_Regime!vars PROVE Kinds'
    OBVIOUS
  <2>1. CASE UNCHANGED Regime!vars
    BY <2>1 DEF Regime!vars
  <2>2. ASSUME NEW o \in Observations, Regime!FilterOnline(o) PROVE Kinds'
    <3>1. /\ UNCHANGED <<log_transition, change_detected, acknowledged>>
          /\ \/ current_state' = Regime!BestState(log_probs') /\ raising' = TRUE
             \/ UNCHANGED <<current_state, raising>>
      BY <2>2 DEF Regime!FilterOnline
    <3>2. Regime!BestState(log_probs') \in Regime!States
      <4>1. PICK v \in [Regime!States -> Int] : log_probs' = Regime!Normalised(v)
        BY DEF RegimeInv
      <4> QED
        BY <1>1, <4>1
    <3> QED
      BY <3>1, <3>2
  <2>3. CASE Regime!RaiseFlag
    BY <2>3 DEF Regime!RaiseFlag
  <2>4. CASE Regime!ResetRegimeChangeFlag
    BY <2>4 DEF Regime!ResetRegimeChangeFlag
  <2>5. CASE Regime!Train
    BY <2>5 DEF Regime!Train
  <2> QED
    BY <2>1, <2>2, <2>3, <2>4, <2>5 DEF Regime!Next
<1>5. RegimeInv /\ Kinds => Regime!TypeOK
  BY <1>2 DEF Regime!TypeOK
<1> HIDE DEF Kinds
<1> QED
  BY <1>3, <1>4, <1>5, RegimeKept, PTL DEF Regime!Spec

\* A tail is an average of returns.
LEMMA TailTyped ==
    ASSUME Risk!RiskAssumption, NEW s \in Seq(Int), Len(s) <= MaxHistory,
           NEW tail \in Nat, tail < Whole
    PROVE  /\ Risk!Cvar(s, tail).sum \in Int /\ Risk!Cvar(s, tail).count \in 1..MaxHistory + 1
           /\ Risk!Var(s, tail).sum \in Int /\ Risk!Var(s, tail).count \in 1..MaxHistory + 1
<1>0. MaxHistory \in Nat /\ Whole \in Nat \ {0}
  BY DEF Risk!RiskAssumption
<1>1. CASE s = <<>>
  <2>1. Risk!Cvar(s, tail) = [sum |-> 0, count |-> 1] /\ Risk!Var(s, tail) = [sum |-> 0, count |-> 1]
    BY <1>1 DEF Risk!Cvar, Risk!Var, Risk!Nothing, Risk!Average
  <2> QED
    BY <1>0, <2>1
<1>2. CASE s # <<>>
  <2>1. PICK L \in Nat : L = Len(s) /\ L # 0 /\ L <= MaxHistory
    BY <1>2
  <2>2. PICK n \in 0..(L - 1) : n = Risk!TailIndex(s, tail)
    <3>1. L * tail \in Nat
      BY <2>1
    <3>2. PICK q \in Nat : q = (L * tail) \div Whole /\ Whole * q <= L * tail
      BY <1>0, <3>1, Quotient
    <3>3. ASSUME L <= q PROVE FALSE
      <4>1. Whole * L <= Whole * q
        BY <1>0, <3>3, ProductRises
      <4>2. L * (Whole - tail) >= 1
        BY <1>0, <2>1
      <4>3. L * (Whole - tail) = Whole * L - L * tail
        BY <1>0
      <4>4. Whole * L \in Int /\ Whole * q \in Int
        BY <1>0
      <4> QED
        BY <3>1, <3>2, <4>1, <4>2, <4>3, <4>4
    <3> QED
      BY <2>1, <3>2, <3>3 DEF Risk!TailIndex
  <2>3. s[1] \in Int /\ s[n + 1] \in Int
    BY <2>1
  <2>4. Risk!SumOfFirst(n, s) \in Int
    <3>1. PICK u \in [Nat -> Int] : \A k \in 0..Len(s) : Risk!SumOfFirst(k, s) = u[k]
      BY SumsOfFirst
    <3> QED
      BY <2>1, <3>1
  <2>5. Risk!Var(s, tail) = [sum |-> s[n + 1], count |-> 1]
    BY <1>2, <2>2 DEF Risk!Var, Risk!Average
  <2>6. Risk!Cvar(s, tail) = IF n = 0 THEN [sum |-> s[1], count |-> 1]
                             ELSE [sum |-> Risk!SumOfFirst(n, s), count |-> n]
    BY <1>2, <2>2 DEF Risk!Cvar, Risk!Average
  <2> QED
    BY <1>0, <2>1, <2>3, <2>4, <2>5, <2>6
<1> QED
  BY <1>1, <1>2

LEMMA RiskTyped ==
    ASSUME Risk!RiskAssumption PROVE Risk!Spec => []Risk!TypeOK
<1>0. /\ MaxHistory \in Nat /\ Tail95 \in Nat /\ Tail99 \in Nat /\ Tail95 < Whole /\ Tail99 < Whole
      /\ \A y \in Returns : y \in Int
  BY DEF Risk!RiskAssumption
<1>1. Risk!Init => Risk!TypeOK
  <2> SUFFICES ASSUME Risk!Init PROVE Risk!TypeOK
    OBVIOUS
  <2>1. \A m \in {"cvar95", "cvar99", "var95", "var99"} : metrics[m] = [sum |-> 0, count |-> 1]
    BY DEF Risk!Init, Risk!NoMetrics, Risk!Nothing, Risk!Average
  <2>2. history \in Seq(Returns)
    BY DEF Risk!Init
  <2> QED
    BY <1>0, <2>1, <2>2 DEF Risk!TypeOK
<1>2. Risk!TypeOK /\ [Risk!Next]_(Risk!vars) => Risk!TypeOK'
  <2>1. ASSUME Risk!TypeOK, UNCHANGED Risk!vars PROVE Risk!TypeOK'
    BY <2>1 DEF Risk!TypeOK, Risk!vars
  <2>2. ASSUME Risk!CalculateRiskMetrics PROVE Risk!TypeOK'
    <3>1. PICK n \in 0..MaxHistory : history' \in [1..n -> Returns]
      BY <2>2 DEF Risk!CalculateRiskMetrics
    <3>2. history' \in Seq(Int) /\ history' \in Seq(Returns) /\ Len(history') <= MaxHistory
      <4>1. n \in Nat /\ n <= MaxHistory
        BY <1>0, <3>1
      <4>2. history' \in [1..n -> Int]
        BY <1>0, <3>1
      <4> QED
        BY <3>1, <4>1, <4>2
    <3> DEFINE w == Risk!Sorted(history')
    <3>3. w \in Seq(Int) /\ Len(w) <= MaxHistory
      BY <3>2, SortedRises
    <3>4. /\ metrics'["cvar95"] = Risk!Cvar(w, Tail95) /\ metrics'["cvar99"] = Risk!Cvar(w, Tail99)
          /\ metrics'["var95"] = Risk!Var(w, Tail95) /\ metrics'["var99"] = Risk!Var(w, Tail99)
      BY <2>2 DEF Risk!CalculateRiskMetrics
    <3> HIDE DEF w
    <3>5. /\ metrics'["cvar95"].sum \in Int /\ metrics'["cvar95"].count \in 1..MaxHistory + 1
          /\ metrics'["var95"].sum \in Int /\ metrics'["var95"].count \in 1..MaxHistory + 1
      BY <1>0, <3>3, <3>4, TailTyped
    <3>6. /\ metrics'["cvar99"].sum \in Int /\ metrics'["cvar99"].count \in 1..MaxHistory + 1
          /\ metrics'["var99"].sum \in Int /\ metrics'["var99"].count \in 1..MaxHistory + 1
      BY <1>0, <3>3, <3>4, TailTyped
    <3> QED
      BY <3>2, <3>5, <3>6 DEF Risk!TypeOK
  <2> QED
    BY <2>1, <2>2 DEF Risk!Next
<1> QED
  BY <1>1, <1>2, PTL DEF Risk!Spec

\* The best k were asked for, no more than there were, each once.
Answered ==
    /\ asked.k \in Ks \cup {0}
    /\ Len(best) = (IF asked.k < asked.of THEN asked.k ELSE asked.of)
    /\ \A i, j \in DOMAIN best : best[i] = best[j] => i = j

LEMMA MemoryTyped ==
    ASSUME Memory!MemoryAssumption PROVE Memory!Spec => []Memory!TypeOK
<1>0. Ks \subseteq Nat
  BY DEF Memory!MemoryAssumption
<1>1. Memory!Init => Answered
  <2> SUFFICES ASSUME Memory!Init PROVE Answered
    OBVIOUS
  <2>1. best = <<>> /\ asked.k = 0 /\ asked.of = 0 /\ DOMAIN best = {}
    BY DEF Memory!Init
  <2> QED
    BY <2>1 DEF Answered
<1>2. MemoryKept /\ Answered /\ [Memory!Next]_Memory!vars => Answered'
  <2> SUFFICES ASSUME MemoryKept, Answered, [Memory!Next]_Memory!vars PROVE Answered'
    OBVIOUS
  <2>1. ASSUME UNCHANGED <<best, asked>> PROVE Answered'
    BY <2>1 DEF Answered
  <2>2. ASSUME NEW k \in Ks, Memory!GetTopK(k) PROVE Answered'
    <3>1. PICK r \in Memory!Rankings : best' = IF Len(r) > k THEN SubSeq(r, 1, k) ELSE r
      BY <2>2 DEF Memory!GetTopK
    <3>2. asked' = [k |-> k, of |-> Len(hypotheses)]
      BY <2>2 DEF Memory!GetTopK
    <3>3. PICK L \in Nat : L = Len(hypotheses) /\ DOMAIN hypotheses = 1..L
      BY DEF MemoryKept
    <3>4. r \in [1..L -> 1..L] /\ \A i, j \in 1..L : r[i] = r[j] => i = j
      <4>1. r \in Memory!Bijection(1..L, 1..L)
        <5>1. r \in Memory!Bijection(DOMAIN hypotheses, DOMAIN hypotheses)
          BY Zenon DEF Memory!Rankings
        <5> QED
          BY <3>3, <5>1
      <4> QED
        BY <4>1 DEF Memory!Bijection, Memory!Injection, Memory!IsInjective
    <3>5. r \in Seq(1..L) /\ Len(r) = L /\ k \in Nat
      BY <1>0, <3>4
    <3>6. asked'.k = k /\ asked'.of = L
      BY <3>2, <3>3
    <3>7. CASE L > k
      <4>1. best' = [i \in 1..k |-> r[i]] /\ k \in 0..L
        BY <3>1, <3>5, <3>7
      <4>2. Len(best') = k /\ DOMAIN best' = 1..k /\ \A i \in 1..k : i \in 1..L /\ best'[i] = r[i]
        BY <3>5, <4>1
      <4>3. \A i, j \in 1..k : best'[i] = best'[j] => i = j
        BY <3>4, <4>2
      <4> QED
        BY <3>5, <3>6, <3>7, <4>2, <4>3 DEF Answered
    <3>8. CASE ~(L > k)
      <4>1. best' = r /\ ~(k < L)
        BY <3>1, <3>5, <3>8
      <4>2. Len(best') = L /\ DOMAIN best' = 1..L
        BY <3>4, <3>5, <4>1
      <4> QED
        BY <3>4, <3>6, <4>1, <4>2 DEF Answered
    <3> QED
      BY <3>7, <3>8
  <2> QED
    BY <2>1, <2>2 DEF Memory!Next, Memory!vars, Memory!Tick, Memory!AddHypothesis
<1>3. MemoryKept /\ Answered => Memory!TypeOK
  <2> SUFFICES ASSUME MemoryKept, Answered PROVE Memory!TypeOK
    OBVIOUS
  <2>1. /\ now \in 0..MaxTime /\ hypotheses \in Seq([profit : Profits, at : 0..now])
        /\ asked.of \in 0..Len(hypotheses) /\ best \in Seq(1..asked.of)
    BY DEF MemoryKept
  <2>2. hypotheses \in Seq([profit : Profits, at : 0..MaxTime])
    <3>1. MaxTime \in Nat
      BY DEF Memory!MemoryAssumption
    <3>2. \A n \in 0..now : n \in 0..MaxTime
      BY <2>1, <3>1
    <3>3. [profit : Profits, at : 0..now] \subseteq [profit : Profits, at : 0..MaxTime]
      BY <3>2
    <3> QED
      BY <2>1, <3>3, WiderSequence, Zenon
  <2>3. Memory!IsInjective(best) /\ Memory!Range(best) \subseteq 1..asked.of
    <3>1. \A i \in DOMAIN best : best[i] \in 1..asked.of
      BY <2>1
    <3> QED
      BY <3>1 DEF Answered, Memory!IsInjective, Memory!Range
  <2> QED
    BY <2>1, <2>2, <2>3 DEF Answered, Memory!TypeOK
<1> QED
  BY <1>1, <1>2, <1>3, MemoryStays, PTL DEF Memory!Spec

LEMMA TrainingTyped ==
    ASSUME Training!TrainingAssumption PROVE Training!Spec => []Training!TypeOK
<1>1. TrainingInv => Training!TypeOK
  <2> SUFFICES ASSUME TrainingInv PROVE Training!TypeOK
    OBVIOUS
  <2>1. PICK L \in Nat : L = Len(observations) /\ observations \in Seq(DOMAIN Emission)
    BY DEF TrainingInv
  <2>2. transition \in StartWeights /\ forward \in Seq(Rows) /\ backward \in Seq(Rows)
    BY DEF TrainingInv, ForwardFilled, BackwardFilled
  <2>3. CASE gamma = <<>> /\ xi = <<>> /\ learnt = <<>>
    BY <2>2, <2>3 DEF Training!TypeOK, Rows, Hidden
  <2>4. CASE /\ Len(backward) = Len(observations)
             /\ gamma = Shares(observations, forward, backward)
             /\ xi = Moving(observations, transition, forward, backward)
             /\ learnt = <<>> \/ learnt = Taught(observations, gamma, xi)
    <3>0. Len(forward) = L /\ Len(backward) = L /\ L # 0
      BY <2>1, <2>4 DEF TrainingInv
    <3>1. gamma \in [1..L -> Rows]
      <4>1. ASSUME NEW t \in 1..L, NEW i \in Hidden PROVE forward[t][i] * backward[t][i] \in Nat
        <5>1. forward[t] \in Rows /\ backward[t] \in Rows
          BY <2>2, <3>0
        <5>2. forward[t][i] \in Nat /\ backward[t][i] \in Nat
          BY <5>1 DEF Rows
        <5> QED
          BY <5>2
      <4>2. gamma = [t \in 1..L |-> [i \in Hidden |-> forward[t][i] * backward[t][i]]]
        BY <2>1, <2>4 DEF Shares
      <4> QED
        BY <4>1, <4>2 DEF Rows
    <3>2. xi \in [1..(L - 1) -> [Hidden -> Rows]]
      <4>1. ASSUME NEW t \in 1..(L - 1) PROVE xi[t] \in [Hidden -> Rows]
        <5>1. ForwardFilled(observations, transition, forward)
              /\ BackwardFilled(observations, transition, backward)
          BY DEF TrainingInv
        <5> QED
          BY <2>1, <2>2, <2>4, <3>0, <5>1, MovesTyped
      <4>2. DOMAIN xi = 1..(L - 1) /\ xi = [t \in 1..(L - 1) |-> xi[t]]
        BY <2>1, <2>4 DEF Moving
      <4> QED
        BY <4>1, <4>2
    <3>3. gamma \in Seq(Rows) /\ xi \in Seq([Hidden -> Rows])
      <4>1. L - 1 \in Nat
        BY <3>0
      <4> QED
        BY <3>1, <3>2, <4>1
    <3>4. learnt = <<>> \/ learnt \in [Hidden -> [visits : Nat, moves : Rows]]
      <4>1. ASSUME NEW f \in [1..(L - 1) -> Nat]
            PROVE  AddedUp(f) \in Nat
        <5>1. IsFiniteSet(1..(L - 1))
          BY FS_Interval
        <5> QED
          BY <4>1, <5>1, AddedUpNatural
      <4>2. ASSUME NEW i \in Hidden PROVE AddedUp([t \in 1..(L - 1) |-> gamma[t][i]]) \in Nat
        <5>1. \A t \in 1..(L - 1) : gamma[t][i] \in Nat
          <6>1. \A t \in 1..(L - 1) : t \in 1..L
            OBVIOUS
          <6> QED
            BY <3>1, <6>1 DEF Rows
        <5> QED
          BY <4>1, <5>1
      <4>3. ASSUME NEW i \in Hidden, NEW j \in Hidden
            PROVE  AddedUp([t \in 1..(L - 1) |-> xi[t][i][j]]) \in Nat
        <5>1. \A t \in 1..(L - 1) : xi[t][i][j] \in Nat
          BY <3>2 DEF Rows
        <5> QED
          BY <4>1, <5>1
      <4>4. Taught(observations, gamma, xi) \in [Hidden -> [visits : Nat, moves : Rows]]
        <5>1. ASSUME NEW i \in Hidden
              PROVE  [j \in Hidden |-> AddedUp([t \in 1..(L - 1) |-> xi[t][i][j]])] \in Rows
          BY <4>3 DEF Rows
        <5> QED
          BY <2>1, <4>2, <5>1 DEF Taught
      <4> QED
        BY <2>4, <4>4
    <3> QED
      BY <2>2, <3>3, <3>4 DEF Training!TypeOK, Rows, Hidden
  <2> QED
    BY <2>3, <2>4 DEF TrainingInv
<1> QED
  BY <1>1, TrainingKept, PTL

\* Numbers of n options, in order.
Choices(s, n) == s \in Seq(1..n) /\ \A i, j \in DOMAIN s : i < j => s[i] < s[j]

LEMMA ChoicesGrow ==
    ASSUME NEW n \in Nat, NEW s, Choices(s, n)
    PROVE  Choices(s, n + 1) /\ Choices(Append(s, n + 1), n + 1)
<1>1. PICK L \in Nat : L = Len(s) /\ DOMAIN s = 1..L /\ \A i \in 1..L : s[i] \in 1..n
  BY DEF Choices
<1>2. s \in Seq(1..(n + 1))
  <2>1. 1..n \subseteq 1..(n + 1)
    OBVIOUS
  <2> QED
    BY <2>1, WiderSequence DEF Choices
<1>3. /\ Append(s, n + 1) \in Seq(1..(n + 1)) /\ DOMAIN Append(s, n + 1) = 1..(L + 1)
      /\ Append(s, n + 1)[L + 1] = n + 1 /\ \A i \in 1..L : Append(s, n + 1)[i] = s[i]
  BY <1>1, <1>2
<1>4. ASSUME NEW i \in 1..(L + 1), NEW j \in 1..(L + 1), i < j
      PROVE  Append(s, n + 1)[i] < Append(s, n + 1)[j]
  <2>1. i \in 1..L
    BY <1>1, <1>4
  <2>2. CASE j \in 1..L
    BY <1>1, <1>3, <1>4, <2>1, <2>2 DEF Choices
  <2>3. CASE j = L + 1
    BY <1>1, <1>3, <2>1, <2>3
  <2> QED
    BY <1>1, <2>2, <2>3
<1> QED
  BY <1>2, <1>3, <1>4 DEF Choices

ChoicesInv ==
    /\ DOMAIN dp = Knapsack!Cells
    /\ \A cell \in Knapsack!Cells : Choices(dp[cell].chosen, next - 1)
    /\ done \in BOOLEAN /\ isOptimal \in BOOLEAN /\ Choices(selected, Len(strategies))

LEMMA KnapsackTyped ==
    ASSUME Knapsack!KnapsackAssumption PROVE Knapsack!Spec => []Knapsack!TypeOK
<1>1. Knapsack!Init => ChoicesInv
  <2> SUFFICES ASSUME Knapsack!Init PROVE ChoicesInv
    OBVIOUS
  <2>1. \A n : Choices(<<>>, n)
    BY DEF Choices
  <2>2. /\ dp = [cell \in Knapsack!Cells |-> [value |-> 0, chosen |-> <<>>]]
        /\ done = FALSE /\ selected = <<>> /\ isOptimal = FALSE
    BY DEF Knapsack!Init
  <2> QED
    BY <2>1, <2>2 DEF ChoicesInv
<1>2. TableInv /\ ChoicesInv /\ [Knapsack!Next]_(Knapsack!vars) => ChoicesInv'
  <2> SUFFICES ASSUME TableInv, ChoicesInv, [Knapsack!Next]_(Knapsack!vars) PROVE ChoicesInv'
    OBVIOUS
  <2>0. next \in 1..(Len(strategies) + 1) /\ Len(strategies) \in Nat /\ budget \in Budgets
    BY DEF TableInv
  <2>1. ASSUME budget' = budget PROVE Knapsack!Cells' = Knapsack!Cells
    BY <2>1 DEF Knapsack!Cells, Knapsack!C, Knapsack!R
  <2>2. CASE UNCHANGED Knapsack!vars
    <3>1. UNCHANGED <<strategies, budget, next, dp, done, selected, isOptimal>>
      BY <2>2 DEF Knapsack!vars, Knapsack!result
    <3> QED
      BY <2>1, <3>1 DEF ChoicesInv
  <2>3. CASE Knapsack!Refuse
    <3>1. done' = TRUE /\ UNCHANGED <<strategies, budget, next, dp, selected, isOptimal>>
      BY <2>3 DEF Knapsack!Refuse
    <3> QED
      BY <2>1, <3>1 DEF ChoicesInv
  <2>4. CASE Knapsack!Consider
    <3>1. /\ next <= Len(strategies) /\ dp' = Knapsack!Round(next) /\ next' = next + 1
          /\ UNCHANGED <<strategies, budget, done, selected, isOptimal>>
      BY <2>4 DEF Knapsack!Consider, Knapsack!result
    <3>2. PICK n \in Nat : n = next - 1 /\ n + 1 = next /\ next' - 1 = n + 1
      BY <2>0, <3>1
    <3>3. ASSUME NEW cell \in Knapsack!Cells PROVE Choices(dp'[cell].chosen, n + 1)
      <4> DEFINE from == Knapsack!From(cell, next)
                 G == from \in Knapsack!Cells
                        /\ dp[from].value + strategies[next].premium > dp[cell].value
      <4>1. dp'[cell] = IF G THEN [value |-> dp[from].value + strategies[next].premium,
                                   chosen |-> Append(dp[from].chosen, next)]
                        ELSE dp[cell]
        BY <3>1 DEF Knapsack!Round
      <4>2. Choices(dp[cell].chosen, n)
        BY <3>2 DEF ChoicesInv
      <4>3. from \in Knapsack!Cells => Choices(dp[from].chosen, n)
        BY <3>2 DEF ChoicesInv
      <4> HIDE DEF from
      <4>4. CASE G
        <5>1. dp'[cell].chosen = Append(dp[from].chosen, n + 1) /\ from \in Knapsack!Cells
          BY <3>2, <4>1, <4>4
        <5> QED
          BY <4>3, <5>1, ChoicesGrow
      <4>5. CASE ~G
        <5>1. dp'[cell] = dp[cell]
          BY <4>1, <4>5
        <5> QED
          BY <4>2, <5>1, ChoicesGrow
      <4> QED
        BY <4>4, <4>5
    <3>4. DOMAIN dp' = Knapsack!Cells
      BY <3>1 DEF Knapsack!Round
    <3> QED
      BY <2>1, <3>1, <3>2, <3>3, <3>4 DEF ChoicesInv
  <2>5. CASE Knapsack!Select
    <3>1. /\ ~Knapsack!EmptyCall /\ next > Len(strategies) /\ done' = TRUE
          /\ selected' = dp[<<Knapsack!C, Knapsack!R>>].chosen
          /\ UNCHANGED <<strategies, budget, next, dp>>
      BY <2>5 DEF Knapsack!Select
    <3>2. isOptimal' \in BOOLEAN
      BY <2>5, Zenon DEF Knapsack!Select
    <3>3. <<Knapsack!C, Knapsack!R>> \in Knapsack!Cells
      <4>1. /\ budget[1] \in Nat /\ budget[2] \in Nat
            /\ CapitalUnit \in Nat \ {0} /\ RiskUnit \in Nat \ {0}
        BY <2>0, <3>1 DEF Knapsack!EmptyCall, Knapsack!KnapsackAssumption
      <4>2. Knapsack!C \in Nat /\ Knapsack!R \in Nat
        BY <4>1, Quotients DEF Knapsack!C, Knapsack!R
      <4> QED
        BY <4>2 DEF Knapsack!Cells
    <3>4. next - 1 = Len(strategies)
      BY <2>0, <3>1
    <3>5. Choices(selected', Len(strategies))
      BY <3>1, <3>3, <3>4 DEF ChoicesInv
    <3> QED
      BY <2>1, <3>1, <3>2, <3>5 DEF ChoicesInv
  <2> QED
    BY <2>2, <2>3, <2>4, <2>5 DEF Knapsack!Next
<1>3. TableInv /\ ChoicesInv => Knapsack!TypeOK
  <2> SUFFICES ASSUME TableInv, ChoicesInv PROVE Knapsack!TypeOK
    OBVIOUS
  <2>1. next \in 1..(Len(strategies) + 1)
    BY DEF TableInv
  <2>2. \A cell \in Knapsack!Cells : dp[cell].value \in Int
    BY DEF TableInv, HoldsBest
  <2>3. \A s, n : Choices(s, n) => s \in Seq(1..n) /\ Knapsack!Increasing(s)
    BY DEF Choices, Knapsack!Increasing
  <2> QED
    BY <2>1, <2>2, <2>3 DEF ChoicesInv, Knapsack!TypeOK
<1> QED
  BY <1>1, <1>2, <1>3, TableKept, PTL DEF Knapsack!Spec

\* What StructureInv leaves out of the table.
CellsInv ==
    /\ required \in 0..MaxRequired /\ nextLeg \in 1..(Len(legs) + 1)
    /\ answer \in {"pending", "nullopt", "structure"}
    /\ \A w \in Structure!Weights :
         /\ table[w].leg \in 0..(nextLeg - 1) /\ table[w].count \in 0..required
         /\ table[w].parent \in Structure!Weights

LEMMA StructureTyped ==
    ASSUME Structure!LegAssumption PROVE Structure!Spec => []Structure!TypeOK
<1>0. W \in Nat /\ MaxRequired \in Nat /\ Structure!Weights = 0..W
  BY DEF Structure!LegAssumption, Structure!Weights
<1>1. Structure!Init => CellsInv
  <2> SUFFICES ASSUME Structure!Init PROVE CellsInv
    OBVIOUS
  <2>1. /\ required \in 0..MaxRequired /\ nextLeg = 1 /\ answer = "pending"
        /\ table = [w \in Structure!Weights |-> [Structure!Unreached EXCEPT !.reached = (w = 0)]]
    BY DEF Structure!Init
  <2>2. \A w \in Structure!Weights : table[w].leg = 0 /\ table[w].count = 0 /\ table[w].parent = 0
    BY <2>1 DEF Structure!Unreached, Structure!NoLeg
  <2>3. Len(legs) \in Nat
    BY StructureFirst DEF StructureInv, LegsTyped
  <2>4. nextLeg \in 1..(Len(legs) + 1) /\ 0 \in 0..(nextLeg - 1) /\ 0 \in 0..required
        /\ 0 \in Structure!Weights
    BY <1>0, <2>1, <2>3
  <2> QED
    BY <2>1, <2>2, <2>4 DEF CellsInv
<1>2. StructureInv /\ CellsInv /\ [Structure!Next]_(Structure!vars) => CellsInv'
  <2> SUFFICES ASSUME StructureInv, CellsInv, [Structure!Next]_(Structure!vars) PROVE CellsInv'
    OBVIOUS
  <2>0. Len(legs) \in Nat
    BY DEF StructureInv, LegsTyped
  <2>1. ASSUME UNCHANGED <<legs, required, nextLeg, table>>,
               answer' \in {"pending", "nullopt", "structure"}
        PROVE  CellsInv'
    BY <2>1 DEF CellsInv, Structure!Weights
  <2>2. UNCHANGED Structure!vars \/ Structure!RefuseLegs \/ Structure!NothingFits \/ Structure!Backtrack
           => /\ UNCHANGED <<legs, required, nextLeg, table>>
              /\ answer' \in {"pending", "nullopt", "structure"}
    <3>1. UNCHANGED Structure!vars => UNCHANGED <<legs, required, nextLeg, table, answer>>
      BY DEF Structure!vars
    <3>2. Structure!RefuseLegs \/ Structure!NothingFits \/ Structure!Backtrack
             => UNCHANGED <<legs, required, nextLeg, table>>
      BY DEF Structure!RefuseLegs, Structure!NothingFits, Structure!Backtrack
    <3>3. Structure!RefuseLegs \/ Structure!NothingFits => answer' = "nullopt"
      BY DEF Structure!RefuseLegs, Structure!NothingFits
    <3>4. Structure!Backtrack => answer' \in {"nullopt", "structure"}
      BY Zenon DEF Structure!Backtrack
    <3> QED
      BY <3>1, <3>2, <3>3, <3>4 DEF CellsInv
  <2>3. CASE Structure!ConsiderLeg
    <3>1. /\ nextLeg <= Len(legs) /\ nextLeg' = nextLeg + 1
          /\ UNCHANGED <<legs, required, answer>>
          /\ table' = IF Structure!Weight(nextLeg) \in 1..W
                      THEN [w \in Structure!Weights |-> Structure!WithLeg(nextLeg, w)]
                      ELSE table
      BY <2>3 DEF Structure!ConsiderLeg
    <3>2. nextLeg \in Nat /\ nextLeg > 0 /\ required \in Nat /\ nextLeg' \in 1..(Len(legs) + 1)
      BY <2>0, <3>1 DEF CellsInv
    <3>3. ASSUME NEW w \in Structure!Weights
          PROVE  /\ table[w].leg \in 0..(nextLeg' - 1) /\ table[w].count \in 0..required
                 /\ table[w].parent \in Structure!Weights
      BY <3>1, <3>2 DEF CellsInv
    <3>4. ASSUME NEW w \in Structure!Weights
          PROVE  /\ table'[w].leg \in 0..(nextLeg' - 1) /\ table'[w].count \in 0..required
                 /\ table'[w].parent \in Structure!Weights
      <4> DEFINE q == Structure!Weight(nextLeg)
                 from == table[w - q]
                 new == [reached |-> TRUE, score |-> from.score + legs[nextLeg].score,
                         leg |-> nextLeg, parent |-> w - q, count |-> from.count + 1]
                 G == w >= q /\ from.reached /\ from.count + 1 <= required
                        /\ Structure!Improves(new, table[w])
      <4>1. CASE q \in 1..W
        <5>1. table'[w] = Structure!WithLeg(nextLeg, w)
          BY <3>1, <4>1
        <5>2. table'[w] = IF G THEN new ELSE table[w]
          BY <5>1, Zenon DEF Structure!WithLeg
        <5>3. CASE G
          <6>1. table'[w] = new /\ w >= q /\ from.count + 1 <= required
            BY <5>2, <5>3, Zenon
          <6>2. new.leg = nextLeg /\ new.parent = w - q /\ new.count = from.count + 1
            OBVIOUS
          <6> HIDE DEF new
          <6>3. w - q \in Structure!Weights
            <7> HIDE DEF q
            <7> QED
              BY <1>0, <4>1, <6>1
          <6>4. from.count \in Nat
            <7>1. from.count \in 0..required
              BY <6>3 DEF CellsInv
            <7> QED
              BY <3>2, <7>1
          <6> HIDE DEF from
          <6>5. from.count + 1 \in 0..required /\ nextLeg \in 0..(nextLeg' - 1)
            BY <3>1, <3>2, <6>1, <6>4
          <6> QED
            BY <6>1, <6>2, <6>3, <6>5
        <5>4. CASE ~G
          <6>1. table'[w] = table[w]
            BY <5>2, <5>4, Zenon
          <6> QED
            BY <3>3, <6>1
        <5> QED
          BY <5>3, <5>4, Zenon
      <4>2. CASE q \notin 1..W
        <5>1. table' = table
          BY <3>1, <4>2
        <5> QED
          BY <3>3, <5>1
      <4> QED
        BY <4>1, <4>2
    <3> QED
      BY <3>1, <3>2, <3>4 DEF CellsInv, Structure!Weights
  <2> QED
    BY <2>1, <2>2, <2>3 DEF Structure!Next
<1>3. StructureInv /\ CellsInv => Structure!TypeOK
  <2> SUFFICES ASSUME StructureInv, CellsInv PROVE Structure!TypeOK
    OBVIOUS
  <2>1. \A w \in Structure!Weights : Linked(table, w) /\ LegsTyped
    BY DEF StructureInv
  <2>2. \A w \in Structure!Weights :
          /\ table[w].reached \in BOOLEAN /\ table[w].score \in Int
          /\ table[w].leg # 0 => table[w].parent < w
    BY <2>1, LinkedParent DEF Linked
  <2>3. structure \in Seq(1..Len(legs))
    BY DEF StructureInv, LegNumbers
  <2> QED
    BY <2>2, <2>3 DEF CellsInv, Structure!TypeOK, Structure!NoLeg
<1> QED
  BY <1>1, <1>2, <1>3, StructureKept, PTL DEF Structure!Spec

\* Every variable of every component stays what its TypeOK says: indices within
\* their sequences, pointers within their tables, states among the states.
THEOREM TypesKept ==
    ASSUME Knapsack!KnapsackAssumption, Hull!HullAssumption, Structure!LegAssumption,
           Cache!CacheAssumption, Allocator!LoopAssumption, Guard!GuardAssumption,
           Collar!CollarAssumption, Tree!TreeAssumption, Sizing!SizingAssumption,
           Numbers!NumbersAssumption, Router!RouterAssumption, Regime!RegimeAssumption,
           Risk!RiskAssumption, Greeks!GreeksAssumption, Memory!MemoryAssumption,
           Signer!SignerAssumption, Tracker!TrackerAssumption, Mixture!MixtureAssumption,
           Training!TrainingAssumption
    PROVE  /\ Knapsack!Spec /\ Hull!Spec /\ Structure!Spec /\ Tree!Spec /\ Cache!Spec
           /\ Guard!Spec /\ Regime!Spec /\ Router!Spec /\ Risk!Spec /\ Collar!Spec
           /\ Sizing!Spec /\ Training!Spec /\ Mixture!Spec /\ Tracker!Spec /\ Greeks!Spec
           /\ Numbers!Spec /\ Memory!Spec /\ Allocator!Spec /\ Signer!Spec
           => []AllTypeOK
<1>1. /\ Knapsack!Spec => []Knapsack!TypeOK
      /\ Hull!Spec => []Hull!TypeOK
      /\ Structure!Spec => []Structure!TypeOK
      /\ Tree!Spec => []Tree!TypeOK
      /\ Cache!Spec => []Cache!TypeOK
      /\ Guard!Spec => []Guard!TypeOK
  BY KnapsackTyped, HullTyped, StructureTyped, TreeTyped, CacheTyped, GuardTyped
<1>2. /\ Regime!Spec => []Regime!TypeOK
      /\ Router!Spec => []Router!TypeOK
      /\ Risk!Spec => []Risk!TypeOK
      /\ Collar!Spec => []Collar!TypeOK
      /\ Sizing!Spec => []Sizing!TypeOK
      /\ Training!Spec => []Training!TypeOK
  BY RegimeTyped, RouterTyped, RiskTyped, CollarTyped, SizingTyped, TrainingTyped
<1>3. /\ Mixture!Spec => []Mixture!TypeOK
      /\ Tracker!Spec => []Tracker!TypeOK
      /\ Greeks!Spec => []Greeks!TypeOK
      /\ Numbers!Spec => []Numbers!TypeOK
      /\ Memory!Spec => []Memory!TypeOK
      /\ Allocator!Spec => []Allocator!TypeOK
      /\ Signer!Spec => []Signer!TypeOK
  BY MixtureTyped, TrackerTyped, GreeksTyped, NumbersTyped, MemoryTyped, LoopTyped, SignatureTyped
<1> QED
  BY <1>1, <1>2, <1>3, PTL DEF AllTypeOK
=============================================================================
