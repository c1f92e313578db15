------------------------------ MODULE Fractions ------------------------------
(***************************************************************************)
(* Exact fractions [n, d] in lowest terms, d positive, for what the code   *)
(* does in floating point.                                                 *)
(***************************************************************************)
EXTENDS Integers

\* The greatest common divisor, by Euclid.
Gcd[p \in Nat \X Nat] == IF p[2] = 0 THEN p[1] ELSE Gcd[<<p[2], p[1] % p[2]>>]
Common(a, b) == Gcd[<<IF a < 0 THEN -a ELSE a, b>>]

Ratio(n, d) == LET k == Common(n, d) IN [n |-> n \div k, d |-> d \div k]

\* What can be divided out is divided out before it is multiplied.
Plus(a, b)  == LET k == Common(a.d, b.d)
               IN Ratio(a.n * (b.d \div k) + b.n * (a.d \div k), a.d * (b.d \div k))
Minus(a, b) == Plus(a, [b EXCEPT !.n = -b.n])
Times(a, b) == LET k == Common(a.n, b.d)   l == Common(b.n, a.d)
               IN [n |-> (a.n \div k) * (b.n \div l), d |-> (a.d \div l) * (b.d \div k)]

\* By a positive fraction.
Over(a, b)  == Times(a, [n |-> b.d, d |-> b.n])

AtMost(a, b) == Minus(a, b).n <= 0

\* The sum of s[1], ..., s[count], and of f(1), ..., f(count).
SumOf(s, count) ==
    LET upTo[k \in 0..count] == IF k = 0 THEN Ratio(0, 1) ELSE Plus(upTo[k - 1], s[k])
    IN upTo[count]
SumUpTo(count, f(_)) == SumOf([k \in 1..count |-> f(k)], count)
=============================================================================
