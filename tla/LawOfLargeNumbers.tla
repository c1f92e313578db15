-------------------------- MODULE LawOfLargeNumbers --------------------------
(***************************************************************************)
(* risk/law_of_large_numbers.hpp without its Monte Carlo: the running      *)
(* variance of returns, the tier of risk that CRRA Kelly makes of it and   *)
(* the shares that risk buys.                                              *)
(*                                                                         *)
(* Returns are in tenths, expected ones in thousandths.  mean_ is kept     *)
(* times Scale and m2_ times its square: both are then whole, Scale being  *)
(* a multiple of n * (n - 1) for every count n that occurs.                *)
(***************************************************************************)
EXTENDS Integers, Sequences

CONSTANTS
    Moves,      \* returns
    Expected,   \* mu
    Accounts,   \* account_value, multiples of 200
    Gaps,       \* entry price less stop price
    Scale,
    MaxCount    \* bound: returns

\* Scale is a multiple as said for every count that a return adds to.
NumbersAssumption ==
    /\ Moves \subseteq Int /\ Expected \subseteq Int /\ Accounts \subseteq Nat
    /\ Gaps \subseteq Int /\ Scale \in Nat \ {0} /\ MaxCount \in Nat
    /\ \A n \in 1..(MaxCount - 1) : \E c \in 1..Scale : Scale = c * (n * (n + 1))

VARIABLES
    moves,      \* the returns so far (history)
    mean,       \* mean_
    m2,         \* m2_
    tier,       \* compute_fraction, in steps of half a per cent
    trade       \* [mu, account, gap, shares] sized last

vars == <<moves, mean, m2, tier, trade>>

NoTrade == [mu |-> 0, account |-> 0, gap |-> 0, shares |-> 0]

Init == moves = <<>> /\ mean = 0 /\ m2 = 0 /\ tier = 0 /\ trade = NoTrade

\* Operators named Mutant_... are plausible bugs, which the properties must
\* refute when they take the place of the definition they precede.

\* Both factors from before the mean moves.
Mutant_Squares(delta, x) == delta * delta

\* delta from the old mean times delta from the new.
Squares(delta, x) == delta * (Scale * x - mean')

\* StableVariance::update
Observe(x) ==
    /\ Len(moves) < MaxCount
    /\ LET delta == Scale * x - mean
       IN /\ mean' = mean + delta \div (Len(moves) + 1)
          /\ m2' = m2 + Squares(delta, x)
    /\ moves' = Append(moves, x)
    /\ UNCHANGED <<tier, trade>>

\* Half up, as std::round for what is not negative.
Rounded(n, d) == (2 * n + d) \div (2 * d)

\* mu / (2 * sigma ^ 2) in steps of half a per cent, as a fraction n / d.
Kelly(mu) == [n |-> 10 * mu * (Scale * Scale) * (Len(moves) - 1), d |-> m2]

Mutant_Fraction(mu) ==
    LET f == Kelly(mu) IN
    IF Len(moves) < 2 \/ m2 = 0 \/ mu <= 0 THEN 0 ELSE Rounded(f.n, f.d)

\* compute_fraction: none without variance, never more than five per cent.
Fraction(mu) ==
    LET f == Kelly(mu) IN
    IF Len(moves) < 2 \/ m2 = 0 \/ mu <= 0 THEN 0
    ELSE IF f.n >= 10 * f.d THEN 10 ELSE Rounded(f.n, f.d)

\* calculate_shares
Shares(account, steps, gap) ==
    IF gap <= 0 THEN 0 ELSE (account * steps) \div (200 * gap)

Size(mu, account, gap) ==
    /\ tier' = Fraction(mu)
    /\ trade' = [mu |-> mu, account |-> account, gap |-> gap,
                 shares |-> Shares(account, tier', gap)]
    /\ UNCHANGED <<moves, mean, m2>>

Next ==
    \/ \E x \in Moves : Observe(x)
    \/ \E mu \in Expected, account \in Accounts, gap \in Gaps : Size(mu, account, gap)

Spec == Init /\ [][Next]_vars
-----------------------------------------------------------------------------
(* Properties. *)

TypeOK ==
    /\ moves \in Seq(Moves) /\ mean \in Int /\ m2 \in Nat
    /\ tier \in Nat /\ trade.shares \in Nat

SumOf(f(_)) ==
    LET upTo[i \in 0..Len(moves)] == IF i = 0 THEN 0 ELSE upTo[i - 1] + f(moves[i])
    IN upTo[Len(moves)]

\* The running sums are those of all returns at once, in whatever order they
\* came ("Drastically reduces floating-point cancellation errors", line 16, and
\* loses nothing by it).
VarianceExact ==
    LET n == Len(moves)   total == SumOf(LAMBDA x : x)
    IN /\ n * mean = Scale * total
       /\ n * m2 = Scale * Scale * (n * SumOf(LAMBDA x : x * x) - total * total)

\* Whatever the returns and the estimate, a trade risks no more than a twentieth
\* of the account at its stop ("Absolute maximum risk ever taken is 5%", line
\* 106; the steps from 3.5% up, past the 3.0% that line 105 ends at, do occur)
\* and no more than its step; one share more would exceed the step, and
\* without a gap to the stop there is no share.
RiskCapped ==
    LET atStop == trade.shares * trade.gap IN
    /\ trade.shares > 0 => trade.mu > 0
    /\ 20 * atStop <= trade.account
    /\ 200 * atStop <= trade.account * tier
    /\ trade.gap > 0 => 200 * (atStop + trade.gap) > trade.account * tier
=============================================================================
