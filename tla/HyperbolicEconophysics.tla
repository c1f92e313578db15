----------------------- MODULE HyperbolicEconophysics -----------------------
(***************************************************************************)
(* strategies/hyperbolic_econophysics.hpp, calculate_optimal_position: how *)
(* much of the capital goes into a trade of a given stop, whether that is  *)
(* viable, and if not, why.  One action per call.                          *)
(*                                                                         *)
(* Fractions are in basis points.  The factor, a power of the stop, enters *)
(* by a table; the risk of ruin, (1 - edge) to the power 1 / risk, by the  *)
(* outcome of its tests against one per cent, and that by the edge from    *)
(* which it is below and by the kind of exponent.  The average of the tail *)
(* of past returns (calculate_cvar) is given.  Ratios that are reported    *)
(* only are left out.                                                      *)
(***************************************************************************)
EXTENDS Integers, FiniteSetsExt

CONSTANTS
    Stops,          \* possible current_stop_width_pct, not negative
    Expected,       \* possible expected_return_pct
    Cvars,          \* possible cvar_95
    FactorPercent,  \* calculate_hyperbolic_factor: positive stop -> per cent
    WinRates,       \* possible win_rate, in per cent
    Multiple,       \* avg_win_multiple
    KellyPercent,   \* kelly_fraction, in per cent
    MaxRisks,       \* possible max_risk_per_trade
    MaxPosition,    \* 3300: 0.33 of line 236
    SafeEdge,       \* risk -> the least edge, in millionths, for which the power is
                    \* below one per cent
    CvarFloor       \* -1000: -0.10 of line 248

\* An edge of one, in millionths: a certain gain of all the capital.
One == 1000 * 1000

\* The factor is a power of base over stop: none is negative, and a tighter stop
\* has no smaller one.  Without an edge the power is one, at an edge of one zero.
SizingAssumption ==
    /\ Stops \subseteq Nat /\ Expected \subseteq Int /\ Cvars \subseteq Int
    /\ WinRates \subseteq 0..100 /\ Multiple \in Nat \ {0}
    /\ KellyPercent \in Nat /\ MaxRisks \subseteq Nat \ {0} /\ MaxPosition \in Nat
    /\ SafeEdge \in [MaxRisks -> 1..One] /\ CvarFloor \in Int
    /\ \A s \in Stops \ {0} : FactorPercent[s] \in Nat
    /\ \A s, t \in Stops \ {0} : s <= t => FactorPercent[s] >= FactorPercent[t]

VARIABLES
    offer,          \* [stop, expected, cvar, winRate, maxRisk] of the last call
    position,       \* position_size_pct
    viable,         \* is_viable
    reasons         \* what reasoning names

sizingVars == <<offer, position, viable, reasons>>

Calls == [stop : Stops, expected : Expected, cvar : Cvars, winRate : WinRates,
          maxRisk : MaxRisks]

Init ==
    /\ offer \in Calls
    /\ position = 0 /\ viable = FALSE /\ reasons = {}

Factor(stop) == IF stop <= 0 THEN 100 ELSE FactorPercent[stop]

\* A part of (p b - q) / b, nothing if it is negative.
Kelly(winRate) ==
    LET odds == winRate * Multiple - (100 - winRate)
    IN IF odds <= 0 THEN 0 ELSE (odds * KellyPercent) \div Multiple

\* Operators named Mutant_... are plausible bugs, which the properties must
\* refute when they take the place of the definition they precede.

\* The largest of the limits in place of the smallest.
Mutant_Position(o) ==
    Max({(Kelly(o.winRate) * Factor(o.stop)) \div 100, MaxPosition}
          \cup (IF o.stop = 0 THEN {} ELSE {(o.maxRisk * 10000) \div o.stop}))

\* The smallest of three limits; dividing by no stop leaves out the second.
Position(o) ==
    Min({(Kelly(o.winRate) * Factor(o.stop)) \div 100, MaxPosition}
          \cup (IF o.stop = 0 THEN {} ELSE {(o.maxRisk * 10000) \div o.stop}))

\* What a loss costs added to what a win brings.
Mutant_Edge(o) == o.winRate * o.expected + (100 - o.winRate) * o.stop

\* Both the expected value and the edge, in millionths.
Edge(o) == o.winRate * o.expected - (100 - o.winRate) * o.stop

\* Beyond one, a power of what is negative: of no number unless 1 / risk is whole.
NoNumber(o) == Edge(o) > One /\ 10000 % o.maxRisk # 0

\* What a test of the risk of ruin against one per cent may find.  Beyond one an
\* odd power is negative, an even one grows again; comparisons with what is no
\* number may come out either way (-ffast-math, CMakeLists.txt:9).
BelowOnePercent(o) ==
    IF NoNumber(o) THEN BOOLEAN
    ELSE {\/ Edge(o) \in SafeEdge[o.maxRisk]..(2 * One - SafeEdge[o.maxRisk])
          \/ Edge(o) > One /\ (10000 \div o.maxRisk) % 2 = 1}

Viable(o, below) ==
    /\ Edge(o) > 0
    /\ below
    /\ Position(o) > 0
    /\ o.cvar > CvarFloor

\* generate_reasoning of a position that is not viable.
Reasons(o, below) ==
    (IF Edge(o) <= 0 THEN {"expected value"} ELSE {})
      \cup (IF below THEN {} ELSE {"ruin"})
      \cup (IF o.cvar <= CvarFloor THEN {"tail"} ELSE {})

\* One test for is_viable and one for the reasoning.
CalculateOptimalPosition ==
    \E o \in Calls : \E first, second \in BelowOnePercent(o) :
      /\ offer' = o
      /\ position' = Position(o)
      /\ viable' = Viable(o, first)
      /\ reasons' = IF Viable(o, first) THEN {} ELSE Reasons(o, second)

Next == CalculateOptimalPosition

Spec == Init /\ [][Next]_sizingVars
-----------------------------------------------------------------------------
(* Properties. *)

TypeOK ==
    /\ position \in 0..MaxPosition
    /\ viable \in BOOLEAN
    /\ reasons \subseteq {"expected value", "ruin", "tail"}

AtStop(s) == [offer EXCEPT !.stop = s]

TighterStops == {s \in Stops \ {0} : s <= offer.stop}

\* "Cutting stop from 3% to 1.5% DOUBLES position size at same dollar risk"
\* (line 14): the position loses no more than the risk allowed at its stop, and a
\* tighter stop, as long as there is one, never makes it smaller nor, up to an
\* edge of one, takes its viability away; a position that is refused and not
\* nothing has a reason, if the risk of ruin is a number.
SizingSound ==
    /\ position * offer.stop <= offer.maxRisk * 10000
    /\ \A s \in TighterStops :
         /\ Position(AtStop(s)) >= position
         /\ viable /\ Edge(AtStop(s)) <= One =>
              \A below \in BelowOnePercent(AtStop(s)) : Viable(AtStop(s), below)
    /\ ~viable /\ position > 0 => reasons # {} \/ NoNumber(offer)

\* "RISK TO RUIN: Probability of Blowing Up ... Lower risk to ruin = Higher
\* survival probability" (lines 133-139): more edge at a tighter stop would leave
\* what is viable viable, whatever the edge.
TighterStaysViable ==
    viable => \A s \in TighterStops :
                \A below \in BelowOnePercent(AtStop(s)) : Viable(AtStop(s), below)
=============================================================================
