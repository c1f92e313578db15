---------------------------- MODULE DPKnapsack2D ----------------------------
(***************************************************************************)
(* optimization/dp_knapsack_2d.hpp, solve: the most premium that fits a    *)
(* capital and a risk, by dynamic programming over whole units of both.    *)
(* One action per option considered.                                       *)
(*                                                                         *)
(* The loops over c and r run downwards, so the cell an update reads still *)
(* holds the value of the round before: the round is one function here.    *)
(* Amounts are small integers, win rates are tenths; expected return,      *)
(* Sharpe ratio and drawdown are reported only and left out.               *)
(***************************************************************************)
EXTENDS Integers, Sequences, FiniteSets

CONSTANTS
    Options,        \* possible [capital, loss, premium, winRate]
    MaxOptions,     \* bound: options in a call
    Budgets,        \* possible <<capital_available, max_risk_allowed>>
    CapitalUnit,    \* 1000.0 of lines 63, 73
    RiskUnit        \* 500.0 of lines 64, 74

\* Premiums may be negative: the empty set is a choice as well.
KnapsackAssumption ==
    /\ MaxOptions \in Nat
    /\ \A o \in Options : o.capital \in Nat /\ o.loss \in Nat /\ o.premium \in Int
    /\ \A b \in Budgets : b[1] \in Int /\ b[2] \in Int
    /\ CapitalUnit \in Nat \ {0} /\ RiskUnit \in Nat \ {0}

VARIABLES
    strategies,     \* the options of the call
    budget,         \* its capital_available and max_risk_allowed
    next,           \* option to consider
    dp,             \* dp and choices: [value, chosen] for each <<c, r>>
    done,           \* solve has returned
    selected,       \* its result: selected_strategies
    isOptimal       \* and is_optimal

result == <<done, selected, isOptimal>>
vars == <<strategies, budget, next, dp, result>>

C == budget[1] \div CapitalUnit
R == budget[2] \div RiskUnit
Cells == (0..C) \X (0..R)

Cap(i) == strategies[i].capital \div CapitalUnit
Risk(i) == strategies[i].loss \div RiskUnit

Init ==
    /\ strategies \in UNION {[1..n -> Options] : n \in 0..MaxOptions}
    /\ budget \in Budgets
    /\ next = 1
    /\ dp = [cell \in Cells |-> [value |-> 0, chosen |-> <<>>]]
    /\ done = FALSE /\ selected = <<>> /\ isOptimal = FALSE

Total(field(_), chosen) ==
    LET sum[n \in 0..Len(chosen)] ==
          IF n = 0 THEN 0 ELSE sum[n - 1] + field(strategies[chosen[n]])
    IN sum[Len(chosen)]
Capital(chosen) == Total(LAMBDA o : o.capital, chosen)
Premium(chosen) == Total(LAMBDA o : o.premium, chosen)
WinsByCapital(chosen) == Total(LAMBDA o : o.winRate * o.capital, chosen)

EmptyCall == strategies = <<>> \/ budget[1] <= 0 \/ budget[2] <= 0

Refuse ==
    /\ ~done /\ EmptyCall
    /\ done' = TRUE
    /\ UNCHANGED <<strategies, budget, next, dp, selected, isOptimal>>

\* The cell that option i would be added to.
From(cell, i) == <<cell[1] - Cap(i), cell[2] - Risk(i)>>

\* Operators named Mutant_... are plausible bugs, which the properties must
\* refute when they take the place of the definition they precede.

\* The loops run upwards: a cell may take the same option again.
Mutant_Round(i) ==
    LET cells[cell \in Cells] ==
          LET from == From(cell, i)
              old == IF from \in Cells /\ from # cell THEN cells[from] ELSE dp[cell]
          IN IF from \in Cells /\ old.value + strategies[i].premium > dp[cell].value
             THEN [value |-> old.value + strategies[i].premium,
                   chosen |-> Append(old.chosen, i)]
             ELSE dp[cell]
    IN cells

Round(i) ==
    [cell \in Cells |->
        LET from == From(cell, i)
        IN IF /\ from \in Cells
              /\ dp[from].value + strategies[i].premium > dp[cell].value
           THEN [value |-> dp[from].value + strategies[i].premium,
                 chosen |-> Append(dp[from].chosen, i)]
           ELSE dp[cell]]

Consider ==
    /\ ~done /\ ~EmptyCall
    /\ next <= Len(strategies)
    /\ dp' = Round(next)
    /\ next' = next + 1
    /\ UNCHANGED <<strategies, budget, result>>

\* The capital-weighted win rate is at least 0.60 and something was chosen; no
\* capital leaves the rate at zero.
Select ==
    /\ ~done /\ ~EmptyCall
    /\ next > Len(strategies)
    /\ done' = TRUE
    /\ selected' = dp[<<C, R>>].chosen
    /\ isOptimal' = /\ Capital(selected') > 0
                    /\ WinsByCapital(selected') >= 6 * Capital(selected')
    /\ UNCHANGED <<strategies, budget, next, dp>>

Next == Refuse \/ Consider \/ Select

Spec == Init /\ [][Next]_vars
-----------------------------------------------------------------------------
(* Properties. *)

Increasing(chosen) == \A m, n \in DOMAIN chosen : m < n => chosen[m] < chosen[n]

TypeOK ==
    /\ next \in 1..(Len(strategies) + 1)
    /\ DOMAIN dp = Cells
    /\ \A cell \in Cells : /\ dp[cell].value \in Int
                           /\ dp[cell].chosen \in Seq(1..(next - 1))
                           /\ Increasing(dp[cell].chosen)
    /\ done \in BOOLEAN /\ isOptimal \in BOOLEAN
    /\ selected \in Seq(1..Len(strategies)) /\ Increasing(selected)

Units(unit(_), S) ==
    LET sum[n \in 0..Len(strategies)] ==
          IF n = 0 THEN 0 ELSE sum[n - 1] + (IF n \in S THEN unit(n) ELSE 0)
    IN sum[Len(strategies)]

Fits(S, cell) == Units(Cap, S) <= cell[1] /\ Units(Risk, S) <= cell[2]
PremiumOf(S) == Units(LAMBDA n : strategies[n].premium, S)

\* "dp[c][r] = max premium with capital c and risk r" (line 66), in whole units:
\* after each round every cell holds the best of all sets of the options
\* considered, and the choices beside it are such a set.
TableExact ==
    \A cell \in Cells :
      LET chosen == {dp[cell].chosen[n] : n \in DOMAIN dp[cell].chosen}
      IN /\ Fits(chosen, cell)
         /\ PremiumOf(chosen) = dp[cell].value
         /\ \A S \in SUBSET (1..(next - 1)) :
              Fits(S, cell) => PremiumOf(S) <= dp[cell].value

\* "Sum(Capital_i) <= C" (line 42): what is selected can be paid for.
CapitalRespected == Capital(selected) <= budget[1]
=============================================================================
