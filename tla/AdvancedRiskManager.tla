------------------------- MODULE AdvancedRiskManager -------------------------
(***************************************************************************)
(* risk/advanced_risk_manager.hpp: calculate_risk_metrics, for any history *)
(* of returns.  One action per call.                                       *)
(*                                                                         *)
(* Returns are whole per cents.  Averages are kept as [sum, count].  Win   *)
(* rate and positive mean win and loss enter by the edge they give: there  *)
(* is a Kelly fraction just if it is positive, and the risk of ruin, a     *)
(* power of it, is then below one per cent or not, for too small an edge   *)
(* as for one far beyond one.                                              *)
(***************************************************************************)
EXTENDS Integers, Sequences

CONSTANTS
    Returns,        \* possible returns
    MaxHistory,     \* bound: historical_returns
    Whole,          \* 100
    Tail95, Tail99, \* 5 and 1: the tails, in parts of Whole
    CvarLimit       \* -10 of line 139

RiskAssumption ==
    /\ Returns \subseteq Int /\ MaxHistory \in Nat /\ CvarLimit \in Int
    /\ Tail99 \in Nat /\ Tail95 \in Nat /\ Whole \in Nat
    /\ Tail99 <= Tail95 /\ Tail95 < Whole

VARIABLES
    history,        \* historical_returns of the last call
    edge,           \* "losing", "thin" (ruin of a per cent or more) or "safe"
    metrics         \* its result

vars == <<history, edge, metrics>>

Average(sum, count) == [sum |-> sum, count |-> count]
Nothing == Average(0, 1)

NoMetrics == [cvar95 |-> Nothing, cvar99 |-> Nothing, var95 |-> Nothing,
              var99 |-> Nothing, kelly |-> FALSE, ruinous |-> TRUE, safe |-> FALSE]

Init == history = <<>> /\ edge = "losing" /\ metrics = NoMetrics

\* Into a sorted sequence: what is no greater stays, x comes after it, and the
\* rest moves up.
Insert(t, x) ==
    [i \in 1..(Len(t) + 1) |->
        IF i <= Len(t) /\ t[i] <= x THEN t[i]
        ELSE IF i = 1 \/ t[i - 1] <= x THEN x
        ELSE t[i - 1]]

Sorted(s) ==
    LET upTo[n \in 0..Len(s)] == IF n = 0 THEN <<>> ELSE Insert(upTo[n - 1], s[n])
    IN upTo[Len(s)]

SumOfFirst(count, s) ==
    LET upTo[n \in 0..count] == IF n = 0 THEN 0 ELSE upTo[n - 1] + s[n]
    IN upTo[count]

TailIndex(s, tail) == (Len(s) * tail) \div Whole

\* Operators named Mutant_... are plausible bugs, which the properties must
\* refute when they take the place of the definition they precede.

\* The average of the worst returns divided by one too few.
Mutant_Cvar(s, tail) ==
    IF s = <<>> THEN Nothing
    ELSE LET n == TailIndex(s, tail)
         IN IF n = 0 THEN Average(s[1], 1) ELSE Average(SumOfFirst(n + 1, s), n)

\* calculate_cvar, of sorted returns: the average of the tail, or the worst return
\* if there is none.
Cvar(s, tail) ==
    IF s = <<>> THEN Nothing
    ELSE LET n == TailIndex(s, tail)
         IN IF n = 0 THEN Average(s[1], 1) ELSE Average(SumOfFirst(n, s), n)

Var(s, tail) == IF s = <<>> THEN Nothing ELSE Average(s[TailIndex(s, tail) + 1], 1)

Below(a, b) == a.sum * b.count <= b.sum * a.count

CalculateRiskMetrics ==
    /\ history' \in UNION {[1..n -> Returns] : n \in 0..MaxHistory}
    /\ edge' \in {"losing", "thin", "safe"}
    /\ metrics' =
         LET worst    == Sorted(history')
             cvar95   == Cvar(worst, Tail95)
             kelly    == edge' # "losing"
             ruinous  == edge' # "safe"
         IN [cvar95 |-> cvar95, cvar99 |-> Cvar(worst, Tail99),
             var95 |-> Var(worst, Tail95), var99 |-> Var(worst, Tail99),
             kelly |-> kelly, ruinous |-> ruinous,
             safe |-> ~ruinous /\ kelly /\ ~Below(cvar95, Average(CvarLimit, 1))]

Next == CalculateRiskMetrics

Spec == Init /\ [][Next]_vars
-----------------------------------------------------------------------------
(* Properties. *)

TypeOK ==
    /\ history \in Seq(Returns)
    /\ \A m \in {"cvar95", "cvar99", "var95", "var99"} :
         metrics[m].sum \in Int /\ metrics[m].count \in 1..MaxHistory + 1

\* The deeper tail is the worse one and a tail's average no better than its
\* border, for histories too short to have a tail as well, where CVaR takes the
\* worst return and VaR its first.
TailsOrdered ==
    /\ Below(metrics.cvar99, metrics.cvar95)
    /\ Below(metrics.var99, metrics.var95)
    /\ Below(metrics.cvar95, metrics.var95)
    /\ Below(metrics.cvar99, metrics.var99)
=============================================================================
