------------------------ MODULE DPKnapsackOptimizer ------------------------
(***************************************************************************)
(* pricing/dp_knapsack_optimizer.hpp, solve: the best score of a number of *)
(* option legs whose risk (CVaR) fits a limit, by dynamic programming over *)
(* W steps of risk with back-pointers.  One action per leg considered.     *)
(*                                                                         *)
(* The loop over w runs downwards and a leg weighs one step at least, so   *)
(* the cells a round reads are those of the round before: the round is one *)
(* function here.  A leg's score (calculate_leg_score) and delta are given *)
(* integers; a limit of zero, a division by zero, is left out.             *)
(***************************************************************************)
EXTENDS Integers, Sequences

CONSTANTS
    Legs,           \* possible [cvar, score, delta]
    MaxLegs,        \* bound: legs available in a call
    W,              \* 1000 of line 76
    CvarStep,       \* max_portfolio_cvar is W * CvarStep
    MaxRequired,    \* bound: required_legs
    DeltaSlack      \* 0.15 of line 138, about a target of zero

LegAssumption ==
    /\ MaxLegs \in Nat /\ MaxRequired \in Nat
    /\ \A l \in Legs : l.cvar \in Int /\ l.score \in Int /\ l.delta \in Int
    /\ W \in Nat /\ CvarStep \in Nat \ {0} /\ DeltaSlack \in Nat

VARIABLES
    legs,           \* available_legs
    required,       \* required_legs
    nextLeg,        \* leg to consider
    table,          \* dp, parent_leg, parent_state and leg_count, for each w
    answer,         \* "pending", "nullopt" or "structure"
    structure       \* selected_legs

vars == <<legs, required, nextLeg, table, answer, structure>>

Weights == 0..W
NoLeg == 0

\* A cell that is not reached has a score of minus infinity.
Unreached == [reached |-> FALSE, score |-> 0, leg |-> NoLeg, parent |-> 0, count |-> 0]

Init ==
    /\ legs \in UNION {[1..n -> Legs] : n \in 0..MaxLegs}
    /\ required \in 0..MaxRequired
    /\ nextLeg = 1
    /\ table = [w \in Weights |-> [Unreached EXCEPT !.reached = (w = 0)]]
    /\ answer = "pending" /\ structure = <<>>

EmptyLegs == legs = <<>> \/ required <= 0

RefuseLegs ==
    /\ answer = "pending" /\ EmptyLegs
    /\ answer' = "nullopt"
    /\ UNCHANGED <<legs, required, nextLeg, table, structure>>

\* Operators named Mutant_... are plausible bugs, which the properties must
\* refute when they take the place of the definition they precede.

\* The risk in whole steps, rounded down.
Mutant_Weight(i) == legs[i].cvar \div CvarStep

\* ceil: the risk in whole steps, rounded up.
Weight(i) == (legs[i].cvar + CvarStep - 1) \div CvarStep

Improves(new, old) ==
    \/ ~old.reached
    \/ new.score > old.score
    \/ new.score = old.score /\ new.count > old.count

\* Cell w once leg i may end the structure.
WithLeg(i, w) ==
    LET from == table[w - Weight(i)]
        new == [reached |-> TRUE, score |-> from.score + legs[i].score,
                leg |-> i, parent |-> w - Weight(i), count |-> from.count + 1]
    IN IF /\ w >= Weight(i)
          /\ from.reached /\ from.count + 1 <= required
          /\ Improves(new, table[w])
       THEN new ELSE table[w]

ConsiderLeg ==
    /\ answer = "pending" /\ ~EmptyLegs
    /\ nextLeg <= Len(legs)
    /\ table' = IF Weight(nextLeg) \in 1..W
                THEN [w \in Weights |-> WithLeg(nextLeg, w)]
                ELSE table
    /\ nextLeg' = nextLeg + 1
    /\ UNCHANGED <<legs, required, answer, structure>>

\* The walk along the back-pointers, last leg first.  A round may have
\* changed a cell after another took it for its parent.
Walk == [w \in Weights |->
    LET walk[v \in Weights] ==
          IF v > 0 /\ table[v].leg # NoLeg
          THEN <<table[v].leg>> \o walk[table[v].parent]
          ELSE <<>>
    IN walk[w]]

Sum(field(_), s) ==
    LET sum[n \in 0..Len(s)] == IF n = 0 THEN 0 ELSE sum[n - 1] + field(legs[s[n]])
    IN sum[Len(s)]

Complete == {w \in Weights : table[w].reached /\ table[w].count = required}

\* The lightest of the complete cells with the highest score.
Best(w) ==
    /\ w \in Complete
    /\ \A v \in Complete : \/ table[v].score < table[w].score
                           \/ table[v].score = table[w].score /\ v >= w

NothingFits ==
    /\ answer = "pending" /\ ~EmptyLegs
    /\ nextLeg > Len(legs)
    /\ Complete = {}
    /\ answer' = "nullopt"
    /\ UNCHANGED <<legs, required, nextLeg, table, structure>>

Backtrack ==
    /\ answer = "pending" /\ ~EmptyLegs
    /\ nextLeg > Len(legs)
    /\ \E w \in Weights : Best(w) /\ structure' = Walk[w]
    /\ answer' = IF Sum(LAMBDA l : l.delta, structure') \in -DeltaSlack..DeltaSlack
                 THEN "structure" ELSE "nullopt"
    /\ UNCHANGED <<legs, required, nextLeg, table>>

Next == RefuseLegs \/ ConsiderLeg \/ NothingFits \/ Backtrack

Spec == Init /\ [][Next]_vars
-----------------------------------------------------------------------------
(* Properties. *)

TypeOK ==
    /\ nextLeg \in 1..(Len(legs) + 1)
    /\ answer \in {"pending", "nullopt", "structure"}
    /\ structure \in Seq(1..Len(legs))
    /\ \A w \in Weights :
         /\ table[w].reached \in BOOLEAN /\ table[w].score \in Int
         /\ table[w].leg \in 0..(nextLeg - 1) /\ table[w].count \in 0..required
         /\ table[w].parent \in Weights
         /\ table[w].leg # NoLeg => table[w].parent < w

\* The back-pointers of a cell may be changed after another cell took it for
\* its parent, so that a walk meets legs the scores did not count.  All the
\* same the legs on a walk weigh what the cell says, so the structure keeps
\* within the risk limit, and score at least what the table says.
StructureKeepsLimit ==
    /\ \A w \in Weights :
         table[w].reached =>
           /\ Sum(LAMBDA l : l.cvar, Walk[w]) <= w * CvarStep
           /\ Sum(LAMBDA l : l.score, Walk[w]) >= table[w].score
    /\ Sum(LAMBDA l : l.cvar, structure) <= W * CvarStep
=============================================================================
