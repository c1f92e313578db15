---------------------------- MODULE MCSequential ----------------------------
(***************************************************************************)
(* Components that one thread uses at a time: the optimisers and their     *)
(* structures, what is kept in memory, the models that estimate, and the   *)
(* rules that size, price and route.  They share nothing, so a behaviour   *)
(* works on one of the Objects, whichever, and leaves the others as they   *)
(* were made.                                                              *)
(***************************************************************************)
EXTENDS SequentialObjects

CONSTANTS Objects

VARIABLES
    object

\* Values that a configuration cannot write.

\* Capital and loss in half units, so that both are rounded; win rates on
\* either side of 0.60.
OptionRange  == [capital : 1..3, loss : 1..2, premium : {1, 3}, winRate : {5, 7}]
BudgetTuples == {<<4, 4>>, <<5, 3>>, <<1, 4>>, <<0, 2>>}

\* Each measure equal or different.
OfferRange == [premium : 1..2, loss : 1..2, winRate : {6, 7}]

\* Legs of less than a step, of one and of more.
LegRange == [cvar : 0..3, score : {-1, 1, 2}, delta : 0..1]

\* Spots a step apart are within the tolerance, three steps are not.
SpotRange == 8..12

\* Leaves of either sign.
LeafValues == -1..1

\* Stops of half, one, two and five base widths; a floor that is met and missed.
Factors   == [s \in {150, 300, 600, 1500} |->
                CASE s = 150 -> 282 [] s = 300 -> 100 [] s = 600 -> 35 [] s = 1500 -> 9]
SafeEdges == [r \in {30, 50, 80} |-> CASE r = 30 -> 13721 [] r = 50 -> 22763 [] r = 80 -> 36171]
LossTails == {-1000, -999}
TailFloor == -1000

\* Returns of either sign; estimates for no trade, a small one and one at the cap.
Returned  == {-5, 0, 4}
Estimates == {-2, 3, 30}

\* One observation speaks for each state.
Emissions ==
    [o \in 0..2 |-> [j \in 0..2 |-> IF j = o THEN 0 ELSE IF j = 0 THEN -3 ELSE j - 3]]
Sticky   == [i \in 0..2 |-> [j \in 0..2 |-> IF i = j THEN 0 ELSE -2]]
Drifting == [i \in 0..2 |-> [j \in 0..2 |-> IF j = (i + 1) % 3 THEN 0 ELSE -1]]
Trained  == {Sticky, Drifting}

\* Histories from none to two returns in the wider tail.
ReturnRange == {-12, -9, 3}
ReturnLimit == -10

\* Two states; one observation speaks for each and one for neither.
TrainingWeights ==
    {[i \in 0..1 |-> [j \in 0..1 |-> IF i = j THEN w[1] ELSE w[2]]] :
        w \in {<<1, 1>>, <<1, 2>>, <<2, 1>>}}
EmissionWeights == [o \in 0..2 |-> [j \in 0..1 |-> IF o = j THEN 2 ELSE 1]]

\* Of two observations a density favours the first, the second or neither, and
\* the other one once the mean is new.
TwoReadings  == <<0, 3>>
Favouring(o) == [x \in {0, 3} |-> IF x = o THEN 2 ELSE 1]
DensityTables ==
    {[m \in 1..2 |-> [age \in {"old", "new"} |-> Favouring(IF age = "old" THEN f[m] ELSE 3 - f[m])]] :
        f \in [1..2 -> {0, 1, 3}]}
One == [n |-> 1, d |-> 1]

ProfitRange == {-1, 1, 3}

knapsackVars  == <<strategies, budget, next, dp, done, selected, isOptimal>>
hullVars      == <<offers, sorted, looked, hull>>
structureVars == <<legs, required, nextLeg, table, answer, structure>>
treeVars      == <<tree, leaves>>
cacheVars     == <<entries, lastSpot, dirty, chain, spot, swapped>>
guardVars     == <<word, life, generation, used>>
regimeVars    == <<log_transition, log_probs, current_state, change_detected,
                   raising, observed, acknowledged>>
routerVars    == <<alpha, beta, fragments, ordered>>
riskVars      == <<history, edge, metrics>>
collarVars    == <<call, costPercent, minProtection, putPremium, halved, low, high,
                   put, verdict>>
sizingVars    == <<offer, position, viable, reasons>>
trainingVars  == <<observations, transition, forward, backward, gamma, xi, learnt>>
mixtureVars   == <<responsible, gauss, nig, components, component>>
trackerVars   == <<state, covariance, predictions, seen>>
greeksVars    == <<option, greeks, before>>
numbersVars   == <<moves, mean, m2, tier, trade>>
memoryVars    == <<now, hypotheses, best, asked>>
allocatorVars == <<operations, active, live, wrong, finished>>
signerVars    == <<data, signed, signature, verified>>

\* An object that is not worked on starts from the least of its inputs.
AllInit ==
    /\ object \in Objects
    /\ object = "knapsack" \/ (object # "knapsack" /\ strategies = <<>> /\ budget = <<0, 2>>)
    /\ object = "hull" \/ (object # "hull" /\ offers = <<>>)
    /\ object = "structure" \/ (object # "structure" /\ legs = <<>> /\ required = 0)
    /\ object = "collar" \/ /\ object # "collar"
                            /\ call = [strike |-> 18, premium |-> 1]
                            /\ costPercent = 0 /\ minProtection = 10
                            /\ putPremium = [k \in 10..16 |-> 0]
    /\ object = "sizing" \/ /\ object # "sizing"
                            /\ offer = [stop |-> 150, expected |-> 0, cvar |-> -999,
                                         winRate |-> 22, maxRisk |-> 50]
    /\ Knapsack!Init /\ Hull!Init /\ Structure!Init
    /\ Tree!Init /\ Cache!Init /\ Guard!Init
    /\ object = "training" \/ /\ object # "training"
                              /\ observations = <<0>>
                              /\ transition = [i \in 0..1 |-> [j \in 0..1 |-> 1]]
    /\ object = "mixture" \/ /\ object # "mixture"
                             /\ responsible = [t \in 1..2 |-> 0]
                             /\ gauss = [m \in 1..2 |-> [age \in {"old", "new"} |-> Favouring(1)]]
                             /\ nig = gauss
    /\ object = "greeks" \/ /\ object # "greeks"
                            /\ option = [s |-> 10, k |-> 10, v |-> 0, root |-> 0, call |-> TRUE]
    /\ object = "signer" \/ (object # "signer" /\ data = <<0, 0>>)
    /\ Regime!Init /\ Router!Init /\ Risk!Init /\ Collar!Init /\ Sizing!Init
    /\ Training!Init /\ Mixture!Init /\ Tracker!Init /\ Greeks!Init /\ Numbers!Init
    /\ Memory!Init /\ Allocator!Init /\ Signer!Init

\* Everything but the object of that name stays as it is.
Others(name) ==
    /\ object = name /\ UNCHANGED object
    /\ name # "knapsack"  => UNCHANGED knapsackVars
    /\ name # "hull"      => UNCHANGED hullVars
    /\ name # "structure" => UNCHANGED structureVars
    /\ name # "tree"      => UNCHANGED treeVars
    /\ name # "cache"     => UNCHANGED cacheVars
    /\ name # "guard"     => UNCHANGED guardVars
    /\ name # "regime"    => UNCHANGED regimeVars
    /\ name # "router"    => UNCHANGED routerVars
    /\ name # "risk"      => UNCHANGED riskVars
    /\ name # "collar"    => UNCHANGED collarVars
    /\ name # "sizing"    => UNCHANGED sizingVars
    /\ name # "training"  => UNCHANGED trainingVars
    /\ name # "mixture"   => UNCHANGED mixtureVars
    /\ name # "tracker"   => UNCHANGED trackerVars
    /\ name # "greeks"    => UNCHANGED greeksVars
    /\ name # "numbers"   => UNCHANGED numbersVars
    /\ name # "memory"    => UNCHANGED memoryVars
    /\ name # "allocator" => UNCHANGED allocatorVars
    /\ name # "signer"    => UNCHANGED signerVars

AllNext ==
    \/ Others("knapsack")  /\ Knapsack!Next
    \/ Others("hull")      /\ Hull!Next
    \/ Others("structure") /\ Structure!Next
    \/ Others("tree")      /\ Tree!Next
    \/ Others("cache")     /\ Cache!Next
    \/ Others("guard")     /\ Guard!Next
    \/ Others("regime")    /\ Regime!Next
    \/ Others("router")    /\ Router!Next
    \/ Others("risk")      /\ Risk!Next
    \/ Others("collar")    /\ Collar!Next
    \/ Others("sizing")    /\ Sizing!Next
    \/ Others("training")  /\ Training!Next
    \/ Others("mixture")   /\ Mixture!Next
    \/ Others("tracker")   /\ Tracker!Next
    \/ Others("greeks")    /\ Greeks!Next
    \/ Others("numbers")   /\ Numbers!Next
    \/ Others("memory")    /\ Memory!Next
    \/ Others("allocator") /\ Allocator!Next
    \/ Others("signer")    /\ Signer!Next

allVars == <<object, knapsackVars, hullVars, structureVars, treeVars, cacheVars,
             guardVars, regimeVars, routerVars, riskVars, collarVars, sizingVars,
             trainingVars, mixtureVars, trackerVars, greeksVars, numbersVars, memoryVars,
             allocatorVars, signerVars>>

AllSpec == AllInit /\ [][AllNext]_allVars
-----------------------------------------------------------------------------
(* The properties of the modules. *)

\* What is selected can be paid for.
CapitalRespected == Knapsack!CapitalRespected

\* A store next to the user's words is reported.
StraysReported == Guard!StraysReported

\* A tighter stop leaves what is viable viable, whatever the edge.
TighterStaysViable == Sizing!TighterStaysViable

\* What is learnt makes the observations no less likely.
TrainingImproves == Training!LikelierThanBefore
=============================================================================
