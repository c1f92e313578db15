------------------------- MODULE SequentialObjects -------------------------
(***************************************************************************)
(* The components that one thread uses at a time: the three optimisers and *)
(* their structures, what is kept in memory, the models that estimate, and *)
(* the rules that size, price and route.  SequentialProofs proves their    *)
(* properties for every value of the constants; MCSequential runs them on  *)
(* small instances.                                                        *)
(***************************************************************************)
EXTENDS Integers

CONSTANTS Candidates, MaxOptions, Budgets, CapitalUnit, RiskUnit
VARIABLES strategies, budget, next, dp, done, selected, isOptimal
Knapsack == INSTANCE DPKnapsack2D WITH Options <- Candidates

CONSTANTS Offers, MaxOffers
VARIABLES offers, sorted, looked, hull
Hull == INSTANCE StrategyHull

CONSTANTS Legs, MaxLegs, W, CvarStep, MaxRequired, DeltaSlack
VARIABLES legs, required, nextLeg, table, answer, structure
Structure == INSTANCE DPKnapsackOptimizer

CONSTANTS Instruments, MaxChain, Spots, PartsMoved
VARIABLES entries, lastSpot, dirty, chain, spot, swapped
Cache == INSTANCE GEXCache

CONSTANTS Blocks, NoBlock, MaxActive, NumOps
VARIABLES operations, active, live, wrong, finished
Allocator == INSTANCE AllocatorLoop WITH i <- operations, done <- finished

CONSTANTS UserWords, Contents, MaxGeneration
VARIABLES word, life, generation, used
Guard == INSTANCE CanaryGuard

CONSTANTS Spot, Lowest, Highest, Halvings, CallStrikes, CallPremiums, PutPremiums,
          CostPercents, Protections
VARIABLES call, costPercent, minProtection, putPremium, halved, low, high, put, verdict
Collar == INSTANCE MarkCubanCollar

CONSTANTS N, Values
VARIABLES tree, leaves
Tree == INSTANCE IterativeSegmentTree

CONSTANTS Stops, Expected, Cvars, FactorPercent, WinRates, Multiple, KellyPercent,
          MaxRisks, MaxPosition, SafeEdge, CvarFloor
VARIABLES offer, position, viable, reasons
Sizing == INSTANCE HyperbolicEconophysics

CONSTANTS Moves, Mus, Accounts, Gaps, Scale, MaxCount
VARIABLES moves, mean, m2, tier, trade
Numbers == INSTANCE LawOfLargeNumbers WITH Expected <- Mus

CONSTANTS NumBrokers, ByteMod, Quantities, MaxFragments, MaxSplits, MaxBelief, Penalties
VARIABLES alpha, beta, fragments, ordered
Router == INSTANCE SmartOrderRouter

CONSTANTS NStates, Observations, EmissionLogs, Trainings, Threshold, MaxObserved
VARIABLES log_transition, log_probs, current_state, change_detected, raising, observed,
          acknowledged
Regime == INSTANCE DGMHEigen

CONSTANTS Returns, MaxHistory, Whole, Tail95, Tail99, CvarLimit
VARIABLES history, edge, metrics
Risk == INSTANCE AdvancedRiskManager

CONSTANTS Prices, Vols, Roots, Liquidity, Unit
VARIABLES option, greeks, before
Greeks == INSTANCE AADGreeks

CONSTANTS Profits, Ks, MaxKept, MaxTime
VARIABLES now, hypotheses, best, asked
Memory == INSTANCE HypothesisDatabase WITH top <- best

CONSTANTS Bytes, PayloadLength, HashMod, Offset, Multiplier, Masks
VARIABLES data, signed, signature, verified
Signer == INSTANCE EnclaveSigner WITH Length <- PayloadLength

CONSTANTS InvAlpha2, FirstNoise, ProcessNoise, ReadingNoise, MaxCalls
VARIABLES state, covariance, predictions, seen
Tracker == INSTANCE UnscentedKalmanFilter WITH
    P0 <- FirstNoise, Q <- ProcessNoise, R <- ReadingNoise, x <- state, P <- covariance

CONSTANTS Parts, Readings, Responsible, Tables, Least
VARIABLES responsible, gauss, nig, components, component
Mixture == INSTANCE DGMHMixture WITH
    M <- Parts, Data <- Readings, Gammas <- Responsible, Floor <- Least,
    gamma <- responsible, next <- component

CONSTANTS HiddenStates, StartWeights, Emission, MaxLength
VARIABLES observations, transition, forward, backward, gamma, xi, learnt
Training == INSTANCE DGMHTraining WITH
    NStates <- HiddenStates, Weights <- StartWeights, alpha <- forward, beta <- backward

\* What the theorems assume of the constants.
ASSUME SequentialAssumption ==
    /\ Knapsack!KnapsackAssumption /\ Hull!HullAssumption /\ Structure!LegAssumption
    /\ Cache!CacheAssumption /\ Allocator!LoopAssumption /\ Guard!GuardAssumption
    /\ Collar!CollarAssumption /\ Tree!TreeAssumption /\ Sizing!SizingAssumption
    /\ Numbers!NumbersAssumption /\ Router!RouterAssumption
    /\ Regime!RegimeAssumption /\ Risk!RiskAssumption /\ Greeks!GreeksAssumption
    /\ Memory!MemoryAssumption /\ Signer!SignerAssumption /\ Tracker!TrackerAssumption
    /\ Mixture!MixtureAssumption /\ Training!TrainingAssumption
-----------------------------------------------------------------------------
(* Properties of the components. *)

\* Each object is well typed.
AllTypeOK ==
    /\ Knapsack!TypeOK /\ Hull!TypeOK /\ Structure!TypeOK
    /\ Tree!TypeOK /\ Cache!TypeOK /\ Guard!TypeOK
    /\ Regime!TypeOK /\ Router!TypeOK /\ Risk!TypeOK /\ Collar!TypeOK
    /\ Sizing!TypeOK
    /\ Training!TypeOK /\ Mixture!TypeOK /\ Tracker!TypeOK /\ Greeks!TypeOK /\ Numbers!TypeOK
    /\ Memory!TypeOK /\ Allocator!TypeOK /\ Signer!TypeOK

\* Each cell of the table holds the best set of the options considered, the hull
\* the undominated ones, and a structure keeps within the risk limit, however its
\* pointers changed.
OptimisersSound ==
    /\ Knapsack!TableExact
    /\ Hull!HullIsFrontier
    /\ Structure!StructureKeepsLimit

\* query_max is the maximum of its range.
QueriesExact == Tree!QueriesExact

\* The gammas were priced near the present spot and for the present chain.
GammasFresh == Cache!GammasFresh

\* The allocation loop frees what it was given, once.
BlocksAccounted == Allocator!BlocksAccounted

\* The regime filter's numbers are those of the best paths, and its flag tells
\* of every change.
RegimeFollowed == Regime!RegimeFollowed

\* Orders are split without loss, the put of a collar is within its limits and
\* the best there is, and positions keep to the risk allowed, however tight the
\* stop and whatever the estimate; a tighter stop loses nothing up to an edge of
\* one.
PositionsSound ==
    /\ Router!QuantityKept
    /\ Collar!CollarSound
    /\ Sizing!SizingSound
    /\ Numbers!RiskCapped

\* The audit reports damaged canaries and accepts an unused live block; an order
\* with one byte changed is not taken for the one signed.
DamageTold == Guard!AuditTells /\ Signer!AlterationTold

\* The greeks are the slopes of the price, the running variance that of the
\* returns, tails of the returns are in order, a hypothesis that is ahead stays
\* ahead, and of new mixtures the means stay among the observations, the variances
\* positive and the weights shares.
EstimatesSound ==
    /\ Greeks!GreeksRight
    /\ Numbers!VarianceExact
    /\ Risk!TailsOrdered
    /\ Memory!RankingKept
    /\ Mixture!MixtureSound

\* Training counts every path through the states and learns probabilities.
PathsCounted == Training!PathsCounted

\* The tracked volatility is the best linear estimate, its covariance the error's.
TrackingOptimal == Tracker!TrackingOptimal
=============================================================================
