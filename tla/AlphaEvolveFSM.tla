--------------------------- MODULE AlphaEvolveFSM ---------------------------
(***************************************************************************)
(* execution/alpha_evolve_fsm.hpp: the trading state and the active        *)
(* strategy, two atomics that the operations load and store one at a time, *)
(* with no lock.  One action per access for the operations that make more  *)
(* than one; any number of threads.                                        *)
(*                                                                         *)
(* Prices, correlations and percentiles only choose a branch: a call       *)
(* chooses the branch here.  detect_spoofing, evaluate_micro_vcp and       *)
(* compute_safe_leverage touch no state, and a call of                     *)
(* update_regime_hierarchy or evaluate_anchored_vwap that finds nothing    *)
(* changes none.                                                           *)
(***************************************************************************)
EXTENDS Naturals

CONSTANTS
    Threads,
    Feeders     \* the threads that call update_regime_hierarchy

ASSUME FeedersAssumption == Feeders \subseteq Threads

VARIABLES
    state,      \* current_state_
    strategy,   \* active_strategy_
    pc,         \* next step of each thread
    overridden  \* another operation stored a strategy since the last regime
                \* update stored its state (history)

vars == <<state, strategy, pc, overridden>>

States == {"IDLE", "DEFENSIVE_MODE", "CIRCUIT_BREAKER", "RECOVERY_MODE", "HALTED"}

\* Strategies of the six market regimes (lines 92-124), of the diagonals
\* (lines 134-165), of the calendars (lines 174-191) and of mutate_strategy.
AdvancedStrategies == {"LongStraddles", "ShortIronCondor", "RatioCallSpreads",
                       "RatioPutSpreads", "LongGamma", "PinRiskPlays"}
DiagonalStrategies == {"DoubleDiagonalSpread", "TunnelBullish", "TunnelBearish"}
CalendarStrategies == {"IronCondor", "LongCalendarPutSpread", "DiagonalPutSpread"}
Mutations          == {"PMCC", "IronCondor", "CalendarSpread", "VerticalSpread"}

Orchestrated == AdvancedStrategies \cup DiagonalStrategies \cup CalendarStrategies
Strategies == Orchestrated \cup Mutations \cup {"ProtectivePut", "CashSecuredPut"}

Init ==
    /\ state = "IDLE" /\ strategy = "VerticalSpread"
    /\ pc = [t \in Threads |-> "idle"]
    /\ overridden = FALSE

Step(t, from, to) == pc[t] = from /\ pc' = [pc EXCEPT ![t] = to]

StoreState(s) == state' = s /\ UNCHANGED strategy
StoreStrategy(s) == strategy' = s /\ UNCHANGED state
-----------------------------------------------------------------------------
(* update_regime_hierarchy *)

\* A limit down or a correlation beyond 0.95.
Contagion(t) ==
    /\ t \in Feeders
    /\ Step(t, "idle", "protect")
    /\ StoreState("CIRCUIT_BREAKER")
    /\ overridden' = FALSE

Protect(t) ==
    /\ Step(t, "protect", "idle")
    /\ StoreStrategy("ProtectivePut")
    /\ UNCHANGED overridden

\* A correlation below 0.6, and the load that sees the breaker.
Calm(t) ==
    /\ t \in Feeders
    /\ Step(t, "idle", "recover")
    /\ state = "CIRCUIT_BREAKER"
    /\ UNCHANGED <<state, strategy, overridden>>

\* Operators named Mutant_... are plausible bugs, which the properties must
\* refute when they take the place of the definition they precede.

\* Leaves the breaker's strategy in place.
Mutant_Recover(t) ==
    /\ Step(t, "recover", "idle")
    /\ StoreState("RECOVERY_MODE")
    /\ overridden' = FALSE

Recover(t) ==
    /\ Step(t, "recover", "harvest")
    /\ StoreState("RECOVERY_MODE")
    /\ overridden' = FALSE

\* The strategy of the advanced regimes, which trades without collateral.
Mutant_Harvest(t) ==
    /\ Step(t, "harvest", "idle")
    /\ StoreStrategy("NakedPut")
    /\ UNCHANGED overridden

Harvest(t) ==
    /\ Step(t, "harvest", "idle")
    /\ StoreStrategy("CashSecuredPut")
    /\ UNCHANGED overridden
-----------------------------------------------------------------------------
(* The other operations. *)

\* trigger_defensive_mode, called by itself, by orchestrate_advanced_regimes in
\* a crisis and by evaluate_anchored_vwap when support is lost.
TriggerDefensiveMode(t) ==
    /\ pc[t] = "idle"
    /\ StoreState("DEFENSIVE_MODE")
    /\ UNCHANGED <<pc, overridden>>

\* orchestrate_advanced_regimes, orchestrate_double_diagonal and
\* optimize_nd_calendar_spreads.
Orchestrate(t) ==
    /\ pc[t] = "idle"
    /\ \E s \in Orchestrated : StoreStrategy(s)
    /\ overridden' = TRUE
    /\ UNCHANGED pc

\* mutate_strategy: the test of line 213, then the store.
MutateCheck(t) ==
    /\ Step(t, "idle", "mutate")
    /\ state # "HALTED"
    /\ UNCHANGED <<state, strategy, overridden>>

MutateStore(t) ==
    /\ Step(t, "mutate", "idle")
    /\ \E s \in Mutations : StoreStrategy(s)
    /\ overridden' = TRUE

Halt(t) ==
    /\ pc[t] = "idle"
    /\ StoreState("HALTED")
    /\ UNCHANGED <<pc, overridden>>
-----------------------------------------------------------------------------
UpdateRegime(t) == Contagion(t) \/ Protect(t) \/ Calm(t) \/ Recover(t) \/ Harvest(t)

MutateStrategy(t) == MutateCheck(t) \/ MutateStore(t)

Next == \E t \in Threads :
    \/ UpdateRegime(t) \/ MutateStrategy(t)
    \/ TriggerDefensiveMode(t) \/ Orchestrate(t) \/ Halt(t)

Spec == Init /\ [][Next]_vars
-----------------------------------------------------------------------------
(* Properties. *)

TypeOK ==
    /\ state \in States /\ strategy \in Strategies
    /\ pc \in [Threads -> {"idle", "protect", "recover", "harvest", "mutate"}]
    /\ overridden \in BOOLEAN

UpdatesUnderWay == \E t \in Threads : pc[t] \in {"protect", "recover", "harvest"}

\* With one feeder, the two stores of a regime update (lines 51-52 and 55-56)
\* belong together once it has returned: a breaker with the protective
\* strategy, a recovery with the secured one, unless another operation chose a
\* strategy since, even one that began before the update.
PairAtRest ==
    ~UpdatesUnderWay /\ ~overridden =>
        /\ state = "CIRCUIT_BREAKER" => strategy = "ProtectivePut"
        /\ state = "RECOVERY_MODE" => strategy = "CashSecuredPut"
=============================================================================
