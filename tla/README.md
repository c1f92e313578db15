# EffataQuant in TLA+

TLA+ models of the C++ trading engine in `src/src/`, TLC configurations that
check them on small instances, and TLAPS proofs of the main results for every
value of the constants. Run everything in this directory: `tlc -config X.cfg M`
checks a configuration listed under "Runs", `tlapm M.tla` the proofs of a module
whose name ends in `Proofs` (and of `NumberLemmas`).

The repository is a collection of header-only components and one executable,
`main.cpp`. Some components are meant to be called by several threads, and a few
lock-free ones carry the risk; others estimate and decide on one thread. The models follow the code, access by access where
threads meet; comments in the modules give source lines.

## 1. Inventory

| Component (under `src/src/`) | State | Operations | Hard behaviour | What makes it correct |
|---|---|---|---|---|
| Ring buffer `core/ring_buffer.hpp` | `head_`, `tail_`, slots | `push`, `pop`, `pop_spin`, `empty_heuristic` | one producer and one consumer without a lock; stale index loads; wrap at the mask | no slot touched by both sides, items come out once, intact, in order; the spin ends |
| Cache-aligned queue `core/cache_aligned_lock_free_queue.hpp` | cells with a sequence number, `head_`, `tail_` | `try_push`, `try_pop` | full and empty told by a sequence number that may be stale; capacity one | as above; a polling consumer gets every item |
| Lock-free slab `memory/lock_free_slab.hpp` | tagged head, links inside free blocks, metrics | `allocate`, `deallocate`, `available` | ABA, retries, tag and index widths, exhaustion | a block has one owner and none is lost; the poison tells free from used; metrics settle |
| Revenge-trading breaker `risk/anti_revenge_circuit_breaker.hpp` | ring of trades under a spinlock; flag and expiry outside it | `record_trade`, `is_allowed_to_trade`, `get_status` | flag and expiry are separate atomics, time passes between any two steps | no trade of the window missed; a trip blocks until it expires; the lock is released |
| Tick loop `main.cpp`, agent client `agents/async_llm.hpp` | pending flag, send time, socket | `send_async`, `try_recv`, the loop | lost sends, late replies, timeouts | one reply per prompt; the loop ends |
| Strategy machine `execution/alpha_evolve_fsm.hpp` | state, strategy (two atomics) | nine operations that store either | check then store, stores of two threads between each other | state and strategy agree after a regime update |
| Order queue `core/qos_queue.hpp` | three FIFOs under a mutex | `enqueue`, `dequeue`, `has_items` | strict priority, a hint that outlives its lock | critical orders are always served, the others when load lets up |
| Trade journal `analytics/trade_journal.hpp` | six atomic counters | `record_trade`, ratios | a maximum kept by load and store | sums agree up to calls under way; the maximum covers what was recorded |
| Canary guard `memory/canary_guard.hpp` | guards around a block | `initialize`, `mark_freed`, `validate` | life cycle, checksum of writable data, what lies between a canary and the data | damage to a canary is reported, a freed block is never taken for a live one |
| GEX cache `analytics/gex_cache.hpp` | cached gammas, last spot, dirty flag | `update_chain`, `compute` | many small moves, chains of equal size | no gamma is older than the tolerance allows |
| Memory pool, allocator `memory/numa_memory_pool.hpp`, `hft_allocator.hpp`, and their loop in `main.hpp` | blocks in use | `allocate`, `deallocate` | `malloc` that fails, once or twice in a row | each block is freed once and none is lost |
| Regime filter `regime/dgmh_eigen.hpp` | state probabilities, transitions, mixtures, current state, change flag | `filter_online`, `train`, `reset_regime_change_flag` | recurrences over several buffers, retraining in between, hysteresis, mixtures updated in place | the numbers are those of the best paths, the flag tells of every change, training makes the observations no less likely |
| Knapsacks `optimization/dp_knapsack_2d.hpp`, `pricing/dp_knapsack_optimizer.hpp` | tables of a call | `solve`, `apply_convex_hull` | tables overwritten in place, rounding, back-pointers into overwritten cells, unstable sort | the selection fits and is the best; the hull is the undominated options |
| Segment tree `core/advanced_data_structures.hpp` | node array | `build`, `update`, `query_max` | index arithmetic when the size is no power of two | a query is the maximum of its range |
| Hidden Markov model `ml/robust_hmm.hpp` | posterior | Viterbi, `filter_step` | transitions and means are never set, so all states are alike | – |
| Order router `execution/smart_router.hpp`, `core/messages.hpp` | beliefs about brokers | `split_order`, `record_execution` | quantities that do not divide | no quantity is lost |
| Order execution `execution/delta_projected_executor.hpp` | a queue | `submit_order`, `calculate_exit_levels` | a failed push is ignored; the header of its queue does not exist | – |
| Collar `strategies/mark_cuban_collar.hpp` | interval of strikes | `calculate_optimal_collar`, `validate_buffett_compliance` | halving under two limits | the put is within the limits and the highest such |
| Risk metrics `risk/advanced_risk_manager.hpp` | – | `calculate_risk_metrics` | tails of short histories | tails are in order |
| Position sizing `strategies/hyperbolic_econophysics.hpp` | – | `calculate_optimal_position` | the least of three limits, division by the stop | no more risk than allowed; a tighter stop never makes a position smaller nor, up to an edge of one, takes its viability |
| Hypothesis memory `agents/hypothesis_memory.hpp` | hypotheses with time stamps | `add_hypothesis`, `get_top_k` | a comparator that reads the clock, ages in whole seconds | what is ahead stays ahead |
| Order signer `security/enclave_signer.hpp` | – | `sign_payload`, `verify_signature` | a payload changed on its way | a changed byte is told |
| Volatility tracker `analytics/ukf_tracker.hpp` | state and covariance | `predict`, `update` | weights of a million that cancel, covariance by subtraction | the estimate is the best linear one and the covariance its error |
| Greeks `pricing/aad_greeks.hpp`, forecasts `analytics/asymmetric_engine.hpp` | – | `compute_hamiltonian`, three analyses | derivatives written by hand | the greeks are the slopes of the price |
| Decision rules `risk/compliance_guard.hpp`, `strategies/gex_aware_breakout.hpp`, `ai/dynamic_pattern_validator.hpp` | – | predicates | boundaries | the documented thresholds |
| Law of large numbers `risk/law_of_large_numbers.hpp` | running variance | `update`, `compute_fraction`, `calculate_shares`, random simulation | sums kept as a mean and squares, a cap before a rounding | the variance is that of all returns, no trade risks more than the cap |
| Broker and reactor `ibkr/`, `ipc/`, `network/` | connection flag | stubs that print | – | – |
| Numeric models `pricing/bates_pricer.hpp`, `pricing/hamiltonian.hpp`, `risk/evt_engine.hpp`, `risk/t_copula_cvar.hpp` ... | floating point | integrals, fits, closed formulas | numerics | out of TLC's reach |
| `main.hpp` | its blocks | not compiled by any target: an allocation loop, then one call of each of three components | – | with the allocator |

Interaction. `main.cpp` runs alone: each tick it prices a constant chain, sends a
prompt through `async_llm.hpp` and polls for the answer, so the tick loop and the
client form one model. `delta_projected_executor.hpp` names a queue whose header is missing.
The other components share nothing in this repository: their callers are outside
it, which is why each model lets its callers do any legal sequence of calls:
several threads where the component is made for them, one where it is not.

## 2. Modules and how they follow the code

| Module | Models | Correspondence |
|---|---|---|
| `RingBuffer` | `core/ring_buffer.hpp` | `headLog`, `tailLog` are the modification orders of the two indices: an acquire load of the other side's index returns any value at or after the one last seen. One action per access: `PushCheck` (lines 54-60), `PushWrite`, `PushPublish`, `PopCheck`, `PopRead`, `PopPublish`, the spin and the probes |
| `CacheAlignedQueue` | `core/cache_aligned_lock_free_queue.hpp` | each cell carries the values its sequence number had; `Load` picks any not older than the thread's last; the position is advanced after the release store, as in the code |
| `BoundedFifo` | what both queues promise | a FIFO of a bounded number of items whose pushes and pops are atomic |
| `LockFreeSlab` | `memory/lock_free_slab.hpp` | head word as [index, tag] with scaled widths `IdxMod` and `TagMod`; one action per load, read, compare-exchange (strong or spuriously failing), poison and counter update |
| `BlockPool` | what the slab promises | each block is free, on its way out, held or on its way back; one atomic step moves one block |
| `AntiRevengeBreaker` | `risk/anti_revenge_circuit_breaker.hpp` | `record_trade` reads the clock, takes the spinlock, appends, evaluates, and stores flag and expiry separately; `is_allowed_to_trade` loads, compares and clears step by step; `Tick` lets time pass anywhere |
| `QuantumEngine` | `main.cpp`, `agents/async_llm.hpp` | `Tick` and `Heartbeat` are the loop, `SendAsync` and the `Poll...` actions the client; the agent and the socket are external and may delay, drop or never answer |
| `AlphaEvolveFSM` | `execution/alpha_evolve_fsm.hpp` | state and strategy are stored one at a time; branch conditions on prices are a choice |
| `QoSQueue` | `core/qos_queue.hpp` | each operation is atomic under the mutex |
| `TradeJournal` | `analytics/trade_journal.hpp` | one action per atomic of `record_trade` |
| `DPKnapsack2D`, `StrategyHull` | `optimization/dp_knapsack_2d.hpp` | `solve` and `apply_convex_hull`: `Consider` is a turn of the outer loop (lines 72-89), the two inner loops a function of the table before; `Look` is an option of the hull's loop |
| `DPKnapsackOptimizer` | `pricing/dp_knapsack_optimizer.hpp` | `ConsiderLeg` is a turn of the outer loop, `Walk` the way along the back-pointers as they are at the end |
| `IterativeSegmentTree` | `core/advanced_data_structures.hpp` | one action per call, the index arithmetic as it is; `Looked` is the loop of `query_max` |
| `GEXCache` | `analytics/gex_cache.hpp` | a gamma is what it was computed from, the spot and the instrument |
| `CanaryGuard` | `memory/canary_guard.hpp` | the block word by word; `Store` and `Stray` are the code around it |
| `DGMHEigen` | `regime/dgmh_eigen.hpp`, the filter | `FilterOnline` is the recurrence of lines 224-258 with logarithms to base two; emissions are a table, training yields one of a few matrices; state and flag are stored one after the other, and the flag may be reset in between |
| `DGMHTraining` | the same, `forward_backward_log` and the new transitions | `Forward` and `Backward` are turns of the loops over time, with weights in place of logarithms; what only scales a row is left out |
| `DGMHMixture` | the same, the new mixture of a state (lines 354-466) | `UpdateComponent` is a turn of the loop over components, in place; the two densities are tables. The `1e-10` in sums (lines 397, 449) and the component skipped for a mass below it (line 404) are left out: densities are positive, and the property speaks of the components that were renewed |
| `UnscentedKalmanFilter` | `analytics/ukf_tracker.hpp`, one state and one observation | the state is kept as the linear form it is in the observations, so one behaviour stands for all of their values |
| `AADGreeks` | `pricing/aad_greeks.hpp`, `analytics/asymmetric_engine.hpp` | `Reprice` changes one input; prices and greeks are exact multiples of `1 / Scale` |
| `LawOfLargeNumbers` | `risk/law_of_large_numbers.hpp` without its simulation | `Observe` is `StableVariance::update`, `Size` the tier and the shares made of it |
| `HypothesisDatabase` | `agents/hypothesis_memory.hpp` | the clock moves between calls; equal scores may be sorted either way |
| `AllocatorLoop` | `main.hpp:55-75`, `memory/hft_allocator.hpp`, `memory/numa_memory_pool.hpp` | `Operate` is a turn of the loop; `malloc` is external and may fail at any time |
| `EnclaveSigner` | `security/enclave_signer.hpp` | the hash with fewer bits, `Xor` bit by bit; `Alter` is what happens to an order on its way |
| `Fractions` | – | exact fractions, for what the code does in floating point |
| `SmartOrderRouter` | `execution/smart_router.hpp` | any broker may win a sample |
| `AdvancedRiskManager` | `risk/advanced_risk_manager.hpp` | averages as sum and count, tails as parts of a whole |
| `MarkCubanCollar` | `strategies/mark_cuban_collar.hpp` | `Halve` is a turn of the loop of lines 65-91, for any pricing of puts |
| `HyperbolicEconophysics` | `strategies/hyperbolic_econophysics.hpp` | one action per call. The factor is a table. The risk of ruin, `(1 - edge)^(1 / risk)`, is the set of outcomes of its test against 1%: from the edge at which it falls below (`SafeEdge`, a number for each risk) to the same distance beyond one; below, too, past one for an odd exponent, where it is negative; either, past one for a fractional one, where `pow` has no number to give and `-ffast-math` no rule for comparing it |
| `NumberLemmas` | – | lemmas about numbers, fractions, sums over finite sets and ways through finitely many states |
| `...Proofs` | – | the theorems about the module named; `EstimateProofs` continues `SequentialProofs` |
| `MCSharedObjects` | – | strategy machine, order queue, journal and breaker, which share nothing: a behaviour works on one of them |
| `SequentialObjects` | – | the components from `DPKnapsack2D` to `EnclaveSigner`, with their constants and what is assumed of these |
| `MCSequential` | – | these, in the same way |
| other `MC...` | – | model values for TLC |

`Mutant_...` operators stand beside the definition a plausible bug would turn
into them. With the mutant in place of the definition the property named for it
in `PROJECT.json` is violated; they take part in nothing else.

Abstractions common to all. Prices, payloads and prompts are small integers or
model values. An atomic access is one step. `RingBuffer` and `CacheAlignedQueue`
let loads be stale as C++ allows; the other models read the newest value, which
is what x86, the build's `-march=native` target family, gives for one location.
Printing and time formatting are left out.

## 3. Runs

| Run | Shows | Bounds, and why they are enough |
|---|---|---|
| `ring_buffer` | slots safe, hints exact on one side, implements `BoundedFifo`, `pop_spin` returns | 4 slots, 9 pushes: the indices wrap twice, the ring is full and empty at every offset |
| `cache_aligned_queue` | cells safe, implements `BoundedFifo`, a polling consumer gets every item | 4 cells, 9 pushes, as above |
| `cache_aligned_queue_one_cell` (violation) | with `Capacity = 1`, which the `requires` clause admits, a full queue is not refused | 4 items |
| `slab` | implements `BlockPool`; list and poison intact, one owner for each block, counters right up to operations under way, every operation ends | 2 threads, 3 blocks, 4 allocations; at most `MaxStall = 2` updates of the head in a window and `TagMod = 3` tags: the real tag has 16 bits, and ABA safety needs fewer updates in a window than tags. 3 blocks are what the classic ABA scenario takes |
| `slab_exhausted` (violation) | `NULL_INDEX` does not fit the 48 bits of the head, so an empty pool is not recognised and `allocate` reads outside it | 2 blocks, 3 allocations |
| `breaker_race` (violation) | with overlapping calls the flag of a new trip is cleared and trading goes on in the break | 2 threads, 3 records |
| `engine` | one reply per prompt, the lag behind the prompts never shrinks while nothing is lost, the loop ends | 4 sends, a socket of 2 places, a timeout of 1 tick |
| `shared_objects` | after a regime update state and strategy are a pair; critical orders are served under any load, others once the load above them stops, `has_items` holds for a lone consumer; the journal's sums agree up to the calls on their way, and calls that do not overlap keep the largest margin; the breaker's lock excludes and is released, a refusal stands on a live trip, and in calls that do not overlap no trade of the window is missed and a trip blocks for its break | 2 threads, one of them the feeder of regimes; queues of 2, one consumer; 2 writers and 3 trades of different margins; for the breaker a ring of 3 that wraps with 4 records, break and window of 1, clock to 3, three kinds of trade that meet each criterion and miss it |
| `sequential` | optimisers: the knapsack's table is exact in every cell, the hull is the frontier, a structure keeps its risk limit; queries and gammas are right; the audit and the signature tell damage; the loop accounts for its blocks; the regime filter follows the best paths, training counts every path and makes the observations no less likely, mixtures stay among the data; the tracker is the best linear estimate; estimates (greeks, variance, tails, ranking) are right; positions (fragments, collars, sizes, shares) keep to their limits | all calls with 2 options or legs, 3 offers to the hull; 5 leaves, no power of two; 2 instruments and spots within and beyond the tolerance; 2 lives of a block; 3 states, 3 observations, two trainings; sequences of up to 3 observations and 2 states to train; 2 components, 2 observations, densities that favour either or none, before and after the mean moves; 5 calls of the tracker in any order; 4 spots and strikes, volatility and time from zero up; 3 returns, estimates below, above and far above the cap; 3 hypotheses over two seconds; 4 blocks, 5 operations, two blocks kept; payloads of 2 bytes; 2 orders in up to 3 fragments; up to 4 returns; 7 strikes with any prices; 5 stops, one of them none, returns up to 9.2 times the capital, and risks whose inverse is an even, an odd and a fractional number, so that edges pass one and two |
| `knapsack_capital` (violation) | the selection may cost more than the capital, because each option is rounded down to whole units | the same options |
| `guard_strays` (violation) | a store just in front of the data goes unreported | the same block |
| `sizing_ruin` (violation) | beyond an edge of one a tighter stop may take the viability of a position | the same stops, returns and risks |

Fairness. `ring_buffer` and `cache_aligned_queue`: weak fairness of the steps of
a call under way, of the spin's successful look and of a consumer that polls. A
successful look stays possible once an item is published, so weak fairness of it
says that a published value is seen in the end, as C++ asks of implementations
("should become visible to atomic loads in a finite amount of time"). `slab`:
weak fairness of the steps of a call under way, strong fairness of its
compare-exchanges, because `compare_exchange_weak` may fail without cause but not
each time for ever; that operations are finitely many bounds the real failures.
`engine`: weak fairness of the loop and the clock, none of the agent.
`shared_objects`: weak fairness of the consumer that keeps draining the order queue
and of each step of the breaker's `record_trade`, taking the lock included; with
finitely many records the lock is not passed round for ever. Nothing else is fair.
`sequential` states none. A step of the slab that maps to no step of the pool is a
stutter; fairness is not part of that refinement.

Deadlock is checked except where the model stops at its bounds
(`CHECK_DEADLOCK FALSE`: slab, engine, the runs of the two composed modules).

Some properties speak of less than all interleavings, because the code promises no
more or does not keep it: `WindowComplete`, `BlockedInSequence` and the largest
margin of `JournalExact` of calls that do not overlap (the race of a trip with a
check is `breaker_race`), `PairAtRest` of one feeder of regimes and of strategies
that no other operation chose since, `DamageTold` of blocks without ordinary stores.
`TrackingOptimal` is about exact fractions, not about the cancellation of doubles.

`MCSharedObjects` and `MCSequential` put objects side by side that do not
interact. A property of one object is not weakened by this: each is chosen in
an initial state and runs through all its behaviours.

## 4. Proofs

Each safety theorem follows the same argument: an inductive invariant that
strengthens the property, its three facts (initially true, kept by every action,
implies the property), and a temporal step. TLC checked the properties, and the
larger strengthenings, on the run's instance before they were proved. The theorems hold for every value of
the constants that the modules' named assumptions admit; assumptions beyond these
are hypotheses of the theorem and named here.

- `RingBufferProofs`, for every power-of-two size and any number of pushes. The
  invariant `Indv` says that the n-th value of each index is n modulo the size
  (`LogsWrap`), how far the two counts and the positions seen by each side may
  differ (`Occupancy`, `AccessesAcquired`), what waits in the slots
  (`UnreadIntact`, `InFlight`) and what a hint means (`HintPositions`). The
  property alone is not inductive: that a stale index is safe rests on the
  modification order. Proved: `TypeCorrect`, `SlotsAreSafe`, `HintsGuarantee` and
  `Refinement` (`Spec => ImplementsFifo`).
- `CacheAlignedQueueProofs`, for every capacity above one: `TypeCorrect`,
  `CellsAreSafe`, `Refinement`. The invariant describes the history of each
  cell's sequence number, from which a stale load's answer follows. The
  assumption is needed: `cache_aligned_queue_one_cell` shows what happens without.
- `LockFreeSlabProofs`, for any number of threads and blocks and any field widths:
  `TypeCorrect`, `PoolStaysIntact`, `MetricsAreExact` and `Refinement` (`Spec =>
  ImplementsPool`). The invariant says that some sequence of distinct blocks is the
  list from the head (`Listed`), that each block is in it, with one thread or held
  and poisoned (`Owned`, `Poisoned`), and, for a thread between its load of the
  head and its exchange, that as many updates have passed as the tag has moved
  (`Windowed`): an exchange that succeeds then met no update at all, so
  the `next_index` it installs is still that of the head. `PoolIntact` is not
  inductive: it does not say what a stale window may hold. `MetricsAreExact` needs
  besides that a peak which a thread has seen was reached (`PeaksSeen`). All four assume `StallsShort`: fewer updates fall into
  one window than the tag has values, 2^16 in the code. The code cannot promise
  this, it is what its tag rests on; with as many updates an exchange may succeed
  on a stale link.
- `QuantumEngineProofs`, for any pace, timeout and high-water mark: `TypeCorrect`,
  `RepliesPaced`, `NeverCatchesUp`. The invariant orders what is under way: replies
  queued are older than prompts queued and newer than the reply handed out last
  (`InOrder`), and without losses they are the prompts since then without a gap
  (`NoGap`), which is why the lag cannot shrink.
- `SharedObjectsProofs`, for any threads, consumers, queue lengths, trades, ring sizes
  and thresholds:
  `TypeCorrect`, `JournalKeepsBooks`; `HintKept` for one consumer (`LoneConsumer`)
  and `UpdatesPair` for one feeder of regimes (`OneFeeder`) among any number of
  other threads. Two consumers, or two feeders, do break the last two. The order
  queue's invariant places the watched order in the queue of its priority; the
  journal's adds to the balance which side a trade on its way is booked on
  (`Sided`), and that calls which do not overlap load the margin that is stored
  (`JAlone`). Of the breaker: `LockExcludes` and `RefusalsStand` from `BreakerInv`, which
  overlapping calls keep; `WindowsComplete` and `BlockedWhileInSequence` from
  `BreakerSequenceInv`, which adds that time stamps lie in the past (`ClocksPast`) and
  what holds until two calls have overlapped (`InTurn`: at most one call under way, the
  ring in the order of its stamps, flag and expiry those of the last trip).
- `NumberLemmas`: remainders of a sum, and that positions less than a turn apart
  have different remainders, on which the queues, the slab and the breaker rest;
  least numbers, quotients and products; that a recursion over the naturals has one
  solution (`RecursionOverNat`); powers of two, and the exclusive or; fractions in
  lowest terms. Sums over finite sets, as the library folds them: that they exist
  (`SumsExist`), that they agree where the terms do (`SumsAgree`), and what taking a
  member out leaves (`SumsRemove`). The weights of all ways through finitely many
  states: the ways that share a state or a move of one way (`StateShares`,
  `MoveShares`) weigh what the forward and the backward recursion say
  (`ForwardCounts`, `BackwardCounts`).
- `SequentialProofs`, up to `OptimisersStaySound`, and `EstimateProofs`, from
  `VariancesExact` on: one section for each component that one thread uses at a
  time (`SequentialObjects`). `MCSequential` evaluates what it assumes of the
  constants (`SequentialAssumption`); nothing else is assumed.
  - `GammasStayFresh`, for any spots, chains and tolerance; `LoopAccounts`, for any
    number of blocks and operations, from what is held, live and freed by mistake
    (`LoopInv`); `AuditsTell`, for a block of any size (`GuardInv`: the words
    outside the canaries, and what each of the three lives has written).
  - `CollarsSound`, for any number of halvings and any pricing. `CollarInv` says that
    the lower end of the interval is the put found, within both limits, once there
    is one, and that the upper end is not within them; `Halved`, that the turns left
    are as many as the interval still needs to shrink to neighbours.
  - `QueriesTell`, for any number of leaves, a power of two or not. The three
    recursions of the code (`build`, the climb of `update`, the walk of
    `query_max`) are functions that the model picks by `CHOOSE`; each is shown to
    have a solution. Each inner node keeps the larger of its two children, and what
    bounds the nodes that the walk looks at bounds the leaves asked for, and the
    other way round (`LookedCovers`), which is where the odd sizes could go wrong.
  - `QuantitiesKept`, for any number of orders and fragments, from sums over a
    vector that grows (`DealtJoined`); `SizesSound`, for any table of factors that
    does not rise with the stop, any expected returns and any risks: up to an edge of
    one the outcome of the test of ruin is that of `SafeEdge <= edge` (`RuinIs`), and
    the edge rises as the stop tightens (`EdgeRises`); beyond one the theorem claims the
    limit and the size, not the viability; `RisksCapped`, for any returns, estimates and
    scale. With the collar's they make `PositionsStaySound`, the whole of
    `PositionsSound`.
  - `OptimisersStaySound`, from its three parts. `TableStaysExact`: each cell holds
    the best of all sets of the options before the next one (`HoldsBest`); a best set
    with the new option is a best set without it of the cell that much smaller, which
    the code, going downwards, has not overwritten yet. `HullStaysFrontier`: what a
    new option removes it is as good as, and dominance is transitive, so the order of
    the sort does not matter. `LimitsKept`: the cell that a
    back-pointer names may be overwritten, but only bettered, so a cell scores no more
    than that one and its leg together (`Linked`); the walk goes down by each leg's
    weight, so the legs it reads weigh no more than the cell they are read from.
  - `VariancesExact`, for any returns, one after the other (`VarianceInv`): with `n`
    returns so far, the distances of the next one from the old and the new mean are
    `n + 1` and `n` times the same number (`MeanMoves`). It assumes of `Scale` that the
    divisions come out even, as the model needs it.
  - `RegimeIsFollowed`, for any states, emissions and trainings. The reference is a
    maximum over all paths, whose weight is a sum along the path: a best path into a
    state is a best path into one of its predecessors, continued (`BestGoesOn`), and
    what was a best path before a retraining is the start of one after it. The flag
    is raised whenever the state differs from the one last seen (`FlagTells`).
  - `GreeksAreSlopes`, for any prices, volatilities and roots whose distances divide
    the unit of the model, so that each quotient is a multiple (`PulledIs`). What the
    code wrote by hand is compared with the change of the price itself: a step up and
    a step down of one input bound the greek from either side (`SpotMoves`,
    `VolMoves`, `TimeMoves`), the step over the strike included, and the forecasts
    of the engine have the sign that these changes give them.
  - `TailsInOrder`, for any history: the sort yields a rising sequence
    (`SortedRises`), and the average of its first members rises with their number
    (`AveragesRise`), so a tail cut off further out is no better.
  - `RankingsKept`, for any profits, times and `k`. `MemoryKept` says that what was
    returned last was the top of some order by scores at some time, whenever that
    was; a hypothesis that is ahead by more than a second's decay has the higher
    score at every time (`AheadAtAnyTime`), whole seconds or not.
  - `AlterationsTold`, for any length of payload and any width. Exclusive or with
    either operand is undone by itself (`XorUndone`) and the product by the
    multiplier's inverse (`ProductUndone`), so two payloads that differ in one byte
    have different hashes from there on (`HashTells`).
  - `MixturesFit`, for any number of components and observations and any densities
    the tables may hold. `MixtureInv` says of each component already renewed that its
    mean is no less than any lower bound, and no more than any upper bound, of the
    readings of its observations, that its variance keeps the floor and its weight is
    at most one; all are fractions in lowest terms, which the code's quotients keep.
    That the two densities differ, and that later components are weighed against
    earlier ones already renewed, does no harm to these.
  - `VolatilityTracked`, for any number of calls in any order and any noises. The
    reference is the condition on the best linear estimate: what is left of the state
    after the estimate is uncorrelated with every observation. `TrackerInv` keeps a
    form of it that a step can use (`Tracks`: the weights in `x` explain what the
    state shares with every observation, and `P` is what they leave); the sigma
    points have the mean and the spread they are meant to have (`CentreIs`,
    `SpreadIs`), and the gain of the code is the one that leaves nothing shared with
    the newest observation (`GainLeaves`, `GainExplains`).
  - `PathsStayCounted`, for any number of states and any sequences. `TrainingInv` says
    that every row finished is that of its recursion: an entry of a forward row weighs
    all paths that end there, one of a backward row all ways on (`SharesCount`). The
    shares the code adds to the new transitions are then those of the paths through a
    state or a move, and each new row adds up to its whole (`RowsAddUp`).
  - `EstimatesStaySound` and `DamageIsTold` put the parts together: the whole of
    `EstimatesSound` and `DamageTold`.
  - `TypesKept`: the types of all components, `AllTypeOK`. Several need more than
    the types themselves: that the options chosen for a cell come before the next
    one (`ChoicesInv`, `CellsInv`), that the hull is made of the options offered
    (`HullSmall`), that a ranking has as many members as were asked for and there,
    each once (`Answered`).

Induction. The library's induction theorems take an operator as a parameter and
cannot be used. Where a proof needs induction it takes a least, or a smallest,
counterexample, which exists by well-foundedness (`WFMin`): the slab's walk along
the list, and the journal's fold over the threads, are treated in this way, their
definitions by `CHOOSE` shown to have one solution; so are the sums, trees and walks
of `SequentialProofs` and `EstimateProofs` (`LeastNumber`), and the sums over finite
sets (a smallest set for which the claim fails).

Only model-checked: liveness (`SpinReturns`, `EveryItemDelivered`, `OpsEnd`,
`RecordsEnd`, `EngineStops`, `OrdersServed`), since liveness under fairness and
ENABLED are out of the prover's reach; and `TrainingImproves`, that training makes
the observations no less likely. It compares products of powers over all paths, the
inequality behind the method of Baum and Welch, which takes convexity.

## 5. What the checks found

- `slab_exhausted`: an empty slab does not return `nullptr`.
- `cache_aligned_queue_one_cell`: capacity one overwrites unread items.
- `breaker_race`: a trip can be undone by a concurrent check.
- `knapsack_capital`: "Sum(Capital_i) <= C" (`dp_knapsack_2d.hpp:42`) does not
  hold. Two options of 1900 dollars each weigh one unit each and fit 2000.
- `guard_strays`: the header puts the block's number and generation between the
  first canary and the data, so an underflow by a word or two changes neither
  canary, and `validate` says "OK". Lines 12 and 18 of `canary_guard.hpp` promise
  otherwise.
- `sizing_ruin`: "RISK TO RUIN: Probability of Blowing Up"
  (`hyperbolic_econophysics.hpp:133`) is no probability once the edge passes one. A
  win rate of 22%, an expected return of 9.2 and a risk of 0.5% are viable at a stop
  of 15%, where the edge is 1.907; at 3% it is 2.0006, the power 1.13, and the
  position is refused for "High risk of ruin". With a risk whose inverse is odd the
  power is negative there and passes; where it is no integer it is NaN, and a
  position may be refused without a reason. `SizingSound` claims viability up to
  an edge of one, and a reason where the risk of ruin is a number.

Not runs, but worth knowing. The tiers of risk go past those listed in "Force
geometric escalation constraints: [0.5%, 1.0%, 1.5%, 2.0%, 2.5%, 3.0%]"
(`law_of_large_numbers.hpp:105`): the cap is 5%, so 3.5% to 5.0% occur, and
`RiskCapped` holds the code to the 5% of line 106. The audit of a guarded block
reports "DATA CORRUPTION" after the owner's first ordinary store, since the checksum
is that of zeroes and never renewed (`DamageTold` speaks of blocks without stores).
A structure of `DPKnapsackOptimizer` may name a leg twice and have another number of
legs than asked for, because back-pointers lead to cells that later legs overwrote;
its risk limit holds all the same (`OptimisersSound`). Two overlapping
`record_trade` calls of the journal may let the smaller margin stay. `split_order`
makes empty fragments of a quantity below their number. A risk verdict without any
history may be "safe", and a position without a stop is sized by Kelly alone and may
be viable. `dynamic_pattern_validator.hpp:86` speaks of Pennants accepted on a
strong signal, but 0.50 times the largest factor, 1.2, is below the 0.65 asked for.
`halt` of the strategy machine stores a state that every operation but
`mutate_strategy` stores over; with as many updates of the slab's head in one window
as its tag has values, ABA is back; overlapping `record_trade` calls may enter
trades out of order of their stamps, which the window's scan takes for its end.

From the estimating code. Mixtures are updated in place: later components are
weighed against the new mean and weight of earlier ones with their old inverses,
so the weights of a state need not sum to one; and the variance is weighed by
another density than the mass it is divided by. Training on one observation
divides zero by zero (`dgmh_eigen.hpp:347`), in a build with `-ffast-math`. The
ranking of hypotheses never changes but for ages cut to whole seconds: every
profit decays at one rate. An option at or past its expiry is priced zero, not at
its intrinsic value (`aad_greeks.hpp:107`), and at the strike a call's delta takes the
intrinsic value's left slope and the field's right one. These greeks have no
vomma and no charm, so the engine's answer to both is always "Short Vol
Convexity" and "MM SELLING". Two changed bytes may cancel in a signature.

From code that is not modelled. `delta_projected_executor.hpp:52` sets the stop
by the delta less the decay, as the target; against the position the decay adds to
the loss, so with a decay above zero the stop loses more than `max_loss_dollars`,
and an order of negative delta is never accepted, although line 39 takes its
absolute value. Nothing reads the executor's queue, whose refusals are ignored.
`gex_aware_breakout.hpp` leaves the expected move of a rejected breakout
uninitialised, and gives the pressure of dealers the sign opposite to line 18 when
exposure is strong.

## 6. Not modelled, and the plan

- `ml/robust_hmm.hpp`: transitions and means are never set, so every path scores
  alike and there is nothing to get wrong in choosing one.
- `ibkr/`, `ipc/`, `network/`: stubs. The reactor's commands print, the broker's
  socket write is a comment, and its flag guards nothing.
- Integrals, fits and random paths in floating point: `bates_pricer.hpp`,
  `hamiltonian.hpp`, `evt_engine.hpp`, `t_copula_cvar.hpp`, `strategy_predictor.hpp`
  and the simulation of `law_of_large_numbers.hpp`. What TLC can evaluate exactly
  is modelled; these it cannot.
- Closed formulas and predicates without state: `greeks_kelly.hpp`,
  `hrp_allocator.hpp`, `greeks_aggregator.hpp`, `compliance_guard.hpp`,
  `gex_aware_breakout.hpp`, `dynamic_pattern_validator.hpp` and the exit levels of
  `delta_projected_executor.hpp`. A property would repeat the formula.
- Rounding: the exact modules say that the formulas are right, not how far
  doubles stray from them.
- Printing, the build. A slab's caller who frees twice is outside the model, and
  so is a comparator whose clock moves within one sort.

Next: that training makes the observations no less likely for any number of states;
how far rounding may take the estimates from the exact values.
