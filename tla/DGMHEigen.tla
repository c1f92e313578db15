----------------------------- MODULE DGMHEigen -----------------------------
(***************************************************************************)
(* regime/dgmh_eigen.hpp: the online filter of the regime model, its       *)
(* regime-change flag, and training as far as the filter sees it.          *)
(*                                                                         *)
(* Logarithms are to base two and integers, so that probabilities compare  *)
(* exactly.  An emission is looked up in place of the mixture density it   *)
(* is computed from; training yields one of a few transition matrices.     *)
(* The state and the flag are two atomics: another thread may reset the    *)
(* flag between the stores of lines 253 and 254.                           *)
(***************************************************************************)
EXTENDS Integers, Sequences, FiniteSetsExt

CONSTANTS
    NStates,        \* n_states
    Observations,   \* feature vectors
    EmissionLogs,   \* log_emission_probability: observation -> state -> Int
    Trainings,      \* log transition matrices that training may yield
    Threshold,      \* regime_change_threshold, in per cent
    MaxObserved     \* bound: calls of filter_online

RegimeAssumption ==
    /\ NStates \in Nat \ {0}
    /\ \A o \in Observations : EmissionLogs[o] \in [0..(NStates - 1) -> Int]
    /\ Trainings \subseteq [0..(NStates - 1) -> [0..(NStates - 1) -> Int]]

VARIABLES
    log_transition,     \* log_transition_matrix_
    log_probs,          \* logarithms of current_probs_, up to a common term
    current_state,      \* current_state_
    change_detected,    \* regime_change_detected_
    raising,            \* filter_online is between its two stores
    observed,           \* [transition, observation] of each call (history)
    acknowledged        \* the state when the flag was last reset (history)

vars == <<log_transition, log_probs, current_state, change_detected, raising,
          observed, acknowledged>>

States == 0..(NStates - 1)
Uniform == [i \in States |-> [j \in States |-> 0]]

Init ==
    /\ log_transition = Uniform
    /\ log_probs = [j \in States |-> 0]
    /\ current_state = 0 /\ change_detected = FALSE /\ raising = FALSE
    /\ observed = <<>> /\ acknowledged = 0

\* Operators named Mutant_... are plausible bugs, which the properties must
\* refute when they take the place of the definition they precede.

\* Written over log_probs itself: later states read earlier ones' new values.
Mutant_Updated(o) ==
    LET new[j \in States] ==
          Max({(IF i < j THEN new[i] ELSE log_probs[i]) + log_transition[i][j] : i \in States})
            + EmissionLogs[o][j]
    IN new

\* The best way into each state, and the emission there: new_probs_buffer_.
Updated(o) ==
    [j \in States |-> Max({log_probs[i] + log_transition[i][j] : i \in States})
                        + EmissionLogs[o][j]]

Best(probs) == Max({probs[j] : j \in States})
BestState(probs) == Min({j \in States : probs[j] = Best(probs)})
Normalised(probs) == [j \in States |-> probs[j] - Best(probs)]

\* The best state's share of the sum of all, with every term times 2 ^ scale.
Confident(probs) ==
    LET scale == -Min({probs[j] : j \in States})
        share == FoldSet(LAMBDA j, sum : sum + 2 ^ (scale + probs[j]), 0, States)
    IN 100 * 2 ^ scale > Threshold * share

\* filter_online as far as the store of the state, if it changes.
FilterOnline(o) ==
    /\ ~raising /\ Len(observed) < MaxObserved
    /\ log_probs' = Normalised(Updated(o))
    /\ LET best == BestState(log_probs')
       IN IF best # current_state /\ Confident(log_probs')
          THEN current_state' = best /\ raising' = TRUE
          ELSE UNCHANGED <<current_state, raising>>
    /\ observed' = Append(observed, [transition |-> log_transition, observation |-> o])
    /\ UNCHANGED <<log_transition, change_detected, acknowledged>>

RaiseFlag ==
    /\ raising
    /\ change_detected' = TRUE /\ raising' = FALSE
    /\ UNCHANGED <<log_transition, log_probs, current_state, observed, acknowledged>>

\* By whoever watches the flag, at any time.
ResetRegimeChangeFlag ==
    /\ change_detected' = FALSE
    /\ acknowledged' = current_state
    /\ UNCHANGED <<log_transition, log_probs, current_state, raising, observed>>

\* Training replaces the model and leaves what the filter inferred so far.
Train ==
    /\ ~raising
    /\ log_transition' \in Trainings
    /\ UNCHANGED <<log_probs, current_state, change_detected, raising, observed,
                   acknowledged>>

Next ==
    \/ \E o \in Observations : FilterOnline(o)
    \/ RaiseFlag
    \/ ResetRegimeChangeFlag
    \/ Train

Spec == Init /\ [][Next]_vars
-----------------------------------------------------------------------------
(* Properties. *)

TypeOK ==
    /\ log_transition \in Trainings \cup {Uniform}
    /\ log_probs \in [States -> Int] /\ Best(log_probs) = 0
    /\ current_state \in States /\ change_detected \in BOOLEAN
    /\ raising \in BOOLEAN /\ acknowledged \in States

\* The logarithm of the probability of a path of states, each step under the
\* transitions in force when its observation came.
PathLog(path) ==
    LET upTo[n \in 0..Len(observed)] ==
          IF n = 0 THEN 0
          ELSE upTo[n - 1] + observed[n].transition[path[n - 1]][path[n]]
                           + EmissionLogs[observed[n].observation][path[n]]
    IN upTo[Len(observed)]

\* "Computes the most probable path ending at t without full backtracking"
\* (line 209): the filter's numbers are those of the best path into each state
\* over all paths, through any retraining.
BestPaths ==
    LET paths == [0..Len(observed) -> States]
        into == [j \in States |-> Max({PathLog(p) : p \in {q \in paths : q[Len(observed)] = j}})]
    IN log_probs = Normalised(into)

\* While the flag is down and on no way up, the state is the one in force when it
\* was reset: no change is lost to a reset between the two stores, which rests on
\* their order.
FlagTells == change_detected \/ raising \/ current_state = acknowledged

RegimeFollowed == BestPaths /\ FlagTells
=============================================================================
