---------------------------- MODULE DGMHTraining ----------------------------
(***************************************************************************)
(* regime/dgmh_eigen.hpp, training: one round of the forward and backward  *)
(* recursions, the responsibilities and the new transition matrix.         *)
(*                                                                         *)
(* Logarithms are written as the integer weights they stand for, and what  *)
(* the code subtracts from a whole row, to scale it, is left out.  The     *)
(* mixtures are not trained: an emission is looked up.  DGMHEigen is the   *)
(* filter that uses the matrix.                                            *)
(***************************************************************************)
EXTENDS Integers, Sequences, FiniteSetsExt, Functions

CONSTANTS
    NStates,        \* n_states
    Weights,        \* transition matrices to start from, times the sum of a row
    Emission,       \* emission weight: feature vector -> state -> weight
    MaxLength       \* bound: observations

VARIABLES
    observations,
    transition,     \* transition_matrix_, times a common factor
    alpha,          \* log_alpha_, the rows of the first observations
    beta,           \* log_beta_, the rows of the last observations
    gamma,          \* log_gamma_
    xi,             \* log_xi_
    learnt          \* the new transition_matrix_: moves [i][j] over visits [i]

vars == <<observations, transition, alpha, beta, gamma, xi, learnt>>

States == 0..(NStates - 1)
T == Len(observations)

TrainingAssumption ==
    /\ NStates \in Nat \ {0} /\ MaxLength \in Nat
    /\ Weights \subseteq [States -> [States -> Nat]]
    /\ \A o \in DOMAIN Emission : Emission[o] \in [States -> Nat]

Init ==
    /\ observations \in UNION {[1..n -> DOMAIN Emission] : n \in 1..MaxLength}
    /\ transition \in Weights
    /\ alpha = <<>> /\ beta = <<>> /\ gamma = <<>> /\ xi = <<>> /\ learnt = <<>>

\* log_sum_exp over the states before, times the emission.
Forward ==
    /\ Len(alpha) < T
    /\ LET t == Len(alpha) + 1
           into(j) == IF t = 1 THEN 1
                      ELSE SumFunction([i \in States |-> alpha[t - 1][i] * transition[i][j]])
       IN alpha' = Append(alpha, [j \in States |-> into(j) * Emission[observations[t]][j]])
    /\ UNCHANGED <<observations, transition, beta, gamma, xi, learnt>>

\* Operators named Mutant_... are plausible bugs, which the properties must
\* refute when they take the place of the definition they precede.

\* The emission of observation t in place of t + 1.
Mutant_Ahead(t, i, j) ==
    transition[i][j] * Emission[observations[t]][j] * beta[Len(beta) - (T - t) + 1][j]

\* From state i at observation t to state j at t + 1, and on from there; the
\* first row of beta belongs to observation T - Len(beta) + 1.
Ahead(t, i, j) ==
    transition[i][j] * Emission[observations[t + 1]][j] * beta[Len(beta) - (T - t) + 1][j]

Backward ==
    /\ Len(alpha) = T /\ Len(beta) < T
    /\ LET t == T - Len(beta)
       IN beta' = <<[i \in States |-> IF t = T THEN 1
                                      ELSE SumFunction([j \in States |-> Ahead(t, i, j)])]>>
                    \o beta
    /\ UNCHANGED <<observations, transition, alpha, gamma, xi, learnt>>

Responsibilities ==
    /\ Len(beta) = T /\ gamma = <<>>
    /\ gamma' = [t \in 1..T |-> [i \in States |-> alpha[t][i] * beta[t][i]]]
    /\ xi' = [t \in 1..(T - 1) |-> [i \in States |-> [j \in States |->
                alpha[t][i] * Ahead(t, i, j)]]]
    /\ UNCHANGED <<observations, transition, alpha, beta, learnt>>

\* The visits to the last observation are counted too.
Mutant_Visits(i) == SumFunction([t \in 1..T |-> gamma[t][i]])

\* gamma_sum_i: no move starts at the last observation.
Visits(i) == SumFunction([t \in 1..(T - 1) |-> gamma[t][i]])

\* Every gamma[t] and xi[t] is divided by its sum before these are added: the
\* same sum for all of them (SharesOfPaths), so it cancels.
Update ==
    /\ gamma # <<>> /\ learnt = <<>>
    /\ learnt' = [i \in States |->
         [visits |-> Visits(i),
          moves |-> [j \in States |-> SumFunction([t \in 1..(T - 1) |-> xi[t][i][j]])]]]
    /\ UNCHANGED <<observations, transition, alpha, beta, gamma, xi>>

Next == Forward \/ Backward \/ Responsibilities \/ Update

Spec == Init /\ [][Next]_vars
-----------------------------------------------------------------------------
(* Properties. *)

TypeOK ==
    LET Rows == [States -> Nat] IN
    /\ transition \in Weights
    /\ alpha \in Seq(Rows) /\ beta \in Seq(Rows) /\ gamma \in Seq(Rows)
    /\ xi \in Seq([States -> Rows])
    /\ learnt \in {<<>>} \cup [States -> [visits : Nat, moves : Rows]]

\* The reference: the weight of one way through the states under a matrix.
Paths == [1..T -> States]
PathWeight(matrix, p) ==
    LET along[t \in 1..T] ==
          Emission[observations[t]][p[t]]
            * (IF t = 1 THEN 1 ELSE along[t - 1] * matrix[p[t - 1]][p[t]])
    IN along[T]
PathSum(S) == SumFunction([p \in S |-> PathWeight(transition, p)])

\* The responsibilities are the shares of the paths through a state, or along a
\* move, so all have one sum.
SharesOfPaths ==
    gamma # <<>> =>
        /\ \A t \in 1..T, i \in States : gamma[t][i] = PathSum({p \in Paths : p[t] = i})
        /\ \A t \in 1..(T - 1), i, j \in States :
             xi[t][i][j] = PathSum({p \in Paths : p[t] = i /\ p[t + 1] = j})

\* The recursions of lines 270-330 count every path through the states, and the
\* matrix of lines 338-351 is one of probabilities.
PathsCounted ==
    /\ SharesOfPaths
    /\ learnt # <<>> => \A i \in States : SumFunction(learnt[i].moves) = learnt[i].visits

\* A row learnt, in lowest terms.
Smallest(row) ==
    LET d == Max({n \in 1..row.visits : \A m \in Range(row.moves) \cup {row.visits} : m % n = 0})
    IN [visits |-> row.visits \div d, moves |-> [j \in States |-> row.moves[j] \div d]]

\* Training makes the observations no less likely, which is what it is for: the
\* weight of all paths under the rows learnt, over their common denominator at
\* each move, is no less than under the rows before, over theirs.  One
\* observation has no move to learn from: line 347 divides zero by zero.
LikelierThanBefore ==
    learnt # <<>> /\ T > 1 =>
        LET row == [i \in States |-> Smallest(learnt[i])]
            common == FoldFunction(LAMBDA m, n : m * n, 1, [i \in States |-> row[i].visits])
            before == SumFunction(transition[0])
            learned == [i \in States |-> [j \in States |->
                           row[i].moves[j] * (common \div row[i].visits)]]
        IN SumFunction([p \in Paths |-> PathWeight(learned, p)]) * before ^ (T - 1)
             >= PathSum(Paths) * common ^ (T - 1)
=============================================================================
