----------------------------- MODULE DGMHMixture -----------------------------
(***************************************************************************)
(* regime/dgmh_eigen.hpp, training: the new mixture of one state, from the *)
(* responsibilities of the state for each observation (DGMHTraining).      *)
(*                                                                         *)
(* One feature, exact fractions.  Densities are looked up: one table for   *)
(* the Gaussian that weighs means, one for the other that weighs variances.*)
(* Between updates of two components only the mean of the first is new to  *)
(* the densities: inverse and determinant are those of before.             *)
(* Densities are positive and exact: the 1e-10 added to their sums (lines  *)
(* 397, 449) and the component left alone because its part of the state is *)
(* below 1e-10 (line 404) are left out.  A component that is left alone is *)
(* not among those the property speaks of.                                 *)
(***************************************************************************)
EXTENDS Fractions, Sequences, FiniteSetsExt

CONSTANTS
    M,          \* n_components
    Data,       \* observations
    Gammas,     \* responsibilities of the state, times a common factor
    Tables,     \* densities: component -> "old" or "new" mean -> observation
    Floor       \* the regularisation, 1e-6

\* A density is an exponential, so positive.
MixtureAssumption ==
    /\ M \in Nat \ {0} /\ Data \in Seq(Int) /\ Data # <<>> /\ Gammas \subseteq Nat
    /\ \A table \in Tables, m \in 1..M, age \in {"old", "new"}, t \in DOMAIN Data :
         table[m][age][Data[t]] \in Nat \ {0}
    /\ Floor.n \in Nat \ {0} /\ Floor.d \in Nat \ {0} /\ Floor = Ratio(Floor.n, Floor.d)

VARIABLES
    gamma,      \* of each observation
    gauss, nig, \* the densities' tables
    components, \* [weight, mean, covariance, age]
    next        \* m

vars == <<gamma, gauss, nig, components, next>>

T == Len(Data)
Of(t) == Ratio(Data[t], 1)

GammaSum == SumUpTo(T, LAMBDA t : Ratio(gamma[t], 1))

Init ==
    /\ gamma \in [1..T -> Gammas]
    /\ gauss \in Tables /\ nig \in Tables
    /\ components = [m \in 1..M |-> [weight |-> Ratio(1, M), mean |-> Of(1),
                                     covariance |-> Ratio(1, 1), age |-> "old"]]
    /\ next = 1

\* comp_prob times gamma_t_i: observation t's share of component m, with the
\* weights and means as they are now.
Share(density, m, t) ==
    LET part(k) == Times(components[k].weight, Ratio(density[k][components[k].age][Data[t]], 1))
    IN Times(Ratio(gamma[t], 1), Over(part(m), SumUpTo(M, part)))

Mass(m) == SumUpTo(T, LAMBDA t : Share(gauss, m, t))

\* Operators named Mutant_... are plausible bugs, which the properties must
\* refute when they take the place of the definition they precede.

\* Weighed by the density that the variance is weighed by.
Mutant_NewMean(m) == Over(SumUpTo(T, LAMBDA t : Times(Share(nig, m, t), Of(t))), Mass(m))

NewMean(m) == Over(SumUpTo(T, LAMBDA t : Times(Share(gauss, m, t), Of(t))), Mass(m))

NewCovariance(m) ==
    LET off(t) == Minus(Of(t), NewMean(m))
        square(t) == Times(off(t), off(t))
    IN Plus(Over(SumUpTo(T, LAMBDA t : Times(Share(nig, m, t), square(t))), Mass(m)), Floor)

\* One component after the other, in place.
UpdateComponent ==
    /\ GammaSum.n > 0 /\ next <= M
    /\ components' = [components EXCEPT ![next] =
         [weight |-> Over(Mass(next), GammaSum), mean |-> NewMean(next),
          covariance |-> NewCovariance(next), age |-> "new"]]
    /\ next' = next + 1
    /\ UNCHANGED <<gamma, gauss, nig>>

\* A state that is responsible for nothing keeps its mixture.
Skip ==
    /\ GammaSum.n = 0 /\ next <= M
    /\ next' = M + 1
    /\ UNCHANGED <<gamma, gauss, nig, components>>

Next == UpdateComponent \/ Skip

Spec == Init /\ [][Next]_vars
-----------------------------------------------------------------------------
(* Properties. *)

TypeOK ==
    LET Fraction == [n : Int, d : Nat \ {0}] IN
    /\ gamma \in [1..T -> Gammas] /\ gauss \in Tables /\ nig \in Tables
    /\ components \in Seq([weight : Fraction, mean : Fraction, covariance : Fraction,
                           age : {"old", "new"}])
    /\ Len(components) = M /\ next \in 1..(M + 1)

Updated == {m \in 1..M : components[m].age = "new"}

\* Whatever the densities are and whichever components are new already, a mean
\* lies among the observations of the state, a variance is positive, so that the
\* factorization after the round (line 476) succeeds, and a weight is a share of
\* the state's.
\* That the weights make one is not so: later components are weighed against
\* the new mean and weight of earlier ones.
MixtureSound ==
    LET own == {Data[t] : t \in {s \in 1..T : gamma[s] > 0}} IN
    \A m \in Updated :
        LET c == components[m] IN
        /\ AtMost(Ratio(Min(own), 1), c.mean) /\ AtMost(c.mean, Ratio(Max(own), 1))
        /\ AtMost(Floor, c.covariance)
        /\ c.weight.n > 0 /\ AtMost(c.weight, Ratio(1, 1))
=============================================================================
