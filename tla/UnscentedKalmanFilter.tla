------------------------ MODULE UnscentedKalmanFilter ------------------------
(***************************************************************************)
(* analytics/ukf_tracker.hpp: the filter that tracks implied volatility,   *)
(* for one state and one observation, over exact fractions.                *)
(*                                                                         *)
(* The state is kept as the linear form it is in the observations: which   *)
(* they are does not matter.  A sigma point is its multiple of the column  *)
(* of the Cholesky factor.  The code's 1e-6, 1e-5 and 1e-3 are scaled.     *)
(***************************************************************************)
EXTENDS Fractions, Sequences, FiniteSetsExt

CONSTANTS
    InvAlpha2,  \* 1 / alpha_^2: with n_ = 1 and kappa_ = 0, 1 / (n_ + lambda_)
    P0,         \* P_ at first
    Q,          \* Q_, process noise
    R,          \* R_, observation noise
    MaxCalls    \* bound: calls of predict and update

\* Noise is a variance: none is negative, and there is some at first and in each
\* observation.
\* Noise is a variance: none is negative, and there is some at first and in each
\* observation.
TrackerAssumption ==
    /\ InvAlpha2 \in Nat \ {0} /\ P0 \in Nat \ {0} /\ R \in Nat \ {0}
    /\ Q \in Nat /\ MaxCalls \in Nat

VARIABLES
    x,          \* x_: the coefficient of each observation
    P,          \* P_
    predictions,\* calls of predict (history)
    seen        \* predictions before each observation (history)

vars == <<x, P, predictions, seen>>

\* Over the three points.
Sum3(f)     == Plus(Plus(f[-1], f[0]), f[1])

Init == x = <<>> /\ P = Ratio(P0, 1) /\ predictions = 0 /\ seen = <<>>

Points == {-1, 0, 1}

\* Operators named Mutant_... are plausible bugs, which the properties must
\* refute when they take the place of the definition they precede.
Mutant_Wm == [p \in Points |-> IF p = 0 THEN Ratio(1 - InvAlpha2, 1) ELSE Ratio(InvAlpha2, 1)]

\* The weights of the points: the middle one's is negative and huge.
Wm == [p \in Points |-> IF p = 0 THEN Ratio(1 - InvAlpha2, 1) ELSE Ratio(InvAlpha2, 2)]
Wc == [Wm EXCEPT ![0] = Plus(Wm[0], Minus(Ratio(3, 1), Ratio(1, InvAlpha2)))]

\* The weighted mean of the points, over x_, and their weighted square distance
\* from it: a point is off by its multiple of the root of P_ / InvAlpha2.
Centre == Sum3(Wm)
Spread == Times(P, Over(Sum3([p \in Points |-> Times(Wc[p], Ratio(p * p, 1))]), Ratio(InvAlpha2, 1)))

Mutant_Predict ==
    /\ predictions + Len(seen) < MaxCalls
    /\ P' = Spread
    /\ x' = [i \in DOMAIN x |-> Times(x[i], Centre)]
    /\ predictions' = predictions + 1
    /\ UNCHANGED seen

Predict ==
    /\ predictions + Len(seen) < MaxCalls
    /\ P' = Plus(Spread, Ratio(Q, 1))
    /\ x' = [i \in DOMAIN x |-> Times(x[i], Centre)]
    /\ predictions' = predictions + 1
    /\ UNCHANGED seen

Update ==
    /\ predictions + Len(seen) < MaxCalls
    /\ LET C == Spread
           S == Plus(C, Ratio(R, 1))
           K == Over(C, S)
           kept == Minus(Ratio(1, 1), Times(K, Centre))
       IN /\ x' = Append([i \in DOMAIN x |-> Times(kept, x[i])], K)
          /\ P' = Minus(P, Times(Times(K, S), K))
    /\ seen' = Append(seen, predictions)
    /\ UNCHANGED predictions

Next == Predict \/ Update

Spec == Init /\ [][Next]_vars
-----------------------------------------------------------------------------
(* Properties. *)

TypeOK ==
    /\ x \in Seq([n : Int, d : Nat \ {0}]) /\ DOMAIN x = DOMAIN seen
    /\ P \in [n : Nat \ {0}, d : Nat \ {0}]
    /\ predictions \in Nat /\ seen \in Seq(Nat)

\* The state's walk and the observations' noise, as predict and update assume
\* them: how two observations vary together, and one with the present state.
Together(i, j) ==
    Ratio(P0 + Q * Min({seen[i], seen[j]}) + (IF i = j THEN R ELSE 0), 1)
WithState(i) == Ratio(P0 + Q * seen[i], 1)

\* However predictions and updates follow each other, what the state is off by
\* has nothing in common with any observation, so no other linear estimate is
\* nearer, and P_ is its mean square: an estimate from weights of a million that
\* cancel, and a covariance from a subtraction (line 110), stay right.
TrackingOptimal ==
    /\ \A i \in DOMAIN x :
         SumUpTo(Len(x), LAMBDA j : Times(x[j], Together(i, j))) = WithState(i)
    /\ P = Minus(Ratio(P0 + Q * predictions, 1), SumUpTo(Len(x), LAMBDA i : Times(x[i], WithState(i))))
=============================================================================
