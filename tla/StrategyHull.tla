---------------------------- MODULE StrategyHull ----------------------------
(***************************************************************************)
(* optimization/dp_knapsack_2d.hpp, apply_convex_hull: sorts the options   *)
(* by premium and keeps those no other is at least as good as.  One action *)
(* for the sort, one per option looked at.                                 *)
(*                                                                         *)
(* std::sort is not stable: options of equal premium come in any order.    *)
(***************************************************************************)
EXTENDS Integers, Sequences, Functions

CONSTANTS
    Offers,         \* possible [premium, loss, winRate]
    MaxOffers       \* bound: options in a call

HullAssumption ==
    /\ MaxOffers \in Nat
    /\ \A o \in Offers : o.premium \in Int /\ o.loss \in Int /\ o.winRate \in Int

VARIABLES
    offers,         \* the options of the call
    sorted,         \* sorted, <<>> before the sort
    looked,         \* options of sorted looked at
    hull

vars == <<offers, sorted, looked, hull>>

Init ==
    /\ offers \in UNION {[1..n -> Offers] : n \in 0..MaxOffers}
    /\ sorted = <<>> /\ looked = 0 /\ hull = <<>>

Small == Len(offers) <= 2

\* Two options or fewer are returned as they are.
ReturnSmall ==
    /\ Small /\ hull # offers
    /\ hull' = offers
    /\ UNCHANGED <<offers, sorted, looked>>

Descending(s) == \A m, n \in DOMAIN s : m < n => s[m].premium >= s[n].premium

Sort ==
    /\ ~Small /\ sorted = <<>>
    /\ \E order \in Bijection(DOMAIN offers, DOMAIN offers) :
         /\ sorted' = [n \in DOMAIN offers |-> offers[order[n]]]
         /\ Descending(sorted')
    /\ UNCHANGED <<offers, looked, hull>>

Dominates(a, b) ==
    a.premium >= b.premium /\ a.loss <= b.loss /\ a.winRate >= b.winRate

\* remove_if: the members of the hull that an option does not dominate, in order.
Undominated(offer) ==
    LET kept[n \in 0..Len(hull)] ==
          IF n = 0 THEN <<>>
          ELSE IF Dominates(offer, hull[n]) THEN kept[n - 1] ELSE Append(kept[n - 1], hull[n])
    IN kept[Len(hull)]

\* Operators named Mutant_... are plausible bugs, which the properties must
\* refute when they take the place of the definition they precede.

\* Members of the hull that the new option dominates stay.
Mutant_Look ==
    /\ looked < Len(sorted)
    /\ LET offer == sorted[looked + 1]
       IN hull' = IF \E n \in DOMAIN hull : Dominates(hull[n], offer)
                  THEN hull
                  ELSE Append(hull, offer)
    /\ looked' = looked + 1
    /\ UNCHANGED <<offers, sorted>>

Look ==
    /\ looked < Len(sorted)
    /\ LET offer == sorted[looked + 1]
       IN hull' = IF \E n \in DOMAIN hull : Dominates(hull[n], offer)
                  THEN hull
                  ELSE Append(Undominated(offer), offer)
    /\ looked' = looked + 1
    /\ UNCHANGED <<offers, sorted>>

Next == ReturnSmall \/ Sort \/ Look

Spec == Init /\ [][Next]_vars
-----------------------------------------------------------------------------
(* Properties. *)

TypeOK ==
    /\ sorted \in Seq(Offers) /\ hull \in Seq(Offers)
    /\ looked \in 0..Len(sorted)

\* "Convex Hull Optimization para filtrar estrategias dominadas" (line 136):
\* after each option looked at, no member of the hull is as good as another,
\* and each option looked at has a member that is as good as it.
HullIsFrontier ==
    ~Small =>
        /\ \A m, n \in DOMAIN hull : m # n => ~Dominates(hull[m], hull[n])
        /\ \A m \in 1..looked :
             \E n \in DOMAIN hull : Dominates(hull[n], sorted[m])
=============================================================================
