-------------------------- MODULE MarkCubanCollar --------------------------
(***************************************************************************)
(* strategies/mark_cuban_collar.hpp: the search for the put of a collar by *)
(* halving an interval of strikes, and the compliance test of its result.  *)
(* One action per halving.                                                 *)
(*                                                                         *)
(* Strikes are integers and the interval's width a power of two, so that   *)
(* every middle is exact.  The pricing of a put (compute_hamiltonian) may  *)
(* be any function of the strike.                                          *)
(***************************************************************************)
EXTENDS Integers

CONSTANTS
    Spot,           \* spot
    Lowest, Highest,    \* 0.50 and 0.99 of spot, Lowest < Highest < Spot
    Halvings,       \* iterations, 100: Highest - Lowest = 2 ^ Halvings
    CallStrikes, CallPremiums, PutPremiums,
    CostPercents,   \* possible max_cost_pct, in per cent; 0 by default
    Protections     \* possible min_protection_pct, in per cent; 10 by default

\* Halvings turns halve the interval to one strike's width.
CollarAssumption ==
    /\ Lowest \in Nat /\ Highest \in Nat /\ Spot \in Nat /\ Halvings \in Nat
    /\ Lowest < Highest /\ Highest < Spot
    /\ CallPremiums \subseteq Nat /\ PutPremiums \subseteq Nat
    /\ CostPercents \subseteq Nat /\ Protections \subseteq Nat
    /\ \E width \in [0..Halvings -> 1..(Highest - Lowest)] :
         /\ width[0] = Highest - Lowest /\ width[Halvings] = 1
         /\ \A n \in 1..Halvings : width[n - 1] = 2 * width[n]

VARIABLES
    call,           \* [strike, premium] of the call
    costPercent, minProtection,
    putPremium,     \* strike -> premium
    halved,         \* iter
    low, high,
    put,            \* best_put_strike; NoPut is 0.0
    verdict         \* "searching", "not OTM", "no put" or "collar"

arguments == <<call, costPercent, minProtection, putPremium>>
vars == <<arguments, halved, low, high, put, verdict>>

Strikes == (Lowest + 1)..(Highest - 1)
NoPut == 0

Init ==
    /\ call \in [strike : CallStrikes, premium : CallPremiums]
    /\ costPercent \in CostPercents /\ minProtection \in Protections
    /\ putPremium \in [Strikes -> PutPremiums]
    /\ halved = 0
    /\ low = Lowest /\ high = Highest
    /\ put = NoPut /\ verdict = "searching"

NotOutOfTheMoney ==
    /\ verdict = "searching"
    /\ call.strike <= Spot
    /\ verdict' = "not OTM"
    /\ UNCHANGED <<arguments, halved, low, high, put>>

NetCost(k) == putPremium[k] - call.premium

\* The cost is limited to a part of the call's premium.
Within(k) ==
    /\ 100 * NetCost(k) <= call.premium * costPercent
    /\ 100 * (Spot - k) >= minProtection * Spot

\* Operators named Mutant_... are plausible bugs, which the properties must
\* refute when they take the place of the definition they precede.

\* Looks below a strike that is within the limits.
Mutant_Halve ==
    /\ verdict = "searching" /\ call.strike > Spot
    /\ halved < Halvings
    /\ LET mid == (low + high) \div 2
       IN IF Within(mid)
          THEN put' = mid /\ high' = mid /\ UNCHANGED low
          ELSE low' = mid /\ UNCHANGED <<high, put>>
    /\ halved' = halved + 1
    /\ UNCHANGED <<arguments, verdict>>

Halve ==
    /\ verdict = "searching" /\ call.strike > Spot
    /\ halved < Halvings
    /\ LET mid == (low + high) \div 2
       IN IF Within(mid)
          THEN put' = mid /\ low' = mid /\ UNCHANGED high
          ELSE high' = mid /\ UNCHANGED <<low, put>>
    /\ halved' = halved + 1
    /\ UNCHANGED <<arguments, verdict>>

Conclude ==
    /\ verdict = "searching" /\ call.strike > Spot
    /\ halved = Halvings
    /\ verdict' = IF put = NoPut THEN "no put" ELSE "collar"
    /\ UNCHANGED <<arguments, halved, low, high, put>>

Next == NotOutOfTheMoney \/ Halve \/ Conclude

Spec == Init /\ [][Next]_vars

\* spread_ratio >= 1
UpsideCovered == call.strike - Spot >= Spot - put

\* validate_buffett_compliance of the collar.
Compliant ==
    /\ UpsideCovered
    /\ 100 * (Spot - put) >= 10 * Spot
    /\ 100 * NetCost(put) <= 2 * Spot
-----------------------------------------------------------------------------
(* Properties. *)

TypeOK ==
    /\ halved \in 0..Halvings
    /\ low \in Lowest..Highest /\ high \in Lowest..Highest /\ low < high
    /\ put \in Strikes \cup {NoPut}
    /\ verdict \in {"searching", "not OTM", "no put", "collar"}

RisingPremiums ==
    \A k \in Strikes : k + 1 \in Strikes => putPremium[k] <= putPremium[k + 1]

\* Whatever the pricing does, the put of a collar is within both limits; if
\* puts cost more the higher their strike, no higher strike is, and "no put" is
\* said only if no strike is.  With the default limits the compliance test
\* refuses a collar only for its uncovered upside.
CollarSound ==
    /\ verdict = "collar" => put \in Strikes /\ Within(put)
    /\ verdict = "collar" /\ RisingPremiums => \A k \in Strikes : Within(k) => k <= put
    /\ verdict = "no put" /\ RisingPremiums => \A k \in Strikes : ~Within(k)
    /\ verdict = "collar" /\ costPercent = 0 /\ minProtection >= 10
         => (Compliant <=> UpsideCovered)
=============================================================================
