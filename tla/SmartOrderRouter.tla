-------------------------- MODULE SmartOrderRouter --------------------------
(***************************************************************************)
(* execution/smart_router.hpp: splits orders into fragments, each for the  *)
(* broker whose random sample is the highest, and learns from executions.  *)
(*                                                                         *)
(* A gamma sample may have any positive value, so any broker may win.  The *)
(* caller's vector of fragments is appended to, order after order.         *)
(***************************************************************************)
EXTENDS Integers, Sequences, FiniteSetsExt

CONSTANTS
    NumBrokers,     \* brokers_.size(), at least 1
    ByteMod,        \* 256, the range of a broker's id
    Quantities,     \* quantities of an order
    MaxFragments,   \* bound: num_fragments
    MaxSplits,      \* bound: orders split
    MaxBelief,      \* bound: of alpha and beta
    Penalties       \* latency_ms of an execution

RouterAssumption ==
    /\ NumBrokers \in Nat \ {0} /\ ByteMod \in Nat \ {0} /\ MaxBelief \in Nat \ {0}
    /\ Quantities \subseteq Nat /\ MaxFragments \in Nat /\ Penalties \subseteq Nat

VARIABLES
    alpha, beta,    \* of each broker
    fragments,      \* out_fragments: [order, quantity, broker]
    ordered         \* quantities of the orders split (history)

vars == <<alpha, beta, fragments, ordered>>

Brokers == 0..(NumBrokers - 1)

Init ==
    /\ alpha = [b \in Brokers |-> 1] /\ beta = [b \in Brokers |-> 1]
    /\ fragments = <<>> /\ ordered = <<>>

\* The id is cast to a byte.
SelectBestBroker == {b % ByteMod : b \in Brokers}

\* Operators named Mutant_... are plausible bugs, which the properties must
\* refute when they take the place of the definition they precede.

\* Every fragment gets the remainder.
Mutant_FragmentQuantity(quantity, n, i) == (quantity \div n) + (quantity % n)

\* The first fragment takes the remainder.
FragmentQuantity(quantity, n, i) ==
    (quantity \div n) + (IF i = 1 THEN quantity % n ELSE 0)

SplitOrder ==
    /\ Len(ordered) < MaxSplits
    /\ \E quantity \in Quantities, n \in 1..MaxFragments :
         \E route \in [1..n -> SelectBestBroker] :
           fragments' = fragments \o
             [i \in 1..n |-> [order |-> Len(ordered) + 1, broker |-> route[i],
                              quantity |-> FragmentQuantity(quantity, n, i)]]
           /\ ordered' = Append(ordered, quantity)
    /\ UNCHANGED <<alpha, beta>>

RecordExecution ==
    \E b \in {fragments[i].broker : i \in DOMAIN fragments} :
      /\ \/ alpha' = [alpha EXCEPT ![b] = @ + 1] /\ UNCHANGED beta
         \/ \E p \in Penalties :
              beta' = [beta EXCEPT ![b] = @ + p] /\ UNCHANGED alpha
      /\ alpha'[b] <= MaxBelief /\ beta'[b] <= MaxBelief
      /\ UNCHANGED <<fragments, ordered>>

Next == SplitOrder \/ RecordExecution

Spec == Init /\ [][Next]_vars
-----------------------------------------------------------------------------
(* Properties. *)

TypeOK ==
    /\ alpha \in [Brokers -> 1..MaxBelief] /\ beta \in [Brokers -> 1..MaxBelief]
    /\ \A i \in DOMAIN fragments : fragments[i].broker \in Brokers

\* The fragments of each order add up to its quantity, whatever the vector held
\* before and however little there is to split.
QuantityKept ==
    \A k \in DOMAIN ordered :
      MapThenFoldSet(+, 0,
                     LAMBDA i : IF fragments[i].order = k THEN fragments[i].quantity ELSE 0,
                     Max, DOMAIN fragments) = ordered[k]
=============================================================================
