------------------------------ MODULE GEXCache ------------------------------
(***************************************************************************)
(* analytics/gex_cache.hpp: the gammas of an option chain, priced again    *)
(* when the chain changes its size or the spot has moved too far.          *)
(*                                                                         *)
(* An entry stands for the gamma it holds by what the gamma was computed   *)
(* from: the spot and the instrument.  compute changes nothing.            *)
(***************************************************************************)
EXTENDS Integers, Sequences

CONSTANTS
    Instruments,    \* strike and expiry of an option
    MaxChain,       \* bound: options in a chain
    Spots,          \* possible spots, positive
    PartsMoved      \* the spot may move by last_spot_ / PartsMoved: 200 in the
                    \* code, 0.005 of line 18

CacheAssumption == Spots \subseteq Nat /\ PartsMoved \in Nat

VARIABLES
    entries,        \* entries_: [spot, instrument]
    lastSpot,       \* last_spot_
    dirty,          \* dirty_
    chain, spot,    \* of the last update_chain (history)
    swapped         \* since the chain was priced, one of the same size but other
                    \* instruments came (history)

vars == <<entries, lastSpot, dirty, chain, spot, swapped>>

Chains == UNION {[1..n -> Instruments] : n \in 0..MaxChain}

Init ==
    /\ entries = <<>> /\ lastSpot = 0 /\ dirty = TRUE
    /\ chain = <<>> /\ spot = 0 /\ swapped = FALSE

Distance(a, b) == IF a >= b THEN a - b ELSE b - a
Moved(s, from) == Distance(s, from) * PartsMoved > from

\* Operators named Mutant_... are plausible bugs, which the properties must
\* refute when they take the place of the definition they precede.

\* Keeps the last spot seen and not the last one priced at.
Mutant_Keep(s) ==
    /\ lastSpot' = s
    /\ UNCHANGED <<entries, dirty>>

Keep(s) == UNCHANGED <<entries, lastSpot, dirty>>

\* A spot of the first call is compared with none: dirty_ decides before.
UpdateChain(c, s) ==
    /\ chain' = c /\ spot' = s
    /\ LET resized == Len(entries) # Len(c)
           reprice == resized \/ dirty \/ Moved(s, lastSpot)
       IN IF reprice
          THEN /\ entries' = [i \in DOMAIN c |-> [spot |-> s, instrument |-> c[i]]]
               /\ lastSpot' = s /\ dirty' = FALSE
               /\ swapped' = FALSE
          ELSE /\ Keep(s)
               /\ swapped' = (swapped \/ c # chain)

Next == \E c \in Chains, s \in Spots : UpdateChain(c, s)

Spec == Init /\ [][Next]_vars
-----------------------------------------------------------------------------
(* Properties. *)

TypeOK ==
    /\ entries \in Seq([spot : Spots, instrument : Instruments])
    /\ lastSpot \in Spots \cup {0} /\ dirty \in BOOLEAN /\ swapped \in BOOLEAN

\* "Re-price si spot mueve >0.5%" (line 18): however many small moves add up,
\* each gamma of the chain was priced within the tolerance of the present spot,
\* and for the instrument in its place unless those of a chain of the same size
\* were exchanged, which the cache does not look at.
GammasFresh ==
    /\ Len(entries) = Len(chain)
    /\ \A i \in DOMAIN chain :
         /\ ~Moved(spot, entries[i].spot)
         /\ entries[i].instrument = chain[i] \/ swapped
=============================================================================
