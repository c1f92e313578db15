------------------------------ MODULE BlockPool ------------------------------
(***************************************************************************)
(* What a pool of equal blocks promises its callers, whatever is behind    *)
(* it: each block is free, or on its way out, or with a caller, or on its  *)
(* way back, and it goes round in that order.  Each step moves one block.  *)
(***************************************************************************)
CONSTANT Blocks

VARIABLES free, leaving, held, returning

pool == <<free, leaving, held, returning>>

Init == free = Blocks /\ leaving = {} /\ held = {} /\ returning = {}

\* An allocation settles on a free block; then its caller has it.
Take(b) ==
    /\ b \in free
    /\ free' = free \ {b} /\ leaving' = leaving \cup {b}
    /\ UNCHANGED <<held, returning>>

Deliver(b) ==
    /\ b \in leaving
    /\ leaving' = leaving \ {b} /\ held' = held \cup {b}
    /\ UNCHANGED <<free, returning>>

\* A caller lets go of a block; then it is free again.
Return(b) ==
    /\ b \in held
    /\ held' = held \ {b} /\ returning' = returning \cup {b}
    /\ UNCHANGED <<free, leaving>>

Give(b) ==
    /\ b \in returning
    /\ returning' = returning \ {b} /\ free' = free \cup {b}
    /\ UNCHANGED <<leaving, held>>

Next == \E b \in Blocks : Take(b) \/ Deliver(b) \/ Return(b) \/ Give(b)

Spec == Init /\ [][Next]_pool
=============================================================================
