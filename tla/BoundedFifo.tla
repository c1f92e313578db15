---------------------------- MODULE BoundedFifo ----------------------------
(***************************************************************************)
(* What the two single-producer single-consumer queues of the engine       *)
(* promise (core/ring_buffer.hpp, core/cache_aligned_lock_free_queue.hpp): *)
(* an accepted item is delivered once, in the order of acceptance, and no  *)
(* more than Capacity accepted items wait.                                 *)
(*                                                                         *)
(* The queues never look at an item, so an item is its ordinal: the n-th   *)
(* accepted push carries n, and a delivery that duplicates, skips,         *)
(* reorders or invents an item shows as a wrong ordinal.                   *)
(***************************************************************************)
EXTENDS Naturals

CONSTANT Capacity     \* a natural number

VARIABLES
    sent,       \* number of pushes that were accepted
    taken,      \* number of pops that returned true
    item        \* what the consumer's last successful pop handed out

vars == <<sent, taken, item>>

Init ==
    /\ sent = 0
    /\ taken = 0
    /\ item = 0

Push ==
    /\ sent - taken < Capacity
    /\ sent' = sent + 1
    /\ UNCHANGED <<taken, item>>

Pop ==
    /\ taken < sent
    /\ taken' = taken + 1
    /\ item' = taken + 1
    /\ UNCHANGED sent

Next == Push \/ Pop

Spec == Init /\ [][Next]_vars
=============================================================================
