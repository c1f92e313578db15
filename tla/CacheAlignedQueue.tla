------------------------- MODULE CacheAlignedQueue -------------------------
(***************************************************************************)
(* core/cache_aligned_lock_free_queue.hpp: one producer, one consumer, and *)
(* a sequence number in every cell.  head_ and tail_ are each used by one  *)
(* thread only; the cells' sequences are the only atomics the two threads  *)
(* share.                                                                  *)
(*                                                                         *)
(* A load may return an old value.  pVisible[c] and cVisible[c] are the    *)
(* values of cell c's sequence a load by the producer or the consumer may  *)
(* still return: a store leaves its own thread only the new value and adds *)
(* that value to what the other may see; a load discards what is older     *)
(* than the value it returned (a cell's sequence only grows).              *)
(*                                                                         *)
(* Positions are 64-bit and counted here without wrapping.                 *)
(***************************************************************************)
EXTENDS Integers

CONSTANTS
    Capacity,   \* template parameter
    MaxItems    \* bound: pushes accepted in a behaviour

\* The requires clause of line 16.
ASSUME CapacityAssumption == /\ Capacity \in Nat \ {0}
                             /\ \E k \in 0..63 : Capacity = 2^k

VARIABLES
    head,       \* head_
    tail,       \* tail_
    data,       \* the item in each cell, 0 before the first
    pVisible,   \* values of each sequence the producer may load
    cVisible,   \* values of each sequence the consumer may load
    pPc,        \* next step of try_push
    cPc,        \* next step of try_pop
    item        \* the caller's T& item

prodVars == <<head, pPc>>
consVars == <<tail, cPc, item>>
vars == <<prodVars, consVars, data, pVisible, cVisible>>

Cells == 0..(Capacity - 1)

\* pos & MASK, for a Capacity that is a power of two.
CellOf(pos) == pos % Capacity

Init ==
    /\ head = 0 /\ tail = 0
    /\ data = [c \in Cells |-> 0]
    /\ pVisible = [c \in Cells |-> {c}]
    /\ cVisible = [c \in Cells |-> {c}]
    /\ pPc = "idle" /\ cPc = "idle" /\ item = 0

\* Operators named Mutant_... are plausible bugs, which the properties must
\* refute when they take the place of the definition they precede.

\* An acquire load that returns v.
Load(visible, c, v) == [visible EXCEPT ![c] = {w \in @ : w >= v}]

\* What a release store of v leaves its own thread and shows the other.
Store(visible, c, v) == [visible EXCEPT ![c] = {v}]
Show(visible, c, v)  == [visible EXCEPT ![c] = @ \cup {v}]
-----------------------------------------------------------------------------
(* The producer: try_push. *)

\* The cell was released for this turn: diff >= 0 (line 45).
Mutant_Free(seq, pos) == TRUE
Mutant_FreeStale(seq, pos) == seq >= pos - Capacity + 1
Free(seq, pos) == seq - pos >= 0

PushRefused ==
    /\ pPc = "idle"
    /\ \E seq \in pVisible[CellOf(head)] :
         /\ ~Free(seq, head)
         /\ pVisible' = Load(pVisible, CellOf(head), seq)
    /\ UNCHANGED <<prodVars, consVars, data, cVisible>>

PushCheck ==
    /\ pPc = "idle"
    /\ head < MaxItems
    /\ \E seq \in pVisible[CellOf(head)] :
         /\ Free(seq, head)
         /\ pVisible' = Load(pVisible, CellOf(head), seq)
    /\ pPc' = "write"
    /\ UNCHANGED <<head, consVars, data, cVisible>>

\* The item is the ordinal of this push.
PushWrite ==
    /\ pPc = "write"
    /\ data' = [data EXCEPT ![CellOf(head)] = head + 1]
    /\ pPc' = "release"
    /\ UNCHANGED <<head, consVars, pVisible, cVisible>>

\* Publishes the sequence number it found.
Mutant_PushRelease ==
    /\ pPc = "release"
    /\ pVisible' = Store(pVisible, CellOf(head), head)
    /\ cVisible' = Show(cVisible, CellOf(head), head)
    /\ pPc' = "advance"
    /\ UNCHANGED <<head, consVars, data>>

PushRelease ==
    /\ pPc = "release"
    /\ pVisible' = Store(pVisible, CellOf(head), head + 1)
    /\ cVisible' = Show(cVisible, CellOf(head), head + 1)
    /\ pPc' = "advance"
    /\ UNCHANGED <<head, consVars, data>>

PushAdvance ==
    /\ pPc = "advance"
    /\ head' = head + 1
    /\ pPc' = "idle"
    /\ UNCHANGED <<consVars, data, pVisible, cVisible>>
-----------------------------------------------------------------------------
(* The consumer: try_pop. *)

\* The cell holds this turn's item: diff >= 0 (line 63).
Mutant_Filled(seq, pos) == seq - pos >= 0
Filled(seq, pos) == seq - (pos + 1) >= 0

PopRefused ==
    /\ cPc = "idle"
    /\ \E seq \in cVisible[CellOf(tail)] :
         /\ ~Filled(seq, tail)
         /\ cVisible' = Load(cVisible, CellOf(tail), seq)
    /\ UNCHANGED <<prodVars, consVars, data, pVisible>>

PopCheck ==
    /\ cPc = "idle"
    /\ \E seq \in cVisible[CellOf(tail)] :
         /\ Filled(seq, tail)
         /\ cVisible' = Load(cVisible, CellOf(tail), seq)
    /\ cPc' = "read"
    /\ UNCHANGED <<prodVars, tail, item, data, pVisible>>

PopRead ==
    /\ cPc = "read"
    /\ item' = data[CellOf(tail)]
    /\ cPc' = "release"
    /\ UNCHANGED <<prodVars, tail, data, pVisible, cVisible>>

\* The turn taken off where it is added.
Mutant_PopRelease ==
    /\ cPc = "release"
    /\ pVisible' = Show(pVisible, CellOf(tail), tail - Capacity)
    /\ cVisible' = Store(cVisible, CellOf(tail), tail - Capacity)
    /\ cPc' = "advance"
    /\ UNCHANGED <<prodVars, tail, item, data>>

PopRelease ==
    /\ cPc = "release"
    /\ pVisible' = Show(pVisible, CellOf(tail), tail + Capacity)
    /\ cVisible' = Store(cVisible, CellOf(tail), tail + Capacity)
    /\ cPc' = "advance"
    /\ UNCHANGED <<prodVars, tail, item, data>>

PopAdvance ==
    /\ cPc = "advance"
    /\ tail' = tail + 1
    /\ cPc' = "idle"
    /\ UNCHANGED <<prodVars, item, data, pVisible, cVisible>>
-----------------------------------------------------------------------------
Producer == PushRefused \/ PushCheck \/ PushWrite \/ PushRelease \/ PushAdvance

Consumer == PopRefused \/ PopCheck \/ PopRead \/ PopRelease \/ PopAdvance

Next == Producer \/ Consumer

Spec == Init /\ [][Next]_vars

(***************************************************************************)
(* A thread inside an operation goes on, and the strategy thread (line 57) *)
(* polls: it retries try_pop, and in the end loads a sequence number that  *)
(* the producer has stored.  Nobody is obliged to push.                    *)
(***************************************************************************)
Fairness == /\ WF_vars(PushWrite) /\ WF_vars(PushRelease) /\ WF_vars(PushAdvance)
            /\ WF_vars(PopCheck) /\ WF_vars(PopRead)
            /\ WF_vars(PopRelease) /\ WF_vars(PopAdvance)

FairSpec == Spec /\ Fairness
-----------------------------------------------------------------------------
(* Properties. *)

\* Positions at each stage: published, read, released.
Published == IF pPc = "advance" THEN head + 1 ELSE head
Taken     == IF cPc \in {"release", "advance"} THEN tail + 1 ELSE tail
Released  == IF cPc = "advance" THEN tail + 1 ELSE tail

\* Types; a load always has a value to return.
TypeOK ==
    /\ head \in Nat /\ tail \in Nat /\ item \in Nat
    /\ data \in [Cells -> Nat]
    /\ pVisible \in [Cells -> SUBSET Nat] /\ cVisible \in [Cells -> SUBSET Nat]
    /\ \A c \in Cells : pVisible[c] # {} /\ cVisible[c] # {}
    /\ pPc \in {"idle", "write", "release", "advance"}
    /\ cPc \in {"idle", "read", "release", "advance"}

\* "Cola llena" (line 47): try_push goes on only when a cell is free, so it
\* never overwrites an item the consumer has not read.
PushOnlyWithRoom == pPc \in {"write", "release"} => head - Released < Capacity

\* try_pop goes on only with an item that was published, so it never reads a
\* cell the producer is writing.
PopOnlyPublished == cPc = "read" => tail < Published

\* Items published and not yet read are intact.
UnreadIntact ==
    \A i \in Taken..(Published - 1) : data[CellOf(i)] = i + 1

\* The cells, which no lock guards (lines 50 and 68), are safe.
CellsSafe == PushOnlyWithRoom /\ PopOnlyPublished /\ UnreadIntact

\* The queue is a FIFO of Capacity items in which a push takes effect at the
\* release of the cell and a pop at the copy out of it.
Fifo == INSTANCE BoundedFifo WITH sent <- Published, taken <- Taken

ImplementsFifo == Fifo!Spec

\* A published item is delivered when the consumer keeps polling, whatever old
\* sequence numbers it loads first (nothing else wakes it: lines 58-66).
EveryItemDelivered ==
    \A i \in 1..MaxItems : Published >= i ~> Taken >= i
=============================================================================
