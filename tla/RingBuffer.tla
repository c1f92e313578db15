---------------------------- MODULE RingBuffer -----------------------------
(***************************************************************************)
(* core/ring_buffer.hpp: the single-producer single-consumer ring, one     *)
(* action per access to shared memory.                                     *)
(*                                                                         *)
(* An atomic variable is its modification order, the sequence of the       *)
(* values stored in it.  A load returns any value at or after the one its  *)
(* thread saw last (read coherence), not only the newest: that is all      *)
(* C++ promises to an acquire load racing with a store.  The producer is   *)
(* the only writer of head_ and the consumer of tail_, so each reads its   *)
(* own index exactly.                                                      *)
(***************************************************************************)
EXTENDS Integers, Sequences

CONSTANTS
    Size,       \* template parameter: number of slots
    MaxItems    \* bound: pushes accepted in a behaviour

\* static_assert of line 40; size_t has 64 bits.
ASSUME SizeAssumption == /\ Size \in Nat \ {0}
                         /\ \E k \in 0..63 : Size = 2^k

VARIABLES
    headLog,    \* modification order of head_
    tailLog,    \* modification order of tail_
    buffer,     \* buffer_: the item in each slot, 0 when moved from
    pPc,        \* next step of the producer's push
    tailSeen,   \* position in tailLog of the producer's last load
    pHint,      \* what empty_heuristic told it since its last push
    cPc,        \* next step of the consumer's pop or pop_spin
    headSeen,   \* position in headLog of the consumer's last load
    cHint,      \* what empty_heuristic told it since its last pop
    item        \* the caller's T& item

prodVars == <<headLog, pPc, tailSeen, pHint>>
consVars == <<tailLog, cPc, headSeen, cHint, item>>
vars == <<prodVars, consVars, buffer>>

Slots == 0..(Size - 1)

Hints == {"none", "empty", "items"}

\* i & mask_, for a Size that is a power of two.
Wrap(i) == i % Size

Newest(log) == log[Len(log)]
HeadIx == Newest(headLog)
TailIx == Newest(tailLog)

Pushed == Len(headLog) - 1      \* stores to head_ after the constructor's
Popped == Len(tailLog) - 1      \* stores to tail_ after the constructor's

Init ==
    /\ headLog = <<0>> /\ tailLog = <<0>>
    /\ buffer = [s \in Slots |-> 0]
    /\ pPc = "idle" /\ tailSeen = 1 /\ pHint = "none"
    /\ cPc = "idle" /\ headSeen = 1 /\ cHint = "none" /\ item = 0
-----------------------------------------------------------------------------
(* The producer: push. *)

\* Operators named Mutant_... are plausible bugs, which the properties must
\* refute when they take the place of the definition they precede.
Mutant_LooksFull(t) == HeadIx = t
Mutant_NeverFull(t) == FALSE
LooksFull(t) == Wrap(HeadIx + 1) = t

PushRefused ==
    /\ pPc = "idle"
    /\ \E n \in tailSeen..Len(tailLog) :
         /\ LooksFull(tailLog[n])
         /\ tailSeen' = n
    /\ UNCHANGED <<headLog, pPc, pHint, consVars, buffer>>

PushCheck ==
    /\ pPc = "idle"
    /\ Pushed < MaxItems
    /\ \E n \in tailSeen..Len(tailLog) :
         /\ ~LooksFull(tailLog[n])
         /\ tailSeen' = n
    /\ pPc' = "write"
    /\ UNCHANGED <<headLog, pHint, consVars, buffer>>

\* Publishes the slot before the item is in it.
Mutant_PushWrite ==
    /\ pPc = "write"
    /\ pPc' = "publish"
    /\ UNCHANGED <<headLog, tailSeen, pHint, consVars, buffer>>

\* The item is the ordinal of this push.
PushWrite ==
    /\ pPc = "write"
    /\ buffer' = [buffer EXCEPT ![HeadIx] = Pushed + 1]
    /\ pPc' = "publish"
    /\ UNCHANGED <<headLog, tailSeen, pHint, consVars>>

\* Forgets the mask.
Mutant_PushPublish ==
    /\ pPc = "publish"
    /\ headLog' = Append(headLog, HeadIx + 1)
    /\ pPc' = "idle"
    /\ pHint' = "none"
    /\ UNCHANGED <<tailSeen, consVars, buffer>>

PushPublish ==
    /\ pPc = "publish"
    /\ headLog' = Append(headLog, Wrap(HeadIx + 1))
    /\ pPc' = "idle"
    /\ pHint' = "none"
    /\ UNCHANGED <<tailSeen, consVars, buffer>>

\* empty_heuristic called by the producer's thread.
ProducerProbe ==
    /\ pPc = "idle"
    /\ \E n \in tailSeen..Len(tailLog) :
         /\ tailSeen' = n
         /\ pHint' = IF HeadIx = tailLog[n] THEN "empty" ELSE "items"
    /\ UNCHANGED <<headLog, pPc, consVars, buffer>>
-----------------------------------------------------------------------------
(* The consumer: pop and pop_spin. *)

PopEmpty ==
    /\ cPc = "idle"
    /\ \E n \in headSeen..Len(headLog) :
         /\ headLog[n] = TailIx
         /\ headSeen' = n
    /\ UNCHANGED <<prodVars, tailLog, cPc, cHint, item, buffer>>

\* The load that finds an item, in either kind of pop.
FindItem(from) ==
    /\ cPc = from
    /\ \E n \in headSeen..Len(headLog) :
         /\ headLog[n] # TailIx
         /\ headSeen' = n
    /\ cPc' = "read"
    /\ UNCHANGED <<prodVars, tailLog, cHint, item, buffer>>

PopCheck == FindItem("idle")

SpinStart ==
    /\ cPc = "idle"
    /\ cPc' = "spin"
    /\ UNCHANGED <<prodVars, tailLog, headSeen, cHint, item, buffer>>

SpinMiss ==
    /\ cPc = "spin"
    /\ \E n \in headSeen..Len(headLog) :
         /\ headLog[n] = TailIx
         /\ headSeen' = n
    /\ UNCHANGED <<prodVars, tailLog, cPc, cHint, item, buffer>>

\* Reads head_ once and spins on the stale value.
Mutant_SpinHit ==
    /\ cPc = "spin"
    /\ headLog[headSeen] # TailIx
    /\ cPc' = "read"
    /\ UNCHANGED <<prodVars, tailLog, headSeen, cHint, item, buffer>>

SpinHit == FindItem("spin")

\* item = std::move(buffer_[tail]) leaves the slot moved from.
PopRead ==
    /\ cPc = "read"
    /\ item' = buffer[TailIx]
    /\ buffer' = [buffer EXCEPT ![TailIx] = 0]
    /\ cPc' = "publish"
    /\ UNCHANGED <<prodVars, tailLog, headSeen, cHint>>

\* Releases the next slot as well.
Mutant_PopPublish ==
    /\ cPc = "publish"
    /\ tailLog' = Append(tailLog, Wrap(TailIx + 2))
    /\ cPc' = "idle"
    /\ cHint' = "none"
    /\ UNCHANGED <<prodVars, headSeen, item, buffer>>

PopPublish ==
    /\ cPc = "publish"
    /\ tailLog' = Append(tailLog, Wrap(TailIx + 1))
    /\ cPc' = "idle"
    /\ cHint' = "none"
    /\ UNCHANGED <<prodVars, headSeen, item, buffer>>

\* empty_heuristic called by the consumer's thread.
ConsumerProbe ==
    /\ cPc = "idle"
    /\ \E n \in headSeen..Len(headLog) :
         /\ headSeen' = n
         /\ cHint' = IF headLog[n] = TailIx THEN "empty" ELSE "items"
    /\ UNCHANGED <<prodVars, tailLog, cPc, item, buffer>>
-----------------------------------------------------------------------------
Producer == PushRefused \/ PushCheck \/ PushWrite \/ PushPublish \/ ProducerProbe

Consumer ==
    \/ PopEmpty \/ PopCheck
    \/ SpinStart \/ SpinMiss \/ SpinHit
    \/ PopRead \/ PopPublish
    \/ ConsumerProbe

Next == Producer \/ Consumer

Spec == Init /\ [][Next]_vars

(***************************************************************************)
(* A thread inside an operation goes on, and a store becomes visible to a  *)
(* thread that keeps loading: SpinHit is the load that returns a value     *)
(* newer than the consumer's tail.  Nobody is obliged to push or to pop.   *)
(***************************************************************************)
Fairness == /\ WF_vars(PushWrite) /\ WF_vars(PushPublish)
            /\ WF_vars(SpinHit) /\ WF_vars(PopRead) /\ WF_vars(PopPublish)

FairSpec == Spec /\ Fairness
-----------------------------------------------------------------------------
(* Properties. *)

\* Types, and each thread's view lies within the other's modification order.
TypeOK ==
    /\ headLog \in Seq(Slots) /\ tailLog \in Seq(Slots)
    /\ buffer \in [Slots -> Nat]
    /\ pPc \in {"idle", "write", "publish"}
    /\ cPc \in {"idle", "spin", "read", "publish"}
    /\ tailSeen \in 1..Len(tailLog) /\ headSeen \in 1..Len(headLog)
    /\ pHint \in Hints /\ cHint \in Hints
    /\ item \in Nat

\* push and pop never touch the same element of buffer_ at the same time
\* (lines 62, 79 and 93 have no lock between them).
NoSlotRace == pPc = "write" /\ cPc = "read" => HeadIx # TailIx

\* Each unlocked access is ordered by an acquire load after the release store
\* of the other side's access to the same slot: push overwrites only a slot
\* whose pop it has acquired, pop reads only a slot whose push it has acquired,
\* however stale the indices the two threads loaded.
AccessesAcquired ==
    /\ pPc \in {"write", "publish"} => Pushed - (tailSeen - 1) < Size - 1
    /\ cPc \in {"read", "publish"} => Popped < headSeen - 1

\* Items not yet popped are intact in their slots: no push overwrote one and
\* no pop moved one out.
UnreadIntact ==
    \A i \in Popped..(Pushed - 1) :
        (i = Popped /\ cPc = "publish") \/ buffer[Wrap(i)] = i + 1

\* The slots, which no lock guards (lines 62, 79, 93), are safe.
SlotsSafe == NoSlotRace /\ AccessesAcquired /\ UnreadIntact

\* empty_heuristic (lines 97-99) is exact in one direction for each thread: a
\* consumer told "not empty" cannot then fail to pop, and a producer told
\* "empty" cannot be refused, unless the ring has no usable slot (Size 1).
HintsHold ==
    /\ cHint = "items" => \A n \in headSeen..Len(headLog) : headLog[n] # TailIx
    /\ pHint = "empty" /\ Size > 1 =>
           \A n \in tailSeen..Len(tailLog) : ~LooksFull(tailLog[n])

\* The ring is a FIFO of Size - 1 items in which a push takes effect at the
\* store to head_ and a pop at the move out of the slot.
Fifo == INSTANCE BoundedFifo WITH
            Capacity <- Size - 1,
            sent <- Pushed,
            taken <- IF cPc = "publish" THEN Popped + 1 ELSE Popped

ImplementsFifo == Fifo!Spec

\* pop_spin (lines 88-95) returns once an item is there to return.
SpinReturns == cPc = "spin" /\ Pushed > Popped ~> cPc = "publish"
=============================================================================
