---------------------------- MODULE AllocatorLoop ----------------------------
(***************************************************************************)
(* The allocation loop of main.hpp over memory/hft_allocator.hpp and       *)
(* memory/numa_memory_pool.hpp, which hand on to malloc and free.  They    *)
(* are external: malloc gives any block that is not out, or none.          *)
(***************************************************************************)
EXTENDS Integers, Sequences, Functions

CONSTANTS
    Blocks,
    NoBlock,
    MaxActive,  \* 500
    NumOps      \* NUM_OPS

LoopAssumption == NoBlock \notin Blocks /\ MaxActive \in Nat \ {0} /\ NumOps \in Nat

VARIABLES
    i,
    active,     \* active
    live,       \* blocks malloc gave out
    wrong,      \* free was called for a block that was not out
    done

vars == <<i, active, live, wrong, done>>

Init == i = 0 /\ active = <<>> /\ live = {} /\ wrong = FALSE /\ done = FALSE

\* What allocate may return while the blocks of a set are out.
Allocated(out) == (Blocks \ out) \cup {NoBlock}

\* deallocate of each block of a sequence, while those of out are out.
Deallocate(bs, out) ==
    /\ live' = out \ Range(bs)
    /\ wrong' = (wrong \/ ~IsInjective(bs) \/ ~(Range(bs) \subseteq out))

\* Operators named Mutant_... are plausible bugs, which the properties must
\* refute when they take the place of the definition they precede.

\* active is not cleared.
Mutant_Refill ==
    \E b \in Allocated(live \ Range(active)) :
        /\ active' = IF b = NoBlock THEN active ELSE Append(active, b)
        /\ Deallocate(active, live \cup ({b} \ {NoBlock}))

\* No block: all are given back before another try, which may fail too.
Refill ==
    \E b \in Allocated(live \ Range(active)) :
        /\ active' = IF b = NoBlock THEN <<>> ELSE <<b>>
        /\ live' = (live \ Range(active)) \cup ({b} \ {NoBlock})
        /\ wrong' = (wrong \/ ~IsInjective(active) \/ ~(Range(active) \subseteq live))

\* The oldest goes when there are more than MaxActive.
Keep(b) ==
    LET all == Append(active, b)
        surplus == IF Len(all) > MaxActive THEN <<Head(all)>> ELSE <<>>
    IN /\ active' = SubSeq(all, Len(surplus) + 1, Len(all))
       /\ Deallocate(surplus, live \cup {b})

Operate ==
    /\ i < NumOps
    /\ \E b \in Allocated(live) : IF b = NoBlock THEN Refill ELSE Keep(b)
    /\ i' = i + 1
    /\ UNCHANGED done

Finish ==
    /\ i = NumOps /\ ~done
    /\ Deallocate(active, live)
    /\ done' = TRUE
    /\ UNCHANGED <<i, active>>

Next == Operate \/ Finish

Spec == Init /\ [][Next]_vars
-----------------------------------------------------------------------------
(* Properties. *)

TypeOK ==
    /\ i \in 0..NumOps /\ active \in Seq(Blocks) /\ live \subseteq Blocks
    /\ wrong \in BOOLEAN /\ done \in BOOLEAN

\* However often malloc fails, the loop holds on to every block it was given,
\* frees each once and, at the end, all: none leaks and none is freed twice.
BlocksAccounted ==
    /\ ~wrong
    /\ IsInjective(active) /\ Len(active) <= MaxActive
    /\ live = IF done THEN {} ELSE Range(active)
=============================================================================
