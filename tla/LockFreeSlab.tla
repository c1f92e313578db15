---------------------------- MODULE LockFreeSlab ----------------------------
(***************************************************************************)
(* memory/lock_free_slab.hpp: a pool of equal blocks whose free list is    *)
(* threaded through the blocks' first words and headed by one atomic word  *)
(* that packs an index and a generation tag.  One action per access to     *)
(* shared memory, for any number of threads.                               *)
(*                                                                         *)
(* Widths are scaled: an index has IdxMod values where the code has 2^48,  *)
(* a tag TagMod where it has 2^16, a word their product, so NULL_INDEX and *)
(* POISON_INDEX are, as in the code, wider than the index field.           *)
(*                                                                         *)
(* A caller frees a block it was given, once (any thread may free it).     *)
(* The counters that nothing reads (allocations, deallocations) are left   *)
(* out; a local is reset when its last use is past.                        *)
(* Loads return the newest value: a stale one is a load made earlier.      *)
(***************************************************************************)
EXTENDS Integers, FiniteSets

CONSTANTS
    Threads,
    NumBlocks,  \* num_blocks_
    IdxMod,     \* values of the index field
    TagMod,     \* values of the tag field
    MaxAllocs,  \* bound: allocations begun in a behaviour
    MaxStall    \* bound: updates of head_ during one load-to-CAS window

\* The validation of lines 41-43; the pool is smaller than the index field.
ASSUME SlabAssumption ==
    /\ NumBlocks \in Nat \ {0} /\ TagMod \in Nat \ {0}
    /\ IdxMod \in Nat /\ NumBlocks < IdxMod - 1
    /\ IsFiniteSet(Threads) /\ MaxAllocs \in Nat /\ MaxStall \in Nat

VARIABLES
    head,       \* head_, unpacked
    next,       \* first word of each block
    pc,         \* next step of each thread
    old,        \* its old_head
    nextIx,     \* its next_index
    blk,        \* the block it is taking or giving back, NoBlock if none
    age,        \* updates of head_ since it loaded old_head
    inUse,      \* metrics_.current_in_use
    seenUse,    \* its in_use
    peak,       \* metrics_.peak_in_use
    seenPeak,   \* its peak
    begun,      \* allocations begun (for the bound)
    held,       \* blocks in the hands of callers
    crashed     \* a thread read outside the pool

metrics == <<inUse, seenUse, peak, seenPeak>>
vars == <<head, next, pc, old, nextIx, blk, age, metrics, begun, held, crashed>>

Blocks == 0..(NumBlocks - 1)
NoBlock == -1

NULL_INDEX   == IdxMod * TagMod - 1
POISON_INDEX == IdxMod * TagMod - 2

\* Operators named Mutant_... are plausible bugs, which the properties must
\* refute when they take the place of the definition they precede.
Mutant_Packed(index, tag) == [idx |-> index % IdxMod, tag |-> 0]
Mutant_PackedWide(index, tag) == [idx |-> index % IdxMod, tag |-> tag]

\* unpack(pack(index, tag)): the fields keep their low bits.
Packed(index, tag) == [idx |-> index % IdxMod, tag |-> tag % TagMod]

Init ==
    /\ head = Packed(0, 0)
    /\ next = [b \in Blocks |-> IF b + 1 < NumBlocks THEN b + 1 ELSE NULL_INDEX]
    /\ pc = [t \in Threads |-> "idle"]
    /\ old = [t \in Threads |-> Packed(0, 0)]
    /\ nextIx = [t \in Threads |-> 0]
    /\ blk = [t \in Threads |-> NoBlock]
    /\ age = [t \in Threads |-> 0]
    /\ inUse = 0 /\ peak = 0
    /\ seenUse = [t \in Threads |-> 0]
    /\ seenPeak = [t \in Threads |-> 0]
    /\ begun = 0
    /\ held = {}
    /\ crashed = FALSE

\* Thread t is at a step, in a process that still runs.
In(t, step) == ~crashed /\ pc[t] = step

Goto(t, step) == pc' = [pc EXCEPT ![t] = step]

\* old_head = head_, by a load or by a failed compare-exchange.
LoadHead(t) ==
    /\ old' = [old EXCEPT ![t] = head]
    /\ age' = [age EXCEPT ![t] = 0]

\* Threads between their load of head_ and their compare-exchange.
Windows == {t \in Threads : pc[t] \in {"aRead", "aCas", "dLink", "dCas"}}

\* compare_exchange_weak succeeds and stores h.
CasHead(t, h) ==
    /\ head = old[t]
    /\ \A u \in Windows \ {t} : age[u] < MaxStall
    /\ head' = h
    /\ age' = [u \in Threads |-> IF u \in Windows \ {t} THEN age[u] + 1 ELSE 0]
    /\ old' = [old EXCEPT ![t] = Packed(0, 0)]
    /\ nextIx' = [nextIx EXCEPT ![t] = 0]
-----------------------------------------------------------------------------
(* allocate *)

AllocLoad(t) ==
    /\ In(t, "idle")
    /\ begun < MaxAllocs
    /\ begun' = begun + 1
    /\ LoadHead(t)
    /\ Goto(t, "aRead")
    /\ UNCHANGED <<head, next, nextIx, blk, metrics, held, crashed>>

\* The exhaustion test of line 76, then the read of *slot: outside the pool it
\* is a wild read, which ends the process.
AllocRead(t) ==
    /\ In(t, "aRead")
    /\ CASE old[t].idx = NULL_INDEX ->
              Goto(t, "idle") /\ UNCHANGED <<nextIx, crashed>>
         [] old[t].idx # NULL_INDEX /\ old[t].idx \notin Blocks ->
              crashed' = TRUE /\ UNCHANGED <<pc, nextIx>>
         [] old[t].idx \in Blocks ->
              /\ nextIx' = [nextIx EXCEPT ![t] = next[old[t].idx]]
              /\ Goto(t, "aCas")
              /\ UNCHANGED crashed
    /\ UNCHANGED <<head, next, old, blk, age, metrics, begun, held>>

AllocCas(t) ==
    /\ In(t, "aCas")
    /\ CasHead(t, Packed(nextIx[t], old[t].tag + 1))
    /\ blk' = [blk EXCEPT ![t] = old[t].idx]
    /\ Goto(t, "aPoison")
    /\ UNCHANGED <<next, metrics, begun, held, crashed>>

\* Retries with the head it loaded first, as a compare-exchange that does not
\* write its expected argument would.
Mutant_AllocRetry(t) ==
    /\ In(t, "aCas")
    /\ Goto(t, "aRead")
    /\ UNCHANGED <<head, next, old, age, nextIx, blk, metrics, begun, held, crashed>>

\* The weak compare-exchange fails, perhaps spuriously, and reloads head_.
AllocRetry(t) ==
    /\ In(t, "aCas")
    /\ LoadHead(t)
    /\ Goto(t, "aRead")
    /\ UNCHANGED <<head, next, nextIx, blk, metrics, begun, held, crashed>>

Mutant_AllocPoison(t) ==
    /\ In(t, "aPoison")
    /\ Goto(t, "aCount")
    /\ UNCHANGED <<head, next, old, nextIx, blk, age, metrics, begun, held, crashed>>

AllocPoison(t) ==
    /\ In(t, "aPoison")
    /\ next' = [next EXCEPT ![blk[t]] = POISON_INDEX]
    /\ Goto(t, "aCount")
    /\ UNCHANGED <<head, old, nextIx, blk, age, metrics, begun, held, crashed>>

AllocCount(t) ==
    /\ In(t, "aCount")
    /\ inUse' = inUse + 1
    /\ seenUse' = [seenUse EXCEPT ![t] = inUse + 1]
    /\ Goto(t, "aLoadPeak")
    /\ UNCHANGED <<head, next, old, nextIx, blk, age, peak, seenPeak, begun, held,
                   crashed>>

AllocPeakLoad(t) ==
    /\ In(t, "aLoadPeak")
    /\ seenPeak' = [seenPeak EXCEPT ![t] = peak]
    /\ Goto(t, "aPeak")
    /\ UNCHANGED <<head, next, old, nextIx, blk, age, inUse, seenUse, peak, begun,
                   held, crashed>>

\* Returns blk[t] to the caller.
Return(t) ==
    /\ held' = held \cup {blk[t]}
    /\ blk' = [blk EXCEPT ![t] = NoBlock]
    /\ seenUse' = [seenUse EXCEPT ![t] = 0]
    /\ seenPeak' = [seenPeak EXCEPT ![t] = 0]
    /\ Goto(t, "idle")

\* Stores without comparing, as a load and a store would.
Mutant_AllocPeak(t) ==
    /\ In(t, "aPeak")
    /\ IF seenUse[t] > seenPeak[t] THEN peak' = seenUse[t] ELSE UNCHANGED peak
    /\ Return(t)
    /\ UNCHANGED <<head, next, old, nextIx, age, inUse, begun, crashed>>

\* while (in_use > peak) compare_exchange_weak(peak, in_use): done, or updated.
AllocPeak(t) ==
    /\ In(t, "aPeak")
    /\ \/ seenUse[t] <= seenPeak[t] /\ UNCHANGED peak
       \/ seenUse[t] > seenPeak[t] /\ peak = seenPeak[t] /\ peak' = seenUse[t]
    /\ Return(t)
    /\ UNCHANGED <<head, next, old, nextIx, age, inUse, begun, crashed>>

\* The compare-exchange fails and reloads peak.
AllocPeakRetry(t) ==
    /\ In(t, "aPeak")
    /\ seenUse[t] > seenPeak[t]
    /\ seenPeak' = [seenPeak EXCEPT ![t] = peak]
    /\ UNCHANGED <<head, next, pc, old, nextIx, blk, age, inUse, seenUse, peak, begun,
                   held, crashed>>
-----------------------------------------------------------------------------
(* deallocate *)

\* Line 132: a block whose first word is not the poison is not freed (again).
FreeStart(t) ==
    /\ In(t, "idle")
    /\ \E b \in held :
         /\ held' = held \ {b}
         /\ IF next[b] = POISON_INDEX
            THEN /\ blk' = [blk EXCEPT ![t] = b]
                 /\ LoadHead(t)
                 /\ Goto(t, "dLink")
            ELSE UNCHANGED <<blk, old, age, pc>>
    /\ UNCHANGED <<head, next, nextIx, metrics, begun, crashed>>

FreeLink(t) ==
    /\ In(t, "dLink")
    /\ next' = [next EXCEPT ![blk[t]] = old[t].idx]
    /\ Goto(t, "dCas")
    /\ UNCHANGED <<head, old, nextIx, blk, age, metrics, begun, held, crashed>>

FreeCas(t) ==
    /\ In(t, "dCas")
    /\ CasHead(t, Packed(blk[t], old[t].tag + 1))
    /\ blk' = [blk EXCEPT ![t] = NoBlock]
    /\ Goto(t, "dCount")
    /\ UNCHANGED <<next, metrics, begun, held, crashed>>

\* Retries without linking the block to the new head.
Mutant_FreeRetry(t) ==
    /\ In(t, "dCas")
    /\ LoadHead(t)
    /\ UNCHANGED <<head, next, pc, nextIx, blk, metrics, begun, held, crashed>>

FreeRetry(t) ==
    /\ In(t, "dCas")
    /\ LoadHead(t)
    /\ Goto(t, "dLink")
    /\ UNCHANGED <<head, next, nextIx, blk, metrics, begun, held, crashed>>

\* Counts the deallocation and not the block.
Mutant_FreeCount(t) ==
    /\ In(t, "dCount")
    /\ Goto(t, "idle")
    /\ UNCHANGED <<head, next, old, nextIx, blk, age, metrics, begun, held, crashed>>

FreeCount(t) ==
    /\ In(t, "dCount")
    /\ inUse' = inUse - 1
    /\ Goto(t, "idle")
    /\ UNCHANGED <<head, next, old, nextIx, blk, age, seenUse, peak, seenPeak,
                   begun, held, crashed>>
-----------------------------------------------------------------------------
Allocate(t) ==
    \/ AllocLoad(t) \/ AllocRead(t) \/ AllocCas(t) \/ AllocRetry(t)
    \/ AllocPoison(t) \/ AllocCount(t) \/ AllocPeakLoad(t)
    \/ AllocPeak(t) \/ AllocPeakRetry(t)

Deallocate(t) ==
    \/ FreeStart(t) \/ FreeLink(t) \/ FreeCas(t) \/ FreeRetry(t) \/ FreeCount(t)

Next == \E t \in Threads : Allocate(t) \/ Deallocate(t)

Spec == Init /\ [][Next]_vars

(***************************************************************************)
(* A running thread takes its next step; a weak compare-exchange that can  *)
(* succeed again and again does not fail spuriously forever.               *)
(***************************************************************************)
Fairness == \A t \in Threads :
    /\ WF_vars(AllocRead(t)) /\ SF_vars(AllocCas(t)) /\ WF_vars(AllocRetry(t))
    /\ WF_vars(AllocPoison(t)) /\ WF_vars(AllocCount(t)) /\ WF_vars(AllocPeakLoad(t))
    /\ SF_vars(AllocPeak(t)) /\ WF_vars(AllocPeakRetry(t))
    /\ WF_vars(FreeLink(t)) /\ SF_vars(FreeCas(t)) /\ WF_vars(FreeRetry(t))
    /\ WF_vars(FreeCount(t))

FairSpec == Spec /\ Fairness
-----------------------------------------------------------------------------
(* Properties. *)

\* The free list, by walking memory from head_: its k-th index.
Walk[k \in 0..NumBlocks] ==
    IF k = 0 THEN head.idx
    ELSE LET i == Walk[k - 1] IN IF i \in Blocks THEN next[i] % IdxMod ELSE i

FreeBlocks == {Walk[k] : k \in 0..NumBlocks} \cap Blocks

Words == 0..NULL_INDEX
Heads == [idx : 0..(IdxMod - 1), tag : 0..(TagMod - 1)]

TypeOK ==
    /\ head \in Heads /\ next \in [Blocks -> Words]
    /\ pc \in [Threads -> {"idle", "aRead", "aCas", "aPoison", "aCount", "aLoadPeak",
                           "aPeak", "dLink", "dCas", "dCount"}]
    /\ old \in [Threads -> Heads] /\ nextIx \in [Threads -> Words]
    /\ blk \in [Threads -> Blocks \cup {NoBlock}]
    /\ age \in [Threads -> 0..MaxStall]
    /\ inUse \in Nat /\ peak \in Nat
    /\ seenUse \in [Threads -> Nat] /\ seenPeak \in [Threads -> Nat]
    /\ begun \in 0..MaxAllocs
    /\ held \subseteq Blocks /\ crashed \in BOOLEAN

\* The list ends, at the truncated NULL_INDEX: no cycle, no stray index.
FreeListIntact == Walk[NumBlocks] = NULL_INDEX % IdxMod

\* The list is intact, whatever compare-exchanges interleave with the relinking
\* of blocks, and a block is in it, or in one thread's operation, or with one
\* caller: never given out twice and never lost ("evitar el ABA problem", line
\* 15).
BlocksConserved ==
    /\ FreeListIntact
    /\ \A b \in Blocks :
         Cardinality({t \in Threads : blk[t] = b})
           + (IF b \in held THEN 1 ELSE 0)
           + (IF b \in FreeBlocks THEN 1 ELSE 0) = 1

\* The poison of line 93 tells a block that is out from one in the list, so
\* that the test of line 132 refuses a second free and never a first.
PoisonTells ==
    /\ \A b \in held : next[b] = POISON_INDEX
    /\ \A b \in FreeBlocks : next[b] # POISON_INDEX

\* The list, the poison and the owners agree at every step.
PoolIntact == BlocksConserved /\ PoisonTells

\* The blocks of the threads at certain steps.
With(steps) == {blk[t] : t \in {u \in Threads : pc[u] \in steps}}

Pool == INSTANCE BlockPool WITH
    free      <- FreeBlocks,
    leaving   <- With({"aPoison", "aCount", "aLoadPeak", "aPeak"}),
    returning <- With({"dLink", "dCas"})

\* The lock-free list is a pool: a compare-exchange takes out exactly the block
\* its thread will return, or puts back exactly the one it was given, and no
\* other step (a link, a retry, a late count) changes what is free.
ImplementsPool == Pool!Spec

At(steps) == Cardinality({t \in Threads : pc[t] \in steps})

\* current_in_use is late by the operations between their compare-exchange and
\* their count, and by no more: it returns to the truth, and available()
\* (line 165) is wrong, even below zero, only in between.
InUseExact ==
    inUse + At({"aPoison", "aCount"}) =
        NumBlocks - Cardinality(FreeBlocks) + At({"dCount"})

\* peak_in_use is late only by threads still in the loop of lines 100-103.
PeakCovers ==
    \/ inUse <= peak
    \/ \E t \in Threads : pc[t] \in {"aLoadPeak", "aPeak"} /\ inUse <= seenUse[t]

\* Both metrics are right but for the operations under way.
MetricsSettle == InUseExact /\ PeakCovers

\* Lock freedom, with boundedly many operations: every operation ends.
OpsEnd == \A t \in Threads : pc[t] # "idle" ~> pc[t] = "idle" \/ crashed

\* "Retorna nullptr si no hay bloques disponibles" (line 67): an empty pool is
\* reported, and allocate reads nothing outside the pool.
ReadsInPool == ~crashed
=============================================================================
