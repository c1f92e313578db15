------------------------- MODULE LockFreeSlabProofs -------------------------
(***************************************************************************)
(* Proofs about LockFreeSlab, for any number of threads, any pool and any  *)
(* field widths: the list is intact and conserves the blocks, the metrics  *)
(* settle, and the list implements BlockPool.                              *)
(*                                                                         *)
(* They assume StallsShort: a thread sees fewer updates of head_ between   *)
(* its load and its compare-exchange than the tag has values (2^16 in the  *)
(* code).  The code cannot promise it; it is what its tag rests on: after  *)
(* 2^16 updates the tag is back and an exchange could succeed on a stale   *)
(* next_index.                                                             *)
(***************************************************************************)
EXTENDS LockFreeSlab, NumberLemmas, FiniteSetTheorems

\* The index that ends the list: NULL_INDEX, as the index field truncates it.
End == IdxMod - 1

\* The n blocks of w are the list, in order: memory links each to the next.
Linked(n, w) ==
    /\ \A i, j \in 1..n : w[i] = w[j] => i = j
    /\ head.idx = IF n = 0 THEN End ELSE w[1]
    /\ \A i \in 1..n : next[w[i]] % IdxMod = IF i = n THEN End ELSE w[i + 1]

Listed == \E n \in 0..NumBlocks : \E w \in [1..n -> Blocks] : Linked(n, w)

LEMMA Sizes ==
    /\ NumBlocks \in Nat \ {0} /\ TagMod \in Nat \ {0} /\ IdxMod \in Nat \ {0}
    /\ NumBlocks < IdxMod - 1 /\ MaxAllocs \in Nat /\ MaxStall \in Nat
BY SlabAssumption

\* The two markers, truncated, are no block's index and differ.
LEMMA Markers ==
    /\ NULL_INDEX \in Nat /\ POISON_INDEX \in Nat
    /\ NULL_INDEX % IdxMod = End /\ POISON_INDEX % IdxMod = IdxMod - 2
    /\ End \notin Blocks /\ IdxMod - 2 \notin Blocks
    /\ \A b \in Blocks : b \in 0..(IdxMod - 1) /\ b % IdxMod = b
    /\ 0..(IdxMod - 1) \subseteq Words /\ POISON_INDEX \in Words /\ NULL_INDEX \in Words
<1>1. IdxMod * TagMod = IdxMod * (TagMod - 1) + IdxMod
  BY Sizes
<1>2. TagMod - 1 \in Nat /\ IdxMod - 1 \in 0..(IdxMod - 1) /\ IdxMod - 2 \in 0..(IdxMod - 1)
  BY Sizes
<1>3. IdxMod * (TagMod - 1) \in Nat
  BY <1>2, Sizes
<1> DEFINE above == IdxMod * (TagMod - 1)
<1>4. NULL_INDEX = above + (IdxMod - 1) /\ POISON_INDEX = above + (IdxMod - 2)
  BY <1>1, <1>3, Sizes DEF NULL_INDEX, POISON_INDEX
<1>5. NULL_INDEX % IdxMod = End /\ POISON_INDEX % IdxMod = IdxMod - 2
  BY <1>4, <1>2, Sizes, RemainderUnique DEF End
<1> HIDE DEF above
<1>6. \A b \in Blocks : b \in 0..(IdxMod - 1) /\ b % IdxMod = b
  BY Sizes DEF Blocks
<1>7. /\ NULL_INDEX \in Nat /\ POISON_INDEX \in Nat
      /\ 0..(IdxMod - 1) \subseteq Words /\ POISON_INDEX \in Words /\ NULL_INDEX \in Words
  BY <1>3, <1>4, Sizes DEF Words, above
<1>8. End \notin Blocks /\ IdxMod - 2 \notin Blocks
  BY Sizes DEF Blocks, End
<1> QED
  BY <1>5, <1>6, <1>7, <1>8

\* The walk of a linked list visits its blocks in order and then stays at its
\* end.
LEMMA WalkVisits ==
    \A n \in 0..NumBlocks : \A w \in [1..n -> Blocks] :
        Linked(n, w) =>
            \A k \in 0..NumBlocks : Walk[k] = IF k < n THEN w[k + 1] ELSE End
<1> SUFFICES ASSUME NEW n \in 0..NumBlocks, NEW w \in [1..n -> Blocks], Linked(n, w)
             PROVE  \A k \in 0..NumBlocks : Walk[k] = IF k < n THEN w[k + 1] ELSE End
  OBVIOUS
<1> DEFINE After(i) == IF i \in Blocks THEN next[i] % IdxMod ELSE i
           V == [k \in 0..NumBlocks |-> IF k < n THEN w[k + 1] ELSE End]
           Walks(f) == f = [k \in 0..NumBlocks |-> IF k = 0 THEN head.idx ELSE After(f[k - 1])]
<1>1. Walks(V)
  <2>1. V[0] = head.idx
    BY Sizes DEF Linked
  <2>2. ASSUME NEW k \in 1..NumBlocks
        PROVE  V[k] = After(V[k - 1])
    <3>1. CASE k - 1 < n
      <4>1. k \in 1..n /\ V[k - 1] = w[k] /\ w[k] \in Blocks
        BY <3>1, Sizes
      <4>2. next[w[k]] % IdxMod = IF k = n THEN End ELSE w[k + 1]
        BY <4>1 DEF Linked
      <4> QED
        BY <4>1, <4>2, Sizes
    <3>2. CASE ~(k - 1 < n)
      <4>1. V[k - 1] = End /\ V[k] = End
        BY <3>2, Sizes
      <4> QED
        BY <4>1, Markers
    <3> QED
      BY <3>1, <3>2
  <2> HIDE DEF After
  <2>3. ASSUME NEW k \in 0..NumBlocks
        PROVE  V[k] = IF k = 0 THEN head.idx ELSE After(V[k - 1])
    <3> HIDE DEF V
    <3>1. CASE k = 0
      BY <2>1, <3>1
    <3>2. CASE k # 0
      <4>1. k \in 1..NumBlocks
        BY <3>2, Sizes
      <4> QED
        BY <4>1, <2>2, <3>2
    <3> QED
      BY <3>1, <3>2
  <2> QED
    BY <2>3
<1>2. Walk = CHOOSE f : Walks(f)
  BY DEF Walk
<1> HIDE DEF V, Walks
<1>3. Walks(Walk)
  BY <1>1, <1>2
<1> DEFINE Wrong == {k \in 0..NumBlocks : Walk[k] # V[k]}
<1>4. Wrong = {}
  <2> SUFFICES ASSUME Wrong # {} PROVE FALSE
    OBVIOUS
  <2>1. PICK k \in Wrong : \A m \in Wrong : k <= m
    <3>1. Wrong \subseteq Nat
      BY Sizes
    <3> HIDE DEF Wrong
    <3> QED
      BY <3>1, LeastNumber
  <2>2. Walk[k] = IF k = 0 THEN head.idx ELSE After(Walk[k - 1])
    BY <1>3, Sizes, SMTT(40) DEF Walks
  <2>3. V[k] = IF k = 0 THEN head.idx ELSE After(V[k - 1])
    BY <1>1, Sizes DEF Walks
  <2>4. CASE k = 0
    BY <2>2, <2>3, <2>4
  <2>5. CASE k # 0
    <3>1. k - 1 \in 0..NumBlocks /\ k - 1 \notin Wrong
      BY <2>1, <2>5, Sizes
    <3> QED
      BY <3>1, <2>2, <2>3, <2>5
  <2> QED
    BY <2>4, <2>5
<1> QED
  BY <1>4 DEF V

\* So the free blocks are those of the list, and the walk ends.
FreeAreListed ==
    \A n \in 0..NumBlocks : \A w \in [1..n -> Blocks] :
        Linked(n, w) => FreeBlocks = {w[i] : i \in 1..n} /\ FreeListIntact

LEMMA ListIsFree == FreeAreListed
<1> SUFFICES ASSUME NEW n \in 0..NumBlocks, NEW w \in [1..n -> Blocks], Linked(n, w)
             PROVE  FreeBlocks = {w[i] : i \in 1..n} /\ FreeListIntact
  BY DEF FreeAreListed
<1>1. \A k \in 0..NumBlocks : Walk[k] = IF k < n THEN w[k + 1] ELSE End
  BY WalkVisits
<1>2. ASSUME NEW b \in FreeBlocks PROVE b \in {w[i] : i \in 1..n}
  <2>1. PICK k \in 0..NumBlocks : b = Walk[k] /\ b \in Blocks
    BY DEF FreeBlocks
  <2>2. k < n /\ b = w[k + 1]
    BY <2>1, <1>1, Markers
  <2>3. k + 1 \in 1..n
    BY <2>2, Sizes
  <2> QED
    BY <2>2, <2>3
<1>3. ASSUME NEW i \in 1..n PROVE w[i] \in FreeBlocks
  <2>1. i - 1 \in 0..NumBlocks /\ Walk[i - 1] = w[i]
    BY <1>1, Sizes
  <2> QED
    BY <2>1 DEF FreeBlocks
<1>4. FreeListIntact
  <2>1. Walk[NumBlocks] = End
    BY <1>1, Sizes
  <2> QED
    BY <2>1, Markers DEF FreeListIntact
<1> QED
  BY <1>2, <1>3, <1>4

\* Different blocks are at most NumBlocks.
LEMMA ListFits ==
    ASSUME NEW n \in Nat, NEW w \in [1..n -> Blocks],
           \A i, j \in 1..n : w[i] = w[j] => i = j
    PROVE  n <= NumBlocks
<1>1. IsFiniteSet(Blocks) /\ Cardinality(Blocks) = NumBlocks
  BY Sizes, FS_Interval DEF Blocks
<1>2. w \in Injection(1..n, Blocks)
  BY DEF Injection, IsInjective
<1>3. Cardinality(1..n) <= Cardinality(Blocks)
  BY <1>1, <1>2, FS_Injection
<1>4. Cardinality(1..n) = n
  BY FS_Interval
<1> QED
  BY <1>1, <1>3, <1>4
-----------------------------------------------------------------------------
(* The inductive invariant. *)

\* Steps at which a thread has a block.
Leaving   == {"aPoison", "aCount", "aLoadPeak", "aPeak"}
Returning == {"dLink", "dCas"}

\* A block is in the list, or with one thread, or with one caller.
Owned ==
    /\ \A t \in Threads : blk[t] # NoBlock <=> pc[t] \in Leaving \cup Returning
    /\ \A t \in Threads : blk[t] \notin FreeBlocks /\ blk[t] \notin held
    /\ \A t, u \in Threads : blk[t] = blk[u] /\ t # u => blk[t] = NoBlock
    /\ held \cap FreeBlocks = {}
    /\ \A b \in Blocks : b \in FreeBlocks \/ b \in held \/ \E t \in Threads : blk[t] = b

\* Blocks that are out carry the poison from line 93 to line 136.
Poisoned ==
    /\ \A b \in held : next[b] = POISON_INDEX
    /\ \A t \in Threads : pc[t] \in Leaving \ {"aPoison"} => next[blk[t]] = POISON_INDEX

\* What a thread between its load of head_ and its compare-exchange knows: the
\* tag tells how often head_ changed, and while it did not the link it read is
\* the one in memory.
Windowed ==
    /\ \A t \in Windows : /\ head.tag = (old[t].tag + age[t]) % TagMod
                          /\ age[t] = 0 => old[t] = head
    /\ \A t \in Threads : pc[t] = "aCas" =>
          old[t].idx \in Blocks /\ (age[t] = 0 => nextIx[t] = next[old[t].idx])
    /\ \A t \in Threads : pc[t] = "dCas" => next[blk[t]] = old[t].idx

\* What the walks, the owners and the windows rest on.
PoolInv == TypeOK /\ Listed /\ Owned /\ Poisoned /\ Windowed

\* A peak that a thread has seen was reached.
PeaksSeen == \A t \in Threads : seenPeak[t] <= peak

IInv == PoolInv /\ PeaksSeen /\ MetricsSettle
-----------------------------------------------------------------------------
(* What a step does to the list. *)

LEMMA ListIsFreeNext == FreeAreListed'
BY ListIsFree, PTL

\* Memory outside the list may change.
LEMMA ListKept ==
    ASSUME Listed, head' = head, \A b \in FreeBlocks : next'[b] = next[b]
    PROVE  Listed' /\ FreeBlocks' = FreeBlocks
<1>1. PICK n \in 0..NumBlocks : \E w \in [1..n -> Blocks] : Linked(n, w)
  BY DEF Listed
<1>2. PICK w \in [1..n -> Blocks] : Linked(n, w)
  BY <1>1
<1>3. FreeBlocks = {w[i] : i \in 1..n}
  BY <1>2, ListIsFree DEF FreeAreListed
<1>4. Linked(n, w)'
  BY <1>2, <1>3 DEF Linked
<1>5. FreeBlocks' = {w[i] : i \in 1..n}
  BY <1>4, ListIsFreeNext DEF FreeAreListed
<1> QED
  BY <1>3, <1>4, <1>5 DEF Listed

\* The head becomes the block after it.
LEMMA ListPopped ==
    ASSUME Listed, head.idx \in Blocks, head'.idx = next[head.idx] % IdxMod, next' = next
    PROVE  Listed' /\ head.idx \in FreeBlocks /\ FreeBlocks' = FreeBlocks \ {head.idx}
<1>1. PICK n \in 0..NumBlocks : \E w \in [1..n -> Blocks] : Linked(n, w)
  BY DEF Listed
<1>2. PICK w \in [1..n -> Blocks] : Linked(n, w)
  BY <1>1
<1>3. FreeBlocks = {w[i] : i \in 1..n}
  BY <1>2, ListIsFree DEF FreeAreListed
<1>4. n > 0 /\ head.idx = w[1]
  BY <1>2, Markers DEF Linked
<1> DEFINE v == [i \in 1..(n - 1) |-> w[i + 1]]
<1>5. v \in [1..(n - 1) -> Blocks] /\ n - 1 \in 0..NumBlocks
  <2>1. \A i \in 1..(n - 1) : i + 1 \in 1..n
    BY Sizes
  <2>2. n - 1 \in 0..NumBlocks
    BY <1>4, Sizes
  <2> QED
    BY <2>1, <2>2
<1>6. Linked(n - 1, v)'
  <2>1. \A i, j \in 1..(n - 1) : v[i] = v[j] => i = j
    BY <1>2 DEF Linked
  <2>2. head'.idx = IF n - 1 = 0 THEN End ELSE v[1]
    BY <1>2, <1>4 DEF Linked
  <2>3. \A i \in 1..(n - 1) : next[v[i]] % IdxMod = IF i = n - 1 THEN End ELSE v[i + 1]
    BY <1>2 DEF Linked
  <2> QED
    BY <2>1, <2>2, <2>3 DEF Linked
<1>7. FreeBlocks' = {v[i] : i \in 1..(n - 1)}
  BY <1>5, <1>6, ListIsFreeNext DEF FreeAreListed
<1>8. {v[i] : i \in 1..(n - 1)} = {w[i] : i \in 1..n} \ {w[1]}
  <2>1. ASSUME NEW i \in 1..(n - 1) PROVE v[i] \in {w[j] : j \in 1..n} \ {w[1]}
    <3>1. i + 1 \in 1..n /\ v[i] = w[i + 1] /\ w[i + 1] # w[1]
      BY <1>2 DEF Linked
    <3> QED
      BY <3>1
  <2>2. ASSUME NEW i \in 1..n, w[i] # w[1] PROVE w[i] \in {v[j] : j \in 1..(n - 1)}
    <3>1. i - 1 \in 1..(n - 1) /\ v[i - 1] = w[i]
      BY <2>2
    <3> QED
      BY <3>1
  <2> QED
    BY <2>1, <2>2
<1> HIDE DEF v
<1>9. head.idx \in FreeBlocks
  <2>1. 1 \in 1..n
    BY <1>4
  <2> QED
    BY <2>1, <1>3, <1>4
<1>10. FreeBlocks' = FreeBlocks \ {head.idx}
  BY <1>3, <1>4, <1>7, <1>8
<1>11. Listed'
  BY <1>5, <1>6 DEF Listed
<1> QED
  BY <1>9, <1>10, <1>11

\* The head is free, unless it is the end.
LEMMA ListHead == ASSUME Listed, head.idx \in Blocks PROVE head.idx \in FreeBlocks
<1>1. PICK n \in 0..NumBlocks : \E w \in [1..n -> Blocks] : Linked(n, w)
  BY DEF Listed
<1>2. PICK w \in [1..n -> Blocks] : Linked(n, w)
  BY <1>1
<1>3. 1 \in 1..n /\ head.idx = w[1]
  BY <1>2, Markers DEF Linked
<1> QED
  BY <1>2, <1>3, ListIsFree DEF FreeAreListed

\* A block that is linked to the head becomes the head.
LEMMA ListPushed ==
    ASSUME Listed, NEW b \in Blocks \ FreeBlocks,
           head'.idx = b, next[b] % IdxMod = head.idx, next' = next
    PROVE  Listed' /\ FreeBlocks' = FreeBlocks \cup {b}
<1>1. PICK n \in 0..NumBlocks : \E w \in [1..n -> Blocks] : Linked(n, w)
  BY DEF Listed
<1>2. PICK w \in [1..n -> Blocks] : Linked(n, w)
  BY <1>1
<1>3. FreeBlocks = {w[i] : i \in 1..n}
  BY <1>2, ListIsFree DEF FreeAreListed
<1> DEFINE v == [i \in 1..(n + 1) |-> IF i = 1 THEN b ELSE w[i - 1]]
<1>4. v \in [1..(n + 1) -> Blocks]
  BY Sizes
<1>5. \A i, j \in 1..(n + 1) : v[i] = v[j] => i = j
  <2>1. \A i \in 1..n : w[i] # b
    BY <1>3
  <2> QED
    BY <1>2, <2>1 DEF Linked
<1>6. n + 1 \in 0..NumBlocks
  <2> HIDE DEF v
  <2>1. n + 1 \in Nat
    BY Sizes
  <2>2. n + 1 <= NumBlocks
    BY <1>4, <1>5, <2>1, ListFits
  <2> QED
    BY <2>1, <2>2, Sizes
<1>7. Linked(n + 1, v)'
  <2>1. head'.idx = IF n + 1 = 0 THEN End ELSE v[1]
    BY Sizes
  <2>2. ASSUME NEW i \in 1..(n + 1)
        PROVE  next[v[i]] % IdxMod = IF i = n + 1 THEN End ELSE v[i + 1]
    <3>1. CASE i = 1
      BY <3>1, <1>2, Sizes DEF Linked
    <3>2. CASE i # 1
      <4>1. i - 1 \in 1..n /\ v[i] = w[i - 1] /\ (i # n + 1 => v[i + 1] = w[i])
        BY <3>2, Sizes
      <4>2. next[w[i - 1]] % IdxMod = IF i - 1 = n THEN End ELSE w[i]
        BY <4>1, <1>2, Sizes DEF Linked
      <4> QED
        BY <4>1, <4>2, Sizes
    <3> QED
      BY <3>1, <3>2
  <2> QED
    BY <1>5, <2>1, <2>2 DEF Linked
<1>8. FreeBlocks' = {v[i] : i \in 1..(n + 1)}
  BY <1>4, <1>6, <1>7, ListIsFreeNext DEF FreeAreListed
<1>9. {v[i] : i \in 1..(n + 1)} = {w[i] : i \in 1..n} \cup {b}
  <2>1. ASSUME NEW i \in 1..n PROVE w[i] \in {v[j] : j \in 1..(n + 1)}
    <3>1. i + 1 \in 1..(n + 1) /\ v[i + 1] = w[i]
      BY Sizes
    <3> QED
      BY <3>1
  <2>2. b \in {v[j] : j \in 1..(n + 1)}
    <3>1. 1 \in 1..(n + 1) /\ v[1] = b
      BY Sizes
    <3> QED
      BY <3>1
  <2>3. ASSUME NEW i \in 1..(n + 1) PROVE v[i] \in {w[j] : j \in 1..n} \cup {b}
    <3>1. i = 1 \/ i - 1 \in 1..n
      BY Sizes
    <3> QED
      BY <3>1
  <2> QED
    BY <2>1, <2>2, <2>3
<1> HIDE DEF v
<1> QED
  BY <1>3, <1>4, <1>6, <1>7, <1>8, <1>9 DEF Listed
-----------------------------------------------------------------------------
(* What a step does to the pool. *)

\* The tag has no time to come round while a thread waits to exchange.
StallsShort == MaxStall < TagMod

LEMMA LoadedTag == ASSUME TypeOK PROVE head.tag = (head.tag + 0) % TagMod
<1>1. head.tag \in 0..(TagMod - 1)
  BY DEF TypeOK, Heads
<1> QED
  BY <1>1, Sizes

LEMMA AllocReadGoes ==
    ASSUME TypeOK, NEW t \in Threads, AllocRead(t)
    PROVE  \/ pc' = [pc EXCEPT ![t] = "idle"] /\ UNCHANGED <<nextIx, crashed>>
           \/ crashed' = TRUE /\ UNCHANGED <<pc, nextIx>>
           \/ /\ old[t].idx \in Blocks
              /\ nextIx' = [nextIx EXCEPT ![t] = next[old[t].idx]]
              /\ pc' = [pc EXCEPT ![t] = "aCas"]
              /\ UNCHANGED crashed
<1>1. old[t].idx = NULL_INDEX => old[t].idx \notin Blocks
  BY Sizes, Markers DEF TypeOK, Heads, Blocks, NULL_INDEX
<1>2. CASE old[t].idx = NULL_INDEX
  BY <1>1, <1>2 DEF AllocRead, Goto
<1>3. CASE old[t].idx # NULL_INDEX /\ old[t].idx \notin Blocks
  BY <1>3 DEF AllocRead
<1>4. CASE old[t].idx \in Blocks
  BY <1>1, <1>4 DEF AllocRead, Goto
<1> QED
  BY <1>2, <1>3, <1>4

LEMMA AllocateQuiet ==
    ASSUME PoolInv, NEW t \in Threads,
           \/ AllocLoad(t) \/ AllocRead(t) \/ AllocRetry(t)
           \/ AllocCount(t) \/ AllocPeakLoad(t) \/ AllocPeakRetry(t)
    PROVE  PoolInv' /\ FreeBlocks' = FreeBlocks
<1>0. head.tag = (head.tag + 0) % TagMod
  BY LoadedTag DEF PoolInv
<1>1. Listed' /\ FreeBlocks' = FreeBlocks
  <2>1. head' = head /\ next' = next
    BY DEF AllocLoad, AllocRead, AllocRetry, AllocCount, AllocPeakLoad, AllocPeakRetry
  <2> QED
    BY <2>1, ListKept DEF PoolInv
<1> USE <1>1, Markers DEF PoolInv, TypeOK, Owned, Poisoned, Windowed, Windows,
        Leaving, Returning, In, Goto, LoadHead, metrics
<1>2. CASE AllocLoad(t)
  <2>1. TypeOK'
    BY <1>2, Sizes DEF AllocLoad
  <2>2. Owned' /\ Poisoned'
    BY <1>2 DEF AllocLoad
  <2>3. Windowed'
    BY <1>2, <1>0 DEF AllocLoad
  <2> QED
    BY <2>1, <2>2, <2>3
<1>3. CASE AllocRead(t)
  <2>1. \/ pc' = [pc EXCEPT ![t] = "idle"] /\ UNCHANGED <<nextIx, crashed>>
        \/ crashed' = TRUE /\ UNCHANGED <<pc, nextIx>>
        \/ /\ old[t].idx \in Blocks
           /\ nextIx' = [nextIx EXCEPT ![t] = next[old[t].idx]]
           /\ pc' = [pc EXCEPT ![t] = "aCas"]
           /\ UNCHANGED crashed
    BY <1>3, AllocReadGoes
  <2>2. UNCHANGED <<head, next, old, blk, age, inUse, seenUse, peak, seenPeak, begun, held>>
        /\ pc[t] = "aRead"
    BY <1>3 DEF AllocRead
  <2>3. TypeOK'
    <3>1. crashed' \in BOOLEAN
      BY <2>1, Zenon
    <3>2. nextIx' \in [Threads -> Words]
      BY <2>1
    <3>3. pc' \in [Threads -> {"idle", "aRead", "aCas", "aPoison", "aCount", "aLoadPeak",
                               "aPeak", "dLink", "dCas", "dCount"}]
      BY <2>1
    <3> QED
      BY <2>2, <3>1, <3>2, <3>3
  <2>4. Owned' /\ Poisoned'
    BY <2>1, <2>2
  <2>5. Windowed'
    BY <2>1, <2>2
  <2> QED
    BY <2>3, <2>4, <2>5
<1>4. CASE AllocRetry(t)
  <2>1. TypeOK'
    BY <1>4, Sizes DEF AllocRetry
  <2>2. Owned' /\ Poisoned'
    BY <1>4 DEF AllocRetry
  <2>3. Windowed'
    BY <1>4, <1>0 DEF AllocRetry
  <2> QED
    BY <2>1, <2>2, <2>3
<1>5. CASE AllocCount(t)
  <2>1. TypeOK'
    BY <1>5, Sizes DEF AllocCount
  <2>2. Owned' /\ Poisoned'
    BY <1>5 DEF AllocCount
  <2>3. Windowed'
    BY <1>5, Sizes DEF AllocCount, Heads
  <2> QED
    BY <2>1, <2>2, <2>3
<1>6. CASE AllocPeakLoad(t)
  <2>1. TypeOK'
    BY <1>6, Sizes DEF AllocPeakLoad
  <2>2. Owned' /\ Poisoned'
    BY <1>6 DEF AllocPeakLoad
  <2>3. Windowed'
    BY <1>6, Sizes DEF AllocPeakLoad, Heads
  <2> QED
    BY <2>1, <2>2, <2>3
<1>7. CASE AllocPeakRetry(t)
  BY <1>7 DEF AllocPeakRetry
<1> QED
  BY <1>2, <1>3, <1>4, <1>5, <1>6, <1>7

\* A tag that comes back after fewer steps than it has values took none.
LEMMA TagReturns ==
    ASSUME NEW M \in Nat \ {0}, NEW a \in 0..(M - 1), NEW k \in 0..(M - 1), (a + k) % M = a
    PROVE  k = 0
<1> SUFFICES ASSUME k # 0 PROVE FALSE
  OBVIOUS
<1>1. a \in Nat /\ a + k \in Nat /\ a < a + k /\ a + k < a + M
  OBVIOUS
<1>2. a % M # (a + k) % M
  BY <1>1, WrapDistinct
<1> QED
  BY <1>2

\* A compare-exchange that succeeds does so on the head its thread loaded, and
\* every other window sees the tag move on.
LEMMA Exchange ==
    ASSUME StallsShort, PoolInv, NEW t \in Windows, NEW i \in Words,
           CasHead(t, Packed(i, old[t].tag + 1))
    PROVE  /\ age[t] = 0 /\ old[t] = head
           /\ head' \in Heads /\ head'.idx = i % IdxMod
           /\ age' \in [Threads -> 0..MaxStall]
           /\ old' \in [Threads -> Heads] /\ nextIx' \in [Threads -> Words]
           /\ \A u \in Windows \ {t} :
                 /\ old'[u] = old[u] /\ nextIx'[u] = nextIx[u] /\ age'[u] # 0
                 /\ head'.tag = (old[u].tag + age'[u]) % TagMod
<1> USE Sizes DEF PoolInv, TypeOK, Windowed
<1>1. t \in Threads /\ head = old[t]
  BY DEF Windows, CasHead
<1>2. age[t] = 0
  <2>1. age[t] \in 0..(TagMod - 1)
    BY <1>1 DEF StallsShort
  <2>2. head.tag \in 0..(TagMod - 1)
    BY DEF Heads
  <2>3. (head.tag + age[t]) % TagMod = head.tag
    BY <1>1
  <2> QED
    BY <2>1, <2>2, <2>3, TagReturns
<1>3. /\ head' = Packed(i, old[t].tag + 1)
      /\ old' = [old EXCEPT ![t] = Packed(0, 0)]
      /\ nextIx' = [nextIx EXCEPT ![t] = 0]
  BY DEF CasHead
<1>4. head' \in Heads /\ head'.idx = i % IdxMod /\ head'.tag = (head.tag + 1) % TagMod
  <2>1. head.tag \in 0..(TagMod - 1)
    BY DEF Heads
  <2>2. i \in Nat
    BY Markers DEF Words
  <2>3. i % IdxMod \in 0..(IdxMod - 1) /\ (head.tag + 1) % TagMod \in 0..(TagMod - 1)
    BY <2>1, <2>2
  <2> QED
    BY <1>1, <1>3, <2>3 DEF Packed, Heads
<1>5. Packed(0, 0) \in Heads /\ 0 \in Words
  BY Markers DEF Packed, Heads, Words
<1>6. age' \in [Threads -> 0..MaxStall]
  <2>1. \A u \in Windows \ {t} : age[u] + 1 \in 0..MaxStall
    BY DEF CasHead, Windows
  <2> QED
    BY <2>1 DEF CasHead
<1>7. ASSUME NEW u \in Windows \ {t}
      PROVE  /\ old'[u] = old[u] /\ nextIx'[u] = nextIx[u] /\ age'[u] # 0
             /\ head'.tag = (old[u].tag + age'[u]) % TagMod
  <2>1. u \in Threads /\ u # t /\ age'[u] = age[u] + 1 /\ age[u] \in Nat
    BY DEF CasHead, Windows
  <2>2. old[u].tag \in Nat /\ old[u].tag + age[u] \in Nat
    <3>1. old[u] \in Heads
      BY <2>1
    <3>2. old[u].tag \in Nat
      BY <3>1 DEF Heads
    <3> QED
      BY <2>1, <3>2
  <2>3. head.tag = (old[u].tag + age[u]) % TagMod
    OBVIOUS
  <2>4. head'.tag = (old[u].tag + age[u] + 1) % TagMod
    BY <1>4, <2>2, <2>3, WrapSucc
  <2> QED
    BY <1>3, <2>1, <2>2, <2>4, SMTT(40)
<1> QED
  BY <1>1, <1>2, <1>3, <1>4, <1>5, <1>6, <1>7

LEMMA NoBlockIsNone == NoBlock \notin Blocks
BY DEF NoBlock, Blocks

\* A block goes from the list or a caller to a thread.
LEMMA ThreadTakes ==
    ASSUME TypeOK, Owned, NEW t \in Threads, blk[t] = NoBlock,
           NEW b \in held \cup FreeBlocks,
           held' \cup FreeBlocks' = (held \cup FreeBlocks) \ {b},
           held' \subseteq held, FreeBlocks' \subseteq FreeBlocks,
           blk' = [blk EXCEPT ![t] = b],
           NEW step \in Leaving \cup Returning, pc' = [pc EXCEPT ![t] = step]
    PROVE  Owned'
<1> USE DEF TypeOK, Owned
<1>1. b \in Blocks /\ b # NoBlock
  BY NoBlockIsNone DEF FreeBlocks
<1>2. \A u \in Threads : blk'[u] # NoBlock <=> pc'[u] \in Leaving \cup Returning
  BY <1>1
<1>3. \A u \in Threads : blk'[u] \notin FreeBlocks' /\ blk'[u] \notin held'
  OBVIOUS
<1>4. \A u, v \in Threads : blk'[u] = blk'[v] /\ u # v => blk'[u] = NoBlock
  BY <1>1
<1>5. ASSUME NEW c \in Blocks
      PROVE  c \in FreeBlocks' \/ c \in held' \/ \E u \in Threads : blk'[u] = c
  <2>1. \A u \in Threads : blk[u] = c => blk'[u] = c
    BY NoBlockIsNone
  <2>2. blk'[t] = b
    OBVIOUS
  <2> QED
    BY <2>1, <2>2
<1> QED
  BY <1>2, <1>3, <1>4, <1>5

\* A block goes from a thread to the list or a caller.
LEMMA ThreadLetsGo ==
    ASSUME TypeOK, Owned, NEW t \in Threads, blk[t] # NoBlock,
           held' \cup FreeBlocks' = held \cup FreeBlocks \cup {blk[t]},
           held' \cap FreeBlocks' = {},
           blk' = [blk EXCEPT ![t] = NoBlock],
           NEW step, step \notin Leaving \cup Returning, pc' = [pc EXCEPT ![t] = step]
    PROVE  Owned'
<1> USE DEF TypeOK, Owned
<1>1. \A u \in Threads : blk'[u] # NoBlock <=> pc'[u] \in Leaving \cup Returning
  OBVIOUS
<1>2. ASSUME NEW u \in Threads PROVE blk'[u] \notin FreeBlocks' /\ blk'[u] \notin held'
  <2>1. FreeBlocks \subseteq Blocks /\ held \subseteq Blocks
    BY DEF FreeBlocks
  <2>2. CASE u = t
    BY <2>1, <2>2, NoBlockIsNone
  <2>3. CASE u # t
    BY <2>3
  <2> QED
    BY <2>2, <2>3
<1>3. \A u, v \in Threads : blk'[u] = blk'[v] /\ u # v => blk'[u] = NoBlock
  OBVIOUS
<1>4. ASSUME NEW c \in Blocks
      PROVE  c \in FreeBlocks' \/ c \in held' \/ \E u \in Threads : blk'[u] = c
  <2>1. \A u \in Threads \ {t} : blk[u] = c => blk'[u] = c
    OBVIOUS
  <2> QED
    BY <2>1
<1> QED
  BY <1>1, <1>2, <1>3, <1>4

LEMMA AllocCasStep ==
    ASSUME StallsShort, PoolInv, NEW t \in Threads, AllocCas(t)
    PROVE  PoolInv' /\ old[t].idx \in FreeBlocks /\ FreeBlocks' = FreeBlocks \ {old[t].idx}
<1>1. t \in Windows /\ old[t].idx \in Blocks /\ nextIx[t] \in Words
  BY DEF AllocCas, In, Windows, PoolInv, TypeOK, Windowed
<1>2. CasHead(t, Packed(nextIx[t], old[t].tag + 1))
  BY DEF AllocCas
<1>3. /\ age[t] = 0 /\ old[t] = head
      /\ head' \in Heads /\ head'.idx = nextIx[t] % IdxMod
      /\ age' \in [Threads -> 0..MaxStall]
      /\ old' \in [Threads -> Heads] /\ nextIx' \in [Threads -> Words]
      /\ \A u \in Windows \ {t} :
            /\ old'[u] = old[u] /\ nextIx'[u] = nextIx[u] /\ age'[u] # 0
            /\ head'.tag = (old[u].tag + age'[u]) % TagMod
  BY <1>1, <1>2, Exchange
<1>4. nextIx[t] = next[head.idx]
  BY <1>3 DEF AllocCas, In, PoolInv, Windowed
<1>5. /\ pc[t] = "aCas" /\ pc' = [pc EXCEPT ![t] = "aPoison"]
      /\ blk' = [blk EXCEPT ![t] = old[t].idx]
      /\ UNCHANGED <<next, inUse, seenUse, peak, seenPeak, begun, held, crashed>>
  BY DEF AllocCas, In, Goto, metrics
<1>6. Listed' /\ head.idx \in FreeBlocks /\ FreeBlocks' = FreeBlocks \ {head.idx}
  BY <1>1, <1>3, <1>4, <1>5, ListPopped DEF PoolInv
<1>7. Owned'
  <2> DEFINE b == old[t].idx
  <2>1. /\ blk[t] = NoBlock /\ held \cap FreeBlocks = {} /\ b \in FreeBlocks
        /\ FreeBlocks' = FreeBlocks \ {b} /\ held' = held
        /\ blk' = [blk EXCEPT ![t] = b] /\ "aPoison" \in Leaving \cup Returning
    BY <1>3, <1>5, <1>6 DEF PoolInv, Owned, Leaving, Returning
  <2> HIDE DEF b
  <2>2. held' \cup FreeBlocks' = (held \cup FreeBlocks) \ {b}
    BY <2>1
  <2> QED
    BY <1>5, <2>1, <2>2, ThreadTakes DEF PoolInv
<1> USE DEF PoolInv, TypeOK, Owned, Poisoned, Windowed, Windows, Leaving, Returning
<1>8. TypeOK'
  BY <1>1, <1>3, <1>5
<1>9. Poisoned'
  BY <1>5
<1>10. Windowed'
  BY <1>3, <1>5
<1> QED
  BY <1>3, <1>6, <1>7, <1>8, <1>9, <1>10

LEMMA AllocPoisonStep ==
    ASSUME PoolInv, NEW t \in Threads, AllocPoison(t)
    PROVE  PoolInv' /\ FreeBlocks' = FreeBlocks
<1> USE DEF PoolInv, TypeOK, Owned, Poisoned, Windowed, Windows, Leaving, Returning
<1>1. /\ pc[t] = "aPoison" /\ pc' = [pc EXCEPT ![t] = "aCount"]
      /\ next' = [next EXCEPT ![blk[t]] = POISON_INDEX]
      /\ UNCHANGED <<head, old, nextIx, blk, age, inUse, seenUse, peak, seenPeak, begun, held,
                     crashed>>
  BY DEF AllocPoison, In, Goto, metrics
<1>2. blk[t] \in Blocks /\ blk[t] \notin FreeBlocks /\ blk[t] # NoBlock
  BY <1>1
<1>3. \A b \in Blocks : b # blk[t] => next'[b] = next[b]
  BY <1>1
<1>4. Listed' /\ FreeBlocks' = FreeBlocks
  BY <1>1, <1>2, <1>3, ListKept DEF FreeBlocks
<1>5. TypeOK'
  BY <1>1, <1>2, Markers
<1>6. Owned'
  BY <1>1, <1>4
<1>7. Poisoned'
  BY <1>1, <1>2, <1>3
<1>8. Windowed'
  <2>1. \A u \in Threads : pc[u] = "aCas" /\ age[u] = 0 => old[u].idx # blk[t]
    \* It is the head of the list.
    BY ListHead
  <2> QED
    BY <1>1, <1>2, <1>3, <2>1
<1> QED
  BY <1>4, <1>5, <1>6, <1>7, <1>8

LEMMA AllocPeakStep ==
    ASSUME PoolInv, NEW t \in Threads, AllocPeak(t)
    PROVE  /\ PoolInv' /\ FreeBlocks' = FreeBlocks
           /\ held' = held \cup {blk[t]} /\ blk[t] \in Blocks
<1>1. /\ pc[t] = "aPeak" /\ pc' = [pc EXCEPT ![t] = "idle"]
      /\ held' = held \cup {blk[t]} /\ blk' = [blk EXCEPT ![t] = NoBlock]
      /\ seenUse' = [seenUse EXCEPT ![t] = 0] /\ seenPeak' = [seenPeak EXCEPT ![t] = 0]
      /\ UNCHANGED <<head, next, old, nextIx, age, inUse, begun, crashed>>
      /\ peak' = peak \/ peak' = seenUse[t]
  BY DEF AllocPeak, In, Goto, Return
<1>2. Listed' /\ FreeBlocks' = FreeBlocks
  BY <1>1, ListKept DEF PoolInv
<1>3. blk[t] \in Blocks /\ blk[t] # NoBlock
  BY <1>1 DEF PoolInv, TypeOK, Owned, Leaving
<1>4. Owned'
  <2>1. held' \cup FreeBlocks' = held \cup FreeBlocks \cup {blk[t]}
    BY <1>1, <1>2
  <2>2. held' \cap FreeBlocks' = {}
    BY <1>1, <1>2 DEF PoolInv, Owned
  <2>3. "idle" \notin Leaving \cup Returning
    BY DEF Leaving, Returning
  <2> QED
    BY <1>1, <1>3, <2>1, <2>2, <2>3, ThreadLetsGo DEF PoolInv
<1> USE DEF PoolInv, TypeOK, Owned, Poisoned, Windowed, Windows, Leaving, Returning
<1>5. TypeOK'
  BY <1>1, <1>3
<1>6. Poisoned'
  BY <1>1, <1>3
<1>7. Windowed'
  BY <1>1
<1> QED
  BY <1>1, <1>2, <1>3, <1>4, <1>5, <1>6, <1>7

\* The poison is in place, so the free goes on.
LEMMA FreeStartStep ==
    ASSUME PoolInv, NEW t \in Threads, FreeStart(t)
    PROVE  /\ PoolInv' /\ FreeBlocks' = FreeBlocks
           /\ blk'[t] \in held /\ held' = held \ {blk'[t]}
<1>1. PICK b \in held :
        /\ held' = held \ {b}
        /\ IF next[b] = POISON_INDEX
           THEN blk' = [blk EXCEPT ![t] = b] /\ LoadHead(t) /\ Goto(t, "dLink")
           ELSE UNCHANGED <<blk, old, age, pc>>
  BY DEF FreeStart
<1>2. next[b] = POISON_INDEX
  BY DEF PoolInv, Poisoned
<1>3. /\ pc[t] = "idle" /\ pc' = [pc EXCEPT ![t] = "dLink"]
      /\ blk' = [blk EXCEPT ![t] = b]
      /\ old' = [old EXCEPT ![t] = head] /\ age' = [age EXCEPT ![t] = 0]
      /\ UNCHANGED <<head, next, nextIx, inUse, seenUse, peak, seenPeak, begun, crashed>>
  BY <1>1, <1>2 DEF FreeStart, In, Goto, LoadHead, metrics
<1>4. Listed' /\ FreeBlocks' = FreeBlocks
  BY <1>3, ListKept DEF PoolInv
<1>5. blk[t] = NoBlock /\ b \in Blocks
  BY <1>3 DEF PoolInv, TypeOK, Owned, Leaving, Returning
<1>6. Owned'
  <2>1. held' \cup FreeBlocks' = (held \cup FreeBlocks) \ {b}
    BY <1>1, <1>4 DEF PoolInv, Owned
  <2>2. "dLink" \in Leaving \cup Returning
    BY DEF Leaving, Returning
  <2> QED
    BY <1>1, <1>3, <1>4, <1>5, <2>1, <2>2, ThreadTakes DEF PoolInv
<1>7. head.tag = (head.tag + 0) % TagMod
  BY LoadedTag DEF PoolInv
<1>8. blk'[t] = b
  BY <1>3 DEF PoolInv, TypeOK
<1> USE DEF PoolInv, TypeOK, Owned, Poisoned, Windowed, Windows, Leaving, Returning
<1>9. TypeOK'
  BY <1>1, <1>3, <1>5, Sizes
<1>10. Poisoned'
  BY <1>1, <1>3
<1>11. Windowed'
  BY <1>3, <1>7
<1> QED
  BY <1>1, <1>4, <1>6, <1>8, <1>9, <1>10, <1>11

LEMMA FreeLinkStep ==
    ASSUME PoolInv, NEW t \in Threads, FreeLink(t)
    PROVE  PoolInv' /\ FreeBlocks' = FreeBlocks
<1> USE DEF PoolInv, TypeOK, Owned, Poisoned, Windowed, Windows, Leaving, Returning
<1>1. /\ pc[t] = "dLink" /\ pc' = [pc EXCEPT ![t] = "dCas"]
      /\ next' = [next EXCEPT ![blk[t]] = old[t].idx]
      /\ UNCHANGED <<head, old, nextIx, blk, age, inUse, seenUse, peak, seenPeak, begun, held,
                     crashed>>
  BY DEF FreeLink, In, Goto, metrics
<1>2. blk[t] \in Blocks /\ blk[t] \notin FreeBlocks /\ blk[t] # NoBlock /\ blk[t] \notin held
  BY <1>1
<1>3. \A b \in Blocks : b # blk[t] => next'[b] = next[b]
  BY <1>1
<1>4. Listed' /\ FreeBlocks' = FreeBlocks
  BY <1>1, <1>2, <1>3, ListKept DEF FreeBlocks
<1>5. old[t].idx \in Words
  <2>1. old[t] \in Heads
    OBVIOUS
  <2> QED
    BY <2>1, Markers DEF Heads
<1>6. TypeOK'
  BY <1>1, <1>2, <1>5
<1>7. Owned'
  BY <1>1, <1>4
<1>8. Poisoned'
  BY <1>1, <1>2, <1>3
<1>9. Windowed'
  <2>1. \A u \in Threads : pc[u] = "aCas" /\ age[u] = 0 => old[u].idx # blk[t]
    BY <1>2, ListHead
  <2>2. next'[blk[t]] = old[t].idx
    BY <1>1, <1>2
  <2>3. \A u \in Threads : pc'[u] = "dCas" => next'[blk'[u]] = old'[u].idx
    BY <1>1, <1>2, <1>3, <2>2
  <2> QED
    BY <1>1, <1>2, <1>3, <2>1, <2>3
<1> QED
  BY <1>4, <1>6, <1>7, <1>8, <1>9

LEMMA FreeCasStep ==
    ASSUME StallsShort, PoolInv, NEW t \in Threads, FreeCas(t)
    PROVE  PoolInv' /\ blk[t] \in Blocks \ FreeBlocks /\ FreeBlocks' = FreeBlocks \cup {blk[t]}
<1>1. /\ pc[t] = "dCas" /\ pc' = [pc EXCEPT ![t] = "dCount"]
      /\ blk' = [blk EXCEPT ![t] = NoBlock]
      /\ UNCHANGED <<next, inUse, seenUse, peak, seenPeak, begun, held, crashed>>
  BY DEF FreeCas, In, Goto, metrics
<1>2. /\ t \in Windows /\ blk[t] \in Blocks /\ blk[t] # NoBlock /\ blk[t] \notin FreeBlocks
      /\ blk[t] \notin held
  BY <1>1 DEF Windows, PoolInv, TypeOK, Owned, Returning
<1>3. blk[t] \in Words /\ blk[t] % IdxMod = blk[t]
  BY <1>2, Markers
<1>4. CasHead(t, Packed(blk[t], old[t].tag + 1))
  BY DEF FreeCas
<1>5. /\ age[t] = 0 /\ old[t] = head
      /\ head' \in Heads /\ head'.idx = blk[t] % IdxMod
      /\ age' \in [Threads -> 0..MaxStall]
      /\ old' \in [Threads -> Heads] /\ nextIx' \in [Threads -> Words]
      /\ \A u \in Windows \ {t} :
            /\ old'[u] = old[u] /\ nextIx'[u] = nextIx[u] /\ age'[u] # 0
            /\ head'.tag = (old[u].tag + age'[u]) % TagMod
  BY <1>2, <1>3, <1>4, Exchange
<1>6. next[blk[t]] % IdxMod = head.idx
  <2>1. head.idx \in 0..(IdxMod - 1)
    BY DEF PoolInv, TypeOK, Heads
  <2>2. next[blk[t]] = head.idx
    BY <1>1, <1>5 DEF PoolInv, Windowed
  <2> QED
    BY <2>1, <2>2, Sizes
<1>7. Listed' /\ FreeBlocks' = FreeBlocks \cup {blk[t]}
  BY <1>1, <1>2, <1>3, <1>5, <1>6, ListPushed DEF PoolInv
<1>8. Owned'
  <2>1. held' \cup FreeBlocks' = held \cup FreeBlocks \cup {blk[t]}
    BY <1>1, <1>7
  <2>2. held' \cap FreeBlocks' = {}
    BY <1>1, <1>2, <1>7 DEF PoolInv, Owned
  <2>3. "dCount" \notin Leaving \cup Returning
    BY DEF Leaving, Returning
  <2> QED
    BY <1>1, <1>2, <2>1, <2>2, <2>3, ThreadLetsGo DEF PoolInv
<1> USE DEF PoolInv, TypeOK, Owned, Poisoned, Windowed, Windows, Leaving, Returning
<1>9. TypeOK'
  BY <1>1, <1>5
<1>10. Poisoned'
  BY <1>1
<1>11. Windowed'
  BY <1>1, <1>5
<1> QED
  BY <1>2, <1>7, <1>8, <1>9, <1>10, <1>11

LEMMA FreeRetryStep ==
    ASSUME PoolInv, NEW t \in Threads, FreeRetry(t)
    PROVE  PoolInv' /\ FreeBlocks' = FreeBlocks
<1>1. /\ pc[t] = "dCas" /\ pc' = [pc EXCEPT ![t] = "dLink"]
      /\ old' = [old EXCEPT ![t] = head] /\ age' = [age EXCEPT ![t] = 0]
      /\ UNCHANGED <<head, next, nextIx, blk, inUse, seenUse, peak, seenPeak, begun, held,
                     crashed>>
  BY DEF FreeRetry, In, Goto, LoadHead, metrics
<1>2. Listed' /\ FreeBlocks' = FreeBlocks
  BY <1>1, ListKept DEF PoolInv
<1>3. head.tag = (head.tag + 0) % TagMod
  BY LoadedTag DEF PoolInv
<1> USE DEF PoolInv, TypeOK, Owned, Poisoned, Windowed, Windows, Leaving, Returning
<1>4. TypeOK'
  BY <1>1, Sizes
<1>5. Owned' /\ Poisoned'
  BY <1>1, <1>2
<1>6. Windowed'
  BY <1>1, <1>3
<1> QED
  BY <1>2, <1>4, <1>5, <1>6

LEMMA FreeCountStep ==
    ASSUME PoolInv, NEW t \in Threads, FreeCount(t), inUse > 0
    PROVE  PoolInv' /\ FreeBlocks' = FreeBlocks
<1>1. /\ pc[t] = "dCount" /\ pc' = [pc EXCEPT ![t] = "idle"]
      /\ inUse' = inUse - 1
      /\ UNCHANGED <<head, next, old, nextIx, blk, age, seenUse, peak, seenPeak, begun, held,
                     crashed>>
  BY DEF FreeCount, In, Goto
<1>2. Listed' /\ FreeBlocks' = FreeBlocks
  BY <1>1, ListKept DEF PoolInv
<1> USE DEF PoolInv, TypeOK, Owned, Poisoned, Windowed, Windows, Leaving, Returning
<1>3. TypeOK'
  BY <1>1
<1>4. Owned' /\ Poisoned' /\ Windowed'
  BY <1>1, <1>2
<1> QED
  BY <1>2, <1>3, <1>4
-----------------------------------------------------------------------------
(* The metrics. *)

LEMMA Finite ==
    /\ IsFiniteSet(Threads)
    /\ IsFiniteSet(Blocks) /\ Cardinality(Blocks) = NumBlocks
    /\ \A S \in SUBSET Threads : IsFiniteSet(S) /\ Cardinality(S) \in Nat
    /\ \A S \in SUBSET Blocks : IsFiniteSet(S) /\ Cardinality(S) \in Nat
<1>1. IsFiniteSet(Threads)
  BY SlabAssumption
<1>2. IsFiniteSet(Blocks) /\ Cardinality(Blocks) = NumBlocks
  BY Sizes, FS_Interval DEF Blocks
<1> QED
  BY <1>1, <1>2, FS_Subset, FS_CardinalityType

\* One thread's step counts it out of the steps it leaves and into those it
\* reaches.
LEMMA AtStep ==
    ASSUME TypeOK, NEW t \in Threads, NEW to, pc' = [pc EXCEPT ![t] = to], NEW steps
    PROVE  /\ At(steps) \in Nat /\ At(steps)' \in Nat
           /\ At(steps)' = At(steps) - (IF pc[t] \in steps THEN 1 ELSE 0)
                                     + (IF to \in steps THEN 1 ELSE 0)
<1> DEFINE Before == {u \in Threads : pc[u] \in steps}
           Others == {u \in Threads \ {t} : pc[u] \in steps}
           After  == {u \in Threads : pc'[u] \in steps}
<1>1. Before = IF pc[t] \in steps THEN Others \cup {t} ELSE Others
  OBVIOUS
<1>2. After = IF to \in steps THEN Others \cup {t} ELSE Others
  BY DEF TypeOK
<1>3. IsFiniteSet(Others) /\ Cardinality(Others) \in Nat /\ t \notin Others
  BY Finite
<1>4. Cardinality(Others \cup {t}) = Cardinality(Others) + 1
  BY <1>3, FS_AddElement
<1>5. At(steps) = Cardinality(Before) /\ At(steps)' = Cardinality(After)
  BY DEF At
<1> HIDE DEF Before, Others, After
<1> QED
  BY <1>1, <1>2, <1>3, <1>4, <1>5

\* A thread that has given a block back and not counted it finds the count of
\* that block: current_in_use never wraps below zero.
LEMMA InUsePositive ==
    ASSUME PoolInv, InUseExact, NEW t \in Threads, pc[t] = "dCount"
    PROVE  inUse > 0
<1> DEFINE Out  == {u \in Threads : pc[u] \in {"aPoison", "aCount"}}
           Late == {u \in Threads : pc[u] \in {"dCount"}}
           f    == [u \in Out |-> blk[u]]
           Used == Blocks \ FreeBlocks
<1>1. f \in Injection(Out, Used)
  <2>1. \A u \in Out : blk[u] \in Used /\ blk[u] # NoBlock
    BY DEF PoolInv, TypeOK, Owned, Leaving
  <2>2. \A u, v \in Out : blk[u] = blk[v] => u = v
    BY <2>1 DEF PoolInv, Owned
  <2> QED
    BY <2>1, <2>2 DEF Injection, IsInjective
<1>2. FreeBlocks \subseteq Blocks
  BY DEF FreeBlocks
<1>3. Cardinality(Used) = NumBlocks - Cardinality(FreeBlocks)
  <2>1. Blocks \cap FreeBlocks = FreeBlocks
    BY <1>2
  <2> QED
    BY <2>1, Finite, FS_Difference, ZenonT(60)
<1>4. IsFiniteSet(Used)
  BY Finite
<1>5. Cardinality(Out) <= Cardinality(Used)
  BY <1>1, <1>4, FS_Injection
<1>6. Cardinality(Late) \in Nat /\ Cardinality(Late) # 0
  <2>1. t \in Late /\ IsFiniteSet(Late)
    BY Finite
  <2> QED
    BY <2>1, FS_EmptySet, Finite
<1>7. inUse + Cardinality(Out) = NumBlocks - Cardinality(FreeBlocks) + Cardinality(Late)
  BY DEF InUseExact, At
<1>8. Cardinality(Out) \in Nat /\ Cardinality(Used) \in Nat /\ inUse \in Nat
      /\ Cardinality(FreeBlocks) \in Nat /\ NumBlocks \in Nat
  BY <1>2, Finite, Sizes DEF PoolInv, TypeOK
<1> HIDE DEF Out, Late, Used, f
<1> QED
  BY <1>3, <1>5, <1>6, <1>7, <1>8

\* What an operation at a step has done to the list and not to current_in_use.
Late(step) == IF step \in {"aPoison", "aCount"} THEN 1 ELSE IF step = "dCount" THEN -1 ELSE 0

\* The book-keeping of one step: the counts of threads and of free blocks move
\* together.
LEMMA CountStep ==
    ASSUME PoolInv, PoolInv', InUseExact, NEW t \in Threads, NEW to,
           pc' = [pc EXCEPT ![t] = to],
           inUse' + Late(to) + Cardinality(FreeBlocks')
             = inUse + Late(pc[t]) + Cardinality(FreeBlocks)
    PROVE  InUseExact'
<1> DEFINE Out  == {"aPoison", "aCount"}
           Counted == {"dCount"}
<1>0. \A step : Late(step) = (IF step \in Out THEN 1 ELSE 0) - (IF step \in Counted THEN 1 ELSE 0)
  BY DEF Late
<1>5. /\ InUseExact = (inUse + At(Out) = NumBlocks - Cardinality(FreeBlocks) + At(Counted))
      /\ InUseExact' = (inUse' + At(Out)' = NumBlocks - Cardinality(FreeBlocks') + At(Counted)')
  BY DEF InUseExact
<1> HIDE DEF Out, Counted
<1>1. /\ At(Out) \in Nat /\ At(Out)' \in Nat
      /\ At(Out)' = At(Out) - (IF pc[t] \in Out THEN 1 ELSE 0) + (IF to \in Out THEN 1 ELSE 0)
  BY AtStep DEF PoolInv
<1>2. /\ At(Counted) \in Nat /\ At(Counted)' \in Nat
      /\ At(Counted)' = At(Counted) - (IF pc[t] \in Counted THEN 1 ELSE 0)
                              + (IF to \in Counted THEN 1 ELSE 0)
  BY AtStep DEF PoolInv
<1>3. Cardinality(FreeBlocks) \in Nat /\ Cardinality(FreeBlocks') \in Nat
  BY Finite DEF FreeBlocks
<1>4. inUse \in Nat /\ inUse' \in Nat /\ NumBlocks \in Nat
  BY Sizes DEF PoolInv, TypeOK
<1> QED
  BY <1>0, <1>1, <1>2, <1>3, <1>4, <1>5

LEMMA Numbers ==
    ASSUME PoolInv
    PROVE  IsFiniteSet(FreeBlocks) /\ Cardinality(FreeBlocks) \in Nat /\ inUse \in Nat
BY Finite DEF FreeBlocks, PoolInv, TypeOK

LEMMA InvStep ==
    ASSUME StallsShort, IInv, NEW t \in Threads, Allocate(t) \/ Deallocate(t)
    PROVE  IInv'
<1> USE DEF IInv, MetricsSettle, In, Goto, metrics
<1> DEFINE Peaks == PeaksSeen' /\ PeakCovers'
<1>1. CASE AllocLoad(t) \/ AllocRetry(t)
  <2>1. PoolInv' /\ FreeBlocks' = FreeBlocks
    BY <1>1, AllocateQuiet
  <2>2. /\ pc[t] \in {"idle", "aCas"} /\ pc' = [pc EXCEPT ![t] = "aRead"]
        /\ UNCHANGED <<inUse, seenUse, peak, seenPeak>>
    BY <1>1 DEF AllocLoad, AllocRetry
  <2>3. InUseExact'
    BY <2>1, <2>2, CountStep DEF Late
  <2>4. Peaks
    BY <2>2 DEF PeaksSeen, PeakCovers, PoolInv, TypeOK
  <2> QED
    BY <2>1, <2>3, <2>4
<1>2. CASE AllocRead(t)
  <2>1. PoolInv' /\ FreeBlocks' = FreeBlocks
    BY <1>2, AllocateQuiet
  <2>2. /\ pc[t] = "aRead" /\ UNCHANGED <<inUse, seenUse, peak, seenPeak>>
        /\ \E to \in {"idle", "aRead", "aCas"} : pc' = [pc EXCEPT ![t] = to]
    <3>1. pc[t] = "aRead" /\ UNCHANGED <<inUse, seenUse, peak, seenPeak>>
      BY <1>2 DEF AllocRead
    <3>2. \/ pc' = [pc EXCEPT ![t] = "idle"] \/ pc' = pc \/ pc' = [pc EXCEPT ![t] = "aCas"]
      BY <1>2, AllocReadGoes DEF PoolInv
    <3>3. pc = [pc EXCEPT ![t] = "aRead"]
      BY <3>1 DEF PoolInv, TypeOK
    <3> QED
      BY <3>1, <3>2, <3>3
  <2>3. InUseExact'
    BY <2>1, <2>2, CountStep DEF Late
  <2>4. Peaks
    BY <2>2 DEF PeaksSeen, PeakCovers, PoolInv, TypeOK
  <2> QED
    BY <2>1, <2>3, <2>4
<1>3. CASE AllocCas(t)
  <2>1. PoolInv' /\ old[t].idx \in FreeBlocks /\ FreeBlocks' = FreeBlocks \ {old[t].idx}
    BY <1>3, AllocCasStep
  <2>2. /\ pc[t] = "aCas" /\ pc' = [pc EXCEPT ![t] = "aPoison"]
        /\ UNCHANGED <<inUse, seenUse, peak, seenPeak>>
    BY <1>3 DEF AllocCas
  <2>3. /\ Cardinality(FreeBlocks') = Cardinality(FreeBlocks) - 1
        /\ Cardinality(FreeBlocks) \in Nat
    BY <2>1, Numbers, FS_RemoveElement
  <2>4. InUseExact'
    <3>1. inUse' + Late("aPoison") + Cardinality(FreeBlocks')
            = inUse + Late(pc[t]) + Cardinality(FreeBlocks)
      BY <2>2, <2>3, Numbers DEF Late
    <3> QED
      BY <2>1, <2>2, <3>1, CountStep
  <2>5. Peaks
    BY <2>2 DEF PeaksSeen, PeakCovers, PoolInv, TypeOK
  <2> QED
    BY <2>1, <2>4, <2>5
<1>4. CASE AllocPoison(t)
  <2>1. PoolInv' /\ FreeBlocks' = FreeBlocks
    BY <1>4, AllocPoisonStep
  <2>2. /\ pc[t] = "aPoison" /\ pc' = [pc EXCEPT ![t] = "aCount"]
        /\ UNCHANGED <<inUse, seenUse, peak, seenPeak>>
    BY <1>4 DEF AllocPoison
  <2>3. InUseExact'
    BY <2>1, <2>2, CountStep DEF Late
  <2>4. Peaks
    BY <2>2 DEF PeaksSeen, PeakCovers, PoolInv, TypeOK
  <2> QED
    BY <2>1, <2>3, <2>4
<1>5. CASE AllocCount(t)
  <2>1. PoolInv' /\ FreeBlocks' = FreeBlocks
    BY <1>5, AllocateQuiet
  <2>2. /\ pc[t] = "aCount" /\ pc' = [pc EXCEPT ![t] = "aLoadPeak"]
        /\ inUse' = inUse + 1 /\ seenUse' = [seenUse EXCEPT ![t] = inUse + 1]
        /\ UNCHANGED <<peak, seenPeak>>
    BY <1>5 DEF AllocCount
  <2>3. InUseExact'
    <3>1. inUse' + Late("aLoadPeak") + Cardinality(FreeBlocks')
            = inUse + Late(pc[t]) + Cardinality(FreeBlocks)
      BY <2>1, <2>2, Numbers DEF Late
    <3> QED
      BY <2>1, <2>2, <3>1, CountStep
  <2>4. pc'[t] = "aLoadPeak" /\ inUse' <= seenUse'[t]
    BY <2>2 DEF PoolInv, TypeOK
  <2>5. Peaks
    BY <2>2, <2>4 DEF PeaksSeen, PeakCovers
  <2> QED
    BY <2>1, <2>3, <2>5
<1>6. CASE AllocPeakLoad(t)
  <2>1. PoolInv' /\ FreeBlocks' = FreeBlocks
    BY <1>6, AllocateQuiet
  <2>2. /\ pc[t] = "aLoadPeak" /\ pc' = [pc EXCEPT ![t] = "aPeak"]
        /\ seenPeak' = [seenPeak EXCEPT ![t] = peak] /\ UNCHANGED <<inUse, seenUse, peak>>
    BY <1>6 DEF AllocPeakLoad
  <2>3. InUseExact'
    BY <2>1, <2>2, CountStep DEF Late
  <2>4. Peaks
    BY <2>2 DEF PeaksSeen, PeakCovers, PoolInv, TypeOK
  <2> QED
    BY <2>1, <2>3, <2>4
<1>7. CASE AllocPeak(t)
  <2>1. PoolInv' /\ FreeBlocks' = FreeBlocks
    BY <1>7, AllocPeakStep
  <2>2. /\ pc[t] = "aPeak" /\ pc' = [pc EXCEPT ![t] = "idle"] /\ inUse' = inUse
        /\ seenUse' = [seenUse EXCEPT ![t] = 0] /\ seenPeak' = [seenPeak EXCEPT ![t] = 0]
        /\ \/ seenUse[t] <= seenPeak[t] /\ peak' = peak
           \/ seenUse[t] > seenPeak[t] /\ peak = seenPeak[t] /\ peak' = seenUse[t]
    BY <1>7 DEF AllocPeak, Return
  <2>3. InUseExact'
    BY <2>1, <2>2, CountStep DEF Late
  <2>4. peak' >= peak /\ peak' >= seenUse[t] /\ peak' \in Nat
    BY <2>2 DEF PeaksSeen, PoolInv, TypeOK
  <2>5. PeaksSeen'
    BY <2>2, <2>4 DEF PeaksSeen, PoolInv, TypeOK
  <2>6. PeakCovers'
    <3>1. CASE inUse <= peak
      BY <3>1, <2>2, <2>4 DEF PeakCovers, PoolInv, TypeOK
    <3>2. ASSUME NEW u \in Threads, pc[u] \in {"aLoadPeak", "aPeak"}, inUse <= seenUse[u]
          PROVE  PeakCovers'
      <4>1. CASE u = t
        BY <4>1, <3>2, <2>2, <2>4 DEF PeakCovers, PoolInv, TypeOK
      <4>2. CASE u # t
        BY <4>2, <3>2, <2>2 DEF PeakCovers, PoolInv, TypeOK
      <4> QED
        BY <4>1, <4>2
    <3> QED
      BY <3>1, <3>2 DEF PeakCovers
  <2> QED
    BY <2>1, <2>3, <2>5, <2>6
<1>8. CASE AllocPeakRetry(t)
  <2>1. PoolInv' /\ FreeBlocks' = FreeBlocks
    BY <1>8, AllocateQuiet
  <2>2. /\ pc[t] = "aPeak" /\ pc' = pc
        /\ seenPeak' = [seenPeak EXCEPT ![t] = peak] /\ UNCHANGED <<inUse, seenUse, peak>>
    BY <1>8 DEF AllocPeakRetry
  <2>3. pc' = [pc EXCEPT ![t] = "aPeak"]
    BY <2>2 DEF PoolInv, TypeOK
  <2>4. InUseExact'
    BY <2>1, <2>2, <2>3, CountStep DEF Late
  <2>5. Peaks
    BY <2>2 DEF PeaksSeen, PeakCovers, PoolInv, TypeOK
  <2> QED
    BY <2>1, <2>4, <2>5
<1>9. CASE FreeStart(t)
  <2>1. PoolInv' /\ FreeBlocks' = FreeBlocks
    BY <1>9, FreeStartStep
  <2>2. /\ pc[t] = "idle" /\ UNCHANGED <<inUse, seenUse, peak, seenPeak>>
        /\ \E to \in {"idle", "dLink"} : pc' = [pc EXCEPT ![t] = to]
    BY <1>9 DEF FreeStart, PoolInv, TypeOK
  <2>3. InUseExact'
    BY <2>1, <2>2, CountStep DEF Late
  <2>4. Peaks
    BY <2>2 DEF PeaksSeen, PeakCovers, PoolInv, TypeOK
  <2> QED
    BY <2>1, <2>3, <2>4
<1>10. CASE FreeLink(t)
  <2>1. PoolInv' /\ FreeBlocks' = FreeBlocks
    BY <1>10, FreeLinkStep
  <2>2. /\ pc[t] = "dLink" /\ pc' = [pc EXCEPT ![t] = "dCas"]
        /\ UNCHANGED <<inUse, seenUse, peak, seenPeak>>
    BY <1>10 DEF FreeLink
  <2>3. InUseExact'
    BY <2>1, <2>2, CountStep DEF Late
  <2>4. Peaks
    BY <2>2 DEF PeaksSeen, PeakCovers, PoolInv, TypeOK
  <2> QED
    BY <2>1, <2>3, <2>4
<1>11. CASE FreeCas(t)
  <2>1. PoolInv' /\ blk[t] \in Blocks \ FreeBlocks /\ FreeBlocks' = FreeBlocks \cup {blk[t]}
    BY <1>11, FreeCasStep
  <2>2. /\ pc[t] = "dCas" /\ pc' = [pc EXCEPT ![t] = "dCount"]
        /\ UNCHANGED <<inUse, seenUse, peak, seenPeak>>
    BY <1>11 DEF FreeCas
  <2>3. /\ Cardinality(FreeBlocks') = Cardinality(FreeBlocks) + 1
        /\ Cardinality(FreeBlocks) \in Nat
    BY <2>1, Numbers, FS_AddElement
  <2>4. InUseExact'
    <3>1. inUse' + Late("dCount") + Cardinality(FreeBlocks')
            = inUse + Late(pc[t]) + Cardinality(FreeBlocks)
      BY <2>2, <2>3, Numbers DEF Late
    <3> QED
      BY <2>1, <2>2, <3>1, CountStep
  <2>5. Peaks
    BY <2>2 DEF PeaksSeen, PeakCovers, PoolInv, TypeOK
  <2> QED
    BY <2>1, <2>4, <2>5
<1>12. CASE FreeRetry(t)
  <2>1. PoolInv' /\ FreeBlocks' = FreeBlocks
    BY <1>12, FreeRetryStep
  <2>2. /\ pc[t] = "dCas" /\ pc' = [pc EXCEPT ![t] = "dLink"]
        /\ UNCHANGED <<inUse, seenUse, peak, seenPeak>>
    BY <1>12 DEF FreeRetry
  <2>3. InUseExact'
    BY <2>1, <2>2, CountStep DEF Late
  <2>4. Peaks
    BY <2>2 DEF PeaksSeen, PeakCovers, PoolInv, TypeOK
  <2> QED
    BY <2>1, <2>3, <2>4
<1>13. CASE FreeCount(t)
  <2>1. /\ pc[t] = "dCount" /\ pc' = [pc EXCEPT ![t] = "idle"] /\ inUse' = inUse - 1
        /\ UNCHANGED <<seenUse, peak, seenPeak>>
    BY <1>13 DEF FreeCount
  <2>2. inUse > 0
    BY <2>1, InUsePositive
  <2>3. PoolInv' /\ FreeBlocks' = FreeBlocks
    BY <1>13, <2>2, FreeCountStep
  <2>4. InUseExact'
    <3>1. inUse' + Late("idle") + Cardinality(FreeBlocks')
            = inUse + Late(pc[t]) + Cardinality(FreeBlocks)
      BY <2>1, <2>3, Numbers DEF Late
    <3> QED
      BY <2>1, <2>3, <3>1, CountStep
  <2>5. Peaks
    BY <2>1, <2>2 DEF PeaksSeen, PeakCovers, PoolInv, TypeOK
  <2> QED
    BY <2>3, <2>4, <2>5
<1> QED
  BY <1>1, <1>2, <1>3, <1>4, <1>5, <1>6, <1>7, <1>8, <1>9, <1>10, <1>11, <1>12, <1>13
     DEF Allocate, Deallocate
-----------------------------------------------------------------------------
(* The theorems. *)

LEMMA InitPool == Init => PoolInv /\ FreeBlocks = Blocks
<1> SUFFICES ASSUME Init PROVE PoolInv /\ FreeBlocks = Blocks
  OBVIOUS
<1> DEFINE w == [i \in 1..NumBlocks |-> i - 1]
<1>1. head = [idx |-> 0, tag |-> 0] /\ Packed(0, 0) = [idx |-> 0, tag |-> 0]
  BY Sizes DEF Init, Packed
<1>2. Linked(NumBlocks, w)
  <2>1. \A i \in 1..NumBlocks : next[i - 1] % IdxMod = IF i = NumBlocks THEN End ELSE i
    <3> TAKE i \in 1..NumBlocks
    <3>1. i - 1 \in Blocks /\ next[i - 1] = IF i < NumBlocks THEN i ELSE NULL_INDEX
      BY Sizes DEF Init, Blocks
    <3>2. i < NumBlocks => i % IdxMod = i
      BY Sizes
    <3> QED
      BY <3>1, <3>2, Markers, Sizes
  <2> QED
    BY <1>1, <2>1, Sizes DEF Linked
<1>3. w \in [1..NumBlocks -> Blocks] /\ NumBlocks \in 0..NumBlocks
  BY Sizes DEF Blocks
<1>4. FreeBlocks = Blocks
  <2>1. FreeBlocks = {w[i] : i \in 1..NumBlocks}
    BY <1>2, <1>3, ListIsFree DEF FreeAreListed
  <2>2. ASSUME NEW b \in Blocks PROVE b \in {w[i] : i \in 1..NumBlocks}
    <3>1. b + 1 \in 1..NumBlocks /\ w[b + 1] = b
      BY Sizes DEF Blocks
    <3> QED
      BY <3>1
  <2> QED
    BY <2>1, <2>2, <1>3
<1>5. TypeOK
  <2>1. head \in Heads /\ Packed(0, 0) \in Heads
    BY <1>1, Sizes DEF Heads
  <2>2. next \in [Blocks -> Words]
    <3>1. \A b \in Blocks : b + 1 < NumBlocks => b + 1 \in Words
      BY Markers, Sizes DEF Blocks
    <3> QED
      BY <3>1, Markers DEF Init
  <2>3. 0 \in Words
    BY Markers DEF Words
  <2>4. 0 \in 0..MaxStall /\ 0 \in 0..MaxAllocs
    BY Sizes
  <2>5. /\ old \in [Threads -> Heads] /\ nextIx \in [Threads -> Words]
        /\ blk \in [Threads -> Blocks \cup {NoBlock}] /\ age \in [Threads -> 0..MaxStall]
        /\ seenUse \in [Threads -> Nat] /\ seenPeak \in [Threads -> Nat]
    BY <2>1, <2>3, <2>4 DEF Init
  <2>6. /\ inUse \in Nat /\ peak \in Nat /\ begun \in 0..MaxAllocs
        /\ held \subseteq Blocks /\ crashed \in BOOLEAN
    BY <2>4 DEF Init
  <2>7. pc \in [Threads -> {"idle", "aRead", "aCas", "aPoison", "aCount", "aLoadPeak",
                            "aPeak", "dLink", "dCas", "dCount"}]
    BY DEF Init
  <2> QED
    BY <2>1, <2>2, <2>5, <2>6, <2>7 DEF TypeOK
<1>6. Owned /\ Poisoned /\ Windowed
  BY <1>4, NoBlockIsNone DEF Init, Owned, Poisoned, Windowed, Windows, Leaving, Returning
<1>7. Listed
  BY <1>2, <1>3 DEF Listed
<1> QED
  BY <1>4, <1>5, <1>6, <1>7 DEF PoolInv

LEMMA InitInv == Init => IInv
<1> SUFFICES ASSUME Init PROVE IInv
  OBVIOUS
<1>1. PoolInv /\ FreeBlocks = Blocks
  BY InitPool
<1>2. At({"aPoison", "aCount"}) = 0 /\ At({"dCount"}) = 0
  <2>1. {t \in Threads : pc[t] \in {"aPoison", "aCount"}} = {}
        /\ {t \in Threads : pc[t] \in {"dCount"}} = {}
    BY DEF Init
  <2> QED
    BY <2>1, FS_EmptySet DEF At
<1>3. InUseExact
  BY <1>1, <1>2, Finite, Sizes DEF Init, InUseExact
<1>4. PeaksSeen /\ PeakCovers
  BY DEF Init, PeaksSeen, PeakCovers
<1> QED
  BY <1>1, <1>3, <1>4 DEF IInv, MetricsSettle

LEMMA StutterInv == IInv /\ UNCHANGED vars => IInv'
<1> SUFFICES ASSUME IInv, UNCHANGED vars PROVE IInv'
  OBVIOUS
<1>1. Listed' /\ FreeBlocks' = FreeBlocks
  BY ListKept DEF vars, IInv, PoolInv
<1>2. PoolInv'
  BY <1>1 DEF vars, metrics, IInv, PoolInv, TypeOK, Owned, Poisoned, Windowed, Windows
<1>3. PeaksSeen' /\ MetricsSettle'
  BY <1>1 DEF vars, metrics, IInv, PeaksSeen, MetricsSettle, InUseExact, PeakCovers, At
<1> QED
  BY <1>2, <1>3 DEF IInv

LEMMA Preserved == ASSUME StallsShort PROVE IInv /\ [Next]_vars => IInv'
BY InvStep, StutterInv DEF Next

\* The inductive invariant: the list from the head, the owners of the blocks,
\* what each thread may still believe of the head, and the two metrics.
THEOREM Inductive == ASSUME StallsShort PROVE Spec => []IInv
BY InitInv, Preserved, PTL DEF Spec

\* Types, current_in_use among them: it never wraps below zero.
THEOREM TypeCorrect == ASSUME StallsShort PROVE Spec => []TypeOK
<1>1. IInv => TypeOK
  BY DEF IInv, PoolInv
<1> QED
  BY Inductive, <1>1, PTL

\* Lines 60-146: for any number of threads and blocks, whatever compare-exchanges
\* interleave with the linking of blocks, the list stays whole, each block has
\* one owner, and the poison tells which blocks are out - as long as fewer
\* updates than the tag has values fall into one thread's window.
THEOREM PoolStaysIntact == ASSUME StallsShort PROVE Spec => []PoolIntact
<1>1. IInv => PoolIntact
  <2> SUFFICES ASSUME IInv PROVE PoolIntact
    OBVIOUS
  <2>1. PICK n \in 0..NumBlocks : \E w \in [1..n -> Blocks] : Linked(n, w)
    BY DEF IInv, PoolInv, Listed
  <2>2. PICK w \in [1..n -> Blocks] : Linked(n, w)
    BY <2>1
  <2>3. FreeListIntact /\ FreeBlocks = {w[i] : i \in 1..n}
    BY <2>2, ListIsFree DEF FreeAreListed
  <2>4. ASSUME NEW b \in Blocks
        PROVE  Cardinality({t \in Threads : blk[t] = b})
                 + (IF b \in held THEN 1 ELSE 0) + (IF b \in FreeBlocks THEN 1 ELSE 0) = 1
    <3> DEFINE Owners == {t \in Threads : blk[t] = b}
    <3>1. b # NoBlock
      BY NoBlockIsNone
    <3>2. CASE \E t \in Threads : blk[t] = b
      <4>1. PICK t \in Threads : blk[t] = b
        BY <3>2
      <4>2. Owners = {t} /\ b \notin held /\ b \notin FreeBlocks
        BY <4>1, <3>1 DEF IInv, PoolInv, Owned
      <4> HIDE DEF Owners
      <4>3. Cardinality(Owners) = 1
        BY <4>2, FS_Singleton
      <4> QED
        BY <4>2, <4>3 DEF Owners
    <3>3. CASE ~ \E t \in Threads : blk[t] = b
      <4>1. Owners = {} /\ (b \in held <=> b \notin FreeBlocks)
        BY <3>3 DEF IInv, PoolInv, Owned
      <4> HIDE DEF Owners
      <4>2. Cardinality(Owners) = 0
        BY <4>1, FS_EmptySet
      <4> QED
        BY <4>1, <4>2 DEF Owners
    <3> QED
      BY <3>2, <3>3
  <2>5. BlocksConserved
    BY <2>3, <2>4 DEF BlocksConserved
  <2>6. ASSUME NEW b \in FreeBlocks PROVE next[b] # POISON_INDEX
    <3>1. PICK i \in 1..n : b = w[i]
      BY <2>3
    <3>2. next[b] % IdxMod \in Blocks \cup {End}
      BY <3>1, <2>2 DEF Linked
    <3> QED
      BY <3>2, Markers, Sizes, SMTT(40) DEF End
  <2>7. PoisonTells
    BY <2>6 DEF PoisonTells, IInv, PoolInv, Poisoned
  <2> QED
    BY <2>5, <2>7 DEF PoolIntact
<1> QED
  BY Inductive, <1>1, PTL

\* current_in_use and peak_in_use are right but for the operations under way.
THEOREM MetricsAreExact == ASSUME StallsShort PROVE Spec => []MetricsSettle
<1>1. IInv => MetricsSettle
  BY DEF IInv
<1> QED
  BY Inductive, <1>1, PTL
-----------------------------------------------------------------------------
(* The lock-free list implements the pool. *)

\* The blocks of threads at some steps, as one thread steps.
LEMMA BlockMoves ==
    ASSUME PoolInv, NEW t \in Threads, NEW to, pc' = [pc EXCEPT ![t] = to],
           NEW b, blk' = [blk EXCEPT ![t] = b]
    PROVE  /\ pc[t] \notin Leaving /\ to \notin Leaving => With(Leaving)' = With(Leaving)
           /\ pc[t] \notin Returning /\ to \notin Returning =>
                 With(Returning)' = With(Returning)
           /\ pc[t] \notin Leaving /\ to \in Leaving =>
                 With(Leaving)' = With(Leaving) \cup {b}
           /\ pc[t] \notin Returning /\ to \in Returning =>
                 With(Returning)' = With(Returning) \cup {b}
           /\ pc[t] \in Leaving /\ to \notin Leaving =>
                 blk[t] \in With(Leaving) /\ With(Leaving)' = With(Leaving) \ {blk[t]}
           /\ pc[t] \in Returning /\ to \notin Returning =>
                 blk[t] \in With(Returning) /\ With(Returning)' = With(Returning) \ {blk[t]}
<1> DEFINE Rest(steps) == {blk[u] : u \in {v \in Threads \ {t} : pc[v] \in steps}}
<1>1. With(Leaving) = IF pc[t] \in Leaving THEN Rest(Leaving) \cup {blk[t]} ELSE Rest(Leaving)
  BY DEF With
<1>2. With(Leaving)' = IF to \in Leaving THEN Rest(Leaving) \cup {b} ELSE Rest(Leaving)
  BY DEF With, PoolInv, TypeOK
<1>3. pc[t] \in Leaving => blk[t] \notin Rest(Leaving)
  BY DEF PoolInv, TypeOK, Owned
<1>4. With(Returning) =
        IF pc[t] \in Returning THEN Rest(Returning) \cup {blk[t]} ELSE Rest(Returning)
  BY DEF With
<1>5. With(Returning)' = IF to \in Returning THEN Rest(Returning) \cup {b} ELSE Rest(Returning)
  BY DEF With, PoolInv, TypeOK
<1>6. pc[t] \in Returning => blk[t] \notin Rest(Returning)
  BY DEF PoolInv, TypeOK, Owned
<1> HIDE DEF Rest
<1> QED
  BY <1>1, <1>2, <1>3, <1>4, <1>5, <1>6

LEMMA Places ==
    /\ "aPoison" \in Leaving /\ "aPeak" \in Leaving
    /\ "dLink" \in Returning /\ "dCas" \in Returning
    /\ "idle" \notin Leaving /\ "aCas" \notin Leaving /\ "dLink" \notin Leaving
    /\ "dCas" \notin Leaving /\ "dCount" \notin Leaving
    /\ "idle" \notin Returning /\ "aCas" \notin Returning /\ "aPoison" \notin Returning
    /\ "aPeak" \notin Returning /\ "dCount" \notin Returning
BY DEF Leaving, Returning

LEMMA PoolIs ==
    /\ \A b : Pool!Take(b) =
           /\ b \in FreeBlocks
           /\ FreeBlocks' = FreeBlocks \ {b} /\ With(Leaving)' = With(Leaving) \cup {b}
           /\ held' = held /\ With(Returning)' = With(Returning)
    /\ \A b : Pool!Deliver(b) =
           /\ b \in With(Leaving)
           /\ With(Leaving)' = With(Leaving) \ {b} /\ held' = held \cup {b}
           /\ FreeBlocks' = FreeBlocks /\ With(Returning)' = With(Returning)
    /\ \A b : Pool!Return(b) =
           /\ b \in held
           /\ held' = held \ {b} /\ With(Returning)' = With(Returning) \cup {b}
           /\ FreeBlocks' = FreeBlocks /\ With(Leaving)' = With(Leaving)
    /\ \A b : Pool!Give(b) =
           /\ b \in With(Returning)
           /\ With(Returning)' = With(Returning) \ {b} /\ FreeBlocks' = FreeBlocks \cup {b}
           /\ With(Leaving)' = With(Leaving) /\ held' = held
BY DEF Pool!pool, Pool!Take, Pool!Deliver, Pool!Return, Pool!Give, Leaving, Returning

\* Steps that keep a thread's block where it is.
LEMMA PoolStutters ==
    ASSUME PoolInv, NEW t \in Threads, NEW to, pc' = [pc EXCEPT ![t] = to],
           blk' = blk, held' = held, FreeBlocks' = FreeBlocks,
           pc[t] \in Leaving <=> to \in Leaving, pc[t] \in Returning <=> to \in Returning
    PROVE  UNCHANGED Pool!pool
<1>1. \A u \in Threads : pc'[u] \in Leaving <=> pc[u] \in Leaving
  BY DEF PoolInv, TypeOK
<1>2. \A u \in Threads : pc'[u] \in Returning <=> pc[u] \in Returning
  BY DEF PoolInv, TypeOK
<1>3. With(Leaving)' = With(Leaving)
  BY <1>1 DEF With
<1>4. With(Returning)' = With(Returning)
  BY <1>2 DEF With
<1> QED
  BY <1>3, <1>4 DEF Pool!pool, Leaving, Returning

\* Each compare-exchange that succeeds, each return to a caller and each start
\* of a free moves one block of the pool; the other steps move none.
LEMMA StepRefines ==
    ASSUME StallsShort, IInv, IInv', NEW t \in Threads, Allocate(t) \/ Deallocate(t)
    PROVE  [Pool!Next]_(Pool!pool)
<1> USE DEF In, Goto
<1>0. PoolInv /\ TypeOK
  BY DEF IInv, PoolInv
<1>1. CASE AllocCas(t)
  <2>0. PICK b : b = old[t].idx
    OBVIOUS
  <2>1. b \in FreeBlocks /\ FreeBlocks' = FreeBlocks \ {b}
    BY <1>0, <1>1, <2>0, AllocCasStep
  <2>2. /\ pc[t] = "aCas" /\ pc' = [pc EXCEPT ![t] = "aPoison"]
        /\ blk' = [blk EXCEPT ![t] = b] /\ held' = held
    BY <1>1, <2>0 DEF AllocCas
  <2>3. /\ pc[t] \notin Leaving /\ "aPoison" \in Leaving
        /\ pc[t] \notin Returning /\ "aPoison" \notin Returning
    BY <2>2, Places
  <2>4. With(Leaving)' = With(Leaving) \cup {b} /\ With(Returning)' = With(Returning)
    BY <1>0, <2>2, <2>3, BlockMoves
  <2>5. Pool!Take(b)
    BY <2>1, <2>2, <2>4, PoolIs
  <2>6. b \in Blocks
    BY <2>1 DEF FreeBlocks
  <2> QED
    BY <2>5, <2>6 DEF Pool!Next
<1>2. CASE AllocPeak(t)
  <2>1. FreeBlocks' = FreeBlocks /\ held' = held \cup {blk[t]} /\ blk[t] \in Blocks
    BY <1>0, <1>2, AllocPeakStep
  <2>2. /\ pc[t] = "aPeak" /\ pc' = [pc EXCEPT ![t] = "idle"]
        /\ blk' = [blk EXCEPT ![t] = NoBlock]
    BY <1>2 DEF AllocPeak, Return
  <2>3. /\ blk[t] \in With(Leaving) /\ With(Leaving)' = With(Leaving) \ {blk[t]}
        /\ With(Returning)' = With(Returning)
    BY <1>0, <2>2, BlockMoves, Places
  <2>4. Pool!Deliver(blk[t])
    BY <2>1, <2>3, PoolIs
  <2> QED
    BY <2>1, <2>4 DEF Pool!Next
<1>3. CASE FreeStart(t)
  <2>0. PICK b : b = blk'[t]
    OBVIOUS
  <2>1. FreeBlocks' = FreeBlocks /\ b \in held /\ held' = held \ {b}
    BY <1>0, <1>3, <2>0, FreeStartStep
  <2>2. /\ pc[t] = "idle" /\ pc' = [pc EXCEPT ![t] = "dLink"] /\ blk' = [blk EXCEPT ![t] = b]
    BY <1>0, <1>3, <2>0 DEF FreeStart, PoolInv, TypeOK, Poisoned
  <2>3. b \in Blocks
    BY <1>0, <2>1 DEF TypeOK
  <2>4. /\ pc[t] \notin Leaving /\ "dLink" \notin Leaving
        /\ pc[t] \notin Returning /\ "dLink" \in Returning
    BY <2>2, Places
  <2>5. With(Returning)' = With(Returning) \cup {b} /\ With(Leaving)' = With(Leaving)
    BY <1>0, <2>2, <2>4, BlockMoves
  <2>6. Pool!Return(b)
    BY <2>1, <2>5, PoolIs
  <2> QED
    BY <2>3, <2>6 DEF Pool!Next
<1>4. CASE FreeCas(t)
  <2>1. blk[t] \in Blocks \ FreeBlocks /\ FreeBlocks' = FreeBlocks \cup {blk[t]}
    BY <1>0, <1>4, FreeCasStep
  <2>2. /\ pc[t] = "dCas" /\ pc' = [pc EXCEPT ![t] = "dCount"]
        /\ blk' = [blk EXCEPT ![t] = NoBlock] /\ held' = held
    BY <1>4 DEF FreeCas
  <2>3. /\ blk[t] \in With(Returning) /\ With(Returning)' = With(Returning) \ {blk[t]}
        /\ With(Leaving)' = With(Leaving)
    BY <1>0, <2>2, BlockMoves, Places
  <2>4. Pool!Give(blk[t])
    BY <2>1, <2>2, <2>3, PoolIs
  <2> QED
    BY <2>1, <2>4 DEF Pool!Next
<1>5. CASE AllocRead(t)
  <2>1. FreeBlocks' = FreeBlocks /\ blk' = blk /\ held' = held /\ pc[t] = "aRead"
    BY <1>0, <1>5, AllocateQuiet DEF AllocRead
  <2>2. \/ pc' = [pc EXCEPT ![t] = "idle"] \/ pc' = pc \/ pc' = [pc EXCEPT ![t] = "aCas"]
    BY <1>0, <1>5, AllocReadGoes
  <2>3. pc = [pc EXCEPT ![t] = "aRead"]
    BY <1>0, <2>1 DEF TypeOK
  <2> QED
    BY <1>0, <2>1, <2>2, <2>3, PoolStutters DEF Leaving, Returning
<1>6. CASE \/ AllocLoad(t) \/ AllocRetry(t) \/ AllocCount(t) \/ AllocPeakLoad(t)
           \/ AllocPeakRetry(t)
  <2>1. FreeBlocks' = FreeBlocks
    BY <1>0, <1>6, AllocateQuiet
  <2>2. \/ pc[t] \in {"idle", "aCas"} /\ pc' = [pc EXCEPT ![t] = "aRead"]
        \/ pc[t] = "aCount" /\ pc' = [pc EXCEPT ![t] = "aLoadPeak"]
        \/ pc[t] \in {"aLoadPeak", "aPeak"} /\ pc' = [pc EXCEPT ![t] = "aPeak"]
    BY <1>0, <1>6 DEF AllocLoad, AllocRetry, AllocCount, AllocPeakLoad, AllocPeakRetry, TypeOK
  <2>3. blk' = blk /\ held' = held
    BY <1>6 DEF AllocLoad, AllocRetry, AllocCount, AllocPeakLoad, AllocPeakRetry
  <2> QED
    BY <1>0, <2>1, <2>2, <2>3, PoolStutters DEF Leaving, Returning
<1>7. CASE AllocPoison(t)
  <2>1. FreeBlocks' = FreeBlocks
    BY <1>0, <1>7, AllocPoisonStep
  <2>2. /\ pc[t] = "aPoison" /\ pc' = [pc EXCEPT ![t] = "aCount"]
        /\ blk' = blk /\ held' = held
    BY <1>7 DEF AllocPoison
  <2> QED
    BY <1>0, <2>1, <2>2, PoolStutters DEF Leaving, Returning
<1>8. CASE FreeLink(t) \/ FreeRetry(t)
  <2>1. FreeBlocks' = FreeBlocks
    BY <1>0, <1>8, FreeLinkStep, FreeRetryStep
  <2>2. \/ pc[t] = "dLink" /\ pc' = [pc EXCEPT ![t] = "dCas"]
        \/ pc[t] = "dCas" /\ pc' = [pc EXCEPT ![t] = "dLink"]
    BY <1>8 DEF FreeLink, FreeRetry
  <2>3. blk' = blk /\ held' = held
    BY <1>8 DEF FreeLink, FreeRetry
  <2> QED
    BY <1>0, <2>1, <2>2, <2>3, PoolStutters DEF Leaving, Returning
<1>9. CASE FreeCount(t)
  <2>1. /\ pc[t] = "dCount" /\ pc' = [pc EXCEPT ![t] = "idle"]
        /\ blk' = blk /\ held' = held
    BY <1>9 DEF FreeCount
  <2>2. inUse > 0
    BY <1>0, <2>1, InUsePositive DEF IInv, MetricsSettle
  <2>3. FreeBlocks' = FreeBlocks
    BY <1>0, <1>9, <2>2, FreeCountStep
  <2> QED
    BY <1>0, <2>1, <2>3, PoolStutters DEF Leaving, Returning
<1> QED
  BY <1>1, <1>2, <1>3, <1>4, <1>5, <1>6, <1>7, <1>8, <1>9 DEF Allocate, Deallocate

LEMMA InitRefines == Init => Pool!Init
<1> SUFFICES ASSUME Init PROVE Pool!Init
  OBVIOUS
<1>1. FreeBlocks = Blocks
  BY InitPool
<1>2. \A steps \in {Leaving, Returning} : With(steps) = {}
  BY DEF Init, With, Leaving, Returning
<1> QED
  BY <1>1, <1>2 DEF Init, Pool!Init, Leaving, Returning

LEMMA StutterRefines == IInv /\ UNCHANGED vars => UNCHANGED Pool!pool
<1> SUFFICES ASSUME IInv, UNCHANGED vars PROVE UNCHANGED Pool!pool
  OBVIOUS
<1>1. FreeBlocks' = FreeBlocks
  BY ListKept DEF vars, IInv, PoolInv
<1> QED
  BY <1>1 DEF vars, Pool!pool, With

\* A compare-exchange takes out exactly the block its thread will return, or
\* puts back exactly the one it was given: the lock-free list is a pool.
THEOREM Refinement == ASSUME StallsShort PROVE Spec => ImplementsPool
<1>1. IInv /\ IInv' /\ [Next]_vars => [Pool!Next]_(Pool!pool)
  BY StepRefines, StutterRefines DEF Next
<1> QED
  BY InitRefines, <1>1, Inductive, PTL DEF Spec, ImplementsPool, Pool!Spec
=============================================================================
