-------------------------- MODULE SequentialProofs --------------------------
(***************************************************************************)
(* What holds of components that one thread uses at a time, for every      *)
(* value of their constants: the cache of gammas, the allocation loop, the *)
(* guarded block, the collar, the segment tree, the sizes of positions,    *)
(* the shares that risk buys, the router, the regime filter and the three  *)
(* optimisers.  EstimateProofs goes on with the components that estimate.  *)
(* MCSequential checks the same properties, and the assumptions, on small  *)
(* instances.                                                              *)
(***************************************************************************)
EXTENDS SequentialObjects, Sequences, NumberLemmas

-----------------------------------------------------------------------------
(* The cache of gammas. *)

\* What is cached was priced at lastSpot, for a chain of the same size; until
\* the first call there is nothing.
CacheInv ==
    /\ entries \in Seq([spot : Spots, instrument : Instruments])
    /\ chain \in Seq(Instruments) /\ Len(entries) = Len(chain)
    /\ dirty \in BOOLEAN /\ swapped \in BOOLEAN
    /\ dirty => lastSpot = 0 /\ chain = <<>>
    /\ ~dirty => /\ lastSpot \in Spots /\ spot \in Spots
                 /\ ~Cache!Moved(spot, lastSpot)
    /\ \A n \in 1..Len(chain) :
         /\ entries[n].spot = lastSpot
         /\ entries[n].instrument = chain[n] \/ swapped

LEMMA ChainsAre == \A c \in Cache!Chains : c \in Seq(Instruments) /\ DOMAIN c = 1..Len(c)
BY DEF Cache!Chains

LEMMA CacheStep ==
    ASSUME Cache!CacheAssumption, CacheInv, NEW c \in Cache!Chains, NEW s \in Spots,
           Cache!UpdateChain(c, s)
    PROVE  CacheInv'
<1>1. c \in Seq(Instruments) /\ DOMAIN c = 1..Len(c) /\ Len(c) \in Nat
  BY ChainsAre
<1>2. chain' = c /\ spot' = s
  BY DEF Cache!UpdateChain
<1>3. CASE Len(entries) # Len(c) \/ dirty \/ Cache!Moved(s, lastSpot)
  <2>1. /\ entries' = [n \in 1..Len(c) |-> [spot |-> s, instrument |-> c[n]]]
        /\ lastSpot' = s /\ dirty' = FALSE /\ swapped' = FALSE
    BY <1>1, <1>3 DEF Cache!UpdateChain
  <2>2. entries' \in Seq([spot : Spots, instrument : Instruments]) /\ Len(entries') = Len(c)
    BY <1>1, <2>1
  <2>3. ~Cache!Moved(s, s)
    <3>1. s \in Nat /\ s - s = 0 /\ 0 * PartsMoved = 0
      BY DEF Cache!CacheAssumption
    <3> QED
      BY <3>1 DEF Cache!Moved, Cache!Distance
  <2> QED
    BY <1>1, <1>2, <2>1, <2>2, <2>3 DEF CacheInv, Cache!Moved
<1>4. CASE ~(Len(entries) # Len(c) \/ dirty \/ Cache!Moved(s, lastSpot))
  <2>1. /\ entries' = entries /\ lastSpot' = lastSpot /\ dirty' = dirty
        /\ swapped' = (swapped \/ c # chain)
    BY <1>4 DEF Cache!UpdateChain, Cache!Keep
  <2> QED
    BY <1>1, <1>2, <1>4, <2>1 DEF CacheInv, Cache!Moved
<1> QED
  BY <1>3, <1>4

\* What the proof of GammasStayFresh goes by, in every state.
LEMMA CacheKept ==
    ASSUME Cache!CacheAssumption PROVE Cache!Spec => []CacheInv
<1>1. Cache!Init => CacheInv
  <2> SUFFICES ASSUME Cache!Init PROVE CacheInv
    OBVIOUS
  <2>1. /\ entries = <<>> /\ chain = <<>> /\ lastSpot = 0 /\ dirty = TRUE
        /\ swapped = FALSE
    BY DEF Cache!Init
  <2>2. /\ entries \in Seq([spot : Spots, instrument : Instruments])
        /\ chain \in Seq(Instruments) /\ Len(entries) = 0 /\ Len(chain) = 0
    BY <2>1
  <2>3. \A n \in 1..Len(chain) : FALSE
    BY <2>2
  <2> QED
    BY <2>1, <2>2, <2>3 DEF CacheInv
<1>2. CacheInv /\ [Cache!Next]_Cache!vars => CacheInv'
  <2>1. ASSUME CacheInv, UNCHANGED Cache!vars PROVE CacheInv'
    BY <2>1 DEF CacheInv, Cache!vars, Cache!Moved
  <2> QED
    BY <2>1, CacheStep DEF Cache!Next
<1> QED
  BY <1>1, <1>2, PTL DEF Cache!Spec

\* Lines 16-38: however many small moves add up, every cached gamma was priced
\* within the tolerance of the present spot.
THEOREM GammasStayFresh ==
    ASSUME Cache!CacheAssumption PROVE Cache!Spec => []GammasFresh
<1>1. CacheInv => GammasFresh
  BY DEF CacheInv, GammasFresh, Cache!GammasFresh
<1> QED
  BY <1>1, CacheKept, PTL

-----------------------------------------------------------------------------
(* The allocation loop. *)

\* The blocks that are out are those the loop holds, each once.
LoopInv ==
    /\ active \in Seq(Blocks) /\ Len(active) <= MaxActive
    /\ Allocator!IsInjective(active)
    /\ live = IF finished THEN {} ELSE Allocator!Range(active)
    /\ wrong = FALSE /\ finished \in BOOLEAN
    /\ finished => operations = NumOps

\* A try that finds no block gives all of them back first.
LEMMA RefillStep ==
    ASSUME Allocator!LoopAssumption, LoopInv, ~finished, finished' = finished,
           Allocator!Refill
    PROVE  LoopInv'
<1>1. PICK b \in Allocator!Allocated(live \ Allocator!Range(active)) :
        /\ active' = IF b = NoBlock THEN <<>> ELSE <<b>>
        /\ live' = (live \ Allocator!Range(active)) \cup ({b} \ {NoBlock})
        /\ wrong' = (wrong \/ ~Allocator!IsInjective(active)
                            \/ ~(Allocator!Range(active) \subseteq live))
  BY DEF Allocator!Refill
<1>2. wrong' = FALSE /\ live' = {b} \ {NoBlock}
  BY <1>1 DEF LoopInv
<1>3. b = NoBlock \/ b \in Blocks
  BY DEF Allocator!Allocated
<1>4. MaxActive \in Nat /\ MaxActive >= 1
  BY DEF Allocator!LoopAssumption
<1>5. CASE b = NoBlock
  <2>1. active' = <<>> /\ live' = {}
    BY <1>1, <1>2, <1>5
  <2>2. DOMAIN active' = {} /\ Len(active') = 0
    BY <2>1
  <2>3. active' \in Seq(Blocks)
    BY <2>1
  <2> QED
    BY <1>2, <1>4, <2>1, <2>2, <2>3 DEF LoopInv, Allocator!IsInjective, Allocator!Range
<1>6. CASE b # NoBlock
  <2>1. active' = <<b>> /\ live' = {b} /\ b \in Blocks
    BY <1>1, <1>2, <1>3, <1>6
  <2>2. DOMAIN active' = {1} /\ Len(active') = 1 /\ active'[1] = b
    BY <2>1
  <2>3. active' \in Seq(Blocks)
    BY <2>1
  <2> QED
    BY <1>2, <1>4, <2>1, <2>2, <2>3, SMTT(30) DEF LoopInv, Allocator!IsInjective, Allocator!Range
<1> QED
  BY <1>5, <1>6

\* A new block comes in last; the first leaves when there are too many.
LEMMA KeepStep ==
    ASSUME Allocator!LoopAssumption, LoopInv, ~finished, finished' = finished,
           NEW b \in Blocks, b \notin live, Allocator!Keep(b)
    PROVE  LoopInv'
<1> DEFINE all == Append(active, b)
<1>1. /\ active \in Seq(Blocks) /\ Len(active) \in Nat /\ Len(active) <= MaxActive
      /\ MaxActive \in Nat /\ MaxActive >= 1
      /\ live = {active[n] : n \in 1..Len(active)} /\ wrong = FALSE
      /\ \A m, n \in 1..Len(active) : active[m] = active[n] => m = n
  BY DEF LoopInv, Allocator!LoopAssumption, Allocator!IsInjective, Allocator!Range
<1>2. /\ all \in Seq(Blocks) /\ Len(all) = Len(active) + 1
      /\ \A n \in 1..Len(all) : all[n] = IF n = Len(all) THEN b ELSE active[n]
  BY <1>1
<1>3. \A m, n \in 1..Len(all) : all[m] = all[n] => m = n
  BY <1>1, <1>2
<1>4. live \cup {b} = {all[n] : n \in 1..Len(all)}
  <2>1. \A n \in 1..Len(active) : n \in 1..Len(all) /\ all[n] = active[n]
    BY <1>1, <1>2
  <2>2. Len(all) \in 1..Len(all) /\ all[Len(all)] = b
    BY <1>1, <1>2
  <2>3. \A n \in 1..Len(all) : n = Len(all) \/ n \in 1..Len(active)
    BY <1>1, <1>2
  <2> HIDE DEF all
  <2> QED
    BY <1>1, <2>1, <2>2, <2>3
<1>5. CASE Len(all) > MaxActive
  <2>1. /\ active' = SubSeq(all, Len(<<Head(all)>>) + 1, Len(all))
        /\ live' = (live \cup {b}) \ Allocator!Range(<<Head(all)>>)
        /\ wrong' = (wrong \/ ~Allocator!IsInjective(<<Head(all)>>)
                       \/ ~(Allocator!Range(<<Head(all)>>) \subseteq live \cup {b}))
    BY <1>5 DEF Allocator!Keep, Allocator!Deallocate
  <2>2. Head(all) = all[1] /\ Len(all) \in Nat /\ Len(all) >= 2 /\ Len(all) - 1 <= MaxActive
    BY <1>1, <1>2, <1>5
  <2> HIDE DEF all
  <2>3. Len(<<Head(all)>>) + 1 = 2 /\ Allocator!IsInjective(<<Head(all)>>)
        /\ Allocator!Range(<<Head(all)>>) = {all[1]}
    BY <2>2 DEF Allocator!IsInjective, Allocator!Range
  <2>4. /\ active' = SubSeq(all, 2, Len(all)) /\ live' = (live \cup {b}) \ {all[1]}
        /\ wrong' = FALSE
    <3>1. all[1] \in live \cup {b}
      BY <1>4, <2>2
    <3> QED
      BY <1>1, <2>1, <2>3, <3>1
  <2>5. /\ active' \in Seq(Blocks) /\ Len(active') = Len(all) - 1
        /\ \A n \in 1..Len(active') : active'[n] = all[n + 1]
    BY <1>2, <2>2, <2>4
  <2>6. \A m, n \in 1..Len(active') : active'[m] = active'[n] => m = n
    <3>1. \A n \in 1..Len(active') : n + 1 \in 1..Len(all)
      BY <2>2, <2>5
    <3> QED
      BY <1>3, <2>5, <3>1
  <2>7. live' = {active'[n] : n \in 1..Len(active')}
    <3>1. \A n \in 1..Len(active') : n + 1 \in 1..Len(all) /\ n + 1 # 1
      BY <2>2, <2>5
    <3>2. \A n \in 1..Len(all) : n # 1 => n - 1 \in 1..Len(active') /\ (n - 1) + 1 = n
      BY <2>2, <2>5
    <3>3. 1 \in 1..Len(all)
      BY <2>2
    <3>4. ASSUME NEW x \in live' PROVE x \in {active'[n] : n \in 1..Len(active')}
      <4>1. PICK n \in 1..Len(all) : x = all[n] /\ n # 1
        BY <1>4, <2>4
      <4>2. n - 1 \in 1..Len(active') /\ (n - 1) + 1 = n
        BY <3>2, <4>1
      <4>3. active'[n - 1] = x
        BY <2>5, <4>1, <4>2
      <4> QED
        BY <4>2, <4>3
    <3>5. ASSUME NEW n \in 1..Len(active') PROVE active'[n] \in live'
      <4>1. active'[n] = all[n + 1] /\ all[n + 1] # all[1]
        BY <1>3, <2>5, <3>1, <3>3
      <4> QED
        BY <1>4, <2>4, <3>1, <4>1
    <3> QED
      BY <3>4, <3>5
  <2>8. DOMAIN active' = 1..Len(active')
    BY <2>5
  <2> QED
    BY <2>2, <2>4, <2>5, <2>6, <2>7, <2>8 DEF LoopInv, Allocator!IsInjective, Allocator!Range
<1>6. CASE ~(Len(all) > MaxActive)
  <2>1. /\ active' = SubSeq(all, Len(<<>>) + 1, Len(all))
        /\ live' = (live \cup {b}) \ Allocator!Range(<<>>)
        /\ wrong' = (wrong \/ ~Allocator!IsInjective(<<>>)
                       \/ ~(Allocator!Range(<<>>) \subseteq live \cup {b}))
    BY <1>6 DEF Allocator!Keep, Allocator!Deallocate
  <2>2. Len(all) \in Nat /\ Len(all) <= MaxActive
    BY <1>1, <1>2, <1>6
  <2> HIDE DEF all
  <2>3. Len(<<>>) + 1 = 1 /\ Allocator!IsInjective(<<>>) /\ Allocator!Range(<<>>) = {}
    BY DEF Allocator!IsInjective, Allocator!Range
  <2>4. active' = SubSeq(all, 1, Len(all)) /\ live' = live \cup {b} /\ wrong' = FALSE
    BY <1>1, <2>1, <2>3
  <2>5. active' = all
    BY <1>2, <2>2, <2>4
  <2>6. DOMAIN active' = 1..Len(active')
    BY <1>2, <2>5
  <2>7. /\ active' \in Seq(Blocks) /\ Len(active') <= MaxActive
        /\ live' = {active'[n] : n \in 1..Len(active')}
        /\ \A m, n \in 1..Len(active') : active'[m] = active'[n] => m = n
    BY <1>2, <1>3, <1>4, <2>2, <2>4, <2>5
  <2> QED
    BY <2>4, <2>6, <2>7 DEF LoopInv, Allocator!IsInjective, Allocator!Range
<1> QED
  BY <1>5, <1>6

LEMMA LoopStep ==
    ASSUME Allocator!LoopAssumption, LoopInv, Allocator!Next
    PROVE  LoopInv'
<1>1. CASE Allocator!Operate
  <2>1. ~finished /\ finished' = finished
    BY <1>1 DEF Allocator!Operate, LoopInv, Allocator!LoopAssumption
  <2>2. PICK b \in Allocator!Allocated(live) :
          IF b = NoBlock THEN Allocator!Refill ELSE Allocator!Keep(b)
    BY <1>1 DEF Allocator!Operate
  <2>3. CASE b = NoBlock
    BY <2>1, <2>2, <2>3, RefillStep
  <2>4. CASE b # NoBlock
    <3>1. b \in Blocks /\ b \notin live
      BY <2>4 DEF Allocator!Allocated
    <3> QED
      BY <2>1, <2>2, <2>4, <3>1, KeepStep
  <2> QED
    BY <2>3, <2>4
<1>2. CASE Allocator!Finish
  BY <1>2 DEF Allocator!Finish, Allocator!Deallocate, LoopInv
<1> QED
  BY <1>1, <1>2 DEF Allocator!Next

\* What the proof of LoopAccounts goes by, in every state.
LEMMA LoopKept ==
    ASSUME Allocator!LoopAssumption PROVE Allocator!Spec => []LoopInv
<1>1. Allocator!Init => LoopInv
  <2> SUFFICES ASSUME Allocator!Init PROVE LoopInv
    OBVIOUS
  <2>1. /\ active = <<>> /\ live = {} /\ wrong = FALSE /\ finished = FALSE
        /\ MaxActive \in Nat
    BY DEF Allocator!Init, Allocator!LoopAssumption
  <2>2. active \in Seq(Blocks) /\ Len(active) = 0 /\ DOMAIN active = {}
    BY <2>1
  <2>3. Allocator!IsInjective(active) /\ Allocator!Range(active) = {}
    BY <2>2 DEF Allocator!IsInjective, Allocator!Range
  <2>4. Len(active) <= MaxActive
    BY <2>1, <2>2
  <2> QED
    BY <2>1, <2>2, <2>3, <2>4 DEF LoopInv
<1>2. LoopInv /\ [Allocator!Next]_Allocator!vars => LoopInv'
  <2>1. ASSUME LoopInv, UNCHANGED Allocator!vars PROVE LoopInv'
    BY <2>1 DEF LoopInv, Allocator!vars
  <2> QED
    BY <2>1, LoopStep
<1> QED
  BY <1>1, <1>2, PTL DEF Allocator!Spec

\* Lines 55-75 of main.hpp: however often malloc fails, the loop holds every
\* block it was given, frees each once and, at the end, all.
THEOREM LoopAccounts ==
    ASSUME Allocator!LoopAssumption PROVE Allocator!Spec => []BlocksAccounted
<1>1. LoopInv => BlocksAccounted
  BY DEF LoopInv, BlocksAccounted, Allocator!BlocksAccounted
<1> QED
  BY <1>1, LoopKept, PTL

-----------------------------------------------------------------------------
(* The guarded block. *)

\* A canary is what it was set to last, or a stray store has hit it; a block
\* without stores holds what initialize put there.
GuardInv ==
    /\ word = [a \in Guard!Block |-> word[a]]
    /\ life = "freed" => \A a \in {Guard!PreCanary, Guard!PostCanary} :
                           word[a] \in {Guard!FREE_CANARY, Guard!Junk}
    /\ life = "live" => \A a \in {Guard!PreCanary, Guard!PostCanary} :
                           word[a] \in {Guard!LIVE_CANARY, Guard!Junk}
    /\ life = "live" =>
          word[Guard!Checksum] \in {<<"checksum", [a \in Guard!User |-> Guard!Data(0)]>>,
                                    Guard!Junk}
    /\ life = "live" /\ ~used => \A a \in Guard!User : word[a] = Guard!Data(0)

LEMMA Addresses ==
    ASSUME Guard!GuardAssumption
    PROVE  /\ Guard!PreCanary \in Guard!Block \ Guard!User
           /\ Guard!PostCanary \in Guard!Block \ Guard!User
           /\ Guard!Checksum \in Guard!Block \ Guard!User
           /\ Guard!User \subseteq Guard!Block
           /\ Guard!PreCanary # Guard!PostCanary /\ Guard!PreCanary # Guard!Checksum
           /\ Guard!PostCanary # Guard!Checksum
           /\ Guard!BlockId \notin {Guard!PreCanary, Guard!PostCanary, Guard!Checksum}
           /\ Guard!Generation \notin {Guard!PreCanary, Guard!PostCanary, Guard!Checksum}
           /\ Guard!BlockId \notin Guard!User /\ Guard!Generation \notin Guard!User
BY DEF Guard!GuardAssumption, Guard!PreCanary, Guard!PostCanary, Guard!Checksum,
       Guard!Block, Guard!User, Guard!BlockId, Guard!Generation

\* The words the code tells apart differ.
LEMMA WordsDiffer ==
    /\ Guard!Junk # Guard!LIVE_CANARY /\ Guard!Junk # Guard!FREE_CANARY
    /\ Guard!LIVE_CANARY # Guard!FREE_CANARY
    /\ \A f : <<"checksum", f>> # Guard!Junk
BY DEF Guard!Junk, Guard!LIVE_CANARY, Guard!FREE_CANARY

LEMMA GuardStep ==
    ASSUME Guard!GuardAssumption, GuardInv, Guard!Next
    PROVE  GuardInv'
<1> DEFINE zeros == <<"checksum", [a \in Guard!User |-> Guard!Data(0)]>>
<1>1. CASE Guard!Initialize
  <2>1. word' = Guard!Initialized(generation + 1) /\ life' = "live" /\ used' = FALSE
    BY <1>1 DEF Guard!Initialize
  <2>2. /\ word'[Guard!PreCanary] = Guard!LIVE_CANARY
        /\ word'[Guard!PostCanary] = Guard!LIVE_CANARY
        /\ \A a \in Guard!User : word'[a] = Guard!Data(0)
    BY <2>1, Addresses DEF Guard!Initialized
  <2>3. word'[Guard!Checksum] = Guard!compute_checksum([a \in Guard!User |-> Guard!Data(0)])
    BY <2>1, Addresses DEF Guard!Initialized
  <2>4. word'[Guard!Checksum] = zeros
    <3>1. [a \in Guard!User |-> [b \in Guard!User |-> Guard!Data(0)][a]]
            = [a \in Guard!User |-> Guard!Data(0)]
      OBVIOUS
    <3> QED
      BY <2>3, <3>1 DEF Guard!compute_checksum
  <2>5. word' = [a \in Guard!Block |-> word'[a]]
    <3> DEFINE set(a) ==
          CASE a \in {Guard!PreCanary, Guard!PostCanary} -> Guard!LIVE_CANARY
            [] a = Guard!BlockId    -> <<"id", 1>>
            [] a = Guard!Generation -> <<"generation", generation + 1>>
            [] a \in Guard!User     -> Guard!Data(0)
            [] a = Guard!Checksum   ->
                 Guard!compute_checksum([u \in Guard!User |-> Guard!Data(0)])
    <3>1. word' = [a \in Guard!Block |-> set(a)]
      BY <2>1, Zenon DEF Guard!Initialized
    <3> HIDE DEF set
    <3> QED
      BY <3>1
  <2> QED
    BY <2>1, <2>2, <2>4, <2>5 DEF GuardInv
<1>2. CASE Guard!MarkFreed
  <2>1. /\ word' = [a \in Guard!Block |->
                      IF a \in {Guard!PreCanary, Guard!PostCanary} THEN Guard!FREE_CANARY
                      ELSE IF a \in Guard!User THEN Guard!Poison ELSE word[a]]
        /\ life' = "freed"
    BY <1>2 DEF Guard!MarkFreed
  <2>2. word' = [a \in Guard!Block |-> word'[a]]
    BY <2>1
  <2> QED
    BY <2>1, <2>2, Addresses DEF GuardInv
<1>3. CASE Guard!Store
  <2>1. PICK a \in Guard!User, v \in Contents : word' = [word EXCEPT ![a] = Guard!Data(v)]
    BY <1>3 DEF Guard!Store
  <2>2. life = "live" /\ life' = life /\ used' = TRUE
    BY <1>3 DEF Guard!Store
  <2>3. /\ word' = [b \in Guard!Block |-> word'[b]]
        /\ \A b \in Guard!Block \ Guard!User : word'[b] = word[b]
    BY <2>1 DEF GuardInv
  <2> QED
    BY <2>2, <2>3, Addresses DEF GuardInv
<1>4. CASE Guard!Stray
  <2>1. PICK a \in Guard!Block \ (IF life = "live" THEN Guard!User ELSE {}) :
          word' = [word EXCEPT ![a] = Guard!Junk]
    BY <1>4 DEF Guard!Stray
  <2>2. life' = life /\ used' = used
    BY <1>4 DEF Guard!Stray
  <2>3. /\ word' = [b \in Guard!Block |-> word'[b]]
        /\ \A b \in Guard!Block : word'[b] \in {word[b], Guard!Junk}
        /\ life = "live" => \A b \in Guard!User : word'[b] = word[b]
    BY <2>1, Addresses DEF GuardInv
  <2> QED
    BY <2>2, <2>3, Addresses DEF GuardInv
<1> QED
  BY <1>1, <1>2, <1>3, <1>4 DEF Guard!Next

\* What the proof of AuditsTell goes by, in every state.
LEMMA GuardKept ==
    ASSUME Guard!GuardAssumption PROVE Guard!Spec => []GuardInv
<1>1. Guard!Init => GuardInv
  BY DEF Guard!Init, GuardInv
<1>2. GuardInv /\ [Guard!Next]_Guard!vars => GuardInv'
  <2>1. ASSUME GuardInv, UNCHANGED Guard!vars PROVE GuardInv'
    BY <2>1 DEF GuardInv, Guard!vars
  <2> QED
    BY <2>1, GuardStep
<1> QED
  BY <1>1, <1>2, PTL DEF Guard!Spec

\* Lines 92-123: the audit of a block in any order of lives, stores and strays:
\* a store over either canary is reported, a freed block is never taken for a
\* live one, and a live block that nobody wrote to is in order.
THEOREM AuditsTell ==
    ASSUME Guard!GuardAssumption PROVE Guard!Spec => []Guard!AuditTells
<1>1. GuardInv => Guard!AuditTells
  <2> SUFFICES ASSUME GuardInv PROVE Guard!AuditTells
    OBVIOUS
  <2>1. life = "live" /\ Guard!Damaged \cap {Guard!PreCanary, Guard!PostCanary} # {} =>
          Guard!Validate # "OK"
    BY WordsDiffer DEF Guard!Damaged, Guard!Validate, Guard!Live
  <2>2. life = "freed" => Guard!Validate \in {"USE-AFTER-FREE", "CORRUPTED CANARY"}
    BY WordsDiffer DEF GuardInv, Guard!Validate, Guard!Live
  <2>3. ASSUME life = "live", Guard!Damaged = {}, ~used PROVE Guard!Validate = "OK"
    <3>1. \A a \in Guard!Block \ Guard!User : word[a] # Guard!Junk
      BY <2>3 DEF Guard!Damaged
    <3>2. Guard!Live
      BY <2>3, <3>1, Addresses DEF GuardInv, Guard!Live
    <3>3. Guard!compute_checksum(word) = <<"checksum", [a \in Guard!User |-> Guard!Data(0)]>>
      <4>1. [a \in Guard!User |-> word[a]] = [a \in Guard!User |-> Guard!Data(0)]
        BY <2>3 DEF GuardInv
      <4> QED
        BY <4>1 DEF Guard!compute_checksum
    <3>4. word[Guard!Checksum] = Guard!compute_checksum(word)
      BY <2>3, <3>1, <3>3, Addresses DEF GuardInv
    <3> QED
      BY <3>2, <3>4 DEF Guard!Validate
  <2> QED
    BY <2>1, <2>2, <2>3 DEF Guard!AuditTells
<1> QED
  BY <1>1, GuardKept, PTL

-----------------------------------------------------------------------------
(* The collar. *)

\* The interval is the n-th half of the first.
Halved ==
    \E width \in [0..Halvings -> 1..(Highest - Lowest)] :
        /\ width[0] = Highest - Lowest /\ width[Halvings] = 1
        /\ \A n \in 1..Halvings : width[n - 1] = 2 * width[n]
        /\ high - low = width[halved]

\* The put is the lower end of the interval, if a strike was within the limits;
\* the upper end is without them.
CollarInv ==
    /\ call \in [strike : CallStrikes, premium : CallPremiums]
    /\ costPercent \in CostPercents /\ minProtection \in Protections
    /\ putPremium \in [Collar!Strikes -> PutPremiums]
    /\ halved \in 0..Halvings /\ low \in Lowest..Highest /\ high \in Lowest..Highest
    /\ Halved
    /\ verdict \in {"searching", "not OTM", "no put", "collar"}
    /\ \/ put = Collar!NoPut /\ low = Lowest
       \/ put = low /\ put \in Collar!Strikes /\ Collar!Within(put)
    /\ high = Highest \/ (high \in Collar!Strikes /\ ~Collar!Within(high))
    /\ verdict \in {"no put", "collar"} => high = low + 1
    /\ verdict = "no put" => put = Collar!NoPut
    /\ verdict = "collar" => put # Collar!NoPut

LEMMA StrikesAre ==
    ASSUME Collar!CollarAssumption
    PROVE  /\ Collar!Strikes = (Lowest + 1)..(Highest - 1) /\ Collar!NoPut \notin Collar!Strikes
           /\ \A k \in Collar!Strikes : k \in Nat /\ Lowest < k /\ k < Highest
           /\ Lowest \in Nat /\ Highest \in Nat /\ Spot \in Nat /\ Halvings \in Nat
           /\ Lowest < Highest /\ Highest < Spot
BY DEF Collar!CollarAssumption, Collar!Strikes, Collar!NoPut

\* The call's arguments and the ends of the interval are numbers.
LEMMA PricesAre ==
    ASSUME Collar!CollarAssumption, CollarInv
    PROVE  /\ call.premium \in Nat /\ costPercent \in Nat /\ minProtection \in Nat
           /\ \A k \in Collar!Strikes : putPremium[k] \in Nat
           /\ low \in Nat /\ high \in Nat /\ Lowest <= low /\ high <= Highest
           /\ low <= Highest /\ Lowest <= high
           /\ halved \in Nat /\ halved <= Halvings
<1>1. /\ call.premium \in CallPremiums /\ costPercent \in CostPercents
      /\ minProtection \in Protections /\ \A k \in Collar!Strikes : putPremium[k] \in PutPremiums
  BY DEF CollarInv
<1>2. low \in Lowest..Highest /\ high \in Lowest..Highest /\ halved \in 0..Halvings
  BY DEF CollarInv
<1>3. call.premium \in Nat /\ costPercent \in Nat /\ minProtection \in Nat
  BY <1>1 DEF Collar!CollarAssumption
<1>4. \A k \in Collar!Strikes : putPremium[k] \in Nat
  BY <1>1 DEF Collar!CollarAssumption
<1>5. Lowest \in Nat /\ Highest \in Nat /\ Halvings \in Nat
  BY DEF Collar!CollarAssumption
<1> QED
  BY <1>2, <1>3, <1>4, <1>5

\* Of rising premiums the higher strike's is not the lower.
LEMMA Rising ==
    ASSUME Collar!CollarAssumption, CollarInv, Collar!RisingPremiums
    PROVE  \A k, m \in Collar!Strikes : k <= m => putPremium[k] <= putPremium[m]
<1> SUFFICES ASSUME NEW k \in Collar!Strikes, NEW x \in Collar!Strikes, k <= x,
                    ~(putPremium[k] <= putPremium[x])
             PROVE  FALSE
  OBVIOUS
<1> DEFINE S == {m \in Collar!Strikes : k <= m /\ ~(putPremium[k] <= putPremium[m])}
<1>1. S \subseteq Nat /\ x \in S
  BY StrikesAre
<1>2. PICK m \in S : \A n \in S : m <= n
  BY <1>1, LeastNumber
<1>3. putPremium[k] \in Nat /\ putPremium[m] \in Nat /\ m # k
  BY <1>2, PricesAre
<1>4. m - 1 \in Collar!Strikes /\ k <= m - 1 /\ (m - 1) + 1 = m
  BY <1>2, <1>3, StrikesAre
<1>5. putPremium[m - 1] \in Nat /\ putPremium[m - 1] <= putPremium[m]
  BY <1>4, PricesAre DEF Collar!RisingPremiums
<1>6. m - 1 \notin S
  BY <1>2, <1>4, StrikesAre
<1> QED
  BY <1>2, <1>3, <1>4, <1>5, <1>6

\* A strike below one that is within the limits is within them.
LEMMA WithinBelow ==
    ASSUME Collar!CollarAssumption, CollarInv, Collar!RisingPremiums,
           NEW k \in Collar!Strikes, NEW m \in Collar!Strikes, k <= m, Collar!Within(m)
    PROVE  Collar!Within(k)
<1>1. putPremium[k] <= putPremium[m] /\ putPremium[k] \in Nat /\ putPremium[m] \in Nat
  BY Rising, PricesAre
<1>2. k \in Nat /\ m \in Nat /\ Spot \in Nat /\ call.premium \in Nat
  BY StrikesAre, PricesAre
<1>3. PICK b : b = call.premium * costPercent
  OBVIOUS
<1>4. PICK c : c = minProtection * Spot
  OBVIOUS
<1>5. b \in Nat /\ c \in Nat
  BY <1>2, <1>3, <1>4, PricesAre
<1>6. 100 * (putPremium[m] - call.premium) <= b /\ 100 * (Spot - m) >= c
  BY <1>3, <1>4 DEF Collar!Within, Collar!NetCost
<1>7. 100 * (putPremium[k] - call.premium) <= b /\ 100 * (Spot - k) >= c
  BY <1>1, <1>2, <1>5, <1>6
<1> QED
  BY <1>3, <1>4, <1>7 DEF Collar!Within, Collar!NetCost

LEMMA HalveStep ==
    ASSUME Collar!CollarAssumption, CollarInv, Collar!Halve
    PROVE  CollarInv'
<1>0. PICK mid : mid = (low + high) \div 2
  OBVIOUS
<1>1. PICK width \in [0..Halvings -> 1..(Highest - Lowest)] :
        /\ width[0] = Highest - Lowest /\ width[Halvings] = 1
        /\ \A n \in 1..Halvings : width[n - 1] = 2 * width[n]
        /\ high - low = width[halved]
  BY DEF CollarInv, Halved
<1>2. /\ halved \in Nat /\ halved < Halvings /\ halved' = halved + 1
      /\ low \in Nat /\ high \in Nat /\ Lowest <= low /\ high <= Highest
      /\ low <= Highest /\ Lowest <= high
      /\ Lowest \in Nat /\ Highest \in Nat /\ Halvings \in Nat
  BY StrikesAre, PricesAre DEF Collar!Halve
<1>3. /\ halved + 1 \in 1..Halvings /\ (halved + 1) - 1 = halved
      /\ width[halved + 1] \in Nat /\ width[halved + 1] >= 1
  <2>1. halved + 1 \in 1..Halvings /\ halved + 1 \in 0..Halvings /\ (halved + 1) - 1 = halved
    BY <1>2
  <2>2. width[halved + 1] \in 1..(Highest - Lowest)
    BY <1>1, <2>1
  <2> QED
    BY <1>2, <2>1, <2>2
<1>4. high - low = 2 * width[halved + 1]
  BY <1>1, <1>3
<1>5. mid = low + width[halved + 1] /\ mid = high - width[halved + 1]
  <2>1. \A l, w \in Int : (l + (l + 2 * w)) \div 2 = l + w
    OBVIOUS
  <2>2. high = low + 2 * width[halved + 1]
    BY <1>2, <1>3, <1>4
  <2>3. mid = low + width[halved + 1]
    <3>1. PICK w \in Nat : w = width[halved + 1]
      BY <1>3
    <3>2. (low + (low + 2 * w)) \div 2 = low + w
      BY <1>2, <2>1
    <3> QED
      BY <1>0, <2>2, <3>1, <3>2
  <2> QED
    BY <1>2, <1>3, <2>2, <2>3, SMTT(30)
<1>6. mid \in Collar!Strikes /\ mid \in Nat
  BY <1>2, <1>3, <1>5, StrikesAre, SMTT(30)
<1>7. /\ call' = call /\ costPercent' = costPercent /\ minProtection' = minProtection
      /\ putPremium' = putPremium /\ verdict' = verdict /\ verdict = "searching"
  BY DEF Collar!Halve, Collar!arguments
<1>8. \A k : Collar!Within(k)' = Collar!Within(k)
  BY <1>7 DEF Collar!Within, Collar!NetCost
<1>9. \/ Collar!Within(mid) /\ put' = mid /\ low' = mid /\ high' = high
      \/ ~Collar!Within(mid) /\ high' = mid /\ low' = low /\ put' = put
  BY <1>0 DEF Collar!Halve
<1>10. high' - low' = width[halved']
  BY <1>2, <1>3, <1>5, <1>9
<1>11. Halved'
  BY <1>1, <1>10 DEF Halved
<1>12. low' \in Lowest..Highest /\ high' \in Lowest..Highest /\ halved' \in 0..Halvings
  <2>1. Lowest <= mid /\ mid <= Highest
    BY <1>6, StrikesAre
  <2>2. halved' \in 0..Halvings
    BY <1>2
  <2> QED
    BY <1>2, <1>6, <1>9, <2>1, <2>2
<1>13. CASE Collar!Within(mid)
  <2>1. put' = mid /\ low' = mid /\ high' = high
    BY <1>9, <1>13
  <2>2. Collar!Within(mid)'
    BY <1>7, <1>8, <1>13
  <2> QED
    BY <1>6, <1>7, <1>11, <1>12, <2>1, <2>2 DEF CollarInv, Collar!Within, Collar!NetCost
<1>14. CASE ~Collar!Within(mid)
  BY <1>6, <1>7, <1>9, <1>11, <1>12, <1>14 DEF CollarInv, Collar!Within, Collar!NetCost
<1> QED
  BY <1>13, <1>14

LEMMA CollarStep ==
    ASSUME Collar!CollarAssumption, CollarInv, Collar!Next
    PROVE  CollarInv'
<1>1. CASE Collar!NotOutOfTheMoney
  BY <1>1 DEF Collar!NotOutOfTheMoney, Collar!arguments, CollarInv, Halved, Collar!Within,
              Collar!NetCost
<1>2. CASE Collar!Conclude
  <2>1. PICK width \in [0..Halvings -> 1..(Highest - Lowest)] :
          width[Halvings] = 1 /\ high - low = width[halved]
    BY DEF CollarInv, Halved
  <2>2. high = low + 1
    <3>1. low \in Nat /\ high \in Nat /\ halved = Halvings
      BY <1>2, PricesAre DEF Collar!Conclude
    <3> QED
      BY <2>1, <3>1
  <2>3. /\ call' = call /\ costPercent' = costPercent /\ minProtection' = minProtection
        /\ putPremium' = putPremium /\ low' = low /\ high' = high /\ put' = put
        /\ halved' = halved
        /\ verdict' = IF put = Collar!NoPut THEN "no put" ELSE "collar"
    BY <1>2 DEF Collar!Conclude, Collar!arguments
  <2> QED
    BY <2>2, <2>3 DEF CollarInv, Halved, Collar!Within, Collar!NetCost
<1> QED
  BY <1>1, <1>2, HalveStep DEF Collar!Next

LEMMA CollarHolds ==
    ASSUME Collar!CollarAssumption, CollarInv
    PROVE  Collar!CollarSound
<1>1. verdict = "collar" => put \in Collar!Strikes /\ Collar!Within(put)
  BY DEF CollarInv
<1>2. ASSUME Collar!RisingPremiums, high = low + 1, NEW k \in Collar!Strikes, Collar!Within(k)
      PROVE  k <= low
  <2>0. k \in Nat /\ k < Highest /\ low \in Nat /\ high \in Nat /\ Highest \in Nat
    BY StrikesAre, PricesAre
  <2>1. CASE high = Highest
    BY <1>2, <2>0, <2>1
  <2>2. CASE high \in Collar!Strikes /\ ~Collar!Within(high)
    <3>1. ~(high <= k)
      BY <1>2, <2>2, WithinBelow
    <3> QED
      BY <1>2, <2>0, <3>1
  <2> QED
    BY <2>1, <2>2 DEF CollarInv
<1>3. verdict = "collar" /\ Collar!RisingPremiums =>
        \A k \in Collar!Strikes : Collar!Within(k) => k <= put
  BY <1>2 DEF CollarInv
<1>4. verdict = "no put" /\ Collar!RisingPremiums => \A k \in Collar!Strikes : ~Collar!Within(k)
  <2>1. verdict = "no put" => low = Lowest /\ high = low + 1
    BY StrikesAre DEF CollarInv
  <2>2. \A k \in Collar!Strikes : k \in Nat /\ Lowest \in Nat /\ ~(k <= Lowest)
    BY StrikesAre
  <2> QED
    BY <1>2, <2>1, <2>2
<1>5. ASSUME verdict = "collar", costPercent = 0, minProtection >= 10
      PROVE  100 * (Spot - put) >= 10 * Spot /\ 100 * Collar!NetCost(put) <= 2 * Spot
  <2>1. put \in Collar!Strikes /\ Collar!Within(put) /\ put \in Nat
    BY <1>1, <1>5, StrikesAre
  <2>2. PICK a \in Nat : a = call.premium
    BY PricesAre
  <2>3. PICK n \in Nat : n = putPremium[put]
    BY <2>1, PricesAre
  <2>4. a * 0 = 0 /\ minProtection \in Nat
    BY <2>2, PricesAre
  <2>5. 100 * (n - a) <= 0 /\ 100 * (Spot - put) >= minProtection * Spot
    BY <1>5, <2>1, <2>2, <2>3, <2>4 DEF Collar!Within, Collar!NetCost
  <2>6. minProtection * Spot >= 10 * Spot
    <3>1. (minProtection - 10) * Spot >= 0
      BY <1>5, <2>4, StrikesAre
    <3>2. (minProtection - 10) * Spot = minProtection * Spot - 10 * Spot
      BY <2>4, StrikesAre
    <3>3. minProtection * Spot \in Int
      BY <2>4, StrikesAre
    <3> QED
      BY <3>1, <3>2, <3>3, StrikesAre
  <2>7. 100 * (Spot - put) >= 10 * Spot
    <3>1. PICK c \in Int : c = minProtection * Spot
      BY <2>4, StrikesAre
    <3> QED
      BY <2>1, <2>5, <2>6, <3>1, StrikesAre
  <2>8. 100 * (n - a) <= 2 * Spot
    BY <2>5, <2>2, <2>3, StrikesAre, SMTT(30)
  <2> QED
    BY <2>2, <2>3, <2>7, <2>8 DEF Collar!NetCost
<1>6. verdict = "collar" /\ costPercent = 0 /\ minProtection >= 10 =>
        (Collar!Compliant <=> Collar!UpsideCovered)
  BY <1>5 DEF Collar!Compliant
<1> QED
  BY <1>1, <1>3, <1>4, <1>6 DEF Collar!CollarSound

\* What the proof of CollarsSound goes by, in every state.
LEMMA CollarKept ==
    ASSUME Collar!CollarAssumption PROVE Collar!Spec => []CollarInv
<1>1. Collar!Init => CollarInv
  <2> SUFFICES ASSUME Collar!Init PROVE CollarInv
    OBVIOUS
  <2>1. Halved
    <3>1. PICK width \in [0..Halvings -> 1..(Highest - Lowest)] :
            /\ width[0] = Highest - Lowest /\ width[Halvings] = 1
            /\ \A n \in 1..Halvings : width[n - 1] = 2 * width[n]
      BY DEF Collar!CollarAssumption
    <3>2. high - low = width[halved]
      BY <3>1 DEF Collar!Init
    <3> QED
      BY <3>1, <3>2 DEF Halved
  <2> QED
    BY <2>1, StrikesAre DEF Collar!Init, CollarInv
<1>2. CollarInv /\ [Collar!Next]_Collar!vars => CollarInv'
  <2>1. ASSUME CollarInv, UNCHANGED Collar!vars PROVE CollarInv'
    BY <2>1 DEF CollarInv, Halved, Collar!vars, Collar!arguments, Collar!Within, Collar!NetCost
  <2> QED
    BY <2>1, CollarStep
<1> QED
  BY <1>1, <1>2, PTL DEF Collar!Spec

\* Lines 62-112: for any width of the interval and any pricing, the put of a
\* collar is within both limits; if puts cost more the higher their strike, it is
\* the highest such and is found if there is one.
THEOREM CollarsSound ==
    ASSUME Collar!CollarAssumption PROVE Collar!Spec => []Collar!CollarSound
<1>1. CollarInv => Collar!CollarSound
  BY CollarHolds
<1> QED
  BY <1>1, CollarKept, PTL

-----------------------------------------------------------------------------
(* The segment tree. *)

\* What the tree and its leaves are indexed by.
LEMMA TreeSizes ==
    ASSUME Tree!TreeAssumption
    PROVE  /\ N \in Nat /\ N >= 1 /\ Tree!Nodes = 0..(2 * N - 1) /\ Tree!Leaves = 0..(N - 1)
           /\ \A x \in Values : x \in Int
BY DEF Tree!TreeAssumption, Tree!Nodes, Tree!Leaves

\* The row of a tree whose inner nodes hold the larger of their children.
Cell(h, f, x, k) ==
    IF k = 0 THEN x ELSE IF k >= N THEN f[k - N]
    ELSE Tree!Larger(h[2 * k], h[2 * k + 1])

Built(h, f, x) == h = [k \in Tree!Nodes |-> Cell(h, f, x, k)]

\* The recursion of build, from the last node down, has a solution.
LEMMA BuildExists ==
    ASSUME Tree!TreeAssumption, NEW f, NEW x
    PROVE  \E h : Built(h, f, x)
<1> DEFINE Upto(h, n) == \A k \in Tree!Nodes : k >= n => h[k] = Cell(h, f, x, k)
           S == {n \in 0..(2 * N) : \E h : h = [k \in Tree!Nodes |-> h[k]] /\ Upto(h, n)}
<1>1. 2 * N \in S
  <2>1. [k \in Tree!Nodes |-> 0] = [k \in Tree!Nodes |-> [j \in Tree!Nodes |-> 0][k]]
    OBVIOUS
  <2>2. Upto([k \in Tree!Nodes |-> 0], 2 * N)
    BY TreeSizes
  <2>3. 2 * N \in 0..(2 * N)
    BY TreeSizes
  <2> HIDE DEF Upto
  <2> QED
    BY <2>1, <2>2, <2>3
<1>2. S \subseteq Nat
  BY TreeSizes
<1>3. PICK n \in S : \A m \in S : n <= m
  <2> HIDE DEF S
  <2> QED
    BY <1>1, <1>2, LeastNumber
<1>4. PICK h : h = [k \in Tree!Nodes |-> h[k]] /\ Upto(h, n)
  BY <1>3
<1>5. n \in 0..(2 * N) /\ N \in Nat
  BY <1>3, TreeSizes
<1>6. CASE n = 0
  <2>1. \A k \in Tree!Nodes : h[k] = Cell(h, f, x, k)
    BY <1>4, <1>6, TreeSizes
  <2>2. h = [k \in Tree!Nodes |-> Cell(h, f, x, k)]
    <3> HIDE DEF Upto
    <3> QED
      BY <1>4, <2>1
  <2> QED
    BY <2>2 DEF Built
<1>7. CASE n # 0
  <2> DEFINE g == [h EXCEPT ![n - 1] = Cell(h, f, x, n - 1)]
  <2>1. n - 1 \in Tree!Nodes /\ n - 1 \in 0..(2 * N)
    BY <1>5, <1>7, TreeSizes
  <2>2. /\ g = [k \in Tree!Nodes |-> g[k]]
        /\ g[n - 1] = Cell(h, f, x, n - 1)
        /\ \A k \in Tree!Nodes : k # n - 1 => g[k] = h[k]
    BY <1>4, <2>1
  <2> HIDE DEF g
  <2>3. ASSUME NEW k \in Tree!Nodes, k >= n - 1 PROVE Cell(g, f, x, k) = Cell(h, f, x, k)
    <3>1. CASE k = 0 \/ k >= N
      BY <3>1 DEF Cell
    <3>2. CASE ~(k = 0 \/ k >= N)
      <4>1. 2 * k \in Tree!Nodes /\ 2 * k + 1 \in Tree!Nodes /\ 2 * k # n - 1 /\ 2 * k + 1 # n - 1
        BY <1>5, <2>3, <3>2, TreeSizes
      <4> QED
        BY <2>2, <4>1 DEF Cell
    <3> QED
      BY <3>1, <3>2
  <2>4. Upto(g, n - 1)
    <3> SUFFICES ASSUME NEW k \in Tree!Nodes, k >= n - 1 PROVE g[k] = Cell(g, f, x, k)
      OBVIOUS
    <3>1. CASE k = n - 1
      BY <2>2, <2>3, <3>1
    <3>2. CASE k # n - 1
      <4>1. k >= n /\ g[k] = h[k]
        BY <1>5, <2>2, <3>2, TreeSizes
      <4>2. h[k] = Cell(h, f, x, k)
        BY <1>4, <4>1
      <4> QED
        BY <2>3, <4>1, <4>2
    <3> QED
      BY <3>1, <3>2
  <2>5. n - 1 \in S
    <3> HIDE DEF Upto
    <3> QED
      BY <2>1, <2>2, <2>4
  <2>6. n <= n - 1
    <3> HIDE DEF S
    <3> QED
      BY <1>3, <2>5
  <2> QED
    BY <1>5, <2>6
<1> QED
  BY <1>6, <1>7

\* Build writes the tree of its leaves.
LEMMA BuildIs ==
    ASSUME Tree!TreeAssumption, Tree!Build
    PROVE  /\ tree' = [k \in Tree!Nodes |-> tree'[k]]
           /\ \A k \in Tree!Nodes : tree'[k] = Cell(tree', leaves', tree[0], k)
<1> DEFINE B(h) == h = [k \in Tree!Nodes |->
                     IF k = 0 THEN tree[0]
                     ELSE IF k >= N THEN leaves'[k - N]
                     ELSE Tree!Larger(h[2 * k], h[2 * k + 1])]
<1>1. tree' = CHOOSE h : B(h)
  BY Zenon DEF Tree!Build
<1>2. \A h : B(h) <=> Built(h, leaves', tree[0])
  BY DEF Built, Cell
<1>3. \E h : B(h)
  <2>1. \E h : Built(h, leaves', tree[0])
    BY BuildExists
  <2> HIDE DEF B
  <2> QED
    BY <1>2, <2>1
<1>4. B(tree')
  <2> HIDE DEF B
  <2> QED
    BY <1>1, <1>3
<1>5. Built(tree', leaves', tree[0])
  <2> HIDE DEF B
  <2> QED
    BY <1>2, <1>4
<1> QED
  BY <1>5 DEF Built

-----------------------------------------------------------------------------
\* The recursion of Path, upwards.
Climbs(u) == u = [j \in Tree!Nodes |-> IF j <= 1 THEN {j} ELSE {j} \cup u[j \div 2]]

LEMMA ClimbExists ==
    ASSUME Tree!TreeAssumption
    PROVE  \E u : Climbs(u)
<1> DEFINE Right(u, j) == u[j] = IF j <= 1 THEN {j} ELSE {j} \cup u[j \div 2]
           Below(u, n) == \A j \in Tree!Nodes : j < n => Right(u, j)
           S == {n \in 0..(2 * N) : ~\E u : u = [j \in Tree!Nodes |-> u[j]] /\ Below(u, n)}
<1>1. S \subseteq Nat
  BY TreeSizes
<1>2. CASE 2 * N \notin S
  <2>1. 2 * N \in 0..(2 * N)
    BY TreeSizes
  <2>2. PICK u : u = [j \in Tree!Nodes |-> u[j]] /\ Below(u, 2 * N)
    <3> HIDE DEF Below
    <3> QED
      BY <1>2, <2>1
  <2>3. \A j \in Tree!Nodes : Right(u, j)
    BY <2>2, TreeSizes
  <2>4. u = [j \in Tree!Nodes |-> IF j <= 1 THEN {j} ELSE {j} \cup u[j \div 2]]
    BY <2>2, <2>3
  <2> QED
    BY <2>4 DEF Climbs
<1>3. CASE 2 * N \in S
  <2>1. PICK n \in S : \A m \in S : n <= m
    <3> HIDE DEF S
    <3> QED
      BY <1>1, <1>3, LeastNumber
  <2>2. n \in 0..(2 * N) /\ n # 0 /\ N \in Nat
    <3>1. \E u : u = [j \in Tree!Nodes |-> u[j]] /\ Below(u, 0)
      <4>1. [j \in Tree!Nodes |-> {}] = [j \in Tree!Nodes |-> [i \in Tree!Nodes |-> {}][j]]
        OBVIOUS
      <4>2. Below([j \in Tree!Nodes |-> {}], 0)
        BY TreeSizes
      <4> HIDE DEF Below
      <4> QED
        BY <4>1, <4>2
    <3>2. n \in 0..(2 * N) /\ ~\E u : u = [j \in Tree!Nodes |-> u[j]] /\ Below(u, n)
      <4> HIDE DEF Below
      <4> QED
        BY <2>1
    <3> HIDE DEF Below
    <3> QED
      BY <3>1, <3>2, TreeSizes
  <2>3. n - 1 \in Tree!Nodes /\ n - 1 \in 0..(2 * N) /\ n - 1 < n
    BY <2>2, TreeSizes
  <2>4. n - 1 \notin S
    <3> HIDE DEF S
    <3> QED
      BY <2>1, <2>2, <2>3
  <2>5. PICK u : u = [j \in Tree!Nodes |-> u[j]] /\ Below(u, n - 1)
    <3> HIDE DEF Below
    <3> QED
      BY <2>3, <2>4
  <2> DEFINE w == [u EXCEPT ![n - 1] = IF n - 1 <= 1 THEN {n - 1}
                                       ELSE {n - 1} \cup u[(n - 1) \div 2]]
  <2>6. /\ w = [j \in Tree!Nodes |-> w[j]]
        /\ w[n - 1] = IF n - 1 <= 1 THEN {n - 1} ELSE {n - 1} \cup u[(n - 1) \div 2]
        /\ \A j \in Tree!Nodes : j # n - 1 => w[j] = u[j]
    BY <2>3, <2>5
  <2> HIDE DEF w
  <2>7. Below(w, n)
    <3> SUFFICES ASSUME NEW j \in Tree!Nodes, j < n PROVE Right(w, j)
      OBVIOUS
    <3>1. CASE j = n - 1
      <4>1. w[j] = IF j <= 1 THEN {j} ELSE {j} \cup u[j \div 2]
        BY <2>6, <3>1
      <4>2. CASE j <= 1
        BY <4>1, <4>2
      <4>3. CASE ~(j <= 1)
        <5>1. PICK i : i = j \div 2
          OBVIOUS
        <5>2. i \in Tree!Nodes /\ i # n - 1
          BY <2>2, <3>1, <4>3, <5>1, TreeSizes
        <5>3. w[i] = u[i]
          BY <2>6, <5>2
        <5> QED
          BY <4>1, <4>3, <5>1, <5>3
      <4> QED
        BY <4>2, <4>3
    <3>2. CASE j # n - 1
      <4>1. j < n - 1 /\ j \in Nat
        BY <2>2, <3>2, TreeSizes
      <4>2. Right(u, j)
        BY <2>5, <4>1
      <4>3. j > 1 => j \div 2 \in Tree!Nodes /\ j \div 2 # n - 1
        BY <2>2, <4>1, TreeSizes
      <4> QED
        BY <2>6, <3>2, <4>1, <4>2, <4>3
    <3> QED
      BY <3>1, <3>2
  <2>8. n \notin S
    <3> HIDE DEF Below
    <3> QED
      BY <2>6, <2>7
  <2> HIDE DEF S
  <2> QED
    BY <2>1, <2>8
<1> QED
  BY <1>2, <1>3

\* A node and its ancestors: with each but the first a child is on the path, with
\* each but the root its parent, and no two are siblings.
Ancestry(P, j) ==
    /\ j \in P /\ \A x \in P : x \in Nat /\ 1 <= x /\ x <= j
    /\ \A x \in P : x # j => \E c \in P : c \div 2 = x /\ c # x
    /\ \A x \in P : x > 1 => x \div 2 \in P
    /\ \A x, y \in P : x = y \/ 2 * x <= y \/ 2 * y <= x

LEMMA PathIs ==
    ASSUME Tree!TreeAssumption, NEW k \in Tree!Nodes, k >= 1
    PROVE  Ancestry(Tree!Path(k), k)
<1>1. PICK u : Climbs(u) /\ Tree!Path(k) = u[k]
  <2>1. Tree!Path(k) = (CHOOSE u : Climbs(u))[k]
    BY Zenon DEF Tree!Path, Climbs
  <2>2. Climbs(CHOOSE u : Climbs(u))
    BY ClimbExists
  <2> QED
    BY <2>1, <2>2
<1> DEFINE S == {j \in Tree!Nodes : j >= 1 /\ ~Ancestry(u[j], j)}
<1>2. SUFFICES ASSUME S # {} PROVE FALSE
  BY <1>1
<1>3. S \subseteq Nat
  BY TreeSizes
<1>4. PICK j \in S : \A i \in S : j <= i
  <2> HIDE DEF S
  <2> QED
    BY <1>2, <1>3, LeastNumber
<1>5. j \in Nat /\ j >= 1 /\ j \in Tree!Nodes /\ ~Ancestry(u[j], j)
  BY <1>4, TreeSizes
<1>6. CASE j = 1
  <2>1. u[j] = {1}
    BY <1>1, <1>5, <1>6 DEF Climbs
  <2> QED
    BY <1>5, <1>6, <2>1 DEF Ancestry
<1>7. CASE j > 1
  <2>1. PICK i \in Nat : i = j \div 2
    BY <1>5
  <2>2. /\ 1 <= i /\ i < j /\ i \in Tree!Nodes /\ 2 * i <= j
    BY <1>5, <1>7, <2>1, TreeSizes
  <2>3. Ancestry(u[i], i)
    <3>1. i \notin S
      <4> HIDE DEF S
      <4> QED
        BY <1>4, <1>5, <2>2
    <3> QED
      BY <2>2, <3>1
  <2>4. u[j] = {j} \cup u[i]
    <3>1. u[j] = IF j <= 1 THEN {j} ELSE {j} \cup u[j \div 2]
      BY <1>1, <1>5 DEF Climbs
    <3>2. ~(j <= 1)
      BY <1>7, <1>5
    <3>3. u[j \div 2] = u[i]
      BY <2>1
    <3> QED
      BY <3>1, <3>2, <3>3
  <2>5. \A x \in u[j] : x = j \/ x \in u[i]
    BY <2>4
  <2>6. j \in u[j] /\ \A x \in u[i] : x \in u[j]
    BY <2>4
  <2>7. \A x \in u[i] : x \in Nat /\ 1 <= x /\ x <= i /\ 2 * x <= j
    BY <2>2, <2>3, <1>5 DEF Ancestry
  <2>8. \A x \in u[j] : x # j => \E c \in u[j] : c \div 2 = x /\ c # x
    <3> SUFFICES ASSUME NEW x \in u[j], x # j PROVE \E c \in u[j] : c \div 2 = x /\ c # x
      OBVIOUS
    <3>1. x \in u[i]
      BY <2>5
    <3>2. CASE x = i
      BY <2>1, <2>2, <2>6, <3>2
    <3>3. CASE x # i
      BY <2>3, <2>6, <3>1, <3>3 DEF Ancestry
    <3> QED
      BY <3>2, <3>3
  <2>9. \A x \in u[j] : x > 1 => x \div 2 \in u[j]
    BY <2>1, <2>3, <2>5, <2>6 DEF Ancestry
  <2>10. \A x, y \in u[j] : x = y \/ 2 * x <= y \/ 2 * y <= x
    BY <2>3, <2>5, <2>7 DEF Ancestry
  <2>11. \A x \in u[j] : x \in Nat /\ 1 <= x /\ x <= j
    BY <1>5, <2>2, <2>5, <2>7
  <2> QED
    BY <1>5, <2>6, <2>8, <2>9, <2>10, <2>11 DEF Ancestry
<1> QED
  BY <1>5, <1>6, <1>7

-----------------------------------------------------------------------------
\* The recursion of update: up the path P from the leaf q, which becomes v.
Child(P, k) == CHOOSE c \in P : c \div 2 = k /\ c # k

Redone(h, t, P, q, v, k) ==
    IF k = q THEN v
    ELSE IF k \in P THEN Tree!Larger(h[Child(P, k)], t[Tree!Sibling(Child(P, k))])
    ELSE t[k]

Rebuilt(h, t, P, q, v) == h = [k \in Tree!Nodes |-> Redone(h, t, P, q, v, k)]

LEMMA ChildIs ==
    ASSUME NEW P, NEW q, Ancestry(P, q), NEW k \in P, k # q
    PROVE  /\ Child(P, k) \in P
           /\ Child(P, k) \in Nat /\ k \in Nat /\ 1 <= k /\ k < Child(P, k) /\ Child(P, k) <= q
           /\ Child(P, k) = 2 * k \/ Child(P, k) = 2 * k + 1
<1>1. \E c \in P : c \div 2 = k /\ c # k
  BY DEF Ancestry
<1>2. PICK c \in P : c \div 2 = k /\ c # k /\ c = Child(P, k)
  BY <1>1 DEF Child
<1>3. c \in Nat /\ c <= q /\ k \in Nat /\ 1 <= k
  BY <1>2 DEF Ancestry
<1>4. k < c /\ (c = 2 * k \/ c = 2 * k + 1)
  BY <1>2, <1>3
<1> QED
  BY <1>2, <1>3, <1>4

LEMMA UpdateExists ==
    ASSUME Tree!TreeAssumption, NEW t, NEW v, NEW P, NEW q \in Tree!Nodes, Ancestry(P, q)
    PROVE  \E h : Rebuilt(h, t, P, q, v)
<1> DEFINE Upto(h, n) == \A k \in Tree!Nodes : k >= n => h[k] = Redone(h, t, P, q, v, k)
           S == {n \in 0..(2 * N) : \E h : h = [k \in Tree!Nodes |-> h[k]] /\ Upto(h, n)}
<1>1. 2 * N \in S
  <2>1. [k \in Tree!Nodes |-> 0] = [k \in Tree!Nodes |-> [j \in Tree!Nodes |-> 0][k]]
    OBVIOUS
  <2>2. Upto([k \in Tree!Nodes |-> 0], 2 * N)
    BY TreeSizes
  <2>3. 2 * N \in 0..(2 * N)
    BY TreeSizes
  <2> HIDE DEF Upto
  <2> QED
    BY <2>1, <2>2, <2>3
<1>2. S \subseteq Nat
  BY TreeSizes
<1>3. PICK n \in S : \A m \in S : n <= m
  <2> HIDE DEF S
  <2> QED
    BY <1>1, <1>2, LeastNumber
<1>4. PICK h : h = [k \in Tree!Nodes |-> h[k]] /\ Upto(h, n)
  BY <1>3
<1>5. n \in 0..(2 * N) /\ N \in Nat
  BY <1>3, TreeSizes
<1>6. CASE n = 0
  <2>1. \A k \in Tree!Nodes : h[k] = Redone(h, t, P, q, v, k)
    BY <1>4, <1>6, TreeSizes
  <2>2. h = [k \in Tree!Nodes |-> Redone(h, t, P, q, v, k)]
    <3> HIDE DEF Upto
    <3> QED
      BY <1>4, <2>1
  <2> QED
    BY <2>2 DEF Rebuilt
<1>7. CASE n # 0
  <2> DEFINE g == [h EXCEPT ![n - 1] = Redone(h, t, P, q, v, n - 1)]
  <2>1. n - 1 \in Tree!Nodes /\ n - 1 \in 0..(2 * N)
    BY <1>5, <1>7, TreeSizes
  <2>2. /\ g = [k \in Tree!Nodes |-> g[k]]
        /\ g[n - 1] = Redone(h, t, P, q, v, n - 1)
        /\ \A k \in Tree!Nodes : k # n - 1 => g[k] = h[k]
    BY <1>4, <2>1
  <2> HIDE DEF g
  <2>3. ASSUME NEW k \in Tree!Nodes, k >= n - 1
        PROVE  Redone(g, t, P, q, v, k) = Redone(h, t, P, q, v, k)
    <3>1. CASE k = q \/ k \notin P
      BY <3>1 DEF Redone
    <3>2. CASE ~(k = q \/ k \notin P)
      <4>1. Child(P, k) \in Nat /\ k < Child(P, k) /\ Child(P, k) <= q
        BY <3>2, ChildIs
      <4>2. Child(P, k) \in Tree!Nodes /\ Child(P, k) # n - 1
        BY <1>5, <2>3, <4>1, TreeSizes
      <4> QED
        BY <2>2, <4>2 DEF Redone
    <3> QED
      BY <3>1, <3>2
  <2>4. Upto(g, n - 1)
    <3> SUFFICES ASSUME NEW k \in Tree!Nodes, k >= n - 1
                 PROVE  g[k] = Redone(g, t, P, q, v, k)
      OBVIOUS
    <3>1. CASE k = n - 1
      BY <2>2, <2>3, <3>1
    <3>2. CASE k # n - 1
      <4>1. k >= n /\ g[k] = h[k]
        BY <1>5, <2>2, <3>2, TreeSizes
      <4>2. h[k] = Redone(h, t, P, q, v, k)
        BY <1>4, <4>1
      <4> QED
        BY <2>3, <4>1, <4>2
    <3> QED
      BY <3>1, <3>2
  <2>5. n - 1 \in S
    <3> HIDE DEF Upto
    <3> QED
      BY <2>1, <2>2, <2>4
  <2>6. n <= n - 1
    <3> HIDE DEF S
    <3> QED
      BY <1>3, <2>5
  <2> QED
    BY <1>5, <2>6
<1> QED
  BY <1>6, <1>7

\* Update rewrites the path of the leaf it sets.
LEMMA UpdateIs ==
    ASSUME Tree!TreeAssumption, Tree!Update
    PROVE  \E p \in Tree!Leaves, v \in Values :
             /\ leaves' = [leaves EXCEPT ![p] = v]
             /\ Ancestry(Tree!Path(p + N), p + N)
             /\ tree' = [k \in Tree!Nodes |-> tree'[k]]
             /\ \A k \in Tree!Nodes :
                  tree'[k] = Redone(tree', tree, Tree!Path(p + N), p + N, v, k)
<1> DEFINE B(h, p, v) == h = [k \in Tree!Nodes |->
                 IF k = p + N THEN v
                 ELSE IF k \in Tree!Path(p + N)
                      THEN Tree!Larger(h[CHOOSE c \in Tree!Path(p + N) : c \div 2 = k /\ c # k],
                                  tree[Tree!Sibling(CHOOSE c \in Tree!Path(p + N) :
                                                      c \div 2 = k /\ c # k)])
                      ELSE tree[k]]
<1>1. PICK p \in Tree!Leaves, v \in Values :
        leaves' = [leaves EXCEPT ![p] = v] /\ tree' = CHOOSE h : B(h, p, v)
  BY Zenon DEF Tree!Update
<1>2. p + N \in Tree!Nodes /\ p + N >= 1
  BY TreeSizes
<1>3. Ancestry(Tree!Path(p + N), p + N)
  BY <1>2, PathIs
<1>4. \A h : B(h, p, v) <=> Rebuilt(h, tree, Tree!Path(p + N), p + N, v)
  BY Zenon DEF Rebuilt, Redone, Child
<1>5. \E h : B(h, p, v)
  <2>1. \E h : Rebuilt(h, tree, Tree!Path(p + N), p + N, v)
    BY <1>2, <1>3, UpdateExists
  <2> HIDE DEF B
  <2> QED
    BY <1>4, <2>1
<1>6. B(tree', p, v)
  <2> HIDE DEF B
  <2> QED
    BY <1>1, <1>5
<1>7. Rebuilt(tree', tree, Tree!Path(p + N), p + N, v)
  <2> HIDE DEF B
  <2> QED
    BY <1>4, <1>6
<1>8. \A k \in Tree!Nodes : tree'[k] = Redone(tree', tree, Tree!Path(p + N), p + N, v, k)
  BY Zenon, <1>7 DEF Rebuilt
<1>9. tree' = [k \in Tree!Nodes |-> tree'[k]]
  BY Zenon, <1>7 DEF Rebuilt
<1> QED
  BY <1>1, <1>3, <1>8, <1>9

-----------------------------------------------------------------------------
\* Every leaf in its place, and every inner node the larger of its children.
TreeInv ==
    /\ tree \in [Tree!Nodes -> Values \cup {0}] /\ leaves \in [Tree!Leaves -> Values \cup {0}]
    /\ \A p \in Tree!Leaves : tree[p + N] = leaves[p]
    /\ \A k \in 1..(N - 1) : tree[k] = Tree!Larger(tree[2 * k], tree[2 * k + 1])

\* What is not in a set of nodes has a largest.
LEMMA LastNode ==
    ASSUME Tree!TreeAssumption, NEW S, \A k \in S : k \in Tree!Nodes, S # {}
    PROVE  \E m \in S : \A k \in Tree!Nodes : k > m => k \notin S
<1>1. 2 * N \in Int /\ (\A k \in S : k \in Int /\ k <= 2 * N) /\ \A k \in Tree!Nodes : k \in Int
  BY TreeSizes
<1>2. PICK m \in S : \A k \in S : k <= m
  <2>1. S \subseteq Int
    BY <1>1
  <2> QED
    BY <1>1, <2>1, Largest
<1>3. \A k \in Tree!Nodes : k > m => ~(k <= m)
  BY <1>1
<1> QED
  BY <1>2, <1>3

LEMMA BuildKeeps ==
    ASSUME Tree!TreeAssumption, TreeInv, Tree!Build
    PROVE  TreeInv'
<1> DEFINE Held == Values \cup {0}
           Bad == {k \in Tree!Nodes : tree'[k] \notin Held}
<1>1. /\ tree' = [k \in Tree!Nodes |-> tree'[k]]
      /\ \A k \in Tree!Nodes : tree'[k] = Cell(tree', leaves', tree[0], k)
  BY BuildIs
<1>2. leaves' \in [Tree!Leaves -> Values]
  BY DEF Tree!Build
<1>3. Bad = {}
  <2>1. SUFFICES ASSUME Bad # {} PROVE FALSE
    OBVIOUS
  <2>2. PICK k \in Bad : \A j \in Tree!Nodes : j > k => j \notin Bad
    <3>1. \A j \in Bad : j \in Tree!Nodes
      OBVIOUS
    <3> HIDE DEF Bad
    <3> QED
      BY <2>1, <3>1, LastNode
  <2>3. k \in Tree!Nodes /\ tree'[k] \notin Held /\ tree'[k] = Cell(tree', leaves', tree[0], k)
    BY <1>1, <2>2
  <2>4. CASE k = 0
    <3>1. tree[0] \in Held
      BY TreeSizes DEF TreeInv
    <3> QED
      BY <2>3, <2>4, <3>1 DEF Cell
  <2>5. CASE k >= N
    <3>1. k - N \in Tree!Leaves /\ k # 0
      BY <2>3, <2>5, TreeSizes
    <3>2. leaves'[k - N] \in Held
      BY <1>2, <3>1
    <3> QED
      BY <2>3, <2>5, <3>1, <3>2 DEF Cell
  <2>6. CASE ~(k = 0 \/ k >= N)
    <3>1. /\ 2 * k \in Tree!Nodes /\ 2 * k + 1 \in Tree!Nodes /\ 2 * k > k /\ 2 * k + 1 > k
      BY <2>3, <2>6, TreeSizes
    <3>2. tree'[2 * k] \in Held /\ tree'[2 * k + 1] \in Held
      BY <2>2, <3>1
    <3> QED
      BY <2>3, <2>6, <3>2 DEF Cell, Tree!Larger
  <2> QED
    BY <2>4, <2>5, <2>6
<1>4. tree' \in [Tree!Nodes -> Held]
  <2>1. \A k \in Tree!Nodes : tree'[k] \in Held
    BY <1>3
  <2> QED
    BY <1>1, <2>1
<1>5. leaves' \in [Tree!Leaves -> Held]
  BY <1>2
<1>6. ASSUME NEW p \in Tree!Leaves PROVE tree'[p + N] = leaves'[p]
  <2>1. p + N \in Tree!Nodes /\ p + N # 0 /\ p + N >= N /\ (p + N) - N = p
    BY <1>6, TreeSizes
  <2> QED
    BY <1>1, <2>1 DEF Cell
<1>7. ASSUME NEW k \in 1..(N - 1) PROVE tree'[k] = Tree!Larger(tree'[2 * k], tree'[2 * k + 1])
  <2>1. k \in Tree!Nodes /\ k # 0 /\ ~(k >= N)
    BY <1>7, TreeSizes
  <2> QED
    BY <1>1, <2>1 DEF Cell
<1> QED
  BY <1>4, <1>5, <1>6, <1>7 DEF TreeInv

LEMMA LargerEither ==
    ASSUME NEW x \in Int, NEW y \in Int
    PROVE  Tree!Larger(x, y) = Tree!Larger(y, x)
BY DEF Tree!Larger

\* The two children of a node on the path of q: the one below it, on the path
\* too, and its sibling, which is not.
LEMMA Siblings ==
    ASSUME Tree!TreeAssumption, NEW P, NEW q \in Tree!Nodes, Ancestry(P, q), NEW k \in P, k # q
    PROVE  LET c == Child(P, k)   d == Tree!Sibling(Child(P, k))
           IN /\ c \in Tree!Nodes /\ d \in Tree!Nodes /\ k \in 1..(N - 1) /\ c > k
              /\ d \notin P
              /\ (c = 2 * k /\ d = 2 * k + 1) \/ (c = 2 * k + 1 /\ d = 2 * k)
<1>1. PICK c : c = Child(P, k)
  OBVIOUS
<1>2. /\ c \in P /\ c \in Nat /\ k \in Nat /\ 1 <= k /\ k < c /\ c <= q
      /\ c = 2 * k \/ c = 2 * k + 1
  BY <1>1, ChildIs
<1>3. PICK d : d = Tree!Sibling(c)
  OBVIOUS
<1>4. (c = 2 * k /\ d = 2 * k + 1) \/ (c = 2 * k + 1 /\ d = 2 * k)
  BY <1>2, <1>3 DEF Tree!Sibling
<1>5. c \in Tree!Nodes /\ d \in Tree!Nodes /\ k \in 1..(N - 1) /\ c > k
  BY <1>2, <1>4, TreeSizes
<1>6. d \notin P
  <2>1. ASSUME d \in P PROVE FALSE
    <3>1. c = d \/ 2 * c <= d \/ 2 * d <= c
      BY <1>2, <2>1 DEF Ancestry
    <3> QED
      BY <1>2, <1>4, <3>1
  <2> QED
    BY <2>1
<1> QED
  BY <1>1, <1>3, <1>4, <1>5, <1>6

LEMMA UpdateKeeps ==
    ASSUME Tree!TreeAssumption, TreeInv, Tree!Update
    PROVE  TreeInv'
<1> DEFINE Held == Values \cup {0}
           Bad == {k \in Tree!Nodes : tree'[k] \notin Held}
<1>1. PICK p \in Tree!Leaves, v \in Values :
             /\ leaves' = [leaves EXCEPT ![p] = v]
             /\ Ancestry(Tree!Path(p + N), p + N)
             /\ tree' = [k \in Tree!Nodes |-> tree'[k]]
             /\ \A k \in Tree!Nodes :
                  tree'[k] = Redone(tree', tree, Tree!Path(p + N), p + N, v, k)
  BY UpdateIs
<1>2. PICK q, P : q = p + N /\ P = Tree!Path(p + N)
  OBVIOUS
<1>3. q \in Tree!Nodes /\ q >= N /\ Ancestry(P, q)
  BY <1>1, <1>2, TreeSizes
<1>4. \A k \in Tree!Nodes : tree'[k] = Redone(tree', tree, P, q, v, k)
  BY <1>1, <1>2
<1>5. q \in P /\ \A x \in P : x > 1 => x \div 2 \in P
  BY <1>3 DEF Ancestry
<1>6. /\ tree'[q] = v
      /\ \A k \in Tree!Nodes : k \notin P => tree'[k] = tree[k]
      /\ \A k \in Tree!Nodes : k \in P /\ k # q =>
            tree'[k] = Tree!Larger(tree'[Child(P, k)], tree[Tree!Sibling(Child(P, k))])
  BY <1>3, <1>4, <1>5 DEF Redone
<1>7. \A k \in Tree!Nodes : tree[k] \in Held
  BY DEF TreeInv
<1>8. Bad = {}
  <2>1. SUFFICES ASSUME Bad # {} PROVE FALSE
    OBVIOUS
  <2>2. PICK k \in Bad : \A j \in Tree!Nodes : j > k => j \notin Bad
    <3>1. \A j \in Bad : j \in Tree!Nodes
      OBVIOUS
    <3> HIDE DEF Bad
    <3> QED
      BY <2>1, <3>1, LastNode
  <2>3. k \in Tree!Nodes /\ tree'[k] \notin Held
    BY <2>2
  <2>4. k \in P /\ k # q
    BY <1>6, <1>7, <2>3
  <2>5. PICK c, d : /\ c = Child(P, k) /\ d = Tree!Sibling(Child(P, k))
                    /\ c \in Tree!Nodes /\ d \in Tree!Nodes /\ c > k
    BY <1>3, <2>4, Siblings
  <2>6. tree'[c] \in Held /\ tree[d] \in Held
    BY <1>7, <2>2, <2>5
  <2>7. tree'[k] = Tree!Larger(tree'[c], tree[d])
    BY <1>6, <2>3, <2>4, <2>5
  <2> QED
    BY <2>3, <2>6, <2>7 DEF Tree!Larger
<1>9. tree' \in [Tree!Nodes -> Held]
  <2>1. \A k \in Tree!Nodes : tree'[k] \in Held
    BY <1>8
  <2> QED
    BY <1>1, <2>1
<1>10. leaves' \in [Tree!Leaves -> Held]
  BY <1>1 DEF TreeInv
<1>11. ASSUME NEW s \in Tree!Leaves PROVE tree'[s + N] = leaves'[s]
  <2>1. s + N \in Tree!Nodes /\ s + N >= N /\ (s + N = q <=> s = p)
    BY <1>2, <1>11, TreeSizes
  <2>2. CASE s = p
    BY <1>1, <1>6, <2>1, <2>2 DEF TreeInv
  <2>3. CASE s # p
    <3>1. s + N \notin P
      <4>1. ASSUME s + N \in P PROVE FALSE
        <5>1. s + N \in 1..(N - 1)
          BY <1>3, <2>1, <2>3, <4>1, Siblings
        <5> QED
          BY <2>1, <5>1, TreeSizes
      <4> QED
        BY <4>1
    <3>2. tree'[s + N] = tree[s + N] /\ leaves'[s] = leaves[s]
      BY <1>1, <1>6, <2>1, <2>3, <3>1 DEF TreeInv
    <3> QED
      BY <3>2 DEF TreeInv
  <2> QED
    BY <2>2, <2>3
<1>12. ASSUME NEW k \in 1..(N - 1)
       PROVE  tree'[k] = Tree!Larger(tree'[2 * k], tree'[2 * k + 1])
  <2>1. /\ k \in Tree!Nodes /\ k # q /\ 2 * k \in Tree!Nodes /\ 2 * k + 1 \in Tree!Nodes
        /\ 2 * k > 1 /\ 2 * k + 1 > 1 /\ (2 * k) \div 2 = k /\ (2 * k + 1) \div 2 = k
    BY <1>3, <1>12, TreeSizes
  <2>2. CASE k \in P
    <3>1. PICK c, d : /\ c = Child(P, k) /\ d = Tree!Sibling(Child(P, k))
                      /\ d \notin P
                      /\ (c = 2 * k /\ d = 2 * k + 1) \/ (c = 2 * k + 1 /\ d = 2 * k)
      BY <1>3, <2>1, <2>2, Siblings
    <3>2. tree'[k] = Tree!Larger(tree'[c], tree'[d])
      BY <1>6, <2>1, <2>2, <3>1
    <3>3. tree'[c] \in Int /\ tree'[d] \in Int
      BY <1>9, <2>1, <3>1, TreeSizes, SMTT(30)
    <3> QED
      BY <3>1, <3>2, <3>3, LargerEither
  <2>3. CASE k \notin P
    <3>1. 2 * k \notin P /\ 2 * k + 1 \notin P
      BY <1>5, <2>1, <2>3
    <3>2. tree'[k] = tree[k] /\ tree'[2 * k] = tree[2 * k] /\ tree'[2 * k + 1] = tree[2 * k + 1]
      BY <1>6, <2>1, <2>3, <3>1
    <3> QED
      BY <3>2 DEF TreeInv
  <2> QED
    BY <2>2, <2>3
<1> QED
  BY <1>9, <1>10, <1>11, <1>12 DEF TreeInv

-----------------------------------------------------------------------------
\* The walk of query_max: the nodes it looks at from l = a and r = b.
Lifted(a, b) == <<(a + (a % 2)) \div 2, (b - (b % 2)) \div 2>>

Here(a, b) ==
    (IF a % 2 = 1 THEN {a} ELSE {}) \cup (IF b % 2 = 1 THEN {b - 1} ELSE {})

Seen(h, at) ==
    IF at[1] >= at[2] THEN {} ELSE Here(at[1], at[2]) \cup h[Lifted(at[1], at[2])]

Walks(h) == h = [at \in Tree!Spans |-> Seen(h, at)]

LEMMA LiftedIs ==
    ASSUME Tree!TreeAssumption, NEW a \in 0..(2 * N), NEW b \in 0..(2 * N), a < b
    PROVE  \E i, j \in 0..(2 * N) :
             /\ Lifted(a, b) = <<i, j>> /\ j < b
             /\ (a % 2 = 0 /\ a = 2 * i) \/ (a % 2 = 1 /\ a + 1 = 2 * i)
             /\ (b % 2 = 0 /\ b = 2 * j) \/ (b % 2 = 1 /\ b - 1 = 2 * j)
<1>1. PICK i : i = (a + (a % 2)) \div 2
  OBVIOUS
<1>2. PICK j : j = (b - (b % 2)) \div 2
  OBVIOUS
<1>3. a \in Nat /\ b \in Nat /\ N \in Nat /\ a <= 2 * N /\ b <= 2 * N /\ b >= 1
  BY TreeSizes
<1>4. i \in Nat /\ ((a % 2 = 0 /\ a = 2 * i) \/ (a % 2 = 1 /\ a + 1 = 2 * i))
  BY <1>1, <1>3
<1>5. j \in Nat /\ ((b % 2 = 0 /\ b = 2 * j) \/ (b % 2 = 1 /\ b - 1 = 2 * j))
  BY <1>2, <1>3
<1>6. i \in 0..(2 * N) /\ j \in 0..(2 * N) /\ j < b
  BY <1>3, <1>4, <1>5
<1> QED
  BY <1>1, <1>2, <1>4, <1>5, <1>6 DEF Lifted

LEMMA SpanIs ==
    ASSUME NEW at \in Tree!Spans
    PROVE  at = <<at[1], at[2]>> /\ at[1] \in 0..(2 * N) /\ at[2] \in 0..(2 * N)
BY DEF Tree!Spans

LEMMA WalkExists ==
    ASSUME Tree!TreeAssumption
    PROVE  \E h : Walks(h)
<1> DEFINE Below(u, n) == \A at \in Tree!Spans : at[2] < n => u[at] = Seen(u, at)
           S == {n \in 0..(2 * N + 1) : ~\E u : u = [at \in Tree!Spans |-> u[at]] /\ Below(u, n)}
<1>1. S \subseteq Nat
  BY TreeSizes
<1>2. CASE 2 * N + 1 \notin S
  <2>1. 2 * N + 1 \in 0..(2 * N + 1)
    BY TreeSizes
  <2>2. PICK u : u = [at \in Tree!Spans |-> u[at]] /\ Below(u, 2 * N + 1)
    <3> HIDE DEF Below
    <3> QED
      BY <1>2, <2>1
  <2>3. ASSUME NEW at \in Tree!Spans PROVE u[at] = Seen(u, at)
    <3>1. at[2] < 2 * N + 1
      BY <2>3, SpanIs, TreeSizes
    <3> QED
      BY <2>2, <3>1
  <2>4. u = [at \in Tree!Spans |-> Seen(u, at)]
    <3> HIDE DEF Below
    <3> QED
      BY <2>2, <2>3
  <2> QED
    BY <2>4 DEF Walks
<1>3. CASE 2 * N + 1 \in S
  <2>1. PICK n \in S : \A m \in S : n <= m
    <3> HIDE DEF S
    <3> QED
      BY <1>1, <1>3, LeastNumber
  <2>2. n \in 0..(2 * N + 1) /\ n # 0 /\ N \in Nat
    <3>1. \E u : u = [at \in Tree!Spans |-> u[at]] /\ Below(u, 0)
      <4>1. [at \in Tree!Spans |-> {}] = [at \in Tree!Spans |-> [i \in Tree!Spans |-> {}][at]]
        OBVIOUS
      <4>2. Below([at \in Tree!Spans |-> {}], 0)
        BY SpanIs
      <4> HIDE DEF Below
      <4> QED
        BY <4>1, <4>2
    <3>2. n \in 0..(2 * N + 1) /\ ~\E u : u = [at \in Tree!Spans |-> u[at]] /\ Below(u, n)
      <4> HIDE DEF Below
      <4> QED
        BY <2>1
    <3> HIDE DEF Below
    <3> QED
      BY <3>1, <3>2, TreeSizes
  <2>3. n - 1 \in 0..(2 * N + 1) /\ n - 1 < n
    BY <2>2
  <2>4. n - 1 \notin S
    <3> HIDE DEF S
    <3> QED
      BY <2>1, <2>2, <2>3
  <2>5. PICK u : u = [at \in Tree!Spans |-> u[at]] /\ Below(u, n - 1)
    <3> HIDE DEF Below
    <3> QED
      BY <2>3, <2>4
  <2> DEFINE w == [at \in Tree!Spans |-> IF at[2] = n - 1 THEN Seen(u, at) ELSE u[at]]
  <2>6. /\ w = [at \in Tree!Spans |-> w[at]]
        /\ \A at \in Tree!Spans : at[2] = n - 1 => w[at] = Seen(u, at)
        /\ \A at \in Tree!Spans : at[2] # n - 1 => w[at] = u[at]
    OBVIOUS
  <2> HIDE DEF w
  <2>7. ASSUME NEW at \in Tree!Spans, at[2] < n PROVE w[at] = Seen(w, at)
    <3>1. at[1] \in 0..(2 * N) /\ at[2] \in 0..(2 * N)
      BY SpanIs
    <3>2. w[at] = Seen(u, at)
      <4>1. at[2] = n - 1 \/ at[2] < n - 1
        BY <2>2, <2>7, <3>1
      <4>2. CASE at[2] = n - 1
        BY <2>6, <4>2
      <4>3. CASE at[2] < n - 1
        <5>1. at[2] # n - 1
          BY <2>2, <3>1, <4>3
        <5>2. u[at] = Seen(u, at)
          BY <2>5, <4>3
        <5> QED
          BY <2>6, <5>1, <5>2
      <4> QED
        BY <4>1, <4>2, <4>3
    <3>3. Seen(u, at) = Seen(w, at)
      <4>1. CASE at[1] >= at[2]
        BY <4>1 DEF Seen
      <4>2. CASE ~(at[1] >= at[2])
        <5>1. at[1] < at[2]
          BY <3>1, <4>2
        <5>2. PICK i, j \in 0..(2 * N) : Lifted(at[1], at[2]) = <<i, j>> /\ j < at[2]
          BY <3>1, <5>1, LiftedIs
        <5>3. <<i, j>> \in Tree!Spans /\ <<i, j>>[2] = j /\ j # n - 1
          BY <2>2, <2>7, <3>1, <5>2 DEF Tree!Spans
        <5>4. w[<<i, j>>] = u[<<i, j>>]
          BY <2>6, <5>3
        <5> QED
          BY <5>2, <5>4 DEF Seen
      <4> QED
        BY <4>1, <4>2
    <3> QED
      BY <3>2, <3>3
  <2>8. Below(w, n)
    BY <2>7
  <2>9. n \notin S
    <3> HIDE DEF Below
    <3> QED
      BY <2>6, <2>8
  <2> HIDE DEF S
  <2> QED
    BY <2>1, <2>9
<1> QED
  BY <1>2, <1>3

LEMMA LookedIs ==
    ASSUME Tree!TreeAssumption
    PROVE  \A at \in Tree!Spans : Tree!Looked[at] = Seen(Tree!Looked, at)
<1>1. Tree!Looked = CHOOSE h : Walks(h)
  BY Zenon DEF Tree!Looked, Walks, Seen, Here, Lifted
<1>2. Walks(Tree!Looked)
  BY <1>1, WalkExists
<1> QED
  BY <1>2 DEF Walks

Bounded(S, v) == \A k \in S : tree[k] <= v

\* An inner node is bounded where its children are.
LEMMA ParentBounded ==
    ASSUME Tree!TreeAssumption, TreeInv, NEW k \in 1..(N - 1), NEW v \in Int
    PROVE  tree[k] <= v <=> tree[2 * k] <= v /\ tree[2 * k + 1] <= v
<1>1. 2 * k \in Tree!Nodes /\ 2 * k + 1 \in Tree!Nodes
  BY TreeSizes
<1>2. tree[2 * k] \in Int /\ tree[2 * k + 1] \in Int
  <2>1. tree[2 * k] \in Values \cup {0} /\ tree[2 * k + 1] \in Values \cup {0}
    BY <1>1 DEF TreeInv
  <2> QED
    BY <2>1, TreeSizes
<1>3. tree[k] = Tree!Larger(tree[2 * k], tree[2 * k + 1])
  BY DEF TreeInv
<1> QED
  BY <1>2, <1>3 DEF Tree!Larger

\* The nodes looked at are bounded where the nodes asked for are.
LEMMA LookedCovers ==
    ASSUME Tree!TreeAssumption, TreeInv, NEW v \in Int,
           NEW l \in 1..(2 * N), NEW r \in 0..(2 * N)
    PROVE  Bounded(Tree!Looked[<<l, r>>], v) <=> Bounded(l..(r - 1), v)
<1> DEFINE Same(a, b) == Bounded(Tree!Looked[<<a, b>>], v) <=> Bounded(a..(b - 1), v)
           S == {b \in 0..(2 * N) : ~\A a \in 1..(2 * N) : Same(a, b)}
<1>1. SUFFICES ASSUME S # {} PROVE FALSE
  <2> HIDE DEF Same
  <2> SUFFICES Same(l, r)
    BY DEF Same
  <2> QED
    BY <1>1
<1>2. S \subseteq Nat
  BY TreeSizes
<1>3. PICK b \in S : \A j \in S : b <= j
  <2> HIDE DEF S
  <2> QED
    BY <1>1, <1>2, LeastNumber
<1>4. PICK a \in 1..(2 * N) : ~Same(a, b)
  BY <1>3
<1>5. /\ a \in 0..(2 * N) /\ b \in 0..(2 * N) /\ a \in Nat /\ b \in Nat /\ N \in Nat
      /\ 1 <= a /\ <<a, b>> \in Tree!Spans
  BY <1>3, TreeSizes DEF Tree!Spans
<1>6. Tree!Looked[<<a, b>>] = IF a >= b THEN {} ELSE Here(a, b) \cup Tree!Looked[Lifted(a, b)]
  BY <1>5, LookedIs DEF Seen
<1>7. CASE a >= b
  <2>1. Tree!Looked[<<a, b>>] = {}
    BY <1>6, <1>7
  <2>2. \A k \in a..(b - 1) : FALSE
    BY <1>5, <1>7
  <2> QED
    BY <1>4, <2>1, <2>2 DEF Bounded
<1>8. CASE ~(a >= b)
  <2>1. a < b
    BY <1>5, <1>8
  <2>2. PICK i, j \in 0..(2 * N) :
             /\ Lifted(a, b) = <<i, j>> /\ j < b
             /\ (a % 2 = 0 /\ a = 2 * i) \/ (a % 2 = 1 /\ a + 1 = 2 * i)
             /\ (b % 2 = 0 /\ b = 2 * j) \/ (b % 2 = 1 /\ b - 1 = 2 * j)
    BY <1>5, <2>1, LiftedIs
  <2>3. i \in 1..(2 * N) /\ i \in Nat /\ j \in Nat /\ j <= N
    BY <1>5, <2>2
  <2>4. Same(i, j)
    <3>1. j \notin S
      <4>1. ~(b <= j)
        BY <1>5, <2>2, <2>3
      <4> HIDE DEF S
      <4> QED
        BY <1>3, <4>1
    <3> HIDE DEF Same
    <3> QED
      BY <2>2, <2>3, <3>1
  <2>5. Bounded(Tree!Looked[<<a, b>>], v) <=> Bounded(Here(a, b), v) /\ Bounded(i..(j - 1), v)
    <3>1. Tree!Looked[<<a, b>>] = Here(a, b) \cup Tree!Looked[<<i, j>>]
      BY <1>6, <1>8, <2>2
    <3>2. Bounded(Tree!Looked[<<a, b>>], v)
            <=> Bounded(Here(a, b), v) /\ Bounded(Tree!Looked[<<i, j>>], v)
      BY <3>1 DEF Bounded
    <3> QED
      BY <2>4, <3>2
  <2>6. \A k \in i..(j - 1) : k \in 1..(N - 1) /\ 2 * k \in a..(b - 1) /\ 2 * k + 1 \in a..(b - 1)
    BY <1>5, <2>2, <2>3
  <2>7. \A k \in Here(a, b) : k \in a..(b - 1)
    BY <1>5, <2>1 DEF Here
  <2>8. ASSUME Bounded(a..(b - 1), v) PROVE Bounded(Here(a, b), v) /\ Bounded(i..(j - 1), v)
    <3>1. \A k \in a..(b - 1) : tree[k] <= v
      BY <2>8 DEF Bounded
    <3>2. \A k \in i..(j - 1) : tree[k] <= v
      BY <2>6, <3>1, ParentBounded
    <3> QED
      BY <2>7, <3>1, <3>2 DEF Bounded
  <2>9. ASSUME Bounded(Here(a, b), v), Bounded(i..(j - 1), v), NEW k \in a..(b - 1)
        PROVE  tree[k] <= v
    <3>1. CASE k \in Here(a, b)
      BY <2>9, <3>1 DEF Bounded
    <3>2. CASE k \notin Here(a, b)
      <4>1. ~(k = a /\ a % 2 = 1) /\ ~(k = b - 1 /\ b % 2 = 1)
        BY <3>2 DEF Here
      <4>2. PICK c \in Nat : c = k \div 2
        BY <1>5
      <4>3. k \in Nat /\ (k = 2 * c \/ k = 2 * c + 1)
        BY <1>5, <4>2
      <4>4. 2 * i <= k /\ k < 2 * j
        BY <1>5, <2>2, <4>1
      <4>5. c \in i..(j - 1)
        BY <2>3, <4>3, <4>4
      <4>6. c \in 1..(N - 1) /\ tree[c] <= v
        BY <2>6, <2>9, <4>5 DEF Bounded
      <4>7. tree[2 * c] <= v /\ tree[2 * c + 1] <= v
        BY <4>6, ParentBounded
      <4> QED
        BY <4>3, <4>7
    <3> QED
      BY <3>1, <3>2
  <2>10. Bounded(Here(a, b), v) /\ Bounded(i..(j - 1), v) => Bounded(a..(b - 1), v)
    BY <2>9 DEF Bounded
  <2> QED
    BY <1>4, <2>5, <2>8, <2>10
<1> QED
  BY <1>7, <1>8

\* No walk leaves the nodes.
LEMMA LookedWithin ==
    ASSUME Tree!TreeAssumption, NEW l \in 1..(2 * N), NEW r \in 0..(2 * N)
    PROVE  \A k \in Tree!Looked[<<l, r>>] : k \in 1..(2 * N - 1)
<1> DEFINE Inside(a, b) == \A k \in Tree!Looked[<<a, b>>] : k \in 1..(2 * N - 1)
           S == {b \in 0..(2 * N) : ~\A a \in 1..(2 * N) : Inside(a, b)}
<1>1. SUFFICES ASSUME S # {} PROVE FALSE
  <2> HIDE DEF Inside
  <2> SUFFICES Inside(l, r)
    BY DEF Inside
  <2> QED
    BY <1>1
<1>2. S \subseteq Nat
  BY TreeSizes
<1>3. PICK b \in S : \A j \in S : b <= j
  <2> HIDE DEF S
  <2> QED
    BY <1>1, <1>2, LeastNumber
<1>4. PICK a \in 1..(2 * N) : ~Inside(a, b)
  BY <1>3
<1>5. /\ a \in 0..(2 * N) /\ b \in 0..(2 * N) /\ a \in Nat /\ b \in Nat /\ N \in Nat
      /\ 1 <= a /\ <<a, b>> \in Tree!Spans
  BY <1>3, TreeSizes DEF Tree!Spans
<1>6. Tree!Looked[<<a, b>>] = IF a >= b THEN {} ELSE Here(a, b) \cup Tree!Looked[Lifted(a, b)]
  BY <1>5, LookedIs DEF Seen
<1>7. CASE a >= b
  BY <1>4, <1>6, <1>7
<1>8. CASE ~(a >= b)
  <2>1. a < b
    BY <1>5, <1>8
  <2>2. PICK i, j \in 0..(2 * N) :
             /\ Lifted(a, b) = <<i, j>> /\ j < b
             /\ (a % 2 = 0 /\ a = 2 * i) \/ (a % 2 = 1 /\ a + 1 = 2 * i)
             /\ (b % 2 = 0 /\ b = 2 * j) \/ (b % 2 = 1 /\ b - 1 = 2 * j)
    BY <1>5, <2>1, LiftedIs
  <2>3. i \in 1..(2 * N) /\ i \in Nat /\ j \in Nat
    BY <1>5, <2>2
  <2>4. Inside(i, j)
    <3>1. j \notin S
      <4>1. ~(b <= j)
        BY <1>5, <2>2, <2>3
      <4> HIDE DEF S
      <4> QED
        BY <1>3, <4>1
    <3> HIDE DEF Inside
    <3> QED
      BY <2>2, <2>3, <3>1
  <2>5. \A k \in Here(a, b) : k \in 1..(2 * N - 1)
    BY <1>5, <2>1 DEF Here
  <2>6. Tree!Looked[<<a, b>>] = Here(a, b) \cup Tree!Looked[<<i, j>>]
    BY <1>6, <1>8, <2>2
  <2> QED
    BY <1>4, <2>4, <2>5, <2>6
<1> QED
  BY <1>7, <1>8

LEMMA MaxOfIs ==
    ASSUME NEW S, \A x \in S : x \in Int, S # {}, NEW u \in Int, \A x \in S : x <= u
    PROVE  Tree!MaxOf(S) \in S /\ \A x \in S : x <= Tree!MaxOf(S)
<1>1. S \subseteq Int
  OBVIOUS
<1>2. \E m \in S : \A x \in S : x <= m
  BY <1>1, Largest
<1> QED
  BY <1>2 DEF Tree!MaxOf

\* A query is the maximum of the leaves it asks for.
LEMMA QueryIs ==
    ASSUME Tree!TreeAssumption, TreeInv, NEW l \in Tree!Leaves, NEW r \in 0..N
    PROVE  Tree!QueryMax(l, r) = Tree!MaxOf({Tree!Sentinel} \cup {leaves[p] : p \in l..(r - 1)})
<1> DEFINE T == Tree!Looked[<<l + N, r + N>>]
           A == {Tree!Sentinel} \cup {tree[k] : k \in T}
           B == {Tree!Sentinel} \cup {leaves[p] : p \in l..(r - 1)}
<1>1. /\ N \in Nat /\ l \in Nat /\ r \in Nat /\ l + N \in 1..(2 * N) /\ r + N \in 0..(2 * N)
      /\ Tree!Sentinel \in Int
  BY TreeSizes DEF Tree!Sentinel
<1>2. PICK u \in Int : Tree!Sentinel <= u /\ 0 <= u /\ \A x \in Values : x <= u
  <2>1. PICK largest \in Values : \A x \in Values : x <= largest
    BY DEF Tree!TreeAssumption
  <2>2. largest \in Int /\ \A x \in Values : x \in Int
    BY TreeSizes
  <2>3. CASE largest <= 0
    <3>1. \A x \in Values : x <= 0
      BY <2>1, <2>2, <2>3
    <3> QED
      BY <3>1 DEF Tree!Sentinel
  <2>4. CASE ~(largest <= 0)
    BY <2>1, <2>2, <2>4 DEF Tree!Sentinel
  <2> QED
    BY <2>3, <2>4
<1>3. \A k \in T : k \in Tree!Nodes
  <2>1. \A k \in T : k \in 1..(2 * N - 1)
    BY <1>1, LookedWithin
  <2> HIDE DEF T
  <2> QED
    BY <2>1, TreeSizes
<1>4. ASSUME NEW p \in l..(r - 1) PROVE p \in Tree!Leaves /\ tree[p + N] = leaves[p]
  <2>1. p \in Tree!Leaves
    BY <1>1, <1>4, TreeSizes
  <2> QED
    BY <2>1 DEF TreeInv
<1>5. A # {} /\ \A x \in A : x \in Int /\ x <= u
  <2>1. \A k \in T : tree[k] \in Int /\ tree[k] <= u
    <3> HIDE DEF T
    <3>1. \A k \in T : tree[k] \in Values \cup {0}
      BY <1>3 DEF TreeInv
    <3> QED
      BY <1>2, <3>1, TreeSizes
  <2> HIDE DEF T
  <2> QED
    BY <1>1, <1>2, <2>1
<1>6. B # {} /\ \A x \in B : x \in Int /\ x <= u
  <2>1. \A p \in l..(r - 1) : leaves[p] \in Values \cup {0}
    BY <1>4 DEF TreeInv
  <2> QED
    BY <1>1, <1>2, <2>1, TreeSizes
<1>7. Tree!MaxOf(A) \in A /\ \A x \in A : x <= Tree!MaxOf(A)
  <2> HIDE DEF A
  <2> QED
    BY <1>5, MaxOfIs
<1>8. Tree!MaxOf(B) \in B /\ \A x \in B : x <= Tree!MaxOf(B)
  <2> HIDE DEF B
  <2> QED
    BY <1>6, MaxOfIs
<1>9. ASSUME NEW v \in Int PROVE (\A x \in A : x <= v) <=> (\A x \in B : x <= v)
  <2>1. Bounded(T, v) <=> Bounded((l + N)..(r + N - 1), v)
    BY <1>1, LookedCovers
  <2>2. (\A x \in A : x <= v) <=> Tree!Sentinel <= v /\ Bounded(T, v)
    <3> HIDE DEF T
    <3> QED
      BY DEF Bounded
  <2>3. Bounded((l + N)..(r + N - 1), v) <=> \A p \in l..(r - 1) : leaves[p] <= v
    <3>1. ASSUME Bounded((l + N)..(r + N - 1), v), NEW p \in l..(r - 1) PROVE leaves[p] <= v
      <4>1. p + N \in (l + N)..(r + N - 1)
        BY <1>1, <3>1
      <4> QED
        BY <1>4, <3>1, <4>1 DEF Bounded
    <3>2. ASSUME \A p \in l..(r - 1) : leaves[p] <= v, NEW k \in (l + N)..(r + N - 1)
          PROVE  tree[k] <= v
      <4>1. k - N \in l..(r - 1) /\ (k - N) + N = k
        BY <1>1, <3>2
      <4> QED
        BY <1>4, <3>2, <4>1
    <3> QED
      BY <3>1, <3>2 DEF Bounded
  <2>4. (\A x \in B : x <= v) <=> Tree!Sentinel <= v /\ \A p \in l..(r - 1) : leaves[p] <= v
    OBVIOUS
  <2> HIDE DEF T, A, B
  <2> QED
    BY <2>1, <2>2, <2>3, <2>4
<1>10. Tree!MaxOf(A) = Tree!MaxOf(B)
  <2> HIDE DEF A, B
  <2>1. Tree!MaxOf(A) \in Int /\ Tree!MaxOf(B) \in Int
    BY <1>5, <1>6, <1>7, <1>8
  <2>2. Tree!MaxOf(B) <= Tree!MaxOf(A)
    BY <1>7, <1>8, <1>9, <2>1
  <2>3. Tree!MaxOf(A) <= Tree!MaxOf(B)
    BY <1>7, <1>8, <1>9, <2>1
  <2> QED
    BY <2>1, <2>2, <2>3
<1> QED
  BY <1>10, Zenon DEF Tree!QueryMax

\* What the proof of QueriesTell goes by, in every state.
LEMMA TreeKept ==
    ASSUME Tree!TreeAssumption
    PROVE  Tree!Spec => []TreeInv
<1>1. Tree!Init => TreeInv
  <2> SUFFICES ASSUME Tree!Init PROVE TreeInv
    OBVIOUS
  <2>1. /\ \A k \in Tree!Nodes : tree[k] = 0
        /\ \A p \in Tree!Leaves : leaves[p] = 0 /\ p + N \in Tree!Nodes
        /\ \A k \in 1..(N - 1) :
             k \in Tree!Nodes /\ 2 * k \in Tree!Nodes /\ 2 * k + 1 \in Tree!Nodes
    BY TreeSizes DEF Tree!Init
  <2>2. tree \in [Tree!Nodes -> Values \cup {0}] /\ leaves \in [Tree!Leaves -> Values \cup {0}]
    BY DEF Tree!Init
  <2> QED
    BY <2>1, <2>2 DEF TreeInv, Tree!Larger
<1>2. TreeInv /\ [Tree!Next]_Tree!vars => TreeInv'
  <2> SUFFICES ASSUME TreeInv, [Tree!Next]_Tree!vars PROVE TreeInv'
    OBVIOUS
  <2>1. CASE Tree!Build
    BY <2>1, BuildKeeps
  <2>2. CASE Tree!Update
    BY <2>2, UpdateKeeps
  <2>3. CASE UNCHANGED Tree!vars
    BY <2>3 DEF Tree!vars, TreeInv
  <2> QED
    BY <2>1, <2>2, <2>3 DEF Tree!Next
<1> QED
  BY <1>1, <1>2, PTL DEF Tree!Spec

\* Lines 16-43: after any sequence of builds and updates, for any number of
\* leaves, query_max is the maximum of the leaves in its range; where the leaves
\* are no power of two, parents mix depths and the walk still covers the range.
THEOREM QueriesTell ==
    ASSUME Tree!TreeAssumption
    PROVE  Tree!Spec => []QueriesExact
<1>1. TreeInv => QueriesExact
  BY QueryIs DEF QueriesExact, Tree!QueriesExact
<1> QED
  BY <1>1, TreeKept, PTL

-----------------------------------------------------------------------------
(* The size of a position. *)

Offered == [stop : Stops, expected : Expected, cvar : Cvars, winRate : WinRates,
            maxRisk : MaxRisks]

\* The first limit of a position, and the one of its stop.
ByKelly(o) == (Sizing!Kelly(o.winRate) * Sizing!Factor(o.stop)) \div 100

ByStop(o) == (o.maxRisk * 10000) \div o.stop

LEMMA OffersAre ==
    ASSUME Sizing!SizingAssumption, NEW o \in Offered
    PROVE  /\ o.stop \in Nat /\ o.stop \in Stops /\ o.expected \in Int /\ o.cvar \in Int
           /\ o.winRate \in Nat /\ o.winRate <= 100
           /\ o.maxRisk \in MaxRisks /\ o.maxRisk \in Nat \ {0}
<1>1. o.stop \in Stops /\ o.expected \in Expected /\ o.cvar \in Cvars /\ o.winRate \in WinRates
     /\ o.maxRisk \in MaxRisks
  BY DEF Offered
<1>2. /\ o.winRate \in 0..100 /\ o.stop \in Nat /\ o.expected \in Int /\ o.cvar \in Int
      /\ o.maxRisk \in Nat \ {0}
  BY <1>1 DEF Sizing!SizingAssumption
<1> QED
  BY <1>1, <1>2

LEMMA FactorIs ==
    ASSUME Sizing!SizingAssumption, NEW s \in Stops
    PROVE  Sizing!Factor(s) \in Nat
<1>1. s \in Nat
  BY DEF Sizing!SizingAssumption
<1>2. CASE s = 0
  BY <1>2 DEF Sizing!Factor
<1>3. CASE s # 0
  <2>1. FactorPercent[s] \in Nat
    BY <1>3 DEF Sizing!SizingAssumption
  <2>2. ~(s <= 0)
    BY <1>1, <1>3
  <2> QED
    BY <2>1, <2>2 DEF Sizing!Factor
<1> QED
  BY <1>2, <1>3

LEMMA KellyIs ==
    ASSUME Sizing!SizingAssumption, NEW w \in WinRates
    PROVE  Sizing!Kelly(w) \in Nat
<1>1. PICK odds \in Int : odds = w * Multiple - (100 - w)
  <2>1. w \in Nat /\ Multiple \in Nat
    BY DEF Sizing!SizingAssumption
  <2> QED
    BY <2>1
<1>2. KellyPercent \in Nat /\ Multiple \in Nat \ {0}
  BY DEF Sizing!SizingAssumption
<1>3. CASE odds <= 0
  BY <1>1, <1>3 DEF Sizing!Kelly
<1>4. CASE ~(odds <= 0)
  <2>1. odds * KellyPercent \in Nat
    BY <1>1, <1>2, <1>4
  <2>2. (odds * KellyPercent) \div Multiple \in Nat
    BY <1>2, <2>1, Quotient
  <2> QED
    BY <1>1, <1>4, <2>2 DEF Sizing!Kelly
<1> QED
  BY <1>3, <1>4

LEMMA LimitsAre ==
    ASSUME Sizing!SizingAssumption, NEW o \in Offered
    PROVE  /\ ByKelly(o) \in Nat /\ MaxPosition \in Nat
           /\ o.stop # 0 => ByStop(o) \in Nat /\ o.stop * ByStop(o) <= o.maxRisk * 10000
<1>1. MaxPosition \in Nat /\ o.maxRisk * 10000 \in Nat /\ o.stop \in Nat
  BY OffersAre DEF Sizing!SizingAssumption
<1>2. Sizing!Kelly(o.winRate) \in Nat /\ Sizing!Factor(o.stop) \in Nat
  <2>1. o.winRate \in WinRates /\ o.stop \in Stops
    BY DEF Offered
  <2> QED
    BY <2>1, KellyIs, FactorIs
<1>3. Sizing!Kelly(o.winRate) * Sizing!Factor(o.stop) \in Nat
  BY <1>2
<1>4. ByKelly(o) \in Nat
  BY <1>3, Quotient DEF ByKelly
<1>5. o.stop # 0 => ByStop(o) \in Nat /\ o.stop * ByStop(o) <= o.maxRisk * 10000
  BY <1>1, Quotient DEF ByStop
<1> QED
  BY <1>1, <1>4, <1>5

\* A position is one of its limits and no more than any.
LEMMA PositionIs ==
    ASSUME Sizing!SizingAssumption, NEW o \in Offered
    PROVE  /\ Sizing!Position(o) \in Nat
           /\ Sizing!Position(o) <= ByKelly(o) /\ Sizing!Position(o) <= MaxPosition
           /\ o.stop # 0 => Sizing!Position(o) <= ByStop(o)
           /\ \/ Sizing!Position(o) = ByKelly(o) \/ Sizing!Position(o) = MaxPosition
              \/ o.stop # 0 /\ Sizing!Position(o) = ByStop(o)
<1> DEFINE S == {ByKelly(o), MaxPosition} \cup (IF o.stop = 0 THEN {} ELSE {ByStop(o)})
<1>1. Sizing!Position(o) = Sizing!Min(S)
  BY DEF Sizing!Position, ByKelly, ByStop
<1>2. \A x \in S : x \in Nat
  BY LimitsAre
<1>3. \E m \in S : \A x \in S : m <= x
  <2>1. PICK m \in {ByKelly(o), MaxPosition} : m <= ByKelly(o) /\ m <= MaxPosition
    BY LimitsAre
  <2>2. CASE o.stop = 0
    BY <2>1, <2>2
  <2>3. CASE o.stop # 0 /\ m <= ByStop(o)
    BY <2>1, <2>3
  <2>4. CASE o.stop # 0 /\ ~(m <= ByStop(o))
    <3>1. m \in Nat /\ ByStop(o) \in Nat
      BY <2>1, <2>4, LimitsAre
    <3>2. ByStop(o) <= ByKelly(o) /\ ByStop(o) <= MaxPosition /\ ByStop(o) <= ByStop(o)
      BY <2>1, <2>4, <3>1, LimitsAre
    <3> QED
      BY <2>4, <3>2
  <2> QED
    BY <2>2, <2>3, <2>4
<1>4. Sizing!Min(S) \in S /\ \A x \in S : Sizing!Min(S) <= x
  <2> HIDE DEF S
  <2> QED
    BY <1>3 DEF Sizing!Min
<1>5. Sizing!Position(o) \in S /\ \A x \in S : Sizing!Position(o) <= x
  BY <1>1, <1>4
<1> QED
  BY <1>2, <1>5

\* A tighter stop makes no limit smaller.
LEMMA PositionRises ==
    ASSUME Sizing!SizingAssumption, NEW o \in Offered, NEW s \in Stops \ {0}, s <= o.stop
    PROVE  Sizing!Position([o EXCEPT !.stop = s]) >= Sizing!Position(o)
<1> DEFINE p == [o EXCEPT !.stop = s]
<1>1. p \in Offered /\ p.stop = s /\ p.winRate = o.winRate
     /\ p.maxRisk = o.maxRisk /\ s \in Nat \ {0}
  BY DEF Offered, Sizing!SizingAssumption
<1> HIDE DEF p
<1>2. o.stop \in Nat /\ o.stop # 0 /\ o.stop \in Stops
  BY <1>1, OffersAre
<1>3. ByStop(p) >= ByStop(o)
  <2>1. PICK r \in Nat : r = o.maxRisk * 10000
    BY OffersAre
  <2>2. r \div o.stop <= r \div s
    BY <1>1, <1>2, <2>1, QuotientFalls, SMTT(30)
  <2> QED
    BY <1>1, <1>2, <2>1, <2>2, LimitsAre DEF ByStop
<1>4. ByKelly(p) >= ByKelly(o)
  <2>1. PICK k \in Nat : k = Sizing!Kelly(o.winRate)
    <3>1. o.winRate \in WinRates
      BY DEF Offered
    <3> QED
      BY <3>1, KellyIs
  <2>2. Sizing!Factor(o.stop) <= Sizing!Factor(s)
    <3>1. FactorPercent[s] >= FactorPercent[o.stop] /\ ~(s <= 0) /\ ~(o.stop <= 0)
      BY <1>1, <1>2 DEF Sizing!SizingAssumption
    <3>2. FactorPercent[s] \in Nat /\ FactorPercent[o.stop] \in Nat
      BY <1>1, <1>2 DEF Sizing!SizingAssumption
    <3> QED
      BY <3>1, <3>2 DEF Sizing!Factor
  <2>3. Sizing!Factor(o.stop) \in Nat /\ Sizing!Factor(s) \in Nat
    BY <1>1, <1>2, FactorIs
  <2>4. PICK a, b \in Nat : a = k * Sizing!Factor(o.stop) /\ b = k * Sizing!Factor(s) /\ a <= b
    BY <2>1, <2>2, <2>3, ProductRises
  <2>5. ByKelly(o) = a \div 100 /\ ByKelly(p) = b \div 100
    BY <1>1, <2>1, <2>4 DEF ByKelly
  <2>6. a \div 100 <= b \div 100
    BY <2>4
  <2> QED
    BY <2>5, <2>6, <2>4
<1>5. Sizing!Position(p) >= Sizing!Position(o)
  <2>1. /\ Sizing!Position(o) \in Nat /\ Sizing!Position(o) <= ByKelly(o)
        /\ Sizing!Position(o) <= MaxPosition /\ Sizing!Position(o) <= ByStop(o)
    BY <1>2, PositionIs
  <2>2. /\ ByKelly(o) \in Nat /\ ByKelly(p) \in Nat /\ MaxPosition \in Nat
        /\ ByStop(o) \in Nat /\ ByStop(p) \in Nat
    BY <1>1, <1>2, LimitsAre
  <2>3. \/ Sizing!Position(p) = ByKelly(p) \/ Sizing!Position(p) = MaxPosition
        \/ Sizing!Position(p) = ByStop(p)
    BY <1>1, PositionIs
  <2> QED
    BY <1>3, <1>4, <2>1, <2>2, <2>3
<1> QED
  BY <1>5 DEF p

\* A tighter stop takes no edge away.
LEMMA EdgeRises ==
    ASSUME Sizing!SizingAssumption, NEW o \in Offered, NEW s \in Stops \ {0}, s <= o.stop
    PROVE  /\ Sizing!Edge(o) \in Int /\ Sizing!Edge([o EXCEPT !.stop = s]) \in Int
           /\ Sizing!Edge(o) <= Sizing!Edge([o EXCEPT !.stop = s])
<1> DEFINE p == [o EXCEPT !.stop = s]
<1>1. p.stop = s /\ p.winRate = o.winRate /\ p.expected = o.expected /\ s \in Nat
  BY DEF Offered, Sizing!SizingAssumption
<1> HIDE DEF p
<1>2. /\ o.stop \in Nat /\ o.expected \in Int /\ o.winRate \in Nat
      /\ 100 - o.winRate \in Nat
  BY OffersAre
<1>3. PICK l \in Nat : l = 100 - o.winRate
  BY <1>2
<1>4. l * s \in Int /\ l * o.stop \in Int /\ l * s <= l * o.stop
  BY <1>1, <1>2, ProductRises
<1>5. PICK e \in Int : e = o.winRate * o.expected
  BY <1>2
<1>6. Sizing!Edge(o) = e - l * o.stop /\ Sizing!Edge(p) = e - l * s
  BY <1>1, <1>3, <1>5 DEF Sizing!Edge
<1>7. Sizing!Edge(o) \in Int /\ Sizing!Edge(p) \in Int /\ Sizing!Edge(o) <= Sizing!Edge(p)
  <2>1. PICK x, y \in Int : x = l * s /\ y = l * o.stop
    BY <1>4
  <2> QED
    BY <1>4, <1>5, <1>6, <2>1
<1> QED
  BY <1>7 DEF p

\* An outcome of the test of ruin is a truth value, and up to an edge of one it
\* says whether the edge reaches the least that is safe.
LEMMA RuinIs ==
    ASSUME Sizing!SizingAssumption, NEW o \in Offered
    PROVE  /\ Sizing!Edge(o) \in Int /\ Sizing!One \in Int
           /\ SafeEdge[o.maxRisk] \in 1..Sizing!One
           /\ Sizing!BelowOnePercent(o) \subseteq BOOLEAN
           /\ ~Sizing!NoNumber(o) => \A a, b \in Sizing!BelowOnePercent(o) : a = b
           /\ Sizing!Edge(o) <= Sizing!One =>
                \A below \in Sizing!BelowOnePercent(o) :
                   below <=> SafeEdge[o.maxRisk] <= Sizing!Edge(o)
<1>0. Sizing!One \in Int
  BY DEF Sizing!One
<1>1. /\ o.stop \in Nat /\ o.expected \in Int /\ o.winRate \in Nat /\ o.maxRisk \in MaxRisks
  BY OffersAre
<1>2. Sizing!Edge(o) \in Int
  BY <1>1 DEF Sizing!Edge
<1>3. SafeEdge[o.maxRisk] \in 1..Sizing!One
  BY <1>1 DEF Sizing!SizingAssumption
<1>4. Sizing!BelowOnePercent(o) \subseteq BOOLEAN
  BY DEF Sizing!BelowOnePercent
<1>5. ~Sizing!NoNumber(o) => \A a, b \in Sizing!BelowOnePercent(o) : a = b
  BY DEF Sizing!BelowOnePercent
<1>6. ASSUME Sizing!Edge(o) <= Sizing!One, NEW below \in Sizing!BelowOnePercent(o)
      PROVE  below <=> SafeEdge[o.maxRisk] <= Sizing!Edge(o)
  <2>1. PICK e, least, one \in Int :
          e = Sizing!Edge(o) /\ least = SafeEdge[o.maxRisk] /\ one = Sizing!One
    BY <1>0, <1>2, <1>3
  <2>2. 1 <= least /\ least <= one /\ e <= one
    BY <1>3, <1>6, <2>1
  <2>3. ~Sizing!NoNumber(o) /\ ~(e > one)
    BY <2>1, <2>2 DEF Sizing!NoNumber
  <2>4. e \in least..(2 * one - least) <=> least <= e
    BY <2>1, <2>2
  <2>5. below = (\/ e \in least..(2 * one - least)
                 \/ e > one /\ (10000 \div o.maxRisk) % 2 = 1)
    BY <1>6, <2>1, <2>3 DEF Sizing!BelowOnePercent
  <2> QED
    BY <2>1, <2>3, <2>4, <2>5
<1> QED
  BY <1>0, <1>2, <1>3, <1>4, <1>5, <1>6

\* What the last call left, if there was one.
SizingInv ==
    /\ offer \in Offered
    /\ \/ position = 0 /\ ~viable
       \/ /\ position = Sizing!Position(offer)
          /\ \E first, second \in Sizing!BelowOnePercent(offer) :
               /\ viable = Sizing!Viable(offer, first)
               /\ reasons = IF viable THEN {} ELSE Sizing!Reasons(offer, second)

LEMMA SizingHolds ==
    ASSUME Sizing!SizingAssumption, SizingInv
    PROVE  Sizing!SizingSound
<1>0. offer \in Offered
  BY DEF SizingInv
<1>1. position \in Nat /\ offer.stop \in Nat /\ offer.maxRisk * 10000 \in Nat
  <2>1. position \in Nat
    BY PositionIs DEF SizingInv
  <2>2. offer.stop \in Nat /\ offer.maxRisk \in Nat
    BY <1>0, OffersAre
  <2> QED
    BY <2>1, <2>2
<1>2. position * offer.stop <= offer.maxRisk * 10000
  <2>1. CASE offer.stop = 0 \/ position = 0
    BY <1>1, <2>1
  <2>2. CASE ~(offer.stop = 0 \/ position = 0)
    <3>1. position <= ByStop(offer)
      BY <2>2, PositionIs DEF SizingInv
    <3>2. ByStop(offer) \in Nat /\ offer.stop * ByStop(offer) <= offer.maxRisk * 10000
      BY <1>0, <2>2, LimitsAre
    <3>3. offer.stop * position <= offer.stop * ByStop(offer)
      BY <1>1, <3>1, <3>2, ProductRises
    <3>4. PICK b, c \in Nat : b = ByStop(offer) /\ c = offer.maxRisk * 10000
      BY <1>1, <3>2
    <3> QED
      BY <1>1, <3>2, <3>3, <3>4
  <2> QED
    BY <2>1, <2>2
<1>3. ASSUME NEW s \in Sizing!TighterStops
      PROVE  /\ Sizing!Position(Sizing!AtStop(s)) >= position
             /\ viable /\ Sizing!Edge(Sizing!AtStop(s)) <= Sizing!One =>
                  \A below \in Sizing!BelowOnePercent(Sizing!AtStop(s)) :
                     Sizing!Viable(Sizing!AtStop(s), below)
  <2> DEFINE p == Sizing!AtStop(s)
  <2>0. p = [offer EXCEPT !.stop = s] /\ s \in Stops \ {0} /\ s <= offer.stop
    BY <1>3 DEF Sizing!AtStop, Sizing!TighterStops
  <2>1. p \in Offered /\ p.cvar = offer.cvar /\ p.maxRisk = offer.maxRisk
    BY <1>0, <2>0 DEF Offered
  <2>2. Sizing!Position(p) >= Sizing!Position(offer)
    BY <1>0, <2>0, PositionRises
  <2>3. /\ Sizing!Edge(offer) \in Int /\ Sizing!Edge(p) \in Int
        /\ Sizing!Edge(offer) <= Sizing!Edge(p)
    BY <1>0, <2>0, EdgeRises
  <2> HIDE DEF p
  <2>4. Sizing!Position(p) \in Nat /\ Sizing!Position(offer) \in Nat
    BY <1>0, <2>1, PositionIs
  <2>5. Sizing!Position(p) >= position
    BY <2>2, <2>4 DEF SizingInv
  <2>6. ASSUME viable, Sizing!Edge(p) <= Sizing!One, NEW below \in Sizing!BelowOnePercent(p)
        PROVE  Sizing!Viable(p, below)
    <3>1. PICK first \in Sizing!BelowOnePercent(offer) : Sizing!Viable(offer, first)
      BY <2>6 DEF SizingInv
    <3>2. first /\ Sizing!Edge(offer) > 0 /\ Sizing!Position(offer) > 0 /\ offer.cvar > CvarFloor
      BY <3>1 DEF Sizing!Viable
    <3>3. Sizing!Edge(offer) <= Sizing!One
      BY <1>0, <2>3, <2>6, RuinIs
    <3>4. SafeEdge[offer.maxRisk] <= Sizing!Edge(offer)
      BY <1>0, <3>2, <3>3, RuinIs
    <3>5. SafeEdge[p.maxRisk] <= Sizing!Edge(p)
      <4>1. SafeEdge[offer.maxRisk] \in Int
        BY <1>0, RuinIs
      <4> QED
        BY <2>1, <2>3, <3>4, <4>1
    <3>6. below
      BY <2>1, <2>6, <3>5, RuinIs
    <3>7. Sizing!Edge(p) > 0 /\ Sizing!Position(p) > 0
      BY <2>2, <2>3, <2>4, <3>2
    <3> QED
      BY <2>1, <3>2, <3>6, <3>7 DEF Sizing!Viable
  <2>7. /\ Sizing!Position(p) >= position
        /\ viable /\ Sizing!Edge(p) <= Sizing!One =>
             \A below \in Sizing!BelowOnePercent(p) : Sizing!Viable(p, below)
    BY <2>5, <2>6
  <2> QED
    BY <2>7 DEF p
<1>4. ASSUME ~viable, position > 0, ~Sizing!NoNumber(offer) PROVE reasons # {}
  <2>1. PICK first, second \in Sizing!BelowOnePercent(offer) :
          /\ Sizing!Position(offer) > 0 /\ ~Sizing!Viable(offer, first)
          /\ reasons = Sizing!Reasons(offer, second)
    BY <1>4 DEF SizingInv
  <2>2. Sizing!Edge(offer) \in Int /\ offer.cvar \in Int /\ CvarFloor \in Int
    BY <1>0, RuinIs, OffersAre DEF Sizing!SizingAssumption
  <2>3. first = second
    BY <1>0, <1>4, RuinIs
  <2>4. Sizing!Edge(offer) <= 0 \/ ~second \/ offer.cvar <= CvarFloor
    BY <2>1, <2>2, <2>3 DEF Sizing!Viable
  <2> QED
    BY <2>1, <2>4 DEF Sizing!Reasons
<1>5. ~viable /\ position > 0 => reasons # {} \/ Sizing!NoNumber(offer)
  BY <1>4
<1> QED
  BY <1>2, <1>3, <1>5 DEF Sizing!SizingSound

\* What the proof of SizesSound goes by, in every state.
LEMMA SizingKept ==
    ASSUME Sizing!SizingAssumption PROVE Sizing!Spec => []SizingInv
<1>1. Sizing!Init => SizingInv
  BY DEF Sizing!Init, Sizing!Calls, SizingInv, Offered
<1>2. SizingInv /\ [Sizing!Next]_Sizing!sizingVars => SizingInv'
  <2>1. ASSUME SizingInv, UNCHANGED Sizing!sizingVars PROVE SizingInv'
    BY <2>1 DEF SizingInv, Sizing!sizingVars
  <2>2. ASSUME SizingInv, Sizing!Next PROVE SizingInv'
    <3>1. PICK o \in Offered : \E first, second \in Sizing!BelowOnePercent(o) :
            /\ offer' = o /\ position' = Sizing!Position(o)
            /\ viable' = Sizing!Viable(o, first)
            /\ reasons' = IF Sizing!Viable(o, first) THEN {} ELSE Sizing!Reasons(o, second)
      BY <2>2 DEF Sizing!Next, Sizing!CalculateOptimalPosition, Sizing!Calls, Offered
    <3>2. PICK first, second \in Sizing!BelowOnePercent(o) :
            /\ offer' = o /\ position' = Sizing!Position(o)
            /\ viable' = Sizing!Viable(o, first)
            /\ reasons' = IF Sizing!Viable(o, first) THEN {} ELSE Sizing!Reasons(o, second)
      BY <3>1
    <3> QED
      BY <3>2 DEF SizingInv
  <2> QED
    BY <2>1, <2>2
<1> QED
  BY <1>1, <1>2, PTL DEF Sizing!Spec

\* Lines 196-255: a position loses no more than the risk allowed at its stop, for
\* any table of factors that does not rise with the stop; a tighter stop never
\* makes it smaller nor, up to an edge of one, takes its viability; what is
\* refused has a reason, unless the risk of ruin is no number.
THEOREM SizesSound ==
    ASSUME Sizing!SizingAssumption PROVE Sizing!Spec => []Sizing!SizingSound
<1>1. SizingInv => Sizing!SizingSound
  BY SizingHolds
<1> QED
  BY <1>1, SizingKept, PTL

-----------------------------------------------------------------------------
(* The shares that risk buys. *)

\* The running sum of squares is not negative, and the last trade was sized from
\* the tier.
NumbersInv ==
    /\ mean \in Int /\ m2 \in Nat /\ moves \in Seq(Moves)
    /\ tier \in 0..10
    /\ \/ trade = Numbers!NoTrade /\ tier = 0
       \/ /\ trade.mu \in Int /\ trade.account \in Nat /\ trade.gap \in Int
          /\ trade.shares = Numbers!Shares(trade.account, tier, trade.gap)
          /\ tier > 0 => trade.mu > 0

LEMMA ObserveStep ==
    ASSUME Numbers!NumbersAssumption, NumbersInv, NEW x \in Moves, Numbers!Observe(x)
    PROVE  NumbersInv'
<1>1. PICK delta \in Int : delta = Scale * x - mean
  BY DEF Numbers!NumbersAssumption, NumbersInv
<1>2. PICK n \in Nat : n = Len(moves) + 1 /\ n >= 1
  BY DEF NumbersInv
<1>3. /\ mean' = mean + delta \div n /\ m2' = m2 + delta * (Scale * x - mean')
      /\ moves' = Append(moves, x) /\ tier' = tier /\ trade' = trade
  BY <1>1, <1>2 DEF Numbers!Observe, Numbers!Squares
<1>4. PICK q \in Int : q = delta \div n /\ delta * (delta - q) \in Nat
  BY <1>2, SquaresGrow
<1>5. PICK y \in Int : y = Scale * x
  BY DEF Numbers!NumbersAssumption
<1>6. Scale * x - mean' = delta - q
  BY <1>1, <1>3, <1>4, <1>5 DEF NumbersInv
<1>7. mean' \in Int /\ m2' \in Nat
  <2>1. mean \in Int /\ m2 \in Nat
    BY DEF NumbersInv
  <2>2. mean' = mean + q /\ m2' = m2 + delta * (delta - q)
    BY <1>3, <1>4, <1>6
  <2>3. PICK e \in Nat : e = delta * (delta - q)
    BY <1>4
  <2> QED
    BY <2>1, <2>2, <2>3
<1>8. moves' \in Seq(Moves)
  BY <1>3 DEF NumbersInv
<1> QED
  BY <1>3, <1>7, <1>8 DEF NumbersInv, Numbers!Shares

\* compute_fraction stays within its cap, and needs an estimate.
LEMMA FractionIs ==
    ASSUME Numbers!NumbersAssumption, NumbersInv, NEW mu \in Int
    PROVE  Numbers!Fraction(mu) \in 0..10 /\ (Numbers!Fraction(mu) > 0 => mu > 0)
<1>1. PICK l \in Nat : l = Len(moves)
  BY DEF NumbersInv
<1>2. m2 \in Nat
  BY DEF NumbersInv
<1>3. CASE l < 2 \/ m2 = 0 \/ mu <= 0
  BY <1>1, <1>3 DEF Numbers!Fraction
<1>4. CASE ~(l < 2 \/ m2 = 0 \/ mu <= 0)
  <2>1. PICK f \in Nat : f = 10 * mu * (Scale * Scale) * (l - 1)
    <3>1. Scale * Scale \in Nat /\ 10 * mu \in Nat /\ l - 1 \in Nat
      BY <1>4 DEF Numbers!NumbersAssumption
    <3>2. (10 * mu) * (Scale * Scale) \in Nat
      BY <3>1
    <3> QED
      BY <3>1, <3>2
  <2>2. Numbers!Kelly(mu).n = f /\ Numbers!Kelly(mu).d = m2
    BY <1>1, <2>1 DEF Numbers!Kelly
  <2>3. Numbers!Fraction(mu) = IF f >= 10 * m2 THEN 10 ELSE Numbers!Rounded(f, m2)
    BY <1>1, <1>4, <2>2 DEF Numbers!Fraction
  <2>4. CASE f >= 10 * m2
    BY <1>4, <2>3, <2>4
  <2>5. CASE ~(f >= 10 * m2)
    <3>1. 2 * m2 \in Nat \ {0} /\ 2 * f + m2 \in Nat /\ 2 * f + m2 < 21 * m2
      BY <1>2, <1>4, <2>5
    <3>2. PICK r \in Nat : r = (2 * f + m2) \div (2 * m2) /\ (2 * m2) * r <= 2 * f + m2
      BY <3>1, Quotient
    <3>3. r <= 10
      <4>1. ASSUME r >= 11 PROVE FALSE
        <5>1. m2 * (r - 11) >= 0
          BY <1>2, <4>1
        <5>2. (2 * m2) * r = 2 * (m2 * (r - 11)) + 22 * m2
          BY <1>2
        <5> QED
          BY <1>2, <3>1, <3>2, <5>1, <5>2
      <4> QED
        BY <4>1
    <3> QED
      BY <1>4, <2>3, <2>5, <3>2, <3>3 DEF Numbers!Rounded
  <2> QED
    BY <2>4, <2>5
<1> QED
  BY <1>3, <1>4

LEMMA SizeStep ==
    ASSUME Numbers!NumbersAssumption, NumbersInv,
           NEW mu \in Mus, NEW account \in Accounts, NEW gap \in Gaps,
           Numbers!Size(mu, account, gap)
    PROVE  NumbersInv'
<1>1. mu \in Int /\ account \in Nat /\ gap \in Int
  BY DEF Numbers!NumbersAssumption
<1>2. /\ tier' = Numbers!Fraction(mu)
      /\ trade' = [mu |-> mu, account |-> account, gap |-> gap,
                   shares |-> Numbers!Shares(account, tier', gap)]
      /\ moves' = moves /\ mean' = mean /\ m2' = m2
  BY DEF Numbers!Size
<1>3. tier' \in 0..10 /\ (tier' > 0 => mu > 0)
  BY <1>1, <1>2, FractionIs
<1>4. /\ trade'.mu = mu /\ trade'.account = account /\ trade'.gap = gap
      /\ trade'.shares = Numbers!Shares(account, tier', gap)
  BY <1>2
<1> QED
  BY <1>1, <1>2, <1>3, <1>4 DEF NumbersInv

LEMMA RiskHolds ==
    ASSUME NumbersInv
    PROVE  Numbers!RiskCapped
<1>1. CASE trade = Numbers!NoTrade /\ tier = 0
  BY <1>1 DEF Numbers!RiskCapped, Numbers!NoTrade
<1>2. CASE ~(trade = Numbers!NoTrade /\ tier = 0)
  <2>1. PICK a \in Nat, g \in Int, t \in Nat :
          a = trade.account /\ g = trade.gap /\ t = tier /\ t <= 10
    BY <1>2 DEF NumbersInv
  <2>2. PICK b \in Nat : b = a * t /\ b <= 10 * a
    <3>1. a * t <= a * 10 /\ a * t \in Nat
      BY <2>1, ProductRises
    <3> QED
      BY <2>1, <3>1
  <2>3. trade.shares = IF g <= 0 THEN 0 ELSE b \div (200 * g)
    BY <1>2, <2>1, <2>2 DEF NumbersInv, Numbers!Shares
  <2>4. CASE g <= 0
    BY <2>1, <2>2, <2>3, <2>4 DEF Numbers!RiskCapped
  <2>5. CASE ~(g <= 0)
    <3>1. 200 * g \in Nat \ {0}
      BY <2>5
    <3>2. PICK s \in Nat : /\ s = b \div (200 * g)
                           /\ (200 * g) * s <= b /\ b < (200 * g) * s + 200 * g
      BY <3>1, Quotient
    <3>3. PICK r \in Nat : r = s * g /\ (200 * g) * s = 200 * r
      <4>1. s * g \in Nat /\ (200 * g) * s = 200 * (s * g)
        BY <2>5
      <4> QED
        BY <4>1
    <3>4. trade.shares = s /\ trade.shares * trade.gap = r /\ trade.account * tier = b
      BY <2>1, <2>2, <2>3, <2>5, <3>2, <3>3
    <3>5. s > 0 => trade.mu > 0
      <4>1. t = 0 => b = 0
        BY <2>2
      <4>2. b = 0 => r = 0
        BY <3>2, <3>3
      <4>3. s > 0 => r > 0
        BY <2>5, <3>3
      <4>4. s > 0 => t > 0
        BY <4>1, <4>2, <4>3
      <4> QED
        BY <1>2, <2>1, <4>4 DEF NumbersInv
    <3>6. 20 * r <= a /\ 200 * r <= b /\ 200 * (r + g) > b
      BY <2>2, <3>2, <3>3
    <3> QED
      BY <2>1, <3>4, <3>5, <3>6 DEF Numbers!RiskCapped
  <2> QED
    BY <2>4, <2>5
<1> QED
  BY <1>1, <1>2

\* What the proof of RisksCapped goes by, in every state.
LEMMA NumbersKept ==
    ASSUME Numbers!NumbersAssumption PROVE Numbers!Spec => []NumbersInv
<1>1. Numbers!Init => NumbersInv
  <2>1. <<>> \in Seq(Moves)
    OBVIOUS
  <2> QED
    BY <2>1 DEF Numbers!Init, NumbersInv
<1>2. NumbersInv /\ [Numbers!Next]_Numbers!vars => NumbersInv'
  <2>1. ASSUME NumbersInv, UNCHANGED Numbers!vars PROVE NumbersInv'
    BY <2>1 DEF NumbersInv, Numbers!vars, Numbers!Shares
  <2> QED
    BY <2>1, ObserveStep, SizeStep DEF Numbers!Next
<1> QED
  BY <1>1, <1>2, PTL DEF Numbers!Spec

\* Lines 90-135: whatever the returns and estimates, and however coarse the running
\* mean, no trade risks more than a twentieth of the account at its stop, nor more
\* than its step, and one share more would exceed the step.
THEOREM RisksCapped ==
    ASSUME Numbers!NumbersAssumption PROVE Numbers!Spec => []Numbers!RiskCapped
<1>1. NumbersInv => Numbers!RiskCapped
  BY RiskHolds
<1> QED
  BY <1>1, NumbersKept, PTL

-----------------------------------------------------------------------------
(* Orders split into fragments. *)

Fragment == [order : Nat, broker : Router!SelectBestBroker, quantity : Nat]

\* What the fragments of s give to order k, and the part of the i-th.
Dealt(k, s) ==
    Router!MapThenFoldSet(+, 0, LAMBDA i : IF s[i].order = k THEN s[i].quantity ELSE 0,
                          Router!Max, DOMAIN s)

Part(s, i, k) == IF s[i].order = k THEN s[i].quantity ELSE 0

Running(P, s, k) ==
    /\ P \in [0..Len(s) -> Int] /\ P[0] = 0
    /\ \A i \in 1..Len(s) : P[i] = P[i - 1] + Part(s, i, k)

\* The function that the fold is read off.
Folded(h, s, k) ==
    h = [S \in SUBSET (DOMAIN s) |->
           IF S = {} THEN 0 ELSE Part(s, Router!Max(S), k) + h[S \ {Router!Max(S)}]]

LEMMA HighestIs ==
    ASSUME NEW n \in Nat, NEW S \in SUBSET (1..n), S # {}
    PROVE  Router!Max(S) \in S /\ \A x \in S : Router!Max(S) >= x
<1>1. S \subseteq Int /\ n \in Int /\ \A x \in S : x <= n
  OBVIOUS
<1>2. \E m \in S : \A x \in S : x <= m
  BY <1>1, Largest
<1>3. \E m \in S : \A x \in S : m >= x
  BY <1>1, <1>2
<1> QED
  BY <1>3 DEF Router!Max

LEMMA MultipleIs ==
    ASSUME NEW a \in Int, NEW b \in Int
    PROVE  a * b = (a - 1) * b + b /\ (a - 1) * b \in Int
OBVIOUS

LEMMA PartCounts ==
    ASSUME NEW s \in Seq(Fragment), NEW i \in 1..Len(s), NEW k
    PROVE  s[i].order \in Nat /\ s[i].quantity \in Nat /\ Part(s, i, k) \in Nat
<1>1. s[i] \in Fragment
  OBVIOUS
<1>2. s[i].order \in Nat /\ s[i].quantity \in Nat
  BY <1>1 DEF Fragment
<1> QED
  BY <1>2 DEF Part

LEMMA FoldExists ==
    ASSUME NEW s \in Seq(Fragment), NEW k
    PROVE  \E h : Folded(h, s, k)
<1> DEFINE n == Len(s)
           D == SUBSET (1..n)
           At(h, S) == IF S = {} THEN 0 ELSE Part(s, Router!Max(S), k) + h[S \ {Router!Max(S)}]
           UpTo(h, m) == \A S \in D : S \subseteq 1..m => h[S] = At(h, S)
           Z == {m \in 0..n : ~\E h : h = [S \in D |-> h[S]] /\ UpTo(h, m)}
<1>1. n \in Nat /\ DOMAIN s = 1..n
  OBVIOUS
<1> HIDE DEF n
<1>2. Z = {}
  <2>1. SUFFICES ASSUME Z # {} PROVE FALSE
    OBVIOUS
  <2>2. PICK m \in Z : \A j \in Z : m <= j
    <3>1. Z \subseteq Nat
      BY <1>1
    <3> HIDE DEF Z
    <3> QED
      BY <2>1, <3>1, LeastNumber
  <2>3. m \in 0..n /\ ~\E h : h = [S \in D |-> h[S]] /\ UpTo(h, m)
    <3> HIDE DEF UpTo
    <3> QED
      BY <2>2
  <2>4. CASE m = 0
    <3> DEFINE h == [S \in D |-> 0]
    <3>1. h = [S \in D |-> h[S]]
      OBVIOUS
    <3>2. UpTo(h, m)
      <4>1. \A S \in D : S \subseteq 1..0 => S = {}
        OBVIOUS
      <4> QED
        BY <2>4, <4>1
    <3> HIDE DEF h, UpTo
    <3> QED
      BY <2>3, <3>1, <3>2
  <2>5. CASE m # 0
    <3>1. m - 1 \in 0..n /\ m - 1 \notin Z /\ m \in Nat
      <4>1. m - 1 \in 0..n /\ ~(m <= m - 1) /\ m \in Nat
        BY <1>1, <2>3, <2>5
      <4> HIDE DEF Z
      <4> QED
        BY <2>2, <4>1
    <3>2. PICK u : u = [S \in D |-> u[S]] /\ UpTo(u, m - 1)
      <4> HIDE DEF UpTo
      <4> QED
        BY <3>1
    <3> DEFINE w == [S \in D |-> IF m \in S THEN At(u, S) ELSE u[S]]
    <3>3. w = [S \in D |-> w[S]]
      OBVIOUS
    <3>4. ASSUME NEW S \in D, S \subseteq 1..m PROVE w[S] = At(w, S)
      <4>1. CASE S = {}
        BY <3>2, <4>1
      <4>2. CASE S # {}
        <5>1. PICK x : x = Router!Max(S)
          OBVIOUS
        <5>2. x \in S /\ \A y \in S : x >= y
          BY <1>1, <4>2, <5>1, HighestIs
        <5>3. S \ {x} \in D /\ m \notin S \ {x}
          BY <3>1, <3>4, <5>2
        <5>4. w[S \ {x}] = u[S \ {x}]
          BY <5>3
        <5>5. CASE m \in S
          BY <4>2, <5>1, <5>4, <5>5
        <5>6. CASE m \notin S
          <6>1. S \subseteq 1..(m - 1)
            BY <3>1, <3>4, <5>6
          <6>2. u[S] = At(u, S)
            BY <3>2, <6>1
          <6> QED
            BY <4>2, <5>1, <5>4, <5>6, <6>2
        <5> QED
          BY <5>5, <5>6
      <4> QED
        BY <4>1, <4>2
    <3>5. UpTo(w, m)
      BY <3>4
    <3> HIDE DEF w, UpTo
    <3> QED
      BY <2>3, <3>3, <3>5
  <2> QED
    BY <2>4, <2>5
<1>3. PICK h : h = [S \in D |-> h[S]] /\ UpTo(h, n)
  <2>0. n \in 0..n
    BY <1>1
  <2>1. ~~\E h : h = [S \in D |-> h[S]] /\ UpTo(h, n)
    <3> HIDE DEF UpTo
    <3> QED
      BY <2>0, <1>2
  <2> HIDE DEF UpTo
  <2> QED
    BY <2>1
<1>4. \A S \in D : h[S] = At(h, S)
  BY <1>3
<1>5. h = [S \in D |-> At(h, S)]
  BY <1>3, <1>4
<1> QED
  BY <1>1, <1>5 DEF Folded

\* The fold over a sequence is the last of its running sums.
LEMMA DealtIs ==
    ASSUME NEW s \in Seq(Fragment), NEW k
    PROVE  \E P : Running(P, s, k) /\ Dealt(k, s) = P[Len(s)]
<1> DEFINE n == Len(s)
           B(h) == h = [S \in SUBSET (DOMAIN s) |->
                          IF S = {} THEN 0
                          ELSE (IF s[Router!Max(S)].order = k
                                THEN s[Router!Max(S)].quantity ELSE 0)
                                 + h[S \ {Router!Max(S)}]]
<1>1. Dealt(k, s) = (CHOOSE h : B(h))[DOMAIN s]
  BY Zenon DEF Dealt, Router!MapThenFoldSet
<1>2. \A h : B(h) <=> Folded(h, s, k)
  BY Zenon DEF Folded, Part
<1>3. PICK h : Folded(h, s, k) /\ Dealt(k, s) = h[DOMAIN s]
  <2>1. \E h : B(h)
    <3> HIDE DEF B
    <3> QED
      BY <1>2, FoldExists
  <2> HIDE DEF B
  <2> QED
    BY <1>1, <1>2, <2>1
<1>4. n \in Nat /\ DOMAIN s = 1..n
  OBVIOUS
<1>5. \A i \in 1..n : Part(s, i, k) \in Nat
  BY PartCounts
<1> HIDE DEF n
<1>6. h[{}] = 0
  BY <1>3 DEF Folded
<1>7. ASSUME NEW i \in 1..n PROVE h[1..i] = Part(s, i, k) + h[1..(i - 1)]
  <2>1. 1..i \in SUBSET (1..n) /\ 1..i # {} /\ i \in 1..i
    BY <1>4
  <2>2. Router!Max(1..i) \in 1..i /\ \A x \in 1..i : Router!Max(1..i) >= x
    BY <1>4, <2>1, HighestIs
  <2>3. Router!Max(1..i) = i
    BY <2>1, <2>2
  <2>4. (1..i) \ {i} = 1..(i - 1)
    BY <1>4
  <2> QED
    BY <1>3, <1>4, <2>1, <2>3, <2>4 DEF Folded
<1> DEFINE Z == {i \in 0..n : h[1..i] \notin Int}
<1>8. Z = {}
  <2>1. SUFFICES ASSUME Z # {} PROVE FALSE
    OBVIOUS
  <2>2. PICK i \in Z : \A j \in Z : i <= j
    <3>1. Z \subseteq Nat
      BY <1>4
    <3> HIDE DEF Z
    <3> QED
      BY <2>1, <3>1, LeastNumber
  <2>3. i \in 0..n /\ h[1..i] \notin Int /\ i \in Nat
    BY <1>4, <2>2
  <2>4. i # 0
    <3>1. 1..0 = {}
      OBVIOUS
    <3> QED
      BY <1>6, <2>3, <3>1
  <2>5. i \in 1..n /\ i - 1 \in 0..n /\ ~(i <= i - 1)
    BY <1>4, <2>3, <2>4
  <2>6. h[1..(i - 1)] \in Int
    BY <2>2, <2>5
  <2>7. Part(s, i, k) \in Int
    BY <1>5, <2>5
  <2> QED
    BY <1>7, <2>3, <2>5, <2>6, <2>7
<1> DEFINE P == [i \in 0..n |-> h[1..i]]
<1>9. P \in [0..n -> Int] /\ P[n] = h[DOMAIN s] /\ n \in 0..n /\ 0 \in 0..n
  BY <1>4, <1>8
<1>10. P[0] = 0
  <2>1. 1..0 = {}
    OBVIOUS
  <2> QED
    BY <1>6, <1>9, <2>1
<1>11. ASSUME NEW i \in 1..n PROVE P[i] = P[i - 1] + Part(s, i, k)
  <2>1. i \in 0..n /\ i - 1 \in 0..n
    BY <1>4
  <2>2. h[1..(i - 1)] \in Int /\ Part(s, i, k) \in Int
    BY <1>5, <1>8, <2>1
  <2> QED
    BY <1>7, <2>1, <2>2
<1> HIDE DEF P
<1> QED
  BY <1>3, <1>9, <1>10, <1>11 DEF Running, n

LEMMA RunningEnds ==
    ASSUME NEW s \in Seq(Fragment), NEW k, NEW P, NEW e,
           Running(P, s, k), Running(e, s, k)
    PROVE  P[Len(s)] = e[Len(s)]
<1> DEFINE Z == {i \in 0..Len(s) : P[i] # e[i]}
<1>0. Len(s) \in Nat
  OBVIOUS
<1>1. SUFFICES ASSUME Z # {} PROVE FALSE
  <2>1. Len(s) \in 0..Len(s)
    BY <1>0
  <2> QED
    BY <2>1
<1>2. PICK i \in Z : \A j \in Z : i <= j
  <2>1. Z \subseteq Nat
    BY <1>0
  <2> HIDE DEF Z
  <2> QED
    BY <1>1, <2>1, LeastNumber
<1>3. i \in 0..Len(s) /\ P[i] # e[i] /\ i # 0 /\ i \in Nat
  BY <1>0, <1>2 DEF Running
<1>4. i \in 1..Len(s) /\ i - 1 \in 0..Len(s) /\ ~(i <= i - 1)
  BY <1>0, <1>3
<1>5. P[i - 1] = e[i - 1]
  BY <1>2, <1>4
<1> QED
  BY <1>3, <1>4, <1>5 DEF Running

\* The running sums of one sequence go on from those of the other.
LEMMA DealtJoined ==
    ASSUME NEW s \in Seq(Fragment), NEW t \in Seq(Fragment), NEW k
    PROVE  /\ Dealt(k, s) \in Int /\ Dealt(k, t) \in Int
           /\ Dealt(k, s \o t) = Dealt(k, s) + Dealt(k, t)
<1>1. PICK P : Running(P, s, k) /\ Dealt(k, s) = P[Len(s)]
  BY DealtIs
<1>2. PICK Q : Running(Q, t, k) /\ Dealt(k, t) = Q[Len(t)]
  BY DealtIs
<1>3. PICK r \in Seq(Fragment) : r = s \o t
  <2>1. s \o t \in Seq(Fragment)
    OBVIOUS
  <2> QED
    BY <2>1
<1>4. PICK R : Running(R, r, k) /\ Dealt(k, r) = R[Len(r)]
  BY DealtIs
<1>5. PICK m, n \in Nat : m = Len(s) /\ n = Len(t) /\ Len(r) = m + n
  BY <1>3
<1>6. /\ \A i \in 1..m : r[i] = s[i]
      /\ \A i \in 1..(m + n) : i > m => r[i] = t[i - m]
  BY <1>3, <1>5
<1>7. /\ P \in [0..m -> Int] /\ P[0] = 0 /\ \A i \in 1..m : P[i] = P[i - 1] + Part(s, i, k)
      /\ Q \in [0..n -> Int] /\ Q[0] = 0 /\ \A i \in 1..n : Q[i] = Q[i - 1] + Part(t, i, k)
  BY <1>1, <1>2, <1>5 DEF Running
<1> DEFINE e == [i \in 0..(m + n) |-> IF i <= m THEN P[i] ELSE P[m] + Q[i - m]]
<1>8. e \in [0..(m + n) -> Int]
  <2>1. \A i \in 0..(m + n) : (i <= m => P[i] \in Int) /\ (~(i <= m) => Q[i - m] \in Int)
    BY <1>7
  <2>2. P[m] \in Int
    BY <1>7
  <2>3. ASSUME NEW i \in 0..(m + n) PROVE (IF i <= m THEN P[i] ELSE P[m] + Q[i - m]) \in Int
    <3>1. CASE i <= m
      BY <2>1, <3>1
    <3>2. CASE ~(i <= m)
      <4>1. Q[i - m] \in Int
        BY <2>1, <3>2
      <4>2. P[m] + Q[i - m] \in Int
        BY <2>2, <4>1
      <4> QED
        BY <3>2, <4>2
    <3> QED
      BY <3>1, <3>2
  <2> QED
    BY <2>3
<1>9. /\ \A i \in 0..(m + n) : i <= m => e[i] = P[i]
      /\ \A i \in 0..(m + n) : ~(i <= m) => e[i] = P[m] + Q[i - m]
  OBVIOUS
<1> HIDE DEF e
<1>10. ASSUME NEW i \in 1..(m + n) PROVE e[i] = e[i - 1] + Part(r, i, k)
  <2>1. CASE i <= m
    <3>1. i \in 0..(m + n) /\ i - 1 \in 0..(m + n) /\ i - 1 <= m /\ i \in 1..m
      BY <2>1
    <3>2. e[i] = P[i] /\ e[i - 1] = P[i - 1] /\ Part(r, i, k) = Part(s, i, k)
      BY <1>6, <1>9, <2>1, <3>1 DEF Part
    <3> QED
      BY <1>7, <3>1, <3>2
  <2>2. CASE i = m + 1
    <3>1. /\ i \in 0..(m + n) /\ i - 1 \in 0..(m + n) /\ i - 1 <= m /\ ~(i <= m)
          /\ i - 1 = m /\ i - m = 1 /\ 1 \in 1..n /\ 1 - 1 = 0 /\ i > m
      BY <2>2
    <3>2. e[i] = P[m] + Q[1] /\ e[i - 1] = P[m] /\ Part(r, i, k) = Part(t, 1, k)
      BY <1>6, <1>9, <3>1 DEF Part
    <3>3. Q[1] = Q[0] + Part(t, 1, k) /\ P[m] \in Int /\ Q[1] \in Int
      BY <1>7, <3>1
    <3>4. Part(t, 1, k) \in Int
      BY <1>5, <3>1, PartCounts
    <3> QED
      BY <1>7, <3>2, <3>3, <3>4
  <2>3. CASE ~(i <= m + 1)
    <3>1. PICK j \in Nat : j = i - m /\ j \in 1..n /\ j - 1 \in 0..n
      BY <2>3
    <3>2. /\ i \in 0..(m + n) /\ i - 1 \in 0..(m + n) /\ ~(i - 1 <= m) /\ ~(i <= m)
          /\ (i - 1) - m = j - 1 /\ i > m
      BY <2>3, <3>1
    <3>3. e[i] = P[m] + Q[j] /\ e[i - 1] = P[m] + Q[j - 1] /\ Part(r, i, k) = Part(t, j, k)
      BY <1>6, <1>9, <3>1, <3>2 DEF Part
    <3>4. Q[j] = Q[j - 1] + Part(t, j, k) /\ P[m] \in Int /\ Q[j - 1] \in Int
      BY <1>7, <3>1
    <3>5. Part(t, j, k) \in Int
      BY <1>5, <3>1, PartCounts, SMTT(30)
    <3> QED
      BY <3>3, <3>4, <3>5
  <2> QED
    BY <2>1, <2>2, <2>3
<1>11. e[0] = 0
  BY <1>7, <1>9
<1>12. Running(e, r, k)
  BY <1>5, <1>8, <1>10, <1>11 DEF Running
<1>13. R[m + n] = e[m + n]
  <2>1. R[Len(r)] = e[Len(r)]
    BY <1>4, <1>12, RunningEnds
  <2> QED
    BY <1>5, <2>1
<1>14. e[m + n] = P[m] + Q[n]
  <2>1. CASE n = 0
    BY <1>7, <1>9, <2>1
  <2>2. CASE n # 0
    <3>1. m + n \in 0..(m + n) /\ ~(m + n <= m) /\ (m + n) - m = n
      BY <2>2
    <3> QED
      BY <1>9, <3>1
  <2> QED
    BY <2>1, <2>2
<1>15. P[m] \in Int /\ Q[n] \in Int
  BY <1>7
<1> QED
  BY <1>1, <1>2, <1>3, <1>4, <1>5, <1>13, <1>14, <1>15

\* Fragments of other orders give nothing.
LEMMA DealtNothing ==
    ASSUME NEW s \in Seq(Fragment), NEW k, \A i \in 1..Len(s) : s[i].order # k
    PROVE  Dealt(k, s) = 0
<1>1. PICK P : Running(P, s, k) /\ Dealt(k, s) = P[Len(s)]
  BY DealtIs
<1> DEFINE e == [i \in 0..Len(s) |-> 0]
<1>2. e \in [0..Len(s) -> Int] /\ e[0] = 0
  OBVIOUS
<1>3. \A i \in 1..Len(s) : e[i] = e[i - 1] + Part(s, i, k)
  BY DEF Part
<1>4. e[Len(s)] = 0
  OBVIOUS
<1> HIDE DEF e
<1>5. Running(e, s, k)
  BY <1>2, <1>3 DEF Running
<1>6. P[Len(s)] = e[Len(s)]
  BY <1>1, <1>5, RunningEnds
<1> QED
  BY <1>1, <1>4, <1>6

\* s is an order of q, divided into n fragments.
Divided(s, k, q, n) ==
    /\ Len(s) = n
    /\ \A i \in 1..n : s[i].order = k /\ s[i].quantity = Router!FragmentQuantity(q, n, i)

\* The fragments of one split give the order its quantity.
LEMMA DealtWhole ==
    ASSUME NEW s \in Seq(Fragment), NEW k \in Nat, NEW q \in Nat, NEW n \in Nat \ {0},
           Divided(s, k, q, n)
    PROVE  Dealt(k, s) = q
<1>0. /\ Len(s) = n
      /\ \A i \in 1..n :
           s[i].order = k /\ s[i].quantity = Router!FragmentQuantity(q, n, i)
  BY DEF Divided
<1>1. PICK P : Running(P, s, k) /\ Dealt(k, s) = P[n]
  BY <1>0, DealtIs
<1>2. PICK each, rest \in Nat : each = q \div n /\ rest = q % n /\ q = n * each + rest
  <2>2. q \div n \in Nat /\ q % n \in Nat /\ q = n * (q \div n) + (q % n)
    BY Quotients
  <2> QED
    BY <2>2
<1> DEFINE e == [i \in 0..n |-> i * each + (IF i = 0 THEN 0 ELSE rest)]
<1>3. e \in [0..n -> Int] /\ e[0] = 0 /\ e[n] = q
  <2>1. \A i \in 0..n : i * each + (IF i = 0 THEN 0 ELSE rest) \in Int
    BY <1>2
  <2>2. e[0] = 0
    BY <1>2
  <2>3. e[n] = q
    BY <1>2
  <2> QED
    BY <2>1, <2>2, <2>3
<1>4. ASSUME NEW i \in 1..n PROVE e[i] = e[i - 1] + Part(s, i, k)
  <2>1. Part(s, i, k) = each + (IF i = 1 THEN rest ELSE 0)
    BY <1>0, <1>2 DEF Part, Router!FragmentQuantity
  <2>0. i \in 0..n /\ i - 1 \in 0..n /\ i # 0 /\ i \in Int /\ i - 1 \in Int
    OBVIOUS
  <2>2. i * each = (i - 1) * each + each /\ (i - 1) * each \in Int
    BY <1>2, <2>0, MultipleIs
  <2>3. e[i] = i * each + rest
    BY <2>0
  <2>4. e[i - 1] = (i - 1) * each + (IF i = 1 THEN 0 ELSE rest)
    BY <2>0
  <2>5. PICK a, b \in Int : a = i * each /\ b = (i - 1) * each /\ a = b + each
    BY <1>2, <2>2
  <2> HIDE DEF e
  <2> QED
    <3>1. e[i] = a + rest /\ e[i - 1] = b + (IF i = 1 THEN 0 ELSE rest)
      BY <2>3, <2>4, <2>5
    <3>2. CASE i = 1
      <4>1. Part(s, i, k) = each + rest
        BY <1>2, <2>1, <3>2
      <4>2. e[i] = (b + each) + rest
        BY <2>5, <3>1
      <4>3. e[i - 1] = b
        BY <2>5, <3>1, <3>2
      <4>4. (b + each) + rest = b + (each + rest)
        OBVIOUS
      <4> QED
        BY <4>1, <4>2, <4>3, <4>4
    <3>3. CASE i # 1
      <4>1. Part(s, i, k) = each
        BY <1>2, <2>1, <3>3
      <4>2. e[i] = (b + each) + rest
        BY <2>5, <3>1
      <4>3. e[i - 1] = b + rest
        BY <2>5, <3>1, <3>3
      <4>4. (b + each) + rest = (b + rest) + each
        OBVIOUS
      <4> QED
        BY <4>1, <4>2, <4>3, <4>4
    <3> QED
      BY <3>2, <3>3
<1> HIDE DEF e
<1>5. Running(e, s, k)
  BY <1>0, <1>3, <1>4 DEF Running
<1>6. P[n] = e[n]
  <2>1. P[Len(s)] = e[Len(s)]
    BY <1>1, <1>5, RunningEnds
  <2> QED
    BY <1>0, <2>1
<1> QED
  BY <1>1, <1>3, <1>6

\* Fragments belong to orders split, which got what they asked for.
RouterInv ==
    /\ fragments \in Seq(Fragment) /\ ordered \in Seq(Nat)
    /\ \A i \in 1..Len(fragments) : fragments[i].order <= Len(ordered)
    /\ \A k \in 1..Len(ordered) : Dealt(k, fragments) = ordered[k]

\* What two sequences have, one after the other.
LEMMA Joined ==
    ASSUME NEW S, NEW s \in Seq(S), NEW t \in Seq(S)
    PROVE  /\ s \o t \in Seq(S) /\ Len(s \o t) = Len(s) + Len(t)
           /\ \A i \in 1..(Len(s) + Len(t)) :
                (s \o t)[i] = IF i <= Len(s) THEN s[i] ELSE t[i - Len(s)]
OBVIOUS

LEMMA SplitStep ==
    ASSUME Router!RouterAssumption, RouterInv, Router!SplitOrder
    PROVE  RouterInv'
<1>1. PICK q \in Quantities, n \in 1..MaxFragments :
        \E route \in [1..n -> Router!SelectBestBroker] :
          /\ fragments' = fragments \o
               [i \in 1..n |-> [order |-> Len(ordered) + 1, broker |-> route[i],
                                quantity |-> Router!FragmentQuantity(q, n, i)]]
          /\ ordered' = Append(ordered, q)
  BY DEF Router!SplitOrder
<1>2. PICK route \in [1..n -> Router!SelectBestBroker] :
          /\ fragments' = fragments \o
               [i \in 1..n |-> [order |-> Len(ordered) + 1, broker |-> route[i],
                                quantity |-> Router!FragmentQuantity(q, n, i)]]
          /\ ordered' = Append(ordered, q)
  BY <1>1
<1>3. q \in Nat /\ n \in Nat \ {0}
  BY DEF Router!RouterAssumption
<1>4. PICK l \in Nat : l = Len(ordered)
  BY DEF RouterInv
<1>5. PICK new : new = [i \in 1..n |-> [order |-> l + 1, broker |-> route[i],
                                        quantity |-> Router!FragmentQuantity(q, n, i)]]
  OBVIOUS
<1>6. /\ new \in Seq(Fragment) /\ Len(new) = n
      /\ \A i \in 1..n : /\ new[i].order = l + 1
                         /\ new[i].quantity = Router!FragmentQuantity(q, n, i)
  <2>1. \A i \in 1..n : Router!FragmentQuantity(q, n, i) \in Nat
    <3>0. n > 0 /\ n \in Nat
      BY <1>3
    <3>1. q \div n \in Nat /\ q % n \in Nat
      BY <1>3, Quotients
    <3> QED
      BY <3>1 DEF Router!FragmentQuantity
  <2>2. new \in [1..n -> Fragment]
    BY <1>5, <2>1 DEF Fragment
  <2>3. new \in Seq(Fragment) /\ Len(new) = n
    BY <1>3, <2>2
  <2> QED
    BY <1>5, <2>3
<1>6a. Divided(new, l + 1, q, n)
  BY <1>6 DEF Divided
<1>7. PICK m \in Nat : m = Len(fragments)
  BY DEF RouterInv
<1>8. fragments' = fragments \o new /\ fragments \in Seq(Fragment)
  BY <1>2, <1>4, <1>5 DEF RouterInv
<1>8a. PICK old \in Seq(Fragment) : old = fragments
  BY <1>8
<1>8b. PICK both : both = old \o new
  OBVIOUS
<1>8c. /\ both \in Seq(Fragment) /\ Len(both) = m + n
       /\ \A i \in 1..m : both[i] = old[i]
       /\ \A i \in 1..(m + n) : i > m => both[i] = new[i - m]
  <2>1. Len(old) = m /\ Len(new) = n /\ new \in Seq(Fragment) /\ n \in Nat
    BY <1>3, <1>6, <1>7, <1>8a
  <2>2. /\ both \in Seq(Fragment) /\ Len(both) = Len(old) + Len(new)
        /\ \A i \in 1..(Len(old) + Len(new)) :
             both[i] = IF i <= Len(old) THEN old[i] ELSE new[i - Len(old)]
    BY <1>8b, <2>1, Joined
  <2>3. \A i \in 1..m : both[i] = old[i]
    <3>1. \A i \in 1..m : i \in 1..(m + n) /\ i <= m
      BY <2>1
    <3> QED
      BY <2>1, <2>2, <3>1
  <2>4. \A i \in 1..(m + n) : i > m => both[i] = new[i - m]
    <3>1. \A i \in 1..(m + n) : i > m => ~(i <= m)
      BY <2>1
    <3> QED
      BY <2>1, <2>2, <3>1
  <2> QED
    BY <2>1, <2>2, <2>3, <2>4
<1>9. /\ fragments' \in Seq(Fragment) /\ Len(fragments') = m + n
      /\ \A i \in 1..m : fragments'[i] = fragments[i]
      /\ \A i \in 1..(m + n) : i > m => fragments'[i] = new[i - m]
  BY <1>8, <1>8a, <1>8b, <1>8c
<1>10. /\ ordered' \in Seq(Nat) /\ Len(ordered') = l + 1 /\ ordered'[l + 1] = q
       /\ \A k \in 1..l : ordered'[k] = ordered[k]
  BY <1>2, <1>3, <1>4 DEF RouterInv
<1>11. ASSUME NEW i \in 1..Len(fragments') PROVE fragments'[i].order <= Len(ordered')
  <2>1. CASE i <= m
    <3>1. i \in 1..m
      BY <1>9, <2>1
    <3>2. fragments[i].order <= l /\ fragments[i].order \in Nat
      BY <1>4, <1>7, <1>8, <3>1, PartCounts DEF RouterInv
    <3> QED
      BY <1>9, <1>10, <3>1, <3>2
  <2>2. CASE ~(i <= m)
    <3>1. i - m \in 1..n /\ i > m /\ i \in 1..(m + n)
      BY <1>3, <1>9, <2>2
    <3> QED
      BY <1>6, <1>9, <1>10, <3>1
  <2> QED
    BY <2>1, <2>2
<1>12. ASSUME NEW k \in 1..(l + 1) PROVE Dealt(k, fragments \o new) = ordered'[k]
  <2>1. /\ Dealt(k, fragments) \in Int /\ Dealt(k, new) \in Int
        /\ Dealt(k, fragments \o new) = Dealt(k, fragments) + Dealt(k, new)
    BY <1>6, <1>8, DealtJoined
  <2>2. CASE k = l + 1
    <3>1. \A i \in 1..Len(fragments) : fragments[i].order # k
      <4>1. \A i \in 1..Len(fragments) : fragments[i].order <= l /\ fragments[i].order \in Nat
        BY <1>4, <1>8, PartCounts DEF RouterInv
      <4> QED
        BY <2>2, <4>1
    <3>2. Dealt(k, fragments) = 0
      BY <1>8, <3>1, DealtNothing
    <3>3. Dealt(k, new) = q
      <4>1. k \in Nat
        OBVIOUS
      <4>2. new \in Seq(Fragment) /\ Len(new) = n
        BY <1>6
      <4>3. Divided(new, k, q, n)
        BY <1>6a, <2>2
      <4> QED
        BY <1>3, <4>1, <4>2, <4>3, DealtWhole
    <3> QED
      BY <1>3, <1>10, <2>1, <2>2, <3>2, <3>3
  <2>3. CASE k # l + 1
    <3>1. k \in 1..l
      BY <2>3
    <3>2. \A i \in 1..Len(new) : new[i].order # k
      BY <1>6, <2>3
    <3>3. Dealt(k, new) = 0
      BY <1>6, <3>2, DealtNothing
    <3>4. Dealt(k, fragments) = ordered[k]
      BY <1>4, <3>1 DEF RouterInv
    <3> QED
      BY <1>10, <2>1, <3>1, <3>3, <3>4
  <2> QED
    BY <2>2, <2>3
<1>13. \A k \in 1..(l + 1) : Dealt(k, fragments') = ordered'[k]
  BY <1>8, <1>12
<1> QED
  BY <1>9, <1>10, <1>11, <1>13 DEF RouterInv

\* What the proof of QuantitiesKept goes by, in every state.
LEMMA RouterKept ==
    ASSUME Router!RouterAssumption PROVE Router!Spec => []RouterInv
<1>1. Router!Init => RouterInv
  <2> SUFFICES ASSUME Router!Init PROVE RouterInv
    OBVIOUS
  <2>1. fragments = <<>> /\ ordered = <<>>
    BY DEF Router!Init
  <2>2. /\ fragments \in Seq(Fragment) /\ ordered \in Seq(Nat)
        /\ \A i \in 1..Len(fragments) : FALSE
        /\ \A i \in 1..Len(ordered) : FALSE
    BY <2>1
  <2> QED
    BY <2>2 DEF RouterInv
<1>2. RouterInv /\ [Router!Next]_Router!vars => RouterInv'
  <2>1. ASSUME RouterInv, fragments' = fragments, ordered' = ordered PROVE RouterInv'
    BY <2>1 DEF RouterInv
  <2>2. Router!RecordExecution => fragments' = fragments /\ ordered' = ordered
    BY DEF Router!RecordExecution
  <2>3. UNCHANGED Router!vars => fragments' = fragments /\ ordered' = ordered
    BY DEF Router!vars
  <2> QED
    BY <2>1, <2>2, <2>3, SplitStep DEF Router!Next
<1> QED
  BY <1>1, <1>2, PTL DEF Router!Spec

\* Lines 56-72: however many orders are split into the same vector, and however
\* little there is to split, the fragments of each add up to its quantity.
THEOREM QuantitiesKept ==
    ASSUME Router!RouterAssumption PROVE Router!Spec => []Router!QuantityKept
<1>1. RouterInv => Router!QuantityKept
  <2> SUFFICES ASSUME RouterInv PROVE Router!QuantityKept
    OBVIOUS
  <2>1. DOMAIN ordered = 1..Len(ordered)
    BY DEF RouterInv
  <2>2. \A k \in DOMAIN ordered : Dealt(k, fragments) = ordered[k]
    BY <2>1 DEF RouterInv
  <2> QED
    BY <2>2, Zenon DEF Router!QuantityKept, Dealt
<1> QED
  BY <1>1, RouterKept, PTL

-----------------------------------------------------------------------------
(* The regime filter. *)

Matrices == [Regime!States -> [Regime!States -> Int]]

Observed == [transition : Matrices, observation : Observations]

\* What a step from state i to j adds to a path.
Gain(s, i, j) == s.transition[i][j] + EmissionLogs[s.observation][j]

\* The model's PathLog, of any observations.
PathSum(obs, path) ==
    LET upTo[n \in 0..Len(obs)] ==
          IF n = 0 THEN 0
          ELSE upTo[n - 1] + obs[n].transition[path[n - 1]][path[n]]
                           + EmissionLogs[obs[n].observation][path[n]]
    IN upTo[Len(obs)]

Totals(u, obs, path) ==
    u = [n \in 0..Len(obs) |->
           IF n = 0 THEN 0
           ELSE u[n - 1] + obs[n].transition[path[n - 1]][path[n]]
                         + EmissionLogs[obs[n].observation][path[n]]]

Summed(u, obs, path) ==
    /\ u \in [0..Len(obs) -> Int] /\ u[0] = 0
    /\ \A n \in 1..Len(obs) : u[n] = u[n - 1] + Gain(obs[n], path[n - 1], path[n])

Paths(obs) == [0..Len(obs) -> Regime!States]

LEMMA GainIs ==
    ASSUME Regime!RegimeAssumption, NEW s \in Observed, NEW i \in Regime!States,
           NEW j \in Regime!States
    PROVE  /\ s.transition[i][j] \in Int /\ EmissionLogs[s.observation][j] \in Int
           /\ Gain(s, i, j) \in Int
<1>1. s.transition[i][j] \in Int
  <2>1. s.transition \in Matrices
    BY DEF Observed
  <2> QED
    BY <2>1 DEF Matrices
<1>2. EmissionLogs[s.observation][j] \in Int
  <2>1. EmissionLogs[s.observation] \in [Regime!States -> Int]
    BY DEF Observed, Regime!RegimeAssumption, Regime!States
  <2> QED
    BY <2>1
<1> QED
  BY <1>1, <1>2 DEF Gain

LEMMA StepIs ==
    ASSUME Regime!RegimeAssumption, NEW obs \in Seq(Observed), NEW p \in Paths(obs),
           NEW n \in 1..Len(obs)
    PROVE  /\ obs[n] \in Observed /\ p[n - 1] \in Regime!States /\ p[n] \in Regime!States
           /\ Gain(obs[n], p[n - 1], p[n]) \in Int
<1>1. n - 1 \in 0..Len(obs) /\ n \in 0..Len(obs) /\ obs[n] \in Observed
  OBVIOUS
<1>2. p[n - 1] \in Regime!States /\ p[n] \in Regime!States
  BY <1>1 DEF Paths
<1> QED
  BY <1>1, <1>2, GainIs

LEMMA SumExists ==
    ASSUME Regime!RegimeAssumption, NEW obs \in Seq(Observed), NEW p \in Paths(obs)
    PROVE  \E u : Summed(u, obs, p)
<1> DEFINE L == Len(obs)
           Good(u, m) == /\ u \in [0..L -> Int] /\ u[0] = 0
                         /\ \A n \in 1..m : u[n] = u[n - 1] + Gain(obs[n], p[n - 1], p[n])
           Z == {m \in 0..L : ~\E u : Good(u, m)}
<1>1. L \in Nat
  OBVIOUS
<1>2. \A n \in 1..L : Gain(obs[n], p[n - 1], p[n]) \in Int
  BY StepIs
<1> HIDE DEF L
<1>3. Z = {}
  <2>1. SUFFICES ASSUME Z # {} PROVE FALSE
    OBVIOUS
  <2>2. PICK m \in Z : \A k \in Z : m <= k
    <3>1. Z \subseteq Nat
      BY <1>1
    <3> HIDE DEF Z
    <3> QED
      BY <2>1, <3>1, LeastNumber
  <2>3. m \in 0..L /\ ~\E u : Good(u, m)
    <3> HIDE DEF Good
    <3> QED
      BY <2>2
  <2>4. CASE m = 0
    <3> DEFINE u == [n \in 0..L |-> 0]
    <3>1. Good(u, m)
      BY <1>1, <2>4
    <3> HIDE DEF u, Good
    <3> QED
      BY <2>3, <3>1
  <2>5. CASE m # 0
    <3>1. m - 1 \in 0..L /\ m \in 1..L /\ ~(m <= m - 1)
      BY <1>1, <2>3, <2>5
    <3>2. PICK u : Good(u, m - 1)
      <4>1. m - 1 \notin Z
        <5> HIDE DEF Z
        <5> QED
          BY <2>2, <3>1
      <4> HIDE DEF Good
      <4> QED
        BY <3>1, <4>1
    <3>3. u[m - 1] \in Int
      BY <3>1, <3>2
    <3>4. PICK x \in Int : x = u[m - 1] + Gain(obs[m], p[m - 1], p[m])
      BY <1>2, <3>1, <3>3
    <3> DEFINE w == [u EXCEPT ![m] = x]
    <3>5. w \in [0..L -> Int] /\ w[0] = 0
      BY <1>1, <3>1, <3>2
    <3>6. ASSUME NEW n \in 1..m PROVE w[n] = w[n - 1] + Gain(obs[n], p[n - 1], p[n])
      <4>1. n \in 0..L /\ n - 1 \in 0..L /\ n - 1 # m
        BY <1>1, <3>1
      <4>2. w[n - 1] = u[n - 1]
        BY <3>2, <4>1
      <4>3. CASE n = m
        BY <3>2, <3>4, <4>1, <4>2, <4>3
      <4>4. CASE n # m
        <5>1. n \in 1..(m - 1)
          BY <3>1, <4>4
        <5>2. w[n] = u[n]
          BY <3>2, <4>1, <4>4
        <5> QED
          BY <3>2, <4>2, <5>1, <5>2
      <4> QED
        BY <4>3, <4>4
    <3>7. Good(w, m)
      BY <3>5, <3>6
    <3> HIDE DEF w, Good
    <3> QED
      BY <2>3, <3>7
  <2> QED
    BY <2>4, <2>5
<1>4. PICK u : Good(u, L)
  <2>1. L \in 0..L
    BY <1>1
  <2>2. ~~\E u : Good(u, L)
    <3> HIDE DEF Good
    <3> QED
      BY <1>3, <2>1
  <2> HIDE DEF Good
  <2> QED
    BY <2>2
<1> QED
  BY <1>4 DEF L, Summed

LEMMA PathSumIs ==
    ASSUME Regime!RegimeAssumption, NEW obs \in Seq(Observed), NEW p \in Paths(obs),
           NEW u, Summed(u, obs, p)
    PROVE  PathSum(obs, p) = u[Len(obs)]
<1> DEFINE L == Len(obs)
           B(h) == h = [n \in 0..Len(obs) |->
                          IF n = 0 THEN 0
                          ELSE h[n - 1] + obs[n].transition[p[n - 1]][p[n]]
                                        + EmissionLogs[obs[n].observation][p[n]]]
<1>1. PathSum(obs, p) = (CHOOSE h : B(h))[Len(obs)]
  BY Zenon DEF PathSum
<1>2. \A h : B(h) <=> Totals(h, obs, p)
  BY Zenon DEF Totals
<1>3. Totals(u, obs, p)
  <2>1. ASSUME NEW n \in 1..Len(obs)
        PROVE  u[n] = u[n - 1] + obs[n].transition[p[n - 1]][p[n]]
                               + EmissionLogs[obs[n].observation][p[n]]
    <3>1. /\ obs[n] \in Observed /\ p[n - 1] \in Regime!States /\ p[n] \in Regime!States
      BY StepIs
    <3>2. /\ obs[n].transition[p[n - 1]][p[n]] \in Int
          /\ EmissionLogs[obs[n].observation][p[n]] \in Int
      BY <3>1, GainIs
    <3>3. u[n] = u[n - 1] + Gain(obs[n], p[n - 1], p[n])
      BY DEF Summed
    <3>4. n - 1 \in 0..Len(obs)
      OBVIOUS
    <3>5. u[n - 1] \in Int
      BY <3>4 DEF Summed
    <3> QED
      BY <3>2, <3>3, <3>5 DEF Gain
  <2>2. \A n \in 0..Len(obs) : n # 0 => n \in 1..Len(obs)
    OBVIOUS
  <2>3. u \in [0..Len(obs) -> Int] /\ u[0] = 0
    BY DEF Summed
  <2>4. \A n \in 0..Len(obs) :
          u[n] = IF n = 0 THEN 0
                 ELSE u[n - 1] + obs[n].transition[p[n - 1]][p[n]]
                               + EmissionLogs[obs[n].observation][p[n]]
    BY <2>1, <2>2, <2>3
  <2> QED
    BY <2>3, <2>4 DEF Totals
<1>4. PICK h : Totals(h, obs, p) /\ PathSum(obs, p) = h[Len(obs)]
  <2>1. \E h : B(h)
    <3> HIDE DEF B
    <3> QED
      BY <1>2, <1>3
  <2> HIDE DEF B
  <2> QED
    BY <1>1, <1>2, <2>1
<1> DEFINE Z == {n \in 0..L : h[n] # u[n]}
<1>5. L \in Nat
  OBVIOUS
<1>6. Z = {}
  <2>1. SUFFICES ASSUME Z # {} PROVE FALSE
    OBVIOUS
  <2>2. PICK n \in Z : \A k \in Z : n <= k
    <3>1. Z \subseteq Nat
      BY <1>5
    <3> HIDE DEF Z
    <3> QED
      BY <2>1, <3>1, LeastNumber, Zenon
  <2>3. n \in 0..L /\ h[n] # u[n] /\ n \in Nat
    BY <1>5, <2>2
  <2>4. n # 0
    BY <1>3, <1>4, <2>3, Zenon DEF Totals
  <2>5. n - 1 \in 0..L /\ ~(n <= n - 1)
    BY <1>5, <2>3, <2>4
  <2>6. h[n - 1] = u[n - 1]
    BY <2>2, <2>5
  <2>7. h[n] = u[n]
    <3>1. h[n] = h[n - 1] + obs[n].transition[p[n - 1]][p[n]]
                          + EmissionLogs[obs[n].observation][p[n]]
      BY <1>4, <2>3, <2>4, ZenonT(60) DEF Totals
    <3>2. u[n] = u[n - 1] + obs[n].transition[p[n - 1]][p[n]]
                          + EmissionLogs[obs[n].observation][p[n]]
      BY <1>3, <2>3, <2>4, ZenonT(60) DEF Totals
    <3> QED
      BY <2>6, <3>1, <3>2, Zenon
  <2> QED
    BY <2>3, <2>7
<1>7. h[L] = u[L]
  <2>1. L \in 0..L
    BY <1>5
  <2> QED
    BY <1>6, <2>1
<1> QED
  BY <1>4, <1>7

LEMMA PathSumTyped ==
    ASSUME Regime!RegimeAssumption, NEW obs \in Seq(Observed), NEW p \in Paths(obs)
    PROVE  PathSum(obs, p) \in Int
<1>1. PICK u : Summed(u, obs, p)
  BY SumExists
<1>2. Len(obs) \in 0..Len(obs)
  OBVIOUS
<1>3. u[Len(obs)] \in Int
  BY <1>1, <1>2 DEF Summed
<1> QED
  BY <1>1, <1>3, PathSumIs

\* The last step adds its gain to the path before.
LEMMA OneMore ==
    ASSUME Regime!RegimeAssumption, NEW obs \in Seq(Observed), NEW s \in Observed,
           NEW q \in Paths(Append(obs, s)), NEW p \in Paths(obs),
           \A n \in 0..Len(obs) : p[n] = q[n]
    PROVE  /\ PathSum(obs, p) \in Int
           /\ PathSum(Append(obs, s), q)
                = PathSum(obs, p) + Gain(s, q[Len(obs)], q[Len(obs) + 1])
<1>1. PICK u : Summed(u, obs, p)
  BY SumExists
<1>2. PICK L \in Nat : L = Len(obs)
  OBVIOUS
<1>3. PICK more \in Seq(Observed) : more = Append(obs, s)
  <2>1. Append(obs, s) \in Seq(Observed)
    OBVIOUS
  <2> QED
    BY <2>1
<1>4. /\ Len(more) = L + 1 /\ more[L + 1] = s
      /\ \A n \in 1..L : more[n] = obs[n]
  BY <1>2, <1>3
<1>5. q \in Paths(more) /\ \A n \in 0..L : p[n] = q[n]
  BY <1>2, <1>3
<1>6. /\ u \in [0..L -> Int] /\ u[0] = 0
      /\ \A n \in 1..L : u[n] = u[n - 1] + Gain(obs[n], p[n - 1], p[n])
  BY <1>1, <1>2 DEF Summed
<1>7. PICK g \in Int : g = Gain(s, q[L], q[L + 1])
  <2>1. L + 1 \in 1..Len(more) /\ (L + 1) - 1 = L
    BY <1>4
  <2>2. Gain(more[L + 1], q[(L + 1) - 1], q[L + 1]) \in Int
    BY <1>5, <2>1, StepIs
  <2> QED
    BY <1>4, <2>1, <2>2
<1> DEFINE w == [n \in 0..(L + 1) |-> IF n <= L THEN u[n] ELSE u[L] + g]
<1>8. u[L] \in Int
  BY <1>6
<1>9. w \in [0..(L + 1) -> Int] /\ w[0] = 0 /\ w[L + 1] = u[L] + g
  <2>1. \A n \in 0..(L + 1) : n <= L => u[n] \in Int
    BY <1>6
  <2>2. \A n \in 0..(L + 1) : (IF n <= L THEN u[n] ELSE u[L] + g) \in Int
    BY <1>8, <2>1
  <2>3. w[0] = 0
    BY <1>6
  <2>4. w[L + 1] = u[L] + g
    OBVIOUS
  <2> QED
    BY <2>2, <2>3, <2>4
<1>10. ASSUME NEW n \in 1..(L + 1) PROVE w[n] = w[n - 1] + Gain(more[n], q[n - 1], q[n])
  <2>1. CASE n = L + 1
    <3>1. n - 1 = L /\ L \in 0..(L + 1) /\ L <= L
      BY <2>1
    <3>2. w[n - 1] = u[L]
      BY <3>1
    <3> QED
      BY <1>4, <1>7, <1>9, <2>1, <3>1, <3>2
  <2>2. CASE n # L + 1
    <3>1. n \in 1..L /\ n - 1 \in 0..L /\ n \in 0..L /\ n - 1 <= L /\ n <= L
          /\ n \in 0..(L + 1) /\ n - 1 \in 0..(L + 1)
      BY <2>2
    <3>2. w[n] = u[n] /\ w[n - 1] = u[n - 1]
      BY <3>1
    <3>3. more[n] = obs[n] /\ q[n] = p[n] /\ q[n - 1] = p[n - 1]
      BY <1>4, <1>5, <3>1
    <3> QED
      BY <1>6, <3>1, <3>2, <3>3
  <2> QED
    BY <2>1, <2>2
<1> HIDE DEF w
<1>11. Summed(w, more, q)
  BY <1>4, <1>9, <1>10 DEF Summed
<1>12. PathSum(more, q) = w[L + 1]
  BY <1>4, <1>5, <1>11, PathSumIs
<1>13. PathSum(obs, p) = u[L]
  BY <1>1, <1>2, PathSumIs
<1> QED
  BY <1>2, <1>3, <1>7, <1>8, <1>9, <1>12, <1>13

\* A number for each state has a largest.
LEMMA HighestOver ==
    ASSUME Regime!RegimeAssumption, NEW f \in [Regime!States -> Int]
    PROVE  /\ \E i \in Regime!States : Regime!Max({f[k] : k \in Regime!States}) = f[i]
           /\ \A k \in Regime!States : f[k] <= Regime!Max({f[j] : j \in Regime!States})
<1> DEFINE S == {f[k] : k \in Regime!States}
           Leads(m) == \E i \in Regime!States : \A k \in 0..m : f[k] <= f[i]
           Z == {m \in Regime!States : ~Leads(m)}
<1>1. /\ Regime!States = 0..(NStates - 1) /\ 0 \in Regime!States
      /\ NStates - 1 \in Regime!States /\ NStates \in Nat
      /\ \A k \in Regime!States : f[k] \in Int
  BY DEF Regime!RegimeAssumption, Regime!States
<1>2. Z = {}
  <2>1. SUFFICES ASSUME Z # {} PROVE FALSE
    OBVIOUS
  <2>2. PICK m \in Z : \A k \in Z : m <= k
    <3>1. Z \subseteq Nat
      BY <1>1
    <3> HIDE DEF Z
    <3> QED
      BY <2>1, <3>1, LeastNumber
  <2>3. m \in Regime!States /\ ~Leads(m) /\ m \in Nat
    <3>1. m \in Regime!States /\ ~Leads(m)
      <4> HIDE DEF Leads
      <4> QED
        BY <2>2
    <3> HIDE DEF Leads
    <3> QED
      BY <1>1, <3>1
  <2>4. m # 0
    <3>1. \A k \in 0..0 : k = 0
      OBVIOUS
    <3>2. f[0] <= f[0]
      BY <1>1
    <3>3. Leads(0)
      BY <1>1, <3>1, <3>2
    <3> HIDE DEF Leads
    <3> QED
      BY <2>3, <3>3
  <2>5. m - 1 \in Regime!States /\ ~(m <= m - 1)
    BY <1>1, <2>3, <2>4
  <2>6. Leads(m - 1)
    <3> HIDE DEF Leads
    <3> QED
      BY <2>2, <2>5
  <2>7. PICK i \in Regime!States : \A k \in 0..(m - 1) : f[k] <= f[i]
    BY <2>6
  <2>8. \A k \in 0..m : k \in Regime!States /\ (k = m \/ k \in 0..(m - 1))
    BY <1>1, <2>3
  <2>9. f[i] \in Int /\ f[m] \in Int /\ \A k \in 0..m : f[k] \in Int
    BY <1>1, <2>3, <2>8
  <2>10. CASE f[m] <= f[i]
    <3>1. \A k \in 0..m : f[k] <= f[i]
      BY <2>7, <2>8, <2>10
    <3> QED
      BY <2>3, <3>1
  <2>11. CASE ~(f[m] <= f[i])
    <3>1. ASSUME NEW k \in 0..m PROVE f[k] <= f[m]
      <4>1. CASE k = m
        BY <2>9, <4>1
      <4>2. CASE k \in 0..(m - 1)
        <5>1. f[k] <= f[i] /\ f[k] \in Int
          BY <2>7, <2>9, <4>2
        <5> QED
          BY <2>9, <2>11, <5>1
      <4> QED
        BY <2>8, <4>1, <4>2
    <3> QED
      BY <2>3, <3>1
  <2> QED
    BY <2>10, <2>11
<1>3. Leads(NStates - 1)
  <2> HIDE DEF Leads
  <2> QED
    BY <1>1, <1>2
<1>4. PICK i \in Regime!States : \A k \in Regime!States : f[k] <= f[i]
  BY <1>1, <1>3
<1>5. f[i] \in S /\ \A y \in S : f[i] >= y
  BY <1>1, <1>4
<1>6. Regime!Max(S) \in S /\ \A y \in S : Regime!Max(S) >= y
  <2> HIDE DEF S
  <2> QED
    BY <1>5 DEF Regime!Max
<1>7. PICK j \in Regime!States : Regime!Max(S) = f[j]
  BY <1>6
<1>8. ASSUME NEW k \in Regime!States PROVE f[k] <= Regime!Max(S)
  <2>1. f[k] \in S
    OBVIOUS
  <2>2. f[j] >= f[k]
    BY <1>6, <1>7, <2>1
  <2> QED
    BY <1>1, <1>7, <2>2
<1> QED
  BY <1>7, <1>8

LEMMA BestIs ==
    ASSUME Regime!RegimeAssumption, NEW v \in [Regime!States -> Int]
    PROVE  /\ Regime!Best(v) \in Int
           /\ \E i \in Regime!States : Regime!Best(v) = v[i]
           /\ \A k \in Regime!States : v[k] <= Regime!Best(v)
<1>1. Regime!Best(v) = Regime!Max({v[k] : k \in Regime!States})
  BY DEF Regime!Best
<1>2. /\ \E i \in Regime!States : Regime!Best(v) = v[i]
      /\ \A k \in Regime!States : v[k] <= Regime!Best(v)
  BY <1>1, HighestOver
<1> QED
  BY <1>2

\* What all have in common does not matter.
LEMMA NormalisedSame ==
    ASSUME Regime!RegimeAssumption, NEW v \in [Regime!States -> Int],
           NEW w \in [Regime!States -> Int], NEW b \in Int,
           \A j \in Regime!States : w[j] = v[j] + b
    PROVE  Regime!Normalised(w) = Regime!Normalised(v)
<1>1. PICK i \in Regime!States : Regime!Best(v) = v[i]
  BY BestIs
<1>2. PICK k \in Regime!States : Regime!Best(w) = w[k]
  BY BestIs
<1>3. v[k] <= v[i] /\ w[i] <= w[k]
  BY <1>1, <1>2, BestIs
<1>4. v[i] \in Int /\ v[k] \in Int /\ w[i] = v[i] + b /\ w[k] = v[k] + b
  OBVIOUS
<1>5. Regime!Best(w) = Regime!Best(v) + b /\ Regime!Best(v) \in Int
  BY <1>1, <1>2, <1>3, <1>4
<1>6. \A j \in Regime!States : w[j] - Regime!Best(w) = v[j] - Regime!Best(v)
  BY <1>5
<1> QED
  BY <1>6 DEF Regime!Normalised

\* v holds the sum of the best path into each state.
BestInto(v, obs) ==
    \A j \in Regime!States :
        /\ \E p \in Paths(obs) : p[Len(obs)] = j /\ PathSum(obs, p) = v[j]
        /\ \A p \in Paths(obs) : p[Len(obs)] = j => PathSum(obs, p) <= v[j]

\* The filter's recursion: the best way into a state goes on from a best way.
LEMMA BestGoesOn ==
    ASSUME Regime!RegimeAssumption, NEW obs \in Seq(Observed), NEW s \in Observed,
           NEW v \in [Regime!States -> Int], NEW w \in [Regime!States -> Int],
           BestInto(v, obs),
           \A j \in Regime!States : \E i \in Regime!States : w[j] = v[i] + Gain(s, i, j),
           \A i, j \in Regime!States : v[i] + Gain(s, i, j) <= w[j]
    PROVE  BestInto(w, Append(obs, s))
<1>1. PICK L \in Nat : L = Len(obs)
  OBVIOUS
<1>2. PICK more : more = Append(obs, s)
  OBVIOUS
<1>3. Len(more) = L + 1
  BY <1>1, <1>2
<1>4. Paths(obs) = [0..L -> Regime!States] /\ Paths(more) = [0..(L + 1) -> Regime!States]
  BY <1>1, <1>3 DEF Paths
<1>5. ASSUME NEW q \in Paths(more), NEW p \in Paths(obs), \A n \in 0..L : p[n] = q[n]
      PROVE  PathSum(obs, p) \in Int /\ PathSum(more, q) = PathSum(obs, p) + Gain(s, q[L], q[L + 1])
  BY <1>1, <1>2, <1>5, OneMore
<1>6. ASSUME NEW j \in Regime!States
      PROVE  \E q \in Paths(more) : q[L + 1] = j /\ PathSum(more, q) = w[j]
  <2>1. PICK i \in Regime!States : w[j] = v[i] + Gain(s, i, j)
    OBVIOUS
  <2>2. PICK p \in Paths(obs) : p[L] = i /\ PathSum(obs, p) = v[i]
    BY <1>1 DEF BestInto
  <2> DEFINE q == [n \in 0..(L + 1) |-> IF n <= L THEN p[n] ELSE j]
  <2>3. q \in Paths(more)
    <3>1. \A n \in 0..(L + 1) : (IF n <= L THEN p[n] ELSE j) \in Regime!States
      BY <1>4
    <3> QED
      BY <1>4, <3>1
  <2>4. q[L + 1] = j /\ q[L] = p[L] /\ \A n \in 0..L : p[n] = q[n]
    OBVIOUS
  <2> HIDE DEF q
  <2>5. PathSum(more, q) = PathSum(obs, p) + Gain(s, q[L], q[L + 1])
    BY <1>5, <2>3, <2>4
  <2> QED
    BY <2>1, <2>2, <2>3, <2>4, <2>5
<1>7. ASSUME NEW q \in Paths(more) PROVE PathSum(more, q) <= w[q[L + 1]]
  <2> DEFINE p == [n \in 0..L |-> q[n]]
  <2>1. p \in Paths(obs) /\ \A n \in 0..L : p[n] = q[n]
    BY <1>4
  <2>2. q[L] \in Regime!States /\ q[L + 1] \in Regime!States /\ p[L] = q[L]
    BY <1>4
  <2> HIDE DEF p
  <2>3. /\ PathSum(obs, p) \in Int
        /\ PathSum(more, q) = PathSum(obs, p) + Gain(s, q[L], q[L + 1])
    BY <1>5, <2>1
  <2>4. PathSum(obs, p) <= v[q[L]]
    BY <1>1, <2>1, <2>2 DEF BestInto
  <2>5. v[q[L]] + Gain(s, q[L], q[L + 1]) <= w[q[L + 1]]
    BY <2>2
  <2>6. v[q[L]] \in Int /\ Gain(s, q[L], q[L + 1]) \in Int /\ w[q[L + 1]] \in Int
    BY <2>2, GainIs
  <2>7. PICK a, b, c, d \in Int : /\ a = PathSum(obs, p) /\ b = v[q[L]]
                                 /\ c = Gain(s, q[L], q[L + 1]) /\ d = w[q[L + 1]]
    BY <2>3, <2>6
  <2>8. a <= b /\ b + c <= d
    BY <2>4, <2>5, <2>7
  <2>9. a + c <= d
    BY <2>8
  <2> QED
    BY <2>3, <2>7, <2>9
<1> QED
  BY <1>2, <1>3, <1>6, <1>7 DEF BestInto

RegimeInv ==
    /\ observed \in Seq(Observed) /\ log_transition \in Matrices
    /\ \E v \in [Regime!States -> Int] :
         BestInto(v, observed) /\ log_probs = Regime!Normalised(v)
    /\ Regime!FlagTells

LEMMA FilterStep ==
    ASSUME Regime!RegimeAssumption, RegimeInv, NEW o \in Observations, Regime!FilterOnline(o)
    PROVE  RegimeInv'
<1> DEFINE States == Regime!States
<1>1. PICK v \in [States -> Int] : BestInto(v, observed) /\ log_probs = Regime!Normalised(v)
  BY DEF RegimeInv
<1>2. PICK b \in Int : b = Regime!Best(v)
  BY BestIs
<1>3. \A i \in States : v[i] \in Int /\ log_probs[i] = v[i] - b
  BY <1>1, <1>2 DEF Regime!Normalised
<1>4. PICK s : s = [transition |-> log_transition, observation |-> o]
  OBVIOUS
<1>5. /\ s \in Observed /\ s.transition = log_transition /\ s.observation = o
      /\ observed' = Append(observed, s)
  BY <1>4 DEF RegimeInv, Observed, Regime!FilterOnline
<1>6. PICK T \in Matrices : T = log_transition
  BY DEF RegimeInv
<1>7. \A i, j \in States : T[i][j] \in Int /\ EmissionLogs[o][j] \in Int
                           /\ Gain(s, i, j) = T[i][j] + EmissionLogs[o][j]
  BY <1>5, <1>6, GainIs DEF Gain
<1>8. PICK x : x = Regime!Updated(o)
  OBVIOUS
<1>9. ASSUME NEW j \in States
      PROVE  /\ \E i \in States : x[j] = v[i] + Gain(s, i, j) - b
             /\ \A i \in States : v[i] + Gain(s, i, j) - b <= x[j]
             /\ x[j] \in Int
  <2> DEFINE f == [i \in States |-> log_probs[i] + T[i][j]]
  <2>1. f \in [States -> Int]
    BY <1>3, <1>7
  <2>2. {log_probs[i] + log_transition[i][j] : i \in States} = {f[k] : k \in States}
    BY <1>6
  <2>3. x[j] = Regime!Max({f[k] : k \in States}) + EmissionLogs[o][j]
    BY <1>8, <2>2 DEF Regime!Updated
  <2>4. \A i \in States : f[i] = v[i] - b + T[i][j]
    BY <1>3
  <2> HIDE DEF f
  <2>5. /\ \E i \in States : Regime!Max({f[k] : k \in States}) = f[i]
        /\ \A i \in States : f[i] <= Regime!Max({f[k] : k \in States})
    BY <2>1, HighestOver
  <2>6. PICK i \in States : Regime!Max({f[k] : k \in States}) = f[i]
    BY <2>5
  <2>7. x[j] = f[i] + EmissionLogs[o][j] /\ f[i] \in Int /\ EmissionLogs[o][j] \in Int
    BY <1>7, <2>1, <2>3, <2>6
  <2>8. x[j] = v[i] + Gain(s, i, j) - b
    BY <1>3, <1>7, <2>4, <2>7
  <2>9. ASSUME NEW k \in States PROVE v[k] + Gain(s, k, j) - b <= x[j]
    <3>1. f[k] <= f[i] /\ f[k] \in Int
      BY <2>1, <2>5, <2>6
    <3>2. v[k] + Gain(s, k, j) - b = f[k] + EmissionLogs[o][j]
      BY <1>3, <1>7, <2>4
    <3> QED
      BY <2>7, <3>1, <3>2
  <2> QED
    BY <2>7, <2>8, <2>9
<1>10. x \in [States -> Int]
  <2>1. x = [j \in States |-> x[j]]
    BY <1>8 DEF Regime!Updated
  <2> QED
    BY <1>9, <2>1
<1> DEFINE w == [j \in States |-> x[j] + b]
<1>11. w \in [States -> Int] /\ \A j \in States : w[j] = x[j] + b
  BY <1>10
<1> HIDE DEF w
<1>12. \A i, j \in States : Gain(s, i, j) \in Int
  BY <1>5, GainIs
<1>13. ASSUME NEW j \in States
       PROVE  /\ \E i \in States : w[j] = v[i] + Gain(s, i, j)
              /\ \A i \in States : v[i] + Gain(s, i, j) <= w[j]
  <2>1. PICK i \in States : x[j] = v[i] + Gain(s, i, j) - b
    BY <1>9
  <2>2. w[j] = v[i] + Gain(s, i, j)
    BY <1>3, <1>11, <1>12, <2>1
  <2>3. ASSUME NEW k \in States PROVE v[k] + Gain(s, k, j) <= w[j]
    <3>1. v[k] + Gain(s, k, j) - b <= x[j] /\ x[j] \in Int
      BY <1>9
    <3> QED
      BY <1>3, <1>11, <1>12, <3>1
  <2> QED
    BY <2>2, <2>3
<1>14. BestInto(w, Append(observed, s))
  <2>1. observed \in Seq(Observed)
    BY DEF RegimeInv
  <2> QED
    BY <1>1, <1>5, <1>11, <1>13, <2>1, BestGoesOn
<1>15. log_probs' = Regime!Normalised(w)
  <2>1. log_probs' = Regime!Normalised(x)
    BY <1>8 DEF Regime!FilterOnline
  <2> QED
    BY <1>10, <1>11, <2>1, NormalisedSame
<1>16. observed' \in Seq(Observed) /\ log_transition' \in Matrices
  BY <1>5 DEF RegimeInv, Regime!FilterOnline
<1>17. Regime!FlagTells'
  <2>1. change_detected' = change_detected /\ acknowledged' = acknowledged
    BY DEF Regime!FilterOnline
  <2>2. raising' = TRUE \/ (current_state' = current_state /\ raising' = raising)
    BY DEF Regime!FilterOnline
  <2> QED
    BY <2>1, <2>2 DEF RegimeInv, Regime!FlagTells
<1>18. BestInto(w, observed')
  BY <1>5, <1>14
<1> QED
  BY <1>11, <1>15, <1>16, <1>17, <1>18 DEF RegimeInv

LEMMA RegimeHolds ==
    ASSUME Regime!RegimeAssumption, RegimeInv PROVE Regime!RegimeFollowed
<1>1. PICK v \in [Regime!States -> Int] :
        BestInto(v, observed) /\ log_probs = Regime!Normalised(v)
  BY DEF RegimeInv
<1> DEFINE into == [j \in Regime!States |->
                      Regime!Max({PathSum(observed, p) :
                                    p \in {q \in Paths(observed) : q[Len(observed)] = j}})]
<1>2. ASSUME NEW j \in Regime!States PROVE into[j] = v[j]
  <2> DEFINE S == {PathSum(observed, p) :
                     p \in {q \in Paths(observed) : q[Len(observed)] = j}}
  <2>1. v[j] \in S /\ \A y \in S : v[j] >= y
    BY <1>1 DEF BestInto
  <2>2. Regime!Max(S) \in S /\ \A y \in S : Regime!Max(S) >= y
    <3> HIDE DEF S
    <3> QED
      BY <2>1 DEF Regime!Max
  <2>3. v[j] >= Regime!Max(S) /\ Regime!Max(S) >= v[j]
    <3> HIDE DEF S
    <3> QED
      BY <2>1, <2>2
  <2>4. into[j] = Regime!Max(S)
    OBVIOUS
  <2>5. Regime!Max(S) \in Int
    <3>1. PICK p \in Paths(observed) : PathSum(observed, p) = Regime!Max(S)
      <4>1. Regime!Max(S) \in S
        BY <2>2
      <4> QED
        BY <4>1
    <3>2. PathSum(observed, p) \in Int
      <4>1. observed \in Seq(Observed)
        BY DEF RegimeInv
      <4> QED
        BY <4>1, PathSumTyped
    <3> QED
      BY <3>1, <3>2
  <2>6. v[j] \in Int
    OBVIOUS
  <2> HIDE DEF S, into
  <2> QED
    BY <2>3, <2>4, <2>5, <2>6
<1>3. into = v
  <2>1. into = [j \in Regime!States |-> into[j]] /\ v = [j \in Regime!States |-> v[j]]
    OBVIOUS
  <2> HIDE DEF into
  <2> QED
    BY <1>2, <2>1
<1>4. \A p : Regime!PathLog(p) = PathSum(observed, p)
  BY Zenon DEF Regime!PathLog, PathSum
<1>5. Regime!BestPaths
  <2>1. [j \in Regime!States |->
           Regime!Max({Regime!PathLog(p) :
             p \in {q \in [0..Len(observed) -> Regime!States] : q[Len(observed)] = j}})] = into
    BY <1>4 DEF Paths
  <2>2. log_probs = Regime!Normalised(into)
    BY <1>1, <1>3
  <2> HIDE DEF into
  <2> QED
    BY <2>1, <2>2 DEF Regime!BestPaths
<1> QED
  BY <1>5 DEF RegimeInv, Regime!RegimeFollowed

\* What the proof of RegimeIsFollowed goes by, in every state.
LEMMA RegimeKept ==
    ASSUME Regime!RegimeAssumption PROVE Regime!Spec => []RegimeInv
<1>1. Regime!Init => RegimeInv
  <2> SUFFICES ASSUME Regime!Init PROVE RegimeInv
    OBVIOUS
  <2>1. observed = <<>> /\ log_transition = Regime!Uniform
    BY DEF Regime!Init
  <2>2. observed \in Seq(Observed) /\ log_transition \in Matrices /\ Len(observed) = 0
    BY <2>1 DEF Regime!Uniform, Matrices
  <2> DEFINE v == [j \in Regime!States |-> 0]
  <2>3. v \in [Regime!States -> Int] /\ \A j \in Regime!States : v[j] = 0
    OBVIOUS
  <2>4. BestInto(v, observed)
    <3>1. ASSUME NEW p \in Paths(observed) PROVE PathSum(observed, p) = 0
      <4>1. PICK u : Summed(u, observed, p)
        BY <2>2, SumExists
      <4>2. u[0] = 0
        BY <4>1 DEF Summed
      <4> QED
        BY <2>2, <4>1, <4>2, PathSumIs
    <3>2. ASSUME NEW j \in Regime!States PROVE \E p \in Paths(observed) : p[Len(observed)] = j
      <4>1. [n \in 0..0 |-> j] \in Paths(observed) /\ [n \in 0..0 |-> j][0] = j
        BY <2>2 DEF Paths
      <4> QED
        BY <2>2, <4>1
    <3> HIDE DEF v
    <3> QED
      BY <2>3, <3>1, <3>2 DEF BestInto
  <2>5. log_probs = Regime!Normalised(v)
    <3>1. Regime!Best(v) = 0
      <4> HIDE DEF v
      <4> QED
        BY <2>3, BestIs
    <3>2. \A j \in Regime!States : v[j] - Regime!Best(v) = 0
      BY <2>3, <3>1
    <3>3. log_probs = [j \in Regime!States |-> 0]
      BY DEF Regime!Init
    <3> HIDE DEF v
    <3> QED
      BY <3>2, <3>3 DEF Regime!Normalised
  <2>6. Regime!FlagTells
    BY DEF Regime!Init, Regime!FlagTells
  <2> HIDE DEF v
  <2> QED
    BY <2>2, <2>3, <2>4, <2>5, <2>6 DEF RegimeInv
<1>2. RegimeInv /\ [Regime!Next]_Regime!vars => RegimeInv'
  <2> SUFFICES ASSUME RegimeInv, [Regime!Next]_Regime!vars PROVE RegimeInv'
    OBVIOUS
  <2>1. CASE \E o \in Observations : Regime!FilterOnline(o)
    BY <2>1, FilterStep
  <2>2. ASSUME log_probs' = log_probs, observed' = observed, log_transition' \in Matrices,
               Regime!FlagTells'
        PROVE  RegimeInv'
    BY <2>2 DEF RegimeInv
  <2>3. CASE Regime!RaiseFlag
    <3>1. Regime!FlagTells' /\ log_transition' \in Matrices
      BY <2>3 DEF Regime!RaiseFlag, Regime!FlagTells, RegimeInv
    <3> QED
      BY <2>2, <2>3, <3>1 DEF Regime!RaiseFlag
  <2>4. CASE Regime!ResetRegimeChangeFlag
    <3>1. Regime!FlagTells' /\ log_transition' \in Matrices
      BY <2>4 DEF Regime!ResetRegimeChangeFlag, Regime!FlagTells, RegimeInv
    <3> QED
      BY <2>2, <2>4, <3>1 DEF Regime!ResetRegimeChangeFlag
  <2>5. CASE Regime!Train
    <3>1. Regime!FlagTells'
      BY <2>5 DEF Regime!Train, Regime!FlagTells, RegimeInv
    <3>2. log_transition' \in Matrices
      BY <2>5 DEF Regime!Train, Regime!RegimeAssumption, Matrices, Regime!States
    <3> QED
      BY <2>2, <2>5, <3>1, <3>2 DEF Regime!Train
  <2>6. CASE UNCHANGED Regime!vars
    <3>1. Regime!FlagTells' /\ log_transition' \in Matrices
      BY <2>6 DEF Regime!vars, Regime!FlagTells, RegimeInv
    <3> QED
      BY <2>2, <2>6, <3>1 DEF Regime!vars
  <2> QED
    BY <2>1, <2>3, <2>4, <2>5, <2>6 DEF Regime!Next
<1> QED
  BY <1>1, <1>2, PTL DEF Regime!Spec

\* filter_online, lines 205-257: whatever is observed and however often the model is
\* retrained in between, its numbers are those of the best path into each state; and
\* a reset of the flag from another thread, between the two stores or not, loses no
\* change of state.
THEOREM RegimeIsFollowed ==
    ASSUME Regime!RegimeAssumption PROVE Regime!Spec => []RegimeFollowed
<1>1. RegimeInv => RegimeFollowed
  BY RegimeHolds DEF RegimeFollowed
<1> QED
  BY <1>1, RegimeKept, PTL

-----------------------------------------------------------------------------
(* What the rules that size, price and route promise together. *)

\* Orders are split without loss, the put of a collar is the best there is and
\* within its limits, and positions keep to the risk allowed (smart_router.hpp:56,
\* mark_cuban_collar.hpp, hyperbolic_econophysics.hpp:196,
\* law_of_large_numbers.hpp:90).
THEOREM PositionsStaySound ==
    ASSUME Router!RouterAssumption, Collar!CollarAssumption, Sizing!SizingAssumption,
           Numbers!NumbersAssumption
    PROVE  Router!Spec /\ Collar!Spec /\ Sizing!Spec /\ Numbers!Spec => []PositionsSound
<1>1. Router!Spec => []Router!QuantityKept
  BY QuantitiesKept
<1>2. Collar!Spec => []Collar!CollarSound
  BY CollarsSound
<1>3. Sizing!Spec => []Sizing!SizingSound
  BY SizesSound
<1>4. Numbers!Spec => []Numbers!RiskCapped
  BY RisksCapped
<1> QED
  BY <1>1, <1>2, <1>3, <1>4, PTL DEF PositionsSound

-----------------------------------------------------------------------------
(* The knapsack's table: sums over sets of options, and what adding one does. *)

\* Units of capital and of risk, and premium, of each option of the call.
Caps == [n \in 1..Len(strategies) |-> Knapsack!Cap(n)]

Risks == [n \in 1..Len(strategies) |-> Knapsack!Risk(n)]

Premiums == [n \in 1..Len(strategies) |-> strategies[n].premium]

\* The model's sums are these sums.
LEMMA FitsIs ==
    ASSUME NEW S, NEW cell, Len(strategies) \in Nat,
           Caps \in [1..Len(strategies) -> Int], Risks \in [1..Len(strategies) -> Int]
    PROVE  Knapsack!Fits(S, cell) <=>
             /\ SetSum(Caps, Len(strategies), S) <= cell[1]
             /\ SetSum(Risks, Len(strategies), S) <= cell[2]
<1> DEFINE L == Len(strategies)
           B(h) == h = [n \in 0..Len(strategies) |->
                          IF n = 0 THEN 0 ELSE h[n - 1] + (IF n \in S THEN Knapsack!Cap(n) ELSE 0)]
           D(h) == h = [n \in 0..Len(strategies) |->
                          IF n = 0 THEN 0 ELSE h[n - 1] + (IF n \in S THEN Knapsack!Risk(n) ELSE 0)]
<1>1. Knapsack!Fits(S, cell) <=>
        /\ (CHOOSE h : B(h))[Len(strategies)] <= cell[1]
        /\ (CHOOSE h : D(h))[Len(strategies)] <= cell[2]
  BY Zenon DEF Knapsack!Fits, Knapsack!Units
<1>2. ASSUME NEW h PROVE B(h) <=> Adds(h, Caps, L, S)
  <2>1. \A n \in 0..L : n # 0 => n \in 1..L
    OBVIOUS
  <2>2. \A n \in 1..L : Caps[n] = Knapsack!Cap(n)
    BY DEF Caps
  <2>3. \A n \in 0..L : (IF n = 0 THEN 0 ELSE h[n - 1] + (IF n \in S THEN Knapsack!Cap(n) ELSE 0))
                      = (IF n = 0 THEN 0 ELSE h[n - 1] + (IF n \in S THEN Caps[n] ELSE 0))
    BY <2>1, <2>2
  <2> QED
    BY <2>3, Zenon DEF Adds
<1>3. ASSUME NEW h PROVE D(h) <=> Adds(h, Risks, L, S)
  <2>1. \A n \in 0..L : n # 0 => n \in 1..L
    OBVIOUS
  <2>2. \A n \in 1..L : Risks[n] = Knapsack!Risk(n)
    BY DEF Risks
  <2>3. \A n \in 0..L : (IF n = 0 THEN 0 ELSE h[n - 1] + (IF n \in S THEN Knapsack!Risk(n) ELSE 0))
                      = (IF n = 0 THEN 0 ELSE h[n - 1] + (IF n \in S THEN Risks[n] ELSE 0))
    BY <2>1, <2>2
  <2> QED
    BY <2>3, Zenon DEF Adds
<1> HIDE DEF B, D
<1>4. (CHOOSE h : B(h))[L] = SetSum(Caps, L, S)
  <2>1. \E h : B(h)
    BY <1>2, AddsExists
  <2>2. PICK h : h = (CHOOSE g : B(g)) /\ B(h)
    BY <2>1
  <2>3. h[L] = SetSum(Caps, L, S)
    BY <2>2, <1>2, SummedUp
  <2> QED
    BY <2>2, <2>3
<1>5. (CHOOSE h : D(h))[L] = SetSum(Risks, L, S)
  <2>1. \E h : D(h)
    BY <1>3, AddsExists
  <2>2. PICK h : h = (CHOOSE g : D(g)) /\ D(h)
    BY <2>1
  <2>3. h[L] = SetSum(Risks, L, S)
    BY <2>2, <1>3, SummedUp
  <2> QED
    BY <2>2, <2>3
<1> QED
  BY <1>1, <1>4, <1>5

LEMMA PremiumIs ==
    ASSUME NEW S, Len(strategies) \in Nat, Premiums \in [1..Len(strategies) -> Int]
    PROVE  Knapsack!PremiumOf(S) = SetSum(Premiums, Len(strategies), S)
<1> DEFINE L == Len(strategies)
           B(h) == h = [n \in 0..Len(strategies) |->
                          IF n = 0 THEN 0 ELSE h[n - 1] + (IF n \in S THEN strategies[n].premium ELSE 0)]
<1>1. Knapsack!PremiumOf(S) = (CHOOSE h : B(h))[Len(strategies)]
  BY Zenon DEF Knapsack!PremiumOf, Knapsack!Units
<1>2. ASSUME NEW h PROVE B(h) <=> Adds(h, Premiums, L, S)
  <2>1. \A n \in 0..L : n # 0 => n \in 1..L
    OBVIOUS
  <2>2. \A n \in 1..L : Premiums[n] = strategies[n].premium
    BY DEF Premiums
  <2>3. \A n \in 0..L : (IF n = 0 THEN 0 ELSE h[n - 1] + (IF n \in S THEN strategies[n].premium ELSE 0))
                      = (IF n = 0 THEN 0 ELSE h[n - 1] + (IF n \in S THEN Premiums[n] ELSE 0))
    BY <2>1, <2>2
  <2> QED
    BY <2>3, Zenon DEF Adds
<1> HIDE DEF B
<1>3. \E h : B(h)
  BY <1>2, AddsExists
<1>4. PICK h : h = (CHOOSE g : B(g)) /\ B(h)
  BY <1>3
<1>5. h[L] = SetSum(Premiums, L, S)
  BY <1>4, <1>2, SummedUp
<1> QED
  BY <1>1, <1>4, <1>5

\* A set whose weights c and r fit a cell.
FitsCell(c, r, L, S, cell) == SetSum(c, L, S) <= cell[1] /\ SetSum(r, L, S) <= cell[2]

\* An entry of the table is the best of the first k options for its cell.
HoldsBest(entry, cell, k, c, r, p, L) ==
    /\ entry.value \in Int /\ entry.chosen \in Seq(Nat)
    /\ OfSeq(entry.chosen) \subseteq 1..k
    /\ FitsCell(c, r, L, OfSeq(entry.chosen), cell)
    /\ SetSum(p, L, OfSeq(entry.chosen)) = entry.value
    /\ \A S \in SUBSET (1..k) :
         FitsCell(c, r, L, S, cell) => SetSum(p, L, S) <= entry.value

\* Capital, risk and premium of each of L options.
Loads(c, r, p, L) ==
    c \in [1..L -> Nat] /\ r \in [1..L -> Nat] /\ p \in [1..L -> Int]

LEMMA LoadSums ==
    ASSUME NEW L \in Nat, NEW c, NEW r, NEW p, Loads(c, r, p, L), NEW S
    PROVE  SetSum(c, L, S) \in Nat /\ SetSum(r, L, S) \in Nat /\ SetSum(p, L, S) \in Int
<1>1. SetSum(c, L, S) \in Nat
  <2>1. c \in [1..L -> Nat]
    BY DEF Loads
  <2> QED
    BY <2>1, SetSumNatural
<1>2. SetSum(r, L, S) \in Nat
  <2>1. r \in [1..L -> Nat]
    BY DEF Loads
  <2> QED
    BY <2>1, SetSumNatural
<1>3. SetSum(p, L, S) \in Int
  <2>1. p \in [1..L -> Int]
    BY DEF Loads
  <2> QED
    BY <2>1, SetSumTyped
<1> QED
  BY <1>1, <1>2, <1>3

LEMMA LoadWith ==
    ASSUME NEW L \in Nat, NEW c, NEW r, NEW p, Loads(c, r, p, L), NEW i \in 1..L,
           NEW S, i \notin S
    PROVE  /\ SetSum(c, L, S \cup {i}) = SetSum(c, L, S) + c[i]
           /\ SetSum(r, L, S \cup {i}) = SetSum(r, L, S) + r[i]
           /\ SetSum(p, L, S \cup {i}) = SetSum(p, L, S) + p[i]
           /\ c[i] \in Nat /\ r[i] \in Nat /\ p[i] \in Int
<1>1. SetSum(c, L, S \cup {i}) = SetSum(c, L, S) + c[i] /\ c[i] \in Nat
  <2>1. c \in [1..L -> Nat]
    BY DEF Loads
  <2>2. c \in [1..L -> Int] /\ c[i] \in Nat
    BY <2>1
  <2> QED
    BY <2>2, SetSumWith
<1>2. SetSum(r, L, S \cup {i}) = SetSum(r, L, S) + r[i] /\ r[i] \in Nat
  <2>1. r \in [1..L -> Nat]
    BY DEF Loads
  <2>2. r \in [1..L -> Int] /\ r[i] \in Nat
    BY <2>1
  <2> QED
    BY <2>2, SetSumWith
<1>3. SetSum(p, L, S \cup {i}) = SetSum(p, L, S) + p[i] /\ p[i] \in Int
  <2>1. p \in [1..L -> Int]
    BY DEF Loads
  <2>2. p[i] \in Int
    BY <2>1
  <2> QED
    BY <2>1, <2>2, SetSumWith
<1> QED
  BY <1>1, <1>2, <1>3

\* What fits a cell with option i fits, without it, the cell it is added to.
LEMMA WithoutOption ==
    ASSUME NEW L \in Nat, NEW c, NEW r, NEW p, Loads(c, r, p, L),
           NEW i \in 1..L, NEW S \in SUBSET (1..i), i \in S,
           NEW a \in Int, NEW b \in Int, FitsCell(c, r, L, S, <<a, b>>)
    PROVE  \E T \in SUBSET (1..(i - 1)) :
             /\ FitsCell(c, r, L, T, <<a - c[i], b - r[i]>>)
             /\ SetSum(p, L, S) = SetSum(p, L, T) + p[i]
             /\ c[i] <= a /\ r[i] <= b
<1> DEFINE T == S \ {i}
<1>1. S = T \cup {i} /\ i \notin T
  OBVIOUS
<1>2. T \in SUBSET (1..(i - 1))
  <2>1. i \in Nat \ {0}
    OBVIOUS
  <2>2. T \subseteq 1..i
    OBVIOUS
  <2> HIDE DEF T
  <2> QED
    BY <1>1, <2>1, <2>2, NumbersBelow
<1> HIDE DEF T
<1>3. /\ SetSum(c, L, S) = SetSum(c, L, T) + c[i]
      /\ SetSum(r, L, S) = SetSum(r, L, T) + r[i]
      /\ SetSum(p, L, S) = SetSum(p, L, T) + p[i]
      /\ c[i] \in Nat /\ r[i] \in Nat
  BY <1>1, LoadWith
<1>4. SetSum(c, L, T) \in Nat /\ SetSum(r, L, T) \in Nat
  BY LoadSums
<1>6. SetSum(c, L, S) <= a /\ SetSum(r, L, S) <= b
  BY DEF FitsCell
<1>7. c[i] <= a /\ r[i] <= b
  BY <1>3, <1>4, <1>6
<1>8. SetSum(c, L, T) <= a - c[i] /\ SetSum(r, L, T) <= b - r[i]
  BY <1>3, <1>4, <1>6
<1>9. FitsCell(c, r, L, T, <<a - c[i], b - r[i]>>)
  BY <1>8 DEF FitsCell
<1> QED
  BY <1>2, <1>3, <1>7, <1>9

\* Taking option i on top of the best of the cell before.
LEMMA TakenBest ==
    ASSUME NEW L \in Nat, NEW c, NEW r, NEW p, Loads(c, r, p, L),
           NEW i \in 1..L, NEW a \in Int, NEW b \in Int,
           NEW old, NEW from,
           HoldsBest(old, <<a, b>>, i - 1, c, r, p, L),
           HoldsBest(from, <<a - c[i], b - r[i]>>, i - 1, c, r, p, L),
           from.value + p[i] > old.value
    PROVE  HoldsBest([value |-> from.value + p[i], chosen |-> Append(from.chosen, i)],
                     <<a, b>>, i, c, r, p, L)
<1> DEFINE new == [value |-> from.value + p[i], chosen |-> Append(from.chosen, i)]
           U == OfSeq(from.chosen)
<1>0. i \in Nat \ {0} /\ i \in Nat
  OBVIOUS
<1>1. /\ from.value \in Int /\ from.chosen \in Seq(Nat) /\ U \subseteq 1..(i - 1)
      /\ FitsCell(c, r, L, U, <<a - c[i], b - r[i]>>)
      /\ SetSum(p, L, U) = from.value
  BY DEF HoldsBest
<1>2. new.value = from.value + p[i] /\ new.chosen = Append(from.chosen, i)
  OBVIOUS
<1>3. new.chosen \in Seq(Nat) /\ OfSeq(new.chosen) = U \cup {i}
  BY <1>0, <1>1, <1>2, OfAppended
<1> HIDE DEF new, U
<1>4. i \notin U /\ U \cup {i} \subseteq 1..i
  BY <1>0, <1>1, NumbersBelow
<1>5. /\ SetSum(c, L, U \cup {i}) = SetSum(c, L, U) + c[i]
      /\ SetSum(r, L, U \cup {i}) = SetSum(r, L, U) + r[i]
      /\ SetSum(p, L, U \cup {i}) = SetSum(p, L, U) + p[i]
      /\ c[i] \in Nat /\ r[i] \in Nat /\ p[i] \in Int
  BY <1>4, LoadWith
<1>6. SetSum(c, L, U) \in Nat /\ SetSum(r, L, U) \in Nat
  BY LoadSums
<1>7. SetSum(c, L, U) <= a - c[i] /\ SetSum(r, L, U) <= b - r[i]
  BY <1>1 DEF FitsCell
<1>8. SetSum(c, L, U \cup {i}) <= a /\ SetSum(r, L, U \cup {i}) <= b
  BY <1>5, <1>6, <1>7
<1>9. FitsCell(c, r, L, OfSeq(new.chosen), <<a, b>>)
  BY <1>3, <1>8 DEF FitsCell
<1>10. SetSum(p, L, OfSeq(new.chosen)) = new.value
  BY <1>1, <1>2, <1>3, <1>5
<1>11. ASSUME NEW S \in SUBSET (1..i), FitsCell(c, r, L, S, <<a, b>>)
       PROVE  SetSum(p, L, S) <= new.value
  <2>1. CASE i \notin S
    <3>1. S \in SUBSET (1..(i - 1))
      BY <1>0, <2>1, NumbersBelow
    <3>2. SetSum(p, L, S) <= old.value /\ old.value \in Int
      BY <1>11, <3>1 DEF HoldsBest
    <3>3. SetSum(p, L, S) \in Int
      BY LoadSums
    <3> QED
      BY <1>5, <1>1, <1>2, <3>2, <3>3, SMTT(30)
  <2>2. CASE i \in S
    <3>1. PICK T \in SUBSET (1..(i - 1)) :
            /\ FitsCell(c, r, L, T, <<a - c[i], b - r[i]>>)
            /\ SetSum(p, L, S) = SetSum(p, L, T) + p[i]
      BY <1>11, <2>2, WithoutOption
    <3>2. SetSum(p, L, T) <= from.value
      BY <3>1 DEF HoldsBest
    <3>3. SetSum(p, L, T) \in Int
      BY LoadSums
    <3> QED
      BY <1>5, <1>1, <1>2, <3>1, <3>2, <3>3
  <2> QED
    BY <2>1, <2>2
<1>12. new.value \in Int /\ OfSeq(new.chosen) \subseteq 1..i
  <2>1. new.value \in Int
    BY <1>1, <1>2, <1>5, SMTT(30)
  <2> QED
    BY <1>3, <1>4, <2>1
<1>13. HoldsBest(new, <<a, b>>, i, c, r, p, L)
  BY <1>3, <1>9, <1>10, <1>11, <1>12 DEF HoldsBest
<1> QED
  BY <1>13 DEF new

\* Leaving option i where it does not fit or does not pay.
LEMMA LeftBest ==
    ASSUME NEW L \in Nat, NEW c, NEW r, NEW p, Loads(c, r, p, L),
           NEW i \in 1..L, NEW a \in Int, NEW b \in Int,
           NEW old, NEW from,
           HoldsBest(old, <<a, b>>, i - 1, c, r, p, L),
           c[i] <= a /\ r[i] <= b =>
             /\ HoldsBest(from, <<a - c[i], b - r[i]>>, i - 1, c, r, p, L)
             /\ ~(from.value + p[i] > old.value)
    PROVE  HoldsBest(old, <<a, b>>, i, c, r, p, L)
<1>1. /\ old.value \in Int /\ old.chosen \in Seq(Nat)
      /\ OfSeq(old.chosen) \subseteq 1..(i - 1)
      /\ FitsCell(c, r, L, OfSeq(old.chosen), <<a, b>>)
      /\ SetSum(p, L, OfSeq(old.chosen)) = old.value
  BY DEF HoldsBest
<1>2. OfSeq(old.chosen) \subseteq 1..i
  BY <1>1
<1>3. ASSUME NEW S \in SUBSET (1..i), FitsCell(c, r, L, S, <<a, b>>)
      PROVE  SetSum(p, L, S) <= old.value
  <2>1. CASE i \notin S
    <3>1. S \in SUBSET (1..(i - 1))
      BY <2>1
    <3> QED
      BY <1>3, <3>1 DEF HoldsBest
  <2>2. CASE i \in S
    <3>1. PICK T \in SUBSET (1..(i - 1)) :
            /\ FitsCell(c, r, L, T, <<a - c[i], b - r[i]>>)
            /\ SetSum(p, L, S) = SetSum(p, L, T) + p[i]
            /\ c[i] <= a /\ r[i] <= b
      BY <1>3, <2>2, WithoutOption
    <3>2. SetSum(p, L, T) <= from.value /\ from.value \in Int
      BY <3>1 DEF HoldsBest
    <3>3. SetSum(p, L, T) \in Int
      BY LoadSums
    <3>5. p[i] \in Int
      BY DEF Loads
    <3>4. ~(from.value + p[i] > old.value)
      BY <3>1
    <3> QED
      BY <1>1, <3>1, <3>2, <3>3, <3>4, <3>5, SMTT(30)
  <2> QED
    BY <2>1, <2>2
<1> QED
  BY <1>1, <1>2, <1>3 DEF HoldsBest

\* Every cell holds the best of the options before the next.
TableInv ==
    /\ Len(strategies) \in Nat
    /\ \A n \in 1..Len(strategies) : strategies[n] \in Candidates
    /\ budget \in Budgets
    /\ next \in 1..(Len(strategies) + 1)
    /\ \A cell \in Knapsack!Cells :
         HoldsBest(dp[cell], cell, next - 1, Caps, Risks, Premiums, Len(strategies))

LEMMA OptionLoads ==
    ASSUME Knapsack!KnapsackAssumption, Len(strategies) \in Nat,
           \A n \in 1..Len(strategies) : strategies[n] \in Candidates
    PROVE  Loads(Caps, Risks, Premiums, Len(strategies))
<1>1. ASSUME NEW n \in 1..Len(strategies)
      PROVE  /\ Knapsack!Cap(n) \in Nat /\ Knapsack!Risk(n) \in Nat
             /\ strategies[n].premium \in Int
  <2>1. strategies[n] \in Candidates
    OBVIOUS
  <2>2. /\ strategies[n].capital \in Nat /\ strategies[n].loss \in Nat
        /\ strategies[n].premium \in Int
        /\ CapitalUnit \in Nat \ {0} /\ RiskUnit \in Nat \ {0}
    BY <2>1 DEF Knapsack!KnapsackAssumption
  <2>3. strategies[n].capital \div CapitalUnit \in Nat
    BY <2>2, Quotients
  <2>4. strategies[n].loss \div RiskUnit \in Nat
    BY <2>2, Quotients
  <2> QED
    BY <2>2, <2>3, <2>4 DEF Knapsack!Cap, Knapsack!Risk
<1>2. Caps \in [1..Len(strategies) -> Nat]
  BY <1>1 DEF Caps
<1>3. Risks \in [1..Len(strategies) -> Nat]
  BY <1>1 DEF Risks
<1>4. Premiums \in [1..Len(strategies) -> Int]
  BY <1>1 DEF Premiums
<1> QED
  BY <1>2, <1>3, <1>4 DEF Loads

\* An option can be added to a cell where it fits.
LEMMA CellPairs ==
    ASSUME Knapsack!KnapsackAssumption, budget \in Budgets, NEW cell \in Knapsack!Cells
    PROVE  /\ cell = <<cell[1], cell[2]>> /\ cell[1] \in Nat /\ cell[2] \in Nat
           /\ \A c \in Nat, r \in Nat :
                <<cell[1] - c, cell[2] - r>> \in Knapsack!Cells
                  <=> c <= cell[1] /\ r <= cell[2]
<1>1. PICK C \in Int, R \in Int : C = Knapsack!C /\ R = Knapsack!R
  <2>1. /\ budget[1] \in Int /\ budget[2] \in Int
        /\ CapitalUnit \in Nat \ {0} /\ RiskUnit \in Nat \ {0}
    BY DEF Knapsack!KnapsackAssumption
  <2>2. budget[1] \div CapitalUnit \in Int
    BY <2>1
  <2>3. budget[2] \div RiskUnit \in Int
    BY <2>1
  <2> QED
    BY <2>2, <2>3 DEF Knapsack!C, Knapsack!R
<1>2. Knapsack!Cells = (0..C) \X (0..R)
  BY <1>1 DEF Knapsack!Cells
<1>3. cell \in (0..C) \X (0..R)
  BY <1>2
<1>4. PICK a \in 0..C, b \in 0..R : cell = <<a, b>>
  BY <1>3
<1>5. cell[1] = a /\ cell[2] = b
  BY <1>4
<1>6. ASSUME NEW c \in Nat, NEW r \in Nat
      PROVE  <<a - c, b - r>> \in (0..C) \X (0..R) <=> c <= a /\ r <= b
  <2>1. a - c \in 0..C <=> c <= a
    BY <1>4
  <2>2. b - r \in 0..R <=> r <= b
    BY <1>4
  <2> QED
    BY <2>1, <2>2
<1>7. a \in Nat /\ b \in Nat
  OBVIOUS
<1> QED
  BY <1>2, <1>4, <1>5, <1>6, <1>7

\* One option considered, every cell holds the best of one option more.
LEMMA RoundBest ==
    ASSUME Knapsack!KnapsackAssumption, TableInv, next <= Len(strategies),
           NEW cell \in Knapsack!Cells
    PROVE  HoldsBest(Knapsack!Round(next)[cell], cell, next,
                     Caps, Risks, Premiums, Len(strategies))
<1> DEFINE L == Len(strategies)
           from == Knapsack!From(cell, next)
<1>1. PICK a \in Nat, b \in Nat :
        /\ cell = <<a, b>> /\ cell[1] = a /\ cell[2] = b
        /\ \A c \in Nat, r \in Nat :
             <<a - c, b - r>> \in Knapsack!Cells <=> c <= a /\ r <= b
  <2>1. budget \in Budgets
    BY DEF TableInv
  <2> QED
    BY <2>1, CellPairs
<1>2. L \in Nat /\ next \in 1..L
  BY DEF TableInv
<1>3. Loads(Caps, Risks, Premiums, L)
  BY OptionLoads DEF TableInv
<1>4. Caps[next] = Knapsack!Cap(next) /\ Risks[next] = Knapsack!Risk(next)
      /\ Premiums[next] = strategies[next].premium
  BY <1>2 DEF Caps, Risks, Premiums
<1>5. Caps[next] \in Nat /\ Risks[next] \in Nat
  BY <1>2, <1>3 DEF Loads
<1>6. from = <<a - Caps[next], b - Risks[next]>>
  BY <1>1, <1>4 DEF Knapsack!From
<1>7. from \in Knapsack!Cells <=> Caps[next] <= a /\ Risks[next] <= b
  BY <1>1, <1>5, <1>6
<1>8. HoldsBest(dp[cell], <<a, b>>, next - 1, Caps, Risks, Premiums, L)
  BY <1>1 DEF TableInv
<1>9. ASSUME from \in Knapsack!Cells
      PROVE  HoldsBest(dp[from], <<a - Caps[next], b - Risks[next]>>, next - 1,
                       Caps, Risks, Premiums, L)
  <2>1. HoldsBest(dp[from], from, next - 1, Caps, Risks, Premiums, L)
    BY <1>9 DEF TableInv
  <2> HIDE DEF from
  <2> QED
    BY <1>6, <2>1
<1>10. Knapsack!Round(next)[cell] =
         IF from \in Knapsack!Cells /\ dp[from].value + Premiums[next] > dp[cell].value
         THEN [value |-> dp[from].value + Premiums[next],
               chosen |-> Append(dp[from].chosen, next)]
         ELSE dp[cell]
  BY <1>4 DEF Knapsack!Round
<1> HIDE DEF L, from
<1>11. CASE from \in Knapsack!Cells /\ dp[from].value + Premiums[next] > dp[cell].value
  <2>1. HoldsBest([value |-> dp[from].value + Premiums[next],
                   chosen |-> Append(dp[from].chosen, next)],
                  <<a, b>>, next, Caps, Risks, Premiums, L)
    <3>1. HoldsBest(dp[from], <<a - Caps[next], b - Risks[next]>>, next - 1,
                    Caps, Risks, Premiums, L)
      BY <1>9, <1>11
    <3>2. dp[from].value + Premiums[next] > dp[cell].value
      BY <1>11
    <3>3. a \in Int /\ b \in Int
      OBVIOUS
    <3> QED
      BY <1>2, <1>3, <1>8, <3>1, <3>2, <3>3, TakenBest
  <2>2. Knapsack!Round(next)[cell] = [value |-> dp[from].value + Premiums[next],
                                      chosen |-> Append(dp[from].chosen, next)]
    BY <1>10, <1>11
  <2> QED
    BY <1>1, <2>1, <2>2 DEF L
<1>12. CASE ~(from \in Knapsack!Cells /\ dp[from].value + Premiums[next] > dp[cell].value)
  <2>1. Caps[next] <= a /\ Risks[next] <= b =>
          /\ HoldsBest(dp[from], <<a - Caps[next], b - Risks[next]>>, next - 1,
                       Caps, Risks, Premiums, L)
          /\ ~(dp[from].value + Premiums[next] > dp[cell].value)
    BY <1>7, <1>9, <1>12
  <2>2. HoldsBest(dp[cell], <<a, b>>, next, Caps, Risks, Premiums, L)
    BY <1>2, <1>3, <1>8, <2>1, LeftBest
  <2>3. Knapsack!Round(next)[cell] = dp[cell]
    BY <1>10, <1>12
  <2> QED
    BY <1>1, <2>2, <2>3 DEF L
<1> QED
  BY <1>11, <1>12

LEMMA TableFirst ==
    ASSUME Knapsack!KnapsackAssumption, Knapsack!Init
    PROVE  TableInv
<1>1. PICK n \in 0..MaxOptions : strategies \in [1..n -> Candidates]
  BY DEF Knapsack!Init
<1>2. n \in Nat
  BY DEF Knapsack!KnapsackAssumption
<1>3. Len(strategies) = n
  BY <1>1, <1>2
<1>4. /\ Len(strategies) \in Nat /\ next = 1 /\ next \in 1..(Len(strategies) + 1)
      /\ \A m \in 1..Len(strategies) : strategies[m] \in Candidates
      /\ budget \in Budgets
  <2>1. next = 1 /\ budget \in Budgets
    BY DEF Knapsack!Init
  <2> QED
    BY <1>1, <1>2, <1>3, <2>1
<1>5. Loads(Caps, Risks, Premiums, Len(strategies))
  BY <1>4, OptionLoads
<1>6. ASSUME NEW cell \in Knapsack!Cells
      PROVE  HoldsBest(dp[cell], cell, next - 1, Caps, Risks, Premiums, Len(strategies))
  <2>1. cell[1] \in Nat /\ cell[2] \in Nat
    BY <1>4, CellPairs
  <2>2. dp[cell] = [value |-> 0, chosen |-> <<>>]
    BY DEF Knapsack!Init
  <2>3. dp[cell].value = 0 /\ dp[cell].chosen = <<>>
    BY <2>2
  <2>4. OfSeq(<<>>) = {}
    BY DEF OfSeq
  <2>5. /\ SetSum(Caps, Len(strategies), {}) = 0 /\ SetSum(Risks, Len(strategies), {}) = 0
        /\ SetSum(Premiums, Len(strategies), {}) = 0
    <3>1. Caps \in [1..Len(strategies) -> Nat]
      BY <1>5 DEF Loads
    <3>2. Caps \in [1..Len(strategies) -> Int]
      BY <3>1
    <3>3. Risks \in [1..Len(strategies) -> Nat]
      BY <1>5 DEF Loads
    <3>4. Risks \in [1..Len(strategies) -> Int]
      BY <3>3
    <3>5. Premiums \in [1..Len(strategies) -> Int]
      BY <1>5 DEF Loads
    <3>6. SetSum(Caps, Len(strategies), {}) = 0
      BY <1>4, <3>2, SetSumEmpty
    <3>7. SetSum(Risks, Len(strategies), {}) = 0
      BY <1>4, <3>4, SetSumEmpty
    <3>8. SetSum(Premiums, Len(strategies), {}) = 0
      BY <1>4, <3>5, SetSumEmpty
    <3> QED
      BY <3>6, <3>7, <3>8
  <2>6. FitsCell(Caps, Risks, Len(strategies), {}, cell)
    BY <2>1, <2>5 DEF FitsCell
  <2>7. ASSUME NEW S \in SUBSET (1..(next - 1)) PROVE SetSum(Premiums, Len(strategies), S) <= 0
    <3>1. \A x : x \notin 1..(next - 1)
      BY <1>4
    <3>2. S = {}
      BY <3>1
    <3> QED
      BY <2>5, <3>2
  <2>8. <<>> \in Seq(Nat)
    OBVIOUS
  <2> QED
    BY <2>3, <2>4, <2>5, <2>6, <2>7, <2>8 DEF HoldsBest
<1> QED
  BY <1>4, <1>6 DEF TableInv

LEMMA TableStep ==
    ASSUME Knapsack!KnapsackAssumption, TableInv, [Knapsack!Next]_(Knapsack!vars)
    PROVE  TableInv'
<1>1. CASE UNCHANGED <<strategies, budget, next, dp>>
  BY <1>1 DEF TableInv, Caps, Risks, Premiums, Knapsack!Cells, Knapsack!C, Knapsack!R,
              Knapsack!Cap, Knapsack!Risk
<1>2. CASE Knapsack!Consider
  <2>1. /\ next <= Len(strategies) /\ dp' = Knapsack!Round(next) /\ next' = next + 1
        /\ strategies' = strategies /\ budget' = budget
    BY <1>2 DEF Knapsack!Consider
  <2>2. /\ Caps' = Caps /\ Risks' = Risks /\ Premiums' = Premiums
        /\ Knapsack!Cells' = Knapsack!Cells
    BY <2>1 DEF Caps, Risks, Premiums, Knapsack!Cells, Knapsack!C, Knapsack!R,
                Knapsack!Cap, Knapsack!Risk
  <2>3. next \in 1..(Len(strategies) + 1) /\ Len(strategies) \in Nat
    BY DEF TableInv
  <2>4. next' \in 1..(Len(strategies) + 1) /\ next' - 1 = next
    BY <2>1, <2>3
  <2>5. ASSUME NEW cell \in Knapsack!Cells
        PROVE  HoldsBest(dp'[cell], cell, next' - 1, Caps, Risks, Premiums, Len(strategies))
    BY <2>1, <2>4, RoundBest
  <2>6. Len(strategies') \in Nat /\ budget' \in Budgets
        /\ \A n \in 1..Len(strategies') : strategies'[n] \in Candidates
    BY <2>1 DEF TableInv
  <2> QED
    BY <2>1, <2>2, <2>4, <2>5, <2>6 DEF TableInv
<1>3. UNCHANGED <<strategies, budget, next, dp>> \/ Knapsack!Consider
  BY DEF Knapsack!Next, Knapsack!vars, Knapsack!Refuse, Knapsack!Select
<1> QED
  BY <1>1, <1>2, <1>3

LEMMA TableHolds ==
    ASSUME Knapsack!KnapsackAssumption, TableInv
    PROVE  Knapsack!TableExact
<1>1. Loads(Caps, Risks, Premiums, Len(strategies)) /\ Len(strategies) \in Nat
  BY OptionLoads DEF TableInv
<1>2. Caps \in [1..Len(strategies) -> Int]
  <2>1. Caps \in [1..Len(strategies) -> Nat]
    BY <1>1 DEF Loads
  <2> QED
    BY <2>1
<1>3. Risks \in [1..Len(strategies) -> Int]
  <2>1. Risks \in [1..Len(strategies) -> Nat]
    BY <1>1 DEF Loads
  <2> QED
    BY <2>1
<1>4. Premiums \in [1..Len(strategies) -> Int]
  BY <1>1 DEF Loads
<1>5. ASSUME NEW S, NEW cell
      PROVE  Knapsack!Fits(S, cell) <=>
                FitsCell(Caps, Risks, Len(strategies), S, cell)
  BY <1>1, <1>2, <1>3, FitsIs DEF FitsCell
<1>6. ASSUME NEW S PROVE Knapsack!PremiumOf(S) = SetSum(Premiums, Len(strategies), S)
  BY <1>1, <1>4, PremiumIs
<1>7. ASSUME NEW cell \in Knapsack!Cells
      PROVE  /\ Knapsack!Fits(OfSeq(dp[cell].chosen), cell)
             /\ Knapsack!PremiumOf(OfSeq(dp[cell].chosen)) = dp[cell].value
             /\ \A S \in SUBSET (1..(next - 1)) :
                  Knapsack!Fits(S, cell) => Knapsack!PremiumOf(S) <= dp[cell].value
  <2>1. HoldsBest(dp[cell], cell, next - 1, Caps, Risks, Premiums, Len(strategies))
    BY DEF TableInv
  <2>2. /\ FitsCell(Caps, Risks, Len(strategies), OfSeq(dp[cell].chosen), cell)
        /\ SetSum(Premiums, Len(strategies), OfSeq(dp[cell].chosen)) = dp[cell].value
        /\ \A S \in SUBSET (1..(next - 1)) :
             FitsCell(Caps, Risks, Len(strategies), S, cell)
               => SetSum(Premiums, Len(strategies), S) <= dp[cell].value
    BY <2>1 DEF HoldsBest
  <2> QED
    BY <1>5, <1>6, <2>2
<1> QED
  BY <1>7, Zenon DEF Knapsack!TableExact, OfSeq

\* What the proof of TableStaysExact goes by, in every state.
LEMMA TableKept ==
    ASSUME Knapsack!KnapsackAssumption
    PROVE  Knapsack!Spec => []TableInv
<1>1. Knapsack!Init => TableInv
  BY TableFirst
<1>2. TableInv /\ [Knapsack!Next]_(Knapsack!vars) => TableInv'
  BY TableStep
<1> QED
  BY <1>1, <1>2, PTL DEF Knapsack!Spec

\* dp[c][r] is the most premium of any set of the options considered that fits
\* c and r, and its choices are such a set (dp_knapsack_2d.hpp:66).
THEOREM TableStaysExact ==
    ASSUME Knapsack!KnapsackAssumption
    PROVE  Knapsack!Spec => []Knapsack!TableExact
<1>1. TableInv => Knapsack!TableExact
  BY TableHolds
<1> QED
  BY <1>1, TableKept, PTL

-----------------------------------------------------------------------------
(* The hull. *)

\* What is kept of the first n members of s when those in D go.
Keeping(u, s, D) ==
    /\ u \in [0..Len(s) -> Seq(Offers)] /\ u[0] = <<>>
    /\ \A n \in 1..Len(s) :
         u[n] = IF s[n] \in D THEN u[n - 1] ELSE Append(u[n - 1], s[n])

Keeps(h, s, D) ==
    h = [n \in 0..Len(s) |->
           IF n = 0 THEN <<>>
           ELSE IF s[n] \in D THEN h[n - 1] ELSE Append(h[n - 1], s[n])]

LEMMA KeepingExists ==
    ASSUME NEW s \in Seq(Offers), NEW D
    PROVE  \E u : Keeping(u, s, D)
<1> DEFINE Next(v, n) == IF s[n] \in D THEN v ELSE Append(v, s[n])
           Good(u, m) == /\ u \in [0..Len(s) -> Seq(Offers)] /\ u[0] = <<>>
                         /\ \A n \in 1..m : u[n] = Next(u[n - 1], n)
           Z == {m \in 0..Len(s) : ~\E u : Good(u, m)}
<1>0. Len(s) \in Nat /\ \A n \in 1..Len(s) : s[n] \in Offers
  OBVIOUS
<1>1. \A v \in Seq(Offers), n \in 1..Len(s) : Next(v, n) \in Seq(Offers)
  BY <1>0
<1>2. Z = {}
  <2>1. SUFFICES ASSUME Z # {} PROVE FALSE
    OBVIOUS
  <2>2. PICK m \in Z : \A k \in Z : m <= k
    <3>1. Z \subseteq Nat
      OBVIOUS
    <3> HIDE DEF Z
    <3> QED
      BY <2>1, <3>1, LeastNumber
  <2>3. m \in 0..Len(s) /\ ~\E u : Good(u, m)
    <3> HIDE DEF Good
    <3> QED
      BY <2>2
  <2>4. CASE m = 0
    <3> DEFINE u == [n \in 0..Len(s) |-> <<>>]
    <3>0. <<>> \in Seq(Offers)
      OBVIOUS
    <3>1. u \in [0..Len(s) -> Seq(Offers)] /\ u[0] = <<>>
      BY <1>0, <3>0
    <3>2. \A n \in 1..m : FALSE
      BY <2>4
    <3>3. Good(u, m)
      BY <3>1, <3>2
    <3> HIDE DEF u, Good
    <3> QED
      BY <2>3, <3>3
  <2>5. CASE m # 0
    <3>1. m - 1 \in 0..Len(s) /\ m \in 1..Len(s) /\ ~(m <= m - 1) /\ m \in 0..Len(s)
      BY <1>0, <2>3, <2>5
    <3>2. PICK u : Good(u, m - 1)
      <4>1. m - 1 \notin Z
        <5> HIDE DEF Z
        <5> QED
          BY <2>2, <3>1
      <4> HIDE DEF Good
      <4> QED
        BY <3>1, <4>1
    <3>3. u \in [0..Len(s) -> Seq(Offers)] /\ u[0] = <<>>
          /\ \A n \in 1..(m - 1) : u[n] = Next(u[n - 1], n)
      BY <3>2
    <3>4. Next(u[m - 1], m) \in Seq(Offers)
      <4> HIDE DEF Next
      <4> QED
        BY <1>1, <3>1, <3>3
    <3> HIDE DEF Next
    <3> DEFINE w == [u EXCEPT ![m] = Next(u[m - 1], m)]
    <3>5. w \in [0..Len(s) -> Seq(Offers)] /\ w[0] = <<>>
      <4>1. 0 # m /\ 0 \in 0..Len(s)
        BY <1>0, <2>5
      <4> QED
        BY <3>1, <3>3, <3>4, <4>1
    <3>6. ASSUME NEW n \in 1..m PROVE w[n] = Next(w[n - 1], n)
      <4>1. n \in 0..Len(s) /\ n - 1 \in 0..Len(s) /\ n - 1 # m
        BY <1>0, <3>1
      <4>2. w[n - 1] = u[n - 1]
        BY <3>3, <4>1
      <4>3. CASE n = m
        <5>1. w[m] = Next(u[m - 1], m)
          BY <3>1, <3>3
        <5> HIDE DEF w
        <5> QED
          BY <4>2, <4>3, <5>1
      <4>4. CASE n # m
        <5>1. n \in 1..(m - 1)
          BY <3>1, <4>4
        <5>2. w[n] = u[n]
          BY <3>3, <4>1, <4>4
        <5> HIDE DEF w
        <5> QED
          BY <3>3, <4>2, <5>1, <5>2
      <4> QED
        BY <4>3, <4>4
    <3> HIDE DEF w
    <3>7. Good(w, m)
      BY <3>5, <3>6
    <3> HIDE DEF Good
    <3> QED
      BY <2>3, <3>7
  <2> QED
    BY <2>4, <2>5
<1>3. PICK u : Good(u, Len(s))
  <2>1. Len(s) \in 0..Len(s)
    BY <1>0
  <2>2. ~~\E u : Good(u, Len(s))
    <3> HIDE DEF Good
    <3> QED
      BY <1>2, <2>1
  <2> HIDE DEF Good
  <2> QED
    BY <2>2
<1> QED
  BY <1>3 DEF Keeping

LEMMA KeepsEnds ==
    ASSUME NEW s \in Seq(Offers), NEW D, NEW u, Keeping(u, s, D)
    PROVE  Keeps(u, s, D) /\ \A h : Keeps(h, s, D) => h[Len(s)] = u[Len(s)]
<1>0. Len(s) \in Nat
  OBVIOUS
<1>1. Keeps(u, s, D)
  <2>1. \A n \in 0..Len(s) : n # 0 => n \in 1..Len(s)
    BY <1>0
  <2>2. \A n \in 0..Len(s) :
          u[n] = IF n = 0 THEN <<>>
                 ELSE IF s[n] \in D THEN u[n - 1] ELSE Append(u[n - 1], s[n])
    BY <2>1 DEF Keeping
  <2> QED
    BY <2>2 DEF Keeping, Keeps
<1>2. ASSUME NEW h, Keeps(h, s, D) PROVE h[Len(s)] = u[Len(s)]
  <2> DEFINE Z == {n \in 0..Len(s) : h[n] # u[n]}
  <2>1. SUFFICES ASSUME Z # {} PROVE FALSE
    <3>1. Len(s) \in 0..Len(s)
      BY <1>0
    <3> QED
      BY <3>1
  <2>2. PICK n \in Z : \A k \in Z : n <= k
    <3>1. Z \subseteq Nat
      BY <1>0
    <3> HIDE DEF Z
    <3> QED
      BY <2>1, <3>1, LeastNumber
  <2>3. n \in 0..Len(s) /\ h[n] # u[n] /\ n \in Nat
    BY <1>0, <2>2
  <2>4. n # 0
    BY <1>1, <1>2, <2>3 DEF Keeps
  <2>5. n - 1 \in 0..Len(s) /\ ~(n <= n - 1)
    BY <1>0, <2>3, <2>4
  <2>6. h[n - 1] = u[n - 1]
    BY <2>2, <2>5
  <2>7. h[n] = IF s[n] \in D THEN h[n - 1] ELSE Append(h[n - 1], s[n])
    BY <1>2, <2>3, <2>4 DEF Keeps
  <2>8. u[n] = IF s[n] \in D THEN u[n - 1] ELSE Append(u[n - 1], s[n])
    BY <1>1, <2>3, <2>4 DEF Keeps
  <2>9. h[n] = u[n]
    BY <2>6, <2>7, <2>8, Zenon
  <2> QED
    BY <2>3, <2>9
<1> QED
  BY <1>1, <1>2

\* What is kept: the members not in D, each from a place of its own.
LEMMA KeepingEnds ==
    ASSUME NEW s \in Seq(Offers), NEW D, NEW u, Keeping(u, s, D)
    PROVE  LET v == u[Len(s)]
           IN /\ v \in Seq(Offers)
              /\ \A k \in 1..Len(v) : v[k] \notin D /\ \E m \in 1..Len(s) : v[k] = s[m]
              /\ \A m \in 1..Len(s) : s[m] \notin D => \E k \in 1..Len(v) : v[k] = s[m]
              /\ \A j, k \in 1..Len(v) : j # k =>
                   \E m, n \in 1..Len(s) : m # n /\ v[j] = s[m] /\ v[k] = s[n]
<1> DEFINE From(n) == \A k \in 1..Len(u[n]) :
                        u[n][k] \notin D /\ \E m \in 1..n : u[n][k] = s[m]
           Has(n) == \A m \in 1..n : s[m] \notin D => \E k \in 1..Len(u[n]) : u[n][k] = s[m]
           Apart(n) == \A j, k \in 1..Len(u[n]) : j # k =>
                         \E a, b \in 1..n : a # b /\ u[n][j] = s[a] /\ u[n][k] = s[b]
           Fine(n) == From(n) /\ Has(n) /\ Apart(n)
           Z == {n \in 0..Len(s) : ~Fine(n)}
<1>0. /\ Len(s) \in Nat /\ u \in [0..Len(s) -> Seq(Offers)] /\ u[0] = <<>>
      /\ \A n \in 1..Len(s) : s[n] \in Offers
  BY DEF Keeping
<1>1. Fine(0)
  <2>1. Len(u[0]) = 0
    BY <1>0
  <2>2. \A k \in 1..Len(u[0]) : FALSE
    BY <2>1
  <2>3. \A k \in 1..0 : FALSE
    OBVIOUS
  <2>4. From(0)
    BY <2>2
  <2>5. Has(0)
    BY <2>3
  <2>6. Apart(0)
    BY <2>2
  <2> HIDE DEF From, Has, Apart
  <2> QED
    BY <2>4, <2>5, <2>6
<1>2. ASSUME NEW n \in 1..Len(s), Fine(n - 1) PROVE Fine(n)
  <2>1. n - 1 \in 0..Len(s) /\ n \in 0..Len(s) /\ n \in Nat
    BY <1>0
  <2> DEFINE old == u[n - 1]
             new == u[n]
  <2>2. old \in Seq(Offers) /\ s[n] \in Offers
    BY <1>0, <2>1
  <2>3. \A m \in 1..n : m \in 1..(n - 1) \/ m = n
    BY <2>1
  <2>4. \A m \in 1..(n - 1) : m \in 1..n /\ m # n
    BY <2>1
  <2>5. CASE s[n] \in D
    <3>1. new = old
      BY <2>5 DEF Keeping
    <3>2. From(n)
      BY <1>2, <2>4, <3>1
    <3>3. Has(n)
      BY <1>2, <2>3, <2>5, <3>1
    <3>4. Apart(n)
      BY <1>2, <2>4, <3>1
    <3> QED
      BY <3>2, <3>3, <3>4
  <2>6. CASE s[n] \notin D
    <3>1. new = Append(old, s[n])
      BY <2>6 DEF Keeping
    <3>2. /\ Len(old) \in Nat /\ Len(new) = Len(old) + 1 /\ new[Len(old) + 1] = s[n]
          /\ \A k \in 1..Len(old) : new[k] = old[k]
      <4> HIDE DEF old, new
      <4> QED
        BY <2>2, <3>1
    <3>3. \A k \in 1..Len(new) : k \in 1..Len(old) \/ k = Len(old) + 1
      BY <3>2
    <3>4. \A k \in 1..Len(old) : k \in 1..Len(new) /\ k # Len(old) + 1
      BY <3>2
    <3>5. Len(old) + 1 \in 1..Len(new) /\ n \in 1..n
      BY <2>1, <3>2
    <3>6. From(n - 1) /\ Has(n - 1) /\ Apart(n - 1)
      BY <1>2
    <3>7. \A k \in 1..Len(old) : old[k] \notin D /\ \E m \in 1..(n - 1) : old[k] = s[m]
      BY <3>6
    <3>8. \A m \in 1..(n - 1) : s[m] \notin D => \E k \in 1..Len(old) : old[k] = s[m]
      BY <3>6
    <3>9. \A j, k \in 1..Len(old) : j # k =>
            \E a, b \in 1..(n - 1) : a # b /\ old[j] = s[a] /\ old[k] = s[b]
      BY <3>6
    <3> HIDE DEF old, new
    <3>10. ASSUME NEW k \in 1..Len(new)
           PROVE  new[k] \notin D /\ \E m \in 1..n : new[k] = s[m]
      <4>1. CASE k \in 1..Len(old)
        BY <2>4, <3>2, <3>7, <4>1
      <4>2. CASE k = Len(old) + 1
        BY <2>6, <3>2, <3>5, <4>2
      <4> QED
        BY <3>3, <4>1, <4>2
    <3>11. ASSUME NEW m \in 1..n, s[m] \notin D
           PROVE  \E k \in 1..Len(new) : new[k] = s[m]
      <4>1. CASE m \in 1..(n - 1)
        <5>1. PICK k \in 1..Len(old) : old[k] = s[m]
          BY <3>8, <3>11, <4>1
        <5> QED
          BY <3>2, <3>4, <5>1
      <4>2. CASE m = n
        BY <3>2, <3>5, <4>2
      <4> QED
        BY <2>3, <4>1, <4>2
    <3>12. ASSUME NEW j \in 1..Len(new), NEW k \in 1..Len(new), j # k
           PROVE  \E a, b \in 1..n : a # b /\ new[j] = s[a] /\ new[k] = s[b]
      <4>1. CASE j \in 1..Len(old) /\ k \in 1..Len(old)
        <5>1. PICK a \in 1..(n - 1), b \in 1..(n - 1) : a # b /\ old[j] = s[a] /\ old[k] = s[b]
          BY <3>9, <3>12, <4>1
        <5>2. a \in 1..n /\ b \in 1..n
          BY <2>4
        <5> QED
          BY <3>2, <4>1, <5>1, <5>2
      <4>2. CASE j = Len(old) + 1 /\ k \in 1..Len(old)
        <5>1. PICK b \in 1..(n - 1) : old[k] = s[b]
          BY <3>7, <4>2
        <5>2. b \in 1..n /\ b # n
          BY <2>4
        <5> QED
          BY <3>2, <3>5, <4>2, <5>1, <5>2
      <4>3. CASE j \in 1..Len(old) /\ k = Len(old) + 1
        <5>1. PICK b \in 1..(n - 1) : old[j] = s[b]
          BY <3>7, <4>3
        <5>2. b \in 1..n /\ b # n
          BY <2>4
        <5> QED
          BY <3>2, <3>5, <4>3, <5>1, <5>2
      <4> QED
        BY <3>3, <3>12, <4>1, <4>2, <4>3
    <3>13. From(n) /\ Has(n) /\ Apart(n)
      BY <3>10, <3>11, <3>12 DEF new
    <3> HIDE DEF From, Has, Apart
    <3> QED
      BY <3>13
  <2> QED
    BY <2>5, <2>6
<1> HIDE DEF Fine
<1>3. Z = {}
  <2>1. SUFFICES ASSUME Z # {} PROVE FALSE
    OBVIOUS
  <2>2. PICK n \in Z : \A k \in Z : n <= k
    <3>1. Z \subseteq Nat
      OBVIOUS
    <3> HIDE DEF Z
    <3> QED
      BY <2>1, <3>1, LeastNumber
  <2>3. n \in 0..Len(s) /\ ~Fine(n)
    BY <2>2
  <2>4. n # 0
    BY <1>1, <2>3
  <2>5. n - 1 \in 0..Len(s) /\ ~(n <= n - 1) /\ n \in 1..Len(s)
    BY <1>0, <2>3, <2>4
  <2>6. Fine(n - 1)
    BY <2>2, <2>5
  <2> QED
    BY <1>2, <2>3, <2>5, <2>6
<1>4. Fine(Len(s))
  <2>1. Len(s) \in 0..Len(s)
    BY <1>0
  <2> QED
    BY <1>3, <2>1
<1>5. u[Len(s)] \in Seq(Offers)
  BY <1>0
<1> QED
  BY <1>4, <1>5 DEF Fine

\* Candidates that an option is as good as.
Dominated(o) == {h \in Offers : Hull!Dominates(o, h)}

\* The hull is the frontier of what was looked at.
HullInv ==
    /\ sorted \in Seq(Offers) /\ looked \in 0..Len(sorted)
    /\ \A n \in DOMAIN offers : offers[n] \in Offers
    /\ Len(offers) \in Nat /\ DOMAIN offers = 1..Len(offers)
    /\ ~Hull!Small => hull \in Seq(Offers)
    /\ Hull!HullIsFrontier

LEMMA Dominance ==
    ASSUME Hull!HullAssumption
    PROVE  /\ \A o \in Offers : Hull!Dominates(o, o)
           /\ \A a, b, c \in Offers :
                Hull!Dominates(a, b) /\ Hull!Dominates(b, c) => Hull!Dominates(a, c)
<1>1. \A o \in Offers : o.premium \in Int /\ o.loss \in Int /\ o.winRate \in Int
  BY DEF Hull!HullAssumption
<1>2. ASSUME NEW o \in Offers PROVE Hull!Dominates(o, o)
  <2>1. o.premium \in Int /\ o.loss \in Int /\ o.winRate \in Int
    BY <1>1
  <2> QED
    BY <2>1 DEF Hull!Dominates
<1>3. ASSUME NEW a \in Offers, NEW b \in Offers, NEW c \in Offers,
             Hull!Dominates(a, b), Hull!Dominates(b, c)
      PROVE  Hull!Dominates(a, c)
  <2>1. /\ a.premium \in Int /\ a.loss \in Int /\ a.winRate \in Int
        /\ b.premium \in Int /\ b.loss \in Int /\ b.winRate \in Int
        /\ c.premium \in Int /\ c.loss \in Int /\ c.winRate \in Int
    BY <1>1
  <2>2. /\ a.premium >= b.premium /\ a.loss <= b.loss /\ a.winRate >= b.winRate
        /\ b.premium >= c.premium /\ b.loss <= c.loss /\ b.winRate >= c.winRate
    BY <1>3 DEF Hull!Dominates
  <2>3. a.premium >= c.premium /\ a.loss <= c.loss /\ a.winRate >= c.winRate
    BY <2>1, <2>2
  <2> QED
    BY <2>3 DEF Hull!Dominates
<1> QED
  BY <1>2, <1>3

\* v is the hull without what o dominates.
Remaining(v, o) ==
    /\ v \in Seq(Offers)
    /\ \A k \in 1..Len(v) :
         ~Hull!Dominates(o, v[k]) /\ \E m \in 1..Len(hull) : v[k] = hull[m]
    /\ \A m \in 1..Len(hull) :
         ~Hull!Dominates(o, hull[m]) => \E k \in 1..Len(v) : v[k] = hull[m]
    /\ \A j, k \in 1..Len(v) : j # k =>
         \E m, n \in 1..Len(hull) : m # n /\ v[j] = hull[m] /\ v[k] = hull[n]

\* The hull without what an option dominates.
LEMMA UndominatedIs ==
    ASSUME hull \in Seq(Offers), NEW o, NEW v, v = Hull!Undominated(o)
    PROVE  Remaining(v, o)
<1> DEFINE B(h) == h = [n \in 0..Len(hull) |->
                          IF n = 0 THEN <<>>
                          ELSE IF Hull!Dominates(o, hull[n]) THEN h[n - 1]
                               ELSE Append(h[n - 1], hull[n])]
           D == Dominated(o)
<1>1. Hull!Undominated(o) = (CHOOSE h : B(h))[Len(hull)]
  BY Zenon DEF Hull!Undominated
<1>2. Len(hull) \in Nat /\ \A n \in 1..Len(hull) : hull[n] \in Offers
  OBVIOUS
<1>3. \A x \in Offers : x \in D <=> Hull!Dominates(o, x)
  BY DEF Dominated
<1> HIDE DEF D
<1>4. ASSUME NEW h PROVE B(h) <=> Keeps(h, hull, D)
  <2>1. \A n \in 0..Len(hull) : n # 0 => n \in 1..Len(hull)
    BY <1>2
  <2>2. \A n \in 1..Len(hull) : hull[n] \in D <=> Hull!Dominates(o, hull[n])
    BY <1>2, <1>3
  <2>3. \A n \in 0..Len(hull) :
          (IF n = 0 THEN <<>>
           ELSE IF Hull!Dominates(o, hull[n]) THEN h[n - 1] ELSE Append(h[n - 1], hull[n]))
          = (IF n = 0 THEN <<>>
             ELSE IF hull[n] \in D THEN h[n - 1] ELSE Append(h[n - 1], hull[n]))
    BY <2>1, <2>2, Zenon
  <2> QED
    BY <2>3, Zenon DEF Keeps
<1> HIDE DEF B
<1>5. PICK u : Keeping(u, hull, D)
  BY KeepingExists
<1>6. \E h : B(h)
  BY <1>4, <1>5, KeepsEnds
<1>7. PICK h : h = (CHOOSE g : B(g)) /\ B(h)
  BY <1>6
<1>8. h[Len(hull)] = u[Len(hull)]
  BY <1>4, <1>5, <1>7, KeepsEnds
<1>9. Hull!Undominated(o) = u[Len(hull)]
  BY <1>1, <1>7, <1>8
<1>10. /\ u[Len(hull)] \in Seq(Offers)
       /\ \A k \in 1..Len(u[Len(hull)]) :
            u[Len(hull)][k] \notin D /\ \E m \in 1..Len(hull) : u[Len(hull)][k] = hull[m]
       /\ \A m \in 1..Len(hull) : hull[m] \notin D =>
            \E k \in 1..Len(u[Len(hull)]) : u[Len(hull)][k] = hull[m]
       /\ \A j, k \in 1..Len(u[Len(hull)]) : j # k =>
            \E m, n \in 1..Len(hull) :
              m # n /\ u[Len(hull)][j] = hull[m] /\ u[Len(hull)][k] = hull[n]
  BY <1>5, KeepingEnds
<1>11. /\ v \in Seq(Offers)
       /\ \A k \in 1..Len(v) : v[k] \notin D /\ \E m \in 1..Len(hull) : v[k] = hull[m]
       /\ \A m \in 1..Len(hull) : hull[m] \notin D => \E k \in 1..Len(v) : v[k] = hull[m]
       /\ \A j, k \in 1..Len(v) : j # k =>
            \E m, n \in 1..Len(hull) : m # n /\ v[j] = hull[m] /\ v[k] = hull[n]
  BY <1>9, <1>10
<1>12. \A k \in 1..Len(v) : v[k] \in Offers
  BY <1>11
<1>13. \A k \in 1..Len(v) : ~Hull!Dominates(o, v[k])
  BY <1>3, <1>11, <1>12
<1>14. \A m \in 1..Len(hull) :
         ~Hull!Dominates(o, hull[m]) => \E k \in 1..Len(v) : v[k] = hull[m]
  BY <1>2, <1>3, <1>11
<1> QED
  BY <1>11, <1>13, <1>14 DEF Remaining

\* A look keeps the frontier: what the new option removes, it is as good as.
LEMMA LookKeeps ==
    ASSUME Hull!HullAssumption, HullInv, ~Hull!Small, Hull!Look
    PROVE  /\ hull' \in Seq(Offers)
           /\ \A m, n \in DOMAIN hull' : m # n => ~Hull!Dominates(hull'[m], hull'[n])
           /\ \A m \in 1..looked' :
                \E n \in DOMAIN hull' : Hull!Dominates(hull'[n], sorted'[m])
<1> DEFINE o == sorted[looked + 1]
<1>1. /\ looked < Len(sorted) /\ looked' = looked + 1 /\ sorted' = sorted
      /\ hull' = IF \E n \in DOMAIN hull : Hull!Dominates(hull[n], o)
                 THEN hull ELSE Append(Hull!Undominated(o), o)
  BY DEF Hull!Look
<1>2. /\ sorted \in Seq(Offers) /\ Len(sorted) \in Nat /\ looked \in Nat
      /\ \A n \in 1..Len(sorted) : sorted[n] \in Offers
  BY DEF HullInv
<1>3. looked + 1 \in 1..Len(sorted) /\ o \in Offers
  BY <1>1, <1>2
<1>4. /\ hull \in Seq(Offers)
      /\ \A m, n \in DOMAIN hull : m # n => ~Hull!Dominates(hull[m], hull[n])
      /\ \A m \in 1..looked : \E n \in DOMAIN hull : Hull!Dominates(hull[n], sorted[m])
  BY DEF HullInv, Hull!HullIsFrontier
<1>5. DOMAIN hull = 1..Len(hull) /\ Len(hull) \in Nat /\ \A n \in 1..Len(hull) : hull[n] \in Offers
  BY <1>4
<1>6. \A m \in 1..(looked + 1) : m \in 1..looked \/ m = looked + 1
  BY <1>2
<1> HIDE DEF o
<1>7. CASE \E n \in DOMAIN hull : Hull!Dominates(hull[n], o)
  <2>1. hull' = hull
    BY <1>1, <1>7
  <2>2. ASSUME NEW m \in 1..(looked + 1)
        PROVE  \E n \in DOMAIN hull : Hull!Dominates(hull[n], sorted[m])
    BY <1>4, <1>6, <1>7 DEF o
  <2> QED
    BY <1>1, <1>4, <2>1, <2>2
<1>8. CASE ~\E n \in DOMAIN hull : Hull!Dominates(hull[n], o)
  <2>0. PICK v : v = Hull!Undominated(o)
    OBVIOUS
  <2>1. hull' = Append(v, o)
    BY <1>1, <1>8, <2>0
  <2>2. /\ v \in Seq(Offers)
        /\ \A k \in 1..Len(v) :
             ~Hull!Dominates(o, v[k]) /\ \E m \in 1..Len(hull) : v[k] = hull[m]
        /\ \A m \in 1..Len(hull) :
             ~Hull!Dominates(o, hull[m]) => \E k \in 1..Len(v) : v[k] = hull[m]
        /\ \A j, k \in 1..Len(v) : j # k =>
             \E m, n \in 1..Len(hull) : m # n /\ v[j] = hull[m] /\ v[k] = hull[n]
    <3>1. hull \in Seq(Offers)
      BY <1>4
    <3>2. Remaining(v, o)
      BY <2>0, <3>1, UndominatedIs
    <3> QED
      BY <3>2 DEF Remaining
  <2>3. /\ hull' \in Seq(Offers) /\ Len(v) \in Nat
        /\ Len(hull') = Len(v) + 1 /\ DOMAIN hull' = 1..(Len(v) + 1)
        /\ hull'[Len(v) + 1] = o /\ \A k \in 1..Len(v) : hull'[k] = v[k]
    BY <1>3, <2>1, <2>2
  <2>4. \A k \in 1..(Len(v) + 1) : k \in 1..Len(v) \/ k = Len(v) + 1
    BY <2>3
  <2>5. /\ Len(v) + 1 \in 1..(Len(v) + 1)
        /\ \A k \in 1..Len(v) : k \in 1..(Len(v) + 1)
    BY <2>3
  <2>6. ASSUME NEW m \in 1..(Len(v) + 1), NEW n \in 1..(Len(v) + 1), m # n
        PROVE  ~Hull!Dominates(hull'[m], hull'[n])
    <3>1. CASE m \in 1..Len(v) /\ n \in 1..Len(v)
      <4>1. PICK a \in 1..Len(hull), b \in 1..Len(hull) :
              a # b /\ v[m] = hull[a] /\ v[n] = hull[b]
        BY <2>2, <2>6, <3>1
      <4>2. ~Hull!Dominates(hull[a], hull[b])
        BY <1>4, <1>5, <4>1
      <4>3. hull'[m] = hull[a] /\ hull'[n] = hull[b]
        BY <2>3, <3>1, <4>1
      <4> QED
        BY <4>2, <4>3
    <3>2. CASE m = Len(v) + 1 /\ n \in 1..Len(v)
      BY <2>2, <2>3, <3>2
    <3>3. CASE m \in 1..Len(v) /\ n = Len(v) + 1
      <4>1. m # n /\ m \in 1..Len(v)
        BY <2>6, <3>3
      <4>2. \E a \in 1..Len(hull) : v[m] = hull[a]
        BY <2>2, <4>1
      <4> QED
        BY <1>5, <1>8, <2>3, <3>3, <4>2
    <3> QED
      BY <2>4, <2>6, <3>1, <3>2, <3>3
  <2>7. ASSUME NEW m \in 1..(looked + 1)
        PROVE  \E n \in 1..(Len(v) + 1) : Hull!Dominates(hull'[n], sorted[m])
    <3>1. CASE m = looked + 1
      <4>1. Hull!Dominates(o, o)
        BY <1>3, Dominance
      <4> QED
        BY <2>3, <2>5, <3>1, <4>1 DEF o
    <3>2. CASE m \in 1..looked
      <4>1. PICK n \in 1..Len(hull) : Hull!Dominates(hull[n], sorted[m])
        BY <1>4, <1>5, <3>2
      <4>2. sorted[m] \in Offers /\ hull[n] \in Offers
        BY <1>1, <1>2, <1>5, <3>2
      <4>3. CASE Hull!Dominates(o, hull[n])
        <5>1. Hull!Dominates(o, sorted[m])
          BY <1>3, <4>1, <4>2, <4>3, Dominance
        <5> QED
          BY <2>3, <2>5, <5>1
      <4>4. CASE ~Hull!Dominates(o, hull[n])
        <5>1. PICK k \in 1..Len(v) : v[k] = hull[n]
          BY <2>2, <4>4
        <5> QED
          BY <2>3, <2>5, <4>1, <5>1
      <4> QED
        BY <4>3, <4>4
    <3> QED
      BY <1>6, <3>1, <3>2
  <2> QED
    BY <1>1, <2>3, <2>6, <2>7
<1> QED
  BY <1>7, <1>8

LEMMA HullKept ==
    ASSUME Hull!HullAssumption, HullInv, [Hull!Next]_(Hull!vars)
    PROVE  HullInv'
<1>1. CASE UNCHANGED Hull!vars
  BY <1>1 DEF Hull!vars, HullInv, Hull!Small, Hull!HullIsFrontier
<1>2. CASE Hull!ReturnSmall
  BY <1>2 DEF Hull!ReturnSmall, HullInv, Hull!Small, Hull!HullIsFrontier
<1>3. CASE Hull!Sort
  <2>1. PICK order \in Hull!Bijection(DOMAIN offers, DOMAIN offers) :
          sorted' = [n \in DOMAIN offers |-> offers[order[n]]]
    BY <1>3 DEF Hull!Sort
  <2>2. /\ ~Hull!Small /\ sorted = <<>> /\ offers' = offers /\ looked' = looked /\ hull' = hull
    BY <1>3 DEF Hull!Sort
  <2>3. \A n \in DOMAIN offers : order[n] \in DOMAIN offers
    BY <2>1 DEF Hull!Bijection, Hull!Injection
  <2>4. /\ \A n \in DOMAIN offers : offers[n] \in Offers
        /\ Len(offers) \in Nat /\ DOMAIN offers = 1..Len(offers)
        /\ looked \in 0..Len(sorted)
    BY DEF HullInv
  <2>5. sorted' \in [1..Len(offers) -> Offers]
    <3>1. \A n \in 1..Len(offers) : offers[order[n]] \in Offers
      BY <2>3, <2>4
    <3>2. sorted' = [n \in 1..Len(offers) |-> offers[order[n]]]
      BY <2>1, <2>4
    <3> QED
      BY <3>1, <3>2
  <2>6. sorted' \in Seq(Offers) /\ Len(sorted') = Len(offers)
    BY <2>4, <2>5
  <2>7. looked = 0
    BY <2>2, <2>4
  <2>8. looked' \in 0..Len(sorted')
    BY <2>2, <2>4, <2>6, <2>7
  <2>9. \A m \in 1..looked' : FALSE
    BY <2>2, <2>7
  <2>10. Hull!HullIsFrontier'
    BY <2>2, <2>9 DEF HullInv, Hull!HullIsFrontier
  <2>11. Hull!Small' <=> Hull!Small
    BY <2>2 DEF Hull!Small
  <2>12. hull' \in Seq(Offers)
    BY <2>2 DEF HullInv
  <2> QED
    BY <2>2, <2>4, <2>6, <2>8, <2>10, <2>12 DEF HullInv
<1>4. CASE Hull!Look
  <2>1. looked < Len(sorted) /\ looked' = looked + 1 /\ sorted' = sorted /\ offers' = offers
    BY <1>4 DEF Hull!Look
  <2>2. looked' \in 0..Len(sorted') /\ sorted' \in Seq(Offers)
    BY <2>1 DEF HullInv
  <2>3. Hull!Small' <=> Hull!Small
    BY <2>1 DEF Hull!Small
  <2>4. ~Hull!Small => hull' \in Seq(Offers)
    BY <1>4, LookKeeps
  <2>5. ~Hull!Small =>
          /\ \A m, n \in DOMAIN hull' : m # n => ~Hull!Dominates(hull'[m], hull'[n])
          /\ \A m \in 1..looked' :
               \E n \in DOMAIN hull' : Hull!Dominates(hull'[n], sorted'[m])
    BY <1>4, LookKeeps
  <2>6. Hull!HullIsFrontier'
    BY <2>3, <2>5 DEF Hull!HullIsFrontier
  <2> QED
    BY <2>1, <2>2, <2>3, <2>4, <2>6 DEF HullInv
<1> QED
  BY <1>1, <1>2, <1>3, <1>4 DEF Hull!Next

LEMMA HullFirst ==
    ASSUME Hull!HullAssumption, Hull!Init
    PROVE  HullInv
<1>1. PICK n \in 0..MaxOffers : offers \in [1..n -> Offers]
  BY DEF Hull!Init
<1>2. n \in Nat
  BY DEF Hull!HullAssumption
<1>3. Len(offers) = n /\ DOMAIN offers = 1..n /\ \A m \in 1..n : offers[m] \in Offers
  BY <1>1, <1>2
<1>4. sorted = <<>> /\ looked = 0 /\ hull = <<>>
  BY DEF Hull!Init
<1>5. <<>> \in Seq(Offers) /\ Len(<<>>) = 0 /\ \A m \in DOMAIN <<>> : FALSE
  OBVIOUS
<1>6. \A m \in 1..looked : FALSE
  BY <1>4
<1>7. Hull!HullIsFrontier
  BY <1>4, <1>5, <1>6 DEF Hull!HullIsFrontier
<1> QED
  BY <1>2, <1>3, <1>4, <1>5, <1>7 DEF HullInv

\* What the proof of HullStaysFrontier goes by, in every state.
LEMMA HullStays ==
    ASSUME Hull!HullAssumption
    PROVE  Hull!Spec => []HullInv
<1>1. Hull!Init => HullInv
  BY HullFirst
<1>2. HullInv /\ [Hull!Next]_(Hull!vars) => HullInv'
  BY HullKept
<1> QED
  BY <1>1, <1>2, PTL DEF Hull!Spec

\* No member of the hull is as good as another, and each option looked at has a
\* member that is as good as it, in whatever order the sort left them
\* (dp_knapsack_2d.hpp:136).
THEOREM HullStaysFrontier ==
    ASSUME Hull!HullAssumption
    PROVE  Hull!Spec => []Hull!HullIsFrontier
<1>1. HullInv => Hull!HullIsFrontier
  BY DEF HullInv
<1> QED
  BY <1>1, HullStays, PTL

-----------------------------------------------------------------------------
(* Structures of legs. *)

\* Number, risk and score of each leg of the call.
LegNumbers == 1..Len(legs)

LegRisks == [n \in LegNumbers |-> legs[n].cvar]

LegScores == [n \in LegNumbers |-> legs[n].score]

\* What a cell is reached from, which later rounds may only have bettered.
Linked(t, w) ==
    /\ t[w].reached \in BOOLEAN /\ t[w].score \in Int
    /\ t[w].leg \in LegNumbers \cup {0}
    /\ w = 0 => t[w].reached /\ t[w].score = 0 /\ t[w].leg = 0
    /\ t[w].reached /\ w # 0 => t[w].leg # 0
    /\ t[w].leg # 0 =>
         /\ t[w].reached
         /\ Structure!Weight(t[w].leg) \in 1..w
         /\ t[w].parent = w - Structure!Weight(t[w].leg)
         /\ t[t[w].parent].reached
         /\ t[w].score <= t[t[w].parent].score + LegScores[t[w].leg]

LegsTyped ==
    /\ Len(legs) \in Nat
    /\ \A n \in LegNumbers : legs[n] \in Legs

\* The walk along the back-pointers, and a function that walks.
Stepped(u, v) ==
    IF v > 0 /\ table[v].leg # 0 THEN <<table[v].leg>> \o u[table[v].parent] ELSE <<>>

Stepping(u) ==
    /\ u \in [Structure!Weights -> Seq(LegNumbers)]
    /\ \A v \in Structure!Weights : u[v] = Stepped(u, v)

\* A leg weighs no more than its steps.
LEMMA WeightCovers ==
    ASSUME Structure!LegAssumption, LegsTyped, NEW n \in LegNumbers
    PROVE  /\ LegRisks[n] \in Int /\ LegScores[n] \in Int /\ Structure!Weight(n) \in Int
           /\ LegRisks[n] <= CvarStep * Structure!Weight(n)
<1>1. legs[n] \in Legs /\ legs[n].cvar \in Int /\ legs[n].score \in Int
  BY DEF LegsTyped, Structure!LegAssumption
<1>2. CvarStep \in Nat \ {0}
  BY DEF Structure!LegAssumption
<1>3. PICK x \in Int, K \in Nat \ {0} : x = legs[n].cvar /\ K = CvarStep
  BY <1>1, <1>2
<1>4. \A a \in Int : a \div K \in Int /\ a % K \in 0..(K - 1) /\ a = K * (a \div K) + (a % K)
  OBVIOUS
<1>5. PICK y \in Int : y = x + K - 1
  OBVIOUS
<1>6. PICK q \in Int, r \in 0..(K - 1) : q = y \div K /\ y = K * q + r
  BY <1>4
<1>7. PICK z \in Int : z = K * q
  OBVIOUS
<1>8. y = z + r
  BY <1>6, <1>7
<1>9. x <= z
  BY <1>5, <1>8
<1>10. Structure!Weight(n) = q
  BY <1>3, <1>5, <1>6 DEF Structure!Weight
<1> QED
  BY <1>1, <1>3, <1>7, <1>9, <1>10 DEF LegRisks, LegScores

LEMMA LinkedParent ==
    ASSUME Structure!LegAssumption, LegsTyped, NEW t, NEW w \in Structure!Weights,
           Linked(t, w), t[w].leg # 0
    PROVE  t[w].parent \in Structure!Weights /\ t[w].parent < w /\ w > 0 /\ w \in Nat
<1>1. W \in Nat /\ w \in 0..W
  BY DEF Structure!LegAssumption, Structure!Weights
<1>2. PICK k \in 1..w : t[w].parent = w - k
  BY DEF Linked
<1>3. w - k \in 0..W /\ w - k < w /\ w > 0 /\ w \in Nat
  BY <1>1
<1> QED
  BY <1>2, <1>3 DEF Structure!Weights

LEMMA SteppingExists ==
    ASSUME Structure!LegAssumption, LegsTyped, \A w \in Structure!Weights : Linked(table, w)
    PROVE  \E u : Stepping(u)
<1> DEFINE X == Structure!Weights
           Good(u, m) == u \in [X -> Seq(LegNumbers)] /\ \A v \in 0..m : u[v] = Stepped(u, v)
           Z == {m \in X : ~\E u : Good(u, m)}
<1>0. W \in Nat /\ X = 0..W
  BY DEF Structure!LegAssumption, Structure!Weights
<1>1. ASSUME NEW v \in X, NEW u \in [X -> Seq(LegNumbers)]
      PROVE  Stepped(u, v) \in Seq(LegNumbers)
  <2>1. CASE v > 0 /\ table[v].leg # 0
    <3>1. table[v].parent \in X
      BY <2>1, LinkedParent
    <3>2. table[v].leg \in LegNumbers
      BY <2>1 DEF Linked
    <3>3. u[table[v].parent] \in Seq(LegNumbers)
      <4> HIDE DEF X
      <4> QED
        BY <3>1
    <3>4. <<table[v].leg>> \in Seq(LegNumbers)
      BY <3>2
    <3>5. <<table[v].leg>> \o u[table[v].parent] \in Seq(LegNumbers)
      BY <3>3, <3>4
    <3> QED
      BY <2>1, <3>5 DEF Stepped
  <2>2. CASE ~(v > 0 /\ table[v].leg # 0)
    <3>1. Stepped(u, v) = <<>>
      BY <2>2, Zenon DEF Stepped
    <3> QED
      BY <3>1
  <2> QED
    BY <2>1, <2>2
<1>2. ASSUME NEW v \in X, NEW u, NEW g,
             \A m \in X : m < v => u[m] = g[m]
      PROVE  Stepped(u, v) = Stepped(g, v)
  <2>1. CASE v > 0 /\ table[v].leg # 0
    <3>1. table[v].parent \in X /\ table[v].parent < v
      BY <2>1, LinkedParent
    <3>2. u[table[v].parent] = g[table[v].parent]
      BY <1>2, <3>1
    <3> QED
      BY <3>2, Zenon DEF Stepped
  <2>2. CASE ~(v > 0 /\ table[v].leg # 0)
    BY <2>2, Zenon DEF Stepped
  <2> QED
    BY <2>1, <2>2
<1>3. Z = {}
  <2>1. SUFFICES ASSUME Z # {} PROVE FALSE
    OBVIOUS
  <2>2. PICK m \in Z : \A k \in Z : m <= k
    <3>1. Z \subseteq Nat
      BY <1>0
    <3> HIDE DEF Z
    <3> QED
      BY <2>1, <3>1, LeastNumber
  <2>3. m \in X /\ m \in Nat /\ ~\E u : Good(u, m)
    <3>1. m \in X /\ ~\E u : Good(u, m)
      <4> HIDE DEF Good
      <4> QED
        BY <2>2
    <3> QED
      BY <1>0, <3>1
  <2>4. PICK u \in [X -> Seq(LegNumbers)] : \A v \in 0..(m - 1) : u[v] = Stepped(u, v)
    <3>1. CASE m = 0
      <4>1. [v \in X |-> <<>>] \in [X -> Seq(LegNumbers)]
        OBVIOUS
      <4>2. \A v \in 0..(m - 1) : FALSE
        BY <3>1
      <4> HIDE DEF X
      <4> QED
        BY <4>1, <4>2
    <3>2. CASE m # 0
      <4>1. m - 1 \in X /\ ~(m <= m - 1)
        BY <1>0, <2>3, <3>2
      <4>2. \E u : Good(u, m - 1)
        <5>1. m - 1 \notin Z
          <6> HIDE DEF Z
          <6> QED
            BY <2>2, <4>1
        <5> HIDE DEF Good
        <5> QED
          BY <4>1, <5>1
      <4> QED
        BY <4>2
    <3> QED
      BY <3>1, <3>2
  <2>5. Stepped(u, m) \in Seq(LegNumbers)
    BY <1>1, <2>3
  <2> DEFINE w == [u EXCEPT ![m] = Stepped(u, m)]
  <2>6. w \in [X -> Seq(LegNumbers)]
    BY <2>3, <2>5
  <2>7. w[m] = Stepped(u, m) /\ \A v \in X : v # m => w[v] = u[v]
    BY <2>3
  <2> HIDE DEF w
  <2>8. ASSUME NEW v \in 0..m PROVE w[v] = Stepped(w, v)
    <3>1. v \in X /\ \A k \in X : k < v => k # m
      BY <1>0, <2>3
    <3>2. \A k \in X : k < v => w[k] = u[k]
      BY <2>7, <3>1
    <3>3. Stepped(w, v) = Stepped(u, v)
      BY <1>2, <3>1, <3>2
    <3>4. CASE v = m
      BY <2>7, <3>3, <3>4
    <3>5. CASE v # m
      <4>1. v \in 0..(m - 1)
        BY <2>3, <3>5
      <4> QED
        BY <2>4, <2>7, <3>1, <3>3, <3>5, <4>1
    <3> QED
      BY <3>4, <3>5
  <2>9. Good(w, m)
    BY <2>6, <2>8
  <2> HIDE DEF Good
  <2> QED
    BY <2>3, <2>9
<1>4. W \in X /\ W \notin Z
  <2> HIDE DEF Z
  <2> QED
    BY <1>0, <1>3
<1>5. PICK u : Good(u, W)
  <2> HIDE DEF Good
  <2> QED
    BY <1>4
<1> QED
  BY <1>0, <1>5 DEF Stepping

LEMMA SteppingOne ==
    ASSUME Structure!LegAssumption, LegsTyped, \A w \in Structure!Weights : Linked(table, w),
           NEW u, Stepping(u), NEW h,
           \A v \in Structure!Weights : h[v] = Stepped(h, v),
           NEW w \in Structure!Weights
    PROVE  h[w] = u[w]
<1> DEFINE Z == {v \in Structure!Weights : h[v] # u[v]}
<1>1. SUFFICES ASSUME Z # {} PROVE FALSE
  OBVIOUS
<1>2. PICK v \in Z : \A k \in Z : v <= k
  <2>1. Z \subseteq Nat
    BY DEF Structure!Weights, Structure!LegAssumption
  <2> HIDE DEF Z
  <2> QED
    BY <1>1, <2>1, LeastNumber
<1>3. v \in Structure!Weights /\ h[v] # u[v]
  BY <1>2
<1>4. h[v] = Stepped(h, v) /\ u[v] = Stepped(u, v)
  BY <1>3 DEF Stepping
<1>5. CASE v > 0 /\ table[v].leg # 0
  <2>1. /\ table[v].parent \in Structure!Weights /\ table[v].parent < v
        /\ v \in Nat
    BY <1>3, <1>5, LinkedParent
  <2>2. table[v].parent \in Nat
    BY <2>1 DEF Structure!Weights, Structure!LegAssumption
  <2>3. table[v].parent \notin Z
    <3>1. ~(v <= table[v].parent)
      BY <2>1, <2>2
    <3> HIDE DEF Z
    <3> QED
      BY <1>2, <3>1
  <2>4. h[table[v].parent] = u[table[v].parent]
    BY <2>1, <2>3
  <2> QED
    BY <1>3, <1>4, <2>4, Zenon DEF Stepped
<1>6. CASE ~(v > 0 /\ table[v].leg # 0)
  BY <1>3, <1>4, <1>6, Zenon DEF Stepped
<1> QED
  BY <1>5, <1>6

LEMMA WalkIs ==
    ASSUME Structure!LegAssumption, LegsTyped, \A w \in Structure!Weights : Linked(table, w),
           NEW u, Stepping(u), NEW w \in Structure!Weights
    PROVE  Structure!Walk[w] = u[w]
<1> DEFINE B(h) == h = [v \in Structure!Weights |->
                          IF v > 0 /\ table[v].leg # Structure!NoLeg
                          THEN <<table[v].leg>> \o h[table[v].parent] ELSE <<>>]
<1>1. Structure!Walk = [x \in Structure!Weights |-> (CHOOSE h : B(h))[x]]
  BY Zenon DEF Structure!Walk
<1>2. ASSUME NEW h PROVE B(h) <=> h = [v \in Structure!Weights |-> Stepped(h, v)]
  BY Zenon DEF Structure!NoLeg, Stepped
<1> HIDE DEF B
<1>3. u = [v \in Structure!Weights |-> Stepped(u, v)]
  BY DEF Stepping
<1>4. PICK h : h = (CHOOSE g : B(g)) /\ B(h)
  BY <1>2, <1>3
<1>5. \A v \in Structure!Weights : h[v] = Stepped(h, v)
  <2>1. h = [v \in Structure!Weights |-> Stepped(h, v)]
    BY <1>2, <1>4
  <2> QED
    BY <2>1
<1>6. h[w] = u[w]
  BY <1>5, SteppingOne
<1> QED
  BY <1>1, <1>4, <1>6

LEMMA Distributes ==
    ASSUME NEW K \in Int, NEW a \in Int, NEW b \in Int
    PROVE  K * (a + b) = K * a + K * b
  OBVIOUS

\* Along a walk the risks stay within the cell's steps, the scores reach its score.
WalksWithin(u, w) ==
    /\ Along(LegRisks, u[w]) \in Int /\ Along(LegScores, u[w]) \in Int
    /\ Along(LegRisks, u[w]) <= CvarStep * w
    /\ Along(LegScores, u[w]) >= table[w].score

LEMMA MeasuresTyped ==
    ASSUME Structure!LegAssumption, LegsTyped
    PROVE  LegRisks \in [LegNumbers -> Int] /\ LegScores \in [LegNumbers -> Int]
<1>1. \A n \in LegNumbers : legs[n].cvar \in Int /\ legs[n].score \in Int
  BY DEF Structure!LegAssumption, LegsTyped
<1>2. LegRisks \in [LegNumbers -> Int]
  BY <1>1 DEF LegRisks
<1>3. LegScores \in [LegNumbers -> Int]
  BY <1>1 DEF LegScores
<1> QED
  BY <1>2, <1>3

LEMMA WalkWithin ==
    ASSUME Structure!LegAssumption, LegsTyped, \A w \in Structure!Weights : Linked(table, w),
           NEW u, Stepping(u), NEW w \in Structure!Weights, table[w].reached
    PROVE  WalksWithin(u, w)
<1> DEFINE Z == {v \in Structure!Weights : table[v].reached /\ ~WalksWithin(u, v)}
<1>1. SUFFICES ASSUME Z # {} PROVE FALSE
  OBVIOUS
<1>2. PICK v \in Z : \A k \in Z : v <= k
  <2>1. Z \subseteq Nat
    BY DEF Structure!Weights, Structure!LegAssumption
  <2> HIDE DEF Z
  <2> QED
    BY <1>1, <2>1, LeastNumber
<1>3. v \in Structure!Weights /\ table[v].reached /\ ~WalksWithin(u, v)
  BY <1>2
<1>4. u[v] = Stepped(u, v) /\ Linked(table, v)
  BY <1>3 DEF Stepping
<1>5. v \in Nat /\ CvarStep \in Nat /\ W \in Nat
  BY <1>3 DEF Structure!Weights, Structure!LegAssumption
<1>6. CASE v = 0
  <2>1. ~(v > 0 /\ table[v].leg # 0)
    BY <1>6
  <2>2. u[v] = <<>>
    BY <1>4, <2>1, Zenon DEF Stepped
  <2>3. table[v].score = 0
    BY <1>4, <1>6 DEF Linked
  <2>4. Along(LegRisks, u[v]) = 0 /\ Along(LegScores, u[v]) = 0
    BY <2>2, AlongNone
  <2>5. CvarStep * v = 0
    BY <1>5, <1>6
  <2> QED
    BY <1>3, <2>3, <2>4, <2>5 DEF WalksWithin
<1>7. CASE v # 0
  <2> DEFINE l == table[v].leg
             p == table[v].parent
             q == Structure!Weight(l)
  <2>1. /\ l # 0 /\ l \in LegNumbers /\ q \in 1..v /\ p = v - q
        /\ table[p].reached /\ table[v].score \in Int
        /\ table[v].score <= table[p].score + LegScores[l]
    BY <1>3, <1>4, <1>7 DEF Linked
  <2>2. p \in Structure!Weights /\ p < v
    BY <1>3, <1>4, <2>1, LinkedParent
  <2>3. p \in Nat
    BY <2>2, <1>5 DEF Structure!Weights
  <2>4. u[v] = <<l>> \o u[p]
    <3>1. v > 0
      BY <1>5, <1>7
    <3> QED
      BY <1>4, <2>1, <3>1, Zenon DEF Stepped
  <2>5. table[p].score \in Int
    BY <2>2 DEF Linked
  <2> HIDE DEF p, l, q
  <2>6. WalksWithin(u, p)
    <3>1. p \notin Z
      <4>1. ~(v <= p)
        BY <1>5, <2>2, <2>3
      <4> HIDE DEF Z
      <4> QED
        BY <1>2, <4>1
    <3> QED
      BY <2>1, <2>2, <3>1
  <2>7. u[p] \in Seq(LegNumbers)
    BY <2>2 DEF Stepping
  <2>8. Len(legs) \in Nat /\ LegNumbers = 1..Len(legs)
    BY DEF LegsTyped, LegNumbers
  <2>9. Along(LegRisks, u[v]) = LegRisks[l] + Along(LegRisks, u[p])
    <3>1. PICK K \in Nat : K = Len(legs) /\ LegNumbers = 1..K
      BY <2>8
    <3>2. LegRisks \in [1..K -> Int] /\ l \in 1..K /\ u[p] \in Seq(1..K)
      BY <2>1, <2>7, <3>1, MeasuresTyped
    <3> QED
      BY <2>4, <3>2, AlongFirst, ZenonT(60)
  <2>10. Along(LegScores, u[v]) = LegScores[l] + Along(LegScores, u[p])
    <3>1. PICK K \in Nat : K = Len(legs) /\ LegNumbers = 1..K
      BY <2>8
    <3>2. LegScores \in [1..K -> Int] /\ l \in 1..K /\ u[p] \in Seq(1..K)
      BY <2>1, <2>7, <3>1, MeasuresTyped
    <3> QED
      BY <2>4, <3>2, AlongFirst, ZenonT(60)
  <2>11. /\ LegRisks[l] \in Int /\ LegScores[l] \in Int
         /\ LegRisks[l] <= CvarStep * q
    BY <2>1, WeightCovers DEF q
  <2>12. CvarStep * v = CvarStep * p + CvarStep * q
    <3>1. v = p + q /\ q \in Int /\ p \in Int /\ CvarStep \in Int
      BY <1>5, <2>1, <2>3
    <3>2. CvarStep * (p + q) = CvarStep * p + CvarStep * q
      BY <3>1, Distributes
    <3> QED
      BY <3>1, <3>2
  <2>13. PICK a \in Int, b \in Int, c \in Int :
           a = CvarStep * v /\ b = CvarStep * p /\ c = CvarStep * q
    <3>1. q \in Int
      BY <1>5, <2>1
    <3> QED
      BY <1>5, <2>3, <3>1
  <2>14. /\ Along(LegRisks, u[p]) \in Int /\ Along(LegScores, u[p]) \in Int
         /\ Along(LegRisks, u[p]) <= b /\ Along(LegScores, u[p]) >= table[p].score
    BY <2>6, <2>13 DEF WalksWithin
  <2>15. a = b + c /\ LegRisks[l] <= c
    BY <2>11, <2>12, <2>13
  <2>16. Along(LegRisks, u[v]) \in Int /\ Along(LegRisks, u[v]) <= a
    BY <2>9, <2>11, <2>14, <2>15
  <2>17. Along(LegScores, u[v]) \in Int /\ Along(LegScores, u[v]) >= table[v].score
    BY <2>1, <2>5, <2>10, <2>11, <2>14
  <2>18. WalksWithin(u, v)
    BY <2>13, <2>16, <2>17 DEF WalksWithin
  <2> QED
    BY <1>3, <2>18
<1> QED
  BY <1>6, <1>7

\* Cells are linked, and the structure, once there is one, keeps within the limit.
StructureInv ==
    /\ LegsTyped
    /\ nextLeg \in Nat /\ nextLeg > 0
    /\ \A w \in Structure!Weights : Linked(table, w)
    /\ structure \in Seq(LegNumbers)
    /\ Along(LegRisks, structure) <= CvarStep * W

\* The property, in the same sums.
LEMMA LimitIs ==
    ASSUME Structure!LegAssumption, StructureInv
    PROVE  Structure!StructureKeepsLimit
<1>1. PICK u : Stepping(u)
  BY SteppingExists DEF StructureInv
<1> DEFINE B(h, s) == h = [n \in 0..Len(s) |->
                             IF n = 0 THEN 0 ELSE h[n - 1] + legs[s[n]].cvar]
           D(h, s) == h = [n \in 0..Len(s) |->
                             IF n = 0 THEN 0 ELSE h[n - 1] + legs[s[n]].score]
<1>2. Structure!StructureKeepsLimit <=>
        /\ \A w \in Structure!Weights :
             table[w].reached =>
               /\ (CHOOSE h : B(h, Structure!Walk[w]))[Len(Structure!Walk[w])] <= w * CvarStep
               /\ (CHOOSE h : D(h, Structure!Walk[w]))[Len(Structure!Walk[w])] >= table[w].score
        /\ (CHOOSE h : B(h, structure))[Len(structure)] <= W * CvarStep
  BY Zenon DEF Structure!StructureKeepsLimit, Structure!Sum
<1>3. Len(legs) \in Nat /\ LegNumbers = 1..Len(legs)
  BY DEF StructureInv, LegsTyped, LegNumbers
<1>4. ASSUME NEW s \in Seq(LegNumbers)
      PROVE  /\ (CHOOSE h : B(h, s))[Len(s)] = Along(LegRisks, s)
             /\ (CHOOSE h : D(h, s))[Len(s)] = Along(LegScores, s)
  <2> DEFINE L == Len(s)
             f == [n \in 1..Len(s) |-> LegRisks[s[n]]]
             e == [n \in 1..Len(s) |-> LegScores[s[n]]]
  <2>1. L \in Nat /\ \A n \in 1..L : s[n] \in LegNumbers
    OBVIOUS
  <2>2. f \in [1..L -> Int] /\ \A n \in 1..L : f[n] = legs[s[n]].cvar
    <3>1. LegRisks \in [LegNumbers -> Int]
      BY MeasuresTyped DEF StructureInv
    <3>2. \A n \in 1..L : LegRisks[s[n]] \in Int /\ LegRisks[s[n]] = legs[s[n]].cvar
      BY <2>1, <3>1 DEF LegRisks
    <3> QED
      BY <3>2
  <2>3. e \in [1..L -> Int] /\ \A n \in 1..L : e[n] = legs[s[n]].score
    <3>1. LegScores \in [LegNumbers -> Int]
      BY MeasuresTyped DEF StructureInv
    <3>2. \A n \in 1..L : LegScores[s[n]] \in Int /\ LegScores[s[n]] = legs[s[n]].score
      BY <2>1, <3>1 DEF LegScores
    <3> QED
      BY <3>2
  <2>4. Along(LegRisks, s) = SetSum(f, L, 1..L) /\ Along(LegScores, s) = SetSum(e, L, 1..L)
    BY DEF Along
  <2> HIDE DEF f, e
  <2>5. ASSUME NEW h PROVE B(h, s) <=> Adds(h, f, L, 1..L)
    <3>1. \A n \in 0..L : n # 0 => n \in 1..L
      BY <2>1
    <3>2. \A n \in 0..L : (IF n = 0 THEN 0 ELSE h[n - 1] + legs[s[n]].cvar)
                        = (IF n = 0 THEN 0 ELSE h[n - 1] + (IF n \in 1..L THEN f[n] ELSE 0))
      BY <2>2, <3>1
    <3> QED
      BY <3>2, Zenon DEF Adds
  <2>6. ASSUME NEW h PROVE D(h, s) <=> Adds(h, e, L, 1..L)
    <3>1. \A n \in 0..L : n # 0 => n \in 1..L
      BY <2>1
    <3>2. \A n \in 0..L : (IF n = 0 THEN 0 ELSE h[n - 1] + legs[s[n]].score)
                        = (IF n = 0 THEN 0 ELSE h[n - 1] + (IF n \in 1..L THEN e[n] ELSE 0))
      BY <2>3, <3>1
    <3> QED
      BY <3>2, Zenon DEF Adds
  <2> HIDE DEF B, D, L
  <2>7. (CHOOSE h : B(h, s))[L] = SetSum(f, L, 1..L)
    <3>1. \E h : B(h, s)
      <4>1. \E h : Adds(h, f, L, 1..L)
        BY <2>1, <2>2, AddsExists
      <4> QED
        BY <2>5, <4>1
    <3>2. PICK h : h = (CHOOSE g : B(g, s)) /\ B(h, s)
      BY <3>1
    <3>3. h[L] = SetSum(f, L, 1..L)
      BY <2>1, <2>2, <2>5, <3>2, SummedUp
    <3> QED
      BY <3>2, <3>3
  <2>8. (CHOOSE h : D(h, s))[L] = SetSum(e, L, 1..L)
    <3>1. \E h : D(h, s)
      <4>1. \E h : Adds(h, e, L, 1..L)
        BY <2>1, <2>3, AddsExists
      <4> QED
        BY <2>6, <4>1
    <3>2. PICK h : h = (CHOOSE g : D(g, s)) /\ D(h, s)
      BY <3>1
    <3>3. h[L] = SetSum(e, L, 1..L)
      BY <2>1, <2>3, <2>6, <3>2, SummedUp
    <3> QED
      BY <3>2, <3>3
  <2> QED
    BY <2>4, <2>7, <2>8 DEF L
<1> HIDE DEF B, D
<1>5. ASSUME NEW w \in Structure!Weights, table[w].reached
      PROVE  /\ (CHOOSE h : B(h, Structure!Walk[w]))[Len(Structure!Walk[w])] <= w * CvarStep
             /\ (CHOOSE h : D(h, Structure!Walk[w]))[Len(Structure!Walk[w])] >= table[w].score
  <2>1. Structure!Walk[w] = u[w]
    BY <1>1, WalkIs DEF StructureInv
  <2>2. u[w] \in Seq(LegNumbers)
    BY <1>1 DEF Stepping
  <2>3. WalksWithin(u, w)
    BY <1>1, <1>5, WalkWithin DEF StructureInv
  <2>4. w * CvarStep = CvarStep * w
    BY DEF Structure!Weights, Structure!LegAssumption
  <2>5. /\ (CHOOSE h : B(h, u[w]))[Len(u[w])] = Along(LegRisks, u[w])
        /\ (CHOOSE h : D(h, u[w]))[Len(u[w])] = Along(LegScores, u[w])
    BY <1>4, <2>2
  <2> QED
    BY <2>1, <2>3, <2>4, <2>5 DEF WalksWithin
<1>6. (CHOOSE h : B(h, structure))[Len(structure)] <= W * CvarStep
  <2>1. structure \in Seq(LegNumbers) /\ Along(LegRisks, structure) <= CvarStep * W
    BY DEF StructureInv
  <2>2. W * CvarStep = CvarStep * W
    BY DEF Structure!LegAssumption
  <2>3. (CHOOSE h : B(h, structure))[Len(structure)] = Along(LegRisks, structure)
    BY <1>4, <2>1
  <2> QED
    BY <2>1, <2>2, <2>3
<1> QED
  BY <1>2, <1>5, <1>6

\* A round keeps every cell linked: a parent's score only grows.
LEMMA RoundLinks ==
    ASSUME Structure!LegAssumption, LegsTyped, \A w \in Structure!Weights : Linked(table, w),
           NEW i \in LegNumbers, Structure!Weight(i) \in 1..W,
           NEW t, t = [w \in Structure!Weights |-> Structure!WithLeg(i, w)],
           NEW w \in Structure!Weights
    PROVE  Linked(t, w)
<1> DEFINE q == Structure!Weight(i)
           Taken(v) == /\ v >= q
                       /\ table[v - q].reached
                       /\ t[v].reached = TRUE /\ t[v].leg = i /\ t[v].parent = v - q
                       /\ t[v].score = table[v - q].score + legs[i].score
                       /\ table[v].reached => t[v].score >= table[v].score
<1>1. W \in Nat /\ Structure!Weights = 0..W /\ q \in 1..W
  BY DEF Structure!LegAssumption, Structure!Weights
<1>2. legs[i].score \in Int /\ LegScores[i] = legs[i].score
  BY MeasuresTyped DEF LegsTyped, Structure!LegAssumption, LegScores
<1>3. ASSUME NEW v \in Structure!Weights
      PROVE  t[v] = table[v] \/ Taken(v)
  <2> DEFINE from == table[v - q]
             new == [reached |-> TRUE, score |-> from.score + legs[i].score,
                     leg |-> i, parent |-> v - q, count |-> from.count + 1]
             G == v >= q /\ from.reached /\ from.count + 1 <= required
                    /\ Structure!Improves(new, table[v])
  <2>1. t[v] = IF G THEN new ELSE table[v]
    BY Zenon DEF Structure!WithLeg
  <2>2. CASE G
    <3>1. t[v] = new /\ v >= q /\ from.reached /\ Structure!Improves(new, table[v])
      BY <2>1, <2>2, Zenon
    <3>2. /\ new.reached = TRUE /\ new.leg = i /\ new.parent = v - q
          /\ new.score = from.score + legs[i].score
      OBVIOUS
    <3> HIDE DEF new
    <3>3. v - q \in Structure!Weights
      BY <1>1, <3>1
    <3>4. table[v - q].score \in Int /\ table[v].score \in Int
      BY <3>3 DEF Linked
    <3>5. new.score \in Int
      BY <1>2, <3>2, <3>4
    <3>6. table[v].reached => new.score >= table[v].score
      <4>1. new.score > table[v].score \/ new.score = table[v].score => new.score >= table[v].score
        BY <3>4, <3>5
      <4>2. ~table[v].reached \/ new.score > table[v].score \/ new.score = table[v].score
        BY <3>1, Zenon DEF Structure!Improves
      <4> QED
        BY <4>1, <4>2
    <3> QED
      BY <3>1, <3>2, <3>6
  <2>3. CASE ~G
    BY <2>1, <2>3, Zenon
  <2> QED
    BY <2>2, <2>3, Zenon
<1>4. ASSUME NEW v \in Structure!Weights, table[v].reached
      PROVE  t[v].reached /\ t[v].score \in Int /\ t[v].score >= table[v].score
  <2>1. table[v].score \in Int
    BY DEF Linked
  <2>2. CASE t[v] = table[v]
    BY <1>4, <2>1, <2>2
  <2>3. CASE Taken(v)
    <3>1. v - q \in Structure!Weights
      BY <1>1, <2>3
    <3>2. table[v - q].score \in Int
      BY <3>1 DEF Linked
    <3> QED
      BY <1>2, <1>4, <2>3, <3>2
  <2> QED
    BY <1>3, <2>2, <2>3
<1>5. CASE Taken(w)
  <2>1. w - q \in Structure!Weights /\ w # 0 /\ q \in 1..w /\ w >= q
    BY <1>1, <1>5
  <2>2. table[w - q].score \in Int
    BY <2>1 DEF Linked
  <2>3. t[w - q].reached /\ t[w - q].score \in Int /\ t[w - q].score >= table[w - q].score
    BY <1>4, <1>5, <2>1
  <2>4. /\ t[w].reached = TRUE /\ t[w].leg = i /\ t[w].parent = w - q
        /\ t[w].score = table[w - q].score + legs[i].score
    BY <1>5
  <2> DEFINE p == t[w].parent
  <2>5. p = w - q /\ t[p].reached
    BY <2>3, <2>4
  <2>6. t[w].score \in Int /\ t[w].score <= t[p].score + LegScores[i]
    <3>1. t[p].score = t[w - q].score
      BY <2>4
    <3> HIDE DEF p
    <3> QED
      BY <1>2, <2>2, <2>3, <2>4, <3>1
  <2>7. i # 0 /\ i \in LegNumbers \cup {0}
    BY DEF LegNumbers, LegsTyped
  <2>8. t[w].reached \in BOOLEAN
    BY <2>4
  <2> QED
    BY <2>1, <2>4, <2>5, <2>6, <2>7, <2>8 DEF Linked
<1>6. CASE t[w] = table[w]
  <2>1. Linked(table, w)
    OBVIOUS
  <2>2. CASE table[w].leg = 0
    BY <1>6, <2>1, <2>2 DEF Linked
  <2>3. CASE table[w].leg # 0
    <3> DEFINE p == table[w].parent
    <3>1. p \in Structure!Weights /\ table[p].reached
      BY <2>1, <2>3, LinkedParent DEF Linked
    <3>2. t[p].reached /\ t[p].score \in Int /\ t[p].score >= table[p].score
      BY <1>4, <3>1
    <3>3. table[p].score \in Int /\ table[w].score \in Int
      BY <2>1, <3>1 DEF Linked
    <3>4. table[w].leg \in LegNumbers /\ table[w].score <= table[p].score + LegScores[table[w].leg]
      BY <2>1, <2>3 DEF Linked
    <3>5. LegScores[table[w].leg] \in Int
      BY <3>4, MeasuresTyped
    <3>6. table[w].score <= t[p].score + LegScores[table[w].leg]
      <4> HIDE DEF p
      <4> QED
        BY <3>2, <3>3, <3>4, <3>5
    <3> QED
      BY <1>6, <2>1, <2>3, <3>2, <3>6 DEF Linked
  <2> QED
    BY <2>2, <2>3
<1> QED
  BY <1>3, <1>5, <1>6

LEMMA StructureFirst ==
    ASSUME Structure!LegAssumption, Structure!Init
    PROVE  StructureInv
<1>1. PICK n \in 0..MaxLegs : legs \in [1..n -> Legs]
  BY DEF Structure!Init
<1>2. n \in Nat /\ W \in Nat /\ CvarStep \in Nat
  BY DEF Structure!LegAssumption
<1>3. LegsTyped
  <2>1. Len(legs) = n /\ \A m \in 1..n : legs[m] \in Legs
    BY <1>1, <1>2
  <2> QED
    BY <1>2, <2>1 DEF LegsTyped, LegNumbers
<1>4. /\ nextLeg = 1 /\ structure = <<>>
      /\ table = [w \in Structure!Weights |-> [Structure!Unreached EXCEPT !.reached = (w = 0)]]
  BY DEF Structure!Init
<1>5. ASSUME NEW w \in Structure!Weights PROVE Linked(table, w)
  <2>1. table[w] = [Structure!Unreached EXCEPT !.reached = (w = 0)]
    BY <1>4
  <2>2. table[w].reached = (w = 0) /\ table[w].score = 0 /\ table[w].leg = 0
    BY <2>1 DEF Structure!Unreached, Structure!NoLeg
  <2>3. CASE w = 0
    <3>1. table[w].reached = TRUE
      BY <2>2, <2>3
    <3> QED
      BY <2>2, <2>3, <3>1 DEF Linked
  <2>4. CASE w # 0
    <3>1. table[w].reached = FALSE
      BY <2>2, <2>4
    <3> QED
      BY <2>2, <2>4, <3>1 DEF Linked
  <2> QED
    BY <2>3, <2>4
<1>6. structure \in Seq(LegNumbers) /\ Along(LegRisks, structure) <= CvarStep * W
  <2>1. Along(LegRisks, structure) = 0
    BY <1>4, AlongNone
  <2>2. PICK x \in Nat : x = CvarStep * W
    BY <1>2
  <2>3. structure \in Seq(LegNumbers)
    BY <1>4
  <2> QED
    BY <2>1, <2>2, <2>3
<1> QED
  BY <1>3, <1>4, <1>5, <1>6 DEF StructureInv

LEMMA BacktrackKeeps ==
    ASSUME Structure!LegAssumption, StructureInv, Structure!Backtrack
    PROVE  structure' \in Seq(LegNumbers) /\ Along(LegRisks, structure') <= CvarStep * W
<1>1. PICK u : Stepping(u)
  BY SteppingExists DEF StructureInv
<1>2. PICK w \in Structure!Weights : Structure!Best(w) /\ structure' = Structure!Walk[w]
  BY DEF Structure!Backtrack
<1>3. table[w].reached
  BY <1>2 DEF Structure!Best, Structure!Complete
<1>4. Structure!Walk[w] = u[w] /\ u[w] \in Seq(LegNumbers)
  <2>1. u[w] \in Seq(LegNumbers)
    BY <1>1 DEF Stepping
  <2> QED
    BY <1>1, <2>1, WalkIs DEF StructureInv
<1>5. Along(LegRisks, u[w]) \in Int /\ Along(LegRisks, u[w]) <= CvarStep * w
  BY <1>1, <1>3, WalkWithin DEF StructureInv, WalksWithin
<1>6. CvarStep * w <= CvarStep * W /\ CvarStep * w \in Int /\ CvarStep * W \in Int
  <2>1. w \in Nat /\ W \in Nat /\ W - w \in Nat /\ CvarStep \in Nat
    BY DEF Structure!Weights, Structure!LegAssumption
  <2>2. PICK d \in Nat : W = w + d
    BY <2>1
  <2>3. CvarStep * (w + d) = CvarStep * w + CvarStep * d
    BY <2>1, Distributes
  <2>4. PICK a \in Nat, b \in Nat : a = CvarStep * w /\ b = CvarStep * d
    BY <2>1
  <2>5. CvarStep * W = a + b
    BY <2>2, <2>3, <2>4
  <2> QED
    BY <2>4, <2>5
<1> QED
  BY <1>2, <1>4, <1>5, <1>6

LEMMA StructureStep ==
    ASSUME Structure!LegAssumption, StructureInv, [Structure!Next]_(Structure!vars)
    PROVE  StructureInv'
<1>1. CASE UNCHANGED <<legs, nextLeg, table, structure>>
  BY <1>1 DEF StructureInv, LegsTyped, LegNumbers, LegRisks, LegScores, Linked, Along,
              Structure!Weight
<1>2. CASE Structure!ConsiderLeg
  <2>1. /\ nextLeg <= Len(legs) /\ nextLeg' = nextLeg + 1
        /\ legs' = legs /\ structure' = structure
        /\ table' = IF Structure!Weight(nextLeg) \in 1..W
                    THEN [w \in Structure!Weights |-> Structure!WithLeg(nextLeg, w)]
                    ELSE table
    BY <1>2 DEF Structure!ConsiderLeg
  <2>2. /\ LegNumbers' = LegNumbers /\ LegRisks' = LegRisks /\ LegScores' = LegScores
        /\ \A k : Structure!Weight(k)' = Structure!Weight(k)
    BY <2>1 DEF LegNumbers, LegRisks, LegScores, Structure!Weight
  <2>3. nextLeg \in LegNumbers
    BY <2>1 DEF StructureInv, LegsTyped, LegNumbers
  <2>4. ASSUME NEW w \in Structure!Weights PROVE Linked(table', w)
    <3>1. CASE Structure!Weight(nextLeg) \in 1..W
      <4>1. table' = [v \in Structure!Weights |-> Structure!WithLeg(nextLeg, v)]
        BY <2>1, <3>1
      <4>2. LegsTyped /\ \A v \in Structure!Weights : Linked(table, v)
        BY DEF StructureInv
      <4> QED
        BY <2>3, <3>1, <4>1, <4>2, RoundLinks
    <3>2. CASE Structure!Weight(nextLeg) \notin 1..W
      BY <2>1, <3>2 DEF StructureInv
    <3> QED
      BY <3>1, <3>2
  <2>5. ASSUME NEW w \in Structure!Weights PROVE Linked(table, w)'
    <3>1. Linked(table', w)
      BY <2>4
    <3> QED
      BY <2>2, <3>1 DEF Linked
  <2>6. LegsTyped' /\ nextLeg' \in Nat /\ nextLeg' > 0
    BY <2>1, <2>2 DEF StructureInv, LegsTyped
  <2>7. structure' \in Seq(LegNumbers') /\ Along(LegRisks', structure') <= CvarStep * W
    BY <2>1, <2>2 DEF StructureInv
  <2>8. (Along(LegRisks, structure) <= CvarStep * W)'
    BY <2>7 DEF Along
  <2> QED
    BY <2>5, <2>6, <2>7, <2>8 DEF StructureInv, Structure!Weights
<1>3. CASE Structure!Backtrack
  <2>1. legs' = legs /\ nextLeg' = nextLeg /\ table' = table
    BY <1>3 DEF Structure!Backtrack
  <2>2. structure' \in Seq(LegNumbers) /\ Along(LegRisks, structure') <= CvarStep * W
    BY <1>3, BacktrackKeeps
  <2>3. /\ LegNumbers' = LegNumbers /\ LegRisks' = LegRisks /\ LegScores' = LegScores
        /\ \A k : Structure!Weight(k)' = Structure!Weight(k)
    BY <2>1 DEF LegNumbers, LegRisks, LegScores, Structure!Weight
  <2>4. LegsTyped' /\ nextLeg' \in Nat /\ nextLeg' > 0
    BY <2>1, <2>3 DEF StructureInv, LegsTyped
  <2>5. ASSUME NEW w \in Structure!Weights PROVE Linked(table, w)'
    BY <2>1, <2>3 DEF StructureInv, Linked
  <2>6. (Along(LegRisks, structure) <= CvarStep * W)'
    BY <2>2, <2>3 DEF Along
  <2> QED
    BY <2>2, <2>3, <2>4, <2>5, <2>6 DEF StructureInv, Structure!Weights
<1>4. UNCHANGED <<legs, nextLeg, table, structure>> \/ Structure!ConsiderLeg \/ Structure!Backtrack
  BY DEF Structure!Next, Structure!vars, Structure!RefuseLegs, Structure!NothingFits
<1> QED
  BY <1>1, <1>2, <1>3, <1>4

\* What the proof of LimitsKept goes by, in every state.
LEMMA StructureKept ==
    ASSUME Structure!LegAssumption
    PROVE  Structure!Spec => []StructureInv
<1>1. Structure!Init => StructureInv
  BY StructureFirst
<1>2. StructureInv /\ [Structure!Next]_(Structure!vars) => StructureInv'
  BY StructureStep
<1> QED
  BY <1>1, <1>2, PTL DEF Structure!Spec

\* Whatever later legs did to the cells on its way, a walk's legs weigh no more
\* than its cell says and score no less, and the structure keeps within the risk
\* limit (dp_knapsack_optimizer.hpp:121-136).
THEOREM LimitsKept ==
    ASSUME Structure!LegAssumption
    PROVE  Structure!Spec => []Structure!StructureKeepsLimit
<1>1. StructureInv => Structure!StructureKeepsLimit
  BY LimitIs
<1> QED
  BY <1>1, StructureKept, PTL

-----------------------------------------------------------------------------
(* What the optimisers promise together. *)

\* Table, hull and structures are what the code says they are
\* (dp_knapsack_2d.hpp:66 and 136, dp_knapsack_optimizer.hpp:121).
THEOREM OptimisersStaySound ==
    ASSUME Knapsack!KnapsackAssumption, Hull!HullAssumption, Structure!LegAssumption
    PROVE  Knapsack!Spec /\ Hull!Spec /\ Structure!Spec => []OptimisersSound
<1>1. Knapsack!Spec => []Knapsack!TableExact
  BY TableStaysExact
<1>2. Hull!Spec => []Hull!HullIsFrontier
  BY HullStaysFrontier
<1>3. Structure!Spec => []Structure!StructureKeepsLimit
  BY LimitsKept
<1> QED
  BY <1>1, <1>2, <1>3, PTL DEF OptimisersSound
=============================================================================
