---------------------- MODULE CacheAlignedQueueProofs ----------------------
(***************************************************************************)
(* For every Capacity above one the cell queue implements the bounded      *)
(* FIFO.  (For Capacity 1, which line 16 admits, it does not: a full       *)
(* cell's sequence is then the producer's own position.)                   *)
(*                                                                         *)
(* At any time the Capacity positions from Released on are one turn of the *)
(* cells: those before Published wait for the consumer, the others for the *)
(* producer.  Indv says for each which sequence numbers the two threads    *)
(* may still load.                                                         *)
(***************************************************************************)
EXTENDS CacheAlignedQueue, NumberLemmas

Waiting == Released..(Published - 1)
Vacant  == Published..(Released + Capacity - 1)
Turn    == Released..(Released + Capacity - 1)

\* Order and distance of the positions.
Bounds ==
    /\ Taken <= Published
    /\ Published <= Released + Capacity
    /\ PushOnlyWithRoom

\* The producer has seen its own store; the consumer may not have.
WaitingVisible ==
    \A i \in Waiting :
        /\ pVisible[CellOf(i)] = {i + 1}
        /\ i + 1 \in cVisible[CellOf(i)]
        /\ cVisible[CellOf(i)] \subseteq {i, i + 1}

\* The consumer has seen its own store, or the constructor's; the producer may
\* still load its own store of the turn before.
VacantVisible ==
    \A i \in Vacant :
        /\ cVisible[CellOf(i)] = {i}
        /\ i \in pVisible[CellOf(i)]
        /\ pVisible[CellOf(i)] \subseteq {i, i - Capacity + 1}

\* An item written and not yet released.
InFlight == pPc = "release" => data[CellOf(head)] = head + 1

Types ==
    /\ head \in Nat /\ tail \in Nat /\ item \in Nat
    /\ data \in [Cells -> Nat]
    /\ pVisible \in [Cells -> SUBSET Nat] /\ cVisible \in [Cells -> SUBSET Nat]
    /\ pPc \in {"idle", "write", "release", "advance"}
    /\ cPc \in {"idle", "read", "release", "advance"}

Indv ==
    /\ Types
    /\ Bounds
    /\ PopOnlyPublished
    /\ WaitingVisible
    /\ VacantVisible
    /\ UnreadIntact
    /\ InFlight

\* All the proofs use of the power of two.
LEMMA CapacityPositive == Capacity \in Nat \ {0}
BY CapacityAssumption

USE CapacityPositive

LEMMA CellOfType == ASSUME NEW i \in Nat PROVE CellOf(i) \in Cells
BY QuotientRemainder DEF CellOf, Cells

\* Positions of one turn are in different cells.
LEMMA CellOfDistinct ==
    ASSUME NEW b \in Nat, NEW i \in b..(b + Capacity - 1),
           NEW j \in b..(b + Capacity - 1), i # j
    PROVE  CellOf(i) # CellOf(j)
<1>1. i \in Nat /\ j \in Nat /\ i < j + Capacity /\ j < i + Capacity
  OBVIOUS
<1>2. CASE i < j
  BY <1>1, <1>2, WrapDistinct DEF CellOf
<1>3. CASE j < i
  <2>1. j % Capacity # i % Capacity
    BY <1>1, <1>3, WrapDistinct
  <2> QED
    BY <2>1 DEF CellOf
<1> QED
  BY <1>1, <1>2, <1>3

\* The cell that is released is the one that the next turn uses.
LEMMA CellOfTurn == ASSUME NEW i \in Nat PROVE CellOf(i + Capacity) = CellOf(i)
BY WrapTurn DEF CellOf

\* Every cell is the cell of a position of any turn.
LEMMA CellInTurn ==
    ASSUME NEW b \in Nat, NEW c \in Cells
    PROVE  \E i \in b..(b + Capacity - 1) : CellOf(i) = c
<1> DEFINE q == b \div Capacity
           r == b % Capacity
<1>1. b = Capacity * q + r /\ r \in 0..(Capacity - 1) /\ q \in Nat
  BY QuotientRemainder
<1> HIDE DEF q, r
<1>2. CASE c >= r
  <2>1. /\ Capacity * q + c \in Nat
        /\ b <= Capacity * q + c /\ Capacity * q + c <= b + Capacity - 1
    BY <1>1, <1>2 DEF Cells
  <2>2. CellOf(Capacity * q + c) = c
    BY <1>1, RemainderUnique DEF CellOf, Cells
  <2> QED
    BY <2>1, <2>2
<1>3. CASE c < r
  <2>1. /\ Capacity * (q + 1) + c = Capacity * q + Capacity + c
        /\ q + 1 \in Nat
    BY <1>1 DEF Cells
  <2>2. /\ Capacity * (q + 1) + c \in Nat
        /\ b <= Capacity * (q + 1) + c
        /\ Capacity * (q + 1) + c <= b + Capacity - 1
    BY <1>1, <1>3, <2>1 DEF Cells
  <2>3. CellOf(Capacity * (q + 1) + c) = c
    BY <2>1, RemainderUnique DEF CellOf, Cells
  <2> QED
    BY <2>2, <2>3
<1> QED
  BY <1>1, <1>2, <1>3 DEF Cells

LEMMA Positions ==
    ASSUME Indv
    PROVE  /\ head \in Nat /\ tail \in Nat
           /\ Published \in Nat /\ Taken \in Nat /\ Released \in Nat
           /\ head <= Published /\ tail <= Released
           /\ Released <= Taken /\ Taken <= Published
           /\ Published <= Released + Capacity
           /\ CellOf(head) \in Cells /\ CellOf(tail) \in Cells
BY CellOfType DEF Indv, Types, Bounds, Published, Taken, Released
-----------------------------------------------------------------------------
LEMMA InitIndv == Init => Indv
<1> SUFFICES ASSUME Init PROVE Indv
  OBVIOUS
<1>1. Published = 0 /\ Taken = 0 /\ Released = 0
  BY DEF Init, Published, Taken, Released
<1>2. Types
  <2>1. \A c \in Cells : c \in Nat
    BY DEF Cells
  <2> QED
    BY <2>1 DEF Init, Types
<1>3. \A i \in 0..(Capacity - 1) : CellOf(i) = i
  BY DEF CellOf
<1>4. VacantVisible
  <2> SUFFICES ASSUME NEW i \in Cells
               PROVE  pVisible[CellOf(i)] = {i} /\ cVisible[CellOf(i)] = {i}
    BY <1>1 DEF VacantVisible, Vacant, Cells
  <2> QED
    BY <1>3 DEF Init, Cells
<1>5. Bounds /\ PopOnlyPublished /\ WaitingVisible /\ UnreadIntact /\ InFlight
  BY <1>1 DEF Init, Bounds, PushOnlyWithRoom, PopOnlyPublished, WaitingVisible,
     Waiting, UnreadIntact, InFlight
<1> QED
  BY <1>2, <1>4, <1>5 DEF Indv

\* What a producer that finds its cell free has learnt, when Capacity > 1.
LEMMA RoomWhenFree ==
    ASSUME Indv, Capacity > 1, pPc = "idle",
           NEW seq \in pVisible[CellOf(head)], Free(seq, head)
    PROVE  head < Released + Capacity /\ seq = head
<1>1. Published = head
  BY DEF Published
<1>2. CASE head < Released + Capacity
  <2>1. head \in Vacant
    BY <1>1, <1>2, Positions DEF Vacant
  <2>2. seq \in {head, head - Capacity + 1}
    BY <2>1 DEF Indv, VacantVisible
  <2> QED
    BY <1>2, <2>2, Positions DEF Free
<1>3. CASE head = Released + Capacity
  <2>1. Released \in Waiting /\ CellOf(head) = CellOf(Released)
    BY <1>1, <1>3, Positions, CellOfTurn DEF Waiting
  <2>2. seq = Released + 1
    BY <2>1 DEF Indv, WaitingVisible
  <2> QED
    BY <1>3, <2>2, Positions DEF Free
<1> QED
  BY <1>1, <1>2, <1>3, Positions

\* What a consumer that finds its cell filled has learnt.
LEMMA ItemWhenFilled ==
    ASSUME Indv, cPc = "idle",
           NEW seq \in cVisible[CellOf(tail)], Filled(seq, tail)
    PROVE  tail < Published /\ seq = tail + 1
<1>1. Released = tail
  BY DEF Released
<1>2. CASE tail < Published
  <2>1. tail \in Waiting
    BY <1>1, <1>2, Positions DEF Waiting
  <2>2. seq \in {tail, tail + 1}
    BY <2>1 DEF Indv, WaitingVisible
  <2> QED
    BY <1>2, <2>2, Positions DEF Filled
<1>3. CASE tail = Published
  <2>1. tail \in Vacant
    BY <1>1, <1>3, Positions DEF Vacant
  <2>2. seq = tail
    BY <2>1 DEF Indv, VacantVisible
  <2> QED
    BY <2>2, Positions DEF Filled
<1> QED
  BY <1>1, <1>2, <1>3, Positions
-----------------------------------------------------------------------------
(* Each action preserves Indv. *)

\* Loads and local steps leave the positions and the data alone.
LEMMA PositionsKept ==
    ASSUME Indv,
           UNCHANGED <<head, tail, data>>,
           pPc' = pPc \/ (pPc # "advance" /\ pPc' # "advance"),
           cPc' = cPc \/ (cPc \notin {"release", "advance"}
                            /\ cPc' \notin {"release", "advance"})
    PROVE  /\ Published' = Published /\ Taken' = Taken /\ Released' = Released
           /\ UnreadIntact'
BY DEF Indv, Published, Taken, Released, UnreadIntact, CellOf

\* A load of one of the values a thread may see forgets only older values.
LEMMA ProducerLoads ==
    ASSUME Indv, NEW seq \in pVisible[CellOf(head)],
           pVisible' = Load(pVisible, CellOf(head), seq),
           UNCHANGED <<head, tail, data, cVisible>>,
           Published' = Published, Released' = Released
    PROVE  /\ pVisible' \in [Cells -> SUBSET Nat]
           /\ WaitingVisible' /\ VacantVisible'
<1> USE DEF Load
<1>1. pVisible' \in [Cells -> SUBSET Nat]
  BY Positions DEF Indv, Types
<1>2. \A c \in Cells : \A v \in pVisible'[c] : v \in pVisible[c]
  BY DEF Indv, Types
<1>3. ASSUME NEW c \in Cells, NEW v \in pVisible[c], \A w \in pVisible[c] : w <= v
      PROVE  v \in pVisible'[c]
  BY <1>3, Positions DEF Indv, Types
<1>4. WaitingVisible'
  <2> SUFFICES ASSUME NEW i \in Waiting
               PROVE  /\ pVisible'[CellOf(i)] = {i + 1}
                      /\ i + 1 \in cVisible[CellOf(i)]
                      /\ cVisible[CellOf(i)] \subseteq {i, i + 1}
    BY DEF WaitingVisible, Waiting, CellOf
  <2>1. i \in Nat /\ CellOf(i) \in Cells
    BY Positions, CellOfType DEF Waiting
  <2>2. pVisible[CellOf(i)] = {i + 1}
    BY DEF Indv, WaitingVisible
  <2> QED
    BY <1>2, <1>3, <2>1, <2>2 DEF Indv, WaitingVisible
<1>5. VacantVisible'
  <2> SUFFICES ASSUME NEW i \in Vacant
               PROVE  /\ cVisible[CellOf(i)] = {i}
                      /\ i \in pVisible'[CellOf(i)]
                      /\ pVisible'[CellOf(i)] \subseteq {i, i - Capacity + 1}
    BY DEF VacantVisible, Vacant, CellOf
  <2>1. i \in Nat /\ CellOf(i) \in Cells
    BY Positions, CellOfType DEF Vacant
  <2>2. i \in pVisible[CellOf(i)] /\ pVisible[CellOf(i)] \subseteq {i, i - Capacity + 1}
    BY DEF Indv, VacantVisible
  <2>3. \A w \in pVisible[CellOf(i)] : w <= i
    BY <2>1, <2>2
  <2> QED
    BY <1>2, <1>3, <2>1, <2>2, <2>3 DEF Indv, VacantVisible
<1> QED
  BY <1>1, <1>4, <1>5

LEMMA ConsumerLoads ==
    ASSUME Indv, NEW seq \in cVisible[CellOf(tail)],
           cVisible' = Load(cVisible, CellOf(tail), seq),
           UNCHANGED <<head, tail, data, pVisible>>,
           Published' = Published, Released' = Released
    PROVE  /\ cVisible' \in [Cells -> SUBSET Nat]
           /\ WaitingVisible' /\ VacantVisible'
<1> USE DEF Load
<1>1. cVisible' \in [Cells -> SUBSET Nat]
  BY Positions DEF Indv, Types
<1>2. \A c \in Cells : \A v \in cVisible'[c] : v \in cVisible[c]
  BY DEF Indv, Types
<1>3. ASSUME NEW c \in Cells, NEW v \in cVisible[c], \A w \in cVisible[c] : w <= v
      PROVE  v \in cVisible'[c]
  BY <1>3, Positions DEF Indv, Types
<1>4. WaitingVisible'
  <2> SUFFICES ASSUME NEW i \in Waiting
               PROVE  /\ pVisible[CellOf(i)] = {i + 1}
                      /\ i + 1 \in cVisible'[CellOf(i)]
                      /\ cVisible'[CellOf(i)] \subseteq {i, i + 1}
    BY DEF WaitingVisible, Waiting, CellOf
  <2>1. i \in Nat /\ CellOf(i) \in Cells
    BY Positions, CellOfType DEF Waiting
  <2>2. /\ pVisible[CellOf(i)] = {i + 1}
        /\ i + 1 \in cVisible[CellOf(i)] /\ cVisible[CellOf(i)] \subseteq {i, i + 1}
    BY DEF Indv, WaitingVisible
  <2>3. \A w \in cVisible[CellOf(i)] : w <= i + 1
    BY <2>1, <2>2
  <2> QED
    BY <1>2, <1>3, <2>1, <2>2, <2>3
<1>5. VacantVisible'
  <2> SUFFICES ASSUME NEW i \in Vacant
               PROVE  /\ cVisible'[CellOf(i)] = {i}
                      /\ i \in pVisible[CellOf(i)]
                      /\ pVisible[CellOf(i)] \subseteq {i, i - Capacity + 1}
    BY DEF VacantVisible, Vacant, CellOf
  <2>1. i \in Nat /\ CellOf(i) \in Cells
    BY Positions, CellOfType DEF Vacant
  <2>2. cVisible[CellOf(i)] = {i}
    BY DEF Indv, VacantVisible
  <2> QED
    BY <1>2, <1>3, <2>1, <2>2 DEF Indv, VacantVisible
<1> QED
  BY <1>1, <1>4, <1>5

LEMMA ProducerLoadIndv ==
    Indv /\ Capacity > 1 /\ (PushRefused \/ PushCheck) => Indv'
<1> SUFFICES ASSUME Indv, Capacity > 1, PushRefused \/ PushCheck PROVE Indv'
  OBVIOUS
<1> USE DEF PushRefused, PushCheck, prodVars, consVars
<1>1. PICK seq \in pVisible[CellOf(head)] :
          /\ pVisible' = Load(pVisible, CellOf(head), seq)
          /\ pPc' = "write" => Free(seq, head)
  OBVIOUS
<1>2. /\ Published' = Published /\ Taken' = Taken /\ Released' = Released
      /\ UnreadIntact'
  BY PositionsKept
<1>3. /\ pVisible' \in [Cells -> SUBSET Nat] /\ WaitingVisible' /\ VacantVisible'
  BY <1>1, <1>2, ProducerLoads
<1>4. Types' /\ PopOnlyPublished' /\ InFlight'
  BY <1>2, <1>3 DEF Indv, Types, PopOnlyPublished, InFlight
<1>5. Bounds'
  <2>1. pPc' = "write" => head < Released + Capacity
    BY <1>1, RoomWhenFree
  <2> QED
    BY <1>2, <2>1, Positions DEF Indv, Bounds, PushOnlyWithRoom
<1> QED
  BY <1>2, <1>3, <1>4, <1>5 DEF Indv

LEMMA PushWriteIndv == Indv /\ PushWrite => Indv'
<1> SUFFICES ASSUME Indv, PushWrite PROVE Indv'
  OBVIOUS
<1> USE DEF PushWrite, consVars
<1>1. /\ Published' = Published /\ Taken' = Taken /\ Released' = Released
      /\ Published = head /\ head < Released + Capacity
  BY Positions DEF Published, Taken, Released, Indv, Bounds, PushOnlyWithRoom
<1>2. Types'
  BY Positions DEF Indv, Types
<1>3. Bounds' /\ PopOnlyPublished'
  BY <1>1, Positions DEF Indv, Bounds, PushOnlyWithRoom, PopOnlyPublished
<1>4. WaitingVisible' /\ VacantVisible'
  BY <1>1 DEF Indv, WaitingVisible, Waiting, VacantVisible, Vacant, CellOf
<1>5. UnreadIntact'
  <2> SUFFICES ASSUME NEW i \in Taken..(Published - 1)
               PROVE  data'[CellOf(i)] = i + 1
    BY <1>1 DEF UnreadIntact, CellOf
  <2>1. i \in Turn /\ head \in Turn /\ i # head
    BY <1>1, Positions DEF Turn
  <2>2. CellOf(i) # CellOf(head) /\ CellOf(i) \in Cells
    BY <2>1, Positions, CellOfDistinct, CellOfType DEF Turn
  <2> QED
    BY <2>2 DEF Indv, Types, UnreadIntact
<1>6. InFlight'
  BY Positions DEF Indv, Types, InFlight, CellOf
<1> QED
  BY <1>2, <1>3, <1>4, <1>5, <1>6 DEF Indv

LEMMA PushReleaseIndv == Indv /\ PushRelease => Indv'
<1> SUFFICES ASSUME Indv, PushRelease PROVE Indv'
  OBVIOUS
<1> USE DEF PushRelease, consVars, Store, Show
<1>1. /\ Published' = head + 1 /\ Taken' = Taken /\ Released' = Released
      /\ Published = head /\ head < Released + Capacity
  BY Positions DEF Published, Taken, Released, Indv, Bounds, PushOnlyWithRoom
<1>2. Types'
  BY Positions DEF Indv, Types
<1>3. Bounds' /\ PopOnlyPublished'
  BY <1>1, Positions DEF Indv, Bounds, PushOnlyWithRoom, PopOnlyPublished
<1>4. ASSUME NEW i \in Turn, i # head
      PROVE  /\ pVisible'[CellOf(i)] = pVisible[CellOf(i)]
             /\ cVisible'[CellOf(i)] = cVisible[CellOf(i)]
  <2>1. CellOf(i) # CellOf(head) /\ CellOf(i) \in Cells
    BY <1>1, <1>4, Positions, CellOfDistinct, CellOfType DEF Turn
  <2> QED
    BY <2>1 DEF Indv, Types
<1>5. cVisible[CellOf(head)] = {head}
  BY <1>1, Positions DEF Indv, VacantVisible, Vacant
<1>6. WaitingVisible'
  <2> SUFFICES ASSUME NEW i \in Released..head
               PROVE  /\ pVisible'[CellOf(i)] = {i + 1}
                      /\ i + 1 \in cVisible'[CellOf(i)]
                      /\ cVisible'[CellOf(i)] \subseteq {i, i + 1}
    <3>1. Released' = Released /\ Published' - 1 = head
      BY <1>1, Positions
    <3> QED
      BY <3>1 DEF WaitingVisible, Waiting, CellOf
  <2>1. CASE i = head
    BY <1>5, <2>1, Positions DEF Indv, Types
  <2>2. CASE i # head
    <3>1. i \in Waiting /\ i \in Turn
      BY <1>1, <2>2, Positions DEF Waiting, Turn
    <3> QED
      BY <1>4, <2>2, <3>1 DEF Indv, WaitingVisible
  <2> QED
    BY <2>1, <2>2
<1>7. VacantVisible'
  <2> SUFFICES ASSUME NEW i \in (head + 1)..(Released + Capacity - 1)
               PROVE  /\ cVisible'[CellOf(i)] = {i}
                      /\ i \in pVisible'[CellOf(i)]
                      /\ pVisible'[CellOf(i)] \subseteq {i, i - Capacity + 1}
    BY <1>1 DEF VacantVisible, Vacant, CellOf
  <2>1. i \in Vacant /\ i \in Turn /\ i # head
    BY <1>1, Positions DEF Vacant, Turn
  <2> QED
    BY <1>4, <2>1 DEF Indv, VacantVisible
<1>8. UnreadIntact'
  <2> SUFFICES ASSUME NEW i \in Taken..head
               PROVE  data[CellOf(i)] = i + 1
    BY <1>1, Positions DEF UnreadIntact, CellOf
  <2>1. CASE i = head
    BY <2>1 DEF Indv, InFlight
  <2>2. CASE i # head
    BY <1>1, <2>2, Positions DEF Indv, UnreadIntact
  <2> QED
    BY <2>1, <2>2
<1>9. InFlight'
  BY DEF InFlight
<1> QED
  BY <1>2, <1>3, <1>6, <1>7, <1>8, <1>9 DEF Indv

LEMMA PushAdvanceIndv == Indv /\ PushAdvance => Indv'
<1> SUFFICES ASSUME Indv, PushAdvance PROVE Indv'
  OBVIOUS
<1> USE DEF PushAdvance, consVars
<1>1. Published' = Published /\ Taken' = Taken /\ Released' = Released
  BY Positions DEF Published, Taken, Released
<1>2. Types' /\ PopOnlyPublished' /\ InFlight'
  BY <1>1, Positions DEF Indv, Types, PopOnlyPublished, InFlight
<1>3. Bounds'
  BY <1>1, Positions DEF Indv, Bounds, PushOnlyWithRoom
<1>4. WaitingVisible' /\ VacantVisible' /\ UnreadIntact'
  BY <1>1 DEF Indv, WaitingVisible, Waiting, VacantVisible, Vacant, UnreadIntact, CellOf
<1> QED
  BY <1>2, <1>3, <1>4 DEF Indv

LEMMA ConsumerLoadIndv == Indv /\ (PopRefused \/ PopCheck) => Indv'
<1> SUFFICES ASSUME Indv, PopRefused \/ PopCheck PROVE Indv'
  OBVIOUS
<1> USE DEF PopRefused, PopCheck, prodVars, consVars
<1>1. PICK seq \in cVisible[CellOf(tail)] :
          /\ cVisible' = Load(cVisible, CellOf(tail), seq)
          /\ cPc' = "read" => Filled(seq, tail)
  OBVIOUS
<1>2. /\ Published' = Published /\ Taken' = Taken /\ Released' = Released
      /\ UnreadIntact'
  BY PositionsKept
<1>3. /\ cVisible' \in [Cells -> SUBSET Nat] /\ WaitingVisible' /\ VacantVisible'
  BY <1>1, <1>2, ConsumerLoads
<1>4. Types' /\ InFlight'
  BY <1>2, <1>3 DEF Indv, Types, InFlight, CellOf
<1>5. PopOnlyPublished'
  BY <1>1, <1>2, ItemWhenFilled DEF PopOnlyPublished
<1>6. Bounds'
  BY <1>2 DEF Indv, Bounds, PushOnlyWithRoom
<1> QED
  BY <1>2, <1>3, <1>4, <1>5, <1>6 DEF Indv

LEMMA PopReadIndv == Indv /\ PopRead => Indv'
<1> SUFFICES ASSUME Indv, PopRead PROVE Indv'
  OBVIOUS
<1> USE DEF PopRead, prodVars
<1>1. /\ Published' = Published /\ Taken' = Taken + 1 /\ Released' = Released
      /\ Taken = tail /\ tail < Published
  BY Positions DEF Published, Taken, Released, Indv, PopOnlyPublished
<1>2. Types'
  BY Positions DEF Indv, Types
<1>3. Bounds' /\ PopOnlyPublished' /\ InFlight'
  BY <1>1, Positions DEF Indv, Bounds, PushOnlyWithRoom, PopOnlyPublished, InFlight, CellOf
<1>4. WaitingVisible' /\ VacantVisible'
  BY <1>1 DEF Indv, WaitingVisible, Waiting, VacantVisible, Vacant, CellOf
<1>5. UnreadIntact'
  <2> SUFFICES ASSUME NEW i \in (Taken + 1)..(Published - 1)
               PROVE  data[CellOf(i)] = i + 1
    BY <1>1 DEF UnreadIntact, CellOf
  <2>1. i \in Taken..(Published - 1)
    BY Positions
  <2> QED
    BY <2>1 DEF Indv, UnreadIntact
<1> QED
  BY <1>2, <1>3, <1>4, <1>5 DEF Indv

LEMMA PopReleaseIndv == Indv /\ PopRelease => Indv'
<1> SUFFICES ASSUME Indv, PopRelease PROVE Indv'
  OBVIOUS
<1> USE DEF PopRelease, prodVars, Store, Show
<1>1. /\ Published' = Published /\ Taken' = Taken /\ Released' = tail + 1
      /\ Released = tail /\ Taken = tail + 1 /\ tail < Published
  BY Positions DEF Published, Taken, Released, Indv
<1>2. Types'
  <2>1. tail + Capacity \in Nat
    BY Positions
  <2> QED
    BY <2>1, Positions DEF Indv, Types
<1>3. Bounds' /\ PopOnlyPublished' /\ InFlight' /\ UnreadIntact'
  BY <1>1, Positions DEF Indv, Bounds, PushOnlyWithRoom, PopOnlyPublished, InFlight,
     UnreadIntact, CellOf
<1>4. ASSUME NEW i \in Turn, i # tail
      PROVE  /\ pVisible'[CellOf(i)] = pVisible[CellOf(i)]
             /\ cVisible'[CellOf(i)] = cVisible[CellOf(i)]
  <2>1. tail \in Turn
    BY <1>1, Positions DEF Turn
  <2>2. CellOf(i) # CellOf(tail) /\ CellOf(i) \in Cells
    BY <1>4, <2>1, Positions, CellOfDistinct, CellOfType DEF Turn
  <2> QED
    BY <2>2 DEF Indv, Types
<1>5. pVisible[CellOf(tail)] = {tail + 1} /\ CellOf(tail + Capacity) = CellOf(tail)
  BY <1>1, Positions, CellOfTurn DEF Indv, WaitingVisible, Waiting
<1>6. WaitingVisible'
  <2> SUFFICES ASSUME NEW i \in (tail + 1)..(Published - 1)
               PROVE  /\ pVisible'[CellOf(i)] = {i + 1}
                      /\ i + 1 \in cVisible'[CellOf(i)]
                      /\ cVisible'[CellOf(i)] \subseteq {i, i + 1}
    BY <1>1 DEF WaitingVisible, Waiting, CellOf
  <2>1. i \in Waiting /\ i \in Turn /\ i # tail
    BY <1>1, Positions DEF Waiting, Turn
  <2> QED
    BY <1>4, <2>1 DEF Indv, WaitingVisible
<1>7. VacantVisible'
  <2> SUFFICES ASSUME NEW i \in Published..(tail + Capacity)
               PROVE  /\ cVisible'[CellOf(i)] = {i}
                      /\ i \in pVisible'[CellOf(i)]
                      /\ pVisible'[CellOf(i)] \subseteq {i, i - Capacity + 1}
    <3>1. Published' = Published /\ Released' + Capacity - 1 = tail + Capacity
      BY <1>1, Positions
    <3> QED
      BY <3>1 DEF VacantVisible, Vacant, CellOf
  <2>1. CASE i = tail + Capacity
    BY <1>5, <2>1, Positions DEF Indv, Types
  <2>2. CASE i # tail + Capacity
    <3>1. i \in Vacant /\ i \in Turn /\ i # tail
      BY <1>1, <2>2, Positions DEF Vacant, Turn
    <3> QED
      BY <1>4, <3>1 DEF Indv, VacantVisible
  <2> QED
    BY <2>1, <2>2
<1> QED
  BY <1>2, <1>3, <1>6, <1>7 DEF Indv

LEMMA PopAdvanceIndv == Indv /\ PopAdvance => Indv'
<1> SUFFICES ASSUME Indv, PopAdvance PROVE Indv'
  OBVIOUS
<1> USE DEF PopAdvance, prodVars
<1>1. Published' = Published /\ Taken' = Taken /\ Released' = Released
  BY Positions DEF Published, Taken, Released
<1>2. Types' /\ PopOnlyPublished' /\ InFlight'
  BY <1>1, Positions DEF Indv, Types, PopOnlyPublished, InFlight, CellOf
<1>3. Bounds'
  BY <1>1, Positions DEF Indv, Bounds, PushOnlyWithRoom
<1>4. WaitingVisible' /\ VacantVisible' /\ UnreadIntact'
  BY <1>1 DEF Indv, WaitingVisible, Waiting, VacantVisible, Vacant, UnreadIntact, CellOf
<1> QED
  BY <1>2, <1>3, <1>4 DEF Indv

LEMMA NextIndv == Capacity > 1 /\ Indv /\ [Next]_vars => Indv'
<1> SUFFICES ASSUME Capacity > 1, Indv, [Next]_vars PROVE Indv'
  OBVIOUS
<1>1. CASE Producer
  BY <1>1, ProducerLoadIndv, PushWriteIndv, PushReleaseIndv, PushAdvanceIndv DEF Producer
<1>2. CASE Consumer
  BY <1>2, ConsumerLoadIndv, PopReadIndv, PopReleaseIndv, PopAdvanceIndv DEF Consumer
<1>3. CASE UNCHANGED vars
  BY <1>3 DEF vars, prodVars, consVars, Indv, Types, Bounds, PushOnlyWithRoom,
     PopOnlyPublished, WaitingVisible, Waiting, VacantVisible, Vacant, UnreadIntact,
     InFlight, Published, Taken, Released, CellOf
<1> QED
  BY <1>1, <1>2, <1>3 DEF Next

\* Indv holds throughout every behaviour of a queue of more than one cell.
THEOREM Inductive == ASSUME Capacity > 1 PROVE Spec => []Indv
<1>1. Capacity > 1
  OBVIOUS
<1> QED
  BY <1>1, InitIndv, NextIndv, PTL DEF Spec
-----------------------------------------------------------------------------
LEMMA IndvTypeOK == Indv => TypeOK
<1> SUFFICES ASSUME Indv PROVE TypeOK
  OBVIOUS
<1>1. ASSUME NEW c \in Cells PROVE pVisible[c] # {} /\ cVisible[c] # {}
  <2>1. PICK i \in Released..(Released + Capacity - 1) : CellOf(i) = c
    BY Positions, CellInTurn
  <2>2. i \in Waiting \/ i \in Vacant
    BY Positions DEF Waiting, Vacant
  <2> QED
    BY <2>1, <2>2 DEF Indv, WaitingVisible, VacantVisible
<1> QED
  BY <1>1 DEF Indv, Types, TypeOK

\* Types, and a load by either thread always has a value to return.
THEOREM TypeCorrect == ASSUME Capacity > 1 PROVE Spec => []TypeOK
BY IndvTypeOK, Inductive, PTL

\* try_push never overwrites an item the consumer has not read, its sequence
\* test refusing every full queue; try_pop reads only published cells, and
\* published items stay intact.
THEOREM CellsAreSafe == ASSUME Capacity > 1 PROVE Spec => []CellsSafe
<1>1. Indv => CellsSafe
  BY DEF Indv, Bounds, CellsSafe
<1> QED
  BY <1>1, Inductive, PTL
-----------------------------------------------------------------------------
(* The queue implements the bounded FIFO of Capacity items. *)

LEMMA InitRefines == Init => Fifo!Init
BY DEF Init, Fifo!Init, Published, Taken

LEMMA StepRefines == Indv /\ [Next]_vars => [Fifo!Next]_(Fifo!vars)
<1> SUFFICES ASSUME Indv, [Next]_vars PROVE [Fifo!Next]_(Fifo!vars)
  OBVIOUS
<1> USE DEF Fifo!vars, Published, Taken
<1>1. CASE PushRefused \/ PushCheck \/ PushWrite \/ PopRefused \/ PopCheck
  BY <1>1 DEF PushRefused, PushCheck, PushWrite, PopRefused, PopCheck, prodVars, consVars
<1>2. CASE PushRelease
  <2>1. pPc = "release" /\ pPc' = "advance" /\ UNCHANGED <<head, tail, cPc, item>>
    BY <1>2 DEF PushRelease, consVars
  <2>2. head - Taken < Capacity
    BY <2>1, Positions DEF Indv, Bounds, PushOnlyWithRoom
  <2> QED
    BY <2>1, <2>2 DEF Fifo!Next, Fifo!Push
<1>3. CASE PushAdvance \/ PopRelease
  BY <1>3 DEF PushAdvance, PopRelease, prodVars, consVars
<1>4. CASE PopRead
  <2>1. /\ cPc = "read" /\ cPc' = "release" /\ UNCHANGED <<head, tail, pPc>>
        /\ item' = data[CellOf(tail)]
    BY <1>4 DEF PopRead, prodVars
  <2>2. tail < Published
    BY <2>1 DEF Indv, PopOnlyPublished
  <2>3. data[CellOf(tail)] = tail + 1
    BY <2>1, <2>2, Positions DEF Indv, UnreadIntact
  <2> QED
    BY <2>1, <2>2, <2>3 DEF Fifo!Next, Fifo!Pop
<1>5. CASE PopAdvance
  BY <1>5 DEF PopAdvance, prodVars
<1>6. CASE UNCHANGED vars
  BY <1>6 DEF vars, prodVars, consVars
<1> QED
  BY <1>1, <1>2, <1>3, <1>4, <1>5, <1>6 DEF Next, Producer, Consumer

\* An item accepted by try_push comes out of try_pop once, unchanged and in
\* order, and at most Capacity items wait.
THEOREM Refinement == ASSUME Capacity > 1 PROVE Spec => ImplementsFifo
<1> QED
  BY InitRefines, StepRefines, Inductive, PTL DEF Spec, ImplementsFifo, Fifo!Spec
=============================================================================
