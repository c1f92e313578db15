-------------------------- MODULE RingBufferProofs --------------------------
(***************************************************************************)
(* RingBuffer keeps its slots race free and implements the bounded FIFO,   *)
(* for every Size and every number of pushes.                              *)
(*                                                                         *)
(* Indv relates the wrapped indices to positions: the n-th store to head_  *)
(* or tail_ holds position n - 1 modulo Size, and positions in use span    *)
(* less than one turn, so an inequality of wrapped indices decides an      *)
(* inequality of positions.                                                *)
(***************************************************************************)
EXTENDS RingBuffer, NumberLemmas

\* Every stored index is its position, wrapped.
LogsWrap ==
    /\ \A n \in 1..Len(headLog) : headLog[n] = Wrap(n - 1)
    /\ \A n \in 1..Len(tailLog) : tailLog[n] = Wrap(n - 1)

\* No more than Size - 1 items wait, by the producer's own stale view too.
Occupancy ==
    /\ Popped <= headSeen - 1
    /\ Pushed - (tailSeen - 1) <= Size - 1

\* An item written and not yet published, an item read and not yet released.
InFlight ==
    /\ pPc = "publish" => buffer[HeadIx] = Pushed + 1
    /\ cPc = "publish" => item = Popped + 1

\* What a hint says of the positions.
HintPositions ==
    /\ cHint = "items" => Popped < headSeen - 1
    /\ pHint = "empty" => tailSeen - 1 = Pushed

Indv ==
    /\ TypeOK
    /\ LogsWrap
    /\ Occupancy
    /\ AccessesAcquired
    /\ UnreadIntact
    /\ InFlight
    /\ HintPositions

\* All the proofs use of the power of two.
LEMMA SizePositive == Size \in Nat \ {0}
BY SizeAssumption

USE SizePositive

\* The positions behind the state: what the steps below compute with.
LEMMA Positions ==
    ASSUME Indv
    PROVE  /\ Pushed \in Nat /\ Popped \in Nat
           /\ Len(headLog) = Pushed + 1 /\ Len(tailLog) = Popped + 1
           /\ Popped <= Pushed /\ Pushed - Popped <= Size - 1
           /\ headSeen \in 1..(Pushed + 1) /\ tailSeen \in 1..(Popped + 1)
           /\ HeadIx = Wrap(Pushed) /\ TailIx = Wrap(Popped)
           /\ HeadIx \in Slots /\ TailIx \in Slots
           /\ Wrap(HeadIx + 1) = Wrap(Pushed + 1)
           /\ Wrap(TailIx + 1) = Wrap(Popped + 1)
           /\ Wrap(Pushed + 1) \in Slots /\ Wrap(Popped + 1) \in Slots
<1>1. /\ Len(headLog) \in Nat /\ Len(tailLog) \in Nat
      /\ headSeen \in 1..Len(headLog) /\ tailSeen \in 1..Len(tailLog)
      /\ Popped <= headSeen - 1 /\ Pushed - (tailSeen - 1) <= Size - 1
  BY DEF Indv, TypeOK, Occupancy
<1>2. /\ Pushed \in Nat /\ Popped \in Nat
      /\ Len(headLog) = Pushed + 1 /\ Len(tailLog) = Popped + 1
      /\ Popped <= Pushed /\ Pushed - Popped <= Size - 1
  BY <1>1 DEF Pushed, Popped
<1>3. HeadIx = Wrap(Pushed) /\ TailIx = Wrap(Popped)
  BY <1>1, <1>2 DEF Indv, LogsWrap, HeadIx, TailIx, Newest
<1>4. HeadIx \in Slots /\ TailIx \in Slots
  BY <1>1, <1>2 DEF Indv, TypeOK, HeadIx, TailIx, Newest
<1>5. Wrap(HeadIx + 1) = Wrap(Pushed + 1) /\ Wrap(TailIx + 1) = Wrap(Popped + 1)
  BY <1>2, <1>3, WrapSucc DEF Wrap
<1>6. Wrap(Pushed + 1) \in Slots /\ Wrap(Popped + 1) \in Slots
  BY <1>2, QuotientRemainder, Pushed + 1 \in Nat, Popped + 1 \in Nat DEF Wrap, Slots
<1> QED
  BY <1>1, <1>2, <1>3, <1>4, <1>5, <1>6
-----------------------------------------------------------------------------
LEMMA InitIndv == Init => Indv
<1> SUFFICES ASSUME Init PROVE Indv
  OBVIOUS
<1>1. /\ Len(headLog) = 1 /\ Len(tailLog) = 1 /\ headLog[1] = 0 /\ tailLog[1] = 0
      /\ Pushed = 0 /\ Popped = 0 /\ 0 \in Slots
  BY DEF Init, Pushed, Popped, Slots
<1>2. TypeOK
  <2>1. <<0>> \in Seq(Slots)
    BY <1>1
  <2>2. [s \in Slots |-> 0] \in [Slots -> Nat]
    OBVIOUS
  <2> QED
    BY <1>1, <2>1, <2>2 DEF Init, TypeOK, Hints
<1>3. LogsWrap
  BY <1>1 DEF Init, LogsWrap, Wrap
<1>4. Occupancy /\ AccessesAcquired /\ UnreadIntact /\ InFlight /\ HintPositions
  BY <1>1 DEF Init, Occupancy, AccessesAcquired, UnreadIntact, InFlight, HintPositions
<1> QED
  BY <1>2, <1>3, <1>4 DEF Indv

\* A view that does not look full leaves room: if it were Size - 1 behind,
\* the next index would have come round to it.
LEMMA RoomWhenNotFull ==
    ASSUME Indv, NEW n \in tailSeen..Len(tailLog), ~LooksFull(tailLog[n])
    PROVE  Pushed - (n - 1) < Size - 1
<1>1. /\ Pushed \in Nat /\ n \in Nat /\ n >= tailSeen /\ tailSeen \in Nat /\ n >= 1
      /\ n <= Len(tailLog) /\ Pushed - (tailSeen - 1) <= Size - 1 /\ n - 1 \in Nat
  BY Positions, SMTT(40) DEF Indv, Occupancy
<1>2. tailLog[n] = Wrap(n - 1)
  BY <1>1, Positions DEF Indv, LogsWrap
<1>3. Wrap(Pushed + 1) # Wrap(n - 1)
  BY <1>2, Positions DEF LooksFull
<1>4. Pushed + 1 # (n - 1) + Size
  BY <1>1, <1>3, WrapTurn DEF Wrap
<1> QED
  BY <1>1, <1>4

\* A view that differs from the consumer's tail is ahead of it.
LEMMA ItemWhenNotEmpty ==
    ASSUME Indv, NEW n \in headSeen..Len(headLog), headLog[n] # TailIx
    PROVE  Popped < n - 1
<1>1. n \in 1..Len(headLog) /\ n >= headSeen /\ Popped <= headSeen - 1
  BY Positions DEF Indv, Occupancy
<1>2. headLog[n] = Wrap(n - 1) /\ TailIx = Wrap(Popped)
  BY <1>1, Positions DEF Indv, LogsWrap
<1>3. n - 1 # Popped
  BY <1>2
<1> QED
  BY <1>1, <1>3, Positions, SMTT(40)

\* The item a pop is about to move out is the next one in order.
LEMMA NextItem ==
    ASSUME Indv, cPc = "read"
    PROVE  Popped < Pushed /\ buffer[TailIx] = Popped + 1
<1>1. Popped < Pushed
  BY Positions DEF Indv, AccessesAcquired
<1> QED
  BY <1>1, Positions DEF Indv, UnreadIntact

\* push never writes the slot of an item that still waits.
LEMMA FreeSlot ==
    ASSUME Indv, pPc \in {"write", "publish"}, NEW i \in Popped..(Pushed - 1)
    PROVE  Wrap(i) # HeadIx
<1>1. i \in Nat /\ i < Pushed /\ Pushed < i + Size
  BY Positions, SMTT(40) DEF Indv, AccessesAcquired
<1> QED
  BY <1>1, Positions, WrapDistinct DEF Wrap
-----------------------------------------------------------------------------
(* Each action preserves Indv.  The parts an action leaves alone follow    *)
(* from the variables it leaves alone.                                     *)

\* What the parts of Indv read.
LEMMA LoadsOnly ==
    ASSUME Indv, UNCHANGED <<headLog, tailLog, buffer, item>>
    PROVE  /\ LogsWrap'
           /\ Pushed' = Pushed /\ Popped' = Popped
           /\ HeadIx' = HeadIx /\ TailIx' = TailIx
           /\ cPc' = "publish" \/ cPc # "publish" => UnreadIntact'
           /\ (pPc' = pPc \/ pPc' # "publish") /\ (cPc' = cPc \/ cPc' # "publish")
                => InFlight'
BY DEF Indv, LogsWrap, Pushed, Popped, HeadIx, TailIx, Newest, UnreadIntact, InFlight, Wrap

LEMMA PushRefusedIndv == Indv /\ PushRefused => Indv'
<1> SUFFICES ASSUME Indv, PushRefused PROVE Indv'
  OBVIOUS
<1> USE DEF PushRefused, consVars
<1>1. PICK n \in tailSeen..Len(tailLog) : LooksFull(tailLog[n]) /\ tailSeen' = n
  OBVIOUS
<1>2. LogsWrap' /\ UnreadIntact' /\ InFlight' /\ Pushed' = Pushed /\ Popped' = Popped
  BY LoadsOnly
<1>3. TypeOK'
  BY <1>1, Positions DEF Indv, TypeOK
<1>4. Occupancy' /\ AccessesAcquired' /\ HintPositions'
  BY <1>1, <1>2, Positions, SMTT(40) DEF Indv, Occupancy, AccessesAcquired, HintPositions
<1> QED
  BY <1>2, <1>3, <1>4 DEF Indv

LEMMA PushCheckIndv == Indv /\ PushCheck => Indv'
<1> SUFFICES ASSUME Indv, PushCheck PROVE Indv'
  OBVIOUS
<1> USE DEF PushCheck, consVars
<1>1. PICK n \in tailSeen..Len(tailLog) : ~LooksFull(tailLog[n]) /\ tailSeen' = n
  OBVIOUS
<1>2. LogsWrap' /\ UnreadIntact' /\ InFlight' /\ Pushed' = Pushed /\ Popped' = Popped
  BY LoadsOnly
<1>3. TypeOK'
  BY <1>1, Positions DEF Indv, TypeOK
<1>4. Pushed - (n - 1) < Size - 1
  BY <1>1, RoomWhenNotFull
<1>5. Occupancy' /\ AccessesAcquired' /\ HintPositions'
  BY <1>1, <1>2, <1>4, Positions, SMTT(40) DEF Indv, Occupancy, AccessesAcquired, HintPositions
<1> QED
  BY <1>2, <1>3, <1>5 DEF Indv

LEMMA PushWriteIndv == Indv /\ PushWrite => Indv'
<1> SUFFICES ASSUME Indv, PushWrite PROVE Indv'
  OBVIOUS
<1> USE DEF PushWrite, consVars
<1>1. /\ LogsWrap' /\ Pushed' = Pushed /\ Popped' = Popped
      /\ HeadIx' = HeadIx /\ TailIx' = TailIx
  BY DEF Indv, LogsWrap, Pushed, Popped, HeadIx, TailIx, Newest
<1>2. TypeOK'
  BY Positions, SMTT(40) DEF Indv, TypeOK
<1>3. Occupancy' /\ AccessesAcquired' /\ HintPositions'
  BY <1>1, Positions DEF Indv, Occupancy, AccessesAcquired, HintPositions
<1>4. UnreadIntact'
  <2> SUFFICES ASSUME NEW i \in Popped..(Pushed - 1), ~(i = Popped /\ cPc = "publish")
               PROVE  buffer'[Wrap(i)] = i + 1
    BY <1>1 DEF UnreadIntact
  <2>1. buffer[Wrap(i)] = i + 1
    BY DEF Indv, UnreadIntact
  <2>2. Wrap(i) # HeadIx
    BY FreeSlot
  <2> QED
    BY <2>1, <2>2, Positions DEF Indv, TypeOK
<1>5. InFlight'
  BY <1>1, Positions DEF Indv, TypeOK, InFlight
<1> QED
  BY <1>1, <1>2, <1>3, <1>4, <1>5 DEF Indv

LEMMA PushPublishIndv == Indv /\ PushPublish => Indv'
<1> SUFFICES ASSUME Indv, PushPublish PROVE Indv'
  OBVIOUS
<1> USE DEF PushPublish, consVars
<1>1. /\ headLog' \in Seq(Slots) /\ Len(headLog') = Len(headLog) + 1
      /\ \A n \in 1..Len(headLog) : headLog'[n] = headLog[n]
      /\ headLog'[Len(headLog) + 1] = Wrap(Pushed + 1)
  <2>1. headLog \in Seq(Slots) /\ Wrap(Pushed + 1) \in Slots
    BY Positions DEF Indv, TypeOK
  <2>2. headLog' = Append(headLog, Wrap(Pushed + 1))
    BY Positions
  <2> QED
    BY <2>1, <2>2
<1>2. Pushed' = Pushed + 1 /\ Popped' = Popped /\ TailIx' = TailIx
  BY <1>1, Positions DEF Pushed, Popped, TailIx, Newest
<1>3. TypeOK'
  <2>1. tailSeen' \in 1..Len(tailLog') /\ headSeen' \in 1..Len(headLog')
    BY <1>1, Positions
  <2> QED
    BY <1>1, <2>1 DEF Indv, TypeOK, Hints
<1>4. LogsWrap'
  <2>1. \A n \in 1..Len(headLog') : n \in 1..Len(headLog) \/ n = Pushed + 2
    BY <1>1, Positions, SMTT(40)
  <2> QED
    BY <1>1, <2>1, Positions, SMTT(40) DEF Indv, LogsWrap
<1>5. Occupancy' /\ AccessesAcquired' /\ HintPositions'
  BY <1>2, Positions, SMTT(40) DEF Indv, Occupancy, AccessesAcquired, HintPositions
<1>6. UnreadIntact'
  <2> SUFFICES ASSUME NEW i \in Popped..Pushed, ~(i = Popped /\ cPc = "publish")
               PROVE  buffer[Wrap(i)] = i + 1
    <3>1. Popped' = Popped /\ Pushed' - 1 = Pushed /\ buffer' = buffer /\ cPc' = cPc
      BY <1>2, Positions
    <3> QED
      BY <3>1 DEF UnreadIntact
  <2>1. CASE i \in Popped..(Pushed - 1)
    BY <2>1 DEF Indv, UnreadIntact
  <2>2. CASE i = Pushed
    BY <2>2, Positions DEF Indv, InFlight
  <2> QED
    BY <2>1, <2>2, Positions, SMTT(40)
<1>7. InFlight'
  BY <1>2 DEF Indv, InFlight
<1> QED
  BY <1>3, <1>4, <1>5, <1>6, <1>7 DEF Indv

LEMMA ProducerProbeIndv == Indv /\ ProducerProbe => Indv'
<1> SUFFICES ASSUME Indv, ProducerProbe PROVE Indv'
  OBVIOUS
<1> USE DEF ProducerProbe, consVars
<1>1. PICK n \in tailSeen..Len(tailLog) :
          /\ tailSeen' = n
          /\ pHint' = IF HeadIx = tailLog[n] THEN "empty" ELSE "items"
  OBVIOUS
<1>2. LogsWrap' /\ UnreadIntact' /\ InFlight' /\ Pushed' = Pushed /\ Popped' = Popped
  BY LoadsOnly
<1>3. TypeOK'
  BY <1>1, Positions DEF Indv, TypeOK, Hints
<1>4. HeadIx = tailLog[n] => n - 1 = Pushed
  <2>1. n \in 1..Len(tailLog) /\ n - 1 \in Nat
        /\ n - 1 <= Pushed /\ Pushed < (n - 1) + Size
    BY Positions, SMTT(40) DEF Indv, Occupancy
  <2>2. tailLog[n] = Wrap(n - 1) /\ HeadIx = Wrap(Pushed)
    BY <2>1, Positions DEF Indv, LogsWrap
  <2>3. n - 1 < Pushed => Wrap(n - 1) # Wrap(Pushed)
    BY <2>1, Positions, WrapDistinct DEF Wrap
  <2> QED
    BY <2>1, <2>2, <2>3, Positions, SMTT(40)
<1>5. Occupancy' /\ AccessesAcquired' /\ HintPositions'
  BY <1>1, <1>2, <1>4, Positions, SMTT(40) DEF Indv, Occupancy, AccessesAcquired, HintPositions
<1> QED
  BY <1>2, <1>3, <1>5 DEF Indv

LEMMA PopEmptyIndv == Indv /\ (PopEmpty \/ SpinMiss) => Indv'
<1> SUFFICES ASSUME Indv, PopEmpty \/ SpinMiss PROVE Indv'
  OBVIOUS
<1> USE DEF PopEmpty, SpinMiss, prodVars
<1>1. PICK n \in headSeen..Len(headLog) : headLog[n] = TailIx /\ headSeen' = n
  OBVIOUS
<1>2. LogsWrap' /\ UnreadIntact' /\ InFlight' /\ Pushed' = Pushed /\ Popped' = Popped
  BY LoadsOnly
<1>3. TypeOK'
  <2>1. headSeen' \in 1..Len(headLog)
    BY <1>1, Positions
  <2> QED
    BY <2>1 DEF Indv, TypeOK
<1>4. Occupancy' /\ AccessesAcquired' /\ HintPositions'
  BY <1>1, <1>2, Positions, SMTT(40) DEF Indv, Occupancy, AccessesAcquired, HintPositions
<1> QED
  BY <1>2, <1>3, <1>4 DEF Indv

LEMMA FindItemIndv == Indv /\ (PopCheck \/ SpinHit) => Indv'
<1> SUFFICES ASSUME Indv, PopCheck \/ SpinHit PROVE Indv'
  OBVIOUS
<1> USE DEF PopCheck, SpinHit, FindItem, prodVars
<1>1. PICK n \in headSeen..Len(headLog) : headLog[n] # TailIx /\ headSeen' = n
  OBVIOUS
<1>2. LogsWrap' /\ UnreadIntact' /\ InFlight' /\ Pushed' = Pushed /\ Popped' = Popped
  BY LoadsOnly
<1>3. TypeOK'
  <2>1. headSeen' \in 1..Len(headLog)
    BY <1>1, Positions
  <2> QED
    BY <2>1 DEF Indv, TypeOK
<1>4. Popped < n - 1
  BY <1>1, ItemWhenNotEmpty
<1>5. Occupancy' /\ AccessesAcquired' /\ HintPositions'
  BY <1>1, <1>2, <1>4, Positions, SMTT(40) DEF Indv, Occupancy, AccessesAcquired, HintPositions
<1> QED
  BY <1>2, <1>3, <1>5 DEF Indv

LEMMA SpinStartIndv == Indv /\ SpinStart => Indv'
<1> SUFFICES ASSUME Indv, SpinStart PROVE Indv'
  OBVIOUS
<1> USE DEF SpinStart, prodVars
<1>1. LogsWrap' /\ UnreadIntact' /\ InFlight' /\ Pushed' = Pushed /\ Popped' = Popped
  BY LoadsOnly
<1>2. TypeOK' /\ Occupancy' /\ AccessesAcquired' /\ HintPositions'
  BY <1>1, Positions DEF Indv, TypeOK, Occupancy, AccessesAcquired, HintPositions
<1> QED
  BY <1>1, <1>2 DEF Indv

LEMMA PopReadIndv == Indv /\ PopRead => Indv'
<1> SUFFICES ASSUME Indv, PopRead PROVE Indv'
  OBVIOUS
<1> USE DEF PopRead, prodVars
<1>1. /\ LogsWrap' /\ Pushed' = Pushed /\ Popped' = Popped
      /\ HeadIx' = HeadIx /\ TailIx' = TailIx
  BY DEF Indv, LogsWrap, Pushed, Popped, HeadIx, TailIx, Newest
<1>2. buffer[TailIx] = Popped + 1 /\ Popped < Pushed
  BY NextItem
<1>3. TypeOK'
  BY <1>2, Positions DEF Indv, TypeOK
<1>4. Occupancy' /\ AccessesAcquired' /\ HintPositions'
  BY <1>1, Positions DEF Indv, Occupancy, AccessesAcquired, HintPositions
<1>5. UnreadIntact'
  <2> SUFFICES ASSUME NEW i \in (Popped + 1)..(Pushed - 1)
               PROVE  buffer'[Wrap(i)] = i + 1
    BY <1>1, Positions DEF UnreadIntact
  <2>1. i \in Nat /\ Popped < i /\ i < Popped + Size /\ i \in Popped..(Pushed - 1)
    BY Positions
  <2>2. buffer[Wrap(i)] = i + 1
    BY <2>1, Positions DEF Indv, UnreadIntact
  <2>3. Wrap(i) # TailIx
    BY <2>1, Positions, WrapDistinct DEF Wrap
  <2>4. Wrap(i) \in Slots
    BY <2>1, QuotientRemainder DEF Wrap, Slots
  <2> QED
    BY <2>2, <2>3, <2>4, Positions DEF Indv, TypeOK
<1>6. InFlight'
  <2>1. pPc = "publish" => HeadIx # TailIx
    <3>1. Popped \in Popped..(Pushed - 1)
      BY <1>2, Positions
    <3> QED
      BY <3>1, Positions, FreeSlot
  <2> QED
    BY <1>1, <1>2, <2>1, Positions DEF Indv, TypeOK, InFlight
<1> QED
  BY <1>1, <1>3, <1>4, <1>5, <1>6 DEF Indv

LEMMA PopPublishIndv == Indv /\ PopPublish => Indv'
<1> SUFFICES ASSUME Indv, PopPublish PROVE Indv'
  OBVIOUS
<1> USE DEF PopPublish, prodVars
<1>1. /\ tailLog' \in Seq(Slots) /\ Len(tailLog') = Len(tailLog) + 1
      /\ \A n \in 1..Len(tailLog) : tailLog'[n] = tailLog[n]
      /\ tailLog'[Len(tailLog) + 1] = Wrap(Popped + 1)
  <2>1. tailLog \in Seq(Slots) /\ Wrap(Popped + 1) \in Slots
    BY Positions DEF Indv, TypeOK
  <2>2. tailLog' = Append(tailLog, Wrap(Popped + 1))
    BY Positions
  <2> QED
    BY <2>1, <2>2
<1>2. Pushed' = Pushed /\ Popped' = Popped + 1 /\ HeadIx' = HeadIx
  BY <1>1, Positions DEF Pushed, Popped, HeadIx, Newest
<1>3. Popped < headSeen - 1
  BY DEF Indv, AccessesAcquired
<1>4. TypeOK'
  <2>1. tailSeen' \in 1..Len(tailLog') /\ headSeen' \in 1..Len(headLog')
    BY <1>1, Positions
  <2> QED
    BY <1>1, <2>1 DEF Indv, TypeOK, Hints
<1>5. LogsWrap'
  <2>1. \A n \in 1..Len(tailLog') : n \in 1..Len(tailLog) \/ n = Popped + 2
    BY <1>1, Positions, SMTT(40)
  <2> QED
    BY <1>1, <2>1, Positions, SMTT(40) DEF Indv, LogsWrap
<1>6. Occupancy' /\ AccessesAcquired'
  BY <1>2, <1>3, Positions DEF Indv, Occupancy, AccessesAcquired
<1>7. HintPositions'
  BY <1>2, Positions DEF Indv, HintPositions
<1>8. UnreadIntact'
  <2> SUFFICES ASSUME NEW i \in (Popped + 1)..(Pushed - 1)
               PROVE  buffer[Wrap(i)] = i + 1
    <3>1. /\ Popped' = Popped + 1 /\ Pushed' = Pushed /\ buffer' = buffer
      BY <1>2
    <3> QED
      BY <3>1 DEF UnreadIntact
  <2>1. i \in Popped..(Pushed - 1) /\ i # Popped
    BY Positions
  <2> QED
    BY <2>1 DEF Indv, UnreadIntact
<1>9. InFlight'
  BY <1>2 DEF Indv, InFlight
<1> QED
  BY <1>4, <1>5, <1>6, <1>7, <1>8, <1>9 DEF Indv

LEMMA ConsumerProbeIndv == Indv /\ ConsumerProbe => Indv'
<1> SUFFICES ASSUME Indv, ConsumerProbe PROVE Indv'
  OBVIOUS
<1> USE DEF ConsumerProbe, prodVars
<1>1. PICK n \in headSeen..Len(headLog) :
          /\ headSeen' = n
          /\ cHint' = IF headLog[n] = TailIx THEN "empty" ELSE "items"
  OBVIOUS
<1>2. LogsWrap' /\ UnreadIntact' /\ InFlight' /\ Pushed' = Pushed /\ Popped' = Popped
  BY LoadsOnly
<1>3. TypeOK'
  BY <1>1, Positions DEF Indv, TypeOK, Hints
<1>4. headLog[n] # TailIx => Popped < n - 1
  BY ItemWhenNotEmpty
<1>5. Occupancy' /\ AccessesAcquired' /\ HintPositions'
  BY <1>1, <1>2, <1>4, Positions, SMTT(40) DEF Indv, Occupancy, AccessesAcquired, HintPositions
<1> QED
  BY <1>2, <1>3, <1>5 DEF Indv

LEMMA NextIndv == Indv /\ [Next]_vars => Indv'
<1> SUFFICES ASSUME Indv, [Next]_vars PROVE Indv'
  OBVIOUS
<1>1. CASE Producer
  BY <1>1, PushRefusedIndv, PushCheckIndv, PushWriteIndv, PushPublishIndv,
     ProducerProbeIndv DEF Producer
<1>2. CASE Consumer
  BY <1>2, PopEmptyIndv, FindItemIndv, SpinStartIndv, PopReadIndv,
     PopPublishIndv, ConsumerProbeIndv DEF Consumer
<1>3. CASE UNCHANGED vars
  BY <1>3 DEF vars, prodVars, consVars, Indv, TypeOK, LogsWrap, Occupancy,
     AccessesAcquired, UnreadIntact, InFlight, HintPositions,
     Pushed, Popped, HeadIx, TailIx, Newest, Wrap
<1> QED
  BY <1>1, <1>2, <1>3 DEF Next

\* Indv holds throughout every behaviour.
THEOREM Inductive == Spec => []Indv
<1> QED
  BY InitIndv, NextIndv, PTL DEF Spec
-----------------------------------------------------------------------------
\* The state of a ring is well typed, and the position each thread loaded last
\* exists in the modification order of the other's index.
THEOREM TypeCorrect == Spec => []TypeOK
<1>1. Indv => TypeOK
  BY DEF Indv
<1> QED
  BY <1>1, Inductive, PTL

LEMMA IndvSafe == Indv => NoSlotRace /\ AccessesAcquired /\ UnreadIntact /\ HintsHold
<1> SUFFICES ASSUME Indv PROVE NoSlotRace /\ AccessesAcquired /\ UnreadIntact /\ HintsHold
  OBVIOUS
<1>1. NoSlotRace
  <2> SUFFICES ASSUME pPc = "write", cPc = "read" PROVE HeadIx # TailIx
    BY DEF NoSlotRace
  <2>1. Popped \in Popped..(Pushed - 1)
    BY NextItem, Positions
  <2> QED
    BY <2>1, FreeSlot, Positions
<1>2. HintsHold
  <2>1. ASSUME cHint = "items", NEW n \in headSeen..Len(headLog)
        PROVE  headLog[n] # TailIx
    <3>1. /\ n \in 1..Len(headLog) /\ n - 1 \in Nat
          /\ Popped < n - 1 /\ n - 1 < Popped + Size
      BY <2>1, Positions DEF Indv, HintPositions
    <3>2. headLog[n] = Wrap(n - 1) /\ TailIx = Wrap(Popped)
      BY <3>1, Positions DEF Indv, LogsWrap
    <3> QED
      BY <3>1, <3>2, Positions, WrapDistinct DEF Wrap
  <2>2. ASSUME pHint = "empty", Size > 1, NEW n \in tailSeen..Len(tailLog)
        PROVE  ~LooksFull(tailLog[n])
    <3>1. n \in 1..Len(tailLog) /\ n - 1 = Pushed
      BY <2>2, Positions, SMTT(40) DEF Indv, HintPositions
    <3>2. tailLog[n] = Wrap(Pushed)
      BY <3>1, Positions DEF Indv, LogsWrap
    <3>3. Wrap(Pushed) # Wrap(Pushed + 1)
      <4>1. PICK a \in Nat : a = Pushed
        BY Positions
      <4>2. a + 1 \in Nat /\ a < a + 1 /\ a + 1 < a + Size
        BY <2>2, <4>1, SizePositive
      <4>3. a % Size # (a + 1) % Size
        BY <4>1, <4>2, SizePositive, WrapDistinct
      <4> QED
        BY <4>1, <4>3 DEF Wrap
    <3> QED
      BY <3>2, <3>3, Positions DEF LooksFull
  <2> QED
    BY <2>1, <2>2 DEF HintsHold
<1> QED
  BY <1>1, <1>2 DEF Indv

\* However stale the indices the two threads load, they never touch the same
\* slot at the same time, each access to a slot is ordered after the other
\* side's last access to it by an acquire load, and no push overwrites an item
\* that waits.
THEOREM SlotsAreSafe == Spec => []SlotsSafe
<1>1. Indv => SlotsSafe
  BY IndvSafe DEF SlotsSafe
<1> QED
  BY <1>1, Inductive, PTL

\* What empty_heuristic guarantees each thread.
THEOREM HintsGuarantee == Spec => []HintsHold
BY IndvSafe, Inductive, PTL
-----------------------------------------------------------------------------
(* The ring implements the bounded FIFO of Size - 1 items. *)

LEMMA InitRefines == Init => Fifo!Init
BY DEF Init, Fifo!Init, Pushed, Popped

LEMMA StepRefines == Indv /\ Indv' /\ [Next]_vars => [Fifo!Next]_(Fifo!vars)
<1> SUFFICES ASSUME Indv, Indv', [Next]_vars PROVE [Fifo!Next]_(Fifo!vars)
  OBVIOUS
<1> USE DEF Fifo!vars
<1>1. ASSUME UNCHANGED <<headLog, tailLog, item>>,
             cPc' = cPc \/ (cPc # "publish" /\ cPc' # "publish")
      PROVE  UNCHANGED Fifo!vars
  BY <1>1 DEF Pushed, Popped
<1>2. CASE PushRefused \/ PushCheck \/ PushWrite \/ ProducerProbe
  BY <1>1, <1>2 DEF PushRefused, PushCheck, PushWrite, ProducerProbe, consVars
<1>3. CASE PopEmpty \/ SpinMiss \/ PopCheck \/ SpinHit \/ SpinStart \/ ConsumerProbe
  BY <1>1, <1>3 DEF PopEmpty, SpinMiss, PopCheck, SpinHit, FindItem, SpinStart,
     ConsumerProbe, prodVars
<1>4. CASE PushPublish
  <2>1. Pushed' = Pushed + 1 /\ Popped' = Popped /\ cPc' = cPc /\ item' = item
    <3>1. headLog \in Seq(Slots) /\ Wrap(HeadIx + 1) \in Slots
      BY Positions DEF Indv, TypeOK
    <3> QED
      BY <1>4, <3>1, Positions DEF PushPublish, consVars, Pushed, Popped
  <2>2. Pushed - Popped < Size - 1
    BY <1>4, Positions DEF PushPublish, Indv, AccessesAcquired
  <2> QED
    BY <2>1, <2>2, Positions DEF Fifo!Next, Fifo!Push
<1>5. CASE PopRead
  <2>1. Pushed' = Pushed /\ Popped' = Popped /\ cPc = "read" /\ cPc' = "publish"
    BY <1>5 DEF PopRead, prodVars, Pushed, Popped
  <2>2. Popped < Pushed /\ item' = Popped + 1
    BY <1>5, NextItem DEF PopRead
  <2> QED
    BY <2>1, <2>2 DEF Fifo!Next, Fifo!Pop
<1>6. CASE PopPublish
  <2>1. Popped' = Popped + 1 /\ Pushed' = Pushed /\ item' = item
    <3>1. tailLog \in Seq(Slots) /\ Wrap(TailIx + 1) \in Slots
      BY Positions DEF Indv, TypeOK
    <3> QED
      BY <1>6, <3>1, Positions DEF PopPublish, prodVars, Pushed, Popped
  <2> QED
    BY <1>6, <2>1 DEF PopPublish
<1>7. CASE UNCHANGED vars
  BY <1>1, <1>7 DEF vars, prodVars, consVars
<1> QED
  BY <1>2, <1>3, <1>4, <1>5, <1>6, <1>7 DEF Next, Producer, Consumer

\* An item accepted by push comes out of pop or pop_spin once, unchanged and in
\* order, and at most Size - 1 items wait.
THEOREM Refinement == Spec => ImplementsFifo
<1> QED
  BY InitRefines, StepRefines, Inductive, PTL DEF Spec, ImplementsFifo, Fifo!Spec
=============================================================================
