------------------------ MODULE SharedObjectsProofs ------------------------
(***************************************************************************)
(* Proofs about MCSharedObjects: the strategy machine, the order queue,    *)
(* the trade journal and the circuit breaker, for any threads, consumers,  *)
(* queue lengths, trades, limits and times.                                *)
(*                                                                         *)
(* SharedAssumption is all that type correctness, the journal's sums and   *)
(* the breaker need.  OneFeeder and LoneConsumer say how the headers mean to be used:  *)
(* one loop feeds the regimes, one thread drains the queue.  With two of   *)
(* them the stores of two updates interleave, and the item that has_items  *)
(* saw may be gone; no number of the other threads does harm.              *)
(*                                                                         *)
(* The journal's sum of what is on its way is a fold over a set, which the *)
(* library defines with CHOOSE: NumberLemmas proves that such a sum        *)
(* exists, is one, and changes by the amount of the element that enters or *)
(* leaves.                                                                 *)
(***************************************************************************)
EXTENDS MCSharedObjects, Sequences, FiniteSetTheorems, NumberLemmas, TLAPS

LEMMA SharedFacts ==
    IsFiniteSet(Threads) /\ MaxLength \in Nat /\ Journal!TradesAssumption
BY SharedAssumption

LEMMA BreakerFacts == Breaker!BreakerAssumption
BY SharedAssumption
-----------------------------------------------------------------------------
(* The trade journal. *)

\* What the writers in X still have to book on a side.
Booked(X) == Journal!MapThenSumSet(LAMBDA w : trade[w].pnl, X)

Amounts == [w \in Threads |-> trade[w].pnl]

\* Booked is a sum as Sums describes it.
BookedSums ==
    \A h, X : /\ X \subseteq Threads /\ Amounts \in [Threads -> Int]
              /\ h \in [SUBSET Threads -> Int] /\ Sums(h, Threads, Amounts)
              => Booked(X) = h[X]

LEMMA BookedIsSum == BookedSums
<1> SUFFICES ASSUME NEW X, X \subseteq Threads, Amounts \in [Threads -> Int],
                    NEW h \in [SUBSET Threads -> Int], Sums(h, Threads, Amounts)
             PROVE  Booked(X) = h[X]
  BY DEF BookedSums
<1> DEFINE c(s) == CHOOSE x \in s : TRUE
           D(g) == g = [s \in SUBSET X |-> IF s = {} THEN 0 ELSE trade[c(s)].pnl + g[s \ {c(s)}]]
           e == [w \in X |-> trade[w].pnl]
           k == [s \in SUBSET X |-> h[s]]
<1>1. Booked(X) = (CHOOSE g : D(g))[X]
  BY Zenon DEF Booked, Journal!MapThenSumSet, Journal!MapThenFoldSet
<1>2. ASSUME NEW s \in SUBSET X, s # {}
      PROVE  c(s) \in s /\ trade[c(s)].pnl = Amounts[c(s)] /\ e[c(s)] = Amounts[c(s)]
  BY <1>2 DEF Amounts
<1>3. D(k)
  <2>1. ASSUME NEW s \in SUBSET X
        PROVE  k[s] = IF s = {} THEN 0 ELSE trade[c(s)].pnl + k[s \ {c(s)}]
    BY <1>2, ZenonT(60) DEF Sums, Choice
  <2> QED
    BY <2>1
<1>4. \A g : D(g) => Sums(g, X, e)
  BY <1>2 DEF Sums, Choice
<1>5. ASSUME NEW g, D(g) PROVE g[X] = h[X]
  <2>1. \A x \in X : e[x] = Amounts[x]
    BY DEF Amounts
  <2>2. Sums(g, X, e) /\ X \in SUBSET Threads
    BY <1>4, <1>5
  <2>3. IsFiniteSet(X) /\ IsFiniteSet(Threads)
    BY SharedFacts, FS_Subset
  <2> HIDE DEF D, e, k, c
  <2> QED
    BY <2>1, <2>2, <2>3, SumsAgree
<1>6. D(CHOOSE g : D(g))
  BY <1>3
<1> QED
  BY <1>1, <1>5, <1>6

LEMMA BookedIsSumNext == BookedSums'
BY BookedIsSum, PTL

\* The writers between lines 18 and 25, and what they still have to book.
OnTheWay == {w \in Threads : jPc[w] \in {"side", "gross"}}

Way == Booked(OnTheWay)

WaySums ==
    \A h : /\ Amounts \in [Threads -> Int]
           /\ h \in [SUBSET Threads -> Int] /\ Sums(h, Threads, Amounts)
           => Way = h[OnTheWay]

LEMMA WayIsSum == WaySums
BY BookedIsSum DEF WaySums, BookedSums, Way, OnTheWay

LEMMA WayIsSumNext == WaySums'
BY WayIsSum, PTL

\* A step that changes no amount on its way.
LEMMA WayKept ==
    ASSUME Amounts \in [Threads -> Int], Amounts' \in [Threads -> Int],
           OnTheWay' = OnTheWay, \A w \in OnTheWay : Amounts'[w] = Amounts[w]
    PROVE  Way' = Way
<1>1. PICK h \in [SUBSET Threads -> Int] : Sums(h, Threads, Amounts)
  BY SharedFacts, SumsExist
<1>2. PICK k \in [SUBSET Threads -> Int] : Sums(k, Threads, Amounts')
  BY SharedFacts, SumsExist
<1>3. Way = h[OnTheWay] /\ Way' = k[OnTheWay']
  BY <1>1, <1>2, WayIsSum, WayIsSumNext DEF WaySums
<1>4. OnTheWay \in SUBSET Threads
  BY DEF OnTheWay
<1>5. k[OnTheWay] = h[OnTheWay]
  BY <1>1, <1>2, <1>4, SharedFacts, SumsAgree
<1> QED
  BY <1>3, <1>5

\* A step that puts an amount on its way, and one that takes it off.
LEMMA WayGrows ==
    ASSUME Amounts \in [Threads -> Int], Amounts' = Amounts,
           NEW w \in Threads, w \notin OnTheWay, OnTheWay' = OnTheWay \cup {w}
    PROVE  Way' = Amounts[w] + Way /\ Way \in Int
<1>1. PICK h \in [SUBSET Threads -> Int] : Sums(h, Threads, Amounts)
  BY SharedFacts, SumsExist
<1>2. Way = h[OnTheWay] /\ Way' = h[OnTheWay']
  BY <1>1, WayIsSum, WayIsSumNext DEF WaySums
<1>3. /\ OnTheWay \in SUBSET Threads /\ OnTheWay' \in SUBSET Threads
      /\ OnTheWay' \ {w} = OnTheWay /\ w \in OnTheWay'
  BY DEF OnTheWay
<1>4. \A s \in SUBSET Threads : \A x \in s : h[s] = Amounts[x] + h[s \ {x}]
  <2>1. Removes(h, Threads, Amounts)
    BY <1>1, SharedFacts, SumsRemove
  <2> QED
    BY <2>1 DEF Removes
<1>5. h[OnTheWay'] = Amounts[w] + h[OnTheWay' \ {w}]
  BY <1>3, <1>4
<1> QED
  BY <1>2, <1>3, <1>5

LEMMA WayShrinks ==
    ASSUME Amounts \in [Threads -> Int], Amounts' = Amounts,
           NEW w \in OnTheWay, OnTheWay' = OnTheWay \ {w}
    PROVE  Way = Amounts[w] + Way' /\ Way' \in Int
<1>1. PICK h \in [SUBSET Threads -> Int] : Sums(h, Threads, Amounts)
  BY SharedFacts, SumsExist
<1>2. Way = h[OnTheWay] /\ Way' = h[OnTheWay']
  BY <1>1, WayIsSum, WayIsSumNext DEF WaySums
<1>3. OnTheWay \in SUBSET Threads /\ OnTheWay' \in SUBSET Threads
  BY DEF OnTheWay
<1>4. \A s \in SUBSET Threads : \A x \in s : h[s] = Amounts[x] + h[s \ {x}]
  <2>1. Removes(h, Threads, Amounts)
    BY <1>1, SharedFacts, SumsRemove
  <2> QED
    BY <2>1 DEF Removes
<1>5. h[OnTheWay] = Amounts[w] + h[OnTheWay \ {w}]
  BY <1>3, <1>4
<1> QED
  BY <1>2, <1>3, <1>5
-----------------------------------------------------------------------------
(* The journal's inductive invariant. *)

\* A trade counted as a win has a profit, and the others do not.
Sided == \A w \in Threads : jPc[w] = "gross" => trade[w].win

\* Calls that never overlap: one writer at a time, whose margin is the newest.
JAlone ==
    ~overlapped =>
        /\ \A v, w \in Threads : jPc[v] # "idle" /\ jPc[w] # "idle" => v = w
        /\ \A w \in Threads : jPc[w] = "store" => seenMargin[w] = margin

JInv ==
    /\ Journal!TypeOK /\ Journal!BooksBalance /\ Journal!MarginInSequence
    /\ Sided /\ JAlone

LEMMA TradeFacts ==
    \A x \in Trades \cup {Journal!NoTrade} :
        /\ x.pnl \in Int /\ x.margin \in Nat
        /\ x.win => x.pnl > 0
        /\ ~x.win => x.pnl <= 0
BY SharedFacts DEF Journal!TradesAssumption, Journal!NoTrade

Balance == Journal!BooksBalance <=> pnl = profit - loss + Way

LEMMA BalanceIs == Balance
BY Zenon DEF Balance, Journal!BooksBalance, Way, Booked, OnTheWay

LEMMA BalanceIsNext == Balance'
BY BalanceIs, PTL

AmountsTyped == Journal!TypeOK => Amounts \in [Threads -> Int]

LEMMA AmountsInt == AmountsTyped
BY TradeFacts DEF AmountsTyped, Journal!TypeOK, Amounts

LEMMA AmountsIntNext == AmountsTyped'
BY AmountsInt, PTL

LEMMA LargerOf ==
    ASSUME NEW a \in Nat, NEW b \in Nat
    PROVE  Journal!Max({a, b}) = IF a >= b THEN a ELSE b
<1>1. PICK m \in {a, b} : \A y \in {a, b} : m >= y
  OBVIOUS
<1>2. Journal!Max({a, b}) \in {a, b} /\ \A y \in {a, b} : Journal!Max({a, b}) >= y
  BY <1>1 DEF Journal!Max
<1> QED
  BY <1>2

\* The writer's step keeps the types.
LEMMA JTypesKept ==
    ASSUME Journal!TypeOK, Sided, NEW w \in Threads, Journal!RecordTrade(w)
    PROVE  Journal!TypeOK' /\ Sided'
<1> USE TradeFacts DEF Journal!TypeOK, Sided, Journal!Step, Journal!sums
<1>1. CASE Journal!AddTotal(w)
  <2>1. PICK x \in Trades : trade' = [trade EXCEPT ![w] = x]
    BY <1>1 DEF Journal!AddTotal
  <2>2. trade' \in [Threads -> Trades \cup {Journal!NoTrade}]
    BY <2>1
  <2>3. overlapped' \in BOOLEAN /\ total' \in 0..MaxTrades
    BY <1>1, SharedFacts DEF Journal!AddTotal, Journal!TradesAssumption
  <2>4. \A v \in Threads : jPc'[v] = "gross" => v # w /\ trade'[v] = trade[v] /\ jPc[v] = "gross"
    BY <1>1, <2>1 DEF Journal!AddTotal
  <2> QED
    BY <1>1, <2>2, <2>3, <2>4 DEF Journal!AddTotal
<1>2. CASE Journal!AddPnl(w)
  BY <1>2 DEF Journal!AddPnl
<1>3. CASE Journal!AddWin(w)
  BY <1>3 DEF Journal!AddWin
<1>4. CASE Journal!AddProfit(w)
  <2>1. trade[w].pnl \in Nat
    BY <1>4 DEF Journal!AddProfit
  <2> QED
    BY <1>4, <2>1 DEF Journal!AddProfit
<1>5. CASE Journal!AddLoss(w)
  <2>1. trade[w].pnl \in Int /\ trade[w].pnl <= 0
    BY <1>5 DEF Journal!AddLoss
  <2>2. loss - trade[w].pnl \in Nat
    BY <2>1
  <2> QED
    BY <1>5, <2>2 DEF Journal!AddLoss
<1>6. CASE Journal!LoadMargin(w)
  BY <1>6 DEF Journal!LoadMargin
<1>7. CASE Journal!StoreMargin(w)
  <2>1. trade[w].margin \in Nat
    OBVIOUS
  <2>2. margin' \in Nat /\ recorded' \in Nat
    BY <1>7, <2>1, LargerOf DEF Journal!StoreMargin
  <2>3. trade' \in [Threads -> Trades \cup {Journal!NoTrade}]
    BY <1>7 DEF Journal!StoreMargin
  <2>4. \A v \in Threads : jPc'[v] = "gross" => v # w /\ trade'[v] = trade[v] /\ jPc[v] = "gross"
    BY <1>7 DEF Journal!StoreMargin
  <2> QED
    BY <1>7, <2>2, <2>3, <2>4 DEF Journal!StoreMargin
<1> QED
  BY <1>1, <1>2, <1>3, <1>4, <1>5, <1>6, <1>7 DEF Journal!RecordTrade


\* A trade's amount goes on its way as it joins the cumulative pnl, and comes off
\* as a side gets it.
LEMMA BalanceKept ==
    ASSUME JInv, Journal!TypeOK', NEW w \in Threads, Journal!RecordTrade(w)
    PROVE  Journal!BooksBalance'
<1> USE DEF Journal!Step, Journal!sums
<1>1. /\ Journal!TypeOK /\ pnl = profit - loss + Way
      /\ Amounts \in [Threads -> Int] /\ Amounts' \in [Threads -> Int]
      /\ Amounts[w] = trade[w].pnl
  BY BalanceIs, AmountsInt, AmountsIntNext DEF JInv, Balance, AmountsTyped, Amounts
<1>2. /\ jPc \in [Threads -> {"idle", "pnl", "side", "gross", "load", "store"}]
      /\ pnl \in Int /\ profit \in Int /\ loss \in Int
      /\ Journal!BooksBalance' <=> pnl' = profit' - loss' + Way'
  BY <1>1, BalanceIsNext DEF Journal!TypeOK, Balance
<1>3. CASE Journal!AddTotal(w) \/ Journal!StoreMargin(w)
  <2>1. /\ OnTheWay' = OnTheWay /\ w \notin OnTheWay
        /\ pnl' = pnl /\ profit' = profit /\ loss' = loss
    BY <1>2, <1>3 DEF Journal!AddTotal, Journal!StoreMargin, OnTheWay
  <2>2. \A v \in Threads \ {w} : trade'[v] = trade[v]
    BY <1>1, <1>3 DEF Journal!AddTotal, Journal!StoreMargin, Journal!TypeOK
  <2>3. \A v \in OnTheWay : Amounts'[v] = Amounts[v]
    BY <2>1, <2>2 DEF Amounts, OnTheWay
  <2>4. Way' = Way
    BY <1>1, <2>1, <2>3, WayKept
  <2> QED
    BY <1>1, <1>2, <2>1, <2>4
<1>4. CASE Journal!AddWin(w) \/ Journal!LoadMargin(w)
  <2>1. /\ OnTheWay' = OnTheWay /\ trade' = trade
        /\ pnl' = pnl /\ profit' = profit /\ loss' = loss
    BY <1>2, <1>4 DEF Journal!AddWin, Journal!LoadMargin, OnTheWay
  <2>2. \A v \in OnTheWay : Amounts'[v] = Amounts[v]
    BY <2>1 DEF Amounts
  <2>3. Way' = Way
    BY <1>1, <2>1, <2>2, WayKept
  <2> QED
    BY <1>1, <1>2, <2>1, <2>3
<1>5. CASE Journal!AddPnl(w)
  <2>1. /\ OnTheWay' = OnTheWay \cup {w} /\ w \notin OnTheWay /\ trade' = trade
        /\ pnl' = pnl + trade[w].pnl /\ profit' = profit /\ loss' = loss
    BY <1>2, <1>5 DEF Journal!AddPnl, OnTheWay
  <2>2. Amounts' = Amounts
    BY <2>1 DEF Amounts
  <2>3. Way' = Amounts[w] + Way /\ Way \in Int
    BY <1>1, <2>1, <2>2, WayGrows
  <2> QED
    BY <1>1, <1>2, <2>1, <2>3
<1>6. CASE Journal!AddProfit(w) \/ Journal!AddLoss(w)
  <2>1. /\ OnTheWay' = OnTheWay \ {w} /\ w \in OnTheWay /\ trade' = trade /\ pnl' = pnl
        /\ profit' - loss' = profit - loss + trade[w].pnl
        /\ profit' \in Int /\ loss' \in Int
    BY <1>1, <1>2, <1>6, AmountsInt DEF Journal!AddProfit, Journal!AddLoss, OnTheWay
  <2>2. Amounts' = Amounts
    BY <2>1 DEF Amounts
  <2>3. Way = Amounts[w] + Way' /\ Way' \in Int
    BY <1>1, <2>1, <2>2, WayShrinks
  <2> QED
    BY <1>1, <1>2, <2>1, <2>3
<1> QED
  BY <1>3, <1>4, <1>5, <1>6 DEF Journal!RecordTrade

\* A writer alone compares with the margin that the call before it left.
LEMMA MarginKept ==
    ASSUME JInv, Journal!TypeOK', NEW w \in Threads, Journal!RecordTrade(w)
    PROVE  Journal!MarginInSequence' /\ JAlone'
<1> USE DEF Journal!Step, Journal!sums
<1>1. /\ jPc \in [Threads -> {"idle", "pnl", "side", "gross", "load", "store"}]
      /\ seenMargin \in [Threads -> Nat] /\ margin \in Nat /\ recorded \in Nat
      /\ trade[w] \in Trades \cup {Journal!NoTrade}
  BY DEF JInv, Journal!TypeOK
<1>2. CASE overlapped'
  BY <1>2 DEF Journal!MarginInSequence, JAlone
<1>3. CASE ~overlapped'
  <2>1. ~overlapped /\ \A v \in Threads \ {w} : jPc[v] = "idle"
    BY <1>3 DEF JInv, JAlone, Journal!TypeOK, Journal!RecordTrade, Journal!AddTotal,
         Journal!AddPnl, Journal!AddWin, Journal!AddProfit, Journal!AddLoss,
         Journal!LoadMargin, Journal!StoreMargin
  <2>2. margin >= recorded /\ (jPc[w] = "store" => seenMargin[w] = margin)
    BY <2>1 DEF JInv, JAlone, Journal!MarginInSequence, Journal!MarginCovers
  <2>3. PICK to : jPc' = [jPc EXCEPT ![w] = to]
    BY DEF Journal!RecordTrade, Journal!AddTotal, Journal!AddPnl, Journal!AddWin,
         Journal!AddProfit, Journal!AddLoss, Journal!LoadMargin, Journal!StoreMargin
  <2>4. \A v \in Threads \ {w} : jPc'[v] = "idle"
    BY <1>1, <2>1, <2>3
  <2>5. \A v \in Threads : jPc'[v] = "store" => v = w
    BY <2>4
  <2>6. CASE Journal!StoreMargin(w)
    <3>1. jPc[w] = "store" /\ jPc'[w] # "store"
      BY <1>1, <2>6 DEF Journal!StoreMargin
    <3>2. trade[w].margin \in Nat /\ seenMargin[w] = margin
      BY <1>1, <2>2, <3>1, TradeFacts
    <3>3. /\ margin' = IF trade[w].margin > margin THEN trade[w].margin ELSE margin
          /\ recorded' = IF recorded >= trade[w].margin THEN recorded ELSE trade[w].margin
      BY <1>1, <2>6, <3>2, LargerOf DEF Journal!StoreMargin
    <3>4. margin' >= recorded'
      BY <1>1, <2>2, <3>2, <3>3
    <3> QED
      BY <2>4, <2>5, <3>1, <3>4 DEF Journal!MarginInSequence, Journal!MarginCovers, JAlone
  <2>7. CASE ~Journal!StoreMargin(w)
    <3>1. margin' = margin /\ recorded' = recorded
      BY <2>7 DEF Journal!RecordTrade, Journal!AddTotal, Journal!AddPnl, Journal!AddWin,
           Journal!AddProfit, Journal!AddLoss, Journal!LoadMargin
    <3>2. jPc'[w] = "store" => seenMargin'[w] = margin'
      BY <1>1, <2>7 DEF Journal!RecordTrade, Journal!AddTotal, Journal!AddPnl, Journal!AddWin,
           Journal!AddProfit, Journal!AddLoss, Journal!LoadMargin
    <3> QED
      BY <2>2, <2>4, <2>5, <3>1, <3>2 DEF Journal!MarginInSequence, Journal!MarginCovers, JAlone
  <2> QED
    BY <2>6, <2>7
<1> QED
  BY <1>2, <1>3

LEMMA JournalStep == JInv /\ Journal!Next => JInv'
<1> SUFFICES ASSUME JInv, NEW w \in Threads, Journal!RecordTrade(w) PROVE JInv'
  BY DEF Journal!Next
<1>1. Journal!TypeOK' /\ Sided'
  BY JTypesKept DEF JInv
<1>2. Journal!BooksBalance'
  BY <1>1, BalanceKept
<1>3. Journal!MarginInSequence' /\ JAlone'
  BY <1>1, MarginKept
<1> QED
  BY <1>1, <1>2, <1>3 DEF JInv

LEMMA JournalInit == Journal!Init => JInv
<1> SUFFICES ASSUME Journal!Init PROVE JInv
  OBVIOUS
<1>1. Journal!TypeOK
  <2>1. MaxTrades \in Nat
    BY SharedFacts DEF Journal!TradesAssumption
  <2>2. trade \in [Threads -> Trades \cup {Journal!NoTrade}]
    BY DEF Journal!Init
  <2>3. overlapped \in BOOLEAN
    BY DEF Journal!Init
  <2> HIDE DEF Journal!NoTrade
  <2> QED
    BY <2>1, <2>2, <2>3 DEF Journal!Init, Journal!TypeOK
<1>2. OnTheWay = {} /\ Amounts \in [Threads -> Int]
  BY <1>1, AmountsInt DEF Journal!Init, OnTheWay, AmountsTyped
<1>3. PICK h \in [SUBSET Threads -> Int] : Sums(h, Threads, Amounts)
  BY <1>2, SharedFacts, SumsExist
<1>4. Way = 0
  BY <1>2, <1>3, WayIsSum DEF WaySums, Sums
<1>5. Journal!BooksBalance
  BY <1>4, BalanceIs DEF Balance, Journal!Init
<1> QED
  BY <1>1, <1>5 DEF Journal!Init, JInv, Sided, JAlone, Journal!MarginInSequence,
                    Journal!MarginCovers

LEMMA JournalStutter == JInv /\ UNCHANGED jVars => JInv'
<1> SUFFICES ASSUME JInv, UNCHANGED jVars PROVE JInv'
  OBVIOUS
<1>1. Journal!TypeOK'
  BY DEF JInv, jVars, Journal!TypeOK
<1>2. OnTheWay' = OnTheWay /\ Amounts' = Amounts
  BY DEF jVars, OnTheWay, Amounts
<1>3. Amounts \in [Threads -> Int]
  BY AmountsInt DEF AmountsTyped, JInv
<1>4. Way' = Way
  BY <1>2, <1>3, WayKept
<1>5. Journal!BooksBalance'
  BY <1>4, BalanceIs, BalanceIsNext DEF Balance, JInv, jVars
<1> QED
  BY <1>1, <1>5 DEF JInv, jVars, Sided, JAlone, Journal!MarginInSequence, Journal!MarginCovers
-----------------------------------------------------------------------------
(* The order queue. *)

\* The watched order is in no queue, or at one place only.
Nowhere == \A p \in Queue!Ranks : \A i \in 1..Len(queues[p]) : queues[p][i] # "watched"

Only(p, i) ==
    /\ i \in 1..Len(queues[p]) /\ queues[p][i] = "watched"
    /\ \A q \in Queue!Ranks : \A j \in 1..Len(queues[q]) :
         queues[q][j] = "watched" => q = p /\ j = i

QInv ==
    /\ queues \in [Queue!Ranks -> Seq(Queue!Orders)] /\ hint \in [Consumers -> BOOLEAN]
    /\ \A p \in Queue!Ranks : Len(queues[p]) <= MaxLength
    /\ \/ watched \in {"new", "served"} /\ Nowhere
       \/ \E p \in Queue!Ranks : \E i \in 1..Len(queues[p]) :
            watched = Queue!Priorities[p] /\ Only(p, i)

LEMMA RanksAre ==
    /\ Queue!Ranks = 1..3
    /\ \A p \in Queue!Ranks : Queue!Priorities[p] \notin {"new", "served"}
BY DEF Queue!Ranks, Queue!Priorities

LEMMA QueueTyped == QInv => Queue!TypeOK
<1> SUFFICES ASSUME QInv PROVE Queue!TypeOK
  OBVIOUS
<1>1. \A p \in Queue!Ranks : Len(queues[p]) \in Nat /\ Len(queues[p]) <= MaxLength
  BY DEF QInv
<1>2. CASE watched \in {"new", "served"} /\ Nowhere
  <2>1. Queue!Positions = {}
    BY <1>1, <1>2, SharedFacts DEF Nowhere, Queue!Positions
  <2> QED
    BY <1>2, <2>1 DEF QInv, Queue!TypeOK
<1>3. ASSUME NEW p \in Queue!Ranks, NEW i \in 1..Len(queues[p]),
             watched = Queue!Priorities[p], Only(p, i)
      PROVE  Queue!TypeOK
  <2>1. i \in 1..MaxLength
    BY <1>1, SharedFacts
  <2>2. Queue!Positions = {<<p, i>>}
    BY <1>1, <1>3, <2>1, SharedFacts DEF Only, Queue!Positions
  <2> QED
    BY <1>3, <2>1, <2>2 DEF QInv, Queue!TypeOK
<1> QED
  BY <1>2, <1>3 DEF QInv

LEMMA EnqueueStep ==
    ASSUME QInv, NEW p \in Queue!Ranks, NEW order \in Queue!Orders, Queue!Enqueue(p, order)
    PROVE  QInv'
<1> DEFINE s == queues[p]
<1>1. /\ queues \in [Queue!Ranks -> Seq(Queue!Orders)] /\ hint' = hint
      /\ Len(s) < MaxLength /\ queues' = [queues EXCEPT ![p] = Append(s, order)]
      /\ order = "watched" => watched = "new" /\ watched' = Queue!Priorities[p]
      /\ order # "watched" => watched' = watched
  BY DEF QInv, Queue!Enqueue
<1>2. s \in Seq(Queue!Orders) /\ Len(s) \in Nat
  BY <1>1
<1>3. /\ queues' \in [Queue!Ranks -> Seq(Queue!Orders)]
      /\ queues'[p] = Append(s, order)
      /\ \A q \in Queue!Ranks \ {p} : queues'[q] = queues[q]
  BY <1>1, <1>2
<1>4. /\ Len(queues'[p]) = Len(s) + 1 /\ queues'[p][Len(s) + 1] = order
      /\ \A i \in 1..Len(s) : queues'[p][i] = s[i]
  BY <1>2, <1>3
<1> HIDE DEF s
<1>5. \A q \in Queue!Ranks : Len(queues'[q]) <= MaxLength
  <2>1. Len(queues'[p]) <= MaxLength
    BY <1>1, <1>2, <1>4, SharedFacts
  <2>2. \A q \in Queue!Ranks \ {p} : Len(queues'[q]) <= MaxLength
    BY <1>3 DEF QInv
  <2> QED
    BY <2>1, <2>2
<1>6. ASSUME NEW q \in Queue!Ranks, NEW j \in 1..Len(queues'[q])
      PROVE  \/ q = p /\ j = Len(s) + 1 /\ queues'[q][j] = order
             \/ j \in 1..Len(queues[q]) /\ queues'[q][j] = queues[q][j]
  <2>1. CASE q = p
    <3>1. j \in 1..(Len(s) + 1)
      BY <1>4, <2>1
    <3>2. j = Len(s) + 1 \/ j \in 1..Len(s)
      BY <1>2, <3>1
    <3> QED
      BY <1>4, <2>1, <3>2 DEF s
  <2>2. CASE q # p
    BY <1>3, <2>2
  <2> QED
    BY <2>1, <2>2
<1>7. CASE order = "watched"
  <2>1. Nowhere
    BY <1>1, <1>7, RanksAre DEF QInv
  <2>2. PICK n : n = Len(s) + 1
    OBVIOUS
  <2>3. n \in 1..Len(queues'[p]) /\ queues'[p][n] = "watched"
    BY <1>2, <1>4, <1>7, <2>2
  <2>4. \A q \in Queue!Ranks : \A j \in 1..Len(queues'[q]) :
          queues'[q][j] = "watched" => q = p /\ j = n
    BY <1>6, <2>1, <2>2 DEF Nowhere
  <2>5. Only(p, n)'
    BY <2>3, <2>4 DEF Only
  <2> QED
    BY <1>1, <1>3, <1>5, <1>7, <2>3, <2>5 DEF QInv
<1>8. CASE order # "watched"
  <2>1. CASE watched \in {"new", "served"} /\ Nowhere
    <3>1. Nowhere'
      BY <1>6, <1>8, <2>1 DEF Nowhere
    <3> QED
      BY <1>1, <1>3, <1>5, <1>8, <2>1, <3>1 DEF QInv
  <2>2. ASSUME NEW q \in Queue!Ranks, NEW i \in 1..Len(queues[q]),
               watched = Queue!Priorities[q], Only(q, i)
        PROVE  QInv'
    <3>1. i \in 1..Len(queues'[q]) /\ queues'[q][i] = queues[q][i]
      BY <1>2, <1>3, <1>4, SMTT(40) DEF s
    <3>2. Only(q, i)'
      BY <1>6, <1>8, <2>2, <3>1 DEF Only
    <3> QED
      BY <1>1, <1>3, <1>5, <1>8, <2>2, <3>1, <3>2 DEF QInv
  <2> QED
    BY <2>1, <2>2 DEF QInv
<1> QED
  BY <1>7, <1>8

LEMMA DequeueStep ==
    ASSUME QInv, NEW c \in Consumers, Queue!Dequeue(c)
    PROVE  QInv'
<1>1. PICK p \in Queue!Ranks :
        /\ queues[p] # <<>> /\ queues' = [queues EXCEPT ![p] = Tail(queues[p])]
        /\ watched' = IF Head(queues[p]) = "watched" THEN "served" ELSE watched
  BY DEF Queue!Dequeue, Queue!First, Queue!Waiting
<1> DEFINE s == queues[p]
<1>2. s \in Seq(Queue!Orders) /\ Len(s) \in Nat /\ Len(s) > 0 /\ Len(s) <= MaxLength
  BY <1>1 DEF QInv
<1>3. /\ queues' \in [Queue!Ranks -> Seq(Queue!Orders)] /\ queues'[p] = Tail(s)
      /\ \A q \in Queue!Ranks \ {p} : queues'[q] = queues[q]
  BY <1>1, <1>2 DEF QInv
<1>4. /\ Head(s) = s[1] /\ Len(queues'[p]) = Len(s) - 1
      /\ \A i \in 1..(Len(s) - 1) : queues'[p][i] = s[i + 1]
  BY <1>2, <1>3
<1>5. hint' \in [Consumers -> BOOLEAN]
  BY DEF QInv, Queue!Dequeue
<1> HIDE DEF s
<1>6. \A q \in Queue!Ranks : Len(queues'[q]) <= MaxLength
  <2>1. Len(queues'[p]) <= MaxLength
    BY <1>2, <1>4, SharedFacts
  <2>2. \A q \in Queue!Ranks \ {p} : Len(queues'[q]) <= MaxLength
    BY <1>3 DEF QInv
  <2> QED
    BY <2>1, <2>2
<1>7. ASSUME NEW q \in Queue!Ranks, NEW j \in 1..Len(queues'[q])
      PROVE  \/ q = p /\ j + 1 \in 1..Len(s) /\ j + 1 # 1 /\ queues'[q][j] = s[j + 1]
             \/ q # p /\ j \in 1..Len(queues[q]) /\ queues'[q][j] = queues[q][j]
  <2>1. CASE q = p
    <3>1. j \in 1..(Len(s) - 1)
      BY <1>4, <2>1
    <3>2. j + 1 \in 1..Len(s) /\ j + 1 # 1
      BY <1>2, <3>1
    <3> QED
      BY <1>4, <2>1, <3>1, <3>2
  <2>2. CASE q # p
    BY <1>3, <2>2
  <2> QED
    BY <2>1, <2>2
<1>8. CASE watched \in {"new", "served"} /\ Nowhere
  <2>1. Nowhere'
    BY <1>7, <1>8 DEF Nowhere, s
  <2>2. watched' \in {"new", "served"}
    BY <1>1, <1>8
  <2> QED
    BY <1>3, <1>5, <1>6, <2>1, <2>2 DEF QInv
<1>9. ASSUME NEW q \in Queue!Ranks, NEW i \in 1..Len(queues[q]),
             watched = Queue!Priorities[q], Only(q, i)
      PROVE  QInv'
  <2>1. CASE s[1] = "watched"
    <3>1. q = p /\ i = 1
      BY <1>2, <1>9, <2>1 DEF Only, s
    <3>2. Nowhere'
      BY <1>7, <1>9, <3>1, SMTT(40) DEF Nowhere, Only, s
    <3>3. watched' = "served"
      BY <1>1, <1>4, <2>1 DEF s
    <3> QED
      BY <1>3, <1>5, <1>6, <3>2, <3>3 DEF QInv
  <2>2. CASE s[1] # "watched" /\ q = p
    <3>1. i # 1 /\ i \in 1..Len(s)
      BY <1>9, <2>2 DEF Only, s
    <3>2. i - 1 \in 1..Len(queues'[q]) /\ queues'[q][i - 1] = s[(i - 1) + 1] /\ (i - 1) + 1 = i
      BY <1>2, <1>4, <2>2, <3>1
    <3>3. queues'[q][i - 1] = "watched"
      BY <1>9, <2>2, <3>2 DEF Only, s
    <3>4. ASSUME NEW r \in Queue!Ranks, NEW j \in 1..Len(queues'[r]), queues'[r][j] = "watched"
          PROVE  r = q /\ j = i - 1
      <4>1. r = p /\ j + 1 = i
        BY <1>7, <1>9, <2>2, <3>4 DEF Only, s
      <4> QED
        BY <2>2, <3>1, <4>1
    <3>5. Only(q, i - 1)'
      BY <3>2, <3>3, <3>4 DEF Only
    <3>6. watched' = watched
      BY <1>1, <1>4, <2>2 DEF s
    <3> QED
      BY <1>3, <1>5, <1>6, <1>9, <3>2, <3>5, <3>6 DEF QInv
  <2>3. CASE s[1] # "watched" /\ q # p
    <3>1. i \in 1..Len(queues'[q]) /\ queues'[q][i] = queues[q][i]
      BY <1>3, <2>3
    <3>2. ASSUME NEW r \in Queue!Ranks, NEW j \in 1..Len(queues'[r]), queues'[r][j] = "watched"
          PROVE  r = q /\ j = i
      <4>1. r # p
        BY <1>7, <1>9, <2>3, <3>2, ZenonT(60) DEF Only, s
      <4> QED
        BY <1>7, <1>9, <3>2, <4>1 DEF Only
    <3>3. Only(q, i)'
      BY <1>9, <3>1, <3>2 DEF Only
    <3>4. watched' = watched
      BY <1>1, <1>4, <2>3 DEF s
    <3> QED
      BY <1>3, <1>5, <1>6, <1>9, <3>1, <3>3, <3>4 DEF QInv
  <2> QED
    BY <2>1, <2>2, <2>3
<1> QED
  BY <1>8, <1>9 DEF QInv

LEMMA QueueStep == QInv /\ Queue!Next => QInv'
<1> SUFFICES ASSUME QInv, Queue!Next PROVE QInv'
  OBVIOUS
<1>1. ASSUME NEW c \in Consumers, Queue!DequeueNothing(c) \/ Queue!HasItems(c)
      PROVE  QInv'
  <2>1. queues' = queues /\ watched' = watched /\ hint' \in [Consumers -> BOOLEAN]
    BY <1>1 DEF QInv, Queue!DequeueNothing, Queue!HasItems
  <2> QED
    BY <2>1 DEF QInv, Nowhere, Only
<1> QED
  BY <1>1, EnqueueStep, DequeueStep DEF Queue!Next

LEMMA QueueInit == Queue!Init => QInv
<1> SUFFICES ASSUME Queue!Init PROVE QInv
  OBVIOUS
<1>1. \A p \in Queue!Ranks : queues[p] = <<>> /\ Len(queues[p]) = 0
  BY DEF Queue!Init
<1>2. queues \in [Queue!Ranks -> Seq(Queue!Orders)] /\ hint \in [Consumers -> BOOLEAN]
  BY DEF Queue!Init
<1>3. watched = "new"
  BY DEF Queue!Init
<1> QED
  BY <1>1, <1>2, <1>3, SharedFacts DEF QInv, Nowhere

LEMMA QueueStutter == QInv /\ UNCHANGED qVars => QInv'
BY DEF QInv, qVars, Nowhere, Only

\* One thread drains the queue.
LoneConsumer == \A c, d \in Consumers : c = d

LEMMA HintStep ==
    ASSUME LoneConsumer, QInv, Queue!HintHolds, Queue!Next
    PROVE  Queue!HintHolds'
<1> USE DEF Queue!HintHolds, Queue!Waiting
<1>1. CASE \E p \in Queue!Ranks, order \in Queue!Orders : Queue!Enqueue(p, order)
  <2>1. PICK p \in Queue!Ranks, order \in Queue!Orders :
          queues' = [queues EXCEPT ![p] = Append(queues[p], order)] /\ hint' = hint
    BY <1>1 DEF Queue!Enqueue
  <2>2. queues[p] \in Seq(Queue!Orders) /\ queues'[p] = Append(queues[p], order)
    BY <2>1 DEF QInv
  <2>3. queues'[p] # <<>>
    BY <2>2
  <2> QED
    BY <2>1, <2>3
<1>2. ASSUME NEW c \in Consumers, Queue!Dequeue(c) \/ Queue!DequeueNothing(c)
      PROVE  Queue!HintHolds'
  <2>1. hint'[c] = FALSE
    BY <1>2 DEF Queue!Dequeue, Queue!DequeueNothing, QInv
  <2> QED
    BY <2>1 DEF LoneConsumer
<1>3. ASSUME NEW c \in Consumers, Queue!HasItems(c)
      PROVE  Queue!HintHolds'
  <2>1. queues' = queues /\ hint'[c] = (Queue!Waiting # {})
    BY <1>3 DEF Queue!HasItems, QInv
  <2> QED
    BY <2>1 DEF LoneConsumer
<1> QED
  BY <1>1, <1>2, <1>3 DEF Queue!Next
-----------------------------------------------------------------------------
(* The strategy machine. *)

\* The header is not written for two feeders: their stores may interleave.
OneFeeder == \A f, g \in Feeders : f = g

\* What holds between the stores of an update: only feeders are inside one,
\* the state it stored cannot have become the other state that is stored by
\* updates, and until then the pair is intact.
Paired ==
    /\ state = "CIRCUIT_BREAKER" =>
          strategy = "ProtectivePut" \/ \E t \in Feeders : pc[t] = "protect"
    /\ state = "RECOVERY_MODE" =>
          strategy = "CashSecuredPut" \/ \E t \in Feeders : pc[t] = "harvest"

MInv ==
    /\ TypeOK
    /\ \A t \in Threads : pc[t] \in {"protect", "recover", "harvest"} => t \in Feeders
    /\ \A t \in Feeders : pc[t] = "protect" => state # "RECOVERY_MODE"
    /\ \A t \in Feeders : pc[t] = "harvest" => state # "CIRCUIT_BREAKER"
    /\ ~overridden => Paired

LEMMA MachineInit == Init => MInv
BY FeedersAssumption DEF Init, MInv, Paired, TypeOK, States, Strategies, Orchestrated,
   AdvancedStrategies, DiagonalStrategies, CalendarStrategies, Mutations

\* Stores of a strategy stay within the strategies of the header.
LEMMA KnownStrategies ==
    /\ Orchestrated \subseteq Strategies /\ Mutations \subseteq Strategies
    /\ "ProtectivePut" \in Strategies /\ "CashSecuredPut" \in Strategies
BY DEF Strategies, Orchestrated

\* The stores of a regime update, one feeder at a time.
LEMMA UpdateStep ==
    ASSUME OneFeeder, MInv, NEW t \in Threads, UpdateRegime(t)
    PROVE  MInv'
<1> USE FeedersAssumption, KnownStrategies DEF OneFeeder, MInv, Paired, TypeOK, Step
<1>1. CASE Contagion(t)
  BY <1>1 DEF Contagion, StoreState, States
<1>2. CASE Protect(t)
  <2>1. strategy' = "ProtectivePut" /\ state' = state /\ overridden' = overridden
        /\ pc' = [pc EXCEPT ![t] = "idle"] /\ t \in Feeders
    BY <1>2 DEF Protect, StoreStrategy
  <2>2. state # "RECOVERY_MODE"
    BY <1>2, <2>1 DEF Protect
  <2>. QED BY <2>1, <2>2
<1>3. CASE Calm(t)
  BY <1>3 DEF Calm
<1>4. CASE Recover(t)
  BY <1>4 DEF Recover, StoreState, States
<1>5. CASE Harvest(t)
  <2>1. strategy' = "CashSecuredPut" /\ state' = state /\ overridden' = overridden
        /\ pc' = [pc EXCEPT ![t] = "idle"] /\ t \in Feeders
    BY <1>5 DEF Harvest, StoreStrategy
  <2>2. state # "CIRCUIT_BREAKER"
    BY <1>5, <2>1 DEF Harvest
  <2>. QED BY <2>1, <2>2
<1>. QED BY <1>1, <1>2, <1>3, <1>4, <1>5 DEF UpdateRegime

LEMMA OtherStep ==
    ASSUME MInv, NEW t \in Threads,
           \/ MutateStrategy(t) \/ TriggerDefensiveMode(t)
           \/ Orchestrate(t) \/ Halt(t)
    PROVE  MInv'
<1> USE FeedersAssumption, KnownStrategies DEF MInv, Paired, TypeOK, Step
<1>1. CASE MutateCheck(t)
  BY <1>1 DEF MutateCheck
<1>2. CASE MutateStore(t)
  BY <1>2 DEF MutateStore, StoreStrategy
<1>3. CASE TriggerDefensiveMode(t)
  BY <1>3 DEF TriggerDefensiveMode, StoreState, States
<1>4. CASE Orchestrate(t)
  BY <1>4 DEF Orchestrate, StoreStrategy
<1>5. CASE Halt(t)
  BY <1>5 DEF Halt, StoreState, States
<1>. QED BY <1>1, <1>2, <1>3, <1>4, <1>5 DEF MutateStrategy

\* Types need no assumption on the feeders.
LEMMA MachineTypes == TypeOK /\ [Next]_vars => TypeOK'
<1> SUFFICES ASSUME TypeOK, [Next]_vars PROVE TypeOK'
  OBVIOUS
<1> USE KnownStrategies DEF TypeOK, Step
<1>1. ASSUME NEW t \in Threads, UpdateRegime(t) PROVE TypeOK'
  BY <1>1 DEF UpdateRegime, Contagion, Protect, Calm, Recover, Harvest, StoreState,
     StoreStrategy, States
<1>2. ASSUME NEW t \in Threads, MutateStrategy(t) \/ Orchestrate(t) PROVE TypeOK'
  BY <1>2 DEF MutateStrategy, MutateCheck, MutateStore, Orchestrate, StoreStrategy
<1>3. ASSUME NEW t \in Threads, TriggerDefensiveMode(t) \/ Halt(t) PROVE TypeOK'
  BY <1>3 DEF TriggerDefensiveMode, Halt, StoreState, States
<1> QED
  BY <1>1, <1>2, <1>3 DEF Next, vars

LEMMA MachineStep == OneFeeder /\ MInv /\ [Next]_vars => MInv'
<1> SUFFICES ASSUME OneFeeder, MInv, [Next]_vars PROVE MInv'
  OBVIOUS
<1>1. CASE Next
  BY <1>1, UpdateStep, OtherStep DEF Next
<1>2. CASE UNCHANGED vars
  BY <1>2 DEF vars, MInv, Paired, TypeOK
<1> QED
  BY <1>1, <1>2

LEMMA MachinePairs == MInv => PairAtRest
BY FeedersAssumption DEF MInv, Paired, PairAtRest, UpdatesUnderWay
-----------------------------------------------------------------------------
(* The circuit breaker. *)

\* The expiry is the initial zero or that of a trip, and every clock reading
\* is past the initial zero.
Expiries ==
    /\ until = 0 \/ until \in trips
    /\ now > 0
    /\ \A t \in Threads : step[t] = "compare" => clock[t] > 0

\* What overlapping calls keep.
BreakerInv == Breaker!TypeOK /\ Breaker!MutualExclusion /\ Expiries

LEMMA BreakerConstants ==
    ASSUME Breaker!BreakerAssumption
    PROVE  /\ RingSize \in Nat \ {0} /\ Window \in Nat /\ Break \in Nat /\ MaxRecords \in Nat
           /\ Breaker!NoTrade \in [pnl : Int, mult : Nat]
           /\ \A x \in Bookings : x.pnl \in Int /\ x.mult \in Nat
BY DEF Breaker!BreakerAssumption, Breaker!NoTrade

LEMMA SlotOf == ASSUME Breaker!BreakerAssumption,
    NEW c \in Nat PROVE c % RingSize \in Breaker!Slots
BY BreakerConstants DEF Breaker!Slots

LEMMA BreakerInit ==
    ASSUME Breaker!BreakerAssumption
    PROVE  Breaker!Init => BreakerInv
<1> SUFFICES ASSUME Breaker!Init PROVE BreakerInv
  OBVIOUS
<1>1. ring \in [Breaker!Slots -> Breaker!Entries]
  <2>1. [stamp |-> 0, pnl |-> 0, mult |-> 0] \in Breaker!Entries
    BY DEF Breaker!Entries
  <2>. QED BY <2>1 DEF Breaker!Init
<1>2. called \in 0..MaxRecords
  BY BreakerConstants DEF Breaker!Init
<1>3. /\ now \in Nat /\ count \in Nat /\ until \in Nat /\ trips \subseteq Nat
      /\ crossed \in BOOLEAN
  BY DEF Breaker!Init
<1>4. /\ step \in [Threads -> Breaker!Steps] /\ clock \in [Threads -> Nat]
      /\ booking \in [Threads -> Bookings \cup {Breaker!NoTrade}]
  BY DEF Breaker!Init, Breaker!Steps
<1>5. Breaker!TypeOK
  BY <1>1, <1>2, <1>3, <1>4 DEF Breaker!Init, Breaker!TypeOK
<1>6. Breaker!MutualExclusion /\ Expiries
  BY DEF Breaker!Init, Breaker!MutualExclusion, Expiries, Breaker!Inside
<1>. QED BY <1>5, <1>6 DEF BreakerInv

\* Steps of record_trade.
LEMMA RecordStep ==
    ASSUME Breaker!BreakerAssumption, BreakerInv, NEW t \in Threads, Breaker!Record(t)
    PROVE  BreakerInv'
<1> USE DEF BreakerInv, Breaker!TypeOK, Breaker!MutualExclusion, Expiries, Breaker!Goto,
    Breaker!Begin, Breaker!Inside, Breaker!Steps, Breaker!history
<1>1. CASE Breaker!RecordCall(t)
  <2>1. called' \in 0..MaxRecords
    BY <1>1, BreakerConstants DEF Breaker!RecordCall
  <2>2. booking' \in [Threads -> Bookings \cup {Breaker!NoTrade}]
    BY <1>1 DEF Breaker!RecordCall
  <2>. QED BY <1>1, <2>1, <2>2 DEF Breaker!RecordCall
<1>2. CASE Breaker!Lock(t)
  <2>1. \A u \in Threads : step[u] \notin Breaker!Inside
    BY <1>2 DEF Breaker!BreakerAssumption, Breaker!Lock, Breaker!Nobody
  <2>. QED BY <1>2, <2>1 DEF Breaker!Lock
<1>3. CASE Breaker!Append(t)
  <2>1. Breaker!Entry(t) \in Breaker!Entries
    BY BreakerConstants DEF Breaker!Entry, Breaker!Entries, Breaker!NoTrade
  <2>2. ring' \in [Breaker!Slots -> Breaker!Entries]
    BY <1>3, <2>1, SlotOf DEF Breaker!Append
  <2>. QED BY <1>3, <2>2 DEF Breaker!Append
<1>4. CASE Breaker!Advance(t)
  BY <1>4 DEF Breaker!Advance
<1>5. CASE Breaker!TripFlag(t)
  BY <1>5 DEF Breaker!TripFlag
<1>6. CASE Breaker!TripUntil(t)
  <2>1. clock[t] + Break \in Nat
    BY BreakerConstants
  <2>. QED BY <1>6, <2>1 DEF Breaker!TripUntil
<1>7. CASE Breaker!Unlock(t)
  <2>1. booking' \in [Threads -> Bookings \cup {Breaker!NoTrade}]
    BY <1>7 DEF Breaker!Unlock
  <2>2. \A u \in Threads \ {t} : step[u] \notin Breaker!Inside
    BY <1>7 DEF Breaker!Unlock
  <2>. QED BY <1>7, <2>1, <2>2 DEF Breaker!Unlock
<1>. QED BY <1>1, <1>2, <1>3, <1>4, <1>5, <1>6, <1>7 DEF Breaker!Record

\* Steps of is_allowed_to_trade, and of time.
LEMMA CheckStep ==
    ASSUME Breaker!BreakerAssumption, BreakerInv, NEW t \in Threads, Breaker!Check(t)
    PROVE  BreakerInv'
<1> USE DEF BreakerInv, Breaker!TypeOK, Breaker!MutualExclusion, Expiries, Breaker!Goto,
    Breaker!Begin, Breaker!Inside, Breaker!Steps, Breaker!history
<1>1. CASE Breaker!CheckAllowed(t)
  BY <1>1 DEF Breaker!CheckAllowed, Breaker!vars, Breaker!callVars
<1>2. CASE Breaker!CheckFlag(t)
  BY <1>2 DEF Breaker!CheckFlag
<1>3. CASE Breaker!CheckRefuse(t)
  BY <1>3 DEF Breaker!CheckRefuse
<1>4. CASE Breaker!CheckExpired(t)
  BY <1>4 DEF Breaker!CheckExpired
<1>5. CASE Breaker!CheckClear(t)
  BY <1>5 DEF Breaker!CheckClear
<1>. QED BY <1>1, <1>2, <1>3, <1>4, <1>5 DEF Breaker!Check

LEMMA BreakerPreserved ==
    ASSUME Breaker!BreakerAssumption
    PROVE  BreakerInv /\ [Breaker!Next]_Breaker!vars => BreakerInv'
<1> SUFFICES ASSUME BreakerInv, [Breaker!Next]_Breaker!vars PROVE BreakerInv'
  OBVIOUS
<1>1. CASE Breaker!Tick
  BY <1>1 DEF Breaker!Tick, Breaker!callVars, Breaker!history, BreakerInv, Breaker!TypeOK,
      Breaker!MutualExclusion, Expiries
<1>2. CASE UNCHANGED Breaker!vars
  BY <1>2 DEF Breaker!vars, Breaker!callVars, Breaker!history, BreakerInv, Breaker!TypeOK,
      Breaker!MutualExclusion, Expiries
<1>. QED BY <1>1, <1>2, RecordStep, CheckStep DEF Breaker!Next

-----------------------------------------------------------------------------
(* Calls that come one after the other. *)

\* At most one thread is inside a call.
Alone == \A t, u \in Threads : step[t] # "idle" /\ step[u] # "idle" => t = u

\* The trades in the ring: one more than write_index_ between lines 62 and 63.
Written == IF \E t \in Threads : step[t] = "advance" THEN count + 1 ELSE count

\* The kept trades are in the ring in the order of their stamps, none past the
\* clock, nor past the reading of a call that has still to store its trade.
Ordered ==
    /\ \A n, m \in 1..Breaker!Kept(Written) :
         n <= m => Breaker!Nth(ring, Written, m).stamp <= Breaker!Nth(ring, Written, n).stamp
    /\ \A s \in Breaker!Slots : ring[s].stamp <= now
    /\ \A t \in Threads : step[t] \in {"lock", "append"} =>
         \A s \in Breaker!Slots : ring[s].stamp <= clock[t]

Recording == {"lock", "append", "advance", "trip", "tripUntil"}

\* until is the last expiry, no call in progress will set an earlier one, and
\* one that clears the flag does so past it.
LastTrip ==
    /\ \A e \in trips : e <= until /\ e <= now + Break
    /\ \A t \in Threads : step[t] \in Recording =>
         \A e \in trips : e <= clock[t] + Break
    /\ \A t \in Threads : step[t] = "tripUntil" => broken
    /\ \A t \in Threads : step[t] = "clear" => clock[t] > until
    /\ Breaker!BlockedForBreak

ClocksPast == \A t \in Threads : clock[t] <= now

InTurn == ~crossed => Alone /\ Ordered /\ LastTrip

\* In two parts: the one that no overlap can break and the one that holds until
\* two calls have overlapped.
BreakerSequenceInv == BreakerInv /\ ClocksPast /\ InTurn

\* A trade stored after all the kept ones keeps their order; in a full ring it
\* takes the place of the oldest.
LEMMA Stored ==
    ASSUME Breaker!BreakerAssumption, NEW r \in [Breaker!Slots -> Breaker!Entries],
        NEW c \in Nat, NEW x \in Breaker!Entries,
           \A n, m \in 1..Breaker!Kept(c) : n <= m => Breaker!Nth(r, c, m).stamp <= Breaker!Nth(r, c, n).stamp,
           \A s \in Breaker!Slots : r[s].stamp <= x.stamp,
           NEW q, q = [r EXCEPT ![c % RingSize] = x]
    PROVE  \A n, m \in 1..Breaker!Kept(c + 1) :
               n <= m => Breaker!Nth(q, c + 1, m).stamp <= Breaker!Nth(q, c + 1, n).stamp
<1>1. Breaker!Nth(q, c + 1, 1) = x
  <2>1. (c + 1) - 1 = c
    OBVIOUS
  <2> QED
    BY <2>1, SlotOf DEF Breaker!Nth
<1>2. ASSUME NEW n \in 1..Breaker!Kept(c + 1), n # 1
      PROVE  /\ n - 1 \in 1..Breaker!Kept(c) /\ Breaker!Nth(q, c + 1, n) = Breaker!Nth(r, c, n - 1)
             /\ Breaker!Nth(r, c, n - 1) \in Breaker!Entries
             /\ Breaker!Nth(r, c, n - 1).stamp <= x.stamp
  <2> DEFINE p == c - (n - 1)
  <2>1. /\ n \in Nat /\ n - 1 \in 1..Breaker!Kept(c)
        /\ p \in Nat /\ p < c /\ c < p + RingSize /\ (c + 1) - n = p
    <3>1. /\ RingSize \in Nat \ {0} /\ n \in Nat /\ n >= 2
          /\ n <= IF c + 1 < RingSize THEN c + 1 ELSE RingSize
      BY <1>2, BreakerConstants DEF Breaker!Kept
    <3>2. n - 1 >= 1 /\ n - 1 <= IF c < RingSize THEN c ELSE RingSize
      BY <3>1
    <3> QED
      BY <3>1, <3>2 DEF Breaker!Kept
  <2> HIDE DEF p
  <2>2. p % RingSize # c % RingSize
    BY <2>1, BreakerConstants, WrapDistinct
  <2>3. p % RingSize \in Breaker!Slots
    BY <2>1, SlotOf
  <2>4. Breaker!Nth(r, c, n - 1) = r[p % RingSize] /\ Breaker!Nth(q, c + 1, n) = q[p % RingSize]
    BY <2>1 DEF Breaker!Nth, p
  <2> QED
    BY <2>1, <2>2, <2>3, <2>4
<1>3. TAKE n, m \in 1..Breaker!Kept(c + 1)
<1>4. HAVE n <= m
<1>5. x.stamp \in Nat /\ \A y \in Breaker!Entries : y.stamp \in Nat
  BY DEF Breaker!Entries
<1>6. n \in Nat /\ m \in Nat /\ n >= 1 /\ m >= 1
  BY BreakerConstants DEF Breaker!Kept
<1>7. CASE n = 1 /\ m = 1
  BY <1>1, <1>5, <1>7
<1>8. CASE n = 1 /\ m # 1
  BY <1>1, <1>2, <1>8
<1>9. CASE n # 1 /\ m # 1
  <2>1. n - 1 <= m - 1
    BY <1>4, <1>6
  <2> QED
    BY <1>2, <1>9, <2>1
<1> QED
  BY <1>4, <1>6, <1>7, <1>8, <1>9

\* While calls come one after the other, a thread in a call is the only one.
LEMMA OthersIdle ==
    ASSUME Breaker!BreakerAssumption, Breaker!TypeOK, NEW t \in Threads, NEW to,
        step' = [step EXCEPT ![t] = to],
           \A u \in Threads \ {t} : step[u] = "idle"
    PROVE  Alone' /\ \A u \in Threads \ {t} : step'[u] = "idle"
BY DEF Breaker!TypeOK, Alone

\* Steps that store no trade keep the order of those stored.
LEMMA OrderKept ==
    ASSUME Breaker!BreakerAssumption, Breaker!TypeOK, Ordered, NEW t \in Threads, NEW to,
           step' = [step EXCEPT ![t] = to], step[t] # "advance", to # "advance",
           ring' = ring, count' = count, now' = now,
           \A u \in Threads : step'[u] \in {"lock", "append"} =>
               clock'[u] = now \/ (step[u] \in {"lock", "append"} /\ clock'[u] = clock[u])
    PROVE  Ordered'
<1>1. Written' = Written
  BY DEF Written, Breaker!TypeOK
<1> QED
  BY <1>1 DEF Ordered, Breaker!Nth, Breaker!Kept

\* Steps that set neither the flag nor the expiry.
LEMMA TripKept ==
    ASSUME Breaker!BreakerAssumption, Breaker!TypeOK, LastTrip, NEW t \in Threads, NEW to,
           step' = [step EXCEPT ![t] = to], step[t] \notin {"trip", "tripUntil"},
           to \notin {"tripUntil", "clear"}, trips' = trips, until' = until,
           broken' = broken, now' = now,
           \A u \in Threads \ {t} : clock'[u] = clock[u],
           to \in Recording => clock'[t] = now \/ (step[t] \in Recording /\ clock'[t] = clock[t])
    PROVE  LastTrip'
BY DEF LastTrip, Breaker!TypeOK, Breaker!BlockedForBreak, Recording

\* A call begins while no other is under way, or two have overlapped.
LEMMA RecordInTurn ==
    ASSUME Breaker!BreakerAssumption, BreakerSequenceInv, NEW t \in Threads, Breaker!Record(t),
        ~crossed'
    PROVE  Alone' /\ Ordered' /\ LastTrip'
<1> USE DEF Breaker!Goto, Breaker!history
<1>1. /\ Breaker!TypeOK /\ ClocksPast /\ ~crossed
      /\ Breaker!RecordCall(t) => \A u \in Threads \ {t} : step[u] = "idle"
  BY DEF BreakerSequenceInv, BreakerInv, Breaker!Record, Breaker!RecordCall, Breaker!Lock,
      Breaker!Append, Breaker!Advance, Breaker!TripFlag, Breaker!TripUntil,
         Breaker!Unlock, Breaker!Begin, Breaker!TypeOK
<1>2. Alone /\ Ordered /\ LastTrip
  BY <1>1 DEF BreakerSequenceInv, InTurn
<1>3. \A u \in Threads \ {t} : step[u] = "idle"
  BY <1>1, <1>2 DEF Breaker!Record, Breaker!RecordCall, Breaker!Lock, Breaker!Append,
      Breaker!Advance, Breaker!TripFlag, Breaker!TripUntil, Breaker!Unlock,
                    Alone
<1>4. CASE Breaker!RecordCall(t)
  <2>1. /\ step[t] = "idle" /\ step' = [step EXCEPT ![t] = "lock"]
        /\ ring' = ring /\ count' = count /\ now' = now
        /\ trips' = trips /\ until' = until /\ broken' = broken
        /\ clock' = [clock EXCEPT ![t] = now]
    BY <1>4 DEF Breaker!RecordCall
  <2>2. clock'[t] = now /\ \A u \in Threads \ {t} : clock'[u] = clock[u] /\ step'[u] = "idle"
    BY <1>1, <1>3, <2>1 DEF Breaker!TypeOK
  <2>3. Ordered'
    BY <1>1, <1>2, <2>1, <2>2, OrderKept
  <2>4. LastTrip'
    BY <1>1, <1>2, <2>1, <2>2, TripKept
  <2> QED
    BY <1>1, <1>3, <2>1, <2>3, <2>4, OthersIdle
<1>5. CASE Breaker!Lock(t)
  <2>1. /\ step[t] = "lock" /\ step' = [step EXCEPT ![t] = "append"]
        /\ ring' = ring /\ count' = count /\ now' = now
        /\ trips' = trips /\ until' = until /\ broken' = broken /\ clock' = clock
    BY <1>5 DEF Breaker!Lock
  <2>2. Ordered'
    BY <1>1, <1>2, <2>1, OrderKept DEF Breaker!TypeOK
  <2>3. LastTrip'
    BY <1>1, <1>2, <2>1, TripKept, ZenonT(60) DEF Recording
  <2> QED
    BY <1>1, <1>3, <2>1, <2>2, <2>3, OthersIdle
<1>6. CASE Breaker!Append(t)
  <2>1. /\ step[t] = "append" /\ step' = [step EXCEPT ![t] = "advance"]
        /\ ring' = [ring EXCEPT ![count % RingSize] = Breaker!Entry(t)]
        /\ count' = count /\ now' = now
        /\ trips' = trips /\ until' = until /\ broken' = broken /\ clock' = clock
    BY <1>6 DEF Breaker!Append
  <2>2. Written = count /\ Written' = count + 1
    BY <1>1, <1>3, <2>1 DEF Written, Breaker!TypeOK
  <2>3. Breaker!Entry(t) \in Breaker!Entries /\ Breaker!Entry(t).stamp = clock[t]
    BY <1>1, BreakerConstants DEF Breaker!Entry, Breaker!Entries, Breaker!NoTrade, Breaker!TypeOK
  <2>4. \A s \in Breaker!Slots : ring[s].stamp <= Breaker!Entry(t).stamp
    BY <1>2, <2>1, <2>3 DEF Ordered
  <2>5. \A n, m \in 1..Breaker!Kept(count) :
            n <= m => Breaker!Nth(ring, count, m).stamp <= Breaker!Nth(ring, count, n).stamp
    BY <1>2, <2>2 DEF Ordered
  <2>6. ring \in [Breaker!Slots -> Breaker!Entries] /\ count \in Nat
    BY <1>1 DEF Breaker!TypeOK
  <2>7. \A n, m \in 1..Breaker!Kept(count + 1) :
            n <= m => Breaker!Nth(ring', count + 1, m).stamp <= Breaker!Nth(ring', count + 1, n).stamp
    BY <2>1, <2>3, <2>4, <2>5, <2>6, Stored
  <2>8. \A s \in Breaker!Slots : ring'[s].stamp <= now'
    BY <1>1, <1>2, <2>1, <2>3 DEF Ordered, ClocksPast, Breaker!TypeOK
  <2>9. Ordered'
    BY <1>1, <1>3, <2>1, <2>2, <2>7, <2>8 DEF Ordered, Breaker!TypeOK, Breaker!Nth, Breaker!Kept
  <2>10. LastTrip'
    BY <1>1, <1>2, <2>1, TripKept, ZenonT(60) DEF Recording
  <2> QED
    BY <1>1, <1>3, <2>1, <2>9, <2>10, OthersIdle
<1>7. CASE Breaker!Advance(t)
  <2>1. PICK to \in {"trip", "unlock"} : step' = [step EXCEPT ![t] = to]
    BY <1>7 DEF Breaker!Advance
  <2>2. /\ step[t] = "advance" /\ count' = count + 1
        /\ ring' = ring /\ now' = now
        /\ trips' = trips /\ until' = until /\ broken' = broken /\ clock' = clock
    BY <1>7 DEF Breaker!Advance
  <2>3. Written = count + 1 /\ Written' = count + 1
    BY <1>1, <1>3, <2>1, <2>2 DEF Written, Breaker!TypeOK
  <2>4. Ordered'
    BY <1>1, <1>2, <1>3, <2>1, <2>2, <2>3 DEF Ordered, Breaker!TypeOK, Breaker!Nth, Breaker!Kept
  <2>5. LastTrip'
    BY <1>1, <1>2, <2>1, <2>2, TripKept DEF Recording
  <2> QED
    BY <1>1, <1>3, <2>1, <2>4, <2>5, OthersIdle
<1>8. CASE Breaker!TripFlag(t)
  <2>1. /\ step[t] = "trip" /\ step' = [step EXCEPT ![t] = "tripUntil"] /\ broken' = TRUE
        /\ ring' = ring /\ count' = count /\ now' = now
        /\ trips' = trips /\ until' = until /\ clock' = clock
    BY <1>8 DEF Breaker!TripFlag
  <2>2. Ordered'
    BY <1>1, <1>2, <2>1, OrderKept DEF Breaker!TypeOK
  <2>3. LastTrip'
    BY <1>1, <1>2, <1>3, <2>1 DEF LastTrip, Breaker!TypeOK, Breaker!BlockedForBreak, Recording
  <2> QED
    BY <1>1, <1>3, <2>1, <2>2, <2>3, OthersIdle
<1>9. CASE Breaker!TripUntil(t)
  <2>1. /\ step[t] = "tripUntil" /\ step' = [step EXCEPT ![t] = "unlock"] /\ broken' = broken
        /\ ring' = ring /\ count' = count /\ now' = now /\ clock' = clock
        /\ trips' = trips \cup {clock[t] + Break} /\ until' = clock[t] + Break
    BY <1>9 DEF Breaker!TripUntil
  <2>2. Ordered'
    BY <1>1, <1>2, <2>1, OrderKept DEF Breaker!TypeOK
  <2>3. broken /\ \A e \in trips' : e <= until' /\ e <= now' + Break
    BY <1>1, <1>2, <2>1, BreakerConstants DEF LastTrip, Breaker!TypeOK, ClocksPast, Recording
  <2>4. LastTrip'
    BY <1>1, <1>2, <1>3, <2>1, <2>3 DEF LastTrip, Breaker!TypeOK, Breaker!BlockedForBreak,
        Recording
  <2> QED
    BY <1>1, <1>3, <2>1, <2>2, <2>4, OthersIdle
<1>10. CASE Breaker!Unlock(t)
  <2>1. /\ step[t] = "unlock" /\ step' = [step EXCEPT ![t] = "idle"]
        /\ ring' = ring /\ count' = count /\ now' = now
        /\ trips' = trips /\ until' = until /\ broken' = broken
        /\ clock' = [clock EXCEPT ![t] = 0]
    BY <1>10 DEF Breaker!Unlock
  <2>2. Ordered'
    BY <1>1, <1>2, <1>3, <2>1, OrderKept DEF Breaker!TypeOK
  <2>3. "idle" \notin Recording /\ \A u \in Threads \ {t} : clock'[u] = clock[u]
    BY <1>1, <2>1 DEF Breaker!TypeOK, Recording
  <2>4. LastTrip'
    BY <1>1, <1>2, <2>1, <2>3, TripKept
  <2> QED
    BY <1>1, <1>3, <2>1, <2>2, <2>4, OthersIdle
<1> QED
  BY <1>4, <1>5, <1>6, <1>7, <1>8, <1>9, <1>10 DEF Breaker!Record

LEMMA CheckInTurn ==
    ASSUME Breaker!BreakerAssumption, BreakerSequenceInv, NEW t \in Threads, Breaker!Check(t),
        ~crossed'
    PROVE  Alone' /\ Ordered' /\ LastTrip'
<1> USE DEF Breaker!Goto, Breaker!history
<1>1. /\ Breaker!TypeOK /\ ClocksPast /\ ~crossed
      /\ Breaker!CheckFlag(t) => \A u \in Threads \ {t} : step[u] = "idle"
  BY DEF BreakerSequenceInv, BreakerInv, Breaker!Check, Breaker!CheckAllowed, Breaker!CheckFlag,
      Breaker!CheckRefuse, Breaker!CheckExpired, Breaker!CheckClear,
         Breaker!Begin, Breaker!TypeOK, Breaker!vars
<1>2. Alone /\ Ordered /\ LastTrip
  BY <1>1 DEF BreakerSequenceInv, InTurn
<1>3. CASE Breaker!CheckAllowed(t)
  BY <1>2, <1>3 DEF Breaker!CheckAllowed, Breaker!vars, Breaker!callVars, Alone, Ordered,
      LastTrip, Breaker!BlockedForBreak,
                    Written, Breaker!Nth, Breaker!Kept
<1>4. ASSUME ~Breaker!CheckAllowed(t)
      PROVE  \A u \in Threads \ {t} : step[u] = "idle"
  BY <1>1, <1>2, <1>4 DEF Breaker!Check, Breaker!CheckRefuse, Breaker!CheckExpired,
      Breaker!CheckClear, Alone
<1>5. CASE Breaker!CheckFlag(t)
  <2>1. /\ step[t] = "idle" /\ step' = [step EXCEPT ![t] = "compare"]
        /\ ring' = ring /\ count' = count /\ now' = now
        /\ trips' = trips /\ until' = until /\ broken' = broken
        /\ clock' = [clock EXCEPT ![t] = now]
    BY <1>5 DEF Breaker!CheckFlag
  <2>2. Ordered'
    BY <1>1, <1>2, <2>1, OrderKept DEF Breaker!TypeOK
  <2>3. "compare" \notin Recording /\ \A u \in Threads \ {t} : clock'[u] = clock[u]
    BY <1>1, <2>1 DEF Breaker!TypeOK, Recording
  <2>4. LastTrip'
    BY <1>1, <1>2, <2>1, <2>3, TripKept
  <2> QED
    BY <1>1, <1>5, <2>1, <2>2, <2>4, OthersIdle
<1>6. CASE Breaker!CheckRefuse(t)
  <2>1. /\ step[t] = "compare" /\ step' = [step EXCEPT ![t] = "idle"]
        /\ ring' = ring /\ count' = count /\ now' = now
        /\ trips' = trips /\ until' = until /\ broken' = broken
        /\ clock' = [clock EXCEPT ![t] = 0] /\ ~Breaker!CheckAllowed(t)
    BY <1>6 DEF Breaker!CheckRefuse, Breaker!CheckAllowed
  <2>2. Ordered'
    BY <1>1, <1>2, <2>1, OrderKept DEF Breaker!TypeOK
  <2>3. "idle" \notin Recording /\ \A u \in Threads \ {t} : clock'[u] = clock[u]
    BY <1>1, <2>1 DEF Breaker!TypeOK, Recording
  <2>4. LastTrip'
    BY <1>1, <1>2, <2>1, <2>3, TripKept
  <2> QED
    BY <1>1, <1>4, <2>1, <2>2, <2>4, OthersIdle
<1>7. CASE Breaker!CheckExpired(t)
  <2>1. /\ step[t] = "compare" /\ step' = [step EXCEPT ![t] = "clear"]
        /\ ring' = ring /\ count' = count /\ now' = now
        /\ trips' = trips /\ until' = until /\ broken' = broken
        /\ clock' = clock /\ ~Breaker!CheckAllowed(t) /\ clock[t] > until
    BY <1>7 DEF Breaker!CheckExpired, Breaker!CheckAllowed, Breaker!Expired
  <2>2. Ordered'
    BY <1>1, <1>2, <2>1, OrderKept DEF Breaker!TypeOK
  <2>3. LastTrip'
    BY <1>1, <1>2, <2>1 DEF LastTrip, Breaker!TypeOK, Breaker!BlockedForBreak, Recording
  <2> QED
    BY <1>1, <1>4, <2>1, <2>2, <2>3, OthersIdle
<1>8. CASE Breaker!CheckClear(t)
  <2>1. /\ step[t] = "clear" /\ step' = [step EXCEPT ![t] = "idle"] /\ broken' = FALSE
        /\ ring' = ring /\ count' = count /\ now' = now
        /\ trips' = trips /\ until' = until
        /\ clock' = [clock EXCEPT ![t] = 0] /\ ~Breaker!CheckAllowed(t)
    BY <1>8 DEF Breaker!CheckClear, Breaker!CheckAllowed
  <2>2. Ordered'
    BY <1>1, <1>2, <2>1, OrderKept DEF Breaker!TypeOK
  <2>3. \A u \in Threads \ {t} : step[u] = "idle"
    BY <1>4, <2>1
  <2>4. \A e \in trips : ~(now <= e)
    BY <1>1, <1>2, <2>1 DEF LastTrip, Breaker!TypeOK, ClocksPast
  <2>5. LastTrip'
    BY <1>1, <1>2, <2>1, <2>3, <2>4 DEF LastTrip, Breaker!TypeOK, Breaker!BlockedForBreak,
        Recording
  <2> QED
    BY <1>1, <2>1, <2>2, <2>3, <2>5, OthersIdle
<1> QED
  BY <1>3, <1>5, <1>6, <1>7, <1>8 DEF Breaker!Check

LEMMA SeqPreserved ==
    ASSUME Breaker!BreakerAssumption
    PROVE  BreakerSequenceInv /\ [Breaker!Next]_Breaker!vars => BreakerSequenceInv'
<1> SUFFICES ASSUME BreakerSequenceInv, [Breaker!Next]_Breaker!vars PROVE BreakerSequenceInv'
  OBVIOUS
<1>1. BreakerInv'
  BY BreakerPreserved DEF BreakerSequenceInv
<1>2. Breaker!TypeOK /\ ClocksPast
  BY DEF BreakerSequenceInv, BreakerInv
<1>3. ASSUME NEW t \in Threads, Breaker!Record(t) \/ Breaker!Check(t)
      PROVE  ClocksPast'
  BY <1>2, <1>3 DEF Breaker!Record, Breaker!RecordCall, Breaker!Lock, Breaker!Append,
      Breaker!Advance, Breaker!TripFlag, Breaker!TripUntil, Breaker!Unlock,
       Breaker!Check, Breaker!CheckAllowed, Breaker!CheckFlag, Breaker!CheckRefuse,
           Breaker!CheckExpired, Breaker!CheckClear,
       Breaker!TypeOK, ClocksPast, Breaker!vars, Breaker!callVars
<1>4. CASE Breaker!Tick
  <2>1. /\ now' = now + 1 /\ UNCHANGED <<ring, count, broken, until, trips, crossed>>
        /\ UNCHANGED <<step, clock>>
    BY <1>4 DEF Breaker!Tick, Breaker!callVars, Breaker!history
  <2>2. ClocksPast'
    BY <1>2, <2>1 DEF ClocksPast, Breaker!TypeOK
  <2>3. Ordered => Ordered'
    BY <1>2, <2>1 DEF Ordered, Written, Breaker!Nth, Breaker!Kept, Breaker!TypeOK, Breaker!Entries
  <2>4. LastTrip => LastTrip'
    BY <1>2, <2>1, BreakerConstants DEF LastTrip, Breaker!BlockedForBreak, Recording,
        Breaker!TypeOK
  <2> QED
    BY <1>1, <2>1, <2>2, <2>3, <2>4 DEF BreakerSequenceInv, InTurn, Alone
<1>5. CASE UNCHANGED Breaker!vars
  BY <1>1, <1>5 DEF BreakerSequenceInv, ClocksPast, InTurn, Alone, Ordered, Written,
      Breaker!Nth, Breaker!Kept, LastTrip,
                    Breaker!BlockedForBreak, Breaker!vars, Breaker!callVars, Breaker!history
<1> QED
  BY <1>1, <1>3, <1>4, <1>5, RecordInTurn, CheckInTurn DEF Breaker!Next, BreakerSequenceInv,
      InTurn

LEMMA SeqInit ==
    ASSUME Breaker!BreakerAssumption
    PROVE  Breaker!Init => BreakerSequenceInv
<1> SUFFICES ASSUME Breaker!Init PROVE BreakerSequenceInv
  OBVIOUS
<1>1. ClocksPast /\ Alone /\ LastTrip
  BY DEF Breaker!Init, ClocksPast, Alone, LastTrip, Breaker!BlockedForBreak, Recording
<1>2. Breaker!Kept(Written) = 0
  BY BreakerConstants DEF Breaker!Init, Written, Breaker!Kept
<1>3. Ordered
  BY <1>2 DEF Breaker!Init, Ordered
<1> QED
  BY <1>1, <1>3, BreakerInit DEF BreakerSequenceInv, InTurn
-----------------------------------------------------------------------------
(* The four objects together. *)

AllInv == TypeOK /\ QInv /\ JInv /\ BreakerSequenceInv

LEMMA AllInvInit == AllInit => AllInv
<1> SUFFICES ASSUME AllInit PROVE AllInv
  OBVIOUS
<1>1. Init /\ Queue!Init /\ Journal!Init /\ Breaker!Init
  BY DEF AllInit
<1>2. TypeOK
  BY <1>1, MachineInit DEF MInv
<1> QED
  BY <1>1, <1>2, QueueInit, JournalInit, SeqInit, BreakerFacts DEF AllInv

LEMMA BreakerStep == BreakerSequenceInv /\ [Breaker!Next]_Breaker!vars => BreakerSequenceInv'
BY SeqPreserved, BreakerFacts

LEMMA BreakerStutter == BreakerSequenceInv /\ UNCHANGED bVars => BreakerSequenceInv'
<1>1. UNCHANGED bVars => UNCHANGED Breaker!vars
  BY DEF bVars, Breaker!vars, Breaker!callVars, Breaker!history
<1> QED
  BY <1>1, BreakerStep

\* A step works on one object and leaves the others as they are.
LEMMA AllInvStep == AllInv /\ [AllNext]_allVars => AllInv'
<1> SUFFICES ASSUME AllInv, [AllNext]_allVars PROVE AllInv'
  OBVIOUS
<1>1. TypeOK /\ QInv /\ JInv /\ BreakerSequenceInv
  BY DEF AllInv
<1>2. CASE Next /\ UNCHANGED <<qVars, jVars, bVars>>
  BY <1>1, <1>2, MachineTypes, QueueStutter, JournalStutter, BreakerStutter DEF AllInv
<1>3. CASE Queue!Next /\ UNCHANGED <<vars, jVars, bVars>>
  BY <1>1, <1>3, MachineTypes, QueueStep, JournalStutter, BreakerStutter DEF AllInv
<1>4. CASE Journal!Next /\ UNCHANGED <<vars, qVars, bVars>>
  BY <1>1, <1>4, MachineTypes, QueueStutter, JournalStep, BreakerStutter DEF AllInv
<1>5. CASE Breaker!Next /\ UNCHANGED <<vars, qVars, jVars>>
  BY <1>1, <1>5, MachineTypes, QueueStutter, JournalStutter, BreakerStep DEF AllInv
<1>6. CASE UNCHANGED allVars
  <2>1. UNCHANGED vars /\ UNCHANGED qVars /\ UNCHANGED jVars /\ UNCHANGED bVars
    BY <1>6 DEF allVars
  <2> QED
    BY <1>1, <2>1, MachineTypes, QueueStutter, JournalStutter, BreakerStutter DEF AllInv
<1> QED
  BY <1>2, <1>3, <1>4, <1>5, <1>6 DEF AllNext

THEOREM AllInductive == AllSpec => []AllInv
BY AllInvInit, AllInvStep, PTL DEF AllSpec

\* The objects are well typed, whatever the number of threads; the watched
\* order is in the queue of its priority, once, until it is served.
THEOREM TypeCorrect == AllSpec => []AllTypeOK
<1>1. AllInv => AllTypeOK
  BY QueueTyped DEF AllInv, AllTypeOK, JInv, BreakerSequenceInv, BreakerInv
<1> QED
  BY <1>1, AllInductive, PTL

\* record_trade, lines 17-37: cumulative pnl is profit less loss less what is
\* on its way, however the additions of any number of threads interleave, and
\* calls that do not overlap keep the largest margin.
THEOREM JournalKeepsBooks == AllSpec => []JournalExact
<1>1. AllInv => JournalExact
  BY DEF AllInv, JournalExact, JInv
<1> QED
  BY <1>1, AllInductive, PTL

\* has_items, lines 60-63: a lone consumer that is told of items finds one when
\* it dequeues, though it gave up the mutex in between.
THEOREM HintKept == ASSUME LoneConsumer PROVE AllSpec => []HintHolds
<1>1. AllInit => HintHolds
  BY DEF AllInit, Queue!Init, HintHolds, Queue!HintHolds
<1>2. AllInv /\ HintHolds /\ [AllNext]_allVars => HintHolds'
  <2> SUFFICES ASSUME AllInv, HintHolds, [AllNext]_allVars PROVE HintHolds'
    OBVIOUS
  <2>1. QInv /\ Queue!HintHolds
    BY DEF AllInv, HintHolds
  <2>2. CASE Queue!Next
    BY <2>1, <2>2, HintStep DEF HintHolds
  <2>3. CASE UNCHANGED qVars
    BY <2>1, <2>3 DEF HintHolds, Queue!HintHolds, Queue!Waiting, qVars
  <2> QED
    BY <2>2, <2>3 DEF AllNext, allVars
<1> QED
  BY <1>1, <1>2, AllInductive, PTL DEF AllSpec

\* update_regime_hierarchy, lines 51-52 and 55-56: with one feeder, a breaker at
\* rest has the protective strategy and a recovery at rest the secured one,
\* unless another operation chose a strategy since.
THEOREM UpdatesPair == ASSUME OneFeeder PROVE AllSpec => []PairAtRest
<1>1. AllInit => MInv
  BY MachineInit DEF AllInit
<1>2. MInv /\ [AllNext]_allVars => MInv'
  <2> SUFFICES ASSUME MInv, [AllNext]_allVars PROVE MInv'
    OBVIOUS
  <2>1. [Next]_vars
    BY DEF AllNext, allVars
  <2> QED
    BY <2>1, MachineStep
<1> QED
  BY <1>1, <1>2, MachinePairs, PTL DEF AllSpec

\* The same of the machine alone.
THEOREM MachineAlonePairs == ASSUME OneFeeder PROVE Spec => []PairAtRest
BY MachineInit, MachineStep, MachinePairs, PTL DEF Spec

\* Lines 56-63: one thread at a time between lock and unlock.
THEOREM LockExcludes == AllSpec => []MutualExclusion
<1>1. AllInv => MutualExclusion
  BY DEF AllInv, BreakerSequenceInv, BreakerInv, MutualExclusion
<1> QED
  BY <1>1, AllInductive, PTL

\* Line 74: a refusal stands on a trip that had not expired at the caller's
\* clock reading, whatever half of a new trip the caller saw.
THEOREM RefusalsStand == AllSpec => RefusalJustified
<1>1. AllInv => [\A t \in Threads : Breaker!CheckRefuse(t) =>
                    \E e \in trips : clock[t] <= e]_Breaker!vars
  <2> SUFFICES ASSUME BreakerInv, NEW t \in Threads, Breaker!CheckRefuse(t)
               PROVE  \E e \in trips : clock[t] <= e
    BY DEF AllInv, BreakerSequenceInv
  <2>1. clock[t] \in Nat /\ until \in Nat /\ clock[t] <= until /\ clock[t] > 0
    BY DEF BreakerInv, Breaker!TypeOK, Expiries, Breaker!CheckRefuse, Breaker!Expired
  <2>2. until \in trips
    BY <2>1 DEF BreakerInv, Expiries
  <2> QED
    BY <2>1, <2>2
<1> QED
  BY AllInductive, <1>1, PTL DEF RefusalJustified, Breaker!RefusalJustified

LEMMA NothingLeftOut == BreakerSequenceInv => Breaker!WindowComplete
<1> SUFFICES ASSUME BreakerSequenceInv, ~crossed, lockedBy = Breaker!Nobody,
                    NEW n \in 1..Breaker!Kept(count), NEW at \in 0..now,
                    Breaker!Nth(ring, count, n).stamp >= at - Window
             PROVE  n \in Breaker!Reached(ring, count, at)
  BY DEF Breaker!WindowComplete
<1>1. Written = count
  <2>1. \A t \in Threads : step[t] \notin Breaker!Inside
    BY BreakerFacts DEF Breaker!BreakerAssumption, BreakerSequenceInv, BreakerInv, Breaker!MutualExclusion,
        Breaker!Nobody
  <2> QED
    BY <2>1 DEF Written, Breaker!Inside
<1>2. ASSUME NEW m \in 1..n
      PROVE  Breaker!Nth(ring, count, m).stamp >= at - Window
  <2>1. count \in Nat /\ Breaker!Kept(count) \in Nat /\ Breaker!Kept(count) <= count
    BY BreakerFacts, BreakerConstants DEF BreakerSequenceInv, BreakerInv, Breaker!TypeOK, Breaker!Kept
  <2>2. /\ m \in 1..Breaker!Kept(count) /\ m <= n
        /\ count - m \in Nat /\ count - n \in Nat
    BY <2>1
  <2>3. Breaker!Nth(ring, count, n).stamp <= Breaker!Nth(ring, count, m).stamp
    BY <1>1, <2>2 DEF BreakerSequenceInv, InTurn, Ordered
  <2>4. Breaker!Nth(ring, count, m) \in Breaker!Entries /\ Breaker!Nth(ring, count, n) \in Breaker!Entries
    BY <2>2, SlotOf, BreakerFacts DEF Breaker!Nth, BreakerSequenceInv, BreakerInv, Breaker!TypeOK
  <2>5. at - Window \in Int
    BY BreakerFacts, BreakerConstants DEF BreakerSequenceInv, BreakerInv, Breaker!TypeOK
  <2> QED
    BY <2>3, <2>4, <2>5 DEF Breaker!Entries
<1> QED
  BY <1>2 DEF Breaker!Reached

\* Line 107: while calls come one after the other, stopping at the first trade
\* out of the window leaves out no trade that is in it.
THEOREM WindowsComplete == AllSpec => []WindowComplete
<1>1. AllInv => WindowComplete
  BY NothingLeftOut DEF AllInv, WindowComplete
<1> QED
  BY <1>1, AllInductive, PTL

\* Line 81: while calls come one after the other, trading stays blocked until
\* the last trip expires.
THEOREM BlockedWhileInSequence == AllSpec => []BlockedInSequence
<1>1. AllInv => BlockedInSequence
  BY DEF AllInv, BreakerSequenceInv, InTurn, LastTrip, BlockedInSequence, Breaker!BlockedInSequence
<1> QED
  BY <1>1, AllInductive, PTL
=============================================================================
