--------------------------- MODULE MCSharedObjects ---------------------------
(***************************************************************************)
(* Four objects that threads share and that share nothing with each other: *)
(* the strategy machine, the order queue, the trade journal and the        *)
(* circuit breaker.  A behaviour works on one of them, whichever, and      *)
(* leaves the others as they were made.                                    *)
(***************************************************************************)
EXTENDS AlphaEvolveFSM, Integers, FiniteSets

CONSTANTS Consumers, MaxLength, Trades, MaxTrades,
          Bookings, RingSize, MinTrades, LossLimit, PnlLimit, Window, Break,
          MaxRecords, MaxTime

VARIABLES object, queues, watched, hint,
          total, pnl, wins, profit, loss, margin,
          jPc, trade, seenMargin, recorded, overlapped,
          now, ring, count, broken, until, lockedBy,
          step, clock, booking, called, trips, crossed

SmallWin == [win |-> TRUE, pnl |-> 1, margin |-> 1]
BigLoss  == [win |-> FALSE, pnl |-> -2, margin |-> 2]
BigWin   == [win |-> TRUE, pnl |-> 3, margin |-> 3]
AllTrades == {SmallWin, BigLoss, BigWin}

\* For the breaker a loss, a smaller loss at a size that escalates after it, and
\* a profit.  Two losses are beyond the limit of the window, a loss and an
\* escalation trip by the escalation, three losses by their number.
Loss      == [pnl |-> -4, mult |-> 1]
Escalated == [pnl |-> -1, mult |-> 3]
Profit    == [pnl |-> 2, mult |-> 1]
AllBookings == {Loss, Escalated, Profit}

Queue   == INSTANCE QoSQueue
Journal == INSTANCE TradeJournal
             WITH Writers <- Threads, pc <- jPc
Breaker == INSTANCE AntiRevengeBreaker
             WITH Trades <- Bookings, pc <- step, trade <- booking, overlapped <- crossed

ASSUME SharedAssumption ==
    IsFiniteSet(Threads) /\ MaxLength \in Nat /\ Journal!TradesAssumption
    /\ Breaker!BreakerAssumption

qVars == <<queues, watched, hint>>
jVars == <<total, pnl, wins, profit, loss, margin,
           jPc, trade, seenMargin, recorded, overlapped>>
bVars == <<now, ring, count, broken, until, lockedBy, step, clock, booking,
           called, trips, crossed>>
allVars == <<object, vars, qVars, jVars, bVars>>

AllInit ==
    /\ object \in {"machine", "queue", "journal", "breaker"}
    /\ Init /\ Queue!Init /\ Journal!Init /\ Breaker!Init

AllNext ==
    /\ UNCHANGED object
    /\ \/ object = "machine" /\ Next /\ UNCHANGED <<qVars, jVars, bVars>>
       \/ object = "queue" /\ Queue!Next /\ UNCHANGED <<vars, jVars, bVars>>
       \/ object = "journal" /\ Journal!Next /\ UNCHANGED <<vars, qVars, bVars>>
       \/ object = "breaker" /\ Breaker!Next /\ UNCHANGED <<vars, qVars, jVars>>

OfQueue(A)   == object = "queue" /\ A /\ UNCHANGED <<object, vars, jVars, bVars>>
OfBreaker(A) == object = "breaker" /\ A /\ UNCHANGED <<object, vars, qVars, jVars>>

\* The thread that drains the order queue keeps going.  A thread inside
\* record_trade goes on; nobody is obliged to call it, and the spinlock is not
\* fair: that a waiter gets in rests on the others' calls being finitely many.
AllSpec ==
    /\ AllInit /\ [][AllNext]_allVars
    /\ WF_allVars(OfQueue(\E c \in Consumers : Queue!Dequeue(c)))
    /\ \A t \in Threads :
         /\ WF_allVars(OfBreaker(Breaker!Lock(t)))
         /\ WF_allVars(OfBreaker(Breaker!Append(t)))
         /\ WF_allVars(OfBreaker(Breaker!Advance(t)))
         /\ WF_allVars(OfBreaker(Breaker!TripFlag(t)))
         /\ WF_allVars(OfBreaker(Breaker!TripUntil(t)))
         /\ WF_allVars(OfBreaker(Breaker!Unlock(t)))
-----------------------------------------------------------------------------
(* The properties of the four modules; PairAtRest is AlphaEvolveFSM's. *)

\* Each object is well typed.
AllTypeOK == TypeOK /\ Queue!TypeOK /\ Journal!TypeOK /\ Breaker!TypeOK

\* has_items does not lie to a lone consumer.
HintHolds == Queue!HintHolds

\* Critical orders are served under any load, normal and low ones once those
\* above them fall silent.
OrdersServed == Queue!CriticalServed /\ Queue!OthersServed

\* The journal's sums agree up to the trades on their way, and it keeps the
\* largest margin of calls that do not overlap.
JournalExact == Journal!BooksBalance /\ Journal!MarginInSequence

\* The breaker's ring is touched by the holder of its spinlock only.
MutualExclusion == Breaker!MutualExclusion

\* The spinlock is released on every path.
RecordsEnd == Breaker!RecordsEnd

\* A refusal to trade stands on a trip that has not expired.
RefusalJustified == Breaker!RefusalJustified

\* While calls come one after the other, no trade of the window is left out.
WindowComplete == Breaker!WindowComplete

\* A trip blocks until it expires, while calls come one after the other.
BlockedInSequence == Breaker!BlockedInSequence

\* A trip blocks until it expires, whatever calls overlap.
BlockedForBreak == Breaker!BlockedForBreak
=============================================================================
