------------------------- MODULE AntiRevengeBreaker -------------------------
(***************************************************************************)
(* risk/anti_revenge_circuit_breaker.hpp: trading stops for two hours when *)
(* the last quarter of an hour looks like revenge trading.  Threads call   *)
(* record_trade, whose ring is under a spinlock, and is_allowed_to_trade,  *)
(* which takes no lock and clears the flag itself once the time is past.   *)
(*                                                                         *)
(* Time is a counter that may advance between any two steps.  Sizes and    *)
(* thresholds are constants, so that small instances reach every branch;   *)
(* a profit is in hundredths and a size multiplier a small integer.        *)
(* is_allowed_to_trade is const and stores to an atomic member, which does *)
(* not compile; it is modelled as if break state were mutable.             *)
(***************************************************************************)
EXTENDS Integers, FiniteSets, FiniteSetsExt

CONSTANTS
    Threads,
    Trades,       \* possible [pnl, mult] of a trade
    RingSize,     \* RING_SIZE, 128
    MinTrades,    \* MAX_TRADES_IN_WINDOW, 5
    LossLimit,    \* 3 losses
    PnlLimit,     \* 5 hundredths
    Window,       \* TIME_WINDOW, 15 minutes
    Break,        \* 2 hours
    MaxRecords,   \* bound: calls of record_trade
    MaxTime       \* bound: the clock

BreakerAssumption ==
    /\ "nobody" \notin Threads
    /\ RingSize \in Nat \ {0} /\ Window \in Nat /\ Break \in Nat
    /\ MaxRecords \in Nat /\ MaxTime \in Nat
    /\ \A trade \in Trades : trade.pnl \in Int /\ trade.mult \in Nat

VARIABLES
    now,          \* system_clock
    ring,         \* recent_trades_
    count,        \* write_index_
    broken,       \* is_circuit_broken_
    until,        \* break_until_ns_
    lockedBy,     \* spinlock_: the thread that holds it, or Nobody
    pc,           \* next step of each thread
    clock,        \* the time it read in its current call
    trade,        \* the trade it records
    called,       \* calls of record_trade (for the bound)
    trips,        \* expiries of the trips so far (history)
    overlapped    \* two calls have overlapped (history)

history == <<called, trips, overlapped>>
callVars == <<pc, clock, trade>>
vars == <<now, ring, count, broken, until, lockedBy, callVars, history>>

Nobody == "nobody"
NoTrade == [pnl |-> 0, mult |-> 0]
Slots == 0..(RingSize - 1)

Init ==
    /\ now = 1    \* well past the epoch, which break_until_ns_ starts at
    /\ ring = [s \in Slots |-> [stamp |-> 0, pnl |-> 0, mult |-> 0]]
    /\ count = 0
    /\ broken = FALSE /\ until = 0
    /\ lockedBy = Nobody
    /\ pc = [t \in Threads |-> "idle"]
    /\ clock = [t \in Threads |-> 0]
    /\ trade = [t \in Threads |-> NoTrade]
    /\ called = 0 /\ trips = {} /\ overlapped = FALSE

Goto(t, step) == pc' = [pc EXCEPT ![t] = step]

\* A call begins.
Begin(t) ==
    overlapped' = (overlapped \/ \E u \in Threads \ {t} : pc[u] # "idle")

Tick ==
    /\ now < MaxTime
    /\ now' = now + 1
    /\ UNCHANGED <<ring, count, broken, until, lockedBy, callVars, history>>
-----------------------------------------------------------------------------
(* evaluate_behavior, over the n-th newest trades of a ring r of c trades. *)

Nth(r, c, n) == r[(c - n) % RingSize]
Kept(c) == IF c < RingSize THEN c ELSE RingSize

\* Operators named Mutant_... are plausible bugs, which the properties must
\* refute when they take the place of the definition they precede.
Mutant_Reached(r, c, at) ==
    {n \in 1..Kept(c) : \A m \in 1..n : Nth(r, c, m).stamp > at - Window}

\* The trades the loop reaches before the first one out of the window.
Reached(r, c, at) ==
    {n \in 1..Kept(c) : \A m \in 1..n : Nth(r, c, m).stamp >= at - Window}

Losses(r, c, at) == {n \in Reached(r, c, at) : Nth(r, c, n).pnl < 0}

\* A loss whose size is more than twice that of the loss just before it.
Escalates(r, c, at) ==
    \E n \in Losses(r, c, at) :
        /\ n + 1 \in Losses(r, c, at)
        /\ Nth(r, c, n).mult > 2 * Nth(r, c, n + 1).mult

WindowPnl(r, c, at) == MapThenSumSet(LAMBDA n : Nth(r, c, n).pnl, Reached(r, c, at))

Revenge(r, c, at) ==
    /\ c >= MinTrades
    /\ \/ Cardinality(Losses(r, c, at)) >= LossLimit
       \/ Escalates(r, c, at)
       \/ WindowPnl(r, c, at) < -PnlLimit
-----------------------------------------------------------------------------
(* record_trade *)

\* The clock is read before the lock is taken (lines 52-56).
RecordCall(t) ==
    /\ pc[t] = "idle"
    /\ called < MaxRecords
    /\ called' = called + 1
    /\ clock' = [clock EXCEPT ![t] = now]
    /\ \E x \in Trades : trade' = [trade EXCEPT ![t] = x]
    /\ Goto(t, "lock")
    /\ Begin(t)
    /\ UNCHANGED <<now, ring, count, broken, until, lockedBy, trips>>

\* Spins on a flag that it read before, so that two threads may enter.
Mutant_Lock(t) ==
    /\ pc[t] = "lock"
    /\ lockedBy' = t
    /\ Goto(t, "append")
    /\ UNCHANGED <<now, ring, count, broken, until, clock, trade, history>>

Lock(t) ==
    /\ pc[t] = "lock"
    /\ lockedBy = Nobody
    /\ lockedBy' = t
    /\ Goto(t, "append")
    /\ UNCHANGED <<now, ring, count, broken, until, clock, trade, history>>

Entry(t) == [stamp |-> clock[t], pnl |-> trade[t].pnl, mult |-> trade[t].mult]

Append(t) ==
    /\ pc[t] = "append"
    /\ ring' = [ring EXCEPT ![count % RingSize] = Entry(t)]
    /\ Goto(t, "advance")
    /\ UNCHANGED <<now, count, broken, until, lockedBy, clock, trade, history>>

\* Advances write_index_ and evaluates: both touch only what the lock guards.
Advance(t) ==
    /\ pc[t] = "advance"
    /\ count' = count + 1
    /\ Goto(t, IF Revenge(ring, count + 1, clock[t]) THEN "trip" ELSE "unlock")
    /\ UNCHANGED <<now, ring, broken, until, lockedBy, clock, trade, history>>

TripFlag(t) ==
    /\ pc[t] = "trip"
    /\ broken' = TRUE
    /\ Goto(t, "tripUntil")
    /\ UNCHANGED <<now, ring, count, until, lockedBy, clock, trade, history>>

\* The two hours computed in a word too narrow for them: a negative number.
Mutant_TripUntil(t) ==
    /\ pc[t] = "tripUntil"
    /\ until' = clock[t] - 4 * Break
    /\ trips' = trips \cup {clock[t] + Break}
    /\ Goto(t, "unlock")
    /\ UNCHANGED <<now, ring, count, broken, lockedBy, clock, trade, called, overlapped>>

TripUntil(t) ==
    /\ pc[t] = "tripUntil"
    /\ until' = clock[t] + Break
    /\ trips' = trips \cup {clock[t] + Break}
    /\ Goto(t, "unlock")
    /\ UNCHANGED <<now, ring, count, broken, lockedBy, clock, trade, called, overlapped>>

\* A path of a full ring returns without the unlock.
Mutant_Unlock(t) ==
    /\ pc[t] = "unlock"
    /\ IF count < RingSize THEN lockedBy' = Nobody ELSE UNCHANGED lockedBy
    /\ clock' = [clock EXCEPT ![t] = 0]
    /\ trade' = [trade EXCEPT ![t] = NoTrade]
    /\ Goto(t, "idle")
    /\ UNCHANGED <<now, ring, count, broken, until, history>>

Unlock(t) ==
    /\ pc[t] = "unlock"
    /\ lockedBy' = Nobody
    /\ clock' = [clock EXCEPT ![t] = 0]
    /\ trade' = [trade EXCEPT ![t] = NoTrade]
    /\ Goto(t, "idle")
    /\ UNCHANGED <<now, ring, count, broken, until, history>>
-----------------------------------------------------------------------------
(* is_allowed_to_trade *)

\* The flag is clear: the call returns true.
CheckAllowed(t) ==
    /\ pc[t] = "idle"
    /\ ~broken
    /\ UNCHANGED vars

\* The flag is set: read the clock.
CheckFlag(t) ==
    /\ pc[t] = "idle"
    /\ broken
    /\ clock' = [clock EXCEPT ![t] = now]
    /\ Goto(t, "compare")
    /\ Begin(t)
    /\ UNCHANGED <<now, ring, count, broken, until, lockedBy, trade, called, trips>>

\* Refuses on a flag whose time is past, or lets go at the last moment of it.
Mutant_ExpiredLate(t) == clock[t] > until + 1
Mutant_ExpiredEarly(t) == clock[t] >= until
Expired(t) == clock[t] > until

CheckRefuse(t) ==
    /\ pc[t] = "compare"
    /\ ~Expired(t)
    /\ clock' = [clock EXCEPT ![t] = 0]
    /\ Goto(t, "idle")
    /\ UNCHANGED <<now, ring, count, broken, until, lockedBy, trade, history>>

CheckExpired(t) ==
    /\ pc[t] = "compare"
    /\ Expired(t)
    /\ Goto(t, "clear")
    /\ UNCHANGED <<now, ring, count, broken, until, lockedBy, clock, trade, history>>

CheckClear(t) ==
    /\ pc[t] = "clear"
    /\ broken' = FALSE
    /\ clock' = [clock EXCEPT ![t] = 0]
    /\ Goto(t, "idle")
    /\ UNCHANGED <<now, ring, count, until, lockedBy, trade, history>>
-----------------------------------------------------------------------------
Record(t) ==
    \/ RecordCall(t) \/ Lock(t) \/ Append(t) \/ Advance(t)
    \/ TripFlag(t) \/ TripUntil(t) \/ Unlock(t)

Check(t) == CheckAllowed(t) \/ CheckFlag(t) \/ CheckRefuse(t) \/ CheckExpired(t) \/ CheckClear(t)

Next == Tick \/ \E t \in Threads : Record(t) \/ Check(t)

Spec == Init /\ [][Next]_vars
-----------------------------------------------------------------------------
(* Properties. *)

Entries == [stamp : Nat, pnl : Int, mult : Nat]
Inside == {"append", "advance", "trip", "tripUntil", "unlock"}
Steps == Inside \cup {"idle", "lock", "compare", "clear"}

TypeOK ==
    /\ now \in Nat /\ count \in Nat /\ until \in Nat /\ called \in 0..MaxRecords
    /\ ring \in [Slots -> Entries]
    /\ broken \in BOOLEAN
    /\ lockedBy \in Threads \cup {Nobody}
    /\ pc \in [Threads -> Steps] /\ clock \in [Threads -> Nat]
    /\ trade \in [Threads -> Trades \cup {NoTrade}]
    /\ trips \subseteq Nat /\ overlapped \in BOOLEAN

\* The ring and write_index_ are touched by the holder of the spinlock only.
MutualExclusion == \A t \in Threads : pc[t] \in Inside => lockedBy = t

\* A refusal (line 74) always stands on a trip that has not expired at the
\* caller's clock reading, never on half of the two stores of lines 128-129.
RefusalJustified ==
    [][\A t \in Threads : CheckRefuse(t) => \E e \in trips : clock[t] <= e]_vars

\* record_trade ends: the spinlock is released on every path, the early return
\* of line 89 included.
RecordsEnd == \A t \in Threads : pc[t] = "lock" ~> pc[t] = "idle"

\* As long as calls come one after the other the loop's break (line 107)
\* leaves out exactly the kept trades that are out of the window: stamps are in
\* the ring's order.
WindowComplete ==
    ~overlapped /\ lockedBy = Nobody =>
        \A n \in 1..Kept(count), at \in 0..now :
            Nth(ring, count, n).stamp >= at - Window => n \in Reached(ring, count, at)

\* "Sistema bloqueado por 2 horas" (line 81): until a trip expires the flag
\* stays set, so that is_allowed_to_trade says no.
BlockedForBreak ==
    (\A t \in Threads : pc[t] \notin {"trip", "tripUntil"}) =>
        \A e \in trips : now <= e => broken

\* It does, as long as calls come one after the other.
BlockedInSequence == ~overlapped => BlockedForBreak
=============================================================================
