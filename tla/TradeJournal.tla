---------------------------- MODULE TradeJournal ----------------------------
(***************************************************************************)
(* analytics/trade_journal.hpp: record_trade, which many threads call: it  *)
(* adds to six atomics one at a time, with no lock.                        *)
(*                                                                         *)
(* Amounts are small integers; a win's pnl is positive, a loss's is not    *)
(* (TradesAssumption).  losing_trades_ is written and never read, so it is *)
(* left out, as are the ratios, which change nothing.                      *)
(***************************************************************************)
EXTENDS Integers, FiniteSetsExt

CONSTANTS
    Writers,    \* threads that call record_trade
    Trades,     \* possible [win, pnl, margin] of a trade
    MaxTrades   \* bound: calls of record_trade

TradesAssumption ==
    /\ MaxTrades \in Nat
    /\ \A x \in Trades :
         /\ x.win \in BOOLEAN /\ x.pnl \in Int /\ x.margin \in Nat
         /\ x.win <=> x.pnl > 0

VARIABLES
    total,      \* total_trades_
    pnl,        \* cumulative_pnl_
    wins,       \* winning_trades_
    profit,     \* gross_profit_
    loss,       \* gross_loss_
    margin,     \* max_margin_used_
    pc,         \* next step of each writer
    trade,      \* the trade it records
    seenMargin, \* its current_max_margin
    recorded,   \* the largest margin of the calls that returned (history)
    overlapped  \* a call began during another (history)

sums == <<total, pnl, wins, profit, loss, margin>>
vars == <<sums, pc, trade, seenMargin, recorded, overlapped>>

NoTrade == [win |-> FALSE, pnl |-> 0, margin |-> 0]

Init ==
    /\ total = 0 /\ pnl = 0 /\ wins = 0 /\ profit = 0 /\ loss = 0 /\ margin = 0
    /\ pc = [w \in Writers |-> "idle"]
    /\ trade = [w \in Writers |-> NoTrade]
    /\ seenMargin = [w \in Writers |-> 0]
    /\ recorded = 0
    /\ overlapped = FALSE

Step(w, from, to) == pc[w] = from /\ pc' = [pc EXCEPT ![w] = to]
-----------------------------------------------------------------------------
(* record_trade *)

AddTotal(w) ==
    /\ Step(w, "idle", "pnl")
    /\ total < MaxTrades
    /\ \E x \in Trades : trade' = [trade EXCEPT ![w] = x]
    /\ total' = total + 1
    /\ overlapped' = (overlapped \/ \E v \in Writers : pc[v] # "idle")
    /\ UNCHANGED <<pnl, wins, profit, loss, margin, seenMargin, recorded>>

AddPnl(w) ==
    /\ Step(w, "pnl", "side")
    /\ pnl' = pnl + trade[w].pnl
    /\ UNCHANGED <<total, wins, profit, loss, margin, trade, seenMargin, recorded, overlapped>>

AddWin(w) ==
    /\ Step(w, "side", "gross")
    /\ trade[w].win
    /\ wins' = wins + 1
    /\ UNCHANGED <<total, pnl, profit, loss, margin, trade, seenMargin, recorded, overlapped>>

AddProfit(w) ==
    /\ Step(w, "gross", "load")
    /\ profit' = profit + trade[w].pnl
    /\ UNCHANGED <<total, pnl, wins, loss, margin, trade, seenMargin, recorded, overlapped>>

\* Operators named Mutant_... are plausible bugs, which the properties must
\* refute when they take the place of the definition they precede.
Mutant_AddLoss(w) ==
    /\ Step(w, "side", "load")
    /\ ~trade[w].win
    /\ loss' = loss + trade[w].pnl
    /\ UNCHANGED <<total, pnl, wins, profit, margin, trade, seenMargin, recorded, overlapped>>

\* std::abs of a pnl that is not positive.
AddLoss(w) ==
    /\ Step(w, "side", "load")
    /\ ~trade[w].win
    /\ loss' = loss - trade[w].pnl
    /\ UNCHANGED <<total, pnl, wins, profit, margin, trade, seenMargin, recorded, overlapped>>

LoadMargin(w) ==
    /\ Step(w, "load", "store")
    /\ seenMargin' = [seenMargin EXCEPT ![w] = margin]
    /\ UNCHANGED <<sums, trade, recorded, overlapped>>

Mutant_StoreMargin(w) ==
    /\ Step(w, "store", "idle")
    /\ margin' = trade[w].margin
    /\ recorded' = Max({recorded, trade[w].margin})
    /\ trade' = [trade EXCEPT ![w] = NoTrade]
    /\ seenMargin' = [seenMargin EXCEPT ![w] = 0]
    /\ UNCHANGED <<total, pnl, wins, profit, loss, overlapped>>

\* Compares with the margin loaded before.
StoreMargin(w) ==
    /\ Step(w, "store", "idle")
    /\ margin' = IF trade[w].margin > seenMargin[w] THEN trade[w].margin ELSE margin
    /\ recorded' = Max({recorded, trade[w].margin})
    /\ trade' = [trade EXCEPT ![w] = NoTrade]
    /\ seenMargin' = [seenMargin EXCEPT ![w] = 0]
    /\ UNCHANGED <<total, pnl, wins, profit, loss, overlapped>>

RecordTrade(w) ==
    \/ AddTotal(w) \/ AddPnl(w) \/ AddWin(w) \/ AddProfit(w) \/ AddLoss(w)
    \/ LoadMargin(w) \/ StoreMargin(w)
Next == \E w \in Writers : RecordTrade(w)

Spec == Init /\ [][Next]_vars
-----------------------------------------------------------------------------
(* Properties. *)

TypeOK ==
    /\ total \in 0..MaxTrades /\ pnl \in Int /\ wins \in Nat
    /\ profit \in Nat /\ loss \in Nat /\ margin \in Nat
    /\ pc \in [Writers -> {"idle", "pnl", "side", "gross", "load", "store"}]
    /\ trade \in [Writers -> Trades \cup {NoTrade}]
    /\ seenMargin \in [Writers -> Nat] /\ recorded \in Nat
    /\ overlapped \in BOOLEAN

\* The four sums that are updated one by one always agree up to the trades on
\* their way: cumulative pnl is profit less loss less what a thread between
\* lines 18 and 25 still has to book on a side.
BooksBalance ==
    pnl = profit - loss
            + MapThenSumSet(LAMBDA w : trade[w].pnl,
                            {w \in Writers : pc[w] \in {"side", "gross"}})

\* "ROIC on Max Margin" (line 58): the margin kept is the largest of the
\* trades recorded.
MarginCovers == margin >= recorded

\* The same for calls that never overlap, as a single caller's.
MarginInSequence == ~overlapped => MarginCovers
=============================================================================
