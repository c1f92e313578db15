-------------------------- MODULE HypothesisDatabase --------------------------
(***************************************************************************)
(* agents/hypothesis_memory.hpp: hypotheses ranked by a profit that decays *)
(* with their age in whole seconds.                                        *)
(*                                                                         *)
(* Decay is scaled to a half per second.  A call of get_top_k reads the    *)
(* clock once, where the comparator of line 43 reads it anew each time.    *)
(***************************************************************************)
EXTENDS Integers, Sequences, Functions

CONSTANTS
    Profits,    \* profit_loss
    Ks,         \* k
    MaxKept,    \* bound: hypotheses
    MaxTime     \* bound: half seconds

MemoryAssumption == Profits \subseteq Int /\ Ks \subseteq Nat /\ MaxKept \in Nat /\ MaxTime \in Nat

VARIABLES
    now,        \* system_clock, in half seconds
    hypotheses, \* [profit, at]: profit_loss and timestamp
    top,        \* what get_top_k returned last: places in hypotheses
    asked       \* [k, of]: for how many it was asked, of how many (history)

vars == <<now, hypotheses, top, asked>>

Init == now = 0 /\ hypotheses = <<>> /\ top = <<>> /\ asked = [k |-> 0, of |-> 0]

Tick ==
    /\ now < MaxTime
    /\ now' = now + 1
    /\ UNCHANGED <<hypotheses, top, asked>>

AddHypothesis(profit) ==
    /\ Len(hypotheses) < MaxKept
    /\ hypotheses' = Append(hypotheses, [profit |-> profit, at |-> now])
    /\ UNCHANGED <<now, top, asked>>

\* Two to the power of n.
Power[n \in Nat] == IF n = 0 THEN 1 ELSE 2 * Power[n - 1]

\* Operators named Mutant_... are plausible bugs, which the properties must
\* refute when they take the place of the definition they precede.
Mutant_Score(h) == h.profit * Power[(now - h.at) \div 2]

\* score(), times a power of two that all have in common.
Score(h) == h.profit * Power[MaxTime - (now - h.at) \div 2]

\* Every order of all by falling scores.
Rankings ==
    {r \in Bijection(DOMAIN hypotheses, DOMAIN hypotheses) :
        \A i, j \in DOMAIN r : i < j => Score(hypotheses[r[i]]) >= Score(hypotheses[r[j]])}

GetTopK(k) ==
    /\ \E r \in Rankings : top' = IF Len(r) > k THEN SubSeq(r, 1, k) ELSE r
    /\ asked' = [k |-> k, of |-> Len(hypotheses)]
    /\ UNCHANGED <<now, hypotheses>>

Next ==
    \/ Tick
    \/ \E p \in Profits : AddHypothesis(p)
    \/ \E k \in Ks : GetTopK(k)

Spec == Init /\ [][Next]_vars
-----------------------------------------------------------------------------
(* Properties. *)

TypeOK ==
    /\ now \in 0..MaxTime /\ hypotheses \in Seq([profit : Profits, at : 0..MaxTime])
    /\ asked.k \in Ks \cup {0} /\ asked.of \in 0..Len(hypotheses)
    /\ Len(top) = (IF asked.k < asked.of THEN asked.k ELSE asked.of) /\ IsInjective(top) /\ Range(top) \subseteq 1..asked.of

\* One is ahead of another by what a second decays and more: both profits are
\* aged to the later of the two, at any time, and squared to halve the exponent.
Ahead(a, b) ==
    \/ a.profit > 0 /\ b.profit <= 0
    \/ a.profit = 0 /\ b.profit < 0
    \/ /\ a.profit > 0 /\ b.profit > 0
       /\ a.profit * a.profit * Power[a.at] > 4 * (b.profit * b.profit) * Power[b.at]
    \/ /\ a.profit < 0 /\ b.profit < 0
       /\ 4 * (a.profit * a.profit) * Power[a.at] < b.profit * b.profit * Power[b.at]

\* Ages in whole seconds let two hypotheses swap places for half a second, but
\* one that is clearly ahead stays so for ever: it is never ranked behind, nor
\* left out of the best k for, one it is ahead of.
RankingKept ==
    \A i \in DOMAIN top, h \in 1..asked.of :
        Ahead(hypotheses[h], hypotheses[top[i]]) => \E j \in 1..(i - 1) : top[j] = h
=============================================================================
