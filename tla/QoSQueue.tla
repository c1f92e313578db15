------------------------------ MODULE QoSQueue ------------------------------
(***************************************************************************)
(* core/qos_queue.hpp: three queues of orders behind one mutex, drained by *)
(* priority.  Each call holds the mutex from its first line to its last,   *)
(* so a call is one action.                                                *)
(*                                                                         *)
(* One order is watched.  Nothing in the code tells orders apart, so what  *)
(* holds of it holds of every order.  The queues are unbounded; MaxLength  *)
(* bounds them here, and producers may go on for ever.                     *)
(***************************************************************************)
EXTENDS Naturals, Sequences

CONSTANTS
    Consumers,  \* threads that call has_items and dequeue
    MaxLength   \* bound: orders in each queue

VARIABLES
    queues,     \* critical_queue_, normal_queue_, low_queue_
    watched,    \* "new", the priority it waits at, or "served"
    hint        \* each consumer: did has_items say yes since its last dequeue

vars == <<queues, watched, hint>>

Priorities == <<"CRITICAL", "NORMAL", "LOW">>
Ranks == DOMAIN Priorities

Orders == {"watched", "other"}

Init ==
    /\ queues = [p \in Ranks |-> <<>>]
    /\ watched = "new"
    /\ hint = [c \in Consumers |-> FALSE]

\* Operators named Mutant_... are plausible bugs, which the properties must
\* refute when they take the place of the definition they precede.
Mutant_Enqueue(p, order) ==
    /\ Len(queues[p]) < MaxLength
    /\ order = "watched" => watched = "new"
    /\ queues' = [queues EXCEPT ![p] = <<order>> \o @]
    /\ watched' = IF order = "watched" THEN Priorities[p] ELSE watched
    /\ UNCHANGED hint

Enqueue(p, order) ==
    /\ Len(queues[p]) < MaxLength
    /\ order = "watched" => watched = "new"
    /\ queues' = [queues EXCEPT ![p] = Append(@, order)]
    /\ watched' = IF order = "watched" THEN Priorities[p] ELSE watched
    /\ UNCHANGED hint

Waiting == {p \in Ranks : queues[p] # <<>>}

\* The rank dequeue serves.
Mutant_First(p) == p \in Waiting /\ \A q \in Waiting : p >= q
First(p) == p \in Waiting /\ \A q \in Waiting : p <= q

\* Hands the front out and leaves it.
Mutant_Dequeue(c) ==
    /\ \E p \in Ranks :
         /\ First(p)
         /\ watched' = IF Head(queues[p]) = "watched" THEN "served" ELSE watched
    /\ hint' = [hint EXCEPT ![c] = FALSE]
    /\ UNCHANGED queues

Dequeue(c) ==
    /\ \E p \in Ranks :
         /\ First(p)
         /\ queues' = [queues EXCEPT ![p] = Tail(@)]
         /\ watched' = IF Head(queues[p]) = "watched" THEN "served" ELSE watched
    /\ hint' = [hint EXCEPT ![c] = FALSE]

DequeueNothing(c) ==
    /\ Waiting = {}
    /\ hint' = [hint EXCEPT ![c] = FALSE]
    /\ UNCHANGED <<queues, watched>>

\* A negation is missing.
Mutant_HasItems(c) ==
    /\ hint' = [hint EXCEPT ![c] = (queues[1] = <<>> \/ {2, 3} \cap Waiting # {})]
    /\ UNCHANGED <<queues, watched>>

HasItems(c) ==
    /\ hint' = [hint EXCEPT ![c] = (Waiting # {})]
    /\ UNCHANGED <<queues, watched>>

Next ==
    \/ \E p \in Ranks, order \in Orders : Enqueue(p, order)
    \/ \E c \in Consumers : Dequeue(c) \/ DequeueNothing(c) \/ HasItems(c)

Spec == Init /\ [][Next]_vars

(* The execution thread keeps draining.  Producers owe nothing and may keep *)
(* every queue filled.                                                      *)
FairSpec == Spec /\ WF_vars(\E c \in Consumers : Dequeue(c))
-----------------------------------------------------------------------------
(* Properties. *)

Positions == {at \in Ranks \X (1..MaxLength) :
                 at[2] <= Len(queues[at[1]]) /\ queues[at[1]][at[2]] = "watched"}

\* The watched order is in the queue of its priority, once, while it waits.
TypeOK ==
    /\ queues \in [Ranks -> Seq(Orders)]
    /\ hint \in [Consumers -> BOOLEAN]
    /\ \/ watched \in {"new", "served"} /\ Positions = {}
       \/ \E p \in Ranks, i \in 1..MaxLength :
              watched = Priorities[p] /\ Positions = {<<p, i>>}

\* "critical hedges are processed instantly before low-priority trades" (lines
\* 22-23): a critical order is served whatever the producers keep adding.
CriticalServed == watched = "CRITICAL" ~> watched = "served"

Quiet(p) == Len(queues'[p]) <= Len(queues[p])

\* The other priorities are served once those above them fall silent: strict
\* priority starves them only as long as more urgent orders keep coming.
OthersServed ==
    /\ <>[][Quiet(1)]_vars => (watched = "NORMAL" ~> watched = "served")
    /\ <>[][Quiet(1) /\ Quiet(2)]_vars => (watched = "LOW" ~> watched = "served")

\* A lone consumer told that there are items finds one (lines 60-63 give up
\* the mutex before it calls dequeue).
HintHolds == \A c \in Consumers : hint[c] => Waiting # {}
=============================================================================
