------------------------ MODULE IterativeSegmentTree ------------------------
(***************************************************************************)
(* core/advanced_data_structures.hpp, IterativeSegmentTree: the maximum of *)
(* a range of N values, for any N, kept in an array of 2N nodes.  One      *)
(* action per call; the values are small integers.                         *)
(***************************************************************************)
EXTENDS Integers

CONSTANTS
    N,          \* n_
    Values      \* what a leaf may hold; 0 is one, as the constructor puts it

\* Values of a type that has a largest one.
TreeAssumption ==
    /\ N \in Nat \ {0} /\ Values \subseteq Int
    /\ \E top \in Values : \A x \in Values : x <= top

VARIABLES
    tree,       \* tree_
    leaves      \* the values the callers put in (history)

vars == <<tree, leaves>>

Nodes == 0..(2 * N - 1)
Leaves == 0..(N - 1)

Larger(a, b) == IF a >= b THEN a ELSE b

Init ==
    /\ tree = [k \in Nodes |-> 0]
    /\ leaves = [p \in Leaves |-> 0]

\* Operators named Mutant_... are plausible bugs, which the properties must
\* refute when they take the place of the definition they precede.

\* From the leaves up; node 0 is never touched.
Build ==
    /\ leaves' \in [Leaves -> Values]
    /\ tree' = LET node[k \in Nodes] ==
                     IF k = 0 THEN tree[0]
                     ELSE IF k >= N THEN leaves'[k - N]
                     ELSE Larger(node[2 * k], node[2 * k + 1])
               IN node

\* The other child of k's parent: k ^ 1.
Mutant_Sibling(k) == IF k + 1 \in Nodes THEN k + 1 ELSE k - 1
Sibling(k) == IF k % 2 = 0 THEN k + 1 ELSE k - 1

\* k and its ancestors: k, k >> 1, k >> 2, ... down to 1.
Path(k) ==
    LET up[j \in Nodes] == IF j <= 1 THEN {j} ELSE {j} \cup up[j \div 2]
    IN up[k]

\* Sets a leaf and then each node above it to the larger of its children.
Update ==
    \E p \in Leaves, v \in Values :
      /\ leaves' = [leaves EXCEPT ![p] = v]
      /\ tree' = LET path == Path(p + N)
                     below(k) == CHOOSE c \in path : c \div 2 = k /\ c # k
                     node[k \in Nodes] ==
                       IF k = p + N THEN v
                       ELSE IF k \in path
                            THEN Larger(node[below(k)], tree[Sibling(below(k))])
                            ELSE tree[k]
                 IN node

Next == Build \/ Update

Spec == Init /\ [][Next]_vars
-----------------------------------------------------------------------------
Sentinel == -1000000000

\* l and r on their way up.
Spans == (0..(2 * N)) \X (0..(2 * N))

\* The nodes query_max looks at from there on.
Looked[at \in Spans] ==
    LET a == at[1]   b == at[2]
    IN IF a >= b THEN {}
       ELSE (IF a % 2 = 1 THEN {a} ELSE {}) \cup (IF b % 2 = 1 THEN {b - 1} ELSE {})
              \cup Looked[<<(a + (a % 2)) \div 2, (b - (b % 2)) \div 2>>]

MaxOf(S) == CHOOSE x \in S : \A y \in S : y <= x

QueryMax(l, r) == MaxOf({Sentinel} \cup {tree[k] : k \in Looked[<<l + N, r + N>>]})
-----------------------------------------------------------------------------
(* Properties. *)

TypeOK ==
    /\ tree \in [Nodes -> Values \cup {0}]
    /\ leaves \in [Leaves -> Values \cup {0}]

\* Whatever was built and updated, query_max is the maximum of its half-open
\* range, for a number of leaves that is no power of two as well.
QueriesExact ==
    \A l \in Leaves, r \in 0..N :
      QueryMax(l, r) = MaxOf({Sentinel} \cup {leaves[p] : p \in l..(r - 1)})
=============================================================================
