---------------------------- MODULE CanaryGuard ----------------------------
(***************************************************************************)
(* memory/canary_guard.hpp: a guarded block and its audit.  The words of   *)
(* the block, header and footer included, are addressed from the user's    *)
(* first word; user code may store anywhere near.                          *)
(*                                                                         *)
(* The checksum is modelled by what it does on the few contents here:      *)
(* different data have different checksums, so it is the data.  A word is  *)
(* a pair of what it is meant for and a value; Junk is meant for nothing.  *)
(***************************************************************************)
EXTENDS Integers, Sequences

CONSTANTS
    UserWords,      \* user_size, in words
    Contents,       \* what the owner stores; 0 is what initialize stores
    MaxGeneration   \* bound: lives of the block

GuardAssumption == UserWords \in Nat /\ MaxGeneration \in Nat

VARIABLES
    word,           \* the block: address -> word
    life,           \* "raw", "live" or "freed" (history)
    generation,     \* lives begun (history)
    used            \* the owner stored in its data in this life (history)

vars == <<word, life, generation, used>>

User == 1..UserWords

\* BlockHeader before the user's words, BlockFooter behind them.
PreCanary  == -2
BlockId    == -1
Generation == 0
PostCanary == UserWords + 1
Checksum   == UserWords + 2
Block == PreCanary..Checksum

Junk        == <<"junk", 0>>
LIVE_CANARY == <<"canary", 1>>
FREE_CANARY == <<"canary", 0>>
Poison      == <<"poison", 0>>
Data(v)     == <<"data", v>>

compute_checksum(w) == <<"checksum", [a \in User |-> w[a]]>>

Init ==
    /\ word = [a \in Block |-> Junk]
    /\ life = "raw" /\ generation = 0 /\ used = FALSE

Initialized(g) ==
    [a \in Block |->
        CASE a \in {PreCanary, PostCanary} -> LIVE_CANARY
          [] a = BlockId    -> <<"id", 1>>
          [] a = Generation -> <<"generation", g>>
          [] a \in User     -> Data(0)
          [] a = Checksum   -> compute_checksum([u \in User |-> Data(0)])]

Initialize ==
    /\ life # "live" /\ generation < MaxGeneration
    /\ word' = Initialized(generation + 1)
    /\ life' = "live" /\ generation' = generation + 1 /\ used' = FALSE

MarkFreed ==
    /\ life = "live"
    /\ word' = [a \in Block |-> IF a \in {PreCanary, PostCanary} THEN FREE_CANARY
                                ELSE IF a \in User THEN Poison ELSE word[a]]
    /\ life' = "freed"
    /\ UNCHANGED <<generation, used>>

\* The owner stores in its own words while the block lives.
Store ==
    /\ life = "live"
    /\ \E a \in User, v \in Contents : word' = [word EXCEPT ![a] = Data(v)]
    /\ used' = TRUE
    /\ UNCHANGED <<life, generation>>

\* Code that runs past either end, or uses a block that was freed.
Stray ==
    /\ life # "raw"
    /\ \E a \in Block \ (IF life = "live" THEN User ELSE {}) :
         word' = [word EXCEPT ![a] = Junk]
    /\ UNCHANGED <<life, generation, used>>

Next == Initialize \/ MarkFreed \/ Store \/ Stray

Spec == Init /\ [][Next]_vars
-----------------------------------------------------------------------------
(* validate, by its error message. *)

Live == word[PreCanary] = LIVE_CANARY /\ word[PostCanary] = LIVE_CANARY

\* Operators named Mutant_... are plausible bugs, which the properties must
\* refute when they take the place of the definition they precede.

\* Looks at the canary in front only.
Mutant_Validate ==
    IF word[PreCanary] # LIVE_CANARY THEN
      IF word[PreCanary] = FREE_CANARY THEN "USE-AFTER-FREE" ELSE "CORRUPTED CANARY"
    ELSE IF word[Checksum] # compute_checksum(word) THEN "DATA CORRUPTION" ELSE "OK"

Validate ==
    IF ~Live THEN
      IF word[PreCanary] = FREE_CANARY THEN "USE-AFTER-FREE" ELSE "CORRUPTED CANARY"
    ELSE IF word[Checksum] # compute_checksum(word) THEN "DATA CORRUPTION" ELSE "OK"
-----------------------------------------------------------------------------
(* Properties. *)

TypeOK ==
    /\ DOMAIN word = Block
    /\ life \in {"raw", "live", "freed"}
    /\ generation \in 0..MaxGeneration
    /\ used \in BOOLEAN

Damaged == {a \in Block \ User : word[a] = Junk}

\* The audit of a block in any order of lives, stores and strays: a store over
\* either canary is reported, a freed block is never taken for a live one, and a
\* live block that nobody wrote to is in order.
AuditTells ==
    /\ life = "live" /\ Damaged \cap {PreCanary, PostCanary} # {} => Validate # "OK"
    /\ life = "freed" => Validate \in {"USE-AFTER-FREE", "CORRUPTED CANARY"}
    /\ life = "live" /\ Damaged = {} /\ ~used => Validate = "OK"

\* "Protección contra buffer overflow/underflow" (line 12): a store past either
\* end of the user's words is reported, the one just in front of them too.
StraysReported == life = "live" /\ Damaged # {} => Validate # "OK"
=============================================================================
