---------------------------- MODULE EnclaveSigner ----------------------------
(***************************************************************************)
(* security/enclave_signer.hpp: an order is signed with a hash of its      *)
(* bytes (FNV-1a), travels, and is verified.  Bytes and hash are narrower  *)
(* than the code's 8 and 64 bits; the multiplier is odd, as the code's is. *)
(***************************************************************************)
EXTENDS Integers, Sequences

CONSTANTS
    Bytes,
    Length,     \* length of a payload
    HashMod,    \* values of the hash
    Offset,     \* the hash of no bytes
    Multiplier,
    Masks       \* what the parts of a signature are xored with, 0 among them

\* Two to the power of n.
Power[n \in Nat] == IF n = 0 THEN 1 ELSE 2 * Power[n - 1]

\* The hash is as wide as a number of bits, and every step of it can be undone.
SignerAssumption ==
    LET Hashes == 0..(HashMod - 1) IN
    /\ Length \in Nat /\ Offset \in Hashes /\ Bytes \subseteq Hashes /\ Masks \subseteq Hashes
    /\ 0 \in Masks
    /\ \E bits \in 1..HashMod : HashMod = Power[bits]
    /\ Multiplier \in Nat /\ \E inverse \in Hashes : (Multiplier * inverse) % HashMod = 1

VARIABLES
    data,       \* the payload as it is now
    signed,     \* the payload as it was signed (history)
    signature,
    verified    \* what verify_signature returned, or "no"

vars == <<data, signed, signature, verified>>

Payloads == [1..Length -> Bytes]

\* Exclusive or, from the lowest bit up.
Xor[p \in Nat \X Nat] ==
    IF p[1] = 0 THEN p[2]
    ELSE 2 * Xor[<<p[1] \div 2, p[2] \div 2>>] + ((p[1] + p[2]) % 2)

\* Operators named Mutant_... are plausible bugs, which the properties must
\* refute when they take the place of the definition they precede.

\* The last byte is forgotten.
Mutant_Hash(d) ==
    LET upTo[n \in 0..Length] ==
          IF n = 0 THEN Offset ELSE (Xor[<<upTo[n - 1], d[n]>>] * Multiplier) % HashMod
    IN upTo[Length - 1]

\* Each byte is xored in before the product wraps around.
Hash(d) ==
    LET upTo[n \in 0..Length] ==
          IF n = 0 THEN Offset ELSE (Xor[<<upTo[n - 1], d[n]>>] * Multiplier) % HashMod
    IN upTo[Length]

Signature(d) == [m \in Masks |-> Xor[<<Hash(d), m>>]]

Init ==
    /\ data \in Payloads /\ signed = data
    /\ signature = Signature(data) /\ verified = "no"

SignPayload ==
    /\ signed' = data /\ signature' = Signature(data) /\ verified' = "no"
    /\ UNCHANGED data

\* On its way a byte comes to be another.
Alter(n, b) ==
    /\ data' = [data EXCEPT ![n] = b] /\ verified' = "no"
    /\ UNCHANGED <<signed, signature>>

VerifySignature ==
    /\ verified' = IF Signature(data) = signature THEN "valid" ELSE "invalid"
    /\ UNCHANGED <<data, signed, signature>>

Next ==
    \/ SignPayload \/ VerifySignature
    \/ \E n \in 1..Length, b \in Bytes : Alter(n, b)

Spec == Init /\ [][Next]_vars
-----------------------------------------------------------------------------
(* Properties. *)

TypeOK ==
    /\ data \in Payloads /\ signed \in Payloads
    /\ signature \in [Masks -> 0..(HashMod - 1)]
    /\ verified \in {"no", "valid", "invalid"}

\* What arrives as it was signed is valid, and what arrives with one byte changed
\* is not: the product by an odd number maps no two hashes to one.  Two changed
\* bytes may make up for each other.
AlterationTold ==
    LET differ == {n \in 1..Length : data[n] # signed[n]} IN
    /\ differ = {} => verified # "invalid"
    /\ \A n \in 1..Length : differ = {n} => verified # "valid"
=============================================================================
