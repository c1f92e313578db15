-------------------------- MODULE MCQuantumEngine --------------------------
(* Model values for QuantumEngine. *)
EXTENDS QuantumEngine
=============================================================================
