--------------------------- MODULE MCRingBuffer ----------------------------
(* Model values for RingBuffer: the indices go round the ring twice. *)
EXTENDS RingBuffer
=============================================================================
