--------------------------- MODULE MCLockFreeSlab ---------------------------
(* LockFreeSlab for TLC; the configurations give its constants values. *)
EXTENDS LockFreeSlab
=============================================================================
