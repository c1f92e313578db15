------------------------ MODULE MCCacheAlignedQueue ------------------------
(* Model values for CacheAlignedQueue: two turns of the cells and one more *)
(* push, or a capacity of one.                                             *)
EXTENDS CacheAlignedQueue
=============================================================================
