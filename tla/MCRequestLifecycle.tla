------------------------- MODULE MCRequestLifecycle -------------------------
(* Instances of RequestLifecycle for TLC.                                   *)
EXTENDS RequestLifecycle, TLC

Interchangeable == Permutations(Requests) \cup Permutations(Sockets)
=============================================================================
