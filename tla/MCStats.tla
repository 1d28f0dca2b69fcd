------------------------------ MODULE MCStats ------------------------------
(***************************************************************************)
(* Two threads, counters of two bits, enough events of each kind for every *)
(* counter to wrap around.  The threads are interchangeable.               *)
(***************************************************************************)
EXTENDS Stats, TLC

Threads == Permutations(Thread)
=============================================================================
