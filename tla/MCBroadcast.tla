----------------------------- MODULE MCBroadcast -----------------------------
(***************************************************************************)
(* A small instance of Broadcast: two updates and two albums at a time.     *)
(***************************************************************************)
EXTENDS Broadcast, TLC

\* Updates, timers and albums are interchangeable: safety properties only.
TaskSymmetry == Permutations(Updates) \cup Permutations(Timers) \cup Permutations(Albums)
=============================================================================
