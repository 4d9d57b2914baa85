------------------------------ MODULE MCSessions ------------------------------
(* A small instance of HttpSessions for TLC.                                  *)
(* The threads are interchangeable, and no liveness is checked.               *)
EXTENDS HttpSessions, TLC

Symmetry == Permutations(Thread)
=============================================================================
