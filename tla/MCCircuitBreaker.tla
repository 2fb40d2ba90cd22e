-------------------------- MODULE MCCircuitBreaker --------------------------
(* A small instance of CircuitBreaker for TLC: three trades over two days. *)
EXTENDS CircuitBreaker

LossOrWin == {-2, 1}
=============================================================================
