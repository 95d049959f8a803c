------------------------------- MODULE MCFifo -------------------------------
(* Finite instance of Fifo: a buffer of Max cells, two elements.           *)
EXTENDS Fifo
CONSTANTS z, a
=============================================================================
