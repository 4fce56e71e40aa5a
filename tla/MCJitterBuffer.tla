--------------------------- MODULE MCJitterBuffer ---------------------------
(* TLC's instance of JitterBuffer: the configurations set the network's    *)
(* faults, the two clocks and the bounds.                                  *)
EXTENDS JitterBuffer
=============================================================================
