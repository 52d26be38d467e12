----------------------------- MODULE MCMonitor ------------------------------
(* Instances of Monitor for TLC: two producers and two consumers as in     *)
(* main, named by model values.                                            *)
EXTENDS Monitor

CONSTANTS p1, p2, c1, c2
MCProducers == {p1, p2}
MCConsumers == {c1, c2}
=============================================================================
