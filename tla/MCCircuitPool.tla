--------------------------- MODULE MCCircuitPool ---------------------------
(* Instances of CircuitPool for TLC.                                       *)
EXTENDS CircuitPool, TLC

(* Requests are interchangeable: no action or property names one.          *)
MCSymmetry == Permutations(Requests)
====
