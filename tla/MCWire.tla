------------------------------ MODULE MCWire ------------------------------
(* Wire with payloads at the edges of a cell, of a fragment and of the     *)
(* fragment index, which has 3 values here instead of 2^16; preambles at   *)
(* the edges of their length byte; cuts inside the length prefix, at its   *)
(* end and inside the header.                                              *)
EXTENDS Wire
====
