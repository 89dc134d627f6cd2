----------------------------- MODULE MCStream -----------------------------
(* An instance of Stream for TLC.                                          *)
EXTENDS Stream

(* The largest request and chunk that fit under three layers, the first    *)
(* request that does not, and error bodies that overflow at the entry and  *)
(* at the exit.                                                            *)
MCRequestSizes == {421, 422}
MCChunkSizes == {421}
MCErrorSizes == {422, 478}
====
