------------------------- MODULE MCKindRendezvous -------------------------
(* Instances of KindRendezvous for TLC.                                    *)
EXTENDS KindRendezvous
====
