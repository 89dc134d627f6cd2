----------------------------- MODULE MCBridge -----------------------------
(* Bridge with few cells and buffers of one cell, so that every write can  *)
(* block.                                                                  *)
EXTENDS Bridge
====
