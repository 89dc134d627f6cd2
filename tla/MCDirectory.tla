---------------------------- MODULE MCDirectory ----------------------------
(* Instances of Directory for TLC.                                         *)
EXTENDS Directory, TLC

(* Every directory peers with every other.                                 *)
MCMesh == [d \in Dirs |-> Dirs \ {d}]

(* No action or property names a directory, an id or a content.            *)
MCSymmetry == Permutations(Dirs) \cup Permutations(Contents)
====
