------------------------------ MODULE Tunnel ------------------------------
(***************************************************************************)
(* What one direction of a relayed connection promises: the cells that     *)
(* come out are those that went in, each once and in order.  The tunnel    *)
(* may stop at any point, and then the rest is never delivered; it makes   *)
(* up, repeats, reorders and skips nothing.                                *)
(***************************************************************************)
EXTENDS Naturals, Sequences

VARIABLES
    sent,   \* cells that went in
    got     \* cells that came out

vars == <<sent, got>>

Init == sent = <<>> /\ got = <<>>

Send ==
    /\ Len(sent') = Len(sent) + 1
    /\ \A i \in 1..Len(sent) : sent'[i] = sent[i]
    /\ UNCHANGED got

Deliver ==
    /\ Len(got) < Len(sent)
    /\ got' = Append(got, sent[Len(got) + 1])
    /\ UNCHANGED sent

Spec == Init /\ [][Send \/ Deliver]_vars
====
