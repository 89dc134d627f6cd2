------------------------------ MODULE MCPaths -----------------------------
(***************************************************************************)
(* Paths on four relays and three consensuses: a first one, one where an   *)
(* entry has become the exit and the client's broker is gone, and one that *)
(* has lost an entry, the exit and every broker.  The clocks of client and *)
(* broker are at the two ends of the window, less the 15s of a download.   *)
(***************************************************************************)
EXTENDS Paths

CONSTANTS e1, e2, m1, x1

RoleOf(entries, middles, exits) ==
    [r \in entries \cup middles \cup exits |->
        IF r \in entries THEN "entry" ELSE IF r \in middles THEN "middle" ELSE "exit"]

MCLists ==
    {[role |-> RoleOf({e1, e2}, {m1}, {x1}), broker |-> "ours"],
     [role |-> RoleOf({e2}, {m1}, {e1}), broker |-> "other"],
     [role |-> RoleOf({e2}, {m1}, {}), broker |-> "none"]}

MCRelays == {e1, e2, m1, x1}

MCSkew == [client |-> 585, broker |-> -60, volunteer |-> 0]
====
