---------------------------- MODULE LWWRegistry ----------------------------
(***************************************************************************)
(* What the directories promise together: each holds, for every relay and  *)
(* broker, at most one registration that some directory has accepted, and  *)
(* replaces it only by a strictly newer one (last writer wins); it forgets *)
(* its registrations only all together, when it restarts.                  *)
(***************************************************************************)
EXTENDS Integers

CONSTANTS Dirs, Ids, Contents, Stamps, None

Registrations == [dir : Dirs, id : Ids, content : Contents, LastSeen : Stamps]

VARIABLES registry, issued

Init ==
    /\ registry = [d \in Dirs |-> [id \in Ids |-> None]]
    /\ issued = {}

Supersedes(reg, held) == held = None \/ reg.LastSeen > held.LastSeen

Hold(d, reg) ==
    /\ Supersedes(reg, registry[d][reg.id])
    /\ registry' = [registry EXCEPT ![d][reg.id] = reg]

(* A directory accepts a registration of its own.                          *)
Accept(reg) == Hold(reg.dir, reg) /\ issued' = issued \cup {reg}

(* A directory learns of a registration that another has accepted.         *)
Learn(d, reg) == Hold(d, reg) /\ UNCHANGED issued

Forget(d) ==
    /\ registry' = [registry EXCEPT ![d] = [id \in Ids |-> None]]
    /\ UNCHANGED issued

Next ==
    \/ \E reg \in Registrations : Accept(reg)
    \/ \E d \in Dirs, reg \in issued : Learn(d, reg)
    \/ \E d \in Dirs : Forget(d)

Spec == Init /\ [][Next]_<<registry, issued>>
====
