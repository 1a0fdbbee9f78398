--------------------------- MODULE WorkerAuthority ---------------------------
(***************************************************************************)
(* What the control plane promises about worker containers, without any of *)
(* the machinery (fences, commands, crashes) that implements it: a         *)
(* container exists only for an allocation that the database holds open,   *)
(* and an allocation is closed only when it has no container.              *)
(***************************************************************************)
CONSTANT Alloc          \* worker_allocations.id, never reused

VARIABLES row,          \* the allocation as SQLite records it
          present       \* the allocations that have a container

vars == <<row, present>>

RowState == {"absent", "active", "stopped"}

Init == /\ row = [a \in Alloc |-> "absent"]
        /\ present = {}

Open(a) == /\ row[a] = "absent"
           /\ row' = [row EXCEPT ![a] = "active"]
           /\ UNCHANGED present

Launch(a) == /\ row[a] = "active"
             /\ present' = present \cup {a}
             /\ UNCHANGED row

Remove(a) == /\ present' = present \ {a}
             /\ UNCHANGED row

Close(a) == /\ row[a] = "active"
            /\ a \notin present
            /\ row' = [row EXCEPT ![a] = "stopped"]
            /\ UNCHANGED present

\* An offline restore closes everything, and only when nothing runs.
CloseAll == /\ present = {}
            /\ row' = [a \in Alloc |-> IF row[a] = "absent" THEN "absent" ELSE "stopped"]
            /\ UNCHANGED present

Next == \/ \E a \in Alloc : Open(a) \/ Launch(a) \/ Remove(a) \/ Close(a)
        \/ CloseAll

Spec == Init /\ [][Next]_vars
==============================================================================
