--------------------------- MODULE ChatMembership ---------------------------
(***************************************************************************)
(* What the membership of a chat room promises: rows are created together  *)
(* with the room or, in a group room, by an invitation; a row is never     *)
(* removed; who leaves stays out.  All of it in single steps.              *)
(***************************************************************************)
CONSTANT Users

VARIABLES room, member

membershipVars == <<room, member>>

Create ==
    /\ room = "absent"
    /\ room' \in {"GROUP", "DM"}
    /\ \E S \in (SUBSET Users) \ {{}} :
          member' = [u \in Users |-> IF u \in S THEN "active" ELSE "none"]

Admit(S) ==
    /\ room = "GROUP"
    /\ S # {}
    /\ \A u \in S : member[u] = "none"
    /\ member' = [u \in Users |-> IF u \in S THEN "active" ELSE member[u]]
    /\ UNCHANGED room

Leave(u) ==
    /\ member[u] = "active"
    /\ member' = [member EXCEPT ![u] = "left"]
    /\ UNCHANGED room

Init ==
    /\ room = "absent"
    /\ member = [u \in Users |-> "none"]

Next ==
    \/ Create
    \/ \E S \in SUBSET Users : Admit(S)
    \/ \E u \in Users : Leave(u)

Spec == Init /\ [][Next]_membershipVars
=============================================================================
