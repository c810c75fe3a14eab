--------------------------- MODULE MCChatMessages ---------------------------
(* Instances of ChatMessages for TLC.                                       *)
EXTENDS ChatMessages, TLC

Symmetry == Permutations(Marks)

\* Paging and marking share the messages and nothing else: neither writes what
\* the other reads, and marks of different users touch different rows.  We look
\* at the behaviours that do one of the two; those that mark have one user, two
\* messages and a clock that stands still.
Unmixed ==
    \/ \A k \in Marks : At(k, "idle")
    \/ /\ \A s \in Sessions : session[s].phase = "idle"
       /\ \A m \in Ids : m > 2 => msg[m].state = "free"
       /\ clock = 0
       /\ \E u \in Users :
             /\ \A v \in Users \ {u} : member[v] = "none"
             /\ \A k \in Marks : At(k, "idle") \/ mark[k].user = u

MCSpec == Init /\ [][Next /\ Unmixed']_vars
=============================================================================
