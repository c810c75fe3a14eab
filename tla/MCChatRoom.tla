----------------------------- MODULE MCChatRoom -----------------------------
(* Instances of ChatRoom for TLC: calls and users are numbers.              *)
EXTENDS ChatRoom

\* Calls are interchangeable, and so are users: we look at the behaviours in
\* which calls arrive in the order of their numbers and the room is created
\* with the users of the lowest numbers.  Only arrivals are held back, so
\* what fairness asks of the handlers is not.
InOrder ==
    \A c, d \in Calls : c < d /\ pc[d] # "idle" => pc[c] # "idle"

LowestFirst ==
    \A u, v \in Users : u < v /\ member[v] # "none" => member[u] # "none"

\* giveReadHistory decides isReadHistory alone, which has a run of its own.
NobodyGives == \A c \in Calls : ~job[c].give

MCSpec ==
    /\ Init
    /\ [][Next /\ InOrder' /\ NobodyGives' /\ (room = "absent" => LowestFirst')]_vars
    /\ \A c \in Calls : WF_vars(Serve(c))
=============================================================================
