---------------------------- MODULE MCChatGateway ----------------------------
(* Instances of ChatGateway for TLC.                                        *)
EXTENDS ChatGateway

\* Users 1 and 2, with a socket each, which has the user's number.
MCUserOf == [s \in Sockets |-> s]

Made(c) == pc[c] # "idle"

\* To begin with the room is created, with user 1 and maybe user 2, both
\* connect, socket 1 joins by call 1, and user 1 sends a message by call 2;
\* then everything may happen.
Done(c) == pc[c] = "done"

Beginning ==
    /\ room # "DM"
    /\ \A s \in Sockets : socket[s] # "new" => member[1] # "none"
    /\ socket[2] # "new" => socket[1] # "new"
    /\ ~Done(2) =>
        /\ \A u \in Users : member[u] # "left"
        /\ \A s \in Sockets : socket[s] \in {"new", "on"}
    /\ pc[1] # "idle" => job[1].kind = "join" /\ socket[2] # "new"
    /\ pc[2] # "idle" => job[2].kind = "send" /\ Done(1)
    /\ pc[3] # "idle" => Done(2)
    /\ \A c \in {1, 2} : job[c].socket = 1 /\ answer[c] \in {"none", "success"}

\* Calls are interchangeable and arrive in the order of their numbers.
InOrder == \A c, d \in Calls : c < d /\ pc[d] # "idle" => pc[c] # "idle"

MCSpec == Init /\ [][Next /\ InOrder' /\ Beginning']_vars
=============================================================================
