------------------------------ MODULE MCPosts ------------------------------
(* Instances of Posts for TLC.                                              *)
EXTENDS Posts

\* Calls are interchangeable, and so are users: calls arrive in the order of
\* their numbers, the first one creates the post (before that, all are answered
\* "notFound"), and the first like is the first user's.
InOrder ==
    /\ \A c, d \in Calls : c < d /\ Made(d) => Made(c)
    /\ Made(1) => job[1].kind = "create"
    /\ \A c \in Calls : job[c].kind = "like" =>
          \E d \in Calls : /\ d <= c /\ job[d].kind = "like"
                          /\ job[d].user = CHOOSE u \in Users : TRUE

MCSpec ==
    /\ Init
    /\ [][Next /\ InOrder']_vars
    /\ \A c \in Calls : WF_vars(Serve(c))
=============================================================================
