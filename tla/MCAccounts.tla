----------------------------- MODULE MCAccounts -----------------------------
(* Instances of Accounts for TLC.                                           *)
EXTENDS Accounts

\* Calls are interchangeable: they arrive in the order of their numbers.
InOrder ==
    \A c, d \in Calls : c < d /\ pc[d] # "idle" => pc[c] # "idle"

\* Tokens and passwords share nothing but the row they are looked up by: we
\* look at the behaviours with calls about one of the two.  Users have tokens
\* and passwords of their own, so these are all about one user; roles and new
\* accounts are about any.
Unmixed ==
    LET tokens == {c \in Calls : job[c].kind \in {"login", "refresh", "logout"}}
        rows == {c \in Calls : job[c].kind \in {"reset", "create", "update"}}
        one == CHOOSE u \in Users : TRUE
    IN /\ tokens = {} \/ rows = {}
       /\ \A c \in tokens \cup rows : job[c].kind # "create" => job[c].user = one

MCSpec ==
    /\ Init
    /\ [][Next /\ InOrder' /\ Unmixed']_vars
    /\ \A c \in Calls : WF_vars(Serve(c))
=============================================================================
