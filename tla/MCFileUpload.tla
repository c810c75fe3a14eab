---------------------------- MODULE MCFileUpload ----------------------------
(* Instances of FileUpload for TLC.                                         *)
EXTENDS FileUpload

CONSTANT MaxInFlight   \* bound on the files of all calls together

\* Calls are interchangeable: they arrive in the order of their numbers.
InOrder ==
    \A c, d \in Calls : c < d /\ pc[d] # "idle" => pc[c] # "idle"

\* So are the keys, and the files of one call: those with the first key come
\* first, and the first call has one.
KeysInOrder ==
    LET first == CHOOSE k \in Keys : TRUE IN
    /\ \A c \in Calls : \A i, j \in FilesOf(c) :
          i < j /\ file[c][j].key = first => file[c][i].key = first
    /\ file[1] # <<>> => file[1][1].key = first

FewFiles ==
    Cardinality(UNION {{<<c, i>> : i \in FilesOf(c)} : c \in Calls}) <= MaxInFlight

\* Of all PUTs and DELETEs, at most two are sent again.
FewRetries ==
    Cardinality({<<c, i, what>> \in Calls \X (1 .. MaxFiles) \X {"PUT", "DELETE"} :
        /\ i \in FilesOf(c)
        /\ (IF what = "PUT" THEN file[c][i].puts ELSE file[c][i].deletes) > 1}) <= 2

MCSpec ==
    /\ Init
    /\ [][Next /\ InOrder' /\ KeysInOrder' /\ FewFiles' /\ FewRetries']_vars
    /\ \A c \in Calls : WF_vars(Settle(c))
=============================================================================
