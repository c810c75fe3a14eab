--------------------------- MODULE MCCouponCatalog ---------------------------
(* Instances of CouponCatalog for TLC.                                      *)
EXTENDS CouponCatalog

MCTTL == <<1, 2>>

\* Calls are interchangeable and arrive in the order of their numbers.
Made(c) == stage[c] # "idle"
CatalogInOrder == \A c, d \in Calls : c < d /\ Made(d) => Made(c)

Lists == {c \in Calls : job[c].kind = "list"}

\* Either coupons are created, edited and deleted, starting from none, and
\* nobody looks; two of the codes are asked for, the others only generated.
CONSTANT Asked
Catalog ==
    /\ Lists = {} /\ clock = 1
    /\ \A i \in Ids : Now.issued[i] = 0
    /\ \A c \in Calls : job[c].asked \in Asked \cup {NoCode}

\* Or there are two, which the user lists twice, in pages, while getting the
\* second one, or having both while the first is renamed or deleted.  Only the
\* last step of that call shows: its steps are taken in one go.
Editing(c) == job[c].kind \in {"update", "delete"} /\ stage[c] # "done"
Listing ==
    /\ Cardinality({c \in Calls : Made(c)} \ Lists) <= tables[1].issued[2]
    /\ Cardinality(Lists) <= 2
    /\ \A c \in Calls :
        /\ job[c].kind # "create" /\ job[c].id \in {0, 1}
        /\ job[c].kind = "update" /\ answer[c] # "failed" =>
              job[c].asked \notin Asked \cup {NoCode}

\* A call that fails shows nothing, and leaves nothing in the tables that one
\* that is answered does not leave.
Failing == \E c \in Calls : answer[c] # "failed" /\ answer'[c] = "failed" /\ cache' = cache

MCCatalogInit ==
    \/ CatalogInit
    \/ \E v, w \in Asked :
        /\ v # w /\ v = CHOOSE code \in Asked : TRUE
        /\ \E second \in {0, 1} :
              tables = <<[code |-> <<v, w, NoCode>>, deleted |-> {},
                          issued |-> <<1, second, 0>>, at |-> 1]>>
        /\ cache = [p \in Pages |-> [list |-> NoList, until |-> 0]]
        /\ clock = 1
        /\ stage = [c \in Calls |-> "idle"]
        /\ job = [c \in Calls |-> NoJob]
        /\ answer = [c \in Calls |-> "none"]

MCCatalogNext ==
    /\ CatalogNext
    /\ CatalogInOrder'
    /\ IF Rows(tables[1]) = {} THEN Catalog'
       ELSE Listing' /\ ~Failing /\ \A c \in Calls : Editing(c) => stage'[c] # stage[c]
=============================================================================
