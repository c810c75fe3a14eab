--------------------------- MODULE MCCouponIssue ---------------------------
(* Instances of CouponIssue for TLC: requests are numbers, users and coupons *)
(* model values.                                                            *)
EXTENDS CouponIssueInvariant

\* Requests are interchangeable, and so are users: we look at the behaviours
\* in which they arrive in the order of their numbers and the first user makes
\* the first.  Only arrivals are held back, so what fairness asks
\* of the handlers is not.
InOrder ==
    \A r, q \in Requests : r < q /\ pc[q] # "idle" => pc[r] # "idle"

\* While limits stay put, one of the two endpoints refuses every call: two of
\* the calls go to the same endpoint, the third to any.
MCInit ==
    /\ Init
    /\ call[1].user = CHOOSE u \in Users : TRUE
    /\ call[2].kind = call[1].kind

\* Of the row, handlers read after their check only the limit and the count: what
\* else administrators and time change matters to who has not made it.
Settled ==
    /\ \A r \in Requests : pc[r] \notin {"idle", "called"}
    /\ \E r \in Requests : pc[r] # "done"

Flags(c) == <<coupon[c].active, coupon[c].open, coupon[c].deleted>>

MCNext ==
    /\ Next
    /\ InOrder'
    /\ Settled => \A c \in Coupons : Flags(c)' = Flags(c)
=============================================================================
