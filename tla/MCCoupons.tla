----------------------------- MODULE MCCoupons -----------------------------
(* CouponIssue and CouponCatalog for TLC.  They share no variable, so that   *)
(* each is looked at in the behaviours in which the other stands still.      *)
EXTENDS MCCouponIssue, MCCouponCatalog

VARIABLE part   \* which of the two has the behaviour

\* One of the initial states of CouponIssue, which it keeps.
IssueStill ==
    /\ Init
    /\ \A c \in Coupons : coupon[c].active /\ coupon[c].open /\ ~coupon[c].limited
    /\ \A c \in Coupons : coupon[c].total = NoTotal
    /\ \A r \in Requests : call[r].kind = "general" /\ call[r] = call[1]
    /\ call[1].user = CHOOSE u \in Users : TRUE

CouponsInit ==
    \/ part = "issue" /\ MCInit /\ CatalogInit
    \/ part = "catalog" /\ MCCatalogInit /\ IssueStill

IssueStep == part = "issue" /\ MCNext /\ UNCHANGED catalogVars
CatalogStep == part = "catalog" /\ MCCatalogNext /\ UNCHANGED vars

CouponsSpec ==
    /\ CouponsInit
    /\ [][(IssueStep \/ CatalogStep) /\ UNCHANGED part]_<<vars, catalogVars, part>>
    /\ \A r \in Requests : WF_vars(Serve(r))
=============================================================================
