----------------------- MODULE CouponIssueRefinement -----------------------
(* The issue handlers implement the ledger: the holders of a coupon are its *)
(* committed coupon_issued rows, and an answer counts when it is given.     *)
EXTENDS CouponIssue

HoldersOf(c) == {u \in Users : <<u, c>> \in granted}

OutcomeOf(r) ==
    CASE resp[r] = "none" -> "pending"
      [] resp[r] \in {"issued", "already", "soldOut"} -> resp[r]
      [] OTHER -> "unserved"

Ledger == INSTANCE CouponLedger WITH
    holders <- [c \in Coupons |-> HoldersOf(c)],
    quota <- [c \in Coupons |-> coupon[c].total],
    asked <- call,
    outcome <- [r \in Requests |-> OutcomeOf(r)]

\* Every behaviour of the handlers, failures and crashes included, is one of
\* the ledger: a grant enters the book in a single step within the quota, a
\* refusal is true of the book, and everything else leaves it alone.
ImplementsLedger == Ledger!Spec
=============================================================================
