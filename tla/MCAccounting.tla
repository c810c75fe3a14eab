----------------------------- MODULE MCAccounting -----------------------------
(* Instances of Accounting for TLC.                                         *)
EXTENDS Accounting

\* A taxable sale and its correction, a taxable refund of an expense, a sale
\* without a category (for which there is no rule), and one without an amount.
Sale == [dated |-> TRUE, type |-> "SALE", amount |-> 115000, amountIncludesVat |-> TRUE,
         vatType |-> "gwase", category |-> "meal"]
Expense == [Sale EXCEPT !.type = "biyong", !.amount = 60050]
Refund == [Expense EXCEPT !.amount = -110000]
Unruled == [Sale EXCEPT !.type = "maechul", !.category = Nothing]
Unfinished == [Sale EXCEPT !.amount = Nothing]

MCVersions == {Sale, Expense, Refund, Unruled, Unfinished}

\* The first rule of sales is replaced by the second one.
MCRules == <<
    [type |-> "SALE", category |-> "meal", vatMode |-> "NONE",
     debitAccount |-> "cash", creditAccount |-> "sales"],
    [type |-> "EXPENSE", category |-> "meal", vatMode |-> "SPLIT",
     debitAccount |-> "costs", creditAccount |-> "cash"],
    [type |-> "SALE", category |-> "meal", vatMode |-> "SPLIT",
     debitAccount |-> "cash", creditAccount |-> "sales"]>>

\* Calls are interchangeable and arrive in the order of their numbers.
InOrder == \A c, d \in Calls : c < d /\ Made(d) => Made(c)

\* Either the first page has no rule until it is completed to a sale, and the
\* second one is an expense; or the first is a refund that may be removed, and
\* the second lacks its amount.  An earlier sync stored the first page, which
\* alone is edited.
MCInit ==
    /\ Init
    /\ notion \in {<<<<Unruled>>, <<Expense>>>>, <<<<Refund>>, <<Unfinished>>>>}
    /\ tx[1] # Nothing /\ tx[2] = Nothing

MCNext ==
    /\ Next
    /\ InOrder'
    /\ notion'[1] # notion[1] =>
          Current(1)' = IF Current(1) = Unruled THEN Sale ELSE Nothing
    /\ notion'[2] = notion[2]

MCSpec == MCInit /\ [][MCNext]_vars /\ \A c \in Calls : WF_vars(Serve(c))
=============================================================================
