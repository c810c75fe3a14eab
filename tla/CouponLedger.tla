---------------------------- MODULE CouponLedger ----------------------------
(***************************************************************************)
(* What issuing coupons promises, without transactions, locks or logs: a   *)
(* book of who holds which coupon.  A request is answered in one atomic    *)
(* step, and the answer is true of the book at that moment.                *)
(***************************************************************************)
EXTENDS Naturals, FiniteSets

CONSTANTS Requests, Users, Coupons, Totals, NoTotal

VARIABLES
    holders,  \* holders[c]: the users to whom coupon c was issued
    quota,    \* quota[c]: how many may hold it, or NoTotal
    asked,    \* asked[r]: the user and the coupon of request r
    outcome   \* outcome[r]: what became of request r

vars == <<holders, quota, asked, outcome>>

Outcomes == {"pending", "issued", "already", "soldOut", "unserved"}

Holds(r) == asked[r].user \in holders[asked[r].coupon]
Exhausted(c) ==
    quota[c] # NoTotal /\ Cardinality(holders[c]) >= quota[c]

Init ==
    /\ holders = [c \in Coupons |-> {}]
    /\ quota \in [Coupons -> Totals \cup {NoTotal}]
    /\ asked \in [Requests -> [user : Users, coupon : Coupons,
                               kind : {"general", "limited"}]]
    /\ outcome = [r \in Requests |-> "pending"]

\* One more holder, within the quota; the requester may fail to hear of it.
Issue(r) ==
    /\ outcome[r] = "pending"
    /\ ~Holds(r)
    /\ ~Exhausted(asked[r].coupon)
    /\ holders' = [holders EXCEPT ![asked[r].coupon] = @ \cup {asked[r].user}]
    /\ \E told \in {"issued", "unserved"} :
          outcome' = [outcome EXCEPT ![r] = told]
    /\ UNCHANGED <<quota, asked>>

Refuse(r) ==
    /\ outcome[r] = "pending"
    /\ \/ Holds(r) /\ outcome' = [outcome EXCEPT ![r] = "already"]
       \/ /\ Exhausted(asked[r].coupon)
          /\ outcome' = [outcome EXCEPT ![r] = "soldOut"]
    /\ UNCHANGED <<holders, quota, asked>>

\* Any number of requests end without having touched the book.
LeaveUnserved ==
    /\ \E R \in SUBSET {r \in Requests : outcome[r] = "pending"} :
          outcome' = [r \in Requests |->
                         IF r \in R THEN "unserved" ELSE outcome[r]]
    /\ UNCHANGED <<holders, quota, asked>>

Next == LeaveUnserved \/ \E r \in Requests : Issue(r) \/ Refuse(r)

Spec == Init /\ [][Next]_vars
=============================================================================
