------------------------ MODULE CouponIssueInvariant ------------------------
(* The inductive invariants behind the theorems about issuing coupons.      *)
EXTENDS CouponIssueRefinement

\* Who has incremented issuedCount is alone with the coupon row: the UPDATE
\* waited for every other inserter, and later inserts wait for the commit.
RowLockInv ==
    \A r, q \in Requests :
        r # q /\ Counted(r) /\ call[q].coupon = call[r].coupon
            => pc[q] \notin Inserted

\* An uncommitted coupon_issued row is the only one of its key.
KeyLockInv ==
    /\ \A r \in Requests : pc[r] \in Inserted => Key(r) \notin granted
    /\ \A r, q \in Requests :
          r # q /\ pc[r] \in Inserted /\ pc[q] \in Inserted => Key(r) # Key(q)

\* A request logs "issued" at most once, at its end, and not for another's key.
IssuedLogInv ==
    /\ \A r \in Requests : log[r].issued <= 1
    /\ \A r \in Requests : log[r].issued > 0 => pc[r] = "done" /\ Key(r) \in granted
    /\ \A r, q \in Requests :
          r # q /\ log[r].issued > 0 /\ log[q].issued > 0 => Key(r) # Key(q)
    /\ \A k \in granted : \E r \in Requests : Key(r) = k /\ log[r].issued > 0

\* Answers are given at the end, and 201 only by Commit.
AnswerInv ==
    \A r \in Requests :
        /\ pc[r] # "done" <=> resp[r] = "none"
        /\ resp[r] = "issued" => log[r].issued > 0

\* Sharing one row or key is decided by locks alone: this part needs no
\* assumption about administrators.
SharedInv ==
    /\ TypeOK /\ RowLockInv /\ KeyLockInv
    /\ IssuedLogInv /\ AnswerInv /\ CountMatchesRows

SoldOutPhases == {"exhausted", "soldout", "soldoutLogged", "soldoutRelogged"}

\* The checks made before the transaction stay true when limits are not edited.
KindInv ==
    \A r \in Requests : pc[r] \in InTx \cup {"checked"} =>
        IF call[r].kind = "general" THEN Row(r).total = NoTotal
                                    ELSE Row(r).total # NoTotal

\* An increment that is not committed yet has its unit of stock reserved, and
\* who is being told "sold out" is told so for good.
StockInv ==
    /\ \A r \in Requests :
          call[r].kind = "limited" /\ Counted(r) => HasStock(Row(r))
    /\ \A r \in Requests :
          pc[r] \in SoldOutPhases \/ resp[r] = "soldOut" =>
              Row(r).total # NoTotal /\ ~HasStock(Row(r))

\* Who is being told "already" is told so for good.
RepeatInv ==
    \A r \in Requests : pc[r] \in {"dup", "dupLogged"} => Key(r) \in granted

\* The log rows that a handler writes outside its transaction are there as
\* soon as it has passed them, and no others.
OutsideLog(r) ==
    /\ log[r].already = IF pc[r] = "dupLogged" THEN 1 ELSE 0
    /\ pc[r] = "soldoutRelogged" => log[r].soldout > 0
    /\ pc[r] \notin {"soldoutLogged", "soldoutRelogged"} => log[r].soldout = 0

OutsideLogInv == \A r \in Requests : pc[r] # "done" => OutsideLog(r)

EffectInv == SharedInv /\ RepeatInv /\ OutsideLogInv /\ AnswersMatchEffects

QuotaInv ==
    /\ SharedInv
    /\ KindInv /\ StockInv /\ RepeatInv
    /\ NoOverIssue
=============================================================================
