---------------------------- MODULE CouponProofs ----------------------------
(***************************************************************************)
(* Theorems about issuing coupons, for any number of requests, users,      *)
(* coupons and connections, and about the catalog of coupons and the lists *)
(* of a user, for any number of coupons, codes, pages and calls.           *)
(***************************************************************************)
EXTENDS CouponIssueInvariant, CouponCatalog, FiniteSetTheorems, TLAPS

\* The phases are strings; the provers need to see which.
USE DEF Phases, InTx, Inserted

\* The empty tables are well typed.
LEMMA TypeInit == Init => TypeOK
<1> SUFFICES ASSUME Init PROVE TypeOK
  OBVIOUS
<1>1. coupon \in [Coupons -> CouponRow]
  <2>1. [active : BOOLEAN, open : BOOLEAN, deleted : {FALSE},
         limited : BOOLEAN, total : Totals \cup {NoTotal},
         issued : {0}] \subseteq CouponRow
    <3>1. {FALSE} \subseteq BOOLEAN
      BY Zenon
    <3>2. {0} \subseteq Nat
      OBVIOUS
    <3>3. QED
      BY <3>1, <3>2, Zenon DEF CouponRow
  <2>2. QED
    BY <2>1 DEF Init
<1>2. log \in [Requests -> LogCounts]
  BY DEF Init, LogCounts
<1>3. QED
  BY <1>1, <1>2 DEF Init, TypeOK, Answers

\* Every step keeps every table and every handler well typed.
LEMMA TypeStep == TypeOK /\ [Next]_vars => TypeOK'
<1> SUFFICES ASSUME TypeOK, [Next]_vars PROVE TypeOK'
  OBVIOUS
<1> USE DEF TypeOK, Finish, Goto
<1>1. ASSUME NEW r \in Requests, Arrive(r) PROVE TypeOK'
  BY <1>1 DEF Arrive
<1>2. ASSUME NEW r \in Requests, FindCoupon(r) PROVE TypeOK'
  <2>1. pc' \in [Requests -> Phases] /\ resp' \in [Requests -> Answers]
    BY <1>2 DEF FindCoupon, Answers
  <2>2. QED
    BY <1>2, <2>1 DEF FindCoupon
<1>3. ASSUME NEW r \in Requests, Begin(r) PROVE TypeOK'
  BY <1>3 DEF Begin
<1>4. ASSUME NEW r \in Requests, InsertIssued(r) PROVE TypeOK'
  BY <1>4 DEF InsertIssued
<1>5. ASSUME NEW r \in Requests, Count(r) PROVE TypeOK'
  BY <1>5 DEF Count
<1>6. ASSUME NEW r \in Requests, LogIssued(r) PROVE TypeOK'
  BY <1>6 DEF LogIssued
<1>7. ASSUME NEW r \in Requests, Publish(r)
      PROVE /\ coupon' \in [Coupons -> CouponRow]
            /\ granted' \subseteq Users \X Coupons
            /\ log' \in [Requests -> LogCounts]
  <2>1. call[r].user \in Users /\ call[r].coupon \in Coupons
    BY DEF Arguments
  <2>2. coupon' \in [Coupons -> CouponRow]
    BY <1>7, <2>1 DEF Publish, CouponRow
  <2>3. granted' \subseteq Users \X Coupons
    BY <1>7, <2>1 DEF Publish, Key
  <2>4. log' \in [Requests -> LogCounts]
    BY <1>7 DEF Publish, AddLog, LogCounts
  <2>5. QED
    BY <2>2, <2>3, <2>4
<1>8. ASSUME NEW r \in Requests, Commit(r) PROVE TypeOK'
  BY <1>7, <1>8 DEF Commit, Answers
<1>9. ASSUME NEW r \in Requests, LogAlready(r) PROVE TypeOK'
  BY <1>9 DEF LogAlready, AddLog, LogCounts
<1>23. ASSUME NEW r \in Requests, NEW action \in {"already", "soldout"},
              AddLog(r, action)
       PROVE  log' \in [Requests -> LogCounts]
  BY <1>23 DEF AddLog, LogCounts
<1>10. ASSUME NEW r \in Requests, LogSoldOut(r) PROVE TypeOK'
  BY <1>10, <1>23 DEF LogSoldOut
<1>11. ASSUME NEW r \in Requests, Rollback(r) PROVE TypeOK'
  BY <1>11 DEF Rollback, Answers
<1>12. ASSUME NEW r \in Requests, DeadlockVictim(r) PROVE TypeOK'
  BY <1>12 DEF DeadlockVictim, Answers
<1>13. ASSUME NEW r \in Requests, DbError(r) PROVE TypeOK'
  BY <1>13 DEF DbError, Answers
<1>14. ASSUME NEW r \in Requests, CommitUnacknowledged(r) PROVE TypeOK'
  BY <1>7, <1>14 DEF CommitUnacknowledged, Answers
<1>21. ASSUME NEW r \in Requests, DeleteIssued(r) PROVE TypeOK'
  BY <1>21 DEF DeleteIssued
<1>22. ASSUME NEW r \in Requests, LogUnacknowledged(r) PROVE TypeOK'
  <2>1. log' \in [Requests -> LogCounts]
    BY <1>22, <1>23 DEF LogUnacknowledged
  <2>2. QED
    BY <1>22, <2>1 DEF LogUnacknowledged, Answers
<1>15. ASSUME Crash PROVE TypeOK'
  BY <1>15 DEF Crash, Answers
<1>16. ASSUME NEW c \in Coupons, AdminUpdate(c) PROVE TypeOK'
  <2>1. PICK a \in BOOLEAN, l \in BOOLEAN, t \in Totals \cup {NoTotal} :
           coupon' = [coupon EXCEPT ![c].active = a, ![c].limited = l,
                                    ![c].total = t]
    BY <1>16 DEF AdminUpdate
  <2>2. coupon' = [coupon EXCEPT ![c] =
                     [coupon[c] EXCEPT !.active = a, !.limited = l,
                                       !.total = t]]
    BY <2>1
  <2>3. [coupon[c] EXCEPT !.active = a, !.limited = l, !.total = t]
           \in CouponRow
    BY DEF CouponRow
  <2>4. QED
    BY <1>16, <2>2, <2>3 DEF AdminUpdate
<1>17. ASSUME NEW c \in Coupons, AdminDelete(c) PROVE TypeOK'
  BY <1>17 DEF AdminDelete, CouponRow
<1>18. ASSUME NEW c \in Coupons, PeriodTurns(c) PROVE TypeOK'
  BY <1>18 DEF PeriodTurns, CouponRow
<1>19. CASE UNCHANGED vars
  BY <1>19 DEF vars
<1>20. QED
  BY <1>1, <1>2, <1>3, <1>4, <1>5, <1>6, <1>8, <1>9, <1>10, <1>11, <1>12,
     <1>13, <1>14, <1>15, <1>16, <1>17, <1>18, <1>19, <1>21, <1>22
     DEF Next, Serve, Fail

\* Type correctness: every reachable state of the issue handlers, failures
\* included, is well typed; issuedCount is always a natural number.
THEOREM TypeCorrect == Spec => []TypeOK
  BY TypeInit, TypeStep, PTL DEF Spec

-----------------------------------------------------------------------------
(* Locks, counts and the audit log, whatever administrators do.            *)

\* A step of one handler that commits nothing and takes no lock keeps the
\* invariant; answers are looked at apart.
LEMMA QuietStep ==
    ASSUME SharedInv, TypeOK', NEW r \in Requests, NEW phase \in Phases,
           pc[r] # "done",
           pc' = [pc EXCEPT ![r] = phase],
           phase \in Inserted => pc[r] \in Inserted,
           phase \in {"counted", "ready"} => Counted(r),
           UNCHANGED <<coupon, granted, call>>,
           \A q \in Requests : log'[q].issued = log[q].issued,
           AnswerInv'
    PROVE  SharedInv'
<1> USE DEF SharedInv, TypeOK
<1>1. \A q \in Requests : pc'[q] = IF q = r THEN phase ELSE pc[q]
  OBVIOUS
<1>2. \A q \in Requests : Key(q)' = Key(q)
  BY DEF Key
<1>3. \A q \in Requests : Counted(q)' => Counted(q)
  BY <1>1 DEF Counted
<1>4. \A q \in Requests : pc'[q] \in Inserted => pc[q] \in Inserted
  BY <1>1
<1>5. RowLockInv'
  BY <1>3, <1>4 DEF RowLockInv
<1>6. KeyLockInv'
  BY <1>2, <1>4 DEF KeyLockInv
<1>7. IssuedLogInv'
  <2>1. \A q \in Requests : log'[q].issued > 0 => pc'[q] = "done"
    BY <1>1 DEF IssuedLogInv
  <2>2. QED
    BY <1>2, <2>1 DEF IssuedLogInv
<1>8. CountMatchesRows'
  BY DEF CountMatchesRows
<1>9. QED
  BY <1>5, <1>6, <1>7, <1>8

\* Publishing a grant whose key nobody holds adds one row and one to the count.
LEMMA PublishCounts ==
    ASSUME TypeOK, CountMatchesRows, NEW r \in Requests, Publish(r),
           Key(r) \notin granted
    PROVE  CountMatchesRows'
<1> DEFINE H(c) == {u \in Users : <<u, c>> \in granted}
           u0 == call[r].user
           c0 == call[r].coupon
<1>1. u0 \in Users /\ c0 \in Coupons
  BY DEF TypeOK, Arguments
<1> SUFFICES ASSUME NEW c \in Coupons
             PROVE  coupon'[c].issued = Cardinality(H(c)')
  BY DEF CountMatchesRows
<1>2. coupon[c].issued = Cardinality(H(c)) /\ IsFiniteSet(H(c))
  BY FiniteUsers, FS_Subset DEF CountMatchesRows
<1>3. CASE c = c0
  <2>1. H(c)' = H(c) \cup {u0}
    BY <1>1, <1>3 DEF Publish, Key
  <2>2. u0 \notin H(c)
    BY <1>3 DEF Key
  <2>3. Cardinality(H(c) \cup {u0}) = Cardinality(H(c)) + 1
    BY <1>2, <2>2, FS_AddElement
  <2>4. coupon'[c].issued = coupon[c].issued + 1
    BY <1>3 DEF Publish, TypeOK, CouponRow
  <2>5. QED
    BY <1>2, <2>1, <2>3, <2>4
<1>4. CASE c # c0
  <2>1. H(c)' = H(c)
    BY <1>4 DEF Publish, Key
  <2>2. coupon'[c] = coupon[c]
    BY <1>1, <1>4 DEF Publish, TypeOK
  <2>3. QED
    BY <1>2, <2>1, <2>2
<1>5. QED
  BY <1>3, <1>4

\* A commit, acknowledged or not, turns the only uncommitted row of its key
\* into the only committed one.
LEMMA PublishStep ==
    ASSUME SharedInv, TypeOK', NEW r \in Requests, pc[r] = "ready",
           Publish(r), pc' = [pc EXCEPT ![r] = "done"], UNCHANGED call,
           AnswerInv'
    PROVE  SharedInv'
<1> USE DEF SharedInv, TypeOK
<1>1. \A q \in Requests : pc'[q] = IF q = r THEN "done" ELSE pc[q]
  OBVIOUS
<1>2. \A q \in Requests : Key(q)' = Key(q)
  BY DEF Key
<1>3. granted' = granted \cup {Key(r)} /\ Key(r) \notin granted
  BY DEF Publish, KeyLockInv
<1>4. \A q \in Requests :
         log'[q].issued = IF q = r THEN log[q].issued + 1 ELSE log[q].issued
  BY DEF Publish, AddLog, LogCounts
<1>5. log[r].issued = 0
  BY DEF IssuedLogInv, LogCounts
<1>6. RowLockInv'
  BY <1>1 DEF RowLockInv, Counted
<1>7. KeyLockInv'
  BY <1>1, <1>2, <1>3 DEF KeyLockInv
<1>8. IssuedLogInv'
  <2>1. \A q \in Requests : log[q].issued > 0 => Key(q) # Key(r)
    BY <1>3 DEF IssuedLogInv
  <2>2. \A q \in Requests : log'[q].issued > 0 =>
           pc'[q] = "done" /\ Key(q)' \in granted'
    BY <1>1, <1>2, <1>3, <1>4 DEF IssuedLogInv
  <2>3. \A q \in Requests : log'[q].issued <= 1
    BY <1>4, <1>5 DEF IssuedLogInv
  <2>4. \A p, q \in Requests :
           p # q /\ log'[p].issued > 0 /\ log'[q].issued > 0
             => Key(p)' # Key(q)'
    BY <1>2, <1>4, <2>1 DEF IssuedLogInv
  <2>5. \A k \in granted' : \E q \in Requests :
           Key(q)' = k /\ log'[q].issued > 0
    <3> SUFFICES ASSUME NEW k \in granted'
                 PROVE  \E q \in Requests : Key(q)' = k /\ log'[q].issued > 0
      OBVIOUS
    <3>1. CASE k = Key(r)
      BY <3>1, <1>2, <1>4, <1>5
    <3>2. CASE k \in granted
      <4>1. PICK q \in Requests : Key(q) = k /\ log[q].issued > 0
        BY <3>2 DEF IssuedLogInv
      <4>2. log'[q].issued > 0
        BY <4>1, <1>4, <1>5
      <4>3. QED
        BY <4>1, <4>2, <1>2
    <3>3. QED
      BY <1>3, <3>1, <3>2
  <2>6. QED
    BY <2>2, <2>3, <2>4, <2>5 DEF IssuedLogInv
<1>9. CountMatchesRows'
  BY <1>3, PublishCounts
<1>10. QED
  BY <1>6, <1>7, <1>8, <1>9

\* Writing the own row takes the key, which nobody else has, and shares the
\* coupon row, which nobody holds exclusively.
LEMMA InsertStep ==
    ASSUME SharedInv, TypeOK', NEW r \in Requests, InsertIssued(r), AnswerInv'
    PROVE  SharedInv'
<1> USE DEF SharedInv, TypeOK
<1>1. CASE Key(r) \in granted /\ Goto(r, "dup")
  BY <1>1, QuietStep DEF InsertIssued, Goto
<1>2. CASE /\ Key(r) \notin granted
           /\ ~ExclusivelyLocked(call[r].coupon)
           /\ Goto(r, "inserted")
  <2>1. \A q \in Requests : pc'[q] = IF q = r THEN "inserted" ELSE pc[q]
    BY <1>2 DEF Goto
  <2>2. \A q \in Requests : Key(q)' = Key(q)
    BY DEF InsertIssued, Key
  <2>3. UNCHANGED <<coupon, granted, log, call>>
    BY DEF InsertIssued
  <2>4. RowLockInv'
    BY <1>2, <2>1, <2>3 DEF RowLockInv, Counted, ExclusivelyLocked
  <2>5. KeyLockInv'
    BY <1>2, <2>1, <2>2, <2>3 DEF KeyLockInv, InsertIssued, KeyLocked
  <2>6. IssuedLogInv'
    BY <2>1, <2>2, <2>3 DEF IssuedLogInv, InsertIssued
  <2>7. CountMatchesRows'
    BY <2>3 DEF CountMatchesRows
  <2>8. QED
    BY <2>4, <2>5, <2>6, <2>7
<1>3. QED
  BY <1>1, <1>2 DEF InsertIssued

\* The UPDATE of issuedCount is made by the only inserter of that coupon.
LEMMA CountStep ==
    ASSUME SharedInv, TypeOK', NEW r \in Requests, Count(r), AnswerInv'
    PROVE  SharedInv'
<1> USE DEF SharedInv, TypeOK
<1>1. PICK phase \in {"ready", "counted", "exhausted"} : Goto(r, phase)
  BY DEF Count
<1>2. \A q \in Requests : pc'[q] = IF q = r THEN phase ELSE pc[q]
  BY <1>1 DEF Goto
<1>3. pc[r] \in Inserted /\ ~SharedByOthers(r)
  BY DEF Count, AtCount
<1>4. UNCHANGED <<coupon, granted, log, call>>
  BY DEF Count
<1>5. \A q \in Requests : Key(q)' = Key(q)
  BY <1>4 DEF Key
<1>6. RowLockInv'
  BY <1>2, <1>3, <1>4 DEF RowLockInv, Counted, SharedByOthers
<1>7. KeyLockInv'
  BY <1>2, <1>3, <1>4, <1>5 DEF KeyLockInv
<1>8. IssuedLogInv'
  BY <1>2, <1>3, <1>4, <1>5 DEF IssuedLogInv
<1>9. CountMatchesRows'
  BY <1>4 DEF CountMatchesRows
<1>10. QED
  BY <1>6, <1>7, <1>8, <1>9

\* A crash only takes handlers out of their transactions.
LEMMA CrashStep ==
    ASSUME SharedInv, TypeOK', Crash, AnswerInv'
    PROVE  SharedInv'
<1> USE DEF SharedInv, TypeOK
<1>1. \A q \in Requests : pc'[q] = IF pc[q] = "idle" THEN "idle" ELSE "done"
  BY DEF Crash
<1>2. UNCHANGED <<coupon, granted, log, call>>
  BY DEF Crash
<1>3. \A q \in Requests : Key(q)' = Key(q)
  BY <1>2 DEF Key
<1>4. RowLockInv' /\ KeyLockInv'
  BY <1>1 DEF RowLockInv, KeyLockInv, Counted
<1>5. IssuedLogInv'
  BY <1>1, <1>2, <1>3 DEF IssuedLogInv
<1>6. CountMatchesRows'
  BY <1>2 DEF CountMatchesRows
<1>7. QED
  BY <1>4, <1>5, <1>6

\* Administrators never write issuedCount or coupon_issued.
LEMMA AdminStep ==
    ASSUME SharedInv, TypeOK', UNCHANGED <<granted, log, call, pc, resp>>,
           \A c \in Coupons : coupon'[c].issued = coupon[c].issued
    PROVE  SharedInv'
<1> USE DEF SharedInv, TypeOK
<1>1. \A q \in Requests : Key(q)' = Key(q)
  BY DEF Key
<1>2. RowLockInv' /\ KeyLockInv'
  BY <1>1 DEF RowLockInv, KeyLockInv, Counted
<1>3. IssuedLogInv' /\ AnswerInv'
  BY <1>1 DEF IssuedLogInv, AnswerInv
<1>4. CountMatchesRows'
  BY DEF CountMatchesRows
<1>5. QED
  BY <1>2, <1>3, <1>4

\* Every action answers exactly when it ends the handler.
LEMMA AnswerStep ==
    ASSUME TypeOK, TypeOK', AnswerInv, [Next]_vars PROVE AnswerInv'
<1> USE DEF TypeOK, AnswerInv, Finish, Goto
<1>1. ASSUME NEW r \in Requests, NEW phase \in Phases \ {"done"}, pc[r] # "done",
             Goto(r, phase), \A q \in Requests : log'[q].issued = log[q].issued
      PROVE  AnswerInv'
  BY <1>1
<1>2. ASSUME NEW r \in Requests, NEW given \in Answers \ {"none", "issued"},
             pc[r] # "done", Finish(r, given),
             \A q \in Requests : log'[q].issued >= log[q].issued
      PROVE  AnswerInv'
  BY <1>2 DEF LogCounts
<1>3. ASSUME NEW r \in Requests, Publish(r)
      PROVE  /\ log'[r].issued = log[r].issued + 1
             /\ \A q \in Requests : log'[q].issued >= log[q].issued
  BY <1>3 DEF Publish, AddLog, LogCounts
<1>4. ASSUME NEW r \in Requests, Arrive(r) PROVE AnswerInv'
  BY <1>1, <1>4 DEF Arrive
<1>5. ASSUME NEW r \in Requests, FindCoupon(r) PROVE AnswerInv'
  <2>1. \/ Goto(r, "checked")
        \/ \E a \in Answers \ {"none", "issued"} : Finish(r, a)
    BY <1>5 DEF FindCoupon, Answers
  <2>2. pc[r] # "done" /\ log' = log
    BY <1>5 DEF FindCoupon
  <2>3. QED
    BY <1>1, <1>2, <2>1, <2>2 DEF LogCounts
<1>6. ASSUME NEW r \in Requests, Begin(r) PROVE AnswerInv'
  BY <1>1, <1>6 DEF Begin
<1>7. ASSUME NEW r \in Requests, InsertIssued(r) PROVE AnswerInv'
  BY <1>1, <1>7 DEF InsertIssued
<1>8. ASSUME NEW r \in Requests, Count(r) PROVE AnswerInv'
  <2>1. \E phase \in {"ready", "counted", "exhausted"} : Goto(r, phase)
    BY <1>8 DEF Count
  <2>2. pc[r] # "done" /\ log' = log
    BY <1>8 DEF Count, AtCount
  <2>3. QED
    BY <1>1, <2>1, <2>2
<1>9. ASSUME NEW r \in Requests, LogIssued(r) PROVE AnswerInv'
  <2>1. pc[r] # "done" /\ log' = log
    BY <1>9 DEF LogIssued, AtIssuedLog
  <2>2. QED
    BY <1>1, <1>9, <2>1 DEF LogIssued
<1>10. ASSUME NEW r \in Requests, Commit(r) PROVE AnswerInv'
  BY <1>3, <1>10 DEF Commit, LogCounts
<1>11. ASSUME NEW r \in Requests, LogAlready(r) PROVE AnswerInv'
  BY <1>1, <1>11 DEF LogAlready, AddLog, LogCounts
<1>12. ASSUME NEW r \in Requests, LogSoldOut(r) PROVE AnswerInv'
  <2>1. \A q \in Requests : log'[q].issued = log[q].issued
    BY <1>12 DEF LogSoldOut, AddLog, LogCounts
  <2>2. QED
    BY <1>1, <1>12, <2>1 DEF LogSoldOut
<1>13. ASSUME NEW r \in Requests, Rollback(r) PROVE AnswerInv'
  BY <1>2, <1>13 DEF Rollback, Answers, LogCounts
<1>14. ASSUME NEW r \in Requests, DeadlockVictim(r) PROVE AnswerInv'
  <2>1. pc[r] # "done"
    BY <1>14 DEF DeadlockVictim, AtCount
  <2>2. QED
    BY <1>2, <1>14, <2>1 DEF DeadlockVictim, Answers, LogCounts
<1>15. ASSUME NEW r \in Requests, DbError(r) PROVE AnswerInv'
  BY <1>2, <1>15 DEF DbError, Answers, LogCounts
<1>16. ASSUME NEW r \in Requests, CommitUnacknowledged(r) PROVE AnswerInv'
  BY <1>2, <1>3, <1>16 DEF CommitUnacknowledged, Answers
<1>20. ASSUME NEW r \in Requests, DeleteIssued(r) PROVE AnswerInv'
  BY <1>1, <1>20 DEF DeleteIssued
<1>21. ASSUME NEW r \in Requests, LogUnacknowledged(r) PROVE AnswerInv'
  <2>1. \A q \in Requests : log'[q].issued >= log[q].issued
    BY <1>21 DEF LogUnacknowledged, AddLog, LogCounts
  <2>2. QED
    BY <1>2, <1>21, <2>1 DEF LogUnacknowledged, Answers
<1>17. ASSUME Crash PROVE AnswerInv'
  BY <1>17 DEF Crash
<1>18. ASSUME UNCHANGED <<log, pc, resp>> PROVE AnswerInv'
  BY <1>18
<1>19. QED
  BY <1>4, <1>5, <1>6, <1>7, <1>8, <1>9, <1>10, <1>11, <1>12, <1>13, <1>14,
     <1>15, <1>16, <1>17, <1>18, <1>20, <1>21
     DEF Next, Serve, Fail, AdminUpdate, AdminDelete, PeriodTurns, vars

\* The invariant of locks, counts and the audit log is inductive.
LEMMA SharedStep == SharedInv /\ [Next]_vars => SharedInv'
<1> SUFFICES ASSUME SharedInv, [Next]_vars PROVE SharedInv'
  OBVIOUS
<1>1. TypeOK /\ TypeOK' /\ AnswerInv'
  BY TypeStep, AnswerStep DEF SharedInv
<1> USE <1>1 DEF Finish, Goto
<1>2. ASSUME NEW r \in Requests, Arrive(r) PROVE SharedInv'
  BY <1>2, QuietStep DEF Arrive
<1>3. ASSUME NEW r \in Requests, FindCoupon(r) PROVE SharedInv'
  <2>1. \E phase \in {"checked", "done"} : pc' = [pc EXCEPT ![r] = phase]
    BY <1>3 DEF FindCoupon
  <2>2. pc[r] = "called" /\ UNCHANGED <<coupon, granted, log, call>>
    BY <1>3 DEF FindCoupon
  <2>3. QED
    BY <2>1, <2>2, QuietStep
<1>4. ASSUME NEW r \in Requests, Begin(r) PROVE SharedInv'
  BY <1>4, QuietStep DEF Begin
<1>5. ASSUME NEW r \in Requests, InsertIssued(r) PROVE SharedInv'
  BY <1>5, InsertStep
<1>6. ASSUME NEW r \in Requests, Count(r) PROVE SharedInv'
  BY <1>6, CountStep
<1>7. ASSUME NEW r \in Requests, LogIssued(r) PROVE SharedInv'
  <2>1. PICK phase \in {"logged", "ready"} :
           /\ pc' = [pc EXCEPT ![r] = phase]
           /\ phase = "ready" => pc[r] = "counted"
    BY <1>7 DEF LogIssued, AtIssuedLog
  <2>2. pc[r] \in Inserted /\ UNCHANGED <<coupon, granted, log, call>>
    BY <1>7 DEF LogIssued, AtIssuedLog
  <2>3. QED
    BY <2>1, <2>2, QuietStep DEF Counted
<1>8. ASSUME NEW r \in Requests, Commit(r) PROVE SharedInv'
  BY <1>8, PublishStep DEF Commit
<1>9. ASSUME NEW r \in Requests, LogAlready(r) PROVE SharedInv'
  <2>1. \A q \in Requests : log'[q].issued = log[q].issued
    BY <1>9 DEF LogAlready, AddLog, LogCounts, TypeOK
  <2>2. QED
    BY <1>9, <2>1, QuietStep DEF LogAlready
<1>10. ASSUME NEW r \in Requests, LogSoldOut(r) PROVE SharedInv'
  <2>1. \A q \in Requests : log'[q].issued = log[q].issued
    BY <1>10 DEF LogSoldOut, AddLog, LogCounts, TypeOK
  <2>2. QED
    BY <1>10, <2>1, QuietStep DEF LogSoldOut
<1>11. ASSUME NEW r \in Requests, Rollback(r) PROVE SharedInv'
  BY <1>11, QuietStep DEF Rollback
<1>12. ASSUME NEW r \in Requests, DeadlockVictim(r) PROVE SharedInv'
  <2>1. pc[r] # "done"
    BY <1>12 DEF DeadlockVictim, AtCount
  <2>2. QED
    BY <1>12, <2>1, QuietStep DEF DeadlockVictim
<1>13. ASSUME NEW r \in Requests, DbError(r) PROVE SharedInv'
  BY <1>13, QuietStep DEF DbError
<1>14. ASSUME NEW r \in Requests, CommitUnacknowledged(r) PROVE SharedInv'
  BY <1>14, PublishStep DEF CommitUnacknowledged
<1>19. ASSUME NEW r \in Requests, DeleteIssued(r) PROVE SharedInv'
  BY <1>19, QuietStep DEF DeleteIssued
<1>20. ASSUME NEW r \in Requests, LogUnacknowledged(r) PROVE SharedInv'
  <2>1. \A q \in Requests : log'[q].issued = log[q].issued
    BY <1>20 DEF LogUnacknowledged, AddLog, LogCounts, TypeOK
  <2>2. QED
    BY <1>20, <2>1, QuietStep DEF LogUnacknowledged
<1>15. ASSUME Crash PROVE SharedInv'
  BY <1>15, CrashStep
<1>16. ASSUME NEW c \in Coupons, AdminUpdate(c) \/ AdminDelete(c) \/ PeriodTurns(c)
       PROVE SharedInv'
  <2>1. UNCHANGED <<granted, log, call, pc, resp>>
    BY <1>16 DEF AdminUpdate, AdminDelete, PeriodTurns
  <2>2. \A d \in Coupons : coupon'[d].issued = coupon[d].issued
    <3>1. CASE AdminUpdate(c)
      BY <3>1 DEF AdminUpdate, TypeOK, CouponRow
    <3>2. CASE AdminDelete(c)
      BY <3>2 DEF AdminDelete, TypeOK, CouponRow
    <3>3. CASE PeriodTurns(c)
      BY <3>3 DEF PeriodTurns, TypeOK, CouponRow
    <3>4. QED
      BY <1>16, <3>1, <3>2, <3>3
  <2>3. QED
    BY <2>1, <2>2, AdminStep
<1>17. CASE UNCHANGED vars
  BY <1>17, AdminStep DEF vars
<1>18. QED
  BY <1>2, <1>3, <1>4, <1>5, <1>6, <1>7, <1>8, <1>9, <1>10, <1>11, <1>12,
     <1>13, <1>14, <1>15, <1>16, <1>17, <1>19, <1>20 DEF Next, Serve, Fail

\* Nothing is granted, logged or answered at the start.
LEMMA SharedInit == Init => SharedInv
<1> SUFFICES ASSUME Init PROVE SharedInv
  OBVIOUS
<1>1. TypeOK
  BY TypeInit
<1>2. RowLockInv /\ KeyLockInv /\ IssuedLogInv /\ AnswerInv
  BY DEF Init, RowLockInv, KeyLockInv, IssuedLogInv, AnswerInv, Counted
<1>3. CountMatchesRows
  <2> SUFFICES ASSUME NEW c \in Coupons
               PROVE  coupon[c].issued = Cardinality({u \in Users : <<u, c>> \in granted})
    BY DEF CountMatchesRows
  <2>1. {u \in Users : <<u, c>> \in granted} = {}
    BY DEF Init
  <2>2. coupon[c].issued = 0
    BY DEF Init
  <2>3. QED
    BY <2>1, <2>2, FS_EmptySet
<1>4. QED
  BY <1>1, <1>2, <1>3 DEF SharedInv

\* The invariant of locks, counts and the audit log holds throughout.
THEOREM SharedCorrect == Spec => []SharedInv
  BY SharedInit, SharedStep, PTL DEF Spec

\* issuedCount always equals the number of coupon_issued rows of the coupon,
\* through every interleaving, deadlock, error, crash and edit.
THEOREM CountCorrect == Spec => []CountMatchesRows
<1>1. SharedInv => CountMatchesRows
  BY DEF SharedInv
<1>2. QED
  BY <1>1, SharedCorrect, PTL

\* The log rows "issued" are in one to one correspondence with the grants.
THEOREM AuditCorrect == Spec => []AuditMatchesGrants
<1>1. SharedInv => AuditMatchesGrants
  <2> SUFFICES ASSUME SharedInv PROVE AuditMatchesGrants
    OBVIOUS
  <2> USE DEF SharedInv, TypeOK, LogCounts
  <2>1. \A r \in Requests : log[r].issued > 0 => log[r].issued = 1
    BY DEF IssuedLogInv
  <2>2. \A r, q \in Requests :
           q # r /\ log[r].issued > 0 /\ Key(q) = Key(r) => log[q].issued = 0
    BY DEF IssuedLogInv
  <2>3. QED
    BY <2>1, <2>2 DEF IssuedLogInv, AuditMatchesGrants
<1>2. QED
  BY <1>1, SharedCorrect, PTL

\* No two calls of a user for the same coupon are both answered 201.
THEOREM OneSuccessCorrect == Spec => []OneSuccessPerUser
<1>1. SharedInv => OneSuccessPerUser
  BY DEF SharedInv, AnswerInv, IssuedLogInv, OneSuccessPerUser
<1>2. QED
  BY <1>1, SharedCorrect, PTL

-----------------------------------------------------------------------------
(* Quotas, when administrators leave the limits alone.                     *)

\* A step either publishes the grant of one request that was ready, or leaves
\* grants and counts as they are.
LEMMA PublishOrNot ==
    ASSUME TypeOK, [Next]_vars
    PROVE  /\ call' = call
           /\ \/ /\ \E r \in Requests :
                       pc[r] = "ready" /\ Publish(r) /\ pc' = [pc EXCEPT ![r] = "done"]
              \/ /\ granted' = granted
                 /\ \A c \in Coupons : coupon'[c].issued = coupon[c].issued
<1>1. CASE \E r \in Requests : Arrive(r) \/ Serve(r) \/ Fail(r)
  BY <1>1 DEF Arrive, Serve, FindCoupon, Begin, InsertIssued, Count, DeleteIssued, LogIssued,
              Commit, LogAlready, LogSoldOut, Rollback, DeadlockVictim, Fail,
              DbError, CommitUnacknowledged, LogUnacknowledged, Finish
<1>2. CASE Crash \/ UNCHANGED vars
  BY <1>2 DEF Crash, vars
<1>3. ASSUME NEW c \in Coupons, AdminUpdate(c) \/ AdminDelete(c) \/ PeriodTurns(c)
      PROVE  /\ UNCHANGED <<call, granted>>
             /\ \A d \in Coupons : coupon'[d].issued = coupon[d].issued
  <2>1. CASE AdminUpdate(c)
    BY <2>1 DEF AdminUpdate, TypeOK, CouponRow
  <2>2. CASE AdminDelete(c)
    BY <2>2 DEF AdminDelete, TypeOK, CouponRow
  <2>3. CASE PeriodTurns(c)
    BY <2>3 DEF PeriodTurns, TypeOK, CouponRow
  <2>4. QED
    BY <1>3, <2>1, <2>2, <2>3
<1>4. QED
  BY <1>1, <1>2, <1>3 DEF Next

\* The limit of a coupon is only changed by editing it.
LEMMA TotalsFixed ==
    ASSUME ~LimitEdits, TypeOK, [Next]_vars
    PROVE  \A c \in Coupons : coupon'[c].total = coupon[c].total
<1> USE DEF TypeOK, CouponRow
<1>1. ASSUME NEW c \in Coupons, AdminUpdate(c)
      PROVE  \A d \in Coupons : coupon'[d].total = coupon[d].total
  BY <1>1 DEF AdminUpdate
<1>2. ASSUME NEW c \in Coupons, AdminDelete(c) \/ PeriodTurns(c)
      PROVE  \A d \in Coupons : coupon'[d].total = coupon[d].total
  <2>1. CASE AdminDelete(c)
    BY <2>1 DEF AdminDelete
  <2>2. CASE PeriodTurns(c)
    BY <2>2 DEF PeriodTurns
  <2>3. QED
    BY <1>2, <2>1, <2>2
<1>3. ASSUME NEW r \in Requests, Publish(r)
      PROVE  \A d \in Coupons : coupon'[d].total = coupon[d].total
  BY <1>3 DEF Publish
<1>4. CASE \E r \in Requests : Arrive(r) \/ Serve(r) \/ Fail(r)
  BY <1>3, <1>4
     DEF Arrive, Serve, FindCoupon, Begin, InsertIssued, Count, DeleteIssued, LogIssued,
         Commit, LogAlready, LogSoldOut, Rollback, DeadlockVictim, Fail,
         DbError, CommitUnacknowledged, LogUnacknowledged
<1>5. CASE Crash \/ UNCHANGED vars
  BY <1>5 DEF Crash, vars
<1>6. QED
  BY <1>1, <1>2, <1>4, <1>5 DEF Next

\* What publishing does to the counts, in terms of single rows.
LEMMA PublishRow ==
    ASSUME TypeOK, NEW r \in Requests, Publish(r), NEW c \in Coupons
    PROVE  coupon'[c].issued =
              IF c = call[r].coupon THEN coupon[c].issued + 1
                                    ELSE coupon[c].issued
  BY DEF TypeOK, CouponRow, Arguments, Publish

\* Who begins a transaction has been checked against the kind of the coupon.
LEMMA KindStep ==
    ASSUME ~LimitEdits, TypeOK, KindInv, [Next]_vars PROVE KindInv'
<1> USE DEF TypeOK
<1>1. \A r \in Requests : call'[r] = call[r] /\ Row(r)'.total = Row(r).total
  BY PublishOrNot, TotalsFixed DEF Row, Arguments
<1>2. ASSUME NEW r \in Requests, pc'[r] \in InTx \cup {"checked"}
      PROVE  pc[r] \in InTx \cup {"checked"} \/ RightKind(r)
  <2>1. ASSUME NEW q \in Requests, Arrive(q) \/ Serve(q) \/ Fail(q)
        PROVE  pc[r] \in InTx \cup {"checked"} \/ RightKind(r)
    <3>1. CASE q # r
      BY <1>2, <2>1, <3>1
         DEF Arrive, Serve, FindCoupon, Begin, InsertIssued, Count, DeleteIssued, LogIssued,
             Commit, LogAlready, LogSoldOut, Rollback, DeadlockVictim, Fail,
             DbError, CommitUnacknowledged, LogUnacknowledged, Finish, Goto
    <3>2. CASE q = r /\ FindCoupon(r)
      BY <1>2, <3>2 DEF FindCoupon, Finish, Goto
    <3>3. CASE q = r /\ ~FindCoupon(r)
      BY <1>2, <2>1, <3>3
         DEF Arrive, Serve, Begin, InsertIssued, Count, DeleteIssued, AtCount, LogIssued,
             AtIssuedLog, Commit, LogAlready, LogSoldOut, Rollback,
             DeadlockVictim, Fail, DbError, CommitUnacknowledged, LogUnacknowledged,
             Finish, Goto
    <3>4. QED
      BY <3>1, <3>2, <3>3
  <2>2. CASE Crash
    BY <1>2, <2>2 DEF Crash
  <2>3. CASE UNCHANGED pc
    BY <1>2, <2>3
  <2>4. QED
    BY <2>1, <2>2, <2>3
       DEF Next, AdminUpdate, AdminDelete, PeriodTurns, vars
<1>3. QED
  BY <1>1, <1>2 DEF KindInv, RightKind, Unlimited, Limited

\* How a request comes into the phases that the stock invariant speaks of.
LEMMA PhaseStep ==
    ASSUME TypeOK, [Next]_vars, NEW r \in Requests
    PROVE  /\ Counted(r)' => Counted(r)
                 \/ /\ pc[r] \in Inserted
                    /\ \/ call[r].kind = "general"
                       \/ HasStock(Row(r))
                    /\ UNCHANGED coupon
           /\ pc'[r] \in SoldOutPhases => pc[r] \in SoldOutPhases
                 \/ /\ pc[r] = "inserted" /\ call[r].kind # "general"
                    /\ ~HasStock(Row(r))
           /\ resp'[r] = "soldOut" => resp[r] = "soldOut" \/ pc[r] \in SoldOutPhases
           /\ pc'[r] \in {"dup", "dupLogged"} =>
                 pc[r] \in {"dup", "dupLogged"} \/ Key(r) \in granted
<1> USE DEF TypeOK, Counted, SoldOutPhases, Finish, Goto
<1> DEFINE Goal ==
       /\ Counted(r)' => Counted(r)
             \/ /\ pc[r] \in Inserted
                /\ call[r].kind = "general" \/ HasStock(Row(r))
                /\ UNCHANGED coupon
       /\ pc'[r] \in SoldOutPhases => pc[r] \in SoldOutPhases
             \/ /\ pc[r] = "inserted" /\ call[r].kind # "general"
                /\ ~HasStock(Row(r))
       /\ resp'[r] = "soldOut" => resp[r] = "soldOut" \/ pc[r] \in SoldOutPhases
       /\ pc'[r] \in {"dup", "dupLogged"} =>
             pc[r] \in {"dup", "dupLogged"} \/ Key(r) \in granted
<1>1. ASSUME NEW q \in Requests, q # r, Arrive(q) \/ Serve(q) \/ Fail(q)
      PROVE  Goal
  <2>1. pc'[r] = pc[r] /\ resp'[r] = resp[r]
    BY <1>1
       DEF Arrive, Serve, FindCoupon, Begin, InsertIssued, Count, DeleteIssued, LogIssued,
           Commit, LogAlready, LogSoldOut, Rollback, DeadlockVictim, Fail,
           DbError, CommitUnacknowledged, LogUnacknowledged
  <2>2. QED
    BY <2>1
<1>2. CASE Count(r)
  BY <1>2 DEF Count, AtCount
<1>3. CASE LogIssued(r)
  BY <1>3 DEF LogIssued, AtIssuedLog
<1>4. CASE InsertIssued(r)
  BY <1>4 DEF InsertIssued
<1>5. CASE FindCoupon(r)
  BY <1>5 DEF FindCoupon
<1>6. CASE \/ Arrive(r) \/ Begin(r) \/ DeleteIssued(r)
           \/ LogAlready(r) \/ LogSoldOut(r) \/ Rollback(r)
  BY <1>6 DEF Arrive, Begin, DeleteIssued, LogAlready, LogSoldOut, Rollback
<1>7. CASE Commit(r) \/ DeadlockVictim(r) \/ Fail(r)
  BY <1>7 DEF Commit, DeadlockVictim, Fail, DbError, CommitUnacknowledged, LogUnacknowledged
<1>8. CASE Crash
  BY <1>8 DEF Crash
<1>9. CASE UNCHANGED <<pc, resp>>
  BY <1>9
<1>10. QED
  BY <1>1, <1>2, <1>3, <1>4, <1>5, <1>6, <1>7, <1>8, <1>9
     DEF Next, Serve, AdminUpdate, AdminDelete, PeriodTurns, vars

\* Stock reserved by an increment is not given away before it is committed,
\* and stock that has run out does not come back.
LEMMA StockStep ==
    ASSUME ~LimitEdits, SharedInv, KindInv, StockInv, [Next]_vars
    PROVE  StockInv'
<1> USE DEF SharedInv, TypeOK
<1>1. \A r \in Requests : call[r].coupon \in Coupons
  BY DEF Arguments
<1>2. \A r \in Requests : call'[r] = call[r] /\ Row(r)'.total = Row(r).total
  BY <1>1, PublishOrNot, TotalsFixed DEF Row
<1>3. \A r \in Requests : Row(r)'.issued >= Row(r).issued
  <2>1. \A r \in Requests : Row(r).issued \in Nat
    BY <1>1 DEF Row, CouponRow
  <2>2. QED
    BY <1>1, <2>1, PublishOrNot, PublishRow DEF Row
<1>4. ASSUME NEW r \in Requests, call[r].kind = "limited", Counted(r)'
      PROVE  HasStock(Row(r))'
  <2>1. CASE Counted(r)
    <3>1. Row(r)'.issued = Row(r).issued
      <4>1. CASE \E q \in Requests :
                   pc[q] = "ready" /\ Publish(q) /\ pc' = [pc EXCEPT ![q] = "done"]
        <5>1. PICK q \in Requests :
                 pc[q] = "ready" /\ Publish(q) /\ pc' = [pc EXCEPT ![q] = "done"]
          BY <4>1
        <5>2. q # r
          BY <1>4, <5>1 DEF Counted
        <5>3. call[q].coupon # call[r].coupon
          BY <2>1, <5>1, <5>2 DEF RowLockInv, Counted
        <5>4. QED
          BY <1>1, <1>2, <5>1, <5>3, PublishRow DEF Row
      <4>2. CASE \A c \in Coupons : coupon'[c].issued = coupon[c].issued
        BY <1>1, <1>2, <4>2 DEF Row
      <4>3. QED
        BY <4>1, <4>2, PublishOrNot
    <3>2. HasStock(Row(r))
      BY <1>4, <2>1 DEF StockInv
    <3>3. QED
      BY <1>2, <3>1, <3>2 DEF HasStock
  <2>2. CASE UNCHANGED coupon /\ HasStock(Row(r))
    BY <1>2, <2>2 DEF HasStock, Row
  <2>3. QED
    BY <1>4, <2>1, <2>2, PhaseStep
<1>5. ASSUME NEW r \in Requests, pc'[r] \in SoldOutPhases \/ resp'[r] = "soldOut"
      PROVE  Row(r)'.total # NoTotal /\ ~HasStock(Row(r))'
  <2>1. Row(r).total # NoTotal /\ ~HasStock(Row(r))
    <3>1. CASE pc[r] \in SoldOutPhases \/ resp[r] = "soldOut"
      BY <3>1 DEF StockInv
    <3>2. CASE /\ pc[r] = "inserted" /\ call[r].kind # "general"
               /\ ~HasStock(Row(r))
      BY <3>2 DEF KindInv
    <3>3. QED
      BY <1>5, <3>1, <3>2, PhaseStep
  <2>2. Row(r).issued \in Nat /\ Row(r)'.issued \in Nat
    BY <1>1, <1>2, TypeStep DEF Row, CouponRow
  <2>3. Row(r).total \in Nat \cup {NoTotal}
    BY <1>1, TotalsNat DEF Row, CouponRow
  <2>4. QED
    BY <1>2, <1>3, <2>1, <2>2, <2>3 DEF HasStock
<1>6. QED
  BY <1>2, <1>4, <1>5 DEF StockInv

\* A grant is never taken back while its repeat is being refused.
LEMMA RepeatStep ==
    ASSUME TypeOK, RepeatInv, [Next]_vars PROVE RepeatInv'
<1>1. granted \subseteq granted' /\ \A r \in Requests : Key(r)' = Key(r)
  BY PublishOrNot DEF Publish, Key
<1>2. QED
  BY <1>1, PhaseStep DEF RepeatInv

\* The grant that is committed next still fits under the limit.
LEMMA OverIssueStep ==
    ASSUME ~LimitEdits, SharedInv, KindInv, StockInv, NoOverIssue, [Next]_vars
    PROVE  NoOverIssue'
<1> USE DEF SharedInv
<1> SUFFICES ASSUME NEW c \in Coupons, coupon'[c].total # NoTotal
             PROVE  coupon'[c].issued <= coupon'[c].total
  BY DEF NoOverIssue
<1>1. coupon'[c].total = coupon[c].total
  BY TotalsFixed
<1>2. coupon[c].issued \in Nat /\ coupon[c].total \in Nat
  BY <1>1, TotalsNat DEF TypeOK, CouponRow
<1>3. CASE coupon'[c].issued = coupon[c].issued
  BY <1>1, <1>3 DEF NoOverIssue
<1>4. CASE \E r \in Requests : pc[r] = "ready" /\ Publish(r)
  <2>1. PICK r \in Requests : pc[r] = "ready" /\ Publish(r)
    BY <1>4
  <2>2. CASE c = call[r].coupon
    <3>1. call[r].kind = "limited"
      BY <1>1, <2>1, <2>2 DEF KindInv, Row, TypeOK, Arguments
    <3>2. HasStock(Row(r))
      BY <2>1, <3>1 DEF StockInv, Counted
    <3>3. coupon[c].issued < coupon[c].total
      BY <2>2, <3>2 DEF HasStock, Row
    <3>4. QED
      BY <1>1, <1>2, <2>1, <2>2, <3>3, PublishRow
  <2>3. CASE c # call[r].coupon
    BY <1>3, <2>1, <2>3, PublishRow
  <2>4. QED
    BY <2>2, <2>3
<1>5. QED
  BY <1>3, <1>4, PublishOrNot

\* The invariant behind the quota is inductive while limits are not edited.
LEMMA QuotaStep ==
    ASSUME ~LimitEdits, QuotaInv, [Next]_vars PROVE QuotaInv'
<1> USE DEF QuotaInv
<1>1. SharedInv'
  BY SharedStep
<1>2. KindInv' /\ StockInv' /\ RepeatInv' /\ NoOverIssue'
  BY KindStep, StockStep, RepeatStep, OverIssueStep DEF SharedInv
<1>3. QED
  BY <1>1, <1>2

\* Nothing is issued at the start, and every limit is a natural number.
LEMMA QuotaInit == Init => QuotaInv
<1> SUFFICES ASSUME Init PROVE QuotaInv
  OBVIOUS
<1>1. SharedInv
  BY SharedInit
<1>2. KindInv /\ StockInv /\ RepeatInv
  BY DEF Init, KindInv, StockInv, RepeatInv, Counted, SoldOutPhases
<1>3. NoOverIssue
  <2> SUFFICES ASSUME NEW c \in Coupons, coupon[c].total # NoTotal
               PROVE  coupon[c].issued <= coupon[c].total
    BY DEF NoOverIssue
  <2>1. coupon[c].issued = 0 /\ coupon[c].total \in Totals
    BY DEF Init
  <2>2. coupon[c].total \in Nat
    BY <2>1, TotalsNat
  <2>3. QED
    BY <2>1, <2>2
<1>4. QED
  BY <1>1, <1>2, <1>3 DEF QuotaInv

\* The invariant behind the quota holds throughout.
THEOREM QuotaCorrect == ~LimitEdits => (Spec => []QuotaInv)
<1> SUFFICES ASSUME ~LimitEdits PROVE Spec => []QuotaInv
  OBVIOUS
<1>1. QuotaInv /\ [Next]_vars => QuotaInv'
  BY QuotaStep
<1>2. QED
  BY <1>1, QuotaInit, PTL DEF Spec

\* The promise of first come, first served: with limits left alone, no
\* interleaving of any number of requests issues a coupon beyond its limit.
THEOREM NoOverIssueCorrect == ~LimitEdits => (Spec => []NoOverIssue)
<1>1. QuotaInv => NoOverIssue
  BY DEF QuotaInv
<1>2. QED
  BY <1>1, QuotaCorrect, PTL

\* Nobody is told "sold out" while stock is left, then or later.
THEOREM SoldOutCorrect == ~LimitEdits => (Spec => []SoldOutMeansExhausted)
<1>1. QuotaInv => SoldOutMeansExhausted
  <2> SUFFICES ASSUME QuotaInv, NEW r \in Requests, resp[r] = "soldOut"
               PROVE  Row(r).issued >= Row(r).total
    BY DEF SoldOutMeansExhausted
  <2>1. Row(r).total # NoTotal /\ ~HasStock(Row(r))
    BY DEF QuotaInv, StockInv
  <2>2. Row(r) \in CouponRow
    BY DEF QuotaInv, SharedInv, TypeOK, Row, Arguments
  <2>3. Row(r).issued \in Nat /\ Row(r).total \in Nat
    BY <2>1, <2>2, TotalsNat DEF CouponRow
  <2>4. QED
    BY <2>1, <2>3 DEF HasStock
<1>2. QED
  BY <1>1, QuotaCorrect, PTL

-----------------------------------------------------------------------------
(* What callers are told.                                                  *)

\* A request whose handler does not move keeps its log rows and its answer, and
\* what they are about stays granted.
LEMMA EffectKept ==
    ASSUME NEW r \in Requests, UNCHANGED call, granted \subseteq granted',
           log'[r] = log[r], pc'[r] = pc[r], resp'[r] = resp[r],
           pc[r] # "done" => OutsideLog(r), AnswerMatchesEffect(r)
    PROVE  /\ pc'[r] # "done" => OutsideLog(r)'
           /\ AnswerMatchesEffect(r)'
<1>1. Key(r)' = Key(r)
  BY DEF Key
<1>2. QED
  BY <1>1 DEF OutsideLog, AnswerMatchesEffect

\* A handler writes each of these log rows before the phase that stands for it,
\* and answers after the rows its answer needs.
LEMMA EffectMoved ==
    ASSUME EffectInv, TypeOK', NEW r \in Requests, Serve(r) \/ Arrive(r) \/ Fail(r)
    PROVE  /\ pc'[r] # "done" => OutsideLog(r)'
           /\ AnswerMatchesEffect(r)'
<1> USE DEF EffectInv, SharedInv, TypeOK, LogCounts, AddLog, Finish, Goto, OutsideLog,
            AnswerMatchesEffect
<1>1. pc[r] # "done"
  BY DEF Serve, Arrive, Fail, FindCoupon, Begin, InsertIssued, Count, AtCount,
         DeleteIssued, LogIssued, AtIssuedLog, Commit, LogAlready, LogSoldOut, Rollback, DeadlockVictim,
         DbError, CommitUnacknowledged, LogUnacknowledged
<1>2. OutsideLog(r) /\ log[r].issued = 0 /\ resp[r] = "none"
  BY <1>1 DEF OutsideLogInv, IssuedLogInv, AnswerInv
<1>3. log[r] = [issued |-> log[r].issued, already |-> log[r].already,
                soldout |-> log[r].soldout]
  OBVIOUS
<1>4. CASE FindCoupon(r)
  BY <1>2, <1>3, <1>4 DEF FindCoupon
<1>5. CASE Arrive(r) \/ Begin(r) \/ InsertIssued(r)
  BY <1>2, <1>5 DEF Arrive, Begin, InsertIssued
<1>6. CASE Count(r)
  BY <1>2, <1>6 DEF Count, AtCount
<1>7. CASE LogIssued(r)
  BY <1>2, <1>7 DEF LogIssued, AtIssuedLog
<1>8. CASE Commit(r) \/ CommitUnacknowledged(r)
  BY <1>2, <1>8 DEF Commit, CommitUnacknowledged, Publish
<1>9. CASE LogAlready(r)
  BY <1>2, <1>9 DEF LogAlready
<1>10. CASE LogSoldOut(r)
  BY <1>2, <1>10 DEF LogSoldOut
<1>11. CASE Rollback(r)
  <2>1. Key(r)' = Key(r)
    BY <1>11 DEF Rollback, Key
  <2>2. QED
    BY <1>2, <1>11, <2>1 DEF Rollback, RepeatInv
<1>12. CASE DeadlockVictim(r) \/ DbError(r)
  BY <1>2, <1>12 DEF DeadlockVictim, DbError
<1>13. CASE DeleteIssued(r)
  BY <1>2, <1>13 DEF DeleteIssued
<1>14. CASE LogUnacknowledged(r)
  BY <1>2, <1>14 DEF LogUnacknowledged
<1>15. QED
  BY <1>4, <1>5, <1>6, <1>7, <1>8, <1>9, <1>10, <1>11, <1>12, <1>13, <1>14
     DEF Serve, Fail

\* One step of one handler leaves the others where they are.
LEMMA OthersStay ==
    ASSUME TypeOK, NEW q \in Requests, Serve(q) \/ Arrive(q) \/ Fail(q)
    PROVE  \A r \in Requests \ {q} :
              log'[r] = log[r] /\ pc'[r] = pc[r] /\ resp'[r] = resp[r]
  BY DEF TypeOK, Serve, Arrive, Fail, FindCoupon, Begin, InsertIssued, Count,
         DeleteIssued, LogIssued, Commit, LogAlready, LogSoldOut, Rollback,
         DeadlockVictim, DbError,
         CommitUnacknowledged, LogUnacknowledged, Publish, AddLog, Finish, Goto

\* The invariant behind the answers is inductive, limits edited or not.
LEMMA EffectStep == EffectInv /\ [Next]_vars => EffectInv'
<1> SUFFICES ASSUME EffectInv, [Next]_vars PROVE EffectInv'
  OBVIOUS
<1> USE DEF EffectInv
<1>1. SharedInv' /\ RepeatInv' /\ TypeOK /\ TypeOK'
  BY SharedStep, RepeatStep DEF SharedInv
<1>2. UNCHANGED call /\ granted \subseteq granted'
  BY <1>1, PublishOrNot DEF Publish
<1> SUFFICES ASSUME NEW r \in Requests
             PROVE  /\ pc'[r] # "done" => OutsideLog(r)'
                    /\ AnswerMatchesEffect(r)'
  BY <1>1 DEF OutsideLogInv, AnswersMatchEffects
<1>3. pc[r] # "done" => OutsideLog(r)
  BY DEF OutsideLogInv
<1>4. AnswerMatchesEffect(r)
  BY DEF AnswersMatchEffects
<1>5. ASSUME NEW q \in Requests, Serve(q) \/ Arrive(q) \/ Fail(q)
      PROVE  /\ pc'[r] # "done" => OutsideLog(r)'
             /\ AnswerMatchesEffect(r)'
  <2>1. CASE q = r
    BY <1>1, <1>5, <2>1, EffectMoved
  <2>2. CASE q # r
    <3>1. log'[r] = log[r] /\ pc'[r] = pc[r] /\ resp'[r] = resp[r]
      BY <1>1, <1>5, <2>2, OthersStay
    <3>2. QED
      BY <1>2, <1>3, <1>4, <3>1, EffectKept
  <2>3. QED
    BY <2>1, <2>2
<1>6. CASE Crash
  <2>1. log'[r] = log[r] /\ Key(r)' = Key(r)
    BY <1>2, <1>6 DEF Crash, Key
  <2>2. /\ pc'[r] = IF pc[r] = "idle" THEN "idle" ELSE "done"
        /\ resp'[r] = IF pc[r] \in {"idle", "done"} THEN resp[r] ELSE "lost"
    BY <1>6 DEF Crash
  <2>3. QED
    BY <1>2, <1>3, <1>4, <2>1, <2>2 DEF OutsideLog, AnswerMatchesEffect
<1>7. CASE UNCHANGED <<log, pc, resp>>
  BY <1>2, <1>3, <1>4, <1>7, EffectKept
<1>8. QED
  BY <1>5, <1>6, <1>7 DEF Next, AdminUpdate, AdminDelete, PeriodTurns, vars

\* What a caller is told agrees with the tables and the log, whatever fails and
\* whatever administrators edit: 201 has its grant, "already" somebody else's
\* grant, "sold out" its log rows, and a refusal before that has left nothing.
THEOREM AnswersCorrect == Spec => []AnswersMatchEffects
<1>1. Init => EffectInv
  <2> SUFFICES ASSUME Init PROVE EffectInv
    OBVIOUS
  <2>1. SharedInv
    BY SharedInit
  <2>2. QED
    BY <2>1 DEF Init, EffectInv, RepeatInv, OutsideLogInv, OutsideLog,
                AnswersMatchEffects, AnswerMatchesEffect
<1>2. EffectInv => AnswersMatchEffects
  BY DEF EffectInv
<1>3. QED
  BY <1>1, <1>2, EffectStep, PTL DEF Spec

-----------------------------------------------------------------------------
(* The handlers implement the ledger.                                      *)

\* Finite sets have one cardinality, here and in the ledger.
LEMMA LedgerCardinality == \A S : Ledger!Cardinality(S) = Cardinality(S)
  BY DEF Ledger!Cardinality, Cardinality

\* The initial tables are an empty book.
LEMMA LedgerInit == Init => Ledger!Init
<1> SUFFICES ASSUME Init PROVE Ledger!Init
  OBVIOUS
<1>1. [c \in Coupons |-> HoldersOf(c)] = [c \in Coupons |-> {}]
  BY DEF Init, HoldersOf
<1>2. [c \in Coupons |-> coupon[c].total] \in [Coupons -> Totals \cup {NoTotal}]
  BY DEF Init
<1>3. [r \in Requests |-> OutcomeOf(r)] = [r \in Requests |-> "pending"]
  BY DEF Init, OutcomeOf
<1>4. call \in [Requests -> Arguments]
  BY DEF Init
<1>5. QED
  BY <1>1, <1>2, <1>3, <1>4 DEF Ledger!Init, Arguments

\* Answers that leave the book alone, to any number of requests at once.
LEMMA UnservedStep ==
    ASSUME ~LimitEdits, QuotaInv, [Next]_vars, UNCHANGED <<granted, call>>,
           \A r \in Requests : OutcomeOf(r)' = OutcomeOf(r) \/
              (OutcomeOf(r) = "pending" /\ OutcomeOf(r)' = "unserved")
    PROVE  Ledger!LeaveUnserved
<1> DEFINE R == {r \in Requests : OutcomeOf(r) = "pending" /\ OutcomeOf(r)' = "unserved"}
           out == [r \in Requests |-> OutcomeOf(r)]
<1>1. R \in SUBSET {r \in Requests : out[r] = "pending"}
  OBVIOUS
<1>2. out' = [r \in Requests |-> IF r \in R THEN "unserved" ELSE out[r]]
  OBVIOUS
<1>3. [c \in Coupons |-> HoldersOf(c)]' = [c \in Coupons |-> HoldersOf(c)]
  BY DEF HoldersOf
<1>4. [c \in Coupons |-> coupon[c].total]' = [c \in Coupons |-> coupon[c].total]
  BY TotalsFixed DEF QuotaInv, SharedInv
<1>5. QED
  BY <1>1, <1>2, <1>3, <1>4 DEF Ledger!LeaveUnserved

\* A commit enters the requester in the book, within the quota.
LEMMA IssueStep ==
    ASSUME ~LimitEdits, QuotaInv, [Next]_vars, NEW r \in Requests,
           Commit(r) \/ CommitUnacknowledged(r)
    PROVE  Ledger!Issue(r)
<1> DEFINE book == [c \in Coupons |-> HoldersOf(c)]
           out == [q \in Requests |-> OutcomeOf(q)]
           c0 == call[r].coupon
<1> USE DEF QuotaInv, SharedInv, TypeOK
<1>1. c0 \in Coupons /\ call[r].user \in Users
  BY DEF Arguments
<1>2. pc[r] = "ready" /\ Publish(r) /\ call' = call
  BY DEF Commit, CommitUnacknowledged
<1>3. Key(r) \notin granted
  BY <1>2 DEF KeyLockInv
<1>4. resp[r] = "none" /\ out[r] = "pending"
  BY <1>2 DEF AnswerInv, OutcomeOf
<1>5. ~Ledger!Holds(r)
  BY <1>1, <1>3 DEF Ledger!Holds, HoldersOf, Key
<1>6. ~Ledger!Exhausted(c0)
  <2>1. CASE coupon[c0].total = NoTotal
    BY <1>1, <2>1 DEF Ledger!Exhausted
  <2>2. CASE coupon[c0].total # NoTotal
    <3>1. HasStock(Row(r))
      BY <1>2, <2>2 DEF KindInv, StockInv, Counted, Row, Arguments
    <3>2. coupon[c0].issued < coupon[c0].total
      BY <3>1 DEF HasStock, Row
    <3>3. Cardinality(HoldersOf(c0)) = coupon[c0].issued
      BY <1>1 DEF CountMatchesRows, HoldersOf
    <3>4. coupon[c0].issued \in Nat /\ coupon[c0].total \in Nat
      BY <1>1, <2>2, TotalsNat DEF CouponRow
    <3>5. QED
      BY <1>1, <3>2, <3>3, <3>4, LedgerCardinality DEF Ledger!Exhausted
  <2>3. QED
    BY <2>1, <2>2
<1>7. book' = [book EXCEPT ![c0] = @ \cup {call[r].user}]
  BY <1>1, <1>2 DEF Publish, Key, HoldersOf
<1>8. \E told \in {"issued", "unserved"} : out' = [out EXCEPT ![r] = told]
  <2>1. resp' = [resp EXCEPT ![r] = "issued"] \/ resp' = [resp EXCEPT ![r] = "failed"]
    BY DEF Commit, CommitUnacknowledged, Finish
  <2>2. QED
    BY <2>1 DEF OutcomeOf
<1>9. [c \in Coupons |-> coupon[c].total]' = [c \in Coupons |-> coupon[c].total]
  BY TotalsFixed
<1>10. QED
  BY <1>2, <1>4, <1>5, <1>6, <1>7, <1>8, <1>9 DEF Ledger!Issue

\* A refusal is true of the book when it is given.
LEMMA RefuseStep ==
    ASSUME ~LimitEdits, QuotaInv, [Next]_vars, NEW r \in Requests, Rollback(r)
    PROVE  Ledger!Refuse(r)
<1> DEFINE out == [q \in Requests |-> OutcomeOf(q)]
           c0 == call[r].coupon
<1> USE DEF QuotaInv, SharedInv, TypeOK
<1>1. c0 \in Coupons /\ call[r].user \in Users
  BY DEF Arguments
<1>2. UNCHANGED <<coupon, granted, call>>
  BY DEF Rollback
<1>3. UNCHANGED <<[c \in Coupons |-> HoldersOf(c)],
                  [c \in Coupons |-> coupon[c].total]>>
  BY <1>2 DEF HoldersOf
<1>4. out[r] = "pending"
  BY DEF Rollback, AnswerInv, OutcomeOf
<1>5. CASE pc[r] = "dupLogged" /\ Finish(r, "already")
  <2>1. Ledger!Holds(r)
    BY <1>1, <1>5 DEF Ledger!Holds, HoldersOf, RepeatInv, Key
  <2>2. out' = [out EXCEPT ![r] = "already"]
    BY <1>5 DEF Finish, OutcomeOf
  <2>3. QED
    BY <1>2, <1>3, <1>4, <2>1, <2>2 DEF Ledger!Refuse
<1>6. CASE pc[r] = "soldoutRelogged" /\ Finish(r, "soldOut")
  <2>1. coupon[c0].total # NoTotal /\ ~HasStock(coupon[c0])
    BY <1>6 DEF StockInv, SoldOutPhases, Row
  <2>2. coupon[c0].issued >= coupon[c0].total
    <3>1. coupon[c0].issued \in Nat /\ coupon[c0].total \in Totals
      BY <1>1, <2>1 DEF CouponRow
    <3>2. coupon[c0].total \in Nat
      BY <3>1, TotalsNat
    <3>3. QED
      BY <2>1, <3>1, <3>2 DEF HasStock
  <2>3. Cardinality(HoldersOf(c0)) = coupon[c0].issued
    BY <1>1 DEF CountMatchesRows, HoldersOf
  <2>4. Ledger!Exhausted(c0)
    BY <1>1, <2>1, <2>2, <2>3, LedgerCardinality DEF Ledger!Exhausted
  <2>5. out' = [out EXCEPT ![r] = "soldOut"]
    BY <1>6 DEF Finish, OutcomeOf
  <2>6. QED
    BY <1>2, <1>3, <1>4, <2>4, <2>5 DEF Ledger!Refuse
<1>7. QED
  BY <1>5, <1>6 DEF Rollback

\* Every step of the handlers is a step of the ledger or leaves it alone.
LEMMA LedgerStep ==
    ASSUME ~LimitEdits, QuotaInv, [Next]_vars PROVE [Ledger!Next]_(Ledger!vars)
<1> USE DEF QuotaInv, SharedInv, TypeOK
<1>1. ASSUME UNCHANGED <<granted, call>>,
             \A r \in Requests : \/ resp'[r] = resp[r]
                                 \/ /\ resp[r] = "none"
                                    /\ resp'[r] \in Answers \
                                         {"none", "issued", "already", "soldOut"}
      PROVE  Ledger!Next
  <2>1. \A r \in Requests : OutcomeOf(r)' = OutcomeOf(r) \/
           (OutcomeOf(r) = "pending" /\ OutcomeOf(r)' = "unserved")
    BY <1>1 DEF OutcomeOf, Answers
  <2>2. QED
    BY <1>1, <2>1, UnservedStep DEF Ledger!Next
<1>2. ASSUME NEW r \in Requests,
             Arrive(r) \/ Begin(r) \/ InsertIssued(r) \/ Count(r) \/ LogIssued(r)
             \/ DeleteIssued(r) \/ LogAlready(r) \/ LogSoldOut(r)
      PROVE  Ledger!Next
  BY <1>1, <1>2 DEF Arrive, Begin, InsertIssued, Count, DeleteIssued, LogIssued,
                    LogAlready, LogSoldOut, Goto
<1>3. ASSUME NEW r \in Requests, FindCoupon(r) PROVE Ledger!Next
  <2>1. \/ resp' = resp
        \/ \E a \in {"notFound", "inactive", "outOfPeriod", "wrongKind"} :
              resp' = [resp EXCEPT ![r] = a]
    BY <1>3 DEF FindCoupon, Goto, Finish
  <2>2. resp[r] = "none" /\ UNCHANGED <<granted, call>>
    BY <1>3 DEF FindCoupon, AnswerInv
  <2>3. QED
    BY <1>1, <2>1, <2>2 DEF Answers
<1>4. ASSUME NEW r \in Requests,
             DeadlockVictim(r) \/ DbError(r) \/ LogUnacknowledged(r)
      PROVE  Ledger!Next
  <2>1. resp[r] = "none"
    BY <1>4 DEF DeadlockVictim, AtCount, DbError, LogUnacknowledged, AnswerInv
  <2>2. QED
    BY <1>1, <1>4, <2>1
       DEF DeadlockVictim, DbError, LogUnacknowledged, Finish, Answers
<1>5. ASSUME Crash PROVE Ledger!Next
  BY <1>1, <1>5 DEF Crash, AnswerInv, Answers
<1>6. ASSUME NEW r \in Requests, Commit(r) \/ CommitUnacknowledged(r) \/ Rollback(r)
      PROVE  Ledger!Next
  BY <1>6, IssueStep, RefuseStep DEF Ledger!Next
<1>7. ASSUME UNCHANGED <<granted, call, resp>> PROVE Ledger!Next
  BY <1>1, <1>7
<1>8. QED
  BY <1>2, <1>3, <1>4, <1>5, <1>6, <1>7
     DEF Next, Serve, Fail, AdminUpdate, AdminDelete, PeriodTurns, vars

\* With limits left alone the handlers, with all their interleavings, deadlocks,
\* failures and crashes, implement the ledger: grants are atomic, within the
\* quota and once per user, and refusals are truthful.
THEOREM LedgerImplemented == ~LimitEdits => (Spec => ImplementsLedger)
<1> SUFFICES ASSUME ~LimitEdits PROVE Spec => ImplementsLedger
  OBVIOUS
<1>1. QuotaInv /\ [Next]_vars => [Ledger!Next]_(Ledger!vars)
  BY LedgerStep
<1>2. Spec => []QuotaInv
  BY QuotaCorrect
<1>3. QED
  BY <1>1, <1>2, LedgerInit, PTL DEF Spec, ImplementsLedger, Ledger!Spec

-----------------------------------------------------------------------------
HIDE DEF Phases, InTx, Inserted

(* The catalog.  A table is Fit when it holds values of its kind and is    *)
(* Sound.  Tables are only added, each written at the time it is, and no   *)
(* row goes.                                                               *)

Fit(t) == t \in Tables /\ Sound(t)

TablesInv ==
    /\ tables \in Seq(Tables) /\ Len(tables) > 0
    /\ \A k \in 1 .. Len(tables) : Fit(tables[k])
    /\ \A k \in 2 .. Len(tables) : tables[k].at >= tables[k - 1].at
    /\ Now.at <= clock

\* What a step does to the tables.
Added(t) ==
    /\ tables' = Append(tables, t)
    /\ Fit(t) /\ t.at = clock /\ Rows(Now) \subseteq Rows(t)

Grown == clock' = clock /\ (tables' = tables \/ \E t \in Tables : Added(t))

WithCode(t, i, code, at) == [[t EXCEPT !.code[i] = code] EXCEPT !.at = at]
Without(t, i, at) == [[t EXCEPT !.deleted = @ \cup {i}] EXCEPT !.at = at]
Granted(t, i, at) == [[t EXCEPT !.issued[i] = at] EXCEPT !.at = at]

\* Each write of a fit table is fit, and no row goes.
LEMMA CodeWritten ==
    ASSUME NEW t, Fit(t), NEW i \in Ids, NEW code \in Codes, NEW at \in 1 .. MaxClock,
           \A j \in Rows(t) \ {i} : t.code[j] # code
    PROVE  /\ Fit(WithCode(t, i, code, at)) /\ WithCode(t, i, code, at).at = at
           /\ Rows(t) \subseteq Rows(WithCode(t, i, code, at))
<1>0. PICK u : u = WithCode(t, i, code, at)
  OBVIOUS
<1>1. u \in Tables /\ u.at = at /\ u.deleted = t.deleted /\ u.issued = t.issued
  BY <1>0 DEF Fit, Tables, WithCode
<1>2. u.code[i] = code /\ \A j \in Ids \ {i} : u.code[j] = t.code[j]
  BY <1>0 DEF Fit, Tables, WithCode
<1>3. Rows(u) = Rows(t) \cup {i}
  BY <1>2, NoCodeIsNone DEF Rows
<1>4. \A j, k \in Rows(u) : u.code[j] = u.code[k] => j = k
  BY <1>2, <1>3 DEF Fit, Sound, Rows
<1>5. QED
  BY <1>0, <1>1, <1>3, <1>4 DEF Fit, Sound

LEMMA DeletionWritten ==
    ASSUME NEW t, Fit(t), NEW i \in Rows(t), NEW at \in 1 .. MaxClock
    PROVE  /\ Fit(Without(t, i, at)) /\ Without(t, i, at).at = at
           /\ Rows(t) \subseteq Rows(Without(t, i, at))
<1>0. PICK u : u = Without(t, i, at)
  OBVIOUS
<1>1. i \in Ids
  BY DEF Rows
<1>2. /\ u \in Tables /\ u.at = at /\ u.code = t.code
      /\ u.deleted = t.deleted \cup {i} /\ u.issued = t.issued
  BY <1>0, <1>1 DEF Fit, Tables, Without
<1>3. Rows(u) = Rows(t)
  BY <1>2 DEF Rows
<1>4. QED
  BY <1>0, <1>2, <1>3 DEF Fit, Sound

LEMMA GrantWritten ==
    ASSUME NEW t, Fit(t), NEW i \in Rows(t), NEW at \in 1 .. MaxClock
    PROVE  /\ Fit(Granted(t, i, at)) /\ Granted(t, i, at).at = at
           /\ Rows(t) \subseteq Rows(Granted(t, i, at))
<1>0. PICK u : u = Granted(t, i, at)
  OBVIOUS
<1>1. i \in Ids /\ at \in 0 .. MaxClock
  BY DEF Rows
<1>2. /\ u \in Tables /\ u.at = at /\ u.code = t.code /\ u.deleted = t.deleted
  BY <1>0, <1>1 DEF Fit, Tables, Granted
<1>3. \A j \in Ids \ {i} : u.issued[j] = t.issued[j]
  BY <1>0, <1>1 DEF Fit, Tables, Granted
<1>4. Rows(u) = Rows(t)
  BY <1>2 DEF Rows
<1>5. QED
  BY <1>0, <1>2, <1>3, <1>4 DEF Fit, Sound

\* There is a first id without a row unless every id has one.
LEMMA NewIdFree ==
    ASSUME Rows(Now) # Ids
    PROVE  NewId \in Ids /\ NewId \notin Rows(Now)
<1> DEFINE Free == Ids \ Rows(Now)
<1>1. Cardinality(Ids) \in Nat /\ Ids = 1 .. Cardinality(Ids)
  BY IdsNumbered, FS_CardinalityType
<1>2. Free \subseteq Nat /\ Free # {}
  BY <1>1 DEF Rows
<1>3. PICK i \in Free : \A y \in Free : ~ (<<y, i>> \in OpToRel(<, Nat))
  BY <1>2, NatLessThanWellFounded, WFMin, Zenon
<1>4. \A y \in Free : ~ (y < i)
  BY <1>2, <1>3 DEF OpToRel
<1>5. \A j \in 1 .. i - 1 : j \in Rows(Now)
  BY <1>1, <1>4
<1>6. \E k \in Ids : k \notin Rows(Now) /\ \A j \in 1 .. k - 1 : j \in Rows(Now)
  BY <1>5
<1>7. QED
  BY <1>6 DEF NewId

LEMMA NowFits ==
    ASSUME TablesInv
    PROVE  Fit(Now) /\ Len(tables) \in Nat \ {0} /\ DOMAIN tables = 1 .. Len(tables)
  BY DEF TablesInv, Now

\* Nothing of the past changes, what is added is of this time, and rows stay.
LEMMA PastStays ==
    ASSUME TablesInv, Grown
    PROVE  /\ Len(tables) \in Nat \ {0} /\ Len(tables') \in Nat
           /\ Len(tables) <= Len(tables')
           /\ \A k \in 1 .. Len(tables) : tables'[k] = tables[k]
           /\ \A k \in Len(tables) + 1 .. Len(tables') : tables'[k].at = clock
           /\ Rows(Now) \subseteq Rows(Now')
<1>1. Len(tables) \in Nat \ {0}
  BY NowFits
<1>2. CASE tables' = tables
  BY <1>1, <1>2 DEF Now
<1>3. ASSUME NEW t \in Tables, Added(t)
      PROVE  /\ Len(tables') = Len(tables) + 1
             /\ tables'[Len(tables) + 1] = t
             /\ \A k \in 1 .. Len(tables) : tables'[k] = tables[k]
  BY <1>3 DEF Added, TablesInv
<1>4. ASSUME NEW t \in Tables, Added(t) PROVE Now' = t
  BY <1>3, <1>4 DEF Now
<1>5. CASE \E t \in Tables : Added(t)
  <2>1. PICK t \in Tables : Added(t)
    BY <1>5
  <2>2. t.at = clock /\ Rows(Now) \subseteq Rows(Now')
    BY <2>1, <1>4 DEF Added
  <2>3. QED
    BY <2>1, <2>2, <1>1, <1>3
<1>6. QED
  BY <1>2, <1>5 DEF Grown

LEMMA TablesKept ==
    ASSUME TablesInv, Grown
    PROVE  TablesInv'
<1>1. Len(tables) \in Nat \ {0}
  BY NowFits
<1>2. CASE tables' = tables
  BY <1>2 DEF Grown, TablesInv, Now, Fit, Sound, Rows
<1>3. CASE \E t \in Tables : Added(t)
  <2>1. PICK t \in Tables : Added(t)
    BY <1>3
  <2>2. tables' \in Seq(Tables) /\ Len(tables') = Len(tables) + 1
    BY <2>1 DEF Added, TablesInv
  <2>3. tables'[Len(tables) + 1] = t
    BY <2>1 DEF Added, TablesInv
  <2>4. \A k \in 1 .. Len(tables) : tables'[k] = tables[k]
    BY <2>1 DEF Added, TablesInv
  <2>5. \A k \in 1 .. Len(tables') : Fit(tables'[k])
    BY <2>1, <2>2, <2>3, <2>4, <1>1 DEF Added, TablesInv
  <2>6. t.at >= tables[Len(tables)].at
    BY <2>1, NowFits DEF Added, TablesInv, Now, Fit, Tables
  <2>7. \A k \in 2 .. Len(tables') : tables'[k].at >= tables'[k - 1].at
    <3>1. TAKE k \in 2 .. Len(tables')
    <3>2. CASE k = Len(tables) + 1
      BY <3>2, <2>3, <2>4, <2>6, <1>1
    <3>3. CASE k \in 2 .. Len(tables)
      BY <3>3, <2>4, <1>1 DEF TablesInv
    <3>4. QED
      BY <3>2, <3>3, <2>2, <1>1
  <2>8. Now'.at <= clock'
    <3>1. Now' = t /\ t.at = clock /\ clock' = clock /\ t.at \in 1 .. MaxClock
      BY <2>1, <2>2, <2>3 DEF Now, Added, Grown, Tables
    <3>2. QED
      BY <3>1, ClocksTyped
  <2>9. QED
    BY <2>2, <2>5, <2>7, <2>8, <1>1 DEF TablesInv, Fit, Sound, Rows
<1>4. QED
  BY <1>2, <1>3 DEF Grown

-----------------------------------------------------------------------------
(* Calls.  Of a call that lost its answer only the kind is left.           *)

Reading == {"ids", "rows", "count", "store"}

Fields(c) ==
    /\ stage[c] # "done" => answer[c] = "none"
    /\ job[c].from <= Len(tables)
    /\ stage[c] \in {"codeCheck", "update", "delete"} => job[c].id \in Rows(Now)
    /\ stage[c] = "rows" => job[c].ids \subseteq Rows(Now)
    /\ stage[c] \in Reading =>
          /\ job[c].page \in Pages
          /\ job[c].made <= job[c].since /\ job[c].since <= clock
          /\ clock <= job[c].since + MaxDelay
    /\ answer[c] = "listed" => job[c].page \in Pages /\ job[c].made <= clock

CatalogTyped ==
    /\ TablesInv
    /\ cache \in [Pages -> [list : List, until : Nat]]
    /\ clock \in 1 .. MaxClock
    /\ stage \in [Calls -> Stages]
    /\ job \in [Calls -> Jobs]
    /\ answer \in [Calls -> CatalogAnswers]
    /\ \A c \in Calls : Fields(c)

Stays(c) == job'[c] = job[c] /\ stage'[c] = stage[c] /\ answer'[c] = answer[c]

Lost(c) ==
    /\ stage'[c] = "done" /\ answer'[c] = "failed"
    /\ job'[c] = [NoJob EXCEPT !.kind = job[c].kind]

\* No call gets further.
Waits ==
    /\ Grown /\ cache' = cache
    /\ stage' \in [Calls -> Stages] /\ job' \in [Calls -> Jobs]
    /\ answer' \in [Calls -> CatalogAnswers]
    /\ \A c \in Calls : Stays(c) \/ Lost(c)

\* The steps of a call that may write something other than its loss.
Acts(c) == Create(c) \/ Edit(c) \/ MyCoupons(c) \/ CatalogServe(c)

Alone(c) == \A d \in Calls \ {c} : Stays(d)

LEMMA CatalogInitTyped == CatalogInit => CatalogTyped
<1> SUFFICES ASSUME CatalogInit PROVE CatalogTyped
  OBVIOUS
<1> DEFINE t == [code |-> [i \in Ids |-> NoCode], deleted |-> {},
                 issued |-> [i \in Ids |-> 0], at |-> 1]
<1>1. t \in Tables
  BY ClocksTyped DEF Tables
<1>2. Rows(t) = {}
  BY DEF Rows
<1>3. Fit(t)
  BY <1>1, <1>2 DEF Fit, Sound
<1>4. tables = <<t>> /\ Len(tables) = 1 /\ tables[1] = t /\ t.at = 1
  BY DEF CatalogInit
<1> HIDE DEF t
<1>5. TablesInv
  <2>1. clock = 1
    BY DEF CatalogInit
  <2>2. tables \in Seq(Tables)
    BY <1>1, <1>4
  <2>3. QED
    BY <1>3, <1>4, <2>1, <2>2 DEF TablesInv, Now
<1>6. NoList \in List /\ NoJob \in Jobs
  <2>1. {} \in SUBSET (Ids \X Codes) /\ {} \in SUBSET Ids
    OBVIOUS
  <2>2. NoList \in List
    BY <2>1 DEF NoList, List
  <2>3. 0 \in 0 .. MaxClock
    BY ClocksTyped
  <2>4. QED
    BY <2>1, <2>2, <2>3, Zenon DEF NoJob, Jobs
<1>7. \A c \in Calls : Fields(c)
  BY <1>4 DEF CatalogInit, Fields, Reading, NoJob
<1>8. QED
  BY <1>5, <1>6, <1>7, ClocksTyped DEF CatalogInit, CatalogTyped, Stages, CatalogAnswers

LEMMA WriteGrows ==
    ASSUME CatalogTyped, UNCHANGED clock, NEW t, NEW u, u = [t EXCEPT !.at = clock],
           Write(t), Fit(u), u.at = clock, Rows(Now) \subseteq Rows(u)
    PROVE  Grown
  BY DEF Write, Grown, Added, Fit

\* The INSERT writes a code that no row has, at an id without a row.
LEMMA InsertGrows ==
    ASSUME CatalogTyped, NEW c \in Calls, Insert(c)
    PROVE  Grown
<1>1. CASE tables' = tables
  BY <1>1 DEF Insert, Grown
<1>2. CASE tables' # tables
  <2>1. /\ Rows(Now) # Ids /\ job[c].code # NoCode /\ ~ Taken(Now, job[c].code)
        /\ Write([Now EXCEPT !.code[NewId] = job[c].code])
        /\ clock' = clock
    BY <1>2 DEF Insert
  <2>2. NewId \in Ids /\ NewId \notin Rows(Now)
    BY <2>1, NewIdFree
  <2>3. job[c].code \in Codes
    BY <2>1 DEF CatalogTyped, Jobs
  <2>4. PICK u : u = WithCode(Now, NewId, job[c].code, clock)
    OBVIOUS
  <2>5. Fit(u) /\ Rows(Now) \subseteq Rows(u) /\ u.at = clock
    <3>1. \A j \in Rows(Now) \ {NewId} : Now.code[j] # job[c].code
      BY <2>1 DEF Taken
    <3>2. Fit(Now) /\ clock \in 1 .. MaxClock
      BY NowFits DEF CatalogTyped
    <3>3. QED
      BY <2>2, <2>3, <2>4, <3>1, <3>2, CodeWritten
  <2>6. QED
    BY <2>1, <2>4, <2>5, WriteGrows, Zenon DEF WithCode
<1>3. QED
  BY <1>1, <1>2

\* The UPDATE writes a code that no other row has, or none.
LEMMA UpdateGrows ==
    ASSUME CatalogTyped, NEW c \in Calls, Update(c)
    PROVE  Grown
<1>1. CASE tables' = tables
  BY <1>1 DEF Update, Grown
<1>2. CASE tables' # tables
  <2>1. PICK i : i = job[c].id
    OBVIOUS
  <2>2. /\ job[c].asked # NoCode
        /\ \A j \in Rows(Now) \ {i} : Now.code[j] # job[c].asked
        /\ Write([Now EXCEPT !.code[i] = job[c].asked])
        /\ clock' = clock /\ stage[c] = "update"
    BY <1>2, <2>1 DEF Update
  <2>3. job[c].asked \in Codes /\ i \in Ids
    BY <2>1, <2>2 DEF CatalogTyped, Jobs, Fields, Rows
  <2>4. PICK u : u = WithCode(Now, i, job[c].asked, clock)
    OBVIOUS
  <2>5. Fit(u) /\ Rows(Now) \subseteq Rows(u) /\ u.at = clock
    <3>1. Fit(Now) /\ clock \in 1 .. MaxClock
      BY NowFits DEF CatalogTyped
    <3>2. QED
      BY <2>2, <2>3, <2>4, <3>1, CodeWritten
  <2>6. QED
    BY <2>2, <2>4, <2>5, WriteGrows, Zenon DEF WithCode
<1>3. QED
  BY <1>1, <1>2

LEMMA DeleteGrows ==
    ASSUME CatalogTyped, NEW c \in Calls, Delete(c)
    PROVE  Grown
<1>1. PICK i : i = job[c].id
  OBVIOUS
<1>2. i \in Rows(Now) /\ clock' = clock
  BY <1>1 DEF Delete, CatalogTyped, Fields
<1>3. Write([Now EXCEPT !.deleted = @ \cup {i}])
  BY <1>1 DEF Delete
<1>4. PICK u : u = Without(Now, i, clock)
  OBVIOUS
<1>5. Fit(u) /\ Rows(Now) \subseteq Rows(u) /\ u.at = clock
  <2>1. Fit(Now) /\ clock \in 1 .. MaxClock
    BY NowFits DEF CatalogTyped
  <2>2. QED
    BY <1>2, <1>4, <2>1, DeletionWritten
<1>6. QED
  BY <1>2, <1>3, <1>4, <1>5, WriteGrows, Zenon DEF Without

LEMMA GrantGrows ==
    ASSUME CatalogTyped, NEW i \in Ids, Grant(i)
    PROVE  Grown
<1>1. i \in Rows(Now) /\ clock' = clock /\ Write([Now EXCEPT !.issued[i] = clock])
  BY DEF Grant
<1>2. PICK u : u = Granted(Now, i, clock)
  OBVIOUS
<1>3. Fit(u) /\ Rows(Now) \subseteq Rows(u) /\ u.at = clock
  <2>1. Fit(Now) /\ clock \in 1 .. MaxClock
    BY NowFits DEF CatalogTyped
  <2>2. QED
    BY <1>1, <1>2, <2>1, GrantWritten
<1>4. QED
  BY <1>1, <1>2, <1>3, WriteGrows, Zenon DEF Granted

LEMMA ActsGrow ==
    ASSUME CatalogTyped, NEW c \in Calls, Acts(c)
    PROVE  Grown
<1>1. ASSUME Create(c) \/ Edit(c) \/ MyCoupons(c) PROVE Grown
  BY <1>1 DEF Create, Edit, MyCoupons, Request, Grown
<1>2. ASSUME UniqueCouponCode(c) \/ CodeCheck(c) \/ SelectIds(c) \/ SelectRows(c)
             \/ CountAll(c) \/ Store(c)
      PROVE Grown
  BY <1>2 DEF UniqueCouponCode, CodeCheck, SelectIds, SelectRows, CountAll, Store, Grown
<1>3. QED
  BY <1>1, <1>2, InsertGrows, UpdateGrows, DeleteGrows, Zenon DEF Acts, CatalogServe

\* A step is the clock's, or one that makes calls lose their answers, or grants,
\* or one of a call while the others wait.
LEMMA CatalogSteps ==
    ASSUME CatalogTyped, [CatalogNext]_catalogVars
    PROVE  \/ Tick
           \/ Waits
           \/ \E c \in Calls : Acts(c) /\ Grown /\ Alone(c)
<1> USE DEF CatalogTyped
<1>0. \A c \in Calls : [NoJob EXCEPT !.kind = job[c].kind] \in Jobs
  <2>1. NoList \in List
    <3>1. {} \in SUBSET (Ids \X Codes)
      OBVIOUS
    <3>2. QED
      BY <3>1 DEF NoList, List
  <2>2. QED
    BY <2>1, ClocksTyped DEF NoJob, Jobs
<1>1. ASSUME UNCHANGED catalogVars PROVE Waits
  BY <1>1 DEF catalogVars, Waits, Grown, Stays
<1>2. ASSUME CatalogCrash PROVE Waits
  <2>1. Grown /\ cache' = cache /\ \A c \in Calls : Stays(c) \/ Lost(c)
    BY <1>2 DEF CatalogCrash, Grown, Stays, Lost
  <2>2. job' \in [Calls -> Jobs]
    BY <1>2, <1>0 DEF CatalogCrash
  <2>3. stage' \in [Calls -> Stages] /\ answer' \in [Calls -> CatalogAnswers]
    BY <1>2 DEF CatalogCrash, Stages, CatalogAnswers
  <2>4. QED
    BY <2>1, <2>2, <2>3 DEF Waits
<1>3. ASSUME NEW i \in Ids, Grant(i) PROVE Waits
  <2>1. UNCHANGED <<cache, stage, job, answer>>
    BY <1>3 DEF Grant
  <2>2. QED
    BY <2>1, <1>3, GrantGrows DEF Waits, Stays
<1>4. ASSUME NEW c \in Calls, CatalogFail(c) PROVE Waits
  <2>1. Grown /\ cache' = cache /\ \A d \in Calls : Stays(d) \/ Lost(d)
    BY <1>4 DEF CatalogFail, Reply, Forget, Grown, Stays, Lost
  <2>2. job' \in [Calls -> Jobs]
    BY <1>4, <1>0 DEF CatalogFail, Forget
  <2>3. stage' \in [Calls -> Stages] /\ answer' \in [Calls -> CatalogAnswers]
    BY <1>4 DEF CatalogFail, Reply, Stages, CatalogAnswers
  <2>4. QED
    BY <2>1, <2>2, <2>3 DEF Waits
<1>5. ASSUME NEW c \in Calls, Acts(c) PROVE Alone(c)
  <2>1. ASSUME Create(c) \/ Edit(c) \/ MyCoupons(c) PROVE Alone(c)
    BY <2>1 DEF Create, Edit, MyCoupons, Request, MoveTo, Reply, Alone, Stays
  <2>2. ASSUME UniqueCouponCode(c) \/ Insert(c) \/ CodeCheck(c) \/ Update(c) \/ Delete(c)
        PROVE Alone(c)
    BY <2>2 DEF UniqueCouponCode, Insert, CodeCheck, Update, Delete, Acknowledged,
       MoveTo, Reply, Alone, Stays
  <2>3. ASSUME SelectIds(c) \/ SelectRows(c) \/ CountAll(c) \/ Store(c)
        PROVE Alone(c)
    BY <2>3 DEF SelectIds, SelectRows, CountAll, Store, MoveTo, Reply, Forget, Alone, Stays
  <2>4. QED
    BY <1>5, <2>1, <2>2, <2>3, Zenon DEF Acts, CatalogServe
<1>6. CASE CatalogNext
  <2>1. ASSUME NEW c \in Calls, Acts(c) PROVE Acts(c) /\ Grown /\ Alone(c)
    BY <2>1, <1>5, ActsGrow, Zenon
  <2>2. QED
    BY <1>6, <1>2, <1>3, <1>4, <2>1, Zenon DEF CatalogNext, Acts
<1>7. QED
  BY <1>1, <1>6

\* What waits, or is lost, stays well formed while the tables grow.
LEMMA FieldsKept ==
    ASSUME CatalogTyped, Grown, NEW c \in Calls, Stays(c) \/ Lost(c)
    PROVE  Fields(c)'
<1>1. CASE Stays(c)
  BY <1>1, PastStays DEF CatalogTyped, Fields, Stays, Grown, Jobs
<1>2. CASE Lost(c)
  BY <1>2, PastStays DEF Lost, Fields, NoJob, Reading
<1>3. QED
  BY <1>1, <1>2

LEMMA PageIds ==
    ASSUME NEW t, NEW page, NEW ids, IsPage(t, page, ids)
    PROVE  ids \subseteq Listed(t) /\ ids \subseteq Rows(t)
  BY DEF IsPage, NewestOf, Listed

LEMMA ListedFinite ==
    ASSUME NEW t
    PROVE  Cardinality(Listed(t)) \in Nat
<1>1. Listed(t) \subseteq Ids
  BY DEF Listed, Rows
<1>2. QED
  BY <1>1, IdsNumbered, FS_Subset, FS_CardinalityType

LEMMA RowsOfType ==
    ASSUME NEW t, Fit(t), NEW ids, ids \subseteq Rows(t)
    PROVE  RowsOf(t, ids) \subseteq Ids \X Codes
<1>1. \A i \in ids : i \in Ids /\ t.code[i] \in Codes
  BY DEF Fit, Tables, Rows
<1>2. QED
  BY <1>1 DEF RowsOf

\* The types of what a call changes.
LEMMA ActTypes ==
    ASSUME CatalogTyped, NEW c \in Calls, Acts(c)
    PROVE  /\ stage' \in [Calls -> Stages] /\ job' \in [Calls -> Jobs]
           /\ answer' \in [Calls -> CatalogAnswers]
<1> USE DEF CatalogTyped
<1>0. /\ 0 \in 0 .. MaxClock /\ clock \in 0 .. MaxClock /\ Len(tables) \in Nat
      /\ NoList \in List /\ Fit(Now)
  <2>1. {} \in SUBSET (Ids \X Codes)
    OBVIOUS
  <2>2. NoList \in List
    BY <2>1 DEF NoList, List
  <2>3. QED
    BY <2>2, ClocksTyped, NowFits
<1>1. ASSUME Create(c)
      PROVE  stage' \in [Calls -> Stages] /\ answer' \in [Calls -> CatalogAnswers]
  BY <1>1 DEF Create, MoveTo, Reply, Stages, CatalogAnswers
<1>2. ASSUME Edit(c)
      PROVE  stage' \in [Calls -> Stages] /\ answer' \in [Calls -> CatalogAnswers]
  BY <1>2 DEF Edit, MoveTo, Reply, Stages, CatalogAnswers
<1>3. ASSUME MyCoupons(c)
      PROVE  stage' \in [Calls -> Stages] /\ answer' \in [Calls -> CatalogAnswers]
  BY <1>3 DEF MyCoupons, MoveTo, Reply, Stages, CatalogAnswers
<1>4. ASSUME UniqueCouponCode(c) \/ Insert(c) \/ CodeCheck(c) \/ Update(c) \/ Delete(c)
      PROVE  stage' \in [Calls -> Stages] /\ answer' \in [Calls -> CatalogAnswers]
  BY <1>4 DEF UniqueCouponCode, Insert, CodeCheck, Update, Delete, Acknowledged,
     MoveTo, Reply, Stages, CatalogAnswers
<1>5. ASSUME SelectIds(c) \/ SelectRows(c) \/ CountAll(c) \/ Store(c)
      PROVE  stage' \in [Calls -> Stages] /\ answer' \in [Calls -> CatalogAnswers]
  BY <1>5 DEF SelectIds, SelectRows, CountAll, Store, MoveTo, Reply, Stages, CatalogAnswers
<1>6. ASSUME Create(c) PROVE job' \in [Calls -> Jobs]
  <2>1. PICK asked \in Codes \cup {NoCode} :
           job' = [job EXCEPT ![c] = [NoJob EXCEPT !.kind = "create",
              !.from = Len(tables), !.asked = asked, !.code = asked]]
    BY <1>6 DEF Create, Request
  <2>2. QED
    BY <2>1, <1>0 DEF NoJob, Jobs
<1>7. ASSUME Edit(c) PROVE job' \in [Calls -> Jobs]
  <2>1. PICK i \in Ids, asked \in Codes \cup {NoCode}, kind \in {"update", "delete"} :
           job' = [job EXCEPT ![c] = [NoJob EXCEPT !.kind = kind,
              !.from = Len(tables), !.id = i, !.asked = asked]]
    BY <1>7 DEF Edit, Request
  <2>2. QED
    BY <2>1, <1>0 DEF NoJob, Jobs
<1>8. ASSUME MyCoupons(c) PROVE job' \in [Calls -> Jobs]
  <2>1. PICK page \in Pages :
          LET j == [NoJob EXCEPT !.kind = "list", !.page = page, !.made = clock]
          IN \/ job' = [job EXCEPT ![c] = [j EXCEPT !.list = cache[page].list]]
             \/ job' = [job EXCEPT ![c] = [j EXCEPT !.since = clock]]
    BY <1>8 DEF MyCoupons, Request, Cached
  <2>2. PICK j \in Jobs : j = [NoJob EXCEPT !.kind = "list", !.page = page, !.made = clock]
    BY <1>0 DEF NoJob, Jobs
  <2>3. PICK list \in List : list = cache[page].list
    OBVIOUS
  <2>4. [j EXCEPT !.list = list] \in Jobs /\ [j EXCEPT !.since = clock] \in Jobs
    BY <1>0 DEF Jobs
  <2>5. \/ job' = [job EXCEPT ![c] = [j EXCEPT !.list = list]]
        \/ job' = [job EXCEPT ![c] = [j EXCEPT !.since = clock]]
    BY <2>1, <2>2, <2>3
  <2>6. QED
    BY <2>4, <2>5
<1>9. ASSUME UniqueCouponCode(c) PROVE job' \in [Calls -> Jobs]
  <2>1. PICK j \in Jobs : j = job[c]
    OBVIOUS
  <2>2. CASE UNCHANGED job
    BY <2>2
  <2>3. ASSUME NEW code \in Codes, job' = [job EXCEPT ![c].code = code]
        PROVE  job' \in [Calls -> Jobs]
    <3>1. [j EXCEPT !.code = code] \in Jobs
      BY DEF Jobs
    <3>2. job' = [job EXCEPT ![c] = [j EXCEPT !.code = code]]
      BY <2>1, <2>3
    <3>3. QED
      BY <3>1, <3>2
  <2>4. QED
    BY <1>9, <2>2, <2>3 DEF UniqueCouponCode
<1>10. ASSUME Insert(c) \/ CodeCheck(c) \/ Update(c) \/ Delete(c)
       PROVE  job' \in [Calls -> Jobs]
  BY <1>10 DEF Insert, CodeCheck, Update, Delete
<1>11. ASSUME SelectIds(c) PROVE job' \in [Calls -> Jobs]
  <2>1. PICK j \in Jobs : j = job[c]
    OBVIOUS
  <2>2. PICK ids \in SUBSET Ids : job' = [job EXCEPT ![c].ids = ids, ![c].since = clock]
    BY <1>11 DEF SelectIds
  <2>3. [j EXCEPT !.ids = ids, !.since = clock] \in Jobs
    BY <1>0 DEF Jobs
  <2>4. job' = [job EXCEPT ![c] = [j EXCEPT !.ids = ids, !.since = clock]]
    BY <2>1, <2>2
  <2>5. QED
    BY <2>3, <2>4
<1>12. ASSUME SelectRows(c) PROVE job' \in [Calls -> Jobs]
  <2>1. RowsOf(Now, job[c].ids) \subseteq Ids \X Codes
    BY <1>12, <1>0, RowsOfType DEF SelectRows, Fields
  <2>2. PICK j \in Jobs : j = job[c]
    OBVIOUS
  <2>3. PICK rows \in SUBSET (Ids \X Codes) : rows = RowsOf(Now, job[c].ids)
    BY <2>1
  <2>4. job' = [job EXCEPT ![c] = [j EXCEPT !.list = [j.list EXCEPT !.rows = rows]]]
    BY <1>12, <2>2, <2>3 DEF SelectRows
  <2>5. [j.list EXCEPT !.rows = rows] \in List
    BY DEF Jobs, List
  <2>6. QED
    BY <2>4, <2>5 DEF Jobs
<1>13. ASSUME CountAll(c) PROVE job' \in [Calls -> Jobs]
  <2>1. PICK j \in Jobs : j = job[c]
    OBVIOUS
  <2>2. PICK total \in Nat : total = Cardinality(Listed(Now))
    BY ListedFinite
  <2>3. job' = [job EXCEPT ![c] = [j EXCEPT !.list = [j.list EXCEPT !.total = total]]]
    BY <1>13, <2>1, <2>2 DEF CountAll
  <2>4. [j.list EXCEPT !.total = total] \in List
    BY DEF Jobs, List
  <2>5. QED
    BY <2>3, <2>4 DEF Jobs
<1>14. ASSUME Store(c) PROVE job' \in [Calls -> Jobs]
  <2>1. CASE job' = [job EXCEPT ![c].ids = {}, ![c].since = 0]
    <3>1. PICK j \in Jobs : j = job[c]
      OBVIOUS
    <3>2. [j EXCEPT !.ids = {}, !.since = 0] \in Jobs
      BY <1>0 DEF Jobs
    <3>3. job' = [job EXCEPT ![c] = [j EXCEPT !.ids = {}, !.since = 0]]
      BY <2>1, <3>1
    <3>4. QED
      BY <3>2, <3>3
  <2>2. CASE Forget(c)
    BY <2>2, <1>0 DEF Forget, NoJob, Jobs
  <2>3. QED
    BY <1>14, <2>1, <2>2 DEF Store
<1>15. QED
  BY <1>1, <1>2, <1>3, <1>4, <1>5, <1>6, <1>7, <1>8, <1>9, <1>10, <1>11, <1>12, <1>13,
     <1>14, Zenon DEF Acts, CatalogServe

LEMMA ActFields ==
    ASSUME CatalogTyped, NEW c \in Calls, Acts(c)
    PROVE  Fields(c)'
<1> USE DEF CatalogTyped
<1>0. /\ Grown /\ clock' = clock /\ Len(tables) \in Nat /\ Len(tables') \in Nat
      /\ Len(tables) <= Len(tables') /\ Rows(Now) \subseteq Rows(Now')
      /\ Fields(c) /\ clock \in Nat
  BY ActsGrow, PastStays DEF Grown
<1>1. ASSUME Create(c) PROVE Fields(c)'
  <2>1. stage'[c] \in {"unique", "done"} /\ answer'[c] \in {answer[c], "conflict"}
    BY <1>1 DEF Create, MoveTo, Reply
  <2>2. stage[c] = "idle" /\ (stage'[c] # "done" => answer'[c] = answer[c])
    BY <1>1 DEF Create, Request, MoveTo, Reply
  <2>3. job'[c].from = Len(tables)
    BY <1>1 DEF Create, Request, NoJob
  <2>4. QED
    BY <1>0, <2>1, <2>2, <2>3 DEF Fields, Reading
<1>2. ASSUME Edit(c) PROVE Fields(c)'
  <2>1. stage'[c] \in {"codeCheck", "update", "delete", "done"}
    BY <1>2 DEF Edit, MoveTo, Reply
  <2>2. /\ answer'[c] \in {answer[c], "notFound"}
        /\ stage'[c] # "done" => answer'[c] = answer[c] /\ job'[c].id \in Rows(Now)
    BY <1>2 DEF Edit, Request, MoveTo, Reply, NoJob
  <2>3. job'[c].from = Len(tables) /\ stage[c] = "idle"
    BY <1>2 DEF Edit, Request, NoJob
  <2>4. answer[c] = "none"
    BY <1>0, <2>3 DEF Fields
  <2>5. stage'[c] # "done" => job'[c].id \in Rows(Now')
    BY <1>0, <2>2
  <2>6. stage'[c] \notin Reading \cup {"rows"} /\ answer'[c] # "listed"
    BY <2>1, <2>2, <2>4 DEF Reading
  <2>7. job'[c].from <= Len(tables')
    BY <1>0, <2>3
  <2>8. stage'[c] # "done" => answer'[c] = "none"
    BY <2>2, <2>4
  <2>9. QED
    BY <2>1, <2>5, <2>6, <2>7, <2>8 DEF Fields, Reading
<1>3. ASSUME MyCoupons(c) PROVE Fields(c)'
  <2>1. /\ job'[c].from = 0 /\ stage[c] = "idle" /\ job'[c].page \in Pages
        /\ job'[c].made = clock
    <3>1. PICK page \in Pages :
            LET j == [NoJob EXCEPT !.kind = "list", !.page = page, !.made = clock]
            IN \/ job' = [job EXCEPT ![c] = [j EXCEPT !.list = cache[page].list]]
               \/ job' = [job EXCEPT ![c] = [j EXCEPT !.since = clock]]
      BY <1>3 DEF MyCoupons, Request, Cached
    <3>2. PICK list : list = cache[page].list
      OBVIOUS
    <3>3. job'[c].from = 0 /\ job'[c].page = page /\ job'[c].made = clock
      BY <3>1, <3>2 DEF NoJob
    <3>4. QED
      BY <3>3, <1>3 DEF MyCoupons, Request
  <2>2. \/ stage'[c] = "done"
        \/ stage'[c] = "ids" /\ answer'[c] = answer[c] /\ job'[c].since = clock
    BY <1>3 DEF MyCoupons, Request, MoveTo, Reply, NoJob
  <2>3. QED
    BY <1>0, <2>1, <2>2, ClocksTyped DEF Fields, Reading
<1>4. ASSUME UniqueCouponCode(c) PROVE Fields(c)'
  <2>1. stage[c] = "unique" /\ stage'[c] \in {"unique", "insert"} /\ answer'[c] = answer[c]
    BY <1>4 DEF UniqueCouponCode, MoveTo
  <2>2. job'[c].from = job[c].from
    BY <1>4 DEF UniqueCouponCode, Jobs
  <2>3. QED
    BY <1>0, <2>1, <2>2 DEF Fields, Reading, Jobs
<1>5. ASSUME Insert(c) \/ Update(c) \/ Delete(c) PROVE Fields(c)'
  <2>1. /\ stage'[c] = "done" /\ job'[c] = job[c]
        /\ answer'[c] \in {"failed", "created", "updated", "deleted"}
    BY <1>5 DEF Insert, Update, Delete, Acknowledged, Reply
  <2>2. QED
    BY <1>0, <2>1 DEF Fields, Reading, Jobs
<1>6. ASSUME CodeCheck(c) PROVE Fields(c)'
  <2>1. /\ job'[c] = job[c] /\ stage[c] = "codeCheck"
        /\ \/ stage'[c] = "done" /\ answer'[c] = "conflict"
           \/ stage'[c] = "update" /\ answer'[c] = answer[c]
    BY <1>6 DEF CodeCheck, MoveTo, Reply
  <2>2. QED
    BY <1>0, <2>1 DEF Fields, Reading, Jobs
<1>7. ASSUME SelectIds(c) PROVE Fields(c)'
  <2>1. PICK ids \in SUBSET Ids :
          /\ IsPage(Now, job[c].page, ids)
          /\ job' = [job EXCEPT ![c].ids = ids, ![c].since = clock]
          /\ stage[c] = "ids" /\ tables' = tables
          /\ MoveTo(c, IF ids = {} THEN "count" ELSE "rows")
    BY <1>7 DEF SelectIds
  <2>2. stage'[c] \in {"count", "rows"} /\ answer'[c] = answer[c]
    BY <2>1 DEF MoveTo
  <2>3. /\ job'[c].ids = ids /\ job'[c].since = clock /\ job'[c].from = job[c].from
        /\ job'[c].page = job[c].page /\ job'[c].made = job[c].made
    BY <2>1 DEF Jobs
  <2>4. ids \subseteq Rows(Now')
    BY <2>1, <1>0, PageIds
  <2>5. job[c].made <= clock /\ job[c].page \in Pages
    BY <2>1, <1>0 DEF Fields, Reading, Jobs
  <2>6. QED
    BY <1>0, <2>1, <2>2, <2>3, <2>4, <2>5, ClocksTyped DEF Fields, Reading, Jobs
<1>8. ASSUME SelectRows(c) \/ CountAll(c) PROVE Fields(c)'
  <2>1. /\ stage[c] \in {"rows", "count"} /\ stage'[c] \in {"count", "store"}
        /\ answer'[c] = answer[c]
    BY <1>8 DEF SelectRows, CountAll, MoveTo
  <2>2. /\ job'[c].since = job[c].since /\ job'[c].from = job[c].from
        /\ job'[c].page = job[c].page /\ job'[c].made = job[c].made
    BY <1>8 DEF SelectRows, CountAll, Jobs
  <2>3. QED
    BY <1>0, <2>1, <2>2 DEF Fields, Reading, Jobs
<1>9. ASSUME Store(c) PROVE Fields(c)'
  <2>1. stage[c] = "store" /\ stage'[c] = "done"
    BY <1>9 DEF Store, Reply
  <2>2. \/ /\ answer'[c] = "listed" /\ job'[c].from = job[c].from
           /\ job'[c].page = job[c].page /\ job'[c].made = job[c].made
        \/ answer'[c] = "failed" /\ job'[c].from = 0
    BY <1>9 DEF Store, Reply, Forget, NoJob, Jobs
  <2>3. QED
    BY <1>0, <2>1, <2>2 DEF Fields, Reading, Jobs
<1>10. QED
  BY <1>1, <1>2, <1>3, <1>4, <1>5, <1>6, <1>7, <1>8, <1>9, Zenon DEF Acts, CatalogServe

LEMMA CacheTyped ==
    ASSUME CatalogTyped, NEW c \in Calls, Acts(c)
    PROVE  cache' \in [Pages -> [list : List, until : Nat]]
<1> USE DEF CatalogTyped
<1>1. CASE UNCHANGED cache
  BY <1>1
<1>2. CASE Store(c)
  <2>1. job[c].page \in Pages /\ job[c].list \in List
    BY <1>2 DEF Store, Fields, Reading, Jobs
  <2>2. TTL[job[c].page] \in Nat
    BY <2>1, TTLTyped DEF Pages
  <2>3. clock + TTL[job[c].page] \in Nat
    BY <2>2
  <2>4. QED
    BY <1>2, <2>1, <2>3 DEF Store
<1>3. QED
  BY <1>1, <1>2 DEF Acts, CatalogServe, Create, Edit, MyCoupons, UniqueCouponCode, Insert,
     CodeCheck, Update, Delete, SelectIds, SelectRows, CountAll

LEMMA TickTyped ==
    ASSUME CatalogTyped, Tick
    PROVE  CatalogTyped'
<1> USE DEF CatalogTyped
<1>1. /\ UNCHANGED <<tables, cache, stage, job, answer>>
      /\ clock' = clock + 1 /\ clock' \in 1 .. MaxClock
  BY ClocksTyped DEF Tick
<1>2. TablesInv'
  <2>1. Now.at \in Nat
    BY NowFits, ClocksTyped DEF Fit, Tables
  <2>2. QED
    <3>1. Now.at <= clock'
      BY <1>1, <2>1, ClocksTyped DEF TablesInv
    <3>2. QED
      BY <1>1, <3>1 DEF TablesInv, Now, Fit, Sound, Rows
<1>3. ASSUME NEW c \in Calls PROVE Fields(c)'
  <2>1. stage[c] \in Reading => clock < job[c].since + MaxDelay
    BY DEF Tick, Reading
  <2>2. job[c].since \in Nat /\ job[c].made \in Nat
    BY DEF Jobs
  <2>3. Now' = Now
    BY <1>1 DEF Now
  <2>4. QED
    BY <1>1, <2>1, <2>2, <2>3, ClocksTyped DEF Fields
<1>4. QED
  BY <1>1, <1>2, <1>3

LEMMA CatalogTypedStep == CatalogTyped /\ [CatalogNext]_catalogVars => CatalogTyped'
<1> SUFFICES ASSUME CatalogTyped, [CatalogNext]_catalogVars PROVE CatalogTyped'
  OBVIOUS
<1>1. CASE Waits
  <2>1. TablesInv' /\ \A c \in Calls : Fields(c)'
    BY <1>1, TablesKept, FieldsKept DEF CatalogTyped, Waits
  <2>2. QED
    BY <1>1, <2>1 DEF CatalogTyped, Waits, Grown
<1>2. ASSUME NEW c \in Calls, Acts(c), Grown, Alone(c) PROVE CatalogTyped'
  <2>1. \A d \in Calls : Fields(d)'
    BY <1>2, FieldsKept, ActFields, Zenon DEF Alone
  <2>2. QED
    BY <1>2, <2>1, ActTypes, CacheTyped, TablesKept DEF CatalogTyped, Grown
<1>3. QED
  BY <1>1, <1>2, TickTyped, CatalogSteps

\* Tables, pages, calls and answers hold values of their kind; codes are unique in
\* every table that there ever was, deleted coupons included.
THEOREM CatalogTypeCorrect == CatalogSpec => []CatalogTypeOK
<1>1. CatalogTyped => CatalogTypeOK
  <2> SUFFICES ASSUME CatalogTyped PROVE CatalogTypeOK
    OBVIOUS
  <2>1. \A p \in Pages : cache[p].list \in List /\ cache[p].until \in Nat
    BY DEF CatalogTyped
  <2>2. DOMAIN tables = 1 .. Len(tables) /\ \A k \in DOMAIN tables : Sound(tables[k])
    BY NowFits DEF CatalogTyped, TablesInv, Fit
  <2>3. QED
    BY <2>1, <2>2 DEF CatalogTyped, TablesInv, CatalogTypeOK
<1>2. QED
  BY <1>1, CatalogInitTyped, CatalogTypedStep, PTL DEF CatalogSpec

-----------------------------------------------------------------------------
(* Codes.  A creation whose code is not the one that was asked for has met *)
(* a row with that one, and so has a call that is refused.                 *)

Had(ts, from, code) == \E k \in 1 .. Len(ts) : from <= k /\ Taken(ts[k], code)

CodeTrue(c) ==
    /\ stage[c] \in {"unique", "insert"} \/ answer[c] = "created" =>
          (job[c].asked # NoCode /\ job[c].code # job[c].asked =>
              Had(tables, job[c].from, job[c].asked))
    /\ answer[c] = "conflict" => Had(tables, job[c].from, job[c].asked)

CodeInv == \A c \in Calls : CodeTrue(c)

LEMMA HadStays ==
    ASSUME TablesInv, Grown, NEW from, NEW code, Had(tables, from, code)
    PROVE  Had(tables', from, code)
<1>1. PICK k \in 1 .. Len(tables) : from <= k /\ Taken(tables[k], code)
  BY DEF Had
<1>2. k \in 1 .. Len(tables') /\ tables'[k] = tables[k]
  BY PastStays
<1>3. QED
  BY <1>1, <1>2 DEF Had

\* A code that a row has now was taken since any earlier table.
LEMMA TakenNow ==
    ASSUME TablesInv, Grown, NEW from \in Nat, from <= Len(tables),
           NEW code, Taken(Now, code)
    PROVE  Had(tables', from, code)
<1>1. Len(tables) \in 1 .. Len(tables) /\ Now = tables[Len(tables)]
  BY NowFits DEF Now
<1>2. Had(tables, from, code)
  BY <1>1 DEF Had
<1>3. QED
  BY <1>2, HadStays

LEMMA CodeKept ==
    ASSUME TablesInv, Grown, NEW c \in Calls, CodeTrue(c), Stays(c) \/ Lost(c)
    PROVE  CodeTrue(c)'
<1>1. CASE Stays(c)
  BY <1>1, HadStays DEF Stays, CodeTrue
<1>2. CASE Lost(c)
  BY <1>2 DEF Lost, CodeTrue
<1>3. QED
  BY <1>1, <1>2

LEMMA ActCode ==
    ASSUME CatalogTyped, NEW c \in Calls, CodeTrue(c), Acts(c)
    PROVE  CodeTrue(c)'
<1> USE DEF CatalogTyped
<1>0. Grown /\ Fields(c) /\ job[c] \in Jobs /\ job[c].from \in Nat /\ Len(tables) \in Nat
  BY ActsGrow, NowFits DEF Jobs
<1>1. ASSUME Create(c) PROVE CodeTrue(c)'
  <2>1. PICK asked : /\ job'[c].from = Len(tables) /\ job'[c].asked = asked /\ job'[c].code = asked
                     /\ answer'[c] = "conflict" \/ answer'[c] = answer[c]
                     /\ answer'[c] = "conflict" /\ answer[c] # "conflict" => Taken(Now, asked)
    BY <1>1 DEF Create, Request, MoveTo, Reply, NoJob, Taken
  <2>2. answer[c] = "none"
    BY <1>1, <1>0 DEF Create, Request, Fields
  <2>3. answer'[c] = "conflict" => Had(tables', Len(tables), asked)
    BY <2>1, <2>2, <1>0, TakenNow
  <2>4. QED
    BY <2>1, <2>2, <2>3 DEF CodeTrue
<1>2. ASSUME Edit(c) \/ MyCoupons(c) PROVE CodeTrue(c)'
  <2>1. stage'[c] \notin {"unique", "insert"} /\ answer'[c] \in {"none", "notFound", "listed"}
    BY <1>2, <1>0 DEF Edit, MyCoupons, Request, MoveTo, Reply, Fields
  <2>2. QED
    BY <2>1 DEF CodeTrue
<1>3. ASSUME UniqueCouponCode(c) PROVE CodeTrue(c)'
  <2>1. /\ job'[c].from = job[c].from /\ job'[c].asked = job[c].asked
        /\ stage[c] = "unique" /\ answer'[c] = "none"
    BY <1>3, <1>0 DEF UniqueCouponCode, MoveTo, Fields, Jobs
  <2>2. job'[c].code = job[c].code \/ Exists(job[c].code)
    BY <1>3 DEF UniqueCouponCode
  <2>3. ASSUME job[c].asked # NoCode, job[c].code = job[c].asked, Exists(job[c].code)
        PROVE  Had(tables', job[c].from, job[c].asked)
    BY <2>3, <1>0, TakenNow DEF Exists, Fields
  <2>4. ASSUME job[c].asked # NoCode, job[c].code # job[c].asked
        PROVE  Had(tables', job[c].from, job[c].asked)
    BY <2>1, <2>4, <1>0, HadStays DEF CodeTrue
  <2>5. QED
    BY <2>1, <2>2, <2>3, <2>4 DEF CodeTrue
<1>4. ASSUME Insert(c) PROVE CodeTrue(c)'
  <2>1. /\ job'[c] = job[c] /\ stage[c] = "insert" /\ stage'[c] = "done"
        /\ answer'[c] \in {"created", "failed"}
    BY <1>4 DEF Insert, Acknowledged, Reply
  <2>2. QED
    BY <2>1, <1>0, HadStays DEF CodeTrue
<1>5. ASSUME CodeCheck(c) PROVE CodeTrue(c)'
  <2>1. /\ job'[c] = job[c] /\ stage'[c] \notin {"unique", "insert"}
        /\ \/ answer'[c] = "conflict" /\ Taken(Now, job[c].asked)
           \/ answer'[c] = "none"
    BY <1>5, <1>0 DEF CodeCheck, MoveTo, Reply, Fields
  <2>2. QED
    BY <2>1, <1>0, TakenNow DEF CodeTrue, Fields
<1>6. ASSUME Update(c) \/ Delete(c) \/ SelectIds(c) \/ SelectRows(c) \/ CountAll(c) \/ Store(c)
      PROVE  CodeTrue(c)'
  <2>1. /\ stage'[c] \notin {"unique", "insert"}
        /\ answer'[c] \notin {"created", "conflict"}
    BY <1>6, <1>0 DEF Update, Delete, SelectIds, SelectRows, CountAll, Store,
       Acknowledged, MoveTo, Reply, Fields
  <2>2. QED
    BY <2>1 DEF CodeTrue
<1>7. QED
  BY <1>1, <1>2, <1>3, <1>4, <1>5, <1>6, Zenon DEF Acts, CatalogServe

LEMMA CodeStep == CatalogTyped /\ CodeInv /\ [CatalogNext]_catalogVars => CodeInv'
<1> SUFFICES ASSUME CatalogTyped, CodeInv, [CatalogNext]_catalogVars PROVE CodeInv'
  OBVIOUS
<1>1. CASE Tick
  BY <1>1 DEF Tick, CodeInv, CodeTrue
<1>2. CASE Waits
  BY <1>2, CodeKept DEF Waits, CodeInv, CatalogTyped
<1>3. ASSUME NEW c \in Calls, Acts(c), Grown, Alone(c) PROVE CodeInv'
  BY <1>3, CodeKept, ActCode DEF Alone, CodeInv, CatalogTyped
<1>4. QED
  BY <1>1, <1>2, <1>3, CatalogSteps

\* A new coupon has the code that was asked for unless a coupon had it while the
\* call ran, and only then a creation or an edit is refused as a conflict
\* (createCoupon, updateCoupon), however calls overlap and fail.
THEOREM CodesCorrect == CatalogSpec => []CodeAsAsked
<1>1. CatalogInit => CodeInv
  BY DEF CatalogInit, CodeInv, CodeTrue
<1>2. CatalogTyped /\ CodeInv => CodeAsAsked
  <2> SUFFICES ASSUME CatalogTyped, CodeInv PROVE CodeAsAsked
    OBVIOUS
  <2>1. ASSUME NEW c \in Calls, Had(tables, job[c].from, job[c].asked)
        PROVE  \E t \in During(c) : Taken(t, job[c].asked)
    <3>1. PICK k \in 1 .. Len(tables) :
             job[c].from <= k /\ Taken(tables[k], job[c].asked)
      BY <2>1 DEF Had
    <3>2. job[c].from \in Nat /\ Len(tables) \in Nat
      BY NowFits DEF CatalogTyped, Jobs
    <3>3. tables[k] \in During(c)
      BY <3>1, <3>2 DEF During
    <3>4. QED
      BY <3>1, <3>3
  <2>2. QED
    BY <2>1 DEF CodeInv, CodeTrue, CodeAsAsked
<1>3. QED
  BY <1>1, <1>2, CatalogInitTyped, CatalogTypedStep, CodeStep, PTL DEF CatalogSpec

-----------------------------------------------------------------------------
(* Lists.  While a list is queried, what it has so far was true since its  *)
(* first query; a cached list was true TTL and MaxDelay before it expires. *)

OnPage(ts, i, ids, page, since) ==
    /\ i < Len(ts) => ts[i + 1].at >= since
    /\ IsPage(ts[i], page, ids)

HadRows(ts, rows, i, ids) == \E j \in i .. Len(ts) : rows = RowsOf(ts[j], ids)

ListTrue(ts, list, page, since) ==
    \E i \in 1 .. Len(ts) : \E ids \in SUBSET Ids :
        /\ OnPage(ts, i, ids, page, since)
        /\ \E j \in i .. Len(ts) :
            /\ list.rows = RowsOf(ts[j], ids)
            /\ \E k \in j .. Len(ts) : list.total = Cardinality(Listed(ts[k]))

PageTrue(c) ==
    /\ stage[c] = "ids" => job[c].list.rows = {}
    /\ stage[c] = "rows" => \E i \in 1 .. Len(tables) :
          OnPage(tables, i, job[c].ids, job[c].page, job[c].since)
    /\ stage[c] = "count" => \E i \in 1 .. Len(tables) : \E ids \in SUBSET Ids :
          /\ OnPage(tables, i, ids, job[c].page, job[c].since)
          /\ HadRows(tables, job[c].list.rows, i, ids)
    /\ stage[c] = "store" => ListTrue(tables, job[c].list, job[c].page, job[c].since)
    /\ answer[c] = "listed" =>
          ListTrue(tables, job[c].list, job[c].page,
                   job[c].made - TTL[job[c].page] - MaxDelay)

CacheTrue(p) == cache[p].until # 0 =>
    /\ cache[p].until <= clock + TTL[p]
    /\ ListTrue(tables, cache[p].list, p, cache[p].until - TTL[p] - MaxDelay)

PageInv ==
    /\ \A c \in Calls : PageTrue(c)
    /\ \A p \in Pages : CacheTrue(p)

LEMMA OnPageStays ==
    ASSUME TablesInv, Grown, NEW i \in 1 .. Len(tables), NEW ids, NEW page, NEW since,
           since <= clock, OnPage(tables, i, ids, page, since)
    PROVE  OnPage(tables', i, ids, page, since)
<1>1. /\ Len(tables) \in Nat /\ Len(tables') \in Nat
      /\ \A k \in 1 .. Len(tables) : tables'[k] = tables[k]
      /\ \A k \in Len(tables) + 1 .. Len(tables') : tables'[k].at = clock
  BY PastStays
<1>2. tables'[i] = tables[i]
  BY <1>1
<1>3. ASSUME i < Len(tables') PROVE tables'[i + 1].at >= since
  <2>1. CASE i < Len(tables)
    <3>1. i + 1 \in 1 .. Len(tables)
      BY <2>1, <1>1
    <3>2. QED
      BY <2>1, <3>1, <1>1 DEF OnPage
  <2>2. CASE i = Len(tables)
    <3>1. i + 1 \in Len(tables) + 1 .. Len(tables')
      BY <2>2, <1>3, <1>1
    <3>2. QED
      BY <3>1, <1>1
  <2>3. QED
    BY <2>1, <2>2, <1>1
<1>4. QED
  BY <1>2, <1>3 DEF OnPage

LEMMA HadRowsStays ==
    ASSUME TablesInv, Grown, NEW i \in 1 .. Len(tables), NEW ids, NEW rows,
           HadRows(tables, rows, i, ids)
    PROVE  HadRows(tables', rows, i, ids)
<1>1. PICK j \in i .. Len(tables) : rows = RowsOf(tables[j], ids)
  BY DEF HadRows
<1>2. j \in i .. Len(tables') /\ j \in 1 .. Len(tables)
  BY PastStays
<1>3. tables'[j] = tables[j]
  BY <1>2, PastStays
<1>4. QED
  BY <1>1, <1>2, <1>3 DEF HadRows

LEMMA ListStays ==
    ASSUME TablesInv, Grown, NEW list, NEW page, NEW since,
           since <= clock, ListTrue(tables, list, page, since)
    PROVE  ListTrue(tables', list, page, since)
<1>1. PICK i \in 1 .. Len(tables) : \E ids \in SUBSET Ids :
        /\ OnPage(tables, i, ids, page, since)
        /\ \E j \in i .. Len(tables) :
            /\ list.rows = RowsOf(tables[j], ids)
            /\ \E k \in j .. Len(tables) : list.total = Cardinality(Listed(tables[k]))
  BY DEF ListTrue
<1>2. PICK ids \in SUBSET Ids :
        /\ OnPage(tables, i, ids, page, since)
        /\ \E j \in i .. Len(tables) :
            /\ list.rows = RowsOf(tables[j], ids)
            /\ \E k \in j .. Len(tables) : list.total = Cardinality(Listed(tables[k]))
  BY <1>1
<1>3. PICK j \in i .. Len(tables) :
        /\ list.rows = RowsOf(tables[j], ids)
        /\ \E k \in j .. Len(tables) : list.total = Cardinality(Listed(tables[k]))
  BY <1>2
<1>4. PICK k \in j .. Len(tables) : list.total = Cardinality(Listed(tables[k]))
  BY <1>3
<1>5. /\ i \in 1 .. Len(tables') /\ j \in i .. Len(tables') /\ k \in j .. Len(tables')
      /\ j \in 1 .. Len(tables) /\ k \in 1 .. Len(tables)
  BY PastStays
<1>6. tables'[j] = tables[j] /\ tables'[k] = tables[k]
  BY <1>5, PastStays
<1>7. OnPage(tables', i, ids, page, since)
  BY <1>2, OnPageStays
<1>8. QED
  BY <1>3, <1>4, <1>5, <1>6, <1>7 DEF ListTrue

\* What was true since some time was true since any earlier one.
LEMMA ListOlder ==
    ASSUME TablesInv, NEW list, NEW page, NEW since \in Int, NEW earlier \in Int,
           earlier <= since, ListTrue(tables, list, page, since)
    PROVE  ListTrue(tables, list, page, earlier)
<1>1. ASSUME NEW i \in 1 .. Len(tables), NEW ids, OnPage(tables, i, ids, page, since)
      PROVE  OnPage(tables, i, ids, page, earlier)
  <2>1. ASSUME i < Len(tables) PROVE tables[i + 1].at >= earlier
    <3>1. i + 1 \in 1 .. Len(tables)
      BY <2>1, NowFits
    <3>2. tables[i + 1].at \in Int
      BY <3>1, ClocksTyped DEF TablesInv, Fit, Tables
    <3>3. tables[i + 1].at >= since
      BY <2>1, <1>1 DEF OnPage
    <3>4. QED
      BY <3>2, <3>3
  <2>2. QED
    BY <1>1, <2>1 DEF OnPage
<1>2. QED
  BY <1>1 DEF ListTrue

LEMMA TTLType == ASSUME NEW p \in Pages PROVE TTL[p] \in Nat
  BY TTLTyped DEF Pages

LEMMA PageKept ==
    ASSUME CatalogTyped, Grown, NEW c \in Calls, PageTrue(c), Stays(c) \/ Lost(c)
    PROVE  PageTrue(c)'
<1>1. CASE Lost(c)
  BY <1>1 DEF Lost, PageTrue
<1>2. CASE Stays(c)
  <2>1. TablesInv /\ Fields(c) /\ clock \in Nat /\ MaxDelay \in Nat
    BY ClocksTyped DEF CatalogTyped
  <2>2. job[c].made \in Nat /\ job[c].since \in Nat
    BY ClocksTyped DEF CatalogTyped, Jobs
  <2>3. /\ stage'[c] = "ids" => job'[c].list.rows = {}
        /\ stage'[c] = "store" => ListTrue(tables', job'[c].list, job'[c].page, job'[c].since)
    BY <1>2, <2>1, ListStays DEF PageTrue, Stays, Fields, Reading
  <2>4. ASSUME stage[c] = "rows"
        PROVE  \E i \in 1 .. Len(tables') :
                  OnPage(tables', i, job[c].ids, job[c].page, job[c].since)
    <3>1. PICK i \in 1 .. Len(tables) :
             OnPage(tables, i, job[c].ids, job[c].page, job[c].since)
      BY <2>4 DEF PageTrue
    <3>2. job[c].since <= clock /\ i \in 1 .. Len(tables')
      BY <2>1, <2>4, PastStays DEF Fields, Reading
    <3>3. QED
      BY <3>1, <3>2, <2>1, OnPageStays
  <2>5. ASSUME stage[c] = "count"
        PROVE  \E i \in 1 .. Len(tables') : \E ids \in SUBSET Ids :
                  /\ OnPage(tables', i, ids, job[c].page, job[c].since)
                  /\ HadRows(tables', job[c].list.rows, i, ids)
    <3>1. PICK i \in 1 .. Len(tables) : \E ids \in SUBSET Ids :
             /\ OnPage(tables, i, ids, job[c].page, job[c].since)
             /\ HadRows(tables, job[c].list.rows, i, ids)
      BY <2>5 DEF PageTrue
    <3>2. PICK ids \in SUBSET Ids :
             /\ OnPage(tables, i, ids, job[c].page, job[c].since)
             /\ HadRows(tables, job[c].list.rows, i, ids)
      BY <3>1
    <3>3. job[c].since <= clock /\ i \in 1 .. Len(tables')
      BY <2>1, <2>5, PastStays DEF Fields, Reading
    <3>4. /\ OnPage(tables', i, ids, job[c].page, job[c].since)
          /\ HadRows(tables', job[c].list.rows, i, ids)
      BY <3>2, <3>3, <2>1, OnPageStays, HadRowsStays
    <3>5. QED
      BY <3>3, <3>4
  <2>6. ASSUME answer[c] = "listed"
        PROVE  ListTrue(tables', job[c].list, job[c].page,
                        job[c].made - TTL[job[c].page] - MaxDelay)
    <3>1. TTL[job[c].page] \in Nat /\ job[c].made <= clock
      BY <2>6, <2>1, TTLType DEF Fields
    <3>2. job[c].made - TTL[job[c].page] - MaxDelay <= clock
      BY <3>1, <2>1, <2>2
    <3>3. QED
      BY <2>6, <3>2, <2>1, ListStays DEF PageTrue
  <2>7. QED
    BY <1>2, <2>3, <2>4, <2>5, <2>6 DEF Stays, PageTrue
<1>3. QED
  BY <1>1, <1>2

LEMMA CacheKept ==
    ASSUME CatalogTyped, Grown, NEW p \in Pages, CacheTrue(p), cache'[p] = cache[p]
    PROVE  CacheTrue(p)'
<1>1. /\ TablesInv /\ cache[p].until \in Nat /\ clock \in Nat /\ MaxDelay \in Nat
      /\ TTL[p] \in Nat /\ clock' = clock
  BY ClocksTyped, TTLType DEF CatalogTyped, Grown
<1>2. ASSUME cache[p].until # 0
      PROVE  ListTrue(tables', cache[p].list, p, cache[p].until - TTL[p] - MaxDelay)
  <2>1. cache[p].until - TTL[p] - MaxDelay <= clock
    BY <1>1, <1>2 DEF CacheTrue
  <2>2. QED
    BY <1>1, <1>2, <2>1, ListStays DEF CacheTrue
<1>3. QED
  BY <1>1, <1>2 DEF CacheTrue

\* A hit answers a list that expires now or later.
LEMMA HitPage ==
    ASSUME CatalogTyped, PageInv, NEW c \in Calls, MyCoupons(c)
    PROVE  PageTrue(c)'
<1> USE DEF CatalogTyped
<1>1. answer[c] = "none" /\ stage[c] = "idle" /\ tables' = tables
  BY DEF MyCoupons, Request, Fields
<1>2. PICK page \in Pages :
        LET j == [NoJob EXCEPT !.kind = "list", !.page = page, !.made = clock]
        IN \/ /\ cache[page].until >= clock
              /\ job' = [job EXCEPT ![c] = [j EXCEPT !.list = cache[page].list]]
              /\ Reply(c, "listed")
           \/ /\ job' = [job EXCEPT ![c] = [j EXCEPT !.since = clock]]
              /\ MoveTo(c, "ids")
  BY DEF MyCoupons, Request, Cached
<1>3. PICK list : list = cache[page].list
  OBVIOUS
<1>4. CASE /\ cache[page].until >= clock
           /\ job'[c].list = list /\ job'[c].page = page /\ job'[c].made = clock
           /\ stage'[c] = "done"
  <2>1. /\ TTL[page] \in Nat /\ MaxDelay \in Nat /\ clock \in Nat \ {0}
        /\ cache[page].until \in Nat
    BY TTLType, ClocksTyped
  <2>2. ListTrue(tables, list, page, cache[page].until - TTL[page] - MaxDelay)
    BY <1>3, <1>4, <2>1 DEF PageInv, CacheTrue
  <2>3. ListTrue(tables, list, page, clock - TTL[page] - MaxDelay)
    <3>1. /\ clock - TTL[page] - MaxDelay \in Int
          /\ cache[page].until - TTL[page] - MaxDelay \in Int
          /\ clock - TTL[page] - MaxDelay <= cache[page].until - TTL[page] - MaxDelay
      BY <1>4, <2>1
    <3>2. QED
      BY <2>2, <3>1, ListOlder
  <2>4. QED
    BY <1>1, <1>4, <2>3 DEF PageTrue
<1>5. CASE stage'[c] = "ids" /\ job'[c].list = NoList /\ answer'[c] = "none"
  BY <1>5 DEF PageTrue, NoList
<1>6. \/ /\ cache[page].until >= clock
         /\ job'[c].list = list /\ job'[c].page = page /\ job'[c].made = clock
         /\ stage'[c] = "done"
      \/ stage'[c] = "ids" /\ job'[c].list = NoList /\ answer'[c] = "none"
  <2>1. CASE /\ cache[page].until >= clock /\ Reply(c, "listed")
             /\ LET j == [NoJob EXCEPT !.kind = "list", !.page = page, !.made = clock]
                IN job' = [job EXCEPT ![c] = [j EXCEPT !.list = list]]
    BY <2>1 DEF Reply, NoJob
  <2>2. CASE /\ MoveTo(c, "ids")
             /\ LET j == [NoJob EXCEPT !.kind = "list", !.page = page, !.made = clock]
                IN job' = [job EXCEPT ![c] = [j EXCEPT !.since = clock]]
    BY <1>1, <2>2 DEF MoveTo, NoJob
  <2>3. QED
    BY <1>2, <1>3, <2>1, <2>2
<1>7. QED
  BY <1>4, <1>5, <1>6

\* The first query: a page as it is now.
LEMMA IdsPage ==
    ASSUME CatalogTyped, NEW c \in Calls, PageTrue(c), SelectIds(c)
    PROVE  PageTrue(c)'
<1> USE DEF CatalogTyped
<1>1. PICK ids \in SUBSET Ids :
        /\ IsPage(Now, job[c].page, ids)
        /\ job' = [job EXCEPT ![c].ids = ids, ![c].since = clock]
        /\ MoveTo(c, IF ids = {} THEN "count" ELSE "rows")
  BY DEF SelectIds
<1>2. stage[c] = "ids" /\ answer[c] = "none" /\ tables' = tables
  BY DEF SelectIds, Fields
<1>3. /\ job'[c].ids = ids /\ job'[c].since = clock /\ job'[c].page = job[c].page
      /\ job'[c].list = job[c].list /\ job[c].list.rows = {}
  BY <1>1, <1>2 DEF Jobs, PageTrue
<1>4. answer'[c] = "none" /\ stage'[c] = IF ids = {} THEN "count" ELSE "rows"
  BY <1>1, <1>2 DEF MoveTo
<1>5. PICK n \in Nat \ {0} : n = Len(tables)
  BY NowFits
<1>6. n \in 1 .. Len(tables') /\ OnPage(tables', n, ids, job'[c].page, job'[c].since)
  BY <1>1, <1>2, <1>3, <1>5 DEF OnPage, Now
<1>7. ids = {} => HadRows(tables', job'[c].list.rows, n, ids)
  <2>1. ASSUME ids = {} PROVE RowsOf(tables[n], ids) = {}
    BY <2>1 DEF RowsOf
  <2>2. n \in n .. Len(tables')
    BY <1>2, <1>5
  <2>3. QED
    BY <1>2, <1>3, <2>1, <2>2 DEF HadRows
<1>8. QED
  BY <1>3, <1>4, <1>6, <1>7 DEF PageTrue

\* The second query: the rows as they are now.
LEMMA RowsPage ==
    ASSUME CatalogTyped, NEW c \in Calls, PageTrue(c), SelectRows(c)
    PROVE  PageTrue(c)'
<1> USE DEF CatalogTyped
<1>1. /\ stage[c] = "rows" /\ answer[c] = "none" /\ tables' = tables
      /\ stage'[c] = "count" /\ answer'[c] = answer[c]
  BY DEF SelectRows, MoveTo, Fields
<1>2. /\ job'[c].since = job[c].since /\ job'[c].page = job[c].page
      /\ job'[c].list.rows = RowsOf(Now, job[c].ids) /\ job[c].ids \in SUBSET Ids
  BY DEF SelectRows, Jobs, List
<1>3. PICK i \in 1 .. Len(tables) : OnPage(tables, i, job[c].ids, job[c].page, job[c].since)
  BY <1>1 DEF PageTrue
<1>4. Len(tables) \in i .. Len(tables) /\ Now = tables[Len(tables)]
  BY NowFits DEF Now
<1>5. HadRows(tables, job'[c].list.rows, i, job[c].ids)
  BY <1>2, <1>4 DEF HadRows
<1>6. QED
  BY <1>1, <1>2, <1>3, <1>5 DEF PageTrue

\* The third query: the number of all as it is now.
LEMMA CountPage ==
    ASSUME CatalogTyped, NEW c \in Calls, PageTrue(c), CountAll(c)
    PROVE  PageTrue(c)'
<1> USE DEF CatalogTyped
<1>1. /\ stage[c] = "count" /\ answer[c] = "none" /\ tables' = tables
      /\ stage'[c] = "store" /\ answer'[c] = answer[c]
  BY DEF CountAll, MoveTo, Fields
<1>2. /\ job'[c].since = job[c].since /\ job'[c].page = job[c].page
      /\ job'[c].list.rows = job[c].list.rows
      /\ job'[c].list.total = Cardinality(Listed(Now))
  BY DEF CountAll, Jobs, List
<1>3. PICK i \in 1 .. Len(tables) : \E ids \in SUBSET Ids :
        /\ OnPage(tables, i, ids, job[c].page, job[c].since)
        /\ HadRows(tables, job[c].list.rows, i, ids)
  BY <1>1 DEF PageTrue
<1>4. PICK ids \in SUBSET Ids :
        /\ OnPage(tables, i, ids, job[c].page, job[c].since)
        /\ HadRows(tables, job[c].list.rows, i, ids)
  BY <1>3
<1>5. PICK j \in i .. Len(tables) : job[c].list.rows = RowsOf(tables[j], ids)
  BY <1>4 DEF HadRows
<1>6. Len(tables) \in j .. Len(tables) /\ Now = tables[Len(tables)]
  BY NowFits DEF Now
<1>7. ListTrue(tables, job'[c].list, job[c].page, job[c].since)
  BY <1>2, <1>4, <1>5, <1>6 DEF ListTrue
<1>8. QED
  BY <1>1, <1>2, <1>7 DEF PageTrue

\* What is stored and answered was true since the first query, MaxDelay ago at most.
LEMMA StorePage ==
    ASSUME CatalogTyped, PageInv, NEW c \in Calls, Store(c)
    PROVE  PageTrue(c)' /\ \A p \in Pages : CacheTrue(p)'
<1> USE DEF CatalogTyped
<1>1. PICK page : page = job[c].page
  OBVIOUS
<1>2. PICK list : list = job[c].list
  OBVIOUS
<1>3. /\ stage[c] = "store" /\ tables' = tables /\ clock' = clock
      /\ cache' = [cache EXCEPT ![page] = [list |-> list, until |-> clock + TTL[page]]]
  BY <1>1, <1>2 DEF Store
<1>4. /\ page \in Pages /\ TTL[page] \in Nat /\ MaxDelay \in Nat /\ clock \in Nat \ {0}
      /\ job[c].made \in Nat /\ job[c].since \in Nat
      /\ job[c].made <= job[c].since /\ job[c].since <= clock
      /\ clock <= job[c].since + MaxDelay
  BY <1>1, <1>3, TTLType, ClocksTyped DEF Fields, Reading, Jobs
<1>5. ListTrue(tables, list, page, job[c].since)
  BY <1>1, <1>2, <1>3 DEF PageInv, PageTrue
<1>6. ListTrue(tables, list, page, job[c].made - TTL[page] - MaxDelay)
  <2>1. /\ job[c].made - TTL[page] - MaxDelay \in Int
        /\ job[c].made - TTL[page] - MaxDelay <= job[c].since
    BY <1>4
  <2>2. QED
    BY <1>4, <1>5, <2>1, ListOlder
<1>7. PageTrue(c)'
  <2>1. stage'[c] = "done"
    BY DEF Store, Reply
  <2>2. \/ answer'[c] = "failed"
        \/ /\ answer'[c] = "listed" /\ job'[c].list = list /\ job'[c].page = page
           /\ job'[c].made = job[c].made
    BY <1>1, <1>2 DEF Store, Reply, Jobs
  <2>3. QED
    BY <1>3, <1>6, <2>1, <2>2 DEF PageTrue
<1>8. CacheTrue(page)'
  <2>1. cache'[page].list = list /\ cache'[page].until = clock + TTL[page]
    BY <1>3, <1>4
  <2>2. ListTrue(tables, list, page, cache'[page].until - TTL[page] - MaxDelay)
    <3>1. /\ cache'[page].until - TTL[page] - MaxDelay \in Int
          /\ cache'[page].until - TTL[page] - MaxDelay <= job[c].since
      BY <1>4, <2>1
    <3>2. QED
      BY <1>4, <1>5, <3>1, ListOlder
  <2>3. QED
    BY <1>3, <1>4, <2>1, <2>2 DEF CacheTrue
<1>9. ASSUME NEW p \in Pages, p # page PROVE CacheTrue(p)'
  <2>1. cache'[p] = cache[p]
    BY <1>3, <1>9
  <2>2. QED
    BY <1>3, <2>1 DEF PageInv, CacheTrue
<1>10. QED
  BY <1>7, <1>8, <1>9

LEMMA ActPage ==
    ASSUME CatalogTyped, PageInv, NEW c \in Calls, Acts(c)
    PROVE  PageTrue(c)' /\ \A p \in Pages : CacheTrue(p)'
<1> USE DEF CatalogTyped
<1>1. CASE Store(c)
  BY <1>1, StorePage
<1>2. ASSUME ~ Store(c) PROVE \A p \in Pages : CacheTrue(p)'
  <2>1. cache' = cache
    BY <1>2 DEF Acts, CatalogServe, Create, Edit, MyCoupons, UniqueCouponCode, Insert,
       CodeCheck, Update, Delete, SelectIds, SelectRows, CountAll
  <2>2. QED
    BY <2>1, ActsGrow, CacheKept DEF PageInv
<1>3. ASSUME Create(c) \/ Edit(c) \/ UniqueCouponCode(c) \/ Insert(c) \/ CodeCheck(c)
             \/ Update(c) \/ Delete(c)
      PROVE  PageTrue(c)'
  <2>1. answer[c] = "none"
    BY <1>3 DEF Create, Edit, Request, UniqueCouponCode, Insert, CodeCheck, Update,
       Delete, Fields
  <2>2. stage'[c] \notin Reading
    BY <1>3 DEF Create, Edit, Request, UniqueCouponCode, Insert, CodeCheck, Update,
       Delete, Acknowledged, MoveTo, Reply, Reading
  <2>3. answer'[c] # "listed"
    BY <1>3, <2>1 DEF Create, Edit, UniqueCouponCode, Insert, CodeCheck, Update,
       Delete, Acknowledged, MoveTo, Reply
  <2>4. QED
    BY <2>2, <2>3 DEF PageTrue, Reading
<1>4. PageTrue(c)
  BY DEF PageInv
<1>5. QED
  BY <1>1, <1>2, <1>3, <1>4, HitPage, IdsPage, RowsPage, CountPage, Zenon
     DEF Acts, CatalogServe

LEMMA PageStep == CatalogTyped /\ PageInv /\ [CatalogNext]_catalogVars => PageInv'
<1> SUFFICES ASSUME CatalogTyped, PageInv, [CatalogNext]_catalogVars PROVE PageInv'
  OBVIOUS
<1>1. CASE Tick
  <2>1. UNCHANGED <<tables, cache, stage, job, answer>> /\ clock' = clock + 1
    BY <1>1 DEF Tick
  <2>2. clock \in Nat /\ \A p \in Pages : cache[p].until \in Nat /\ TTL[p] \in Nat
    BY TTLType, ClocksTyped DEF CatalogTyped
  <2>3. \A c \in Calls : PageTrue(c)'
    BY <2>1 DEF PageInv, PageTrue
  <2>4. \A p \in Pages : CacheTrue(p)'
    BY <2>1, <2>2 DEF PageInv, CacheTrue
  <2>5. QED
    BY <2>3, <2>4 DEF PageInv
<1>2. CASE Waits
  BY <1>2, PageKept, CacheKept DEF Waits, PageInv
<1>3. ASSUME NEW c \in Calls, Acts(c), Grown, Alone(c) PROVE PageInv'
  BY <1>3, PageKept, ActPage DEF Alone, PageInv
<1>4. QED
  BY <1>1, <1>2, <1>3, CatalogSteps

\* What getMyCoupons answers is a page that was true, not further back than the
\* cache keeps the page and its query may take, for any number of pages, coupons
\* and calls.
THEOREM PagesCorrect == CatalogSpec => []PageWasTrue
<1>1. CatalogInit => PageInv
  BY DEF CatalogInit, PageInv, PageTrue, CacheTrue
<1>2. CatalogTyped /\ PageInv => PageWasTrue
  <2> SUFFICES ASSUME CatalogTyped, PageInv PROVE PageWasTrue
    OBVIOUS
  <2>1. DOMAIN tables = 1 .. Len(tables)
    BY NowFits DEF CatalogTyped
  <2>2. ASSUME NEW list, NEW page, NEW since, ListTrue(tables, list, page, since)
        PROVE  WasTrue(list, page, since)
    BY <2>1, <2>2 DEF ListTrue, OnPage, WasTrue, WasPage
  <2>3. QED
    BY <2>2 DEF PageInv, PageTrue, PageWasTrue
<1>3. QED
  BY <1>1, <1>2, CatalogInitTyped, CatalogTypedStep, PageStep, PTL DEF CatalogSpec
=============================================================================
