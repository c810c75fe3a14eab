---------------------------- MODULE CouponIssue ----------------------------
(***************************************************************************)
(* Issuing a coupon to a user: the two handlers of CouponIssuedService,    *)
(* createCouponIssueByUser ("general") and createLimitCouponIssueByUser    *)
(* ("limited", first come, first served), with the administrators' writes   *)
(* to the same coupon rows, MySQL's locks, the connection pool and crashes.*)
(*                                                                         *)
(* Every await of a handler ends an action.  What a transaction has        *)
(* written but not committed is not kept in the tables: it follows from    *)
(* the phase pc[r], it is locked against everyone else, and Commit         *)
(* publishes it.                                                           *)
(***************************************************************************)
EXTENDS Integers, FiniteSets

CONSTANTS
    Requests,    \* calls of the two issue endpoints; a retry is a new call
    Users,
    Coupons,
    PoolSize,    \* connectionLimit of the MySQL pool (app.module.ts)
    Totals,      \* the values coupon.totalCount takes when it is not NULL
    NoTotal,     \* totalCount IS NULL: no limit
    LimitEdits   \* may PATCH /coupon/:id change isIssuedLimited, totalCount?

ASSUME FiniteUsers == IsFiniteSet(Users)
ASSUME FiniteRequests == IsFiniteSet(Requests)
ASSUME PoolSizeNat == PoolSize \in Nat \ {0}
ASSUME TotalsNat == Totals \subseteq Nat /\ NoTotal \notin Nat
ASSUME LimitEditsBool == LimitEdits \in BOOLEAN

VARIABLES
    coupon,   \* committed rows of table coupon
    granted,  \* committed rows of table coupon_issued, as <<user, coupon>>
    log,      \* committed rows of coupon_issued_log, counted per request
    call,     \* the arguments of each request
    pc,       \* where each request's handler stands
    resp      \* what each finished request was answered

vars == <<coupon, granted, log, call, pc, resp>>

-----------------------------------------------------------------------------
Arguments == [user : Users, coupon : Coupons, kind : {"general", "limited"}]

\* open: isPeriodLimited is false or startedDt <= now <= endedDt.
CouponRow == [active : BOOLEAN, open : BOOLEAN, deleted : BOOLEAN,
              limited : BOOLEAN, total : Totals \cup {NoTotal}, issued : Nat]

LogCounts == [issued : Nat, already : Nat, soldout : Nat]

\* Phases in which the request's own coupon_issued row is written, uncommitted.
Inserted == {"inserted", "logged", "counted", "ready",
             "exhausted", "soldout", "soldoutLogged", "soldoutRelogged"}

\* Phases inside dataSource.transaction: the request occupies a connection.
InTx == Inserted \cup {"begun", "dup", "dupLogged"}

Phases == InTx \cup {"idle", "called", "checked", "done"}

Answers == {"none", "issued", "notFound", "inactive", "outOfPeriod",
            "wrongKind", "already", "soldOut", "failed", "lost"}

Key(r) == <<call[r].user, call[r].coupon>>
Row(r) == coupon[call[r].coupon]

-----------------------------------------------------------------------------
(* The connection pool and the locks of InnoDB.                            *)

FreeConnection == Cardinality({r \in Requests : pc[r] \in InTx}) < PoolSize

\* The unique index (userId, couponId): an INSERT of a key that another
\* transaction has written waits until that transaction ends.
KeyLocked(r) ==
    \E q \in Requests \ {r} : pc[q] \in Inserted /\ Key(q) = Key(r)

\* Has incremented issuedCount and so holds the coupon row exclusively.
Counted(r) ==
    \/ pc[r] = "counted"
    \/ pc[r] = "ready"

ExclusivelyLocked(c) ==
    \E q \in Requests : Counted(q) /\ call[q].coupon = c

\* The foreign key of coupon_issued makes every INSERT lock the coupon row in
\* share mode, so an UPDATE of that row waits for all other inserters.
SharedByOthers(r) ==
    \E q \in Requests \ {r} :
        pc[q] \in Inserted /\ call[q].coupon = call[r].coupon

RowLocked(c) == \E q \in Requests : pc[q] \in Inserted /\ call[q].coupon = c

\* The request's next statement is the UPDATE of issuedCount.
AtCount(r) ==
    IF call[r].kind = "general" THEN pc[r] = "logged" ELSE pc[r] = "inserted"

AtIssuedLog(r) ==
    IF call[r].kind = "general" THEN pc[r] = "inserted" ELSE pc[r] = "counted"

-----------------------------------------------------------------------------
Finish(r, answer) ==
    /\ pc' = [pc EXCEPT ![r] = "done"]
    /\ resp' = [resp EXCEPT ![r] = answer]

Goto(r, phase) ==
    /\ pc' = [pc EXCEPT ![r] = phase]
    /\ UNCHANGED resp

AddLog(r, action) == log' = [log EXCEPT ![r][action] = @ + 1]

Unlimited(row) == ~row.limited /\ row.total = NoTotal
Limited(row) == row.limited /\ row.total # NoTotal

RightKind(r) ==
    IF call[r].kind = "general" THEN Unlimited(Row(r)) ELSE Limited(Row(r))

Arrive(r) ==
    /\ pc[r] = "idle"
    /\ Goto(r, "called")
    /\ UNCHANGED <<coupon, granted, log, call>>

\* findOneById and the checks on what it returned; all of it before the
\* transaction, none of it repeated inside.
FindCoupon(r) ==
    /\ pc[r] = "called"
    /\ FreeConnection
    /\ CASE Row(r).deleted -> Finish(r, "notFound")
         [] ~Row(r).deleted /\ ~Row(r).active -> Finish(r, "inactive")
         [] ~Row(r).deleted /\ Row(r).active /\ ~Row(r).open ->
                Finish(r, "outOfPeriod")
         [] ~Row(r).deleted /\ Row(r).active /\ Row(r).open /\ ~RightKind(r) ->
                Finish(r, "wrongKind")
         [] OTHER -> Goto(r, "checked")
    /\ UNCHANGED <<coupon, granted, log, call>>

Begin(r) ==
    /\ pc[r] = "checked"
    /\ FreeConnection
    /\ Goto(r, "begun")
    /\ UNCHANGED <<coupon, granted, log, call>>

\* Mutant: nobody looks at affectedRows.
InsertUnchecked(r) ==
    /\ pc[r] = "begun"
    /\ ~KeyLocked(r)
    /\ ~ExclusivelyLocked(call[r].coupon)
    /\ Goto(r, "inserted")
    /\ UNCHANGED <<coupon, granted, log, call>>

\* INSERT IGNORE: affectedRows is 0 when the key is there already.
InsertIssued(r) ==
    /\ pc[r] = "begun"
    /\ ~KeyLocked(r)
    /\ \/ Key(r) \in granted /\ Goto(r, "dup")
       \/ /\ Key(r) \notin granted
          /\ ~ExclusivelyLocked(call[r].coupon)
          /\ Goto(r, "inserted")
    /\ UNCHANGED <<coupon, granted, log, call>>

\* Mutant: the condition of the UPDATE is off by one.
HasStockAtLimit(row) == row.total # NoTotal /\ row.issued <= row.total

HasStock(row) == row.total # NoTotal /\ row.issued < row.total

\* Mutant: the stock is read first and the count written later, without a lock.
CountUnlocked(r) ==
    /\ AtCount(r)
    /\ IF call[r].kind = "general" THEN Goto(r, "ready")
       ELSE IF HasStock(Row(r)) THEN Goto(r, "counted")
       ELSE Goto(r, "exhausted")
    /\ UNCHANGED <<coupon, granted, log, call>>

\* Mutant: the UPDATE runs on another connection and waits for the row that the
\* own transaction shares since its INSERT.
CountApart(r) ==
    /\ AtCount(r)
    /\ ~RowLocked(call[r].coupon)
    /\ IF call[r].kind = "general" THEN Goto(r, "ready")
       ELSE IF HasStock(Row(r)) THEN Goto(r, "counted")
       ELSE Goto(r, "exhausted")
    /\ UNCHANGED <<coupon, granted, log, call>>

\* issuedCount + 1.  The limited handler's UPDATE is conditional, and may affect
\* no row.
Count(r) ==
    /\ AtCount(r)
    /\ ~SharedByOthers(r)
    /\ IF call[r].kind = "general" THEN Goto(r, "ready")
       ELSE IF HasStock(Row(r)) THEN Goto(r, "counted")
       ELSE Goto(r, "exhausted")
    /\ UNCHANGED <<coupon, granted, log, call>>

\* Sold out: the handler deletes its own coupon_issued row again, whose key and
\* coupon stay locked.
DeleteIssued(r) ==
    /\ pc[r] = "exhausted"
    /\ Goto(r, "soldout")
    /\ UNCHANGED <<coupon, granted, log, call>>

\* Mutant: this log row, too, is written outside the transaction.
LogIssuedOutside(r) ==
    /\ AtIssuedLog(r)
    /\ AddLog(r, "issued")
    /\ Goto(r, IF call[r].kind = "general" THEN "logged" ELSE "ready")
    /\ UNCHANGED <<coupon, granted, call>>

\* The log row "issued", written inside the transaction.
LogIssued(r) ==
    /\ AtIssuedLog(r)
    /\ Goto(r, IF call[r].kind = "general" THEN "logged" ELSE "ready")
    /\ UNCHANGED <<coupon, granted, log, call>>

\* What COMMIT makes visible: the grant, the log row and the increment.
Publish(r) ==
    /\ granted' = granted \cup {Key(r)}
    /\ coupon' = [coupon EXCEPT ![call[r].coupon].issued = @ + 1]
    /\ AddLog(r, "issued")

Commit(r) ==
    /\ pc[r] = "ready"
    /\ Publish(r)
    /\ Finish(r, "issued")
    /\ UNCHANGED call

\* Mutant: the row is written in the transaction and rolled back with it.
LogAlreadyInside(r) ==
    /\ pc[r] = "dup"
    /\ Goto(r, "dupLogged")
    /\ UNCHANGED <<coupon, granted, log, call>>

\* Log rows written through dataSource.manager, outside the transaction: they
\* need a connection of their own while the transaction keeps its one.
LogAlready(r) ==
    /\ pc[r] = "dup"
    /\ FreeConnection
    /\ AddLog(r, "already")
    /\ Goto(r, "dupLogged")
    /\ UNCHANGED <<coupon, granted, call>>

\* Once before "sold out" is thrown and once more in the catch.
LogSoldOut(r) ==
    /\ FreeConnection
    /\ \/ pc[r] = "soldout" /\ Goto(r, "soldoutLogged")
       \/ pc[r] = "soldoutLogged" /\ Goto(r, "soldoutRelogged")
    /\ AddLog(r, "soldout")
    /\ UNCHANGED <<coupon, granted, call>>

\* The exception leaves the callback and TypeORM rolls back.
Rollback(r) ==
    /\ \/ pc[r] = "dupLogged" /\ Finish(r, "already")
       \/ pc[r] = "soldoutRelogged" /\ Finish(r, "soldOut")
    /\ UNCHANGED <<coupon, granted, log, call>>

-----------------------------------------------------------------------------
(* Failures.                                                               *)

\* Two transactions that both share the coupon row and both want to update
\* it: InnoDB rolls one of them back.
DeadlockVictim(r) ==
    /\ AtCount(r)
    /\ \E q \in Requests \ {r} : AtCount(q) /\ call[q].coupon = call[r].coupon
    /\ Finish(r, "failed")
    /\ UNCHANGED <<coupon, granted, log, call>>

\* A statement fails (lock wait timeout, connection lost): rollback, 500.
DbError(r) ==
    /\ pc[r] \notin {"idle", "done"}
    /\ Finish(r, "failed")
    /\ UNCHANGED <<coupon, granted, log, call>>

\* COMMIT is executed but its acknowledgement is lost: committed, and 500.
CommitUnacknowledged(r) ==
    /\ pc[r] = "ready"
    /\ Publish(r)
    /\ Finish(r, "failed")
    /\ UNCHANGED call

\* The same for a log row outside the transaction: it stays, and the INSERT's
\* error ends the handler.
LogUnacknowledged(r) ==
    /\ FreeConnection
    /\ \/ pc[r] = "dup" /\ AddLog(r, "already")
       \/ pc[r] \in {"soldout", "soldoutLogged"} /\ AddLog(r, "soldout")
    /\ Finish(r, "failed")
    /\ UNCHANGED <<coupon, granted, call>>

\* The server process dies: MySQL rolls back what was open.
Crash ==
    /\ \E r \in Requests : pc[r] \notin {"idle", "done"}
    /\ pc' = [r \in Requests |-> IF pc[r] = "idle" THEN "idle" ELSE "done"]
    /\ resp' = [r \in Requests |->
                   IF pc[r] \in {"idle", "done"} THEN resp[r] ELSE "lost"]
    /\ UNCHANGED <<coupon, granted, log, call>>

-----------------------------------------------------------------------------
(* What administrators and time do to the row meanwhile.                   *)

\* The UPDATE of updateCoupon; the DTO has no issuedCount.
AdminUpdate(c) ==
    /\ ~RowLocked(c)
    /\ \E a \in BOOLEAN, l \in BOOLEAN, t \in Totals \cup {NoTotal} :
        /\ ~LimitEdits => l = coupon[c].limited /\ t = coupon[c].total
        /\ coupon' = [coupon EXCEPT ![c].active = a, ![c].limited = l,
                                    ![c].total = t]
    /\ UNCHANGED <<granted, log, call, pc, resp>>

\* The UPDATE of deleteCoupon (softDelete).
AdminDelete(c) ==
    /\ ~coupon[c].deleted
    /\ ~RowLocked(c)
    /\ coupon' = [coupon EXCEPT ![c].deleted = TRUE]
    /\ UNCHANGED <<granted, log, call, pc, resp>>

\* startedDt is reached or endedDt passes, or a PATCH moves them.
PeriodTurns(c) ==
    /\ coupon' = [coupon EXCEPT ![c].open = ~@]
    /\ UNCHANGED <<granted, log, call, pc, resp>>

-----------------------------------------------------------------------------
Init ==
    /\ coupon \in [Coupons ->
                     [active : BOOLEAN, open : BOOLEAN, deleted : {FALSE},
                      limited : BOOLEAN, total : Totals \cup {NoTotal},
                      issued : {0}]]
    /\ granted = {}
    /\ log = [r \in Requests |-> [issued |-> 0, already |-> 0, soldout |-> 0]]
    /\ call \in [Requests -> Arguments]
    /\ pc = [r \in Requests |-> "idle"]
    /\ resp = [r \in Requests |-> "none"]

\* A step of r's handler that the event loop and MySQL will take.
Serve(r) ==
    \/ FindCoupon(r) \/ Begin(r) \/ InsertIssued(r) \/ Count(r)
    \/ DeleteIssued(r) \/ LogIssued(r) \/ Commit(r) \/ LogAlready(r) \/ LogSoldOut(r)
    \/ Rollback(r) \/ DeadlockVictim(r)

Fail(r) == DbError(r) \/ CommitUnacknowledged(r) \/ LogUnacknowledged(r)

Next ==
    \/ \E r \in Requests : Arrive(r) \/ Serve(r) \/ Fail(r)
    \/ Crash
    \/ \E c \in Coupons : AdminUpdate(c) \/ AdminDelete(c) \/ PeriodTurns(c)

Spec == Init /\ [][Next]_vars

\* Handlers that can move do move; clients, failures and admins need not.
FairSpec == Spec /\ \A r \in Requests : WF_vars(Serve(r))

-----------------------------------------------------------------------------
(* Properties.                                                             *)

\* Every table and every handler holds values of its kind; in particular
\* issuedCount never drops below zero.
TypeOK ==
    /\ coupon \in [Coupons -> CouponRow]
    /\ granted \subseteq Users \X Coupons
    /\ log \in [Requests -> LogCounts]
    /\ call \in [Requests -> Arguments]
    /\ pc \in [Requests -> Phases]
    /\ resp \in [Requests -> Answers]

\* A coupon with a limit is never issued beyond it, however the requests of
\* both endpoints interleave (as long as nobody edits the limit itself).
NoOverIssue ==
    \A c \in Coupons :
        coupon[c].total # NoTotal => coupon[c].issued <= coupon[c].total

\* issuedCount, kept by hand, agrees with the rows of coupon_issued: the two
\* are written in one transaction, rolled back and lost together.
CountMatchesRows ==
    \A c \in Coupons :
        coupon[c].issued = Cardinality({u \in Users : <<u, c>> \in granted})

\* The log row "issued" stands for a grant and each grant has exactly one:
\* no failed, refused or crashed attempt leaves such a row behind.
AuditMatchesGrants ==
    /\ \A r \in Requests : log[r].issued > 0 => Key(r) \in granted
    /\ \A k \in granted : \E r \in Requests :
          /\ Key(r) = k /\ log[r].issued = 1
          /\ \A q \in Requests \ {r} : Key(q) = k => log[q].issued = 0

\* What the client is told agrees with what the tables say: 201 with a grant
\* made by this very request, 409 with a grant made by another one and a log
\* row "already", 400 "sold out" with log rows "soldout" and no grant by it.
AnswerMatchesEffect(r) ==
    /\ resp[r] = "issued" => log[r].issued = 1
    /\ resp[r] = "already" =>
          Key(r) \in granted /\ log[r].issued = 0 /\ log[r].already = 1
    /\ resp[r] = "soldOut" => log[r].issued = 0 /\ log[r].soldout > 0
    /\ resp[r] \in {"notFound", "inactive", "outOfPeriod", "wrongKind"} =>
          log[r] = [issued |-> 0, already |-> 0, soldout |-> 0]

AnswersMatchEffects == \A r \in Requests : AnswerMatchesEffect(r)

\* Of all the calls a user makes for one coupon, retries and double clicks
\* included, at most one is answered 201.
OneSuccessPerUser ==
    \A r, q \in Requests :
        r # q /\ Key(r) = Key(q) => ~(resp[r] = "issued" /\ resp[q] = "issued")

\* "sold out" is final: who is told so is told the truth, for a grant that was
\* in flight at that moment cannot be rolled back and return its stock.
SoldOutMeansExhausted ==
    \A r \in Requests :
        resp[r] = "soldOut" => Row(r).issued >= Row(r).total

\* The stock of a limited coupon is bounded at every grant, by the limit in
\* force when the grant is committed.
IssueWithinTotal ==
    [][\A c \in Coupons :
          /\ coupon'[c].issued > coupon[c].issued
          /\ coupon[c].total # NoTotal
          => coupon'[c].issued <= coupon[c].total]_vars

\* Every call that arrives is answered (or cut off by a crash), although it
\* may wait for connections, the unique key and the coupon row.
EveryRequestAnswered ==
    \A r \in Requests : pc[r] = "called" ~> pc[r] = "done"

\* A refused repeat leaves its log row or an error answer.
RepeatIsLogged ==
    \A r \in Requests :
        pc[r] = "dup" ~> (log[r].already > 0 \/ resp[r] \in {"failed", "lost"})
=============================================================================
