---------------------------- MODULE CouponCatalog ----------------------------
(***************************************************************************)
(* The coupons as administrators keep them (CouponService: create, edit,   *)
(* soft-delete) and as one user sees them in getMyCoupons, page by page    *)
(* and through the cache in Redis.  No call runs in a transaction.  Coupon *)
(* issues are single steps here: CouponIssue is about them.  Of a coupon's *)
(* columns only the code is kept.                                          *)
(***************************************************************************)
EXTENDS Integers, Sequences, FiniteSets

CONSTANTS
    Ids,       \* ids of coupons, 1 .. n in the order of their creation
    Codes, NoCode,
    Calls,     \* calls of the endpoints, as positive numbers
    Limit,     \* rows of a page
    TTL,       \* how long the cache keeps a page, by page, in ticks of clock
    MaxDelay,  \* bound: ticks from the query of a page to its storing
    MaxClock   \* bound

ASSUME IdsNumbered == IsFiniteSet(Ids) /\ Ids = 1 .. Cardinality(Ids)
ASSUME NoCodeIsNone == NoCode \notin Codes
ASSUME CallsPositive == Calls \subseteq Nat \ {0}
ASSUME TTLTyped == TTL \in Seq(Nat \ {0}) /\ Limit \in Nat \ {0}
ASSUME ClocksTyped == MaxDelay \in Nat /\ MaxClock \in Nat \ {0}

Pages == DOMAIN TTL

VARIABLES
    tables,   \* the tables coupon and coupon_issued, after each write; the last is current
    cache,    \* coupons:list:<user>:p<page>:l<limit> in Redis, by page
    clock,
    stage, job, answer

catalogVars == <<tables, cache, clock, stage, job, answer>>

-----------------------------------------------------------------------------
\* code: of every row of coupon, NoCode where there is none; issued: when the
\* user got the coupon, 0 if never; at: when the row was written.
Tables == [code : [Ids -> Codes \cup {NoCode}], deleted : SUBSET Ids,
           issued : [Ids -> 0 .. MaxClock], at : 1 .. MaxClock]

Now == tables[Len(tables)]

Rows(t) == {i \in Ids : t.code[i] # NoCode}

Taken(t, code) == \E i \in Rows(t) : t.code[i] = code

Write(t) == tables' = Append(tables, [t EXCEPT !.at = clock])

\* What getMyCoupons answers and caches.
List == [rows : SUBSET (Ids \X Codes), total : Nat]
NoList == [rows |-> {}, total |-> 0]

\* from, made: which tables there were, and what time it was, when the call was
\* made; since: when a list was queried; asked: the code in the body; code: the one a
\* new coupon gets; ids: what the first query of a list found.
Jobs == [kind : {"none", "create", "update", "delete", "list"}, from : Nat,
         made : 0 .. MaxClock, since : 0 .. MaxClock,
         asked : Codes \cup {NoCode}, code : Codes \cup {NoCode},
         id : Ids \cup {0}, page : Pages \cup {0}, ids : SUBSET Ids, list : List]

NoJob == [kind |-> "none", from |-> 0, made |-> 0, since |-> 0, asked |-> NoCode,
          code |-> NoCode, id |-> 0, page |-> 0, ids |-> {}, list |-> NoList]

Stages == {"idle", "unique", "insert", "codeCheck", "update", "delete", "ids",
           "rows", "count", "store", "done"}

CatalogAnswers == {"none", "created", "updated", "deleted", "listed", "conflict",
            "notFound", "failed"}

MoveTo(c, phase) == stage' = [stage EXCEPT ![c] = phase] /\ UNCHANGED answer

Reply(c, a) ==
    /\ stage' = [stage EXCEPT ![c] = "done"]
    /\ answer' = [answer EXCEPT ![c] = a]

\* What is kept of a call without an answer.
Forget(c) == job' = [job EXCEPT ![c] = [NoJob EXCEPT !.kind = job[c].kind]]

\* A write took effect, or it did and its answer was lost.
Acknowledged(c, a) == Reply(c, a) \/ Reply(c, "failed")

Request(c, j) ==
    /\ stage[c] = "idle"
    /\ job' = [job EXCEPT ![c] = j]
    /\ UNCHANGED <<tables, clock>>

-----------------------------------------------------------------------------
(* createCoupon.                                                           *)

\* The code that is asked for must not be one of a coupon that is not deleted.
Create(c) ==
    /\ \E asked \in Codes \cup {NoCode} :
        /\ Request(c, [NoJob EXCEPT !.kind = "create", !.from = Len(tables),
                             !.asked = asked, !.code = asked])
        /\ IF \E i \in Rows(Now) \ Now.deleted : Now.code[i] = asked
           THEN Reply(c, "conflict") ELSE MoveTo(c, "unique")
    /\ UNCHANGED cache

\* findOne without a code finds any row.
Exists(code) == IF code = NoCode THEN Rows(Now) # {} ELSE Taken(Now, code)

\* Mutant: a code is always generated.
UniqueCouponCodeGenerated(c) ==
    /\ stage[c] = "unique"
    /\ \E code \in Codes : job' = [job EXCEPT ![c].code = code]
    /\ MoveTo(c, "insert")
    /\ UNCHANGED <<tables, cache, clock>>

\* One round of uniqueCouponCode: deleted coupons count, too.
UniqueCouponCode(c) ==
    /\ stage[c] = "unique"
    /\ IF Exists(job[c].code)
       THEN /\ \E code \in Codes : job' = [job EXCEPT ![c].code = code]
            /\ UNCHANGED <<stage, answer>>
       ELSE MoveTo(c, "insert") /\ UNCHANGED job
    /\ UNCHANGED <<tables, cache, clock>>

NewId == CHOOSE i \in Ids : i \notin Rows(Now) /\ \A j \in 1 .. i - 1 : j \in Rows(Now)

\* Mutant: code is not unique in the table.
InsertAnyCode(c) ==
    /\ stage[c] = "insert"
    /\ Rows(Now) # Ids
    /\ IF job[c].code = NoCode THEN Reply(c, "failed") /\ UNCHANGED tables
       ELSE /\ Write([Now EXCEPT !.code[NewId] = job[c].code])
            /\ Acknowledged(c, "created")
    /\ UNCHANGED <<cache, clock, job>>

\* The INSERT fails without a code, and with one that is taken by now.
Insert(c) ==
    /\ stage[c] = "insert"
    /\ Rows(Now) # Ids
    /\ IF job[c].code = NoCode \/ Taken(Now, job[c].code)
       THEN Reply(c, "failed") /\ UNCHANGED tables
       ELSE /\ Write([Now EXCEPT !.code[NewId] = job[c].code])
            /\ Acknowledged(c, "created")
    /\ UNCHANGED <<cache, clock, job>>

-----------------------------------------------------------------------------
(* updateCoupon, with a new code or without, and deleteCoupon.             *)

Edit(c) ==
    /\ \E i \in Ids, asked \in Codes \cup {NoCode}, kind \in {"update", "delete"} :
        /\ kind = "delete" => asked = NoCode
        /\ Request(c, [NoJob EXCEPT !.kind = kind, !.from = Len(tables),
                             !.id = i, !.asked = asked])
        /\ IF i \in Rows(Now) \ Now.deleted
           THEN MoveTo(c, IF asked \notin {NoCode, Now.code[i]} THEN "codeCheck" ELSE kind)
           ELSE Reply(c, "notFound")
    /\ UNCHANGED cache

CodeCheck(c) ==
    /\ stage[c] = "codeCheck"
    /\ IF Taken(Now, job[c].asked) THEN Reply(c, "conflict") ELSE MoveTo(c, "update")
    /\ UNCHANGED <<tables, cache, clock, job>>

\* UPDATE by id, of a coupon that may be deleted by now; the code is unique.
Update(c) ==
    /\ stage[c] = "update"
    /\ LET i == job[c].id
       IN CASE job[c].asked = NoCode -> Acknowledged(c, "updated") /\ UNCHANGED tables
            [] job[c].asked # NoCode /\ \E j \in Rows(Now) \ {i} : Now.code[j] = job[c].asked ->
                  Reply(c, "failed") /\ UNCHANGED tables
            [] OTHER -> /\ Write([Now EXCEPT !.code[i] = job[c].asked])
                        /\ Acknowledged(c, "updated")
    /\ UNCHANGED <<cache, clock, job>>

Delete(c) ==
    /\ stage[c] = "delete"
    /\ Write([Now EXCEPT !.deleted = @ \cup {job[c].id}])
    /\ Acknowledged(c, "deleted")
    /\ UNCHANGED <<cache, clock, job>>

-----------------------------------------------------------------------------
\* The user is granted a coupon (at most once each).
Grant(i) ==
    /\ i \in Rows(Now) /\ Now.issued[i] = 0
    /\ Write([Now EXCEPT !.issued[i] = clock])
    /\ UNCHANGED <<cache, clock, stage, job, answer>>

-----------------------------------------------------------------------------
(* getMyCoupons.                                                           *)

Cached(page) == cache[page]

\* A page is found until it expires; with ticks this coarse, maybe in the tick
\* in which it does.
MyCoupons(c) ==
    /\ \E page \in Pages :
        LET j == [NoJob EXCEPT !.kind = "list", !.page = page, !.made = clock]
        IN \/ /\ Cached(page).until >= clock
              /\ Request(c, [j EXCEPT !.list = Cached(page).list])
              /\ Reply(c, "listed")
           \/ /\ Cached(page).until <= clock
              /\ Request(c, [j EXCEPT !.since = clock])
              /\ MoveTo(c, "ids")
    /\ UNCHANGED cache

\* The inner join leaves out deleted coupons.
Listed(t) == {i \in Rows(t) \ t.deleted : t.issued[i] # 0}

NewestOf(t, top, all) ==
    /\ top \subseteq all
    /\ \A i \in top, j \in all \ top : t.issued[i] >= t.issued[j]

\* A page of the coupons by issuedDt, newest first; those of one time may come
\* in any order.
IsPage(t, page, ids) ==
    \E earlier \in SUBSET Listed(t) :
        LET rest == Listed(t) \ earlier
        IN /\ NewestOf(t, earlier, Listed(t))
           /\ IF Cardinality(Listed(t)) < (page - 1) * Limit THEN rest = {}
              ELSE Cardinality(earlier) = (page - 1) * Limit
           /\ NewestOf(t, ids, rest)
           /\ ids = rest \/ Cardinality(ids) = Limit
           /\ Cardinality(ids) <= Limit

\* getManyAndCount: three queries, for the ids of the page, their rows, and
\* the number of all.
SelectIds(c) ==
    /\ stage[c] = "ids"
    /\ \E ids \in SUBSET Ids :
        /\ IsPage(Now, job[c].page, ids)
        /\ job' = [job EXCEPT ![c].ids = ids, ![c].since = clock]
        /\ MoveTo(c, IF ids = {} THEN "count" ELSE "rows")
    /\ UNCHANGED <<tables, cache, clock>>

RowsOf(t, ids) == {<<i, t.code[i]>> : i \in ids \ t.deleted}

SelectRows(c) ==
    /\ stage[c] = "rows"
    /\ job' = [job EXCEPT ![c].list.rows = RowsOf(Now, job[c].ids)]
    /\ MoveTo(c, "count")
    /\ UNCHANGED <<tables, cache, clock>>

CountAll(c) ==
    /\ stage[c] = "count"
    /\ job' = [job EXCEPT ![c].list.total = Cardinality(Listed(Now))]
    /\ MoveTo(c, "store")
    /\ UNCHANGED <<tables, cache, clock>>

\* Mutant: the page is stored with the default TTL of the cache, a minute.
StoreDefault(c) ==
    /\ stage[c] = "store"
    /\ cache' = [cache EXCEPT ![job[c].page] = [list |-> job[c].list, until |-> clock + 6]]
    /\ \/ Reply(c, "listed") /\ job' = [job EXCEPT ![c].ids = {}, ![c].since = 0]
       \/ Reply(c, "failed") /\ Forget(c)
    /\ UNCHANGED <<tables, clock>>

Store(c) ==
    /\ stage[c] = "store"
    /\ cache' = [cache EXCEPT ![job[c].page] =
                    [list |-> job[c].list, until |-> clock + TTL[job[c].page]]]
    /\ \/ Reply(c, "listed") /\ job' = [job EXCEPT ![c].ids = {}, ![c].since = 0]
       \/ Reply(c, "failed") /\ Forget(c)
    /\ UNCHANGED <<tables, clock>>

-----------------------------------------------------------------------------
\* Time passes, while no list takes longer than MaxDelay.
Tick ==
    /\ clock < MaxClock
    /\ \A c \in Calls : stage[c] \in {"ids", "rows", "count", "store"} =>
          clock < job[c].since + MaxDelay
    /\ clock' = clock + 1
    /\ UNCHANGED <<tables, cache, stage, job, answer>>

\* A statement or a command of Redis fails, or times out: 500.
CatalogFail(c) ==
    /\ stage[c] \notin {"idle", "done"}
    /\ Reply(c, "failed") /\ Forget(c)
    /\ UNCHANGED <<tables, cache, clock>>

\* The process dies.
CatalogCrash ==
    LET dying == {c \in Calls : stage[c] \notin {"idle", "done"}}
    IN /\ dying # {}
       /\ stage' = [c \in Calls |-> IF c \in dying THEN "done" ELSE stage[c]]
       /\ answer' = [c \in Calls |-> IF c \in dying THEN "failed" ELSE answer[c]]
       /\ job' = [c \in Calls |->
                     IF c \in dying THEN [NoJob EXCEPT !.kind = job[c].kind] ELSE job[c]]
       /\ UNCHANGED <<tables, cache, clock>>

CatalogInit ==
    /\ tables = <<[code |-> [i \in Ids |-> NoCode], deleted |-> {},
                   issued |-> [i \in Ids |-> 0], at |-> 1]>>
    /\ cache = [p \in Pages |-> [list |-> NoList, until |-> 0]]
    /\ clock = 1
    /\ stage = [c \in Calls |-> "idle"]
    /\ job = [c \in Calls |-> NoJob]
    /\ answer = [c \in Calls |-> "none"]

CatalogServe(c) ==
    \/ UniqueCouponCode(c) \/ Insert(c) \/ CodeCheck(c) \/ Update(c) \/ Delete(c)
    \/ SelectIds(c) \/ SelectRows(c) \/ CountAll(c) \/ Store(c)

CatalogNext ==
    \/ Tick \/ CatalogCrash
    \/ \E i \in Ids : Grant(i)
    \/ \E c \in Calls : Create(c) \/ Edit(c) \/ MyCoupons(c) \/ CatalogServe(c) \/ CatalogFail(c)

CatalogSpec == CatalogInit /\ [][CatalogNext]_catalogVars

-----------------------------------------------------------------------------
(* Properties.                                                             *)

\* No two coupons have one code, not even deleted ones; only coupons that exist
\* are deleted and issued.
Sound(t) ==
    /\ \A i, j \in Rows(t) : t.code[i] = t.code[j] => i = j
    /\ t.deleted \subseteq Rows(t)
    /\ \A i \in Ids : t.issued[i] # 0 => i \in Rows(t)

\* Tables, pages and locals hold values of their kind; every table is sound, and
\* times do not go back.
CatalogTypeOK ==
    /\ tables \in Seq(Tables)
    /\ \A k \in DOMAIN tables : Sound(tables[k])
    /\ \A k \in 2 .. Len(tables) : tables[k].at >= tables[k - 1].at
    /\ DOMAIN cache = Pages
    /\ \A p \in Pages : cache[p].list \in List /\ cache[p].until \in Nat
    /\ clock \in 1 .. MaxClock
    /\ stage \in [Calls -> Stages]
    /\ job \in [Calls -> Jobs]
    /\ answer \in [Calls -> CatalogAnswers]

\* The tables during a call, up to now.
During(c) == {tables[k] : k \in job[c].from .. Len(tables)}

\* A new coupon has the code that was asked for unless a coupon, maybe a deleted
\* one, had it while the call ran; and only then a call is refused as a conflict.
CodeAsAsked ==
    \A c \in Calls :
        /\ answer[c] = "conflict" => \E t \in During(c) : Taken(t, job[c].asked)
        /\ answer[c] = "created" /\ job[c].asked # NoCode /\ job[c].code # job[c].asked =>
              \E t \in During(c) : Taken(t, job[c].asked)

\* ids is a page of table i, which was current at `since' or later.
WasPage(i, ids, page, since) ==
    /\ i < Len(tables) => tables[i + 1].at >= since
    /\ IsPage(tables[i], page, ids)

\* A list that was true: its rows at one time, their codes at a later one and
\* the total at a third.
WasTrue(list, page, since) ==
    \E i \in DOMAIN tables : \E ids \in SUBSET Ids :
        /\ WasPage(i, ids, page, since)
        /\ \E j \in i .. Len(tables) :
            /\ list.rows = RowsOf(tables[j], ids)
            /\ \E k \in j .. Len(tables) : list.total = Cardinality(Listed(tables[k]))

\* What is listed is a page that was true not further back than the cache keeps
\* the page and its query may take.
PageWasTrue ==
    \A c \in Calls : answer[c] = "listed" =>
        WasTrue(job[c].list, job[c].page, job[c].made - TTL[job[c].page] - MaxDelay)
=============================================================================
