----------------------------- MODULE Accounting -----------------------------
(***************************************************************************)
(* AccountingService: syncNotion copies the pages of a Notion database     *)
(* into accounting_transaction, generateJournalEntries turns the READY     *)
(* transactions into journal entries.  Neither runs in a transaction or    *)
(* takes a lock; people edit the Notion pages meanwhile.  An action is     *)
(* what a handler does between two awaits.  Counterparty, memo and the     *)
(* error's wording are left out; of dates only that a range selects some.  *)
(***************************************************************************)
EXTENDS JournalLines

CONSTANTS
    Pages,      \* pages of the Notion database, 1 .. n in the order it lists
    PageSize,   \* pages in one response of Notion
    Versions,   \* what people write into a page
    MaxVersions,\* bound: versions of a page, with the first
    Rules,      \* accounting_rule, in the order of its rows
    Calls,      \* calls of the two endpoints, as positive numbers
    Nothing

ASSUME PagesNumbered == IsFiniteSet(Pages) /\ Pages = 1 .. Cardinality(Pages)
ASSUME PageSizePositive == PageSize \in Nat \ {0}
ASSUME MaxVersionsPositive == MaxVersions \in Nat \ {0}
ASSUME CallsPositive == Calls \subseteq Nat \ {0} /\ IsFiniteSet(Calls)

\* A row of accounting_rule: the accounts of a type and a category.
IsRule(r) ==
    /\ DOMAIN r = {"type", "category", "debitAccount", "creditAccount", "vatMode"}
    /\ r.type \in Types /\ r.vatMode \in VatModes

ASSUME RulesTyped == \A i \in DOMAIN Rules : IsRule(Rules[i])

\* What Notion lets people write: a number, a checkbox, or nothing.
IsVersion(v) ==
    /\ v.dated \in BOOLEAN
    /\ v.amount \in Int \cup {Nothing}
    /\ v.amountIncludesVat \in BOOLEAN \cup {Nothing}

ASSUME VersionsTyped == \A v \in Versions : v # Nothing /\ IsVersion(v)

VARIABLES
    notion,   \* the versions of each page, the last one current; Nothing: absent
    tx,       \* accounting_transaction, by page; Nothing: no row
    entries,  \* accounting_journal_entry with its lines
    pc, job, answer,
    before    \* history: the calls answered before a call was made

vars == <<notion, tx, entries, pc, job, answer, before>>

-----------------------------------------------------------------------------
(* parseNotionPage; the Korean names are written in Latin letters.         *)

SaleNames == {"SALE", "maechul"}
ExpenseNames == {"EXPENSE", "jichul", "biyong"}
VatNames == [TAXABLE |-> {"TAXABLE", "gwase"}, ZERO |-> {"ZERO", "yeongseyul"},
             EXEMPT |-> {"EXEMPT", "myeonse"}]

Parseable(v) ==
    /\ v # Nothing
    /\ v.dated /\ v.amount # Nothing /\ v.amountIncludesVat # Nothing
    /\ v.type \in SaleNames \cup ExpenseNames
    /\ \E t \in VatTypes : v.vatType \in VatNames[t]
    /\ v.category # ""

\* The category defaults to the type as it is written.
Parse(v) ==
    [type |-> IF v.type \in SaleNames THEN "SALE" ELSE "EXPENSE",
     amount |-> v.amount,
     amountIncludesVat |-> v.amountIncludesVat,
     vatType |-> CHOOSE t \in VatTypes : v.vatType \in VatNames[t],
     category |-> IF v.category = Nothing THEN v.type ELSE v.category,
     status |-> "READY"]

Categories == SaleNames \cup ExpenseNames \cup {v.category : v \in Versions}

Statuses == {"READY", "REVIEW", "PROCESSED"}

\* A row of accounting_transaction, or the entity it is saved from.
Row == [type : Types, amount : Int, amountIncludesVat : BOOLEAN, vatType : VatTypes,
        category : Categories, status : Statuses]

ASSUME NothingIsNoRow == Nothing \notin Row

\* A row of accounting_journal_entry with those of accounting_journal_line.
IsEntry(e) ==
    /\ e.page \in Pages /\ e.run \in Calls /\ e.of \in Row
    /\ Len(e.lines) \in 2 .. 3 /\ \A i \in DOMAIN e.lines : IsLine(e.lines[i])
    /\ e.isBalanced \in BOOLEAN

Current(p) == notion[p][Len(notion[p])]

Present == {p \in Pages : Current(p) # Nothing}

-----------------------------------------------------------------------------
\* start: how many versions each page had when the sync was called; cursor:
\* the last page fetched; todo: transactions still to be saved; page: the one
\* being saved, and loaded: its row as save() read it; missing: a rule was.
NoJob == [kind |-> "none", start |-> [p \in Pages |-> 0], cursor |-> 0,
          todo |-> [p \in Pages |-> Nothing], page |-> 0, loaded |-> Nothing,
          missing |-> FALSE]

Jobs ==
    [kind : {"none", "sync", "generate"}, start : [Pages -> Nat], cursor : Pages \cup {0},
     todo : [Pages -> Row \cup {Nothing}], page : Pages \cup {0},
     loaded : Row \cup {Nothing}, missing : BOOLEAN]

Phases == {"idle", "fetch", "select", "sync", "generate", "insert", "load", "save", "done"}

Answers == {"none", "success", "missingRules", "failed"}

Remaining(j) == {p \in Pages : j.todo[p] # Nothing}

Goto(c, phase, j) ==
    /\ pc' = [pc EXCEPT ![c] = phase]
    /\ job' = [job EXCEPT ![c] = j]
    /\ UNCHANGED answer

Finish(c, a) ==
    /\ pc' = [pc EXCEPT ![c] = "done"]
    /\ answer' = [answer EXCEPT ![c] = a]
    /\ job' = [job EXCEPT ![c] = [NoJob EXCEPT !.kind = job[c].kind, !.start = job[c].start]]

\* On to the next transaction, or to the answer.
Proceed(c, j) ==
    IF Remaining(j) # {} THEN Goto(c, j.kind, j)
    ELSE Finish(c, IF j.missing THEN "missingRules" ELSE "success")

\* The current transaction is done with.
Saved(j) == [j EXCEPT !.todo[j.page] = Nothing, !.page = 0, !.loaded = Nothing]

Arrive(c, j) ==
    /\ pc[c] = "idle"
    /\ before' = [before EXCEPT ![c] = {d \in Calls : pc[d] = "done"}]
    /\ Goto(c, IF j.kind = "sync" THEN "fetch" ELSE "select", j)
    /\ UNCHANGED <<notion, tx, entries>>

-----------------------------------------------------------------------------
(* syncNotion.                                                             *)

Edit(p) ==
    /\ Len(notion[p]) < MaxVersions
    /\ \E v \in (Versions \cup {Nothing}) \ {Current(p)} :
          notion' = [notion EXCEPT ![p] = Append(@, v)]
    /\ UNCHANGED <<tx, entries, pc, job, answer, before>>

Sync(c) ==
    Arrive(c, [NoJob EXCEPT !.kind = "sync", !.start = [p \in Pages |-> Len(notion[p])]])

\* The pages of the response that starts behind the cursor.
Response(cursor) ==
    {p \in Present :
        /\ p > cursor
        /\ Cardinality({q \in Present : cursor < q /\ q < p}) < PageSize}

AfterCursor(cursor) == {p \in Present : p > cursor}

Read(c, found) ==
    [p \in Pages |-> IF p \in found /\ Parseable(Current(p)) THEN Parse(Current(p))
                     ELSE job[c].todo[p]]

\* Mutant: has_more is ignored.
FetchOnce(c) ==
    /\ pc[c] = "fetch"
    /\ Proceed(c, [job[c] EXCEPT !.todo = Read(c, Response(0))])
    /\ UNCHANGED <<notion, tx, entries, before>>

\* Mutant: the query does not pass the cursor.
FetchFromStart(c) ==
    /\ pc[c] = "fetch"
    /\ \E j \in {[job[c] EXCEPT !.todo = Read(c, Response(0))]} :
          IF Response(0) # Present THEN Goto(c, "fetch", j) ELSE Proceed(c, j)
    /\ UNCHANGED <<notion, tx, entries, before>>

\* One response; the last one is followed by the first lookup.
Fetch(c) ==
    /\ pc[c] = "fetch"
    /\ \E found \in {Response(job[c].cursor)} :
       \E j \in {[job[c] EXCEPT !.todo = Read(c, found)]} :
          IF found # {} /\ AfterCursor(Max(found)) # {}
          THEN Goto(c, "fetch", [j EXCEPT !.cursor = Max(found)])
          ELSE Proceed(c, [j EXCEPT !.cursor = 0])
    /\ UNCHANGED <<notion, tx, entries, before>>

\* Mutant: a transaction that is known keeps its status.
SyncFindKeepingStatus(c) ==
    /\ pc[c] = "sync"
    /\ LET p == Min(Remaining(job[c]))
       IN IF tx[p] = Nothing THEN Goto(c, "insert", [job[c] EXCEPT !.page = p])
          ELSE Goto(c, "load", [job[c] EXCEPT !.page = p, !.todo[p].status = tx[p].status])
    /\ UNCHANGED <<notion, tx, entries, before>>

\* The lookup by notionPageId, in the order of the listing.
SyncFind(c) ==
    /\ pc[c] = "sync"
    /\ LET p == Min(Remaining(job[c]))
       IN Goto(c, IF tx[p] = Nothing THEN "insert" ELSE "load", [job[c] EXCEPT !.page = p])
    /\ UNCHANGED <<notion, tx, entries, before>>

\* A new row; notionPageId is unique.
SyncInsert(c) ==
    /\ pc[c] = "insert"
    /\ LET p == job[c].page
       IN IF tx[p] = Nothing
          THEN /\ tx' = [tx EXCEPT ![p] = job[c].todo[p]]
               /\ Proceed(c, Saved(job[c])) \/ Finish(c, "failed")
          ELSE Finish(c, "failed") /\ UNCHANGED tx
    /\ UNCHANGED <<notion, entries, before>>

-----------------------------------------------------------------------------
(* save() of a transaction that has a row, in both handlers.               *)

SaveLoad(c) ==
    /\ pc[c] = "load"
    /\ Goto(c, "save", [job[c] EXCEPT !.loaded = tx[job[c].page]])
    /\ UNCHANGED <<notion, tx, entries, before>>

\* UPDATE of the columns in which the entity differs from what was loaded.
Changed(entity, loaded, row) ==
    [f \in DOMAIN row |-> IF entity[f] # loaded[f] THEN entity[f] ELSE row[f]]

SaveWrite(c) ==
    /\ pc[c] = "save"
    /\ LET p == job[c].page
       IN tx' = [tx EXCEPT ![p] = Changed(job[c].todo[p], job[c].loaded, @)]
    /\ Proceed(c, Saved(job[c])) \/ Finish(c, "failed")
    /\ UNCHANGED <<notion, entries, before>>

-----------------------------------------------------------------------------
(* generateJournalEntries.                                                 *)

Generate(c) == Arrive(c, [NoJob EXCEPT !.kind = "generate"])

Inbox(status) == {p \in Pages : tx[p] # Nothing /\ tx[p].status = status}

\* The READY transactions, of a range of dates.
GenerateSelect(c) ==
    /\ pc[c] = "select"
    /\ \E chosen \in SUBSET Inbox("READY") :
          Proceed(c, [job[c] EXCEPT !.todo =
                         [p \in Pages |-> IF p \in chosen THEN tx[p] ELSE Nothing]])
    /\ UNCHANGED <<notion, tx, entries, before>>

RulesFor(t) == RuleIndexes(Rules, t.type, t.category)

\* No rule: the transaction is saved for review, save() loads it.
GenerateWithoutRule(c) ==
    /\ pc[c] = "generate"
    /\ \E p \in Remaining(job[c]) :
        /\ RulesFor(job[c].todo[p]) = {}
        /\ Goto(c, "save", [job[c] EXCEPT !.page = p, !.loaded = tx[p], !.missing = TRUE,
                                          !.todo[p].status = "REVIEW"])
    /\ UNCHANGED <<notion, tx, entries, before>>

Lines(t) == BuildJournalLines(t, Rules[Max(RulesFor(t))])

Entry(c, p, lines) ==
    [page |-> p, run |-> c, of |-> job[c].todo[p], lines |-> lines,
     isBalanced |-> IsBalanced(lines)]

StatusAfter(entry) == IF entry.isBalanced THEN "PROCESSED" ELSE "REVIEW"

\* Mutant: the transaction is not saved after its entry.
EntryOnly(c) ==
    /\ pc[c] = "generate"
    /\ \E p \in Remaining(job[c]) :
        /\ RulesFor(job[c].todo[p]) # {}
        /\ entries' = entries \cup {Entry(c, p, Lines(job[c].todo[p]))}
        /\ Proceed(c, Saved([job[c] EXCEPT !.page = p]))
    /\ UNCHANGED <<notion, tx, before>>

\* The entry and its lines, in one transaction.
GenerateEntry(c) ==
    /\ pc[c] = "generate"
    /\ \E p \in Remaining(job[c]) :
        /\ RulesFor(job[c].todo[p]) # {}
        /\ \E lines \in {Lines(job[c].todo[p])} : \E entry \in {Entry(c, p, lines)} :
            /\ entries' = entries \cup {entry}
            /\ \/ Goto(c, "load", [job[c] EXCEPT !.page = p,
                                                 !.todo[p].status = StatusAfter(entry)])
               \/ Finish(c, "failed")
    /\ UNCHANGED <<notion, tx, before>>

-----------------------------------------------------------------------------
\* A statement or a request to Notion fails, or times out: 500.
Fail(c) ==
    /\ pc[c] \notin {"idle", "done"}
    /\ Finish(c, "failed")
    /\ UNCHANGED <<notion, tx, entries, before>>

\* The process dies.
Crash ==
    LET dying == {c \in Calls : pc[c] \notin {"idle", "done"}}
    IN /\ dying # {}
       /\ pc' = [c \in Calls |-> IF c \in dying THEN "done" ELSE pc[c]]
       /\ answer' = [c \in Calls |-> IF c \in dying THEN "failed" ELSE answer[c]]
       /\ job' = [c \in Calls |->
                     IF c \in dying
                     THEN [NoJob EXCEPT !.kind = job[c].kind, !.start = job[c].start]
                     ELSE job[c]]
       /\ UNCHANGED <<notion, tx, entries, before>>

\* Every page has a first version, which an earlier sync may have stored.
Init ==
    /\ notion \in [Pages -> {<<v>> : v \in Versions}]
    /\ \E stored \in SUBSET {p \in Pages : Parseable(Current(p))} :
          tx = [p \in Pages |-> IF p \in stored THEN Parse(Current(p)) ELSE Nothing]
    /\ entries = {}
    /\ pc = [c \in Calls |-> "idle"]
    /\ job = [c \in Calls |-> NoJob]
    /\ answer = [c \in Calls |-> "none"]
    /\ before = [c \in Calls |-> {}]

Serve(c) ==
    \/ Fetch(c) \/ SyncFind(c) \/ SyncInsert(c) \/ SaveLoad(c) \/ SaveWrite(c)
    \/ GenerateSelect(c) \/ GenerateWithoutRule(c) \/ GenerateEntry(c)

Next ==
    \/ Crash
    \/ \E p \in Pages : Edit(p)
    \/ \E c \in Calls : Sync(c) \/ Generate(c) \/ Serve(c) \/ Fail(c)

Spec == Init /\ [][Next]_vars

FairSpec == Spec /\ \A c \in Calls : WF_vars(Serve(c))

-----------------------------------------------------------------------------
(* Properties.                                                             *)

\* Rows, entries and locals hold values of their kind.
TypeOK ==
    /\ notion \in [Pages -> Seq(Versions \cup {Nothing})]
    /\ \A p \in Pages : Len(notion[p]) \in 1 .. MaxVersions
    /\ tx \in [Pages -> Row \cup {Nothing}]
    /\ \A e \in entries : IsEntry(e)
    /\ pc \in [Calls -> Phases]
    /\ job \in [Calls -> Jobs]
    /\ answer \in [Calls -> Answers]
    /\ before \in [Calls -> SUBSET Calls]

Made(c) == pc[c] # "idle"
Overlap(c, d) ==
    c # d /\ Made(c) /\ Made(d) /\ c \notin before[d] /\ d \notin before[c]
Syncs == {c \in Calls : job[c].kind = "sync"}
Generates == {c \in Calls : job[c].kind = "generate"}

Content(t) == [f \in DOMAIN t \ {"status"} |-> t[f]]

\* Whatever the amount, the rule and the VAT: only the entry of a negative
\* amount (a refund) does not balance.
OnlyRefundsUnbalanced == \A e \in entries : e.isBalanced \/ e.of.amount < 0

\* A PROCESSED transaction has a balanced entry; and as long as no sync and no
\* generation overlap, one of exactly its content, while one under REVIEW lacks
\* a rule or has an unbalanced entry.
StatusIsTrue ==
    \A p \in Pages :
        LET own == {e \in entries : e.page = p}
        IN tx[p] # Nothing =>
            /\ tx[p].status = "PROCESSED" => \E e \in own : e.isBalanced
            /\ (\A c \in Syncs, d \in Generates : ~Overlap(c, d)) =>
                /\ tx[p].status = "PROCESSED" =>
                      \E e \in own : e.isBalanced /\ Content(e.of) = Content(tx[p])
                /\ tx[p].status = "REVIEW" =>
                      \/ RulesFor(tx[p]) = {}
                      \/ \E e \in own : ~e.isBalanced /\ Content(e.of) = Content(tx[p])

\* A transaction has two entries only if their runs overlapped, if the first
\* run failed, or if a sync put it back to READY that had not finished before
\* the first run began.
DuplicatesExplained ==
    \A e, f \in entries :
        e.page = f.page /\ e.run \in before[f.run] =>
            \/ answer[e.run] = "failed"
            \/ \E c \in Syncs : c \notin before[e.run]

\* A sync that overlapped nothing and was answered with success left a row of
\* every page that had a parseable version throughout, and, until the next
\* sync, with one of the versions the page had meanwhile.
SyncComplete ==
    \A c \in Syncs :
        /\ answer[c] = "success"
        /\ \A d \in Calls : ~Overlap(c, d)
        /\ \A d \in Syncs \ {c} : d \in before[c]
        => \A p \in Pages :
              LET since == {notion[p][i] : i \in job[c].start[p] .. Len(notion[p])}
              IN (\A v \in since : Parseable(v)) =>
                    /\ tx[p] # Nothing
                    /\ Content(tx[p]) \in {Content(Parse(v)) : v \in since}

\* The trial balance is off by what the unbalanced entries are, no more.
TrialBalances ==
    LET tb == BuildTrialBalance(entries)
        off(e) == Total(e.lines, "DEBIT") - Total(e.lines, "CREDIT")
    IN MapThenSumSet(LAMBDA a : tb[a].debit - tb[a].credit, DOMAIN tb)
         = MapThenSumSet(off, {e \in entries : ~e.isBalanced})

\* Every call is answered: the pages of Notion and the transactions come to
\* an end.
EveryCallAnswered ==
    \A c \in Calls : pc[c] \notin {"idle", "done"} ~> pc[c] = "done"
=============================================================================
