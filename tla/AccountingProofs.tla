-------------------------- MODULE AccountingProofs --------------------------
(***************************************************************************)
(* Theorems about the journal and its generation, for any rules, pages,    *)
(* versions and concurrent calls.                                          *)
(***************************************************************************)
EXTENDS Accounting, WellFoundedInduction, FiniteSetTheorems, TLAPS

-----------------------------------------------------------------------------
(* The lines of an entry.                                                  *)

LEMMA VatType ==
    ASSUME NEW t, NEW rule, t.amount \in Int
    PROVE  /\ CalculateVat(t, rule) \in Int
           /\ t.amount >= 0 => CalculateVat(t, rule) >= 0
<1>1. EleventhOfAmount(t.amount) \in Int
  BY DEF EleventhOfAmount
<1>2. t.amount >= 0 => EleventhOfAmount(t.amount) >= 0
  BY DEF EleventhOfAmount
<1>3. QED
  BY <1>1, <1>2 DEF CalculateVat

\* What the lines of an entry are, one by one.
Two(s, a, b) == DOMAIN s = 1 .. 2 /\ Len(s) = 2 /\ s[1] = a /\ s[2] = b
Three(s, a, b, c) ==
    DOMAIN s = 1 .. 3 /\ Len(s) = 3 /\ s[1] = a /\ s[2] = b /\ s[3] = c

LEMMA Concatenations ==
    ASSUME NEW a, NEW b, NEW c
    PROVE  /\ Three(<<a, b>> \o <<c>>, a, b, c)
           /\ Three(<<a>> \o <<b>> \o <<c>>, a, b, c)
           /\ Two(<<a, b>> \o <<>>, a, b)
           /\ Two(<<a>> \o <<>> \o <<b>>, a, b)
<1> DEFINE S == {a, b, c}
<1>1. /\ <<a>> \in Seq(S) /\ <<b>> \in Seq(S) /\ <<c>> \in Seq(S)
      /\ <<a, b>> \in Seq(S) /\ <<>> \in Seq(S)
  OBVIOUS
<1>2. Three(<<a, b>> \o <<c>>, a, b, c)
  BY <1>1 DEF Three
<1>3. Three(<<a>> \o <<b>> \o <<c>>, a, b, c)
  BY <1>1 DEF Three
<1>4. Two(<<a, b>> \o <<>>, a, b)
  BY <1>1 DEF Two
<1>5. Two(<<a>> \o <<>> \o <<b>>, a, b)
  BY <1>1 DEF Two
<1>6. QED
  BY <1>2, <1>3, <1>4, <1>5

LEMMA LinesWrittenOut ==
    ASSUME NEW t, NEW rule, t.amount \in Int
    PROVE  LET vat == CalculateVat(t, rule)
               debit(amount) == CreateLine(rule.debitAccount, "DEBIT", amount)
               credit(amount) == CreateLine(rule.creditAccount, "CREDIT", amount)
               lines == BuildJournalLines(t, rule)
           IN IF t.type = "SALE"
              THEN IF vat > 0
                   THEN Three(lines, debit(t.amount), credit(t.amount - vat),
                              CreateLine(VatWithheld, "CREDIT", vat))
                   ELSE Two(lines, debit(t.amount), credit(t.amount - vat))
              ELSE IF vat > 0
                   THEN Three(lines, debit(t.amount - vat),
                              CreateLine(VatPaid, "DEBIT", vat), credit(t.amount))
                   ELSE Two(lines, debit(t.amount - vat), credit(t.amount))
  BY Concatenations, Zenon DEF BuildJournalLines, VatLine

\* Whatever the rule: an entry balances exactly if its VAT is not negative.
LEMMA BalancedUnlessVatNegative ==
    ASSUME NEW t, NEW rule, t.amount \in Int
    PROVE  IsBalanced(BuildJournalLines(t, rule)) <=> CalculateVat(t, rule) >= 0
<1> DEFINE vat == CalculateVat(t, rule)
           lines == BuildJournalLines(t, rule)
           debit(amount) == CreateLine(rule.debitAccount, "DEBIT", amount)
           credit(amount) == CreateLine(rule.creditAccount, "CREDIT", amount)
<1>1. vat \in Int
  BY VatType
<1>2. CASE t.type = "SALE" /\ vat > 0
  <2>1. Three(lines, debit(t.amount), credit(t.amount - vat), CreateLine(VatWithheld, "CREDIT", vat))
    BY <1>2, LinesWrittenOut, Zenon
  <2>2. QED
    BY <1>1, <1>2, <2>1 DEF Two, Three, CreateLine, IsBalanced, Total, AmountAt
<1>3. CASE t.type = "SALE" /\ ~(vat > 0)
  <2>1. Two(lines, debit(t.amount), credit(t.amount - vat))
    BY <1>3, LinesWrittenOut, Zenon
  <2>2. QED
    BY <1>1, <1>3, <2>1 DEF Two, Three, CreateLine, IsBalanced, Total, AmountAt
<1>4. CASE t.type # "SALE" /\ vat > 0
  <2>1. Three(lines, debit(t.amount - vat), CreateLine(VatPaid, "DEBIT", vat), credit(t.amount))
    BY <1>4, LinesWrittenOut, Zenon
  <2>2. QED
    BY <1>1, <1>4, <2>1 DEF Two, Three, CreateLine, IsBalanced, Total, AmountAt
<1>5. CASE t.type # "SALE" /\ ~(vat > 0)
  <2>1. Two(lines, debit(t.amount - vat), credit(t.amount))
    BY <1>5, LinesWrittenOut, Zenon
  <2>2. QED
    BY <1>1, <1>5, <2>1 DEF Two, Three, CreateLine, IsBalanced, Total, AmountAt
<1>6. QED
  BY <1>2, <1>3, <1>4, <1>5

LEMMA LineType ==
    ASSUME NEW account, NEW side \in Sides, NEW amount \in Int
    PROVE  IsLine(CreateLine(account, side, amount))
  BY DEF IsLine, CreateLine

LEMMA AreLines ==
    ASSUME NEW s, NEW a, NEW b, NEW c, IsLine(a), IsLine(b),
           Two(s, a, b) \/ (Three(s, a, b, c) /\ IsLine(c))
    PROVE  /\ Len(s) \in 2 .. 3 /\ DOMAIN s \subseteq 1 .. 3
           /\ \A i \in DOMAIN s : IsLine(s[i])
  BY DEF Two, Three

LEMMA LinesType ==
    ASSUME NEW t \in Row, NEW rule
    PROVE  /\ Len(BuildJournalLines(t, rule)) \in 2 .. 3
           /\ DOMAIN BuildJournalLines(t, rule) \subseteq 1 .. 3
           /\ \A i \in DOMAIN BuildJournalLines(t, rule) :
                  IsLine(BuildJournalLines(t, rule)[i])
<1> DEFINE vat == CalculateVat(t, rule)
           lines == BuildJournalLines(t, rule)
           debit(amount) == CreateLine(rule.debitAccount, "DEBIT", amount)
           credit(amount) == CreateLine(rule.creditAccount, "CREDIT", amount)
<1>1. t.amount \in Int /\ vat \in Int
  BY VatType DEF Row
<1> HIDE DEF vat
<1>0. \A account : \A side \in Sides : \A amount \in {t.amount, t.amount - vat, vat} :
          IsLine(CreateLine(account, side, amount))
  BY <1>1, LineType
<1>2. CASE t.type = "SALE" /\ vat > 0
  <2>1. Three(lines, debit(t.amount), credit(t.amount - vat), CreateLine(VatWithheld, "CREDIT", vat))
    BY <1>1, <1>2, LinesWrittenOut, Zenon DEF vat
  <2>2. QED
    BY <1>0, <2>1, AreLines DEF Sides
<1>3. CASE t.type = "SALE" /\ ~(vat > 0)
  <2>1. Two(lines, debit(t.amount), credit(t.amount - vat))
    BY <1>1, <1>3, LinesWrittenOut, Zenon DEF vat
  <2>2. QED
    BY <1>0, <2>1, AreLines DEF Sides
<1>4. CASE t.type # "SALE" /\ vat > 0
  <2>1. Three(lines, debit(t.amount - vat), CreateLine(VatPaid, "DEBIT", vat), credit(t.amount))
    BY <1>1, <1>4, LinesWrittenOut, Zenon DEF vat
  <2>2. QED
    BY <1>0, <2>1, AreLines DEF Sides
<1>5. CASE t.type # "SALE" /\ ~(vat > 0)
  <2>1. Two(lines, debit(t.amount - vat), credit(t.amount))
    BY <1>1, <1>5, LinesWrittenOut, Zenon DEF vat
  <2>2. QED
    BY <1>0, <2>1, AreLines DEF Sides
<1>6. QED
  BY <1>2, <1>3, <1>4, <1>5

-----------------------------------------------------------------------------
(* Least and greatest pages.                                               *)

LEMMA MinOfNaturals ==
    ASSUME NEW S, S \subseteq Nat, S # {}
    PROVE  Min(S) \in S /\ \A y \in S : Min(S) <= y
<1>1. PICK x \in S : \A y \in S : ~ (<<y, x>> \in OpToRel(<, Nat))
  BY NatLessThanWellFounded, WFMin, Zenon
<1>2. \A y \in S : ~ (y < x)
  BY <1>1 DEF OpToRel
<1>3. \E z \in S : \A y \in S : z <= y
  BY <1>2
<1>4. QED
  BY <1>3 DEF Min

LEMMA MaxOfNaturals ==
    ASSUME NEW n \in Nat, NEW S, S \subseteq 0 .. n, S # {}
    PROVE  Max(S) \in S /\ \A y \in S : y <= Max(S)
<1> DEFINE T == {n - x : x \in S}
<1>1. \A x \in S : n - x \in Nat
  OBVIOUS
<1>2. T \subseteq Nat /\ T # {}
  BY <1>1
<1>3. Min(T) \in T /\ \A t \in T : Min(T) <= t
  <2> HIDE DEF T
  <2>1. QED
    BY <1>2, MinOfNaturals
<1>4. PICK x \in S : Min(T) = n - x
  BY <1>3
<1>5. \A y \in S : y <= x
  BY <1>3, <1>4
<1>6. \E z \in S : \A y \in S : z >= y
  BY <1>5
<1>7. QED
  BY <1>6 DEF Max

LEMMA PagesType ==
    /\ Pages \subseteq Nat \ {0} /\ Cardinality(Pages) \in Nat
    /\ Pages \subseteq 0 .. Cardinality(Pages)
<1>1. Cardinality(Pages) \in Nat
  BY PagesNumbered, FS_CardinalityType
<1>2. QED
  BY <1>1, PagesNumbered

LEMMA MinPage ==
    ASSUME NEW S \in SUBSET Pages, S # {}
    PROVE  Min(S) \in S /\ \A y \in S : Min(S) <= y
  BY PagesType, MinOfNaturals

LEMMA MaxPage ==
    ASSUME NEW S \in SUBSET Pages, S # {}
    PROVE  Max(S) \in S /\ \A y \in S : y <= Max(S)
  BY PagesType, MaxOfNaturals

-----------------------------------------------------------------------------
(* Types.                                                                  *)

LEMMA NoJobType == NoJob \in Jobs
  BY DEF NoJob, Jobs

\* A parseable version is parsed to a row.
LEMMA ParseType ==
    ASSUME NEW v \in Versions \cup {Nothing}, Parseable(v)
    PROVE  Parse(v) \in Row /\ Parse(v).status = "READY"
<1>1. v \in Versions /\ IsVersion(v)
  BY VersionsTyped DEF Parseable
<1>2. v.amount \in Int /\ v.amountIncludesVat \in BOOLEAN
  BY <1>1 DEF Parseable, IsVersion
<1>3. (CHOOSE t \in VatTypes : v.vatType \in VatNames[t]) \in VatTypes
  BY DEF Parseable
<1>4. v.category \in Categories /\ v.type \in Categories
  BY <1>1 DEF Categories, Parseable
<1>5. QED
  BY <1>2, <1>3, <1>4 DEF Parse, Row, Types, Statuses

LEMMA CurrentType ==
    ASSUME TypeOK, NEW p \in Pages
    PROVE  Current(p) \in Versions \cup {Nothing}
  BY DEF TypeOK, Current

LEMMA ChangedType ==
    ASSUME NEW entity \in Row, NEW loaded \in Row, NEW row \in Row
    PROVE  Changed(entity, loaded, row) \in Row
  BY DEF Row, Changed

\* What a step of the handler of c leaves of the other handlers, and its types.
Local(c) ==
    /\ pc' \in [Calls -> Phases] /\ job' \in [Calls -> Jobs]
    /\ answer' \in [Calls -> Answers]
    /\ \A d \in Calls \ {c} :
          pc'[d] = pc[d] /\ job'[d] = job[d] /\ answer'[d] = answer[d]

\* What is kept of the locals of a call that is answered.
Ended(j) == [NoJob EXCEPT !.kind = j.kind, !.start = j.start]

LEMMA EndedType ==
    ASSUME NEW j \in Jobs
    PROVE  /\ Ended(j) \in Jobs /\ Remaining(Ended(j)) = {}
           /\ Ended(j).kind = j.kind /\ Ended(j).start = j.start
  BY NoJobType DEF Ended, NoJob, Jobs, Remaining

LEMMA GotoType ==
    ASSUME TypeOK, NEW c \in Calls, NEW phase \in Phases, NEW j \in Jobs, Goto(c, phase, j)
    PROVE  Local(c) /\ pc'[c] = phase /\ job'[c] = j /\ answer'[c] = answer[c]
  BY DEF TypeOK, Goto, Local

LEMMA FinishType ==
    ASSUME TypeOK, NEW c \in Calls, NEW a \in Answers, Finish(c, a)
    PROVE  Local(c) /\ pc'[c] = "done" /\ job'[c] = Ended(job[c]) /\ answer'[c] = a
<1>1. Ended(job[c]) \in Jobs
  BY EndedType DEF TypeOK
<1>2. QED
  BY <1>1 DEF TypeOK, Finish, Local, Phases, Ended

LEMMA ProceedType ==
    ASSUME TypeOK, NEW c \in Calls, NEW j \in Jobs, j.kind \in {"sync", "generate"},
           Proceed(c, j)
    PROVE  /\ Local(c)
           /\ \/ /\ Remaining(j) # {} /\ pc'[c] = j.kind /\ job'[c] = j
                 /\ answer'[c] = answer[c]
              \/ /\ Remaining(j) = {} /\ pc'[c] = "done" /\ job'[c] = Ended(job[c])
                 /\ answer'[c] \in {"success", "missingRules"}
<1>1. CASE Remaining(j) # {}
  <2>1. j.kind \in Phases
    BY DEF Phases
  <2>2. Goto(c, j.kind, j)
    BY <1>1 DEF Proceed
  <2>3. QED
    BY <1>1, <2>1, <2>2, GotoType
<1>2. CASE Remaining(j) = {}
  <2>1. PICK a \in {"success", "missingRules"} : Finish(c, a)
    BY <1>2 DEF Proceed
  <2>2. QED
    BY <1>2, <2>1, FinishType DEF Answers
<1>3. QED
  BY <1>1, <1>2

-----------------------------------------------------------------------------
(* What every phase of a handler has established.                          *)

\* Each phase belongs to a handler, and calls that are not under way have
\* nothing to save.
PhaseMatches(c) ==
    /\ pc[c] = "idle" => job[c] = NoJob
    /\ pc[c] \in {"fetch", "sync", "insert"} => job[c].kind = "sync"
    /\ pc[c] \in {"select", "generate"} => job[c].kind = "generate"
    /\ pc[c] \in {"load", "save", "done"} => job[c].kind \in {"sync", "generate"}
    /\ pc[c] # "done" => answer[c] = "none"
    /\ pc[c] \in {"idle", "select", "done"} => Remaining(job[c]) = {}
    /\ pc[c] \in {"sync", "generate"} => Remaining(job[c]) # {}

\* The page under way is one of those to be saved; what is loaded exists.
PageMatches(c) ==
    /\ pc[c] \in {"insert", "load", "save"} => job[c].page \in Remaining(job[c])
    /\ pc[c] \in {"load", "save"} => tx[job[c].page] # Nothing
    /\ pc[c] = "save" => job[c].loaded # Nothing
    /\ job[c].kind = "generate" => \A p \in Remaining(job[c]) : tx[p] # Nothing

\* A sync saves READY rows; a generation does so no more after its decision.
StatusMatches(c) ==
    \A p \in Remaining(job[c]) :
        job[c].todo[p].status = "READY" <=>
            ~ (job[c].kind = "generate" /\ pc[c] \in {"load", "save"} /\ p = job[c].page)

StartMatches(c) ==
    job[c].kind = "sync" => \A p \in Pages : job[c].start[p] \in 1 .. Len(notion[p])

Matches(c) == PhaseMatches(c) /\ PageMatches(c) /\ StatusMatches(c) /\ StartMatches(c)

Typed == TypeOK /\ \A c \in Calls : Matches(c)

\* Rows and versions do not vanish.
Grows ==
    /\ \A p \in Pages : tx[p] # Nothing => tx'[p] # Nothing
    /\ \A p \in Pages : Len(notion[p]) <= Len(notion'[p])

LEMMA OthersMatch ==
    ASSUME Typed, TypeOK', NEW c \in Calls, Local(c), Grows
    PROVE  \A d \in Calls \ {c} : Matches(d)'
<1> SUFFICES ASSUME NEW d \in Calls, d # c PROVE Matches(d)'
  OBVIOUS
<1>1. Matches(d) /\ pc'[d] = pc[d] /\ job'[d] = job[d] /\ answer'[d] = answer[d]
  BY DEF Typed, Local
<1>2. Remaining(job[d]) \subseteq Pages /\ job[d] \in Jobs
  BY DEF Remaining, Typed, TypeOK
<1>3. PhaseMatches(d)'
  BY <1>1 DEF Matches, PhaseMatches
<1>4. PageMatches(d)'
  BY <1>1, <1>2 DEF Matches, PageMatches, Grows
<1>5. StatusMatches(d)'
  BY <1>1 DEF Matches, StatusMatches
<1>6. StartMatches(d)'
  <2>1. \A p \in Pages : Len(notion[p]) \in Nat /\ Len(notion'[p]) \in Nat
    BY DEF Typed, TypeOK
  <2>2. job[d].start \in [Pages -> Nat]
    BY <1>2 DEF Jobs
  <2>3. QED
    BY <1>1, <2>1, <2>2 DEF Matches, StartMatches, Grows
<1>7. QED
  BY <1>3, <1>4, <1>5, <1>6 DEF Matches

\* The tables are of their types still, and nothing has vanished from them.
Tables ==
    /\ notion' \in [Pages -> Seq(Versions \cup {Nothing})]
    /\ \A p \in Pages : Len(notion'[p]) \in 1 .. MaxVersions
    /\ tx' \in [Pages -> Row \cup {Nothing}]
    /\ \A e \in entries' : IsEntry(e)
    /\ before' \in [Calls -> SUBSET Calls]
    /\ Grows

LEMMA TablesUnchanged ==
    ASSUME TypeOK, UNCHANGED <<notion, tx, entries, before>>
    PROVE  Tables
<1>1. \A p \in Pages : Len(notion[p]) <= Len(notion[p])
  BY DEF TypeOK
<1>2. QED
  BY <1>1 DEF TypeOK, Tables, Grows

\* A step of c that keeps all of this.
Step(c) == TypeOK' /\ Local(c) /\ Tables /\ Matches(c)'

LEMMA StepTypes ==
    ASSUME NEW c \in Calls, Local(c), Tables
    PROVE  TypeOK'
  BY DEF Local, Tables, TypeOK

\* The start of a sync stays behind the versions.
LEMMA StartStays ==
    ASSUME Typed, NEW c \in Calls, Tables, job'[c].kind = job[c].kind,
           job'[c].start = job[c].start
    PROVE  StartMatches(c)'
<1>1. \A p \in Pages : Len(notion[p]) \in Nat /\ Len(notion'[p]) \in Nat
  BY DEF Typed, TypeOK, Tables
<1>2. job[c].start \in [Pages -> Nat]
  BY DEF Typed, TypeOK, Jobs
<1>3. StartMatches(c) /\ \A p \in Pages : Len(notion[p]) <= Len(notion'[p])
  BY DEF Typed, Matches, Tables, Grows
<1>4. QED
  BY <1>1, <1>2, <1>3 DEF StartMatches

LEMMA FinishStep ==
    ASSUME Typed, NEW c \in Calls, NEW a \in Answers, pc[c] # "idle",
           Finish(c, a), Tables
    PROVE  Step(c) /\ pc'[c] = "done" /\ job'[c] = Ended(job[c]) /\ answer'[c] = a
<1>1. /\ Local(c) /\ pc'[c] = "done" /\ job'[c] = Ended(job[c]) /\ answer'[c] = a
  BY FinishType DEF Typed
<1>2. /\ Remaining(job'[c]) = {} /\ job'[c].kind = job[c].kind
      /\ job'[c].start = job[c].start
  BY <1>1, EndedType DEF Typed, TypeOK
<1>3. job[c].kind \in {"sync", "generate"}
  BY DEF Typed, TypeOK, Phases, Matches, PhaseMatches
<1>4. PhaseMatches(c)'
  BY <1>1, <1>2, <1>3 DEF PhaseMatches
<1>5. PageMatches(c)' /\ StatusMatches(c)'
  BY <1>1, <1>2 DEF PageMatches, StatusMatches
<1>6. StartMatches(c)'
  BY <1>2, StartStays
<1>7. QED
  BY <1>1, <1>4, <1>5, <1>6, StepTypes DEF Step, Matches

\* Goto is a step if the new locals match the new phase.
LEMMA GotoStep ==
    ASSUME Typed, NEW c \in Calls, NEW phase \in Phases \ {"idle", "done"}, NEW j \in Jobs,
           Goto(c, phase, j), Tables, pc[c] # "done",
           PhaseMatches(c)', PageMatches(c)', StatusMatches(c)', StartMatches(c)'
    PROVE  Step(c) /\ pc'[c] = phase /\ job'[c] = j /\ answer'[c] = answer[c]
<1>1. Local(c) /\ pc'[c] = phase /\ job'[c] = j /\ answer'[c] = answer[c]
  BY GotoType DEF Typed
<1>2. QED
  BY <1>1, StepTypes DEF Step, Matches

\* On to the next transaction, or to the answer.
LEMMA ProceedStep ==
    ASSUME Typed, NEW c \in Calls, NEW j \in Jobs, j.kind \in {"sync", "generate"},
           j.kind = job[c].kind, j.start = job[c].start, pc[c] \notin {"idle", "done"},
           \A p \in Remaining(j) : j.todo[p].status = "READY",
           j.kind = "generate" => \A p \in Remaining(j) : tx'[p] # Nothing,
           Proceed(c, j), Tables
    PROVE  /\ Step(c)
           /\ \/ /\ Remaining(j) # {} /\ pc'[c] = j.kind /\ job'[c] = j
                 /\ answer'[c] = answer[c]
              \/ /\ Remaining(j) = {} /\ pc'[c] = "done" /\ job'[c] = Ended(job[c])
                 /\ answer'[c] \in {"success", "missingRules"}
<1>1. CASE Remaining(j) # {}
  <2>1. /\ Local(c) /\ pc'[c] = j.kind /\ job'[c] = j /\ answer'[c] = answer[c]
    BY <1>1, ProceedType DEF Typed
  <2>2. answer[c] = "none"
    BY DEF Typed, Matches, PhaseMatches
  <2>3. PhaseMatches(c)'
    BY <1>1, <2>1, <2>2 DEF PhaseMatches
  <2>4. PageMatches(c)' /\ StatusMatches(c)'
    BY <2>1 DEF PageMatches, StatusMatches
  <2>5. StartMatches(c)'
    BY <2>1, StartStays
  <2>6. QED
    BY <1>1, <2>1, <2>3, <2>4, <2>5, StepTypes DEF Step, Matches
<1>2. CASE Remaining(j) = {}
  <2>1. PICK a \in {"success", "missingRules"} : Finish(c, a)
    BY <1>2 DEF Proceed
  <2>2. QED
    BY <1>2, <2>1, FinishStep DEF Answers
<1>3. QED
  BY <1>1, <1>2

-----------------------------------------------------------------------------
(* Every step of a handler is one.                                         *)

LEMMA ArriveStep ==
    ASSUME Typed, NEW c \in Calls, NEW j \in Jobs, j.kind \in {"sync", "generate"},
           Arrive(c, j), Remaining(j) = {},
           j.kind = "sync" => j.start = [p \in Pages |-> Len(notion[p])]
    PROVE  Step(c) /\ pc'[c] \in {"fetch", "select"} /\ job'[c] = j /\ answer'[c] = "none"
<1>1. before' \in [Calls -> SUBSET Calls]
  BY DEF Arrive, Typed, TypeOK
<1>2. /\ notion' = notion /\ tx' = tx /\ entries' = entries
      /\ \A p \in Pages : Len(notion[p]) \in Nat /\ Len(notion[p]) >= 1
  BY DEF Arrive, Typed, TypeOK
<1>3. Tables
  BY <1>1, <1>2 DEF Tables, Grows, Typed, TypeOK
<1>4. PICK phase \in {"fetch", "select"} :
          /\ phase = IF j.kind = "sync" THEN "fetch" ELSE "select"
          /\ Goto(c, phase, j)
  BY DEF Arrive
<1>5. /\ pc'[c] = phase /\ job'[c] = j /\ answer'[c] = answer[c] /\ answer[c] = "none"
  BY <1>4, GotoType DEF Arrive, Phases, Typed, Matches, PhaseMatches
<1>6. PhaseMatches(c)' /\ PageMatches(c)' /\ StatusMatches(c)'
  BY <1>4, <1>5 DEF PhaseMatches, PageMatches, StatusMatches
<1>7. StartMatches(c)'
  BY <1>2, <1>5 DEF StartMatches
<1>8. pc[c] # "done"
  BY DEF Arrive
<1>9. QED
  BY <1>3, <1>4, <1>5, <1>6, <1>7, <1>8, GotoStep DEF Phases

LEMMA SyncJob ==
    ASSUME Typed
    PROVE  LET j == [NoJob EXCEPT !.kind = "sync", !.start = [p \in Pages |-> Len(notion[p])]]
           IN /\ j \in Jobs /\ j.kind = "sync" /\ Remaining(j) = {} /\ j.cursor = 0
              /\ j.start = [p \in Pages |-> Len(notion[p])]
<1>1. PICK start \in [Pages -> Nat] : start = [p \in Pages |-> Len(notion[p])]
  <2>1. \A p \in Pages : Len(notion[p]) \in Nat
    BY DEF Typed, TypeOK
  <2>2. [p \in Pages |-> Len(notion[p])] \in [Pages -> Nat]
    BY <2>1
  <2>3. QED
    BY <2>2
<1>2. PICK j \in Jobs : j = [NoJob EXCEPT !.kind = "sync", !.start = start]
  BY NoJobType DEF Jobs
<1>3. /\ j.kind = "sync" /\ Remaining(j) = {} /\ j.cursor = 0 /\ j.start = start
  BY <1>2 DEF NoJob, Remaining
<1>4. QED
  BY <1>1, <1>2, <1>3

LEMMA FailStep ==
    ASSUME Typed, NEW c \in Calls, Fail(c)
    PROVE  Step(c) /\ pc'[c] = "done" /\ job'[c] = Ended(job[c]) /\ answer'[c] = "failed"
  BY FinishStep, TablesUnchanged DEF Fail, Answers, Typed

LEMMA ReadType ==
    ASSUME Typed, NEW c \in Calls, NEW found \in SUBSET Pages, job[c].kind = "sync"
    PROVE  /\ Read(c, found) \in [Pages -> Row \cup {Nothing}]
           /\ pc[c] = "fetch" => \A p \in Pages :
                 Read(c, found)[p] # Nothing => Read(c, found)[p].status = "READY"
<1>1. job[c].todo \in [Pages -> Row \cup {Nothing}]
  BY DEF Typed, TypeOK, Jobs
<1>2. \A p \in Pages : Parseable(Current(p)) =>
          Parse(Current(p)) \in Row /\ Parse(Current(p)).status = "READY"
  BY ParseType, CurrentType DEF Typed
<1>3. \A p \in Pages : pc[c] = "fetch" /\ job[c].todo[p] # Nothing =>
          job[c].todo[p].status = "READY"
  BY DEF Typed, Matches, StatusMatches, Remaining
<1>4. QED
  BY <1>1, <1>2, <1>3 DEF Read

\* What a response leaves to be saved.
ReadTo(c, found, cursor) == [[job[c] EXCEPT !.todo = Read(c, found)] EXCEPT !.cursor = cursor]

LEMMA ReadJob ==
    ASSUME Typed, NEW c \in Calls, NEW found \in SUBSET Pages, pc[c] = "fetch",
           NEW cursor \in Pages \cup {0}
    PROVE  LET j == ReadTo(c, found, cursor)
           IN /\ j \in Jobs /\ j.kind = "sync" /\ j.start = job[c].start
              /\ j.todo = Read(c, found) /\ j.cursor = cursor
              /\ \A p \in Remaining(j) : j.todo[p].status = "READY"
<1>1. job[c] \in Jobs /\ job[c].kind = "sync"
  BY DEF Typed, TypeOK, Matches, PhaseMatches
<1>2. PICK todo \in [Pages -> Row \cup {Nothing}] :
          /\ todo = Read(c, found)
          /\ \A p \in Pages : todo[p] # Nothing => todo[p].status = "READY"
  BY <1>1, ReadType
<1>3. PICK j \in Jobs : j = [[job[c] EXCEPT !.todo = todo] EXCEPT !.cursor = cursor]
  BY <1>1 DEF Jobs
<1>4. j.kind = job[c].kind /\ j.start = job[c].start /\ j.todo = todo /\ j.cursor = cursor
  BY <1>1, <1>3 DEF Jobs
<1>5. \A p \in Remaining(j) : j.todo[p].status = "READY"
  BY <1>2, <1>4 DEF Remaining
<1>6. ReadTo(c, found, cursor) = j
  BY <1>2, <1>3 DEF ReadTo
<1>7. QED
  BY <1>1, <1>2, <1>4, <1>5, <1>6

LEMMA ResponseType ==
    ASSUME NEW cursor
    PROVE  Response(cursor) \subseteq Pages /\ AfterCursor(cursor) \subseteq Pages
  BY DEF Response, AfterCursor, Present

\* A sync has read a response: what it is about to save now, and how it goes on.
Fetched(c, found, j) ==
    /\ found = Response(job[c].cursor)
    /\ j.kind = "sync" /\ j.start = job[c].start /\ j.todo = Read(c, found)
    /\ \/ /\ found # {} /\ AfterCursor(Max(found)) # {} /\ j.cursor = Max(found)
          /\ pc'[c] = "fetch" /\ job'[c] = j /\ answer'[c] = "none"
       \/ /\ ~ (found # {} /\ AfterCursor(Max(found)) # {})
          /\ Remaining(j) # {} /\ pc'[c] = "sync" /\ job'[c] = j /\ answer'[c] = "none"
       \/ /\ ~ (found # {} /\ AfterCursor(Max(found)) # {})
          /\ Remaining(j) = {} /\ pc'[c] = "done" /\ job'[c] = Ended(job[c])

LEMMA FetchStep ==
    ASSUME Typed, NEW c \in Calls, Fetch(c)
    PROVE  Step(c) /\ pc[c] = "fetch" /\ \E j \in Jobs : Fetched(c, Response(job[c].cursor), j)
<1> DEFINE found == Response(job[c].cursor)
           more == found # {} /\ AfterCursor(Max(found)) # {}
           j(cursor) == ReadTo(c, found, cursor)
<1>1. found \in SUBSET Pages /\ pc[c] = "fetch"
  BY ResponseType DEF Fetch
<1>2. Tables
  BY TablesUnchanged DEF Fetch, Typed
<1>3. job[c].kind = "sync" /\ answer[c] = "none"
  BY <1>1 DEF Typed, Matches, PhaseMatches
<1>8. IF more THEN Goto(c, "fetch", j(Max(found))) ELSE Proceed(c, j(0))
  BY Zenon DEF Fetch, ReadTo
<1>4. CASE more
  <2>1. Max(found) \in Pages \cup {0}
    BY <1>1, <1>4, MaxPage
  <2>2. PICK k \in Jobs :
            /\ k = j(Max(found))
            /\ k.kind = "sync" /\ k.start = job[c].start
            /\ k.todo = Read(c, found) /\ k.cursor = Max(found)
            /\ \A p \in Remaining(k) : k.todo[p].status = "READY"
    BY <1>1, <2>1, ReadJob, Zenon
  <2>3. Goto(c, "fetch", k)
    BY <1>4, <1>8, <2>2, Zenon
  <2>4. pc'[c] = "fetch" /\ job'[c] = k /\ answer'[c] = answer[c]
    BY <2>3, GotoType DEF Phases, Typed
  <2>5. PhaseMatches(c)' /\ PageMatches(c)' /\ StatusMatches(c)'
    BY <1>3, <2>2, <2>4 DEF PhaseMatches, PageMatches, StatusMatches
  <2>6. StartMatches(c)'
    BY <1>2, <1>3, <2>2, <2>4, StartStays
  <2>7. Step(c)
    BY <1>1, <1>2, <2>3, <2>5, <2>6, GotoStep DEF Phases
  <2>8. QED
    BY <1>1, <1>3, <1>4, <2>2, <2>4, <2>7 DEF Fetched
<1>5. CASE ~more
  <2>1. PICK k \in Jobs :
            /\ k = j(0)
            /\ k.kind = "sync" /\ k.start = job[c].start /\ k.todo = Read(c, found)
            /\ \A p \in Remaining(k) : k.todo[p].status = "READY"
    <3>1. 0 \in Pages \cup {0}
      OBVIOUS
    <3>2. QED
      BY <1>1, <3>1, ReadJob, Zenon
  <2>2. Proceed(c, k)
    BY <1>5, <1>8, <2>1, Zenon
  <2>3. /\ Step(c)
        /\ \/ /\ Remaining(k) # {} /\ pc'[c] = k.kind /\ job'[c] = k
              /\ answer'[c] = answer[c]
           \/ Remaining(k) = {} /\ pc'[c] = "done" /\ job'[c] = Ended(job[c])
    BY <1>1, <1>2, <1>3, <2>1, <2>2, ProceedStep
  <2>4. QED
    BY <1>1, <1>3, <1>5, <2>1, <2>3 DEF Fetched
<1>6. QED
  BY <1>4, <1>5

\* The locals after the choice of a page.
LEMMA ChosenJob ==
    ASSUME NEW j \in Jobs, NEW p \in Pages
    PROVE  \E k \in Jobs :
              /\ k = [j EXCEPT !.page = p]
              /\ k.kind = j.kind /\ k.start = j.start /\ k.todo = j.todo /\ k.page = p
<1>1. PICK k \in Jobs : k = [j EXCEPT !.page = p]
  BY DEF Jobs
<1>2. k.kind = j.kind /\ k.start = j.start /\ k.todo = j.todo /\ k.page = p
  BY <1>1 DEF Jobs
<1>3. QED
  BY <1>1, <1>2

\* A sync has chosen the page it saves next, and knows whether it has a row.
Found(c, p, j) ==
    /\ j.kind = "sync" /\ j.start = job[c].start /\ j.todo = job[c].todo /\ j.page = p
    /\ pc'[c] = (IF tx[p] = Nothing THEN "insert" ELSE "load")
    /\ job'[c] = j /\ answer'[c] = "none"

LEMMA SyncFindStep ==
    ASSUME Typed, NEW c \in Calls, SyncFind(c)
    PROVE  /\ Step(c) /\ pc[c] = "sync"
           /\ \E p \in Remaining(job[c]) : \E j \in Jobs : Found(c, p, j)
<1>1. /\ pc[c] = "sync" /\ job[c] \in Jobs /\ job[c].kind = "sync" /\ answer[c] = "none"
      /\ Remaining(job[c]) # {} /\ Remaining(job[c]) \in SUBSET Pages
  BY DEF SyncFind, Typed, TypeOK, Matches, PhaseMatches, Remaining
<1>2. PICK p \in Remaining(job[c]) : p = Min(Remaining(job[c])) /\ p \in Pages
  BY <1>1, MinPage
<1>3. PICK j \in Jobs :
          /\ j = [job[c] EXCEPT !.page = p]
          /\ j.kind = "sync" /\ j.start = job[c].start /\ j.todo = job[c].todo /\ j.page = p
  <2>1. PICK j \in Jobs :
            /\ j = [job[c] EXCEPT !.page = p]
            /\ j.kind = job[c].kind /\ j.start = job[c].start /\ j.todo = job[c].todo
            /\ j.page = p
    BY <1>1, <1>2, ChosenJob, Zenon
  <2>2. QED
    BY <1>1, <2>1, Zenon
<1> DEFINE phase == IF tx[p] = Nothing THEN "insert" ELSE "load"
<1>4. phase \in {"insert", "load"}
  OBVIOUS
<1>5. Goto(c, phase, j)
  <2>1. Goto(c, IF tx[p] = Nothing THEN "insert" ELSE "load", [job[c] EXCEPT !.page = p])
    BY <1>2 DEF SyncFind
  <2>2. QED
    BY <1>3, <1>4, <2>1, Zenon
<1>6. Tables /\ tx' = tx
  BY TablesUnchanged DEF SyncFind, Typed
<1>7. pc'[c] = phase /\ job'[c] = j /\ answer'[c] = answer[c]
  BY <1>5, GotoType DEF Phases, Typed
<1>8. PhaseMatches(c)'
  BY <1>1, <1>3, <1>7 DEF PhaseMatches
<1>9. Remaining(j) = Remaining(job[c])
  BY <1>3 DEF Remaining
<1>10. PageMatches(c)'
  BY <1>2, <1>3, <1>4, <1>6, <1>7, <1>9 DEF PageMatches
<1>11. StatusMatches(c)'
  BY <1>1, <1>3, <1>7, <1>9 DEF StatusMatches, Typed, Matches
<1>12. StartMatches(c)'
  BY <1>1, <1>3, <1>6, <1>7, StartStays
<1>13. Step(c)
  BY <1>1, <1>5, <1>6, <1>8, <1>10, <1>11, <1>12, GotoStep DEF Phases
<1>14. QED
  BY <1>1, <1>3, <1>4, <1>7, <1>13 DEF Found

\* What is left to be saved when the current transaction is done with.
LEMMA SavedJob ==
    ASSUME NEW j \in Jobs, j.page \in Pages
    PROVE  /\ Saved(j) \in Jobs /\ Saved(j).kind = j.kind /\ Saved(j).start = j.start
           /\ Saved(j).todo = [j.todo EXCEPT ![j.page] = Nothing]
           /\ Remaining(Saved(j)) = Remaining(j) \ {j.page}
           /\ \A p \in Remaining(Saved(j)) : Saved(j).todo[p] = j.todo[p]
<1>1. PICK todo \in [Pages -> Row \cup {Nothing}] :
          todo = [j.todo EXCEPT ![j.page] = Nothing]
  BY DEF Jobs
<1>2. j.todo \in [Pages -> Row \cup {Nothing}]
  BY DEF Jobs
<1>3. PICK k \in Jobs : k = [j EXCEPT !.todo = todo, !.page = 0, !.loaded = Nothing]
  BY DEF Jobs
<1>4. Saved(j) = k
  BY <1>1, <1>3 DEF Saved, Jobs
<1>5. k.kind = j.kind /\ k.start = j.start /\ k.todo = todo
  BY <1>3 DEF Jobs
<1>6. Remaining(k) = Remaining(j) \ {j.page}
  BY <1>1, <1>2, <1>5 DEF Remaining
<1>7. \A p \in Remaining(k) : k.todo[p] = j.todo[p]
  BY <1>1, <1>2, <1>5, <1>6 DEF Remaining
<1>8. QED
  BY <1>1, <1>4, <1>5, <1>6, <1>7

\* A transaction is saved: on to the next one, or to the answer, or no answer.
Advanced(c) ==
    \/ /\ Remaining(Saved(job[c])) # {} /\ pc'[c] = job[c].kind
       /\ job'[c] = Saved(job[c]) /\ answer'[c] = "none"
    \/ /\ Remaining(Saved(job[c])) = {} /\ pc'[c] = "done"
       /\ job'[c] = Ended(job[c]) /\ answer'[c] \in {"success", "missingRules"}
    \/ pc'[c] = "done" /\ job'[c] = Ended(job[c]) /\ answer'[c] = "failed"

LEMMA SavedStep ==
    ASSUME Typed, NEW c \in Calls, pc[c] \in {"insert", "save"},
           Proceed(c, Saved(job[c])) \/ Finish(c, "failed"), Tables
    PROVE  Step(c) /\ Advanced(c)
<1>1. /\ job[c] \in Jobs /\ job[c].kind \in {"sync", "generate"}
      /\ job[c].page \in Remaining(job[c]) /\ answer[c] = "none"
  BY DEF Typed, TypeOK, Matches, PhaseMatches, PageMatches
<1>2. CASE Finish(c, "failed")
  BY <1>1, <1>2, FinishStep DEF Answers, Advanced
<1>3. CASE Proceed(c, Saved(job[c]))
  <2>1. PICK j \in Jobs :
            /\ j = Saved(job[c]) /\ j.kind = job[c].kind /\ j.start = job[c].start
            /\ Remaining(j) = Remaining(job[c]) \ {job[c].page}
            /\ \A p \in Remaining(j) : j.todo[p] = job[c].todo[p]
    BY <1>1, SavedJob DEF Remaining
  <2>2. \A p \in Remaining(j) : j.todo[p].status = "READY"
    BY <2>1 DEF Typed, Matches, StatusMatches
  <2>3. j.kind = "generate" => \A p \in Remaining(j) : tx'[p] # Nothing
    BY <2>1 DEF Typed, Matches, PageMatches, Tables, Grows, Remaining
  <2>4. /\ Step(c)
        /\ \/ /\ Remaining(j) # {} /\ pc'[c] = j.kind /\ job'[c] = j
              /\ answer'[c] = answer[c]
           \/ /\ Remaining(j) = {} /\ pc'[c] = "done" /\ job'[c] = Ended(job[c])
              /\ answer'[c] \in {"success", "missingRules"}
    BY <1>1, <1>3, <2>1, <2>2, <2>3, ProceedStep
  <2>5. QED
    BY <1>1, <2>1, <2>4 DEF Advanced
<1>4. QED
  BY <1>2, <1>3

\* An insertion writes what is left to be saved, or finds the page taken.
Inserted(c) ==
    \/ /\ tx[job[c].page] = Nothing /\ Advanced(c)
       /\ tx' = [tx EXCEPT ![job[c].page] = job[c].todo[job[c].page]]
    \/ /\ tx[job[c].page] # Nothing /\ tx' = tx
       /\ pc'[c] = "done" /\ job'[c] = Ended(job[c]) /\ answer'[c] = "failed"

LEMMA SyncInsertStep ==
    ASSUME Typed, NEW c \in Calls, SyncInsert(c)
    PROVE  /\ Step(c) /\ pc[c] = "insert" /\ job[c].page \in Remaining(job[c])
           /\ Inserted(c)
<1>1. /\ pc[c] = "insert" /\ job[c].page \in Remaining(job[c])
      /\ job[c].page \in Pages /\ job[c].todo[job[c].page] \in Row
  BY DEF SyncInsert, Typed, TypeOK, Matches, PageMatches, Remaining, Jobs
<1>2. CASE tx[job[c].page] = Nothing
  <2>1. /\ tx' = [tx EXCEPT ![job[c].page] = job[c].todo[job[c].page]]
        /\ Proceed(c, Saved(job[c])) \/ Finish(c, "failed")
        /\ UNCHANGED <<notion, entries, before>>
    BY <1>2 DEF SyncInsert
  <2>2. tx' \in [Pages -> Row \cup {Nothing}]
    BY <1>1, <2>1 DEF Typed, TypeOK
  <2>3. \A p \in Pages : tx[p] # Nothing => tx'[p] # Nothing
    BY <1>1, <2>1, NothingIsNoRow DEF Typed, TypeOK
  <2>4. Tables
    <3>1. \A p \in Pages : Len(notion[p]) <= Len(notion[p])
      BY DEF Typed, TypeOK
    <3>2. QED
      BY <2>1, <2>2, <2>3, <3>1 DEF Tables, Grows, Typed, TypeOK
  <2>5. QED
    BY <1>1, <1>2, <2>1, <2>4, SavedStep DEF Inserted
<1>3. CASE tx[job[c].page] # Nothing
  <2>1. Finish(c, "failed") /\ UNCHANGED <<notion, tx, entries, before>>
    BY <1>3 DEF SyncInsert
  <2>2. Tables
    BY <2>1, TablesUnchanged DEF Typed
  <2>3. QED
    BY <1>1, <1>3, <2>1, <2>2, FinishStep DEF Inserted, Answers
<1>4. QED
  BY <1>2, <1>3

-----------------------------------------------------------------------------
(* save().                                                                 *)

\* Two rows have the same content if all columns but the status are equal.
LEMMA SameContent ==
    ASSUME NEW t \in Row, NEW u \in Row
    PROVE  /\ DOMAIN t = {"type", "amount", "amountIncludesVat", "vatType", "category", "status"}
           /\ Content(t) = Content(u) <=>
                 /\ t.type = u.type /\ t.amount = u.amount /\ t.vatType = u.vatType
                 /\ t.amountIncludesVat = u.amountIncludesVat /\ t.category = u.category
<1>1. /\ DOMAIN t = {"type", "amount", "amountIncludesVat", "vatType", "category", "status"}
      /\ DOMAIN u = {"type", "amount", "amountIncludesVat", "vatType", "category", "status"}
  BY DEF Row
<1> DEFINE columns == {"type", "amount", "amountIncludesVat", "vatType", "category"}
<1>2. DOMAIN t \ {"status"} = columns /\ DOMAIN u \ {"status"} = columns
  BY <1>1
<1>3. /\ Content(t) = [f \in columns |-> t[f]]
      /\ Content(u) = [f \in columns |-> u[f]]
  BY <1>2 DEF Content
<1>4. Content(t) = Content(u) => \A f \in columns : t[f] = u[f]
  <2>1. ASSUME Content(t) = Content(u), NEW f \in columns PROVE t[f] = u[f]
    <3>1. Content(t)[f] = t[f] /\ Content(u)[f] = u[f]
      BY <1>3
    <3>2. QED
      BY <2>1, <3>1
  <2>2. QED
    BY <2>1
<1>5. (\A f \in columns : t[f] = u[f]) => Content(t) = Content(u)
  BY <1>3
<1>6. QED
  BY <1>1, <1>4, <1>5

\* The row as save() has read it.
Loaded(c, j) ==
    /\ j.kind = job[c].kind /\ j.start = job[c].start /\ j.todo = job[c].todo
    /\ j.page = job[c].page /\ j.loaded = tx[job[c].page]
    /\ pc'[c] = "save" /\ job'[c] = j /\ answer'[c] = "none"

LEMMA SaveLoadStep ==
    ASSUME Typed, NEW c \in Calls, SaveLoad(c)
    PROVE  /\ Step(c) /\ pc[c] = "load" /\ job[c].page \in Remaining(job[c])
           /\ \E j \in Jobs : Loaded(c, j)
<1>1. /\ pc[c] = "load" /\ job[c] \in Jobs /\ job[c].kind \in {"sync", "generate"}
      /\ answer[c] = "none" /\ job[c].page \in Remaining(job[c])
      /\ job[c].page \in Pages /\ tx[job[c].page] \in Row
  BY DEF SaveLoad, Typed, TypeOK, Matches, PhaseMatches, PageMatches, Remaining
<1>2. PICK j \in Jobs : j = [job[c] EXCEPT !.loaded = tx[job[c].page]]
  BY <1>1 DEF Jobs
<1>3. /\ j.kind = job[c].kind /\ j.start = job[c].start /\ j.todo = job[c].todo
      /\ j.page = job[c].page /\ j.loaded = tx[job[c].page]
  BY <1>1, <1>2 DEF Jobs
<1>4. Goto(c, "save", j)
  BY <1>2, Zenon DEF SaveLoad
<1>5. Tables /\ tx' = tx
  BY TablesUnchanged DEF SaveLoad, Typed
<1>6. pc'[c] = "save" /\ job'[c] = j /\ answer'[c] = answer[c]
  BY <1>4, GotoType DEF Phases, Typed
<1>7. Remaining(j) = Remaining(job[c])
  BY <1>3 DEF Remaining
<1>8. PhaseMatches(c)'
  BY <1>1, <1>3, <1>6 DEF PhaseMatches
<1>9. PageMatches(c)'
  BY <1>1, <1>3, <1>5, <1>6, <1>7, NothingIsNoRow DEF PageMatches, Typed, Matches
<1>10. StatusMatches(c)'
  BY <1>1, <1>3, <1>6, <1>7 DEF StatusMatches, Typed, Matches
<1>11. StartMatches(c)'
  BY <1>3, <1>5, <1>6, StartStays
<1>12. Step(c)
  BY <1>1, <1>4, <1>5, <1>8, <1>9, <1>10, <1>11, GotoStep DEF Phases
<1>13. QED
  BY <1>1, <1>3, <1>6, <1>12 DEF Loaded

\* The row as save() has written it.
Written(c) == Changed(job[c].todo[job[c].page], job[c].loaded, tx[job[c].page])

LEMMA SaveWriteStep ==
    ASSUME Typed, NEW c \in Calls, SaveWrite(c)
    PROVE  /\ Step(c) /\ Advanced(c) /\ pc[c] = "save" /\ job[c].page \in Remaining(job[c])
           /\ job[c].todo[job[c].page] \in Row /\ job[c].loaded \in Row
           /\ tx[job[c].page] \in Row /\ Written(c) \in Row
           /\ tx' = [tx EXCEPT ![job[c].page] = Written(c)]
<1>1. /\ pc[c] = "save" /\ job[c].page \in Remaining(job[c]) /\ job[c].page \in Pages
      /\ job[c].todo[job[c].page] \in Row
  BY DEF SaveWrite, Typed, TypeOK, Matches, PageMatches, Remaining, Jobs
<1>2. job[c].loaded \in Row /\ tx[job[c].page] \in Row
  BY <1>1 DEF Typed, TypeOK, Matches, PageMatches, Jobs
<1>3. Written(c) \in Row
  BY <1>1, <1>2, ChangedType DEF Written
<1>4. tx' = [tx EXCEPT ![job[c].page] = Written(c)]
  BY DEF SaveWrite, Written
<1>5. tx' \in [Pages -> Row \cup {Nothing}]
  BY <1>1, <1>3, <1>4 DEF Typed, TypeOK
<1>6. \A p \in Pages : tx[p] # Nothing => tx'[p] # Nothing
  BY <1>1, <1>3, <1>4, NothingIsNoRow DEF Typed, TypeOK
<1>7. /\ UNCHANGED <<notion, entries, before>>
      /\ Proceed(c, Saved(job[c])) \/ Finish(c, "failed")
  BY DEF SaveWrite
<1>8. Tables
  <2>1. \A p \in Pages : Len(notion[p]) <= Len(notion[p])
    BY DEF Typed, TypeOK
  <2>2. QED
    BY <1>5, <1>6, <1>7, <2>1 DEF Tables, Grows, Typed, TypeOK
<1>9. Step(c) /\ Advanced(c)
  BY <1>1, <1>7, <1>8, SavedStep
<1>10. QED
  BY <1>1, <1>2, <1>3, <1>4, <1>9

-----------------------------------------------------------------------------
(* generateJournalEntries.                                                 *)

\* A generation has selected transactions that are READY.
Selected(c, j) ==
    /\ j.kind = "generate" /\ j.start = job[c].start
    /\ \A p \in Remaining(j) :
          p \in Pages /\ j.todo[p] = tx[p] /\ tx[p] # Nothing /\ tx[p].status = "READY"
    /\ \/ Remaining(j) # {} /\ pc'[c] = "generate" /\ job'[c] = j /\ answer'[c] = "none"
       \/ Remaining(j) = {} /\ pc'[c] = "done" /\ job'[c] = Ended(job[c])

LEMMA GenerateSelectStep ==
    ASSUME Typed, NEW c \in Calls, GenerateSelect(c)
    PROVE  Step(c) /\ pc[c] = "select" /\ \E j \in Jobs : Selected(c, j)
<1>1. PICK chosen \in SUBSET Inbox("READY") :
          Proceed(c, [job[c] EXCEPT !.todo =
                         [p \in Pages |-> IF p \in chosen THEN tx[p] ELSE Nothing]])
  BY DEF GenerateSelect
<1>2. /\ pc[c] = "select" /\ job[c] \in Jobs /\ job[c].kind = "generate"
      /\ answer[c] = "none"
  BY DEF GenerateSelect, Typed, TypeOK, Matches, PhaseMatches
<1>3. PICK todo \in [Pages -> Row \cup {Nothing}] :
          todo = [p \in Pages |-> IF p \in chosen THEN tx[p] ELSE Nothing]
  <2>1. tx \in [Pages -> Row \cup {Nothing}]
    BY DEF Typed, TypeOK
  <2>2. [p \in Pages |-> IF p \in chosen THEN tx[p] ELSE Nothing]
          \in [Pages -> Row \cup {Nothing}]
    BY <2>1
  <2>3. QED
    BY <2>2
<1>4. PICK j \in Jobs : j = [job[c] EXCEPT !.todo = todo]
  BY <1>2 DEF Jobs
<1>5. j.kind = job[c].kind /\ j.start = job[c].start /\ j.todo = todo
  BY <1>2, <1>4 DEF Jobs
<1>6. \A p \in Remaining(j) :
          p \in Pages /\ j.todo[p] = tx[p] /\ tx[p] # Nothing /\ tx[p].status = "READY"
  <2>1. SUFFICES ASSUME NEW p \in Remaining(j)
                 PROVE  /\ p \in Pages /\ j.todo[p] = tx[p]
                        /\ tx[p] # Nothing /\ tx[p].status = "READY"
    OBVIOUS
  <2>2. p \in Pages /\ todo[p] # Nothing
    BY <1>5 DEF Remaining
  <2>3. p \in chosen /\ todo[p] = tx[p]
    BY <1>3, <2>2
  <2>4. QED
    BY <1>1, <1>5, <2>2, <2>3 DEF Inbox
<1>7. Tables /\ tx' = tx
  BY TablesUnchanged DEF GenerateSelect, Typed
<1>8. Proceed(c, j)
  BY <1>1, <1>3, <1>4, Zenon
<1>9. /\ Step(c)
      /\ \/ /\ Remaining(j) # {} /\ pc'[c] = j.kind /\ job'[c] = j
            /\ answer'[c] = answer[c]
         \/ Remaining(j) = {} /\ pc'[c] = "done" /\ job'[c] = Ended(job[c])
  BY <1>2, <1>5, <1>6, <1>7, <1>8, ProceedStep
<1>10. QED
  BY <1>2, <1>5, <1>6, <1>9 DEF Selected

\* The status of one transaction is decided.
Decided(j, p, status) == [j.todo EXCEPT ![p].status = status]

LEMMA DecidedType ==
    ASSUME NEW j \in Jobs, NEW p \in Remaining(j), NEW status \in Statuses
    PROVE  /\ Decided(j, p, status) \in [Pages -> Row \cup {Nothing}]
           /\ Decided(j, p, status)[p] \in Row
           /\ Decided(j, p, status)[p].status = status
           /\ Content(Decided(j, p, status)[p]) = Content(j.todo[p])
           /\ RulesFor(Decided(j, p, status)[p]) = RulesFor(j.todo[p])
           /\ \A q \in Pages \ {p} : Decided(j, p, status)[q] = j.todo[q]
<1>1. /\ j.todo \in [Pages -> Row \cup {Nothing}] /\ p \in Pages /\ j.todo[p] \in Row
  BY DEF Jobs, Remaining
<1>2. PICK t \in Row : t = [j.todo[p] EXCEPT !.status = status]
  BY <1>1 DEF Row
<1>3. /\ t.status = status /\ t.type = j.todo[p].type /\ t.amount = j.todo[p].amount
      /\ t.vatType = j.todo[p].vatType /\ t.category = j.todo[p].category
      /\ t.amountIncludesVat = j.todo[p].amountIncludesVat
  BY <1>1, <1>2 DEF Row
<1>4. Decided(j, p, status) = [j.todo EXCEPT ![p] = t]
  BY <1>1, <1>2 DEF Decided
<1>5. /\ Decided(j, p, status) \in [Pages -> Row \cup {Nothing}]
      /\ Decided(j, p, status)[p] = t
      /\ \A q \in Pages \ {p} : Decided(j, p, status)[q] = j.todo[q]
  BY <1>1, <1>4
<1>6. Content(t) = Content(j.todo[p])
  BY <1>1, <1>3, SameContent
<1>7. RulesFor(t) = RulesFor(j.todo[p])
  BY <1>3 DEF RulesFor
<1>8. QED
  BY <1>3, <1>5, <1>6, <1>7

\* The handler of c has decided on the status of a page, and will save it.
Judged(c, p, status, j) ==
    /\ j.kind = "generate" /\ j.start = job[c].start /\ j.page = p
    /\ j.todo = Decided(job[c], p, status)
    /\ job'[c] = j /\ answer'[c] = "none"

LEMMA JudgedStep ==
    ASSUME Typed, NEW c \in Calls, pc[c] = "generate", NEW p \in Remaining(job[c]),
           NEW status \in {"REVIEW", "PROCESSED"}, NEW phase \in {"load", "save"},
           NEW j \in Jobs, j.kind = "generate", j.start = job[c].start, j.page = p,
           j.todo = Decided(job[c], p, status), phase = "save" => j.loaded = tx[p],
           Goto(c, phase, j), Tables, tx' = tx
    PROVE  Step(c) /\ pc'[c] = phase /\ Judged(c, p, status, j)
<1>1. /\ job[c] \in Jobs /\ job[c].kind = "generate" /\ answer[c] = "none"
      /\ p \in Pages /\ tx[p] # Nothing /\ status \in Statuses
      /\ \A q \in Remaining(job[c]) : job[c].todo[q].status = "READY" /\ tx[q] # Nothing
  BY DEF Typed, TypeOK, Matches, PhaseMatches, PageMatches, StatusMatches, Remaining,
         Statuses
<1>2. /\ j.todo[p] \in Row /\ j.todo[p].status = status
      /\ \A q \in Pages \ {p} : j.todo[q] = job[c].todo[q]
  BY <1>1, DecidedType
<1>3. Remaining(j) = Remaining(job[c])
  BY <1>1, <1>2, NothingIsNoRow DEF Remaining
<1>4. pc'[c] = phase /\ job'[c] = j /\ answer'[c] = answer[c]
  BY GotoType DEF Phases, Typed
<1>5. PhaseMatches(c)'
  BY <1>1, <1>4 DEF PhaseMatches
<1>6. PageMatches(c)'
  BY <1>1, <1>3, <1>4 DEF PageMatches
<1>7. StatusMatches(c)'
  <2>1. \A q \in Remaining(j) : j.todo[q].status = "READY" <=> q # p
    BY <1>1, <1>2, <1>3 DEF Remaining
  <2>2. QED
    BY <1>4, <2>1 DEF StatusMatches
<1>8. StartMatches(c)'
  BY <1>1, <1>4, StartStays
<1>9. Step(c)
  BY <1>5, <1>6, <1>7, <1>8, GotoStep DEF Phases
<1>10. QED
  BY <1>1, <1>4, <1>9 DEF Judged

\* No rule: for review, and save() has loaded the row.
Unruled(c, p, j) ==
    /\ RulesFor(job[c].todo[p]) = {}
    /\ Judged(c, p, "REVIEW", j) /\ pc'[c] = "save" /\ j.loaded = tx[p]

LEMMA GenerateWithoutRuleStep ==
    ASSUME Typed, NEW c \in Calls, GenerateWithoutRule(c)
    PROVE  /\ Step(c) /\ pc[c] = "generate"
           /\ \E p \in Remaining(job[c]) : \E j \in Jobs : Unruled(c, p, j)
<1>1. PICK p \in Remaining(job[c]) :
        /\ RulesFor(job[c].todo[p]) = {}
        /\ Goto(c, "save", [job[c] EXCEPT !.page = p, !.loaded = tx[p], !.missing = TRUE,
                                          !.todo[p].status = "REVIEW"])
  BY DEF GenerateWithoutRule
<1>2. /\ pc[c] = "generate" /\ job[c] \in Jobs /\ job[c].kind = "generate"
      /\ p \in Pages /\ tx[p] \in Row \cup {Nothing} /\ "REVIEW" \in Statuses
  BY DEF GenerateWithoutRule, Typed, TypeOK, Matches, PhaseMatches, Remaining, Statuses
<1>3. PICK todo \in [Pages -> Row \cup {Nothing}] : todo = Decided(job[c], p, "REVIEW")
  BY <1>2, DecidedType
<1>4. PICK j \in Jobs :
          j = [job[c] EXCEPT !.page = p, !.loaded = tx[p], !.missing = TRUE, !.todo = todo]
  BY <1>2 DEF Jobs
<1>5. /\ j.kind = "generate" /\ j.start = job[c].start /\ j.page = p /\ j.loaded = tx[p]
      /\ j.todo = Decided(job[c], p, "REVIEW")
  BY <1>2, <1>3, <1>4 DEF Jobs
<1>6. j = [job[c] EXCEPT !.page = p, !.loaded = tx[p], !.missing = TRUE,
                         !.todo[p].status = "REVIEW"]
  BY <1>2, <1>3, <1>4 DEF Decided, Jobs
<1>7. Goto(c, "save", j)
  BY <1>1, <1>6, Zenon
<1>8. Tables /\ tx' = tx
  BY TablesUnchanged DEF GenerateWithoutRule, Typed
<1>9. Step(c) /\ pc'[c] = "save" /\ Judged(c, p, "REVIEW", j)
  BY <1>2, <1>5, <1>7, <1>8, JudgedStep
<1>10. QED
  BY <1>1, <1>2, <1>5, <1>9 DEF Unruled

\* What the handler of c books of a page.
Booked(c, p, e) ==
    /\ e.page = p /\ e.run = c /\ e.of = job[c].todo[p] /\ IsEntry(e)
    /\ e.isBalanced \/ e.of.amount < 0
    /\ DOMAIN e.lines \subseteq 1 .. 3 /\ e.isBalanced = IsBalanced(e.lines)

LEMMA EntryType ==
    ASSUME Typed, NEW c \in Calls, NEW p \in Remaining(job[c])
    PROVE  Booked(c, p, Entry(c, p, Lines(job[c].todo[p])))
<1> DEFINE t == job[c].todo[p]
           rule == Rules[Max(RulesFor(t))]
           e == Entry(c, p, Lines(t))
<1>1. t \in Row /\ t.amount \in Int /\ p \in Pages
  BY DEF Typed, TypeOK, Jobs, Remaining, Row
<1>2. e.page = p /\ e.run = c /\ e.of = t
  BY DEF Entry
<1>3. e.lines = BuildJournalLines(t, rule) /\ e.isBalanced = IsBalanced(e.lines)
  BY DEF Entry, Lines
<1> HIDE DEF t, rule, e
<1>4. /\ Len(e.lines) \in 2 .. 3 /\ DOMAIN e.lines \subseteq 1 .. 3
      /\ \A i \in DOMAIN e.lines : IsLine(e.lines[i])
  BY <1>1, <1>3, LinesType
<1>5. e.isBalanced \in BOOLEAN
  BY <1>3 DEF IsBalanced
<1>6. IsEntry(e)
  BY <1>1, <1>2, <1>4, <1>5 DEF IsEntry
<1>7. t.amount >= 0 => CalculateVat(t, rule) >= 0
  BY <1>1, VatType
<1>8. IsBalanced(e.lines) <=> CalculateVat(t, rule) >= 0
  BY <1>1, <1>3, BalancedUnlessVatNegative
<1>9. t.amount >= 0 => e.isBalanced
  BY <1>3, <1>7, <1>8
<1>10. e.isBalanced \/ e.of.amount < 0
  BY <1>1, <1>2, <1>9
<1>11. QED
  BY <1>2, <1>3, <1>4, <1>6, <1>10 DEF Booked, e, t

\* The entry is stored; then its transaction is to be saved, or there is no
\* answer.
Generated(c, p, e) ==
    /\ Booked(c, p, e) /\ entries' = entries \cup {e}
    /\ \/ pc'[c] = "load" /\ \E j \in Jobs : Judged(c, p, StatusAfter(e), j)
       \/ pc'[c] = "done" /\ job'[c] = Ended(job[c]) /\ answer'[c] = "failed"

LEMMA GenerateEntryStep ==
    ASSUME Typed, NEW c \in Calls, GenerateEntry(c)
    PROVE  /\ Step(c) /\ pc[c] = "generate" /\ UNCHANGED <<notion, tx, before>>
           /\ \E p \in Remaining(job[c]) : \E e \in entries' : Generated(c, p, e)
<1>0. PICK p \in Remaining(job[c]) :
        \E entry \in {Entry(c, p, Lines(job[c].todo[p]))} :
            /\ entries' = entries \cup {entry}
            /\ \/ Goto(c, "load", [job[c] EXCEPT !.page = p,
                                                 !.todo[p].status = StatusAfter(entry)])
               \/ Finish(c, "failed")
  BY Zenon DEF GenerateEntry
<1>1. PICK entry \in {Entry(c, p, Lines(job[c].todo[p]))} :
        /\ entries' = entries \cup {entry}
        /\ \/ Goto(c, "load", [job[c] EXCEPT !.page = p,
                                             !.todo[p].status = StatusAfter(entry)])
           \/ Finish(c, "failed")
  BY <1>0, Zenon
<1>2. /\ pc[c] = "generate" /\ job[c] \in Jobs /\ job[c].kind = "generate" /\ p \in Pages
      /\ UNCHANGED <<notion, tx, before>>
  BY DEF GenerateEntry, Typed, TypeOK, Matches, PhaseMatches, Remaining
<1>3. Booked(c, p, entry)
  BY <1>1, EntryType
<1>4. Tables
  <2>1. \A q \in Pages : Len(notion[q]) <= Len(notion[q])
    BY DEF Typed, TypeOK
  <2>2. \A e \in entries' : IsEntry(e)
    BY <1>1, <1>3 DEF Typed, TypeOK, Booked
  <2>3. QED
    BY <1>2, <2>1, <2>2 DEF Tables, Grows, Typed, TypeOK
<1>5. CASE Finish(c, "failed")
  BY <1>1, <1>2, <1>3, <1>4, <1>5, FinishStep DEF Answers, Generated
<1>6. CASE Goto(c, "load", [job[c] EXCEPT !.page = p,
                                         !.todo[p].status = StatusAfter(entry)])
  <2> DEFINE status == StatusAfter(entry)
  <2>1. status \in {"REVIEW", "PROCESSED"} /\ status \in Statuses
    BY DEF StatusAfter, Statuses
  <2> HIDE DEF status
  <2>2. PICK todo \in [Pages -> Row \cup {Nothing}] : todo = Decided(job[c], p, status)
    BY <1>2, <2>1, DecidedType
  <2>3. PICK j \in Jobs : j = [job[c] EXCEPT !.page = p, !.todo = todo]
    BY <1>2 DEF Jobs
  <2>4. /\ j.kind = "generate" /\ j.start = job[c].start /\ j.page = p
        /\ j.todo = Decided(job[c], p, status)
    BY <1>2, <2>2, <2>3 DEF Jobs
  <2>5. j = [job[c] EXCEPT !.page = p, !.todo[p].status = status]
    BY <1>2, <2>2, <2>3 DEF Decided, Jobs
  <2>6. Goto(c, "load", j)
    BY <1>6, <2>5, Zenon DEF status
  <2>7. Step(c) /\ pc'[c] = "load" /\ Judged(c, p, status, j)
    BY <1>2, <1>4, <2>1, <2>4, <2>6, JudgedStep
  <2>8. QED
    BY <1>1, <1>2, <1>3, <2>7 DEF Generated, status
<1>7. QED
  BY <1>1, <1>5, <1>6

-----------------------------------------------------------------------------
(* The other steps.                                                        *)

LEMMA EditStep ==
    ASSUME Typed, NEW p \in Pages, Edit(p)
    PROVE  /\ Typed' /\ UNCHANGED <<tx, entries, pc, job, answer, before>>
           /\ \A q \in Pages :
                 /\ Len(notion[q]) \in Nat /\ Len(notion[q]) >= 1 /\ Len(notion'[q]) \in Nat
                 /\ Len(notion[q]) <= Len(notion'[q])
                 /\ \A i \in 1 .. Len(notion[q]) : notion'[q][i] = notion[q][i]
<1>1. PICK v \in Versions \cup {Nothing} : notion' = [notion EXCEPT ![p] = Append(@, v)]
  BY DEF Edit
<1>2. /\ Len(notion[p]) < MaxVersions
      /\ UNCHANGED <<tx, entries, pc, job, answer, before>>
  BY DEF Edit
<1>3. \A q \in Pages : notion[q] \in Seq(Versions \cup {Nothing}) /\ Len(notion[q]) >= 1
  BY DEF Typed, TypeOK
<1>4. /\ Append(notion[p], v) \in Seq(Versions \cup {Nothing})
      /\ Len(Append(notion[p], v)) = Len(notion[p]) + 1
      /\ \A i \in 1 .. Len(notion[p]) : Append(notion[p], v)[i] = notion[p][i]
  BY <1>3
<1>5. \A q \in Pages : notion'[q] = IF q = p THEN Append(notion[p], v) ELSE notion[q]
  BY <1>1 DEF Typed, TypeOK
<1>6. \A q \in Pages :
        /\ Len(notion[q]) \in Nat /\ Len(notion[q]) >= 1 /\ Len(notion'[q]) \in Nat
        /\ Len(notion[q]) <= Len(notion'[q])
        /\ \A i \in 1 .. Len(notion[q]) : notion'[q][i] = notion[q][i]
  <2> SUFFICES ASSUME NEW q \in Pages
               PROVE  /\ Len(notion[q]) \in Nat /\ Len(notion[q]) >= 1
                      /\ Len(notion'[q]) \in Nat /\ Len(notion[q]) <= Len(notion'[q])
                      /\ \A i \in 1 .. Len(notion[q]) : notion'[q][i] = notion[q][i]
    OBVIOUS
  <2>1. Len(notion[q]) \in Nat /\ Len(notion[q]) >= 1
    BY <1>3
  <2>2. CASE q = p
    <3>1. PICK s : s = Append(notion[p], v)
      OBVIOUS
    <3>2. /\ notion'[q] = s /\ Len(s) = Len(notion[q]) + 1
          /\ \A i \in 1 .. Len(notion[q]) : s[i] = notion[q][i]
      BY <1>4, <1>5, <2>2, <3>1, Zenon
    <3>3. Len(notion'[q]) = Len(notion[q]) + 1
      BY <3>2
    <3>4. QED
      BY <2>1, <3>2, <3>3
  <2>3. CASE q # p
    <3>1. notion'[q] = notion[q]
      BY <1>5, <2>3
    <3>2. QED
      BY <2>1, <3>1
  <2>4. QED
    BY <2>2, <2>3
<1>7. notion' \in [Pages -> Seq(Versions \cup {Nothing})]
  BY <1>1, <1>4 DEF Typed, TypeOK
<1>8. \A q \in Pages : Len(notion'[q]) \in 1 .. MaxVersions
  <2> SUFFICES ASSUME NEW q \in Pages PROVE Len(notion'[q]) \in 1 .. MaxVersions
    OBVIOUS
  <2>1. Len(notion[q]) \in 1 .. MaxVersions /\ Len(notion[p]) \in 1 .. MaxVersions
    BY DEF Typed, TypeOK
  <2>2. Len(notion'[q]) = Len(notion[q]) \/ Len(notion'[q]) = Len(notion[p]) + 1
    BY <1>4, <1>5
  <2>3. QED
    BY <1>2, <2>1, <2>2, MaxVersionsPositive
<1>9. TypeOK'
  BY <1>2, <1>7, <1>8 DEF Typed, TypeOK
<1>10. ASSUME NEW c \in Calls PROVE Matches(c)'
  <2>1. job[c].start \in [Pages -> Nat]
    BY DEF Typed, TypeOK, Jobs
  <2>2. StartMatches(c)'
    BY <1>2, <1>6, <2>1 DEF StartMatches, Typed, Matches
  <2>3. PhaseMatches(c)' /\ PageMatches(c)' /\ StatusMatches(c)'
    BY <1>2 DEF Typed, Matches, PhaseMatches, PageMatches, StatusMatches, Remaining
  <2>4. QED
    BY <2>2, <2>3 DEF Matches
<1>11. QED
  BY <1>2, <1>6, <1>9, <1>10 DEF Typed

\* What the process held is lost: c is not answered.
Dies(c) ==
    IF pc[c] \in {"idle", "done"}
    THEN pc'[c] = pc[c] /\ job'[c] = job[c] /\ answer'[c] = answer[c]
    ELSE pc'[c] = "done" /\ job'[c] = Ended(job[c]) /\ answer'[c] = "failed"

LEMMA CrashStep ==
    ASSUME Typed, Crash
    PROVE  Typed' /\ UNCHANGED <<notion, tx, entries, before>> /\ \A c \in Calls : Dies(c)
<1> DEFINE dying == {c \in Calls : pc[c] \notin {"idle", "done"}}
<1>1. /\ pc' = [c \in Calls |-> IF c \in dying THEN "done" ELSE pc[c]]
      /\ answer' = [c \in Calls |-> IF c \in dying THEN "failed" ELSE answer[c]]
      /\ job' = [c \in Calls |->
                    IF c \in dying
                    THEN [NoJob EXCEPT !.kind = job[c].kind, !.start = job[c].start]
                    ELSE job[c]]
      /\ UNCHANGED <<notion, tx, entries, before>>
  BY DEF Crash
<1>2. job' = [c \in Calls |-> IF c \in dying THEN Ended(job[c]) ELSE job[c]]
  BY <1>1 DEF Ended
<1>3. \A c \in Calls : Dies(c)
  BY <1>1, <1>2 DEF Dies
<1>4. \A c \in Calls : job[c] \in Jobs /\ Ended(job[c]) \in Jobs
  BY EndedType DEF Typed, TypeOK
<1>5. TypeOK'
  <2>1. job' \in [Calls -> Jobs]
    BY <1>2, <1>4
  <2>2. pc' \in [Calls -> Phases] /\ answer' \in [Calls -> Answers]
    BY <1>1 DEF Typed, TypeOK, Phases, Answers
  <2>3. QED
    BY <1>1, <2>1, <2>2 DEF Typed, TypeOK
<1>6. ASSUME NEW c \in Calls PROVE Matches(c)'
  <2>1. CASE pc[c] \in {"idle", "done"}
    <3>1. pc'[c] = pc[c] /\ job'[c] = job[c] /\ answer'[c] = answer[c]
      BY <1>3, <2>1 DEF Dies
    <3>2. QED
      BY <1>1, <3>1 DEF Typed, Matches, PhaseMatches, PageMatches, StatusMatches,
                       StartMatches
  <2>2. CASE pc[c] \notin {"idle", "done"}
    <3>1. pc'[c] = "done" /\ job'[c] = Ended(job[c]) /\ answer'[c] = "failed"
      BY <1>3, <2>2 DEF Dies
    <3>2. /\ Remaining(job'[c]) = {} /\ job'[c].kind = job[c].kind
          /\ job'[c].start = job[c].start
      BY <1>4, <3>1, EndedType
    <3>3. job[c].kind \in {"sync", "generate"}
      BY <2>2 DEF Typed, TypeOK, Phases, Matches, PhaseMatches
    <3>4. PhaseMatches(c)' /\ PageMatches(c)' /\ StatusMatches(c)'
      BY <3>1, <3>2, <3>3 DEF PhaseMatches, PageMatches, StatusMatches
    <3>5. StartMatches(c)'
      BY <1>1, <3>2 DEF Typed, Matches, StartMatches
    <3>6. QED
      BY <3>4, <3>5 DEF Matches
  <2>3. QED
    BY <2>1, <2>2
<1>7. QED
  BY <1>1, <1>3, <1>5, <1>6 DEF Typed

LEMMA InitTyped == Init => Typed
<1> SUFFICES ASSUME Init PROVE Typed
  OBVIOUS
<1>1. \A v \in Versions : <<v>> \in Seq(Versions \cup {Nothing}) /\ Len(<<v>>) = 1
  OBVIOUS
<1>2. /\ notion \in [Pages -> Seq(Versions \cup {Nothing})]
      /\ \A p \in Pages : Len(notion[p]) = 1 /\ notion[p][1] \in Versions
  <2>1. notion \in [Pages -> {<<v>> : v \in Versions}]
    BY DEF Init
  <2>2. \A p \in Pages : \E v \in Versions : notion[p] = <<v>>
    BY <2>1
  <2>3. \A p \in Pages : notion[p] \in Seq(Versions \cup {Nothing})
    BY <1>1, <2>2
  <2>4. \A p \in Pages : Len(notion[p]) = 1 /\ notion[p][1] \in Versions
    BY <1>1, <2>2
  <2>5. QED
    BY <2>1, <2>3, <2>4
<1>3. \A p \in Pages : Len(notion[p]) \in 1 .. MaxVersions
  <2>1. 1 \in 1 .. MaxVersions
    BY MaxVersionsPositive
  <2>2. QED
    BY <1>2, <2>1, Zenon
<1>4. \A p \in Pages : Current(p) \in Versions \cup {Nothing}
  BY <1>2 DEF Current
<1>5. \A p \in Pages : Parseable(Current(p)) => Parse(Current(p)) \in Row
  BY <1>4, ParseType
<1>6. PICK stored \in SUBSET {p \in Pages : Parseable(Current(p))} :
          tx = [p \in Pages |-> IF p \in stored THEN Parse(Current(p)) ELSE Nothing]
  BY DEF Init
<1>7. tx \in [Pages -> Row \cup {Nothing}]
  BY <1>5, <1>6
<1>8. /\ entries = {} /\ pc = [c \in Calls |-> "idle"] /\ job = [c \in Calls |-> NoJob]
      /\ answer = [c \in Calls |-> "none"] /\ before = [c \in Calls |-> {}]
  BY DEF Init
<1>9. TypeOK
  BY <1>2, <1>3, <1>7, <1>8, NoJobType DEF TypeOK, Phases, Answers
<1>10. Remaining(NoJob) = {} /\ NoJob.kind = "none"
  BY DEF Remaining, NoJob
<1>11. ASSUME NEW c \in Calls PROVE Matches(c)
  BY <1>8, <1>10 DEF Matches, PhaseMatches, PageMatches, StatusMatches, StartMatches
<1>12. QED
  BY <1>9, <1>11 DEF Typed

-----------------------------------------------------------------------------
(* The steps, by what they do.                                             *)

\* A call arrives, a handler fails.
Asks(c) ==
    /\ pc[c] = "idle" /\ UNCHANGED <<notion, tx, entries>>
    /\ before' = [before EXCEPT ![c] = {d \in Calls : pc[d] = "done"}]
    /\ \/ pc'[c] = "fetch" /\ job'[c].kind = "sync" /\ job'[c].cursor = 0
             /\ job'[c].start = [p \in Pages |-> Len(notion[p])]
       \/ pc'[c] = "select" /\ job'[c].kind = "generate"
    /\ answer'[c] = "none" /\ Remaining(job'[c]) = {}

Fails(c) ==
    /\ pc[c] \notin {"idle", "done"} /\ UNCHANGED <<notion, tx, entries, before>>
    /\ pc'[c] = "done" /\ job'[c] = Ended(job[c]) /\ answer'[c] = "failed"

\* A handler reads, or writes to the tables.
Reads(c) ==
    /\ UNCHANGED <<notion, tx, entries, before>>
    /\ \/ pc[c] = "fetch" /\ \E j \in Jobs : Fetched(c, Response(job[c].cursor), j)
       \/ pc[c] = "sync" /\ \E p \in Remaining(job[c]) : \E j \in Jobs : Found(c, p, j)
       \/ pc[c] = "load" /\ \E j \in Jobs : Loaded(c, j)
       \/ pc[c] = "select" /\ \E j \in Jobs : Selected(c, j)
       \/ pc[c] = "generate" /\ \E p \in Remaining(job[c]) : \E j \in Jobs : Unruled(c, p, j)

Inserts(c) ==
    /\ pc[c] = "insert" /\ Inserted(c) /\ UNCHANGED <<notion, entries, before>>

Writes(c) ==
    /\ pc[c] = "save" /\ Advanced(c) /\ UNCHANGED <<notion, entries, before>>
    /\ job[c].loaded \in Row /\ Written(c) \in Row
    /\ tx' = [tx EXCEPT ![job[c].page] = Written(c)]

Books(c) ==
    /\ pc[c] = "generate" /\ UNCHANGED <<notion, tx, before>>
    /\ \E p \in Remaining(job[c]) : \E e \in entries' : Generated(c, p, e)

Acts(c) ==
    Step(c) /\ (Asks(c) \/ Fails(c) \/ Reads(c) \/ Inserts(c) \/ Writes(c) \/ Books(c))

\* Somebody edits a page, or the process dies.
Edits ==
    /\ UNCHANGED <<tx, entries, pc, job, answer, before>>
    /\ \A q \in Pages :
          /\ Len(notion[q]) \in Nat /\ Len(notion[q]) >= 1 /\ Len(notion'[q]) \in Nat
          /\ Len(notion[q]) <= Len(notion'[q])
          /\ \A i \in 1 .. Len(notion[q]) : notion'[q][i] = notion[q][i]

Crashes == UNCHANGED <<notion, tx, entries, before>> /\ \A c \in Calls : Dies(c)

LEMMA AsksStep ==
    ASSUME Typed, NEW c \in Calls, Sync(c) \/ Generate(c)
    PROVE  Acts(c)
<1>1. CASE Sync(c)
  <2>1. PICK j \in Jobs :
            /\ j = [NoJob EXCEPT !.kind = "sync", !.start = [p \in Pages |-> Len(notion[p])]]
            /\ j.kind = "sync" /\ Remaining(j) = {} /\ j.cursor = 0
            /\ j.start = [p \in Pages |-> Len(notion[p])]
    BY SyncJob, Zenon
  <2>2. Arrive(c, j)
    BY <1>1, <2>1, Zenon DEF Sync
  <2>3. Step(c) /\ job'[c] = j /\ answer'[c] = "none"
    BY <2>1, <2>2, ArriveStep
  <2>4. pc[c] = "idle" /\ Goto(c, "fetch", j) /\ UNCHANGED <<notion, tx, entries>>
    BY <2>1, <2>2 DEF Arrive
  <2>5. pc'[c] = "fetch"
    BY <2>4, GotoType DEF Typed, Phases
  <2>6. before' = [before EXCEPT ![c] = {d \in Calls : pc[d] = "done"}]
    BY <2>2 DEF Arrive
  <2>7. QED
    BY <2>1, <2>3, <2>4, <2>5, <2>6 DEF Acts, Asks
<1>2. CASE Generate(c)
  <2>1. PICK j \in Jobs : j = [NoJob EXCEPT !.kind = "generate"]
    BY NoJobType DEF Jobs
  <2>2. j.kind = "generate" /\ Remaining(j) = {}
    BY <2>1 DEF NoJob, Remaining
  <2>3. Arrive(c, j)
    BY <1>2, <2>1, Zenon DEF Generate
  <2>4. Step(c) /\ job'[c] = j /\ answer'[c] = "none"
    BY <2>2, <2>3, ArriveStep
  <2>5. pc[c] = "idle" /\ Goto(c, "select", j) /\ UNCHANGED <<notion, tx, entries>>
    BY <2>2, <2>3 DEF Arrive
  <2>6. pc'[c] = "select"
    BY <2>5, GotoType DEF Typed, Phases
  <2>7. before' = [before EXCEPT ![c] = {d \in Calls : pc[d] = "done"}]
    BY <2>3 DEF Arrive
  <2>8. QED
    BY <2>2, <2>4, <2>5, <2>6, <2>7 DEF Acts, Asks
<1>3. QED
  BY <1>1, <1>2

LEMMA ServesStep ==
    ASSUME Typed, NEW c \in Calls, Serve(c) \/ Fail(c)
    PROVE  Acts(c)
<1>1. CASE Fail(c)
  BY <1>1, FailStep DEF Fail, Acts, Fails
<1>2. CASE Fetch(c)
  BY <1>2, FetchStep DEF Fetch, Acts, Reads
<1>3. CASE SyncFind(c)
  BY <1>3, SyncFindStep DEF SyncFind, Acts, Reads
<1>4. CASE SyncInsert(c)
  BY <1>4, SyncInsertStep DEF SyncInsert, Acts, Inserts
<1>5. CASE SaveLoad(c)
  BY <1>5, SaveLoadStep DEF SaveLoad, Acts, Reads
<1>6. CASE SaveWrite(c)
  BY <1>6, SaveWriteStep DEF SaveWrite, Acts, Writes
<1>7. CASE GenerateSelect(c)
  BY <1>7, GenerateSelectStep DEF GenerateSelect, Acts, Reads
<1>8. CASE GenerateWithoutRule(c)
  BY <1>8, GenerateWithoutRuleStep DEF GenerateWithoutRule, Acts, Reads
<1>9. CASE GenerateEntry(c)
  BY <1>9, GenerateEntryStep DEF Acts, Books
<1>10. QED
  BY <1>1, <1>2, <1>3, <1>4, <1>5, <1>6, <1>7, <1>8, <1>9 DEF Serve

\* Every step is one of these, and keeps the types.
LEMMA NextCases ==
    ASSUME Typed, [Next]_vars
    PROVE  Typed' /\ (UNCHANGED vars \/ Edits \/ Crashes \/ \E c \in Calls : Acts(c))
<1>1. CASE UNCHANGED vars
  BY <1>1 DEF vars, Typed, TypeOK, Current, Matches, PhaseMatches, PageMatches,
              StatusMatches, StartMatches, Remaining
<1>2. CASE Crash
  BY <1>2, CrashStep DEF Crashes
<1>3. ASSUME NEW p \in Pages, Edit(p)
      PROVE  Typed' /\ Edits
  BY <1>3, EditStep DEF Edits
<1>4. ASSUME NEW c \in Calls, Sync(c) \/ Generate(c) \/ Serve(c) \/ Fail(c)
      PROVE  Typed' /\ Acts(c)
  <2>1. Acts(c)
    BY <1>4, AsksStep, ServesStep
  <2>2. TypeOK' /\ Local(c) /\ Grows /\ Matches(c)'
    BY <2>1 DEF Acts, Step, Tables
  <2>3. QED
    BY <2>1, <2>2, OthersMatch DEF Typed
<1>5. QED
  BY <1>1, <1>2, <1>3, <1>4 DEF Next

\* Every call is in a phase of its handler, and holds what the phase needs.
THEOREM PhasesMatch == Spec => []Typed
<1>1. Typed /\ [Next]_vars => Typed'
  BY NextCases
<1>2. QED
  BY InitTyped, <1>1, PTL DEF Spec

\* Rows, entries and locals hold values of their kind, whatever is edited in
\* Notion meanwhile.
THEOREM TypeCorrect == Spec => []TypeOK
<1>1. Typed => TypeOK
  BY DEF Typed
<1>2. QED
  BY PhasesMatch, <1>1, PTL

-----------------------------------------------------------------------------
(* The order of the calls.                                                 *)

\* The calls before a call were answered when it was made, and those before
\* them with them.
Ordered ==
    \A c, d \in Calls :
        c \in before[d] =>
            /\ pc[c] = "done" /\ pc[d] # "idle" /\ c # d
            /\ before[c] \subseteq before[d]

Base == Typed /\ Ordered

\* A call goes on, or is made.
GoesOn(d) ==
    /\ before'[d] = before[d] /\ (pc'[d] = "idle" <=> pc[d] = "idle")
    /\ job'[d].kind = job[d].kind /\ job'[d].start = job[d].start
    /\ pc[d] = "done" => pc'[d] = "done" /\ answer'[d] = answer[d] /\ job'[d] = job[d]

IsMade(d) ==
    /\ pc[d] = "idle" /\ pc'[d] \in {"fetch", "select"}
    /\ before'[d] = {c \in Calls : pc[c] = "done"}
    /\ job'[d].kind \in {"sync", "generate"}
    /\ UNCHANGED <<notion, tx, entries>>

LEMMA EndedGoesOn ==
    ASSUME Typed, NEW c \in Calls, pc[c] \notin {"idle", "done"}, before' = before,
           pc'[c] = "done", job'[c] = Ended(job[c])
    PROVE  GoesOn(c)
  BY EndedType DEF GoesOn, Typed, TypeOK

LEMMA ActsMoves ==
    ASSUME Typed, NEW c \in Calls, Acts(c)
    PROVE  /\ GoesOn(c) \/ IsMade(c)
           /\ \A d \in Calls \ {c} :
                 /\ GoesOn(d) /\ pc'[d] = pc[d] /\ job'[d] = job[d] /\ answer'[d] = answer[d]
<1>1. /\ job[c] \in Jobs /\ Typed
      /\ \A d \in Calls \ {c} :
            pc'[d] = pc[d] /\ job'[d] = job[d] /\ answer'[d] = answer[d]
  BY DEF Typed, TypeOK, Acts, Step, Local
<1>2. CASE Asks(c)
  <2>1. IsMade(c)
    BY <1>2 DEF Asks, IsMade, Typed, TypeOK
  <2>2. \A d \in Calls \ {c} : before'[d] = before[d]
    BY <1>2 DEF Asks, Typed, TypeOK
  <2>3. QED
    BY <1>1, <2>1, <2>2 DEF GoesOn
<1>3. CASE ~ Asks(c)
  <2>1. before' = before
    BY <1>3 DEF Acts, Fails, Reads, Inserts, Writes, Books
  <2>2. GoesOn(c)
    <3>1. CASE pc'[c] = "done" /\ job'[c] = Ended(job[c])
      <4>1. pc[c] \notin {"idle", "done"}
        BY <1>3 DEF Acts, Fails, Reads, Inserts, Writes, Books
      <4>2. QED
        BY <2>1, <3>1, <4>1, EndedGoesOn
    <3>2. CASE ~ (pc'[c] = "done" /\ job'[c] = Ended(job[c]))
      <4>1. CASE Reads(c)
        <5>1. job[c].kind \in {"sync", "generate"} /\ pc[c] \notin {"idle", "done"}
          BY <4>1 DEF Reads, Typed, Matches, PhaseMatches
        <5>2. /\ pc'[c] # "idle" /\ job'[c].start = job[c].start
              /\ job'[c].kind = job[c].kind
          BY <3>2, <4>1 DEF Reads, Fetched, Found, Loaded, Selected, Unruled, Judged, Typed,
                            Matches, PhaseMatches
        <5>3. QED
          BY <2>1, <5>1, <5>2 DEF GoesOn
      <4>2. CASE Inserts(c) \/ Writes(c)
        <5>1. /\ job[c].kind \in {"sync", "generate"} /\ pc[c] \in {"insert", "save"}
              /\ job[c].page \in Pages
          BY <4>2 DEF Inserts, Writes, Typed, Matches, PhaseMatches, PageMatches, Remaining
        <5>2. /\ Saved(job[c]).kind = job[c].kind /\ Saved(job[c]).start = job[c].start
          BY <1>1, <5>1, SavedJob
        <5>3. pc'[c] = job[c].kind /\ job'[c] = Saved(job[c])
          BY <3>2, <4>2 DEF Inserts, Writes, Inserted, Advanced
        <5>4. QED
          BY <2>1, <5>1, <5>2, <5>3 DEF GoesOn
      <4>3. CASE Books(c)
        <5>1. job[c].kind = "generate" /\ pc[c] = "generate"
          BY <4>3 DEF Books, Typed, Matches, PhaseMatches
        <5>2. pc'[c] = "load" /\ job'[c].kind = "generate" /\ job'[c].start = job[c].start
          BY <3>2, <4>3 DEF Books, Generated, Judged
        <5>3. QED
          BY <2>1, <5>1, <5>2 DEF GoesOn
      <4>4. QED
        BY <1>3, <3>2, <4>1, <4>2, <4>3 DEF Acts, Fails
    <3>3. QED
      BY <3>1, <3>2
  <2>3. QED
    BY <1>1, <2>1, <2>2 DEF GoesOn
<1>4. QED
  BY <1>2, <1>3

LEMMA Moves ==
    ASSUME Typed, [Next]_vars, NEW d \in Calls
    PROVE  GoesOn(d) \/ IsMade(d)
<1>1. CASE UNCHANGED vars \/ Edits
  BY <1>1 DEF vars, Edits, GoesOn
<1>2. CASE Crashes
  BY <1>2, EndedGoesOn DEF Crashes, Dies, GoesOn
<1>3. ASSUME NEW c \in Calls, Acts(c) PROVE GoesOn(d) \/ IsMade(d)
  BY <1>3, ActsMoves
<1>4. QED
  BY <1>1, <1>2, <1>3, NextCases

LEMMA OrderedInductive ==
    ASSUME Base, [Next]_vars
    PROVE  Base'
<1>1. Typed /\ Typed' /\ \A d \in Calls : GoesOn(d) \/ IsMade(d)
  BY NextCases, Moves DEF Base
<1>2. SUFFICES ASSUME NEW c \in Calls, NEW d \in Calls, c \in before'[d]
               PROVE  /\ pc'[c] = "done" /\ pc'[d] # "idle" /\ c # d
                      /\ before'[c] \subseteq before'[d]
  BY <1>1 DEF Base, Ordered
<1>3. \A e \in Calls : pc[e] = "done" => before'[e] = before[e] /\ pc'[e] = "done"
  BY <1>1 DEF GoesOn, IsMade
<1>4. CASE GoesOn(d)
  BY <1>2, <1>3, <1>4 DEF Base, Ordered, GoesOn
<1>5. CASE IsMade(d)
  <2>1. pc[c] = "done" /\ pc[d] = "idle" /\ pc'[d] # "idle"
    BY <1>2, <1>5 DEF IsMade
  <2>2. \A e \in before[c] : pc[e] = "done" /\ e \in Calls
    BY <1>1 DEF Base, Ordered, Typed, TypeOK
  <2>3. QED
    BY <1>3, <1>5, <2>1, <2>2 DEF IsMade
<1>6. QED
  BY <1>1, <1>4, <1>5

LEMMA InitBase == Init => Base
  BY InitTyped DEF Init, Base, Ordered

-----------------------------------------------------------------------------
(* The entries.                                                            *)

LEMMA EntriesGrow ==
    ASSUME Typed, [Next]_vars
    PROVE  \/ entries' = entries
           \/ \E c \in Calls : \E p \in Remaining(job[c]) : \E e \in entries' :
                 Acts(c) /\ Books(c) /\ Generated(c, p, e)
<1>1. CASE UNCHANGED vars \/ Edits \/ Crashes
  BY <1>1 DEF vars, Edits, Crashes
<1>2. ASSUME NEW c \in Calls, Acts(c), ~ Books(c) PROVE entries' = entries
  BY <1>2 DEF Acts, Asks, Fails, Reads, Inserts, Writes
<1>3. ASSUME NEW c \in Calls, Books(c)
      PROVE  \E p \in Remaining(job[c]) : \E e \in entries' : Generated(c, p, e)
  BY <1>3 DEF Books
<1>4. QED
  BY <1>1, <1>2, <1>3, NextCases

\* A new entry is booked by its run, of a page the run still had.
LEMMA NewEntry ==
    ASSUME Typed, [Next]_vars, NEW e \in entries', e \notin entries
    PROVE  /\ e.run \in Calls /\ pc[e.run] = "generate" /\ job[e.run].kind = "generate"
           /\ e.page \in Remaining(job[e.run]) /\ Generated(e.run, e.page, e)
           /\ Acts(e.run) /\ entries' = entries \cup {e} /\ UNCHANGED <<notion, tx, before>>
<1>1. PICK c \in Calls :
          \E p \in Remaining(job[c]) : \E f \in entries' :
             Acts(c) /\ Books(c) /\ Generated(c, p, f)
  BY EntriesGrow
<1>2. PICK p \in Remaining(job[c]) :
          \E f \in entries' : Acts(c) /\ Books(c) /\ Generated(c, p, f)
  BY <1>1
<1>3. PICK f \in entries' : Acts(c) /\ Books(c) /\ Generated(c, p, f)
  BY <1>2
<1>4. entries' = entries \cup {f} /\ f.run = c /\ f.page = p
  BY <1>3 DEF Generated, Booked
<1>5. e = f
  BY <1>4
<1>6. pc[c] = "generate" /\ job[c].kind = "generate"
  BY <1>3 DEF Books, Typed, Matches, PhaseMatches
<1>7. QED
  BY <1>3, <1>4, <1>5, <1>6 DEF Books

\* Whatever the amounts, the rules and the VAT: the two sides of an entry are
\* equal unless the entry is of a negative amount.
THEOREM OnlyRefundsAreUnbalanced == Spec => []OnlyRefundsUnbalanced
<1>1. Init => OnlyRefundsUnbalanced
  BY DEF Init, OnlyRefundsUnbalanced
<1>2. ASSUME Typed, OnlyRefundsUnbalanced, [Next]_vars
      PROVE  OnlyRefundsUnbalanced'
  <2>1. \A e \in entries' : e \notin entries => e.isBalanced \/ e.of.amount < 0
    BY <1>2, NewEntry DEF Generated, Booked
  <2>2. QED
    BY <1>2, <2>1 DEF OnlyRefundsUnbalanced
<1>3. Typed /\ OnlyRefundsUnbalanced /\ [Next]_vars => OnlyRefundsUnbalanced'
  BY <1>2
<1>4. QED
  BY <1>1, <1>3, PhasesMatch, PTL DEF Spec

-----------------------------------------------------------------------------
(* Why a transaction has two entries.                                      *)

\* Every sync was answered before a was made.
Settled(a) == Syncs \subseteq before[a]

Excused(a) == answer[a] = "failed" \/ ~ Settled(a)

\* The generation a is about to save the page.
Saving(a, p) == pc[a] \in {"load", "save"} /\ job[a].page = p

Handled(p) == tx[p] # Nothing /\ tx[p].status # "READY"

\* The transaction of an entry is still to be saved, or has been.
EntryFollowed ==
    \A e \in entries :
        /\ pc[e.run] # "idle" /\ job[e.run].kind = "generate"
        /\ Excused(e.run) \/ Saving(e.run, e.page) \/ Handled(e.page)

\* What was loaded as handled is handled.
LoadedHandled ==
    \A a \in Calls :
        /\ pc[a] = "save" /\ job[a].kind = "generate" /\ Settled(a)
        /\ job[a].loaded.status # "READY"
        => Handled(job[a].page)

\* A later generation does not have the transaction of an earlier one's entry.
SelectedOnce ==
    \A e \in entries, b \in Calls :
        /\ e.run \in before[b] /\ ~ Excused(e.run) /\ job[b].kind = "generate"
        => e.page \notin Remaining(job[b])

OncePerPage ==
    Base /\ EntryFollowed /\ LoadedHandled /\ SelectedOnce /\ DuplicatesExplained

LEMMA SettledStays ==
    ASSUME Typed, [Next]_vars, NEW a \in Calls, pc[a] # "idle"
    PROVE  /\ Settled(a)' => Settled(a)
           /\ Excused(a) => Excused(a)'
<1>1. \A d \in Calls : GoesOn(d) \/ IsMade(d)
  BY Moves
<1>2. before'[a] = before[a]
  BY <1>1 DEF GoesOn, IsMade
<1>3. Syncs \subseteq Syncs'
  <2>1. ASSUME NEW d \in Syncs PROVE d \in Syncs'
    <3>1. d \in Calls /\ job[d].kind = "sync"
      BY DEF Syncs
    <3>2. pc[d] # "idle"
      BY <3>1 DEF Typed, Matches, PhaseMatches, NoJob
    <3>3. QED
      BY <1>1, <3>1, <3>2 DEF GoesOn, IsMade, Syncs
  <2>2. QED
    BY <2>1
<1>4. Settled(a)' => Settled(a)
  BY <1>2, <1>3 DEF Settled
<1>5. answer[a] = "failed" => answer'[a] = "failed"
  BY <1>1 DEF GoesOn, IsMade, Typed, Matches, PhaseMatches
<1>6. QED
  BY <1>4, <1>5 DEF Excused

\* While no sync is under way, nothing becomes READY again.
LEMMA HandledStays ==
    ASSUME Base, [Next]_vars, NEW a \in Calls, Settled(a), NEW p \in Pages, Handled(p)
    PROVE  Handled(p)'
<1>1. CASE tx' = tx
  BY <1>1 DEF Handled
<1>2. ASSUME NEW c \in Calls, Acts(c), tx' # tx PROVE Handled(p)'
  <2>1. Inserts(c) \/ Writes(c)
    BY <1>2 DEF Acts, Asks, Fails, Reads, Books
  <2>2. CASE Inserts(c)
    BY <2>2 DEF Inserts, Inserted, Handled, Base, Typed, TypeOK
  <2>3. CASE Writes(c)
    <3>1. /\ job[c].page \in Remaining(job[c]) /\ job[c].page \in Pages
          /\ job[c].kind \in {"sync", "generate"} /\ pc[c] = "save"
      BY <2>3 DEF Writes, Base, Typed, Matches, PhaseMatches, PageMatches, Remaining
    <3>2. job[c].kind = "generate"
      BY <3>1 DEF Settled, Syncs, Base, Ordered
    <3>3. job[c].todo[job[c].page].status # "READY"
      BY <3>1, <3>2 DEF Base, Typed, Matches, StatusMatches
    <3>4. CASE p = job[c].page
      <4>1. tx[p] \in Row /\ DOMAIN tx[p] = {"type", "amount", "amountIncludesVat",
                                              "vatType", "category", "status"}
        BY SameContent DEF Handled, Base, Typed, TypeOK
      <4>2. Written(c).status \in {job[c].todo[job[c].page].status, tx[p].status}
        BY <3>4, <4>1 DEF Written, Changed
      <4>3. tx'[p] = Written(c) /\ Written(c) # Nothing
        BY <2>3, <3>4, NothingIsNoRow DEF Writes, Base, Typed, TypeOK
      <4>4. QED
        BY <3>3, <4>2, <4>3 DEF Handled
    <3>5. CASE p # job[c].page
      BY <2>3, <3>5 DEF Writes, Handled, Base, Typed, TypeOK
    <3>6. QED
      BY <3>4, <3>5
  <2>4. QED
    BY <2>1, <2>2, <2>3
<1>3. QED
  BY <1>1, <1>2, NextCases DEF Base, vars, Edits, Crashes

\* A call acts, stays as it is, or dies with the process.
LEMMA OwnSteps ==
    ASSUME Typed, [Next]_vars, NEW a \in Calls
    PROVE  \/ Acts(a)
           \/ pc'[a] = pc[a] /\ job'[a] = job[a] /\ answer'[a] = answer[a]
           \/ Crashes /\ pc'[a] = "done" /\ job'[a] = Ended(job[a]) /\ answer'[a] = "failed"
<1>1. CASE UNCHANGED vars \/ Edits \/ Crashes
  BY <1>1 DEF vars, Edits, Crashes, Dies
<1>2. ASSUME NEW c \in Calls, Acts(c), c # a
      PROVE  pc'[a] = pc[a] /\ job'[a] = job[a] /\ answer'[a] = answer[a]
  BY <1>2, ActsMoves
<1>3. QED
  BY <1>1, <1>2, NextCases

\* What a settled generation saves is handled then.
LEMMA WriteHandles ==
    ASSUME Base, LoadedHandled, NEW a \in Calls, Writes(a), job[a].kind = "generate",
           Settled(a), NEW p \in Pages, p = job[a].page
    PROVE  Handled(p)'
<1> DEFINE t == job[a].todo[p]
<1>1. /\ pc[a] = "save" /\ p \in Pages /\ p \in Remaining(job[a]) /\ tx[p] \in Row
      /\ job[a].loaded \in Row
  BY DEF Writes, Base, Typed, TypeOK, Matches, PageMatches, Remaining
<1>2. t.status # "READY"
  BY <1>1 DEF Base, Typed, Matches, StatusMatches
<1>3. tx'[p] = Written(a) /\ Written(a) # Nothing
  BY <1>1, NothingIsNoRow DEF Writes, Base, Typed, TypeOK
<1>4. Written(a).status = IF t.status # job[a].loaded.status THEN t.status ELSE tx[p].status
  BY <1>1, SameContent DEF Written, Changed
<1>5. job[a].loaded.status # "READY" => tx[p].status # "READY"
  BY <1>1 DEF LoadedHandled, Handled
<1>6. tx'[p].status # "READY"
  BY <1>2, <1>3, <1>4, <1>5
<1>7. QED
  BY <1>3, <1>6 DEF Handled

\* What a generation holds after a step: selected just now, held before, or
\* decided just now, for the reason given.
Kept(b, p) ==
    /\ p \in Remaining(job[b])
    /\ Content(job'[b].todo[p]) = Content(job[b].todo[p])
    /\ \/ job'[b].todo[p] = job[b].todo[p]
       \/ job'[b].todo[p].status = "REVIEW" /\ RulesFor(job'[b].todo[p]) = {}
       \/ \E e \in entries' : /\ e.page = p /\ e.of = job[b].todo[p]
                              /\ e.isBalanced \in BOOLEAN
                              /\ job'[b].todo[p].status = StatusAfter(e)

LEMMA JudgedKept ==
    ASSUME Typed, NEW b \in Calls, NEW p \in Remaining(job[b]), NEW status \in Statuses,
           NEW j \in Jobs, Judged(b, p, status, j), NEW q \in Remaining(job'[b])
    PROVE  /\ q \in Remaining(job[b]) /\ Content(job'[b].todo[q]) = Content(job[b].todo[q])
           /\ RulesFor(job'[b].todo[q]) = RulesFor(job[b].todo[q])
           /\ q # p => job'[b].todo[q] = job[b].todo[q]
           /\ q = p => job'[b].todo[q].status = status
<1>1. job[b] \in Jobs /\ p \in Pages /\ q \in Pages
  BY DEF Typed, TypeOK, Remaining
<1>2. job'[b].todo = Decided(job[b], p, status)
  BY DEF Judged
<1>3. CASE q = p
  BY <1>1, <1>2, <1>3, DecidedType
<1>4. CASE q # p
  <2>1. job'[b].todo[q] = job[b].todo[q]
    BY <1>1, <1>2, <1>4, DecidedType
  <2>2. QED
    BY <1>1, <1>4, <2>1 DEF Remaining
<1>5. QED
  BY <1>3, <1>4

LEMMA HeldSteps ==
    ASSUME Typed, [Next]_vars, NEW b \in Calls, job'[b].kind = "generate",
           NEW p \in Remaining(job'[b])
    PROVE  \/ job'[b].todo[p] = tx[p] /\ tx[p].status = "READY" /\ tx' = tx
           \/ Kept(b, p)
<1>1. Typed' /\ job[b] \in Jobs
  BY NextCases DEF Typed, TypeOK
<1>2. CASE job'[b] = job[b]
  BY <1>2 DEF Kept
<1>3. CASE job'[b] = Ended(job[b])
  BY <1>1, <1>3, EndedType
<1>4. CASE Acts(b) /\ job'[b] # job[b] /\ job'[b] # Ended(job[b])
  <2>1. CASE Asks(b)
    BY <2>1 DEF Asks
  <2>2. CASE Reads(b)
    <3>1. job[b].kind = "generate"
      BY <1>4, <2>2, ActsMoves DEF Reads, GoesOn, IsMade
    <3>2. CASE \E j \in Jobs : Loaded(b, j)
      BY <3>2 DEF Loaded, Remaining, Kept
    <3>3. CASE pc[b] = "select" /\ \E j \in Jobs : Selected(b, j)
      <4>1. PICK j \in Jobs : Selected(b, j)
        BY <3>3
      <4>2. job'[b] = j
        BY <1>4, <4>1 DEF Selected
      <4>3. QED
        BY <2>2, <4>1, <4>2 DEF Selected, Reads
    <3>4. ASSUME NEW q \in Remaining(job[b]), NEW j \in Jobs, Unruled(b, q, j)
          PROVE  Kept(b, p)
      <4>1. Judged(b, q, "REVIEW", j) /\ "REVIEW" \in Statuses /\ RulesFor(job[b].todo[q]) = {}
        BY <3>4 DEF Unruled, Statuses
      <4>2. QED
        BY <4>1, JudgedKept DEF Kept
    <3>5. QED
      BY <2>2, <3>1, <3>2, <3>3, <3>4 DEF Reads, Typed, Matches, PhaseMatches
  <2>3. CASE Inserts(b) \/ Writes(b)
    <3>1. job[b].page \in Pages
      BY <2>3 DEF Inserts, Writes, Typed, Matches, PageMatches, Remaining
    <3>2. job'[b] = Saved(job[b])
      BY <1>4, <2>3 DEF Inserts, Writes, Inserted, Advanced
    <3>3. p \in Remaining(job[b]) /\ job'[b].todo[p] = job[b].todo[p]
      BY <1>1, <3>1, <3>2, SavedJob
    <3>4. QED
      BY <3>3 DEF Kept
  <2>4. ASSUME NEW q \in Remaining(job[b]), NEW e \in entries', Generated(b, q, e)
        PROVE  Kept(b, p)
    <3>1. PICK j \in Jobs : Judged(b, q, StatusAfter(e), j)
      BY <1>4, <2>4 DEF Generated
    <3>2. StatusAfter(e) \in Statuses
      BY DEF StatusAfter, Statuses
    <3>3. /\ p \in Remaining(job[b]) /\ Content(job'[b].todo[p]) = Content(job[b].todo[p])
          /\ p # q => job'[b].todo[p] = job[b].todo[p]
          /\ p = q => job'[b].todo[p].status = StatusAfter(e)
      BY <3>1, <3>2, JudgedKept
    <3>4. e.page = q /\ e.of = job[b].todo[q] /\ e.isBalanced \in BOOLEAN
      BY <2>4 DEF Generated, Booked, IsEntry
    <3>5. QED
      BY <3>3, <3>4 DEF Kept
  <2>5. QED
    BY <1>4, <2>1, <2>2, <2>3, <2>4 DEF Acts, Fails, Books
<1>5. QED
  BY <1>2, <1>3, <1>4, OwnSteps

LEMMA EntryFollowedStep ==
    ASSUME OncePerPage, [Next]_vars
    PROVE  EntryFollowed'
<1>1. Typed /\ Typed' /\ \A d \in Calls : GoesOn(d) \/ IsMade(d)
  BY NextCases, Moves DEF OncePerPage, Base
<1>2. ASSUME NEW e \in entries
      PROVE  /\ pc'[e.run] # "idle" /\ job'[e.run].kind = "generate"
             /\ Excused(e.run)' \/ Saving(e.run, e.page)' \/ Handled(e.page)'
  <2> DEFINE a == e.run
             p == e.page
  <2>1. a \in Calls /\ p \in Pages /\ pc[a] # "idle" /\ job[a].kind = "generate"
    BY <1>1 DEF OncePerPage, EntryFollowed, Typed, TypeOK, IsEntry
  <2>2. pc'[a] # "idle" /\ job'[a].kind = "generate"
    BY <1>1, <2>1 DEF GoesOn, IsMade
  <2>3. CASE Excused(a)
    BY <1>1, <2>1, <2>2, <2>3, SettledStays
  <2>4. CASE ~ Excused(a)' /\ Handled(p)
    <3>1. Settled(a)
      BY <1>1, <2>1, <2>4, SettledStays DEF Excused
    <3>2. Handled(p)'
      BY <2>1, <2>4, <3>1, HandledStays DEF OncePerPage
    <3>3. QED
      BY <2>2, <3>2
  <2>5. CASE ~ Excused(a)' /\ ~ Excused(a) /\ Saving(a, p)
    <3>1. Settled(a) /\ answer'[a] # "failed"
      BY <1>1, <2>1, <2>5, SettledStays DEF Excused
    <3>2. CASE pc'[a] = pc[a] /\ job'[a] = job[a]
      BY <2>2, <2>5, <3>2 DEF Saving
    <3>3. CASE Acts(a)
      <4>1. CASE Reads(a)
        <5>1. PICK j \in Jobs : Loaded(a, j)
          BY <2>5, <4>1 DEF Reads, Saving
        <5>2. Saving(a, p)'
          BY <2>5, <5>1 DEF Loaded, Saving
        <5>3. QED
          BY <2>2, <5>2
      <4>2. CASE Writes(a)
        <5>1. Handled(p)'
          BY <2>1, <2>5, <3>1, <4>2, WriteHandles DEF OncePerPage, Saving
        <5>2. QED
          BY <2>2, <5>1
      <4>3. QED
        BY <2>5, <3>1, <3>3, <4>1, <4>2
           DEF Acts, Asks, Fails, Inserts, Books, Saving
    <3>4. QED
      BY <1>1, <2>1, <3>1, <3>2, <3>3, OwnSteps
  <2>6. QED
    BY <2>2, <2>3, <2>4, <2>5 DEF OncePerPage, EntryFollowed
<1>3. ASSUME NEW e \in entries', e \notin entries
      PROVE  /\ pc'[e.run] # "idle" /\ job'[e.run].kind = "generate"
             /\ Excused(e.run)' \/ Saving(e.run, e.page)' \/ Handled(e.page)'
  <2> DEFINE c == e.run
  <2>1. /\ c \in Calls /\ pc[c] = "generate" /\ job[c].kind = "generate"
        /\ Generated(c, e.page, e)
    BY <1>1, <1>3, NewEntry
  <2>2. pc'[c] # "idle" /\ job'[c].kind = "generate"
    BY <1>1, <2>1 DEF GoesOn, IsMade
  <2>3. Excused(c)' \/ Saving(c, e.page)'
    BY <2>1 DEF Generated, Judged, Excused, Saving
  <2>4. QED
    BY <2>2, <2>3
<1>4. QED
  BY <1>2, <1>3 DEF EntryFollowed

\* A handler comes to write by having read the row.
LEMMA LoadsRow ==
    ASSUME Typed, [Next]_vars, NEW a \in Calls, Acts(a), pc'[a] = "save"
    PROVE  /\ pc[a] \in {"load", "generate"} /\ UNCHANGED tx
           /\ job'[a].loaded = tx[job'[a].page] /\ tx[job'[a].page] # Nothing
<1>1. Typed' /\ job[a].kind \in {"none", "sync", "generate"}
  BY NextCases DEF Typed, TypeOK, Jobs
<1>2. CASE pc[a] = "load" /\ Reads(a)
  <2>1. PICK j \in Jobs : Loaded(a, j)
    BY <1>2 DEF Reads
  <2>2. /\ job'[a].loaded = tx[job[a].page] /\ job'[a].page = job[a].page /\ tx' = tx
    BY <1>2, <2>1 DEF Loaded, Reads
  <2>3. tx[job[a].page] # Nothing
    BY <1>2 DEF Typed, Matches, PageMatches
  <2>4. QED
    BY <1>2, <2>2, <2>3
<1>3. CASE pc[a] = "generate" /\ Reads(a)
  <2>1. PICK q \in Remaining(job[a]) : \E j \in Jobs : Unruled(a, q, j)
    BY <1>3 DEF Reads
  <2>2. job'[a].page = q /\ job'[a].loaded = tx[q] /\ tx' = tx
    BY <1>3, <2>1 DEF Reads, Unruled, Judged
  <2>3. tx[q] # Nothing
    BY <1>3, <2>1 DEF Typed, Matches, PhaseMatches, PageMatches
  <2>4. QED
    BY <1>3, <2>2, <2>3
<1>4. CASE Reads(a) /\ pc[a] \notin {"load", "generate"}
  BY <1>4 DEF Reads, Fetched, Found, Selected
<1>5. CASE Inserts(a) \/ Writes(a)
  <2>1. job[a].kind \in {"sync", "generate"}
    BY <1>5 DEF Inserts, Writes, Typed, Matches, PhaseMatches
  <2>2. QED
    BY <1>5, <2>1 DEF Inserts, Writes, Inserted, Advanced
<1>6. QED
  BY <1>2, <1>3, <1>4, <1>5 DEF Acts, Asks, Fails, Books, Generated

LEMMA LoadedHandledStep ==
    ASSUME OncePerPage, [Next]_vars
    PROVE  LoadedHandled'
<1>1. Typed /\ Typed' /\ \A d \in Calls : GoesOn(d) \/ IsMade(d)
  BY NextCases, Moves DEF OncePerPage, Base
<1>2. SUFFICES ASSUME NEW a \in Calls, pc'[a] = "save", job'[a].kind = "generate",
                      Settled(a)', job'[a].loaded.status # "READY",
                      NEW p \in Pages, p = job'[a].page
               PROVE  Handled(p)'
  <2>1. \A a \in Calls : pc'[a] = "save" => job'[a].page \in Pages
    BY <1>1 DEF Typed, Matches, PageMatches, Remaining
  <2>2. QED
    BY <2>1 DEF LoadedHandled, Handled
<1>3. Settled(a) /\ pc[a] # "idle" /\ job[a].kind = "generate"
  BY <1>1, <1>2, SettledStays DEF GoesOn, IsMade
<1>4. CASE pc'[a] = pc[a] /\ job'[a] = job[a]
  <2>1. Handled(p)
    BY <1>2, <1>3, <1>4 DEF OncePerPage, LoadedHandled
  <2>2. QED
    BY <1>3, <2>1, HandledStays DEF OncePerPage
<1>5. CASE Acts(a)
  <2>1. tx' = tx /\ job'[a].loaded = tx[p] /\ tx[p] # Nothing
    BY <1>1, <1>2, <1>5, LoadsRow
  <2>2. QED
    BY <1>2, <2>1 DEF Handled
<1>6. QED
  BY <1>1, <1>2, <1>4, <1>5, OwnSteps

LEMMA SelectedOnceStep ==
    ASSUME OncePerPage, [Next]_vars
    PROVE  SelectedOnce'
<1>1. /\ Typed /\ Typed' /\ Ordered /\ Ordered'
      /\ \A d \in Calls : GoesOn(d) \/ IsMade(d)
  BY NextCases, Moves, OrderedInductive DEF OncePerPage, Base
<1>2. SUFFICES ASSUME NEW e \in entries', NEW b \in Calls, e.run \in before'[b],
                      ~ Excused(e.run)', job'[b].kind = "generate"
               PROVE  e.page \notin Remaining(job'[b])
  BY DEF SelectedOnce, Remaining
<1>3. e.run \in Calls /\ e.page \in Pages /\ pc'[e.run] = "done"
  BY <1>1, <1>2 DEF Ordered, Typed, TypeOK, IsEntry
<1>4. CASE e \notin entries
  BY <1>1, <1>2, <1>3, <1>4, NewEntry DEF Generated, Excused
<1>5. CASE e \in entries /\ IsMade(b)
  <2>1. pc'[b] = "select"
    BY <1>1, <1>2, <1>5 DEF IsMade, Typed, Matches, PhaseMatches
  <2>2. QED
    BY <1>1, <2>1 DEF Typed, Matches, PhaseMatches, Remaining
<1>6. CASE e \in entries /\ GoesOn(b)
  <2>1. e.run \in before[b] /\ pc[e.run] = "done" /\ job[b].kind = "generate"
    BY <1>1, <1>2, <1>3, <1>6 DEF GoesOn, Ordered
  <2>2. ~ Excused(e.run)
    BY <1>1, <1>2, <1>3, <2>1, SettledStays
  <2>3. e.page \notin Remaining(job[b]) /\ Handled(e.page)
    BY <1>6, <2>1, <2>2 DEF OncePerPage, SelectedOnce, EntryFollowed, Saving
  <2>4. QED
    BY <1>1, <1>2, <2>3, HeldSteps DEF Handled, Kept
<1>7. QED
  BY <1>1, <1>2, <1>4, <1>5, <1>6

LEMMA DuplicatesExplainedStep ==
    ASSUME OncePerPage, [Next]_vars
    PROVE  DuplicatesExplained'
<1>1. /\ Typed /\ Typed' /\ Ordered /\ Ordered'
      /\ \A d \in Calls : GoesOn(d) \/ IsMade(d)
  BY NextCases, Moves, OrderedInductive DEF OncePerPage, Base
<1>2. SUFFICES ASSUME NEW e \in entries', NEW f \in entries', e.page = f.page,
                      e.run \in before'[f.run]
               PROVE  Excused(e.run)'
  BY DEF DuplicatesExplained, Excused, Settled, Syncs
<1>3. e.run \in Calls /\ f.run \in Calls /\ pc'[e.run] = "done"
  BY <1>1, <1>2 DEF Ordered, Typed, TypeOK, IsEntry
<1>4. CASE e \notin entries
  BY <1>1, <1>2, <1>3, <1>4, NewEntry DEF Generated, Excused
<1>5. CASE e \in entries /\ f \in entries
  <2>1. pc[e.run] # "idle" /\ pc[f.run] # "idle"
    BY <1>5 DEF OncePerPage, EntryFollowed
  <2>2. e.run \in before[f.run]
    BY <1>1, <1>2, <1>3, <2>1 DEF GoesOn, IsMade
  <2>3. Excused(e.run)
    BY <1>2, <1>5, <2>2 DEF OncePerPage, DuplicatesExplained, Excused, Settled
  <2>4. QED
    BY <1>1, <1>3, <2>1, <2>3, SettledStays
<1>6. CASE e \in entries /\ f \notin entries
  <2>1. /\ f.run \in Calls /\ job[f.run].kind = "generate" /\ before' = before
        /\ f.page \in Remaining(job[f.run]) /\ pc[e.run] # "idle"
    BY <1>1, <1>6, NewEntry DEF OncePerPage, EntryFollowed
  <2>2. Excused(e.run)
    BY <1>2, <1>6, <2>1 DEF OncePerPage, SelectedOnce
  <2>3. QED
    BY <1>1, <1>3, <2>1, <2>2, SettledStays
<1>7. QED
  BY <1>4, <1>5, <1>6

\* A transaction has two entries of successive runs only if the first run
\* failed, or a sync put it back to READY that had not finished before it.
THEOREM DuplicatesAreExplained == Spec => []DuplicatesExplained
<1>1. Init => OncePerPage
  <2>1. Init => EntryFollowed /\ LoadedHandled /\ SelectedOnce /\ DuplicatesExplained
    BY DEF Init, EntryFollowed, LoadedHandled, SelectedOnce, DuplicatesExplained
  <2>2. QED
    BY <2>1, InitBase DEF OncePerPage
<1>2. OncePerPage /\ [Next]_vars => OncePerPage'
  <2>1. OncePerPage => Base
    BY DEF OncePerPage
  <2>2. QED
    BY <2>1, OrderedInductive, EntryFollowedStep, LoadedHandledStep, SelectedOnceStep,
       DuplicatesExplainedStep DEF OncePerPage
<1>3. OncePerPage => DuplicatesExplained
  BY DEF OncePerPage
<1>4. QED
  BY <1>1, <1>2, <1>3, PTL DEF Spec

-----------------------------------------------------------------------------
(* Why a transaction has its status.                                       *)

HasBalanced(p) == \E e \in entries : e.page = p /\ e.isBalanced

\* The entries, or the lack of a rule, are the reason for the status of t.
Justified(p, t) ==
    /\ t.status = "PROCESSED" =>
          \E e \in entries : e.page = p /\ e.isBalanced /\ Content(e.of) = Content(t)
    /\ t.status = "REVIEW" =>
          \/ RulesFor(t) = {}
          \/ \E e \in entries : e.page = p /\ ~ e.isBalanced /\ Content(e.of) = Content(t)

\* No sync and no generation overlap.
Apart == \A c \in Syncs, d \in Generates : ~ Overlap(c, d)

Running(c) == pc[c] \notin {"idle", "done"}

ProcessedIsBooked ==
    /\ \A p \in Pages : tx[p] # Nothing /\ tx[p].status = "PROCESSED" => HasBalanced(p)
    /\ \A c \in Calls : \A p \in Remaining(job[c]) :
          job[c].todo[p].status = "PROCESSED" => HasBalanced(p)

RowsJustified == \A p \in Pages : tx[p] # Nothing => Justified(p, tx[p])

\* A generation has what is in the table, and reasons for what it decided.
SelectionCurrent ==
    \A g \in Generates :
        /\ \A p \in Remaining(job[g]) :
              Content(job[g].todo[p]) = Content(tx[p]) /\ Justified(p, job[g].todo[p])
        /\ pc[g] = "save" => Content(job[g].loaded) = Content(tx[job[g].page])

\* What a sync has loaded as READY is READY.
LoadedReady ==
    \A c \in Syncs :
        pc[c] = "save" /\ job[c].loaded.status = "READY" => tx[job[c].page].status = "READY"

StatusInvariant ==
    /\ Base /\ ProcessedIsBooked
    /\ Apart => RowsJustified /\ SelectionCurrent /\ LoadedReady

\* The content and the status are the row.
LEMMA RowsEqual ==
    ASSUME NEW t \in Row, NEW u \in Row, Content(t) = Content(u), t.status = u.status
    PROVE  t = u
<1>1. /\ t.type = u.type /\ t.amount = u.amount /\ t.vatType = u.vatType
      /\ t.amountIncludesVat = u.amountIncludesVat /\ t.category = u.category
  BY SameContent
<1>2. QED
  BY <1>1 DEF Row

LEMMA EntriesStay ==
    ASSUME Typed, [Next]_vars
    PROVE  entries \subseteq entries'
<1>1. \A e \in entries' : e \notin entries => entries' = entries \cup {e}
  BY NewEntry
<1>2. CASE entries' = entries
  BY <1>2
<1>3. ASSUME NEW c \in Calls, NEW p \in Remaining(job[c]), NEW e \in entries',
             Generated(c, p, e)
      PROVE  entries \subseteq entries'
  BY <1>3 DEF Generated
<1>4. QED
  BY <1>2, <1>3, EntriesGrow

LEMMA JustifiedStays ==
    ASSUME Typed, [Next]_vars, NEW p, NEW t, Justified(p, t)
    PROVE  Justified(p, t)'
  BY EntriesStay DEF Justified, RulesFor

LEMMA ApartStays ==
    ASSUME Typed, [Next]_vars, Apart'
    PROVE  Apart
<1> SUFFICES ASSUME NEW c \in Syncs, NEW d \in Generates, Overlap(c, d) PROVE FALSE
  BY DEF Apart
<1>1. \A e \in Calls : GoesOn(e) \/ IsMade(e)
  BY Moves
<1>2. c \in Calls /\ d \in Calls /\ pc[c] # "idle" /\ pc[d] # "idle"
  BY DEF Syncs, Generates, Overlap, Made
<1>3. c \in Syncs' /\ d \in Generates'
  BY <1>1, <1>2 DEF Syncs, Generates, GoesOn, IsMade
<1>4. Overlap(c, d)'
  BY <1>1, <1>2 DEF Overlap, Made, GoesOn, IsMade
<1>5. QED
  BY <1>3, <1>4 DEF Apart

\* If they do not overlap, only the one or the other is under way.
LEMMA OneKindRuns ==
    ASSUME Base, Apart, NEW c \in Syncs, NEW d \in Generates, Running(c), Running(d)
    PROVE  FALSE
<1>1. c \in Calls /\ d \in Calls /\ c # d
  BY DEF Syncs, Generates
<1>2. c \notin before[d] /\ d \notin before[c]
  BY <1>1 DEF Base, Ordered, Running
<1>3. QED
  BY <1>1, <1>2 DEF Apart, Overlap, Made, Running

\* How a row changes: a sync inserts it, or a handler saves it.
Inserting(c, p) ==
    /\ Inserts(c) /\ c \in Syncs /\ Running(c) /\ p = job[c].page /\ p \in Remaining(job[c])
    /\ tx[p] = Nothing /\ tx'[p] = job[c].todo[p] /\ tx'[p] \in Row
    /\ tx'[p].status = "READY"

Updating(c, p) ==
    /\ Writes(c) /\ pc[c] = "save" /\ p = job[c].page /\ p \in Remaining(job[c])
    /\ tx[p] \in Row /\ tx'[p] \in Row /\ job[c].loaded \in Row /\ job[c].todo[p] \in Row
    /\ \A f \in {"type", "amount", "amountIncludesVat", "vatType", "category", "status"} :
          tx'[p][f] = IF job[c].todo[p][f] # job[c].loaded[f] THEN job[c].todo[p][f]
                      ELSE tx[p][f]

LEMMA TableSteps ==
    ASSUME Typed, [Next]_vars, NEW p \in Pages
    PROVE  \/ tx'[p] = tx[p]
           \/ \E c \in Calls : Acts(c) /\ (Inserting(c, p) \/ Updating(c, p))
<1>1. CASE tx' = tx
  BY <1>1
<1>2. ASSUME NEW c \in Calls, Acts(c), tx' # tx
      PROVE  tx'[p] = tx[p] \/ Inserting(c, p) \/ Updating(c, p)
  <2>1. Inserts(c) \/ Writes(c)
    BY <1>2 DEF Acts, Asks, Fails, Reads, Books
  <2>2. /\ job[c].page \in Pages /\ job[c].page \in Remaining(job[c])
        /\ job[c].todo[job[c].page] \in Row /\ tx \in [Pages -> Row \cup {Nothing}]
    BY <2>1 DEF Inserts, Writes, Typed, TypeOK, Matches, PageMatches, Remaining, Jobs
  <2>3. CASE Inserts(c)
    <3>1. c \in Syncs /\ Running(c) /\ job[c].todo[job[c].page].status = "READY"
      BY <2>2, <2>3 DEF Inserts, Syncs, Running, Typed, Matches, PhaseMatches, StatusMatches
    <3>2. /\ tx[job[c].page] = Nothing
          /\ tx' = [tx EXCEPT ![job[c].page] = job[c].todo[job[c].page]]
      BY <1>2, <2>3 DEF Inserts, Inserted
    <3>3. QED
      BY <2>2, <2>3, <3>1, <3>2 DEF Inserting
  <2>4. CASE Writes(c) /\ p = job[c].page
    <3>1. /\ tx'[p] = Written(c) /\ Written(c) \in Row /\ job[c].loaded \in Row
          /\ pc[c] = "save"
      BY <2>2, <2>4 DEF Writes
    <3>2. tx[p] \in Row
      BY <2>2, <2>4, <3>1 DEF Typed, Matches, PageMatches
    <3>3. /\ Written(c) = Changed(job[c].todo[p], job[c].loaded, tx[p])
          /\ DOMAIN tx[p] = {"type", "amount", "amountIncludesVat", "vatType", "category",
                             "status"}
      BY <2>4, <3>2, SameContent DEF Written
    <3>4. \A f \in DOMAIN tx[p] :
              Written(c)[f] = IF job[c].todo[p][f] # job[c].loaded[f] THEN job[c].todo[p][f]
                              ELSE tx[p][f]
      BY <3>3 DEF Changed
    <3>5. QED
      BY <2>2, <2>4, <3>1, <3>2, <3>3, <3>4 DEF Updating
  <2>5. CASE Writes(c) /\ p # job[c].page
    BY <2>2, <2>5 DEF Writes
  <2>6. QED
    BY <2>1, <2>3, <2>4, <2>5
<1>3. QED
  BY <1>1, <1>2, NextCases DEF vars, Edits, Crashes

LEMMA ProcessedIsBookedStep ==
    ASSUME StatusInvariant, [Next]_vars
    PROVE  ProcessedIsBooked'
<1>1. /\ Typed /\ Typed' /\ entries \subseteq entries'
  BY NextCases, EntriesStay DEF StatusInvariant, Base
<1>2. \A p \in Pages : HasBalanced(p) => HasBalanced(p)'
  BY <1>1 DEF HasBalanced
<1>3. ASSUME NEW p \in Pages, tx'[p] # Nothing, tx'[p].status = "PROCESSED"
      PROVE  HasBalanced(p)'
  <2>1. CASE tx'[p] = tx[p]
    BY <1>2, <1>3, <2>1 DEF StatusInvariant, ProcessedIsBooked
  <2>2. ASSUME NEW c \in Calls, Updating(c, p) PROVE HasBalanced(p)'
    <3>1. /\ p \in Remaining(job[c]) /\ tx[p] # Nothing
          /\ tx'[p].status \in {job[c].todo[p].status, tx[p].status}
      BY <2>2, NothingIsNoRow DEF Updating
    <3>2. QED
      BY <1>2, <1>3, <3>1 DEF StatusInvariant, ProcessedIsBooked
  <2>3. QED
    BY <1>1, <1>3, <2>1, <2>2, TableSteps DEF Inserting
<1>4. ASSUME NEW c \in Calls, NEW p \in Remaining(job'[c]),
             job'[c].todo[p].status = "PROCESSED"
      PROVE  HasBalanced(p)'
  <2>1. job'[c].kind = "generate" /\ p \in Pages
    BY <1>1, <1>4 DEF Typed, Matches, StatusMatches, Remaining
  <2>2. Kept(c, p)
    BY <1>1, <1>4, <2>1, HeldSteps
  <2>3. CASE job'[c].todo[p] = job[c].todo[p]
    BY <1>2, <1>4, <2>1, <2>2, <2>3 DEF Kept, StatusInvariant, ProcessedIsBooked
  <2>4. CASE job'[c].todo[p] # job[c].todo[p]
    BY <1>4, <2>2, <2>4 DEF Kept, StatusAfter, HasBalanced
  <2>5. QED
    BY <2>3, <2>4
<1>5. QED
  BY <1>3, <1>4 DEF ProcessedIsBooked, Remaining

\* What a writer may do to a row while no sync and no generation overlap.
LEMMA ApartWrites ==
    ASSUME StatusInvariant, Apart, NEW p \in Pages, NEW c \in Calls, Updating(c, p)
    PROVE  \/ c \in Syncs /\ Running(c) /\ tx'[p].status = "READY"
           \/ c \in Generates /\ Running(c) /\ tx'[p] \in {job[c].todo[p], tx[p]}
<1>1. /\ job[c].kind \in {"sync", "generate"} /\ Running(c) /\ pc[c] = "save"
      /\ p = job[c].page /\ p \in Remaining(job[c])
  BY DEF Updating, Running, StatusInvariant, Base, Typed, Matches, PhaseMatches
<1>2. CASE job[c].kind = "sync"
  <2>1. c \in Syncs /\ job[c].todo[p].status = "READY"
    BY <1>1, <1>2 DEF Syncs, StatusInvariant, Base, Typed, Matches, StatusMatches
  <2>2. job[c].loaded.status = "READY" => tx[p].status = "READY"
    BY <1>1, <2>1 DEF StatusInvariant, LoadedReady
  <2>3. QED
    BY <1>1, <2>1, <2>2 DEF Updating
<1>3. CASE job[c].kind = "generate"
  <2> DEFINE todo == job[c].todo[p]
             loaded == job[c].loaded
  <2>1. /\ c \in Generates /\ tx[p] \in Row /\ tx'[p] \in Row /\ todo \in Row
        /\ loaded \in Row
    BY <1>3 DEF Generates, Updating
  <2>2. Content(todo) = Content(tx[p]) /\ Content(loaded) = Content(tx[p])
    BY <1>1, <2>1 DEF StatusInvariant, SelectionCurrent
  <2>3. /\ todo.type = loaded.type /\ todo.amount = loaded.amount
        /\ todo.amountIncludesVat = loaded.amountIncludesVat
        /\ todo.vatType = loaded.vatType /\ todo.category = loaded.category
    BY <2>1, <2>2, SameContent
  <2>4. /\ tx'[p].type = tx[p].type /\ tx'[p].amount = tx[p].amount
        /\ tx'[p].amountIncludesVat = tx[p].amountIncludesVat
        /\ tx'[p].vatType = tx[p].vatType /\ tx'[p].category = tx[p].category
        /\ tx'[p].status \in {todo.status, tx[p].status}
    BY <2>3 DEF Updating
  <2>5. Content(tx'[p]) = Content(tx[p])
    BY <2>1, <2>4, SameContent
  <2>6. tx'[p] \in {todo, tx[p]}
    BY <2>1, <2>2, <2>4, <2>5, RowsEqual
  <2>7. QED
    BY <1>1, <2>1, <2>6
<1>4. QED
  BY <1>1, <1>2, <1>3

LEMMA RowsJustifiedStep ==
    ASSUME StatusInvariant, [Next]_vars, Apart'
    PROVE  RowsJustified'
<1>1. Typed /\ Typed' /\ Apart
  BY NextCases, ApartStays DEF StatusInvariant, Base
<1>2. RowsJustified /\ SelectionCurrent
  BY <1>1 DEF StatusInvariant
<1>3. SUFFICES ASSUME NEW p \in Pages, NEW t, t = tx'[p], t # Nothing
               PROVE  Justified(p, t)'
  BY DEF RowsJustified, Justified, RulesFor
<1>4. \A u : Justified(p, u) => Justified(p, u)'
  BY <1>1, JustifiedStays
<1>5. CASE t.status = "READY"
  BY <1>5 DEF Justified
<1>6. CASE t = tx[p]
  BY <1>2, <1>3, <1>4, <1>6 DEF RowsJustified
<1>7. ASSUME NEW c \in Calls, Updating(c, p) PROVE Justified(p, t)'
  <2>1. CASE c \in Generates /\ t \in {job[c].todo[p], tx[p]}
    <3>1. p \in Remaining(job[c]) /\ tx[p] # Nothing
      BY <1>7, NothingIsNoRow DEF Updating
    <3>2. Justified(p, job[c].todo[p]) /\ Justified(p, tx[p])
      BY <1>2, <2>1, <3>1 DEF SelectionCurrent, RowsJustified
    <3>3. QED
      BY <1>4, <2>1, <3>2
  <2>2. QED
    BY <1>1, <1>3, <1>5, <1>7, <2>1, ApartWrites
<1>8. QED
  BY <1>1, <1>3, <1>5, <1>6, <1>7, TableSteps DEF Inserting

\* No sync writes while a generation is under way.
LEMMA ContentStays ==
    ASSUME StatusInvariant, [Next]_vars, Apart, NEW g \in Generates, Running(g),
           NEW p \in Pages, tx[p] # Nothing
    PROVE  Content(tx'[p]) = Content(tx[p])
<1>1. ASSUME NEW c \in Calls, Updating(c, p) PROVE Content(tx'[p]) = Content(tx[p])
  <2>1. c \in Generates /\ tx'[p] \in {job[c].todo[p], tx[p]}
    BY <1>1, ApartWrites, OneKindRuns DEF StatusInvariant
  <2>2. Content(job[c].todo[p]) = Content(tx[p])
    BY <1>1, <2>1 DEF StatusInvariant, SelectionCurrent, Updating
  <2>3. QED
    BY <2>1, <2>2
<1>2. QED
  BY <1>1, TableSteps DEF Inserting, StatusInvariant, Base

LEMMA SelectionCurrentStep ==
    ASSUME StatusInvariant, [Next]_vars, Apart'
    PROVE  SelectionCurrent'
<1>1. /\ Typed /\ Typed' /\ Apart /\ \A d \in Calls : GoesOn(d) \/ IsMade(d)
  BY NextCases, ApartStays, Moves DEF StatusInvariant, Base
<1>2. SelectionCurrent
  BY <1>1 DEF StatusInvariant
<1>3. ASSUME NEW g \in Calls, job'[g].kind = "generate", NEW p \in Remaining(job'[g]),
             NEW t, t = job'[g].todo[p]
      PROVE  Content(t) = Content(tx'[p]) /\ Justified(p, t)'
  <2>1. CASE t = tx[p] /\ tx[p].status = "READY" /\ tx' = tx
    BY <2>1 DEF Justified
  <2>2. CASE Kept(g, p)
    <3>1. /\ p \in Remaining(job[g]) /\ p \in Pages
          /\ Content(t) = Content(job[g].todo[p])
      BY <1>3, <2>2 DEF Kept, Remaining
    <3>2. pc[g] \notin {"idle", "done"}
      BY <1>1, <3>1 DEF Typed, Matches, PhaseMatches
    <3>3. g \in Generates /\ Running(g) /\ tx[p] # Nothing
      BY <1>1, <1>3, <3>1, <3>2
         DEF Generates, Running, GoesOn, IsMade, Typed, Matches, PageMatches
    <3>4. /\ Content(job[g].todo[p]) = Content(tx[p]) /\ Justified(p, job[g].todo[p])
      BY <1>2, <3>1, <3>3 DEF SelectionCurrent
    <3>5. Content(tx'[p]) = Content(tx[p])
      BY <1>1, <3>1, <3>3, ContentStays
    <3>6. CASE t = job[g].todo[p]
      BY <1>1, <3>4, <3>5, <3>6, JustifiedStays
    <3>7. CASE t.status = "REVIEW" /\ RulesFor(t) = {}
      BY <3>1, <3>4, <3>5, <3>7 DEF Justified, RulesFor
    <3>8. ASSUME NEW e \in entries', e.page = p, e.of = job[g].todo[p],
                 e.isBalanced \in BOOLEAN, t.status = StatusAfter(e)
          PROVE  Justified(p, t)'
      BY <3>1, <3>8 DEF Justified, StatusAfter
    <3>9. QED
      BY <1>3, <2>2, <3>1, <3>4, <3>5, <3>6, <3>7, <3>8 DEF Kept
  <2>3. QED
    BY <1>1, <1>3, <2>1, <2>2, HeldSteps
<1>4. ASSUME NEW g \in Calls, job'[g].kind = "generate", pc'[g] = "save"
      PROVE  Content(job'[g].loaded) = Content(tx'[job'[g].page])
  <2>1. CASE Acts(g)
    BY <1>1, <1>4, <2>1, LoadsRow
  <2>2. CASE pc'[g] = pc[g] /\ job'[g] = job[g]
    <3>1. /\ g \in Generates /\ Running(g) /\ job[g].page \in Pages
          /\ tx[job[g].page] # Nothing
      BY <1>1, <1>4, <2>2
         DEF Generates, Running, Typed, Matches, PageMatches, Remaining
    <3>2. Content(job[g].loaded) = Content(tx[job[g].page])
      BY <1>2, <1>4, <2>2, <3>1 DEF SelectionCurrent
    <3>3. Content(tx'[job[g].page]) = Content(tx[job[g].page])
      BY <1>1, <3>1, ContentStays
    <3>4. QED
      BY <2>2, <3>2, <3>3
  <2>3. QED
    BY <1>1, <1>4, <2>1, <2>2, OwnSteps
<1>5. QED
  BY <1>3, <1>4 DEF SelectionCurrent, Generates, Justified, RulesFor

LEMMA LoadedReadyStep ==
    ASSUME StatusInvariant, [Next]_vars, Apart'
    PROVE  LoadedReady'
<1>1. /\ Typed /\ Typed' /\ Apart
  BY NextCases, ApartStays DEF StatusInvariant, Base
<1>2. SUFFICES ASSUME NEW c \in Calls, job'[c].kind = "sync", pc'[c] = "save",
                      job'[c].loaded.status = "READY"
               PROVE  tx'[job'[c].page].status = "READY"
  BY DEF LoadedReady, Syncs
<1>3. CASE Acts(c)
  BY <1>1, <1>2, <1>3, LoadsRow
<1>4. CASE pc'[c] = pc[c] /\ job'[c] = job[c]
  <2> DEFINE p == job[c].page
  <2>1. /\ c \in Syncs /\ Running(c) /\ p \in Pages /\ tx[p] # Nothing
    BY <1>1, <1>2, <1>4 DEF Syncs, Running, Typed, Matches, PageMatches, Remaining
  <2>2. tx[p].status = "READY"
    BY <1>1, <1>2, <1>4, <2>1 DEF StatusInvariant, LoadedReady
  <2>3. ASSUME NEW d \in Calls, Updating(d, p) PROVE tx'[p].status = "READY"
    BY <1>1, <2>1, <2>3, ApartWrites, OneKindRuns DEF StatusInvariant
  <2>4. tx'[p].status = "READY"
    BY <1>1, <2>1, <2>2, <2>3, TableSteps DEF Inserting
  <2>5. QED
    BY <1>4, <2>4
<1>5. QED
  BY <1>1, <1>2, <1>3, <1>4, OwnSteps

\* A PROCESSED transaction has a balanced entry.  Unless a sync and a
\* generation overlapped, that entry is of the content the transaction has, and
\* one under REVIEW lacks a rule or has an unbalanced entry of its content.
THEOREM StatusesAreTrue == Spec => []StatusIsTrue
<1>1. Init => StatusInvariant
  <2> SUFFICES ASSUME Init PROVE StatusInvariant
    OBVIOUS
  <2>1. Base /\ entries = {} /\ \A c \in Calls : pc[c] = "idle" /\ job[c].kind = "none"
    BY InitBase DEF Init, NoJob
  <2>2. \A c \in Calls : Remaining(job[c]) = {}
    BY <2>1 DEF Base, Typed, Matches, PhaseMatches
  <2>3. \A p \in Pages : tx[p] # Nothing => tx[p].status = "READY"
    BY DEF Init, Parse
  <2>4. ProcessedIsBooked
    BY <2>2, <2>3 DEF ProcessedIsBooked
  <2>5. RowsJustified /\ SelectionCurrent /\ LoadedReady
    BY <2>1, <2>3
       DEF RowsJustified, Justified, SelectionCurrent, LoadedReady, Generates, Syncs
  <2>6. QED
    BY <2>1, <2>4, <2>5 DEF StatusInvariant
<1>2. StatusInvariant /\ [Next]_vars => StatusInvariant'
  <2> SUFFICES ASSUME StatusInvariant, [Next]_vars PROVE StatusInvariant'
    OBVIOUS
  <2>1. Base'
    BY OrderedInductive DEF StatusInvariant
  <2>2. Apart' => RowsJustified' /\ SelectionCurrent' /\ LoadedReady'
    BY RowsJustifiedStep, SelectionCurrentStep, LoadedReadyStep
  <2>3. QED
    BY <2>1, <2>2, ProcessedIsBookedStep DEF StatusInvariant
<1>3. StatusInvariant => StatusIsTrue
  BY DEF StatusInvariant, StatusIsTrue, ProcessedIsBooked, HasBalanced, RowsJustified,
         Justified, Apart
<1>4. QED
  BY <1>1, <1>2, <1>3, PTL DEF Spec

-----------------------------------------------------------------------------
(* What a sync that nothing overlaps leaves behind.                        *)

\* The versions of a page since the sync c was made.
Since(c, p) == {notion[p][i] : i \in job[c].start[p] .. Len(notion[p])}

Throughout(c, p) == \A v \in Since(c, p) : Parseable(v)

\* A row with what the page has been since.
Fresh(c, p, t) ==
    t # Nothing /\ Content(t) \in {Content(Parse(v)) : v \in Since(c, p)}

\* Nothing overlaps c, and it is the last sync so far.
Sole(c) ==
    (\A d \in Calls : ~ Overlap(c, d)) /\ (\A d \in Syncs \ {c} : d \in before[c])

\* Of every page that was parseable throughout, c holds or has left a row: up
\* to its cursor as long as it fetches.
SyncHolds(c, p) ==
    /\ job[c].todo[p] # Nothing => Fresh(c, p, job[c].todo[p])
    /\ pc[c] = "fetch" /\ p <= job[c].cursor => job[c].todo[p] # Nothing
    /\ pc[c] \in {"sync", "insert", "load", "save"} /\ job[c].todo[p] = Nothing =>
          Fresh(c, p, tx[p])
    /\ answer[c] = "success" => Fresh(c, p, tx[p])

SyncLoaded(c) == pc[c] = "save" => Content(job[c].loaded) = Content(tx[job[c].page])

\* The generations after c have what is in the table.
AfterSync(c) ==
    \A g \in Generates :
        c \in before[g] =>
            /\ \A p \in Remaining(job[g]) : Content(job[g].todo[p]) = Content(tx[p])
            /\ pc[g] = "save" => Content(job[g].loaded) = Content(tx[job[g].page])

SyncInvariant ==
    /\ Base
    /\ \A c \in Syncs :
          Sole(c) => /\ \A p \in Pages : Throughout(c, p) => SyncHolds(c, p)
                     /\ SyncLoaded(c) /\ AfterSync(c)

LEMMA SinceGrows ==
    ASSUME Typed, [Next]_vars, NEW c \in Syncs, NEW p \in Pages
    PROVE  /\ Since(c, p) \subseteq Since(c, p)'
           /\ Throughout(c, p)' => Throughout(c, p)
           /\ \A t : Fresh(c, p, t) => Fresh(c, p, t)'
<1>1. c \in Calls /\ job[c].kind = "sync" /\ pc[c] # "idle"
  BY DEF Syncs, Typed, Matches, PhaseMatches, NoJob
<1>2. job'[c].start = job[c].start
  BY <1>1, Moves DEF GoesOn, IsMade
<1>3. /\ job[c].start[p] \in Nat /\ job[c].start[p] >= 1 /\ Len(notion[p]) \in Nat
  BY <1>1 DEF Typed, Matches, StartMatches, TypeOK
<1>4. notion' = notion \/ Edits
  BY NextCases DEF vars, Crashes, Acts, Asks, Fails, Reads, Inserts, Writes, Books
<1>5. /\ Len(notion'[p]) \in Nat /\ Len(notion[p]) <= Len(notion'[p])
      /\ \A i \in 1 .. Len(notion[p]) : notion'[p][i] = notion[p][i]
  BY <1>3, <1>4 DEF Edits
<1>6. \A i \in job[c].start[p] .. Len(notion[p]) :
          /\ i \in job'[c].start[p] .. Len(notion'[p])
          /\ notion'[p][i] = notion[p][i]
  BY <1>2, <1>3, <1>5
<1>7. Since(c, p) \subseteq Since(c, p)'
  BY <1>6 DEF Since
<1>8. \A v : Parseable(v)' <=> Parseable(v)
  BY DEF Parseable
<1>9. Throughout(c, p)' => Throughout(c, p)
  BY <1>7, <1>8 DEF Throughout
<1>10. \A t : Fresh(c, p, t) => Fresh(c, p, t)'
  BY <1>7 DEF Fresh
<1>11. QED
  BY <1>7, <1>9, <1>10

LEMMA CurrentSince ==
    ASSUME Typed, NEW c \in Syncs, NEW p \in Pages
    PROVE  Current(p) \in Since(c, p)
<1>1. job[c].start[p] \in 1 .. Len(notion[p]) /\ Len(notion[p]) \in Nat
  BY DEF Syncs, Typed, Matches, StartMatches, TypeOK
<1>2. QED
  BY <1>1 DEF Since, Current

LEMMA SoleStays ==
    ASSUME Typed, [Next]_vars, NEW c \in Syncs, Sole(c)'
    PROVE  Sole(c)
<1>0. \A d \in Calls : GoesOn(d) \/ IsMade(d)
  BY Moves
<1>1. c \in Calls /\ pc[c] # "idle" /\ \A d \in Calls : GoesOn(d) \/ IsMade(d)
  BY <1>0 DEF Syncs, Typed, Matches, PhaseMatches, NoJob
<1>2. ASSUME NEW d \in Calls, Overlap(c, d) PROVE FALSE
  <2>1. Overlap(c, d)'
    BY <1>1, <1>2 DEF Overlap, Made, GoesOn, IsMade
  <2>2. QED
    BY <2>1 DEF Sole
<1>3. ASSUME NEW d \in Syncs \ {c} PROVE d \in before[c]
  <2>1. d \in Calls /\ pc[d] # "idle" /\ job[d].kind = "sync"
    BY DEF Syncs, Typed, Matches, PhaseMatches, NoJob
  <2>2. d \in Syncs'
    BY <1>1, <2>1 DEF Syncs, GoesOn, IsMade
  <2>3. QED
    BY <1>1, <2>2 DEF Sole, GoesOn, IsMade
<1>4. QED
  BY <1>2, <1>3 DEF Sole

\* Whatever else is under way is a generation made after its answer.
LEMMA SoleRuns ==
    ASSUME Base, NEW c \in Syncs, Sole(c), NEW d \in Calls \ {c}, Running(d)
    PROVE  pc[c] = "done" /\ d \in Generates /\ c \in before[d]
<1>1. c \in Calls /\ pc[c] # "idle" /\ d \notin before[c]
  BY DEF Syncs, Base, Typed, Matches, PhaseMatches, NoJob, Ordered, Running
<1>2. d \notin Syncs
  BY <1>1 DEF Sole
<1>3. d \in Generates
  BY <1>2 DEF Generates, Syncs, Running, Base, Typed, TypeOK, Phases, Matches, PhaseMatches
<1>4. c \in before[d]
  BY <1>1 DEF Sole, Overlap, Made, Running
<1>5. QED
  BY <1>1, <1>3, <1>4 DEF Base, Ordered

\* If a row is as it was loaded, it gets the content that is saved.
LEMMA UpdateContent ==
    ASSUME NEW c \in Calls, NEW p \in Pages, Updating(c, p),
           Content(job[c].loaded) = Content(tx[p])
    PROVE  Content(tx'[p]) = Content(job[c].todo[p]) /\ tx'[p] # Nothing
<1> DEFINE todo == job[c].todo[p]
           loaded == job[c].loaded
<1>1. /\ tx[p] \in Row /\ tx'[p] \in Row /\ todo \in Row /\ loaded \in Row
  BY DEF Updating
<1>2. /\ tx[p].type = loaded.type /\ tx[p].amount = loaded.amount
      /\ tx[p].amountIncludesVat = loaded.amountIncludesVat
      /\ tx[p].vatType = loaded.vatType /\ tx[p].category = loaded.category
  BY <1>1, SameContent
<1>3. /\ tx'[p].type = todo.type /\ tx'[p].amount = todo.amount
      /\ tx'[p].amountIncludesVat = todo.amountIncludesVat
      /\ tx'[p].vatType = todo.vatType /\ tx'[p].category = todo.category
  BY <1>2 DEF Updating
<1>4. QED
  BY <1>1, <1>3, SameContent, NothingIsNoRow

LEMMA SyncIsMade ==
    ASSUME Typed, NEW c \in Syncs
    PROVE  c \in Calls /\ job[c].kind = "sync" /\ pc[c] # "idle" /\ job[c] \in Jobs
  BY DEF Syncs, Typed, TypeOK, Matches, PhaseMatches, NoJob

LEMMA ActsRuns ==
    ASSUME NEW c, Acts(c)
    PROVE  pc[c] # "done" /\ (pc[c] = "idle" => Asks(c))
  BY DEF Acts, Asks, Fails, Reads, Inserts, Writes, Books

\* The others do not change a row while c is under way, and no content after.
LEMMA OthersAfter ==
    ASSUME SyncInvariant, [Next]_vars, NEW c \in Syncs, Sole(c), ~ Acts(c),
           NEW p \in Pages
    PROVE  /\ pc[c] # "done" => tx'[p] = tx[p]
           /\ tx[p] # Nothing => tx'[p] # Nothing /\ Content(tx'[p]) = Content(tx[p])
<1>1. Typed /\ Base
  BY DEF SyncInvariant, Base
<1>2. ASSUME NEW d \in Calls, Acts(d), Inserting(d, p) \/ Updating(d, p)
      PROVE  pc[c] = "done" /\ d \in Generates /\ c \in before[d] /\ Updating(d, p)
  <2>1. d # c /\ Running(d)
    BY <1>2, ActsRuns DEF Inserting, Updating, Running
  <2>2. pc[c] = "done" /\ d \in Generates /\ c \in before[d]
    BY <1>1, <2>1, SoleRuns
  <2>3. d \notin Syncs
    BY <2>2 DEF Generates, Syncs
  <2>4. QED
    BY <1>2, <2>2, <2>3 DEF Inserting
<1>3. ASSUME NEW d \in Calls, d \in Generates, c \in before[d], Updating(d, p)
      PROVE  tx'[p] # Nothing /\ Content(tx'[p]) = Content(tx[p])
  <2>1. p \in Remaining(job[d]) /\ pc[d] = "save" /\ p = job[d].page
    BY <1>3 DEF Updating
  <2>2. /\ Content(job[d].todo[p]) = Content(tx[p])
        /\ Content(job[d].loaded) = Content(tx[p])
    BY <1>3, <2>1 DEF SyncInvariant, AfterSync
  <2>3. QED
    BY <1>3, <2>2, UpdateContent
<1>4. QED
  BY <1>1, <1>2, <1>3, TableSteps

LEMMA AfterSyncStep ==
    ASSUME SyncInvariant, [Next]_vars, NEW c \in Syncs, Sole(c)
    PROVE  AfterSync(c)'
<1>1. /\ Typed /\ Typed' /\ Ordered' /\ \A d \in Calls : GoesOn(d) \/ IsMade(d)
  <2>1. \A d \in Calls : GoesOn(d) \/ IsMade(d)
    BY Moves DEF SyncInvariant, Base
  <2>2. QED
    BY <2>1, OrderedInductive DEF SyncInvariant, Base
<1>2. AfterSync(c)
  BY DEF SyncInvariant
<1>3. ASSUME NEW g \in Calls, GoesOn(g), job[g].kind = "generate", c \in before[g],
             NEW p \in Pages, tx[p] # Nothing
      PROVE  Content(tx'[p]) = Content(tx[p])
  <2>1. pc[c] = "done" /\ c \in Calls
    BY <1>3, SyncIsMade DEF SyncInvariant, Base, Ordered
  <2>2. QED
    BY <1>3, <2>1, ActsRuns, OthersAfter
<1>4. ASSUME NEW g \in Calls, job'[g].kind = "generate", c \in before'[g],
             NEW p \in Remaining(job'[g])
      PROVE  Content(job'[g].todo[p]) = Content(tx'[p])
  <2>1. CASE job'[g].todo[p] = tx[p] /\ tx' = tx
    BY <2>1
  <2>2. CASE Kept(g, p)
    <3>1. /\ p \in Remaining(job[g]) /\ p \in Pages
          /\ Content(job'[g].todo[p]) = Content(job[g].todo[p])
      BY <2>2 DEF Kept, Remaining
    <3>2. GoesOn(g)
      BY <1>1, <3>1 DEF IsMade, Typed, Matches, PhaseMatches
    <3>3. job[g].kind = "generate" /\ c \in before[g] /\ tx[p] # Nothing
      BY <1>1, <1>4, <3>1, <3>2 DEF GoesOn, Typed, Matches, PageMatches
    <3>4. Content(job[g].todo[p]) = Content(tx[p])
      BY <1>2, <3>1, <3>3 DEF AfterSync, Generates
    <3>5. Content(tx'[p]) = Content(tx[p])
      BY <1>3, <3>1, <3>2, <3>3
    <3>6. QED
      BY <3>1, <3>4, <3>5
  <2>3. QED
    BY <1>1, <1>4, <2>1, <2>2, HeldSteps
<1>5. ASSUME NEW g \in Calls, job'[g].kind = "generate", c \in before'[g], pc'[g] = "save"
      PROVE  Content(job'[g].loaded) = Content(tx'[job'[g].page])
  <2>1. CASE Acts(g)
    BY <1>1, <1>5, <2>1, LoadsRow
  <2>2. CASE pc'[g] = pc[g] /\ job'[g] = job[g]
    <3>1. GoesOn(g) /\ job[g].page \in Pages /\ tx[job[g].page] # Nothing
      BY <1>1, <1>5, <2>2 DEF IsMade, Typed, Matches, PageMatches, Remaining
    <3>2. c \in before[g] /\ job[g].kind = "generate"
      BY <1>5, <2>2, <3>1 DEF GoesOn
    <3>3. Content(job[g].loaded) = Content(tx[job[g].page])
      BY <1>2, <1>5, <2>2, <3>2 DEF AfterSync, Generates
    <3>4. Content(tx'[job[g].page]) = Content(tx[job[g].page])
      BY <1>3, <3>1, <3>2
    <3>5. QED
      BY <2>2, <3>3, <3>4
  <2>3. QED
    BY <1>1, <1>5, <2>1, <2>2, OwnSteps
<1>6. QED
  BY <1>4, <1>5 DEF AfterSync, Generates

-----------------------------------------------------------------------------
(* The steps of such a sync.                                               *)

\* Responses leave nothing out between the cursor and their last page.
LEMMA ResponseComplete ==
    ASSUME NEW cursor \in Pages \cup {0}
    PROVE  /\ Response(cursor) = {} => AfterCursor(cursor) = {}
           /\ Response(cursor) # {} =>
                 /\ Max(Response(cursor)) \in Pages
                 /\ \A p \in AfterCursor(cursor) :
                       p <= Max(Response(cursor)) => p \in Response(cursor)
<1> DEFINE between(p) == {q \in Present : cursor < q /\ q < p}
<1>1. /\ Pages \subseteq Nat \ {0} /\ cursor \in Nat /\ Present \subseteq Pages
      /\ IsFiniteSet(Pages)
  BY PagesType, PagesNumbered DEF Present
<1>2. \A p : IsFiniteSet(between(p)) /\ Cardinality(between(p)) \in Nat
  <2> TAKE p
  <2>1. between(p) \subseteq Pages
    BY <1>1
  <2>2. QED
    BY <1>1, <2>1, FS_Subset, FS_CardinalityType
<1>3. PageSize \in Nat /\ PageSize > 0
  BY PageSizePositive
<1>4. \A p : p \in Response(cursor) <=>
               p \in Present /\ p > cursor /\ Cardinality(between(p)) < PageSize
  BY DEF Response
<1>5. ASSUME AfterCursor(cursor) # {} PROVE Response(cursor) # {}
  <2> DEFINE m == Min(AfterCursor(cursor))
  <2>1. AfterCursor(cursor) \in SUBSET Pages
    BY ResponseType
  <2>2. m \in AfterCursor(cursor) /\ \A y \in AfterCursor(cursor) : m <= y
    BY <1>5, <2>1, MinPage
  <2> HIDE DEF m
  <2>3. m \in Present /\ m > cursor /\ m \in Nat
    BY <1>1, <2>2 DEF AfterCursor
  <2>4. between(m) = {}
    <3>1. SUFFICES ASSUME NEW q \in Present, cursor < q, q < m PROVE FALSE
      OBVIOUS
    <3>2. q \in Nat /\ q > cursor
      BY <1>1, <3>1
    <3>3. m <= q
      BY <2>2, <3>2 DEF AfterCursor
    <3>4. QED
      BY <2>3, <3>1, <3>2, <3>3
  <2>5. Cardinality(between(m)) = 0
    BY <2>4, FS_EmptySet
  <2>6. QED
    BY <1>3, <1>4, <2>3, <2>5
<1>6. ASSUME Response(cursor) # {}
      PROVE  /\ Max(Response(cursor)) \in Response(cursor)
             /\ Max(Response(cursor)) \in Pages
  <2>1. Response(cursor) \in SUBSET Pages
    BY ResponseType
  <2>2. QED
    BY <1>6, <2>1, MaxPage
<1>7. ASSUME NEW m \in Response(cursor), NEW p \in AfterCursor(cursor), p <= m
      PROVE  p \in Response(cursor)
  <2>1. /\ p \in Present /\ p > cursor /\ p \in Nat /\ m \in Nat
        /\ Cardinality(between(m)) < PageSize
    BY <1>1, <1>4, <1>7 DEF AfterCursor
  <2>2. between(p) \subseteq between(m)
    <3>1. SUFFICES ASSUME NEW q \in Present, cursor < q, q < p PROVE q < m
      OBVIOUS
    <3>2. q \in Nat
      BY <1>1
    <3>3. QED
      BY <1>7, <2>1, <3>1, <3>2
  <2>3. Cardinality(between(p)) <= Cardinality(between(m))
    BY <1>2, <2>2, FS_Subset
  <2>4. Cardinality(between(p)) \in Nat /\ Cardinality(between(m)) \in Nat
    BY <1>2
  <2>5. QED
    BY <1>3, <1>4, <2>1, <2>3, <2>4
<1>8. QED
  BY <1>5, <1>6, <1>7

LEMMA FetchHolds ==
    ASSUME Typed, [Next]_vars, NEW c \in Syncs, NEW j \in Jobs, pc[c] = "fetch",
           Fetched(c, Response(job[c].cursor), j), NEW p \in Pages, Throughout(c, p),
           SyncHolds(c, p)
    PROVE  SyncHolds(c, p)'
<1> DEFINE cursor == job[c].cursor
           found == Response(cursor)
           todo == Read(c, found)
<1>1. c \in Calls /\ job[c] \in Jobs /\ cursor \in Pages \cup {0}
  BY SyncIsMade DEF Jobs
<1>2. Current(p) \in Since(c, p) /\ Parseable(Current(p))
  BY CurrentSince DEF Throughout
<1>3. p \in Present /\ Fresh(c, p, Parse(Current(p)))
  <2>1. Parse(Current(p)) \in Row /\ Current(p) # Nothing
    BY <1>2, CurrentType, ParseType DEF Typed, Parseable
  <2>2. QED
    BY <1>2, <2>1, NothingIsNoRow DEF Present, Fresh
<1>4. /\ todo[p] # Nothing => Fresh(c, p, todo[p])
      /\ job[c].todo[p] # Nothing => todo[p] # Nothing
      /\ p \in found => todo[p] # Nothing
  BY <1>2, <1>3 DEF Read, SyncHolds, Fresh
<1>5. p <= cursor => todo[p] # Nothing
  BY <1>4 DEF SyncHolds
<1>6. p \in Nat /\ cursor \in Nat
  BY <1>1, PagesType
<1>7. ~ (p <= cursor) => p \in AfterCursor(cursor)
  BY <1>3, <1>6 DEF AfterCursor
<1>8. ASSUME found # {} /\ AfterCursor(Max(found)) # {}, p <= Max(found)
      PROVE  todo[p] # Nothing
  BY <1>1, <1>4, <1>5, <1>7, <1>8, ResponseComplete
<1>9. ASSUME ~ (found # {} /\ AfterCursor(Max(found)) # {})
      PROVE  todo[p] # Nothing
  <2>1. CASE found = {}
    BY <1>1, <1>5, <1>7, <2>1, ResponseComplete
  <2>2. CASE found # {} /\ AfterCursor(Max(found)) = {}
    <3>1. Max(found) \in Pages /\ Max(found) \in Nat
      BY <1>1, <2>2, ResponseComplete, PagesType
    <3>2. p <= Max(found)
      BY <1>3, <1>6, <2>2, <3>1 DEF AfterCursor
    <3>3. QED
      BY <1>1, <1>4, <1>5, <1>7, <2>2, <3>2, ResponseComplete
  <2>3. QED
    BY <1>9, <2>1, <2>2
<1>10. \A t : Fresh(c, p, t) => Fresh(c, p, t)'
  BY SinceGrows
<1>11. j.todo = todo
  BY DEF Fetched
<1> HIDE DEF todo, found
<1>12. CASE pc'[c] = "fetch" /\ job'[c] = j /\ answer'[c] = "none"
  BY <1>4, <1>8, <1>10, <1>11, <1>12 DEF Fetched, SyncHolds, Fresh, found
<1>13. CASE pc'[c] = "sync" /\ job'[c] = j /\ answer'[c] = "none"
  <2>1. todo[p] # Nothing
    BY <1>9, <1>13 DEF Fetched, found
  <2>2. QED
    BY <1>4, <1>10, <1>11, <1>13, <2>1 DEF SyncHolds, Fresh
<1>14. CASE pc'[c] = "done"
  <2>1. todo[p] # Nothing /\ Remaining(j) = {}
    BY <1>9, <1>14 DEF Fetched, found
  <2>2. QED
    BY <1>11, <2>1 DEF Remaining
<1>15. QED
  BY <1>12, <1>13, <1>14 DEF Fetched

\* After a page is saved, it is in the table.
LEMMA AdvancedHolds ==
    ASSUME Typed, [Next]_vars, NEW c \in Syncs, pc[c] \in {"insert", "save"}, Advanced(c),
           \A q \in Pages \ {job[c].page} : tx'[q] = tx[q],
           tx'[job[c].page] # Nothing,
           Content(tx'[job[c].page]) = Content(job[c].todo[job[c].page]),
           NEW p \in Pages, SyncHolds(c, p)
    PROVE  SyncHolds(c, p)'
<1>1. /\ c \in Calls /\ job[c] \in Jobs /\ job[c].kind = "sync"
      /\ job[c].page \in Remaining(job[c]) /\ job[c].page \in Pages
  BY SyncIsMade DEF Typed, Matches, PageMatches, Remaining
<1>2. /\ Saved(job[c]).todo = [job[c].todo EXCEPT ![job[c].page] = Nothing]
      /\ Remaining(Saved(job[c])) = Remaining(job[c]) \ {job[c].page}
      /\ job[c].todo \in [Pages -> Row \cup {Nothing}]
  BY <1>1, SavedJob DEF Jobs
<1>3. \A t : Fresh(c, p, t) => Fresh(c, p, t)'
  BY SinceGrows
<1>4. p = job[c].page \/ job[c].todo[p] = Nothing => Fresh(c, p, tx'[p])
  <2>1. CASE p = job[c].page
    <3>1. Fresh(c, p, job[c].todo[p])
      BY <1>1, <2>1 DEF SyncHolds, Remaining
    <3>2. QED
      BY <2>1, <3>1 DEF Fresh
  <2>2. CASE p # job[c].page /\ job[c].todo[p] = Nothing
    BY <2>2 DEF SyncHolds
  <2>3. QED
    BY <2>1, <2>2
<1>5. ASSUME NEW t, t = tx'[p], Fresh(c, p, t) PROVE t # Nothing /\ Fresh(c, p, t)'
  BY <1>3, <1>5 DEF Fresh
<1>6. CASE pc'[c] = "sync" /\ job'[c] = Saved(job[c]) /\ answer'[c] = "none"
  <2>1. /\ job'[c].todo[p] # Nothing =>
              job'[c].todo[p] = job[c].todo[p] /\ job[c].todo[p] # Nothing
        /\ job'[c].todo[p] = Nothing => p = job[c].page \/ job[c].todo[p] = Nothing
    BY <1>1, <1>2, <1>6
  <2>2. job'[c].todo[p] # Nothing => Fresh(c, p, job[c].todo[p])'
    BY <1>3, <2>1 DEF SyncHolds
  <2>3. QED
    BY <1>3, <1>4, <1>6, <2>1 DEF SyncHolds, Fresh
<1>7. CASE pc'[c] = "done" /\ job'[c] = Ended(job[c])
  <2>1. job'[c].todo[p] = Nothing
    BY <1>1, <1>7 DEF Ended, NoJob
  <2>2. answer'[c] = "success" => p = job[c].page \/ job[c].todo[p] = Nothing
    BY <1>2, <1>7 DEF Advanced, Remaining
  <2>3. QED
    BY <1>3, <1>4, <1>7, <2>1, <2>2 DEF SyncHolds, Fresh
<1>8. QED
  BY <1>1, <1>6, <1>7 DEF Advanced

LEMMA SyncHoldsStep ==
    ASSUME SyncInvariant, [Next]_vars, NEW c \in Syncs, Sole(c), NEW p \in Pages,
           Throughout(c, p)
    PROVE  SyncHolds(c, p)'
<1>1. /\ Typed /\ c \in Calls /\ job[c].kind = "sync" /\ pc[c] # "idle"
      /\ SyncHolds(c, p) /\ SyncLoaded(c)
  BY SyncIsMade DEF SyncInvariant, Base
<1>2. \A t : Fresh(c, p, t) => Fresh(c, p, t)'
  BY <1>1, SinceGrows
<1>3. CASE pc'[c] = "done" /\ job'[c] = Ended(job[c]) /\ answer'[c] = "failed"
  <2>1. job'[c].todo[p] = Nothing
    BY <1>3 DEF Ended, NoJob
  <2>2. QED
    BY <1>3, <2>1 DEF SyncHolds
<1>4. CASE ~ Acts(c) /\ pc'[c] = pc[c] /\ job'[c] = job[c] /\ answer'[c] = answer[c]
  <2>1. /\ pc[c] # "done" => tx'[p] = tx[p]
        /\ tx[p] # Nothing => tx'[p] # Nothing /\ Content(tx'[p]) = Content(tx[p])
    BY <1>4, OthersAfter
  <2>2. Fresh(c, p, tx[p]) => Fresh(c, p, tx'[p])
    BY <2>1 DEF Fresh
  <2>3. \A t : t = tx'[p] /\ Fresh(c, p, t) => Fresh(c, p, t)'
    BY <1>2
  <2>4. QED
    BY <1>1, <1>2, <1>4, <2>2, <2>3 DEF SyncHolds, Fresh
<1>5. CASE Acts(c)
  <2>1. CASE Fails(c)
    BY <1>3, <2>1 DEF Fails
  <2>2. CASE Reads(c) /\ pc[c] = "fetch"
    <3>1. PICK j \in Jobs : Fetched(c, Response(job[c].cursor), j)
      BY <2>2 DEF Reads
    <3>2. QED
      BY <1>1, <2>2, <3>1, FetchHolds
  <2>3. CASE Reads(c) /\ pc[c] \in {"sync", "load"}
    <3>1. /\ job'[c].todo = job[c].todo /\ pc'[c] \in {"insert", "load", "save"}
          /\ answer'[c] = "none" /\ tx' = tx
      BY <2>3 DEF Reads, Found, Loaded
    <3>2. QED
      BY <1>1, <1>2, <2>3, <3>1 DEF SyncHolds, Fresh
  <2>4. CASE Inserts(c) \/ Writes(c)
    <3>1. /\ pc[c] \in {"insert", "save"} /\ job[c].page \in Pages
          /\ job[c].page \in Remaining(job[c])
          /\ tx \in [Pages -> Row \cup {Nothing}]
          /\ job[c].todo[job[c].page] \in Row
      BY <1>1, <2>4 DEF Inserts, Writes, Typed, TypeOK, Matches, PageMatches, Remaining, Jobs
    <3>2. CASE Inserts(c) /\ tx[job[c].page] = Nothing
      <4>1. /\ Advanced(c)
            /\ tx' = [tx EXCEPT ![job[c].page] = job[c].todo[job[c].page]]
        BY <3>2 DEF Inserts, Inserted
      <4>2. /\ tx'[job[c].page] = job[c].todo[job[c].page] /\ tx'[job[c].page] # Nothing
            /\ \A q \in Pages \ {job[c].page} : tx'[q] = tx[q]
        BY <3>1, <4>1, NothingIsNoRow
      <4>3. QED
        BY <1>1, <3>1, <4>1, <4>2, AdvancedHolds
    <3>3. CASE Inserts(c) /\ tx[job[c].page] # Nothing
      BY <1>3, <3>3 DEF Inserts, Inserted
    <3>4. CASE Writes(c)
      <4>1. /\ Advanced(c) /\ Written(c) \in Row /\ pc[c] = "save"
            /\ tx' = [tx EXCEPT ![job[c].page] = Written(c)]
        BY <3>4 DEF Writes
      <4>2. /\ tx'[job[c].page] = Written(c) /\ tx'[job[c].page] # Nothing
            /\ \A q \in Pages \ {job[c].page} : tx'[q] = tx[q]
        BY <3>1, <4>1, NothingIsNoRow
      <4>3. Content(job[c].loaded) = Content(tx[job[c].page])
        BY <1>1, <4>1 DEF SyncLoaded
      <4>4. Content(tx'[job[c].page]) = Content(job[c].todo[job[c].page])
        <5>1. tx[job[c].page] \in Row /\ job[c].loaded \in Row
          BY <1>1, <3>1, <3>4 DEF Writes, Typed, Matches, PageMatches
        <5>2. \A q \in Pages : q = job[c].page => Updating(c, q)
          <6>1. /\ Written(c) = Changed(job[c].todo[job[c].page], job[c].loaded,
                                        tx[job[c].page])
                /\ DOMAIN tx[job[c].page] = {"type", "amount", "amountIncludesVat",
                                             "vatType", "category", "status"}
            BY <5>1, SameContent DEF Written
          <6>2. \A f \in DOMAIN tx[job[c].page] :
                    Written(c)[f] = IF job[c].todo[job[c].page][f] # job[c].loaded[f]
                                    THEN job[c].todo[job[c].page][f]
                                    ELSE tx[job[c].page][f]
            BY <6>1 DEF Changed
          <6>3. QED
            BY <3>1, <3>4, <4>1, <4>2, <5>1, <6>1, <6>2 DEF Updating
        <5>3. QED
          BY <1>1, <3>1, <4>3, <5>2, UpdateContent
      <4>5. QED
        BY <1>1, <3>1, <4>1, <4>2, <4>4, AdvancedHolds
    <3>5. QED
      BY <2>4, <3>2, <3>3, <3>4
  <2>5. QED
    BY <1>1, <1>5, <2>1, <2>2, <2>3, <2>4
       DEF Acts, Asks, Reads, Books, Typed, Matches, PhaseMatches
<1>6. QED
  BY <1>1, <1>3, <1>4, <1>5, OwnSteps

LEMMA SyncLoadedStep ==
    ASSUME SyncInvariant, [Next]_vars, NEW c \in Syncs, Sole(c)
    PROVE  SyncLoaded(c)'
<1>1. Typed /\ Typed' /\ c \in Calls /\ SyncLoaded(c)
  BY SyncIsMade, NextCases DEF SyncInvariant, Base
<1>2. SUFFICES ASSUME pc'[c] = "save"
               PROVE  Content(job'[c].loaded) = Content(tx'[job'[c].page])
  BY DEF SyncLoaded
<1>3. CASE Acts(c)
  BY <1>1, <1>2, <1>3, LoadsRow
<1>4. CASE ~ Acts(c) /\ pc'[c] = pc[c] /\ job'[c] = job[c]
  <2>1. job[c].page \in Pages
    BY <1>1, <1>2, <1>4 DEF Typed, Matches, PageMatches, Remaining
  <2>2. tx'[job[c].page] = tx[job[c].page]
    BY <1>2, <1>4, <2>1, OthersAfter
  <2>3. QED
    BY <1>1, <1>2, <1>4, <2>2 DEF SyncLoaded
<1>5. QED
  BY <1>1, <1>2, <1>3, <1>4, OwnSteps

\* A sync that has just been made holds nothing.
LEMMA NewSyncStep ==
    ASSUME Base, Base', [Next]_vars, NEW c \in Syncs', c \notin Syncs
    PROVE  /\ \A p \in Pages : SyncHolds(c, p)'
           /\ SyncLoaded(c)' /\ AfterSync(c)'
<1>1. /\ c \in Calls /\ job'[c].kind = "sync" /\ job[c].kind # "sync"
      /\ pc'[c] # "idle" /\ Typed /\ Typed'
  <2>1. c \in Calls /\ job'[c].kind = "sync" /\ job[c].kind # "sync" /\ Typed /\ Typed'
    BY DEF Syncs, Base
  <2>2. pc'[c] = "idle" => job'[c].kind = "none"
    BY <2>1 DEF Typed, Matches, PhaseMatches, NoJob
  <2>3. QED
    BY <2>1, <2>2
<1>2. IsMade(c)
  BY <1>1, Moves DEF GoesOn
<1>3. Asks(c)
  BY <1>1, <1>2, OwnSteps, ActsRuns DEF IsMade, Crashes, Dies
<1>4. /\ pc'[c] = "fetch" /\ job'[c].cursor = 0 /\ answer'[c] = "none"
      /\ Remaining(job'[c]) = {}
  BY <1>1, <1>3 DEF Asks
<1>5. ASSUME NEW p \in Pages PROVE SyncHolds(c, p)'
  <2>1. job'[c].todo[p] = Nothing /\ ~ (p <= 0)
    BY <1>4, PagesType DEF Remaining
  <2>2. QED
    BY <1>4, <2>1 DEF SyncHolds
<1>6. AfterSync(c)'
  BY <1>1, <1>4 DEF AfterSync, Base, Ordered, Generates
<1>7. QED
  BY <1>4, <1>5, <1>6 DEF SyncLoaded

\* A sync that overlapped nothing and succeeded left a row of every page that
\* was parseable throughout, with something the page has been since; what the
\* generations after it do to the rows does not change that.
THEOREM SyncsAreComplete == Spec => []SyncComplete
<1>1. Init => SyncInvariant
  <2>1. Init => \A c \in Calls : job[c].kind = "none"
    BY DEF Init, NoJob
  <2>2. QED
    BY <2>1, InitBase DEF SyncInvariant, Syncs
<1>2. SyncInvariant /\ [Next]_vars => SyncInvariant'
  <2> SUFFICES ASSUME SyncInvariant, [Next]_vars PROVE SyncInvariant'
    OBVIOUS
  <2>1. Base /\ Base' /\ Typed
    BY OrderedInductive DEF SyncInvariant, Base
  <2>2. ASSUME NEW c \in Syncs', Sole(c)'
        PROVE  /\ \A p \in Pages : Throughout(c, p)' => SyncHolds(c, p)'
               /\ SyncLoaded(c)' /\ AfterSync(c)'
    <3>1. CASE c \notin Syncs
      BY <2>1, <3>1, NewSyncStep
    <3>2. CASE c \in Syncs
      <4>1. Sole(c)
        BY <2>1, <2>2, <3>2, SoleStays
      <4>2. \A p \in Pages : Throughout(c, p)' => Throughout(c, p)
        BY <2>1, <3>2, SinceGrows
      <4>3. QED
        BY <3>2, <4>1, <4>2, SyncHoldsStep, SyncLoadedStep, AfterSyncStep
    <3>3. QED
      BY <3>1, <3>2
  <2>3. QED
    BY <2>1, <2>2 DEF SyncInvariant
<1>3. SyncInvariant => SyncComplete
  BY DEF SyncInvariant, SyncHolds, Sole, Throughout, Fresh, Since, SyncComplete
<1>4. QED
  BY <1>1, <1>2, <1>3, PTL DEF Spec

-----------------------------------------------------------------------------
(* Sums over finite sets.                                                  *)

\* Induction over numbers and over finite sets, for sets instead of predicates.
LEMMA EveryNumber ==
    ASSUME NEW G, 0 \in G, \A n \in Nat : n \in G => n + 1 \in G
    PROVE  \A n \in Nat : n \in G
<1> DEFINE Bad == Nat \ G
<1>1. ASSUME Bad # {} PROVE FALSE
  <2>1. PICK n \in Bad : \A y \in Bad : ~ (<<y, n>> \in OpToRel(<, Nat))
    BY <1>1, NatLessThanWellFounded, WFMin, Zenon
  <2>2. \A y \in Bad : ~ (y < n)
    BY <2>1 DEF OpToRel
  <2>3. n # 0 /\ n \in Nat
    OBVIOUS
  <2>4. n - 1 \in Nat /\ n - 1 < n /\ (n - 1) + 1 = n
    BY <2>3
  <2>5. n - 1 \in G
    BY <2>2, <2>4
  <2>6. n \in G
    BY <2>4, <2>5
  <2>7. QED
    BY <2>6
<1>2. QED
  BY <1>1

LEMMA EveryPart ==
    ASSUME NEW S, IsFiniteSet(S), NEW G, {} \in G,
           \A T \in SUBSET S : \A x \in S \ T : T \in G => T \cup {x} \in G
    PROVE  \A T \in SUBSET S : T \in G
<1> DEFINE N == {n \in Nat : \A T \in SUBSET S : Cardinality(T) = n => T \in G}
<1>1. \A T \in SUBSET S : IsFiniteSet(T) /\ Cardinality(T) \in Nat
  BY FS_Subset, FS_CardinalityType
<1>2. 0 \in N
  BY <1>1, FS_EmptySet
<1>3. ASSUME NEW n \in Nat, n \in N PROVE n + 1 \in N
  <2>1. ASSUME NEW T \in SUBSET S, Cardinality(T) = n + 1 PROVE T \in G
    <3>0. IsFiniteSet(T) /\ n \in Nat
      BY <1>1
    <3>1. T # {}
      BY <3>0, <2>1, FS_EmptySet, n + 1 # 0
    <3>2. PICK x \in T : TRUE
      BY <3>1
    <3>3. Cardinality(T \ {x}) = n
      <4>1. Cardinality(T \ {x}) = Cardinality(T) - 1
        BY <3>0, FS_RemoveElement, Zenon
      <4>2. QED
        BY <2>1, <4>1
    <3>4. T \ {x} \in G /\ T \ {x} \in SUBSET S /\ x \in S \ (T \ {x})
      BY <1>3, <3>3
    <3>5. (T \ {x}) \cup {x} \in G
      BY <3>4
    <3>6. (T \ {x}) \cup {x} = T
      OBVIOUS
    <3>7. QED
      BY <3>5, <3>6
  <2>2. QED
    BY <2>1
<1>4. \A n \in Nat : n \in N
  <2> HIDE DEF N
  <2>1. QED
    BY <1>2, <1>3, EveryNumber
<1>5. QED
  BY <1>1, <1>4

\* A sum over a finite set, as MapThenSumSet folds it.
Chosen(s) == CHOOSE x \in s : TRUE

IsSum(g, S, F) ==
    F = [s \in SUBSET S |-> IF s = {} THEN 0 ELSE g[Chosen(s)] + F[s \ {Chosen(s)}]]

LEMMA ChosenIn == ASSUME NEW s, s # {} PROVE Chosen(s) \in s
  BY DEF Chosen

LEMMA SumExists ==
    ASSUME NEW S, IsFiniteSet(S), NEW g
    PROVE  \E F : IsSum(g, S, F)
<1> DEFINE Small(n) == {s \in SUBSET S : Cardinality(s) <= n}
           IsPart(n, F) == F = [s \in Small(n) |->
              IF s = {} THEN 0 ELSE g[Chosen(s)] + F[s \ {Chosen(s)}]]
           N == {n \in Nat : \E F : IsPart(n, F)}
<1>1. \A T \in SUBSET S : IsFiniteSet(T) /\ Cardinality(T) \in Nat
  BY FS_Subset, FS_CardinalityType
<1>2. \A T \in SUBSET S : T # {} => /\ Cardinality(T \ {Chosen(T)}) = Cardinality(T) - 1
                                    /\ T \ {Chosen(T)} \in SUBSET S
  BY <1>1, ChosenIn, FS_RemoveElement
<1>3. 0 \in N
  <2>1. Small(0) = {{}}
    BY <1>1, FS_EmptySet
  <2>2. IsPart(0, [s \in Small(0) |-> 0])
    BY <2>1
  <2>3. QED
    BY <2>2
<1>4. ASSUME NEW n \in Nat, n \in N PROVE n + 1 \in N
  <2>1. PICK F : IsPart(n, F)
    BY <1>4
  <2> DEFINE H == [s \in Small(n + 1) |->
                     IF s = {} THEN 0 ELSE g[Chosen(s)] + F[s \ {Chosen(s)}]]
  <2>2. ASSUME NEW s \in Small(n + 1), s # {}
        PROVE  F[s \ {Chosen(s)}] = H[s \ {Chosen(s)}]
    <3>1. PICK t : t = s \ {Chosen(s)}
      OBVIOUS
    <3>2. t \in Small(n) /\ t \in Small(n + 1)
      BY <1>1, <1>2, <2>2, <3>1
    <3>3. F[t] = IF t = {} THEN 0 ELSE g[Chosen(t)] + F[t \ {Chosen(t)}]
      BY <2>1, <3>2
    <3>4. H[t] = IF t = {} THEN 0 ELSE g[Chosen(t)] + F[t \ {Chosen(t)}]
      BY <3>2
    <3>5. QED
      BY <3>1, <3>3, <3>4
  <2>3. IsPart(n + 1, H)
    <3>1. \A s \in Small(n + 1) :
            H[s] = IF s = {} THEN 0 ELSE g[Chosen(s)] + H[s \ {Chosen(s)}]
      BY <2>2
    <3> HIDE DEF Small
    <3>2. H = [s \in Small(n + 1) |-> H[s]]
      OBVIOUS
    <3> HIDE DEF H
    <3>3. QED
      BY <3>1, <3>2
  <2>4. QED
    <3> HIDE DEF IsPart
    <3>1. QED
      BY <2>3
<1>5. \A n \in Nat : n \in N
  <2> HIDE DEF N
  <2>1. QED
    BY <1>3, <1>4, EveryNumber
<1>6. Cardinality(S) \in Nat /\ Small(Cardinality(S)) = SUBSET S
  BY <1>1, FS_Subset, FS_CardinalityType
<1>7. PICK F : IsPart(Cardinality(S), F)
  BY <1>5, <1>6
<1>8. QED
  BY <1>6, <1>7 DEF IsSum

LEMMA EveryBySize ==
    ASSUME NEW S, IsFiniteSet(S), NEW G,
           \A U \in SUBSET S :
              (\A V \in SUBSET S : Cardinality(V) < Cardinality(U) => V \in G) => U \in G
    PROVE  \A U \in SUBSET S : U \in G
<1> DEFINE N == {n \in Nat : \A U \in SUBSET S : Cardinality(U) < n => U \in G}
<1>1. \A U \in SUBSET S : IsFiniteSet(U) /\ Cardinality(U) \in Nat
  BY FS_Subset, FS_CardinalityType
<1>2. 0 \in N
  BY <1>1
<1>3. ASSUME NEW n \in Nat, n \in N PROVE n + 1 \in N
  <2>1. ASSUME NEW U \in SUBSET S, Cardinality(U) < n + 1 PROVE U \in G
    <3>1. ASSUME NEW V \in SUBSET S, Cardinality(V) < Cardinality(U) PROVE V \in G
      <4>1. Cardinality(V) < n
        BY <1>1, <2>1, <3>1
      <4>2. QED
        BY <1>3, <4>1
    <3>2. QED
      BY <3>1
  <2>2. QED
    BY <2>1
<1>4. \A n \in Nat : n \in N
  <2> HIDE DEF N
  <2>1. QED
    BY <1>2, <1>3, EveryNumber
<1>5. ASSUME NEW U \in SUBSET S PROVE U \in G
  <2>1. Cardinality(U) + 1 \in N /\ Cardinality(U) < Cardinality(U) + 1
    BY <1>1, <1>4
  <2>2. QED
    BY <2>1
<1>6. QED
  BY <1>5

LEMMA Smaller ==
    ASSUME NEW S, IsFiniteSet(S), NEW U \in SUBSET S, NEW x \in U
    PROVE  U \ {x} \in SUBSET S /\ Cardinality(U \ {x}) < Cardinality(U)
<1>1. IsFiniteSet(U) /\ Cardinality(U) \in Nat
  BY FS_Subset, FS_CardinalityType
<1>2. Cardinality(U \ {x}) = Cardinality(U) - 1
  BY <1>1, FS_RemoveElement, Zenon
<1>3. QED
  BY <1>1, <1>2

LEMMA SumStep ==
    ASSUME NEW S, NEW g, NEW F, IsSum(g, S, F)
    PROVE  /\ F[{}] = 0
           /\ \A U \in SUBSET S : U # {} => F[U] = g[Chosen(U)] + F[U \ {Chosen(U)}]
<1>1. \A U \in SUBSET S :
         F[U] = IF U = {} THEN 0 ELSE g[Chosen(U)] + F[U \ {Chosen(U)}]
  BY Zenon DEF IsSum
<1>2. QED
  BY <1>1

LEMMA SumType ==
    ASSUME NEW S, IsFiniteSet(S), NEW g, \A x \in S : g[x] \in Int, NEW F, IsSum(g, S, F)
    PROVE  \A U \in SUBSET S : F[U] \in Int
<1> DEFINE G == {U \in SUBSET S : F[U] \in Int}
<1>1. ASSUME NEW U \in SUBSET S,
             \A V \in SUBSET S : Cardinality(V) < Cardinality(U) => V \in G
      PROVE  U \in G
  <2>1. CASE U = {}
    BY <2>1, SumStep
  <2>2. CASE U # {}
    <3>1. PICK y \in U : y = Chosen(U)
      BY <2>2, ChosenIn
    <3>2. F[U \ {y}] \in Int
      BY <1>1, Smaller
    <3>3. F[U] = g[y] + F[U \ {y}]
      BY <2>2, <3>1, SumStep
    <3>4. QED
      BY <3>2, <3>3
  <2>3. QED
    BY <2>1, <2>2
<1>2. \A U \in SUBSET S : U \in G
  <2> HIDE DEF G
  <2>1. QED
    BY <1>1, EveryBySize
<1>3. QED
  BY <1>2

\* The order does not matter.
LEMMA SumTakesAny ==
    ASSUME NEW S, IsFiniteSet(S), NEW g, \A x \in S : g[x] \in Int, NEW F, IsSum(g, S, F)
    PROVE  \A U \in SUBSET S : \A x \in U : F[U] = g[x] + F[U \ {x}]
<1> DEFINE G == {U \in SUBSET S : \A x \in U : F[U] = g[x] + F[U \ {x}]}
<1>1. ASSUME NEW U \in SUBSET S,
             \A V \in SUBSET S : Cardinality(V) < Cardinality(U) => V \in G
      PROVE  U \in G
  <2>1. ASSUME NEW x \in U PROVE F[U] = g[x] + F[U \ {x}]
    <3>1. PICK y \in U : y = Chosen(U)
      BY ChosenIn
    <3>2. F[U] = g[y] + F[U \ {y}]
      BY <3>1, SumStep
    <3>3. CASE x = y
      BY <3>2, <3>3
    <3>4. CASE x # y
      <4>1. U \ {y} \in G /\ U \ {x} \in G
        BY <1>1, Smaller
      <4>2. PICK rest : rest = U \ {x, y}
        OBVIOUS
      <4>3. (U \ {y}) \ {x} = rest /\ (U \ {x}) \ {y} = rest
        BY <4>2
      <4>4. F[U \ {y}] = g[x] + F[rest]
        BY <3>4, <4>1, <4>3
      <4>5. F[U \ {x}] = g[y] + F[rest]
        BY <3>4, <4>1, <4>3
      <4>6. F[rest] \in Int /\ g[x] \in Int /\ g[y] \in Int
        BY <4>2, SumType
      <4>7. QED
        BY <3>2, <4>4, <4>5, <4>6
    <3>5. QED
      BY <3>3, <3>4
  <2>2. QED
    BY <2>1
<1>2. \A U \in SUBSET S : U \in G
  <2> HIDE DEF G
  <2>1. QED
    BY <1>1, EveryBySize
<1>3. QED
  BY <1>2

\* What is summed is what counts.
LEMMA SumsAgree ==
    ASSUME NEW S, IsFiniteSet(S), NEW T \in SUBSET S, NEW g, NEW h,
           \A x \in T : g[x] = h[x],
           NEW F, IsSum(g, S, F), NEW H, IsSum(h, T, H)
    PROVE  \A U \in SUBSET T : F[U] = H[U]
<1> DEFINE G == {U \in SUBSET T : F[U] = H[U]}
<1>0. IsFiniteSet(T)
  BY FS_Subset
<1>f. \A U \in SUBSET S :
         F[U] = IF U = {} THEN 0 ELSE g[Chosen(U)] + F[U \ {Chosen(U)}]
  BY Zenon DEF IsSum
<1>h. \A U \in SUBSET T :
         H[U] = IF U = {} THEN 0 ELSE h[Chosen(U)] + H[U \ {Chosen(U)}]
  BY Zenon DEF IsSum
<1>1. ASSUME NEW U \in SUBSET T,
             \A V \in SUBSET T : Cardinality(V) < Cardinality(U) => V \in G
      PROVE  U \in G
  <2>1. CASE U = {}
    BY <2>1, <1>f, <1>h
  <2>2. CASE U # {}
    <3>1. PICK y \in U : y = Chosen(U)
      BY <2>2, ChosenIn
    <3>2. F[U \ {y}] = H[U \ {y}]
      BY <1>0, <1>1, Smaller
    <3>3. U \in SUBSET S /\ g[y] = h[y]
      OBVIOUS
    <3>4. F[U] = g[y] + F[U \ {y}] /\ H[U] = h[y] + H[U \ {y}]
      <4>1. F[U] = g[y] + F[U \ {y}]
        BY <2>2, <3>1, <3>3, <1>f
      <4>2. H[U] = h[y] + H[U \ {y}]
        BY <2>2, <3>1, <1>h
      <4>3. QED
        BY <4>1, <4>2
    <3>5. QED
      BY <3>2, <3>3, <3>4
  <2>3. QED
    BY <2>1, <2>2
<1>2. \A U \in SUBSET T : U \in G
  <2> HIDE DEF G
  <2>1. QED
    BY <1>0, <1>1, EveryBySize
<1>3. QED
  BY <1>2

\* The sum of g over S.
Sum(g, S) == (CHOOSE F : IsSum(g, S, F))[S]

LEMMA SumOf ==
    ASSUME NEW S, IsFiniteSet(S), NEW g, \A x \in S : g[x] \in Int
    PROVE  /\ Sum(g, S) \in Int
           /\ S = {} => Sum(g, S) = 0
           /\ \A x \in S : Sum(g, S) = g[x] + Sum(g, S \ {x})
<1>1. PICK F : F = CHOOSE H : IsSum(g, S, H)
  OBVIOUS
<1>2. IsSum(g, S, F) /\ Sum(g, S) = F[S]
  BY <1>1, SumExists DEF Sum
<1>3. F[S] \in Int
  BY <1>2, SumType
<1>4. S = {} => F[S] = 0
  BY <1>2, SumStep
<1>5. ASSUME NEW x \in S PROVE F[S] = g[x] + Sum(g, S \ {x})
  <2>1. PICK T \in SUBSET S : T = S \ {x}
    OBVIOUS
  <2>2. IsFiniteSet(T)
    BY FS_Subset
  <2>3. PICK H : H = CHOOSE K : IsSum(g, T, K)
    OBVIOUS
  <2>4. IsSum(g, T, H) /\ Sum(g, T) = H[T]
    BY <2>2, <2>3, SumExists DEF Sum
  <2>5. \A U \in SUBSET T : F[U] = H[U]
    BY <1>2, <2>4, SumsAgree
  <2>6. F[T] = Sum(g, T)
    BY <2>4, <2>5
  <2>7. F[S] = g[x] + F[S \ {x}]
    BY <1>2, SumTakesAny
  <2>8. QED
    BY <2>1, <2>6, <2>7
<1>6. QED
  BY <1>2, <1>3, <1>4, <1>5

LEMMA SumEqual ==
    ASSUME NEW S, IsFiniteSet(S), NEW g, NEW h, \A x \in S : g[x] = h[x]
    PROVE  Sum(g, S) = Sum(h, S)
<1>1. PICK F : F = CHOOSE K : IsSum(g, S, K)
  OBVIOUS
<1>2. IsSum(g, S, F) /\ Sum(g, S) = F[S]
  BY <1>1, SumExists DEF Sum
<1>3. PICK H : H = CHOOSE K : IsSum(h, S, K)
  OBVIOUS
<1>4. IsSum(h, S, H) /\ Sum(h, S) = H[S]
  BY <1>3, SumExists DEF Sum
<1>5. S \in SUBSET S
  OBVIOUS
<1>6. \A U \in SUBSET S : F[U] = H[U]
  BY <1>2, <1>4, <1>5, SumsAgree
<1>7. QED
  BY <1>2, <1>4, <1>5, <1>6

\* Any fold with the same recursion is the same sum.
LEMMA SumIs ==
    ASSUME NEW S, IsFiniteSet(S), NEW g, NEW F, IsSum(g, S, F)
    PROVE  F[S] = Sum(g, S)
<1>1. PICK H : H = CHOOSE K : IsSum(g, S, K)
  OBVIOUS
<1>2. IsSum(g, S, H) /\ Sum(g, S) = H[S]
  BY <1>1, SumExists DEF Sum
<1>3. S \in SUBSET S /\ \A x \in S : g[x] = g[x]
  OBVIOUS
<1>4. \A U \in SUBSET S : F[U] = H[U]
  BY <1>2, <1>3, SumsAgree
<1>5. QED
  BY <1>2, <1>3, <1>4

LEMMA SumUnion ==
    ASSUME NEW A, IsFiniteSet(A), NEW B, IsFiniteSet(B), A \cap B = {},
           NEW g, \A x \in A \cup B : g[x] \in Int
    PROVE  Sum(g, A \cup B) = Sum(g, A) + Sum(g, B)
<1> DEFINE G == {C \in SUBSET A : Sum(g, C \cup B) = Sum(g, C) + Sum(g, B)}
<1>1. Sum(g, B) \in Int /\ \A C \in SUBSET A : Sum(g, C) \in Int
  BY SumOf, FS_Subset
<1>2. {} \in G
  <2>1. Sum(g, {}) = 0
    BY SumOf, FS_EmptySet
  <2>2. {} \cup B = B
    OBVIOUS
  <2>3. QED
    BY <1>1, <2>1, <2>2
<1>3. ASSUME NEW C \in SUBSET A, NEW x \in A \ C, C \in G PROVE C \cup {x} \in G
  <2>1. PICK D \in SUBSET A : D = C \cup {x}
    OBVIOUS
  <2>2. IsFiniteSet(D) /\ IsFiniteSet(D \cup B)
    BY FS_Subset, FS_Union
  <2>3. x \in D /\ D \ {x} = C /\ x \in D \cup B /\ (D \cup B) \ {x} = C \cup B
    BY <2>1
  <2>4. Sum(g, D) = g[x] + Sum(g, C)
    BY <2>2, <2>3, SumOf
  <2>5. Sum(g, D \cup B) = g[x] + Sum(g, C \cup B)
    <3>1. PICK U : U = D \cup B
      OBVIOUS
    <3>2. x \in U /\ U \ {x} = C \cup B /\ IsFiniteSet(U) /\ \A y \in U : g[y] \in Int
      BY <2>2, <2>3, <3>1
    <3>3. Sum(g, U) = g[x] + Sum(g, U \ {x})
      BY <3>2, SumOf
    <3>4. QED
      BY <3>1, <3>2, <3>3
  <2>6. Sum(g, C \cup B) = Sum(g, C) + Sum(g, B) /\ g[x] \in Int
    BY <1>3
  <2>7. Sum(g, D \cup B) = Sum(g, D) + Sum(g, B)
    BY <1>1, <2>4, <2>5, <2>6
  <2>8. QED
    BY <2>1, <2>7
<1>4. \A C \in SUBSET A : C \in G
  <2> HIDE DEF G
  <2>1. QED
    BY <1>2, <1>3, EveryPart
<1>5. QED
  BY <1>4

LEMMA SumNegated ==
    ASSUME NEW S, IsFiniteSet(S), NEW g, NEW h,
           \A x \in S : g[x] \in Int /\ h[x] = - g[x]
    PROVE  Sum(h, S) = - Sum(g, S)
<1> DEFINE G == {C \in SUBSET S : Sum(h, C) = - Sum(g, C)}
<1>1. \A C \in SUBSET S : IsFiniteSet(C) /\ Sum(g, C) \in Int /\ Sum(h, C) \in Int
  <2>1. \A x \in S : h[x] \in Int
    OBVIOUS
  <2>2. QED
    BY <2>1, SumOf, FS_Subset
<1>2. {} \in G
  BY SumOf, FS_EmptySet
<1>3. ASSUME NEW C \in SUBSET S, NEW x \in S \ C, C \in G PROVE C \cup {x} \in G
  <2>1. PICK D \in SUBSET S : D = C \cup {x}
    OBVIOUS
  <2>2. x \in D /\ D \ {x} = C /\ g[x] \in Int /\ h[x] = - g[x] /\ IsFiniteSet(D)
    BY <2>1, <1>1
  <2>3. Sum(g, D) = g[x] + Sum(g, C)
    BY <2>2, SumOf
  <2>4. Sum(h, D) = h[x] + Sum(h, C)
    <3>1. \A y \in D : h[y] \in Int
      OBVIOUS
    <3>2. QED
      BY <2>2, <3>1, SumOf
  <2>5. Sum(h, D) = - Sum(g, D)
    BY <1>1, <1>3, <2>2, <2>3, <2>4
  <2>6. QED
    BY <2>1, <2>5
<1>4. \A C \in SUBSET S : C \in G
  <2> HIDE DEF G
  <2>1. QED
    BY <1>2, <1>3, EveryPart
<1>5. QED
  BY <1>4

LEMMA SumZero ==
    ASSUME NEW S, IsFiniteSet(S), NEW g, \A x \in S : g[x] = 0
    PROVE  Sum(g, S) = 0
<1>1. Sum(g, S) = - Sum(g, S)
  <2>1. \A x \in S : g[x] \in Int /\ g[x] = - g[x]
    OBVIOUS
  <2>2. QED
    BY <2>1, SumNegated
<1>2. Sum(g, S) \in Int
  BY SumOf
<1>3. QED
  BY <1>1, <1>2

\* A sum may be taken key by key.
Keyed(L, key, a) == {l \in L : key[l] = a}

LEMMA SumByKey ==
    ASSUME NEW L, IsFiniteSet(L), NEW K, IsFiniteSet(K), NEW key,
           \A l \in L : key[l] \in K,
           NEW v, \A l \in L : v[l] \in Int,
           NEW s, \A a \in K : s[a] = Sum(v, Keyed(L, key, a))
    PROVE  Sum(s, K) = Sum(v, L)
<1> DEFINE Of(J) == {l \in L : key[l] \in J}
           G == {J \in SUBSET K : Sum(s, J) = Sum(v, Of(J))}
<1>1. \A J : IsFiniteSet(Of(J)) /\ Sum(v, Of(J)) \in Int
  BY SumOf, FS_Subset
<1>2. \A a \in K : s[a] = Sum(v, Of({a}))
  <2>1. ASSUME NEW a \in K PROVE Of({a}) = Keyed(L, key, a)
    BY DEF Keyed
  <2>2. QED
    BY <2>1
<1>3. \A a \in K : s[a] \in Int
  <2> HIDE DEF Of
  <2>1. QED
    BY <1>1, <1>2
<1>4. {} \in G
  <2>1. Of({}) = {}
    OBVIOUS
  <2>2. QED
    BY <2>1, SumOf, FS_EmptySet
<1>5. ASSUME NEW J \in SUBSET K, NEW a \in K \ J, J \in G PROVE J \cup {a} \in G
  <2>1. PICK I \in SUBSET K : I = J \cup {a}
    OBVIOUS
  <2>2. Of(I) = Of({a}) \cup Of(J) /\ Of({a}) \cap Of(J) = {}
    BY <2>1
  <2>3. \A l \in Of({a}) \cup Of(J) : v[l] \in Int
    OBVIOUS
  <2>4. Sum(s, J) = Sum(v, Of(J))
    BY <1>5
  <2> HIDE DEF Of
  <2>5. Sum(v, Of(I)) = Sum(v, Of({a})) + Sum(v, Of(J))
    <3>1. PICK P, Q : P = Of({a}) /\ Q = Of(J)
      OBVIOUS
    <3>2. /\ IsFiniteSet(P) /\ IsFiniteSet(Q) /\ P \cap Q = {}
          /\ \A l \in P \cup Q : v[l] \in Int
      BY <1>1, <2>2, <2>3, <3>1
    <3>3. Sum(v, P \cup Q) = Sum(v, P) + Sum(v, Q)
      BY <3>2, SumUnion
    <3>4. QED
      BY <2>2, <3>1, <3>3
  <2>6. a \in I /\ I \ {a} = J /\ IsFiniteSet(I) /\ \A b \in I : s[b] \in Int
    BY <1>3, <2>1, FS_Subset
  <2>7. Sum(s, I) = s[a] + Sum(s, J)
    BY <2>6, SumOf
  <2>8. Sum(s, I) = Sum(v, Of(I))
    BY <1>2, <2>4, <2>5, <2>7
  <2>9. QED
    BY <2>1, <2>8
<1>6. \A J \in SUBSET K : J \in G
  <2> HIDE DEF G
  <2>1. QED
    BY <1>4, <1>5, EveryPart
<1>7. Sum(s, K) = Sum(v, Of(K)) /\ Of(K) = L
  BY <1>6
<1>8. QED
  BY <1>7

-----------------------------------------------------------------------------
(* The trial balance of a set of entries.                                  *)

\* Entries of at most three lines each.
Bookable(es) ==
    /\ IsFiniteSet(es)
    /\ \A e \in es :
          DOMAIN e.lines \subseteq 1 .. 3 /\ \A i \in DOMAIN e.lines : IsLine(e.lines[i])

\* Every line of the entries, and what it adds to debits less credits.
AllLines(es) == {l \in es \X (1 .. 3) : l[2] \in DOMAIN l[1].lines}
LineAt(l) == l[1].lines[l[2]]
Signed(line) == IF line.side = "DEBIT" THEN line.amount ELSE - line.amount
Weights(es) == [l \in AllLines(es) |-> Signed(LineAt(l))]

LEMMA AllLinesTyped ==
    ASSUME NEW es, Bookable(es)
    PROVE  /\ IsFiniteSet(AllLines(es))
           /\ \A l \in AllLines(es) : IsLine(LineAt(l)) /\ Weights(es)[l] \in Int
<1>1. IsFiniteSet(1 .. 3)
  <2>1. \A m, n \in Int : IsFiniteSet(m .. n)
    BY FS_Interval
  <2>2. 1 \in Int /\ 3 \in Int
    OBVIOUS
  <2>3. QED
    BY <2>1, <2>2, Zenon
<1>2. IsFiniteSet(es \X (1 .. 3))
  BY <1>1, FS_Product DEF Bookable
<1>3. IsFiniteSet(AllLines(es))
  BY <1>2, FS_Subset DEF AllLines
<1>4. ASSUME NEW l \in AllLines(es) PROVE IsLine(LineAt(l)) /\ Weights(es)[l] \in Int
  <2>1. IsLine(LineAt(l))
    BY DEF AllLines, LineAt, Bookable
  <2>2. Weights(es)[l] = Signed(LineAt(l))
    BY DEF Weights
  <2>3. QED
    BY <2>1, <2>2 DEF IsLine, Signed
<1>5. QED
  BY <1>3, <1>4

\* The fold of the trial balance is a sum.
LEMMA BalanceIsSum ==
    ASSUME NEW es, Bookable(es), NEW a, NEW side,
           NEW g, \A l \in LinesOf(es, a, side) : g[l] = l[1].lines[l[2]].amount
    PROVE  Balance(es, a, side) = Sum(g, LinesOf(es, a, side))
<1>1. PICK S : S = LinesOf(es, a, side)
  OBVIOUS
<1>2. IsFiniteSet(S)
  <2>1. S \in SUBSET AllLines(es)
    BY <1>1 DEF LinesOf, AllLines
  <2>2. QED
    BY <2>1, AllLinesTyped, FS_Subset
<1>3. PICK F : IsSum(g, S, F)
  BY <1>2, SumExists
<1> DEFINE IsFold(H) ==
             H = [s \in SUBSET S |-> IF s = {} THEN 0
                    ELSE Chosen(s)[1].lines[Chosen(s)[2]].amount + H[s \ {Chosen(s)}]]
<1>4. \A s \in SUBSET S : s # {} => g[Chosen(s)] = Chosen(s)[1].lines[Chosen(s)[2]].amount
  BY <1>1, ChosenIn
<1>5. \A H : IsFold(H) <=> IsSum(g, S, H)
  BY <1>4 DEF IsSum
<1>6. PICK G : G = CHOOSE H : IsFold(H)
  OBVIOUS
<1>7. IsSum(g, S, G)
  <2> HIDE DEF IsFold
  <2>1. QED
    BY <1>3, <1>5, <1>6
<1>8. Balance(es, a, side) = G[S]
  BY <1>1, <1>6 DEF Balance, MapThenSumSet, MapThenFoldSet, Chosen
<1>9. QED
  BY <1>1, <1>2, <1>7, <1>8, SumIs

\* Debits less credits of an account.
LEMMA AccountBalance ==
    ASSUME NEW es, Bookable(es), NEW a
    PROVE  Balance(es, a, "DEBIT") - Balance(es, a, "CREDIT")
             = Sum(Weights(es), {l \in AllLines(es) : LineAt(l).account = a})
<1>1. PICK D, C : D = LinesOf(es, a, "DEBIT") /\ C = LinesOf(es, a, "CREDIT")
  OBVIOUS
<1>2. PICK w : w = Weights(es)
  OBVIOUS
<1>3. PICK g : g = [l \in C |-> l[1].lines[l[2]].amount]
  OBVIOUS
<1>4. \A l \in AllLines(es) : IsLine(LineAt(l)) /\ w[l] \in Int /\ w[l] = Signed(LineAt(l))
  BY <1>2, AllLinesTyped DEF Weights
<1>5. D \in SUBSET AllLines(es) /\ C \in SUBSET AllLines(es) /\ IsFiniteSet(D) /\ IsFiniteSet(C)
  <2>1. D \in SUBSET AllLines(es) /\ C \in SUBSET AllLines(es)
    BY <1>1 DEF LinesOf, AllLines
  <2>2. QED
    BY <2>1, AllLinesTyped, FS_Subset
<1>6. \A l \in D : w[l] = l[1].lines[l[2]].amount /\ LineAt(l).side = "DEBIT"
  BY <1>1, <1>4, <1>5 DEF LinesOf, LineAt, Signed
<1>7. \A l \in C : w[l] = - g[l] /\ g[l] \in Int /\ LineAt(l).side = "CREDIT"
  <2>1. \A l \in C : w[l] = - l[1].lines[l[2]].amount /\ l[1].lines[l[2]].amount \in Int
                     /\ LineAt(l).side = "CREDIT"
    BY <1>1, <1>4, <1>5 DEF LinesOf, LineAt, Signed, IsLine
  <2>2. QED
    BY <1>3, <2>1
<1>8. Balance(es, a, "DEBIT") = Sum(w, D)
  BY <1>1, <1>6, BalanceIsSum
<1>9. Balance(es, a, "CREDIT") = Sum(g, C)
  BY <1>1, <1>3, BalanceIsSum
<1>10. Sum(w, C) = - Sum(g, C)
  BY <1>5, <1>7, SumNegated
<1>11. Sum(w, D) \in Int /\ Sum(g, C) \in Int
  <2>1. \A l \in D : w[l] \in Int
    BY <1>4, <1>5
  <2>2. QED
    BY <2>1, <1>5, <1>7, SumOf
<1>12. Sum(w, D \cup C) = Sum(w, D) + Sum(w, C)
  <2>1. D \cap C = {} /\ \A l \in D \cup C : w[l] \in Int
    BY <1>4, <1>5, <1>6, <1>7
  <2>2. QED
    BY <2>1, <1>5, SumUnion
<1>13. D \cup C = {l \in AllLines(es) : LineAt(l).account = a}
  <2>1. \A l \in AllLines(es) : LineAt(l).side \in {"DEBIT", "CREDIT"}
    BY <1>4 DEF IsLine, Sides
  <2>2. QED
    BY <1>1, <2>1 DEF LinesOf, AllLines, LineAt
<1>14. QED
  BY <1>2, <1>8, <1>9, <1>10, <1>11, <1>12, <1>13

\* Debits less credits of an entry.
LEMMA EntryTotal ==
    ASSUME NEW es, Bookable(es), NEW e \in es
    PROVE  Sum(Weights(es), {l \in AllLines(es) : l[1] = e})
             = Total(e.lines, "DEBIT") - Total(e.lines, "CREDIT")
<1>1. PICK w : w = Weights(es)
  OBVIOUS
<1> DEFINE Of(n) == {l \in AllLines(es) : l[1] = e /\ l[2] <= n}
           at(i, side) == AmountAt(e.lines, i, side)
<1>2. \A n : IsFiniteSet(Of(n)) /\ Of(n) \subseteq AllLines(es)
  BY AllLinesTyped, FS_Subset
<1>3. \A l \in AllLines(es) : w[l] \in Int /\ w[l] = Signed(LineAt(l))
  BY <1>1, AllLinesTyped DEF Weights
<1>4. \A i \in 1 .. 3 : at(i, "DEBIT") \in Int /\ at(i, "CREDIT") \in Int
  BY DEF Bookable, IsLine, AmountAt
<1>5. ASSUME NEW i \in 1 .. 3
      PROVE  Sum(w, Of(i)) = Sum(w, Of(i - 1)) + (at(i, "DEBIT") - at(i, "CREDIT"))
  <2>1. CASE i \in DOMAIN e.lines
    <3>1. PICK l : l = <<e, i>>
      OBVIOUS
    <3>2. PICK N, M : N = Of(i) /\ M = Of(i - 1)
      OBVIOUS
    <3>3. l \in N /\ N \ {l} = M
      BY <2>1, <3>1, <3>2 DEF AllLines
    <3>4. IsFiniteSet(N) /\ \A x \in N : w[x] \in Int
      BY <1>2, <1>3, <3>2
    <3>5. Sum(w, N) = w[l] + Sum(w, M) /\ Sum(w, N) \in Int
      BY <3>3, <3>4, SumOf
    <3>6. Sum(w, M) \in Int
      <4>1. IsFiniteSet(M) /\ \A x \in M : w[x] \in Int
        BY <1>2, <1>3, <3>2
      <4>2. QED
        BY <4>1, SumOf
    <3>7. w[l] = at(i, "DEBIT") - at(i, "CREDIT")
      <4>1. l \in AllLines(es)
        BY <1>2, <3>2, <3>3
      <4>2. w[l] = Signed(e.lines[i])
        BY <1>3, <3>1, <4>1 DEF LineAt
      <4>3. IsLine(e.lines[i])
        BY <2>1 DEF Bookable
      <4>4. QED
        BY <2>1, <4>2, <4>3 DEF Signed, AmountAt, IsLine, Sides
    <3>8. w[l] \in Int
      BY <3>3, <3>4
    <3>9. QED
      BY <3>2, <3>5, <3>6, <3>7, <3>8
  <2>2. CASE i \notin DOMAIN e.lines
    <3>1. Of(i) = Of(i - 1)
      BY <2>2 DEF AllLines
    <3>2. Sum(w, Of(i - 1)) \in Int
      <4>1. PICK M : M = Of(i - 1)
        OBVIOUS
      <4>2. IsFiniteSet(M) /\ \A x \in M : w[x] \in Int
        BY <1>2, <1>3, <4>1
      <4>3. QED
        BY <4>1, <4>2, SumOf
    <3>3. at(i, "DEBIT") = 0 /\ at(i, "CREDIT") = 0
      BY <2>2 DEF AmountAt
    <3> HIDE DEF Of, at
    <3>4. QED
      BY <3>1, <3>2, <3>3
  <2>3. QED
    BY <2>1, <2>2
<1>6. Sum(w, Of(0)) = 0
  <2>1. Of(0) = {}
    BY DEF AllLines
  <2>2. QED
    BY <2>1, SumOf, FS_EmptySet
<1>7. Of(3) = {l \in AllLines(es) : l[1] = e}
  BY DEF AllLines
<1>8. /\ Sum(w, Of(1)) = at(1, "DEBIT") - at(1, "CREDIT")
      /\ Sum(w, Of(2)) = Sum(w, Of(1)) + (at(2, "DEBIT") - at(2, "CREDIT"))
      /\ Sum(w, Of(3)) = Sum(w, Of(2)) + (at(3, "DEBIT") - at(3, "CREDIT"))
  <2> HIDE DEF Of, at
  <2>1. /\ Sum(w, Of(1)) = Sum(w, Of(1 - 1)) + (at(1, "DEBIT") - at(1, "CREDIT"))
        /\ Sum(w, Of(2)) = Sum(w, Of(2 - 1)) + (at(2, "DEBIT") - at(2, "CREDIT"))
        /\ Sum(w, Of(3)) = Sum(w, Of(3 - 1)) + (at(3, "DEBIT") - at(3, "CREDIT"))
    BY <1>5
  <2>2. QED
    BY <1>4, <1>6, <2>1
<1>9. Sum(w, Of(3)) = Total(e.lines, "DEBIT") - Total(e.lines, "CREDIT")
  <2>1. /\ Total(e.lines, "DEBIT") = at(1, "DEBIT") + at(2, "DEBIT") + at(3, "DEBIT")
        /\ Total(e.lines, "CREDIT") = at(1, "CREDIT") + at(2, "CREDIT") + at(3, "CREDIT")
    BY DEF Total
  <2> HIDE DEF Of, at
  <2>2. QED
    BY <1>4, <1>8, <2>1
<1>10. QED
  BY <1>1, <1>7, <1>9

\* What the trial balance is off by.
Gap(es) ==
    LET tb == BuildTrialBalance(es)
    IN MapThenSumSet(LAMBDA a : tb[a].debit - tb[a].credit, DOMAIN tb)

LEMMA AccountsFinite ==
    ASSUME NEW es, Bookable(es)
    PROVE  /\ IsFiniteSet(Accounts(es))
           /\ \A l \in AllLines(es) : LineAt(l).account \in Accounts(es)
<1>1. ASSUME NEW l \in AllLines(es) PROVE LineAt(l).account \in Accounts(es)
  BY DEF Accounts, AllLines, LineAt
<1>2. ASSUME NEW a \in Accounts(es) PROVE \E l \in AllLines(es) : a = LineAt(l).account
  <2>1. PICK e \in es : \E i \in DOMAIN e.lines : a = e.lines[i].account
    BY DEF Accounts
  <2>2. PICK i \in DOMAIN e.lines : a = e.lines[i].account
    BY <2>1
  <2>3. <<e, i>> \in AllLines(es) /\ a = LineAt(<<e, i>>).account
    BY <2>2 DEF AllLines, LineAt, Bookable
  <2>4. QED
    BY <2>3
<1>3. PICK f : f = [l \in AllLines(es) |-> LineAt(l).account]
  OBVIOUS
<1>4. f \in Surjection(AllLines(es), Accounts(es))
  <2>1. f \in [AllLines(es) -> Accounts(es)]
    BY <1>1, <1>3
  <2>2. \A a \in Accounts(es) : \E l \in AllLines(es) : f[l] = a
    BY <1>2, <1>3
  <2>3. QED
    BY <2>1, <2>2 DEF Surjection
<1>5. IsFiniteSet(Accounts(es))
  BY <1>4, AllLinesTyped, FS_Surjection
<1>6. QED
  BY <1>1, <1>5

\* The trial balance is off by the signed sum of all lines.
LEMMA GapIsSum ==
    ASSUME NEW es, Bookable(es)
    PROVE  Gap(es) = Sum(Weights(es), AllLines(es))
<1>1. PICK A : A = Accounts(es)
  OBVIOUS
<1>2. IsFiniteSet(A)
  BY <1>1, AccountsFinite
<1> DEFINE net(a) == BuildTrialBalance(es)[a].debit - BuildTrialBalance(es)[a].credit
<1>3. PICK g : g = [a \in A |-> net(a)]
  OBVIOUS
<1>4. \A a \in A : net(a) = Balance(es, a, "DEBIT") - Balance(es, a, "CREDIT")
  BY <1>1 DEF BuildTrialBalance
<1>5. DOMAIN BuildTrialBalance(es) = A
  BY <1>1 DEF BuildTrialBalance
<1>6. PICK F : IsSum(g, A, F)
  BY <1>2, SumExists
<1> DEFINE IsFold(H) ==
             H = [s \in SUBSET A |-> IF s = {} THEN 0
                    ELSE net(Chosen(s)) + H[s \ {Chosen(s)}]]
<1>7. \A s \in SUBSET A : s # {} => g[Chosen(s)] = net(Chosen(s))
  <2> HIDE DEF net
  <2>1. QED
    BY <1>3, ChosenIn
<1>8. \A H : IsFold(H) <=> IsSum(g, A, H)
  <2> HIDE DEF net
  <2>1. QED
    BY <1>7 DEF IsSum
<1>9. PICK G : G = CHOOSE H : IsFold(H)
  OBVIOUS
<1>10. IsSum(g, A, G)
  <2> HIDE DEF IsFold
  <2>1. QED
    BY <1>6, <1>8, <1>9
<1>11. Gap(es) = G[A]
  BY <1>5, <1>9 DEF Gap, MapThenSumSet, MapThenFoldSet, Chosen
<1>12. G[A] = Sum(g, A)
  BY <1>2, <1>10, SumIs
<1>13. PICK key, w : key = [l \in AllLines(es) |-> LineAt(l).account] /\ w = Weights(es)
  OBVIOUS
<1>14. \A l \in AllLines(es) : key[l] \in A /\ key[l] = LineAt(l).account /\ w[l] \in Int
  BY <1>1, <1>13, AccountsFinite, AllLinesTyped
<1>15. \A a \in A : g[a] = Sum(w, Keyed(AllLines(es), key, a))
  <2>1. SUFFICES ASSUME NEW a \in A
                 PROVE  g[a] = Sum(w, Keyed(AllLines(es), key, a))
    OBVIOUS
  <2>2. Keyed(AllLines(es), key, a) = {l \in AllLines(es) : LineAt(l).account = a}
    BY <1>14 DEF Keyed
  <2>3. g[a] = Balance(es, a, "DEBIT") - Balance(es, a, "CREDIT")
    <3> HIDE DEF net
    <3>1. QED
      BY <1>3, <1>4
  <2>4. QED
    BY <1>13, <2>2, <2>3, AccountBalance
<1>16. Sum(g, A) = Sum(w, AllLines(es))
  <2>1. IsFiniteSet(AllLines(es))
    BY AllLinesTyped
  <2>2. PICK L : L = AllLines(es)
    OBVIOUS
  <2>3. /\ IsFiniteSet(L) /\ \A l \in L : key[l] \in A /\ w[l] \in Int
        /\ \A a \in A : g[a] = Sum(w, Keyed(L, key, a))
    BY <1>14, <1>15, <2>1, <2>2
  <2> HIDE DEF net, IsFold
  <2>4. Sum(g, A) = Sum(w, L)
    BY <1>2, <2>3, SumByKey
  <2>5. QED
    BY <2>2, <2>4
<1>17. QED
  BY <1>11, <1>12, <1>13, <1>16

\* ... that is, by what its entries are off by.
Off(e) == Total(e.lines, "DEBIT") - Total(e.lines, "CREDIT")

LEMMA OffType ==
    ASSUME NEW es, Bookable(es), NEW e \in es
    PROVE  Off(e) \in Int
<1>1. \A i \in 1 .. 3 : AmountAt(e.lines, i, "DEBIT") \in Int /\ AmountAt(e.lines, i, "CREDIT") \in Int
  BY DEF Bookable, IsLine, AmountAt
<1>2. QED
  BY <1>1 DEF Off, Total

LEMMA GapOfEntries ==
    ASSUME NEW es, Bookable(es), NEW g, \A e \in es : g[e] = Off(e)
    PROVE  Gap(es) = Sum(g, es)
<1>1. PICK L, w, key : /\ L = AllLines(es) /\ w = Weights(es)
                       /\ key = [l \in L |-> l[1]]
  OBVIOUS
<1>2. IsFiniteSet(L) /\ \A l \in L : w[l] \in Int /\ key[l] = l[1] /\ key[l] \in es
  BY <1>1, AllLinesTyped DEF AllLines
<1>3. ASSUME NEW e \in es PROVE g[e] = Sum(w, Keyed(L, key, e))
  <2>1. Keyed(L, key, e) = {l \in AllLines(es) : l[1] = e}
    BY <1>1, <1>2 DEF Keyed
  <2>2. QED
    BY <1>1, <2>1, EntryTotal DEF Off
<1>4. IsFiniteSet(es)
  BY DEF Bookable
<1>5. Sum(g, es) = Sum(w, L)
  BY <1>2, <1>3, <1>4, SumByKey
<1>6. QED
  BY <1>1, <1>5, GapIsSum

\* Entries that balance do not count.
LEMMA GapOfUnbalanced ==
    ASSUME NEW es, Bookable(es), NEW us \in SUBSET es, \A e \in es \ us : Off(e) = 0
    PROVE  Gap(es) = MapThenSumSet(Off, us)
<1>1. PICK g, bs : g = [e \in es |-> Off(e)] /\ bs = es \ us
  OBVIOUS
<1>2. IsFiniteSet(us) /\ IsFiniteSet(bs)
  BY <1>1, FS_Subset DEF Bookable
<1>3. (\A e \in es : g[e] = Off(e) /\ g[e] \in Int) /\ \A e \in bs : g[e] = 0
  BY <1>1, OffType
<1>4. Gap(es) = Sum(g, es)
  BY <1>3, GapOfEntries
<1>5. Sum(g, us \cup bs) = Sum(g, us) + Sum(g, bs)
  <2>1. us \cap bs = {} /\ \A e \in us \cup bs : g[e] \in Int
    BY <1>1, <1>3
  <2>2. QED
    BY <1>2, <2>1, SumUnion
<1>6. Sum(g, bs) = 0
  BY <1>2, <1>3, SumZero
<1>7. Sum(g, us) \in Int
  BY <1>2, <1>3, SumOf
<1>8. us \cup bs = es
  BY <1>1
<1> DEFINE IsFold(H) ==
             H = [s \in SUBSET us |-> IF s = {} THEN 0
                    ELSE Off(Chosen(s)) + H[s \ {Chosen(s)}]]
<1>9. \A s \in SUBSET us : s # {} => g[Chosen(s)] = Off(Chosen(s))
  BY <1>3, ChosenIn
<1>10. \A H : IsFold(H) <=> IsSum(g, us, H)
  BY <1>9 DEF IsSum
<1>11. PICK G : G = CHOOSE H : IsFold(H)
  OBVIOUS
<1>12. PICK F : IsSum(g, us, F)
  BY <1>2, SumExists
<1>13. IsSum(g, us, G)
  <2> HIDE DEF IsFold
  <2>1. QED
    BY <1>10, <1>11, <1>12
<1>14. MapThenSumSet(Off, us) = G[us]
  BY <1>11 DEF MapThenSumSet, MapThenFoldSet, Chosen
<1>15. G[us] = Sum(g, us)
  BY <1>2, <1>13, SumIs
<1>16. Gap(es) = G[us]
  <2>1. Gap(es) = Sum(g, us) + Sum(g, bs)
    BY <1>4, <1>5, <1>8, Zenon
  <2>2. Gap(es) = Sum(g, us)
    BY <1>6, <1>7, <2>1
  <2>3. QED
    BY <1>15, <2>2, Zenon
<1>17. QED
  BY <1>14, <1>16, Zenon

\* The entries are finitely many, of three lines at most; what is marked as
\* balanced is.
BooksInvariant ==
    /\ Typed /\ Bookable(entries)
    /\ \A e \in entries : e.isBalanced = IsBalanced(e.lines)

LEMMA BooksInductive ==
    ASSUME BooksInvariant, [Next]_vars
    PROVE  BooksInvariant'
<1>1. Typed /\ Typed' /\ \A e \in entries' : IsEntry(e)
  <2>1. Typed'
    BY NextCases DEF BooksInvariant
  <2>2. QED
    BY <2>1 DEF BooksInvariant, Typed, TypeOK
<1>2. \A e \in entries' :
         e \notin entries => /\ entries' = entries \cup {e}
                             /\ DOMAIN e.lines \subseteq 1 .. 3
                             /\ e.isBalanced = IsBalanced(e.lines)
  BY <1>1, NewEntry DEF Generated, Booked
<1>3. IsFiniteSet(entries')
  <2>1. CASE entries' \subseteq entries
    BY <2>1, FS_Subset DEF BooksInvariant, Bookable
  <2>2. CASE ~ (entries' \subseteq entries)
    <3>1. PICK e \in entries' : entries' = entries \cup {e}
      BY <1>2, <2>2
    <3>2. IsFiniteSet(entries \cup {e})
      BY FS_AddElement DEF BooksInvariant, Bookable
    <3>3. QED
      BY <3>1, <3>2, Zenon
  <2>3. QED
    BY <2>1, <2>2
<1>4. \A e \in entries' : DOMAIN e.lines \subseteq 1 .. 3 /\ e.isBalanced = IsBalanced(e.lines)
  BY <1>2 DEF BooksInvariant, Bookable
<1>5. \A e \in entries' : \A i \in DOMAIN e.lines : IsLine(e.lines[i])
  BY <1>1 DEF IsEntry
<1>6. QED
  BY <1>1, <1>3, <1>4, <1>5 DEF BooksInvariant, Bookable

LEMMA BooksAddUp ==
    ASSUME BooksInvariant
    PROVE  TrialBalances
<1>1. Bookable(entries)
  BY DEF BooksInvariant
<1>2. PICK us : us = {e \in entries : ~ e.isBalanced}
  OBVIOUS
<1>3. us \in SUBSET entries
  BY <1>2
<1>4. \A e \in entries \ us : Off(e) = 0
  <2>1. ASSUME NEW e \in entries, IsBalanced(e.lines) PROVE Off(e) = 0
    <3>1. \A i \in 1 .. 3 : /\ AmountAt(e.lines, i, "DEBIT") \in Int
                            /\ AmountAt(e.lines, i, "CREDIT") \in Int
      BY <1>1 DEF Bookable, IsLine, AmountAt
    <3>2. QED
      BY <2>1, <3>1 DEF Off, IsBalanced, Total
  <2>2. \A e \in entries \ us : IsBalanced(e.lines)
    BY <1>2 DEF BooksInvariant, Typed, TypeOK, IsEntry
  <2>3. QED
    BY <2>1, <2>2
<1>5. Gap(entries) = MapThenSumSet(Off, us)
  BY <1>1, <1>3, <1>4, GapOfUnbalanced, Zenon
<1>6. QED
  BY <1>2, <1>5, Zenon DEF TrialBalances, Gap, Off

\* Whatever is generated, by however many runs, and left half done: over all
\* accounts the debits less the credits of the trial balance are what the
\* entries marked as unbalanced are off by.
THEOREM TrialBalanceAddsUp == Spec => []TrialBalances
<1>1. Init => BooksInvariant
  <2>1. Init => entries = {}
    BY DEF Init
  <2>2. QED
    BY <2>1, InitTyped, FS_EmptySet DEF BooksInvariant, Bookable
<1>2. BooksInvariant /\ [Next]_vars => BooksInvariant'
  BY BooksInductive
<1>3. BooksInvariant => TrialBalances
  BY BooksAddUp
<1>4. QED
  BY <1>1, <1>2, <1>3, PTL DEF Spec
=============================================================================
