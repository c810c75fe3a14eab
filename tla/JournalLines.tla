---------------------------- MODULE JournalLines ----------------------------
(***************************************************************************)
(* The bookkeeping arithmetic of AccountingService: the journal lines of a *)
(* transaction under a rule, whether they balance, and the trial balance   *)
(* of a set of entries.  Amounts are integers, in hundredths of a won: the *)
(* columns are decimal(14, 2).                                             *)
(***************************************************************************)
EXTENDS Integers, Sequences, FiniteSetsExt

Types == {"SALE", "EXPENSE"}
VatTypes == {"TAXABLE", "ZERO", "EXEMPT"}
VatModes == {"SPLIT", "NONE"}
Sides == {"DEBIT", "CREDIT"}

\* The accounts of the VAT lines: VAT withheld on a sale, VAT paid on an expense.
VatWithheld == "vat withheld"
VatPaid == "vat paid"

CreateLine(account, side, amount) ==
    [account |-> account, side |-> side, amount |-> amount]

IsLine(line) ==
    /\ DOMAIN line = {"account", "side", "amount"}
    /\ line.side \in Sides /\ line.amount \in Int

IsTaxable(tx, rule) ==
    /\ tx.vatType = "TAXABLE"
    /\ tx.amountIncludesVat
    /\ rule.vatMode = "SPLIT"

\* Math.round(amount / 11) in whole won: halves are rounded up.
EleventhOfAmount(amount) == 100 * ((2 * amount + 1100) \div 2200)

CalculateVat(tx, rule) ==
    IF IsTaxable(tx, rule) THEN EleventhOfAmount(tx.amount) ELSE 0

\* A VAT line is only written for a positive VAT.
VatLine(account, side, vat) ==
    IF vat > 0 THEN <<CreateLine(account, side, vat)>> ELSE <<>>

\* Mutant: an expense is debited with its total next to the VAT it paid.
BuildJournalLinesGross(tx, rule) ==
    LET vat == CalculateVat(tx, rule)
    IN <<CreateLine(rule.debitAccount, "DEBIT", tx.amount)>>
          \o VatLine(VatPaid, "DEBIT", vat)
          \o <<CreateLine(rule.creditAccount, "CREDIT", tx.amount)>>

BuildJournalLines(tx, rule) ==
    LET vat == CalculateVat(tx, rule)
        supply == tx.amount - vat
    IN IF tx.type = "SALE"
       THEN <<CreateLine(rule.debitAccount, "DEBIT", tx.amount),
              CreateLine(rule.creditAccount, "CREDIT", supply)>>
              \o VatLine(VatWithheld, "CREDIT", vat)
       ELSE <<CreateLine(rule.debitAccount, "DEBIT", supply)>>
              \o VatLine(VatPaid, "DEBIT", vat)
              \o <<CreateLine(rule.creditAccount, "CREDIT", tx.amount)>>

-----------------------------------------------------------------------------
AmountAt(lines, i, side) ==
    IF i \in DOMAIN lines /\ lines[i].side = side THEN lines[i].amount ELSE 0

\* An entry has at most three lines.
Total(lines, side) ==
    AmountAt(lines, 1, side) + AmountAt(lines, 2, side) + AmountAt(lines, 3, side)

IsBalanced(lines) == Total(lines, "DEBIT") = Total(lines, "CREDIT")

\* buildRuleMap: of two rules of one type and category the later one counts.
RuleIndexes(rules, type, category) ==
    {i \in DOMAIN rules : rules[i].type = type /\ rules[i].category = category}

-----------------------------------------------------------------------------
(* The trial balance.                                                      *)

LinesOf(entries, account, side) ==
    {l \in entries \X (1 .. 3) :
        /\ l[2] \in DOMAIN l[1].lines
        /\ l[1].lines[l[2]].account = account /\ l[1].lines[l[2]].side = side}

Accounts(entries) == UNION {{e.lines[i].account : i \in DOMAIN e.lines} : e \in entries}

\* Mutant: a line replaces what an account had.
BalanceOfOneLine(entries, account, side) ==
    LET own == LinesOf(entries, account, side)
        last == CHOOSE l \in own : TRUE
    IN IF own = {} THEN 0 ELSE last[1].lines[last[2]].amount

Balance(entries, account, side) ==
    MapThenSumSet(LAMBDA l : l[1].lines[l[2]].amount, LinesOf(entries, account, side))

BuildTrialBalance(entries) ==
    [account \in Accounts(entries) |->
        [debit |-> Balance(entries, account, "DEBIT"),
         credit |-> Balance(entries, account, "CREDIT")]]
=============================================================================
