------------------------------- MODULE Billing -------------------------------
(***************************************************************************)
(* What the registry charges for performance: clients report the equity of *)
(* each day, a high-water mark (HWM) follows it, and closing a period      *)
(* invoices what the equity gained above the mark.                         *)
(*                                                                         *)
(* Composed with Registry, whose handlers decide which plans are billed: a *)
(* step is again one SQL statement, and reports, closings, payments, new   *)
(* assignments and crashes fall between the statements of each other.      *)
(*                                                                         *)
(* Amounts are whole numbers and a plan takes all of the gain (perf_pct    *)
(* 100); the flat fee, which depends on nothing, is left out.              *)
(***************************************************************************)
EXTENDS Registry, Naturals

CONSTANTS
    Days,
    Periods,
    PeriodOf,     \* day -> the period it falls in
    MaxEquity,    \* bound: the highest equity that is reported
    Starts,       \* the starting equities a plan is assigned with
    Reporters,    \* handlers of report and sync requests (bound: how many coexist)
    Closers       \* handlers of close-period requests (bound: how many coexist)

Equity == 0 .. MaxEquity
Reports == Clients \X Strategies \X Days
Invoices == Accounts \X Periods

ASSUME BillingAssumption ==
    /\ MaxEquity \in Nat
    /\ Starts \subseteq Equity
    /\ PeriodOf \in [Days -> Periods]
    /\ Reporters \cap Closers = {}
    /\ None \notin Accounts \cup Periods

VARIABLES
    equity,     \* pnl_reports.ending_equity; 0: no report, or no equity in it
    hwm,        \* client_billing.hwm_equity
    invoice,    \* billing_periods.status of a plan's period; "none": no row
    fee, top,   \* its perf_fee and hwm_end
    \* report and sync handlers
    posting,    \* the client whose reports the handler stores, or None
    peakSeen,   \* the equity it has stored and not yet compared with the mark
    \* close-period handlers
    closing,    \* the statement the handler runs next
    period,     \* the period it closes
    records,    \* the plans it has still to invoice
    marks,      \* their high-water marks when they were listed
    account,    \* the plan it is at
    peak,       \* the highest equity it found for it
    \* history
    start,      \* the equity the plan was assigned with
    since,      \* the periods invoiced since it was assigned
    settled,    \* the units of equity whose gain was invoiced since then and paid
    torn        \* has a crash since then come between an invoice and its mark?

ledger == <<equity, hwm, invoice, fee, top>>
reporting == <<posting, peakSeen>>
closers == <<closing, period, records, marks, account, peak>>
audit == <<start, since, settled, torn>>
billingVars == <<ledger, reporting, closers, audit>>
vars == <<registryVars, billingVars>>

Init ==
    /\ RegistryInit
    /\ equity = [r \in Reports |-> 0]
    /\ hwm = [x \in Accounts |-> 0]
    /\ invoice = [n \in Invoices |-> "none"]
    /\ fee = [n \in Invoices |-> 0]
    /\ top = [n \in Invoices |-> 0]
    /\ posting = [q \in Reporters |-> None]
    /\ peakSeen = [q \in Reporters |-> 0]
    /\ closing = [k \in Closers |-> "free"]
    /\ period = [k \in Closers |-> None]
    /\ records = [k \in Closers |-> {}]
    /\ marks = [k \in Closers |-> [x \in Accounts |-> 0]]
    /\ account = [k \in Closers |-> None]
    /\ peak = [k \in Closers |-> 0]
    /\ start = [x \in Accounts |-> 0]
    /\ since = [x \in Accounts |-> {}]
    /\ settled = [x \in Accounts |-> {}]
    /\ torn = [x \in Accounts |-> FALSE]

-----------------------------------------------------------------------------
(* The registry's own operations *)

\* They do not touch the ledger; a crash takes all handlers with it.
RegistryOnly ==
    /\ RegistryStep
    /\ UNCHANGED billingVars

Die ==
    /\ Crash
    /\ posting' = [q \in Reporters |-> None]
    /\ peakSeen' = [q \in Reporters |-> 0]
    /\ closing' = [k \in Closers |-> "free"]
    /\ period' = [k \in Closers |-> None]
    /\ records' = [k \in Closers |-> {}]
    /\ marks' = [k \in Closers |-> [x \in Accounts |-> 0]]
    /\ account' = [k \in Closers |-> None]
    /\ peak' = [k \in Closers |-> 0]
    /\ torn' = [x \in Accounts |-> torn[x] \/ \E k \in Closers : closing[k] = "raise" /\ account[k] = x]
    /\ UNCHANGED <<ledger, start, since, settled>>

\* A plan is assigned, again perhaps, with a starting equity for its mark.
AssignPlan(a, c, p) ==
    /\ Assign(a, c, p)
    /\ \E e \in Starts :
           /\ hwm' = [hwm EXCEPT ![<<c, p>>] = e]
           /\ start' = [start EXCEPT ![<<c, p>>] = e]
    /\ since' = [since EXCEPT ![<<c, p>>] = {}]
    /\ settled' = [settled EXCEPT ![<<c, p>>] = {}]
    /\ torn' = [torn EXCEPT ![<<c, p>>] = FALSE]
    /\ UNCHANGED <<equity, invoice, fee, top, reporting, closers>>

-----------------------------------------------------------------------------
(* Reports *)

\* A report or sync request of an active client.
Post(q, c) ==
    /\ posting[q] = None
    /\ client[c] = "ACTIVE"
    /\ posting' = [posting EXCEPT ![q] = c]
    /\ UNCHANGED <<registryVars, ledger, peakSeen, closers, audit>>

\* One report is stored, over an earlier one of the same day.
StoreReport(q) ==
    /\ posting[q] # None
    /\ peakSeen[q] = 0
    /\ \E s \in Strategies, d \in Days, e \in Equity :
           /\ equity' = [equity EXCEPT ![<<posting[q], s, d>>] = e]
           /\ peakSeen' = [peakSeen EXCEPT ![q] = e]
    /\ UNCHANGED <<registryVars, hwm, invoice, fee, top, posting, closers, audit>>

Higher(x, y) == IF x > y THEN x ELSE y

\* The mark of every plan of the client that is being billed follows,
\* whichever strategy the report is about.
RaiseMarks(q) ==
    /\ peakSeen[q] > 0
    /\ hwm' = [x \in Accounts |->
                  IF x[1] = posting[q] /\ billing[x] = "ACTIVE"
                  THEN Higher(hwm[x], peakSeen[q])
                  ELSE hwm[x]]
    /\ peakSeen' = [peakSeen EXCEPT ![q] = 0]
    /\ UNCHANGED <<registryVars, equity, invoice, fee, top, posting, closers, audit>>

\* A report request has one report, a sync any number of them.
Posted(q) ==
    /\ posting[q] # None
    /\ peakSeen[q] = 0
    /\ posting' = [posting EXCEPT ![q] = None]
    /\ UNCHANGED <<registryVars, ledger, peakSeen, closers, audit>>

-----------------------------------------------------------------------------
(* Closing a period *)

\* The plans to invoice are listed, of one client or of all.
CloseList(k, i) ==
    /\ closing[k] = "free"
    /\ \E S \in {Clients} \cup {{c} : c \in Clients} :
           LET listed == {x \in Accounts : x[1] \in S /\ billing[x] = "ACTIVE"} IN
           /\ records' = [records EXCEPT ![k] = listed]
           /\ marks' = [marks EXCEPT ![k] = [x \in Accounts |-> IF x \in listed THEN hwm[x] ELSE 0]]
    /\ closing' = [closing EXCEPT ![k] = "next"]
    /\ period' = [period EXCEPT ![k] = i]
    /\ UNCHANGED <<registryVars, ledger, reporting, account, peak, audit>>

\* The highest equity reported for the plan's strategy in the period.
IsPeak(e, c, s, i) ==
    /\ \A d \in Days : PeriodOf[d] = i => equity[<<c, s, d>>] <= e
    /\ e = 0 \/ \E d \in Days : PeriodOf[d] = i /\ equity[<<c, s, d>>] = e

ClosePeak(k) ==
    /\ closing[k] = "next"
    /\ \E x \in records[k], e \in Equity :
           /\ IsPeak(e, x[1], StrategyOf[x[2]], period[k])
           /\ account' = [account EXCEPT ![k] = x]
           /\ peak' = [peak EXCEPT ![k] = e]
           /\ records' = [records EXCEPT ![k] = @ \ {x}]
    /\ closing' = [closing EXCEPT ![k] = "write"]
    /\ UNCHANGED <<registryVars, ledger, reporting, period, marks, audit>>

Monus(x, y) == IF x > y THEN x - y ELSE 0

\* The invoice is inserted, or replaces the one of an earlier closing and is
\* pending again.
CloseWrite(k) ==
    LET x == account[k]
        gain == Monus(peak[k], marks[k][x])
        n == <<x, period[k]>>
    IN /\ closing[k] = "write"
       /\ invoice' = [invoice EXCEPT ![n] = "PENDING"]
       /\ fee' = [fee EXCEPT ![n] = gain]
       /\ top' = [top EXCEPT ![n] = Higher(peak[k], marks[k][x])]
       /\ since' = [since EXCEPT ![x] = @ \cup {period[k]}]
       /\ closing' = [closing EXCEPT ![k] = "raise"]
       /\ UNCHANGED <<registryVars, equity, hwm, reporting, period, records, marks, account, peak,
                      start, settled, torn>>

\* Wrong: the mark stays where it was.
CloseNoRaise(k) ==
    LET x == account[k] IN
    /\ closing[k] = "raise"
    /\ hwm' = hwm
    /\ marks' = [marks EXCEPT ![k][x] = 0]
    /\ account' = [account EXCEPT ![k] = None]
    /\ peak' = [peak EXCEPT ![k] = 0]
    /\ closing' = [closing EXCEPT ![k] = "next"]
    /\ UNCHANGED <<registryVars, equity, invoice, fee, top, reporting, period, records, audit>>

\* The mark is set to the peak if there was a gain, whatever it is by now.
CloseRaise(k) ==
    LET x == account[k] IN
    /\ closing[k] = "raise"
    /\ hwm' = IF peak[k] > marks[k][x] THEN [hwm EXCEPT ![x] = peak[k]] ELSE hwm
    /\ marks' = [marks EXCEPT ![k][x] = 0]
    /\ account' = [account EXCEPT ![k] = None]
    /\ peak' = [peak EXCEPT ![k] = 0]
    /\ closing' = [closing EXCEPT ![k] = "next"]
    /\ UNCHANGED <<registryVars, equity, invoice, fee, top, reporting, period, records, audit>>

Closed(k) ==
    /\ closing[k] = "next"
    /\ records[k] = {}
    /\ closing' = [closing EXCEPT ![k] = "free"]
    /\ period' = [period EXCEPT ![k] = None]
    /\ UNCHANGED <<registryVars, ledger, reporting, records, marks, account, peak, audit>>

-----------------------------------------------------------------------------
(* Payment *)

\* The units of equity whose gain an invoice charges.
Charged(n) == (top[n] - fee[n] + 1) .. top[n]

\* The status of the invoice is not looked at.
MarkPaid(n) ==
    /\ "pay" \in Api
    /\ invoice[n] # "none"
    /\ invoice' = [invoice EXCEPT ![n] = "PAID"]
    /\ settled' = [settled EXCEPT ![n[1]] = IF n[2] \in since[n[1]] THEN @ \cup Charged(n) ELSE @]
    /\ UNCHANGED <<registryVars, equity, hwm, fee, top, reporting, closers, start, since, torn>>

Waive(n) ==
    /\ "waive" \in Api
    /\ invoice[n] # "none"
    /\ invoice' = [invoice EXCEPT ![n] = "WAIVED"]
    /\ UNCHANGED <<registryVars, equity, hwm, fee, top, reporting, closers, audit>>

-----------------------------------------------------------------------------

ReportStep(q) == (\E c \in Clients : Post(q, c)) \/ StoreReport(q) \/ RaiseMarks(q) \/ Posted(q)
CloseStep(k) ==
    \/ \E i \in Periods : CloseList(k, i)
    \/ ClosePeak(k) \/ CloseWrite(k) \/ CloseRaise(k) \/ Closed(k)
Payment == \E n \in Invoices : MarkPaid(n) \/ Waive(n)

Next ==
    \/ RegistryOnly
    \/ Die
    \/ \E a \in Admins, c \in Clients, p \in Plans : AssignPlan(a, c, p)
    \/ \E q \in Reporters : ReportStep(q)
    \/ \E k \in Closers : CloseStep(k)
    \/ Payment

Spec == Init /\ [][Next]_vars

-----------------------------------------------------------------------------
(* Properties *)

\* The variables hold values of their types.
BillingTypeOK ==
    /\ RegistryTypeOK
    /\ equity \in [Reports -> Equity]
    /\ hwm \in [Accounts -> Equity]
    /\ invoice \in [Invoices -> {"none", "PENDING", "PAID", "WAIVED"}]
    /\ fee \in [Invoices -> Equity]
    /\ top \in [Invoices -> Equity]
    /\ posting \in [Reporters -> Clients \cup {None}]
    /\ peakSeen \in [Reporters -> Equity]
    /\ closing \in [Closers -> {"free", "next", "write", "raise"}]
    /\ period \in [Closers -> Periods \cup {None}]
    /\ records \in [Closers -> SUBSET Accounts]
    /\ marks \in [Closers -> [Accounts -> Equity]]
    /\ account \in [Closers -> Accounts \cup {None}]
    /\ peak \in [Closers -> Equity]
    /\ start \in [Accounts -> Equity]
    /\ since \in [Accounts -> SUBSET Periods]
    /\ settled \in [Accounts -> SUBSET Equity]
    /\ torn \in [Accounts -> BOOLEAN]

ChargedTwice(x, i) ==
    \/ \E j \in since[x] \ {i} : Charged(<<x, i>>) \cap Charged(<<x, j>>) # {}
    \/ invoice[<<x, i>>] = "PENDING" /\ Charged(<<x, i>>) \cap settled[x] # {}

\* A gain is charged once, as long as the plan is not assigned anew: the
\* invoices of two periods never charge for the same stretch of equity, and a
\* pending one never for a stretch that has been paid, however reports,
\* payments and repeated closings mix.  Holds while closings follow one
\* another, except where a crash came between an invoice and its mark.
GainsChargedOnce ==
    \A x \in Accounts : \A i \in since[x] : torn[x] \/ ~ChargedTwice(x, i)

-----------------------------------------------------------------------------
(* What the repository says and the code does not do *)

\* "Performance fee = perf_pct * max(0, ending_equity - hwm_at_period_start)":
\* so the first period a plan is closed for, when it began with the plan.
FeeAsDocumented ==
    [][\A k \in Closers :
          closing[k] = "write" /\ closing'[k] = "raise" /\ since[account[k]] = {} =>
              fee'[<<account[k], period[k]>>] = Monus(peak[k], start[account[k]])]_vars

\* "Only charged on net-new profits above the high-water mark": not for a gain
\* that was charged before, crash or no crash.
NetNewProfitsOnly ==
    \A x \in Accounts : \A i \in since[x] : ~ChargedTwice(x, i)
=============================================================================
