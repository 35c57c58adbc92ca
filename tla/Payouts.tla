------------------------------- MODULE Payouts -------------------------------
(***************************************************************************)
(* Trading accounts and the payouts booked against them.  Both stores keep *)
(* the sum and the number of an account's payouts on the account's row;    *)
(* the in-memory store books under one lock, PostgreSQL with a read, an    *)
(* insert and an update that belong to no transaction.  The same rows are  *)
(* replaced as a whole by a PUT of the account and by the snapshots an     *)
(* engine reports.  After the store the handler deposits the payout in     *)
(* Firefly III.  Amounts are in tenths of one gross payout.                *)
(***************************************************************************)
EXTENDS Stores, Integers, FiniteSets, FiniteSetsExt

CONSTANTS
    Accounts,      \* account ids
    PayoutIds,     \* the ids clients give their payouts, the same in a retry
    Booking,       \* handlers that record a payout (bound: how many coexist)
    Totals,        \* the payout totals a PUT or a snapshot may carry
    MaxBooked,     \* bound: rows of the in-memory store with one id
    NoAmount       \* no deposit

ASSUME PayoutsAssumption ==
    /\ Totals \subseteq Nat
    /\ MaxBooked \in Nat \ {0}
    /\ NoAmount \notin Nat

VARIABLES
    open,       \* the accounts that have a row
    split,      \* split[a]: ProfitSplit, in tenths
    total,      \* total[a]: TotalPayouts
    payouts,    \* payouts[p]: rows of the payout table with id p
    net,        \* net[p]: the NetAmount of the newest of them
    deposit,    \* deposit[p]: the amount of the newest deposit for p
    at,         \* at[r]: the call a recording handler makes next
    book,       \* book[r]: the payout it records, as the client sent it
    amount,     \* amount[r]: the net amount the store works with
    due,        \* history: what total[a] was set to, and the payouts booked since
    torn,       \* history: payouts booked but never added to total[a]
    counted,    \* history: how often p was added to a total
    answered    \* history: p was answered 201 Created

payoutVars == <<backend, open, split, total, payouts, net, deposit, at, book, amount,
                due, torn, counted, answered>>
accounts == <<open, split, total>>
booked == <<payouts, net>>
recording == <<at, book, amount>>
payoutHistory == <<due, torn, counted, answered>>

-----------------------------------------------------------------------------
(* Data *)

Prop == 9
Personal == 10
Splits == {Prop, Personal}

\* A request names the net amount, or leaves it to the account's split.
Bodies == [id : PayoutIds, account : Accounts, net : {0, 8}]
Blank == CHOOSE b \in Bodies : TRUE
NetOf(b, s) == IF b.net = 0 THEN s ELSE b.net

\* What the lists of the API show.
ListAccounts == open
ListPayouts == {p \in PayoutIds : payouts[p] > 0}

\* Amounts inserted and not yet added to the total of a.
Waiting(a) == {r \in Booking : at[r] = "count" /\ book[r].account = a}
Outstanding(a) == MapThenSumSet(LAMBDA r : amount[r], Waiting(a))

PayoutsInit ==
    /\ open = {}
    /\ split = [a \in Accounts |-> Prop]
    /\ total = [a \in Accounts |-> 0]
    /\ payouts = [p \in PayoutIds |-> 0]
    /\ net = [p \in PayoutIds |-> 0]
    /\ deposit = [p \in PayoutIds |-> NoAmount]
    /\ at = [r \in Booking |-> "free"]
    /\ book = [r \in Booking |-> Blank]
    /\ amount = [r \in Booking |-> 0]
    /\ due = [a \in Accounts |-> 0]
    /\ torn = [a \in Accounts |-> 0]
    /\ counted = [p \in PayoutIds |-> 0]
    /\ answered = {}

-----------------------------------------------------------------------------
(* Accounts *)

\* A row written as a whole: its total is the writer's.
WriteAccount(a, s, t) ==
    /\ open' = open \cup {a}
    /\ split' = [split EXCEPT ![a] = s]
    /\ total' = [total EXCEPT ![a] = t]
    /\ due' = [due EXCEPT ![a] = t + Outstanding(a)]
    /\ torn' = [torn EXCEPT ![a] = 0]
    /\ UNCHANGED <<backend, booked, deposit, recording, counted, answered>>

\* Both stores refuse an id that is taken; a split that is left out is the
\* one for the type of the account.
NewRow(a, s) ==
    /\ a \notin open
    /\ WriteAccount(a, s, 0)

\* Wrong: a deleted account keeps a row without a split.
DeleteSplit(a) ==
    /\ a \in open
    /\ split' = [split EXCEPT ![a] = 0]
    /\ UNCHANGED <<backend, open, total, booked, deposit, recording, payoutHistory>>

DeleteRow(a) ==
    /\ a \in open
    /\ open' = open \ {a}
    /\ UNCHANGED <<backend, split, total, booked, deposit, recording, payoutHistory>>

CreateAccount(a, s) == NewRow(a, s)

\* handleUpdateAccount: a PUT, of what its client read before.
UpdateAccount(a, s, t) ==
    /\ a \in open
    /\ WriteAccount(a, s, t)

\* handleEngineAccountSnapshot: create, else update, with the engine's totals
\* and split; a split it leaves out is that of a prop account, whatever the
\* type of the account.
Snapshot(a, s, t) == WriteAccount(a, s, t)

\* handleDeleteAccount, or handleDeleteAllAccounts, which deletes one
\* account after the other.
DeleteAccount(a) == DeleteRow(a)

-----------------------------------------------------------------------------
(* Payouts *)

Take(r, b, stage, n) ==
    /\ at' = [at EXCEPT ![r] = stage]
    /\ book' = [book EXCEPT ![r] = b]
    /\ amount' = [amount EXCEPT ![r] = n]

Proceed(r, stage) ==
    /\ at' = [at EXCEPT ![r] = stage]
    /\ UNCHANGED <<book, amount>>

Free(r) ==
    /\ at' = [at EXCEPT ![r] = "free"]
    /\ book' = [book EXCEPT ![r] = Blank]
    /\ amount' = [amount EXCEPT ![r] = 0]

AddRow(p, n) ==
    /\ payouts' = [payouts EXCEPT ![p] = @ + 1]
    /\ net' = [net EXCEPT ![p] = n]

AddToTotal(p, a, n) ==
    /\ total' = [total EXCEPT ![a] = @ + n]
    /\ counted' = [counted EXCEPT ![p] = @ + 1]

\* Store.RecordPayout: under the lock, the row and the total.
RecordInMemory(r, b) ==
    /\ backend = "memory"
    /\ at[r] = "free"
    /\ b.account \in open
    /\ payouts[b.id] < MaxBooked
    /\ LET n == NetOf(b, split[b.account]) IN
          /\ AddRow(b.id, n)
          /\ AddToTotal(b.id, b.account, n)
          /\ due' = [due EXCEPT ![b.account] = @ + n]
          /\ Take(r, b, "deposit", n)
    /\ UNCHANGED <<backend, open, split, deposit, torn, answered>>

\* PGStore.RecordPayout: GetAccount, for the split,
ReadSplit(r, b) ==
    /\ backend = "postgres"
    /\ at[r] = "free"
    /\ b.account \in open
    /\ Take(r, b, "insert", NetOf(b, split[b.account]))
    /\ UNCHANGED <<backend, accounts, booked, deposit, payoutHistory>>

\* Wrong: a retry of a payout that is already there goes on to the totals.
InsertAgain(r) ==
    /\ at[r] = "insert"
    /\ AddRow(book[r].id, amount[r])
    /\ due' = [due EXCEPT ![book[r].account] = @ + amount[r]]
    /\ Proceed(r, "count")
    /\ UNCHANGED <<backend, accounts, deposit, torn, counted, answered>>

\* the INSERT, which the primary key refuses when the id is taken,
Insert(r) ==
    /\ at[r] = "insert"
    /\ IF payouts[book[r].id] > 0
       THEN /\ Free(r)
            /\ UNCHANGED <<booked, due>>
       ELSE /\ AddRow(book[r].id, amount[r])
            /\ due' = [due EXCEPT ![book[r].account] = @ + amount[r]]
            /\ Proceed(r, "count")
    /\ UNCHANGED <<backend, accounts, deposit, torn, counted, answered>>

\* Wrong: the total becomes the payout.
CountLast(r) ==
    /\ at[r] = "count"
    /\ total' = [total EXCEPT ![book[r].account] = amount[r]]
    /\ counted' = [counted EXCEPT ![book[r].id] = @ + 1]
    /\ Proceed(r, "deposit")
    /\ UNCHANGED <<backend, open, split, booked, deposit, due, torn, answered>>

\* the UPDATE of the totals, which adds to the row, if it is still there,
Count(r) ==
    /\ at[r] = "count"
    /\ IF book[r].account \in open
       THEN /\ AddToTotal(book[r].id, book[r].account, amount[r])
            /\ UNCHANGED torn
       ELSE /\ torn' = [torn EXCEPT ![book[r].account] = @ + amount[r]]
            /\ UNCHANGED <<total, counted>>
    /\ Proceed(r, "deposit")
    /\ UNCHANGED <<backend, open, split, booked, deposit, due, answered>>

\* or which fails: the client gets an error and the payout stays in its table.
CountFails(r) ==
    /\ at[r] = "count"
    /\ torn' = [torn EXCEPT ![book[r].account] = @ + amount[r]]
    /\ Free(r)
    /\ UNCHANGED <<backend, accounts, booked, deposit, due, counted, answered>>

\* handleRecordPayout goes on to Firefly III, with the net amount of its own
\* copy of the request: the store computed the split on another one.
Deposit(r) ==
    /\ at[r] = "deposit"
    /\ deposit' = [deposit EXCEPT ![book[r].id] = book[r].net]
    /\ answered' = answered \cup {book[r].id}
    /\ Free(r)
    /\ UNCHANGED <<backend, accounts, booked, due, torn, counted>>

\* Firefly III is not there or answers with an error, which is only logged.
DepositFails(r) ==
    /\ at[r] = "deposit"
    /\ answered' = answered \cup {book[r].id}
    /\ Free(r)
    /\ UNCHANGED <<backend, accounts, booked, deposit, due, torn, counted>>

\* The process ends; what is in PostgreSQL stays.
CrashPayouts ==
    /\ backend = "postgres"
    /\ at' = [r \in Booking |-> "free"]
    /\ book' = [r \in Booking |-> Blank]
    /\ amount' = [r \in Booking |-> 0]
    /\ torn' = [a \in Accounts |-> torn[a] + Outstanding(a)]
    /\ UNCHANGED <<backend, accounts, booked, deposit, due, counted, answered>>

PayoutsStep ==
    \/ \E a \in Accounts :
          \/ \E s \in Splits : CreateAccount(a, s)
          \/ \E s \in Splits, t \in Totals : UpdateAccount(a, s, t) \/ Snapshot(a, s, t)
          \/ DeleteAccount(a)
    \/ \E r \in Booking :
          \/ \E b \in Bodies : RecordInMemory(r, b) \/ ReadSplit(r, b)
          \/ Insert(r) \/ Count(r) \/ CountFails(r) \/ Deposit(r) \/ DepositFails(r)
    \/ CrashPayouts

-----------------------------------------------------------------------------

\* The variables hold values of their types.
PayoutsTypeOK ==
    /\ backend \in Backends
    /\ open \subseteq Accounts
    /\ split \in [Accounts -> Splits]
    /\ total \in [Accounts -> Nat]
    /\ payouts \in [PayoutIds -> Nat]
    /\ net \in [PayoutIds -> Nat]
    /\ deposit \in [PayoutIds -> Nat \cup {NoAmount}]
    /\ at \in [Booking -> {"free", "insert", "count", "deposit"}]
    /\ book \in [Booking -> Bodies \cup {Blank}]
    /\ amount \in [Booking -> Nat]
    /\ due \in [Accounts -> Nat]
    /\ torn \in [Accounts -> Nat]
    /\ counted \in [PayoutIds -> Nat]
    /\ answered \subseteq PayoutIds

\* The total of an account is what its row was last written with and every
\* payout booked since, but for those a handler has still to add and those
\* whose update failed or whose process ended: concurrent payouts of one
\* account lose nothing of each other.
PayoutsAddUp ==
    \A a \in ListAccounts : total[a] + Outstanding(a) + torn[a] = due[a]

\* In PostgreSQL a payout reaches its table and a total once, however often
\* its client sends it again, at the same time or after an error; in either
\* store a payout that was answered 201 or deposited is in its table.
BookedOnce ==
    /\ backend = "postgres" => \A p \in PayoutIds : counted[p] <= payouts[p] /\ payouts[p] <= 1
    /\ \A p \in PayoutIds : p \in answered \/ deposit[p] # NoAmount => p \in ListPayouts

\* What the comment of RecordPayoutTransaction says: the deposit in Firefly
\* III is that of the payout recorded.
DepositIsThePayout ==
    \A p \in PayoutIds : deposit[p] # NoAmount /\ payouts[p] = 1 => deposit[p] = net[p]
=============================================================================
