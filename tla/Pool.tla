-------------------------------- MODULE Pool --------------------------------
(***************************************************************************)
(* The connection pool that every request of the API shares when Primarch  *)
(* runs on PostgreSQL (NewPGStore, SetMaxOpenConns).  A query owns a       *)
(* connection until its rows are closed, and several list functions run    *)
(* further queries WHILE they iterate over their own rows: ListFortresses  *)
(* calls companiesForFortress for each row, which calls marinesForCompany  *)
(* for each of its rows; ListGoals calls ListPayouts and GetAllocations    *)
(* before it reads its first row.  No query carries a context, so a        *)
(* request that waits for a connection waits until one is returned.        *)
(***************************************************************************)
EXTENDS Integers, FiniteSets, Sequences

CONSTANTS
  Requests,   \* the requests a server may be working on at once
  Handlers,   \* the handlers they run, a subset of DOMAIN Calls
  MaxRows,    \* bound: rows an outer query returns, accounts ListAccounts returns
  MaxConns    \* bound: the largest pool considered

ASSUME PoolAssumption ==
  /\ IsFiniteSet(Requests)
  /\ MaxRows \in Nat
  /\ MaxConns \in Nat \ {0}

VARIABLES
  conns,      \* the size of the pool: fixed when the store is opened
  pending,    \* pending[r]: queries of the handler still to be made at top level
  wants,      \* wants[r]: the query r has asked the pool a connection for
  held,       \* held[r]: connections r owns, one per nested query
  frame,      \* frame[<<r, l>>]: the query whose rows are open at level l
  rest        \* rest[<<r, l>>]: inner queries that query has still to make

vars == <<conns, pending, wants, held, frame, rest>>

Levels == 1 .. 3
Queries == {"ListFortresses", "companiesForFortress", "ListGoals", "single"}

\* How many connections a query owns at its deepest point, its own included.
Depth == [q \in Queries |-> CASE q = "ListFortresses" -> 3
                              [] q \in {"companiesForFortress", "ListGoals"} -> 2
                              [] q = "single" -> 1]

\* Queries a handler makes one after the other, each returning its
\* connection before the next: the store's functions, one level down.
StatusCalls == <<"ListFortresses", "single">>            \* and ListAllMarines
FortressesCalls == <<"ListFortresses">>
FortressCalls == <<"single", "companiesForFortress">>    \* QueryRow first
CompaniesCalls == <<"companiesForFortress">>
CompanyCalls == <<"single", "single">>
GoalsCalls == <<"ListGoals">>
\* ListAccounts, ListPayouts, GetAllocations, and ListGoals for each of n accounts
AdviceCalls(n) == <<"single", "single", "single">> \o [i \in 1 .. n |-> "ListGoals"]
PayoutCalls == <<"single", "single", "single">>          \* GetAccount, INSERT, UPDATE
TxCalls == <<"single">>                                  \* one connection up to Commit

\* The sequences of queries a handler may come to make.
Calls == [h \in {"status", "fortresses", "fortress", "companies", "company",
                 "goals", "advice", "payout", "tx"} |->
            CASE h = "status" -> {StatusCalls}
              [] h = "fortresses" -> {FortressesCalls}
              [] h = "fortress" -> {FortressCalls}
              [] h = "companies" -> {CompaniesCalls}
              [] h = "company" -> {CompanyCalls}
              [] h = "goals" -> {GoalsCalls}
              [] h = "advice" -> {AdviceCalls(n) : n \in 0 .. MaxRows}
              [] h = "payout" -> {PayoutCalls}
              [] h = "tx" -> {TxCalls}]

ASSUME HandlersAssumption == Handlers \subseteq DOMAIN Calls

\* Connections in use: one for every level of every request.
InUse == {p \in Requests \X Levels : p[2] <= held[p[1]]}

Idle(r) == pending[r] = << >> /\ wants[r] = "none" /\ held[r] = 0

Init ==
  /\ conns \in 1 .. MaxConns
  /\ pending = [r \in Requests |-> << >>]
  /\ wants = [r \in Requests |-> "none"]
  /\ held = [r \in Requests |-> 0]
  /\ frame = [p \in Requests \X Levels |-> "single"]
  /\ rest = [p \in Requests \X Levels |-> 0]

\* A request arrives and its handler starts.
Arrive(r, h) ==
  /\ Idle(r)
  /\ \E queries \in Calls[h] : pending' = [pending EXCEPT ![r] = queries]
  /\ UNCHANGED <<conns, wants, held, frame, rest>>

\* The handler calls its next store function, which asks for a connection.
Call(r) ==
  /\ pending[r] # << >>
  /\ held[r] = 0
  /\ wants[r] = "none"
  /\ wants' = [wants EXCEPT ![r] = Head(pending[r])]
  /\ pending' = [pending EXCEPT ![r] = Tail(pending[r])]
  /\ UNCHANGED <<conns, held, frame, rest>>

\* Inner queries of a query: one for each row, two for ListGoals.
InnerCalls(q) ==
  CASE q = "ListFortresses" -> 0 .. MaxRows
    [] q = "companiesForFortress" -> 0 .. MaxRows
    [] q = "ListGoals" -> {2}
    [] q = "single" -> {0}

\* Wrong: the marines of a company are read as companies once more.
NestedCompanies(q) == IF q \in {"ListFortresses", "companiesForFortress"}
                  THEN "companiesForFortress" ELSE "single"

\* The query made for a row of an outer query; marinesForCompany, ListPayouts
\* and GetAllocations read their rows to the end and make none of their own.
Inner(q) == IF q = "ListFortresses" THEN "companiesForFortress" ELSE "single"

\* Wrong: the pool has no limit.
OpenUncounted(r) ==
  /\ wants[r] # "none"
  /\ held[r] < 3
  /\ held' = [held EXCEPT ![r] = @ + 1]
  /\ frame' = [frame EXCEPT ![<<r, held[r] + 1>>] = wants[r]]
  /\ \E n \in InnerCalls(wants[r]) :
        rest' = [rest EXCEPT ![<<r, held[r] + 1>>] = n]
  /\ wants' = [wants EXCEPT ![r] = "none"]
  /\ UNCHANGED <<conns, pending>>

\* The pool hands out a connection, when it has one, and the query runs.
Open(r) ==
  /\ wants[r] # "none"
  /\ Cardinality(InUse) < conns
  /\ held[r] < 3
  /\ held' = [held EXCEPT ![r] = @ + 1]
  /\ frame' = [frame EXCEPT ![<<r, held[r] + 1>>] = wants[r]]
  /\ \E n \in InnerCalls(wants[r]) :
        rest' = [rest EXCEPT ![<<r, held[r] + 1>>] = n]
  /\ wants' = [wants EXCEPT ![r] = "none"]
  /\ UNCHANGED <<conns, pending>>

\* The function scans a row and asks for the rows below it, its own rows open.
Nest(r) ==
  /\ wants[r] = "none"
  /\ held[r] \in Levels
  /\ rest[<<r, held[r]>>] > 0
  /\ rest' = [rest EXCEPT ![<<r, held[r]>>] = @ - 1]
  /\ wants' = [wants EXCEPT ![r] = Inner(frame[<<r, held[r]>>])]
  /\ UNCHANGED <<conns, pending, held, frame>>

\* The rows are read to the end: the connection goes back to the pool.
Close(r) ==
  /\ wants[r] = "none"
  /\ held[r] \in Levels
  /\ rest[<<r, held[r]>>] = 0
  /\ held' = [held EXCEPT ![r] = @ - 1]
  /\ UNCHANGED <<conns, pending, wants, frame, rest>>

Next == \E r \in Requests :
  \/ \E h \in Handlers : Arrive(r, h)
  \/ Call(r)
  \/ Open(r)
  \/ Nest(r)
  \/ Close(r)

Spec == Init /\ [][Next]_vars

\* A running handler goes on running; database/sql serves the requests for a
\* connection in turn, so one that is returned again and again reaches all.
Fairness == \A r \in Requests :
  /\ WF_vars(Call(r))
  /\ WF_vars(Nest(r))
  /\ WF_vars(Close(r))
  /\ SF_vars(Open(r))

FairSpec == Spec /\ Fairness

-----------------------------------------------------------------------------

\* The levels a query may still nest, from the level it is made at.
Nesting ==
  /\ \A r \in Requests : wants[r] # "none" => held[r] + Depth[wants[r]] <= 3
  /\ \A r \in Requests, l \in Levels :
        l <= held[r] => /\ l + Depth[frame[<<r, l>>]] <= 4
                        /\ rest[<<r, l>>] > 0 => Depth[frame[<<r, l>>]] > 1

\* The variables hold values of their types, the pool lends no more than it
\* has, and no request nests its queries deeper than the three tables are.
PoolTypeOK ==
  /\ conns \in 1 .. MaxConns
  /\ pending \in [Requests -> Seq(Queries)]
  /\ wants \in [Requests -> Queries \cup {"none"}]
  /\ held \in [Requests -> 0 .. 3]
  /\ frame \in [Requests \X Levels -> Queries]
  /\ rest \in [Requests \X Levels -> Nat]
  /\ Cardinality(InUse) <= conns
  /\ Nesting

\* The work of the server has stopped: every request that owns a connection
\* or wants one waits for the pool, and the pool is empty.
Stuck ==
  /\ \E r \in Requests : wants[r] # "none"
  /\ \A r \in Requests : held[r] > 0 => wants[r] # "none"
  /\ Cardinality(InUse) = conns

\* With two connections for every concurrent request and one to spare the
\* nested queries of ListFortresses, ListGoals and the company lists never
\* wait for each other.  (With fewer they can, and no timeout ends it.)
NeverStuckWhenSized == conns > 2 * Cardinality(Requests) => ~Stuck

\* With enough connections every request is answered, however the nested
\* queries of the others interleave with its own.
RequestsAnswered ==
  \A r \in Requests :
     (conns > 2 * Cardinality(Requests) /\ ~Idle(r)) ~> Idle(r)
=============================================================================
