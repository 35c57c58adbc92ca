---------------------------- MODULE CouncilProofs ----------------------------
(***************************************************************************)
(* Theorems about Council, for any accounts, payouts, goals, contributions, *)
(* milestones, lists and handlers: its types; that payouts and             *)
(* contributions count once and add up to the totals kept with them; what  *)
(* overlapping changes of the roadmap leave of it; and that allocations    *)
(* are replaced as whole lists.                                            *)
(***************************************************************************)
EXTENDS Council, FiniteSetTheorems, WellFoundedInduction, TLAPS

-----------------------------------------------------------------------------
(* Sums over finite sets, by induction on the set. *)

SumOf(f, S) == MapThenSumSet(LAMBDA x : f[x], S)

\* The element that is added last, and a table of the sums over sets of D.
Pick(s) == CHOOSE x \in s : TRUE
Term(f, g, s) == IF s = {} THEN 0 ELSE f[Pick(s)] + g[s \ {Pick(s)}]
Adds(f, g, D) == g = [s \in D |-> Term(f, g, s)]

\* What holds of 0, and of n + 1 when of n, holds of every number: the library's
\* induction for a set instead of an operator.
LEMMA EveryNat ==
  ASSUME NEW Good \in SUBSET Nat, 0 \in Good, \A n \in Good : n + 1 \in Good
  PROVE  Good = Nat
<1>. DEFINE Bad == Nat \ Good
<1>. SUFFICES ASSUME Bad # {} PROVE FALSE
  OBVIOUS
<1>1. \E x \in Bad : \A y \in Bad : ~ (<<y, x>> \in OpToRel(<, Nat))
  <2>. HIDE DEF Bad
  <2>1. Bad \subseteq Nat
    BY DEF Bad
  <2>. QED
    BY NatLessThanWellFounded, <2>1, WFMin
<1>2. PICK x \in Bad : \A y \in Bad : ~ (<<y, x>> \in OpToRel(<, Nat))
  BY <1>1
<1>3. \A y \in Bad : ~ (y < x)
  BY <1>2 DEF OpToRel
<1>4. x \in Nat /\ x \notin Good /\ x # 0
  OBVIOUS
<1>5. x - 1 \in Nat /\ x - 1 < x /\ (x - 1) + 1 = x
  BY <1>4
<1>6. x - 1 \in Good
  BY <1>3, <1>5
<1>. QED
  BY <1>4, <1>5, <1>6

\* A sum is looked up in a table of the sums over subsets.
LEMMA SumTable ==
  ASSUME NEW f, NEW S
  PROVE SumOf(f, S) = (CHOOSE g : Adds(f, g, SUBSET S))[S]
BY DEF SumOf, MapThenSumSet, MapThenFoldSet, Adds, Term, Pick

\* The subsets of at most n elements.
Below(S, n) == {s \in SUBSET S : IsFiniteSet(s) /\ Cardinality(s) <= n}

\* A table of the sums over n elements gives one over n + 1.
LEMMA TableExtend ==
  ASSUME NEW f, NEW S, IsFiniteSet(S), NEW n \in Nat, NEW g, Adds(f, g, Below(S, n))
  PROVE \E h : Adds(f, h, Below(S, n+1))
<1>. DEFINE h == [s \in Below(S, n+1) |-> Term(f, g, s)]
<1>1. ASSUME NEW s \in Below(S, n+1), s # {}
      PROVE s \ {Pick(s)} \in Below(S, n)
  BY <1>1, FS_RemoveElement, FS_CardinalityType, FS_Subset DEF Below, Pick
<1>2. \A s \in Below(S, n) : s \in Below(S, n+1)
  BY FS_CardinalityType DEF Below
<1>3. \A s \in Below(S, n) : h[s] = g[s]
  BY <1>2 DEF Adds
<1>4. ASSUME NEW s \in Below(S, n+1) PROVE Term(f, h, s) = Term(f, g, s)
  <2>. HIDE DEF h
  <2>1. CASE s = {}
    BY <2>1 DEF Term
  <2>2. CASE s # {}
    <3>1. h[s \ {Pick(s)}] = g[s \ {Pick(s)}]
      BY <1>1, <1>3, <2>2
    <3>. QED
      BY <2>2, <3>1 DEF Term
  <2>. QED
    BY <2>1, <2>2
<1>5. Adds(f, h, Below(S, n+1))
  BY <1>4 DEF Adds
<1>. QED
  BY <1>5

\* A finite set has such a table.
LEMMA TableExists ==
  ASSUME NEW f, NEW S, IsFiniteSet(S)
  PROVE \E g : Adds(f, g, SUBSET S)
<1>. DEFINE Good == {n \in Nat : \E g : Adds(f, g, Below(S, n))}
<1>1. 0 \in Good
  <2>1. Below(S, 0) = {{}}
    <3>1. \A s \in Below(S, 0) : s = {}
      BY FS_EmptySet, FS_CardinalityType DEF Below
    <3>2. {} \in Below(S, 0)
      BY FS_EmptySet DEF Below
    <3>. QED
      BY <3>1, <3>2
  <2>2. Adds(f, [s \in {{}} |-> 0], {{}})
    BY DEF Adds, Term
  <2>. QED
    BY <2>1, <2>2
<1>2. \A n \in Good : n + 1 \in Good
  BY TableExtend
<1>3. Good = Nat
  BY <1>1, <1>2, EveryNat
<1>4. Below(S, Cardinality(S)) = SUBSET S /\ Cardinality(S) \in Nat
  BY FS_CardinalityType, FS_Subset DEF Below
<1>5. Cardinality(S) \in Good
  BY <1>3, <1>4
<1>. QED
  BY <1>4, <1>5

\* What holds of a set when it holds of its smaller subsets, holds of every
\* subset of a finite set.
LEMMA FiniteInduction ==
  ASSUME NEW B, IsFiniteSet(B), NEW Good \in SUBSET SUBSET B,
         {} \in Good,
         \A S \in SUBSET B : (\A T \in SUBSET S : T # S => T \in Good) => S \in Good
  PROVE  SUBSET B \subseteq Good
<1>. DEFINE Bad == (SUBSET B) \ Good
<1>1. IsWellFoundedOn(StrictSubsetOrdering(B), SUBSET B)
  BY FS_FiniteSubsetsOfFinite, FS_StrictSubsetOrderingWellFounded
<1>2. SUFFICES ASSUME Bad # {} PROVE FALSE
  OBVIOUS
<1>3. \E x \in Bad : \A y \in Bad : ~ (<<y, x>> \in StrictSubsetOrdering(B))
  <2>. HIDE DEF Bad
  <2>1. Bad \subseteq SUBSET B
    BY DEF Bad
  <2>. QED
    BY <1>1, <1>2, <2>1, WFMin
<1>4. PICK x \in Bad : \A y \in Bad : ~ (<<y, x>> \in StrictSubsetOrdering(B))
  BY <1>3
<1>5. \A T \in SUBSET x : T # x => T \in Good
  BY <1>4 DEF StrictSubsetOrdering
<1>. QED
  BY <1>4, <1>5

\* Tables of sums agree on what they have in common.
LEMMA TablesAgree ==
    ASSUME NEW f, NEW g, NEW h, NEW S, IsFiniteSet(S), NEW R \in SUBSET S,
           Adds(f, g, SUBSET S), Adds(f, h, SUBSET R)
    PROVE  g[R] = h[R]
<1>. DEFINE Good == {s \in SUBSET R : g[s] = h[s]}
<1>1. \A s \in SUBSET R : g[s] = Term(f, g, s) /\ h[s] = Term(f, h, s)
  BY DEF Adds
<1>2. {} \in Good
  BY <1>1 DEF Term
<1>3. ASSUME NEW s \in SUBSET R, \A t \in SUBSET s : t # s => t \in Good
      PROVE  s \in Good
  <2>1. CASE s = {}
    BY <1>2, <2>1
  <2>2. CASE s # {}
    <3>1. Pick(s) \in s /\ s \ {Pick(s)} \in SUBSET s /\ s \ {Pick(s)} # s
      BY <2>2 DEF Pick
    <3>2. g[s \ {Pick(s)}] = h[s \ {Pick(s)}]
      BY <1>3, <3>1
    <3>. QED
      BY <1>1, <2>2, <3>2 DEF Term
  <2>. QED
    BY <2>1, <2>2
<1>4. IsFiniteSet(R)
  BY FS_Subset
<1>5. SUBSET R \subseteq Good
  <2>. HIDE DEF Good
  <2>1. Good \in SUBSET SUBSET R
    BY DEF Good
  <2>. QED
    BY <1>2, <1>3, <1>4, <2>1, FiniteInduction
<1>. QED
  BY <1>5

\* The sum over a set, from that over the set without its pick.
LEMMA SumRec ==
    ASSUME NEW f, NEW S, IsFiniteSet(S)
    PROVE  /\ S = {} => SumOf(f, S) = 0
           /\ S # {} => Pick(S) \in S /\ SumOf(f, S) = f[Pick(S)] + SumOf(f, S \ {Pick(S)})
<1>1. PICK g : Adds(f, g, SUBSET S) /\ SumOf(f, S) = g[S]
  <2>. DEFINE h == CHOOSE g : Adds(f, g, SUBSET S)
  <2>1. Adds(f, h, SUBSET S)
    BY TableExists
  <2>2. SumOf(f, S) = h[S]
    BY SumTable
  <2>. QED
    BY <2>1, <2>2
<1>2. g[S] = Term(f, g, S)
  BY <1>1 DEF Adds
<1>3. ASSUME S # {} PROVE Pick(S) \in S /\ g[S \ {Pick(S)}] = SumOf(f, S \ {Pick(S)})
  <2>. DEFINE R == S \ {Pick(S)}
              h == CHOOSE k : Adds(f, k, SUBSET R)
  <2>1. R \in SUBSET S /\ IsFiniteSet(R) /\ Pick(S) \in S
    BY <1>3, FS_Subset DEF Pick
  <2>2. Adds(f, h, SUBSET R) /\ SumOf(f, R) = h[R]
    BY <2>1, TableExists, SumTable
  <2>3. g[R] = h[R]
    <3>. HIDE DEF R, h
    <3>. QED
      BY <1>1, <2>1, <2>2, TablesAgree
  <2>. QED
    BY <2>1, <2>2, <2>3
<1>. QED
  BY <1>1, <1>2, <1>3 DEF Term

\* A sum of numbers is one.
LEMMA SumNat ==
    ASSUME NEW f, NEW S, IsFiniteSet(S), \A x \in S : f[x] \in Nat
    PROVE  SumOf(f, S) \in Nat
<1>. DEFINE Good == {s \in SUBSET S : SumOf(f, s) \in Nat}
<1>1. \A s \in SUBSET S : IsFiniteSet(s)
  BY FS_Subset
<1>2. {} \in Good
  <2>1. SumOf(f, {}) = 0
    BY FS_EmptySet, SumRec
  <2>. QED
    BY <2>1
<1>3. ASSUME NEW s \in SUBSET S, \A t \in SUBSET s : t # s => t \in Good
      PROVE  s \in Good
  <2>1. CASE s = {}
    BY <1>2, <2>1
  <2>2. CASE s # {}
    <3>1. Pick(s) \in s /\ SumOf(f, s) = f[Pick(s)] + SumOf(f, s \ {Pick(s)})
      BY <1>1, <2>2, SumRec
    <3>2. s \ {Pick(s)} \in SUBSET s /\ s \ {Pick(s)} # s
      BY <3>1
    <3>3. SumOf(f, s \ {Pick(s)}) \in Nat
      BY <1>3, <3>2
    <3>. QED
      BY <3>1, <3>3
  <2>. QED
    BY <2>1, <2>2
<1>4. SUBSET S \subseteq Good
  <2>. HIDE DEF Good
  <2>1. Good \in SUBSET SUBSET S
    BY DEF Good
  <2>. QED
    BY <1>2, <1>3, <2>1, FiniteInduction
<1>. QED
  BY <1>4

\* Any element can be the last that is added.
LEMMA SumRemove ==
    ASSUME NEW f, NEW S, IsFiniteSet(S), \A x \in S : f[x] \in Nat, NEW y \in S
    PROVE  SumOf(f, S) = f[y] + SumOf(f, S \ {y})
<1>. DEFINE Good == {s \in SUBSET S : \A x \in s : SumOf(f, s) = f[x] + SumOf(f, s \ {x})}
<1>1. \A s \in SUBSET S : IsFiniteSet(s) /\ SumOf(f, s) \in Nat
  BY FS_Subset, SumNat
<1>2. {} \in Good
  OBVIOUS
<1>3. ASSUME NEW s \in SUBSET S, \A t \in SUBSET s : t # s => t \in Good
      PROVE  s \in Good
  <2>. SUFFICES ASSUME NEW x \in s PROVE SumOf(f, s) = f[x] + SumOf(f, s \ {x})
    OBVIOUS
  <2>1. PICK p \in s : SumOf(f, s) = f[p] + SumOf(f, s \ {p})
    BY <1>1, SumRec
  <2>2. CASE x = p
    BY <2>1, <2>2
  <2>3. CASE x # p
    <3>1. s \ {p} \in Good /\ s \ {x} \in Good
      <4>1. s \ {p} \in SUBSET s /\ s \ {p} # s /\ s \ {x} \in SUBSET s /\ s \ {x} # s
        OBVIOUS
      <4>. HIDE DEF Good
      <4>. QED
        BY <1>3, <4>1
    <3>2. x \in s \ {p} /\ p \in s \ {x} /\ (s \ {p}) \ {x} = (s \ {x}) \ {p}
      BY <2>3
    <3>3. SumOf(f, s \ {p}) = f[x] + SumOf(f, (s \ {p}) \ {x})
      BY <3>1, <3>2
    <3>4. SumOf(f, s \ {x}) = f[p] + SumOf(f, (s \ {p}) \ {x})
      BY <3>1, <3>2
    <3>5. f[x] \in Nat /\ f[p] \in Nat /\ SumOf(f, (s \ {p}) \ {x}) \in Nat
      BY <1>1
    <3>. QED
      BY <2>1, <3>3, <3>4, <3>5
  <2>. QED
    BY <2>2, <2>3
<1>4. SUBSET S \subseteq Good
  <2>. HIDE DEF Good
  <2>1. Good \in SUBSET SUBSET S
    BY DEF Good
  <2>. QED
    BY <1>2, <1>3, <2>1, FiniteInduction
<1>. QED
  BY <1>4

\* A sum depends on what is summed only.
LEMMA SumSame ==
    ASSUME NEW f, NEW g, NEW S, IsFiniteSet(S), \A x \in S : f[x] = g[x]
    PROVE  SumOf(f, S) = SumOf(g, S)
<1>. DEFINE Good == {s \in SUBSET S : SumOf(f, s) = SumOf(g, s)}
<1>1. \A s \in SUBSET S : IsFiniteSet(s)
  BY FS_Subset
<1>2. {} \in Good
  BY <1>1, SumRec
<1>3. ASSUME NEW s \in SUBSET S, \A t \in SUBSET s : t # s => t \in Good
      PROVE  s \in Good
  <2>1. CASE s = {}
    BY <1>2, <2>1
  <2>2. CASE s # {}
    <3>1. /\ Pick(s) \in s
          /\ SumOf(f, s) = f[Pick(s)] + SumOf(f, s \ {Pick(s)})
          /\ SumOf(g, s) = g[Pick(s)] + SumOf(g, s \ {Pick(s)})
      BY <1>1, <2>2, SumRec
    <3>2. s \ {Pick(s)} \in SUBSET s /\ s \ {Pick(s)} # s
      BY <3>1
    <3>3. SumOf(f, s \ {Pick(s)}) = SumOf(g, s \ {Pick(s)})
      BY <1>3, <3>2
    <3>. QED
      BY <3>1, <3>3
  <2>. QED
    BY <2>1, <2>2
<1>4. SUBSET S \subseteq Good
  <2>. HIDE DEF Good
  <2>1. Good \in SUBSET SUBSET S
    BY DEF Good
  <2>. QED
    BY <1>2, <1>3, <2>1, FiniteInduction
<1>. QED
  BY <1>4

-----------------------------------------------------------------------------
(* Payouts *)

Works(r) == at[r] # "free"

PayoutTypes ==
    /\ payouts \in [PayoutIds -> Nat]
    /\ counted \in [PayoutIds -> Nat]
    /\ deposit \in [PayoutIds -> Nat \cup {NoAmount}]
    /\ at \in [Booking -> {"free", "insert", "count", "deposit"}]
    /\ book \in [Booking -> Bodies \cup {Blank}]
    /\ \A r \in Booking : Works(r) => book[r] \in Bodies

\* In PostgreSQL a handler about to count a payout is the one that inserted
\* it, and nobody has counted it; a handler that goes on to the deposit has
\* booked its payout.
Booked ==
    /\ backend = "postgres" =>
          /\ \A p \in PayoutIds : counted[p] <= payouts[p] /\ payouts[p] <= 1
          /\ \A r \in Booking : at[r] = "count" =>
                /\ counted[book[r].id] = 0 /\ payouts[book[r].id] = 1
                /\ \A q \in Booking : at[q] = "count" /\ book[q].id = book[r].id => q = r
    /\ backend = "memory" => \A r \in Booking : at[r] \notin {"insert", "count"}
    /\ \A r \in Booking : at[r] \in {"count", "deposit"} => payouts[book[r].id] > 0
    /\ \A p \in PayoutIds : p \in answered \/ deposit[p] # NoAmount => payouts[p] > 0

PayoutInv == backend \in Backends /\ PayoutTypes /\ Booked

LEMMA BodyFields == \A b \in Bodies : b.id \in PayoutIds /\ b.account \in Accounts /\ b.net \in Nat
  BY DEF Bodies

LEMMA PayoutInit == CouncilInit => PayoutInv
  BY DEF CouncilInit, PayoutsInit, PayoutInv, PayoutTypes, Booked, Works

\* The steps on accounts change neither payouts nor handlers.
LEMMA AccountStep ==
    ASSUME PayoutInv, NEW a \in Accounts, NEW s, NEW t,
           CreateAccount(a, s) \/ UpdateAccount(a, s, t) \/ Snapshot(a, s, t) \/ DeleteAccount(a)
    PROVE PayoutInv'
<1>1. UNCHANGED <<backend, payouts, counted, deposit, at, book, answered>>
  BY DEF CreateAccount, UpdateAccount, Snapshot, DeleteAccount, NewRow, WriteAccount, DeleteRow,
         booked, recording, payoutHistory
<1>. QED
  BY <1>1 DEF PayoutInv, PayoutTypes, Booked, Works

LEMMA MemoryStep ==
    ASSUME PayoutInv, NEW r \in Booking, NEW b \in Bodies, RecordInMemory(r, b)
    PROVE PayoutInv'
<1>. b.id \in PayoutIds
  BY BodyFields
<1>. DEFINE p == b.id
<1>1. /\ backend = "memory" /\ backend' = backend
      /\ payouts' = [payouts EXCEPT ![p] = @ + 1]
      /\ counted' = [counted EXCEPT ![p] = @ + 1]
      /\ at' = [at EXCEPT ![r] = "deposit"]
      /\ book' = [book EXCEPT ![r] = b]
      /\ UNCHANGED <<deposit, answered>>
  BY DEF RecordInMemory, AddRow, AddToTotal, Take
<1>2. PayoutTypes'
  BY <1>1 DEF PayoutInv, PayoutTypes, Works
<1>3. \A q \in PayoutIds : payouts'[q] >= payouts[q] /\ payouts'[p] > 0
  BY <1>1 DEF PayoutInv, PayoutTypes
<1>4. Booked'
  BY <1>1, <1>3, BodyFields DEF PayoutInv, PayoutTypes, Booked, Works
<1>. QED
  BY <1>1, <1>2, <1>4 DEF PayoutInv

LEMMA ReadSplitStep ==
    ASSUME PayoutInv, NEW r \in Booking, NEW b \in Bodies, ReadSplit(r, b)
    PROVE PayoutInv'
<1>1. /\ backend = "postgres" /\ backend' = backend
      /\ at' = [at EXCEPT ![r] = "insert"]
      /\ book' = [book EXCEPT ![r] = b]
      /\ UNCHANGED <<payouts, counted, deposit, answered>>
  BY DEF ReadSplit, Take, booked, payoutHistory
<1>. QED
  BY <1>1 DEF PayoutInv, PayoutTypes, Booked, Works

\* The key refuses a payout that is there; one that is not there has not been
\* counted, and no other handler is about to count it.
LEMMA InsertStep ==
    ASSUME PayoutInv, NEW r \in Booking, Insert(r)
    PROVE PayoutInv'
<1>. DEFINE p == book[r].id
<1>. p \in PayoutIds /\ backend = "postgres"
  BY BodyFields DEF PayoutInv, PayoutTypes, Booked, Works, Insert, Backends
<1>1. CASE payouts[p] > 0
  <2>1. /\ at' = [at EXCEPT ![r] = "free"]
        /\ book' = [book EXCEPT ![r] = Blank]
        /\ UNCHANGED <<backend, payouts, counted, deposit, answered>>
    BY <1>1 DEF Insert, Free, booked
  <2>. QED
    BY <2>1 DEF PayoutInv, PayoutTypes, Booked, Works
<1>2. CASE ~ (payouts[p] > 0)
  <2>1. /\ payouts' = [payouts EXCEPT ![p] = @ + 1]
        /\ at' = [at EXCEPT ![r] = "count"]
        /\ UNCHANGED <<backend, counted, book, deposit, answered>>
    BY <1>2 DEF Insert, AddRow, Proceed
  <2>2. at[r] = "insert" /\ payouts[p] = 0 /\ counted[p] = 0
    BY <1>2 DEF Insert, PayoutInv, PayoutTypes, Booked
  <2>3. PayoutTypes'
    BY <2>1, <2>2 DEF PayoutInv, PayoutTypes, Works
  <2>4. \A q \in Booking : at[q] = "count" => book[q].id # p
    BY <2>2 DEF PayoutInv, Booked
  <2>5. payouts'[p] = 1 /\ \A q \in PayoutIds : q # p => payouts'[q] = payouts[q]
    BY <2>1, <2>2 DEF PayoutInv, PayoutTypes
  <2>6. \A q \in Booking : Works(q) => book[q].id \in PayoutIds
    BY BodyFields DEF PayoutInv, PayoutTypes
  <2>7. Booked'
    BY <2>1, <2>2, <2>4, <2>5, <2>6 DEF PayoutInv, PayoutTypes, Booked, Works
  <2>. QED
    BY <2>1, <2>3, <2>7 DEF PayoutInv
<1>. QED
  BY <1>1, <1>2

LEMMA CountStep ==
    ASSUME PayoutInv, NEW r \in Booking, Count(r) \/ CountFails(r)
    PROVE PayoutInv'
<1>. DEFINE p == book[r].id
<1>. at[r] = "count" /\ p \in PayoutIds /\ backend = "postgres"
  BY BodyFields DEF PayoutInv, PayoutTypes, Booked, Works, Count, CountFails, Backends
<1>1. CASE Count(r)
  <2>1. /\ at' = [at EXCEPT ![r] = "deposit"]
        /\ counted' \in {counted, [counted EXCEPT ![p] = @ + 1]}
        /\ UNCHANGED <<backend, payouts, book, deposit, answered>>
    BY <1>1 DEF Count, AddToTotal, Proceed, booked
  <2>2. counted' \in [PayoutIds -> Nat]
    BY <2>1 DEF PayoutInv, PayoutTypes
  <2>3. counted'[p] <= 1 /\ \A q \in PayoutIds : q # p => counted'[q] = counted[q]
    BY <2>1 DEF PayoutInv, PayoutTypes, Booked
  <2>4. \A q \in Booking : at'[q] = "count" => at[q] = "count" /\ book[q].id # p
    BY <2>1 DEF PayoutInv, PayoutTypes, Booked
  <2>5. \A q \in Booking : Works(q) => book[q].id \in PayoutIds
    BY BodyFields DEF PayoutInv, PayoutTypes
  <2>6. Booked'
    BY <2>1, <2>3, <2>4, <2>5 DEF PayoutInv, PayoutTypes, Booked, Works
  <2>. QED
    BY <2>1, <2>2, <2>6 DEF PayoutInv, PayoutTypes, Works
<1>2. CASE CountFails(r)
  <2>1. /\ at' = [at EXCEPT ![r] = "free"]
        /\ book' = [book EXCEPT ![r] = Blank]
        /\ UNCHANGED <<backend, payouts, counted, deposit, answered>>
    BY <1>2 DEF CountFails, Free, booked
  <2>. QED
    BY <2>1 DEF PayoutInv, PayoutTypes, Booked, Works
<1>. QED
  BY <1>1, <1>2

LEMMA DepositStep ==
    ASSUME PayoutInv, NEW r \in Booking, Deposit(r) \/ DepositFails(r)
    PROVE PayoutInv'
<1>. DEFINE p == book[r].id
<1>1. p \in PayoutIds /\ book[r].net \in Nat /\ payouts[p] > 0
  BY BodyFields DEF PayoutInv, PayoutTypes, Booked, Works, Deposit, DepositFails
<1>2. /\ at' = [at EXCEPT ![r] = "free"]
      /\ book' = [book EXCEPT ![r] = Blank]
      /\ answered' = answered \cup {p}
      /\ deposit' \in {deposit, [deposit EXCEPT ![p] = book[r].net]}
      /\ UNCHANGED <<backend, payouts, counted>>
  BY DEF Deposit, DepositFails, Free, booked
<1>3. \A q \in PayoutIds : q # p => deposit'[q] = deposit[q]
  BY <1>2 DEF PayoutInv, PayoutTypes
<1>4. PayoutTypes'
  BY <1>1, <1>2 DEF PayoutInv, PayoutTypes, Works
<1>5. Booked'
  BY <1>1, <1>2, <1>3 DEF PayoutInv, PayoutTypes, Booked
<1>. QED
  BY <1>2, <1>4, <1>5 DEF PayoutInv

LEMMA CrashStep == ASSUME PayoutInv, CrashPayouts PROVE PayoutInv'
  BY DEF PayoutInv, PayoutTypes, Booked, Works, CrashPayouts, booked

LEMMA PayoutStepInv == PayoutInv /\ [CouncilNext]_councilVars => PayoutInv'
<1>. SUFFICES ASSUME PayoutInv, [CouncilNext]_councilVars PROVE PayoutInv'
  OBVIOUS
<1>1. CASE UNCHANGED payoutVars
  BY <1>1 DEF PayoutInv, PayoutTypes, Booked, Works, payoutVars
<1>2. CASE PayoutsStep
  BY <1>2, AccountStep, MemoryStep, ReadSplitStep, InsertStep, CountStep, DepositStep, CrashStep
     DEF PayoutsStep
<1>. QED
  BY <1>1, <1>2 DEF CouncilNext, councilVars

\* For any number of accounts, payouts and handlers: in PostgreSQL a payout is
\* in its table and in a total at most once, however often and however
\* overlapped RecordPayout is called for it, and in either store what was
\* answered or deposited is in the table.
THEOREM PayoutBookedOnce == CouncilSpec => []BookedOnce
<1>1. PayoutInv => BookedOnce
  BY DEF PayoutInv, Booked, BookedOnce, ListPayouts
<1>. QED
  BY <1>1, PayoutInit, PayoutStepInv, PTL DEF CouncilSpec

-----------------------------------------------------------------------------
(* The totals *)

TotalTypes ==
    /\ open \subseteq Accounts
    /\ split \in [Accounts -> Splits]
    /\ total \in [Accounts -> Nat]
    /\ due \in [Accounts -> Nat]
    /\ torn \in [Accounts -> Nat]
    /\ net \in [PayoutIds -> Nat]
    /\ amount \in [Booking -> Nat]
    /\ answered \subseteq PayoutIds

\* Few handlers wait at a time, and PayoutsAddUp holds of a deleted account too.
AddsUp(a) ==
    /\ IsFiniteSet(Waiting(a))
    /\ total[a] + Outstanding(a) + torn[a] = due[a]

TotalInv == TotalTypes /\ \A a \in Accounts : AddsUp(a)

LEMMA OutstandingSum ==
    ASSUME NEW a \in Accounts
    PROVE  /\ Outstanding(a) = SumOf(amount, Waiting(a))
           /\ Outstanding(a)' = SumOf(amount', Waiting(a)')
<1>1. Outstanding(a) = SumOf(amount, Waiting(a))
  BY DEF Outstanding, SumOf
<1>2. Outstanding(a)' = SumOf(amount', Waiting(a)')
  BY DEF Outstanding, SumOf, MapThenSumSet, MapThenFoldSet
<1>. QED
  BY <1>1, <1>2

LEMMA OutstandingNat ==
    ASSUME TotalInv, NEW a \in Accounts
    PROVE  Outstanding(a) \in Nat
<1>1. IsFiniteSet(Waiting(a)) /\ \A r \in Waiting(a) : amount[r] \in Nat
  BY DEF TotalInv, TotalTypes, AddsUp, Waiting
<1>. QED
  BY <1>1, OutstandingSum, SumNat

\* An account of which no handler comes or goes,
LEMMA OutstandingSame ==
    ASSUME TotalInv, NEW a \in Accounts, Waiting(a)' = Waiting(a),
           \A r \in Waiting(a) : amount'[r] = amount[r]
    PROVE  IsFiniteSet(Waiting(a)') /\ Outstanding(a)' = Outstanding(a)
<1>1. IsFiniteSet(Waiting(a))
  BY DEF TotalInv, AddsUp
<1>2. SumOf(amount', Waiting(a)) = SumOf(amount, Waiting(a))
  BY <1>1, SumSame
<1>. QED
  BY <1>1, <1>2, OutstandingSum

\* one that a handler comes to,
LEMMA OutstandingMore ==
    ASSUME TotalInv, NEW a \in Accounts, NEW r \in Booking, r \notin Waiting(a),
           Waiting(a)' = Waiting(a) \cup {r}, amount' = amount
    PROVE  IsFiniteSet(Waiting(a)') /\ Outstanding(a)' = amount[r] + Outstanding(a)
<1>1. IsFiniteSet(Waiting(a)')
  BY FS_AddElement DEF TotalInv, AddsUp
<1>2. r \in Waiting(a)' /\ Waiting(a)' \ {r} = Waiting(a) /\ \A q \in Waiting(a)' : amount[q] \in Nat
  BY DEF TotalInv, TotalTypes, Waiting
<1>3. SumOf(amount, Waiting(a)') = amount[r] + SumOf(amount, Waiting(a)' \ {r})
  BY <1>1, <1>2, SumRemove
<1>. QED
  BY <1>1, <1>2, <1>3, OutstandingSum

\* and one that a handler leaves.
LEMMA OutstandingLess ==
    ASSUME TotalInv, NEW a \in Accounts, NEW r \in Waiting(a),
           Waiting(a)' = Waiting(a) \ {r}, \A q \in Waiting(a)' : amount'[q] = amount[q]
    PROVE  IsFiniteSet(Waiting(a)') /\ Outstanding(a) = amount[r] + Outstanding(a)'
<1>1. IsFiniteSet(Waiting(a)) /\ IsFiniteSet(Waiting(a)')
  BY FS_RemoveElement DEF TotalInv, AddsUp
<1>2. \A q \in Waiting(a) : amount[q] \in Nat
  BY DEF TotalInv, TotalTypes, Waiting
<1>3. SumOf(amount, Waiting(a)) = amount[r] + SumOf(amount, Waiting(a)')
  BY <1>1, <1>2, SumRemove
<1>4. SumOf(amount', Waiting(a)') = SumOf(amount, Waiting(a)')
  BY <1>1, SumSame
<1>. QED
  BY <1>1, <1>3, <1>4, OutstandingSum

LEMMA TotalInit == CouncilInit => TotalInv
<1>. SUFFICES ASSUME CouncilInit PROVE TotalInv
  OBVIOUS
<1>1. TotalTypes
  BY DEF CouncilInit, PayoutsInit, TotalTypes, Splits, Prop, Personal
<1>2. ASSUME NEW a \in Accounts PROVE AddsUp(a)
  <2>1. Waiting(a) = {} /\ IsFiniteSet({})
    BY FS_EmptySet DEF CouncilInit, PayoutsInit, Waiting
  <2>2. Outstanding(a) = 0
    BY <2>1, OutstandingSum, SumRec
  <2>. QED
    BY <2>1, <2>2 DEF CouncilInit, PayoutsInit, AddsUp
<1>. QED
  BY <1>1, <1>2 DEF TotalInv

\* A row that is written starts a new sum, with the payouts still to be added.
LEMMA AccountTotals ==
    ASSUME TotalInv, NEW a \in Accounts, NEW s \in Splits, NEW t \in Nat,
           CreateAccount(a, s) \/ UpdateAccount(a, s, t) \/ Snapshot(a, s, t) \/ DeleteAccount(a)
    PROVE TotalInv'
<1>1. UNCHANGED <<backend, net, at, book, amount, answered>>
  BY DEF CreateAccount, UpdateAccount, Snapshot, DeleteAccount, NewRow, WriteAccount, DeleteRow,
         booked, recording, payoutHistory
<1>2. \A b \in Accounts : /\ Waiting(b)' = Waiting(b) /\ IsFiniteSet(Waiting(b))
                          /\ Outstanding(b)' = Outstanding(b) /\ Outstanding(b) \in Nat
  <2>. SUFFICES ASSUME NEW b \in Accounts
                PROVE  /\ Waiting(b)' = Waiting(b) /\ IsFiniteSet(Waiting(b))
                       /\ Outstanding(b)' = Outstanding(b) /\ Outstanding(b) \in Nat
    OBVIOUS
  <2>1. Waiting(b)' = Waiting(b)
    BY <1>1 DEF Waiting
  <2>. QED
    BY <1>1, <2>1, OutstandingSame, OutstandingNat
<1>3. CASE DeleteAccount(a)
  <2>1. open' \subseteq open /\ UNCHANGED <<split, total, due, torn>>
    BY <1>3 DEF DeleteAccount, DeleteRow, payoutHistory
  <2>. QED
    BY <1>1, <1>2, <2>1 DEF TotalInv, TotalTypes, AddsUp
<1>4. ASSUME NEW n \in Nat, WriteAccount(a, s, n) PROVE TotalInv'
  <2>1. /\ open' = open \cup {a}
        /\ split' = [split EXCEPT ![a] = s]
        /\ total' = [total EXCEPT ![a] = n]
        /\ due' = [due EXCEPT ![a] = n + Outstanding(a)]
        /\ torn' = [torn EXCEPT ![a] = 0]
    BY <1>4 DEF WriteAccount
  <2>2. TotalTypes'
    BY <1>1, <1>2, <2>1 DEF TotalInv, TotalTypes
  <2>3. ASSUME NEW b \in Accounts PROVE AddsUp(b)'
    BY <1>2, <2>1 DEF TotalInv, TotalTypes, AddsUp
  <2>. QED
    BY <2>2, <2>3 DEF TotalInv
<1>. QED
  BY <1>3, <1>4 DEF CreateAccount, UpdateAccount, Snapshot, NewRow

\* The booking of the in-memory store, whose handlers do not wait.
LEMMA MemoryTotals ==
    ASSUME PayoutInv, TotalInv, NEW r \in Booking, NEW b \in Bodies, RecordInMemory(r, b)
    PROVE TotalInv'
<1>. DEFINE a == b.account
            n == NetOf(b, split[a])
<1>1. a \in Accounts /\ b.id \in PayoutIds /\ n \in Nat
  BY BodyFields DEF TotalInv, TotalTypes, NetOf, Splits, Prop, Personal
<1>. HIDE DEF n
<1>2. /\ at[r] = "free"
      /\ net' = [net EXCEPT ![b.id] = n]
      /\ total' = [total EXCEPT ![a] = @ + n]
      /\ due' = [due EXCEPT ![a] = @ + n]
      /\ at' = [at EXCEPT ![r] = "deposit"]
      /\ book' = [book EXCEPT ![r] = b]
      /\ amount' = [amount EXCEPT ![r] = n]
      /\ UNCHANGED <<open, split, torn, answered>>
  BY DEF RecordInMemory, AddRow, AddToTotal, Take, n
<1>3. TotalTypes'
  BY <1>1, <1>2 DEF TotalInv, TotalTypes
<1>4. ASSUME NEW c \in Accounts PROVE AddsUp(c)'
  <2>1. Waiting(c)' = Waiting(c) /\ \A q \in Waiting(c) : amount'[q] = amount[q]
    BY <1>2 DEF PayoutInv, PayoutTypes, TotalInv, TotalTypes, Waiting
  <2>2. IsFiniteSet(Waiting(c)') /\ Outstanding(c)' = Outstanding(c) /\ Outstanding(c) \in Nat
    BY <2>1, OutstandingSame, OutstandingNat
  <2>. QED
    BY <1>1, <1>2, <2>2 DEF TotalInv, TotalTypes, AddsUp
<1>. QED
  BY <1>3, <1>4 DEF TotalInv

\* The steps of a handler that does not wait to count.
LEMMA HandlerTotals ==
    ASSUME PayoutInv, TotalInv, NEW r \in Booking,
           \/ \E b \in Bodies : ReadSplit(r, b)
           \/ Insert(r) /\ payouts[book[r].id] > 0
           \/ Deposit(r) \/ DepositFails(r)
    PROVE TotalInv'
<1>1. /\ at[r] # "count"
      /\ \E stage \in {"free", "insert"} : at' = [at EXCEPT ![r] = stage]
      /\ \E b : book' = [book EXCEPT ![r] = b]
      /\ UNCHANGED <<open, split, total, net, due, torn>>
  BY DEF ReadSplit, Insert, Deposit, DepositFails, Take, Free, accounts, booked, payoutHistory
<1>2. \E n \in Nat : amount' = [amount EXCEPT ![r] = n]
  <2>1. \A b \in Bodies : NetOf(b, split[b.account]) \in Nat
    BY BodyFields DEF TotalInv, TotalTypes, NetOf, Splits, Prop, Personal
  <2>. QED
    BY <2>1 DEF ReadSplit, Insert, Deposit, DepositFails, Take, Free
<1>3. answered' \subseteq PayoutIds
  BY BodyFields DEF PayoutInv, PayoutTypes, Works, TotalInv, TotalTypes, ReadSplit, Insert, Deposit,
                    DepositFails, payoutHistory
<1>4. TotalTypes'
  BY <1>1, <1>2, <1>3 DEF TotalInv, TotalTypes
<1>5. ASSUME NEW c \in Accounts PROVE AddsUp(c)'
  <2>1. \A q \in Booking : q # r => at'[q] = at[q] /\ book'[q] = book[q] /\ amount'[q] = amount[q]
    BY <1>1, <1>2 DEF PayoutInv, PayoutTypes, TotalInv, TotalTypes
  <2>2. at'[r] # "count"
    BY <1>1 DEF PayoutInv, PayoutTypes
  <2>3. Waiting(c)' = Waiting(c) /\ \A q \in Waiting(c) : amount'[q] = amount[q]
    BY <1>1, <2>1, <2>2 DEF Waiting
  <2>4. IsFiniteSet(Waiting(c)') /\ Outstanding(c)' = Outstanding(c)
    BY <2>3, OutstandingSame
  <2>. QED
    BY <1>1, <2>4 DEF TotalInv, AddsUp
<1>. QED
  BY <1>4, <1>5 DEF TotalInv

\* A payout is due from its INSERT on, while its handler waits.
LEMMA InsertTotals ==
    ASSUME PayoutInv, TotalInv, NEW r \in Booking, Insert(r), ~(payouts[book[r].id] > 0)
    PROVE TotalInv'
<1>. DEFINE a == book[r].account
<1>1. /\ at[r] = "insert"
      /\ net' = [net EXCEPT ![book[r].id] = amount[r]]
      /\ due' = [due EXCEPT ![a] = @ + amount[r]]
      /\ at' = [at EXCEPT ![r] = "count"]
      /\ UNCHANGED <<open, split, total, torn, answered, book, amount>>
  BY DEF Insert, AddRow, Proceed, accounts
<1>2. a \in Accounts /\ amount[r] \in Nat
  BY <1>1, BodyFields DEF PayoutInv, PayoutTypes, Works, TotalInv, TotalTypes
<1>3. TotalTypes'
  <2>1. due[a] + amount[r] \in Nat
    BY <1>2 DEF TotalInv, TotalTypes
  <2>2. due' \in [Accounts -> Nat] /\ net' \in [PayoutIds -> Nat]
    BY <1>1, <1>2, <2>1 DEF TotalInv, TotalTypes
  <2>. QED
    BY <1>1, <2>2 DEF TotalInv, TotalTypes
<1>4. \A q \in Booking : at'[q] = "count" <=> at[q] = "count" \/ q = r
  BY <1>1 DEF PayoutInv, PayoutTypes
<1>5. ASSUME NEW c \in Accounts PROVE AddsUp(c)'
  <2>0. Outstanding(c) \in Nat
    BY OutstandingNat
  <2>1. CASE c = a
    <3>1. Waiting(c)' = Waiting(c) \cup {r} /\ r \notin Waiting(c)
      BY <1>1, <1>4, <2>1 DEF Waiting
    <3>2. IsFiniteSet(Waiting(c)') /\ Outstanding(c)' = amount[r] + Outstanding(c)
      BY <1>1, <3>1, OutstandingMore
    <3>. QED
      BY <1>1, <1>2, <2>0, <2>1, <3>2 DEF TotalInv, TotalTypes, AddsUp
  <2>2. CASE c # a
    <3>1. Waiting(c)' = Waiting(c)
      BY <1>1, <1>4, <2>2 DEF Waiting
    <3>2. IsFiniteSet(Waiting(c)') /\ Outstanding(c)' = Outstanding(c)
      BY <1>1, <3>1, OutstandingSame
    <3>. QED
      BY <1>1, <2>2, <3>2 DEF TotalInv, TotalTypes, AddsUp
  <2>. QED
    BY <2>1, <2>2
<1>. QED
  BY <1>3, <1>5 DEF TotalInv

\* What a handler waited with goes to the total, or is torn from it.
LEMMA CountTotals ==
    ASSUME PayoutInv, TotalInv, NEW r \in Booking, Count(r) \/ CountFails(r)
    PROVE TotalInv'
<1>. DEFINE a == book[r].account
<1>1. /\ at[r] = "count"
      /\ \E stage \in {"free", "deposit"} : at' = [at EXCEPT ![r] = stage]
      /\ \E b : book' = [book EXCEPT ![r] = b]
      /\ \E n \in Nat : amount' = [amount EXCEPT ![r] = n]
      /\ \/ total' = [total EXCEPT ![a] = @ + amount[r]] /\ UNCHANGED torn
         \/ torn' = [torn EXCEPT ![a] = @ + amount[r]] /\ UNCHANGED total
      /\ UNCHANGED <<open, split, net, due, answered>>
  <2>1. CASE Count(r)
    <3>1. at[r] = "count" /\ at' = [at EXCEPT ![r] = "deposit"] /\ UNCHANGED <<book, amount>>
      BY <2>1 DEF Count, Proceed
    <3>2. book' = [book EXCEPT ![r] = book[r]] /\ amount' = [amount EXCEPT ![r] = amount[r]]
          /\ amount[r] \in Nat
      BY <3>1 DEF PayoutInv, PayoutTypes, TotalInv, TotalTypes
    <3>. QED
      BY <2>1, <3>1, <3>2 DEF Count, AddToTotal, booked
  <2>2. CASE CountFails(r)
    BY <2>2 DEF CountFails, Free, accounts, booked
  <2>. QED
    BY <2>1, <2>2
<1>2. a \in Accounts /\ amount[r] \in Nat
  BY <1>1, BodyFields DEF PayoutInv, PayoutTypes, Works, TotalInv, TotalTypes
<1>3. TotalTypes'
  BY <1>1, <1>2 DEF TotalInv, TotalTypes
<1>4. /\ at'[r] # "count"
      /\ \A q \in Booking : q # r => at'[q] = at[q] /\ book'[q] = book[q] /\ amount'[q] = amount[q]
  BY <1>1 DEF PayoutInv, PayoutTypes, TotalInv, TotalTypes
<1>5. ASSUME NEW c \in Accounts PROVE AddsUp(c)'
  <2>1. CASE c = a
    <3>1. Waiting(c)' = Waiting(c) \ {r} /\ r \in Waiting(c) /\ \A q \in Waiting(c)' : amount'[q] = amount[q]
      BY <1>1, <1>4, <2>1 DEF Waiting
    <3>2. IsFiniteSet(Waiting(c)') /\ Outstanding(c) = amount[r] + Outstanding(c)'
      BY <3>1, OutstandingLess
    <3>3. Outstanding(c)' \in Nat
      <4>1. \A q \in Waiting(c)' : amount'[q] \in Nat
        BY <1>3 DEF TotalTypes, Waiting
      <4>. QED
        BY <3>2, <4>1, OutstandingSum, SumNat
    <3>4. total'[c] + torn'[c] = total[c] + torn[c] + amount[r] /\ due'[c] = due[c]
          /\ total'[c] \in Nat /\ torn'[c] \in Nat /\ total[c] \in Nat /\ torn[c] \in Nat
      BY <1>1, <1>2, <2>1 DEF TotalInv, TotalTypes
    <3>5. total[c] + Outstanding(c) + torn[c] = due[c]
      BY DEF TotalInv, AddsUp
    <3>. QED
      BY <1>2, <3>2, <3>3, <3>4, <3>5 DEF AddsUp
  <2>2. CASE c # a
    <3>1. Waiting(c)' = Waiting(c) /\ \A q \in Waiting(c) : amount'[q] = amount[q]
      BY <1>4, <2>2 DEF Waiting
    <3>2. IsFiniteSet(Waiting(c)') /\ Outstanding(c)' = Outstanding(c)
      BY <3>1, OutstandingSame
    <3>3. total'[c] = total[c] /\ torn'[c] = torn[c] /\ due'[c] = due[c]
      BY <1>1, <2>2 DEF TotalInv, TotalTypes
    <3>. QED
      BY <3>2, <3>3 DEF TotalInv, AddsUp
  <2>. QED
    BY <2>1, <2>2
<1>. QED
  BY <1>3, <1>5 DEF TotalInv

\* A crash tears what was waiting.
LEMMA CrashTotals ==
    ASSUME TotalInv, CrashPayouts
    PROVE TotalInv'
<1>1. /\ at' = [r \in Booking |-> "free"]
      /\ amount' = [r \in Booking |-> 0]
      /\ torn' = [a \in Accounts |-> torn[a] + Outstanding(a)]
      /\ UNCHANGED <<open, split, total, net, due, answered>>
  BY DEF CrashPayouts, accounts, booked
<1>2. \A a \in Accounts : Outstanding(a) \in Nat
  BY OutstandingNat
<1>3. TotalTypes'
  BY <1>1, <1>2 DEF TotalInv, TotalTypes
<1>4. ASSUME NEW a \in Accounts PROVE AddsUp(a)'
  <2>1. Waiting(a)' = {} /\ IsFiniteSet({})
    BY <1>1, FS_EmptySet DEF Waiting
  <2>2. Outstanding(a)' = 0
    BY <2>1, OutstandingSum, SumRec
  <2>. QED
    BY <1>1, <1>2, <2>1, <2>2 DEF TotalInv, TotalTypes, AddsUp
<1>. QED
  BY <1>3, <1>4 DEF TotalInv

LEMMA TotalStepInv == PayoutInv /\ TotalInv /\ [CouncilNext]_councilVars => TotalInv'
<1>. SUFFICES ASSUME PayoutInv, TotalInv, [CouncilNext]_councilVars PROVE TotalInv'
  OBVIOUS
<1>1. CASE UNCHANGED payoutVars
  <2>1. UNCHANGED <<open, split, total, net, at, book, amount, due, torn, answered>>
    BY <1>1 DEF payoutVars
  <2>2. \A a \in Accounts : Waiting(a)' = Waiting(a)
    BY <2>1 DEF Waiting
  <2>3. \A a \in Accounts : IsFiniteSet(Waiting(a)') /\ Outstanding(a)' = Outstanding(a)
    BY <2>1, <2>2, OutstandingSame
  <2>. QED
    BY <2>1, <2>3 DEF TotalInv, TotalTypes, AddsUp
<1>2. CASE PayoutsStep
  <2>1. ASSUME NEW a \in Accounts,
               \/ \E s \in Splits : CreateAccount(a, s)
               \/ \E s \in Splits, t \in Totals : UpdateAccount(a, s, t) \/ Snapshot(a, s, t)
               \/ DeleteAccount(a)
        PROVE  TotalInv'
    <3>1. Prop \in Splits /\ 0 \in Nat /\ \A t \in Totals : t \in Nat
      BY PayoutsAssumption DEF Splits
    <3>. QED
      BY <2>1, <3>1, AccountTotals
  <2>2. ASSUME NEW r \in Booking,
               \/ \E b \in Bodies : RecordInMemory(r, b) \/ ReadSplit(r, b)
               \/ Insert(r) \/ Count(r) \/ CountFails(r) \/ Deposit(r) \/ DepositFails(r)
        PROVE  TotalInv'
    BY <2>2, MemoryTotals, HandlerTotals, InsertTotals, CountTotals
  <2>. QED
    BY <1>2, <2>1, <2>2, CrashTotals DEF PayoutsStep
<1>. QED
  BY <1>1, <1>2 DEF CouncilNext, councilVars

\* For any number of accounts, payouts and handlers: an account's total, what
\* handlers have inserted and not counted, and what was torn from it by a
\* failure make up what its row was written with and all payouts since.
THEOREM TotalsAddUp == CouncilSpec => []PayoutsAddUp
<1>1. PayoutInv /\ TotalInv => PayoutsAddUp
  BY DEF TotalInv, TotalTypes, AddsUp, PayoutsAddUp, ListAccounts
<1>. QED
  BY <1>1, PayoutInit, PayoutStepInv, TotalInit, TotalStepInv, PTL DEF CouncilSpec

-----------------------------------------------------------------------------
(* Contributions *)

GiftInv == gifts \in [Gift -> Nat] /\ ContributionOnce

LEMMA GiftInit == CouncilInit => GiftInv
  BY DEF CouncilInit, GoalsInit, GiftInv, ContributionOnce, Gift

LEMMA ContributeStep ==
    ASSUME GiftInv, NEW c \in GiftIds, NEW g \in GoalIds, Contribute(c, g)
    PROVE GiftInv'
<1>. <<c, g>> \in Gift
  BY DEF Gift
<1>1. gifts' = [gifts EXCEPT ![<<c, g>>] = @ + 1] /\ backend' = backend
  BY DEF Contribute, AddGift
<1>2. gifts' \in [Gift -> Nat]
  BY <1>1 DEF GiftInv
<1>3. ASSUME backend = "postgres",
             NEW d \in GiftIds, NEW h \in GoalIds, NEW i \in GoalIds,
             gifts'[<<d, h>>] > 0, gifts'[<<d, i>>] > 0
      PROVE h = i /\ gifts'[<<d, h>>] = 1
  <2>. <<d, h>> \in Gift /\ <<d, i>> \in Gift
    BY DEF Gift
  <2>1. CASE d = c
    <3>1. \A k \in GoalIds : <<c, k>> \in Gift /\ gifts[<<c, k>>] = 0
      BY <1>3 DEF Contribute, Gift
    <3>2. \A k \in GoalIds : gifts'[<<c, k>>] = IF k = g THEN 1 ELSE 0
      BY <1>1, <3>1 DEF GiftInv
    <3>. QED
      BY <1>3, <2>1, <3>2
  <2>2. CASE d # c
    BY <1>1, <1>3, <2>2 DEF GiftInv, ContributionOnce
  <2>. QED
    BY <2>1, <2>2
<1>. QED
  BY <1>1, <1>2, <1>3 DEF GiftInv, ContributionOnce

LEMMA GiftStepInv == GiftInv /\ [CouncilNext]_councilVars => GiftInv'
<1>. SUFFICES ASSUME GiftInv, [CouncilNext]_councilVars PROVE GiftInv'
  OBVIOUS
<1>1. CASE UNCHANGED <<backend, gifts>>
  BY <1>1 DEF GiftInv, ContributionOnce
<1>2. CASE GoalsStep
  <2>1. ASSUME NEW c \in GiftIds, NEW g \in GoalIds, Contribute(c, g) PROVE GiftInv'
    BY <2>1, ContributeStep
  <2>2. \/ UNCHANGED <<backend, gifts>>
        \/ \E c \in GiftIds, g \in GoalIds : Contribute(c, g)
    BY <1>2 DEF GoalsStep, CreateGoal, NewGoal, DeleteGoal, DropGoal, ReadGoal, PutGoal
  <2>. QED
    BY <1>1, <2>1, <2>2
<1>. QED
  BY <1>1, <1>2 DEF CouncilNext, councilVars, goalVars

\* For any number of goals, contributions and clients: PostgreSQL keeps one
\* row, for one goal, of a contribution that ContributeToGoal is called for
\* any number of times.
THEOREM ContributedOnce == CouncilSpec => []ContributionOnce
<1>1. GiftInv => ContributionOnce
  BY DEF GiftInv
<1>. QED
  BY <1>1, GiftInit, GiftStepInv, PTL DEF CouncilSpec

-----------------------------------------------------------------------------
(* Goals *)

\* The contributions that Given counts, one by one.
Listed(g) == {k \in GiftIds \X (1 .. MaxGifts) : k[2] <= gifts[<<k[1], g>>]}

GoalTypes ==
    /\ status \in [GoalIds -> {"active", "paused", "completed", "none"}]
    /\ saved \in [GoalIds -> Nat]
    /\ target \in [GoalIds -> Nat]
    /\ gifts \in [Gift -> Nat]
    /\ page \in [Editors -> GoalIds \cup {"none"}]
    /\ read \in [Editors -> Nat]
    /\ opening \in [GoalIds -> Int]
    /\ lost \in [GoalIds -> BOOLEAN]

GoalInv ==
    /\ GoalTypes
    /\ \A g \in GoalIds : IsFiniteSet(Listed(g))
    /\ ContributionsAddUp

LEMMA GivenListed ==
    ASSUME GoalInv, NEW g \in GoalIds
    PROVE  Given(g) = Cardinality(Listed(g)) /\ Given(g) \in Nat
BY FS_CardinalityType DEF Given, Listed, GoalInv

LEMMA GoalInit == CouncilInit => GoalInv
<1>. SUFFICES ASSUME CouncilInit PROVE GoalInv
  OBVIOUS
<1>1. GoalTypes
  BY DEF CouncilInit, GoalsInit, GoalTypes
<1>2. ASSUME NEW g \in GoalIds PROVE IsFiniteSet(Listed(g))
  <2>1. \A k \in GiftIds \X (1 .. MaxGifts) : k[2] \in 1 .. MaxGifts /\ gifts[<<k[1], g>>] = 0
    BY DEF CouncilInit, GoalsInit, Gift
  <2>2. Listed(g) = {}
    BY <2>1 DEF Listed
  <2>. QED
    BY <2>2, FS_EmptySet
<1>3. ContributionsAddUp
  BY DEF CouncilInit, GoalsInit, ContributionsAddUp, HasGoal
<1>. QED
  BY <1>1, <1>2, <1>3 DEF GoalInv

\* Goals whose row and contributions stay are as they were.
LEMMA GoalStill ==
    ASSUME GoalInv, UNCHANGED gifts, NEW g \in GoalIds
    PROVE  Listed(g)' = Listed(g) /\ Given(g)' = Given(g)
BY DEF Listed, Given

LEMMA NewGoals ==
    ASSUME GoalInv, NEW g \in GoalIds, NEW t \in Targets, NEW n \in {0} \cup Targets,
           NEW s \in Statuses, CreateGoal(g, t, n, s)
    PROVE GoalInv'
<1>1. /\ status' = [status EXCEPT ![g] = s]
      /\ saved' = [saved EXCEPT ![g] = n]
      /\ target' = [target EXCEPT ![g] = t]
      /\ opening' = [opening EXCEPT ![g] = n - Given(g)]
      /\ lost' = [lost EXCEPT ![g] = FALSE]
      /\ UNCHANGED <<gifts, page, read>>
  BY DEF CreateGoal, NewGoal, editing
<1>2. n \in Nat /\ t \in Nat /\ s \in {"active", "paused", "completed"}
  BY GoalsAssumption
<1>3. \A h \in GoalIds : Listed(h)' = Listed(h) /\ Given(h)' = Given(h) /\ Given(h) \in Nat
  BY <1>1, GoalStill, GivenListed
<1>4. GoalTypes'
  BY <1>1, <1>2, <1>3 DEF GoalInv, GoalTypes
<1>5. ContributionsAddUp'
  BY <1>1, <1>2, <1>3 DEF GoalInv, GoalTypes, ContributionsAddUp, HasGoal
<1>. QED
  BY <1>3, <1>4, <1>5 DEF GoalInv

\* An edit that changes the amount is lost as a sum; the others keep it.
LEMMA PutGoals ==
    ASSUME GoalInv, NEW x \in Editors, NEW t \in Targets, NEW s \in Statuses, PutGoal(x, t, s)
    PROVE GoalInv'
<1>. DEFINE g == page[x]
            n == read[x]
<1>1. /\ g # "none"
      /\ \/ HasGoal(g) /\ StoreGoal(g, n, t, s)
         \/ UNCHANGED <<status, saved, target, lost>>
      /\ page' = [page EXCEPT ![x] = "none"]
      /\ read' = [read EXCEPT ![x] = 0]
      /\ UNCHANGED <<gifts, opening>>
  BY DEF PutGoal, goals
<1>2. g \in GoalIds /\ n \in Nat /\ t \in Nat /\ s \in {"active", "paused", "completed"}
  BY <1>1, GoalsAssumption DEF GoalInv, GoalTypes
<1>3. \A h \in GoalIds : Listed(h)' = Listed(h) /\ Given(h)' = Given(h)
  BY <1>1, GoalStill
<1>4. Completes(s, n, t) \in {"active", "paused", "completed"}
  BY <1>2 DEF Completes
<1>5. CASE HasGoal(g) /\ StoreGoal(g, n, t, s)
  <2>1. /\ saved' = [saved EXCEPT ![g] = n]
        /\ target' = [target EXCEPT ![g] = t]
        /\ status' = [status EXCEPT ![g] = Completes(s, n, t)]
        /\ lost' = [lost EXCEPT ![g] = @ \/ saved[g] # n]
    BY <1>5 DEF StoreGoal
  <2>2. GoalTypes'
    BY <1>1, <1>2, <1>4, <2>1 DEF GoalInv, GoalTypes
  <2>3. ~lost'[g] => ~lost[g] /\ saved'[g] = saved[g]
    BY <1>2, <2>1 DEF GoalInv, GoalTypes
  <2>4. ContributionsAddUp'
    BY <1>1, <1>2, <1>3, <1>5, <2>1, <2>3 DEF GoalInv, GoalTypes, ContributionsAddUp, HasGoal
  <2>. QED
    BY <1>3, <2>2, <2>4 DEF GoalInv
<1>6. CASE UNCHANGED <<status, saved, target, lost>>
  <2>1. GoalTypes'
    BY <1>1, <1>6 DEF GoalInv, GoalTypes
  <2>2. ContributionsAddUp'
    BY <1>1, <1>3, <1>6 DEF GoalInv, ContributionsAddUp, HasGoal
  <2>. QED
    BY <1>3, <2>1, <2>2 DEF GoalInv
<1>. QED
  BY <1>1, <1>5, <1>6

LEMMA DropGoals ==
    ASSUME GoalInv, NEW g \in GoalIds, DeleteGoal(g) \/ \E x \in Editors : ReadGoal(x, g)
    PROVE GoalInv'
<1>1. UNCHANGED <<gifts, opening, lost>>
  BY DEF DeleteGoal, DropGoal, ReadGoal, goalHistory
<1>2. \A h \in GoalIds : Listed(h)' = Listed(h) /\ Given(h)' = Given(h)
  BY <1>1, GoalStill
<1>3. GoalTypes'
  BY DEF GoalInv, GoalTypes, DeleteGoal, DropGoal, ReadGoal, goalHistory, editing, goals
<1>4. \A h \in GoalIds : HasGoal(h)' => HasGoal(h) /\ saved'[h] = saved[h]
  BY DEF GoalInv, GoalTypes, HasGoal, DeleteGoal, DropGoal, ReadGoal, goals
<1>5. ContributionsAddUp'
  BY <1>1, <1>2, <1>4 DEF GoalInv, ContributionsAddUp
<1>. QED
  BY <1>2, <1>3, <1>5 DEF GoalInv

\* A contribution is one more in the list, and one more in the amount.
LEMMA GiveGoals ==
    ASSUME GoalInv, NEW c \in GiftIds, NEW g \in GoalIds, Contribute(c, g)
    PROVE GoalInv'
<1>. DEFINE n == gifts[<<c, g>>]
<1>1. /\ HasGoal(g)
      /\ gifts' = [gifts EXCEPT ![<<c, g>>] = @ + 1]
      /\ saved' = [saved EXCEPT ![g] = @ + 1]
      /\ status' = [status EXCEPT ![g] = Completes(status[g], saved[g] + 1, target[g])]
      /\ UNCHANGED <<target, page, read, opening, lost>>
  BY DEF Contribute, AddGift, editing
<1>2. n \in Nat /\ n < MaxGifts /\ <<c, g>> \in Gift /\ MaxGifts \in Nat
  BY GoalsAssumption DEF Contribute, GoalInv, GoalTypes, Gift
<1>3. Completes(status[g], saved[g] + 1, target[g]) \in {"active", "paused", "completed"}
  BY <1>1 DEF Completes, HasGoal, GoalInv, GoalTypes
<1>4. GoalTypes'
  BY <1>1, <1>2, <1>3 DEF GoalInv, GoalTypes
<1>5. /\ gifts'[<<c, g>>] = n + 1
      /\ \A k \in Gift : k # <<c, g>> => gifts'[k] = gifts[k]
  BY <1>1, <1>2 DEF GoalInv, GoalTypes
<1>6. Listed(g)' = Listed(g) \cup {<<c, n + 1>>} /\ <<c, n + 1>> \notin Listed(g)
  <2>1. \A d \in GiftIds, i \in 1 .. MaxGifts :
           i <= gifts'[<<d, g>>] <=> i <= gifts[<<d, g>>] \/ (d = c /\ i = n + 1)
    <3>. SUFFICES ASSUME NEW d \in GiftIds, NEW i \in 1 .. MaxGifts
                  PROVE  i <= gifts'[<<d, g>>] <=> i <= gifts[<<d, g>>] \/ (d = c /\ i = n + 1)
      OBVIOUS
    <3>1. CASE d = c
      BY <1>2, <1>5, <3>1
    <3>2. CASE d # c
      <4>1. <<d, g>> \in Gift /\ <<d, g>> # <<c, g>>
        BY <3>2 DEF Gift
      <4>. QED
        BY <1>5, <3>2, <4>1
    <3>. QED
      BY <3>1, <3>2
  <2>2. n + 1 \in 1 .. MaxGifts /\ ~(n + 1 <= n)
    BY <1>2
  <2>3. <<c, n + 1>> \in GiftIds \X (1 .. MaxGifts)
    BY <2>2
  <2>4. \A k \in GiftIds \X (1 .. MaxGifts) : k = <<k[1], k[2]>> /\ k[1] \in GiftIds /\ k[2] \in 1 .. MaxGifts
    OBVIOUS
  <2>5. \A k \in GiftIds \X (1 .. MaxGifts) : k \in Listed(g)' <=> k \in Listed(g) \/ k = <<c, n + 1>>
    BY <2>1, <2>4 DEF Listed
  <2>. QED
    BY <2>2, <2>3, <2>5 DEF Listed
<1>7. IsFiniteSet(Listed(g)') /\ Given(g)' = Given(g) + 1 /\ Given(g) \in Nat
  <2>1. IsFiniteSet(Listed(g)) /\ Given(g) = Cardinality(Listed(g)) /\ Given(g) \in Nat
    BY GivenListed DEF GoalInv
  <2>2. Given(g)' = Cardinality(Listed(g)')
    BY DEF Given, Listed
  <2>. QED
    BY <1>6, <2>1, <2>2, FS_AddElement
<1>8. ASSUME NEW h \in GoalIds, h # g PROVE Listed(h)' = Listed(h) /\ Given(h)' = Given(h)
  <2>1. \A k \in GiftIds \X (1 .. MaxGifts) : gifts'[<<k[1], h>>] = gifts[<<k[1], h>>]
    BY <1>5, <1>8 DEF Gift
  <2>2. Listed(h)' = Listed(h)
    BY <2>1 DEF Listed
  <2>. QED
    BY <2>2 DEF Given, Listed
<1>9. ContributionsAddUp'
  <2>. SUFFICES ASSUME NEW h \in GoalIds, HasGoal(h)', ~lost'[h]
                PROVE  saved'[h] = opening'[h] + Given(h)'
    BY DEF ContributionsAddUp
  <2>1. CASE h = g
    BY <1>1, <1>7, <2>1 DEF GoalInv, GoalTypes, ContributionsAddUp
  <2>2. CASE h # g
    BY <1>1, <1>8, <2>2 DEF GoalInv, GoalTypes, ContributionsAddUp, HasGoal
  <2>. QED
    BY <2>1, <2>2
<1>10. \A h \in GoalIds : IsFiniteSet(Listed(h)')
  BY <1>7, <1>8 DEF GoalInv
<1>. QED
  BY <1>4, <1>9, <1>10 DEF GoalInv

LEMMA GoalStepInv == GoalInv /\ [CouncilNext]_councilVars => GoalInv'
<1>. SUFFICES ASSUME GoalInv, [CouncilNext]_councilVars PROVE GoalInv'
  OBVIOUS
<1>1. CASE UNCHANGED goalVars
  <2>1. UNCHANGED <<status, saved, target, gifts, page, read, opening, lost>>
    BY <1>1 DEF goalVars
  <2>2. \A h \in GoalIds : Listed(h)' = Listed(h) /\ Given(h)' = Given(h)
    BY <2>1, GoalStill
  <2>. QED
    BY <2>1, <2>2 DEF GoalInv, GoalTypes, ContributionsAddUp, HasGoal
<1>2. CASE GoalsStep
  BY <1>2, NewGoals, PutGoals, DropGoals, GiveGoals DEF GoalsStep
<1>. QED
  BY <1>1, <1>2 DEF CouncilNext, councilVars

\* For any number of goals, contributions and editors: a goal has what it was
\* opened with and the contributions listed for it, unless an edit overwrote
\* one that its client had not read.
THEOREM GoalsAddUp == CouncilSpec => []ContributionsAddUp
<1>1. GoalInv => ContributionsAddUp
  BY DEF GoalInv
<1>. QED
  BY <1>1, GoalInit, GoalStepInv, PTL DEF CouncilSpec

-----------------------------------------------------------------------------
(* The roadmap *)

PlanTypes ==
    /\ active \subseteq Phases
    /\ step \in [Writers -> {"free", "change", "write", "delete", "insert", "commit", "aborted"}]
    /\ task \in [Writers -> Tasks \cup {NoTask}]
    /\ copied \in [Writers -> Roadmaps]
    /\ todo \in [Writers -> SUBSET Phases]
    /\ alone \in [Writers -> BOOLEAN]
    /\ raced \in BOOLEAN
    /\ current \in Named
    /\ done \subseteq Milestones
    /\ \A w \in Writers : task[w].kind \in Planning <=> step[w] \in {"change", "write"}

\* The copies of PostgreSQL are coherent, and so is what becomes of them.
Copies ==
    /\ active = {current} \cap Phases
    /\ \A w \in Writers : copied[w].active = {copied[w].current} \cap Phases

Advancing(w, stage) == task[w].kind = "advance" /\ step[w] = stage

\* In memory a change that is alone is the only one, and an advance that is
\* alone has set Active right in the phases it has been through; unless changes
\* have raced, the roadmap is coherent when no advance is in progress.
Slices ==
    /\ \A w \in Writers : todo[w] # {} => Advancing(w, "change")
    /\ \A w \in Writers : alone[w] =>
          /\ task[w].kind \in Planning
          /\ \A v \in Writers : task[v].kind \in Planning => v = w
          /\ Advancing(w, "change") =>
                \A p \in Phases \ todo[w] : p \in active <=> p = task[w].phase
          /\ Advancing(w, "write") =>
                copied[w].current = task[w].phase /\ active = {task[w].phase} \cap Phases
          /\ task[w].kind = "milestone" => copied[w].current = current
    /\ ~raced => \A w \in Writers : task[w].kind \in Planning => alone[w]
    /\ ~raced /\ (\A w \in Writers : task[w].kind # "advance") => active = {current} \cap Phases

PlanInv ==
    /\ backend \in Backends
    /\ PlanTypes
    /\ backend = "postgres" => Copies
    /\ backend = "memory" => Slices

LEMMA Kinds ==
    /\ \A t \in Advances : t.kind = "advance" /\ t.phase \in Named
    /\ \A t \in Updates : t.kind = "milestone" /\ t.milestone \in Milestones /\ t.completed \in BOOLEAN
    /\ \A t \in Settings : t.kind = "allocate"
    /\ NoTask.kind = "none"
  BY DEF Advances, Updates, Settings, NoTask

LEMMA KindOf ==
    ASSUME NEW t \in Tasks \cup {NoTask}
    PROVE /\ t.kind = "advance" => t \in Advances
          /\ t.kind = "milestone" => t \in Updates
  BY Kinds DEF Tasks

LEMMA PlanInit == CouncilInit => PlanInv
<1>. SUFFICES ASSUME CouncilInit PROVE PlanInv
  OBVIOUS
<1>1. FirstPhase \in Phases /\ Initial \in Roadmaps
  BY PlansAssumption DEF Initial, Roadmaps, Named
<1>2. PlanTypes
  BY <1>1, Kinds DEF CouncilInit, PlansInit, PlanTypes, Planning, Named
<1>3. Copies /\ Slices
  BY <1>1, Kinds DEF CouncilInit, PlansInit, Copies, Slices, Initial, Planning, Advancing
<1>. QED
  BY <1>2, <1>3 DEF PlanInv, CouncilInit

LEMMA ReadStep ==
    ASSUME PlanInv, NEW w \in Writers, NEW t \in Advances \cup Updates, ReadRoadmap(w, t)
    PROVE PlanInv'
<1>. DEFINE R == [current |-> current, active |-> active, done |-> done]
<1>1. /\ step[w] = "free"
      /\ step' = [step EXCEPT ![w] = "change"]
      /\ task' = [task EXCEPT ![w] = t]
      /\ copied' = [copied EXCEPT ![w] = R]
      /\ todo' = [todo EXCEPT ![w] = IF t.kind = "advance" THEN Phases ELSE {}]
      /\ alone' = [v \in Writers |-> v = w /\ Busy(Planning) = {}]
      /\ raced' = (raced \/ Busy(Planning) # {})
      /\ UNCHANGED <<backend, active, current, done>>
  BY DEF ReadRoadmap, GetRoadmap, roadmap
<1>2. t.kind \in Planning /\ t \in Tasks
  BY Kinds DEF Planning, Tasks
<1>3. R \in Roadmaps
  BY DEF PlanInv, PlanTypes, Roadmaps
<1>4. PlanTypes'
  BY <1>1, <1>2, <1>3 DEF PlanInv, PlanTypes
<1>5. backend = "postgres" => Copies'
  BY <1>1 DEF PlanInv, PlanTypes, Copies
<1>6. ASSUME backend = "memory" PROVE Slices'
  <2>1. ASSUME NEW v \in Writers, alone'[v]
        PROVE v = w /\ \A u \in Writers : u # w => task[u].kind \notin Planning
    BY <1>1, <2>1 DEF Busy
  <2>2. \A v \in Writers : v # w => task'[v] = task[v]
    BY <1>1 DEF PlanInv, PlanTypes
  <2>3. task'[w] = t /\ step'[w] = "change" /\ copied'[w] = R
    BY <1>1 DEF PlanInv, PlanTypes
  <2>4. t.kind = "advance" => todo'[w] = Phases
    BY <1>1 DEF PlanInv, PlanTypes
  <2>5. ~raced' => alone'[w] /\ ~raced /\ \A u \in Writers : task[u].kind \notin Planning
    BY <1>1 DEF Busy
  <2>6. ~raced' /\ (\A v \in Writers : task'[v].kind # "advance") => active = {current} \cap Phases
    BY <1>6, <2>5 DEF PlanInv, Slices, Planning
  <2>7. ASSUME NEW v \in Writers, todo'[v] # {} PROVE Advancing(v, "change")'
    <3>1. CASE v = w
      BY <1>1, <2>3, <2>7, <3>1 DEF PlanInv, PlanTypes, Advancing
    <3>2. CASE v # w
      BY <1>1, <1>6, <2>2, <2>7, <3>2 DEF PlanInv, PlanTypes, Slices, Advancing
    <3>. QED
      BY <3>1, <3>2
  <2>. QED
    BY <1>1, <1>2, <2>1, <2>2, <2>3, <2>4, <2>5, <2>6, <2>7 DEF Slices, Advancing
<1>. QED
  BY <1>1, <1>4, <1>5, <1>6 DEF PlanInv

\* The copy that PostgreSQL's handler changes stays coherent.
LEMMA CopyStep ==
    ASSUME PlanInv, NEW w \in Writers, ChangeCopy(w)
    PROVE PlanInv'
<1>. DEFINE c == copied[w]
            d == IF task[w].kind = "advance" THEN AdvancedTo(c, task[w].phase)
                                             ELSE MarkedOn(c, task[w])
<1>1. /\ backend = "postgres" /\ step[w] = "change"
      /\ copied' = [copied EXCEPT ![w] = d]
      /\ step' = [step EXCEPT ![w] = "write"]
      /\ UNCHANGED <<backend, active, current, done, task, todo, alone, raced>>
  BY DEF ChangeCopy, roadmap, planHistory, roadmapHistory
<1>2. task[w] \in Advances \/ task[w] \in Updates
  BY <1>1, KindOf DEF PlanInv, PlanTypes, Planning
<1>3. c \in Roadmaps /\ c.active = {c.current} \cap Phases
  BY <1>1 DEF PlanInv, PlanTypes, Copies
<1>4. d \in Roadmaps /\ d.active = {d.current} \cap Phases
  <2>1. CASE task[w] \in Advances
    BY <1>3, <2>1, Kinds DEF AdvancedTo, Roadmaps
  <2>2. CASE task[w] \in Updates
    <3>1. task[w].kind # "advance" /\ task[w].milestone \in Milestones
      BY <2>2, Kinds
    <3>2. d = MarkedOn(c, task[w])
      BY <3>1
    <3>3. d.active = c.active /\ d.current = c.current /\ d \in Roadmaps
      BY <1>3, <3>1, <3>2 DEF MarkedOn, Roadmaps
    <3>. QED
      BY <1>3, <3>3
  <2>. QED
    BY <1>2, <2>1, <2>2
<1>5. PlanTypes'
  BY <1>1, <1>4 DEF PlanInv, PlanTypes
<1>6. Copies'
  BY <1>1, <1>4 DEF PlanInv, PlanTypes, Copies
<1>. QED
  BY <1>1, <1>5, <1>6 DEF PlanInv, Backends

LEMMA SetActiveStep ==
    ASSUME PlanInv, NEW w \in Writers, NEW p \in Phases, SetActive(w, p)
    PROVE PlanInv'
<1>1. /\ backend = "memory" /\ step[w] = "change" /\ p \in todo[w]
      /\ active' = IF p = task[w].phase THEN active \cup {p} ELSE active \ {p}
      /\ todo' = [todo EXCEPT ![w] = @ \ {p}]
      /\ UNCHANGED <<backend, current, done, step, task, copied, alone, raced>>
  BY DEF SetActive, planHistory, roadmapHistory
<1>2. PlanTypes'
  BY <1>1 DEF PlanInv, PlanTypes
<1>3. task[w].kind = "advance"
  BY <1>1 DEF PlanInv, Slices, Advancing
<1>4. \A v \in Writers : alone[v] => v = w
  BY <1>1, <1>3 DEF PlanInv, Slices, Planning
<1>5. alone[w] => \A q \in Phases \ todo'[w] : q \in active' <=> q = task[w].phase
  BY <1>1, <1>3 DEF PlanInv, PlanTypes, Slices, Advancing
<1>6. Slices'
  BY <1>1, <1>3, <1>4, <1>5 DEF PlanInv, PlanTypes, Slices, Advancing, Planning
<1>. QED
  BY <1>1, <1>2, <1>6 DEF PlanInv, Backends

LEMMA MilestoneStep ==
    ASSUME PlanInv, NEW w \in Writers, SetMilestone(w)
    PROVE PlanInv'
<1>1. /\ backend = "memory" /\ step[w] = "change" /\ task[w].kind = "milestone"
      /\ step' = [step EXCEPT ![w] = "write"]
      /\ UNCHANGED <<backend, active, current, task, copied, todo, alone, raced>>
  BY DEF SetMilestone, planHistory, roadmapHistory
<1>2. task[w].milestone \in Milestones
  BY <1>1, KindOf, Kinds DEF PlanInv, PlanTypes
<1>3. done' \subseteq Milestones
  BY <1>2 DEF PlanInv, PlanTypes, SetMilestone
<1>4. PlanTypes'
  BY <1>1, <1>3 DEF PlanInv, PlanTypes
<1>5. Slices'
  BY <1>1 DEF PlanInv, PlanTypes, Slices, Advancing
<1>. QED
  BY <1>1, <1>4, <1>5 DEF PlanInv, Backends

LEMMA AdvanceStep ==
    ASSUME PlanInv, NEW w \in Writers, AdvanceSet(w)
    PROVE PlanInv'
<1>1. /\ backend = "memory" /\ step[w] = "change" /\ task[w].kind = "advance" /\ todo[w] = {}
      /\ copied' = [copied EXCEPT ![w] = [@ EXCEPT !.current = task[w].phase]]
      /\ step' = [step EXCEPT ![w] = "write"]
      /\ UNCHANGED <<backend, active, current, done, task, todo, alone, raced>>
  BY DEF AdvanceSet, roadmap, planHistory, roadmapHistory
<1>2. task[w].phase \in Named
  BY <1>1, KindOf, Kinds DEF PlanInv, PlanTypes
<1>3. PlanTypes'
  BY <1>1, <1>2 DEF PlanInv, PlanTypes, Roadmaps
<1>4. copied'[w].current = task[w].phase /\ \A v \in Writers : v # w => copied'[v] = copied[v]
  BY <1>1 DEF PlanInv, PlanTypes, Roadmaps
<1>5. alone[w] => active = {task[w].phase} \cap Phases
  BY <1>1 DEF PlanInv, PlanTypes, Slices, Advancing
<1>6. Slices'
  BY <1>1, <1>4, <1>5 DEF PlanInv, PlanTypes, Slices, Advancing
<1>. QED
  BY <1>1, <1>3, <1>6 DEF PlanInv, Backends

LEMMA WriteStep ==
    ASSUME PlanInv, NEW w \in Writers, WriteRoadmap(w)
    PROVE PlanInv'
<1>1. /\ step[w] = "write"
      /\ current' = copied[w].current
      /\ copied' = [copied EXCEPT ![w] = Initial]
      /\ alone' = [alone EXCEPT ![w] = FALSE]
      /\ raced' = (raced /\ ~(task[w].kind = "advance" /\ alone[w]))
      /\ step' = [step EXCEPT ![w] = "free"]
      /\ task' = [task EXCEPT ![w] = NoTask]
      /\ UNCHANGED <<backend, todo>>
  BY DEF WriteRoadmap, Settled, Answer
<1>2. /\ backend = "postgres" => active' = copied[w].active /\ done' = copied[w].done
      /\ backend = "memory" => UNCHANGED <<active, done>>
  BY DEF WriteRoadmap, PlanInv, Backends
<1>3. Initial \in Roadmaps /\ Initial.active = {Initial.current} \cap Phases
  BY PlansAssumption DEF Initial, Roadmaps, Named
<1>4. /\ copied[w].current \in Named /\ copied[w].active \subseteq Phases
      /\ copied[w].done \subseteq Milestones
  BY DEF PlanInv, PlanTypes, Roadmaps
<1>5. PlanTypes'
  BY <1>1, <1>2, <1>3, <1>4, Kinds DEF PlanInv, PlanTypes, Planning, Backends
<1>6. backend = "postgres" => Copies'
  BY <1>1, <1>2, <1>3 DEF PlanInv, PlanTypes, Copies
<1>7. ASSUME backend = "memory" PROVE Slices'
  <2>1. task[w].kind \in Planning /\ task'[w].kind = "none" /\ ~alone'[w]
    BY <1>1, Kinds DEF PlanInv, PlanTypes
  <2>2. ASSUME NEW v \in Writers, alone'[v] PROVE FALSE
    BY <1>1, <1>7, <2>1, <2>2 DEF PlanInv, PlanTypes, Slices
  <2>3. ~raced' => alone[w]
    BY <1>1, <1>7, <2>1 DEF PlanInv, Slices
  <2>4. alone[w] => \A v \in Writers : task'[v].kind \notin Planning
    BY <1>1, <1>7, <2>1 DEF PlanInv, PlanTypes, Slices, Planning
  <2>5. ~raced' => active' = {current'} \cap Phases
    <3>1. CASE task[w].kind = "advance"
      BY <1>1, <1>2, <1>7, <2>3, <3>1 DEF PlanInv, Slices, Advancing
    <3>2. CASE task[w].kind = "milestone"
      <4>1. ~raced' => ~raced /\ copied[w].current = current
        BY <1>1, <1>7, <2>3, <3>2 DEF PlanInv, PlanTypes, Slices
      <4>2. ~raced' => \A v \in Writers : task[v].kind # "advance"
        BY <1>7, <2>3, <3>2 DEF PlanInv, Slices, Planning
      <4>. QED
        BY <1>1, <1>2, <1>7, <4>1, <4>2 DEF PlanInv, Slices
    <3>. QED
      BY <2>1, <3>1, <3>2 DEF Planning
  <2>6. ASSUME NEW v \in Writers, todo'[v] # {} PROVE Advancing(v, "change")'
    <3>1. Advancing(v, "change") /\ v # w
      BY <1>1, <1>7, <2>6 DEF PlanInv, Slices, Advancing
    <3>. QED
      BY <1>1, <3>1 DEF PlanInv, PlanTypes, Advancing
  <2>. QED
    BY <2>2, <2>3, <2>4, <2>5, <2>6 DEF Slices
<1>. QED
  BY <1>1, <1>5, <1>6, <1>7 DEF PlanInv

\* The allocations leave the roadmap and its handlers alone.
LEMMA AllocationStep ==
    ASSUME PlanInv, AllocationsStep
    PROVE PlanInv'
<1>1. CASE \E l \in DOMAIN Lists : AllocateInMemory(l)
  <2>1. UNCHANGED <<backend, active, current, done, step, task, copied, todo, alone, raced>>
    BY <1>1 DEF AllocateInMemory, roadmap, writing, roadmapHistory
  <2>. QED
    BY <2>1 DEF PlanInv, PlanTypes, Copies, Slices, Advancing
<1>2. ASSUME NEW w \in Writers,
             \/ \E l \in DOMAIN Lists : BeginAllocate(w, l)
             \/ DeleteLists(w) \/ InsertList(w) \/ CommitList(w)
      PROVE PlanInv'
  <2>1. /\ step[w] \notin {"change", "write"}
        /\ UNCHANGED <<backend, active, current, done, copied, todo, alone, raced>>
    BY <1>2 DEF BeginAllocate, DeleteLists, InsertList, CommitList, roadmap, planHistory,
                roadmapHistory, Answer
  <2>2. \E x \in {"free", "delete", "insert", "commit", "aborted"} :
           step' = [step EXCEPT ![w] = x]
    <3>1. UNCHANGED step => step' = [step EXCEPT ![w] = step[w]]
      BY DEF PlanInv, PlanTypes
    <3>. QED
      BY <1>2, <3>1 DEF BeginAllocate, DeleteLists, InsertList, CommitList, Answer
  <2>3. \E t \in Tasks \cup {NoTask} :
           t.kind \notin Planning /\ task' = [task EXCEPT ![w] = t]
    <3>1. task = [task EXCEPT ![w] = task[w]] /\ task[w] \in Tasks \cup {NoTask}
          /\ task[w].kind \notin Planning
      BY <2>1 DEF PlanInv, PlanTypes
    <3>2. \A l \in DOMAIN Lists : [kind |-> "allocate", list |-> l] \in Tasks
      BY DEF Tasks, Settings
    <3>. QED
      BY <1>2, <3>1, <3>2, Kinds
         DEF BeginAllocate, DeleteLists, InsertList, CommitList, Answer, Planning
  <2>4. \A v \in Writers : v # w => task'[v] = task[v] /\ step'[v] = step[v]
    BY <2>2, <2>3 DEF PlanInv, PlanTypes
  <2>5. task[w].kind \notin Planning /\ task'[w].kind \notin Planning
        /\ step'[w] \notin {"change", "write"}
    BY <2>1, <2>2, <2>3 DEF PlanInv, PlanTypes
  <2>6. PlanTypes'
    <3>1. step' \in [Writers -> {"free", "change", "write", "delete", "insert", "commit", "aborted"}]
      BY <2>2 DEF PlanInv, PlanTypes
    <3>2. task' \in [Writers -> Tasks \cup {NoTask}]
      BY <2>3 DEF PlanInv, PlanTypes
    <3>. QED
      BY <2>1, <2>4, <2>5, <3>1, <3>2 DEF PlanInv, PlanTypes
  <2>7. backend = "postgres" => Copies'
    BY <2>1 DEF PlanInv, Copies
  <2>8. ASSUME backend = "memory" PROVE Slices'
    <3>1. \A v \in Writers : v # w => (Advancing(v, "change") <=> Advancing(v, "change")')
                                      /\ (Advancing(v, "write") <=> Advancing(v, "write")')
      BY <2>4 DEF Advancing
    <3>2. ~alone[w] /\ \A v \in Writers :
             /\ task'[v].kind \in Planning <=> task[v].kind \in Planning
             /\ task'[v].kind = "advance" <=> task[v].kind = "advance"
      BY <2>4, <2>5, <2>8 DEF PlanInv, Slices, Planning
    <3>3. ASSUME NEW v \in Writers, todo'[v] # {} PROVE Advancing(v, "change")'
      BY <2>1, <2>4, <2>8, <3>1, <3>3 DEF PlanInv, Slices, Advancing
    <3>. QED
      BY <2>1, <2>4, <2>8, <3>1, <3>2, <3>3 DEF PlanInv, Slices
  <2>. QED
    BY <2>1, <2>6, <2>7, <2>8 DEF PlanInv
<1>. QED
  BY <1>1, <1>2 DEF AllocationsStep

LEMMA PlanStepInv == PlanInv /\ [CouncilNext]_councilVars => PlanInv'
<1>. SUFFICES ASSUME PlanInv, [CouncilNext]_councilVars PROVE PlanInv'
  OBVIOUS
<1>1. CASE UNCHANGED planVars
  <2>1. UNCHANGED <<backend, active, current, done, step, task, copied, todo, alone, raced>>
    BY <1>1 DEF planVars
  <2>. QED
    BY <2>1 DEF PlanInv, PlanTypes, Copies, Slices, Advancing
<1>2. CASE RoadmapStep
  BY <1>2, ReadStep, CopyStep, SetActiveStep, MilestoneStep, AdvanceStep, WriteStep DEF RoadmapStep
<1>. QED
  BY <1>1, <1>2, AllocationStep DEF CouncilNext, councilVars

\* For any phases, milestones and handlers: the phase that is active is the
\* current one, in PostgreSQL always, in memory while no change is in
\* progress and none has raced since a phase was last advanced alone.
THEOREM RoadmapStaysCoherent == CouncilSpec => []RoadmapCoherent
<1>1. PlanInv => RoadmapCoherent
  <2>. SUFFICES ASSUME PlanInv, backend = "postgres" \/ (Busy(Planning) = {} /\ ~raced)
                PROVE active = {current} \cap Phases
    BY DEF RoadmapCoherent
  <2>1. CASE backend = "postgres"
    BY <2>1 DEF PlanInv, Copies
  <2>2. CASE backend = "memory" /\ Busy(Planning) = {} /\ ~raced
    BY <2>2 DEF PlanInv, Slices, Busy, Planning
  <2>. QED
    BY <2>1, <2>2 DEF PlanInv, Backends
<1>. QED
  BY <1>1, PlanInit, PlanStepInv, PTL DEF CouncilSpec

-----------------------------------------------------------------------------
(* Milestones *)

Plans(w) == task[w].kind \in Planning
Marks(w, k) == task[w].kind = "milestone" /\ task[w].milestone = k
Marked(w, k) == Marks(w, k) /\ step[w] = "write"

\* In memory an update that is about to write back has set its milestone, and
\* nobody has since; without a doubt it is the only one of that milestone, and
\* between updates the milestone is as the last one said.
Shared ==
    /\ \A w \in Writers, k \in Milestones :
          Marked(w, k) /\ (k \notin doubt \/ alone[w]) => (k \in done <=> task[w].completed)
    /\ \A k \in Milestones \ doubt :
          /\ (\A w \in Writers : ~Marked(w, k)) => (k \in done <=> k \in told)
          /\ \A v, w \in Writers : Marks(v, k) /\ Marks(w, k) => v = w

\* In PostgreSQL a change that is alone writes back what is there but for its
\* own milestone, and any other leaves all milestones in doubt.
Replaced ==
    /\ \A w \in Writers : Plans(w) => alone[w] \/ doubt = Milestones
    /\ \A w \in Writers : alone[w] /\ ~(\E k \in Milestones : Marked(w, k)) => copied[w].done = done
    /\ \A w \in Writers, k \in Milestones : alone[w] /\ Marked(w, k) =>
          copied[w].done = IF task[w].completed THEN done \cup {k} ELSE done \ {k}
    /\ \A k \in Milestones \ doubt : k \in done <=> k \in told

\* A change that is alone is the only one in progress.
MarkInv ==
    /\ told \subseteq Milestones /\ doubt \subseteq Milestones
    /\ \A w \in Writers : alone[w] => Plans(w) /\ \A v \in Writers : Plans(v) => v = w
    /\ backend = "memory" => Shared
    /\ backend = "postgres" => Replaced

LEMMA MarkInit == CouncilInit => MarkInv
  BY Kinds DEF CouncilInit, PlansInit, MarkInv, Shared, Replaced, Plans, Marks, Marked, Planning

LEMMA ReadMarks ==
    ASSUME PlanInv, MarkInv, NEW w \in Writers, NEW t \in Advances \cup Updates, ReadRoadmap(w, t)
    PROVE MarkInv'
<1>1. /\ step[w] = "free"
      /\ step' = [step EXCEPT ![w] = "change"]
      /\ task' = [task EXCEPT ![w] = t]
      /\ copied' = [copied EXCEPT ![w] = GetRoadmap]
      /\ alone' = [v \in Writers |-> v = w /\ Busy(Planning) = {}]
      /\ doubt' = doubt \cup Confused(t)
      /\ UNCHANGED <<backend, done, told>>
  BY DEF ReadRoadmap, roadmap
<1>2. /\ task'[w] = t /\ step'[w] = "change" /\ copied'[w].done = done
      /\ \A v \in Writers : v # w => task'[v] = task[v] /\ step'[v] = step[v]
      /\ ~Plans(w) /\ t.kind \in Planning
  BY <1>1, Kinds DEF PlanInv, PlanTypes, GetRoadmap, Plans, Planning
<1>3. \A v \in Writers : alone'[v] => v = w /\ \A u \in Writers : ~Plans(u)
  BY <1>1 DEF Busy, Plans
<1>4. Confused(t) \subseteq Milestones
  BY DEF Confused
<1>5. /\ backend = "postgres" /\ (\E u \in Writers : Plans(u)) => Confused(t) = Milestones
      /\ backend = "memory" => \A k \in Milestones :
            t.kind = "milestone" /\ t.milestone = k /\ (\E v \in Writers : Marks(v, k))
               => k \in Confused(t)
  BY DEF Confused, Busy, Plans, Marks, Planning
<1>6. \A v \in Writers, k \in Milestones : Marked(v, k)' <=> Marked(v, k) /\ v # w
  BY <1>1, <1>2 DEF Marked, Marks
<1>7. ASSUME backend = "memory" PROVE Shared'
  <2>1. ASSUME NEW v \in Writers, NEW k \in Milestones, Marked(v, k)', k \notin doubt' \/ alone'[v]
        PROVE  k \in done' <=> task'[v].completed
    <3>1. v # w /\ Marked(v, k) /\ task'[v] = task[v]
      BY <1>2, <1>6, <2>1
    <3>2. ~alone'[v]
      BY <1>3, <3>1
    <3>. QED
      BY <1>1, <1>7, <2>1, <3>1, <3>2 DEF MarkInv, Shared
  <2>2. ASSUME NEW k \in Milestones \ doubt', \A v \in Writers : ~Marked(v, k)'
        PROVE  k \in done' <=> k \in told'
    <3>1. \A v \in Writers : ~Marked(v, k)
      BY <1>1, <1>6, <2>2 DEF Marked
    <3>. QED
      BY <1>1, <1>7, <3>1 DEF MarkInv, Shared
  <2>3. ASSUME NEW k \in Milestones \ doubt', NEW u \in Writers, NEW v \in Writers,
               Marks(u, k)', Marks(v, k)'
        PROVE  u = v
    <3>1. \A x \in Writers : x # w => (Marks(x, k)' <=> Marks(x, k))
      BY <1>2 DEF Marks
    <3>2. Marks(w, k)' => t.kind = "milestone" /\ t.milestone = k
      BY <1>2 DEF Marks
    <3>3. \A x \in Writers : Marks(x, k) => Plans(x)
      BY DEF Marks, Plans, Planning
    <3>. QED
      BY <1>1, <1>5, <1>7, <2>3, <3>1, <3>2, <3>3 DEF MarkInv, Shared
  <2>. QED
    BY <2>1, <2>2, <2>3 DEF Shared
<1>8. ASSUME backend = "postgres" PROVE Replaced'
  <2>1. ASSUME NEW v \in Writers, Plans(v)' PROVE alone'[v] \/ doubt' = Milestones
    <3>1. CASE \E u \in Writers : Plans(u)
      <4>1. Confused(t) = Milestones
        BY <1>5, <1>8, <3>1
      <4>2. doubt' = doubt \cup Milestones /\ doubt \subseteq Milestones
        BY <1>1, <4>1 DEF MarkInv
      <4>. QED
        BY <4>2
    <3>2. CASE ~(\E u \in Writers : Plans(u))
      <4>1. v = w
        BY <1>2, <2>1, <3>2 DEF Plans
      <4>. QED
        BY <1>1, <3>2, <4>1 DEF Busy, Plans
    <3>. QED
      BY <3>1, <3>2
  <2>. QED
    BY <1>1, <1>2, <1>3, <1>6, <1>8, <2>1 DEF MarkInv, Replaced
<1>9. \A v \in Writers : alone'[v] => Plans(v)' /\ \A u \in Writers : Plans(u)' => u = v
  BY <1>2, <1>3 DEF Plans
<1>. QED
  BY <1>1, <1>4, <1>7, <1>8, <1>9 DEF MarkInv

LEMMA CopyMarks ==
    ASSUME PlanInv, MarkInv, NEW w \in Writers, ChangeCopy(w)
    PROVE MarkInv'
<1>1. /\ backend = "postgres" /\ step[w] = "change"
      /\ copied' = [copied EXCEPT ![w] = IF task[w].kind = "advance"
                                         THEN AdvancedTo(copied[w], task[w].phase)
                                         ELSE MarkedOn(copied[w], task[w])]
      /\ step' = [step EXCEPT ![w] = "write"]
      /\ UNCHANGED <<backend, done, task, alone, told, doubt>>
  BY DEF ChangeCopy, roadmap, planHistory, roadmapHistory
<1>2. /\ step'[w] = "write" /\ \A v \in Writers : v # w =>
              step'[v] = step[v] /\ copied'[v] = copied[v]
  BY <1>1 DEF PlanInv, PlanTypes
<1>3. \A v \in Writers : Plans(v)' <=> Plans(v)
  BY <1>1 DEF Plans
<1>4. \A v \in Writers, k \in Milestones : v # w => (Marked(v, k)' <=> Marked(v, k))
  BY <1>1, <1>2 DEF Marked, Marks
<1>5. ASSUME alone[w]
      PROVE  /\ ~(\E k \in Milestones : Marked(w, k)') => copied'[w].done = done
             /\ \A k \in Milestones : Marked(w, k)' =>
                   copied'[w].done = IF task[w].completed THEN done \cup {k} ELSE done \ {k}
  <2>1. copied[w] \in Roadmaps /\ copied[w].done = done
    BY <1>1, <1>5 DEF PlanInv, PlanTypes, MarkInv, Replaced, Marked
  <2>2. CASE task[w].kind = "advance"
    <3>1. copied'[w] = AdvancedTo(copied[w], task[w].phase)
      BY <1>1, <2>2 DEF PlanInv, PlanTypes
    <3>. QED
      BY <1>1, <2>1, <2>2, <3>1 DEF AdvancedTo, Roadmaps, Marked, Marks
  <2>3. CASE task[w].kind # "advance"
    <3>1. task[w].kind = "milestone" /\ task[w].milestone \in Milestones
      BY <1>1, <2>3, KindOf, Kinds DEF PlanInv, PlanTypes, Planning
    <3>2. PICK m \in Milestones : m = task[w].milestone
      BY <3>1
    <3>5. Marked(w, m)' /\ \A k \in Milestones : Marked(w, k)' => k = m
      BY <1>1, <1>2, <3>1, <3>2 DEF Marked, Marks
    <3>3. copied'[w] = MarkedOn(copied[w], task[w])
      BY <1>1, <2>3 DEF PlanInv, PlanTypes
    <3>4. copied'[w].done = IF task[w].completed THEN done \cup {task[w].milestone}
                                                ELSE done \ {task[w].milestone}
      BY <2>1, <3>3 DEF MarkedOn, Roadmaps
    <3>. QED
      BY <3>2, <3>4, <3>5
  <2>. QED
    BY <2>2, <2>3
<1>6. Replaced'
  <2>1. ASSUME NEW v \in Writers, alone[v]
        PROVE  /\ ~(\E k \in Milestones : Marked(v, k)') => copied'[v].done = done
               /\ \A k \in Milestones : Marked(v, k)' =>
                     copied'[v].done = IF task[v].completed THEN done \cup {k} ELSE done \ {k}
    <3>1. CASE v = w
      BY <1>5, <2>1, <3>1
    <3>2. CASE v # w
      <4>1. copied'[v] = copied[v] /\ \A k \in Milestones : Marked(v, k)' <=> Marked(v, k)
        BY <1>2, <1>4, <3>2
      <4>2. /\ ~(\E k \in Milestones : Marked(v, k)) => copied[v].done = done
            /\ \A k \in Milestones : Marked(v, k) =>
                  copied[v].done = IF task[v].completed THEN done \cup {k} ELSE done \ {k}
        BY <1>1, <2>1 DEF MarkInv, Replaced
      <4>. QED
        BY <4>1, <4>2
    <3>. QED
      BY <3>1, <3>2
  <2>2. Replaced
    BY <1>1 DEF MarkInv
  <2>. QED
    BY <1>1, <1>3, <2>1, <2>2 DEF Replaced
<1>. QED
  BY <1>1, <1>3, <1>6 DEF MarkInv

\* The changes that an advance makes in memory leave the milestones alone.
LEMMA AdvanceMarks ==
    ASSUME PlanInv, MarkInv, NEW w \in Writers,
           AdvanceSet(w) \/ \E p \in Phases : SetActive(w, p)
    PROVE MarkInv'
<1>1. /\ backend = "memory" /\ task[w].kind = "advance"
      /\ UNCHANGED <<backend, done, task, alone, told, doubt>>
      /\ step' = step \/ step' = [step EXCEPT ![w] = "write"]
  BY DEF AdvanceSet, SetActive, PlanInv, Slices, Advancing, roadmap, planHistory, roadmapHistory
<1>2. \A v \in Writers, k \in Milestones :
         /\ Marks(v, k)' <=> Marks(v, k)
         /\ Marked(v, k)' <=> Marked(v, k)
         /\ Plans(v)' <=> Plans(v)
  BY <1>1 DEF PlanInv, PlanTypes, Marked, Marks, Plans
<1>3. Shared'
  BY <1>1, <1>2 DEF MarkInv, Shared
<1>4. \A v \in Writers : Plans(v)' <=> Plans(v)
  BY <1>1 DEF Plans
<1>. QED
  BY <1>1, <1>3, <1>4 DEF MarkInv

LEMMA MilestoneMarks ==
    ASSUME PlanInv, MarkInv, NEW w \in Writers, SetMilestone(w)
    PROVE MarkInv'
<1>. DEFINE m == task[w].milestone
<1>1. /\ backend = "memory" /\ step[w] = "change" /\ task[w].kind = "milestone"
      /\ done' = IF task[w].completed THEN done \cup {m} ELSE done \ {m}
      /\ step' = [step EXCEPT ![w] = "write"]
      /\ UNCHANGED <<backend, task, alone, told, doubt>>
  BY DEF SetMilestone, planHistory, roadmapHistory
<1>2. task[w].completed \in BOOLEAN /\ m \in Milestones
  BY <1>1, KindOf, Kinds DEF PlanInv, PlanTypes
<1>3. \A v \in Writers, k \in Milestones :
         /\ Marks(v, k)' <=> Marks(v, k)
         /\ Marked(v, k)' <=> Marked(v, k) \/ (v = w /\ k = m)
         /\ Plans(v)' <=> Plans(v)
  BY <1>1 DEF PlanInv, PlanTypes, Marked, Marks, Plans
<1>4. \A k \in Milestones : k # m => (k \in done' <=> k \in done)
  BY <1>1
<1>5. m \in done' <=> task[w].completed
  BY <1>1, <1>2
<1>6. \A v \in Writers : Marks(v, m) /\ (m \notin doubt \/ alone[v]) => v = w
  BY <1>1, <1>2 DEF MarkInv, Shared, Marks, Plans, Planning
<1>7. ASSUME NEW v \in Writers, NEW k \in Milestones, Marked(v, k)', k \notin doubt \/ alone[v]
      PROVE  k \in done' <=> task[v].completed
  <2>1. CASE k = m
    <3>1. v = w
      BY <1>3, <1>6, <1>7, <2>1 DEF Marked
    <3>. QED
      BY <1>5, <2>1, <3>1
  <2>2. CASE k # m
    BY <1>1, <1>3, <1>4, <1>7, <2>2 DEF MarkInv, Shared
  <2>. QED
    BY <2>1, <2>2
<1>8. ASSUME NEW k \in Milestones \ doubt, \A v \in Writers : ~Marked(v, k)'
      PROVE  k \in done' <=> k \in told
  BY <1>1, <1>3, <1>4, <1>8 DEF MarkInv, Shared
<1>9. Shared'
  BY <1>1, <1>3, <1>7, <1>8 DEF MarkInv, Shared
<1>10. \A v \in Writers : Plans(v)' <=> Plans(v)
  BY <1>1 DEF Plans
<1>. QED
  BY <1>1, <1>9, <1>10 DEF MarkInv

\* The answer to an update tells how its milestone is left; alone, without a
\* doubt.
LEMMA WriteMarks ==
    ASSUME PlanInv, MarkInv, NEW w \in Writers, WriteRoadmap(w)
    PROVE MarkInv'
<1>. DEFINE m == task[w].milestone
<1>1. /\ step[w] = "write"
      /\ copied' = [copied EXCEPT ![w] = Initial]
      /\ alone' = [alone EXCEPT ![w] = FALSE]
      /\ told' = IF task[w].kind # "milestone" THEN told
                 ELSE IF task[w].completed THEN told \cup {m} ELSE told \ {m}
      /\ doubt' = IF task[w].kind = "milestone" /\ alone[w] THEN doubt \ {m} ELSE doubt
      /\ step' = [step EXCEPT ![w] = "free"]
      /\ task' = [task EXCEPT ![w] = NoTask]
      /\ done' = IF backend = "postgres" THEN copied[w].done ELSE done
      /\ UNCHANGED backend
  BY DEF WriteRoadmap, Settled, Answer
<1>2. Plans(w) /\ task[w] \in Tasks \cup {NoTask}
      /\ (task[w].kind = "milestone" => task[w].completed \in BOOLEAN /\ m \in Milestones)
  BY <1>1, KindOf, Kinds DEF PlanInv, PlanTypes, Plans
<1>3. /\ task'[w] = NoTask /\ ~alone'[w]
      /\ \A v \in Writers : v # w => /\ task'[v] = task[v] /\ step'[v] = step[v]
                                    /\ copied'[v] = copied[v] /\ alone'[v] = alone[v]
  BY <1>1 DEF PlanInv, PlanTypes
<1>4. \A v \in Writers, k \in Milestones :
         /\ Marks(v, k)' <=> Marks(v, k) /\ v # w
         /\ Marked(v, k)' <=> Marked(v, k) /\ v # w
  BY <1>3, Kinds DEF Marks, Marked
<1>5. \A v \in Writers : (Plans(v)' <=> Plans(v) /\ v # w) /\ ~alone'[v]
  <2>1. \A v \in Writers : Plans(v)' <=> Plans(v) /\ v # w
    BY <1>3, Kinds DEF Plans, Planning
  <2>. QED
    BY <1>2, <1>3, <2>1 DEF MarkInv
<1>6. told' \subseteq Milestones /\ doubt' \subseteq Milestones
  BY <1>1, <1>2 DEF MarkInv
<1>7. \A k \in Milestones : /\ ~Marks(w, k) => (k \in told' <=> k \in told)
                            /\ Marks(w, k) => (k \in told' <=> task[w].completed)
                            /\ k \notin doubt' => k \notin doubt \/ (alone[w] /\ Marks(w, k))
  BY <1>1, <1>2 DEF Marks
<1>8. ASSUME backend = "memory" PROVE Shared'
  <2>1. UNCHANGED done
    BY <1>1, <1>8
  <2>2. ASSUME NEW k \in Milestones \ doubt', NEW v \in Writers, v # w, Marks(v, k)
        PROVE  k \notin doubt
    <3>1. Plans(v)
      BY <2>2 DEF Marks, Plans, Planning
    <3>. QED
      BY <1>7, <2>2, <3>1 DEF MarkInv
  <2>3. ASSUME NEW v \in Writers, NEW k \in Milestones, Marked(v, k)', k \notin doubt' \/ alone'[v]
        PROVE  k \in done' <=> task'[v].completed
    <3>1. Marked(v, k) /\ v # w /\ k \notin doubt
      BY <1>4, <1>5, <2>2, <2>3 DEF Marked
    <3>. QED
      BY <1>3, <1>8, <2>1, <3>1 DEF MarkInv, Shared
  <2>4. ASSUME NEW k \in Milestones \ doubt', \A v \in Writers : ~Marked(v, k)'
        PROVE  k \in done' <=> k \in told'
    <3>1. CASE Marks(w, k)
      <4>1. Marked(w, k) /\ (k \notin doubt \/ alone[w])
        BY <1>1, <1>7, <2>4, <3>1 DEF Marked
      <4>. QED
        BY <1>7, <1>8, <2>1, <3>1, <4>1 DEF MarkInv, Shared
    <3>2. CASE ~Marks(w, k)
      <4>1. k \notin doubt /\ \A v \in Writers : ~Marked(v, k)
        BY <1>4, <1>7, <2>4, <3>2 DEF Marked
      <4>. QED
        BY <1>7, <1>8, <2>1, <3>2, <4>1 DEF MarkInv, Shared
    <3>. QED
      BY <3>1, <3>2
  <2>5. ASSUME NEW k \in Milestones \ doubt', NEW u \in Writers, NEW v \in Writers,
               Marks(u, k)', Marks(v, k)'
        PROVE  u = v
    BY <1>4, <1>8, <2>2, <2>5 DEF MarkInv, Shared
  <2>. QED
    BY <2>3, <2>4, <2>5 DEF Shared
<1>9. ASSUME backend = "postgres" PROVE Replaced'
  <2>1. ASSUME NEW v \in Writers, Plans(v)' PROVE doubt' = Milestones
    <3>1. Plans(v) /\ v # w
      BY <1>5, <2>1
    <3>2. ~alone[w]
      BY <3>1 DEF MarkInv
    <3>. QED
      BY <1>1, <1>2, <1>9, <3>2 DEF MarkInv, Replaced
  <2>2. ASSUME NEW k \in Milestones \ doubt' PROVE k \in done' <=> k \in told'
    <3>1. alone[w]
      BY <1>1, <1>2, <1>9 DEF MarkInv, Replaced
    <3>2. CASE Marks(w, k)
      <4>1. Marked(w, k)
        BY <1>1, <3>2 DEF Marked
      <4>2. done' = IF task[w].completed THEN done \cup {k} ELSE done \ {k}
        BY <1>1, <1>9, <3>1, <4>1 DEF MarkInv, Replaced
      <4>. QED
        BY <1>7, <3>2, <4>2
    <3>3. CASE ~Marks(w, k)
      <4>1. k \in done' <=> k \in done
        <5>1. CASE \E i \in Milestones : Marked(w, i)
          <6>1. PICK i \in Milestones : Marked(w, i)
            BY <5>1
          <6>2. i # k
            BY <3>3, <6>1 DEF Marked
          <6>3. done' = IF task[w].completed THEN done \cup {i} ELSE done \ {i}
            BY <1>1, <1>9, <3>1, <6>1 DEF MarkInv, Replaced
          <6>. QED
            BY <6>2, <6>3
        <5>2. CASE ~(\E i \in Milestones : Marked(w, i))
          BY <1>1, <1>9, <3>1, <5>2 DEF MarkInv, Replaced
        <5>. QED
          BY <5>1, <5>2
      <4>2. k \notin doubt
        BY <1>7, <3>3
      <4>. QED
        BY <1>7, <1>9, <3>3, <4>1, <4>2 DEF MarkInv, Replaced
    <3>. QED
      BY <3>2, <3>3
  <2>. QED
    BY <1>5, <2>1, <2>2 DEF Replaced
<1>. QED
  BY <1>1, <1>5, <1>6, <1>8, <1>9 DEF MarkInv, PlanInv, Backends

\* A step on the allocations is of no writer that plans.
LEMMA AllocationFrame ==
    ASSUME PlanInv, AllocationsStep, NEW v \in Writers
    PROVE  \/ task'[v] = task[v] /\ step'[v] = step[v]
           \/ step[v] \notin {"change", "write"} /\ step'[v] \notin {"change", "write"}
<1>1. CASE \E l \in DOMAIN Lists : AllocateInMemory(l)
  BY <1>1 DEF AllocateInMemory, writing
<1>2. ASSUME NEW w \in Writers,
             \/ \E l \in DOMAIN Lists : BeginAllocate(w, l)
             \/ DeleteLists(w) \/ InsertList(w) \/ CommitList(w)
      PROVE  \/ task'[v] = task[v] /\ step'[v] = step[v]
             \/ step[v] \notin {"change", "write"} /\ step'[v] \notin {"change", "write"}
  <2>1. CASE v = w
    BY <1>2, <2>1 DEF BeginAllocate, DeleteLists, InsertList, CommitList, Answer, PlanInv, PlanTypes
  <2>2. CASE v # w
    BY <1>2, <2>2 DEF BeginAllocate, DeleteLists, InsertList, CommitList, Answer, PlanInv, PlanTypes
  <2>. QED
    BY <2>1, <2>2
<1>. QED
  BY <1>1, <1>2 DEF AllocationsStep

LEMMA AllocationMarks ==
    ASSUME PlanInv, MarkInv, AllocationsStep
    PROVE MarkInv'
<1>1. UNCHANGED <<backend, done, copied, alone, told, doubt>>
  BY DEF AllocationsStep, AllocateInMemory, BeginAllocate, DeleteLists, InsertList, CommitList,
         roadmap, writing, planHistory, roadmapHistory, Answer
<1>2. ASSUME NEW v \in Writers
      PROVE  /\ Plans(v)' <=> Plans(v)
             /\ \A k \in Milestones : (Marks(v, k)' <=> Marks(v, k)) /\ (Marked(v, k)' <=> Marked(v, k))
             /\ Plans(v) => task'[v] = task[v]
  <2>1. CASE Plans(v)
    <3>1. step[v] \in {"change", "write"}
      BY <2>1 DEF PlanInv, PlanTypes, Plans
    <3>2. task'[v] = task[v] /\ step'[v] = step[v]
      BY <3>1, AllocationFrame
    <3>. QED
      BY <2>1, <3>2 DEF Plans, Marks, Marked
  <2>2. CASE ~Plans(v)
    <3>1. step[v] \notin {"change", "write"}
      BY <2>2 DEF PlanInv, PlanTypes, Plans
    <3>2. ~Plans(v)'
      <4>1. step'[v] \notin {"change", "write"}
        BY <3>1, AllocationFrame
      <4>2. PlanInv'
        BY AllocationStep
      <4>. QED
        BY <4>1, <4>2 DEF PlanInv, PlanTypes, Plans
    <3>. QED
      BY <2>2, <3>2 DEF Plans, Marks, Marked, Planning
  <2>. QED
    BY <2>1, <2>2
<1>3. \A v \in Writers, k \in Milestones : Marked(v, k) => Plans(v)
  BY DEF Plans, Marked, Marks, Planning
<1>4. backend = "memory" => Shared'
  BY <1>1, <1>2, <1>3 DEF MarkInv, Shared
<1>5. backend = "postgres" => Replaced'
  BY <1>1, <1>2, <1>3 DEF MarkInv, Replaced
<1>. QED
  BY <1>1, <1>2, <1>4, <1>5 DEF MarkInv

LEMMA MarkStepInv == PlanInv /\ MarkInv /\ [CouncilNext]_councilVars => MarkInv'
<1>. SUFFICES ASSUME PlanInv, MarkInv, [CouncilNext]_councilVars PROVE MarkInv'
  OBVIOUS
<1>1. CASE UNCHANGED planVars
  <2>1. UNCHANGED <<backend, done, step, task, copied, alone, told, doubt>>
    BY <1>1 DEF planVars
  <2>. QED
    BY <2>1 DEF MarkInv, Shared, Replaced, Plans, Marks, Marked
<1>2. CASE RoadmapStep
  BY <1>2, ReadMarks, CopyMarks, AdvanceMarks, MilestoneMarks, WriteMarks DEF RoadmapStep
<1>. QED
  BY <1>1, <1>2, AllocationMarks DEF CouncilNext, councilVars

\* For any roadmap and handlers: while none of them works on it, a milestone
\* is as the last answered handleUpdateMilestone left it, but for those that
\* an overlap left in doubt.
THEOREM MilestonesAreKept == CouncilSpec => []MilestonesKept
<1>1. PlanInv /\ MarkInv => MilestonesKept
  BY DEF PlanInv, Backends, MarkInv, Shared, Replaced, MilestonesKept, Busy, Planning, Marks, Marked
<1>. QED
  BY <1>1, PlanInit, PlanStepInv, MarkInit, MarkStepInv, PTL DEF CouncilSpec

-----------------------------------------------------------------------------
(* Allocations *)

Whole(rows) == \A l \in DOMAIN Lists : RowsOf(l) \cap rows \in {{}, RowsOf(l)}

Allocates(w) == task[w].kind = "allocate"
Storing == {"delete", "insert", "commit", "aborted"}

ListTypes ==
    /\ table \subseteq Rows
    /\ doomed \in [Writers -> SUBSET Rows]
    /\ locked \in [Writers -> SUBSET Rows]
    /\ adding \in [Writers -> SUBSET Rows]
    /\ crossed \in BOOLEAN
    /\ latest \in DOMAIN Lists \cup {NoList}
    /\ \A w \in Writers : Allocates(w) <=> step[w] \in Storing
    /\ backend = "memory" => \A w \in Writers : ~Allocates(w)

\* Transactions see, delete and insert whole lists.
WholeLists ==
    /\ Whole(table)
    /\ \A w \in Writers : Whole(doomed[w]) /\ Whole(locked[w]) /\ Whole(adding[w])

\* A transaction that is alone deletes all there is and does not fail.
Sole ==
    /\ \A w \in Writers : ~Allocates(w) => adding[w] = {}
    /\ ~crossed => \A w \in Writers : Allocates(w) =>
          /\ \A v \in Writers : Allocates(v) => v = w
          /\ step[w] = "delete" => doomed[w] = table
          /\ step[w] = "insert" => locked[w] = table
          /\ step[w] = "commit" => locked[w] = table /\ adding[w] = RowsOf(task[w].list)
          /\ step[w] # "aborted"
    /\ ~crossed /\ latest # NoList /\ (\A w \in Writers : ~Allocates(w)) => table = RowsOf(latest)

ListInv == ListTypes /\ WholeLists /\ Sole

\* What becomes of whole lists is whole.
LEMMA WholeRows ==
    /\ Whole({})
    /\ \A l \in DOMAIN Lists : Whole(RowsOf(l)) /\ RowsOf(l) \subseteq Rows
    /\ \A r, s : Whole(r) /\ Whole(s) => Whole(r \cup s) /\ Whole(r \cap s) /\ Whole(r \ s)
<1>1. \A l, m \in DOMAIN Lists : l # m => RowsOf(l) \cap RowsOf(m) = {}
  BY DEF RowsOf
<1>2. \A l \in DOMAIN Lists : Whole(RowsOf(l))
  BY <1>1 DEF Whole
<1>3. \A l \in DOMAIN Lists : RowsOf(l) \subseteq Rows
  BY DEF Rows
<1>4. ASSUME NEW r, NEW s, Whole(r), Whole(s)
      PROVE  Whole(r \cup s) /\ Whole(r \cap s) /\ Whole(r \ s)
  <2>1. ASSUME NEW l \in DOMAIN Lists
        PROVE  /\ RowsOf(l) \cap (r \cup s) \in {{}, RowsOf(l)}
               /\ RowsOf(l) \cap (r \cap s) \in {{}, RowsOf(l)}
               /\ RowsOf(l) \cap (r \ s) \in {{}, RowsOf(l)}
    <3>1. RowsOf(l) \cap r \in {{}, RowsOf(l)} /\ RowsOf(l) \cap s \in {{}, RowsOf(l)}
      BY <1>4 DEF Whole
    <3>2. RowsOf(l) \cap (r \cup s) = (RowsOf(l) \cap r) \cup (RowsOf(l) \cap s)
          /\ RowsOf(l) \cap (r \cap s) = (RowsOf(l) \cap r) \cap (RowsOf(l) \cap s)
          /\ RowsOf(l) \cap (r \ s) = (RowsOf(l) \cap r) \ (RowsOf(l) \cap s)
      OBVIOUS
    <3>. QED
      BY <3>1, <3>2
  <2>. QED
    BY <2>1 DEF Whole
<1>5. Whole({})
  BY DEF Whole
<1>. QED
  BY <1>2, <1>3, <1>4, <1>5

LEMMA ListInit == CouncilInit => ListInv
<1>. SUFFICES ASSUME CouncilInit PROVE ListInv
  OBVIOUS
<1>1. \A w \in Writers : ~Allocates(w) /\ step[w] = "free"
  BY Kinds DEF CouncilInit, PlansInit, Allocates
<1>2. ListTypes
  BY <1>1 DEF CouncilInit, PlansInit, ListTypes, Storing
<1>3. WholeLists
  BY WholeRows DEF CouncilInit, PlansInit, WholeLists
<1>4. Sole
  BY <1>1 DEF CouncilInit, PlansInit, Sole
<1>. QED
  BY <1>2, <1>3, <1>4 DEF ListInv

\* The handlers of the roadmap are no transactions on the table.
LEMMA RoadmapLists ==
    ASSUME PlanInv, ListInv, RoadmapStep
    PROVE ListInv'
<1>1. UNCHANGED <<backend, table, doomed, locked, adding, crossed, latest>>
  BY DEF RoadmapStep, ReadRoadmap, ChangeCopy, SetActive, SetMilestone, AdvanceSet, WriteRoadmap,
         allocating, planHistory, listHistory
<1>2. ASSUME NEW v \in Writers
      PROVE  \/ task'[v] = task[v] /\ step'[v] = step[v]
             \/ ~Allocates(v) /\ ~Allocates(v)' /\ step[v] \notin Storing /\ step'[v] \notin Storing
  <2>1. PICK w \in Writers :
           \/ \E t \in Advances \cup Updates : ReadRoadmap(w, t)
           \/ ChangeCopy(w)
           \/ \E p \in Phases : SetActive(w, p)
           \/ SetMilestone(w) \/ AdvanceSet(w) \/ WriteRoadmap(w)
    BY DEF RoadmapStep
  <2>2. CASE v # w
    BY <2>1, <2>2 DEF PlanInv, PlanTypes, ReadRoadmap, ChangeCopy, SetActive, SetMilestone,
                      AdvanceSet, WriteRoadmap, Answer
  <2>3. CASE v = w
    <3>1. step[w] \in {"free", "change", "write"} /\ step'[w] \in {"free", "change", "write"}
      BY <2>1 DEF PlanInv, PlanTypes, ReadRoadmap, ChangeCopy, SetActive, SetMilestone,
                  AdvanceSet, WriteRoadmap, Answer
    <3>2. step[w] \notin Storing /\ step'[w] \notin Storing
      BY <3>1 DEF Storing
    <3>3. ~Allocates(w)
      BY <3>2 DEF ListInv, ListTypes
    <3>4. task'[w] = task[w] \/ task'[w] = NoTask \/ task'[w] \in Advances \cup Updates
      BY <2>1 DEF PlanInv, PlanTypes, ReadRoadmap, ChangeCopy, SetActive, SetMilestone,
                  AdvanceSet, WriteRoadmap, Answer
    <3>5. ~Allocates(w)'
      BY <3>3, <3>4, Kinds DEF Allocates
    <3>. QED
      BY <2>3, <3>2, <3>3, <3>5
  <2>. QED
    BY <2>2, <2>3
<1>3. \A v \in Writers : (Allocates(v)' <=> Allocates(v)) /\ (step'[v] \in Storing <=> step[v] \in Storing)
  BY <1>2 DEF Allocates
<1>4. ListTypes'
  BY <1>1, <1>3 DEF ListInv, ListTypes
<1>5. WholeLists'
  BY <1>1 DEF ListInv, WholeLists, Whole
<1>6. Sole'
  BY <1>1, <1>2, <1>3 DEF ListInv, Sole
<1>. QED
  BY <1>4, <1>5, <1>6 DEF ListInv

LEMMA MemoryLists ==
    ASSUME ListInv, NEW l \in DOMAIN Lists, AllocateInMemory(l)
    PROVE ListInv'
<1>1. /\ table' = RowsOf(l) /\ latest' = l /\ backend = "memory"
      /\ UNCHANGED <<backend, step, task, doomed, locked, adding, crossed>>
  BY DEF AllocateInMemory, writing, allocating
<1>2. \A v \in Writers : ~Allocates(v) /\ ~Allocates(v)'
  BY <1>1 DEF ListInv, ListTypes, Allocates
<1>3. ListTypes'
  BY <1>1, <1>2, WholeRows DEF ListInv, ListTypes
<1>4. WholeLists'
  <2>1. Whole(table)'
    BY <1>1, WholeRows DEF Whole
  <2>. QED
    BY <1>1, <2>1 DEF ListInv, WholeLists, Whole
<1>5. Sole'
  BY <1>1, <1>2 DEF ListInv, Sole
<1>. QED
  BY <1>3, <1>4, <1>5 DEF ListInv

LEMMA BeginLists ==
    ASSUME PlanInv, ListInv, NEW w \in Writers, NEW l \in DOMAIN Lists, BeginAllocate(w, l)
    PROVE ListInv'
<1>1. /\ backend = "postgres" /\ step[w] = "free"
      /\ step' = [step EXCEPT ![w] = "delete"]
      /\ task' = [task EXCEPT ![w] = [kind |-> "allocate", list |-> l]]
      /\ doomed' = [doomed EXCEPT ![w] = table]
      /\ crossed' = (Busy({"allocate"}) # {})
      /\ UNCHANGED <<backend, table, locked, adding, latest>>
  BY DEF BeginAllocate
<1>2. /\ step'[w] = "delete" /\ doomed'[w] = table /\ Allocates(w)' /\ ~Allocates(w)
      /\ \A v \in Writers : v # w => step'[v] = step[v] /\ task'[v] = task[v] /\ doomed'[v] = doomed[v]
  BY <1>1 DEF PlanInv, PlanTypes, ListInv, ListTypes, Allocates, Storing
<1>3. \A v \in Writers : v # w => (Allocates(v)' <=> Allocates(v))
  BY <1>2 DEF Allocates
<1>4. ~crossed' => \A v \in Writers : ~Allocates(v)
  BY <1>1 DEF Busy, Allocates
<1>5. ListTypes'
  BY <1>1, <1>2, <1>3 DEF ListInv, ListTypes, Storing
<1>6. WholeLists'
  BY <1>1, <1>2 DEF ListInv, WholeLists, Whole
<1>7. Sole'
  BY <1>1, <1>2, <1>3, <1>4 DEF ListInv, Sole
<1>. QED
  BY <1>5, <1>6, <1>7 DEF ListInv

LEMMA DeleteStep ==
    ASSUME PlanInv, ListInv, NEW w \in Writers, DeleteLists(w)
    PROVE ListInv'
<1>1. /\ step[w] = "delete"
      /\ step' = [step EXCEPT ![w] = "insert"]
      /\ locked' = [locked EXCEPT ![w] = doomed[w] \cap table]
      /\ UNCHANGED <<backend, task, table, doomed, adding, crossed, latest>>
  BY DEF DeleteLists, planHistory, listHistory
<1>2. /\ step'[w] = "insert" /\ locked'[w] = doomed[w] \cap table /\ Allocates(w)
      /\ \A v \in Writers : v # w => step'[v] = step[v] /\ locked'[v] = locked[v]
  BY <1>1 DEF PlanInv, PlanTypes, ListInv, ListTypes, Storing
<1>3. \A v \in Writers : Allocates(v)' <=> Allocates(v)
  BY <1>1 DEF Allocates
<1>4. ListTypes'
  BY <1>1, <1>2, <1>3 DEF ListInv, ListTypes, Storing
<1>5. WholeLists'
  <2>1. \A v \in Writers : Whole(locked[v])'
    <3>1. Whole(doomed[w] \cap table)
      BY WholeRows DEF ListInv, WholeLists
    <3>. QED
      BY <1>2, <3>1 DEF ListInv, WholeLists, Whole
  <2>. QED
    BY <1>1, <2>1 DEF ListInv, WholeLists, Whole
<1>6. Sole'
  BY <1>1, <1>2, <1>3 DEF ListInv, Sole
<1>. QED
  BY <1>4, <1>5, <1>6 DEF ListInv

\* A transaction that is alone meets no row that it has not deleted.
LEMMA InsertLists ==
    ASSUME PlanInv, ListInv, NEW w \in Writers, InsertList(w)
    PROVE ListInv'
<1>. DEFINE l == task[w].list
<1>1. /\ step[w] = "insert"
      /\ UNCHANGED <<backend, task, table, doomed, locked, crossed, latest>>
      /\ \/ /\ step' = [step EXCEPT ![w] = "commit"]
            /\ adding' = [adding EXCEPT ![w] = RowsOf(l)]
         \/ /\ step' = [step EXCEPT ![w] = "aborted"]
            /\ UNCHANGED adding
            /\ \/ CategoriesOf(table \ locked[w]) # {}
               \/ \E v \in Writers \ {w} : CategoriesOf(adding[v]) # {}
  BY DEF InsertList, planHistory, listHistory
<1>2. Allocates(w) /\ l \in DOMAIN Lists
  <2>1. Allocates(w)
    BY <1>1 DEF ListInv, ListTypes, Storing
  <2>2. task[w] \in Settings
    BY <2>1, Kinds DEF PlanInv, PlanTypes, Tasks, Allocates
  <2>. QED
    BY <2>1, <2>2 DEF Settings
<1>3. \A v \in Writers : Allocates(v)' <=> Allocates(v)
  BY <1>1 DEF Allocates
<1>4. \A v \in Writers : v # w => step'[v] = step[v] /\ adding'[v] = adding[v]
  BY <1>1 DEF PlanInv, PlanTypes, ListInv, ListTypes
<1>5. step'[w] \in {"commit", "aborted"} /\ adding'[w] \in {adding[w], RowsOf(l)}
  BY <1>1 DEF PlanInv, PlanTypes, ListInv, ListTypes
<1>6. ListTypes'
  <2>1. adding' \in [Writers -> SUBSET Rows]
    BY <1>1, <1>2, WholeRows DEF ListInv, ListTypes
  <2>. QED
    BY <1>1, <1>2, <1>3, <1>4, <1>5, <2>1 DEF ListInv, ListTypes, Storing
<1>7. WholeLists'
  <2>1. \A v \in Writers : Whole(adding[v])'
    <3>1. Whole(adding'[w])
      BY <1>2, <1>5, WholeRows DEF ListInv, WholeLists
    <3>. QED
      BY <1>4, <3>1 DEF ListInv, WholeLists, Whole
  <2>. QED
    BY <1>1, <2>1 DEF ListInv, WholeLists, Whole
<1>8. ASSUME ~crossed
      PROVE  /\ step'[w] = "commit" /\ adding'[w] = RowsOf(l) /\ locked[w] = table
             /\ \A v \in Writers : Allocates(v) => v = w
  <2>1. /\ locked[w] = table
        /\ \A v \in Writers : Allocates(v) => v = w
        /\ \A v \in Writers \ {w} : adding[v] = {}
    BY <1>1, <1>2, <1>8 DEF ListInv, Sole
  <2>2. CategoriesOf(table \ locked[w]) = {} /\ \A v \in Writers \ {w} : CategoriesOf(adding[v]) = {}
    BY <2>1 DEF CategoriesOf
  <2>. QED
    BY <1>1, <2>1, <2>2 DEF PlanInv, PlanTypes, ListInv, ListTypes
<1>9. Sole'
  <2>1. \A v \in Writers : ~Allocates(v)' => adding'[v] = {}
    BY <1>2, <1>3, <1>4 DEF ListInv, Sole
  <2>. QED
    BY <1>1, <1>2, <1>3, <1>8, <2>1 DEF ListInv, Sole
<1>. QED
  BY <1>6, <1>7, <1>9 DEF ListInv

LEMMA CommitLists ==
    ASSUME PlanInv, ListInv, NEW w \in Writers, CommitList(w)
    PROVE ListInv'
<1>. DEFINE l == task[w].list
<1>1. /\ step[w] \in {"commit", "aborted"}
      /\ table' = IF step[w] = "commit" THEN (table \ locked[w]) \cup adding[w] ELSE table
      /\ doomed' = [doomed EXCEPT ![w] = {}]
      /\ locked' = [locked EXCEPT ![w] = {}]
      /\ adding' = [adding EXCEPT ![w] = {}]
      /\ latest' = l
      /\ step' = [step EXCEPT ![w] = "free"]
      /\ task' = [task EXCEPT ![w] = NoTask]
      /\ UNCHANGED <<backend, crossed>>
  BY DEF CommitList, Answer
<1>2. Allocates(w) /\ l \in DOMAIN Lists
  <2>1. Allocates(w)
    BY <1>1 DEF ListInv, ListTypes, Storing
  <2>2. task[w] \in Settings
    BY <2>1, Kinds DEF PlanInv, PlanTypes, Tasks, Allocates
  <2>. QED
    BY <2>1, <2>2 DEF Settings
<1>3. /\ step'[w] = "free" /\ ~Allocates(w)' /\ doomed'[w] = {} /\ locked'[w] = {} /\ adding'[w] = {}
      /\ \A v \in Writers : v # w => /\ step'[v] = step[v] /\ task'[v] = task[v]
                                    /\ doomed'[v] = doomed[v] /\ locked'[v] = locked[v]
                                    /\ adding'[v] = adding[v]
  BY <1>1, Kinds DEF PlanInv, PlanTypes, ListInv, ListTypes, Allocates
<1>4. \A v \in Writers : v # w => (Allocates(v)' <=> Allocates(v))
  BY <1>3 DEF Allocates
<1>5. ListTypes'
  <2>1. table' \subseteq Rows
    BY <1>1 DEF ListInv, ListTypes
  <2>2. \A v \in Writers : Allocates(v)' <=> step'[v] \in Storing
    BY <1>3, <1>4 DEF ListInv, ListTypes, Storing
  <2>3. backend' # "memory"
    BY <1>1, <1>2 DEF ListInv, ListTypes
  <2>. QED
    BY <1>1, <1>2, <2>1, <2>2, <2>3 DEF ListInv, ListTypes
<1>6. WholeLists'
  <2>1. Whole(table)'
    <3>1. Whole(table \ locked[w])
      BY WholeRows DEF ListInv, WholeLists
    <3>2. Whole((table \ locked[w]) \cup adding[w]) /\ Whole(table)
      BY <3>1, WholeRows DEF ListInv, WholeLists
    <3>. QED
      BY <1>1, <3>2 DEF Whole
  <2>2. ASSUME NEW v \in Writers
        PROVE  Whole(doomed'[v]) /\ Whole(locked'[v]) /\ Whole(adding'[v])
    BY <1>3, WholeRows DEF ListInv, WholeLists
  <2>. QED
    BY <2>1, <2>2 DEF WholeLists, Whole
<1>7. ASSUME ~crossed
      PROVE  table' = RowsOf(l) /\ \A v \in Writers : ~Allocates(v)'
  <2>1. /\ step[w] = "commit" /\ locked[w] = table /\ adding[w] = RowsOf(l)
        /\ \A v \in Writers : Allocates(v) => v = w
    BY <1>1, <1>2, <1>7 DEF ListInv, Sole
  <2>2. table' = RowsOf(l)
    BY <1>1, <2>1
  <2>. QED
    BY <1>3, <1>4, <2>1, <2>2
<1>8. Sole'
  BY <1>1, <1>3, <1>4, <1>7 DEF ListInv, Sole
<1>. QED
  BY <1>5, <1>6, <1>8 DEF ListInv

LEMMA ListStepInv == PlanInv /\ ListInv /\ [CouncilNext]_councilVars => ListInv'
<1>. SUFFICES ASSUME PlanInv, ListInv, [CouncilNext]_councilVars PROVE ListInv'
  OBVIOUS
<1>1. CASE UNCHANGED planVars
  <2>1. UNCHANGED <<backend, step, task, table, doomed, locked, adding, crossed, latest>>
    BY <1>1 DEF planVars
  <2>. QED
    BY <2>1 DEF ListInv, ListTypes, WholeLists, Whole, Sole, Allocates
<1>2. CASE AllocationsStep
  BY <1>2, MemoryLists, BeginLists, DeleteStep, InsertLists, CommitLists DEF AllocationsStep
<1>. QED
  BY <1>1, <1>2, RoadmapLists DEF CouncilNext, councilVars

\* For any lists, categories and transactions at READ COMMITTED: the table
\* holds whole lists, and just the one answered last while no transaction is
\* in progress, unless it crossed another (PGStore.SetAllocations).
THEOREM AllocationsStayWhole == CouncilSpec => []AllocationsHold
<1>1. ListInv => AllocationsHold
  BY DEF ListInv, WholeLists, Whole, Sole, AllocationsHold, GetAllocations, Busy, Allocates
<1>. QED
  BY <1>1, PlanInit, PlanStepInv, ListInit, ListStepInv, PTL DEF CouncilSpec

-----------------------------------------------------------------------------
(* The types of all parts *)

\* The variables of payouts, goals and plans hold values of their types.
THEOREM CouncilTypes == CouncilSpec => []CouncilTypeOK
<1>1. PayoutInv /\ TotalInv => PayoutsTypeOK
  BY DEF PayoutInv, PayoutTypes, TotalInv, TotalTypes, PayoutsTypeOK
<1>2. backend \in Backends /\ GoalInv => GoalsTypeOK
  BY DEF GoalInv, GoalTypes, GoalsTypeOK
<1>3. PlanInv /\ MarkInv /\ ListInv => PlansTypeOK
  BY DEF PlanInv, PlanTypes, MarkInv, ListInv, ListTypes, PlansTypeOK
<1>4. api \in Apis /\ PayoutInv /\ TotalInv /\ GoalInv /\ PlanInv /\ MarkInv /\ ListInv => CouncilTypeOK
  BY <1>1, <1>2, <1>3 DEF CouncilTypeOK, PlanInv
<1>5. CouncilInit => api \in Apis
  BY DEF CouncilInit
<1>6. api \in Apis /\ [CouncilNext]_councilVars => (api \in Apis)'
  BY DEF CouncilNext, councilVars
<1>. QED
  BY <1>4, <1>5, <1>6, PayoutInit, PayoutStepInv, TotalInit, TotalStepInv, GoalInit, GoalStepInv,
     PlanInit, PlanStepInv, MarkInit, MarkStepInv, ListInit, ListStepInv, PTL DEF CouncilSpec
=============================================================================
