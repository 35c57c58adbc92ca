----------------------------- MODULE PoolProofs -----------------------------
(***************************************************************************)
(* What holds of the connection pool for any number of requests, rows and  *)
(* connections: its type invariant, which bounds the connections lent and  *)
(* the depth of the nesting, and that a pool of more than two connections  *)
(* for each request never deadlocks.                                       *)
(***************************************************************************)
EXTENDS Pool, TLAPS, FiniteSetTheorems

LEMMA IntervalsFinite ==
  ASSUME NEW n \in Nat
  PROVE  IsFiniteSet(1 .. n) /\ Cardinality(1 .. n) = n
<1>1. 1 \in Int /\ n \in Int
  OBVIOUS
<1>2. /\ IsFiniteSet(1 .. n)
      /\ Cardinality(1 .. n) = IF 1 > n THEN 0 ELSE n - 1 + 1
  BY ONLY <1>1, FS_Interval, Zenon
<1> QED
  BY <1>2

LEMMA InUseFinite ==
  /\ IsFiniteSet(Requests \X Levels)
  /\ IsFiniteSet(InUse)
<1>1. IsFiniteSet(Levels)
  BY IntervalsFinite DEF Levels
<1>2. IsFiniteSet(Requests \X Levels)
  BY <1>1, PoolAssumption, FS_Product
<1>3. InUse \in SUBSET (Requests \X Levels)
  BY DEF InUse
<1> QED
  BY <1>2, <1>3, FS_Subset

\* What the type invariant says of one request.
LEMMA Facts ==
  ASSUME PoolTypeOK, NEW r \in Requests
  PROVE  /\ held[r] \in {0, 1, 2, 3}
         /\ wants[r] \in Queries \cup {"none"}
         /\ wants[r] # "none" => held[r] + Depth[wants[r]] <= 3
         /\ \A l \in Levels : /\ <<r, l>> \in Requests \X Levels
                              /\ frame[<<r, l>>] \in Queries
                              /\ rest[<<r, l>>] \in Nat
                              /\ l <= held[r] => /\ l + Depth[frame[<<r, l>>]] <= 4
                                                 /\ rest[<<r, l>>] > 0 => Depth[frame[<<r, l>>]] > 1
<1>1. held[r] \in 0 .. 3 /\ wants[r] \in Queries \cup {"none"}
  BY DEF PoolTypeOK
<1>2. wants[r] # "none" => held[r] + Depth[wants[r]] <= 3
  BY DEF PoolTypeOK, Nesting
<1>3. ASSUME NEW l \in Levels
      PROVE  /\ <<r, l>> \in Requests \X Levels
             /\ frame[<<r, l>>] \in Queries
             /\ rest[<<r, l>>] \in Nat
  BY DEF PoolTypeOK
<1>4. ASSUME NEW l \in Levels
      PROVE  l <= held[r] => /\ l + Depth[frame[<<r, l>>]] <= 4
                             /\ rest[<<r, l>>] > 0 => Depth[frame[<<r, l>>]] > 1
  BY DEF PoolTypeOK, Nesting
<1> QED
  BY <1>1, <1>2, <1>3, <1>4

\* The functions that handlers call and the queries these nest have a depth.
LEMMA CallsTyped ==
  /\ \A h \in Handlers : Calls[h] \subseteq Seq(Queries)
  /\ \A q \in Queries : /\ Depth[q] \in 1 .. 3
                        /\ Inner(q) \in Queries
                        /\ Depth[q] > 1 => Depth[Inner(q)] < Depth[q]
                        /\ InnerCalls(q) \subseteq Nat
                        /\ \A n \in InnerCalls(q) : n > 0 => Depth[q] > 1
<1>1. \A h \in Handlers : Calls[h] \subseteq Seq(Queries)
  <2>1. /\ StatusCalls \in Seq(Queries)
        /\ FortressesCalls \in Seq(Queries)
        /\ FortressCalls \in Seq(Queries)
        /\ CompaniesCalls \in Seq(Queries)
    BY DEF Queries, StatusCalls, FortressesCalls, FortressCalls, CompaniesCalls
  <2>2. /\ CompanyCalls \in Seq(Queries)
        /\ GoalsCalls \in Seq(Queries)
        /\ TxCalls \in Seq(Queries)
    BY DEF Queries, CompanyCalls, GoalsCalls, TxCalls
  <2>3. PayoutCalls \in Seq(Queries)
    BY DEF Queries, PayoutCalls
  <2>4. \A n \in 0 .. MaxRows : AdviceCalls(n) \in Seq(Queries)
    <3>1. <<"single", "single", "single">> \in Seq(Queries)
      BY DEF Queries
    <3>2. \A n \in 0 .. MaxRows : [i \in 1 .. n |-> "ListGoals"] \in Seq(Queries)
      BY PoolAssumption DEF Queries
    <3> QED
      BY <3>1, <3>2 DEF AdviceCalls
  <2> QED
    BY <2>1, <2>2, <2>3, <2>4, HandlersAssumption DEF Calls
<1>2. \A q \in Queries : /\ Depth[q] \in 1 .. 3
                         /\ Inner(q) \in Queries
                         /\ Depth[q] > 1 => Depth[Inner(q)] < Depth[q]
                         /\ InnerCalls(q) \subseteq Nat
                         /\ \A n \in InnerCalls(q) : n > 0 => Depth[q] > 1
  BY PoolAssumption DEF Depth, Queries, Inner, InnerCalls
<1> QED
  BY <1>1, <1>2

-----------------------------------------------------------------------------

LEMMA InitOK == Init => PoolTypeOK
<1> SUFFICES ASSUME Init PROVE PoolTypeOK
  OBVIOUS
<1>1. InUse = {}
  BY DEF Init, InUse, Levels
<1>2. Cardinality(InUse) = 0
  BY <1>1, FS_EmptySet
<1>3. Nesting
  BY DEF Init, Nesting, Levels
<1> QED
  BY <1>2, <1>3, PoolAssumption DEF Init, PoolTypeOK, Queries, Levels

LEMMA ArriveOK ==
  ASSUME PoolTypeOK, NEW r \in Requests, NEW h \in Handlers, Arrive(r, h)
  PROVE  PoolTypeOK'
<1>1. pending' \in [Requests -> Seq(Queries)]
  BY CallsTyped DEF PoolTypeOK, Arrive
<1> QED
  BY <1>1 DEF PoolTypeOK, Arrive, Nesting, InUse

LEMMA CallOK ==
  ASSUME PoolTypeOK, NEW r \in Requests, Call(r)
  PROVE  PoolTypeOK'
<1>1. /\ Head(pending[r]) \in Queries
      /\ Tail(pending[r]) \in Seq(Queries)
  BY DEF PoolTypeOK, Call
<1>2. Depth[Head(pending[r])] \in 1 .. 3
  BY <1>1, CallsTyped
<1>3. \A s \in Requests : wants'[s] # "none" => held'[s] + Depth[wants'[s]] <= 3
  BY <1>2 DEF PoolTypeOK, Call, Nesting
<1>4. Nesting'
  BY <1>3 DEF PoolTypeOK, Call, Nesting
<1> QED
  BY <1>1, <1>4 DEF PoolTypeOK, Call, InUse

LEMMA NestOK ==
  ASSUME PoolTypeOK, NEW r \in Requests, Nest(r)
  PROVE  PoolTypeOK'
<1> DEFINE q == frame[<<r, held[r]>>]
<1>0. held[r] \in Levels /\ rest[<<r, held[r]>>] > 0 /\ held[r] <= held[r]
  BY DEF Nest, Levels
<1>1. q \in Queries /\ <<r, held[r]>> \in Requests \X Levels
  BY <1>0, Facts
<1>3. held[r] + Depth[q] <= 4 /\ Depth[q] > 1
  BY <1>0, Facts
<1>2. Inner(q) \in Queries /\ Depth[Inner(q)] < Depth[q]
  BY <1>1, <1>3, CallsTyped
<1>4. rest' \in [Requests \X Levels -> Nat]
  BY <1>1 DEF PoolTypeOK, Nest
<1>5. held[r] + Depth[Inner(q)] <= 3
  <2>1. Depth[q] \in 1 .. 3 /\ Depth[Inner(q)] \in 1 .. 3
    BY <1>1, <1>2, CallsTyped
  <2> QED
    BY <2>1, <1>0, <1>2, <1>3 DEF Levels
<1>6. \A s \in Requests : wants'[s] # "none" => held'[s] + Depth[wants'[s]] <= 3
  BY <1>2, <1>5 DEF PoolTypeOK, Nest, Nesting
<1>7. \A s \in Requests, l \in Levels :
         l <= held'[s] => /\ l + Depth[frame'[<<s, l>>]] <= 4
                          /\ rest'[<<s, l>>] > 0 => Depth[frame'[<<s, l>>]] > 1
  <2> TAKE s \in Requests, l \in Levels
  <2>1. CASE <<s, l>> = <<r, held[r]>>
    BY <2>1, <1>1, <1>4 DEF PoolTypeOK, Nest, Nesting
  <2>2. CASE <<s, l>> # <<r, held[r]>>
    BY <2>2 DEF PoolTypeOK, Nest, Nesting
  <2> QED
    BY <2>1, <2>2
<1> QED
  BY <1>2, <1>4, <1>6, <1>7 DEF PoolTypeOK, Nest, Nesting, InUse

\* Opening a query lends one connection, at the next level of its request.
LEMMA OpenOK ==
  ASSUME PoolTypeOK, NEW r \in Requests, Open(r)
  PROVE  PoolTypeOK'
<1> DEFINE p == <<r, held[r] + 1>>
<1>0. held[r] \in {0, 1, 2} /\ held[r] + 1 \in Levels
  <2>1. held[r] \in {0, 1, 2}
    BY Facts DEF Open
  <2> QED
    BY <2>1 DEF Levels
<1>1. p \in Requests \X Levels /\ p \notin InUse
  BY <1>0 DEF InUse
<1>2. InUse' = InUse \cup {p}
  <2>1. \A x \in Requests \X Levels : x \in InUse' <=> x \in InUse \/ x = p
    <3> TAKE x \in Requests \X Levels
    <3>1. PICK s \in Requests, l \in Levels : x = <<s, l>>
      OBVIOUS
    <3>2. CASE s = r
      <4>1. held'[r] = held[r] + 1
        BY DEF PoolTypeOK, Open
      <4>2. l <= held[r] + 1 <=> l <= held[r] \/ l = held[r] + 1
        BY <1>0 DEF Levels
      <4> QED
        BY <3>1, <3>2, <4>1, <4>2 DEF InUse
    <3>3. CASE s # r
      BY <3>1, <3>3 DEF PoolTypeOK, Open, Levels, InUse
    <3> QED
      BY <3>2, <3>3
  <2> QED
    BY <2>1, <1>1 DEF InUse
<1>3. Cardinality(InUse') = Cardinality(InUse) + 1
  BY <1>1, <1>2, InUseFinite, FS_AddElement
<1>4. Cardinality(InUse') <= conns'
  BY <1>3, InUseFinite, FS_CardinalityType DEF PoolTypeOK, Open
<1>5. PICK n \in InnerCalls(wants[r]) : rest' = [rest EXCEPT ![p] = n]
  BY DEF Open
<1>6. wants[r] \in Queries
  BY DEF PoolTypeOK, Open
<1>7. n \in Nat /\ (n > 0 => Depth[wants[r]] > 1)
  BY <1>5, <1>6, CallsTyped
<1>8. held[r] + Depth[wants[r]] <= 3
  BY DEF PoolTypeOK, Open, Nesting
<1>9. \A s \in Requests : wants'[s] # "none" => held'[s] + Depth[wants'[s]] <= 3
  BY DEF PoolTypeOK, Open, Nesting
<1>10. \A s \in Requests, l \in Levels :
          l <= held'[s] => /\ l + Depth[frame'[<<s, l>>]] <= 4
                           /\ rest'[<<s, l>>] > 0 => Depth[frame'[<<s, l>>]] > 1
  <2> TAKE s \in Requests, l \in Levels
  <2>1. CASE <<s, l>> = p
    <3>1. /\ frame'[<<s, l>>] = wants[r]
          /\ rest'[<<s, l>>] = n
      BY <2>1, <1>1, <1>5 DEF PoolTypeOK, Open
    <3> QED
      BY <2>1, <3>1, <1>0, <1>6, <1>7, <1>8, CallsTyped
  <2>2. CASE <<s, l>> # p
    <3>1. /\ frame'[<<s, l>>] = frame[<<s, l>>]
          /\ rest'[<<s, l>>] = rest[<<s, l>>]
      BY <2>2, <1>5 DEF PoolTypeOK, Open
    <3>2. l <= held'[s] => l <= held[s]
      <4>1. CASE s = r
        BY <2>2, <4>1, <1>0 DEF PoolTypeOK, Open, Levels
      <4>2. CASE s # r
        BY <4>2 DEF PoolTypeOK, Open
      <4> QED
        BY <4>1, <4>2
    <3> QED
      BY <3>1, <3>2 DEF PoolTypeOK, Nesting
  <2> QED
    BY <2>1, <2>2
<1>11. /\ frame' \in [Requests \X Levels -> Queries]
       /\ rest' \in [Requests \X Levels -> Nat]
  BY <1>1, <1>5, <1>6, <1>7 DEF PoolTypeOK, Open
<1>12. held' \in [Requests -> 0 .. 3]
  BY <1>0 DEF PoolTypeOK, Open
<1>13. wants' \in [Requests -> Queries \cup {"none"}]
  BY DEF PoolTypeOK, Open
<1> QED
  BY <1>4, <1>9, <1>10, <1>11, <1>12, <1>13 DEF PoolTypeOK, Open, Nesting

\* Closing returns the connection of the deepest level.
LEMMA CloseOK ==
  ASSUME PoolTypeOK, NEW r \in Requests, Close(r)
  PROVE  PoolTypeOK'
<1>1. InUse' \in SUBSET InUse
  BY DEF PoolTypeOK, Close, Levels, InUse
<1>2. Cardinality(InUse') <= Cardinality(InUse)
  BY <1>1, InUseFinite, FS_Subset
<1>3. /\ IsFiniteSet(InUse')
      /\ Cardinality(InUse) \in Nat
  BY <1>1, InUseFinite, FS_Subset, FS_CardinalityType
<1>4. Cardinality(InUse') <= conns'
  BY <1>2, <1>3, FS_CardinalityType DEF PoolTypeOK, Close
<1>5. Nesting'
  BY DEF PoolTypeOK, Close, Nesting, Levels
<1>6. held' \in [Requests -> 0 .. 3]
  BY DEF PoolTypeOK, Close, Levels
<1> QED
  BY <1>4, <1>5, <1>6 DEF PoolTypeOK, Close

LEMMA NextOK == PoolTypeOK /\ [Next]_vars => PoolTypeOK'
<1> SUFFICES ASSUME PoolTypeOK, [Next]_vars PROVE PoolTypeOK'
  OBVIOUS
<1>1. CASE UNCHANGED vars
  BY <1>1 DEF vars, PoolTypeOK, Nesting, InUse
<1>2. ASSUME NEW r \in Requests, NEW h \in Handlers, Arrive(r, h) PROVE PoolTypeOK'
  BY <1>2, ArriveOK
<1>3. ASSUME NEW r \in Requests, Call(r) PROVE PoolTypeOK'
  BY <1>3, CallOK
<1>4. ASSUME NEW r \in Requests, Open(r) PROVE PoolTypeOK'
  BY <1>4, OpenOK
<1>5. ASSUME NEW r \in Requests, Nest(r) PROVE PoolTypeOK'
  BY <1>5, NestOK
<1>6. ASSUME NEW r \in Requests, Close(r) PROVE PoolTypeOK'
  BY <1>6, CloseOK
<1> QED
  BY <1>1, <1>2, <1>3, <1>4, <1>5, <1>6 DEF Next

\* The pool lends no more connections than it has, for any number of
\* requests, and no request nests more than three queries.
THEOREM TypeCorrect == Spec => []PoolTypeOK
<1>1. Init => PoolTypeOK
  BY InitOK
<1>2. PoolTypeOK /\ [Next]_vars => PoolTypeOK'
  BY NextOK
<1> QED
  BY <1>1, <1>2, PTL DEF Spec

-----------------------------------------------------------------------------

\* A request that waits owns two connections at most, so when all wait there
\* is one left in a pool of more than two for each request.
LEMMA TwoForEach == PoolTypeOK => NeverStuckWhenSized
<1> SUFFICES ASSUME PoolTypeOK, conns > 2 * Cardinality(Requests), Stuck
             PROVE  FALSE
  BY DEF NeverStuckWhenSized
<1>1. \A r \in Requests : held[r] <= 2
  <2> TAKE r \in Requests
  <2>1. CASE wants[r] = "none"
    BY <2>1, Facts DEF Stuck
  <2>2. CASE wants[r] # "none"
    <3>1. Depth[wants[r]] \in 1 .. 3
      BY <2>2, Facts, CallsTyped
    <3> QED
      BY <2>2, <3>1, Facts
  <2> QED
    BY <2>1, <2>2
<1>2. InUse \in SUBSET (Requests \X (1 .. 2))
  <2>1. ASSUME NEW r \in Requests, NEW l \in Levels, l <= held[r] PROVE l \in 1 .. 2
    <3>1. held[r] \in {0, 1, 2}
      BY <1>1, Facts
    <3>2. l \in 1 .. 3
      BY DEF Levels
    <3> QED
      BY <2>1, <3>1, <3>2
  <2> QED
    BY <2>1 DEF InUse
<1>3. IsFiniteSet(1 .. 2) /\ Cardinality(1 .. 2) = 2
  BY IntervalsFinite
<1>4. /\ IsFiniteSet(Requests \X (1 .. 2))
      /\ Cardinality(Requests \X (1 .. 2)) = Cardinality(Requests) * 2
  BY <1>3, PoolAssumption, FS_Product
<1>5. Cardinality(InUse) <= Cardinality(Requests) * 2
  BY <1>2, <1>4, FS_Subset
<1>6. Cardinality(Requests) \in Nat
  BY PoolAssumption, FS_CardinalityType
<1> QED
  BY <1>5, <1>6 DEF Stuck, PoolTypeOK

\* The size from which the nested queries cannot deadlock the pool.
THEOREM SizedPoolNeverStuck == Spec => []NeverStuckWhenSized
<1>1. PoolTypeOK => NeverStuckWhenSized
  BY TwoForEach
<1> QED
  BY <1>1, TypeCorrect, PTL
=============================================================================
