--------------------------- MODULE RegistryProofs ---------------------------
(***************************************************************************)
(* Proofs about Registry and about Billing, which is composed with it, for *)
(* any clients, strategies, plans and periods and any number of            *)
(* overlapping handlers.  That a gain is charged once is proved for one    *)
(* closing at a time: two that overlap do charge it twice.                 *)
(***************************************************************************)
EXTENDS Billing, TLAPS

\* The stage of a handler says what its other fields hold.
Shape ==
    /\ \A a \in Handlers : subject[a] = None <=> stage[a] = "free"
    /\ \A a \in Admins : stage[a] \notin {"checkSub", "deliver"}
    /\ \A d \in Downloads : stage[d] \notin AdminStages
    /\ \A a \in Handlers : stage[a] = "assignSub" => item[a] \in Plans
    /\ \A a \in Handlers : stage[a] = "checkSub" => item[a] \in Strategies

\* The subscriptions of a held client are off, and no handler is about to give
\* one back.
HeldInv ==
    \A c \in Clients : held[c] =>
        /\ active[c] = {}
        /\ \A a \in Admins : subject[a] = c => stage[a] \notin {"resumeSubs", "assignSub"}

TypeInv == RegistryTypeOK /\ Shape

LEMMA TypeInit == RegistryInit => TypeInv
  BY RegistryAssumption
  DEF RegistryInit, TypeInv, RegistryTypeOK, Shape, ClientStatuses, BillingStatuses, Stages,
      AdminStages, Handlers

LEMMA TypeStep ==
    ASSUME TypeInv, [RegistryNext]_registryVars
    PROVE  TypeInv'
  <1> USE RegistryAssumption
  <1> USE DEF TypeInv, RegistryTypeOK, Shape, ClientStatuses, BillingStatuses, Stages,
              AdminStages, Handlers
  <1>1. ASSUME NEW c \in Clients, Register(c) PROVE TypeInv'
    BY <1>1, SMTT(60) DEF Register, handlers, history
  <1>2. ASSUME NEW c \in Clients, NEW s \in Strategies, Grant(c, s) PROVE TypeInv'
    BY <1>2, SMTT(60) DEF Grant, Subscribe, Release, handlers
  <1>3. ASSUME NEW c \in Clients, NEW p \in Plans, StripeCancel(c, p) PROVE TypeInv'
    BY <1>3, ZenonT(60) DEF StripeCancel, handlers, history
  <1>4. ASSUME NEW a \in Admins, NEW c \in Clients, Revoke(a, c) PROVE TypeInv'
    BY <1>4, SMTT(60) DEF Revoke, Mix, Begin
  <1>5. ASSUME NEW a \in Admins, RevokeSubs(a) PROVE TypeInv'
    BY <1>5, SMTT(60) DEF RevokeSubs, Hold, Continue
  <1>6. ASSUME NEW a \in Admins, RevokeBilling(a) PROVE TypeInv'
    BY <1>6, SMTT(60) DEF RevokeBilling, SetBilling, Return, history
  <1>7. ASSUME NEW a \in Admins, NEW c \in Clients, Suspend(a, c) PROVE TypeInv'
    BY <1>7, SMTT(60) DEF Suspend, Mix, Begin, history
  <1>8. ASSUME NEW a \in Admins, SuspendSubs(a) PROVE TypeInv'
    BY <1>8, SMTT(60) DEF SuspendSubs, Hold, Continue
  <1>9. ASSUME NEW a \in Admins, SuspendBilling(a) PROVE TypeInv'
    BY <1>9, SMTT(60) DEF SuspendBilling, SetBilling, Return, history
  <1>10. ASSUME NEW a \in Admins, NEW c \in Clients, Resume(a, c) PROVE TypeInv'
    BY <1>10, SMTT(60) DEF Resume, Release, Mix, Begin
  <1>11. ASSUME NEW a \in Admins, ResumeSubs(a) PROVE TypeInv'
    BY <1>11, SMTT(60) DEF ResumeSubs, Continue, history
  <1>12. ASSUME NEW a \in Admins, ResumeBilling(a) PROVE TypeInv'
    BY <1>12, SMTT(60) DEF ResumeBilling, SetBilling, Return, history
  <1>13. ASSUME NEW a \in Admins, NEW c \in Clients, NEW p \in Plans, Assign(a, c, p) PROVE TypeInv'
    BY <1>13, ZenonT(60) DEF Assign, Release, Mix, Begin
  <1>14. ASSUME NEW a \in Admins, AssignSub(a) PROVE TypeInv'
    BY <1>14, SMTT(60) DEF AssignSub, Subscribe, Return, history
  <1>15. ASSUME NEW d \in Downloads, NEW c \in Clients, NEW s \in Strategies, Download(d, c, s)
         PROVE TypeInv'
    BY <1>15, SMTT(60) DEF Download, Begin, access, history
  <1>16. ASSUME NEW d \in Downloads, CheckSub(d) PROVE TypeInv'
    BY <1>16, SMTT(60) DEF CheckSub, Continue, Return, access, history
  <1>17. ASSUME NEW d \in Downloads, Deliver(d) PROVE TypeInv'
    BY <1>17, SMTT(60) DEF Deliver, Return, access, history
  <1>18. CASE Crash
    BY <1>18, SMTT(60) DEF Crash, access, history
  <1>19. CASE UNCHANGED registryVars
    BY <1>19, SMTT(60) DEF registryVars, access, handlers, history
  <1> QED
    BY <1>1, <1>2, <1>3, <1>4, <1>5, <1>6, <1>7, <1>8, <1>9, <1>10, <1>11, <1>12, <1>13, <1>14,
       <1>15, <1>16, <1>17, <1>18, <1>19
    DEF RegistryNext, RegistryStep, AtOnce, Order, AdminStep, DownloadStep

\* The types hold in every reachable state.
THEOREM RegistryTypes == RegistrySpec => []RegistryTypeOK
  <1>1. RegistrySpec => []TypeInv
    BY TypeInit, TypeStep, PTL DEF RegistrySpec
  <1>2. TypeInv => RegistryTypeOK
    BY DEF TypeInv
  <1> QED
    BY <1>1, <1>2, PTL

-----------------------------------------------------------------------------
(* Suspends, revokes and downloads *)

LEMMA HeldInit == RegistryInit => HeldInv
  BY DEF RegistryInit, HeldInv

LEMMA HeldStep ==
    ASSUME TypeInv, HeldInv, [RegistryNext]_registryVars
    PROVE  HeldInv'
  <1> USE RegistryAssumption
  <1> USE DEF TypeInv, RegistryTypeOK, Shape, HeldInv, Stages, AdminStages, Handlers
  <1>1. ASSUME NEW c \in Clients, Register(c) PROVE HeldInv'
    BY <1>1, SMTT(60) DEF Register, handlers, history
  <1>2. ASSUME NEW c \in Clients, NEW s \in Strategies, Grant(c, s) PROVE HeldInv'
    BY <1>2, SMTT(60) DEF Grant, Subscribe, Release, handlers
  <1>3. ASSUME NEW c \in Clients, NEW p \in Plans, StripeCancel(c, p) PROVE HeldInv'
    BY <1>3, SMTT(60) DEF StripeCancel, handlers, history
  <1>4. ASSUME NEW a \in Admins, NEW c \in Clients, Revoke(a, c) PROVE HeldInv'
    BY <1>4, SMTT(60) DEF Revoke, Mix, Begin
  <1>5. ASSUME NEW a \in Admins, RevokeSubs(a) PROVE HeldInv'
    BY <1>5, SMTT(60) DEF RevokeSubs, Hold, Restoring, Continue
  <1>6. ASSUME NEW a \in Admins, RevokeBilling(a) PROVE HeldInv'
    BY <1>6, SMTT(60) DEF RevokeBilling, SetBilling, Return, history
  <1>7. ASSUME NEW a \in Admins, NEW c \in Clients, Suspend(a, c) PROVE HeldInv'
    BY <1>7, SMTT(60) DEF Suspend, Mix, Begin, history
  <1>8. ASSUME NEW a \in Admins, SuspendSubs(a) PROVE HeldInv'
    BY <1>8, SMTT(60) DEF SuspendSubs, Hold, Restoring, Continue
  <1>9. ASSUME NEW a \in Admins, SuspendBilling(a) PROVE HeldInv'
    BY <1>9, SMTT(60) DEF SuspendBilling, SetBilling, Return, history
  <1>10. ASSUME NEW a \in Admins, NEW c \in Clients, Resume(a, c) PROVE HeldInv'
    BY <1>10, SMTT(60) DEF Resume, Release, Mix, Begin
  <1>11. ASSUME NEW a \in Admins, ResumeSubs(a) PROVE HeldInv'
    BY <1>11, SMTT(60) DEF ResumeSubs, Continue, history
  <1>12. ASSUME NEW a \in Admins, ResumeBilling(a) PROVE HeldInv'
    BY <1>12, SMTT(60) DEF ResumeBilling, SetBilling, Return, history
  <1>13. ASSUME NEW a \in Admins, NEW c \in Clients, NEW p \in Plans, Assign(a, c, p) PROVE HeldInv'
    BY <1>13, SMTT(60) DEF Assign, Release, Mix, Begin
  <1>14. ASSUME NEW a \in Admins, AssignSub(a) PROVE HeldInv'
    BY <1>14, SMTT(60) DEF AssignSub, Subscribe, Return, history
  <1>15. ASSUME NEW d \in Downloads, NEW c \in Clients, NEW s \in Strategies, Download(d, c, s)
         PROVE HeldInv'
    BY <1>15, SMTT(60) DEF Download, Begin, access, history
  <1>16. ASSUME NEW d \in Downloads, CheckSub(d) PROVE HeldInv'
    BY <1>16, SMTT(60) DEF CheckSub, Continue, Return, access, history
  <1>17. ASSUME NEW d \in Downloads, Deliver(d) PROVE HeldInv'
    BY <1>17, SMTT(60) DEF Deliver, Return, access, history
  <1>18. CASE Crash
    BY <1>18, SMTT(60) DEF Crash, access, history
  <1>19. CASE UNCHANGED registryVars
    BY <1>19, SMTT(60) DEF registryVars, access, handlers, history
  <1> QED
    BY <1>1, <1>2, <1>3, <1>4, <1>5, <1>6, <1>7, <1>8, <1>9, <1>10, <1>11, <1>12, <1>13, <1>14,
       <1>15, <1>16, <1>17, <1>18, <1>19
    DEF RegistryNext, RegistryStep, AtOnce, Order, AdminStep, DownloadStep

\* A check that passes has found the strategy among the active ones.
LEMMA DeliveryStep ==
    ASSUME TypeInv, HeldInv, [RegistryNext]_registryVars,
           NEW d \in Downloads, stage[d] = "checkSub", stage'[d] = "deliver"
    PROVE  ~held[subject[d]]
  <1> USE RegistryAssumption
  <1> USE DEF TypeInv, RegistryTypeOK, Shape, HeldInv, Stages, AdminStages, Handlers
  <1>0. subject[d] \in Clients
    OBVIOUS
  <1>1. ASSUME NEW c \in Clients, Register(c) PROVE ~held[subject[d]]
    BY <1>1, <1>0, SMTT(60) DEF Register, handlers, history
  <1>2. ASSUME NEW c \in Clients, NEW s \in Strategies, Grant(c, s) PROVE ~held[subject[d]]
    BY <1>2, <1>0, SMTT(60) DEF Grant, Subscribe, Release, handlers
  <1>3. ASSUME NEW c \in Clients, NEW p \in Plans, StripeCancel(c, p) PROVE ~held[subject[d]]
    BY <1>3, <1>0, SMTT(60) DEF StripeCancel, handlers, history
  <1>4. ASSUME NEW a \in Admins, NEW c \in Clients, Revoke(a, c) PROVE ~held[subject[d]]
    BY <1>4, <1>0, SMTT(60) DEF Revoke, Mix, Begin
  <1>5. ASSUME NEW a \in Admins, RevokeSubs(a) PROVE ~held[subject[d]]
    BY <1>5, <1>0, SMTT(60) DEF RevokeSubs, Hold, Restoring, Continue
  <1>6. ASSUME NEW a \in Admins, RevokeBilling(a) PROVE ~held[subject[d]]
    BY <1>6, <1>0, SMTT(60) DEF RevokeBilling, SetBilling, Return, history
  <1>7. ASSUME NEW a \in Admins, NEW c \in Clients, Suspend(a, c) PROVE ~held[subject[d]]
    BY <1>7, <1>0, SMTT(60) DEF Suspend, Mix, Begin, history
  <1>8. ASSUME NEW a \in Admins, SuspendSubs(a) PROVE ~held[subject[d]]
    BY <1>8, <1>0, SMTT(60) DEF SuspendSubs, Hold, Restoring, Continue
  <1>9. ASSUME NEW a \in Admins, SuspendBilling(a) PROVE ~held[subject[d]]
    BY <1>9, <1>0, SMTT(60) DEF SuspendBilling, SetBilling, Return, history
  <1>10. ASSUME NEW a \in Admins, NEW c \in Clients, Resume(a, c) PROVE ~held[subject[d]]
    BY <1>10, <1>0, SMTT(60) DEF Resume, Release, Mix, Begin
  <1>11. ASSUME NEW a \in Admins, ResumeSubs(a) PROVE ~held[subject[d]]
    BY <1>11, <1>0, SMTT(60) DEF ResumeSubs, Continue, history
  <1>12. ASSUME NEW a \in Admins, ResumeBilling(a) PROVE ~held[subject[d]]
    BY <1>12, <1>0, SMTT(60) DEF ResumeBilling, SetBilling, Return, history
  <1>13. ASSUME NEW a \in Admins, NEW c \in Clients, NEW p \in Plans, Assign(a, c, p)
         PROVE ~held[subject[d]]
    BY <1>13, <1>0, SMTT(60) DEF Assign, Release, Mix, Begin
  <1>14. ASSUME NEW a \in Admins, AssignSub(a) PROVE ~held[subject[d]]
    BY <1>14, <1>0, SMTT(60) DEF AssignSub, Subscribe, Return, history
  <1>15. ASSUME NEW e \in Downloads, NEW c \in Clients, NEW s \in Strategies, Download(e, c, s)
         PROVE ~held[subject[d]]
    BY <1>15, <1>0, SMTT(60) DEF Download, Begin, access, history
  <1>16. ASSUME NEW e \in Downloads, CheckSub(e) PROVE ~held[subject[d]]
    BY <1>16, <1>0, SMTT(60) DEF CheckSub, Continue, Return, access, history
  <1>17. ASSUME NEW e \in Downloads, Deliver(e) PROVE ~held[subject[d]]
    BY <1>17, <1>0, SMTT(60) DEF Deliver, Return, access, history
  <1>18. CASE Crash
    BY <1>18, SMTT(60) DEF Crash, access, history
  <1>19. CASE UNCHANGED registryVars
    BY <1>19, SMTT(60) DEF registryVars, access, handlers, history
  <1> QED
    BY <1>1, <1>2, <1>3, <1>4, <1>5, <1>6, <1>7, <1>8, <1>9, <1>10, <1>11, <1>12, <1>13, <1>14,
       <1>15, <1>16, <1>17, <1>18, <1>19
    DEF RegistryNext, RegistryStep, AtOnce, Order, AdminStep, DownloadStep

\* Once a suspend or revoke has taken the subscriptions of a client away, no
\* download passes the check until a resume, a grant or an assignment.
THEOREM SuspendStops == RegistrySpec => SuspendStopsDelivery
  <1>1. RegistrySpec => [](TypeInv /\ HeldInv)
    BY TypeInit, TypeStep, HeldInit, HeldStep, PTL DEF RegistrySpec
  <1> DEFINE Checked == \A d \in Downloads :
        stage[d] = "checkSub" /\ stage'[d] = "deliver" => ~held[subject[d]]
  <1>2. ASSUME TypeInv /\ HeldInv, [RegistryNext]_registryVars
        PROVE  [Checked]_registryVars
    BY <1>2, DeliveryStep
  <1>3. RegistrySpec => [][Checked]_registryVars
    BY <1>1, <1>2, PTL DEF RegistrySpec
  <1> QED
    BY <1>3, SMTT(60) DEF SuspendStopsDelivery

-----------------------------------------------------------------------------
(* Cancelled plans *)

\* An order of the operator assigns plan p to client c.
Assigned(c, p) ==
    \E a \in Admins :
        /\ stage[a] = "free" /\ stage'[a] = "assignSub"
        /\ subject'[a] = c /\ item'[a] = p

LEMMA CancelledStep ==
    ASSUME TypeInv, [RegistryNext]_registryVars,
           NEW x \in Accounts, billing[x] = "CANCELLED", billing'[x] # "CANCELLED"
    PROVE  Assigned(x[1], x[2])
  <1> USE RegistryAssumption
  <1> USE DEF TypeInv, RegistryTypeOK, Shape, Stages, AdminStages, Handlers, Accounts
  <1>1. ASSUME NEW c \in Clients, Register(c) PROVE Assigned(x[1], x[2])
    BY <1>1, SMTT(60) DEF Register, handlers, history
  <1>2. ASSUME NEW c \in Clients, NEW s \in Strategies, Grant(c, s) PROVE Assigned(x[1], x[2])
    BY <1>2, SMTT(60) DEF Grant, Subscribe, Release, handlers
  <1>3. ASSUME NEW c \in Clients, NEW p \in Plans, StripeCancel(c, p) PROVE Assigned(x[1], x[2])
    BY <1>3, SMTT(60) DEF StripeCancel, handlers, history
  <1>4. ASSUME NEW a \in Admins, NEW c \in Clients, Revoke(a, c) PROVE Assigned(x[1], x[2])
    BY <1>4, SMTT(60) DEF Revoke, Mix, Begin
  <1>5. ASSUME NEW a \in Admins, RevokeSubs(a) PROVE Assigned(x[1], x[2])
    BY <1>5, SMTT(60) DEF RevokeSubs, Hold, Restoring, Continue
  <1>6. ASSUME NEW a \in Admins, RevokeBilling(a) PROVE Assigned(x[1], x[2])
    BY <1>6, SMTT(60) DEF RevokeBilling, SetBilling, Return, history
  <1>7. ASSUME NEW a \in Admins, NEW c \in Clients, Suspend(a, c) PROVE Assigned(x[1], x[2])
    BY <1>7, SMTT(60) DEF Suspend, Mix, Begin, history
  <1>8. ASSUME NEW a \in Admins, SuspendSubs(a) PROVE Assigned(x[1], x[2])
    BY <1>8, SMTT(60) DEF SuspendSubs, Hold, Restoring, Continue
  <1>9. ASSUME NEW a \in Admins, SuspendBilling(a) PROVE Assigned(x[1], x[2])
    BY <1>9, SMTT(60) DEF SuspendBilling, SetBilling, Return, history
  <1>10. ASSUME NEW a \in Admins, NEW c \in Clients, Resume(a, c) PROVE Assigned(x[1], x[2])
    BY <1>10, SMTT(60) DEF Resume, Release, Mix, Begin
  <1>11. ASSUME NEW a \in Admins, ResumeSubs(a) PROVE Assigned(x[1], x[2])
    BY <1>11, SMTT(60) DEF ResumeSubs, Continue, history
  <1>12. ASSUME NEW a \in Admins, ResumeBilling(a) PROVE Assigned(x[1], x[2])
    BY <1>12, SMTT(60) DEF ResumeBilling, SetBilling, Return, history
  <1>13. ASSUME NEW a \in Admins, NEW c \in Clients, NEW p \in Plans, Assign(a, c, p)
         PROVE Assigned(x[1], x[2])
    BY <1>13, SMTT(60) DEF Assigned, Assign, Release, Begin
  <1>14. ASSUME NEW a \in Admins, AssignSub(a) PROVE Assigned(x[1], x[2])
    BY <1>14, SMTT(60) DEF AssignSub, Subscribe, Return, history
  <1>15. ASSUME NEW d \in Downloads, NEW c \in Clients, NEW s \in Strategies, Download(d, c, s)
         PROVE Assigned(x[1], x[2])
    BY <1>15, SMTT(60) DEF Download, Begin, access, history
  <1>16. ASSUME NEW d \in Downloads, CheckSub(d) PROVE Assigned(x[1], x[2])
    BY <1>16, SMTT(60) DEF CheckSub, Continue, Return, access, history
  <1>17. ASSUME NEW d \in Downloads, Deliver(d) PROVE Assigned(x[1], x[2])
    BY <1>17, SMTT(60) DEF Deliver, Return, access, history
  <1>18. CASE Crash
    BY <1>18, SMTT(60) DEF Crash, access, history
  <1>19. CASE UNCHANGED registryVars
    BY <1>19, SMTT(60) DEF registryVars, access, handlers, history
  <1> QED
    BY <1>1, <1>2, <1>3, <1>4, <1>5, <1>6, <1>7, <1>8, <1>9, <1>10, <1>11, <1>12, <1>13, <1>14,
       <1>15, <1>16, <1>17, <1>18, <1>19
    DEF RegistryNext, RegistryStep, AtOnce, Order, AdminStep, DownloadStep

\* A cancelled plan is billed again only when it is assigned again.
THEOREM CancelledRevival == RegistrySpec => CancelledUntilAssigned
  <1>1. RegistrySpec => []TypeInv
    BY TypeInit, TypeStep, PTL DEF RegistrySpec
  <1> DEFINE Revived == \A x \in Accounts :
        billing[x] = "CANCELLED" /\ billing'[x] # "CANCELLED" =>
            \E a \in Admins :
                /\ stage[a] = "free" /\ stage'[a] = "assignSub"
                /\ subject'[a] = x[1] /\ item'[a] = x[2]
  <1>2. ASSUME TypeInv, [RegistryNext]_registryVars
        PROVE  [Revived]_registryVars
    BY <1>2, CancelledStep DEF Assigned
  <1>3. RegistrySpec => [][Revived]_registryVars
    BY <1>1, <1>2, PTL DEF RegistrySpec
  <1> QED
    BY <1>3, SMTT(60) DEF CancelledUntilAssigned

-----------------------------------------------------------------------------
(* Handlers that follow one another *)

\* Handler a is between the two statements that assign plan p to client c.
Assigning(a, c, p) == stage[a] = "assignSub" /\ subject[a] = c /\ item[a] = p

\* Handler a has still to give client c the strategy of plan p, or to take the
\* plan off the bills.
Ending(a, c, p) ==
    \/ Assigning(a, c, p)
    \/ subject[a] = c /\ stage[a] \in {"suspendBilling", "revokeBilling"}

\* For a client whose handlers followed one another: one handler at most is at
\* work on it; a plan with a billing row has a subscription row, and an active
\* one where it is billed, but for what that handler has yet to do; and a
\* resume has made every subscription active before it turns to the billing rows.
Paid(c, p) ==
    ~mixed[c] =>
        /\ \A a, b \in Admins : subject[a] = c /\ subject[b] = c => a = b
        /\ billing[<<c, p>>] # "none" =>
              StrategyOf[p] \in granted[c] \/ \E a \in Admins : Assigning(a, c, p)
        /\ billing[<<c, p>>] = "ACTIVE" =>
              StrategyOf[p] \in active[c] \/ \E a \in Admins : Ending(a, c, p)
        /\ billing[<<c, p>>] # "none" =>
              \A a \in Admins : subject[a] = c /\ stage[a] = "resumeBilling" =>
                                  StrategyOf[p] \in active[c]

PaidInv == \A c \in Clients, p \in Plans : Paid(c, p)

LEMMA PaidInit == RegistryInit => PaidInv
  BY RegistryAssumption DEF RegistryInit, PaidInv, Paid, Accounts, Handlers

\* A handler that begins work on a client changes nothing for the other ones,
\* and is the only one at work on its own or mixes with another.
LEMMA BeginPaid ==
    ASSUME TypeInv, NEW c \in Clients, NEW p \in Plans, Paid(c, p),
           NEW a \in Admins, NEW e \in Clients, NEW x,
           NEW s \in {"revokeSubs", "suspendSubs", "resumeSubs", "assignSub"},
           Begin(a, e, x, s), Mix(e), granted' = granted, active' = active,
           billing'[<<c, p>>] = billing[<<c, p>>] \/ (e = c /\ s = "assignSub" /\ x = p)
    PROVE  Paid(c, p)'
  <1> USE RegistryAssumption
  <1> USE DEF TypeInv, RegistryTypeOK, Shape, Handlers, Stages, AdminStages
  <1>1. /\ subject[a] = None
        /\ stage'[a] = s /\ subject'[a] = e /\ item'[a] = x
        /\ \A b \in Admins \ {a} :
              stage'[b] = stage[b] /\ subject'[b] = subject[b] /\ item'[b] = item[b]
        /\ mixed'[c] <=> mixed[c] \/ (e = c /\ \E b \in Admins : subject[b] = c)
    BY DEF Begin, Mix, AtWork
  <1>2. CASE e = c
    <2> SUFFICES ASSUME ~mixed'[c] PROVE Paid(c, p)'
      BY DEF Paid
    <2>1. ~mixed[c] /\ \A b \in Admins : subject[b] # c
      BY <1>1, <1>2
    <2>2. \A b \in Admins : subject'[b] = c => b = a
      BY <1>1, <2>1
    <2>3. /\ billing[<<c, p>>] # "none" => StrategyOf[p] \in granted[c]
          /\ billing[<<c, p>>] = "ACTIVE" => StrategyOf[p] \in active[c]
      BY <2>1 DEF Paid, Assigning, Ending
    <2>4. CASE billing'[<<c, p>>] = billing[<<c, p>>]
      BY <1>1, <2>2, <2>3, <2>4 DEF Paid, Assigning, Ending
    <2>5. CASE s = "assignSub" /\ x = p
      <3>1. Assigning(a, c, p)'
        BY <1>1, <1>2, <2>5 DEF Assigning
      <3> QED
        BY <1>1, <2>2, <2>5, <3>1 DEF Paid, Ending
    <2> QED
      BY <2>4, <2>5, <1>2
  <1>3. CASE e # c
    <2>1. /\ \A b \in Admins : Assigning(b, c, p)' <=> Assigning(b, c, p)
          /\ \A b \in Admins : Ending(b, c, p)' <=> Ending(b, c, p)
      BY <1>1, <1>3 DEF Assigning, Ending
    <2> QED
      BY <1>1, <1>3, <2>1 DEF Paid
  <1> QED
    BY <1>2, <1>3

LEMMA PaidStep ==
    ASSUME TypeInv, PaidInv, [RegistryNext]_registryVars,
           NEW c \in Clients, NEW p \in Plans
    PROVE  Paid(c, p)'
  <1> USE RegistryAssumption
  <1> USE DEF Stages, AdminStages, Handlers, Paid, Ending, Assigning, AtWork, Mix
  <1>0. /\ TypeInv
        /\ Paid(c, p)
        /\ <<c, p>> \in Accounts
        /\ <<c, p>>[1] = c
        /\ \A e \in Clients, q \in Plans : <<e, q>> = <<c, p>> <=> e = c /\ q = p
        /\ StrategyOf[p] \in Strategies
    BY DEF PaidInv, Accounts
  <1> USE DEF TypeInv, RegistryTypeOK, Shape
  <1>1. ASSUME NEW e \in Clients, Register(e) PROVE Paid(c, p)'
    BY <1>1, <1>0, SMTT(60) DEF Register, handlers, history
  <1>2. ASSUME NEW e \in Clients, NEW s \in Strategies, Grant(e, s) PROVE Paid(c, p)'
    BY <1>2, <1>0, SMTT(60) DEF Grant, Subscribe, Release, handlers
  <1>3. ASSUME NEW e \in Clients, NEW q \in Plans, StripeCancel(e, q) PROVE Paid(c, p)'
    BY <1>3, <1>0, SMTT(60) DEF StripeCancel, handlers, history
  <1>4. ASSUME NEW a \in Admins, NEW e \in Clients, Revoke(a, e) PROVE Paid(c, p)'
    BY <1>4, <1>0, BeginPaid DEF Revoke
  <1>5. ASSUME NEW a \in Admins, RevokeSubs(a) PROVE Paid(c, p)'
    BY <1>5, <1>0, SMTT(60) DEF RevokeSubs, Hold, Restoring, Continue
  <1>6. ASSUME NEW a \in Admins, RevokeBilling(a) PROVE Paid(c, p)'
    BY <1>6, <1>0, SMTT(60) DEF RevokeBilling, SetBilling, Return, history
  <1>7. ASSUME NEW a \in Admins, NEW e \in Clients, Suspend(a, e) PROVE Paid(c, p)'
    BY <1>7, <1>0, BeginPaid DEF Suspend, history
  <1>8. ASSUME NEW a \in Admins, SuspendSubs(a) PROVE Paid(c, p)'
    BY <1>8, <1>0, SMTT(60) DEF SuspendSubs, Hold, Restoring, Continue
  <1>9. ASSUME NEW a \in Admins, SuspendBilling(a) PROVE Paid(c, p)'
    BY <1>9, <1>0, SMTT(60) DEF SuspendBilling, SetBilling, Return, history
  <1>10. ASSUME NEW a \in Admins, NEW e \in Clients, Resume(a, e) PROVE Paid(c, p)'
    BY <1>10, <1>0, BeginPaid DEF Resume
  <1>11. ASSUME NEW a \in Admins, ResumeSubs(a) PROVE Paid(c, p)'
    BY <1>11, <1>0, SMTT(60) DEF ResumeSubs, Continue, history
  <1>12. ASSUME NEW a \in Admins, ResumeBilling(a) PROVE Paid(c, p)'
    BY <1>12, <1>0, SMTT(60) DEF ResumeBilling, SetBilling, Return, history
  <1>13. ASSUME NEW a \in Admins, NEW e \in Clients, NEW q \in Plans, Assign(a, e, q)
         PROVE Paid(c, p)'
    <2>1. billing'[<<c, p>>] = billing[<<c, p>>] \/ (e = c /\ q = p)
      BY <1>13, <1>0, SMTT(60) DEF Assign
    <2>2. /\ Begin(a, e, q, "assignSub")
          /\ Mix(e)
          /\ granted' = granted
          /\ active' = active
      BY <1>13, SMTT(60) DEF Assign
    <2> QED
      BY <1>0, <2>1, <2>2, BeginPaid
  <1>14. ASSUME NEW a \in Admins, AssignSub(a) PROVE Paid(c, p)'
    BY <1>14, <1>0, SMTT(60) DEF AssignSub, Subscribe, Return, history
  <1>15. ASSUME NEW d \in Downloads, NEW e \in Clients, NEW s \in Strategies, Download(d, e, s)
         PROVE Paid(c, p)'
    BY <1>15, <1>0, SMTT(60) DEF Download, Begin, access, history
  <1>16. ASSUME NEW d \in Downloads, CheckSub(d) PROVE Paid(c, p)'
    BY <1>16, <1>0, SMTT(60) DEF CheckSub, Continue, Return, access, history
  <1>17. ASSUME NEW d \in Downloads, Deliver(d) PROVE Paid(c, p)'
    BY <1>17, <1>0, SMTT(60) DEF Deliver, Return, access, history
  <1>18. CASE Crash
    BY <1>18, <1>0, ZenonT(60) DEF Crash, access, history
  <1>19. CASE UNCHANGED registryVars
    BY <1>19, <1>0, SMTT(60) DEF registryVars, access, handlers, history
  <1> QED
    BY <1>1, <1>2, <1>3, <1>4, <1>5, <1>6, <1>7, <1>8, <1>9, <1>10, <1>11, <1>12, <1>13, <1>14,
       <1>15, <1>16, <1>17, <1>18, <1>19
    DEF RegistryNext, RegistryStep, AtOnce, Order, AdminStep, DownloadStep

\* Handler a is at work on client c, at a stage of S.
At(a, c, S) == subject[a] = c /\ stage[a] \in S

\* For a client whose handlers followed one another: a suspend leaves it
\* SUSPENDED until it returns, a resume finds it in another status once it has
\* begun; and if no plan was assigned late, a client that is not ACTIVE is
\* billed only until a suspend or a revoke that is at work gets to the billing
\* rows, and a revoked one keeps no suspended billing row for a resume to find.
Welcome(c, p) ==
    /\ client[c] = "none" => billing[<<c, p>>] = "none"
    /\ ~mixed[c] =>
          \A a \in Admins :
              /\ At(a, c, {"suspendSubs", "suspendBilling"}) => client[c] = "SUSPENDED"
              /\ At(a, c, {"resumeSubs", "resumeBilling"}) => client[c] # "SUSPENDED"
    /\ ~mixed[c] /\ ~late[c] =>
          /\ billing[<<c, p>>] = "ACTIVE" /\ client[c] # "ACTIVE" =>
                \E a \in Admins : At(a, c, {"suspendSubs", "suspendBilling", "revokeSubs", "revokeBilling"})
          /\ billing[<<c, p>>] = "SUSPENDED" /\ client[c] = "REVOKED" =>
                \E a \in Admins : At(a, c, {"revokeSubs", "revokeBilling"})

WelcomeInv == \A c \in Clients, p \in Plans : Welcome(c, p)

LEMMA WelcomeInit == RegistryInit => WelcomeInv
  BY RegistryAssumption DEF RegistryInit, WelcomeInv, Welcome, Accounts, Handlers, At

\* A handler that begins work on client e at stage s, which has made what it
\* has made of the client's status and of its billing rows.
LEMMA BeginWelcome ==
    ASSUME TypeInv, NEW c \in Clients, NEW p \in Plans, Welcome(c, p),
           NEW a \in Admins, NEW e \in Clients, NEW x,
           NEW s \in {"revokeSubs", "suspendSubs", "resumeSubs", "assignSub"},
           Begin(a, e, x, s), Mix(e), client[e] # "none", client'[e] # "none",
           e # c => client'[c] = client[c] /\ billing'[<<c, p>>] = billing[<<c, p>>] /\ late'[c] = late[c],
           s # "assignSub" => billing'[<<c, p>>] = billing[<<c, p>>],
           s = "revokeSubs" => client'[e] = "REVOKED",
           s = "suspendSubs" => client'[e] = "SUSPENDED",
           s = "resumeSubs" => client'[e] = (IF client[e] = "SUSPENDED" THEN "ACTIVE" ELSE client[e])
                               /\ late'[e] = (late[e] /\ client[e] # "SUSPENDED"),
           s = "assignSub" => client'[e] = client[e] /\ late'[e] = (late[e] \/ client[e] # "ACTIVE"),
           s \in {"revokeSubs", "suspendSubs"} => late'[e] = late[e]
    PROVE  Welcome(c, p)'
  <1>0. /\ mixed \in [Clients -> BOOLEAN] /\ late \in [Clients -> BOOLEAN]
        /\ stage \in [Handlers -> Stages] /\ subject \in [Handlers -> Clients \cup {None}]
        /\ client \in [Clients -> ClientStatuses]
        /\ a \in Handlers /\ Admins \subseteq Handlers
        /\ stage[a] = "free" => subject[a] = None
        /\ None \notin Clients
    BY RegistryAssumption DEF TypeInv, RegistryTypeOK, Shape, Handlers
  <1>1. /\ subject[a] = None
        /\ stage'[a] = s /\ subject'[a] = e
        /\ \A b \in Admins \ {a} : stage'[b] = stage[b] /\ subject'[b] = subject[b]
        /\ mixed'[c] <=> mixed[c] \/ (e = c /\ \E b \in Admins : subject[b] = c)
    <2>1. /\ subject[a] = None
          /\ stage'[a] = s /\ subject'[a] = e
          /\ \A b \in Admins \ {a} : stage'[b] = stage[b] /\ subject'[b] = subject[b]
      BY <1>0 DEF Begin
    <2>2. mixed' = [mixed EXCEPT ![e] = mixed[e] \/ AtWork(e)]
      BY DEF Mix
    <2>3. mixed'[c] <=> mixed[c] \/ (e = c /\ AtWork(c))
      BY <1>0, <2>2
    <2> QED
      BY <2>1, <2>3 DEF AtWork
  <1>2. CASE e = c
    <2>1. ~mixed'[c] => ~mixed[c] /\ \A b \in Admins : subject[b] # c
      BY <1>1, <1>2
    <2>2. ~mixed'[c] => \A b \in Admins : subject'[b] = c => b = a
      BY <1>1, <2>1
    <2>7. billing'[<<c, p>>] = billing[<<c, p>>] \/ s = "assignSub"
      OBVIOUS
    <2>3. CASE s = "revokeSubs"
      BY <1>1, <1>2, <2>2, <2>3, SMTT(60) DEF Welcome, At
    <2>4. CASE s = "suspendSubs"
      BY <1>1, <1>2, <2>2, <2>4, SMTT(60) DEF Welcome, At
    <2>5. CASE s = "resumeSubs"
      <3>1. /\ client'[c] = (IF client[c] = "SUSPENDED" THEN "ACTIVE" ELSE client[c])
            /\ late'[c] = (late[c] /\ client[c] # "SUSPENDED")
            /\ billing'[<<c, p>>] = billing[<<c, p>>]
        BY <1>2, <2>5
      <3>2. ~mixed'[c] => \A b \in Admins : subject'[b] = c => stage'[b] = "resumeSubs"
        BY <1>1, <2>2, <2>5
      <3>3. client'[c] # "none" /\ client'[c] # "SUSPENDED"
        BY <1>2, <3>1
      <3>4. CASE client[c] = "SUSPENDED"
        <4>1. client'[c] = "ACTIVE" /\ late'[c] = FALSE
          BY <3>1, <3>4
        <4> QED
          BY <3>1, <3>2, <4>1 DEF Welcome, At
      <3>5. CASE client[c] # "SUSPENDED"
        <4>1. client'[c] = client[c] /\ late'[c] = late[c]
          BY <1>0, <3>1, <3>5
        <4> QED
          BY <2>1, <3>1, <3>2, <3>3, <3>5, <4>1 DEF Welcome, At
      <3> QED
        BY <3>4, <3>5
    <2>6. CASE s = "assignSub"
      <3>1. client'[c] = client[c] /\ late'[c] = (late[c] \/ client[c] # "ACTIVE")
        BY <1>2, <2>6
      <3>2. client[c] # "none"
        BY <1>2
      <3>3. ~mixed'[c] => \A b \in Admins : subject'[b] = c => stage'[b] = "assignSub"
        BY <1>1, <2>2, <2>6
      <3>4. ~mixed'[c] /\ ~late'[c] => client'[c] = "ACTIVE"
        BY <1>0, <3>1
      <3> QED
        BY <3>1, <3>2, <3>3, <3>4 DEF Welcome, At
    <2> QED
      BY <2>3, <2>4, <2>5, <2>6
  <1>3. CASE e # c
    <2>1. \A b \in Admins : (subject'[b] = c <=> subject[b] = c)
      BY <1>0, <1>1, <1>3
    <2>2. \A b \in Admins : subject[b] = c => stage'[b] = stage[b]
      BY <1>0, <1>1
    <2>3. /\ client'[c] = client[c] /\ late'[c] = late[c]
          /\ billing'[<<c, p>>] = billing[<<c, p>>]
          /\ mixed'[c] <=> mixed[c]
      BY <1>1, <1>3
    <2> QED
      BY <2>1, <2>2, <2>3 DEF Welcome, At
  <1> QED
    BY <1>2, <1>3

LEMMA WelcomeStep ==
    ASSUME TypeInv, PaidInv, WelcomeInv, [RegistryNext]_registryVars,
           NEW c \in Clients, NEW p \in Plans
    PROVE  Welcome(c, p)'
  <1> USE RegistryAssumption
  <1> USE DEF Stages, AdminStages, Handlers, Welcome, At, AtWork, Mix, Registered
  <1>0. /\ TypeInv
        /\ Welcome(c, p)
        /\ ~mixed[c] => \A a, b \in Admins : subject[a] = c /\ subject[b] = c => a = b
        /\ <<c, p>> \in Accounts
        /\ <<c, p>>[1] = c
        /\ \A e \in Clients, q \in Plans : <<e, q>> = <<c, p>> <=> e = c /\ q = p
    BY DEF PaidInv, WelcomeInv, Paid, Accounts
  <1> USE DEF TypeInv, RegistryTypeOK, Shape
  <1>1. ASSUME NEW e \in Clients, Register(e) PROVE Welcome(c, p)'
    BY <1>1, <1>0, SMTT(60) DEF Register, handlers, history
  <1>2. ASSUME NEW e \in Clients, NEW s \in Strategies, Grant(e, s) PROVE Welcome(c, p)'
    BY <1>2, <1>0, SMTT(60) DEF Grant, Subscribe, Release, handlers
  <1>3. ASSUME NEW e \in Clients, NEW q \in Plans, StripeCancel(e, q) PROVE Welcome(c, p)'
    BY <1>3, <1>0, SMTT(60) DEF StripeCancel, handlers, history
  <1>4. ASSUME NEW a \in Admins, NEW e \in Clients, Revoke(a, e) PROVE Welcome(c, p)'
    <2>1. /\ Begin(a, e, None, "revokeSubs") /\ Mix(e) /\ billing' = billing /\ late' = late
          /\ client[e] # "none" /\ client'[e] = "REVOKED" /\ (e # c => client'[c] = client[c])
      BY <1>4, <1>0, SMTT(60) DEF Revoke
    <2> HIDE DEF Welcome, At, AtWork, Mix, TypeInv, RegistryTypeOK, Shape
    <2> QED
      BY <1>0, <2>1, BeginWelcome
  <1>5. ASSUME NEW a \in Admins, RevokeSubs(a) PROVE Welcome(c, p)'
    BY <1>5, <1>0, SMTT(60) DEF RevokeSubs, Hold, Restoring, Continue
  <1>6. ASSUME NEW a \in Admins, RevokeBilling(a) PROVE Welcome(c, p)'
    BY <1>6, <1>0, SMTT(60) DEF RevokeBilling, SetBilling, Return, history
  <1>7. ASSUME NEW a \in Admins, NEW e \in Clients, Suspend(a, e) PROVE Welcome(c, p)'
    <2>1. /\ Begin(a, e, None, "suspendSubs") /\ Mix(e) /\ billing' = billing /\ late' = late
          /\ client[e] # "none" /\ client'[e] = "SUSPENDED" /\ (e # c => client'[c] = client[c])
      BY <1>7, <1>0, SMTT(60) DEF Suspend
    <2> HIDE DEF Welcome, At, AtWork, Mix, TypeInv, RegistryTypeOK, Shape
    <2> QED
      BY <1>0, <2>1, BeginWelcome
  <1>8. ASSUME NEW a \in Admins, SuspendSubs(a) PROVE Welcome(c, p)'
    BY <1>8, <1>0, SMTT(60) DEF SuspendSubs, Hold, Restoring, Continue
  <1>9. ASSUME NEW a \in Admins, SuspendBilling(a) PROVE Welcome(c, p)'
    BY <1>9, <1>0, SMTT(60) DEF SuspendBilling, SetBilling, Return, history
  <1>10. ASSUME NEW a \in Admins, NEW e \in Clients, Resume(a, e) PROVE Welcome(c, p)'
    <2>1. /\ Begin(a, e, None, "resumeSubs") /\ Mix(e) /\ billing' = billing
          /\ client[e] # "none"
          /\ client'[e] = IF client[e] = "SUSPENDED" THEN "ACTIVE" ELSE client[e]
          /\ late'[e] = (late[e] /\ client[e] # "SUSPENDED")
          /\ e # c => client'[c] = client[c] /\ late'[c] = late[c]
      BY <1>10, <1>0, SMTT(60) DEF Resume
    <2> HIDE DEF Welcome, At, AtWork, Mix, TypeInv, RegistryTypeOK, Shape
    <2> QED
      BY <1>0, <2>1, BeginWelcome
  <1>11. ASSUME NEW a \in Admins, ResumeSubs(a) PROVE Welcome(c, p)'
    BY <1>11, <1>0, SMTT(60) DEF ResumeSubs, Continue, history
  <1>12. ASSUME NEW a \in Admins, ResumeBilling(a) PROVE Welcome(c, p)'
    <2>1. /\ client' = client /\ mixed' = mixed /\ late' = late
          /\ stage'[a] = "free" /\ subject'[a] = None
          /\ \A b \in Admins \ {a} : stage'[b] = stage[b] /\ subject'[b] = subject[b]
          /\ subject[a] # c => billing'[<<c, p>>] = billing[<<c, p>>]
          /\ billing'[<<c, p>>] = "SUSPENDED" => billing[<<c, p>>] = "SUSPENDED" /\ subject[a] # c
          /\ billing'[<<c, p>>] = "ACTIVE" => billing[<<c, p>>] \in {"ACTIVE", "SUSPENDED"}
          /\ billing[<<c, p>>] = "none" => billing'[<<c, p>>] = "none"
      BY <1>12, <1>0, SMTT(60) DEF ResumeBilling, SetBilling, Return, history
    <2>2. CASE subject[a] = c
      <3>1. ~mixed[c] => client[c] # "SUSPENDED" /\ \A b \in Admins : subject[b] = c => b = a
        BY <1>0, <1>12, <2>2 DEF ResumeBilling
      <3>2. ~mixed[c] => \A b \in Admins : subject'[b] # c
        BY <2>1, <3>1
      <3>3. client[c] \in ClientStatuses /\ stage[a] = "resumeBilling"
        BY <1>0, <1>12 DEF ResumeBilling
      <3> QED
        BY <1>0, <2>1, <2>2, <3>1, <3>2, <3>3 DEF ClientStatuses
    <2>3. CASE subject[a] # c
      BY <1>0, <2>1, <2>3
    <2> QED
      BY <2>2, <2>3
  <1>13. ASSUME NEW a \in Admins, NEW e \in Clients, NEW q \in Plans, Assign(a, e, q)
         PROVE Welcome(c, p)'
    <2>1. /\ Begin(a, e, q, "assignSub") /\ Mix(e) /\ client' = client /\ client[e] # "none"
          /\ late'[e] = (late[e] \/ client[e] # "ACTIVE")
          /\ e # c => billing'[<<c, p>>] = billing[<<c, p>>] /\ late'[c] = late[c]
      BY <1>13, <1>0, SMTT(60) DEF Assign
    <2> HIDE DEF Welcome, At, AtWork, Mix, TypeInv, RegistryTypeOK, Shape
    <2> QED
      BY <1>0, <2>1, BeginWelcome
  <1>14. ASSUME NEW a \in Admins, AssignSub(a) PROVE Welcome(c, p)'
    BY <1>14, <1>0, SMTT(60) DEF AssignSub, Subscribe, Return, history
  <1>15. ASSUME NEW d \in Downloads, NEW e \in Clients, NEW s \in Strategies, Download(d, e, s)
         PROVE Welcome(c, p)'
    BY <1>15, <1>0, SMTT(60) DEF Download, Begin, access, history
  <1>16. ASSUME NEW d \in Downloads, CheckSub(d) PROVE Welcome(c, p)'
    BY <1>16, <1>0, SMTT(60) DEF CheckSub, Continue, Return, access, history
  <1>17. ASSUME NEW d \in Downloads, Deliver(d) PROVE Welcome(c, p)'
    BY <1>17, <1>0, SMTT(60) DEF Deliver, Return, access, history
  <1>18. CASE Crash
    <2>1. /\ client' = client /\ billing' = billing /\ late' = late
          /\ mixed'[c] <=> mixed[c] \/ \E a \in Admins : subject[a] = c
          /\ \A a \in Admins : subject'[a] = None
      <3>1. client' = client /\ billing' = billing /\ late' = late
        BY <1>18 DEF Crash, access
      <3>2. \A a \in Admins : subject'[a] = None
        BY <1>18 DEF Crash
      <3>3. mixed'[c] <=> mixed[c] \/ AtWork(c)
        BY <1>18 DEF Crash
      <3> QED
        BY <3>1, <3>2, <3>3
    <2> QED
      BY <1>0, <2>1
  <1>19. CASE UNCHANGED registryVars
    BY <1>19, <1>0, SMTT(60) DEF registryVars, access, handlers, history
  <1> QED
    BY <1>1, <1>2, <1>3, <1>4, <1>5, <1>6, <1>7, <1>8, <1>9, <1>10, <1>11, <1>12, <1>13, <1>14,
       <1>15, <1>16, <1>17, <1>18, <1>19
    DEF RegistryNext, RegistryStep, AtOnce, Order, AdminStep, DownloadStep

\* As long as the handlers for a client follow one another to their ends, none
\* is at work, and no plan was assigned while it was suspended or revoked, the
\* client passes both checks of a download for every plan it is billed for: it
\* is ACTIVE and has the strategy's subscription.
THEOREM PaidSerial == RegistrySpec => []PaidForIsDelivered
  <1> DEFINE All == TypeInv /\ PaidInv /\ WelcomeInv
  <1>1. All /\ [RegistryNext]_registryVars => All'
    BY TypeStep, PaidStep, WelcomeStep DEF PaidInv, WelcomeInv
  <1>2. All => PaidForIsDelivered
    BY RegistryAssumption
    DEF TypeInv, Shape, PaidInv, Paid, WelcomeInv, Welcome, At, PaidForIsDelivered, BilledAtRest,
        Delivered, Ending, Assigning, AtWork, Handlers
  <1>3. RegistryInit => All
    BY TypeInit, PaidInit, WelcomeInit
  <1> QED
    BY <1>1, <1>2, <1>3, PTL DEF RegistrySpec

-----------------------------------------------------------------------------
(* Billing *)

\* What the handlers of reports, closings and payments do, and what is billed
\* with an assignment, are no steps of the registry's own tables: all that was
\* proved of Registry holds of it with Billing.
THEOREM BillingKeepsRegistry == Spec => RegistrySpec
<1>1. Init => RegistryInit
  BY DEF Init
<1>2. [Next]_vars => [RegistryNext]_registryVars
  <2>. SUFFICES ASSUME [Next]_vars PROVE [RegistryNext]_registryVars
    OBVIOUS
  <2>1. CASE RegistryOnly
    BY <2>1 DEF RegistryOnly, RegistryNext
  <2>2. CASE Die
    BY <2>2 DEF Die, RegistryNext
  <2>3. CASE \E a \in Admins, c \in Clients, p \in Plans : AssignPlan(a, c, p)
    BY <2>3 DEF AssignPlan, RegistryNext
  <2>4. CASE \E q \in Reporters : ReportStep(q)
    BY <2>4 DEF ReportStep, Post, StoreReport, RaiseMarks, Posted
  <2>5. CASE \E k \in Closers : CloseStep(k)
    BY <2>5 DEF CloseStep, CloseList, ClosePeak, CloseWrite, CloseRaise, Closed
  <2>6. CASE Payment
    BY <2>6 DEF Payment, MarkPaid, Waive
  <2>7. CASE UNCHANGED vars
    BY <2>7 DEF vars
  <2>. QED
    BY <2>1, <2>2, <2>3, <2>4, <2>5, <2>6, <2>7 DEF Next
<1>. QED
  BY <1>1, <1>2, PTL DEF Spec, RegistrySpec

\* The fields of a handler that closes a period fit the statement it is at.
LedgerTypes ==
    /\ equity \in [Reports -> Equity]
    /\ hwm \in [Accounts -> Equity]
    /\ invoice \in [Invoices -> {"none", "PENDING", "PAID", "WAIVED"}]
    /\ fee \in [Invoices -> Equity]
    /\ top \in [Invoices -> Equity]
    /\ \A n \in Invoices : fee[n] <= top[n]
    /\ posting \in [Reporters -> Clients \cup {None}]
    /\ peakSeen \in [Reporters -> Equity]
    /\ closing \in [Closers -> {"free", "next", "write", "raise"}]
    /\ period \in [Closers -> Periods \cup {None}]
    /\ records \in [Closers -> SUBSET Accounts]
    /\ marks \in [Closers -> [Accounts -> Equity]]
    /\ account \in [Closers -> Accounts \cup {None}]
    /\ peak \in [Closers -> Equity]
    /\ start \in [Accounts -> Equity]
    /\ since \in [Accounts -> SUBSET Periods]
    /\ settled \in [Accounts -> SUBSET Equity]
    /\ torn \in [Accounts -> BOOLEAN]
    /\ \A k \in Closers :
          /\ closing[k] # "free" => period[k] \in Periods
          /\ closing[k] \in {"write", "raise"} => account[k] \in Accounts \ records[k]

LEMMA LedgerInit == Init => LedgerTypes
<1>. SUFFICES ASSUME Init PROVE LedgerTypes
  OBVIOUS
<1>1. 0 \in Equity
  BY BillingAssumption DEF Equity
<1>. QED
  BY <1>1 DEF Init, LedgerTypes

\* What an invoice charges is equity that was reported.
LEMMA ChargedEquity ==
    ASSUME LedgerTypes, NEW n \in Invoices
    PROVE  Charged(n) \subseteq Equity
<1>1. fee[n] \in Equity /\ top[n] \in Equity /\ fee[n] <= top[n]
  BY DEF LedgerTypes
<1>. QED
  BY <1>1, BillingAssumption DEF Charged, Equity

LEMMA Heights ==
    ASSUME NEW x \in Equity, NEW y \in Equity
    PROVE  /\ Higher(x, y) \in Equity /\ Monus(x, y) \in Equity
           /\ Monus(x, y) <= Higher(x, y)
           /\ y <= Higher(y, x) /\ x <= Higher(y, x)
BY BillingAssumption DEF Higher, Monus, Equity

LEMMA ReportTypes ==
    ASSUME LedgerTypes, NEW q \in Reporters, ReportStep(q)
    PROVE  LedgerTypes'
<1>1. UNCHANGED <<invoice, fee, top, closers, audit>>
  BY DEF ReportStep, Post, StoreReport, RaiseMarks, Posted, ledger
<1>2. hwm' \in [Accounts -> Equity]
  <2>1. CASE RaiseMarks(q)
    <3>1. \A x \in Accounts : Higher(hwm[x], peakSeen[q]) \in Equity /\ hwm[x] \in Equity
      BY Heights DEF LedgerTypes
    <3>. QED
      BY <2>1, <3>1 DEF RaiseMarks
  <2>2. CASE ~RaiseMarks(q)
    BY <2>2 DEF LedgerTypes, ReportStep, Post, StoreReport, Posted, ledger
  <2>. QED
    BY <2>1, <2>2
<1>3. equity' \in [Reports -> Equity] /\ peakSeen' \in [Reporters -> Equity]
  <2>1. 0 \in Equity
    BY BillingAssumption DEF Equity
  <2>2. CASE StoreReport(q)
    <3>1. PICK s \in Strategies, d \in Days, e \in Equity :
             /\ equity' = [equity EXCEPT ![<<posting[q], s, d>>] = e]
             /\ peakSeen' = [peakSeen EXCEPT ![q] = e]
      BY <2>2 DEF StoreReport
    <3>. QED
      BY <3>1 DEF LedgerTypes
  <2>3. CASE RaiseMarks(q)
    BY <2>1, <2>3 DEF LedgerTypes, RaiseMarks
  <2>4. CASE (\E c \in Clients : Post(q, c)) \/ Posted(q)
    BY <2>4 DEF LedgerTypes, Post, Posted, ledger
  <2>. QED
    BY <2>2, <2>3, <2>4 DEF ReportStep
<1>4. posting' \in [Reporters -> Clients \cup {None}]
  BY DEF LedgerTypes, ReportStep, Post, StoreReport, RaiseMarks, Posted
<1>. QED
  BY <1>1, <1>2, <1>3, <1>4 DEF LedgerTypes, closers, audit

LEMMA CloseTypes ==
    ASSUME LedgerTypes, NEW k \in Closers, CloseStep(k)
    PROVE  LedgerTypes'
<1>0. 0 \in Equity
  BY BillingAssumption DEF Equity
<1>1. ASSUME NEW i \in Periods, CloseList(k, i) PROVE LedgerTypes'
  <2>1. PICK S : LET listed == {x \in Accounts : x[1] \in S /\ billing[x] = "ACTIVE"} IN
           /\ records' = [records EXCEPT ![k] = listed]
           /\ marks' = [marks EXCEPT ![k] = [x \in Accounts |-> IF x \in listed THEN hwm[x] ELSE 0]]
    BY <1>1 DEF CloseList
  <2>. DEFINE listed == {x \in Accounts : x[1] \in S /\ billing[x] = "ACTIVE"}
  <2>2. listed \subseteq Accounts
    OBVIOUS
  <2>3. [x \in Accounts |-> IF x \in listed THEN hwm[x] ELSE 0] \in [Accounts -> Equity]
    BY <1>0 DEF LedgerTypes
  <2>4. records' \in [Closers -> SUBSET Accounts] /\ marks' \in [Closers -> [Accounts -> Equity]]
        /\ \A l \in Closers : l # k => records'[l] = records[l]
    <3>. HIDE DEF listed
    <3>. QED
      BY <2>1, <2>2, <2>3 DEF LedgerTypes, listed
  <2>5. /\ closing' = [closing EXCEPT ![k] = "next"]
        /\ period' = [period EXCEPT ![k] = i]
        /\ UNCHANGED <<ledger, reporting, account, peak, audit>>
    BY <1>1 DEF CloseList
  <2>. QED
    BY <2>4, <2>5 DEF LedgerTypes, ledger, reporting, audit
<1>2. CASE ClosePeak(k)
  <2>1. PICK x \in records[k], e \in Equity :
           /\ account' = [account EXCEPT ![k] = x]
           /\ peak' = [peak EXCEPT ![k] = e]
           /\ records' = [records EXCEPT ![k] = @ \ {x}]
    BY <1>2 DEF ClosePeak
  <2>2. /\ closing' = [closing EXCEPT ![k] = "write"] /\ closing[k] = "next"
        /\ UNCHANGED <<ledger, reporting, period, marks, audit>>
    BY <1>2 DEF ClosePeak
  <2>. QED
    BY <2>1, <2>2 DEF LedgerTypes, ledger, reporting, audit
<1>3. CASE CloseWrite(k)
  <2>. DEFINE x == account[k]
              n == <<x, period[k]>>
  <2>1. x \in Accounts /\ n \in Invoices /\ period[k] \in Periods /\ closing[k] = "write"
    BY <1>3 DEF CloseWrite, LedgerTypes, Invoices
  <2>2. /\ Monus(peak[k], marks[k][x]) \in Equity /\ Higher(peak[k], marks[k][x]) \in Equity
        /\ Monus(peak[k], marks[k][x]) <= Higher(peak[k], marks[k][x])
    BY <2>1, Heights DEF LedgerTypes
  <2>3. /\ invoice' = [invoice EXCEPT ![n] = "PENDING"]
        /\ fee' = [fee EXCEPT ![n] = Monus(peak[k], marks[k][x])]
        /\ top' = [top EXCEPT ![n] = Higher(peak[k], marks[k][x])]
        /\ since' = [since EXCEPT ![x] = @ \cup {period[k]}]
        /\ closing' = [closing EXCEPT ![k] = "raise"]
        /\ UNCHANGED <<equity, hwm, reporting, period, records, marks, account, peak,
                       start, settled, torn>>
    BY <1>3 DEF CloseWrite
  <2>. HIDE DEF n
  <2>4. /\ invoice' \in [Invoices -> {"none", "PENDING", "PAID", "WAIVED"}]
        /\ fee' \in [Invoices -> Equity] /\ top' \in [Invoices -> Equity]
        /\ \A m \in Invoices : fee'[m] <= top'[m]
    BY <2>1, <2>2, <2>3 DEF LedgerTypes
  <2>5. since' \in [Accounts -> SUBSET Periods]
    BY <2>1, <2>3 DEF LedgerTypes
  <2>. QED
    BY <2>1, <2>3, <2>4, <2>5 DEF LedgerTypes, reporting
<1>4. CASE CloseRaise(k)
  <2>. DEFINE x == account[k]
  <2>1. /\ closing[k] = "raise" /\ x \in Accounts
        /\ hwm' = hwm \/ hwm' = [hwm EXCEPT ![x] = peak[k]]
        /\ marks' = [marks EXCEPT ![k] = [marks[k] EXCEPT ![x] = 0]]
        /\ account' = [account EXCEPT ![k] = None]
        /\ peak' = [peak EXCEPT ![k] = 0]
        /\ closing' = [closing EXCEPT ![k] = "next"]
        /\ UNCHANGED <<equity, invoice, fee, top, reporting, period, records, audit>>
    BY <1>4 DEF CloseRaise, LedgerTypes
  <2>2. hwm' \in [Accounts -> Equity]
    BY <2>1 DEF LedgerTypes
  <2>3. marks' \in [Closers -> [Accounts -> Equity]]
    <3>1. [marks[k] EXCEPT ![x] = 0] \in [Accounts -> Equity]
      BY <1>0 DEF LedgerTypes
    <3>. QED
      BY <2>1, <3>1 DEF LedgerTypes
  <2>. QED
    BY <1>0, <2>1, <2>2, <2>3 DEF LedgerTypes, reporting, audit
<1>5. CASE Closed(k)
  BY <1>5 DEF Closed, LedgerTypes, ledger, reporting, audit
<1>. QED
  BY <1>1, <1>2, <1>3, <1>4, <1>5 DEF CloseStep

LEMMA LedgerStep == LedgerTypes /\ [Next]_vars => LedgerTypes'
<1>. SUFFICES ASSUME LedgerTypes, [Next]_vars PROVE LedgerTypes'
  OBVIOUS
<1>0. 0 \in Equity
  BY BillingAssumption DEF Equity
<1>1. CASE UNCHANGED billingVars
  BY <1>1 DEF billingVars, ledger, reporting, closers, audit, LedgerTypes
<1>2. CASE Die
  BY <1>0, <1>2 DEF Die, ledger, LedgerTypes
<1>3. ASSUME NEW a \in Admins, NEW c \in Clients, NEW p \in Plans, AssignPlan(a, c, p)
      PROVE  LedgerTypes'
  <2>. DEFINE x == <<c, p>>
  <2>1. PICK e \in Starts : hwm' = [hwm EXCEPT ![x] = e] /\ start' = [start EXCEPT ![x] = e]
    BY <1>3 DEF AssignPlan
  <2>2. e \in Equity
    BY BillingAssumption
  <2>3. /\ since' = [since EXCEPT ![x] = {}]
        /\ settled' = [settled EXCEPT ![x] = {}]
        /\ torn' = [torn EXCEPT ![x] = FALSE]
        /\ UNCHANGED <<equity, invoice, fee, top, reporting, closers>>
    BY <1>3 DEF AssignPlan
  <2>. QED
    BY <2>1, <2>2, <2>3 DEF LedgerTypes, reporting, closers
<1>4. ASSUME NEW n \in Invoices, MarkPaid(n) \/ Waive(n) PROVE LedgerTypes'
  <2>1. Charged(n) \subseteq Equity
    BY ChargedEquity
  <2>2. settled' \in [Accounts -> SUBSET Equity]
    BY <1>4, <2>1 DEF MarkPaid, Waive, audit, LedgerTypes
  <2>3. /\ invoice' = [invoice EXCEPT ![n] = "PAID"] \/ invoice' = [invoice EXCEPT ![n] = "WAIVED"]
        /\ UNCHANGED <<equity, hwm, fee, top, reporting, closers, start, since, torn>>
    BY <1>4 DEF MarkPaid, Waive, audit
  <2>. QED
    BY <2>2, <2>3 DEF LedgerTypes, reporting, closers
<1>. QED
  BY <1>1, <1>2, <1>3, <1>4, ReportTypes, CloseTypes DEF Next, RegistryOnly, Payment, vars

\* The variables of the registry and of its ledger hold values of their types.
THEOREM BillingTypes == Spec => []BillingTypeOK
<1>1. Spec => []TypeInv
  BY BillingKeepsRegistry, TypeInit, TypeStep, PTL DEF RegistrySpec
<1>2. Spec => []LedgerTypes
  BY LedgerInit, LedgerStep, PTL DEF Spec
<1>3. TypeInv /\ LedgerTypes => BillingTypeOK
  BY DEF TypeInv, LedgerTypes, BillingTypeOK
<1>. QED
  BY <1>1, <1>2, <1>3, PTL

-----------------------------------------------------------------------------
(* A gain is charged once *)

\* No equity of the plan that was charged or paid is above m.
ChargedUpTo(x, m) ==
    /\ \A u \in settled[x] : u <= m
    /\ \A i \in since[x] : \A u \in Charged(<<x, i>>) : u <= m

\* The handler has written the invoice of a gain and not yet its mark.
Raising(k, x) == closing[k] = "raise" /\ account[k] = x /\ peak[k] > marks[k][x]

\* It will still write the plan's invoice.
Due(k, x) == x \in records[k] \/ (closing[k] = "write" /\ account[k] = x)

Apart(x) ==
    /\ \A i, j \in since[x] : i # j => \A u \in Charged(<<x, i>>) : u \notin Charged(<<x, j>>)
    /\ \A i \in since[x] : invoice[<<x, i>>] = "PENDING" =>
          \A u \in Charged(<<x, i>>) : u \notin settled[x]

\* All that was charged is below the mark the next invoice starts from: the
\* plan's own, or the one that a handler has listed, or is about to write.
Covered(x) ==
    /\ (\A k \in Closers : ~Raising(k, x)) => ChargedUpTo(x, hwm[x])
    /\ \A k \in Closers : Raising(k, x) => ChargedUpTo(x, peak[k])
    /\ \A k \in Closers : Due(k, x) => ChargedUpTo(x, marks[k][x])

\* A free handler has nothing to do.
FreeInv == \A k \in Closers : closing[k] = "free" => records[k] = {}

FairInv ==
    /\ LedgerTypes
    /\ FreeInv
    /\ \A x \in Accounts : torn[x] \/ (Apart(x) /\ Covered(x))

OneCloser == \A k, l \in Closers : k = l

LEMMA FairInit == Init => FairInv
<1>. SUFFICES ASSUME Init PROVE FairInv
  OBVIOUS
<1>1. LedgerTypes
  BY LedgerInit
<1>. QED
  BY <1>1 DEF Init, FairInv, FreeInv, Apart, Covered, ChargedUpTo, Raising, Due

\* Marks that rise disturb nothing.
LEMMA FairReport ==
    ASSUME FairInv, NEW q \in Reporters, ReportStep(q)
    PROVE  FairInv'
<1>1. LedgerTypes /\ LedgerTypes'
  BY ReportTypes DEF FairInv
<1>2. UNCHANGED <<invoice, fee, top, closing, period, records, marks, account, peak, since, settled, torn>>
  BY DEF ReportStep, Post, StoreReport, RaiseMarks, Posted, ledger, closers, audit
<1>3. FreeInv'
  BY <1>2 DEF FairInv, FreeInv
<1>4. ASSUME NEW x \in Accounts PROVE hwm[x] <= hwm'[x]
  <2>1. hwm[x] \in Equity /\ \A r \in Reporters : peakSeen[r] \in Equity
    BY <1>1 DEF LedgerTypes
  <2>2. hwm[x] <= hwm[x]
    BY <2>1, BillingAssumption DEF Equity
  <2>3. hwm[x] <= Higher(hwm[x], peakSeen[q])
    BY <2>1, Heights
  <2>. QED
    BY <2>2, <2>3 DEF ReportStep, Post, StoreReport, RaiseMarks, Posted, ledger
<1>5. ASSUME NEW x \in Accounts, ~torn'[x] PROVE Apart(x)' /\ Covered(x)'
  <2>1. Apart(x) /\ Covered(x)
    BY <1>2, <1>5 DEF FairInv
  <2>2. Apart(x)'
    BY <1>2, <2>1 DEF Apart, Charged
  <2>3. \A m : ChargedUpTo(x, m) => \A i \in since'[x] : \A u \in Charged(<<x, i>>)' : u <= m
    BY <1>2 DEF ChargedUpTo, Charged
  <2>4. ASSUME ChargedUpTo(x, hwm[x]) PROVE ChargedUpTo(x, hwm[x])'
    <3>1. hwm[x] \in Nat /\ hwm'[x] \in Nat /\ hwm[x] <= hwm'[x]
      BY <1>1, <1>4, BillingAssumption DEF LedgerTypes, Equity
    <3>2. settled'[x] = settled[x] /\ settled[x] \subseteq Nat
      BY <1>1, <1>2, BillingAssumption DEF LedgerTypes, Equity
    <3>3. \A u \in settled'[x] : u <= hwm'[x]
      BY <2>4, <3>1, <3>2 DEF ChargedUpTo
    <3>4. ASSUME NEW i \in since'[x], NEW u \in Charged(<<x, i>>)' PROVE u <= hwm'[x]
      <4>1. u \in Nat
        <5>1. <<x, i>> \in Invoices
          BY <1>1 DEF LedgerTypes, Invoices
        <5>2. Charged(<<x, i>>)' = Charged(<<x, i>>)
          BY <1>2 DEF Charged
        <5>. QED
          BY <1>1, <5>1, <5>2, ChargedEquity, BillingAssumption DEF Equity
      <4>2. u <= hwm[x]
        BY <2>3, <2>4
      <4>. QED
        BY <3>1, <4>1, <4>2
    <3>. QED
      BY <3>3, <3>4 DEF ChargedUpTo
  <2>5. Covered(x)'
    BY <1>2, <2>1, <2>4 DEF Covered, ChargedUpTo, Charged, Raising, Due
  <2>. QED
    BY <2>2, <2>5
<1>. QED
  BY <1>1, <1>3, <1>5, <1>2 DEF FairInv

\* Of one handler: what it does before it writes an invoice is to list marks
\* and to choose a plan; then it is due, or raising, for that plan only.
LEMMA FairList ==
    ASSUME FairInv, OneCloser, NEW k \in Closers, NEW i \in Periods, CloseList(k, i),
           NEW x \in Accounts, ~torn'[x]
    PROVE  Apart(x)' /\ Covered(x)'
<1>1. LedgerTypes
  BY DEF FairInv
<1>2. PICK S : LET listed == {y \in Accounts : y[1] \in S /\ billing[y] = "ACTIVE"} IN
         /\ records' = [records EXCEPT ![k] = listed]
         /\ marks' = [marks EXCEPT ![k] = [y \in Accounts |-> IF y \in listed THEN hwm[y] ELSE 0]]
  BY DEF CloseList
<1>3. /\ closing' = [closing EXCEPT ![k] = "next"] /\ closing[k] = "free"
      /\ UNCHANGED <<hwm, invoice, fee, top, account, peak, since, settled, torn>>
  BY DEF CloseList, ledger, audit
<1>4. Apart(x) /\ Covered(x)
  BY <1>3 DEF FairInv
<1>5. Apart(x)'
  BY <1>3, <1>4 DEF Apart, Charged
<1>6. \A l \in Closers : ~Raising(l, x) /\ ~Raising(l, x)'
  BY <1>1, <1>3 DEF OneCloser, Raising, LedgerTypes
<1>7. ChargedUpTo(x, hwm[x])
  BY <1>4, <1>6 DEF Covered
<1>8. \A l \in Closers : Due(l, x)' => marks'[l][x] = hwm[x]
  <2>. SUFFICES ASSUME Due(k, x)' PROVE marks'[k][x] = hwm[x]
    BY DEF OneCloser
  <2>1. x \in records'[k]
    BY <1>1, <1>3 DEF Due, LedgerTypes
  <2>. QED
    BY <1>1, <1>2, <2>1 DEF LedgerTypes
<1>. QED
  BY <1>3, <1>5, <1>6, <1>7, <1>8 DEF Covered, ChargedUpTo, Charged

LEMMA FairPeak ==
    ASSUME FairInv, OneCloser, NEW k \in Closers, ClosePeak(k),
           NEW x \in Accounts, ~torn'[x]
    PROVE  Apart(x)' /\ Covered(x)'
<1>1. LedgerTypes
  BY DEF FairInv
<1>2. PICK y \in records[k], e \in Equity :
         /\ account' = [account EXCEPT ![k] = y]
         /\ peak' = [peak EXCEPT ![k] = e]
         /\ records' = [records EXCEPT ![k] = @ \ {y}]
  BY DEF ClosePeak
<1>3. /\ closing' = [closing EXCEPT ![k] = "write"] /\ closing[k] = "next"
      /\ UNCHANGED <<hwm, invoice, fee, top, marks, since, settled, torn>>
  BY DEF ClosePeak, ledger, audit
<1>4. Apart(x) /\ Covered(x)
  BY <1>3 DEF FairInv
<1>5. Apart(x)'
  BY <1>3, <1>4 DEF Apart, Charged
<1>6. \A l \in Closers : ~Raising(l, x) /\ ~Raising(l, x)'
  BY <1>1, <1>3 DEF OneCloser, Raising, LedgerTypes
<1>7. \A l \in Closers : Due(l, x)' => Due(l, x)
  BY <1>1, <1>2, <1>3 DEF OneCloser, Due, LedgerTypes
<1>. QED
  BY <1>3, <1>4, <1>5, <1>6, <1>7 DEF Covered, ChargedUpTo, Charged

\* The invoice charges for what is above its mark, and nothing charged was.
LEMMA FairWrite ==
    ASSUME FairInv, OneCloser, NEW k \in Closers, CloseWrite(k),
           NEW x \in Accounts, ~torn'[x]
    PROVE  Apart(x)' /\ Covered(x)'
<1>0. PICK y, m, p : y = account[k] /\ m = marks[k][y] /\ p = period[k]
  OBVIOUS
<1>. DEFINE n == <<y, p>>
<1>1. LedgerTypes
  BY DEF FairInv
<1>2. /\ closing[k] = "write" /\ closing' = [closing EXCEPT ![k] = "raise"]
      /\ invoice' = [invoice EXCEPT ![n] = "PENDING"]
      /\ fee' = [fee EXCEPT ![n] = Monus(peak[k], m)]
      /\ top' = [top EXCEPT ![n] = Higher(peak[k], m)]
      /\ since' = [since EXCEPT ![y] = @ \cup {p}]
      /\ UNCHANGED <<hwm, records, marks, account, peak, settled, torn>>
  BY <1>0 DEF CloseWrite
<1>3. y \in Accounts \ records[k] /\ p \in Periods /\ n \in Invoices
  BY <1>0, <1>1, <1>2 DEF LedgerTypes, Invoices
<1>4. peak[k] \in Nat /\ m \in Nat /\ settled[x] \subseteq Nat
  BY <1>0, <1>1, <1>3, BillingAssumption DEF LedgerTypes, Equity
<1>5. Apart(x) /\ Covered(x)
  BY <1>2 DEF FairInv
<1>6. \A l \in Closers : ~Raising(l, x)
  BY <1>0, <1>2 DEF OneCloser, Raising
<1>7. \A z \in Invoices : z # n => Charged(z)' = Charged(z)
  BY <1>1, <1>2 DEF Charged, LedgerTypes
<1>8. CASE x # y
  <2>1. \A l \in Closers : ~Raising(l, x)'
    BY <1>0, <1>2, <1>8 DEF OneCloser, Raising
  <2>2. \A l \in Closers : Due(l, x)' => Due(l, x)
    BY <1>0, <1>1, <1>2, <1>8 DEF OneCloser, Due, LedgerTypes
  <2>3. since'[x] = since[x]
    BY <1>1, <1>2, <1>8 DEF LedgerTypes
  <2>4. \A i \in since[x] : /\ Charged(<<x, i>>)' = Charged(<<x, i>>)
                            /\ invoice'[<<x, i>>] = invoice[<<x, i>>]
    <3>. SUFFICES ASSUME NEW i \in since[x]
                  PROVE  /\ Charged(<<x, i>>)' = Charged(<<x, i>>)
                         /\ invoice'[<<x, i>>] = invoice[<<x, i>>]
      OBVIOUS
    <3>1. <<x, i>> \in Invoices /\ <<x, i>> # n
      BY <1>1, <1>8 DEF LedgerTypes, Invoices
    <3>. QED
      BY <1>1, <1>2, <1>7, <3>1 DEF LedgerTypes
  <2>5. Apart(x)'
    BY <1>2, <1>5, <2>3, <2>4 DEF Apart
  <2>. QED
    BY <1>2, <1>5, <1>6, <2>1, <2>2, <2>3, <2>4, <2>5 DEF Covered, ChargedUpTo
<1>9. CASE x = y
  <2>1. ChargedUpTo(x, m)
    BY <1>0, <1>2, <1>5, <1>9 DEF Covered, Due
  <2>2. \A u \in Charged(n)' : u \in Nat /\ u > m /\ u <= peak[k]
    <3>1. Charged(n)' = (Higher(peak[k], m) - Monus(peak[k], m) + 1) .. Higher(peak[k], m)
      BY <1>1, <1>2, <1>3 DEF Charged, LedgerTypes
    <3>2. CASE peak[k] > m
      <4>1. Higher(peak[k], m) = peak[k] /\ Monus(peak[k], m) = peak[k] - m
        BY <3>2 DEF Higher, Monus
      <4>. QED
        BY <1>4, <3>1, <3>2, <4>1
    <3>3. CASE ~(peak[k] > m)
      <4>1. Higher(peak[k], m) = m /\ Monus(peak[k], m) = 0
        BY <3>3 DEF Higher, Monus
      <4>. QED
        BY <1>4, <3>1, <4>1
    <3>. QED
      BY <3>2, <3>3
  <2>3. since'[x] = since[x] \cup {p}
    BY <1>1, <1>2, <1>3, <1>9 DEF LedgerTypes
  <2>4. \A i \in since[x] : i # p => /\ Charged(<<x, i>>)' = Charged(<<x, i>>)
                                     /\ invoice'[<<x, i>>] = invoice[<<x, i>>]
    <3>. SUFFICES ASSUME NEW i \in since[x], i # p
                  PROVE  /\ Charged(<<x, i>>)' = Charged(<<x, i>>)
                         /\ invoice'[<<x, i>>] = invoice[<<x, i>>]
      OBVIOUS
    <3>1. <<x, i>> \in Invoices /\ <<x, i>> # n
      BY <1>1, <1>9 DEF LedgerTypes, Invoices
    <3>. QED
      BY <1>1, <1>2, <1>7, <3>1 DEF LedgerTypes
  <2>5. \A i \in since[x] : Charged(<<x, i>>) \subseteq Nat
    <3>1. \A i \in since[x] : <<x, i>> \in Invoices
      BY <1>1 DEF LedgerTypes, Invoices
    <3>. QED
      BY <1>1, <3>1, ChargedEquity, BillingAssumption DEF Equity
  <2>6. /\ \A i \in since[x] : \A u \in Charged(<<x, i>>) : u \in Nat /\ u <= m
        /\ \A u \in settled[x] : u \in Nat /\ u <= m
    BY <1>4, <2>1, <2>5 DEF ChargedUpTo
  <2>7. Charged(<<x, p>>)' = Charged(n)'
    BY <1>9 DEF n
  <2>. HIDE DEF n
  <2>8. Apart(x)'
    <3>1. ASSUME NEW i \in since'[x], NEW j \in since'[x], i # j, NEW u \in Charged(<<x, i>>)'
          PROVE  u \notin Charged(<<x, j>>)'
      <4>1. CASE i = p
        <5>1. j \in since[x] /\ Charged(<<x, j>>)' = Charged(<<x, j>>)
          BY <2>3, <2>4, <3>1, <4>1
        <5>2. u \in Nat /\ u > m
          BY <2>2, <2>7, <3>1, <4>1
        <5>. QED
          BY <1>4, <2>6, <5>1, <5>2
      <4>2. CASE j = p
        <5>1. i \in since[x] /\ Charged(<<x, i>>)' = Charged(<<x, i>>)
          BY <2>3, <2>4, <3>1, <4>2
        <5>2. u \in Nat /\ u <= m
          BY <2>6, <3>1, <5>1
        <5>. QED
          BY <1>4, <2>2, <2>7, <4>2, <5>2
      <4>3. CASE i # p /\ j # p
        BY <1>5, <2>3, <2>4, <3>1, <4>3 DEF Apart
      <4>. QED
        BY <4>1, <4>2, <4>3
    <3>2. ASSUME NEW i \in since'[x], invoice'[<<x, i>>] = "PENDING", NEW u \in Charged(<<x, i>>)'
          PROVE  u \notin settled'[x]
      <4>1. CASE i = p
        <5>1. u \in Nat /\ u > m
          BY <2>2, <2>7, <3>2, <4>1
        <5>. QED
          BY <1>2, <1>4, <2>6, <5>1
      <4>2. CASE i # p
        BY <1>2, <1>5, <2>3, <2>4, <3>2, <4>2 DEF Apart
      <4>. QED
        BY <4>1, <4>2
    <3>. QED
      BY <3>1, <3>2 DEF Apart
  <2>9. \A l \in Closers : ~Due(l, x)'
    BY <1>0, <1>1, <1>2, <1>3, <1>9 DEF OneCloser, Due, LedgerTypes
  <2>10. CASE peak[k] > m
    <3>1. Raising(k, x)' /\ \A l \in Closers : peak'[l] = peak[k]
      BY <1>0, <1>1, <1>2, <1>9, <2>10 DEF OneCloser, Raising, LedgerTypes
    <3>2. \A u \in settled'[x] : u <= peak[k]
      BY <1>2, <1>4, <2>6, <2>10
    <3>3. ASSUME NEW i \in since'[x], NEW u \in Charged(<<x, i>>)' PROVE u <= peak[k]
      <4>1. CASE i = p
        BY <2>2, <2>7, <3>3, <4>1
      <4>2. CASE i # p
        BY <1>4, <2>3, <2>4, <2>6, <2>10, <3>3, <4>2
      <4>. QED
        BY <4>1, <4>2
    <3>. QED
      BY <2>8, <2>9, <3>1, <3>2, <3>3 DEF Covered, ChargedUpTo
  <2>11. CASE ~(peak[k] > m)
    <3>1. \A l \in Closers : ~Raising(l, x)'
      BY <1>0, <1>1, <1>2, <1>9, <2>11 DEF OneCloser, Raising, LedgerTypes
    <3>2. Charged(n)' = {}
      BY <1>4, <2>2, <2>11
    <3>3. ChargedUpTo(x, hwm[x])
      BY <1>5, <1>6 DEF Covered
    <3>4. \A u \in settled'[x] : u <= hwm'[x]
      BY <1>2, <3>3 DEF ChargedUpTo
    <3>5. ASSUME NEW i \in since'[x], NEW u \in Charged(<<x, i>>)' PROVE u <= hwm'[x]
      BY <1>2, <2>3, <2>4, <2>7, <3>2, <3>3, <3>5 DEF ChargedUpTo
    <3>. QED
      BY <2>8, <2>9, <3>1, <3>4, <3>5 DEF Covered, ChargedUpTo
  <2>. QED
    BY <2>10, <2>11
<1>. QED
  BY <1>8, <1>9

\* The mark follows the invoice, and the plan is covered by it again.
LEMMA FairRaise ==
    ASSUME FairInv, OneCloser, NEW k \in Closers, CloseRaise(k),
           NEW x \in Accounts, ~torn'[x]
    PROVE  Apart(x)' /\ Covered(x)'
<1>0. PICK y : y = account[k]
  OBVIOUS
<1>1. LedgerTypes
  BY DEF FairInv
<1>2. /\ closing[k] = "raise" /\ closing' = [closing EXCEPT ![k] = "next"]
      /\ hwm' = IF peak[k] > marks[k][y] THEN [hwm EXCEPT ![y] = peak[k]] ELSE hwm
      /\ marks' = [marks EXCEPT ![k] = [marks[k] EXCEPT ![y] = 0]]
      /\ account' = [account EXCEPT ![k] = None]
      /\ UNCHANGED <<invoice, fee, top, records, since, settled, torn>>
  BY <1>0 DEF CloseRaise, audit
<1>3. y \in Accounts \ records[k]
  BY <1>0, <1>1, <1>2 DEF LedgerTypes
<1>4. Apart(x) /\ Covered(x)
  BY <1>2 DEF FairInv
<1>5. Apart(x)'
  BY <1>2, <1>4 DEF Apart, Charged
<1>6. \A l \in Closers : ~Raising(l, x)'
  BY <1>1, <1>2 DEF OneCloser, Raising, LedgerTypes
<1>7. \A l \in Closers : Due(l, x)' => Due(l, x) /\ marks'[l][x] = marks[l][x]
  <2>. SUFFICES ASSUME Due(k, x)' PROVE Due(k, x) /\ marks'[k][x] = marks[k][x]
    BY DEF OneCloser
  <2>1. x \in records[k]
    BY <1>1, <1>2 DEF Due, LedgerTypes
  <2>2. x # y
    BY <1>3, <2>1
  <2>3. marks'[k] = [marks[k] EXCEPT ![y] = 0]
    BY <1>1, <1>2 DEF LedgerTypes
  <2>. QED
    BY <1>1, <2>1, <2>2, <2>3 DEF Due, LedgerTypes
<1>8. ChargedUpTo(x, hwm'[x])
  <2>1. CASE x = y /\ peak[k] > marks[k][y]
    <3>1. Raising(k, x)
      BY <1>0, <1>2, <2>1 DEF Raising
    <3>2. hwm'[x] = peak[k]
      BY <1>1, <1>2, <2>1 DEF LedgerTypes
    <3>. QED
      BY <1>4, <3>1, <3>2 DEF Covered
  <2>2. CASE ~(x = y /\ peak[k] > marks[k][y])
    <3>1. \A l \in Closers : ~Raising(l, x)
      BY <1>0, <2>2 DEF OneCloser, Raising
    <3>2. hwm'[x] = hwm[x]
      BY <1>1, <1>2, <2>2 DEF LedgerTypes
    <3>. QED
      BY <1>4, <3>1, <3>2 DEF Covered
  <2>. QED
    BY <2>1, <2>2
<1>. QED
  BY <1>2, <1>4, <1>5, <1>6, <1>7, <1>8 DEF Covered, ChargedUpTo, Charged

LEMMA FreeClose ==
    ASSUME LedgerTypes, FreeInv, NEW k \in Closers, CloseStep(k)
    PROVE  FreeInv'
<1>1. ASSUME NEW l \in Closers, closing'[l] = "free" PROVE records'[l] = {}
  <2>1. CASE l = k
    BY <1>1, <2>1 DEF LedgerTypes, FreeInv, CloseStep, CloseList, ClosePeak, CloseWrite, CloseRaise, Closed
  <2>2. CASE l # k
    <3>1. closing'[l] = closing[l] /\ records'[l] = records[l]
      BY <2>2 DEF LedgerTypes, CloseStep, CloseList, ClosePeak, CloseWrite, CloseRaise, Closed
    <3>. QED
      BY <1>1, <3>1 DEF FreeInv
  <2>. QED
    BY <2>1, <2>2
<1>. QED
  BY <1>1 DEF FreeInv

LEMMA FairClose ==
    ASSUME FairInv, OneCloser, NEW k \in Closers, CloseStep(k)
    PROVE  FairInv'
<1>1. LedgerTypes' /\ FreeInv'
  BY CloseTypes, FreeClose DEF FairInv
<1>2. ASSUME NEW x \in Accounts, ~torn'[x] PROVE Apart(x)' /\ Covered(x)'
  <2>1. CASE Closed(k)
    <3>1. /\ closing[k] = "next" /\ closing' = [closing EXCEPT ![k] = "free"]
          /\ UNCHANGED <<hwm, invoice, fee, top, records, marks, account, peak, since, settled, torn>>
      BY <2>1 DEF Closed, ledger, audit
    <3>2. Apart(x) /\ Covered(x)
      BY <1>2, <3>1 DEF FairInv
    <3>3. \A l \in Closers : (Due(l, x)' => Due(l, x)) /\ ~Raising(l, x) /\ ~Raising(l, x)'
      BY <3>1 DEF OneCloser, FairInv, LedgerTypes, Due, Raising
    <3>. QED
      BY <3>1, <3>2, <3>3 DEF Apart, Covered, ChargedUpTo, Charged
  <2>. QED
    BY <1>2, <2>1, FairList, FairPeak, FairWrite, FairRaise DEF CloseStep
<1>. QED
  BY <1>1, <1>2 DEF FairInv

\* What is paid was charged; what is charged elsewhere is apart from it.
LEMMA FairPaid ==
    ASSUME FairInv, NEW n \in Invoices, MarkPaid(n) \/ Waive(n), LedgerTypes'
    PROVE  FairInv'
<1>1. LedgerTypes
  BY DEF FairInv
<1>2. UNCHANGED <<hwm, fee, top, closers, since, torn>>
  BY DEF MarkPaid, Waive, audit
<1>3. FreeInv'
  BY <1>2 DEF FairInv, FreeInv, closers
<1>4. PICK y \in Accounts, p \in Periods : n = <<y, p>>
  BY DEF Invoices
<1>5. /\ \A z \in Invoices : z # n => invoice'[z] = invoice[z]
      /\ invoice'[n] # "PENDING"
  BY <1>1 DEF MarkPaid, Waive, LedgerTypes
<1>6. \A x \in Accounts : \A u \in settled'[x] :
        u \in settled[x] \/ (x = y /\ p \in since[x] /\ u \in Charged(n))
  <2>1. CASE settled' = settled
    BY <2>1
  <2>2. CASE settled' = [settled EXCEPT ![y] = IF p \in since[y] THEN @ \cup Charged(n) ELSE @]
    BY <1>1, <2>2 DEF LedgerTypes
  <2>3. n[1] = y /\ n[2] = p
    BY <1>4
  <2>. QED
    BY <2>1, <2>2, <2>3 DEF MarkPaid, Waive, audit
<1>7. ASSUME NEW x \in Accounts, ~torn'[x] PROVE Apart(x)' /\ Covered(x)'
  <2>1. Apart(x) /\ Covered(x)
    BY <1>2, <1>7 DEF FairInv
  <2>2. Apart(x)'
    <3>1. \A i, j \in since'[x] : i # j => \A u \in Charged(<<x, i>>)' : u \notin Charged(<<x, j>>)'
      BY <1>2, <2>1 DEF Apart, Charged
    <3>2. ASSUME NEW i \in since'[x], invoice'[<<x, i>>] = "PENDING", NEW u \in Charged(<<x, i>>)'
          PROVE  u \notin settled'[x]
      <4>1. i \in since[x] /\ u \in Charged(<<x, i>>) /\ <<x, i>> \in Invoices
        BY <1>1, <1>2, <3>2 DEF Charged, LedgerTypes, Invoices
      <4>2. <<x, i>> # n /\ invoice[<<x, i>>] = "PENDING"
        BY <1>5, <3>2, <4>1
      <4>3. u \notin settled[x]
        BY <2>1, <4>1, <4>2 DEF Apart
      <4>4. x = y /\ p \in since[x] => u \notin Charged(n)
        BY <1>4, <2>1, <4>1, <4>2 DEF Apart
      <4>. QED
        BY <1>6, <4>3, <4>4
    <3>. QED
      BY <3>1, <3>2 DEF Apart
  <2>3. \A m : ChargedUpTo(x, m) => \A u \in settled'[x] : u <= m
    BY <1>4, <1>6 DEF ChargedUpTo
  <2>4. \A m : ChargedUpTo(x, m) => \A i \in since'[x] : \A u \in Charged(<<x, i>>)' : u <= m
    BY <1>2 DEF ChargedUpTo, Charged
  <2>5. \A k \in Closers : (Raising(k, x)' <=> Raising(k, x)) /\ (Due(k, x)' <=> Due(k, x))
    BY <1>2 DEF closers, Raising, Due
  <2>6. UNCHANGED <<hwm, peak, marks>>
    BY <1>2 DEF closers
  <2>7. ((\A k \in Closers : ~Raising(k, x)) => ChargedUpTo(x, hwm[x]))
        /\ (\A k \in Closers : Raising(k, x) => ChargedUpTo(x, peak[k]))
        /\ (\A k \in Closers : Due(k, x) => ChargedUpTo(x, marks[k][x]))
    BY <2>1 DEF Covered
  <2>8. Covered(x)'
    <3>1. (\A k \in Closers : ~Raising(k, x)) =>
             /\ \A u \in settled'[x] : u <= hwm'[x]
             /\ \A i \in since'[x] : \A u \in Charged(<<x, i>>)' : u <= hwm'[x]
      BY <2>3, <2>4, <2>6, <2>7
    <3>2. \A k \in Closers : Raising(k, x) =>
             /\ \A u \in settled'[x] : u <= peak'[k]
             /\ \A i \in since'[x] : \A u \in Charged(<<x, i>>)' : u <= peak'[k]
      BY <2>3, <2>4, <2>6, <2>7
    <3>3. \A k \in Closers : Due(k, x) =>
             /\ \A u \in settled'[x] : u <= marks'[k][x]
             /\ \A i \in since'[x] : \A u \in Charged(<<x, i>>)' : u <= marks'[k][x]
      BY <2>3, <2>4, <2>6, <2>7
    <3>. QED
      BY <2>5, <3>1, <3>2, <3>3 DEF Covered, ChargedUpTo
  <2>. QED
    BY <2>2, <2>8
<1>. QED
  BY <1>3, <1>7 DEF FairInv

\* A crash forgets what was due; a mark that was to be raised is torn.
LEMMA FairDie ==
    ASSUME FairInv, Die, LedgerTypes'
    PROVE  FairInv'
<1>1. LedgerTypes
  BY DEF FairInv
<1>2. /\ closing' = [k \in Closers |-> "free"]
      /\ records' = [k \in Closers |-> {}]
      /\ torn' = [x \in Accounts |-> torn[x] \/ \E k \in Closers : closing[k] = "raise" /\ account[k] = x]
      /\ UNCHANGED <<hwm, invoice, fee, top, since, settled>>
  BY DEF Die, ledger
<1>3. ASSUME NEW x \in Accounts, ~torn'[x] PROVE Apart(x)' /\ Covered(x)'
  <2>1. ~torn[x] /\ \A k \in Closers : ~Raising(k, x)
    BY <1>2, <1>3 DEF Raising
  <2>2. Apart(x) /\ ChargedUpTo(x, hwm[x])
    BY <2>1 DEF FairInv, Covered
  <2>3. \A k \in Closers : ~Raising(k, x)' /\ ~Due(k, x)'
    BY <1>2 DEF Raising, Due
  <2>. QED
    BY <1>2, <2>2, <2>3 DEF Apart, Covered, ChargedUpTo, Charged
<1>4. FreeInv'
  BY <1>2 DEF FreeInv
<1>. QED
  BY <1>3, <1>4 DEF FairInv

\* With a plan that is assigned anew everything begins anew.
LEMMA FairAssign ==
    ASSUME FairInv, NEW a \in Admins, NEW c \in Clients, NEW p \in Plans, AssignPlan(a, c, p),
           LedgerTypes'
    PROVE  FairInv'
<1>1. LedgerTypes
  BY DEF FairInv
<1>2. PICK e \in Starts : hwm' = [hwm EXCEPT ![<<c, p>>] = e]
  BY DEF AssignPlan
<1>3. /\ since' = [since EXCEPT ![<<c, p>>] = {}]
      /\ settled' = [settled EXCEPT ![<<c, p>>] = {}]
      /\ torn' = [torn EXCEPT ![<<c, p>>] = FALSE]
      /\ UNCHANGED <<invoice, fee, top, closing, period, records, marks, account, peak>>
  BY DEF AssignPlan, closers
<1>4. ASSUME NEW x \in Accounts, ~torn'[x] PROVE Apart(x)' /\ Covered(x)'
  <2>1. CASE x = <<c, p>>
    <3>1. since'[x] = {} /\ settled'[x] = {}
      BY <1>1, <1>3, <2>1 DEF LedgerTypes
    <3>. QED
      BY <3>1 DEF Apart, Covered, ChargedUpTo
  <2>2. CASE x # <<c, p>>
    <3>1. hwm'[x] = hwm[x] /\ since'[x] = since[x] /\ settled'[x] = settled[x] /\ torn'[x] = torn[x]
      <4>. DEFINE y == <<c, p>>
      <4>1. x # y
        BY <2>2
      <4>2. /\ hwm' = [hwm EXCEPT ![y] = e] /\ since' = [since EXCEPT ![y] = {}]
            /\ settled' = [settled EXCEPT ![y] = {}] /\ torn' = [torn EXCEPT ![y] = FALSE]
        BY <1>2, <1>3
      <4>. HIDE DEF y
      <4>. QED
        BY <1>1, <4>1, <4>2 DEF LedgerTypes
    <3>2. Apart(x) /\ Covered(x)
      BY <1>4, <3>1 DEF FairInv
    <3>. QED
      BY <1>3, <3>1, <3>2 DEF Apart, Covered, ChargedUpTo, Charged, Raising, Due
  <2>. QED
    BY <2>1, <2>2
<1>5. FreeInv'
  BY <1>3 DEF FairInv, FreeInv
<1>. QED
  BY <1>4, <1>5 DEF FairInv

LEMMA FairStep == OneCloser /\ FairInv /\ [Next]_vars => FairInv'
<1>. SUFFICES ASSUME OneCloser, FairInv, [Next]_vars PROVE FairInv'
  OBVIOUS
<1>1. LedgerTypes'
  BY LedgerStep DEF FairInv
<1>2. CASE UNCHANGED billingVars
  BY <1>1, <1>2 DEF billingVars, ledger, reporting, closers, audit, FairInv, FreeInv, Apart, Covered,
     ChargedUpTo, Charged, Raising, Due
<1>. QED
  BY <1>1, <1>2, FairDie, FairAssign, FairReport, FairClose, FairPaid
     DEF Next, RegistryOnly, Payment, vars

\* With closings that follow one another (one handler of them at a time) no
\* gain is charged twice, however reports, payments, waivers, new assignments,
\* cancellations and crashes fall between their statements.
THEOREM ChargedOnceSerial ==
    ASSUME \A k, l \in Closers : k = l
    PROVE  Spec => []GainsChargedOnce
<1>1. OneCloser
  BY DEF OneCloser
<1>2. FairInv => GainsChargedOnce
  <2>. SUFFICES ASSUME FairInv, NEW x \in Accounts, NEW i \in since[x], ~torn[x]
                PROVE  ~ChargedTwice(x, i)
    BY DEF GainsChargedOnce
  <2>1. Apart(x)
    BY DEF FairInv
  <2>. QED
    BY <2>1 DEF Apart, ChargedTwice
<1>3. FairInv /\ [Next]_vars => FairInv'
  BY <1>1, FairStep
<1>. QED
  BY FairInit, <1>2, <1>3, PTL DEF Spec
=============================================================================
