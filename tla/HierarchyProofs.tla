---------------------------- MODULE HierarchyProofs ----------------------------
(***************************************************************************)
(* Theorems about Hierarchy: only writes over a row strand it, a kill      *)
(* covers its scope, the engines that own the scope are told, and a        *)
(* registration that is left alone lands.                                  *)
(***************************************************************************)
EXTENDS Hierarchy, TLAPS

\* A fortress row that is there has an engine id or none: never Absent.
Rows ==
    /\ backend \in {"memory", "postgres"}
    /\ engine \in [Fortresses -> Engines \cup {None, Absent}]
    /\ parent \in [Companies -> Fortresses \cup {Absent}]
    /\ home \in [Marines -> Companies \cup {Absent}]

\* A registration works on a path.
Jobs ==
    /\ stage \in [Requests -> Stages]
    /\ job \in [Requests -> Scopes \cup Paths]
    /\ \A r \in Requests : stage[r] \in Registering => job[r] \in Paths

Inv == Rows /\ Jobs

\* What any step does to the tree.  A company or a marine is written under a
\* parent that is there, or it is updated in memory.
RowStep ==
    \/ UNCHANGED <<engine, parent, home>>
    \/ \E f \in Fortresses, e \in Engines \cup {None} : PutFortressRow(f, e)
    \/ \E c \in Companies, f \in Fortresses :
          /\ PutCompanyRow(c, f)
          /\ HasFortress(f) \/ (HasCompany(c) /\ backend = "memory")
    \/ \E m \in Marines, c \in Companies, isOff \in BOOLEAN :
          /\ PutMarineRow(m, c, isOff)
          /\ HasCompany(c) \/ (HasMarine(m) /\ backend = "memory")
    \/ \E f \in Fortresses : DeleteFortressRow(f)
    \/ \E c \in Companies : DeleteCompanyRow(c)
    \/ \E m \in Marines : DeleteMarineRow(m)

LEMMA RowStepKeeps ==
    ASSUME Rows, RowStep, backend' = backend PROVE Rows' /\ StrandedByUpdate
<1>. USE HierarchyAssumption DEF Rows, StrandedByUpdate, CompanyRooted, MarineRooted,
                                 HasFortress, HasCompany, HasMarine
<1>1. CASE UNCHANGED <<engine, parent, home>>
  BY <1>1
<1>2. ASSUME NEW f \in Fortresses, NEW e \in Engines \cup {None}, PutFortressRow(f, e)
      PROVE Rows' /\ StrandedByUpdate
  BY <1>2 DEF PutFortressRow
<1>3. ASSUME NEW c \in Companies, NEW f \in Fortresses, PutCompanyRow(c, f),
             HasFortress(f) \/ (HasCompany(c) /\ backend = "memory")
      PROVE Rows' /\ StrandedByUpdate
  BY <1>3 DEF PutCompanyRow
<1>4. ASSUME NEW m \in Marines, NEW c \in Companies, NEW isOff \in BOOLEAN,
             PutMarineRow(m, c, isOff), HasCompany(c) \/ (HasMarine(m) /\ backend = "memory")
      PROVE Rows' /\ StrandedByUpdate
  BY <1>4 DEF PutMarineRow
<1>5. ASSUME NEW f \in Fortresses, DeleteFortressRow(f) PROVE Rows' /\ StrandedByUpdate
  BY <1>5 DEF DeleteFortressRow, CompaniesOf
<1>6. ASSUME NEW c \in Companies, DeleteCompanyRow(c) PROVE Rows' /\ StrandedByUpdate
  BY <1>6 DEF DeleteCompanyRow, MarinesOf
<1>7. ASSUME NEW m \in Marines, DeleteMarineRow(m) PROVE Rows' /\ StrandedByUpdate
  BY <1>7 DEF DeleteMarineRow
<1>. QED
  BY <1>1, <1>2, <1>3, <1>4, <1>5, <1>6, <1>7 DEF RowStep

LEMMA InitInv == Init => Inv
<1>. QED
  BY DEF Init, Inv, Rows, Jobs, Scopes, Stages, Registering

LEMMA ClientRows == ASSUME Inv, ClientStep PROVE RowStep /\ backend' = backend /\ Jobs'
<1>1. backend' = backend /\ Jobs'
  BY DEF Inv, Jobs, ClientStep, Quiet, handlers, CreateFortress, UpdateFortress,
         DeleteFortress, CreateCompany, UpdateCompany, DeleteCompany, CreateMarine,
         UpdateMarine, DeleteMarine
<1>2. RowStep
  BY DEF Inv, Rows, ClientStep, RowStep, CompanyFits, MarineFits, CreateFortress,
         UpdateFortress, DeleteFortress, CreateCompany, UpdateCompany, DeleteCompany,
         CreateMarine, UpdateMarine, DeleteMarine
<1>. QED
  BY <1>1, <1>2

LEMMA RegisterRows ==
    ASSUME Inv, NEW r \in Requests, RegisterStep(r)
    PROVE RowStep /\ backend' = backend /\ Jobs'
<1>1. ASSUME NEW p \in Paths, Register(r, p) PROVE RowStep /\ backend' = backend /\ Jobs'
  BY <1>1 DEF Inv, Jobs, Register, RowStep, rows, Stages, Registering
<1>2. CASE ~ \E p \in Paths : Register(r, p)
  <2>1. /\ stage[r] \in Registering
        /\ \E s \in Registering : stage' = [stage EXCEPT ![r] = s]
        /\ job' = job /\ backend' = backend
    BY <1>2 DEF RegisterStep, Goto, Registering, UpsertFortress, UpsertFortressUpdate,
                UpsertCompany, UpsertCompanyUpdate, UpsertMarine, UpsertMarineUpdate
  <2>2. Jobs'
    BY <2>1 DEF Inv, Jobs, Stages, Registering
  <2>3. /\ job[r].engine \in Engines /\ job[r].fortress \in Fortresses
        /\ job[r].company \in Companies /\ job[r].marine \in Marines /\ job[r].off \in BOOLEAN
    BY <2>1 DEF Inv, Jobs, Paths
  <2>4. RowStep
    BY <1>2, <2>3 DEF Inv, Rows, RegisterStep, RowStep, rows, CompanyFits, MarineFits,
                UpsertFortress, UpsertFortressUpdate, UpsertCompany, UpsertCompanyUpdate,
                UpsertMarine, UpsertMarineUpdate
  <2>. QED
    BY <2>1, <2>2, <2>4
<1>. QED
  BY <1>1, <1>2

\* A kill and a reply leave the tree alone.
LEMMA KillRows ==
    ASSUME Inv, NEW r \in Requests, KillStep(r) \/ Reply(r)
    PROVE RowStep /\ backend' = backend /\ Jobs'
<1>1. /\ UNCHANGED <<engine, parent, home, backend>>
      /\ \E s \in Stages \ Registering : stage' = [stage EXCEPT ![r] = s]
      /\ \/ job' = job
         \/ \E s \in Scopes : job' = [job EXCEPT ![r] = s]
  BY DEF KillStep, Reply, KillRequest, KillInMemory, KillFortressRows, KillCompanyRows,
         KillMarineRow, KillFind, KillParent, KillOwner, Disabled, DisableRows, Goto, rows,
         Stages, Registering, Scopes
<1>. QED
  BY <1>1 DEF Inv, Jobs, RowStep

LEMMA StepInv == Inv /\ [Next]_vars => Inv' /\ [StrandedByUpdate]_vars
<1>. SUFFICES ASSUME Inv, [Next]_vars PROVE Inv' /\ [StrandedByUpdate]_vars
  OBVIOUS
<1>1. CASE UNCHANGED vars
  BY <1>1 DEF Inv, Rows, Jobs, vars, rows, handlers
<1>2. CASE Next
  <2>1. RowStep /\ backend' = backend /\ Jobs'
    BY <1>2, ClientRows, RegisterRows, KillRows DEF Next
  <2>. QED
    BY <2>1, RowStepKeeps DEF Inv
<1>. QED
  BY <1>1, <1>2

\* For any tree, any number of handlers and both stores: creating, deleting
\* and killing, however they interleave, leave no company without its
\* fortress and no marine without its company.  Only a write over a row that
\* is there does, in memory, which looks up no parent (store.go): a PUT, a
\* write-back, or the update a registration falls back to.
THEOREM OnlyUpdates == Spec => OnlyUpdatesStrand
<1>. QED
  BY InitInv, StepInv, PTL DEF Spec, OnlyUpdatesStrand

-----------------------------------------------------------------------------
(* The scope of a kill *)

Done == {"killFind", "killParent", "killOwner", "killed"}
Killing == Done \cup {"killFortress", "killCompany", "killMarine"}

Rooted == backend = "postgres" =>
    (\A c \in Companies : CompanyRooted(c)) /\ (\A m \in Marines : MarineRooted(m))

\* The marines a kill still owes its caller are in its scope as it is now.  A
\* PostgreSQL kill that has passed the statement for fortresses owes none
\* when a fortress of that id is there now: one that was there then had no
\* marine, and one created since has none yet, because its rows are rooted.
\* The same for companies.
Claim(r) ==
    stage[r] \in Killing =>
        /\ job[r] \in Scopes
        /\ due[r] \subseteq InScope(job[r])
        /\ stage[r] \in {"killCompany", "killMarine"} =>
              /\ backend = "postgres" /\ job[r] # Imperium
              /\ HasFortress(job[r]) => due[r] = {}
        /\ stage[r] = "killMarine" /\ HasCompany(job[r]) => due[r] = {}
        /\ stage[r] \in Done => due[r] \subseteq off

Claims == Rooted /\ due \in [Requests -> SUBSET Marines] /\ \A r \in Requests : Claim(r)

\* What a step that configures marines does to the marines owed.
Configured ==
    \E C \in SUBSET Marines :
        /\ off \ C \subseteq off'
        /\ Watch(C)

\* A handler that is killing before and after the step is where it was.
Stays(q) == stage'[q] \in Killing => stage'[q] = stage[q] /\ job'[q] = job[q]

LEMMA RootedStays == ASSUME Inv, Rooted, Rows', StrandedByUpdate, backend' = backend PROVE Rooted'
<1>. QED
  BY DEF Rooted, StrandedByUpdate

LEMMA ClaimConfigured ==
    ASSUME Inv, Claims, RowStep, StrandedByUpdate, backend' = backend, Configured,
           NEW q \in Requests, Stays(q)
    PROVE Claim(q)'
<1>. SUFFICES ASSUME stage'[q] \in Killing PROVE Claim(q)'
  BY DEF Claim
<1>. DEFINE s == job[q]
<1>1. stage'[q] = stage[q] /\ job'[q] = s /\ stage[q] \in Killing /\ s \in Scopes
  BY DEF Stays, Claims, Claim
<1>2. PICK C \in SUBSET Marines : off \ C \subseteq off' /\ Watch(C)
  BY DEF Configured
<1>3. due'[q] = (due[q] \cap InScope(s)') \ C
  BY <1>1, <1>2 DEF Watch
<1>4. stage[q] \in Done => due'[q] \subseteq off'
  BY <1>1, <1>2, <1>3 DEF Claims, Claim
<1>5. ASSUME backend = "postgres", s # Imperium, HasFortress(s) => due[q] = {}, HasFortress(s)'
      PROVE due'[q] = {}
  <2>1. CASE HasFortress(s)
    BY <1>3, <1>5, <2>1
  <2>2. CASE ~HasFortress(s)
    <3>1. s \in Fortresses /\ engine'[s] # engine[s]
      BY <1>1, <1>5, <2>2 DEF HasFortress
    <3>2. parent' = parent
      BY <3>1, HierarchyAssumption DEF RowStep, PutFortressRow, PutCompanyRow, PutMarineRow, DeleteFortressRow,
                DeleteCompanyRow, DeleteMarineRow
    <3>3. \A c \in Companies : parent[c] # s
      BY <2>2, <1>5, <3>1, HierarchyAssumption DEF Claims, Rooted, CompanyRooted, HasCompany, HasFortress
    <3>4. InScope(s)' = {}
      BY <1>1, <1>5, <3>2, <3>3 DEF InScope, HasFortress, Under, CompaniesOf
    <3>. QED
      BY <1>3, <3>4
  <2>. QED
    BY <2>1, <2>2
<1>6. ASSUME backend = "postgres", s # Imperium, HasCompany(s) => due[q] = {}, HasCompany(s)',
             HasFortress(s)' => due'[q] = {}
      PROVE due'[q] = {}
  <2>1. CASE HasCompany(s) \/ HasFortress(s)'
    BY <1>3, <1>6, <2>1
  <2>2. CASE ~HasCompany(s) /\ ~HasFortress(s)'
    <3>1. s \in Companies /\ parent'[s] # parent[s]
      BY <1>1, <1>6, <2>2 DEF HasCompany
    <3>2. home' = home
      BY <3>1 DEF RowStep, PutFortressRow, PutCompanyRow, PutMarineRow, DeleteFortressRow,
                DeleteCompanyRow, DeleteMarineRow
    <3>3. \A m \in Marines : home[m] # s
      BY <2>2, <1>6, <3>1, HierarchyAssumption
      DEF Claims, Rooted, MarineRooted, HasMarine, HasCompany
    <3>4. InScope(s)' = {}
      BY <1>1, <1>6, <2>2, <3>2, <3>3 DEF InScope, MarinesOf
    <3>. QED
      BY <1>3, <3>4
  <2>. QED
    BY <2>1, <2>2
<1>. QED
  BY <1>1, <1>3, <1>4, <1>5, <1>6 DEF Claims, Claim

LEMMA ClaimStill ==
    ASSUME Claims, UNCHANGED <<backend, engine, parent, home, due>>, off \subseteq off',
           NEW q \in Requests, Stays(q)
    PROVE Claim(q)'
<1>. SUFFICES ASSUME stage'[q] \in Killing PROVE Claim(q)'
  BY DEF Claim
<1>1. stage'[q] = stage[q] /\ job'[q] = job[q] /\ stage[q] \in Killing
  BY DEF Stays
<1>2. InScope(job[q])' = InScope(job[q])
  BY <1>1 DEF InScope, All, Under, CompaniesOf, MarinesOf, HasFortress, HasCompany
<1>. QED
  BY <1>1, <1>2 DEF Claims, Claim, HasFortress, HasCompany

\* A step of a client, or of a registration, configures the marine it writes
\* and enables no other.
LEMMA ClientConfigures ==
    ASSUME Inv, ClientStep PROVE Configured /\ \A q \in Requests : Stays(q)
<1>1. \A q \in Requests : Stays(q)
  BY DEF Stays, ClientStep, Quiet, handlers, CreateFortress, UpdateFortress,
         DeleteFortress, CreateCompany, UpdateCompany, DeleteCompany, CreateMarine,
         UpdateMarine, DeleteMarine
<1>2. Configured
  BY DEF ClientStep, Configured, CreateFortress, UpdateFortress, DeleteFortress,
         CreateCompany, UpdateCompany, DeleteCompany, CreateMarine, UpdateMarine,
         DeleteMarine, PutFortressRow, PutCompanyRow, PutMarineRow, DeleteFortressRow,
         DeleteCompanyRow, DeleteMarineRow
<1>. QED
  BY <1>1, <1>2

LEMMA RegisterConfigures ==
    ASSUME Inv, NEW r \in Requests, RegisterStep(r)
    PROVE /\ Configured \/ (UNCHANGED rows /\ UNCHANGED <<due, owners>>)
          /\ \A q \in Requests : Stays(q)
<1>1. /\ \E t \in Registering : stage' = [stage EXCEPT ![r] = t]
      /\ \A q \in Requests : q # r => job'[q] = job[q]
  BY DEF Inv, Jobs, RegisterStep, Register, Goto, Registering, UpsertFortress,
         UpsertFortressUpdate, UpsertCompany, UpsertCompanyUpdate, UpsertMarine,
         UpsertMarineUpdate
<1>2. \A q \in Requests : Stays(q)
  BY <1>1 DEF Inv, Jobs, Stays, Killing, Done, Registering
<1>3. ASSUME NEW p \in Paths, Register(r, p) PROVE UNCHANGED rows /\ UNCHANGED <<due, owners>>
  BY <1>3 DEF Register, rows
<1>4. CASE ~ \E p \in Paths : Register(r, p)
  <2>1. job[r].marine \in Marines
    BY <1>4 DEF Inv, Jobs, Paths, Registering, RegisterStep, UpsertFortress,
         UpsertFortressUpdate, UpsertCompany, UpsertCompanyUpdate, UpsertMarine,
         UpsertMarineUpdate
  <2>2. CASE UNCHANGED <<rows, history>>
    BY <1>2, <2>2 DEF history
  <2>3. ASSUME Watch({}), off' = off PROVE Configured
    BY <2>3 DEF Configured
  <2>4. ASSUME NEW m \in Marines, Watch({m}), off \ {m} \subseteq off' PROVE Configured
    BY <2>4 DEF Configured
  <2>5. \/ UNCHANGED <<rows, history>>
        \/ Watch({}) /\ off' = off
        \/ Watch({job[r].marine}) /\ off \ {job[r].marine} \subseteq off'
    BY <1>4 DEF RegisterStep, UpsertFortress, UpsertFortressUpdate, UpsertCompany,
         UpsertCompanyUpdate, UpsertMarine, UpsertMarineUpdate, PutFortressRow,
         PutCompanyRow, PutMarineRow
  <2>. QED
    BY <1>2, <2>1, <2>2, <2>3, <2>4, <2>5
<1>. QED
  BY <1>2, <1>3, <1>4

LEMMA KillClaims ==
    ASSUME Inv, Claims, NEW r \in Requests, KillStep(r) \/ Reply(r) PROVE Claims'
<1>. USE DEF Inv, Jobs
<1>1. /\ UNCHANGED <<engine, parent, home, backend>>
      /\ \A q \in Requests : q # r => stage'[q] = stage[q] /\ job'[q] = job[q] /\ due'[q] = due[q]
      /\ due' \in [Requests -> SUBSET Marines]
      /\ off \subseteq off'
  <2>1. \A t : InScope(t) \subseteq Marines
    BY DEF InScope, All, Under, MarinesOf
  <2>. QED
    BY <2>1 DEF Claims, KillStep, Reply, KillRequest, KillInMemory, KillFortressRows, KillCompanyRows,
         KillMarineRow, KillFind, KillParent, KillOwner, Disabled, DisableRows, Goto, rows,
         history
<1>3. Rooted'
  BY <1>1 DEF Claims, Rooted, CompanyRooted, MarineRooted, HasFortress, HasCompany, HasMarine
<1>4. ASSUME NEW q \in Requests, q # r PROVE Claim(q)'
  <2>1. /\ stage'[q] = stage[q] /\ job'[q] = job[q] /\ due'[q] = due[q]
    BY <1>1, <1>4
  <2>2. InScope(job[q])' = InScope(job[q])
    BY <1>1, <2>1 DEF InScope, All, Under, CompaniesOf, MarinesOf, HasFortress, HasCompany
  <2>. QED
    BY <1>1, <2>1, <2>2 DEF Claims, Claim, HasFortress, HasCompany
<1>5. Claim(r)'
  <2>0. InScope(job[r])' = (IF job'[r] = Imperium THEN All
                            ELSE IF HasFortress(job'[r]) THEN Under(job'[r])
                            ELSE IF HasCompany(job'[r]) THEN MarinesOf(job'[r])
                            ELSE {m \in All : m = job'[r]})
    BY <1>1 DEF InScope, All, Under, CompaniesOf, MarinesOf, HasFortress, HasCompany
  <2>1. ASSUME NEW t \in Scopes, KillRequest(r, t) PROVE Claim(r)'
    <3>1. stage'[r] = "killFortress" /\ job'[r] = t /\ due'[r] = InScope(t)
      BY <2>1 DEF KillRequest, Claims
    <3>2. InScope(job[r])' = InScope(t)
      BY <2>0, <3>1 DEF InScope
    <3>. QED
      BY <3>1, <3>2 DEF Claim, Killing, Done
  <2>2. CASE KillInMemory(r)
    <3>1. stage[r] = "killFortress" /\ stage'[r] = "killFind" /\ due'[r] = due[r] /\ job'[r] = job[r]
          /\ off' = off \cup InScope(job[r])
      BY <2>2 DEF KillInMemory, Disabled, DisableRows, Goto, history
    <3>. QED
      BY <2>0, <3>1 DEF InScope, Claims, Claim, Killing, Done
  <2>3. CASE KillFortressRows(r)
    <3>1. /\ stage[r] = "killFortress" /\ due'[r] = due[r] /\ job'[r] = job[r]
          /\ backend = "postgres" /\ job[r] \in Scopes /\ due[r] \subseteq InScope(job[r])
          /\ InScope(job[r])' = InScope(job[r])
      BY <2>0, <2>3 DEF KillFortressRows, Disabled, Goto, history, Claims, Claim, Killing, InScope
    <3>2. CASE job[r] = Imperium
      <4>1. stage'[r] = "killFind" /\ off' = off \cup All
        BY <2>3, <3>2 DEF KillFortressRows, Disabled, DisableRows, Goto
      <4>. QED
        BY <3>1, <3>2, <4>1 DEF Claim, Killing, Done, InScope
    <3>3. CASE job[r] # Imperium /\ Under(job[r]) # {}
      <4>1. stage'[r] = "killFind" /\ off' = off \cup Under(job[r])
        BY <2>3, <3>3 DEF KillFortressRows, Disabled, DisableRows, Goto
      <4>2. HasFortress(job[r])
        <5>1. PICK c \in Companies : parent[c] = job[r]
          BY <3>3 DEF Under, CompaniesOf
        <5>2. CASE HasCompany(c)
          BY <3>1, <5>1, <5>2 DEF Claims, Rooted, CompanyRooted
        <5>3. CASE ~HasCompany(c)
          BY <3>1, <3>3, <5>1, <5>3, HierarchyAssumption DEF HasCompany, Scopes
        <5>. QED
          BY <5>2, <5>3
      <4>. QED
        BY <3>1, <3>3, <4>1, <4>2 DEF Claim, Killing, Done, InScope
    <3>4. CASE job[r] # Imperium /\ Under(job[r]) = {}
      <4>1. stage'[r] = "killCompany"
        BY <2>3, <3>4 DEF KillFortressRows, Goto
      <4>. QED
        BY <1>1, <3>1, <3>4, <4>1 DEF Claim, Killing, Done, InScope, HasFortress
    <3>. QED
      BY <3>2, <3>3, <3>4
  <2>4. CASE KillCompanyRows(r)
    <3>1. /\ stage[r] = "killCompany" /\ due'[r] = due[r] /\ job'[r] = job[r]
          /\ backend = "postgres" /\ job[r] \in Scopes /\ due[r] \subseteq InScope(job[r])
          /\ job[r] # Imperium /\ HasFortress(job[r]) => due[r] = {}
          /\ InScope(job[r])' = InScope(job[r])
      BY <2>0, <2>4 DEF KillCompanyRows, Disabled, Goto, history, Claims, Claim, Killing, InScope
    <3>2. CASE MarinesOf(job[r]) # {}
      <4>1. stage'[r] = "killFind" /\ off' = off \cup MarinesOf(job[r])
        BY <2>4, <3>2 DEF KillCompanyRows, Disabled, DisableRows, Goto
      <4>2. HasCompany(job[r])
        <5>1. PICK m \in Marines : home[m] = job[r]
          BY <3>2 DEF MarinesOf
        <5>2. HasMarine(m)
          BY <3>1, <5>1, HierarchyAssumption DEF HasMarine, Scopes, Claims, Claim, Killing
        <5>. QED
          BY <3>1, <5>1, <5>2 DEF Claims, Rooted, MarineRooted
      <4>3. job[r] # Imperium
        BY <2>4 DEF Claims, Claim, Killing, KillCompanyRows
      <4>. QED
        BY <3>1, <4>1, <4>2, <4>3 DEF Claim, Killing, Done, InScope
    <3>3. CASE MarinesOf(job[r]) = {}
      <4>1. stage'[r] = "killMarine"
        BY <2>4, <3>3 DEF KillCompanyRows, Goto
      <4>2. job[r] # Imperium
        BY <2>4 DEF Claims, Claim, Killing, KillCompanyRows
      <4>. QED
        BY <1>1, <3>1, <3>3, <4>1, <4>2 DEF Claim, Killing, Done, InScope, HasFortress, HasCompany
    <3>. QED
      BY <3>2, <3>3
  <2>5. CASE KillMarineRow(r)
    <3>1. /\ stage[r] = "killMarine" /\ due'[r] = due[r] /\ job'[r] = job[r]
          /\ stage'[r] = "killFind" /\ off' = off \cup {m \in All : m = job[r]}
      BY <2>5 DEF KillMarineRow, Disabled, DisableRows, Goto, history
    <3>2. job[r] \in Scopes /\ due[r] \subseteq InScope(job[r]) /\ job[r] # Imperium
      BY <3>1 DEF Claims, Claim, Killing
    <3>3. (HasFortress(job[r]) => due[r] = {}) /\ (HasCompany(job[r]) => due[r] = {})
      BY <3>1 DEF Claims, Claim, Killing
    <3>4. InScope(job[r])' = InScope(job[r])
      BY <2>0, <3>1 DEF InScope
    <3>. QED
      BY <3>1, <3>2, <3>3, <3>4 DEF Claim, Killing, Done, InScope
  <2>6. CASE KillFind(r) \/ KillParent(r) \/ KillOwner(r)
    <3>1. /\ stage[r] \in Done /\ stage'[r] \in Done /\ due' = due /\ job' = job /\ off' = off
      BY <2>6 DEF KillFind, KillParent, KillOwner, rows, history, Done
    <3>2. InScope(job[r])' = InScope(job[r])
      BY <2>0, <3>1 DEF InScope
    <3>. QED
      BY <1>1, <3>1, <3>2 DEF Claims, Claim, Killing, Done
  <2>7. CASE Reply(r)
    <3>1. stage'[r] = "free"
      BY <2>7 DEF Reply
    <3>. QED
      BY <3>1 DEF Claim, Killing, Done
  <2>. QED
    BY <2>1, <2>2, <2>3, <2>4, <2>5, <2>6, <2>7 DEF KillStep
<1>. QED
  BY <1>1, <1>3, <1>4, <1>5 DEF Claims

LEMMA ClaimsStep == ASSUME Inv, Claims, [Next]_vars PROVE Claims'
<1>1. CASE UNCHANGED vars
  <2>1. UNCHANGED <<backend, engine, parent, home, off, due, stage, job>>
    BY <1>1 DEF vars, rows, handlers, history
  <2>2. \A q \in Requests : Claim(q)'
    BY <2>1, ClaimStill DEF Stays
  <2>. QED
    BY <2>1, <2>2 DEF Claims, Rooted, CompanyRooted, MarineRooted, HasFortress, HasCompany, HasMarine
<1>2. ASSUME RowStep, backend' = backend, Configured, \A q \in Requests : Stays(q) PROVE Claims'
  <2>1. Rows' /\ StrandedByUpdate
    BY <1>2, RowStepKeeps DEF Inv
  <2>2. Rooted'
    BY <1>2, <2>1, RootedStays DEF Claims
  <2>3. \A q \in Requests : Claim(q)'
    BY <1>2, <2>1, ClaimConfigured
  <2>4. due' \in [Requests -> SUBSET Marines]
    BY <1>2 DEF Configured, Watch, Claims
  <2>. QED
    BY <2>2, <2>3, <2>4 DEF Claims
<1>3. ASSUME NEW r \in Requests, RegisterStep(r), UNCHANGED rows, UNCHANGED <<due, owners>> PROVE Claims'
  <2>1. UNCHANGED <<backend, engine, parent, home, off, due>> /\ \A q \in Requests : Stays(q)
    BY <1>3, RegisterRows, RegisterConfigures DEF rows
  <2>2. \A q \in Requests : Claim(q)'
    BY <2>1, ClaimStill
  <2>. QED
    BY <2>1, <2>2 DEF Claims, Rooted, CompanyRooted, MarineRooted, HasFortress, HasCompany, HasMarine
<1>. QED
  BY <1>1, <1>2, <1>3, ClientRows, ClientConfigures, RegisterRows, RegisterConfigures, KillClaims DEF Next

\* Whatever the tree, the number of handlers and the store: when a kill has
\* written its rows, every marine that was in its scope throughout and whose
\* row nobody replaced meanwhile has its Schedule.Enabled off.
THEOREM KillCovers == Spec => []KillCoversScope
<1>1. Init => Claims
  BY DEF Init, Claims, Claim, Rooted, CompanyRooted, MarineRooted, HasCompany, HasMarine, Killing, Done
<1>2. Inv /\ Claims /\ [Next]_vars => (Inv /\ Claims)'
  BY StepInv, ClaimsStep
<1>3. Inv /\ Claims => KillCoversScope
  BY DEF Claims, Claim, KillCoversScope, Killing, Done
<1>. QED
  BY InitInv, <1>1, <1>2, <1>3, PTL DEF Spec

-----------------------------------------------------------------------------
(* The owners of the scope *)

Handlers ==
    /\ via \in [Requests -> Fortresses \cup {Absent}]
    /\ told \in [Requests -> SUBSET Engines]
    /\ owners \in [Requests -> SUBSET (Fortresses \X Engines \X {"fortress", "company"})]

\* The engines that still owe the kill their claim own the scope now; those
\* of a fortress have been found after the first read, those of a company
\* own the fortress the second read has found.
Finding(r) ==
    stage[r] \in Killing =>
        /\ job[r] \in Scopes
        /\ owners[r] \subseteq Owned(job[r])
        /\ stage[r] \in {"killParent", "killOwner", "killed"} =>
              \A o \in owners[r] : o[3] = "fortress" => o[2] \in told[r]
        /\ stage[r] = "killOwner" =>
              \A o \in owners[r] : o[3] = "company" => o[1] = via[r]
        /\ stage[r] = "killed" => \A o \in owners[r] : o[2] \in told[r]

LEMMA OwnedIs ==
    ASSUME NEW s \in Scopes, NEW o
    PROVE o \in Owned(s) <=>
            \E f \in Fortresses, e \in Engines :
               /\ engine[f] = e
               /\ \/ o = <<f, e, "fortress">> /\ s \in {Imperium, f}
                  \/ o = <<f, e, "company">> /\ HasCompany(s) /\ parent[s] = f
<1>1. o \in OwnersOf(s) <=>
        \E f \in Fortresses, e \in Engines :
           \/ o = <<f, e, "fortress">> /\ s \in {Imperium, f}
           \/ o = <<f, e, "company">> /\ HasCompany(s) /\ parent[s] = f
  BY DEF OwnersOf
<1>. QED
  BY <1>1 DEF Owned

Findings == Handlers /\ \A r \in Requests : Finding(r)

\* A step that leaves the handler where it is, and watches its owners.
LEMMA FindingWatched ==
    ASSUME Findings, NEW q \in Requests, Stays(q), via'[q] = via[q], told'[q] = told[q],
           owners'[q] \subseteq owners[q] \cap Owned(job[q])'
    PROVE Finding(q)'
<1>. SUFFICES ASSUME stage'[q] \in Killing PROVE Finding(q)'
  BY DEF Finding
<1>1. stage'[q] = stage[q] /\ job'[q] = job[q] /\ stage[q] \in Killing
  BY DEF Stays
<1>. QED
  BY <1>1 DEF Findings, Finding

LEMMA FindingStill ==
    ASSUME Findings, NEW q \in Requests, Stays(q), via'[q] = via[q], told'[q] = told[q],
           owners'[q] = owners[q], UNCHANGED <<engine, parent>>
    PROVE Finding(q)'
<1>. SUFFICES ASSUME stage'[q] \in Killing PROVE Finding(q)'
  BY DEF Finding
<1>1. stage'[q] = stage[q] /\ job'[q] = job[q] /\ stage[q] \in Killing
  BY DEF Stays
<1>2. Owned(job[q])' = Owned(job[q])
  BY <1>1 DEF Owned, OwnersOf, HasCompany
<1>. QED
  BY <1>1, <1>2 DEF Findings, Finding

LEMMA OtherFindings ==
    ASSUME Inv, Findings, ClientStep \/ \E r \in Requests : RegisterStep(r) PROVE Findings'
<1>1. UNCHANGED <<via, told>>
  BY DEF ClientStep, Quiet, handlers, CreateFortress, UpdateFortress, DeleteFortress,
         CreateCompany, UpdateCompany, DeleteCompany, CreateMarine, UpdateMarine, DeleteMarine,
         RegisterStep, Register, Goto, UpsertFortress, UpsertFortressUpdate, UpsertCompany,
         UpsertCompanyUpdate, UpsertMarine, UpsertMarineUpdate
<1>2. \A q \in Requests : Stays(q)
  BY ClientConfigures, RegisterConfigures
<1>3. Configured \/ (UNCHANGED rows /\ UNCHANGED <<due, owners>>)
  BY ClientConfigures, RegisterConfigures
<1>4. CASE Configured
  <2>1. \A q \in Requests : owners'[q] = owners[q] \cap Owned(job[q])'
    BY <1>4 DEF Configured, Watch
  <2>2. owners' \in [Requests -> SUBSET (Fortresses \X Engines \X {"fortress", "company"})]
    BY <1>4 DEF Configured, Watch, Findings, Handlers
  <2>3. \A q \in Requests : Finding(q)'
    BY <1>1, <1>2, <2>1, FindingWatched
  <2>. QED
    BY <1>1, <2>2, <2>3 DEF Findings, Handlers
<1>5. CASE UNCHANGED rows /\ UNCHANGED <<due, owners>>
  <2>1. \A q \in Requests : Finding(q)'
    BY <1>1, <1>2, <1>5, FindingStill DEF rows
  <2>. QED
    BY <1>1, <1>5, <2>1 DEF Findings, Handlers
<1>. QED
  BY <1>3, <1>4, <1>5

LEMMA KillFindings ==
    ASSUME Inv, Findings, NEW r \in Requests, KillStep(r) \/ Reply(r) PROVE Findings'
<1>. USE DEF Inv, Jobs, Findings, Handlers
<1>1. /\ UNCHANGED <<engine, parent, home, backend>>
      /\ \A q \in Requests : q # r =>
            /\ stage'[q] = stage[q] /\ job'[q] = job[q]
            /\ via'[q] = via[q] /\ told'[q] = told[q] /\ owners'[q] = owners[q]
  BY DEF KillStep, Reply, KillRequest, KillInMemory, KillFortressRows, KillCompanyRows,
         KillMarineRow, KillFind, KillParent, KillOwner, Disabled, DisableRows, Goto, rows,
         history
<1>2. Handlers'
  <2>1. ASSUME NEW s \in Scopes PROVE Owned(s) \subseteq Fortresses \X Engines \X {"fortress", "company"}
    BY OwnedIs
  <2>2. owners' \in [Requests -> SUBSET (Fortresses \X Engines \X {"fortress", "company"})]
    BY <2>1 DEF KillStep, Reply, KillRequest, KillInMemory, KillFortressRows, KillCompanyRows,
         KillMarineRow, KillFind, KillParent, KillOwner, Disabled, history
  <2>3. told' \in [Requests -> SUBSET Engines]
    BY DEF KillStep, Reply, KillRequest, KillInMemory, KillFortressRows, KillCompanyRows,
         KillMarineRow, KillFind, KillParent, KillOwner, Goto
  <2>4. via' \in [Requests -> Fortresses \cup {Absent}]
    BY DEF Rows, HasCompany, KillStep, Reply, KillRequest, KillInMemory, KillFortressRows,
         KillCompanyRows, KillMarineRow, KillFind, KillParent, KillOwner, Goto
  <2>. QED
    BY <2>2, <2>3, <2>4
<1>3. ASSUME NEW q \in Requests, q # r PROVE Finding(q)'
  <2>1. Stays(q)
    BY <1>1, <1>3 DEF Stays
  <2>. QED
    BY <1>1, <1>3, <2>1, FindingStill
<1>4. Finding(r)'
  <2>1. ASSUME NEW t \in Scopes, KillRequest(r, t) PROVE Finding(r)'
    <3>1. stage'[r] = "killFortress" /\ job'[r] = t /\ owners'[r] = Owned(t)
      BY <2>1 DEF KillRequest
    <3>2. Owned(job[r])' = Owned(t)
      BY <1>1, <3>1 DEF Owned, OwnersOf, HasCompany
    <3>. QED
      BY <3>1, <3>2 DEF Finding
  <2>2. CASE Reply(r)
    <3>1. stage'[r] = "free"
      BY <2>2 DEF Reply
    <3>. QED
      BY <3>1 DEF Finding, Killing, Done
  <2>3. CASE ~Reply(r) /\ ~ \E t \in Scopes : KillRequest(r, t)
    <3>1. /\ stage[r] \in Killing /\ job'[r] = job[r] /\ owners'[r] = owners[r]
          /\ job[r] \in Scopes /\ owners[r] \subseteq Owned(job[r])
      BY <2>3 DEF KillStep, KillInMemory, KillFortressRows, KillCompanyRows, KillMarineRow,
                  KillFind, KillParent, KillOwner, Disabled, Goto, rows, history, Killing, Done,
                  Finding
    <3>2. Owned(job[r])' = Owned(job[r])
      BY <1>1, <3>1 DEF Owned, OwnersOf, HasCompany
    <3>3. \A o \in owners[r] :
             \E f \in Fortresses, e \in Engines :
                /\ engine[f] = e
                /\ \/ o = <<f, e, "fortress">> /\ job[r] \in {Imperium, f}
                   \/ o = <<f, e, "company">> /\ HasCompany(job[r]) /\ parent[job[r]] = f
      BY <3>1, OwnedIs
    <3>4. CASE KillInMemory(r) \/ KillFortressRows(r) \/ KillCompanyRows(r) \/ KillMarineRow(r)
      <4>1. stage'[r] \in {"killCompany", "killMarine", "killFind"}
        BY <3>4 DEF KillInMemory, KillFortressRows, KillCompanyRows, KillMarineRow, Goto
      <4>. QED
        BY <3>1, <3>2, <4>1 DEF Finding
    <3>5. CASE KillFind(r)
      <4>1. /\ told'[r] = {e \in Engines : \E f \in Fortresses :
                              job[r] \in {Imperium, f} /\ engine[f] = e}
            /\ stage'[r] = IF job[r] = Imperium THEN "killed" ELSE "killParent"
        BY <3>5 DEF KillFind
      <4>2. \A o \in owners[r] : o[3] = "fortress" => o[2] \in told'[r]
        BY <3>3, <4>1
      <4>3. job[r] = Imperium => \A o \in owners[r] : o[2] \in told'[r]
        BY <3>3, <4>1, HierarchyAssumption DEF HasCompany
      <4>. QED
        BY <3>1, <3>2, <4>1, <4>2, <4>3 DEF Finding
    <3>6. CASE KillParent(r)
      <4>1. /\ stage[r] = "killParent" /\ told' = told
            /\ HasCompany(job[r]) => stage'[r] = "killOwner" /\ via'[r] = parent[job[r]]
            /\ ~HasCompany(job[r]) => stage'[r] = "killed"
        BY <3>6 DEF KillParent
      <4>2. \A o \in owners[r] : o[3] = "fortress" => o[2] \in told[r]
        BY <3>1, <4>1 DEF Finding
      <4>3. HasCompany(job[r]) => \A o \in owners[r] : o[3] = "company" => o[1] = via'[r]
        BY <3>3, <4>1
      <4>4. ~HasCompany(job[r]) => \A o \in owners[r] : o[2] \in told[r]
        BY <3>3, <4>2
      <4>. QED
        BY <3>1, <3>2, <4>1, <4>2, <4>3, <4>4 DEF Finding
    <3>7. CASE KillOwner(r)
      <4>1. /\ stage[r] = "killOwner" /\ stage'[r] = "killed"
            /\ told'[r] = told[r] \cup {e \in Engines : engine[via[r]] = e}
        BY <3>7 DEF KillOwner
      <4>2. /\ \A o \in owners[r] : o[3] = "fortress" => o[2] \in told[r]
            /\ \A o \in owners[r] : o[3] = "company" => o[1] = via[r]
        BY <3>1, <4>1 DEF Finding
      <4>3. \A o \in owners[r] : o[2] \in told'[r]
        BY <3>3, <4>1, <4>2
      <4>. QED
        BY <3>1, <3>2, <4>1, <4>3 DEF Finding
    <3>. QED
      BY <2>3, <3>4, <3>5, <3>6, <3>7 DEF KillStep
  <2>. QED
    BY <2>1, <2>2, <2>3
<1>. QED
  BY <1>2, <1>3, <1>4

LEMMA FindingsStep == ASSUME Inv, Findings, [Next]_vars PROVE Findings'
<1>1. CASE UNCHANGED vars
  <2>1. UNCHANGED <<engine, parent, owners, via, told, stage, job>>
    BY <1>1 DEF vars, rows, handlers, history
  <2>2. \A q \in Requests : Finding(q)'
    BY <2>1, FindingStill DEF Stays
  <2>. QED
    BY <2>1, <2>2 DEF Findings, Handlers
<1>. QED
  BY <1>1, OtherFindings, KillFindings DEF Next

\* When a kill is over, every engine that owned its scope all the time has a
\* command, for any tree and any number of handlers that change it between
\* the reads of engineIDsForScope.
THEOREM OwnersTold == Spec => []OwnersAreTold
<1>1. Init => Findings
  BY DEF Init, Findings, Handlers, Finding, Killing, Done
<1>2. Inv /\ Findings /\ [Next]_vars => (Inv /\ Findings)'
  BY StepInv, FindingsStep
<1>3. Inv /\ Findings => OwnersAreTold
  BY DEF Findings, Finding, OwnersAreTold, Killing, Done
<1>. QED
  BY InitInv, <1>1, <1>2, <1>3, PTL DEF Spec

-----------------------------------------------------------------------------
(* The path of a registration *)

\* As long as no other handler touched its rows, a registration finds what it
\* has written so far, and an update is made only to a row that is there.
Path(r) ==
    stage[r] \in Registering /\ alone[r] =>
        /\ stage[r] = "fortressUpdate" => HasFortress(job[r].fortress)
        /\ stage[r] \notin {"fortress", "fortressUpdate"} =>
              engine[job[r].fortress] = job[r].engine
        /\ stage[r] = "companyUpdate" => HasCompany(job[r].company)
        /\ stage[r] \in {"marine", "marineUpdate", "registered"} =>
              parent[job[r].company] = job[r].fortress
        /\ stage[r] = "marineUpdate" => HasMarine(job[r].marine)
        /\ stage[r] = "registered" => home[job[r].marine] = job[r].company

Alone == alone \in [Requests -> BOOLEAN] /\ \A r \in Requests : Path(r)

\* A step of a handler in R that writes the rows of at most one fortress,
\* company and marine, and says so.
Touched(R) ==
    \E fs \in SUBSET Fortresses, cs \in SUBSET Companies, ms \in SUBSET Marines :
        /\ Touch(R, fs, cs, ms)
        /\ \A f \in Fortresses \ fs : engine'[f] = engine[f]
        /\ \A c \in Companies \ cs : parent'[c] = parent[c]
        /\ \A m \in Marines \ ms : home'[m] = home[m]

LEMMA PathTouched ==
    ASSUME Inv, Alone, NEW R, Touched(R), NEW q \in Requests, q \notin R,
           stage'[q] = stage[q], job'[q] = job[q]
    PROVE Path(q)'
<1>. SUFFICES ASSUME stage[q] \in Registering, alone'[q] PROVE Path(q)'
  BY DEF Path
<1>1. PICK fs \in SUBSET Fortresses, cs \in SUBSET Companies, ms \in SUBSET Marines :
         /\ Touch(R, fs, cs, ms)
         /\ \A f \in Fortresses \ fs : engine'[f] = engine[f]
         /\ \A c \in Companies \ cs : parent'[c] = parent[c]
         /\ \A m \in Marines \ ms : home'[m] = home[m]
  BY DEF Touched
<1>2. /\ job[q].fortress \in Fortresses /\ job[q].company \in Companies
      /\ job[q].marine \in Marines
  BY DEF Inv, Jobs, Paths
<1>3. alone[q] /\ job[q].fortress \notin fs /\ job[q].company \notin cs
      /\ job[q].marine \notin ms
  BY <1>1 DEF Touch
<1>4. /\ engine'[job[q].fortress] = engine[job[q].fortress]
      /\ parent'[job[q].company] = parent[job[q].company]
      /\ home'[job[q].marine] = home[job[q].marine]
  BY <1>1, <1>2, <1>3
<1>. QED
  BY <1>2, <1>3, <1>4 DEF Alone, Path, HasFortress, HasCompany, HasMarine

LEMMA PathStill ==
    ASSUME Alone, UNCHANGED <<engine, parent, home>>, NEW q \in Requests,
           alone'[q] = alone[q], stage'[q] \in Registering => stage'[q] = stage[q] /\ job'[q] = job[q]
    PROVE Path(q)'
<1>. QED
  BY DEF Alone, Path, HasFortress, HasCompany, HasMarine

LEMMA ClientTouches == ASSUME Inv, ClientStep PROVE Touched({}) /\ UNCHANGED <<stage, job>>
<1>1. UNCHANGED <<stage, job>>
  BY DEF ClientStep, Quiet, handlers, CreateFortress, UpdateFortress, DeleteFortress,
         CreateCompany, UpdateCompany, DeleteCompany, CreateMarine, UpdateMarine, DeleteMarine
<1>2. ASSUME NEW f \in Fortresses, Touch({}, {f}, {}, {}), UNCHANGED <<parent, home>>,
             \A g \in Fortresses \ {f} : engine'[g] = engine[g]
      PROVE Touched({})
  BY <1>2 DEF Touched
<1>3. ASSUME NEW c \in Companies, Touch({}, {}, {c}, {}), UNCHANGED <<engine, home>>,
             \A d \in Companies \ {c} : parent'[d] = parent[d]
      PROVE Touched({})
  BY <1>3 DEF Touched
<1>4. ASSUME NEW m \in Marines, Touch({}, {}, {}, {m}), UNCHANGED <<engine, parent>>,
             \A n \in Marines \ {m} : home'[n] = home[n]
      PROVE Touched({})
  BY <1>4 DEF Touched
<1>5. Touched({})
  BY <1>2, <1>3, <1>4 DEF Inv, Rows, ClientStep, CreateFortress, UpdateFortress, DeleteFortress,
         CreateCompany, UpdateCompany, DeleteCompany, CreateMarine, UpdateMarine, DeleteMarine,
         PutFortressRow, PutCompanyRow, PutMarineRow, DeleteFortressRow, DeleteCompanyRow,
         DeleteMarineRow
<1>. QED
  BY <1>1, <1>5

LEMMA UpsertAlone ==
    ASSUME Inv, Alone, NEW r \in Requests, RegisterStep(r),
           ~ \E p \in Paths : Register(r, p)
    PROVE Alone'
<1>. USE DEF Inv, Rows, Jobs, Alone
<1>1. /\ stage[r] \in Registering /\ job' = job
      /\ \A q \in Requests : q # r => stage'[q] = stage[q]
  BY DEF RegisterStep, Goto, Registering, UpsertFortress, UpsertFortressUpdate, UpsertCompany,
         UpsertCompanyUpdate, UpsertMarine, UpsertMarineUpdate
<1>2. /\ job[r].engine \in Engines /\ job[r].fortress \in Fortresses
      /\ job[r].company \in Companies /\ job[r].marine \in Marines
  BY <1>1 DEF Paths
<1>3. Touched({r}) \/ UNCHANGED <<rows, history>>
  <2>1. ASSUME PutFortressRow(job[r].fortress, job[r].engine), Touch({r}, {job[r].fortress}, {}, {})
        PROVE Touched({r})
    BY <1>2, <2>1 DEF Touched, PutFortressRow
  <2>2. ASSUME PutCompanyRow(job[r].company, job[r].fortress), Touch({r}, {}, {job[r].company}, {})
        PROVE Touched({r})
    BY <1>2, <2>2 DEF Touched, PutCompanyRow
  <2>3. ASSUME PutMarineRow(job[r].marine, job[r].company, job[r].off),
               Touch({r}, {}, {}, {job[r].marine})
        PROVE Touched({r})
    BY <1>2, <2>3 DEF Touched, PutMarineRow
  <2>. QED
    BY <2>1, <2>2, <2>3 DEF RegisterStep, UpsertFortress, UpsertFortressUpdate, UpsertCompany,
         UpsertCompanyUpdate, UpsertMarine, UpsertMarineUpdate
<1>4. ASSUME NEW q \in Requests, q # r PROVE Path(q)'
  <2>1. CASE Touched({r})
    BY <1>1, <1>4, <2>1, PathTouched
  <2>2. CASE UNCHANGED <<rows, history>>
    BY <1>1, <1>4, <2>2, PathStill DEF rows, history
  <2>. QED
    BY <1>3, <2>1, <2>2
<1>5. alone' \in [Requests -> BOOLEAN]
  BY <1>3 DEF Touched, Touch, history
<1>6. alone'[r] = alone[r]
  BY <1>3 DEF Touched, Touch, history
<1>7. Path(r)'
  <2>. SUFFICES ASSUME alone[r] PROVE Path(r)'
    BY <1>6 DEF Path
  <2>. USE HierarchyAssumption DEF Path, Goto, HasFortress, HasCompany, HasMarine, Registering
  <2>1. CASE UpsertFortress(r)
    BY <1>1, <1>2, <2>1 DEF UpsertFortress, PutFortressRow, rows
  <2>2. CASE UpsertFortressUpdate(r)
    BY <1>1, <1>2, <2>2 DEF UpsertFortressUpdate, PutFortressRow, rows
  <2>3. CASE UpsertCompany(r)
    BY <1>1, <1>2, <2>3 DEF UpsertCompany, PutCompanyRow, rows
  <2>4. CASE UpsertCompanyUpdate(r)
    BY <1>1, <1>2, <2>4 DEF UpsertCompanyUpdate, PutCompanyRow, CompanyFits, rows
  <2>5. CASE UpsertMarine(r)
    BY <1>1, <1>2, <2>5 DEF UpsertMarine, PutMarineRow, rows
  <2>6. CASE UpsertMarineUpdate(r)
    BY <1>1, <1>2, <2>6 DEF UpsertMarineUpdate, PutMarineRow, MarineFits, rows
  <2>. QED
    BY <2>1, <2>2, <2>3, <2>4, <2>5, <2>6 DEF RegisterStep
<1>. QED
  BY <1>4, <1>5, <1>7

LEMMA AloneStep == ASSUME Inv, Alone, [Next]_vars PROVE Alone'
<1>1. CASE UNCHANGED vars
  <2>1. UNCHANGED <<engine, parent, home, stage, job, alone>>
    BY <1>1 DEF vars, rows, handlers, history
  <2>. QED
    BY <2>1, PathStill DEF Alone
<1>2. CASE ClientStep
  <2>1. alone' \in [Requests -> BOOLEAN]
    BY <1>2, ClientTouches DEF Touched, Touch, Alone
  <2>2. \A q \in Requests : Path(q)'
    BY <1>2, ClientTouches, PathTouched
  <2>. QED
    BY <2>1, <2>2 DEF Alone
<1>3. ASSUME NEW r \in Requests, NEW p \in Paths, Register(r, p) PROVE Alone'
  <2>1. /\ UNCHANGED <<engine, parent, home>> /\ stage'[r] = "fortress"
        /\ \A q \in Requests : q # r =>
              stage'[q] = stage[q] /\ job'[q] = job[q] /\ alone'[q] = alone[q]
        /\ alone' \in [Requests -> BOOLEAN]
    BY <1>3 DEF Register, rows, Inv, Jobs, Alone
  <2>2. Path(r)'
    BY <2>1 DEF Path
  <2>3. \A q \in Requests : q # r => Path(q)'
    BY <2>1, PathStill
  <2>. QED
    BY <2>1, <2>2, <2>3 DEF Alone
<1>4. ASSUME NEW r \in Requests, RegisterStep(r), ~ \E p \in Paths : Register(r, p) PROVE Alone'
  BY <1>4, UpsertAlone
<1>5. ASSUME NEW r \in Requests, KillStep(r) \/ Reply(r) PROVE Alone'
  <2>1. /\ UNCHANGED <<engine, parent, home>> /\ stage'[r] \notin Registering
        /\ \A q \in Requests : q # r =>
              stage'[q] = stage[q] /\ job'[q] = job[q] /\ alone'[q] = alone[q]
        /\ alone' \in [Requests -> BOOLEAN]
    BY <1>5 DEF Inv, Jobs, Alone, KillStep, Reply, KillRequest, KillInMemory, KillFortressRows,
         KillCompanyRows, KillMarineRow, KillFind, KillParent, KillOwner, Disabled, DisableRows,
         Goto, rows, history, Registering
  <2>2. \A q \in Requests : Path(q)'
    <3>1. \A q \in Requests : q # r => Path(q)'
      BY <2>1, PathStill
    <3>. QED
      BY <2>1, <3>1 DEF Path
  <2>. QED
    BY <2>1, <2>2 DEF Alone
<1>. QED
  BY <1>1, <1>2, <1>3, <1>4, <1>5 DEF Next

\* For any tree, both stores, and any number of other handlers: a
\* registration whose rows no other handler touched leaves its path in place,
\* although its creations and updates are separate calls and their errors are
\* dropped.
THEOREM Lands == Spec => []RegistrationLands
<1>1. Init => Alone
  BY DEF Init, Alone, Path, Registering
<1>2. Inv /\ Alone /\ [Next]_vars => (Inv /\ Alone)'
  BY StepInv, AloneStep
<1>3. Inv /\ Alone => RegistrationLands
  BY DEF Alone, Path, RegistrationLands, Registering
<1>. QED
  BY InitInv, <1>1, <1>2, <1>3, PTL DEF Spec

-----------------------------------------------------------------------------
(* The types *)

\* Only a registration works on a path, and only a marine that is there is
\* disabled.
Placed ==
    /\ off \subseteq All
    /\ \A r \in Requests : stage[r] \notin Registering => job[r] \in Scopes

\* What a step does to the marines: disable some that are there, or write or
\* remove one row.
MarineStep ==
    \/ UNCHANGED <<home, off>>
    \/ home' = home /\ \E S \in SUBSET All : off' = off \cup S
    \/ \E m \in Marines, c \in Companies, isOff \in BOOLEAN : PutMarineRow(m, c, isOff)
    \/ \E m \in Marines : DeleteMarineRow(m)

LEMMA MarineStepOff ==
    ASSUME Rows, off \subseteq All, MarineStep
    PROVE  (off \subseteq All)'
<1>1. CASE UNCHANGED <<home, off>>
  BY <1>1 DEF All
<1>2. CASE home' = home /\ \E S \in SUBSET All : off' = off \cup S
  BY <1>2 DEF All
<1>3. ASSUME NEW m \in Marines, NEW c \in Companies, NEW isOff \in BOOLEAN, PutMarineRow(m, c, isOff)
      PROVE  (off \subseteq All)'
  <2>1. home' = [home EXCEPT ![m] = c] /\ off' \subseteq off \cup {m}
    BY <1>3 DEF PutMarineRow
  <2>. QED
    BY <2>1, HierarchyAssumption DEF All, Rows
<1>4. ASSUME NEW m \in Marines, DeleteMarineRow(m) PROVE (off \subseteq All)'
  BY <1>4 DEF DeleteMarineRow, All, Rows
<1>. QED
  BY <1>1, <1>2, <1>3, <1>4 DEF MarineStep

LEMMA ScopeInAll == \A s : InScope(s) \subseteq All
BY HierarchyAssumption DEF InScope, Under, MarinesOf, All, CompaniesOf, HasFortress, HasCompany

LEMMA PlacedStep == ASSUME Inv, Claims, Placed, [Next]_vars PROVE Placed'
<1>1. CASE UNCHANGED vars
  BY <1>1 DEF Placed, All, vars, rows, handlers
<1>2. CASE ClientStep
  <2>1. UNCHANGED <<stage, job>>
    BY <1>2, ClientTouches
  <2>2. MarineStep
    BY <1>2 DEF ClientStep, MarineStep, CreateFortress, UpdateFortress, DeleteFortress, CreateCompany,
       UpdateCompany, DeleteCompany, CreateMarine, UpdateMarine, DeleteMarine, PutFortressRow,
       PutCompanyRow, DeleteFortressRow, DeleteCompanyRow
  <2>. QED
    BY <2>1, <2>2, MarineStepOff DEF Placed, Inv
<1>3. ASSUME NEW r \in Requests, RegisterStep(r) PROVE Placed'
  <2>1. MarineStep
    <3>1. ASSUME NEW p \in Paths, Register(r, p) PROVE MarineStep
      BY <3>1 DEF Register, MarineStep, rows
    <3>2. CASE ~ \E p \in Paths : Register(r, p)
      <4>1. stage[r] \in Registering
        BY <1>3, <3>2 DEF RegisterStep, Registering, UpsertFortress, UpsertFortressUpdate,
           UpsertCompany, UpsertCompanyUpdate, UpsertMarine, UpsertMarineUpdate
      <4>2. job[r].company \in Companies /\ job[r].marine \in Marines /\ job[r].off \in BOOLEAN
        BY <4>1 DEF Inv, Jobs, Paths
      <4>. QED
        BY <1>3, <3>2, <4>2 DEF RegisterStep, MarineStep, rows, UpsertFortress, UpsertFortressUpdate,
           UpsertCompany, UpsertCompanyUpdate, UpsertMarine, UpsertMarineUpdate,
           PutFortressRow, PutCompanyRow
    <3>. QED
      BY <3>1, <3>2
  <2>2. /\ stage'[r] \in Registering
        /\ \A q \in Requests : q # r => stage'[q] = stage[q] /\ job'[q] = job[q]
    BY <1>3 DEF Inv, Jobs, RegisterStep, Register, Goto, Registering, UpsertFortress,
       UpsertFortressUpdate, UpsertCompany, UpsertCompanyUpdate, UpsertMarine, UpsertMarineUpdate
  <2>. QED
    BY <2>1, <2>2, MarineStepOff DEF Placed, Inv
<1>4. ASSUME NEW r \in Requests, KillStep(r) \/ Reply(r) PROVE Placed'
  <2>1. MarineStep
    <3>1. \A s : /\ Under(s) \subseteq All /\ MarinesOf(s) \in SUBSET Marines
                 /\ {m \in All : m = s} \subseteq All
      BY HierarchyAssumption DEF Under, MarinesOf, All, CompaniesOf
    <3>2. stage[r] = "killCompany" => MarinesOf(job[r]) \subseteq All
      <4>1. stage[r] = "killCompany" => job[r] \in Scopes \ {Imperium}
        BY DEF Claims, Claim, Killing
      <4>. QED
        BY <4>1, HierarchyAssumption DEF MarinesOf, All, Scopes
    <3>. QED
      BY <1>4, <3>1, <3>2, ScopeInAll DEF MarineStep, KillStep, Reply, KillRequest, KillInMemory,
         KillFortressRows, KillCompanyRows, KillMarineRow, KillFind, KillParent, KillOwner,
         Disabled, DisableRows, rows
  <2>2. /\ stage'[r] \notin Registering => job'[r] \in Scopes
        /\ \A q \in Requests : q # r => stage'[q] = stage[q] /\ job'[q] = job[q]
    <3>1. \/ job' = job /\ stage[r] \notin Registering
          \/ \E s \in Scopes : job' = [job EXCEPT ![r] = s]
      BY <1>4 DEF KillStep, Reply, KillRequest, KillInMemory, KillFortressRows, KillCompanyRows,
         KillMarineRow, KillFind, KillParent, KillOwner, Goto, Registering, Scopes
    <3>2. \E s : stage' = [stage EXCEPT ![r] = s]
      BY <1>4 DEF KillStep, Reply, KillRequest, KillInMemory, KillFortressRows, KillCompanyRows,
         KillMarineRow, KillFind, KillParent, KillOwner, Goto
    <3>. QED
      BY <3>1, <3>2 DEF Inv, Jobs, Placed
  <2>. QED
    BY <2>1, <2>2, MarineStepOff DEF Placed, Inv
<1>. QED
  BY <1>1, <1>2, <1>3, <1>4 DEF Next

\* The variables hold values of their types, in every interleaving.
THEOREM HierarchyTypes == Spec => []HierarchyTypeOK
<1>1. Init => Placed /\ Claims /\ Findings /\ Alone
  BY DEF Init, Placed, All, Scopes, Claims, Claim, Rooted, CompanyRooted, MarineRooted, HasCompany,
     HasMarine, Killing, Done, Findings, Handlers, Finding, Alone, Path, Registering
<1>2. Inv /\ Placed /\ Claims /\ Findings /\ Alone /\ [Next]_vars
        => (Inv /\ Placed /\ Claims /\ Findings /\ Alone)'
  BY StepInv, PlacedStep, ClaimsStep, FindingsStep, AloneStep
<1>3. Inv /\ Placed /\ Claims /\ Findings /\ Alone => HierarchyTypeOK
  BY ScopeAssumption DEF Inv, Rows, Jobs, Placed, Claims, Findings, Handlers, Alone, HierarchyTypeOK
<1>. QED
  BY InitInv, <1>1, <1>2, <1>3, PTL DEF Spec
=============================================================================
