------------------------------ MODULE Hierarchy ------------------------------
(***************************************************************************)
(* Fortresses, companies and marines: the rows of both stores, the         *)
(* handlers that create, replace, move and delete them, the registration   *)
(* of an engine, which upserts a path of the tree row by row, and the kill *)
(* switch, whose scope is an id of any of the three kinds.  The in-memory  *)
(* store checks parents by hand and kills under one lock; PostgreSQL       *)
(* checks them with foreign keys and kills with up to three statements     *)
(* that other handlers come between.  Of a marine the model keeps its      *)
(* company and Schedule.Enabled, the flag that a start of the scheduler    *)
(* looks at first.  Its status is left to Lifecycle: the writes of the     *)
(* status alone (UpdateMarineStatus: a cycle, a sleep) touch neither.      *)
(***************************************************************************)
EXTENDS FiniteSets

CONSTANTS
    Fortresses, Companies, Marines,  \* ids; one id may name a row of each kind
    Engines,                         \* engine ids
    Requests,                        \* handlers of several store calls at once (bound)
    Imperium,                        \* the scope of everything
    Absent,                          \* no such row
    None                             \* a fortress without an engine id

ASSUME HierarchyAssumption ==
    /\ Absent \notin Fortresses \cup Companies \cup Marines \cup Engines \cup {None}
    /\ None \notin Engines
    /\ Imperium \notin Fortresses \cup Companies \cup Marines

VARIABLES
    backend,  \* "memory" or "postgres": fixed when the process starts
    engine,   \* engine[f]: Metadata["engine_id"] of fortress f, or Absent
    parent,   \* parent[c]: FortressID of company c, or Absent
    home,     \* home[m]: CompanyID of marine m, or Absent
    off,      \* the marines whose Schedule.Enabled is false
    stage,    \* the store call a handler makes next
    job,      \* its URL or body: a scope, or the path an engine registers
    due,      \* history: marines in the scope of a kill since it began whose row
              \* nobody replaced since
    owners,   \* history: what made engines owners of the scope of a kill, since it began
    via,      \* the fortress of the company a kill has read, while it looks for owners
    told,     \* engines a kill has queued a command for
    alone     \* history: no other handler touched the path being registered

rows == <<engine, parent, home, off>>
handlers == <<stage, job, via, told>>
history == <<due, owners, alone>>
vars == <<backend, rows, handlers, history>>

-----------------------------------------------------------------------------
(* Data *)

Scopes == Fortresses \cup Companies \cup Marines \cup {Imperium}
Paths == [engine : Engines, fortress : Fortresses, company : Companies,
          marine : Marines, off : BOOLEAN]

\* The two kinds of jobs: a scope is an id, a path the body of a request.
ASSUME ScopeAssumption == Scopes \cap Paths = {}

Stages == {"free", "fortress", "fortressUpdate", "company", "companyUpdate", "marine",
           "marineUpdate", "registered", "killFortress", "killCompany", "killMarine",
           "killFind", "killParent", "killOwner", "killed"}
Registering == {"fortress", "fortressUpdate", "company", "companyUpdate", "marine",
                "marineUpdate", "registered"}

HasFortress(f) == f \in Fortresses /\ engine[f] # Absent
HasCompany(c) == c \in Companies /\ parent[c] # Absent
HasMarine(m) == m \in Marines /\ home[m] # Absent

CompaniesOf(f) == {c \in Companies : parent[c] = f}
MarinesOf(c) == {m \in Marines : home[m] = c}
Under(f) == UNION {MarinesOf(c) : c \in CompaniesOf(f)}
All == {m \in Marines : home[m] # Absent}

\* What a scope means: a fortress before a company before a marine.
InScope(s) ==
    IF s = Imperium THEN All
    ELSE IF HasFortress(s) THEN Under(s)
    ELSE IF HasCompany(s) THEN MarinesOf(s)
    ELSE {m \in All : m = s}

\* Who owns a scope: the engine of the fortress of that id (of all of them
\* for the imperium), and the engine of the fortress of the company of that id.
OwnersOf(s) ==
    {<<f, e, "fortress">> : f \in {g \in Fortresses : s \in {Imperium, g}}, e \in Engines}
    \cup {<<f, e, "company">> : f \in {g \in Fortresses : HasCompany(s) /\ parent[s] = g},
                               e \in Engines}

Owned(s) == {o \in OwnersOf(s) : engine[o[1]] = o[2]}

Init ==
    /\ backend \in {"memory", "postgres"}
    /\ engine = [f \in Fortresses |-> Absent]
    /\ parent = [c \in Companies |-> Absent]
    /\ home = [m \in Marines |-> Absent]
    /\ off = {}
    /\ stage = [r \in Requests |-> "free"]
    /\ job = [r \in Requests |-> Imperium]
    /\ due = [r \in Requests |-> {}]
    /\ owners = [r \in Requests |-> {}]
    /\ via = [r \in Requests |-> Absent]
    /\ told = [r \in Requests |-> {}]
    /\ alone = [r \in Requests |-> TRUE]

-----------------------------------------------------------------------------
(* The rows *)

\* CreateCompany and CreateMarine look the parent up in either store;
\* UpdateCompany and UpdateMarine only where a foreign key does it for them.
CompanyFits(f) == backend = "postgres" => HasFortress(f)
MarineFits(c) == backend = "postgres" => HasCompany(c)

PutFortressRow(f, e) ==
    /\ engine' = [engine EXCEPT ![f] = e]
    /\ UNCHANGED <<parent, home, off>>

PutCompanyRow(c, f) ==
    /\ parent' = [parent EXCEPT ![c] = f]
    /\ UNCHANGED <<engine, home, off>>

PutMarineRow(m, c, isOff) ==
    /\ home' = [home EXCEPT ![m] = c]
    /\ off' = IF isOff THEN off \cup {m} ELSE off \ {m}
    /\ UNCHANGED <<engine, parent>>

\* Disabling every marine of S: the only write of marines that replaces no row.
DisableRows(S) ==
    /\ off' = off \cup S
    /\ UNCHANGED <<engine, parent, home>>

\* Wrong: the fortress is deleted from under its companies.
DeleteFortressUnchecked(f) ==
    /\ HasFortress(f)
    /\ engine' = [engine EXCEPT ![f] = Absent]
    /\ UNCHANGED <<parent, home, off>>

\* DeleteFortress: the in-memory store looks for companies, PostgreSQL's
\* foreign key refuses; DeleteCompany likewise.
DeleteFortressRow(f) ==
    /\ HasFortress(f)
    /\ CompaniesOf(f) = {}
    /\ engine' = [engine EXCEPT ![f] = Absent]
    /\ UNCHANGED <<parent, home, off>>

DeleteCompanyRow(c) ==
    /\ HasCompany(c)
    /\ MarinesOf(c) = {}
    /\ parent' = [parent EXCEPT ![c] = Absent]
    /\ UNCHANGED <<engine, home, off>>

DeleteMarineRow(m) ==
    /\ HasMarine(m)
    /\ home' = [home EXCEPT ![m] = Absent]
    /\ off' = off \ {m}
    /\ UNCHANGED <<engine, parent>>

-----------------------------------------------------------------------------
(* History: what a step of another handler does to the claims of the kills *)
(* and registrations in progress.                                          *)

\* The marines whose row the step replaced or removed.
Watch(configured) ==
    /\ due' = [r \in Requests |-> (due[r] \cap InScope(job[r])') \ configured]
    /\ owners' = [r \in Requests |-> owners[r] \cap Owned(job[r])']

\* The step of a handler outside R wrote the rows named.
Touch(R, fs, cs, ms) ==
    alone' = [r \in Requests |->
                /\ alone[r]
                /\ (r \notin R /\ stage[r] \in Registering)
                   => /\ job[r].fortress \notin fs
                      /\ job[r].company \notin cs
                      /\ job[r].marine \notin ms]

-----------------------------------------------------------------------------
(* Handlers of one store call *)

Quiet == UNCHANGED <<backend, handlers>>

CreateFortress(f, e) ==
    /\ ~HasFortress(f)
    /\ PutFortressRow(f, e)
    /\ Quiet /\ Watch({}) /\ Touch({}, {f}, {}, {})

\* A PUT replaces the row, the engine id of its metadata included.
UpdateFortress(f, e) ==
    /\ HasFortress(f)
    /\ PutFortressRow(f, e)
    /\ Quiet /\ Watch({}) /\ Touch({}, {f}, {}, {})

DeleteFortress(f) ==
    /\ DeleteFortressRow(f)
    /\ Quiet /\ Watch({}) /\ Touch({}, {f}, {}, {})

CreateCompany(c, f) ==
    /\ ~HasCompany(c)
    /\ HasFortress(f)
    /\ PutCompanyRow(c, f)
    /\ Quiet /\ Watch({}) /\ Touch({}, {}, {c}, {})

UpdateCompany(c, f) ==
    /\ HasCompany(c)
    /\ CompanyFits(f)
    /\ PutCompanyRow(c, f)
    /\ Quiet /\ Watch({}) /\ Touch({}, {}, {c}, {})

DeleteCompany(c) ==
    /\ DeleteCompanyRow(c)
    /\ Quiet /\ Watch({}) /\ Touch({}, {}, {c}, {})

CreateMarine(m, c, isOff) ==
    /\ ~HasMarine(m)
    /\ HasCompany(c)
    /\ PutMarineRow(m, c, isOff)
    /\ Quiet /\ Watch({m}) /\ Touch({}, {}, {}, {m})

\* A PUT, and the write-back of a row read earlier: handleEnableMarine and
\* handleDisableMarine set the flag and a heartbeat keeps it, each on its
\* copy, so that an older company and an older flag may come back.
UpdateMarine(m, c, isOff) ==
    /\ HasMarine(m)
    /\ MarineFits(c)
    /\ PutMarineRow(m, c, isOff)
    /\ Quiet /\ Watch({m}) /\ Touch({}, {}, {}, {m})

DeleteMarine(m) ==
    /\ DeleteMarineRow(m)
    /\ Quiet /\ Watch({m}) /\ Touch({}, {}, {}, {m})

-----------------------------------------------------------------------------
(* Registration of an engine: create, else update, for each row of a path *)

Goto(r, s) ==
    /\ stage' = [stage EXCEPT ![r] = s]
    /\ UNCHANGED <<backend, job, via, told>>

Register(r, p) ==
    /\ stage[r] = "free"
    /\ stage' = [stage EXCEPT ![r] = "fortress"]
    /\ job' = [job EXCEPT ![r] = p]
    /\ alone' = [alone EXCEPT ![r] = TRUE]
    /\ UNCHANGED <<backend, rows, via, told, due, owners>>

UpsertFortress(r) ==
    /\ stage[r] = "fortress"
    /\ IF HasFortress(job[r].fortress)
       THEN Goto(r, "fortressUpdate") /\ UNCHANGED <<rows, history>>
       ELSE /\ PutFortressRow(job[r].fortress, job[r].engine)
            /\ Goto(r, "company") /\ Watch({}) /\ Touch({r}, {job[r].fortress}, {}, {})

\* An update whose row has gone in the meantime changes nothing, and its
\* error is dropped.
UpsertFortressUpdate(r) ==
    /\ stage[r] = "fortressUpdate"
    /\ Goto(r, "company")
    /\ IF HasFortress(job[r].fortress)
       THEN /\ PutFortressRow(job[r].fortress, job[r].engine)
            /\ Watch({}) /\ Touch({r}, {job[r].fortress}, {}, {})
       ELSE UNCHANGED <<rows, history>>

UpsertCompany(r) ==
    /\ stage[r] = "company"
    /\ IF HasCompany(job[r].company) \/ ~HasFortress(job[r].fortress)
       THEN Goto(r, "companyUpdate") /\ UNCHANGED <<rows, history>>
       ELSE /\ PutCompanyRow(job[r].company, job[r].fortress)
            /\ Goto(r, "marine") /\ Watch({}) /\ Touch({r}, {}, {job[r].company}, {})

UpsertCompanyUpdate(r) ==
    /\ stage[r] = "companyUpdate"
    /\ Goto(r, "marine")
    /\ IF HasCompany(job[r].company) /\ CompanyFits(job[r].fortress)
       THEN /\ PutCompanyRow(job[r].company, job[r].fortress)
            /\ Watch({}) /\ Touch({r}, {}, {job[r].company}, {})
       ELSE UNCHANGED <<rows, history>>

UpsertMarine(r) ==
    /\ stage[r] = "marine"
    /\ IF HasMarine(job[r].marine) \/ ~HasCompany(job[r].company)
       THEN Goto(r, "marineUpdate") /\ UNCHANGED <<rows, history>>
       ELSE /\ PutMarineRow(job[r].marine, job[r].company, job[r].off)
            /\ Goto(r, "registered")
            /\ Watch({job[r].marine}) /\ Touch({r}, {}, {}, {job[r].marine})

\* Wrong: an engine that is registered again leaves its marine where it was.
UpsertMarineStays(r) ==
    /\ stage[r] = "marineUpdate"
    /\ UNCHANGED <<rows, history>>
    /\ Goto(r, "registered")

UpsertMarineUpdate(r) ==
    /\ stage[r] = "marineUpdate"
    /\ Goto(r, "registered")
    /\ IF HasMarine(job[r].marine) /\ MarineFits(job[r].company)
       THEN /\ PutMarineRow(job[r].marine, job[r].company, job[r].off)
            /\ Watch({job[r].marine}) /\ Touch({r}, {}, {}, {job[r].marine})
       ELSE UNCHANGED <<rows, history>>

-----------------------------------------------------------------------------
(* The kill switch *)

KillRequest(r, s) ==
    /\ stage[r] = "free"
    /\ stage' = [stage EXCEPT ![r] = "killFortress"]
    /\ job' = [job EXCEPT ![r] = s]
    /\ due' = [due EXCEPT ![r] = InScope(s)]
    /\ owners' = [owners EXCEPT ![r] = Owned(s)]
    /\ told' = [told EXCEPT ![r] = {}]
    /\ UNCHANGED <<backend, rows, via, alone>>

\* Disabling configures no marine and moves none: the claims stand.
Disabled(S) == DisableRows(S) /\ UNCHANGED history

\* Store.ActivateKillSwitch: one lock, and the kinds in their order.
KillInMemory(r) ==
    /\ backend = "memory"
    /\ stage[r] = "killFortress"
    /\ Disabled(InScope(job[r]))
    /\ Goto(r, "killFind")

\* PGStore.ActivateKillSwitch: the statement for a fortress, and the next one
\* only if it changed no row.
KillFortressRows(r) ==
    /\ backend = "postgres"
    /\ stage[r] = "killFortress"
    /\ IF job[r] = Imperium
       THEN Disabled(All) /\ Goto(r, "killFind")
       ELSE /\ Disabled(Under(job[r]))
            /\ Goto(r, IF Under(job[r]) # {} THEN "killFind" ELSE "killCompany")

\* Wrong: a company is killed only if the marine statement follows it.
KillCompanySkipped(r) ==
    /\ stage[r] = "killCompany"
    /\ Disabled({})
    /\ Goto(r, IF MarinesOf(job[r]) # {} THEN "killFind" ELSE "killMarine")

KillCompanyRows(r) ==
    /\ stage[r] = "killCompany"
    /\ Disabled(MarinesOf(job[r]))
    /\ Goto(r, IF MarinesOf(job[r]) # {} THEN "killFind" ELSE "killMarine")

KillMarineRow(r) ==
    /\ stage[r] = "killMarine"
    /\ Disabled({m \in All : m = job[r]})
    /\ Goto(r, "killFind")

\* Wrong: a fortress without an engine id counts as owned.
KillFindAny(r) ==
    /\ stage[r] = "killFind"
    /\ told' = [told EXCEPT ![r] = {engine[f] : f \in {g \in Fortresses : job[r] \in {Imperium, g}}}]
    /\ stage' = [stage EXCEPT ![r] = IF job[r] = Imperium THEN "killed" ELSE "killParent"]
    /\ UNCHANGED <<backend, job, via, rows, history>>

\* engineIDsForScope: the fortress of that id (all of them for the imperium),
KillFind(r) ==
    /\ stage[r] = "killFind"
    /\ told' = [told EXCEPT ![r] =
                  {e \in Engines : \E f \in Fortresses :
                      job[r] \in {Imperium, f} /\ engine[f] = e}]
    /\ stage' = [stage EXCEPT ![r] = IF job[r] = Imperium THEN "killed" ELSE "killParent"]
    /\ UNCHANGED <<backend, job, via, rows, history>>

\* then the fortress of the company of that id, read by two more calls.
KillParent(r) ==
    /\ stage[r] = "killParent"
    /\ via' = [via EXCEPT ![r] = IF HasCompany(job[r]) THEN parent[job[r]] ELSE Absent]
    /\ stage' = [stage EXCEPT ![r] = IF HasCompany(job[r]) THEN "killOwner" ELSE "killed"]
    /\ UNCHANGED <<backend, job, told, rows, history>>

\* Wrong: the engine ids found so far are replaced.
KillOwnerReplaces(r) ==
    /\ stage[r] = "killOwner"
    /\ told' = [told EXCEPT ![r] = {e \in Engines : engine[via[r]] = e}]
    /\ stage' = [stage EXCEPT ![r] = "killed"]
    /\ UNCHANGED <<backend, job, via, rows, history>>

KillOwner(r) ==
    /\ stage[r] = "killOwner"
    /\ told' = [told EXCEPT ![r] = @ \cup {e \in Engines : engine[via[r]] = e}]
    /\ stage' = [stage EXCEPT ![r] = "killed"]
    /\ UNCHANGED <<backend, job, via, rows, history>>

Reply(r) ==
    /\ stage[r] \in {"registered", "killed"}
    /\ stage' = [stage EXCEPT ![r] = "free"]
    /\ job' = [job EXCEPT ![r] = Imperium]
    /\ via' = [via EXCEPT ![r] = Absent]
    /\ told' = [told EXCEPT ![r] = {}]
    /\ due' = [due EXCEPT ![r] = {}]
    /\ owners' = [owners EXCEPT ![r] = {}]
    /\ alone' = [alone EXCEPT ![r] = TRUE]
    /\ UNCHANGED <<backend, rows>>

-----------------------------------------------------------------------------
ClientStep ==
    \/ \E f \in Fortresses :
          \/ \E e \in Engines \cup {None} : CreateFortress(f, e) \/ UpdateFortress(f, e)
          \/ DeleteFortress(f)
    \/ \E c \in Companies :
          \/ \E f \in Fortresses : CreateCompany(c, f) \/ UpdateCompany(c, f)
          \/ DeleteCompany(c)
    \/ \E m \in Marines :
          \/ \E c \in Companies, isOff \in BOOLEAN :
                CreateMarine(m, c, isOff) \/ UpdateMarine(m, c, isOff)
          \/ DeleteMarine(m)

RegisterStep(r) ==
    \/ \E p \in Paths : Register(r, p)
    \/ UpsertFortress(r) \/ UpsertFortressUpdate(r)
    \/ UpsertCompany(r) \/ UpsertCompanyUpdate(r)
    \/ UpsertMarine(r) \/ UpsertMarineUpdate(r)

KillStep(r) ==
    \/ \E s \in Scopes : KillRequest(r, s)
    \/ KillInMemory(r)
    \/ KillFortressRows(r) \/ KillCompanyRows(r) \/ KillMarineRow(r)
    \/ KillFind(r) \/ KillParent(r) \/ KillOwner(r)

Next ==
    \/ ClientStep
    \/ \E r \in Requests : RegisterStep(r) \/ KillStep(r) \/ Reply(r)

Spec == Init /\ [][Next]_vars

-----------------------------------------------------------------------------

\* The variables hold values of their types.
HierarchyTypeOK ==
    /\ backend \in {"memory", "postgres"}
    /\ engine \in [Fortresses -> Engines \cup {None, Absent}]
    /\ parent \in [Companies -> Fortresses \cup {Absent}]
    /\ home \in [Marines -> Companies \cup {Absent}]
    /\ off \subseteq All
    /\ stage \in [Requests -> Stages]
    /\ job \in [Requests -> Scopes \cup Paths]
    /\ via \in [Requests -> Fortresses \cup {Absent}]
    /\ told \in [Requests -> SUBSET Engines]
    /\ due \in [Requests -> SUBSET Marines]
    /\ owners \in [Requests -> SUBSET (Fortresses \X Engines \X {"fortress", "company"})]
    /\ alone \in [Requests -> BOOLEAN]
    /\ \A r \in Requests : stage[r] \in Registering <=> job[r] \in Paths

CompanyRooted(c) == HasCompany(c) => HasFortress(parent[c])
MarineRooted(m) == HasMarine(m) => HasCompany(home[m])

StrandedByUpdate ==
    /\ \A c \in Companies :
        CompanyRooted(c) /\ ~CompanyRooted(c)' =>
           backend = "memory" /\ HasCompany(c) /\ parent'[c] # parent[c]
    /\ \A m \in Marines :
        MarineRooted(m) /\ ~MarineRooted(m)' =>
           backend = "memory" /\ HasMarine(m) /\ home'[m] # home[m]

\* A company or a marine that has its parent loses it only to a write of its
\* own row, in memory, over a row that is there: a PUT, the update of a
\* registration whose creation was refused, or the write-back of a copy, of
\* which none looks the parent up.  No delete, no creation and no kill, and
\* no step at all in PostgreSQL, strands one.
OnlyUpdatesStrand == [][StrandedByUpdate]_vars

\* When a kill has written its rows, every marine that was in its scope all
\* the time and whose row nobody replaced meanwhile has Schedule.Enabled off,
\* so that no start schedules it: the statements of the PostgreSQL store lose
\* no marine to a handler that comes between them, even where one id names
\* rows of several kinds.
KillCoversScope ==
    \A r \in Requests :
        stage[r] \in {"killFind", "killParent", "killOwner", "killed"} => due[r] \subseteq off

\* When a kill is over, every engine that owned its scope all the time has a
\* command: the reads that find it, of a fortress, a company and its
\* fortress, miss none.
OwnersAreTold ==
    \A r \in Requests : stage[r] = "killed" => \A o \in owners[r] : o[2] \in told[r]

\* A registration whose rows no other handler touched leaves its path in
\* place: each row there, under its parent, owned by the engine.
RegistrationLands ==
    \A r \in Requests : stage[r] = "registered" /\ alone[r] =>
        /\ engine[job[r].fortress] = job[r].engine
        /\ parent[job[r].company] = job[r].fortress
        /\ home[job[r].marine] = job[r].company
=============================================================================
