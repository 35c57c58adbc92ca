-------------------------------- MODULE Plans --------------------------------
(***************************************************************************)
(* The roadmap and the allocations of the council.  A handler reads the    *)
(* roadmap, changes it and writes it back as a whole.  The in-memory store *)
(* hands out a copy of the struct whose slices it shares, so the changes   *)
(* to phases and milestones are made in the store, outside its lock;       *)
(* PostgreSQL hands out a copy and keeps the last one written.             *)
(* Allocations are replaced as a list: under the lock, or in a transaction *)
(* of PostgreSQL at READ COMMITTED whose errors are not looked at.         *)
(***************************************************************************)
EXTENDS Stores, FiniteSets

CONSTANTS
    Phases,        \* the phases of the roadmap
    Milestones,    \* milestone ids, each of one phase
    FirstPhase,    \* DefaultRoadmap's current phase
    OtherPhase,    \* a name that is none of its phases, which no handler refuses
    Categories,    \* categories of allocations
    Lists,         \* Lists[l]: the categories of the list l that clients send
    Writers,       \* handlers in progress (bound: how many coexist)
    NoList         \* no list was stored yet

ASSUME PlansAssumption ==
    /\ FirstPhase \in Phases
    /\ OtherPhase \notin Phases
    /\ NoList \notin DOMAIN Lists
    /\ \A l \in DOMAIN Lists : Lists[l] \subseteq Categories /\ Lists[l] # {}

VARIABLES
    current,    \* the roadmap's CurrentPhase
    active,     \* the phases whose Active is set
    done,       \* the milestones whose Completed is set
    step,       \* step[w]: the call a handler makes next
    task,       \* task[w]: what its client sent
    copied,     \* copied[w]: the roadmap it read, where that is a copy
    todo,       \* todo[w]: phases whose Active it has still to set, in memory
    table,      \* the rows of the allocations: <<list, category>>
    doomed,     \* doomed[w]: the rows a transaction saw when its DELETE began
    locked,     \* locked[w]: the rows it has deleted, not committed yet
    adding,     \* adding[w]: the rows it has inserted, not committed yet
    alone,      \* alone[w]: history: no other change of the roadmap overlapped
    raced,      \* history: one has, since a phase was last advanced alone
    told,       \* history: the milestones their last answered update completed
    doubt,      \* history: the milestones an overlap may have left otherwise
    crossed,    \* history: a list was sent while another was being stored
    latest      \* history: the list answered last

planVars == <<backend, current, active, done, step, task, copied, todo, table, doomed,
              locked, adding, alone, raced, told, doubt, crossed, latest>>
roadmap == <<current, active, done>>
writing == <<step, task, copied, todo>>
allocating == <<doomed, locked, adding>>
roadmapHistory == <<alone, raced, told, doubt>>
listHistory == <<crossed, latest>>
planHistory == <<roadmapHistory, listHistory>>

-----------------------------------------------------------------------------
(* Data *)

Named == Phases \cup {OtherPhase}
Advances == [kind : {"advance"}, phase : Named]
Updates == [kind : {"milestone"}, milestone : Milestones, completed : BOOLEAN]
Settings == [kind : {"allocate"}, list : DOMAIN Lists]
Tasks == Advances \cup Updates \cup Settings
Roadmaps == [current : Named, active : SUBSET Phases, done : SUBSET Milestones]

RowsOf(l) == {l} \X Lists[l]
Rows == UNION {RowsOf(l) : l \in DOMAIN Lists}
CategoriesOf(rows) == {row[2] : row \in rows}

\* What the API shows.
GetRoadmap == [current |-> current, active |-> active, done |-> done]
GetAllocations == table
NoTask == [kind |-> "none"]
Initial == [current |-> FirstPhase, active |-> {FirstPhase}, done |-> {}]

PlansInit ==
    /\ current = FirstPhase
    /\ active = {FirstPhase}
    /\ done = {}
    /\ step = [w \in Writers |-> "free"]
    /\ task = [w \in Writers |-> NoTask]
    /\ copied = [w \in Writers |-> Initial]
    /\ todo = [w \in Writers |-> {}]
    /\ table = {}
    /\ doomed = [w \in Writers |-> {}]
    /\ locked = [w \in Writers |-> {}]
    /\ adding = [w \in Writers |-> {}]
    /\ alone = [w \in Writers |-> FALSE]
    /\ raced = FALSE
    /\ told = {}
    /\ doubt = {}
    /\ crossed = FALSE
    /\ latest = NoList

Busy(kinds) == {w \in Writers : task[w].kind \in kinds}
Planning == {"advance", "milestone"}

Answer(w) ==
    /\ step' = [step EXCEPT ![w] = "free"]
    /\ task' = [task EXCEPT ![w] = NoTask]

-----------------------------------------------------------------------------
(* The roadmap *)

\* Milestones that a change loses or reorders when it overlaps the others:
\* all in PostgreSQL, one that both update in memory.
Confused(t) ==
    IF Busy(Planning) = {} THEN {}
    ELSE IF backend = "postgres" THEN Milestones
    ELSE {k \in Milestones : t.kind = "milestone" /\ t.milestone = k
             /\ \E v \in Busy({"milestone"}) : task[v].milestone = k}

\* GetRoadmap: from here on the handler works on what it returned.
ReadRoadmap(w, t) ==
    /\ step[w] = "free"
    /\ step' = [step EXCEPT ![w] = "change"]
    /\ task' = [task EXCEPT ![w] = t]
    /\ copied' = [copied EXCEPT ![w] = GetRoadmap]
    /\ todo' = [todo EXCEPT ![w] = IF t.kind = "advance" THEN Phases ELSE {}]
    /\ alone' = [v \in Writers |-> v = w /\ Busy(Planning) = {}]
    /\ raced' = (raced \/ Busy(Planning) # {})
    /\ doubt' = doubt \cup Confused(t)
    /\ UNCHANGED <<backend, roadmap, table, allocating, told, listHistory>>

AdvancedTo(r, p) == [r EXCEPT !.current = p, !.active = {p} \cap Phases]
MarkedOn(r, t) ==
    [r EXCEPT !.done = IF t.completed THEN @ \cup {t.milestone} ELSE @ \ {t.milestone}]

\* The copy of PostgreSQL is the handler's own.
ChangeCopy(w) ==
    /\ backend = "postgres"
    /\ step[w] = "change"
    /\ copied' = [copied EXCEPT ![w] = IF task[w].kind = "advance"
                                       THEN AdvancedTo(@, task[w].phase)
                                       ELSE MarkedOn(@, task[w])]
    /\ step' = [step EXCEPT ![w] = "write"]
    /\ UNCHANGED <<backend, roadmap, task, todo, table, allocating, planHistory>>

\* Wrong: the name that was sent becomes active as well.
SetActiveNamed(w, p) ==
    /\ backend = "memory"
    /\ step[w] = "change"
    /\ p \in todo[w]
    /\ active' = (active \ {p}) \cup {task[w].phase}
    /\ todo' = [todo EXCEPT ![w] = @ \ {p}]
    /\ UNCHANGED <<backend, current, done, step, task, copied, table, allocating, planHistory>>

\* handleAdvancePhase in memory: the loop sets Active in the phases of the
\* store, one after the other, without its lock;
SetActive(w, p) ==
    /\ backend = "memory"
    /\ step[w] = "change"
    /\ p \in todo[w]
    /\ active' = IF p = task[w].phase THEN active \cup {p} ELSE active \ {p}
    /\ todo' = [todo EXCEPT ![w] = @ \ {p}]
    /\ UNCHANGED <<backend, current, done, step, task, copied, table, allocating, planHistory>>

\* Wrong: a milestone that is not completed is left alone.
SetMilestoneOnly(w) ==
    /\ backend = "memory"
    /\ step[w] = "change"
    /\ task[w].kind = "milestone"
    /\ done' = done \cup {k \in {task[w].milestone} : task[w].completed}
    /\ step' = [step EXCEPT ![w] = "write"]
    /\ UNCHANGED <<backend, current, active, task, copied, todo, table, allocating, planHistory>>

\* handleUpdateMilestone likewise.
SetMilestone(w) ==
    /\ backend = "memory"
    /\ step[w] = "change"
    /\ task[w].kind = "milestone"
    /\ done' = IF task[w].completed THEN done \cup {task[w].milestone}
                                    ELSE done \ {task[w].milestone}
    /\ step' = [step EXCEPT ![w] = "write"]
    /\ UNCHANGED <<backend, current, active, task, copied, todo, table, allocating, planHistory>>

AdvanceSet(w) ==
    /\ backend = "memory"
    /\ step[w] = "change"
    /\ task[w].kind = "advance"
    /\ todo[w] = {}
    /\ copied' = [copied EXCEPT ![w].current = task[w].phase]
    /\ step' = [step EXCEPT ![w] = "write"]
    /\ UNCHANGED <<backend, roadmap, task, todo, table, allocating, planHistory>>

\* A change that nothing overlapped has put right what it changed.
Settled(w) ==
    /\ alone' = [alone EXCEPT ![w] = FALSE]
    /\ raced' = (raced /\ ~(task[w].kind = "advance" /\ alone[w]))
    /\ told' = IF task[w].kind # "milestone" THEN told
               ELSE IF task[w].completed THEN told \cup {task[w].milestone}
               ELSE told \ {task[w].milestone}
    /\ doubt' = IF task[w].kind = "milestone" /\ alone[w] THEN doubt \ {task[w].milestone}
                ELSE doubt

\* Wrong: only the current phase is written back.
WriteCurrentOnly(w) ==
    /\ step[w] = "write"
    /\ current' = copied[w].current
    /\ UNCHANGED <<active, done>>
    /\ copied' = [copied EXCEPT ![w] = Initial]
    /\ Settled(w)
    /\ Answer(w)
    /\ UNCHANGED <<backend, todo, table, allocating, listHistory>>

\* UpdateRoadmap: the struct, which in memory has the store's own slices.
WriteRoadmap(w) ==
    /\ step[w] = "write"
    /\ current' = copied[w].current
    /\ IF backend = "postgres"
       THEN active' = copied[w].active /\ done' = copied[w].done
       ELSE UNCHANGED <<active, done>>
    /\ copied' = [copied EXCEPT ![w] = Initial]
    /\ Settled(w)
    /\ Answer(w)
    /\ UNCHANGED <<backend, todo, table, allocating, listHistory>>

-----------------------------------------------------------------------------
(* The allocations *)

\* Store.SetAllocations: the slice of the request becomes the store's.
AllocateInMemory(l) ==
    /\ backend = "memory"
    /\ table' = RowsOf(l)
    /\ latest' = l
    /\ UNCHANGED <<backend, roadmap, writing, allocating, roadmapHistory, crossed>>

\* PGStore.SetAllocations: Begin, and the DELETE with the rows it can see.
BeginAllocate(w, l) ==
    /\ backend = "postgres"
    /\ step[w] = "free"
    /\ step' = [step EXCEPT ![w] = "delete"]
    /\ task' = [task EXCEPT ![w] = [kind |-> "allocate", list |-> l]]
    /\ doomed' = [doomed EXCEPT ![w] = table]
    /\ crossed' = (Busy({"allocate"}) # {})
    /\ UNCHANGED <<backend, roadmap, copied, todo, table, locked, adding, roadmapHistory, latest>>

\* Wrong: only the rows that the new list replaces are deleted.
DeleteReplaced(w) ==
    /\ step[w] = "delete"
    /\ \A v \in Writers \ {w} : locked[v] \cap doomed[w] = {}
    /\ locked' = [locked EXCEPT ![w] = {row \in doomed[w] \cap table : row[2] \in Lists[task[w].list]}]
    /\ step' = [step EXCEPT ![w] = "insert"]
    /\ UNCHANGED <<backend, roadmap, task, copied, todo, table, doomed, adding, planHistory>>

\* It waits for a transaction that has deleted one of them, and skips what
\* that one removed; rows inserted since it began it does not see.
DeleteLists(w) ==
    /\ step[w] = "delete"
    /\ \A v \in Writers \ {w} : locked[v] \cap doomed[w] = {}
    /\ locked' = [locked EXCEPT ![w] = doomed[w] \cap table]
    /\ step' = [step EXCEPT ![w] = "insert"]
    /\ UNCHANGED <<backend, roadmap, task, copied, todo, table, doomed, adding, planHistory>>

\* An INSERT that meets a committed row of its category fails, and with it
\* the transaction; one that meets a row of another transaction waits, and
\* two that wait for each other are a deadlock that ends one of them.
InsertList(w) ==
    /\ step[w] = "insert"
    /\ IF CategoriesOf(table \ locked[w]) \cap Lists[task[w].list] # {}
       THEN /\ step' = [step EXCEPT ![w] = "aborted"]
            /\ UNCHANGED adding
       ELSE \/ /\ \A v \in Writers \ {w} : CategoriesOf(adding[v]) \cap Lists[task[w].list] = {}
               /\ adding' = [adding EXCEPT ![w] = RowsOf(task[w].list)]
               /\ step' = [step EXCEPT ![w] = "commit"]
            \/ /\ \E v \in Writers \ {w} : CategoriesOf(adding[v]) \cap Lists[task[w].list] # {}
               /\ step' = [step EXCEPT ![w] = "aborted"]
               /\ UNCHANGED adding
    /\ UNCHANGED <<backend, roadmap, task, copied, todo, table, doomed, locked, planHistory>>

\* Commit, which rolls back a transaction that has failed; the client is
\* answered with its list in either case.
CommitList(w) ==
    /\ step[w] \in {"commit", "aborted"}
    /\ table' = IF step[w] = "commit" THEN (table \ locked[w]) \cup adding[w] ELSE table
    /\ doomed' = [doomed EXCEPT ![w] = {}]
    /\ locked' = [locked EXCEPT ![w] = {}]
    /\ adding' = [adding EXCEPT ![w] = {}]
    /\ latest' = task[w].list
    /\ Answer(w)
    /\ UNCHANGED <<backend, roadmap, copied, todo, roadmapHistory, crossed>>

RoadmapStep ==
    \E w \in Writers :
        \/ \E t \in Advances \cup Updates : ReadRoadmap(w, t)
        \/ ChangeCopy(w)
        \/ \E p \in Phases : SetActive(w, p)
        \/ SetMilestone(w) \/ AdvanceSet(w) \/ WriteRoadmap(w)

AllocationsStep ==
    \/ \E l \in DOMAIN Lists : AllocateInMemory(l)
    \/ \E w \in Writers :
          \/ \E l \in DOMAIN Lists : BeginAllocate(w, l)
          \/ DeleteLists(w) \/ InsertList(w) \/ CommitList(w)

-----------------------------------------------------------------------------

\* The variables hold values of their types.
PlansTypeOK ==
    /\ backend \in Backends
    /\ current \in Named
    /\ active \subseteq Phases
    /\ done \subseteq Milestones
    /\ step \in [Writers -> {"free", "change", "write", "delete", "insert", "commit", "aborted"}]
    /\ task \in [Writers -> Tasks \cup {NoTask}]
    /\ copied \in [Writers -> Roadmaps]
    /\ todo \in [Writers -> SUBSET Phases]
    /\ table \subseteq Rows
    /\ doomed \in [Writers -> SUBSET Rows]
    /\ locked \in [Writers -> SUBSET Rows]
    /\ adding \in [Writers -> SUBSET Rows]
    /\ alone \in [Writers -> BOOLEAN]
    /\ raced \in BOOLEAN
    /\ doubt \subseteq Milestones
    /\ told \subseteq Milestones
    /\ crossed \in BOOLEAN
    /\ latest \in DOMAIN Lists \cup {NoList}

\* The phase that is active is the current one, or none when that is a name
\* the roadmap does not have: always in PostgreSQL, where a change that races
\* another is lost as a whole; in memory whenever no change is in progress
\* and none has raced since a phase advanced alone.
RoadmapCoherent ==
    (backend = "postgres" \/ (Busy(Planning) = {} /\ ~raced)) => active = {current} \cap Phases

\* A milestone is as its last answered update left it, in memory as long as
\* no two updates of it overlapped, in PostgreSQL as long as no change of the
\* roadmap overlapped another, in either until it is next updated alone.
MilestonesKept ==
    Busy(Planning) = {} => \A k \in Milestones \ doubt : k \in done <=> k \in told

\* The table holds whole lists: none is ever half replaced by another.
\* They are those of the list answered last and nothing else, unless that one
\* was sent while another was being stored.
AllocationsHold ==
    /\ \A l \in DOMAIN Lists : RowsOf(l) \cap GetAllocations \in {{}, RowsOf(l)}
    /\ Busy({"allocate"}) = {} /\ ~crossed /\ latest # NoList => GetAllocations = RowsOf(latest)
=============================================================================
