--------------------------- MODULE EngineProtocol ---------------------------
(***************************************************************************)
(* How primarch and the trading engines agree on who is halted: engines    *)
(* register their marines and report them in heartbeats, a kill switch     *)
(* queues commands, the answer to a heartbeat carries them to the engine,  *)
(* and the engine reports their completion.  Handlers run concurrently, a  *)
(* step is one call on the store; requests and answers may be lost, and    *)
(* primarch may crash between any two steps (rows and commands are in      *)
(* PostgreSQL; the in-memory store has the same steps and no past).        *)
(*                                                                         *)
(* The engines are not part of the repository: EngineStart, Beat, Answer   *)
(* and LoseAnswer model what the protocol of the handlers lets them do.    *)
(***************************************************************************)
EXTENDS Naturals, FiniteSets

CONSTANTS
    Marines, Companies, Fortresses, Engines,
    CompanyOf,    \* marine -> company
    FortressOf,   \* company -> fortress
    EngineOf,     \* fortress -> engine, the engine_id of its metadata
    Commands,     \* command ids (bound: how many are ever queued)
    Requests,     \* HTTP handlers in progress (bound: how many coexist)
    None,
    Api,          \* the operations that are used
    KillScopes,   \* the scopes a kill switch is pulled for
    MaxCrashes    \* bound: crashes of primarch

Scopes == {"imperium"} \cup Fortresses \cup Companies \cup Marines
Operations == {"kill", "enable", "disable", "start"}
Reports == {"dormant", "disabled"}
Outcomes == {"completed", "failed"}

ASSUME ProtocolAssumption ==
    /\ CompanyOf \in [Marines -> Companies]
    /\ FortressOf \in [Companies -> Fortresses]
    /\ EngineOf \in [Fortresses -> Engines]
    /\ None \notin Marines \cup Engines \cup Commands \cup Scopes
    /\ "imperium" \notin Fortresses \cup Companies \cup Marines
    /\ Fortresses \cap Companies = {}
    /\ Marines \cap (Fortresses \cup Companies) = {}
    /\ Api \subseteq Operations
    /\ KillScopes \subseteq Scopes
    /\ MaxCrashes \in Nat

VARIABLES
    status, enabled,           \* the marine rows
    cmd, addressee, scopeOf,   \* the command rows; "none": not queued yet
    \* the handlers in progress
    stage,      \* the call the handler makes next
    caller,     \* the engine that sent the request
    subject,    \* the marine whose row it has read, or a command's id
    copy,       \* Schedule.Enabled in the copy it keeps of that row
    report,     \* the marines a heartbeat reports as disabled
    todo,       \* marines still to be written, or engines still to be told
    scope,      \* the scope of a kill switch
    listed,     \* the commands a heartbeat has listed
    toAck,      \* those that it saw pending and has not written back yet
    \* the engines
    stopped,    \* the marines that their engine has stopped
    inbox,      \* commands an engine has received and not answered yet
    crashes,
    halted      \* history: was m killed or disabled since it was last configured,
                \* with no older copy of its row around ("sure") or with one ("unsure")

rows == <<status, enabled>>
commands == <<cmd, addressee, scopeOf>>
handlers == <<stage, caller, subject, copy, report, todo, scope, listed, toAck>>
engines == <<stopped, inbox>>
vars == <<rows, commands, handlers, engines, crashes, halted>>

-----------------------------------------------------------------------------
(* Scopes *)

RunsOn(m) == EngineOf[FortressOf[CompanyOf[m]]]
MarinesOf(e) == {m \in Marines : RunsOn(m) = e}

\* ActivateKillSwitch: the marines of a scope.
Hit(s) == {m \in Marines : s \in {"imperium", m, CompanyOf[m], FortressOf[CompanyOf[m]]}}

\* engineIDsForScope: fortresses and companies lead to an engine, marines do not.
EngineIDsForScope(s) ==
    {EngineOf[f] : f \in {g \in Fortresses :
        s \in {"imperium", g} \/ (s \in Companies /\ FortressOf[s] = g)}}

\* Wrong: what has been acked is not handed out again.
PendingForOnce(e) == {c \in Commands : addressee[c] = e /\ cmd[c] = "pending"}

\* Wrong: the engine is not asked for.
PendingForAnyone(e) == {c \in Commands : cmd[c] \in {"pending", "acked"}}

\* ListPendingCommands
PendingFor(e) == {c \in Commands : addressee[c] = e /\ cmd[c] \in {"pending", "acked"}}

\* Handlers that will write a row of m with Schedule.Enabled set.
Reviving(m) == {r \in Requests :
    /\ subject[r] = m
    /\ stage[r] = "enableWrite" \/ (stage[r] = "beatWrite" /\ copy[r])}

HaltOf(m) == IF Reviving(m) = {} THEN "sure" ELSE "unsure"

Init ==
    /\ status \in [Marines -> Reports]
    /\ enabled \in [Marines -> BOOLEAN]
    /\ cmd = [c \in Commands |-> "none"]
    /\ addressee = [c \in Commands |-> None]
    /\ scopeOf = [c \in Commands |-> None]
    /\ stage = [r \in Requests |-> "free"]
    /\ caller = [r \in Requests |-> None]
    /\ subject = [r \in Requests |-> None]
    /\ copy = [r \in Requests |-> FALSE]
    /\ report = [r \in Requests |-> {}]
    /\ todo = [r \in Requests |-> {}]
    /\ scope = [r \in Requests |-> None]
    /\ listed = [r \in Requests |-> {}]
    /\ toAck = [r \in Requests |-> {}]
    /\ stopped = {}
    /\ inbox = [e \in Engines |-> {}]
    /\ crashes = 0
    /\ halted = [m \in Marines |-> "no"]

-----------------------------------------------------------------------------
(* Handlers come and go *)

Goto(r, s) == stage' = [stage EXCEPT ![r] = s]

\* A request of e for x arrives, with work w and report b.
Arrive(r, s, e, x, b, w, k) ==
    /\ stage[r] = "free"
    /\ Goto(r, s)
    /\ caller' = [caller EXCEPT ![r] = e]
    /\ subject' = [subject EXCEPT ![r] = x]
    /\ report' = [report EXCEPT ![r] = b]
    /\ todo' = [todo EXCEPT ![r] = w]
    /\ scope' = [scope EXCEPT ![r] = k]
    /\ UNCHANGED <<copy, listed, toAck>>

Return(r) ==
    /\ Goto(r, "free")
    /\ caller' = [caller EXCEPT ![r] = None]
    /\ subject' = [subject EXCEPT ![r] = None]
    /\ copy' = [copy EXCEPT ![r] = FALSE]
    /\ report' = [report EXCEPT ![r] = {}]
    /\ todo' = [todo EXCEPT ![r] = {}]
    /\ scope' = [scope EXCEPT ![r] = None]
    /\ listed' = [listed EXCEPT ![r] = {}]
    /\ toAck' = [toAck EXCEPT ![r] = {}]

WriteRow(m, s, e, h) ==
    /\ status' = [status EXCEPT ![m] = s]
    /\ enabled' = [enabled EXCEPT ![m] = e]
    /\ halted' = [halted EXCEPT ![m] = h]

\* The process dies and a new one serves the same database.
Crash ==
    /\ crashes < MaxCrashes
    /\ crashes' = crashes + 1
    /\ stage' = [r \in Requests |-> "free"]
    /\ caller' = [r \in Requests |-> None]
    /\ subject' = [r \in Requests |-> None]
    /\ copy' = [r \in Requests |-> FALSE]
    /\ report' = [r \in Requests |-> {}]
    /\ todo' = [r \in Requests |-> {}]
    /\ scope' = [r \in Requests |-> None]
    /\ listed' = [r \in Requests |-> {}]
    /\ toAck' = [r \in Requests |-> {}]
    /\ UNCHANGED <<rows, commands, engines, halted>>

-----------------------------------------------------------------------------
(* The operator *)

\* Bound: enough unused command ids for every handler that queues some.
RoomFor(s) ==
    LET unused == {c \in Commands : cmd[c] = "none"}
        owed == {p \in Requests \X Engines : stage[p[1]] = "killQueue" /\ p[2] \in todo[p[1]]}
    IN Cardinality(unused) >= Cardinality(owed) + Cardinality(EngineIDsForScope(s))

\* POST kill-switch/{scope}: the rows, then one command per engine of the scope.
Kill(r, s) ==
    /\ "kill" \in Api
    /\ RoomFor(s)
    /\ Arrive(r, "killQueue", None, None, {}, EngineIDsForScope(s), s)
    /\ status' = [m \in Marines |-> IF m \in Hit(s) THEN "disabled" ELSE status[m]]
    /\ enabled' = [m \in Marines |-> enabled[m] /\ m \notin Hit(s)]
    /\ halted' = [m \in Marines |-> IF m \in Hit(s) THEN HaltOf(m) ELSE halted[m]]
    /\ UNCHANGED <<commands, engines, crashes>>

KillQueue(r) ==
    /\ stage[r] = "killQueue"
    /\ \/ \E e \in todo[r], c \in Commands :
              /\ cmd[c] = "none"
              /\ cmd' = [cmd EXCEPT ![c] = "pending"]
              /\ addressee' = [addressee EXCEPT ![c] = e]
              /\ scopeOf' = [scopeOf EXCEPT ![c] = scope[r]]
              /\ todo' = [todo EXCEPT ![r] = @ \ {e}]
              /\ UNCHANGED <<stage, caller, subject, copy, report, scope, listed, toAck>>
       \/ /\ todo[r] = {}
          /\ Return(r)
          /\ UNCHANGED commands
    /\ UNCHANGED <<rows, engines, crashes, halted>>

\* POST enable and disable read the row and write their copy of it back; only
\* the two fields they set matter here.
Enable(r, m) ==
    /\ "enable" \in Api
    /\ Arrive(r, "enableWrite", None, m, {}, {}, None)
    /\ UNCHANGED <<rows, commands, engines, crashes, halted>>

EnableWrite(r) ==
    /\ stage[r] = "enableWrite"
    /\ WriteRow(subject[r], "dormant", TRUE, "no")
    /\ Return(r)
    /\ UNCHANGED <<commands, engines, crashes>>

Disable(r, m) ==
    /\ "disable" \in Api
    /\ Arrive(r, "disableWrite", None, m, {}, {}, None)
    /\ UNCHANGED <<rows, commands, engines, crashes, halted>>

DisableWrite(r) ==
    /\ stage[r] = "disableWrite"
    /\ WriteRow(subject[r], "disabled", FALSE, HaltOf(subject[r]))
    /\ Return(r)
    /\ UNCHANGED <<commands, engines, crashes>>

-----------------------------------------------------------------------------
(* An engine starts, or starts again, and registers its marines *)

\* The engine has forgotten what it stopped and what it was told.
EngineStart(e, r) ==
    /\ "start" \in Api
    /\ Arrive(r, "register", e, None, {}, MarinesOf(e), None)
    /\ stopped' = stopped \ MarinesOf(e)
    /\ inbox' = [inbox EXCEPT ![e] = {}]
    /\ UNCHANGED <<rows, commands, crashes, halted>>

\* Wrong: a missing status is stored as it is.
RegisterMarineNoDefault(r) ==
    /\ stage[r] = "register"
    /\ \/ \E m \in todo[r], s \in Reports \cup {""}, e \in BOOLEAN :
              /\ WriteRow(m, s, e, "no")
              /\ todo' = [todo EXCEPT ![r] = @ \ {m}]
              /\ UNCHANGED <<stage, caller, subject, copy, report, scope, listed, toAck>>
       \/ todo[r] = {} /\ Return(r) /\ UNCHANGED <<rows, halted>>
    /\ UNCHANGED <<commands, engines, crashes>>

\* Registering replaces a row that exists, with the status and schedule sent.
RegisterMarine(r) ==
    /\ stage[r] = "register"
    /\ \/ \E m \in todo[r], s \in Reports, e \in BOOLEAN :
              /\ WriteRow(m, s, e, "no")
              /\ todo' = [todo EXCEPT ![r] = @ \ {m}]
              /\ UNCHANGED <<stage, caller, subject, copy, report, scope, listed, toAck>>
       \/ /\ todo[r] = {}
          /\ Return(r)
          /\ UNCHANGED <<rows, halted>>
    /\ UNCHANGED <<commands, engines, crashes>>

-----------------------------------------------------------------------------
(* Heartbeats *)

\* The engine reports what it has stopped at the moment it sends.
Beat(e, r) ==
    /\ Arrive(r, "beatRead", e, None, stopped \cap MarinesOf(e), MarinesOf(e), None)
    /\ UNCHANGED <<rows, commands, engines, crashes, halted>>

BeatRead(r) ==
    /\ stage[r] = "beatRead"
    /\ \E m \in todo[r] :
           /\ subject' = [subject EXCEPT ![r] = m]
           /\ copy' = [copy EXCEPT ![r] = enabled[m]]
           /\ todo' = [todo EXCEPT ![r] = @ \ {m}]
    /\ Goto(r, "beatWrite")
    /\ UNCHANGED <<rows, commands, caller, report, scope, listed, toAck, engines, crashes, halted>>

\* Wrong: a marine that is reported alive is taken to be enabled.
BeatWriteEnables(r) ==
    /\ stage[r] = "beatWrite"
    /\ LET m == subject[r] IN
       WriteRow(m, IF m \in report[r] THEN "disabled" ELSE "dormant", m \notin report[r], halted[m])
    /\ Goto(r, "beatRead")
    /\ subject' = [subject EXCEPT ![r] = None]
    /\ copy' = [copy EXCEPT ![r] = FALSE]
    /\ UNCHANGED <<commands, caller, report, todo, scope, listed, toAck, engines, crashes>>

\* Wrong: a report that a marine is disabled is left to the operator.
BeatWriteIgnoresDisabled(r) ==
    /\ stage[r] = "beatWrite"
    /\ LET m == subject[r] IN
       WriteRow(m, IF m \in report[r] THEN status[m] ELSE "dormant", copy[r], halted[m])
    /\ Goto(r, "beatRead")
    /\ subject' = [subject EXCEPT ![r] = None]
    /\ copy' = [copy EXCEPT ![r] = FALSE]
    /\ UNCHANGED <<commands, caller, report, todo, scope, listed, toAck, engines, crashes>>

\* The copy goes back with the reported status and everything else as read.
BeatWrite(r) ==
    /\ stage[r] = "beatWrite"
    /\ LET m == subject[r] IN
       WriteRow(m, IF m \in report[r] THEN "disabled" ELSE "dormant", copy[r], halted[m])
    /\ Goto(r, "beatRead")
    /\ subject' = [subject EXCEPT ![r] = None]
    /\ copy' = [copy EXCEPT ![r] = FALSE]
    /\ UNCHANGED <<commands, caller, report, todo, scope, listed, toAck, engines, crashes>>

\* The answer will carry the commands listed here, pending and acked.
BeatList(r) ==
    /\ stage[r] = "beatRead"
    /\ todo[r] = {}
    /\ listed' = [listed EXCEPT ![r] = PendingFor(caller[r])]
    /\ toAck' = [toAck EXCEPT ![r] = {c \in PendingFor(caller[r]) : cmd[c] = "pending"}]
    /\ Goto(r, "beatAck")
    /\ UNCHANGED <<rows, commands, caller, subject, copy, report, todo, scope, engines, crashes,
                   halted>>

\* Wrong: the loop leaves after the first command.
BeatAckFirst(r) ==
    /\ stage[r] = "beatAck"
    /\ IF toAck[r] = {}
       THEN UNCHANGED cmd
       ELSE \E c \in toAck[r] : cmd' = [cmd EXCEPT ![c] = "acked"]
    /\ toAck' = [toAck EXCEPT ![r] = {}]
    /\ Goto(r, "beatReply")
    /\ UNCHANGED <<rows, addressee, scopeOf, caller, subject, copy, report, todo, scope, listed,
                   engines, crashes, halted>>

\* Each copy that was pending is written back acked, whatever it is by now.
BeatAck(r) ==
    /\ stage[r] = "beatAck"
    /\ \/ \E c \in toAck[r] :
              /\ cmd' = [cmd EXCEPT ![c] = "acked"]
              /\ toAck' = [toAck EXCEPT ![r] = @ \ {c}]
              /\ UNCHANGED stage
       \/ /\ toAck[r] = {}
          /\ Goto(r, "beatReply")
          /\ UNCHANGED <<cmd, toAck>>
    /\ UNCHANGED <<rows, addressee, scopeOf, caller, subject, copy, report, todo, scope, listed,
                   engines, crashes, halted>>

\* The answer reaches the engine, or is lost.
Deliver(r) ==
    /\ stage[r] = "beatReply"
    /\ inbox' = [inbox EXCEPT ![caller[r]] = @ \cup listed[r]]
    /\ Return(r)
    /\ UNCHANGED <<rows, commands, stopped, crashes, halted>>

Lose(r) ==
    /\ stage[r] = "beatReply"
    /\ Return(r)
    /\ UNCHANGED <<rows, commands, engines, crashes, halted>>

-----------------------------------------------------------------------------
(* Completion *)

\* The engine carries a command out, or fails to, and reports which.  The
\* stage of the handler is the status it will write.
Answer(e, r, c, outcome) ==
    /\ c \in inbox[e]
    /\ Arrive(r, outcome, e, c, {}, {}, None)
    /\ inbox' = [inbox EXCEPT ![e] = @ \ {c}]
    /\ stopped' = IF outcome = "completed"
                  THEN stopped \cup (Hit(scopeOf[c]) \cap MarinesOf(e))
                  ELSE stopped
    /\ UNCHANGED <<rows, commands, crashes, halted>>

\* The engine carries it out and its report is lost.
LoseAnswer(e, c) ==
    /\ c \in inbox[e]
    /\ inbox' = [inbox EXCEPT ![e] = @ \ {c}]
    /\ stopped' = stopped \cup (Hit(scopeOf[c]) \cap MarinesOf(e))
    /\ UNCHANGED <<rows, commands, handlers, crashes, halted>>

\* The status is written whatever it was.
Complete(r) ==
    /\ stage[r] \in Outcomes
    /\ cmd' = [cmd EXCEPT ![subject[r]] = stage[r]]
    /\ Return(r)
    /\ UNCHANGED <<rows, addressee, scopeOf, engines, crashes, halted>>

-----------------------------------------------------------------------------

HandlerStep(r) ==
    \/ KillQueue(r) \/ EnableWrite(r) \/ DisableWrite(r) \/ RegisterMarine(r)
    \/ BeatRead(r) \/ BeatWrite(r) \/ BeatList(r) \/ BeatAck(r)
    \/ Deliver(r) \/ Lose(r) \/ Complete(r)
OperatorStep(r) ==
    \/ \E s \in KillScopes : Kill(r, s)
    \/ \E m \in Marines : Enable(r, m) \/ Disable(r, m)
EngineStep(e) ==
    \/ \E r \in Requests :
           \/ EngineStart(e, r) \/ Beat(e, r)
           \/ \E c \in Commands, outcome \in Outcomes : Answer(e, r, c, outcome)
    \/ \E c \in Commands : LoseAnswer(e, c)

Next ==
    \/ \E r \in Requests : HandlerStep(r) \/ OperatorStep(r)
    \/ \E e \in Engines : EngineStep(e)
    \/ Crash

Spec == Init /\ [][Next]_vars

\* Handlers go on; engines beat again and again (a server has no limit on
\* handlers, so the bound on Requests never shuts one out); not every answer
\* and not every report is lost.  Operators, crashes and restarts of engines
\* need not happen.
Fairness ==
    /\ \A r \in Requests : WF_vars(HandlerStep(r))
    /\ \A e \in Engines :
           /\ SF_vars(\E r \in Requests : Beat(e, r))
           /\ SF_vars(\E r \in Requests : caller[r] = e /\ Deliver(r))
           /\ \A c \in Commands :
                  SF_vars(\E r \in Requests, outcome \in Outcomes : Answer(e, r, c, outcome))

FairSpec == Spec /\ Fairness

-----------------------------------------------------------------------------
(* Invariants *)

Stages == {"free", "killQueue", "enableWrite", "disableWrite", "register", "beatRead",
           "beatWrite", "beatAck", "beatReply"} \cup Outcomes

TypeOK ==
    /\ status \in [Marines -> Reports]
    /\ enabled \in [Marines -> BOOLEAN]
    /\ cmd \in [Commands -> {"none", "pending", "acked"} \cup Outcomes]
    /\ addressee \in [Commands -> Engines \cup {None}]
    /\ scopeOf \in [Commands -> Scopes \cup {None}]
    /\ stage \in [Requests -> Stages]
    /\ caller \in [Requests -> Engines \cup {None}]
    /\ subject \in [Requests -> Marines \cup Commands \cup {None}]
    /\ copy \in [Requests -> BOOLEAN]
    /\ report \in [Requests -> SUBSET Marines]
    /\ todo \in [Requests -> SUBSET (Marines \cup Engines)]
    /\ scope \in [Requests -> Scopes \cup {None}]
    /\ listed \in [Requests -> SUBSET Commands]
    /\ toAck \in [Requests -> SUBSET Commands]
    /\ stopped \subseteq Marines
    /\ inbox \in [Engines -> SUBSET Commands]
    /\ crashes \in 0 .. MaxCrashes
    /\ halted \in [Marines -> {"no", "sure", "unsure"}]

\* What an engine has been told is not pending any more: however heartbeats
\* overlap, are lost or die with the process, a command is marked before it
\* is handed out, so that a pending command is one no engine has seen.
DeliveredIsAcked ==
    \A e \in Engines : \A c \in inbox[e] : cmd[c] \notin {"none", "pending"}

\* The kill of a fortress or a company goes to the engine that runs all of its
\* marines: no engine acts on a scope it shares with another, or does not own.
EnginesHearTheirOwn ==
    \A e \in Engines : \A c \in inbox[e] :
        scopeOf[c] # "imperium" => Hit(scopeOf[c]) \subseteq MarinesOf(e)

\* A halt that no older copy of the row survived keeps Schedule.Enabled off:
\* no later heartbeat, whatever status it reports, turns it on again, so that
\* the marine is not scheduled after a restart.
CleanHaltStaysOff == \A m \in Marines : halted[m] = "sure" => ~enabled[m]

-----------------------------------------------------------------------------
(* Liveness, under FairSpec *)

\* Every queued command is delivered, answered and settled for good: stale
\* heartbeats may set it back to acked, but then it is delivered again, and
\* they run out, for none lists it as pending any more.
CommandsSettle ==
    \A c \in Commands : cmd[c] = "pending" ~> [](cmd[c] \in Outcomes)

\* Once an engine has completed a kill, the rows of its marines end up
\* disabled for good, past every heartbeat sent or read before (without
\* enables and engine restarts).
KillConverges ==
    \A c \in Commands, m \in Marines :
        (cmd[c] = "completed" /\ m \in Hit(scopeOf[c]) /\ RunsOn(m) = addressee[c])
            ~> [](status[m] = "disabled")

-----------------------------------------------------------------------------
(* What the repository says and the code does not do *)

\* "Queue kill_switch command for engines that manage this scope": when the
\* handler returns, the engine of every marine it hit has a command.
KillReachesItsEngines ==
    [][\A r \in Requests :
          stage[r] = "killQueue" /\ stage'[r] = "free" /\ crashes' = crashes =>
              \A m \in Hit(scope[r]) :
                  \E c \in Commands : scopeOf[c] = scope[r] /\ addressee[c] = RunsOn(m)]_vars
=============================================================================
