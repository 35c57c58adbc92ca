---------------------------- MODULE EngineProofs ----------------------------
(***************************************************************************)
(* Proofs about EngineProtocol, for any topology, any number of engines,   *)
(* commands and overlapping handlers, and any number of crashes.           *)
(***************************************************************************)
EXTENDS EngineProtocol, TLAPS

-----------------------------------------------------------------------------
(* The inductive invariant *)

\* What the stage of a handler says about its other fields.
Shape ==
    \A r \in Requests :
        /\ stage[r] \in {"enableWrite", "disableWrite", "beatWrite"} => subject[r] \in Marines
        /\ stage[r] \in Outcomes => subject[r] \in Commands
        /\ stage[r] \in {"beatRead", "beatWrite", "beatAck", "beatReply"} => caller[r] \in Engines
        /\ stage[r] \in {"beatRead", "beatWrite", "register"} => todo[r] \subseteq Marines
        /\ stage[r] = "killQueue" => /\ scope[r] \in Scopes
                                     /\ todo[r] \subseteq EngineIDsForScope(scope[r])

\* A heartbeat answers with commands that it found pending and has still to
\* mark, or that were marked before; this carries DeliveredIsAcked.
Handed ==
    \A r \in Requests :
        /\ stage[r] = "beatReply" => toAck[r] = {}
        /\ stage[r] = "beatAck" => toAck[r] \subseteq listed[r]
        /\ stage[r] \in Outcomes => cmd[subject[r]] # "none"
        /\ stage[r] \in {"beatAck", "beatReply"} =>
               \A c \in listed[r] : /\ cmd[c] # "none"
                                    /\ cmd[c] = "pending" => c \in toAck[r]

\* A command is for an engine of its scope, is listed for that engine and is
\* received by it; this carries EnginesHearTheirOwn.
Homes ==
    /\ \A c \in Commands : cmd[c] # "none" => /\ scopeOf[c] \in Scopes
                                              /\ addressee[c] \in EngineIDsForScope(scopeOf[c])
    /\ \A r \in Requests : stage[r] \in {"beatAck", "beatReply"} =>
           \A c \in listed[r] : addressee[c] = caller[r]
    /\ \A e \in Engines : \A c \in inbox[e] : addressee[c] = e

\* No heartbeat holds a copy that would lift a clean halt; this carries
\* CleanHaltStaysOff.
Copies ==
    \A m \in Marines : halted[m] = "sure" =>
        \A r \in Requests : stage[r] = "beatWrite" /\ subject[r] = m => ~copy[r]

Inv ==
    /\ TypeOK
    /\ Shape
    /\ Handed
    /\ DeliveredIsAcked
    /\ Homes
    /\ Copies
    /\ CleanHaltStaysOff

-----------------------------------------------------------------------------
(* Scopes *)

\* The engines and the marines of a scope are typed.
LEMMA ScopeTypes ==
    ASSUME NEW s \in Scopes
    PROVE  EngineIDsForScope(s) \subseteq Engines /\ Hit(s) \subseteq Marines
  BY ProtocolAssumption DEF EngineIDsForScope, Hit

\* A fortress or a company has at most one engine, and it runs every marine of
\* the scope: engineIDsForScope and ActivateKillSwitch agree.  For the scope of a single
\* marine there is no engine at all.
LEMMA ScopeHome ==
    ASSUME NEW s \in Scopes, s # "imperium", NEW e \in EngineIDsForScope(s)
    PROVE  Hit(s) \subseteq MarinesOf(e)
  <1>1. PICK f \in Fortresses : e = EngineOf[f] /\ (s = f \/ (s \in Companies /\ FortressOf[s] = f))
    BY DEF EngineIDsForScope
  <1> SUFFICES ASSUME NEW m \in Hit(s) PROVE RunsOn(m) = e
    BY DEF MarinesOf, Hit
  <1>2. /\ m \in Marines
        /\ s = m \/ s = CompanyOf[m] \/ s = FortressOf[CompanyOf[m]]
        /\ CompanyOf[m] \in Companies
        /\ FortressOf[CompanyOf[m]] \in Fortresses
    BY ProtocolAssumption DEF Hit
  <1>3. CASE s = f
    <2>1. s = FortressOf[CompanyOf[m]]
      BY <1>2, <1>3, ProtocolAssumption
    <2> QED
      BY <1>1, <1>3, <2>1 DEF RunsOn
  <1>4. CASE s \in Companies /\ FortressOf[s] = f
    <2>1. s = CompanyOf[m]
      BY <1>2, <1>4, ProtocolAssumption
    <2> QED
      BY <1>1, <1>4, <2>1 DEF RunsOn
  <1> QED
    BY <1>1, <1>3, <1>4

-----------------------------------------------------------------------------
(* The invariant holds *)

\* The initial state satisfies the invariant.
LEMMA InitInv == Init => Inv
  <1> SUFFICES ASSUME Init PROVE Inv
    OBVIOUS
  <1>1. TypeOK
    BY ProtocolAssumption DEF Init, TypeOK, Stages
  <1>2. Shape /\ Handed /\ DeliveredIsAcked /\ Homes
    BY DEF Init, Shape, Handed, DeliveredIsAcked, Homes, Outcomes
  <1>3. Copies /\ CleanHaltStaysOff
    BY DEF Init, Copies, CleanHaltStaysOff
  <1> QED
    BY <1>1, <1>2, <1>3 DEF Inv

\* Every step preserves the types.
LEMMA TypeNext == Inv /\ [Next]_vars => TypeOK'
  <1> SUFFICES ASSUME Inv, [Next]_vars PROVE TypeOK'
    OBVIOUS
  <1> USE ProtocolAssumption DEF Inv, TypeOK, Shape, Stages, Outcomes, Reports, rows, commands, handlers, engines
  <1>1. ASSUME NEW r \in Requests, KillQueue(r) PROVE TypeOK'
    <2>1. CASE todo[r] = {} /\ Return(r) /\ UNCHANGED commands
      BY <1>1, <2>1 DEF KillQueue, Goto, Return
    <2>2. ASSUME NEW e \in todo[r], NEW c \in Commands,
                 /\ cmd[c] = "none"
                 /\ cmd' = [cmd EXCEPT ![c] = "pending"]
                 /\ addressee' = [addressee EXCEPT ![c] = e]
                 /\ scopeOf' = [scopeOf EXCEPT ![c] = scope[r]]
                 /\ todo' = [todo EXCEPT ![r] = @ \ {e}]
                 /\ UNCHANGED <<stage, caller, subject, copy, report, scope, listed, toAck>>
          PROVE  TypeOK'
      <3>1. e \in Engines /\ scope[r] \in Scopes
        BY <1>1, ScopeTypes DEF KillQueue
      <3> QED
        BY <1>1, <2>2, <3>1 DEF KillQueue
    <2> QED
      BY <1>1, <2>1, <2>2 DEF KillQueue
  <1>2. ASSUME NEW r \in Requests, EnableWrite(r) PROVE TypeOK'
    BY <1>2 DEF EnableWrite, WriteRow, Return, Goto
  <1>3. ASSUME NEW r \in Requests, DisableWrite(r) PROVE TypeOK'
    BY <1>3 DEF DisableWrite, WriteRow, Return, Goto, HaltOf
  <1>4. ASSUME NEW r \in Requests, RegisterMarine(r) PROVE TypeOK'
    <2>1. CASE todo[r] = {} /\ Return(r) /\ UNCHANGED <<rows, halted>>
      BY <1>4, <2>1 DEF RegisterMarine, Goto, Return
    <2>2. CASE \E m \in todo[r], s \in Reports, e \in BOOLEAN :
                   /\ WriteRow(m, s, e, "no")
                   /\ todo' = [todo EXCEPT ![r] = @ \ {m}]
                   /\ UNCHANGED <<stage, caller, subject, copy, report, scope, listed, toAck>>
      <3>1. PICK m \in todo[r], s \in Reports, e \in BOOLEAN :
                   /\ WriteRow(m, s, e, "no")
                   /\ todo' = [todo EXCEPT ![r] = @ \ {m}]
                   /\ UNCHANGED <<stage, caller, subject, copy, report, scope, listed, toAck>>
        BY <2>2
      <3> QED
        BY <1>4, <3>1 DEF RegisterMarine, WriteRow
    <2> QED
      BY <1>4, <2>1, <2>2 DEF RegisterMarine
  <1>5. ASSUME NEW r \in Requests, BeatRead(r) PROVE TypeOK'
    BY <1>5 DEF BeatRead, Goto
  <1>6. ASSUME NEW r \in Requests, BeatWrite(r) PROVE TypeOK'
    BY <1>6, SMTT(60) DEF BeatWrite, WriteRow, Goto
  <1>7. ASSUME NEW r \in Requests, BeatList(r) PROVE TypeOK'
    BY <1>7 DEF BeatList, Goto, PendingFor
  <1>8. ASSUME NEW r \in Requests, BeatAck(r) PROVE TypeOK'
    <2>1. CASE toAck[r] = {} /\ Goto(r, "beatReply") /\ UNCHANGED <<cmd, toAck>>
      BY <1>8, <2>1 DEF BeatAck, Goto
    <2>2. ASSUME NEW c \in toAck[r],
                 /\ cmd' = [cmd EXCEPT ![c] = "acked"]
                 /\ toAck' = [toAck EXCEPT ![r] = @ \ {c}]
                 /\ UNCHANGED stage
          PROVE  TypeOK'
      BY <1>8, <2>2 DEF BeatAck
    <2> QED
      BY <1>8, <2>1, <2>2 DEF BeatAck
  <1>9. ASSUME NEW r \in Requests, Deliver(r) PROVE TypeOK'
    BY <1>9 DEF Deliver, Return, Goto
  <1>10. ASSUME NEW r \in Requests, Lose(r) PROVE TypeOK'
    BY <1>10 DEF Lose, Return, Goto
  <1>11. ASSUME NEW r \in Requests, Complete(r) PROVE TypeOK'
    BY <1>11 DEF Complete, Return, Goto
  <1>12. ASSUME NEW r \in Requests, NEW s \in KillScopes, Kill(r, s) PROVE TypeOK'
    BY <1>12, ScopeTypes DEF Kill, Arrive, Goto, HaltOf
  <1>13. ASSUME NEW r \in Requests, NEW m \in Marines, Enable(r, m) PROVE TypeOK'
    BY <1>13 DEF Enable, Arrive, Goto
  <1>14. ASSUME NEW r \in Requests, NEW m \in Marines, Disable(r, m) PROVE TypeOK'
    BY <1>14 DEF Disable, Arrive, Goto
  <1>15. ASSUME NEW r \in Requests, NEW e \in Engines, EngineStart(e, r) PROVE TypeOK'
    BY <1>15 DEF EngineStart, Arrive, Goto, MarinesOf
  <1>16. ASSUME NEW r \in Requests, NEW e \in Engines, Beat(e, r) PROVE TypeOK'
    BY <1>16 DEF Beat, Arrive, Goto, MarinesOf
  <1>17. ASSUME NEW r \in Requests, NEW e \in Engines, NEW c \in Commands, NEW outcome \in Outcomes, Answer(e, r, c, outcome) PROVE TypeOK'
    BY <1>17 DEF Answer, Arrive, Goto, MarinesOf
  <1>18. ASSUME NEW e \in Engines, NEW c \in Commands, LoseAnswer(e, c) PROVE TypeOK'
    BY <1>18 DEF LoseAnswer, MarinesOf
  <1>19. ASSUME Crash PROVE TypeOK'
    BY <1>19 DEF Crash
  <1>20. CASE UNCHANGED vars
    BY <1>20 DEF vars
  <1> HIDE DEF Inv, TypeOK, Shape, Stages, Outcomes, Reports, rows, commands, handlers, engines
  <1> QED
    BY <1>1, <1>2, <1>3, <1>4, <1>5, <1>6, <1>7, <1>8, <1>9, <1>10, <1>11, <1>12, <1>13, <1>14, <1>15, <1>16, <1>17, <1>18, <1>19, <1>20, SMTT(60) DEF Next, HandlerStep, OperatorStep, EngineStep

\* Every step preserves the shape of the handlers.
LEMMA ShapeNext == Inv /\ [Next]_vars => Shape'
  <1> SUFFICES ASSUME Inv, [Next]_vars PROVE Shape'
    OBVIOUS
  <1> USE ProtocolAssumption DEF Inv, TypeOK, Shape, Outcomes, rows, commands, handlers, engines
  <1>1. ASSUME NEW r \in Requests, KillQueue(r) PROVE Shape'
    BY <1>1, SMTT(60) DEF KillQueue, Goto, Return
  <1>2. ASSUME NEW r \in Requests, EnableWrite(r) PROVE Shape'
    BY <1>2 DEF EnableWrite, WriteRow, Return, Goto
  <1>3. ASSUME NEW r \in Requests, DisableWrite(r) PROVE Shape'
    BY <1>3 DEF DisableWrite, WriteRow, Return, Goto
  <1>4. ASSUME NEW r \in Requests, RegisterMarine(r) PROVE Shape'
    BY <1>4 DEF RegisterMarine, WriteRow, Return, Goto
  <1>5. ASSUME NEW r \in Requests, BeatRead(r) PROVE Shape'
    BY <1>5 DEF BeatRead, Goto
  <1>6. ASSUME NEW r \in Requests, BeatWrite(r) PROVE Shape'
    BY <1>6, SMTT(60) DEF BeatWrite, WriteRow, Goto
  <1>7. ASSUME NEW r \in Requests, BeatList(r) PROVE Shape'
    BY <1>7 DEF BeatList, Goto
  <1>8. ASSUME NEW r \in Requests, BeatAck(r) PROVE Shape'
    BY <1>8, SMTT(60) DEF BeatAck, Goto
  <1>9. ASSUME NEW r \in Requests, Deliver(r) PROVE Shape'
    BY <1>9 DEF Deliver, Return, Goto
  <1>10. ASSUME NEW r \in Requests, Lose(r) PROVE Shape'
    BY <1>10 DEF Lose, Return, Goto
  <1>11. ASSUME NEW r \in Requests, Complete(r) PROVE Shape'
    BY <1>11 DEF Complete, Return, Goto
  <1>12. ASSUME NEW r \in Requests, NEW s \in KillScopes, Kill(r, s) PROVE Shape'
    BY <1>12 DEF Kill, Arrive, Goto
  <1>13. ASSUME NEW r \in Requests, NEW m \in Marines, Enable(r, m) PROVE Shape'
    BY <1>13 DEF Enable, Arrive, Goto
  <1>14. ASSUME NEW r \in Requests, NEW m \in Marines, Disable(r, m) PROVE Shape'
    BY <1>14 DEF Disable, Arrive, Goto
  <1>15. ASSUME NEW r \in Requests, NEW e \in Engines, EngineStart(e, r) PROVE Shape'
    BY <1>15 DEF EngineStart, Arrive, Goto, MarinesOf
  <1>16. ASSUME NEW r \in Requests, NEW e \in Engines, Beat(e, r) PROVE Shape'
    BY <1>16 DEF Beat, Arrive, Goto, MarinesOf
  <1>17. ASSUME NEW r \in Requests, NEW e \in Engines, NEW c \in Commands, NEW outcome \in Outcomes, Answer(e, r, c, outcome) PROVE Shape'
    BY <1>17 DEF Answer, Arrive, Goto
  <1>18. ASSUME NEW e \in Engines, NEW c \in Commands, LoseAnswer(e, c) PROVE Shape'
    BY <1>18 DEF LoseAnswer
  <1>19. ASSUME Crash PROVE Shape'
    BY <1>19 DEF Crash
  <1>20. CASE UNCHANGED vars
    BY <1>20 DEF vars
  <1> HIDE DEF Inv, TypeOK, Shape, Outcomes, rows, commands, handlers, engines
  <1> QED
    BY <1>1, <1>2, <1>3, <1>4, <1>5, <1>6, <1>7, <1>8, <1>9, <1>10, <1>11, <1>12, <1>13, <1>14, <1>15, <1>16, <1>17, <1>18, <1>19, <1>20, SMTT(60) DEF Next, HandlerStep, OperatorStep, EngineStep

\* Nothing becomes pending but a fresh id, and what is handed out was marked.
LEMMA HandedNext == Inv /\ [Next]_vars => (Handed /\ DeliveredIsAcked)'
  <1> SUFFICES ASSUME Inv, [Next]_vars PROVE (Handed /\ DeliveredIsAcked)'
    OBVIOUS
  <1> USE DEF Inv, TypeOK, Shape, Handed, DeliveredIsAcked, Outcomes, rows, commands, handlers, engines
  <1>1. ASSUME NEW r \in Requests, KillQueue(r) PROVE (Handed /\ DeliveredIsAcked)'
    <2>1. CASE todo[r] = {} /\ Return(r) /\ UNCHANGED commands
      BY <1>1, <2>1, SMTT(60) DEF KillQueue, Goto, Return
    <2>2. ASSUME NEW e \in todo[r], NEW c \in Commands,
                 /\ cmd[c] = "none"
                 /\ cmd' = [cmd EXCEPT ![c] = "pending"]
                 /\ addressee' = [addressee EXCEPT ![c] = e]
                 /\ scopeOf' = [scopeOf EXCEPT ![c] = scope[r]]
                 /\ todo' = [todo EXCEPT ![r] = @ \ {e}]
                 /\ UNCHANGED <<stage, caller, subject, copy, report, scope, listed, toAck>>
          PROVE  (Handed /\ DeliveredIsAcked)'
      <3>1. UNCHANGED <<stage, subject, listed, toAck, inbox>>
        BY <1>1, <2>2 DEF KillQueue
      <3>2. \A d \in Commands : d # c => cmd'[d] = cmd[d]
        BY <2>2
      <3>3. DeliveredIsAcked'
        BY <2>2, <3>1, <3>2, SMTT(60)
      <3>4. Handed'
        BY <2>2, <3>1, <3>2, SMTT(60)
      <3> QED
        BY <3>3, <3>4
    <2> QED
      BY <1>1, <2>1, <2>2 DEF KillQueue
  <1>2. ASSUME NEW r \in Requests, EnableWrite(r) PROVE (Handed /\ DeliveredIsAcked)'
    BY <1>2 DEF EnableWrite, Return, Goto
  <1>3. ASSUME NEW r \in Requests, DisableWrite(r) PROVE (Handed /\ DeliveredIsAcked)'
    BY <1>3 DEF DisableWrite, Return, Goto
  <1>4. ASSUME NEW r \in Requests, RegisterMarine(r) PROVE (Handed /\ DeliveredIsAcked)'
    <2>1. CASE todo[r] = {} /\ Return(r)
      BY <1>4, <2>1 DEF RegisterMarine, Return, Goto
    <2>2. CASE UNCHANGED <<stage, caller, subject, copy, report, scope, listed, toAck>>
      BY <1>4, <2>2 DEF RegisterMarine
    <2> QED
      BY <1>4, <2>1, <2>2 DEF RegisterMarine
  <1>5. ASSUME NEW r \in Requests, BeatRead(r) PROVE (Handed /\ DeliveredIsAcked)'
    BY <1>5 DEF BeatRead, Goto
  <1>6. ASSUME NEW r \in Requests, BeatWrite(r) PROVE (Handed /\ DeliveredIsAcked)'
    BY <1>6, SMTT(60) DEF BeatWrite, Goto
  <1>7. ASSUME NEW r \in Requests, BeatList(r) PROVE (Handed /\ DeliveredIsAcked)'
    BY <1>7 DEF BeatList, Goto, PendingFor
  <1>8. ASSUME NEW r \in Requests, BeatAck(r) PROVE (Handed /\ DeliveredIsAcked)'
    BY <1>8, SMTT(60) DEF BeatAck, Goto
  <1>9. ASSUME NEW r \in Requests, Deliver(r) PROVE (Handed /\ DeliveredIsAcked)'
    BY <1>9 DEF Deliver, Return, Goto
  <1>10. ASSUME NEW r \in Requests, Lose(r) PROVE (Handed /\ DeliveredIsAcked)'
    BY <1>10 DEF Lose, Return, Goto
  <1>11. ASSUME NEW r \in Requests, Complete(r) PROVE (Handed /\ DeliveredIsAcked)'
    BY <1>11 DEF Complete, Return, Goto
  <1>12. ASSUME NEW r \in Requests, NEW s \in KillScopes, Kill(r, s) PROVE (Handed /\ DeliveredIsAcked)'
    BY <1>12 DEF Kill, Arrive, Goto
  <1>13. ASSUME NEW r \in Requests, NEW m \in Marines, Enable(r, m) PROVE (Handed /\ DeliveredIsAcked)'
    BY <1>13 DEF Enable, Arrive, Goto
  <1>14. ASSUME NEW r \in Requests, NEW m \in Marines, Disable(r, m) PROVE (Handed /\ DeliveredIsAcked)'
    BY <1>14 DEF Disable, Arrive, Goto
  <1>15. ASSUME NEW r \in Requests, NEW e \in Engines, EngineStart(e, r) PROVE (Handed /\ DeliveredIsAcked)'
    BY <1>15 DEF EngineStart, Arrive, Goto
  <1>16. ASSUME NEW r \in Requests, NEW e \in Engines, Beat(e, r) PROVE (Handed /\ DeliveredIsAcked)'
    BY <1>16 DEF Beat, Arrive, Goto
  <1>17. ASSUME NEW r \in Requests, NEW e \in Engines, NEW c \in Commands, NEW outcome \in Outcomes, Answer(e, r, c, outcome) PROVE (Handed /\ DeliveredIsAcked)'
    BY <1>17 DEF Answer, Arrive, Goto
  <1>18. ASSUME NEW e \in Engines, NEW c \in Commands, LoseAnswer(e, c) PROVE (Handed /\ DeliveredIsAcked)'
    BY <1>18 DEF LoseAnswer
  <1>19. ASSUME Crash PROVE (Handed /\ DeliveredIsAcked)'
    BY <1>19 DEF Crash
  <1>20. CASE UNCHANGED vars
    BY <1>20 DEF vars
  <1> HIDE DEF Inv, TypeOK, Shape, Handed, DeliveredIsAcked, Outcomes, rows, commands, handlers, engines
  <1> QED
    BY <1>1, <1>2, <1>3, <1>4, <1>5, <1>6, <1>7, <1>8, <1>9, <1>10, <1>11, <1>12, <1>13, <1>14, <1>15, <1>16, <1>17, <1>18, <1>19, <1>20, SMTT(60) DEF Next, HandlerStep, OperatorStep, EngineStep

\* A command keeps its addressee and its scope from the moment it is queued.
LEMMA HomesNext == Inv /\ [Next]_vars => Homes'
  <1> SUFFICES ASSUME Inv, [Next]_vars PROVE Homes'
    OBVIOUS
  <1> USE DEF Inv, TypeOK, Shape, Handed, DeliveredIsAcked, Homes, Outcomes, rows, commands, handlers, engines
  <1>1. ASSUME NEW r \in Requests, KillQueue(r) PROVE Homes'
    <2>1. CASE todo[r] = {} /\ Return(r) /\ UNCHANGED commands
      BY <1>1, <2>1, SMTT(60) DEF KillQueue, Goto, Return
    <2>2. ASSUME NEW e \in todo[r], NEW c \in Commands,
                 /\ cmd[c] = "none"
                 /\ cmd' = [cmd EXCEPT ![c] = "pending"]
                 /\ addressee' = [addressee EXCEPT ![c] = e]
                 /\ scopeOf' = [scopeOf EXCEPT ![c] = scope[r]]
                 /\ todo' = [todo EXCEPT ![r] = @ \ {e}]
                 /\ UNCHANGED <<stage, caller, subject, copy, report, scope, listed, toAck>>
          PROVE  Homes'
      <3>1. UNCHANGED <<stage, subject, listed, toAck, inbox>>
        BY <1>1, <2>2 DEF KillQueue
      <3>2. scope[r] \in Scopes /\ e \in EngineIDsForScope(scope[r])
        BY <1>1, <2>2 DEF KillQueue
      <3>3. \A d \in Commands : d # c => /\ cmd'[d] = cmd[d]
                                         /\ scopeOf'[d] = scopeOf[d]
                                         /\ addressee'[d] = addressee[d]
        BY <2>2
      <3>4. cmd[c] = "none" /\ scopeOf'[c] = scope[r] /\ addressee'[c] = e
        BY <2>2
      <3>5. caller' = caller
        BY <2>2
      <3>6. \A d \in Commands : cmd'[d] # "none" =>
                /\ scopeOf'[d] \in Scopes
                /\ addressee'[d] \in EngineIDsForScope(scopeOf'[d])
        BY <3>2, <3>3, <3>4
      <3>7. \A q \in Requests : stage[q] \in {"beatAck", "beatReply"} =>
                \A d \in listed[q] : addressee'[d] = caller[q]
        BY <3>3, <3>4
      <3>8. \A i \in Engines : \A d \in inbox[i] : addressee'[d] = i
        BY <3>3, <3>4
      <3> QED
        BY <3>1, <3>5, <3>6, <3>7, <3>8
    <2> QED
      BY <1>1, <2>1, <2>2 DEF KillQueue
  <1>2. ASSUME NEW r \in Requests, EnableWrite(r) PROVE Homes'
    BY <1>2 DEF EnableWrite, Return, Goto
  <1>3. ASSUME NEW r \in Requests, DisableWrite(r) PROVE Homes'
    BY <1>3 DEF DisableWrite, Return, Goto
  <1>4. ASSUME NEW r \in Requests, RegisterMarine(r) PROVE Homes'
    <2>1. CASE todo[r] = {} /\ Return(r)
      BY <1>4, <2>1 DEF RegisterMarine, Return, Goto
    <2>2. CASE UNCHANGED <<stage, caller, subject, copy, report, scope, listed, toAck>>
      BY <1>4, <2>2 DEF RegisterMarine
    <2> QED
      BY <1>4, <2>1, <2>2 DEF RegisterMarine
  <1>5. ASSUME NEW r \in Requests, BeatRead(r) PROVE Homes'
    BY <1>5 DEF BeatRead, Goto
  <1>6. ASSUME NEW r \in Requests, BeatWrite(r) PROVE Homes'
    BY <1>6, SMTT(60) DEF BeatWrite, Goto
  <1>7. ASSUME NEW r \in Requests, BeatList(r) PROVE Homes'
    BY <1>7 DEF BeatList, Goto, PendingFor
  <1>8. ASSUME NEW r \in Requests, BeatAck(r) PROVE Homes'
    BY <1>8, SMTT(60) DEF BeatAck, Goto
  <1>9. ASSUME NEW r \in Requests, Deliver(r) PROVE Homes'
    BY <1>9 DEF Deliver, Return, Goto
  <1>10. ASSUME NEW r \in Requests, Lose(r) PROVE Homes'
    BY <1>10 DEF Lose, Return, Goto
  <1>11. ASSUME NEW r \in Requests, Complete(r) PROVE Homes'
    BY <1>11 DEF Complete, Return, Goto
  <1>12. ASSUME NEW r \in Requests, NEW s \in KillScopes, Kill(r, s) PROVE Homes'
    BY <1>12 DEF Kill, Arrive, Goto
  <1>13. ASSUME NEW r \in Requests, NEW m \in Marines, Enable(r, m) PROVE Homes'
    BY <1>13 DEF Enable, Arrive, Goto
  <1>14. ASSUME NEW r \in Requests, NEW m \in Marines, Disable(r, m) PROVE Homes'
    BY <1>14 DEF Disable, Arrive, Goto
  <1>15. ASSUME NEW r \in Requests, NEW e \in Engines, EngineStart(e, r) PROVE Homes'
    BY <1>15 DEF EngineStart, Arrive, Goto
  <1>16. ASSUME NEW r \in Requests, NEW e \in Engines, Beat(e, r) PROVE Homes'
    BY <1>16 DEF Beat, Arrive, Goto
  <1>17. ASSUME NEW r \in Requests, NEW e \in Engines, NEW c \in Commands, NEW outcome \in Outcomes, Answer(e, r, c, outcome) PROVE Homes'
    BY <1>17 DEF Answer, Arrive, Goto
  <1>18. ASSUME NEW e \in Engines, NEW c \in Commands, LoseAnswer(e, c) PROVE Homes'
    BY <1>18 DEF LoseAnswer
  <1>19. ASSUME Crash PROVE Homes'
    BY <1>19 DEF Crash
  <1>20. CASE UNCHANGED vars
    BY <1>20 DEF vars
  <1> HIDE DEF Inv, TypeOK, Shape, Handed, DeliveredIsAcked, Homes, Outcomes, rows, commands, handlers, engines
  <1> QED
    BY <1>1, <1>2, <1>3, <1>4, <1>5, <1>6, <1>7, <1>8, <1>9, <1>10, <1>11, <1>12, <1>13, <1>14, <1>15, <1>16, <1>17, <1>18, <1>19, <1>20, SMTT(60) DEF Next, HandlerStep, OperatorStep, EngineStep

\* A clean halt leaves no copy behind that could lift it, and new copies are made of halted rows.
LEMMA CopiesNext == Inv /\ [Next]_vars => (Copies /\ CleanHaltStaysOff)'
  <1> SUFFICES ASSUME Inv, [Next]_vars PROVE (Copies /\ CleanHaltStaysOff)'
    OBVIOUS
  <1> USE DEF Inv, TypeOK, Shape, Copies, CleanHaltStaysOff, Outcomes, rows, commands, handlers, engines
  <1>1. ASSUME NEW r \in Requests, KillQueue(r) PROVE (Copies /\ CleanHaltStaysOff)'
    BY <1>1, SMTT(60) DEF KillQueue, Goto, Return
  <1>2. ASSUME NEW r \in Requests, EnableWrite(r) PROVE (Copies /\ CleanHaltStaysOff)'
    BY <1>2 DEF EnableWrite, WriteRow, Return, Goto
  <1>3. ASSUME NEW r \in Requests, DisableWrite(r) PROVE (Copies /\ CleanHaltStaysOff)'
    BY <1>3 DEF DisableWrite, WriteRow, Return, Goto, HaltOf, Reviving
  <1>4. ASSUME NEW r \in Requests, RegisterMarine(r) PROVE (Copies /\ CleanHaltStaysOff)'
    <2>1. CASE todo[r] = {}
      <3>1. Return(r) /\ UNCHANGED <<rows, halted>>
        BY <1>4, <2>1 DEF RegisterMarine
      <3>2. CleanHaltStaysOff'
        BY <3>1
      <3>3. Copies'
        BY <3>1, SMTT(30) DEF Return, Goto
      <3> QED
        BY <3>2, <3>3
    <2>2. CASE todo[r] # {}
      <3>1. PICK m \in todo[r], s \in Reports, e \in BOOLEAN :
                /\ WriteRow(m, s, e, "no")
                /\ UNCHANGED <<stage, subject, copy>>
        BY <1>4, <2>2 DEF RegisterMarine
      <3>2. halted' = [halted EXCEPT ![m] = "no"] /\ enabled' = [enabled EXCEPT ![m] = e]
        BY <3>1 DEF WriteRow
      <3>3. ASSUME NEW n \in Marines, halted'[n] = "sure" PROVE n # m /\ halted[n] = "sure"
        BY <3>2, <3>3
      <3>4. CleanHaltStaysOff'
        BY <3>2, <3>3
      <3>5. Copies'
        BY <3>1, <3>3
      <3> QED
        BY <3>4, <3>5
    <2> QED
      BY <2>1, <2>2
  <1>5. ASSUME NEW r \in Requests, BeatRead(r) PROVE (Copies /\ CleanHaltStaysOff)'
    BY <1>5 DEF BeatRead, Goto
  <1>6. ASSUME NEW r \in Requests, BeatWrite(r) PROVE (Copies /\ CleanHaltStaysOff)'
    BY <1>6, SMTT(60) DEF BeatWrite, WriteRow, Goto
  <1>7. ASSUME NEW r \in Requests, BeatList(r) PROVE (Copies /\ CleanHaltStaysOff)'
    BY <1>7 DEF BeatList, Goto
  <1>8. ASSUME NEW r \in Requests, BeatAck(r) PROVE (Copies /\ CleanHaltStaysOff)'
    BY <1>8, SMTT(60) DEF BeatAck, Goto
  <1>9. ASSUME NEW r \in Requests, Deliver(r) PROVE (Copies /\ CleanHaltStaysOff)'
    BY <1>9 DEF Deliver, Return, Goto
  <1>10. ASSUME NEW r \in Requests, Lose(r) PROVE (Copies /\ CleanHaltStaysOff)'
    BY <1>10 DEF Lose, Return, Goto
  <1>11. ASSUME NEW r \in Requests, Complete(r) PROVE (Copies /\ CleanHaltStaysOff)'
    BY <1>11 DEF Complete, Return, Goto
  <1>12. ASSUME NEW r \in Requests, NEW s \in KillScopes, Kill(r, s) PROVE (Copies /\ CleanHaltStaysOff)'
    BY <1>12 DEF Kill, Arrive, Goto, HaltOf, Reviving
  <1>13. ASSUME NEW r \in Requests, NEW m \in Marines, Enable(r, m) PROVE (Copies /\ CleanHaltStaysOff)'
    BY <1>13 DEF Enable, Arrive, Goto
  <1>14. ASSUME NEW r \in Requests, NEW m \in Marines, Disable(r, m) PROVE (Copies /\ CleanHaltStaysOff)'
    BY <1>14 DEF Disable, Arrive, Goto
  <1>15. ASSUME NEW r \in Requests, NEW e \in Engines, EngineStart(e, r) PROVE (Copies /\ CleanHaltStaysOff)'
    BY <1>15 DEF EngineStart, Arrive, Goto
  <1>16. ASSUME NEW r \in Requests, NEW e \in Engines, Beat(e, r) PROVE (Copies /\ CleanHaltStaysOff)'
    BY <1>16 DEF Beat, Arrive, Goto
  <1>17. ASSUME NEW r \in Requests, NEW e \in Engines, NEW c \in Commands, NEW outcome \in Outcomes, Answer(e, r, c, outcome) PROVE (Copies /\ CleanHaltStaysOff)'
    BY <1>17 DEF Answer, Arrive, Goto
  <1>18. ASSUME NEW e \in Engines, NEW c \in Commands, LoseAnswer(e, c) PROVE (Copies /\ CleanHaltStaysOff)'
    BY <1>18 DEF LoseAnswer
  <1>19. ASSUME Crash PROVE (Copies /\ CleanHaltStaysOff)'
    BY <1>19 DEF Crash
  <1>20. CASE UNCHANGED vars
    BY <1>20 DEF vars
  <1> HIDE DEF Inv, TypeOK, Shape, Copies, CleanHaltStaysOff, Outcomes, rows, commands, handlers, engines
  <1> QED
    BY <1>1, <1>2, <1>3, <1>4, <1>5, <1>6, <1>7, <1>8, <1>9, <1>10, <1>11, <1>12, <1>13, <1>14, <1>15, <1>16, <1>17, <1>18, <1>19, <1>20, SMTT(60) DEF Next, HandlerStep, OperatorStep, EngineStep

\* The invariant holds in every reachable state.
LEMMA InvHolds == Spec => []Inv
  <1>1. Inv /\ [Next]_vars => Inv'
    BY TypeNext, ShapeNext, HandedNext, HomesNext, CopiesNext DEF Inv
  <1> QED
    BY <1>1, InitInv, PTL DEF Spec

-----------------------------------------------------------------------------
(* Theorems *)

\* All variables of the protocol stay in their types.
THEOREM ProtocolTypes == Spec => []TypeOK
  BY InvHolds, PTL DEF Inv

\* A command that an engine has been told of is marked, whatever heartbeats,
\* completions, losses and crashes overlap.
THEOREM DeliveredAcked == Spec => []DeliveredIsAcked
  BY InvHolds, PTL DEF Inv

\* A halt that no older copy of the row survived keeps the schedule off.
THEOREM CleanHalt == Spec => []CleanHaltStaysOff
  BY InvHolds, PTL DEF Inv

\* In every topology the kill of a fortress or a company reaches only the
\* engine that runs all of its marines.
THEOREM HearTheirOwn == Spec => []EnginesHearTheirOwn
  <1>1. Inv => EnginesHearTheirOwn
    <2> SUFFICES ASSUME Inv, NEW e \in Engines, NEW c \in inbox[e], scopeOf[c] # "imperium"
                 PROVE  Hit(scopeOf[c]) \subseteq MarinesOf(e)
      BY DEF EnginesHearTheirOwn
    <2>1. c \in Commands /\ cmd[c] # "none" /\ addressee[c] = e
      BY DEF Inv, TypeOK, DeliveredIsAcked, Homes
    <2>2. scopeOf[c] \in Scopes /\ e \in EngineIDsForScope(scopeOf[c])
      BY <2>1 DEF Inv, Homes
    <2> QED
      BY <2>2, ScopeHome
  <1> QED
    BY <1>1, InvHolds, PTL
=============================================================================
