-------------------------- MODULE LifecycleProofs --------------------------
(***************************************************************************)
(* Proofs about Lifecycle, for any sets of marines, loops and requests and *)
(* any choice of API operations, schedule types and store.                 *)
(***************************************************************************)
EXTENDS Lifecycle, TLAPS

\* The inductive invariant behind the timer theorem: Shape alone is not
\* inductive, because an idle slot stays uncancelled only as long as no entry
\* of cancels points at it, which is what OneTimerPerMarine says.
Inv == TypeOK /\ Shape /\ OneTimerPerMarine

-----------------------------------------------------------------------------
(* What the helpers do to the goroutines *)

\* A goroutine that is over frees its slot and touches no other.
LEMMA OverFacts ==
    ASSUME TypeOK, NEW g \in Routines, Over(g)
    PROVE  /\ at' \in [Routines -> Points]
           /\ owner' \in [Routines -> Marines \cup {None}]
           /\ done' \in [Routines -> BOOLEAN]
           /\ result' \in [Routines -> Results \cup {"none"}]
           /\ \A h \in Routines :
                  /\ at'[h] = (IF h = g THEN "idle" ELSE at[h])
                  /\ owner'[h] = (IF h = g THEN None ELSE owner[h])
                  /\ result'[h] = (IF h = g THEN "none" ELSE result[h])
                  /\ done'[h] <=> h # g /\ done[h]
  BY DEF TypeOK, Over, Points

\* Cancelling sets the done flag of the loops the map points at, no other.
LEMMA CancelFacts ==
    ASSUME TypeOK, NEW S \in SUBSET Marines, Cancel(S)
    PROVE  /\ done' \in [Routines -> BOOLEAN]
           /\ \A h \in Routines :
                  done'[h] <=> done[h] \/ \E m \in S : cancels[m] = h
  BY DEF TypeOK, Cancel

\* After a cycle a loop is in its select and a wake goroutine is over.
LEMMA AfterCycleFacts ==
    ASSUME TypeOK, NEW g \in Routines, AfterCycle(g)
    PROVE  /\ at' \in [Routines -> Points]
           /\ owner' \in [Routines -> Marines \cup {None}]
           /\ done' \in [Routines -> BOOLEAN]
           /\ result' \in [Routines -> Results \cup {"none"}]
           /\ \A h \in Routines :
                  /\ h # g => /\ at'[h] = at[h]
                              /\ owner'[h] = owner[h]
                              /\ result'[h] = result[h]
                              /\ done'[h] <=> done[h]
                  /\ h = g => result'[h] = "none"
                  /\ h = g /\ g \in Loops => /\ at'[h] = "select"
                                             /\ owner'[h] = owner[h]
                                             /\ done'[h] <=> done[h]
                  /\ h = g /\ g \notin Loops => /\ at'[h] = "idle"
                                                /\ owner'[h] = None
                                                /\ ~done'[h]
  <1>1. CASE g \in Loops
    BY <1>1 DEF TypeOK, AfterCycle, Points
  <1>2. CASE g \notin Loops
    BY <1>2, OverFacts DEF AfterCycle
  <1> QED
    BY <1>1, <1>2

\* A copy that is written back, or dropped because its row is gone, leaves a
\* well-typed table.
LEMMA WriteCopyFacts ==
    ASSUME TypeOK, NEW r \in Requests, NEW s \in Statuses, NEW e \in BOOLEAN,
           NEW h \in Halts, WriteCopy(r, s, e, h)
    PROVE  /\ status' \in [Marines -> Statuses \cup {"absent"}]
           /\ enabled' \in [Marines -> BOOLEAN]
           /\ kind' \in [Marines -> Kinds \cup {"none"}]
           /\ halted' \in [Marines -> Halts]
  <1>1. CASE Registered(subject[r])
    BY <1>1 DEF TypeOK, WriteCopy, PutRow, Registered, Statuses
  <1>2. CASE ~Registered(subject[r])
    BY <1>2 DEF TypeOK, WriteCopy, rows
  <1> QED
    BY <1>1, <1>2

-----------------------------------------------------------------------------
(* The invariant *)

\* The initial state satisfies the invariant.
LEMMA InitInv == Init => Inv
  <1> SUFFICES ASSUME Init PROVE Inv
    OBVIOUS
  <1>1. TypeOK
    BY DEF Init, TypeOK, SomeRows, Points, Stages, Halts, Bootable
  <1>2. Shape
    BY <1>1 DEF Init, TypeOK, Shape
  <1>3. OneTimerPerMarine
    BY DEF Init, OneTimerPerMarine, Live, Routines
  <1> QED
    BY <1>1, <1>2, <1>3 DEF Inv

\* Every step preserves the types.
LEMMA TypeNext == Inv /\ [Next]_vars => TypeOK'
  <1> SUFFICES ASSUME Inv, [Next]_vars PROVE TypeOK'
    OBVIOUS
  <1> USE LifecycleAssumption DEF Inv, TypeOK, Shape, Statuses, Results, Points, Stages, Halts, Routines, rows, routines, handlers, server
  <1>1. ASSUME NEW g \in Routines, Fetch(g) PROVE TypeOK'
    BY <1>1, AfterCycleFacts DEF Fetch
  <1>2. ASSUME NEW g \in Routines, Wake(g) PROVE TypeOK'
    BY <1>2, SMTT(60) DEF Wake, WriteStatus, Registered
  <1>3. ASSUME NEW g \in Routines, RunEnds(g) PROVE TypeOK'
    BY <1>3, SMTT(60) DEF RunEnds
  <1>4. ASSUME NEW g \in Routines, Settle(g) PROVE TypeOK'
    BY <1>4, SMTT(60) DEF Settle, WriteStatus, Registered
  <1>5. ASSUME NEW g \in Routines, Record(g) PROVE TypeOK'
    BY <1>5, AfterCycleFacts DEF Record
  <1>6. ASSUME NEW l \in Loops, Tick(l) PROVE TypeOK'
    BY <1>6 DEF Tick
  <1>7. ASSUME NEW l \in Loops, LoopExit(l) PROVE TypeOK'
    BY <1>7, OverFacts DEF LoopExit
  <1>8. ASSUME NEW r \in Requests, DeleteRow(r) PROVE TypeOK'
    BY <1>8 DEF DeleteRow, PutRow, Return
  <1>9. ASSUME NEW r \in Requests, SleepStatus(r) PROVE TypeOK'
    BY <1>9, SMTT(60) DEF SleepStatus, WriteStatus, Registered, Return
  <1>10. ASSUME NEW r \in Requests, DisableRead(r) PROVE TypeOK'
    <2>1. CASE ReadCopy(r, subject[r], "disableWrite") /\ Registered(subject[r])
      <3>1. subject[r] \in Marines
        BY <1>10 DEF DisableRead
      <3> QED
        BY <2>1, <3>1, SMTT(60) DEF ReadCopy
    <2>2. CASE Return(r) /\ UNCHANGED <<rows, lastCycle, routines, cancels, server, halted>>
      BY <2>2 DEF Return
    <2> QED
      BY <1>10, <2>1, <2>2 DEF DisableRead
  <1>11. ASSUME NEW r \in Requests, DisableWrite(r) PROVE TypeOK'
    <2>1. CASE Registered(subject[r])
      <3>1. HaltOf(subject[r]) \in Halts
        BY DEF HaltOf, Halts
      <3>2. /\ status' = [status EXCEPT ![subject[r]] = "disabled"]
            /\ enabled' = [enabled EXCEPT ![subject[r]] = FALSE]
            /\ kind' = [kind EXCEPT ![subject[r]] = copy[r]]
            /\ halted' = [halted EXCEPT ![subject[r]] = HaltOf(subject[r])]
        BY <1>11, <2>1 DEF DisableWrite, WriteCopy, PutRow
      <3> QED
        BY <1>11, <3>1, <3>2 DEF DisableWrite, Return
    <2>2. CASE ~Registered(subject[r])
      BY <1>11, <2>2 DEF DisableWrite, WriteCopy, Return
    <2> QED
      BY <2>1, <2>2
  <1>12. ASSUME NEW r \in Requests, EnableWrite(r) PROVE TypeOK'
    BY <1>12, WriteCopyFacts DEF EnableWrite
  <1>13. ASSUME NEW r \in Requests, Schedule(r) PROVE TypeOK'
    <2>1. CASE GoTo(r, subject[r], "arm")
      BY <1>13, <2>1 DEF Schedule, GoTo
    <2>2. CASE Return(r)
      BY <1>13, <2>2 DEF Schedule, Return
    <2> QED
      BY <1>13, <2>1, <2>2 DEF Schedule
  <1>14. ASSUME NEW r \in Requests, ArmLoop(r) PROVE TypeOK'
    BY <1>14, CancelFacts, SMTT(60) DEF ArmLoop, Arm, Spawn, Return
  <1>15. ASSUME NEW r \in Requests, ReturnWake(r) PROVE TypeOK'
    BY <1>15 DEF ReturnWake, Return
  <1>16. ASSUME NEW r \in Requests, KillList(r) PROVE TypeOK'
    BY <1>16, SMTT(60) DEF KillList
  <1>17. ASSUME NEW r \in Requests, KillUnschedule(r) PROVE TypeOK'
    <2>1. CASE \E m \in targets[r] : Unschedule(m) /\ targets' = [targets EXCEPT ![r] = @ \ {m}]
                                                 /\ UNCHANGED <<stage, subject, copy, copyOn>>
      <3>1. PICK m \in targets[r] : Unschedule(m) /\ targets' = [targets EXCEPT ![r] = @ \ {m}]
                                                /\ UNCHANGED <<stage, subject, copy, copyOn>>
        BY <2>1
      <3>2. m \in Marines
        OBVIOUS
      <3> QED
        BY <1>17, <3>1, <3>2, CancelFacts DEF KillUnschedule, Unschedule
    <2>2. CASE Return(r) /\ UNCHANGED <<routines, cancels>>
      BY <1>17, <2>2 DEF KillUnschedule, Return
    <2> QED
      BY <1>17, <2>1, <2>2 DEF KillUnschedule
  <1>18. ASSUME NEW r \in Requests, Kill(r) PROVE TypeOK'
    BY <1>18, SMTT(60) DEF Kill, Accepting, HaltOf
  <1>19. ASSUME NEW r \in Requests, NEW m \in Marines, Create(r, m) PROVE TypeOK'
    BY <1>19, SMTT(60) DEF Create, Accepting, PutRow, GoTo
  <1>20. ASSUME NEW r \in Requests, NEW m \in Marines, Update(r, m) PROVE TypeOK'
    BY <1>20 DEF Update, Accepting, PutRow
  <1>21. ASSUME NEW r \in Requests, NEW m \in Marines, Delete(r, m) PROVE TypeOK'
    BY <1>21, CancelFacts DEF Delete, UnscheduleFirst, Accepting, Unschedule, GoTo
  <1>22. ASSUME NEW r \in Requests, NEW m \in Marines, Sleep(r, m) PROVE TypeOK'
    BY <1>22, CancelFacts DEF Sleep, UnscheduleFirst, Accepting, Unschedule, GoTo
  <1>23. ASSUME NEW r \in Requests, NEW m \in Marines, Disable(r, m) PROVE TypeOK'
    BY <1>23, CancelFacts DEF Disable, UnscheduleFirst, Accepting, Unschedule, GoTo
  <1>24. ASSUME NEW r \in Requests, NEW m \in Marines, Enable(r, m) PROVE TypeOK'
    BY <1>24, SMTT(60) DEF Enable, Accepting, ReadCopy
  <1>25. ASSUME NEW r \in Requests, NEW m \in Marines, WakeNow(r, m) PROVE TypeOK'
    BY <1>25 DEF WakeNow, Accepting, Spawn, GoTo
  <1>26. ASSUME NEW m \in Marines, BootSchedule(m) PROVE TypeOK'
    BY <1>26, CancelFacts, SMTT(60) DEF BootSchedule, Arm, Spawn
  <1>27. ASSUME BootDone PROVE TypeOK'
    BY <1>27 DEF BootDone
  <1>28. ASSUME Stop PROVE TypeOK'
    BY <1>28, CancelFacts DEF Stop
  <1>29. ASSUME Restart PROVE TypeOK'
    <2>1. CASE Persistent
      BY <1>29, <2>1 DEF Restart, Bootable
    <2>2. CASE ~Persistent
      <3>1. boot' \subseteq Marines
        BY <1>29 DEF Restart, Bootable
      <3>2. /\ status' = [m \in Marines |-> "absent"]
            /\ enabled' = [m \in Marines |-> FALSE]
            /\ kind' = [m \in Marines |-> "none"]
            /\ lastCycle' = [m \in Marines |-> "none"]
            /\ halted' = [m \in Marines |-> "no"]
        BY <1>29, <2>2 DEF Restart
      <3> QED
        BY <1>29, <3>1, <3>2 DEF Restart
    <2> QED
      BY <2>1, <2>2
  <1>30. CASE UNCHANGED vars
    BY <1>30 DEF vars
  <1>31. ASSUME NEW r \in Requests, RegisterWrite(r) PROVE TypeOK'
    BY <1>31, SMTT(60) DEF RegisterWrite, PutRow, Return
  <1>32. ASSUME NEW r \in Requests, BeatWrite(r) PROVE TypeOK'
    <2>1. PICK s \in ClientStatuses : WriteCopy(r, s, copyOn[r], AfterReport(halted[subject[r]], s))
      BY <1>32 DEF BeatWrite
    <2>2. AfterReport(halted[subject[r]], s) \in Halts
      BY <1>32 DEF AfterReport, BeatWrite
    <2>3. /\ status' \in [Marines -> Statuses \cup {"absent"}]
          /\ enabled' \in [Marines -> BOOLEAN]
          /\ kind' \in [Marines -> Kinds \cup {"none"}]
          /\ halted' \in [Marines -> Halts]
      <3>1. s \in Statuses /\ copyOn[r] \in BOOLEAN /\ TypeOK
        BY DEF TypeOK
      <3> QED
        BY <2>1, <2>2, <3>1, WriteCopyFacts
    <2> QED
      BY <1>32, <2>3 DEF BeatWrite, Return
  <1>33. ASSUME NEW r \in Requests, NEW m \in Marines, Register(r, m) PROVE TypeOK'
    BY <1>33, SMTT(60) DEF Register, Accepting, PutRow, GoTo
  <1>34. ASSUME NEW r \in Requests, NEW m \in Marines, Beat(r, m) PROVE TypeOK'
    BY <1>34, SMTT(60) DEF Beat, Accepting, ReadCopy
  <1> QED
    BY <1>1, <1>2, <1>3, <1>4, <1>5, <1>6, <1>7, <1>8, <1>9, <1>10, <1>11, <1>12, <1>13, <1>14, <1>15, <1>16, <1>17, <1>18, <1>19, <1>20, <1>21, <1>22, <1>23, <1>24, <1>25, <1>26, <1>27, <1>28, <1>29, <1>30, <1>31, <1>32, <1>33, <1>34, ZenonT(60) DEF Next, ServerStep, CycleStep, LoopStep, HandlerStep, Arrival

\* Every step preserves the meaning of the labels.
LEMMA ShapeNext == Inv /\ [Next]_vars => Shape'
  <1> SUFFICES ASSUME Inv, [Next]_vars PROVE Shape'
    OBVIOUS
  <1> USE LifecycleAssumption, TypeNext DEF Inv, TypeOK, Shape, OneTimerPerMarine, Live, Results, Routines, rows, routines, handlers, server
  <1>1. ASSUME NEW g \in Routines, Fetch(g) PROVE Shape'
    BY <1>1, AfterCycleFacts, SMTT(60) DEF Fetch
  <1>2. ASSUME NEW g \in Routines, Wake(g) PROVE Shape'
    BY <1>2, SMTT(60) DEF Wake, WriteStatus, Registered
  <1>3. ASSUME NEW g \in Routines, RunEnds(g) PROVE Shape'
    BY <1>3, SMTT(60) DEF RunEnds
  <1>4. ASSUME NEW g \in Routines, Settle(g) PROVE Shape'
    BY <1>4, SMTT(60) DEF Settle, WriteStatus, Registered
  <1>5. ASSUME NEW g \in Routines, Record(g) PROVE Shape'
    BY <1>5, AfterCycleFacts DEF Record
  <1>6. ASSUME NEW l \in Loops, Tick(l) PROVE Shape'
    BY <1>6 DEF Tick
  <1>7. ASSUME NEW l \in Loops, LoopExit(l) PROVE Shape'
    BY <1>7, OverFacts DEF LoopExit
  <1>8. ASSUME NEW r \in Requests, DeleteRow(r) PROVE Shape'
    BY <1>8 DEF DeleteRow, PutRow, Return
  <1>9. ASSUME NEW r \in Requests, SleepStatus(r) PROVE Shape'
    BY <1>9, SMTT(60) DEF SleepStatus, WriteStatus, Registered, Return
  <1>10. ASSUME NEW r \in Requests, DisableRead(r) PROVE Shape'
    BY <1>10, SMTT(60) DEF DisableRead, ReadCopy, Return
  <1>11. ASSUME NEW r \in Requests, DisableWrite(r) PROVE Shape'
    BY <1>11, SMTT(60) DEF DisableWrite, WriteCopy, PutRow, Return, HaltOf
  <1>12. ASSUME NEW r \in Requests, EnableWrite(r) PROVE Shape'
    BY <1>12, SMTT(60) DEF EnableWrite, WriteCopy, PutRow
  <1>13. ASSUME NEW r \in Requests, Schedule(r) PROVE Shape'
    BY <1>13, SMTT(60) DEF Schedule, GoTo, Return
  <1>14. ASSUME NEW r \in Requests, ArmLoop(r) PROVE Shape'
    BY <1>14, CancelFacts, SMTT(60) DEF ArmLoop, Arm, Spawn, Return
  <1>15. ASSUME NEW r \in Requests, ReturnWake(r) PROVE Shape'
    BY <1>15 DEF ReturnWake, Return
  <1>16. ASSUME NEW r \in Requests, KillList(r) PROVE Shape'
    BY <1>16, SMTT(60) DEF KillList
  <1>17. ASSUME NEW r \in Requests, KillUnschedule(r) PROVE Shape'
    <2>1. CASE \E m \in targets[r] : Unschedule(m) /\ targets' = [targets EXCEPT ![r] = @ \ {m}]
                                                 /\ UNCHANGED <<stage, subject, copy, copyOn>>
      <3>1. PICK m \in targets[r] : Unschedule(m) /\ targets' = [targets EXCEPT ![r] = @ \ {m}]
                                                /\ UNCHANGED <<stage, subject, copy, copyOn>>
        BY <2>1
      <3>2. m \in Marines
        OBVIOUS
      <3> QED
        BY <1>17, <3>1, <3>2, CancelFacts DEF KillUnschedule, Unschedule
    <2>2. CASE Return(r) /\ UNCHANGED <<routines, cancels>>
      BY <1>17, <2>2 DEF KillUnschedule, Return
    <2> QED
      BY <1>17, <2>1, <2>2 DEF KillUnschedule
  <1>18. ASSUME NEW r \in Requests, Kill(r) PROVE Shape'
    BY <1>18, SMTT(60) DEF Kill, Accepting, HaltOf
  <1>19. ASSUME NEW r \in Requests, NEW m \in Marines, Create(r, m) PROVE Shape'
    BY <1>19 DEF Create, Accepting, PutRow, GoTo
  <1>20. ASSUME NEW r \in Requests, NEW m \in Marines, Update(r, m) PROVE Shape'
    BY <1>20 DEF Update, Accepting, PutRow
  <1>21. ASSUME NEW r \in Requests, NEW m \in Marines, Delete(r, m) PROVE Shape'
    BY <1>21, CancelFacts DEF Delete, UnscheduleFirst, Accepting, Unschedule, GoTo
  <1>22. ASSUME NEW r \in Requests, NEW m \in Marines, Sleep(r, m) PROVE Shape'
    BY <1>22, CancelFacts DEF Sleep, UnscheduleFirst, Accepting, Unschedule, GoTo
  <1>23. ASSUME NEW r \in Requests, NEW m \in Marines, Disable(r, m) PROVE Shape'
    BY <1>23, CancelFacts DEF Disable, UnscheduleFirst, Accepting, Unschedule, GoTo
  <1>24. ASSUME NEW r \in Requests, NEW m \in Marines, Enable(r, m) PROVE Shape'
    BY <1>24, SMTT(60) DEF Enable, Accepting, ReadCopy
  <1>25. ASSUME NEW r \in Requests, NEW m \in Marines, WakeNow(r, m) PROVE Shape'
    BY <1>25 DEF WakeNow, Accepting, Spawn, GoTo
  <1>26. ASSUME NEW m \in Marines, BootSchedule(m) PROVE Shape'
    BY <1>26, CancelFacts, SMTT(60) DEF BootSchedule, Arm, Spawn
  <1>27. ASSUME BootDone PROVE Shape'
    BY <1>27 DEF BootDone
  <1>28. ASSUME Stop PROVE Shape'
    BY <1>28, CancelFacts DEF Stop
  <1>29. ASSUME Restart PROVE Shape'
    BY <1>29 DEF Restart, Bootable
  <1>30. CASE UNCHANGED vars
    BY <1>30 DEF vars
  <1>31. ASSUME NEW r \in Requests, RegisterWrite(r) PROVE Shape'
    BY <1>31, SMTT(60) DEF RegisterWrite, PutRow, Return
  <1>32. ASSUME NEW r \in Requests, BeatWrite(r) PROVE Shape'
    BY <1>32, SMTT(60) DEF BeatWrite, WriteCopy, PutRow, Return, AfterReport
  <1>33. ASSUME NEW r \in Requests, NEW m \in Marines, Register(r, m) PROVE Shape'
    BY <1>33, SMTT(60) DEF Register, Accepting, PutRow, GoTo
  <1>34. ASSUME NEW r \in Requests, NEW m \in Marines, Beat(r, m) PROVE Shape'
    BY <1>34, SMTT(60) DEF Beat, Accepting, ReadCopy
  <1> QED
    BY <1>1, <1>2, <1>3, <1>4, <1>5, <1>6, <1>7, <1>8, <1>9, <1>10, <1>11, <1>12, <1>13, <1>14, <1>15, <1>16, <1>17, <1>18, <1>19, <1>20, <1>21, <1>22, <1>23, <1>24, <1>25, <1>26, <1>27, <1>28, <1>29, <1>30, <1>31, <1>32, <1>33, <1>34, ZenonT(60) DEF Next, ServerStep, CycleStep, LoopStep, HandlerStep, Arrival

\* Every step keeps one reachable timer per marine.
LEMMA TimerNext == Inv /\ [Next]_vars => OneTimerPerMarine'
  <1> SUFFICES ASSUME Inv, [Next]_vars PROVE OneTimerPerMarine'
    OBVIOUS
  <1> USE LifecycleAssumption DEF Inv, TypeOK, Shape, OneTimerPerMarine, Live, Routines, rows, routines, handlers, server
  <1>1. ASSUME NEW g \in Routines, Fetch(g) PROVE OneTimerPerMarine'
    BY <1>1, AfterCycleFacts DEF Fetch
  <1>2. ASSUME NEW g \in Routines, Wake(g) PROVE OneTimerPerMarine'
    BY <1>2, SMTT(60) DEF Wake, WriteStatus, Registered
  <1>3. ASSUME NEW g \in Routines, RunEnds(g) PROVE OneTimerPerMarine'
    BY <1>3, SMTT(60) DEF RunEnds
  <1>4. ASSUME NEW g \in Routines, Settle(g) PROVE OneTimerPerMarine'
    BY <1>4, SMTT(60) DEF Settle, WriteStatus, Registered
  <1>5. ASSUME NEW g \in Routines, Record(g) PROVE OneTimerPerMarine'
    BY <1>5, AfterCycleFacts DEF Record
  <1>6. ASSUME NEW l \in Loops, Tick(l) PROVE OneTimerPerMarine'
    BY <1>6 DEF Tick
  <1>7. ASSUME NEW l \in Loops, LoopExit(l) PROVE OneTimerPerMarine'
    BY <1>7, OverFacts DEF LoopExit
  <1>8. ASSUME NEW r \in Requests, DeleteRow(r) PROVE OneTimerPerMarine'
    BY <1>8 DEF DeleteRow, PutRow, Return
  <1>9. ASSUME NEW r \in Requests, SleepStatus(r) PROVE OneTimerPerMarine'
    BY <1>9, SMTT(60) DEF SleepStatus, WriteStatus, Registered, Return
  <1>10. ASSUME NEW r \in Requests, DisableRead(r) PROVE OneTimerPerMarine'
    BY <1>10, SMTT(60) DEF DisableRead, ReadCopy, Return
  <1>11. ASSUME NEW r \in Requests, DisableWrite(r) PROVE OneTimerPerMarine'
    BY <1>11, SMTT(60) DEF DisableWrite, WriteCopy, PutRow, Return, HaltOf
  <1>12. ASSUME NEW r \in Requests, EnableWrite(r) PROVE OneTimerPerMarine'
    BY <1>12, SMTT(60) DEF EnableWrite, WriteCopy, PutRow
  <1>13. ASSUME NEW r \in Requests, Schedule(r) PROVE OneTimerPerMarine'
    BY <1>13, SMTT(60) DEF Schedule, GoTo, Return
  <1>14. ASSUME NEW r \in Requests, ArmLoop(r) PROVE OneTimerPerMarine'
    BY <1>14, CancelFacts, SMTT(60) DEF ArmLoop, Arm, Spawn, Return
  <1>15. ASSUME NEW r \in Requests, ReturnWake(r) PROVE OneTimerPerMarine'
    BY <1>15 DEF ReturnWake, Return
  <1>16. ASSUME NEW r \in Requests, KillList(r) PROVE OneTimerPerMarine'
    BY <1>16, SMTT(60) DEF KillList
  <1>17. ASSUME NEW r \in Requests, KillUnschedule(r) PROVE OneTimerPerMarine'
    <2>1. CASE \E m \in targets[r] : Unschedule(m) /\ targets' = [targets EXCEPT ![r] = @ \ {m}]
                                                 /\ UNCHANGED <<stage, subject, copy, copyOn>>
      <3>1. PICK m \in targets[r] : Unschedule(m) /\ targets' = [targets EXCEPT ![r] = @ \ {m}]
                                                /\ UNCHANGED <<stage, subject, copy, copyOn>>
        BY <2>1
      <3>2. m \in Marines
        OBVIOUS
      <3> QED
        BY <1>17, <3>1, <3>2, CancelFacts DEF KillUnschedule, Unschedule
    <2>2. CASE Return(r) /\ UNCHANGED <<routines, cancels>>
      BY <1>17, <2>2 DEF KillUnschedule, Return
    <2> QED
      BY <1>17, <2>1, <2>2 DEF KillUnschedule
  <1>18. ASSUME NEW r \in Requests, Kill(r) PROVE OneTimerPerMarine'
    BY <1>18, SMTT(60) DEF Kill, Accepting, HaltOf
  <1>19. ASSUME NEW r \in Requests, NEW m \in Marines, Create(r, m) PROVE OneTimerPerMarine'
    BY <1>19 DEF Create, Accepting, PutRow, GoTo
  <1>20. ASSUME NEW r \in Requests, NEW m \in Marines, Update(r, m) PROVE OneTimerPerMarine'
    BY <1>20 DEF Update, Accepting, PutRow
  <1>21. ASSUME NEW r \in Requests, NEW m \in Marines, Delete(r, m) PROVE OneTimerPerMarine'
    BY <1>21, CancelFacts DEF Delete, UnscheduleFirst, Accepting, Unschedule, GoTo
  <1>22. ASSUME NEW r \in Requests, NEW m \in Marines, Sleep(r, m) PROVE OneTimerPerMarine'
    BY <1>22, CancelFacts DEF Sleep, UnscheduleFirst, Accepting, Unschedule, GoTo
  <1>23. ASSUME NEW r \in Requests, NEW m \in Marines, Disable(r, m) PROVE OneTimerPerMarine'
    BY <1>23, CancelFacts DEF Disable, UnscheduleFirst, Accepting, Unschedule, GoTo
  <1>24. ASSUME NEW r \in Requests, NEW m \in Marines, Enable(r, m) PROVE OneTimerPerMarine'
    BY <1>24, SMTT(60) DEF Enable, Accepting, ReadCopy
  <1>25. ASSUME NEW r \in Requests, NEW m \in Marines, WakeNow(r, m) PROVE OneTimerPerMarine'
    BY <1>25 DEF WakeNow, Accepting, Spawn, GoTo
  <1>26. ASSUME NEW m \in Marines, BootSchedule(m) PROVE OneTimerPerMarine'
    BY <1>26, CancelFacts, SMTT(60) DEF BootSchedule, Arm, Spawn
  <1>27. ASSUME BootDone PROVE OneTimerPerMarine'
    BY <1>27 DEF BootDone
  <1>28. ASSUME Stop PROVE OneTimerPerMarine'
    BY <1>28, CancelFacts DEF Stop
  <1>29. ASSUME Restart PROVE OneTimerPerMarine'
    BY <1>29 DEF Restart, Bootable
  <1>30. CASE UNCHANGED vars
    BY <1>30 DEF vars
  <1>31. ASSUME NEW r \in Requests, RegisterWrite(r) PROVE OneTimerPerMarine'
    BY <1>31, SMTT(60) DEF RegisterWrite, PutRow, Return
  <1>32. ASSUME NEW r \in Requests, BeatWrite(r) PROVE OneTimerPerMarine'
    BY <1>32, SMTT(60) DEF BeatWrite, WriteCopy, PutRow, Return, AfterReport
  <1>33. ASSUME NEW r \in Requests, NEW m \in Marines, Register(r, m) PROVE OneTimerPerMarine'
    BY <1>33, SMTT(60) DEF Register, Accepting, PutRow, GoTo
  <1>34. ASSUME NEW r \in Requests, NEW m \in Marines, Beat(r, m) PROVE OneTimerPerMarine'
    BY <1>34, SMTT(60) DEF Beat, Accepting, ReadCopy
  <1> QED
    BY <1>1, <1>2, <1>3, <1>4, <1>5, <1>6, <1>7, <1>8, <1>9, <1>10, <1>11, <1>12, <1>13, <1>14, <1>15, <1>16, <1>17, <1>18, <1>19, <1>20, <1>21, <1>22, <1>23, <1>24, <1>25, <1>26, <1>27, <1>28, <1>29, <1>30, <1>31, <1>32, <1>33, <1>34, ZenonT(60) DEF Next, ServerStep, CycleStep, LoopStep, HandlerStep, Arrival

-----------------------------------------------------------------------------
(* Type correctness and the timers *)

\* The invariant holds in every behaviour.
LEMMA InvHolds == Spec => []Inv
  <1>1. Inv /\ [Next]_vars => Inv'
    BY TypeNext, ShapeNext, TimerNext DEF Inv
  <1> QED
    BY InitInv, <1>1, PTL DEF Spec

\* Every variable keeps its type, whatever the interleaving.
THEOREM TypeCorrect == Spec => []TypeOK
  BY InvHolds, PTL DEF Inv

\* No marine is ever woken by two live loops and no live loop is out of reach
\* of UnscheduleMarine and Stop, for any number of marines and handlers.
THEOREM OneTimer == Spec => []OneTimerPerMarine
  BY InvHolds, PTL DEF Inv

-----------------------------------------------------------------------------
(* A kill or a disable that met nothing under way *)

\* Every step keeps it.
LEMMA SureHaltNext == Inv /\ SureHaltHolds /\ [Next]_vars => SureHaltHolds'
  <1> SUFFICES ASSUME Inv, SureHaltHolds, [Next]_vars PROVE SureHaltHolds'
    OBVIOUS
  <1> USE DEF Inv, TypeOK, Shape, Routines, SureHaltHolds, InFlight, Statuses, rows, routines, handlers, server
  <1>1. ASSUME NEW g \in Routines, Fetch(g) PROVE SureHaltHolds'
    BY <1>1, AfterCycleFacts DEF Fetch
  <1>2. ASSUME NEW g \in Routines, Wake(g) PROVE SureHaltHolds'
    BY <1>2, SMTT(60) DEF Wake, WriteStatus, Registered
  <1>3. ASSUME NEW g \in Routines, RunEnds(g) PROVE SureHaltHolds'
    BY <1>3, SMTT(60) DEF RunEnds
  <1>4. ASSUME NEW g \in Routines, Settle(g) PROVE SureHaltHolds'
    BY <1>4, SMTT(60) DEF Settle, WriteStatus, Registered
  <1>5. ASSUME NEW g \in Routines, Record(g) PROVE SureHaltHolds'
    BY <1>5, AfterCycleFacts, SMTT(60) DEF Record
  <1>6. ASSUME NEW l \in Loops, Tick(l) PROVE SureHaltHolds'
    BY <1>6 DEF Tick
  <1>7. ASSUME NEW l \in Loops, LoopExit(l) PROVE SureHaltHolds'
    BY <1>7, OverFacts DEF LoopExit
  <1>8. ASSUME NEW r \in Requests, DeleteRow(r) PROVE SureHaltHolds'
    BY <1>8 DEF DeleteRow, PutRow, Return
  <1>9. ASSUME NEW r \in Requests, SleepStatus(r) PROVE SureHaltHolds'
    BY <1>9, SMTT(60) DEF SleepStatus, WriteStatus, Registered, Return
  <1>10. ASSUME NEW r \in Requests, DisableRead(r) PROVE SureHaltHolds'
    BY <1>10, SMTT(60) DEF DisableRead, ReadCopy, Return
  <1>11. ASSUME NEW r \in Requests, DisableWrite(r) PROVE SureHaltHolds'
    BY <1>11, SMTT(60) DEF DisableWrite, WriteCopy, PutRow, Return, HaltOf
  <1>12. ASSUME NEW r \in Requests, EnableWrite(r) PROVE SureHaltHolds'
    BY <1>12, SMTT(60) DEF EnableWrite, WriteCopy, PutRow
  <1>13. ASSUME NEW r \in Requests, Schedule(r) PROVE SureHaltHolds'
    BY <1>13, SMTT(60) DEF Schedule, GoTo, Return
  <1>14. ASSUME NEW r \in Requests, ArmLoop(r) PROVE SureHaltHolds'
    BY <1>14, CancelFacts, SMTT(60) DEF ArmLoop, Arm, Spawn, Return
  <1>15. ASSUME NEW r \in Requests, ReturnWake(r) PROVE SureHaltHolds'
    BY <1>15 DEF ReturnWake, Return
  <1>16. ASSUME NEW r \in Requests, KillList(r) PROVE SureHaltHolds'
    BY <1>16, SMTT(60) DEF KillList
  <1>17. ASSUME NEW r \in Requests, KillUnschedule(r) PROVE SureHaltHolds'
    <2>1. CASE \E m \in targets[r] : Unschedule(m) /\ targets' = [targets EXCEPT ![r] = @ \ {m}]
                                                 /\ UNCHANGED <<stage, subject, copy, copyOn>>
      <3>1. PICK m \in targets[r] : Unschedule(m) /\ targets' = [targets EXCEPT ![r] = @ \ {m}]
                                                /\ UNCHANGED <<stage, subject, copy, copyOn>>
        BY <2>1
      <3>2. m \in Marines
        OBVIOUS
      <3> QED
        BY <1>17, <3>1, <3>2, CancelFacts DEF KillUnschedule, Unschedule
    <2>2. CASE Return(r) /\ UNCHANGED <<routines, cancels>>
      BY <1>17, <2>2 DEF KillUnschedule, Return
    <2> QED
      BY <1>17, <2>1, <2>2 DEF KillUnschedule
  <1>18. ASSUME NEW r \in Requests, Kill(r) PROVE SureHaltHolds'
    BY <1>18, SMTT(60) DEF Kill, Accepting, HaltOf
  <1>19. ASSUME NEW r \in Requests, NEW m \in Marines, Create(r, m) PROVE SureHaltHolds'
    BY <1>19 DEF Create, Accepting, PutRow, GoTo
  <1>20. ASSUME NEW r \in Requests, NEW m \in Marines, Update(r, m) PROVE SureHaltHolds'
    BY <1>20 DEF Update, Accepting, PutRow
  <1>21. ASSUME NEW r \in Requests, NEW m \in Marines, Delete(r, m) PROVE SureHaltHolds'
    BY <1>21, CancelFacts DEF Delete, UnscheduleFirst, Accepting, Unschedule, GoTo
  <1>22. ASSUME NEW r \in Requests, NEW m \in Marines, Sleep(r, m) PROVE SureHaltHolds'
    BY <1>22, CancelFacts DEF Sleep, UnscheduleFirst, Accepting, Unschedule, GoTo
  <1>23. ASSUME NEW r \in Requests, NEW m \in Marines, Disable(r, m) PROVE SureHaltHolds'
    BY <1>23, CancelFacts DEF Disable, UnscheduleFirst, Accepting, Unschedule, GoTo
  <1>24. ASSUME NEW r \in Requests, NEW m \in Marines, Enable(r, m) PROVE SureHaltHolds'
    BY <1>24, SMTT(60) DEF Enable, Accepting, ReadCopy
  <1>25. ASSUME NEW r \in Requests, NEW m \in Marines, WakeNow(r, m) PROVE SureHaltHolds'
    BY <1>25 DEF WakeNow, Accepting, Spawn, GoTo
  <1>26. ASSUME NEW m \in Marines, BootSchedule(m) PROVE SureHaltHolds'
    BY <1>26, CancelFacts, SMTT(60) DEF BootSchedule, Arm, Spawn
  <1>27. ASSUME BootDone PROVE SureHaltHolds'
    BY <1>27 DEF BootDone
  <1>28. ASSUME Stop PROVE SureHaltHolds'
    BY <1>28, CancelFacts DEF Stop
  <1>29. ASSUME Restart PROVE SureHaltHolds'
    BY <1>29 DEF Restart, Bootable
  <1>30. CASE UNCHANGED vars
    BY <1>30 DEF vars
  <1>31. ASSUME NEW r \in Requests, RegisterWrite(r) PROVE SureHaltHolds'
    BY <1>31, SMTT(60) DEF RegisterWrite, PutRow, Return
  <1>32. ASSUME NEW r \in Requests, BeatWrite(r) PROVE SureHaltHolds'
    BY <1>32, SMTT(60) DEF BeatWrite, WriteCopy, PutRow, Return, AfterReport
  <1>33. ASSUME NEW r \in Requests, NEW m \in Marines, Register(r, m) PROVE SureHaltHolds'
    BY <1>33, SMTT(60) DEF Register, Accepting, PutRow, GoTo
  <1>34. ASSUME NEW r \in Requests, NEW m \in Marines, Beat(r, m) PROVE SureHaltHolds'
    BY <1>34, SMTT(60) DEF Beat, Accepting, ReadCopy
  <1> QED
    BY <1>1, <1>2, <1>3, <1>4, <1>5, <1>6, <1>7, <1>8, <1>9, <1>10, <1>11, <1>12, <1>13, <1>14, <1>15, <1>16, <1>17, <1>18, <1>19, <1>20, <1>21, <1>22, <1>23, <1>24, <1>25, <1>26, <1>27, <1>28, <1>29, <1>30, <1>31, <1>32, <1>33, <1>34, SMTT(60) DEF Next, ServerStep, CycleStep, LoopStep, HandlerStep, Arrival

\* A kill switch or disable that found no cycle in flight and no heartbeat with
\* an older row stays effective: the row says disabled and no goroutine is past
\* the check, until an operator or the engine configures the marine, deletes it,
\* puts it to sleep or reports another status.
THEOREM SureHalt == Spec => []SureHaltHolds
  <1>1. Init => SureHaltHolds
    BY DEF Init, SureHaltHolds
  <1> QED
    BY <1>1, InvHolds, SureHaltNext, PTL DEF Spec


-----------------------------------------------------------------------------
(* Restarts *)

\* Why Start leaves halted marines alone: their rows stay not enabled, no
\* heartbeat holds an older row to write back over them, and while the server
\* boots no handler runs and only enabled rows are scheduled.
SwitchedOff(m) == halted[m] \in {"off", "sure"}

BootInv ==
    /\ \A m \in Marines : SwitchedOff(m) => ~enabled[m]
    /\ \A r \in Requests : stage[r] = "beatWrite" /\ copyOn[r] => ~SwitchedOff(subject[r])
    /\ phase = "booting" =>
          /\ \A r \in Requests : stage[r] = "free"
          /\ \A m \in Marines : m \in boot \/ cancels[m] # None => enabled[m]

\* Every step keeps it.
LEMMA BootNext == Inv /\ BootInv /\ [Next]_vars => BootInv'
  <1> SUFFICES ASSUME Inv, BootInv, [Next]_vars PROVE BootInv'
    OBVIOUS
  <1> USE DEF Inv, TypeOK, Shape, BootInv, SwitchedOff, rows, routines, handlers, server
  <1>1. ASSUME NEW g \in Routines, Fetch(g) PROVE BootInv'
    BY <1>1, AfterCycleFacts DEF Fetch
  <1>2. ASSUME NEW g \in Routines, Wake(g) PROVE BootInv'
    BY <1>2, SMTT(60) DEF Wake, WriteStatus, Registered
  <1>3. ASSUME NEW g \in Routines, RunEnds(g) PROVE BootInv'
    BY <1>3, SMTT(60) DEF RunEnds
  <1>4. ASSUME NEW g \in Routines, Settle(g) PROVE BootInv'
    BY <1>4, SMTT(60) DEF Settle, WriteStatus, Registered
  <1>5. ASSUME NEW g \in Routines, Record(g) PROVE BootInv'
    BY <1>5, AfterCycleFacts DEF Record
  <1>6. ASSUME NEW l \in Loops, Tick(l) PROVE BootInv'
    BY <1>6 DEF Tick
  <1>7. ASSUME NEW l \in Loops, LoopExit(l) PROVE BootInv'
    BY <1>7, OverFacts DEF LoopExit
  <1>8. ASSUME NEW r \in Requests, DeleteRow(r) PROVE BootInv'
    BY <1>8 DEF DeleteRow, PutRow, Return
  <1>9. ASSUME NEW r \in Requests, SleepStatus(r) PROVE BootInv'
    BY <1>9, SMTT(60) DEF SleepStatus, WriteStatus, Registered, Return
  <1>10. ASSUME NEW r \in Requests, DisableRead(r) PROVE BootInv'
    BY <1>10, SMTT(60) DEF DisableRead, ReadCopy, Return
  <1>11. ASSUME NEW r \in Requests, DisableWrite(r) PROVE BootInv'
    BY <1>11, SMTT(60) DEF DisableWrite, WriteCopy, PutRow, Return, HaltOf, Reviving
  <1>12. ASSUME NEW r \in Requests, EnableWrite(r) PROVE BootInv'
    BY <1>12, SMTT(60) DEF EnableWrite, WriteCopy, PutRow
  <1>13. ASSUME NEW r \in Requests, Schedule(r) PROVE BootInv'
    BY <1>13, SMTT(60) DEF Schedule, GoTo, Return
  <1>14. ASSUME NEW r \in Requests, ArmLoop(r) PROVE BootInv'
    BY <1>14, CancelFacts, SMTT(60) DEF ArmLoop, Arm, Spawn, Return
  <1>15. ASSUME NEW r \in Requests, ReturnWake(r) PROVE BootInv'
    BY <1>15 DEF ReturnWake, Return
  <1>16. ASSUME NEW r \in Requests, KillList(r) PROVE BootInv'
    BY <1>16, SMTT(60) DEF KillList
  <1>17. ASSUME NEW r \in Requests, KillUnschedule(r) PROVE BootInv'
    <2>1. CASE \E m \in targets[r] : Unschedule(m) /\ targets' = [targets EXCEPT ![r] = @ \ {m}]
                                                 /\ UNCHANGED <<stage, subject, copy, copyOn>>
      <3>1. PICK m \in targets[r] : Unschedule(m) /\ targets' = [targets EXCEPT ![r] = @ \ {m}]
                                                /\ UNCHANGED <<stage, subject, copy, copyOn>>
        BY <2>1
      <3>2. m \in Marines
        OBVIOUS
      <3> QED
        BY <1>17, <3>1, <3>2, CancelFacts DEF KillUnschedule, Unschedule
    <2>2. CASE Return(r) /\ UNCHANGED <<routines, cancels>>
      BY <1>17, <2>2 DEF KillUnschedule, Return
    <2> QED
      BY <1>17, <2>1, <2>2 DEF KillUnschedule
  <1>18. ASSUME NEW r \in Requests, Kill(r) PROVE BootInv'
    <2>1. PICK hit \in SUBSET Marines :
              /\ enabled' = [m \in Marines |-> enabled[m] /\ m \notin hit]
              /\ halted' = [m \in Marines |-> IF m \in hit THEN HaltOf(m) ELSE halted[m]]
      <3>1. PICK scope \in Scopes :
              /\ enabled' = [m \in Marines |-> enabled[m] /\ m \notin {x \in scope : Registered(x)}]
              /\ halted' = [m \in Marines |->
                     IF m \in {x \in scope : Registered(x)} THEN HaltOf(m) ELSE halted[m]]
        BY <1>18, ZenonT(60) DEF Kill
      <3>2. {x \in scope : Registered(x)} \in SUBSET Marines
        BY LifecycleAssumption
      <3> QED
        BY <3>1, <3>2
    <2>2. \A m \in Marines : SwitchedOff(m)' => ~enabled'[m]
      BY <2>1, ZenonT(60)
    <2>3. ASSUME NEW q \in Requests, stage'[q] = "beatWrite", copyOn'[q]
          PROVE  ~SwitchedOff(subject[q])'
      <3>1. stage[q] = "beatWrite" /\ copyOn[q] /\ subject'[q] = subject[q] /\ subject[q] \in Marines
        BY <1>18, <2>3 DEF Kill
      <3>2. HaltOf(subject[q]) = "unsure"
        BY <3>1 DEF HaltOf, Reviving
      <3>3. halted'[subject[q]] \in {"unsure", halted[subject[q]]}
        BY <2>1, <3>1, <3>2
      <3>4. halted[subject[q]] \notin {"off", "sure"}
        BY <3>1
      <3> QED
        BY <3>1, <3>3, <3>4
    <2>4. phase' # "booting"
      BY <1>18 DEF Kill, Accepting
    <2>5. /\ \A m \in Marines : SwitchedOff(m)' => ~enabled'[m]
          /\ \A q \in Requests :
                 stage'[q] = "beatWrite" /\ copyOn'[q] => ~SwitchedOff(subject[q])'
      BY <2>2, <2>3, Zenon
    <2> QED
      BY <2>4, <2>5
  <1>19. ASSUME NEW r \in Requests, NEW m \in Marines, Create(r, m) PROVE BootInv'
    BY <1>19 DEF Create, Accepting, PutRow, GoTo
  <1>20. ASSUME NEW r \in Requests, NEW m \in Marines, Update(r, m) PROVE BootInv'
    BY <1>20 DEF Update, Accepting, PutRow
  <1>21. ASSUME NEW r \in Requests, NEW m \in Marines, Delete(r, m) PROVE BootInv'
    BY <1>21, CancelFacts DEF Delete, UnscheduleFirst, Accepting, Unschedule, GoTo
  <1>22. ASSUME NEW r \in Requests, NEW m \in Marines, Sleep(r, m) PROVE BootInv'
    BY <1>22, CancelFacts DEF Sleep, UnscheduleFirst, Accepting, Unschedule, GoTo
  <1>23. ASSUME NEW r \in Requests, NEW m \in Marines, Disable(r, m) PROVE BootInv'
    BY <1>23, CancelFacts DEF Disable, UnscheduleFirst, Accepting, Unschedule, GoTo
  <1>24. ASSUME NEW r \in Requests, NEW m \in Marines, Enable(r, m) PROVE BootInv'
    BY <1>24, SMTT(60) DEF Enable, Accepting, ReadCopy
  <1>25. ASSUME NEW r \in Requests, NEW m \in Marines, WakeNow(r, m) PROVE BootInv'
    BY <1>25 DEF WakeNow, Accepting, Spawn, GoTo
  <1>26. ASSUME NEW m \in Marines, BootSchedule(m) PROVE BootInv'
    BY <1>26, CancelFacts, SMTT(60) DEF BootSchedule, Arm, Spawn
  <1>27. ASSUME BootDone PROVE BootInv'
    BY <1>27 DEF BootDone
  <1>28. ASSUME Stop PROVE BootInv'
    BY <1>28, CancelFacts DEF Stop
  <1>29. ASSUME Restart PROVE BootInv'
    BY <1>29 DEF Restart, Bootable
  <1>30. CASE UNCHANGED vars
    BY <1>30 DEF vars
  <1>31. ASSUME NEW r \in Requests, RegisterWrite(r) PROVE BootInv'
    BY <1>31, SMTT(60) DEF RegisterWrite, PutRow, Return
  <1>32. ASSUME NEW r \in Requests, BeatWrite(r) PROVE BootInv'
    BY <1>32, SMTT(60) DEF BeatWrite, WriteCopy, PutRow, Return, AfterReport
  <1>33. ASSUME NEW r \in Requests, NEW m \in Marines, Register(r, m) PROVE BootInv'
    BY <1>33, SMTT(60) DEF Register, Accepting, PutRow, GoTo
  <1>34. ASSUME NEW r \in Requests, NEW m \in Marines, Beat(r, m) PROVE BootInv'
    BY <1>34, SMTT(60) DEF Beat, Accepting, ReadCopy
  <1> QED
    BY <1>1, <1>2, <1>3, <1>4, <1>5, <1>6, <1>7, <1>8, <1>9, <1>10, <1>11, <1>12, <1>13, <1>14, <1>15, <1>16, <1>17, <1>18, <1>19, <1>20, <1>21, <1>22, <1>23, <1>24, <1>25, <1>26, <1>27, <1>28, <1>29, <1>30, <1>31, <1>32, <1>33, <1>34, SMTT(60) DEF Next, ServerStep, CycleStep, LoopStep, HandlerStep, Arrival

\* A marine that was killed or disabled, while no heartbeat held an older row of
\* it, and that neither an operator nor its engine configured again, is not
\* scheduled by a restart, whatever its status says by then.
THEOREM BootHalt == Spec => []BootRespectsHalt
  <1>1. Init => BootInv
    BY DEF Init, BootInv, SwitchedOff, Bootable
  <1>2. BootInv => BootRespectsHalt
    BY DEF BootInv, SwitchedOff, BootRespectsHalt
  <1> QED
    BY <1>1, <1>2, InvHolds, BootNext, PTL DEF Spec


-----------------------------------------------------------------------------
(* A marine that waits has a goroutine *)

\* What WakingOnlyWhileBusy says of a step.
WakingStep ==
    \A m \in Marines :
        status'[m] = "waking" /\ ~Busy(m)' /\ (\E g \in Routines : at'[g] # "idle")
            => status[m] = "waking" /\ ~Busy(m)

\* A step that takes no goroutine out of the runner and marks no marine.
Quiet ==
    /\ \A g \in Routines : at[g] \in {"running", "settle"} =>
           at'[g] \in {"running", "settle"} /\ owner'[g] = owner[g]
    /\ \A m \in Marines : status'[m] = "waking" => status[m] = "waking"

LEMMA QuietWaits == Quiet => WakingStep
  BY DEF Quiet, WakingStep, Busy, InFlight

\* Steps of cycles and loops.  Only Wake marks its marine, and it goes on into
\* the runner or to the end of the cycle; only Settle leaves there, and it has
\* written an outcome.
LEMMA CycleWaits ==
    ASSUME Inv, NEW g \in Routines, CycleStep(g) PROVE WakingStep
  <1> USE DEF Inv, TypeOK, Shape
  <1>1. CASE Fetch(g)
    <2>1. Quiet
      BY <1>1, AfterCycleFacts DEF Fetch, Quiet, rows
    <2> QED
      BY <2>1, QuietWaits
  <1>2. CASE Wake(g)
    <2>1. /\ owner[g] \in Marines /\ owner' = owner
          /\ at'[g] \in {"running", "settle"}
          /\ \A h \in Routines : h # g => at'[h] = at[h]
          /\ \A m \in Marines : m # owner[g] => status'[m] = status[m]
      BY <1>2 DEF Wake, WriteStatus
    <2>2. Busy(owner[g])'
      BY <2>1 DEF Busy, InFlight
    <2>3. \A m \in Marines : Busy(m) => Busy(m)'
      BY <1>2, <2>1 DEF Busy, InFlight, Wake
    <2> QED
      BY <2>1, <2>2, <2>3 DEF WakingStep
  <1>3. CASE RunEnds(g)
    <2>1. Quiet
      BY <1>3 DEF RunEnds, Quiet, rows
    <2> QED
      BY <2>1, QuietWaits
  <1>4. CASE Settle(g)
    <2>1. /\ owner[g] \in Marines /\ result[g] \in Results
          /\ \A h \in Routines : h # g => at'[h] = at[h]
          /\ UNCHANGED owner
          /\ \A m \in Marines : m # owner[g] => status'[m] = status[m]
          /\ status'[owner[g]] # "waking"
      BY <1>4 DEF Settle, WriteStatus, Registered, Results
    <2>2. \A m \in Marines : m # owner[g] /\ Busy(m) => Busy(m)'
      BY <2>1 DEF Busy, InFlight
    <2> QED
      BY <2>1, <2>2 DEF WakingStep
  <1>5. CASE Record(g)
    <2>1. Quiet
      BY <1>5, AfterCycleFacts DEF Record, Quiet, rows
    <2> QED
      BY <2>1, QuietWaits
  <1> QED
    BY <1>1, <1>2, <1>3, <1>4, <1>5 DEF CycleStep

\* Steps of the handlers of requests that are in progress.
LEMMA HandlerWaits ==
    ASSUME Inv, "waking" \notin ClientStatuses, NEW r \in Requests, HandlerStep(r) PROVE Quiet
  <1>1. \A m \in Marines : status'[m] = "waking" => status[m] = "waking"
    BY DEF Inv, TypeOK, HandlerStep, DeleteRow, SleepStatus, DisableRead, DisableWrite, EnableWrite,
       Schedule, ArmLoop, ReturnWake, KillList, KillUnschedule, RegisterWrite, BeatWrite, PutRow,
       WriteStatus, ReadCopy, WriteCopy, rows
  <1>2. \A g \in Routines : at[g] \in {"running", "settle"} =>
            at'[g] \in {"running", "settle"} /\ owner'[g] = owner[g]
    <2>1. CASE ArmLoop(r)
      BY <2>1 DEF Inv, TypeOK, ArmLoop, Arm, Spawn
    <2>2. CASE KillUnschedule(r)
      BY <2>2 DEF KillUnschedule, Unschedule, routines
    <2>3. CASE ~ArmLoop(r) /\ ~KillUnschedule(r)
      BY <2>3 DEF HandlerStep, DeleteRow, SleepStatus, DisableRead, DisableWrite, EnableWrite, Schedule,
         ReturnWake, KillList, RegisterWrite, BeatWrite, ReadCopy, routines
    <2> QED
      BY <2>1, <2>2, <2>3
  <1> QED
    BY <1>1, <1>2 DEF Quiet

\* Requests that arrive, of clients that do not write waking themselves.
LEMMA ArrivalWaits ==
    ASSUME Inv, "waking" \notin ClientStatuses, NEW r \in Requests, Arrival(r) PROVE Quiet
  <1>1. \A m \in Marines : status'[m] = "waking" => status[m] = "waking"
    <2>1. CASE Kill(r)
      BY <2>1 DEF Inv, TypeOK, Kill
    <2>2. CASE ~Kill(r)
      <3>1. \A m \in Marines : Create(r, m) \/ Update(r, m) \/ Register(r, m) =>
               \/ status' = status
               \/ \E s \in ClientStatuses : status' = [status EXCEPT ![m] = s]
        BY DEF Create, Update, Register, PutRow, rows
      <3>2. \A m \in Marines :
               (Delete(r, m) \/ Sleep(r, m) \/ Disable(r, m) \/ Enable(r, m) \/ WakeNow(r, m) \/ Beat(r, m))
                  => status' = status
        BY DEF Delete, Sleep, Disable, UnscheduleFirst, Enable, Beat, ReadCopy, WakeNow, rows
      <3>3. \A m \in Marines, s \in ClientStatuses :
               status' = [status EXCEPT ![m] = s] =>
                  \A x \in Marines : status'[x] = "waking" => status[x] = "waking"
        BY DEF Inv, TypeOK
      <3>4. ASSUME NEW m \in Marines, Create(r, m) \/ Update(r, m) \/ Register(r, m)
            PROVE  \A x \in Marines : status'[x] = "waking" => status[x] = "waking"
        BY <3>1, <3>3, <3>4
      <3>5. ASSUME NEW m \in Marines,
                   \/ Delete(r, m) \/ Sleep(r, m) \/ Disable(r, m) \/ Enable(r, m)
                   \/ WakeNow(r, m) \/ Beat(r, m)
            PROVE  \A x \in Marines : status'[x] = "waking" => status[x] = "waking"
        <4>1. status' = status
          BY <3>2, <3>5, Zenon
        <4> QED
          BY <4>1
      <3> QED
        BY <2>2, <3>4, <3>5, Zenon DEF Arrival
    <2> QED
      BY <2>1, <2>2
  <1>2. \A g \in Routines : at[g] \in {"running", "settle"} =>
            at'[g] \in {"running", "settle"} /\ owner'[g] = owner[g]
    <2>1. ASSUME NEW m \in Marines, WakeNow(r, m)
          PROVE  \A g \in Routines : at[g] \in {"running", "settle"} =>
                    at'[g] \in {"running", "settle"} /\ owner'[g] = owner[g]
      BY <2>1 DEF Inv, TypeOK, Accepting, WakeNow, Spawn
    <2>2. CASE ~ \E m \in Marines : WakeNow(r, m)
      BY <2>2 DEF Arrival, Kill, Create, Update, Delete, Sleep, Disable, UnscheduleFirst, Unschedule,
         Enable, Register, Beat, ReadCopy, routines
    <2> QED
      BY <2>1, <2>2
  <1> QED
    BY <1>1, <1>2 DEF Quiet

\* The process starts, serves, stops and ends; a restart takes all goroutines.
LEMMA ServerWaits ==
    ASSUME Inv, ServerStep PROVE WakingStep
  <1>1. CASE Restart
    BY <1>1 DEF Restart, WakingStep
  <1>2. ASSUME NEW m \in Marines, BootSchedule(m) PROVE Quiet
    BY <1>2 DEF Inv, TypeOK, BootSchedule, Arm, Spawn, Quiet, rows, routines
  <1>3. CASE BootDone \/ Stop
    <2>1. Quiet
      BY <1>3 DEF BootDone, Stop, Quiet, rows, routines
    <2> QED
      BY <2>1, QuietWaits
  <1> QED
    BY <1>1, <1>2, <1>3, QuietWaits DEF ServerStep

\* No interleaving of cycles, handlers, boots and stops leaves a marine waking
\* without a goroutine that will write its outcome, for any number of them.
\* (A client or engine that writes the status waking itself is not helped.)
THEOREM WakingIsBusy ==
    ASSUME "waking" \notin ClientStatuses
    PROVE  Spec => WakingOnlyWhileBusy
  <1>1. Inv /\ [Next]_vars => [WakingStep]_vars
    <2> SUFFICES ASSUME Inv, Next PROVE WakingStep
      OBVIOUS
    <2>1. ASSUME NEW l \in Loops, LoopStep(l) PROVE WakingStep
      <3>1. Quiet
        BY <2>1 DEF Inv, TypeOK, LoopStep, Tick, LoopExit, Over, Quiet, rows
      <3> QED
        BY <3>1, QuietWaits
    <2> QED
      BY <2>1, CycleWaits, HandlerWaits, ArrivalWaits, ServerWaits, QuietWaits DEF Next
  <1>2. [WakingStep]_vars =>
          [\A m \in Marines :
              status'[m] = "waking" /\ ~Busy(m)' /\ (\E g \in Routines : at'[g] # "idle")
                  => status[m] = "waking" /\ ~Busy(m)]_vars
    BY DEF WakingStep
  <1> QED
    BY <1>1, <1>2, InvHolds, PTL DEF Spec, WakingOnlyWhileBusy

-----------------------------------------------------------------------------
(* Lifecycle implements the abstract timers of WakeTimers: the map and the *)
(* contexts of the scheduler step as Arm, Disarm, Gone and Reset, and      *)
(* everything else is a stutter.  (That a draining timer is gone in the    *)
(* end is a matter of fairness and is left to the model checker.)          *)

Draining == [l \in Loops |-> DrainingFor(l)]
AbstractStep == [Abstract!Next]_(Abstract!vars)

\* A step that leaves the map and the contexts of all loops alone is a stutter.
LEMMA Stutter ==
    ASSUME UNCHANGED cancels,
           \A l \in Loops : (done'[l] <=> done[l]) /\ owner'[l] = owner[l]
    PROVE  AbstractStep
  <1>1. Draining' = Draining
    BY DEF Draining, DrainingFor
  <1> QED
    BY <1>1 DEF AbstractStep, Abstract!vars, Draining

\* A loop's goroutine that ends was draining, and is gone.
LEMMA EndIsGone ==
    ASSUME Inv, NEW l \in Loops, LoopExit(l)
    PROVE  AbstractStep
  <1>1. l \in Routines /\ at[l] = "select" /\ done[l] /\ owner[l] \in Marines
    BY DEF LoopExit, Inv, Shape, Routines
  <1>2. Draining[l] # None
    BY <1>1, LifecycleAssumption DEF Draining, DrainingFor
  <1>3. Draining' = [Draining EXCEPT ![l] = None]
    BY <1>1, OverFacts DEF LoopExit, Draining, DrainingFor, Inv, Routines
  <1>4. Abstract!Gone(l)
    BY <1>2, <1>3 DEF Abstract!Gone, LoopExit, Draining
  <1> QED
    BY <1>4 DEF AbstractStep, Abstract!Next

\* What cancelling the marines of S does to the draining timers.
LEMMA CancelDrains ==
    ASSUME Inv, NEW S \in SUBSET Marines, Cancel(S),
           NEW l \in Loops, owner'[l] = owner[l]
    PROVE  DrainingFor(l)' = IF \E m \in S : cancels[m] = l
                             THEN CHOOSE m \in S : cancels[m] = l
                             ELSE DrainingFor(l)
  <1>1. \A m \in S : cancels[m] = l => owner[l] = m
    BY LifecycleAssumption DEF Inv, OneTimerPerMarine, TypeOK
  <1>2. done'[l] <=> done[l] \/ \E m \in S : cancels[m] = l
    BY CancelFacts DEF Inv, Routines
  <1>3. CASE \E m \in S : cancels[m] = l
    <2>1. PICK m \in S : cancels[m] = l
      BY <1>3
    <2>2. (CHOOSE x \in S : cancels[x] = l) = m
      BY <1>1, <2>1
    <2> QED
      BY <1>1, <1>2, <1>3, <2>1, <2>2 DEF DrainingFor
  <1>4. CASE ~\E m \in S : cancels[m] = l
    BY <1>2, <1>4 DEF DrainingFor
  <1> QED
    BY <1>3, <1>4

\* Unscheduling, one marine or all of them, disarms.
LEMMA CancelIsDisarm ==
    ASSUME Inv, NEW S \in SUBSET Marines, Cancel(S), UNCHANGED owner,
           cancels' = [m \in Marines |-> IF m \in S THEN None ELSE cancels[m]]
    PROVE  Abstract!Disarm(S)
  <1>1. \A l \in Loops : DrainingFor(l)' = IF \E m \in S : cancels[m] = l
                                           THEN CHOOSE m \in S : cancels[m] = l
                                           ELSE DrainingFor(l)
    BY CancelDrains
  <1> QED
    BY <1>1 DEF Abstract!Disarm, Abstract!DrainOf

LEMMA UnscheduleIsDisarm ==
    ASSUME Inv, NEW m \in Marines, Unschedule(m)
    PROVE  AbstractStep
  <1>1. cancels' = [x \in Marines |-> IF x \in {m} THEN None ELSE cancels[x]]
    BY DEF Unschedule, Inv, TypeOK
  <1>2. Abstract!Disarm({m})
    BY <1>1, CancelIsDisarm DEF Unschedule
  <1> QED
    BY <1>2 DEF AbstractStep, Abstract!Next

\* Arming replaces the marine's timer by an unused one.
LEMMA ArmIsArm ==
    ASSUME Inv, NEW m \in Marines, Arm(m)
    PROVE  AbstractStep
  <1>1. PICK l \in Loops : /\ at[l] = "idle"
                           /\ Cancel({m})
                           /\ cancels' = [cancels EXCEPT ![m] = l]
                           /\ Spawn(l, m)
    BY DEF Arm
  <1>2. l \in Routines /\ ~done[l] /\ \A x \in Marines : cancels[x] # l
    BY <1>1, LifecycleAssumption DEF Inv, Shape, OneTimerPerMarine, Live, Routines, TypeOK
  <1>3. Abstract!Unused(l)
    BY <1>2 DEF Abstract!Unused, DrainingFor
  <1>4. \A t \in Loops : DrainingFor(t)' = IF \E x \in {m} : cancels[x] = t
                                           THEN CHOOSE x \in {m} : cancels[x] = t
                                           ELSE DrainingFor(t)
    <2> SUFFICES ASSUME NEW t \in Loops
                 PROVE  DrainingFor(t)' = IF \E x \in {m} : cancels[x] = t
                                          THEN CHOOSE x \in {m} : cancels[x] = t
                                          ELSE DrainingFor(t)
      OBVIOUS
    <2>1. CASE t = l
      <3>1. ~done'[t]
        BY <1>1, <1>2, <2>1, CancelFacts DEF Inv
      <3> QED
        BY <1>2, <2>1, <3>1 DEF DrainingFor
    <2>2. CASE t # l
      <3>1. owner'[t] = owner[t]
        BY <1>1, <2>2 DEF Spawn, Inv, TypeOK, Routines
      <3> QED
        BY <1>1, <3>1, CancelDrains
    <2> QED
      BY <2>1, <2>2
  <1>5. Abstract!Arm(m)
    BY <1>1, <1>3, <1>4 DEF Abstract!Arm, Abstract!DrainOf
  <1> QED
    BY <1>5 DEF AbstractStep, Abstract!Next

\* Every step of the scheduler, its loops and its handlers is a step of the
\* abstract timers or a stutter.
LEMMA StepSimulation == Inv /\ [Next]_vars => AbstractStep
  <1> SUFFICES ASSUME Inv, [Next]_vars PROVE AbstractStep
    OBVIOUS
  <1> USE DEF routines, Routines
  <1>1. ASSUME NEW g \in Routines, Fetch(g) PROVE AbstractStep
    BY <1>1, Stutter, AfterCycleFacts, LifecycleAssumption DEF Fetch, Inv, Shape
  <1>2. ASSUME NEW g \in Routines, Wake(g) PROVE AbstractStep
    BY <1>2, Stutter DEF Wake
  <1>3. ASSUME NEW g \in Routines, RunEnds(g) PROVE AbstractStep
    BY <1>3, Stutter DEF RunEnds
  <1>4. ASSUME NEW g \in Routines, Settle(g) PROVE AbstractStep
    BY <1>4, Stutter DEF Settle
  <1>5. ASSUME NEW g \in Routines, Record(g) PROVE AbstractStep
    BY <1>5, Stutter, AfterCycleFacts, LifecycleAssumption DEF Record, Inv, Shape
  <1>6. ASSUME NEW l \in Loops, Tick(l) PROVE AbstractStep
    BY <1>6, Stutter DEF Tick
  <1>7. ASSUME NEW l \in Loops, LoopExit(l) PROVE AbstractStep
    BY <1>7, EndIsGone
  <1>8. ASSUME NEW r \in Requests, DeleteRow(r) PROVE AbstractStep
    BY <1>8, Stutter DEF DeleteRow
  <1>9. ASSUME NEW r \in Requests, SleepStatus(r) PROVE AbstractStep
    BY <1>9, Stutter DEF SleepStatus
  <1>10. ASSUME NEW r \in Requests, DisableRead(r) PROVE AbstractStep
    BY <1>10, Stutter DEF DisableRead, ReadCopy
  <1>11. ASSUME NEW r \in Requests, DisableWrite(r) PROVE AbstractStep
    BY <1>11, Stutter DEF DisableWrite
  <1>12. ASSUME NEW r \in Requests, EnableWrite(r) PROVE AbstractStep
    BY <1>12, Stutter DEF EnableWrite
  <1>13. ASSUME NEW r \in Requests, Schedule(r) PROVE AbstractStep
    BY <1>13, Stutter DEF Schedule
  <1>14. ASSUME NEW r \in Requests, ArmLoop(r) PROVE AbstractStep
    BY <1>14, ArmIsArm DEF ArmLoop, Inv, Shape
  <1>15. ASSUME NEW r \in Requests, ReturnWake(r) PROVE AbstractStep
    BY <1>15, Stutter, LifecycleAssumption DEF ReturnWake, Inv, TypeOK
  <1>16. ASSUME NEW r \in Requests, KillList(r) PROVE AbstractStep
    BY <1>16, Stutter DEF KillList
  <1>17. ASSUME NEW r \in Requests, KillUnschedule(r) PROVE AbstractStep
    <2>1. CASE \E m \in targets[r] : Unschedule(m)
      BY <2>1, UnscheduleIsDisarm DEF Inv, TypeOK
    <2>2. CASE UNCHANGED <<routines, cancels>>
      BY <2>2, Stutter
    <2> QED
      BY <1>17, <2>1, <2>2 DEF KillUnschedule
  <1>18. ASSUME NEW r \in Requests, Kill(r) PROVE AbstractStep
    BY <1>18, Stutter DEF Kill
  <1>19. ASSUME NEW r \in Requests, NEW m \in Marines, Create(r, m) PROVE AbstractStep
    BY <1>19, Stutter DEF Create
  <1>20. ASSUME NEW r \in Requests, NEW m \in Marines, Update(r, m) PROVE AbstractStep
    BY <1>20, Stutter DEF Update
  <1>21. ASSUME NEW r \in Requests, NEW m \in Marines, Delete(r, m) PROVE AbstractStep
    BY <1>21, UnscheduleIsDisarm DEF Delete, UnscheduleFirst
  <1>22. ASSUME NEW r \in Requests, NEW m \in Marines, Sleep(r, m) PROVE AbstractStep
    BY <1>22, UnscheduleIsDisarm DEF Sleep, UnscheduleFirst
  <1>23. ASSUME NEW r \in Requests, NEW m \in Marines, Disable(r, m) PROVE AbstractStep
    BY <1>23, UnscheduleIsDisarm DEF Disable, UnscheduleFirst
  <1>24. ASSUME NEW r \in Requests, NEW m \in Marines, Enable(r, m) PROVE AbstractStep
    BY <1>24, Stutter DEF Enable, ReadCopy
  <1>25. ASSUME NEW r \in Requests, NEW m \in Marines, WakeNow(r, m) PROVE AbstractStep
    BY <1>25, Stutter, LifecycleAssumption DEF WakeNow, Spawn, Inv, TypeOK
  <1>26. ASSUME NEW m \in Marines, BootSchedule(m) PROVE AbstractStep
    <2>1. CASE Arm(m)
      BY <2>1, ArmIsArm
    <2>2. CASE UNCHANGED <<routines, cancels>>
      BY <2>2, Stutter
    <2> QED
      BY <1>26, <2>1, <2>2 DEF BootSchedule
  <1>27. ASSUME BootDone PROVE AbstractStep
    BY <1>27, Stutter DEF BootDone
  <1>28. ASSUME Stop PROVE AbstractStep
    <2>1. cancels' = [m \in Marines |-> IF m \in Marines THEN None ELSE cancels[m]]
      BY <1>28 DEF Stop
    <2>2. Abstract!Disarm(Marines)
      BY <1>28, <2>1, CancelIsDisarm DEF Stop
    <2> QED
      BY <2>2 DEF AbstractStep, Abstract!Next
  <1>29. ASSUME Restart PROVE AbstractStep
    <2>1. Abstract!Reset
      BY <1>29 DEF Restart, Abstract!Reset, DrainingFor
    <2> QED
      BY <2>1 DEF AbstractStep, Abstract!Next
  <1>30. CASE UNCHANGED vars
    BY <1>30, Stutter DEF vars
  <1>31. ASSUME NEW r \in Requests, RegisterWrite(r) PROVE AbstractStep
    BY <1>31, Stutter DEF RegisterWrite
  <1>32. ASSUME NEW r \in Requests, BeatWrite(r) PROVE AbstractStep
    BY <1>32, Stutter DEF BeatWrite
  <1>33. ASSUME NEW r \in Requests, NEW m \in Marines, Register(r, m) PROVE AbstractStep
    BY <1>33, Stutter DEF Register
  <1>34. ASSUME NEW r \in Requests, NEW m \in Marines, Beat(r, m) PROVE AbstractStep
    BY <1>34, Stutter DEF Beat, ReadCopy
  <1> QED
    BY <1>1, <1>2, <1>3, <1>4, <1>5, <1>6, <1>7, <1>8, <1>9, <1>10, <1>11, <1>12, <1>13, <1>14, <1>15, <1>16, <1>17, <1>18, <1>19, <1>20, <1>21, <1>22, <1>23, <1>24, <1>25, <1>26, <1>27, <1>28, <1>29, <1>30, <1>31, <1>32, <1>33, <1>34 DEF Next, ServerStep, CycleStep, LoopStep, HandlerStep, Arrival

\* The detailed scheduler implements the abstract timers.
THEOREM ImplementsTimersSafety == Spec => Abstract!Spec
  <1>1. Init => Abstract!Init
    BY DEF Init, Abstract!Init, DrainingFor, Routines
  <1>2. Inv /\ [Next]_vars => [Abstract!Next]_(Abstract!vars)
    BY StepSimulation DEF AbstractStep
  <1> QED
    BY <1>1, <1>2, InvHolds, PTL DEF Spec, Abstract!Spec
=============================================================================
