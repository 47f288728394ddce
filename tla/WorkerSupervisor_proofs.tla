----------------------- MODULE WorkerSupervisor_proofs -----------------------
(***************************************************************************)
(* What the supervisor leaves behind when run_forever returns, for every   *)
(* number of roles and every choice of faults: no worker still runs, and   *)
(* the registry says of each how it ended.                                 *)
(***************************************************************************)
EXTENDS WorkerSupervisor, TLAPS

\* A slot that the last loop of the finally block has passed has its final status,
\* and the late writes of the worker's hooks cannot replace it.
Reported(i) ==
    /\ record[i] \in {"SHUTDOWN", "CRASHED"}
    /\ shutdownRequested \/ proc[i] \in {"done", "killed"} => record[i] = "SHUTDOWN"
    /\ ~shutdownRequested /\ proc[i] = "crashed" => record[i] = "CRASHED"
    /\ record[i] = "CRASHED" => proc[i] \in {"crashed", "slain"}

\* Which subprocesses exist: those of the slots the first loop has passed, and all
\* of them from the try block on.
Started ==
    /\ pc \in {"announce", "spawn"} => \A i \in Slots : i < at => proc[i] # "none"
    /\ pc = "mark" => \A i \in Slots : i <= at => proc[i] # "none"
    /\ pc \notin Booting \cup {"aborted"} => \A i \in Slots : proc[i] # "none"

\* Past _terminate_workers nothing runs.
Ended == pc \in {"reporting", "stopped"} => \A i \in Slots : proc[i] = "killed" \/ Exited(i)

\* Nobody is killed who was not told to go before: the deadline is the end of a drain,
\* and the loop before it has told all who still ran.
ToldFirst ==
    /\ \A i \in Slots : proc[i] \in {"killed", "slain"} => told[i] /\ pc \in {"reporting"} \cup Over
    /\ pc = "terminating" => \A i \in Slots : i < at /\ Polls(i) => told[i]
    /\ pc = "draining" => \A i \in Slots : Polls(i) => told[i]

LastWord ==
    /\ pc = "draining" => at = 1
    /\ pc = "reporting" => \A i \in Slots : i < at => Reported(i)
    /\ pc = "stopped" => \A i \in Slots : Reported(i)

IInv == TypeOK /\ Started /\ Ended /\ ToldFirst /\ LastWord
-----------------------------------------------------------------------------
(***************************************************************************)
(* Types                                                                   *)
(***************************************************************************)

\* The supervisor's own steps keep every variable in its type; the slot its loop is
\* at stays within the slots.
LEMMA SuperviseKeepsTypes == TypeOK /\ (Supervise \/ Interrupt \/ Restart) => TypeOK'
<1> USE SupervisorAssumption DEF TypeOK, Slots
<1> SUFFICES ASSUME TypeOK, Supervise \/ Interrupt \/ Restart
             PROVE  TypeOK'
  OBVIOUS
<1>1. CASE Announce
  BY <1>1 DEF Announce, Goto, Upsert, Location, Booting, Status, procVars
<1>2. CASE Spawn
  BY <1>2 DEF Spawn, Goto, Location, Booting, Alive, recordVars
<1>3. CASE MarkReady
  BY <1>3 DEF MarkReady, Upsert, Location, Booting, InTry, Status, procVars
<1>4. CASE TickStart
  BY <1>4 DEF TickStart, Goto, Location, InTry, procVars, recordVars
<1>5. CASE TickSlot
  <2>1. at' \in Slots /\ pc' \in Location
    BY <1>5 DEF TickSlot, NextSlot, Location, InTry
  <2>2. record' \in [Slots -> {"NONE"} \cup Status] /\ fresh' \in [Slots -> BOOLEAN]
    BY <1>5 DEF TickSlot, Upsert, Status, recordVars
  <2> QED
    BY <1>5, <2>1, <2>2 DEF TickSlot, procVars
<1>6. ASSUME NEW i \in Slots, Detect(i)
      PROVE  TypeOK'
  BY <1>6 DEF Detect, Goto, Location, InTry, procVars, recordVars
<1>7. CASE ReportExit
  BY <1>7 DEF ReportExit, Goto, Upsert, StatusOfExit, Location, InFinally, Status, procVars
<1>8. CASE ReportSignal
  BY <1>8 DEF ReportSignal, NextSlot, Upsert, Location, InFinally, Status, procVars
<1>9. CASE TerminateSlot
  BY <1>9 DEF TerminateSlot, NextSlot, Polls, Location, InFinally, recordVars
<1>10. CASE Drained
  BY <1>10 DEF Drained, Goto, Location, InFinally, procVars, recordVars
<1>11. CASE Deadline
  BY <1>11 DEF Deadline, Goto, Location, InFinally, recordVars
<1>12. CASE ReportFinal
  BY <1>12 DEF ReportFinal, NextSlot, Upsert, FinalStatus, StatusOfExit, Location, InFinally,
               Over, Status, procVars
<1>13. CASE Signal
  BY <1>13 DEF Signal, Location, InFinally, Over, procVars, recordVars
<1>14. CASE RegistryFails
  <2>1. pc' \in Location /\ at' \in Slots
    BY <1>14 DEF RegistryFails, Location, InFinally, Over
  <2>2. shutdownRequested' \in BOOLEAN
    <3>1. \/ shutdownRequested' = shutdownRequested
          \/ shutdownRequested' = (shutdownRequested \/ pc = "signalled")
      BY <1>14, Zenon DEF RegistryFails
    <3> QED
      BY <3>1, Zenon
  <2> QED
    BY <1>14, <2>1, <2>2 DEF RegistryFails, procVars, recordVars
<1>15. CASE SpawnFails
  BY <1>15 DEF SpawnFails, Goto, Location, Over, procVars, recordVars
<1>16. CASE Restart
  <2>1. pc' \in Location /\ at' \in Slots
    BY <1>16 DEF Restart, Location, Booting
  <2>2. shutdownRequested' \in BOOLEAN
    BY <1>16, Zenon DEF Restart
  <2>3. proc' \in [Slots -> {"none", "killed"} \cup Alive \cup Exit]
    BY <1>16 DEF Restart
  <2>4. told' \in [Slots -> BOOLEAN]
    BY <1>16 DEF Restart
  <2> QED
    BY <1>16, <2>1, <2>2, <2>3, <2>4 DEF Restart, recordVars
<1> QED
  BY <1>1, <1>2, <1>3, <1>4, <1>5, <1>6, <1>7, <1>8, <1>9, <1>10, <1>11, <1>12, <1>13, <1>14,
     <1>15, <1>16 DEF Supervise, Interrupt

\* A step of a worker process starts from an existing process, leads to another
\* state of one, and touches nothing of the supervisor's.
LEMMA ChildStep ==
    ASSUME TypeOK, NEW i \in Slots, Child(i)
    PROVE  /\ \E to \in Alive \cup Exit : proc' = [proc EXCEPT ![i] = to]
           /\ proc[i] \in Alive \cup {"killed"}
           /\ \/ record' = record
              \/ /\ proc[i] \in Alive
                 /\ \E s \in Status : record' = [record EXCEPT ![i] = s]
           /\ fresh' \in [Slots -> BOOLEAN]
           /\ proc[i] = "killed" <=> proc'[i] = "slain"
           /\ UNCHANGED <<pc, at, told, shutdownRequested>>
<1> USE DEF TypeOK, Alive, Exit, Status
<1>1. CASE ChildSetup(i)
  BY <1>1 DEF ChildSetup, Touch, Upsert, recordVars
<1>2. CASE ChildReady(i)
  BY <1>2 DEF ChildReady, Touch, Upsert, recordVars
<1>3. CASE ChildStops(i)
  BY <1>3 DEF ChildStops, Touch, Upsert, recordVars
<1>4. CASE ChildExits(i)
  BY <1>4 DEF ChildExits, ChildEnds, recordVars
<1>5. CASE ChildCrashes(i)
  BY <1>5 DEF ChildCrashes, ChildEnds, recordVars
<1>6. CASE ChildReaped(i)
  BY <1>6 DEF ChildReaped, ChildEnds, recordVars
<1> QED
  BY <1>1, <1>2, <1>3, <1>4, <1>5, <1>6 DEF Child

\* Every step keeps every variable in its type.
LEMMA NextKeepsTypes == TypeOK /\ [Next]_vars => TypeOK'
<1> SUFFICES ASSUME TypeOK, [Next]_vars
             PROVE  TypeOK'
  OBVIOUS
<1>1. ASSUME NEW i \in Slots, Child(i)
      PROVE  TypeOK'
  BY <1>1, ChildStep DEF TypeOK, Alive, Exit, Status
<1>2. ASSUME NEW i \in Slots, Age(i)
      PROVE  TypeOK'
  BY <1>2 DEF Age, TypeOK, procVars
<1>3. CASE UNCHANGED vars
  BY <1>3 DEF vars, procVars, recordVars, TypeOK
<1> QED
  BY <1>1, <1>2, <1>3, SuperviseKeepsTypes DEF Next

-----------------------------------------------------------------------------
(***************************************************************************)
(* One step of the strengthened invariant                                  *)
(***************************************************************************)

\* The first loop starts the subprocesses in the order of the slots, and no
\* subprocess ceases to exist before the container is restarted.
LEMMA StartedStep == TypeOK /\ Started /\ [Next]_vars => Started'
<1> USE SupervisorAssumption DEF TypeOK, Started, Slots, Booting
<1> SUFFICES ASSUME TypeOK, Started, [Next]_vars
             PROVE  Started'
  OBVIOUS
<1>1. CASE Announce
  BY <1>1 DEF Announce, Goto, procVars
<1>2. CASE Spawn
  BY <1>2 DEF Spawn, Goto
<1>3. CASE MarkReady
  BY <1>3 DEF MarkReady, procVars
<1>4. CASE TickStart \/ Drained \/ \E i \in Slots : Detect(i)
  BY <1>4 DEF TickStart, Drained, Detect, Goto, procVars
<1>5. CASE TickSlot \/ ReportExit \/ ReportSignal \/ TerminateSlot \/ ReportFinal
  BY <1>5 DEF TickSlot, ReportExit, ReportSignal, TerminateSlot, ReportFinal, NextSlot, Goto,
              procVars
<1>6. CASE Deadline
  BY <1>6 DEF Deadline, Goto
<1>7. CASE Signal
  BY <1>7 DEF Signal, InTry, InFinally, procVars
<1>8. CASE RegistryFails \/ SpawnFails
  BY <1>8 DEF RegistryFails, SpawnFails, Goto, procVars
<1>9. CASE Restart
  BY <1>9 DEF Restart
<1>10. ASSUME NEW i \in Slots, Child(i)
       PROVE  Started'
  BY <1>10, ChildStep DEF Alive, Exit
<1>11. ASSUME NEW i \in Slots, Age(i)
       PROVE  Started'
  BY <1>11 DEF Age, procVars
<1>12. CASE UNCHANGED vars
  BY <1>12 DEF vars, procVars
<1> QED
  BY <1>1, <1>2, <1>3, <1>4, <1>5, <1>6, <1>7, <1>8, <1>9, <1>10, <1>11, <1>12
  DEF Next, Supervise, Interrupt

\* The drain ends with every process exited, or at the deadline that kills the rest;
\* none is started after it.
LEMMA EndedStep == TypeOK /\ Started /\ Ended /\ [Next]_vars => Ended'
<1> USE DEF TypeOK, Ended, Exited, Exit
<1> SUFFICES ASSUME TypeOK, Started, Ended, [Next]_vars
             PROVE  Ended'
  OBVIOUS
<1>1. CASE Drained
  BY <1>1 DEF Drained, Goto, procVars
<1>2. CASE Deadline
  <2>1. pc = "draining" /\ proc' = [i \in Slots |-> IF Polls(i) THEN "killed" ELSE proc[i]]
    BY <1>2 DEF Deadline, Goto
  <2>2. \A i \in Slots : proc[i] # "none"
    BY <2>1 DEF Started, Booting
  <2> QED
    BY <2>1, <2>2 DEF Polls, Alive
<1>3. CASE ReportFinal
  BY <1>3 DEF ReportFinal, NextSlot, procVars
<1>4. CASE Announce \/ Spawn \/ MarkReady
  BY <1>4 DEF Announce, Spawn, MarkReady, Goto
<1>5. CASE TickStart \/ ReportExit \/ \E i \in Slots : Detect(i)
  BY <1>5 DEF TickStart, ReportExit, Detect, Goto
<1>6. CASE TickSlot \/ ReportSignal \/ TerminateSlot
  BY <1>6 DEF TickSlot, ReportSignal, TerminateSlot, NextSlot
<1>7. CASE Interrupt \/ Restart
  BY <1>7 DEF Interrupt, Signal, RegistryFails, SpawnFails, Goto, Restart
<1>8. ASSUME NEW i \in Slots, Child(i)
      PROVE  Ended'
  BY <1>8, ChildStep DEF Alive
<1>9. ASSUME NEW i \in Slots, Age(i)
      PROVE  Ended'
  BY <1>9 DEF Age, procVars
<1>10. CASE UNCHANGED vars
  BY <1>10 DEF vars, procVars
<1> QED
  BY <1>1, <1>2, <1>3, <1>4, <1>5, <1>6, <1>7, <1>8, <1>9, <1>10 DEF Next, Supervise

\* SIGTERM goes to every worker that polls as running, SIGKILL to those only that had
\* five seconds since.
LEMMA ToldFirstStep == TypeOK /\ ToldFirst /\ [Next]_vars => ToldFirst'
<1> USE SupervisorAssumption DEF TypeOK, ToldFirst, Over, Polls, Alive, Exit, Slots
<1> SUFFICES ASSUME TypeOK, ToldFirst, [Next]_vars
             PROVE  ToldFirst'
  OBVIOUS
<1>1. CASE TerminateSlot
  <2>1. /\ pc = "terminating" /\ UNCHANGED proc
        /\ \A i \in Slots : i # at => told'[i] = told[i]
    BY <1>1 DEF TerminateSlot, NextSlot
  <2>2. Polls(at) => told'[at]
    <3> HIDE DEF Polls
    <3> QED
      BY <1>1 DEF TerminateSlot, NextSlot
  <2>3. \A i \in Slots : proc[i] \notin {"killed", "slain"}
    BY <2>1
  <2>4. CASE at < N
    BY <1>1, <2>1, <2>2, <2>3, <2>4 DEF TerminateSlot, NextSlot
  <2>5. CASE ~(at < N)
    BY <1>1, <2>1, <2>2, <2>3, <2>5 DEF TerminateSlot, NextSlot
  <2> QED
    BY <2>4, <2>5
<1>2. CASE Deadline
  BY <1>2 DEF Deadline, Goto
<1>3. CASE Drained \/ ReportFinal
  BY <1>3 DEF Drained, ReportFinal, Goto, NextSlot, procVars
<1>4. CASE Announce \/ Spawn \/ MarkReady
  BY <1>4 DEF Announce, Spawn, MarkReady, Goto, procVars
<1>5. CASE TickStart \/ ReportExit \/ \E i \in Slots : Detect(i)
  BY <1>5 DEF TickStart, ReportExit, Detect, Goto, procVars
<1>6. CASE TickSlot \/ ReportSignal
  BY <1>6 DEF TickSlot, ReportSignal, NextSlot, procVars
<1>7. CASE Interrupt
  BY <1>7 DEF Interrupt, Signal, RegistryFails, SpawnFails, Goto, procVars, InFinally, Booting, InTry
<1>8. CASE Restart
  BY <1>8 DEF Restart
<1>9. ASSUME NEW i \in Slots, Child(i)
      PROVE  ToldFirst'
  BY <1>9, ChildStep
<1>10. ASSUME NEW i \in Slots, Age(i)
       PROVE  ToldFirst'
  BY <1>10 DEF Age, procVars
<1>11. CASE UNCHANGED vars
  BY <1>11 DEF vars, procVars
<1> QED
  BY <1>1, <1>2, <1>3, <1>4, <1>5, <1>6, <1>7, <1>8, <1>9, <1>10, <1>11 DEF Next, Supervise

\* The last loop writes the final status of one slot after the other; by then the
\* hooks of every worker have had their say.
LEMMA LastWordStep == TypeOK /\ Ended /\ LastWord /\ [Next]_vars => LastWord'
<1> USE SupervisorAssumption DEF TypeOK, LastWord
<1> SUFFICES ASSUME TypeOK, Ended, LastWord, [Next]_vars
             PROVE  LastWord'
  OBVIOUS
<1>1. CASE ReportFinal
  <2>1. pc = "reporting" /\ record' = [record EXCEPT ![at] = FinalStatus(at)]
        /\ UNCHANGED <<proc, shutdownRequested>>
    BY <1>1 DEF ReportFinal, NextSlot, Upsert, procVars
  <2>2. ASSUME NEW i \in Slots, i = at
        PROVE  Reported(i)'
    BY <2>1, <2>2 DEF Reported, FinalStatus, StatusOfExit, Ended, Polls, Exited, Alive, Exit
  <2>3. ASSUME NEW i \in Slots, i < at
        PROVE  Reported(i)'
    BY <2>1, <2>3 DEF Reported, Slots
  <2> QED
    <3>1. CASE at < N
      BY <1>1, <2>2, <2>3, <3>1 DEF ReportFinal, NextSlot, Slots
    <3>2. CASE ~(at < N)
      BY <1>1, <2>2, <2>3, <3>2 DEF ReportFinal, NextSlot, Slots
    <3> QED
      BY <3>1, <3>2
<1>2. CASE Drained \/ Deadline
  BY <1>2 DEF Drained, Deadline, Goto, Slots
<1>3. CASE TerminateSlot
  BY <1>3 DEF TerminateSlot, NextSlot
<1>4. CASE Announce \/ Spawn \/ MarkReady
  BY <1>4 DEF Announce, Spawn, MarkReady, Goto
<1>5. CASE TickStart \/ ReportExit \/ \E i \in Slots : Detect(i)
  BY <1>5 DEF TickStart, ReportExit, Detect, Goto
<1>6. CASE TickSlot \/ ReportSignal
  BY <1>6 DEF TickSlot, ReportSignal, NextSlot
<1>7. CASE Interrupt \/ Restart
  BY <1>7 DEF Interrupt, Signal, RegistryFails, SpawnFails, Goto, Restart
<1>8. ASSUME NEW i \in Slots, Child(i)
      PROVE  LastWord'
  <2>1. CASE pc \in {"reporting", "stopped"}
    <3>1. proc[i] = "killed" /\ record' = record
      BY <1>8, <2>1, ChildStep DEF Ended, Exited, Alive, Exit
    <3>2. \A j \in Slots : proc'[j] = IF j = i THEN "slain" ELSE proc[j]
      BY <1>8, <3>1, ChildStep
    <3>3. \A j \in Slots : Reported(j) => Reported(j)'
      BY <1>8, <3>1, <3>2, ChildStep DEF Reported
    <3> QED
      BY <1>8, <2>1, <3>3, ChildStep
  <2>2. CASE pc \notin {"reporting", "stopped"}
    BY <1>8, <2>2, ChildStep
  <2> QED
    BY <2>1, <2>2
<1>9. ASSUME NEW i \in Slots, Age(i)
      PROVE  LastWord'
  BY <1>9 DEF Age, procVars
<1>10. CASE UNCHANGED vars
  BY <1>10 DEF vars, procVars, recordVars, Reported
<1> QED
  BY <1>1, <1>2, <1>3, <1>4, <1>5, <1>6, <1>7, <1>8, <1>9, <1>10 DEF Next, Supervise

-----------------------------------------------------------------------------
\* The strengthened invariant holds of every behavior.
LEMMA Invariance == Spec => []IInv
<1>1. Init => IInv
  <2> SUFFICES ASSUME Init
               PROVE  IInv
    OBVIOUS
  <2>1. TypeOK
    <3>1. pc \in Location /\ at \in Slots
      BY SupervisorAssumption DEF Init, Location, Booting, Slots
    <3>2. shutdownRequested \in BOOLEAN
      BY Zenon DEF Init
    <3> QED
      BY <3>1, <3>2 DEF Init, TypeOK
  <2>2. Started /\ Ended /\ ToldFirst /\ LastWord
    BY DEF Init, Started, Ended, ToldFirst, LastWord, Slots, Booting
  <2> QED
    BY <2>1, <2>2 DEF IInv
<1>2. IInv /\ [Next]_vars => IInv'
  BY NextKeepsTypes, StartedStep, EndedStep, ToldFirstStep, LastWordStep DEF IInv
<1> QED
  BY <1>1, <1>2, PTL DEF Spec

\* Every variable keeps its type: a slot number never leaves the slots, whatever
\* exception interrupts whichever loop.
THEOREM TypesHold == Spec => []TypeOK
BY Invariance, PTL DEF IInv

\* When run_forever returns, no worker it started still runs, whichever of them
\* exited first, crashed meanwhile or ignored SIGTERM.
THEOREM WorkersAreGone == Spec => []NoOrphans
<1>1. IInv => NoOrphans
  BY DEF IInv, Ended, NoOrphans
<1> QED
  BY <1>1, Invariance, PTL

\* ... and the registry has SHUTDOWN or CRASHED for each worker as its exit code (or a
\* signal to the supervisor) demands.  CRASHED is true of a worker the supervisor had
\* not told to go; others may have it for being terminated or killed.
THEOREM LastRecordIsOfExit == Spec => []FinalRecordIsOfExit
<1>1. IInv => FinalRecordIsOfExit
  BY DEF IInv, ToldFirst, LastWord, Reported, FinalRecordIsOfExit
<1> QED
  BY <1>1, Invariance, PTL
=============================================================================
