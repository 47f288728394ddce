-------------------------- MODULE WorkerSupervisor --------------------------
(***************************************************************************)
(* The main process of a core node: worker_process.run_forever starts one  *)
(* celery subprocess per role, waits for the first of them to exit or for  *)
(* a stop signal, and takes the others down.  Three parties write the      *)
(* status of a worker in the registry: the supervisor, the worker itself   *)
(* (the celery signal hooks of core/queue/tasks.py), and, through them,    *)
(* whoever stops a worker remotely.                                        *)
(*                                                                         *)
(* The handler of SIGTERM and SIGINT raises KeyboardInterrupt wherever the *)
(* supervisor is: before the try block, inside it, in its except block, or *)
(* in its finally block.  So does a registry that cannot be reached.       *)
(***************************************************************************)
EXTENDS Integers

CONSTANTS
    N,      \* the number of roles this node runs
    Faults  \* what may go wrong

FaultKinds == {"signal", "registry", "spawn", "crash", "remote"}

ASSUME SupervisorAssumption == N \in Nat \ {0} /\ Faults \subseteq FaultKinds

Slots == 1 .. N

VARIABLES
    pc,                 \* where the supervisor is
    at,                 \* the slot its current loop is at
    proc,               \* the subprocess of a slot
    told,               \* SIGTERM was sent to the subprocess of a slot
    shutdownRequested,  \* the except block has run
    record,             \* status of the worker of a slot in the registry
    fresh               \* its last_heartbeat_at is recent

vars == <<pc, at, proc, told, shutdownRequested, record, fresh>>
procVars   == <<proc, told>>
recordVars == <<record, fresh>>

Booting   == {"announce", "spawn", "mark"}
InTry     == {"waiting", "ticking", "exited"}
InFinally == {"terminating", "draining", "reporting"}
Over      == {"stopped", "aborted"}
Location  == Booting \cup InTry \cup {"signalled"} \cup InFinally \cup Over

\* "killed": SIGKILL was sent and the process is not reaped, poll() is None.
Alive  == {"spawned", "setup", "up", "exiting"}
Exit   == {"done", "crashed", "slain"}
Status == {"STARTING", "READY", "SHUTDOWN", "CRASHED"}

TypeOK ==
    /\ pc \in Location
    /\ at \in Slots
    /\ proc \in [Slots -> {"none", "killed"} \cup Alive \cup Exit]
    /\ told \in [Slots -> BOOLEAN]
    /\ shutdownRequested \in BOOLEAN
    /\ record \in [Slots -> {"NONE"} \cup Status]
    /\ fresh \in [Slots -> BOOLEAN]

Init ==
    /\ pc = "announce"
    /\ at = 1
    /\ proc = [i \in Slots |-> "none"]
    /\ told = [i \in Slots |-> FALSE]
    /\ shutdownRequested = FALSE
    /\ record = [i \in Slots |-> "NONE"]
    /\ fresh = [i \in Slots |-> FALSE]

Polls(i)  == proc[i] \in Alive \cup {"killed"}   \* poll() is None
Exited(i) == proc[i] \in Exit

Goto(from, to) == pc = from /\ pc' = to

\* Mutant: the loop runs once more.
NextSlotTooFar(loop, to) ==
    /\ pc = loop
    /\ IF at <= N THEN at' = at + 1 /\ pc' = loop ELSE at' = 1 /\ pc' = to
\* The end of a round of a loop over the slots.
NextSlot(loop, to) ==
    /\ pc = loop
    /\ IF at < N THEN at' = at + 1 /\ pc' = loop ELSE at' = 1 /\ pc' = to

\* upsert_worker replaces the document; it also renews last_heartbeat_at.
Upsert(i, status) ==
    /\ record' = [record EXCEPT ![i] = status]
    /\ fresh' = [fresh EXCEPT ![i] = TRUE]

StatusOfExit(i) == IF proc[i] = "done" THEN "SHUTDOWN" ELSE "CRASHED"

(***************************************************************************)
(* run_forever: starting the workers, before the try block                 *)
(***************************************************************************)

Announce ==
    /\ Goto("announce", "spawn")
    /\ Upsert(at, "STARTING")
    /\ UNCHANGED <<at, procVars, shutdownRequested>>

Spawn ==
    /\ Goto("spawn", "mark")
    /\ proc' = [proc EXCEPT ![at] = "spawned"]
    /\ UNCHANGED <<at, told, shutdownRequested, recordVars>>

\* READY says that the subprocess was started, not that its celery is.
MarkReady ==
    /\ pc = "mark"
    /\ Upsert(at, "READY")
    /\ IF at < N THEN at' = at + 1 /\ pc' = "announce" ELSE at' = 1 /\ pc' = "waiting"
    /\ UNCHANGED <<procVars, shutdownRequested>>

(***************************************************************************)
(* _wait_for_any_exit                                                      *)
(***************************************************************************)

\* Every five seconds when no poll has found an exit.  A supervisor of one worker
\* blocks in wait() and has no ticks.
TickStart ==
    /\ N > 1
    /\ \A i \in Slots : Polls(i)
    /\ Goto("waiting", "ticking")
    /\ UNCHANGED <<at, procVars, shutdownRequested, recordVars>>

\* Mutant: the tick renews the dead.
TickExited ==
    /\ NextSlot("ticking", "waiting")
    /\ \/ Exited(at) /\ Upsert(at, "READY")
       \/ Polls(at) /\ UNCHANGED recordVars
    /\ UNCHANGED <<procVars, shutdownRequested>>
TickSlot ==
    /\ NextSlot("ticking", "waiting")
    /\ \/ Polls(at) /\ Upsert(at, "READY")
       \/ Exited(at) /\ UNCHANGED recordVars
    /\ UNCHANGED <<procVars, shutdownRequested>>

\* Mutant: wait() on the first worker, whatever their number.
DetectFirst(i) ==
    /\ i = 1
    /\ Exited(i)
    /\ Goto("waiting", "exited")
    /\ at' = i
    /\ UNCHANGED <<procVars, shutdownRequested, recordVars>>
Detect(i) ==
    /\ Exited(i)
    /\ Goto("waiting", "exited")
    /\ at' = i
    /\ UNCHANGED <<procVars, shutdownRequested, recordVars>>

ReportExit ==
    /\ Goto("exited", "terminating")
    /\ Upsert(at, StatusOfExit(at))
    /\ at' = 1
    /\ UNCHANGED <<procVars, shutdownRequested>>

\* The except block.
ReportSignal ==
    /\ NextSlot("signalled", "terminating")
    /\ shutdownRequested' = TRUE
    /\ Upsert(at, "SHUTDOWN")
    /\ UNCHANGED procVars

(***************************************************************************)
(* The finally block: _terminate_workers, then the last word on each slot  *)
(***************************************************************************)

TerminateSlot ==
    /\ NextSlot("terminating", "draining")
    /\ told' = [told EXCEPT ![at] = Polls(at)]
    /\ UNCHANGED <<proc, shutdownRequested, recordVars>>

Drained ==
    /\ \A i \in Slots : Exited(i)
    /\ Goto("draining", "reporting")
    /\ UNCHANGED <<at, procVars, shutdownRequested, recordVars>>

\* Mutant: the workers that ignored SIGTERM for five seconds are left alone.
DeadlineSpares ==
    /\ Goto("draining", "reporting")
    /\ UNCHANGED <<at, procVars, shutdownRequested, recordVars>>
Deadline ==
    /\ Goto("draining", "reporting")
    /\ proc' = [i \in Slots |-> IF Polls(i) THEN "killed" ELSE proc[i]]
    /\ UNCHANGED <<at, told, shutdownRequested, recordVars>>

\* Mutant: the exit code decides although a shutdown was requested.
FinalStatusByCode(i) == IF Polls(i) THEN "SHUTDOWN" ELSE StatusOfExit(i)
FinalStatus(i) == IF shutdownRequested \/ Polls(i) THEN "SHUTDOWN" ELSE StatusOfExit(i)

ReportFinal ==
    /\ NextSlot("reporting", "stopped")
    /\ Upsert(at, FinalStatus(at))
    /\ UNCHANGED <<procVars, shutdownRequested>>

(***************************************************************************)
(* Exceptions, wherever they find the supervisor                           *)
(***************************************************************************)

\* Before the try block and inside the finally block nothing catches them; in
\* the except block they lead to the finally block.
Signal ==
    /\ "signal" \in Faults
    /\ \/ pc \in Booting \cup InFinally /\ pc' = "aborted" /\ at' = at
       \/ pc \in InTry                  /\ pc' = "signalled" /\ at' = 1
       \/ pc = "signalled"              /\ pc' = "terminating" /\ at' = 1
    /\ UNCHANGED <<procVars, shutdownRequested, recordVars>>

RegistryFails ==
    /\ "registry" \in Faults
    /\ \/ /\ pc \in {"announce", "mark", "reporting"}
          /\ pc' = "aborted"
          /\ UNCHANGED <<at, shutdownRequested>>
       \/ /\ pc \in {"ticking", "exited", "signalled"}
          /\ pc = "ticking" => Polls(at)
          /\ pc' = "terminating"
          /\ at' = 1
          /\ shutdownRequested' = (shutdownRequested \/ pc = "signalled")
    /\ UNCHANGED <<procVars, recordVars>>

SpawnFails ==
    /\ "spawn" \in Faults
    /\ Goto("spawn", "aborted")
    /\ UNCHANGED <<at, procVars, shutdownRequested, recordVars>>

\* The container's restart policy, once its main process is gone; what was left
\* of the worker processes goes with the container.
Restart ==
    /\ pc \in Over
    /\ pc' = "announce"
    /\ at' = 1
    /\ proc' = [i \in Slots |-> "none"]
    /\ told' = [i \in Slots |-> FALSE]
    /\ shutdownRequested' = FALSE
    /\ UNCHANGED recordVars

(***************************************************************************)
(* A worker process and its hooks: celeryd_after_setup, worker_ready and   *)
(* worker_shutdown call _touch_worker_registry, which swallows exceptions  *)
(***************************************************************************)

Touch(i, from, to, status) ==
    /\ proc[i] = from
    /\ proc' = [proc EXCEPT ![i] = to]
    /\ \/ Upsert(i, status)
       \/ "registry" \in Faults /\ UNCHANGED recordVars
    /\ UNCHANGED <<pc, at, told, shutdownRequested>>

ChildSetup(i) == Touch(i, "spawned", "setup", "STARTING")
ChildReady(i) == Touch(i, "setup", "up", "READY")

\* A warm shutdown: the supervisor's SIGTERM, or the API's shutdown broadcast.
ChildStops(i) ==
    /\ told[i] \/ "remote" \in Faults
    /\ Touch(i, "up", "exiting", "SHUTDOWN")

ChildEnds(i, from, to) ==
    /\ proc[i] \in from
    /\ proc' = [proc EXCEPT ![i] = to]
    /\ UNCHANGED <<pc, at, told, shutdownRequested, recordVars>>

ChildExits(i)   == ChildEnds(i, {"exiting"}, "done")
\* By itself, or because SIGTERM came before celery handles it.
ChildCrashes(i) == (told[i] \/ "crash" \in Faults) /\ ChildEnds(i, Alive, "crashed")
ChildReaped(i)  == ChildEnds(i, {"killed"}, "slain")

\* Five seconds pass without an upsert.
Age(i) ==
    /\ pc = "waiting"
    /\ fresh[i]
    /\ fresh' = [fresh EXCEPT ![i] = FALSE]
    /\ UNCHANGED <<pc, at, procVars, shutdownRequested, record>>

-----------------------------------------------------------------------------
Supervise ==
    \/ Announce \/ Spawn \/ MarkReady
    \/ TickStart \/ TickSlot \/ (\E i \in Slots : Detect(i)) \/ ReportExit
    \/ ReportSignal
    \/ TerminateSlot \/ Drained \/ Deadline \/ ReportFinal

Interrupt == Signal \/ RegistryFails \/ SpawnFails

Child(i) ==
    \/ ChildSetup(i) \/ ChildReady(i) \/ ChildStops(i)
    \/ ChildExits(i) \/ ChildCrashes(i) \/ ChildReaped(i)

Next ==
    \/ Supervise
    \/ Interrupt
    \/ Restart
    \/ \E i \in Slots : Child(i) \/ Age(i)

Spec == Init /\ [][Next]_vars

\* The supervisor is a running program and docker restarts its container (compose
\* says unless-stopped).  Nothing is assumed of the workers: one that is busy may
\* ignore SIGTERM for as long as it likes.
FairSpec == Spec /\ WF_vars(Supervise) /\ WF_vars(Restart)
-----------------------------------------------------------------------------
\* When run_forever returns, every worker it started has exited or was killed,
\* whichever of them exited first, crashed meanwhile or ignored SIGTERM.
NoOrphans == pc = "stopped" => \A i \in Slots : proc[i] = "killed" \/ Exited(i)

\* ... and the registry has the supervisor's last word on each, which no late write of a
\* worker's hooks replaces: SHUTDOWN after a signal to the supervisor, and for a worker
\* that exited with 0 or is not reaped yet; CRASHED for any other exit code, which may
\* be the -15 or -9 of a healthy worker that the supervisor ended itself because another
\* had exited.  Of a worker it has not told to go, CRASHED means that it crashed.
FinalRecordIsOfExit ==
    pc = "stopped" => \A i \in Slots :
        /\ record[i] \in {"SHUTDOWN", "CRASHED"}
        /\ shutdownRequested \/ proc[i] \in {"done", "killed"} => record[i] = "SHUTDOWN"
        /\ ~shutdownRequested /\ proc[i] = "crashed" => record[i] = "CRASHED"
        /\ record[i] = "CRASHED" /\ ~told[i] => proc[i] = "crashed"

\* While the supervisor waits, the heartbeat of a running worker is renewed.
HeartbeatGoesOn ==
    \A i \in Slots :
        (pc = "waiting" /\ Polls(i) /\ ~fresh[i])
            ~> (fresh[i] \/ ~Polls(i) \/ pc \notin {"waiting", "ticking"})

\* The exit of one worker brings all of them down and up again: unless signals
\* or errors keep interrupting the supervisor, a worker that exited is replaced.
WorkerComesBack ==
    <>[][~Interrupt]_vars => \A i \in Slots : Exited(i) ~> proc[i] \in Alive
=============================================================================
