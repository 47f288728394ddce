---------------------------- MODULE WorkerControl ----------------------------
(***************************************************************************)
(* Starting and stopping managed workers on a node.  The API publishes a   *)
(* command to the control queue of a node, or to any queue the operator    *)
(* names (media-shuttle-api/app/worker_control.py); the control worker of  *)
(* a node takes one command at a time and keeps the processes it started   *)
(* in _PROCS, a dictionary in its memory                                   *)
(* (media-shuttle-core/core/queue/worker_control_runtime.py).              *)
(*                                                                         *)
(* A process is named by the command that started it: a command starts at  *)
(* most one.  A control queue is a Redis list.  As celery acknowledges a   *)
(* command when it is taken, a control worker that dies loses it.          *)
(***************************************************************************)
EXTENDS Sequences

CONSTANTS
    Nodes,      \* the nodes with a control worker
    Strangers,  \* node ids an operator may give, and no node has
    Shared,     \* the control queue every node consumes: the bare prefix
    Roles,      \* the roles that may be managed
    Commands,   \* the commands operators give, each at most once
    NoCommand,
    Faults      \* what may go wrong

FaultKinds == {"crash", "exit"}

ASSUME ControlAssumption ==
    /\ Shared \notin Nodes \cup Strangers
    /\ NoCommand \notin Commands
    /\ Faults \subseteq FaultKinds

Queues == Nodes \cup Strangers \cup {Shared}
Body   == [action : {"start", "stop", "restart"}, role : Roles, node : Nodes \cup Strangers]

\* What an operator has not said yet.
NoBody == [action |-> "none"]

VARIABLES
    body,     \* the body of a command that was given
    queue,    \* the commands in a control queue
    managed,  \* _PROCS of the control worker of a node
    stopping, \* the command whose handler waits for a terminated process
    proc,     \* the process a command started
    told,     \* SIGTERM was sent to that process
    disowned, \* processes whose control worker died
    applied   \* the last action a control worker applied to a role

procVars == <<proc, told>>
vars == <<body, queue, managed, stopping, procVars, disowned, applied>>

\* "killed": SIGKILL was sent; the process ends without doing anything more.
Running == {"booting", "up"}
Process == {"none", "killed", "dead"} \cup Running

TypeOK ==
    /\ body     \in [Commands -> Body \cup {NoBody}]
    /\ queue    \in [Queues -> Seq(Commands)]
    /\ managed  \in [Nodes -> [Roles -> Commands \cup {NoCommand}]]
    /\ stopping \in [Nodes -> Commands \cup {NoCommand}]
    /\ proc     \in [Commands -> Process]
    /\ told     \in [Commands -> BOOLEAN]
    /\ disowned \in SUBSET Commands
    /\ applied  \in [Nodes -> [Roles -> {"none", "start", "stop", "restart"}]]

Init ==
    /\ body     = [c \in Commands |-> NoBody]
    /\ queue    = [q \in Queues |-> << >>]
    /\ managed  = [n \in Nodes |-> [r \in Roles |-> NoCommand]]
    /\ stopping = [n \in Nodes |-> NoCommand]
    /\ proc     = [c \in Commands |-> "none"]
    /\ told     = [c \in Commands |-> FALSE]
    /\ disowned = {}
    /\ applied  = [n \in Nodes |-> [r \in Roles |-> "none"]]

(***************************************************************************)
(* The API: publish_control_command                                        *)
(***************************************************************************)

\* The operator may name the queue; otherwise it is that of the node.  A command
\* that cannot be published is one that was never given.
Give(c) ==
    /\ body[c] = NoBody
    /\ \E b \in Body : \E q \in {b.node, Shared} :
         /\ body' = [body EXCEPT ![c] = b]
         /\ queue' = [queue EXCEPT ![q] = Append(@, c)]
    /\ UNCHANGED <<managed, stopping, procVars, disowned, applied>>

(***************************************************************************)
(* The control worker of a node: apply_worker_control                      *)
(***************************************************************************)

\* The process of _PROCS[role], as _record(role) finds it: it forgets one that
\* has exited.
Runs(p) == p # NoCommand /\ proc[p] \in Running
Slot(n, r) == IF Runs(managed[n][r]) THEN managed[n][r] ELSE NoCommand

Takes(n, c) ==
    /\ stopping[n] = NoCommand
    /\ \E q \in {n, Shared} :
         /\ queue[q] # << >>
         /\ c = Head(queue[q])
         /\ queue' = [queue EXCEPT ![q] = Tail(@)]

\* A command for another node, in a queue somebody chose for it.
NodeMismatch(n, c) ==
    /\ Takes(n, c)
    /\ body[c].node # n
    /\ UNCHANGED <<body, managed, stopping, procVars, disowned, applied>>

Accepts(n, c) == Takes(n, c) /\ body[c].node = n

Start(n, r, c) ==
    /\ proc' = [proc EXCEPT ![c] = "booting"]
    /\ managed' = [managed EXCEPT ![n][r] = c]

Applied(n, r, c) == applied' = [applied EXCEPT ![n][r] = body[c].action]

\* Mutant: the running worker is not looked for.
AlwaysSpawns(n, c) ==
    /\ Accepts(n, c)
    /\ body[c].action = "start"
    /\ Start(n, body[c].role, c)
    /\ Applied(n, body[c].role, c)
    /\ UNCHANGED <<body, stopping, told, disowned>>
\* Nothing is running: a process is started, whatever the action.
Spawn(n, c) ==
    /\ Accepts(n, c)
    /\ Slot(n, body[c].role) = NoCommand
    /\ Start(n, body[c].role, c)
    /\ Applied(n, body[c].role, c)
    /\ UNCHANGED <<body, stopping, told, disowned>>

AlreadyRunning(n, c) ==
    /\ Accepts(n, c)
    /\ body[c].action = "start"
    /\ Slot(n, body[c].role) # NoCommand
    /\ Applied(n, body[c].role, c)
    /\ UNCHANGED <<body, managed, stopping, procVars, disowned>>

Terminate(n, c) ==
    /\ Accepts(n, c)
    /\ body[c].action \in {"stop", "restart"}
    /\ Slot(n, body[c].role) # NoCommand
    /\ told' = [told EXCEPT ![Slot(n, body[c].role)] = TRUE]
    /\ stopping' = [stopping EXCEPT ![n] = c]
    /\ UNCHANGED <<body, managed, proc, disowned, applied>>

\* Mutant: the whole dictionary is forgotten, not the entry of the role.
ReplaceClears(n, r, c, killed) ==
    /\ managed' = [managed EXCEPT ![n] = NoCommand]
    /\ proc' = [p \in Commands |-> IF p \in killed THEN "killed" ELSE proc[p]]
    /\ stopping' = [stopping EXCEPT ![n] = NoCommand]
    /\ Applied(n, r, c)
    /\ UNCHANGED <<body, queue, told, disowned>>
\* Then _PROCS forgets it, and a restart starts its successor.
Replace(n, r, c, killed) ==
    /\ managed' = [managed EXCEPT ![n][r] = IF body[c].action = "restart" THEN c ELSE NoCommand]
    /\ proc' = [p \in Commands |->
                  CASE p = c /\ body[c].action = "restart" -> "booting"
                    [] p \in killed                        -> "killed"
                    [] OTHER                               -> proc[p]]
    /\ stopping' = [stopping EXCEPT ![n] = NoCommand]
    /\ Applied(n, r, c)
    /\ UNCHANGED <<body, queue, told, disowned>>

\* The terminated process has exited.
FinishStop(n) ==
    LET c == stopping[n] IN
    /\ c # NoCommand
    /\ ~Runs(managed[n][body[c].role])
    /\ Replace(n, body[c].role, c, {})

\* Mutants: a worker that has not exited after ten seconds is left alone; the
\* handler waits for it without a deadline.
GiveUpSparing(n) ==
    LET c == stopping[n] IN
    /\ c # NoCommand
    /\ Replace(n, body[c].role, c, {})
GiveUpNever(n) == FinishStop(n)
\* It has not, ten seconds later.
GiveUp(n) ==
    LET c == stopping[n] IN
    /\ c # NoCommand
    /\ Runs(managed[n][body[c].role])
    /\ Replace(n, body[c].role, c, {managed[n][body[c].role]})

(***************************************************************************)
(* The processes, and what befalls a control worker                        *)
(***************************************************************************)

Boots(c) ==
    /\ proc[c] = "booting"
    /\ proc' = [proc EXCEPT ![c] = "up"]
    /\ UNCHANGED <<body, queue, managed, stopping, told, disowned, applied>>

\* A warm shutdown, a crash, or the end of a killed process.
Ends(c) ==
    /\ \/ proc[c] = "killed"
       \/ proc[c] \in Running /\ (told[c] \/ "exit" \in Faults)
    /\ proc' = [proc EXCEPT ![c] = "dead"]
    /\ UNCHANGED <<body, queue, managed, stopping, told, disowned, applied>>

\* The control worker dies; its successor has an empty _PROCS.
Forget(n) ==
    /\ managed' = [managed EXCEPT ![n] = [r \in Roles |-> NoCommand]]
    /\ stopping' = [stopping EXCEPT ![n] = NoCommand]
    /\ applied' = [applied EXCEPT ![n] = [r \in Roles |-> "none"]]
    /\ UNCHANGED <<body, queue>>

ControlCrash(n) ==
    /\ "crash" \in Faults
    /\ Forget(n)
    /\ disowned' = disowned \cup {c \in Commands : Runs(c) /\ body[c].node = n}
    /\ UNCHANGED procVars

\* In a container the supervisor follows it, and the container everything in it.
NodeRestart(n) ==
    /\ "crash" \in Faults
    /\ Forget(n)
    /\ proc' = [c \in Commands |->
                  IF Runs(c) /\ body[c].node = n THEN "killed" ELSE proc[c]]
    /\ UNCHANGED <<told, disowned>>

-----------------------------------------------------------------------------
Control(n) ==
    \/ \E c \in Commands : NodeMismatch(n, c) \/ Spawn(n, c) \/ AlreadyRunning(n, c)
                             \/ Terminate(n, c)
    \/ FinishStop(n) \/ GiveUp(n)

Next ==
    \/ \E c \in Commands : Give(c) \/ Boots(c) \/ Ends(c)
    \/ \E n \in Nodes : Control(n) \/ ControlCrash(n) \/ NodeRestart(n)

Spec == Init /\ [][Next]_vars

\* A node has a control worker: the supervisor that runs it stops and is restarted
\* when it exits.
FairSpec == Spec /\ \A n \in Nodes : WF_vars(Control(n))
-----------------------------------------------------------------------------
\* A role of a node has one managed worker: every process that still runs is the
\* one the control worker knows, also while a stop waits for it, unless the
\* control worker that started it has died.  Two workers under one hostname
\* would not see each other's remote control.
AliveIsManaged ==
    \A c \in Commands : Runs(c) /\ c \notin disowned => managed[body[c].node][body[c].role] = c

\* What a stop or restart has sent SIGTERM to does not run on behind its back.
StoppedIsGone ==
    \A c \in Commands : told[c] /\ Runs(c) /\ c \notin disowned =>
        LET n == body[c].node IN stopping[n] # NoCommand /\ body[stopping[n]].role = body[c].role

\* Every command in the queue of a node, or in the shared one, is taken, and its
\* handler ends, also when the worker it stops never exits.
CommandsAreHandled ==
    /\ \A q \in Nodes \cup {Shared} : queue[q] # << >> ~> queue[q] = << >>
    /\ \A n \in Nodes : stopping[n] # NoCommand ~> stopping[n] = NoCommand

\* After a stop the role has no managed worker.
StopStops ==
    \A n \in Nodes, r \in Roles :
        applied[n][r] = "stop" => managed[n][r] = NoCommand
=============================================================================
