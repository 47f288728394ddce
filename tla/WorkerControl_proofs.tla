------------------------- MODULE WorkerControl_proofs -------------------------
(***************************************************************************)
(* A control worker knows every process it has started, and none survives  *)
(* the stop it was sent: for any nodes, roles and commands, and whatever   *)
(* the crashes of control workers, processes and nodes.                    *)
(***************************************************************************)
EXTENDS WorkerControl, SequenceTheorems, TLAPS

\* A command is in one place of one queue.
QueuedOnce ==
    \A p, q \in Queues : \A i \in DOMAIN queue[p], j \in DOMAIN queue[q] :
        queue[p][i] = queue[q][j] => p = q /\ i = j

\* One that was given and is not handled yet has started nothing.
New(c) == body[c] \in Body /\ proc[c] = "none" /\ ~told[c]
QueuedIsNew ==
    \A q \in Queues : \A i \in DOMAIN queue[q] :
        New(queue[q][i]) /\ \A n \in Nodes : stopping[n] # queue[q][i]
StoppingIsNew ==
    \A n \in Nodes : stopping[n] # NoCommand =>
        New(stopping[n]) /\ body[stopping[n]].node = n

\* Only a command that was given starts a process, and its process is known by its
\* node and its role.
StartedIsGiven ==
    \A c \in Commands : proc[c] # "none" \/ told[c] =>
        body[c] \in Body /\ body[c].node \in Nodes
ManagedIsOwn ==
    \A n \in Nodes, r \in Roles : managed[n][r] # NoCommand =>
        LET c == managed[n][r] IN
        body[c] \in Body /\ body[c].node = n /\ body[c].role = r /\ proc[c] # "none"

Orderly == QueuedOnce /\ QueuedIsNew /\ StoppingIsNew /\ StartedIsGiven /\ ManagedIsOwn

IInv == TypeOK /\ Orderly /\ AliveIsManaged /\ StoppedIsGone
-----------------------------------------------------------------------------
(***************************************************************************)
(* The control queues                                                      *)
(***************************************************************************)

\* Before it is given, a command has no body.
LEMMA NoBodyIsNone == NoBody \notin Body
BY DEF NoBody, Body

\* A command that is given is the last of one queue.
LEMMA GiveAppends ==
    ASSUME TypeOK, NEW c \in Commands, NEW q \in Queues,
           queue' = [queue EXCEPT ![q] = Append(@, c)]
    PROVE  /\ queue' \in [Queues -> Seq(Commands)]
           /\ \A p \in Queues : \A i \in DOMAIN queue'[p] :
                 \/ i \in DOMAIN queue[p] /\ queue'[p][i] = queue[p][i]
                 \/ p = q /\ i = Len(queue[q]) + 1 /\ queue'[p][i] = c
<1>1. queue[q] \in Seq(Commands) /\ queue' = [queue EXCEPT ![q] = Append(queue[q], c)]
  BY DEF TypeOK
<1>2. /\ Append(queue[q], c) \in Seq(Commands)
      /\ Len(Append(queue[q], c)) = Len(queue[q]) + 1
      /\ \A i \in 1 .. Len(queue[q]) : Append(queue[q], c)[i] = queue[q][i]
      /\ Append(queue[q], c)[Len(queue[q]) + 1] = c
  BY <1>1, AppendProperties
<1>3. /\ DOMAIN queue[q] = 1 .. Len(queue[q])
      /\ DOMAIN Append(queue[q], c) = 1 .. Len(queue[q]) + 1
      /\ Len(queue[q]) \in Nat
  BY <1>1, <1>2
<1>4. queue'[q] = Append(queue[q], c) /\ \A p \in Queues \ {q} : queue'[p] = queue[p]
  BY <1>1 DEF TypeOK
<1>5. queue' \in [Queues -> Seq(Commands)]
  BY <1>1, <1>2 DEF TypeOK
<1>6. \A i \in DOMAIN queue'[q] :
        \/ i \in DOMAIN queue[q] /\ queue'[q][i] = queue[q][i]
        \/ i = Len(queue[q]) + 1 /\ queue'[q][i] = c
  BY <1>2, <1>3, <1>4
<1> QED
  BY <1>4, <1>5, <1>6

\* A control worker takes the first command of its queue or of the shared one, and the
\* others move up.
LEMMA TakesShifts ==
    ASSUME TypeOK, NEW n \in Nodes, NEW c, Takes(n, c)
    PROVE  /\ queue' \in [Queues -> Seq(Commands)]
           /\ \E q \in Queues :
                /\ 1 \in DOMAIN queue[q] /\ c = queue[q][1]
                /\ \A p \in Queues \ {q} : queue'[p] = queue[p]
                /\ \A i \in DOMAIN queue'[q] :
                     i \in Nat /\ i + 1 \in DOMAIN queue[q] /\ i + 1 # 1
                     /\ queue'[q][i] = queue[q][i + 1]
<1>1. PICK q \in {n, Shared} :
        queue[q] # << >> /\ c = Head(queue[q]) /\ queue' = [queue EXCEPT ![q] = Tail(@)]
  BY DEF Takes
<1>2. q \in Queues /\ queue[q] \in Seq(Commands) /\ queue' = [queue EXCEPT ![q] = Tail(queue[q])]
  BY <1>1 DEF Queues, TypeOK
<1>3. /\ Tail(queue[q]) \in Seq(Commands)
      /\ Len(Tail(queue[q])) = Len(queue[q]) - 1
      /\ \A i \in 1 .. Len(Tail(queue[q])) : Tail(queue[q])[i] = queue[q][i + 1]
  BY <1>1, <1>2, HeadTailProperties
<1>4. /\ DOMAIN queue[q] = 1 .. Len(queue[q]) /\ Len(queue[q]) \in Nat \ {0}
      /\ Head(queue[q]) = queue[q][1]
  BY <1>1, <1>2, EmptySeq
<1>5. DOMAIN Tail(queue[q]) = 1 .. Len(queue[q]) - 1
  BY <1>2, <1>3
<1>6. queue'[q] = Tail(queue[q]) /\ \A p \in Queues \ {q} : queue'[p] = queue[p]
  BY <1>2 DEF TypeOK
<1>7. queue' \in [Queues -> Seq(Commands)]
  BY <1>2, <1>3 DEF TypeOK
<1>8. \A i \in DOMAIN queue'[q] :
        i \in Nat /\ i + 1 \in DOMAIN queue[q] /\ i + 1 # 1 /\ queue'[q][i] = queue[q][i + 1]
  BY <1>3, <1>4, <1>5, <1>6
<1> QED
  BY <1>1, <1>2, <1>4, <1>6, <1>7, <1>8

\* The command a control worker takes is a new one, and nobody takes it again.
LEMMA TakenOnce ==
    ASSUME IInv, NEW n \in Nodes, NEW c, Takes(n, c)
    PROVE  /\ queue' \in [Queues -> Seq(Commands)]
           /\ QueuedOnce'
           /\ c \in Commands /\ New(c) /\ \A m \in Nodes : stopping[m] # c
           /\ \A p \in Queues : \A i \in DOMAIN queue'[p] :
                /\ queue'[p][i] \in Commands /\ queue'[p][i] # c
                /\ New(queue'[p][i]) /\ \A m \in Nodes : stopping[m] # queue'[p][i]
<1> USE DEF IInv, Orderly
<1>1. queue' \in [Queues -> Seq(Commands)]
  BY TakesShifts
<1>2. PICK q \in Queues :
        /\ 1 \in DOMAIN queue[q] /\ c = queue[q][1]
        /\ \A p \in Queues \ {q} : queue'[p] = queue[p]
        /\ \A i \in DOMAIN queue'[q] :
             i \in Nat /\ i + 1 \in DOMAIN queue[q] /\ i + 1 # 1
             /\ queue'[q][i] = queue[q][i + 1]
  BY TakesShifts
<1>3. queue[q] \in Seq(Commands) /\ c \in Commands
  BY <1>2 DEF TypeOK
<1>4. New(c) /\ \A m \in Nodes : stopping[m] # c
  BY <1>2 DEF QueuedIsNew
<1>5. \A p \in Queues : \A i \in DOMAIN queue'[p] :
         \E j \in DOMAIN queue[p] : queue'[p][i] = queue[p][j] /\ (p = q => j = i + 1 /\ j # 1)
                                   /\ (p # q => j = i)
  BY <1>2
<1>6. QueuedOnce'
  <2> SUFFICES ASSUME NEW p \in Queues, NEW r \in Queues,
                      NEW i \in DOMAIN queue'[p], NEW j \in DOMAIN queue'[r],
                      queue'[p][i] = queue'[r][j]
               PROVE  p = r /\ i = j
    BY DEF QueuedOnce
  <2>1. PICK k \in DOMAIN queue[p] :
          queue'[p][i] = queue[p][k] /\ (p = q => k = i + 1) /\ (p # q => k = i)
    BY <1>5
  <2>2. PICK l \in DOMAIN queue[r] :
          queue'[r][j] = queue[r][l] /\ (r = q => l = j + 1) /\ (r # q => l = j)
    BY <1>5
  <2>3. p = r /\ k = l
    <3>1. queue[p][k] = queue[r][l]
      BY <2>1, <2>2
    <3> QED
      BY <3>1 DEF QueuedOnce
  <2>4. p = q => i \in Nat /\ j \in Nat
    BY <1>2, <2>3
  <2> QED
    BY <2>1, <2>2, <2>3, <2>4
<1>7. ASSUME NEW p \in Queues, NEW i \in DOMAIN queue'[p]
      PROVE  /\ queue'[p][i] \in Commands /\ queue'[p][i] # c
             /\ New(queue'[p][i]) /\ \A m \in Nodes : stopping[m] # queue'[p][i]
  <2>1. PICK j \in DOMAIN queue[p] : queue'[p][i] = queue[p][j] /\ (p = q => j # 1)
    BY <1>5
  <2>2. queue'[p][i] # c
    BY <1>2, <2>1 DEF QueuedOnce
  <2>3. queue'[p][i] \in Commands
    BY <1>1
  <2>4. New(queue[p][j]) /\ \A m \in Nodes : stopping[m] # queue[p][j]
    BY DEF QueuedIsNew
  <2> QED
    BY <2>1, <2>2, <2>3, <2>4
<1> QED
  BY <1>1, <1>3, <1>4, <1>6, <1>7

-----------------------------------------------------------------------------
(***************************************************************************)
(* One step of the strengthened invariant                                  *)
(***************************************************************************)

\* An operator's command finds nothing of its own in the system.
LEMMA GiveStep ==
    ASSUME IInv, NEW c \in Commands, Give(c)
    PROVE  IInv'
<1> USE DEF IInv, Orderly
<1>1. PICK b \in Body : \E q \in {b.node, Shared} :
         body' = [body EXCEPT ![c] = b] /\ queue' = [queue EXCEPT ![q] = Append(@, c)]
  BY DEF Give
<1>2. PICK q \in {b.node, Shared} :
         body' = [body EXCEPT ![c] = b] /\ queue' = [queue EXCEPT ![q] = Append(@, c)]
  BY <1>1
<1>3. q \in Queues
  BY DEF Queues, Body
<1>4. /\ queue' \in [Queues -> Seq(Commands)]
      /\ \A p \in Queues : \A i \in DOMAIN queue'[p] :
            \/ i \in DOMAIN queue[p] /\ queue'[p][i] = queue[p][i]
            \/ p = q /\ i = Len(queue[q]) + 1 /\ queue'[p][i] = c
  BY <1>2, <1>3, GiveAppends
<1>5. body[c] \notin Body /\ UNCHANGED <<managed, stopping, proc, told, disowned>>
  BY NoBodyIsNone DEF Give, procVars
<1>6. body'[c] = b /\ \A d \in Commands \ {c} : body'[d] = body[d]
  BY <1>2 DEF TypeOK
<1>7. proc[c] = "none" /\ ~told[c] /\ \A n \in Nodes : stopping[n] # c
  <2>1. proc[c] = "none" /\ ~told[c]
    BY <1>5 DEF StartedIsGiven
  <2>2. \A n \in Nodes : stopping[n] # c
    BY <1>5, ControlAssumption DEF StoppingIsNew, New
  <2> QED
    BY <2>1, <2>2
<1>8. \A p \in Queues : \A i \in DOMAIN queue[p] : queue[p][i] # c
  BY <1>5 DEF QueuedIsNew, New
<1>9. TypeOK'
  BY <1>2, <1>4, <1>5 DEF TypeOK, Give
<1>10. QueuedOnce'
  BY <1>4, <1>8 DEF QueuedOnce
<1>11. QueuedIsNew'
  BY <1>4, <1>5, <1>6, <1>7, <1>8 DEF QueuedIsNew, New
<1>12. StoppingIsNew'
  BY <1>5, <1>6, <1>7 DEF StoppingIsNew, New, TypeOK
<1>13. StartedIsGiven' /\ ManagedIsOwn'
  <2>1. StartedIsGiven'
    BY <1>5, <1>6, <1>7 DEF StartedIsGiven
  <2>2. ASSUME NEW n \in Nodes, NEW r \in Roles, managed[n][r] # NoCommand
        PROVE  managed[n][r] \in Commands \ {c}
    BY <1>7, <2>2 DEF ManagedIsOwn, TypeOK
  <2>3. ManagedIsOwn'
    BY <1>5, <1>6, <2>2 DEF ManagedIsOwn
  <2> QED
    BY <2>1, <2>3
<1>14. AliveIsManaged'
  BY <1>5, <1>6, <1>7 DEF AliveIsManaged, Runs, Running
<1>15. StoppedIsGone'
  <2> SUFFICES ASSUME NEW d \in Commands, told[d], Runs(d), d \notin disowned
               PROVE  /\ stopping[body'[d].node] # NoCommand
                      /\ body'[stopping[body'[d].node]].role = body'[d].role
    BY <1>5 DEF StoppedIsGone, Runs
  <2>1. body'[d] = body[d] /\ body[d].node \in Nodes
    BY <1>6, <1>7 DEF StartedIsGiven
  <2>2. stopping[body[d].node] \in Commands \ {c}
    BY <1>7, <2>1 DEF StoppedIsGone, TypeOK
  <2> QED
    BY <1>6, <2>1, <2>2, ControlAssumption DEF StoppedIsGone
<1> QED
  BY <1>9, <1>10, <1>11, <1>12, <1>13, <1>14, <1>15

\* A command that is dropped, or finds its worker running, changes no process.
LEMMA TakeStep ==
    ASSUME IInv, NEW n \in Nodes, NEW c \in Commands, NodeMismatch(n, c) \/ AlreadyRunning(n, c)
    PROVE  IInv'
<1> USE DEF IInv, Orderly
<1>1. Takes(n, c) /\ UNCHANGED <<body, managed, stopping, proc, told, disowned>>
  BY DEF NodeMismatch, AlreadyRunning, Accepts, procVars
<1>2. /\ queue' \in [Queues -> Seq(Commands)]
      /\ QueuedOnce'
      /\ New(c)
      /\ \A p \in Queues : \A i \in DOMAIN queue'[p] :
            New(queue'[p][i]) /\ \A m \in Nodes : stopping[m] # queue'[p][i]
  BY <1>1, TakenOnce
<1>3. applied' \in [Nodes -> [Roles -> {"none", "start", "stop", "restart"}]]
  <2>1. CASE NodeMismatch(n, c)
    BY <2>1 DEF NodeMismatch, TypeOK
  <2>2. CASE AlreadyRunning(n, c)
    <3>1. body[c].action \in {"start", "stop", "restart"}
      BY <1>2 DEF New, Body
    <3> QED
      BY <2>2, <3>1 DEF AlreadyRunning, Applied, TypeOK
  <2> QED
    BY <2>1, <2>2
<1>4. TypeOK'
  BY <1>1, <1>2, <1>3 DEF TypeOK
<1>5. QueuedIsNew'
  BY <1>1, <1>2 DEF QueuedIsNew, New
<1>6. StoppingIsNew' /\ StartedIsGiven' /\ ManagedIsOwn'
  BY <1>1 DEF StoppingIsNew, StartedIsGiven, ManagedIsOwn, New
<1>7. AliveIsManaged' /\ StoppedIsGone'
  BY <1>1 DEF AliveIsManaged, StoppedIsGone, Runs
<1> QED
  BY <1>2, <1>4, <1>5, <1>6, <1>7

\* A process is started where none runs, so that the one _PROCS forgets is not alive.
LEMMA SpawnStep ==
    ASSUME IInv, NEW n \in Nodes, NEW c \in Commands, Spawn(n, c)
    PROVE  IInv'
<1> USE DEF IInv, Orderly
<1> DEFINE r == body[c].role
<1>1. /\ Takes(n, c) /\ body[c].node = n
      /\ UNCHANGED <<body, stopping, told, disowned>>
  BY DEF Spawn, Accepts
<1>2. /\ queue' \in [Queues -> Seq(Commands)]
      /\ QueuedOnce'
      /\ New(c) /\ \A m \in Nodes : stopping[m] # c
      /\ \A p \in Queues : \A i \in DOMAIN queue'[p] :
            /\ queue'[p][i] \in Commands /\ queue'[p][i] # c
            /\ New(queue'[p][i]) /\ \A m \in Nodes : stopping[m] # queue'[p][i]
  BY <1>1, TakenOnce
<1>3. r \in Roles
  BY <1>2 DEF New, Body
<1> HIDE DEF r
<1>4. /\ managed'[n][r] = c
      /\ \A m \in Nodes, s \in Roles : m # n \/ s # r => managed'[m][s] = managed[m][s]
      /\ managed' \in [Nodes -> [Roles -> Commands \cup {NoCommand}]]
  BY <1>3 DEF Spawn, Start, TypeOK, r
<1>5. /\ proc'[c] = "booting" /\ \A d \in Commands \ {c} : proc'[d] = proc[d]
      /\ proc' \in [Commands -> Process]
  BY DEF Spawn, Start, TypeOK, Process, Running
<1>6. applied' \in [Nodes -> [Roles -> {"none", "start", "stop", "restart"}]]
  BY <1>2 DEF Spawn, Applied, TypeOK, New, Body
<1>7. TypeOK'
  BY <1>1, <1>2, <1>4, <1>5, <1>6 DEF TypeOK
<1>8. QueuedIsNew'
  BY <1>1, <1>2, <1>5 DEF QueuedIsNew, New
<1>9. StoppingIsNew'
  <2>1. \A m \in Nodes : stopping[m] # NoCommand => stopping[m] \in Commands \ {c}
    BY <1>2 DEF TypeOK
  <2> QED
    BY <1>1, <1>5, <2>1 DEF StoppingIsNew, New
<1>10. StartedIsGiven'
  BY <1>1, <1>2, <1>5 DEF StartedIsGiven, New
<1>11. ManagedIsOwn'
  <2> SUFFICES ASSUME NEW m \in Nodes, NEW s \in Roles, managed'[m][s] # NoCommand
               PROVE  /\ body[managed'[m][s]] \in Body
                      /\ body[managed'[m][s]].node = m /\ body[managed'[m][s]].role = s
                      /\ proc'[managed'[m][s]] # "none"
    BY <1>1 DEF ManagedIsOwn
  <2>1. CASE m = n /\ s = r
    BY <1>1, <1>2, <1>4, <1>5, <2>1 DEF New, r
  <2>2. CASE m # n \/ s # r
    <3>1. managed'[m][s] = managed[m][s] /\ managed[m][s] \in Commands
      BY <1>4, <2>2 DEF TypeOK
    <3>2. managed[m][s] # c
      BY <1>2, <3>1 DEF ManagedIsOwn, New
    <3> QED
      BY <1>5, <3>1, <3>2 DEF ManagedIsOwn
  <2> QED
    BY <2>1, <2>2
<1>12. AliveIsManaged'
  <2> SUFFICES ASSUME NEW d \in Commands, proc'[d] \in Running, d \notin disowned
               PROVE  managed'[body[d].node][body[d].role] = d
    BY <1>1 DEF AliveIsManaged, Runs
  <2>1. CASE d = c
    BY <1>1, <1>4, <2>1 DEF r
  <2>2. CASE d # c
    <3>1. Runs(d) /\ managed[body[d].node][body[d].role] = d
      BY <1>5, <2>2, ControlAssumption DEF AliveIsManaged, Runs
    <3>2. body[d].node \in Nodes /\ body[d].role \in Roles
      BY <3>1 DEF StartedIsGiven, Runs, Running, Body
    <3>3. ~(body[d].node = n /\ body[d].role = r)
      BY <2>2, <3>1, ControlAssumption DEF Spawn, Slot, r
    <3> QED
      BY <1>4, <3>1, <3>2, <3>3
  <2> QED
    BY <2>1, <2>2
<1>13. StoppedIsGone'
  <2> SUFFICES ASSUME NEW d \in Commands, told[d], proc'[d] \in Running, d \notin disowned
               PROVE  /\ stopping[body[d].node] # NoCommand
                      /\ body[stopping[body[d].node]].role = body[d].role
    BY <1>1 DEF StoppedIsGone, Runs
  <2>1. d # c
    BY <1>2 DEF New
  <2> QED
    BY <1>5, <2>1, ControlAssumption DEF StoppedIsGone, Runs
<1> QED
  BY <1>2, <1>7, <1>8, <1>9, <1>10, <1>11, <1>12, <1>13

\* SIGTERM goes to the process of the role, and its handler remembers the command.
LEMMA TerminateStep ==
    ASSUME IInv, NEW n \in Nodes, NEW c \in Commands, Terminate(n, c)
    PROVE  IInv'
<1> USE DEF IInv, Orderly
<1> DEFINE w == managed[n][body[c].role]
<1>1. /\ Takes(n, c) /\ body[c].node = n
      /\ UNCHANGED <<body, managed, proc, disowned, applied>>
  BY DEF Terminate, Accepts
<1>2. /\ queue' \in [Queues -> Seq(Commands)]
      /\ QueuedOnce'
      /\ New(c)
      /\ \A p \in Queues : \A i \in DOMAIN queue'[p] :
            /\ queue'[p][i] \in Commands /\ queue'[p][i] # c
            /\ New(queue'[p][i]) /\ \A m \in Nodes : stopping[m] # queue'[p][i]
  BY <1>1, TakenOnce
<1>3. body[c].role \in Roles
  BY <1>2 DEF New, Body
<1>4. w \in Commands /\ told' = [told EXCEPT ![w] = TRUE]
  <2>1. Slot(n, body[c].role) # NoCommand /\ told' = [told EXCEPT ![Slot(n, body[c].role)] = TRUE]
    BY DEF Terminate
  <2>2. Slot(n, body[c].role) = w /\ w # NoCommand
    BY <2>1 DEF Slot, Runs
  <2> QED
    BY <1>3, <2>1, <2>2 DEF TypeOK
<1>5. body[w].node = n /\ body[w].role = body[c].role /\ proc[w] # "none" /\ body[w] \in Body
  BY <1>3, <1>4, ControlAssumption DEF ManagedIsOwn
<1>6. /\ stopping' = [stopping EXCEPT ![n] = c] /\ stopping'[n] = c
      /\ \A m \in Nodes \ {n} : stopping'[m] = stopping[m]
  BY DEF Terminate, TypeOK
<1> HIDE DEF w
<1>7. TypeOK'
  BY <1>1, <1>2, <1>4, <1>6 DEF TypeOK
<1>8. \A d \in Commands : New(d) => New(d)'
  BY <1>1, <1>4, <1>5 DEF New, TypeOK
<1>9. QueuedIsNew'
  BY <1>2, <1>6, <1>8 DEF QueuedIsNew
<1>10. StoppingIsNew'
  <2> SUFFICES ASSUME NEW m \in Nodes, stopping'[m] # NoCommand
               PROVE  /\ body[stopping'[m]] \in Body /\ proc[stopping'[m]] = "none"
                      /\ ~told'[stopping'[m]]
                      /\ body[stopping'[m]].node = m
    BY <1>1 DEF StoppingIsNew, New
  <2>1. CASE m = n
    <3>1. ~told'[c]
      BY <1>2, <1>8 DEF New
    <3> QED
      BY <1>1, <1>2, <1>6, <2>1, <3>1 DEF New
  <2>2. CASE m # n
    <3>1. New(stopping[m]) /\ body[stopping[m]].node = m /\ stopping[m] \in Commands
      BY <1>6, <2>2 DEF StoppingIsNew, TypeOK
    <3>2. stopping'[m] = stopping[m]
      BY <1>6, <2>2
    <3>3. ~told'[stopping[m]]
      BY <1>8, <3>1 DEF New
    <3> QED
      BY <3>1, <3>2, <3>3 DEF New
  <2> QED
    BY <2>1, <2>2
<1>11. StartedIsGiven'
  BY <1>1, <1>4, <1>5 DEF StartedIsGiven, TypeOK
<1>12. ManagedIsOwn' /\ AliveIsManaged'
  BY <1>1 DEF ManagedIsOwn, AliveIsManaged, Runs
<1>13. StoppedIsGone'
  <2> SUFFICES ASSUME NEW d \in Commands, told'[d], Runs(d), d \notin disowned
               PROVE  /\ stopping'[body[d].node] # NoCommand
                      /\ body[stopping'[body[d].node]].role = body[d].role
    BY <1>1 DEF StoppedIsGone, Runs
  <2>1. CASE d = w
    BY <1>5, <1>6, <2>1, ControlAssumption
  <2>2. CASE d # w
    <3>1. told[d]
      BY <1>4, <2>2 DEF TypeOK
    <3>2. body[d].node \in Nodes
      BY <3>1 DEF StartedIsGiven
    <3>3. stopping[body[d].node] # NoCommand /\ body[stopping[body[d].node]].role = body[d].role
      BY <3>1 DEF StoppedIsGone
    <3>4. body[d].node # n
      BY <1>1, <3>3 DEF Takes
    <3> QED
      BY <1>6, <3>2, <3>3, <3>4
  <2> QED
    BY <2>1, <2>2
<1> QED
  BY <1>2, <1>7, <1>9, <1>10, <1>11, <1>12, <1>13

\* A handler ends when the process it stops has exited or was killed: _PROCS may forget
\* it, and the role is free for its successor.
LEMMA ReplaceStep ==
    ASSUME IInv, NEW n \in Nodes, FinishStop(n) \/ GiveUp(n)
    PROVE  IInv'
<1> USE DEF IInv, Orderly
<1> DEFINE c == stopping[n]
           r == body[c].role
           w == managed[n][r]
<1>1. c \in Commands /\ c # NoCommand
  BY DEF FinishStop, GiveUp, TypeOK
<1>2. New(c) /\ body[c].node = n
  BY <1>1 DEF StoppingIsNew
<1>3. r \in Roles /\ body[c].action \in {"start", "stop", "restart"}
  BY <1>2 DEF New, Body
<1>4. PICK killed \in {{}, {w}} :
         Replace(n, r, c, killed) /\ (Runs(w) <=> killed = {w})
  <2>1. CASE FinishStop(n)
    BY <2>1 DEF FinishStop
  <2>2. CASE GiveUp(n)
    BY <2>2 DEF GiveUp
  <2> QED
    BY <2>1, <2>2
<1>5. \A m \in Nodes : m # n => stopping[m] # c
  BY <1>1, <1>2 DEF StoppingIsNew
<1>6. \A p \in Queues : \A i \in DOMAIN queue[p] : queue[p][i] # c
  BY DEF QueuedIsNew
<1>7. \A p \in killed : p = w /\ Runs(p) /\ p # c
  BY <1>2, <1>4 DEF Runs, Running, New
<1>8. /\ UNCHANGED <<body, queue, told, disowned>>
      /\ stopping' = [stopping EXCEPT ![n] = NoCommand]
      /\ stopping'[n] = NoCommand
      /\ \A m \in Nodes : m # n => stopping'[m] = stopping[m]
      /\ applied' = [applied EXCEPT ![n][r] = body[c].action]
  BY <1>4 DEF Replace, Applied, TypeOK
<1>9. /\ managed' \in [Nodes -> [Roles -> Commands \cup {NoCommand}]]
      /\ managed'[n][r] = IF body[c].action = "restart" THEN c ELSE NoCommand
      /\ \A m \in Nodes, s \in Roles : m # n \/ s # r => managed'[m][s] = managed[m][s]
  <2>1. managed' = [managed EXCEPT ![n][r] = IF body[c].action = "restart" THEN c ELSE NoCommand]
    BY <1>4 DEF Replace
  <2>2. (IF body[c].action = "restart" THEN c ELSE NoCommand) \in Commands \cup {NoCommand}
    BY <1>1
  <2> HIDE DEF c, r, w
  <2> QED
    BY <1>3, <2>1, <2>2 DEF TypeOK
<1>10. /\ proc'[c] = IF body[c].action = "restart" THEN "booting" ELSE "none"
       /\ \A p \in Commands : p # c => proc'[p] = IF p \in killed THEN "killed" ELSE proc[p]
       /\ proc' \in [Commands -> Process]
  <2>1. proc' = [p \in Commands |->
                   CASE p = c /\ body[c].action = "restart" -> "booting"
                     [] p \in killed                        -> "killed"
                     [] OTHER                               -> proc[p]]
    BY <1>4 DEF Replace
  <2>2. proc[c] = "none" /\ c \notin killed
    BY <1>2, <1>7 DEF New
  <2> HIDE DEF c, r, w
  <2> QED
    BY <1>1, <2>1, <2>2 DEF TypeOK, Process, Running
<1> HIDE DEF c, r, w
<1>11. TypeOK'
  BY <1>3, <1>8, <1>9, <1>10 DEF TypeOK
<1>12. QueuedOnce'
  BY <1>8 DEF QueuedOnce
<1>13. \A d \in Commands : d # c /\ New(d) => New(d)'
  BY <1>7, <1>8, <1>10 DEF New, Runs, Running
<1>14. QueuedIsNew'
  <2> SUFFICES ASSUME NEW p \in Queues, NEW i \in DOMAIN queue[p]
               PROVE  /\ body[queue[p][i]] \in Body /\ ~told[queue[p][i]]
                      /\ proc'[queue[p][i]] = "none"
                      /\ \A m \in Nodes : stopping'[m] # queue[p][i]
    BY <1>8 DEF QueuedIsNew, New
  <2>1. queue[p][i] \in Commands \ {c}
    BY <1>6 DEF TypeOK
  <2>2. New(queue[p][i]) /\ \A m \in Nodes : stopping[m] # queue[p][i]
    BY DEF QueuedIsNew
  <2>3. proc'[queue[p][i]] = "none"
    BY <1>13, <2>1, <2>2 DEF New
  <2> QED
    BY <1>8, <2>1, <2>2, <2>3, ControlAssumption DEF New
<1>15. StoppingIsNew'
  <2> SUFFICES ASSUME NEW m \in Nodes, m # n, stopping[m] # NoCommand
               PROVE  /\ body[stopping[m]] \in Body /\ ~told[stopping[m]]
                      /\ proc'[stopping[m]] = "none"
                      /\ body[stopping[m]].node = m
    BY <1>8 DEF StoppingIsNew, New
  <2>1. stopping[m] \in Commands \ {c} /\ New(stopping[m]) /\ body[stopping[m]].node = m
    BY <1>5 DEF StoppingIsNew, TypeOK
  <2> QED
    BY <1>13, <2>1 DEF New
<1>16. StartedIsGiven'
  BY <1>2, <1>7, <1>8, <1>10 DEF StartedIsGiven, New, Runs, Running
<1>17. ManagedIsOwn'
  <2> SUFFICES ASSUME NEW m \in Nodes, NEW s \in Roles, managed'[m][s] # NoCommand
               PROVE  /\ body[managed'[m][s]] \in Body
                      /\ body[managed'[m][s]].node = m /\ body[managed'[m][s]].role = s
                      /\ proc'[managed'[m][s]] # "none"
    BY <1>8 DEF ManagedIsOwn
  <2>1. CASE m = n /\ s = r
    BY <1>2, <1>9, <1>10, <2>1 DEF New, r
  <2>2. CASE m # n \/ s # r
    <3>1. managed'[m][s] = managed[m][s] /\ managed[m][s] \in Commands
      BY <1>9, <2>2 DEF TypeOK
    <3>2. managed[m][s] # c
      BY <1>2, <3>1 DEF ManagedIsOwn, New
    <3> QED
      BY <1>10, <3>1, <3>2 DEF ManagedIsOwn
  <2> QED
    BY <2>1, <2>2
<1>18. ASSUME NEW d \in Commands, proc'[d] \in Running, d \notin disowned, d # c
       PROVE  /\ Runs(d) /\ managed[body[d].node][body[d].role] = d
              /\ body[d].node \in Nodes /\ body[d].role \in Roles
              /\ ~(body[d].node = n /\ body[d].role = r)
  <2>1. d \notin killed /\ Runs(d)
    BY <1>10, <1>18, ControlAssumption DEF Running, Runs
  <2>2. managed[body[d].node][body[d].role] = d
    BY <1>18, <2>1 DEF AliveIsManaged
  <2>3. body[d].node \in Nodes /\ body[d].role \in Roles
    BY <2>1 DEF StartedIsGiven, Runs, Running, Body
  <2>4. d # w
    BY <1>4, <2>1
  <2> QED
    BY <2>1, <2>2, <2>3, <2>4 DEF w
<1>19. AliveIsManaged'
  <2> SUFFICES ASSUME NEW d \in Commands, proc'[d] \in Running, d \notin disowned
               PROVE  managed'[body[d].node][body[d].role] = d
    BY <1>8 DEF AliveIsManaged, Runs
  <2>1. CASE d = c
    <3>1. body[c].action = "restart"
      BY <1>10, <2>1 DEF Running
    <3> QED
      BY <1>2, <1>9, <2>1, <3>1 DEF r
  <2>2. CASE d # c
    BY <1>9, <1>18, <2>2
  <2> QED
    BY <2>1, <2>2
<1>20. StoppedIsGone'
  <2> SUFFICES ASSUME NEW d \in Commands, told[d], proc'[d] \in Running, d \notin disowned
               PROVE  /\ stopping'[body[d].node] # NoCommand
                      /\ body[stopping'[body[d].node]].role = body[d].role
    BY <1>8 DEF StoppedIsGone, Runs
  <2>1. d # c
    BY <1>2 DEF New
  <2>2. stopping[body[d].node] # NoCommand /\ body[stopping[body[d].node]].role = body[d].role
    BY <1>18, <2>1 DEF StoppedIsGone
  <2>3. body[d].node \in Nodes /\ body[d].node # n
    BY <1>18, <2>1, <2>2 DEF c, r
  <2> QED
    BY <1>8, <2>2, <2>3
<1> QED
  BY <1>11, <1>12, <1>14, <1>15, <1>16, <1>17, <1>19, <1>20

\* A process boots or ends, whoever waits for it.
LEMMA ProcessStep ==
    ASSUME IInv, NEW c \in Commands, Boots(c) \/ Ends(c)
    PROVE  IInv'
<1> USE DEF IInv, Orderly
<1>1. /\ UNCHANGED <<body, queue, managed, stopping, told, disowned, applied>>
      /\ proc[c] \in Running \cup {"killed"}
      /\ \E to \in {"up", "dead"} :
            proc' = [proc EXCEPT ![c] = to] /\ (to = "up" => proc[c] \in Running)
  BY DEF Boots, Ends, Running
<1>2. /\ proc' \in [Commands -> Process]
      /\ \A d \in Commands : proc'[d] \in Running => proc[d] \in Running
      /\ \A d \in Commands : proc[d] = "none" <=> proc'[d] = "none"
  BY <1>1 DEF TypeOK, Process, Running
<1>3. TypeOK' /\ QueuedOnce'
  BY <1>1, <1>2 DEF TypeOK, QueuedOnce
<1>4. \A d \in Commands : New(d) => New(d)'
  BY <1>1, <1>2 DEF New
<1>5. QueuedIsNew'
  BY <1>1, <1>4 DEF QueuedIsNew, TypeOK
<1>6. StoppingIsNew'
  BY <1>1, <1>4 DEF StoppingIsNew, TypeOK
<1>7. StartedIsGiven' /\ ManagedIsOwn'
  BY <1>1, <1>2 DEF StartedIsGiven, ManagedIsOwn, TypeOK
<1>8. AliveIsManaged' /\ StoppedIsGone'
  BY <1>1, <1>2 DEF AliveIsManaged, StoppedIsGone, Runs
<1> QED
  BY <1>3, <1>5, <1>6, <1>7, <1>8

\* A control worker that dies leaves its processes without an owner; a node that
\* restarts takes them along.
LEMMA ForgetStep ==
    ASSUME IInv, NEW n \in Nodes, ControlCrash(n) \/ NodeRestart(n)
    PROVE  IInv'
<1> USE DEF IInv, Orderly
<1>1. /\ UNCHANGED <<body, queue, told>>
      /\ managed' = [managed EXCEPT ![n] = [r \in Roles |-> NoCommand]]
      /\ stopping' = [stopping EXCEPT ![n] = NoCommand]
      /\ applied' = [applied EXCEPT ![n] = [r \in Roles |-> "none"]]
  BY DEF ControlCrash, NodeRestart, Forget, procVars
<1>2. /\ stopping'[n] = NoCommand /\ \A m \in Nodes : m # n => stopping'[m] = stopping[m]
      /\ \A r \in Roles : managed'[n][r] = NoCommand
      /\ \A m \in Nodes, r \in Roles : m # n => managed'[m][r] = managed[m][r]
  BY <1>1 DEF TypeOK
<1>3. /\ proc' \in [Commands -> Process]
      /\ disowned' \in SUBSET Commands
      /\ \A d \in Commands : proc[d] = "none" <=> proc'[d] = "none"
      /\ \A d \in Commands : proc'[d] \in Running /\ d \notin disowned' =>
            d \notin disowned /\ Runs(d) /\ body[d].node # n
  <2>1. CASE ControlCrash(n)
    BY <2>1, ControlAssumption DEF ControlCrash, procVars, TypeOK, Runs
  <2>2. CASE NodeRestart(n)
    <3>1. /\ proc' = [c \in Commands |->
                         IF Runs(c) /\ body[c].node = n THEN "killed" ELSE proc[c]]
          /\ UNCHANGED disowned
      BY <2>2 DEF NodeRestart
    <3> QED
      BY <3>1, ControlAssumption DEF TypeOK, Runs, Running, Process
  <2> QED
    BY <2>1, <2>2
<1>4. TypeOK' /\ QueuedOnce'
  BY <1>1, <1>3 DEF TypeOK, QueuedOnce
<1>5. \A d \in Commands : New(d) => New(d)'
  BY <1>1, <1>3 DEF New
<1>6. QueuedIsNew'
  <2>1. \A p \in Queues : \A i \in DOMAIN queue[p] : queue[p][i] \in Commands
    BY DEF TypeOK
  <2> QED
    BY <1>1, <1>2, <1>5, <2>1, ControlAssumption DEF QueuedIsNew
<1>7. StoppingIsNew'
  <2> SUFFICES ASSUME NEW m \in Nodes, m # n, stopping[m] # NoCommand
               PROVE  /\ body[stopping[m]] \in Body /\ ~told[stopping[m]]
                      /\ proc'[stopping[m]] = "none"
                      /\ body[stopping[m]].node = m
    BY <1>1, <1>2 DEF StoppingIsNew, New
  <2> QED
    BY <1>3 DEF StoppingIsNew, New, TypeOK
<1>8. StartedIsGiven'
  BY <1>1, <1>3 DEF StartedIsGiven
<1>9. ManagedIsOwn'
  BY <1>1, <1>2, <1>3 DEF ManagedIsOwn, TypeOK
<1>10. ASSUME NEW d \in Commands, proc'[d] \in Running, d \notin disowned'
       PROVE  /\ d \notin disowned /\ Runs(d)
              /\ body[d].node \in Nodes \ {n} /\ body[d].role \in Roles
  BY <1>3, <1>10 DEF StartedIsGiven, Runs, Running, Body
<1>11. AliveIsManaged'
  BY <1>1, <1>2, <1>10 DEF AliveIsManaged, Runs
<1>12. StoppedIsGone'
  BY <1>1, <1>2, <1>10 DEF StoppedIsGone, Runs
<1> QED
  BY <1>4, <1>6, <1>7, <1>8, <1>9, <1>11, <1>12

\* Every step keeps the control workers and the processes in order.
LEMMA Step == IInv /\ [Next]_vars => IInv'
<1> SUFFICES ASSUME IInv, [Next]_vars
             PROVE  IInv'
  OBVIOUS
<1>1. ASSUME NEW n \in Nodes, Control(n)
      PROVE  IInv'
  BY <1>1, TakeStep, SpawnStep, TerminateStep, ReplaceStep DEF Control
<1>2. CASE UNCHANGED vars
  BY <1>2 DEF vars, procVars, IInv, TypeOK, Orderly, QueuedOnce, QueuedIsNew, StoppingIsNew,
              StartedIsGiven, ManagedIsOwn, New, AliveIsManaged, StoppedIsGone, Runs
<1> QED
  BY <1>1, <1>2, GiveStep, ProcessStep, ForgetStep DEF Next

-----------------------------------------------------------------------------
\* The strengthened invariant holds of every behavior.
LEMMA Invariance == Spec => []IInv
<1>1. Init => IInv
  <2> SUFFICES ASSUME Init
               PROVE  IInv
    OBVIOUS
  <2>1. \A q \in Queues : queue[q] = << >> /\ DOMAIN queue[q] = {}
    BY DEF Init
  <2>2. TypeOK
    <3>1. queue \in [Queues -> Seq(Commands)]
      BY EmptySeq DEF Init
    <3> QED
      BY <3>1 DEF Init, TypeOK, Process
  <2>3. Orderly
    BY <2>1 DEF Init, Orderly, QueuedOnce, QueuedIsNew, StoppingIsNew, StartedIsGiven, ManagedIsOwn
  <2>4. AliveIsManaged /\ StoppedIsGone
    BY DEF Init, AliveIsManaged, StoppedIsGone, Runs, Running
  <2> QED
    BY <2>2, <2>3, <2>4 DEF IInv
<1> QED
  BY <1>1, Step, PTL DEF Spec

\* Every control queue holds commands, and _PROCS has a command or none for each role.
THEOREM TypesHold == Spec => []TypeOK
<1>1. IInv => TypeOK
  BY DEF IInv
<1> QED
  BY <1>1, Invariance, PTL

\* A role of a node has one managed worker: no process runs that its control worker
\* does not know, unless that one has died.
THEOREM ProcessesAreKnown == Spec => []AliveIsManaged
<1>1. IInv => AliveIsManaged
  BY DEF IInv
<1> QED
  BY <1>1, Invariance, PTL

\* What a stop or restart has sent SIGTERM to runs no longer than its handler.
THEOREM StopsAreSeenThrough == Spec => []StoppedIsGone
<1>1. IInv => StoppedIsGone
  BY DEF IInv
<1> QED
  BY <1>1, Invariance, PTL
=============================================================================
