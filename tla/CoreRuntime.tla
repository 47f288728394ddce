----------------------------- MODULE CoreRuntime -----------------------------
(***************************************************************************)
(* The runtime without celery (core/runtime.py): threads that take events  *)
(* from a retry and a created queue, run the whole pipeline for each in    *)
(* line (core/worker.py, core/pipeline/service.py), and put a failed one   *)
(* into the retry queue.  The queues are Python lists in memory, looked at *)
(* and popped in two steps, or Redis lists, read with BLPOP.               *)
(***************************************************************************)
EXTENDS Integers, Sequences

CONSTANTS
    Tasks,
    Threads,     \* MEDIA_SHUTTLE_CORE_CONCURRENCY of them
    MaxRetries,  \* MEDIA_SHUTTLE_MAX_RETRIES
    Backend,     \* MEDIA_SHUTTLE_QUEUE_BACKEND
    Faults       \* "database": a call to the task repository may raise

ASSUME RuntimeAssumption ==
    /\ MaxRetries \in Nat
    /\ Backend \in {"memory", "redis"}
    /\ Threads # {}
    /\ Faults \subseteq {"database"}

Queues   == {"retry", "created"}
Attempts == 0 .. MaxRetries
Event    == [task : Tasks, attempt : Attempts]
NoEvent  == [task |-> "none"]

VARIABLES
    queue,     \* the events in a queue
    loop,      \* where the loop of a thread is
    event,     \* the event a thread has taken
    status,    \* status of a task in the repository
    finished   \* tasks whose last event was handled

threadVars == <<loop, event>>
vars == <<queue, threadVars, status, finished>>

\* "see_retry", "see_created": about to look at a queue; "pop_retry",
\* "pop_created": has seen that it is not empty; "dead": an exception ended it.
Location == {"see_retry", "pop_retry", "see_created", "pop_created",
             "create", "run", "route", "dead"}

TypeOK ==
    /\ queue    \in [Queues -> Seq(Event)]
    /\ loop     \in [Threads -> Location]
    /\ event    \in [Threads -> Event \cup {NoEvent}]
    /\ status   \in [Tasks -> {"NONE", "QUEUED", "RUNNING", "SUCCEEDED", "FAILED"}]
    /\ finished \in SUBSET Tasks

Init ==
    /\ queue    = [q \in Queues |-> << >>]
    /\ loop     = [th \in Threads |-> "see_retry"]
    /\ event    = [th \in Threads |-> NoEvent]
    /\ status   = [t \in Tasks |-> "NONE"]
    /\ finished = {}

Goto(th, from, to) == loop[th] = from /\ loop' = [loop EXCEPT ![th] = to]
Put(q, e)      == queue' = [queue EXCEPT ![q] = Append(@, e)]
TaskOf(th)     == event[th].task
SetStatus(th, s) == status' = [status EXCEPT ![TaskOf(th)] = s]

\* The API puts the created event of a task: RPUSH in its list mode, or an append
\* to the list the in-memory runtime was built with.
Publish(t) ==
    /\ status[t] = "NONE"
    /\ status' = [status EXCEPT ![t] = "QUEUED"]
    /\ Put("created", [task |-> t, attempt |-> 0])
    /\ UNCHANGED <<threadVars, finished>>

(***************************************************************************)
(* _pop_next_event: the retry queue, then the created queue                *)
(***************************************************************************)

See(q)   == IF q = "retry" THEN "see_retry" ELSE "see_created"
PopAt(q) == IF q = "retry" THEN "pop_retry" ELSE "pop_created"

\* pop_created_event of an empty queue returns None, but BLPOP with timeout 0
\* (the retry queue) blocks.
Returns(q) == Backend = "memory" \/ q = "created"

Empty(th, q) ==
    /\ queue[q] = << >>
    /\ Returns(q)
    /\ Goto(th, See(q), IF q = "retry" THEN "see_created" ELSE "see_retry")
    /\ UNCHANGED <<queue, event, status, finished>>

\* Redis removes the event in the same step.
Take(th, q, from) ==
    /\ Goto(th, from, "create")
    /\ event' = [event EXCEPT ![th] = Head(queue[q])]
    /\ queue' = [queue EXCEPT ![q] = Tail(@)]
    /\ UNCHANGED <<status, finished>>

Find(th, q) ==
    /\ queue[q] # << >>
    /\ IF Backend = "redis" THEN Take(th, q, See(q))
       ELSE Goto(th, See(q), PopAt(q)) /\ UNCHANGED <<queue, event, status, finished>>

\* Mutant: the first event is read, and removed by nobody.
PeekOnly(th, q) ==
    /\ queue[q] # << >>
    /\ Goto(th, PopAt(q), "create")
    /\ event' = [event EXCEPT ![th] = Head(queue[q])]
    /\ UNCHANGED <<queue, status, finished>>
Pop(th, q) ==
    /\ queue[q] # << >>
    /\ Take(th, q, PopAt(q))

\* Mutant: an event in hand does not save the thread.
PopFailsAlways(th, q) ==
    /\ Goto(th, PopAt(q), "dead")
    /\ UNCHANGED <<queue, event, status, finished>>
\* Another thread was faster: IndexError, outside of every try block.
PopFails(th, q) ==
    /\ queue[q] = << >>
    /\ Goto(th, PopAt(q), "dead")
    /\ UNCHANGED <<queue, event, status, finished>>

(***************************************************************************)
(* process_one: handle_event, and _route_failure                           *)
(***************************************************************************)

\* create_task_from_event finds the record; run_task writes working statuses.
Begin(th) ==
    /\ Goto(th, "create", "run")
    /\ SetStatus(th, "RUNNING")
    /\ UNCHANGED <<queue, event, finished>>

Done(th, to) ==
    /\ loop' = [loop EXCEPT ![th] = to]
    /\ event' = [event EXCEPT ![th] = NoEvent]

Succeed(th) ==
    /\ loop[th] = "run"
    /\ Done(th, "see_retry")
    /\ SetStatus(th, "SUCCEEDED")
    /\ finished' = finished \cup {TaskOf(th)}
    /\ UNCHANGED queue

Fail(th) ==
    /\ Goto(th, "run", "route")
    /\ SetStatus(th, "FAILED")
    /\ UNCHANGED <<queue, event, finished>>

\* The repository raises, in run_task's own except block too: the status stays.
Raise(th) ==
    /\ "database" \in Faults
    /\ \E from \in {"create", "run"} : Goto(th, from, "route")
    /\ UNCHANGED <<queue, event, status, finished>>

\* Mutants: the budget compared with <=; the attempt is not counted.
RetryOnceMore(th) ==
    /\ loop[th] = "route"
    /\ event[th].attempt <= MaxRetries
    /\ Put("retry", [event[th] EXCEPT !.attempt = @ + 1])
    /\ Done(th, "see_retry")
    /\ UNCHANGED <<status, finished>>
RetryUncounted(th) ==
    /\ loop[th] = "route"
    /\ event[th].attempt < MaxRetries
    /\ Put("retry", event[th])
    /\ Done(th, "see_retry")
    /\ UNCHANGED <<status, finished>>
Retry(th) ==
    /\ loop[th] = "route"
    /\ event[th].attempt < MaxRetries
    /\ Put("retry", [event[th] EXCEPT !.attempt = @ + 1])
    /\ Done(th, "see_retry")
    /\ UNCHANGED <<status, finished>>

\* Mutant: one attempt fewer than configured.
GiveUpEarly(th) ==
    /\ loop[th] = "route"
    /\ event[th].attempt >= MaxRetries - 1
    /\ Done(th, "see_retry")
    /\ finished' = finished \cup {TaskOf(th)}
    /\ UNCHANGED <<queue, status>>
GiveUp(th) ==
    /\ loop[th] = "route"
    /\ event[th].attempt >= MaxRetries
    /\ Done(th, "see_retry")
    /\ finished' = finished \cup {TaskOf(th)}
    /\ UNCHANGED <<queue, status>>

-----------------------------------------------------------------------------
\* All but the pipeline itself.
Turn(th) ==
    \/ \E q \in Queues : Empty(th, q) \/ Find(th, q) \/ Pop(th, q) \/ PopFails(th, q)
    \/ Begin(th) \/ Retry(th) \/ GiveUp(th)
Loop(th) == Turn(th) \/ Succeed(th) \/ Fail(th)

Next ==
    \/ \E t \in Tasks : Publish(t)
    \/ \E th \in Threads : Loop(th) \/ Raise(th)

Spec == Init /\ [][Next]_vars

\* run_forever keeps every thread in its loop.
FairSpec == Spec /\ \A th \in Threads : WF_vars(Loop(th))
-----------------------------------------------------------------------------
Holds(q, t)  == {i \in DOMAIN queue[q] : queue[q][i].task = t}
HeldBy(t)    == {th \in Threads : event[th] # NoEvent /\ TaskOf(th) = t}
Published    == {t \in Tasks : status[t] # "NONE"}

\* Whatever thread is first at a pop, and whatever thread dies of it: an event
\* is in one queue once, or in the hands of one thread, until its task is
\* finished.
OnePlacePerEvent ==
    \A t \in Published :
        \/ t \in finished /\ HeldBy(t) = {} /\ \A q \in Queues : Holds(q, t) = {}
        \/ /\ t \notin finished
           /\ \E th \in Threads : HeldBy(t) = {th} /\ \A q \in Queues : Holds(q, t) = {}
        \/ /\ t \notin finished
           /\ HeldBy(t) = {}
           /\ \E q \in Queues : /\ \E i \in DOMAIN queue[q] : Holds(q, t) = {i}
                                /\ \A p \in Queues \ {q} : Holds(p, t) = {}

\* A thread that dies of a pop was overtaken by one that lives on.
SomeThreadLives == \E th \in Threads : loop[th] # "dead"

\* A finished task has used its retries, or succeeded.
FailsOnlyAfterRetries ==
    [][\A t \in finished' \ finished :
         \/ status'[t] = "SUCCEEDED"
         \/ \E th \in HeldBy(t) : event[th].attempt = MaxRetries]_vars

\* Every event that was published is handled to its end, although threads die.
EveryEventIsHandled == \A t \in Tasks : status[t] # "NONE" ~> t \in finished
=============================================================================
