-------------------------- MODULE CoreRuntime_proofs --------------------------
(***************************************************************************)
(* The runtime without celery keeps every event in one place, uses up its  *)
(* retries before it gives a task up, and never loses its last thread: for *)
(* any tasks, threads, retry budget, queue backend and database faults.    *)
(***************************************************************************)
EXTENDS CoreRuntime, SequenceTheorems, TLAPS

\* A thread has an event from the moment it took it until it has routed it.
InHand ==
    \A th \in Threads : event[th] # NoEvent <=> loop[th] \in {"create", "run", "route"}

\* No two places for the event of a task: two entries of the queues, two threads, an
\* entry and a thread.
QueuedOnce ==
    \A p, q \in Queues : \A i \in DOMAIN queue[p], j \in DOMAIN queue[q] :
        queue[p][i].task = queue[q][j].task => p = q /\ i = j
HeldOnce ==
    \A th, o \in Threads :
        event[th] # NoEvent /\ event[o] # NoEvent /\ TaskOf(th) = TaskOf(o) => th = o
QueuedOrHeld ==
    \A th \in Threads : event[th] # NoEvent =>
        \A q \in Queues : \A i \in DOMAIN queue[q] : queue[q][i].task # TaskOf(th)

\* Only the event of a task that was published, and is not finished, is anywhere.
Pending == Published \ finished
OnlyPending ==
    /\ finished \subseteq Published
    /\ \A q \in Queues : \A i \in DOMAIN queue[q] : queue[q][i].task \in Pending
    /\ \A th \in Threads : event[th] # NoEvent => TaskOf(th) \in Pending

\* ... and that one is somewhere.
Queued(t) == \E q \in Queues : \E i \in DOMAIN queue[q] : queue[q][i].task = t
NoneLost  == \A t \in Pending : Queued(t) \/ HeldBy(t) # {}

PlaceInv == TypeOK /\ InHand /\ QueuedOnce /\ HeldOnce /\ QueuedOrHeld /\ OnlyPending /\ NoneLost

\* Some thread is alive and will not die of its next pop: the one that found a queue
\* not empty, or the one that emptied it.
Safe(th)   == loop[th] # "dead" /\ \A q \in Queues : loop[th] = PopAt(q) => queue[q] # << >>
ThreadSafe == \E th \in Threads : Safe(th)
-----------------------------------------------------------------------------
(***************************************************************************)
(* The queues as sets of entries                                           *)
(***************************************************************************)

\* An event put into a queue is its last entry; the others stay where they are.
LEMMA PutAppends ==
    ASSUME TypeOK, NEW q \in Queues, NEW e \in Event, Put(q, e)
    PROVE  /\ queue' \in [Queues -> Seq(Event)]
           /\ \A p \in Queues : \A i \in DOMAIN queue[p] :
                 i \in DOMAIN queue'[p] /\ queue'[p][i] = queue[p][i]
           /\ \A p \in Queues : \A i \in DOMAIN queue'[p] :
                 \/ i \in DOMAIN queue[p]
                 \/ p = q /\ i = Len(queue[q]) + 1
           /\ Len(queue[q]) + 1 \in DOMAIN queue'[q]
           /\ queue'[q][Len(queue[q]) + 1] = e
<1>1. queue[q] \in Seq(Event) /\ queue' = [queue EXCEPT ![q] = Append(queue[q], e)]
  BY DEF TypeOK, Put
<1>2. /\ Append(queue[q], e) \in Seq(Event)
      /\ Len(Append(queue[q], e)) = Len(queue[q]) + 1
      /\ \A i \in 1 .. Len(queue[q]) : Append(queue[q], e)[i] = queue[q][i]
      /\ Append(queue[q], e)[Len(queue[q]) + 1] = e
  BY <1>1, AppendProperties
<1>3. /\ DOMAIN queue[q] = 1 .. Len(queue[q])
      /\ DOMAIN Append(queue[q], e) = 1 .. Len(queue[q]) + 1
      /\ Len(queue[q]) \in Nat
  BY <1>1, <1>2
<1>4. queue'[q] = Append(queue[q], e) /\ \A p \in Queues \ {q} : queue'[p] = queue[p]
  BY <1>1 DEF TypeOK
<1>5. queue' \in [Queues -> Seq(Event)]
  BY <1>1, <1>2 DEF TypeOK
<1>6. \A p \in Queues : \A i \in DOMAIN queue[p] :
          i \in DOMAIN queue'[p] /\ queue'[p][i] = queue[p][i]
  BY <1>2, <1>3, <1>4
<1>7. \A p \in Queues : \A i \in DOMAIN queue'[p] :
          i \in DOMAIN queue[p] \/ (p = q /\ i = Len(queue[q]) + 1)
  <2>1. \A i \in DOMAIN queue'[q] : i \in DOMAIN queue[q] \/ i = Len(queue[q]) + 1
    BY <1>3, <1>4
  <2>2. ASSUME NEW p \in Queues, p # q, NEW i \in DOMAIN queue'[p]
        PROVE  i \in DOMAIN queue[p]
    <3>1. queue'[p] = queue[p]
      BY <1>4, <2>2
    <3> QED
      BY <3>1
  <2> QED
    BY <2>1, <2>2
<1> QED
  BY <1>2, <1>3, <1>4, <1>5, <1>6, <1>7

\* A thread takes the first entry of a queue, and the others move up.
LEMMA TakeShifts ==
    ASSUME TypeOK, NEW th \in Threads, NEW q \in Queues, NEW from, Take(th, q, from),
           queue[q] # << >>
    PROVE  /\ queue' \in [Queues -> Seq(Event)]
           /\ 1 \in DOMAIN queue[q]
           /\ event' = [event EXCEPT ![th] = queue[q][1]]
           /\ queue[q][1] \in Event
           /\ \A p \in Queues \ {q} : queue'[p] = queue[p]
           /\ \A i \in DOMAIN queue'[q] :
                 i \in Nat /\ i + 1 \in DOMAIN queue[q] /\ queue'[q][i] = queue[q][i + 1] /\ i + 1 # 1
           /\ \A i \in DOMAIN queue[q] : i = 1 \/ (i - 1 \in DOMAIN queue'[q] /\ i - 1 + 1 = i)
<1>1. queue[q] \in Seq(Event) /\ queue' = [queue EXCEPT ![q] = Tail(queue[q])]
  BY DEF TypeOK, Take
<1>2. /\ Tail(queue[q]) \in Seq(Event)
      /\ Len(Tail(queue[q])) = Len(queue[q]) - 1
      /\ \A i \in 1 .. Len(Tail(queue[q])) : Tail(queue[q])[i] = queue[q][i + 1]
  BY <1>1, HeadTailProperties
<1>3. /\ DOMAIN queue[q] = 1 .. Len(queue[q]) /\ Len(queue[q]) \in Nat \ {0}
      /\ Head(queue[q]) = queue[q][1]
  BY <1>1, EmptySeq
<1>4. DOMAIN Tail(queue[q]) = 1 .. Len(queue[q]) - 1
  BY <1>1, <1>2
<1>5. queue'[q] = Tail(queue[q]) /\ \A p \in Queues \ {q} : queue'[p] = queue[p]
  BY <1>1 DEF TypeOK
<1>6. queue' \in [Queues -> Seq(Event)]
  BY <1>1, <1>2 DEF TypeOK
<1>7. event' = [event EXCEPT ![th] = queue[q][1]]
  BY <1>3 DEF Take
<1>8. queue[q][1] \in Event
  BY <1>1, <1>3
<1> QED
  BY <1>2, <1>3, <1>4, <1>5, <1>6, <1>7, <1>8

\* What a thread may hold is an event or nothing, and nothing is no event.
LEMMA NothingIsNoEvent == NoEvent \notin Event
BY DEF NoEvent, Event

-----------------------------------------------------------------------------
(***************************************************************************)
(* One place for every event                                               *)
(***************************************************************************)

\* An event whose task is in no other place may be put into a queue.
LEMMA PutPlaces ==
    ASSUME TypeOK, QueuedOnce, HeldOnce, QueuedOrHeld,
           NEW q \in Queues, NEW e \in Event, Put(q, e),
           \A p \in Queues : \A i \in DOMAIN queue[p] : queue[p][i].task # e.task,
           \A o \in Threads : event'[o] # NoEvent =>
               event'[o] = event[o] /\ event[o].task # e.task
    PROVE  QueuedOnce' /\ HeldOnce' /\ QueuedOrHeld'
<1> DEFINE last == Len(queue[q]) + 1
<1>1. /\ \A p \in Queues : \A i \in DOMAIN queue'[p] :
            \/ i \in DOMAIN queue[p] /\ queue'[p][i] = queue[p][i]
            \/ p = q /\ i = last
      /\ queue'[q][last] = e
  BY PutAppends
<1>2. QueuedOnce'
  BY <1>1 DEF QueuedOnce
<1>3. HeldOnce'
  BY DEF HeldOnce, TaskOf
<1>4. QueuedOrHeld'
  BY <1>1 DEF QueuedOrHeld, TaskOf
<1> QED
  BY <1>2, <1>3, <1>4

\* A thread that takes the first entry of a queue takes the only one of its task.
LEMMA TakePlaces ==
    ASSUME PlaceInv, NEW th \in Threads, NEW q \in Queues, NEW from, Take(th, q, from),
           queue[q] # << >>, event[th] = NoEvent
    PROVE  QueuedOnce' /\ HeldOnce' /\ QueuedOrHeld' /\ OnlyPending' /\ NoneLost'
<1> DEFINE e == queue[q][1]
<1>1. /\ queue' \in [Queues -> Seq(Event)]
      /\ 1 \in DOMAIN queue[q]
      /\ event' = [event EXCEPT ![th] = e]
      /\ e \in Event
      /\ \A p \in Queues \ {q} : queue'[p] = queue[p]
      /\ \A i \in DOMAIN queue'[q] :
           i \in Nat /\ i + 1 \in DOMAIN queue[q] /\ queue'[q][i] = queue[q][i + 1] /\ i + 1 # 1
      /\ \A i \in DOMAIN queue[q] : i = 1 \/ (i - 1 \in DOMAIN queue'[q] /\ i - 1 + 1 = i)
  BY TakeShifts DEF PlaceInv
<1>2. event'[th] = e /\ \A o \in Threads \ {th} : event'[o] = event[o]
  BY <1>1 DEF PlaceInv, TypeOK
<1>3. UNCHANGED <<status, finished>>
  BY DEF Take
<1> HIDE DEF e
<1>4. \A p \in Queues : \A i \in DOMAIN queue'[p] :
         \E j \in DOMAIN queue[p] : queue'[p][i] = queue[p][j] /\ (p = q => j = i + 1 /\ j # 1)
                                   /\ (p # q => j = i)
  BY <1>1
<1>5. \A p \in Queues : \A i \in DOMAIN queue'[p] : queue'[p][i].task # e.task
  <2> SUFFICES ASSUME NEW p \in Queues, NEW i \in DOMAIN queue'[p], queue'[p][i].task = e.task
               PROVE  FALSE
    OBVIOUS
  <2>1. PICK j \in DOMAIN queue[p] : queue'[p][i] = queue[p][j] /\ (p = q => j # 1)
    BY <1>4
  <2>2. p = q /\ j = 1
    BY <1>1, <2>1 DEF PlaceInv, QueuedOnce, e
  <2> QED
    BY <2>1, <2>2
<1>6. QueuedOnce'
  <2> SUFFICES ASSUME NEW p \in Queues, NEW r \in Queues,
                      NEW i \in DOMAIN queue'[p], NEW j \in DOMAIN queue'[r],
                      queue'[p][i].task = queue'[r][j].task
               PROVE  p = r /\ i = j
    BY DEF QueuedOnce
  <2>1. PICK m \in DOMAIN queue[p] :
          queue'[p][i] = queue[p][m] /\ (p = q => m = i + 1) /\ (p # q => m = i)
    BY <1>4
  <2>2. PICK n \in DOMAIN queue[r] :
          queue'[r][j] = queue[r][n] /\ (r = q => n = j + 1) /\ (r # q => n = j)
    BY <1>4
  <2>3. p = r /\ m = n
    BY <2>1, <2>2 DEF PlaceInv, QueuedOnce
  <2>4. p = q => i \in Nat /\ j \in Nat
    BY <1>1, <2>3
  <2> QED
    BY <2>1, <2>2, <2>3, <2>4
<1>7. HeldOnce'
  <2>1. \A o \in Threads : event[o] # NoEvent => event[o].task # e.task
    BY <1>1 DEF PlaceInv, QueuedOrHeld, TaskOf, e
  <2> QED
    BY <1>2, <2>1 DEF PlaceInv, HeldOnce, TaskOf
<1>8. QueuedOrHeld'
  <2> SUFFICES ASSUME NEW o \in Threads, event'[o] # NoEvent,
                      NEW p \in Queues, NEW i \in DOMAIN queue'[p]
               PROVE  queue'[p][i].task # event'[o].task
    BY DEF QueuedOrHeld, TaskOf
  <2> QED
    BY <1>2, <1>4, <1>5 DEF PlaceInv, QueuedOrHeld, TaskOf
<1>9. OnlyPending'
  <2>1. Pending' = Pending /\ finished' \subseteq Published'
    BY <1>3 DEF Pending, Published, PlaceInv, OnlyPending
  <2>2. \A p \in Queues : \A i \in DOMAIN queue'[p] : queue'[p][i].task \in Pending
    BY <1>4 DEF PlaceInv, OnlyPending
  <2>3. \A o \in Threads : event'[o] # NoEvent => event'[o].task \in Pending
    BY <1>1, <1>2 DEF PlaceInv, OnlyPending, TaskOf, e
  <2> QED
    BY <2>1, <2>2, <2>3 DEF OnlyPending, TaskOf
<1>10. NoneLost'
  <2> SUFFICES ASSUME NEW t \in Pending
               PROVE  Queued(t)' \/ HeldBy(t)' # {}
    BY <1>3 DEF NoneLost, Pending, Published
  <2>1. CASE HeldBy(t) # {}
    <3>1. PICK o \in Threads : event[o] # NoEvent /\ TaskOf(o) = t
      BY <2>1 DEF HeldBy
    <3>2. o # th
      BY <3>1
    <3> QED
      BY <1>2, <3>1, <3>2 DEF HeldBy, TaskOf
  <2>2. CASE Queued(t)
    <3>1. PICK p \in Queues : \E i \in DOMAIN queue[p] : queue[p][i].task = t
      BY <2>2 DEF Queued
    <3>2. PICK i \in DOMAIN queue[p] : queue[p][i].task = t
      BY <3>1
    <3>3. CASE p # q
      BY <1>1, <3>2, <3>3 DEF Queued
    <3>4. CASE p = q /\ i = 1
      BY <1>1, <1>2, <3>2, <3>4, NothingIsNoEvent DEF HeldBy, TaskOf, e
    <3>5. CASE p = q /\ i # 1
      <4>1. i - 1 \in DOMAIN queue'[q] /\ queue'[q][i - 1] = queue[q][i - 1 + 1] /\ i - 1 + 1 = i
        BY <1>1, <3>5
      <4> QED
        BY <3>2, <3>5, <4>1 DEF Queued
    <3> QED
      BY <3>3, <3>4, <3>5
  <2> QED
    BY <2>1, <2>2 DEF PlaceInv, NoneLost
<1> QED
  BY <1>6, <1>7, <1>8, <1>9, <1>10

\* A step that moves no event: it may change the status of a task that has one.
LEMMA StayPlaces ==
    ASSUME PlaceInv, UNCHANGED <<queue, event, finished>>, Published' = Published
    PROVE  QueuedOnce' /\ HeldOnce' /\ QueuedOrHeld' /\ OnlyPending' /\ NoneLost'
<1>1. Pending' = Pending
  BY DEF Pending
<1>2. QueuedOnce' /\ HeldOnce' /\ QueuedOrHeld'
  BY DEF PlaceInv, QueuedOnce, HeldOnce, QueuedOrHeld, TaskOf
<1>3. OnlyPending'
  BY <1>1 DEF PlaceInv, OnlyPending, TaskOf
<1>4. NoneLost'
  BY <1>1 DEF PlaceInv, NoneLost, Queued, HeldBy, TaskOf
<1> QED
  BY <1>2, <1>3, <1>4

\* The task of the event in a thread's hands was published and is not finished.
LEMMA HandHoldsPending ==
    ASSUME PlaceInv, NEW th \in Threads, loop[th] \in {"create", "run", "route"}
    PROVE  /\ event[th] \in Event /\ event[th] # NoEvent
           /\ TaskOf(th) \in Tasks /\ TaskOf(th) \in Pending
           /\ event[th].attempt \in Attempts
<1>1. event[th] \in Event /\ event[th] # NoEvent
  BY DEF PlaceInv, TypeOK, InHand
<1> QED
  BY <1>1 DEF PlaceInv, OnlyPending, TaskOf, Event

\* A handled event is dropped, and its task is finished.
LEMMA FinishPlaces ==
    ASSUME PlaceInv, NEW th \in Threads, loop[th] \in {"run", "route"}, Done(th, "see_retry"),
           UNCHANGED queue, finished' = finished \cup {TaskOf(th)}, Published' = Published
    PROVE  QueuedOnce' /\ HeldOnce' /\ QueuedOrHeld' /\ OnlyPending' /\ NoneLost'
<1>1. /\ event[th] # NoEvent
      /\ TaskOf(th) \in Pending
  BY HandHoldsPending
<1>2. event'[th] = NoEvent /\ \A o \in Threads \ {th} : event'[o] = event[o]
  BY DEF Done, PlaceInv, TypeOK
<1>3. Pending' = Pending \ {TaskOf(th)}
  BY DEF Pending
<1>4. QueuedOnce' /\ HeldOnce' /\ QueuedOrHeld'
  BY <1>2 DEF PlaceInv, QueuedOnce, HeldOnce, QueuedOrHeld, TaskOf
<1>5. OnlyPending'
  <2>1. finished' \subseteq Published'
    BY <1>1 DEF PlaceInv, OnlyPending, Pending
  <2>2. \A q \in Queues : \A i \in DOMAIN queue[q] : queue[q][i].task \in Pending'
    BY <1>1, <1>3 DEF PlaceInv, OnlyPending, QueuedOrHeld
  <2>3. \A o \in Threads : event'[o] # NoEvent => event'[o].task \in Pending'
    BY <1>1, <1>2, <1>3 DEF PlaceInv, OnlyPending, HeldOnce, TaskOf
  <2> QED
    BY <2>1, <2>2, <2>3 DEF OnlyPending, TaskOf
<1>6. NoneLost'
  <2> SUFFICES ASSUME NEW t \in Pending, t # TaskOf(th)
               PROVE  Queued(t)' \/ HeldBy(t)' # {}
    BY <1>3 DEF NoneLost
  <2>1. CASE Queued(t)
    BY <2>1 DEF Queued
  <2>2. CASE HeldBy(t) # {}
    <3>1. PICK o \in Threads : event[o] # NoEvent /\ TaskOf(o) = t
      BY <2>2 DEF HeldBy
    <3> QED
      BY <1>2, <3>1 DEF HeldBy, TaskOf
  <2> QED
    BY <2>1, <2>2 DEF PlaceInv, NoneLost
<1> QED
  BY <1>4, <1>5, <1>6

\* A task enters the created queue once.
LEMMA PublishPlaces ==
    ASSUME PlaceInv, NEW t \in Tasks, Publish(t)
    PROVE  QueuedOnce' /\ HeldOnce' /\ QueuedOrHeld' /\ OnlyPending' /\ NoneLost'
<1> DEFINE e == [task |-> t, attempt |-> 0]
<1>1. e \in Event /\ e.task = t
  BY RuntimeAssumption DEF Event, Attempts
<1>2. "created" \in Queues /\ Put("created", e) /\ UNCHANGED <<event, finished>>
  BY DEF Publish, Queues, threadVars
<1> HIDE DEF e
<1>3. t \notin Published /\ Published' = Published \cup {t}
  BY DEF Publish, Published, PlaceInv, TypeOK
<1>4. Pending' = Pending \cup {t} /\ t \notin Pending
  BY <1>2, <1>3 DEF Pending, PlaceInv, OnlyPending
<1>5. /\ \A p \in Queues : \A i \in DOMAIN queue[p] : queue[p][i].task # t
      /\ \A o \in Threads : event[o] # NoEvent => event[o].task # t
  BY <1>4 DEF PlaceInv, OnlyPending, TaskOf
<1>6. QueuedOnce' /\ HeldOnce' /\ QueuedOrHeld'
  BY <1>1, <1>2, <1>5, PutPlaces DEF PlaceInv
<1>7. /\ \A p \in Queues : \A i \in DOMAIN queue[p] :
            i \in DOMAIN queue'[p] /\ queue'[p][i] = queue[p][i]
      /\ \A p \in Queues : \A i \in DOMAIN queue'[p] :
            i \in DOMAIN queue[p] \/ queue'[p][i].task = t
      /\ \E i \in DOMAIN queue'["created"] : queue'["created"][i].task = t
  BY <1>1, <1>2, PutAppends DEF PlaceInv
<1>8. OnlyPending'
  <2>1. finished' \subseteq Published'
    BY <1>2, <1>3 DEF PlaceInv, OnlyPending
  <2>2. \A p \in Queues : \A i \in DOMAIN queue'[p] : queue'[p][i].task \in Pending'
    BY <1>4, <1>7 DEF PlaceInv, OnlyPending
  <2>3. \A o \in Threads : event'[o] # NoEvent => event'[o].task \in Pending'
    BY <1>2, <1>4 DEF PlaceInv, OnlyPending, TaskOf
  <2> QED
    BY <2>1, <2>2, <2>3 DEF OnlyPending, TaskOf
<1>9. NoneLost'
  <2> SUFFICES ASSUME NEW u \in Pending'
               PROVE  Queued(u)' \/ HeldBy(u)' # {}
    BY DEF NoneLost
  <2>1. CASE u = t
    BY <1>2, <1>7, <2>1 DEF Queued
  <2>2. CASE u \in Pending /\ Queued(u)
    BY <1>7, <2>2 DEF Queued
  <2>3. CASE u \in Pending /\ HeldBy(u) # {}
    BY <1>2, <2>3 DEF HeldBy, TaskOf
  <2> QED
    BY <1>4, <2>1, <2>2, <2>3 DEF PlaceInv, NoneLost
<1> QED
  BY <1>6, <1>8, <1>9

\* A failed event goes back into the retry queue, from the hands of one thread.
LEMMA RetryPlaces ==
    ASSUME PlaceInv, NEW th \in Threads, Retry(th)
    PROVE  QueuedOnce' /\ HeldOnce' /\ QueuedOrHeld' /\ OnlyPending' /\ NoneLost'
<1> DEFINE e == [event[th] EXCEPT !.attempt = @ + 1]
<1>1. /\ event[th] \in Event /\ event[th] # NoEvent
      /\ event[th].task \in Pending
      /\ event[th].attempt \in 0 .. MaxRetries
  BY HandHoldsPending DEF Retry, TaskOf, Attempts
<1>2. e \in Event /\ e.task = event[th].task
  BY <1>1, RuntimeAssumption DEF Retry, Event, Attempts
<1>3. "retry" \in Queues /\ Put("retry", e) /\ UNCHANGED <<status, finished>>
  BY DEF Retry, Queues
<1> HIDE DEF e
<1>4. event'[th] = NoEvent /\ \A o \in Threads \ {th} : event'[o] = event[o]
  BY DEF Retry, Done, PlaceInv, TypeOK
<1>5. Pending' = Pending /\ Published' = Published
  BY <1>3 DEF Pending, Published
<1>6. /\ \A p \in Queues : \A i \in DOMAIN queue[p] : queue[p][i].task # e.task
      /\ \A o \in Threads \ {th} : event[o] # NoEvent => event[o].task # e.task
  BY <1>1, <1>2 DEF PlaceInv, QueuedOrHeld, HeldOnce, TaskOf
<1>7. QueuedOnce' /\ HeldOnce' /\ QueuedOrHeld'
  BY <1>2, <1>3, <1>4, <1>6, PutPlaces DEF PlaceInv
<1>8. /\ \A p \in Queues : \A i \in DOMAIN queue[p] :
            i \in DOMAIN queue'[p] /\ queue'[p][i] = queue[p][i]
      /\ \A p \in Queues : \A i \in DOMAIN queue'[p] :
            \/ i \in DOMAIN queue[p] /\ queue'[p][i] = queue[p][i]
            \/ queue'[p][i].task = e.task
      /\ \E i \in DOMAIN queue'["retry"] : queue'["retry"][i].task = e.task
  BY <1>2, <1>3, PutAppends DEF PlaceInv
<1>9. OnlyPending'
  <2>1. finished' \subseteq Published'
    BY <1>3, <1>5 DEF PlaceInv, OnlyPending
  <2>2. \A p \in Queues : \A i \in DOMAIN queue'[p] : queue'[p][i].task \in Pending'
    BY <1>1, <1>2, <1>5, <1>8 DEF PlaceInv, OnlyPending
  <2>3. \A o \in Threads : event'[o] # NoEvent => event'[o].task \in Pending'
    BY <1>4, <1>5 DEF PlaceInv, OnlyPending, TaskOf
  <2> QED
    BY <2>1, <2>2, <2>3 DEF OnlyPending, TaskOf
<1>10. NoneLost'
  <2> SUFFICES ASSUME NEW u \in Pending
               PROVE  Queued(u)' \/ HeldBy(u)' # {}
    BY <1>5 DEF NoneLost
  <2>1. CASE u = e.task
    BY <1>3, <1>8, <2>1 DEF Queued
  <2>2. CASE Queued(u)
    BY <1>8, <2>2 DEF Queued
  <2>3. CASE u # e.task /\ HeldBy(u) # {}
    <3>1. PICK o \in Threads : event[o] # NoEvent /\ TaskOf(o) = u
      BY <2>3 DEF HeldBy
    <3>2. o # th
      BY <1>2, <2>3, <3>1 DEF TaskOf
    <3> QED
      BY <1>4, <3>1, <3>2 DEF HeldBy, TaskOf
  <2> QED
    BY <2>1, <2>2, <2>3 DEF PlaceInv, NoneLost
<1> QED
  BY <1>7, <1>9, <1>10

-----------------------------------------------------------------------------
(***************************************************************************)
(* One step of the strengthened invariant                                  *)
(***************************************************************************)

\* Taking an event: a thread that looks at a queue has its hands free.
LEMMA TakeStep ==
    ASSUME PlaceInv, NEW th \in Threads, NEW q \in Queues, NEW from \in {See(q), PopAt(q)},
           Take(th, q, from), queue[q] # << >>
    PROVE  PlaceInv'
<1>1. loop[th] \in {"see_retry", "see_created", "pop_retry", "pop_created"}
  BY DEF Take, Goto, See, PopAt
<1>2. event[th] = NoEvent
  BY <1>1 DEF PlaceInv, InHand
<1>3. QueuedOnce' /\ HeldOnce' /\ QueuedOrHeld' /\ OnlyPending' /\ NoneLost'
  BY <1>2, TakePlaces
<1>4. /\ queue' \in [Queues -> Seq(Event)]
      /\ event' = [event EXCEPT ![th] = queue[q][1]]
      /\ queue[q][1] \in Event
  BY TakeShifts DEF PlaceInv
<1>5. loop' = [loop EXCEPT ![th] = "create"] /\ UNCHANGED <<status, finished>>
  BY DEF Take, Goto
<1>6. TypeOK'
  BY <1>4, <1>5 DEF PlaceInv, TypeOK, Location
<1>7. InHand'
  BY <1>4, <1>5, NothingIsNoEvent DEF PlaceInv, TypeOK, InHand
<1> QED
  BY <1>3, <1>6, <1>7 DEF PlaceInv

\* Looking at a queue, or dying of a pop: the thread has no event, and gets none.
LEMMA LookStep ==
    ASSUME PlaceInv, NEW th \in Threads, UNCHANGED <<queue, event, status, finished>>,
           NEW from \in Location \ {"create", "run", "route"},
           NEW to \in Location \ {"create", "run", "route"}, Goto(th, from, to)
    PROVE  PlaceInv'
<1>1. QueuedOnce' /\ HeldOnce' /\ QueuedOrHeld' /\ OnlyPending' /\ NoneLost'
  BY StayPlaces DEF Published
<1>2. TypeOK'
  BY DEF PlaceInv, TypeOK, Goto
<1>3. InHand'
  BY DEF PlaceInv, TypeOK, InHand, Goto
<1> QED
  BY <1>1, <1>2, <1>3 DEF PlaceInv

\* process_one before it routes a failure: the thread keeps its event.
LEMMA WorkStep ==
    ASSUME PlaceInv, NEW th \in Threads, Begin(th) \/ Fail(th) \/ Raise(th)
    PROVE  PlaceInv'
<1>1. /\ loop[th] \in {"create", "run"} /\ UNCHANGED <<queue, event, finished>>
      /\ \E to \in {"run", "route"} : loop' = [loop EXCEPT ![th] = to]
      /\ \/ status' = status
         \/ \E s \in {"RUNNING", "FAILED"} : status' = [status EXCEPT ![TaskOf(th)] = s]
  BY DEF Begin, Fail, Raise, Goto, SetStatus
<1>2. TaskOf(th) \in Tasks /\ TaskOf(th) \in Published
  BY <1>1, HandHoldsPending DEF Pending
<1>3. Published' = Published
  BY <1>1, <1>2 DEF Published, PlaceInv, TypeOK
<1>4. QueuedOnce' /\ HeldOnce' /\ QueuedOrHeld' /\ OnlyPending' /\ NoneLost'
  BY <1>1, <1>3, StayPlaces
<1>5. TypeOK'
  <2>1. status' \in [Tasks -> {"NONE", "QUEUED", "RUNNING", "SUCCEEDED", "FAILED"}]
    BY <1>1 DEF PlaceInv, TypeOK
  <2> QED
    BY <1>1, <2>1 DEF PlaceInv, TypeOK, Location
<1>6. InHand'
  BY <1>1 DEF PlaceInv, TypeOK, InHand
<1> QED
  BY <1>4, <1>5, <1>6 DEF PlaceInv

\* The end of an event: with a success, or with its last attempt.
LEMMA FinishStep ==
    ASSUME PlaceInv, NEW th \in Threads, Succeed(th) \/ GiveUp(th)
    PROVE  PlaceInv'
<1>1. /\ loop[th] \in {"run", "route"} /\ Done(th, "see_retry") /\ UNCHANGED queue
      /\ finished' = finished \cup {TaskOf(th)}
      /\ status' = status \/ status' = [status EXCEPT ![TaskOf(th)] = "SUCCEEDED"]
  BY DEF Succeed, GiveUp, SetStatus
<1>2. TaskOf(th) \in Tasks /\ TaskOf(th) \in Published
  BY <1>1, HandHoldsPending DEF Pending
<1>3. Published' = Published
  BY <1>1, <1>2 DEF Published, PlaceInv, TypeOK
<1>4. QueuedOnce' /\ HeldOnce' /\ QueuedOrHeld' /\ OnlyPending' /\ NoneLost'
  BY <1>1, <1>3, FinishPlaces
<1>5. TypeOK'
  <2>1. status' \in [Tasks -> {"NONE", "QUEUED", "RUNNING", "SUCCEEDED", "FAILED"}]
    BY <1>1 DEF PlaceInv, TypeOK
  <2> QED
    BY <1>1, <1>2, <2>1 DEF PlaceInv, TypeOK, Location, Done
<1>6. InHand'
  BY <1>1 DEF PlaceInv, TypeOK, InHand, Done
<1> QED
  BY <1>4, <1>5, <1>6 DEF PlaceInv

\* What enters a queue: the created event of a new task, or a failed one.
LEMMA EnterStep ==
    ASSUME PlaceInv, (\E t \in Tasks : Publish(t)) \/ (\E th \in Threads : Retry(th))
    PROVE  PlaceInv'
<1>1. ASSUME NEW t \in Tasks, Publish(t)
      PROVE  PlaceInv'
  <2>1. QueuedOnce' /\ HeldOnce' /\ QueuedOrHeld' /\ OnlyPending' /\ NoneLost'
    BY <1>1, PublishPlaces
  <2>2. queue' \in [Queues -> Seq(Event)]
    <3>1. [task |-> t, attempt |-> 0] \in Event /\ "created" \in Queues
      BY RuntimeAssumption DEF Event, Attempts, Queues
    <3> QED
      BY <1>1, <3>1, PutAppends DEF Publish, PlaceInv
  <2>3. TypeOK'
    BY <1>1, <2>2 DEF Publish, PlaceInv, TypeOK, threadVars
  <2>4. InHand'
    BY <1>1 DEF Publish, PlaceInv, InHand, threadVars
  <2> QED
    BY <2>1, <2>3, <2>4 DEF PlaceInv
<1>2. ASSUME NEW th \in Threads, Retry(th)
      PROVE  PlaceInv'
  <2>1. QueuedOnce' /\ HeldOnce' /\ QueuedOrHeld' /\ OnlyPending' /\ NoneLost'
    BY <1>2, RetryPlaces
  <2>2. queue' \in [Queues -> Seq(Event)]
    <3>1. event[th] \in Event
      BY <1>2, HandHoldsPending DEF Retry
    <3>2. [event[th] EXCEPT !.attempt = @ + 1] \in Event /\ "retry" \in Queues
      BY <1>2, <3>1, RuntimeAssumption DEF Retry, Event, Attempts, Queues
    <3> QED
      BY <1>2, <3>2, PutAppends DEF Retry, PlaceInv
  <2>3. TypeOK'
    BY <1>2, <2>2 DEF Retry, Done, PlaceInv, TypeOK, Location
  <2>4. InHand'
    BY <1>2 DEF Retry, Done, PlaceInv, TypeOK, InHand
  <2> QED
    BY <2>1, <2>3, <2>4 DEF PlaceInv
<1> QED
  BY <1>1, <1>2

\* Every step keeps every event in its one place.
LEMMA PlaceStep == PlaceInv /\ [Next]_vars => PlaceInv'
<1> SUFFICES ASSUME PlaceInv, [Next]_vars
             PROVE  PlaceInv'
  OBVIOUS
<1>1. ASSUME NEW th \in Threads, NEW q \in Queues,
             Empty(th, q) \/ Find(th, q) \/ Pop(th, q) \/ PopFails(th, q)
      PROVE  PlaceInv'
  <2>1. CASE Empty(th, q)
    BY <2>1, LookStep DEF Empty, See, Location
  <2>2. CASE Find(th, q) /\ Backend = "redis"
    BY <2>2, TakeStep DEF Find
  <2>3. CASE Find(th, q) /\ Backend # "redis"
    BY <2>3, LookStep DEF Find, See, PopAt, Location
  <2>4. CASE Pop(th, q)
    BY <2>4, TakeStep DEF Pop
  <2>5. CASE PopFails(th, q)
    BY <2>5, LookStep DEF PopFails, PopAt, Location
  <2> QED
    BY <1>1, <2>1, <2>2, <2>3, <2>4, <2>5
<1>2. CASE UNCHANGED vars
  <2>1. QueuedOnce' /\ HeldOnce' /\ QueuedOrHeld' /\ OnlyPending' /\ NoneLost'
    BY <1>2, StayPlaces DEF vars, threadVars, Published
  <2>2. TypeOK' /\ InHand'
    BY <1>2 DEF vars, threadVars, PlaceInv, TypeOK, InHand
  <2> QED
    BY <2>1, <2>2 DEF PlaceInv
<1> QED
  BY <1>1, <1>2, WorkStep, FinishStep, EnterStep DEF Next, Loop, Turn

\* A pop fails when another thread has emptied the queue, and whoever did that has an
\* event in hand or has found a queue not empty again.
LEMMA SafeStep == PlaceInv /\ ThreadSafe /\ [Next]_vars => ThreadSafe'
<1> SUFFICES ASSUME PlaceInv, ThreadSafe, [Next]_vars
             PROVE  ThreadSafe'
  OBVIOUS
<1> USE DEF ThreadSafe, Safe, PopAt
<1>1. PICK s \in Threads : Safe(s)
  OBVIOUS
<1>2. /\ queue \in [Queues -> Seq(Event)]
      /\ loop \in [Threads -> Location]
  BY DEF PlaceInv, TypeOK
<1>3. ASSUME NEW th \in Threads, NEW q \in Queues, NEW from, Take(th, q, from)
      PROVE  ThreadSafe'
  BY <1>2, <1>3 DEF Take, Goto
<1>4. ASSUME NEW th \in Threads, UNCHANGED queue,
             \E from \in Location, to \in Location \ {"dead", "pop_retry", "pop_created"} :
                 Goto(th, from, to)
      PROVE  ThreadSafe'
  BY <1>2, <1>4 DEF Goto
<1>5. ASSUME NEW q \in Queues, NEW e \in Event, Put(q, e), loop'[s] \in {loop[s], "see_retry"}
      PROVE  ThreadSafe'
  <2>1. queue'[q] # << >> /\ \A p \in Queues \ {q} : queue'[p] = queue[p]
    <3>1. queue[q] \in Seq(Event)
      BY <1>2
    <3>2. Append(queue[q], e) # << >>
      BY <3>1, AppendProperties
    <3> QED
      BY <1>2, <1>5, <3>2 DEF Put
  <2>2. loop'[s] # "dead"
    BY <1>1, <1>5
  <2>3. ASSUME NEW p \in Queues, loop'[s] = PopAt(p)
        PROVE  queue'[p] # << >>
    BY <1>1, <1>5, <2>1, <2>3
  <2> QED
    BY <2>2, <2>3
<1>6. ASSUME NEW th \in Threads, NEW q \in Queues, Empty(th, q)
      PROVE  ThreadSafe'
  BY <1>4, <1>6 DEF Empty, See, Location
<1>7. ASSUME NEW th \in Threads, NEW q \in Queues, Find(th, q)
      PROVE  ThreadSafe'
  <2>1. CASE Backend = "redis"
    BY <1>3, <1>7, <2>1 DEF Find
  <2>2. CASE Backend # "redis"
    <3>1. queue' = queue /\ queue[q] # << >> /\ loop' = [loop EXCEPT ![th] = PopAt(q)]
      BY <1>7, <2>2 DEF Find, Goto
    <3>2. \A p \in Queues : PopAt(p) = PopAt(q) => p = q
      BY DEF Queues
    <3>3. Safe(th)'
      BY <1>2, <3>1, <3>2
    <3> QED
      BY <3>3
  <2> QED
    BY <2>1, <2>2
<1>8. ASSUME NEW th \in Threads, NEW q \in Queues, Pop(th, q)
      PROVE  ThreadSafe'
  BY <1>3, <1>8 DEF Pop
<1>9. ASSUME NEW th \in Threads, NEW q \in Queues, PopFails(th, q)
      PROVE  ThreadSafe'
  <2>1. s # th
    BY <1>1, <1>9 DEF PopFails, Goto
  <2> QED
    BY <1>1, <1>2, <1>9, <2>1 DEF PopFails, Goto
<1>10. ASSUME NEW th \in Threads, Begin(th) \/ Fail(th) \/ Raise(th)
       PROVE  ThreadSafe'
  BY <1>4, <1>10 DEF Begin, Fail, Raise, Goto, Location
<1>11. ASSUME NEW th \in Threads, Succeed(th) \/ GiveUp(th)
       PROVE  ThreadSafe'
  BY <1>1, <1>2, <1>11 DEF Succeed, GiveUp, Done
<1>12. ASSUME NEW t \in Tasks, Publish(t)
       PROVE  ThreadSafe'
  <2>1. [task |-> t, attempt |-> 0] \in Event /\ "created" \in Queues
    BY RuntimeAssumption DEF Event, Attempts, Queues
  <2> QED
    BY <1>5, <1>12, <2>1 DEF Publish, threadVars
<1>13. ASSUME NEW th \in Threads, Retry(th)
       PROVE  ThreadSafe'
  <2>1. event[th] \in Event
    BY <1>13, HandHoldsPending DEF Retry
  <2>2. [event[th] EXCEPT !.attempt = @ + 1] \in Event /\ "retry" \in Queues
    BY <1>13, <2>1, RuntimeAssumption DEF Retry, Event, Attempts, Queues
  <2> QED
    BY <1>2, <1>5, <1>13, <2>2 DEF Retry, Done
<1>14. CASE UNCHANGED vars
  BY <1>14 DEF vars, threadVars
<1> QED
  BY <1>6, <1>7, <1>8, <1>9, <1>10, <1>11, <1>12, <1>13, <1>14 DEF Next, Loop, Turn

-----------------------------------------------------------------------------
\* The strengthened invariants hold of every behavior.
LEMMA Invariance == Spec => [](PlaceInv /\ ThreadSafe)
<1>1. Init => PlaceInv
  <2> SUFFICES ASSUME Init
               PROVE  PlaceInv
    OBVIOUS
  <2>1. \A q \in Queues : queue[q] = << >> /\ DOMAIN queue[q] = {}
    BY DEF Init
  <2>2. TypeOK
    <3>1. queue \in [Queues -> Seq(Event)]
      BY EmptySeq DEF Init
    <3> QED
      BY <3>1 DEF Init, TypeOK, Location
  <2>3. Published = {} /\ finished = {}
    BY DEF Init, Published
  <2> QED
    BY <2>1, <2>2, <2>3
    DEF Init, PlaceInv, InHand, QueuedOnce, HeldOnce, QueuedOrHeld, OnlyPending, NoneLost, Pending
<1>2. Init => ThreadSafe
  BY RuntimeAssumption DEF Init, ThreadSafe, Safe, PopAt
<1> QED
  BY <1>1, <1>2, PlaceStep, SafeStep, PTL DEF Spec

\* Every queue holds events, with an attempt within the budget, and so does every
\* thread that has one.
THEOREM TypesHold == Spec => []TypeOK
<1>1. PlaceInv => TypeOK
  BY DEF PlaceInv
<1> QED
  BY <1>1, Invariance, PTL

\* An event is in one queue once, or in the hands of one thread, until its task is
\* finished, whichever thread is first at a pop and whichever dies of it.
THEOREM EventsKeepTheirPlace == Spec => []OnePlacePerEvent
<1>1. ASSUME PlaceInv
      PROVE  OnePlacePerEvent
  <2> SUFFICES ASSUME NEW t \in Published
               PROVE  \/ t \in finished /\ HeldBy(t) = {} /\ \A q \in Queues : Holds(q, t) = {}
                      \/ /\ t \notin finished
                         /\ \E th \in Threads :
                               HeldBy(t) = {th} /\ \A q \in Queues : Holds(q, t) = {}
                      \/ /\ t \notin finished
                         /\ HeldBy(t) = {}
                         /\ \E q \in Queues : /\ \E i \in DOMAIN queue[q] : Holds(q, t) = {i}
                                              /\ \A p \in Queues \ {q} : Holds(p, t) = {}
    BY DEF OnePlacePerEvent
  <2> USE <1>1 DEF PlaceInv
  <2>1. CASE t \in finished
    BY <2>1 DEF OnlyPending, Pending, HeldBy, Holds
  <2>2. CASE t \notin finished /\ HeldBy(t) # {}
    <3>1. PICK th \in Threads : event[th] # NoEvent /\ TaskOf(th) = t
      BY <2>2 DEF HeldBy
    <3>2. HeldBy(t) = {th}
      BY <3>1 DEF HeldBy, HeldOnce
    <3>3. \A q \in Queues : Holds(q, t) = {}
      BY <3>1 DEF QueuedOrHeld, Holds
    <3> QED
      BY <2>2, <3>2, <3>3
  <2>3. CASE t \notin finished /\ HeldBy(t) = {}
    <3>1. PICK q \in Queues : \E i \in DOMAIN queue[q] : queue[q][i].task = t
      BY <2>3 DEF NoneLost, Pending, Queued
    <3>2. PICK i \in DOMAIN queue[q] : queue[q][i].task = t
      BY <3>1
    <3>3. Holds(q, t) = {i}
      BY <3>2 DEF Holds, QueuedOnce
    <3>4. \A p \in Queues \ {q} : Holds(p, t) = {}
      BY <3>2 DEF Holds, QueuedOnce
    <3> QED
      BY <2>3, <3>3, <3>4
  <2> QED
    BY <2>1, <2>2, <2>3
<1> QED
  BY <1>1, Invariance, PTL

\* However many threads race for however few events, one of them outlives the race.
THEOREM AThreadLives == Spec => []SomeThreadLives
<1>1. ThreadSafe => SomeThreadLives
  BY DEF ThreadSafe, Safe, SomeThreadLives
<1> QED
  BY <1>1, Invariance, PTL

\* A task is finished by a success or by its last attempt, not by an earlier one.
THEOREM RetriesAreUsedUp == Spec => FailsOnlyAfterRetries
<1> DEFINE Justified ==
             \A t \in finished' \ finished :
                \/ status'[t] = "SUCCEEDED"
                \/ \E th \in HeldBy(t) : event[th].attempt = MaxRetries
<1>1. ASSUME PlaceInv, [Next]_vars
      PROVE  [Justified]_vars
  <2>1. ASSUME NEW th \in Threads, Succeed(th)
        PROVE  Justified
    <3>1. TaskOf(th) \in Tasks
      BY <1>1, <2>1, HandHoldsPending DEF Succeed
    <3> QED
      BY <1>1, <2>1, <3>1 DEF Succeed, SetStatus, PlaceInv, TypeOK
  <2>2. ASSUME NEW th \in Threads, GiveUp(th)
        PROVE  Justified
    <3>1. event[th] # NoEvent /\ event[th].attempt = MaxRetries
      BY <1>1, <2>2, HandHoldsPending, RuntimeAssumption DEF GiveUp, Attempts
    <3> QED
      BY <2>2, <3>1 DEF GiveUp, HeldBy
  <2>3. ASSUME NEW th \in Threads, Begin(th) \/ Fail(th) \/ Raise(th) \/ Retry(th)
        PROVE  Justified
    BY <2>3 DEF Begin, Fail, Raise, Retry
  <2>4. ASSUME NEW th \in Threads, NEW q \in Queues,
               Empty(th, q) \/ Find(th, q) \/ Pop(th, q) \/ PopFails(th, q)
        PROVE  Justified
    BY <2>4 DEF Empty, Find, Pop, PopFails, Take
  <2>5. ASSUME NEW t \in Tasks, Publish(t)
        PROVE  Justified
    BY <2>5 DEF Publish
  <2> QED
    BY <1>1, <2>1, <2>2, <2>3, <2>4, <2>5 DEF Next, Loop, Turn
<1> QED
  BY <1>1, Invariance, PTL DEF Spec, FailsOnlyAfterRetries
=============================================================================
