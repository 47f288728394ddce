------------------------ MODULE WorkerRegistry_proofs ------------------------
(***************************************************************************)
(* What an operator wrote into the document of a worker stays there, for   *)
(* any number of requests, which read and replace the document between     *)
(* each other's reads and writes, and between those of the core.           *)
(***************************************************************************)
EXTENDS WorkerRegistry, TLAPS

\* What a writer has at hand, by who it is and where it is.
Typed(w) == wants[w] \in
    (IF w \in Core THEN [status : Status]
     ELSE IF w = "listing" THEN [queues : SUBSET Queues] ELSE Wish) \cup {NoWish}
AtHand(w) ==
    /\ w \in Core =>
         /\ at[w] \in {"idle", "find", "write"}
         /\ at[w] # "idle" => wants[w] \in [status : Status]
    /\ w = "listing" =>
         /\ at[w] \in {"idle", "queues", "reget", "write"}
         /\ at[w] \in {"reget", "write"} => wants[w] \in [queues : SUBSET Queues]
    /\ w \in Requests =>
         /\ at[w] # "queues"
         /\ at[w] \notin {"idle", "over"} => wants[w] \in Wish
         /\ at[w] \notin {"idle", "over", "find", "write"} => wants[w].kind = "set"
         /\ at[w] \in {"patch_queue", "patch_intent"} => seen[w] \in Record
         /\ at[w] = "patch_intent" => seen[w].desired = wants[w].size
Shape ==
    /\ wants = [w \in Writers |-> wants[w]]
    /\ \A w \in Writers : AtHand(w)

\* The writers that will replace the document without a concurrency of their own:
\* they write the one they have read.
Passes(w) ==
    /\ at[w] \in Holding
    /\ \/ w \in Core
       \/ w \in Requests /\ (at[w] = "patch_queue" \/ wants[w].kind \in {"shutdown", "rate"})

\* The intent is in the document and in the hands of everyone who will pass it on.
IntentCarried ==
    intent # 0 =>
        /\ doc \in Record /\ doc.desired = intent
        /\ \A w \in Writers : Passes(w) => seen[w] \in Record /\ seen[w].desired = intent

\* So is the rate limit; nobody is about to create a document.
LimitCarried ==
    limited =>
        /\ doc \in Record /\ doc.limit
        /\ \A w \in Writers \ Core : at[w] \in Holding =>
              at[w] # "create" /\ seen[w] \in Record /\ seen[w].limit

IInv == TypeOK /\ Shape /\ IntentCarried /\ LimitCarried
-----------------------------------------------------------------------------
(***************************************************************************)
(* Documents and writers                                                   *)
(***************************************************************************)

\* A missing document is none, and its defaults are one.
LEMMA Documents ==
    /\ NoDoc \notin Record
    /\ NewRecord \in Record
    /\ \A d \in Record : d # NoDoc /\ Known(d) = d
    /\ Known(NoDoc) = NewRecord
<1>1. NoDoc \notin Record
  BY DEF NoDoc, Record
<1>2. NewRecord \in Record
  BY DEF NewRecord, Record, Status
<1> QED
  BY <1>1, <1>2 DEF Known

\* The writers of the core, the listing and the requests are different ones.
LEMMA WritersDiffer ==
    /\ "hook" \in Core /\ "supervisor" \in Core /\ "listing" \notin Core
    /\ "hook" \in Writers /\ "supervisor" \in Writers /\ "listing" \in Writers
    /\ \A w \in Core : w \in Writers /\ w # "listing" /\ w \notin Requests
    /\ \A r \in Requests : r \in Writers /\ r # "listing" /\ r \notin Core
BY RegistryAssumption DEF Core, Writers

\* A step of one writer leaves the others where they are.
Only(w) ==
    /\ at' \in [Writers -> Place]
    /\ seen' \in [Writers -> Record \cup {NoDoc}]
    /\ wants' = [v \in Writers |-> wants'[v]]
    /\ \A v \in Writers \ {w} :
         at'[v] = at[v] /\ seen'[v] = seen[v] /\ wants'[v] = wants[v]

\* ... so that only what that one has at hand is to be looked at.
LEMMA OnlyTypes ==
    ASSUME TypeOK, Shape, NEW w \in Writers, Only(w), Typed(w)', AtHand(w)',
           doc' \in Record \cup {NoDoc}, supervised' \in {"no", "single", "several"},
           worker' \in Alive \cup {"down"}, marked' \in BOOLEAN, consumes' \in SUBSET Queues, intent' \in Nat, limited' \in BOOLEAN
    PROVE  TypeOK' /\ Shape'
<1>1. \A v \in Writers : Typed(v)
  BY DEF TypeOK, Typed
<1>2. \A v \in Writers : Typed(v)'
  BY <1>1 DEF Only, Typed
<1>3. \A v \in Writers : AtHand(v)'
  BY DEF Shape, AtHand, Only
<1>4. TypeOK'
  BY <1>2 DEF TypeOK, Typed, Only
<1> QED
  BY <1>3, <1>4 DEF Shape, Only

\* A writer that moves on, or reads, and will pass on what it has read.
LEMMA MoveCarries ==
    ASSUME IntentCarried, LimitCarried, NEW w \in Writers, Only(w),
           UNCHANGED <<doc, intent, limited>>,
           doc \in Record /\ Passes(w)' => seen'[w] \in Record /\ seen'[w].desired = doc.desired,
           doc \in Record /\ w \notin Core /\ at'[w] \in Holding =>
               at'[w] # "create" /\ seen'[w] \in Record /\ seen'[w].limit = doc.limit
    PROVE  IntentCarried' /\ LimitCarried'
<1>1. IntentCarried'
  <2> SUFFICES ASSUME intent # 0
               PROVE  /\ doc \in Record /\ doc.desired = intent
                      /\ \A v \in Writers : Passes(v)' =>
                            seen'[v] \in Record /\ seen'[v].desired = intent
    BY DEF IntentCarried
  <2>1. doc \in Record /\ doc.desired = intent
    BY DEF IntentCarried
  <2>2. \A v \in Writers \ {w} : Passes(v)' => Passes(v)
    BY DEF Only, Passes
  <2> QED
    BY <2>1, <2>2 DEF IntentCarried, Only
<1>2. LimitCarried'
  BY DEF LimitCarried, Only
<1> QED
  BY <1>1, <1>2

\* A writer that replaces the document: it keeps what must be found in it, or nobody
\* holds an older one.
LEMMA WriteCarries ==
    ASSUME IntentCarried, LimitCarried, NEW w \in Writers, Only(w), at'[w] \notin Holding,
           doc' \in Record,
           intent' # 0 => doc'.desired = intent' /\ (intent' = intent \/ ~Contested(w)),
           limited' => doc'.limit /\ (limited \/ ~Contested(w))
    PROVE  IntentCarried' /\ LimitCarried'
<1>1. ASSUME ~Contested(w), NEW v \in Writers
      PROVE  at'[v] \notin Holding
  BY <1>1 DEF Contested, Only
<1>2. IntentCarried'
  <2> SUFFICES ASSUME intent' # 0, NEW v \in Writers, Passes(v)'
               PROVE  seen'[v] \in Record /\ seen'[v].desired = intent'
    BY DEF IntentCarried
  <2>1. at'[v] \in Holding /\ v # w
    BY DEF Passes
  <2>2. intent' = intent
    BY <1>1, <2>1
  <2>3. Passes(v)
    BY <2>1 DEF Only, Passes
  <2> QED
    BY <2>1, <2>2, <2>3 DEF IntentCarried, Only
<1>3. LimitCarried'
  BY <1>1 DEF LimitCarried, Only
<1> QED
  BY <1>2, <1>3

\* The form of such a step.
LEMMA Moves ==
    ASSUME TypeOK, Shape, NEW w \in Writers, NEW place \in Place, at' = [at EXCEPT ![w] = place],
           NEW d \in Record \cup {NoDoc}, seen' = seen \/ seen' = [seen EXCEPT ![w] = d],
           NEW wish, wants' = wants \/ wants' = [wants EXCEPT ![w] = wish]
    PROVE  Only(w) /\ at'[w] = place
<1>1. at' \in [Writers -> Place] /\ seen' \in [Writers -> Record \cup {NoDoc}]
  BY DEF TypeOK
<1>2. wants' = [v \in Writers |-> wants'[v]]
  BY DEF Shape
<1>3. \A v \in Writers \ {w} : at'[v] = at[v] /\ seen'[v] = seen[v] /\ wants'[v] = wants[v]
  BY DEF TypeOK, Shape
<1> QED
  BY <1>1, <1>2, <1>3 DEF Only, TypeOK

-----------------------------------------------------------------------------
(***************************************************************************)
(* The core                                                                *)
(***************************************************************************)

\* A hook or a tick begins to report, or ends with its process.
LEMMA ReportStep ==
    ASSUME IInv, NEW w \in Core,
           \/ \E status \in Status : Report(w, status) /\ UNCHANGED seen
           \/ at' = [at EXCEPT ![w] = "idle"] /\ Forget(w),
           UNCHANGED <<doc, supervised, intent, limited>>,
           worker' \in Alive \cup {"down"}, marked' \in BOOLEAN, consumes' \in SUBSET Queues
    PROVE  IInv'
<1> USE DEF IInv
<1>1. w \in Writers /\ w # "listing" /\ w \notin Requests
  BY WritersDiffer
<1>2. CASE \E status \in Status : Report(w, status) /\ UNCHANGED seen
  <2>1. PICK status \in Status : Report(w, status) /\ UNCHANGED seen
    BY <1>2
  <2>2. Only(w) /\ at'[w] = "find"
    BY <1>1, <2>1, Moves DEF Report, Place
  <2>3. wants'[w] = [status |-> status]
    BY <1>1, <2>1 DEF Report, Shape
  <2>4. Typed(w)' /\ AtHand(w)'
    BY <1>1, <2>2, <2>3 DEF Typed, AtHand
  <2>5. TypeOK' /\ Shape'
    BY <1>1, <2>2, <2>4, OnlyTypes DEF TypeOK
  <2>6. IntentCarried' /\ LimitCarried'
    BY <1>1, <2>2, MoveCarries DEF Passes, Holding
  <2> QED
    BY <2>5, <2>6
<1>3. CASE at' = [at EXCEPT ![w] = "idle"] /\ Forget(w)
  <2>1. Only(w) /\ at'[w] = "idle"
    BY <1>1, <1>3, Moves DEF Forget, Remember, Place
  <2>2. wants'[w] = NoWish
    BY <1>1, <1>3 DEF Forget, Shape
  <2>3. Typed(w)' /\ AtHand(w)'
    BY <1>1, <2>1, <2>2 DEF Typed, AtHand
  <2>4. TypeOK' /\ Shape'
    BY <1>1, <2>1, <2>3, OnlyTypes DEF TypeOK
  <2>5. IntentCarried' /\ LimitCarried'
    BY <1>1, <2>1, MoveCarries DEF Passes, Holding
  <2> QED
    BY <2>4, <2>5
<1> QED
  BY <1>2, <1>3

\* The life of the worker process changes no document.
LEMMA ProcessStep ==
    ASSUME IInv, Supervise \/ Boot \/ HookReady \/ HookStop \/ GoUp \/ Die
    PROVE  IInv'
<1> USE WritersDiffer
<1>0. /\ worker \in Alive \cup {"down"} /\ marked \in BOOLEAN /\ consumes \in SUBSET Queues
      /\ {"own"} \in SUBSET Queues /\ {} \in SUBSET Queues
  BY DEF IInv, TypeOK, Queues
<1>1. CASE Supervise
  <2>1. \E status \in Status : Report("supervisor", status) /\ UNCHANGED seen
    BY <1>1 DEF Supervise, Status
  <2>2. marked' \in BOOLEAN
    BY <1>0, <1>1 DEF Supervise
  <2> QED
    BY <1>0, <1>1, <2>1, <2>2, ReportStep DEF Supervise, shown
<1>2. CASE Boot
  <2>1. \E status \in Status : Report("hook", status) /\ UNCHANGED seen
    BY <1>2 DEF Boot, Status
  <2>2. worker' = "setup" /\ marked' = FALSE /\ consumes' = {"own"}
    BY <1>2 DEF Boot
  <2> QED
    BY <1>0, <1>2, <2>1, <2>2, ReportStep DEF Boot, Alive, shown
<1>3. CASE HookReady \/ HookStop
  <2>1. \E status \in Status : Report("hook", status) /\ UNCHANGED seen
    BY <1>3 DEF HookReady, HookStop, Become, Status
  <2>2. worker' \in Alive
    BY <1>3 DEF HookReady, HookStop, Become, Alive
  <2> QED
    BY <1>0, <1>3, <2>1, <2>2, ReportStep DEF HookReady, HookStop, Become, shown
<1>4. CASE GoUp
  <2>1. /\ UNCHANGED <<doc, supervised, marked, consumes, at, seen, wants, intent, limited>>
        /\ worker' \in Alive
    BY <1>4 DEF GoUp, writerVars, shown, Alive
  <2>2. TypeOK' /\ Shape'
    BY <2>1 DEF IInv, TypeOK, Shape, AtHand
  <2>3. IntentCarried' /\ LimitCarried'
    BY <2>1 DEF IInv, IntentCarried, LimitCarried, Passes
  <2> QED
    BY <2>2, <2>3 DEF IInv
<1>5. CASE Die
  <2>1. /\ at' = [at EXCEPT !["hook"] = "idle"] /\ Forget("hook")
        /\ worker' = "down" /\ consumes' = {}
        /\ UNCHANGED <<doc, supervised, marked, intent, limited>>
    BY <1>5 DEF Die, shown
  <2> QED
    BY <1>0, <2>1, ReportStep
<1> QED
  BY <1>1, <1>2, <1>3, <1>4, <1>5

\* upsert_worker of the core keeps the desired concurrency it has read, and drops the
\* limit.
LEMMA CoreUpsertStep ==
    ASSUME IInv, NEW w \in Core, CoreUpsert(w)
    PROVE  IInv'
<1> USE DEF IInv
<1>1. w \in Writers /\ w # "listing" /\ w \notin Requests
  BY WritersDiffer
<1>2. Only(w) /\ at'[w] = "idle"
  BY <1>1, Moves DEF CoreUpsert, Goto, Forget, Remember, Place
<1>3. wants'[w] = NoWish
  BY <1>1 DEF CoreUpsert, Forget, Shape
<1>4. Typed(w)' /\ AtHand(w)'
  BY <1>1, <1>2, <1>3 DEF Typed, AtHand
<1>5. /\ doc' = [status |-> wants[w].status, desired |-> KeptDesired(w),
                 queues |-> Reported(w), limit |-> FALSE]
      /\ ~limited' /\ at[w] = "write"
      /\ UNCHANGED <<supervised, worker, marked, consumes, intent>>
  BY DEF CoreUpsert, Goto, workerVars
<1>6. doc' \in Record
  <2>1. wants[w].status \in Status
    BY <1>1, <1>5 DEF Shape, AtHand
  <2>2. KeptDesired(w) \in Nat \ {0}
    BY <1>1, RegistryAssumption DEF KeptDesired, TypeOK, Record
  <2>3. Reported(w) \in SUBSET Queues
    BY DEF Reported, TypeOK, Queues
  <2> QED
    BY <1>5, <2>1, <2>2, <2>3 DEF Record
<1>7. intent' # 0 => doc'.desired = intent'
  <2>1. Passes(w)
    BY <1>5 DEF Passes, Holding
  <2> QED
    BY <1>1, <1>5, <2>1, Documents DEF IntentCarried, KeptDesired
<1>8. IntentCarried' /\ LimitCarried'
  BY <1>1, <1>2, <1>5, <1>6, <1>7, WriteCarries DEF Holding
<1>9. limited' \in BOOLEAN
  BY DEF CoreUpsert
<1>10. TypeOK' /\ Shape'
  BY <1>1, <1>2, <1>4, <1>5, <1>6, <1>9, OnlyTypes DEF TypeOK
<1> QED
  BY <1>8, <1>10

\* Who looks a document up has what is in it, as far as it uses it.
LEMMA FindStep ==
    ASSUME IInv, NEW w \in Core \cup Requests, Find(w)
    PROVE  IInv'
<1> USE DEF IInv
<1> DEFINE place == IF w \in Requests /\ wants[w].kind = "set"
                    THEN IF wants[w].queue THEN "enqueue" ELSE "resize" ELSE "write"
<1>1. w \in Writers /\ w # "listing" /\ ~(w \in Core /\ w \in Requests)
  BY WritersDiffer
<1>2. place \in Place /\ at' = [at EXCEPT ![w] = place] /\ at[w] = "find"
  BY DEF Find, Goto, Place, Holding
<1>3. Used(w) \in Record \cup {NoDoc} /\ seen' = [seen EXCEPT ![w] = Used(w)]
  <2>1. doc # NoDoc => [NewRecord EXCEPT !.desired = doc.desired] \in Record
    BY Documents DEF TypeOK, NewRecord, Record
  <2> QED
    BY <1>1, <2>1 DEF Find, Remember, Used, TypeOK
<1>4. UNCHANGED <<doc, supervised, worker, marked, consumes, wants, intent, limited>>
  BY DEF Find, workerVars, shown
<1>5. Only(w) /\ at'[w] = place
  BY <1>1, <1>2, <1>3, <1>4, Moves
<1>6. Typed(w)'
  BY <1>1, <1>4 DEF TypeOK, Typed
<1>7. AtHand(w)'
  BY <1>1, <1>2, <1>4, <1>5 DEF Shape, AtHand
<1>8. TypeOK' /\ Shape'
  BY <1>1, <1>4, <1>5, <1>6, <1>7, OnlyTypes DEF TypeOK
<1>9. seen'[w] = Used(w)
  BY <1>1, <1>3 DEF TypeOK
<1>10. doc \in Record => Used(w) \in Record /\ Used(w).desired = doc.desired
  <2> SUFFICES ASSUME doc \in Record
               PROVE  Used(w) \in Record /\ Used(w).desired = doc.desired
    OBVIOUS
  <2>1. CASE w \in Core
    <3>1. Used(w) = [NewRecord EXCEPT !.desired = doc.desired]
      BY <2>1, Documents DEF Used
    <3>2. NewRecord \in Record /\ doc.desired \in Nat \ {0}
      BY Documents DEF Record
    <3> QED
      BY <3>1, <3>2 DEF Record
  <2>2. CASE w \in Requests
    BY <1>1, <2>2, Documents DEF Used
  <2> QED
    BY <2>1, <2>2
<1>11. doc \in Record /\ w \notin Core => Used(w).limit = doc.limit
  BY <1>1, Documents DEF Used
<1>12. at'[w] # "create"
  BY <1>5
<1> HIDE DEF place
<1>13. IntentCarried' /\ LimitCarried'
  BY <1>1, <1>4, <1>5, <1>9, <1>10, <1>11, <1>12, MoveCarries
<1> QED
  BY <1>8, <1>13

-----------------------------------------------------------------------------
(***************************************************************************)
(* The operators' requests                                                 *)
(***************************************************************************)

\* A request that moves on with nothing to write, having read whatever it likes.
LEMMA PlainMove ==
    ASSUME IInv, NEW r \in Requests, NEW place \in Place \ (Holding \cup {"queues"}),
           at' = [at EXCEPT ![r] = place],
           NEW d \in Record \cup {NoDoc}, seen' = seen \/ seen' = [seen EXCEPT ![r] = d],
           NEW wish \in Wish, wants' = wants \/ wants' = [wants EXCEPT ![r] = wish],
           wants'[r] \in Wish,
           place # "find" => wants'[r].kind = "set",
           UNCHANGED <<doc, workerVars, intent, limited>>
    PROVE  IInv'
<1> USE DEF IInv
<1>1. r \in Writers /\ r # "listing" /\ r \notin Core
  BY WritersDiffer
<1>2. Only(r) /\ at'[r] = place
  BY <1>1, Moves
<1>3. Typed(r)' /\ AtHand(r)'
  BY <1>1, <1>2 DEF Typed, AtHand, Holding
<1>4. TypeOK' /\ Shape'
  BY <1>1, <1>2, <1>3, OnlyTypes DEF TypeOK, workerVars
<1>5. IntentCarried' /\ LimitCarried'
  BY <1>1, <1>2, MoveCarries DEF Passes
<1> QED
  BY <1>4, <1>5

\* Issuing a request, and the steps of add_queue and set_concurrency between the
\* reads and the writes.
LEMMA IssueStep ==
    ASSUME IInv, NEW r \in Requests, Issue(r) \/ Resize(r) \/ Reget(r)
    PROVE  IInv'
<1>1. r \in Writers /\ r # "listing" /\ r \notin Core
  BY WritersDiffer
<1>2. doc \in Record \cup {NoDoc}
  BY DEF IInv, TypeOK
<1>3. CASE Issue(r)
  <2>1. PICK wish \in Wish : wants' = [wants EXCEPT ![r] = wish]
    BY <1>3 DEF Issue
  <2>2. wants'[r] = wish
    BY <1>1, <2>1 DEF IInv, Shape
  <2>3. "find" \in Place \ (Holding \cup {"queues"}) /\ at' = [at EXCEPT ![r] = "find"]
    BY <1>3 DEF Issue, Goto, Place, Holding
  <2> QED
    BY <1>2, <1>3, <2>1, <2>2, <2>3, PlainMove DEF Issue, shown
<1>4. CASE Resize(r)
  <2>1. wants[r] \in Wish /\ wants[r].kind = "set"
    BY <1>1, <1>4 DEF IInv, Shape, AtHand, Resize, Goto
  <2>2. PICK place \in {"accepted", "rejected"} : at' = [at EXCEPT ![r] = place]
    BY <1>4 DEF Resize, Goto
  <2>3. place \in Place \ (Holding \cup {"queues"})
    BY DEF Place, Holding
  <2> QED
    BY <1>2, <1>4, <2>1, <2>2, <2>3, PlainMove DEF Resize, shown
<1>5. CASE Reget(r)
  <2>1. wants[r] \in Wish /\ wants[r].kind = "set"
    BY <1>1, <1>5 DEF IInv, Shape, AtHand, Reget, Goto
  <2>2. "resize" \in Place \ (Holding \cup {"queues"}) /\ at' = [at EXCEPT ![r] = "resize"]
    BY <1>5 DEF Reget, Goto, Place, Holding
  <2> QED
    BY <1>2, <1>5, <2>1, <2>2, PlainMove DEF Reget, Remember, shown
<1> QED
  BY <1>3, <1>4, <1>5

\* The reads after which set_concurrency and add_queue replace the document.
LEMMA PrepareStep ==
    ASSUME IInv, NEW r \in Requests, Enqueue(r) \/ Latest(r) \/ Persist(r)
    PROVE  IInv'
<1> USE DEF IInv
<1>1. r \in Writers /\ r # "listing" /\ r \notin Core
  BY WritersDiffer
<1>2. doc \in Record \cup {NoDoc} /\ seen[r] \in Record \cup {NoDoc}
  BY <1>1 DEF TypeOK
<1>3. wants[r] \in Wish /\ wants[r].kind = "set" /\ wants[r].size \in Nat \ {0}
  <2>1. wants[r] \in Wish /\ wants[r].kind = "set"
    BY <1>1 DEF Shape, AtHand, Enqueue, Latest, Persist, Goto
  <2> QED
    BY <2>1, RegistryAssumption DEF Wish, Sized
<1>4. UNCHANGED <<doc, supervised, worker, marked, wants, intent, limited>> /\ consumes' \in SUBSET Queues
  BY DEF Enqueue, Latest, Persist, TypeOK, Queues, workerVars, shown
<1>5. \E place \in {"resize", "patch_queue", "write", "create", "patch_intent"},
         d \in Record \cup {NoDoc} :
        /\ at' = [at EXCEPT ![r] = place]
        /\ seen' = seen \/ seen' = [seen EXCEPT ![r] = d]
        /\ place \in {"patch_queue", "patch_intent"} => seen'[r] \in Record
        /\ place = "patch_intent" => seen'[r].desired = wants[r].size
        /\ doc \in Record => /\ place # "create"
                             /\ place \in Holding => seen'[r] \in Record /\ seen'[r].limit = doc.limit
                             /\ place = "patch_queue" => seen'[r].desired = doc.desired
  <2>1. CASE Enqueue(r)
    <3> DEFINE queues == Known(seen[r]).queues \cup {"added"}
               d == [Known(doc) EXCEPT !.queues = queues]
    <3>1. Known(doc) \in Record /\ Known(seen[r]) \in Record /\ (doc \in Record => Known(doc) = doc)
      BY <1>2, Documents
    <3>2. queues \in SUBSET Queues
      BY <3>1 DEF Record, Queues
    <3>3. d \in Record /\ (doc \in Record => d.limit = doc.limit /\ d.desired = doc.desired)
      BY <3>1, <3>2 DEF Record
    <3>4. /\ at' = [at EXCEPT ![r] = IF doc = NoDoc THEN "resize" ELSE "patch_queue"]
          /\ seen' = [seen EXCEPT ![r] = d]
      BY <2>1 DEF Enqueue, Remember
    <3> HIDE DEF d
    <3>5. seen'[r] = d
      BY <1>1, <3>4 DEF TypeOK
    <3> QED
      BY <1>2, <3>3, <3>4, <3>5
  <2>2. CASE Latest(r)
    <3> DEFINE d == IF doc = NoDoc THEN seen[r] ELSE doc
    <3>1. at' = [at EXCEPT ![r] = "write"] /\ seen' = [seen EXCEPT ![r] = d] /\ seen'[r] = d
      BY <1>1, <2>2 DEF Latest, Goto, Remember, TypeOK
    <3>2. d \in Record \cup {NoDoc} /\ (doc \in Record => d = doc)
      BY <1>2, Documents
    <3> HIDE DEF d
    <3> QED
      BY <3>1, <3>2
  <2>3. CASE Persist(r)
    <3>1. CASE doc = NoDoc
      BY <2>3, <3>1, Documents DEF Persist, Goto
    <3>2. CASE doc # NoDoc
      <4> DEFINE d == [doc EXCEPT !.desired = wants[r].size]
      <4>1. d \in Record /\ d.limit = doc.limit /\ d.desired = wants[r].size
        BY <1>2, <1>3, <3>2 DEF Record
      <4>2. at' = [at EXCEPT ![r] = "patch_intent"] /\ seen' = [seen EXCEPT ![r] = d]
        BY <2>3, <3>2 DEF Persist, Goto, Remember
      <4> HIDE DEF d
      <4>3. seen'[r] = d
        BY <1>1, <4>2 DEF TypeOK
      <4> QED
        BY <4>1, <4>2, <4>3
    <3> QED
      BY <3>1, <3>2
  <2> QED
    BY <2>1, <2>2, <2>3
<1>6. PICK place \in {"resize", "patch_queue", "write", "create", "patch_intent"},
           d \in Record \cup {NoDoc} :
        /\ at' = [at EXCEPT ![r] = place]
        /\ seen' = seen \/ seen' = [seen EXCEPT ![r] = d]
        /\ place \in {"patch_queue", "patch_intent"} => seen'[r] \in Record
        /\ place = "patch_intent" => seen'[r].desired = wants[r].size
        /\ doc \in Record => /\ place # "create"
                             /\ place \in Holding => seen'[r] \in Record /\ seen'[r].limit = doc.limit
                             /\ place = "patch_queue" => seen'[r].desired = doc.desired
  BY <1>5
<1>7. place \in Place
  BY DEF Place, Holding
<1>8. Only(r) /\ at'[r] = place
  BY <1>1, <1>4, <1>6, <1>7, Moves
<1>9. Typed(r)' /\ AtHand(r)'
  BY <1>1, <1>3, <1>4, <1>6, <1>8 DEF Typed, AtHand
<1>10. TypeOK' /\ Shape'
  BY <1>1, <1>4, <1>8, <1>9, OnlyTypes DEF TypeOK
<1>11. doc \in Record /\ Passes(r)' => seen'[r] \in Record /\ seen'[r].desired = doc.desired
  BY <1>1, <1>3, <1>4, <1>6, <1>8 DEF Passes
<1>12. IntentCarried' /\ LimitCarried'
  BY <1>1, <1>4, <1>6, <1>8, <1>11, MoveCarries
<1> QED
  BY <1>10, <1>12

\* The list of queues goes into the document that was read with it.
LEMMA PatchQueueStep ==
    ASSUME IInv, NEW r \in Requests, PatchQueue(r)
    PROVE  IInv'
<1> USE DEF IInv
<1>1. r \in Writers /\ r # "listing" /\ r \notin Core
  BY WritersDiffer
<1>2. /\ at[r] = "patch_queue" /\ at' = [at EXCEPT ![r] = "reget"] /\ doc' = seen[r]
      /\ UNCHANGED <<supervised, worker, marked, consumes, seen, wants, intent, limited>>
  BY DEF PatchQueue, Replace, Goto, workerVars
<1>3. wants[r] \in Wish /\ wants[r].kind = "set" /\ seen[r] \in Record
  BY <1>1, <1>2 DEF Shape, AtHand
<1>4. "reget" \in Place
  BY DEF Place
<1>5. Only(r) /\ at'[r] = "reget"
  BY <1>1, <1>2, <1>3, <1>4, Moves
<1>6. Typed(r)' /\ AtHand(r)'
  BY <1>1, <1>2, <1>3, <1>5 DEF Typed, AtHand
<1>7. TypeOK' /\ Shape'
  BY <1>1, <1>2, <1>3, <1>5, <1>6, OnlyTypes DEF TypeOK
<1>8. (intent # 0 => seen[r].desired = intent) /\ (limited => seen[r].limit)
  BY <1>1, <1>2 DEF IntentCarried, LimitCarried, Passes, Holding
<1>9. IntentCarried' /\ LimitCarried'
  BY <1>1, <1>2, <1>3, <1>5, <1>8, WriteCarries DEF Holding
<1> QED
  BY <1>7, <1>9

\* What a request makes of a document: its own concurrency or the one it read, and the
\* limit it read unless it sets one, or finds no document.
LEMMA AnswerOf ==
    ASSUME IInv, NEW r \in Requests, at[r] \in {"write", "create"}
    PROVE  /\ wants[r] \in Wish
           /\ Answer(r) \in Record
           /\ wants[r].kind \in Sized => Answer(r).desired = wants[r].size /\ wants[r].size \in Nat
           /\ wants[r].kind \notin Sized =>
                 wants[r].kind \in {"shutdown", "rate"} /\ Answer(r).desired = Known(seen[r]).desired
           /\ wants[r].kind = "rate" => Answer(r).limit
           /\ at[r] # "create" /\ Known(seen[r]).limit => Answer(r).limit
<1>1. r \in Writers /\ r # "listing" /\ r \notin Core
  BY WritersDiffer
<1>2. Known(seen[r]) \in Record
  BY <1>1, Documents DEF IInv, TypeOK
<1>3. wants[r] \in Wish /\ (at[r] = "create" => wants[r].kind = "set")
  BY <1>1 DEF IInv, Shape, AtHand
<1>4. /\ wants[r].kind \in Kinds
      /\ wants[r].kind \in Sized => wants[r].size \in Nat \ {0}
  BY <1>3, RegistryAssumption DEF Wish
<1> DEFINE known == Known(seen[r])
<1> HIDE DEF known
<1>5. known \in Record
  BY <1>2 DEF known
<1>6. Answer(r) =
        CASE wants[r].kind = "start"    -> [known EXCEPT !.status = "STARTING", !.desired = wants[r].size]
          [] wants[r].kind = "stop"     -> [known EXCEPT !.status = "STOPPING", !.desired = wants[r].size]
          [] wants[r].kind = "shutdown" -> [known EXCEPT !.status = "SHUTDOWN"]
          [] wants[r].kind = "rate"     -> [known EXCEPT !.limit = TRUE]
          [] wants[r].kind = "set" /\ at[r] = "write" ->
                                     [known EXCEPT !.status = "READY", !.desired = wants[r].size]
          [] OTHER                      -> [known EXCEPT !.desired = wants[r].size, !.limit = FALSE]
  BY DEF Answer, known
<1>7. CASE wants[r].kind = "start"
  BY <1>3, <1>4, <1>5, <1>6, <1>7 DEF Record, Status, Sized, known
<1>8. CASE wants[r].kind = "stop"
  BY <1>3, <1>4, <1>5, <1>6, <1>8 DEF Record, Status, Sized, known
<1>9. CASE wants[r].kind = "shutdown"
  BY <1>3, <1>4, <1>5, <1>6, <1>9 DEF Record, Status, Sized, known
<1>10. CASE wants[r].kind = "rate"
  BY <1>3, <1>4, <1>5, <1>6, <1>10 DEF Record, Status, Sized, known
<1>11. CASE wants[r].kind = "set" /\ at[r] = "write"
  BY <1>3, <1>4, <1>5, <1>6, <1>11 DEF Record, Status, Sized, known
<1>12. CASE wants[r].kind = "set" /\ at[r] = "create"
  BY <1>3, <1>4, <1>5, <1>6, <1>12 DEF Record, Status, Sized, known
<1> QED
  BY <1>4, <1>7, <1>8, <1>9, <1>10, <1>11, <1>12 DEF Kinds

\* A request that has written the document is over.
LEMMA WriteStep ==
    ASSUME IInv, NEW r \in Requests, Write(r) \/ PatchIntent(r)
    PROVE  IInv'
<1> USE DEF IInv
<1>1. r \in Writers /\ r # "listing" /\ r \notin Core
  BY WritersDiffer
<1>2. /\ at[r] \in {"write", "create", "patch_intent"}
      /\ at' = [at EXCEPT ![r] = "over"] /\ seen' = [seen EXCEPT ![r] = NoDoc]
      /\ wants' = [wants EXCEPT ![r] = NoWish]
      /\ UNCHANGED <<supervised, worker, marked, consumes>>
  BY DEF Write, PatchIntent, Replace, Goto, Forget, Remember, workerVars
<1>3. "over" \in Place
  BY DEF Place
<1>4. Only(r) /\ at'[r] = "over"
  BY <1>1, <1>2, <1>3, Moves
<1>5. wants'[r] = NoWish
  BY <1>1, <1>2 DEF Shape
<1>6. Typed(r)' /\ AtHand(r)'
  BY <1>1, <1>4, <1>5 DEF Typed, AtHand
<1>7. /\ doc' \in Record /\ intent' \in Nat /\ limited' \in BOOLEAN
      /\ intent' # 0 => doc'.desired = intent' /\ (intent' = intent \/ ~Contested(r))
      /\ limited' => doc'.limit /\ (limited \/ ~Contested(r))
  <2>1. CASE Write(r)
    <3>1. /\ at[r] \in {"write", "create"} /\ doc' = Answer(r)
          /\ IF wants[r].kind \in Sized THEN Vow(r, wants[r].size) ELSE UNCHANGED intent
          /\ limited' = IF wants[r].kind = "rate" THEN ~Contested(r) ELSE limited
      BY <2>1 DEF Write, Goto
    <3>2. /\ wants[r] \in Wish
          /\ Answer(r) \in Record
          /\ wants[r].kind \in Sized => Answer(r).desired = wants[r].size /\ wants[r].size \in Nat
          /\ wants[r].kind \notin Sized =>
                wants[r].kind \in {"shutdown", "rate"} /\ Answer(r).desired = Known(seen[r]).desired
          /\ wants[r].kind = "rate" => Answer(r).limit
          /\ at[r] # "create" /\ Known(seen[r]).limit => Answer(r).limit
      BY <3>1, AnswerOf
    <3>3. doc' \in Record
      BY <3>1, <3>2
    <3>4. /\ intent' \in Nat
          /\ intent' # 0 => doc'.desired = intent' /\ (intent' = intent \/ ~Contested(r))
      <4>1. CASE wants[r].kind \in Sized
        BY <3>1, <3>2, <4>1 DEF Vow
      <4>2. CASE wants[r].kind \notin Sized
        <5>1. intent # 0 => Known(seen[r]).desired = intent
          BY <1>1, <3>1, <3>2, <4>2, Documents DEF IntentCarried, Passes, Holding
        <5>2. intent' = intent /\ doc'.desired = Known(seen[r]).desired
          BY <3>1, <3>2, <4>2
        <5> QED
          BY <5>1, <5>2 DEF TypeOK
      <4> QED
        BY <4>1, <4>2
    <3>5. limited' \in BOOLEAN
      BY <3>1 DEF TypeOK, Contested
    <3>6. limited' => doc'.limit /\ (limited \/ ~Contested(r))
      <4>1. CASE wants[r].kind = "rate"
        BY <3>1, <3>2, <4>1
      <4>2. CASE wants[r].kind # "rate"
        <5>1. limited => at[r] # "create" /\ Known(seen[r]).limit
          BY <1>1, <3>1, Documents DEF LimitCarried, Holding
        <5> QED
          BY <3>1, <3>2, <4>2, <5>1
      <4> QED
        BY <4>1, <4>2
    <3> QED
      BY <3>3, <3>4, <3>5, <3>6
  <2>2. CASE PatchIntent(r)
    <3>1. /\ at[r] = "patch_intent" /\ doc' = seen[r] /\ Vow(r, wants[r].size)
          /\ limited' = limited
      BY <2>2 DEF PatchIntent, Replace, Goto
    <3>2. /\ wants[r] \in Wish /\ wants[r].kind = "set"
          /\ seen[r] \in Record /\ seen[r].desired = wants[r].size
      BY <1>1, <3>1 DEF Shape, AtHand
    <3>3. limited => seen[r].limit
      BY <1>1, <3>1 DEF LimitCarried, Holding
    <3>4. wants[r].size \in Nat
      BY <3>2 DEF Record
    <3>5. intent' \in Nat /\ (intent' # 0 => intent' = wants[r].size /\ ~Contested(r))
      BY <3>1, <3>4 DEF Vow
    <3> QED
      BY <3>1, <3>2, <3>3, <3>5 DEF TypeOK
  <2> QED
    BY <2>1, <2>2
<1>8. TypeOK' /\ Shape'
  BY <1>1, <1>2, <1>4, <1>6, <1>7, OnlyTypes DEF TypeOK
<1>9. IntentCarried' /\ LimitCarried'
  BY <1>1, <1>4, <1>7, WriteCarries DEF Holding
<1> QED
  BY <1>8, <1>9

-----------------------------------------------------------------------------
(***************************************************************************)
(* The listing, and the invariant                                          *)
(***************************************************************************)

\* What a listing learns before it reads the document.
LEMMA ListStep ==
    ASSUME IInv, List \/ ListQueues \/ ListFind
    PROVE  IInv'
<1> USE DEF IInv
<1> DEFINE w == "listing"
<1>1. w \in Writers /\ w \notin Requests /\ w \notin Core
  BY WritersDiffer
<1>2. UNCHANGED <<doc, supervised, worker, marked, consumes, intent, limited>>
  BY DEF List, ListQueues, ListFind, workerVars, shown
<1>3. Typed(w)
  BY <1>1 DEF TypeOK, Typed
<1>4. CASE List
  <2>1. Only(w) /\ at'[w] = "queues"
    BY <1>1, <1>4, Moves DEF List, Goto, Place
  <2>2. Typed(w)' /\ AtHand(w)'
    BY <1>1, <1>3, <1>4, <2>1 DEF Typed, AtHand, List
  <2>3. TypeOK' /\ Shape'
    BY <1>1, <1>2, <2>1, <2>2, OnlyTypes DEF TypeOK
  <2>4. IntentCarried' /\ LimitCarried'
    BY <1>1, <1>2, <2>1, MoveCarries DEF Passes, Holding
  <2> QED
    BY <2>3, <2>4
<1>5. CASE ListQueues
  <2> DEFINE answer == [queues |-> IF Responds THEN consumes ELSE {}]
  <2>1. answer \in [queues : SUBSET Queues]
    BY DEF TypeOK
  <2> HIDE DEF answer
  <2>2. Only(w) /\ at'[w] = "reget"
    BY <1>1, <1>5, Moves DEF ListQueues, Goto, Place, answer
  <2>3. wants'[w] = answer
    BY <1>1, <1>5 DEF ListQueues, Shape, answer
  <2>4. Typed(w)' /\ AtHand(w)'
    BY <1>1, <2>1, <2>2, <2>3 DEF Typed, AtHand
  <2>5. TypeOK' /\ Shape'
    BY <1>1, <1>2, <2>2, <2>4, OnlyTypes DEF TypeOK
  <2>6. IntentCarried' /\ LimitCarried'
    BY <1>1, <1>2, <2>2, MoveCarries DEF Passes, Holding
  <2> QED
    BY <2>5, <2>6
<1>6. CASE ListFind
  <2>1. /\ at[w] = "reget" /\ at' = [at EXCEPT ![w] = "write"]
        /\ seen' = [seen EXCEPT ![w] = Used(w)] /\ wants' = wants
    BY <1>6 DEF ListFind, Goto, Remember
  <2>2. Used(w) \in Record \cup {NoDoc} /\ (doc \in Record => Used(w) \in Record /\ Used(w).limit = doc.limit)
    <3>1. CASE doc = NoDoc
      BY <3>1, Documents DEF Used
    <3>2. CASE doc \in Record
      <4>1. Used(w) = [NewRecord EXCEPT !.limit = doc.limit]
        BY <1>1, <3>2, Documents DEF Used
      <4>2. NewRecord \in Record /\ doc.limit \in BOOLEAN
        BY <3>2, Documents DEF Record
      <4> QED
        BY <4>1, <4>2 DEF Record
    <3> QED
      BY <3>1, <3>2 DEF TypeOK
  <2>3. Only(w) /\ at'[w] = "write"
    BY <1>1, <2>1, <2>2, Moves DEF Place, Holding
  <2>4. seen'[w] = Used(w)
    BY <1>1, <2>1 DEF TypeOK
  <2>5. wants[w] \in [queues : SUBSET Queues]
    BY <1>1, <2>1 DEF Shape, AtHand
  <2>6. Typed(w)' /\ AtHand(w)'
    BY <1>1, <1>3, <2>1, <2>3, <2>5 DEF Typed, AtHand
  <2>7. TypeOK' /\ Shape'
    BY <1>1, <1>2, <2>3, <2>6, OnlyTypes DEF TypeOK
  <2>8. IntentCarried' /\ LimitCarried'
    BY <1>1, <1>2, <2>2, <2>3, <2>4, MoveCarries DEF Passes
  <2> QED
    BY <2>7, <2>8
<1> QED
  BY <1>4, <1>5, <1>6

\* The refreshed document has the pool size for a concurrency, and the limit it had.
LEMMA ListWriteStep ==
    ASSUME IInv, ListWrite
    PROVE  IInv'
<1> USE DEF IInv
<1> DEFINE w == "listing"
<1>1. w \in Writers /\ w \notin Requests /\ w \notin Core
  BY WritersDiffer
<1>2. /\ at[w] = "write" /\ at' = [at EXCEPT ![w] = "idle"]
      /\ doc' = Refreshed(seen[w], wants[w].queues)
      /\ seen' = [seen EXCEPT ![w] = NoDoc] /\ wants' = [wants EXCEPT ![w] = NoWish]
      /\ intent' = 0
      /\ UNCHANGED <<supervised, worker, marked, consumes, limited>>
  BY DEF ListWrite, Goto, Forget, Remember, workerVars
<1>3. Only(w) /\ at'[w] = "idle"
  BY <1>1, <1>2, Moves DEF Place
<1>4. wants'[w] = NoWish
  BY <1>1, <1>2 DEF Shape
<1>5. Typed(w)' /\ AtHand(w)'
  BY <1>1, <1>3, <1>4 DEF Typed, AtHand
<1>6. doc' \in Record /\ doc'.limit = Known(seen[w]).limit
  <2>1. Known(seen[w]) \in Record
    BY <1>1, Documents DEF TypeOK
  <2>2. wants[w].queues \in SUBSET Queues
    BY <1>1, <1>2 DEF Shape, AtHand
  <2> QED
    BY <1>2, <2>1, <2>2, RegistryAssumption DEF Refreshed, Record, Status
<1>7. limited' => doc'.limit
  BY <1>1, <1>2, <1>6, Documents DEF LimitCarried, Holding
<1>8. TypeOK' /\ Shape'
  BY <1>1, <1>2, <1>3, <1>5, <1>6, OnlyTypes DEF TypeOK
<1>9. IntentCarried' /\ LimitCarried'
  BY <1>1, <1>2, <1>3, <1>6, <1>7, WriteCarries DEF Holding
<1> QED
  BY <1>8, <1>9

\* Every step keeps the strengthened invariant.
LEMMA Step == IInv /\ [Next]_vars => IInv'
<1> SUFFICES ASSUME IInv, [Next]_vars
             PROVE  IInv'
  OBVIOUS
<1>1. CASE CoreStep
  BY <1>1, ProcessStep, FindStep, CoreUpsertStep DEF CoreStep
<1>2. ASSUME NEW r \in Requests, Issue(r) \/ Serve(r)
      PROVE  IInv'
  BY <1>2, FindStep, IssueStep, PrepareStep, PatchQueueStep, WriteStep DEF Serve
<1>3. CASE UNCHANGED vars
  <2>1. UNCHANGED <<doc, supervised, worker, marked, consumes, at, seen, wants, intent, limited>>
    BY <1>3 DEF vars, workerVars, writerVars, shown
  <2>2. TypeOK' /\ Shape'
    BY <2>1 DEF IInv, TypeOK, Shape, AtHand
  <2>3. IntentCarried' /\ LimitCarried'
    BY <2>1 DEF IInv, IntentCarried, LimitCarried, Passes
  <2> QED
    BY <2>2, <2>3 DEF IInv
<1> QED
  BY <1>1, <1>2, <1>3, ProcessStep, ListStep, ListWriteStep DEF Next, Listing

-----------------------------------------------------------------------------
\* The strengthened invariant holds of every behavior.
LEMMA Invariance == Spec => []IInv
<1>1. Init => IInv
  <2> SUFFICES ASSUME Init
               PROVE  IInv
    OBVIOUS
  <2>1. TypeOK
    BY DEF Init, TypeOK, Place
  <2>2. Shape
    BY DEF Init, Shape, AtHand
  <2>3. IntentCarried /\ LimitCarried
    BY DEF Init, IntentCarried, LimitCarried
  <2> QED
    BY <2>1, <2>2, <2>3 DEF IInv
<1> QED
  BY <1>1, Step, PTL DEF Spec

\* Whatever the writers read and however late they write, the document is a worker's
\* record: a positive concurrency, known queues, a status.
THEOREM TypesHold == Spec => []TypeOK
<1>1. IInv => TypeOK
  BY DEF IInv
<1> QED
  BY <1>1, Invariance, PTL

\* The desired concurrency an operator asked for stays in the document, whatever hooks,
\* ticks and other requests replace it with, until a listing or another request sets one.
THEOREM IntentStays == Spec => []IntentKept
<1>1. IInv => IntentKept
  BY DEF IInv, IntentCarried, IntentKept
<1> QED
  BY <1>1, Invariance, PTL

\* A rate limit stays in the document through every request and every listing.
THEOREM LimitStays == Spec => []LimitKept
<1>1. IInv => LimitKept
  BY DEF IInv, LimitCarried, LimitKept
<1> QED
  BY <1>1, Invariance, PTL
=============================================================================
