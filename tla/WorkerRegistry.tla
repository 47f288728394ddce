--------------------------- MODULE WorkerRegistry ---------------------------
(***************************************************************************)
(* The document of one worker in the Mongo collection "workers".  The      *)
(* worker's own celery hooks and the supervisor of its node write it       *)
(* (core/storage/worker_registry.py), and so do the handlers of the API    *)
(* (media-shuttle-api/app/service.py): an operator's request, or a listing *)
(* that first refreshes the documents from what the workers answer.        *)
(*                                                                         *)
(* Nobody updates a field: every writer reads the document, and some time  *)
(* later replaces the whole of it.  What a writer changed is lost when     *)
(* another one had read before.                                            *)
(***************************************************************************)
EXTENDS Integers

CONSTANTS
    Requests,  \* requests of the operators, each issued at most once
    Pool,      \* the pool size a worker answers to an inspection
    Sizes,     \* the concurrencies an operator may ask for
    Slot       \* the concurrency a worker was started with

ASSUME RegistryAssumption ==
    /\ Pool \in Nat \ {0}
    /\ Slot \in Nat \ {0}
    /\ Sizes \subseteq Nat \ {0}
    /\ Requests \cap {"hook", "supervisor", "listing"} = {}

Core    == {"hook", "supervisor"}
Writers == Core \cup {"listing"} \cup Requests

\* "SHUTDOWN" stands for CRASHED too, which no writer treats in another way.
Status == {"UNKNOWN", "STARTING", "READY", "STOPPING", "SHUTDOWN"}
Queues == {"own", "added"}   \* those it was started with, and one more
Kinds  == {"start", "stop", "shutdown", "set", "rate"}
Record == [status  : Status,
           desired : Nat \ {0},        \* desired_concurrency
           queues  : SUBSET Queues,
           limit   : BOOLEAN]          \* rate_limits has an entry
NoDoc  == [status |-> "NONE"]

VARIABLES
    doc,         \* the document
    supervised,  \* by whom: "no", a worker the API had started; or a child of
                 \* worker_process, of one with a "single" role or with "several"
    worker,      \* the process
    marked,      \* its supervisor has written READY since it was started
    consumes,    \* the queues it really consumes
    at,          \* where a writer is
    seen,        \* what it has read, or is about to write
    wants,       \* a writer's request: kind, size, whether a queue is given;
                 \* the status a core writer will write
    intent,      \* the concurrency the operators must find in the document, 0: none
    limited      \* they must find the rate limit

workerVars == <<supervised, worker, marked, consumes>>
writerVars == <<at, seen, wants>>
shown      == <<intent, limited>>
vars       == <<doc, workerVars, writerVars, shown>>

Alive   == {"setup", "ready", "up", "stopping"}
Holding == {"write", "patch_queue", "patch_intent", "create"}
Place   == {"idle", "find", "enqueue", "reget", "resize", "accepted", "rejected",
            "queues", "over"} \cup Holding

NoWish == [kind |-> "none"]
Sized  == {"start", "stop", "set"}
Wish   == {wish \in [kind : Kinds, size : Sizes \cup {0}, queue : BOOLEAN] :
             /\ (wish.kind \in Sized) = (wish.size # 0)
             /\ wish.queue => wish.kind = "set"}

TypeOK ==
    /\ doc \in Record \cup {NoDoc}
    /\ supervised \in {"no", "single", "several"}
    /\ marked \in BOOLEAN
    /\ worker \in Alive \cup {"down"}
    /\ consumes \in SUBSET Queues
    /\ at \in [Writers -> Place]
    /\ seen \in [Writers -> Record \cup {NoDoc}]
    /\ \A w \in Writers : wants[w] \in
         (IF w \in Core THEN [status : Status]
          ELSE IF w = "listing" THEN [queues : SUBSET Queues] ELSE Wish) \cup {NoWish}
    /\ intent \in Nat
    /\ limited \in BOOLEAN

Init ==
    /\ doc = NoDoc
    /\ supervised \in {"no", "single", "several"}
    /\ worker = "down"
    /\ marked = FALSE
    /\ consumes = {}
    /\ at = [w \in Writers |-> "idle"]
    /\ seen = [w \in Writers |-> NoDoc]
    /\ wants = [w \in Writers |-> NoWish]
    /\ intent = 0
    /\ limited = FALSE

Goto(w, from, to) == at[w] = from /\ at' = [at EXCEPT ![w] = to]
Remember(w, r)    == seen' = [seen EXCEPT ![w] = r]
Forget(w)         == Remember(w, NoDoc) /\ wants' = [wants EXCEPT ![w] = NoWish]

\* Mutant: a worker nobody has seen yet has no concurrency.
NoRecord == [status |-> "UNKNOWN", desired |-> 0, queues |-> {}, limit |-> FALSE]
\* WorkerRecord(hostname=...) and its defaults, for a document that is not there.
NewRecord == [status |-> "UNKNOWN", desired |-> 1, queues |-> {}, limit |-> FALSE]
Known(d)  == IF d = NoDoc THEN NewRecord ELSE d

\* What a writer uses of the document it reads; the rest of its answer is its own.
Used(w) ==
    IF doc = NoDoc THEN doc
    ELSE IF w \in Core THEN [NewRecord EXCEPT !.desired = doc.desired]
    ELSE IF w = "listing" THEN [NewRecord EXCEPT !.limit = doc.limit]
    ELSE doc

\* Some other writer has read the document and will replace it: what is written
\* now is lost then.
Contested(w) == \E v \in Writers \ {w} : at[v] \in Holding
Vow(w, size) == intent' = IF Contested(w) THEN 0 ELSE size

(***************************************************************************)
(* MongoWorkerRegistry.upsert_worker, called by the hooks and by the       *)
(* supervisor: of the document it read it keeps desired_concurrency only   *)
(***************************************************************************)

Find(w) ==
    /\ w \in Core \cup Requests
    /\ Goto(w, "find", IF w \in Requests /\ wants[w].kind = "set"
                       THEN IF wants[w].queue THEN "enqueue" ELSE "resize" ELSE "write")
    /\ Remember(w, Used(w))
    /\ UNCHANGED <<doc, workerVars, wants, shown>>

\* A hook reports the consumed queues, the supervisor those of its slot.
Reported(w) == IF w = "hook" THEN consumes ELSE {"own"}

\* Mutant: the concurrency of the slot, as the registry in memory has it.
SlotDesired(w) == Slot
KeptDesired(w) == IF seen[w] = NoDoc THEN Slot ELSE seen[w].desired

CoreUpsert(w) ==
    /\ w \in Core
    /\ Goto(w, "write", "idle")
    /\ doc' = [status |-> wants[w].status, desired |-> KeptDesired(w),
               queues |-> Reported(w), limit |-> FALSE]
    /\ limited' = FALSE
    /\ Forget(w)
    /\ UNCHANGED <<workerVars, intent>>

Report(w, status) ==
    /\ at' = [at EXCEPT ![w] = "find"]
    /\ wants' = [wants EXCEPT ![w] = [status |-> status]]

\* Mutant: a supervisor that waits for several workers as it does for one.
SuperviseOnce ==
    /\ supervised # "no"
    /\ at["supervisor"] = "idle"
    /\ \/ /\ worker = "down"
          /\ \E status \in {"STARTING", "SHUTDOWN"} : Report("supervisor", status)
          /\ UNCHANGED marked
       \/ /\ worker # "down"
          /\ ~marked
          /\ Report("supervisor", "READY")
          /\ marked' = TRUE
    /\ UNCHANGED <<doc, supervised, worker, consumes, seen, shown>>
\* _upsert_worker: READY after the start, and every five seconds while the process
\* runs unless it is the only one, which is waited for without ticks; around that
\* STARTING and the last word on it.
Supervise ==
    /\ supervised # "no"
    /\ at["supervisor"] = "idle"
    /\ \/ /\ worker = "down"
          /\ \E status \in {"STARTING", "SHUTDOWN"} : Report("supervisor", status)
          /\ UNCHANGED marked
       \/ /\ worker # "down"
          /\ ~marked \/ supervised = "several"
          /\ Report("supervisor", "READY")
          /\ marked' = TRUE
    /\ UNCHANGED <<doc, supervised, worker, consumes, seen, shown>>

(***************************************************************************)
(* The worker process; _touch_worker_registry runs to its end in each hook *)
(***************************************************************************)

\* Who starts and stops it is modelled in WorkerSupervisor and WorkerControl.
Boot ==
    /\ worker = "down"
    /\ at["supervisor"] = "idle"
    /\ worker' = "setup"
    /\ marked' = FALSE
    /\ consumes' = {"own"}
    /\ Report("hook", "STARTING")
    /\ UNCHANGED <<doc, supervised, seen, shown>>

Become(from, to, status) ==
    /\ worker = from
    /\ at["hook"] = "idle"
    /\ worker' = to
    /\ Report("hook", status)
    /\ UNCHANGED <<doc, supervised, marked, consumes, seen, shown>>

HookReady == Become("setup", "ready", "READY")
HookStop  == Become("up", "stopping", "SHUTDOWN")

\* worker_ready has returned, or worker_shutdown has; or the process was killed.
GoUp ==
    /\ worker = "ready"
    /\ at["hook"] = "idle"
    /\ worker' = "up"
    /\ UNCHANGED <<doc, supervised, marked, consumes, writerVars, shown>>
Die ==
    /\ worker # "down"
    /\ worker' = "down"
    /\ consumes' = {}
    /\ at' = [at EXCEPT !["hook"] = "idle"]
    /\ Forget("hook")
    /\ UNCHANGED <<doc, supervised, marked, shown>>

(***************************************************************************)
(* The operators' requests: admin_worker_action, admin_rate_limit_action   *)
(***************************************************************************)

Responds == worker \in {"ready", "up"}

\* A worker is started, stopped or restarted by a command to the control worker of
\* its node, which was published before the document is read.
Issue(r) ==
    /\ Goto(r, "idle", "find")
    /\ \E wish \in Wish :
         /\ wish.kind \in {"start", "stop"} => supervised = "no"
         /\ wants' = [wants EXCEPT ![r] = wish]
    /\ UNCHANGED <<doc, workerVars, seen, shown>>

\* add_queue: add_consumer is sent to the worker, "accepted" whoever hears it, and
\* patch reads the document, if there is one.  The list it writes was read before.
Enqueue(r) ==
    LET queues == Known(seen[r]).queues \cup {"added"} IN
    /\ at[r] = "enqueue"
    /\ consumes' = IF Responds THEN consumes \cup {"added"} ELSE consumes
    /\ at' = [at EXCEPT ![r] = IF doc = NoDoc THEN "resize" ELSE "patch_queue"]
    /\ Remember(r, [Known(doc) EXCEPT !.queues = queues])
    /\ UNCHANGED <<doc, supervised, worker, marked, wants, shown>>

Replace(r, from, to) ==
    /\ Goto(r, from, to)
    /\ doc' = seen[r]
    /\ UNCHANGED <<workerVars, limited>>

PatchQueue(r) ==
    /\ Replace(r, "patch_queue", "reget")
    /\ UNCHANGED <<seen, wants, intent>>
PatchIntent(r) ==
    /\ Replace(r, "patch_intent", "over")
    /\ Vow(r, wants[r].size)
    /\ Forget(r)

Reget(r) ==
    /\ Goto(r, "reget", "resize")
    /\ Remember(r, doc)
    /\ UNCHANGED <<doc, workerVars, wants, shown>>

\* set_concurrency: workers run with --pool=solo, which cannot be resized.
Resize(r) ==
    /\ Goto(r, "resize", IF Responds /\ wants[r].size = Pool THEN "accepted" ELSE "rejected")
    /\ UNCHANGED <<doc, workerVars, seen, wants, shown>>

Latest(r) ==
    /\ Goto(r, "accepted", "write")
    /\ Remember(r, IF doc = NoDoc THEN seen[r] ELSE doc)
    /\ UNCHANGED <<doc, workerVars, wants, shown>>

\* "Persist operator intent": two reads, and a document never goes away.
Persist(r) ==
    /\ IF doc = NoDoc
       THEN Goto(r, "rejected", "create") /\ UNCHANGED seen
       ELSE Goto(r, "rejected", "patch_intent")
            /\ Remember(r, [doc EXCEPT !.desired = wants[r].size])
    /\ UNCHANGED <<doc, workerVars, wants, shown>>

\* What a request makes of the document it has read.
Answer(r) ==
    LET known == Known(seen[r]) IN
    CASE wants[r].kind = "start"    -> [known EXCEPT !.status = "STARTING", !.desired = wants[r].size]
      [] wants[r].kind = "stop"     -> [known EXCEPT !.status = "STOPPING", !.desired = wants[r].size]
      [] wants[r].kind = "shutdown" -> [known EXCEPT !.status = "SHUTDOWN"]
      [] wants[r].kind = "rate"     -> [known EXCEPT !.limit = TRUE]
      [] wants[r].kind = "set" /\ at[r] = "write" ->
                                 [known EXCEPT !.status = "READY", !.desired = wants[r].size]
      [] OTHER                      -> [known EXCEPT !.desired = wants[r].size, !.limit = FALSE]

Write(r) ==
    /\ \E from \in {"write", "create"} : Goto(r, from, "over")
    /\ doc' = Answer(r)
    /\ IF wants[r].kind \in Sized THEN Vow(r, wants[r].size) ELSE UNCHANGED intent
    /\ limited' = IF wants[r].kind = "rate" THEN ~Contested(r) ELSE limited
    /\ Forget(r)
    /\ UNCHANGED workerVars

Serve(r) ==
    \/ Find(r) \/ Enqueue(r) \/ PatchQueue(r) \/ Reget(r) \/ Resize(r)
    \/ Latest(r) \/ Persist(r) \/ PatchIntent(r) \/ Write(r)

(***************************************************************************)
(* list_workers(refresh=True): the two inspections, then get and upsert    *)
(***************************************************************************)

List ==
    /\ Responds
    /\ Goto("listing", "idle", "queues")
    /\ UNCHANGED <<doc, workerVars, seen, wants, shown>>

\* A worker that is gone by the second inspection is listed without queues.
ListQueues ==
    /\ Goto("listing", "queues", "reget")
    /\ wants' = [wants EXCEPT !["listing"] = [queues |-> IF Responds THEN consumes ELSE {}]]
    /\ UNCHANGED <<doc, workerVars, seen, shown>>

ListFind ==
    /\ Goto("listing", "reget", "write")
    /\ Remember("listing", Used("listing"))
    /\ UNCHANGED <<doc, workerVars, wants, shown>>

\* Mutant: the limits, which no inspection answers, are not taken over.
RefreshedOnly(d, queues) ==
    [status |-> "READY", desired |-> Pool, queues |-> queues, limit |-> FALSE]
\* The pool size that was answered replaces the desired concurrency too.
Refreshed(d, queues) ==
    [status |-> "READY", desired |-> Pool, queues |-> queues, limit |-> Known(d).limit]

ListWrite ==
    /\ Goto("listing", "write", "idle")
    /\ doc' = Refreshed(seen["listing"], wants["listing"].queues)
    /\ intent' = 0
    /\ Forget("listing")
    /\ UNCHANGED <<workerVars, limited>>

-----------------------------------------------------------------------------
CoreStep == Supervise \/ \E w \in Core : Find(w) \/ CoreUpsert(w)
Listing  == ListQueues \/ ListFind \/ ListWrite

Next ==
    \/ CoreStep \/ Listing \/ List
    \/ Boot \/ HookReady \/ HookStop \/ GoUp \/ Die
    \/ \E r \in Requests : Issue(r) \/ Serve(r)

Spec == Init /\ [][Next]_vars

\* The supervisor marks a worker that runs, and ticks if it has several; what was
\* begun ends.  The worker starts and stops as it likes.
FairSpec ==
    /\ Spec
    /\ WF_vars(Supervise /\ worker # "down")
    /\ \A w \in Core : WF_vars(Find(w) \/ CoreUpsert(w))
    /\ \A r \in Requests : WF_vars(Serve(r))
    /\ WF_vars(Listing)
-----------------------------------------------------------------------------
\* The desired concurrency an operator asked for stays in the document, whatever
\* hooks, ticks and other requests write afterwards, until a listing refreshes it or
\* another request replaces it.  (A writer that had read before takes it away:
\* intent is 0 then.)
IntentKept == intent # 0 => doc.desired = intent

\* A rate limit that was set stays in the document until a hook or a tick of the
\* core drops it: requests and listings take it over.
LimitKept == limited => doc.limit

\* Whatever the operators wrote and in what order: while a worker stays up, its
\* document ends up READY, without queues the worker does not consume.  The ticks of
\* its supervisor see to that, if that has several workers; for a worker that is the
\* only one of its supervisor, or that the API had started, only the listings do.
RecordHeals ==
    /\ <>[](worker = "up")
    /\ supervised = "several" \/ []<><<ListWrite>>_vars
    => <>[](doc # NoDoc /\ doc.status = "READY" /\ doc.queues \subseteq consumes)
=============================================================================
