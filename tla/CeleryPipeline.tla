--------------------------- MODULE CeleryPipeline ---------------------------
(***************************************************************************)
(* The production path of a task: the API writes the task record and       *)
(* publishes a created event (media-shuttle-api/app/service.py), parse     *)
(* workers turn the event into one download/upload leg per parsed source,  *)
(* and a chord callback finalizes the task or routes it to the retry       *)
(* queue (media-shuttle-core/core/queue/tasks.py).                         *)
(*                                                                         *)
(* Every actor reads and writes one shared Mongo document per task.  An    *)
(* action is one step between two such writes, so that the handlers of     *)
(* different messages interleave as they do on different workers.          *)
(*                                                                         *)
(* The queues are unordered pools: a message is the state of the run or    *)
(* leg it belongs to.  Celery acknowledges a message when the handler      *)
(* starts (celery_app.py sets no acks_late), so a worker that dies loses   *)
(* the message; a message that is lost right after it was received is the  *)
(* loss of a queued one.                                                   *)
(***************************************************************************)
EXTENDS Integers

CONSTANTS
    Tasks,       \* task ids
    Sources,     \* the files a parser may find behind a link
    Create,      \* the origin of the first event of a task: create_parse_task
    Admins,      \* the admin_retry_action requests, each one issued at most once
    MaxRetries,  \* MEDIA_SHUTTLE_MAX_RETRIES
    Faults       \* the faults the environment may produce

FaultKinds == {"crash", "database", "publish"}

ASSUME PipelineAssumption ==
    /\ MaxRetries \in Nat
    /\ Create \notin Admins
    /\ Faults \subseteq FaultKinds

Origins == Admins \cup {Create}

\* An event is known by who published its first attempt, its task, and its
\* "attempt" field.  One attempt more than the budget is representable.
Attempts == 0 .. MaxRetries + 1
Runs     == Origins \X Tasks \X Attempts

TaskOf(r)    == r[2]
AttemptOf(r) == r[3]
RetryOf(r)   == <<r[1], r[2], r[3] + 1>>

VARIABLES
    status,     \* tasks.status of the Mongo document, "NONE" before it exists
    sources,    \* tasks.sources: what the last successful parse recorded
    artifacts,  \* tasks.artifacts: the run whose results are recorded, if any
    lastError,  \* tasks.last_error is not empty
    request,    \* progress of an API request on a task
    phase,      \* progress of the event of a run through the parse worker
    leg,        \* progress of the download/upload chain of a source of a run
    chord,      \* the chord of a run in the result backend
    uploaded    \* sources of a run that reached the upload target

docVars   == <<status, sources, artifacts, lastError>>
reportVars == <<sources, artifacts, lastError>>
legVars   == <<leg, chord, uploaded>>
vars      == <<docVars, request, phase, legVars>>

Working  == {"QUEUED", "PARSING", "DOWNLOADING", "UPLOADING"}
Terminal == {"SUCCEEDED", "FAILED"}

\* An API request: "listed" is an admin retry that has read the FAILED record,
\* "marked" has written QUEUED and not yet published, "aborted" never will.
RequestState == {"idle", "listed", "marked", "sent", "aborted", "dropped"}

\* Until its terminal write a run owes its task a final status ...
Owing   == {"queued", "parsing", "parsed", "scheduling", "fanned_out",
            "finalize_queued", "parse_failed"}
\* ... and then it only reports the outcome and routes the failure.
Settled == {"parse_marked", "final_failed", "final_ok", "routing"}
Phase   == {"free", "retried", "dead", "succeeded", "lost", "dropped"}
             \cup Owing \cup Settled

LegActive == {"dl_queued", "downloading", "up_queued", "skip_queued", "uploading"}
Leg       == {"none", "planned", "ok", "bad", "lost"} \cup LegActive

\* "open": every leg was published and the callback is armed; "broken": it never
\* fires, as a leg was not published, was lost, or raised.
Chord == {"none", "open", "fired", "broken"}

TypeOK ==
    /\ status    \in [Tasks -> {"NONE"} \cup Working \cup Terminal]
    /\ sources   \in [Tasks -> SUBSET Sources]
    /\ artifacts \in [Tasks -> SUBSET Runs]
    /\ lastError \in [Tasks -> BOOLEAN]
    /\ request   \in [Origins -> [Tasks -> RequestState]]
    /\ phase     \in [Runs -> Phase]
    /\ leg       \in [Runs -> [Sources -> Leg]]
    /\ chord     \in [Runs -> Chord]
    /\ uploaded  \in [Runs -> SUBSET Sources]

Init ==
    /\ status    = [t \in Tasks |-> "NONE"]
    /\ sources   = [t \in Tasks |-> {}]
    /\ artifacts = [t \in Tasks |-> {}]
    /\ lastError = [t \in Tasks |-> FALSE]
    /\ request   = [o \in Origins |-> [t \in Tasks |-> "idle"]]
    /\ phase     = [r \in Runs |-> "free"]
    /\ leg       = [r \in Runs |-> [s \in Sources |-> "none"]]
    /\ chord     = [r \in Runs |-> "none"]
    /\ uploaded  = [r \in Runs |-> {}]

\* Mutant: a status name the documented ones do not include.
SetStatusName(t, new) ==
    status' = [status EXCEPT ![t] = IF new = "SUCCEEDED" THEN "SUCCESS" ELSE new]
SetStatus(t, new)  == status' = [status EXCEPT ![t] = new]
Advance(r, from, to) ==
    /\ phase[r] = from
    /\ phase' = [phase EXCEPT ![r] = to]
AdvanceLeg(r, s, from, to) ==
    /\ leg[r][s] = from
    /\ leg' = [leg EXCEPT ![r][s] = to]
AdvanceRequest(o, t, from, to) ==
    /\ request[o][t] = from
    /\ request' = [request EXCEPT ![o][t] = to]

(***************************************************************************)
(* The API: task creation and admin retry                                  *)
(***************************************************************************)

\* create_parse_task: the record first, the event afterwards.
CreateRecord(t) ==
    /\ AdvanceRequest(Create, t, "idle", "marked")
    /\ SetStatus(t, "QUEUED")
    /\ UNCHANGED <<reportVars, phase, legVars>>

\* admin_retry_action reads the FAILED records: one task, or a page of them.
AdminList(a) ==
    /\ \A t \in Tasks : request[a][t] = "idle"
    /\ \E S \in (SUBSET {t \in Tasks : status[t] = "FAILED"}) \ {{}} :
         request' = [request EXCEPT ![a] =
                       [t \in Tasks |-> IF t \in S THEN "listed" ELSE "idle"]]
    /\ UNCHANGED <<docVars, phase, legVars>>

\* Then, one listed task after the other: QUEUED is written whatever the status
\* is by now, and a created event without an attempt field is published.
AdminMark(a, t) ==
    /\ \A u \in Tasks : request[a][u] # "marked"
    /\ AdvanceRequest(a, t, "listed", "marked")
    /\ SetStatus(t, "QUEUED")
    /\ UNCHANGED <<reportVars, phase, legVars>>

PublishCreated(o, t) ==
    /\ AdvanceRequest(o, t, "marked", "sent")
    /\ phase' = [phase EXCEPT ![<<o, t, 0>>] = "queued"]
    /\ UNCHANGED <<docVars, legVars>>

\* The publish raises, or the API process stops: the request ends there, and
\* the tasks it had listed and not reached are left alone.
AbortRequest(o, t) ==
    /\ "publish" \in Faults
    /\ request[o][t] = "marked"
    /\ request' = [request EXCEPT ![o] = [u \in Tasks |->
                     CASE u = t                   -> "aborted"
                       [] request[o][u] = "listed" -> "dropped"
                       [] OTHER                    -> request[o][u]]]
    /\ UNCHANGED <<docVars, phase, legVars>>

(***************************************************************************)
(* The parse worker: process_created_event_logic                           *)
(***************************************************************************)

\* create_task_from_event finds the record (EventHasRecord), PARSING is written.
StartParse(r) ==
    /\ Advance(r, "queued", "parsing")
    /\ SetStatus(TaskOf(r), "PARSING")
    /\ UNCHANGED <<reportVars, request, legVars>>

ParseOk(r) ==
    /\ Advance(r, "parsing", "parsed")
    /\ \E found \in (SUBSET Sources) \ {{}} :
         /\ leg' = [leg EXCEPT ![r] =
                      [s \in Sources |-> IF s \in found THEN "planned" ELSE "none"]]
         /\ sources' = [sources EXCEPT ![TaskOf(r)] = found]
    /\ artifacts' = [artifacts EXCEPT ![TaskOf(r)] = {}]
    /\ lastError' = [lastError EXCEPT ![TaskOf(r)] = FALSE]
    /\ UNCHANGED <<status, request, chord, uploaded>>

\* The site's parser raises or finds nothing.
ParseFail(r) ==
    /\ Advance(r, "parsing", "parse_failed")
    /\ UNCHANGED <<docVars, request, legVars>>

\* A database call inside the try block raises; the except block then works.
ParseDatabaseError(r) ==
    /\ "database" \in Faults
    /\ \E from \in {"queued", "parsed"} : Advance(r, from, "parse_failed")
    /\ UNCHANGED <<docVars, request, legVars>>

MarkDownloading(r) ==
    /\ Advance(r, "parsed", "scheduling")
    /\ SetStatus(TaskOf(r), "DOWNLOADING")
    /\ UNCHANGED <<reportVars, request, legVars>>

QueueLegs(r, S) ==
    leg' = [leg EXCEPT ![r] = [s \in Sources |-> IF s \in S THEN "dl_queued" ELSE leg[r][s]]]
Planned(r) == {s \in Sources : leg[r][s] = "planned"}

\* _schedule_source_pipelines: chord(pipelines)(callback).
Schedule(r) ==
    /\ Advance(r, "scheduling", "fanned_out")
    /\ QueueLegs(r, Planned(r))
    /\ chord' = [chord EXCEPT ![r] = "open"]
    /\ UNCHANGED <<docVars, request, uploaded>>

\* The broker fails while the chord is published: the legs sent so far will run
\* although the except block is about to fail the task and retry it.
ScheduleFail(r) ==
    /\ "publish" \in Faults
    /\ Advance(r, "scheduling", "parse_failed")
    /\ \E sent \in SUBSET Planned(r) : QueueLegs(r, sent)
    /\ chord' = [chord EXCEPT ![r] = "broken"]
    /\ UNCHANGED <<docVars, request, uploaded>>

\* Mutant: the except block leaves the status alone.
MarkNothing(r) ==
    /\ Advance(r, "parse_failed", "parse_marked")
    /\ UNCHANGED <<docVars, request, legVars>>
MarkParseFailed(r) ==
    /\ Advance(r, "parse_failed", "parse_marked")
    /\ SetStatus(TaskOf(r), "FAILED")
    /\ UNCHANGED <<reportVars, request, legVars>>

RecordParseError(r) ==
    /\ Advance(r, "parse_marked", "routing")
    /\ lastError' = [lastError EXCEPT ![TaskOf(r)] = TRUE]
    /\ UNCHANGED <<status, sources, artifacts, request, legVars>>

(***************************************************************************)
(* Routing a failure: _route_failure                                       *)
(***************************************************************************)

\* Mutant: the budget compared with <=.
CanRetryOnceMore(r) == AttemptOf(r) <= MaxRetries
CanRetry(r) == AttemptOf(r) < MaxRetries

RouteRetry(r) ==
    /\ CanRetry(r)
    /\ phase[r] = "routing"
    /\ phase' = [phase EXCEPT ![r] = "retried", ![RetryOf(r)] = "queued"]
    /\ UNCHANGED <<docVars, request, legVars>>

RouteDead(r) ==
    /\ ~CanRetry(r)
    /\ Advance(r, "routing", "dead")
    /\ UNCHANGED <<docVars, request, legVars>>

\* send_task raises out of the handler: the task stays FAILED, nothing retries it.
RouteFail(r) ==
    /\ "publish" \in Faults
    /\ CanRetry(r)
    /\ Advance(r, "routing", "dropped")
    /\ UNCHANGED <<docVars, request, legVars>>

(***************************************************************************)
(* One leg: process_download_source_logic, then process_upload_result_logic *)
(***************************************************************************)

StartDownload(r, s) ==
    /\ AdvanceLeg(r, s, "dl_queued", "downloading")
    /\ SetStatus(TaskOf(r), "DOWNLOADING")
    /\ UNCHANGED <<reportVars, request, phase, chord, uploaded>>

\* A failed download is a packet too: the upload task receives it and skips.
FinishDownload(r, s) ==
    /\ \E next \in {"up_queued", "skip_queued"} : AdvanceLeg(r, s, "downloading", next)
    /\ UNCHANGED <<docVars, request, phase, chord, uploaded>>

SkipUpload(r, s) ==
    /\ AdvanceLeg(r, s, "skip_queued", "bad")
    /\ UNCHANGED <<docVars, request, phase, chord, uploaded>>

StartUpload(r, s) ==
    /\ AdvanceLeg(r, s, "up_queued", "uploading")
    /\ SetStatus(TaskOf(r), "UPLOADING")
    /\ UNCHANGED <<reportVars, request, phase, chord, uploaded>>

UploadOk(r, s) ==
    /\ AdvanceLeg(r, s, "uploading", "ok")
    /\ uploaded' = [uploaded EXCEPT ![r] = @ \cup {s}]
    /\ UNCHANGED <<docVars, request, phase, chord>>

\* Mutants: a failed upload raises instead of returning its packet; it routes its
\* failure itself instead of leaving that to the finalizer.
UploadRaises(r, s) ==
    /\ AdvanceLeg(r, s, "uploading", "lost")
    /\ chord' = [chord EXCEPT ![r] = "broken"]
    /\ UNCHANGED <<docVars, request, phase, uploaded>>
UploadRoutes(r, s) ==
    /\ AdvanceLeg(r, s, "uploading", "bad")
    /\ CanRetry(r)
    /\ phase' = [phase EXCEPT ![RetryOf(r)] = "queued"]
    /\ UNCHANGED <<docVars, request, chord, uploaded>>
UploadFail(r, s) ==
    /\ AdvanceLeg(r, s, "uploading", "bad")
    /\ UNCHANGED <<docVars, request, phase, chord, uploaded>>

(***************************************************************************)
(* The chord and its callback: process_finalize_task_logic                 *)
(***************************************************************************)

\* The result backend sends the callback once every header chain has returned.
HeaderDone(r) == \A s \in Sources : leg[r][s] \in {"none", "ok", "bad"}

ChordFires(r) ==
    /\ chord[r] = "open"
    /\ HeaderDone(r)
    /\ Advance(r, "fanned_out", "finalize_queued")
    /\ chord' = [chord EXCEPT ![r] = "fired"]
    /\ UNCHANGED <<docVars, request, leg, uploaded>>

\* Mutant: only a task none of whose legs succeeded has failed.
OnlyFailedLegs(r) == {s \in Sources : /\ leg[r][s] = "bad"
                                      /\ \A q \in Sources : leg[r][q] # "ok"}
FailedLegs(r) == {s \in Sources : leg[r][s] = "bad"}

FinalizeFailed(r) ==
    /\ FailedLegs(r) # {}
    /\ Advance(r, "finalize_queued", "final_failed")
    /\ SetStatus(TaskOf(r), "FAILED")
    /\ UNCHANGED <<reportVars, request, legVars>>

FinalizeSucceeded(r) ==
    /\ FailedLegs(r) = {}
    /\ Advance(r, "finalize_queued", "final_ok")
    /\ SetStatus(TaskOf(r), "SUCCEEDED")
    /\ UNCHANGED <<reportVars, request, legVars>>

\* Mutant: the finalizer leaves last_error to the parser.
RecordArtifacts(r, from, to, failed) ==
    /\ Advance(r, from, to)
    /\ artifacts' = [artifacts EXCEPT ![TaskOf(r)] = {r}]
    /\ UNCHANGED <<status, sources, lastError, request, legVars>>
RecordOutcome(r, from, to, failed) ==
    /\ Advance(r, from, to)
    /\ artifacts' = [artifacts EXCEPT ![TaskOf(r)] = {r}]
    /\ lastError' = [lastError EXCEPT ![TaskOf(r)] = failed]
    /\ UNCHANGED <<status, sources, request, legVars>>

ReportFailure(r) == RecordOutcome(r, "final_failed", "routing", TRUE)
ReportSuccess(r) == RecordOutcome(r, "final_ok", "succeeded", FALSE)

(***************************************************************************)
(* Losing a message: the worker dies, or an exception leaves the handler    *)
(* (a database call outside a try block raises)                            *)
(***************************************************************************)

\* The parse worker, in either of its handlers.
LoseRun(r) ==
    /\ "crash" \in Faults
    /\ \/ /\ phase[r] \in Owing \ {"fanned_out"}
          /\ phase' = [phase EXCEPT ![r] = "lost"]
       \/ /\ phase[r] \in Settled
          /\ phase' = [phase EXCEPT ![r] = "dropped"]
    /\ UNCHANGED <<docVars, request, legVars>>

\* It dies between publishing the legs and returning: nothing more was to be
\* done, unless the chord was not armed yet.
LoseScheduling(r) ==
    /\ "crash" \in Faults
    /\ Advance(r, "scheduling", "lost")
    /\ \E sent \in SUBSET Planned(r) : QueueLegs(r, sent)
    /\ chord' = [chord EXCEPT ![r] = "broken"]
    /\ UNCHANGED <<docVars, request, uploaded>>

\* A download or upload worker; the file may already be at the target.
LoseLeg(r, s) ==
    /\ "crash" \in Faults
    /\ \E from \in LegActive : AdvanceLeg(r, s, from, "lost")
    /\ chord' = [chord EXCEPT ![r] = "broken"]
    /\ \/ uploaded' = uploaded
       \/ /\ leg[r][s] = "uploading"
          /\ uploaded' = [uploaded EXCEPT ![r] = @ \cup {s}]
    /\ UNCHANGED <<docVars, request, phase>>

-----------------------------------------------------------------------------
\* What API servers, workers and the result backend do once they have work.
RequestStep(o, t) == PublishCreated(o, t) \/ (o \in Admins /\ AdminMark(o, t))

RunStep(r) ==
    \/ StartParse(r) \/ ParseOk(r) \/ ParseFail(r) \/ MarkDownloading(r)
    \/ Schedule(r) \/ MarkParseFailed(r) \/ RecordParseError(r)
    \/ RouteRetry(r) \/ RouteDead(r)
    \/ ChordFires(r) \/ FinalizeFailed(r) \/ FinalizeSucceeded(r)
    \/ ReportFailure(r) \/ ReportSuccess(r)

LegStep(r, s) ==
    \/ StartDownload(r, s) \/ FinishDownload(r, s) \/ SkipUpload(r, s)
    \/ StartUpload(r, s) \/ UploadOk(r, s) \/ UploadFail(r, s)

System ==
    \/ \E o \in Origins, t \in Tasks : RequestStep(o, t)
    \/ \E r \in Runs : RunStep(r)
    \/ \E r \in Runs, s \in Sources : LegStep(r, s)

Clients ==
    \/ \E t \in Tasks : CreateRecord(t)
    \/ \E a \in Admins : AdminList(a)

Failures ==
    \/ \E o \in Origins, t \in Tasks : AbortRequest(o, t)
    \/ \E r \in Runs : \/ ParseDatabaseError(r) \/ ScheduleFail(r) \/ RouteFail(r)
                       \/ LoseRun(r) \/ LoseScheduling(r)
    \/ \E r \in Runs, s \in Sources : LoseLeg(r, s)

Next == System \/ Clients \/ Failures

Spec == Init /\ [][Next]_vars

\* Some server or worker goes on as long as there is work: the workers consume
\* their queues in a loop.  No client has to ask for anything, nothing has to fail.
FairSpec == Spec /\ WF_vars(System)
-----------------------------------------------------------------------------
\* A chain of the run is in a queue or on a worker.
LegsActive(r) == \E s \in Sources : leg[r][s] \in LegActive
\* The run may still write the record of its task, or publish its retry.
InFlight(r) == phase[r] \in Owing \cup Settled \/ LegsActive(r)
\* The callback of the run will never come.
Broken(r) == phase[r] = "lost" \/ chord[r] = "broken"

\* What an event finds when it is consumed: the API wrote the record before it
\* published the event, and nothing deletes one.
EventHasRecord == \A r \in Runs : phase[r] # "free" => status[TaskOf(r)] # "NONE"

\* A task that a client sees as QUEUED, PARSING, DOWNLOADING or UPLOADING has a
\* run that will still write its final status, unless a message of it was lost
\* or an API request on it did not get to its publish.  So no order of the
\* writes of its legs, its finalizer, its retries and an admin's retry leaves
\* a task behind with a status that nobody will change.
Owes(r) == phase[r] \in Owing \/ Broken(r)
Owned(t) ==
    \/ \E r \in Runs : TaskOf(r) = t /\ Owes(r)
    \/ \E o \in Origins : request[o][t] \in {"marked", "aborted"}
StatusHasOwner == \A t \in Tasks : status[t] \in Working => Owned(t)

\* What the parser of a run found.
Found(r) == {s \in Sources : leg[r][s] # "none"}

\* SUCCEEDED is a promise about the target: one run of the task uploaded every
\* source it had parsed, whatever was lost, retried or run twice meanwhile.
Complete(r) == Found(r) # {} /\ Found(r) = uploaded[r]
SucceededIsUploaded ==
    \A t \in Tasks : status[t] = "SUCCEEDED" =>
        \E r \in Runs : TaskOf(r) = t /\ Complete(r)

\* No event is ever published with an attempt beyond MEDIA_SHUTTLE_MAX_RETRIES.
RetryBudget == \A r \in Runs : AttemptOf(r) > MaxRetries => phase[r] = "free"

\* Without admin retries and without a broker that fails in the middle of a
\* chord, the attempts on a task never overlap: when an event is consumed, no
\* leg, finalizer or handler of an earlier attempt is left to write the record.
OneRunAtATime ==
    \A q, r \in Runs : TaskOf(q) = TaskOf(r) /\ InFlight(q) /\ InFlight(r) => q = r

\* Under the same conditions a task that succeeded stays so: no straggling leg
\* and no late retry writes over it.
SucceededIsFinal ==
    [][\A t \in Tasks : status[t] = "SUCCEEDED" => status'[t] = "SUCCEEDED"]_vars

\* The run of a task whose parser found something last.
LastFound(r) ==
    /\ Found(r) # {}
    /\ \A q \in Runs :
         TaskOf(q) = TaskOf(r) /\ Found(q) # {} => AttemptOf(q) <= AttemptOf(r)

\* Under the same conditions the record a client reads at the end of the last run
\* is not put together from several.  A success is that run's in every field.  A
\* failure is that run's in status and last_error, while sources and artifacts are
\* both of the last run that parsed, and there are no artifacts unless one of its
\* files failed: a run that fails to parse leaves those of an earlier one.
RecordMatchesRun ==
    \A r \in Runs : LET t == TaskOf(r) IN
        /\ phase[r] = "succeeded" =>
             /\ status[t] = "SUCCEEDED" /\ ~lastError[t]
             /\ artifacts[t] = {r} /\ sources[t] = uploaded[r]
        /\ phase[r] = "dead" =>
             /\ status[t] = "FAILED" /\ lastError[t]
             /\ \A q \in Runs : TaskOf(q) = t /\ LastFound(q) =>
                  /\ sources[t] = Found(q)
                  /\ artifacts[t] = IF FailedLegs(q) = {} THEN {} ELSE {q}
             /\ (\A q \in Runs : TaskOf(q) = t => Found(q) = {}) =>
                  sources[t] = {} /\ artifacts[t] = {}

\* Without faults every task that was created gets to SUCCEEDED or FAILED and
\* comes to rest there, even when admin retries run beside automatic ones.
EventuallySettles ==
    \A t \in Tasks : status[t] # "NONE" ~> [](status[t] \in Terminal)

\* Without faults the pipeline implements the life cycle a client is promised.
\* A task is active while a run of it is in flight or an event of it is about to
\* be published, whatever its status field says in between: the FAILED that is
\* written before an automatic retry is not the end of it.
Active(t) == \/ \E r \in Runs : TaskOf(r) = t /\ InFlight(r)
             \/ \E o \in Origins : request[o][t] = "marked"
LifeOf(t) == CASE status[t] = "NONE" -> "absent"
               [] Active(t)          -> "active"
               [] OTHER -> CASE status[t] = "SUCCEEDED" -> "succeeded"
                             [] status[t] = "FAILED"    -> "failed"
                             [] OTHER                   -> "abandoned"
Lifecycle == INSTANCE TaskLifecycle WITH life <- [t \in Tasks |-> LifeOf(t)]
ImplementsLifecycle == Lifecycle!LifeSpec

\* A manual retry is for a failed task: "task_not_failed" is the answer for any
\* other.  The code checks the status it read before, not the one it overwrites.
OnlyFailedIsRequeued ==
    [][\A a \in Admins, t \in Tasks :
         request[a][t] = "listed" /\ request'[a][t] = "marked" => status[t] = "FAILED"]_vars
-----------------------------------------------------------------------------
(***************************************************************************)
(* The inductive strengthening of StatusHasOwner, SucceededIsUploaded,     *)
(* RetryBudget and EventHasRecord.                                         *)
(***************************************************************************)

\* A leg is processed only for a run that waits for its chord, or for one whose
\* chord will never complete.
LegsHaveChord ==
    \A r \in Runs, s \in Sources : leg[r][s] \in LegActive =>
        \/ phase[r] = "fanned_out" /\ chord[r] = "open"
        \/ chord[r] = "broken"

\* An event is published once: the first attempt by its request, another one by
\* the failure of the attempt before it.
PublishedOnce ==
    /\ \A o \in Origins, t \in Tasks : request[o][t] # "sent" => phase[<<o, t, 0>>] = "free"
    /\ \A r \in Runs : CanRetry(r) /\ phase[r] # "retried" => phase[RetryOf(r)] = "free"

\* A request that got beyond reading has a record to work on.
RequestHasRecord ==
    \A o \in Origins, t \in Tasks : request[o][t] # "idle" => status[t] # "NONE"

\* Legs exist from the parse on, and all of them are done at the finalizer.
LegsMatchPhase ==
    \A r \in Runs :
        /\ phase[r] \in {"free", "queued", "parsing"} => \A s \in Sources : leg[r][s] = "none"
        /\ phase[r] \in {"parsed", "scheduling", "fanned_out", "finalize_queued"} =>
             \E s \in Sources : leg[r][s] # "none"
        /\ phase[r] = "finalize_queued" => HeaderDone(r)

\* A file is at the target when its leg says so, and otherwise only when the
\* worker was lost after the upload.
UploadedMatchesLegs ==
    \A r \in Runs, s \in Sources :
        /\ leg[r][s] = "ok" => s \in uploaded[r]
        /\ s \in uploaded[r] => leg[r][s] \in {"ok", "lost"}

IInv ==
    /\ TypeOK
    /\ LegsHaveChord
    /\ PublishedOnce
    /\ RequestHasRecord
    /\ LegsMatchPhase
    /\ UploadedMatchesLegs
    /\ EventHasRecord
    /\ StatusHasOwner
    /\ SucceededIsUploaded
    /\ RetryBudget
=============================================================================
