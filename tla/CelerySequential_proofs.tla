----------------------- MODULE CelerySequential_proofs -----------------------
(***************************************************************************)
(* Proofs about CeleryPipeline when nobody retries a task by hand and the  *)
(* broker does not fail in the middle of a publish: the attempts on a task *)
(* come one after the other, so that none writes over another's outcome.   *)
(* Workers may die and the database may fail all the same.                 *)
(***************************************************************************)
EXTENDS CeleryPipeline_proofs

Unattended == Admins = {} /\ "publish" \notin Faults

(***************************************************************************)
(* The inductive invariant, on top of IInv                                 *)
(***************************************************************************)

\* Once an attempt is published, those before it have been routed to it and have
\* no leg left.
Earlier(q, r) == TaskOf(q) = TaskOf(r) /\ AttemptOf(q) < AttemptOf(r)
Superseded ==
    \A q, r \in Runs : Earlier(q, r) /\ phase[r] # "free" =>
        phase[q] = "retried" /\ ~LegsActive(q)

\* A leg works only for a run that waits for it, or that was lost meanwhile.
LegsNeedRun == \A r \in Runs : LegsActive(r) => phase[r] \in {"fanned_out", "lost"}

\* The only record there is was written by the request that publishes the event.
RecordIsRequested == \A t \in Tasks : request[Create][t] = "idle" => status[t] = "NONE"

\* SUCCEEDED was written by a run that only reports that, and then is at its end.
SuccessHasRun ==
    \A t \in Tasks : status[t] = "SUCCEEDED" =>
        \E r \in Runs : TaskOf(r) = t /\ phase[r] \in {"final_ok", "succeeded", "dropped"}

\* What the record says of a run, from the step on at which the run wrote it.
Parsed == {"parsed", "scheduling", "fanned_out", "finalize_queued", "final_ok", "succeeded"}
OutcomeRecorded(r) == LET t == TaskOf(r) IN
    /\ phase[r] \in {"final_ok", "succeeded"} =>
         status[t] = "SUCCEEDED" /\ HeaderDone(r) /\ FailedLegs(r) = {}
    /\ phase[r] = "succeeded" => ~lastError[t] /\ artifacts[t] = {r}
    /\ phase[r] \in {"parse_marked", "final_failed", "routing", "dead"} => status[t] = "FAILED"
    /\ phase[r] = "final_failed" => FailedLegs(r) # {}
    /\ phase[r] \in {"routing", "dead"} => lastError[t]
    /\ phase[r] \in Parsed => sources[t] = {s \in Sources : leg[r][s] # "none"}
OutcomesRecorded == \A r \in Runs : OutcomeRecorded(r)

\* Until its callback runs no file of an attempt has failed, but for those of its chord;
\* and it has files when it succeeds.
LegsOfPhase(r) ==
    /\ phase[r] \in {"parsed", "scheduling", "parse_failed", "parse_marked"} => FailedLegs(r) = {}
    /\ phase[r] = "final_ok" => Found(r) # {}
LegsOfPhases == \A r \in Runs : LegsOfPhase(r)

\* Sources and artifacts are those of the last run that parsed: no artifacts before it
\* reported, and none when it failed after the parse but for other reasons than a file.
Reported(r) == IF \/ phase[r] = "succeeded"
                  \/ phase[r] \in {"routing", "dead", "retried"} /\ FailedLegs(r) # {}
               THEN {r} ELSE {}
ShowsLastParse(t) ==
    /\ \A q \in Runs : TaskOf(q) = t /\ LastFound(q) =>
         sources[t] = Found(q) /\ (phase[q] # "dropped" => artifacts[t] = Reported(q))
    /\ (\A q \in Runs : TaskOf(q) = t => Found(q) = {}) => sources[t] = {} /\ artifacts[t] = {}
RecordShowsLastParse == \A t \in Tasks : ShowsLastParse(t)

SInv == /\ IInv /\ Superseded /\ LegsNeedRun /\ RecordIsRequested /\ SuccessHasRun
        /\ OutcomesRecorded /\ LegsOfPhases /\ RecordShowsLastParse
-----------------------------------------------------------------------------
(***************************************************************************)
(* Which run is the current one                                            *)
(***************************************************************************)

\* The runs of a task are its attempts, one after the other.
LEMMA RunsAreOrdered ==
    ASSUME Unattended, NEW q \in Runs, NEW r \in Runs, TaskOf(q) = TaskOf(r), q # r
    PROVE  Earlier(q, r) \/ Earlier(r, q)
  BY PipelineAssumption DEF Unattended, Runs, Origins, TaskOf, AttemptOf, Attempts, Earlier

\* Beside a run that has begun and is not superseded, no other run of its task works.
LEMMA Alone ==
    ASSUME Unattended, SInv, NEW r \in Runs, phase[r] \notin {"free", "retried"},
           NEW q \in Runs, TaskOf(q) = TaskOf(r), q # r
    PROVE  phase[q] \in {"free", "retried"} /\ ~LegsActive(q)
  <1>1. CASE Earlier(q, r)
    BY <1>1 DEF SInv, Superseded
  <1>2. CASE Earlier(r, q)
    BY <1>2 DEF SInv, Superseded, LegsNeedRun
  <1>3. QED BY <1>1, <1>2, RunsAreOrdered

\* The run of which a step is has begun and is not superseded.
LEMMA ActorIsCurrent ==
    ASSUME SInv, NEW r \in Runs,
           \/ RunStep(r) \/ RunFault(r)
           \/ \E s \in Sources : LegStep(r, s) \/ LoseLeg(r, s)
    PROVE  phase[r] \in Owing \cup Settled \cup {"lost"}
  <1>1. CASE RunStep(r) \/ RunFault(r)
    BY <1>1, RunPhaseStep DEF SInv, IInv
  <1>2. CASE \E s \in Sources : LegStep(r, s) \/ LoseLeg(r, s)
    BY <1>2, LegFrame DEF SInv, IInv, LegsNeedRun, LegsActive, Owing
  <1>3. QED BY <1>1, <1>2

LEMMA RunIsRequested ==
    ASSUME Unattended, SInv, NEW r \in Runs, phase[r] # "free"
    PROVE  request[Create][TaskOf(r)] = "sent"
  <1> DEFINE first == <<Create, TaskOf(r), 0>>
  <1>1. TaskOf(r) \in Tasks /\ Create \in Origins
    BY RunFacts DEF Origins
  <1>2. first \in Runs /\ TaskOf(first) = TaskOf(r)
    BY <1>1, FirstAttempt
  <1>3. phase[first] # "free"
    <2>1. CASE first = r
      BY <2>1
    <2>2. CASE first # r
      <3>1. ~Earlier(r, first)
        BY RunFacts, PipelineAssumption DEF Earlier, AttemptOf, Runs, Attempts
      <3>2. Earlier(first, r)
        BY <1>2, <2>2, <3>1, RunsAreOrdered
      <3>3. phase[first] = "retried"
        BY <1>2, <3>2 DEF SInv, Superseded
      <3>4. QED BY <3>3
    <2>3. QED BY <2>1, <2>2
  <1>4. QED BY <1>1, <1>3 DEF SInv, IInv, PublishedOnce

\* Only task creation is left of the requests.
LEMMA OnlyCreation ==
    ASSUME Unattended, NEW o \in Origins, NEW t \in Tasks,
           RequestStep(o, t) \/ AbortRequest(o, t) \/ CreateRecord(t)
             \/ (o \in Admins /\ AdminList(o))
    PROVE  PublishCreated(Create, t) \/ CreateRecord(t)
  BY DEF Unattended, Origins, RequestStep, AbortRequest

(***************************************************************************)
(* Steps of the event of a run                                             *)
(***************************************************************************)

LEMMA RunSuperseded ==
    ASSUME Unattended, SInv, NEW r \in Runs, RunStep(r) \/ RunFault(r)
    PROVE  Superseded'
  <1>0. /\ IInv /\ Superseded /\ LegsNeedRun /\ PhaseStep(r) /\ LegsUpdate(r)
        /\ phase \in [Runs -> Phase] /\ leg \in [Runs -> [Sources -> Leg]]
        /\ phase[r] \in Owing \cup Settled
    BY RunPhaseStep, RunLegs DEF SInv, IInv, TypeOK
  <1>1. SUFFICES ASSUME NEW q \in Runs, NEW p \in Runs, Earlier(q, p), phase'[p] # "free"
                 PROVE  phase'[q] = "retried" /\ ~LegsActive(q)'
    BY DEF Superseded, Earlier
  <1>2. ASSUME phase[q] = "retried", ~LegsActive(q)
        PROVE  phase'[q] = "retried" /\ ~LegsActive(q)'
    <2>1. q # r
      BY <1>0, <1>2 DEF Owing, Settled
    <2>2. QED BY <1>0, <1>2, <2>1, OtherRuns DEF LegsActive
  <1>3. CASE phase[p] # "free"
    BY <1>0, <1>1, <1>2, <1>3 DEF Superseded
  <1>4. CASE phase[p] = "free"
    <2>1. p # r
      BY <1>0, <1>4 DEF Owing, Settled
    <2>2. /\ phase[r] = "routing" /\ CanRetry(r) /\ p = RetryOf(r)
          /\ phase' = [phase EXCEPT ![r] = "retried", ![RetryOf(r)] = "queued"]
      BY <1>0, <1>1, <1>4, <2>1 DEF PhaseStep
    <2>3. TaskOf(p) = TaskOf(r) /\ AttemptOf(p) = AttemptOf(r) + 1
      BY <2>2, RetryIsAnother
    <2>4. CASE q = r
      <3>1. leg' = leg
        BY <1>0, <2>2 DEF LegsUpdate
      <3>2. ~LegsActive(r)
        BY <1>0, <2>2 DEF LegsNeedRun
      <3>3. phase'[r] = "retried"
        BY <1>0, <2>1, <2>2
      <3>4. QED BY <2>4, <3>1, <3>2, <3>3 DEF LegsActive
    <2>5. CASE q # r
      <3>1. q = <<q[1], TaskOf(q), AttemptOf(q)>> /\ r = <<r[1], TaskOf(r), AttemptOf(r)>>
            /\ AttemptOf(q) \in Int /\ AttemptOf(r) \in Int
        BY PipelineAssumption DEF Runs, TaskOf, AttemptOf, Attempts
      <3>2. TaskOf(q) = TaskOf(r) /\ AttemptOf(q) <= AttemptOf(r)
        BY <1>1, <2>3, <3>1 DEF Earlier
      <3>3. Earlier(q, r)
        BY <2>5, <3>1, <3>2, RunsAreOrdered DEF Earlier
      <3>4. phase[q] = "retried" /\ ~LegsActive(q)
        BY <1>0, <2>2, <3>3 DEF Superseded
      <3>5. QED BY <1>2, <3>4
    <2>6. QED BY <2>4, <2>5
  <1>5. QED BY <1>3, <1>4

LEMMA RunLegsNeedRun ==
    ASSUME Unattended, SInv, NEW r \in Runs, RunStep(r) \/ RunFault(r)
    PROVE  LegsNeedRun'
  <1>0. /\ IInv /\ LegsNeedRun /\ LegsUpdate(r) /\ leg \in [Runs -> [Sources -> Leg]]
        /\ phase \in [Runs -> Phase] /\ phase[r] \in Owing \cup Settled
    BY RunPhaseStep, RunLegs DEF SInv, IInv, TypeOK
  <1> SUFFICES ASSUME NEW q \in Runs, LegsActive(q)' PROVE phase'[q] \in {"fanned_out", "lost"}
    BY DEF LegsNeedRun
  <1>1. CASE q # r
    <2>1. LegsActive(q) /\ phase[q] \in {"fanned_out", "lost"}
      BY <1>0, <1>1, OtherRuns DEF LegsNeedRun, LegsActive
    <2>2. QED BY <1>0, <1>1, <2>1, OtherRuns
  <1>2. CASE q = r /\ leg' = leg
    <2>1. phase[r] = "fanned_out"
      BY <1>0, <1>2 DEF LegsNeedRun, LegsActive, Owing, Settled
    <2>2. HeaderDone(r)
      BY <1>0, <2>1 DEF LegsUpdate
    <2>3. QED BY <1>2, <2>2 DEF HeaderDone, LegsActive, LegActive
  <1>3. CASE q = r /\ phase[r] = "parsing"
    BY <1>0, <1>3, <1>2 DEF LegsUpdate, LegsActive, LegActive
  <1>4. CASE q = r /\ phase[r] = "scheduling" /\ leg' # leg
    <2>1. ~ScheduleFail(r)
      BY DEF Unattended, ScheduleFail
    <2>2. Schedule(r) \/ LoseScheduling(r)
      BY <1>4, <2>1 DEF RunStep, RunFault, StartParse, ParseOk, ParseFail, MarkDownloading,
         MarkParseFailed, RecordParseError, RouteRetry, RouteDead, ChordFires, FinalizeFailed,
         FinalizeSucceeded, ReportFailure, ReportSuccess, RecordOutcome, ParseDatabaseError,
         RouteFail, LoseRun, legVars, Advance
    <2>3. QED BY <1>0, <1>4, <2>2 DEF Schedule, LoseScheduling, Advance
  <1>5. QED BY <1>0, <1>1, <1>2, <1>3, <1>4 DEF LegsUpdate

\* The record of another task is not touched, and neither is the status of its own
\* but in four phases.
LEMMA RunRecord ==
    ASSUME TypeOK, NEW r \in Runs, RunStep(r) \/ RunFault(r)
    PROVE  /\ \A t \in Tasks : t # TaskOf(r) =>
                /\ status'[t] = status[t] /\ sources'[t] = sources[t]
                /\ artifacts'[t] = artifacts[t] /\ lastError'[t] = lastError[t]
           /\ \/ status' = status
              \/ phase[r] \in {"queued", "parsed", "parse_failed", "finalize_queued"}
  <1>1. \/ status' = status
        \/ phase[r] \in {"queued", "parsed", "parse_failed", "finalize_queued"}
    BY DEF RunStep, RunFault, StartParse, ParseOk, ParseFail, MarkDownloading, Schedule,
       MarkParseFailed, RecordParseError, RouteRetry, RouteDead, ChordFires, FinalizeFailed,
       FinalizeSucceeded, ReportFailure, ReportSuccess, RecordOutcome, ParseDatabaseError,
       ScheduleFail, RouteFail, LoseRun, LoseScheduling, Advance, docVars
  <1>2. \/ sources' = sources
        \/ \E v : sources' = [sources EXCEPT ![TaskOf(r)] = v]
    BY DEF RunStep, RunFault, StartParse, ParseOk, ParseFail, MarkDownloading, Schedule,
       MarkParseFailed, RecordParseError, RouteRetry, RouteDead, ChordFires, FinalizeFailed,
       FinalizeSucceeded, ReportFailure, ReportSuccess, RecordOutcome, ParseDatabaseError,
       ScheduleFail, RouteFail, LoseRun, LoseScheduling, docVars, reportVars
  <1>3. \/ artifacts' = artifacts
        \/ \E v : artifacts' = [artifacts EXCEPT ![TaskOf(r)] = v]
    BY DEF RunStep, RunFault, StartParse, ParseOk, ParseFail, MarkDownloading, Schedule,
       MarkParseFailed, RecordParseError, RouteRetry, RouteDead, ChordFires, FinalizeFailed,
       FinalizeSucceeded, ReportFailure, ReportSuccess, RecordOutcome, ParseDatabaseError,
       ScheduleFail, RouteFail, LoseRun, LoseScheduling, docVars, reportVars
  <1>4. \/ lastError' = lastError
        \/ \E v : lastError' = [lastError EXCEPT ![TaskOf(r)] = v]
    BY DEF RunStep, RunFault, StartParse, ParseOk, ParseFail, MarkDownloading, Schedule,
       MarkParseFailed, RecordParseError, RouteRetry, RouteDead, ChordFires, FinalizeFailed,
       FinalizeSucceeded, ReportFailure, ReportSuccess, RecordOutcome, ParseDatabaseError,
       ScheduleFail, RouteFail, LoseRun, LoseScheduling, docVars, reportVars
  <1>5. \A t \in Tasks : t # TaskOf(r) => status'[t] = status[t]
    BY RunStatus DEF TypeOK
  <1>6. \A t \in Tasks : t # TaskOf(r) => sources'[t] = sources[t]
    BY <1>2 DEF TypeOK
  <1>7. \A t \in Tasks : t # TaskOf(r) => artifacts'[t] = artifacts[t]
    BY <1>3 DEF TypeOK
  <1>8. \A t \in Tasks : t # TaskOf(r) => lastError'[t] = lastError[t]
    BY <1>4, Zenon DEF TypeOK
  <1>9. QED BY <1>1, <1>5, <1>6, <1>7, <1>8

LEMMA RunRecordIsRequested ==
    ASSUME Unattended, SInv, NEW r \in Runs, RunStep(r) \/ RunFault(r)
    PROVE  RecordIsRequested'
  <1>0. /\ RecordIsRequested /\ request' = request /\ phase[r] # "free"
        /\ \A t \in Tasks : t # TaskOf(r) => status'[t] = status[t]
    BY RunPhaseStep, RunRecord DEF SInv, IInv, Owing, Settled
  <1>1. QED BY <1>0, RunIsRequested DEF RecordIsRequested

LEMMA RunKeepsSuccess ==
    ASSUME Unattended, SInv, NEW r \in Runs, RunStep(r) \/ RunFault(r),
           NEW t \in Tasks, status[t] = "SUCCEEDED"
    PROVE  status'[t] = "SUCCEEDED"
  <1>1. CASE t # TaskOf(r) \/ status' = status
    BY <1>1, RunRecord DEF SInv, IInv
  <1>2. CASE t = TaskOf(r) /\ status' # status
    <2>1. phase[r] \in {"queued", "parsed", "parse_failed", "finalize_queued"}
      BY <1>2, RunRecord DEF SInv, IInv
    <2>2. PICK q \in Runs : TaskOf(q) = t /\ phase[q] \in {"final_ok", "succeeded", "dropped"}
      BY DEF SInv, SuccessHasRun
    <2>3. QED BY <1>2, <2>1, <2>2, Alone
  <1>3. QED BY <1>1, <1>2

LEMMA RunSuccessHasRun ==
    ASSUME SInv, NEW r \in Runs, RunStep(r) \/ RunFault(r)
    PROVE  SuccessHasRun'
  <1>0. /\ IInv /\ SuccessHasRun /\ phase \in [Runs -> Phase] /\ phase[r] \in Owing \cup Settled
        /\ status \in [Tasks -> {"NONE"} \cup Working \cup Terminal]
    BY RunPhaseStep DEF SInv, IInv, TypeOK
  <1> SUFFICES ASSUME NEW t \in Tasks, status'[t] = "SUCCEEDED"
               PROVE  \E q \in Runs : TaskOf(q) = t
                                      /\ phase'[q] \in {"final_ok", "succeeded", "dropped"}
    BY DEF SuccessHasRun
  <1>1. CASE status[t] = "SUCCEEDED"
    <2>1. PICK q \in Runs : TaskOf(q) = t /\ phase[q] \in {"final_ok", "succeeded", "dropped"}
      BY <1>0, <1>1 DEF SuccessHasRun
    <2>2. CASE q # r
      BY <1>0, <2>1, <2>2, OtherRuns
    <2>3. CASE q = r
      <3>1. phase[r] = "final_ok"
        BY <1>0, <2>1, <2>3 DEF Owing, Settled
      <3>2. ReportSuccess(r) \/ LoseRun(r)
        BY <3>1 DEF RunStep, RunFault, StartParse, ParseOk, ParseFail, MarkDownloading,
           Schedule, MarkParseFailed, RecordParseError, RouteRetry, RouteDead, ChordFires,
           FinalizeFailed, FinalizeSucceeded, ReportFailure, RecordOutcome,
           ParseDatabaseError, ScheduleFail, RouteFail, LoseScheduling, Advance
      <3>3. QED BY <1>0, <2>1, <2>3, <3>1, <3>2
                DEF ReportSuccess, RecordOutcome, LoseRun, Advance, Owing
    <2>4. QED BY <2>2, <2>3
  <1>2. CASE status[t] # "SUCCEEDED"
    <2>1. FinalizeSucceeded(r) /\ t = TaskOf(r)
      BY <1>0, <1>2 DEF RunStep, RunFault, StartParse, ParseOk, ParseFail, MarkDownloading,
         Schedule, MarkParseFailed, RecordParseError, RouteRetry, RouteDead, ChordFires,
         FinalizeFailed, FinalizeSucceeded, ReportFailure, ReportSuccess, RecordOutcome,
         ParseDatabaseError, ScheduleFail, RouteFail, LoseRun, LoseScheduling, SetStatus, docVars
    <2>2. QED BY <1>0, <2>1 DEF FinalizeSucceeded, Advance
  <1>3. QED BY <1>1, <1>2

\* A run writes its own outcome step by step.
LEMMA OwnOutcome ==
    ASSUME SInv, NEW r \in Runs, RunStep(r) \/ RunFault(r)
    PROVE  OutcomeRecorded(r)'
  <1>0. /\ TypeOK /\ OutcomeRecorded(r) /\ LegsMatchPhase /\ TaskOf(r) \in Tasks
    BY RunFacts DEF SInv, IInv, OutcomesRecorded
  <1> USE DEF OutcomeRecorded, Advance, docVars, reportVars, legVars, TypeOK, Parsed,
              HeaderDone, FailedLegs
  <1>1. CASE StartParse(r)       BY <1>0, <1>1 DEF StartParse
  <1>2. CASE ParseOk(r)          BY <1>0, <1>2 DEF ParseOk
  <1>3. CASE ParseFail(r)        BY <1>0, <1>3 DEF ParseFail
  <1>4. CASE MarkDownloading(r)  BY <1>0, <1>4 DEF MarkDownloading
  <1>5. CASE Schedule(r)         BY <1>0, <1>5 DEF Schedule, QueueLegs, Planned
  <1>6. CASE MarkParseFailed(r)  BY <1>0, <1>6 DEF MarkParseFailed, SetStatus
  <1>7. CASE RecordParseError(r) BY <1>0, <1>7 DEF RecordParseError
  <1>8. CASE RouteRetry(r)
    <2>1. RetryOf(r) # r /\ RetryOf(r) \in Runs
      BY <1>8, RunFacts, RetryIsAnother DEF RouteRetry
    <2>2. phase'[r] = "retried"
      BY <1>0, <1>8, <2>1 DEF RouteRetry
    <2>3. QED BY <2>2
  <1>9. CASE RouteDead(r)        BY <1>0, <1>9 DEF RouteDead
  <1>10. CASE ChordFires(r)      BY <1>0, <1>10 DEF ChordFires
  <1>11. CASE FinalizeFailed(r)  BY <1>0, <1>11 DEF FinalizeFailed, SetStatus
  <1>12. CASE FinalizeSucceeded(r)
    BY <1>0, <1>12 DEF FinalizeSucceeded, SetStatus, LegsMatchPhase
  <1>13. CASE ReportFailure(r)   BY <1>0, <1>13 DEF ReportFailure, RecordOutcome
  <1>14. CASE ReportSuccess(r)   BY <1>0, <1>14 DEF ReportSuccess, RecordOutcome
  <1>15. CASE ParseDatabaseError(r) BY <1>0, <1>15 DEF ParseDatabaseError
  <1>16. CASE ScheduleFail(r)    BY <1>0, <1>16 DEF ScheduleFail
  <1>17. CASE RouteFail(r)       BY <1>0, <1>17 DEF RouteFail
  <1>18. CASE LoseRun(r)         BY <1>0, <1>18 DEF LoseRun
  <1>19. CASE LoseScheduling(r)  BY <1>0, <1>19 DEF LoseScheduling
  <1>20. QED
    BY <1>1, <1>2, <1>3, <1>4, <1>5, <1>6, <1>7, <1>8, <1>9, <1>10, <1>11, <1>12, <1>13,
       <1>14, <1>15, <1>16, <1>17, <1>18, <1>19 DEF RunStep, RunFault

\* What the record says of another run of the task concerns nobody any more, and the
\* records of other tasks are left alone.
LEMMA RunOutcomesRecorded ==
    ASSUME Unattended, SInv, NEW r \in Runs, RunStep(r) \/ RunFault(r)
    PROVE  OutcomesRecorded'
  <1>0. IInv /\ OutcomesRecorded /\ phase[r] \in Owing \cup Settled
    BY RunPhaseStep DEF SInv, IInv
  <1> SUFFICES ASSUME NEW q \in Runs, q # r PROVE OutcomeRecorded(q)'
    BY OwnOutcome DEF OutcomesRecorded
  <1>1. /\ leg'[q] = leg[q]
        /\ phase'[q] = phase[q] \/ phase'[q] = "queued"
    BY <1>0, OtherRuns
  <1>2. CASE TaskOf(q) = TaskOf(r)
    <2>1. phase[q] \in {"free", "retried"}
      BY <1>0, <1>2, Alone DEF Owing, Settled
    <2>2. QED BY <1>1, <2>1 DEF OutcomeRecorded, Parsed
  <1>3. CASE TaskOf(q) # TaskOf(r)
    <2> DEFINE t == TaskOf(q)
    <2>1. /\ status'[t] = status[t] /\ sources'[t] = sources[t]
          /\ artifacts'[t] = artifacts[t] /\ lastError'[t] = lastError[t]
      BY <1>0, <1>3, RunRecord, RunFacts DEF IInv
    <2>2. HeaderDone(q)' = HeaderDone(q) /\ FailedLegs(q)' = FailedLegs(q)
      BY <1>1 DEF HeaderDone, FailedLegs
    <2>3. OutcomeRecorded(q)
      BY <1>0 DEF OutcomesRecorded
    <2>4. CASE phase'[q] = phase[q]
      <3> HIDE DEF t
      <3>1. /\ phase[q] \in {"final_ok", "succeeded"} =>
                 status[t] = "SUCCEEDED" /\ HeaderDone(q) /\ FailedLegs(q) = {}
            /\ phase[q] = "succeeded" => ~lastError[t] /\ artifacts[t] = {q}
            /\ phase[q] \in {"parse_marked", "final_failed", "routing", "dead"} =>
                 status[t] = "FAILED"
            /\ phase[q] = "final_failed" => FailedLegs(q) # {}
            /\ phase[q] \in {"routing", "dead"} => lastError[t]
            /\ phase[q] \in Parsed => sources[t] = {s \in Sources : leg[q][s] # "none"}
        BY <2>3 DEF t, OutcomeRecorded
      <3>2. /\ phase'[q] \in {"final_ok", "succeeded"} =>
                 status'[t] = "SUCCEEDED" /\ HeaderDone(q)' /\ FailedLegs(q)' = {}
            /\ phase'[q] = "succeeded" => ~lastError'[t] /\ artifacts'[t] = {q}
            /\ phase'[q] \in {"parse_marked", "final_failed", "routing", "dead"} =>
                 status'[t] = "FAILED"
            /\ phase'[q] = "final_failed" => FailedLegs(q)' # {}
            /\ phase'[q] \in {"routing", "dead"} => lastError'[t]
            /\ phase'[q] \in Parsed => sources'[t] = {s \in Sources : leg'[q][s] # "none"}
        BY <1>1, <2>1, <2>2, <2>4, <3>1
      <3>3. QED BY <3>2 DEF t, OutcomeRecorded
    <2>5. CASE phase'[q] = "queued"
      BY <2>5 DEF OutcomeRecorded, Parsed
    <2>6. QED BY <1>1, <2>4, <2>5
  <1>4. QED BY <1>2, <1>3

\* Another run of the task whose parser found something is an earlier one.
LEMMA FoundIsEarlier ==
    ASSUME Unattended, SInv, NEW r \in Runs, phase[r] \notin {"free", "retried"},
           NEW q \in Runs, TaskOf(q) = TaskOf(r), q # r, Found(q) # {}
    PROVE  AttemptOf(q) < AttemptOf(r)
  <1>1. CASE Earlier(q, r)
    BY <1>1 DEF Earlier
  <1>2. CASE Earlier(r, q)
    <2>1. phase[q] = "free"
      BY <1>2 DEF SInv, Superseded
    <2>2. QED BY <2>1 DEF SInv, IInv, LegsMatchPhase, Found
  <1>3. QED BY <1>1, <1>2, RunsAreOrdered

\* A step of a run fails no file, and only its parser finds any.
LEMMA RunFound ==
    ASSUME SInv, NEW r \in Runs, RunStep(r) \/ RunFault(r), NEW q \in Runs
    PROVE  /\ FailedLegs(q)' = FailedLegs(q)
           /\ (q = r /\ ParseOk(r)) \/ Found(q)' = Found(q)
  <1>0. IInv /\ LegsUpdate(r) /\ leg \in [Runs -> [Sources -> Leg]]
    BY RunLegs DEF SInv, IInv, TypeOK
  <1>1. CASE q # r \/ leg' = leg
    BY <1>0, <1>1, OtherRuns DEF FailedLegs, Found
  <1>2. CASE q = r /\ ParseOk(r)
    <2>1. \A s \in Sources : leg[r][s] # "bad"
      BY <1>0, <1>2 DEF ParseOk, Advance, IInv, LegsMatchPhase
    <2>2. \A s \in Sources : leg'[r][s] # "bad"
      BY <1>0, <1>2 DEF ParseOk
    <2>3. QED BY <1>2, <2>1, <2>2 DEF FailedLegs
  <1>3. CASE q = r /\ ~ParseOk(r) /\ leg' # leg
    <2>1. phase[r] # "parsing"
      BY <1>3 DEF RunStep, RunFault, StartParse, ParseFail, MarkDownloading, Schedule,
         MarkParseFailed, RecordParseError, RouteRetry, RouteDead, ChordFires, FinalizeFailed,
         FinalizeSucceeded, ReportFailure, ReportSuccess, RecordOutcome, ParseDatabaseError,
         ScheduleFail, RouteFail, LoseRun, LoseScheduling, Advance, legVars
    <2>2. PICK S \in SUBSET Planned(r) :
            leg' = [leg EXCEPT ![r] = [s \in Sources |-> IF s \in S THEN "dl_queued" ELSE leg[r][s]]]
      BY <1>0, <1>3, <2>1 DEF LegsUpdate
    <2>3. \A s \in Sources : leg'[r][s] = IF s \in S THEN "dl_queued" ELSE leg[r][s]
      BY <1>0, <2>2
    <2>4. \A s \in S : leg[r][s] = "planned"
      BY DEF Planned
    <2>5. QED BY <1>3, <2>3, <2>4 DEF FailedLegs, Found
  <1>4. QED BY <1>1, <1>2, <1>3

LEMMA RunLegsOfPhases ==
    ASSUME Unattended, SInv, NEW r \in Runs, RunStep(r) \/ RunFault(r)
    PROVE  LegsOfPhases'
  <1>0. /\ TypeOK /\ IInv /\ LegsOfPhase(r) /\ OutcomeRecorded(r) /\ LegsMatchPhase
        /\ FailedLegs(r)' = FailedLegs(r)
        /\ ParseOk(r) \/ Found(r)' = Found(r)
    BY RunFound DEF SInv, IInv, OutcomesRecorded, LegsOfPhases
  <1>1. ASSUME NEW q \in Runs, q # r PROVE LegsOfPhase(q)'
    <2>1. /\ phase'[q] = phase[q] \/ phase'[q] = "queued"
          /\ FailedLegs(q)' = FailedLegs(q) /\ Found(q)' = Found(q)
      BY <1>0, <1>1, OtherRuns, RunFound
    <2>2. QED BY <2>1 DEF SInv, LegsOfPhases, LegsOfPhase
  <1>2. LegsOfPhase(r)'
    <2>1. CASE /\ phase'[r] \in {"parsed", "scheduling", "parse_failed", "parse_marked"}
               /\ phase[r] \in {"queued", "parsing", "parsed", "scheduling", "parse_failed",
                                 "parse_marked"}
      <3>1. FailedLegs(r) = {}
        BY <1>0, <2>1 DEF LegsOfPhase, LegsMatchPhase, FailedLegs
      <3>2. QED BY <1>0, <2>1, <3>1 DEF LegsOfPhase
    <2>2. CASE phase'[r] = "final_ok" /\ phase[r] = "finalize_queued"
      <3>1. Found(r) # {} /\ ~ParseOk(r)
        BY <1>0, <2>2 DEF LegsMatchPhase, Found, ParseOk, Advance
      <3>2. QED BY <1>0, <2>2, <3>1 DEF LegsOfPhase
    <2>3. CASE phase'[r] \notin {"parsed", "scheduling", "parse_failed", "parse_marked", "final_ok"}
      BY <2>3 DEF LegsOfPhase
    <2> USE DEF TypeOK, Advance
    <2>4. CASE phase' = [phase EXCEPT ![r] = "parse_failed"]
      <3>1. phase[r] \in {"parsing", "queued", "parsed", "scheduling"}
        BY <1>0, <2>4 DEF RunStep, RunFault, StartParse, ParseOk, ParseFail, MarkDownloading,
           Schedule, MarkParseFailed, RecordParseError, RouteRetry, RouteDead, ChordFires,
           FinalizeFailed, FinalizeSucceeded, ReportFailure, ReportSuccess, RecordOutcome,
           ParseDatabaseError, ScheduleFail, RouteFail, LoseRun, LoseScheduling
      <3>2. QED BY <1>0, <2>1, <2>4, <3>1
    <2>5. CASE \/ StartParse(r) \/ ParseOk(r) \/ MarkDownloading(r) \/ Schedule(r)
               \/ MarkParseFailed(r) \/ RecordParseError(r) \/ RouteDead(r) \/ ChordFires(r)
               \/ FinalizeFailed(r) \/ FinalizeSucceeded(r) \/ ReportFailure(r)
               \/ ReportSuccess(r) \/ RouteFail(r) \/ LoseRun(r) \/ LoseScheduling(r)
      BY <1>0, <2>1, <2>2, <2>3, <2>5
         DEF StartParse, ParseOk, MarkDownloading, Schedule, MarkParseFailed, RecordParseError,
             RouteDead, ChordFires, FinalizeFailed, FinalizeSucceeded, ReportFailure,
             ReportSuccess, RecordOutcome, RouteFail, LoseRun, LoseScheduling
    <2>6. CASE RouteRetry(r)
      <3>1. RetryOf(r) # r /\ RetryOf(r) \in Runs
        BY <2>6, RunFacts, RetryIsAnother DEF RouteRetry
      <3>2. phase'[r] = "retried"
        BY <1>0, <2>6, <3>1 DEF RouteRetry
      <3>3. QED BY <2>3, <3>2
    <2>7. CASE ParseFail(r) \/ ParseDatabaseError(r) \/ ScheduleFail(r)
      BY <2>4, <2>7 DEF ParseFail, ParseDatabaseError, ScheduleFail
    <2>8. QED BY <2>5, <2>6, <2>7 DEF RunStep, RunFault
  <1>3. QED BY <1>1, <1>2 DEF LegsOfPhases

\* A record stays right while neither it nor what was found and failed changes, and no
\* run comes to another outcome.
LEMMA ShownStays ==
    ASSUME NEW t \in Tasks, ShowsLastParse(t),
           sources'[t] = sources[t], artifacts'[t] = artifacts[t],
           \A q \in Runs : TaskOf(q) = t =>
             /\ Found(q)' = Found(q)
             /\ \/ phase'[q] = "dropped"
                \/ phase[q] # "dropped" /\ Reported(q)' = Reported(q)
    PROVE  ShowsLastParse(t)'
  <1>1. ASSUME NEW q \in Runs, TaskOf(q) = t
        PROVE  LastFound(q)' => LastFound(q)
    BY <1>1 DEF LastFound
  <1>2. ASSUME NEW q \in Runs, TaskOf(q) = t, LastFound(q)'
        PROVE  sources'[t] = Found(q)' /\ (phase'[q] # "dropped" => artifacts'[t] = Reported(q)')
    BY <1>1, <1>2 DEF ShowsLastParse
  <1>3. (\A q \in Runs : TaskOf(q) = t => Found(q)' = {}) => sources'[t] = {} /\ artifacts'[t] = {}
    BY DEF ShowsLastParse
  <1>4. QED BY <1>2, <1>3 DEF ShowsLastParse

\* The steps between parse and report do not change what a run has reported.
LEMMA OwnReport ==
    ASSUME SInv, NEW r \in Runs, RunStep(r) \/ RunFault(r),
           ~ParseOk(r), ~ReportFailure(r), ~ReportSuccess(r)
    PROVE  /\ sources' = sources /\ artifacts' = artifacts
           /\ \/ phase'[r] = "dropped"
              \/ phase[r] # "dropped" /\ Reported(r)' = Reported(r)
  <1>0. /\ TypeOK /\ LegsOfPhase(r) /\ FailedLegs(r)' = FailedLegs(r)
        /\ phase[r] \in Owing \cup Settled
    BY RunFound, RunPhaseStep DEF SInv, IInv, LegsOfPhases
  <1>1. sources' = sources /\ artifacts' = artifacts
    BY DEF RunStep, RunFault, StartParse, ParseFail, MarkDownloading, Schedule,
       MarkParseFailed, RecordParseError, RouteRetry, RouteDead, ChordFires, FinalizeFailed,
       FinalizeSucceeded, ParseDatabaseError, ScheduleFail, RouteFail, LoseRun,
       LoseScheduling, docVars, reportVars
  <1>2. CASE RecordParseError(r)
    <2>1. phase[r] = "parse_marked" /\ phase'[r] = "routing" /\ FailedLegs(r) = {}
      BY <1>0, <1>2 DEF RecordParseError, Advance, TypeOK, LegsOfPhase
    <2>2. QED BY <1>0, <1>1, <2>1 DEF Reported
  <1>3. CASE RouteRetry(r) \/ RouteDead(r)
    <2>1. phase[r] = "routing" /\ phase'[r] \in {"retried", "dead"}
      BY <1>0, <1>3, RunFacts, RetryIsAnother DEF RouteRetry, RouteDead, Advance, TypeOK
    <2>2. QED BY <1>0, <1>1, <2>1 DEF Reported
  <1>4. CASE ~RecordParseError(r) /\ ~RouteRetry(r) /\ ~RouteDead(r)
    <2>1. \/ phase'[r] = "dropped"
          \/ /\ phase[r] \notin {"succeeded", "routing", "dead", "retried", "dropped"}
             /\ phase'[r] \notin {"succeeded", "routing", "dead", "retried"}
      BY <1>0, <1>4 DEF RunStep, RunFault, StartParse, ParseFail, MarkDownloading, Schedule,
         MarkParseFailed, ChordFires, FinalizeFailed, FinalizeSucceeded, ParseDatabaseError,
         ScheduleFail, RouteFail, LoseRun, LoseScheduling, Advance, TypeOK, Owing, Settled
    <2>2. QED BY <1>1, <2>1 DEF Reported
  <1>5. QED BY <1>2, <1>3, <1>4, <1>1

LEMMA RunShowsLastParse ==
    ASSUME Unattended, SInv, NEW r \in Runs, RunStep(r) \/ RunFault(r)
    PROVE  RecordShowsLastParse'
  <1>0. /\ TypeOK /\ IInv /\ TaskOf(r) \in Tasks /\ phase[r] \notin {"free", "retried"}
        /\ \A t \in Tasks : ShowsLastParse(t)
    BY RunFacts, RunPhaseStep DEF SInv, IInv, RecordShowsLastParse, Owing, Settled
  <1>1. ASSUME NEW q \in Runs, q # r
        PROVE  /\ Found(q)' = Found(q)
               /\ \/ phase'[q] = "dropped"
                  \/ phase[q] # "dropped" /\ Reported(q)' = Reported(q)
    <2>1. Found(q)' = Found(q) /\ FailedLegs(q)' = FailedLegs(q)
      BY <1>1, RunFound
    <2>2. \/ phase'[q] = phase[q]
          \/ phase[q] = "free" /\ phase'[q] = "queued"
      BY <1>0, <1>1, OtherRuns
    <2>3. QED BY <2>1, <2>2 DEF Reported
  <1> SUFFICES ASSUME NEW t \in Tasks PROVE ShowsLastParse(t)'
    BY DEF RecordShowsLastParse
  <1>2. CASE t # TaskOf(r)
    <2>1. sources'[t] = sources[t] /\ artifacts'[t] = artifacts[t]
      BY <1>0, <1>2, RunRecord
    <2>2. QED BY <1>0, <1>1, <1>2, <2>1, ShownStays
  <1>3. CASE t = TaskOf(r) /\ ~ParseOk(r) /\ ~ReportFailure(r) /\ ~ReportSuccess(r)
    <2>1. /\ sources'[t] = sources[t] /\ artifacts'[t] = artifacts[t]
          /\ Found(r)' = Found(r)
          /\ \/ phase'[r] = "dropped"
             \/ phase[r] # "dropped" /\ Reported(r)' = Reported(r)
      BY <1>3, OwnReport, RunFound
    <2>2. QED BY <1>0, <1>1, <2>1, ShownStays
  <1>4. CASE /\ t = TaskOf(r)
             /\ Found(r)' # {} /\ sources'[t] = Found(r)'
             /\ phase'[r] # "dropped" => artifacts'[t] = Reported(r)'
    <2>1. ASSUME NEW q \in Runs, TaskOf(q) = t, LastFound(q)'
          PROVE  q = r
      <3> SUFFICES ASSUME q # r PROVE FALSE
        OBVIOUS
      <3>1. Found(q) # {}
        BY <1>1, <2>1 DEF LastFound
      <3>2. AttemptOf(q) < AttemptOf(r)
        BY <1>0, <1>4, <2>1, <3>1, FoundIsEarlier
      <3>3. AttemptOf(r) <= AttemptOf(q)
        BY <1>4, <2>1 DEF LastFound
      <3>4. AttemptOf(q) \in Int /\ AttemptOf(r) \in Int
        BY RunFacts, PipelineAssumption DEF Attempts
      <3>5. QED BY <3>2, <3>3, <3>4
    <2>2. ASSUME NEW q \in Runs, TaskOf(q) = t, LastFound(q)'
          PROVE  /\ sources'[t] = Found(q)'
                 /\ phase'[q] # "dropped" => artifacts'[t] = Reported(q)'
      BY <1>4, <2>1, <2>2
    <2>3. ~ \A q \in Runs : TaskOf(q) = t => Found(q)' = {}
      BY <1>4
    <2>4. QED BY <2>2, <2>3 DEF ShowsLastParse
  <1>5. CASE t = TaskOf(r) /\ ParseOk(r)
    <2>1. PICK found \in (SUBSET Sources) \ {{}} :
            /\ leg' = [leg EXCEPT ![r] =
                         [s \in Sources |-> IF s \in found THEN "planned" ELSE "none"]]
            /\ sources' = [sources EXCEPT ![TaskOf(r)] = found]
      BY <1>5 DEF ParseOk
    <2>2. Found(r)' = found
      <3>1. \A s \in Sources : leg'[r][s] = IF s \in found THEN "planned" ELSE "none"
        BY <1>0, <2>1 DEF TypeOK
      <3>2. QED BY <3>1 DEF Found
    <2>3. sources'[t] = found /\ artifacts'[t] = {} /\ phase'[r] = "parsed"
      BY <1>0, <1>5, <2>1 DEF TypeOK, ParseOk, Advance
    <2>4. Reported(r)' = {}
      BY <2>3 DEF Reported
    <2>5. QED BY <1>4, <1>5, <2>2, <2>3, <2>4
  <1>6. CASE t = TaskOf(r) /\ (ReportFailure(r) \/ ReportSuccess(r))
    <2>1. /\ phase[r] \in {"final_failed", "final_ok"} /\ ~ParseOk(r)
          /\ phase[r] = "final_failed" => phase'[r] = "routing"
          /\ phase[r] = "final_ok" => phase'[r] = "succeeded"
          /\ sources' = sources /\ artifacts'[t] = {r}
      BY <1>0, <1>6
         DEF ReportFailure, ReportSuccess, RecordOutcome, Advance, ParseOk, TypeOK
    <2>2. /\ Found(r)' = Found(r) /\ FailedLegs(r)' = FailedLegs(r)
      BY <2>1, RunFound
    <2>3. Found(r) # {} /\ (phase[r] = "final_failed" => FailedLegs(r) # {})
      BY <2>1 DEF SInv, LegsOfPhases, LegsOfPhase, OutcomesRecorded, OutcomeRecorded, Found,
         FailedLegs
    <2>4. Reported(r)' = {r}
      BY <2>1, <2>2, <2>3 DEF Reported
    <2>5. sources[t] = Found(r)
      <3>1. LastFound(r)
        <4>1. \A q \in Runs : TaskOf(q) = TaskOf(r) /\ q # r /\ Found(q) # {} =>
                AttemptOf(q) < AttemptOf(r)
          BY <1>0, FoundIsEarlier
        <4>2. \A q \in Runs : AttemptOf(q) \in Int
          BY RunFacts, PipelineAssumption DEF Attempts
        <4>3. QED BY <2>3, <4>1, <4>2 DEF LastFound
      <3>2. QED BY <1>0, <1>6, <3>1 DEF ShowsLastParse
    <2>6. QED BY <1>4, <1>6, <2>1, <2>2, <2>3, <2>4, <2>5
  <1>7. QED BY <1>2, <1>3, <1>5, <1>6

(***************************************************************************)
(* Steps of a leg                                                          *)
(***************************************************************************)

\* A leg changes one leg of a run that waits or was lost, and the status at most.
LEMMA LegRecord ==
    ASSUME SInv, NEW r \in Runs, NEW s \in Sources, LegStep(r, s) \/ LoseLeg(r, s)
    PROVE  /\ phase[r] \in {"fanned_out", "lost"}
           /\ phase' = phase /\ request' = request
           /\ \A q \in Runs : q # r => leg'[q] = leg[q]
           /\ \A q \in Runs : LegsActive(q)' => LegsActive(q)
           /\ UNCHANGED <<sources, artifacts, lastError>>
           /\ \A t \in Tasks : t # TaskOf(r) => status'[t] = status[t]
           /\ FailedLegs(r) # {} => FailedLegs(r)' # {}
           /\ \A p \in Sources : leg[r][p] = "none" <=> leg'[r][p] = "none"
  <1>0. /\ TypeOK /\ LegsNeedRun /\ phase' = phase /\ request' = request
        /\ leg \in [Runs -> [Sources -> Leg]]
        /\ leg[r][s] \in LegActive /\ LegsActive(r)
    BY LegFrame DEF SInv, IInv, TypeOK, LegsActive
  <1>1. PICK to \in (LegActive \ {"dl_queued"}) \cup {"ok", "bad", "lost"} :
          leg' = [leg EXCEPT ![r][s] = to]
    BY <1>0, LegFrame
  <1>2. UNCHANGED <<sources, artifacts, lastError>>
    BY DEF LegStep, StartDownload, FinishDownload, SkipUpload, StartUpload, UploadOk,
       UploadFail, LoseLeg, docVars, reportVars
  <1>3. \A t \in Tasks : t # TaskOf(r) => status'[t] = status[t]
    BY <1>0, LegStatus DEF TypeOK
  <1>4. \A q \in Runs : q # r => leg'[q] = leg[q]
    BY <1>0, <1>1
  <1>5. \A q \in Runs : LegsActive(q)' => LegsActive(q)
    BY <1>0, <1>4 DEF LegsActive
  <1>6. \A p \in Sources : p # s => leg'[r][p] = leg[r][p]
    BY <1>0, <1>1
  <1>7. leg'[r][s] = to
    BY <1>0, <1>1
  <1>8. FailedLegs(r) # {} => FailedLegs(r)' # {}
    BY <1>0, <1>6 DEF FailedLegs, LegActive
  <1>9. \A p \in Sources : leg[r][p] = "none" <=> leg'[r][p] = "none"
    BY <1>0, <1>6, <1>7 DEF LegActive
  <1>10. QED BY <1>0, <1>2, <1>3, <1>4, <1>5, <1>8, <1>9 DEF LegsNeedRun

LEMMA LegKeepsSuccess ==
    ASSUME Unattended, SInv, NEW r \in Runs, NEW s \in Sources, LegStep(r, s) \/ LoseLeg(r, s),
           NEW t \in Tasks, status[t] = "SUCCEEDED"
    PROVE  status'[t] = "SUCCEEDED"
  <1>1. CASE t # TaskOf(r)
    BY <1>1, LegRecord
  <1>2. CASE t = TaskOf(r)
    <2>1. PICK q \in Runs : TaskOf(q) = t /\ phase[q] \in {"final_ok", "succeeded", "dropped"}
      BY DEF SInv, SuccessHasRun
    <2>2. phase[r] \in {"fanned_out", "lost"}
      BY LegRecord
    <2>3. QED BY <1>2, <2>1, <2>2, Alone
  <1>3. QED BY <1>1, <1>2

LEMMA LegSInv ==
    ASSUME Unattended, SInv, IInv', NEW r \in Runs, NEW s \in Sources,
           LegStep(r, s) \/ LoseLeg(r, s)
    PROVE  SInv'
  <1>0. /\ IInv /\ Superseded /\ LegsNeedRun /\ RecordIsRequested /\ SuccessHasRun
        /\ OutcomesRecorded /\ LegsOfPhases /\ RecordShowsLastParse
        /\ phase[r] \in {"fanned_out", "lost"} /\ phase' = phase /\ request' = request
        /\ status \in [Tasks -> {"NONE"} \cup Working \cup Terminal]
        /\ artifacts \in [Tasks -> SUBSET Runs]
    BY LegRecord DEF SInv, IInv, TypeOK
  <1>1. Superseded'
    BY <1>0, LegRecord DEF Superseded, Earlier
  <1>2. LegsNeedRun'
    BY <1>0, LegRecord DEF LegsNeedRun
  <1>3. RecordIsRequested'
    BY <1>0, LegRecord, RunIsRequested DEF RecordIsRequested
  <1>4. SuccessHasRun'
    <2>1. \A t \in Tasks : status'[t] = "SUCCEEDED" => status[t] = "SUCCEEDED"
      BY <1>0, LegStatus, RunFacts DEF Working, IInv
    <2>2. QED BY <1>0, <2>1 DEF SuccessHasRun
  <1>5. OutcomesRecorded'
    <2> SUFFICES ASSUME NEW q \in Runs PROVE OutcomeRecorded(q)'
      BY DEF OutcomesRecorded
    <2>1. UNCHANGED <<sources, artifacts, lastError>> /\ OutcomeRecorded(q)
      BY <1>0, LegRecord DEF OutcomesRecorded
    <2>2. CASE q = r
      <3>1. \A p \in Sources : leg[r][p] = "none" <=> leg'[r][p] = "none"
        BY LegRecord
      <3>2. QED BY <1>0, <2>1, <2>2, <3>1 DEF OutcomeRecorded, Parsed
    <2>3. CASE q # r /\ TaskOf(q) = TaskOf(r)
      <3>1. phase[q] \in {"free", "retried"}
        BY <1>0, <2>3, Alone
      <3>2. QED BY <1>0, <3>1 DEF OutcomeRecorded, Parsed
    <2>4. CASE q # r /\ TaskOf(q) # TaskOf(r)
      <3>1. leg'[q] = leg[q] /\ status'[TaskOf(q)] = status[TaskOf(q)]
        BY <2>4, LegRecord, RunFacts
      <3>2. HeaderDone(q)' = HeaderDone(q) /\ FailedLegs(q)' = FailedLegs(q)
        BY <3>1 DEF HeaderDone, FailedLegs
      <3>3. QED BY <1>0, <2>1, <3>1, <3>2 DEF OutcomeRecorded
    <2>5. QED BY <2>2, <2>3, <2>4
  <1>6. ASSUME NEW q \in Runs
        PROVE  /\ Found(q)' = Found(q) /\ Reported(q)' = Reported(q)
               /\ q # r => FailedLegs(q)' = FailedLegs(q)
    <2>1. Found(q)' = Found(q) /\ (q # r => FailedLegs(q)' = FailedLegs(q))
      BY LegRecord DEF Found, FailedLegs
    <2>2. QED BY <1>0, <2>1 DEF Reported
  <1>7. LegsOfPhases'
    BY <1>0, <1>6 DEF LegsOfPhases, LegsOfPhase
  <1>8. RecordShowsLastParse'
    <2> SUFFICES ASSUME NEW t \in Tasks PROVE ShowsLastParse(t)'
      BY DEF RecordShowsLastParse
    <2>1. sources' = sources /\ artifacts' = artifacts
      BY LegRecord
    <2>2. QED BY <1>0, <1>6, <2>1, ShownStays DEF RecordShowsLastParse
  <1>9. QED BY <1>1, <1>2, <1>3, <1>4, <1>5, <1>7, <1>8 DEF SInv

(***************************************************************************)
(* Steps of task creation                                                  *)
(***************************************************************************)

LEMMA CreationKeepsSuccess ==
    ASSUME SInv, NEW u \in Tasks, PublishCreated(Create, u) \/ CreateRecord(u),
           NEW t \in Tasks, status[t] = "SUCCEEDED"
    PROVE  status'[t] = "SUCCEEDED"
  <1>1. CASE PublishCreated(Create, u)
    BY <1>1 DEF PublishCreated, docVars
  <1>2. CASE CreateRecord(u)
    <2>1. status[u] = "NONE"
      BY <1>2 DEF CreateRecord, AdvanceRequest, SInv, RecordIsRequested
    <2>2. QED BY <1>2, <2>1 DEF CreateRecord, SetStatus, SInv, IInv, TypeOK
  <1>3. QED BY <1>1, <1>2

LEMMA CreationSInv ==
    ASSUME SInv, IInv', NEW u \in Tasks, PublishCreated(Create, u) \/ CreateRecord(u)
    PROVE  SInv'
  <1>0. /\ IInv /\ TypeOK /\ Superseded /\ LegsNeedRun /\ RecordIsRequested /\ SuccessHasRun
        /\ OutcomesRecorded /\ LegsOfPhases /\ RecordShowsLastParse /\ Create \in Origins
        /\ leg' = leg /\ UNCHANGED <<sources, artifacts, lastError>>
    BY DEF SInv, IInv, Origins, PublishCreated, CreateRecord, docVars, reportVars, legVars
  <1>1. ASSUME NEW q \in Runs
        PROVE  /\ LegsActive(q)' = LegsActive(q) /\ HeaderDone(q)' = HeaderDone(q)
               /\ FailedLegs(q)' = FailedLegs(q)
    BY <1>0 DEF LegsActive, HeaderDone, FailedLegs
  <1>2. ASSUME \A q \in Runs :
                 \/ phase'[q] = phase[q]
                 \/ /\ phase[q] = "free"
                    /\ phase'[q] = "queued"
        PROVE  LegsOfPhases' /\ RecordShowsLastParse'
    <2>1. ASSUME NEW q \in Runs
          PROVE  /\ Found(q)' = Found(q) /\ Reported(q)' = Reported(q)
                 /\ phase[q] = "dropped" <=> phase'[q] = "dropped"
      BY <1>0, <1>1, <1>2 DEF Found, Reported
    <2>2. LegsOfPhases'
      BY <1>0, <1>1, <1>2, <2>1 DEF LegsOfPhases, LegsOfPhase
    <2>3. ASSUME NEW t \in Tasks PROVE ShowsLastParse(t)'
      BY <1>0, <2>1, ShownStays DEF RecordShowsLastParse
    <2>4. QED BY <2>2, <2>3 DEF RecordShowsLastParse
  <1>3. CASE PublishCreated(Create, u)
    <2> DEFINE first == <<Create, u, 0>>
    <2>1. first \in Runs /\ TaskOf(first) = u /\ AttemptOf(first) = 0
      BY <1>0, FirstAttempt DEF AttemptOf
    <2>2. phase[first] = "free" /\ status' = status
      BY <1>0, <1>3 DEF PublishCreated, AdvanceRequest, IInv, PublishedOnce, docVars
    <2>3. /\ phase'[first] = "queued"
          /\ \A q \in Runs : q # first => phase'[q] = phase[q]
      BY <1>0, <1>3, <2>1 DEF PublishCreated, TypeOK
    <2>4. Superseded'
      <3>1. \A q \in Runs : ~Earlier(q, first)
        BY <2>1, PipelineAssumption DEF Earlier, AttemptOf, Runs, Attempts
      <3>2. \A p \in Runs : Earlier(first, p) => phase[p] = "free" /\ p # first
        BY <1>0, <2>1, <2>2, <3>1 DEF Superseded
      <3>3. ASSUME NEW q \in Runs, NEW p \in Runs, Earlier(q, p), phase'[p] # "free"
            PROVE  phase'[q] = "retried" /\ ~LegsActive(q)'
        <4>1. p # first /\ phase[p] # "free"
          BY <2>3, <3>1, <3>3
        <4>2. phase[q] = "retried" /\ ~LegsActive(q)
          BY <1>0, <3>3, <4>1 DEF Superseded
        <4>3. q # first
          BY <2>2, <4>2
        <4>4. QED BY <1>1, <2>3, <4>2, <4>3
      <3>4. QED BY <3>3 DEF Superseded, Earlier
    <2>5. LegsNeedRun'
      <3>1. \A q \in Runs : LegsActive(q)' => q # first /\ LegsActive(q)
        BY <1>0, <1>1, <2>1, <2>2 DEF LegsNeedRun
      <3>2. QED BY <1>0, <2>3, <3>1 DEF LegsNeedRun
    <2>6. RecordIsRequested'
      <3>1. \A t \in Tasks : request'[Create][t] = "idle" => request[Create][t] = "idle"
        BY <1>0, <1>3 DEF PublishCreated, AdvanceRequest, TypeOK
      <3>2. QED BY <1>0, <2>2, <3>1 DEF RecordIsRequested
    <2>7. SuccessHasRun'
      BY <1>0, <2>2, <2>3 DEF SuccessHasRun
    <2>8. OutcomesRecorded'
      <3>1. OutcomeRecorded(first)'
        BY <2>3 DEF OutcomeRecorded, Parsed
      <3>2. \A q \in Runs : q # first => OutcomeRecorded(q)'
        BY <1>0, <1>1, <2>2, <2>3 DEF OutcomesRecorded, OutcomeRecorded
      <3>3. QED BY <3>1, <3>2 DEF OutcomesRecorded
    <2>9. LegsOfPhases' /\ RecordShowsLastParse'
      BY <1>0, <1>1, <1>2, <2>2, <2>3
    <2>10. QED BY <2>4, <2>5, <2>6, <2>7, <2>8, <2>9 DEF SInv
  <1>4. CASE CreateRecord(u)
    <2>1. /\ phase' = phase /\ status' = [status EXCEPT ![u] = "QUEUED"]
          /\ request' = [request EXCEPT ![Create][u] = "marked"]
          /\ status[u] = "NONE"
      BY <1>0, <1>4 DEF CreateRecord, SetStatus, AdvanceRequest, RecordIsRequested
    <2>2. Superseded' /\ LegsNeedRun'
      BY <1>0, <1>1, <2>1 DEF Superseded, LegsNeedRun, Earlier
    <2>3. RecordIsRequested'
      BY <1>0, <2>1 DEF RecordIsRequested, TypeOK
    <2>4. SuccessHasRun'
      BY <1>0, <2>1 DEF SuccessHasRun, TypeOK
    <2>5. OutcomesRecorded'
      <3> SUFFICES ASSUME NEW q \in Runs PROVE OutcomeRecorded(q)'
        BY DEF OutcomesRecorded
      <3>1. CASE TaskOf(q) = u
        <4>1. phase[q] = "free"
          BY <1>0, <2>1, <3>1 DEF IInv, EventHasRecord
        <4>2. QED BY <2>1, <4>1 DEF OutcomeRecorded, Parsed
      <3>2. CASE TaskOf(q) # u
        <4>1. status'[TaskOf(q)] = status[TaskOf(q)]
          BY <1>0, <2>1, <3>2, RunFacts DEF TypeOK
        <4>2. QED BY <1>0, <1>1, <2>1, <4>1 DEF OutcomesRecorded, OutcomeRecorded
      <3>3. QED BY <3>1, <3>2
    <2>6. LegsOfPhases' /\ RecordShowsLastParse'
      BY <1>2, <2>1
    <2>7. QED BY <2>2, <2>3, <2>4, <2>5, <2>6 DEF SInv
  <1>5. QED BY <1>3, <1>4

(***************************************************************************)
(* The theorems                                                            *)
(***************************************************************************)

LEMMA InitSInv == Init => SInv
  <1> SUFFICES ASSUME Init PROVE SInv
    OBVIOUS
  <1>1. \A r \in Runs : phase[r] = "free" /\ ~LegsActive(r)
    BY DEF Init, LegsActive, LegActive
  <1>2. \A t \in Tasks : status[t] = "NONE" /\ artifacts[t] = {}
    BY DEF Init
  <1>3. Superseded /\ LegsNeedRun /\ OutcomesRecorded
    BY <1>1 DEF Superseded, LegsNeedRun, OutcomesRecorded, OutcomeRecorded, Parsed
  <1>4. RecordIsRequested /\ SuccessHasRun
    BY <1>2 DEF RecordIsRequested, SuccessHasRun
  <1>5. LegsOfPhases /\ RecordShowsLastParse
    <2>1. \A r \in Runs : Found(r) = {}
      BY DEF Init, Found
    <2>2. \A t \in Tasks : sources[t] = {} /\ artifacts[t] = {}
      BY DEF Init
    <2>3. QED BY <1>1, <2>1, <2>2
              DEF LegsOfPhases, LegsOfPhase, RecordShowsLastParse, ShowsLastParse, LastFound
  <1>6. QED BY <1>3, <1>4, <1>5, InitIInv DEF SInv

LEMMA SequentialStep ==
    ASSUME Unattended, SInv, [Next]_vars
    PROVE  /\ SInv'
           /\ \A t \in Tasks : status[t] = "SUCCEEDED" => status'[t] = "SUCCEEDED"
  <1>0. IInv'
    BY NextIInv DEF SInv
  <1>1. ASSUME NEW o \in Origins, NEW u \in Tasks,
               RequestStep(o, u) \/ AbortRequest(o, u) \/ CreateRecord(u)
                 \/ (o \in Admins /\ AdminList(o))
        PROVE  /\ SInv'
               /\ \A t \in Tasks : status[t] = "SUCCEEDED" => status'[t] = "SUCCEEDED"
    BY <1>0, <1>1, OnlyCreation, CreationSInv, CreationKeepsSuccess
  <1>2. ASSUME NEW r \in Runs, RunStep(r) \/ RunFault(r)
        PROVE  /\ SInv'
               /\ \A t \in Tasks : status[t] = "SUCCEEDED" => status'[t] = "SUCCEEDED"
    BY <1>0, <1>2, RunSuperseded, RunLegsNeedRun, RunRecordIsRequested, RunSuccessHasRun,
       RunOutcomesRecorded, RunLegsOfPhases,
       RunShowsLastParse, RunKeepsSuccess DEF SInv
  <1>3. ASSUME NEW r \in Runs, NEW s \in Sources, LegStep(r, s) \/ LoseLeg(r, s)
        PROVE  /\ SInv'
               /\ \A t \in Tasks : status[t] = "SUCCEEDED" => status'[t] = "SUCCEEDED"
    BY <1>0, <1>3, LegSInv, LegKeepsSuccess
  <1>4. CASE UNCHANGED vars
    <2>1. UNCHANGED <<status, sources, artifacts, lastError, request, phase, leg>>
      BY <1>4 DEF vars, docVars, legVars
    <2>2. Superseded' /\ LegsNeedRun' /\ RecordIsRequested' /\ SuccessHasRun'
      BY <2>1 DEF SInv, Superseded, LegsNeedRun, LegsActive, RecordIsRequested, SuccessHasRun,
         Earlier
    <2>3. OutcomesRecorded'
      BY <2>1 DEF SInv, OutcomesRecorded, OutcomeRecorded, HeaderDone, FailedLegs
    <2>4. LegsOfPhases' /\ RecordShowsLastParse'
      <3>1. ASSUME NEW q \in Runs
            PROVE  /\ Found(q)' = Found(q) /\ FailedLegs(q)' = FailedLegs(q)
                   /\ Reported(q)' = Reported(q) /\ phase'[q] = phase[q]
        BY <2>1 DEF Found, FailedLegs, Reported
      <3>2. LegsOfPhases'
        BY <3>1 DEF SInv, LegsOfPhases, LegsOfPhase
      <3>3. ASSUME NEW t \in Tasks PROVE ShowsLastParse(t)'
        BY <2>1, <3>1, ShownStays DEF SInv, RecordShowsLastParse
      <3>4. QED BY <3>2, <3>3 DEF RecordShowsLastParse
    <2>5. QED BY <1>0, <2>1, <2>2, <2>3, <2>4 DEF SInv
  <1>5. QED BY <1>1, <1>2, <1>3, <1>4, NextCases

\* What the three theorems below rest on: an attempt begins when those before it have
\* ended, and the record says of the current one what it has come to.
THEOREM SequentialInvariance == ASSUME Unattended PROVE Spec => []SInv
  <1>1. SInv /\ [Next]_vars => SInv'
    BY SequentialStep
  <1>2. QED BY <1>1, InitSInv, PTL DEF Spec

\* Without manual retries and broker failures, whatever dies: when an event is consumed
\* nothing of an earlier attempt is left to write over it.
THEOREM AttemptsNeverOverlap == ASSUME Unattended PROVE Spec => []OneRunAtATime
  <1>1. SInv => OneRunAtATime
    <2> SUFFICES ASSUME SInv, NEW q \in Runs, NEW r \in Runs, TaskOf(q) = TaskOf(r),
                        InFlight(q), InFlight(r)
                 PROVE  q = r
      BY DEF OneRunAtATime
    <2>1. phase[r] \notin {"free", "retried"}
      BY DEF SInv, LegsNeedRun, InFlight, Owing, Settled
    <2>2. QED BY <2>1, Alone DEF InFlight, Owing, Settled
  <1>2. QED BY <1>1, SequentialInvariance, PTL

\* Then the record at the end is not put together from several runs: that of a success
\* is its run's in every field; that of a failure has the status and last_error of the
\* last run, and both its sources and its artifacts of the last one that parsed.
THEOREM RecordIsOfLastParse == ASSUME Unattended PROVE Spec => []RecordMatchesRun
  <1>1. SInv => RecordMatchesRun
    <2> SUFFICES ASSUME SInv, NEW r \in Runs
                 PROVE  LET t == TaskOf(r) IN
                        /\ phase[r] = "succeeded" =>
                             /\ status[t] = "SUCCEEDED" /\ ~lastError[t]
                             /\ artifacts[t] = {r} /\ sources[t] = uploaded[r]
                        /\ phase[r] = "dead" =>
                             /\ status[t] = "FAILED" /\ lastError[t]
                             /\ \A q \in Runs : TaskOf(q) = t /\ LastFound(q) =>
                                  /\ sources[t] = Found(q)
                                  /\ artifacts[t] = IF FailedLegs(q) = {} THEN {} ELSE {q}
                             /\ (\A q \in Runs : TaskOf(q) = t => Found(q) = {}) =>
                                  sources[t] = {} /\ artifacts[t] = {}
      BY DEF RecordMatchesRun
    <2> DEFINE t == TaskOf(r)
    <2>0. TypeOK /\ OutcomeRecorded(r) /\ t \in Tasks /\ ShowsLastParse(t)
      BY RunFacts DEF SInv, IInv, OutcomesRecorded, RecordShowsLastParse
    <2>1. ASSUME phase[r] = "succeeded"
          PROVE  sources[t] = uploaded[r]
      <3>1. \A s \in Sources : leg[r][s] \in {"none", "ok"}
        BY <2>0, <2>1 DEF OutcomeRecorded, HeaderDone, FailedLegs
      <3>2. uploaded[r] = {s \in Sources : leg[r][s] # "none"}
        BY <2>0, <3>1 DEF SInv, IInv, UploadedMatchesLegs, TypeOK
      <3>3. QED BY <2>0, <2>1, <3>2 DEF OutcomeRecorded, Parsed
    <2>2. ASSUME phase[r] = "dead", NEW q \in Runs, TaskOf(q) = t, LastFound(q)
          PROVE  sources[t] = Found(q) /\ artifacts[t] = IF FailedLegs(q) = {} THEN {} ELSE {q}
      <3>1. phase[q] \in {"dead", "retried"}
        <4>1. CASE q = r
          BY <2>2, <4>1
        <4>2. CASE q # r
          <5>1. phase[q] \in {"free", "retried"}
            BY <2>2, <4>2, Alone
          <5>2. phase[q] # "free"
            BY <2>2 DEF SInv, IInv, LegsMatchPhase, LastFound, Found
          <5>3. QED BY <5>1, <5>2
        <4>3. QED BY <4>1, <4>2
      <3>2. sources[t] = Found(q) /\ artifacts[t] = Reported(q)
        BY <2>0, <2>2, <3>1 DEF ShowsLastParse
      <3>3. QED BY <3>1, <3>2 DEF Reported
    <2>3. QED BY <2>0, <2>1, <2>2 DEF OutcomeRecorded, ShowsLastParse
  <1>2. QED BY <1>1, SequentialInvariance, PTL

\* Then SUCCEEDED is never overwritten, by a straggling leg or by a late retry.
THEOREM SuccessIsFinal == ASSUME Unattended PROVE Spec => SucceededIsFinal
  <1>1. SInv /\ [Next]_vars =>
          [\A t \in Tasks : status[t] = "SUCCEEDED" => status'[t] = "SUCCEEDED"]_vars
    BY SequentialStep
  <1>2. QED BY <1>1, SequentialInvariance, PTL DEF Spec, SucceededIsFinal
=============================================================================
