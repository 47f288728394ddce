------------------------ MODULE CeleryPipeline_proofs ------------------------
(***************************************************************************)
(* Proofs about CeleryPipeline for any tasks, sources, admin requests,     *)
(* retry budget and faults.                                                *)
(***************************************************************************)
EXTENDS CeleryPipeline, TLAPS

(***************************************************************************)
(* Type correctness                                                        *)
(***************************************************************************)

\* Every actor keeps the record, the messages and the chords well-formed.
LEMMA RunFacts ==
    ASSUME NEW r \in Runs
    PROVE  /\ TaskOf(r) \in Tasks
           /\ AttemptOf(r) \in Attempts
           /\ r[1] \in Origins
           /\ r = <<r[1], r[2], r[3]>>
           /\ CanRetry(r) => RetryOf(r) \in Runs
  BY PipelineAssumption DEF Runs, TaskOf, AttemptOf, RetryOf, CanRetry, Attempts

LEMMA FirstAttempt ==
    ASSUME NEW o \in Origins, NEW t \in Tasks
    PROVE  <<o, t, 0>> \in Runs /\ TaskOf(<<o, t, 0>>) = t
  BY PipelineAssumption DEF Runs, TaskOf, Attempts

LEMMA InitTypeOK == Init => TypeOK
  BY DEF Init, TypeOK, Working, RequestState, Phase, Leg, Chord

LEMMA RequestTypeOK ==
    ASSUME TypeOK, NEW o \in Origins, NEW t \in Tasks,
           RequestStep(o, t) \/ AbortRequest(o, t) \/ CreateRecord(t)
             \/ (o \in Admins /\ AdminList(o))
    PROVE  TypeOK'
  <1>0. Create \in Origins /\ Admins \subseteq Origins
    BY DEF Origins
  <1>1. CASE PublishCreated(o, t)
    BY <1>1, FirstAttempt DEF TypeOK, PublishCreated, AdvanceRequest, docVars, legVars,
       RequestState, Phase, Owing
  <1>2. CASE o \in Admins /\ AdminMark(o, t)
    BY <1>2 DEF TypeOK, AdminMark, AdvanceRequest, SetStatus, reportVars, legVars,
       RequestState, Working
  <1>3. CASE AbortRequest(o, t)
    <2>1. request' \in [Origins -> [Tasks -> RequestState]]
      BY <1>3 DEF TypeOK, AbortRequest, RequestState
    <2>2. QED BY <1>3, <2>1 DEF TypeOK, AbortRequest, docVars, legVars
  <1>4. CASE CreateRecord(t)
    BY <1>0, <1>4 DEF TypeOK, CreateRecord, AdvanceRequest, SetStatus, reportVars, legVars,
       RequestState, Working
  <1>5. CASE o \in Admins /\ AdminList(o)
    <2>1. PICK S \in SUBSET Tasks :
            request' = [request EXCEPT ![o] =
                          [u \in Tasks |-> IF u \in S THEN "listed" ELSE "idle"]]
      BY <1>5 DEF AdminList
    <2>2. request' \in [Origins -> [Tasks -> RequestState]]
      BY <2>1 DEF TypeOK, RequestState
    <2>3. QED BY <1>5, <2>2 DEF TypeOK, AdminList, docVars, legVars
  <1>6. QED BY <1>1, <1>2, <1>3, <1>4, <1>5 DEF RequestStep

LEMMA RunTypeOK ==
    ASSUME TypeOK, NEW r \in Runs, RunStep(r)
    PROVE  TypeOK'
  <1>0. TaskOf(r) \in Tasks /\ (CanRetry(r) => RetryOf(r) \in Runs)
    BY RunFacts
  <1> USE DEF TypeOK, Advance, docVars, reportVars, legVars
  <1>1. CASE StartParse(r)
    BY <1>0, <1>1 DEF StartParse, SetStatus, Phase, Owing, Working
  <1>2. CASE ParseOk(r)
    <2>1. PICK found \in SUBSET Sources :
            /\ leg' = [leg EXCEPT ![r] =
                         [s \in Sources |-> IF s \in found THEN "planned" ELSE "none"]]
            /\ sources' = [sources EXCEPT ![TaskOf(r)] = found]
      BY <1>2 DEF ParseOk
    <2>2. leg' \in [Runs -> [Sources -> Leg]]
      BY <2>1 DEF Leg
    <2>3. QED BY <1>0, <1>2, <2>1, <2>2 DEF ParseOk, Phase, Owing
  <1>3. CASE ParseFail(r)
    BY <1>3 DEF ParseFail, Phase, Owing
  <1>4. CASE MarkDownloading(r)
    BY <1>0, <1>4 DEF MarkDownloading, SetStatus, Phase, Owing, Working
  <1>5. CASE Schedule(r)
    <2>1. leg' \in [Runs -> [Sources -> Leg]]
      BY <1>5 DEF Schedule, QueueLegs, Leg, LegActive
    <2>2. QED BY <1>5, <2>1 DEF Schedule, Phase, Owing, Chord
  <1>6. CASE MarkParseFailed(r)
    BY <1>0, <1>6 DEF MarkParseFailed, SetStatus, Phase, Settled, Terminal
  <1>7. CASE RecordParseError(r)
    BY <1>0, <1>7 DEF RecordParseError, Phase, Settled
  <1>8. CASE RouteRetry(r)
    BY <1>0, <1>8 DEF RouteRetry, Phase, Owing
  <1>9. CASE RouteDead(r)
    BY <1>9 DEF RouteDead, Phase
  <1>10. CASE ChordFires(r)
    BY <1>10 DEF ChordFires, Phase, Owing, Chord
  <1>11. CASE FinalizeFailed(r)
    BY <1>0, <1>11 DEF FinalizeFailed, SetStatus, Phase, Settled, Terminal
  <1>12. CASE FinalizeSucceeded(r)
    BY <1>0, <1>12 DEF FinalizeSucceeded, SetStatus, Phase, Settled, Terminal
  <1>13. ASSUME NEW from, NEW to \in Phase, NEW failed \in BOOLEAN,
                RecordOutcome(r, from, to, failed)
         PROVE  TypeOK'
    <2>1. phase' \in [Runs -> Phase]
      BY <1>13 DEF RecordOutcome
    <2>2. artifacts' \in [Tasks -> SUBSET Runs]
      BY <1>0, <1>13 DEF RecordOutcome
    <2>3. lastError' \in [Tasks -> BOOLEAN]
      BY <1>0, <1>13, Zenon DEF RecordOutcome
    <2>4. QED BY <1>13, <2>1, <2>2, <2>3 DEF RecordOutcome
  <1>14. CASE ReportFailure(r) \/ ReportSuccess(r)
    BY <1>13, <1>14 DEF ReportFailure, ReportSuccess, Phase, Settled
  <1>15. QED
    BY <1>1, <1>2, <1>3, <1>4, <1>5, <1>6, <1>7, <1>8, <1>9, <1>10, <1>11, <1>12,
       <1>13, <1>14 DEF RunStep

LEMMA LegTypeOK ==
    ASSUME TypeOK, NEW r \in Runs, NEW s \in Sources, LegStep(r, s) \/ LoseLeg(r, s)
    PROVE  TypeOK'
  <1>0. TaskOf(r) \in Tasks
    BY RunFacts
  <1> USE DEF TypeOK, AdvanceLeg, docVars, reportVars, Leg, LegActive
  <1>1. CASE StartDownload(r, s)
    BY <1>0, <1>1 DEF StartDownload, SetStatus, Working
  <1>2. CASE FinishDownload(r, s)
    BY <1>2 DEF FinishDownload
  <1>3. CASE SkipUpload(r, s)
    BY <1>3 DEF SkipUpload
  <1>4. CASE StartUpload(r, s)
    BY <1>0, <1>4 DEF StartUpload, SetStatus, Working
  <1>5. CASE UploadOk(r, s)
    BY <1>5 DEF UploadOk
  <1>6. CASE UploadFail(r, s)
    BY <1>6 DEF UploadFail
  <1>7. CASE LoseLeg(r, s)
    <2>1. leg' \in [Runs -> [Sources -> Leg]]
      BY <1>7 DEF LoseLeg
    <2>2. chord' \in [Runs -> Chord]
      BY <1>7 DEF LoseLeg, Chord
    <2>3. uploaded' \in [Runs -> SUBSET Sources]
      <3>1. CASE uploaded' = uploaded
        BY <3>1
      <3>2. CASE uploaded' = [uploaded EXCEPT ![r] = uploaded[r] \cup {s}]
        <4>1. uploaded \in [Runs -> SUBSET Sources]
          OBVIOUS
        <4>2. uploaded[r] \cup {s} \in SUBSET Sources
          BY <4>1
        <4>3. QED BY ONLY <4>1, <4>2, <3>2, r \in Runs
      <3>3. QED BY <1>7, <3>1, <3>2 DEF LoseLeg
    <2>4. UNCHANGED <<docVars, request, phase>>
      BY <1>7 DEF LoseLeg
    <2>5. QED BY <2>1, <2>2, <2>3, <2>4
  <1>8. QED BY <1>1, <1>2, <1>3, <1>4, <1>5, <1>6, <1>7 DEF LegStep

\* The faults that hit the event of a run.
RunFault(r) == \/ ParseDatabaseError(r) \/ ScheduleFail(r) \/ RouteFail(r)
               \/ LoseRun(r) \/ LoseScheduling(r)

LEMMA FaultTypeOK ==
    ASSUME TypeOK, NEW r \in Runs, RunFault(r)
    PROVE  TypeOK'
  <1> USE DEF TypeOK, Advance, docVars, legVars, Phase, Owing
  <1>1. CASE ParseDatabaseError(r)
    BY <1>1 DEF ParseDatabaseError
  <1>2. ASSUME \E S \in SUBSET Planned(r) : QueueLegs(r, S)
        PROVE  leg' \in [Runs -> [Sources -> Leg]]
    BY <1>2 DEF QueueLegs, Planned, Leg, LegActive
  <1>3. CASE ScheduleFail(r)
    BY <1>2, <1>3 DEF ScheduleFail, Chord
  <1>4. CASE RouteFail(r)
    BY <1>4 DEF RouteFail
  <1>5. CASE LoseRun(r)
    BY <1>5 DEF LoseRun
  <1>6. CASE LoseScheduling(r)
    BY <1>2, <1>6 DEF LoseScheduling, Chord
  <1>7. QED BY <1>1, <1>3, <1>4, <1>5, <1>6 DEF RunFault

\* A step is one of an API request, a run, a leg, or a fault of one of them.
LEMMA NextCases ==
    ASSUME Next
    PROVE  \/ \E o \in Origins, t \in Tasks :
                \/ RequestStep(o, t) \/ AbortRequest(o, t) \/ CreateRecord(t)
                \/ (o \in Admins /\ AdminList(o))
           \/ \E r \in Runs : RunStep(r) \/ RunFault(r)
           \/ \E r \in Runs, s \in Sources : LegStep(r, s) \/ LoseLeg(r, s)
  <1>0. Create \in Origins /\ Admins \subseteq Origins
    BY DEF Origins
  <1>1. CASE System
    BY <1>1 DEF System
  <1>2. CASE \E t \in Tasks : CreateRecord(t)
    BY <1>0, <1>2
  <1>3. ASSUME NEW a \in Admins, AdminList(a)
        PROVE  \E t \in Tasks : a \in Origins /\ AdminList(a)
    BY <1>0, <1>3 DEF AdminList
  <1>4. CASE Failures
    BY <1>4 DEF Failures, RunFault
  <1>5. QED BY <1>1, <1>2, <1>3, <1>4 DEF Next, Clients

LEMMA NextTypeOK == TypeOK /\ [Next]_vars => TypeOK'
  <1> SUFFICES ASSUME TypeOK, [Next]_vars PROVE TypeOK'
    OBVIOUS
  <1>1. CASE Next
    BY <1>1, NextCases, RequestTypeOK, RunTypeOK, LegTypeOK, FaultTypeOK
  <1>2. CASE UNCHANGED vars
    BY <1>2 DEF vars, docVars, legVars, TypeOK
  <1>3. QED BY <1>1, <1>2

\* The type invariant of the pipeline, for any constants.
THEOREM TypeCorrect == Spec => []TypeOK
  BY InitTypeOK, NextTypeOK, PTL DEF Spec
(***************************************************************************)
(* The inductive invariant                                                 *)
(***************************************************************************)

LEMMA InitIInv == Init => IInv
  <1> SUFFICES ASSUME Init PROVE IInv
    OBVIOUS
  <1>1. TypeOK
    BY InitTypeOK
  <1>2. \A r \in Runs : phase[r] = "free" /\ chord[r] = "none" /\ uploaded[r] = {}
                        /\ \A s \in Sources : leg[r][s] = "none"
    BY DEF Init
  <1>3. \A t \in Tasks : status[t] = "NONE" /\ \A o \in Origins : request[o][t] = "idle"
    BY DEF Init
  <1>4. LegsHaveChord /\ LegsMatchPhase /\ UploadedMatchesLegs
    BY <1>2 DEF LegsHaveChord, LegActive, LegsMatchPhase, UploadedMatchesLegs
  <1>5. PublishedOnce
    BY <1>2, FirstAttempt, RunFacts DEF PublishedOnce
  <1>6. RequestHasRecord /\ StatusHasOwner /\ SucceededIsUploaded
    BY <1>3 DEF RequestHasRecord, StatusHasOwner, Working, SucceededIsUploaded
  <1>7. EventHasRecord /\ RetryBudget
    BY <1>2 DEF EventHasRecord, RetryBudget
  <1>8. QED BY <1>1, <1>4, <1>5, <1>6, <1>7 DEF IInv

\* What a step of the event of a run does to the phases of all runs: it moves its
\* own run out of a phase that is not final, and at most frees its retry.
PhaseStep(r) ==
    \/ \E to \in {"retried", "dead", "succeeded", "lost", "dropped", "parse_failed"}
                 \cup Settled :
         phase' = [phase EXCEPT ![r] = to]
    \/ phase[r] = "queued" /\ phase' = [phase EXCEPT ![r] = "parsing"]
    \/ /\ phase[r] = "parsing" /\ phase' = [phase EXCEPT ![r] = "parsed"]
       /\ \E s \in Sources : leg'[r][s] = "planned"
    \/ phase[r] = "parsed" /\ phase' = [phase EXCEPT ![r] = "scheduling"]
    \/ phase[r] = "scheduling" /\ phase' = [phase EXCEPT ![r] = "fanned_out"]
    \/ /\ phase[r] = "fanned_out" /\ phase' = [phase EXCEPT ![r] = "finalize_queued"]
       /\ HeaderDone(r) /\ leg' = leg
    \/ /\ phase[r] = "routing" /\ CanRetry(r)
       /\ phase' = [phase EXCEPT ![r] = "retried", ![RetryOf(r)] = "queued"]

LEMMA RunPhaseStep ==
    ASSUME TypeOK, NEW r \in Runs, RunStep(r) \/ RunFault(r)
    PROVE  /\ PhaseStep(r)
           /\ phase[r] \in Owing \cup Settled
           /\ request' = request
  <1> USE DEF Advance, Owing, Settled, Phase, PhaseStep
  <1>1. CASE StartParse(r)       BY <1>1 DEF StartParse
  <1>2. CASE ParseOk(r)
    <2>1. \E s \in Sources : leg'[r][s] = "planned"
      BY <1>2 DEF ParseOk, TypeOK
    <2>2. QED BY <1>2, <2>1 DEF ParseOk
  <1>3. CASE ParseFail(r)        BY <1>3 DEF ParseFail
  <1>4. CASE MarkDownloading(r)  BY <1>4 DEF MarkDownloading
  <1>5. CASE Schedule(r)         BY <1>5 DEF Schedule
  <1>6. CASE MarkParseFailed(r)  BY <1>6 DEF MarkParseFailed
  <1>7. CASE RecordParseError(r) BY <1>7 DEF RecordParseError
  <1>8. CASE RouteRetry(r)       BY <1>8 DEF RouteRetry
  <1>9. CASE RouteDead(r)        BY <1>9 DEF RouteDead
  <1>10. CASE ChordFires(r)      BY <1>10 DEF ChordFires, legVars
  <1>11. CASE FinalizeFailed(r)  BY <1>11 DEF FinalizeFailed
  <1>12. CASE FinalizeSucceeded(r) BY <1>12 DEF FinalizeSucceeded
  <1>13. CASE ReportFailure(r)   BY <1>13 DEF ReportFailure, RecordOutcome
  <1>14. CASE ReportSuccess(r)   BY <1>14 DEF ReportSuccess, RecordOutcome
  <1>15. CASE ParseDatabaseError(r) BY <1>15 DEF ParseDatabaseError
  <1>16. CASE ScheduleFail(r)    BY <1>16 DEF ScheduleFail
  <1>17. CASE RouteFail(r)       BY <1>17 DEF RouteFail
  <1>18. CASE LoseRun(r)         BY <1>18 DEF LoseRun
  <1>19. CASE LoseScheduling(r)  BY <1>19 DEF LoseScheduling
  <1>20. QED
    BY <1>1, <1>2, <1>3, <1>4, <1>5, <1>6, <1>7, <1>8, <1>9, <1>10, <1>11, <1>12, <1>13,
       <1>14, <1>15, <1>16, <1>17, <1>18, <1>19 DEF RunStep, RunFault

LEMMA RetryIsAnother ==
    ASSUME NEW q \in Runs, NEW r \in Runs, CanRetry(q), CanRetry(r)
    PROVE  /\ RetryOf(r) # r
           /\ RetryOf(r) = RetryOf(q) => q = r
           /\ \A o \in Origins, t \in Tasks : RetryOf(r) # <<o, t, 0>>
           /\ TaskOf(RetryOf(r)) = TaskOf(r)
           /\ AttemptOf(RetryOf(r)) = AttemptOf(r) + 1
  BY PipelineAssumption DEF Runs, RetryOf, CanRetry, AttemptOf, TaskOf, Attempts

LEMMA RunPublishedOnce ==
    ASSUME IInv, NEW r \in Runs, RunStep(r) \/ RunFault(r)
    PROVE  PublishedOnce'
  <1>0. TypeOK /\ PublishedOnce /\ PhaseStep(r) /\ phase[r] # "free" /\ phase[r] # "retried"
        /\ request' = request
    BY RunPhaseStep DEF IInv, Owing, Settled
  <1>1. CASE \E to : phase' = [phase EXCEPT ![r] = to]
    <2>1. ASSUME NEW o \in Origins, NEW t \in Tasks, request'[o][t] # "sent"
          PROVE  phase'[<<o, t, 0>>] = "free"
      BY <1>0, <1>1, <2>1, FirstAttempt DEF PublishedOnce, TypeOK
    <2>2. ASSUME NEW q \in Runs, CanRetry(q), phase'[q] # "retried"
          PROVE  phase'[RetryOf(q)] = "free"
      <3>1. RetryOf(q) \in Runs
        BY <2>2, RunFacts
      <3>2. phase[q] # "retried"
        BY <1>0, <1>1, <2>2 DEF TypeOK
      <3>3. phase[RetryOf(q)] = "free" /\ RetryOf(q) # r
        BY <1>0, <2>2, <3>2 DEF PublishedOnce
      <3>4. phase \in [Runs -> Phase]
        BY <1>0 DEF TypeOK
      <3>5. QED BY <1>1, <3>1, <3>3, <3>4
    <2>3. QED BY <2>1, <2>2 DEF PublishedOnce, CanRetry
  <1>2. CASE CanRetry(r) /\ phase' = [phase EXCEPT ![r] = "retried", ![RetryOf(r)] = "queued"]
    <2>0. RetryOf(r) \in Runs
      BY <1>2, RunFacts
    <2>1. ASSUME NEW o \in Origins, NEW t \in Tasks, request'[o][t] # "sent"
          PROVE  phase'[<<o, t, 0>>] = "free"
      BY <1>0, <1>2, <2>1, <2>0, FirstAttempt, RetryIsAnother DEF PublishedOnce, TypeOK
    <2>2. ASSUME NEW q \in Runs, CanRetry(q), phase'[q] # "retried"
          PROVE  phase'[RetryOf(q)] = "free"
      <3>1. RetryOf(q) \in Runs /\ RetryOf(r) # r /\ (RetryOf(q) = RetryOf(r) => q = r)
        BY <1>2, <2>2, RunFacts, RetryIsAnother
      <3>2. q # r
        BY <1>0, <1>2, <2>0, <2>2, <3>1 DEF TypeOK
      <3>3. phase[q] # "retried"
        <4>1. phase[RetryOf(r)] = "free"
          BY <1>0, <1>2 DEF PublishedOnce
        <4>2. QED BY <1>0, <1>2, <2>0, <2>2, <3>2, <4>1 DEF TypeOK
      <3>4. phase[RetryOf(q)] = "free"
        BY <1>0, <2>2, <3>3 DEF PublishedOnce
      <3>5. QED BY <1>0, <1>2, <2>0, <3>1, <3>2, <3>4 DEF TypeOK
    <2>3. QED BY <2>1, <2>2 DEF PublishedOnce, CanRetry
  <1>3. QED BY <1>0, <1>1, <1>2 DEF PhaseStep
LEMMA RequestPublishedOnce ==
    ASSUME IInv, NEW o \in Origins, NEW t \in Tasks,
           RequestStep(o, t) \/ AbortRequest(o, t) \/ CreateRecord(t)
             \/ (o \in Admins /\ AdminList(o))
    PROVE  PublishedOnce'
  <1>0. TypeOK /\ PublishedOnce
    BY DEF IInv
  <1>1. CASE PublishCreated(o, t)
    <2>1. <<o, t, 0>> \in Runs /\ request' = [request EXCEPT ![o][t] = "sent"]
          /\ phase' = [phase EXCEPT ![<<o, t, 0>>] = "queued"]
      BY <1>1, FirstAttempt DEF PublishCreated, AdvanceRequest
    <2>2. ASSUME NEW p \in Origins, NEW u \in Tasks, request'[p][u] # "sent"
          PROVE  phase'[<<p, u, 0>>] = "free"
      BY <1>0, <2>1, <2>2, FirstAttempt DEF PublishedOnce, TypeOK
    <2>3. ASSUME NEW q \in Runs, CanRetry(q), phase'[q] # "retried"
          PROVE  phase'[RetryOf(q)] = "free"
      <3>1. phase[<<o, t, 0>>] = "free"
        BY <1>0, <1>1 DEF PublishedOnce, PublishCreated, AdvanceRequest
      <3>2. phase[q] # "retried"
        BY <1>0, <2>1, <2>3, <3>1 DEF TypeOK
      <3>3. RetryOf(q) \in Runs /\ RetryOf(q) # <<o, t, 0>>
        BY <2>3, RunFacts, RetryIsAnother
      <3>4. QED BY <1>0, <2>1, <2>3, <3>2, <3>3 DEF PublishedOnce, TypeOK
    <2>4. QED BY <2>2, <2>3 DEF PublishedOnce, CanRetry
  <1>2. CASE ~PublishCreated(o, t)
    <2>1. phase' = phase
      BY <1>2 DEF RequestStep, AdminMark, AbortRequest, CreateRecord, AdminList
    <2>2. \A p \in Origins, u \in Tasks : request[p][u] = "sent" => request'[p][u] = "sent"
      <3>1. CASE AbortRequest(o, t)
        BY <1>0, <3>1 DEF TypeOK, AbortRequest
      <3>2. CASE CreateRecord(t)
        BY <1>0, <3>2 DEF TypeOK, CreateRecord, AdvanceRequest, Origins
      <3>3. CASE o \in Admins /\ AdminMark(o, t)
        BY <1>0, <3>3 DEF TypeOK, AdminMark, AdvanceRequest
      <3>4. CASE o \in Admins /\ AdminList(o)
        BY <1>0, <3>4 DEF TypeOK, AdminList
      <3>5. QED BY <1>2, <3>1, <3>2, <3>3, <3>4 DEF RequestStep
    <2>3. QED BY <1>0, <2>1, <2>2 DEF PublishedOnce, CanRetry
  <1>3. QED BY <1>1, <1>2

\* Steps of a leg touch neither the phases of the runs nor the requests.
LEMMA LegFrame ==
    ASSUME TypeOK, NEW r \in Runs, NEW s \in Sources, LegStep(r, s) \/ LoseLeg(r, s)
    PROVE  /\ phase' = phase /\ request' = request
           /\ leg[r][s] \in LegActive
           /\ \E to \in (LegActive \ {"dl_queued"}) \cup {"ok", "bad", "lost"} :
                leg' = [leg EXCEPT ![r][s] = to]
  BY DEF LegStep, StartDownload, FinishDownload, SkipUpload, StartUpload, UploadOk,
     UploadFail, LoseLeg, AdvanceLeg, LegActive

LEMMA LegPublishedOnce ==
    ASSUME IInv, NEW r \in Runs, NEW s \in Sources, LegStep(r, s) \/ LoseLeg(r, s)
    PROVE  PublishedOnce'
  BY LegFrame DEF IInv, PublishedOnce, CanRetry
(***************************************************************************)
(* The retry budget                                                        *)
(***************************************************************************)

LEMMA RunRetryBudget ==
    ASSUME IInv, NEW r \in Runs, RunStep(r) \/ RunFault(r)
    PROVE  RetryBudget'
  <1>0. phase \in [Runs -> Phase] /\ RetryBudget /\ PhaseStep(r) /\ phase[r] # "free"
    BY RunPhaseStep DEF IInv, TypeOK, Owing, Settled
  <1>1. CASE \E to : phase' = [phase EXCEPT ![r] = to]
    BY <1>0, <1>1 DEF RetryBudget
  <1>2. CASE CanRetry(r) /\ phase' = [phase EXCEPT ![r] = "retried", ![RetryOf(r)] = "queued"]
    <2>1. RetryOf(r) \in Runs /\ AttemptOf(RetryOf(r)) = AttemptOf(r) + 1
      BY <1>2, RunFacts, RetryIsAnother
    <2>2. ~(AttemptOf(RetryOf(r)) > MaxRetries) /\ ~(AttemptOf(r) > MaxRetries)
      BY <1>2, <2>1, RunFacts, PipelineAssumption DEF CanRetry, Attempts
    <2>3. QED BY <1>0, <1>2, <2>1, <2>2 DEF RetryBudget
  <1>3. QED BY <1>0, <1>1, <1>2 DEF PhaseStep

LEMMA RequestRetryBudget ==
    ASSUME IInv, NEW o \in Origins, NEW t \in Tasks,
           RequestStep(o, t) \/ AbortRequest(o, t) \/ CreateRecord(t)
             \/ (o \in Admins /\ AdminList(o))
    PROVE  RetryBudget'
  <1>0. phase \in [Runs -> Phase] /\ RetryBudget
    BY DEF IInv, TypeOK
  <1>1. CASE PublishCreated(o, t)
    <2>1. <<o, t, 0>> \in Runs /\ ~(AttemptOf(<<o, t, 0>>) > MaxRetries)
      BY FirstAttempt, PipelineAssumption DEF AttemptOf
    <2>2. QED BY <1>0, <1>1, <2>1 DEF RetryBudget, PublishCreated
  <1>2. CASE ~PublishCreated(o, t)
    BY <1>0, <1>2 DEF RetryBudget, RequestStep, AdminMark, AbortRequest, CreateRecord, AdminList
  <1>3. QED BY <1>1, <1>2

(***************************************************************************)
(* Records                                                                 *)
(***************************************************************************)

\* What a step of a run does to the status: at most one write, to its own task.
LEMMA RunStatus ==
    ASSUME TypeOK, NEW r \in Runs, RunStep(r) \/ RunFault(r)
    PROVE  \/ status' = status
           \/ \E new \in Working \cup Terminal : status' = [status EXCEPT ![TaskOf(r)] = new]
  BY DEF RunStep, RunFault, StartParse, ParseOk, ParseFail, MarkDownloading, Schedule,
     MarkParseFailed, RecordParseError, RouteRetry, RouteDead, ChordFires, FinalizeFailed,
     FinalizeSucceeded, ReportFailure, ReportSuccess, RecordOutcome, ParseDatabaseError,
     ScheduleFail, RouteFail, LoseRun, LoseScheduling, SetStatus, docVars, Working, Terminal

LEMMA LegStatus ==
    ASSUME TypeOK, NEW r \in Runs, NEW s \in Sources, LegStep(r, s) \/ LoseLeg(r, s)
    PROVE  \/ status' = status
           \/ \E new \in Working : status' = [status EXCEPT ![TaskOf(r)] = new]
  BY DEF LegStep, StartDownload, FinishDownload, SkipUpload, StartUpload, UploadOk,
     UploadFail, LoseLeg, SetStatus, docVars, Working

LEMMA RunRecords ==
    ASSUME IInv, NEW r \in Runs, RunStep(r) \/ RunFault(r)
    PROVE  RequestHasRecord' /\ EventHasRecord'
  <1>0. /\ TypeOK /\ PhaseStep(r) /\ phase[r] # "free" /\ request' = request
        /\ RequestHasRecord /\ EventHasRecord /\ TaskOf(r) \in Tasks
    BY RunPhaseStep, RunFacts DEF IInv, Owing, Settled
  <1>1. \A t \in Tasks : status[t] # "NONE" => status'[t] # "NONE"
    BY <1>0, RunStatus DEF TypeOK, Working, Terminal
  <1>2. status[TaskOf(r)] # "NONE"
    BY <1>0 DEF EventHasRecord
  <1>3. \A q \in Runs : phase'[q] # "free" => phase[q] # "free" \/ TaskOf(q) = TaskOf(r)
    BY <1>0, RunFacts, RetryIsAnother DEF PhaseStep, TypeOK
  <1>4. QED BY <1>0, <1>1, <1>2, <1>3, RunFacts DEF RequestHasRecord, EventHasRecord

LEMMA LegRecords ==
    ASSUME IInv, NEW r \in Runs, NEW s \in Sources, LegStep(r, s) \/ LoseLeg(r, s)
    PROVE  RequestHasRecord' /\ EventHasRecord'
  <1>1. \A t \in Tasks : status[t] # "NONE" => status'[t] # "NONE"
    BY RunFacts, LegStatus DEF IInv, TypeOK, Working
  <1>2. QED BY <1>1, LegFrame, RunFacts DEF IInv, RequestHasRecord, EventHasRecord

LEMMA RequestRecords ==
    ASSUME IInv, NEW o \in Origins, NEW t \in Tasks,
           RequestStep(o, t) \/ AbortRequest(o, t) \/ CreateRecord(t)
             \/ (o \in Admins /\ AdminList(o))
    PROVE  RequestHasRecord' /\ EventHasRecord'
  <1>0. TypeOK /\ RequestHasRecord /\ EventHasRecord /\ Create \in Origins
    BY DEF IInv, Origins
  <1>1. CASE PublishCreated(o, t)
    <2>1. status[t] # "NONE" /\ status' = status
      BY <1>0, <1>1 DEF PublishCreated, AdvanceRequest, RequestHasRecord, docVars
    <2>2. \A q \in Runs : phase'[q] # "free" => phase[q] # "free" \/ TaskOf(q) = t
      BY <1>0, <1>1, FirstAttempt DEF PublishCreated, TypeOK
    <2>3. \A p \in Origins, u \in Tasks :
            request'[p][u] # "idle" => request[p][u] # "idle" \/ u = t
      BY <1>0, <1>1 DEF PublishCreated, AdvanceRequest, TypeOK
    <2>4. QED BY <1>0, <2>1, <2>2, <2>3, RunFacts DEF RequestHasRecord, EventHasRecord
  <1>2. CASE (o \in Admins /\ AdminMark(o, t)) \/ CreateRecord(t)
    <2>1. phase' = phase /\ status' = [status EXCEPT ![t] = "QUEUED"]
      BY <1>2 DEF AdminMark, CreateRecord, SetStatus
    <2>2. \A p \in Origins, u \in Tasks :
            request'[p][u] # "idle" => request[p][u] # "idle" \/ u = t
      <3>1. \E p \in Origins : request' = [request EXCEPT ![p][t] = "marked"]
        BY <1>0, <1>2 DEF AdminMark, CreateRecord, AdvanceRequest
      <3>2. request \in [Origins -> [Tasks -> RequestState]]
        BY <1>0 DEF TypeOK
      <3>3. QED BY <3>1, <3>2
    <2>3. QED BY <1>0, <2>1, <2>2, RunFacts DEF RequestHasRecord, EventHasRecord, TypeOK
  <1>3. CASE AbortRequest(o, t)
    <2>1. phase' = phase /\ status' = status
      BY <1>3 DEF AbortRequest, docVars
    <2>2. \A p \in Origins, u \in Tasks : request'[p][u] # "idle" => request[p][u] # "idle"
      BY <1>0, <1>3 DEF AbortRequest, TypeOK
    <2>3. QED BY <1>0, <2>1, <2>2 DEF RequestHasRecord, EventHasRecord
  <1>4. CASE o \in Admins /\ AdminList(o)
    <2>1. phase' = phase /\ status' = status
      BY <1>4 DEF AdminList, docVars
    <2>2. \A p \in Origins, u \in Tasks :
            request'[p][u] # "idle" => request[p][u] # "idle" \/ status[u] = "FAILED"
      BY <1>0, <1>4 DEF AdminList, TypeOK
    <2>3. QED BY <1>0, <2>1, <2>2 DEF RequestHasRecord, EventHasRecord
  <1>5. QED BY <1>1, <1>2, <1>3, <1>4 DEF RequestStep
(***************************************************************************)
(* Legs                                                                    *)
(***************************************************************************)

\* What a step of the event of a run does to the legs: only its own, and only
\* while it parses or schedules.  Its chord is armed, broken or fired with that.
LegsUpdate(r) ==
    \/ leg' = leg /\ chord' = chord /\ phase[r] # "fanned_out"
    \/ /\ leg' = leg /\ HeaderDone(r)
       /\ phase[r] = "fanned_out" /\ phase' = [phase EXCEPT ![r] = "finalize_queued"]
       /\ chord' = [chord EXCEPT ![r] = "fired"]
    \/ /\ phase[r] = "parsing" /\ phase' = [phase EXCEPT ![r] = "parsed"]
       /\ chord' = chord
       /\ \E found \in (SUBSET Sources) \ {{}} :
            leg' = [leg EXCEPT ![r] =
                      [s \in Sources |-> IF s \in found THEN "planned" ELSE "none"]]
    \/ /\ phase[r] = "scheduling"
       /\ \E S \in SUBSET Planned(r) :
            leg' = [leg EXCEPT ![r] =
                      [s \in Sources |-> IF s \in S THEN "dl_queued" ELSE leg[r][s]]]
       /\ \/ /\ phase' = [phase EXCEPT ![r] = "fanned_out"]
             /\ chord' = [chord EXCEPT ![r] = "open"]
          \/ /\ \E to \in {"parse_failed", "lost"} : phase' = [phase EXCEPT ![r] = to]
             /\ chord' = [chord EXCEPT ![r] = "broken"]

LEMMA RunLegs ==
    ASSUME TypeOK, NEW r \in Runs, RunStep(r) \/ RunFault(r)
    PROVE  LegsUpdate(r) /\ uploaded' = uploaded
  <1> USE DEF Advance, docVars, legVars, LegsUpdate
  <1>1. CASE StartParse(r)       BY <1>1 DEF StartParse
  <1>2. CASE ParseOk(r)          BY <1>2 DEF ParseOk
  <1>3. CASE ParseFail(r)        BY <1>3 DEF ParseFail
  <1>4. CASE MarkDownloading(r)  BY <1>4 DEF MarkDownloading
  <1>5. CASE Schedule(r)         BY <1>5 DEF Schedule, QueueLegs
  <1>6. CASE MarkParseFailed(r)  BY <1>6 DEF MarkParseFailed
  <1>7. CASE RecordParseError(r) BY <1>7 DEF RecordParseError
  <1>8. CASE RouteRetry(r)       BY <1>8 DEF RouteRetry
  <1>9. CASE RouteDead(r)        BY <1>9 DEF RouteDead
  <1>10. CASE ChordFires(r)      BY <1>10 DEF ChordFires
  <1>11. CASE FinalizeFailed(r)  BY <1>11 DEF FinalizeFailed
  <1>12. CASE FinalizeSucceeded(r) BY <1>12 DEF FinalizeSucceeded
  <1>13. CASE ReportFailure(r)   BY <1>13 DEF ReportFailure, RecordOutcome
  <1>14. CASE ReportSuccess(r)   BY <1>14 DEF ReportSuccess, RecordOutcome
  <1>15. CASE ParseDatabaseError(r) BY <1>15 DEF ParseDatabaseError
  <1>16. CASE ScheduleFail(r)    BY <1>16 DEF ScheduleFail, QueueLegs
  <1>17. CASE RouteFail(r)       BY <1>17 DEF RouteFail
  <1>18. CASE LoseRun(r)         BY <1>18 DEF LoseRun, Owing, Settled
  <1>19. CASE LoseScheduling(r)  BY <1>19 DEF LoseScheduling, QueueLegs
  <1>20. QED
    BY <1>1, <1>2, <1>3, <1>4, <1>5, <1>6, <1>7, <1>8, <1>9, <1>10, <1>11, <1>12, <1>13,
       <1>14, <1>15, <1>16, <1>17, <1>18, <1>19 DEF RunStep, RunFault
\* A step of a run leaves the phase, legs and chord of another run alone, but for
\* the retry it may publish.
LEMMA OtherRuns ==
    ASSUME IInv, NEW r \in Runs, RunStep(r) \/ RunFault(r), NEW q \in Runs, q # r
    PROVE  /\ leg'[q] = leg[q] /\ chord'[q] = chord[q]
           /\ \/ phase'[q] = phase[q]
              \/ phase[q] = "free" /\ phase'[q] = "queued"
  <1>0. /\ phase \in [Runs -> Phase] /\ chord \in [Runs -> Chord]
        /\ leg \in [Runs -> [Sources -> Leg]]
        /\ PublishedOnce /\ LegsUpdate(r) /\ PhaseStep(r)
    BY RunLegs, RunPhaseStep DEF IInv, TypeOK
  <1>1. leg'[q] = leg[q] /\ chord'[q] = chord[q]
    BY <1>0 DEF LegsUpdate
  <1>2. CASE \E to : phase' = [phase EXCEPT ![r] = to]
    BY <1>0, <1>1, <1>2
  <1>3. CASE /\ phase[r] = "routing" /\ CanRetry(r)
             /\ phase' = [phase EXCEPT ![r] = "retried", ![RetryOf(r)] = "queued"]
    <2>1. RetryOf(r) \in Runs /\ phase[RetryOf(r)] = "free"
      BY <1>0, <1>3, RunFacts DEF PublishedOnce
    <2>2. QED BY <1>0, <1>1, <1>3, <2>1
  <1>4. QED BY <1>0, <1>2, <1>3 DEF PhaseStep

LEMMA RunLegsHaveChord ==
    ASSUME IInv, NEW r \in Runs, RunStep(r) \/ RunFault(r)
    PROVE  LegsHaveChord'
  <1>0. /\ phase \in [Runs -> Phase] /\ chord \in [Runs -> Chord]
        /\ leg \in [Runs -> [Sources -> Leg]]
        /\ LegsHaveChord /\ LegsUpdate(r) /\ PhaseStep(r)
    BY RunLegs, RunPhaseStep DEF IInv, TypeOK
  <1> SUFFICES ASSUME NEW q \in Runs, NEW s \in Sources, leg'[q][s] \in LegActive
               PROVE  \/ phase'[q] = "fanned_out" /\ chord'[q] = "open"
                      \/ chord'[q] = "broken"
    BY DEF LegsHaveChord
  <1>1. CASE q # r
    BY <1>0, <1>1, OtherRuns DEF LegsHaveChord
  <1>2. CASE q = r
    <2>1. CASE leg' = leg /\ chord' = chord /\ phase[r] # "fanned_out"
      BY <1>0, <1>2, <2>1 DEF LegsHaveChord
    <2>2. CASE leg' = leg /\ HeaderDone(r)
      BY <1>0, <1>2, <2>2 DEF HeaderDone, LegActive
    <2>3. CASE \E found \in (SUBSET Sources) \ {{}} :
                 leg' = [leg EXCEPT ![r] =
                           [p \in Sources |-> IF p \in found THEN "planned" ELSE "none"]]
      BY <1>0, <1>2, <2>3 DEF LegActive
    <2>4. CASE /\ phase' = [phase EXCEPT ![r] = "fanned_out"]
               /\ chord' = [chord EXCEPT ![r] = "open"]
      BY <1>0, <1>2, <2>4
    <2>5. CASE chord' = [chord EXCEPT ![r] = "broken"]
      BY <1>0, <1>2, <2>5
    <2>6. QED BY <1>0, <2>1, <2>2, <2>3, <2>4, <2>5 DEF LegsUpdate
  <1>3. QED BY <1>1, <1>2

LEMMA RunLegsMatchPhase ==
    ASSUME IInv, NEW r \in Runs, RunStep(r) \/ RunFault(r)
    PROVE  LegsMatchPhase'
  <1>0. /\ phase \in [Runs -> Phase] /\ leg \in [Runs -> [Sources -> Leg]]
        /\ LegsMatchPhase /\ LegsUpdate(r) /\ PhaseStep(r)
    BY RunLegs, RunPhaseStep DEF IInv, TypeOK
  <1> SUFFICES ASSUME NEW q \in Runs
               PROVE  /\ phase'[q] \in {"free", "queued", "parsing"} =>
                           \A s \in Sources : leg'[q][s] = "none"
                      /\ phase'[q] \in {"parsed", "scheduling", "fanned_out", "finalize_queued"}
                           => \E s \in Sources : leg'[q][s] # "none"
                      /\ phase'[q] = "finalize_queued" =>
                           \A s \in Sources : leg'[q][s] \in {"none", "ok", "bad"}
    BY DEF LegsMatchPhase, HeaderDone
  <1>1. CASE q # r
    BY <1>0, <1>1, OtherRuns DEF LegsMatchPhase, HeaderDone
  <1>2. CASE q = r
    <2>0. Settled \cap {"free", "queued", "parsing", "parsed", "scheduling", "fanned_out",
                        "finalize_queued"} = {}
      BY DEF Settled
    <2>1. ASSUME phase'[r] \in {"free", "queued", "parsing"}, NEW s \in Sources
          PROVE  leg'[r][s] = "none"
      <3>1. phase[r] = "queued"
        BY <1>0, <2>0, <2>1, RunFacts, RetryIsAnother DEF PhaseStep
      <3>2. leg' = leg
        BY <1>0, <3>1 DEF LegsUpdate
      <3>3. QED BY <1>0, <3>1, <3>2 DEF LegsMatchPhase
    <2>2. ASSUME phase'[r] \in {"parsed", "scheduling", "fanned_out", "finalize_queued"}
          PROVE  \E s \in Sources : leg'[r][s] # "none"
      <3>1. CASE \E s \in Sources : leg'[r][s] = "planned"
        BY <3>1
      <3>2. CASE phase[r] \in {"parsed", "scheduling", "fanned_out"}
        <4>1. PICK s \in Sources : leg[r][s] # "none"
          BY <1>0, <3>2 DEF LegsMatchPhase
        <4>2. leg'[r][s] # "none"
          BY <1>0, <3>2, <4>1 DEF LegsUpdate
        <4>3. QED BY <4>2
      <3>3. QED BY <1>0, <2>0, <2>2, <3>1, <3>2, RunFacts, RetryIsAnother DEF PhaseStep
    <2>3. ASSUME phase'[r] = "finalize_queued"
          PROVE  \A s \in Sources : leg'[r][s] \in {"none", "ok", "bad"}
      BY <1>0, <2>0, <2>3, RunFacts, RetryIsAnother DEF PhaseStep, HeaderDone
    <2>4. QED BY <1>2, <2>1, <2>2, <2>3
  <1>3. QED BY <1>1, <1>2

LEMMA RunUploadedMatchesLegs ==
    ASSUME IInv, NEW r \in Runs, RunStep(r) \/ RunFault(r)
    PROVE  UploadedMatchesLegs'
  <1>0. /\ leg \in [Runs -> [Sources -> Leg]] /\ uploaded' = uploaded
        /\ UploadedMatchesLegs /\ LegsUpdate(r) /\ LegsMatchPhase
    BY RunLegs DEF IInv, TypeOK
  <1> SUFFICES ASSUME NEW q \in Runs, NEW s \in Sources
               PROVE  /\ leg'[q][s] = "ok" => s \in uploaded[q]
                      /\ s \in uploaded[q] => leg'[q][s] \in {"ok", "lost"}
    BY <1>0 DEF UploadedMatchesLegs
  <1>1. CASE q # r
    BY <1>0, <1>1, OtherRuns DEF UploadedMatchesLegs
  <1>2. CASE q = r
    <2>1. CASE leg' = leg
      BY <1>0, <2>1 DEF UploadedMatchesLegs
    <2>2. CASE phase[r] = "parsing"
      BY <1>0, <1>2, <2>2 DEF LegsUpdate, UploadedMatchesLegs, LegsMatchPhase
    <2>3. CASE phase[r] = "scheduling"
      BY <1>0, <1>2, <2>3 DEF LegsUpdate, UploadedMatchesLegs, Planned
    <2>4. QED BY <1>0, <2>1, <2>2, <2>3 DEF LegsUpdate
  <1>3. QED BY <1>1, <1>2
LEMMA LegLegs ==
    ASSUME IInv, NEW r \in Runs, NEW s \in Sources, LegStep(r, s) \/ LoseLeg(r, s)
    PROVE  LegsHaveChord' /\ LegsMatchPhase' /\ UploadedMatchesLegs'
  <1>0. /\ phase' = phase /\ leg \in [Runs -> [Sources -> Leg]]
        /\ chord \in [Runs -> Chord] /\ uploaded \in [Runs -> SUBSET Sources]
        /\ LegsHaveChord /\ LegsMatchPhase /\ UploadedMatchesLegs
        /\ leg[r][s] \in LegActive
    BY LegFrame DEF IInv, TypeOK
  <1>1. PICK to \in (LegActive \ {"dl_queued"}) \cup {"ok", "bad", "lost"} :
          leg' = [leg EXCEPT ![r][s] = to]
    BY LegFrame DEF IInv
  <1>2. \A q \in Runs, p \in Sources :
          leg'[q][p] = IF q = r /\ p = s THEN to ELSE leg[q][p]
    BY <1>0, <1>1
  <1>3. chord' = chord \/ chord' = [chord EXCEPT ![r] = "broken"]
    BY DEF LegStep, StartDownload, FinishDownload, SkipUpload, StartUpload, UploadOk,
       UploadFail, LoseLeg
  <1>4. LegsHaveChord'
    BY <1>0, <1>2, <1>3 DEF LegsHaveChord
  <1>5. LegsMatchPhase'
    <2>1. phase[r] \notin {"free", "queued", "parsing", "finalize_queued"}
      BY <1>0 DEF LegsMatchPhase, HeaderDone, LegActive
    <2>2. to # "none"
      BY DEF LegActive
    <2>3. QED BY <1>0, <1>2, <2>1, <2>2 DEF LegsMatchPhase, HeaderDone
  <1>6. UploadedMatchesLegs'
    <2>0. s \notin uploaded[r]
      BY <1>0 DEF UploadedMatchesLegs, LegActive
    <2>1. CASE uploaded' = uploaded /\ to # "ok"
      BY <1>0, <1>2, <2>0, <2>1 DEF UploadedMatchesLegs
    <2>2. CASE to \in {"ok", "lost"} /\ uploaded' = [uploaded EXCEPT ![r] = @ \cup {s}]
      BY <1>0, <1>2, <2>0, <2>2 DEF UploadedMatchesLegs
    <2>3. \/ uploaded' = uploaded /\ leg'[r][s] # "ok"
          \/ /\ leg'[r][s] \in {"ok", "lost"}
             /\ uploaded' = [uploaded EXCEPT ![r] = @ \cup {s}]
      BY <1>0 DEF LegStep, StartDownload, FinishDownload, SkipUpload, StartUpload, UploadOk,
         UploadFail, LoseLeg, AdvanceLeg
    <2>4. QED BY <1>2, <2>1, <2>2, <2>3
  <1>7. QED BY <1>4, <1>5, <1>6

LEMMA RequestLegs ==
    ASSUME IInv, NEW o \in Origins, NEW t \in Tasks,
           RequestStep(o, t) \/ AbortRequest(o, t) \/ CreateRecord(t)
             \/ (o \in Admins /\ AdminList(o))
    PROVE  LegsHaveChord' /\ LegsMatchPhase' /\ UploadedMatchesLegs'
  <1>0. /\ phase \in [Runs -> Phase] /\ PublishedOnce
        /\ LegsHaveChord /\ LegsMatchPhase /\ UploadedMatchesLegs
    BY DEF IInv, TypeOK
  <1>1. leg' = leg /\ chord' = chord /\ uploaded' = uploaded
    BY DEF RequestStep, PublishCreated, AdminMark, AbortRequest, CreateRecord, AdminList, legVars
  <1>2. \A q \in Runs : phase'[q] = phase[q] \/ (phase[q] = "free" /\ phase'[q] = "queued")
    <2>1. CASE PublishCreated(o, t)
      BY <1>0, <2>1, FirstAttempt DEF PublishCreated, AdvanceRequest, PublishedOnce
    <2>2. CASE ~PublishCreated(o, t)
      BY <2>2 DEF RequestStep, AdminMark, AbortRequest, CreateRecord, AdminList
    <2>3. QED BY <2>1, <2>2
  <1>3. QED BY <1>0, <1>1, <1>2 DEF LegsHaveChord, LegsMatchPhase, HeaderDone, UploadedMatchesLegs

(***************************************************************************)
(* The two properties                                                      *)
(***************************************************************************)

LEMMA RunStatusHasOwner ==
    ASSUME IInv, NEW r \in Runs, RunStep(r) \/ RunFault(r)
    PROVE  StatusHasOwner'
  <1>0. /\ TypeOK /\ StatusHasOwner /\ PhaseStep(r) /\ LegsUpdate(r) /\ request' = request
        /\ TaskOf(r) \in Tasks
    BY RunPhaseStep, RunLegs, RunFacts DEF IInv
  <1>1. \A q \in Runs : q # r /\ Owes(q) => Owes(q)'
    BY OtherRuns DEF Owes, Broken, Owing
  <1>2. \/ status'[TaskOf(r)] \in Terminal
        \/ status' = status /\ (Owes(r) => Owes(r)')
        \/ Owes(r)'
    <2> USE DEF Advance, docVars, Owes, Broken, Owing, Settled, TypeOK
    <2>1. CASE StartParse(r)       BY <1>0, <2>1 DEF StartParse
    <2>2. CASE ParseOk(r)          BY <1>0, <2>2 DEF ParseOk
    <2>3. CASE ParseFail(r)        BY <1>0, <2>3 DEF ParseFail
    <2>4. CASE MarkDownloading(r)  BY <1>0, <2>4 DEF MarkDownloading
    <2>5. CASE Schedule(r)         BY <1>0, <2>5 DEF Schedule
    <2>6. CASE MarkParseFailed(r)  BY <1>0, <2>6 DEF MarkParseFailed, SetStatus, Terminal
    <2>7. CASE RecordParseError(r) BY <1>0, <2>7 DEF RecordParseError, legVars
    <2>8. CASE RouteRetry(r)
      <3>1. RetryOf(r) \in Runs /\ RetryOf(r) # r
        BY <2>8, RunFacts, RetryIsAnother DEF RouteRetry
      <3>2. QED BY <1>0, <2>8, <3>1 DEF RouteRetry, legVars
    <2>9. CASE RouteDead(r)        BY <1>0, <2>9 DEF RouteDead, legVars
    <2>10. CASE ChordFires(r)      BY <1>0, <2>10 DEF ChordFires
    <2>11. CASE FinalizeFailed(r)  BY <1>0, <2>11 DEF FinalizeFailed, SetStatus, Terminal
    <2>12. CASE FinalizeSucceeded(r) BY <1>0, <2>12 DEF FinalizeSucceeded, SetStatus, Terminal
    <2>13. CASE ReportFailure(r)   BY <1>0, <2>13 DEF ReportFailure, RecordOutcome, legVars
    <2>14. CASE ReportSuccess(r)   BY <1>0, <2>14 DEF ReportSuccess, RecordOutcome, legVars
    <2>15. CASE ParseDatabaseError(r) BY <1>0, <2>15 DEF ParseDatabaseError
    <2>16. CASE ScheduleFail(r)    BY <1>0, <2>16 DEF ScheduleFail
    <2>17. CASE RouteFail(r)       BY <1>0, <2>17 DEF RouteFail, legVars
    <2>18. CASE LoseRun(r)         BY <1>0, <2>18 DEF LoseRun, legVars
    <2>19. CASE LoseScheduling(r)  BY <1>0, <2>19 DEF LoseScheduling
    <2>20. QED
      BY <2>1, <2>2, <2>3, <2>4, <2>5, <2>6, <2>7, <2>8, <2>9, <2>10, <2>11, <2>12, <2>13,
         <2>14, <2>15, <2>16, <2>17, <2>18, <2>19 DEF RunStep, RunFault
  <1>3. \A t \in Tasks : t # TaskOf(r) => status'[t] = status[t]
    BY <1>0, RunStatus DEF TypeOK
  <1>4. SUFFICES ASSUME NEW t \in Tasks, status'[t] \in Working PROVE Owned(t)'
    BY DEF StatusHasOwner
  <1>5. CASE t # TaskOf(r) \/ (status' = status /\ (Owes(r) => Owes(r)'))
    <2>1. Owned(t)
      BY <1>0, <1>3, <1>4, <1>5 DEF StatusHasOwner
    <2>2. QED BY <1>0, <1>1, <1>5, <2>1 DEF Owned
  <1>6. CASE t = TaskOf(r) /\ Owes(r)'
    BY <1>6 DEF Owned
  <1>7. QED BY <1>2, <1>4, <1>5, <1>6 DEF Working, Terminal
LEMMA LegStatusHasOwner ==
    ASSUME IInv, NEW r \in Runs, NEW s \in Sources, LegStep(r, s) \/ LoseLeg(r, s)
    PROVE  StatusHasOwner'
  <1>0. /\ TypeOK /\ LegsHaveChord /\ StatusHasOwner /\ TaskOf(r) \in Tasks
        /\ phase' = phase /\ request' = request /\ leg[r][s] \in LegActive
    BY LegFrame, RunFacts DEF IInv
  <1>1. chord' = chord \/ chord' = [chord EXCEPT ![r] = "broken"]
    BY DEF LegStep, StartDownload, FinishDownload, SkipUpload, StartUpload, UploadOk,
       UploadFail, LoseLeg
  <1>2. Owes(r)
    BY <1>0 DEF LegsHaveChord, Owes, Broken, Owing
  <1>3. \A q \in Runs : Owes(q) => Owes(q)'
    BY <1>0, <1>1 DEF Owes, Broken, TypeOK
  <1>4. \A t \in Tasks : status'[t] \in Working => status[t] \in Working \/ t = TaskOf(r)
    BY <1>0, LegStatus DEF TypeOK
  <1>5. QED BY <1>0, <1>2, <1>3, <1>4 DEF StatusHasOwner, Owned

LEMMA RequestStatusHasOwner ==
    ASSUME IInv, NEW o \in Origins, NEW t \in Tasks,
           RequestStep(o, t) \/ AbortRequest(o, t) \/ CreateRecord(t)
             \/ (o \in Admins /\ AdminList(o))
    PROVE  StatusHasOwner'
  <1>0. /\ phase \in [Runs -> Phase] /\ request \in [Origins -> [Tasks -> RequestState]]
        /\ status \in [Tasks -> {"NONE"} \cup Working \cup Terminal]
        /\ StatusHasOwner /\ chord' = chord
    BY DEF IInv, TypeOK, RequestStep, PublishCreated, AdminMark, AbortRequest, CreateRecord,
       AdminList, legVars
  <1>1. CASE PublishCreated(o, t)
    <2>1. <<o, t, 0>> \in Runs /\ TaskOf(<<o, t, 0>>) = t
      BY FirstAttempt
    <2>2. /\ phase' = [phase EXCEPT ![<<o, t, 0>>] = "queued"]
          /\ request' = [request EXCEPT ![o][t] = "sent"] /\ status' = status
      BY <1>1 DEF PublishCreated, AdvanceRequest, docVars
    <2>3. Owned(t)'
      BY <1>0, <2>1, <2>2 DEF Owned, Owes, Owing
    <2>4. \A q \in Runs : Owes(q) => Owes(q)'
      BY <1>0, <2>2 DEF Owes, Broken, Owing
    <2>5. \A p \in Origins, u \in Tasks : u # t => request'[p][u] = request[p][u]
      BY <1>0, <2>2
    <2>6. \A u \in Tasks : u # t /\ Owned(u) => Owned(u)'
      BY <2>4, <2>5 DEF Owned
    <2>7. QED BY <1>0, <2>2, <2>3, <2>6 DEF StatusHasOwner
  <1>2. CASE (o \in Admins /\ AdminMark(o, t)) \/ CreateRecord(t)
    <2>1. PICK p \in Origins : request' = [request EXCEPT ![p][t] = "marked"]
      BY <1>2 DEF AdminMark, CreateRecord, AdvanceRequest, Origins
    <2>2. phase' = phase /\ \A u \in Tasks : u # t => status'[u] = status[u]
      BY <1>0, <1>2 DEF AdminMark, CreateRecord, SetStatus
    <2>3. Owned(t)'
      BY <1>0, <2>1 DEF Owned
    <2>4. \A u \in Tasks : u # t /\ Owned(u) => Owned(u)'
      BY <1>0, <2>1, <2>2 DEF Owned, Owes, Broken
    <2>5. QED BY <2>2, <2>3, <2>4, <1>0 DEF StatusHasOwner
  <1>3. CASE AbortRequest(o, t) \/ (o \in Admins /\ AdminList(o))
    <2>1. phase' = phase /\ status' = status
      BY <1>3 DEF AbortRequest, AdminList, docVars
    <2>2. \A p \in Origins, u \in Tasks :
            request[p][u] \in {"marked", "aborted"} => request'[p][u] \in {"marked", "aborted"}
      BY <1>0, <1>3 DEF AbortRequest, AdminList
    <2>3. QED BY <1>0, <2>1, <2>2 DEF StatusHasOwner, Owned, Owes, Broken
  <1>4. QED BY <1>1, <1>2, <1>3 DEF RequestStep
\* A run whose every leg reached the target stays so: only what is still to be
\* downloaded or uploaded changes.
LEMMA CompleteStable ==
    ASSUME IInv, NEW q \in Runs, Complete(q),
           \/ \E r \in Runs : RunStep(r) \/ RunFault(r)
           \/ \E r \in Runs, s \in Sources : LegStep(r, s) \/ LoseLeg(r, s)
    PROVE  Complete(q)'
  <1>0. /\ leg \in [Runs -> [Sources -> Leg]] /\ uploaded \in [Runs -> SUBSET Sources]
        /\ UploadedMatchesLegs /\ LegsMatchPhase
    BY DEF IInv, TypeOK
  <1>1. \A s \in Sources : leg[q][s] \in {"none", "ok", "lost"}
    BY <1>0 DEF Complete, Found, UploadedMatchesLegs
  <1>2. \E s \in Sources : leg[q][s] # "none"
    BY DEF Complete, Found
  <1>3. CASE \E r \in Runs : RunStep(r) \/ RunFault(r)
    <2>1. PICK r \in Runs : RunStep(r) \/ RunFault(r)
      BY <1>3
    <2>2. LegsUpdate(r) /\ uploaded' = uploaded
      BY <2>1, RunLegs DEF IInv
    <2>3. \A s \in Sources : leg'[q][s] = leg[q][s]
      <3>1. CASE q # r
        BY <2>1, <3>1, OtherRuns
      <3>2. CASE q = r
        <4>1. phase[r] # "parsing"
          BY <1>0, <1>2, <3>2 DEF LegsMatchPhase
        <4>2. Planned(r) = {}
          BY <1>1, <3>2 DEF Planned
        <4>3. QED BY <1>0, <2>2, <3>2, <4>1, <4>2 DEF LegsUpdate
      <3>3. QED BY <3>1, <3>2
    <2>4. QED BY <2>2, <2>3 DEF Complete, Found
  <1>4. CASE \E r \in Runs, s \in Sources : LegStep(r, s) \/ LoseLeg(r, s)
    <2>1. PICK r \in Runs, s \in Sources : LegStep(r, s) \/ LoseLeg(r, s)
      BY <1>4
    <2>2. q # r
      BY <1>1, <2>1, LegFrame DEF IInv, LegActive
    <2>3. leg'[q] = leg[q]
      BY <1>0, <2>1, <2>2, LegFrame DEF IInv
    <2>4. uploaded'[q] = uploaded[q]
      BY <1>0, <2>1, <2>2 DEF LegStep, StartDownload, FinishDownload, SkipUpload, StartUpload,
         UploadOk, UploadFail, LoseLeg
    <2>5. QED BY <2>3, <2>4 DEF Complete, Found
  <1>5. QED BY <1>3, <1>4

LEMMA RunSucceededIsUploaded ==
    ASSUME IInv, NEW r \in Runs, RunStep(r) \/ RunFault(r)
    PROVE  SucceededIsUploaded'
  <1>0. /\ status \in [Tasks -> {"NONE"} \cup Working \cup Terminal] /\ SucceededIsUploaded
        /\ LegsMatchPhase /\ UploadedMatchesLegs /\ uploaded \in [Runs -> SUBSET Sources]
        /\ TaskOf(r) \in Tasks
    BY RunFacts DEF IInv, TypeOK
  <1>1. ASSUME NEW t \in Tasks, status[t] = "SUCCEEDED"
        PROVE  \E q \in Runs : TaskOf(q) = t /\ Complete(q)'
    BY <1>0, <1>1, CompleteStable DEF SucceededIsUploaded
  <1>2. CASE FinalizeSucceeded(r)
    <2>1. Complete(r)
      <3>1. \A s \in Sources : leg[r][s] \in {"none", "ok"}
        BY <1>0, <1>2 DEF FinalizeSucceeded, Advance, FailedLegs, LegsMatchPhase, HeaderDone
      <3>2. \E s \in Sources : leg[r][s] # "none"
        BY <1>0, <1>2 DEF FinalizeSucceeded, Advance, LegsMatchPhase
      <3>3. QED BY <1>0, <3>1, <3>2 DEF Complete, Found, UploadedMatchesLegs
    <2>2. Complete(r)'
      BY <2>1, CompleteStable
    <2>3. \A t \in Tasks : status'[t] = "SUCCEEDED" => status[t] = "SUCCEEDED" \/ t = TaskOf(r)
      BY <1>0, <1>2 DEF FinalizeSucceeded, SetStatus
    <2>4. QED BY <1>1, <2>2, <2>3 DEF SucceededIsUploaded
  <1>3. CASE ~FinalizeSucceeded(r)
    <2>1. \A t \in Tasks : status'[t] = "SUCCEEDED" => status[t] = "SUCCEEDED"
      BY <1>0, <1>3 DEF RunStep, RunFault, StartParse, ParseOk, ParseFail, MarkDownloading,
         Schedule, MarkParseFailed, RecordParseError, RouteRetry, RouteDead, ChordFires,
         FinalizeFailed, ReportFailure, ReportSuccess, RecordOutcome, ParseDatabaseError,
         ScheduleFail, RouteFail, LoseRun, LoseScheduling, SetStatus, docVars
    <2>2. QED BY <1>1, <2>1 DEF SucceededIsUploaded
  <1>4. QED BY <1>2, <1>3

LEMMA LegSucceededIsUploaded ==
    ASSUME IInv, NEW r \in Runs, NEW s \in Sources, LegStep(r, s) \/ LoseLeg(r, s)
    PROVE  SucceededIsUploaded'
  <1>0. /\ status \in [Tasks -> {"NONE"} \cup Working \cup Terminal] /\ TypeOK
        /\ SucceededIsUploaded /\ TaskOf(r) \in Tasks
    BY RunFacts DEF IInv, TypeOK
  <1>1. \A t \in Tasks : status'[t] = "SUCCEEDED" => status[t] = "SUCCEEDED"
    BY <1>0, LegStatus DEF Working
  <1>2. QED BY <1>0, <1>1, CompleteStable DEF SucceededIsUploaded

LEMMA RequestSucceededIsUploaded ==
    ASSUME IInv, NEW o \in Origins, NEW t \in Tasks,
           RequestStep(o, t) \/ AbortRequest(o, t) \/ CreateRecord(t)
             \/ (o \in Admins /\ AdminList(o))
    PROVE  SucceededIsUploaded'
  <1>0. status \in [Tasks -> {"NONE"} \cup Working \cup Terminal] /\ SucceededIsUploaded
    BY DEF IInv, TypeOK
  <1>1. leg' = leg /\ uploaded' = uploaded
    BY DEF RequestStep, PublishCreated, AdminMark, AbortRequest, CreateRecord, AdminList, legVars
  <1>2. \A u \in Tasks : status'[u] = "SUCCEEDED" => status[u] = "SUCCEEDED"
    BY <1>0 DEF RequestStep, PublishCreated, AdminMark, AbortRequest, CreateRecord, AdminList,
       SetStatus, docVars
  <1>3. QED BY <1>0, <1>1, <1>2 DEF SucceededIsUploaded, Complete, Found

LEMMA LegRetryBudget ==
    ASSUME IInv, NEW r \in Runs, NEW s \in Sources, LegStep(r, s) \/ LoseLeg(r, s)
    PROVE  RetryBudget'
  BY LegFrame DEF IInv, RetryBudget

(***************************************************************************)
(* The theorems                                                            *)
(***************************************************************************)

LEMMA NextIInv == IInv /\ [Next]_vars => IInv'
  <1> SUFFICES ASSUME IInv, [Next]_vars PROVE IInv'
    OBVIOUS
  <1>0. TypeOK'
    BY NextTypeOK DEF IInv
  <1>1. ASSUME NEW o \in Origins, NEW t \in Tasks,
               RequestStep(o, t) \/ AbortRequest(o, t) \/ CreateRecord(t)
                 \/ (o \in Admins /\ AdminList(o))
        PROVE  IInv'
    BY <1>0, <1>1, RequestPublishedOnce, RequestRecords, RequestLegs, RequestStatusHasOwner,
       RequestSucceededIsUploaded, RequestRetryBudget DEF IInv
  <1>2. ASSUME NEW r \in Runs, RunStep(r) \/ RunFault(r)
        PROVE  IInv'
    BY <1>0, <1>2, RunPublishedOnce, RunRecords, RunLegsHaveChord, RunLegsMatchPhase,
       RunUploadedMatchesLegs, RunStatusHasOwner, RunSucceededIsUploaded, RunRetryBudget
       DEF IInv
  <1>3. ASSUME NEW r \in Runs, NEW s \in Sources, LegStep(r, s) \/ LoseLeg(r, s)
        PROVE  IInv'
    BY <1>0, <1>3, LegPublishedOnce, LegRecords, LegLegs, LegStatusHasOwner,
       LegSucceededIsUploaded, LegRetryBudget DEF IInv
  <1>4. CASE UNCHANGED vars
    BY <1>0, <1>4 DEF vars, docVars, legVars, IInv, LegsHaveChord, PublishedOnce, CanRetry,
       RequestHasRecord, LegsMatchPhase, HeaderDone, UploadedMatchesLegs, EventHasRecord,
       StatusHasOwner, Owned, Owes, Broken, SucceededIsUploaded, Complete, Found, RetryBudget
  <1>5. QED BY <1>1, <1>2, <1>3, <1>4, NextCases

\* The strengthened invariant holds in every state of the pipeline.
THEOREM Invariance == Spec => []IInv
  BY InitIInv, NextIInv, PTL DEF Spec

\* Whatever is lost, delayed, retried or run twice: a task in a working status has
\* a run that will still decide it, or the loss of a message explains it.
THEOREM NoTaskIsForgotten == Spec => []StatusHasOwner
  <1>1. IInv => StatusHasOwner
    BY DEF IInv
  <1>2. QED BY <1>1, Invariance, PTL

\* SUCCEEDED always means that one run brought all its sources to the target.
THEOREM SuccessIsReal == Spec => []SucceededIsUploaded
  <1>1. IInv => SucceededIsUploaded
    BY DEF IInv
  <1>2. QED BY <1>1, Invariance, PTL

\* The automatic retries of one request are bounded by MEDIA_SHUTTLE_MAX_RETRIES.
THEOREM RetriesAreBounded == Spec => []RetryBudget
  <1>1. IInv => RetryBudget
    BY DEF IInv
  <1>2. QED BY <1>1, Invariance, PTL

\* A consumed event always finds its record, so create_task_from_event creates none.
THEOREM RecordBeforeEvent == Spec => []EventHasRecord
  <1>1. IInv => EventHasRecord
    BY DEF IInv
  <1>2. QED BY <1>1, Invariance, PTL

(***************************************************************************)
(* The life cycle of a task, when nothing fails                            *)
(***************************************************************************)

\* Without faults no message is lost and every request is published.
Undisturbed ==
    /\ \A r \in Runs : phase[r] # "lost" /\ chord[r] # "broken"
    /\ \A o \in Origins, t \in Tasks : request[o][t] # "aborted"

LEMMA NoFaults ==
    ASSUME Faults = {}
    PROVE  /\ \A o \in Origins, t \in Tasks : ~AbortRequest(o, t)
           /\ \A r \in Runs : ~RunFault(r)
           /\ \A r \in Runs, s \in Sources : ~LoseLeg(r, s)
  BY DEF AbortRequest, RunFault, ParseDatabaseError, ScheduleFail, RouteFail, LoseRun,
     LoseScheduling, LoseLeg

LEMMA StaysUndisturbed ==
    ASSUME Faults = {}, IInv, Undisturbed, [Next]_vars
    PROVE  Undisturbed'
  <1>0. /\ phase \in [Runs -> Phase] /\ chord \in [Runs -> Chord]
        /\ request \in [Origins -> [Tasks -> RequestState]]
    BY DEF IInv, TypeOK
  <1>1. ASSUME NEW o \in Origins, NEW t \in Tasks,
               RequestStep(o, t) \/ CreateRecord(t) \/ (o \in Admins /\ AdminList(o))
        PROVE  Undisturbed'
    <2>1. chord' = chord /\ \A r \in Runs : phase'[r] # "lost"
      BY <1>0, <1>1 DEF Undisturbed, RequestStep, PublishCreated, AdminMark, CreateRecord,
         AdminList, legVars
    <2>2. \A p \in Origins, u \in Tasks : request'[p][u] # "aborted"
      <3>1. CASE o \in Admins /\ AdminList(o)
        BY <1>0, <3>1 DEF Undisturbed, AdminList
      <3>2. CASE PublishCreated(o, t) \/ CreateRecord(t) \/ (o \in Admins /\ AdminMark(o, t))
        <4>1. \E p \in Origins, to \in {"sent", "marked"} :
                request' = [request EXCEPT ![p][t] = to]
          BY <3>2 DEF PublishCreated, AdminMark, CreateRecord, AdvanceRequest, Origins
        <4>2. QED BY <1>0, <4>1 DEF Undisturbed
      <3>3. QED BY <1>1, <3>1, <3>2 DEF RequestStep
    <2>3. QED BY <2>1, <2>2 DEF Undisturbed
  <1>2. ASSUME NEW r \in Runs, RunStep(r)
        PROVE  Undisturbed'
    <2>1. request' = request
      BY <1>2, RunPhaseStep DEF IInv
    <2>2. \A q \in Runs : chord'[q] # "broken"
      BY <1>0, <1>2 DEF Undisturbed, RunStep, StartParse, ParseOk, ParseFail, MarkDownloading,
         Schedule, MarkParseFailed, RecordParseError, RouteRetry, RouteDead, ChordFires,
         FinalizeFailed, FinalizeSucceeded, ReportFailure, ReportSuccess, RecordOutcome, legVars
    <2>3. \A q \in Runs : phase'[q] # "lost"
      BY <1>0, <1>2 DEF Undisturbed, RunStep, StartParse, ParseOk, ParseFail, MarkDownloading,
         Schedule, MarkParseFailed, RecordParseError, RouteRetry, RouteDead, ChordFires,
         FinalizeFailed, FinalizeSucceeded, ReportFailure, ReportSuccess, RecordOutcome, Advance
    <2>4. QED BY <2>1, <2>2, <2>3 DEF Undisturbed
  <1>3. ASSUME NEW r \in Runs, NEW s \in Sources, LegStep(r, s)
        PROVE  Undisturbed'
    <2>1. phase' = phase /\ request' = request
      BY <1>3, LegFrame DEF IInv
    <2>2. chord' = chord
      BY <1>3 DEF LegStep, StartDownload, FinishDownload, SkipUpload, StartUpload, UploadOk,
         UploadFail
    <2>3. QED BY <2>1, <2>2 DEF Undisturbed
  <1>4. CASE UNCHANGED vars
    BY <1>4 DEF vars, legVars, Undisturbed
  <1>5. QED BY <1>1, <1>2, <1>3, <1>4, NextCases, NoFaults

\* Nobody leaves a task in a working status.
LEMMA IdleIsSettled ==
    ASSUME IInv, Undisturbed, NEW t \in Tasks, status[t] # "NONE", ~Active(t)
    PROVE  status[t] \in {"SUCCEEDED", "FAILED"}
  <1>1. ~Owned(t)
    BY DEF Undisturbed, Owned, Owes, Broken, Active, InFlight
  <1>2. QED BY <1>1 DEF IInv, TypeOK, StatusHasOwner, Terminal

\* A task without a record has nothing to do.
LEMMA AbsentIsIdle ==
    ASSUME IInv, NEW t \in Tasks, status[t] = "NONE"
    PROVE  ~Active(t)
  <1>1. \A r \in Runs : TaskOf(r) = t => phase[r] = "free"
    BY DEF IInv, EventHasRecord
  <1>2. \A r \in Runs : TaskOf(r) = t => ~LegsActive(r)
    BY <1>1 DEF IInv, LegsMatchPhase, LegsActive, LegActive
  <1>3. \A o \in Origins : request[o][t] = "idle"
    BY DEF IInv, RequestHasRecord
  <1>4. QED BY <1>1, <1>2, <1>3 DEF Active, InFlight, Owing, Settled

\* The life of a task, read off its status and its work.
Labelled == \A t \in Tasks :
    /\ status[t] = "NONE" <=> LifeOf(t) = "absent"
    /\ status[t] # "NONE" /\ Active(t) => LifeOf(t) = "active"
    /\ ~Active(t) /\ status[t] = "SUCCEEDED" => LifeOf(t) = "succeeded"
    /\ ~Active(t) /\ status[t] = "FAILED" => LifeOf(t) = "failed"
    /\ LifeOf(t) \in {"absent", "active", "succeeded", "failed"}

LEMMA LifeLabels == IInv /\ Undisturbed => Labelled
  <1> SUFFICES ASSUME IInv, Undisturbed, NEW t \in Tasks
               PROVE  /\ status[t] = "NONE" <=> LifeOf(t) = "absent"
                      /\ status[t] # "NONE" /\ Active(t) => LifeOf(t) = "active"
                      /\ ~Active(t) /\ status[t] = "SUCCEEDED" => LifeOf(t) = "succeeded"
                      /\ ~Active(t) /\ status[t] = "FAILED" => LifeOf(t) = "failed"
                      /\ LifeOf(t) \in {"absent", "active", "succeeded", "failed"}
    BY DEF Labelled
  <1>1. CASE status[t] = "NONE"
    <2>1. ~Active(t)
      BY <1>1, AbsentIsIdle
    <2>2. LifeOf(t) = "absent"
      BY <1>1, <2>1 DEF LifeOf
    <2>3. QED BY <1>1, <2>2
  <1>2. CASE status[t] # "NONE" /\ Active(t)
    BY <1>2 DEF LifeOf
  <1>3. CASE ~Active(t) /\ status[t] = "SUCCEEDED"
    BY <1>3 DEF LifeOf
  <1>4. CASE ~Active(t) /\ status[t] = "FAILED"
    BY <1>4 DEF LifeOf
  <1>5. QED BY <1>1, <1>2, <1>3, <1>4, IdleIsSettled

LEMMA LifeLabelsNext == IInv' /\ Undisturbed' => Labelled'
  BY LifeLabels, PTL

\* A step is about one task.  It creates its record with work to do; it touches the
\* status of a task at rest only to open it again.
About(u) ==
    /\ \A t \in Tasks : t # u => status'[t] = status[t] /\ (Active(t)' <=> Active(t))
    /\ status[u] = "NONE" => status'[u] = "NONE" \/ Active(u)'
    /\ status[u] # "NONE" => status'[u] # "NONE"
    /\ ~Active(u) => status'[u] = status[u] \/ Active(u)'

LEMMA RunIsAbout ==
    ASSUME IInv, NEW r \in Runs, RunStep(r)
    PROVE  TaskOf(r) \in Tasks /\ About(TaskOf(r))
  <1>0. /\ TypeOK /\ PhaseStep(r) /\ phase \in [Runs -> Phase] /\ request' = request
        /\ phase[r] \in Owing \cup Settled /\ TaskOf(r) \in Tasks
    BY RunPhaseStep, RunFacts DEF IInv, TypeOK
  <1>1. ASSUME NEW q \in Runs, TaskOf(q) # TaskOf(r)
        PROVE  InFlight(q)' <=> InFlight(q)
    <2>1. leg'[q] = leg[q]
      BY <1>1, OtherRuns
    <2>2. phase'[q] = phase[q]
      BY <1>0, <1>1, RunFacts, RetryIsAnother DEF PhaseStep
    <2>3. QED BY <2>1, <2>2 DEF InFlight, LegsActive
  <1>2. \A t \in Tasks : t # TaskOf(r) => (Active(t)' <=> Active(t))
    BY <1>0, <1>1 DEF Active
  <1>3. Active(TaskOf(r)) /\ status[TaskOf(r)] # "NONE"
    BY <1>0 DEF Active, InFlight, IInv, EventHasRecord, Owing, Settled
  <1>4. /\ \A t \in Tasks : t # TaskOf(r) => status'[t] = status[t]
        /\ status'[TaskOf(r)] # "NONE"
    BY <1>0, <1>3, RunStatus DEF TypeOK, Working, Terminal
  <1>5. QED BY <1>0, <1>2, <1>3, <1>4 DEF About

LEMMA LegIsAbout ==
    ASSUME IInv, NEW r \in Runs, NEW s \in Sources, LegStep(r, s)
    PROVE  TaskOf(r) \in Tasks /\ About(TaskOf(r))
  <1>0. /\ TypeOK /\ phase' = phase /\ request' = request /\ TaskOf(r) \in Tasks
        /\ leg[r][s] \in LegActive /\ leg \in [Runs -> [Sources -> Leg]]
    BY LegFrame, RunFacts DEF IInv, TypeOK
  <1>1. \A q \in Runs : q # r => leg'[q] = leg[q]
    BY <1>0, LegFrame
  <1>2. \A t \in Tasks : t # TaskOf(r) => (Active(t)' <=> Active(t))
    BY <1>0, <1>1 DEF Active, InFlight, LegsActive
  <1>3. Active(TaskOf(r))
    BY <1>0 DEF Active, InFlight, LegsActive
  <1>4. phase[r] # "free" \/ chord[r] = "broken"
    BY <1>0 DEF IInv, LegsHaveChord
  <1>5. /\ \A t \in Tasks : t # TaskOf(r) => status'[t] = status[t]
        /\ status'[TaskOf(r)] = status[TaskOf(r)] \/ status'[TaskOf(r)] # "NONE"
    BY <1>0, LegStatus DEF TypeOK, Working
  <1>6. status[TaskOf(r)] # "NONE"
    <2>1. phase[r] # "free"
      BY <1>0 DEF IInv, LegsMatchPhase, LegActive
    <2>2. QED BY <2>1 DEF IInv, EventHasRecord
  <1>7. QED BY <1>0, <1>2, <1>3, <1>5, <1>6 DEF About

LEMMA RequestIsAbout ==
    ASSUME IInv, NEW o \in Origins, NEW t \in Tasks,
           RequestStep(o, t) \/ CreateRecord(t) \/ (o \in Admins /\ AdminList(o))
    PROVE  About(t)
  <1>0. /\ phase \in [Runs -> Phase] /\ request \in [Origins -> [Tasks -> RequestState]]
        /\ status \in [Tasks -> {"NONE"} \cup Working \cup Terminal]
        /\ leg' = leg
    BY DEF IInv, TypeOK, RequestStep, PublishCreated, AdminMark, CreateRecord, AdminList,
       legVars
  <1>1. CASE PublishCreated(o, t)
    <2>1. <<o, t, 0>> \in Runs /\ TaskOf(<<o, t, 0>>) = t
      BY FirstAttempt
    <2>2. /\ phase' = [phase EXCEPT ![<<o, t, 0>>] = "queued"]
          /\ request' = [request EXCEPT ![o][t] = "sent"] /\ status' = status
          /\ request[o][t] = "marked"
      BY <1>1 DEF PublishCreated, AdvanceRequest, docVars
    <2>3. \A q \in Runs : TaskOf(q) # t => phase'[q] = phase[q]
      BY <1>0, <2>1, <2>2
    <2>4. \A p \in Origins, u \in Tasks : u # t => request'[p][u] = request[p][u]
      BY <1>0, <2>2
    <2>5. \A u \in Tasks : u # t => (Active(u)' <=> Active(u))
      BY <1>0, <2>3, <2>4 DEF Active, InFlight, LegsActive
    <2>6. status[t] # "NONE"
      BY <2>2 DEF IInv, RequestHasRecord
    <2>7. QED BY <2>2, <2>5, <2>6 DEF About
  <1>2. CASE (o \in Admins /\ AdminMark(o, t)) \/ CreateRecord(t)
    <2>1. PICK p \in Origins : request' = [request EXCEPT ![p][t] = "marked"]
      BY <1>2 DEF AdminMark, CreateRecord, AdvanceRequest, Origins
    <2>2. phase' = phase /\ status' = [status EXCEPT ![t] = "QUEUED"]
      BY <1>0, <1>2 DEF AdminMark, CreateRecord, SetStatus
    <2>3. Active(t)'
      BY <1>0, <2>1 DEF Active
    <2>4. \A u \in Tasks : u # t => (Active(u)' <=> Active(u))
      BY <1>0, <2>1, <2>2 DEF Active, InFlight, LegsActive
    <2>5. QED BY <1>0, <2>2, <2>3, <2>4 DEF About
  <1>3. CASE o \in Admins /\ AdminList(o)
    <2>1. phase' = phase /\ status' = status
      BY <1>3 DEF AdminList, docVars
    <2>2. \A p \in Origins, u \in Tasks : request'[p][u] = "marked" <=> request[p][u] = "marked"
      BY <1>0, <1>3 DEF AdminList
    <2>3. \A u \in Tasks : Active(u)' <=> Active(u)
      BY <1>0, <2>1, <2>2 DEF Active, InFlight, LegsActive
    <2>4. QED BY <2>1, <2>3 DEF About
  <1>4. QED BY <1>1, <1>2, <1>3 DEF RequestStep

LEMMA LifeStep ==
    ASSUME Faults = {}, IInv, Undisturbed, [Next]_vars
    PROVE  [Lifecycle!LifeNext]_([t \in Tasks |-> LifeOf(t)])
  <1> DEFINE life == [t \in Tasks |-> LifeOf(t)]
  <1>0. IInv' /\ Undisturbed'
    BY NextIInv, StaysUndisturbed
  <1>1. ASSUME NEW u \in Tasks, About(u)
        PROVE  Lifecycle!LifeNext \/ life' = life
    <2>1. \A t \in Tasks : t # u => LifeOf(t)' = LifeOf(t)
      BY <1>1 DEF About, LifeOf
    <2>2. life' = [life EXCEPT ![u] = LifeOf(u)']
      BY <2>1
    <2>3. Labelled /\ Labelled'
      BY <1>0, LifeLabels, LifeLabelsNext
    <2>4. ~Active(u) /\ status[u] # "NONE" => status[u] \in {"SUCCEEDED", "FAILED"}
      BY IdleIsSettled
    <2>6. \/ LifeOf(u)' = LifeOf(u)
          \/ LifeOf(u) = "absent" /\ LifeOf(u)' = "active"
          \/ LifeOf(u) = "active" /\ LifeOf(u)' \in {"succeeded", "failed"}
          \/ LifeOf(u) \in {"succeeded", "failed"} /\ LifeOf(u)' = "active"
      <3>1. CASE status[u] = "NONE"
        BY <1>1, <2>3, <3>1 DEF About, Labelled
      <3>2. CASE status[u] # "NONE" /\ Active(u)
        BY <1>1, <2>3, <3>2 DEF About, Labelled
      <3>3. CASE status[u] # "NONE" /\ ~Active(u)
        BY <1>1, <2>3, <2>4, <3>3 DEF About, Labelled
      <3>4. QED BY <3>1, <3>2, <3>3
    <2>7. life[u] = LifeOf(u)
      OBVIOUS
    <2>8. CASE LifeOf(u)' = LifeOf(u)
      BY <2>1, <2>8
    <2>9. CASE LifeOf(u) = "absent" /\ LifeOf(u)' = "active"
      BY <2>2, <2>7, <2>9 DEF Lifecycle!LifeNext, Lifecycle!Accept
    <2>10. CASE LifeOf(u) = "active" /\ LifeOf(u)' \in {"succeeded", "failed"}
      BY <2>2, <2>7, <2>10 DEF Lifecycle!LifeNext, Lifecycle!Settle
    <2>11. CASE LifeOf(u) \in {"succeeded", "failed"} /\ LifeOf(u)' = "active"
      BY <2>2, <2>7, <2>11 DEF Lifecycle!LifeNext, Lifecycle!Reopen
    <2>12. QED BY <2>6, <2>8, <2>9, <2>10, <2>11
  <1>2. CASE UNCHANGED vars
    <2>1. \A t \in Tasks : LifeOf(t)' = LifeOf(t)
      BY <1>2 DEF vars, docVars, legVars, LifeOf, Active, InFlight, LegsActive
    <2>2. QED BY <2>1
  <1>3. QED
    BY <1>1, <1>2, NextCases, NoFaults, RunIsAbout, LegIsAbout, RequestIsAbout

\* As long as nothing fails the pipeline takes the steps a client is promised, however many
\* manual and automatic retries run beside each other: a task is created once, is settled
\* only when no run of it is left, and is opened again only by an admin.
THEOREM LifecycleIsKept == ASSUME Faults = {} PROVE Spec => Lifecycle!LifeSteps
  <1>1. Init => IInv /\ Undisturbed
    BY InitIInv DEF Init, Undisturbed
  <1>2. Init => Lifecycle!LifeInit
    BY <1>1, LifeLabels DEF Init, Lifecycle!LifeInit, Labelled
  <1>3. IInv /\ Undisturbed /\ [Next]_vars => IInv' /\ Undisturbed'
    BY NextIInv, StaysUndisturbed
  <1>4. IInv /\ Undisturbed /\ [Next]_vars
          => [Lifecycle!LifeNext]_([t \in Tasks |-> LifeOf(t)])
    BY LifeStep
  <1>5. QED BY <1>1, <1>2, <1>3, <1>4, PTL DEF Spec, Lifecycle!LifeSteps
=============================================================================
