------------------------ MODULE RuntimeUploads_proofs ------------------------
(***************************************************************************)
(* Proofs about the Telegram client that the threads of RuntimeUploads     *)
(* share, for any threads, clients, tasks, retry budget and faults.        *)
(***************************************************************************)
EXTENDS RuntimeUploads, CoreRuntime_proofs, TLAPS

USE DEF TelegramTypeOK, Steps, StoppedOnce

\* No client at first.
LEMMA InitClient == UploadInit => ClientInv
  BY UploadAssumption DEF UploadInit, TelegramInit, ClientInv, BuiltUnderLock,
     RegisteredIsLive, OnlyFailedStopsLeak

\* A client that is being built is known to its builder only.
LEMMA BuildKeeps ==
    ASSUME ClientInv, NEW th \in Threads, Build(th) \/ Started(th) \/ StartFails(th)
    PROVE  ClientInv'
  <1> USE UploadAssumption DEF ClientInv, Advance, Hold
  <1>1. CASE Build(th)
    <2>1. PICK c \in Clients : Unused(c) /\ mine' = [mine EXCEPT ![th] = c]
      BY <1>1 DEF Build
    <2>2. TelegramTypeOK' /\ StoppedOnce'
      BY <1>1, <2>1 DEF Build
    <2>3. BuiltUnderLock'
      BY <1>1, <2>1 DEF Build, Unused, BuiltUnderLock
    <2>4. RegisteredIsLive' /\ OnlyFailedStopsLeak'
      BY <1>1, <2>1 DEF Build, RegisteredIsLive, OnlyFailedStopsLeak
    <2>5. QED BY <2>2, <2>3, <2>4
  <1>2. CASE Started(th)
    <2>1. /\ lock = th /\ registered = NoClient /\ mine[th] \in Clients \ live
          /\ \A o \in Threads \ {th} : mine[o] # mine[th] /\ step[o] # "start"
      BY <1>2 DEF Started, BuiltUnderLock
    <2>2. TelegramTypeOK' /\ BuiltUnderLock' /\ StoppedOnce'
      BY <1>2, <2>1 DEF Started, BuiltUnderLock
    <2>3. RegisteredIsLive'
      BY <1>2, <2>1 DEF Started, RegisteredIsLive
    <2>4. OnlyFailedStopsLeak'
      BY <1>2, <2>1 DEF Started, OnlyFailedStopsLeak
    <2>5. QED BY <2>2, <2>3, <2>4
  <1>3. CASE StartFails(th)
    <2>1. \A o \in Threads \ {th} : step[o] # "start"
      BY <1>3 DEF StartFails, BuiltUnderLock
    <2>2. TelegramTypeOK' /\ BuiltUnderLock' /\ StoppedOnce'
      BY <1>3, <2>1 DEF StartFails, BuiltUnderLock
    <2>3. RegisteredIsLive' /\ OnlyFailedStopsLeak'
      BY <1>3 DEF StartFails, RegisteredIsLive, OnlyFailedStopsLeak
    <2>4. QED BY <2>2, <2>3
  <1>4. QED BY <1>1, <1>2, <1>3

\* Using a client changes neither the register nor who runs.
LEMMA SendKeeps ==
    ASSUME ClientInv, NEW th \in Threads,
           BeginUpload(th) \/ GetRegistered(th) \/ Sent(th) \/ SendFails(th)
    PROVE  ClientInv'
  <1> USE UploadAssumption DEF ClientInv, Advance, Hold, BeginUpload, GetRegistered, Sent, SendFails
  <1>1. TelegramTypeOK' /\ StoppedOnce'
    OBVIOUS
  <1>2. BuiltUnderLock'
    BY DEF BuiltUnderLock
  <1>3. RegisteredIsLive' /\ OnlyFailedStopsLeak'
    BY DEF RegisteredIsLive, OnlyFailedStopsLeak
  <1>4. QED BY <1>1, <1>2, <1>3

\* Who takes a client off the register stops it.
LEMMA CloseKeeps ==
    ASSUME ClientInv, NEW th \in Threads, Close(th) \/ Stop(th)
    PROVE  ClientInv'
  <1> USE UploadAssumption DEF ClientInv, Advance, Hold
  <1>1. CASE Close(th)
    <2>1. TelegramTypeOK' /\ BuiltUnderLock' /\ StoppedOnce'
      BY <1>1 DEF Close, BuiltUnderLock, RegisteredIsLive
    <2>2. RegisteredIsLive'
      BY <1>1 DEF Close, RegisteredIsLive
    <2>3. OnlyFailedStopsLeak'
      BY <1>1 DEF Close, OnlyFailedStopsLeak
    <2>4. QED BY <2>1, <2>2, <2>3
  <1>2. CASE Stop(th)
    <2>1. CASE live' = live \ {mine[th]} /\ UNCHANGED adrift
      <3>1. TelegramTypeOK' /\ BuiltUnderLock' /\ StoppedOnce'
        BY <1>2, <2>1 DEF Stop, BuiltUnderLock
      <3>2. RegisteredIsLive' /\ OnlyFailedStopsLeak'
        BY <1>2, <2>1 DEF Stop, RegisteredIsLive, OnlyFailedStopsLeak
      <3>3. QED BY <3>1, <3>2
    <2>2. CASE /\ mine[th] \in Unstoppable
               /\ adrift' = adrift \cup {mine[th]}
               /\ UNCHANGED live
      <3>1. mine[th] \in live /\ mine[th] \in Clients
        BY <1>2, <2>2 DEF Stop
      <3>2. TelegramTypeOK' /\ BuiltUnderLock' /\ StoppedOnce'
        BY <1>2, <2>2, <3>1 DEF Stop, BuiltUnderLock
      <3>3. RegisteredIsLive' /\ OnlyFailedStopsLeak'
        BY <1>2, <2>2 DEF Stop, RegisteredIsLive, OnlyFailedStopsLeak
      <3>4. QED BY <3>2, <3>3
    <2>3. QED BY <1>2, <2>1, <2>2 DEF Stop
  <1>3. QED BY <1>1, <1>2

\* What else a thread does leaves the clients alone.
LEMMA RestKeeps ==
    ASSUME ClientInv,
           \/ UNCHANGED telegramVars
           \/ \E th \in Threads : Rests(th, {"idle", "sent", "failed"})
    PROVE  ClientInv'
  <1>1. CASE UNCHANGED telegramVars
    BY <1>1 DEF ClientInv, telegramVars, BuiltUnderLock, RegisteredIsLive, OnlyFailedStopsLeak
  <1>2. CASE \E th \in Threads : Rests(th, {"idle", "sent", "failed"})
    BY <1>2 DEF ClientInv, Rests, BuiltUnderLock, RegisteredIsLive, OnlyFailedStopsLeak
  <1>3. QED BY <1>1, <1>2

\* Every step of the runtime keeps ClientInv.
LEMMA ClientStep == ClientInv /\ [UploadNext]_allVars => ClientInv'
  <1> SUFFICES ASSUME ClientInv, [UploadNext]_allVars PROVE ClientInv'
    OBVIOUS
  <1>1. CASE \E t \in Tasks : Publish(t) /\ UNCHANGED telegramVars
    BY <1>1, RestKeeps
  <1>2. ASSUME NEW th \in Threads, Work(th) \/ EventRaises(th) PROVE ClientInv'
    <2>1. CASE Turn(th) /\ UNCHANGED telegramVars
      BY <2>1, RestKeeps
    <2>2. CASE Uploading(th)
      BY <2>2, BuildKeeps, SendKeeps, CloseKeeps DEF Uploading, Upload
    <2>3. CASE EventSucceeds(th) \/ EventFails(th) \/ EventRaises(th)
      <3>1. Rests(th, {"idle", "sent", "failed"})
        BY <2>3 DEF EventSucceeds, EventFails, EventRaises, Rests
      <3>2. QED BY <3>1, RestKeeps
    <2>4. QED BY <1>2, <2>1, <2>2, <2>3 DEF Work
  <1>3. CASE UNCHANGED allVars
    BY <1>3, RestKeeps DEF allVars
  <1>4. QED BY <1>1, <1>2, <1>3 DEF UploadNext

\* Hence the clients are always in order.
LEMMA ClientInvariance == UploadSpec => []ClientInv
  BY InitClient, ClientStep, PTL DEF UploadSpec

\* _TELEGRAM_CLIENT never names a client that is not running or is about to be
\* stopped, however many threads find theirs broken.
THEOREM TheRegisteredClientRuns == UploadSpec => []RegisteredIsLive
  <1>1. ClientInv => RegisteredIsLive
    BY DEF ClientInv
  <1>2. QED BY <1>1, ClientInvariance, PTL

\* A client that runs is registered, or the thread that took it off the register
\* stops it next, or a stop() of it has raised.
THEOREM ClientsLeakByFailedStopsOnly == UploadSpec => []OnlyFailedStopsLeak
  <1>1. ClientInv => OnlyFailedStopsLeak
    BY DEF ClientInv
  <1>2. QED BY <1>1, ClientInvariance, PTL
-----------------------------------------------------------------------------
\* The uploads take nothing from the runtime: a thread in a call of the client stays
\* in its loop, and an event ends as it would without Telegram.  So the event
\* queues keep their promises when the threads upload.
THEOREM UploadsAreInvisible == UploadSpec => Spec
  <1>1. UploadInit => Init
    BY DEF UploadInit
  <1>2. [UploadNext]_allVars => [Next]_vars
    <2> SUFFICES ASSUME [UploadNext]_allVars PROVE [Next]_vars
      OBVIOUS
    <2>1. ASSUME NEW th \in Threads, Work(th) \/ EventRaises(th) PROVE [Next]_vars
      <3>1. Turn(th) \/ Succeed(th) \/ Fail(th) \/ Raise(th) \/ UNCHANGED vars
        BY <2>1 DEF Work, Uploading, EventSucceeds, EventFails, EventRaises
      <3>2. QED BY <3>1 DEF Next, Loop
    <2>2. CASE \E t \in Tasks : Publish(t) /\ UNCHANGED telegramVars
      BY <2>2 DEF Next
    <2>3. CASE UNCHANGED allVars
      BY <2>3 DEF allVars
    <2>4. QED BY <2>1, <2>2, <2>3 DEF UploadNext
  <1>3. QED BY <1>1, <1>2, PTL DEF UploadSpec, Spec

\* With the uploads too, an event keeps its one place, a thread survives every race
\* for an event, and no task is given up before its last attempt.
THEOREM EventsSurviveUploads ==
    UploadSpec => [](TypeOK /\ OnePlacePerEvent /\ SomeThreadLives) /\ FailsOnlyAfterRetries
  BY UploadsAreInvisible, TypesHold, EventsKeepTheirPlace, AThreadLives, RetriesAreUsedUp, PTL
=============================================================================
