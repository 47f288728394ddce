--------------------------- MODULE RuntimeUploads ---------------------------
(***************************************************************************)
(* The threads of CoreRuntime, uploading to Telegram: the pipeline a       *)
(* thread runs for an event (core/pipeline/service.py) ends in an upload   *)
(* with the client they share (TelegramClient).  The event succeeds if the *)
(* upload does; it may fail before.  One source for each event.            *)
(***************************************************************************)
EXTENDS CoreRuntime

CONSTANTS Clients, Unstoppable
VARIABLES registered, lock, live, adrift, mine, step

INSTANCE TelegramClient

ASSUME UploadAssumption ==
    /\ NoClient \notin Clients
    /\ Unstoppable \subseteq Clients
    /\ Nobody \notin Threads

telegramVars == <<registered, lock, live, adrift, mine, step>>

allVars == <<vars, telegramVars>>

UploadInit == Init /\ TelegramInit

\* The pipeline has no upload under way, and forgets about the last one.
Rests(th, ended) ==
    /\ step[th] \in ended
    /\ step' = [step EXCEPT ![th] = "idle"]
    /\ UNCHANGED <<registered, lock, live, adrift, mine>>

\* PipelineService.run: parse and download, upload, the final status.
Uploading(th)     == loop[th] = "run" /\ Upload(th) /\ UNCHANGED vars
EventSucceeds(th) == Succeed(th) /\ Rests(th, {"sent"})
EventFails(th)    == Fail(th) /\ Rests(th, {"idle", "failed"})
EventRaises(th)   == Raise(th) /\ Rests(th, {"idle", "sent", "failed"})

Work(th) ==
    \/ Turn(th) /\ UNCHANGED telegramVars
    \/ Uploading(th) \/ EventSucceeds(th) \/ EventFails(th)

UploadNext ==
    \/ \E t \in Tasks : Publish(t) /\ UNCHANGED telegramVars
    \/ \E th \in Threads : Work(th) \/ EventRaises(th)

UploadSpec == UploadInit /\ [][UploadNext]_allVars

\* A thread is in its loop, or in a call of the client, which returns.
UploadFairSpec == UploadSpec /\ \A th \in Threads : WF_allVars(Work(th))
-----------------------------------------------------------------------------
\* A thread that waits for the client, for its lock or for an answer gets on, whatever
\* the others do with the client it holds.
UploadsEnd ==
    \A th \in Threads : []<>(step[th] \in {"idle", "sent", "failed"})
=============================================================================
