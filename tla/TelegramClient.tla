--------------------------- MODULE TelegramClient ---------------------------
(***************************************************************************)
(* The Telegram client that all threads of a process upload with           *)
(* (core/providers/uploaders_sites/telegram.py).  It is built by the first *)
(* upload and kept in _TELEGRAM_CLIENT; a failed upload that looks like a  *)
(* broken connection closes what is there, for the next one to build anew. *)
(* The module variable is guarded by a lock, the client itself is not.     *)
(***************************************************************************)
CONSTANTS
    Threads,      \* of one process
    Clients,      \* bound: the clients that exist at the same time
    Unstoppable   \* those whose stop() may raise and leave them running

VARIABLES
    registered,  \* _TELEGRAM_CLIENT
    lock,        \* the thread that holds _CLIENT_LOCK while it starts a client
    live,        \* clients that have been started and not been stopped
    adrift,      \* history: those of them that a stop() has failed to stop
    mine,        \* the client a thread has in hand
    step         \* where the upload of a thread is

Nobody   == "nobody"
NoClient == "no client"
Steps    == {"idle", "get", "start", "send", "close", "stop", "sent", "failed"}

TelegramTypeOK ==
    /\ registered \in Clients \cup {NoClient}
    /\ lock \in Threads \cup {Nobody}
    /\ live \in SUBSET Clients
    /\ adrift \in SUBSET Clients
    /\ mine \in [Threads -> Clients \cup {NoClient}]
    /\ step \in [Threads -> Steps]

TelegramInit ==
    /\ registered = NoClient
    /\ lock = Nobody
    /\ live = {}
    /\ adrift = {}
    /\ mine = [th \in Threads |-> NoClient]
    /\ step = [th \in Threads |-> "idle"]

Advance(th, from, to) == step[th] = from /\ step' = [step EXCEPT ![th] = to]
Hold(th, c) == mine' = [mine EXCEPT ![th] = c]
Unused(c)   == c \notin live /\ registered # c /\ \A th \in Threads : mine[th] # c

\* upload_telegram_live: the file is there and the destination is a chat, or not.
BeginUpload(th) ==
    /\ \E to \in {"get", "failed"} : Advance(th, "idle", to)
    /\ UNCHANGED <<registered, lock, live, adrift, mine>>

(***************************************************************************)
(* _get_telegram_client                                                    *)
(***************************************************************************)

GetRegistered(th) ==
    /\ lock = Nobody
    /\ registered # NoClient
    /\ Advance(th, "get", "send")
    /\ Hold(th, registered)
    /\ UNCHANGED <<registered, lock, live, adrift>>

\* Mutant: a new client is built without the lock.
BuildUnlocked(th) ==
    /\ registered = NoClient
    /\ Advance(th, "get", "start")
    /\ \E c \in Clients : Unused(c) /\ Hold(th, c)
    /\ UNCHANGED <<registered, lock, live, adrift>>
\* No client: one is built, with the lock held until it has started.
Build(th) ==
    /\ lock = Nobody
    /\ registered = NoClient
    /\ Advance(th, "get", "start")
    /\ \E c \in Clients : Unused(c) /\ Hold(th, c)
    /\ lock' = th
    /\ UNCHANGED <<registered, live, adrift>>

Started(th) ==
    /\ Advance(th, "start", "send")
    /\ live' = live \cup {mine[th]}
    /\ registered' = mine[th]
    /\ lock' = Nobody
    /\ UNCHANGED <<adrift, mine>>

\* Mutant: the lock is not given back.
StartFailsLocked(th) ==
    /\ Advance(th, "start", "failed")
    /\ Hold(th, NoClient)
    /\ UNCHANGED <<registered, lock, live, adrift>>
\* No credentials, or start() raises; nothing has been registered.
StartFails(th) ==
    /\ Advance(th, "start", "failed")
    /\ Hold(th, NoClient)
    /\ lock' = Nobody
    /\ UNCHANGED <<registered, live, adrift>>

(***************************************************************************)
(* send_document, and _close_telegram_client when it fails                 *)
(***************************************************************************)

\* Nobody else may have closed the client.
Sent(th) ==
    /\ mine[th] \in live
    /\ Advance(th, "send", "sent")
    /\ Hold(th, NoClient)
    /\ UNCHANGED <<registered, lock, live, adrift>>

\* The exception may be one that invalidates the client, or not.
SendFails(th) ==
    /\ \E to \in {"close", "failed"} : Advance(th, "send", to)
    /\ Hold(th, NoClient)
    /\ UNCHANGED <<registered, lock, live, adrift>>

\* Mutant: the client stays registered until it is stopped.
CloseRegistered(th) ==
    /\ lock = Nobody
    /\ Advance(th, "close", IF registered = NoClient THEN "failed" ELSE "stop")
    /\ Hold(th, registered)
    /\ UNCHANGED <<registered, lock, live, adrift>>
\* What is closed is the client registered by now, whichever one has failed.
Close(th) ==
    /\ lock = Nobody
    /\ Advance(th, "close", IF registered = NoClient THEN "failed" ELSE "stop")
    /\ Hold(th, registered)
    /\ registered' = NoClient
    /\ UNCHANGED <<lock, live, adrift>>

\* Outside of the lock.  An exception of stop() is swallowed: the client may have come
\* down all the same, or run on with nobody to know it.
Stop(th) ==
    /\ Advance(th, "stop", "failed")
    /\ \/ live' = live \ {mine[th]} /\ UNCHANGED adrift
       \/ mine[th] \in Unstoppable /\ adrift' = adrift \cup {mine[th]} /\ UNCHANGED live
    /\ Hold(th, NoClient)
    /\ UNCHANGED <<registered, lock>>

Upload(th) ==
    \/ BeginUpload(th) \/ GetRegistered(th) \/ Build(th) \/ Started(th) \/ StartFails(th)
    \/ Sent(th) \/ SendFails(th) \/ Close(th) \/ Stop(th)
-----------------------------------------------------------------------------
\* The client that the next upload will get has been started, nobody is about to stop
\* it, and no stop() of it has been tried, whatever the other threads found broken.
RegisteredIsLive ==
    registered # NoClient =>
        /\ registered \in live \ adrift
        /\ \A th \in Threads : ~(step[th] = "stop" /\ mine[th] = registered)

\* A stop() that raised is the only way to lose a client that runs: any other is the
\* registered one, or the thread that took it off the register is about to stop it.
OnlyFailedStopsLeak ==
    \A c \in live \ (adrift \cup {registered}) :
        \E th \in Threads : step[th] = "stop" /\ mine[th] = c

\* Why they hold: a client is built under the lock, while none is registered, it is a
\* new one, and nobody else has it before it is registered.
BuiltUnderLock ==
    \A th \in Threads : step[th] = "start" =>
        /\ lock = th
        /\ registered = NoClient
        /\ mine[th] \in Clients \ live
        /\ \A o \in Threads \ {th} : mine[o] # mine[th]

\* A client is stopped once: one that is adrift runs on, so that it is not taken for a
\* new one either.
StoppedOnce ==
    /\ adrift \subseteq live
    /\ \A th \in Threads : step[th] = "stop" =>
        /\ mine[th] \in live \ adrift
        /\ \A o \in Threads \ {th} : ~(step[o] = "stop" /\ mine[o] = mine[th])

ClientInv ==
    TelegramTypeOK /\ BuiltUnderLock /\ StoppedOnce /\ RegisteredIsLive /\ OnlyFailedStopsLeak
=============================================================================
