---------------------------- MODULE QueueRouting ----------------------------
(***************************************************************************)
(* The names of the queues the work on a source goes through, as the       *)
(* publisher builds them (core/queue/tasks.py, core/queue/celery_app.py)   *)
(* and as the workers of a node subscribe (core/queue/worker_process.py).  *)
(***************************************************************************)

CONSTANT
    Target   \* UploadTarget, also MEDIA_SHUTTLE_UPLOAD_QUEUE_SUFFIXES

\* enums.default_site_queue_suffixes
DefaultSites ==
    {"GOFILE", "BUNKR", "CYBERDROP", "CYBERFILE", "FILESTER", "PIXELDRAIN", "GD",
     "MEGA", "MEDIAFIRE", "SAINT", "TRANSFERIT", "TURBO", "COOMER", "YTDL", "GENERIC"}

DownloadQueue(site) == <<"task_download", site>>

\* Mutant: every upload goes to the queue of its target.
UploadQueueOfTarget(affinity, owner) == <<"task_upload", Target>>
UploadQueue(affinity, owner) ==
    IF affinity THEN <<"task_upload", Target, owner>> ELSE <<"task_upload", Target>>

DownloadQueues(sites) == {DownloadQueue(site) : site \in sites}

\* Mutant: the queue of the node is left out.
SharedUploadQueues(affinity, node) == {<<"task_upload", Target>>}
UploadQueues(affinity, node) ==
    {<<"task_upload", Target>>} \cup
    IF affinity THEN {<<"task_upload", Target, node>>} ELSE {}
=============================================================================
