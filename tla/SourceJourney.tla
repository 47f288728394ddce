---------------------------- MODULE SourceJourney ----------------------------
(***************************************************************************)
(* The way of a source: a URL is parsed into sources, a download worker of *)
(* some node fetches each into a local file, an upload worker takes the    *)
(* file to its target and removes it.  The packets in between go through   *)
(* the queues of QueueRouting, the providers are those of Providers.       *)
(* CeleryPipeline has the records and retries of a task; here are links,   *)
(* local files and workers of several nodes, all working at once.          *)
(***************************************************************************)
EXTENDS Integers, Sequences, FiniteSets, QueueRouting, Providers

CONSTANTS
    Nodes,
    MaxLegs,   \* bound: the sources on their way
    Setups     \* how the nodes are configured, and the URL

Legs  == 1 .. MaxLegs
Roles == {"download", "upload"}
Setup == [mode       : Modes,
          affinity   : BOOLEAN,                    \* MEDIA_SHUTTLE_UPLOAD_AFFINITY
          roles      : [Nodes -> SUBSET Roles],
          sites      : SUBSET (DefaultSites \cup {"CUSTOM"}),
                                                   \* MEDIA_SHUTTLE_SITE_QUEUE_SUFFIXES
          extensions : SUBSET {"parse", "download"},
          url        : [site : DefaultSites \cup {"CUSTOM"}, form : Forms]]

ASSUME JourneyAssumption ==
    /\ FileA # FileB
    /\ "share" \notin Files
    /\ MaxLegs \in Nat
    /\ Target \in {"RCLONE", "TELEGRAM"}
    /\ Setups \subseteq Setup
    \* Their direct links are at userstorage.mega.co.nz.
    /\ \A s \in Setups : s.url.site \in {"MEGA", "TRANSFERIT"} => s.url.form # "file"

VARIABLES
    setup,
    offered,   \* files the site still has
    leg,       \* a source and where it is
    disk,      \* what a path of a node holds
    writing,   \* legs whose open file is the one at their path
    sent       \* what an upload has taken to the target

vars == <<setup, offered, leg, disk, writing, sent>>

File(kind, f, whole) == [kind |-> kind, file |-> f, whole |-> whole]
Fake     == File("fake", "share", TRUE)
Contents == {File(kind, f, whole) : kind \in {"media", "page", "fake"},
                                    f \in Files \cup {"share"}, whole \in BOOLEAN}
\* No directory; a directory without a file.
None     == [kind |-> "none"]
Dir      == [kind |-> "dir"]
Absent   == [pc |-> "absent"]
Place    == {"queued", "link", "mkdir", "get", "open", "fill", "upload",
             "unlink", "prune", "over"}
\* next: what follows a cleanup, then how the download or the upload ended.
Leg == [pc      : Place,
        source  : [site : DefaultSites \cup {"CUSTOM"}, link : Links,
                   file : Files \cup {"share"}],
        url     : Links,                   \* the link that is requested
        refused : Links \cup {NoLink},
        node    : Nodes \cup {"none"},     \* owner_node
        at      : Nodes \cup {"none"},     \* where it is worked on
        times   : {1, 2},                  \* how often a link was sought
        next    : {"ok", "again", "failed", "sent", "kept"}]

TypeOK ==
    /\ setup \in Setups
    /\ offered \in SUBSET Files
    /\ leg \in [Legs -> Leg \cup {Absent}]
    /\ disk \in [Nodes -> [Links -> Contents \cup {None, Dir}]]
    /\ writing \in SUBSET Legs
    /\ sent \in [Legs -> Contents \cup {None}]

Init ==
    /\ setup \in Setups
    /\ offered = Files
    /\ leg = [l \in Legs |-> Absent]
    /\ disk = [n \in Nodes |-> [link \in Links |-> None]]
    /\ writing = {}
    /\ sent = [l \in Legs |-> None]

Present == {l \in Legs : leg[l] # Absent}

\* Providers of a module a user has named; loader.py skips one it cannot import.
Extension(kind, does) ==
    IF kind \in setup.extensions THEN <<Provider("all", "CUSTOM", "any", does)>> ELSE << >>

\* A share or one of its files is taken off the site.
Vanish(f) ==
    /\ f \in offered
    /\ offered' = offered \ {f}
    /\ UNCHANGED <<setup, leg, disk, writing, sent>>

\* process_created_event_logic and _schedule_source_pipelines, for one more task with
\* the URL or one more attempt: each source goes to the queue of its site.
Parse ==
    \E found \in Parsed(setup.mode, Extension("parse", "extension"), setup.url) \ {Raises} :
        LET first == Cardinality(Present) + 1
            last  == Cardinality(Present) + Len(found)
        IN  /\ last <= MaxLegs
            /\ leg' = [l \in Legs |->
                 IF l \in first .. last
                 THEN LET s == found[l - first + 1]
                      IN  [pc |-> "queued", source |-> s, url |-> s.link, refused |-> NoLink,
                           node |-> "none", at |-> "none", times |-> 1, next |-> "ok"]
                 ELSE leg[l]]
            /\ UNCHANGED <<setup, offered, disk, writing, sent>>

\* A leg moves on with some of its fields changed.
At(l, pc)    == leg[l] # Absent /\ leg[l].pc = pc
Move(l, new) == leg' = [leg EXCEPT ![l] = new]
To(l, pc)    == [leg[l] EXCEPT !.pc = pc]

\* Mutant: one directory for all that comes from a page.
PathOfPage(source) == Page("share")
\* materialize_path: a hash of download_url names the directory of the file.
Path(source) == source.link

Held(l)       == disk[leg[l].at][Path(leg[l].source)]
Keep(l, what) == disk' = [disk EXCEPT ![leg[l].at][Path(leg[l].source)] = what]
SamePath(l, m) == leg[l].at = leg[m].at /\ Path(leg[l].source) = Path(leg[m].source)

(***************************************************************************)
(* The download worker: process_download_source_logic                      *)
(***************************************************************************)

Does(l)   == Downloader(setup.mode, Extension("download", "get"), leg[l].source)
Failed(l) == [leg[l] EXCEPT !.pc = "upload", !.next = "failed"]

\* A download worker of a node takes the source.
Take(l, n) ==
    LET start == CASE Does(l) = "unsupported"           -> Failed(l)
                   [] Does(l) \in {"resolve", "refresh"} -> To(l, "link")
                   [] OTHER                              -> To(l, "mkdir")
    IN  /\ At(l, "queued")
        /\ "download" \in setup.roles[n]
        /\ DownloadQueue(leg[l].source.site) \in DownloadQueues(setup.sites)
        /\ Move(l, [start EXCEPT !.node = n, !.at = n])
        /\ UNCHANGED <<setup, offered, disk, writing, sent>>

\* The link that is requested; one that was refreshed is the source's own from now on.
\* No answer raises outside of the try block: there is nothing to clean up.
SeekLink(l) ==
    LET source == leg[l].source
        found  == IF Does(l) = "resolve" THEN BunkrActual(source, offered)
                  ELSE Refresh(source, offered, leg[l].times)
    IN  /\ At(l, "link")
        /\ \E link \in found :
             Move(l, IF link = NoLink THEN Failed(l)
                     ELSE [To(l, "mkdir") EXCEPT
                             !.url = link,
                             !.source.link = IF Does(l) = "resolve" THEN @ ELSE link])
        /\ UNCHANGED <<setup, offered, disk, writing, sent>>

Mkdir(l) ==
    /\ At(l, "mkdir")
    /\ Move(l, To(l, IF Does(l) = "mock" THEN "open" ELSE "get"))
    /\ IF Held(l) = None THEN Keep(l, Dir) ELSE UNCHANGED disk
    /\ UNCHANGED <<setup, offered, writing, sent>>

Cleanup(l, next) == [leg[l] EXCEPT !.pc = "unlink", !.next = next]

Answered(l) ==
    /\ At(l, "get")
    /\ leg[l].url.file \in offered \cup {"share"}
    /\ Move(l, To(l, "open"))
    /\ UNCHANGED <<setup, offered, disk, writing, sent>>

\* Mutant: a link that is refused needs no cleanup.
RefusedUnclean(l) ==
    /\ At(l, "get")
    /\ Move(l, IF Does(l) = "refresh" /\ leg[l].times = 1
               THEN [To(l, "link") EXCEPT !.times = 2, !.refused = leg[l].url]
               ELSE Cleanup(l, "failed"))
    /\ UNCHANGED <<setup, offered, disk, writing, sent>>
\* 403 or 404: a link that can be refreshed is asked for once more.
Refused(l) ==
    /\ At(l, "get")
    /\ Move(l, IF Does(l) = "refresh" /\ leg[l].times = 1
               THEN [Cleanup(l, "again") EXCEPT !.refused = leg[l].url]
               ELSE Cleanup(l, "failed"))
    /\ UNCHANGED <<setup, offered, disk, writing, sent>>

\* Any other exception of the request, or of the file system.
DownloadFails(l) ==
    /\ At(l, "get") \/ At(l, "fill")
    /\ Move(l, Cleanup(l, "failed"))
    /\ UNCHANGED <<setup, offered, disk, writing, sent>>

\* write_bytes creates or truncates the file, unless the directory has been pruned.
Open(l) ==
    /\ At(l, "open")
    /\ IF Held(l) = None
       THEN Move(l, Cleanup(l, "failed")) /\ UNCHANGED <<disk, writing>>
       ELSE /\ Move(l, To(l, "fill"))
            /\ Keep(l, File("media", "share", FALSE))
            /\ writing' = writing \cup {l}
    /\ UNCHANGED <<setup, offered, sent>>

Written(l) ==
    IF Does(l) = "mock" THEN Fake
    ELSE File(IF leg[l].url.at = "page" THEN "page" ELSE "media", leg[l].url.file, TRUE)

\* A file that has been unlinked meanwhile is written all the same, and gone.
Fill(l) ==
    /\ At(l, "fill")
    /\ Move(l, To(l, "upload"))
    /\ IF l \in writing THEN Keep(l, Written(l)) ELSE UNCHANGED disk
    /\ writing' = writing \ {l}
    /\ UNCHANGED <<setup, offered, sent>>

(***************************************************************************)
(* cleanup_local_download, by the download or the upload worker            *)
(***************************************************************************)

Unlink(l) ==
    /\ At(l, "unlink")
    /\ Move(l, To(l, "prune"))
    /\ IF Held(l) \in Contents
       THEN Keep(l, Dir) /\ writing' = {m \in writing : ~SamePath(l, m)}
       ELSE UNCHANGED <<disk, writing>>
    /\ UNCHANGED <<setup, offered, sent>>

\* The directory, if nobody has put a file there again.
Prune(l) ==
    /\ At(l, "prune")
    /\ Move(l, CASE leg[l].next = "again" ->
                      [To(l, "link") EXCEPT !.times = 2, !.next = "ok"]
                 [] leg[l].next = "failed" -> Failed(l)
                 [] leg[l].next = "sent"   -> To(l, "over"))
    /\ IF Held(l) = Dir THEN Keep(l, None) ELSE UNCHANGED disk
    /\ UNCHANGED <<setup, offered, writing, sent>>

(***************************************************************************)
(* The upload worker: process_upload_result_logic                          *)
(***************************************************************************)

MayUpload(l, n) ==
    /\ At(l, "upload")
    /\ "upload" \in setup.roles[n]
    /\ UploadQueue(setup.affinity, leg[l].node) \in UploadQueues(setup.affinity, n)

Reads == Uploader(setup.mode, Target) = "live"

\* The packet of a failed download is handed on.
SkipUpload(l, n) ==
    /\ MayUpload(l, n)
    /\ leg[l].next = "failed"
    /\ Move(l, To(l, "over"))
    /\ UNCHANGED <<setup, offered, disk, writing, sent>>

\* A mock uploader reads no file.  The path is that of the node which uploads.
UploadOk(l, n) ==
    LET there == disk[n][Path(leg[l].source)] IN
    /\ MayUpload(l, n)
    /\ leg[l].next = "ok"
    /\ Reads => there \in Contents
    /\ sent' = [sent EXCEPT ![l] = IF Reads THEN there ELSE Fake]
    /\ Move(l, [Cleanup(l, "sent") EXCEPT !.at = n])
    /\ UNCHANGED <<setup, offered, disk, writing>>

\* No file at the path, or the target refuses it: the file stays where it is.
UploadFails(l, n) ==
    /\ MayUpload(l, n)
    /\ leg[l].next = "ok"
    /\ Reads
    /\ Move(l, [To(l, "over") EXCEPT !.next = "kept"])
    /\ UNCHANGED <<setup, offered, disk, writing, sent>>

-----------------------------------------------------------------------------
Step(l) ==
    \/ SeekLink(l) \/ Mkdir(l) \/ Answered(l) \/ Refused(l) \/ DownloadFails(l)
    \/ Open(l) \/ Fill(l) \/ Unlink(l) \/ Prune(l)
    \/ \E n \in Nodes : Take(l, n) \/ SkipUpload(l, n) \/ UploadOk(l, n) \/ UploadFails(l, n)

Next ==
    \/ Parse
    \/ \E f \in Files : Vanish(f)
    \/ \E l \in Legs : Step(l)

Spec == Init /\ [][Next]_vars

\* Every worker goes on with what it has taken, and takes what waits.
FairSpec == Spec /\ \A l \in Legs : WF_vars(Step(l))
-----------------------------------------------------------------------------
\* The sources are of different files that the site still has: none of them meets
\* another one at its path.
Apart ==
    /\ \A l \in Present : leg[l].source.file \in offered
    /\ \A l, m \in Present : leg[l].source.file = leg[m].source.file => l = m

\* Whatever other legs fetch, refresh, clean up and prune on the same disks at the
\* same time, and whatever nodes take it: what is uploaded for a source is the whole
\* of the file that was requested for it.  That file is its own, but for a link that
\* was looked up on a page of BUNKR: there it may be any file the page shows.
WholeFiles ==
    Apart => \A l \in Present : sent[l] # None /\ sent[l].kind # "fake" =>
                 /\ sent[l] = File(sent[l].kind, leg[l].url.file, TRUE)
                 /\ \/ sent[l].file = leg[l].source.file
                    \/ leg[l].source.site = "BUNKR" /\ leg[l].source.link.at = "page"

\* With upload affinity, a file is on the disk of every node whose worker may take
\* its packet, until one does.
FileAwaitsUpload ==
    setup.affinity /\ Apart =>
        \A l \in Present : leg[l].next = "ok" =>
            \A n \in Nodes : MayUpload(l, n) =>
                disk[n][Path(leg[l].source)] = Written(l)

\* When all is over, the only things left on a disk are the files whose upload failed:
\* no half of a download, and no directory, whoever pruned whose.
NoLitter ==
    setup.affinity /\ (\A l \in Present : leg[l].pc = "over") =>
        \A n \in Nodes, link \in Links : disk[n][link] # None =>
            \E l \in Present : /\ leg[l].next = "kept"
                              /\ leg[l].at = n /\ Path(leg[l].source) = link

\* In live mode no listed site but GENERIC has an invented file uploaded, and only two
\* sites a web page in place of the media.
LiveIsLive ==
    setup.mode = "live" /\ Apart =>
        \A l \in Present : sent[l] # None /\ leg[l].source.site \in DefaultSites =>
            \/ sent[l].kind = "media"
            \/ sent[l].kind = "page" /\ leg[l].source.site \in {"BUNKR", "CYBERDROP"}
            \/ sent[l].kind = "fake" /\ leg[l].source.site = "GENERIC"

\* A link the site has refused is not requested again after the forced refresh.  It is
\* where a direct link is handed back as it is: FILESTER, TURBO, and MEDIAFIRE when
\* the page is the file.
RetryAsksAnew ==
    \A l \in Present : leg[l].pc = "get" /\ leg[l].url = leg[l].refused =>
        \/ leg[l].source.site \in {"FILESTER", "TURBO"}
        \/ leg[l].source.site = "MEDIAFIRE" /\ setup.url.form = "file"

\* Every source comes to its end, by an upload or by a failure, if its site has a queue
\* that is read, and every node that downloads also uploads.
Served ==
    /\ \E n \in Nodes : "download" \in setup.roles[n]
    /\ \A n \in Nodes : "download" \in setup.roles[n] => "upload" \in setup.roles[n]
LegsEnd ==
    \A l \in Legs :
        []<>(leg[l] = Absent \/ leg[l].pc = "over" \/ ~Served
               \/ leg[l].source.site \notin setup.sites)
=============================================================================
