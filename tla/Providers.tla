------------------------------ MODULE Providers ------------------------------
(***************************************************************************)
(* The plug-ins of core/providers and the three registries of core/plugins *)
(* that choose among them: what parsing a URL may yield, which downloader  *)
(* a source gets, and where a link that has expired is asked for again.    *)
(*                                                                         *)
(* What a web site answers is open, so a parser is the set of results it   *)
(* may return.  A share holds the files FileA and FileB.                   *)
(***************************************************************************)
EXTENDS Integers, Sequences

CONSTANTS FileA, FileB

Files == {FileA, FileB}
Modes == {"mock", "live"}          \* MEDIA_SHUTTLE_IO_MODE
Forms == {"page", "album", "file"} \* what a URL points at; "file": it ends in .mp4, .zip ...

\* A link to the web page of a file or of the whole share, or to the bytes of a file;
\* n tells the ones a site has issued one after the other.
Page(f)   == [at |-> "page", file |-> f, n |-> 0]
Cdn(f)    == [at |-> "cdn", file |-> f, n |-> 0]
Issued(f, n) == [at |-> "cdn", file |-> f, n |-> n]
\* An image that is shown beside the files of a share.
Preview   == Cdn("share")
Links     == {Page(f) : f \in Files \cup {"share"}} \cup
             {Issued(f, n) : f \in Files, n \in 0 .. 2} \cup {Preview}
NoLink    == [at |-> "none"]

\* file: what the metadata names, "share" if it names nothing.
Source(site, link, file) == [site |-> site, link |-> link, file |-> file]
Plain(site, link)        == Source(site, link, link.file)

\* The URL of a task.
Shown(url) ==
    CASE url.form = "file"  -> Cdn(FileA)
      [] url.form = "page"  -> Page(FileA)
      [] url.form = "album" -> Page("share")
AsShown(url) == <<Plain(url.site, Shown(url))>>

Raises  == <<[site |-> "raises"]>>
Nothing == << >>
\* One file of a share, or both, each with a link of its own.
Listing(site, Link(_)) ==
    {<<Plain(site, Link(FileA))>>, <<Plain(site, Link(FileA)), Plain(site, Link(FileB))>>}

(***************************************************************************)
(* providers/parsers_sites: live                                           *)
(***************************************************************************)

\* A request for the contents may raise, one for the token may not.
GofileSources        == Listing("GOFILE", Cdn) \cup {Nothing, Raises}
ParseGofileLive(url) == {Nothing} \cup GofileSources

\* The links of an album, each once: media pages, and direct ones.
BunkrAlbum == Listing("BUNKR", Page) \cup Listing("BUNKR", Cdn) \cup {Nothing}
BunkrDirectLink == {Cdn(FileA), NoLink}
BunkrSingle ==
    {IF link = NoLink THEN Nothing ELSE <<Plain("BUNKR", link)>> : link \in BunkrDirectLink}
ParseBunkrLive(url) ==
    {Nothing} \cup
    CASE url.form = "album" -> BunkrAlbum
      [] url.form = "page"  -> BunkrSingle
      [] OTHER              -> {}

\* An album may name a file twice, and its links stay pages.
ParseCyberdropAlbumLive(url) ==
    {Nothing, [i \in {1, 2} |-> Plain("CYBERDROP", Page(FileA))]}
      \cup Listing("CYBERDROP", Page)

ParsePixeldrainLive(url) == Listing("PIXELDRAIN", Cdn) \cup {Nothing}

\* The page is only read for a name: its link is resolved by the downloader.  No
\* slug in the URL, no source.
ParseFilesterLive(url)  == {Nothing, AsShown(url)}
ParseTurboLive(url)     == {Nothing, AsShown(url)}
ParseMegaLive(url)      == {Nothing, AsShown(url)}
ParseMediafireLive(url) == {AsShown(url)}

\* All nodes of a share have its page as link and differ in node_handle; if they
\* cannot be listed there is one source, without a handle.
TransferSources(url) ==
    {<<Source("TRANSFERIT", Shown(url), FileA)>>,
     <<Source("TRANSFERIT", Shown(url), FileA), Source("TRANSFERIT", Shown(url), FileB)>>,
     Nothing}
ParseTransfer(url) == {Nothing, <<Source("TRANSFERIT", Shown(url), "share")>>}
ParseTransferLive(url) == (TransferSources(url) \ {Nothing}) \cup ParseTransfer(url)

(***************************************************************************)
(* providers/parsers_sites: mock                                           *)
(***************************************************************************)

ParseGd(url)         == {Nothing, <<Plain("GD", Cdn(FileA))>>}
ParsePixeldrain(url) ==
    {IF url.form = "file" THEN AsShown(url) ELSE <<Plain("PIXELDRAIN", Cdn(FileA))>>}
ParseGeneric(url)    == {<<Plain("GENERIC", Shown(url))>>}
ParseMock(url) ==
    CASE url.site = "GD"         -> ParseGd(url)
      [] url.site = "PIXELDRAIN" -> ParsePixeldrain(url)
      [] url.site = "TRANSFERIT" -> ParseTransfer(url)
      [] url.site \in {"FILESTER", "MEGA", "TURBO"} -> {Nothing, AsShown(url)}
      [] OTHER -> {AsShown(url)}

ParseLive(url) ==
    CASE url.site = "GOFILE"     -> ParseGofileLive(url)
      [] url.site = "BUNKR"      -> ParseBunkrLive(url)
      [] url.site = "CYBERDROP"  -> ParseCyberdropAlbumLive(url)
      [] url.site = "FILESTER"   -> ParseFilesterLive(url)
      [] url.site = "MEGA"       -> ParseMegaLive(url)
      [] url.site = "PIXELDRAIN" -> ParsePixeldrainLive(url)
      [] url.site = "MEDIAFIRE"  -> ParseMediafireLive(url)
      [] url.site = "TRANSFERIT" -> ParseTransferLive(url)
      [] url.site = "TURBO"      -> ParseTurboLive(url)

(***************************************************************************)
(* core/plugins: the active providers in their order, extensions first     *)
(***************************************************************************)

Provider(mode, site, form, does) ==
    [mode |-> mode, site |-> site, form |-> form, does |-> does]
\* The places in the list of the active ones that match; the first of them is asked first.
Asked(providers, mode, site, form) ==
    {i \in DOMAIN providers :
        /\ providers[i].mode \in {"all", mode}
        /\ providers[i].site \in {"any", site}
        /\ providers[i].form \in {"any", form}}
First(places) == CHOOSE i \in places : \A j \in places : i <= j

MockSites == <<"GOFILE", "BUNKR", "CYBERDROP", "CYBERFILE", "FILESTER", "PIXELDRAIN", "GD",
               "MEGA", "SAINT", "TRANSFERIT", "TURBO", "COOMER", "MEDIAFIRE", "YTDL">>
MockProviders == [i \in DOMAIN MockSites |-> Provider("mock", MockSites[i], "any", "mock")]

Live(site) == Provider("live", site, "any", "live")
BuiltinParsers ==
    <<Live("GOFILE"), Provider("live", "BUNKR", "album", "live"), Live("BUNKR"),
      Provider("live", "CYBERDROP", "album", "live"), Live("FILESTER"), Live("MEGA"),
      Live("PIXELDRAIN"), Live("MEDIAFIRE"), Live("TRANSFERIT"), Live("TURBO")>>
      \o MockProviders \o
    <<Provider("mock", "any", "file", "generic"), Provider("all", "any", "any", "generic")>>

Parser(p, url) ==
    CASE p.does = "live"      -> ParseLive(url)
      [] p.does = "mock"      -> ParseMock(url)
      [] p.does = "generic"   -> ParseGeneric(url)
      [] p.does = "extension" -> {Nothing, AsShown(url)}

\* ParserRegistry.parse: the first result that is not empty.
Parsed(mode, extensions, url) ==
    LET all   == extensions \o BuiltinParsers
        asked == Asked(all, mode, url.site, url.form)
        Passed(i) == \A j \in asked : j < i => Nothing \in Parser(all[j], url)
    IN  UNION {Parser(all[i], url) \ {Nothing} : i \in {j \in asked : Passed(j)}}

\* Does: "get" requests the link; "resolve" and "refresh" ask for a link before.
Download(site, does) == Provider("live", site, "any", does)
BuiltinDownloaders ==
    <<Download("GOFILE", "get"), Download("BUNKR", "resolve"), Download("CYBERDROP", "get"),
      Download("CYBERFILE", "get"), Download("FILESTER", "refresh"), Download("PIXELDRAIN", "get"),
      Download("GD", "get"), Download("MEDIAFIRE", "refresh"), Download("SAINT", "get"),
      Download("TRANSFERIT", "refresh"), Download("TURBO", "refresh"), Download("COOMER", "get"),
      Download("MEGA", "refresh"), Download("YTDL", "unsupported")>>
      \o MockProviders \o
    <<Provider("all", "any", "any", "mock")>>

\* Mutant: the live downloader of one site is not registered.
NoMegaDownloader(mode, extensions, source) ==
    LET all   == extensions \o BuiltinDownloaders
        asked == Asked(all, mode, source.site, "any")
    IN  all[First({i \in asked : all[i].mode # "live" \/ all[i].site # "MEGA"})].does
\* DownloaderRegistry.download: the first one that matches; generic_mock matches all.
Downloader(mode, extensions, source) ==
    LET all == extensions \o BuiltinDownloaders
    IN  all[First(Asked(all, mode, source.site, "any"))].does

BuiltinUploaders ==
    <<Live("RCLONE"), Live("TELEGRAM"),
      Provider("mock", "RCLONE", "any", "mock"), Provider("mock", "TELEGRAM", "any", "mock")>>
\* UploaderRegistry.upload; "live" reads the local file, "mock" does not.
Uploader(mode, target) ==
    BuiltinUploaders[First(Asked(BuiltinUploaders, mode, target, "any"))].does

(***************************************************************************)
(* providers/downloaders_sites: the link that is requested                 *)
(***************************************************************************)

\* _looks_like_..._direct_url, is_direct_file_url
IsDirect(link) == link.at = "cdn"

\* Mutant: the attempts are counted from two.
ResolveLater(source, offered, n) ==
    {NoLink} \cup {Issued(f, n + 1) : f \in {source.file} \cap offered}
\* resolve_..._source(source) or (source.page_url); n: how often a link was asked for.
\* offered: the files the share still holds.
ResolveByApi(source, offered, n) ==
    {NoLink} \cup {Issued(f, n) : f \in {source.file} \cap offered}

\* A link that is direct already is handed back as it is.
ResolveFilester(source, offered, n) ==
    IF IsDirect(source.link) THEN {source.link} ELSE ResolveByApi(source, offered, n)
ResolveTurbo(source, offered, n) ==
    IF IsDirect(source.link) THEN {source.link} ELSE ResolveByApi(source, offered, n)
ResolveMega(source, offered, n) == ResolveByApi(source, offered, n)
\* So is a page_url that is the URL of a file.
ResolveMediafire(source, offered, n) ==
    IF source.link = Cdn(FileA) THEN {source.link} ELSE ResolveByApi(source, offered, n)

\* The node with the handle of the source, or the first one.
SelectNode(source, offered) ==
    IF source.file \in offered THEN source.file
    ELSE IF FileA \in offered THEN FileA ELSE FileB
ResolveTransfer(source, offered, n) ==
    {NoLink} \cup IF offered = {} THEN {} ELSE {Issued(SelectNode(source, offered), n)}

Resolve(source, offered, n) ==
    CASE source.site = "FILESTER"   -> ResolveFilester(source, offered, n)
      [] source.site = "TURBO"      -> ResolveTurbo(source, offered, n)
      [] source.site = "MEGA"       -> ResolveMega(source, offered, n)
      [] source.site = "MEDIAFIRE"  -> ResolveMediafire(source, offered, n)
      [] source.site = "TRANSFERIT" -> ResolveTransfer(source, offered, n)

\* Mutant: a refresh that is forced is not different from the first one.
RefreshUnforced(source, offered, n) ==
    IF IsDirect(source.link) THEN {source.link} ELSE Resolve(source, offered, n)
\* _..._refresh_source: the first time (n = 1) only if the link does not look direct.
Refresh(source, offered, n) ==
    IF n = 1 /\ IsDirect(source.link) THEN {source.link} ELSE Resolve(source, offered, n)

\* The URLs on the page of a file: its own, those of related files, images.
OnPage(f, offered) == IF f \in offered THEN {Cdn(g) : g \in Files} \cup {Preview} ELSE {}
\* _resolve_bunkr_actual_url: the first URL on the page that ends like a file, whatever
\* file that is.  A page without one is downloaded itself, as is one that is not at /f/
\* or /v/.
BunkrActual(source, offered) ==
    IF IsDirect(source.link) THEN {source.link}
    ELSE {NoLink, source.link} \cup OnPage(source.file, offered)
=============================================================================
