------------------------ MODULE SourceJourney_proofs ------------------------
(***************************************************************************)
(* Proofs about SourceJourney for any nodes, set-ups and number of legs.   *)
(***************************************************************************)
EXTENDS SourceJourney, SequenceTheorems, FiniteSetTheorems, WellFoundedInduction, TLAPS

(***************************************************************************)
(* The registries                                                          *)
(***************************************************************************)

LEMMA FirstIsLeast ==
    ASSUME NEW S \in SUBSET Nat, S # {}
    PROVE  First(S) \in S /\ \A j \in S : First(S) <= j
  <1> DEFINE R == {ss \in Nat \X Nat : ss[1] < ss[2]}
  <1>0. IsWellFoundedOn(R, Nat)
    BY NatLessThanWellFounded, Zenon DEF OpToRel
  <1>9. \A i, j \in Nat : j < i => <<j, i>> \in R
    BY SMT
  <1> HIDE DEF R
  <1>1. PICK i \in S : \A j \in S : ~(<<j, i>> \in R)
    BY <1>0, WFMin, Zenon
  <1>2. ASSUME NEW j \in S PROVE i <= j
    <2>1. i \in Nat /\ j \in Nat
      OBVIOUS
    <2>2. ~(j < i)
      BY <1>1, <1>9, <2>1, Zenon
    <2>3. QED BY <2>1, <2>2
  <1>3. QED BY <1>2 DEF First

LEMMA Joined ==
    ASSUME NEW S, NEW s \in Seq(S), NEW t \in Seq(S)
    PROVE  /\ s \o t \in Seq(S)
           /\ Len(s \o t) = Len(s) + Len(t)
           /\ \A i \in 1 .. Len(s) : (s \o t)[i] = s[i]
           /\ \A i \in 1 .. Len(t) : (s \o t)[Len(s) + i] = t[i]
  <1>1. Len(s) \in Nat /\ Len(t) \in Nat
    BY LenProperties
  <1>2. \A i \in 1 .. Len(s) : (s \o t)[i] = s[i]
    <2>1. TAKE i \in 1 .. Len(s)
    <2>2. i \in 1 .. Len(s) + Len(t) /\ i <= Len(s)
      BY <1>1
    <2>3. QED BY <2>2, ConcatProperties
  <1>3. \A i \in 1 .. Len(t) : (s \o t)[Len(s) + i] = t[i]
    <2>1. TAKE i \in 1 .. Len(t)
    <2>2. /\ Len(s) + i \in 1 .. Len(s) + Len(t) /\ ~(Len(s) + i <= Len(s))
          /\ Len(s) + i - Len(s) = i
      BY <1>1
    <2>3. QED BY <2>2, ConcatProperties
  <1>4. QED BY <1>1, <1>2, <1>3, ConcatProperties

Sites == DefaultSites \cup {"CUSTOM"}
LiveSites == {"GOFILE", "BUNKR", "CYBERDROP", "FILESTER", "MEGA", "PIXELDRAIN", "MEDIAFIRE",
              "TRANSFERIT", "TURBO"}

\* What the entries of the parser tables have in common.
ParserEntry ==
    {p \in [mode : {"all", "mock", "live"}, site : Sites \cup {"any"}, form : Forms \cup {"any"},
            does : {"live", "mock", "generic", "extension"}] :
        /\ p.does = "live" => p.mode = "live" /\ p.site \in LiveSites
        /\ p.does = "mock" => p.mode = "mock"
        /\ p.does = "extension" => p.site = "CUSTOM"}

LEMMA MockProvidersAreEntries ==
    /\ MockProviders \in Seq(ParserEntry)
    /\ \A i \in DOMAIN MockProviders : MockProviders[i].mode = "mock"
                                       /\ MockProviders[i].does = "mock"
  <1>1. MockSites \in Seq(Sites) /\ DOMAIN MockSites = 1 .. 14
    BY DEF MockSites, Sites, DefaultSites
  <1>2. \A i \in 1 .. 14 : MockSites[i] \in Sites
    BY <1>1, ElementOfSeq, LenProperties
  <1>3. MockProviders \in [1 .. 14 -> ParserEntry]
    BY <1>1, <1>2 DEF MockProviders, ParserEntry, Provider
  <1>4. QED BY <1>1, <1>3 DEF MockProviders, Provider

LEMMA BuiltinParsersAreEntries == BuiltinParsers \in Seq(ParserEntry)
  <1> DEFINE live == <<Live("GOFILE"), Provider("live", "BUNKR", "album", "live"), Live("BUNKR"),
      Provider("live", "CYBERDROP", "album", "live"), Live("FILESTER"), Live("MEGA"),
      Live("PIXELDRAIN"), Live("MEDIAFIRE"), Live("TRANSFERIT"), Live("TURBO")>>
             last == <<Provider("mock", "any", "file", "generic"),
                       Provider("all", "any", "any", "generic")>>
  <1>1. live \in Seq(ParserEntry)
    BY DEF ParserEntry, Live, Provider, Sites, DefaultSites, LiveSites, Forms
  <1>2. last \in Seq(ParserEntry)
    BY DEF ParserEntry, Provider, Forms
  <1> HIDE DEF live, last
  <1>3. live \o MockProviders \in Seq(ParserEntry)
    BY <1>1, MockProvidersAreEntries, ConcatProperties
  <1>4. (live \o MockProviders) \o last \in Seq(ParserEntry)
    BY <1>2, <1>3, ConcatProperties
  <1>5. QED BY <1>4 DEF BuiltinParsers, live, last

DownloadSites == {MockSites[i] : i \in 1 .. 14}
RefreshSites  == {"FILESTER", "MEDIAFIRE", "TRANSFERIT", "TURBO", "MEGA"}
LiveDoes(site) ==
    IF site \in RefreshSites THEN "refresh"
    ELSE IF site = "BUNKR" THEN "resolve"
    ELSE IF site = "YTDL" THEN "unsupported" ELSE "get"
AProvider == [mode : {"all", "mock", "live"}, site : Sites \cup {"any"},
              form : Forms \cup {"any"},
              does : {"live", "mock", "generic", "extension", "get", "resolve", "refresh",
                      "unsupported"}]

\* The downloaders: those of the sites, one for each; the mocks; the one for all.
LEMMA DownloaderTable ==
    /\ BuiltinDownloaders \in Seq(AProvider)
    /\ Len(BuiltinDownloaders) = 29
    /\ \A i \in 1 .. 29 :
         LET p == BuiltinDownloaders[i]
         IN  /\ p.form = "any"
             /\ \/ i <= 14 /\ p.mode = "live" /\ p.site \in DownloadSites
                   /\ p.does = LiveDoes(p.site)
                \/ i > 14 /\ i < 29 /\ p.mode = "mock" /\ p.does = "mock"
                \/ i = 29 /\ p.mode = "all" /\ p.site = "any" /\ p.does = "mock"
    /\ \A s \in DownloadSites : \E i \in 1 .. 14 : BuiltinDownloaders[i].site = s
  <1> DEFINE live ==
    <<Download("GOFILE", "get"), Download("BUNKR", "resolve"), Download("CYBERDROP", "get"),
      Download("CYBERFILE", "get"), Download("FILESTER", "refresh"), Download("PIXELDRAIN", "get"),
      Download("GD", "get"), Download("MEDIAFIRE", "refresh"), Download("SAINT", "get"),
      Download("TRANSFERIT", "refresh"), Download("TURBO", "refresh"), Download("COOMER", "get"),
      Download("MEGA", "refresh"), Download("YTDL", "unsupported")>>
             last == <<Provider("all", "any", "any", "mock")>>
  <1>1. DownloadSites = {"GOFILE", "BUNKR", "CYBERDROP", "CYBERFILE", "FILESTER", "PIXELDRAIN",
            "GD", "MEGA", "SAINT", "TRANSFERIT", "TURBO", "COOMER", "MEDIAFIRE", "YTDL"}
    BY DEF DownloadSites, MockSites
  <1>2. live \in Seq(AProvider) /\ Len(live) = 14
    BY DEF Download, Provider, AProvider, Sites, DefaultSites
  <1>3. \A i \in 1 .. 14 :
          /\ live[i].form = "any" /\ live[i].mode = "live"
          /\ live[i].site \in DownloadSites /\ live[i].does = LiveDoes(live[i].site)
    BY <1>1 DEF Download, Provider, LiveDoes, RefreshSites
  <1>4. \A s \in DownloadSites : \E i \in 1 .. 14 : live[i].site = s
    BY <1>1 DEF Download, Provider
  <1>5. last \in Seq(AProvider) /\ Len(last) = 1
        /\ last[1].mode = "all" /\ last[1].site = "any" /\ last[1].does = "mock"
        /\ last[1].form = "any"
    BY DEF Provider, AProvider
  <1>6. MockProviders \in Seq(AProvider) /\ Len(MockProviders) = 14
        /\ \A i \in 1 .. 14 : /\ MockProviders[i].mode = "mock"
                              /\ MockProviders[i].does = "mock"
                              /\ MockProviders[i].form = "any"
    <2>1. ParserEntry \subseteq AProvider
      BY DEF ParserEntry, AProvider
    <2>2. MockProviders \in Seq(AProvider)
      BY <2>1, MockProvidersAreEntries, SeqMonotonic
    <2>3. DOMAIN MockProviders = 1 .. 14
      BY DEF MockProviders, MockSites
    <2>4. QED BY <2>2, <2>3, LenProperties, MockProvidersAreEntries DEF MockProviders, Provider
  <1> HIDE DEF live, last
  <1>7. /\ live \o MockProviders \in Seq(AProvider)
        /\ Len(live \o MockProviders) = 14 + 14
        /\ \A i \in 1 .. 14 : (live \o MockProviders)[i] = live[i]
        /\ \A i \in 1 .. 14 : (live \o MockProviders)[14 + i] = MockProviders[i]
    <2>1. LET both == live \o MockProviders
          IN  /\ both \in Seq(AProvider)
              /\ Len(both) = Len(live) + Len(MockProviders)
              /\ \A i \in 1 .. Len(live) : both[i] = live[i]
              /\ \A i \in 1 .. Len(MockProviders) : both[Len(live) + i] = MockProviders[i]
      <3>1. live \in Seq(AProvider) /\ MockProviders \in Seq(AProvider)
        BY <1>2, <1>6
      <3>2. QED BY <3>1, Joined, SMT
    <2>2. Len(live) = 14 /\ Len(MockProviders) = 14
      BY <1>2, <1>6
    <2>3. QED BY <2>1, <2>2
  <1>8. BuiltinDownloaders = (live \o MockProviders) \o last
    BY DEF BuiltinDownloaders, live, last
  <1>9. /\ BuiltinDownloaders \in Seq(AProvider)
        /\ Len(BuiltinDownloaders) = 14 + 14 + 1
        /\ \A i \in 1 .. 14 + 14 : BuiltinDownloaders[i] = (live \o MockProviders)[i]
        /\ \A i \in 1 .. 1 : BuiltinDownloaders[14 + 14 + i] = last[i]
    <2> DEFINE both == live \o MockProviders
    <2>1. both \in Seq(AProvider) /\ Len(both) = 14 + 14
      BY <1>7
    <2> HIDE DEF both
    <2>2. /\ both \o last \in Seq(AProvider)
          /\ Len(both \o last) = Len(both) + Len(last)
          /\ \A i \in 1 .. Len(both) : (both \o last)[i] = both[i]
          /\ \A i \in 1 .. Len(last) : (both \o last)[Len(both) + i] = last[i]
      <3>1. both \in Seq(AProvider) /\ last \in Seq(AProvider)
        BY <2>1, <1>5
      <3>2. QED BY <3>1, Joined, SMT
    <2>3. BuiltinDownloaders = both \o last
      BY <1>8 DEF both
    <2>4. /\ BuiltinDownloaders \in Seq(AProvider)
          /\ Len(BuiltinDownloaders) = 14 + 14 + 1
          /\ \A i \in 1 .. 14 + 14 : BuiltinDownloaders[i] = both[i]
          /\ \A i \in 1 .. 1 : BuiltinDownloaders[14 + 14 + i] = last[i]
      BY <2>1, <2>2, <2>3, <1>5
    <2>5. QED BY <2>4 DEF both
  <1>10. /\ \A i \in 1 .. 14 : BuiltinDownloaders[i] = live[i]
         /\ \A i \in 1 .. 14 : BuiltinDownloaders[14 + i] = MockProviders[i]
         /\ BuiltinDownloaders[29] = last[1]
         /\ Len(BuiltinDownloaders) = 29
    <2>1. \A i \in 1 .. 14 : i \in 1 .. 14 + 14 /\ 14 + i \in 1 .. 14 + 14
      OBVIOUS
    <2>2. 14 + 14 + 1 = 29 /\ 1 \in 1 .. 1
      OBVIOUS
    <2>3. \A i \in 1 .. 14 : BuiltinDownloaders[i] = live[i]
      BY <2>1, <1>7, <1>9, Zenon
    <2>4. \A i \in 1 .. 14 : BuiltinDownloaders[14 + i] = MockProviders[i]
      BY <2>1, <1>7, <1>9, Zenon
    <2>5. QED BY <2>2, <2>3, <2>4, <1>9, Zenon
  <1>11. ASSUME NEW i \in 1 .. 29
         PROVE  LET p == BuiltinDownloaders[i]
                IN  /\ p.form = "any"
                    /\ \/ i <= 14 /\ p.mode = "live" /\ p.site \in DownloadSites
                          /\ p.does = LiveDoes(p.site)
                       \/ i > 14 /\ i < 29 /\ p.mode = "mock" /\ p.does = "mock"
                       \/ i = 29 /\ p.mode = "all" /\ p.site = "any" /\ p.does = "mock"
    <2>1. CASE i <= 14
      BY <2>1, <1>3, <1>10
    <2>2. CASE i > 14 /\ i <= 28
      <3>1. i - 14 \in 1 .. 14 /\ i < 29 /\ ~(i <= 14)
        BY <2>2
      <3>2. BuiltinDownloaders[i] = MockProviders[i - 14]
        <4>1. i = 14 + (i - 14)
          OBVIOUS
        <4>2. QED BY <3>1, <4>1, <1>10
      <3>3. QED BY <3>1, <3>2, <1>6, <2>2
    <2>3. CASE i = 29
      BY <2>3, <1>5, <1>10
    <2>4. QED BY <2>1, <2>2, <2>3
  <1>12. \A s \in DownloadSites : \E i \in 1 .. 14 : BuiltinDownloaders[i].site = s
    BY <1>4, <1>10
  <1>13. QED BY <1>9, <1>10, <1>11, <1>12, Zenon

\* An extension for the sites of its user, of the parsers or of the downloaders.
Custom(does) == {<< >>, <<Provider("all", "CUSTOM", "any", does)>>}

LEMMA CustomIsProvider ==
    ASSUME NEW does \in {"extension", "get"}, NEW e \in Custom(does)
    PROVE  /\ e \in Seq(AProvider) /\ Len(e) \in {0, 1}
           /\ \A i \in 1 .. Len(e) : e[i] = Provider("all", "CUSTOM", "any", does)
  <1>1. CASE e = << >>
    BY <1>1
  <1>2. CASE e = <<Provider("all", "CUSTOM", "any", does)>>
    <2>1. Provider("all", "CUSTOM", "any", does) \in AProvider
      BY DEF AProvider, Provider, Sites
    <2> HIDE DEF AProvider
    <2>2. QED BY <1>2, <2>1
  <1>3. QED BY <1>1, <1>2 DEF Custom

\* Which downloader a source gets.  It is here that the order of the registry matters:
\* the one of the site comes before the mock that takes all.
LEMMA DownloaderIs ==
    ASSUME NEW mode \in Modes, NEW e \in Custom("get"), NEW source, source.site \in Sites
    PROVE  LET d == Downloader(mode, e, source)
           IN  \/ mode = "live" /\ source.site \in DownloadSites /\ d = LiveDoes(source.site)
               \/ source.site = "CUSTOM" /\ d = "get"
               \/ d = "mock" /\ (mode = "live" => source.site \notin DownloadSites)
  <1> DEFINE all   == e \o BuiltinDownloaders
             asked == Asked(all, mode, source.site, "any")
             f     == First(asked)
             n     == Len(e)
  <1>1. e \in Seq(AProvider) /\ n \in {0, 1}
        /\ \A i \in 1 .. n : e[i] = Provider("all", "CUSTOM", "any", "get")
    BY CustomIsProvider
  <1>2. BuiltinDownloaders \in Seq(AProvider) /\ Len(BuiltinDownloaders) = 29
    BY DownloaderTable
  <1> HIDE DEF all
  <1>3. /\ all \in Seq(AProvider) /\ Len(all) = n + Len(BuiltinDownloaders)
        /\ \A i \in 1 .. n : all[i] = e[i]
        /\ \A i \in 1 .. Len(BuiltinDownloaders) : all[n + i] = BuiltinDownloaders[i]
    <2>1. e \in Seq(AProvider) /\ BuiltinDownloaders \in Seq(AProvider)
      BY <1>1, <1>2
    <2>2. QED BY <2>1, Joined, SMT DEF all
  <1> HIDE DEF n
  <1>4. /\ DOMAIN all = 1 .. n + 29
        /\ \A i \in 1 .. 29 : n + i \in 1 .. n + 29 /\ all[n + i] = BuiltinDownloaders[i]
    <2>1. DOMAIN all = 1 .. Len(all)
      BY <1>3, LenProperties, Zenon
    <2>2. Len(all) = n + 29
      BY <1>2, <1>3
    <2>3. \A i \in 1 .. 29 : n + i \in 1 .. n + 29
      BY <1>1
    <2>4. QED BY <2>1, <2>2, <2>3, <1>2, <1>3
  <1>5. \A i \in DOMAIN all :
          i \in asked <=> /\ all[i].mode \in {"all", mode}
                          /\ all[i].site \in {"any", source.site}
                          /\ all[i].form = "any"
    BY DEF Asked
  <1>6. asked \in SUBSET Nat /\ asked \subseteq DOMAIN all
    <2>1. asked \subseteq DOMAIN all
      BY Zenon DEF Asked
    <2>2. DOMAIN all \subseteq Nat
      BY <1>1, <1>4
    <2>3. QED BY <2>1, <2>2
  <1> HIDE DEF asked
  <1>7. n + 29 \in asked
    <2>1. n + 29 \in DOMAIN all /\ all[n + 29] = BuiltinDownloaders[29]
      BY <1>1, <1>4
    <2>2. ~(29 <= 14) /\ ~(29 < 29) /\ 29 \in 1 .. 29
      OBVIOUS
    <2>3. /\ BuiltinDownloaders[29].mode = "all" /\ BuiltinDownloaders[29].site = "any"
          /\ BuiltinDownloaders[29].form = "any"
      BY <2>2, DownloaderTable
    <2>4. QED BY <2>1, <2>3, <1>5, Zenon
  <1>8. f \in asked /\ \A j \in asked : f <= j
    BY <1>6, <1>7, FirstIsLeast
  <1>9. Downloader(mode, e, source) = all[f].does
    BY DEF Downloader, all, asked
  <1>10. "any" \notin DownloadSites /\ "CUSTOM" \notin DownloadSites /\ source.site # "any"
    BY DEF DownloadSites, MockSites, Sites, DefaultSites
  <1> HIDE DEF f
  <1>11. CASE f \in 1 .. n
    <2>1. all[f] = Provider("all", "CUSTOM", "any", "get")
      BY <1>1, <1>3, <1>11
    <2>2. QED BY <2>1, <1>5, <1>6, <1>8, <1>9 DEF Provider
  <1>12. CASE f \notin 1 .. n
    <2>1. PICK i \in 1 .. 29 : f = n + i
      <3>1. f \in 1 .. n + 29
        BY <1>4, <1>6, <1>8
      <3>2. f - n \in 1 .. 29 /\ f = n + (f - n)
        BY <3>1, <1>12, <1>1
      <3>3. QED BY <3>2
    <2> DEFINE p == BuiltinDownloaders[i]
    <2>2. all[f] = p
      BY <1>4, <2>1
    <2>3. p.mode \in {"all", mode} /\ p.site \in {"any", source.site}
      BY <2>2, <1>5, <1>6, <1>8
    <2>4. \/ i <= 14 /\ p.mode = "live" /\ p.site \in DownloadSites
             /\ p.does = LiveDoes(p.site)
          \/ i > 14 /\ i < 29 /\ p.mode = "mock" /\ p.does = "mock"
          \/ i = 29 /\ p.mode = "all" /\ p.site = "any" /\ p.does = "mock"
      BY DownloaderTable
    <2>5. ASSUME mode = "live", source.site \in DownloadSites
          PROVE  i <= 14
      <3>1. PICK k \in 1 .. 14 : BuiltinDownloaders[k].site = source.site
        BY <2>5, DownloaderTable
      <3>2. n + k \in asked
        <4>1. k \in 1 .. 29 /\ ~(k > 14) /\ k # 29
          OBVIOUS
        <4>2. BuiltinDownloaders[k].mode = "live" /\ BuiltinDownloaders[k].form = "any"
          BY <4>1, DownloaderTable
        <4>3. QED BY <3>1, <4>1, <4>2, <1>4, <1>5, <2>5
      <3>3. n + i <= n + k
        BY <3>2, <1>8, <2>1
      <3>4. QED BY <3>3, <1>1
    <2> HIDE DEF p
    <2>6. QED BY <2>2, <2>3, <2>4, <2>5, <1>9, <1>10 DEF Modes
  <1>13. QED BY <1>11, <1>12

\* A live uploader reads the file.
LEMMA UploaderIs ==
    ASSUME NEW mode \in Modes, NEW target \in {"RCLONE", "TELEGRAM"}
    PROVE  Uploader(mode, target) = mode
  <1> DEFINE asked == Asked(BuiltinUploaders, mode, target, "any")
             f     == First(asked)
  <1>1. /\ DOMAIN BuiltinUploaders = 1 .. 4
        /\ BuiltinUploaders[1] = Live("RCLONE") /\ BuiltinUploaders[2] = Live("TELEGRAM")
        /\ BuiltinUploaders[3] = Provider("mock", "RCLONE", "any", "mock")
        /\ BuiltinUploaders[4] = Provider("mock", "TELEGRAM", "any", "mock")
    BY DEF BuiltinUploaders
  <1>2. /\ asked \in SUBSET (1 .. 4)
        /\ \A i \in asked : BuiltinUploaders[i].mode \in {"all", mode}
    BY <1>1 DEF Asked
  <1>3. asked # {}
    <2>1. CASE mode = "live" /\ target = "RCLONE"
      BY <2>1, <1>1 DEF Asked, Live, Provider
    <2>2. CASE mode = "live" /\ target = "TELEGRAM"
      BY <2>2, <1>1 DEF Asked, Live, Provider
    <2>3. CASE mode = "mock" /\ target = "RCLONE"
      BY <2>3, <1>1 DEF Asked, Live, Provider
    <2>4. CASE mode = "mock" /\ target = "TELEGRAM"
      BY <2>4, <1>1 DEF Asked, Live, Provider
    <2>5. QED BY <2>1, <2>2, <2>3, <2>4 DEF Modes
  <1> HIDE DEF asked
  <1>4. f \in asked
    <2>1. asked \in SUBSET Nat
      BY <1>2
    <2>2. QED BY <2>1, <1>3, FirstIsLeast
  <1>5. f \in {1, 2, 3, 4} /\ BuiltinUploaders[f].mode \in {"all", mode}
    <2>1. f \in 1 .. 4 /\ BuiltinUploaders[f].mode \in {"all", mode}
      BY <1>2, <1>4, Zenon
    <2>2. QED BY <2>1
  <1>6. Uploader(mode, target) = BuiltinUploaders[f].does
    BY DEF Uploader, asked
  <1> HIDE DEF f
  <1>7. QED BY <1>1, <1>5, <1>6 DEF Live, Provider, Modes

(***************************************************************************)
(* What a URL may be parsed into                                           *)
(***************************************************************************)

ASource == [site : Sites, link : Links, file : Files \cup {"share"}]
AUrl    == [site : Sites, form : Forms]

\* The sources a URL may yield.  All have a link of the page they were on; only the
\* nodes of a TRANSFERIT share have a link that is not of their own file.
Sourced(mode, url) ==
    {s \in ASource :
        /\ s.link.n = 0
        /\ s.site # "TRANSFERIT" => s.link.file = s.file
        /\ s.site = "TRANSFERIT" => s.link.at = "page"
        /\ s.site = "TRANSFERIT" /\ mode = "mock" => s.file = "share"
        /\ s.site = "MEDIAFIRE" /\ url.form # "file" => s.link.at = "page"
        /\ mode = "live" => s.site \in LiveSites \cup {"GENERIC", "CUSTOM"}
        /\ mode = "live" /\ s.site \in {"GOFILE", "PIXELDRAIN"} => s.link.at = "cdn"}

Found(mode, url) == {found \in Seq(Sourced(mode, url)) : Len(found) \in {1, 2}}

LEMMA LinkFacts ==
    /\ \A f \in Files \cup {"share"} :
         /\ Page(f) \in Links /\ Page(f).at = "page" /\ Page(f).file = f /\ Page(f).n = 0
    /\ \A f \in Files :
         /\ Cdn(f) \in Links /\ Cdn(f).at = "cdn" /\ Cdn(f).file = f /\ Cdn(f).n = 0
         /\ \A n \in 0 .. 2 : /\ Issued(f, n) \in Links /\ Issued(f, n).at = "cdn"
                              /\ Issued(f, n).file = f /\ Issued(f, n).n = n
    /\ FileA \in Files /\ FileB \in Files
    /\ \A link \in Links : /\ link.at \in {"page", "cdn"} /\ link.n \in 0 .. 2
                           /\ link.file \in Files \cup {"share"}
  <1>1. \A f \in Files \cup {"share"} :
         /\ Page(f) \in Links /\ Page(f).at = "page" /\ Page(f).file = f /\ Page(f).n = 0
    BY DEF Page, Links
  <1>2. \A f \in Files :
         /\ \A n \in 0 .. 2 : /\ Issued(f, n) \in Links /\ Issued(f, n).at = "cdn"
                              /\ Issued(f, n).file = f /\ Issued(f, n).n = n
    <2>1. \A f \in Files : \A n \in 0 .. 2 : Issued(f, n) \in Links
      <3>1. TAKE f \in Files, n \in 0 .. 2
      <3>2. Issued(f, n) \in {Issued(g, m) : g \in Files, m \in 0 .. 2}
        OBVIOUS
      <3>3. QED BY <3>2 DEF Links
    <2>2. QED BY <2>1 DEF Issued
  <1>3. \A f \in Files : Cdn(f) = Issued(f, 0)
    BY DEF Cdn, Issued
  <1>4. \A link \in Links : /\ link.at \in {"page", "cdn"} /\ link.n \in 0 .. 2
                            /\ link.file \in Files \cup {"share"}
    BY DEF Links, Page, Issued, Preview, Cdn
  <1>5. QED BY <1>1, <1>2, <1>3, <1>4 DEF Files

LEMMA ShownIs ==
    ASSUME NEW url \in AUrl
    PROVE  /\ Shown(url) \in Links /\ Shown(url).n = 0
           /\ Shown(url).at = IF url.form = "file" THEN "cdn" ELSE "page"
  BY LinkFacts DEF Shown, AUrl, Forms

\* One file with a link to itself, or the two files of a share.
LEMMA OneIsFound ==
    ASSUME NEW mode, NEW url, NEW s \in Sourced(mode, url)
    PROVE  <<s>> \in Found(mode, url)
  <1> DEFINE S == Sourced(mode, url)
  <1>1. s \in S
    OBVIOUS
  <1> HIDE DEF S
  <1>2. <<s>> \in Seq(S) /\ Len(<<s>>) = 1
    BY <1>1
  <1>3. QED BY <1>2 DEF Found, S

LEMMA TwoAreFound ==
    ASSUME NEW mode, NEW url, NEW s \in Sourced(mode, url), NEW t \in Sourced(mode, url)
    PROVE  <<s, t>> \in Found(mode, url)
  <1> DEFINE S == Sourced(mode, url)
  <1>1. s \in S /\ t \in S
    OBVIOUS
  <1> HIDE DEF S
  <1>2. <<s, t>> \in Seq(S) /\ Len(<<s, t>>) = 2
    BY <1>1
  <1>3. QED BY <1>2 DEF Found, S

LEMMA PlainIsSourced ==
    ASSUME NEW mode \in Modes, NEW url \in AUrl, NEW site \in Sites, NEW link \in Links,
           link.n = 0, site = "TRANSFERIT" => mode = "live" /\ link.at = "page",
           site = "MEDIAFIRE" /\ url.form # "file" => link.at = "page",
           mode = "live" => site \in LiveSites \cup {"GENERIC", "CUSTOM"},
           mode = "live" /\ site \in {"GOFILE", "PIXELDRAIN"} => link.at = "cdn"
    PROVE  Plain(site, link) \in Sourced(mode, url)
  <1>1. link.file \in Files \cup {"share"}
    BY LinkFacts
  <1>2. Plain(site, link) \in ASource
    BY <1>1 DEF Plain, Source, ASource
  <1>3. QED BY <1>2 DEF Plain, Source, Sourced

\* A live parser is of the site of the URL.
LEMMA LiveFound ==
    ASSUME NEW mode, mode = "live", NEW url \in AUrl, url.site \in LiveSites,
           url.site \in {"MEGA", "TRANSFERIT"} => url.form # "file",
           NEW found \in ParseLive(url), found # Nothing, found # Raises
    PROVE  found \in Found(mode, url)
  <1> USE DEF AUrl
  <1>0. url.site \in Sites /\ LiveSites \subseteq Sites /\ mode \in Modes
    BY DEF LiveSites, Sites, DefaultSites, Modes
  <1>1. \A site \in LiveSites \ {"TRANSFERIT", "MEDIAFIRE"} : \A f \in Files :
          Plain(site, Cdn(f)) \in Sourced(mode, url)
    BY <1>0, LinkFacts, PlainIsSourced
  <1>2. \A site \in {"BUNKR", "CYBERDROP"} : \A f \in Files :
          Plain(site, Page(f)) \in Sourced(mode, url)
    BY <1>0, LinkFacts, PlainIsSourced DEF LiveSites
  <1>3. url.site \notin {"GOFILE", "PIXELDRAIN"} => Plain(url.site, Shown(url)) \in Sourced(mode, url)
    BY <1>0, ShownIs, PlainIsSourced
  <1>4. FileA \in Files /\ FileB \in Files
    BY LinkFacts
  <1>5. \A site \in LiveSites \ {"TRANSFERIT", "MEDIAFIRE"} :
          Listing(site, Cdn) \subseteq Found(mode, url)
    BY <1>1, <1>4, OneIsFound, TwoAreFound DEF Listing
  <1>6. \A site \in {"BUNKR", "CYBERDROP"} :
          Listing(site, Page) \subseteq Found(mode, url)
    BY <1>2, <1>4, OneIsFound, TwoAreFound DEF Listing
  <1>7. url.site \notin {"GOFILE", "PIXELDRAIN"} => AsShown(url) \in Found(mode, url)
    BY <1>3, OneIsFound DEF AsShown
  <1>8. CASE url.site = "GOFILE"
    <2>1. ParseLive(url) = {Nothing} \cup (Listing("GOFILE", Cdn) \cup {Nothing, Raises})
      BY <1>8 DEF ParseLive, ParseGofileLive, GofileSources
    <2>2. QED BY <2>1, <1>5 DEF LiveSites
  <1>9. CASE url.site = "BUNKR"
    <2>1. ParseLive(url) = ParseBunkrLive(url)
      BY <1>9 DEF ParseLive
    <2>2. BunkrSingle \subseteq {Nothing, <<Plain("BUNKR", Cdn(FileA))>>}
      BY DEF BunkrSingle, BunkrDirectLink
    <2>3. <<Plain("BUNKR", Cdn(FileA))>> \in Found(mode, url)
      BY <1>1, <1>4, OneIsFound DEF LiveSites
    <2>4. BunkrAlbum \subseteq {Nothing} \cup Found(mode, url)
      BY <1>5, <1>6 DEF BunkrAlbum, LiveSites
    <2>5. ParseBunkrLive(url) \subseteq {Nothing} \cup BunkrAlbum \cup BunkrSingle
      BY DEF ParseBunkrLive, Forms
    <2>6. QED BY <2>1, <2>2, <2>3, <2>4, <2>5
  <1>10. CASE url.site = "CYBERDROP"
    <2>1. ParseLive(url) = ParseCyberdropAlbumLive(url)
      BY <1>10 DEF ParseLive
    <2> DEFINE s == Plain("CYBERDROP", Page(FileA))
    <2>2. s \in Sourced(mode, url)
      BY <1>2, <1>4
    <2>3. [i \in {1, 2} |-> s] = <<s, s>>
      OBVIOUS
    <2>4. [i \in {1, 2} |-> s] \in Found(mode, url)
      BY <2>2, <2>3, TwoAreFound
    <2>5. QED BY <2>1, <2>4, <1>6 DEF ParseCyberdropAlbumLive
  <1>11. CASE url.site = "PIXELDRAIN"
    <2>1. ParseLive(url) = Listing("PIXELDRAIN", Cdn) \cup {Nothing}
      BY <1>11 DEF ParseLive, ParsePixeldrainLive
    <2>2. QED BY <2>1, <1>5 DEF LiveSites
  <1>12. CASE url.site \in {"FILESTER", "TURBO", "MEGA", "MEDIAFIRE"}
    <2>1. ParseLive(url) \subseteq {Nothing, AsShown(url)}
      BY <1>12 DEF ParseLive, ParseFilesterLive, ParseTurboLive, ParseMegaLive, ParseMediafireLive
    <2>2. QED BY <2>1, <1>7, <1>12
  <1>13. CASE url.site = "TRANSFERIT"
    <2>1. ParseLive(url) = (TransferSources(url) \ {Nothing}) \cup ParseTransfer(url)
      BY <1>13 DEF ParseLive, ParseTransferLive
    <2>2. \A f \in Files \cup {"share"} : Source("TRANSFERIT", Shown(url), f) \in Sourced(mode, url)
      BY <1>0, <1>13, ShownIs DEF Source, Sourced, ASource, LiveSites
    <2>3. /\ <<Source("TRANSFERIT", Shown(url), FileA)>> \in Found(mode, url)
          /\ <<Source("TRANSFERIT", Shown(url), "share")>> \in Found(mode, url)
      BY <2>2, <1>4, OneIsFound
    <2>4. <<Source("TRANSFERIT", Shown(url), FileA), Source("TRANSFERIT", Shown(url), FileB)>>
            \in Found(mode, url)
      BY <2>2, <1>4, TwoAreFound
    <2>5. QED BY <2>1, <2>3, <2>4 DEF TransferSources, ParseTransfer
  <1>14. QED BY <1>8, <1>9, <1>10, <1>11, <1>12, <1>13 DEF LiveSites

LEMMA ParserFound ==
    ASSUME NEW mode \in Modes, NEW url \in AUrl,
           url.site \in {"MEGA", "TRANSFERIT"} => url.form # "file",
           NEW p \in ParserEntry, p.mode \in {"all", mode}, p.site \in {"any", url.site},
           NEW found \in Parser(p, url), found # Nothing, found # Raises
    PROVE  found \in Found(mode, url)
  <1> USE DEF AUrl
  <1>1. CASE p.does = "live"
    <2>1. p.site \in LiveSites /\ "any" \notin LiveSites
      BY <1>1 DEF ParserEntry, LiveSites
    <2>2. Parser(p, url) = ParseLive(url)
      BY <1>1 DEF Parser
    <2>3. mode = "live"
      BY <1>1 DEF ParserEntry
    <2>4. QED BY <2>1, <2>2, <2>3, LiveFound
  <1>2. CASE p.does = "mock"
    <2>1. mode = "mock"
      BY <1>2 DEF ParserEntry, Modes
    <2>2. Parser(p, url) = ParseMock(url)
      BY <1>2 DEF Parser
    <2>3. \A site \in Sites \ {"TRANSFERIT", "MEDIAFIRE"} :
             Plain(site, Cdn(FileA)) \in Sourced(mode, url)
      BY <2>1, LinkFacts, PlainIsSourced
    <2>4. url.site # "TRANSFERIT" => Plain(url.site, Shown(url)) \in Sourced(mode, url)
      BY <2>1, ShownIs, PlainIsSourced
    <2>5. url.site # "TRANSFERIT" => AsShown(url) \in Found(mode, url)
      BY <2>4, OneIsFound DEF AsShown
    <2>6. CASE url.site = "GD"
      <3>1. <<Plain("GD", Cdn(FileA))>> \in Found(mode, url)
        BY <2>3, OneIsFound DEF Sites, DefaultSites
      <3>2. ParseMock(url) = {Nothing, <<Plain("GD", Cdn(FileA))>>}
        BY <2>6 DEF ParseMock, ParseGd
      <3>3. QED BY <2>2, <3>1, <3>2
    <2>7. CASE url.site = "PIXELDRAIN"
      <3>1. <<Plain("PIXELDRAIN", Cdn(FileA))>> \in Found(mode, url)
        BY <2>3, OneIsFound DEF Sites, DefaultSites
      <3>2. ParseMock(url) \subseteq {AsShown(url), <<Plain("PIXELDRAIN", Cdn(FileA))>>}
        BY <2>7 DEF ParseMock, ParsePixeldrain
      <3>3. QED BY <2>2, <2>5, <2>7, <3>1, <3>2
    <2>8. CASE url.site = "TRANSFERIT"
      <3>1. Source("TRANSFERIT", Shown(url), "share") \in Sourced(mode, url)
        BY <2>1, <2>8, ShownIs DEF Source, Sourced, ASource
      <3>2. <<Source("TRANSFERIT", Shown(url), "share")>> \in Found(mode, url)
        BY <3>1, OneIsFound
      <3>3. ParseMock(url) = {Nothing, <<Source("TRANSFERIT", Shown(url), "share")>>}
        BY <2>8 DEF ParseMock, ParseTransfer
      <3>4. QED BY <2>2, <3>2, <3>3
    <2>9. CASE url.site \notin {"GD", "PIXELDRAIN", "TRANSFERIT"}
      <3>1. CASE url.site \in {"FILESTER", "MEGA", "TURBO"}
        <4>1. ParseMock(url) = {Nothing, AsShown(url)}
          BY <2>9, <3>1 DEF ParseMock
        <4>2. QED BY <4>1, <2>2, <2>5, <2>9
      <3>2. CASE url.site \notin {"FILESTER", "MEGA", "TURBO"}
        <4>1. ParseMock(url) = {AsShown(url)}
          BY <2>9, <3>2 DEF ParseMock
        <4>2. QED BY <4>1, <2>2, <2>5, <2>9
      <3>3. QED BY <3>1, <3>2
    <2>10. QED BY <2>6, <2>7, <2>8, <2>9
  <1>3. CASE p.does = "generic"
    <2>1. Parser(p, url) = {<<Plain("GENERIC", Shown(url))>>}
      BY <1>3 DEF Parser, ParseGeneric
    <2>2. Plain("GENERIC", Shown(url)) \in Sourced(mode, url)
      BY ShownIs, PlainIsSourced DEF Sites, DefaultSites
    <2>3. QED BY <2>1, <2>2, OneIsFound
  <1>4. CASE p.does = "extension"
    <2>1. url.site = "CUSTOM"
      BY <1>4 DEF ParserEntry
    <2>2. Parser(p, url) = {Nothing, AsShown(url)}
      BY <1>4 DEF Parser
    <2>3. Plain(url.site, Shown(url)) \in Sourced(mode, url)
      BY <2>1, ShownIs, PlainIsSourced
    <2>4. QED BY <2>2, <2>3, OneIsFound DEF AsShown
  <1>5. QED BY <1>1, <1>2, <1>3, <1>4 DEF ParserEntry

\* Whichever parsers pass: the first result that is not empty is one of those.
LEMMA ParsedIsFound ==
    ASSUME NEW mode \in Modes, NEW e \in Custom("extension"), NEW url \in AUrl,
           url.site \in {"MEGA", "TRANSFERIT"} => url.form # "file",
           NEW found \in Parsed(mode, e, url), found # Raises
    PROVE  found \in Found(mode, url)
  <1> DEFINE all   == e \o BuiltinParsers
             asked == Asked(all, mode, url.site, url.form)
  <1>1. e \in Seq(ParserEntry)
    <2>1. Provider("all", "CUSTOM", "any", "extension") \in ParserEntry
      BY DEF ParserEntry, Provider, Sites
    <2> HIDE DEF ParserEntry
    <2>2. CASE e = << >>
      BY <2>2
    <2>3. CASE e = <<Provider("all", "CUSTOM", "any", "extension")>>
      BY <2>1, <2>3
    <2>4. QED BY <2>2, <2>3 DEF Custom
  <1>2. all \in Seq(ParserEntry)
    BY <1>1, BuiltinParsersAreEntries, Joined, SMT
  <1>3. PICK i \in asked : found \in Parser(all[i], url) \ {Nothing}
    BY Zenon DEF Parsed
  <1> HIDE DEF all
  <1>4. /\ i \in DOMAIN all /\ all[i].mode \in {"all", mode}
        /\ all[i].site \in {"any", url.site}
    BY DEF Asked
  <1>5. all[i] \in ParserEntry
    BY <1>2, <1>4, LenProperties, ElementOfSeq
  <1>6. QED BY <1>3, <1>4, <1>5, ParserFound

(***************************************************************************)
(* The inductive invariant                                                 *)
(***************************************************************************)

\* The downloader of a source, in a set-up.
DoesOf(st, source) ==
    Downloader(st.mode,
               IF "download" \in st.extensions
               THEN <<Provider("all", "CUSTOM", "any", "get")>> ELSE << >>, source)

Ends(pc) ==
    CASE pc \in {"queued", "link", "mkdir", "get", "open", "fill"} -> {"ok"}
      [] pc \in {"unlink", "prune"} -> {"again", "failed", "sent"}
      [] pc = "upload" -> {"ok", "failed"}
      [] pc = "over" -> {"failed", "sent", "kept"}

\* How a leg has come to where it is.
Course(st, x) ==
    /\ x.pc # "queued" => x.node \in Nodes /\ x.at \in Nodes
    /\ x.next # "sent" \/ st.affinity => x.at = x.node
    /\ x.next \in Ends(x.pc)
    /\ x.pc = "link" => DoesOf(st, x.source) \in {"resolve", "refresh"}
    /\ x.times = 2 \/ x.next = "again" => DoesOf(st, x.source) = "refresh"
    /\ x.pc = "queued" \/ x.next = "again" => x.times = 1

\* Which of the links issued one after the other a leg has.
Asking(st, x) ==
    /\ x.times = 1 => /\ x.source.link.n <= 1 /\ x.url.n <= 1
                      /\ x.refused = NoLink \/ x.next = "again"
    /\ x.refused # NoLink => x.refused \in Links /\ x.refused.n <= 1
    /\ x.times = 2 /\ x.pc \in {"mkdir", "get"} =>
         \/ x.url.n = 2
         \/ x.source.site \in {"FILESTER", "TURBO"}
         \/ x.source.site = "MEDIAFIRE" /\ st.url.form = "file"
    /\ x.source.site = "MEDIAFIRE" /\ st.url.form # "file" => x.source.link # Cdn(FileA)

\* From here on the link is the one that is requested.
Fetched(x) ==
    \/ x.pc \in {"mkdir", "get", "open", "fill", "unlink", "prune"}
    \/ x.pc = "upload" /\ x.next = "ok"
    \/ x.next \in {"sent", "kept"}

\* A file that is requested for another one was seen on a page of BUNKR.
ItsOwn(x) == \/ x.url.file = x.source.file
             \/ x.source.site = "BUNKR" /\ x.source.link.at = "page"

\* Whose source it is, and of which file its links are.
Origin(st, x) ==
    /\ st.mode = "live" =>
         /\ x.source.site \in LiveSites \cup {"GENERIC", "CUSTOM"}
         /\ x.source.site \in {"GOFILE", "PIXELDRAIN"} => x.url.at = "cdn"
         /\ x.source.site \in RefreshSites /\ Fetched(x) => x.url.at = "cdn"
         /\ x.source.site = "TRANSFERIT" /\ x.pc \in {"queued", "link"} =>
              x.times = 2 \/ x.source.link.at = "page"
    /\ \/ x.source.file = "share"
       \/ x.source.site = "TRANSFERIT" /\ st.mode = "live"
       \/ x.source.link.file = x.source.file /\ ItsOwn(x)
    /\ x.pc = "queued" => x.url = x.source.link

Good(st, x) == x \in Leg /\ Course(st, x) /\ Asking(st, x) /\ Origin(st, x)

-----------------------------------------------------------------------------
LEMMA SetupFacts ==
    ASSUME NEW st \in Setups
    PROVE  /\ st.mode \in Modes /\ st.affinity \in BOOLEAN /\ st.url \in AUrl
           /\ st.url.site \in {"MEGA", "TRANSFERIT"} => st.url.form # "file"
  BY JourneyAssumption DEF Setup, AUrl, Sites

LEMMA DoesFacts ==
    ASSUME NEW st \in Setups, NEW source, source.site \in Sites
    PROVE  LET d == DoesOf(st, source)
           IN  /\ d \in {"get", "resolve", "refresh", "unsupported", "mock"}
               /\ d = "refresh" => source.site \in RefreshSites /\ st.mode = "live"
               /\ d = "resolve" => source.site = "BUNKR"
               /\ st.mode = "live" /\ source.site \in RefreshSites => d = "refresh"
               /\ st.mode = "live" /\ source.site \in DownloadSites => d # "mock"
               /\ st.mode = "live" /\ source.site \notin DownloadSites \cup {"CUSTOM"} => d = "mock"
  <1> DEFINE e == IF "download" \in st.extensions
                  THEN <<Provider("all", "CUSTOM", "any", "get")>> ELSE << >>
             d == Downloader(st.mode, e, source)
  <1>1. e \in Custom("get")
    BY DEF Custom
  <1> HIDE DEF e
  <1>2. \/ st.mode = "live" /\ source.site \in DownloadSites /\ d = LiveDoes(source.site)
        \/ source.site = "CUSTOM" /\ d = "get"
        \/ d = "mock" /\ (st.mode = "live" => source.site \notin DownloadSites)
    BY <1>1, SetupFacts, DownloaderIs
  <1>3. d = DoesOf(st, source)
    BY DEF DoesOf, e
  <1>4. RefreshSites \subseteq DownloadSites /\ "CUSTOM" \notin RefreshSites
        /\ "CUSTOM" \notin DownloadSites
    BY DEF RefreshSites, DownloadSites, MockSites
  <1> HIDE DEF d
  <1>5. QED BY <1>2, <1>3, <1>4 DEF LiveDoes

LEMMA RefreshFacts ==
    ASSUME NEW source \in ASource, source.site \in RefreshSites, NEW files \in SUBSET Files,
           NEW n \in {1, 2}, NEW link \in Refresh(source, files, n), link # NoLink
    PROVE  /\ link \in Links /\ link.at = "cdn"
           /\ \/ /\ link = source.link
                 /\ \/ n = 1
                    \/ source.site \in {"FILESTER", "TURBO"}
                    \/ source.site = "MEDIAFIRE" /\ link = Cdn(FileA)
              \/ /\ link.n = n
                 /\ source.site # "TRANSFERIT" => link.file = source.file
                 /\ source.file \in files => link.file = source.file
  <1>1. source.link \in Links /\ \A f \in Files :
          /\ Issued(f, n) \in Links /\ Issued(f, n).at = "cdn"
          /\ Issued(f, n).file = f /\ Issued(f, n).n = n
    BY LinkFacts DEF ASource
  <1>2. CASE n = 1 /\ IsDirect(source.link)
    BY <1>1, <1>2 DEF Refresh, IsDirect
  <1>3. CASE ~(n = 1 /\ IsDirect(source.link))
    <2>1. link \in Resolve(source, files, n)
      BY <1>3 DEF Refresh
    <2>2. \A k \in ResolveByApi(source, files, n) \ {NoLink} :
            k \in Links /\ k.at = "cdn" /\ k.n = n /\ k.file = source.file
      BY <1>1 DEF ResolveByApi
    <2>3. CASE source.site = "FILESTER"
      BY <1>1, <2>1, <2>2, <2>3 DEF Resolve, ResolveFilester, IsDirect
    <2>4. CASE source.site = "TURBO"
      BY <1>1, <2>1, <2>2, <2>4 DEF Resolve, ResolveTurbo, IsDirect
    <2>5. CASE source.site = "MEGA"
      BY <2>1, <2>2, <2>5 DEF Resolve, ResolveMega
    <2>6. CASE source.site = "MEDIAFIRE"
      <3>1. Cdn(FileA).at = "cdn"
        BY LinkFacts
      <3>2. QED BY <1>1, <2>1, <2>2, <2>6, <3>1 DEF Resolve, ResolveMediafire
    <2>7. CASE source.site = "TRANSFERIT"
      <3>1. files # {} /\ link = Issued(SelectNode(source, files), n)
        BY <2>1, <2>7 DEF Resolve, ResolveTransfer
      <3>2. /\ SelectNode(source, files) \in Files
            /\ source.file \in files => SelectNode(source, files) = source.file
        BY <3>1 DEF SelectNode, Files
      <3>3. QED BY <1>1, <2>7, <3>1, <3>2
    <2>8. QED BY <2>3, <2>4, <2>5, <2>6, <2>7 DEF RefreshSites
  <1>4. QED BY <1>2, <1>3

LEMMA BunkrFacts ==
    ASSUME NEW source \in ASource, NEW files \in SUBSET Files,
           NEW link \in BunkrActual(source, files), link # NoLink
    PROVE  /\ link \in Links /\ link.n \in {source.link.n, 0}
           /\ link = source.link \/ source.link.at = "page"
  <1>1. /\ source.link \in Links /\ source.link.at \in {"page", "cdn"}
        /\ \A f \in Files : Cdn(f) \in Links /\ Cdn(f).n = 0
    BY LinkFacts DEF ASource
  <1>2. Preview \in Links /\ Preview.n = 0
    BY DEF Preview, Cdn, Links
  <1>3. QED BY <1>1, <1>2 DEF BunkrActual, OnPage, IsDirect

\* The legs come one after the other, and none has sent before it is there.
Packed == \E k \in 0 .. MaxLegs : Present = 1 .. k
LegsAreGood ==
    /\ \A l \in Present : Good(setup, leg[l])
    /\ \A l \in Legs \ Present : sent[l] = None

\* What is on a disk is somebody's who will remove it, or has left it on purpose.
Holds(x) == \/ x.pc \in {"fill", "unlink"}
            \/ x.pc = "upload" /\ x.next = "ok"
            \/ x.pc = "over" /\ x.next = "kept"
Owns(x)  == Holds(x) \/ x.pc \in {"get", "open", "prune"}
OfLeg(x, n, link) == x.at = n /\ Path(x.source) = link
Owned ==
    setup.affinity =>
        \A n \in Nodes, link \in Links :
            /\ disk[n][link] # None =>
                 \E l \in Present : OfLeg(leg[l], n, link) /\ Owns(leg[l])
            /\ disk[n][link] \in Contents =>
                 \E l \in Present : OfLeg(leg[l], n, link) /\ Holds(leg[l])

\* Sources of different files do not disturb each other.
Own(l) ==
    /\ Fetched(leg[l]) => leg[l].source.link.file = leg[l].source.file /\ ItsOwn(leg[l])
    /\ leg[l].pc = "fill" => l \in writing
    /\ leg[l].pc = "upload" /\ leg[l].next = "ok" =>
         disk[leg[l].node][Path(leg[l].source)] = Written(l)
    /\ sent[l] # None => /\ leg[l].next = "sent"
                         /\ sent[l] = IF Reads THEN Written(l) ELSE Fake
Undisturbed ==
    Apart =>
        /\ \A l \in Present : Own(l)
        /\ \A n \in Nodes, link \in Links : disk[n][link] \in Contents =>
               \E l \in Present : /\ leg[l].pc # "queued" /\ leg[l].node = n
                                 /\ leg[l].source.file = link.file

IInv == TypeOK /\ Packed /\ LegsAreGood /\ Owned /\ Undisturbed

-----------------------------------------------------------------------------
\* A step of a leg that is there, and leaves the others alone.
Moved(l, y) ==
    /\ leg[l] # Absent /\ Good(setup, leg[l]) /\ setup' = setup
    /\ Good(setup, y) /\ leg' = [leg EXCEPT ![l] = y]
    /\ y.source.site = leg[l].source.site /\ y.source.file = leg[l].source.file

LEMMA DoesIsDoesOf == \A l : Does(l) = DoesOf(setup, leg[l].source)
  BY DEF Does, DoesOf, Extension

LEMMA GoodFacts ==
    ASSUME TypeOK, LegsAreGood, NEW l \in Legs, leg[l] # Absent
    PROVE  /\ setup \in Setups /\ Good(setup, leg[l])
           /\ leg[l] \in Leg /\ Course(setup, leg[l]) /\ Asking(setup, leg[l])
           /\ Origin(setup, leg[l])
           /\ leg[l].source \in ASource /\ leg[l].source.site \in Sites
           /\ Does(l) = DoesOf(setup, leg[l].source)
  BY DoesIsDoesOf DEF TypeOK, LegsAreGood, Present, Good, Leg, ASource, Sites

LEMMA TakeIsGood ==
    ASSUME TypeOK, LegsAreGood, NEW l \in Legs, NEW n \in Nodes, Take(l, n)
    PROVE  \E y : Moved(l, y)
  <1> DEFINE x == leg[l]
             start == CASE Does(l) = "unsupported"           -> Failed(l)
                        [] Does(l) \in {"resolve", "refresh"} -> To(l, "link")
                        [] OTHER                              -> To(l, "mkdir")
             y == [start EXCEPT !.node = n, !.at = n]
  <1>1. x # Absent /\ x.pc = "queued" /\ leg' = [leg EXCEPT ![l] = y] /\ setup' = setup
    BY DEF Take, At, Move
  <1>2. /\ setup \in Setups /\ Good(setup, x) /\ x \in Leg
        /\ Course(setup, x) /\ Asking(setup, x) /\ Origin(setup, x)
        /\ x.source \in ASource /\ x.source.site \in Sites
        /\ Does(l) = DoesOf(setup, x.source)
    BY <1>1, GoodFacts
  <1> DEFINE d == DoesOf(setup, x.source)
  <1>3. /\ d \in {"get", "resolve", "refresh", "unsupported", "mock"}
        /\ setup.mode = "live" /\ x.source.site \in RefreshSites => d = "refresh"
    BY <1>2, DoesFacts
  <1>4. \/ start = [x EXCEPT !.pc = "upload", !.next = "failed"] /\ d = "unsupported"
        \/ start = [x EXCEPT !.pc = "link"] /\ d \in {"resolve", "refresh"}
        \/ start = [x EXCEPT !.pc = "mkdir"] /\ d \notin {"unsupported", "resolve", "refresh"}
    BY <1>2, <1>3 DEF Failed, To
  <1> HIDE DEF x, start, d
  <1>5. PICK pc \in {"upload", "link", "mkdir"}, next \in {"ok", "failed"} :
          /\ y = [x EXCEPT !.pc = pc, !.next = next, !.node = n, !.at = n]
          /\ next = "failed" <=> pc = "upload"
          /\ pc = "link" => d \in {"resolve", "refresh"}
          /\ d = "refresh" => pc = "link"
    <2>1. x.next = "ok"
      BY <1>1, <1>2 DEF Course, Ends
    <2>2. CASE start = [x EXCEPT !.pc = "upload", !.next = "failed"]
              /\ d = "unsupported"
      BY <1>2, <1>4, <2>1, <2>2 DEF Leg
    <2>3. CASE start = [x EXCEPT !.pc = "link"]
              /\ d \in {"resolve", "refresh"}
      BY <1>2, <1>4, <2>1, <2>3 DEF Leg
    <2>4. CASE start = [x EXCEPT !.pc = "mkdir"]
              /\ d \notin {"unsupported", "resolve", "refresh"}
      BY <1>2, <1>4, <2>1, <2>4 DEF Leg
    <2>5. QED BY <1>4, <2>2, <2>3, <2>4
  <1> HIDE DEF y
  <1>6. /\ y \in Leg /\ y.pc = pc /\ y.next = next /\ y.node = n /\ y.at = n
        /\ y.source = x.source /\ y.url = x.url /\ y.refused = x.refused /\ y.times = x.times
    BY <1>2, <1>5 DEF Leg, Place
  <1>7. Course(setup, y)
    BY <1>1, <1>2, <1>3, <1>5, <1>6 DEF Course, Ends, d
  <1>8. Asking(setup, y)
    BY <1>1, <1>2, <1>5, <1>6 DEF Asking, Course, Ends
  <1>9. Origin(setup, y)
    BY <1>1, <1>2, <1>3, <1>5, <1>6 DEF Origin, ItsOwn, Fetched
  <1>10. Good(setup, y)
    BY <1>6, <1>7, <1>8, <1>9 DEF Good
  <1>11. QED BY <1>1, <1>2, <1>6, <1>10 DEF Moved, x

\* A leg that goes on with what it has.
LEMMA OnwardIsGood ==
    ASSUME NEW st \in Setups, NEW x, Good(st, x), x.pc \notin {"queued", "link"},
           NEW pc \in Place \ {"queued", "link"}, NEW next \in Ends(pc) \ {"again", "sent"},
           x.next \notin {"again", "sent"}, pc \in {"mkdir", "get"} => x.pc \in {"mkdir", "get"},
           Fetched([x EXCEPT !.pc = pc, !.next = next]) => Fetched(x)
    PROVE  Good(st, [x EXCEPT !.pc = pc, !.next = next])
  <1> DEFINE y == [x EXCEPT !.pc = pc, !.next = next]
  <1>1. x \in Leg /\ Course(st, x) /\ Asking(st, x) /\ Origin(st, x)
    BY DEF Good
  <1>2. next \in {"ok", "failed", "sent", "kept"}
    BY DEF Ends, Place
  <1>3. /\ y \in Leg /\ y.pc = pc /\ y.next = next /\ y.node = x.node /\ y.at = x.at
        /\ y.source = x.source /\ y.url = x.url /\ y.refused = x.refused /\ y.times = x.times
    BY <1>1, <1>2 DEF Leg
  <1>4. Fetched(y) => Fetched(x)
    OBVIOUS
  <1> HIDE DEF y
  <1>5. Course(st, y)
    BY <1>1, <1>2, <1>3 DEF Course
  <1>6. Asking(st, y)
    BY <1>1, <1>2, <1>3 DEF Asking
  <1>7. Origin(st, y)
    BY <1>1, <1>3, <1>4 DEF Origin, ItsOwn
  <1>8. QED BY <1>3, <1>5, <1>6, <1>7 DEF Good, y

LEMMA OnwardIsMoved ==
    ASSUME TypeOK, LegsAreGood, NEW l \in Legs, leg[l] # Absent,
           leg[l].pc \notin {"queued", "link"},
           NEW pc \in Place \ {"queued", "link"}, NEW next \in Ends(pc) \ {"again", "sent"},
           leg[l].next \notin {"again", "sent"},
           pc \in {"mkdir", "get"} => leg[l].pc \in {"mkdir", "get"},
           pc = "upload" /\ next = "ok" => Fetched(leg[l]), next = "kept" => Fetched(leg[l]),
           pc \in {"mkdir", "get", "open", "fill", "unlink", "prune"} => Fetched(leg[l]),
           leg' = [leg EXCEPT ![l] = [leg[l] EXCEPT !.pc = pc, !.next = next]], setup' = setup
    PROVE  Moved(l, [leg[l] EXCEPT !.pc = pc, !.next = next])
  <1> DEFINE x == leg[l]
             y == [x EXCEPT !.pc = pc, !.next = next]
  <1>1. setup \in Setups /\ Good(setup, x) /\ x \in Leg
    BY GoodFacts
  <1>2. y.pc = pc /\ y.next = next /\ y.source = x.source
    BY <1>1 DEF Leg
  <1>3. Fetched(y) => Fetched(x)
    BY <1>2 DEF Fetched
  <1>4. Good(setup, y)
    BY <1>1, <1>3, OnwardIsGood
  <1>5. QED BY <1>1, <1>2, <1>4 DEF Moved

LEMMA MkdirIsGood ==
    ASSUME TypeOK, LegsAreGood, NEW l \in Legs, Mkdir(l)
    PROVE  \E y : Moved(l, y)
  <1>1. leg[l] # Absent /\ leg[l].pc = "mkdir" /\ setup' = setup
    BY DEF Mkdir, At
  <1>2. leg[l] \in Leg /\ leg[l].next = "ok"
    BY <1>1, GoodFacts DEF Course, Ends
  <1>3. PICK pc \in {"open", "get"} : leg' = [leg EXCEPT ![l] = [leg[l] EXCEPT !.pc = pc]]
    BY DEF Mkdir, Move, To
  <1>4. [leg[l] EXCEPT !.pc = pc] = [leg[l] EXCEPT !.pc = pc, !.next = "ok"]
    BY <1>2 DEF Leg
  <1>5. QED BY <1>1, <1>2, <1>3, <1>4, OnwardIsMoved DEF Ends, Place, Fetched

LEMMA AnsweredIsGood ==
    ASSUME TypeOK, LegsAreGood, NEW l \in Legs, Answered(l)
    PROVE  \E y : Moved(l, y)
  <1>1. leg[l] # Absent /\ leg[l].pc = "get" /\ setup' = setup
    BY DEF Answered, At
  <1>2. leg[l] \in Leg /\ leg[l].next = "ok"
    BY <1>1, GoodFacts DEF Course, Ends
  <1>3. leg' = [leg EXCEPT ![l] = [leg[l] EXCEPT !.pc = "open"]]
    BY DEF Answered, Move, To
  <1>4. [leg[l] EXCEPT !.pc = "open"] = [leg[l] EXCEPT !.pc = "open", !.next = "ok"]
    BY <1>2 DEF Leg
  <1>5. QED BY <1>1, <1>2, <1>3, <1>4, OnwardIsMoved DEF Ends, Place, Fetched

LEMMA DownloadFailsIsGood ==
    ASSUME TypeOK, LegsAreGood, NEW l \in Legs, DownloadFails(l)
    PROVE  \E y : Moved(l, y)
  <1>1. leg[l] # Absent /\ leg[l].pc \in {"get", "fill"} /\ setup' = setup
    BY DEF DownloadFails, At
  <1>2. leg[l] \in Leg /\ leg[l].next = "ok"
    BY <1>1, GoodFacts DEF Course, Ends
  <1>3. leg' = [leg EXCEPT ![l] = [leg[l] EXCEPT !.pc = "unlink", !.next = "failed"]]
    BY DEF DownloadFails, Move, Cleanup
  <1>4. /\ Fetched(leg[l]) /\ "failed" \in Ends("unlink") \ {"again", "sent"}
        /\ leg[l].pc \notin {"queued", "link"} /\ leg[l].next \notin {"again", "sent"}
    BY <1>1, <1>2 DEF Fetched, Ends
  <1>5. "unlink" \in Place \ {"queued", "link"}
    BY DEF Place
  <1>6. QED BY <1>1, <1>3, <1>4, <1>5, OnwardIsMoved

LEMMA OpenIsGood ==
    ASSUME TypeOK, LegsAreGood, NEW l \in Legs, Open(l)
    PROVE  \E y : Moved(l, y)
  <1>1. leg[l] # Absent /\ leg[l].pc = "open" /\ setup' = setup
    BY DEF Open, At
  <1>2. leg[l] \in Leg /\ leg[l].next = "ok"
    BY <1>1, GoodFacts DEF Course, Ends
  <1>3. CASE leg' = [leg EXCEPT ![l] = [leg[l] EXCEPT !.pc = "unlink", !.next = "failed"]]
    BY <1>1, <1>2, <1>3, OnwardIsMoved DEF Ends, Place, Fetched
  <1>4. CASE leg' = [leg EXCEPT ![l] = [leg[l] EXCEPT !.pc = "fill"]]
    <2>1. [leg[l] EXCEPT !.pc = "fill"] = [leg[l] EXCEPT !.pc = "fill", !.next = "ok"]
      BY <1>2 DEF Leg
    <2>2. QED BY <1>1, <1>2, <1>4, <2>1, OnwardIsMoved DEF Ends, Place, Fetched
  <1>5. QED BY <1>3, <1>4 DEF Open, Move, Cleanup, To

LEMMA FillIsGood ==
    ASSUME TypeOK, LegsAreGood, NEW l \in Legs, Fill(l)
    PROVE  \E y : Moved(l, y)
  <1>1. leg[l] # Absent /\ leg[l].pc = "fill" /\ setup' = setup
    BY DEF Fill, At
  <1>2. leg[l] \in Leg /\ leg[l].next = "ok"
    BY <1>1, GoodFacts DEF Course, Ends
  <1>3. leg' = [leg EXCEPT ![l] = [leg[l] EXCEPT !.pc = "upload"]]
    BY DEF Fill, Move, To
  <1>4. [leg[l] EXCEPT !.pc = "upload"] = [leg[l] EXCEPT !.pc = "upload", !.next = "ok"]
    BY <1>2 DEF Leg
  <1>5. QED BY <1>1, <1>2, <1>3, <1>4, OnwardIsMoved DEF Ends, Place, Fetched

LEMMA SkipUploadIsGood ==
    ASSUME TypeOK, LegsAreGood, NEW l \in Legs, NEW n \in Nodes, SkipUpload(l, n)
    PROVE  \E y : Moved(l, y)
  <1>1. leg[l] # Absent /\ leg[l].pc = "upload" /\ leg[l].next = "failed" /\ setup' = setup
    BY DEF SkipUpload, MayUpload, At
  <1>2. leg[l] \in Leg
    BY <1>1, GoodFacts
  <1>3. leg' = [leg EXCEPT ![l] = [leg[l] EXCEPT !.pc = "over"]]
    BY DEF SkipUpload, Move, To
  <1>4. [leg[l] EXCEPT !.pc = "over"] = [leg[l] EXCEPT !.pc = "over", !.next = "failed"]
    BY <1>1, <1>2 DEF Leg
  <1>5. QED BY <1>1, <1>2, <1>3, <1>4, OnwardIsMoved DEF Ends, Place

LEMMA UploadFailsIsGood ==
    ASSUME TypeOK, LegsAreGood, NEW l \in Legs, NEW n \in Nodes, UploadFails(l, n)
    PROVE  \E y : Moved(l, y)
  <1>1. leg[l] # Absent /\ leg[l].pc = "upload" /\ leg[l].next = "ok" /\ setup' = setup
    BY DEF UploadFails, MayUpload, At
  <1>2. leg[l] \in Leg
    BY <1>1, GoodFacts
  <1>3. leg' = [leg EXCEPT ![l] = [leg[l] EXCEPT !.pc = "over", !.next = "kept"]]
    <2>1. leg' = [leg EXCEPT ![l] = [[leg[l] EXCEPT !.pc = "over"] EXCEPT !.next = "kept"]]
      BY DEF UploadFails, Move, To
    <2>2. QED BY <2>1, <1>2 DEF Leg
  <1>4. /\ Fetched(leg[l]) /\ "kept" \in Ends("over") \ {"again", "sent"}
        /\ leg[l].pc \notin {"queued", "link"} /\ leg[l].next \notin {"again", "sent"}
    BY <1>1, <1>2 DEF Fetched, Ends
  <1>5. "over" \in Place \ {"queued", "link"}
    BY DEF Place
  <1>6. QED BY <1>1, <1>3, <1>4, <1>5, OnwardIsMoved

LEMMA UnlinkIsGood ==
    ASSUME TypeOK, LegsAreGood, NEW l \in Legs, Unlink(l)
    PROVE  \E y : Moved(l, y)
  <1> DEFINE x == leg[l]
             y == [x EXCEPT !.pc = "prune"]
  <1>1. x # Absent /\ x.pc = "unlink" /\ leg' = [leg EXCEPT ![l] = y] /\ setup' = setup
    BY DEF Unlink, At, Move, To
  <1>2. /\ Good(setup, x) /\ x \in Leg
        /\ Course(setup, x) /\ Asking(setup, x) /\ Origin(setup, x)
    BY <1>1, GoodFacts
  <1> HIDE DEF x
  <1>3. /\ y \in Leg /\ y.pc = "prune" /\ y.next = x.next /\ y.node = x.node /\ y.at = x.at
        /\ y.source = x.source /\ y.url = x.url /\ y.refused = x.refused /\ y.times = x.times
    BY <1>2 DEF Leg, Place
  <1> HIDE DEF y
  <1>4. Course(setup, y)
    BY <1>1, <1>2, <1>3 DEF Course, Ends
  <1>5. Asking(setup, y)
    BY <1>1, <1>2, <1>3 DEF Asking
  <1>6. Origin(setup, y)
    BY <1>1, <1>2, <1>3 DEF Origin, ItsOwn, Fetched
  <1>7. QED BY <1>1, <1>2, <1>3, <1>4, <1>5, <1>6 DEF Moved, Good, x

LEMMA UploadOkIsGood ==
    ASSUME TypeOK, LegsAreGood, NEW l \in Legs, NEW n \in Nodes, UploadOk(l, n)
    PROVE  \E y : Moved(l, y)
  <1> DEFINE x == leg[l]
             y == [x EXCEPT !.pc = "unlink", !.next = "sent", !.at = n]
  <1>1. /\ x # Absent /\ x.pc = "upload" /\ x.next = "ok"
        /\ leg' = [leg EXCEPT ![l] = [Cleanup(l, "sent") EXCEPT !.at = n]] /\ setup' = setup
        /\ UploadQueue(setup.affinity, x.node) \in UploadQueues(setup.affinity, n)
    BY DEF UploadOk, MayUpload, At, Move
  <1>2. /\ Good(setup, x) /\ x \in Leg
        /\ Course(setup, x) /\ Asking(setup, x) /\ Origin(setup, x)
    BY <1>1, GoodFacts
  <1>3. [Cleanup(l, "sent") EXCEPT !.at = n] = y
    BY <1>2 DEF Cleanup, Leg
  <1> HIDE DEF x
  <1>4. /\ y \in Leg /\ y.pc = "unlink" /\ y.next = "sent" /\ y.node = x.node /\ y.at = n
        /\ y.source = x.source /\ y.url = x.url /\ y.refused = x.refused /\ y.times = x.times
    BY <1>2 DEF Leg, Place
  <1> HIDE DEF y
  <1>5. setup.affinity => x.node = n
    BY <1>1 DEF UploadQueue, UploadQueues
  <1>6. Course(setup, y)
    BY <1>1, <1>2, <1>4, <1>5 DEF Course, Ends
  <1>7. Asking(setup, y)
    BY <1>1, <1>2, <1>4 DEF Asking
  <1>8. Origin(setup, y)
    BY <1>1, <1>2, <1>4 DEF Origin, ItsOwn, Fetched
  <1>9. QED BY <1>1, <1>2, <1>3, <1>4, <1>6, <1>7, <1>8 DEF Moved, Good, x

LEMMA RefusedIsGood ==
    ASSUME TypeOK, LegsAreGood, NEW l \in Legs, Refused(l)
    PROVE  \E y : Moved(l, y)
  <1> DEFINE x == leg[l]
  <1>1. x # Absent /\ x.pc = "get" /\ setup' = setup
    BY DEF Refused, At
  <1>2. /\ Good(setup, x) /\ x \in Leg /\ Does(l) = DoesOf(setup, x.source)
        /\ Course(setup, x) /\ Asking(setup, x) /\ Origin(setup, x)
    BY <1>1, GoodFacts
  <1>3. x.next = "ok"
    BY <1>1, <1>2 DEF Course, Ends
  <1>4. CASE Does(l) = "refresh" /\ x.times = 1
    <2> DEFINE y == [x EXCEPT !.pc = "unlink", !.next = "again", !.refused = x.url]
    <2>1. [Cleanup(l, "again") EXCEPT !.refused = leg[l].url] = y
      BY <1>2 DEF Cleanup, Leg
    <2>2. leg' = [leg EXCEPT ![l] = y]
      BY <1>4, <2>1 DEF Refused, Move
    <2> HIDE DEF x
    <2>3. /\ y \in Leg /\ y.pc = "unlink" /\ y.next = "again" /\ y.node = x.node /\ y.at = x.at
          /\ y.source = x.source /\ y.url = x.url /\ y.refused = x.url /\ y.times = x.times
          /\ x.url \in Links
      BY <1>2 DEF Leg, Place
    <2> HIDE DEF y
    <2>4. Course(setup, y)
      BY <1>1, <1>2, <1>3, <1>4, <2>3 DEF Course, Ends
    <2>5. Asking(setup, y)
      BY <1>1, <1>2, <1>4, <2>3 DEF Asking
    <2>6. Origin(setup, y)
      BY <1>1, <1>2, <2>3 DEF Origin, ItsOwn, Fetched
    <2>7. QED BY <1>1, <1>2, <2>2, <2>3, <2>4, <2>5, <2>6 DEF Moved, Good, x
  <1>5. CASE ~(Does(l) = "refresh" /\ x.times = 1)
    <2>1. leg' = [leg EXCEPT ![l] = [leg[l] EXCEPT !.pc = "unlink", !.next = "failed"]]
      BY <1>5 DEF Refused, Move, Cleanup
    <2>2. /\ Fetched(leg[l]) /\ "failed" \in Ends("unlink") \ {"again", "sent"}
          /\ leg[l].pc \notin {"queued", "link"} /\ leg[l].next \notin {"again", "sent"}
      BY <1>1, <1>3 DEF Fetched, Ends
    <2>3. "unlink" \in Place \ {"queued", "link"}
      BY DEF Place
    <2>4. QED BY <1>1, <2>1, <2>2, <2>3, OnwardIsMoved
  <1>6. QED BY <1>4, <1>5

LEMMA PruneIsGood ==
    ASSUME TypeOK, LegsAreGood, NEW l \in Legs, Prune(l)
    PROVE  \E y : Moved(l, y)
  <1> DEFINE x == leg[l]
             move == CASE x.next = "again"  -> [To(l, "link") EXCEPT !.times = 2, !.next = "ok"]
                       [] x.next = "failed" -> Failed(l)
                       [] x.next = "sent"   -> To(l, "over")
  <1>1. x # Absent /\ x.pc = "prune" /\ leg' = [leg EXCEPT ![l] = move] /\ setup' = setup
    BY DEF Prune, At, Move
  <1>2. /\ Good(setup, x) /\ x \in Leg
        /\ Course(setup, x) /\ Asking(setup, x) /\ Origin(setup, x)
    BY <1>1, GoodFacts
  <1>3. x.next \in {"again", "failed", "sent"}
    BY <1>1, <1>2 DEF Course, Ends
  <1>4. PICK pc \in {"link", "upload", "over"}, next \in {"ok", "failed", "sent"}, times \in {1, 2} :
          /\ move = [x EXCEPT !.pc = pc, !.next = next, !.times = times]
          /\ x.next = "again"  => pc = "link" /\ next = "ok" /\ times = 2
          /\ x.next = "failed" => pc = "upload" /\ next = "failed" /\ times = x.times
          /\ x.next = "sent"   => pc = "over" /\ next = "sent" /\ times = x.times
    <2>1. CASE x.next = "again"
      <3>1. move = [x EXCEPT !.pc = "link", !.next = "ok", !.times = 2]
        BY <1>2, <2>1 DEF To, Leg
      <3>2. QED BY <2>1, <3>1
    <2>2. CASE x.next = "failed"
      <3>1. move = [x EXCEPT !.pc = "upload", !.next = "failed", !.times = x.times]
            /\ x.times \in {1, 2}
        BY <1>2, <2>2 DEF Failed, Leg
      <3>2. QED BY <2>2, <3>1
    <2>3. CASE x.next = "sent"
      <3>1. move = [x EXCEPT !.pc = "over", !.next = "sent", !.times = x.times]
            /\ x.times \in {1, 2}
        BY <1>2, <2>3 DEF To, Leg
      <3>2. QED BY <2>3, <3>1
    <2>4. QED BY <1>3, <2>1, <2>2, <2>3
  <1> DEFINE y == [x EXCEPT !.pc = pc, !.next = next, !.times = times]
  <1> HIDE DEF x, move
  <1>5. /\ y \in Leg /\ y.pc = pc /\ y.next = next /\ y.node = x.node /\ y.at = x.at
        /\ y.source = x.source /\ y.url = x.url /\ y.refused = x.refused /\ y.times = times
    BY <1>2 DEF Leg, Place
  <1>6. move = y
    BY <1>4
  <1> HIDE DEF y
  <1>7. Course(setup, y)
    BY <1>1, <1>2, <1>3, <1>4, <1>5 DEF Course, Ends
  <1>8. Asking(setup, y)
    BY <1>1, <1>2, <1>3, <1>4, <1>5 DEF Asking
  <1>9. Origin(setup, y)
    BY <1>1, <1>2, <1>3, <1>4, <1>5 DEF Origin, ItsOwn, Fetched
  <1>10. QED BY <1>1, <1>2, <1>5, <1>6, <1>7, <1>8, <1>9 DEF Moved, Good, x

LEMMA SeekLinkIsGood ==
    ASSUME TypeOK, LegsAreGood, NEW l \in Legs, SeekLink(l)
    PROVE  \E y : Moved(l, y)
  <1> DEFINE x == leg[l]
             d == DoesOf(setup, x.source)
  <1>1. x # Absent /\ x.pc = "link" /\ setup' = setup
    BY DEF SeekLink, At
  <1>2. /\ Good(setup, x) /\ x \in Leg /\ Does(l) = d
        /\ Course(setup, x) /\ Asking(setup, x) /\ Origin(setup, x)
        /\ setup \in Setups /\ x.source \in ASource /\ x.source.site \in Sites
    BY <1>1, GoodFacts
  <1>3. /\ d \in {"resolve", "refresh"}
        /\ d = "refresh" => x.source.site \in RefreshSites /\ setup.mode = "live"
        /\ d = "resolve" => x.source.site = "BUNKR"
        /\ setup.mode = "live" /\ x.source.site \in RefreshSites => d = "refresh"
    BY <1>1, <1>2, DoesFacts DEF Course
  <1>4. PICK link \in IF d = "resolve" THEN BunkrActual(x.source, offered)
                      ELSE Refresh(x.source, offered, x.times) :
          leg' = [leg EXCEPT ![l] =
                    IF link = NoLink THEN Failed(l)
                    ELSE [To(l, "mkdir") EXCEPT
                             !.url = link,
                             !.source.link = IF d = "resolve" THEN @ ELSE link]]
    BY <1>2 DEF SeekLink, Move
  <1>5. CASE link = NoLink
    <2> DEFINE y == [x EXCEPT !.pc = "upload", !.next = "failed"]
    <2>1. leg' = [leg EXCEPT ![l] = y]
      BY <1>4, <1>5 DEF Failed
    <2> HIDE DEF x, d
    <2>2. /\ y \in Leg /\ y.pc = "upload" /\ y.next = "failed" /\ y.node = x.node /\ y.at = x.at
          /\ y.source = x.source /\ y.url = x.url /\ y.refused = x.refused /\ y.times = x.times
      BY <1>2 DEF Leg, Place
    <2> HIDE DEF y
    <2>3. x.next = "ok"
      BY <1>1, <1>2 DEF Course, Ends
    <2>4. Course(setup, y)
      BY <1>1, <1>2, <2>2, <2>3 DEF Course, Ends, d
    <2>5. Asking(setup, y)
      BY <1>1, <1>2, <2>2, <2>3 DEF Asking
    <2>6. Origin(setup, y)
      BY <1>1, <1>2, <2>2 DEF Origin, ItsOwn, Fetched
    <2>7. QED BY <1>1, <1>2, <2>1, <2>2, <2>4, <2>5, <2>6 DEF Moved, Good, x
  <1>6. CASE link # NoLink
    <2> DEFINE new == IF d = "resolve" THEN x.source.link ELSE link
               y   == [x EXCEPT !.pc = "mkdir", !.url = link, !.source.link = new]
    <2>1. leg' = [leg EXCEPT ![l] = y]
      BY <1>2, <1>4, <1>6 DEF To, Leg
    <2>2. /\ link \in Links /\ new \in Links
          /\ d = "resolve" => /\ new = x.source.link
                              /\ link = x.source.link \/ x.source.link.at = "page"
                              /\ link.n \in {x.source.link.n, 0}
          /\ d = "refresh" =>
               /\ new = link /\ link.at = "cdn"
               /\ \/ /\ link = x.source.link
                     /\ \/ x.times = 1
                        \/ x.source.site \in {"FILESTER", "TURBO"}
                        \/ x.source.site = "MEDIAFIRE" /\ link = Cdn(FileA)
                  \/ /\ link.n = x.times
                     /\ x.source.site # "TRANSFERIT" => link.file = x.source.file
                     /\ x.source.file \in offered => link.file = x.source.file
      <3>1. offered \in SUBSET Files /\ x.times \in {1, 2} /\ x.source.link \in Links
        BY <1>2 DEF TypeOK, Leg
      <3> HIDE DEF x, d
      <3>2. CASE d = "resolve"
        <4>1. link \in BunkrActual(x.source, offered)
          BY <1>4, <3>2
        <4>2. QED BY <4>1, <3>1, <3>2, <1>2, <1>6, BunkrFacts
      <3>3. CASE d = "refresh"
        <4>1. link \in Refresh(x.source, offered, x.times)
          BY <1>4, <3>3
        <4>2. QED BY <4>1, <3>1, <3>3, <1>2, <1>3, <1>6, RefreshFacts
      <3>4. QED BY <3>2, <3>3, <1>3
    <2> HIDE DEF x, d, new
    <2>3. /\ y \in Leg /\ y.pc = "mkdir" /\ y.next = x.next /\ y.node = x.node /\ y.at = x.at
          /\ y.source.site = x.source.site /\ y.source.file = x.source.file
          /\ y.source.link = new /\ y.url = link /\ y.refused = x.refused /\ y.times = x.times
      BY <1>2, <2>2 DEF Leg, Place
    <2>4. DoesOf(setup, y.source) = d
      BY <2>3 DEF DoesOf, Downloader, d
    <2> HIDE DEF y
    <2>5. x.next = "ok" /\ x.times \in {1, 2} /\ x.source.link.n \in 0 .. 2
      BY <1>1, <1>2, LinkFacts DEF Course, Ends, Leg
    <2>6. Course(setup, y)
      BY <1>1, <1>2, <2>3, <2>4, <2>5 DEF Course, Ends, d
    <2>7. Cdn(FileA).n = 0
      BY LinkFacts
    <2>8. Asking(setup, y)
      <3>1. CASE d = "resolve"
        BY <1>1, <1>2, <1>3, <2>2, <2>3, <2>5, <3>1 DEF Asking, Course, d
      <3>2. CASE d = "refresh"
        BY <1>1, <1>2, <1>3, <2>2, <2>3, <2>5, <2>7, <3>2 DEF Asking, d
      <3>3. QED BY <3>1, <3>2, <1>3
    <2>9. Origin(setup, y)
      <3>1. CASE d = "resolve"
        BY <1>1, <1>2, <1>3, <2>2, <2>3, <3>1 DEF Origin, ItsOwn, d, RefreshSites
      <3>2. CASE d = "refresh"
        BY <1>1, <1>2, <1>3, <2>2, <2>3, <3>2 DEF Origin, ItsOwn, d, RefreshSites
      <3>3. QED BY <3>1, <3>2, <1>3
    <2>10. QED BY <1>1, <1>2, <2>1, <2>3, <2>6, <2>8, <2>9 DEF Moved, Good, x
  <1>7. QED BY <1>5, <1>6

LEMMA StepIsGood ==
    ASSUME TypeOK, LegsAreGood, NEW l \in Legs, Step(l)
    PROVE  \E y : Moved(l, y)
  BY TakeIsGood, SeekLinkIsGood, MkdirIsGood, AnsweredIsGood, RefusedIsGood, DownloadFailsIsGood,
     OpenIsGood, FillIsGood, UnlinkIsGood, PruneIsGood, SkipUploadIsGood, UploadOkIsGood,
     UploadFailsIsGood DEF Step

LEMMA ParseAdds ==
    ASSUME TypeOK, Packed, Parse
    PROVE  \E k, m \in 0 .. MaxLegs :
             /\ k <= m /\ Present = 1 .. k /\ setup' = setup
             /\ leg' \in [Legs -> Leg \cup {Absent}]
             /\ \A l \in Legs : l <= k \/ l > m => leg'[l] = leg[l]
             /\ \A l \in Legs : k < l /\ l <= m =>
                  Good(setup, leg'[l]) /\ leg'[l].pc = "queued"
  <1>1. PICK k \in 0 .. MaxLegs : Present = 1 .. k
    BY DEF Packed
  <1>2. Cardinality(Present) = k
    BY <1>1, FS_Interval, JourneyAssumption
  <1>3. PICK found \in Parsed(setup.mode, Extension("parse", "extension"), setup.url) \ {Raises} :
          /\ k + Len(found) <= MaxLegs
          /\ leg' = [l \in Legs |->
                 IF l \in (k + 1) .. (k + Len(found))
                 THEN LET s == found[l - (k + 1) + 1]
                      IN  [pc |-> "queued", source |-> s, url |-> s.link, refused |-> NoLink,
                           node |-> "none", at |-> "none", times |-> 1, next |-> "ok"]
                 ELSE leg[l]]
    BY <1>2, Zenon DEF Parse
  <1>4. /\ setup \in Setups /\ setup.mode \in Modes /\ setup.url \in AUrl
        /\ setup.url.site \in {"MEGA", "TRANSFERIT"} => setup.url.form # "file"
    BY SetupFacts DEF TypeOK
  <1>5. Extension("parse", "extension") \in Custom("extension")
    BY DEF Extension, Custom
  <1>6. found \in Found(setup.mode, setup.url)
    BY <1>3, <1>4, <1>5, ParsedIsFound
  <1> DEFINE m == k + Len(found)
  <1>7. m \in 0 .. MaxLegs /\ k <= m /\ Len(found) \in {1, 2}
    BY <1>1, <1>3, <1>6, JourneyAssumption DEF Found
  <1>8. ASSUME NEW s \in Sourced(setup.mode, setup.url)
        PROVE  LET x == [pc |-> "queued", source |-> s, url |-> s.link, refused |-> NoLink,
                         node |-> "none", at |-> "none", times |-> 1, next |-> "ok"]
               IN  x \in Leg /\ Good(setup, x) /\ x.pc = "queued"
    <2> DEFINE x == [pc |-> "queued", source |-> s, url |-> s.link, refused |-> NoLink,
                     node |-> "none", at |-> "none", times |-> 1, next |-> "ok"]
    <2>1. s \in ASource /\ s.link \in Links
      BY DEF Sourced, ASource
    <2>2. x \in Leg
      BY <2>1 DEF Leg, Place, ASource, Sites
    <2>3. Course(setup, x)
      BY DEF Course, Ends
    <2>4. Cdn(FileA).at = "cdn"
      BY LinkFacts
    <2>5. Asking(setup, x)
      BY <2>4 DEF Asking, Sourced
    <2>6. Origin(setup, x)
      BY <1>4 DEF Origin, ItsOwn, Sourced, Fetched, Modes
    <2>7. QED BY <2>2, <2>3, <2>5, <2>6 DEF Good
  <1>9. ASSUME NEW l \in Legs, k < l, l <= m
        PROVE  leg'[l] \in Leg /\ Good(setup, leg'[l]) /\ leg'[l].pc = "queued"
    <2> DEFINE i == l - (k + 1) + 1
    <2>1. l \in (k + 1) .. (k + Len(found)) /\ i \in 1 .. Len(found)
      BY <1>1, <1>7, <1>9 DEF Legs
    <2>2. found[i] \in Sourced(setup.mode, setup.url)
      BY <1>6, <2>1, ElementOfSeq DEF Found
    <2>3. leg'[l] = [pc |-> "queued", source |-> found[i], url |-> found[i].link,
                     refused |-> NoLink, node |-> "none", at |-> "none", times |-> 1,
                     next |-> "ok"]
      BY <1>3, <2>1, Zenon
    <2> HIDE DEF i
    <2>4. QED BY <1>8, <2>2, <2>3
  <1>10. \A l \in Legs : l <= k \/ l > m => leg'[l] = leg[l]
    <2>1. ASSUME NEW l \in Legs, l <= k \/ l > m
          PROVE  l \notin (k + 1) .. (k + Len(found))
      BY <2>1, <1>1, <1>7 DEF Legs
    <2>2. QED BY <2>1, <1>3
  <1> HIDE DEF m
  <1>11. leg' \in [Legs -> Leg \cup {Absent}]
    <2>1. DOMAIN leg' = Legs /\ leg' = [l \in Legs |-> leg'[l]]
      BY <1>3
    <2>2. ASSUME NEW l \in Legs PROVE leg'[l] \in Leg \cup {Absent}
      <3>1. CASE k < l /\ l <= m
        BY <3>1, <1>9
      <3>2. CASE ~(k < l /\ l <= m)
        <4>1. l <= k \/ l > m
          BY <3>2, <1>7 DEF Legs
        <4>2. QED BY <4>1, <1>10 DEF TypeOK
      <3>3. QED BY <3>1, <3>2
    <2>3. QED BY <2>1, <2>2
  <1>12. setup' = setup
    BY DEF Parse
  <1>13. QED BY <1>1, <1>7, <1>9, <1>10, <1>11, <1>12

LEMMA MovedLegs ==
    ASSUME TypeOK, LegsAreGood, NEW l \in Legs, NEW y, Moved(l, y)
    PROVE  /\ l \in Present /\ Present' = Present /\ leg'[l] = y /\ y \in Leg
           /\ leg' \in [Legs -> Leg \cup {Absent}]
           /\ \A m \in Legs : m # l => leg'[m] = leg[m]
           /\ \A m \in Present : /\ Good(setup', leg'[m])
                                 /\ leg'[m].source.site = leg[m].source.site
                                 /\ leg'[m].source.file = leg[m].source.file
  <1>1. /\ y \in Leg /\ leg[l] # Absent /\ leg' = [leg EXCEPT ![l] = y]
        /\ leg \in [Legs -> Leg \cup {Absent}]
    BY DEF Moved, Good, TypeOK
  <1>2. Absent \notin Leg
    BY DEF Absent, Leg, Place
  <1>3. /\ leg'[l] = y /\ leg' \in [Legs -> Leg \cup {Absent}]
        /\ \A m \in Legs : m # l => leg'[m] = leg[m]
    BY <1>1
  <1>4. l \in Present /\ Present' = Present
    BY <1>1, <1>2, <1>3 DEF Present
  <1>5. \A m \in Present : /\ Good(setup', leg'[m])
                           /\ leg'[m].source.site = leg[m].source.site
                           /\ leg'[m].source.file = leg[m].source.file
    BY <1>3 DEF Moved, LegsAreGood, Present
  <1>6. QED BY <1>1, <1>3, <1>4, <1>5

LEMMA ContentsFacts ==
    /\ \A kind \in {"media", "page", "fake"}, f \in Files \cup {"share"}, whole \in BOOLEAN :
         File(kind, f, whole) \in Contents
    /\ \A c \in Contents : c.kind \in {"media", "page", "fake"}
    /\ Fake \in Contents /\ None \notin Contents /\ Dir \notin Contents /\ None # Dir
    /\ File("media", "share", FALSE) \in Contents
  <1>1. ASSUME NEW kind \in {"media", "page", "fake"}, NEW f \in Files \cup {"share"},
               NEW whole \in BOOLEAN
        PROVE  File(kind, f, whole) \in Contents
    BY DEF Contents
  <1>2. Fake \in Contents /\ File("media", "share", FALSE) \in Contents
    BY <1>1 DEF Fake
  <1>3. \A c \in Contents : c.kind \in {"media", "page", "fake"}
    BY DEF Contents, File
  <1>4. None \notin Contents /\ Dir \notin Contents /\ None # Dir
    BY <1>3 DEF None, Dir
  <1>5. QED BY <1>1, <1>2, <1>3, <1>4

LEMMA WrittenIsContents ==
    ASSUME NEW l \in Legs, leg[l] \in Leg
    PROVE  Written(l) \in Contents
  <1>1. leg[l].url.file \in Files \cup {"share"}
    BY LinkFacts DEF Leg
  <1>2. \A kind \in {"media", "page"}, f \in Files \cup {"share"} : File(kind, f, TRUE) \in Contents
    BY ContentsFacts
  <1>3. QED BY <1>1, <1>2, ContentsFacts DEF Written

\* The place of a leg that has been taken.
LEMMA PlaceFacts ==
    ASSUME TypeOK, LegsAreGood, NEW l \in Legs, leg[l] # Absent, leg[l].pc # "queued"
    PROVE  /\ leg[l].at \in Nodes /\ leg[l].node \in Nodes /\ Path(leg[l].source) \in Links
           /\ leg[l] \in Leg
  BY GoodFacts DEF Course, Leg, Path

LEMMA KeepFacts ==
    ASSUME TypeOK, LegsAreGood, NEW l \in Legs, leg[l] # Absent, leg[l].pc # "queued",
           NEW what \in Contents \cup {None, Dir}, Keep(l, what)
    PROVE  /\ disk' \in [Nodes -> [Links -> Contents \cup {None, Dir}]]
           /\ disk'[leg[l].at][Path(leg[l].source)] = what
           /\ \A n \in Nodes, link \in Links : ~OfLeg(leg[l], n, link) => disk'[n][link] = disk[n][link]
  <1> DEFINE a == leg[l].at
             p == Path(leg[l].source)
             D == Contents \cup {None, Dir}
  <1>1. a \in Nodes /\ p \in Links /\ disk \in [Nodes -> [Links -> D]] /\ what \in D
    BY PlaceFacts DEF TypeOK
  <1>2. disk' = [disk EXCEPT ![a][p] = what]
    BY DEF Keep
  <1>3. \A n \in Nodes, link \in Links : OfLeg(leg[l], n, link) <=> a = n /\ p = link
    BY DEF OfLeg
  <1> HIDE DEF a, p, D
  <1>4. disk' \in [Nodes -> [Links -> D]]
    BY <1>1, <1>2
  <1>5. disk'[a][p] = what
    BY <1>1, <1>2
  <1>6. \A n \in Nodes, link \in Links : ~(a = n /\ p = link) => disk'[n][link] = disk[n][link]
    BY <1>1, <1>2
  <1>7. QED BY <1>3, <1>4, <1>5, <1>6 DEF a, p, D

\* What a step writes to a disk, and who writes.
LEMMA DiskSteps ==
    ASSUME TypeOK, LegsAreGood, NEW l \in Legs, Step(l)
    PROVE  /\ setup' = setup /\ offered' = offered
           /\ \/ disk' = disk
              \/ \E what \in Contents \cup {None, Dir} :
                   Keep(l, what) /\ leg[l] # Absent /\ leg[l].pc \in {"mkdir", "open", "fill", "unlink", "prune"}
           /\ writing' \in SUBSET Legs
           /\ sent' = sent \/ \E what \in Contents :
                                sent' = [sent EXCEPT ![l] = what] /\ leg[l] # Absent
  <1> USE DEF TypeOK
  <1>1. CASE Mkdir(l)
    BY <1>1 DEF Mkdir, At
  <1>2. CASE Open(l)
    BY <1>2, ContentsFacts DEF Open, At
  <1>3. CASE Fill(l)
    <2>1. leg[l] # Absent /\ leg[l].pc = "fill"
      BY <1>3 DEF Fill, At
    <2>2. Written(l) \in Contents
      BY <2>1, PlaceFacts, WrittenIsContents
    <2>3. QED BY <1>3, <2>1, <2>2 DEF Fill
  <1>4. CASE Unlink(l)
    BY <1>4 DEF Unlink, At
  <1>5. CASE Prune(l)
    BY <1>5 DEF Prune, At
  <1>6. CASE SeekLink(l) \/ Answered(l) \/ Refused(l) \/ DownloadFails(l)
    BY <1>6 DEF SeekLink, Answered, Refused, DownloadFails
  <1>7. ASSUME NEW n \in Nodes, Take(l, n) \/ SkipUpload(l, n) \/ UploadFails(l, n)
        PROVE  setup' = setup /\ offered' = offered /\ disk' = disk /\ writing' = writing
               /\ sent' = sent
    BY <1>7 DEF Take, SkipUpload, UploadFails
  <1>8. ASSUME NEW n \in Nodes, UploadOk(l, n)
        PROVE  /\ setup' = setup /\ offered' = offered /\ disk' = disk /\ writing' = writing
               /\ leg[l] # Absent
               /\ \E what \in Contents : sent' = [sent EXCEPT ![l] = what]
    BY <1>8, ContentsFacts DEF UploadOk, MayUpload, At
  <1>9. QED BY <1>1, <1>2, <1>3, <1>4, <1>5, <1>6, <1>7, <1>8 DEF Step

LEMMA StepKeepsTypes ==
    ASSUME TypeOK, Packed, LegsAreGood, NEW l \in Legs, Step(l)
    PROVE  TypeOK' /\ Packed' /\ LegsAreGood'
  <1>1. PICK y : Moved(l, y)
    BY StepIsGood
  <1>2. /\ l \in Present /\ Present' = Present /\ leg' \in [Legs -> Leg \cup {Absent}]
        /\ \A m \in Present : Good(setup', leg'[m])
    BY <1>1, MovedLegs
  <1>3. disk' \in [Nodes -> [Links -> Contents \cup {None, Dir}]]
    BY DiskSteps, KeepFacts DEF TypeOK
  <1>4. sent' \in [Legs -> Contents \cup {None}] /\ \A m \in Legs \ Present : sent'[m] = None
    BY <1>2, DiskSteps DEF TypeOK, LegsAreGood
  <1>5. TypeOK'
    BY <1>2, <1>3, <1>4, DiskSteps DEF TypeOK
  <1>6. Packed'
    BY <1>2 DEF Packed
  <1>7. LegsAreGood'
    BY <1>2, <1>4 DEF LegsAreGood
  <1>8. QED BY <1>5, <1>6, <1>7

LEMMA ParseKeepsTypes ==
    ASSUME TypeOK, Packed, LegsAreGood, Parse
    PROVE  TypeOK' /\ Packed' /\ LegsAreGood'
  <1>1. PICK k, m \in 0 .. MaxLegs :
             /\ k <= m /\ Present = 1 .. k /\ setup' = setup
             /\ leg' \in [Legs -> Leg \cup {Absent}]
             /\ \A l \in Legs : l <= k \/ l > m => leg'[l] = leg[l]
             /\ \A l \in Legs : k < l /\ l <= m =>
                  Good(setup, leg'[l]) /\ leg'[l].pc = "queued"
    BY ParseAdds
  <1>2. UNCHANGED <<setup, offered, disk, writing, sent>>
    BY DEF Parse
  <1>3. TypeOK'
    BY <1>1, <1>2 DEF TypeOK
  <1>4. ASSUME NEW l \in Legs
        PROVE  leg'[l] # Absent <=> l <= m
    <2>1. CASE l <= k
      <3>1. l \in Present
        BY <1>1, <2>1 DEF Legs
      <3>2. QED BY <1>1, <2>1, <3>1, JourneyAssumption DEF Present, Legs
    <2>2. CASE k < l /\ l <= m
      BY <1>1, <2>2 DEF Good, Absent, Leg, Place
    <2>3. CASE l > m
      <3>1. l \notin 1 .. k
        BY <1>1, <2>3, JourneyAssumption DEF Legs
      <3>2. QED BY <1>1, <2>3, <3>1, JourneyAssumption DEF Present, Legs
    <2>4. QED BY <1>1, <2>1, <2>2, <2>3, JourneyAssumption DEF Legs
  <1>5. Present' = 1 .. m
    BY <1>1, <1>4, JourneyAssumption DEF Present, Legs
  <1>6. Packed'
    BY <1>5 DEF Packed
  <1>7. ASSUME NEW l \in Present'
        PROVE  Good(setup, leg'[l])
    <2>1. l \in Legs /\ l <= m
      BY <1>5, <1>7 DEF Present
    <2>2. CASE k < l
      BY <1>1, <2>1, <2>2
    <2>3. CASE l <= k
      <3>1. l \in Present /\ leg'[l] = leg[l]
        BY <1>1, <2>1, <2>3 DEF Legs
      <3>2. QED BY <3>1 DEF LegsAreGood
    <2>4. QED BY <1>1, <2>1, <2>2, <2>3 DEF Legs
  <1>8. \A l \in Legs \ Present' : sent'[l] = None
    <2>1. Present \subseteq Present'
      BY <1>1, <1>5
    <2>2. QED BY <2>1, <1>2 DEF LegsAreGood
  <1>9. QED BY <1>2, <1>3, <1>6, <1>7, <1>8 DEF LegsAreGood

LEMMA InitIsGood ==
    ASSUME Init
    PROVE  TypeOK /\ Packed /\ LegsAreGood /\ Owned /\ Undisturbed /\ Present = {}
  <1>1. Present = {}
    BY DEF Init, Present
  <1>2. TypeOK
    BY DEF Init, TypeOK
  <1>3. Packed
    <2>1. 0 \in 0 .. MaxLegs /\ 1 .. 0 = {}
      BY JourneyAssumption
    <2>2. QED BY <1>1, <2>1 DEF Packed
  <1>4. LegsAreGood
    BY <1>1 DEF Init, LegsAreGood
  <1>5. Owned /\ Undisturbed
    BY <1>1, ContentsFacts DEF Init, Owned, Undisturbed
  <1>6. QED BY <1>1, <1>2, <1>3, <1>4, <1>5

-----------------------------------------------------------------------------
\* A step that writes no disk: what was the leg's is still, or is not there, or is also
\* another one's.
LEMMA StaysOwned ==
    ASSUME TypeOK, LegsAreGood, Owned, NEW l \in Legs, NEW y, Moved(l, y), disk' = disk,
           setup.affinity /\ Owns(leg[l]) =>
             \/ Owns(y) /\ y.at = leg[l].at /\ y.source = leg[l].source
             \/ Held(l) = None
             \/ Held(l) \in Contents /\ ~Holds(leg[l]),
           setup.affinity /\ Holds(leg[l]) =>
             \/ Holds(y) /\ y.at = leg[l].at /\ y.source = leg[l].source
             \/ Held(l) \notin Contents
    PROVE  Owned'
  <1>1. setup' = setup /\ Present' = Present /\ leg'[l] = y /\ l \in Present
        /\ \A m \in Legs : m # l => leg'[m] = leg[m]
    BY MovedLegs DEF Moved
  <1>2. SUFFICES ASSUME setup.affinity, NEW n \in Nodes, NEW link \in Links
                 PROVE  /\ disk[n][link] # None =>
                             \E m \in Present : OfLeg(leg'[m], n, link) /\ Owns(leg'[m])
                        /\ disk[n][link] \in Contents =>
                             \E m \in Present : OfLeg(leg'[m], n, link) /\ Holds(leg'[m])
    BY <1>1 DEF Owned
  <1>3. /\ disk[n][link] # None => \E m \in Present : OfLeg(leg[m], n, link) /\ Owns(leg[m])
        /\ disk[n][link] \in Contents =>
             \E m \in Present : OfLeg(leg[m], n, link) /\ Holds(leg[m])
    BY <1>2 DEF Owned
  <1>4. OfLeg(leg[l], n, link) => Held(l) = disk[n][link]
    BY DEF OfLeg, Held
  <1>5. y.at = leg[l].at /\ y.source = leg[l].source => (OfLeg(y, n, link) <=> OfLeg(leg[l], n, link))
    BY DEF OfLeg
  <1>6. \A m \in Present : Holds(leg[m]) => Owns(leg[m])
    BY DEF Owns
  <1>7. Present \subseteq Legs
    BY DEF Present
  <1>8. disk[n][link] \in Contents =>
          \E m \in Present : OfLeg(leg'[m], n, link) /\ Holds(leg'[m])
    BY <1>1, <1>2, <1>3, <1>4, <1>5, <1>7, Zenon
  <1>9. disk[n][link] # None => \E m \in Present : OfLeg(leg'[m], n, link) /\ Owns(leg'[m])
    <2>1. SUFFICES ASSUME disk[n][link] # None
                   PROVE  \E m \in Present : OfLeg(leg'[m], n, link) /\ Owns(leg'[m])
      OBVIOUS
    <2>2. PICK m \in Present : OfLeg(leg[m], n, link) /\ Owns(leg[m])
      BY <1>3, <2>1
    <2>3. CASE m # l
      BY <1>1, <1>7, <2>2, <2>3
    <2>4. CASE m = l /\ Held(l) \in Contents /\ ~Holds(leg[l])
      <3>1. PICK o \in Present : OfLeg(leg[o], n, link) /\ Holds(leg[o])
        BY <1>3, <1>4, <2>2, <2>4
      <3>2. o # l /\ Owns(leg[o])
        BY <1>6, <2>4, <3>1
      <3>3. QED BY <1>1, <1>7, <3>1, <3>2
    <2>5. CASE m = l /\ ~(Held(l) \in Contents /\ ~Holds(leg[l]))
      BY <1>1, <1>2, <1>4, <1>5, <2>1, <2>2, <2>5
    <2>6. QED BY <2>3, <2>4, <2>5
  <1>10. QED BY <1>8, <1>9

\* A step that writes at its place.
LEMMA WritesOwned ==
    ASSUME TypeOK, LegsAreGood, Owned, NEW l \in Legs, NEW y, Moved(l, y),
           NEW what \in Contents \cup {None, Dir}, Keep(l, what), leg[l].pc # "queued",
           y.at = leg[l].at, y.source = leg[l].source,
           what # None => Owns(y), what \in Contents => Holds(y)
    PROVE  Owned'
  <1>1. setup' = setup /\ Present' = Present /\ leg'[l] = y /\ l \in Present
        /\ leg[l] # Absent /\ \A m \in Legs : m # l => leg'[m] = leg[m]
    BY MovedLegs DEF Moved
  <1>2. SUFFICES ASSUME setup.affinity, NEW n \in Nodes, NEW link \in Links
                 PROVE  /\ disk'[n][link] # None =>
                             \E m \in Present : OfLeg(leg'[m], n, link) /\ Owns(leg'[m])
                        /\ disk'[n][link] \in Contents =>
                             \E m \in Present : OfLeg(leg'[m], n, link) /\ Holds(leg'[m])
    BY <1>1 DEF Owned
  <1>3. /\ disk[n][link] # None => \E m \in Present : OfLeg(leg[m], n, link) /\ Owns(leg[m])
        /\ disk[n][link] \in Contents =>
             \E m \in Present : OfLeg(leg[m], n, link) /\ Holds(leg[m])
    BY <1>2 DEF Owned
  <1>4. OfLeg(y, n, link) <=> OfLeg(leg[l], n, link)
    BY DEF OfLeg
  <1>5. /\ disk'[leg[l].at][Path(leg[l].source)] = what
        /\ ~OfLeg(leg[l], n, link) => disk'[n][link] = disk[n][link]
    BY <1>1, KeepFacts
  <1>6. Present \subseteq Legs
    BY DEF Present
  <1>7. CASE OfLeg(leg[l], n, link)
    <2>1. disk'[n][link] = what
      BY <1>5, <1>7 DEF OfLeg
    <2>2. QED BY <1>1, <1>4, <1>7, <2>1
  <1>8. CASE ~OfLeg(leg[l], n, link)
    BY <1>1, <1>3, <1>5, <1>6, <1>8
  <1>9. QED BY <1>7, <1>8

\* A leg that goes on with the same link, at the same place.
Same(x, y) == y.source = x.source /\ y.url = x.url /\ y.at = x.at /\ y.node = x.node

LEMMA StepFields ==
    ASSUME TypeOK, LegsAreGood, NEW l \in Legs, Step(l)
    PROVE  LET x == leg[l]
               y == leg'[l]
           IN  /\ Moved(l, y) /\ x \in Leg /\ y \in Leg /\ x # Absent
               /\ SeekLink(l) => /\ x.pc = "link" /\ y.pc \in {"upload", "mkdir"}
                                 /\ y.pc = "upload" => y.next = "failed"
                                 /\ y.pc = "mkdir" => y.next = "ok"
                                 /\ y.node = x.node
               /\ Mkdir(l)    => x.pc = "mkdir" /\ y.pc \in {"open", "get"} /\ Same(x, y)
                                 /\ y.next = "ok"
               /\ Answered(l) => x.pc = "get" /\ y.pc = "open" /\ Same(x, y)
                                 /\ y.next = "ok"
               /\ Refused(l) \/ DownloadFails(l) =>
                    /\ x.pc \in {"get", "fill"} /\ y.pc = "unlink" /\ Same(x, y)
                    /\ y.next \in {"again", "failed"}
               /\ Open(l)     => /\ x.pc = "open" /\ Same(x, y)
                                 /\ \/ y.pc = "unlink" /\ y.next = "failed"
                                    \/ y.pc = "fill" /\ y.next = "ok"
               /\ Fill(l)     => x.pc = "fill" /\ y.pc = "upload" /\ y.next = "ok" /\ Same(x, y)
               /\ Unlink(l)   => x.pc = "unlink" /\ y.pc = "prune" /\ y.next = x.next /\ Same(x, y)
               /\ Prune(l)    => /\ x.pc = "prune" /\ Same(x, y)
                                 /\ \/ y.pc = "link" /\ y.next = "ok" /\ x.next = "again"
                                    \/ y.pc = "upload" /\ y.next = "failed" /\ x.next = "failed"
                                    \/ y.pc = "over" /\ y.next = "sent" /\ x.next = "sent"
  <1> DEFINE x == leg[l]
  <1>1. PICK y : Moved(l, y)
    BY StepIsGood
  <1>2. leg'[l] = y /\ x # Absent /\ x \in Leg /\ y \in Leg /\ Course(setup, x)
    BY <1>1, MovedLegs DEF Moved, Good
  <1>3. x.pc \in {"queued", "link", "mkdir", "get", "open", "fill"} => x.next = "ok"
    BY <1>2 DEF Course, Ends
  <1>4. \A z : leg' = [leg EXCEPT ![l] = z] => y = z
    BY <1>2 DEF TypeOK
  <1> HIDE DEF x
  <1>5. ASSUME SeekLink(l)
        PROVE  /\ x.pc = "link" /\ y.pc \in {"upload", "mkdir"} /\ y.node = x.node
               /\ y.pc = "upload" => y.next = "failed"
               /\ y.pc = "mkdir" => y.next = "ok"
    <2>1. x.pc = "link" /\ x.next = "ok"
      BY <1>3, <1>5 DEF SeekLink, At, x
    <2>2. PICK link :
            y = IF link = NoLink THEN Failed(l)
                ELSE [To(l, "mkdir") EXCEPT
                        !.url = link,
                        !.source.link = IF Does(l) = "resolve" THEN @ ELSE link]
      BY <1>4, <1>5 DEF SeekLink, Move
    <2>3. QED BY <2>1, <2>2, <1>2 DEF Failed, To, x, Leg
  <1>6. ASSUME Mkdir(l)
        PROVE  x.pc = "mkdir" /\ y.pc \in {"open", "get"} /\ Same(x, y) /\ y.next = "ok"
    <2>1. x.pc = "mkdir" /\ y = [x EXCEPT !.pc = IF Does(l) = "mock" THEN "open" ELSE "get"]
      BY <1>4, <1>6 DEF Mkdir, At, Move, To, x
    <2>2. QED BY <2>1, <1>2, <1>3 DEF Leg, Same
  <1>7. ASSUME Answered(l)
        PROVE  x.pc = "get" /\ y.pc = "open" /\ Same(x, y) /\ y.next = "ok"
    <2>1. x.pc = "get" /\ y = [x EXCEPT !.pc = "open"]
      BY <1>4, <1>7 DEF Answered, At, Move, To, x
    <2>2. QED BY <2>1, <1>2, <1>3 DEF Leg, Same
  <1>8. ASSUME Refused(l) \/ DownloadFails(l)
        PROVE  /\ x.pc \in {"get", "fill"} /\ y.pc = "unlink" /\ Same(x, y)
               /\ y.next \in {"again", "failed"}
    <2>1. /\ x.pc \in {"get", "fill"}
          /\ \/ y = [[x EXCEPT !.pc = "unlink", !.next = "again"] EXCEPT !.refused = x.url]
             \/ y = [x EXCEPT !.pc = "unlink", !.next = "failed"]
      BY <1>4, <1>8 DEF Refused, DownloadFails, At, Move, Cleanup, x
    <2>2. CASE y = [[x EXCEPT !.pc = "unlink", !.next = "again"] EXCEPT !.refused = x.url]
      <3>1. y.pc = "unlink" /\ y.next = "again"
        BY <2>2, <1>2 DEF Leg
      <3>2. y.source = x.source /\ y.url = x.url
        BY <2>2, <1>2 DEF Leg
      <3>3. y.at = x.at /\ y.node = x.node
        BY <2>2, <1>2 DEF Leg
      <3>4. QED BY <2>1, <3>1, <3>2, <3>3 DEF Same
    <2>3. CASE y = [x EXCEPT !.pc = "unlink", !.next = "failed"]
      BY <2>1, <2>3, <1>2 DEF Leg, Same
    <2>4. QED BY <2>1, <2>2, <2>3
  <1>9. ASSUME Open(l)
        PROVE  /\ x.pc = "open" /\ Same(x, y)
               /\ \/ y.pc = "unlink" /\ y.next = "failed"
                  \/ y.pc = "fill" /\ y.next = "ok"
    <2>1. /\ x.pc = "open"
          /\ \/ y = [x EXCEPT !.pc = "unlink", !.next = "failed"]
             \/ y = [x EXCEPT !.pc = "fill"]
      BY <1>4, <1>9 DEF Open, At, Move, Cleanup, To, x
    <2>2. QED BY <2>1, <1>2, <1>3 DEF Leg, Same
  <1>10. ASSUME Fill(l)
         PROVE  x.pc = "fill" /\ y.pc = "upload" /\ y.next = "ok" /\ Same(x, y)
    <2>1. x.pc = "fill" /\ y = [x EXCEPT !.pc = "upload"]
      BY <1>4, <1>10 DEF Fill, At, Move, To, x
    <2>2. QED BY <2>1, <1>2, <1>3 DEF Leg, Same
  <1>11. ASSUME Unlink(l)
         PROVE  x.pc = "unlink" /\ y.pc = "prune" /\ y.next = x.next /\ Same(x, y)
    <2>1. x.pc = "unlink" /\ y = [x EXCEPT !.pc = "prune"]
      BY <1>4, <1>11 DEF Unlink, At, Move, To, x
    <2>2. QED BY <2>1, <1>2 DEF Leg, Same
  <1>12. ASSUME Prune(l)
         PROVE  /\ x.pc = "prune" /\ Same(x, y)
                /\ \/ y.pc = "link" /\ y.next = "ok" /\ x.next = "again"
                   \/ y.pc = "upload" /\ y.next = "failed" /\ x.next = "failed"
                   \/ y.pc = "over" /\ y.next = "sent" /\ x.next = "sent"
    <2>1. /\ x.pc = "prune"
          /\ y = CASE x.next = "again"  -> [To(l, "link") EXCEPT !.times = 2, !.next = "ok"]
                   [] x.next = "failed" -> Failed(l)
                   [] x.next = "sent"   -> To(l, "over")
      BY <1>4, <1>12 DEF Prune, At, Move, x
    <2>2. x.next \in {"again", "failed", "sent"}
      BY <2>1, <1>2 DEF Course, Ends
    <2>3. CASE x.next = "again"
      BY <2>1, <2>3, <1>2 DEF To, Leg, Same, x
    <2>4. CASE x.next = "failed"
      BY <2>1, <2>4, <1>2 DEF Failed, Leg, Same, x
    <2>5. CASE x.next = "sent"
      BY <2>1, <2>5, <1>2 DEF To, Leg, Same, x
    <2>6. QED BY <2>1, <2>2, <2>3, <2>4, <2>5
  <1>13. QED BY <1>1, <1>2, <1>5, <1>6, <1>7, <1>8, <1>9, <1>10, <1>11, <1>12 DEF x

LEMMA NodeStepFields ==
    ASSUME TypeOK, LegsAreGood, NEW l \in Legs, NEW n \in Nodes, Step(l)
    PROVE  LET x == leg[l]
               y == leg'[l]
           IN  /\ Take(l, n) => /\ x.pc = "queued" /\ y.source = x.source /\ y.url = x.url
                                /\ \/ y.pc = "upload" /\ y.next = "failed"
                                   \/ y.pc = "link" /\ y.next = "ok"
                                   \/ y.pc = "mkdir" /\ y.next = "ok" /\ Does(l) # "refresh"
               /\ SkipUpload(l, n) => /\ x.pc = "upload" /\ x.next = "failed" /\ Same(x, y)
                                      /\ y.pc = "over" /\ y.next = "failed"
               /\ UploadFails(l, n) => /\ x.pc = "upload" /\ x.next = "ok" /\ Same(x, y)
                                       /\ y.pc = "over" /\ y.next = "kept"
               /\ UploadOk(l, n) => /\ x.pc = "upload" /\ x.next = "ok"
                                    /\ y.source = x.source /\ y.url = x.url /\ y.node = x.node
                                    /\ y.at = n /\ (setup.affinity => n = x.at)
                                    /\ y.pc = "unlink" /\ y.next = "sent"
  <1> DEFINE x == leg[l]
  <1>1. PICK y : Moved(l, y)
    BY StepIsGood
  <1>2. leg'[l] = y /\ x # Absent /\ x \in Leg /\ y \in Leg /\ Course(setup, x)
        /\ x.source \in ASource /\ x.source.site \in Sites /\ setup \in Setups
    BY <1>1, MovedLegs, GoodFacts DEF Moved, Good
  <1>3. x.pc \in {"queued", "link", "mkdir", "get", "open", "fill"} => x.next = "ok"
    BY <1>2 DEF Course, Ends
  <1>4. \A z : leg' = [leg EXCEPT ![l] = z] => y = z
    BY <1>2 DEF TypeOK
  <1> HIDE DEF x
  <1>5. ASSUME Take(l, n)
        PROVE  /\ x.pc = "queued" /\ y.source = x.source /\ y.url = x.url
               /\ \/ y.pc = "upload" /\ y.next = "failed"
                  \/ y.pc = "link" /\ y.next = "ok"
                  \/ y.pc = "mkdir" /\ y.next = "ok" /\ Does(l) # "refresh"
    <2> DEFINE start == CASE Does(l) = "unsupported"           -> Failed(l)
                          [] Does(l) \in {"resolve", "refresh"} -> To(l, "link")
                          [] OTHER                              -> To(l, "mkdir")
    <2>1. x.pc = "queued" /\ y = [start EXCEPT !.node = n, !.at = n]
      BY <1>4, <1>5 DEF Take, At, Move, x
    <2>2. x.next = "ok"
      BY <1>3, <2>1
    <2>3. \/ start = [x EXCEPT !.pc = "upload", !.next = "failed"]
          \/ start = [x EXCEPT !.pc = "link"]
          \/ start = [x EXCEPT !.pc = "mkdir"] /\ Does(l) # "refresh"
      BY DEF Failed, To, x
    <2> HIDE DEF start
    <2>4. CASE start = [x EXCEPT !.pc = "upload", !.next = "failed"]
      BY <2>1, <2>4, <1>2 DEF Leg
    <2>5. CASE start = [x EXCEPT !.pc = "link"]
      BY <2>1, <2>2, <2>5, <1>2 DEF Leg
    <2>6. CASE start = [x EXCEPT !.pc = "mkdir"] /\ Does(l) # "refresh"
      BY <2>1, <2>2, <2>6, <1>2 DEF Leg
    <2>7. QED BY <2>3, <2>4, <2>5, <2>6
  <1>6. ASSUME SkipUpload(l, n)
        PROVE  /\ x.pc = "upload" /\ x.next = "failed" /\ Same(x, y)
               /\ y.pc = "over" /\ y.next = "failed"
    <2>1. x.pc = "upload" /\ x.next = "failed" /\ y = [x EXCEPT !.pc = "over"]
      BY <1>4, <1>6 DEF SkipUpload, MayUpload, At, Move, To, x
    <2>2. QED BY <2>1, <1>2 DEF Leg, Same
  <1>7. ASSUME UploadFails(l, n)
        PROVE  /\ x.pc = "upload" /\ x.next = "ok" /\ Same(x, y)
               /\ y.pc = "over" /\ y.next = "kept"
    <2>1. x.pc = "upload" /\ x.next = "ok"
          /\ y = [[x EXCEPT !.pc = "over"] EXCEPT !.next = "kept"]
      BY <1>4, <1>7 DEF UploadFails, MayUpload, At, Move, To, x
    <2>2. QED BY <2>1, <1>2 DEF Leg, Same
  <1>8. ASSUME UploadOk(l, n)
        PROVE  /\ x.pc = "upload" /\ x.next = "ok"
               /\ y.source = x.source /\ y.url = x.url /\ y.node = x.node
               /\ y.at = n /\ (setup.affinity => n = x.at)
               /\ y.pc = "unlink" /\ y.next = "sent"
    <2>1. /\ x.pc = "upload" /\ x.next = "ok"
          /\ y = [[x EXCEPT !.pc = "unlink", !.next = "sent"] EXCEPT !.at = n]
          /\ UploadQueue(setup.affinity, x.node) \in UploadQueues(setup.affinity, n)
      BY <1>4, <1>8 DEF UploadOk, MayUpload, At, Move, Cleanup, x
    <2>2. setup.affinity => x.node = n
      BY <2>1 DEF UploadQueue, UploadQueues
    <2>3. setup.affinity => x.at = x.node
      BY <1>2 DEF Course
    <2>4. QED BY <2>1, <2>2, <2>3, <1>2 DEF Leg
  <1>9. QED BY <1>2, <1>5, <1>6, <1>7, <1>8 DEF x

LEMMA StepKeepsOwned ==
    ASSUME TypeOK, LegsAreGood, Owned, NEW l \in Legs, Step(l)
    PROVE  Owned'
  <1> DEFINE x == leg[l]
             y == leg'[l]
  <1>1. Moved(l, y) /\ x \in Leg /\ y \in Leg /\ x # Absent
    BY StepFields
  <1>2. CASE SeekLink(l)
    <2>1. ~Owns(x) /\ ~Holds(x) /\ disk' = disk
      BY <1>2, StepFields DEF Owns, Holds, SeekLink, At, Course, Ends
    <2>2. QED BY <1>1, <2>1, StaysOwned
  <1>3. CASE Answered(l)
    <2>1. ~Holds(x) /\ Owns(y) /\ Same(x, y) /\ disk' = disk
      BY <1>3, StepFields DEF Owns, Holds, Answered
    <2>2. QED BY <1>1, <2>1, StaysOwned DEF Same
  <1>4. CASE Refused(l) \/ DownloadFails(l)
    <2>1. Holds(y) /\ Owns(y) /\ Same(x, y) /\ disk' = disk
      BY <1>4, StepFields DEF Owns, Holds, Refused, DownloadFails
    <2>2. QED BY <1>1, <2>1, StaysOwned DEF Same
  <1>5. CASE Mkdir(l)
    <2>1. /\ x.pc = "mkdir" /\ ~Holds(x) /\ ~Owns(x) /\ Owns(y) /\ Same(x, y)
          /\ disk' = disk \/ Keep(l, Dir)
      BY <1>1, <1>5, StepFields DEF Owns, Holds, Mkdir
    <2>2. CASE disk' = disk
      BY <1>1, <2>1, <2>2, StaysOwned DEF Same
    <2>3. CASE Keep(l, Dir)
      BY <1>1, <2>1, <2>3, WritesOwned, ContentsFacts DEF Same
    <2>4. QED BY <2>1, <2>2, <2>3
  <1>6. CASE Open(l)
    <2>1. /\ x.pc = "open" /\ ~Holds(x) /\ Holds(y) /\ Owns(y) /\ Same(x, y)
          /\ disk' = disk \/ Keep(l, File("media", "share", FALSE))
      BY <1>1, <1>6, StepFields DEF Owns, Holds, Open
    <2>2. CASE disk' = disk
      BY <1>1, <2>1, <2>2, StaysOwned DEF Same
    <2>3. CASE Keep(l, File("media", "share", FALSE))
      BY <1>1, <2>1, <2>3, WritesOwned, ContentsFacts DEF Same
    <2>4. QED BY <2>1, <2>2, <2>3
  <1>7. CASE Fill(l)
    <2>1. /\ x.pc = "fill" /\ Holds(y) /\ Owns(y) /\ Same(x, y)
          /\ disk' = disk \/ Keep(l, Written(l))
      BY <1>1, <1>7, StepFields DEF Owns, Holds, Fill
    <2>2. CASE disk' = disk
      BY <1>1, <2>1, <2>2, StaysOwned DEF Same
    <2>3. CASE Keep(l, Written(l))
      <3>1. Written(l) \in Contents
        BY <1>1, WrittenIsContents
      <3>2. QED BY <1>1, <2>1, <2>3, <3>1, WritesOwned DEF Same
    <2>4. QED BY <2>1, <2>2, <2>3
  <1>8. CASE Unlink(l)
    <2>1. /\ x.pc = "unlink" /\ Owns(y) /\ Same(x, y)
          /\ \/ disk' = disk /\ Held(l) \notin Contents
             \/ Keep(l, Dir)
      BY <1>1, <1>8, StepFields DEF Owns, Unlink
    <2>2. CASE disk' = disk /\ Held(l) \notin Contents
      BY <1>1, <2>1, <2>2, StaysOwned DEF Same
    <2>3. CASE Keep(l, Dir)
      BY <1>1, <2>1, <2>3, WritesOwned, ContentsFacts DEF Same
    <2>4. QED BY <2>1, <2>2, <2>3
  <1>9. CASE Prune(l)
    <2>1. /\ x.pc = "prune" /\ ~Holds(x) /\ Same(x, y)
          /\ \/ disk' = disk /\ Held(l) # Dir
             \/ Keep(l, None)
      BY <1>1, <1>9, StepFields DEF Holds, Prune
    <2>2. CASE disk' = disk /\ Held(l) # Dir
      <3>1. Held(l) \in Contents \cup {None, Dir}
        BY <1>1, <2>1, PlaceFacts DEF TypeOK, Held
      <3>2. QED BY <1>1, <2>1, <2>2, <3>1, StaysOwned
    <2>3. CASE Keep(l, None)
      BY <1>1, <2>1, <2>3, WritesOwned, ContentsFacts DEF Same
    <2>4. QED BY <2>1, <2>2, <2>3
  <1>10. ASSUME NEW n \in Nodes, Take(l, n) \/ SkipUpload(l, n)
         PROVE  Owned'
    <2>1. ~Owns(x) /\ ~Holds(x) /\ disk' = disk
      BY <1>10, NodeStepFields DEF Owns, Holds, Take, SkipUpload
    <2>2. QED BY <1>1, <2>1, StaysOwned
  <1>11. ASSUME NEW n \in Nodes, UploadFails(l, n)
         PROVE  Owned'
    <2>1. Owns(y) /\ Holds(y) /\ disk' = disk /\ Same(x, y)
      BY <1>11, NodeStepFields DEF Owns, Holds, UploadFails
    <2>2. QED BY <1>1, <2>1, StaysOwned DEF Same
  <1>12. ASSUME NEW n \in Nodes, UploadOk(l, n)
         PROVE  Owned'
    <2>1. Owns(y) /\ Holds(y) /\ disk' = disk /\ y.source = x.source
          /\ (setup.affinity => y.at = x.at)
      BY <1>12, NodeStepFields DEF Owns, Holds, UploadOk
    <2>2. QED BY <1>1, <2>1, StaysOwned
  <1>13. QED BY <1>2, <1>3, <1>4, <1>5, <1>6, <1>7, <1>8, <1>9, <1>10, <1>11, <1>12 DEF Step

LEMMA ParseKeepsOwned ==
    ASSUME TypeOK, Packed, LegsAreGood, Owned, Parse
    PROVE  Owned'
  <1>1. PICK k, m \in 0 .. MaxLegs :
             /\ k <= m /\ Present = 1 .. k /\ setup' = setup
             /\ \A l \in Legs : l <= k \/ l > m => leg'[l] = leg[l]
    BY ParseAdds
  <1>2. disk' = disk
    BY DEF Parse
  <1>3. \A l \in Present : l \in Present' /\ leg'[l] = leg[l]
    <2>1. TAKE l \in Present
    <2>2. l \in Legs /\ l <= k
      BY <1>1 DEF Present
    <2>3. QED BY <1>1, <2>2 DEF Present
  <1>4. QED BY <1>1, <1>2, <1>3, Zenon DEF Owned

-----------------------------------------------------------------------------
\* What a leg writes depends on its source and the link it requests.
LEMMA SameWritten ==
    ASSUME NEW l, setup' = setup, leg'[l].source = leg[l].source, leg'[l].url = leg[l].url
    PROVE  Written(l)' = Written(l) /\ Reads' = Reads
  <1>1. Does(l)' = Does(l)
    BY Zenon DEF Does, Extension
  <1>2. QED BY <1>1, Zenon DEF Written, Reads

\* Legs that meet at a path are of one file, and so the same.
LEMMA ApartPlaces ==
    ASSUME Apart, NEW l \in Present, NEW m \in Present, l # m,
           Own(l), Own(m), Fetched(leg[l]), Fetched(leg[m])
    PROVE  Path(leg[l].source) # Path(leg[m].source)
  <1>1. leg[l].source.file # leg[m].source.file
    BY DEF Apart
  <1>2. QED BY <1>1 DEF Own, Path

LEMMA OthersOwn ==
    ASSUME TypeOK, LegsAreGood, Apart, \A o \in Present : Own(o),
           NEW l \in Legs, Step(l), NEW m \in Present, m # l
    PROVE  Own(m)'
  <1>1. /\ l \in Present /\ m \in Legs /\ leg'[m] = leg[m] /\ setup' = setup /\ Own(l) /\ Own(m)
        /\ leg[m] # Absent /\ leg[l] # Absent
    BY StepFields, MovedLegs DEF Moved, Present
  <1>2. Written(m)' = Written(m) /\ Reads' = Reads
    BY <1>1, SameWritten
  <1>3. sent'[m] = sent[m]
    BY <1>1, DiskSteps DEF TypeOK
  <1>4. ASSUME leg[m].pc = "fill", m \in writing
        PROVE  m \in writing'
    <2>1. CASE writing' = writing \/ writing' = writing \cup {l} \/ writing' = writing \ {l}
      BY <1>1, <1>4, <2>1
    <2>2. CASE Unlink(l)
      <3>1. Fetched(leg[l]) /\ Fetched(leg[m])
        BY <1>4, <2>2, StepFields DEF Fetched
      <3>2. ~SamePath(l, m)
        BY <1>1, <3>1, ApartPlaces DEF SamePath
      <3>3. QED BY <1>4, <2>2, <3>2 DEF Unlink
    <2>3. QED BY <2>1, <2>2 DEF Step, SeekLink, Mkdir, Answered, Refused, DownloadFails, Open,
                             Fill, Prune, Take, SkipUpload, UploadOk, UploadFails
  <1>5. ASSUME Fetched(leg[m]), leg[m].pc # "queued"
        PROVE  disk'[leg[m].node][Path(leg[m].source)] = disk[leg[m].node][Path(leg[m].source)]
    <2>1. CASE disk' = disk
      BY <2>1
    <2>2. CASE \E what \in Contents \cup {None, Dir} :
                 /\ Keep(l, what)
                 /\ leg[l].pc \in {"mkdir", "open", "fill", "unlink", "prune"}
      <3>1. Fetched(leg[l])
        BY <2>2 DEF Fetched
      <3>2. Path(leg[l].source) # Path(leg[m].source)
        BY <1>1, <1>5, <3>1, ApartPlaces
      <3>3. leg[m].node \in Nodes /\ Path(leg[m].source) \in Links
        BY <1>1, <1>5, PlaceFacts
      <3>4. ~OfLeg(leg[l], leg[m].node, Path(leg[m].source))
        BY <3>2 DEF OfLeg
      <3>5. PICK what \in Contents \cup {None, Dir} : Keep(l, what) /\ leg[l].pc # "queued"
        BY <2>2
      <3>6. QED BY <1>1, <3>3, <3>4, <3>5, KeepFacts
    <2>3. QED BY <2>1, <2>2, DiskSteps
  <1>6. ASSUME leg[m].pc = "upload", leg[m].next = "ok"
        PROVE  disk'[leg[m].node][Path(leg[m].source)] = Written(m)
    <2>1. Fetched(leg[m]) /\ leg[m].pc # "queued"
      BY <1>6 DEF Fetched
    <2>2. QED BY <1>1, <1>5, <1>6, <2>1 DEF Own
  <1>7. Path(leg'[m].source) = Path(leg[m].source)
    BY <1>1
  <1>8. QED BY <1>1, <1>2, <1>3, <1>4, <1>6, <1>7 DEF Own, Path

LEMMA SelfFetched ==
    ASSUME TypeOK, LegsAreGood, Apart, NEW l \in Legs, Step(l), Own(l), Fetched(leg'[l])
    PROVE  leg'[l].source.link.file = leg'[l].source.file /\ ItsOwn(leg'[l])
  <1> DEFINE x == leg[l]
             y == leg'[l]
  <1>1. /\ Moved(l, y) /\ x # Absent /\ l \in Present /\ y.source.file = x.source.file
        /\ y.source.site = x.source.site
        /\ Course(setup, x) /\ Origin(setup, x) /\ Origin(setup, y)
        /\ setup \in Setups /\ x.source \in ASource /\ x.source.site \in Sites
        /\ Does(l) = DoesOf(setup, x.source)
    BY StepFields, GoodFacts, MovedLegs DEF Moved, Good
  <1>2. x.source.file \in offered /\ offered \in SUBSET Files /\ x.source.file # "share"
    BY <1>1, JourneyAssumption DEF Apart, TypeOK
  <1>3. CASE Fetched(x) /\ Same(x, y)
    BY <1>1, <1>3 DEF Own, Same, ItsOwn
  <1>4. CASE x.source.site # "TRANSFERIT" \/ setup.mode # "live"
    BY <1>1, <1>2, <1>4 DEF Origin, ItsOwn
  <1>5. CASE SeekLink(l) /\ x.source.site = "TRANSFERIT" /\ setup.mode = "live"
    <2>1. /\ x.pc = "link" /\ y.pc = "mkdir"
      BY <1>5, StepFields DEF Fetched
    <2>2. Does(l) = "refresh"
      BY <1>1, <1>5, DoesFacts DEF RefreshSites
    <2>3. PICK link \in Refresh(x.source, offered, x.times) :
            y = IF link = NoLink THEN Failed(l)
                ELSE [To(l, "mkdir") EXCEPT !.url = link, !.source.link = link]
      <3>1. PICK link \in Refresh(x.source, offered, x.times) :
              leg' = [leg EXCEPT ![l] =
                       IF link = NoLink THEN Failed(l)
                       ELSE [To(l, "mkdir") EXCEPT !.url = link, !.source.link = link]]
        BY <1>5, <2>2 DEF SeekLink, Move
      <3>2. QED BY <3>1 DEF TypeOK
    <2>4. link # NoLink
      <3>1. x \in Leg
        BY StepFields
      <3>2. QED BY <2>1, <2>3, <3>1 DEF Failed, Leg
    <2>5. x.times \in {1, 2} /\ x \in Leg
      BY StepFields DEF Leg
    <2>6. link.at = "cdn" /\ ((link = x.source.link /\ x.times = 1) \/ link.file = x.source.file)
      BY <1>1, <1>2, <1>5, <2>3, <2>4, <2>5, RefreshFacts DEF RefreshSites
    <2>7. x.times = 1 => x.source.link.at = "page"
      BY <1>1, <1>5, <2>1 DEF Origin, ItsOwn
    <2>8. link.file = x.source.file
      BY <2>6, <2>7
    <2>9. y.url = link /\ y.source.link = link
      BY <2>3, <2>4, <2>5 DEF To, Leg
    <2>10. QED BY <1>1, <2>8, <2>9 DEF ItsOwn
  <1>6. ASSUME NEW n \in Nodes, Take(l, n), x.source.site = "TRANSFERIT", setup.mode = "live"
        PROVE  FALSE
    <2>1. y.pc = "mkdir" /\ Does(l) # "refresh"
      BY <1>6, NodeStepFields DEF Fetched
    <2>2. QED BY <1>1, <1>6, <2>1, DoesFacts DEF RefreshSites
  <1>7. ASSUME NEW n \in Nodes, SkipUpload(l, n) PROVE FALSE
    BY <1>7, NodeStepFields DEF Fetched
  <1>8. ASSUME NEW n \in Nodes, UploadFails(l, n) PROVE Fetched(x) /\ Same(x, y)
    BY <1>8, NodeStepFields DEF Fetched
  <1>9. ASSUME NEW n \in Nodes, UploadOk(l, n)
        PROVE  Fetched(x) /\ y.source = x.source /\ y.url = x.url
    BY <1>9, NodeStepFields DEF Fetched
  <1>10. CASE Fetched(x) /\ y.source = x.source /\ y.url = x.url
    BY <1>1, <1>10 DEF Own, ItsOwn
  <1>11. CASE Mkdir(l) \/ Answered(l) \/ Refused(l) \/ DownloadFails(l) \/ Open(l) \/ Fill(l)
                \/ Unlink(l) \/ Prune(l)
    <2>1. Fetched(x) /\ Same(x, y)
      BY <1>11, StepFields DEF Fetched
    <2>2. QED BY <1>3, <2>1
  <1>12. QED BY <1>3, <1>4, <1>5, <1>6, <1>7, <1>8, <1>9, <1>10, <1>11 DEF Step

LEMMA SelfSent ==
    ASSUME TypeOK, LegsAreGood, Apart, Undisturbed, NEW l \in Legs, Step(l), sent'[l] # None
    PROVE  /\ leg'[l].next = "sent"
           /\ sent'[l] = IF Reads THEN Written(l)' ELSE Fake
  <1> DEFINE x == leg[l]
             y == leg'[l]
  <1>1. /\ Moved(l, y) /\ x # Absent /\ l \in Present /\ setup' = setup
        /\ Course(setup, x) /\ x \in Leg /\ Own(l)
        /\ \A m \in Present : Own(m)
    BY StepFields, GoodFacts, MovedLegs DEF Moved, Undisturbed
  <1>2. sent[l] # None => x.next = "sent" /\ x.pc \in {"unlink", "prune", "over"}
    BY <1>1 DEF Own, Course, Ends, Leg, Place
  <1>3. ASSUME y.source = x.source, y.url = x.url
        PROVE  Written(l)' = Written(l)
    BY <1>1, <1>3, SameWritten
  <1>4. CASE Unlink(l) \/ Prune(l)
    <2>1. Same(x, y) /\ sent'[l] = sent[l]
      BY <1>4, StepFields DEF Unlink, Prune
    <2>2. x.next = "sent" => y.next = "sent"
      <3>1. CASE Unlink(l)
        BY <3>1, StepFields
      <3>2. CASE Prune(l)
        BY <3>2, StepFields
      <3>3. QED BY <1>4, <3>1, <3>2
    <2>3. QED BY <1>1, <1>2, <1>3, <2>1, <2>2 DEF Own, Same
  <1>5. ASSUME NEW n \in Nodes, UploadOk(l, n)
        PROVE  /\ y.next = "sent"
               /\ sent'[l] = IF Reads THEN Written(l)' ELSE Fake
    <2>1. /\ x.pc = "upload" /\ x.next = "ok" /\ y.next = "sent"
          /\ y.source = x.source /\ y.url = x.url
      BY <1>5, NodeStepFields
    <2>2. Written(l)' = Written(l)
      BY <1>3, <2>1
    <2> DEFINE p == Path(x.source)
    <2>3. /\ Reads => disk[n][p] \in Contents
          /\ sent'[l] = IF Reads THEN disk[n][p] ELSE Fake
      BY <1>5 DEF UploadOk, TypeOK
    <2>4. CASE Reads
      <3>1. p \in Links /\ Fetched(x)
        BY <1>1, <2>1, PlaceFacts DEF Fetched
      <3>2. PICK m \in Present : leg[m].node = n /\ leg[m].source.file = p.file
        BY <2>3, <2>4, <3>1 DEF Undisturbed
      <3>3. leg[m].source.file = x.source.file
        BY <1>1, <3>1, <3>2 DEF Own, Path
      <3>4. x.node = n
        BY <1>1, <3>2, <3>3 DEF Apart
      <3>5. disk[n][p] = Written(l)
        BY <1>1, <2>1, <3>4 DEF Own
      <3>6. QED BY <2>1, <2>2, <2>3, <2>4, <3>5
    <2>5. QED BY <2>1, <2>3, <2>4
  <1>6. CASE \/ SeekLink(l) \/ Mkdir(l) \/ Answered(l) \/ Refused(l) \/ DownloadFails(l)
             \/ Open(l) \/ Fill(l)
    <2>1. sent' = sent /\ x.pc \notin {"unlink", "prune", "over"}
      BY <1>6, StepFields DEF SeekLink, Mkdir, Answered, Refused, DownloadFails, Open, Fill
    <2>2. QED BY <1>2, <2>1
  <1>7. ASSUME NEW n \in Nodes, Take(l, n) \/ SkipUpload(l, n) \/ UploadFails(l, n)
        PROVE  FALSE
    <2>1. sent' = sent /\ x.pc \notin {"unlink", "prune", "over"}
      BY <1>7, NodeStepFields DEF Take, SkipUpload, UploadFails
    <2>2. QED BY <1>2, <2>1
  <1>8. QED BY <1>4, <1>5, <1>6, <1>7 DEF Step

LEMMA SelfWritten ==
    ASSUME TypeOK, LegsAreGood, Apart, NEW l \in Legs, Step(l), Own(l)
    PROVE  /\ leg'[l].pc = "fill" => l \in writing'
           /\ leg'[l].pc = "upload" /\ leg'[l].next = "ok" =>
                disk'[leg'[l].node][Path(leg'[l].source)] = Written(l)'
  <1> DEFINE x == leg[l]
             y == leg'[l]
  <1>1. Moved(l, y) /\ x # Absent /\ setup' = setup /\ Course(setup, x) /\ x \in Leg /\ y \in Leg
    BY StepFields, GoodFacts DEF Moved
  <1>2. CASE Fill(l)
    <2>1. x.pc = "fill" /\ y.pc = "upload" /\ Same(x, y)
      BY <1>2, StepFields
    <2>2. x.next = "ok" /\ x.at = x.node
      BY <1>1, <2>1 DEF Course, Ends
    <2>3. l \in writing
      BY <2>1 DEF Own
    <2>4. Keep(l, Written(l)) /\ Written(l) \in Contents
      BY <1>1, <1>2, <2>3, WrittenIsContents DEF Fill
    <2>5. disk'[x.at][Path(x.source)] = Written(l)
      BY <1>1, <2>1, <2>4, KeepFacts
    <2>6. Written(l)' = Written(l)
      BY <1>1, <2>1, SameWritten DEF Same
    <2>7. QED BY <2>1, <2>2, <2>5, <2>6 DEF Same
  <1>3. CASE Open(l)
    <2>1. y.pc \in {"unlink", "fill"}
      BY <1>3, StepFields
    <2>2. CASE Held(l) = None
      <3>1. leg' = [leg EXCEPT ![l] = Cleanup(l, "failed")]
        BY <1>3, <2>2 DEF Open, Move
      <3>2. y = [x EXCEPT !.pc = "unlink", !.next = "failed"]
        BY <3>1 DEF TypeOK, Cleanup
      <3>3. y.pc = "unlink"
        BY <1>1, <3>2 DEF Leg
      <3>4. QED BY <3>3
    <2>3. CASE Held(l) # None
      <3>1. writing' = writing \cup {l}
        BY <1>3, <2>3 DEF Open
      <3>2. QED BY <2>1, <3>1
    <2>4. QED BY <2>2, <2>3
  <1>4. CASE SeekLink(l) \/ Mkdir(l) \/ Answered(l) \/ Refused(l) \/ DownloadFails(l)
               \/ Unlink(l) \/ Prune(l)
    BY <1>4, StepFields
  <1>5. ASSUME NEW n \in Nodes, Take(l, n) \/ SkipUpload(l, n) \/ UploadFails(l, n) \/ UploadOk(l, n)
        PROVE  y.pc # "fill" /\ ~(y.pc = "upload" /\ y.next = "ok")
    BY <1>5, NodeStepFields
  <1>6. QED BY <1>2, <1>3, <1>4, <1>5 DEF Step

LEMMA FilesStayKnown ==
    ASSUME TypeOK, LegsAreGood, Apart, Undisturbed, NEW l \in Legs, Step(l),
           NEW n \in Nodes, NEW link \in Links, disk'[n][link] \in Contents
    PROVE  \E m \in Present : /\ leg'[m].pc # "queued" /\ leg'[m].node = n
                              /\ leg'[m].source.file = link.file
  <1> DEFINE x == leg[l]
             y == leg'[l]
  <1>1. /\ Moved(l, y) /\ x # Absent /\ l \in Present /\ y.source.file = x.source.file
        /\ x \in Leg /\ Course(setup, x) /\ Own(l)
        /\ \A m \in Legs : m # l => leg'[m] = leg[m]
    BY StepFields, GoodFacts, MovedLegs DEF Moved, Undisturbed
  <1>2. x.pc # "queued" => y.pc # "queued" /\ y.node = x.node
    <2>1. CASE \/ SeekLink(l) \/ Mkdir(l) \/ Answered(l) \/ Refused(l) \/ DownloadFails(l)
               \/ Open(l) \/ Fill(l) \/ Unlink(l) \/ Prune(l)
      BY <2>1, StepFields DEF Same
    <2>2. ASSUME NEW o \in Nodes,
                 Take(l, o) \/ SkipUpload(l, o) \/ UploadFails(l, o) \/ UploadOk(l, o)
          PROVE  x.pc # "queued" => y.pc # "queued" /\ y.node = x.node
      BY <2>2, NodeStepFields DEF Same
    <2>3. QED BY <2>1, <2>2 DEF Step
  <1>3. CASE disk[n][link] \in Contents
    <2>1. PICK m \in Present : /\ leg[m].pc # "queued" /\ leg[m].node = n
                               /\ leg[m].source.file = link.file
      BY <1>3 DEF Undisturbed
    <2>2. m \in Legs
      BY DEF Present
    <2>3. QED BY <1>1, <1>2, <2>1, <2>2
  <1>4. CASE disk[n][link] \notin Contents
    <2>1. disk'[n][link] # disk[n][link]
      BY <1>4
    <2>2. PICK what \in Contents \cup {None, Dir} :
            /\ Keep(l, what)
            /\ x.pc \in {"mkdir", "open", "fill", "unlink", "prune"}
      BY <2>1, DiskSteps
    <2>3. OfLeg(x, n, link)
      BY <1>1, <2>1, <2>2, KeepFacts
    <2>4. what \in Contents
      BY <1>1, <2>2, <2>3, KeepFacts DEF OfLeg
    <2>5. CASE Open(l) \/ Fill(l)
      <3>1. x.pc \in {"open", "fill"}
        BY <2>5, StepFields
      <3>2. x.next = "ok" /\ x.at = x.node /\ Fetched(x)
        BY <1>1, <3>1 DEF Course, Ends, Fetched
      <3>3. n = x.node /\ link.file = x.source.file
        BY <1>1, <2>3, <3>2 DEF OfLeg, Own, Path
      <3>4. QED BY <1>1, <1>2, <3>1, <3>3
    <2>6. CASE Mkdir(l) \/ Unlink(l) \/ Prune(l)
      <3>1. disk' = disk \/ Keep(l, Dir) \/ Keep(l, None)
        BY <2>6 DEF Mkdir, Unlink, Prune
      <3>2. x.pc # "queued"
        BY <2>2
      <3>3. disk'[n][link] \in {Dir, None}
        BY <1>1, <2>1, <2>3, <3>1, <3>2, KeepFacts DEF OfLeg
      <3>4. QED BY <3>3, ContentsFacts
    <2>7. CASE ~(Open(l) \/ Fill(l) \/ Mkdir(l) \/ Unlink(l) \/ Prune(l))
      <3>1. disk' = disk
        BY <2>7 DEF Step, SeekLink, Answered, Refused, DownloadFails, Take, SkipUpload,
                    UploadOk, UploadFails
      <3>2. QED BY <2>1, <3>1
    <2>8. QED BY <2>5, <2>6, <2>7
  <1>5. QED BY <1>3, <1>4

LEMMA StepKeepsUndisturbed ==
    ASSUME TypeOK, LegsAreGood, Undisturbed, NEW l \in Legs, Step(l)
    PROVE  Undisturbed'
  <1>1. /\ Present' = Present /\ l \in Present /\ offered' = offered /\ setup' = setup
        /\ \A m \in Present : leg'[m].source.file = leg[m].source.file
    BY StepFields, MovedLegs, DiskSteps
  <1>2. SUFFICES ASSUME Apart'
                 PROVE  /\ \A m \in Present : Own(m)'
                        /\ \A n \in Nodes, link \in Links : disk'[n][link] \in Contents =>
                             \E m \in Present : /\ leg'[m].pc # "queued" /\ leg'[m].node = n
                                                /\ leg'[m].source.file = link.file
    BY <1>1 DEF Undisturbed
  <1>3. Apart
    BY <1>1, <1>2 DEF Apart
  <1>4. \A m \in Present : Own(m)
    BY <1>3 DEF Undisturbed
  <1>5. Own(l)'
    <2>1. Reads' = Reads
      BY <1>1 DEF Reads
    <2>2. /\ Fetched(leg'[l]) =>
               leg'[l].source.link.file = leg'[l].source.file /\ ItsOwn(leg'[l])
          /\ leg'[l].pc = "fill" => l \in writing'
          /\ leg'[l].pc = "upload" /\ leg'[l].next = "ok" =>
               disk'[leg'[l].node][Path(leg'[l].source)] = Written(l)'
          /\ sent'[l] # None => /\ leg'[l].next = "sent"
                                /\ sent'[l] = IF Reads THEN Written(l)' ELSE Fake
      BY <1>1, <1>3, <1>4, SelfFetched, SelfWritten, SelfSent
    <2>3. QED BY <2>1, <2>2, Zenon DEF Own, Path
  <1>6. \A m \in Present : Own(m)'
    BY <1>3, <1>4, <1>5, OthersOwn
  <1>7. QED BY <1>3, <1>6, FilesStayKnown

LEMMA ParseKeepsUndisturbed ==
    ASSUME TypeOK, Packed, LegsAreGood, Undisturbed, Parse
    PROVE  Undisturbed'
  <1>1. PICK k, m \in 0 .. MaxLegs :
             /\ k <= m /\ Present = 1 .. k /\ setup' = setup
             /\ \A l \in Legs : l <= k \/ l > m => leg'[l] = leg[l]
             /\ \A l \in Legs : k < l /\ l <= m =>
                  Good(setup, leg'[l]) /\ leg'[l].pc = "queued"
    BY ParseAdds
  <1>2. UNCHANGED <<setup, offered, disk, writing, sent>>
    BY DEF Parse
  <1>3. \A l \in Present : l \in Present' /\ leg'[l] = leg[l]
    <2>1. TAKE l \in Present
    <2>2. l \in Legs /\ l <= k
      BY <1>1 DEF Present
    <2>3. QED BY <1>1, <2>2 DEF Present
  <1>4. SUFFICES ASSUME Apart'
                 PROVE  /\ \A l \in Present' : Own(l)'
                        /\ \A n \in Nodes, link \in Links : disk'[n][link] \in Contents =>
                             \E l \in Present' : /\ leg'[l].pc # "queued" /\ leg'[l].node = n
                                                 /\ leg'[l].source.file = link.file
    BY DEF Undisturbed
  <1>5. Apart
    BY <1>2, <1>3, <1>4 DEF Apart
  <1>6. ASSUME NEW l \in Present'
        PROVE  Own(l)'
    <2>1. CASE l \in Present
      <3>1. leg'[l] = leg[l] /\ Own(l)
        BY <1>3, <1>5, <2>1 DEF Undisturbed
      <3>2. Written(l)' = Written(l) /\ Reads' = Reads
        BY <1>2, <3>1, SameWritten
      <3>3. QED BY <1>2, <3>1, <3>2, Zenon DEF Own, Path
    <2>2. CASE l \notin Present
      <3>1. l \in Legs /\ leg'[l] # Absent /\ leg[l] = Absent /\ sent[l] = None
        BY <2>2 DEF Present, LegsAreGood
      <3>2. k < l /\ l <= m
        BY <1>1, <2>2, <3>1 DEF Legs
      <3>3. leg'[l].pc = "queued" /\ Course(setup, leg'[l])
        BY <1>1, <3>1, <3>2 DEF Good
      <3>4. leg'[l].next = "ok" /\ ~Fetched(leg'[l])
        BY <3>3 DEF Course, Ends, Fetched
      <3>5. QED BY <1>2, <3>1, <3>3, <3>4 DEF Own
    <2>3. QED BY <2>1, <2>2
  <1>7. \A n \in Nodes, link \in Links : disk'[n][link] \in Contents =>
          \E l \in Present' : /\ leg'[l].pc # "queued" /\ leg'[l].node = n
                              /\ leg'[l].source.file = link.file
    BY <1>2, <1>3, <1>5 DEF Undisturbed
  <1>8. QED BY <1>6, <1>7

\* A file is taken off the site, or nothing happens: the legs stay as they are, and
\* those that are apart now were so before.
LEMMA RestKeepsAll ==
    ASSUME IInv, UNCHANGED <<setup, leg, disk, writing, sent>>,
           offered' \in SUBSET Files, offered' \subseteq offered
    PROVE  IInv'
  <1>1. Present' = Present
    BY DEF Present
  <1>2. TypeOK'
    BY DEF IInv, TypeOK
  <1>3. Packed' /\ LegsAreGood' /\ Owned'
    BY <1>1, Zenon DEF IInv, Packed, LegsAreGood, Owned
  <1>4. Undisturbed'
    <2>1. SUFFICES ASSUME Apart'
                   PROVE  /\ \A l \in Present : Own(l)'
                          /\ \A n \in Nodes, link \in Links : disk'[n][link] \in Contents =>
                               \E l \in Present : /\ leg'[l].pc # "queued" /\ leg'[l].node = n
                                                  /\ leg'[l].source.file = link.file
      BY <1>1, Zenon DEF Undisturbed
    <2>2. Apart
      BY <1>1, <2>1 DEF Apart
    <2>3. ASSUME NEW l \in Present PROVE Own(l)'
      <3>1. Written(l)' = Written(l) /\ Reads' = Reads
        BY SameWritten
      <3>2. Own(l)
        BY <2>2 DEF IInv, Undisturbed
      <3>3. QED BY <3>1, <3>2, Zenon DEF Own, Path
    <2>4. QED BY <2>2, <2>3 DEF IInv, Undisturbed
  <1>5. QED BY <1>2, <1>3, <1>4 DEF IInv

LEMMA StepKeepsInvariant ==
    ASSUME IInv, [Next]_vars
    PROVE  IInv'
  <1>1. CASE Parse
    BY <1>1, ParseKeepsTypes, ParseKeepsOwned, ParseKeepsUndisturbed DEF IInv
  <1>2. ASSUME NEW f \in Files, Vanish(f)
        PROVE  IInv'
    BY <1>2, RestKeepsAll DEF Vanish, IInv, TypeOK
  <1>3. ASSUME NEW l \in Legs, Step(l)
        PROVE  IInv'
    BY <1>3, StepKeepsTypes, StepKeepsOwned, StepKeepsUndisturbed DEF IInv
  <1>4. CASE UNCHANGED vars
    BY <1>4, RestKeepsAll DEF vars, IInv, TypeOK
  <1>5. QED BY <1>1, <1>2, <1>3, <1>4 DEF Next

\* The invariant that the others follow from: every leg is on its course with the links
\* it may have, what is on a disk belongs to a leg that will remove it or leaves it on
\* purpose, and legs of different files do not touch each other's.
THEOREM JourneyInvariance == Spec => []IInv
  <1>1. Init => IInv
    BY InitIsGood DEF IInv
  <1>2. IInv /\ [Next]_vars => IInv'
    BY StepKeepsInvariant
  <1>3. QED BY <1>1, <1>2, PTL DEF Spec

\* The state keeps its types, for any nodes, set-ups and number of sources.
THEOREM TypesHold == Spec => []TypeOK
  <1>1. IInv => TypeOK
    BY DEF IInv
  <1>2. QED BY <1>1, JourneyInvariance, PTL

LEMMA WholeFilesFollows == IInv => WholeFiles
  <1> SUFFICES ASSUME IInv, Apart, NEW l \in Present, sent[l] # None, sent[l].kind # "fake"
               PROVE  /\ sent[l] = File(sent[l].kind, leg[l].url.file, TRUE)
                      /\ \/ sent[l].file = leg[l].source.file
                         \/ leg[l].source.site = "BUNKR" /\ leg[l].source.link.at = "page"
    BY DEF WholeFiles
  <1>1. /\ leg[l].next = "sent"
        /\ sent[l] = IF Reads THEN Written(l) ELSE Fake
        /\ Fetched(leg[l]) => ItsOwn(leg[l])
    BY DEF IInv, Undisturbed, Own
  <1>2. ItsOwn(leg[l])
    BY <1>1 DEF Fetched
  <1>3. sent[l] = Written(l) /\ Does(l) # "mock"
    BY <1>1 DEF Written, Fake, File
  <1> DEFINE kind == IF leg[l].url.at = "page" THEN "page" ELSE "media"
  <1>4. sent[l] = File(kind, leg[l].url.file, TRUE)
    BY <1>3 DEF Written
  <1> HIDE DEF kind
  <1>5. sent[l].kind = kind /\ sent[l].file = leg[l].url.file
    BY <1>4 DEF File
  <1>6. QED BY <1>2, <1>4, <1>5 DEF ItsOwn

\* What is uploaded for a source is the whole of the file that was requested for it, and
\* that is its own but for a link looked up on a page of BUNKR, whatever the workers of
\* all nodes do on the same disks in between: for any number of nodes and sources.
THEOREM FilesAreWhole == Spec => []WholeFiles
  BY WholeFilesFollows, JourneyInvariance, PTL

LEMMA FileAwaitsUploadFollows == IInv => FileAwaitsUpload
  <1> SUFFICES ASSUME IInv, setup.affinity, Apart, NEW l \in Present, leg[l].next = "ok",
                      NEW n \in Nodes, MayUpload(l, n)
               PROVE  disk[n][Path(leg[l].source)] = Written(l)
    BY DEF FileAwaitsUpload
  <1>1. leg[l].pc = "upload"
    BY DEF MayUpload, At
  <1>2. leg[l].node = n
    BY DEF MayUpload, UploadQueue, UploadQueues
  <1>3. QED BY <1>1, <1>2 DEF IInv, Undisturbed, Own

\* With upload affinity the worker that may take a packet has its file on its own disk,
\* for any nodes with any roles: a packet is never offered to a node without the file.
THEOREM FilesAwaitUpload == Spec => []FileAwaitsUpload
  BY FileAwaitsUploadFollows, JourneyInvariance, PTL

LEMMA NoLitterFollows == IInv => NoLitter
  <1> SUFFICES ASSUME IInv, setup.affinity, \A l \in Present : leg[l].pc = "over",
                      NEW n \in Nodes, NEW link \in Links, disk[n][link] # None
               PROVE  \E l \in Present : /\ leg[l].next = "kept"
                                         /\ leg[l].at = n /\ Path(leg[l].source) = link
    BY DEF NoLitter
  <1>1. PICK l \in Present : OfLeg(leg[l], n, link) /\ Owns(leg[l])
    BY DEF IInv, Owned
  <1>2. leg[l].pc = "over"
    OBVIOUS
  <1>3. leg[l].next = "kept"
    BY <1>1, <1>2 DEF Owns, Holds
  <1>4. QED BY <1>1, <1>3 DEF OfLeg

\* With upload affinity, whatever legs share a directory and whichever of them prunes
\* it: when all are over, only files whose upload has failed are left on the disks.
THEOREM DisksAreCleared == Spec => []NoLitter
  BY NoLitterFollows, JourneyInvariance, PTL

LEMMA LiveIsLiveFollows == IInv => LiveIsLive
  <1> SUFFICES ASSUME IInv, setup.mode = "live", Apart, NEW l \in Present, sent[l] # None,
                      leg[l].source.site \in DefaultSites
               PROVE  \/ sent[l].kind = "media"
                      \/ sent[l].kind = "page" /\ leg[l].source.site \in {"BUNKR", "CYBERDROP"}
                      \/ sent[l].kind = "fake" /\ leg[l].source.site = "GENERIC"
    BY DEF LiveIsLive
  <1> DEFINE site == leg[l].source.site
             at   == leg[l].url.at
  <1>1. l \in Legs /\ leg[l] # Absent /\ TypeOK /\ LegsAreGood
    BY DEF IInv, Present
  <1>2. /\ setup \in Setups /\ site \in Sites /\ Does(l) = DoesOf(setup, leg[l].source)
        /\ Origin(setup, leg[l])
    BY <1>1, GoodFacts
  <1>3. /\ leg[l].next = "sent" /\ sent[l] = IF Reads THEN Written(l) ELSE Fake
    BY DEF IInv, Undisturbed, Own
  <1>4. Reads
    BY UploaderIs, JourneyAssumption DEF Reads, Modes
  <1>5. /\ site \in DownloadSites => Does(l) # "mock"
        /\ site \notin DownloadSites \cup {"CUSTOM"} => Does(l) = "mock"
    BY <1>2, DoesFacts
  <1>6. site \in LiveSites \cup {"GENERIC", "CUSTOM"} /\ site # "CUSTOM"
    BY <1>2 DEF Origin, ItsOwn, DefaultSites
  <1>7. LiveSites \subseteq DownloadSites /\ "GENERIC" \notin DownloadSites
    BY DEF LiveSites, DownloadSites, MockSites
  <1>8. at = "page" => site \notin {"GOFILE", "PIXELDRAIN"} \cup RefreshSites
    <2>1. Fetched(leg[l])
      BY <1>3 DEF Fetched
    <2>2. QED BY <1>2, <2>1 DEF Origin, ItsOwn
  <1>9. CASE Does(l) = "mock"
    <2>1. site = "GENERIC"
      BY <1>5, <1>6, <1>7, <1>9
    <2>2. sent[l].kind = "fake"
      BY <1>3, <1>4, <1>9 DEF Written, Fake, File
    <2>3. QED BY <2>1, <2>2
  <1>10. CASE Does(l) # "mock"
    <2>1. site \in LiveSites
      BY <1>5, <1>6, <1>7, <1>10
    <2>2. at = "page" => site \in {"BUNKR", "CYBERDROP"}
      BY <1>8, <2>1 DEF LiveSites, RefreshSites
    <2>3. sent[l].kind = IF at = "page" THEN "page" ELSE "media"
      BY <1>3, <1>4, <1>10 DEF Written, File
    <2>4. QED BY <2>2, <2>3
  <1>11. QED BY <1>9, <1>10

\* In live mode, with or without extensions, what is uploaded for a listed site is what
\* its own downloader fetched: media, or for two sites a web page.  Only GENERIC, which
\* has no downloader, has the invented file of the mock.
THEOREM LiveStaysLive == Spec => []LiveIsLive
  BY LiveIsLiveFollows, JourneyInvariance, PTL

LEMMA RetryAsksAnewFollows == IInv => RetryAsksAnew
  <1> SUFFICES ASSUME IInv, NEW l \in Present, leg[l].pc = "get", leg[l].url = leg[l].refused
               PROVE  \/ leg[l].source.site \in {"FILESTER", "TURBO"}
                      \/ leg[l].source.site = "MEDIAFIRE" /\ setup.url.form = "file"
    BY DEF RetryAsksAnew
  <1>1. l \in Legs /\ leg[l] # Absent /\ TypeOK /\ LegsAreGood
    BY DEF IInv, Present
  <1>2. leg[l] \in Leg /\ Course(setup, leg[l]) /\ Asking(setup, leg[l])
    BY <1>1, GoodFacts
  <1>3. leg[l].url \in Links /\ leg[l].times \in {1, 2}
    BY <1>2 DEF Leg
  <1>4. leg[l].refused # NoLink
    BY <1>3, LinkFacts DEF NoLink
  <1>5. leg[l].next = "ok"
    BY <1>2 DEF Course, Ends
  <1>6. leg[l].times = 2 /\ leg[l].url.n <= 1
    BY <1>2, <1>3, <1>4, <1>5 DEF Asking
  <1>7. leg[l].url.n # 2
    BY <1>6
  <1>8. QED BY <1>2, <1>6, <1>7 DEF Asking

\* After the one forced refresh a link that was refused is not requested again, except
\* where the resolver hands back a direct link as it is: for any set-up and any number
\* of sources of one URL.
THEOREM RetriesAskAnew == Spec => []RetryAsksAnew
  BY RetryAsksAnewFollows, JourneyInvariance, PTL
=============================================================================
