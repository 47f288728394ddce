--------------------------- MODULE MCSourceJourney ---------------------------
EXTENDS SourceJourney, TLC
CONSTANTS n1, n2

\* Affinity and roles are the same thing to all sites: one site has every combination
\* (both nodes do both; one of them half of it; each one half), the others a single
\* node, where legs meet on its disk.
MCRoles(site) ==
    IF site = "PIXELDRAIN"
    THEN {[n \in Nodes |-> Roles],
          (n1 :> Roles) @@ (n2 :> {"download"}),
          (n1 :> {"download"}) @@ (n2 :> {"upload"})}
    ELSE {(n1 :> Roles) @@ (n2 :> {})}
MCAffinity(site) == IF site = "PIXELDRAIN" THEN BOOLEAN ELSE {TRUE}
\* Some sites have albums, which hold what a page does; some show a file at a URL of
\* its own.
MCForms(site) ==
    CASE site \in {"BUNKR", "CYBERDROP"}     -> {"page", "album"}
      [] site \in {"PIXELDRAIN", "TRANSFERIT"} -> {"album"}
      [] site \in {"FILESTER", "TURBO", "MEDIAFIRE", "CUSTOM"} -> {"page", "file"}
      [] OTHER -> {"page"}
MCExtensions(site) == IF site = "CUSTOM" THEN {{}, {"parse"}, {"parse", "download"}} ELSE {{}}
\* In mock mode, and for the sites that have no live parser, the way is the same.
MCModes(site) == IF site \in {"YTDL", "CUSTOM"} THEN Modes ELSE {"live"}
MCSites == {"BUNKR", "CYBERDROP", "FILESTER", "MEGA", "MEDIAFIRE", "PIXELDRAIN",
            "TRANSFERIT", "TURBO", "YTDL", "CUSTOM"}
MCSetups ==
    UNION {[mode : MCModes(site), affinity : MCAffinity(site), roles : MCRoles(site),
            sites : {DefaultSites}, extensions : MCExtensions(site),
            url : [site : {site}, form : MCForms(site)]] : site \in MCSites}
=============================================================================
