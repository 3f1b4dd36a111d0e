------------------------------ MODULE WebUpdate ------------------------------
(***************************************************************************)
(* How a release of the web client reaches the pages that are open.        *)
(*                                                                         *)
(* build-web.js writes into the directory that nginx serves, one file      *)
(* after the other, and may be stopped anywhere, also within a file.  A    *)
(* page (index.html) asks manifest.json for the names of the game's files; *)
(* version-detector.js polls the manifest, tells the player of a new       *)
(* version and registers sw.js, whose worker answers the page's requests   *)
(* from the browser's caches.                                              *)
(*                                                                         *)
(* A file's content is the number of the export it comes from, 0 where     *)
(* there is no file, Cut where it is being written or its writing was      *)
(* stopped; a version is the number of the commit that was checked out,    *)
(* whatever the export is of.  Left out: `--out`, which builds in another  *)
(* directory, and the upload of the directory to a server; a template cut  *)
(* short; index.js, icons and worklets, and with them the caches that the  *)
(* worker names after versions, which never hold a file of the game; the   *)
(* HTTP cache.  The repository is left alone while a build runs.           *)
(***************************************************************************)
EXTENDS Integers

CONSTANTS
  Tab,                  \* the browser's tabs
  Exports,              \* which files an export may leave behind
  NewWorker,            \* whether a commit may change sw.js, or not
  Releases, MaxBuilds,  \* bounds of the model: exports, commits and scripts; builds
  PageLoadsDetector     \* whether index.html has a script tag for the detector

ASSUME WebAssumption ==
  /\ Releases \in Nat \ {0} /\ MaxBuilds \in Nat
  /\ Exports \subseteq SUBSET {"pck", "wasm"} /\ NewWorker \subseteq BOOLEAN
  /\ PageLoadsDetector \in BOOLEAN

Version == 1..Releases
Number  == 0..Releases
Cut     == -1
Content == Number \cup {Cut}

\* index.pck and index.wasm are <<0, ...>>, game.v.pck is <<v, "pck">>.
Asset == {"pck", "wasm"}
Url   == Number \X Asset
Versioned == Version \X Asset

VARIABLES
  \* the repository
  head,      \* the commit that is checked out
  release,   \* the last export
  source,    \* which sw.js deploy/web-src has
  build,     \* what build-web.js does next, "none" while it does not run
  builds,    \* how often it was run (a bound of the model)
  \* the directory nginx serves
  site,      \* the content of its files
  page,      \* index.html: "plain" as exported, or the "template"
  script,    \* sw.js
  manifest,  \* the version in manifest.json, and in the last one while it is cut short
  files,     \* the kinds of file it names
  readable,  \* whether it is whole
  spoilt,    \* history: versions built again when they were out, or brought out with a file missing
  \* the browser
  worker,    \* the worker that is about to take over: stage and script
  active,    \* the script of the active worker, 0 if there is none
  kept,      \* the cache pb-cache-versioned, the only one that holds files of the game
  tabs       \* its tabs

manifestVars == <<manifest, files, readable, spoilt>>
siteVars    == <<site, page, script, manifestVars>>
buildVars   == <<head, release, source, build, builds>>
workerVars  == <<worker, active>>
browserVars == <<workerVars, kept, tabs>>
vars        == <<buildVars, siteVars, browserVars>>

(***************************************************************************)
(* The build.                                                              *)
(***************************************************************************)

\* Godot writes the files it knows under its own names; a stopped export leaves some out.
Export(exported) ==
  /\ build = "none"
  /\ release < Releases
  /\ release' = release + 1
  /\ site' = [u \in Url |-> IF u[1] # 0 THEN site[u]
                           ELSE IF u[2] \in exported THEN release + 1 ELSE 0]
  /\ page' = "plain"
  /\ UNCHANGED <<head, source, build, builds, script, manifestVars, browserVars>>

\* Of the game or of anything else, and maybe with another sw.js.
Commit(newWorker) ==
  /\ build = "none"
  /\ head < Releases
  /\ head' = head + 1
  /\ source' = IF newWorker THEN source + 1 ELSE source
  /\ UNCHANGED <<release, build, builds, siteVars, browserVars>>

\* getVersion takes the commit, whether or not it was built before; then the templates are copied.
StartBuild ==
  /\ build = "none" /\ builds < MaxBuilds
  /\ build' = "pck" /\ builds' = builds + 1
  /\ page' = "template"
  /\ script' = source
  /\ spoilt' = IF head = manifest THEN spoilt \cup {head} ELSE spoilt
  /\ UNCHANGED <<head, release, source, site, manifest, files, readable, browserVars>>

\* Slip: the manifest is written as soon as the names are known.
CopyFile_Variant(ext, next) ==
  /\ build = ext
  /\ site' = [site EXCEPT ![<<head, ext>>] = site[<<0, ext>>]]
  /\ manifest' = head
  /\ build' = next
  /\ UNCHANGED <<head, release, source, builds, page, script, files, readable, spoilt, browserVars>>

\* copyFileSync cuts the target short before it fills it; a file that the export lacks is passed
\* over.
CopyFile(ext, next) ==
  /\ build = ext
  /\ LET exported == site[<<0, ext>>]
         copied   == site[<<head, ext>>]
     IN  \/ exported = 0 /\ build' = next /\ UNCHANGED site
         \/ /\ exported # 0 /\ copied # Cut
            /\ site' = [site EXCEPT ![<<head, ext>>] = Cut]
            /\ UNCHANGED build
         \/ /\ exported # 0 /\ copied = Cut
            /\ site' = [site EXCEPT ![<<head, ext>>] = exported]
            /\ build' = next
  /\ UNCHANGED <<head, release, source, builds, page, script, manifestVars, browserVars>>

Exported == {a \in Asset : site[<<0, a>>] # 0}

\* Slip: without git there is no version, and no timestamp takes its place.
WriteManifest_Variant ==
  /\ build = "manifest"
  /\ manifest' = 0
  /\ build' = "none"
  /\ UNCHANGED <<head, release, source, builds, site, page, script, files, readable, spoilt, browserVars>>

\* writeFileSync does the same to the manifest, which names what was copied.
WriteManifest ==
  /\ build = "manifest"
  /\ \/ readable /\ readable' = FALSE /\ UNCHANGED <<build, manifest, files, spoilt>>
     \/ /\ ~readable /\ readable' = TRUE
        /\ manifest' = head /\ files' = Exported
        /\ spoilt' = IF Exported = Asset THEN spoilt ELSE spoilt \cup {head}
        /\ build' = "none"
  /\ UNCHANGED <<head, release, source, builds, site, page, script, browserVars>>

\* The build is stopped where it is.
Abort ==
  /\ build # "none"
  /\ build' = "none"
  /\ UNCHANGED <<head, release, source, builds, siteVars, browserVars>>

Build ==
  \/ CopyFile("pck", "wasm")
  \/ CopyFile("wasm", "manifest")
  \/ WriteManifest

(***************************************************************************)
(* The worker and its cache.  The browser runs the jobs of a registration  *)
(* one by one.                                                             *)
(***************************************************************************)

\* Slip: the version is in the query of the URL, which the match ignores.
Matches_Variant(url, content) ==
  content # 0 /\ \E v \in Version : content = kept[<<v, url[2]>>]

\* caches.match.
Matches(url, content) == content # 0 /\ content = kept[url]

NoWorker == [stage |-> "none", script |-> 0]

\* install skips the waiting; the browser still lets the worker before end its events.
Install ==
  /\ worker.stage = "found"
  /\ worker' = [worker EXCEPT !.stage = "waiting"]
  /\ UNCHANGED <<buildVars, siteVars, active, kept, tabs>>

(***************************************************************************)
(* The page.                                                               *)
(***************************************************************************)

\* A page that loads again, or for the first time: see TypeOK for its fields.
Loading ==
  [stage |-> "page", page |-> "plain", controlled |-> active # 0, version |-> 0,
   got |-> [a \in Asset |-> 0],
   detector |-> "none", local |-> 0, isUpdating |-> FALSE]

Closed == [Loading EXCEPT !.stage = "closed", !.controlled = FALSE]

\* controllerchange: a page that listens loads again, another goes on.
ControllerChanged(tab) ==
  IF tab.detector # "none" THEN [Loading EXCEPT !.controlled = TRUE]
  ELSE [tab EXCEPT !.controlled = TRUE]

\* The worker takes over the pages that have one.
Activate ==
  /\ worker.stage = "waiting"
  /\ worker' = [worker EXCEPT !.stage = "activating"]
  /\ active' = worker.script
  /\ tabs' = [t \in Tab |-> IF tabs[t].controlled THEN ControllerChanged(tabs[t]) ELSE tabs[t]]
  /\ UNCHANGED <<buildVars, siteVars, kept>>

\* It deletes every cache but the one named after the version it asks for, and claims the pages that
\* have none.
Claim ==
  /\ worker.stage = "activating"
  /\ worker' = NoWorker
  /\ kept' = [u \in Versioned |-> 0]
  /\ tabs' = [t \in Tab |-> IF tabs[t].controlled \/ tabs[t].stage = "closed" THEN tabs[t]
                            ELSE ControllerChanged(tabs[t])]
  /\ UNCHANGED <<buildVars, siteVars, active>>

Open(t) ==
  /\ tabs[t].stage = "closed"
  /\ tabs' = [tabs EXCEPT ![t] = Loading]
  /\ UNCHANGED <<buildVars, siteVars, workerVars, kept>>

Close(t) ==
  /\ tabs[t].stage # "closed"
  /\ tabs' = [tabs EXCEPT ![t] = Closed]
  /\ UNCHANGED <<buildVars, siteVars, workerVars, kept>>

\* The events of a page wait until its worker is active.
Served(t) == tabs[t].controlled => worker.stage # "activating"

\* The exported page loads index.pck and index.wasm: that is not followed further.
GetPage(t) ==
  /\ tabs[t].stage = "page" /\ Served(t)
  /\ tabs' = [tabs EXCEPT ![t].stage = IF page = "template" THEN "manifest" ELSE "running",
                          ![t].page = page]
  /\ UNCHANGED <<buildVars, siteVars, workerVars, kept>>

\* A file comes from the site or, in a page that has a worker, from its cache, which keeps what the
\* worker gets from the site.
Get(t, url, content) ==
  /\ Served(t)
  /\ \/ ~tabs[t].controlled /\ content = site[url] /\ UNCHANGED kept
     \/ tabs[t].controlled /\ Matches(url, content) /\ UNCHANGED kept
     \/ /\ tabs[t].controlled /\ kept[url] = 0 /\ content = site[url]
        /\ kept' = [kept EXCEPT ![url] = content]

\* The template asks for the manifest.  If it does not get a whole one it goes on as above, and with
\* the files of the export also if the manifest names no wasm (applyManifest).
GetManifest(t) ==
  /\ tabs[t].stage = "manifest"
  /\ \/ /\ readable
        /\ tabs' = [tabs EXCEPT ![t].stage = IF "wasm" \in files THEN "assets" ELSE "running",
                                ![t].version = manifest]
     \/ tabs' = [tabs EXCEPT ![t].stage = "running"]
  /\ UNCHANGED <<buildVars, siteVars, workerVars, kept>>

\* The engine loads both files of the version at the same time and starts when it has them; nginx
\* gives what there is of them, and what the engine makes of a file cut short is left out.
GetAsset(t, a) ==
  /\ tabs[t].stage = "assets"
  /\ tabs[t].got[a] = 0
  /\ \E content \in Content \ {0} :
       /\ Get(t, <<tabs[t].version, a>>, content)
       /\ tabs' = [tabs EXCEPT
                     ![t].got[a] = content,
                     ![t].stage = IF \A b \in Asset \ {a} : tabs[t].got[b] # 0 THEN "running"
                                  ELSE "assets"]
  /\ UNCHANGED <<buildVars, siteVars, workerVars>>

(***************************************************************************)
(* The detector.                                                           *)
(***************************************************************************)

\* The constructor takes the version that the page has by then.
InitDetector(t) ==
  /\ PageLoadsDetector /\ tabs[t].page = "template"
  /\ tabs[t].stage # "closed" /\ tabs[t].detector = "none"
  /\ tabs' = [tabs EXCEPT ![t].detector = "polling", ![t].local = tabs[t].version]
  /\ UNCHANGED <<buildVars, siteVars, workerVars, kept>>

\* Slip: the script is never the one that is registered.
RegisterSW_Variant(t) ==
  /\ tabs[t].detector = "polling"
  /\ worker.stage = "none"
  /\ tabs' = [tabs EXCEPT ![t].detector = "registered"]
  /\ worker' = [NoWorker EXCEPT !.stage = "found", !.script = script]
  /\ UNCHANGED <<buildVars, siteVars, active, kept>>

\* register: the browser installs a script that differs from the last one; a
\* worker that waits is a new version.
RegisterSW(t) ==
  /\ tabs[t].detector = "polling"
  /\ \/ /\ worker.stage = "none"
        /\ worker' = IF script = active THEN worker
                     ELSE [NoWorker EXCEPT !.stage = "found", !.script = script]
        /\ tabs' = [tabs EXCEPT ![t].detector = "registered"]
     \/ /\ worker.stage = "waiting" /\ worker.script = script
        /\ tabs' = [tabs EXCEPT ![t].detector = "registered", ![t].isUpdating = TRUE]
        /\ UNCHANGED worker
  /\ UNCHANGED <<buildVars, siteVars, active, kept>>

\* Slip: once the worker is registered, noticing new versions is left to it.
Check_Variant(t) ==
  /\ tabs[t].detector = "polling"
  /\ ~tabs[t].isUpdating
  /\ readable /\ manifest # tabs[t].local
  /\ tabs' = [tabs EXCEPT ![t].isUpdating = TRUE]
  /\ UNCHANGED <<buildVars, siteVars, workerVars, kept>>

\* _check: a version that is not the page's own is announced.
Check(t) ==
  /\ tabs[t].detector # "none"
  /\ ~tabs[t].isUpdating
  /\ readable /\ manifest # tabs[t].local
  /\ tabs' = [tabs EXCEPT ![t].isUpdating = TRUE]
  /\ UNCHANGED <<buildVars, siteVars, workerVars, kept>>

\* _reload: a worker that waits is told to take over, else the page loads again.
UpdateNow(t) ==
  /\ tabs[t].isUpdating
  /\ ~(tabs[t].controlled /\ worker.stage = "waiting")
  /\ tabs' = [tabs EXCEPT ![t] = Loading]
  /\ UNCHANGED <<buildVars, siteVars, workerVars, kept>>

\* The update is put off to the end of a match, which nothing tells the page of.
UpdateLater(t) ==
  /\ tabs[t].isUpdating
  /\ tabs' = [tabs EXCEPT ![t].isUpdating = FALSE]
  /\ UNCHANGED <<buildVars, siteVars, workerVars, kept>>

\* The browser looks for another script by itself, too.
FindWorker ==
  /\ worker.stage = "none" /\ active # 0 /\ script # active
  /\ worker' = [NoWorker EXCEPT !.stage = "found", !.script = script]
  /\ UNCHANGED <<buildVars, siteVars, active, kept, tabs>>

Init ==
  /\ head = 1 /\ release = 1 /\ source = 1 /\ build = "none" /\ builds = 0
  /\ site = [u \in Url |-> IF u[1] \in {0, 1} THEN 1 ELSE 0]
  /\ page = "template" /\ script = 1
  /\ manifest = 1 /\ files = Asset /\ readable = TRUE /\ spoilt = {}
  /\ worker = NoWorker /\ active = 0 /\ kept = [u \in Versioned |-> 0]
  /\ tabs = [t \in Tab |-> Closed]

Next ==
  \/ \E exported \in Exports : Export(exported)
  \/ \E newWorker \in NewWorker : Commit(newWorker)
  \/ StartBuild
  \/ Build
  \/ Abort
  \/ FindWorker
  \/ Install \/ Activate \/ Claim
  \/ \E t \in Tab :
       \/ Open(t) \/ Close(t)
       \/ GetPage(t) \/ GetManifest(t)
       \/ \E a \in Asset : GetAsset(t, a)
       \/ InitDetector(t) \/ RegisterSW(t) \/ Check(t)
       \/ UpdateNow(t) \/ UpdateLater(t)

Spec == Init /\ [][Next]_vars

\* A page's scripts run, its timer fires again and again, and the manifest it asks for then comes.
Fairness == \A t \in Tab : WF_vars(InitDetector(t) \/ Check(t))

FairSpec == Spec /\ Fairness

(***************************************************************************)
(* Properties.                                                             *)
(***************************************************************************)

TabType ==
  [stage      : {"closed", "page", "manifest", "assets", "running"},
   page       : {"plain", "template"},
   controlled : BOOLEAN,                       \* whether a worker gets its requests
   version    : Number,                        \* __GAME_VERSION__, 0 if undefined
   got        : [Asset -> Content],            \* the files it has loaded
   detector   : {"none", "polling", "registered"},
   local      : Number,                        \* its localVersion, 0 if made up
   isUpdating : BOOLEAN]                       \* the player is asked to load again

\* The variables have their types.
TypeOK ==
  /\ head \in Version /\ release \in Version /\ source \in Version
  /\ build \in {"none", "pck", "wasm", "manifest"}
  /\ builds \in 0..MaxBuilds
  /\ site \in [Url -> Content] /\ page \in {"plain", "template"}
  /\ script \in Version /\ manifest \in Version
  /\ files \subseteq Asset /\ readable \in BOOLEAN /\ spoilt \subseteq Version
  /\ worker \in [stage : {"none", "found", "waiting", "activating"},
                 script : Number]
  /\ active \in Number
  /\ kept \in [Versioned -> Content]
  /\ tabs \in [Tab -> TabType]

\* Both files of the version are whole and of one export.
Whole(v) == site[<<v, "pck">>] = site[<<v, "wasm">>] /\ site[<<v, "pck">>] \in Version

\* The manifest only names files that are there; and unless its version was built twice or with a
\* file missing, it names both, whole and of one export, also while a build is under way and after
\* one was stopped within a file (main of build-web.js).
ManifestComplete ==
  /\ \A a \in files : site[<<manifest, a>>] # 0
  /\ manifest \notin spoilt => files = Asset /\ Whole(manifest)

\* A game that was started from the manifest has its program and its data from the same export, from
\* the cache or the site and at whatever moments they came, unless its version was built twice or with a
\* file missing.
GameIsOneRelease ==
  \A t \in Tab :
    tabs[t].stage = "running" /\ tabs[t].version \notin spoilt \cup {0}
      => tabs[t].got["pck"] = tabs[t].got["wasm"] /\ tabs[t].got["pck"] \in Version

Delivery == INSTANCE ReleaseDelivery WITH
  Page <- Tab, File <- Asset,
  published <- manifest,
  content <- [v \in Version |-> IF v <= manifest THEN site[<<v, "pck">>] ELSE 0],
  chosen <- [t \in Tab |-> tabs[t].version],
  playing <- [t \in Tab |->
                [a \in Asset |-> IF tabs[t].stage = "running" THEN tabs[t].got[a] ELSE 0]]

\* Build, caches, workers and pages together deliver releases: the site never goes back, a version
\* that is out changes only if it is built again, and else a game is wholly what was brought out as
\* the version its page was told of (build-web.js, sw.js).
DeliversReleases == Delivery!Spec

\* A whole file of the game in the cache is the one that the site has under its name, if that is
\* whole, so that the cache may answer first: sw.js:5 calls the files immutable, their URLs unique.
KeptIsServed ==
  \A u \in Versioned : kept[u] \in Version /\ site[u] \in Version => kept[u] = site[u]

\* A player in a game that is no longer the newest is told so, or leaves it, unless the manifest was
\* left cut short (_check of version-detector.js).
OldPagesAreTold ==
  \A t \in Tab :
    (tabs[t].stage = "running" /\ tabs[t].version \notin {0, manifest} /\ readable)
      ~> (tabs[t].isUpdating \/ tabs[t].stage # "running" \/ tabs[t].version = manifest
            \/ ~readable)

TakesOver == worker.stage = "waiting" /\ worker'.stage = "activating"

\* A worker that takes over makes pages load again, which register a worker: that
\* comes to an end (_registerSW and _listenSW of version-detector.js).
TakeoversEnd == <>[][~TakesOver]_vars
=============================================================================
