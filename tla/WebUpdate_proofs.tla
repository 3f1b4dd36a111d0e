-------------------------- MODULE WebUpdate_proofs --------------------------
(***************************************************************************)
(* Theorems about WebUpdate, for any number of tabs, exports, commits and  *)
(* builds: also where a version is built again, where the build is stopped *)
(* within a file, and where the export lacks one.                          *)
(***************************************************************************)
EXTENDS WebUpdate, TLAPS

USE WebAssumption DEF WebAssumption, Version, Number

\* The type invariant, and what the bound on the commits needs to be inductive.
Typed == TypeOK /\ source <= head

\* The manifest is not ahead of the commit.  The files of the export are of the last one, and
\* the build has copied those that it is past.  A version that is built while it is out is spoilt;
\* the manifest's files are there, and are one whole export unless it is spoilt.
SiteOK ==
  /\ manifest <= head
  /\ \A a \in Asset : site[<<0, a>>] \in {0, release}
  /\ build \in {"wasm", "manifest"} => site[<<0, "pck">>] = 0 \/ site[<<head, "pck">>] = release
  /\ build = "manifest" => site[<<0, "wasm">>] = 0 \/ site[<<head, "wasm">>] = release
  /\ build # "none" /\ head = manifest => head \in spoilt
  /\ \A a \in files : site[<<manifest, a>>] # 0
  /\ manifest \notin spoilt => files = Asset /\ Whole(manifest)

\* The cache keeps files of versions that are or were out, as the site has them.
KeptOK ==
  \A v \in Version, a \in Asset :
    kept[<<v, a>>] # 0 =>
      v <= manifest /\ (v \notin spoilt => Whole(v) /\ kept[<<v, a>>] = site[<<v, a>>])

\* So does a page that has a version; it has all of them when it runs.
TabOK(tab) ==
  /\ tab.version <= manifest
  /\ tab.version \notin spoilt \cup {0} =>
       Whole(tab.version) /\ \A a \in Asset : tab.got[a] \in {0, site[<<tab.version, a>>]}
  /\ tab.stage \notin {"assets", "running"} => tab.version = 0
  /\ tab.stage = "assets" => tab.version # 0
  /\ tab.version = 0 => \A a \in Asset : tab.got[a] = 0
  /\ tab.stage = "running" /\ tab.version \notin spoilt \cup {0} => \A a \in Asset : tab.got[a] # 0

IInv == Typed /\ SiteOK /\ KeptOK /\ \A t \in Tab : TabOK(tabs[t])

-----------------------------------------------------------------------------
(* Data. *)

(* A URL is a version and the kind of a file. *)
LEMMA UrlFacts ==
  /\ \A v \in Number, a \in Asset : <<v, a>> \in Url
  /\ \A v \in Version, a \in Asset : <<v, a>> \in Versioned
  /\ \A u \in Url : u[1] \in Number /\ u[2] \in Asset /\ u = <<u[1], u[2]>>
  /\ Versioned \subseteq Url
  /\ Version \subseteq Number /\ 0 \in Number /\ 0 \notin Version
  /\ Number \subseteq Content /\ Cut \in Content /\ Cut \notin Number
  /\ "pck" \in Asset /\ "wasm" \in Asset
  BY DEF Url, Versioned, Asset, Content, Cut

(* The pages that load are of the type. *)
LEMMA LoadingType ==
  ASSUME TypeOK
  PROVE  /\ Loading \in TabType /\ Closed \in TabType
         /\ [Loading EXCEPT !.controlled = TRUE] \in TabType
         /\ TabOK(Loading) /\ TabOK(Closed)
         /\ TabOK([Loading EXCEPT !.controlled = TRUE])
<1>1. 0 \in Content /\ 0 <= manifest
  BY UrlFacts DEF TypeOK
<1> QED  BY <1>1, UrlFacts DEF Loading, Closed, TabType, TabOK

(* What another worker makes of a page. *)
LEMMA ControllerType ==
  ASSUME TypeOK, NEW tab \in TabType
  PROVE  /\ ControllerChanged(tab) \in TabType
         /\ TabOK(tab) => TabOK(ControllerChanged(tab))
<1>1. CASE tab.detector # "none"
  BY <1>1, LoadingType DEF ControllerChanged
<1>2. CASE tab.detector = "none"
  <2>1. ControllerChanged(tab) = [tab EXCEPT !.controlled = TRUE]
    BY <1>2 DEF ControllerChanged
  <2>2. [tab EXCEPT !.controlled = TRUE] \in TabType
    BY DEF TabType
  <2>3. TabOK(tab) => TabOK([tab EXCEPT !.controlled = TRUE])
    BY DEF TabType, TabOK
  <2> QED  BY <2>1, <2>2, <2>3
<1> QED  BY <1>1, <1>2

(* What a page that gets a file becomes. *)
LEMMA AssetStep ==
  ASSUME TypeOK, NEW t \in Tab, NEW a \in Asset, GetAsset(t, a)
  PROVE  \E content \in Content \ {0}, stage \in {"assets", "running"} :
           /\ Get(t, <<tabs[t].version, a>>, content)
           /\ stage = "running" => \A b \in Asset \ {a} : tabs[t].got[b] # 0
           /\ tabs' = [tabs EXCEPT ![t] = [tabs[t] EXCEPT !.got[a] = content, !.stage = stage]]
<1>0. tabs \in [Tab -> TabType] /\ tabs[t] \in TabType
  BY DEF TypeOK
<1> DEFINE next == IF \A b \in Asset \ {a} : tabs[t].got[b] # 0 THEN "running" ELSE "assets"
<1>1. PICK content \in Content \ {0} :
        /\ Get(t, <<tabs[t].version, a>>, content)
        /\ tabs' = [tabs EXCEPT ![t].got[a] = content, ![t].stage = next]
  BY DEF GetAsset
<1>2. /\ next \in {"assets", "running"}
      /\ next = "running" => \A b \in Asset \ {a} : tabs[t].got[b] # 0
  OBVIOUS
<1> HIDE DEF next
<1>3. tabs' = [tabs EXCEPT ![t] = [tabs[t] EXCEPT !.got[a] = content, !.stage = next]]
  BY <1>0, <1>1 DEF TabType
<1> QED  BY <1>1, <1>2, <1>3

-----------------------------------------------------------------------------
(* The types. *)

LEMMA TypedInit ==
  ASSUME Init
  PROVE  Typed
<1>1. Closed \in TabType
  BY UrlFacts DEF Init, Closed, Loading, TabType
<1>2. [u \in Url |-> IF u[1] \in {0, 1} THEN 1 ELSE 0] \in [Url -> Content]
  BY UrlFacts
<1>3. [u \in Versioned |-> 0] \in [Versioned -> Content]
  BY UrlFacts
<1> QED  BY <1>1, <1>2, <1>3 DEF Init, Typed, TypeOK, NoWorker

LEMMA TypedRepository ==
  ASSUME Typed,
         \/ \E exported \in Exports : Export(exported)
         \/ \E newWorker \in NewWorker : Commit(newWorker)
  PROVE  Typed'
<1>1. ASSUME NEW exported \in Exports, Export(exported)
      PROVE  Typed'
  <2>1. release' \in Version /\ release + 1 \in Version
    BY <1>1 DEF Typed, TypeOK, Export
  <2>2. site' \in [Url -> Content]
    BY <1>1, <2>1, UrlFacts DEF Typed, TypeOK, Export
  <2> QED  BY <1>1, <2>1, <2>2 DEF Typed, TypeOK, Export, manifestVars, browserVars, workerVars
<1>2. ASSUME NEW newWorker \in NewWorker, Commit(newWorker)
      PROVE  Typed'
  <2>1. head' \in Version /\ source' \in Version /\ source' <= head'
    BY <1>2 DEF Typed, TypeOK, Commit
  <2> QED  BY <1>2, <2>1 DEF Typed, TypeOK, Commit, siteVars, manifestVars, browserVars, workerVars
<1> QED  BY <1>1, <1>2

LEMMA TypedCopy ==
  ASSUME Typed, NEW ext \in Asset, NEW next \in {"wasm", "manifest"}, CopyFile(ext, next)
  PROVE  Typed'
<1>1. <<head, ext>> \in Url /\ <<0, ext>> \in Url
  BY UrlFacts DEF Typed, TypeOK
<1>2. site' \in [Url -> Content] /\ build' \in {"none", "pck", "wasm", "manifest"}
  BY <1>1, UrlFacts DEF Typed, TypeOK, CopyFile
<1> QED  BY <1>2 DEF Typed, TypeOK, CopyFile, manifestVars, browserVars, workerVars

LEMMA TypedBuild ==
  ASSUME Typed, StartBuild \/ WriteManifest \/ Abort
  PROVE  Typed'
<1>1. CASE StartBuild
  BY <1>1 DEF Typed, TypeOK, StartBuild, browserVars, workerVars
<1>2. CASE WriteManifest
  BY <1>2 DEF Typed, TypeOK, WriteManifest, Exported, browserVars, workerVars
<1>3. CASE Abort
  BY <1>3 DEF Typed, TypeOK, Abort, siteVars, manifestVars, browserVars, workerVars
<1> QED  BY <1>1, <1>2, <1>3

\* The steps of the browser, which leave the site alone.
WorkerStep == FindWorker \/ Install \/ Activate \/ Claim

LoadStep(t) ==
  \/ Open(t) \/ Close(t) \/ GetPage(t) \/ GetManifest(t)
  \/ \E a \in Asset : GetAsset(t, a)

DetectorStep(t) ==
  InitDetector(t) \/ RegisterSW(t) \/ Check(t) \/ UpdateNow(t) \/ UpdateLater(t)

(* A worker whose script is found. *)
LEMMA FoundType ==
  ASSUME TypeOK
  PROVE  [NoWorker EXCEPT !.stage = "found", !.script = script]
           \in [stage : {"none", "found", "waiting", "activating"}, script : Number]
  BY UrlFacts DEF TypeOK, NoWorker

LEMMA TypedWorker ==
  ASSUME Typed, WorkerStep
  PROVE  Typed'
<1> USE DEF buildVars, siteVars, manifestVars
<1>1. CASE FindWorker
  BY <1>1, FoundType DEF Typed, TypeOK, FindWorker
<1>2. CASE Install
  BY <1>2 DEF Install, Typed, TypeOK
<1>3. CASE Activate
  <2>1. /\ worker' \in [stage : {"none", "found", "waiting", "activating"}, script : Number]
        /\ active' \in Number
    BY <1>3 DEF Activate, Typed, TypeOK
  <2>2. tabs' \in [Tab -> TabType]
    BY <1>3, ControllerType DEF Activate, Typed, TypeOK
  <2> QED  BY <1>3, <2>1, <2>2 DEF Activate, Typed, TypeOK
<1>4. CASE Claim
  <2>1. kept' \in [Versioned -> Content]
    BY <1>4, UrlFacts DEF Claim
  <2>2. tabs' \in [Tab -> TabType]
    BY <1>4, ControllerType DEF Claim, Typed, TypeOK
  <2>3. worker' \in [stage : {"none", "found", "waiting", "activating"}, script : Number]
    BY <1>4, UrlFacts DEF Claim, NoWorker
  <2> QED  BY <1>4, <2>1, <2>2, <2>3 DEF Claim, Typed, TypeOK
<1> QED  BY <1>1, <1>2, <1>3, <1>4 DEF WorkerStep

LEMMA TypedLoad ==
  ASSUME Typed, NEW t \in Tab, LoadStep(t)
  PROVE  Typed'
<1> USE DEF buildVars, siteVars, manifestVars, workerVars
<1>0. TypeOK /\ tabs \in [Tab -> TabType] /\ tabs[t] \in TabType
  BY DEF Typed, TypeOK
<1>1. CASE Open(t)
  <2>1. tabs' \in [Tab -> TabType]
    BY <1>0, <1>1, LoadingType DEF Open
  <2> QED  BY <1>1, <2>1 DEF Open, Typed, TypeOK
<1>2. CASE Close(t)
  <2>1. tabs' \in [Tab -> TabType]
    BY <1>0, <1>2, LoadingType DEF Close
  <2> QED  BY <1>2, <2>1 DEF Close, Typed, TypeOK
<1>3. CASE GetPage(t)
  <2>1. tabs' \in [Tab -> TabType]
    BY <1>0, <1>3 DEF GetPage, Typed, TypeOK, TabType
  <2> QED  BY <1>3, <2>1 DEF GetPage, Typed, TypeOK
<1>4. CASE GetManifest(t)
  <2>1. manifest \in Number
    BY UrlFacts DEF Typed, TypeOK
  <2>2. /\ \A stage \in {"assets", "running"} :
             [tabs[t] EXCEPT !.stage = stage, !.version = manifest] \in TabType
        /\ [tabs[t] EXCEPT !.stage = "running"] \in TabType
    BY <1>0, <2>1 DEF TabType
  <2>3. \/ \E stage \in {"assets", "running"} :
             tabs' = [tabs EXCEPT ![t] = [tabs[t] EXCEPT !.stage = stage, !.version = manifest]]
        \/ tabs' = [tabs EXCEPT ![t] = [tabs[t] EXCEPT !.stage = "running"]]
    BY <1>0, <1>4 DEF GetManifest
  <2>4. tabs' \in [Tab -> TabType]
    BY <1>0, <2>2, <2>3
  <2> QED  BY <1>4, <2>4 DEF GetManifest, Typed, TypeOK
<1>5. ASSUME NEW a \in Asset, GetAsset(t, a)
      PROVE  Typed'
  <2>1. PICK content \in Content \ {0}, stage \in {"assets", "running"} :
          /\ Get(t, <<tabs[t].version, a>>, content)
          /\ tabs' = [tabs EXCEPT ![t] = [tabs[t] EXCEPT !.got[a] = content, !.stage = stage]]
    BY <1>0, <1>5, AssetStep
  <2>2. [tabs[t] EXCEPT !.got[a] = content, !.stage = stage] \in TabType
    BY <1>0 DEF TabType
  <2>3. tabs' \in [Tab -> TabType]
    BY <1>0, <2>1, <2>2
  <2>4. kept' \in [Versioned -> Content]
    BY <2>1 DEF Get, Typed, TypeOK
  <2> QED  BY <1>5, <2>3, <2>4 DEF GetAsset, Typed, TypeOK
<1> QED  BY <1>1, <1>2, <1>3, <1>4, <1>5 DEF LoadStep

LEMMA TypedDetector ==
  ASSUME Typed, NEW t \in Tab, DetectorStep(t)
  PROVE  Typed'
<1> USE DEF buildVars, siteVars, manifestVars, workerVars
<1>0. TypeOK /\ tabs \in [Tab -> TabType] /\ tabs[t] \in TabType
  BY DEF Typed, TypeOK
<1>1. CASE InitDetector(t)
  <2>0. [tabs[t] EXCEPT !.detector = "polling", !.local = tabs[t].version] \in TabType
    BY <1>0 DEF TabType
  <2>1. tabs' = [tabs EXCEPT ![t] = [tabs[t] EXCEPT !.detector = "polling",
                                                     !.local = tabs[t].version]]
    BY <1>0, <1>1 DEF InitDetector
  <2>2. tabs' \in [Tab -> TabType]
    BY <1>0, <2>0, <2>1
  <2> QED  BY <1>1, <2>2 DEF InitDetector, Typed, TypeOK
<1>2. CASE RegisterSW(t)
  <2>0. /\ [tabs[t] EXCEPT !.detector = "registered"] \in TabType
        /\ [tabs[t] EXCEPT !.detector = "registered", !.isUpdating = TRUE] \in TabType
    BY <1>0 DEF TabType
  <2>1. tabs' \in [Tab -> TabType]
    BY <1>0, <1>2, <2>0 DEF RegisterSW
  <2>2. worker' \in [stage : {"none", "found", "waiting", "activating"}, script : Number]
    BY <1>0, <1>2, FoundType DEF RegisterSW, TypeOK
  <2> QED  BY <1>2, <2>1, <2>2 DEF RegisterSW, Typed, TypeOK
<1>3. CASE Check(t)
  <2>1. tabs' \in [Tab -> TabType]
    BY <1>0, <1>3 DEF Check, TabType
  <2> QED  BY <1>3, <2>1 DEF Check, Typed, TypeOK
<1>4. CASE UpdateNow(t)
  <2>1. tabs' \in [Tab -> TabType]
    BY <1>0, <1>4, LoadingType DEF UpdateNow
  <2> QED  BY <1>4, <2>1 DEF UpdateNow, Typed, TypeOK
<1>5. CASE UpdateLater(t)
  <2>1. tabs' \in [Tab -> TabType]
    BY <1>0, <1>5 DEF UpdateLater, TabType
  <2> QED  BY <1>5, <2>1 DEF UpdateLater, Typed, TypeOK
<1> QED  BY <1>1, <1>2, <1>3, <1>4, <1>5 DEF DetectorStep

\* The steps of the repository and the build, which leave the browser alone.
RepositoryStep ==
  \/ \E exported \in Exports : Export(exported)
  \/ \E newWorker \in NewWorker : Commit(newWorker)
  \/ StartBuild \/ WriteManifest \/ Abort
  \/ \E ext \in Asset, next \in {"wasm", "manifest"} :
       CopyFile(ext, next) /\ (next = IF ext = "pck" THEN "wasm" ELSE "manifest")

(* What a step may be. *)
LEMMA Steps ==
  ASSUME Next
  PROVE  RepositoryStep \/ WorkerStep \/ \E t \in Tab : LoadStep(t) \/ DetectorStep(t)
<1>1. ASSUME CopyFile("pck", "wasm") \/ CopyFile("wasm", "manifest")
      PROVE  \E ext \in Asset, next \in {"wasm", "manifest"} :
               CopyFile(ext, next) /\ (next = IF ext = "pck" THEN "wasm" ELSE "manifest")
  BY <1>1, UrlFacts
<1> QED  BY <1>1 DEF Next, Build, RepositoryStep, WorkerStep, LoadStep, DetectorStep

LEMMA RepositoryLeaves ==
  ASSUME RepositoryStep
  PROVE  UNCHANGED browserVars
  BY DEF RepositoryStep, Export, Commit, StartBuild, CopyFile, WriteManifest, Abort

LEMMA BrowserLeaves ==
  ASSUME WorkerStep \/ \E t \in Tab : LoadStep(t) \/ DetectorStep(t)
  PROVE  UNCHANGED <<buildVars, siteVars>>
  BY DEF WorkerStep, FindWorker, Install, Activate, Claim, LoadStep, DetectorStep, Open, Close,
         GetPage, GetManifest, GetAsset, InitDetector, RegisterSW, Check, UpdateNow, UpdateLater

LEMMA TypedStep ==
  ASSUME Typed, [Next]_vars
  PROVE  Typed'
<1>1. CASE UNCHANGED vars
  BY <1>1 DEF vars, buildVars, siteVars, manifestVars, workerVars, browserVars, Typed, TypeOK
<1>2. CASE Next
  BY <1>2, Steps, TypedRepository, TypedCopy, TypedBuild, TypedWorker, TypedLoad, TypedDetector
     DEF RepositoryStep
<1> QED  BY <1>1, <1>2

(* The variables of WebUpdate keep their types: TypeOK of the run WebUpdate_all. *)
THEOREM TypeCorrect == Spec => []TypeOK
<1>1. Init => Typed
  BY TypedInit
<1>2. Typed /\ [Next]_vars => Typed'
  BY TypedStep
<1>3. Typed => TypeOK
  BY DEF Typed
<1> QED  BY <1>1, <1>2, <1>3, PTL DEF Spec

-----------------------------------------------------------------------------
(* The site. *)

LEMMA GoodInit ==
  ASSUME Init
  PROVE  SiteOK /\ KeptOK /\ \A t \in Tab : TabOK(tabs[t])
<1>1. \A v \in Number, a \in Asset : site[<<v, a>>] = IF v \in {0, 1} THEN 1 ELSE 0
  BY UrlFacts DEF Init
<1>2. SiteOK
  BY <1>1, UrlFacts DEF Init, SiteOK, Whole
<1>3. KeptOK
  BY UrlFacts DEF Init, KeptOK
<1>4. TabOK(Closed)
  BY DEF TabOK, Closed, Loading, Init
<1> QED  BY <1>2, <1>3, <1>4 DEF Init

\* A step of the repository or the build changes no version that was out before, unless it is
\* spoilt.
OutStays ==
  /\ manifest' >= manifest /\ manifest' \in Version
  /\ spoilt \subseteq spoilt'
  /\ \A v \in Version, a \in Asset :
       v <= manifest /\ v \notin spoilt' => site'[<<v, a>>] = site[<<v, a>>]

LEMMA SiteExport ==
  ASSUME Typed, SiteOK, NEW exported \in Exports, Export(exported)
  PROVE  SiteOK' /\ OutStays
<1>1. /\ release' = release + 1 /\ build' = "none"
      /\ UNCHANGED <<head, manifest, files, spoilt>>
  BY DEF Export, manifestVars
<1>2. /\ \A v \in Version, a \in Asset : site'[<<v, a>>] = site[<<v, a>>]
      /\ \A a \in Asset : site'[<<0, a>>] \in {0, release + 1}
  BY UrlFacts DEF Export
<1>3. manifest \in Version /\ head \in Version /\ files \subseteq Asset
  BY DEF Typed, TypeOK
<1>4. Whole(manifest) => Whole(manifest)'
  BY <1>1, <1>2, <1>3, UrlFacts DEF Whole
<1> QED  BY <1>1, <1>2, <1>3, <1>4 DEF SiteOK, OutStays

LEMMA SiteCommit ==
  ASSUME Typed, SiteOK, NEW newWorker \in NewWorker, Commit(newWorker)
  PROVE  SiteOK' /\ OutStays
<1>1. /\ head' = head + 1 /\ build = "none"
      /\ UNCHANGED <<release, build, site, manifest, files, spoilt>>
  BY DEF Commit, siteVars, manifestVars
<1>2. manifest \in Version /\ head \in Version
  BY DEF Typed, TypeOK
<1>3. Whole(manifest) => Whole(manifest)'
  BY <1>1 DEF Whole
<1> QED  BY <1>1, <1>2, <1>3 DEF SiteOK, OutStays

LEMMA SiteCopy ==
  ASSUME Typed, SiteOK, NEW ext \in Asset, NEW next \in {"wasm", "manifest"},
         next = IF ext = "pck" THEN "wasm" ELSE "manifest",
         CopyFile(ext, next)
  PROVE  SiteOK' /\ OutStays
<1>1. /\ head \in Version /\ manifest \in Version /\ release \in Version /\ files \subseteq Asset
      /\ <<head, ext>> \in Url /\ site \in [Url -> Content]
  BY UrlFacts DEF Typed, TypeOK
<1>2. /\ build = ext /\ build' \in {ext, next}
      /\ UNCHANGED <<head, release, manifest, files, spoilt>>
  BY DEF CopyFile, manifestVars
<1>3. \A v \in Number, a \in Asset : v # head \/ a # ext => site'[<<v, a>>] = site[<<v, a>>]
  BY <1>1, UrlFacts DEF CopyFile
<1>4. site'[<<head, ext>>] # 0 \/ UNCHANGED site
  BY <1>1 DEF CopyFile, Cut
<1>5. build' = next => site[<<0, ext>>] = 0 \/ site'[<<head, ext>>] = release
  <2>1. next # ext
    BY DEF Asset
  <2>2. CASE site[<<0, ext>>] # 0 /\ build' = next
    <3>1. site' = [site EXCEPT ![<<head, ext>>] = site[<<0, ext>>]]
      BY <1>2, <2>1, <2>2 DEF CopyFile
    <3>2. site[<<0, ext>>] = release
      BY <2>2 DEF SiteOK
    <3> QED  BY <1>1, <3>1, <3>2
  <2> QED  BY <2>2
<1>6. head = manifest => head \in spoilt
  BY <1>1, <1>2, UrlFacts DEF SiteOK, Asset
<1>7. \A a \in Asset : site'[<<0, a>>] \in {0, release}
  BY <1>1, <1>3, UrlFacts DEF SiteOK
<1>8. /\ build' \in {"wasm", "manifest"}
           => site'[<<0, "pck">>] = 0 \/ site'[<<head, "pck">>] = release
      /\ build' = "manifest" => site'[<<0, "wasm">>] = 0 \/ site'[<<head, "wasm">>] = release
  <2>0. \A a \in Asset : site'[<<0, a>>] = site[<<0, a>>]
    BY <1>1, <1>3, UrlFacts
  <2>1. CASE ext = "pck"
    BY <1>2, <1>5, <2>0, <2>1, UrlFacts
  <2>2. CASE ext = "wasm"
    <3>1. site'[<<head, "pck">>] = site[<<head, "pck">>]
      BY <1>1, <1>3, <2>2, UrlFacts
    <3>2. site[<<0, "pck">>] = 0 \/ site[<<head, "pck">>] = release
      BY <1>2, <2>2 DEF SiteOK
    <3>3. next = "manifest"
      BY <2>2
    <3> QED  BY <1>2, <1>5, <2>0, <2>2, <3>1, <3>2, <3>3, UrlFacts
  <2> QED  BY <2>1, <2>2 DEF Asset
<1>9. \A a \in files : site'[<<manifest, a>>] # 0
  BY <1>1, <1>3, <1>4, UrlFacts DEF SiteOK
<1>10. \A v \in Version, a \in Asset : v <= manifest /\ v \notin spoilt
         => site'[<<v, a>>] = site[<<v, a>>]
  BY <1>1, <1>3, <1>6, UrlFacts DEF SiteOK
<1>11. manifest \notin spoilt => files = Asset /\ Whole(manifest)'
  BY <1>1, <1>2, <1>10, UrlFacts DEF SiteOK, Whole
<1>12. OutStays
  BY <1>1, <1>2, <1>10 DEF OutStays
<1>13. SiteOK'
  BY <1>2, <1>6, <1>7, <1>8, <1>9, <1>11 DEF SiteOK
<1> QED  BY <1>12, <1>13

LEMMA SiteManifest ==
  ASSUME Typed, SiteOK, WriteManifest
  PROVE  SiteOK' /\ OutStays
<1>1. /\ head \in Version /\ manifest \in Version /\ release \in Version
      /\ UNCHANGED <<head, release, site>> /\ build = "manifest"
  BY DEF Typed, TypeOK, WriteManifest
<1>2. CASE readable
  <2>1. UNCHANGED <<build, manifest, files, spoilt>>
    BY <1>2 DEF WriteManifest
  <2>2. Whole(manifest)' <=> Whole(manifest)
    BY <1>1, <2>1 DEF Whole
  <2> QED  BY <1>1, <2>1, <2>2 DEF SiteOK, OutStays
<1>3. CASE ~readable
  <2>1. /\ manifest' = head /\ files' = Exported /\ build' = "none"
        /\ spoilt' = IF Exported = Asset THEN spoilt ELSE spoilt \cup {head}
    BY <1>3 DEF WriteManifest
  <2>2. \A a \in Exported : site[<<head, a>>] = release
    BY <1>1 DEF SiteOK, Exported, Asset
  <2>3. Exported = Asset => Whole(manifest)'
    BY <1>1, <2>1, <2>2, UrlFacts DEF Whole
  <2>4. \A a \in files' : site'[<<manifest', a>>] # 0
    BY <1>1, <2>1, <2>2
  <2> QED  BY <1>1, <2>1, <2>3, <2>4 DEF SiteOK, OutStays
<1> QED  BY <1>2, <1>3

LEMMA SiteBuild ==
  ASSUME Typed, SiteOK, StartBuild \/ Abort
  PROVE  SiteOK' /\ OutStays
<1>1. manifest \in Version /\ UNCHANGED <<head, release, site, manifest, files>>
  BY DEF Typed, TypeOK, StartBuild, Abort, siteVars, manifestVars
<1>2. Whole(manifest)' <=> Whole(manifest)
  BY <1>1 DEF Whole
<1>3. CASE StartBuild
  BY <1>1, <1>2, <1>3 DEF StartBuild, SiteOK, OutStays
<1>4. CASE Abort
  BY <1>1, <1>2, <1>4 DEF Abort, SiteOK, OutStays, siteVars, manifestVars
<1> QED  BY <1>3, <1>4

LEMMA SiteStep ==
  ASSUME Typed, SiteOK, [Next]_vars
  PROVE  SiteOK' /\ OutStays
<1>1. CASE UNCHANGED <<buildVars, siteVars>>
  <2>1. UNCHANGED <<head, release, build, site, manifest, files, spoilt>> /\ manifest \in Version
    BY <1>1 DEF buildVars, siteVars, manifestVars, Typed, TypeOK
  <2>2. Whole(manifest)' <=> Whole(manifest)
    BY <2>1 DEF Whole
  <2> QED  BY <2>1, <2>2 DEF SiteOK, OutStays
<1>2. CASE RepositoryStep
  BY <1>2, SiteExport, SiteCommit, SiteCopy, SiteManifest, SiteBuild DEF RepositoryStep
<1>3. CASE UNCHANGED vars
  BY <1>1, <1>3 DEF vars
<1> QED  BY <1>1, <1>2, <1>3, Steps, BrowserLeaves

-----------------------------------------------------------------------------
(* The browser. *)

(* What is whole and out stays so. *)
LEMMA WholeStays ==
  ASSUME OutStays, NEW v \in Version, v <= manifest, v \notin spoilt', Whole(v)
  PROVE  Whole(v)'
<1>1. \A a \in Asset : site'[<<v, a>>] = site[<<v, a>>]
  BY DEF OutStays
<1> QED  BY <1>1, UrlFacts DEF Whole

(* What the cache keeps, and what a page has, is as good after the site has changed. *)
LEMMA KeptStays ==
  ASSUME Typed, OutStays, KeptOK, UNCHANGED kept
  PROVE  KeptOK'
<1>1. SUFFICES ASSUME NEW v \in Version, NEW a \in Asset, kept[<<v, a>>] # 0
               PROVE  /\ v <= manifest'
                      /\ v \notin spoilt' => Whole(v)' /\ kept[<<v, a>>] = site'[<<v, a>>]
  BY DEF KeptOK
<1>2. v <= manifest /\ (v \notin spoilt => Whole(v) /\ kept[<<v, a>>] = site[<<v, a>>])
  BY <1>1 DEF KeptOK
<1>3. v <= manifest'
  BY <1>2 DEF OutStays, Typed, TypeOK
<1>4. v \notin spoilt' => Whole(v)' /\ kept[<<v, a>>] = site'[<<v, a>>]
  BY <1>2, WholeStays DEF OutStays
<1> QED  BY <1>3, <1>4

LEMMA TabStays ==
  ASSUME Typed, OutStays, Typed', NEW t \in Tab, TabOK(tabs'[t])
  PROVE  TabOK(tabs[t])'
<1> DEFINE w == tabs'[t].version
<1>1. w \in Number /\ manifest \in Version
  BY DEF Typed, TypeOK, TabType
<1>2. w <= manifest'
  BY <1>1 DEF OutStays, TabOK
<1>3. ASSUME w \notin spoilt' \cup {0}
      PROVE  /\ site'[<<w, "pck">>] = site'[<<w, "wasm">>] /\ site'[<<w, "pck">>] \in Version
             /\ \A a \in Asset : tabs'[t].got[a] \in {0, site'[<<w, a>>]}
  <2>1. w \in Version /\ w <= manifest /\ w \notin spoilt
    BY <1>1, <1>3 DEF OutStays, TabOK
  <2>2. /\ site[<<w, "pck">>] = site[<<w, "wasm">>] /\ site[<<w, "pck">>] \in Version
        /\ \A a \in Asset : tabs'[t].got[a] \in {0, site[<<w, a>>]}
    BY <2>1 DEF TabOK, Whole
  <2>3. \A a \in Asset : site'[<<w, a>>] = site[<<w, a>>]
    BY <1>3, <2>1 DEF OutStays
  <2> QED  BY <2>2, <2>3, UrlFacts
<1>4. w # 0 /\ w \notin spoilt' => w \notin spoilt
  BY DEF OutStays
<1> QED  BY <1>2, <1>3, <1>4 DEF TabOK, Whole

(* A file that comes for a page is the one that the site has, if its version is not spoilt. *)
LEMMA GetGood ==
  ASSUME Typed, SiteOK, KeptOK, NEW t \in Tab, TabOK(tabs[t]),
         NEW a \in Asset, NEW content \in Content \ {0}, tabs[t].version \in Version,
         Get(t, <<tabs[t].version, a>>, content)
  PROVE  /\ tabs[t].version \notin spoilt => content = site[<<tabs[t].version, a>>]
         /\ \A v \in Version, b \in Asset :
              kept'[<<v, b>>] # 0 =>
                v <= manifest /\ (v \notin spoilt => Whole(v) /\ kept'[<<v, b>>] = site[<<v, b>>])
<1> DEFINE w == tabs[t].version
           url == <<w, a>>
<1>0. url \in Versioned /\ kept \in [Versioned -> Content]
  BY UrlFacts DEF Typed, TypeOK
<1>1. w <= manifest /\ (w \notin spoilt => Whole(w))
  BY UrlFacts DEF TabOK
<1>2. w \notin spoilt => content = site[url]
  <2>1. CASE Matches(url, content)
    BY <2>1 DEF Matches, KeptOK
  <2> QED  BY <2>1 DEF Get
<1>3. kept' = kept \/ kept' = [kept EXCEPT ![url] = content]
  BY DEF Get
<1>4. ASSUME NEW v \in Version, NEW b \in Asset, kept'[<<v, b>>] # 0
      PROVE  v <= manifest /\ (v \notin spoilt => Whole(v) /\ kept'[<<v, b>>] = site[<<v, b>>])
  <2>1. CASE <<v, b>> = url /\ kept' = [kept EXCEPT ![url] = content]
    <3>1. v = w /\ b = a /\ kept'[<<v, b>>] = content
      BY <1>0, <2>1
    <3> QED  BY <1>1, <1>2, <3>1
  <2>2. CASE ~(<<v, b>> = url /\ kept' = [kept EXCEPT ![url] = content])
    <3>1. kept'[<<v, b>>] = kept[<<v, b>>]
      BY <1>0, <1>3, <2>2, UrlFacts
    <3> QED  BY <1>4, <3>1 DEF KeptOK
  <2> QED  BY <2>1, <2>2
<1> QED  BY <1>2, <1>4

LEMMA KeptStep ==
  ASSUME Typed, SiteOK, KeptOK, \A t \in Tab : TabOK(tabs[t]), [Next]_vars
  PROVE  KeptOK'
<1>0. OutStays
  BY SiteStep
<1>1. CASE UNCHANGED kept
  BY <1>0, <1>1, KeptStays
<1>2. CASE Claim
  BY <1>2, UrlFacts DEF Claim, KeptOK
<1>3. ASSUME NEW t \in Tab, NEW a \in Asset, GetAsset(t, a)
      PROVE  KeptOK'
  <2>1. PICK content \in Content \ {0} : Get(t, <<tabs[t].version, a>>, content)
    BY <1>3 DEF GetAsset
  <2>2. tabs[t].version \in Version
    BY <1>3 DEF GetAsset, TabOK, Typed, TypeOK, TabType
  <2>3. UNCHANGED <<site, manifest, spoilt>>
    BY <1>3 DEF GetAsset, siteVars, manifestVars
  <2>4. \A v \in Version, b \in Asset :
          kept'[<<v, b>>] # 0 =>
            v <= manifest /\ (v \notin spoilt => Whole(v) /\ kept'[<<v, b>>] = site[<<v, b>>])
    BY <2>1, <2>2, GetGood
  <2> QED  BY <2>3, <2>4 DEF KeptOK, Whole
<1>4. UNCHANGED kept \/ Claim \/ \E t \in Tab, a \in Asset : GetAsset(t, a)
  <2>1. CASE UNCHANGED vars \/ RepositoryStep
    BY <2>1, RepositoryLeaves DEF vars, browserVars
  <2>2. CASE WorkerStep
    BY <2>2 DEF WorkerStep, FindWorker, Install, Activate
  <2>3. ASSUME NEW t \in Tab, LoadStep(t) \/ DetectorStep(t)
        PROVE  UNCHANGED kept \/ \E a \in Asset : GetAsset(t, a)
    BY <2>3 DEF LoadStep, DetectorStep, Open, Close, GetPage, GetManifest, InitDetector, RegisterSW,
                Check, UpdateNow, UpdateLater
  <2> QED  BY <2>1, <2>2, <2>3, Steps
<1> QED  BY <1>1, <1>2, <1>3, <1>4

LEMMA TabsWorker ==
  ASSUME Typed, \A t \in Tab : TabOK(tabs[t]), Activate \/ Claim
  PROVE  \A t \in Tab : TabOK(tabs'[t])
<1>1. TypeOK /\ tabs \in [Tab -> TabType]
  BY DEF Typed, TypeOK
<1>2. \A t \in Tab : tabs'[t] \in {tabs[t], ControllerChanged(tabs[t])}
  BY DEF Activate, Claim
<1> QED  BY <1>1, <1>2, ControllerType

LEMMA TabsLoad ==
  ASSUME Typed, SiteOK, KeptOK, \A t \in Tab : TabOK(tabs[t]), NEW t \in Tab, LoadStep(t)
  PROVE  \A s \in Tab : TabOK(tabs'[s])
<1>0. /\ TypeOK /\ tabs \in [Tab -> TabType] /\ tabs[t] \in TabType /\ TabOK(tabs[t])
      /\ manifest \in Version
  BY DEF Typed, TypeOK
<1>1. ASSUME NEW tab, tabs' = [tabs EXCEPT ![t] = tab], TabOK(tab)
      PROVE  \A s \in Tab : TabOK(tabs'[s])
  BY <1>0, <1>1
<1>2. CASE Open(t) \/ Close(t)
  BY <1>0, <1>1, <1>2, LoadingType DEF Open, Close
<1>3. CASE GetPage(t)
  <2> DEFINE next == IF page = "template" THEN "manifest" ELSE "running"
  <2>1. TabOK([tabs[t] EXCEPT !.stage = next, !.page = page])
    BY <1>0, <1>3 DEF GetPage, TabOK, TabType
  <2>2. tabs' = [tabs EXCEPT ![t] = [tabs[t] EXCEPT !.stage = next, !.page = page]]
    BY <1>0, <1>3 DEF GetPage
  <2> HIDE DEF next
  <2> QED  BY <1>1, <2>1, <2>2
<1>4. CASE GetManifest(t)
  <2>1. tabs[t].stage = "manifest" /\ tabs[t].version = 0 /\ \A a \in Asset : tabs[t].got[a] = 0
    BY <1>0, <1>4 DEF GetManifest, TabOK
  <2>2. CASE tabs' = [tabs EXCEPT ![t].stage = "running"]
    <3>1. TabOK([tabs[t] EXCEPT !.stage = "running"])
      BY <1>0, <2>1 DEF TabOK, TabType
    <3>2. tabs' = [tabs EXCEPT ![t] = [tabs[t] EXCEPT !.stage = "running"]]
      BY <1>0, <2>2
    <3> QED  BY <1>1, <3>1, <3>2
  <2>3. CASE tabs' = [tabs EXCEPT ![t].stage = IF "wasm" \in files THEN "assets" ELSE "running",
                                  ![t].version = manifest]
    <3> DEFINE next == IF "wasm" \in files THEN "assets" ELSE "running"
               tab  == [tabs[t] EXCEPT !.stage = next, !.version = manifest]
    <3>1. /\ tab.stage = next /\ tab.version = manifest /\ tab.got = tabs[t].got
          /\ next \in {"assets", "running"}
      BY <1>0 DEF TabType
    <3>2. next = "running" => manifest \in spoilt
      BY UrlFacts DEF SiteOK
    <3>3. manifest \notin spoilt => Whole(manifest)
      BY DEF SiteOK
    <3>4. tabs' = [tabs EXCEPT ![t] = tab]
      BY <1>0, <2>3 DEF TabType
    <3> HIDE DEF tab, next
    <3>5. TabOK(tab)
      BY <1>0, <2>1, <3>1, <3>2, <3>3 DEF TabOK
    <3> QED  BY <1>1, <3>4, <3>5
  <2> QED  BY <1>4, <2>2, <2>3 DEF GetManifest
<1>5. ASSUME NEW a \in Asset, GetAsset(t, a)
      PROVE  \A s \in Tab : TabOK(tabs'[s])
  <2>1. PICK content \in Content \ {0}, stage \in {"assets", "running"} :
          /\ Get(t, <<tabs[t].version, a>>, content)
          /\ stage = "running" => \A b \in Asset \ {a} : tabs[t].got[b] # 0
          /\ tabs' = [tabs EXCEPT ![t] = [tabs[t] EXCEPT !.got[a] = content, !.stage = stage]]
    BY <1>0, <1>5, AssetStep
  <2>2. tabs[t].stage = "assets" /\ tabs[t].version \in Version
    BY <1>0, <1>5 DEF GetAsset, TabOK, TabType
  <2>3. tabs[t].version \notin spoilt => content = site[<<tabs[t].version, a>>]
    BY <1>0, <2>1, <2>2, GetGood
  <2> DEFINE tab == [tabs[t] EXCEPT !.got[a] = content, !.stage = stage]
  <2>4. /\ tab.version = tabs[t].version /\ tab.stage = stage /\ tab.got[a] = content
        /\ \A b \in Asset \ {a} : tab.got[b] = tabs[t].got[b]
    BY <1>0 DEF TabType
  <2>5. tabs' = [tabs EXCEPT ![t] = tab]
    BY <2>1
  <2> HIDE DEF tab
  <2>6. TabOK(tab)
    BY <1>0, <2>1, <2>2, <2>3, <2>4 DEF TabOK
  <2> QED  BY <1>1, <2>5, <2>6
<1> QED  BY <1>2, <1>3, <1>4, <1>5 DEF LoadStep

LEMMA TabsDetector ==
  ASSUME Typed, \A t \in Tab : TabOK(tabs[t]), NEW t \in Tab, DetectorStep(t)
  PROVE  \A s \in Tab : TabOK(tabs'[s])
<1>0. TypeOK /\ tabs \in [Tab -> TabType] /\ tabs[t] \in TabType /\ TabOK(tabs[t])
  BY DEF Typed, TypeOK
<1>1. CASE UpdateNow(t)
  BY <1>0, <1>1, LoadingType DEF UpdateNow
<1>2. CASE InitDetector(t) \/ RegisterSW(t) \/ Check(t) \/ UpdateLater(t)
  <2>1. /\ tabs'[t].stage = tabs[t].stage /\ tabs'[t].version = tabs[t].version
        /\ tabs'[t].got = tabs[t].got
        /\ \A s \in Tab \ {t} : tabs'[s] = tabs[s]
    BY <1>0, <1>2 DEF InitDetector, RegisterSW, Check, UpdateLater, TabType
  <2>2. TabOK(tabs'[t])
    BY <1>0, <2>1 DEF TabOK
  <2> QED  BY <2>1, <2>2
<1> QED  BY <1>1, <1>2 DEF DetectorStep

LEMMA TabsStep ==
  ASSUME Typed, SiteOK, KeptOK, \A t \in Tab : TabOK(tabs[t]), [Next]_vars
  PROVE  (\A t \in Tab : TabOK(tabs[t]))'
<1>1. \A t \in Tab : TabOK(tabs'[t])
  <2>1. CASE UNCHANGED tabs
    BY <2>1
  <2>2. UNCHANGED tabs \/ Activate \/ Claim \/ \E t \in Tab : LoadStep(t) \/ DetectorStep(t)
    BY Steps, RepositoryLeaves DEF vars, browserVars, WorkerStep, FindWorker, Install
  <2> QED  BY <2>1, <2>2, TabsWorker, TabsLoad, TabsDetector
<1>2. OutStays /\ Typed'
  BY SiteStep, TypedStep
<1> QED  BY <1>1, <1>2, TabStays

-----------------------------------------------------------------------------
(* The theorems. *)

LEMMA Invariance == Spec => []IInv
<1>1. Init => IInv
  BY TypedInit, GoodInit DEF IInv
<1>2. IInv /\ [Next]_vars => IInv'
  BY TypedStep, SiteStep, KeptStep, TabsStep DEF IInv
<1> QED  BY <1>1, <1>2, PTL DEF Spec

(* Wherever build-web.js is stopped, also within a file, and whatever the export lacks: the
   manifest names files that are there, and they are whole and of one export unless their version
   was built twice or came out with a file missing. *)
THEOREM ManifestIsComplete == Spec => []ManifestComplete
<1>1. IInv => ManifestComplete
  BY DEF IInv, SiteOK, ManifestComplete
<1> QED  BY <1>1, Invariance, PTL

(* A game has its program and its data from one export, whatever the worker has cached and
   whatever is built while it loads, unless its version was built twice or came out with a file
   missing. *)
THEOREM OneRelease == Spec => []GameIsOneRelease
<1>1. IInv => GameIsOneRelease
  <2>1. ASSUME IInv, NEW t \in Tab, tabs[t].stage = "running",
               tabs[t].version \notin spoilt \cup {0}
        PROVE  tabs[t].got["pck"] = tabs[t].got["wasm"] /\ tabs[t].got["pck"] \in Version
    <3>1. Whole(tabs[t].version) /\ \A a \in Asset : tabs[t].got[a] = site[<<tabs[t].version, a>>]
      BY <2>1 DEF IInv, TabOK
    <3> QED  BY <3>1, UrlFacts DEF Whole
  <2> QED  BY <2>1 DEF GameIsOneRelease
<1> QED  BY <1>1, Invariance, PTL

-----------------------------------------------------------------------------
(* The refinement of ReleaseDelivery.                                      *)

\* What a page has chosen, and what it plays; what is out.
Chosen(tab)  == tab.version
Playing(tab) == [a \in Asset |-> IF tab.stage = "running" THEN tab.got[a] ELSE 0]
Out          == [v \in Version |-> IF v <= manifest THEN site[<<v, "pck">>] ELSE 0]

(* A page that has not started a game plays none. *)
LEMMA NothingPlays ==
  ASSUME NEW tab \in TabType, TabOK(tab), tab.stage # "running" \/ tab.version = 0
  PROVE  Playing(tab) = [f \in Asset |-> 0]
  BY DEF Playing, TabOK, TabType

(* A page that loads again has chosen nothing and plays nothing. *)
LEMMA LoadingLeaves ==
  ASSUME TypeOK, NEW tab \in {Loading, Closed, [Loading EXCEPT !.controlled = TRUE]}
  PROVE  Chosen(tab) = 0 /\ Playing(tab) = [f \in Asset |-> 0]
<1>1. tab \in TabType /\ TabOK(tab)
  <2>1. tab = Loading \/ tab = Closed \/ tab = [Loading EXCEPT !.controlled = TRUE]
    OBVIOUS
  <2> QED  BY <2>1, LoadingType
<1>2. tab.version = 0
  <2>1. Loading.version = 0
    BY DEF Loading
  <2>2. Closed.version = 0
    BY <2>1, LoadingType DEF Closed, TabType
  <2>3. [Loading EXCEPT !.controlled = TRUE].version = 0
    BY <2>1, LoadingType DEF TabType
  <2> QED  BY <2>1, <2>2, <2>3
<1> QED  BY <1>1, <1>2, NothingPlays DEF Chosen

(* Pages of which some load again. *)
LEMMA SomeLeave ==
  ASSUME UNCHANGED siteVars,
         \A t \in Tab : \/ Chosen(tabs'[t]) = Chosen(tabs[t]) /\ Playing(tabs'[t]) = Playing(tabs[t])
                        \/ Chosen(tabs'[t]) = 0 /\ Playing(tabs'[t]) = [f \in Asset |-> 0]
  PROVE  Delivery!Next
<1>1. PICK gone \in SUBSET Tab :
        \A t \in Tab : /\ Chosen(tabs'[t]) = IF t \in gone THEN 0 ELSE Chosen(tabs[t])
                       /\ Playing(tabs'[t]) = IF t \in gone THEN [f \in Asset |-> 0]
                                              ELSE Playing(tabs[t])
  <2> DEFINE those == {t \in Tab : /\ Chosen(tabs'[t]) = 0
                                   /\ Playing(tabs'[t]) = [f \in Asset |-> 0]}
  <2>1. \A t \in Tab : /\ Chosen(tabs'[t]) = IF t \in those THEN 0 ELSE Chosen(tabs[t])
                       /\ Playing(tabs'[t]) = IF t \in those THEN [f \in Asset |-> 0]
                                              ELSE Playing(tabs[t])
    OBVIOUS
  <2>2. those \in SUBSET Tab
    OBVIOUS
  <2> HIDE DEF those
  <2> QED  BY <2>1, <2>2
<1>2. Delivery!Leave(gone)
  <2>1. [t \in Tab |-> Chosen(tabs'[t])]
          = [t \in Tab |-> IF t \in gone THEN 0 ELSE [s \in Tab |-> Chosen(tabs[s])][t]]
    BY <1>1
  <2>2. [t \in Tab |-> Playing(tabs'[t])]
          = [t \in Tab |-> IF t \in gone THEN [f \in Asset |-> 0]
                           ELSE [s \in Tab |-> Playing(tabs[s])][t]]
    BY <1>1
  <2>3. UNCHANGED <<manifest, site, spoilt>>
    BY DEF siteVars, manifestVars
  <2> QED  BY <2>1, <2>2, <2>3 DEF Delivery!Leave, Delivery!NoGame, Chosen, Playing
<1> QED  BY <1>2 DEF Delivery!Next

(* The steps of the worker: some pages load again. *)
LEMMA WorkerDelivers ==
  ASSUME IInv, Activate \/ Claim
  PROVE  Delivery!Next
<1>1. TypeOK /\ tabs \in [Tab -> TabType] /\ UNCHANGED siteVars
  BY DEF IInv, Typed, TypeOK, Activate, Claim
<1>2. \A t \in Tab : tabs'[t] \in {tabs[t], ControllerChanged(tabs[t])}
  BY DEF Activate, Claim
<1>3. ASSUME NEW tab \in TabType
      PROVE  LET new == ControllerChanged(tab) IN
               \/ Chosen(new) = Chosen(tab) /\ Playing(new) = Playing(tab)
               \/ Chosen(new) = 0 /\ Playing(new) = [f \in Asset |-> 0]
  <2>1. CASE tab.detector # "none"
    BY <1>1, <2>1, LoadingLeaves DEF ControllerChanged
  <2>2. CASE tab.detector = "none"
    <3>1. ControllerChanged(tab) = [tab EXCEPT !.controlled = TRUE]
      BY <2>2 DEF ControllerChanged
    <3> QED  BY <3>1 DEF Chosen, Playing, TabType
  <2> QED  BY <2>1, <2>2
<1> QED  BY <1>1, <1>2, <1>3, SomeLeave

(* The steps of a page that loads. *)
LEMMA LoadDelivers ==
  ASSUME IInv, NEW t \in Tab, LoadStep(t)
  PROVE  Delivery!Next
<1>0. /\ TypeOK /\ tabs \in [Tab -> TabType] /\ tabs[t] \in TabType /\ TabOK(tabs[t])
      /\ UNCHANGED siteVars /\ manifest \in Version
  BY DEF IInv, Typed, TypeOK, LoadStep, Open, Close, GetPage, GetManifest, GetAsset
<1>s. UNCHANGED <<manifest, site, spoilt>>
  BY <1>0 DEF siteVars, manifestVars
<1>1. ASSUME NEW tab, tabs' = [tabs EXCEPT ![t] = tab],
             \/ Chosen(tab) = Chosen(tabs[t]) /\ Playing(tab) = Playing(tabs[t])
             \/ Chosen(tab) = 0 /\ Playing(tab) = [f \in Asset |-> 0]
      PROVE  Delivery!Next
  <2>1. tabs'[t] = tab /\ \A s \in Tab \ {t} : tabs'[s] = tabs[s]
    BY <1>0, <1>1
  <2> QED  BY <1>0, <1>1, <2>1, SomeLeave
<1>2. CASE Open(t)
  BY <1>0, <1>1, <1>2, LoadingLeaves DEF Open
<1>3. CASE Close(t)
  BY <1>0, <1>1, <1>3, LoadingLeaves DEF Close
<1>4. CASE GetPage(t)
  <2> DEFINE next == IF page = "template" THEN "manifest" ELSE "running"
             tab  == [tabs[t] EXCEPT !.stage = next, !.page = page]
  <2>1. tab.version = tabs[t].version /\ tab.got = tabs[t].got /\ tabs[t].version = 0
        /\ tabs[t].stage = "page"
    BY <1>0, <1>4 DEF GetPage, TabType, TabOK
  <2>2. tabs' = [tabs EXCEPT ![t] = tab]
    BY <1>0, <1>4 DEF GetPage
  <2> HIDE DEF tab
  <2>3. Chosen(tab) = Chosen(tabs[t]) /\ Playing(tab) = Playing(tabs[t])
    <3>1. \A a \in Asset : tabs[t].got[a] = 0
      BY <1>0, <2>1 DEF TabOK
    <3> QED  BY <2>1, <3>1 DEF Chosen, Playing
  <2> QED  BY <1>1, <2>2, <2>3
<1>5. CASE GetManifest(t)
  <2>1. tabs[t].stage = "manifest" /\ tabs[t].version = 0 /\ \A a \in Asset : tabs[t].got[a] = 0
    BY <1>0, <1>5 DEF GetManifest, TabOK
  <2>2. CASE tabs' = [tabs EXCEPT ![t].stage = "running"]
    <3> DEFINE tab == [tabs[t] EXCEPT !.stage = "running"]
    <3>1. Chosen(tab) = Chosen(tabs[t]) /\ Playing(tab) = Playing(tabs[t])
      BY <1>0, <2>1 DEF Chosen, Playing, TabType
    <3>2. tabs' = [tabs EXCEPT ![t] = tab]
      BY <1>0, <2>2
    <3> HIDE DEF tab
    <3> QED  BY <1>1, <3>1, <3>2
  <2>3. CASE tabs' = [tabs EXCEPT ![t].stage = IF "wasm" \in files THEN "assets" ELSE "running",
                                  ![t].version = manifest]
    <3>1. /\ tabs'[t].version = manifest /\ tabs'[t].got = tabs[t].got
          /\ \A s \in Tab \ {t} : tabs'[s] = tabs[s]
      BY <1>0, <2>3 DEF TabType
    <3>2. \A s \in Tab : Playing(tabs'[s]) = Playing(tabs[s])
      BY <2>1, <3>1 DEF Playing
    <3>3. Delivery!Choose(t)
      <4> DEFINE chosen == [s \in Tab |-> tabs[s].version]
      <4>1. chosen[t] = 0 /\ [s \in Tab |-> tabs'[s].version] = [chosen EXCEPT ![t] = manifest]
        BY <2>1, <3>1
      <4>2. [s \in Tab |-> Playing(tabs'[s])] = [s \in Tab |-> Playing(tabs[s])]
        BY <3>2
      <4> QED  BY <1>s, <4>1, <4>2 DEF Delivery!Choose, Playing
    <3> QED  BY <3>3 DEF Delivery!Next
  <2> QED  BY <1>5, <2>2, <2>3 DEF GetManifest
<1>6. ASSUME NEW a \in Asset, GetAsset(t, a)
      PROVE  Delivery!Next
  <2>1. PICK content \in Content \ {0}, stage \in {"assets", "running"} :
          /\ Get(t, <<tabs[t].version, a>>, content)
          /\ stage = "running" => \A b \in Asset \ {a} : tabs[t].got[b] # 0
          /\ tabs' = [tabs EXCEPT ![t] = [tabs[t] EXCEPT !.got[a] = content, !.stage = stage]]
    BY <1>0, <1>6, AssetStep
  <2> DEFINE tab == [tabs[t] EXCEPT !.got[a] = content, !.stage = stage]
             w   == tabs[t].version
  <2>2. tabs[t].stage = "assets" /\ w \in Version
    BY <1>0, <1>6 DEF GetAsset, TabOK, TabType
  <2>3. /\ tab.version = w /\ tab.stage = stage /\ tab.got[a] = content
        /\ \A b \in Asset \ {a} : tab.got[b] = tabs[t].got[b]
        /\ tab.got \in [Asset -> Content]
    BY <1>0 DEF TabType
  <2>4. tabs' = [tabs EXCEPT ![t] = tab]
    BY <2>1
  <2> HIDE DEF tab
  <2>5. CASE stage = "assets"
    <3>1. Chosen(tab) = Chosen(tabs[t]) /\ Playing(tab) = Playing(tabs[t])
      BY <2>2, <2>3, <2>5 DEF Chosen, Playing
    <3> QED  BY <1>1, <2>4, <3>1
  <2>6. CASE stage = "running"
    <3>1. tabs'[t] = tab /\ \A s \in Tab \ {t} : tabs'[s] = tabs[s]
      BY <1>0, <2>4
    <3>2. /\ Playing(tabs[t]) = [f \in Asset |-> 0]
          /\ Playing(tab) = tab.got /\ Playing(tab) \in [Asset -> Content]
      BY <2>2, <2>3, <2>6 DEF Playing
    <3>3. ASSUME w \notin spoilt
          PROVE  Playing(tab) = [f \in Asset |-> Out[w]]
      <4>1. content = site[<<w, a>>]
        BY <2>1, <2>2, <3>3, GetGood DEF IInv
      <4>2. /\ w <= manifest /\ Whole(w)
            /\ \A b \in Asset \ {a} : tabs[t].got[b] = site[<<w, b>>]
        BY <1>0, <2>1, <2>2, <2>6, <3>3 DEF TabOK
      <4>3. \A b \in Asset : tab.got[b] = site[<<w, "pck">>]
        BY <2>3, <4>1, <4>2 DEF Whole, Asset
      <4>4. Out[w] = site[<<w, "pck">>]
        BY <2>2, <4>2 DEF Out
      <4> QED  BY <2>3, <3>2, <4>3, <4>4
    <3>4. Delivery!Play(t)
      <4> DEFINE chosen  == [s \in Tab |-> tabs[s].version]
                 playing == [s \in Tab |-> Playing(tabs[s])]
                 next    == [s \in Tab |-> Playing(tabs'[s])]
      <4>1. chosen[t] # 0 /\ playing[t] = [f \in Asset |-> 0] /\ chosen[t] = w
        BY <2>2, <3>2
      <4>2. [s \in Tab |-> tabs'[s].version] = chosen
        BY <2>3, <3>1
      <4>3. next[t] = Playing(tab)
        BY <3>1
      <4>4. next = [playing EXCEPT ![t] = next[t]]
        BY <3>1
      <4>5. w \notin spoilt => next[t] = [f \in Asset |-> Out[w]]
        BY <3>3, <4>3
      <4>6. next[t] \in [Asset -> Content]
        BY <3>2, <4>3
      <4> QED  BY <1>s, <4>1, <4>2, <4>4, <4>5, <4>6 DEF Delivery!Play, Delivery!NoGame, Playing, Out
    <3> QED  BY <3>4 DEF Delivery!Next
  <2> QED  BY <2>5, <2>6
<1> QED  BY <1>2, <1>3, <1>4, <1>5, <1>6 DEF LoadStep

(* The steps of a page's detector. *)
LEMMA DetectorDelivers ==
  ASSUME IInv, NEW t \in Tab, DetectorStep(t)
  PROVE  Delivery!Next
<1>0. TypeOK /\ tabs \in [Tab -> TabType] /\ tabs[t] \in TabType /\ UNCHANGED siteVars
  BY DEF IInv, Typed, TypeOK, DetectorStep, InitDetector, RegisterSW, Check, UpdateNow,
         UpdateLater
<1>1. CASE UpdateNow(t)
  <2>1. tabs'[t] = Loading /\ \A s \in Tab \ {t} : tabs'[s] = tabs[s]
    BY <1>0, <1>1 DEF UpdateNow
  <2> QED  BY <1>0, <2>1, LoadingLeaves, SomeLeave
<1>2. CASE InitDetector(t) \/ RegisterSW(t) \/ Check(t) \/ UpdateLater(t)
  <2>1. /\ tabs'[t].stage = tabs[t].stage /\ tabs'[t].version = tabs[t].version
        /\ tabs'[t].got = tabs[t].got
        /\ \A s \in Tab \ {t} : tabs'[s] = tabs[s]
    BY <1>0, <1>2 DEF InitDetector, RegisterSW, Check, UpdateLater, TabType
  <2>2. \A s \in Tab : Chosen(tabs'[s]) = Chosen(tabs[s]) /\ Playing(tabs'[s]) = Playing(tabs[s])
    BY <2>1 DEF Chosen, Playing
  <2> QED  BY <1>0, <2>2, SomeLeave
<1> QED  BY <1>1, <1>2 DEF DetectorStep

(* The steps of the build: a version comes out, or the one that is out changes and is spoilt. *)
LEMMA RepositoryDelivers ==
  ASSUME IInv, RepositoryStep
  PROVE  [Delivery!Next]_(Delivery!vars)
<1>0. /\ UNCHANGED tabs /\ OutStays /\ Out' \in [Version -> Content]
      /\ manifest \in Version /\ head \in Version /\ manifest <= head
  <2>1. OutStays /\ Typed' /\ UNCHANGED tabs
    BY SiteStep, RepositoryLeaves, TypedStep, Steps DEF IInv, RepositoryStep, browserVars, Next,
       Build, Asset
  <2>2. Out' \in [Version -> Content]
    BY <2>1, UrlFacts DEF Typed, TypeOK, Out
  <2> QED  BY <2>1, <2>2 DEF IInv, Typed, TypeOK, SiteOK
<1>1. ASSUME UNCHANGED <<manifest, spoilt>>, Out' = Out
      PROVE  UNCHANGED Delivery!vars
  BY <1>0, <1>1 DEF Delivery!vars, Out
<1>2. ASSUME UNCHANGED manifest, spoilt' = spoilt \cup {manifest},
             \A v \in Version : v # manifest => Out'[v] = Out[v]
      PROVE  Delivery!Rework
  BY <1>0, <1>2 DEF Delivery!Rework, Out
<1>3. CASE \/ \E exported \in Exports : Export(exported)
           \/ \E newWorker \in NewWorker : Commit(newWorker)
           \/ Abort
  <2>1. UNCHANGED <<manifest, spoilt>> /\ \A v \in Version, a \in Asset : site'[<<v, a>>] = site[<<v, a>>]
    BY <1>3, UrlFacts DEF Export, Commit, Abort, siteVars, manifestVars
  <2>2. Out' = Out
    BY <2>1, UrlFacts DEF Out
  <2> QED  BY <1>1, <2>1, <2>2
<1>4. CASE StartBuild
  <2>1. UNCHANGED <<manifest, site>> /\ Out' = Out
    BY <1>4 DEF StartBuild, Out
  <2>2. spoilt' = spoilt \/ spoilt' = spoilt \cup {manifest}
    BY <1>4 DEF StartBuild
  <2> QED  BY <1>1, <1>2, <2>1, <2>2 DEF Delivery!Next
<1>5. ASSUME NEW ext \in Asset, NEW next \in {"wasm", "manifest"}, CopyFile(ext, next)
      PROVE  [Delivery!Next]_(Delivery!vars)
  <2>1. /\ UNCHANGED <<manifest, spoilt>>
        /\ \A v \in Version : v # head => site'[<<v, "pck">>] = site[<<v, "pck">>]
    BY <1>0, <1>5, UrlFacts DEF CopyFile, manifestVars, IInv, Typed, TypeOK
  <2>2. CASE manifest = head
    <3>1. head \in spoilt
      BY <1>5, <2>2 DEF CopyFile, IInv, SiteOK, Asset
    <3>2. \A v \in Version : v # manifest => Out'[v] = Out[v]
      BY <2>1, <2>2 DEF Out
    <3> QED  BY <1>2, <2>1, <2>2, <3>1, <3>2 DEF Delivery!Next
  <2>3. CASE manifest # head
    <3>1. Out' = Out
      BY <1>0, <2>1, <2>3 DEF Out
    <3> QED  BY <1>1, <2>1, <3>1
  <2> QED  BY <2>2, <2>3
<1>6. CASE WriteManifest
  <2>1. UNCHANGED site
    BY <1>6 DEF WriteManifest
  <2>2. CASE readable
    <3>1. UNCHANGED <<manifest, spoilt>> /\ Out' = Out
      BY <1>6, <2>1, <2>2 DEF WriteManifest, Out
    <3> QED  BY <1>1, <3>1
  <2>3. CASE ~readable
    <3>1. /\ manifest' = head /\ build = "manifest"
          /\ spoilt' = spoilt \/ spoilt' = spoilt \cup {head}
      BY <1>6, <2>3 DEF WriteManifest
    <3>2. CASE manifest = head
      <4>1. spoilt' = spoilt
        BY <3>1, <3>2 DEF IInv, SiteOK
      <4>2. Out' = Out
        BY <2>1, <3>1, <3>2 DEF Out
      <4> QED  BY <1>1, <3>1, <3>2, <4>1, <4>2
    <3>3. CASE manifest # head
      <4>1. head > manifest
        BY <1>0, <3>3
      <4>2. \A u \in Version : u <= manifest => Out'[u] = Out[u]
        BY <1>0, <2>1, <3>1 DEF Out
      <4>3. PICK v \in Version : v = head
        BY <1>0
      <4>4. spoilt' \in {spoilt, spoilt \cup {v}}
        BY <3>1, <4>3
      <4>5. Delivery!Publish(v)
        BY <1>0, <3>1, <4>1, <4>2, <4>3, <4>4 DEF Delivery!Publish, Out
      <4> QED  BY <4>5 DEF Delivery!Next
    <3> QED  BY <3>2, <3>3
  <2> QED  BY <2>2, <2>3
<1> QED  BY <1>3, <1>4, <1>5, <1>6 DEF RepositoryStep

(* The build, the caches, the workers and the pages implement ReleaseDelivery: the site never goes
   back to an older version; what is out changes only if it is built again, which spoils it; and
   every game of a version that is not spoilt is wholly what was brought out as the version its
   page was told of. *)
THEOREM Refinement == Spec => DeliversReleases
<1>1. Init => Delivery!Init
  <2> SUFFICES ASSUME Init PROVE Delivery!Init
    OBVIOUS
  <2>1. \A t \in Tab : tabs[t].version = 0 /\ tabs[t].stage = "closed"
    BY DEF Init, Closed, Loading
  <2>2. \A v \in Version : site[<<v, "pck">>] = IF v = 1 THEN 1 ELSE 0
    BY UrlFacts DEF Init
  <2> QED  BY <2>1, <2>2 DEF Init, Delivery!Init, Delivery!NoGame
<1>2. IInv /\ [Next]_vars => [Delivery!Next]_(Delivery!vars)
  <2> SUFFICES ASSUME IInv, [Next]_vars
               PROVE  Delivery!Next \/ UNCHANGED Delivery!vars
    OBVIOUS
  <2>1. CASE UNCHANGED <<siteVars, tabs>>
    BY <2>1 DEF siteVars, manifestVars, Delivery!vars
  <2>2. CASE RepositoryStep
    BY <2>2, RepositoryDelivers
  <2>3. \/ UNCHANGED <<siteVars, tabs>> \/ RepositoryStep \/ Activate \/ Claim
        \/ \E t \in Tab : LoadStep(t) \/ DetectorStep(t)
    BY Steps DEF WorkerStep, FindWorker, Install, vars, browserVars
  <2> QED  BY <2>1, <2>2, <2>3, WorkerDelivers, LoadDelivers, DetectorDelivers
<1> QED
  BY <1>1, <1>2, Invariance, PTL DEF Spec, DeliversReleases, Delivery!Spec

-----------------------------------------------------------------------------
(* What OldPagesAreTold and TakeoversEnd need besides fairness.            *)

\* Only the template asks for a version, and asks once; a detector compares with the
\* page's version, or with one it has made up before.
LocalOK(tab) ==
  /\ tab.version # 0 \/ tab.stage = "manifest" => tab.page = "template"
  /\ tab.local \in {0, tab.version}
  /\ tab.stage \notin {"assets", "running"} => tab.version = 0

\* A player in a game that is no longer the newest has been told so, or one of the two steps that
\* FairSpec is fair to may be taken: the page's detector starts, or its next check of the manifest
\* tells.  While the manifest is cut short there is no such step.
OldPagesCanTell ==
  \A t \in Tab :
    tabs[t].stage = "running" /\ tabs[t].version \notin {0, manifest} /\ readable =>
      \/ tabs[t].isUpdating
      \/ tabs[t].detector # "none" /\ manifest # tabs[t].local
      \/ tabs[t].detector = "none" /\ tabs[t].page = "template" /\ PageLoadsDetector

\* Every worker that takes over has a later script than the one before.
TakeoversRise == [][active' >= active /\ (TakesOver => active' > active)]_vars

\* The scripts come one after the other from the repository to the browser.
ScriptsOK ==
  /\ active <= script /\ script <= source
  /\ worker.stage # "none" => worker.script <= script
  /\ worker.stage \in {"found", "waiting"} => active < worker.script
  /\ worker.stage = "activating" => active = worker.script

LEMMA LoadingLocal ==
  ASSUME TypeOK
  PROVE  LocalOK(Loading) /\ LocalOK(Closed) /\ LocalOK([Loading EXCEPT !.controlled = TRUE])
  BY DEF Loading, Closed, LocalOK

LEMMA LocalWorker ==
  ASSUME Typed, \A t \in Tab : LocalOK(tabs[t]), Activate \/ Claim
  PROVE  \A t \in Tab : LocalOK(tabs'[t])
<1>1. TypeOK /\ tabs \in [Tab -> TabType]
  BY DEF Typed, TypeOK
<1>2. ASSUME NEW tab \in TabType, LocalOK(tab)
      PROVE  LocalOK(ControllerChanged(tab))
  <2>1. LocalOK([tab EXCEPT !.controlled = TRUE])
    BY <1>2 DEF LocalOK, TabType
  <2> QED  BY <1>1, <2>1, LoadingLocal DEF ControllerChanged
<1>3. \A t \in Tab : tabs'[t] \in {tabs[t], ControllerChanged(tabs[t])}
  BY <1>1 DEF Activate, Claim
<1> QED  BY <1>1, <1>2, <1>3

LEMMA LocalTab ==
  ASSUME Typed, \A t \in Tab : LocalOK(tabs[t]),
         NEW t \in Tab, LoadStep(t) \/ DetectorStep(t)
  PROVE  \A s \in Tab : LocalOK(tabs'[s])
<1>0. TypeOK /\ tabs \in [Tab -> TabType] /\ tabs[t] \in TabType /\ LocalOK(tabs[t])
  BY DEF Typed, TypeOK
<1>1. ASSUME NEW tab, tabs' = [tabs EXCEPT ![t] = tab], LocalOK(tab)
      PROVE  \A s \in Tab : LocalOK(tabs'[s])
  BY <1>0, <1>1
<1>2. CASE Open(t) \/ Close(t) \/ UpdateNow(t)
  BY <1>0, <1>1, <1>2, LoadingLocal DEF Open, Close, UpdateNow
<1>3. CASE GetPage(t)
  <2> DEFINE next == IF page = "template" THEN "manifest" ELSE "running"
  <2>1. LocalOK([tabs[t] EXCEPT !.stage = next, !.page = page])
    BY <1>0, <1>3 DEF GetPage, LocalOK, TabType
  <2>2. tabs' = [tabs EXCEPT ![t] = [tabs[t] EXCEPT !.stage = next, !.page = page]]
    BY <1>0, <1>3 DEF GetPage
  <2> HIDE DEF next
  <2> QED  BY <1>1, <2>1, <2>2
<1>4. CASE GetManifest(t)
  <2>0. tabs[t].version = 0 /\ tabs[t].page = "template"
    BY <1>0, <1>4 DEF GetManifest, LocalOK
  <2>1. /\ \A stage \in {"assets", "running"} :
             LocalOK([tabs[t] EXCEPT !.stage = stage, !.version = manifest])
        /\ LocalOK([tabs[t] EXCEPT !.stage = "running"])
    BY <1>0, <2>0 DEF LocalOK, TabType
  <2>2. \/ \E stage \in {"assets", "running"} :
             tabs' = [tabs EXCEPT ![t] = [tabs[t] EXCEPT !.stage = stage, !.version = manifest]]
        \/ tabs' = [tabs EXCEPT ![t] = [tabs[t] EXCEPT !.stage = "running"]]
    BY <1>0, <1>4 DEF GetManifest
  <2> QED  BY <1>1, <2>1, <2>2
<1>5. ASSUME NEW a \in Asset, GetAsset(t, a)
      PROVE  \A s \in Tab : LocalOK(tabs'[s])
  <2>0. tabs[t].stage = "assets"
    BY <1>5 DEF GetAsset
  <2>1. PICK content \in Content \ {0}, stage \in {"assets", "running"} :
          tabs' = [tabs EXCEPT ![t] = [tabs[t] EXCEPT !.got[a] = content, !.stage = stage]]
    BY <1>0, <1>5, AssetStep
  <2>2. LocalOK([tabs[t] EXCEPT !.got[a] = content, !.stage = stage])
    BY <1>0, <2>0 DEF LocalOK, TabType
  <2> QED  BY <1>1, <2>1, <2>2
<1>6. CASE InitDetector(t)
  <2>1. LocalOK([tabs[t] EXCEPT !.detector = "polling", !.local = tabs[t].version])
    BY <1>0 DEF LocalOK, TabType
  <2>2. tabs' = [tabs EXCEPT ![t] = [tabs[t] EXCEPT !.detector = "polling",
                                                     !.local = tabs[t].version]]
    BY <1>0, <1>6 DEF InitDetector
  <2> QED  BY <1>1, <2>1, <2>2
<1>7. CASE RegisterSW(t) \/ Check(t) \/ UpdateLater(t)
  <2>1. /\ tabs'[t].stage = tabs[t].stage /\ tabs'[t].version = tabs[t].version
        /\ tabs'[t].page = tabs[t].page /\ tabs'[t].local = tabs[t].local
        /\ \A s \in Tab \ {t} : tabs'[s] = tabs[s]
    BY <1>0, <1>7 DEF RegisterSW, Check, UpdateLater, TabType
  <2>2. LocalOK(tabs'[t])
    BY <1>0, <2>1 DEF LocalOK
  <2> QED  BY <2>1, <2>2
<1> QED  BY <1>2, <1>3, <1>4, <1>5, <1>6, <1>7 DEF LoadStep, DetectorStep

(* If index.html loads the detector, which it does not today, a page whose game is no longer the
   newest can always tell, whatever the player has put off, another worker has taken over or the
   build has done meanwhile.  That is what OldPagesAreTold needs besides fairness. *)
THEOREM OldPagesTell ==
  ASSUME PageLoadsDetector
  PROVE  Spec => []OldPagesCanTell
<1> DEFINE Local == \A t \in Tab : LocalOK(tabs[t])
<1>1. Init => Local
  BY TypedInit, LoadingLocal DEF Init, Typed
<1>2. Typed /\ Local /\ [Next]_vars => Local'
  <2> SUFFICES ASSUME Typed, \A t \in Tab : LocalOK(tabs[t]), [Next]_vars
               PROVE  \A t \in Tab : LocalOK(tabs'[t])
    BY DEF LocalOK
  <2>1. CASE UNCHANGED tabs
    BY <2>1
  <2>2. UNCHANGED tabs \/ Activate \/ Claim \/ \E t \in Tab : LoadStep(t) \/ DetectorStep(t)
    BY Steps, RepositoryLeaves DEF vars, browserVars, WorkerStep, FindWorker, Install
  <2> QED  BY <2>1, <2>2, LocalWorker, LocalTab
<1>3. Typed /\ Local => OldPagesCanTell
  <2> SUFFICES ASSUME Typed, NEW t \in Tab, LocalOK(tabs[t]),
                      tabs[t].version \notin {0, manifest}
               PROVE  tabs[t].page = "template" /\ manifest # tabs[t].local
    BY DEF OldPagesCanTell
  <2>1. manifest # 0
    BY DEF Typed, TypeOK
  <2> QED  BY <2>1 DEF LocalOK
<1>4. Init => Typed
  BY TypedInit
<1>5. Typed /\ [Next]_vars => Typed'
  BY TypedStep
<1> HIDE DEF Local
<1> QED  BY <1>1, <1>2, <1>3, <1>4, <1>5, PTL DEF Spec

LEMMA ScriptsStep ==
  ASSUME Typed, ScriptsOK, [Next]_vars
  PROVE  ScriptsOK' /\ active' >= active /\ (TakesOver => active' > active)
<1> USE DEF ScriptsOK, TakesOver
<1>0. /\ source \in Nat /\ script \in Nat /\ active \in Nat /\ worker.script \in Nat
      /\ worker \in [stage : {"none", "found", "waiting", "activating"}, script : Number]
  BY DEF Typed, TypeOK
<1>1. ASSUME UNCHANGED <<script, workerVars>>, source' \in {source, source + 1}
      PROVE  ScriptsOK' /\ active' >= active /\ ~TakesOver
  BY <1>0, <1>1 DEF workerVars
<1>2. ASSUME UNCHANGED <<source, script, active>>,
             \/ UNCHANGED worker
             \/ script # active /\ worker' = [NoWorker EXCEPT !.stage = "found", !.script = script]
      PROVE  ScriptsOK' /\ active' >= active /\ ~TakesOver
  <2>1. CASE UNCHANGED worker
    BY <1>0, <1>2, <2>1
  <2>2. CASE script # active /\ worker' = [NoWorker EXCEPT !.stage = "found", !.script = script]
    <3>1. worker'.stage = "found" /\ worker'.script = script
      BY <2>2 DEF NoWorker
    <3>2. active < script
      BY <1>0, <2>2
    <3> QED  BY <1>0, <1>2, <3>1, <3>2
  <2> QED  BY <1>2, <2>1, <2>2
<1>3. CASE UNCHANGED vars
  BY <1>1, <1>3 DEF vars, buildVars, siteVars, browserVars
<1>4. CASE RepositoryStep
  <2>1. UNCHANGED workerVars
    BY <1>4, RepositoryLeaves DEF browserVars
  <2>2. CASE StartBuild
    BY <1>0, <2>1, <2>2 DEF StartBuild, workerVars
  <2>3. CASE ~StartBuild
    <3>1. UNCHANGED script /\ source' \in {source, source + 1}
      BY <1>4, <2>3 DEF RepositoryStep, Export, Commit, CopyFile, WriteManifest, Abort, siteVars
    <3> QED  BY <1>1, <2>1, <3>1
  <2> QED  BY <2>2, <2>3
<1>5. CASE WorkerStep
  <2>1. UNCHANGED <<source, script>>
    BY <1>5, BrowserLeaves DEF buildVars, siteVars
  <2>2. CASE FindWorker
    BY <1>2, <2>1, <2>2 DEF FindWorker
  <2>3. CASE Install
    BY <1>0, <2>1, <2>3 DEF Install
  <2>4. CASE Activate
    BY <1>0, <2>1, <2>4 DEF Activate
  <2>5. CASE Claim
    BY <1>0, <2>1, <2>5 DEF Claim, NoWorker
  <2> QED  BY <1>5, <2>2, <2>3, <2>4, <2>5 DEF WorkerStep
<1>6. ASSUME NEW t \in Tab, LoadStep(t) \/ DetectorStep(t)
      PROVE  ScriptsOK' /\ active' >= active /\ ~TakesOver
  <2>1. UNCHANGED <<source, script>>
    BY <1>6, BrowserLeaves DEF buildVars, siteVars
  <2>2. CASE RegisterSW(t)
    BY <1>2, <2>1, <2>2 DEF RegisterSW
  <2>3. CASE ~RegisterSW(t)
    <3>1. UNCHANGED workerVars
      BY <1>6, <2>3 DEF LoadStep, DetectorStep, Open, Close, GetPage, GetManifest, GetAsset,
                        InitDetector, Check, UpdateNow, UpdateLater
    <3> QED  BY <1>1, <2>1, <3>1
  <2> QED  BY <2>2, <2>3
<1> QED  BY <1>3, <1>4, <1>5, <1>6, Steps

(* Every worker that takes over has a later script than the one before, in however many
   pages the takeovers make register a worker.  As there are only so many scripts, that
   is what TakeoversEnd needs. *)
THEOREM ScriptsRise == Spec => TakeoversRise
<1>1. Init => ScriptsOK
  BY DEF Init, ScriptsOK, NoWorker
<1>2. Init => Typed
  BY TypedInit
<1>3. Typed /\ [Next]_vars => Typed'
  BY TypedStep
<1>4. Typed /\ ScriptsOK /\ [Next]_vars
        => ScriptsOK' /\ active' >= active /\ (TakesOver => active' > active)
  BY ScriptsStep
<1> QED  BY <1>1, <1>2, <1>3, <1>4, PTL DEF Spec, TakeoversRise

=============================================================================
