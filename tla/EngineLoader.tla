---------------------------- MODULE EngineLoader ----------------------------
(***************************************************************************)
(* How a page comes to run the game: Preloader and Engine of index.js, and *)
(* startGodotEngine of index.html.                                         *)
(*                                                                         *)
(* Two files are downloaded at a time, the program (wasm) and the data     *)
(* (pck).  A download is tried again when the request fails.  The program  *)
(* is compiled while it arrives, the data is kept until it is whole; when  *)
(* both are there the main function is called.  An animation frame adds up *)
(* what has come and moves the progress bar.                               *)
(*                                                                         *)
(* A promise is settled, and what was chained to it runs, in the action    *)
(* that causes it.  A file is a number of chunks.  Left out: features that *)
(* this page does not use (another pack or canvas, extension libraries,    *)
(* an instance that is started twice); which release the files are of is   *)
(* the concern of WebUpdate.                                               *)
(***************************************************************************)
EXTENDS Integers

CONSTANTS
  ProgramSize, PackSize,    \* how many chunks the files have
  DOWNLOAD_ATTEMPTS_MAX

ASSUME LoaderAssumption ==
  /\ ProgramSize \in Nat \ {0}
  /\ PackSize \in Nat \ {0}
  /\ DOWNLOAD_ATTEMPTS_MAX \in Nat \ {0}

File == {"wasm", "pck"}

Size(f) == IF f = "wasm" THEN ProgramSize ELSE PackSize

VARIABLES
  statusMode,     \* what the overlay of the page shows
  initializing,   \* whether it may still change
  loads,          \* the downloads: see FileType
  animating,      \* whether another animation frame has been requested
  lastProgress,   \* what the bar shows
  init,           \* how far initPromise is
  program,        \* how many chunks of the program have been compiled
  preloaded,      \* preloadedFiles: how many chunks the pack has that is in it
  main            \* whether the game runs, and with how much of its files

vars == <<statusMode, initializing, loads, animating, lastProgress,
          init, program, preloaded, main>>

pageVars   == <<statusMode, initializing>>
engineVars == <<init, program, main>>

(***************************************************************************)
(* The page.                                                               *)
(***************************************************************************)

setStatusMode(mode) ==
  /\ statusMode' = IF initializing THEN mode ELSE statusMode
  /\ initializing' = (initializing /\ mode = "progress")

displayFailureNotice == setStatusMode("notice")

\* The browser lacks something the engine needs.
MissingFeatures ==
  /\ statusMode = "none"
  /\ displayFailureNotice
  /\ UNCHANGED <<loads, animating, lastProgress, engineVars, preloaded>>

\* A request for a file. Without a manifest the page has no sizes.
Request(size, attempts) ==
  [stage |-> "fetching", attempts |-> attempts, total |-> size, loaded |-> 0, done |-> FALSE]

startGame(sizesKnown) ==
  /\ statusMode = "none"
  /\ setStatusMode("progress")
  /\ loads' = [f \in File |-> Request(IF sizesKnown THEN Size(f) ELSE 0, DOWNLOAD_ATTEMPTS_MAX)]
  /\ animating' = TRUE
  /\ init' = "loading"
  /\ UNCHANGED <<lastProgress, program, preloaded, main>>

(***************************************************************************)
(* The downloads.                                                          *)
(***************************************************************************)

\* The response arrives. That of the program is handed on at once: its body is
\* compiled as it comes.
Respond(f) ==
  /\ loads[f].stage = "fetching"
  /\ loads' = [loads EXCEPT ![f].stage = "reading"]
  /\ init' = IF f = "wasm" THEN "compiling" ELSE init
  /\ UNCHANGED <<pageVars, animating, lastProgress, program, preloaded, main>>

\* Slip: a failure is shown when it happens, and tried again all the same.
RequestFails_Variant(f) ==
  /\ loads[f].stage = "fetching"
  /\ loads' = [loads EXCEPT ![f].stage = IF loads[f].attempts <= 1 THEN "failed" ELSE "waiting"]
  /\ displayFailureNotice
  /\ UNCHANGED <<animating, lastProgress, engineVars, preloaded>>

\* Slip: what is tried for the last time is not chained to the notice.
RequestFails_Silent(f) ==
  /\ loads[f].stage = "fetching"
  /\ loads' = [loads EXCEPT ![f].stage = IF loads[f].attempts <= 1 THEN "failed" ELSE "waiting"]
  /\ UNCHANGED <<pageVars, animating, lastProgress, engineVars, preloaded>>

\* The request fails, or the answer is not ok. After the last attempt a promise is
\* rejected: the page shows that for the pack, but doInit does not pass it on for
\* the program.
RequestFails(f) ==
  /\ loads[f].stage = "fetching"
  /\ loads' = [loads EXCEPT ![f].stage = IF loads[f].attempts <= 1 THEN "failed" ELSE "waiting"]
  /\ IF loads[f].attempts <= 1 /\ f = "pck" THEN displayFailureNotice ELSE UNCHANGED pageVars
  /\ UNCHANGED <<animating, lastProgress, engineVars, preloaded>>

\* Slip: attempts are counted from the wrong end, so they never run out.
Retry_Variant(f) ==
  /\ loads[f].stage = "waiting"
  /\ loads' = [loads EXCEPT ![f] = Request(loads[f].total, loads[f].attempts + 1)]
  /\ UNCHANGED <<pageVars, animating, lastProgress, engineVars, preloaded>>

\* A second later: loadFetch begins to count anew.
Retry(f) ==
  /\ loads[f].stage = "waiting"
  /\ loads' = [loads EXCEPT ![f] = Request(loads[f].total, loads[f].attempts - 1)]
  /\ UNCHANGED <<pageVars, animating, lastProgress, engineVars, preloaded>>

ReadChunk(f) ==
  /\ loads[f].stage = "reading"
  /\ loads[f].loaded < Size(f)
  /\ loads' = [loads EXCEPT ![f].loaded = @ + 1]
  /\ UNCHANGED <<pageVars, animating, lastProgress, engineVars, preloaded>>

\* Slip: the pack is kept as soon as it begins to come.
ReadEnd_Variant(f) ==
  /\ loads[f].stage = "reading"
  /\ f = "wasm" => loads[f].loaded = Size(f)
  /\ loads' = [loads EXCEPT ![f].stage = "closed", ![f].done = TRUE]
  /\ preloaded' = IF f = "pck" THEN loads[f].loaded ELSE preloaded
  /\ UNCHANGED <<pageVars, animating, lastProgress, engineVars>>

\* The stream ends, and is closed. The pack is kept.
ReadEnd(f) ==
  /\ loads[f].stage = "reading"
  /\ loads[f].loaded = Size(f)
  /\ loads' = [loads EXCEPT ![f].stage = "closed", ![f].done = TRUE]
  /\ preloaded' = IF f = "pck" THEN loads[f].loaded ELSE preloaded
  /\ UNCHANGED <<pageVars, animating, lastProgress, engineVars>>

\* Slip: a download that breaks off is tried again like one that does not begin.
ReadBreaks_Variant(f) ==
  /\ loads[f].stage = "reading"
  /\ loads[f].attempts > 1
  /\ loads' = [loads EXCEPT ![f] = Request(loads[f].total, loads[f].attempts - 1)]
  /\ UNCHANGED <<pageVars, animating, lastProgress, engineVars, preloaded>>

\* The connection is lost while the body comes: read is rejected, which nothing is
\* chained to, so the stream is neither closed nor failed.
ReadBreaks(f) ==
  /\ loads[f].stage = "reading"
  /\ loads' = [loads EXCEPT ![f].stage = "broken"]
  /\ UNCHANGED <<pageVars, animating, lastProgress, engineVars, preloaded>>

(***************************************************************************)
(* The progress bar.                                                       *)
(***************************************************************************)

Loaded == loads["wasm"].loaded + loads["pck"].loaded

\* Slip: what has not begun to come is not counted.
Total_Variant ==
  LET Sizes(f) == IF loads[f].loaded = 0 THEN 0 ELSE loads[f].total
  IN  Sizes("wasm") + Sizes("pck")

\* The sum of the sizes, 0 if one is not known.
Total ==
  IF \E f \in File : loads[f].total = 0 THEN 0 ELSE loads["wasm"].total + loads["pck"].total

animateProgress ==
  /\ animating
  /\ lastProgress' = [loaded |-> Loaded, total |-> Total]
  /\ animating' = \E f \in File : ~loads[f].done
  /\ UNCHANGED <<pageVars, loads, engineVars, preloaded>>

(***************************************************************************)
(* The engine.                                                             *)
(***************************************************************************)

\* instantiateWasm: the program is complete and valid, or the promise is rejected,
\* which nothing is chained to.
Instantiate ==
  /\ init = "compiling"
  /\ loads["wasm"].stage = "closed"
  /\ \/ init' = "initFS" /\ program' = loads["wasm"].loaded
     \/ init' = "refused" /\ UNCHANGED program
  /\ UNCHANGED <<pageVars, loads, animating, lastProgress, preloaded, main>>

\* The persistent paths are there, or are not: the engine is ready.
InitFS ==
  /\ init = "initFS"
  /\ init' = "ready"
  /\ UNCHANGED <<pageVars, loads, animating, lastProgress, program, preloaded, main>>

\* startGame goes on once both promises are resolved: start gives the engine the
\* pack and calls the main function, which may throw.
start ==
  /\ init = "ready" /\ preloaded # 0
  /\ preloaded' = 0
  /\ \/ /\ main' = [runs |-> TRUE, program |-> program, pack |-> preloaded]
        /\ init' = "none"
        /\ setStatusMode("hidden")
     \/ displayFailureNotice /\ UNCHANGED <<init, main>>
  /\ UNCHANGED <<loads, animating, lastProgress, program>>

Init ==
  /\ statusMode = "none" /\ initializing = TRUE
  /\ loads = [f \in File |-> [Request(0, DOWNLOAD_ATTEMPTS_MAX) EXCEPT !.stage = "idle"]]
  /\ animating = FALSE
  /\ lastProgress = [loaded |-> 0, total |-> 0]
  /\ init = "none" /\ program = 0 /\ preloaded = 0
  /\ main = [runs |-> FALSE, program |-> 0, pack |-> 0]

Download(f) ==
  \/ Respond(f) \/ RequestFails(f) \/ Retry(f)
  \/ ReadChunk(f) \/ ReadEnd(f) \/ ReadBreaks(f)

Next ==
  \/ MissingFeatures
  \/ \E sizesKnown \in BOOLEAN : startGame(sizesKnown)
  \/ \E f \in File : Download(f)
  \/ animateProgress
  \/ Instantiate \/ InitFS \/ start

Spec == Init /\ [][Next]_vars

\* The browser ends a request and a read in one way or another, its timers fire,
\* and it draws frames.
Fairness ==
  /\ \A f \in File : WF_vars(Download(f))
  /\ WF_vars(animateProgress)
  /\ WF_vars(Instantiate) /\ WF_vars(InitFS) /\ WF_vars(start)

FairSpec == Spec /\ Fairness

(***************************************************************************)
(* Properties.                                                             *)
(***************************************************************************)

FileType ==
  [stage    : {"idle", "fetching", "waiting", "reading", "broken", "closed", "failed"},
   attempts : 1..DOWNLOAD_ATTEMPTS_MAX,        \* how many are left, this one included
   total    : Nat, loaded : Nat, done : BOOLEAN]

\* The variables have their types: no file is asked for more often than it may.
TypeOK ==
  /\ statusMode \in {"none", "progress", "notice", "hidden"}
  /\ initializing \in BOOLEAN
  /\ loads \in [File -> FileType]
  /\ animating \in BOOLEAN
  /\ lastProgress \in [loaded : Nat, total : Nat]
  /\ init \in {"none", "loading", "compiling", "refused", "initFS", "ready"}
  /\ program \in Nat /\ preloaded \in Nat
  /\ main \in [runs : BOOLEAN, program : Nat, pack : Nat]

\* A game that runs has been given the whole of its program and of its data, however
\* often they were asked for (doInit and startGame of index.js).
StartsComplete ==
  main.runs => main.program = ProgramSize /\ main.pack = PackSize

\* A full bar means that every chunk has come (animateProgress): the sizes are those
\* of both files from the first frame on.
ProgressHonest ==
  /\ lastProgress.total > 0 => lastProgress.loaded <= lastProgress.total
  /\ lastProgress.total > 0 /\ lastProgress.loaded = lastProgress.total
       => \A f \in File : loads[f].loaded = Size(f)

\* The bar does not fall back, though an attempt counts anew.
ProgressNeverFalls == [][lastProgress'.loaded >= lastProgress.loaded]_vars

\* Behind a notice no game runs (Promise.all of startGame).
NoticeIsFinal == statusMode = "notice" => ~main.runs

\* What the page does not learn of: the program did not come or was refused, or a
\* download broke off.
Unnoticed ==
  \/ loads["wasm"].stage = "failed" \/ init = "refused"
  \/ \E f \in File : loads[f].stage = "broken"

\* Loading comes to an end on the page, but for that (startGodotEngine).
LoadingEnds == (statusMode = "progress") ~> (statusMode # "progress" \/ Unnoticed)
=============================================================================
