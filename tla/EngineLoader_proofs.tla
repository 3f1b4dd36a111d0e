------------------------ MODULE EngineLoader_proofs ------------------------
(***************************************************************************)
(* Theorems about EngineLoader, for all sizes of the files and any number  *)
(* of attempts.                                                            *)
(***************************************************************************)
EXTENDS EngineLoader, TLAPS

USE LoaderAssumption DEF LoaderAssumption, File, Size

\* Nothing has come of a file that is not being read: an attempt that counts anew
\* has counted nothing before.
LoadOK(f) ==
  /\ loads[f].stage \in {"idle", "fetching", "waiting", "failed"} => loads[f].loaded = 0
  /\ loads[f].loaded <= Size(f)
  /\ loads[f].stage = "closed" => loads[f].loaded = Size(f)
  /\ loads[f].stage = "waiting" => loads[f].attempts > 1

\* Either no size is known or each is.
SizesOK ==
  \/ \A f \in File : loads[f].total = 0
  \/ \A f \in File : loads[f].total = Size(f)

\* The bar shows what had come by some frame.
BarOK ==
  /\ lastProgress.loaded <= Loaded
  /\ lastProgress.total \in {0, ProgramSize + PackSize}

\* What is kept and compiled is whole.
FilesOK ==
  /\ preloaded \in {0, PackSize}
  /\ init \in {"initFS", "ready"} => program = ProgramSize
  /\ StartsComplete

\* The downloads begin with the progress bar; once the page is done with, the pack is
\* not kept and does not come any more.
PageOK ==
  /\ statusMode \in {"none", "progress"} <=> initializing
  /\ statusMode = "none" => \A f \in File : loads[f].stage = "idle"
  /\ main.runs => statusMode = "hidden"
  /\ ~initializing => preloaded = 0 /\ loads["pck"].stage \in {"idle", "failed", "closed"}
  /\ preloaded # 0 => loads["pck"].stage = "closed"

IInv == TypeOK /\ (\A f \in File : LoadOK(f)) /\ SizesOK /\ BarOK /\ FilesOK /\ PageOK

-----------------------------------------------------------------------------

\* What the actions on a download do to the other variables they leave alone.
USE DEF pageVars, engineVars

(* A download is of its type, and so is each. *)
LEMMA LoadsType ==
  ASSUME TypeOK, NEW f \in File
  PROVE  /\ loads[f] \in FileType
         /\ loads[f].loaded \in Nat /\ loads[f].total \in Nat
         /\ loads[f].attempts \in 1..DOWNLOAD_ATTEMPTS_MAX
  BY DEF TypeOK, FileType

(* A request is of the type. *)
LEMMA RequestType ==
  ASSUME NEW size \in Nat, NEW n \in 1..DOWNLOAD_ATTEMPTS_MAX
  PROVE  /\ Request(size, n) \in FileType
         /\ Request(size, n).loaded = 0 /\ Request(size, n).total = size
         /\ Request(size, n).stage = "fetching"
  BY DEF Request, FileType

(* What changes when one download changes. *)
LEMMA LoadChange ==
  ASSUME TypeOK, NEW f \in File, NEW load \in FileType, loads' = [loads EXCEPT ![f] = load]
  PROVE  /\ loads' \in [File -> FileType]
         /\ loads'[f] = load
         /\ \A g \in File \ {f} : loads'[g] = loads[g]
  BY DEF TypeOK

LEMMA InitIInv ==
  ASSUME Init
  PROVE  IInv
<1>1. \A f \in File : loads[f] = [stage |-> "idle", attempts |-> DOWNLOAD_ATTEMPTS_MAX,
                                  total |-> 0, loaded |-> 0, done |-> FALSE]
  BY DEF Init, Request
<1>2. loads \in [File -> FileType]
  <2>1. DOWNLOAD_ATTEMPTS_MAX \in 1..DOWNLOAD_ATTEMPTS_MAX
    OBVIOUS
  <2>2. [stage |-> "idle", attempts |-> DOWNLOAD_ATTEMPTS_MAX,
         total |-> 0, loaded |-> 0, done |-> FALSE] \in FileType
    BY <2>1 DEF FileType
  <2> QED  BY <1>1, <2>2 DEF Init
<1>3. TypeOK
  BY <1>2 DEF Init, TypeOK
<1>4. (\A f \in File : LoadOK(f)) /\ SizesOK
  BY <1>1 DEF LoadOK, SizesOK
<1>5. BarOK
  BY <1>1 DEF Init, BarOK, Loaded
<1>6. FilesOK /\ PageOK
  BY <1>1 DEF Init, FilesOK, PageOK, StartsComplete
<1> QED  BY <1>3, <1>4, <1>5, <1>6 DEF IInv

\* How a download may change: it is not set back, and is as LoadOK has it.
Follows(f, load) ==
  /\ load \in FileType
  /\ load.total = loads[f].total /\ load.loaded >= loads[f].loaded
  /\ load.stage \in {"idle", "fetching", "waiting", "failed"} => load.loaded = 0
  /\ load.loaded <= Size(f)
  /\ load.stage = "closed" => load.loaded = Size(f)
  /\ load.stage = "waiting" => load.attempts > 1

(* One download changes, and the bar does not. *)
LEMMA DownloadKeeps ==
  ASSUME IInv, NEW f \in File, NEW load, Follows(f, load), loads' = [loads EXCEPT ![f] = load],
         lastProgress' = lastProgress
  PROVE  (\A g \in File : LoadOK(g)') /\ SizesOK' /\ BarOK'
<1>1. TypeOK /\ loads'[f] = load /\ \A g \in File \ {f} : loads'[g] = loads[g]
  BY LoadChange DEF IInv, Follows
<1>2. \A g \in File : LoadOK(g)'
  BY <1>1 DEF IInv, LoadOK, Follows
<1>3. SizesOK'
  BY <1>1 DEF IInv, SizesOK, Follows
<1>4. Loaded \in Nat /\ Loaded' \in Nat /\ Loaded <= Loaded' /\ lastProgress.loaded \in Nat
  BY <1>1, LoadsType DEF Loaded, FileType, TypeOK, Follows
<1>5. BarOK'
  BY <1>4 DEF IInv, BarOK
<1> QED  BY <1>2, <1>3, <1>5

LEMMA RespondStep ==
  ASSUME IInv, NEW f \in File, Respond(f)
  PROVE  IInv'
<1> DEFINE load == [loads[f] EXCEPT !.stage = "reading"]
<1>1. TypeOK /\ loads[f].stage = "fetching" /\ LoadOK(f)
  BY DEF IInv, Respond
<1>2. load \in FileType /\ load.total = loads[f].total /\ load.loaded = loads[f].loaded
      /\ load.stage = "reading"
  BY <1>1, LoadsType DEF FileType
<1>3. loads' = [loads EXCEPT ![f] = load]
  BY <1>1 DEF Respond, TypeOK
<1> HIDE DEF load
<1>4. lastProgress' = lastProgress
  BY DEF Respond
<1>5. Follows(f, load)
  BY <1>1, <1>2, LoadsType DEF LoadOK, Follows
<1>6. (\A g \in File : LoadOK(g)') /\ SizesOK' /\ BarOK'
  BY <1>3, <1>4, <1>5, DownloadKeeps
<1>7. loads' \in [File -> FileType] /\ loads'[f] = load /\ \A g \in File \ {f} : loads'[g] = loads[g]
  BY <1>1, <1>2, <1>3, LoadChange
<1>8. TypeOK'
  BY <1>1, <1>7 DEF Respond, TypeOK
<1>9. FilesOK'
  BY DEF Respond, IInv, FilesOK, StartsComplete
<1>10. PageOK'
  BY <1>1, <1>2, <1>7 DEF Respond, IInv, PageOK
<1> QED  BY <1>6, <1>8, <1>9, <1>10 DEF IInv

LEMMA RequestFailsStep ==
  ASSUME IInv, NEW f \in File, RequestFails(f)
  PROVE  IInv'
<1> DEFINE load == [loads[f] EXCEPT !.stage = IF loads[f].attempts <= 1 THEN "failed" ELSE "waiting"]
<1>1. TypeOK /\ loads[f].stage = "fetching" /\ LoadOK(f)
  BY DEF IInv, RequestFails
<1>2. /\ load \in FileType /\ load.total = loads[f].total /\ load.loaded = loads[f].loaded
      /\ load.attempts = loads[f].attempts
      /\ loads[f].attempts <= 1 => load.stage = "failed"
      /\ loads[f].attempts > 1 => load.stage = "waiting"
      /\ loads[f].attempts <= 1 \/ loads[f].attempts > 1
  <2>1. CASE loads[f].attempts <= 1
    <3>1. load = [loads[f] EXCEPT !.stage = "failed"]
      BY <2>1
    <3> HIDE DEF load
    <3> QED  BY <1>1, <2>1, <3>1, LoadsType DEF FileType
  <2>2. CASE ~(loads[f].attempts <= 1)
    <3>1. load = [loads[f] EXCEPT !.stage = "waiting"]
      BY <2>2
    <3> HIDE DEF load
    <3> QED  BY <1>1, <2>2, <3>1, LoadsType DEF FileType
  <2> QED  BY <2>1, <2>2
<1>3. loads' = [loads EXCEPT ![f] = load]
  BY <1>1 DEF RequestFails, TypeOK
<1> HIDE DEF load
<1>4. lastProgress' = lastProgress
  BY DEF RequestFails
<1>5. Follows(f, load)
  BY <1>1, <1>2, LoadsType DEF LoadOK, Follows
<1>6. (\A g \in File : LoadOK(g)') /\ SizesOK' /\ BarOK'
  BY <1>3, <1>4, <1>5, DownloadKeeps
<1>7. loads' \in [File -> FileType] /\ loads'[f] = load /\ \A g \in File \ {f} : loads'[g] = loads[g]
  BY <1>1, <1>2, <1>3, LoadChange
<1>8. TypeOK'
  BY <1>1, <1>7 DEF RequestFails, TypeOK, displayFailureNotice, setStatusMode
<1>9. FilesOK'
  BY DEF RequestFails, IInv, FilesOK, StartsComplete
<1>10. PageOK'
  BY <1>1, <1>2, <1>7 DEF RequestFails, IInv, PageOK, displayFailureNotice, setStatusMode
<1> QED  BY <1>6, <1>8, <1>9, <1>10 DEF IInv

LEMMA RetryStep ==
  ASSUME IInv, NEW f \in File, Retry(f)
  PROVE  IInv'
<1> DEFINE load == Request(loads[f].total, loads[f].attempts - 1)
<1>1. TypeOK /\ loads[f].stage = "waiting" /\ LoadOK(f)
  BY DEF IInv, Retry
<1>2. load \in FileType /\ load.total = loads[f].total /\ load.loaded = 0 /\ load.stage = "fetching"
  <2>1. loads[f].total \in Nat /\ loads[f].attempts - 1 \in 1..DOWNLOAD_ATTEMPTS_MAX
    BY <1>1, LoadsType DEF LoadOK
  <2> QED  BY <2>1, RequestType
<1>3. loads' = [loads EXCEPT ![f] = load]
  BY DEF Retry
<1> HIDE DEF load
<1>4. lastProgress' = lastProgress
  BY DEF Retry
<1>5. Follows(f, load)
  BY <1>1, <1>2, LoadsType DEF LoadOK, Follows
<1>6. (\A g \in File : LoadOK(g)') /\ SizesOK' /\ BarOK'
  BY <1>3, <1>4, <1>5, DownloadKeeps
<1>7. loads' \in [File -> FileType] /\ loads'[f] = load /\ \A g \in File \ {f} : loads'[g] = loads[g]
  BY <1>1, <1>2, <1>3, LoadChange
<1>8. TypeOK'
  BY <1>1, <1>7 DEF Retry, TypeOK
<1>9. FilesOK'
  BY DEF Retry, IInv, FilesOK, StartsComplete
<1>10. PageOK'
  BY <1>1, <1>2, <1>7 DEF Retry, IInv, PageOK
<1> QED  BY <1>6, <1>8, <1>9, <1>10 DEF IInv

LEMMA ReadChunkStep ==
  ASSUME IInv, NEW f \in File, ReadChunk(f)
  PROVE  IInv'
<1> DEFINE load == [loads[f] EXCEPT !.loaded = @ + 1]
<1>1. TypeOK /\ loads[f].stage = "reading" /\ LoadOK(f) /\ loads[f].loaded < Size(f)
  BY DEF IInv, ReadChunk
<1>2. load \in FileType /\ load.total = loads[f].total /\ load.loaded = loads[f].loaded + 1
      /\ load.stage = "reading"
  BY <1>1, LoadsType DEF FileType
<1>3. loads' = [loads EXCEPT ![f] = load]
  BY <1>1 DEF ReadChunk, TypeOK
<1> HIDE DEF load
<1>4. lastProgress' = lastProgress
  BY DEF ReadChunk
<1>5. Follows(f, load)
  BY <1>1, <1>2, LoadsType DEF LoadOK, Follows
<1>6. (\A g \in File : LoadOK(g)') /\ SizesOK' /\ BarOK'
  BY <1>3, <1>4, <1>5, DownloadKeeps
<1>7. loads' \in [File -> FileType] /\ loads'[f] = load /\ \A g \in File \ {f} : loads'[g] = loads[g]
  BY <1>1, <1>2, <1>3, LoadChange
<1>8. TypeOK'
  BY <1>1, <1>7 DEF ReadChunk, TypeOK
<1>9. FilesOK'
  BY DEF ReadChunk, IInv, FilesOK, StartsComplete
<1>10. PageOK'
  BY <1>1, <1>2, <1>7 DEF ReadChunk, IInv, PageOK
<1> QED  BY <1>6, <1>8, <1>9, <1>10 DEF IInv

LEMMA ReadEndStep ==
  ASSUME IInv, NEW f \in File, ReadEnd(f)
  PROVE  IInv'
<1> DEFINE load == [loads[f] EXCEPT !.stage = "closed", !.done = TRUE]
<1>1. TypeOK /\ loads[f].stage = "reading" /\ LoadOK(f) /\ loads[f].loaded = Size(f)
  BY DEF IInv, ReadEnd
<1>2. load \in FileType /\ load.total = loads[f].total /\ load.loaded = loads[f].loaded
      /\ load.stage = "closed"
  BY <1>1, LoadsType DEF FileType
<1>3. loads' = [loads EXCEPT ![f] = load]
  BY <1>1 DEF ReadEnd, TypeOK
<1> HIDE DEF load
<1>4. lastProgress' = lastProgress
  BY DEF ReadEnd
<1>5. Follows(f, load)
  BY <1>1, <1>2, LoadsType DEF LoadOK, Follows
<1>6. (\A g \in File : LoadOK(g)') /\ SizesOK' /\ BarOK'
  BY <1>3, <1>4, <1>5, DownloadKeeps
<1>7. loads' \in [File -> FileType] /\ loads'[f] = load /\ \A g \in File \ {f} : loads'[g] = loads[g]
  BY <1>1, <1>2, <1>3, LoadChange
<1>8. TypeOK'
  BY <1>1, <1>7 DEF ReadEnd, TypeOK
<1>9. FilesOK'
  BY <1>1 DEF ReadEnd, IInv, FilesOK, StartsComplete
<1>10. PageOK'
  BY <1>1, <1>2, <1>7 DEF ReadEnd, IInv, PageOK
<1> QED  BY <1>6, <1>8, <1>9, <1>10 DEF IInv

LEMMA ReadBreaksStep ==
  ASSUME IInv, NEW f \in File, ReadBreaks(f)
  PROVE  IInv'
<1> DEFINE load == [loads[f] EXCEPT !.stage = "broken"]
<1>1. TypeOK /\ loads[f].stage = "reading" /\ LoadOK(f)
  BY DEF IInv, ReadBreaks
<1>2. load \in FileType /\ load.total = loads[f].total /\ load.loaded = loads[f].loaded
      /\ load.stage = "broken"
  BY <1>1, LoadsType DEF FileType
<1>3. loads' = [loads EXCEPT ![f] = load]
  BY <1>1 DEF ReadBreaks, TypeOK
<1> HIDE DEF load
<1>4. lastProgress' = lastProgress
  BY DEF ReadBreaks
<1>5. Follows(f, load)
  BY <1>1, <1>2, LoadsType DEF LoadOK, Follows
<1>6. (\A g \in File : LoadOK(g)') /\ SizesOK' /\ BarOK'
  BY <1>3, <1>4, <1>5, DownloadKeeps
<1>7. loads' \in [File -> FileType] /\ loads'[f] = load /\ \A g \in File \ {f} : loads'[g] = loads[g]
  BY <1>1, <1>2, <1>3, LoadChange
<1>8. TypeOK'
  BY <1>1, <1>7 DEF ReadBreaks, TypeOK
<1>9. FilesOK'
  BY DEF ReadBreaks, IInv, FilesOK, StartsComplete
<1>10. PageOK'
  BY <1>1, <1>2, <1>7 DEF ReadBreaks, IInv, PageOK
<1> QED  BY <1>6, <1>8, <1>9, <1>10 DEF IInv

-----------------------------------------------------------------------------
(* The page, the bar and the engine. *)

LEMMA MissingFeaturesStep ==
  ASSUME IInv, MissingFeatures
  PROVE  IInv'
<1> USE DEF displayFailureNotice, setStatusMode
<1>1. TypeOK'
  BY DEF IInv, MissingFeatures, TypeOK
<1>2. (\A f \in File : LoadOK(f)') /\ SizesOK' /\ BarOK'
  BY DEF IInv, MissingFeatures, LoadOK, SizesOK, BarOK, Loaded
<1>3. FilesOK'
  BY DEF IInv, MissingFeatures, FilesOK, StartsComplete
<1>4. PageOK'
  BY DEF IInv, MissingFeatures, PageOK
<1> QED  BY <1>1, <1>2, <1>3, <1>4 DEF IInv

LEMMA startGameStep ==
  ASSUME IInv, NEW known \in BOOLEAN, startGame(known)
  PROVE  IInv'
<1> DEFINE size(f) == IF known THEN Size(f) ELSE 0
<1>1. TypeOK /\ statusMode = "none" /\ initializing
  BY DEF IInv, PageOK, startGame
<1>2. \A f \in File : /\ loads'[f] \in FileType /\ loads'[f].loaded = 0
                      /\ loads'[f].total = size(f) /\ loads'[f].stage = "fetching"
  <2>1. DOWNLOAD_ATTEMPTS_MAX \in 1..DOWNLOAD_ATTEMPTS_MAX
    OBVIOUS
  <2>2. \A f \in File : size(f) \in Nat /\ loads'[f] = Request(size(f), DOWNLOAD_ATTEMPTS_MAX)
    BY DEF startGame
  <2> QED  BY <2>1, <2>2, RequestType
<1>3. loads' \in [File -> FileType]
  BY <1>2 DEF startGame
<1>4. TypeOK'
  BY <1>1, <1>3 DEF startGame, TypeOK, setStatusMode
<1>5. \A f \in File : loads[f].stage = "idle" /\ loads[f].loaded = 0
  BY <1>1 DEF IInv, PageOK, LoadOK
<1>6. (\A f \in File : LoadOK(f)') /\ SizesOK' /\ BarOK'
  BY <1>2, <1>5 DEF IInv, startGame, LoadOK, SizesOK, BarOK, Loaded
<1>7. FilesOK'
  BY DEF IInv, startGame, FilesOK, StartsComplete
<1>8. PageOK'
  BY <1>1, <1>2, <1>5 DEF IInv, startGame, PageOK, setStatusMode
<1> QED  BY <1>4, <1>6, <1>7, <1>8 DEF IInv

(* A frame shows what has come. *)
LEMMA FrameFacts ==
  ASSUME IInv, animateProgress
  PROVE  /\ lastProgress' = [loaded |-> Loaded, total |-> Total]
         /\ Loaded \in Nat /\ Total \in {0, ProgramSize + PackSize}
         /\ lastProgress.loaded <= Loaded
<1>1. TypeOK /\ SizesOK /\ BarOK
  BY DEF IInv
<1>2. Loaded \in Nat
  BY <1>1, LoadsType DEF Loaded
<1>3. Total \in {0, ProgramSize + PackSize}
  BY <1>1 DEF SizesOK, Total
<1> QED  BY <1>1, <1>2, <1>3 DEF animateProgress, BarOK

LEMMA animateProgressStep ==
  ASSUME IInv, animateProgress
  PROVE  IInv'
<1>1. TypeOK'
  <2>1. lastProgress' \in [loaded : Nat, total : Nat]
    BY FrameFacts
  <2> QED  BY <2>1 DEF IInv, animateProgress, TypeOK
<1>2. (\A f \in File : LoadOK(f)') /\ SizesOK' /\ FilesOK' /\ PageOK'
  BY DEF IInv, animateProgress, LoadOK, SizesOK, FilesOK, PageOK, StartsComplete
<1>3. Loaded' = Loaded
  BY DEF animateProgress, Loaded
<1>4. BarOK'
  BY <1>3, FrameFacts DEF BarOK
<1> QED  BY <1>1, <1>2, <1>4 DEF IInv

LEMMA EngineStep ==
  ASSUME IInv, Instantiate \/ InitFS
  PROVE  IInv'
<1>1. CASE Instantiate
  <2>1. loads["wasm"].loaded = ProgramSize
    BY <1>1 DEF IInv, LoadOK, Instantiate
  <2>2. TypeOK'
    BY <1>1, <2>1 DEF IInv, Instantiate, TypeOK
  <2>3. (\A f \in File : LoadOK(f)') /\ SizesOK' /\ BarOK' /\ PageOK'
    BY <1>1 DEF IInv, Instantiate, LoadOK, SizesOK, BarOK, Loaded, PageOK
  <2>4. FilesOK'
    BY <1>1, <2>1 DEF IInv, Instantiate, FilesOK, StartsComplete
  <2> QED  BY <2>2, <2>3, <2>4 DEF IInv
<1>2. CASE InitFS
  <2>1. TypeOK'
    BY <1>2 DEF IInv, InitFS, TypeOK
  <2>2. (\A f \in File : LoadOK(f)') /\ SizesOK' /\ BarOK' /\ PageOK'
    BY <1>2 DEF IInv, InitFS, LoadOK, SizesOK, BarOK, Loaded, PageOK
  <2>3. FilesOK'
    BY <1>2 DEF IInv, InitFS, FilesOK, StartsComplete
  <2> QED  BY <2>1, <2>2, <2>3 DEF IInv
<1> QED  BY <1>1, <1>2

LEMMA startStep ==
  ASSUME IInv, start
  PROVE  IInv'
<1> USE DEF displayFailureNotice, setStatusMode
<1>1. /\ init = "ready" /\ preloaded = PackSize /\ program = ProgramSize
      /\ initializing /\ statusMode \in {"none", "progress"}
      /\ loads["pck"].stage = "closed" /\ preloaded' = 0
      /\ UNCHANGED <<loads, animating, lastProgress, program>>
  BY DEF IInv, FilesOK, PageOK, start
<1>2. /\ statusMode' \in {"hidden", "notice"} /\ initializing' = FALSE
      /\ \/ main' = [runs |-> TRUE, program |-> program, pack |-> preloaded]
            /\ init' = "none" /\ statusMode' = "hidden"
         \/ main' = main /\ init' = init
  BY <1>1 DEF start
<1>3. main' \in [runs : BOOLEAN, program : Nat, pack : Nat]
  <2>1. CASE main' = main
    BY <2>1 DEF IInv, TypeOK
  <2>2. CASE main' = [runs |-> TRUE, program |-> program, pack |-> preloaded]
    BY <1>1, <2>2
  <2> QED  BY <1>2, <2>1, <2>2
<1>4. TypeOK'
  BY <1>1, <1>2, <1>3 DEF IInv, TypeOK
<1>5. (\A f \in File : LoadOK(f)') /\ SizesOK' /\ BarOK'
  BY <1>1 DEF IInv, LoadOK, SizesOK, BarOK, Loaded
<1>6. FilesOK'
  BY <1>1, <1>2 DEF IInv, FilesOK, StartsComplete
<1>7. ~main.runs
  BY <1>1 DEF IInv, PageOK
<1>8. PageOK'
  BY <1>1, <1>2, <1>7 DEF PageOK
<1> QED  BY <1>4, <1>5, <1>6, <1>8 DEF IInv

-----------------------------------------------------------------------------
(* The theorems. *)

LEMMA StepIInv ==
  ASSUME IInv, [Next]_vars
  PROVE  IInv'
<1>1. CASE UNCHANGED vars
  BY <1>1 DEF vars, IInv, TypeOK, LoadOK, SizesOK, BarOK, Loaded, FilesOK, PageOK, StartsComplete
<1>2. CASE Next
  <2> HIDE DEF File, Size
  <2> QED  BY <1>2, RespondStep, RequestFailsStep, RetryStep, ReadChunkStep, ReadEndStep,
              ReadBreaksStep, MissingFeaturesStep, startGameStep, animateProgressStep,
              EngineStep, startStep DEF Next, Download
<1> QED  BY <1>1, <1>2

LEMMA Invariance == Spec => []IInv
  BY InitIInv, StepIInv, PTL DEF Spec

(* The variables of EngineLoader keep their types, and a file is asked for at most
   DOWNLOAD_ATTEMPTS_MAX times: TypeOK of the run EngineLoader_all. *)
THEOREM TypeCorrect == Spec => []TypeOK
<1>1. IInv => TypeOK
  BY DEF IInv
<1> QED  BY <1>1, Invariance, PTL

(* A game that runs has the whole of its two files (startGame of index.js). *)
THEOREM GameStartsComplete == Spec => []StartsComplete
<1>1. IInv => StartsComplete
  BY DEF IInv, FilesOK
<1> QED  BY <1>1, Invariance, PTL

(* A bar that is full tells that every chunk has come (animateProgress). *)
THEOREM ProgressIsHonest == Spec => []ProgressHonest
<1>1. ASSUME IInv
      PROVE  ProgressHonest
  <2>1. /\ loads["wasm"].loaded \in 0..ProgramSize /\ loads["pck"].loaded \in 0..PackSize
        /\ lastProgress.loaded \in Nat /\ lastProgress.total \in {0, ProgramSize + PackSize}
        /\ lastProgress.loaded <= loads["wasm"].loaded + loads["pck"].loaded
    BY <1>1, LoadsType DEF IInv, LoadOK, BarOK, Loaded, TypeOK
  <2> QED  BY <2>1 DEF ProgressHonest
<1> QED  BY <1>1, Invariance, PTL

(* Behind a notice no game runs (startGame of index.js). *)
THEOREM NoticeFinal == Spec => []NoticeIsFinal
<1>1. IInv => NoticeIsFinal
  BY DEF IInv, PageOK, NoticeIsFinal
<1> QED  BY <1>1, Invariance, PTL

(* The bar never falls back, whatever is tried again (animateProgress). *)
THEOREM ProgressRises == Spec => ProgressNeverFalls
<1>1. ASSUME IInv, [Next]_vars
      PROVE  [lastProgress'.loaded >= lastProgress.loaded]_vars
  <2>1. CASE animateProgress
    BY <1>1, <2>1, FrameFacts DEF IInv, TypeOK
  <2>2. CASE lastProgress' = lastProgress
    BY <1>1, <2>2 DEF IInv, TypeOK
  <2>3. animateProgress \/ lastProgress' = lastProgress
    BY <1>1 DEF Next, vars, Download, Respond, RequestFails, Retry, ReadChunk, ReadEnd, ReadBreaks,
                MissingFeatures, startGame, Instantiate, InitFS, start
  <2> QED  BY <2>1, <2>2, <2>3
<1> QED  BY <1>1, Invariance, PTL DEF Spec, ProgressNeverFalls

-----------------------------------------------------------------------------
(* What LoadingEnds needs besides fairness.                                *)

\* Something goes on that the page waits for: a download, or a step of the engine.
Driven ==
  \/ \E f \in File : loads[f].stage \in {"fetching", "waiting", "reading"}
  \/ init = "compiling" /\ loads["wasm"].stage = "closed"
  \/ init = "initFS"
  \/ init = "ready" /\ preloaded # 0

\* An upper bound of how many more steps a download can take, and the engine.
StepsLeft(f) ==
  IF loads[f].stage = "fetching" THEN 2 * loads[f].attempts + Size(f) + 2
  ELSE IF loads[f].stage = "waiting" THEN 2 * loads[f].attempts + Size(f) + 1
  ELSE IF loads[f].stage = "reading" THEN Size(f) - loads[f].loaded + 2
  ELSE 0

EngineLeft ==
  (IF init \in {"loading", "compiling"} THEN 2 ELSE IF init = "initFS" THEN 1 ELSE 0)
  + (IF preloaded # 0 THEN 1 ELSE 0)

Work == StepsLeft("wasm") + StepsLeft("pck") + EngineLeft

\* While the bar is shown something goes on, unless the page does not learn of a failure;
\* and every step but a frame, which changes nothing there is to do, leaves less to do.
LoadingIsDriven ==
  /\ [](statusMode = "progress" => Unnoticed \/ Driven)
  /\ [](Work \in Nat)
  /\ [][statusMode # "none" => IF animateProgress THEN Work' = Work ELSE Work' < Work]_vars

\* The engine waits for the program until it comes; while the bar is shown both downloads
\* have begun, the pack that has come is kept, and the engine has been given the program.
DriveOK ==
  /\ loads["wasm"].stage \in {"fetching", "waiting"} => init = "loading"
  /\ statusMode = "progress" =>
       /\ loads["pck"].stage \notin {"idle", "failed"}
       /\ loads["wasm"].stage # "idle"
       /\ loads["pck"].stage = "closed" => preloaded # 0
       /\ loads["wasm"].stage \in {"reading", "broken", "closed"} =>
            init \in {"compiling", "refused", "initFS", "ready"}

(* A step on one download keeps DriveOK. *)
LEMMA DownloadDrives ==
  ASSUME IInv, DriveOK, NEW f \in File, Download(f)
  PROVE  DriveOK'
<1>1. TypeOK /\ PageOK /\ LoadOK(f) /\ loads \in [File -> FileType]
  BY DEF IInv, TypeOK
<1>2. \A g \in File \ {f} : loads'[g] = loads[g]
  BY <1>1 DEF Download, Respond, RequestFails, Retry, ReadChunk, ReadEnd, ReadBreaks
<1>3. CASE Respond(f)
  <2>1. loads'[f].stage = "reading"
    BY <1>1, <1>3 DEF Respond, FileType
  <2> QED  BY <1>2, <1>3, <2>1 DEF Respond, DriveOK
<1>4. CASE RequestFails(f)
  <2>1. loads'[f].stage = IF loads[f].attempts <= 1 THEN "failed" ELSE "waiting"
    BY <1>1, <1>4 DEF RequestFails, FileType
  <2> QED
    BY <1>1, <1>2, <1>4, <2>1 DEF RequestFails, DriveOK, displayFailureNotice, setStatusMode, PageOK
<1>5. CASE Retry(f)
  <2>1. loads'[f].stage = "fetching"
    BY <1>1, <1>5 DEF Retry, Request
  <2> QED  BY <1>2, <1>5, <2>1 DEF Retry, DriveOK
<1>6. CASE ReadChunk(f)
  <2>1. loads'[f].stage = "reading"
    BY <1>1, <1>6 DEF ReadChunk, FileType
  <2> QED  BY <1>2, <1>6, <2>1 DEF ReadChunk, DriveOK
<1>7. CASE ReadEnd(f)
  <2>1. loads'[f].stage = "closed" /\ loads[f].loaded # 0
    BY <1>1, <1>7 DEF ReadEnd, FileType
  <2> QED  BY <1>2, <1>7, <2>1 DEF ReadEnd, DriveOK
<1>8. CASE ReadBreaks(f)
  <2>1. loads'[f].stage = "broken"
    BY <1>1, <1>8 DEF ReadBreaks, FileType
  <2> QED  BY <1>2, <1>8, <2>1 DEF ReadBreaks, DriveOK
<1> QED  BY <1>3, <1>4, <1>5, <1>6, <1>7, <1>8 DEF Download

(* So does every other step. *)
LEMMA StepDrives ==
  ASSUME IInv, DriveOK, [Next]_vars
  PROVE  DriveOK'
<1>1. ASSUME NEW known \in BOOLEAN, startGame(known) PROVE DriveOK'
  <2>1. \A f \in File : loads'[f].stage = "fetching"
    BY <1>1 DEF startGame, Request
  <2> QED  BY <1>1, <2>1 DEF DriveOK, startGame
<1>2. CASE MissingFeatures
  BY <1>2 DEF MissingFeatures, DriveOK, displayFailureNotice, setStatusMode, IInv, PageOK
<1>3. CASE animateProgress \/ UNCHANGED vars
  BY <1>3 DEF animateProgress, vars, DriveOK
<1>4. CASE Instantiate \/ InitFS
  BY <1>4 DEF Instantiate, InitFS, DriveOK
<1>5. CASE start
  <2>1. statusMode' # "progress"
    BY <1>5 DEF start, displayFailureNotice, setStatusMode, IInv, PageOK
  <2> QED  BY <1>5, <2>1 DEF DriveOK, start
<1> QED  BY <1>1, <1>2, <1>3, <1>4, <1>5, DownloadDrives DEF Next

(* The work that is left is a number. *)
LEMMA WorkType ==
  ASSUME IInv
  PROVE  /\ \A f \in File : StepsLeft(f) \in Nat
         /\ EngineLeft \in Nat
         /\ Work \in Nat
<1>1. \A f \in File : StepsLeft(f) \in Nat
  <2> SUFFICES ASSUME NEW f \in File PROVE StepsLeft(f) \in Nat
    OBVIOUS
  <2>1. loads[f].loaded \in 0..Size(f) /\ loads[f].attempts \in Nat /\ Size(f) \in Nat
    BY LoadsType DEF IInv, LoadOK
  <2> HIDE DEF Size
  <2> QED  BY <2>1 DEF StepsLeft
<1>2. EngineLeft \in Nat
  BY DEF EngineLeft
<1> QED  BY <1>1, <1>2 DEF Work

(* A step of one download leaves less to do. *)
LEMMA DownloadWorks ==
  ASSUME IInv, DriveOK, NEW f \in File, Download(f)
  PROVE  Work' < Work
<1>1. /\ loads \in [File -> FileType] /\ loads[f] \in FileType
      /\ loads[f].loaded \in 0..Size(f) /\ loads[f].attempts \in Nat \ {0} /\ Size(f) \in Nat
      /\ loads[f].stage = "waiting" => loads[f].attempts > 1
  BY LoadsType DEF IInv, TypeOK, LoadOK
<1>2. \A g \in File \ {f} : loads'[g] = loads[g]
  BY <1>1 DEF Download, Respond, RequestFails, Retry, ReadChunk, ReadEnd, ReadBreaks
<1>3. \A g \in File \ {f} : StepsLeft(g)' = StepsLeft(g)
  BY <1>2 DEF StepsLeft
<1>4. \/ EngineLeft' <= EngineLeft /\ StepsLeft(f)' < StepsLeft(f)
      \/ EngineLeft' <= EngineLeft + 1 /\ StepsLeft(f)' + 1 < StepsLeft(f)
  <2>1. CASE Respond(f)
    <3>1. /\ loads[f].stage = "fetching"
          /\ loads'[f].stage = "reading" /\ loads'[f].loaded = loads[f].loaded
      BY <1>1, <2>1 DEF Respond, FileType
    <3>2. StepsLeft(f)' < StepsLeft(f)
      <4> HIDE DEF Size
      <4> QED  BY <1>1, <3>1 DEF StepsLeft
    <3>3. EngineLeft' <= EngineLeft
      BY <2>1 DEF Respond, EngineLeft, DriveOK
    <3> QED  BY <3>2, <3>3
  <2>2. CASE RequestFails(f)
    <3>1. /\ loads'[f].stage \in {"failed", "waiting"} /\ loads'[f].attempts = loads[f].attempts
      BY <1>1, <2>2 DEF RequestFails, FileType
    <3>2. StepsLeft(f)' < StepsLeft(f)
      <4> HIDE DEF Size
      <4> QED  BY <1>1, <2>2, <3>1 DEF RequestFails, StepsLeft
    <3>3. EngineLeft' <= EngineLeft
      BY <2>2 DEF RequestFails, EngineLeft
    <3> QED  BY <3>2, <3>3
  <2>3. CASE Retry(f)
    <3>1. loads'[f].stage = "fetching" /\ loads'[f].attempts = loads[f].attempts - 1
      BY <1>1, <2>3 DEF Retry, Request
    <3>2. StepsLeft(f)' < StepsLeft(f)
      <4> HIDE DEF Size
      <4> QED  BY <1>1, <2>3, <3>1 DEF Retry, StepsLeft
    <3>3. EngineLeft' <= EngineLeft
      BY <2>3 DEF Retry, EngineLeft
    <3> QED  BY <3>2, <3>3
  <2>4. CASE ReadChunk(f)
    <3>1. loads'[f].stage = "reading" /\ loads'[f].loaded = loads[f].loaded + 1
      BY <1>1, <2>4 DEF ReadChunk, FileType
    <3>2. StepsLeft(f)' < StepsLeft(f)
      <4> HIDE DEF Size
      <4> QED  BY <1>1, <2>4, <3>1 DEF ReadChunk, StepsLeft
    <3>3. EngineLeft' <= EngineLeft
      BY <2>4 DEF ReadChunk, EngineLeft
    <3> QED  BY <3>2, <3>3
  <2>5. CASE ReadEnd(f)
    <3>1. loads'[f].stage = "closed"
      BY <1>1, <2>5 DEF ReadEnd, FileType
    <3>2. StepsLeft(f)' + 1 < StepsLeft(f)
      <4> HIDE DEF Size
      <4> QED  BY <1>1, <2>5, <3>1 DEF ReadEnd, StepsLeft
    <3>3. EngineLeft' <= EngineLeft + 1
      BY <2>5 DEF ReadEnd, EngineLeft
    <3> QED  BY <3>2, <3>3
  <2>6. CASE ReadBreaks(f)
    <3>1. loads'[f].stage = "broken"
      BY <1>1, <2>6 DEF ReadBreaks, FileType
    <3>2. StepsLeft(f)' < StepsLeft(f)
      <4> HIDE DEF Size
      <4> QED  BY <1>1, <2>6, <3>1 DEF ReadBreaks, StepsLeft
    <3>3. EngineLeft' <= EngineLeft
      BY <2>6 DEF ReadBreaks, EngineLeft
    <3> QED  BY <3>2, <3>3
  <2> QED  BY <2>1, <2>2, <2>3, <2>4, <2>5, <2>6 DEF Download
<1>5. \A g \in File : StepsLeft(g) \in Nat /\ StepsLeft(g)' \in Int
  <2>1. StepsLeft(f)' \in Int
    <3>1. IInv'
      <4>1. [Next]_vars
        <5> HIDE DEF File, Size
        <5> QED  BY DEF Next
      <4> QED  BY <4>1, StepIInv
    <3>2. /\ loads'[f].loaded \in Nat /\ loads'[f].attempts \in Nat /\ Size(f) \in Nat
      BY <3>1 DEF IInv, TypeOK, FileType
    <3> HIDE DEF Size
    <3> QED  BY <3>2 DEF StepsLeft
  <2> QED  BY <1>3, <2>1, WorkType
<1>6. EngineLeft \in Nat /\ EngineLeft' \in Nat
  BY DEF EngineLeft
<1> QED
  <2>1. f = "wasm" \/ f = "pck"
    OBVIOUS
  <2> HIDE DEF File
  <2>2. "wasm" \in File /\ "pck" \in File
    BY DEF File
  <2> QED  BY <1>3, <1>4, <1>5, <1>6, <2>1, <2>2 DEF Work

(* While the bar is shown there is something to wait for that the page will learn
   of, unless a failure goes unnoticed, and what is left to do runs out: with the
   fairness of FairSpec, loading comes to an end. *)
THEOREM LoadingDriven == Spec => LoadingIsDriven
<1>1. Init => DriveOK
  BY DEF Init, DriveOK, Request
<1>2. IInv /\ DriveOK => (statusMode = "progress" => Unnoticed \/ Driven)
  <2> SUFFICES ASSUME IInv, DriveOK, statusMode = "progress", ~Unnoticed, ~Driven PROVE FALSE
    OBVIOUS
  <2>1. loads["pck"] \in FileType /\ loads["wasm"] \in FileType
    BY LoadsType DEF IInv
  <2>2. loads["pck"].stage = "closed" /\ loads["wasm"].stage = "closed"
    BY <2>1 DEF DriveOK, Unnoticed, Driven, FileType
  <2> QED  BY <2>2 DEF DriveOK, Unnoticed, Driven
<1>3. IInv => Work \in Nat
  BY WorkType
<1>4. ASSUME IInv, DriveOK, Next, statusMode # "none", ~animateProgress
      PROVE  Work' < Work
  <2>1. ASSUME NEW f \in File, Download(f) PROVE Work' < Work
    BY <1>4, <2>1, DownloadWorks
  <2>2. CASE Instantiate \/ InitFS \/ start
    <3>1. UNCHANGED loads
      BY <2>2 DEF Instantiate, InitFS, start
    <3>2. StepsLeft("wasm")' = StepsLeft("wasm") /\ StepsLeft("pck")' = StepsLeft("pck")
      BY <3>1 DEF StepsLeft
    <3>3. EngineLeft' < EngineLeft
      BY <2>2 DEF Instantiate, InitFS, start, EngineLeft
    <3>4. StepsLeft("wasm") \in Nat /\ StepsLeft("pck") \in Nat /\ EngineLeft' \in Nat
          /\ EngineLeft \in Nat
      BY <1>4, WorkType DEF EngineLeft
    <3> QED  BY <3>2, <3>3, <3>4 DEF Work
  <2>3. ~MissingFeatures /\ \A known \in BOOLEAN : ~startGame(known)
    BY <1>4 DEF MissingFeatures, startGame
  <2> QED  BY <1>4, <2>1, <2>2, <2>3 DEF Next
<1>5. ASSUME animateProgress PROVE Work' = Work
  BY <1>5 DEF animateProgress, Work, StepsLeft, EngineLeft
<1>6. IInv /\ DriveOK /\ [Next]_vars =>
        [statusMode # "none" => IF animateProgress THEN Work' = Work ELSE Work' < Work]_vars
  BY <1>4, <1>5
<1> QED
  BY <1>1, <1>2, <1>3, <1>6, StepDrives, Invariance, PTL DEF Spec, LoadingIsDriven
=============================================================================
