------------------------------ MODULE OcrBatch ------------------------------
(***************************************************************************)
(* OCR calls of one app process that share the predictor cache:            *)
(* LocalStageDispatcher.run_ocr_batch, which retries with smaller batches  *)
(* when the device runs out of memory, and the single-page "ocr" stage.    *)
(*                                                                         *)
(* Who moves.  A call starts on the event loop; OCR itself runs in the     *)
(* default executor, many calls at a time.  The first cache access of a    *)
(* batch is made on the loop, every other one in an executor thread, and   *)
(* nothing guards the cache: a lookup, a build and a store are three steps.*)
(*                                                                         *)
(* Data.  A predictor is the batch sizes it was built with, the key it was *)
(* built for and the call that built it; an image and its page are their   *)
(* position in the batch.  Free memory counts pages: it is what            *)
(* _cuda_free_bytes() returns divided by _VRAM_PER_PAGE_BYTES.             *)
(***************************************************************************)
EXTENDS Devices

CONSTANTS
  Batches,     \* calls of run_ocr_batch()
  Pages,       \* calls of the finetuned single-page stage
  Widths,      \* numbers of images a batch may have
  FreeLevels   \* amounts of free device memory that a probe may find

ASSUME CallsAssumption == Batches \cap Pages = {}
ASSUME WidthsAssumption == Widths \subseteq Nat
ASSUME FreeAssumption == FreeLevels \subseteq Nat \cup {None} /\ None \notin Nat

(***************************************************************************)
(* Definitions named Wrong... are plausible mistakes in the definition     *)
(* that follows them.  Nothing uses them.                                  *)
(***************************************************************************)

VARIABLES
  cache,  \* _predictor_cache: predictor stored under each key
  built,  \* every predictor built so far
  pc,     \* where each call stands
  req,    \* whether it is sized for the cpu, and its number of images
  size,   \* its batch sizes: det_bs and reco_bs of run_doctr_batch
  key,    \* the cache key it is after
  pred,   \* its current predictor
  tries,  \* how many predictors it has run
  pages   \* the pages it has produced

vars == <<cache, built, pc, req, size, key, pred, tries, pages>>

Calls == Batches \cup Pages

DetCeiling == 8
RecoFloor == 128
RecoCeiling == 512
CropsPerPage == 48

\* What the builder uses when it is given no sizes.
DefaultSize == [det |-> 2, reco |-> 128]

\* The ceiling is left out.
WrongPickSizes(cpu, free, images) ==
  IF cpu THEN [det |-> 1, reco |-> 128]
  ELSE IF free = None THEN DefaultSize
  ELSE [det |-> Max({1, free}),
        reco |-> Min({RecoCeiling, Max({RecoFloor, images * CropsPerPage})})]

\* pick_doctr_batch_sizes() on a device whose probe answers free; every device
\* that is not "cpu", a name nobody knows included, is sized as a GPU.
PickSizes(cpu, free, images) ==
  IF cpu THEN [det |-> 1, reco |-> 128]
  ELSE IF free = None THEN DefaultSize
  ELSE [det |-> Max({1, Min({DetCeiling, free})}),
        reco |-> Min({RecoCeiling, Max({RecoFloor, images * CropsPerPage})})]

\* The loop does not serve other coroutines while a batch gets its first predictor.
LoopFree == \A b \in Batches : pc[b] \in {"lookup", "build", "store"} => tries[b] > 0

-----------------------------------------------------------------------------
(***************************************************************************)
(* The start of a call, on the event loop.                                 *)
(***************************************************************************)

Start(c, device, images) ==
  /\ pc[c] = "idle" /\ LoopFree
  /\ req' = [req EXCEPT ![c] = [cpu |-> device = "cpu", images |-> images]]
  /\ \E free \in FreeLevels : key' = [key EXCEPT ![c] = PickSizes(device = "cpu", free, images)]
  /\ pc' = [pc EXCEPT ![c] = "lookup"]
  /\ UNCHANGED <<cache, built, size, pred, tries, pages>>

StartBatch(b) ==
  \E device \in ExecutionDevices \ {Invalid}, images \in Widths : Start(b, device, images)

StartPage(p) ==
  \E device \in ExecutionDevices \ {Invalid} : StageImpl(device) = "finetuned" /\ Start(p, device, 1)

\* The environment names an invalid device.
NoDevice(c) ==
  /\ pc[c] = "idle" /\ LoopFree
  /\ Invalid \in ExecutionDevices
  /\ pc' = [pc EXCEPT ![c] = "failed"]
  /\ UNCHANGED <<cache, built, req, size, key, pred, tries, pages>>

\* The page of a single image, or none: {"pages": []}.
OfOneImage == {<<1>>, <<>>}

\* The page stage without the cache: Tesseract, which always gives a page, or DocTR
\* with stock weights, taken on the cpu and when the finetuned models cannot be resolved.
StockStage(p) ==
  /\ pc[p] = "idle" /\ LoopFree
  /\ req' = [req EXCEPT ![p].images = 1]
  /\ \E found \in OfOneImage : pages' = [pages EXCEPT ![p] = found]
  /\ pc' = [pc EXCEPT ![p] = "done"]
  /\ UNCHANGED <<cache, built, size, key, pred, tries>>

\* It fails: the engine is not installed or the image cannot be read.
StockStageFails(p) ==
  /\ pc[p] = "idle" /\ LoopFree
  /\ pc' = [pc EXCEPT ![p] = "failed"]
  /\ UNCHANGED <<cache, built, req, size, key, pred, tries, pages>>

-----------------------------------------------------------------------------
(***************************************************************************)
(* Getting a predictor: look up, else build and store.                     *)
(***************************************************************************)

\* A page and a retry run their predictor at once; a new batch goes to the executor.
AfterPredictor(c) == IF c \in Batches /\ tries[c] = 0 THEN "queued" ELSE "run"

CacheHit(c) ==
  /\ pc[c] = "lookup"
  /\ key[c] \in DOMAIN cache
  /\ pred' = [pred EXCEPT ![c] = cache[key[c]]]
  /\ pc' = [pc EXCEPT ![c] = AfterPredictor(c)]
  /\ UNCHANGED <<cache, built, req, size, key, tries, pages>>

CacheMiss(c) ==
  /\ pc[c] = "lookup"
  /\ key[c] \notin DOMAIN cache
  /\ pc' = [pc EXCEPT ![c] = "build"]
  /\ UNCHANGED <<cache, built, req, size, key, pred, tries, pages>>

\* Batches do not pass their sizes on either.
WrongBuiltSize(c) == DefaultSize

\* The page stage does not pass its sizes on to the builder.
BuiltSize(c) == IF c \in Batches THEN key[c] ELSE DefaultSize

Build(c) ==
  /\ pc[c] = "build"
  /\ pred' = [pred EXCEPT ![c] = [size |-> BuiltSize(c), key |-> key[c], by |-> c]]
  /\ built' = built \cup {pred'[c]}
  /\ pc' = [pc EXCEPT ![c] = "store"]
  /\ UNCHANGED <<cache, req, size, key, tries, pages>>

\* The model files cannot be resolved (a page falls back before it gets here),
\* or the builder raises, out of memory included: the call fails.
NoPredictor(c) ==
  /\ pc[c] = "build" \/ (pc[c] = "lookup" /\ c \in Batches)
  /\ pc' = [pc EXCEPT ![c] = "failed"]
  /\ UNCHANGED <<cache, built, req, size, key, pred, tries, pages>>

Store(c) ==
  /\ pc[c] = "store"
  /\ cache' = [k \in DOMAIN cache \cup {key[c]} |-> IF k = key[c] THEN pred[c] ELSE cache[k]]
  /\ pc' = [pc EXCEPT ![c] = AfterPredictor(c)]
  /\ UNCHANGED <<built, req, size, key, pred, tries, pages>>

-----------------------------------------------------------------------------
(***************************************************************************)
(* run_doctr_batch() in an executor thread: decode, size a second time,    *)
(* then run until it works, fails or is down to one page at a time.        *)
(***************************************************************************)

Dequeue(b) ==
  /\ pc[b] = "queued"
  /\ \E free \in FreeLevels :
       size' = [size EXCEPT ![b] = PickSizes(req[b].cpu, free, req[b].images)]
  /\ pc' = [pc EXCEPT ![b] = "run"]
  /\ UNCHANGED <<cache, built, req, key, pred, tries, pages>>

UndecodableImage(b) ==
  /\ pc[b] = "queued"
  /\ pc' = [pc EXCEPT ![b] = "failed"]
  /\ UNCHANGED <<cache, built, req, size, key, pred, tries, pages>>

\* Runs are counted up to one more than there should be.
MaxTries == 4

Run(c) == pc[c] = "run" /\ tries' = [tries EXCEPT ![c] = Min({MaxTries + 1, @ + 1})]

\* What a predictor that works gives: one page per image in a batch.
Recognized(c) == IF c \in Batches THEN {[i \in 1 .. req[c].images |-> i]} ELSE OfOneImage

RunOk(c) ==
  /\ Run(c)
  /\ \E found \in Recognized(c) : pages' = [pages EXCEPT ![c] = found]
  /\ pc' = [pc EXCEPT ![c] = "done"]
  /\ UNCHANGED <<cache, built, req, size, key, pred>>

\* Any other exception, and out of memory in the page stage, which has no backoff.
RunError(c) ==
  /\ Run(c)
  /\ pc' = [pc EXCEPT ![c] = "failed"]
  /\ UNCHANGED <<cache, built, req, size, key, pred, pages>>

\* The batch shrinks by one page at a time, or not at all.
WrongHalved(s) == [s EXCEPT !.det = Max({1, @ - 1})]
SameHalved(s) == s
Halved(s) == [s EXCEPT !.det = Max({1, @ \div 2})]

\* The entry that did not fit is dropped from the cache.
WrongRunOom(b) ==
  /\ Run(b)
  /\ size[b].det > 1
  /\ size' = [size EXCEPT ![b] = Halved(@)]
  /\ key' = [key EXCEPT ![b] = size'[b]]
  /\ cache' = [k \in DOMAIN cache \ {key[b]} |-> cache[k]]
  /\ pc' = [pc EXCEPT ![b] = "lookup"]
  /\ UNCHANGED <<built, req, pred, pages>>

\* Out of memory above one page per batch: build_smaller(det_bs, reco_bs).
RunOom(b) ==
  /\ Run(b)
  /\ size[b].det > 1
  /\ size' = [size EXCEPT ![b] = Halved(@)]
  /\ key' = [key EXCEPT ![b] = size'[b]]
  /\ pc' = [pc EXCEPT ![b] = "lookup"]
  /\ UNCHANGED <<cache, built, req, pred, pages>>

RunOomAtFloor(b) ==
  /\ Run(b)
  /\ size[b].det <= 1
  /\ pc' = [pc EXCEPT ![b] = "cpu"]
  /\ UNCHANGED <<cache, built, req, size, key, pred, pages>>

\* The last image is forgotten.
WrongCpuDone(b) == Len(pages[b]) + 1 >= req[b].images

CpuDone(b) == Len(pages[b]) = req[b].images

CpuPage(b) ==
  /\ pc[b] = "cpu" /\ ~CpuDone(b)
  /\ pages' = [pages EXCEPT ![b] = Append(@, Len(@) + 1)]
  /\ UNCHANGED <<cache, built, pc, req, size, key, pred, tries>>

CpuEnd(b) ==
  /\ pc[b] = "cpu" /\ CpuDone(b)
  /\ pc' = [pc EXCEPT ![b] = "done"]
  /\ UNCHANGED <<cache, built, req, size, key, pred, tries, pages>>

\* One image that yields no page fails the whole batch.
CpuError(b) ==
  /\ pc[b] = "cpu" /\ ~CpuDone(b)
  /\ pc' = [pc EXCEPT ![b] = "failed"]
  /\ UNCHANGED <<cache, built, req, size, key, pred, tries, pages>>

-----------------------------------------------------------------------------
Init ==
  /\ cache = [k \in {} |-> None]
  /\ built = {}
  /\ pc = [c \in Calls |-> "idle"]
  /\ req = [c \in Calls |-> [cpu |-> TRUE, images |-> 0]]
  /\ size = [c \in Calls |-> DefaultSize]
  /\ key = [c \in Calls |-> DefaultSize]
  /\ pred = [c \in Calls |-> None]
  /\ tries = [c \in Calls |-> 0]
  /\ pages = [c \in Calls |-> <<>>]

GetPredictor(c) == CacheHit(c) \/ CacheMiss(c) \/ Build(c) \/ NoPredictor(c) \/ Store(c)
Backoff(b) ==
  \/ Dequeue(b) \/ UndecodableImage(b) \/ RunOom(b) \/ RunOomAtFloor(b)
  \/ CpuPage(b) \/ CpuEnd(b) \/ CpuError(b)

Next ==
  \/ \E b \in Batches : StartBatch(b) \/ Backoff(b)
  \/ \E p \in Pages : StartPage(p) \/ StockStage(p) \/ StockStageFails(p)
  \/ \E c \in Calls : NoDevice(c) \/ GetPredictor(c) \/ RunOk(c) \/ RunError(c)

Spec == Init /\ [][Next]_vars

(***************************************************************************)
(* Fairness: the executor runs what it was given, so a call that started   *)
(* goes on.  Nobody has to start one.                                      *)
(***************************************************************************)
Fairness ==
  \A c \in Calls :
    WF_vars(GetPredictor(c) \/ RunOk(c) \/ RunError(c) \/ (c \in Batches /\ Backoff(c)))

FairSpec == Spec /\ Fairness

-----------------------------------------------------------------------------
(***************************************************************************)
(* Properties.                                                             *)
(***************************************************************************)

Sizes == [det : 1 .. DetCeiling, reco : Nat]
Predictors == [size : Sizes, key : Sizes, by : Calls]

(***************************************************************************)
(* What each variable may hold; det_bs stays within 1 .. 8.                *)
(***************************************************************************)
TypeOK ==
  /\ DOMAIN cache \subseteq Sizes /\ cache \in [DOMAIN cache -> built]
  /\ built \subseteq Predictors
  /\ pc \in [Calls -> {"idle", "lookup", "build", "store", "queued", "run", "cpu", "done", "failed"}]
  /\ req \in [Calls -> [cpu : BOOLEAN, images : Nat]]
  /\ size \in [Calls -> Sizes]
  /\ key \in [Calls -> Sizes]
  /\ pred \in [Calls -> built \cup {None}]
  /\ tries \in [Calls -> Nat]
  /\ pages \in [Calls -> Seq(Nat)]

(***************************************************************************)
(* However often a batch runs out of memory it runs at most four           *)
(* predictors: det_bs starts at 8 or less, is halved, and 1 is the floor.  *)
(***************************************************************************)
BackoffBounded == \A c \in Calls : tries[c] <= MaxTries

(***************************************************************************)
(* A batch that returns has one page per image, in the order of the        *)
(* images, through whichever way it got them.  A page call has the page of *)
(* its image, unless DocTR found none.                                     *)
(***************************************************************************)
OnePagePerImage ==
  \A c \in Calls : pc[c] = "done" =>
    \/ pages[c] = [i \in 1 .. req[c].images |-> i]
    \/ c \in Pages /\ pages[c] = <<>>

(***************************************************************************)
(* No call pays twice for the same predictor: a retry that comes back to a *)
(* key it built before finds it in the cache, whatever other threads store *)
(* meanwhile.                                                              *)
(***************************************************************************)
NoRebuild ==
  \A c \in Calls : pc[c] = "build" => \A p \in built : p.by = c => p.key # key[c]

(***************************************************************************)
(* "a predictor built for det_bs=4 must not be reused for det_bs=2" (the   *)
(* comment above _predictor_cache) holds of every predictor that a batch   *)
(* builds, whoever takes it later: an entry that has not the sizes of its  *)
(* key is the work of a page call, which builds with the defaults.         *)
(***************************************************************************)
OnlyPagesMisfile ==
  \A k \in DOMAIN cache : cache[k].size # k => cache[k].by \in Pages /\ cache[k].size = DefaultSize

(***************************************************************************)
(* Every call that starts returns or raises.                               *)
(***************************************************************************)
CallsEnd == \A c \in Calls : pc[c] = "lookup" ~> pc[c] \in {"done", "failed"}

(***************************************************************************)
(* "try with smaller batch sizes" (run_doctr_batch): each retry runs a     *)
(* predictor with a smaller det_bs than the one that ran out of memory.    *)
(***************************************************************************)
BackoffShrinks ==
  [][\A b \in Batches : tries[b] > 0 /\ pred'[b] # pred[b]
       => pred'[b].size.det < pred[b].size.det]_vars
=============================================================================
