--------------------------- MODULE OcrBatch_proofs ---------------------------
(***************************************************************************)
(* Proofs about OcrBatch, for any sets of calls, batch widths and amounts  *)
(* of free memory.                                                         *)
(***************************************************************************)
EXTENDS OcrBatch, TLAPS

(***************************************************************************)
(* The larger and the smaller of two numbers.                              *)
(***************************************************************************)
LEMMA MaxOfTwo ==
  ASSUME NEW m \in Nat, NEW n \in Nat
  PROVE  Max({m, n}) = IF m >= n THEN m ELSE n
<1>1. CASE m >= n
  <2>1. \A x \in {m, n} : (\A y \in {m, n} : x >= y) <=> x = m
    BY <1>1
  <2> QED BY <1>1, <2>1 DEF Max
<1>2. CASE ~(m >= n)
  <2>1. \A x \in {m, n} : (\A y \in {m, n} : x >= y) <=> x = n
    BY <1>2
  <2> QED BY <1>2, <2>1 DEF Max
<1> QED BY <1>1, <1>2

LEMMA MinOfTwo ==
  ASSUME NEW m \in Nat, NEW n \in Nat
  PROVE  Min({m, n}) = IF m <= n THEN m ELSE n
<1>1. CASE m <= n
  <2>1. \A x \in {m, n} : (\A y \in {m, n} : x <= y) <=> x = m
    BY <1>1
  <2> QED BY <1>1, <2>1 DEF Min
<1>2. CASE ~(m <= n)
  <2>1. \A x \in {m, n} : (\A y \in {m, n} : x <= y) <=> x = n
    BY <1>2
  <2> QED BY <1>2, <2>1 DEF Min
<1> QED BY <1>1, <1>2

(***************************************************************************)
(* pick_doctr_batch_sizes() returns sizes of at least 1 and a det_bs of at *)
(* most 8, whatever the probe answers and however many images there are.   *)
(***************************************************************************)
LEMMA PickedSizes ==
  ASSUME NEW cpu \in BOOLEAN, NEW free \in FreeLevels, NEW images \in Nat
  PROVE  PickSizes(cpu, free, images) \in Sizes
<1>1. CASE cpu \/ free = None
  BY <1>1 DEF PickSizes, DefaultSize, Sizes, DetCeiling
<1>2. CASE ~cpu /\ free # None
  <2>1. free \in Nat
    BY <1>2, FreeAssumption
  <2>2. Min({8, free}) = IF 8 <= free THEN 8 ELSE free
    BY <2>1, MinOfTwo
  <2>a. Min({8, free}) \in 0 .. 8
    BY <2>1, <2>2
  <2>b. Max({1, Min({8, free})}) = IF 1 >= Min({8, free}) THEN 1 ELSE Min({8, free})
    BY <2>a, MaxOfTwo
  <2>3. Max({1, Min({DetCeiling, free})}) \in 1 .. DetCeiling
    BY <2>a, <2>b DEF DetCeiling
  <2>4. images * CropsPerPage \in Nat
    BY DEF CropsPerPage
  <2>5. Max({RecoFloor, images * CropsPerPage}) \in Nat
    BY <2>4, MaxOfTwo DEF RecoFloor
  <2>6. Min({RecoCeiling, Max({RecoFloor, images * CropsPerPage})}) \in Nat
    BY <2>5, MinOfTwo DEF RecoCeiling
  <2> QED BY <1>2, <2>3, <2>6 DEF PickSizes, Sizes
<1> QED BY <1>1, <1>2

(***************************************************************************)
(* Halving keeps sizes valid and, above 1, at least halves det_bs.         *)
(***************************************************************************)
LEMMA HalvedSizes ==
  ASSUME NEW s \in Sizes
  PROVE  /\ Halved(s) \in Sizes
         /\ s.det > 1 => Halved(s).det = s.det \div 2
<1>1. s.det \in 1 .. DetCeiling /\ s.det \div 2 \in 0 .. DetCeiling
  BY DEF Sizes, DetCeiling
<1>2. Max({1, s.det \div 2}) = IF 1 >= s.det \div 2 THEN 1 ELSE s.det \div 2
  BY <1>1, MaxOfTwo DEF DetCeiling
<1>3. Max({1, s.det \div 2}) \in 1 .. DetCeiling
  BY <1>1, <1>2 DEF DetCeiling
<1>4. Halved(s) = [s EXCEPT !.det = Max({1, s.det \div 2})]
  BY DEF Halved
<1>5. Halved(s).det = Max({1, s.det \div 2})
  BY <1>4 DEF Sizes
<1>6. s.det > 1 => s.det \div 2 >= 1
  BY <1>1 DEF DetCeiling
<1> QED BY <1>1, <1>2, <1>3, <1>4, <1>5, <1>6 DEF Sizes, DetCeiling

-----------------------------------------------------------------------------
(***************************************************************************)
(* The inductive invariant.  A call that is about to store holds the       *)
(* predictor it built; a predictor that is not about to be stored has its  *)
(* key in the cache; det_bs has been halved once per predictor run; the    *)
(* pages of a call are a prefix of its images.                             *)
(***************************************************************************)
Holding(c) ==
  pc[c] = "store" => pred[c] \in built /\ pred[c].key = key[c] /\ pred[c].by = c

HoldingInv == \A c \in Calls : Holding(c)

\* Built, and no longer on its way into the cache.
Stored(p) == ~(pc[p.by] = "store" /\ pred[p.by] = p)

CachedInv == \A p \in built : Stored(p) => p.key \in DOMAIN cache

Active == {"lookup", "build", "store", "queued", "run"}

Halving(c) ==
  /\ pc[c] \in {"idle", "queued"} => tries[c] = 0
  /\ tries[c] <= 4
  /\ pc[c] \in Active => tries[c] <= 3
  /\ pc[c] \in Active /\ tries[c] = 1 => size[c].det <= 4
  /\ pc[c] \in Active /\ tries[c] = 2 => size[c].det <= 2
  /\ pc[c] \in Active /\ tries[c] = 3 => size[c].det <= 1

HalvingInv == \A c \in Calls : Halving(c)

InOrder(c) ==
  /\ c \in Pages /\ pc[c] # "idle" /\ pc[c] # "failed" => req[c].images = 1
  /\ pc[c] \notin {"cpu", "done", "failed"} => pages[c] = <<>>
  /\ Len(pages[c]) <= req[c].images
  /\ \A i \in 1 .. Len(pages[c]) : pages[c][i] = i
  /\ pc[c] = "done" => Len(pages[c]) = req[c].images \/ (c \in Pages /\ pages[c] = <<>>)

PagesInv == \A c \in Calls : InOrder(c)

IInv == TypeOK /\ HoldingInv /\ CachedInv /\ NoRebuild /\ HalvingInv /\ PagesInv

LEMMA InvInit == Init => IInv
<1> SUFFICES ASSUME Init PROVE IInv
  OBVIOUS
<1> USE DEF Init
<1>1. TypeOK
  BY DEF TypeOK, Sizes, DefaultSize, DetCeiling
<1>2. HoldingInv /\ CachedInv /\ NoRebuild /\ HalvingInv
  BY DEF HoldingInv, Holding, CachedInv, NoRebuild, HalvingInv, Halving, Active
<1>3. PagesInv
  BY DEF PagesInv, InOrder
<1> QED BY <1>1, <1>2, <1>3 DEF IInv

(***************************************************************************)
(* Steps that touch neither the cache nor the predictors keep what IInv    *)
(* says of them, provided the call does not enter or leave "store" and     *)
(* does not enter "build".                                                 *)
(***************************************************************************)
LEMMA CacheFrame ==
  ASSUME TypeOK, HoldingInv, CachedInv, NoRebuild, NEW c \in Calls,
         UNCHANGED <<cache, built>>,
         \A d \in Calls \ {c} : pc'[d] = pc[d] /\ pred'[d] = pred[d] /\ key'[d] = key[d],
         pc[c] # "store", pc'[c] \notin {"store", "build"}
  PROVE  HoldingInv' /\ CachedInv' /\ NoRebuild'
<1>1. HoldingInv'
  BY DEF HoldingInv, Holding
<1>2. CachedInv'
  <2> SUFFICES ASSUME NEW p \in built, Stored(p)' PROVE p.key \in DOMAIN cache
    BY DEF CachedInv
  <2>1. p.by \in Calls
    BY DEF TypeOK, Predictors
  <2>2. Stored(p)
    BY <2>1 DEF Stored
  <2> QED BY <2>2 DEF CachedInv
<1>3. NoRebuild'
  BY DEF NoRebuild
<1> QED BY <1>1, <1>2, <1>3

(***************************************************************************)
(* Steps that leave one call's run of det_bs alone.                        *)
(***************************************************************************)
LEMMA HalvingFrame ==
  ASSUME TypeOK, HalvingInv, NEW c \in Calls, UNCHANGED <<tries>>,
         \A d \in Calls \ {c} : pc'[d] = pc[d] /\ size'[d] = size[d],
         \/ pc'[c] \in {"cpu", "done", "failed"}
         \/ pc[c] \in Active /\ size'[c] = size[c] /\ pc'[c] \in Active \ {"queued"}
         \/ tries[c] = 0
  PROVE  HalvingInv'
BY DEF HalvingInv, Halving, TypeOK, Active

LEMMA PagesFrame ==
  ASSUME PagesInv, NEW c \in Calls, UNCHANGED <<req, pages>>,
         \A d \in Calls \ {c} : pc'[d] = pc[d],
         pc[c] \in {"idle", "failed"} => pc'[c] = "failed",
         pc'[c] # "done", pc[c] \in {"cpu", "done", "failed"} => pc'[c] \in {"cpu", "failed"}
  PROVE  PagesInv'
BY DEF PagesInv, InOrder

-----------------------------------------------------------------------------
(***************************************************************************)
(* Every action preserves IInv.                                            *)
(***************************************************************************)
LEMMA StartKeepsInv ==
  ASSUME IInv, NEW c \in Calls, NEW device, NEW images \in Nat, c \in Pages => images = 1,
         Start(c, device, images)
  PROVE  IInv'
<1> USE DEF IInv
<1>1. PICK free \in FreeLevels : key' = [key EXCEPT ![c] = PickSizes(device = "cpu", free, images)]
  BY DEF Start
<1>2. PickSizes(device = "cpu", free, images) \in Sizes
  BY PickedSizes
<1>3. TypeOK'
  BY <1>1, <1>2 DEF Start, TypeOK
<1>4. pc[c] = "idle" /\ pc' = [pc EXCEPT ![c] = "lookup"] /\ UNCHANGED <<cache, built, size, pred, tries, pages>>
  BY DEF Start
<1>5. \A d \in Calls \ {c} : pc'[d] = pc[d] /\ key'[d] = key[d] /\ pred'[d] = pred[d] /\ size'[d] = size[d]
  BY <1>1, <1>4 DEF TypeOK
<1>6. pc'[c] = "lookup"
  BY <1>4 DEF TypeOK
<1>7. HoldingInv' /\ CachedInv' /\ NoRebuild'
  BY <1>4, <1>5, <1>6, CacheFrame
<1>8. HalvingInv'
  <2>1. tries[c] = 0
    BY <1>4 DEF HalvingInv, Halving
  <2> QED BY <1>4, <1>5, <2>1, HalvingFrame
<1>9. PagesInv'
  <2>1. pages[c] = <<>> /\ req'[c].images = images
    BY <1>4 DEF PagesInv, InOrder, Start, TypeOK
  <2>2. \A d \in Calls \ {c} : req'[d] = req[d]
    BY DEF Start, TypeOK
  <2> QED BY <1>4, <1>5, <1>6, <2>1, <2>2 DEF PagesInv, InOrder
<1> QED BY <1>3, <1>7, <1>8, <1>9

(***************************************************************************)
(* Moves that only change where a call stands.                             *)
(***************************************************************************)
LEMMA MoveKeepsInv ==
  ASSUME IInv, NEW c \in Calls, NEW to \in {"failed", "queued", "run"},
         pc[c] # "store", pc' = [pc EXCEPT ![c] = to],
         to # "failed" => pc[c] = "lookup" /\ (to = "queued" => tries[c] = 0),
         pred' = [pred EXCEPT ![c] = pred'[c]], pred'[c] \in built \cup {None},
         pc[c] # "done",
         UNCHANGED <<cache, built, req, size, key, tries, pages>>
  PROVE  IInv'
<1> USE DEF IInv
<1>1. TypeOK'
  BY DEF TypeOK
<1>2. \A d \in Calls \ {c} : pc'[d] = pc[d] /\ key'[d] = key[d] /\ pred'[d] = pred[d] /\ size'[d] = size[d]
  BY DEF TypeOK
<1>3. pc'[c] = to
  BY DEF TypeOK
<1>4. HoldingInv' /\ CachedInv' /\ NoRebuild'
  BY <1>2, <1>3, CacheFrame
<1>5. HalvingInv'
  BY <1>2, <1>3 DEF HalvingInv, Halving, Active, TypeOK
<1>6. PagesInv'
  BY <1>2, <1>3, PagesFrame
<1> QED BY <1>1, <1>4, <1>5, <1>6

LEMMA CacheHitKeepsInv ==
  ASSUME IInv, NEW c \in Calls, CacheHit(c)
  PROVE  IInv'
<1>1. cache[key[c]] \in built
  BY DEF IInv, TypeOK, CacheHit
<1>2. pred' = [pred EXCEPT ![c] = cache[key[c]]] /\ pred'[c] = cache[key[c]]
  BY DEF IInv, TypeOK, CacheHit
<1>3. AfterPredictor(c) \in {"queued", "run"} /\ (AfterPredictor(c) = "queued" => tries[c] = 0)
  BY DEF AfterPredictor
<1> QED BY <1>1, <1>2, <1>3, MoveKeepsInv DEF CacheHit

LEMMA FailureKeepsInv ==
  ASSUME IInv, NEW c \in Calls, NoDevice(c) \/ StockStageFails(c) \/ NoPredictor(c) \/ UndecodableImage(c) \/ CpuError(c)
  PROVE  IInv'
<1>1. pred' = [pred EXCEPT ![c] = pred'[c]] /\ pred'[c] \in built \cup {None}
  BY DEF IInv, TypeOK, NoDevice, StockStageFails, NoPredictor, UndecodableImage, CpuError
<1>2. pc[c] # "store" /\ pc[c] # "done" /\ pc' = [pc EXCEPT ![c] = "failed"]
  BY DEF NoDevice, StockStageFails, NoPredictor, UndecodableImage, CpuError
<1>3. UNCHANGED <<cache, built, req, size, key, tries, pages>>
  BY DEF NoDevice, StockStageFails, NoPredictor, UndecodableImage, CpuError
<1> QED BY <1>1, <1>2, <1>3, MoveKeepsInv

(***************************************************************************)
(* A look-up that misses finds no predictor of its own under its key: each *)
(* of its predictors is stored by then.                                    *)
(***************************************************************************)
LEMMA CacheMissKeepsInv ==
  ASSUME IInv, NEW c \in Calls, CacheMiss(c)
  PROVE  IInv'
<1> USE DEF IInv
<1>1. TypeOK'
  BY DEF CacheMiss, TypeOK
<1>2. \A d \in Calls \ {c} : pc'[d] = pc[d]
  BY DEF CacheMiss, TypeOK
<1>3. pc[c] = "lookup" /\ pc'[c] = "build" /\ UNCHANGED <<cache, built, req, size, key, pred, tries, pages>>
  BY DEF CacheMiss, TypeOK
<1>4. HoldingInv'
  BY <1>2, <1>3 DEF HoldingInv, Holding
<1>5. CachedInv'
  <2> SUFFICES ASSUME NEW p \in built, Stored(p)' PROVE p.key \in DOMAIN cache
    BY <1>3 DEF CachedInv
  <2>1. p.by \in Calls
    BY DEF TypeOK, Predictors
  <2>2. Stored(p)
    BY <1>2, <1>3, <2>1 DEF Stored
  <2> QED BY <2>2 DEF CachedInv
<1>6. \A p \in built : p.by = c => p.key # key[c]
  <2> SUFFICES ASSUME NEW p \in built, p.by = c PROVE p.key # key[c]
    OBVIOUS
  <2>1. p.key \in DOMAIN cache
    BY <1>3 DEF CachedInv, Stored
  <2> QED BY <2>1 DEF CacheMiss
<1>7. NoRebuild'
  BY <1>2, <1>3, <1>6 DEF NoRebuild
<1>8. HalvingInv'
  BY <1>2, <1>3, HalvingFrame DEF Active
<1>9. PagesInv'
  BY <1>2, <1>3, PagesFrame
<1> QED BY <1>1, <1>4, <1>5, <1>7, <1>8, <1>9

LEMMA BuildKeepsInv ==
  ASSUME IInv, NEW c \in Calls, Build(c)
  PROVE  IInv'
<1> USE DEF IInv
<1> DEFINE new == [size |-> BuiltSize(c), key |-> key[c], by |-> c]
<1>1. new \in Predictors /\ new.by = c /\ new.key = key[c]
  BY DEF BuiltSize, Predictors, TypeOK, Sizes, DefaultSize, DetCeiling
<1>2. pred' = [pred EXCEPT ![c] = new] /\ pred'[c] = new
  BY DEF Build, TypeOK
<1>3. built' = built \cup {new}
  BY <1>2 DEF Build
<1> HIDE DEF new
<1>4. pc[c] = "build" /\ pc' = [pc EXCEPT ![c] = "store"] /\ UNCHANGED <<cache, req, size, key, tries, pages>>
  BY DEF Build
<1>5. TypeOK'
  BY <1>1, <1>2, <1>3, <1>4 DEF TypeOK
<1>6. pc'[c] = "store" /\ \A d \in Calls \ {c} : pc'[d] = pc[d] /\ pred'[d] = pred[d]
  BY <1>2, <1>4 DEF TypeOK
<1>7. HoldingInv'
  BY <1>1, <1>2, <1>3, <1>4, <1>6 DEF HoldingInv, Holding
<1>8. CachedInv'
  <2> SUFFICES ASSUME NEW p \in built', Stored(p)' PROVE p.key \in DOMAIN cache
    BY <1>4 DEF CachedInv
  <2>1. p # new
    BY <1>1, <1>2, <1>6 DEF Stored
  <2>2. p \in built /\ p.by \in Calls
    BY <1>3, <2>1 DEF TypeOK, Predictors
  <2>3. Stored(p)
    BY <1>4, <1>6, <2>2 DEF Stored
  <2> QED BY <2>2, <2>3 DEF CachedInv
<1>9. NoRebuild'
  BY <1>1, <1>3, <1>4, <1>6 DEF NoRebuild
<1>10. HalvingInv'
  BY <1>4, <1>6, HalvingFrame DEF Active
<1>11. PagesInv'
  BY <1>4, <1>6, PagesFrame
<1> QED BY <1>5, <1>7, <1>8, <1>9, <1>10, <1>11

LEMMA StoreKeepsInv ==
  ASSUME IInv, NEW c \in Calls, Store(c)
  PROVE  IInv'
<1> USE DEF IInv
<1>1. pc[c] = "store" /\ pc' = [pc EXCEPT ![c] = AfterPredictor(c)]
      /\ UNCHANGED <<built, req, size, key, pred, tries, pages>>
  BY DEF Store
<1>2. pred[c] \in built /\ pred[c].key = key[c] /\ key[c] \in Sizes
  BY <1>1 DEF HoldingInv, Holding, TypeOK
<1>3. cache' = [k \in DOMAIN cache \cup {key[c]} |-> IF k = key[c] THEN pred[c] ELSE cache[k]]
  BY DEF Store
<1>4. DOMAIN cache' = DOMAIN cache \cup {key[c]}
  BY <1>3
<1>5. AfterPredictor(c) \in {"queued", "run"} /\ (AfterPredictor(c) = "queued" => tries[c] = 0)
  BY DEF AfterPredictor
<1>6. TypeOK'
  <2>1. cache' \in [DOMAIN cache' -> built']
    BY <1>1, <1>2, <1>3, <1>4 DEF TypeOK
  <2> QED BY <1>1, <1>2, <1>4, <1>5, <2>1 DEF TypeOK
<1>7. pc'[c] = AfterPredictor(c) /\ \A d \in Calls \ {c} : pc'[d] = pc[d]
  BY <1>1 DEF TypeOK
<1>8. HoldingInv' /\ NoRebuild'
  BY <1>1, <1>5, <1>7 DEF HoldingInv, Holding, NoRebuild
<1>9. CachedInv'
  <2> SUFFICES ASSUME NEW p \in built, Stored(p)' PROVE p.key \in DOMAIN cache'
    BY <1>1 DEF CachedInv
  <2>1. p.by \in Calls
    BY DEF TypeOK, Predictors
  <2>2. CASE p.by = c /\ pred[c] = p
    BY <1>2, <1>4, <2>2
  <2>3. CASE ~(p.by = c /\ pred[c] = p)
    <3>1. Stored(p)
      BY <1>1, <1>7, <2>1, <2>3 DEF Stored
    <3> QED BY <1>4, <3>1 DEF CachedInv
  <2> QED BY <2>2, <2>3
<1>10. HalvingInv'
  BY <1>1, <1>5, <1>7 DEF HalvingInv, Halving, Active, TypeOK
<1>11. PagesInv'
  BY <1>1, <1>5, <1>7, PagesFrame
<1> QED BY <1>6, <1>8, <1>9, <1>10, <1>11

LEMMA DequeueKeepsInv ==
  ASSUME IInv, NEW c \in Calls, Dequeue(c)
  PROVE  IInv'
<1> USE DEF IInv
<1>1. PICK free \in FreeLevels :
        size' = [size EXCEPT ![c] = PickSizes(req[c].cpu, free, req[c].images)]
  BY DEF Dequeue
<1>2. PickSizes(req[c].cpu, free, req[c].images) \in Sizes
  BY PickedSizes DEF TypeOK
<1>3. pc[c] = "queued" /\ pc' = [pc EXCEPT ![c] = "run"]
      /\ UNCHANGED <<cache, built, req, key, pred, tries, pages>>
  BY DEF Dequeue
<1>4. TypeOK'
  BY <1>1, <1>2, <1>3 DEF TypeOK
<1>5. pc'[c] = "run" /\ \A d \in Calls \ {c} : pc'[d] = pc[d] /\ size'[d] = size[d]
  BY <1>1, <1>3 DEF TypeOK
<1>6. HoldingInv' /\ CachedInv' /\ NoRebuild'
  BY <1>3, <1>5, CacheFrame
<1>7. HalvingInv'
  <2>1. tries[c] = 0
    BY <1>3 DEF HalvingInv, Halving
  <2> QED BY <1>3, <1>5, <2>1, HalvingFrame
<1>8. PagesInv'
  BY <1>3, <1>5, PagesFrame
<1> QED BY <1>4, <1>6, <1>7, <1>8

(***************************************************************************)
(* Runs are counted: a call that runs has run at most three times before.  *)
(***************************************************************************)
LEMMA RunCounts ==
  ASSUME TypeOK, HalvingInv, NEW c \in Calls, Run(c)
  PROVE  /\ tries[c] \in 0 .. 3
         /\ tries'[c] = tries[c] + 1
         /\ tries' \in [Calls -> Nat]
         /\ \A d \in Calls \ {c} : tries'[d] = tries[d]
<1>1. tries[c] \in 0 .. 3
  BY DEF Run, HalvingInv, Halving, Active, TypeOK
<1>2. tries[c] + 1 \in Nat
  BY <1>1
<1>3. MaxTries + 1 = 5
  BY DEF MaxTries
<1>4. Min({5, tries[c] + 1}) = IF 5 <= tries[c] + 1 THEN 5 ELSE tries[c] + 1
  BY <1>2, MinOfTwo
<1>5. Min({MaxTries + 1, tries[c] + 1}) = tries[c] + 1
  BY <1>1, <1>3, <1>4
<1>6. tries' = [tries EXCEPT ![c] = tries[c] + 1]
  BY <1>5 DEF Run
<1> QED BY <1>1, <1>2, <1>6 DEF TypeOK

(***************************************************************************)
(* A run that ends the call, or leaves it one page at a time.              *)
(***************************************************************************)
LEMMA LastRunKeepsInv ==
  ASSUME IInv, NEW c \in Calls, RunError(c) \/ RunOomAtFloor(c)
  PROVE  IInv'
<1> USE DEF IInv
<1>1. Run(c) /\ UNCHANGED <<cache, built, req, size, key, pred, pages>>
  BY DEF RunError, RunOomAtFloor
<1>2. PICK to \in {"failed", "cpu"} : pc' = [pc EXCEPT ![c] = to]
  BY DEF RunError, RunOomAtFloor
<1>3. pc[c] = "run" /\ pc'[c] = to /\ \A d \in Calls \ {c} : pc'[d] = pc[d]
  BY <1>1, <1>2 DEF Run, TypeOK
<1>4. /\ tries[c] \in 0 .. 3 /\ tries'[c] = tries[c] + 1 /\ tries' \in [Calls -> Nat]
      /\ \A d \in Calls \ {c} : tries'[d] = tries[d]
  BY <1>1, RunCounts
<1>5. TypeOK'
  BY <1>1, <1>2, <1>4 DEF TypeOK
<1>6. HoldingInv' /\ CachedInv' /\ NoRebuild'
  BY <1>1, <1>3, CacheFrame
<1>7. HalvingInv'
  BY <1>1, <1>3, <1>4 DEF HalvingInv, Halving, Active
<1>8. PagesInv'
  BY <1>1, <1>3, PagesFrame
<1> QED BY <1>5, <1>6, <1>7, <1>8

LEMMA OnePageOrNone ==
  ASSUME NEW found \in OfOneImage
  PROVE  /\ found \in Seq(Nat) /\ Len(found) <= 1
         /\ \A i \in 1 .. Len(found) : found[i] = i
         /\ Len(found) = 1 \/ found = <<>>
<1>1. CASE found = <<>>
  BY <1>1
<1>2. CASE found = <<1>>
  BY <1>2
<1> QED BY <1>1, <1>2 DEF OfOneImage

(***************************************************************************)
(* A predictor that works gives as many pages as there are images, in      *)
(* order, or for a page call none at all.                                  *)
(***************************************************************************)
LEMMA RecognizedPages ==
  ASSUME TypeOK, PagesInv, NEW c \in Calls, pc[c] = "run", NEW found \in Recognized(c)
  PROVE  /\ found \in Seq(Nat) /\ Len(found) <= req[c].images
         /\ \A i \in 1 .. Len(found) : found[i] = i
         /\ Len(found) = req[c].images \/ (c \in Pages /\ found = <<>>)
<1>1. req[c].images \in Nat
  BY DEF TypeOK
<1>2. CASE c \in Batches
  <2>1. found = [i \in 1 .. req[c].images |-> i]
    BY <1>2 DEF Recognized
  <2> QED BY <1>1, <2>1
<1>3. CASE c \notin Batches
  <2>1. c \in Pages /\ found \in OfOneImage
    BY <1>3 DEF Recognized, Calls
  <2>2. req[c].images = 1
    BY <2>1 DEF PagesInv, InOrder
  <2> QED BY <2>1, <2>2, OnePageOrNone
<1> QED BY <1>2, <1>3

LEMMA RunOkKeepsInv ==
  ASSUME IInv, NEW c \in Calls, RunOk(c)
  PROVE  IInv'
<1> USE DEF IInv
<1>1. Run(c) /\ pc' = [pc EXCEPT ![c] = "done"] /\ UNCHANGED <<cache, built, req, size, key, pred>>
  BY DEF RunOk
<1>2. pc[c] = "run" /\ pc'[c] = "done" /\ \A d \in Calls \ {c} : pc'[d] = pc[d]
  BY <1>1 DEF Run, TypeOK
<1>3. /\ tries[c] \in 0 .. 3 /\ tries'[c] = tries[c] + 1 /\ tries' \in [Calls -> Nat]
      /\ \A d \in Calls \ {c} : tries'[d] = tries[d]
  BY <1>1, RunCounts
<1>4. PICK found \in Recognized(c) : pages' = [pages EXCEPT ![c] = found]
  BY DEF RunOk
<1>5. /\ found \in Seq(Nat) /\ Len(found) <= req[c].images
      /\ \A i \in 1 .. Len(found) : found[i] = i
      /\ Len(found) = req[c].images \/ (c \in Pages /\ found = <<>>)
  BY <1>2, RecognizedPages
<1>6. pages'[c] = found /\ \A d \in Calls \ {c} : pages'[d] = pages[d]
  BY <1>4 DEF TypeOK
<1>7. TypeOK'
  BY <1>1, <1>3, <1>4, <1>5 DEF TypeOK
<1>8. HoldingInv' /\ CachedInv' /\ NoRebuild'
  BY <1>1, <1>2, CacheFrame
<1>9. HalvingInv'
  BY <1>1, <1>2, <1>3 DEF HalvingInv, Halving, Active
<1>10. PagesInv'
  <2>1. InOrder(c)'
    <3>1. c \in Pages => req'[c].images = 1
      BY <1>1, <1>2 DEF PagesInv, InOrder
    <3>2. req'[c] = req[c]
      BY <1>1
    <3> QED BY <1>2, <1>5, <1>6, <3>1, <3>2 DEF InOrder
  <2>2. \A d \in Calls \ {c} : InOrder(d)'
    BY <1>1, <1>2, <1>6 DEF PagesInv, InOrder
  <2> QED BY <2>1, <2>2 DEF PagesInv
<1> QED BY <1>7, <1>8, <1>9, <1>10

(***************************************************************************)
(* Out of memory above the floor: what was at most 8, 4, 2 becomes at most *)
(* 4, 2, 1.                                                                *)
(***************************************************************************)
LEMMA RunOomKeepsInv ==
  ASSUME IInv, NEW c \in Calls, RunOom(c)
  PROVE  IInv'
<1> USE DEF IInv
<1>1. Run(c) /\ pc' = [pc EXCEPT ![c] = "lookup"] /\ UNCHANGED <<cache, built, req, pred, pages>>
  BY DEF RunOom
<1>2. size' = [size EXCEPT ![c] = Halved(size[c])] /\ key' = [key EXCEPT ![c] = size'[c]] /\ size[c].det > 1
  BY DEF RunOom
<1>3. size[c] \in Sizes
  BY DEF TypeOK
<1>4. Halved(size[c]) \in Sizes /\ Halved(size[c]).det = size[c].det \div 2
  BY <1>2, <1>3, HalvedSizes
<1>5. size'[c] = Halved(size[c]) /\ key'[c] = Halved(size[c])
      /\ \A d \in Calls \ {c} : size'[d] = size[d] /\ key'[d] = key[d]
  BY <1>2 DEF TypeOK
<1>6. pc[c] = "run" /\ pc'[c] = "lookup" /\ \A d \in Calls \ {c} : pc'[d] = pc[d]
  BY <1>1 DEF Run, TypeOK
<1>7. /\ tries[c] \in 0 .. 3 /\ tries'[c] = tries[c] + 1 /\ tries' \in [Calls -> Nat]
      /\ \A d \in Calls \ {c} : tries'[d] = tries[d]
  BY <1>1, RunCounts
<1>8. TypeOK'
  BY <1>1, <1>2, <1>4, <1>5, <1>7 DEF TypeOK
<1>9. HoldingInv' /\ CachedInv' /\ NoRebuild'
  BY <1>1, <1>5, <1>6, CacheFrame
<1>10. HalvingInv'
  <2>1. Halving(c)'
    <3>1. size[c].det \in 1 .. 8
      BY <1>3 DEF Sizes, DetCeiling
    <3>2. /\ tries[c] = 1 => size[c].det <= 4
          /\ tries[c] = 2 => size[c].det <= 2
          /\ tries[c] = 3 => size[c].det <= 1
      BY <1>6 DEF HalvingInv, Halving, Active
    <3>3. tries[c] # 3
      BY <1>2, <3>1, <3>2
    <3>4. /\ size[c].det \div 2 <= 4
          /\ size[c].det <= 4 => size[c].det \div 2 <= 2
          /\ size[c].det <= 2 => size[c].det \div 2 <= 1
      BY <3>1
    <3>5. /\ pc'[c] = "lookup" /\ size'[c].det = size[c].det \div 2
      BY <1>4, <1>5, <1>6
    <3> QED BY <1>7, <3>2, <3>3, <3>4, <3>5 DEF Halving, Active
  <2>2. \A d \in Calls \ {c} : Halving(d)'
    BY <1>5, <1>6, <1>7 DEF HalvingInv, Halving
  <2> QED BY <2>1, <2>2 DEF HalvingInv
<1>11. PagesInv'
  BY <1>1, <1>6, PagesFrame
<1> QED BY <1>8, <1>9, <1>10, <1>11

-----------------------------------------------------------------------------
(***************************************************************************)
(* One page after the other.                                               *)
(***************************************************************************)
LEMMA AppendNext ==
  ASSUME NEW s \in Seq(Nat), NEW n \in Nat, Len(s) <= n, Len(s) # n,
         \A i \in 1 .. Len(s) : s[i] = i
  PROVE  LET t == Append(s, Len(s) + 1)
         IN  /\ t \in Seq(Nat) /\ Len(t) <= n
             /\ \A i \in 1 .. Len(t) : t[i] = i
<1> DEFINE t == Append(s, Len(s) + 1)
<1>1. Len(s) \in Nat /\ t \in Seq(Nat) /\ Len(t) = Len(s) + 1
  OBVIOUS
<1>2. \A i \in 1 .. Len(s) : t[i] = i
  OBVIOUS
<1>3. t[Len(s) + 1] = Len(s) + 1
  OBVIOUS
<1> QED BY <1>1, <1>2, <1>3

LEMMA CpuPageKeepsInv ==
  ASSUME IInv, NEW c \in Calls, CpuPage(c)
  PROVE  IInv'
<1> USE DEF IInv
<1>1. pc[c] = "cpu" /\ UNCHANGED <<cache, built, pc, req, size, key, pred, tries>>
  BY DEF CpuPage
<1> DEFINE next == Append(pages[c], Len(pages[c]) + 1)
<1>2. pages' = [pages EXCEPT ![c] = next] /\ pages'[c] = next /\ \A d \in Calls \ {c} : pages'[d] = pages[d]
  BY DEF CpuPage, TypeOK
<1>3. /\ pages[c] \in Seq(Nat) /\ req[c].images \in Nat /\ Len(pages[c]) <= req[c].images
      /\ Len(pages[c]) # req[c].images /\ \A i \in 1 .. Len(pages[c]) : pages[c][i] = i
  BY DEF CpuPage, CpuDone, TypeOK, PagesInv, InOrder
<1>4. next \in Seq(Nat) /\ Len(next) <= req[c].images /\ \A i \in 1 .. Len(next) : next[i] = i
  BY <1>3, AppendNext
<1> HIDE DEF next
<1>5. TypeOK'
  BY <1>1, <1>2, <1>4 DEF TypeOK
<1>6. HoldingInv' /\ CachedInv' /\ NoRebuild'
  BY <1>1, CacheFrame
<1>7. HalvingInv'
  BY <1>1 DEF HalvingInv, Halving
<1>8. PagesInv'
  BY <1>1, <1>2, <1>4 DEF PagesInv, InOrder
<1> QED BY <1>5, <1>6, <1>7, <1>8

LEMMA CpuEndKeepsInv ==
  ASSUME IInv, NEW c \in Calls, CpuEnd(c)
  PROVE  IInv'
<1> USE DEF IInv
<1>1. pc[c] = "cpu" /\ pc' = [pc EXCEPT ![c] = "done"] /\ Len(pages[c]) = req[c].images
      /\ UNCHANGED <<cache, built, req, size, key, pred, tries, pages>>
  BY DEF CpuEnd, CpuDone
<1>2. pc'[c] = "done" /\ \A d \in Calls \ {c} : pc'[d] = pc[d]
  BY <1>1 DEF TypeOK
<1>3. TypeOK'
  BY <1>1 DEF TypeOK
<1>4. HoldingInv' /\ CachedInv' /\ NoRebuild'
  BY <1>1, <1>2, CacheFrame
<1>5. HalvingInv'
  BY <1>1, <1>2, HalvingFrame
<1>6. PagesInv'
  BY <1>1, <1>2 DEF PagesInv, InOrder
<1> QED BY <1>3, <1>4, <1>5, <1>6

(***************************************************************************)
(* A page stage that leaves the cache alone ends with its page or none.    *)
(***************************************************************************)
LEMMA StockStageKeepsInv ==
  ASSUME IInv, NEW p \in Pages, StockStage(p)
  PROVE  IInv'
<1> USE DEF IInv
<1>1. p \in Calls /\ pc[p] = "idle"
      /\ pc' = [pc EXCEPT ![p] = "done"]
      /\ req' = [req EXCEPT ![p].images = 1] /\ UNCHANGED <<cache, built, size, key, pred, tries>>
  BY DEF StockStage, Calls
<1>a. PICK found \in OfOneImage : pages' = [pages EXCEPT ![p] = found]
  BY DEF StockStage
<1>b. /\ found \in Seq(Nat) /\ Len(found) <= 1
      /\ \A i \in 1 .. Len(found) : found[i] = i
      /\ Len(found) = 1 \/ found = <<>>
  BY OnePageOrNone
<1>2. pc'[p] = "done" /\ \A d \in Calls \ {p} : pc'[d] = pc[d]
  BY <1>1 DEF TypeOK
<1>3. TypeOK'
  <2>1. req' \in [Calls -> [cpu : BOOLEAN, images : Nat]]
    BY <1>1 DEF TypeOK
  <2>2. pages' \in [Calls -> Seq(Nat)]
    BY <1>a, <1>b DEF TypeOK
  <2> QED BY <1>1, <2>1, <2>2 DEF TypeOK
<1>4. HoldingInv' /\ CachedInv' /\ NoRebuild'
  BY <1>1, <1>2, CacheFrame
<1>5. HalvingInv'
  BY <1>1, <1>2, HalvingFrame
<1>6. PagesInv'
  <2>1. pages'[p] = found /\ req'[p].images = 1
    BY <1>1, <1>a DEF TypeOK
  <2>2. InOrder(p)'
    BY <1>2, <1>b, <2>1 DEF InOrder
  <2>3. \A d \in Calls \ {p} : req'[d] = req[d] /\ pages'[d] = pages[d]
    BY <1>1, <1>a DEF TypeOK
  <2>4. \A d \in Calls \ {p} : InOrder(d)'
    BY <1>2, <2>3 DEF PagesInv, InOrder
  <2> QED BY <2>2, <2>4 DEF PagesInv
<1> QED BY <1>3, <1>4, <1>5, <1>6

LEMMA InvStep == IInv /\ [Next]_vars => IInv'
<1> SUFFICES ASSUME IInv, [Next]_vars PROVE IInv'
  OBVIOUS
<1>1. CASE UNCHANGED vars
  BY <1>1 DEF vars, IInv, TypeOK, HoldingInv, Holding, CachedInv, Stored, NoRebuild,
              HalvingInv, Halving, PagesInv, InOrder
<1>2. ASSUME NEW b \in Batches, StartBatch(b) PROVE IInv'
  <2>1. b \in Calls /\ b \notin Pages
    BY CallsAssumption DEF Calls
  <2>2. PICK device \in ExecutionDevices \ {Invalid}, images \in Widths : Start(b, device, images)
    BY <1>2 DEF StartBatch
  <2> QED BY <2>1, <2>2, WidthsAssumption, StartKeepsInv
<1>3. ASSUME NEW p \in Pages, StartPage(p) \/ StockStage(p) \/ StockStageFails(p) PROVE IInv'
  BY <1>3, StartKeepsInv, StockStageKeepsInv, FailureKeepsInv DEF StartPage, Calls
<1>4. ASSUME NEW c \in Calls, NoDevice(c) \/ GetPredictor(c) PROVE IInv'
  BY <1>4, CacheHitKeepsInv, CacheMissKeepsInv, BuildKeepsInv, FailureKeepsInv, StoreKeepsInv
     DEF GetPredictor
<1>5. ASSUME NEW c \in Calls, RunOk(c) \/ RunError(c) PROVE IInv'
  BY <1>5, RunOkKeepsInv, LastRunKeepsInv
<1>6. ASSUME NEW b \in Batches, Backoff(b) PROVE IInv'
  <2>1. b \in Calls
    BY DEF Calls
  <2> QED BY <1>6, <2>1, DequeueKeepsInv, FailureKeepsInv, RunOomKeepsInv, LastRunKeepsInv,
             CpuPageKeepsInv, CpuEndKeepsInv DEF Backoff
<1> QED BY <1>1, <1>2, <1>3, <1>4, <1>5, <1>6 DEF Next

(***************************************************************************)
(* The strengthening of the invariants below is an invariant.              *)
(***************************************************************************)
THEOREM Inductive == Spec => []IInv
<1> QED BY InvInit, InvStep, PTL DEF Spec

(***************************************************************************)
(* The variables keep their types; in particular det_bs, of every call and *)
(* of every predictor ever built, stays within 1 .. 8.                     *)
(***************************************************************************)
THEOREM TypeCorrect == Spec => []TypeOK
<1>1. IInv => TypeOK
  BY DEF IInv
<1> QED BY <1>1, Inductive, PTL

(***************************************************************************)
(* run_doctr_batch() runs at most four predictors for a batch, whatever    *)
(* the device answers and whatever other calls do to the cache.            *)
(***************************************************************************)
THEOREM BackoffEnds == Spec => []BackoffBounded
<1>1. IInv => BackoffBounded
  BY DEF IInv, HalvingInv, Halving, BackoffBounded, MaxTries
<1> QED BY <1>1, Inductive, PTL

(***************************************************************************)
(* A batch that returns has one page per image, in order, for any width; a *)
(* page call has the page of its image, or none.                           *)
(***************************************************************************)
THEOREM PagesMatchImages == Spec => []OnePagePerImage
<1>1. IInv => OnePagePerImage
  <2> SUFFICES ASSUME IInv, NEW c \in Calls, pc[c] = "done", ~(c \in Pages /\ pages[c] = <<>>)
               PROVE  pages[c] = [i \in 1 .. req[c].images |-> i]
    BY DEF OnePagePerImage
  <2>1. pages[c] \in Seq(Nat) /\ Len(pages[c]) = req[c].images
        /\ \A i \in 1 .. Len(pages[c]) : pages[c][i] = i
    BY DEF IInv, TypeOK, PagesInv, InOrder
  <2>2. pages[c] = [i \in 1 .. Len(pages[c]) |-> pages[c][i]]
    BY <2>1
  <2> QED BY <2>1, <2>2
<1> QED BY <1>1, Inductive, PTL

(***************************************************************************)
(* No call builds a second predictor for a key, although the cache is not  *)
(* locked and any number of threads look up, build and store.              *)
(***************************************************************************)
THEOREM NothingIsBuiltTwice == Spec => []NoRebuild
<1>1. IInv => NoRebuild
  BY DEF IInv
<1> QED BY <1>1, Inductive, PTL

(***************************************************************************)
(* A look-up goes on to build only if its key is missing.                  *)
(***************************************************************************)
LEMMA OnlyAMissBuilds ==
  ASSUME TypeOK, Next, NEW c \in Calls, pc[c] = "lookup", pc'[c] = "build"
  PROVE  key[c] \notin DOMAIN cache
<1>1. ASSUME NEW d \in Calls, NEW device, NEW images, Start(d, device, images) PROVE FALSE
  BY <1>1 DEF Start, TypeOK
<1>2. ASSUME NEW d \in Calls, NoDevice(d) \/ GetPredictor(d) PROVE key[c] \notin DOMAIN cache
  BY <1>2 DEF NoDevice, GetPredictor, CacheHit, CacheMiss, Build, NoPredictor, Store, AfterPredictor, TypeOK
<1>3. ASSUME NEW d \in Calls, RunOk(d) \/ RunError(d) PROVE FALSE
  BY <1>3 DEF RunOk, RunError, Run, TypeOK
<1>4. ASSUME NEW d \in Calls, Backoff(d) PROVE FALSE
  BY <1>4 DEF Backoff, Dequeue, UndecodableImage, RunOom, RunOomAtFloor, Run, CpuPage, CpuEnd,
              CpuError, TypeOK
<1>5. ASSUME NEW p \in Pages, StockStage(p) \/ StockStageFails(p) PROVE FALSE
  BY <1>5 DEF StockStage, StockStageFails, TypeOK, Calls
<1> QED BY <1>1, <1>2, <1>3, <1>4, <1>5 DEF Next, StartBatch, StartPage, Calls

(***************************************************************************)
(* Duplicate predictors come only from calls that overlap: once the call   *)
(* that built a predictor has stored it, no look-up of its key misses, so  *)
(* a warm cache builds nothing.                                            *)
(***************************************************************************)
WarmCacheBuildsNothing ==
  [][\A c \in Calls, p \in built : pc[c] = "lookup" /\ p.key = key[c] /\ Stored(p)
       => pc'[c] # "build"]_vars

THEOREM WarmCacheHits == Spec => WarmCacheBuildsNothing
<1> DEFINE Warm == \A c \in Calls, p \in built :
                     pc[c] = "lookup" /\ p.key = key[c] /\ Stored(p) => pc'[c] # "build"
<1>1. IInv /\ [Next]_vars => [Warm]_vars
  <2> SUFFICES ASSUME IInv, Next, NEW c \in Calls, NEW p \in built,
                      pc[c] = "lookup", p.key = key[c], Stored(p), pc'[c] = "build"
               PROVE  FALSE
    OBVIOUS
  <2>1. key[c] \in DOMAIN cache
    BY DEF IInv, CachedInv
  <2> QED BY <2>1, OnlyAMissBuilds DEF IInv
<1> HIDE DEF Warm
<1>2. Spec => [][Warm]_vars
  BY <1>1, Inductive, PTL DEF Spec
<1> QED BY <1>2 DEF Warm, WarmCacheBuildsNothing
-----------------------------------------------------------------------------
(***************************************************************************)
(* What comments promise of entries and retries, and how far it holds:     *)
(* nothing but the page stage files an entry under other sizes than it     *)
(* has, and nothing but the first retry may grow.                          *)
(*                                                                         *)
(* The invariant: a predictor has the sizes its key says if a batch built  *)
(* it, and the builder's defaults if a page did, and it is stored under    *)
(* its key; a batch that retries looks for the sizes it was left with,     *)
(* from its second retry on less than those it ran last.                   *)
(***************************************************************************)
OriginInv ==
  /\ \A p \in built : p.size = IF p.by \in Batches THEN p.key ELSE DefaultSize
  /\ \A k \in DOMAIN cache : cache[k].key = k

Retrying(b) ==
  /\ pc[b] \in {"queued", "run"} \/ (pc[b] \in {"lookup", "build"} /\ tries[b] > 0)
       => pred[b] \in built
  /\ pc[b] \in {"lookup", "build", "store"} /\ tries[b] > 0 => key[b] = size[b]
  /\ pc[b] \in {"store", "run"} /\ tries[b] > 0 => pred[b].key = size[b]
  /\ pc[b] \in {"lookup", "build"} /\ tries[b] > 1 => key[b].det < pred[b].key.det

RetryInv == \A b \in Batches : Retrying(b)

(***************************************************************************)
(* From the second retry on, each asks for a smaller det_bs than the one   *)
(* before it did, and runs a smaller one unless the page stage built one   *)
(* of the two predictors.                                                  *)
(***************************************************************************)
LaterRetriesShrink ==
  [][\A b \in Batches : tries[b] > 1 /\ pred'[b] # pred[b]
       => /\ pred'[b].key.det < pred[b].key.det
          /\ pred[b].by \in Batches /\ pred'[b].by \in Batches
               => pred'[b].size.det < pred[b].size.det]_vars

(***************************************************************************)
(* Which steps touch the cache, the predictors built and those in use.     *)
(***************************************************************************)
LEMMA OnlyBuildBuilds ==
  ASSUME Next
  PROVE  \/ UNCHANGED <<cache, built>>
         \/ \E c \in Calls : Build(c) \/ Store(c)
<1>1. ASSUME NEW c, NEW device, NEW images, Start(c, device, images) PROVE UNCHANGED <<cache, built>>
  BY <1>1 DEF Start
<1>2. ASSUME NEW c \in Calls, NoDevice(c) \/ CacheHit(c) \/ CacheMiss(c) \/ NoPredictor(c) \/ RunOk(c) \/ RunError(c)
      PROVE  UNCHANGED <<cache, built>>
  BY <1>2 DEF NoDevice, CacheHit, CacheMiss, NoPredictor, RunOk, RunError
<1>3. ASSUME NEW b \in Batches, Backoff(b) PROVE UNCHANGED <<cache, built>>
  BY <1>3 DEF Backoff, Dequeue, UndecodableImage, RunOom, RunOomAtFloor, CpuPage, CpuEnd, CpuError
<1>4. ASSUME NEW p \in Pages, StockStage(p) \/ StockStageFails(p) PROVE UNCHANGED <<cache, built>>
  BY <1>4 DEF StockStage, StockStageFails
<1> QED BY <1>1, <1>2, <1>3, <1>4 DEF Next, StartBatch, StartPage, GetPredictor

LEMMA OriginStep == IInv /\ OriginInv /\ [Next]_vars => OriginInv'
<1> SUFFICES ASSUME IInv, OriginInv, [Next]_vars PROVE OriginInv'
  OBVIOUS
<1>1. CASE UNCHANGED <<cache, built>>
  BY <1>1 DEF OriginInv
<1>2. ASSUME NEW c \in Calls, Build(c) PROVE OriginInv'
  <2> DEFINE new == [size |-> BuiltSize(c), key |-> key[c], by |-> c]
  <2>1. built' = built \cup {new} /\ cache' = cache
    BY <1>2 DEF Build, IInv, TypeOK
  <2>2. new.size = IF new.by \in Batches THEN new.key ELSE DefaultSize
    BY DEF BuiltSize
  <2> HIDE DEF new
  <2> QED BY <2>1, <2>2 DEF OriginInv
<1>3. ASSUME NEW c \in Calls, Store(c) PROVE OriginInv'
  <2>1. built' = built /\ pred[c].key = key[c]
    BY <1>3 DEF Store, IInv, HoldingInv, Holding
  <2>2. cache' = [k \in DOMAIN cache \cup {key[c]} |-> IF k = key[c] THEN pred[c] ELSE cache[k]]
    BY <1>3 DEF Store
  <2>3. \A k \in DOMAIN cache' : cache'[k].key = k
    BY <2>1, <2>2 DEF OriginInv
  <2> QED BY <2>1, <2>3 DEF OriginInv
<1> QED BY <1>1, <1>2, <1>3, OnlyBuildBuilds DEF vars
(***************************************************************************)
(* A step leaves a call alone or is its own.                               *)
(***************************************************************************)
Untouched(c) ==
  /\ pc'[c] = pc[c] /\ req'[c] = req[c] /\ size'[c] = size[c] /\ key'[c] = key[c]
  /\ pred'[c] = pred[c] /\ tries'[c] = tries[c] /\ pages'[c] = pages[c]

LEMMA OneCallMoves ==
  ASSUME TypeOK, Next, NEW c \in Calls
  PROVE  \/ Untouched(c)
         \/ c \in Batches /\ (StartBatch(c) \/ Backoff(c))
         \/ c \in Pages /\ (StartPage(c) \/ StockStage(c) \/ StockStageFails(c))
         \/ NoDevice(c) \/ GetPredictor(c) \/ RunOk(c) \/ RunError(c)
<1>1. ASSUME NEW d \in Calls \ {c}, NEW device, NEW images, Start(d, device, images) PROVE Untouched(c)
  BY <1>1 DEF Start, TypeOK, Untouched
<1>2. ASSUME NEW d \in Calls \ {c}, NoDevice(d) \/ GetPredictor(d) PROVE Untouched(c)
  BY <1>2 DEF NoDevice, GetPredictor, CacheHit, CacheMiss, Build, NoPredictor, Store, TypeOK, Untouched
<1>3. ASSUME NEW d \in Calls \ {c}, RunOk(d) \/ RunError(d) PROVE Untouched(c)
  BY <1>3 DEF RunOk, RunError, Run, TypeOK, Untouched
<1>4. ASSUME NEW d \in Calls \ {c}, Backoff(d) PROVE Untouched(c)
  BY <1>4 DEF Backoff, Dequeue, UndecodableImage, RunOom, RunOomAtFloor, Run, CpuPage, CpuEnd,
              CpuError, TypeOK, Untouched
<1>5. ASSUME NEW d \in Calls \ {c}, StockStage(d) \/ StockStageFails(d) PROVE Untouched(c)
  BY <1>5 DEF StockStage, StockStageFails, TypeOK, Untouched
<1> QED BY <1>1, <1>2, <1>3, <1>4, <1>5 DEF Next, StartBatch, StartPage, Calls

(***************************************************************************)
(* A batch gets a predictor by a hit or by a build, each under its key.    *)
(***************************************************************************)
LEMMA GotUnderKey ==
  ASSUME IInv, OriginInv, NEW b \in Batches, CacheHit(b) \/ Build(b)
  PROVE  pred'[b] \in built' /\ pred'[b].key = key[b]
<1> b \in Calls
  BY DEF Calls
<1>1. CASE CacheHit(b)
  <2>1. key[b] \in DOMAIN cache /\ pred'[b] = cache[key[b]] /\ built' = built
    BY <1>1 DEF CacheHit, IInv, TypeOK
  <2> QED BY <2>1 DEF OriginInv, IInv, TypeOK
<1>2. CASE Build(b)
  <2>1. pred'[b] = [size |-> BuiltSize(b), key |-> key[b], by |-> b] /\ pred'[b] \in built'
    BY <1>2 DEF Build, IInv, TypeOK
  <2> QED BY <2>1
<1> QED BY <1>1, <1>2

(***************************************************************************)
(* Out of memory: what the batch ran, for a retry, was what it was after;  *)
(* what it looks for next is half of that.                                 *)
(***************************************************************************)
LEMMA OomRetries ==
  ASSUME IInv, RetryInv, NEW b \in Batches, RunOom(b)
  PROVE  Retrying(b)'
<1> b \in Calls
  BY DEF Calls
<1>1. /\ pc[b] = "run" /\ pc'[b] = "lookup" /\ size[b] \in Sizes /\ size[b].det > 1
      /\ size'[b] = Halved(size[b]) /\ key'[b] = size'[b]
      /\ UNCHANGED <<built, pred>>
  BY DEF RunOom, Run, IInv, TypeOK
<1>2. size'[b].det = size[b].det \div 2 /\ size[b].det \in 1 .. 8
  BY <1>1, HalvedSizes DEF Sizes, DetCeiling
<1>3. size'[b].det < size[b].det
  BY <1>2
<1>4. tries[b] \in 0 .. 3 /\ tries'[b] = tries[b] + 1
  BY RunCounts DEF RunOom, IInv
<1>5. tries'[b] > 1 => pred[b].key = size[b]
  BY <1>1, <1>4 DEF RetryInv, Retrying
<1>6. pred[b] \in built
  BY <1>1 DEF RetryInv, Retrying
<1> QED BY <1>1, <1>3, <1>5, <1>6 DEF Retrying

LEMMA RetryStep == IInv /\ OriginInv /\ RetryInv /\ [Next]_vars => RetryInv'
<1> SUFFICES ASSUME IInv, OriginInv, RetryInv, [Next]_vars, NEW b \in Batches PROVE Retrying(b)'
  BY DEF RetryInv
<1> USE DEF IInv
<1>r. Retrying(b) /\ b \in Calls
  BY DEF RetryInv, Calls
<1>1. CASE UNCHANGED vars
  BY <1>1, <1>r DEF vars, Retrying
<1>2. ASSUME Next, Untouched(b) PROVE Retrying(b)'
  <2>1. built \subseteq built'
    BY <1>2, OnlyBuildBuilds DEF Build, Store
  <2> QED BY <1>2, <1>r, <2>1 DEF Retrying, Untouched
<1>3. CASE StartBatch(b)
  <2>1. pc[b] = "idle" /\ pc'[b] = "lookup" /\ tries' = tries
    BY <1>3, <1>r DEF StartBatch, Start, TypeOK
  <2>2. tries[b] = 0
    BY <2>1, <1>r DEF HalvingInv, Halving
  <2> QED BY <2>1, <2>2 DEF Retrying
<1>4. CASE NoDevice(b) \/ NoPredictor(b) \/ UndecodableImage(b) \/ CpuError(b) \/ CpuPage(b)
           \/ CpuEnd(b) \/ RunOk(b) \/ RunError(b) \/ RunOomAtFloor(b)
  <2>1. pc'[b] \in {"failed", "done", "cpu"}
    BY <1>4, <1>r DEF NoDevice, NoPredictor, UndecodableImage, CpuError, CpuPage, CpuEnd, RunOk, RunError,
              RunOomAtFloor, TypeOK
  <2> QED BY <2>1 DEF Retrying
<1>5. CASE CacheMiss(b)
  BY <1>5, <1>r DEF CacheMiss, Retrying, TypeOK
<1>6. CASE CacheHit(b) \/ Build(b)
  <2>1. pred'[b] \in built' /\ pred'[b].key = key[b]
    BY <1>6, GotUnderKey
  <2>2. pc[b] \in {"lookup", "build"} /\ pc'[b] \in {"queued", "run", "store"}
        /\ UNCHANGED <<size, key, tries>>
    BY <1>6, <1>r DEF CacheHit, Build, AfterPredictor, TypeOK
  <2> QED BY <1>r, <2>1, <2>2 DEF Retrying
<1>7. CASE Store(b)
  <2>1. pred[b] \in built /\ pred[b].key = key[b]
    BY <1>7, <1>r DEF Store, HoldingInv, Holding
  <2>2. pc[b] = "store" /\ pc'[b] \in {"queued", "run"} /\ UNCHANGED <<built, size, key, pred, tries>>
    BY <1>7, <1>r DEF Store, AfterPredictor, TypeOK
  <2> QED BY <1>r, <2>1, <2>2 DEF Retrying
<1>8. CASE Dequeue(b)
  <2>1. pc[b] = "queued" /\ pc'[b] = "run" /\ UNCHANGED <<built, key, pred, tries>>
    BY <1>8, <1>r DEF Dequeue, TypeOK
  <2>2. tries[b] = 0
    BY <2>1, <1>r DEF HalvingInv, Halving
  <2> QED BY <1>r, <2>1, <2>2 DEF Retrying
<1>9. CASE RunOom(b)
  BY <1>9, OomRetries
<1> QED BY <1>1, <1>2, <1>3, <1>4, <1>5, <1>6, <1>7, <1>8, <1>9, <1>r, CallsAssumption, OneCallMoves
       DEF GetPredictor, Backoff

ScopeInv == IInv /\ OriginInv /\ RetryInv

LEMMA ScopeInductive == Spec => []ScopeInv
<1>1. Init => ScopeInv
  BY InvInit DEF ScopeInv, Init, OriginInv, RetryInv, Retrying, Calls
<1>2. ScopeInv /\ [Next]_vars => ScopeInv'
  BY InvStep, OriginStep, RetryStep DEF ScopeInv
<1> QED BY <1>1, <1>2, PTL DEF Spec

(***************************************************************************)
(* "must not be reused" (the comment above _predictor_cache) holds of      *)
(* every predictor a batch builds: only a page stage's predictor answers   *)
(* for sizes it was not built with.                                        *)
(***************************************************************************)
THEOREM OnlyPagesMisfileEntries == Spec => []OnlyPagesMisfile
<1>1. ScopeInv => OnlyPagesMisfile
  <2> SUFFICES ASSUME ScopeInv, NEW k \in DOMAIN cache, cache[k].size # k
               PROVE  cache[k].by \in Pages /\ cache[k].size = DefaultSize
    BY DEF OnlyPagesMisfile
  <2>1. cache[k] \in built /\ cache[k].key = k /\ cache[k].by \in Calls
    BY DEF ScopeInv, IInv, TypeOK, OriginInv, Predictors
  <2> QED BY <2>1 DEF ScopeInv, OriginInv, Calls
<1> QED BY <1>1, ScopeInductive, PTL

(***************************************************************************)
(* "try with smaller batch sizes" (run_doctr_batch) holds of every retry   *)
(* but the first, which is sized against a second probe of free memory.    *)
(***************************************************************************)
THEOREM OnlyTheFirstRetryGrows == Spec => LaterRetriesShrink
<1> DEFINE Shrinks == \A b \in Batches : tries[b] > 1 /\ pred'[b] # pred[b]
                        => /\ pred'[b].key.det < pred[b].key.det
                           /\ pred[b].by \in Batches /\ pred'[b].by \in Batches
                                => pred'[b].size.det < pred[b].size.det
<1>1. ScopeInv /\ ScopeInv' /\ [Next]_vars => [Shrinks]_vars
  <2> SUFFICES ASSUME ScopeInv, ScopeInv', Next, NEW b \in Batches, tries[b] > 1, pred'[b] # pred[b]
               PROVE  /\ pred'[b].key.det < pred[b].key.det
                      /\ pred[b].by \in Batches /\ pred'[b].by \in Batches
                           => pred'[b].size.det < pred[b].size.det
    OBVIOUS
  <2> USE DEF ScopeInv
  <2>1. b \in Calls /\ Retrying(b) /\ TypeOK /\ tries[b] \in Nat
    BY DEF RetryInv, Calls, IInv, TypeOK
  <2>2. CacheHit(b) \/ Build(b)
    BY <2>1, CallsAssumption, OneCallMoves
       DEF Untouched, StartBatch, Start, NoDevice, GetPredictor, CacheMiss, NoPredictor, Store, RunOk, RunError, Backoff,
           Dequeue, UndecodableImage, RunOom, RunOomAtFloor, CpuPage, CpuEnd, CpuError
  <2>3. pred'[b] \in built' /\ pred'[b].key = key[b]
    BY <2>2, GotUnderKey
  <2>4. pred[b] \in built /\ key[b].det < pred[b].key.det
    BY <2>1, <2>2 DEF Retrying, CacheHit, Build
  <2>5. /\ pred[b].by \in Batches => pred[b].size = pred[b].key
        /\ pred'[b].by \in Batches => pred'[b].size = pred'[b].key
    BY <2>3, <2>4 DEF OriginInv
  <2> QED BY <2>3, <2>4, <2>5
<1> HIDE DEF Shrinks
<1>2. Spec => [][Shrinks]_vars
  BY <1>1, ScopeInductive, PTL DEF Spec
<1> QED BY <1>2 DEF Shrinks, LaterRetriesShrink
-----------------------------------------------------------------------------
(***************************************************************************)
(* How long a call may take.  CallsEnd, which TLC checks, rests on the     *)
(* executor's fairness; what it needs of the code is that a call cannot go *)
(* on forever, and that is proved: every step of a call takes it nearer to *)
(* its end, whatever the other calls do.                                   *)
(***************************************************************************)
StepsOf(at) ==
  CASE at = "lookup" -> 5
    [] at = "build"  -> 4
    [] at = "store"  -> 3
    [] at = "queued" -> 2
    [] OTHER         -> 1

\* A bound on the steps a call has left: six for a predictor, then its pages.
StepsLeft(c) ==
  IF pc[c] \in Active THEN 6 * (MaxTries - tries[c]) + StepsOf(pc[c]) + req[c].images + 2
  ELSE IF pc[c] = "cpu" THEN req[c].images + 1 - Len(pages[c])
  ELSE 0

(***************************************************************************)
(* A call that started is left alone by a step or comes nearer to its end, *)
(* which is at most 31 steps and one per image away.                       *)
(***************************************************************************)
CallsRunDown ==
  [][\A c \in Calls : pc[c] # "idle" =>
       /\ StepsLeft(c) \in 0 .. req[c].images + 31
       /\ Untouched(c) \/ StepsLeft(c)' < StepsLeft(c)]_vars

LEMMA SumOfSteps ==
  ASSUME NEW l \in 0 .. 24, NEW s \in 1 .. 5, NEW n \in Nat
  PROVE  /\ l + s + n + 2 \in 3 .. n + 31
         /\ \A t \in 1 .. 5 : t < s => l + t + n + 2 < l + s + n + 2
OBVIOUS

LEMMA StepsAreFew ==
  ASSUME NEW at
  PROVE  StepsOf(at) \in 1 .. 5
BY DEF StepsOf

LEMMA RunsLeftAreFew ==
  ASSUME NEW n \in 0 .. 4
  PROVE  6 * (4 - n) \in 0 .. 24
OBVIOUS

LEMMA StepsLeftBounded ==
  ASSUME IInv, NEW c \in Calls
  PROVE  /\ StepsLeft(c) \in 0 .. req[c].images + 31
         /\ tries[c] \in 0 .. 4 /\ req[c].images \in Nat
         /\ Len(pages[c]) \in 0 .. req[c].images
         /\ pc[c] \in Active => tries[c] \in 0 .. 3
<1>1. tries[c] \in 0 .. 4 /\ (pc[c] \in Active => tries[c] \in 0 .. 3)
  <2>1. tries[c] \in Nat
    BY DEF IInv, TypeOK
  <2>2. tries[c] <= 4 /\ (pc[c] \in Active => tries[c] <= 3)
    BY DEF IInv, HalvingInv, Halving
  <2> QED BY <2>1, <2>2
<1>2. req[c].images \in Nat /\ Len(pages[c]) \in 0 .. req[c].images
  BY DEF IInv, TypeOK, PagesInv, InOrder
<1>3. StepsOf(pc[c]) \in 1 .. 5
  BY StepsAreFew
<1>4. 6 * (4 - tries[c]) \in 0 .. 24
  BY <1>1, RunsLeftAreFew
<1>5. CASE pc[c] \in Active
  <2>1. StepsLeft(c) = 6 * (4 - tries[c]) + StepsOf(pc[c]) + req[c].images + 2
    BY <1>5 DEF StepsLeft, MaxTries
  <2>2. StepsLeft(c) \in 0 .. req[c].images + 31
    <3>1. 6 * (4 - tries[c]) + StepsOf(pc[c]) + req[c].images + 2 \in 3 .. req[c].images + 31
      BY <1>2, <1>3, <1>4, SumOfSteps
    <3> QED BY <1>2, <2>1, <3>1
  <2> QED BY <1>1, <1>2, <2>2
<1>6. CASE pc[c] \notin Active
  <2>1. StepsLeft(c) = req[c].images + 1 - Len(pages[c]) \/ StepsLeft(c) = 0
    BY <1>6 DEF StepsLeft
  <2>2. StepsLeft(c) \in 0 .. req[c].images + 31
    BY <1>2, <2>1
  <2> QED BY <1>1, <1>2, <2>2
<1> QED BY <1>5, <1>6

(***************************************************************************)
(* A run that fails leaves fewer steps, on the device or on the CPU.       *)
(***************************************************************************)
LEMMA AnotherRun ==
  ASSUME NEW t \in 0 .. 3, NEW n \in Nat, NEW l \in 0 .. n
  PROVE  /\ 6 * (4 - (t + 1)) + 5 + n + 2 < 6 * (4 - t) + 1 + n + 2
         /\ n + 1 - l < 6 * (4 - t) + 1 + n + 2
OBVIOUS

LEMMA RunNearsEnd ==
  ASSUME IInv, NEW c \in Calls,
         Run(c), req'[c] = req[c], pages'[c] = pages[c],
         pc'[c] \in {"lookup", "cpu"}
  PROVE  StepsLeft(c)' < StepsLeft(c)
<1>1. tries[c] \in 0 .. 3 /\ tries'[c] = tries[c] + 1
  BY RunCounts DEF IInv
<1>2. pc[c] = "run" /\ req[c].images \in Nat /\ Len(pages[c]) \in 0 .. req[c].images
  BY StepsLeftBounded DEF Run
<1>3. StepsLeft(c) = 6 * (4 - tries[c]) + 1 + req[c].images + 2
  BY <1>2 DEF StepsLeft, StepsOf, Active, MaxTries
<1>4. CASE pc'[c] = "lookup"
  <2>1. StepsLeft(c)' = 6 * (4 - tries'[c]) + 5 + req[c].images + 2
    BY <1>4 DEF StepsLeft, StepsOf, Active, MaxTries
  <2> QED BY <1>1, <1>2, <1>3, <2>1, AnotherRun
<1>5. CASE pc'[c] = "cpu"
  <2>1. StepsLeft(c)' = req[c].images + 1 - Len(pages[c])
    BY <1>5 DEF StepsLeft, Active
  <2> QED BY <1>1, <1>2, <1>3, <2>1, AnotherRun
<1> QED BY <1>4, <1>5

(***************************************************************************)
(* An executor that keeps serving a call brings it to its end: no batch    *)
(* retries, waits or falls back forever.                                   *)
(***************************************************************************)
THEOREM EveryStepNearsTheEnd == Spec => CallsRunDown
<1> DEFINE Down == \A c \in Calls : pc[c] # "idle" =>
                     /\ StepsLeft(c) \in 0 .. req[c].images + 31
                     /\ Untouched(c) \/ StepsLeft(c)' < StepsLeft(c)
<1>1. IInv /\ [Next]_vars => [Down]_vars
  <2> SUFFICES ASSUME IInv, Next, NEW c \in Calls, pc[c] # "idle", ~Untouched(c)
               PROVE  StepsLeft(c)' < StepsLeft(c)
    BY StepsLeftBounded
  <2> USE DEF IInv
  <2>1. /\ tries[c] \in 0 .. 4 /\ req[c].images \in Nat
        /\ Len(pages[c]) \in 0 .. req[c].images
        /\ pc[c] \in Active => tries[c] \in 0 .. 3
    BY StepsLeftBounded
  <2>2. CASE GetPredictor(c) \/ Dequeue(c) \/ UndecodableImage(c)
    <3>1. /\ pc[c] \in {"lookup", "build", "store", "queued"}
          /\ tries'[c] = tries[c] /\ req'[c] = req[c]
          /\ pc'[c] = "failed" \/ (pc'[c] \in Active /\ StepsOf(pc'[c]) < StepsOf(pc[c]))
      BY <2>2 DEF GetPredictor, CacheHit, CacheMiss, Build, NoPredictor, Store, Dequeue, UndecodableImage,
                  AfterPredictor, StepsOf, Active, TypeOK
    <3>2. /\ StepsOf(pc[c]) \in 1 .. 5 /\ StepsOf(pc'[c]) \in 1 .. 5
          /\ 6 * (4 - tries[c]) \in 0 .. 24
      BY <2>1, StepsAreFew, RunsLeftAreFew
    <3>3. StepsLeft(c) = 6 * (4 - tries[c]) + StepsOf(pc[c]) + req[c].images + 2
      BY <3>1 DEF StepsLeft, Active, MaxTries
    <3>4. CASE pc'[c] = "failed"
      <4>1. StepsLeft(c)' = 0
        BY <3>4 DEF StepsLeft, Active
      <4>2. StepsLeft(c) \in 3 .. req[c].images + 31
        BY <2>1, <3>2, <3>3, SumOfSteps
      <4> QED BY <2>1, <4>1, <4>2
    <3>5. CASE pc'[c] \in Active /\ StepsOf(pc'[c]) < StepsOf(pc[c])
      <4>1. StepsLeft(c)' = 6 * (4 - tries[c]) + StepsOf(pc'[c]) + req[c].images + 2
        BY <3>1, <3>5 DEF StepsLeft, MaxTries
      <4> QED BY <2>1, <3>2, <3>3, <3>5, <4>1, SumOfSteps
    <3> QED BY <3>1, <3>4, <3>5
  <2>3. CASE RunOk(c) \/ RunError(c)
    <3>1. pc[c] = "run" /\ pc'[c] \in {"done", "failed"}
      BY <2>3 DEF RunOk, RunError, Run, TypeOK
    <3>2. StepsLeft(c)' = 0 /\ StepsLeft(c) = 6 * (4 - tries[c]) + 1 + req[c].images + 2
      BY <3>1 DEF StepsLeft, StepsOf, Active, MaxTries
    <3> QED BY <2>1, <3>1, <3>2 DEF Active
  <2>4. CASE RunOom(c) \/ RunOomAtFloor(c)
    <3>1. Run(c) /\ req'[c] = req[c] /\ pages'[c] = pages[c] /\ pc'[c] \in {"lookup", "cpu"}
      BY <2>4 DEF RunOom, RunOomAtFloor, TypeOK
    <3> QED BY <3>1, RunNearsEnd
  <2>5. CASE CpuPage(c)
    <3>1. /\ pc[c] = "cpu" /\ pc'[c] = "cpu" /\ req'[c] = req[c]
          /\ pages'[c] = Append(pages[c], Len(pages[c]) + 1) /\ pages[c] \in Seq(Nat)
      BY <2>5 DEF CpuPage, TypeOK
    <3>2. Len(pages'[c]) = Len(pages[c]) + 1
      BY <3>1
    <3> QED BY <2>1, <3>1, <3>2 DEF StepsLeft, Active
  <2>6. CASE CpuEnd(c) \/ CpuError(c)
    <3>1. pc[c] = "cpu" /\ pc'[c] \in {"done", "failed"}
      BY <2>6 DEF CpuEnd, CpuError, TypeOK
    <3> QED BY <2>1, <3>1 DEF StepsLeft, Active
  <2> QED BY <2>2, <2>3, <2>4, <2>5, <2>6, OneCallMoves
         DEF StartBatch, StartPage, Start, StockStage, StockStageFails, NoDevice, Backoff
<1> HIDE DEF Down
<1>2. Spec => [][Down]_vars
  BY <1>1, Inductive, PTL DEF Spec
<1> QED BY <1>2 DEF Down, CallsRunDown
=============================================================================
