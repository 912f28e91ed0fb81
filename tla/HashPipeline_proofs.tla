------------------------- MODULE HashPipeline_proofs -------------------------
(***************************************************************************)
(* Lemmas about the steps of the hashing pipeline, which IntegrityCheck    *)
(* and SnapshotTool share: what they preserve, whatever consumes the       *)
(* digests and whatever changes the files between them.                    *)
(***************************************************************************)
EXTENDS HashPipeline, FiniteSetTheorems, TLAPS

-----------------------------------------------------------------------------
(* Types.                                                                  *)

\* What types alone do not say and their preservation needs: the walker
\* visits a directory that exists, and a worker past "recv" holds a file.
Shape ==
    /\ dir <= Len(base) + 1
    /\ walker = "visit" => dir <= Len(base)
    /\ \A w \in Worker : wpc[w] \in {"check", "hash", "send"} =>
                             item[w] \in FileHash

LEMMA CapNat == Cap \in Nat
BY PipelineAssumption, FS_CardinalityType DEF Cap

\* The pipeline's own steps leave the files, the processes and the context
\* alone.
LEMMA PipelineFrame ==
    ASSUME PipelineNext
    PROVE  UNCHANGED <<fs, live, base, ctxDone>>
BY DEF PipelineNext, WalkerNext, WalkOpen, WalkFail, WalkCancelled,
       WalkDirEnd, WalkSend, WalkClose, WorkerNext, WorkerCheck, WorkerHash,
       WorkerSkip, WorkerSend, WorkerEnd, CloseHashes

LEMMA PipelineTypeStep ==
    ASSUME PipelineTypeOK, Shape, PipelineNext
    PROVE  PipelineTypeOK' /\ Shape'
<1> USE PipelineAssumption, CapNat DEF PipelineTypeOK, Shape
<1>1. CASE WalkOpen
  BY <1>1 DEF WalkOpen, Listing
<1>2. CASE WalkFail
  BY <1>2 DEF WalkFail, NextDir
<1>3. CASE WalkCancelled
  BY <1>3 DEF WalkCancelled, NextDir
<1>4. CASE WalkDirEnd
  BY <1>4 DEF WalkDirEnd, NextDir
<1>5. ASSUME NEW w \in Worker, NEW f \in File, WalkSend(w, f)
      PROVE  PipelineTypeOK' /\ Shape'
  <2>1. base[dir] \in Pid
    BY <1>5 DEF WalkSend
  <2>2. [pid |-> base[dir], file |-> f, hash |-> Absent] \in FileHash
    BY <2>1 DEF FileHash, Value
  <2> QED
    BY <1>5, <2>2 DEF WalkSend
<1>6. CASE WalkClose
  BY <1>6 DEF WalkClose
<1>7. ASSUME NEW w \in Worker, WorkerCheck(w)
      PROVE  PipelineTypeOK' /\ Shape'
  BY <1>7 DEF WorkerCheck, Move
<1>8. ASSUME NEW w \in Worker, WorkerHash(w)
      PROVE  PipelineTypeOK' /\ Shape'
  <2>1. item[w] \in FileHash
    BY <1>8 DEF WorkerHash
  <2>2. [item[w] EXCEPT !.hash = fs[item[w].file]] \in FileHash
    BY <2>1 DEF FileHash
  <2> QED
    BY <1>8, <2>1, <2>2 DEF WorkerHash, Move
<1>9. ASSUME NEW w \in Worker, WorkerSkip(w)
      PROVE  PipelineTypeOK' /\ Shape'
  BY <1>9 DEF WorkerSkip, AfterReadError, Move
<1>10. ASSUME NEW w \in Worker, WorkerSend(w)
       PROVE  PipelineTypeOK' /\ Shape'
  <2>1. item[w] \in FileHash
    BY <1>10 DEF WorkerSend
  <2>2. /\ hashC' \in Seq(FileHash)
        /\ Len(hashC') <= Cap
    BY <1>10, <2>1 DEF WorkerSend, Room
  <2> QED
    BY <1>10, <2>2 DEF WorkerSend, Move
<1>11. ASSUME NEW w \in Worker, WorkerEnd(w)
       PROVE  PipelineTypeOK' /\ Shape'
  BY <1>11 DEF WorkerEnd, Move
<1>12. CASE CloseHashes
  BY <1>12 DEF CloseHashes
<1> QED
  BY <1>1, <1>2, <1>3, <1>4, <1>5, <1>6, <1>7, <1>8, <1>9, <1>10, <1>11,
     <1>12 DEF PipelineNext, WalkerNext, WorkerNext

-----------------------------------------------------------------------------
(* How far the pipeline has come.                                          *)

\* A worker ends only behind the walker or the context, and the channel of
\* digests is closed behind the last worker.
InStep ==
    /\ walker = "closed" => dir = Len(base) + 1
    /\ walker = "visit" => todo \subseteq Roots[dir]
    /\ \A w \in Worker : wpc[w] = "done" => walker = "closed" \/ ctxDone
    /\ ~ hashOpen => AllDone

LEMMA InStepPipeline ==
    ASSUME PipelineTypeOK, Shape, InStep, PipelineNext
    PROVE  InStep'
<1> USE PipelineFrame DEF InStep, AllDone, PipelineTypeOK
<1>1. CASE WalkOpen
  BY <1>1 DEF WalkOpen, Listing
<1>2. CASE WalkFail \/ WalkCancelled \/ WalkDirEnd
  BY <1>2 DEF WalkFail, WalkCancelled, WalkDirEnd, NextDir
<1>3. ASSUME NEW w \in Worker, NEW f \in File, WalkSend(w, f)
      PROVE  InStep'
  BY <1>3 DEF WalkSend
<1>4. CASE WalkClose
  BY <1>4 DEF WalkClose, Shape
<1>5. ASSUME NEW w \in Worker, WorkerCheck(w)
      PROVE  InStep'
  BY <1>5 DEF WorkerCheck, Move
<1>6. ASSUME NEW w \in Worker, WorkerHash(w) \/ WorkerSkip(w) \/ WorkerSend(w)
      PROVE  InStep'
  BY <1>6 DEF WorkerHash, WorkerSkip, AfterReadError, WorkerSend, Move
<1>7. ASSUME NEW w \in Worker, WorkerEnd(w)
      PROVE  InStep'
  BY <1>7 DEF WorkerEnd, Move
<1>8. CASE CloseHashes
  BY <1>8 DEF CloseHashes
<1> QED
  BY <1>1, <1>2, <1>3, <1>4, <1>5, <1>6, <1>7, <1>8
     DEF PipelineNext, WalkerNext, WorkerNext

\* A pipeline that was not started, or whose workers have ended, produces
\* nothing: a walker left behind moves alone.
Idle == hashC = <<>> /\ \A w \in Worker : wpc[w] \in {"off", "done"}

LEMMA IdlePipeline ==
    ASSUME Idle, PipelineNext
    PROVE  Idle'
BY DEF Idle, PipelineNext, WalkerNext, WalkOpen, WalkFail, WalkCancelled,
       WalkDirEnd, WalkSend, WalkClose, WorkerNext, WorkerCheck, WorkerHash,
       WorkerSkip, WorkerSend, WorkerEnd, CloseHashes

-----------------------------------------------------------------------------
(* Every digest in the pipeline is one its file really had: Had[f] is a    *)
(* set of contents that includes what f holds whenever it is read.         *)

DigestsIn(Had) ==
    /\ \A w \in Worker :
          wpc[w] = "send" => item[w].hash \in Had[item[w].file] \ {Absent}
    /\ \A i \in 1 .. Len(hashC) :
          hashC[i].hash \in Had[hashC[i].file] \ {Absent}

LEMMA DigestsPipeline ==
    ASSUME NEW Had, \A f \in File : fs[f] \in Had[f],
           PipelineTypeOK, Shape, DigestsIn(Had), PipelineNext
    PROVE  DigestsIn(Had)'
<1> USE DEF DigestsIn, PipelineTypeOK, Shape
<1>1. CASE WalkOpen \/ WalkFail \/ WalkCancelled \/ WalkDirEnd \/ WalkClose
           \/ CloseHashes
  BY <1>1 DEF WalkOpen, WalkFail, WalkCancelled, WalkDirEnd, WalkClose,
              CloseHashes
<1>2. ASSUME NEW w \in Worker, NEW f \in File, WalkSend(w, f)
      PROVE  DigestsIn(Had)'
  BY <1>2 DEF WalkSend
<1>3. ASSUME NEW w \in Worker, WorkerCheck(w) \/ WorkerSkip(w) \/ WorkerEnd(w)
      PROVE  DigestsIn(Had)'
  BY <1>3 DEF WorkerCheck, WorkerSkip, AfterReadError, WorkerEnd, Move
<1>4. ASSUME NEW w \in Worker, WorkerHash(w)
      PROVE  DigestsIn(Had)'
  <2>1. item[w] \in FileHash
    BY <1>4 DEF WorkerHash
  <2>2. /\ item'[w].file = item[w].file
        /\ item'[w].hash = fs[item[w].file]
    BY <1>4, <2>1 DEF WorkerHash, FileHash
  <2>3. fs[item[w].file] \in Had[item[w].file] \ {Absent}
    BY <1>4, <2>1 DEF WorkerHash, FileHash, Readable
  <2>4. \A v \in Worker \ {w} : item'[v] = item[v] /\ wpc'[v] = wpc[v]
    BY <1>4 DEF WorkerHash, Move
  <2> QED
    BY <1>4, <2>2, <2>3, <2>4 DEF WorkerHash
<1>5. ASSUME NEW w \in Worker, WorkerSend(w)
      PROVE  DigestsIn(Had)'
  <2>1. item[w] \in FileHash
    BY <1>5 DEF WorkerSend
  <2>2. item[w].hash \in Had[item[w].file] \ {Absent}
    BY <1>5 DEF WorkerSend
  <2>3. \A i \in 1 .. Len(hashC') :
            hashC'[i].hash \in Had[hashC'[i].file] \ {Absent}
    BY <1>5, <2>1, <2>2 DEF WorkerSend
  <2> QED
    BY <1>5, <2>3 DEF WorkerSend, Move
<1> QED
  BY <1>1, <1>2, <1>3, <1>4, <1>5 DEF PipelineNext, WalkerNext, WorkerNext

-----------------------------------------------------------------------------
(* Where a file is.                                                        *)

\* The walker has looked at f and handed it over, if it was there.
Passed(f) ==
    \E d \in DOMAIN Roots :
        /\ f \in Roots[d]
        /\ \/ d < dir
           \/ d = dir /\ walker = "visit" /\ f \notin todo

\* a worker holds it, or its digest waits in the channel
Busy(w) == wpc[w] \in {"check", "hash", "send"}
Held(w, f) == Busy(w) /\ item[w].file = f
Queued(i, f) == i \in 1 .. Len(hashC) /\ hashC[i].file = f

\* The walker never turns back.
LEMMA PassedGrows ==
    ASSUME PipelineTypeOK, PipelineNext, NEW f \in File, Passed(f)
    PROVE  Passed(f)'
<1> USE DEF Passed, PipelineTypeOK
<1>1. CASE WalkOpen
  BY <1>1 DEF WalkOpen
<1>2. CASE WalkFail \/ WalkCancelled \/ WalkDirEnd
  BY <1>2 DEF WalkFail, WalkCancelled, WalkDirEnd, NextDir
<1>3. ASSUME NEW w \in Worker, NEW g \in File, WalkSend(w, g)
      PROVE  Passed(f)'
  BY <1>3 DEF WalkSend
<1>4. CASE WalkClose
  BY <1>4 DEF WalkClose
<1>5. ASSUME NEW w \in Worker, WorkerNext(w)
      PROVE  Passed(f)'
  BY <1>5 DEF WorkerNext, WorkerCheck, WorkerHash, WorkerSkip, WorkerSend,
              WorkerEnd
<1>6. CASE CloseHashes
  BY <1>6 DEF CloseHashes
<1> QED
  BY <1>1, <1>2, <1>3, <1>4, <1>5, <1>6 DEF PipelineNext, WalkerNext

-----------------------------------------------------------------------------
(* Only files of the monitored directories are in the pipeline.            *)

Listable == UNION {Roots[d] : d \in DOMAIN Roots}

InTree ==
    /\ \A w \in Worker : Busy(w) => item[w].file \in Listable
    /\ \A i \in 1 .. Len(hashC) : hashC[i].file \in Listable

LEMMA InTreePipeline ==
    ASSUME PipelineTypeOK, Shape, InStep, InTree, PipelineNext
    PROVE  InTree'
<1> USE DEF InTree, Busy, PipelineTypeOK, Shape
<1>1. CASE UNCHANGED <<wpc, item, hashC>>
  BY <1>1
<1>2. ASSUME NEW w \in Worker, NEW f \in File, WalkSend(w, f)
      PROVE  InTree'
  <2>1. dir \in DOMAIN Roots /\ f \in Roots[dir]
    BY <1>2, PipelineAssumption DEF WalkSend, InStep
  <2>2. f \in Listable
    BY <2>1 DEF Listable
  <2>3. /\ \A v \in Worker \ {w} : wpc'[v] = wpc[v] /\ item'[v] = item[v]
        /\ item'[w].file = f
        /\ hashC' = hashC
    BY <1>2 DEF WalkSend
  <2> QED
    BY <2>2, <2>3
<1>3. ASSUME NEW w \in Worker, WorkerCheck(w) \/ WorkerSkip(w) \/ WorkerEnd(w)
      PROVE  InTree'
  BY <1>3 DEF WorkerCheck, WorkerSkip, AfterReadError, WorkerEnd, Move
<1>4. ASSUME NEW w \in Worker, WorkerHash(w)
      PROVE  InTree'
  <2>1. item'[w].file = item[w].file
    BY <1>4 DEF WorkerHash, FileHash
  <2> QED
    BY <1>4, <2>1 DEF WorkerHash, Move
<1>5. ASSUME NEW w \in Worker, WorkerSend(w)
      PROVE  InTree'
  <2>1. item[w] \in FileHash /\ item[w].file \in Listable
    BY <1>5 DEF WorkerSend
  <2>2. \A i \in 1 .. Len(hashC') : hashC'[i].file \in Listable
    BY <1>5, <2>1 DEF WorkerSend
  <2> QED
    BY <1>5, <2>2 DEF WorkerSend, Move
<1> QED
  BY <1>1, <1>2, <1>3, <1>4, <1>5 DEF PipelineNext, WalkerNext, WorkerNext,
     WalkOpen, WalkFail, WalkCancelled, WalkDirEnd, WalkClose, CloseHashes

-----------------------------------------------------------------------------
(* Sole: a file the walker has passed is in at most one place - one        *)
(* worker, one place of the channel, or Gone, the files that the consumer  *)
(* has received - unless it is under two of the monitored directories.     *)

InPool(Gone) ==
    \A w \in Worker, f \in File : Held(w, f) =>
        /\ Passed(f)
        /\ f \notin Repeated =>
              /\ f \notin Gone
              /\ \A v \in Worker \ {w} : ~ Held(v, f)
              /\ \A i \in 1 .. Len(hashC) : ~ Queued(i, f)

InChannel(Gone) ==
    \A i \in 1 .. Len(hashC), f \in File : Queued(i, f) =>
        /\ Passed(f)
        /\ f \notin Repeated =>
              /\ f \notin Gone
              /\ \A j \in 1 .. Len(hashC) \ {i} : ~ Queued(j, f)

Sole(Gone) ==
    /\ InPool(Gone)
    /\ InChannel(Gone)
    /\ \A f \in Gone : Passed(f)

\* A file that is still to be handed over is in no other directory, so the
\* walker has not passed it.
LEMMA ListedNotPassed ==
    ASSUME PipelineTypeOK, Shape, InStep, walker = "visit",
           Len(base) <= Len(Roots), NEW f \in todo
    PROVE  /\ dir \in DOMAIN Roots /\ f \in Roots[dir]
           /\ f \notin Repeated => ~ Passed(f)
<1>1. f \in Roots[dir] /\ dir \in DOMAIN Roots /\ f \in File
  BY PipelineAssumption DEF InStep, PipelineTypeOK, Shape
<1>2. ASSUME f \notin Repeated, NEW d \in DOMAIN Roots, f \in Roots[d]
      PROVE  d = dir
  BY <1>1, <1>2 DEF Repeated
<1>3. DOMAIN Roots \subseteq Nat
  BY PipelineAssumption
<1> QED
  BY <1>1, <1>2, <1>3 DEF Passed, PipelineTypeOK

LEMMA SolePipeline ==
    ASSUME NEW Gone \in SUBSET File,
           PipelineTypeOK, Shape, InStep, Sole(Gone), PipelineNext
    PROVE  Sole(Gone)'
<1>1. InPool(Gone) /\ InChannel(Gone)
  BY DEF Sole
<1>2. \A f \in File : Passed(f) => Passed(f)'
  BY PassedGrows
<1>3. (\A f \in Gone : Passed(f))'
  BY <1>2 DEF Sole
<1>4. InPool(Gone)' /\ InChannel(Gone)'
  <2>1. CASE UNCHANGED <<wpc, item, hashC>>
    <3>1. /\ \A w \in Worker, f \in File : Held(w, f)' <=> Held(w, f)
          /\ \A f \in File : \A i : Queued(i, f)' <=> Queued(i, f)
      BY <2>1 DEF Held, Busy, Queued
    <3> QED
      BY <2>1, <3>1, <1>1, <1>2 DEF InPool, InChannel
  <2>2. ASSUME NEW w \in Worker, NEW f \in File, WalkSend(w, f)
        PROVE  InPool(Gone)' /\ InChannel(Gone)'
    <3>1. /\ dir \in DOMAIN Roots /\ f \in Roots[dir]
          /\ f \notin Repeated => ~ Passed(f)
      BY <2>2, ListedNotPassed DEF WalkSend, PipelineTypeOK
    <3>2. Passed(f)'
      BY <2>2, <3>1 DEF WalkSend, Passed
    <3>3. /\ \A v \in Worker \ {w}, g \in File : Held(v, g)' <=> Held(v, g)
          /\ \A g \in File : Held(w, g)' <=> g = f
          /\ \A g \in File : ~ Held(w, g)
      BY <2>2 DEF WalkSend, Held, Busy, PipelineTypeOK
    <3>4. /\ \A g \in File : \A i : Queued(i, g)' <=> Queued(i, g)
          /\ UNCHANGED hashC
      BY <2>2 DEF WalkSend, Queued
    <3>5. f \notin Repeated =>
              /\ f \notin Gone
              /\ \A v \in Worker : ~ Held(v, f)
              /\ \A i \in 1 .. Len(hashC) : ~ Queued(i, f)
      BY <3>1 DEF Sole, InPool, InChannel
    <3>6. InPool(Gone)'
      BY <3>2, <3>3, <3>4, <3>5, <1>1, <1>2 DEF InPool
    <3>7. InChannel(Gone)'
      BY <3>4, <1>1, <1>2 DEF InChannel
    <3> QED
      BY <3>6, <3>7
  <2>3. ASSUME NEW w \in Worker,
               WorkerCheck(w) \/ WorkerSkip(w) \/ WorkerEnd(w)
        PROVE  InPool(Gone)' /\ InChannel(Gone)'
    <3>1. /\ \A v \in Worker, g \in File : Held(v, g)' => Held(v, g)
          /\ \A g \in File : \A i : Queued(i, g)' <=> Queued(i, g)
          /\ UNCHANGED hashC
      BY <2>3 DEF WorkerCheck, WorkerSkip, WorkerEnd, AfterReadError, Move,
                  Held, Busy, Queued, PipelineTypeOK
    <3> QED
      BY <3>1, <1>1, <1>2 DEF InPool, InChannel
  <2>4. ASSUME NEW w \in Worker, WorkerHash(w)
        PROVE  InPool(Gone)' /\ InChannel(Gone)'
    <3>1. item[w] \in FileHash
      BY <2>4 DEF WorkerHash, Shape
    <3>2. /\ \A v \in Worker, g \in File : Held(v, g)' => Held(v, g)
          /\ \A g \in File : \A i : Queued(i, g)' <=> Queued(i, g)
          /\ UNCHANGED hashC
      BY <2>4, <3>1 DEF WorkerHash, Move, Held, Busy, Queued, FileHash,
                        PipelineTypeOK
    <3> QED
      BY <3>2, <1>1, <1>2 DEF InPool, InChannel
  <2>5. ASSUME NEW w \in Worker, WorkerSend(w)
        PROVE  InPool(Gone)' /\ InChannel(Gone)'
    <3>1. item[w] \in FileHash /\ hashC \in Seq(FileHash)
      BY <2>5 DEF WorkerSend, PipelineTypeOK, Shape
    <3> PICK n \in Nat : n = Len(hashC)
      BY <3>1
    <3>2. /\ Len(hashC') = n + 1
          /\ hashC'[n + 1] = item[w]
          /\ \A i \in 1 .. n : hashC'[i] = hashC[i]
      BY <2>5, <3>1 DEF WorkerSend
    <3>3. \A g \in File : Held(w, g) <=> item[w].file = g
      BY <2>5 DEF WorkerSend, Held, Busy
    <3>4. /\ \A v \in Worker \ {w}, g \in File : Held(v, g)' <=> Held(v, g)
          /\ \A g \in File : ~ Held(w, g)'
      BY <2>5 DEF WorkerSend, Move, Held, Busy, PipelineTypeOK
    <3>5. /\ \A g \in File, i \in 1 .. n : Queued(i, g)' <=> Queued(i, g)
          /\ \A g \in File : Queued(n + 1, g)' <=> Held(w, g)
      BY <3>2, <3>3 DEF Queued
    <3>6. (1 .. Len(hashC))' = 1 .. n \cup {n + 1}
      BY <3>2
    <3>7. InPool(Gone)'
      BY <3>4, <3>5, <3>6, <1>1, <1>2 DEF InPool
    <3>8. InChannel(Gone)'
      BY <3>4, <3>5, <3>6, <1>1, <1>2 DEF InPool, InChannel
    <3> QED
      BY <3>7, <3>8
  <2> QED
    BY <2>1, <2>2, <2>3, <2>4, <2>5 DEF PipelineNext, WalkerNext, WorkerNext,
       WalkOpen, WalkFail, WalkCancelled, WalkDirEnd, WalkClose, CloseHashes
<1> QED
  BY <1>3, <1>4 DEF Sole

-----------------------------------------------------------------------------
(* Found: no file that a directory which can be listed led to is lost      *)
(* before the consumer receives it, unless it could not be read.           *)

\* The walker has looked at f in a directory that can be listed.
Looked(f) ==
    \E d \in DOMAIN Roots \ FlakyDir :
        /\ f \in Roots[d]
        /\ \/ d < dir
           \/ d = dir /\ walker = "visit" /\ f \notin todo

\* The trees that are walked and read through are there.
Alive ==
    /\ \A d \in 1 .. Len(base) : base[d] \in live
    /\ \A w \in Worker : Busy(w) => item[w].pid \in live

\* A context that is done finds nothing left to drop.
Calm == ctxDone => walker # "visit" /\ \A w \in Worker : ~ Busy(w)

Found(f, Gone) ==
    \/ \E w \in Worker : Held(w, f)
    \/ \E i \in 1 .. Len(hashC) : Queued(i, f)
    \/ f \in Gone

LEMMA AlivePipeline ==
    ASSUME PipelineTypeOK, Shape, Alive, PipelineNext
    PROVE  Alive'
<1> USE PipelineFrame DEF Alive, Busy, PipelineTypeOK, Shape
<1>1. CASE UNCHANGED <<wpc, item>>
  BY <1>1
<1>2. ASSUME NEW w \in Worker, NEW f \in File, WalkSend(w, f)
      PROVE  Alive'
  <2>1. base[dir] \in live
    BY <1>2 DEF WalkSend
  <2>2. /\ \A v \in Worker \ {w} : wpc'[v] = wpc[v] /\ item'[v] = item[v]
        /\ item'[w].pid = base[dir]
    BY <1>2 DEF WalkSend
  <2> QED
    BY <2>1, <2>2
<1>3. ASSUME NEW w \in Worker,
             WorkerCheck(w) \/ WorkerSkip(w) \/ WorkerSend(w) \/ WorkerEnd(w)
      PROVE  Alive'
  BY <1>3 DEF WorkerCheck, WorkerSkip, AfterReadError, WorkerSend, WorkerEnd,
     Move
<1>4. ASSUME NEW w \in Worker, WorkerHash(w)
      PROVE  Alive'
  <2>1. item'[w].pid = item[w].pid
    BY <1>4 DEF WorkerHash, FileHash
  <2> QED
    BY <1>4, <2>1 DEF WorkerHash, Move
<1> QED
  BY <1>1, <1>2, <1>3, <1>4 DEF PipelineNext, WalkerNext, WorkerNext,
     WalkOpen, WalkFail, WalkCancelled, WalkDirEnd, WalkClose, CloseHashes

LEMMA FoundPipeline ==
    ASSUME NEW Gone, \A f \in File : fs[f] = Absent => f \in Gone,
           FlakyFile \subseteq Gone,
           PipelineTypeOK, Shape, Alive, Calm,
           \A f \in File : Looked(f) => Found(f, Gone),
           PipelineNext, NEW f \in File, Looked(f)'
    PROVE  Found(f, Gone)'
<1>1. Looked(f) => Found(f, Gone)
  OBVIOUS
<1>2. CASE WalkerNext
  <2>1. /\ UNCHANGED hashC
        /\ \A i \in 1 .. Len(hashC) : Queued(i, f)' <=> Queued(i, f)
    BY <1>2 DEF WalkerNext, WalkOpen, WalkFail, WalkCancelled, WalkDirEnd,
                WalkSend, WalkClose, Queued
  <2>2. CASE WalkOpen
    <3>1. \A w \in Worker : Held(w, f)' <=> Held(w, f)
      BY <2>2 DEF WalkOpen, Held, Busy
    <3>2. ~ Looked(f) => f \in Roots[dir] \ Listing(dir)
      BY <2>2 DEF WalkOpen, Looked
    <3>3. ~ Looked(f) => f \in Gone
      BY <3>2 DEF Listing
    <3> QED
      BY <2>1, <3>1, <3>3, <1>1 DEF Found
  <2>3. CASE WalkFail
    <3>1. dir \in 1 .. Len(base)
      BY <2>3 DEF WalkFail, PipelineTypeOK, Shape
    <3>2. dir \in FlakyDir
      BY <2>3, <3>1 DEF WalkFail, Alive
    <3>3. Looked(f)
      BY <2>3, <3>2, PipelineAssumption DEF WalkFail, NextDir, Looked,
         PipelineTypeOK
    <3>4. \A w \in Worker : Held(w, f)' <=> Held(w, f)
      BY <2>3 DEF WalkFail, Held, Busy
    <3> QED
      BY <2>1, <3>3, <3>4, <1>1 DEF Found
  <2>4. CASE WalkCancelled
    BY <2>4 DEF WalkCancelled, CtxCase, Calm
  <2>5. CASE WalkDirEnd \/ WalkClose
    <3>1. \A w \in Worker : Held(w, f)' <=> Held(w, f)
      BY <2>5 DEF WalkDirEnd, WalkClose, Held, Busy
    <3>2. Looked(f)
      BY <2>5 DEF WalkDirEnd, WalkClose, NextDir, Looked, PipelineTypeOK
    <3> QED
      BY <2>1, <3>1, <3>2, <1>1 DEF Found
  <2>6. ASSUME NEW w \in Worker, NEW g \in File, WalkSend(w, g)
        PROVE  Found(f, Gone)'
    <3>1. /\ \A v \in Worker : Held(v, f) => Held(v, f)'
          /\ f = g => Held(w, f)'
      BY <2>6 DEF WalkSend, Held, Busy, PipelineTypeOK
    <3>2. f # g => Looked(f)
      BY <2>6 DEF WalkSend, Looked
    <3> QED
      BY <2>1, <3>1, <3>2, <1>1 DEF Found
  <2> QED
    BY <1>2, <2>2, <2>3, <2>4, <2>5, <2>6 DEF WalkerNext
<1>3. ASSUME NEW w \in Worker, WorkerNext(w)
      PROVE  Found(f, Gone)'
  <2>1. Looked(f)
    BY <1>3 DEF WorkerNext, WorkerCheck, WorkerHash, WorkerSkip, WorkerSend,
                WorkerEnd, Looked
  <2> USE <2>1, <1>1 DEF Found, PipelineTypeOK
  <2>2. CASE WorkerCheck(w) \/ WorkerEnd(w)
    <3>1. \A v \in Worker : Held(v, f) => Held(v, f)'
      BY <2>2 DEF WorkerCheck, WorkerEnd, Move, Held, Busy, Calm
    <3> QED
      BY <2>2, <3>1 DEF WorkerCheck, WorkerEnd, Queued
  <2>3. CASE WorkerHash(w)
    <3>1. item[w] \in FileHash
      BY <2>3 DEF WorkerHash, Shape
    <3>2. \A v \in Worker : Held(v, f) => Held(v, f)'
      BY <2>3, <3>1 DEF WorkerHash, Move, Held, Busy, FileHash
    <3> QED
      BY <2>3, <3>2 DEF WorkerHash, Queued
  <2>4. CASE WorkerSkip(w)
    <3>1. Held(w, f) => f \in Gone
      BY <2>4 DEF WorkerSkip, Held, Busy, Alive, Readable
    <3>2. \A v \in Worker \ {w} : Held(v, f) => Held(v, f)'
      BY <2>4 DEF WorkerSkip, AfterReadError, Move, Held, Busy
    <3> QED
      BY <2>4, <3>1, <3>2 DEF WorkerSkip, Queued
  <2>5. CASE WorkerSend(w)
    <3>1. item[w] \in FileHash
      BY <2>5 DEF WorkerSend, Shape
    <3> PICK n \in Nat : n = Len(hashC)
      OBVIOUS
    <3>2. /\ Len(hashC') = n + 1
          /\ hashC'[n + 1] = item[w]
          /\ \A i \in 1 .. n : hashC'[i] = hashC[i]
      BY <2>5, <3>1 DEF WorkerSend
    <3>3. Held(w, f) => Queued(n + 1, f)' /\ n + 1 \in (1 .. Len(hashC))'
      BY <3>2 DEF Held, Queued
    <3>4. ASSUME NEW i \in 1 .. n, Queued(i, f)
          PROVE  Queued(i, f)' /\ i \in (1 .. Len(hashC))'
      <4>1. i \in 1 .. n + 1
        OBVIOUS
      <4> QED
        BY <3>2, <3>4, <4>1 DEF Queued
    <3>5. \A v \in Worker \ {w} : Held(v, f) => Held(v, f)'
      BY <2>5 DEF WorkerSend, Move, Held, Busy
    <3>6. CASE f \in Gone
      BY <3>6
    <3>7. CASE \E v \in Worker : Held(v, f)
      BY <3>3, <3>5, <3>7
    <3>8. CASE \E i \in 1 .. n : Queued(i, f)
      BY <3>4, <3>8
    <3> QED
      BY <3>6, <3>7, <3>8
  <2> QED
    BY <1>3, <2>2, <2>3, <2>4, <2>5 DEF WorkerNext
<1>4. CASE CloseHashes
  BY <1>4, <1>1 DEF CloseHashes, Looked, Found, Held, Busy, Queued
<1> QED
  BY <1>2, <1>3, <1>4 DEF PipelineNext

-----------------------------------------------------------------------------
(* The consumer receives a digest: those behind it move up by one.         *)

LEMMA Received ==
    ASSUME hashC \in Seq(FileHash), hashC # <<>>, hashC' = Tail(hashC)
    PROVE  /\ Head(hashC) \in FileHash
           /\ Head(hashC) = hashC[1]
           /\ Queued(1, Head(hashC).file)
           /\ \A i \in (1 .. Len(hashC))', f \in File :
                 /\ i + 1 \in 1 .. Len(hashC)
                 /\ i + 1 # 1
                 /\ hashC'[i] = hashC[i + 1]
                 /\ Queued(i, f)' <=> Queued(i + 1, f)
           /\ \A i \in 1 .. Len(hashC), f \in File :
                 Queued(i, f) /\ i # 1 => \E j \in (1 .. Len(hashC))' :
                                              Queued(j, f)'
<1> PICK n \in Nat : n = Len(hashC)
  OBVIOUS
<1>1. /\ n >= 1
      /\ Len(hashC') = n - 1
      /\ \A i \in 1 .. n - 1 : hashC'[i] = hashC[i + 1]
      /\ Head(hashC) = hashC[1]
  OBVIOUS
<1>2. \A i \in 1 .. n - 1, f \in File :
          /\ i + 1 \in 1 .. n
          /\ i + 1 # 1
          /\ Queued(i, f)' <=> Queued(i + 1, f)
  BY <1>1 DEF Queued
<1>3. \A i \in 1 .. n, f \in File :
          Queued(i, f) /\ i # 1 => i - 1 \in 1 .. n - 1 /\ Queued(i - 1, f)'
  BY <1>1 DEF Queued
<1>4. (1 .. Len(hashC))' = 1 .. n - 1
  BY <1>1
<1> QED
  BY <1>1, <1>2, <1>3, <1>4 DEF Queued

\* Steps that move no file, and after which the consumer has received no more.
LEMMA SoleKept ==
    ASSUME UNCHANGED <<walker, dir, todo, wpc, item, hashC>>,
           NEW Gone, Sole(Gone), NEW Fewer \in SUBSET Gone
    PROVE  Sole(Fewer)'
<1>1. /\ \A f : Passed(f)' <=> Passed(f)
      /\ \A w, f : Held(w, f)' <=> Held(w, f)
      /\ \A i, f : Queued(i, f)' <=> Queued(i, f)
      /\ UNCHANGED hashC
  BY DEF Passed, Held, Busy, Queued
<1> QED
  BY <1>1 DEF Sole, InPool, InChannel

\* The digest that is received moves from the channel to the consumer.
LEMMA SoleReceive ==
    ASSUME hashC \in Seq(FileHash), hashC # <<>>, hashC' = Tail(hashC),
           UNCHANGED <<walker, dir, todo, wpc, item>>,
           NEW Gone, Sole(Gone), NEW h, h = Head(hashC)
    PROVE  /\ h \in FileHash
           /\ h.file \notin Repeated => h.file \notin Gone
           /\ Sole(Gone \cup {h.file})'
<1>1. h \in FileHash /\ h.file \in File /\ Queued(1, h.file) /\ 1 \in 1 .. Len(hashC)
  BY Received DEF FileHash, Queued
<1>2. /\ Passed(h.file)
      /\ h.file \notin Repeated =>
            /\ h.file \notin Gone
            /\ \A w \in Worker : ~ Held(w, h.file)
            /\ \A i \in 1 .. Len(hashC) : i # 1 => ~ Queued(i, h.file)
  BY <1>1 DEF Sole, InPool, InChannel
<1>3. /\ \A f : Passed(f)' <=> Passed(f)
      /\ \A w, f : Held(w, f)' <=> Held(w, f)
  BY DEF Passed, Held, Busy
<1>4. \A i \in (1 .. Len(hashC))', f \in File :
         /\ i + 1 \in 1 .. Len(hashC)
         /\ i + 1 # 1
         /\ Queued(i, f)' <=> Queued(i + 1, f)
  BY Received
<1>5. InPool(Gone \cup {h.file})'
  BY <1>2, <1>3, <1>4 DEF Sole, InPool
<1>6. InChannel(Gone \cup {h.file})'
  <2> SUFFICES ASSUME NEW i \in (1 .. Len(hashC))', NEW f \in File,
                      Queued(i, f)'
               PROVE  /\ Passed(f)'
                      /\ f \notin Repeated =>
                            /\ f \notin Gone \cup {h.file}
                            /\ \A j \in (1 .. Len(hashC))' \ {i} :
                                  ~ Queued(j, f)'
    BY DEF InChannel
  <2>1. i + 1 \in 1 .. Len(hashC) /\ i + 1 # 1 /\ Queued(i + 1, f)
    BY <1>4
  <2>2. f \notin Repeated => f # h.file
    BY <1>2, <2>1
  <2>3. /\ Passed(f)
        /\ f \notin Repeated =>
              /\ f \notin Gone
              /\ \A j \in 1 .. Len(hashC) : j # i + 1 => ~ Queued(j, f)
    BY <2>1 DEF Sole, InChannel
  <2>4. ASSUME f \notin Repeated, NEW j \in (1 .. Len(hashC))', j # i
        PROVE  ~ Queued(j, f)'
    <3>1. j + 1 # i + 1
      BY <2>4
    <3> QED
      BY <1>4, <2>3, <2>4, <3>1
  <2> QED
    BY <1>3, <2>2, <2>3, <2>4
<1>7. (\A f \in Gone \cup {h.file} : Passed(f))'
  BY <1>2, <1>3 DEF Sole
<1> QED
  BY <1>1, <1>2, <1>5, <1>6, <1>7 DEF Sole
=============================================================================
