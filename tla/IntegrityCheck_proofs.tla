------------------------ MODULE IntegrityCheck_proofs ------------------------
(***************************************************************************)
(* Theorems about IntegrityCheck, for every set of files, workers and      *)
(* processes, every snapshot and every choice of monitored directories.    *)
(***************************************************************************)
EXTENDS IntegrityCheck, HashPipeline_proofs, TLAPS

-----------------------------------------------------------------------------
(* Type correctness.                                                       *)

TypeInv == TypeOK /\ Shape

\* The outcomes the actions form are outcomes.
LEMMA OutcomeType ==
    /\ NoErr \in Outcome
    /\ OtherErr \in Outcome
    /\ \A k \in {"ok", "cancelled"} : ErrOf(k, NoFile) \in Outcome
    /\ \A k \in IntegrityErrors, f \in File : ErrOf(k, f) \in Outcome
BY DEF NoErr, OtherErr, ErrOf, Outcome, NoFile, IntegrityErrors

LEMMA TypeInit == CheckInit => TypeInv
<1> SUFFICES ASSUME CheckInit PROVE TypeInv
  OBVIOUS
<1> USE PipelineAssumption, CheckAssumption DEF CheckInit, PipelineInit
<1>1. PipelineTypeOK
  <2>1. /\ base \in Seq(Pid)
        /\ Len(base) <= Len(Roots)
        /\ dir \in 1 .. Len(Roots) + 1
    OBVIOUS
  <2>2. /\ hashC \in Seq(FileHash)
        /\ Len(hashC) <= Cap
    BY CapNat
  <2>3. /\ wpc \in [Worker -> {"off", "recv", "check", "hash", "send", "done"}]
        /\ item \in [Worker -> FileHash \cup {NoItem}]
    OBVIOUS
  <2> QED
    BY <2>1, <2>2, <2>3 DEF PipelineTypeOK
<1>2. seen \in [File -> SUBSET Value]
  OBVIOUS
<1>3. CheckTypeOK
  <2>1. /\ result \in Outcome
        /\ err \in Outcome
    BY OutcomeType
  <2>2. /\ left \subseteq DOMAIN Snapshot
        /\ cmpPid \in Pid \cup {0}
    OBVIOUS
  <2>3. /\ touches \in 0 .. MaxTouch
        /\ procs \in 0 .. MaxProc
    OBVIOUS
  <2> QED
    BY <1>2, <2>1, <2>2, <2>3 DEF CheckTypeOK
<1>4. Shape
  BY DEF Shape
<1> QED
  BY <1>1, <1>3, <1>4 DEF TypeInv, TypeOK
LEMMA MainTypeStep ==
    ASSUME TypeInv, MainNext
    PROVE  TypeInv'
<1> USE PipelineAssumption, CheckAssumption, CapNat, OutcomeType
        DEF TypeInv, TypeOK, PipelineTypeOK, CheckTypeOK, Shape, mainVars,
            cmpVars, pipeVars, envVars
<1>1. CASE MainPath
  <2>1. PidOf(live) \in Pid
    BY <1>1 DEF MainPath, PidOf
  <2>2. /\ base' \in Seq(Pid)
        /\ Len(base') = Len(base) + 1
        /\ Len(base') <= Len(Roots)
    BY <1>1, <2>1 DEF MainPath
  <2> QED
    BY <1>1, <2>2 DEF MainPath
<1>2. CASE MainNoPid
  BY <1>2 DEF MainNoPid, Decide
<1>3. CASE MainStart
  BY <1>3 DEF MainStart, StartPipeline
<1>4. CASE MainPark
  BY <1>4 DEF MainPark
<1>5. CASE MainOnCtx
  BY <1>5 DEF MainOnCtx, Decide
<1>6. CASE MainOnDone
  BY <1>6 DEF MainOnDone, Decide
<1>7. CASE MainOnDoneClosed
  BY <1>7 DEF MainOnDoneClosed, Decide
<1>8. CASE MainOnErr
  BY <1>8 DEF MainOnErr, Decide, AfterError
<1>9. CASE MainAlert
  BY <1>9 DEF MainAlert
<1>10. CASE MainRestart
  BY <1>10 DEF MainRestart
<1>11. CASE MainCloseErrC
  BY <1>11 DEF MainCloseErrC
<1>12. CASE MainCancel
  BY <1>12 DEF MainCancel
<1> QED
  BY <1>1, <1>2, <1>3, <1>4, <1>5, <1>6, <1>7, <1>8, <1>9, <1>10, <1>11,
     <1>12 DEF MainNext

LEMMA CmpTypeStep ==
    ASSUME TypeInv, CmpNext
    PROVE  TypeInv'
<1> USE PipelineAssumption, CheckAssumption, CapNat, OutcomeType
        DEF TypeInv, TypeOK, PipelineTypeOK, CheckTypeOK, Shape, mainVars,
            cmpVars, pipeVars, envVars, Fail
<1>1. CASE CmpPath
  BY <1>1 DEF CmpPath, PidOf
<1>2. CASE CmpLoad
  BY <1>2 DEF CmpLoad
<1>3. CASE CmpLoadFail
  BY <1>3 DEF CmpLoadFail
<1>4. CASE CmpRecv
  <2>1. /\ Head(hashC) \in FileHash
        /\ hashC' \in Seq(FileHash)
        /\ Len(hashC') <= Cap
    BY <1>4 DEF CmpRecv
  <2>2. Head(hashC).file \in File
    BY <2>1 DEF FileHash
  <2>3. PipelineTypeOK' /\ Shape'
    BY <1>4, <2>1 DEF CmpRecv
  <2>4. CheckTypeOK'
    BY <1>4, <2>2 DEF CmpRecv, CompareHash, IntegrityErrors
  <2> QED
    BY <2>3, <2>4
<1>5. CASE CmpClosed
  <2>1. ASSUME NEW f \in Missing, Fail(ErrOf("deleted", f))
        PROVE  err' \in Outcome
    BY <2>1 DEF Missing, IntegrityErrors
  <2> QED
    BY <1>5, <2>1 DEF CmpClosed
<1>6. CASE CmpPanic
  BY <1>6 DEF CmpPanic
<1> QED
  BY <1>1, <1>2, <1>3, <1>4, <1>5, <1>6 DEF CmpNext

LEMMA EnvTypeStep ==
    ASSUME TypeInv, EnvNext
    PROVE  TypeInv'
<1> USE PipelineAssumption, CheckAssumption, CapNat, OutcomeType
        DEF TypeInv, TypeOK, PipelineTypeOK, CheckTypeOK, Shape, mainVars,
            cmpVars, pipeVars, envVars
<1>1. CASE ParentCancel
  BY <1>1 DEF ParentCancel, Decide
<1>2. ASSUME NEW f \in File, NEW c \in Value, Touch(f, c)
      PROVE  TypeInv'
  BY <1>2 DEF Touch
<1>3. ASSUME NEW p \in Pid, ProcChange(p)
      PROVE  TypeInv'
  BY <1>3 DEF ProcChange
<1> QED
  BY <1>1, <1>2, <1>3 DEF EnvNext

LEMMA TypeInvariant == Spec => []TypeInv
<1>1. TypeInv /\ [Next]_vars => TypeInv'
  <2> SUFFICES ASSUME TypeInv, [Next]_vars
               PROVE  TypeInv'
    OBVIOUS
  <2>1. CASE PipelineNext /\ PipelineKeeps
    <3>1. PipelineTypeOK' /\ Shape'
      BY <2>1, PipelineTypeStep DEF TypeInv, TypeOK
    <3>2. CheckTypeOK'
      BY <2>1 DEF PipelineKeeps, TypeInv, TypeOK, CheckTypeOK, mainVars,
                  cmpVars
    <3> QED
      BY <3>1, <3>2 DEF TypeInv, TypeOK
  <2>2. CASE MainNext
    BY <2>2, MainTypeStep
  <2>3. CASE CmpNext
    BY <2>3, CmpTypeStep
  <2>4. CASE EnvNext
    BY <2>4, EnvTypeStep
  <2>5. CASE UNCHANGED vars
    BY <2>5 DEF vars, pipeVars, mainVars, cmpVars, TypeInv, TypeOK,
                PipelineTypeOK, CheckTypeOK, Shape
  <2> QED
    BY <2>1, <2>2, <2>3, <2>4, <2>5 DEF Next, Running
<1> QED
  BY <1>1, TypeInit, PTL DEF Spec

\* Every variable keeps its type: among others, the channel of digests never
\* holds more than WorkersPool allocated, and every outcome is one of those
\* CheckIntegrity and its comparer know.
THEOREM TypeCorrect == Spec => []TypeOK
<1>1. TypeInv => TypeOK
  BY DEF TypeInv
<1> QED
  BY <1>1, TypeInvariant, PTL
-----------------------------------------------------------------------------
(* Where the goroutines stand relative to each other: when the caller has  *)
(* left its select and no shutdown was asked for, the comparer has stopped. *)

Phases ==
    /\ ctxDone => parentDone \/ main = "returned"
    /\ cmp = "quit" => ctxDone
    /\ errClosed => main \in {"cancel", "returned"}
    /\ main = "paths" => cmp = "off"
    /\ ~ Waiting /\ ~ parentDone => cmp \in {"off", "end"}
    /\ PanicOnlyOnShutdown

LEMMA PhasesInit == CheckInit => Phases
BY DEF CheckInit, PipelineInit, Phases, Waiting, PanicOnlyOnShutdown

LEMMA PhasesMain ==
    ASSUME TypeInv, Phases, MainNext
    PROVE  Phases'
<1> USE DEF Phases, Waiting, PanicOnlyOnShutdown, mainVars, cmpVars, pipeVars,
            envVars
<1>1. CASE MainPath
  BY <1>1 DEF MainPath
<1>2. CASE MainNoPid
  BY <1>2 DEF MainNoPid, Decide
<1>3. CASE MainStart
  BY <1>3 DEF MainStart, StartPipeline
<1>4. CASE MainPark
  BY <1>4 DEF MainPark
<1>5. CASE MainOnCtx
  BY <1>5 DEF MainOnCtx, Decide
<1>6. CASE MainOnDone
  BY <1>6 DEF MainOnDone, Decide
<1>7. CASE MainOnDoneClosed
  BY <1>7 DEF MainOnDoneClosed, Decide
<1>8. CASE MainOnErr
  BY <1>8 DEF MainOnErr, Decide, AfterError
<1>9. CASE MainAlert
  BY <1>9 DEF MainAlert
<1>10. CASE MainRestart
  BY <1>10 DEF MainRestart
<1>11. CASE MainCloseErrC
  BY <1>11 DEF MainCloseErrC
<1>12. CASE MainCancel
  BY <1>12 DEF MainCancel
<1> QED
  BY <1>1, <1>2, <1>3, <1>4, <1>5, <1>6, <1>7, <1>8, <1>9, <1>10, <1>11,
     <1>12 DEF MainNext

LEMMA PhasesCmp ==
    ASSUME TypeInv, Phases, CmpNext
    PROVE  Phases'
<1> USE DEF Phases, Waiting, PanicOnlyOnShutdown, mainVars, cmpVars, pipeVars,
            envVars, Fail
<1>1. CASE CmpPath
  BY <1>1 DEF CmpPath
<1>2. CASE CmpLoad
  BY <1>2 DEF CmpLoad
<1>3. CASE CmpLoadFail
  BY <1>3 DEF CmpLoadFail
<1>4. CASE CmpRecv
  BY <1>4 DEF CmpRecv, CompareHash
<1>5. CASE CmpClosed
  BY <1>5 DEF CmpClosed
<1>6. CASE CmpPanic
  BY <1>6 DEF CmpPanic
<1> QED
  BY <1>1, <1>2, <1>3, <1>4, <1>5, <1>6 DEF CmpNext

LEMMA PhasesEnv ==
    ASSUME TypeInv, Phases, EnvNext
    PROVE  Phases'
<1> USE DEF Phases, Waiting, PanicOnlyOnShutdown, mainVars, cmpVars, pipeVars,
            envVars
<1>1. CASE ParentCancel
  BY <1>1 DEF ParentCancel, Decide
<1>2. ASSUME NEW f \in File, NEW c \in Value, Touch(f, c)
      PROVE  Phases'
  BY <1>2 DEF Touch
<1>3. ASSUME NEW p \in Pid, ProcChange(p)
      PROVE  Phases'
  BY <1>3 DEF ProcChange
<1> QED
  BY <1>1, <1>2, <1>3 DEF EnvNext

LEMMA PhasesInvariant == Spec => []Phases
<1>1. TypeInv /\ Phases /\ [Next]_vars => Phases'
  <2> SUFFICES ASSUME TypeInv, Phases, [Next]_vars
               PROVE  Phases'
    OBVIOUS
  <2>1. CASE PipelineNext /\ PipelineKeeps
    BY <2>1, PipelineFrame DEF PipelineKeeps, Phases, Waiting,
       PanicOnlyOnShutdown, mainVars, cmpVars
  <2>2. CASE MainNext
    BY <2>2, PhasesMain
  <2>3. CASE CmpNext
    BY <2>3, PhasesCmp
  <2>4. CASE EnvNext
    BY <2>4, PhasesEnv
  <2>5. CASE UNCHANGED vars
    BY <2>5 DEF vars, mainVars, cmpVars, Phases, Waiting, PanicOnlyOnShutdown
  <2> QED
    BY <2>1, <2>2, <2>3, <2>4, <2>5 DEF Next, Running
<1> QED
  BY <1>1, PhasesInit, TypeInvariant, PTL DEF Spec

\* The deferred close(errC) meets a comparer that still has an error to send
\* only when the program was told to shut down: a panic implies a shutdown.
THEOREM PanicImpliesShutdown == Spec => []PanicOnlyOnShutdown
<1>1. Phases => PanicOnlyOnShutdown
  BY DEF Phases
<1> QED
  BY <1>1, PhasesInvariant, PTL
-----------------------------------------------------------------------------
(* Every digest in the pipeline is one its file really had: between the    *)
(* worker that reads a file and the comparer, no digest changes its file.  *)

Genuine(h) == h.hash \in seen[h.file] \ {Absent}

Mismatching(r) ==
    r.kind = "mismatch" =>
        /\ r.file \in File
        /\ \E c \in seen[r.file] \ {Absent} : c # Snapshot[r.file]

Matched == \A f \in DOMAIN Snapshot \ left : Snapshot[f] \in seen[f]

Evidence ==
    /\ \A f \in File : fs[f] \in seen[f]
    /\ \A w \in Worker : wpc[w] = "send" => Genuine(item[w])
    /\ \A i \in 1 .. Len(hashC) : Genuine(hashC[i])
    /\ err.kind # "ok"
    /\ Mismatching(err)
    /\ Mismatching(result)
    /\ cmp \in {"range", "done"} => Matched
    /\ cmp = "done" => left = {}
    /\ PassMeansMatched

LEMMA EvidenceInit == CheckInit => Evidence
BY DEF CheckInit, PipelineInit, Evidence, Genuine, Mismatching, NoErr,
       PassMeansMatched, Decided

LEMMA EvidencePipeline ==
    ASSUME TypeInv, Evidence, PipelineNext, PipelineKeeps
    PROVE  Evidence'
<1>1. /\ (\A f \in File : fs[f] \in seen[f])'
      /\ (err.kind # "ok")' /\ Mismatching(err)' /\ Mismatching(result)'
      /\ (cmp \in {"range", "done"} => Matched)'
      /\ (cmp = "done" => left = {})'
      /\ PassMeansMatched'
  BY PipelineFrame DEF Evidence, PipelineKeeps, mainVars, cmpVars, Matched,
                       Mismatching, PassMeansMatched, Decided
<1>2. PICK Had : Had = seen
  OBVIOUS
<1>3. /\ \A f \in File : fs[f] \in Had[f]
      /\ DigestsIn(Had) /\ PipelineTypeOK /\ Shape
  BY <1>2 DEF Evidence, Genuine, DigestsIn, TypeInv, TypeOK
<1>4. DigestsIn(Had)'
  BY <1>3, DigestsPipeline
<1>5. seen' = Had
  BY <1>2 DEF PipelineKeeps
<1>6. /\ (\A w \in Worker : wpc[w] = "send" => Genuine(item[w]))'
      /\ (\A i \in 1 .. Len(hashC) : Genuine(hashC[i]))'
  BY <1>4, <1>5 DEF DigestsIn, Genuine
<1> QED
  BY <1>1, <1>6 DEF Evidence

LEMMA EvidenceMain ==
    ASSUME TypeInv, Phases, Evidence, MainNext
    PROVE  Evidence'
<1> USE DEF mainVars, cmpVars, pipeVars, envVars, Evidence, Genuine,
            Mismatching, Matched
<1>1. CASE MainPath
  BY <1>1 DEF MainPath, PassMeansMatched, Decided
<1>2. CASE MainNoPid
  BY <1>2 DEF MainNoPid, Decide, PassMeansMatched, Decided, OtherErr
<1>3. CASE MainStart
  BY <1>3 DEF MainStart, StartPipeline, PassMeansMatched, Decided
<1>4. CASE MainPark \/ MainAlert \/ MainRestart \/ MainCloseErrC \/ MainCancel
  BY <1>4 DEF MainPark, MainAlert, MainRestart, MainCloseErrC, MainCancel,
              PassMeansMatched, Decided
<1>5. CASE MainOnCtx
  BY <1>5 DEF MainOnCtx, Decide, PassMeansMatched, Decided, ErrOf
<1>6. CASE MainOnDone
  BY <1>6 DEF MainOnDone, Decide, PassMeansMatched, Decided, ErrOf
<1>7. CASE MainOnDoneClosed
  <2>1. parentDone
    BY <1>7 DEF MainOnDoneClosed, Waiting, Phases
  <2> QED
    BY <1>7, <2>1 DEF MainOnDoneClosed, Decide, ErrOf, PassMeansMatched
<1>8. CASE MainOnErr
  BY <1>8 DEF MainOnErr, Decide, AfterError, PassMeansMatched, Decided
<1> QED
  BY <1>1, <1>2, <1>3, <1>4, <1>5, <1>6, <1>7, <1>8 DEF MainNext
LEMMA EvidenceCmp ==
    ASSUME TypeInv, Phases, Evidence, CmpNext
    PROVE  Evidence'
<1> USE DEF mainVars, cmpVars, pipeVars, envVars, Evidence, Genuine,
            Mismatching, Matched, Fail
<1>1. CASE CmpPath
  BY <1>1 DEF CmpPath, PassMeansMatched, Decided, OtherErr
<1>2. CASE CmpLoad
  BY <1>2 DEF CmpLoad, PassMeansMatched, Decided
<1>3. CASE CmpLoadFail
  BY <1>3 DEF CmpLoadFail, PassMeansMatched, Decided, OtherErr
<1>4. CASE CmpRecv
  <2> DEFINE h == Head(hashC)
  <2>1. h \in FileHash /\ Genuine(h)
    BY <1>4 DEF CmpRecv, TypeInv, TypeOK, PipelineTypeOK
  <2>2. \A i \in 1 .. Len(hashC') : Genuine(hashC'[i])
    BY <1>4 DEF CmpRecv, TypeInv, TypeOK, PipelineTypeOK
  <2>3. CASE cmp' = "quit" /\ UNCHANGED <<left, err>>
    BY <1>4, <2>2, <2>3 DEF CmpRecv, PassMeansMatched, Decided
  <2>4. CASE /\ h.hash = Snapshot[h.file]
             /\ left' = left \ {h.file}
             /\ UNCHANGED <<cmp, err>>
    BY <1>4, <2>1, <2>2, <2>4 DEF CmpRecv, PassMeansMatched, Decided
  <2>5. CASE h.hash # Snapshot[h.file] /\ Fail(ErrOf("mismatch", h.file))
    BY <1>4, <2>1, <2>2, <2>5 DEF CmpRecv, PassMeansMatched, Decided, ErrOf,
                                  FileHash
  <2>6. CASE Fail(ErrOf("new", h.file))
    BY <1>4, <2>2, <2>6 DEF CmpRecv, PassMeansMatched, Decided, ErrOf
  <2> QED
    BY <1>4, <2>3, <2>4, <2>5, <2>6 DEF CmpRecv, CompareHash
<1>5. CASE CmpClosed
  BY <1>5 DEF CmpClosed, Missing, PassMeansMatched, Decided, ErrOf
<1>6. CASE CmpPanic
  BY <1>6 DEF CmpPanic, PassMeansMatched, Decided
<1> QED
  BY <1>1, <1>2, <1>3, <1>4, <1>5, <1>6 DEF CmpNext

LEMMA EvidenceEnv ==
    ASSUME TypeInv, Phases, Evidence, EnvNext
    PROVE  Evidence'
<1> USE DEF mainVars, cmpVars, pipeVars, envVars, Evidence, Genuine,
            Mismatching, Matched
<1>1. CASE ParentCancel
  BY <1>1 DEF ParentCancel, Decide, PassMeansMatched, Decided, ErrOf
<1>2. ASSUME NEW f \in File, NEW c \in Value, Touch(f, c)
      PROVE  Evidence'
  <2>1. /\ \A g \in File : seen[g] \subseteq seen'[g]
        /\ \A g \in File : fs'[g] \in seen'[g]
    BY <1>2 DEF Touch, TypeInv, TypeOK, PipelineTypeOK, CheckTypeOK
  <2>2. \A w \in Worker : wpc[w] = "send" => item[w].file \in File
    BY DEF TypeInv, Shape, FileHash
  <2>3. \A i \in 1 .. Len(hashC) : hashC[i].file \in File
    <3>1. hashC \in Seq(FileHash)
      BY DEF TypeInv, TypeOK, PipelineTypeOK
    <3>2. \A i \in 1 .. Len(hashC) : hashC[i] \in FileHash
      BY <3>1
    <3>3. \A h \in FileHash : h.file \in File
      BY DEF FileHash
    <3> QED
      BY <3>2, <3>3
  <2>4. Mismatching(err)' /\ Mismatching(result)'
    BY <1>2, <2>1 DEF Touch
  <2>5. UNCHANGED <<wpc, item, hashC, err, result, cmp, left, parentDone>>
    BY <1>2 DEF Touch
  <2>6. (\A w \in Worker : wpc[w] = "send" => Genuine(item[w]))'
    BY <2>1, <2>2, <2>5
  <2>7. (\A i \in 1 .. Len(hashC) : Genuine(hashC[i]))'
    BY <2>1, <2>3, <2>5
  <2>8. /\ (cmp \in {"range", "done"} => Matched)'
        /\ PassMeansMatched'
    BY <2>1, <2>5, CheckAssumption DEF PassMeansMatched, Decided
  <2> QED
    BY <2>1, <2>4, <2>5, <2>6, <2>7, <2>8
<1>3. ASSUME NEW p \in Pid, ProcChange(p)
      PROVE  Evidence'
  BY <1>3 DEF ProcChange, PassMeansMatched, Decided
<1> QED
  BY <1>1, <1>2, <1>3 DEF EnvNext

LEMMA EvidenceInvariant == Spec => []Evidence
<1>1. TypeInv /\ Phases /\ Evidence /\ [Next]_vars => Evidence'
  <2> SUFFICES ASSUME TypeInv, Phases, Evidence, [Next]_vars
               PROVE  Evidence'
    OBVIOUS
  <2>1. CASE PipelineNext /\ PipelineKeeps
    BY <2>1, EvidencePipeline
  <2>2. CASE MainNext
    BY <2>2, EvidenceMain
  <2>3. CASE CmpNext
    BY <2>3, EvidenceCmp
  <2>4. CASE EnvNext
    BY <2>4, EvidenceEnv
  <2>5. CASE UNCHANGED vars
    BY <2>5 DEF vars, pipeVars, mainVars, cmpVars, Evidence, Genuine,
       Mismatching, Matched, PassMeansMatched, Decided
  <2> QED
    BY <2>1, <2>2, <2>3, <2>4, <2>5 DEF Next, Running
<1> QED
  BY <1>1, EvidenceInit, TypeInvariant, PhasesInvariant, PTL DEF Spec

\* compareHashes reports "file content mismatch" only for a file that did
\* hold another content during the check, however many workers share the
\* channel and whatever else fails.
THEOREM MismatchIsJustified == Spec => []MismatchJustified
<1>1. Evidence => MismatchJustified
  BY DEF Evidence, Mismatching, MismatchJustified, Decided
<1> QED
  BY <1>1, EvidenceInvariant, PTL

\* "hashes compared successfully" means that every file of the snapshot was
\* read with its expected content, whatever cannot be read and whichever
\* processes come and go, unless the program was told to shut down before.
THEOREM PassIsTrue == Spec => []PassMeansMatched
<1>1. Evidence => PassMeansMatched
  BY DEF Evidence
<1> QED
  BY <1>1, EvidenceInvariant, PTL
-----------------------------------------------------------------------------
(* How far the check has come: nothing starts before CheckIntegrity knows  *)
(* all its paths, and the comparer is done only behind the last worker.    *)

Progress ==
    /\ main = "paths" => walker = "off"
    /\ cmp = "off" => walker = "off"
    /\ walker = "off" => dir = 1 /\ \A w \in Worker : wpc[w] = "off"
    /\ walker # "off" => Len(base) = Len(Roots)
    /\ InStep
    /\ cmp = "done" => ~ hashOpen
    /\ Worker # {} => PassLeavesNothing

LEMMA ProgressInit == CheckInit => Progress
BY DEF CheckInit, PipelineInit, Progress, InStep, PassLeavesNothing, Decided, NoErr

LEMMA ProgressPipeline ==
    ASSUME TypeInv, Progress, PipelineNext, PipelineKeeps
    PROVE  Progress'
<1>1. InStep'
  BY InStepPipeline DEF Progress, TypeInv, TypeOK
<1>2. /\ UNCHANGED <<base, ctxDone, main, cmp, result>>
      /\ ~ hashOpen => ~ hashOpen'
  BY PipelineFrame DEF PipelineKeeps, mainVars, cmpVars, PipelineNext,
     WalkerNext, WalkOpen, WalkFail, WalkCancelled, WalkDirEnd, WalkSend,
     WalkClose, WorkerNext, WorkerCheck, WorkerHash, WorkerSkip, WorkerSend,
     WorkerEnd, CloseHashes
<1>3. CASE walker = "off"
  <2>1. FALSE
    BY <1>3 DEF Progress, PipelineNext, WalkerNext, WalkOpen, WalkFail,
       WalkCancelled, WalkDirEnd, WalkSend, WalkClose, WorkerNext, WorkerCheck,
       WorkerHash, WorkerSkip, WorkerSend, WorkerEnd, CloseHashes
  <2> QED
    BY <2>1
<1>4. CASE walker # "off"
  <2>1. walker' # "off"
    BY <1>4 DEF PipelineNext, WalkerNext, WalkOpen, WalkFail, WalkCancelled,
       WalkDirEnd, NextDir, WalkSend, WalkClose, WorkerNext, WorkerCheck,
       WorkerHash, WorkerSkip, WorkerSend, WorkerEnd, CloseHashes
  \* a pipeline that has ended stays so
  <2>2. walker = "closed" /\ (\A w \in Worker : wpc[w] = "done")
        => UNCHANGED <<walker, wpc>>
    BY DEF PipelineNext, WalkerNext, WalkOpen, WalkFail, WalkCancelled,
       WalkDirEnd, WalkSend, WalkClose, WorkerNext, WorkerCheck, WorkerHash,
       WorkerSkip, WorkerSend, WorkerEnd, CloseHashes
  <2>3. parentDone' = parentDone
    BY DEF PipelineKeeps
  <2>4. PassLeavesNothing => PassLeavesNothing'
    BY <1>2, <2>2, <2>3 DEF PassLeavesNothing, Decided
  <2> QED
    BY <1>1, <1>2, <1>4, <2>1, <2>4 DEF Progress
<1> QED
  BY <1>3, <1>4

LEMMA ProgressMain ==
    ASSUME TypeInv, Phases, Evidence, Progress, MainNext
    PROVE  Progress'
<1> USE DEF Progress, InStep, mainVars, cmpVars, pipeVars, envVars, AllDone,
            PassLeavesNothing, Decided
<1>1. CASE MainPath
  BY <1>1 DEF MainPath
<1>2. CASE MainNoPid
  BY <1>2 DEF MainNoPid, Decide, OtherErr
<1>3. CASE MainStart
  BY <1>3 DEF MainStart, StartPipeline
<1>4. CASE MainPark \/ MainAlert \/ MainRestart \/ MainCloseErrC \/ MainCancel
  BY <1>4 DEF MainPark, MainAlert, MainRestart, MainCloseErrC, MainCancel
<1>5. CASE MainOnCtx
  BY <1>5 DEF MainOnCtx, Decide, ErrOf
<1>6. CASE MainOnDone
  <2>1. ~ parentDone => ~ ctxDone
    BY <1>6 DEF MainOnDone, Waiting, Phases
  <2>2. (Worker # {} => PassLeavesNothing)'
    BY <1>6, <2>1 DEF MainOnDone, Decide
  <2> QED
    BY <1>6, <2>2 DEF MainOnDone, Decide
<1>7. CASE MainOnDoneClosed
  <2>1. parentDone
    BY <1>7 DEF MainOnDoneClosed, Waiting, Phases
  <2> QED
    BY <1>7, <2>1 DEF MainOnDoneClosed, Decide
<1>8. CASE MainOnErr
  BY <1>8 DEF MainOnErr, Decide, AfterError, Evidence
<1> QED
  BY <1>1, <1>2, <1>3, <1>4, <1>5, <1>6, <1>7, <1>8 DEF MainNext

LEMMA ProgressCmp ==
    ASSUME TypeInv, Phases, Progress, CmpNext
    PROVE  Progress'
<1> USE DEF Progress, InStep, mainVars, cmpVars, pipeVars, envVars, AllDone,
            PassLeavesNothing, Decided, Fail
<1>1. CASE CmpPath
  BY <1>1 DEF CmpPath
<1>2. CASE CmpLoad \/ CmpLoadFail
  BY <1>2 DEF CmpLoad, CmpLoadFail
<1>3. CASE CmpRecv
  BY <1>3 DEF CmpRecv, CompareHash
<1>4. CASE CmpClosed
  BY <1>4 DEF CmpClosed
<1>5. CASE CmpPanic
  BY <1>5 DEF CmpPanic
<1> QED
  BY <1>1, <1>2, <1>3, <1>4, <1>5 DEF CmpNext

LEMMA ProgressEnv ==
    ASSUME TypeInv, Phases, Progress, EnvNext
    PROVE  Progress'
<1> USE DEF Progress, InStep, mainVars, cmpVars, pipeVars, envVars, AllDone,
            PassLeavesNothing, Decided
<1>1. CASE ParentCancel
  BY <1>1 DEF ParentCancel, Decide, ErrOf
<1>2. ASSUME NEW f \in File, NEW c \in Value, Touch(f, c)
      PROVE  Progress'
  BY <1>2 DEF Touch
<1>3. ASSUME NEW p \in Pid, ProcChange(p)
      PROVE  Progress'
  BY <1>3 DEF ProcChange
<1> QED
  BY <1>1, <1>2, <1>3 DEF EnvNext

LEMMA ProgressInvariant == Spec => []Progress
<1>1. TypeInv /\ Phases /\ Evidence /\ Progress /\ [Next]_vars => Progress'
  <2> SUFFICES ASSUME TypeInv, Phases, Evidence, Progress, [Next]_vars
               PROVE  Progress'
    OBVIOUS
  <2>1. CASE PipelineNext /\ PipelineKeeps
    BY <2>1, ProgressPipeline
  <2>2. CASE MainNext
    BY <2>2, ProgressMain
  <2>3. CASE CmpNext
    BY <2>3, ProgressCmp
  <2>4. CASE EnvNext
    BY <2>4, ProgressEnv
  <2>5. CASE UNCHANGED vars
    BY <2>5 DEF vars, pipeVars, mainVars, cmpVars, Progress, InStep, AllDone,
                PassLeavesNothing, Decided
  <2> QED
    BY <2>1, <2>2, <2>3, <2>4, <2>5 DEF Next, Running
<1> QED
  BY <1>1, ProgressInit, TypeInvariant, PhasesInvariant, EvidenceInvariant, PTL
     DEF Spec

\* A CheckIntegrity that returns success, and was not told to shut down, has
\* no goroutine left: walker, workers and comparer have all ended.  A pool
\* without workers (--count-workers 0) would end under a walker that nobody
\* receives from, so there must be one.
THEOREM PassIsClean ==
    ASSUME Worker # {}
    PROVE  Spec => []PassLeavesNothing
<1>1. Progress => PassLeavesNothing
  BY DEF Progress
<1> QED
  BY <1>1, ProgressInvariant, PTL
=============================================================================
