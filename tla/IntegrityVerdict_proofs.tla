------------------------ MODULE IntegrityVerdict_proofs ------------------------
(***************************************************************************)
(* Why the verdicts of IntegrityCheck can be believed: every file that the *)
(* walker has passed is in exactly one place - with a worker, in the       *)
(* channel of digests, or met by the comparer - or was missing when it was *)
(* looked for.  From that follow what "new", "deleted" and "ok" mean, and  *)
(* that IntegrityCheck implements IntegrityVerdict.                        *)
(*                                                                         *)
(* No failure is excluded: the invariants hold until the check is          *)
(* disturbed, and each verdict names the disturbances that excuse it.      *)
(***************************************************************************)
EXTENDS IntegrityCheck_proofs

-----------------------------------------------------------------------------
(* What disturbs a check: another process of the monitored name, and a     *)
(* shutdown.                                                               *)

Undisturbed == ~ Churned /\ ~ parentDone

\* A disturbance is not undone, and what a file has held is not forgotten.
LEMMA Lasting ==
    ASSUME TypeInv, [Next]_vars
    PROVE  /\ Churned => Churned'
           /\ parentDone => parentDone'
           /\ \A f \in File : seen[f] \subseteq seen'[f]
<1> USE DEF Churned, mainVars, cmpVars, pipeVars, envVars
<1>1. CASE PipelineNext /\ PipelineKeeps
  BY <1>1 DEF PipelineKeeps
<1>2. CASE MainNext
  BY <1>2 DEF MainNext, MainPath, MainNoPid, MainStart, MainPark, MainOnCtx,
     MainOnDone, MainOnDoneClosed, MainOnErr, MainAlert, MainRestart,
     MainCloseErrC, MainCancel
<1>3. CASE CmpNext
  BY <1>3 DEF CmpNext, CmpPath, CmpLoad, CmpLoadFail, CmpRecv, CmpClosed,
     CmpPanic
<1>4. CASE ParentCancel
  BY <1>4 DEF ParentCancel
<1>5. ASSUME NEW f \in File, NEW c \in Value, Touch(f, c)
      PROVE  /\ UNCHANGED <<procs, parentDone>>
             /\ \A g \in File : seen[g] \subseteq seen'[g]
  BY <1>5 DEF Touch, TypeInv, TypeOK, CheckTypeOK
<1>6. ASSUME NEW p \in Pid, ProcChange(p)
      PROVE  procs' = procs + 1 /\ procs \in Nat
             /\ UNCHANGED <<parentDone, seen>>
  BY <1>6, CheckAssumption DEF ProcChange, TypeInv, TypeOK, CheckTypeOK
<1>7. CASE UNCHANGED vars
  BY <1>7 DEF vars
<1> QED
  BY <1>1, <1>2, <1>3, <1>4, <1>5, <1>6, <1>7 DEF Next, Running, EnvNext

-----------------------------------------------------------------------------
(* One process: until another one ends or starts, GetProcessPath finds the *)
(* same pid every time, so that the comparer strips the very path the      *)
(* walker listed the files under.                                          *)

ThePid == PidOf(FirstPid)

SamePid ==
    /\ live = FirstPid
    /\ \A d \in 1 .. Len(base) : base[d] = ThePid /\ ThePid \in live
    /\ \A w \in Worker : Busy(w) => item[w].pid = ThePid /\ ThePid \in live
    /\ \A i \in 1 .. Len(hashC) : hashC[i].pid = ThePid
    /\ cmp \in {"load", "range", "done"} => cmpPid = ThePid

OneProcess == ~ Churned => SamePid

LEMMA OneProcessInit == CheckInit => OneProcess
BY DEF CheckInit, PipelineInit, OneProcess, SamePid, Busy

LEMMA SamePidPipeline ==
    ASSUME TypeInv, SamePid, PipelineNext, PipelineKeeps
    PROVE  SamePid'
<1> USE PipelineFrame DEF SamePid, Busy, PipelineKeeps, mainVars, cmpVars,
        TypeInv, TypeOK, PipelineTypeOK, Shape
<1>1. CASE WalkOpen \/ WalkFail \/ WalkCancelled \/ WalkDirEnd \/ WalkClose
           \/ CloseHashes
  BY <1>1 DEF WalkOpen, WalkFail, WalkCancelled, WalkDirEnd, WalkClose,
              CloseHashes, NextDir
<1>2. ASSUME NEW w \in Worker, NEW f \in File, WalkSend(w, f)
      PROVE  SamePid'
  <2>1. base[dir] = ThePid /\ ThePid \in live
    BY <1>2 DEF WalkSend
  <2>2. \A v \in Worker \ {w} : wpc'[v] = wpc[v] /\ item'[v] = item[v]
    BY <1>2 DEF WalkSend
  <2>3. item'[w].pid = base[dir]
    BY <1>2 DEF WalkSend
  <2>4. UNCHANGED <<live, base, hashC, cmp, cmpPid>>
    BY <1>2 DEF WalkSend
  <2> QED
    BY <2>1, <2>2, <2>3, <2>4
<1>3. ASSUME NEW w \in Worker,
             WorkerCheck(w) \/ WorkerSkip(w) \/ WorkerEnd(w)
      PROVE  SamePid'
  BY <1>3 DEF WorkerCheck, WorkerSkip, AfterReadError, WorkerEnd, Move
<1>4. ASSUME NEW w \in Worker, WorkerHash(w)
      PROVE  SamePid'
  <2>1. item[w] \in FileHash
    BY <1>4 DEF WorkerHash
  <2>2. item'[w].pid = item[w].pid
    BY <1>4, <2>1 DEF WorkerHash, FileHash
  <2> QED
    BY <1>4, <2>2 DEF WorkerHash, Move
<1>5. ASSUME NEW w \in Worker, WorkerSend(w)
      PROVE  SamePid'
  <2>1. item[w] \in FileHash
    BY <1>5 DEF WorkerSend
  <2>2. (\A i \in 1 .. Len(hashC) : hashC[i].pid = ThePid)'
    BY <1>5, <2>1 DEF WorkerSend
  <2> QED
    BY <1>5, <2>2 DEF WorkerSend, Move
<1> QED
  BY <1>1, <1>2, <1>3, <1>4, <1>5 DEF PipelineNext, WalkerNext, WorkerNext

LEMMA SamePidStep ==
    ASSUME TypeInv, SamePid, [Next]_vars, ~ Churned'
    PROVE  SamePid'
<1> USE DEF SamePid, Busy, mainVars, cmpVars, pipeVars, envVars
<1>1. CASE PipelineNext /\ PipelineKeeps
  BY <1>1, SamePidPipeline
<1>2. CASE MainPath
  BY <1>2 DEF MainPath, PidOf, ThePid, TypeInv, TypeOK, PipelineTypeOK
<1>3. CASE MainStart
  BY <1>3 DEF MainStart, StartPipeline
<1>4. CASE MainNoPid \/ MainPark \/ MainOnCtx \/ MainOnDone
           \/ MainOnDoneClosed \/ MainOnErr
  BY <1>4 DEF MainNoPid, MainPark, MainOnCtx, MainOnDone, MainOnDoneClosed,
              MainOnErr, AfterError
<1>5. CASE MainAlert \/ MainRestart \/ MainCloseErrC \/ MainCancel
  BY <1>5 DEF MainAlert, MainRestart, MainCloseErrC, MainCancel
<1>6. CASE CmpPath
  BY <1>6 DEF CmpPath, Fail, ThePid
<1>7. CASE CmpLoad \/ CmpLoadFail \/ CmpClosed \/ CmpPanic
  BY <1>7 DEF CmpLoad, CmpLoadFail, CmpClosed, CmpPanic, Fail
<1>8. CASE CmpRecv
  <2>1. (\A i \in 1 .. Len(hashC) : hashC[i].pid = ThePid)'
    BY <1>8 DEF CmpRecv, TypeInv, TypeOK, PipelineTypeOK
  <2> QED
    BY <1>8, <2>1 DEF CmpRecv, CompareHash, Fail
<1>9. CASE ParentCancel
  BY <1>9 DEF ParentCancel
<1>10. ASSUME NEW f \in File, NEW c \in Value, Touch(f, c)
       PROVE  SamePid'
  BY <1>10 DEF Touch
<1>11. ASSUME NEW p \in Pid, ProcChange(p)
       PROVE  FALSE
  BY <1>11, CheckAssumption
     DEF ProcChange, Churned, TypeInv, TypeOK, CheckTypeOK
<1>12. CASE UNCHANGED vars
  BY <1>12 DEF vars
<1> QED
  BY <1>1, <1>2, <1>3, <1>4, <1>5, <1>6, <1>7, <1>8, <1>9, <1>10, <1>11,
     <1>12 DEF Next, Running, MainNext, CmpNext, EnvNext

LEMMA OneProcessInvariant == Spec => []OneProcess
<1>1. TypeInv /\ OneProcess /\ [Next]_vars => OneProcess'
  BY Lasting, SamePidStep DEF OneProcess
<1> QED
  BY <1>1, OneProcessInit, TypeInvariant, PTL DEF Spec
-----------------------------------------------------------------------------
(* Once: a file the walker has passed is in at most one place of the       *)
(* pipeline, and the comparer meets it once, unless it is under two        *)
(* directories.                                                            *)

\* the comparer matched it
Met(f) == cmp \in {"range", "done"} /\ f \in DOMAIN Snapshot \ left

\* The snapshot does not name the file, or it was hashed twice, or under
\* another pid; and it was there when it was read.
NewReport(r) ==
    r.kind = "new" =>
        /\ r.file \in File
        /\ \E c \in seen[r.file] : c # Absent
        /\ r.file \notin DOMAIN Snapshot \/ r.file \in Repeated \/ Churned

Once ==
    /\ Sole({f \in File : Met(f)})
    /\ NewReport(err)
    /\ NewReport(result)

LEMMA OnceInit == CheckInit => Once
BY DEF CheckInit, PipelineInit, Once, Sole, InPool, InChannel, Held, Busy, Queued,
       Met, NewReport, NoErr

LEMMA OncePipeline ==
    ASSUME TypeInv, Progress, Once, PipelineNext, PipelineKeeps
    PROVE  Once'
<1>1. /\ UNCHANGED <<cmp, left, seen, err, result>>
      /\ NewReport(err)' /\ NewReport(result)'
  BY DEF PipelineKeeps, mainVars, cmpVars, Once, NewReport, Churned
<1> PICK Gone \in SUBSET File : Gone = {f \in File : Met(f)}
  OBVIOUS
<1>2. Sole(Gone)
  BY DEF Once
<1>3. Sole(Gone)'
  BY <1>2, SolePipeline DEF Progress, TypeInv, TypeOK
<1>4. Gone = {f \in File : Met(f)}'
  BY <1>1 DEF Met
<1>5. Sole({f \in File : Met(f)})'
  BY <1>3, <1>4 DEF Sole, InPool, InChannel
<1> QED
  BY <1>1, <1>5 DEF Once

\* Steps of the other goroutines that leave the pipeline and what the
\* comparer has met alone.
OnceFrame == UNCHANGED <<walker, dir, todo, wpc, item, hashC>>

LEMMA OnceKept ==
    ASSUME TypeInv, Once, OnceFrame,
           \A f \in File : Met(f)' => Met(f),
           NewReport(err)', NewReport(result)'
    PROVE  Once'
<1> PICK Gone \in SUBSET File : Gone = {f \in File : Met(f)}
  OBVIOUS
<1> PICK Fewer \in SUBSET Gone : Fewer = {f \in File : Met(f)'}
  OBVIOUS
<1>1. Sole(Fewer)'
  BY SoleKept DEF Once, OnceFrame
<1>2. Sole({f \in File : Met(f)})'
  BY <1>1 DEF Sole, InPool, InChannel
<1> QED
  BY <1>2 DEF Once

\* What receiving does to the channel.
LEMMA ComparerReceives ==
    ASSUME TypeInv, CmpRecv
    PROVE  /\ hashC \in Seq(FileHash) /\ hashC # <<>> /\ hashC' = Tail(hashC)
           /\ UNCHANGED <<walker, dir, todo, wpc, item>>
           /\ Head(hashC) \in FileHash
           /\ Queued(1, Head(hashC).file)
           /\ \A i \in 1 .. Len(hashC), f \in File :
                 Queued(i, f) /\ i # 1 => \E j \in (1 .. Len(hashC))' :
                                              Queued(j, f)'
<1>1. /\ hashC \in Seq(FileHash) /\ hashC # <<>> /\ hashC' = Tail(hashC)
      /\ UNCHANGED <<walker, dir, todo, wpc, item>>
  BY DEF CmpRecv, TypeInv, TypeOK, PipelineTypeOK
<1> QED
  BY <1>1, Received

LEMMA OnceRecv ==
    ASSUME TypeInv, Evidence, OneProcess, Once, CmpRecv
    PROVE  Once'
<1> PICK h \in FileHash : h = Head(hashC)
  BY ComparerReceives
<1> PICK Gone \in SUBSET File : Gone = {f \in File : Met(f)}
  OBVIOUS
<1>1. /\ h.file \in File
      /\ Queued(1, h.file)
      /\ 1 \in 1 .. Len(hashC)
  BY ComparerReceives DEF FileHash, Queued
<1>2. /\ h.file \notin Repeated => ~ Met(h.file)
      /\ Sole(Gone \cup {h.file})'
  BY <1>1, ComparerReceives, SoleReceive DEF Once
<1>3. \A f \in File : Met(f)' => f \in Gone \cup {h.file}
  BY DEF CmpRecv, CompareHash, Fail, Met
<1>4. Sole({f \in File : Met(f)})'
  BY <1>2, <1>3 DEF Sole, InPool, InChannel
<1>5. NewReport(err)'
  <2>1. CASE Fail(ErrOf("new", h.file)) /\ ~ Expected(h)
    <3>1. ~ Churned => h.pid = cmpPid
      BY <1>1 DEF OneProcess, SamePid, CmpRecv, Queued
    <3>2. h.file \notin DOMAIN Snapshot \/ h.file \in Repeated \/ Churned
      BY <1>2, <2>1, <3>1 DEF Expected, Met, CmpRecv
    <3>3. Genuine(h)
      BY <1>1 DEF Evidence, CmpRecv, TypeInv, TypeOK, PipelineTypeOK
    <3> QED
      BY <1>1, <2>1, <3>2, <3>3 DEF Fail, ErrOf, NewReport, Genuine, CmpRecv,
         envVars, Churned
  <2>2. CASE Fail(ErrOf("mismatch", h.file)) \/ UNCHANGED err
    BY <2>2 DEF Fail, ErrOf, NewReport, CmpRecv, envVars, Churned, Once
  <2> QED
    BY <2>1, <2>2 DEF CmpRecv, CompareHash
<1>6. NewReport(result)'
  BY DEF CmpRecv, mainVars, envVars, NewReport, Churned, Once
<1> QED
  BY <1>4, <1>5, <1>6 DEF Once

LEMMA OnceStart ==
    ASSUME TypeInv, Progress, Once, MainStart
    PROVE  Once'
<1>1. dir = 1 /\ walker = "off" /\ \A w \in Worker : wpc[w] = "off"
  BY DEF MainStart, StartPipeline, Progress
<1>2. \A f \in File : ~ Passed(f) /\ ~ Passed(f)'
  BY <1>1 DEF Passed, MainStart, StartPipeline, TypeInv, TypeOK, PipelineTypeOK
<1>3. \A f \in File : \A i : ~ Queued(i, f) /\ ~ Queued(i, f)'
  BY <1>2 DEF Once, Sole, InChannel, Queued, MainStart, StartPipeline
<1>4. \A f \in File, w \in Worker : ~ Held(w, f)'
  BY DEF Held, Busy, MainStart, StartPipeline
<1>5. \A f \in File : ~ Met(f)'
  BY DEF Met, MainStart
<1>6. UNCHANGED <<err, result, seen, procs>>
  BY DEF MainStart, envVars
<1> QED
  BY <1>3, <1>4, <1>5, <1>6 DEF Once, Sole, InPool, InChannel, NewReport,
     Churned

LEMMA OnceMain ==
    ASSUME TypeInv, Progress, Once, MainNext
    PROVE  Once'
<1> USE DEF mainVars, cmpVars, pipeVars, envVars, OnceFrame, Met, NewReport,
            Churned
<1>1. NewReport(err) /\ NewReport(result)
  BY DEF Once
<1>2. CASE MainPath
  BY <1>1, <1>2, OnceKept DEF MainPath
<1>3. CASE MainNoPid
  BY <1>1, <1>3, OnceKept DEF MainNoPid, Decide, OtherErr
<1>4. CASE MainStart
  BY <1>4, OnceStart
<1>5. CASE MainPark \/ MainAlert \/ MainRestart \/ MainCloseErrC \/ MainCancel
  BY <1>1, <1>5, OnceKept
     DEF MainPark, MainAlert, MainRestart, MainCloseErrC, MainCancel
<1>6. CASE MainOnCtx \/ MainOnDone \/ MainOnDoneClosed
  BY <1>1, <1>6, OnceKept
     DEF MainOnCtx, MainOnDone, MainOnDoneClosed, Decide, ErrOf
<1>7. CASE MainOnErr
  BY <1>1, <1>7, OnceKept DEF MainOnErr, Decide, AfterError
<1> QED
  BY <1>2, <1>3, <1>4, <1>5, <1>6, <1>7 DEF MainNext

LEMMA OnceCmp ==
    ASSUME TypeInv, Evidence, OneProcess, Once, CmpNext
    PROVE  Once'
<1> USE DEF mainVars, cmpVars, pipeVars, envVars, OnceFrame, Met, NewReport,
            Churned, Fail, ErrOf, OtherErr
<1>1. NewReport(err) /\ NewReport(result)
  BY DEF Once
<1>2. CASE CmpPath
  BY <1>1, <1>2, OnceKept DEF CmpPath
<1>3. CASE CmpLoad \/ CmpLoadFail
  BY <1>1, <1>3, OnceKept DEF CmpLoad, CmpLoadFail
<1>4. CASE CmpRecv
  BY <1>4, OnceRecv
<1>5. CASE CmpClosed
  BY <1>1, <1>5, OnceKept DEF CmpClosed
<1>6. CASE CmpPanic
  BY <1>1, <1>6, OnceKept DEF CmpPanic
<1> QED
  BY <1>2, <1>3, <1>4, <1>5, <1>6 DEF CmpNext

LEMMA OnceEnv ==
    ASSUME TypeInv, Once, EnvNext
    PROVE  Once'
<1> USE DEF mainVars, cmpVars, pipeVars, envVars, OnceFrame, Met, NewReport,
            Churned
<1>1. NewReport(err) /\ NewReport(result)
  BY DEF Once
<1>2. CASE ParentCancel
  BY <1>1, <1>2, OnceKept DEF ParentCancel, Decide, ErrOf
<1>3. ASSUME NEW f \in File, NEW c \in Value, Touch(f, c)
      PROVE  Once'
  <2>1. \A g \in File : seen[g] \subseteq seen'[g]
    BY <1>3 DEF Touch, TypeInv, TypeOK, CheckTypeOK
  <2>2. OnceFrame /\ UNCHANGED <<cmp, left, err, result, procs>>
    BY <1>3 DEF Touch
  <2>3. NewReport(err)' /\ NewReport(result)'
    BY <1>1, <2>1, <2>2
  <2> QED
    BY <2>2, <2>3, OnceKept
<1>4. ASSUME NEW p \in Pid, ProcChange(p)
      PROVE  Once'
  BY <1>1, <1>4, OnceKept, CheckAssumption
     DEF ProcChange, TypeInv, TypeOK, CheckTypeOK
<1> QED
  BY <1>2, <1>3, <1>4 DEF EnvNext

LEMMA OnceInvariant == Spec => []Once
<1>1. TypeInv /\ Progress /\ Evidence /\ OneProcess /\ Once /\ [Next]_vars
          => Once'
  <2> SUFFICES ASSUME TypeInv, Progress, Evidence, OneProcess, Once, [Next]_vars
               PROVE  Once'
    OBVIOUS
  <2>1. CASE PipelineNext /\ PipelineKeeps
    BY <2>1, OncePipeline
  <2>2. CASE MainNext
    BY <2>2, OnceMain
  <2>3. CASE CmpNext
    BY <2>3, OnceCmp
  <2>4. CASE EnvNext
    BY <2>4, OnceEnv
  <2>5. CASE UNCHANGED vars
    BY <2>5, OnceKept DEF vars, pipeVars, mainVars, cmpVars, OnceFrame, Met,
       NewReport, Churned, Once
  <2> QED
    BY <2>1, <2>2, <2>3, <2>4, <2>5 DEF Next, Running
<1> QED
  BY <1>1, OnceInit, TypeInvariant, ProgressInvariant, EvidenceInvariant,
     OneProcessInvariant, PTL DEF Spec

\* "New file" is said only of a file that was there and that the snapshot
\* does not name, unless the file is under two directories or the processes
\* changed: no other file reaches the comparer twice, and none under another
\* path, whatever cannot be read, and through a shutdown.
THEOREM NewIsJustified == Spec => []NewJustified
<1>1. Once => NewJustified
  BY DEF Once, NewReport, NewJustified, Decided
<1> QED
  BY <1>1, OnceInvariant, PTL
-----------------------------------------------------------------------------
(* Accounted: until the check is disturbed no file that a directory which  *)
(* can be listed led to is lost before the comparer meets it, unless it    *)
(* was missing at some moment or could not be read.                        *)

\* What needs no place in the pipeline: met by the comparer, missing at some
\* moment, or unreadable.
Gone == {f \in File : Met(f) \/ Absent \in seen[f] \/ f \in FlakyFile}

\* No file that the snapshot does not name stayed for the whole check.
NoExtra ==
    \/ \A f \in Monitored \ (DOMAIN Snapshot \cup Unseen) : Absent \in seen[f]
    \/ Churned \/ parentDone

\* The snapshot names the file, which was missing at some moment, or was not
\* seen.
DeletedReport(r) ==
    r.kind = "deleted" =>
        /\ r.file \in DOMAIN Snapshot
        /\ \/ Absent \in seen[r.file]
           \/ r.file \in Unseen
           \/ Churned \/ parentDone

Accounted ==
    /\ Undisturbed /\ cmp \in {"off", "path", "load", "range"} =>
           \A f \in File : Looked(f) => Found(f, Gone)
    /\ cmp = "done" => NoExtra
    /\ DeletedReport(err)
    /\ DeletedReport(result)
    /\ PassMeansNoExtra

LEMMA MonitoredFile ==
    /\ Monitored \subseteq File
    /\ \A f \in Monitored : \E d \in DOMAIN Roots : f \in Roots[d]
BY PipelineAssumption DEF Monitored

LEMMA AccountedInit == CheckInit => Accounted
BY PipelineAssumption DEF CheckInit, PipelineInit, Accounted, Looked,
   DeletedReport, PassMeansNoExtra, Decided, NoErr

\* Without a shutdown the context is done only when the comparer has ended,
\* or when nothing was started.
LEMMA NoContextDone ==
    ASSUME ~ parentDone, Phases, ctxDone
    PROVE  cmp \in {"off", "end"}
BY DEF Phases, Waiting

\* When the comparer has drained the closed channel, everything is behind it.
LEMMA AllLookedAt ==
    ASSUME Undisturbed, TypeInv, Phases, Progress, Accounted,
           cmp = "range", hashC = <<>>, ~ hashOpen,
           NEW f \in File \ Unseen, f \notin DOMAIN Snapshot \ left
    PROVE  Absent \in seen[f]
<1>1. ~ ctxDone
  BY NoContextDone DEF Undisturbed
<1>2. walker = "closed" /\ \A w \in Worker : wpc[w] = "done"
  BY <1>1 DEF Progress, InStep, AllDone, Unseen
<1>3. dir = Len(Roots) + 1
  BY <1>2 DEF Progress, InStep
<1>4. PICK d \in DOMAIN Roots \ FlakyDir : f \in Roots[d]
  BY DEF Unseen
<1>5. d < dir
  BY <1>3, PipelineAssumption
<1>6. Looked(f)
  BY <1>4, <1>5 DEF Looked
<1>7. \A w \in Worker : ~ Held(w, f)
  BY <1>2 DEF Held, Busy
<1>8. \A i \in 1 .. Len(hashC) : ~ Queued(i, f)
  OBVIOUS
<1>9. f \in Gone
  BY <1>6, <1>7, <1>8 DEF Accounted, Found
<1> QED
  BY <1>9 DEF Gone, Met, Unseen

LEMMA AccountedPipeline ==
    ASSUME TypeInv, Phases, Progress, Evidence, OneProcess, Accounted,
           PipelineNext, PipelineKeeps
    PROVE  Accounted'
<1>1. UNCHANGED <<cmp, left, seen, err, result, ctxDone, fs, live, procs,
                  parentDone>>
  BY PipelineFrame DEF PipelineKeeps, mainVars, cmpVars
<1>2. /\ (cmp = "done" => NoExtra)'
      /\ DeletedReport(err)' /\ DeletedReport(result)' /\ PassMeansNoExtra'
  BY <1>1 DEF Accounted, NoExtra, DeletedReport, PassMeansNoExtra, Decided,
     Churned
<1> SUFFICES ASSUME Undisturbed, cmp \in {"off", "path", "load", "range"},
                    NEW f \in File, Looked(f)'
             PROVE  Found(f, Gone)'
  BY <1>1, <1>2 DEF Accounted, Undisturbed, Churned
<1> PICK G \in SUBSET File : G = Gone
  BY DEF Gone
<1>3. G = Gone'
  BY <1>1 DEF Gone, Met
<1>4. Calm
  BY NoContextDone DEF Calm, Progress, Busy, Undisturbed
<1>5. Alive
  BY DEF OneProcess, SamePid, Alive, Undisturbed
<1>6. /\ \A g \in File : fs[g] = Absent => g \in G
      /\ FlakyFile \subseteq G
  BY PipelineAssumption DEF Evidence, Gone
<1>7. \A g \in File : Looked(g) => Found(g, G)
  BY DEF Accounted
<1>8. Found(f, G)'
  BY <1>4, <1>5, <1>6, <1>7, FoundPipeline DEF TypeInv, TypeOK
<1> QED
  BY <1>3, <1>8 DEF Found

LEMMA AccountedStart ==
    ASSUME TypeInv, Progress, Accounted, MainStart
    PROVE  Accounted'
<1>1. \A f \in File : ~ Looked(f)'
  BY PipelineAssumption DEF MainStart, StartPipeline, Progress, Looked, TypeInv,
     TypeOK, PipelineTypeOK
<1>2. UNCHANGED <<err, result, seen, procs, parentDone>> /\ cmp' = "path"
  BY DEF MainStart, envVars
<1> QED
  BY <1>1, <1>2 DEF Accounted, DeletedReport, PassMeansNoExtra, Decided, Churned

\* Steps that move no file.
LEMMA AccountedKept ==
    ASSUME Accounted, OnceFrame, UNCHANGED <<seen, procs, parentDone>>,
           cmp' \in {"off", "path", "load", "range"} =>
               /\ cmp \in {"off", "path", "load", "range"}
               /\ \A f \in File : Met(f) => Met(f)'
    PROVE  (Undisturbed /\ cmp \in {"off", "path", "load", "range"} =>
               \A f \in File : Looked(f) => Found(f, Gone))'
BY DEF Accounted, OnceFrame, Looked, Found, Gone, Held, Busy, Queued,
       Undisturbed, Churned

LEMMA AccountedMain ==
    ASSUME TypeInv, Phases, Progress, Evidence, Accounted, MainNext
    PROVE  Accounted'
<1> USE DEF mainVars, cmpVars, pipeVars, envVars, OnceFrame, Met, Churned
<1>1. CASE MainStart
  BY <1>1, AccountedStart
<1>2. CASE UNCHANGED <<cmp, left, seen>>
  <2>1. CASE MainPath \/ MainPark \/ MainAlert \/ MainRestart \/ MainCloseErrC
             \/ MainCancel
    BY <1>2, <2>1, AccountedKept
       DEF MainPath, MainPark, MainAlert, MainRestart, MainCloseErrC,
           MainCancel, Accounted, NoExtra, DeletedReport, PassMeansNoExtra,
           Decided
  <2>2. CASE MainNoPid \/ MainOnCtx
    BY <1>2, <2>2, AccountedKept
       DEF MainNoPid, MainOnCtx, Decide, OtherErr, ErrOf, Accounted, NoExtra,
           DeletedReport, PassMeansNoExtra, Decided
  <2>3. CASE MainOnDoneClosed
    <3>1. parentDone
      BY <2>3, NoContextDone DEF MainOnDoneClosed, Phases
    <3> QED
      BY <2>3, <3>1 DEF MainOnDoneClosed, Decide, ErrOf, Accounted,
         DeletedReport, PassMeansNoExtra, Undisturbed
  <2>4. ~ MainOnDone /\ ~ MainOnErr /\ ~ MainStart
    BY <1>2 DEF MainOnDone, MainOnErr, AfterError, MainStart, Phases
  <2> QED
    BY <2>1, <2>2, <2>3, <2>4 DEF MainNext
<1>3. CASE MainOnDone
  BY <1>3 DEF MainOnDone, Decide, ErrOf, Accounted, NoExtra, DeletedReport,
     PassMeansNoExtra, Decided
<1>4. CASE MainOnErr
  BY <1>4 DEF MainOnErr, Decide, AfterError, Evidence, Accounted,
     DeletedReport, PassMeansNoExtra, Decided
<1> QED
  BY <1>1, <1>2, <1>3, <1>4
     DEF MainNext, MainPath, MainNoPid, MainPark, MainOnCtx, MainOnDoneClosed,
         MainAlert, MainRestart, MainCloseErrC, MainCancel

LEMMA AccountedCmp ==
    ASSUME TypeInv, Phases, Progress, Accounted, CmpNext
    PROVE  Accounted'
<1> USE DEF mainVars, cmpVars, pipeVars, envVars, OnceFrame, Met, Fail, Churned
<1>1. UNCHANGED <<seen, result, procs, parentDone>>
  BY DEF CmpNext, CmpPath, CmpLoad, CmpLoadFail, CmpRecv, CmpClosed, CmpPanic
<1>2. DeletedReport(result)' /\ PassMeansNoExtra'
  BY <1>1 DEF Accounted, DeletedReport, PassMeansNoExtra, Decided
<1>3. CASE CmpPath \/ CmpLoad \/ CmpLoadFail \/ CmpPanic
  BY <1>1, <1>2, <1>3, AccountedKept DEF CmpPath, CmpLoad, CmpLoadFail,
     CmpPanic, OtherErr, Accounted, DeletedReport, NoExtra
<1>4. CASE CmpRecv
  <2> DEFINE h == Head(hashC)
  <2>1. Undisturbed => ~ ctxDone
    BY <1>4, NoContextDone DEF CmpRecv, Undisturbed
  <2>2. CASE /\ Expected(h)
             /\ left' = left \ {h.file}
             /\ UNCHANGED <<cmp, err>>
    <3>1. /\ \A f \in File : Looked(f)' <=> Looked(f)
          /\ \A w \in Worker, f \in File : Held(w, f)' <=> Held(w, f)
      BY <1>4 DEF CmpRecv, Looked, Held, Busy
    <3> PICK g \in DOMAIN Snapshot : g = h.file
      BY <2>2 DEF Expected, TypeInv, TypeOK, CheckTypeOK
    <3>2. /\ \A f \in File : Met(f) => Met(f)'
          /\ Met(g)'
      BY <1>4, <2>2 DEF CmpRecv
    <3>3. \A i \in 1 .. Len(hashC), f \in File :
              Queued(i, f) => f = g \/ \E j \in (1 .. Len(hashC))' :
                                         Queued(j, f)'
      BY <1>4, ComparerReceives DEF Queued
    <3>4. \A f \in File : Found(f, Gone) => Found(f, Gone)'
      BY <1>1, <3>1, <3>2, <3>3 DEF Found, Gone
    <3> QED
      BY <1>1, <1>2, <1>4, <2>2, <3>1, <3>4 DEF Accounted, DeletedReport,
         CmpRecv, Undisturbed
  <2>3. CASE \E e : e.kind # "deleted" /\ Fail(e)
    BY <1>2, <2>3 DEF Accounted, DeletedReport
  <2>4. CASE cmp' = "quit" /\ UNCHANGED err
    BY <1>1, <1>2, <2>4 DEF Accounted, DeletedReport
  <2> QED
    BY <1>4, <2>2, <2>3, <2>4 DEF CmpRecv, CompareHash, ErrOf
<1>5. CASE CmpClosed
  <2>1. Undisturbed => \A f \in File \ Unseen :
                          f \notin DOMAIN Snapshot \ left => Absent \in seen[f]
    BY <1>5, AllLookedAt DEF CmpClosed
  <2>2. ASSUME NEW f \in left, Fail(ErrOf("deleted", f))
        PROVE  Accounted'
    <3>1. f \in DOMAIN Snapshot /\ f \in File
      BY CheckAssumption DEF TypeInv, TypeOK, CheckTypeOK
    <3>2. Absent \in seen[f] \/ f \in Unseen \/ Churned \/ parentDone
      BY <2>1, <3>1 DEF Undisturbed
    <3> QED
      BY <1>1, <1>2, <2>2, <3>1, <3>2 DEF ErrOf, Accounted, DeletedReport
  <2>3. CASE left = {} /\ cmp' = "done" /\ UNCHANGED err
    <3>1. NoExtra
      BY <2>1, <2>3, MonitoredFile DEF NoExtra, Undisturbed
    <3> QED
      BY <1>1, <1>2, <2>3, <3>1 DEF Accounted, DeletedReport, NoExtra
  <2> QED
    BY <1>5, <2>2, <2>3 DEF CmpClosed, Missing
<1> QED
  BY <1>3, <1>4, <1>5 DEF CmpNext

LEMMA AccountedEnv ==
    ASSUME TypeInv, Accounted, EnvNext, [Next]_vars
    PROVE  Accounted'
<1> USE DEF mainVars, cmpVars, pipeVars
<1>1. /\ Churned => Churned'
      /\ parentDone => parentDone'
      /\ \A f \in File : seen[f] \subseteq seen'[f]
  BY Lasting
<1>2. UNCHANGED <<walker, dir, todo, wpc, item, hashC, cmp, left, err>>
  BY DEF EnvNext, ParentCancel, Touch, ProcChange
<1>3. \/ UNCHANGED result
      \/ parentDone' /\ result' = ErrOf("cancelled", NoFile)
  BY DEF EnvNext, ParentCancel, Decide, Touch, ProcChange
<1>4. \A f \in File : /\ Looked(f)' <=> Looked(f)
                      /\ Found(f, Gone) => Found(f, Gone)'
  BY <1>1, <1>2 DEF Looked, Found, Gone, Held, Busy, Queued, Met
<1>5. /\ DeletedReport(err)' /\ DeletedReport(result)'
      /\ NoExtra => NoExtra'
      /\ PassMeansNoExtra'
  BY <1>1, <1>2, <1>3, MonitoredFile, CheckAssumption
     DEF DeletedReport, NoExtra, PassMeansNoExtra, Decided, Accounted, ErrOf
<1> QED
  BY <1>1, <1>2, <1>4, <1>5 DEF Accounted, Undisturbed

LEMMA AccountedInvariant == Spec => []Accounted
<1>1. /\ TypeInv /\ Phases /\ Progress /\ Evidence /\ OneProcess /\ Accounted
      /\ [Next]_vars
      => Accounted'
  <2> SUFFICES ASSUME TypeInv, Phases, Progress, Evidence, OneProcess,
                      Accounted, [Next]_vars
               PROVE  Accounted'
    OBVIOUS
  <2>1. CASE PipelineNext /\ PipelineKeeps
    BY <2>1, AccountedPipeline
  <2>2. CASE MainNext
    BY <2>2, AccountedMain
  <2>3. CASE CmpNext
    BY <2>3, AccountedCmp
  <2>4. CASE EnvNext
    BY <2>4, AccountedEnv
  <2>5. CASE UNCHANGED vars
    BY <2>5 DEF vars, pipeVars, mainVars, cmpVars, Accounted, Looked, Found,
       Gone, Held, Busy, Queued, Met, NoExtra, DeletedReport, PassMeansNoExtra,
       Decided, Undisturbed, Churned
  <2> QED
    BY <2>1, <2>2, <2>3, <2>4, <2>5 DEF Next, Running
<1> QED
  BY <1>1, AccountedInit, TypeInvariant, PhasesInvariant, ProgressInvariant,
     EvidenceInvariant, OneProcessInvariant, PTL DEF Spec

\* "File deleted" is said only of a file that was missing at some moment of
\* the check, could not be listed or read, or in a check that another process
\* or a shutdown disturbed: the comparer reads every digest before it looks
\* at what is left of the snapshot.
THEOREM DeletedIsJustified == Spec => []DeletedJustified
<1>1. Accounted => DeletedJustified
  BY DEF Accounted, DeletedReport, DeletedJustified, Decided
<1> QED
  BY <1>1, AccountedInvariant, PTL

\* "Hashes compared successfully" means that no file was left out of the
\* comparison: every monitored file that can be listed and read and that the
\* snapshot does not name was missing at some moment of the check, unless
\* another process or a shutdown disturbed it.
THEOREM PassIsComplete == Spec => []PassMeansNoExtra
<1>1. Accounted => PassMeansNoExtra
  BY DEF Accounted
<1> QED
  BY <1>1, AccountedInvariant, PTL
-----------------------------------------------------------------------------
(* The refinement of IntegrityVerdict.  Beyond the invariants above it     *)
(* needs to know that the caller decides once and restarts the pod once,   *)
(* and that an error the comparer sends is one the verdict allows.         *)

ErrorSent ==
    \/ err = OtherErr
    \/ \E f \in DOMAIN Snapshot : err = ErrOf("mismatch", f)
    \/ \E f \in Monitored : err = ErrOf("new", f)
    \/ \E f \in DOMAIN Snapshot : err = ErrOf("deleted", f)

Standing ==
    /\ main \in {"paths", "select", "parked"} => result = NoErr
    /\ main \in {"alert", "restart"} => result.kind \in IntegrityErrors
    /\ main \in {"paths", "select", "parked", "alert", "restart"} =>
           podDeleted = FALSE
    /\ cmp = "err" => ErrorSent

LEMMA StandingInit == CheckInit => Standing
BY DEF CheckInit, Standing

LEMMA StandingStep ==
    ASSUME TypeInv, Once, Standing, [Next]_vars
    PROVE  Standing'
<1> USE DEF Standing, ErrorSent, mainVars, cmpVars, pipeVars, envVars
<1>1. CASE PipelineNext /\ PipelineKeeps
  BY <1>1 DEF PipelineKeeps
<1>2. CASE MainPath \/ MainStart \/ MainPark \/ MainAlert
  BY <1>2 DEF MainPath, MainStart, MainPark, MainAlert
<1>3. CASE MainNoPid \/ MainOnCtx \/ MainOnDone \/ MainOnDoneClosed
  BY <1>3 DEF MainNoPid, MainOnCtx, MainOnDone, MainOnDoneClosed, Decide
<1>4. CASE MainOnErr
  BY <1>4 DEF MainOnErr, Decide, Waiting, Restarts, AfterError
<1>5. CASE MainRestart \/ MainCloseErrC \/ MainCancel
  BY <1>5 DEF MainRestart, MainCloseErrC, MainCancel
<1>6. CASE CmpPath \/ CmpLoad \/ CmpLoadFail \/ CmpPanic
  BY <1>6 DEF CmpPath, CmpLoad, CmpLoadFail, CmpPanic, Fail
<1>7. CASE CmpRecv
  <2> PICK f \in File : f = Head(hashC).file
    BY <1>7, ComparerReceives DEF FileHash
  <2>1. f \in Monitored
    BY <1>7, ComparerReceives DEF Once, Sole, InChannel, Passed, Monitored, Queued
  <2>2. Expected(Head(hashC)) => f \in DOMAIN Snapshot
    BY DEF Expected, TypeInv, TypeOK, CheckTypeOK
  <2> QED
    BY <1>7, <2>1, <2>2 DEF CmpRecv, CompareHash, Fail
<1>8. CASE CmpClosed
  BY <1>8 DEF CmpClosed, Missing, Fail, TypeInv, TypeOK, CheckTypeOK
<1>9. CASE ParentCancel
  BY <1>9 DEF ParentCancel, Decide
<1>10. ASSUME NEW f \in File, NEW c \in Value, Touch(f, c)
       PROVE  Standing'
  BY <1>10 DEF Touch
<1>11. ASSUME NEW p \in Pid, ProcChange(p)
       PROVE  Standing'
  BY <1>11 DEF ProcChange
<1>12. CASE UNCHANGED vars
  BY <1>12 DEF vars
<1> QED
  BY <1>1, <1>2, <1>3, <1>4, <1>5, <1>6, <1>7, <1>8, <1>9, <1>10, <1>11,
     <1>12 DEF Next, Running, MainNext, CmpNext, EnvNext

LEMMA StandingInvariant == Spec => []Standing
<1>1. TypeInv /\ Once /\ Standing /\ [Next]_vars => Standing'
  BY StandingStep
<1> QED
  BY <1>1, StandingInit, TypeInvariant, OnceInvariant, PTL DEF Spec

\* A decision of the caller is one of the verdict's.
LEMMA DecisionAllowed ==
    ASSUME TypeInv, Phases, Evidence, Once, Accounted, Standing,
           \/ MainNoPid \/ MainOnCtx \/ MainOnDone \/ MainOnDoneClosed
           \/ MainOnErr
    PROVE  Verdict!Next
<1>1. /\ result.kind = "none"
      /\ UNCHANGED <<fs, seen, podDeleted, parentDone>>
      /\ UNCHANGED Churned
  BY DEF MainNoPid, MainOnCtx, MainOnDone, MainOnDoneClosed, MainOnErr, Decide,
         Waiting, Standing, NoErr, envVars, Churned
<1> USE <1>1 DEF Verdict!surroundings, Verdict!Next, Verdict!Decide, Verdict!Verdict,
                 Verdict!Undecided, Decide, ErrOf, OtherErr, NoFile
<1>2. CASE MainNoPid
  BY <1>2 DEF MainNoPid, Verdict!GiveUp
<1>3. CASE MainOnCtx
  BY <1>3 DEF MainOnCtx, Verdict!Cancelled, Phases
<1>4. CASE MainOnDone
  <2>1. \A f \in DOMAIN Snapshot : Snapshot[f] \in seen[f]
    BY <1>4 DEF MainOnDone, Evidence, Matched
  <2>2. NoExtra
    BY <1>4 DEF MainOnDone, Accounted
  <2>3. Verdict!Pass
    BY <1>4, <2>1, <2>2 DEF MainOnDone, Verdict!Pass, NoExtra
  <2> QED
    BY <2>3
<1>5. CASE MainOnErr
  <2>1. result' = err /\ ErrorSent
    BY <1>5 DEF MainOnErr, Standing
  <2>2. CASE err = OtherErr
    BY <2>1, <2>2 DEF Verdict!GiveUp
  <2>3. ASSUME NEW f \in DOMAIN Snapshot, err = ErrOf("mismatch", f)
        PROVE  Verdict!Next
    <3>1. Verdict!Mismatch(f)
      BY <2>1, <2>3 DEF Verdict!Mismatch, Evidence, Mismatching
    <3> QED
      BY <3>1, CheckAssumption
  <2>4. ASSUME NEW f \in Monitored, err = ErrOf("new", f)
        PROVE  Verdict!Next
    <3>1. Verdict!NewFile(f)
      BY <2>1, <2>4 DEF Verdict!NewFile, Once, NewReport
    <3> QED
      BY <3>1, MonitoredFile
  <2>5. ASSUME NEW f \in DOMAIN Snapshot, err = ErrOf("deleted", f)
        PROVE  Verdict!Next
    <3>1. Verdict!Deleted(f)
      BY <2>1, <2>5 DEF Verdict!Deleted, Accounted, DeletedReport
    <3> QED
      BY <3>1, CheckAssumption
  <2> QED
    BY <2>1, <2>2, <2>3, <2>4, <2>5 DEF ErrorSent
<1>6. CASE MainOnDoneClosed
  <2>1. parentDone
    BY <1>6, NoContextDone DEF MainOnDoneClosed, Phases
  <2>2. Verdict!Pass
    BY <1>6, <2>1 DEF MainOnDoneClosed, Verdict!Pass
  <2> QED
    BY <2>2
<1> QED
  BY <1>2, <1>3, <1>4, <1>5, <1>6

LEMMA VerdictStep ==
    ASSUME TypeInv, Phases, Evidence, Once, Accounted, Standing, [Next]_vars
    PROVE  [Verdict!Next]_(Verdict!vars)
<1> USE DEF Verdict!vars, Verdict!surroundings, Churned, mainVars, cmpVars,
            pipeVars, envVars
<1>1. CASE PipelineNext /\ PipelineKeeps
  BY <1>1, PipelineFrame DEF PipelineKeeps
<1>2. CASE MainNoPid \/ MainOnCtx \/ MainOnDone \/ MainOnDoneClosed \/ MainOnErr
  BY <1>2, DecisionAllowed
<1>4. CASE MainPath \/ MainStart \/ MainPark \/ MainAlert \/ MainCloseErrC
           \/ MainCancel
  BY <1>4 DEF MainPath, MainStart, MainPark, MainAlert, MainCloseErrC,
              MainCancel
<1>5. CASE MainRestart
  <2>1. /\ UNCHANGED <<fs, seen, result, procs, parentDone>>
        /\ result.kind \in IntegrityErrors
        /\ podDeleted = FALSE
        /\ podDeleted' \in BOOLEAN
    BY <1>5 DEF MainRestart, Standing
  <2>2. CASE podDeleted' = TRUE
    <3>1. Verdict!Restart
      BY <2>1, <2>2, Zenon
         DEF Verdict!Restart, Verdict!IntegrityErrors, IntegrityErrors
    <3> QED
      BY <3>1 DEF Verdict!Next
  <2>3. CASE podDeleted' = FALSE
    BY <2>1, <2>3
  <2> QED
    BY <2>1, <2>2, <2>3
<1>6. CASE CmpNext
  BY <1>6 DEF CmpNext, CmpPath, CmpLoad, CmpLoadFail, CmpRecv, CmpClosed,
              CmpPanic
<1>7. CASE ParentCancel
  <2>1. /\ ~ parentDone /\ parentDone'
        /\ UNCHANGED <<fs, seen, procs, podDeleted>>
    BY <1>7 DEF ParentCancel, Decide
  <2>2. \/ result.kind = "none" /\ result' = ErrOf("cancelled", NoFile)
        \/ UNCHANGED result
    BY <1>7 DEF ParentCancel, Decide, Standing, NoErr
  <2>3. Verdict!Stop
    BY <2>1, <2>2, Zenon DEF Verdict!Stop, Verdict!Undecided, Verdict!Verdict,
       ErrOf, NoFile
  <2> QED
    BY <2>3 DEF Verdict!Next
<1>8. ASSUME NEW f \in File, NEW c \in Value, Touch(f, c)
      PROVE  [Verdict!Next]_(Verdict!vars)
  <2>1. Verdict!Observe(f, c)
    BY <1>8 DEF Touch, Verdict!Observe
  <2> QED
    BY <2>1 DEF Verdict!Next, Verdict!Value, Value
<1>9. ASSUME NEW p \in Pid, ProcChange(p)
      PROVE  [Verdict!Next]_(Verdict!vars)
  <2>1. procs' > 0
    BY <1>9, CheckAssumption DEF ProcChange, TypeInv, TypeOK, CheckTypeOK
  <2>2. Verdict!Churn
    BY <1>9, <2>1 DEF ProcChange, Verdict!Churn
  <2> QED
    BY <2>2 DEF Verdict!Next
<1>10. CASE UNCHANGED vars
  BY <1>10 DEF vars
<1> QED
  BY <1>1, <1>2, <1>4, <1>5, <1>6, <1>7, <1>8, <1>9, <1>10
     DEF Next, Running, MainNext, EnvNext

\* The goroutines of a check together do what IntegrityVerdict promises: one
\* verdict, that the files justified or a disturbance excuses, and a restart
\* of the pod after an integrity error only - whatever the monitored
\* directories and the snapshot, and through every failure, change of
\* processes and shutdown.
THEOREM ImplementsVerdict == Spec => VerdictSpec
<1>1. CheckInit => Verdict!Init
  BY DEF CheckInit, Verdict!Init, Verdict!Value, Value, Verdict!Verdict, NoErr,
         NoFile, Churned
<1>2. /\ TypeInv /\ Phases /\ Evidence /\ Once /\ Accounted /\ Standing
      /\ [Next]_vars
      => [Verdict!Next]_(Verdict!vars)
  BY VerdictStep
<1> QED
  BY <1>1, <1>2, TypeInvariant, PhasesInvariant, EvidenceInvariant,
     OnceInvariant, AccountedInvariant, StandingInvariant, PTL
     DEF Spec, VerdictSpec, Verdict!Spec
=============================================================================
