--------------------------- MODULE IntegrityCheck ---------------------------
(***************************************************************************)
(* One call of CheckIntegrity                                              *)
(* (internal/integritymonitor/integritymonitor.go) with every goroutine it *)
(* starts: the caller, the hashing pipeline of HashPipeline, and the       *)
(* comparer, which loads the snapshot from MinIO and compares it with the  *)
(* digests.  The caller waits for the context, for the comparer's count on *)
(* doneC or for its error on errC, and closes errC and cancels the context *)
(* when it returns.                                                        *)
(*                                                                         *)
(* Around them the container keeps running: files change, processes end    *)
(* and start, the program is asked to shut down.                           *)
(*                                                                         *)
(* A definition marked "Fault" is no part of the program: it is what the   *)
(* definition after it would be with a plausible mistake, and shows that a *)
(* property notices that mistake.                                          *)
(***************************************************************************)
EXTENDS HashPipeline

CONSTANTS
    Snapshot,    \* the expected digest of each file named in the snapshot
    LoadErrors,  \* TRUE when MinIO may fail, or hold no readable snapshot
    MayCancel,   \* TRUE when the program may be told to shut down
    FirstPid,    \* the processes alive when the check begins
    MaxTouch,    \* bound: how many times a file changes during the check
    MaxProc      \* bound: how many processes start or end during it

ASSUME CheckAssumption ==
    /\ DOMAIN Snapshot \subseteq File
    /\ \A f \in DOMAIN Snapshot : Snapshot[f] \in Content
    /\ LoadErrors \in BOOLEAN
    /\ MayCancel \in BOOLEAN
    /\ FirstPid \subseteq Pid
    /\ MaxTouch \in Nat
    /\ MaxProc \in Nat

VARIABLES
    main,        \* where CheckIntegrity stands
    result,      \* what it has decided, and for which file
    podDeleted,  \* the pod has been asked to restart
    errClosed,   \* close(errC) has run
    cmp,         \* where the comparer stands
    cmpPid,      \* the pid whose path it strips from file names
    left,        \* snapshot entries it has not met yet
    err,         \* the error it is sending
    crashed,     \* the program has panicked
    parentDone,  \* the context of the program has been cancelled
    seen,        \* history: what each file has held since the check began
    touches,     \* bounded by MaxTouch
    procs        \* bounded by MaxProc

cmpVars == <<cmp, cmpPid, left, err>>
mainVars == <<main, result, podDeleted, errClosed>>
envVars == <<fs, live, seen, touches, procs>>
vars == <<pipeVars, fs, live, ctxDone, mainVars, cmpVars, crashed, parentDone,
          seen, touches, procs>>

IntegrityErrors == {"mismatch", "new", "deleted"}
NoFile == 0
NoErr == [kind |-> "none", file |-> NoFile]
OtherErr == [kind |-> "other", file |-> NoFile]
ErrOf(kind, f) == [kind |-> kind, file |-> f]
Outcome == [kind : {"none", "ok", "cancelled", "other"} \cup IntegrityErrors,
            file : File \cup {NoFile}]

\* `pidof` prints the pids of one set of processes in one order, and GetPID
\* takes the first; nothing else is assumed of the order.
PidOf(S) == CHOOSE p \in S : TRUE

CheckInit ==
    /\ PipelineInit
    /\ fs \in [File -> Value]
    /\ live = FirstPid
    /\ ctxDone = FALSE
    /\ main = "paths"
    /\ result = NoErr
    /\ podDeleted = FALSE
    /\ errClosed = FALSE
    /\ cmp = "off"
    /\ cmpPid = 0
    /\ left = {}
    /\ err = NoErr
    /\ crashed = FALSE
    /\ parentDone = FALSE
    /\ seen = [f \in File |-> {fs[f]}]
    /\ touches = 0
    /\ procs = 0

-----------------------------------------------------------------------------
(* The goroutine that calls CheckIntegrity.                                *)

\* GetProcessPath: one run of pidof for every monitored directory
MainPath ==
    /\ main = "paths"
    /\ Len(base) < Len(Roots)
    /\ live # {}
    /\ base' = Append(base, PidOf(live))
    /\ UNCHANGED <<walker, dir, todo, wpc, item, hashC, hashOpen, ctxDone,
                   mainVars, cmpVars, crashed, parentDone, envVars>>

Decide(r, next) ==
    /\ result' = r
    /\ main' = next
    /\ UNCHANGED <<podDeleted, errClosed>>

MainNoPid ==
    /\ main = "paths"
    /\ Len(base) < Len(Roots)
    /\ live = {}
    /\ Decide(OtherErr, "return")
    /\ UNCHANGED <<pipeVars, ctxDone, cmpVars, crashed, parentDone, envVars>>

\* the walker, the pool and the comparer are started, then the select reached
MainStart ==
    /\ main = "paths"
    /\ Len(base) = Len(Roots)
    /\ StartPipeline
    /\ cmp' = "path"
    /\ main' = "select"
    /\ UNCHANGED <<ctxDone, result, podDeleted, errClosed, cmpPid, left, err,
                   crashed, parentDone, envVars>>

Waiting == main \in {"select", "parked"}

\* No case of the select is ready: the goroutine sleeps, and the first event
\* to come takes it (see ParentCancel).  Reached late, the select picks any
\* of the cases that are ready.
MainPark ==
    /\ main = "select"
    /\ ~ ctxDone
    /\ cmp \notin {"err", "done", "end", "quit"}
    /\ main' = "parked"
    /\ UNCHANGED <<pipeVars, ctxDone, result, podDeleted, errClosed, cmpVars,
                   crashed, parentDone, envVars>>

MainOnCtx ==
    /\ main = "select"
    /\ ctxDone
    /\ Decide(ErrOf("cancelled", NoFile), "return")
    /\ UNCHANGED <<pipeVars, ctxDone, cmpVars, crashed, parentDone, envVars>>

\* doneC and errC have no buffer: receiving is one step of both goroutines
MainOnDone ==
    /\ Waiting
    /\ cmp = "done"
    /\ Decide(ErrOf("ok", NoFile), "return")
    /\ cmp' = "end"
    /\ UNCHANGED <<pipeVars, ctxDone, cmpPid, left, err, crashed, parentDone,
                   envVars>>

\* a comparer that gave up has closed doneC, which reads as a count of zero
MainOnDoneClosed ==
    /\ Waiting
    /\ cmp = "quit"
    /\ Decide(ErrOf("ok", NoFile), "return")
    /\ UNCHANGED <<pipeVars, ctxDone, cmpVars, crashed, parentDone, envVars>>

\* Fault: every error is taken for an integrity error.
AnyErrorRestarts(e) == e.kind # "none"
\* integrityCheckFailed alerts and restarts for integrity errors only
Restarts(e) == e.kind \in IntegrityErrors

\* Fault: the `return` after the send is missing.
NoReturnAfterError == "range"
\* the comparer returns after it has sent an error
AfterError == "end"

MainOnErr ==
    /\ Waiting
    /\ cmp = "err"
    /\ Decide(err, IF Restarts(err) THEN "alert" ELSE "return")
    /\ cmp' = AfterError
    /\ UNCHANGED <<pipeVars, ctxDone, cmpPid, left, err, crashed, parentDone,
                   envVars>>

\* alerts.Send: its error is logged and changes nothing
MainAlert ==
    /\ main = "alert"
    /\ main' = "restart"
    /\ UNCHANGED <<pipeVars, ctxDone, result, podDeleted, errClosed, cmpVars,
                   crashed, parentDone, envVars>>

\* kubeClient.RestartPod(): its error is dropped
MainRestart ==
    /\ main = "restart"
    /\ main' = "return"
    /\ podDeleted' \in BOOLEAN
    /\ UNCHANGED <<pipeVars, ctxDone, result, errClosed, cmpVars, crashed,
                   parentDone, envVars>>

\* Fault: errC is not closed.
NoCloseErrC ==
    /\ main = "return"
    /\ main' = "cancel"
    /\ UNCHANGED <<pipeVars, ctxDone, result, podDeleted, errClosed, cmpVars,
                   crashed, parentDone, envVars>>

\* the deferred calls, in the order they run
MainCloseErrC ==
    /\ main = "return"
    /\ main' = "cancel"
    /\ errClosed' = TRUE
    /\ UNCHANGED <<pipeVars, ctxDone, result, podDeleted, cmpVars, crashed,
                   parentDone, envVars>>

MainCancel ==
    /\ main = "cancel"
    /\ main' = "returned"
    /\ ctxDone' = TRUE
    /\ UNCHANGED <<pipeVars, result, podDeleted, errClosed, cmpVars, crashed,
                   parentDone, envVars>>

MainNext ==
    \/ MainPath
    \/ MainNoPid
    \/ MainStart
    \/ MainPark
    \/ MainOnCtx
    \/ MainOnDone
    \/ MainOnDoneClosed
    \/ MainOnErr
    \/ MainAlert
    \/ MainRestart
    \/ MainCloseErrC
    \/ MainCancel

-----------------------------------------------------------------------------
(* The comparer: the goroutine of compareHashes.                           *)

Fail(e) ==
    /\ cmp' = "err"
    /\ err' = e

\* GetProcessPath(procName, ""): pidof runs once more
CmpPath ==
    /\ cmp = "path"
    /\ IF live = {}
       THEN /\ Fail(OtherErr)
            /\ UNCHANGED cmpPid
       ELSE /\ cmp' = "load"
            /\ cmpPid' = PidOf(live)
            /\ UNCHANGED err
    /\ UNCHANGED <<pipeVars, ctxDone, mainVars, left, crashed, parentDone,
                   envVars>>

CmpLoad ==
    /\ cmp = "load"
    /\ cmp' = "range"
    /\ left' = DOMAIN Snapshot
    /\ UNCHANGED <<pipeVars, ctxDone, mainVars, cmpPid, err, crashed,
                   parentDone, envVars>>

\* CheckSumFile, Load or Get fails; Load also when its context is done
CmpLoadFail ==
    /\ cmp = "load"
    /\ LoadErrors \/ ctxDone
    /\ Fail(OtherErr)
    /\ UNCHANGED <<pipeVars, ctxDone, mainVars, cmpPid, left, crashed,
                   parentDone, envVars>>

\* TrimPrefix leaves a path of another process as it is, and no entry of the
\* snapshot has such a name; an entry met before is no longer in the map.
Expected(h) == h.pid = cmpPid /\ h.file \in left

CompareHash(h) ==
    \/ /\ Expected(h)
       /\ h.hash = Snapshot[h.file]
       /\ left' = left \ {h.file}
       /\ UNCHANGED <<cmp, err>>
    \/ /\ Expected(h)
       /\ h.hash # Snapshot[h.file]
       /\ Fail(ErrOf("mismatch", h.file))
       /\ UNCHANGED left
    \/ /\ ~ Expected(h)
       /\ Fail(ErrOf("new", h.file))
       /\ UNCHANGED left

CmpRecv ==
    /\ cmp = "range"
    /\ hashC # <<>>
    /\ hashC' = Tail(hashC)
    /\ \/ /\ ctxDone
          /\ cmp' = "quit"
          /\ UNCHANGED <<left, err>>
       \/ /\ ~ ctxDone
          /\ CompareHash(Head(hashC))
    /\ UNCHANGED <<base, walker, dir, todo, wpc, item, hashOpen, ctxDone,
                   mainVars, cmpPid, crashed, parentDone, envVars>>

\* Fault: what is left in the map is not looked at.
NothingMissing == {}
\* The channel is closed and drained: what is left was not found.  Only the
\* first entry the map yields is reported.
Missing == left

CmpClosed ==
    /\ cmp = "range"
    /\ hashC = <<>>
    /\ ~ hashOpen
    /\ \/ \E f \in Missing : Fail(ErrOf("deleted", f))
       \/ Missing = {} /\ cmp' = "done" /\ UNCHANGED err
    /\ UNCHANGED <<pipeVars, ctxDone, mainVars, cmpPid, left, crashed,
                   parentDone, envVars>>

\* a send on a closed channel panics, also one that is already waiting
CmpPanic ==
    /\ cmp = "err"
    /\ errClosed
    /\ crashed' = TRUE
    /\ UNCHANGED <<pipeVars, ctxDone, mainVars, cmpVars, parentDone, envVars>>

CmpNext ==
    \/ CmpPath
    \/ CmpLoad
    \/ CmpLoadFail
    \/ CmpRecv
    \/ CmpClosed
    \/ CmpPanic

-----------------------------------------------------------------------------
(* The environment.                                                        *)

\* graceful.Execute cancels the context; a select that sleeps is woken by it
ParentCancel ==
    /\ MayCancel
    /\ ~ parentDone
    /\ parentDone' = TRUE
    /\ ctxDone' = TRUE
    /\ \/ main = "parked" /\ Decide(ErrOf("cancelled", NoFile), "return")
       \/ main # "parked" /\ UNCHANGED mainVars
    /\ UNCHANGED <<pipeVars, cmpVars, crashed, envVars>>

Touch(f, c) ==
    /\ touches < MaxTouch
    /\ c # fs[f]
    /\ touches' = touches + 1
    /\ fs' = [fs EXCEPT ![f] = c]
    /\ seen' = [seen EXCEPT ![f] = @ \cup {c}]
    /\ UNCHANGED <<pipeVars, live, ctxDone, mainVars, cmpVars, crashed,
                   parentDone, procs>>

\* a process of the monitored name ends, or another one starts
ProcChange(p) ==
    /\ procs < MaxProc
    /\ procs' = procs + 1
    /\ live' = IF p \in live THEN live \ {p} ELSE live \cup {p}
    /\ UNCHANGED <<pipeVars, fs, ctxDone, mainVars, cmpVars, crashed,
                   parentDone, seen, touches>>

EnvNext ==
    \/ ParentCancel
    \/ \E f \in File, c \in Value : Touch(f, c)
    \/ \E p \in Pid : ProcChange(p)

-----------------------------------------------------------------------------
PipelineKeeps == UNCHANGED <<mainVars, cmpVars, crashed, parentDone, seen,
                             touches, procs>>

\* a panic ends the whole program
Running(A) == ~ crashed /\ A

Next ==
    \/ Running(PipelineNext /\ PipelineKeeps)
    \/ Running(MainNext)
    \/ Running(CmpNext)
    \/ Running(EnvNext)

Spec == CheckInit /\ [][Next]_vars

\* Goroutines that can run do run; the environment promises nothing.
Fairness ==
    /\ WF_vars(Running(WalkerNext /\ PipelineKeeps))
    /\ \A w \in Worker : WF_vars(Running(WorkerNext(w) /\ PipelineKeeps))
    /\ WF_vars(Running(CloseHashes /\ PipelineKeeps))
    /\ WF_vars(Running(MainNext))
    /\ WF_vars(Running(CmpNext))

FairSpec == Spec /\ Fairness

-----------------------------------------------------------------------------
(* Properties.                                                             *)

CheckTypeOK ==
    /\ main \in {"paths", "select", "parked", "alert", "restart", "return",
                 "cancel", "returned"}
    /\ result \in Outcome
    /\ podDeleted \in BOOLEAN
    /\ errClosed \in BOOLEAN
    /\ cmp \in {"off", "path", "load", "range", "err", "done", "quit", "end"}
    /\ cmpPid \in Pid \cup {0}
    /\ left \subseteq DOMAIN Snapshot
    /\ err \in Outcome
    /\ crashed \in BOOLEAN
    /\ parentDone \in BOOLEAN
    /\ seen \in [File -> SUBSET Value]
    /\ touches \in 0 .. MaxTouch
    /\ procs \in 0 .. MaxProc

\* Every variable keeps its type, and no channel exceeds its buffer.
TypeOK == PipelineTypeOK /\ CheckTypeOK

Monitored == UNION {Roots[d] : d \in DOMAIN Roots}

Decided(kind) == result.kind = kind

\* A file is reported as mismatched only if, at some moment of this check,
\* it held something other than the snapshot says: the comparer never pairs
\* a file with the digest of another one, whatever fails around it.
MismatchJustified ==
    Decided("mismatch") =>
        \E c \in seen[result.file] \ {Absent} : c # Snapshot[result.file]

\* A process of the monitored name has ended or started during the check:
\* files listed under another pid are not recognised, those of the one that
\* ended cannot be read.
Churned == procs > 0

\* A file is reported as new only if it existed at some moment of the check
\* and is not in the snapshot: the comparer meets no file a second time, and
\* none under another path, unless the file is under two monitored
\* directories or the processes changed.
NewJustified ==
    Decided("new") =>
        /\ \E c \in seen[result.file] : c # Absent
        /\ \/ result.file \notin DOMAIN Snapshot
           \/ result.file \in Repeated
           \/ Churned

\* A file is reported as deleted ("file deleted") only if it did not exist
\* at some moment of the check, unless it could not be listed or read, the
\* processes changed or the program was shutting down: what a worker holds or
\* the channel of digests still carries is never taken for deleted.
DeletedJustified ==
    Decided("deleted") =>
        \/ Absent \in seen[result.file]
        \/ result.file \in Unseen
        \/ Churned \/ parentDone

\* When CheckIntegrity says "hashes compared successfully", every file of
\* the snapshot was read with its expected content during this check,
\* whatever could not be read and whichever processes came and went; only a
\* shutdown makes it say so without having compared.
PassMeansMatched ==
    Decided("ok") =>
        parentDone \/ \A f \in DOMAIN Snapshot : Snapshot[f] \in seen[f]

\* When the check succeeds, no monitored file that can be listed and read and
\* that the snapshot does not name was there during the whole of it, unless
\* the processes changed or the program was shutting down.
PassMeansNoExtra ==
    Decided("ok") =>
        \/ \A f \in Monitored \ (DOMAIN Snapshot \cup Unseen) :
               Absent \in seen[f]
        \/ Churned \/ parentDone

\* The check implements the promise of IntegrityVerdict: one verdict, that
\* the files or a named disturbance justified during the check, and a restart
\* of the pod only after an integrity error.
Verdict == INSTANCE IntegrityVerdict
               WITH verdict <- result, restarted <- podDeleted,
                    churned <- Churned, stopping <- parentDone
VerdictSpec == Verdict!Spec

\* The program panics (a send on the closed errC) only when it was told to
\* shut down: on every other way out the comparer has stopped sending
\* before the deferred close runs.
PanicOnlyOnShutdown == crashed => parentDone

\* "Run Application with graceful shutdown": a shutdown never panics.
NoPanic == ~ crashed

\* A check that succeeds has consumed its whole pipeline: nothing it started
\* is left running.
PassLeavesNothing ==
    Decided("ok") /\ ~ parentDone =>
        /\ \A w \in Worker : wpc[w] = "done"
        /\ walker = "closed"
        /\ cmp = "end"

\* Whatever fails, CheckIntegrity returns to the ticker loop.
CheckReturns == <>(main = "returned" \/ crashed)

\* The walker never outlives the check: it is the one goroutine of the
\* pipeline whose send also waits for the context.
WalkerEnds == <>[](walker \in {"off", "closed"} \/ crashed)

\* A worker is stranded for ever only on the full channel of a comparer
\* that left before draining it.
Stranded(w) == wpc[w] = "send" /\ Len(hashC) = Cap
StrandedOnlyOnFullChannel ==
    <>[](crashed \/ \A w \in Worker :
            \/ wpc[w] \in {"off", "done"}
            \/ Stranded(w) /\ cmp \in {"end", "quit"})
=============================================================================
