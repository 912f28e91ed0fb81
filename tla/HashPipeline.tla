---------------------------- MODULE HashPipeline ----------------------------
(***************************************************************************)
(* The hashing pipeline that both programs share: one walker goroutine     *)
(* lists the monitored directories and hands file names over an unbuffered *)
(* channel to a pool of workers, which hash the files and put the results  *)
(* on a buffered channel that a closer closes when the last worker ends.   *)
(*                                                                         *)
(*   internal/walker/filewalker.go   ChanWalkDir                           *)
(*   internal/worker/workers.go      WorkersPool, NewWorker                *)
(*   pkg/hasher/hasher.go            HashFile                              *)
(*                                                                         *)
(* Files are read through /proc/<pid>/root of a monitored process, so a    *)
(* file name carries the pid it was listed under and becomes unreadable    *)
(* when that process ends.  The digest of a content is the content itself: *)
(* the hash functions are taken to be free of collisions.                  *)
(*                                                                         *)
(* The consumer of the hash channel, and the environment that changes the  *)
(* files and ends processes, are left to the modules that extend this one. *)
(*                                                                         *)
(* A definition marked "Fault" is no part of the program: it is what the   *)
(* definition after it would be with a plausible mistake, and shows that a *)
(* property notices that mistake.                                          *)
(***************************************************************************)
EXTENDS Naturals, Sequences, FiniteSets

CONSTANTS
    File,        \* regular files, by their path inside the container
    Content,     \* what a file can hold, which is also its digest
    Absent,      \* the "content" of a file that does not exist
    Pid,         \* process ids, each naming the tree /proc/<pid>/root
    Roots,       \* the monitored directories, each the set of files under it
    Worker,      \* the goroutines of the pool, as many as --count-workers
    FlakyFile,   \* files whose read may fail although they exist
    FlakyDir     \* monitored directories whose listing may fail

ASSUME PipelineAssumption ==
    /\ Absent \notin Content
    /\ Roots \in Seq(SUBSET File)
    /\ IsFiniteSet(Worker)
    /\ FlakyFile \subseteq File
    /\ FlakyDir \subseteq DOMAIN Roots

VARIABLES
    fs,        \* what each file holds now
    live,      \* the processes whose tree can be read now
    base,      \* the pid under which each monitored directory is walked
    walker,    \* where the walker stands
    dir,       \* the monitored directory it is at
    todo,      \* listed files it has not handed over yet
    wpc,       \* where each worker stands
    item,      \* the file, and then the digest, that each worker holds
    hashC,     \* the buffered channel of digests
    hashOpen,  \* FALSE once the closer has closed it
    ctxDone    \* the context of the pipeline is done

pipeVars == <<base, walker, dir, todo, wpc, item, hashC, hashOpen>>

Value == Content \cup {Absent}
FileHash == [pid : Pid, file : File, hash : Value]
NoItem == [pid |-> 0, file |-> 0, hash |-> 0]

\* Nothing promises that these files are hashed: no directory that can be
\* listed leads to them, they cannot be read, or the pool has no worker.
Unseen == {f \in File :
              \/ \A d \in DOMAIN Roots : f \in Roots[d] => d \in FlakyDir
              \/ f \in FlakyFile
              \/ Worker = {}}

\* Files under two of the monitored directories: they are hashed twice.
Repeated == {f \in File : \E d, e \in DOMAIN Roots :
                             d # e /\ f \in Roots[d] /\ f \in Roots[e]}

\* make(chan FileHash, countWorkers)
Cap == Cardinality(Worker)

\* A walk of a tree starts only when the process that owns it is alive.
Listing(d) == {f \in Roots[d] : fs[f] # Absent}

\* Fault: room for one more than was allocated.
OneTooMany == Len(hashC) <= Cap
\* a sender of the buffered channel waits for room
Room == Len(hashC) < Cap

\* Fault: the error of opening a missing file is overlooked.
OpenedOnly(i) == i.pid \in live
\* HashFile opens and reads the file through the process it was listed under.
Readable(i) == i.pid \in live /\ fs[i.file] # Absent

-----------------------------------------------------------------------------
(* The walker. *)

PipelineInit ==
    /\ base = <<>>
    /\ walker = "off"
    /\ dir = 1
    /\ todo = {}
    /\ wpc = [w \in Worker |-> "off"]
    /\ item = [w \in Worker |-> NoItem]
    /\ hashC = <<>>
    /\ hashOpen = TRUE

StartPipeline ==
    /\ walker = "off"
    /\ walker' = "open"
    /\ wpc' = [w \in Worker |-> "recv"]
    /\ UNCHANGED <<base, dir, todo, item, hashC, hashOpen>>

\* Fault: a directory is passed over.
SkipDir ==
    /\ walker' = "open"
    /\ dir' = IF dir = Len(base) THEN dir + 1 ELSE dir + 2
    /\ todo' = {}

\* Fault: the same directory is walked again.
SameDir ==
    /\ walker' = "open"
    /\ dir' = dir
    /\ todo' = {}

NextDir ==
    /\ walker' = "open"
    /\ dir' = dir + 1
    /\ todo' = {}

WalkOpen ==
    /\ walker = "open"
    /\ dir <= Len(base)
    /\ base[dir] \in live
    /\ walker' = "visit"
    /\ todo' = Listing(dir)
    /\ UNCHANGED <<fs, live, base, dir, wpc, item, hashC, hashOpen, ctxDone>>

\* The callback returns the error it was given, which ends the walk of this
\* directory; the error is logged and the next directory is walked.
WalkFail ==
    /\ \/ walker = "open" /\ dir <= Len(base)
       \/ walker = "visit" /\ todo # {}
    /\ dir \in FlakyDir \/ base[dir] \notin live
    /\ NextDir
    /\ UNCHANGED <<fs, live, base, wpc, item, hashC, hashOpen, ctxDone>>

\* Fault: the send has no alternative.
NoCtxCase == FALSE
\* the select between handing over a name and the context
CtxCase == ctxDone

WalkCancelled ==
    /\ walker = "visit"
    /\ todo # {}
    /\ CtxCase
    /\ NextDir
    /\ UNCHANGED <<fs, live, base, wpc, item, hashC, hashOpen, ctxDone>>

WalkDirEnd ==
    /\ walker = "visit"
    /\ todo = {}
    /\ NextDir
    /\ UNCHANGED <<fs, live, base, wpc, item, hashC, hashOpen, ctxDone>>

\* The channel of names has no buffer: handing over is one step of both.
WalkSend(w, f) ==
    /\ walker = "visit"
    /\ f \in todo
    /\ wpc[w] = "recv"
    /\ todo' = todo \ {f}
    /\ item' = [item EXCEPT ![w] =
                  [pid |-> base[dir], file |-> f, hash |-> Absent]]
    /\ wpc' = [wpc EXCEPT ![w] = "check"]
    /\ UNCHANGED <<fs, live, base, walker, dir, hashC, hashOpen, ctxDone>>

WalkClose ==
    /\ walker = "open"
    /\ dir > Len(base)
    /\ walker' = "closed"
    /\ UNCHANGED <<fs, live, base, dir, todo, wpc, item, hashC, hashOpen,
                   ctxDone>>

WalkerNext ==
    \/ WalkOpen
    \/ WalkFail
    \/ WalkCancelled
    \/ WalkDirEnd
    \/ \E w \in Worker, f \in File : WalkSend(w, f)
    \/ WalkClose

-----------------------------------------------------------------------------
(* A worker: receive a name, look at the context, hash, send the digest.   *)

Move(w, pc) == wpc' = [wpc EXCEPT ![w] = pc]

WorkerCheck(w) ==
    /\ wpc[w] = "check"
    /\ Move(w, IF ctxDone THEN "done" ELSE "hash")
    /\ UNCHANGED <<fs, live, base, walker, dir, todo, item, hashC, hashOpen,
                   ctxDone>>

WorkerHash(w) ==
    /\ wpc[w] = "hash"
    /\ Readable(item[w])
    /\ item' = [item EXCEPT ![w].hash = fs[item[w].file]]
    /\ Move(w, "send")
    /\ UNCHANGED <<fs, live, base, walker, dir, todo, hashC, hashOpen, ctxDone>>

\* Fault: the `continue` is missing.
NoContinue(w) == Move(w, "send")
\* A file that cannot be read is logged and left out of the results.
AfterReadError(w) == Move(w, "recv")

WorkerSkip(w) ==
    /\ wpc[w] = "hash"
    /\ ~ Readable(item[w]) \/ item[w].file \in FlakyFile
    /\ AfterReadError(w)
    /\ UNCHANGED <<fs, live, base, walker, dir, todo, item, hashC, hashOpen,
                   ctxDone>>

\* The send has no alternative: it does not look at the context.
WorkerSend(w) ==
    /\ wpc[w] = "send"
    /\ Room
    /\ hashC' = Append(hashC, item[w])
    /\ Move(w, "recv")
    /\ UNCHANGED <<fs, live, base, walker, dir, todo, item, hashOpen, ctxDone>>

WorkerEnd(w) ==
    /\ wpc[w] = "recv"
    /\ walker = "closed"
    /\ Move(w, "done")
    /\ UNCHANGED <<fs, live, base, walker, dir, todo, item, hashC, hashOpen,
                   ctxDone>>

WorkerNext(w) ==
    \/ WorkerCheck(w)
    \/ WorkerHash(w)
    \/ WorkerSkip(w)
    \/ WorkerSend(w)
    \/ WorkerEnd(w)

\* Fault: every worker closes the channel when it ends.
OneDone == \E w \in Worker : wpc[w] = "done"
\* Fault: one worker too many is awaited.
OneMoreAwaited == FALSE
\* wg.Wait()
AllDone == \A w \in Worker : wpc[w] = "done"

\* then the deferred close(hashC)
CloseHashes ==
    /\ hashOpen
    /\ AllDone
    /\ walker # "off"
    /\ hashOpen' = FALSE
    /\ UNCHANGED <<fs, live, base, walker, dir, todo, wpc, item, hashC, ctxDone>>

PipelineNext ==
    \/ WalkerNext
    \/ \E w \in Worker : WorkerNext(w)
    \/ CloseHashes

-----------------------------------------------------------------------------
PipelineTypeOK ==
    /\ fs \in [File -> Value]
    /\ live \subseteq Pid
    /\ base \in Seq(Pid)
    /\ Len(base) <= Len(Roots)
    /\ walker \in {"off", "open", "visit", "closed"}
    /\ dir \in 1 .. Len(Roots) + 1
    /\ todo \subseteq File
    /\ wpc \in [Worker -> {"off", "recv", "check", "hash", "send", "done"}]
    /\ item \in [Worker -> FileHash \cup {NoItem}]
    /\ hashC \in Seq(FileHash)
    /\ Len(hashC) <= Cap
    /\ hashOpen \in BOOLEAN
    /\ ctxDone \in BOOLEAN
=============================================================================
