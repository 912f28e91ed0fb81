---------------------------- MODULE SnapshotTool ----------------------------
(***************************************************************************)
(* The command line tool that writes the snapshot of an image:             *)
(*                                                                         *)
(*   cmd/snapshot/main.go                      main                        *)
(*   internal/integritymonitor/snapshot.go     CalculateAndWriteHashes,    *)
(*                                             HashDir, writeAsPlainText   *)
(*                                                                         *)
(* It runs the pipeline of HashPipeline once for each directory, under a   *)
(* timeout of its own, and writes everything it collected at the end.      *)
(* The tree is an exported image: it does not change while the tool runs,  *)
(* and its pid stands for the root directory given to the tool.  The tool  *)
(* ends or is killed at any point, and is called again, over another image *)
(* and over the output file that was left: one of a killed call, of a      *)
(* successful one, or of a failed one that could not remove it.            *)
(*                                                                         *)
(* The file holds whole lines: one that a failing write or a kill cuts off *)
(* is not counted.                                                         *)
(*                                                                         *)
(* A walker that is still busy when the pool has ended shares nothing with *)
(* the next directory's pipeline and ends on its own; it is left out.      *)
(*                                                                         *)
(* A definition marked "Fault" is no part of the program: it is what the   *)
(* definition after it would be with a plausible mistake, and shows that a *)
(* property notices that mistake.                                          *)
(***************************************************************************)
EXTENDS HashPipeline

CONSTANTS
    MayTimeOut,   \* TRUE when a scan may exceed --scan-dir-timeout
    WriteErrors,  \* TRUE when the system calls on the output may fail
    Images,       \* the trees that the tool may be called over
    MaxCall       \* bound on the number of calls of the tool

ASSUME ToolAssumption ==
    /\ {MayTimeOut, WriteErrors} \subseteq BOOLEAN
    /\ Images \subseteq [File -> Value]
    /\ MaxCall \in Nat \ {0}

VARIABLES
    missing,   \* the directories, by position, that do not exist
    calls,     \* how often the tool was called so far
    tool,      \* where CalculateAndWriteHashes stands
    at,        \* the directory it is at
    hashes,    \* the records it has collected and not written
    out,       \* the records of the output file
    exists,    \* the output file exists
    created,   \* this call has created it
    failed,    \* an error is returned
    shot,      \* history: the tree that the call which created the file saw
    mishaps    \* history: what went wrong in that call without an error

disk == <<out, exists, shot, mishaps>>
result == <<created, failed>>
toolVars == <<tool, at, hashes, disk, result>>
tree == <<fs, live, missing, calls>>
vars == <<pipeVars, tree, ctxDone, toolVars>>

\* A call is killed, one of its scans is cut short, or the deferred function
\* ignores the error of file.Close or os.Remove.
Mishap == {"killed", "timeout", "close", "remove"}

\* the directories that need not exist in a tree
EmptyIn(t) == {d \in DOMAIN Roots : \A f \in Roots[d] : t[f] = Absent}

ToolInit ==
    /\ PipelineInit
    /\ ctxDone = FALSE
    /\ tool = "create"
    /\ at = 1
    /\ hashes = <<>>
    /\ created = FALSE
    /\ failed = FALSE
    /\ fs \in Images
    /\ live \in {{p} : p \in Pid}
    /\ missing \in SUBSET EmptyIn(fs)
    /\ calls = 1
    /\ out = <<>>
    /\ exists = FALSE
    /\ shot = fs
    /\ mishaps = {}

-----------------------------------------------------------------------------
\* Fault: the file is opened for appending.
KeepRecords == out
\* os.Create empties a file that exists
Truncated == <<>>

Create ==
    /\ tool = "create"
    /\ tool' = "stat"
    /\ out' = Truncated
    /\ exists' = TRUE
    /\ shot' = fs
    /\ mishaps' = {}
    /\ created' = TRUE
    /\ UNCHANGED <<pipeVars, tree, ctxDone, at, hashes, failed>>

\* it returns before the deferred function is there: what an earlier call left
\* stays
CreateFails ==
    /\ tool = "create"
    /\ WriteErrors
    /\ tool' = "end"
    /\ failed' = TRUE
    /\ UNCHANGED <<pipeVars, tree, ctxDone, at, hashes, disk, created>>

\* Fault: the file is kept whatever happened.
KeepFile(e) == FALSE
\* the deferred function removes the file when an error is returned
Removes(e) == e

\* It ignores the errors of its own calls: a file that could not be removed
\* stays, and one that could not be closed may lack its last records.
Return(e) ==
    \E ignored \in SUBSET {"close", "remove"}, n \in 0 .. Len(out) :
        /\ ignored # {} => WriteErrors
        /\ "remove" \in ignored => Removes(e)
        /\ "close" \notin ignored => n = Len(out)
        /\ tool' = "end"
        /\ failed' = e
        /\ exists' = (exists /\ (Removes(e) => "remove" \in ignored))
        /\ out' = SubSeq(out, 1, n)
        /\ mishaps' = mishaps \cup ignored
        /\ UNCHANGED <<created, shot>>

DirMissing ==
    /\ tool = "stat"
    /\ at \in missing
    /\ Return(TRUE)
    /\ UNCHANGED <<pipeVars, tree, ctxDone, at, hashes>>

\* Fault: the directories before it are walked again.
AllSoFar == 1
\* each pipeline walks a single directory
OnlyThis == at

\* HashDir: a new context, and new channels, goroutines and workers for the
\* directory
StartDir ==
    /\ tool = "stat"
    /\ at \in DOMAIN Roots \ missing
    /\ tool' = "range"
    /\ ctxDone' = FALSE
    /\ base' \in {[d \in 1 .. at |-> p] : p \in live}
    /\ walker' = "open"
    /\ dir' = OnlyThis
    /\ todo' = {}
    /\ wpc' = [w \in Worker |-> "recv"]
    /\ item' = [w \in Worker |-> NoItem]
    /\ hashC' = <<>>
    /\ hashOpen' = TRUE
    /\ UNCHANGED <<tree, at, hashes, disk, result>>

TimeOut ==
    /\ tool = "range"
    /\ MayTimeOut
    /\ ~ ctxDone
    /\ ctxDone' = TRUE
    /\ mishaps' = mishaps \cup {"timeout"}
    /\ UNCHANGED <<pipeVars, tree, tool, at, hashes, out, exists, shot, result>>

Collect ==
    /\ tool = "range"
    /\ hashC # <<>>
    /\ hashC' = Tail(hashC)
    /\ hashes' = Append(hashes, Head(hashC))
    /\ UNCHANGED <<base, walker, dir, todo, wpc, item, hashOpen, tree,
                   ctxDone, tool, at, disk, result>>

\* HashDir returns: how the scan ended is not looked at
DirEnd ==
    /\ tool = "range"
    /\ hashC = <<>>
    /\ ~ hashOpen
    /\ ctxDone' = TRUE
    /\ tool' = "stat"
    /\ at' = at + 1
    /\ UNCHANGED <<pipeVars, tree, hashes, disk, result>>

\* all directories are done
AllRead == at > Len(Roots)

StartWrite ==
    /\ tool = "stat"
    /\ AllRead
    /\ tool' = "write"
    /\ UNCHANGED <<pipeVars, tree, ctxDone, at, hashes, disk, result>>

WriteRecord ==
    /\ tool = "write"
    /\ hashes # <<>>
    /\ out' = Append(out, Head(hashes))
    /\ hashes' = Tail(hashes)
    /\ UNCHANGED <<pipeVars, tree, ctxDone, tool, at, exists, shot, mishaps,
                   result>>

WriteFails ==
    /\ tool = "write"
    /\ hashes # <<>>
    /\ WriteErrors
    /\ Return(TRUE)
    /\ UNCHANGED <<pipeVars, tree, ctxDone, at, hashes>>

WriteEnd ==
    /\ tool = "write"
    /\ hashes = <<>>
    /\ Return(FALSE)
    /\ UNCHANGED <<pipeVars, tree, ctxDone, at, hashes>>

\* a process takes nothing over from the one before it
Fresh ==
    /\ base' = <<>>
    /\ walker' = "off"
    /\ dir' = 1
    /\ todo' = {}
    /\ wpc' = [w \in Worker |-> "off"]
    /\ item' = [w \in Worker |-> NoItem]
    /\ hashC' = <<>>
    /\ hashOpen' = TRUE
    /\ ctxDone' = FALSE
    /\ at' = 1
    /\ hashes' = <<>>
    /\ created' = FALSE
    /\ failed' = FALSE

\* the process is killed: only the disk stays
Kill ==
    /\ tool \notin {"end", "dead"}
    /\ tool' = "dead"
    /\ mishaps' = mishaps \cup (IF created THEN {"killed"} ELSE {})
    /\ Fresh
    /\ UNCHANGED <<tree, out, exists, shot>>

\* the tool is called again, for the same --out, over an image that may have
\* been built anew
Rerun ==
    /\ tool \in {"end", "dead"}
    /\ calls < MaxCall
    /\ calls' = calls + 1
    /\ tool' = "create"
    /\ fs' \in Images
    /\ missing' \in SUBSET EmptyIn(fs')
    /\ Fresh
    /\ UNCHANGED <<live, disk>>

ToolKeeps == UNCHANGED <<missing, calls, toolVars>>

ToolNext ==
    \/ Create \/ CreateFails
    \/ DirMissing \/ StartDir \/ Collect \/ DirEnd
    \/ StartWrite \/ WriteRecord \/ WriteFails \/ WriteEnd

Next ==
    \/ PipelineNext /\ ToolKeeps
    \/ ToolNext
    \/ TimeOut
    \/ Kill
    \/ Rerun

Spec == ToolInit /\ [][Next]_vars

\* every goroutine that can run does; a timeout and a kill need not happen,
\* and nobody has to call the tool again
FairSpec ==
    /\ Spec
    /\ WF_vars(WalkerNext /\ ToolKeeps)
    /\ \A w \in Worker : WF_vars(WorkerNext(w) /\ ToolKeeps)
    /\ WF_vars(CloseHashes /\ ToolKeeps)
    /\ WF_vars(ToolNext)

-----------------------------------------------------------------------------
(* Properties.                                                             *)

\* Every variable keeps its type.
TypeOK ==
    /\ PipelineTypeOK
    /\ missing \subseteq DOMAIN Roots
    /\ calls \in 1 .. MaxCall
    /\ tool \in {"create", "stat", "range", "write", "end", "dead"}
    /\ at \in 1 .. Len(Roots) + 1
    /\ hashes \in Seq(FileHash)
    /\ out \in Seq(FileHash)
    /\ {exists, created, failed} \subseteq BOOLEAN
    /\ shot \in [File -> Value]
    /\ mishaps \subseteq Mishap

Named(s) == {s[i].file : i \in DOMAIN s}

\* the files that a complete scan of a tree finds
Scanned(t) == {f \in UNION {Roots[d] : d \in DOMAIN Roots} : t[f] # Absent}

\* Every line of the output names a file of the image that the call which
\* created the output was given, with the digest of that file, and no file has
\* two lines unless it is under two of the directories: each digest travels
\* from a worker to the file with the name it was computed for, however the
\* workers interleave, and nothing is taken over from what an earlier call,
\* killed or not, wrote of another image.
LinesTrue ==
    /\ \A i \in DOMAIN out :
          out[i].file \in Scanned(shot) /\ out[i].hash = shot[out[i].file]
    /\ \A i, j \in DOMAIN out :
          out[i].file = out[j].file /\ out[i].file \notin Repeated => i = j

\* An output file that is there when no call is writing it has a line for every
\* file of the image it was made of, unless the file could not be read or its
\* directory not be listed, or the call that made it was killed, was cut short
\* by --scan-dir-timeout, or failed to close or remove the file: nothing is lost
\* between the goroutines.  So the file of an earlier call that stays when a
\* later one cannot create its own is a complete snapshot, of the older image.
CompleteUnlessCutShort ==
    exists /\ mishaps = {} /\ tool \in {"create", "end", "dead"} =>
        /\ Scanned(shot) \ Unseen \subseteq Named(out)
        /\ Named(out) \subseteq Scanned(shot)

\* After a call that returns no error there is an output, and it was made of
\* the image that this call was given.  After one that returns an error there
\* is none, but for two: this call could not remove it, or could not create it,
\* and then what an earlier call left is still there.
FileOnlyOnSuccess ==
    tool = "end" => /\ ~ failed => exists /\ shot = fs
                    /\ failed /\ exists => ~ created \/ "remove" \in mishaps

\* Every call of the tool ends unless it is killed, also when a scan is cut
\* short with workers, the walker and the collector in any place.
ToolEnds == []<>(tool \in {"end", "dead"})
=============================================================================
