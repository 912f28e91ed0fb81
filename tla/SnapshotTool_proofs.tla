------------------------ MODULE SnapshotTool_proofs -------------------------
(***************************************************************************)
(* Theorems about SnapshotTool, for every tree of files, any directories   *)
(* and workers, any timeouts, any failures of the calls on the output, and *)
(* any number of calls and kills.                                          *)
(***************************************************************************)
EXTENDS SnapshotTool, HashPipeline_proofs, TLAPS

-----------------------------------------------------------------------------
(* The file that stays behind.                                             *)

\* The places at which the process holds the output open.
Open == {"stat", "range", "write"}

\* What FileOnlyOnSuccess says of the end follows from what holds before it:
\* between its creation and the return the file is there, was made of the image
\* of this call, and no error has been noted.
FileInv ==
    /\ exists \in BOOLEAN /\ created \in BOOLEAN /\ failed \in BOOLEAN
    /\ tool \in Open => created /\ exists /\ ~ failed
    /\ created => shot = fs
    /\ tool \in {"create", "dead"} => ~ created /\ ~ failed
    /\ tool = "end" /\ ~ failed => created /\ exists
    /\ tool = "end" /\ failed /\ exists => ~ created \/ "remove" \in mishaps

LEMMA FileInit == ToolInit => FileInv
<1> SUFFICES ASSUME ToolInit PROVE FileInv
  OBVIOUS
<1>1. /\ exists \in BOOLEAN /\ created \in BOOLEAN /\ failed \in BOOLEAN
      /\ ~ exists /\ ~ created /\ ~ failed
  BY Zenon DEF ToolInit
<1>2. tool = "create"
  BY DEF ToolInit
<1> QED
  BY <1>1, <1>2 DEF FileInv, Open

\* What is left of the output when CalculateAndWriteHashes returns.
LEMMA ReturnKeeps ==
    ASSUME NEW e \in BOOLEAN, Return(e)
    PROVE  /\ tool' = "end" /\ failed' = e /\ UNCHANGED <<created, shot>>
           /\ exists' \in BOOLEAN
           /\ ~ e /\ exists => exists'
           /\ e /\ exists' => "remove" \in mishaps'
           /\ \E n \in 0 .. Len(out) :
                 /\ out' = SubSeq(out, 1, n)
                 /\ "close" \notin mishaps' => n = Len(out)
           /\ \E ignored \in SUBSET {"close", "remove"} :
                 mishaps' = mishaps \cup ignored
<1> PICK ignored \in SUBSET {"close", "remove"}, n \in 0 .. Len(out) :
        /\ "close" \notin ignored => n = Len(out)
        /\ tool' = "end"
        /\ failed' = e
        /\ exists' = (exists /\ (Removes(e) => "remove" \in ignored))
        /\ out' = SubSeq(out, 1, n)
        /\ mishaps' = mishaps \cup ignored
        /\ UNCHANGED <<created, shot>>
  BY Zenon DEF Return
<1>1. exists' \in BOOLEAN
  BY Zenon
<1>2. ~ e /\ exists => exists'
  BY Zenon DEF Removes
<1>3. e /\ exists' => "remove" \in ignored
  BY Zenon DEF Removes
<1>4. "remove" \in ignored => "remove" \in mishaps'
  OBVIOUS
<1>5. "close" \notin mishaps' => n = Len(out)
  OBVIOUS
<1> QED
  BY <1>1, <1>2, <1>3, <1>4, <1>5

LEMMA FileStep == FileInv /\ [Next]_vars => FileInv'
<1> SUFFICES ASSUME FileInv, [Next]_vars PROVE FileInv'
  OBVIOUS
<1> USE DEF FileInv, Open
<1>1. CASE UNCHANGED <<fs, toolVars>>
  BY <1>1 DEF toolVars, disk, result
<1>2. CASE Create
  <2>1. /\ exists' \in BOOLEAN /\ created' \in BOOLEAN
        /\ exists' /\ created'
    BY <1>2, Zenon DEF Create
  <2>2. /\ tool' = "stat" /\ failed' = failed /\ tool = "create"
        /\ shot' = fs /\ fs' = fs
    BY <1>2 DEF Create, tree
  <2> QED
    BY <2>1, <2>2
<1>3. CASE CreateFails
  BY <1>3 DEF CreateFails, tree, disk
<1>4. CASE DirMissing \/ WriteFails
  <2>1. /\ tool \in Open /\ fs' = fs /\ Return(TRUE)
    BY <1>4 DEF DirMissing, WriteFails, tree
  <2> QED
    BY <2>1, ReturnKeeps
<1>5. CASE WriteEnd
  <2>1. /\ tool \in Open /\ fs' = fs /\ Return(FALSE)
    BY <1>5 DEF WriteEnd, tree
  <2> QED
    BY <2>1, ReturnKeeps
<1>6. CASE StartDir \/ Collect \/ DirEnd \/ StartWrite
  BY <1>6 DEF StartDir, Collect, DirEnd, StartWrite, tree, disk, result
<1>7. CASE WriteRecord
  BY <1>7 DEF WriteRecord, tree, result
<1>8. CASE TimeOut
  BY <1>8 DEF TimeOut, tree, result
<1>9. CASE Kill \/ Rerun
  <2>1. /\ created' \in BOOLEAN /\ failed' \in BOOLEAN
        /\ ~ created' /\ ~ failed'
    BY <1>9, Zenon DEF Kill, Rerun, Fresh
  <2>2. tool' \in {"create", "dead"} /\ exists' = exists
    BY <1>9 DEF Kill, Rerun, disk
  <2> QED
    BY <2>1, <2>2
<1>10. CASE PipelineNext /\ ToolKeeps
  BY <1>1, <1>10, PipelineFrame DEF ToolKeeps
<1>11. CASE UNCHANGED vars
  BY <1>1, <1>11 DEF vars, tree
<1> QED
  BY <1>2, <1>3, <1>4, <1>5, <1>6, <1>7, <1>8, <1>9, <1>10, <1>11
     DEF Next, ToolNext

LEMMA FileInvariant == Spec => []FileInv
BY FileInit, FileStep, PTL DEF Spec

\* A call without an error leaves an output made of the image it was given.  One
\* with an error leaves one only if removing it failed, or if the file is an
\* earlier call's that it could not create anew: the deferred function of
\* CalculateAndWriteHashes sees the error of every return, and ignores its own.
THEOREM FileIsThisCalls == Spec => []FileOnlyOnSuccess
<1>1. FileInv => FileOnlyOnSuccess
  BY DEF FileInv, FileOnlyOnSuccess
<1> QED
  BY <1>1, FileInvariant, PTL

-----------------------------------------------------------------------------
(* Type correctness.                                                       *)

FlagsOK ==
    /\ exists \in BOOLEAN /\ created \in BOOLEAN /\ failed \in BOOLEAN

DiskOK ==
    /\ out \in Seq(FileHash)
    /\ shot \in [File -> Value]
    /\ mishaps \subseteq Mishap

\* Where the tool stands and what its pipeline does then: a pipeline runs only
\* under "range", on the directory that the tool is at.
Placed ==
    /\ missing \subseteq DOMAIN Roots
    /\ tool \in {"create", "stat", "range", "write", "end", "dead"}
    /\ at \in 1 .. Len(Roots) + 1
    /\ hashes \in Seq(FileHash)
    /\ calls \in 1 .. MaxCall
    /\ tool = "range" => at <= Len(Roots) /\ Len(base) = at
    /\ tool # "range" => Idle
    /\ tool \in {"create", "dead", "stat"} => Len(base) < at
    /\ tool \in {"create", "dead"} =>
          at = 1 /\ dir = 1 /\ walker = "off" /\ hashes = <<>>
    /\ tool \in {"stat", "range"} => out = <<>>

Sound == PipelineTypeOK /\ Shape /\ InStep

TypeInv == FlagsOK /\ DiskOK /\ Placed /\ Sound

LEMMA TypeInit == ToolInit => TypeInv
<1> SUFFICES ASSUME ToolInit PROVE TypeInv
  OBVIOUS
<1>1. FlagsOK
  BY Zenon DEF ToolInit, FlagsOK
<1>2. PipelineTypeOK
  <2>1. /\ fs \in [File -> Value]
        /\ live \subseteq Pid
        /\ base \in Seq(Pid) /\ Len(base) <= Len(Roots)
        /\ dir \in 1 .. Len(Roots) + 1
        /\ walker \in {"off", "open", "visit", "closed"}
        /\ todo \subseteq File
    BY PipelineAssumption, ToolAssumption DEF ToolInit, PipelineInit
  <2>2. /\ hashC \in Seq(FileHash)
        /\ Len(hashC) <= Cap
    BY CapNat DEF ToolInit, PipelineInit
  <2>3. /\ wpc \in [Worker -> {"off", "recv", "check", "hash", "send", "done"}]
        /\ item \in [Worker -> FileHash \cup {NoItem}]
    BY DEF ToolInit, PipelineInit
  <2>4. hashOpen \in BOOLEAN /\ ctxDone \in BOOLEAN
    BY Zenon DEF ToolInit, PipelineInit
  <2> QED
    BY <2>1, <2>2, <2>3, <2>4 DEF PipelineTypeOK
<1>3. Shape /\ InStep
  BY DEF ToolInit, PipelineInit, Shape, InStep
<1>4. Placed
  BY PipelineAssumption, ToolAssumption DEF ToolInit, PipelineInit, Placed, Idle,
     EmptyIn
<1>5. DiskOK
  BY ToolAssumption DEF ToolInit, DiskOK
<1> QED
  BY <1>1, <1>2, <1>3, <1>4, <1>5 DEF TypeInv, Sound

LEMMA FlagsStep ==
    ASSUME FlagsOK, [Next]_vars
    PROVE  FlagsOK'
<1> USE DEF FlagsOK, disk, result
<1>1. CASE Create
  BY <1>1, Zenon DEF Create
<1>2. CASE CreateFails
  BY <1>2, Zenon DEF CreateFails
<1>3. CASE DirMissing \/ WriteFails
  <2>1. Return(TRUE)
    BY <1>3 DEF DirMissing, WriteFails
  <2> QED
    BY <2>1, ReturnKeeps
<1>4. CASE WriteEnd
  <2>1. Return(FALSE)
    BY <1>4 DEF WriteEnd
  <2> QED
    BY <2>1, ReturnKeeps
<1>5. CASE StartDir \/ Collect \/ DirEnd \/ StartWrite \/ WriteRecord \/ TimeOut
           \/ UNCHANGED <<missing, calls, toolVars>> \/ UNCHANGED vars
  <2>1. UNCHANGED <<exists, created, failed>>
    BY <1>5 DEF StartDir, Collect, DirEnd, StartWrite, WriteRecord, TimeOut,
       toolVars, vars
  <2> QED
    BY <2>1, Zenon
<1>6. CASE Kill \/ Rerun
  <2>1. exists' = exists /\ Fresh
    BY <1>6 DEF Kill, Rerun
  <2> QED
    BY <2>1, Zenon DEF Fresh
<1> QED
  BY <1>1, <1>2, <1>3, <1>4, <1>5, <1>6 DEF Next, ToolNext, ToolKeeps

\* The beginning of a list of records.
LEMMA Prefix ==
    ASSUME NEW s \in Seq(FileHash), NEW n \in 0 .. Len(s)
    PROVE  /\ SubSeq(s, 1, n) \in Seq(FileHash)
           /\ DOMAIN SubSeq(s, 1, n) \subseteq DOMAIN s
           /\ \A i \in DOMAIN SubSeq(s, 1, n) : SubSeq(s, 1, n)[i] = s[i]
           /\ n = Len(s) => SubSeq(s, 1, n) = s
OBVIOUS

LEMMA DiskStep ==
    ASSUME TypeInv, [Next]_vars
    PROVE  DiskOK'
<1> USE DEF DiskOK, disk, Mishap
<1>1. CASE Create
  BY <1>1 DEF Create, Truncated, TypeInv, Sound, PipelineTypeOK
<1>2. CASE \/ CreateFails \/ StartDir \/ Collect \/ DirEnd \/ StartWrite
           \/ UNCHANGED <<missing, calls, toolVars>> \/ UNCHANGED vars
  BY <1>2 DEF TypeInv, CreateFails, StartDir, Collect, DirEnd, StartWrite, toolVars,
     vars
<1>3. ASSUME NEW e \in BOOLEAN, Return(e)
      PROVE  DiskOK'
  <2>1. PICK n \in 0 .. Len(out) : out' = SubSeq(out, 1, n)
    BY <1>3, ReturnKeeps
  <2>2. out' \in Seq(FileHash)
    BY <2>1, Prefix DEF TypeInv
  <2>3. shot' = shot /\ mishaps' \subseteq Mishap
    BY <1>3, ReturnKeeps DEF TypeInv
  <2> QED
    BY <2>2, <2>3 DEF TypeInv
<1>4. CASE DirMissing \/ WriteFails \/ WriteEnd
  BY <1>3, <1>4 DEF DirMissing, WriteFails, WriteEnd
<1>5. CASE WriteRecord
  <2>1. out' \in Seq(FileHash)
    BY <1>5 DEF WriteRecord, TypeInv, Placed
  <2> QED
    BY <1>5, <2>1 DEF WriteRecord, TypeInv
<1>6. CASE TimeOut
  BY <1>6 DEF TimeOut, TypeInv
<1>7. CASE Kill \/ Rerun
  BY <1>7 DEF Kill, Rerun, TypeInv
<1> QED
  BY <1>1, <1>2, <1>4, <1>5, <1>6, <1>7 DEF Next, ToolNext, ToolKeeps

\* The actions of the tool that leave the pipeline alone, and its context but
\* at the end of a directory.
Aside ==
    \/ Create \/ CreateFails \/ DirMissing \/ StartWrite
    \/ WriteRecord \/ WriteFails \/ WriteEnd

LEMMA AsideFrame ==
    ASSUME Aside \/ DirEnd \/ TimeOut
    PROVE  UNCHANGED <<fs, live, missing, calls, pipeVars>>
BY DEF Aside, Create, CreateFails, DirMissing, StartWrite, WriteRecord,
       WriteFails, WriteEnd, DirEnd, TimeOut, tree

LEMMA NextIs ==
    ASSUME [Next]_vars
    PROVE  \/ PipelineNext /\ ToolKeeps
           \/ Aside \/ DirEnd \/ TimeOut \/ StartDir \/ Collect \/ Kill \/ Rerun
           \/ UNCHANGED vars
BY DEF Next, ToolNext, Aside

\* The pipeline of a directory starts afresh.
LEMMA SoundStart ==
    ASSUME TypeInv, StartDir
    PROVE  /\ Sound'
           /\ Len(base') = at /\ at <= Len(Roots)
           /\ \A d \in 1 .. at : base'[d] \in live
<1> USE PipelineAssumption DEF TypeInv, Placed, Sound
<1>1. at \in 1 .. Len(Roots)
  BY DEF StartDir
<1>2. PICK p \in Pid : p \in live /\ base' = [d \in 1 .. at |-> p]
  BY DEF StartDir, PipelineTypeOK
<1>3. base' \in Seq(Pid) /\ Len(base') = at /\ \A d \in 1 .. at : base'[d] = p
  BY <1>1, <1>2
<1>4. PipelineTypeOK'
  <2>1. /\ fs' = fs /\ live' = live
        /\ walker' = "open" /\ dir' = at /\ todo' = {}
        /\ wpc' = [w \in Worker |-> "recv"]
        /\ item' = [w \in Worker |-> NoItem]
        /\ hashC' = <<>>
    BY DEF StartDir, OnlyThis, tree
  <2>2. hashOpen' \in BOOLEAN /\ ctxDone' \in BOOLEAN
    BY Zenon DEF StartDir
  <2>3. Len(<<>>) <= Cap /\ <<>> \in Seq(FileHash)
    BY CapNat
  <2>4. /\ fs \in [File -> Value] /\ live \subseteq Pid
    BY DEF PipelineTypeOK
  <2>5. base' \in Seq(Pid) /\ Len(base') <= Len(Roots) /\ at \in 1 .. Len(Roots) + 1
    BY <1>1, <1>3
  <2> QED
    BY <2>1, <2>2, <2>3, <2>4, <2>5 DEF PipelineTypeOK
<1>5. Shape' /\ InStep'
  BY <1>1, <1>3 DEF StartDir, OnlyThis, Shape, InStep
<1> QED
  BY <1>1, <1>2, <1>3, <1>4, <1>5

LEMMA SoundStep ==
    ASSUME TypeInv, [Next]_vars
    PROVE  Sound'
<1> USE DEF TypeInv, Sound, pipeVars
<1>1. CASE PipelineNext /\ ToolKeeps
  BY <1>1, PipelineTypeStep, InStepPipeline
<1>2. CASE Aside \/ UNCHANGED vars
  <2>1. UNCHANGED <<fs, live, pipeVars, ctxDone>>
    BY <1>2, AsideFrame DEF Aside, Create, CreateFails, DirMissing, StartWrite,
       WriteRecord, WriteFails, WriteEnd, vars, tree
  <2> QED
    BY <2>1 DEF PipelineTypeOK, Shape, InStep, AllDone
<1>3. CASE DirEnd \/ TimeOut
  <2>1. UNCHANGED <<fs, live, pipeVars>> /\ ctxDone' = TRUE
    BY <1>3, AsideFrame DEF DirEnd, TimeOut
  <2>2. ctxDone' \in BOOLEAN
    BY <2>1, Zenon
  <2>3. PipelineTypeOK'
    BY <2>1, <2>2 DEF PipelineTypeOK
  <2> QED
    BY <2>1, <2>3 DEF Shape, InStep, AllDone
<1>4. CASE StartDir
  BY <1>4, SoundStart
<1>5. CASE Collect
  <2>1. UNCHANGED <<fs, live, base, walker, dir, todo, wpc, item, hashOpen, ctxDone>>
    BY <1>5 DEF Collect, tree
  <2>2. hashC' \in Seq(FileHash) /\ Len(hashC') <= Cap
    BY <1>5, CapNat DEF Collect, PipelineTypeOK
  <2>3. PipelineTypeOK'
    BY <2>1, <2>2 DEF PipelineTypeOK
  <2> QED
    BY <2>1, <2>3 DEF Shape, InStep, AllDone
<1>6. CASE Kill \/ Rerun
  <2>1. /\ fs' \in [File -> Value] /\ live' \subseteq Pid
    BY <1>6, ToolAssumption DEF Kill, Rerun, tree, PipelineTypeOK
  <2>2. /\ base' = <<>> /\ walker' = "off" /\ dir' = 1 /\ todo' = {}
        /\ wpc' = [w \in Worker |-> "off"]
        /\ item' = [w \in Worker |-> NoItem]
        /\ hashC' = <<>>
    BY <1>6 DEF Kill, Rerun, Fresh
  <2>3. hashOpen' \in BOOLEAN /\ ctxDone' \in BOOLEAN /\ hashOpen'
    BY <1>6, Zenon DEF Kill, Rerun, Fresh
  <2>4. /\ Len(<<>>) <= Cap /\ <<>> \in Seq(FileHash)
        /\ <<>> \in Seq(Pid) /\ Len(<<>>) <= Len(Roots)
        /\ 1 \in 1 .. Len(Roots) + 1 /\ 1 <= Len(<<>>) + 1
    BY CapNat, PipelineAssumption
  <2>5. PipelineTypeOK'
    BY <2>1, <2>2, <2>3, <2>4 DEF PipelineTypeOK
  <2>6. Shape'
    BY <2>2, <2>4 DEF Shape
  <2>7. InStep'
    BY <2>2, <2>3 DEF InStep
  <2> QED
    BY <2>5, <2>6, <2>7
<1> QED
  BY <1>1, <1>2, <1>3, <1>4, <1>5, <1>6, NextIs

LEMMA PlacedStep ==
    ASSUME TypeInv, [Next]_vars
    PROVE  Placed'
<1>1. Placed /\ Sound
  BY DEF TypeInv
<1> USE PipelineAssumption, ToolAssumption
        DEF Placed, disk, result, tree, toolVars
<1>2. CASE PipelineNext /\ ToolKeeps
  <2>1. tool # "range" => Idle'
    BY <1>1, <1>2, IdlePipeline
  <2>2. walker = "off" /\ Idle => UNCHANGED <<dir, walker>>
    BY <1>2 DEF Idle, PipelineNext, WalkerNext, WalkOpen, WalkFail,
       WalkCancelled, WalkDirEnd, WalkSend, WalkClose, WorkerNext, WorkerCheck,
       WorkerHash, WorkerSkip, WorkerSend, WorkerEnd, CloseHashes
  <2>3. base' = base
    BY <1>2, PipelineFrame
  <2>4. UNCHANGED <<missing, calls, toolVars>>
    BY <1>2 DEF ToolKeeps
  <2> QED
    BY <1>1, <2>1, <2>2, <2>3, <2>4
<1>3. CASE Create \/ CreateFails \/ UNCHANGED vars
  BY <1>1, <1>3 DEF Create, CreateFails, Truncated, vars, pipeVars, Idle
<1>4. CASE DirMissing \/ WriteFails \/ WriteEnd
  <2>1. tool' = "end"
    BY <1>4, ReturnKeeps DEF DirMissing, WriteFails, WriteEnd
  <2>2. tool # "range" /\ UNCHANGED <<pipeVars, tree, at, hashes>>
    BY <1>4 DEF DirMissing, WriteFails, WriteEnd
  <2> QED
    BY <1>1, <2>1, <2>2 DEF pipeVars, Idle
<1>5. CASE StartDir
  <2>1. Len(base') = at /\ at <= Len(Roots)
    BY <1>5, SoundStart
  <2> QED
    BY <1>1, <1>5, <2>1 DEF StartDir
<1>6. CASE TimeOut
  BY <1>1, <1>6 DEF TimeOut, pipeVars
<1>7. CASE Collect
  <2>1. Head(hashC) \in FileHash
    BY <1>1, <1>7 DEF Collect, Sound, PipelineTypeOK
  <2>2. hashes' \in Seq(FileHash)
    BY <1>1, <1>7, <2>1 DEF Collect
  <2> QED
    BY <1>1, <1>7, <2>2 DEF Collect
<1>8. CASE DirEnd
  <2>1. Idle'
    BY <1>1, <1>8 DEF DirEnd, Sound, InStep, AllDone, Idle, pipeVars
  <2> QED
    BY <1>1, <1>8, <2>1 DEF DirEnd, pipeVars
<1>9. CASE StartWrite
  BY <1>1, <1>9 DEF StartWrite, pipeVars, Idle
<1>10. CASE WriteRecord
  <2>1. hashes' \in Seq(FileHash)
    BY <1>1, <1>10 DEF WriteRecord
  <2> QED
    BY <1>1, <1>10, <2>1 DEF WriteRecord, pipeVars, Idle
<1>11. CASE Kill \/ Rerun
  <2>1. /\ missing' \subseteq DOMAIN Roots /\ calls' \in 1 .. MaxCall
        /\ tool' \in {"create", "dead"}
    <3>1. CASE Kill
      BY <1>1, <3>1 DEF Kill
    <3>2. CASE Rerun
      <4>1. missing' \in SUBSET EmptyIn(fs') /\ tool' = "create"
        BY <3>2 DEF Rerun
      <4>2. missing' \subseteq DOMAIN Roots
        BY <4>1, Zenon DEF EmptyIn
      <4>3. calls < MaxCall /\ calls' = calls + 1
        BY <3>2 DEF Rerun
      <4>4. calls' \in 1 .. MaxCall
        BY <1>1, <4>3
      <4> QED
        BY <4>1, <4>2, <4>4
    <3> QED
      BY <1>11, <3>1, <3>2
  <2>2. /\ base' = <<>> /\ at' = 1 /\ dir' = 1 /\ walker' = "off"
        /\ hashes' = <<>> /\ hashC' = <<>>
        /\ wpc' = [w \in Worker |-> "off"]
    BY <1>11 DEF Kill, Rerun, Fresh
  <2>3. Idle'
    BY <2>2 DEF Idle
  <2>4. /\ Len(<<>>) < 1 /\ <<>> \in Seq(FileHash) /\ 1 \in 1 .. Len(Roots) + 1
    OBVIOUS
  <2> QED
    BY <2>1, <2>2, <2>3, <2>4
<1> QED
  BY <1>2, <1>3, <1>4, <1>5, <1>6, <1>7, <1>8, <1>9, <1>10, <1>11, NextIs
     DEF Aside

LEMMA TypeInvariant == Spec => []TypeInv
<1>1. TypeInv /\ [Next]_vars => TypeInv'
  BY FlagsStep, DiskStep, SoundStep, PlacedStep DEF TypeInv
<1> QED
  BY TypeInit, <1>1, PTL DEF Spec

\* Every variable keeps its type: the tool is never behind its last directory,
\* and the channel of a directory's digests never holds more than was allocated.
THEOREM TypeCorrect == Spec => []TypeOK
<1>1. ASSUME TypeInv
      PROVE  TypeOK
  <2>1. {exists, created, failed} \subseteq BOOLEAN
    BY <1>1, Zenon DEF TypeInv, FlagsOK
  <2> QED
    BY <1>1, <2>1 DEF TypeInv, DiskOK, Placed, Sound, TypeOK
<1> QED
  BY TypeInvariant, <1>1, PTL

-----------------------------------------------------------------------------
(* Lists of records.                                                       *)

\* A record names a file of the tree t, with the digest of that file.
Line(h, t) == h.file \in Scanned(t) /\ h.hash = t[h.file]
Lines(s, t) == \A i \in DOMAIN s : Line(s[i], t)

\* no file has two records, unless it is under two directories
Distinct(s) ==
    \A i, j \in DOMAIN s :
        s[i].file = s[j].file /\ s[i].file \notin Repeated => i = j

LEMMA Appended ==
    ASSUME NEW s \in Seq(FileHash), NEW h \in FileHash
    PROVE  /\ Named(Append(s, h)) = Named(s) \cup {h.file}
           /\ \A tr : Lines(s, tr) /\ Line(h, tr) => Lines(Append(s, h), tr)
           /\ Distinct(s) /\ (h.file \notin Repeated => h.file \notin Named(s))
                  => Distinct(Append(s, h))
<1> PICK n \in Nat : n = Len(s)
  OBVIOUS
<1> DEFINE t == Append(s, h)
<1>1. /\ DOMAIN s = 1 .. n
      /\ DOMAIN t = 1 .. n \cup {n + 1}
      /\ t[n + 1] = h
      /\ \A i \in 1 .. n : t[i] = s[i] /\ i # n + 1
  OBVIOUS
<1> HIDE DEF t
<1>2. Named(t) = Named(s) \cup {h.file}
  BY <1>1 DEF Named
<1>3. \A tr : Lines(s, tr) /\ Line(h, tr) => Lines(t, tr)
  BY <1>1 DEF Lines
<1>4. Distinct(s) /\ (h.file \notin Repeated => h.file \notin Named(s))
          => Distinct(t)
  BY <1>1 DEF Distinct, Named
<1> QED
  BY <1>2, <1>3, <1>4 DEF t

LEMMA Shift ==
    ASSUME NEW n \in Nat
    PROVE  /\ \A i \in 1 .. n - 1 : i + 1 \in 1 .. n /\ i + 1 # 1
           /\ \A i, j \in 1 .. n - 1 : i + 1 = j + 1 => i = j
           /\ \A i \in 1 .. n : i # 1 => i - 1 \in 1 .. n - 1 /\ (i - 1) + 1 = i
OBVIOUS

LEMMA Shortened ==
    ASSUME NEW s \in Seq(FileHash), s # <<>>
    PROVE  /\ Head(s) \in FileHash /\ Tail(s) \in Seq(FileHash)
           /\ Named(s) = Named(Tail(s)) \cup {Head(s).file}
           /\ \A tr : Lines(s, tr) => Line(Head(s), tr) /\ Lines(Tail(s), tr)
           /\ Distinct(s) =>
                 /\ Head(s).file \notin Repeated =>
                        Head(s).file \notin Named(Tail(s))
                 /\ Distinct(Tail(s))
<1> PICK n \in Nat : n = Len(s)
  OBVIOUS
<1> DEFINE t == Tail(s)
<1>1. Head(s) \in FileHash /\ t \in Seq(FileHash)
  OBVIOUS
<1>2. /\ n >= 1
      /\ DOMAIN s = 1 .. n
      /\ DOMAIN t = 1 .. n - 1
      /\ Head(s) = s[1] /\ 1 \in 1 .. n
      /\ \A i \in 1 .. n - 1 : t[i] = s[i + 1]
  OBVIOUS
<1>3. /\ \A i \in 1 .. n - 1 : i + 1 \in 1 .. n /\ i + 1 # 1
      /\ \A i, j \in 1 .. n - 1 : i + 1 = j + 1 => i = j
      /\ \A i \in 1 .. n : i = 1 \/ (i - 1 \in 1 .. n - 1 /\ t[i - 1] = s[i])
  BY <1>2, Shift
<1> HIDE DEF t
<1>4. /\ 1 \in DOMAIN s
      /\ \A i \in DOMAIN s : i = 1 \/ \E j \in DOMAIN t : t[j] = s[i]
      /\ \A i \in DOMAIN t : i + 1 \in DOMAIN s /\ i + 1 # 1 /\ t[i] = s[i + 1]
      /\ \A i, j \in DOMAIN t : i + 1 = j + 1 => i = j
  BY <1>2, <1>3
<1>5. Head(s) = s[1]
  BY <1>2
<1>6. Named(s) = Named(t) \cup {Head(s).file}
  <2>1. ASSUME NEW f \in Named(s)
        PROVE  f \in Named(t) \cup {Head(s).file}
    <3>1. PICK i \in DOMAIN s : f = s[i].file
      BY Zenon DEF Named
    <3>2. CASE i = 1
      BY <1>5, <3>1, <3>2
    <3>3. ASSUME NEW j \in DOMAIN t, t[j] = s[i]
          PROVE  f \in Named(t)
      BY <3>1, <3>3, Zenon DEF Named
    <3> QED
      BY <1>4, <3>2, <3>3
  <2>2. ASSUME NEW f \in Named(t)
        PROVE  f \in Named(s)
    <3>1. PICK i \in DOMAIN t : f = t[i].file
      BY Zenon DEF Named
    <3>2. PICK j \in DOMAIN s : f = s[j].file
      BY <1>4, <3>1, Zenon
    <3> QED
      BY <3>2, Zenon DEF Named
  <2>3. Head(s).file \in Named(s)
    BY <1>4, <1>5, Zenon DEF Named
  <2> QED
    BY <2>1, <2>2, <2>3
<1>7. \A tr : Lines(s, tr) => Line(Head(s), tr) /\ Lines(t, tr)
  BY <1>4, <1>5, Zenon DEF Lines
<1>8. Distinct(s) /\ Head(s).file \notin Repeated => Head(s).file \notin Named(t)
  <2> SUFFICES ASSUME Distinct(s), Head(s).file \notin Repeated,
                      NEW i \in DOMAIN t, t[i].file = Head(s).file
               PROVE  FALSE
    BY Zenon DEF Named
  <2> QED
    BY <1>4, <1>5, Zenon DEF Distinct
<1>9. Distinct(s) => Distinct(t)
  <2> SUFFICES ASSUME Distinct(s), NEW i \in DOMAIN t, NEW j \in DOMAIN t,
                      t[i].file = t[j].file, t[i].file \notin Repeated
               PROVE  i = j
    BY DEF Distinct
  <2>1. /\ i + 1 \in DOMAIN s /\ j + 1 \in DOMAIN s
        /\ s[i + 1].file = s[j + 1].file /\ s[i + 1].file \notin Repeated
    BY <1>4
  <2>2. i + 1 = j + 1
    BY <2>1, Zenon DEF Distinct
  <2> QED
    BY <1>4, <2>2, Zenon
<1> QED
  BY <1>1, <1>6, <1>7, <1>8, <1>9 DEF t

\* What Return may leave of the output.
LEMMA Kept ==
    ASSUME NEW s \in Seq(FileHash), NEW n \in 0 .. Len(s)
    PROVE  /\ Named(SubSeq(s, 1, n)) \subseteq Named(s)
           /\ \A tr : Lines(s, tr) => Lines(SubSeq(s, 1, n), tr)
           /\ Distinct(s) => Distinct(SubSeq(s, 1, n))
<1> PICK t : t = SubSeq(s, 1, n)
  OBVIOUS
<1>1. DOMAIN t \subseteq DOMAIN s /\ \A i \in DOMAIN t : t[i] = s[i]
  BY Prefix
<1>2. Named(t) \subseteq Named(s)
  BY <1>1 DEF Named
<1>3. \A tr : Lines(s, tr) => Lines(t, tr)
  BY <1>1 DEF Lines
<1>4. Distinct(s) => Distinct(t)
  BY <1>1 DEF Distinct
<1> QED
  BY <1>2, <1>3, <1>4

-----------------------------------------------------------------------------
(* The lines are true.                                                     *)

\* what each file of the image holds
Image == [f \in File |-> {fs[f]}]

\* Every digest that is on its way is that of its file, and so is every record
\* that was collected; every record that was written, by this call or an earlier
\* one, is that of its file in the image that call was given.
True ==
    /\ DigestsIn(Image)
    /\ InTree
    /\ Lines(hashes, fs)
    /\ Lines(out, shot)

LEMMA TrueInit == ToolInit => True
BY DEF ToolInit, PipelineInit, True, DigestsIn, InTree, Busy, Lines

\* The image changes between two calls only.
LEMMA ImageKept ==
    ASSUME [Next]_vars, ~ Rerun
    PROVE  UNCHANGED <<fs, live>>
BY PipelineFrame DEF Next, ToolNext, Create, CreateFails, DirMissing, StartDir,
   Collect, DirEnd, StartWrite, WriteRecord, WriteFails, WriteEnd, TimeOut, Kill,
   tree, vars

LEMMA TrueStep ==
    ASSUME FileInv, TypeInv, True, [Next]_vars
    PROVE  True'
<1>1. fs' = fs => Image' = Image
  BY DEF Image
<1>2. /\ hashes \in Seq(FileHash) /\ out \in Seq(FileHash)
      /\ PipelineTypeOK /\ Shape /\ InStep
  BY DEF TypeInv, DiskOK, Placed, Sound
<1>3. \A tr : Lines(<<>>, tr)
  BY DEF Lines
<1>4. ASSUME Lines(hashes', fs'), Lines(out', shot')
      PROVE  Lines(hashes, fs)' /\ Lines(out, shot)'
  BY <1>4 DEF Lines, Line, Scanned
<1>5. CASE PipelineNext /\ ToolKeeps
  <2>1. UNCHANGED <<hashes, out, shot, fs, live>>
    BY <1>5, PipelineFrame DEF ToolKeeps, toolVars, disk
  <2>2. PICK Had : Had = Image
    OBVIOUS
  <2>3. \A f \in File : fs[f] \in Had[f]
    BY <2>2 DEF Image
  <2>4. DigestsIn(Had) /\ InTree
    BY <2>2 DEF True
  <2>5. DigestsIn(Had)' /\ InTree'
    BY <1>2, <1>5, <2>3, <2>4, DigestsPipeline, InTreePipeline
  <2>6. Had = Image'
    BY <2>1, <2>2 DEF Image
  <2>7. DigestsIn(Image)'
    BY <2>5, <2>6 DEF DigestsIn
  <2> QED
    BY <1>4, <2>1, <2>5, <2>7 DEF True
<1>6. CASE CreateFails \/ StartWrite \/ DirEnd \/ TimeOut \/ UNCHANGED vars
  <2>1. UNCHANGED <<fs, live, hashes, out, shot, wpc, item, hashC>>
    BY <1>6 DEF CreateFails, StartWrite, DirEnd, TimeOut, disk, vars, toolVars,
       pipeVars, tree
  <2> QED
    BY <1>4, <2>1 DEF True, DigestsIn, InTree, Busy, Image
<1>7. CASE Create
  <2>1. out' = <<>> /\ UNCHANGED <<fs, live, hashes, wpc, item, hashC>>
    BY <1>7 DEF Create, Truncated, pipeVars, tree
  <2>2. Lines(hashes', fs') /\ Lines(out', shot')
    BY <1>3, <2>1 DEF True
  <2> QED
    BY <1>4, <2>1, <2>2 DEF True, DigestsIn, InTree, Busy, Image
<1>8. CASE StartDir
  <2>1. /\ UNCHANGED <<fs, hashes, out, shot>>
        /\ hashC' = <<>> /\ \A w \in Worker : wpc'[w] = "recv"
    BY <1>8 DEF StartDir, disk, tree
  <2>2. DigestsIn(Image)' /\ InTree'
    BY <2>1 DEF DigestsIn, InTree, Busy
  <2> QED
    BY <1>4, <2>1, <2>2 DEF True
<1>9. CASE Collect
  <2> PICK h \in FileHash : h = Head(hashC)
    BY <1>2, <1>9, Received DEF Collect, PipelineTypeOK
  <2>1. /\ hashes' = Append(hashes, h) /\ UNCHANGED <<fs, live, out, shot, wpc, item>>
        /\ h = hashC[1] /\ 1 \in 1 .. Len(hashC)
        /\ \A i \in (1 .. Len(hashC))' :
              i + 1 \in 1 .. Len(hashC) /\ hashC'[i] = hashC[i + 1]
    BY <1>2, <1>9, PipelineAssumption DEF Collect, disk, tree, PipelineTypeOK
  <2>2. Line(h, fs)
    <3>1. h.file \in Listable /\ h.file \in File
      BY <2>1 DEF True, InTree, FileHash
    <3>2. h.hash \in Image[h.file] \ {Absent}
      BY <2>1 DEF True, DigestsIn
    <3> QED
      BY <3>1, <3>2 DEF Image, Line, Scanned, Listable
  <2>3. Lines(hashes', fs') /\ Lines(out', shot')
    BY <1>2, <2>1, <2>2, Appended DEF True
  <2>4. DigestsIn(Image)' /\ InTree'
    BY <1>1, <2>1 DEF True, DigestsIn, InTree, Busy
  <2> QED
    BY <1>4, <2>3, <2>4 DEF True
<1>10. CASE WriteRecord
  <2>1. /\ hashes # <<>> /\ hashes' = Tail(hashes)
        /\ out' = Append(out, Head(hashes))
        /\ UNCHANGED <<fs, live, shot, wpc, item, hashC>>
    BY <1>10 DEF WriteRecord, pipeVars, tree
  <2>2. shot = fs
    BY <1>10 DEF WriteRecord, FileInv, Open
  <2>3. /\ Line(Head(hashes), fs) /\ Lines(Tail(hashes), fs)
        /\ Head(hashes) \in FileHash
    BY <1>2, <2>1, Shortened DEF True
  <2>4. Lines(Append(out, Head(hashes)), shot)
    BY <1>2, <2>2, <2>3, Appended DEF True
  <2>5. Lines(hashes', fs') /\ Lines(out', shot')
    BY <2>1, <2>3, <2>4
  <2> QED
    BY <1>4, <2>1, <2>5 DEF True, DigestsIn, InTree, Busy, Image
<1>11. CASE DirMissing \/ WriteFails \/ WriteEnd
  <2>1. /\ UNCHANGED <<fs, live, hashes, wpc, item, hashC>>
        /\ \E e \in BOOLEAN : Return(e)
    BY <1>11 DEF DirMissing, WriteFails, WriteEnd, pipeVars, tree
  <2>2. PICK n \in 0 .. Len(out) : out' = SubSeq(out, 1, n)
    BY <2>1, ReturnKeeps
  <2>3. shot' = shot
    BY <2>1, ReturnKeeps
  <2>4. Lines(hashes', fs') /\ Lines(out', shot')
    BY <1>2, <2>1, <2>2, <2>3, Kept DEF True
  <2> QED
    BY <1>4, <2>1, <2>4 DEF True, DigestsIn, InTree, Busy, Image
<1>12. CASE Kill \/ Rerun
  <2>1. /\ hashes' = <<>> /\ UNCHANGED <<out, shot>>
        /\ hashC' = <<>> /\ \A w \in Worker : wpc'[w] = "off"
    BY <1>12 DEF Kill, Rerun, Fresh, disk
  <2>2. DigestsIn(Image)' /\ InTree'
    BY <2>1 DEF DigestsIn, InTree, Busy
  <2>3. Lines(hashes', fs') /\ Lines(out', shot')
    BY <1>3, <2>1 DEF True
  <2> QED
    BY <1>4, <2>2, <2>3 DEF True
<1> QED
  BY <1>5, <1>6, <1>7, <1>8, <1>9, <1>10, <1>11, <1>12, NextIs DEF Aside

LEMMA TrueInvariant == Spec => [](FileInv /\ TypeInv /\ True)
BY FileInvariant, TypeInvariant, TrueInit, TrueStep, PTL DEF Spec

-----------------------------------------------------------------------------
(* No file has two lines.                                                  *)

\* A file that is under one directory is collected once: while it is in the
\* pipeline it is not among the collected, and while it is among those it is
\* not written yet.
Single ==
    /\ Sole(Named(hashes))
    /\ Distinct(hashes)
    /\ Distinct(out)
    /\ tool = "write" => Named(out) \cap Named(hashes) \subseteq Repeated

LEMMA NamedFile ==
    ASSUME NEW s \in Seq(FileHash)
    PROVE  Named(s) \subseteq File
<1>1. \A i \in DOMAIN s : s[i] \in FileHash
  OBVIOUS
<1> QED
  BY <1>1 DEF Named, FileHash

LEMMA SingleInit == ToolInit => Single
BY DEF ToolInit, PipelineInit, Single, Sole, InPool, InChannel, Held, Busy,
   Queued, Named, Distinct

\* A pipeline that starts has no file, and finds what was collected behind it.
LEMMA SoleStart ==
    ASSUME TypeInv, StartDir, NEW Gone, \A f \in Gone : Passed(f)
    PROVE  Sole(Gone)'
<1>1. /\ dir' = at /\ walker' = "open" /\ hashC' = <<>>
      /\ \A w \in Worker : wpc'[w] = "recv"
  BY DEF StartDir, OnlyThis
<1>2. ASSUME NEW f \in Gone
      PROVE  Passed(f)'
  <2>1. PICK d \in DOMAIN Roots :
            f \in Roots[d] /\ (d < dir \/ (d = dir /\ walker = "visit"))
    BY DEF Passed
  <2>2. d < at
    <3>1. /\ Len(base) < at /\ dir <= Len(base) + 1
          /\ walker = "visit" => dir <= Len(base)
          /\ dir \in Nat /\ at \in Nat /\ Len(base) \in Nat
      BY DEF StartDir, TypeInv, Placed, Sound, Shape, PipelineTypeOK
    <3>2. d \in Nat
      BY PipelineAssumption
    <3> QED
      BY <2>1, <3>1, <3>2
  <2> QED
    BY <1>1, <2>1, <2>2 DEF Passed
<1> QED
  BY <1>1, <1>2 DEF Sole, InPool, InChannel, Held, Busy, Queued

LEMMA SingleStep ==
    ASSUME TypeInv, Single, [Next]_vars
    PROVE  Single'
<1>1. /\ hashes \in Seq(FileHash) /\ out \in Seq(FileHash)
      /\ PipelineTypeOK /\ Shape /\ InStep
  BY DEF TypeInv, DiskOK, Placed, Sound
<1> PICK Gone \in SUBSET File : Gone = Named(hashes)
  BY <1>1, NamedFile
<1>2. Sole(Gone) /\ \A f \in Gone : Passed(f)
  BY DEF Single, Sole
<1>3. ASSUME Sole(Gone)', UNCHANGED <<hashes, out>>,
             tool' = "write" => tool = "write" \/ out = <<>>
      PROVE  Single'
  <2>1. Named(<<>>) = {}
    BY DEF Named
  <2>2. Gone = Named(hashes)'
    BY <1>3 DEF Named
  <2>3. Sole(Named(hashes))'
    BY <1>3, <2>2 DEF Sole, InPool, InChannel
  <2>4. Distinct(hashes)' /\ Distinct(out)'
    BY <1>3 DEF Single, Distinct
  <2>5. (tool = "write" => Named(out) \cap Named(hashes) \subseteq Repeated)'
    <3>1. Named(out)' = Named(out)
      BY <1>3 DEF Named
    <3>2. CASE out = <<>>
      BY <2>1, <3>1, <3>2
    <3>3. CASE out # <<>>
      BY <1>3, <2>2, <3>1, <3>3 DEF Single
    <3> QED
      BY <3>2, <3>3
  <2> QED
    BY <2>3, <2>4, <2>5 DEF Single
<1>4. CASE PipelineNext /\ ToolKeeps
  <2>1. Sole(Gone)'
    BY <1>1, <1>2, <1>4, SolePipeline
  <2> QED
    BY <1>3, <1>4, <2>1 DEF ToolKeeps, toolVars, disk
<1>5. CASE CreateFails \/ StartWrite \/ DirEnd \/ TimeOut \/ UNCHANGED vars
  <2>1. /\ UNCHANGED <<hashes, out, walker, dir, todo, wpc, item, hashC>>
        /\ tool' = "write" => tool = "write" \/ tool = "stat"
    BY <1>5 DEF CreateFails, StartWrite, DirEnd, TimeOut, disk, vars, toolVars,
       pipeVars
  <2>2. Sole(Gone)'
    BY <1>2, <2>1, SoleKept
  <2>3. tool = "stat" => out = <<>>
    BY DEF TypeInv, Placed
  <2> QED
    BY <1>3, <2>1, <2>2, <2>3
<1>6. CASE Create
  <2>1. /\ out' = <<>> /\ tool' = "stat"
        /\ UNCHANGED <<hashes, walker, dir, todo, wpc, item, hashC>>
    BY <1>6 DEF Create, Truncated, pipeVars
  <2>2. Gone = Named(hashes)' /\ Distinct(hashes)' /\ Distinct(out)'
    BY <2>1 DEF Named, Distinct, Single
  <2>3. Sole(Gone)'
    BY <1>2, <2>1, SoleKept
  <2>4. Sole(Named(hashes))'
    BY <2>2, <2>3 DEF Sole, InPool, InChannel
  <2> QED
    BY <2>1, <2>2, <2>4 DEF Single
<1>7. CASE StartDir
  <2>1. Sole(Gone)'
    BY <1>2, <1>7, SoleStart
  <2> QED
    BY <1>3, <1>7, <2>1 DEF StartDir, disk
<1>8. CASE Collect
  <2> PICK h \in FileHash : h = Head(hashC)
    BY <1>1, <1>8, Received DEF Collect, PipelineTypeOK
  <2>1. /\ hashes' = Append(hashes, h) /\ UNCHANGED <<out, tool>>
        /\ tool = "range"
    BY <1>8 DEF Collect, disk
  <2>2. /\ h.file \notin Repeated => h.file \notin Gone
        /\ Sole(Gone \cup {h.file})'
    BY <1>1, <1>2, <1>8, SoleReceive DEF Collect, PipelineTypeOK
  <2>3. /\ Named(Append(hashes, h)) = Gone \cup {h.file}
        /\ Distinct(Append(hashes, h))
    BY <1>1, <2>2, Appended DEF Single
  <2>4. Gone \cup {h.file} = Named(hashes)'
    BY <2>1, <2>3 DEF Named
  <2>5. Sole(Named(hashes))'
    BY <2>2, <2>4 DEF Sole, InPool, InChannel
  <2>6. Distinct(hashes)' /\ Distinct(out)'
    BY <2>1, <2>3 DEF Single, Distinct
  <2> QED
    BY <2>1, <2>5, <2>6 DEF Single
<1>9. CASE WriteRecord
  <2>1. /\ hashes # <<>> /\ hashes' = Tail(hashes)
        /\ out' = Append(out, Head(hashes))
        /\ tool = "write"
        /\ UNCHANGED <<walker, dir, todo, wpc, item, hashC>>
    BY <1>9 DEF WriteRecord, pipeVars
  <2> PICK h \in FileHash : h = Head(hashes)
    BY <1>1, <2>1, Shortened
  <2>2. /\ Gone = Named(Tail(hashes)) \cup {h.file}
        /\ h.file \notin Repeated => h.file \notin Named(Tail(hashes))
        /\ Distinct(Tail(hashes))
    BY <1>1, <2>1, Shortened DEF Single
  <2>3. /\ Named(Append(out, h)) = Named(out) \cup {h.file}
        /\ Distinct(Append(out, h))
    BY <1>1, <2>1, <2>2, Appended DEF Single
  <2> PICK Fewer \in SUBSET Gone : Fewer = Named(Tail(hashes))
    BY <2>2
  <2>4. Sole(Fewer)'
    BY <1>2, <2>1, SoleKept
  <2>5. Fewer = Named(hashes)' /\ Named(out)' = Named(out) \cup {h.file}
    BY <2>1, <2>3 DEF Named
  <2>6. Sole(Named(hashes))'
    BY <2>4, <2>5 DEF Sole, InPool, InChannel
  <2>7. Distinct(hashes)' /\ Distinct(out)'
    BY <2>1, <2>2, <2>3 DEF Distinct
  <2>8. (Named(out) \cap Named(hashes) \subseteq Repeated)'
    BY <2>1, <2>2, <2>5 DEF Single
  <2> QED
    BY <2>6, <2>7, <2>8 DEF Single
<1>10. CASE DirMissing \/ WriteFails \/ WriteEnd
  <2>1. /\ UNCHANGED <<hashes, walker, dir, todo, wpc, item, hashC>>
        /\ \E e \in BOOLEAN : Return(e)
    BY <1>10 DEF DirMissing, WriteFails, WriteEnd, pipeVars
  <2>2. PICK n \in 0 .. Len(out) : out' = SubSeq(out, 1, n)
    BY <2>1, ReturnKeeps
  <2>3. tool' = "end"
    BY <2>1, ReturnKeeps
  <2>4. Distinct(SubSeq(out, 1, n))
    BY <1>1, Kept DEF Single
  <2>5. Gone = Named(hashes)' /\ Distinct(hashes)' /\ Distinct(out)'
    BY <2>1, <2>2, <2>4 DEF Named, Distinct, Single
  <2>6. Sole(Gone)'
    BY <1>2, <2>1, SoleKept
  <2>7. Sole(Named(hashes))'
    BY <2>5, <2>6 DEF Sole, InPool, InChannel
  <2> QED
    BY <2>3, <2>5, <2>7 DEF Single
<1>11. CASE Kill \/ Rerun
  <2>1. /\ hashes' = <<>> /\ out' = out /\ tool' \in {"create", "dead"}
        /\ hashC' = <<>> /\ \A w \in Worker : wpc'[w] = "off"
    BY <1>11 DEF Kill, Rerun, Fresh, disk
  <2> QED
    BY <2>1 DEF Single, Sole, InPool, InChannel, Held, Busy, Queued, Named,
       Distinct
<1> QED
  BY <1>4, <1>5, <1>6, <1>7, <1>8, <1>9, <1>10, <1>11, NextIs DEF Aside

\* Every line of the output names a file of the image it was made of, with its
\* digest, and no file has two lines unless it is under two of the directories:
\* however the workers interleave, wherever a scan is cut short, whatever cannot
\* be read, and whatever earlier calls, over any images, left in the file.
THEOREM LinesAreTrue == Spec => []LinesTrue
<1>1. TypeInv /\ Single /\ [Next]_vars => Single'
  BY SingleStep
<1>2. True /\ Single => LinesTrue
  BY DEF True, Single, Lines, Line, Distinct, LinesTrue
<1> QED
  BY <1>1, <1>2, TrueInvariant, SingleInit, PTL DEF Spec

-----------------------------------------------------------------------------
(* No file is lost.                                                        *)

\* What needs no place in the pipeline: collected, not there, or unreadable.
Gone == Named(hashes) \cup {f \in File : fs[f] = Absent} \cup FlakyFile

\* no scan of the call that writes the output was cut short
Timely == "timeout" \notin mishaps

\* Until a scan is cut short, every file behind the walker is in the pipeline
\* or collected; the walker is at the directory of the tool, and once that is
\* the last one, all is collected, and then written.  What was written stays
\* with the file, until a call creates it anew.
Accounted ==
    /\ Alive
    /\ tool \in {"stat", "range"} /\ Timely =>
          \A f \in File : Looked(f) => Found(f, Gone)
    /\ tool = "stat" /\ Timely => dir = at /\ walker # "visit"
    /\ tool = "range" /\ Timely => ~ ctxDone
    /\ tool = "write" /\ Timely =>
          Scanned(fs) \ Unseen \subseteq Named(out) \cup Named(hashes)
    /\ tool \in {"create", "end", "dead"} /\ exists /\ mishaps = {} =>
          Scanned(shot) \ Unseen \subseteq Named(out)

LEMMA AccountedInit == ToolInit => Accounted
BY DEF ToolInit, PipelineInit, Accounted, Alive, Busy, Timely

\* Nothing is behind a walker that has not left the first directory.
LEMMA NothingLooked ==
    ASSUME dir = 1, walker # "visit"
    PROVE  \A f : ~ Looked(f)
BY PipelineAssumption DEF Looked

\* When the walker is past all directories and nothing is on its way, every
\* file is collected.
LEMMA AllCollected ==
    ASSUME Idle, dir > Len(Roots), dir \in Nat,
           \A f \in File : Looked(f) => Found(f, Gone)
    PROVE  Scanned(fs) \ Unseen \subseteq Named(hashes)
<1> SUFFICES ASSUME NEW f \in Scanned(fs), f \notin Unseen
             PROVE  f \in Named(hashes)
  OBVIOUS
<1>1. f \in File /\ fs[f] # Absent /\ f \notin FlakyFile
  BY PipelineAssumption DEF Scanned, Unseen
<1>2. PICK d \in DOMAIN Roots \ FlakyDir : f \in Roots[d]
  BY <1>1 DEF Unseen
<1>3. d < dir
  BY <1>2, PipelineAssumption
<1>4. Found(f, Gone)
  BY <1>1, <1>2, <1>3 DEF Looked
<1>5. /\ \A w \in Worker : ~ Held(w, f)
      /\ \A i : ~ Queued(i, f)
  BY DEF Idle, Held, Busy, Queued
<1> QED
  BY <1>1, <1>4, <1>5 DEF Found, Gone

LEMMA AccountedPipeline ==
    ASSUME Worker # {}, TypeInv, Accounted, PipelineNext, ToolKeeps
    PROVE  Accounted'
<1>1. /\ UNCHANGED <<tool, at, hashes, disk, fs, live, ctxDone>>
      /\ UNCHANGED <<out, exists, shot, mishaps>>
  BY PipelineFrame DEF ToolKeeps, toolVars, disk, result
<1>2. PipelineTypeOK /\ Shape /\ Alive
  BY DEF TypeInv, Sound, Accounted
<1>3. Alive'
  BY <1>2, AlivePipeline
<1>4. tool \in {"stat", "range"} /\ Timely => Calm
  BY DEF Accounted, Calm, TypeInv, Placed, Idle, Busy
<1> PICK G : G = Gone
  OBVIOUS
<1>5. G = Gone'
  BY <1>1 DEF Gone, Named
<1>6. FlakyFile \subseteq G /\ \A f \in File : fs[f] = Absent => f \in G
  BY DEF Gone
<1>7. ASSUME tool \in {"stat", "range"}, Timely, NEW f \in File, Looked(f)'
      PROVE  Found(f, Gone)'
  <2>1. \A g \in File : Looked(g) => Found(g, G)
    BY <1>7 DEF Accounted
  <2>2. Found(f, G)'
    BY <1>2, <1>4, <1>6, <1>7, <2>1, FoundPipeline
  <2> QED
    BY <1>5, <2>2 DEF Found
<1>8. tool = "stat" /\ Timely => dir' = dir /\ walker' # "visit"
  <2> SUFFICES ASSUME tool = "stat", Timely
               PROVE  dir' = dir /\ walker' # "visit"
    OBVIOUS
  <2>1. Idle /\ dir = at /\ walker # "visit" /\ Len(base) < at /\ Len(base) \in Nat
        /\ at \in Nat
    BY DEF TypeInv, Placed, Sound, PipelineTypeOK, Accounted
  <2>2. ~ (dir <= Len(base))
    BY <2>1
  <2> QED
    BY <2>1, <2>2 DEF PipelineNext, WalkerNext, WalkOpen, WalkFail,
       WalkCancelled, WalkDirEnd, WalkSend, WalkClose, WorkerNext, WorkerCheck,
       WorkerHash, WorkerSkip, WorkerSend, WorkerEnd, CloseHashes
<1>9. /\ Scanned(fs)' = Scanned(fs) /\ Scanned(shot)' = Scanned(shot)
      /\ Named(out)' = Named(out) /\ Named(hashes)' = Named(hashes)
  BY <1>1 DEF Scanned, Named
<1> QED
  BY <1>1, <1>3, <1>7, <1>8, <1>9 DEF Accounted, Timely

\* Steps that leave the pipeline, the image and the records alone.
LEMMA AccountedKept ==
    ASSUME Accounted, UNCHANGED <<fs, live, hashes, out, shot, pipeVars>>
    PROVE  /\ Alive'
           /\ \A f : Looked(f)' <=> Looked(f)
           /\ \A f : Found(f, Gone)' <=> Found(f, Gone)
           /\ Scanned(fs)' = Scanned(fs) /\ Scanned(shot)' = Scanned(shot)
           /\ Named(out)' = Named(out) /\ Named(hashes)' = Named(hashes)
<1>1. Alive'
  BY DEF Accounted, Alive, Busy, pipeVars
<1>2. \A f : Looked(f)' <=> Looked(f)
  BY DEF Looked, pipeVars
<1>3. /\ Scanned(fs)' = Scanned(fs) /\ Scanned(shot)' = Scanned(shot)
      /\ Named(out)' = Named(out) /\ Named(hashes)' = Named(hashes)
      /\ Gone' = Gone
  BY DEF Scanned, Named, Gone
<1>4. \A f : Found(f, Gone)' <=> Found(f, Gone)
  BY <1>3 DEF Found, Held, Busy, Queued, pipeVars
<1> QED
  BY <1>1, <1>2, <1>3, <1>4

LEMMA AccountedStep ==
    ASSUME Worker # {}, FileInv, TypeInv, Accounted, [Next]_vars
    PROVE  Accounted'
<1>1. /\ hashes \in Seq(FileHash) /\ out \in Seq(FileHash)
      /\ PipelineTypeOK /\ Shape /\ InStep
  BY DEF TypeInv, DiskOK, Placed, Sound
<1>2. CASE PipelineNext /\ ToolKeeps
  BY <1>2, AccountedPipeline
<1>3. CASE CreateFails \/ StartWrite \/ DirEnd \/ TimeOut \/ UNCHANGED vars
  <2>1. UNCHANGED <<fs, live, hashes, out, shot, exists, pipeVars>>
    BY <1>3 DEF CreateFails, StartWrite, DirEnd, TimeOut, disk, vars, toolVars, tree
  <2>2. /\ Alive'
        /\ \A f : Looked(f)' <=> Looked(f)
        /\ \A f : Found(f, Gone)' <=> Found(f, Gone)
        /\ Scanned(fs)' = Scanned(fs) /\ Scanned(shot)' = Scanned(shot)
        /\ Named(out)' = Named(out) /\ Named(hashes)' = Named(hashes)
    BY <2>1, AccountedKept
  <2>3. CASE CreateFails
    <3>1. tool = "create" /\ tool' = "end" /\ mishaps' = mishaps
      BY <2>3 DEF CreateFails, disk
    <3> QED
      BY <2>1, <2>2, <3>1 DEF Accounted
  <2>4. CASE TimeOut
    <3>1. tool' = "range" /\ ~ Timely'
      BY <2>4 DEF TimeOut, Timely
    <3> QED
      BY <2>2, <3>1 DEF Accounted
  <2>5. CASE StartWrite
    <3>1. Timely => Scanned(fs) \ Unseen \subseteq Named(hashes)
      <4> SUFFICES ASSUME Timely
                   PROVE  Scanned(fs) \ Unseen \subseteq Named(hashes)
        OBVIOUS
      <4>1. /\ Idle /\ dir = at /\ at > Len(Roots)
            /\ \A f \in File : Looked(f) => Found(f, Gone)
        BY <2>5 DEF StartWrite, AllRead, TypeInv, Placed, Accounted
      <4> QED
        BY <1>1, <4>1, AllCollected DEF PipelineTypeOK
    <3>2. tool' = "write" /\ mishaps' = mishaps
      BY <2>5 DEF StartWrite, disk
    <3> QED
      BY <2>2, <3>1, <3>2 DEF Accounted, Timely
  <2>6. CASE UNCHANGED vars
    <3>1. UNCHANGED <<tool, at, mishaps, ctxDone, dir, walker>>
      BY <2>6 DEF vars, toolVars, pipeVars, disk
    <3> QED
      BY <2>1, <2>2, <3>1 DEF Accounted, Timely
  <2>7. CASE DirEnd
    <3>1. /\ tool = "range" /\ tool' = "stat" /\ at' = at + 1 /\ ~ hashOpen
          /\ UNCHANGED <<mishaps, dir, walker>>
      BY <2>7 DEF DirEnd, disk, pipeVars
    <3>2. Timely => walker = "closed" /\ dir = at + 1
      BY <1>1, <3>1 DEF Accounted, InStep, AllDone, TypeInv, Placed
    <3> QED
      BY <2>2, <3>1, <3>2 DEF Accounted, Timely
  <2> QED
    BY <1>3, <2>3, <2>4, <2>5, <2>6, <2>7
<1>4. ASSUME NEW e \in BOOLEAN, Return(e), UNCHANGED <<live, wpc, base, item>>,
             ~ e /\ Timely => Scanned(fs) \ Unseen \subseteq Named(out),
             ~ e => shot = fs
      PROVE  Accounted'
  <2>1. /\ tool' = "end" /\ shot' = shot
        /\ e /\ exists' => "remove" \in mishaps'
    BY <1>4, ReturnKeeps
  <2>2. PICK n \in 0 .. Len(out) :
            /\ out' = SubSeq(out, 1, n)
            /\ "close" \notin mishaps' => n = Len(out)
    BY <1>4, ReturnKeeps
  <2>3. mishaps' = {} => out' = out
    BY <1>1, <2>2, Prefix
  <2>4. mishaps' = {} => Timely
    BY <1>4, ReturnKeeps DEF Timely
  <2>5. Alive'
    BY <1>4 DEF Accounted, Alive, Busy
  <2>6. ASSUME exists', mishaps' = {}
        PROVE  (Scanned(shot) \ Unseen \subseteq Named(out))'
    <3>1. ~ e
      BY <2>1, <2>6
    <3>2. Scanned(shot) \ Unseen \subseteq Named(out)
      BY <1>4, <2>4, <2>6, <3>1
    <3>3. out' = out /\ shot' = shot
      BY <2>1, <2>3, <2>6
    <3> QED
      BY <3>2, <3>3 DEF Scanned, Named
  <2> QED
    BY <2>1, <2>5, <2>6 DEF Accounted
<1>5. CASE DirMissing \/ WriteFails
  <2>1. Return(TRUE) /\ UNCHANGED <<live, wpc, base, item>>
    BY <1>5 DEF DirMissing, WriteFails, pipeVars, tree
  <2> QED
    BY <1>4, <2>1
<1>6. CASE WriteEnd
  <2>1. /\ Return(FALSE) /\ UNCHANGED <<live, wpc, base, item>>
        /\ tool = "write" /\ hashes = <<>>
    BY <1>6 DEF WriteEnd, pipeVars, tree
  <2>2. Named(hashes) = {}
    BY <2>1 DEF Named
  <2>3. Timely => Scanned(fs) \ Unseen \subseteq Named(out)
    BY <2>1, <2>2 DEF Accounted
  <2>4. shot = fs
    BY <2>1 DEF FileInv, Open
  <2> QED
    BY <1>4, <2>1, <2>3, <2>4
<1>7. CASE Create
  <2>1. /\ tool = "create" /\ tool' = "stat"
        /\ UNCHANGED <<live, at, hashes, ctxDone, dir, walker, wpc, item, base>>
    BY <1>7 DEF Create, pipeVars, tree
  <2>2. at = 1 /\ dir = 1 /\ walker = "off"
    BY <2>1 DEF TypeInv, Placed
  <2>3. \A f : ~ Looked(f)'
    BY <2>1, <2>2, PipelineAssumption DEF Looked
  <2>4. Alive'
    BY <2>1 DEF Accounted, Alive, Busy
  <2> QED
    BY <2>1, <2>2, <2>3, <2>4 DEF Accounted
<1>8. CASE StartDir
  <2>1. /\ tool = "stat" /\ tool' = "range" /\ walker' = "open" /\ dir' = at
        /\ ~ ctxDone'
        /\ hashC' = <<>> /\ \A w \in Worker : wpc'[w] = "recv"
        /\ UNCHANGED <<fs, live, at, hashes, mishaps>>
    BY <1>8, Zenon DEF StartDir, OnlyThis, disk, tree
  <2>2. Alive'
    BY <1>8, <2>1, SoundStart DEF Alive, Busy
  <2>3. ASSUME Timely, NEW f \in File, Looked(f)'
        PROVE  Found(f, Gone)'
    <3>1. Idle /\ dir = at /\ walker # "visit"
      BY <2>1, <2>3 DEF Accounted, TypeInv, Placed
    <3>2. Looked(f)
      BY <2>1, <2>3, <3>1 DEF Looked
    <3>3. Found(f, Gone)
      BY <2>1, <2>3, <3>2 DEF Accounted
    <3>4. f \in Gone
      BY <3>1, <3>3 DEF Found, Idle, Held, Busy, Queued
    <3>5. f \in Gone'
      BY <2>1, <3>4 DEF Gone, Named
    <3> QED
      BY <3>5 DEF Found
  <2> QED
    BY <2>1, <2>2, <2>3 DEF Accounted, Timely
<1>9. CASE Collect
  <2> PICK h \in FileHash : h = Head(hashC)
    BY <1>1, <1>9, Received DEF Collect, PipelineTypeOK
  <2>1. /\ tool = "range" /\ hashC # <<>> /\ hashC' = Tail(hashC)
        /\ hashes' = Append(hashes, h)
        /\ UNCHANGED <<fs, live, tool, at, out, base, walker, dir, todo, wpc,
                       item, ctxDone, mishaps>>
    BY <1>9 DEF Collect, disk, tree
  <2>2. Alive'
    BY <1>1, <2>1 DEF Accounted, Alive, Busy
  <2>3. Gone' = Gone \cup {h.file}
    BY <1>1, <2>1, Appended DEF Gone
  <2>4. \A f : /\ Looked(f)' <=> Looked(f)
               /\ \A w : Held(w, f)' <=> Held(w, f)
    BY <2>1 DEF Looked, Held, Busy
  <2>5. ASSUME NEW f \in File, Found(f, Gone)
        PROVE  Found(f, Gone)'
    <3>1. CASE f \in Gone \/ \E w \in Worker : Held(w, f)
      BY <2>3, <2>4, <3>1 DEF Found
    <3>2. ASSUME NEW i \in 1 .. Len(hashC), Queued(i, f)
          PROVE  Found(f, Gone)'
      <4>1. CASE i = 1
        <5>1. f = h.file
          BY <1>1, <2>1, <3>2, <4>1, Received DEF Queued, PipelineTypeOK
        <5> QED
          BY <2>3, <5>1 DEF Found
      <4>2. CASE i # 1
        <5>1. \E j \in (1 .. Len(hashC))' : Queued(j, f)'
          BY <1>1, <2>1, <3>2, <4>2, Received DEF PipelineTypeOK
        <5> QED
          BY <5>1 DEF Found
      <4> QED
        BY <4>1, <4>2
    <3> QED
      BY <2>5, <3>1, <3>2 DEF Found
  <2> QED
    BY <2>1, <2>2, <2>4, <2>5 DEF Accounted, Timely
<1>10. CASE WriteRecord
  <2>1. /\ tool = "write" /\ hashes # <<>> /\ hashes' = Tail(hashes)
        /\ out' = Append(out, Head(hashes))
        /\ UNCHANGED <<fs, live, tool, mishaps, base, wpc, item>>
    BY <1>10 DEF WriteRecord, tree, pipeVars
  <2>2. Alive'
    BY <1>1, <2>1 DEF Accounted, Alive, Busy
  <2>3. (Named(out) \cup Named(hashes))' = Named(out) \cup Named(hashes)
    BY <1>1, <2>1, Shortened, Appended
  <2>4. Scanned(fs)' = Scanned(fs)
    BY <2>1 DEF Scanned
  <2> QED
    BY <2>1, <2>2, <2>3, <2>4 DEF Accounted, Timely
<1>11. CASE Kill
  <2>1. /\ tool' = "dead" /\ base' = <<>> /\ \A w \in Worker : wpc'[w] = "off"
        /\ tool \in {"create"} \cup Open
        /\ UNCHANGED <<out, exists, shot>>
        /\ mishaps' = mishaps \cup (IF created THEN {"killed"} ELSE {})
    BY <1>11 DEF Kill, Fresh, TypeInv, Placed, Open
  <2>2. mishaps' = {} => tool = "create" /\ mishaps = {}
    BY <2>1 DEF FileInv, Open
  <2>3. Named(out)' = Named(out) /\ Scanned(shot)' = Scanned(shot)
    BY <2>1 DEF Named, Scanned
  <2> QED
    BY <2>1, <2>2, <2>3 DEF Accounted, Alive, Busy
<1>12. CASE Rerun
  <2>1. /\ tool' = "create" /\ base' = <<>> /\ \A w \in Worker : wpc'[w] = "off"
        /\ tool \in {"end", "dead"}
        /\ UNCHANGED <<out, exists, shot, mishaps>>
    BY <1>12 DEF Rerun, Fresh, disk
  <2>2. Named(out)' = Named(out) /\ Scanned(shot)' = Scanned(shot)
    BY <2>1 DEF Named, Scanned
  <2> QED
    BY <2>1, <2>2 DEF Accounted, Alive, Busy
<1> QED
  BY <1>2, <1>3, <1>5, <1>6, <1>7, <1>8, <1>9, <1>10, <1>11, <1>12, NextIs
     DEF Aside

\* An output that no call is writing has a line for every file of its image that
\* could be listed and read, and for none that is not there, unless the call that
\* made it was killed, was cut short, or failed to close or remove it: no digest
\* is lost between walker, workers and collector, also when directories overlap,
\* and a later call that cannot create the file leaves it whole.
THEOREM SnapshotIsComplete == Spec => []CompleteUnlessCutShort
<1>1. True => Named(out) \subseteq Scanned(shot)
  BY DEF True, Lines, Line, Named
<1>2. ASSUME Worker # {}
      PROVE  Spec => []CompleteUnlessCutShort
  <2>1. FileInv /\ TypeInv /\ Accounted /\ [Next]_vars => Accounted'
    BY <1>2, AccountedStep
  <2>2. True /\ Accounted => CompleteUnlessCutShort
    BY <1>1 DEF Accounted, CompleteUnlessCutShort
  <2> QED
    BY <2>1, <2>2, TrueInvariant, AccountedInit, PTL DEF Spec
<1>3. ASSUME Worker = {}
      PROVE  Spec => []CompleteUnlessCutShort
  <2>1. Scanned(shot) \subseteq Unseen
    BY <1>3, PipelineAssumption DEF Scanned, Unseen
  <2>2. True => CompleteUnlessCutShort
    BY <1>1, <2>1 DEF CompleteUnlessCutShort
  <2> QED
    BY <2>2, TrueInvariant, PTL
<1> QED
  BY <1>2, <1>3
=============================================================================
