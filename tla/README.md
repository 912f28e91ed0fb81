# integrity-sum in TLA+

integrity-sum watches the files of a running container: it compares their hashes with a
snapshot taken from the image, and restarts the pod when they differ. These modules
model the parts of it where processes, channels, callbacks and failures meet, and the
names and texts its three programs must agree on; they check them with TLC on small
instances, and prove the safety results with TLAPS for every instance. Paths below are
relative to `src/`.

## 1. Inventory

| Component | State it keeps | Operations | Talks to |
|---|---|---|---|
| **Hashing pipeline** `internal/walker`, `internal/worker`, `pkg/hasher` | unbuffered channel of names, buffered channel of digests, one goroutine per worker, the walker and the closer | `ChanWalkDir`, `WorkersPool`, `NewWorker`, `HashFile` | the consumer of the digests: the comparer or `HashDir` |
| **Integrity check** `internal/integritymonitor/integritymonitor.go`, `internal/utils/process/pid.go` | `doneC`, `errC`, a cancellable context, the map of expected digests | `CheckIntegrity`, `compareHashes`, `integrityCheckFailed`, `GetProcessPath` | pipeline, MinIO `Load`, alerts, `RestartPod` |
| **Monitor loop** `cmd/k8s-integrity-sum/main.go`, `internal/utils/graceful`, `pkg/health` | ticker, health file, the process's context | `runCheckIntegrity`, `graceful.Execute`, `Heartbeat` | integrity check, signals, liveness probe |
| **Alerts** `pkg/alerts` | list of registered senders | `Register`, `Send`, `Heartbeat`, splunk and syslog senders | start, check, loop |
| **Kubernetes client** `pkg/k8s` | client set, deployment data | `Connect`, `GetDataFromDeployment`, `RestartPod` | API server |
| **MinIO storage** `pkg/minio` | one instance per process, one bucket | `Save`, `Load`, `Remove`, `CreateBucketIfNotExists`, `BuildObjectName` | check, controller |
| **Snapshot controller** `snapshot-controller` | `Snapshot` resources and their status, finalizers, work queue, informer cache, `sync.Once` | `Reconcile`, `uploadSnapshot`, `removeSnapshot`, `deleteSnapshot`, `updateStatus`, `minIOStorage` | API server, MinIO, users |
| **Snapshot tool** `cmd/snapshot`, `internal/integritymonitor/snapshot.go` | the output file | `CalculateAndWriteHashes`, `HashDir` | pipeline |
| **Checksum records** `internal/data`, `internal/utils/process/checksumfile.go` | none | `Get`, `parseRecord`, `CheckSumFile` | tool, check, controller |
| **Monitoring options** `ParseMonitoringOpts`, `internal/configs` | flags | parsing, defaults | loop, tool |
| **Bee2 hashing** `internal/ffi/bee2` | block and state of a hash | `Write`, `Sum`, `Reset`, `HashFile` | hasher |
| **Controller manager** `snapshot-controller/main.go` | manager of controller-runtime | start, leader election | controller |
| generated code, mocks, logging, constants | none of interest | | |

The snapshot tool writes the digests of an image to a file, a user puts the file
into a `Snapshot` resource, the controller copies it to a MinIO object, and the
monitor, a sidecar that sees the other container through `/proc/<pid>/root`,
loads the object at every tick of its timer and compares.

What is hard, and what makes each part correct:

- *Pipeline.* Several goroutines, two channels and one context. No digest may be
  lost or paired with another file, the digest channel may close only when all
  workers ended, and nobody may wait for ever but on a consumer that left.
- *Check.* The caller's `select` waits for three events that race; `errC` is closed
  while the comparer may still send on it; files change and processes end
  during the walk. A verdict must be one that the files justified, only an
  integrity error may restart the pod, and the call must return.
- *Controller.* It reads a cache that lags behind the API server, updates MinIO and
  the status in two steps, may restart in between, and retries only when an
  error is returned. The status must not claim what the bucket does not hold,
  a deleted resource must leave no object, and all must be done in the end.
- *Loop.* A shutdown competes with the ticker; one hanging alert stops it all, one that
  returns an error must stop nothing; a pod may be restarted only for a cause and only
  after everybody configured was called.
- *Tool.* It writes its output in place, over what earlier calls left; a call that fails must
  leave no snapshot of its own, and no call may hand on lines of another image.
- *Hashing.* Objects and buffers are used again from file to file; a digest must be
  of the file it is reported for.
- *Names.* Tool, controller and monitor are configured apart and share only strings:
  how a path, an image, an algorithm or an option is spelled decides whether the
  monitor compares with the right snapshot, with another one, or with none.

`PROJECT.json` lists the hazards one by one with the line where each bites.

## 2. Modules

| Module | Models |
|---|---|
| `HashPipeline` | walker, pool and closer; extended by its consumers |
| `IntegrityCheck` | one call of `CheckIntegrity`, over `HashPipeline`, with the container around it |
| `IntegrityVerdict` | abstract: what a check promises, with no goroutine in sight |
| `HashPipeline_proofs` | lemmas about the pipeline, for both of its consumers |
| `IntegrityCheck_proofs` | the theorems about types, panics, mismatches and checks that pass |
| `IntegrityVerdict_proofs` | the theorems about new and deleted files, and the refinement of `IntegrityVerdict` |
| `SnapshotController` | `Reconcile`, one action per call, with API server, informer, queue, bucket and users |
| `Monitor` | the program around the checks: start, ticker loop, alerts, restart, signals, and its pod |
| `SnapshotTool` | the snapshot tool, over `HashPipeline`, killed and called again over what it left |
| `Hashing` | how workers read and hash a file block by block, by the Go library and by bee2 |
| `Names` | pure: records, object names, paths, options, algorithms, the name of the deployment |
| `EndToEnd` | tool, controller and monitor composed over `Names` |
| `SnapshotController_proofs`, `Monitor_proofs`, `SnapshotTool_proofs`, `Hashing_proofs`, `EndToEnd_proofs` | the theorems about these modules |
| `MCIntegrityCheck`, `MCSnapshotController`, `MCMonitor`, `MCSnapshotTool`, `MCHashing`, `MCEndToEnd` | values of the constants for TLC |

### HashPipeline and IntegrityCheck

Each goroutine has a variable that says where it stands: `walker`, `wpc[w]`,
`main` (the caller of `CheckIntegrity`) and `cmp` (`compareHashes`). An
action is the code between two points where another goroutine could be noticed.

| Code | Model |
|---|---|
| `WalkDir` and its callback | `WalkOpen`, `WalkSend`, `WalkFail`, `WalkCancelled`, `WalkDirEnd`, `WalkClose` |
| one round of `NewWorker` | `WorkerCheck` (the context), `WorkerHash` or `WorkerSkip`, `WorkerSend`, `WorkerEnd` |
| `wg.Wait()`, deferred `close(hashC)` | `CloseHashes` |
| `GetProcessPath` per directory | `MainPath`, `MainNoPid` |
| the `select` of `CheckIntegrity` | `MainPark`, `MainOnCtx`, `MainOnDone`, `MainOnDoneClosed`, `MainOnErr`, `ParentCancel` |
| `integrityCheckFailed` | `MainAlert`, `MainRestart` |
| deferred `close(errC)`, then `cancel()` | `MainCloseErrC`, `MainCancel` |
| `compareHashes` | `CmpPath`, `CmpLoad`, `CmpLoadFail`, `CmpRecv`, `CmpClosed`, `CmpPanic` |
| the container | `Touch` (a file changes, appears or goes), `ProcChange` |

Details that matter and are kept: an unbuffered hand-over is one step of two
goroutines; a `select` that sleeps takes the first event (`MainPark`), one that
is reached late chooses among all that are ready; a comparer that gives up
closes `doneC`, which then reads as zero; a send on the closed `errC` panics and ends
the program; each directory is walked under the pid found for it, and the
comparer strips the prefix of a pid it looked up itself, later.

Abstractions: a digest is the content it was computed from (no collisions); one
read of a file is atomic; the names below a monitored directory are listed in
one step and handed over in any order; the snapshot loaded from MinIO does not
change during a check, loading it either succeeds or fails; the process ids that `pidof`
prints have some order, and the first of one set is always the same.
`seen[f]`, a history variable, collects what file `f` held since the check
began: a verdict is judged against it, since different files are read at
different moments and no instant of the whole file system is ever seen.

`IntegrityVerdict` says what is left when the goroutines are taken away: the
files change, one verdict is reached, and the pod is restarted only after an
integrity error. A verdict that `seen` does not justify needs one of four excuses, and
each verdict has its own: a file `Unseen` (it cannot be read, no directory that can be
listed contains it, or there is no worker) may be called deleted or be missed; a file `Repeated`
(under two directories) may be called new; once a process came or went (`churned`) any file may be
called new or deleted, or be missed; a shutdown (`stopping`) excuses what it cuts short.
Nothing excuses a mismatch.
`IntegrityCheck` refines this, whatever fails, under `verdict <- result,
restarted <- podDeleted, churned <- Churned, stopping <- parentDone`.

### SnapshotController

`pc`, `cur` and `got` are the place in `Reconcile`, the request, and the local
copy of the resource. Each call that leaves the process is an action that may
succeed or fail, and a call to MinIO that fails may have taken effect. The rest is
environment: `Put` gives a new resource version to a changed resource and
notifies the informer; `Current` is the version check of an update; `PutStatus`
changes the status only (a subresource); the last finalizer of a deleted resource lets it
go. `Return`, `Done` and `Requeue` are the ways `Reconcile` ends. `Crash` ends the
process at any point and loses cache, queue and the `sync.Once`; while it is down
users go on and nobody is notified, and `Start`, the manager's, lists all resources.

The specification of a resource is the object it names (image and algorithm, see
`BuildObjectName`) and its data; the control hash, the MD5 of the data alone, is
the data. `BadData` is data that base64 refuses.

### Monitor

`mon` is where the main goroutine stands: the steps of its start, the loop of
`runCheckIntegrity`, and the deferred calls at its end; `handler` is the goroutine of
`graceful.Execute`, `beat` that of the heartbeat, `tick` and `sig` are the two
channels of capacity one.

| Code | Model |
|---|---|
| `main` up to the loop, `log.Fatalf` | `SetHealth`, `NewStorage`, `InitKubeData`, `Connect`, `GetDataFromDeployment`, `Register`, `Execute`, `Fatal` |
| `for range t.C`, `for proc, paths := range optsMap` | `Tick`, `TakeTick`, `NextCheck`, `RoundEnd`, `Stop` |
| one call of `CheckIntegrity` | `CheckPasses`, `CheckFindsDifference`, `CheckFails`, `CheckCancelled` |
| `alerts.Send` and the senders | `Call`: `Sent`, `SendFails`, `SplunkHangs`; `Alerted` |
| `RestartPod` | `RestartPod`, `RestartFails` |
| `graceful.Execute`, deferred `Reset` | `HandleSignal`, `ExecuteReturns`, `ResetHealth` |
| the panic of `IntegrityCheck` | `Panic` |
| kubelet | `Signal`, `ProbeFails`, `Terminate`, `Kill`, `StartContainer` |
| the monitored container | `Differ`, `Disturb` |

A check is a single verdict about one process, with one Boolean, `p \in differs`, in the place
of its files. `Cause` lists what `IntegrityVerdict` lets end in an integrity error: the
files differed at some moment since the check began (`seen`), the process is one whose
files cannot all be listed and read (`Unseen`) or are under two directories (`Repeated`), a
process of the name came or went (`during`), or a shutdown is on. Only the first is a
difference; for the others a pod is restarted whose files are untouched. In the same way a check
passes that saw no difference, or was disturbed, or could not read the file that is new.
`Disturb("others")` is a change from some differing files to others, between which a check
may see neither. Any check may fail instead, and a cancelled one may leave a comparer
(`stray`) that panics later: that is what `IntegrityCheck` allows.

Each sender that is called succeeds, returns an error, which `Send` collects, or, Splunk's, hangs;
`called` and `errs` remember which. `health` is the file the liveness probe looks for
(`helm-charts/app-to-monitor/templates/deployment.yaml`): without it the kubelet
stops the program again and again, whatever it does otherwise. Deleting the pod closes the
circle: Kubernetes sends the monitor itself a SIGTERM, and the new pod starts
with the files of the image.

### SnapshotTool

`CalculateAndWriteHashes` starts one pipeline for each directory (`StartDir`),
collects its digests (`Collect`, `DirEnd`), then writes them line by line
(`WriteRecord`), and its deferred function (`Return`) closes the file and removes it when an
error is returned (`Removes`). The errors of both calls are ignored: a file that could not
be removed stays, one that could not be closed may lack its last lines. `TimeOut` is the
context of `HashDir`. `Kill` ends the process at any point and leaves what is on the disk;
`Rerun` is the next call, after a killed, failed or successful one, over any of the
`Images`. Its `Create` empties the file it finds, or fails and leaves it.

The image does not change while the tool runs. `shot` is the image of the call that
created the file on the disk, by which its lines are judged, and `mishaps` is what went wrong in
that call without an error being returned for it: a kill, a scan cut short, a close or a
removal that failed.

### Hashing

`HashFile` of the Go algorithms reads the whole file, in portions of any size, then
calls `HashData` (`Reset`, `WriteAll`, `Sum`); bee2 reads blocks in C and absorbs each as it
comes, and its `Write` (`WriteBlock`) copies block after block into one buffer that is
never cleared. The hash functions have no collisions: a state is the bytes absorbed, a
digest the message. `Own` is the object of a worker, used for all its files. What bee2's
C library does with the bytes is not in the repository.

### Names and EndToEnd

A string is a sequence of tokens, words and the marks the code looks for; the operators
follow the functions of the same name, on top of `strings` and `filepath` as far as
they are used. `EndToEnd` gives each program one step: `Publish` is the tool and the user,
`Sync` the controller, `Check` and `Restart` the monitor, with what the detailed
modules show of them taken for granted (`LinesTrue` and `CompleteUnlessCutShort`;
`EventuallySynced`; `IntegrityVerdict`). Scans are complete and checks undisturbed: what those
properties except is left out here, so no file is unreadable, no process restarts during a
check and no scan exceeds its timeout. Around them images are built again
under the same name (`Build`), resources withdrawn, containers rolled out and files
changed. A setup is one way to configure all three: roots, directories,
options, algorithms, build tags, namespaces, the bucket, the number of workers, the
name of the pod. `Sound` says, in terms of the
setup and the files alone, what the user has to see to.

| Code | Model |
|---|---|
| `writeAsPlainText`, `Get`, `parseRecord` | `Record`, `Lines`, `Readable`, `Expected` |
| `BuildObjectName`, `CheckSumFile` | the same names |
| prefixes of `HashDir` and `compareHashes` | `Walked`, `Stripped`, `Delivered` |
| `ParseMonitoringOpts`, flags and defaults | the same name, `OptionPaths`; `Given` |
| `newHasherInstance` | the same name |
| `InitKubeData` | `HasTarget`, `targetName`, `Starts` |
| one check | `Verdict` |

### Faults

Definitions marked `Fault` are no part of the program. Each is a
neighbouring definition with a plausible mistake (a missing `continue`, a lost
guard, a close too early) and exists to show that some property notices.

## 3. What TLC checks

| Run | Question | Instance |
|---|---|---|
| `check_calm` | Is every verdict justified when nothing excuses it? | 3 files in 2 disjoint directories, 2 workers, one change of a file, MinIO may fail |
| `check_noisy` | Does every verdict that the files do not justify have its excuse, and what is left behind? | 2 files, one of them unreadable and the other in both directories, of which one cannot be listed; 2 workers, 2 pids, MinIO may fail, a shutdown |
| `check_live` | Does the check return, and who is left behind? | 2 files, 1 worker, a process change and a shutdown |
| `ctl_sync` | Does the status tell the truth, and is everything done at rest? | 2 resources with an object each, 3 versions of the data, one that does not decode; 4 writes, one failure, one crash |
| `ctl_live` | Is everything done in the end, uploads failing too, and does the status tell the truth then? | 1 resource, 4 writes, 2 failures, 1 crash; the secret may come late |
| `monitor` | Is a pod restarted only for a cause and after all senders were called, do differences end, does the loop go on, and does the program end when told to? | 2 processes, of which one has files that cannot be read and files under two directories; Splunk, which may hang, with or without its token, and syslog; failures, disturbances and signals without bound |
| `tool` | Is the written snapshot true and complete, whose is a file that is there, and does the tool end? | 3 files, one of them unreadable, in 2 directories that share one; the second may not be listed, or not exist; 2 workers, timeouts, failures of every call on the output; 3 calls over 3 images, killed or not |
| `hashing` | Is each digest that of what was asked for, and does every call return? | 2 workers, 1 file, blocks of 2 bytes, messages of 0, 1 and 3 bytes, one change of the file |
| `end` | Do the programs understand each other, and does a change raise an alarm, and nothing else? | 2 tags of an image with 2 builds each, 2 setups in motion, 31 setups and 6 odd file names compared; one build, one change, one failed restart |
| `shutdown_panic` | violation, see 6 | 2 files, 2 workers |
| `ctl_rollback` | violation | 1 resource, 4 writes |
| `end_port` | violation | 2 tags of an image in a registry with a port |

*The properties.* `MismatchJustified`, `NewJustified`, `DeletedJustified`,
`PassMeansMatched` and `PassMeansNoExtra` judge the five verdicts by what the
files held during the check, each with the excuses that section 6 shows to be needed and no
other; `VerdictSpec` is the refinement, which `check_calm` checks where no excuse applies
and `check_noisy` where all of them do. `PanicOnlyOnShutdown` says that on every other way
out the comparer has stopped sending before `errC` is closed.
`PassLeavesNothing` and `StrandedOnlyOnFullChannel` bound what a check leaves
behind: nothing after a success, and otherwise only workers blocked on the full
channel of a comparer that left at the first difference, a leak of up to
`count-workers` goroutines for every failed check. `StatusTruthful`,
`QuiescentMeansSynced`, `DeleteRemovesObject` and `EventuallySynced` are the
promises of the controller. `RestartIsAnnounced` says that a pod is deleted only after every
configured sender was called, whichever returned an error, and only for one of the causes that
`IntegrityVerdict` names, not all of which are differences.
`DifferencesEnd`, `ChecksGoOn` and `ShutdownEnds` say that the loop does its work,
though checks, senders and `RestartPod` fail, and name what can stop it. For all
three that is a sender that never answers (splunk's client has no timeout): while one hangs, the
health file still says healthy and the heartbeat still beats. For the first two it is also a
program that is stopped again and again, and for `DifferencesEnd` a `RestartPod`, or a check of this
very process, that fails again and again, checks that are disturbed again and again, and a process
with a file that cannot be read: if that file is the new one it is missed for ever. TLC
finds a counterexample when any one of these exceptions is taken away. `LinesTrue`,
`CompleteUnlessCutShort` and `FileOnlyOnSuccess` judge the
file that is there after a call: every line is true of the image it was made of; a file may have two
lines only if two directories share it, and
none only if it is `Unseen` or one of the `mishaps` befell the call. After a success the file is of
the image given; after an error there is none, but for one that could not be removed and one that
an earlier call left and this one could not create anew. That one is whole, and older than the
image. `DigestTrue` says that nothing
of an earlier file, of another worker or of the rest of a buffer enters a digest.

`SetupUnderstood` is an equivalence: the untouched files of an image pass, and their
absence does not, exactly when the setup is `Sound`, for every combination of a
setup and a tree of files in the instance; so it also says that each condition of `Sound` is
needed. Understanding includes that each image finds the object of that image and of no
other, and that the directories read are those that are meant. `AlarmJustified` and `PassJustified` follow builds, publications
and roll-outs in any order: with a sound setup an alarm over untouched files
means that the image was built again under its name, and a check that passes has seen
the files of the build in the bucket. `EventuallyClean` says that a pod does not go
on being restarted once its snapshot is there and stays.

*Bounds.* `MaxTouch`, `MaxProc`, `MaxWrite`, `MaxFail`, `MaxCrash`,
`MaxChange`, `MaxBuild` and `MaxTamper` bound the environment, and `MaxCall` how often the
tool is called; nothing bounds the program, and in `Monitor` nothing is bounded at all. Two workers and three files are enough for
a worker to be blocked, another to be hashing and a third file to be still with the
walker; a channel of capacity two is full with two digests, and the tool gets three
files in one directory so that a third one waits; three calls are a success, one that is killed or
fails, and the next. Two directories are needed for a
listing to be lost as a whole; one change of a file is what tells the moments of
listing, hashing and comparing apart. In the controller four writes are a creation, two
edits and a deletion, or the life of two resources; one resource never touches the
object of the other, and the two meet only in the queue. In `hashing` the message of three bytes
is a block and a part of one, and comes after or before a shorter one; a file that grows for as long
as it is read is left out. In `end` two tags
are what can be taken for each other, two builds what can be stale. `ctl_live` leaves
out the second resource and `check_live` the second worker, which keeps the graphs small
enough for the liveness check; `check_live` also leaves out listing errors, which only
shorten a walk.

*Symmetry* of the workers is used in `check_calm` and `check_noisy`: they all run the
same code, and no property names one. The liveness runs use none.

*Deadlock* is not checked: a check really ends, and a cluster whose users stop
writing comes to rest.

*Fairness.* In `IntegrityCheck` each goroutine is weakly fair: the Go scheduler runs
every goroutine that can run. The one step that waits for somebody else, sending an
alert and restarting the pod, is taken to end. Files, processes and the shutdown are not
fair. In `SnapshotController` the start of the manager (the pod is restarted), the
worker of the queue and the delivery of watch events are weakly fair; taking a resource
from the queue is strongly fair, because the work queue is first-in first-out and the
worker is busy in between; the resync of the informer (ten hours by default) recurs;
users, failures and crashes are not fair, and their number is bounded, so "in the end"
means after the last failure. `EventuallySynced` excepts a controller whose first look
for the MinIO secret failed: it never looks again. In `Monitor` the goroutines are
weakly fair as above, the ticker ticks, and Kubernetes terminates, kills and starts
containers; a sender that hangs hangs for ever; failures, disturbances, the probe and signals are
free, and may come every time. In `SnapshotTool` the goroutines are weakly fair; a timeout and a kill
need not happen, and nobody need call the tool again. In `Hashing` a call that was begun
goes on. In `EndToEnd` the controller, the check and the restart are weakly fair, as
`EventuallySynced`, `ChecksGoOn` and `DifferencesEnd` show of the detailed modules;
users are not.

## 4. What is proved

Every theorem is for any number of files, contents, directories, workers, processes,
resources and objects, any bounds on what the environment does, and, unless its
hypotheses say otherwise, with every kind of failure its module has. Besides the
hypotheses named here there are only the `ASSUME`s of the modules, which TLC
evaluates: `PipelineAssumption`, `CheckAssumption` and the like. Every hypothesis is met by a
passing run, and section 6 names what happens without it.

All proofs have one form. An invariant is split into named parts; each part has a lemma
for the initial states and one for each group of actions, and the property follows.

### The pipeline

`HashPipeline_proofs` states once what the check and the tool both need. The lemmas
are about `PipelineNext` alone and are applied to the steps that the consumer leaves alone:

- `PipelineTypeStep`: types, with `Shape`: while the walker is at a directory, `dir` is one
  of `base`, and a worker past the hand-over holds an item and not `NoItem`. Without it
  `base[dir]` and `item[w].file` could be anything.
- `InStepPipeline`: a worker ends only behind the walker or the context, and the channel
  closes only behind the last worker.
- `DigestsPipeline`: a digest in a worker or in the channel is of something its file had.
- `SolePipeline`: a file that was handed over, and that no two directories share, is in at most
  one place: one worker, one place of the channel, or received. `SoleReceive` is the
  consumer's part.
- `FoundPipeline`: a file the walker has passed in a directory that can be listed is in a worker,
  in the channel, received or excused (it was missing at some moment, or cannot be read),
  until the context ends or a process changes.

The last two are the conservation argument: together they say that each file is in
exactly one place. `Gone`, the set of files that need no place any more, is a
parameter, since the comparer and `HashDir` differ in what they do with a digest.

### The check

| Theorem | Says | Given |
|---|---|---|
| `TypeCorrect` | `[]TypeOK`; the digest channel never exceeds its buffer | |
| `PanicImpliesShutdown` | `[]PanicOnlyOnShutdown` | |
| `MismatchIsJustified` | `[]MismatchJustified` | |
| `PassIsTrue` | `[]PassMeansMatched` | |
| `PassIsClean` | `[]PassLeavesNothing` | `Worker # {}` |
| `NewIsJustified` | `[]NewJustified` | |
| `DeletedIsJustified` | `[]DeletedJustified` | |
| `PassIsComplete` | `[]PassMeansNoExtra` | |
| `ImplementsVerdict` | `VerdictSpec`: the refinement | |

All but one hold with whatever fails, for any directories, snapshot and processes: what
disturbs a verdict is named in the property, file by file where it concerns single
files, and is not assumed away.

- `Phases` relates the two ends of `errC`: while the comparer waits to send, the
  caller is still waiting to receive, unless the context of the program is done. The
  caller closes `errC` only after it left the `select`, and without a shutdown it
  leaves because the comparer was heard.
- `Evidence` follows a digest through the program: what a worker is about to send,
  what is in the channel, and what the comparer reports was in the file at
  some moment (`Genuine`, `Mismatching`), and an entry that left the map of
  expected digests was matched (`Matched`).
- `Progress` adds how far the pipeline is: a comparer that reports success has drained a
  closed channel, so every worker and the walker have ended. Without workers the
  closer closes the channel at once, and the walker blocks on its first file: then a check against
  an empty snapshot passes and leaves the walker, until the caller's `cancel`.
- `OneProcess` says that, until the processes change, walker, workers and comparer use the
  one pid there is, so that the prefix stripped is the prefix walked. Losing this is what
  section 6 reports.
- `Once` is `Sole` with the files the comparer has met: an entry cannot be gone from the map
  for a digest that comes later, so "new" is said of files the snapshot does not name.
  It speaks of the files outside `Repeated`, until the processes change.
- `Accounted` is `Found`: when the channel is drained and closed, every monitored file outside
  `Unseen` was met or missing at some moment, so what is left in the map was missing, and
  what is not in it too. A file met twice does not disturb it, and one unreadable file
  leaves it true of the others.
- `ErrorSent` and `Standing` are what the refinement adds: the caller decides once, on an
  error the abstract verdict allows, and restarts once, after an integrity error.

### The controller

| Theorem | Says | Given |
|---|---|---|
| `TypeCorrect` | `[]TypeOK` | |
| `DeletedAfterObject` | `DeleteRemovesObject` | `FALSE \notin Finalizers` |
| `StatusOfOwnObject` | a `Forward` resource shown as uploaded is stored | |
| `StatusIsTruthful` | `[]StatusTruthful` | `\A n : Forward(n)` |
| `NothingLeftBehind` | `[](Orphans = {})`, at rest or not | `FALSE \notin Finalizers`, `KeepObjects` |
| `RestOfOwnObject` | a `Forward` resource is settled when the controller rests | `~ SaveFails` |
| `RestIsSynced` | `[]QuiescentMeansSynced` | `\A n : Forward(n)`, `~ SaveFails`, `FALSE \notin Finalizers` |

`Forward(n)`: the users of `n` do not edit its data back to what they were (`n` is not in
`Rollback`; see `ctl_rollback`), and `OwnObject(n)`: `n` names one object through its life, which no
other resource names. It is asked of each resource by itself: two that share an object, or one
whose data go back, cannot make the status of a third untrue or leave it undone. `KeepObjects`
asks less: each resource keeps its object, which it may share. `Finalizers`: resources are
created with the controller's finalizer. `SaveFails` is an upload that fails, see section 6.

- `Versions`: cache, watch events and the local copy are states a resource really had, in
  the order of their versions, and the last event is the state now; hence an update that passes the
  version check was computed from the current state, with no event outstanding. This is
  the argument for optimistic concurrency, and all else rests on it.
- `Steps`: at the status update the object holds the data that the new status claims; before
  the finalizer goes the object is gone.
- `Finalized`: the finalizer stays until `Reconcile` takes it away.
- `Truth`: while a `Forward` resource is shown as uploaded, everything the controller knows of
  it, cached, on its way or in hand, is its current spec, so neither a retry after a
  conflict nor a restart can store or remove anything else.
- `Kept`: a resource known to be there and not deleted has not left, so no upload
  creates an object that nobody will remove.
- `Pending`: a `Forward` resource that is not settled is in the queue, in a watch event, or in
  hand.

### Tool, hashing, monitor

| Theorem | Says |
|---|---|
| `SnapshotTool_proofs!TypeCorrect` | `[]TypeOK` |
| `FileIsThisCalls` | `[]FileOnlyOnSuccess` |
| `LinesAreTrue` | `[]LinesTrue` |
| `SnapshotIsComplete` | `[]CompleteUnlessCutShort` |
| `Hashing_proofs!TypeCorrect` | `[]TypeOK` |
| `DigestIsTrue` | `[]DigestTrue` |
| `Monitor_proofs!TypeCorrect` | `[]TypeOK` |
| `RestartAnnounced` | `RestartIsAnnounced` |

None of them has a hypothesis: timeouts, unreadable files, directories that overlap or cannot
be listed, failures of every call on the output, and any number of kills and later calls over
any images are allowed in all four of
the tool. `FileInv` says what holds before the end
of a call: between its creation and the return the file is there, was made of the image given,
and no error was noted; `ReturnKeeps` says what the deferred function can leave of it, a
beginning of what was written. `True` and `Single` are `DigestsIn` and `Sole` carried on through the list that
`HashDir` collects and into the file, `Single` for the files outside `Repeated`, and into later calls:
`True` speaks of `shot` where the file is concerned and of `fs` before that. `Accounted` is
`Found` for those outside `Unseen`, up to a scan that is cut short, and of the finished file until it is
created anew.

In `Hashing`, `Absorbed` says that the state of a hash object is exactly the part of the
message already written, and `Telling` that what was read is a beginning of the one
content the file had, for every block size and every way of reading in portions. In
`Monitor`, `Told` says what is known once a check ended in an alert: it has a `Cause`, the senders
called are the first `told` of those registered, and those are the ones configured.

### The programs together

| Theorem | Says |
|---|---|
| `EndToEnd_proofs!TypeCorrect` | `Spec => []TypeOK` |
| `AlarmsAreJustified` | `Spec /\ []SetupUnderstood => AlarmJustified` |
| `PassesAreJustified` | `Spec /\ []SetupUnderstood => PassJustified` |
| `SnapshotIsOwn` | `Spec => []OwnSnapshot`, if images are `RepositoryAndTag` and each setup stores where it loads |

`Filed` says that what lies under a name of the bucket was read from an image with that
name. What the strings come to is `SetupUnderstood`, which TLC evaluates for the setups
and trees of `end`; the theorems add that setups for which it is true keep their
promise for any number of images, builds, changes and failed restarts, in any order, as long as
scans are complete and checks undisturbed (section 2). For
images in a registry with a port `SetupUnderstood` is false, as `end_port` shows.

`SnapshotIsOwn` does without `SetupUnderstood`. An image is `RepositoryAndTag` when it has one
colon and no slash behind it, which every image with a tag is unless its registry has a port.
`SplitOnce` says what `Split` makes of a string with one mark; `ImageParts` that such an image
is its repository, the colon and its tag; `PathParts` that of two paths with a common
beginning and ending the last parts are equal if they have no slash, and then the rest is too;
hence two images of one object are one image (`ObjectsApart`), for names of any length. Its other
hypothesis, that controller and monitor build the same name for an image
(`StoredAt(s, i) = LoadedFrom(s, i)`), is a part of `Sound`: namespace, algorithm and bucket agree.
The two setups in motion in `end` meet it; those of `end_port` do not have such images.

## 5. What is only model-checked, and what is not modelled

- Liveness is beyond the prover and stays with TLC: `CheckReturns`, `WalkerEnds`,
  `StrandedOnlyOnFullChannel`, `EventuallySynced`, `DifferencesEnd`, `ChecksGoOn`,
  `ShutdownEnds`, `ToolEnds`, `CallsEnd`, `EventuallyClean`.
- `SetupUnderstood`: what `Clean`, `parseRecord`, `Lines` and `ParseMonitoringOpts` make of texts
  with any number of lines, slashes and options is an induction over their length, which no
  installed prover does. Its part about the names of images, split at one place, is proved
  (`SnapshotIsOwn`).
- The excuses named in the properties, and the hypotheses that are left, cannot be dropped
  (section 6).

Not modelled: what is read of the deployment besides its name (it goes into messages
only), the text of alerts, `CreateBucketIfNotExists`, `ListBuckets` and
`GetDBConnString` (called by nobody), leader election and the manager's library, generated
code, logging. The mapping `--process-image` is taken to name the image that runs: a
process without an entry is never checked, with an error in the log at each tick.

## 6. Where the code disagrees with what is said of it

Each is a run that TLC ends with a counterexample, and an entry of `findings`.

- `shutdown_panic`: `main.go` announces a graceful shutdown, but a comparer that has an
  error to report when the context ends sends on an `errC` that
  `CheckIntegrity` has closed. The panic skips the deferred removal of the health file.
- `ctl_rollback`: data edited and edited back while the first edit is being uploaded
  leave the edit in the bucket; the status update meets a conflict, and the retry finds
  the status as it was before, equal to the data.
- `end_port`: object names are made of the parts of an image between its colons. With a
  registry port the second part is the port and the path, and the tag is lost, so all tags of
  an image share one object; an image without a tag panics the controller.

Others were seen and have no run of their own:

- A scan that exceeds `scan-dir-timeout` ends early and without an error; the snapshot
  is written without the remaining files, which the monitor will report as new. A
  tool that is killed leaves a partial file that looks like a snapshot.
- The tool ignores the errors of `file.Close` and `os.Remove`: a failed call may leave its partial
  file, and a successful one a file without its last lines. When `os.Create` fails, the file of an
  earlier call stays, and says nothing of the image just scanned; `main` logs the
  error and exits with 0 (`mishaps` and `shot` in `SnapshotTool`).
- A pod is restarted, with an alert, though its files are untouched, when a monitored file cannot be
  read or listed or is under two directories, and when a process of the name comes or goes
  during the check (`Cause` in `Monitor`); the first two last, so it is restarted at
  every check.
- Workers that see the context done end early and the digest
  channel closes; the comparer, which looks at the context only when it receives
  something, reports the rest as deleted, and the pod is restarted during a shutdown
  (the shutdown is an excuse of `DeletedJustified`).
- A failed upload returns no error. Usually the status changes and its own watch event
  brings the resource back; when the status was already "not uploaded" nothing changes,
  and nothing happens until the next resync (`QuiescentMeansSynced` fails once
  `SaveFails` is set).
- An overlong line ends the reading of a snapshot without an error; names with two blanks,
  a blank at either end, or a line feed are read back as others.
- A `--root-fs` that is not clean (`./fs`, `fs/`) stays in the names of the files; the
  default `./` does not. An unknown algorithm silently becomes SHA-256. The
  monitor has a flag for the bucket, the controller has not. `--count-workers=0` reports
  every file as deleted. A process given twice in the options keeps the last paths.
- A comparer that sees the context done returns and closes `doneC`; a caller whose
  `select` is reached late may read that as success and log "hashes compared
  successfully" (the shutdown is the one excuse of `PassMeansMatched`).
- The walk uses the pid found before, the comparer looks it up again; if the process
  restarted in between, no prefix is stripped and an expected file is
  reported as new (`Churned` is an excuse of `NewJustified`; it takes two process changes).
- `minIOStorage` looks for the secret once in the life of the process.
- A signal before `graceful.Execute`, `log.Fatalf` and the panic above end the program
  without removing the health file.
- A file that cannot be read is skipped by its worker, and a directory that cannot be
  listed ends the walk of its monitored directory. Either way existing files are
  reported as deleted, and new files are missed (`Unseen` in the properties). Other files
  are not affected, as is proved.
- A file below two monitored directories is delivered twice; the first digest
  takes its entry out of the map, the second is a new file (`Repeated`).
- The control hash covers the data only: an edit of image or algorithm uploads
  nothing, and the object of the old name is orphaned.
- A resource created without the controller's finalizer leaves its object behind: nothing in
  the controller adds the finalizer.
- The error of a status update after a failed upload is dropped, so that a
  resource may show as uploaded though its last upload failed.

## 7. What is left

The models and their runs are done, and so are the types of all modules, every safety
property of the passing runs but `SetupUnderstood`, and the refinement of
`IntegrityVerdict`, which holds with every failure. What a prover could still add:

1. That the verdicts of `Monitor`, and of `EndToEnd` for undisturbed checks, are instances of
   `IntegrityVerdict`, now only argued in their comments.
2. That a setup which is `Sound` stores where it loads: for namespaces and images without empty
   parts `Clean` changes nothing, an induction over the parts of a path.
3. `AlarmJustified` for single files, with the excuses of `IntegrityVerdict` carried over to the
   three programs.
