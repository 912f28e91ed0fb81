------------------------------ MODULE EndToEnd ------------------------------
(***************************************************************************)
(* The three programs together: the snapshot tool reads an image, a user   *)
(* puts its output into a Snapshot resource, the controller copies that to *)
(* the bucket, and the monitor beside a running container loads it and     *)
(* compares.  They share nothing but names and texts, see Names, and       *)
(* images are built, tagged again, rolled out and withdrawn meanwhile.     *)
(*                                                                         *)
(* Each program is one step here, taken at its word: the tool writes what  *)
(* LinesTrue and CompleteUnlessCutShort of SnapshotTool promise, the       *)
(* controller does in the end what EventuallySynced of SnapshotController  *)
(* promises, and a check gives a verdict as IntegrityVerdict promises, for *)
(* files that stay as they are while it runs.  Scans are complete and      *)
(* checks undisturbed: the timeout of a scan and the mishaps of the output *)
(* are left out, and so are the excuses of IntegrityVerdict, files that    *)
(* cannot be listed or read, processes that come or go during a check, a   *)
(* shutdown.  Monitor has those, and what each leads to.                   *)
(*                                                                         *)
(* A definition marked "Fault" is no part of the program: it is what the   *)
(* definition after it would be with a plausible mistake, and shows that a *)
(* property notices that mistake.                                          *)
(***************************************************************************)
EXTENDS Names

CONSTANTS
    Image,      \* names of images, as users write them
    Version,    \* builds of an image under one name
    Tree,       \* the files of each build: paths to contents
    OddTrees,   \* more trees of files, to be read and compared only
    Setups,     \* how the programs are built and called
    OddSetups,  \* more of them, to be read and compared only
    Process,    \* the monitored process
    None,       \* no resource, no object
    MaxBuild,   \* bound: images built again under their name
    MaxTamper,  \* bound: changes of files in the running container
    MaxFail     \* bound: failed restarts

ASSUME EndToEndAssumption ==
    /\ None \notin Version
    /\ \E first \in Version : \A v \in Version : first <= v
    /\ DOMAIN Tree = Image \X Version
    /\ \A b \in DOMAIN Tree : Tree[b] \in [DOMAIN Tree[b] -> Range(Tree[b])]
    /\ {MaxBuild, MaxTamper, MaxFail} \subseteq Nat

VARIABLES
    setup,     \* never changes
    built,     \* the latest build of each image
    resource,  \* the build whose snapshot the resource of an image holds
    pending,   \* images whose resource the controller has not synced yet
    bucket,    \* the snapshot stored under each name
    pod,       \* the build that the monitored container runs
    files,     \* its files
    verdict,   \* the last check of it
    builds, tampers, fails

users == <<built, resource, pending>>
bounds == <<builds, tampers, fails>>
vars == <<setup, built, resource, pending, bucket, pod, files, verdict, builds,
          tampers, fails>>

-----------------------------------------------------------------------------
(* What the programs make of their setup.                                  *)

\* flags that are not given have a default
Given(flag, default) == IF flag = None THEN default ELSE flag
Alg(s) == Given(s.alg, DefaultAlgorithm)
MonAlg(s) == Given(s.monAlg, DefaultAlgorithm)
Bucket(s) == Given(s.monBucket, DefaultBucketName)

\* digests, taken to be free of collisions
Hashed(alg, delivered) ==
    {[path |-> r.path, hash |-> <<alg, r.content>>] : r \in delivered}

SnapshotText(s, tree) ==
    writeAsPlainText(SetToSeq(
        Hashed(newHasherInstance(Alg(s), s.tags), Delivered(s.root, s.dirs, tree))))

\* bucket and object: the controller knows a single bucket, the monitor has a
\* flag for it
StoredAt(s, image) == <<DefaultBucketName, BuildObjectName(s.ns, image, Alg(s))>>
LoadedFrom(s, image) == <<Bucket(s), CheckSumFile(s.monNs, image, MonAlg(s))>>

\* the monitor finds its deployment
Starts(s) == HasTarget(s.podName) /\ targetName(s.podName) = s.deployment

OptionsRead(s) ==
    ParseOK(s.opts) /\ Process \in DOMAIN ParseMonitoringOpts(s.opts)

DirsRead(s) == ParseMonitoringOpts(s.opts)[Process]

\* a pool without workers closes its channel at once
Found(s, fs) ==
    IF s.workers = 0 THEN {}
    ELSE Hashed(newHasherInstance(MonAlg(s), s.monTags),
                Delivered(GetProcessPath, Range(DirsRead(s)), fs))

Listed(text) ==
    LET map == Expected(text) IN {[path |-> p, hash |-> map[p]] : p \in DOMAIN map}

\* Fault: what the snapshot has and the container has not is not looked at.
SameButDeleted(found, listed) == found \subseteq listed
\* every digest has its entry, and no entry is left: a digest takes its entry
\* away, so that the second one of a file finds none
Same(found, listed) == found = listed

\* CheckIntegrity on the files fs, with the given snapshot
Verdict(s, fs, text) ==
    IF ~ Starts(s) \/ ~ OptionsRead(s) \/ ~ Readable(text) THEN "error"
    ELSE IF Same(Found(s, fs), Listed(text)) /\ ~ Overlap(DirsRead(s), fs)
    THEN "pass" ELSE "alarm"

Paths == UNION {DOMAIN Tree[b] : b \in DOMAIN Tree}
Contents == {"other"} \cup UNION {{Tree[b][p] : p \in DOMAIN Tree[b]} : b \in DOMAIN Tree}
FileTrees == UNION {[ps -> Contents] : ps \in SUBSET Paths}

Tagged == {i \in Image : HasTag(i)}

\* what was said so far, as tables
Verdicts ==
    {<<s, b, fs, Verdict(s, fs, SnapshotText(s, Tree[b]))>> :
        s \in Setups, b \in DOMAIN Tree, fs \in FileTrees}
Written == {<<s, i, StoredAt(s, i)>> : s \in Setups, i \in Tagged}
Wanted == {<<s, i, LoadedFrom(s, i)>> : s \in Setups, i \in Tagged}

\* the build whose snapshot the monitor of the pod loads
Loaded ==
    LET held == {bucket[n] : n \in {m \in DOMAIN bucket : <<setup, pod[1], m>> \in Wanted}}
    IN  IF held = {} THEN None ELSE CHOOSE b \in held : TRUE

-----------------------------------------------------------------------------
Init ==
    /\ setup \in Setups
    /\ built \in [Image -> {Min(Version)}]
    /\ resource = [i \in Image |-> None]
    /\ pending = {}
    /\ bucket = [n \in {StoredAt(setup, i) : i \in Tagged} |-> None]
    /\ pod \in {<<i, built[i]>> : i \in Image}
    /\ files = Tree[pod]
    /\ verdict = "none"
    /\ builds = 0 /\ tampers = 0 /\ fails = 0

\* an image is built again under the name it had
Build(i) ==
    /\ builds < MaxBuild
    /\ builds' = builds + 1
    /\ \E v \in Version \ {built[i]} : built' = [built EXCEPT ![i] = v]
    /\ UNCHANGED <<setup, resource, pending, bucket, pod, files, verdict,
                   tampers, fails>>

\* make export-fs snapshot helm-snapshot
Publish(i) ==
    /\ resource[i] # built[i]
    /\ resource' = [resource EXCEPT ![i] = built[i]]
    /\ pending' = pending \cup {i}
    /\ UNCHANGED <<setup, built, bucket, pod, files, verdict, bounds>>

Withdraw(i) ==
    /\ resource[i] # None
    /\ resource' = [resource EXCEPT ![i] = None]
    /\ pending' = pending \cup {i}
    /\ UNCHANGED <<setup, built, bucket, pod, files, verdict, bounds>>

\* Fault: an empty snapshot is stored in the place of a withdrawn one.
StoredAnyway(i) == <<i, resource[i]>>
Stored(i) == IF resource[i] = None THEN None ELSE <<i, resource[i]>>

\* the controller; without a tag it panics instead
Sync(i) ==
    /\ i \in pending
    /\ \E n \in DOMAIN bucket :
          /\ <<setup, i, n>> \in Written
          /\ bucket' = [bucket EXCEPT ![n] = Stored(i)]
    /\ pending' = pending \ {i}
    /\ UNCHANGED <<setup, built, resource, pod, files, verdict, bounds>>

\* the container is started from the latest build of an image
Roll(i) ==
    /\ pod # <<i, built[i]>>
    /\ pod' = <<i, built[i]>>
    /\ files' = Tree[pod']
    /\ verdict' = "none"
    /\ UNCHANGED <<setup, users, bucket, bounds>>

\* a file of the running container is changed, deleted or added
Tamper(path) ==
    /\ tampers < MaxTamper
    /\ tampers' = tampers + 1
    /\ \/ files' = [p \in DOMAIN files \cup {path} |->
                        IF p = path THEN "other" ELSE files[p]]
       \/ files' = [p \in DOMAIN files \ {path} |-> files[p]]
    /\ UNCHANGED <<setup, users, bucket, pod, verdict, builds, fails>>

\* Fault: what passed once is not checked again.
OnlyUnchecked == verdict = "none"
\* the loop goes on whatever a check found, once RestartPod has returned
CheckDue == verdict # "alarm"

Check ==
    /\ CheckDue
    /\ verdict' \in {"pass", "alarm", "error"}
    /\ IF Loaded = None THEN verdict' = "error"
       ELSE <<setup, Loaded, files, verdict'>> \in Verdicts
    /\ UNCHANGED <<setup, users, bucket, pod, files, bounds>>

\* RestartPod deletes the pod, and its replacement may find a later build
\* under the name of the image; when the call fails the loop goes on
Restart ==
    /\ verdict = "alarm"
    /\ verdict' = "none"
    /\ \/ /\ pod' \in {pod, <<pod[1], built[pod[1]]>>}
          /\ files' = Tree[pod']
          /\ UNCHANGED fails
       \/ /\ fails < MaxFail
          /\ fails' = fails + 1
          /\ UNCHANGED <<pod, files>>
    /\ UNCHANGED <<setup, users, bucket, builds, tampers>>

Next ==
    \/ \E i \in Image : Build(i) \/ Publish(i) \/ Withdraw(i) \/ Sync(i) \/ Roll(i)
    \/ \E p \in Paths : Tamper(p)
    \/ Check
    \/ Restart

\* the controller and the monitor go on; users and files are free
Spec ==
    /\ Init /\ [][Next]_vars
    /\ \A i \in Image : WF_vars(Sync(i))
    /\ WF_vars(Check)
    /\ WF_vars(Restart)

-----------------------------------------------------------------------------
(* Properties.                                                             *)

\* Every variable keeps its type.
TypeOK ==
    /\ setup \in Setups
    /\ built \in [Image -> Version]
    /\ resource \in [Image -> Version \cup {None}]
    /\ pending \subseteq Image
    /\ \A n \in DOMAIN bucket : bucket[n] \in (Image \X Version) \cup {None}
    /\ pod \in Image \X Version
    /\ files \in FileTrees
    /\ verdict \in {"none", "pass", "alarm", "error"}

\* a name that a line of a snapshot can carry
Plain(path) ==
    /\ TrimSpace(path) = path
    /\ \A bad \in {TwoBlanks, <<"nl">>, <<"long">>} : Places(path, bad) = {}

\* each process once, each option a single pair, one blank between them
Clear(opts) ==
    LET ps == Split(opts, "sp")
        fields(i) == Split(ps[i], "=")
    IN  /\ \A i \in DOMAIN ps : Len(fields(i)) = 2
        /\ \A i, j \in DOMAIN ps : fields(i)[1] = fields(j)[1] => i = j

\* a root that filepath.Join gives back as it is, or the working directory
CleanRoot(root) ==
    \/ Clean(root) = root
    \/ Clean(root) = <<>> /\ Head(root) = "."

\* the names a file is found by: a file that is given itself keeps its spelling
Spelled(dirs, rel) ==
    {IF Relative(d) = rel THEN d ELSE rel : d \in {x \in dirs : Below(x, rel)}}

Words(name) == Range(name) \ {"-"}

\* What the user has to see to for the programs to understand each other.
Sound(s, tree) ==
    /\ CleanRoot(s.root)
    /\ \A p \in DOMAIN tree : Spelled(s.dirs, p) = Spelled(Range(s.meant), p)
    /\ ~ Overlap(s.meant, tree)
    /\ Clear(s.opts)
    /\ s.workers > 0
    /\ \E hash, suffix \in Words(s.podName) :
          s.podName = s.deployment \o <<"-", hash, "-", suffix>>
    /\ s.ns = s.monNs /\ Bucket(s) = DefaultBucketName
    /\ ToLower(Alg(s)) = ToLower(MonAlg(s))
    /\ ToLower(Alg(s)) = "bee2" => ("bee2" \in s.tags <=> "bee2" \in s.monTags)
    /\ \A p \in DOMAIN tree : (\E d \in s.dirs : Below(d, p)) => Plain(p)

NoFiles == [path \in {} |-> "other"]

Agree(s, tree) ==
    /\ Verdict(s, tree, SnapshotText(s, tree)) = "pass"
    /\ (\E p \in DOMAIN tree, d \in Range(s.meant) : Below(d, p))
       => Verdict(s, NoFiles, SnapshotText(s, tree)) = "alarm"
    /\ \A i, j \in Tagged : StoredAt(s, i) = LoadedFrom(s, j) <=> i = j
    /\ Range(DirsRead(s)) = Range(s.meant)

SoundBuilds == {sb \in Setups \X DOMAIN Tree : Sound(sb[1], Tree[sb[2]])}

\* the setups that do, on some files, not what Sound says of them
Misunderstood ==
    {s \in Setups \cup OddSetups :
        \E tree \in OddTrees \cup {Tree[b] : b \in DOMAIN Tree} :
            Agree(s, tree) # Sound(s, tree)}

\* The untouched files of an image agree with its snapshot, and missing ones do
\* not, exactly when the setup is sound: what tool and controller write under
\* which name is what the monitor reads back, however directories, algorithm
\* and options are spelled, the name of no other image is taken for it, and
\* the directories that are meant are the ones that are read.
SetupUnderstood == Misunderstood \cap (OddSetups \cup {setup}) = {}

\* "Returns: namespace/imageName/imageTag.alg": the object the monitor finds
\* under the name of an image was stored for that image.
OwnSnapshot == Loaded # None => Loaded[1] = pod[1]

Untouched == files = Tree[pod]
Raised == verdict # "alarm" /\ verdict' = "alarm"

\* With a sound setup, files that nobody touched raise an alarm only when the
\* image was built again under its name, and never because of another image,
\* whatever is published, withdrawn and rolled out in between.  That is for
\* complete scans and undisturbed checks: a snapshot cut short, an unreadable
\* file or a process that restarts raises an alarm over untouched files too, see
\* RestartIsAnnounced of Monitor.
AlarmJustified ==
    [][Raised /\ {<<setup, pod>>, <<setup, Loaded>>} \subseteq SoundBuilds /\ Untouched
       => Loaded[1] = pod[1] /\ Loaded[2] # pod[2]]_vars

Watched(fs) == Delivered(GetProcessPath, Range(setup.meant), fs)

\* A check that passes has seen the files of some build of the image, the one
\* the bucket holds: no change of a monitored file goes unnoticed by it.  That
\* is for undisturbed checks and files that can be read: a new file that cannot
\* is missed, see Unseen in IntegrityVerdict.
PassJustified ==
    [][verdict # "pass" /\ verdict' = "pass" /\ <<setup, Loaded>> \in SoundBuilds
       => Loaded[1] = pod[1] /\ Watched(files) = Watched(Tree[Loaded])]_vars

Fresh == Loaded = pod /\ <<setup, pod>> \in SoundBuilds

\* Unless users start other builds, or withdraw or replace the snapshot of
\* the one that runs, for ever, the pod ends up with the files of its image and
\* with checks that pass: changes are found and undone, failed restarts are
\* made up for, and no restart follows another for ever.  That is for complete
\* scans and undisturbed checks: the pod of an image with a monitored file that
\* cannot be read is restarted at every check.
EventuallyClean ==
    \/ []<><<TRUE>>_pod
    \/ []<>(~ Fresh)
    \/ <>[](Watched(files) = Watched(Tree[pod]) /\ verdict = "pass")
=============================================================================
