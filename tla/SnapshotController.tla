------------------------- MODULE SnapshotController -------------------------
(***************************************************************************)
(* The Kubernetes controller that copies Snapshot resources to MinIO       *)
(* (snapshot-controller/controllers/snapshot_controller.go): Reconcile,    *)
(* one action per call it makes, with what surrounds it.  The API server   *)
(* (resource versions, conflicts, finalizers), the informer cache that     *)
(* lags behind it, the work queue, the MinIO bucket and the users who      *)
(* write resources are modelled as far as Reconcile can tell.              *)
(*                                                                         *)
(* The object a resource is stored under depends on its image and          *)
(* algorithm, so the specification of a resource is the object it names    *)
(* and the data to store there.  The control hash is the MD5 of the data   *)
(* alone, taken to be free of collisions: the data stand for their hash.   *)
(*                                                                         *)
(* A definition marked "Fault" is no part of the program: it is what the   *)
(* definition after it would be with a plausible mistake, and shows that a *)
(* property notices that mistake.                                          *)
(***************************************************************************)
EXTENDS Naturals, Sequences, FiniteSets

CONSTANTS
    Name,        \* Snapshot resources
    Object,      \* names of objects in the bucket, see BuildObjectName
    Data,        \* versions of the data of a snapshot, numbered
    BadData,     \* data that base64 decoding refuses
    None,        \* no resource, no object, no hash
    Specs,       \* what users write for each resource: sets of [obj, data]
    Finalizers,  \* whether users put the controller's finalizer on it
    Rollback,    \* resources whose users may also return to earlier data
    SaveFails,   \* TRUE when uploading to MinIO may fail
    SecretLate,  \* TRUE when the MinIO secret may be created too late
    MaxWrite,    \* bound: writes by users
    MaxFail,     \* bound: failed calls to the API server and to MinIO
    MaxCrash     \* bound: crashes of the controller

ASSUME ControllerAssumption ==
    /\ Data \subseteq Nat
    /\ BadData \subseteq Data
    /\ None \notin Data
    /\ Specs \in [Name -> SUBSET [obj : Object, data : Data]]
    /\ Finalizers \subseteq BOOLEAN
    /\ Rollback \subseteq Name
    /\ {SaveFails, SecretLate} \subseteq BOOLEAN
    /\ {MaxWrite, MaxFail, MaxCrash} \subseteq Nat

VARIABLES
    api,     \* the resources as the API server holds them
    lastRv,  \* the last resource version it gave out
    watch,   \* changes of each resource the informer has not seen yet
    cache,   \* the resources as the informer holds them
    queue,   \* the resources to reconcile
    pc,      \* where Reconcile stands, or "down"
    cur,     \* the resource it works on
    got,     \* what it has read of it, changed as the code changes it
    minio,   \* minioOnce and minioInitialized
    secret,  \* the secret with the MinIO credentials exists
    store,   \* the objects in the bucket
    writes, fails, crashes

apiVars == <<api, lastRv, watch>>
ctlVars == <<pc, cur, got>>
bounds == <<writes, fails, crashes>>
vars == <<api, lastRv, watch, cache, queue, pc, cur, got, minio, secret, store,
          writes, fails, crashes>>

AllSpecs == UNION {Specs[n] : n \in Name}
Resource == [rv : Nat, spec : AllSpecs, up : BOOLEAN, hash : Data \cup {None},
             deleting : BOOLEAN, fin : BOOLEAN]

ASSUME NoneAssumption == None \notin Resource

Init ==
    /\ api = [n \in Name |-> None]
    /\ lastRv = 0
    /\ watch = [n \in Name |-> <<>>]
    /\ cache = [n \in Name |-> None]
    /\ queue = {}
    /\ pc = "down"
    /\ cur = None
    /\ got = None
    /\ minio = "new"
    /\ secret \in {TRUE, ~ SecretLate}
    /\ store = [o \in Object |-> None]
    /\ writes = 0 /\ fails = 0 /\ crashes = 0

-----------------------------------------------------------------------------
(* The API server.                                                         *)

\* a controller that is not running misses what changes
Notify(n, r) ==
    watch' = IF pc = "down" THEN watch
                            ELSE [watch EXCEPT ![n] = Append(@, r)]

\* A write that changes nothing gives out no version and notifies nobody.
Put(n, r) ==
    IF r = api[n]
    THEN UNCHANGED apiVars
    ELSE /\ lastRv' = lastRv + 1
         /\ api' = [api EXCEPT ![n] = [r EXCEPT !.rv = lastRv + 1]]
         /\ Notify(n, api'[n])

Erase(n) ==
    /\ lastRv' = lastRv + 1
    /\ api' = [api EXCEPT ![n] = None]
    /\ Notify(n, None)

\* optimistic locking: an update must carry the version it was based on
Current(r) == api[cur] # None /\ api[cur].rv = r.rv

\* r.Status().Update changes the status only
PutStatus(r) == Put(cur, [api[cur] EXCEPT !.up = r.up, !.hash = r.hash])

Write == writes < MaxWrite /\ writes' = writes + 1
UserFrame == UNCHANGED <<cache, queue, ctlVars, minio, secret, store, fails,
                         crashes>>

UserCreate(n) ==
    /\ Write
    /\ api[n] = None
    /\ \E s \in Specs[n], fin \in Finalizers :
          Put(n, [rv |-> 0, spec |-> s, up |-> FALSE, hash |-> None,
                  deleting |-> FALSE, fin |-> fin])
    /\ UserFrame

UserEdit(n) ==
    /\ Write
    /\ api[n] # None
    /\ \E s \in Specs[n] \ {api[n].spec} :
          /\ n \in Rollback \/ s.data >= api[n].spec.data
          /\ Put(n, [api[n] EXCEPT !.spec = s])
    /\ UserFrame

UserDelete(n) ==
    /\ Write
    /\ api[n] # None
    /\ ~ api[n].deleting
    /\ IF api[n].fin THEN Put(n, [api[n] EXCEPT !.deleting = TRUE])
                     ELSE Erase(n)
    /\ UserFrame

SecretCreated ==
    /\ ~ secret
    /\ secret' = TRUE
    /\ UNCHANGED <<apiVars, cache, queue, ctlVars, minio, store, bounds>>

-----------------------------------------------------------------------------
(* The informer and the work queue of the manager.                         *)

WatchDeliver(n) ==
    /\ watch[n] # <<>>
    /\ cache' = [cache EXCEPT ![n] = Head(watch[n])]
    /\ watch' = [watch EXCEPT ![n] = Tail(@)]
    /\ queue' = queue \cup {n}
    /\ UNCHANGED <<api, lastRv, ctlVars, minio, secret, store, bounds>>

\* the periodic resync of the informer, every ten hours
Resync ==
    /\ queue' = queue \cup {n \in Name : cache[n] # None}
    /\ queue' # queue
    /\ UNCHANGED <<apiVars, cache, ctlVars, minio, secret, store, bounds>>

\* A resource is reconciled by one worker at a time.  One that changes during
\* that is queued again.
Dequeue(n) ==
    /\ pc = "idle"
    /\ n \in queue
    /\ queue' = queue \ {n}
    /\ pc' = "minio"
    /\ cur' = n
    /\ UNCHANGED <<apiVars, cache, got, minio, secret, store, bounds>>

\* Reconcile returns: an error puts the resource back into the queue
Return ==
    /\ pc' = "idle"
    /\ cur' = None
    /\ got' = None
Done == Return /\ UNCHANGED queue
\* Fault: the name is used after it was reset.
RequeueNothing == Return /\ queue' = queue \cup {cur'}
Requeue == Return /\ queue' = queue \cup {cur}

-----------------------------------------------------------------------------
(* Reconcile.                                                              *)

\* minIOStorage: whatever the first call finds is kept
OnceOpen == minio = "new"

MinioInit ==
    /\ pc = "minio"
    /\ OnceOpen
    /\ minio' = IF secret THEN "ready" ELSE "failed"
    /\ UNCHANGED <<apiVars, cache, queue, ctlVars, secret, store, bounds>>

MinioMissing ==
    /\ pc = "minio"
    /\ minio = "failed"
    /\ Requeue
    /\ UNCHANGED <<apiVars, cache, minio, secret, store, bounds>>

\* Fault: the control hash is not compared.
DueIfNotUploaded(r) == ~ r.up
\* an upload is due when the data are not those of the status
UploadDue(r) == r.hash # r.spec.data \/ ~ r.up

\* r.Get reads the informer cache
Fetch ==
    /\ pc = "minio"
    /\ minio = "ready"
    /\ LET r == cache[cur] IN
       \/ /\ r = None
          /\ Done
       \/ /\ r # None
          /\ ~ r.deleting
          /\ ~ UploadDue(r)
          /\ Done
       \/ /\ r # None
          /\ r.deleting
          /\ pc' = "remove" /\ got' = r
          /\ UNCHANGED <<queue, cur>>
       \/ /\ r # None
          /\ ~ r.deleting
          /\ UploadDue(r)
          /\ pc' = "save" /\ got' = r
          /\ UNCHANGED <<queue, cur>>
    /\ UNCHANGED <<apiVars, cache, minio, secret, store, bounds>>

\* uploadSnapshot
Save ==
    /\ pc = "save"
    /\ got.spec.data \notin BadData
    /\ store' = [store EXCEPT ![got.spec.obj] = got.spec.data]
    /\ got' = [got EXCEPT !.hash = got.spec.data, !.up = TRUE]
    /\ pc' = "status"
    /\ UNCHANGED <<apiVars, cache, queue, cur, minio, secret, bounds>>

Failure == fails < MaxFail /\ fails' = fails + 1

\* Fault: the status is set before the error is looked at.
MarkedAnyway(r) == [r EXCEPT !.up = TRUE, !.hash = r.spec.data]
NotUploaded(r) == [r EXCEPT !.up = FALSE]

SaveNotDone(applied) ==
    /\ pc = "save"
    /\ store' = IF applied
                THEN [store EXCEPT ![got.spec.obj] = got.spec.data]
                ELSE store
    /\ got' = NotUploaded(got)
    /\ pc' = "failed"
    /\ UNCHANGED <<apiVars, cache, queue, cur, minio, secret, writes, crashes>>

\* the data do not decode
SaveBad ==
    /\ pc = "save"
    /\ got.spec.data \in BadData
    /\ SaveNotDone(FALSE)
    /\ UNCHANGED fails

\* the call fails or times out, and MinIO may have stored the object
SaveFail ==
    /\ SaveFails
    /\ Failure
    /\ \E applied \in BOOLEAN : SaveNotDone(applied)

\* updateStatus after an upload: its error is returned
StatusOk ==
    /\ pc = "status"
    /\ Current(got)
    /\ PutStatus(got)
    /\ Done
    /\ UNCHANGED <<cache, minio, secret, store, bounds>>

StatusConflict ==
    /\ pc = "status"
    /\ ~ Current(got)
    /\ Requeue
    /\ UNCHANGED <<apiVars, cache, minio, secret, store, bounds>>

StatusFail ==
    /\ pc = "status"
    /\ Failure
    /\ Requeue
    /\ UNCHANGED <<apiVars, cache, minio, secret, store, writes, crashes>>

\* updateStatus after a failed upload: no error is returned, whatever happens
FailedStatus ==
    /\ pc = "failed"
    /\ \/ Current(got) /\ PutStatus(got) /\ UNCHANGED fails
       \/ ~ Current(got) /\ UNCHANGED apiVars /\ UNCHANGED fails
       \/ Failure /\ UNCHANGED apiVars
    /\ Done
    /\ UNCHANGED <<cache, minio, secret, store, writes, crashes>>

\* Fault: the object is not removed.
ForgetObject == store
\* removeSnapshot
WithoutObject == [store EXCEPT ![got.spec.obj] = None]

Remove ==
    /\ pc = "remove"
    /\ store' = WithoutObject
    /\ pc' = "finalizer"
    /\ UNCHANGED <<apiVars, cache, queue, cur, got, minio, secret, bounds>>

RemoveFail ==
    /\ pc = "remove"
    /\ Failure
    /\ \E applied \in BOOLEAN :
          store' = IF applied THEN WithoutObject ELSE store
    /\ Requeue
    /\ UNCHANGED <<apiVars, cache, minio, secret, writes, crashes>>

\* controllerutil.RemoveFinalizer and r.Update: the last finalizer of a
\* resource that is being deleted lets it go
DropFinalizer ==
    /\ pc = "finalizer"
    /\ Current(got)
    /\ Erase(cur)
    /\ Done
    /\ UNCHANGED <<cache, minio, secret, store, bounds>>

DropConflict ==
    /\ pc = "finalizer"
    /\ ~ Current(got)
    /\ Requeue
    /\ UNCHANGED <<apiVars, cache, minio, secret, store, bounds>>

DropFail ==
    /\ pc = "finalizer"
    /\ Failure
    /\ Requeue
    /\ UNCHANGED <<apiVars, cache, minio, secret, store, writes, crashes>>

\* The controller's process ends at any point; what it knew is lost, and so
\* are the changes on their way to it.
Crash ==
    /\ pc # "down"
    /\ crashes < MaxCrash
    /\ crashes' = crashes + 1
    /\ pc' = "down"
    /\ cur' = None
    /\ got' = None
    /\ minio' = "new"
    /\ cache' = [n \in Name |-> None]
    /\ watch' = [n \in Name |-> <<>>]
    /\ queue' = {}
    /\ UNCHANGED <<api, lastRv, secret, store, writes, fails>>

\* The manager starts: its informer lists all resources, which puts them
\* into the queue like new ones, then watches.
Start ==
    /\ pc = "down"
    /\ pc' = "idle"
    /\ cache' = api
    /\ queue' = {n \in Name : api[n] # None}
    /\ UNCHANGED <<apiVars, cur, got, minio, secret, store, bounds>>

Reconcile ==
    \/ MinioInit \/ MinioMissing \/ Fetch
    \/ Save \/ SaveBad \/ SaveFail
    \/ StatusOk \/ StatusConflict \/ StatusFail \/ FailedStatus
    \/ Remove \/ RemoveFail
    \/ DropFinalizer \/ DropConflict \/ DropFail

Next ==
    \/ \E n \in Name : UserCreate(n) \/ UserEdit(n) \/ UserDelete(n)
    \/ SecretCreated
    \/ \E n \in Name : WatchDeliver(n) \/ Dequeue(n)
    \/ Resync
    \/ Reconcile
    \/ Crash
    \/ Start

Spec == Init /\ [][Next]_vars

\* The manager delivers every change, reconciles every queued resource and
\* resyncs for ever, its pod is restarted, and the missing secret is created
\* in the end; users, failures and crashes are up to the environment.
Fairness ==
    /\ WF_vars(Start)
    /\ WF_vars(Reconcile)
    /\ \A n \in Name : WF_vars(WatchDeliver(n)) /\ SF_vars(Dequeue(n))
    /\ WF_vars(Resync)
    /\ WF_vars(SecretCreated)

FairSpec == Spec /\ Fairness

-----------------------------------------------------------------------------
(* Properties.                                                             *)

\* Every variable keeps its type.
TypeOK ==
    /\ api \in [Name -> Resource \cup {None}]
    /\ lastRv \in Nat
    /\ watch \in [Name -> Seq(Resource \cup {None})]
    /\ cache \in [Name -> Resource \cup {None}]
    /\ queue \subseteq Name
    /\ pc \in {"down", "idle", "minio", "save", "status", "failed", "remove",
               "finalizer"}
    /\ cur \in Name \cup {None}
    /\ got \in Resource \cup {None}
    /\ minio \in {"new", "ready", "failed"}
    /\ secret \in BOOLEAN
    /\ store \in [Object -> Data \cup {None}]

Live(n) == api[n] # None /\ ~ api[n].deleting
Claimed(r) == r.up /\ r.hash = r.spec.data
Stored(r) == store[r.spec.obj] = r.spec.data

\* What `kubectl get snapshots` shows as uploaded, with the hash of the data
\* the resource has now, is what the bucket holds: the monitor that loads the
\* object compares with the data the user sees.
StatusTruthful == \A n \in Name : Live(n) /\ Claimed(api[n]) => Stored(api[n])

\* Nothing is left for the controller to do until the next resync.
Quiescent ==
    /\ pc = "idle"
    /\ queue = {}
    /\ \A n \in Name : watch[n] = <<>>

Settled(n) ==
    \/ api[n] = None
    \/ Live(n) /\ api[n].spec.data \in BadData /\ ~ Claimed(api[n])
    \/ Live(n) /\ Claimed(api[n]) /\ Stored(api[n])

Orphans == {o \in Object : store[o] # None
                /\ \A n \in Name : api[n] = None \/ api[n].spec.obj # o}

\* "synchronizing resources until the desired state is reached": when the
\* controller has come to rest, each resource is stored and marked so, the
\* deleted ones are gone, and no object is left that no resource names.
QuiescentMeansSynced ==
    Quiescent => Orphans = {} /\ \A n \in Name : Settled(n)

\* "With delete action on CRD the corresponding data from the MinIO server
\* will be deleted as well": a resource leaves the cluster only after its
\* object has left the bucket.
DeleteRemovesObject ==
    [][\A n \in Name : api[n] # None /\ api'[n] = None
           => store[api[n].spec.obj] = None]_vars

\* When users leave the resources alone, everything they asked for is done
\* in the end, whatever failed before; unless the secret was missing when the
\* controller first looked for it: sync.Once keeps that failure until the
\* next restart.
EventuallySynced ==
    \/ <>[](Orphans = {} /\ \A n \in Name : Settled(n))
    \/ <>[](minio = "failed")
=============================================================================
