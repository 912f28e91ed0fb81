---------------------- MODULE SnapshotController_proofs ----------------------
(***************************************************************************)
(* Theorems about SnapshotController, for every set of resources, objects  *)
(* and data, and any number of writes, failures and crashes.               *)
(***************************************************************************)
EXTENDS SnapshotController, SequenceTheorems, TLAPS

-----------------------------------------------------------------------------
(* Type correctness.                                                       *)

\* Reconcile has read the resource it works on.
Holding == pc \in {"save", "status", "failed", "remove", "finalizer"}

TypeInv ==
    /\ TypeOK
    /\ pc \notin {"down", "idle"} => cur \in Name
    /\ Holding => got \in Resource

LEMMA SpecType ==
    ASSUME NEW n \in Name, NEW s \in Specs[n]
    PROVE  s \in AllSpecs /\ s.obj \in Object /\ s.data \in Data
BY ControllerAssumption DEF AllSpecs

LEMMA ResourceType ==
    ASSUME NEW r \in Resource
    PROVE  /\ r.rv \in Nat
           /\ r.spec \in AllSpecs
           /\ r.spec.obj \in Object
           /\ r.spec.data \in Data
           /\ r.hash \in Data \cup {None}
           /\ r.up \in BOOLEAN /\ r.deleting \in BOOLEAN /\ r.fin \in BOOLEAN
<1>1. /\ r.rv \in Nat /\ r.spec \in AllSpecs /\ r.hash \in Data \cup {None}
      /\ r.up \in BOOLEAN /\ r.deleting \in BOOLEAN /\ r.fin \in BOOLEAN
  BY DEF Resource
<1>2. \A s \in AllSpecs : s.obj \in Object /\ s.data \in Data
  BY SpecType DEF AllSpecs
<1> QED
  BY <1>1, <1>2

\* Changing a field keeps a resource one.
LEMMA StatusFieldType ==
    ASSUME NEW r \in Resource, NEW u \in BOOLEAN, NEW h \in Data \cup {None}
    PROVE  /\ [r EXCEPT !.up = u, !.hash = h] \in Resource
           /\ [r EXCEPT !.hash = h, !.up = u] \in Resource
BY DEF Resource

\* What a write of the API server does: nothing, or one new version that
\* those who watch are told of.
LEMMA Putting ==
    ASSUME TypeOK, NEW n \in Name, NEW r \in Resource, Put(n, r)
    PROVE  \/ r = api[n] /\ UNCHANGED apiVars
           \/ \E v \in Resource :
                 /\ v = [r EXCEPT !.rv = lastRv + 1]
                 /\ lastRv' = lastRv + 1
                 /\ api' = [api EXCEPT ![n] = v]
                 /\ Notify(n, v)
<1>1. [r EXCEPT !.rv = lastRv + 1] \in Resource
  <2>1. lastRv + 1 \in Nat
    BY DEF TypeOK
  <2> QED
    BY <2>1 DEF Resource
<1>2. CASE r = api[n]
  BY <1>2 DEF Put
<1>3. CASE r # api[n]
  <2>1. /\ lastRv' = lastRv + 1
        /\ api' = [api EXCEPT ![n] = [r EXCEPT !.rv = lastRv + 1]]
        /\ Notify(n, api'[n])
    BY <1>3 DEF Put
  <2>2. api'[n] = [r EXCEPT !.rv = lastRv + 1]
    BY <2>1 DEF TypeOK
  <2> QED
    BY <1>1, <2>1, <2>2
<1> QED
  BY <1>2, <1>3

\* What those who watch are told of comes last in their stream.
LEMMA Notified ==
    ASSUME TypeOK, NEW n \in Name, NEW x \in Resource \cup {None}, Notify(n, x)
    PROVE  /\ pc = "down" => watch' = watch
           /\ \A m \in Name \ {n} : watch'[m] = watch[m]
           /\ watch' \in [Name -> Seq(Resource \cup {None})]
           /\ pc # "down" =>
                 /\ Len(watch'[n]) = Len(watch[n]) + 1
                 /\ watch'[n] # <<>>
                 /\ watch'[n][Len(watch[n]) + 1] = x
                 /\ \A i \in 1 .. Len(watch[n]) : watch'[n][i] = watch[n][i]
<1>1. CASE pc = "down"
  BY <1>1 DEF Notify, TypeOK
<1>2. CASE pc # "down"
  <2>1. watch' = [watch EXCEPT ![n] = Append(@, x)]
    BY <1>2 DEF Notify
  <2>2. /\ watch \in [Name -> Seq(Resource \cup {None})]
        /\ watch[n] \in Seq(Resource \cup {None})
    BY DEF TypeOK
  <2>3. /\ watch' \in [Name -> Seq(Resource \cup {None})]
        /\ watch'[n] = Append(watch[n], x)
        /\ \A m \in Name \ {n} : watch'[m] = watch[m]
    BY <2>1, <2>2
  <2>4. /\ Len(watch'[n]) = Len(watch[n]) + 1
        /\ watch'[n] # <<>>
        /\ watch'[n][Len(watch[n]) + 1] = x
        /\ \A i \in 1 .. Len(watch[n]) : watch'[n][i] = watch[n][i]
    BY <2>2, <2>3
  <2> QED
    BY <1>2, <2>3, <2>4
<1> QED
  BY <1>1, <1>2

ApiType ==
    /\ api \in [Name -> Resource \cup {None}]
    /\ lastRv \in Nat
    /\ watch \in [Name -> Seq(Resource \cup {None})]

LEMMA PutType ==
    ASSUME TypeOK, NEW n \in Name, NEW r \in Resource, Put(n, r)
    PROVE  ApiType'
<1>1. CASE UNCHANGED apiVars
  BY <1>1 DEF apiVars, TypeOK, ApiType
<1>2. ASSUME NEW v \in Resource,
             lastRv' = lastRv + 1,
             api' = [api EXCEPT ![n] = v],
             Notify(n, v)
      PROVE  ApiType'
  BY <1>2, Notified DEF TypeOK, ApiType
<1> QED
  BY <1>1, <1>2, Putting

LEMMA EraseType ==
    ASSUME TypeOK, NEW n \in Name, Erase(n)
    PROVE  ApiType'
<1>1. watch' \in [Name -> Seq(Resource \cup {None})]
  BY Notified DEF Erase
<1>2. /\ api \in [Name -> Resource \cup {None}]
      /\ lastRv \in Nat
  BY DEF TypeOK
<1> QED
  BY <1>1, <1>2 DEF Erase, ApiType

LEMMA StatusType ==
    ASSUME TypeInv, Holding, Current(got)
    PROVE  [api[cur] EXCEPT !.up = got.up, !.hash = got.hash] \in Resource
<1>1. api[cur] \in Resource /\ got \in Resource
  BY DEF TypeInv, TypeOK, Holding, Current
<1>2. got.up \in BOOLEAN /\ got.hash \in Data \cup {None}
  BY <1>1, ResourceType
<1> QED
  BY <1>1, <1>2, StatusFieldType

LEMMA TypeInit == Init => TypeInv
<1> SUFFICES ASSUME Init PROVE TypeInv
  OBVIOUS
<1>1. /\ api \in [Name -> Resource \cup {None}]
      /\ cache \in [Name -> Resource \cup {None}]
      /\ watch \in [Name -> Seq(Resource \cup {None})]
      /\ store \in [Object -> Data \cup {None}]
  BY DEF Init
<1>2. secret \in BOOLEAN
  BY ControllerAssumption DEF Init
<1> QED
  BY <1>1, <1>2 DEF Init, TypeInv, TypeOK, Holding

LEMMA UserType ==
    ASSUME TypeInv, NEW n \in Name, UserCreate(n) \/ UserEdit(n) \/ UserDelete(n)
    PROVE  TypeInv'
<1>1. ApiType'
  <2>1. CASE UserCreate(n)
    <3>1. PICK s \in Specs[n], fin \in Finalizers :
             Put(n, [rv |-> 0, spec |-> s, up |-> FALSE, hash |-> None,
                     deleting |-> FALSE, fin |-> fin])
      BY <2>1 DEF UserCreate
    <3>2. [rv |-> 0, spec |-> s, up |-> FALSE, hash |-> None,
           deleting |-> FALSE, fin |-> fin] \in Resource
      BY ControllerAssumption, SpecType DEF Resource
    <3> QED
      BY <3>1, <3>2, PutType DEF TypeInv
  <2>2. CASE UserEdit(n)
    <3>1. PICK s \in Specs[n] : Put(n, [api[n] EXCEPT !.spec = s])
      BY <2>2 DEF UserEdit
    <3>2. api[n] \in Resource
      BY <2>2 DEF UserEdit, TypeInv, TypeOK
    <3>3. [api[n] EXCEPT !.spec = s] \in Resource
      BY <3>2, SpecType DEF Resource
    <3> QED
      BY <3>1, <3>3, PutType DEF TypeInv
  <2>3. CASE UserDelete(n)
    <3>1. api[n] \in Resource
      BY <2>3 DEF UserDelete, TypeInv, TypeOK
    <3>2. [api[n] EXCEPT !.deleting = TRUE] \in Resource
      BY <3>1 DEF Resource
    <3> QED
      BY <2>3, <3>2, PutType, EraseType DEF UserDelete, TypeInv
  <2> QED
    BY <2>1, <2>2, <2>3
<1>2. UserFrame
  BY DEF UserCreate, UserEdit, UserDelete
<1> QED
  BY <1>1, <1>2 DEF ApiType, UserFrame, ctlVars, TypeInv, TypeOK, Holding

LEMMA ManagerType ==
    ASSUME TypeInv,
           \/ \E n \in Name : WatchDeliver(n) \/ Dequeue(n)
           \/ SecretCreated \/ Resync \/ Crash \/ Start
    PROVE  TypeInv'
<1> USE DEF TypeInv, TypeOK, Holding, apiVars, ctlVars, bounds
<1>1. ASSUME NEW n \in Name, WatchDeliver(n)
      PROVE  TypeInv'
  <2>1. watch[n] \in Seq(Resource \cup {None}) /\ watch[n] # <<>>
    BY <1>1 DEF WatchDeliver
  <2>2. /\ Head(watch[n]) \in Resource \cup {None}
        /\ Tail(watch[n]) \in Seq(Resource \cup {None})
    BY <2>1
  <2>3. watch' \in [Name -> Seq(Resource \cup {None})]
    BY <1>1, <2>2 DEF WatchDeliver
  <2> QED
    BY <1>1, <2>2, <2>3 DEF WatchDeliver
<1>2. ASSUME NEW n \in Name, Dequeue(n)
      PROVE  TypeInv'
  BY <1>2 DEF Dequeue
<1>3. CASE SecretCreated
  BY <1>3 DEF SecretCreated
<1>4. CASE Resync
  BY <1>4 DEF Resync
<1>5. CASE Crash
  <2>1. watch' \in [Name -> Seq(Resource \cup {None})]
    BY <1>5 DEF Crash
  <2> QED
    BY <1>5, <2>1 DEF Crash
<1>6. CASE Start
  BY <1>6 DEF Start
<1> QED
  BY <1>1, <1>2, <1>3, <1>4, <1>5, <1>6

LEMMA UploadType ==
    ASSUME TypeInv,
           Fetch \/ Save \/ SaveBad \/ SaveFail \/ Remove \/ RemoveFail
    PROVE  TypeInv'
<1> USE DEF TypeInv, TypeOK, Holding, apiVars, bounds, Requeue, Done, Return
<1>1. CASE Fetch
  <2>1. cache[cur] \in Resource \cup {None} /\ cur \in Name
    BY <1>1 DEF Fetch
  <2> QED
    BY <1>1, <2>1 DEF Fetch
<1>2. CASE Save
  <2>1. got \in Resource /\ got.spec.data \in Data /\ got.spec.obj \in Object
    BY <1>2, ResourceType DEF Save
  <2>2. [got EXCEPT !.hash = got.spec.data, !.up = TRUE] \in Resource
    BY <2>1, StatusFieldType
  <2>3. store' \in [Object -> Data \cup {None}]
    BY <1>2, <2>1 DEF Save
  <2> QED
    BY <1>2, <2>2, <2>3 DEF Save
<1>3. CASE SaveBad \/ SaveFail
  <2>1. got \in Resource /\ got.spec.data \in Data /\ got.spec.obj \in Object
    BY <1>3, ResourceType DEF SaveBad, SaveFail, SaveNotDone
  <2>2. NotUploaded(got) \in Resource
    BY <2>1 DEF NotUploaded, Resource
  <2>3. store' \in [Object -> Data \cup {None}]
    BY <1>3, <2>1 DEF SaveBad, SaveFail, SaveNotDone
  <2> QED
    BY <1>3, <2>2, <2>3 DEF SaveBad, SaveFail, SaveNotDone
<1>4. CASE Remove \/ RemoveFail
  <2>1. store' \in [Object -> Data \cup {None}]
    BY <1>4 DEF Remove, RemoveFail, WithoutObject
  <2> QED
    BY <1>4, <2>1 DEF Remove, RemoveFail
<1> QED
  BY <1>1, <1>2, <1>3, <1>4

LEMMA UpdateType ==
    ASSUME TypeInv,
           \/ MinioInit \/ MinioMissing
           \/ StatusOk \/ StatusConflict \/ StatusFail \/ FailedStatus
           \/ DropFinalizer \/ DropConflict \/ DropFail
    PROVE  TypeInv'
<1>1. ApiType
  BY DEF TypeInv, TypeOK, ApiType
<1>2. ASSUME Holding, Current(got), PutStatus(got)
      PROVE  ApiType'
  <2>1. cur \in Name
    BY <1>2 DEF TypeInv, Holding
  <2> QED
    BY <1>2, <2>1, StatusType, PutType DEF PutStatus, TypeInv
<1>3. ApiType'
  <2>1. CASE UNCHANGED apiVars
    BY <1>1, <2>1 DEF ApiType, apiVars
  <2>2. CASE StatusOk \/ FailedStatus
    BY <1>2, <2>1, <2>2 DEF StatusOk, FailedStatus, Holding
  <2>3. CASE DropFinalizer
    BY <2>3, EraseType DEF DropFinalizer, TypeInv
  <2> QED
    BY <2>1, <2>2, <2>3 DEF MinioInit, MinioMissing, StatusConflict, StatusFail,
       DropConflict, DropFail
<1>4. UNCHANGED <<cache, secret, store>>
  BY DEF MinioInit, MinioMissing, StatusOk, StatusConflict, StatusFail,
         FailedStatus, DropFinalizer, DropConflict, DropFail
<1>5. CASE MinioInit
  BY <1>3, <1>4, <1>5 DEF MinioInit, ApiType, ctlVars, TypeInv, TypeOK, Holding
<1>6. CASE ~ MinioInit
  <2>1. /\ Done \/ Requeue
        /\ minio' = minio
        /\ pc \notin {"down", "idle"}
    BY <1>6 DEF MinioMissing, StatusOk, StatusConflict, StatusFail,
                FailedStatus, DropFinalizer, DropConflict, DropFail
  <2> QED
    BY <1>3, <1>4, <2>1 DEF ApiType, Done, Requeue, Return, TypeInv, TypeOK,
                            Holding
<1> QED
  BY <1>5, <1>6

LEMMA TypeInvariant == Spec => []TypeInv
<1>1. TypeInv /\ [Next]_vars => TypeInv'
  <2> SUFFICES ASSUME TypeInv, [Next]_vars
               PROVE  TypeInv'
    OBVIOUS
  <2>1. CASE UNCHANGED vars
    BY <2>1 DEF vars, TypeInv, TypeOK, Holding
  <2> QED
    BY <2>1, UserType, ManagerType, UploadType, UpdateType DEF Next, Reconcile
<1> QED
  BY <1>1, TypeInit, PTL DEF Spec

\* Every variable keeps its type, whatever users write and whatever fails.
THEOREM TypeCorrect == Spec => []TypeOK
<1>1. TypeInv => TypeOK
  BY DEF TypeInv
<1> QED
  BY <1>1, TypeInvariant, PTL
-----------------------------------------------------------------------------
(* Versions: what the informer holds and is still to be told of a resource *)
(* leads up to what the API server holds, in this order, and an update     *)
(* that carries the current version was computed from the current state.   *)

\* The resource is one that users wrote, in a version that was given out.
\* Unless they go back, its status names no later data than its spec.
Sound(n, r) ==
    /\ r.spec \in Specs[n]
    /\ n \notin Rollback /\ r.hash # None => r.hash <= r.spec.data

Sane(n, r) == r # None => r.rv <= lastRv /\ Sound(n, r)

Behind(n, r) == r # None /\ api[n] # None => r.rv < api[n].rv

AllSane ==
    /\ \A n \in Name : Sane(n, api[n]) /\ Sane(n, cache[n])
    /\ \A n \in Name : \A i \in 1 .. Len(watch[n]) : Sane(n, watch[n][i])
    /\ Holding => Sane(cur, got)

LeadsUp(n) ==
    /\ watch[n] = <<>> => cache[n] = api[n]
    /\ watch[n] # <<>> => /\ Behind(n, cache[n])
                          /\ watch[n][Len(watch[n])] = api[n]
    /\ \A i \in 1 .. Len(watch[n]) : i # Len(watch[n]) => Behind(n, watch[n][i])

InOrder ==
    /\ pc = "down" => \A n \in Name : watch[n] = <<>>
    /\ pc # "down" => \A n \in Name : LeadsUp(n)

UpToDate ==
    Holding /\ Current(got) =>
        /\ watch[cur] = <<>>
        /\ got.spec = api[cur].spec
        /\ got.deleting = api[cur].deleting

Versions == AllSane /\ InOrder /\ UpToDate

LEMMA VersionsInit == Init => Versions
BY DEF Init, Versions, AllSane, InOrder, UpToDate, Holding, Sane

\* A write of the API server that gives out a version, or erases.
Writes(n, x) ==
    /\ lastRv' = lastRv + 1
    /\ api' = [api EXCEPT ![n] = x]
    /\ Notify(n, x)

LEMMA VersionsWrite ==
    ASSUME TypeInv, Versions, NEW n \in Name, NEW x \in Resource \cup {None},
           Writes(n, x), x # None => x.rv = lastRv + 1 /\ Sound(n, x),
           UNCHANGED cache,
           UNCHANGED ctlVars \/ (Return /\ pc # "down")
    PROVE  Versions'
<1>1. /\ lastRv \in Nat /\ lastRv' = lastRv + 1
      /\ api'[n] = x
      /\ \A m \in Name \ {n} : api'[m] = api[m] /\ watch'[m] = watch[m]
      /\ cache' = cache
      /\ pc = "down" => watch' = watch /\ pc' = "down"
      /\ pc # "down" => pc' # "down"
  BY Notified DEF Writes, TypeInv, TypeOK, ctlVars, Return
<1>2. /\ watch[n] \in Seq(Resource \cup {None})
      /\ Len(watch[n]) \in Nat
      /\ api \in [Name -> Resource \cup {None}]
      /\ cache \in [Name -> Resource \cup {None}]
  BY DEF TypeInv, TypeOK
<1>3. /\ \A m \in Name, r \in Resource \cup {None} : Sane(m, r) => Sane(m, r)'
      /\ Sane(n, x)'
  BY <1>1, ResourceType DEF Sane, Sound
<1>4. pc # "down" =>
          /\ Len(watch'[n]) = Len(watch[n]) + 1
          /\ watch'[n] # <<>>
          /\ watch'[n][Len(watch[n]) + 1] = x
          /\ \A i \in 1 .. Len(watch[n]) : watch'[n][i] = watch[n][i]
  BY Notified DEF Writes, TypeInv
<1>5. \A m \in Name : Sane(m, api[m])' /\ Sane(m, cache[m])'
  BY <1>1, <1>2, <1>3 DEF Versions, AllSane
<1>6. \A m \in Name : \A i \in 1 .. Len(watch[m]) :
          watch[m][i] \in Resource \cup {None} /\ Sane(m, watch[m][i])
  BY DEF Versions, AllSane, TypeInv, TypeOK
<1>7. ASSUME NEW m \in Name, NEW i \in (1 .. Len(watch[m]))'
      PROVE  Sane(m, watch[m][i])'
  <2>1. CASE watch'[m] = watch[m]
    BY <2>1, <1>3, <1>6 DEF Sane
  <2>2. CASE m = n /\ pc # "down"
    <3>1. CASE i = Len(watch[n]) + 1
      BY <2>2, <3>1, <1>3, <1>4 DEF Sane
    <3>2. CASE i # Len(watch[n]) + 1
      <4>1. i \in 1 .. Len(watch[n]) /\ watch'[n][i] = watch[n][i]
        BY <2>2, <3>2, <1>2, <1>4
      <4> QED
        BY <2>2, <4>1, <1>3, <1>6 DEF Sane
    <3> QED
      BY <3>1, <3>2
  <2> QED
    BY <2>1, <2>2, <1>1
<1>8. (Holding => Sane(cur, got))'
  <2>1. CASE UNCHANGED ctlVars /\ Holding
    BY <2>1, <1>3 DEF ctlVars, Versions, AllSane, TypeInv, Holding, Sane
  <2> QED
    BY <2>1 DEF Return, ctlVars, Holding
<1>9. AllSane'
  BY <1>5, <1>7, <1>8 DEF AllSane
<1>10. InOrder'
  <2>1. CASE pc = "down"
    BY <2>1, <1>1 DEF Versions, InOrder
  <2>2. ASSUME pc # "down", NEW m \in Name
        PROVE  LeadsUp(m)'
    <3>1. LeadsUp(m)
      BY <2>2 DEF Versions, InOrder
    <3>2. CASE m # n
      BY <3>1, <3>2, <1>1 DEF LeadsUp, Behind
    <3>3. CASE m = n
      <4>1. \A r \in Resource \cup {None} :
                Sane(n, r) => (r # None /\ x # None => r.rv < lastRv + 1)
        BY <1>2, ResourceType, <1>1 DEF Sane
      <4>2. Behind(n, cache[n])'
        BY <4>1, <1>1, <1>2 DEF Behind, Versions, AllSane
      <4>3. ASSUME NEW i \in (1 .. Len(watch[n]))', i # Len(watch[n])'
            PROVE  Behind(n, watch[n][i])'
        <5>1. i \in 1 .. Len(watch[n]) /\ watch'[n][i] = watch[n][i]
          BY <4>3, <2>2, <1>2, <1>4
        <5> QED
          BY <5>1, <4>1, <1>1, <1>6 DEF Behind
      <4>4. watch'[n][Len(watch'[n])] = api'[n]
        BY <2>2, <1>1, <1>4
      <4> QED
        BY <3>3, <2>2, <4>2, <4>3, <4>4, <1>4 DEF LeadsUp
    <3> QED
      BY <3>2, <3>3
  <2> QED
    BY <2>1, <2>2, <1>1 DEF InOrder
<1>11. UpToDate'
  <2>1. CASE UNCHANGED ctlVars /\ Holding /\ cur = n
    <3>1. got.rv <= lastRv /\ got \in Resource
      BY <2>1, NoneAssumption DEF Versions, AllSane, Sane, TypeInv
    <3>2. ~ Current(got)'
      BY <2>1, <3>1, <1>1, ResourceType DEF Current, ctlVars
    <3> QED
      BY <2>1, <3>2 DEF UpToDate
  <2>2. CASE UNCHANGED ctlVars /\ Holding /\ cur # n
    BY <2>2, <1>1 DEF Versions, UpToDate, Current, ctlVars, Holding, TypeInv
  <2> QED
    BY <2>1, <2>2 DEF Return, ctlVars, Holding, UpToDate
<1> QED
  BY <1>9, <1>10, <1>11 DEF Versions


\* A version that differs from r in the given fields only.
LEMMA Versioned ==
    ASSUME NEW r \in Resource, NEW k, NEW v, v = [r EXCEPT !.rv = k]
    PROVE  /\ v.rv = k /\ v.spec = r.spec /\ v.up = r.up /\ v.hash = r.hash
           /\ v.deleting = r.deleting /\ v.fin = r.fin
BY DEF Resource

\* A resource names one object through its life.
KeepsObject(n) == \A s, t \in Specs[n] : s.obj = t.obj

\* No other resource names it.
OwnObject(n) ==
    /\ KeepsObject(n)
    /\ \A m \in Name \ {n} : \A s \in Specs[m], t \in Specs[n] : s.obj # t.obj

\* What users can do to a resource.
LEMMA UserWrites ==
    ASSUME TypeInv, AllSane, NEW n \in Name,
           UserCreate(n) \/ UserEdit(n) \/ UserDelete(n)
    PROVE  /\ UserFrame
           /\ \/ UNCHANGED apiVars
              \/ \E x \in Resource \cup {None} :
                    /\ Writes(n, x)
                    /\ x # None => x.rv = lastRv + 1 /\ Sound(n, x)
                    /\ n \notin Rollback /\ KeepsObject(n) =>
                          x = None \/ x.deleting \/ ~ Claimed(x)
                    /\ FALSE \notin Finalizers /\ (api[n] # None => api[n].fin)
                          => x # None /\ x.fin
<1> DEFINE Good(x) ==
              /\ Writes(n, x)
              /\ x # None => x.rv = lastRv + 1 /\ Sound(n, x)
              /\ n \notin Rollback /\ KeepsObject(n) =>
                    x = None \/ x.deleting \/ ~ Claimed(x)
              /\ FALSE \notin Finalizers /\ (api[n] # None => api[n].fin)
                    => x # None /\ x.fin
<1>1. UserFrame
  BY DEF UserCreate, UserEdit, UserDelete
<1>2. CASE UserCreate(n)
  <2>1. PICK s \in Specs[n], fin \in Finalizers :
           Put(n, [rv |-> 0, spec |-> s, up |-> FALSE, hash |-> None,
                   deleting |-> FALSE, fin |-> fin])
    BY <1>2 DEF UserCreate
  <2> DEFINE r == [rv |-> 0, spec |-> s, up |-> FALSE, hash |-> None,
                   deleting |-> FALSE, fin |-> fin]
  <2>2. /\ r \in Resource
        /\ r.spec = s /\ r.up = FALSE /\ r.hash = None /\ r.fin = fin
    BY ControllerAssumption, SpecType DEF Resource
  <2> HIDE DEF r
  <2>3. ASSUME NEW v \in Resource, v = [r EXCEPT !.rv = lastRv + 1], Writes(n, v)
        PROVE  Good(v)
    <3>1. /\ v.rv = lastRv + 1 /\ v.spec = s /\ v.hash = None /\ v.fin = fin
          /\ v.up = FALSE
      BY <2>2, <2>3, Versioned
    <3>2. ~ Claimed(v)
      BY <3>1 DEF Claimed
    <3>3. FALSE \notin Finalizers => v.fin
      BY <3>1, ControllerAssumption
    <3> QED
      BY <2>3, <3>1, <3>2, <3>3, NoneAssumption DEF Sound
  <2>4. Put(n, r)
    BY <2>1 DEF r
  <2> QED
    BY <1>1, <2>2, <2>3, <2>4, Putting DEF Writes, TypeInv
<1>3. CASE UserEdit(n)
  <2>1. PICK s \in Specs[n] \ {api[n].spec} :
           /\ n \in Rollback \/ s.data >= api[n].spec.data
           /\ Put(n, [api[n] EXCEPT !.spec = s])
    BY <1>3 DEF UserEdit
  <2>2. api[n] \in Resource /\ api[n] # None
    BY <1>3 DEF UserEdit, TypeInv, TypeOK
  <2>3. Sound(n, api[n])
    BY <2>2 DEF AllSane, Sane
  <2> DEFINE r == [api[n] EXCEPT !.spec = s]
  <2>4. /\ r \in Resource
        /\ r.spec = s /\ r.hash = api[n].hash /\ r.fin = api[n].fin
    BY <2>2, SpecType DEF Resource
  <2> HIDE DEF r
  <2>5. ASSUME NEW v \in Resource, v = [r EXCEPT !.rv = lastRv + 1], Writes(n, v)
        PROVE  Good(v)
    <3>1. /\ v.rv = lastRv + 1 /\ v.spec = s /\ v.hash = api[n].hash
          /\ v.fin = api[n].fin
      BY <2>4, <2>5, Versioned
    <3>2. /\ s.data \in Nat /\ api[n].spec.data \in Nat
          /\ api[n].hash # None => api[n].hash \in Nat
      BY <2>2, SpecType, ResourceType, ControllerAssumption
    <3>3. Sound(n, v)
      BY <2>1, <2>3, <3>1, <3>2 DEF Sound
    <3>4. ASSUME n \notin Rollback, KeepsObject(n)
          PROVE  ~ Claimed(v)
      <4>1. s.obj = api[n].spec.obj
        BY <2>3, <3>4 DEF Sound, KeepsObject
      <4>2. s.data # api[n].spec.data
        <5>1. \E t \in Name : s \in Specs[t] /\ api[n].spec \in Specs[t]
          BY <2>3 DEF Sound
        <5>2. \A t \in Name : \A a \in Specs[t] :
                 a = [obj |-> a.obj, data |-> a.data]
          BY ControllerAssumption
        <5> QED
          BY <2>1, <4>1, <5>1, <5>2
      <4>3. v.hash # None => v.hash < s.data
        BY <2>1, <2>3, <3>1, <3>2, <3>4, <4>2 DEF Sound
      <4>4. None # s.data
        BY ControllerAssumption, SpecType
      <4> QED
        BY <3>1, <3>2, <4>3, <4>4 DEF Claimed
    <3> QED
      BY <2>2, <2>5, <3>1, <3>3, <3>4, NoneAssumption
  <2>6. Put(n, r)
    BY <2>1 DEF r
  <2> QED
    BY <1>1, <2>4, <2>5, <2>6, Putting DEF Writes, TypeInv
<1>4. CASE UserDelete(n)
  <2>1. api[n] \in Resource /\ api[n] # None /\ Sound(n, api[n])
    BY <1>4 DEF UserDelete, TypeInv, TypeOK, AllSane, Sane
  <2> DEFINE r == [api[n] EXCEPT !.deleting = TRUE]
  <2>2. /\ r \in Resource
        /\ r.spec = api[n].spec /\ r.hash = api[n].hash /\ r.fin = api[n].fin
        /\ r.deleting = TRUE
    BY <2>1 DEF Resource
  <2> HIDE DEF r
  <2>3. ASSUME NEW v \in Resource, v = [r EXCEPT !.rv = lastRv + 1],
               Writes(n, v)
        PROVE  Good(v)
    <3>1. /\ v.rv = lastRv + 1 /\ v.spec = api[n].spec /\ v.hash = api[n].hash
          /\ v.fin = api[n].fin /\ v.deleting = TRUE
      BY <2>2, <2>3, Versioned
    <3> QED
      BY <2>1, <2>3, <3>1, NoneAssumption DEF Sound
  <2>4. CASE Put(n, r)
    BY <1>1, <2>2, <2>3, <2>4, Putting DEF Writes, TypeInv
  <2>5. CASE ~ api[n].fin /\ Erase(n)
    <3>1. Good(None)
      BY <2>1, <2>5 DEF Erase, Writes
    <3> QED
      BY <1>1, <3>1
  <2> QED
    BY <1>4, <2>4, <2>5 DEF UserDelete, r
<1> QED
  BY <1>2, <1>3, <1>4

\* What an update of the status does, when nobody was faster.
LEMMA StatusWrites ==
    ASSUME TypeInv, Versions, Holding, Current(got), PutStatus(got)
    PROVE  \/ /\ UNCHANGED apiVars
              /\ api[cur].up = got.up /\ api[cur].hash = got.hash
           \/ \E x \in Resource :
                 /\ Writes(cur, x)
                 /\ x.rv = lastRv + 1 /\ Sound(cur, x)
                 /\ x.up = got.up /\ x.hash = got.hash
                 /\ x.spec = api[cur].spec /\ x.fin = api[cur].fin
                 /\ x.deleting = api[cur].deleting
<1>1. /\ cur \in Name /\ got \in Resource
      /\ api[cur] \in Resource /\ api[cur] # None
      /\ got.up \in BOOLEAN /\ got.hash \in Data \cup {None}
  BY ResourceType DEF TypeInv, TypeOK, Holding, Current
<1> DEFINE r == [api[cur] EXCEPT !.up = got.up, !.hash = got.hash]
<1>2. /\ r \in Resource
      /\ r.up = got.up /\ r.hash = got.hash
      /\ r.spec = api[cur].spec /\ r.fin = api[cur].fin
      /\ r.deleting = api[cur].deleting
  BY <1>1 DEF Resource
<1>3. Put(cur, r)
  BY DEF PutStatus
<1> HIDE DEF r
<1>4. ASSUME NEW v \in Resource, v = [r EXCEPT !.rv = lastRv + 1]
      PROVE  /\ v.rv = lastRv + 1 /\ Sound(cur, v)
             /\ v.up = got.up /\ v.hash = got.hash
             /\ v.spec = api[cur].spec /\ v.fin = api[cur].fin
             /\ v.deleting = api[cur].deleting
  <2>1. /\ v.rv = lastRv + 1
        /\ v.up = got.up /\ v.hash = got.hash
        /\ v.spec = api[cur].spec /\ v.fin = api[cur].fin
        /\ v.deleting = api[cur].deleting
    BY <1>2, <1>4, Versioned
  <2>2. Sound(cur, got) /\ got.spec = api[cur].spec
    BY <1>1, NoneAssumption DEF Versions, AllSane, Sane, UpToDate
  <2> QED
    BY <2>1, <2>2 DEF Sound
<1>5. \/ r = api[cur] /\ UNCHANGED apiVars
      \/ \E v \in Resource : v = [r EXCEPT !.rv = lastRv + 1] /\ Writes(cur, v)
  BY <1>1, <1>2, <1>3, Putting DEF Writes, TypeInv
<1> QED
  BY <1>2, <1>4, <1>5

\* The three calls of Reconcile that end by writing to the API server.
LEMMA UpdateWrites ==
    ASSUME TypeInv, Versions, StatusOk \/ FailedStatus \/ DropFinalizer
    PROVE  /\ Return /\ Holding /\ cur \in Name
           /\ UNCHANGED <<cache, store, queue>>
           /\ \/ UNCHANGED apiVars
              \/ \E x \in Resource \cup {None} :
                    /\ Writes(cur, x)
                    /\ x # None => x.rv = lastRv + 1 /\ Sound(cur, x)
<1>1. /\ Return /\ Holding /\ cur \in Name
      /\ UNCHANGED <<cache, store, queue>>
  BY DEF StatusOk, FailedStatus, DropFinalizer, Done, Holding, TypeInv
<1>2. CASE StatusOk \/ FailedStatus
  BY <1>1, <1>2, StatusWrites DEF StatusOk, FailedStatus
<1>3. CASE DropFinalizer
  BY <1>1, <1>3 DEF DropFinalizer, Erase, Writes
<1> QED
  BY <1>1, <1>2, <1>3

LEMMA VersionsKept ==
    ASSUME TypeInv, Versions, UNCHANGED <<apiVars, cache>>,
           \/ UNCHANGED ctlVars
           \/ Return /\ pc # "down"
           \/ pc = "idle" /\ pc' = "minio"
           \/ /\ Holding /\ pc' # "down" /\ cur' = cur /\ got' \in Resource
              /\ got'.rv = got.rv /\ got'.spec = got.spec
              /\ got'.deleting = got.deleting
              /\ cur \notin Rollback /\ got'.hash # None => got'.hash <= got.spec.data
    PROVE  Versions'
<1>1. /\ UNCHANGED <<api, lastRv, watch, cache>>
      /\ pc' = "down" <=> pc = "down"
  BY DEF apiVars, ctlVars, Return, Holding
<1>2. InOrder'
  BY <1>1 DEF Versions, InOrder, LeadsUp, Behind
<1>3. /\ (\A n \in Name : Sane(n, api[n]) /\ Sane(n, cache[n]))'
      /\ (\A n \in Name : \A i \in 1 .. Len(watch[n]) : Sane(n, watch[n][i]))'
  BY <1>1 DEF Versions, AllSane, Sane
<1>4. CASE ~ Holding'
  BY <1>2, <1>3, <1>4 DEF Versions, AllSane, UpToDate
<1>5. CASE UNCHANGED ctlVars
  BY <1>1, <1>2, <1>3, <1>5
     DEF ctlVars, Versions, AllSane, UpToDate, Holding, Current, Sane
<1>6. CASE /\ Holding /\ pc' # "down" /\ cur' = cur /\ got' \in Resource
           /\ got'.rv = got.rv /\ got'.spec = got.spec
           /\ got'.deleting = got.deleting
           /\ cur \notin Rollback /\ got'.hash # None => got'.hash <= got.spec.data
  <2>1. Sane(cur, got) /\ got # None
    BY <1>6, NoneAssumption DEF Versions, AllSane, TypeInv
  <2>2. Sane(cur, got)'
    BY <1>1, <1>6, <2>1 DEF Sane, Sound
  <2>3. UpToDate'
    BY <1>1, <1>6 DEF Versions, UpToDate, Current
  <2> QED
    BY <1>2, <1>3, <2>2, <2>3 DEF Versions, AllSane
<1> QED
  BY <1>4, <1>5, <1>6 DEF Return, Holding

\* The head and the tail of a sequence that is not empty.
LEMMA HeadAndTail ==
    ASSUME NEW S, NEW w \in Seq(S), w # <<>>
    PROVE  /\ Len(w) \in Nat /\ Len(w) >= 1
           /\ Len(Tail(w)) = Len(w) - 1
           /\ \A i \in 1 .. Len(w) - 1 : Tail(w)[i] = w[i + 1]
           /\ Head(w) = w[1]
           /\ (Len(w) = 1) <=> (Tail(w) = <<>>)
<1>1. Len(w) \in Nat /\ Len(w) >= 1
  BY EmptySeq
<1>2. /\ Tail(w) \in Seq(S) /\ Len(Tail(w)) = Len(w) - 1
      /\ \A i \in 1 .. Len(w) - 1 : Tail(w)[i] = w[i + 1]
  BY <1>1, HeadTailProperties
<1>3. (Len(Tail(w)) = 0) <=> (Tail(w) = <<>>)
  BY <1>2, EmptySeq
<1> QED
  BY <1>1, <1>2, <1>3

LEMMA VersionsDeliver ==
    ASSUME TypeInv, Versions, NEW n \in Name, WatchDeliver(n)
    PROVE  Versions'
<1> PICK k \in Nat : k = Len(watch[n])
  BY DEF TypeInv, TypeOK
<1>1. /\ watch \in [Name -> Seq(Resource \cup {None})]
      /\ cache \in [Name -> Resource \cup {None}]
      /\ watch[n] \in Seq(Resource \cup {None}) /\ watch[n] # <<>>
  BY DEF TypeInv, TypeOK, WatchDeliver
<1>2. /\ k >= 1
      /\ Len(watch'[n]) = k - 1
      /\ \A i \in 1 .. k - 1 : watch'[n][i] = watch[n][i + 1]
      /\ cache'[n] = watch[n][1]
      /\ \A m \in Name \ {n} : watch'[m] = watch[m] /\ cache'[m] = cache[m]
      /\ (k = 1) <=> (watch'[n] = <<>>)
  <2>1. /\ watch'[n] = Tail(watch[n])
        /\ cache'[n] = Head(watch[n])
        /\ \A m \in Name \ {n} : watch'[m] = watch[m] /\ cache'[m] = cache[m]
    BY <1>1 DEF WatchDeliver
  <2>2. /\ k >= 1
        /\ Len(Tail(watch[n])) = k - 1
        /\ \A i \in 1 .. k - 1 : Tail(watch[n])[i] = watch[n][i + 1]
        /\ Head(watch[n]) = watch[n][1]
        /\ (k = 1) <=> (Tail(watch[n]) = <<>>)
    BY <1>1, HeadAndTail
  <2> QED
    BY <2>1, <2>2
<1>3. UNCHANGED <<api, lastRv, pc, cur, got>>
  BY DEF WatchDeliver, ctlVars
<1>4. pc # "down"
  BY <1>2 DEF Versions, InOrder
<1>5. AllSane'
  <2>1. \A m \in Name : Sane(m, api[m])' /\ Sane(m, cache[m])'
    BY <1>2, <1>3 DEF Versions, AllSane, Sane
  <2>2. ASSUME NEW m \in Name, NEW i \in (1 .. Len(watch[m]))'
        PROVE  Sane(m, watch[m][i])'
    BY <1>2, <1>3 DEF Versions, AllSane, Sane
  <2> QED
    BY <1>3, <2>1, <2>2 DEF Versions, AllSane, Holding, Sane
<1>6. InOrder'
  <2> SUFFICES ASSUME NEW m \in Name
               PROVE  LeadsUp(m)'
    BY <1>3, <1>4 DEF InOrder
  <2>1. LeadsUp(m)
    BY <1>4 DEF Versions, InOrder
  <2>2. CASE m # n
    BY <1>2, <1>3, <2>1, <2>2 DEF LeadsUp, Behind
  <2>3. CASE m = n /\ k = 1
    <3>1. watch'[n] = <<>> /\ cache'[n] = api'[n]
      BY <1>1, <1>2, <1>3, <2>1, <2>3 DEF LeadsUp
    <3> QED
      BY <1>2, <2>3, <3>1 DEF LeadsUp
  <2>4. CASE m = n /\ k > 1
    <3>1. watch'[n][k - 1] = api'[n]
      BY <1>2, <1>3, <2>1, <2>4 DEF LeadsUp
    <3>2. Behind(n, cache[n])'
      BY <1>2, <1>3, <2>1, <2>4 DEF LeadsUp, Behind
    <3>3. \A i \in 1 .. k - 1 : i # k - 1 => Behind(n, watch[n][i])'
      BY <1>2, <1>3, <2>1, <2>4 DEF LeadsUp, Behind
    <3> QED
      BY <1>2, <2>4, <3>1, <3>2, <3>3 DEF LeadsUp
  <2> QED
    BY <1>2, <2>2, <2>3, <2>4
<1>7. UpToDate'
  BY <1>2, <1>3 DEF Versions, UpToDate, Holding, Current, TypeInv
<1> QED
  BY <1>5, <1>6, <1>7 DEF Versions

\* Reading the informer: what is read is current only if nothing is to come.
LEMMA VersionsFetch ==
    ASSUME TypeInv, Versions, Fetch
    PROVE  Versions'
<1>1. CASE Return
  BY <1>1, VersionsKept DEF Fetch
<1>2. CASE pc' \in {"remove", "save"} /\ cur' = cur /\ got' = cache[cur]
  <2>1. /\ UNCHANGED <<api, lastRv, watch, cache>>
        /\ cur \in Name /\ pc = "minio"
    BY DEF Fetch, apiVars, TypeInv
  <2>2. InOrder'
    BY <1>2, <2>1 DEF Versions, InOrder, LeadsUp, Behind
  <2>3. AllSane'
    BY <1>2, <2>1 DEF Versions, AllSane, Sane
  <2>4. UpToDate'
    <3>1. got' # None /\ got' \in Resource
      BY <1>2, <2>1 DEF Fetch, TypeInv, TypeOK, Done, Return
    <3>2. LeadsUp(cur) /\ (api[cur] # None => api[cur] \in Resource)
      BY <2>1 DEF Versions, InOrder, TypeInv, TypeOK
    <3>3. CASE watch[cur] = <<>>
      BY <1>2, <2>1, <3>2, <3>3 DEF LeadsUp, UpToDate
    <3>4. CASE watch[cur] # <<>>
      BY <1>2, <2>1, <3>1, <3>2, <3>4, ResourceType
         DEF LeadsUp, Behind, UpToDate, Current
    <3> QED
      BY <3>3, <3>4
  <2> QED
    BY <2>2, <2>3, <2>4 DEF Versions
<1> QED
  BY <1>1, <1>2 DEF Fetch, Done

\* The fields of what Reconcile holds, after an upload.
LEMMA Uploading ==
    ASSUME TypeInv, Save \/ SaveBad \/ SaveFail \/ Remove
    PROVE  /\ got \in Resource /\ got' \in Resource
           /\ got'.rv = got.rv /\ got'.spec = got.spec
           /\ got'.deleting = got.deleting
           /\ Save => got'.hash = got.spec.data /\ got'.up = TRUE
           /\ SaveBad \/ SaveFail => got'.up = FALSE
           /\ Remove => store' = WithoutObject
           /\ ~ Remove => store' \in {store, [store EXCEPT
                                           ![got.spec.obj] = got.spec.data]}
           /\ UNCHANGED <<apiVars, cache, queue, cur, minio>>
           /\ Holding /\ Holding'
           /\ pc = IF Remove THEN "remove" ELSE "save"
           /\ pc' = IF Remove THEN "finalizer" ELSE IF Save THEN "status"
                                                   ELSE "failed"
<1>1. got \in Resource /\ got.spec.data \in Data
  BY ResourceType DEF TypeInv, Holding, Save, SaveBad, SaveFail, SaveNotDone,
     Remove
<1>2. CASE Save
  <2>1. got' = [got EXCEPT !.hash = got.spec.data, !.up = TRUE]
    BY <1>2 DEF Save
  <2>2. /\ got' \in Resource
        /\ got'.rv = got.rv /\ got'.spec = got.spec
        /\ got'.deleting = got.deleting
        /\ got'.hash = got.spec.data /\ got'.up = TRUE
    BY <1>1, <2>1 DEF Resource
  <2> QED
    BY <1>1, <1>2, <2>2 DEF Save, SaveBad, SaveFail, SaveNotDone, Remove, Holding
<1>3. CASE SaveBad \/ SaveFail
  <2>1. got' = [got EXCEPT !.up = FALSE]
    BY <1>3 DEF SaveBad, SaveFail, SaveNotDone, NotUploaded
  <2>2. /\ got' \in Resource
        /\ got'.rv = got.rv /\ got'.spec = got.spec
        /\ got'.deleting = got.deleting /\ got'.up = FALSE
    BY <1>1, <2>1 DEF Resource
  <2> QED
    BY <1>1, <1>3, <2>2 DEF Save, SaveBad, SaveFail, SaveNotDone, Remove, Holding
<1>4. CASE Remove
  BY <1>1, <1>4 DEF Save, SaveBad, SaveFail, SaveNotDone, Remove, Holding
<1> QED
  BY <1>2, <1>3, <1>4

LEMMA VersionsUpload ==
    ASSUME TypeInv, Versions, Save \/ SaveBad \/ SaveFail \/ Remove
    PROVE  Versions'
<1>1. got.spec.data \in Nat /\ Sound(cur, got)
  BY Uploading, ResourceType, ControllerAssumption, NoneAssumption
     DEF Versions, AllSane, Sane
<1>2. cur \notin Rollback /\ got'.hash # None => got'.hash <= got.spec.data
  <2>1. CASE Save
    BY <1>1, <2>1, Uploading
  <2>2. CASE SaveBad \/ SaveFail \/ Remove
    <3>1. got'.hash = got.hash
      BY <2>2, Uploading DEF SaveBad, SaveFail, SaveNotDone, NotUploaded, Remove,
         Resource
    <3> QED
      BY <1>1, <3>1 DEF Sound
  <2> QED
    BY <2>1, <2>2
<1>3. pc' # "down"
  BY Uploading DEF Holding
<1> QED
  BY <1>2, <1>3, Uploading, VersionsKept

LEMMA VersionsStep ==
    ASSUME TypeInv, Versions, [Next]_vars
    PROVE  Versions'
<1>1. ASSUME NEW n \in Name, UserCreate(n) \/ UserEdit(n) \/ UserDelete(n)
      PROVE  Versions'
  BY <1>1, UserWrites, VersionsWrite, VersionsKept DEF UserFrame, Versions
<1>2. ASSUME NEW n \in Name, WatchDeliver(n)
      PROVE  Versions'
  BY <1>2, VersionsDeliver
<1>3. CASE SecretCreated \/ Resync \/ MinioInit \/ UNCHANGED vars
  BY <1>3, VersionsKept DEF SecretCreated, Resync, MinioInit, vars, apiVars,
     ctlVars
<1>4. ASSUME NEW n \in Name, Dequeue(n)
      PROVE  Versions'
  BY <1>4, VersionsKept DEF Dequeue
<1>5. CASE MinioMissing \/ StatusConflict \/ StatusFail \/ RemoveFail
           \/ DropConflict \/ DropFail
  BY <1>5, VersionsKept DEF MinioMissing, StatusConflict, StatusFail,
     RemoveFail, DropConflict, DropFail, Requeue
<1>6. CASE Fetch
  BY <1>6, VersionsFetch
<1>7. CASE Save \/ SaveBad \/ SaveFail \/ Remove
  BY <1>7, VersionsUpload
<1>8. CASE StatusOk \/ FailedStatus \/ DropFinalizer
  BY <1>8, UpdateWrites, VersionsWrite, VersionsKept DEF Holding
<1>9. CASE Crash
  BY <1>9 DEF Crash, Versions, AllSane, InOrder, UpToDate, Holding, Sane,
     TypeInv, TypeOK
<1>10. CASE Start
  BY <1>10 DEF Start, Versions, AllSane, InOrder, LeadsUp, UpToDate, Holding,
     Sane, apiVars
<1> QED
  BY <1>1, <1>2, <1>3, <1>4, <1>5, <1>6, <1>7, <1>8, <1>9, <1>10
     DEF Next, Reconcile

LEMMA VersionsInvariant == Spec => []Versions
<1>1. TypeInv /\ Versions /\ [Next]_vars => Versions'
  BY VersionsStep
<1> QED
  BY <1>1, VersionsInit, TypeInvariant, PTL DEF Spec

-----------------------------------------------------------------------------
(* Steps: what Reconcile has done so far with the resource it holds, and   *)
(* what goes with it when the resource goes.                               *)

Steps ==
    /\ pc \in {"save", "status", "failed"} => ~ got.deleting
    /\ pc \in {"remove", "finalizer"} => got.deleting
    /\ pc = "status" => Stored(got) /\ Claimed(got)
    /\ pc = "failed" => ~ got.up
    /\ pc = "finalizer" => store[got.spec.obj] = None

LEMMA StepsStep ==
    ASSUME TypeInv, Steps, [Next]_vars
    PROVE  Steps'
<1>1. CASE UNCHANGED <<ctlVars, store>>
  BY <1>1 DEF Steps, ctlVars, Stored, Claimed
<1>2. CASE Return \/ pc' \in {"down", "idle", "minio"}
  BY <1>2 DEF Return, Steps
<1>3. CASE Fetch
  BY <1>3 DEF Fetch, Done, Return, Steps
<1>4. CASE Save
  <2>1. /\ got'.spec = got.spec /\ got'.deleting = got.deleting
        /\ got'.hash = got.spec.data /\ got'.up = TRUE
        /\ pc = "save" /\ pc' = "status"
        /\ store' = [store EXCEPT ![got.spec.obj] = got.spec.data]
    BY <1>4, Uploading DEF Save
  <2>2. store'[got.spec.obj] = got.spec.data
    BY <1>4, <2>1, Uploading, ResourceType DEF TypeInv, TypeOK
  <2> QED
    BY <2>1, <2>2 DEF Steps, Stored, Claimed
<1>5. CASE SaveBad \/ SaveFail
  <2>1. /\ got'.deleting = got.deleting /\ got'.up = FALSE
        /\ pc = "save" /\ pc' = "failed"
    BY <1>5, Uploading DEF SaveBad, SaveFail, SaveNotDone
  <2> QED
    BY <2>1 DEF Steps
<1>6. CASE Remove
  <2>1. store'[got.spec.obj] = None
    BY <1>6, Uploading, ResourceType DEF WithoutObject, TypeInv, TypeOK
  <2> QED
    BY <1>6, <2>1 DEF Remove, Steps
<1>7. CASE \E n \in Name : UserCreate(n) \/ UserEdit(n) \/ UserDelete(n)
                           \/ WatchDeliver(n)
  BY <1>1, <1>7 DEF UserCreate, UserEdit, UserDelete, UserFrame, WatchDeliver
<1>8. CASE SecretCreated \/ Resync \/ MinioInit \/ UNCHANGED vars
  BY <1>1, <1>8 DEF SecretCreated, Resync, MinioInit, vars, ctlVars
<1>9. CASE Crash \/ Start \/ \E n \in Name : Dequeue(n)
  BY <1>2, <1>9 DEF Crash, Start, Dequeue
<1>10. CASE \/ MinioMissing \/ StatusOk \/ StatusConflict \/ StatusFail
            \/ FailedStatus \/ RemoveFail
            \/ DropFinalizer \/ DropConflict \/ DropFail
  BY <1>2, <1>10 DEF MinioMissing, StatusOk, StatusConflict, StatusFail,
     FailedStatus, RemoveFail, DropFinalizer, DropConflict, DropFail, Done,
     Requeue
<1> QED
  BY <1>3, <1>4, <1>5, <1>6, <1>7, <1>8, <1>9, <1>10 DEF Next, Reconcile

LEMMA StepsInvariant == Spec => []Steps
<1>1. Init => Steps
  BY DEF Init, Steps
<1>2. TypeInv /\ Steps /\ [Next]_vars => Steps'
  BY StepsStep
<1> QED
  BY <1>1, <1>2, TypeInvariant, PTL DEF Spec

\* When users put the finalizer on what they create, it stays there.
Finalized ==
    FALSE \notin Finalizers => \A n \in Name : api[n] # None => api[n].fin

\* A resource in the API server changes by a write of a user, or by one of
\* the controller about the resource it holds.
LEMMA ApiChanges ==
    ASSUME TypeInv, Versions, Finalized, [Next]_vars
    PROVE  \/ UNCHANGED api
           \/ \E n \in Name, x \in Resource \cup {None} :
                 /\ api' = [api EXCEPT ![n] = x]
                 /\ FALSE \notin Finalizers =>
                       IF x = None THEN DropFinalizer /\ n = cur ELSE x.fin
<1>1. CASE \E n \in Name : UserCreate(n) \/ UserEdit(n) \/ UserDelete(n)
  BY <1>1, UserWrites DEF Finalized, Writes, apiVars, Versions
<1>2. CASE StatusOk \/ FailedStatus
  <2>1. Holding /\ ((Current(got) /\ PutStatus(got)) \/ UNCHANGED apiVars)
    BY <1>2 DEF StatusOk, FailedStatus, Holding
  <2>2. cur \in Name /\ (Current(got) => api[cur] # None)
    BY <2>1 DEF TypeInv, Holding, Current
  <2> QED
    BY <2>1, <2>2, StatusWrites, NoneAssumption DEF Finalized, Writes, apiVars
<1>3. CASE DropFinalizer
  BY <1>3 DEF DropFinalizer, Erase, TypeInv
<1>4. CASE \/ SecretCreated \/ Resync \/ MinioInit \/ MinioMissing \/ Fetch
           \/ \E n \in Name : WatchDeliver(n) \/ Dequeue(n)
           \/ Crash \/ Start \/ UNCHANGED vars
  BY <1>4 DEF SecretCreated, Resync, MinioInit, MinioMissing, Fetch,
     WatchDeliver, Dequeue, Crash, Start, vars, apiVars
<1>5. CASE \/ Save \/ SaveBad \/ SaveFail \/ Remove \/ RemoveFail
           \/ StatusConflict \/ StatusFail \/ DropConflict \/ DropFail
  BY <1>5 DEF Save, SaveBad, SaveFail, SaveNotDone, Remove, RemoveFail,
     StatusConflict, StatusFail, DropConflict, DropFail, apiVars
<1> QED
  BY <1>1, <1>2, <1>3, <1>4, <1>5 DEF Next, Reconcile

LEMMA FinalizedInvariant == Spec => []Finalized
<1>1. Init => Finalized
  BY DEF Init, Finalized
<1>2. TypeInv /\ Versions /\ Finalized /\ [Next]_vars => Finalized'
  BY ApiChanges DEF Finalized, TypeInv, TypeOK
<1> QED
  BY <1>1, <1>2, TypeInvariant, VersionsInvariant, PTL DEF Spec

\* "With delete action on CRD the corresponding data from the MinIO server
\* will be deleted as well": when users create resources with the finalizer
\* of the controller on them, as the sample of the repository does, none
\* leaves the cluster with its object in the bucket.
THEOREM DeletedAfterObject ==
    ASSUME FALSE \notin Finalizers
    PROVE  Spec => DeleteRemovesObject
<1>1. ASSUME TypeInv, Versions, Finalized, Steps, [Next]_vars
      PROVE  [\A n \in Name : api[n] # None /\ api'[n] = None
                  => store[api[n].spec.obj] = None]_vars
  <2>1. ASSUME NEW n \in Name, api[n] # None, api'[n] = None
        PROVE  DropFinalizer /\ n = cur
    BY <1>1, <2>1, ApiChanges DEF TypeInv, TypeOK
  <2>2. DropFinalizer => store[api[cur].spec.obj] = None
    BY <1>1 DEF DropFinalizer, Steps, Versions, UpToDate, Holding
  <2> QED
    BY <2>1, <2>2
<1> QED
  BY <1>1, TypeInvariant, VersionsInvariant, FinalizedInvariant,
     StepsInvariant, PTL DEF Spec, DeleteRemovesObject

-----------------------------------------------------------------------------
(* Truth: as long as a resource is shown as uploaded, nothing the          *)
(* controller knows of it can make it store or remove anything else.       *)

Agrees(n, r) == r # None /\ r.spec = api[n].spec /\ ~ r.deleting

\* The users of a resource only go forward in its data, and it has an object of
\* its own; others may share theirs.
Forward(n) == n \notin Rollback /\ OwnObject(n)

Faithful(n) ==
    Live(n) /\ Claimed(api[n]) =>
        /\ Stored(api[n])
        /\ pc # "down" => /\ Agrees(n, cache[n])
                          /\ \A i \in 1 .. Len(watch[n]) : Agrees(n, watch[n][i])
        /\ Holding /\ cur = n => Agrees(n, got)

Truth == \A n \in Name : Forward(n) => Faithful(n)

\* A step that concerns other resources, or other objects.
LEMMA Untouched ==
    ASSUME NEW n \in Name, Faithful(n),
           api'[n] = api[n], cache'[n] = cache[n], watch'[n] = watch[n],
           Stored(api[n]) => Stored(api[n])',
           pc = "down" => pc' = "down",
           Holding' /\ cur' = n =>
               /\ Holding /\ cur = n
               /\ got # None => got' # None
               /\ got'.spec = got.spec /\ got'.deleting = got.deleting
    PROVE  Faithful(n)'
BY DEF Faithful, Live, Claimed, Agrees

LEMMA TruthInit == Init => Truth
BY DEF Init, Truth, Faithful, Live

\* What the worker holds names another object than a resource with its own.
LEMMA OtherObject ==
    ASSUME TypeInv, AllSane, Holding,
           NEW n \in Name, n # cur, OwnObject(n), api[n] # None
    PROVE  got.spec.obj # api[n].spec.obj
<1>1. /\ cur \in Name /\ got \in Resource /\ got # None
  BY NoneAssumption DEF TypeInv, Holding
<1>2. got.spec \in Specs[cur] /\ api[n].spec \in Specs[n]
  BY <1>1 DEF AllSane, Sane, Sound
<1> QED
  BY <1>1, <1>2 DEF OwnObject

LEMMA TruthUpload ==
    ASSUME TypeInv, Versions, Steps, Truth,
           Save \/ SaveBad \/ SaveFail \/ Remove \/ RemoveFail
    PROVE  Truth'
<1> SUFFICES ASSUME NEW n \in Name, Forward(n), Live(n) /\ Claimed(api[n])
             PROVE  Faithful(n)'
  <2>1. UNCHANGED api
    BY Uploading DEF RemoveFail, apiVars
  <2> QED
    BY <2>1 DEF Truth, Faithful, Live, Claimed
<1>1. /\ Holding /\ got \in Resource /\ got # None
      /\ UNCHANGED <<api, watch, cache>>
      /\ pc # "down"
  BY Uploading, NoneAssumption DEF RemoveFail, apiVars, Holding, TypeInv
<1>2. Holding' => /\ cur' = cur /\ got' # None /\ got'.spec = got.spec
                  /\ got'.deleting = got.deleting
  BY Uploading, NoneAssumption DEF RemoveFail, Requeue, Return, Holding
<1>3. n = cur => pc = "save" /\ Agrees(n, got)
  BY <1>1, Uploading DEF Truth, Faithful, Agrees, Steps, RemoveFail
<1>4. store' \in {store, WithoutObject,
                  [store EXCEPT ![got.spec.obj] = got.spec.data]}
  BY Uploading DEF RemoveFail
<1>5. Stored(api[n])'
  <2>1. Stored(api[n]) /\ api[n].spec.obj \in Object
    BY ResourceType DEF Truth, Faithful, TypeInv, TypeOK, Live
  <2>2. CASE n = cur
    <3>1. got.spec = api[n].spec /\ pc = "save"
      BY <1>3, <2>2 DEF Agrees
    <3>2. store' \in {store, [store EXCEPT ![got.spec.obj] = got.spec.data]}
      BY <3>1, Uploading DEF RemoveFail, Remove
    <3> QED
      BY <1>1, <2>1, <3>1, <3>2 DEF Stored, TypeInv, TypeOK
  <2>3. CASE n # cur
    <3>1. got.spec.obj # api[n].spec.obj
      BY <1>1, <2>3, OtherObject DEF Versions, Forward, Live
    <3> QED
      BY <1>1, <1>4, <2>1, <3>1 DEF Stored, WithoutObject, TypeInv, TypeOK
  <2> QED
    BY <2>2, <2>3
<1> QED
  BY <1>1, <1>2, <1>5, Untouched DEF Truth

\* A write about one resource, by a user or at the end of Reconcile.
LEMMA TruthWrite ==
    ASSUME TypeInv, Truth, NEW n \in Name, NEW x \in Resource \cup {None},
           Writes(n, x), UNCHANGED <<cache, store>>,
           UNCHANGED ctlVars \/ (Return /\ pc # "down"),
           Forward(n) => Faithful(n)'
    PROVE  Truth'
<1> SUFFICES ASSUME NEW m \in Name, m # n, Forward(m)
             PROVE  Faithful(m)'
  BY DEF Truth
<1>1. api'[m] = api[m] /\ watch'[m] = watch[m]
  BY DEF Writes, Notify, TypeInv, TypeOK
<1> QED
  BY <1>1, Untouched DEF Truth, Stored, ctlVars, Return, Holding

\* The status of an upload is written: the informer is told of nothing else.
LEMMA TruthStatus ==
    ASSUME TypeInv, Versions, Steps, Truth, StatusOk \/ FailedStatus
    PROVE  Truth'
<1>1. /\ Return /\ pc \in {"status", "failed"} /\ Holding
      /\ cur \in Name /\ got \in Resource /\ UNCHANGED <<cache, store>>
      /\ (Current(got) /\ PutStatus(got)) \/ UNCHANGED apiVars
      /\ pc = "failed" => ~ got.up
      /\ pc = "status" => Stored(got)
  BY DEF StatusOk, FailedStatus, Done, Holding, TypeInv, Steps
<1>2. CASE UNCHANGED apiVars
  BY <1>1, <1>2, Untouched DEF apiVars, Truth, Stored, Return, Holding
<1>3. ASSUME NEW x \in Resource, NEW n \in Name, n = cur,
             Writes(n, x), x.up = got.up, x.spec = api[n].spec,
             x.deleting = api[n].deleting, Current(got)
      PROVE  Truth'
  <2>1. /\ watch[n] = <<>> /\ got.spec = api[n].spec
        /\ cache[n] = api[n] /\ api[n] # None
    BY <1>1, <1>3 DEF Versions, UpToDate, InOrder, LeadsUp, Current
  <2>2. api'[n] = x /\ watch'[n] = <<x>> /\ x # None
    BY <1>1, <1>3, <2>1, NoneAssumption DEF Writes, Notify, TypeInv, TypeOK,
       Holding
  <2>3. ~ Holding' /\ pc # "down"
    BY <1>1 DEF Return, Holding
  <2>4. Live(n)' /\ Claimed(api[n])' => Stored(api[n])'
    <3>1. x.up => pc = "status"
      BY <1>1, <1>3
    <3>2. x.spec = got.spec
      BY <1>3, <2>1
    <3> QED
      BY <1>1, <2>2, <3>1, <3>2 DEF Claimed, Stored
  <2>5. Live(n)' => Agrees(n, cache[n])' /\ Agrees(n, x)'
    BY <1>1, <1>3, <2>1, <2>2 DEF Live, Agrees
  <2>6. /\ Len(watch'[n]) = 1 /\ watch'[n][1] = x
    BY <2>2
  <2>7. Faithful(n)'
    BY <2>3, <2>4, <2>5, <2>6 DEF Faithful, Agrees
  <2> QED
    BY <1>1, <1>3, <2>3, <2>7, TruthWrite
<1> QED
  BY <1>1, <1>2, <1>3, StatusWrites

LEMMA TruthStep ==
    ASSUME TypeInv, Versions, Steps, Truth, [Next]_vars
    PROVE  Truth'
<1>1. ASSUME NEW n \in Name, UserCreate(n) \/ UserEdit(n) \/ UserDelete(n)
      PROVE  Truth'
  <2>1. CASE UNCHANGED apiVars
    BY <1>1, <2>1, UserWrites, Untouched DEF Versions, UserFrame, apiVars,
       ctlVars, Truth, Stored, Holding
  <2>2. ASSUME NEW x \in Resource \cup {None}, Writes(n, x),
               Forward(n) => x = None \/ x.deleting \/ ~ Claimed(x)
        PROVE  Truth'
    <3>1. api'[n] = x
      BY <2>2 DEF Writes, TypeInv, TypeOK
    <3>2. Forward(n) => Faithful(n)'
      BY <2>2, <3>1 DEF Faithful, Live, Claimed
    <3> QED
      BY <1>1, <2>2, <3>2, UserWrites, TruthWrite DEF Versions, UserFrame
  <2> QED
    BY <1>1, <2>1, <2>2, UserWrites DEF Versions, Forward, OwnObject
<1>2. ASSUME NEW n \in Name, WatchDeliver(n)
      PROVE  Truth'
  <2>1. /\ UNCHANGED <<api, pc, cur, got, store>>
        /\ watch[n] # <<>> /\ watch[n] \in Seq(Resource \cup {None})
        /\ cache'[n] = Head(watch[n]) /\ watch'[n] = Tail(watch[n])
        /\ \A m \in Name \ {n} : watch'[m] = watch[m] /\ cache'[m] = cache[m]
    BY <1>2 DEF WatchDeliver, ctlVars, TypeInv, TypeOK
  <2>2. Forward(n) => Faithful(n)'
    <3>1. /\ cache'[n] = watch[n][1] /\ 1 \in 1 .. Len(watch[n])
          /\ \A i \in 1 .. Len(watch'[n]) :
                 i + 1 \in 1 .. Len(watch[n]) /\ watch'[n][i] = watch[n][i + 1]
      BY <2>1, HeadAndTail
    <3> QED
      BY <2>1, <3>1 DEF Truth, Faithful, Agrees, Live, Claimed, Stored, Holding
  <2> QED
    BY <2>1, <2>2, Untouched DEF Truth, Stored, Holding
<1>3. CASE Fetch
  <2>1. /\ UNCHANGED <<api, watch, cache, store>> /\ pc = "minio"
        /\ Holding' => cur' = cur /\ got' = cache[cur]
    BY <1>3 DEF Fetch, apiVars, Done, Return, Holding
  <2> QED
    BY <2>1 DEF Truth, Faithful, Agrees, Live, Claimed, Stored
<1>4. CASE Save \/ SaveBad \/ SaveFail \/ Remove \/ RemoveFail
  BY <1>4, TruthUpload
<1>5. CASE StatusOk \/ FailedStatus
  BY <1>5, TruthStatus
<1>6. CASE DropFinalizer
  <2>1. PICK n \in Name : n = cur
    BY <1>6 DEF DropFinalizer, TypeInv
  <2>2. Writes(n, None) /\ api'[n] = None
    BY <1>6, <2>1 DEF DropFinalizer, Erase, Writes, TypeInv, TypeOK
  <2>3. Faithful(n)'
    BY <2>2 DEF Faithful, Live
  <2> QED
    BY <1>6, <2>2, <2>3, TruthWrite DEF DropFinalizer, Done
<1>7. CASE Crash
  BY <1>7 DEF Crash, Truth, Faithful, Live, Claimed, Stored, Holding
<1>8. CASE Start
  BY <1>8 DEF Start, Truth, Faithful, Live, Claimed, Stored, Holding, Agrees,
     Versions, InOrder, apiVars
<1>9. CASE UNCHANGED <<apiVars, cache, store, ctlVars>>
  BY <1>9, Untouched DEF apiVars, ctlVars, Truth, Stored, Holding
<1>10. CASE UNCHANGED <<apiVars, cache, store>> /\ ~ Holding' /\ pc # "down"
  BY <1>10, Untouched DEF apiVars, Truth, Stored
<1>11. CASE SecretCreated \/ Resync \/ MinioInit \/ UNCHANGED vars
  BY <1>9, <1>11 DEF SecretCreated, Resync, MinioInit, vars, apiVars, ctlVars
<1>12. CASE \/ MinioMissing \/ StatusConflict \/ StatusFail
            \/ DropConflict \/ DropFail \/ \E n \in Name : Dequeue(n)
  BY <1>10, <1>12 DEF MinioMissing, StatusConflict, StatusFail, DropConflict,
     DropFail, Dequeue, Requeue, Return, Holding
<1> QED
  BY <1>1, <1>2, <1>3, <1>4, <1>5, <1>6, <1>7, <1>8, <1>11, <1>12
     DEF Next, Reconcile

LEMMA TruthInvariant == Spec => []Truth
<1>1. TypeInv /\ Versions /\ Steps /\ Truth /\ [Next]_vars => Truth'
  BY TruthStep
<1> QED
  BY <1>1, TruthInit, TypeInvariant, VersionsInvariant, StepsInvariant,
     PTL DEF Spec

\* A resource with an object of its own whose users go forward only: what
\* `kubectl get snapshots` shows of it as uploaded is in the bucket, whoever
\* wrote what while Reconcile was running, and whatever the users of other
\* resources do.
THEOREM StatusOfOwnObject ==
    Spec => [](\A n \in Name : Forward(n) /\ Live(n) /\ Claimed(api[n])
                                   => Stored(api[n]))
<1>1. Truth => \A n \in Name : Forward(n) /\ Live(n) /\ Claimed(api[n])
                                    => Stored(api[n])
  BY DEF Truth, Faithful
<1> QED
  BY <1>1, TruthInvariant, PTL

\* When that goes for every resource, the status of all of them is true.
THEOREM StatusIsTruthful ==
    ASSUME \A n \in Name : Forward(n)
    PROVE  Spec => []StatusTruthful
<1>1. Truth => StatusTruthful
  BY DEF Truth, Faithful, StatusTruthful
<1> QED
  BY <1>1, TruthInvariant, PTL

-----------------------------------------------------------------------------
(* Kept: a resource that the controller may still upload has not left the  *)
(* cluster, so no object is left behind that nobody will remove.           *)

\* Every resource keeps the object it was created with; it may share it.
KeepObjects == \A n \in Name : KeepsObject(n)

Named(o) == \E n \in Name : api[n] # None /\ api[n].spec.obj = o

Kept ==
    /\ pc # "down" => \A n \in Name :
          /\ cache[n] # None /\ ~ cache[n].deleting => api[n] # None
          /\ \A i \in 1 .. Len(watch[n]) :
                watch[n][i] # None /\ ~ watch[n][i].deleting => api[n] # None
    /\ pc \in {"save", "status", "failed"} => api[cur] # None
    /\ \A o \in Object : store[o] # None => Named(o)

LEMMA KeptInit == Init => Kept
BY DEF Init, Kept

\* A resource is written, not erased, and keeps its object.
LEMMA KeptWrite ==
    ASSUME TypeInv, Versions, Kept, KeepObjects,
           NEW n \in Name, NEW x \in Resource,
           Writes(n, x), Sound(n, x), UNCHANGED <<cache, store>>,
           UNCHANGED ctlVars \/ (Return /\ pc # "down")
    PROVE  Kept'
<1>1. /\ api'[n] = x /\ x # None
      /\ \A m \in Name \ {n} : api'[m] = api[m] /\ watch'[m] = watch[m]
      /\ pc = "down" => pc' = "down"
  BY NoneAssumption DEF Writes, Notify, TypeInv, TypeOK, ctlVars
<1>2. \A m \in Name : api[m] # None => api'[m] # None
  BY <1>1
<1>3. \A o : Named(o) => Named(o)'
  <2>1. api[n] # None => x.spec.obj = api[n].spec.obj
    BY DEF Versions, AllSane, Sane, Sound, KeepObjects, KeepsObject
  <2> QED
    BY <1>1, <2>1 DEF Named
<1>4. pc' \in {"save", "status", "failed"} => api'[cur'] # None
  BY <1>2 DEF Kept, Return, ctlVars, TypeInv
<1>5. ASSUME NEW m \in Name, pc' # "down"
      PROVE  /\ cache[m] # None /\ ~ cache[m].deleting => api'[m] # None
             /\ \A i \in 1 .. Len(watch'[m]) :
                   watch'[m][i] # None /\ ~ watch'[m][i].deleting
                       => api'[m] # None
  BY <1>1, <1>2, <1>5 DEF Kept
<1> QED
  BY <1>3, <1>4, <1>5 DEF Kept

LEMMA KeptUpload ==
    ASSUME TypeInv, Versions, Kept, KeepObjects,
           Save \/ SaveBad \/ SaveFail \/ Remove \/ RemoveFail
    PROVE  Kept'
<1>1. /\ UNCHANGED <<api, watch, cache>> /\ Holding /\ pc # "down"
      /\ got \in Resource /\ cur \in Name /\ got # None
  BY Uploading, NoneAssumption DEF RemoveFail, apiVars, Holding, TypeInv
<1>2. pc' \in {"save", "status", "failed"} => api'[cur'] # None
  BY <1>1, Uploading DEF Kept, RemoveFail, Requeue, Return
<1>3. ASSUME NEW o \in Object, store'[o] # None
      PROVE  Named(o)
  <2>1. CASE store[o] # None
    BY <2>1 DEF Kept
  <2>2. CASE store[o] = None
    <3>1. o = got.spec.obj /\ pc = "save"
      BY <1>3, <2>2, Uploading DEF RemoveFail, WithoutObject, TypeInv, TypeOK,
         Remove
    <3>2. api[cur] # None /\ api[cur].spec \in Specs[cur]
      BY <1>1, <3>1 DEF Kept, Versions, AllSane, Sane, Sound
    <3>3. got.spec \in Specs[cur]
      BY <1>1 DEF Versions, AllSane, Sane, Sound
    <3> QED
      BY <1>1, <3>1, <3>2, <3>3 DEF Named, KeepObjects, KeepsObject
  <2> QED
    BY <2>1, <2>2
<1>4. \A o : Named(o)' <=> Named(o)
  BY <1>1 DEF Named
<1> QED
  BY <1>1, <1>2, <1>3, <1>4 DEF Kept

\* The resource goes: the informer knows that it was being deleted, and its
\* object has gone before.
LEMMA KeptDrop ==
    ASSUME TypeInv, Versions, Steps, Kept, DropFinalizer
    PROVE  Kept'
<1>1. PICK n \in Name : n = cur
  BY DEF DropFinalizer, TypeInv
<1>2. /\ UNCHANGED <<cache, store>> /\ pc' = "idle" /\ pc # "down" /\ Holding
      /\ api[n] # None /\ api'[n] = None /\ watch[n] = <<>>
      /\ watch'[n] = <<None>>
      /\ \A m \in Name \ {n} : api'[m] = api[m] /\ watch'[m] = watch[m]
      /\ got.spec = api[n].spec /\ got.deleting = api[n].deleting
      /\ got.deleting /\ store[got.spec.obj] = None
      /\ cache[n] = api[n]
  BY <1>1 DEF DropFinalizer, Erase, Notify, Done, Return, Holding, Current,
     TypeInv, TypeOK, Versions, UpToDate, Steps, InOrder, LeadsUp
<1>3. ASSUME NEW o \in Object, store'[o] # None
      PROVE  Named(o)'
  BY <1>2, <1>3 DEF Kept, Named
<1>4. ASSUME NEW m \in Name
      PROVE  /\ cache[m] # None /\ ~ cache[m].deleting => api'[m] # None
             /\ \A i \in 1 .. Len(watch'[m]) :
                   watch'[m][i] # None /\ ~ watch'[m][i].deleting
                       => api'[m] # None
  <2>1. CASE m # n
    BY <1>2, <2>1 DEF Kept
  <2>2. CASE m = n
    <3>1. Len(<<None>>) = 1 /\ <<None>>[1] = None
      OBVIOUS
    <3> QED
      BY <1>2, <2>2, <3>1
  <2> QED
    BY <2>1, <2>2
<1> QED
  BY <1>2, <1>3, <1>4 DEF Kept

LEMMA KeptStep ==
    ASSUME TypeInv, Versions, Steps, Finalized, Kept, KeepObjects,
           FALSE \notin Finalizers, [Next]_vars
    PROVE  Kept'
<1>1. ASSUME UNCHANGED <<api, watch, cache, store>>, pc = "down" => pc' = "down",
             pc' \in {"save", "status", "failed"} =>
                 pc = pc' /\ cur' = cur
      PROVE  Kept'
  BY <1>1 DEF Kept, Named
<1>2. ASSUME NEW n \in Name, UserCreate(n) \/ UserEdit(n) \/ UserDelete(n)
      PROVE  Kept'
  <2>1. CASE UNCHANGED apiVars
    BY <1>1, <1>2, <2>1, UserWrites DEF Versions, UserFrame, apiVars, ctlVars
  <2>2. ASSUME NEW x \in Resource, Writes(n, x), x # None, Sound(n, x)
        PROVE  Kept'
    BY <1>2, <2>2, UserWrites, KeptWrite DEF Versions, UserFrame
  <2> QED
    BY <1>2, <2>1, <2>2, UserWrites DEF Versions, Finalized
<1>3. ASSUME NEW n \in Name, WatchDeliver(n)
      PROVE  Kept'
  <2>1. /\ UNCHANGED <<api, pc, cur, got, store>>
        /\ watch[n] # <<>> /\ watch[n] \in Seq(Resource \cup {None})
        /\ cache'[n] = Head(watch[n]) /\ watch'[n] = Tail(watch[n])
        /\ \A m \in Name \ {n} : watch'[m] = watch[m] /\ cache'[m] = cache[m]
    BY <1>3 DEF WatchDeliver, ctlVars, TypeInv, TypeOK
  <2>2. /\ cache'[n] = watch[n][1] /\ 1 \in 1 .. Len(watch[n])
        /\ \A i \in 1 .. Len(watch'[n]) :
               i + 1 \in 1 .. Len(watch[n]) /\ watch'[n][i] = watch[n][i + 1]
    BY <2>1, HeadAndTail
  <2>3. ASSUME NEW m \in Name, pc # "down"
        PROVE  /\ cache'[m] # None /\ ~ cache'[m].deleting => api'[m] # None
               /\ \A i \in 1 .. Len(watch'[m]) :
                     watch'[m][i] # None /\ ~ watch'[m][i].deleting
                         => api'[m] # None
    <3>1. CASE m = n
      BY <2>1, <2>2, <2>3, <3>1 DEF Kept
    <3>2. CASE m # n
      BY <2>1, <2>3, <3>2 DEF Kept
    <3> QED
      BY <3>1, <3>2
  <2> QED
    BY <2>1, <2>3 DEF Kept, Named
<1>4. CASE Fetch
  <2>1. /\ UNCHANGED <<api, watch, cache, store>> /\ pc = "minio" /\ cur \in Name
        /\ pc' # "down" /\ pc' \notin {"status", "failed"}
        /\ pc' = "save" =>
              cur' = cur /\ cache[cur] # None /\ ~ cache[cur].deleting
    BY <1>4 DEF Fetch, apiVars, Done, Return, TypeInv
  <2> QED
    BY <2>1 DEF Kept, Named
<1>5. CASE Save \/ SaveBad \/ SaveFail \/ Remove \/ RemoveFail
  BY <1>5, KeptUpload
<1>6. CASE StatusOk \/ FailedStatus
  <2>1. /\ Return /\ Holding /\ pc # "down" /\ UNCHANGED <<cache, store>>
        /\ (Current(got) /\ PutStatus(got)) \/ UNCHANGED apiVars
        /\ cur \in Name
    BY <1>6 DEF StatusOk, FailedStatus, Done, Holding, TypeInv
  <2>2. CASE UNCHANGED apiVars
    BY <1>1, <2>1, <2>2 DEF apiVars, Return
  <2> PICK n \in Name : n = cur
    BY <2>1
  <2>3. ASSUME NEW x \in Resource, Writes(n, x), Sound(n, x)
        PROVE  Kept'
    BY <2>1, <2>3, KeptWrite
  <2> QED
    BY <2>1, <2>2, <2>3, StatusWrites
<1>7. CASE DropFinalizer
  BY <1>7, KeptDrop
<1>8. CASE Crash
  BY <1>8 DEF Crash, Kept, Named
<1>9. CASE Start
  BY <1>9 DEF Start, Kept, Named, Versions, InOrder, apiVars
<1>10. CASE SecretCreated \/ Resync \/ MinioInit \/ UNCHANGED vars
  BY <1>1, <1>10 DEF SecretCreated, Resync, MinioInit, vars, apiVars, ctlVars
<1>11. CASE \/ MinioMissing \/ StatusConflict \/ StatusFail
            \/ DropConflict \/ DropFail \/ \E n \in Name : Dequeue(n)
  BY <1>1, <1>11 DEF MinioMissing, StatusConflict, StatusFail, DropConflict,
     DropFail, Dequeue, Requeue, Return, apiVars
<1> QED
  BY <1>2, <1>3, <1>4, <1>5, <1>6, <1>7, <1>8, <1>9, <1>10, <1>11
     DEF Next, Reconcile

\* When users create resources with the finalizer on them and do not change
\* the object a resource names, no object is ever in the bucket that no
\* resource of the cluster names: not even between two steps of Reconcile.
THEOREM NothingLeftBehind ==
    ASSUME FALSE \notin Finalizers, KeepObjects
    PROVE  Spec => [](Orphans = {})
<1>1. TypeInv /\ Versions /\ Steps /\ Finalized /\ Kept /\ [Next]_vars => Kept'
  BY KeptStep
<1>2. Kept => Orphans = {}
  BY DEF Kept, Orphans, Named
<1> QED
  BY <1>1, <1>2, KeptInit, TypeInvariant, VersionsInvariant, StepsInvariant,
     FinalizedInvariant, PTL DEF Spec

-----------------------------------------------------------------------------
(* Pending: a resource with an object of its own that is not settled is on *)
(* somebody's list.                                                        *)

Noticed(n) == n \in queue \/ watch[n] # <<>>

Handled(n) ==
    \/ pc = "down"
    \/ Settled(n)
    \/ Noticed(n)
    \/ cur = n /\ pc # "idle"

Pending ==
    /\ \A n \in Name : Forward(n) => Handled(n)
    /\ Holding => Current(got) \/ Noticed(cur)
    /\ pc \in {"save", "status", "failed"} /\ Current(got) =>
           UploadDue(api[cur])
    /\ pc = "failed" => got.spec.data \in BadData

LEMMA PendingInit == Init => Pending
BY DEF Init, Pending, Handled, Holding

\* A step that concerns other resources, or other objects.
LEMMA HandledKept ==
    ASSUME NEW n \in Name, Handled(n), api'[n] = api[n], watch'[n] = watch[n],
           n \in queue => n \in queue',
           Stored(api[n]) => Stored(api[n])',
           pc = "down" => pc' = "down",
           cur = n /\ pc \notin {"down", "idle"} => cur' = n /\ pc' # "idle"
    PROVE  Handled(n)'
BY DEF Handled, Settled, Live, Claimed, Noticed

\* A write about one resource, by a user or at the end of Reconcile.
LEMMA PendingWrite ==
    ASSUME TypeInv, Versions, Pending,
           NEW n \in Name, NEW x \in Resource \cup {None}, Writes(n, x),
           x # None => x.rv = lastRv + 1,
           UNCHANGED <<cache, queue, store>>,
           UNCHANGED ctlVars \/ (Return /\ Holding /\ cur = n)
    PROVE  Pending'
<1>1. /\ api'[n] = x /\ lastRv \in Nat
      /\ \A m \in Name \ {n} : api'[m] = api[m] /\ watch'[m] = watch[m]
      /\ pc = "down" => pc' = "down" /\ cur' = cur
      /\ pc # "down" => watch'[n] # <<>>
  <2>1. Append(watch[n], x) # <<>>
    <3>1. watch[n] \in Seq(Resource \cup {None})
      BY DEF TypeInv, TypeOK
    <3> QED
      BY <3>1
  <2> QED
    BY <2>1 DEF Writes, Notify, TypeInv, TypeOK, ctlVars, Holding
<1>2. ASSUME NEW m \in Name, Forward(m)
      PROVE  Handled(m)'
  <2>1. CASE m = n
    BY <1>1, <2>1 DEF Handled, Noticed
  <2>2. CASE m # n
    BY <1>1, <1>2, <2>2, HandledKept DEF Pending, Stored, ctlVars, Return,
       Holding
  <2> QED
    BY <2>1, <2>2
<1>3. CASE UNCHANGED ctlVars /\ Holding /\ cur = n
  <2>1. got.rv <= lastRv /\ got \in Resource
    BY <1>3, NoneAssumption DEF Versions, AllSane, Sane, TypeInv
  <2>2. ~ Current(got)'
    BY <1>1, <1>3, <2>1, ResourceType DEF Current, ctlVars
  <2>3. Noticed(cur)'
    BY <1>1, <1>3 DEF Noticed, ctlVars, Holding
  <2> QED
    BY <1>2, <1>3, <2>2, <2>3 DEF Pending, ctlVars
<1>4. CASE UNCHANGED ctlVars /\ Holding /\ cur # n
  BY <1>1, <1>2, <1>4 DEF Pending, Current, ctlVars, Holding, Noticed, UploadDue,
     TypeInv
<1>5. CASE ~ Holding'
  BY <1>2, <1>5 DEF Pending, Holding
<1> QED
  BY <1>3, <1>4, <1>5 DEF Return, ctlVars, Holding

\* Reconcile returns.  It has to account for the resource it worked on.
LEMMA PendingReturn ==
    ASSUME TypeInv, Pending, Return, pc # "down", NEW n \in Name, n = cur,
           UNCHANGED <<api, watch>>, queue \subseteq queue',
           \A m \in Name \ {n} : Forward(m) /\ Settled(m) => Settled(m)',
           Forward(n) => Settled(n)' \/ n \in queue' \/ watch[n] # <<>>
    PROVE  Pending'
BY DEF Pending, Handled, Noticed, Return, Holding

\* An upload or a removal leaves the objects of the others alone.
LEMMA OthersSettled ==
    ASSUME TypeInv, Versions, NEW n \in Name, Forward(n), Settled(n), n # cur,
           Save \/ SaveBad \/ SaveFail \/ Remove \/ RemoveFail
    PROVE  Settled(n)'
<1>1. UNCHANGED api /\ Holding /\ got \in Resource
  BY Uploading DEF RemoveFail, apiVars, Holding, TypeInv
<1>2. store' \in {store, WithoutObject,
                  [store EXCEPT ![got.spec.obj] = got.spec.data]}
  BY Uploading DEF RemoveFail
<1>3. api[n] # None /\ Stored(api[n]) => Stored(api[n])'
  <2>1. api[n] # None => /\ api[n].spec.obj \in Object
                         /\ got.spec.obj # api[n].spec.obj
    BY <1>1, ResourceType, OtherObject DEF TypeInv, TypeOK, Versions, Forward
  <2> QED
    BY <1>1, <1>2, <2>1 DEF Stored, WithoutObject, TypeInv, TypeOK
<1> QED
  BY <1>1, <1>3 DEF Settled, Live, Claimed

LEMMA PendingFetch ==
    ASSUME TypeInv, Versions, Truth, Pending, Fetch
    PROVE  Pending'
<1>1. PICK n \in Name : n = cur
  BY DEF Fetch, TypeInv
<1>2. /\ UNCHANGED <<api, watch, cache, store, queue>> /\ pc = "minio"
      /\ LeadsUp(n) /\ (Forward(n) => Faithful(n))
      /\ api[n] \in Resource \cup {None} /\ cache[n] \in Resource \cup {None}
  BY <1>1 DEF Fetch, Done, apiVars, Versions, InOrder, Truth, TypeInv, TypeOK
<1>3. CASE /\ Return
           /\ cache[n] = None \/ (~ cache[n].deleting /\ ~ UploadDue(cache[n]))
  <2>1. Forward(n) /\ watch[n] = <<>> => Settled(n)
    BY <1>2, <1>3 DEF LeadsUp, Faithful, UploadDue, Settled, Live, Claimed
  <2>2. \A m \in Name : Settled(m) => Settled(m)'
    BY <1>2 DEF Settled, Live, Claimed, Stored
  <2> QED
    BY <1>1, <1>2, <1>3, <2>1, <2>2, PendingReturn
<1>4. CASE /\ pc' \in {"save", "remove"} /\ cur' = n /\ got' = cache[n]
           /\ cache[n] # None
           /\ pc' = "save" => UploadDue(cache[n])
  <2>1. \A m \in Name : Forward(m) => Handled(m)'
    BY <1>1, <1>2, <1>4, HandledKept DEF Pending, Stored
  <2>2. CASE watch[n] = <<>>
    BY <1>2, <1>4, <2>1, <2>2 DEF LeadsUp, Pending, Current, UploadDue
  <2>3. CASE watch[n] # <<>>
    <3>1. api[n] # None => cache[n].rv < api[n].rv
      BY <1>2, <1>4, <2>3 DEF LeadsUp, Behind
    <3>2. ~ Current(got)'
      BY <1>2, <1>4, <3>1, ResourceType DEF Current
    <3> QED
      BY <1>2, <1>4, <2>1, <2>3, <3>2 DEF Pending, Noticed
  <2> QED
    BY <2>2, <2>3
<1> QED
  BY <1>1, <1>3, <1>4 DEF Fetch, Done

LEMMA PendingUpload ==
    ASSUME TypeInv, Versions, Pending, ~ SaveFails,
           Save \/ SaveBad \/ SaveFail \/ Remove
    PROVE  Pending'
<1>1. /\ UNCHANGED <<api, watch, queue, cur>> /\ Holding /\ Holding'
      /\ got'.rv = got.rv /\ got'.spec = got.spec
  BY Uploading DEF apiVars
<1>2. \A n \in Name : Forward(n) => Handled(n)'
  BY <1>1, OthersSettled DEF Handled, Pending, Noticed, Holding
<1>3. Current(got)' <=> Current(got)
  BY <1>1 DEF Current
<1>4. Current(got)' \/ Noticed(cur)'
  BY <1>1, <1>3 DEF Pending, Noticed
<1>5. pc' \in {"save", "status", "failed"} /\ Current(got)' =>
          UploadDue(api[cur])'
  BY <1>1, <1>3, Uploading DEF Pending, UploadDue
<1>6. pc' = "failed" => got'.spec.data \in BadData
  BY <1>1, Uploading DEF SaveBad, SaveFail, Save
<1> QED
  BY <1>2, <1>4, <1>5, <1>6 DEF Pending

LEMMA PendingStatus ==
    ASSUME TypeInv, Versions, Steps, Pending, StatusOk \/ FailedStatus
    PROVE  Pending'
<1>1. PICK n \in Name : n = cur
  BY DEF StatusOk, FailedStatus, TypeInv
<1>2. /\ Return /\ pc \in {"status", "failed"} /\ Holding
      /\ UNCHANGED <<cache, store, queue>>
      /\ (Current(got) /\ PutStatus(got)) \/ (UNCHANGED apiVars /\ pc = "failed")
      /\ got \in Resource
  BY DEF StatusOk, FailedStatus, Done, Holding, TypeInv
<1>3. ASSUME NEW x \in Resource, Writes(n, x), x.rv = lastRv + 1
      PROVE  Pending'
  BY <1>1, <1>2, <1>3, PendingWrite
<1>4. CASE UNCHANGED apiVars
  <2>1. \A m \in Name : Settled(m) => Settled(m)'
    BY <1>2, <1>4 DEF Settled, Live, Claimed, Stored, apiVars
  <2>2. CASE ~ Current(got)
    BY <1>1, <1>2, <1>4, <2>1, <2>2, PendingReturn DEF Pending, Noticed, apiVars
  <2>3. CASE Current(got)
    <3>1. /\ api[n] # None /\ api[n] \in Resource
          /\ got.spec = api[n].spec /\ ~ api[n].deleting
          /\ UploadDue(api[n])
      BY <1>1, <1>2, <2>3 DEF Versions, UpToDate, Current, Steps, Pending,
         TypeInv, TypeOK
    <3>2. ~ Claimed(api[n])
      BY <3>1 DEF UploadDue, Claimed
    <3>3. pc = "failed" => Settled(n)
      BY <1>1, <3>1, <3>2 DEF Settled, Live, Pending
    <3>4. CASE pc = "status"
      <4>1. PutStatus(got) /\ Claimed(got)
        BY <1>2, <3>4 DEF Steps
      <4>2. api[n].up = got.up /\ api[n].hash = got.hash
        <5>1. lastRv' # lastRv + 1
          BY <1>4 DEF apiVars, TypeInv, TypeOK
        <5> QED
          BY <1>1, <1>2, <2>3, <4>1, <5>1, StatusWrites DEF Writes
      <4> QED
        BY <3>1, <3>2, <4>1, <4>2 DEF Claimed
    <3> QED
      BY <1>1, <1>2, <1>4, <2>1, <3>3, <3>4, PendingReturn DEF apiVars
  <2> QED
    BY <2>2, <2>3
<1> QED
  BY <1>1, <1>2, <1>3, <1>4, StatusWrites

LEMMA PendingStep ==
    ASSUME TypeInv, Versions, Steps, Truth, Pending, ~ SaveFails,
           [Next]_vars
    PROVE  Pending'
<1>1. ASSUME NEW n \in Name, UserCreate(n) \/ UserEdit(n) \/ UserDelete(n)
      PROVE  Pending'
  <2>1. UNCHANGED <<cache, queue, ctlVars, store>>
    BY <1>1, UserWrites DEF Versions, UserFrame
  <2>2. CASE UNCHANGED apiVars
    BY <2>1, <2>2 DEF Pending, Handled, Noticed, Settled, Live, Claimed, Stored,
       Current, Holding, UploadDue, apiVars, ctlVars
  <2>3. ASSUME NEW x \in Resource \cup {None}, Writes(n, x),
               x # None => x.rv = lastRv + 1
        PROVE  Pending'
    BY <2>1, <2>3, PendingWrite
  <2> QED
    BY <1>1, <2>2, <2>3, UserWrites DEF Versions
<1>2. ASSUME NEW n \in Name, WatchDeliver(n)
      PROVE  Pending'
  <2>1. /\ UNCHANGED <<api, pc, cur, got, store>>
        /\ queue' = queue \cup {n}
        /\ \A m \in Name \ {n} : watch'[m] = watch[m]
    BY <1>2 DEF WatchDeliver, ctlVars, TypeInv, TypeOK
  <2>2. \A m \in Name : Noticed(m) => Noticed(m)'
    BY <2>1 DEF Noticed
  <2> QED
    BY <2>1, <2>2 DEF Pending, Handled, Settled, Live, Claimed, Stored, Current,
       Holding, UploadDue, TypeInv
<1>3. ASSUME NEW n \in Name, Dequeue(n)
      PROVE  Pending'
  <2>1. /\ UNCHANGED <<api, watch, store>> /\ pc = "idle"
        /\ queue' = queue \ {n} /\ pc' = "minio" /\ cur' = n
    BY <1>3 DEF Dequeue, apiVars
  <2> QED
    BY <2>1 DEF Pending, Handled, Noticed, Settled, Live, Claimed, Stored, Holding
<1>4. CASE Fetch
  BY <1>4, PendingFetch
<1>5. CASE Save \/ SaveBad \/ SaveFail \/ Remove
  BY <1>5, PendingUpload
<1>6. CASE StatusOk \/ FailedStatus
  BY <1>6, PendingStatus
<1>7. CASE DropFinalizer
  <2> PICK n \in Name : n = cur
    BY <1>7 DEF DropFinalizer, TypeInv
  <2> QED
    BY <1>7, PendingWrite DEF DropFinalizer, Erase, Writes, Done, Holding
<1>8. CASE Crash
  BY <1>8 DEF Crash, Pending, Handled, Holding
<1>9. CASE Start
  BY <1>9 DEF Start, Pending, Handled, Holding, Noticed, Settled, Live, apiVars
<1>10. CASE SecretCreated \/ Resync \/ MinioInit \/ UNCHANGED vars
  <2>1. UNCHANGED <<api, watch, pc, cur, got, store>> /\ queue \subseteq queue'
    BY <1>10 DEF SecretCreated, Resync, MinioInit, vars, apiVars, ctlVars
  <2> QED
    BY <2>1 DEF Pending, Handled, Noticed, Settled, Live, Claimed, Stored,
       Current, Holding, UploadDue
<1>11. CASE \/ MinioMissing \/ StatusConflict \/ StatusFail \/ RemoveFail
            \/ DropConflict \/ DropFail
  <2> PICK n \in Name : n = cur
    BY <1>11 DEF MinioMissing, StatusConflict, StatusFail, RemoveFail,
       DropConflict, DropFail, TypeInv
  <2>1. /\ Return /\ pc # "down" /\ UNCHANGED <<api, watch>>
        /\ queue' = queue \cup {n}
    BY <1>11 DEF MinioMissing, StatusConflict, StatusFail, RemoveFail,
       DropConflict, DropFail, Requeue, apiVars
  <2>2. ASSUME NEW m \in Name \ {n}, Forward(m), Settled(m)
        PROVE  Settled(m)'
    <3>1. CASE RemoveFail
      BY <2>2, <3>1, OthersSettled
    <3>2. CASE UNCHANGED store
      BY <2>1, <2>2, <3>2 DEF Settled, Live, Claimed, Stored
    <3> QED
      BY <1>11, <3>1, <3>2 DEF MinioMissing, StatusConflict, StatusFail,
         DropConflict, DropFail
  <2> QED
    BY <2>1, <2>2, PendingReturn
<1> QED
  BY <1>1, <1>2, <1>3, <1>4, <1>5, <1>6, <1>7, <1>8, <1>9, <1>10, <1>11
     DEF Next, Reconcile

\* A resource with an object of its own whose users go forward only: whatever
\* was lost, late or in conflict before, when the controller has come to rest
\* it is stored and marked so, or gone, whatever the users of others do.
\* Uploads do not fail: after one that does nothing is left in the queue, see
\* FailedStatus.
THEOREM RestOfOwnObject ==
    ASSUME ~ SaveFails
    PROVE  Spec => [](Quiescent => \A n \in Name : Forward(n) => Settled(n))
<1>1. TypeInv /\ Versions /\ Steps /\ Truth /\ Pending /\ [Next]_vars => Pending'
  BY PendingStep
<1>2. Pending => (Quiescent => \A n \in Name : Forward(n) => Settled(n))
  BY DEF Pending, Quiescent, Handled, Noticed
<1> QED
  BY <1>1, <1>2, PendingInit, TypeInvariant, VersionsInvariant, StepsInvariant,
     TruthInvariant, PTL DEF Spec

\* "Synchronizing resources until the desired state is reached": when that
\* goes for every resource, all are synchronized at rest, and no object of a
\* resource that has gone is left.
THEOREM RestIsSynced ==
    ASSUME \A n \in Name : Forward(n), ~ SaveFails, FALSE \notin Finalizers
    PROVE  Spec => []QuiescentMeansSynced
<1>1. KeepObjects
  BY DEF Forward, OwnObject, KeepObjects
<1>2. /\ Orphans = {}
      /\ Quiescent => \A n \in Name : Forward(n) => Settled(n)
      => QuiescentMeansSynced
  BY DEF QuiescentMeansSynced
<1> QED
  BY <1>1, <1>2, NothingLeftBehind, RestOfOwnObject, PTL

=============================================================================
