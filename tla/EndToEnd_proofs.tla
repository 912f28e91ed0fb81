-------------------------- MODULE EndToEnd_proofs --------------------------
(***************************************************************************)
(* Proofs about EndToEnd.  Programs that understand each other's names and  *)
(* texts give no false verdict, however builds, publications, withdrawals, *)
(* changes and restarts follow each other; that they do is taken from      *)
(* SetupUnderstood, which TLC evaluates, since what is done with texts and *)
(* paths of any length is an induction out of the provers' reach.  The     *)
(* names of objects need no induction, as an image is split at one colon:  *)
(* of them it is proved here that no image finds the object of another.    *)
(***************************************************************************)
EXTENDS EndToEnd, FiniteSetTheorems, TLAPS

-----------------------------------------------------------------------------
(* Types.                                                                  *)

LEMMA TreeType ==
    ASSUME NEW bd \in Image \X Version
    PROVE  Tree[bd] \in FileTrees
<1>1. bd \in DOMAIN Tree /\ Tree[bd] \in [DOMAIN Tree[bd] -> Range(Tree[bd])]
  BY EndToEndAssumption
<1>2. DOMAIN Tree[bd] \in SUBSET Paths
  BY <1>1 DEF Paths
<1>3. \A p \in DOMAIN Tree[bd] : Tree[bd][p] \in Contents
  BY <1>1 DEF Contents
<1>4. Tree[bd] \in [DOMAIN Tree[bd] -> Contents]
  BY <1>1, <1>3
<1> QED
  BY <1>2, <1>4 DEF FileTrees

LEMMA TamperType ==
    ASSUME files \in FileTrees, NEW path \in Paths, Tamper(path)
    PROVE  files' \in FileTrees
<1>1. PICK ps \in SUBSET Paths : files \in [ps -> Contents]
  BY DEF FileTrees
<1>2. "other" \in Contents
  BY DEF Contents
<1>3. CASE files' = [p \in DOMAIN files \cup {path} |->
                        IF p = path THEN "other" ELSE files[p]]
  <2>1. files' \in [ps \cup {path} -> Contents]
    BY <1>1, <1>2, <1>3
  <2> QED
    BY <2>1 DEF FileTrees
<1>4. CASE files' = [p \in DOMAIN files \ {path} |-> files[p]]
  <2>1. files' \in [ps \ {path} -> Contents]
    BY <1>1, <1>4
  <2> QED
    BY <2>1 DEF FileTrees
<1> QED
  BY <1>3, <1>4 DEF Tamper

LEMMA FirstBuild == Min(Version) \in Version
BY EndToEndAssumption DEF Min

LEMMA TypeInit == Init => TypeOK
<1> SUFFICES ASSUME Init
             PROVE  TypeOK
  OBVIOUS
<1>1. built \in [Image -> Version]
  BY FirstBuild DEF Init
<1>2. pod \in Image \X Version
  BY <1>1 DEF Init
<1>3. files \in FileTrees
  BY <1>2, TreeType DEF Init
<1> QED
  BY <1>1, <1>2, <1>3 DEF Init, TypeOK

LEMMA TypeStep ==
    ASSUME TypeOK, [Next]_vars
    PROVE  TypeOK'
<1> USE DEF TypeOK, users, bounds
<1>1. ASSUME NEW i \in Image, Build(i) \/ Publish(i) \/ Withdraw(i)
      PROVE  TypeOK'
  BY <1>1 DEF Build, Publish, Withdraw
<1>2. ASSUME NEW i \in Image, Sync(i)
      PROVE  TypeOK'
  BY <1>2 DEF Sync, Stored
<1>3. ASSUME NEW i \in Image, Roll(i)
      PROVE  TypeOK'
  BY <1>3, TreeType DEF Roll
<1>4. ASSUME NEW p \in Paths, Tamper(p)
      PROVE  TypeOK'
  BY <1>4, TamperType DEF Tamper
<1>5. CASE Check
  BY <1>5 DEF Check
<1>6. CASE Restart
  <2>1. pod' \in Image \X Version /\ (files' = files \/ files' = Tree[pod'])
    BY <1>6 DEF Restart
  <2> QED
    BY <1>6, <2>1, TreeType DEF Restart
<1>7. CASE UNCHANGED vars
  BY <1>7 DEF vars
<1> QED
  BY <1>1, <1>2, <1>3, <1>4, <1>5, <1>6, <1>7 DEF Next

\* Every variable keeps its type, in particular the container always holds
\* files that some build has or that were put in their place.
THEOREM TypeCorrect == Spec => []TypeOK
BY TypeInit, TypeStep, PTL DEF Spec
-----------------------------------------------------------------------------
(* Filed: whatever lies under a name of the bucket was read from an image  *)
(* with that name.                                                         *)

Filed ==
    \A n \in DOMAIN bucket :
        bucket[n] # None =>
            /\ bucket[n] \in Tagged \X Version
            /\ n = StoredAt(setup, bucket[n][1])

\* The controller writes what it read from an image under the name of that
\* image, and nothing for a resource that was withdrawn.
LEMMA FiledSync ==
    ASSUME TypeOK, Filed, NEW i \in Image, Sync(i)
    PROVE  Filed'
<1>1. PICK n \in DOMAIN bucket :
          /\ <<setup, i, n>> \in Written
          /\ bucket' = [bucket EXCEPT ![n] = Stored(i)]
  BY DEF Sync
<1>2. i \in Tagged /\ n = StoredAt(setup, i)
  BY <1>1 DEF Written
<1>3. setup' = setup
  BY DEF Sync
<1>4. Stored(i) # None => Stored(i) \in Tagged \X Version /\ Stored(i)[1] = i
  BY <1>2 DEF Stored, TypeOK
<1>5. ASSUME NEW m \in DOMAIN bucket', bucket'[m] # None
      PROVE  bucket'[m] \in Tagged \X Version /\ m = StoredAt(setup, bucket'[m][1])
  <2>1. CASE m = n
    BY <1>1, <1>2, <1>4, <1>5, <2>1
  <2>2. CASE m # n
    BY <1>1, <1>5, <2>2 DEF Filed
  <2> QED
    BY <2>1, <2>2
<1> QED
  BY <1>3, <1>5 DEF Filed

LEMMA FiledInvariant == Spec => []Filed
<1>1. Init => Filed
  BY DEF Init, Filed
<1>2. TypeOK /\ Filed /\ [Next]_vars => Filed'
  <2> SUFFICES ASSUME TypeOK, Filed, [Next]_vars
               PROVE  Filed'
    OBVIOUS
  <2>1. CASE UNCHANGED <<setup, bucket>>
    BY <2>1 DEF Filed
  <2>2. ASSUME NEW i \in Image, Sync(i)
        PROVE  Filed'
    BY <2>2, FiledSync
  <2> QED
    BY <2>1, <2>2 DEF Next, vars, Build, Publish, Withdraw, Roll, Tamper,
       Check, Restart
<1> QED
  BY <1>1, <1>2, TypeCorrect, PTL DEF Spec

\* What the monitor loads was stored under the name it asked for.
LEMMA LoadedFiled ==
    ASSUME TypeOK, Filed, Loaded # None
    PROVE  /\ Loaded \in Tagged \X Version
           /\ pod[1] \in Tagged
           /\ StoredAt(setup, Loaded[1]) = LoadedFrom(setup, pod[1])
<1> DEFINE asked == {n \in DOMAIN bucket : <<setup, pod[1], n>> \in Wanted}
           held == {bucket[n] : n \in asked}
<1>1. Loaded = IF held = {} THEN None ELSE CHOOSE b \in held : TRUE
  BY DEF Loaded
<1>2. Loaded \in held
  BY <1>1
<1>3. PICK n \in asked : bucket[n] = Loaded
  BY <1>2
<1>4. pod[1] \in Tagged /\ n = LoadedFrom(setup, pod[1])
  BY <1>3 DEF Wanted
<1> QED
  BY <1>3, <1>4 DEF Filed

-----------------------------------------------------------------------------
(* What SetupUnderstood says of the setup that runs.                       *)

LEMMA SoundAgrees ==
    ASSUME TypeOK, SetupUnderstood, NEW b, <<setup, b>> \in SoundBuilds
    PROVE  b \in Image \X Version /\ Sound(setup, Tree[b]) /\ Agree(setup, Tree[b])
<1>1. b \in DOMAIN Tree /\ Sound(setup, Tree[b])
  BY DEF SoundBuilds
<1>2. setup \notin Misunderstood
  BY DEF SetupUnderstood
<1>3. Agree(setup, Tree[b]) = Sound(setup, Tree[b])
  BY <1>1, <1>2 DEF Misunderstood, TypeOK
<1> QED
  BY <1>1, <1>3, EndToEndAssumption

LEMMA SoundLoads ==
    ASSUME TypeOK, Filed, SetupUnderstood, Loaded # None,
           <<setup, Loaded>> \in SoundBuilds
    PROVE  Loaded[1] = pod[1]
BY LoadedFiled, SoundAgrees DEF Agree

\* Only a check gives a verdict, and only on what it loaded.
LEMMA VerdictGiven ==
    ASSUME TypeOK, [Next]_vars, verdict' # verdict, verdict' \in {"pass", "alarm"}
    PROVE  /\ Loaded # None
           /\ verdict' = Verdict(setup, files, SnapshotText(setup, Tree[Loaded]))
<1>1. Check
  BY DEF Next, vars, users, bounds, Build, Publish, Withdraw, Sync, Roll, Tamper, Restart
<1>2. Loaded # None /\ <<setup, Loaded, files, verdict'>> \in Verdicts
  BY <1>1 DEF Check
<1> QED
  BY <1>2 DEF Verdicts

\* With a setup that is understood, complete scans and undisturbed checks, files
\* that nobody touched raise an alarm only when the image was built again under
\* its name, and never because of another image, whatever is published, withdrawn
\* and rolled out in between.
THEOREM AlarmsAreJustified == Spec /\ []SetupUnderstood => AlarmJustified
<1> DEFINE Justified ==
               Raised /\ {<<setup, pod>>, <<setup, Loaded>>} \subseteq SoundBuilds
                      /\ Untouched
               => Loaded[1] = pod[1] /\ Loaded[2] # pod[2]
<1>1. TypeOK /\ Filed /\ SetupUnderstood /\ [Next]_vars => [Justified]_vars
  <2> SUFFICES ASSUME TypeOK, Filed, SetupUnderstood, [Next]_vars, Raised,
                      <<setup, pod>> \in SoundBuilds,
                      <<setup, Loaded>> \in SoundBuilds, Untouched
               PROVE  Loaded[1] = pod[1] /\ Loaded[2] # pod[2]
    OBVIOUS
  <2>1. /\ Loaded # None
        /\ Verdict(setup, files, SnapshotText(setup, Tree[Loaded])) = "alarm"
    BY VerdictGiven DEF Raised
  <2>2. Loaded[1] = pod[1]
    BY <2>1, SoundLoads
  <2>3. Loaded # pod
    BY <2>1, SoundAgrees DEF Agree, Untouched
  <2> QED
    BY <2>1, <2>2, <2>3, LoadedFiled DEF TypeOK
<1> QED
  BY <1>1, TypeCorrect, FiledInvariant, PTL DEF Spec, AlarmJustified

\* Digests tell names and contents apart.
LEMMA HashedApart ==
    ASSUME NEW alg, NEW base, NEW ds, NEW t1, NEW t2,
           Hashed(alg, Delivered(base, ds, t1)) = Hashed(alg, Delivered(base, ds, t2))
    PROVE  Delivered(base, ds, t1) = Delivered(base, ds, t2)
<1>1. ASSUME NEW u, NEW v, NEW r \in Delivered(base, ds, u),
             Hashed(alg, Delivered(base, ds, u)) = Hashed(alg, Delivered(base, ds, v))
      PROVE  r \in Delivered(base, ds, v)
  <2>1. [path |-> r.path, hash |-> <<alg, r.content>>]
            \in Hashed(alg, Delivered(base, ds, v))
    BY <1>1 DEF Hashed
  <2>2. PICK q \in Delivered(base, ds, v) :
            /\ q.path = r.path
            /\ q.content = r.content
    BY <2>1 DEF Hashed
  <2>3. r = [path |-> r.path, content |-> r.content]
    BY DEF Delivered
  <2>4. q = [path |-> q.path, content |-> q.content]
    BY DEF Delivered
  <2> QED
    BY <2>2, <2>3, <2>4
<1>2. Delivered(base, ds, t1) \subseteq Delivered(base, ds, t2)
  BY <1>1, Zenon
<1>3. Delivered(base, ds, t2) \subseteq Delivered(base, ds, t1)
  BY <1>1, Zenon
<1> QED
  BY <1>2, <1>3

\* With a setup that is understood, an undisturbed check that passes has seen the
\* files of a build of this image, the one in the bucket: it overlooks no change
\* of a monitored file.
THEOREM PassesAreJustified == Spec /\ []SetupUnderstood => PassJustified
<1> DEFINE Justified ==
               verdict # "pass" /\ verdict' = "pass"
                   /\ <<setup, Loaded>> \in SoundBuilds
               => Loaded[1] = pod[1] /\ Watched(files) = Watched(Tree[Loaded])
<1>1. TypeOK /\ Filed /\ SetupUnderstood /\ [Next]_vars => [Justified]_vars
  <2> SUFFICES ASSUME TypeOK, Filed, SetupUnderstood, [Next]_vars,
                      verdict # "pass", verdict' = "pass",
                      <<setup, Loaded>> \in SoundBuilds
               PROVE  Loaded[1] = pod[1] /\ Watched(files) = Watched(Tree[Loaded])
    OBVIOUS
  <2> DEFINE text == SnapshotText(setup, Tree[Loaded])
  <2>1. Loaded # None /\ Verdict(setup, files, text) = "pass"
    BY VerdictGiven
  <2>2. /\ setup.workers # 0
        /\ Verdict(setup, Tree[Loaded], text) = "pass"
        /\ Range(DirsRead(setup)) = Range(setup.meant)
    <3>1. setup.workers > 0
      BY SoundAgrees, Zenon DEF Sound
    <3> QED
      BY <3>1, SoundAgrees DEF Agree
  <2>3. Found(setup, files) = Found(setup, Tree[Loaded])
    BY <2>1, <2>2 DEF Verdict, Same
  <2>4. Watched(files) = Watched(Tree[Loaded])
    BY <2>2, <2>3, HashedApart DEF Found, Watched
  <2> QED
    BY <2>1, <2>4, SoundLoads
<1> QED
  BY <1>1, TypeCorrect, FiledInvariant, PTL DEF Spec, PassJustified
-----------------------------------------------------------------------------
(* Names of objects: an image written as a repository and a tag, with one  *)
(* colon and no slash behind it, is told from every other by the object    *)
(* the monitor asks for.  With the port of a registry it is not.           *)

\* the only colon of an image is at k, and its tag has no slash
TagAfter(image, k) ==
    /\ k \in DOMAIN image
    /\ image[k] = ":"
    /\ \A i \in DOMAIN image : image[i] = ":" => i = k
    /\ \A i \in DOMAIN image : image[i] = "/" => i < k

RepositoryAndTag(image) ==
    /\ image \in Seq(STRING)
    /\ \E k \in DOMAIN image : TagAfter(image, k)

LEMMA TwoElements ==
    ASSUME NEW x, NEW y, x # y
    PROVE  IsFiniteSet({x, y}) /\ Cardinality({x, y}) = 2
<1>1. IsFiniteSet({x}) /\ Cardinality({x}) = 1
  BY FS_Singleton
<1>2. IsFiniteSet({x} \cup {y}) /\ Cardinality({x} \cup {y}) = 2
  BY <1>1, FS_AddElement
<1> QED
  BY <1>2

LEMMA ThreeElements ==
    ASSUME NEW x, NEW y, NEW z, x # y, x # z, y # z
    PROVE  Cardinality({x, y, z}) = 3
<1>1. IsFiniteSet({x, y}) /\ Cardinality({x, y}) = 2
  BY TwoElements
<1>2. Cardinality({x, y} \cup {z}) = 3
  BY <1>1, FS_AddElement
<1> QED
  BY <1>2

\* The parts of a string with a single mark are what is before and behind it.
LEMMA SplitOnce ==
    ASSUME NEW T, NEW s \in Seq(T), NEW mark, NEW k \in DOMAIN s, s[k] = mark,
           \A i \in DOMAIN s : s[i] = mark => i = k
    PROVE  /\ Split(s, mark)[1] = SubSeq(s, 1, k - 1)
           /\ Split(s, mark)[2] = SubSeq(s, k + 1, Len(s))
<1> DEFINE ends == {i \in DOMAIN s : s[i] = mark} \cup {0, Len(s) + 1}
           Behind(i) == {j \in ends : j < i}
           End(n) == CHOOSE i \in ends : Cardinality(Behind(i)) = n
<1>1. k \in 1 .. Len(s) /\ Len(s) \in Nat
  OBVIOUS
<1>2. ends = {0, k, Len(s) + 1}
  OBVIOUS
<1>3. Behind(0) = {} /\ Behind(k) = {0} /\ Behind(Len(s) + 1) = {0, k}
  BY <1>1, <1>2
<1>4. Cardinality(Behind(0)) = 0
  BY <1>3, FS_EmptySet
<1>5. Cardinality(Behind(k)) = 1
  BY <1>3, FS_Singleton
<1>6. Cardinality(Behind(Len(s) + 1)) = 2
  <2>1. 0 # k
    BY <1>1
  <2>2. Cardinality({0, k}) = 2
    BY <2>1, TwoElements, Zenon
  <2> QED
    BY <1>3, <2>2
<1> HIDE DEF ends, Behind
<1>7. End(0) = 0 /\ End(1) = k /\ End(2) = Len(s) + 1
  BY <1>1, <1>2, <1>3, <1>4, <1>5, <1>6
<1>8. Cardinality(ends) = 3
  <2>1. 0 # k /\ 0 # Len(s) + 1 /\ k # Len(s) + 1
    BY <1>1
  <2>2. Cardinality({0, k, Len(s) + 1}) = 3
    BY <2>1, ThreeElements, Zenon
  <2> QED
    BY <1>2, <2>2
<1>9. Split(s, mark) = [n \in 1 .. Cardinality(ends) - 1 |->
                            SubSeq(s, End(n - 1) + 1, End(n) - 1)]
  BY DEF Split, ends, Behind
<1> HIDE DEF End
<1>10. Split(s, mark) = [n \in 1 .. 2 |-> SubSeq(s, End(n - 1) + 1, End(n) - 1)]
  BY <1>8, <1>9
<1>11. Split(s, mark)[1] = SubSeq(s, End(0) + 1, End(1) - 1)
  BY <1>10, 1 \in 1 .. 2, 1 - 1 = 0
<1>12. Split(s, mark)[2] = SubSeq(s, End(1) + 1, End(2) - 1)
  BY <1>10, 2 \in 1 .. 2, 2 - 1 = 1
<1>13. /\ End(0) + 1 = 1
       /\ End(1) - 1 = k - 1
       /\ End(1) + 1 = k + 1
       /\ End(2) - 1 = Len(s)
  BY <1>1, <1>7
<1> QED
  BY <1>11, <1>12, <1>13, Zenon

LEMMA Joined ==
    ASSUME NEW T, NEW a \in Seq(T), NEW b \in Seq(T)
    PROVE  /\ a \o b \in Seq(T)
           /\ Len(a \o b) = Len(a) + Len(b)
           /\ \A i \in 1 .. Len(a) : (a \o b)[i] = a[i]
           /\ \A i \in 1 .. Len(b) : (a \o b)[Len(a) + i] = b[i]
OBVIOUS

LEMMA SameSequence ==
    ASSUME NEW T, NEW a \in Seq(T), NEW b \in Seq(T), Len(a) = Len(b),
           \A i \in 1 .. Len(a) : a[i] = b[i]
    PROVE  a = b
OBVIOUS

LEMMA SameEnding ==
    ASSUME NEW T, NEW a \in Seq(T), NEW b \in Seq(T), NEW e \in Seq(T),
           a \o e = b \o e
    PROVE  a = b
<1>1. Len(a) = Len(b)
  OBVIOUS
<1>2. \A i \in 1 .. Len(a) : a[i] = b[i]
  BY <1>1, Joined
<1> QED
  BY <1>1, <1>2, SameSequence

LEMMA SameBeginning ==
    ASSUME NEW T, NEW p \in Seq(T), NEW a \in Seq(T), NEW b \in Seq(T),
           p \o a = p \o b
    PROVE  a = b
<1>1. Len(a) = Len(b)
  OBVIOUS
<1>2. \A i \in 1 .. Len(a) : a[i] = b[i]
  BY <1>1, Joined
<1> QED
  BY <1>1, <1>2, SameSequence

\* s has no such mark
Free(s, mark) == \A i \in 1 .. Len(s) : s[i] # mark

\* What is behind the last slash is the same in equal paths, and so is what is
\* before it: a longer beginning would put its slash into the other's last part.
LEMMA LastSlash ==
    ASSUME NEW T, NEW slash,
           NEW a \in Seq(T), NEW t \in Seq(T), Len(a) > 0, a[Len(a)] = slash,
           NEW b \in Seq(T), NEW u \in Seq(T), Len(b) > 0, b[Len(b)] = slash,
           Free(t, slash), Free(u, slash),
           a \o t = b \o u
    PROVE  a = b /\ t = u
<1>1. ASSUME NEW v \in Seq(T), NEW w \in Seq(T), NEW x \in Seq(T), NEW y \in Seq(T),
             v \o x = w \o y, Len(w) > 0, w[Len(w)] = slash,
             Free(x, slash)
      PROVE  Len(w) <= Len(v)
  <2> SUFFICES ASSUME Len(w) > Len(v)
               PROVE  FALSE
    OBVIOUS
  <2>1. Len(v) + Len(x) = Len(w) + Len(y)
    BY <1>1, Joined
  <2>2. Len(w) - Len(v) \in 1 .. Len(x)
    BY <2>1
  <2>3. (v \o x)[Len(v) + (Len(w) - Len(v))] = x[Len(w) - Len(v)]
    BY <2>2, Joined
  <2>4. Len(v) + (Len(w) - Len(v)) = Len(w)
    OBVIOUS
  <2>5. (w \o y)[Len(w)] = slash
    BY <1>1, Joined
  <2> QED
    BY <1>1, <2>2, <2>3, <2>4, <2>5 DEF Free
<1>2. Len(a) = Len(b)
  <2>1. Len(b) <= Len(a)
    BY <1>1
  <2>2. Len(a) <= Len(b)
    BY <1>1
  <2> QED
    BY <2>1, <2>2
<1>3. \A i \in 1 .. Len(a) : a[i] = b[i]
  BY <1>2, Joined
<1>4. a = b
  BY <1>2, <1>3, SameSequence
<1> QED
  BY <1>4, SameBeginning

\* a path in four parts; only its end is not set off by a slash
PathOf(p, slash, r, t, e) == p \o <<slash>> \o r \o <<slash>> \o t \o e

\* Two paths with the same beginning and the same ending, whose last parts
\* have no slash, are equal part by part.
LEMMA PathParts ==
    ASSUME NEW T, NEW p \in Seq(T), NEW e \in Seq(T), NEW slash \in T,
           NEW r1 \in Seq(T), NEW t1 \in Seq(T), NEW r2 \in Seq(T), NEW t2 \in Seq(T),
           Free(t1, slash), Free(t2, slash),
           PathOf(p, slash, r1, t1, e) = PathOf(p, slash, r2, t2, e)
    PROVE  r1 = r2 /\ t1 = t2
<1> DEFINE begin == p \o <<slash>>
           before(r) == begin \o r
           until(r) == before(r) \o <<slash>>
<1>1. <<slash>> \in Seq(T) /\ begin \in Seq(T)
  OBVIOUS
<1> HIDE DEF begin
<1>2. ASSUME NEW r \in Seq(T)
      PROVE  before(r) \in Seq(T)
  BY <1>1, Joined
<1> HIDE DEF before
<1>3. ASSUME NEW r \in Seq(T)
      PROVE  until(r) \in Seq(T) /\ Len(until(r)) > 0 /\ until(r)[Len(until(r))] = slash
  BY <1>2
<1>4. until(r1) \o t1 \o e = until(r2) \o t2 \o e
  BY DEF PathOf, before, begin
<1> HIDE DEF until
<1>5. ASSUME NEW a \in Seq(T), NEW b \in Seq(T), a \o t1 \o e = b \o t2 \o e
      PROVE  a \o t1 = b \o t2
  <2>1. a \o t1 \in Seq(T) /\ b \o t2 \in Seq(T)
    BY Joined
  <2> QED
    BY <1>5, <2>1, SameEnding, Zenon
<1>6. until(r1) = until(r2) /\ t1 = t2
  <2>1. until(r1) \o t1 = until(r2) \o t2
    BY <1>3, <1>4, <1>5, Zenon
  <2>2. ASSUME NEW a \in Seq(T), Len(a) > 0, a[Len(a)] = slash,
               NEW b \in Seq(T), Len(b) > 0, b[Len(b)] = slash,
               a \o t1 = b \o t2
        PROVE  a = b /\ t1 = t2
    BY <2>2, LastSlash
  <2> QED
    BY <1>3, <2>1, <2>2, Zenon
<1>7. before(r1) = before(r2)
  BY <1>1, <1>2, <1>6, SameEnding DEF until
<1>8. r1 = r2
  BY <1>1, <1>7, SameBeginning DEF before
<1> QED
  BY <1>6, <1>8

\* An image with one colon is its repository, the colon and its tag.
LEMMA ImageParts ==
    ASSUME NEW T, NEW image \in Seq(T), NEW k, TagAfter(image, k)
    PROVE  LET r == SubSeq(image, 1, k - 1)
               t == SubSeq(image, k + 1, Len(image))
           IN  /\ r \in Seq(T) /\ t \in Seq(T)
               /\ Free(t, "/")
               /\ image = r \o <<":">> \o t
               /\ Split(image, ":")[1] = r
               /\ Split(image, ":")[2] = t
<1> DEFINE r == SubSeq(image, 1, k - 1)
           t == SubSeq(image, k + 1, Len(image))
<1>1. k \in 1 .. Len(image) /\ Len(image) \in Nat
  BY DEF TagAfter
<1>2. r \in Seq(T) /\ Len(r) = k - 1 /\ \A i \in 1 .. k - 1 : r[i] = image[i]
  BY <1>1
<1>3. t \in Seq(T) /\ Len(t) = Len(image) - k
  BY <1>1
<1>4. \A i \in 1 .. Len(image) - k : t[i] = image[k + i]
  BY <1>1
<1>5. ASSUME NEW i \in 1 .. Len(t)
      PROVE  t[i] # "/"
  <2>1. t[i] = image[k + i] /\ k + i \in DOMAIN image /\ ~ (k + i < k)
    BY <1>1, <1>3, <1>4
  <2> QED
    BY <2>1 DEF TagAfter
<1>6. image = r \o <<":">> \o t
  <2>1. image[k] = ":" /\ image[k] \in T
    BY <1>1 DEF TagAfter
  <2>2. <<":">> \in Seq(T) /\ Len(<<":">>) = 1 /\ <<":">>[1] = ":"
    BY <2>1
  <2> HIDE DEF r, t
  <2>3. /\ r \o <<":">> \in Seq(T)
        /\ Len(r \o <<":">>) = k
        /\ \A i \in 1 .. k : (r \o <<":">>)[i] = image[i]
    BY <1>1, <1>2, <2>1
  <2>4. /\ r \o <<":">> \o t \in Seq(T)
        /\ Len(r \o <<":">> \o t) = Len(image)
    BY <1>1, <1>3, <2>3
  <2>5. ASSUME NEW i \in 1 .. Len(image)
        PROVE  image[i] = (r \o <<":">> \o t)[i]
    <3>1. CASE i <= k
      BY <1>1, <1>3, <2>3, <3>1
    <3>2. CASE i > k
      <4>1. i - k \in 1 .. Len(t) /\ k + (i - k) = i
        BY <1>1, <1>3, <3>2
      <4>2. (r \o <<":">> \o t)[k + (i - k)] = t[i - k]
        BY <1>3, <2>3, <4>1, Joined
      <4>3. t[i - k] = image[k + (i - k)]
        BY <1>3, <1>4, <4>1
      <4> QED
        BY <4>1, <4>2, <4>3, Zenon
    <3>3. i <= k \/ i > k
      BY <1>1
    <3> QED
      BY <3>1, <3>2, <3>3, Zenon
  <2> QED
    BY <2>4, <2>5, SameSequence
<1>7. Split(image, ":")[1] = r /\ Split(image, ":")[2] = t
  BY SplitOnce DEF TagAfter
<1> QED
  BY <1>2, <1>3, <1>5, <1>6, <1>7 DEF Free

\* Two images that are written as a repository and a tag have the same object
\* only when they are the same: nothing but the last slash of the name separates
\* the two parts, and the tag has none.
LEMMA ObjectsApart ==
    ASSUME NEW ns \in Seq(STRING), NEW alg, NEW one, NEW other,
           RepositoryAndTag(one), RepositoryAndTag(other),
           CheckSumFile(ns, one, alg) = CheckSumFile(ns, other, alg)
    PROVE  one = other
<1> DEFINE T == STRING \cup {"/", ".", ToLower(alg)}
           r(image, k) == SubSeq(image, 1, k - 1)
           t(image, k) == SubSeq(image, k + 1, Len(image))
           e == <<".", ToLower(alg)>>
<1>1. PICK k \in DOMAIN one : TagAfter(one, k)
  BY DEF RepositoryAndTag
<1>2. PICK l \in DOMAIN other : TagAfter(other, l)
  BY DEF RepositoryAndTag
<1>3. ns \in Seq(T) /\ one \in Seq(T) /\ other \in Seq(T)
  BY DEF RepositoryAndTag
<1>4. e \in Seq(T) /\ "/" \in T
  <2>1. "/" \in T /\ "." \in T /\ ToLower(alg) \in T
    OBVIOUS
  <2> HIDE DEF T
  <2> QED
    BY <2>1
<1> HIDE DEF T, e
<1>5. /\ r(one, k) \in Seq(T) /\ t(one, k) \in Seq(T)
      /\ Free(t(one, k), "/")
      /\ one = r(one, k) \o <<":">> \o t(one, k)
      /\ CheckSumFile(ns, one, alg)
             = PathOf(ns, "/", r(one, k), t(one, k), e)
  BY <1>1, <1>3, ImageParts DEF CheckSumFile, PathOf, e
<1>6. /\ r(other, l) \in Seq(T) /\ t(other, l) \in Seq(T)
      /\ Free(t(other, l), "/")
      /\ other = r(other, l) \o <<":">> \o t(other, l)
      /\ CheckSumFile(ns, other, alg)
             = PathOf(ns, "/", r(other, l), t(other, l), e)
  BY <1>2, <1>3, ImageParts DEF CheckSumFile, PathOf, e
<1> HIDE DEF r, t
<1>7. r(one, k) = r(other, l) /\ t(one, k) = t(other, l)
  BY <1>3, <1>4, <1>5, <1>6, PathParts
<1> QED
  BY <1>5, <1>6, <1>7

\* The object the monitor finds under the name of an image was stored for that
\* image, when all images are written as a repository and a tag and the
\* controller writes under the name at which the monitor looks.  end_port shows
\* that the port of a registry breaks it.
THEOREM SnapshotIsOwn ==
    ASSUME \A i \in Tagged : RepositoryAndTag(i),
           \A s \in Setups : /\ s.monNs \in Seq(STRING)
                             /\ \A i \in Tagged : StoredAt(s, i) = LoadedFrom(s, i)
    PROVE  Spec => []OwnSnapshot
<1>1. TypeOK /\ Filed => OwnSnapshot
  <2> SUFFICES ASSUME TypeOK, Filed, Loaded # None
               PROVE  Loaded[1] = pod[1]
    BY DEF OwnSnapshot
  <2>1. /\ Loaded[1] \in Tagged
        /\ pod[1] \in Tagged
        /\ StoredAt(setup, Loaded[1]) = LoadedFrom(setup, pod[1])
    BY LoadedFiled
  <2>2. setup \in Setups
    BY DEF TypeOK
  <2>3. LoadedFrom(setup, Loaded[1]) = LoadedFrom(setup, pod[1])
    BY <2>1, <2>2
  <2>4. CheckSumFile(setup.monNs, Loaded[1], MonAlg(setup))
            = CheckSumFile(setup.monNs, pod[1], MonAlg(setup))
    BY <2>3 DEF LoadedFrom
  <2> QED
    BY <2>1, <2>2, <2>4, ObjectsApart
<1> QED
  BY <1>1, TypeCorrect, FiledInvariant, PTL
=============================================================================
