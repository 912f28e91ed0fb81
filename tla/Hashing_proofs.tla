--------------------------- MODULE Hashing_proofs ---------------------------
(***************************************************************************)
(* Theorems about Hashing, for every block size, every content and message *)
(* and any number of workers, files and changes.                           *)
(***************************************************************************)
EXTENDS Hashing, SequenceTheorems, FiniteSetTheorems, TLAPS

-----------------------------------------------------------------------------
(* Sequences of bytes.                                                     *)

\* What was taken of s, with the next portion of s, is what was taken then.
LEMMA Taken ==
    ASSUME NEW s \in Seq(Byte), NEW k \in 0 .. Len(s), NEW m \in k .. Len(s)
    PROVE  /\ SubSeq(s, 1, k) \o SubSeq(s, k + 1, m) = SubSeq(s, 1, m)
           /\ SubSeq(s, k + 1, m) \in Seq(Byte)
           /\ Len(SubSeq(s, k + 1, m)) = m - k
           /\ \A i \in 1 .. m - k : SubSeq(s, k + 1, m)[i] = s[k + i]
           /\ SubSeq(s, 1, m) \in Seq(Byte) /\ Len(SubSeq(s, 1, m)) = m
<1>1. Len(s) \in Nat /\ k \in Nat /\ m \in Nat /\ k <= m /\ m <= Len(s)
  OBVIOUS
<1>2. \A i \in 1 .. m : s[i] \in Byte
  BY <1>1
<1>3. SubSeq(s, 1, k) \o SubSeq(s, k + 1, m) = SubSeq(s, 1, m)
  BY <1>1, ConcatAdjacentSubSeq
<1>4. /\ SubSeq(s, k + 1, m) \in Seq(Byte)
      /\ Len(SubSeq(s, k + 1, m)) = m - k
      /\ \A i \in 1 .. m - k : SubSeq(s, k + 1, m)[i] = s[k + i]
  BY <1>1, <1>2, SubSeqProperties
<1>5. SubSeq(s, 1, m) \in Seq(Byte) /\ Len(SubSeq(s, 1, m)) = m
  BY <1>1, <1>2, SubSeqProperties
<1> QED
  BY <1>3, <1>4, <1>5

LEMMA TakenAll ==
    ASSUME NEW s \in Seq(Byte)
    PROVE  SubSeq(s, 1, Len(s)) = s /\ SubSeq(s, 1, 0) = <<>>
BY SubSeqFull, SubSeqEmpty

Block == [1 .. BLOCKSIZE -> Byte]

\* Copying p into a block and absorbing as many bytes as p has absorbs p,
\* whatever the block held before.
LEMMA AbsorbCopied ==
    ASSUME NEW data \in Block, NEW p \in Seq(Byte), Len(p) <= BLOCKSIZE
    PROVE  /\ Copied(data, p) \in Block
           /\ SubSeq(Copied(data, p), 1, Len(p)) = p
<1>1. BLOCKSIZE \in Nat /\ Len(p) \in Nat /\ \A i \in 1 .. Len(p) : p[i] \in Byte
  BY HashingAssumption
<1>2. Copied(data, p) \in Block
  BY <1>1 DEF Copied, Block
<1>3. /\ \A i \in 1 .. Len(p) : Copied(data, p)[i] = p[i]
      /\ \A i \in 1 .. Len(p) : Copied(data, p)[i] \in Byte
  BY <1>1 DEF Copied, Block
<1> DEFINE q == SubSeq(Copied(data, p), 1, Len(p))
<1>4. /\ q \in Seq(Byte) /\ Len(q) = Len(p)
      /\ \A i \in 1 .. Len(p) : q[i] = p[i]
  BY <1>1, <1>3, SubSeqProperties
<1> HIDE DEF q
<1>5. q = p
  BY <1>4, SeqEqual
<1> QED
  BY <1>2, <1>5 DEF q

-----------------------------------------------------------------------------
(* Type correctness.                                                       *)

Object == [state : Seq(Byte), data : Block, n : 0 .. BLOCKSIZE]

TypeInv ==
    /\ own \in BOOLEAN
    /\ disk \in [File -> Content]
    /\ at \in [Worker -> {"idle", "read", "reset", "write"}]
    /\ file \in [Worker -> File]
    /\ input \in [Worker -> Seq(Byte)]
    /\ from \in [Worker -> Nat]
    /\ obj \in [Worker -> Object]
    /\ digest \in [Worker -> Seq(Byte) \cup {Failed}]
    /\ seen \in [Worker -> SUBSET Content]
    /\ \A w \in Worker :
          /\ from[w] <= Len(input[w])
          /\ at[w] # "write" => from[w] = 0
          /\ IsFiniteSet(seen[w])

LEMMA TypeInit == Init => TypeInv
<1> SUFFICES ASSUME Init PROVE TypeInv
  OBVIOUS
<1>1. <<>> \in Seq(Byte) /\ Len(<<>>) = 0
  BY EmptySeq
<1>2. New \in Object
  BY <1>1, HashingAssumption DEF New, Object, Block
<1> QED
  BY <1>1, <1>2, FS_EmptySet DEF Init, TypeInv

LEMMA PortionSize ==
    ASSUME NEW r \in Nat \ {0}
    PROVE  Min2(BLOCKSIZE, r) \in 1 .. r
BY HashingAssumption DEF Min2

\* What a worker has read grows by the next portion of the file.
LEMMA Longer ==
    ASSUME NEW s \in Seq(Byte), NEW d \in Seq(Byte),
           NEW k \in 1 .. Len(d) - Len(s)
    PROVE  /\ k \in Nat /\ Len(s) + k \in 0 .. Len(d)
           /\ s \o SubSeq(d, Len(s) + 1, Len(s) + k) \in Seq(Byte)
           /\ Len(s \o SubSeq(d, Len(s) + 1, Len(s) + k)) = Len(s) + k
<1>1. Len(s) \in Nat /\ Len(d) \in Nat
  OBVIOUS
<1>2. k \in Nat /\ Len(s) \in 0 .. Len(d) /\ Len(s) + k \in Len(s) .. Len(d)
  BY <1>1
<1>3. /\ SubSeq(d, Len(s) + 1, Len(s) + k) \in Seq(Byte)
      /\ Len(SubSeq(d, Len(s) + 1, Len(s) + k)) = (Len(s) + k) - Len(s)
  BY <1>2, Taken
<1> QED
  BY <1>1, <1>2, <1>3, ConcatProperties

\* The next portion of a file.
LEMMA ReadType ==
    ASSUME TypeInv, NEW w \in Worker, ReadSome(w)
    PROVE  \E k \in 1 .. Left(w) :
              input' = [input EXCEPT ![w] = input[w] \o
                  SubSeq(disk[file[w]], Len(input[w]) + 1, Len(input[w]) + k)]
<1>1. /\ disk[file[w]] \in Seq(Byte) /\ input[w] \in Seq(Byte)
      /\ Left(w) \in Int
  BY HashingAssumption DEF TypeInv, Left
<1>2. Left(w) \in Nat \ {0}
  BY <1>1 DEF ReadSome, AtEnd
<1>3. Portion(w) \subseteq 1 .. Left(w)
  BY <1>2, PortionSize DEF Portion
<1> QED
  BY <1>3 DEF ReadSome

\* One turn of the loop of Write absorbs the next block of the message.
LEMMA WriteType ==
    ASSUME TypeInv, NEW w \in Worker, WriteBlock(w) \/ WriteAll(w)
    PROVE  \E m \in Nat :
              /\ from[w] <= m /\ m <= Len(input[w])
              /\ from' = [from EXCEPT ![w] = m]
              /\ obj' \in [Worker -> Object]
              /\ obj'[w].state =
                     obj[w].state \o SubSeq(input[w], from[w] + 1, m)
              /\ \A v \in Worker \ {w} : obj'[v] = obj[v]
<1>1. /\ input[w] \in Seq(Byte) /\ Len(input[w]) \in Nat
      /\ from[w] \in Nat /\ from[w] < Len(input[w])
      /\ obj[w] \in Object /\ BLOCKSIZE \in Nat /\ BLOCKSIZE > 0
  BY HashingAssumption DEF TypeInv, WriteBlock, WriteAll
<1>2. /\ obj[w].state \in Seq(Byte) /\ obj[w].data \in Block
      /\ obj[w].n \in 0 .. BLOCKSIZE
  BY <1>1 DEF Object
<1>3. CASE WriteBlock(w)
  <2> DEFINE m == TakeTo(w)
             p == SubSeq(input[w], from[w] + 1, m)
             c == Copied(obj[w].data, p)
  <2>1. m \in Nat /\ from[w] <= m /\ m <= Len(input[w]) /\ m - from[w] <= BLOCKSIZE
    BY <1>1 DEF TakeTo, Min2
  <2>2. p \in Seq(Byte) /\ Len(p) = m - from[w]
    BY <1>1, <2>1, Taken
  <2>3. Min2(Len(p), BLOCKSIZE) = Len(p)
    BY <1>1, <2>1, <2>2 DEF Min2
  <2>4. c \in Block /\ SubSeq(c, 1, Len(p)) = p
    BY <1>2, <2>1, <2>2, AbsorbCopied
  <2>5. /\ from' = [from EXCEPT ![w] = m]
        /\ obj' = [obj EXCEPT ![w] =
                      StepH([obj[w] EXCEPT !.data = c, !.n = Len(p)])]
    <3>1. from[w] + Len(p) = m
      BY <1>1, <2>1, <2>2
    <3> QED
      BY <1>3, <2>3, <3>1 DEF WriteBlock, SetObj, h, Own, Advance
  <2>6. Len(p) \in 0 .. BLOCKSIZE
    BY <1>1, <2>1, <2>2
  <2> HIDE DEF m, p, c
  <2>7. /\ StepH([obj[w] EXCEPT !.data = c, !.n = Len(p)]) \in Object
        /\ StepH([obj[w] EXCEPT !.data = c, !.n = Len(p)]).state =
               obj[w].state \o p
    <3> DEFINE o == [obj[w] EXCEPT !.data = c, !.n = Len(p)]
    <3>1. o \in Object /\ o.state = obj[w].state /\ o.data = c /\ o.n = Len(p)
      BY <1>1, <2>4, <2>6 DEF Object
    <3> HIDE DEF o
    <3>2. o.state \o SubSeq(o.data, 1, o.n) = obj[w].state \o p
      BY <2>4, <3>1
    <3>3. obj[w].state \o p \in Seq(Byte)
      BY <1>2, <2>2
    <3>4. StepH(o) = [o EXCEPT !.state = obj[w].state \o p]
      BY <3>2 DEF StepH
    <3>5. StepH(o) \in Object /\ StepH(o).state = obj[w].state \o p
      BY <3>1, <3>3, <3>4 DEF Object
    <3> QED
      BY <3>5 DEF o
  <2>8. /\ obj' \in [Worker -> Object]
        /\ obj'[w].state = obj[w].state \o p
        /\ \A v \in Worker \ {w} : obj'[v] = obj[v]
    BY <2>5, <2>7 DEF TypeInv
  <2> QED
    BY <2>1, <2>5, <2>8 DEF p
<1>4. CASE WriteAll(w)
  <2> PICK m \in Nat : m = Len(input[w])
    BY <1>1
  <2> PICK p : p = SubSeq(input[w], from[w] + 1, m)
    OBVIOUS
  <2>1. from[w] <= m /\ m <= Len(input[w]) /\ p \in Seq(Byte)
    BY <1>1, Taken
  <2>2. /\ from' = [from EXCEPT ![w] = m]
        /\ obj' = [obj EXCEPT ![w] = [obj[w] EXCEPT !.state = obj[w].state \o p]]
    BY <1>4 DEF WriteAll, SetObj, h, Own
  <2>3. obj[w].state \o p \in Seq(Byte)
    BY <1>2, <2>1
  <2>4. /\ [obj[w] EXCEPT !.state = obj[w].state \o p] \in Object
        /\ [obj[w] EXCEPT !.state = obj[w].state \o p].state = obj[w].state \o p
    BY <1>1, <2>3 DEF Object
  <2>5. /\ obj' \in [Worker -> Object]
        /\ obj'[w].state = obj[w].state \o p
        /\ \A v \in Worker \ {w} : obj'[v] = obj[v]
    BY <2>2, <2>4 DEF TypeInv
  <2> QED
    BY <2>1, <2>2, <2>5
<1> QED
  BY <1>3, <1>4

\* Calls and returns.
LEMMA CallType ==
    ASSUME TypeInv, NEW w \in Worker,
           NEW place \in {"read", "reset"}, NEW bytes \in Seq(Byte),
           NEW c \in Content, Called(w, place, bytes, {c}),
           UNCHANGED <<own, disk, from, obj, digest>>,
           file' \in [Worker -> File]
    PROVE  TypeInv'
<1>1. /\ at' = [at EXCEPT ![w] = place] /\ at[w] = "idle"
      /\ input' = [input EXCEPT ![w] = bytes]
      /\ seen' = [seen EXCEPT ![w] = {c}]
  BY DEF Called, Goes
<1>2. Len(bytes) \in Nat /\ IsFiniteSet({c})
  BY FS_Singleton, LenProperties
<1>3. from[w] = 0
  BY <1>1 DEF TypeInv
<1>4. ASSUME NEW v \in Worker
      PROVE  /\ from'[v] <= Len(input'[v])
             /\ at'[v] # "write" => from'[v] = 0
             /\ IsFiniteSet(seen'[v])
  <2>1. CASE v = w
    <3>1. input'[w] = bytes /\ seen'[w] = {c}
      BY <1>1 DEF TypeInv
    <3> QED
      BY <1>2, <1>3, <2>1, <3>1
  <2>2. CASE v # w
    BY <1>1, <2>2 DEF TypeInv
  <2> QED
    BY <2>1, <2>2
<1>5. /\ at' \in [Worker -> {"idle", "read", "reset", "write"}]
      /\ input' \in [Worker -> Seq(Byte)]
      /\ seen' \in [Worker -> SUBSET Content]
  BY <1>1 DEF TypeInv
<1> QED
  BY <1>4, <1>5 DEF TypeInv

LEMMA ReturnType ==
    ASSUME TypeInv, NEW w \in Worker, NEW place, NEW d \in Seq(Byte) \cup {Failed},
           Returns(w, place, d), UNCHANGED <<own, disk, file, obj, seen>>
    PROVE  TypeInv'
<1>1. /\ at' = [at EXCEPT ![w] = "idle"]
      /\ digest' = [digest EXCEPT ![w] = d]
      /\ input' = [input EXCEPT ![w] = <<>>]
      /\ from' = [from EXCEPT ![w] = 0]
  BY DEF Returns, Goes
<1>2. <<>> \in Seq(Byte) /\ Len(<<>>) = 0
  BY EmptySeq
<1> QED
  BY <1>1, <1>2 DEF TypeInv

LEMMA TypeStep ==
    ASSUME TypeInv, [Next]_vars
    PROVE  TypeInv'
<1> <<>> \in Seq(Byte)
  BY EmptySeq
<1>1. ASSUME NEW w \in Worker, NEW f \in File, Open(w, f)
      PROVE  TypeInv'
  BY <1>1, CallType DEF Open, TypeInv
<1>2. ASSUME NEW w \in Worker, NEW f \in File, OpenFails(w, f)
      PROVE  TypeInv'
  BY <1>2, ReturnType DEF OpenFails
<1>3. ASSUME NEW w \in Worker, NEW m \in Content, HashData(w, m)
      PROVE  TypeInv'
  BY <1>3, CallType, HashingAssumption DEF HashData, TypeInv
<1>4. ASSUME NEW w \in Worker, ReadSome(w)
      PROVE  TypeInv'
  <2> PICK d \in Seq(Byte) : d = disk[file[w]]
    BY HashingAssumption DEF TypeInv
  <2>1. input[w] \in Seq(Byte) /\ Len(input[w]) \in Nat
    BY DEF TypeInv
  <2>2. PICK k \in 1 .. Len(d) - Len(input[w]) :
           input' = [input EXCEPT ![w] = input[w] \o
                        SubSeq(d, Len(input[w]) + 1, Len(input[w]) + k)]
    BY <1>4, ReadType DEF Left
  <2>3. input' \in [Worker -> Seq(Byte)]
    BY <2>1, <2>2, Longer DEF TypeInv
  <2>4. Len(input'[w]) \in Nat /\ from[w] = 0
    BY <1>4, <2>3 DEF ReadSome, Goes, TypeInv
  <2>5. \A v \in Worker \ {w} : input'[v] = input[v]
    BY <2>2 DEF TypeInv
  <2>6. at' = at /\ UNCHANGED <<own, disk, file, from, obj, digest, seen>>
    BY <1>4 DEF ReadSome, Goes, TypeInv
  <2>7. ASSUME NEW v \in Worker
        PROVE  from[v] <= Len(input'[v])
    <3>1. CASE v = w
      BY <2>4, <3>1
    <3>2. CASE v # w
      BY <2>5, <3>2 DEF TypeInv
    <3> QED
      BY <3>1, <3>2
  <2> QED
    BY <2>3, <2>6, <2>7 DEF TypeInv
<1>5. ASSUME NEW w \in Worker, ReadEnd(w)
      PROVE  TypeInv'
  <2>1. CASE own
    BY <1>5, <2>1, ReturnType DEF ReadEnd, TypeInv
  <2>2. CASE ~ own
    BY <1>5, <2>2 DEF ReadEnd, Goes, TypeInv
  <2> QED
    BY <2>1, <2>2
<1>6. ASSUME NEW w \in Worker, ReadError(w)
      PROVE  TypeInv'
  BY <1>6, ReturnType DEF ReadError
<1>7. ASSUME NEW w \in Worker, Reset(w)
      PROVE  TypeInv'
  <2>1. /\ obj' = [obj EXCEPT ![w] = Start(obj[w])]
        /\ at' = [at EXCEPT ![w] = "write"]
    BY <1>7 DEF Reset, SetObj, h, Own, Goes
  <2>2. Start(obj[w]) \in Object
    BY DEF Start, Object, TypeInv
  <2> QED
    BY <1>7, <2>1, <2>2 DEF Reset, TypeInv
<1>8. ASSUME NEW w \in Worker, WriteBlock(w) \/ WriteAll(w)
      PROVE  TypeInv'
  <2>1. /\ at[w] = "write" /\ at' = at
        /\ UNCHANGED <<own, disk, file, input, digest, seen>>
    BY <1>8 DEF WriteBlock, WriteAll, Goes, TypeInv
  <2> QED
    BY <1>8, <2>1, WriteType DEF TypeInv
<1>9. ASSUME NEW w \in Worker, Sum(w)
      PROVE  TypeInv'
  <2>1. obj[w].state \in Seq(Byte)
    BY DEF TypeInv, Object
  <2> QED
    BY <1>9, <2>1, ReturnType DEF Sum, StepG, h, Own
<1>10. ASSUME NEW f \in File, Change(f)
       PROVE  TypeInv'
  <2>1. PICK c \in Content : disk' = [disk EXCEPT ![f] = c]
    BY <1>10 DEF Change
  <2>2. disk'[f] = c
    BY <2>1 DEF TypeInv
  <2>3. seen' = [w \in Worker |-> IF at[w] = "read" /\ file[w] = f
                                  THEN seen[w] \cup {c} ELSE seen[w]]
    BY <1>10, <2>2 DEF Change
  <2>4. \A w \in Worker : IsFiniteSet(seen'[w])
    BY <2>3, FS_AddElement DEF TypeInv
  <2>5. disk' \in [File -> Content] /\ seen' \in [Worker -> SUBSET Content]
    BY <2>1, <2>3 DEF TypeInv
  <2>6. UNCHANGED <<own, at, file, input, from, obj, digest>>
    BY <1>10 DEF Change
  <2> QED
    BY <2>4, <2>5, <2>6 DEF TypeInv
<1>11. CASE UNCHANGED vars
  BY <1>11 DEF vars, TypeInv
<1> QED
  BY <1>1, <1>2, <1>3, <1>4, <1>5, <1>6, <1>7, <1>8, <1>9, <1>10, <1>11
     DEF Next, Computes

LEMMA TypeInvariant == Spec => []TypeInv
BY TypeInit, TypeStep, PTL DEF Spec

\* Every variable keeps its type; no position passes the end of its input, and
\* the block never has more bytes than it has room for.
THEOREM TypeCorrect == Spec => []TypeOK
<1>1. TypeInv => TypeOK
  BY DEF TypeInv, TypeOK, Object
<1> QED
  BY <1>1, TypeInvariant, PTL
-----------------------------------------------------------------------------
(* Digests.                                                                *)

\* What Write has passed is what the hash object has absorbed: nothing of an
\* earlier message, and nothing that was left in the block.
Absorbed ==
    \A w \in Worker :
        at[w] = "write" => obj[w].state = SubSeq(input[w], 1, from[w])

\* What a worker has read, or was given, is the only content it can have seen.
Telling(w) ==
    /\ at[w] = "read" => disk[file[w]] \in seen[w]
    /\ \A c : seen[w] = {c} =>
          /\ at[w] = "read" => /\ Len(input[w]) <= Len(disk[file[w]])
                               /\ input[w] = SubSeq(disk[file[w]], 1, Len(input[w]))
          /\ at[w] \in {"reset", "write"} => input[w] = c
          /\ at[w] = "idle" /\ digest[w] # Failed => digest[w] = c

Digests == Absorbed /\ \A w \in Worker : Telling(w)

LEMMA DigestsInit == Init => Digests
BY DEF Init, Digests, Absorbed, Telling

\* A step that concerns another worker.
LEMMA OthersTelling ==
    ASSUME NEW w \in Worker, Telling(w),
           at'[w] = at[w], file'[w] = file[w], input'[w] = input[w],
           digest'[w] = digest[w], seen'[w] = seen[w], UNCHANGED disk
    PROVE  Telling(w)'
BY DEF Telling

\* What a worker does about files and messages, and with its hash object.
Moves(w) ==
    \/ \E f \in File : Open(w, f) \/ OpenFails(w, f)
    \/ \E m \in Content : HashData(w, m)
    \/ ReadSome(w) \/ ReadEnd(w) \/ ReadError(w) \/ Sum(w)
Absorbs(w) == Reset(w) \/ WriteBlock(w) \/ WriteAll(w)

\* No worker touches what is another's.
LEMMA Others ==
    ASSUME TypeInv, NEW w \in Worker, NEW v \in Worker, v # w,
           Moves(w) \/ Absorbs(w)
    PROVE  /\ at'[v] = at[v] /\ file'[v] = file[v] /\ input'[v] = input[v]
           /\ from'[v] = from[v] /\ digest'[v] = digest[v]
           /\ seen'[v] = seen[v] /\ UNCHANGED disk
<1> USE DEF TypeInv, Goes
<1>1. CASE \E f \in File : Open(w, f)
  BY <1>1 DEF Open, Called
<1>2. CASE \E m \in Content : HashData(w, m)
  BY <1>2 DEF HashData, Called
<1>3. CASE ReadSome(w)
  BY <1>3 DEF ReadSome
<1>4. CASE \/ ReadEnd(w) \/ ReadError(w) \/ Sum(w)
           \/ \E f \in File : OpenFails(w, f)
  BY <1>4 DEF ReadEnd, ReadError, Sum, OpenFails, Returns
<1>5. CASE Absorbs(w)
  <2>1. CASE Reset(w)
    BY <2>1 DEF Reset
  <2>2. CASE WriteBlock(w)
    BY <2>2 DEF WriteBlock
  <2>3. CASE WriteAll(w)
    BY <2>3 DEF WriteAll
  <2> QED
    BY <1>5, <2>1, <2>2, <2>3 DEF Absorbs
<1> QED
  BY <1>1, <1>2, <1>3, <1>4, <1>5 DEF Moves

LEMMA AbsorbedStep ==
    ASSUME TypeInv, Absorbed, [Next]_vars
    PROVE  Absorbed'
<1>1. ASSUME NEW w \in Worker, Reset(w)
      PROVE  Absorbed'
  <2>1. /\ obj' = [obj EXCEPT ![w] = Start(obj[w])]
        /\ at' = [at EXCEPT ![w] = "write"] /\ UNCHANGED <<input, from>>
        /\ from[w] = 0
    BY <1>1 DEF Reset, SetObj, h, Own, Goes, TypeInv
  <2>2. Start(obj[w]).state = <<>>
    BY DEF Start, Object, TypeInv
  <2>3. SubSeq(input[w], 1, 0) = <<>>
    BY SubSeqEmpty
  <2>4. obj'[w].state = SubSeq(input'[w], 1, from'[w])
    BY <2>1, <2>2, <2>3 DEF TypeInv
  <2>5. \A v \in Worker \ {w} : obj'[v] = obj[v] /\ at'[v] = at[v]
    BY <2>1 DEF TypeInv
  <2> QED
    BY <2>1, <2>4, <2>5 DEF Absorbed
<1>2. ASSUME NEW w \in Worker, WriteBlock(w) \/ WriteAll(w)
      PROVE  Absorbed'
  <2>1. at[w] = "write" /\ at' = at /\ UNCHANGED input
    BY <1>2 DEF WriteBlock, WriteAll, Goes, TypeInv
  <2> PICK m \in Nat :
         /\ from[w] <= m /\ m <= Len(input[w])
         /\ from' = [from EXCEPT ![w] = m]
         /\ obj'[w].state = obj[w].state \o SubSeq(input[w], from[w] + 1, m)
         /\ \A v \in Worker \ {w} : obj'[v] = obj[v]
    BY <1>2, WriteType
  <2>2. /\ input[w] \in Seq(Byte) /\ from[w] \in 0 .. Len(input[w])
        /\ m \in from[w] .. Len(input[w])
    BY DEF TypeInv
  <2>3. obj'[w].state = SubSeq(input[w], 1, m)
    <3>1. SubSeq(input[w], 1, from[w]) \o SubSeq(input[w], from[w] + 1, m)
              = SubSeq(input[w], 1, m)
      BY <2>2, Taken
    <3> QED
      BY <2>1, <3>1 DEF Absorbed
  <2>4. from'[w] = m /\ \A v \in Worker \ {w} : from'[v] = from[v]
    BY DEF TypeInv
  <2> QED
    BY <2>1, <2>3, <2>4 DEF Absorbed
<1>4. ASSUME NEW w \in Worker, Moves(w)
      PROVE  Absorbed'
  <2>1. UNCHANGED obj
    BY <1>4 DEF Moves, Open, HashData, ReadSome, ReadEnd, ReadError, Sum, OpenFails
  <2>2. at'[w] # "write"
    <3> USE DEF TypeInv, Goes, Called, Returns
    <3>1. CASE \E f \in File : Open(w, f) \/ OpenFails(w, f)
      BY <3>1 DEF Open, OpenFails
    <3>2. CASE ReadSome(w)
      BY <3>2 DEF ReadSome
    <3>4. CASE ReadEnd(w)
      BY <3>4 DEF ReadEnd
    <3>3. CASE \/ \E m \in Content : HashData(w, m)
               \/ ReadError(w) \/ Sum(w)
      BY <3>3 DEF HashData, ReadError, Sum
    <3> QED
      BY <1>4, <3>1, <3>2, <3>3, <3>4 DEF Moves
  <2> QED
    BY <1>4, <2>1, <2>2, Others DEF Absorbed
<1>5. CASE UNCHANGED vars \/ \E f \in File : Change(f)
  BY <1>5 DEF vars, Change, Absorbed
<1> QED
  BY <1>1, <1>2, <1>4, <1>5 DEF Next, Computes, Moves

LEMMA TellingStep ==
    ASSUME TypeInv, Digests, [Next]_vars, NEW w \in Worker
    PROVE  Telling(w)'
<1>1. Telling(w)
  BY DEF Digests
<1>2. ASSUME NEW v \in Worker, v # w, Moves(v) \/ Absorbs(v)
      PROVE  Telling(w)'
  BY <1>1, <1>2, Others, OthersTelling
<1>3. ASSUME NEW f \in File, Open(w, f)
      PROVE  Telling(w)'
  <2>1. /\ disk' = disk /\ at'[w] = "read" /\ file'[w] = f
        /\ input'[w] = <<>> /\ seen'[w] = {disk[f]}
    BY <1>3 DEF Open, Called, Goes, TypeInv
  <2>2. disk[f] \in Seq(Byte)
    BY HashingAssumption DEF TypeInv
  <2>3. /\ Len(<<>>) = 0 /\ Len(disk[f]) \in Nat
        /\ SubSeq(disk[f], 1, 0) = <<>>
    BY <2>2, EmptySeq, LenProperties, SubSeqEmpty
  <2> QED
    BY <2>1, <2>3 DEF Telling
<1>4. ASSUME NEW m \in Content, HashData(w, m)
      PROVE  Telling(w)'
  <2>1. at'[w] = "reset" /\ input'[w] = m /\ seen'[w] = {m}
    BY <1>4 DEF HashData, Called, Goes, TypeInv
  <2> QED
    BY <2>1 DEF Telling
<1>5. CASE ReadSome(w)
  <2> PICK d \in Seq(Byte) : d = disk[file[w]]
    BY HashingAssumption DEF TypeInv
  <2> PICK i \in Seq(Byte) : i = input[w]
    BY DEF TypeInv
  <2> PICK k \in 1 .. Len(d) - Len(i) :
         input' = [input EXCEPT ![w] =
                      i \o SubSeq(d, Len(i) + 1, Len(i) + k)]
    BY <1>5, ReadType DEF Left
  <2>1. /\ UNCHANGED <<disk, file, seen>> /\ at'[w] = "read" /\ at[w] = "read"
        /\ input'[w] = i \o SubSeq(d, Len(i) + 1, Len(i) + k)
    BY <1>5 DEF ReadSome, Goes, TypeInv
  <2>2. Len(input'[w]) = Len(i) + k /\ Len(i) + k <= Len(d)
    BY <2>1, Longer
  <2>3. i = SubSeq(d, 1, Len(i)) => input'[w] = SubSeq(d, 1, Len(i) + k)
    <3>1. Len(i) \in 0 .. Len(d) /\ Len(i) + k \in Len(i) .. Len(d)
      BY LenProperties
    <3>2. SubSeq(d, 1, Len(i)) \o SubSeq(d, Len(i) + 1, Len(i) + k)
              = SubSeq(d, 1, Len(i) + k)
      BY <3>1, Taken
    <3> QED
      BY <2>1, <3>2
  <2> QED
    BY <1>1, <2>1, <2>2, <2>3 DEF Telling
<1>6. CASE ReadEnd(w)
  <2>1. /\ UNCHANGED <<disk, file, seen>> /\ at[w] = "read"
        /\ Len(disk[file[w]]) - Len(input[w]) <= 0
    BY <1>6 DEF ReadEnd, Returns, Goes, AtEnd, Left
  <2>2. disk[file[w]] \in Seq(Byte) /\ input[w] \in Seq(Byte)
    BY HashingAssumption DEF TypeInv
  <2>3. ASSUME NEW c, seen[w] = {c}
        PROVE  input[w] = c
    <3>1. /\ disk[file[w]] = c /\ Len(input[w]) <= Len(c)
          /\ input[w] = SubSeq(c, 1, Len(input[w])) /\ c \in Seq(Byte)
      BY <1>1, <2>1, <2>2, <2>3 DEF Telling
    <3>2. Len(input[w]) = Len(c)
      BY <2>1, <2>2, <3>1, LenProperties
    <3> QED
      BY <3>1, <3>2, TakenAll
  <2>4. CASE own
    <3>1. at'[w] = "idle" /\ digest'[w] = input[w]
      BY <1>6, <2>4 DEF ReadEnd, Returns, Goes, TypeInv
    <3> QED
      BY <2>1, <2>3, <3>1 DEF Telling
  <2>5. CASE ~ own
    <3>1. at'[w] = "reset" /\ input'[w] = input[w]
      BY <1>6, <2>5 DEF ReadEnd, Goes, TypeInv
    <3> QED
      BY <2>1, <2>3, <3>1 DEF Telling
  <2> QED
    BY <2>4, <2>5
<1>7. CASE ReadError(w) \/ \E f \in File : OpenFails(w, f)
  <2>1. at'[w] = "idle" /\ digest'[w] = Failed
    BY <1>7 DEF ReadError, OpenFails, Returns, Goes, TypeInv
  <2> QED
    BY <2>1 DEF Telling
<1>8. CASE Absorbs(w)
  <2>1. /\ UNCHANGED <<input, seen>> /\ at[w] \in {"reset", "write"}
        /\ at'[w] = "write"
    BY <1>8 DEF Absorbs, Reset, WriteBlock, WriteAll, Goes, TypeInv
  <2> QED
    BY <1>1, <2>1 DEF Telling
<1>9. CASE Sum(w)
  <2>1. /\ UNCHANGED seen /\ at[w] = "write" /\ at'[w] = "idle"
        /\ digest'[w] = obj[w].state /\ from[w] >= Len(input[w])
        /\ input[w] \in Seq(Byte)
    BY <1>9 DEF Sum, StepG, h, Own, Returns, Goes, TypeInv
  <2>2. from[w] = Len(input[w])
    BY <2>1, LenProperties DEF TypeInv
  <2>3. digest'[w] = input[w]
    BY <2>1, <2>2, TakenAll DEF Digests, Absorbed
  <2> QED
    BY <1>1, <2>1, <2>3 DEF Telling
<1>10. ASSUME NEW f \in File, Change(f)
       PROVE  Telling(w)'
  <2> PICK c \in Content \ {disk[f]} : disk' = [disk EXCEPT ![f] = c]
    BY <1>10 DEF Change
  <2>1. /\ UNCHANGED <<at, file, input, digest>> /\ disk'[f] = c
        /\ seen'[w] = IF at[w] = "read" /\ file[w] = f
                      THEN seen[w] \cup {c} ELSE seen[w]
    BY <1>10 DEF Change, TypeInv
  <2>2. CASE at[w] = "read" /\ file[w] = f
    <3>1. disk[f] \in seen'[w] /\ c \in seen'[w] /\ disk[f] # c
      BY <1>1, <2>1, <2>2 DEF Telling
    <3>2. \A x : seen'[w] # {x}
      BY <3>1
    <3> QED
      BY <2>1, <2>2, <3>2 DEF Telling
  <2>3. CASE at[w] = "read" /\ file[w] # f
    <3>1. disk'[file[w]] = disk[file[w]] /\ seen'[w] = seen[w]
      BY <2>1, <2>3 DEF TypeInv
    <3> QED
      BY <1>1, <2>1, <3>1 DEF Telling
  <2>4. CASE at[w] # "read"
    BY <1>1, <2>1, <2>4 DEF Telling
  <2> QED
    BY <2>2, <2>3, <2>4
<1>11. CASE UNCHANGED vars
  BY <1>1, <1>11 DEF vars, Telling
<1> QED
  BY <1>2, <1>3, <1>4, <1>5, <1>6, <1>7, <1>8, <1>9, <1>10, <1>11
     DEF Next, Computes, Moves, Absorbs

\* A digest is that of the file or the message that was asked for, for every
\* block size and length, whatever was hashed before with the same object and
\* whatever other workers hash meanwhile.
THEOREM DigestIsTrue == Spec => []DigestTrue
<1>1. TypeInv /\ Digests /\ [Next]_vars => Digests'
  BY AbsorbedStep, TellingStep DEF Digests
<1>2. TypeInv /\ Digests => DigestTrue
  <2> SUFFICES ASSUME TypeInv, Digests, NEW w \in Worker,
                      at[w] = "idle", digest[w] # Failed,
                      Cardinality(seen[w]) = 1
               PROVE  digest[w] \in seen[w]
    BY DEF DigestTrue
  <2>1. PICK c : seen[w] = {c}
    BY FS_Singleton DEF TypeInv
  <2> QED
    BY <2>1 DEF Digests, Telling
<1> QED
  BY <1>1, <1>2, DigestsInit, TypeInvariant, PTL DEF Spec

=============================================================================
