------------------------------ MODULE Hashing -------------------------------
(***************************************************************************)
(* How the workers turn files into digests, block by block:                *)
(*                                                                         *)
(*   pkg/hasher/hasher.go            HashFile, HashData                    *)
(*   internal/ffi/bee2/bee2.go       Write, Sum, Reset, HashFile           *)
(*   internal/ffi/bee2/wrapper.go    the calls of the C library            *)
(*                                                                         *)
(* A hash of the Go library is given the whole content that os.ReadFile    *)
(* has read.  bee2 comes with a HashFile of its own, which reads blocks in *)
(* C and shares nothing; its Write, which goes through a buffer that keeps *)
(* the bytes of earlier blocks, serves calls of HashData.  Each worker has *)
(* a Hasher of its own and uses it again for every file.                   *)
(*                                                                         *)
(* Functions without collisions: a digest is the message it was made of.   *)
(* Files may change while they are read.                                   *)
(*                                                                         *)
(* A definition marked "Fault" is no part of the program: it is what the   *)
(* definition after it would be with a plausible mistake, and shows that a *)
(* property notices that mistake.                                          *)
(***************************************************************************)
EXTENDS Integers, Sequences, FiniteSets

CONSTANTS
    Worker,
    File,
    Byte,
    Zero,       \* what a new block is filled with
    Content,    \* what files and messages may hold
    BLOCKSIZE,
    Failed,     \* the error of a file that cannot be read
    MaxChange   \* bound: changes of files

ASSUME HashingAssumption ==
    /\ Worker # {}
    /\ Zero \in Byte
    /\ Content \subseteq Seq(Byte)
    /\ BLOCKSIZE \in Nat \ {0}
    /\ Failed \notin Seq(Byte)
    /\ MaxChange \in Nat

VARIABLES
    own,     \* the algorithm brings its own HashFile: it is bee2
    disk,    \* the contents of the files
    at,      \* where each worker stands
    file,    \* the file it hashes
    input,   \* the bytes it has read, or was given
    from,    \* Write: how many of them are absorbed, takeFrom
    obj,     \* the hash object: state, and the block data with n bytes of it
    digest,  \* what the last call returned
    seen,    \* history: what the file held during the call
    changes

vars == <<own, disk, at, file, input, from, obj, digest, seen, changes>>

Min2(m, n) == IF m < n THEN m ELSE n

\* Fault: one object for the whole pool.
OneForAll(w) == CHOOSE v \in Worker : TRUE
\* NewFileHasher is called by each worker
Own(w) == w
h(w) == obj[Own(w)]
SetObj(w, o) == obj' = [obj EXCEPT ![Own(w)] = o]

\* New, or the object of the Go library
New == [state |-> <<>>, data |-> [i \in 1 .. BLOCKSIZE |-> Zero], n |-> 0]

Init ==
    /\ own \in BOOLEAN
    /\ disk \in [File -> Content]
    /\ at = [w \in Worker |-> "idle"]
    /\ file \in [Worker -> File]
    /\ input = [w \in Worker |-> <<>>]
    /\ from = [w \in Worker |-> 0]
    /\ obj = [w \in Worker |-> New]
    /\ digest = [w \in Worker |-> Failed]
    /\ seen = [w \in Worker |-> {}]
    /\ changes = 0

Goes(w, place, to) == at[w] = place /\ at' = [at EXCEPT ![w] = to]

\* a call with these bytes, or none read yet, of which one of texts is hashed
Called(w, place, bytes, texts) ==
    /\ Goes(w, "idle", place)
    /\ input' = [input EXCEPT ![w] = bytes]
    /\ seen' = [seen EXCEPT ![w] = texts]

\* the buffers of the call are gone
Returns(w, place, d) ==
    /\ Goes(w, place, "idle")
    /\ digest' = [digest EXCEPT ![w] = d]
    /\ input' = [input EXCEPT ![w] = <<>>]
    /\ from' = [from EXCEPT ![w] = 0]

-----------------------------------------------------------------------------
(* Hasher.HashFile: os.ReadFile, or the loop of bsumHashFile.              *)

Open(w, f) ==
    /\ Called(w, "read", <<>>, {disk[f]})
    /\ file' = [file EXCEPT ![w] = f]
    /\ UNCHANGED <<own, disk, from, obj, digest, changes>>

\* nothing is read of a file that cannot be opened
OpenFails(w, f) ==
    /\ Returns(w, "idle", Failed)
    /\ UNCHANGED <<own, disk, file, obj, seen, changes>>

Left(w) == Len(disk[file[w]]) - Len(input[w])

\* Fault: an empty read does not end the loop.
PastEnd(w) == Left(w) < 0
\* a read that gives no byte
AtEnd(w) == Left(w) <= 0

\* fread fills its buffer unless the file ends; os.ReadFile takes what it gets
Portion(w) ==
    IF own THEN {Min2(BLOCKSIZE, Left(w))} ELSE 1 .. Left(w)

ReadSome(w) ==
    /\ Goes(w, "read", "read")
    /\ ~ AtEnd(w)
    /\ \E k \in Portion(w) :
          input' = [input EXCEPT ![w] = @ \o
                      SubSeq(disk[file[w]], Len(@) + 1, Len(@) + k)]
    /\ UNCHANGED <<own, disk, file, from, obj, digest, seen, changes>>

\* bsumHashFile has absorbed each block as it came
ReadEnd(w) ==
    /\ AtEnd(w)
    /\ IF own THEN Returns(w, "read", input[w])
       ELSE Goes(w, "read", "reset") /\ UNCHANGED <<digest, input, from>>
    /\ UNCHANGED <<own, disk, file, obj, seen, changes>>

ReadError(w) ==
    /\ Returns(w, "read", Failed)
    /\ UNCHANGED <<own, disk, file, obj, seen, changes>>

-----------------------------------------------------------------------------
(* Hasher.HashData, called with a message.                                 *)

HashData(w, m) ==
    /\ Called(w, "reset", m, {m})
    /\ UNCHANGED <<own, disk, file, from, obj, digest, changes>>

\* bashHashStart; the block keeps its bytes
Start(o) == [o EXCEPT !.state = <<>>]

Reset(w) ==
    /\ Goes(w, "reset", "write")
    /\ SetObj(w, Start(h(w)))
    /\ UNCHANGED <<own, disk, file, input, from, digest, seen, changes>>

\* takeTo
TakeTo(w) == Min2(from[w] + BLOCKSIZE, Len(input[w]))

\* copy, which leaves the rest of the block as it was
Copied(data, p) ==
    [i \in DOMAIN data |-> IF i <= Len(p) THEN p[i] ELSE data[i]]

\* Fault: the whole block is absorbed, with what is left in it.
WholeBlock(o) == [o EXCEPT !.state = @ \o o.data]
\* bashHashStepH: the first n bytes of the block
StepH(o) == [o EXCEPT !.state = @ \o SubSeq(o.data, 1, o.n)]

\* Fault: every block counts as full.
FullBlock(w, n) == from[w] + BLOCKSIZE
\* takeFrom += a.n
Advance(w, n) == from[w] + n

\* bee2.Write, one turn of its loop
WriteBlock(w) ==
    LET p == SubSeq(input[w], from[w] + 1, TakeTo(w))
        n == Min2(Len(p), BLOCKSIZE)
    IN  /\ own
        /\ Goes(w, "write", "write")
        /\ from[w] < Len(input[w])
        /\ SetObj(w, StepH([h(w) EXCEPT !.data = Copied(@, p), !.n = n]))
        /\ from' = [from EXCEPT ![w] = Advance(w, n)]
        /\ UNCHANGED <<own, disk, file, input, digest, seen, changes>>

\* Write of the Go library
WriteAll(w) ==
    /\ ~ own
    /\ Goes(w, "write", "write")
    /\ from[w] < Len(input[w])
    /\ SetObj(w, [h(w) EXCEPT !.state = @ \o SubSeq(input[w], from[w] + 1, Len(input[w]))])
    /\ from' = [from EXCEPT ![w] = Len(input[w])]
    /\ UNCHANGED <<own, disk, file, input, digest, seen, changes>>

\* bashHashStepG; the state stays
StepG(o) == o.state

Sum(w) ==
    /\ Returns(w, "write", StepG(h(w)))
    /\ from[w] >= Len(input[w])
    /\ UNCHANGED <<own, disk, file, obj, seen, changes>>

-----------------------------------------------------------------------------
\* a file is written to by somebody else
Change(f) ==
    /\ changes < MaxChange
    /\ changes' = changes + 1
    /\ \E c \in Content \ {disk[f]} : disk' = [disk EXCEPT ![f] = c]
    /\ seen' = [w \in Worker |-> IF at[w] = "read" /\ file[w] = f
                                 THEN seen[w] \cup {disk'[f]} ELSE seen[w]]
    /\ UNCHANGED <<own, at, file, input, from, obj, digest>>

Computes(w) ==
    \/ ReadSome(w) \/ ReadEnd(w)
    \/ Reset(w) \/ WriteBlock(w) \/ WriteAll(w) \/ Sum(w)

Next ==
    \/ \E w \in Worker, f \in File : Open(w, f) \/ OpenFails(w, f)
    \/ \E w \in Worker, m \in Content : HashData(w, m)
    \/ \E w \in Worker : Computes(w) \/ ReadError(w)
    \/ \E f \in File : Change(f)

\* a call that was begun goes on
Spec ==
    /\ Init /\ [][Next]_vars
    /\ \A w \in Worker : WF_vars(Computes(w))

-----------------------------------------------------------------------------
(* Properties.                                                             *)

\* Every variable keeps its type.
TypeOK ==
    /\ own \in BOOLEAN
    /\ disk \in [File -> Content]
    /\ at \in [Worker -> {"idle", "read", "reset", "write"}]
    /\ file \in [Worker -> File]
    /\ input \in [Worker -> Seq(Byte)]
    /\ \A w \in Worker :
          /\ from[w] \in 0 .. Len(input[w])
          /\ obj[w].state \in Seq(Byte)
          /\ obj[w].n \in 0 .. BLOCKSIZE
          /\ digest[w] \in Seq(Byte) \cup {Failed}

\* A digest that a worker delivers is that of the file or the message it was
\* asked for, whatever was hashed before with the same object and whatever
\* other workers hash meanwhile: it can be that of no content the file ever
\* had only when the file changed while it was read.
DigestTrue ==
    \A w \in Worker :
        at[w] = "idle" /\ digest[w] # Failed /\ Cardinality(seen[w]) = 1
        => digest[w] \in seen[w]

\* Every call returns: neither loop runs past the end of its input.
CallsEnd == \A w \in Worker : at[w] # "idle" ~> at[w] = "idle"
=============================================================================
