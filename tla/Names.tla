-------------------------------- MODULE Names --------------------------------
(***************************************************************************)
(* The strings on which the snapshot tool, the controller and the monitor  *)
(* must agree without ever talking to each other: names of algorithms, of  *)
(* objects in the bucket and of files, the text of a snapshot, and the     *)
(* options that say what is monitored.                                     *)
(*                                                                         *)
(*   pkg/hasher/hasher.go                    names of algorithms           *)
(*   pkg/minio/minio.go                      BuildObjectName               *)
(*   pkg/k8s/k8s.go                          InitKubeData                  *)
(*   internal/utils/process/checksumfile.go  CheckSumFile                  *)
(*   internal/integritymonitor               GetProcessPath, the records,  *)
(*                                           ParseMonitoringOpts           *)
(*   internal/data/checksums_reader.go       Get, parseRecord              *)
(*                                                                         *)
(* A string is a sequence of tokens: words, and the marks the code looks   *)
(* for, "/", ":", "=", ",", "sp" for a blank and "nl" for an end of line.  *)
(* The word "long" stands for one that exceeds the scanner's buffer.       *)
(*                                                                         *)
(* A definition marked "Fault" is no part of the program: it is what the   *)
(* definition after it would be with a plausible mistake, and shows that a *)
(* property notices that mistake.                                          *)
(***************************************************************************)
EXTENDS Naturals, Sequences, FiniteSets, SequencesExt

-----------------------------------------------------------------------------
(* The packages strings and path/filepath, as far as they are used.        *)

Places(s, sep) ==
    {i \in 1 .. Len(s) + 1 - Len(sep) : SubSeq(s, i, i + Len(sep) - 1) = sep}

\* the parts of s around the first place of sep
Before(s, sep) == SubSeq(s, 1, Min(Places(s, sep)) - 1)
After(s, sep) == SubSeq(s, Min(Places(s, sep)) + Len(sep), Len(s))

\* the parts between the marks
Split(s, mark) ==
    LET ends == {i \in DOMAIN s : s[i] = mark} \cup {0, Len(s) + 1}
        End(k) == CHOOSE i \in ends : Cardinality({j \in ends : j < i}) = k
    IN  [k \in 1 .. Cardinality(ends) - 1 |-> SubSeq(s, End(k - 1) + 1, End(k) - 1)]

TrimPrefix(s, p) ==
    IF IsPrefix(p, s) THEN SubSeq(s, Len(p) + 1, Len(s)) ELSE s

Trim(s, marks) ==
    LET kept == {i \in DOMAIN s : s[i] \notin marks}
    IN  IF kept = {} THEN <<>> ELSE SubSeq(s, Min(kept), Max(kept))

TrimSpace(s) == Trim(s, {"sp", "nl"})

\* filepath.Clean, for paths without ".."
Clean(path) ==
    LET parts == SelectSeq(Split(path, "/"), LAMBDA c : c \notin {<<>>, <<".">>})
        joined == FlattenSeq([i \in DOMAIN parts |-> <<"/">> \o parts[i]])
    IN  IF IsPrefix(<<"/">>, path) \/ joined = <<>> THEN joined ELSE Tail(joined)

\* strings.ToLower, which changes the names of algorithms only
LowerCase == [MD5 |-> "md5", SHA256 |-> "sha256", BEE2 |-> "bee2"]
ToLower(name) == IF name \in DOMAIN LowerCase THEN LowerCase[name] ELSE name

-----------------------------------------------------------------------------
(* Algorithms.  bee2 is registered by builds with that tag only.           *)

algs(tags) ==
    {"md5", "sha1", "sha224", "sha256", "sha384", "sha512"}
        \cup (tags \cap {"bee2"})

\* when the flag is not given
DefaultAlgorithm == "SHA256"

\* the algorithm that a program built with these tags computes
newHasherInstance(name, tags) ==
    IF ToLower(name) \in algs(tags) THEN ToLower(name) ELSE "sha256"

-----------------------------------------------------------------------------
(* Objects.                                                                *)

DefaultBucketName == "integrity"

\* an image without a tag is refused by the monitor
HasTag(image) == Len(Split(image, ":")) >= 2

\* Fault: the algorithm is taken as it is written.
NameAsWritten(ns, image, alg) ==
    LET parts == Split(image, ":")
    IN  ns \o <<"/">> \o parts[1] \o <<"/">> \o parts[2] \o <<".", alg>>

CheckSumFile(ns, image, alg) ==
    LET parts == Split(image, ":")
    IN  ns \o <<"/">> \o parts[1] \o <<"/">> \o parts[2] \o <<".", ToLower(alg)>>

\* filepath.Join drops an empty namespace and cleans the rest
BuildObjectName(ns, image, alg) ==
    LET parts == Split(image, ":")
        name == parts[1] \o <<"/">> \o parts[2]
    IN  Clean(IF ns = <<>> THEN name ELSE ns \o <<"/">> \o name)
            \o <<".", ToLower(alg)>>

-----------------------------------------------------------------------------
(* The deployment of a pod: its name without the last two parts, which are *)
(* the hash of the template and a suffix.  With a single part InitKubeData *)
(* panics, without a name left it ends the program.                        *)

HasTarget(podName) == Len(Split(podName, "-")) > 2

targetName(podName) ==
    LET elements == Split(podName, "-")
        newElements == SubSeq(elements, 1, Len(elements) - 2)
    IN  Tail(FlattenSeq([i \in DOMAIN newElements |-> <<"-">> \o newElements[i]]))

-----------------------------------------------------------------------------
(* Names of files.  Both the tool and the monitor walk the directory       *)
(* base/dir and strip the prefix base/ from what they find; rel is the     *)
(* path of a file as the container sees it, without the leading slash.     *)

Relative(dir) == TrimPrefix(Clean(<<"/">> \o dir), <<"/">>)

Below(dir, rel) ==
    Relative(dir) \in {<<>>, rel} \/ IsPrefix(Relative(dir) \o <<"/">>, rel)

\* WalkDir hands over its root as it is, and joins cleanly what is below it
Walked(base, dir, rel) ==
    IF Relative(dir) = rel THEN base \o <<"/">> \o dir
                           ELSE Clean(base \o <<"/">> \o rel)

\* a file below two of the directories is delivered twice
Overlap(dirs, tree) ==
    \E i, j \in DOMAIN dirs, rel \in DOMAIN tree :
        i # j /\ Below(dirs[i], rel) /\ Below(dirs[j], rel)

\* Fault: the prefix is stripped together with its slash.
StrippedBare(base, dir, rel) == TrimPrefix(Walked(base, dir, rel), base)
Stripped(base, dir, rel) == TrimPrefix(Walked(base, dir, rel), base \o <<"/">>)

\* what is delivered for a tree of files, a function from paths to contents
Delivered(base, dirs, tree) ==
    UNION {{[path |-> Stripped(base, d, rel), content |-> tree[rel]] :
                rel \in {r \in DOMAIN tree : Below(d, r)}} : d \in dirs}

GetProcessPath == <<"/", "proc", "/", "pid", "/", "root">>

-----------------------------------------------------------------------------
(* The text of a snapshot.                                                 *)

TwoBlanks == <<"sp", "sp">>

\* Fault: a single blank, as in "md5 name".
RecordOneBlank(r) == r.hash \o <<"sp">> \o r.path \o <<"nl">>
\* writeAsPlainText, in the order the workers delivered the digests
Record(r) == r.hash \o TwoBlanks \o r.path \o <<"nl">>
writeAsPlainText(hashes) == FlattenSeq([i \in DOMAIN hashes |-> Record(hashes[i])])

\* parts[1] of the record split at double blanks
NamePart(rec) ==
    LET rest == After(rec, TwoBlanks)
    IN  IF Places(rest, TwoBlanks) = {} THEN rest ELSE Before(rest, TwoBlanks)

parseRecord(rec) ==
    [path |-> TrimSpace(NamePart(rec)), hash |-> TrimSpace(Before(rec, TwoBlanks))]

\* ScanLines drops the empty line after the last newline; an overlong line
\* ends the scan, and Get does not ask why it ended
Lines(text) ==
    LET all == Split(text, "nl")
        lines == IF Last(all) = <<>> THEN Front(all) ELSE all
        overlong == {i \in DOMAIN lines : Contains(lines[i], "long")}
    IN  IF overlong = {} THEN lines ELSE SubSeq(lines, 1, Min(overlong) - 1)

\* an empty record, or one without double blanks, makes the text unreadable
Readable(text) == \A i \in DOMAIN Lines(text) : Places(Lines(text)[i], TwoBlanks) # {}

\* the map built from the records: of two for one name the last one counts
Expected(text) ==
    LET recs == [i \in DOMAIN Lines(text) |-> parseRecord(Lines(text)[i])]
        At(path) == Max({i \in DOMAIN recs : recs[i].path = path})
    IN  [path \in {recs[i].path : i \in DOMAIN recs} |-> recs[At(path)].hash]

-----------------------------------------------------------------------------
(* --monitoring-options, after strconv.Unquote.                            *)

OptionParts(p) == Split(p, "=")
OptionOK(p) == Len(OptionParts(p)) >= 2 /\ OptionParts(p)[2] # <<>>

\* Fault: only the first of the paths is taken.
FirstPath(p) ==
    <<TrimSpace(Split(Trim(OptionParts(p)[2], {","}), ",")[1])>>
OptionPaths(p) ==
    LET paths == Split(Trim(OptionParts(p)[2], {","}), ",")
    IN  [i \in DOMAIN paths |-> TrimSpace(paths[i])]

ParseOK(opts) ==
    opts # <<>> /\ \A i \in DOMAIN Split(opts, "sp") : OptionOK(Split(opts, "sp")[i])

\* a later option for the same process replaces an earlier one
ParseMonitoringOpts(opts) ==
    LET ps == Split(opts, "sp")
        At(proc) == Max({i \in DOMAIN ps : OptionParts(ps[i])[1] = proc})
    IN  [proc \in {OptionParts(ps[i])[1] : i \in DOMAIN ps} |->
            OptionPaths(ps[At(proc)])]
=============================================================================
