--------------------------- MODULE MCSnapshotTool ---------------------------
(* Small instances of SnapshotTool for TLC. *)
EXTENDS SnapshotTool

CONSTANTS f1, f2, f3

\* Two directories that share f3, the first with more files than workers
TwoDirs == <<{f1, f2, f3}, {f3}>>
ThreeContents == 1 .. 3
TheTree == {1}
\* what may fail: reading f1, listing the second directory
Flaky1 == {f1}
Second == {2}

\* Images that agree on no file, and whose files have different digests: one
\* has them all, one lacks f2, and in the last the second directory is empty,
\* so that it need not exist.
Image(a, b, c) == [f \in File |-> CASE f = f1 -> a [] f = f2 -> b [] f = f3 -> c]
ThreeImages == {Image(1, 2, 3), Image(3, Absent, 2), Image(2, 1, Absent)}
=============================================================================
