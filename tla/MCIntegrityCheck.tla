-------------------------- MODULE MCIntegrityCheck --------------------------
(* Small instances of IntegrityCheck for TLC. *)
EXTENDS IntegrityCheck, TLC

CONSTANTS f1, f2, f3, c1, c2, absent

MCContent == {c1, c2}

\* Three files: f1 and f2 are in the snapshot, f3 is not.
ThreeFiles == {f1, f2, f3}
TwoExpected == [f \in {f1, f2} |-> c1]

\* Two files: f1 is in the snapshot, f3 is not.
TwoFiles == {f1, f3}
OneExpected == [f \in {f1} |-> c1]

\* monitored directories: two disjoint ones, a single one, two that share f1
DisjointRoots == <<{f1, f3}, {f2}>>
SingleRoot == <<{f1, f3}>>
SharedRoots == <<{f1, f3}, {f1}>>

\* files whose read may fail, directories whose listing may
SomeFlaky == {f1}
ExtraFlaky == {f3}
NoFlaky == {}
FirstDir == {1}

\* the workers of the pool all run the same code
Workers == Permutations(Worker)

TwoPids == {1, 2}
OnePid == {1}
=============================================================================
