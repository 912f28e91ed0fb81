------------------------ MODULE MCSnapshotController ------------------------
(* Small instances of SnapshotController for TLC. *)
EXTENDS SnapshotController

CONSTANTS s1, s2, o1, o2

OneName == {s1}
TwoNames == {s1, s2}

\* every resource names an object of its own, and keeps it
OwnObject == [n \in {s1, s2} |->
                 [obj : {IF n = s1 THEN o1 ELSE o2}, data : Data]]
OneObject == [n \in {s1} |-> [obj : {o1}, data : Data]]

NoData == {}
SomeBad == {2}
Always == {TRUE}
=============================================================================
