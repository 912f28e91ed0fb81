-------------------------- MODULE IntegrityVerdict --------------------------
(***************************************************************************)
(* What a check of one process promises, whatever its goroutines do: while *)
(* the files change it comes to one verdict, and only an integrity error   *)
(* restarts the pod.  A verdict that the files did not justify at some     *)
(* moment of the check has a cause that is named here: a file that cannot  *)
(* be listed or read, or that two directories share, another process of    *)
(* the monitored name, or a shutdown.                                      *)
(***************************************************************************)
EXTENDS Naturals

CONSTANTS
    File, Content, Absent, Snapshot, Monitored,
    Unseen,   \* files that may not be listed or read although they exist
    Repeated  \* files under two monitored directories

VARIABLES
    fs,        \* what each file holds
    seen,      \* what each file has held since the check began
    churned,   \* a process of the monitored name has ended or started
    stopping,  \* the program has been told to shut down
    verdict,   \* [kind, file]
    restarted  \* the pod has been asked to restart

surroundings == <<fs, seen, churned, stopping>>
vars == <<surroundings, verdict, restarted>>

Value == Content \cup {Absent}
IntegrityErrors == {"mismatch", "new", "deleted"}
Verdict(kind, f) == [kind |-> kind, file |-> f]
Undecided == verdict.kind = "none"

Init ==
    /\ fs \in [File -> Value]
    /\ seen = [f \in File |-> {fs[f]}]
    /\ churned = FALSE
    /\ stopping = FALSE
    /\ verdict = Verdict("none", 0)
    /\ restarted = FALSE

-----------------------------------------------------------------------------
(* What happens around the check.                                          *)

Observe(f, c) ==
    /\ c # fs[f]
    /\ fs' = [fs EXCEPT ![f] = c]
    /\ seen' = [seen EXCEPT ![f] = @ \cup {c}]
    /\ UNCHANGED <<churned, stopping, verdict, restarted>>

Churn ==
    /\ churned' = TRUE
    /\ UNCHANGED <<fs, seen, stopping, verdict, restarted>>

\* a shutdown may come to its verdict in the same step
Stop ==
    /\ ~ stopping
    /\ stopping' = TRUE
    /\ \/ Undecided /\ verdict' = Verdict("cancelled", 0)
       \/ UNCHANGED verdict
    /\ UNCHANGED <<fs, seen, churned, restarted>>

-----------------------------------------------------------------------------
(* The verdicts.                                                           *)

Decide(v) ==
    /\ Undecided
    /\ verdict' = v
    /\ UNCHANGED <<surroundings, restarted>>

\* every named file matched, and no other file stayed for the whole check
Pass ==
    /\ stopping \/ \A f \in DOMAIN Snapshot : Snapshot[f] \in seen[f]
    /\ \/ stopping \/ churned
       \/ \A f \in Monitored \ (DOMAIN Snapshot \cup Unseen) : Absent \in seen[f]
    /\ Decide(Verdict("ok", 0))

Mismatch(f) ==
    /\ f \in DOMAIN Snapshot
    /\ seen[f] \ {Absent, Snapshot[f]} # {}
    /\ Decide(Verdict("mismatch", f))

NewFile(f) ==
    /\ f \in Monitored
    /\ f \notin DOMAIN Snapshot \/ f \in Repeated \/ churned
    /\ seen[f] # {Absent}
    /\ Decide(Verdict("new", f))

Deleted(f) ==
    /\ f \in DOMAIN Snapshot
    /\ Absent \in seen[f] \/ f \in Unseen \/ churned \/ stopping
    /\ Decide(Verdict("deleted", f))

\* the snapshot or the process cannot be had
GiveUp == Decide(Verdict("other", 0))

Cancelled == stopping /\ Decide(Verdict("cancelled", 0))

Restart ==
    /\ verdict.kind \in IntegrityErrors
    /\ ~ restarted
    /\ restarted' = TRUE
    /\ UNCHANGED <<surroundings, verdict>>

Next ==
    \/ \E f \in File, c \in Value : Observe(f, c)
    \/ Churn
    \/ Stop
    \/ Pass
    \/ \E f \in File : Mismatch(f) \/ NewFile(f) \/ Deleted(f)
    \/ GiveUp
    \/ Cancelled
    \/ Restart

Spec == Init /\ [][Next]_vars
=============================================================================
