------------------------------ MODULE MCMonitor ------------------------------
(* A small instance of Monitor for TLC. *)
EXTENDS Monitor

CONSTANTS p1, p2

\* one process can be checked as it should, the other cannot
TheOther == {p2}

\* Both senders, of which Splunk may hang; or Splunk without its token.
Both == [splunk |-> TRUE, token |-> TRUE, syslog |-> TRUE]
NoToken == [Both EXCEPT !.token = FALSE]
TwoConfigs == {Both, NoToken}
=============================================================================
