--------------------------- MODULE Monitor_proofs ---------------------------
(***************************************************************************)
(* Theorems about Monitor, for every set of processes and configurations   *)
(* of the senders, whichever processes cannot be checked as they should.   *)
(***************************************************************************)
EXTENDS Monitor, SequenceTheorems, TLAPS

-----------------------------------------------------------------------------
(* The senders.                                                            *)

Lists == {<<>>, <<"splunk">>, <<"syslog">>, <<"splunk", "syslog">>}

LEMMA ListLength ==
    /\ Len(<<>>) = 0
    /\ Len(<<"splunk">>) = 1 /\ Len(<<"syslog">>) = 1
    /\ Len(<<"splunk", "syslog">>) = 2
    /\ \A l \in Lists : Len(l) \in 0 .. 2
BY DEF Lists

LEMMA Joined ==
    ASSUME NEW a, NEW b
    PROVE  /\ <<a>> \o <<>> = <<a>> /\ <<>> \o <<b>> = <<b>> /\ <<>> \o <<>> = <<>>
           /\ <<a>> \o <<b>> = <<a, b>>
<1> PICK S : S = {a, b}
  OBVIOUS
<1>1. <<a>> \in Seq(S) /\ <<b>> \in Seq(S) /\ <<a, b>> \in Seq(S) /\ <<>> \in Seq(S)
  OBVIOUS
<1>2. <<a>> \o <<>> = <<a>> /\ <<>> \o <<b>> = <<b>> /\ <<>> \o <<>> = <<>>
  BY <1>1, ConcatEmptySeq
<1> PICK c : c = <<a>> \o <<b>>
  OBVIOUS
<1>3. c \in Seq(S) /\ Len(c) = 2 /\ c[1] = a /\ c[2] = b
  <2>1. Len(<<a>>) = 1 /\ Len(<<b>>) = 1 /\ <<a>>[1] = a /\ <<b>>[1] = b
    OBVIOUS
  <2>2. \A i \in 1 .. 2 : c[i] = IF i <= 1 THEN <<a>>[i] ELSE <<b>>[i - 1]
    BY <1>1, <2>1, ConcatProperties
  <2>3. c \in Seq(S) /\ Len(c) = 2
    BY <1>1, <2>1, ConcatProperties
  <2>4. 2 - 1 = 1 /\ 1 \in 1 .. 2 /\ 2 \in 1 .. 2 /\ ~ (2 <= 1)
    OBVIOUS
  <2> QED
    BY <2>1, <2>2, <2>3, <2>4
<1>4. Len(<<a, b>>) = 2 /\ <<a, b>>[1] = a /\ <<a, b>>[2] = b
  OBVIOUS
<1>5. c = <<a, b>>
  <2>1. \A i \in 1 .. 2 : i = 1 \/ i = 2
    OBVIOUS
  <2>2. \A i \in 1 .. 2 : c[i] = <<a, b>>[i]
    BY <2>1, <1>3, <1>4
  <2> QED
    BY <2>2, <1>1, <1>3, <1>4, SeqEqual
<1> QED
  BY <1>2, <1>5

LEMMA RegisteredIs ==
    Registered = IF SplunkUsed
                 THEN IF config.syslog THEN <<"splunk", "syslog">> ELSE <<"splunk">>
                 ELSE IF config.syslog THEN <<"syslog">> ELSE <<>>
<1>1. /\ <<"splunk">> \o <<>> = <<"splunk">>
      /\ <<>> \o <<"syslog">> = <<"syslog">>
      /\ <<>> \o <<>> = <<>>
      /\ <<"splunk">> \o <<"syslog">> = <<"splunk", "syslog">>
  BY Joined
<1> QED
  BY <1>1 DEF Registered

\* The first senders of the registry.
Called == {registry[i] : i \in 1 .. told}

\* One more is called.
LEMMA OneMore ==
    ASSUME registry \in Lists, told \in Nat, told < Len(registry)
    PROVE  {registry[i] : i \in 1 .. told + 1} = Called \cup {registry[told + 1]}
<1>1. 1 .. told + 1 = 1 .. told \cup {told + 1}
  OBVIOUS
<1> QED
  BY <1>1 DEF Called

LEMMA NamesOfSenders ==
    ASSUME NEW l \in Lists, NEW i \in 1 .. Len(l)
    PROVE  l[i] \in {"splunk", "syslog"}
BY ListLength DEF Lists

\* When every sender registered was called, those asked for were.
LEMMA AllCalled ==
    ASSUME registry = Registered, told = Len(registry)
    PROVE  Called = Asked
<1>1. Called = {registry[i] : i \in 1 .. Len(registry)}
  BY DEF Called
<1>2. Asked = (IF SplunkUsed THEN {"splunk"} ELSE {})
                  \cup (IF config.syslog THEN {"syslog"} ELSE {})
  BY DEF Asked
<1>3. CASE SplunkUsed /\ config.syslog
  <2>1. registry = <<"splunk", "syslog">>
    BY <1>3, RegisteredIs
  <2>2. Called = {registry[1], registry[2]}
    BY <1>1, <2>1, ListLength
  <2> QED
    BY <1>2, <1>3, <2>1, <2>2
<1>4. CASE SplunkUsed /\ ~ config.syslog
  <2>1. registry = <<"splunk">>
    BY <1>4, RegisteredIs
  <2>2. Called = {registry[1]}
    BY <1>1, <2>1, ListLength
  <2> QED
    BY <1>2, <1>4, <2>1, <2>2
<1>5. CASE ~ SplunkUsed /\ config.syslog
  <2>1. registry = <<"syslog">>
    BY <1>5, RegisteredIs
  <2>2. Called = {registry[1]}
    BY <1>1, <2>1, ListLength
  <2> QED
    BY <1>2, <1>5, <2>1, <2>2
<1>6. CASE ~ SplunkUsed /\ ~ config.syslog
  <2>1. registry = <<>>
    BY <1>6, RegisteredIs
  <2> QED
    BY <1>1, <1>2, <1>6, <2>1, ListLength
<1> QED
  BY <1>3, <1>4, <1>5, <1>6

-----------------------------------------------------------------------------
(* Type correctness.                                                       *)

\* The senders are those of the configuration once they are registered.
Ready == {"options"} \cup Looping

Flags ==
    /\ health \in BOOLEAN /\ tick \in BOOLEAN /\ sig \in BOOLEAN
    /\ ctxDone \in BOOLEAN /\ stray \in BOOLEAN

Places ==
    /\ pod \in {"up", "deleted"}
    /\ differs \subseteq Proc
    /\ mon \in Startup \cup Looping \cup {"leave", "reset", "exited"}
    /\ round \subseteq Proc
    /\ proc \in Proc \cup {NoProc}
    /\ seen \subseteq BOOLEAN
    /\ during \subseteq Disturbances
    /\ err \in {"nil", "other", "integrity", "cancelled"}
    /\ config \in Configs
    /\ beat \in {"off", "wait", "send", "hung"}
    /\ handler \in {"off", "wait"}

\* No alert is under way.
Quiet == Startup \cup {"exited", "wait", "next", "check"}

Calls ==
    /\ registry \in Lists
    /\ told \in 0 .. Len(registry)
    /\ errs \subseteq called
    /\ called \subseteq {"splunk", "syslog"}
    /\ mon \in Ready => registry = Registered
    /\ mon \in Quiet => told = 0 /\ called = {}

TypeInv == Flags /\ Places /\ Calls

LEMMA TypeInit == Init => TypeInv
<1> SUFFICES ASSUME Init PROVE TypeInv
  OBVIOUS
<1>1. Flags
  BY Zenon DEF Init, Flags
<1>2. Places
  BY MonitorAssumption DEF Init, Places, Startup
<1>3. Calls
  BY ListLength DEF Init, Calls, Lists, Ready, Looping, Startup
<1> QED
  BY <1>1, <1>2, <1>3 DEF TypeInv

\* Whatever ends the process leaves nothing of it.
LEMMA ExitType ==
    ASSUME TypeInv, Exit, health' \in BOOLEAN, UNCHANGED podVars
    PROVE  TypeInv'
<1>1. Flags'
  BY Zenon DEF Exit, Flags
<1>2. Places'
  BY DEF TypeInv, Exit, NoCheck, Places, podVars
<1>3. Calls'
  BY ListLength DEF TypeInv, Exit, NoCheck, Calls, Lists, Ready, Looping, Startup
<1> QED
  BY <1>1, <1>2, <1>3 DEF TypeInv

Starting ==
    \/ SetHealth \/ NewStorage \/ InitKubeData \/ Connect
    \/ GetDataFromDeployment \/ Register \/ Execute

Rounds == TakeTick \/ RoundEnd \/ Stop \/ \E p \in Proc : NextCheck(p)

Checks == CheckPasses \/ CheckFindsDifference \/ CheckFails \/ CheckCancelled

Alerts == SplunkSend \/ SyslogSend \/ Alerted

Restarts == RestartPod \/ RestartFails

Exits == Fatal \/ ResetHealth \/ Panic \/ Kill

\* The process goes on while it was told to stop, or ends.
Signals == Signal \/ ProbeFails \/ Terminate

LEMMA NextIs ==
    ASSUME [Next]_vars
    PROVE  \/ Starting \/ Rounds \/ Checks \/ Alerts \/ Restarts \/ ExecuteReturns
           \/ Exits \/ Signals \/ Tick \/ HandleSignal \/ Heartbeat
           \/ StartContainer
           \/ \E p \in Proc : Differ(p)
           \/ \E d \in Disturbances : Disturb(d)
           \/ UNCHANGED vars
BY DEF Next, Main, Starting, Rounds, Checks, Alerts, Restarts, Exits, Signals

\* What each part of an alert does to the rest: it goes on, hangs or is done.
LEMMA AlertIs ==
    ASSUME Alerts
    PROVE  /\ mon = "alert"
           /\ UNCHANGED <<podVars, round, proc, seen, during, tick, stray, health,
                          senders, beat, sigVars>>
           /\ \/ \E x \in {"splunk", "syslog"} :
                    /\ Call(x)
                    /\ UNCHANGED err
                    /\ \/ told' = told + 1 /\ errs' \subseteq errs \cup {x}
                                          /\ mon' = mon
                       \/ told' = told /\ errs' = errs /\ mon' = "hung"
              \/ /\ mon' = "restart" /\ told = Len(registry)
                 /\ err' = "integrity"
                 /\ UNCHANGED alertVars
<1>1. CASE Alerted
  BY <1>1 DEF Alerted, AfterAlert, CheckStep, Step, CheckFrame, LoopFrame, checkVars
<1>2. ASSUME NEW x \in {"splunk", "syslog"}, Call(x)
      PROVE  /\ mon = "alert"
             /\ UNCHANGED <<podVars, round, proc, seen, during, tick, stray, health,
                            senders, beat, sigVars, err>>
  BY <1>2 DEF Call, CheckFrame, LoopFrame
<1>3. CASE SplunkSend
  BY <1>2, <1>3 DEF SplunkSend, Sent, SendFails, NextSender, SplunkHangs
<1>4. CASE SyslogSend
  BY <1>2, <1>4 DEF SyslogSend, Sent, SendFails, NextSender
<1> QED
  BY <1>1, <1>3, <1>4 DEF Alerts

\* The flags, whatever happens.
LEMMA FlagsStep ==
    ASSUME Flags, [Next]_vars
    PROVE  Flags'
<1> USE DEF Flags
<1>1. CASE Starting
  <2>1. /\ health' = health \/ health' = TRUE
        /\ UNCHANGED <<tick, sig, ctxDone, stray>>
    BY <1>1 DEF Starting, SetHealth, Healthy, NewStorage, InitKubeData, Connect,
       GetDataFromDeployment, Prepare, Register, Execute, StartupFrame, sigVars
  <2> QED
    BY <2>1, Zenon
<1>2. CASE Rounds
  <2>1. /\ UNCHANGED <<health, sig, ctxDone, stray>>
        /\ tick' = tick \/ tick' = FALSE
    BY <1>2 DEF Rounds, TakeTick, RoundEnd, Stop, NextCheck, LoopFrame, sigVars
  <2> QED
    BY <2>1, Zenon
<1>3. CASE Checks
  <2>1. /\ UNCHANGED <<health, tick, sig, ctxDone>>
        /\ stray' = stray \/ stray' = TRUE
    BY <1>3 DEF Checks, CheckPasses, CheckFindsDifference, CheckFails,
       CheckCancelled, CheckStep, CheckFrame, LoopFrame, sigVars
  <2> QED
    BY <2>1, Zenon
<1>4. CASE Alerts \/ Restarts
  <2>1. UNCHANGED <<health, tick, sig, ctxDone, stray>>
    BY <1>4, AlertIs DEF Restarts, RestartPod, RestartFails, RestartFrame, LoopFrame,
       sigVars
  <2> QED
    BY <2>1, Zenon
<1>5. CASE ExecuteReturns
  BY <1>5, Zenon DEF ExecuteReturns
<1>6. ASSUME Exit
      PROVE  /\ tick' \in BOOLEAN /\ sig' \in BOOLEAN
             /\ ctxDone' \in BOOLEAN /\ stray' \in BOOLEAN
  BY <1>6, Zenon DEF Exit
<1>7. CASE Exits
  <2>1. Exit /\ (health' = health \/ health' = FALSE)
    BY <1>7 DEF Exits, Fatal, ResetHealth, Panic, Kill
  <2> QED
    BY <1>6, <2>1, Zenon
<1>8. CASE Signals
  <2>1. Signalled
    BY <1>8 DEF Signals, Signal, ProbeFails, Terminate
  <2>2. CASE Caught
    <3>1. sig' = TRUE /\ UNCHANGED <<health, tick, ctxDone, stray>>
      BY <2>1, <2>2 DEF Signalled
    <3> QED
      BY <3>1, Zenon
  <2>3. CASE ~ Caught
    BY <1>6, <2>1, <2>3, Zenon DEF Signalled
  <2> QED
    BY <2>2, <2>3
<1>9. CASE Tick
  <2>1. tick' = TRUE /\ UNCHANGED <<health, sig, ctxDone, stray>>
    BY <1>9 DEF Tick, LoopFrame, sigVars
  <2> QED
    BY <2>1, Zenon
<1>10. CASE HandleSignal
  BY <1>10, Zenon DEF HandleSignal
<1>11. CASE \/ Heartbeat \/ UNCHANGED vars
            \/ \E p \in Proc : Differ(p)
            \/ \E d \in Disturbances : Disturb(d)
  <2>1. UNCHANGED <<health, tick, sig, ctxDone, stray>>
    BY <1>11 DEF Heartbeat, Differ, Disturb, vars, sigVars
  <2> QED
    BY <2>1, Zenon
<1>12. CASE StartContainer
  <2>1. health' = FALSE /\ UNCHANGED <<tick, sig, ctxDone, stray>>
    BY <1>12 DEF StartContainer, sigVars
  <2> QED
    BY <2>1, Zenon
<1> QED
  BY <1>1, <1>2, <1>3, <1>4, <1>5, <1>7, <1>8, <1>9, <1>10, <1>11, <1>12, NextIs

\* Where the goroutines stand, and what they work on.
LEMMA PlacesStep ==
    ASSUME TypeInv, [Next]_vars
    PROVE  Places'
<1>1. Places /\ Flags
  BY DEF TypeInv
<1> USE DEF Places, Disturbances, podVars, alertVars, checkVars, loopVars,
        senders, sigVars, Step, Startup, Looping, NoCheck
<1>2. CASE Starting
  BY <1>1, <1>2 DEF Starting, SetHealth, NewStorage, InitKubeData, Connect,
     GetDataFromDeployment, Prepare, Register, Execute, StartupFrame
<1>3. CASE Rounds
  BY <1>1, <1>3 DEF Rounds, TakeTick, AllProcesses, RoundEnd, Stop, NextCheck,
     LoopFrame
<1>4. CASE Checks
  BY <1>1, <1>4 DEF Checks, CheckPasses, CheckFindsDifference,
     CheckFails, AfterOtherError, CheckCancelled, CheckStep, CheckFrame, LoopFrame
<1>5. CASE Alerts
  BY <1>1, <1>5, AlertIs
<1>6. CASE Restarts
  BY <1>1, <1>6 DEF Restarts, RestartPod, RestartFails, RestartFrame, LoopFrame
<1>7. CASE ExecuteReturns
  BY <1>1, <1>7 DEF ExecuteReturns
<1>8. CASE Exits
  BY <1>1, <1>8 DEF Exits, Fatal, ResetHealth, Panic, Kill, Exit
<1>9. CASE Signals
  <2>1. UNCHANGED podVars /\ Signalled
    BY <1>9 DEF Signals, Signal, ProbeFails, Terminate
  <2> QED
    BY <1>1, <2>1 DEF Signalled, Exit
<1>10. CASE Tick \/ HandleSignal \/ Heartbeat
  BY <1>1, <1>10 DEF Tick, HandleSignal, Heartbeat, LoopFrame
<1>11. CASE StartContainer
  BY <1>1, <1>11 DEF StartContainer
<1>12. ASSUME NEW p \in Proc, Differ(p)
       PROVE  Places'
  BY <1>1, <1>12 DEF Differ
<1>13. ASSUME NEW d \in Disturbances, Disturb(d)
       PROVE  Places'
  BY <1>1, <1>13 DEF Disturb
<1>14. CASE UNCHANGED vars
  BY <1>1, <1>14 DEF vars
<1> QED
  BY <1>2, <1>3, <1>4, <1>5, <1>6, <1>7, <1>8, <1>9, <1>10, <1>11, <1>12, <1>13,
     <1>14, NextIs

\* Which senders there are, and how many have been called.
LEMMA CallsStep ==
    ASSUME TypeInv, [Next]_vars
    PROVE  Calls'
<1>1. Calls
  BY DEF TypeInv
<1> USE DEF Calls, alertVars, checkVars, loopVars, senders, Step, Ready, Quiet,
        Startup, Looping, NoCheck
<1>2. CASE Register
  <2>1. /\ mon = "senders" /\ mon' = "options" /\ registry' = Registered
        /\ UNCHANGED <<alertVars, config>>
    BY <1>2 DEF Register, StartupFrame
  <2>2. Registered \in Lists /\ Len(Registered) \in Nat
    BY RegisteredIs, ListLength DEF Lists
  <2>3. Registered' = Registered
    BY <2>1 DEF Registered, SplunkUsed
  <2> QED
    BY <1>1, <2>1, <2>2, <2>3
<1>3. CASE Exit
  BY <1>3, ListLength DEF Exit, Lists
\* no alert is begun or ended, or all of it is forgotten
<1>4. ASSUME UNCHANGED <<registry, config>>, mon' \in Ready => mon \in Ready,
             \/ UNCHANGED alertVars
             \/ told' = 0 /\ called' = {} /\ errs' = {},
             mon' \in Quiet => told' = 0 /\ called' = {}
      PROVE  Calls'
  <2>1. Registered' = Registered
    BY <1>4 DEF Registered, SplunkUsed
  <2>2. Len(registry) \in Nat
    BY <1>1, ListLength
  <2>3. CASE UNCHANGED alertVars
    BY <1>1, <1>4, <2>1, <2>3
  <2>4. CASE told' = 0 /\ called' = {} /\ errs' = {}
    <3>1. told' \in 0 .. Len(registry)
      BY <2>2, <2>4
    <3> QED
      BY <1>1, <1>4, <2>1, <2>4, <3>1
  <2> QED
    BY <1>4, <2>3, <2>4
<1>5. CASE Starting /\ ~ Register
  <2>1. CASE Execute
    BY <1>1, <2>1, <1>4 DEF Execute, StartupFrame
  <2>2. CASE ~ Execute
    BY <1>1, <1>5, <2>2, <1>4 DEF Starting, SetHealth, NewStorage, InitKubeData,
       Connect, GetDataFromDeployment, Prepare, StartupFrame
  <2> QED
    BY <2>1, <2>2
<1>6. CASE Rounds
  BY <1>1, <1>4, <1>6 DEF Rounds, TakeTick, RoundEnd, Stop, NextCheck, LoopFrame
<1>7. CASE Checks
  BY <1>1, <1>4, <1>7 DEF Checks, CheckPasses, CheckFindsDifference,
     CheckFails, AfterOtherError, CheckCancelled, CheckStep, CheckFrame, LoopFrame
<1>8. CASE Alerts
  <2>1. mon = "alert" /\ UNCHANGED senders
    BY <1>8, AlertIs
  <2>2. Registered' = Registered
    BY <2>1 DEF Registered, SplunkUsed
  <2>3. CASE UNCHANGED alertVars /\ mon' = "restart"
    BY <1>1, <2>1, <2>3, <1>4
  <2>4. ASSUME NEW x \in {"splunk", "syslog"}, Call(x)
        PROVE  told < Len(registry) /\ called' = called \cup {x}
    BY <2>4 DEF Call
  <2>5. ASSUME NEW x \in {"splunk", "syslog"}, Call(x), mon' \in {"alert", "hung"},
               errs' \subseteq errs \cup {x}, told' \in {told, told + 1}
        PROVE  Calls'
    <3>1. errs' \subseteq called' /\ called' \subseteq {"splunk", "syslog"}
      BY <1>1, <2>4, <2>5
    <3>2. Len(registry) \in Nat
      BY <1>1, ListLength
    <3>3. told' \in 0 .. Len(registry)
      BY <1>1, <2>4, <2>5, <3>2
    <3> QED
      BY <1>1, <2>1, <2>2, <2>5, <3>1, <3>3
  <2> QED
    BY <1>8, <2>1, <2>3, <2>5, AlertIs
<1>9. CASE Restarts
  BY <1>1, <1>4, <1>9 DEF Restarts, RestartPod, RestartFails, RestartFrame, LoopFrame
<1>10. CASE ExecuteReturns
  BY <1>1, <1>4, <1>10 DEF ExecuteReturns
<1>11. CASE Exits
  BY <1>3, <1>11 DEF Exits, Fatal, ResetHealth, Panic, Kill
<1>12. CASE Signals
  <2>1. Signalled
    BY <1>12 DEF Signals, Signal, ProbeFails, Terminate
  <2>2. CASE Caught
    BY <1>1, <1>4, <2>1, <2>2 DEF Signalled, Caught
  <2>3. CASE ~ Caught
    BY <1>3, <2>1, <2>3 DEF Signalled
  <2> QED
    BY <2>2, <2>3
<1>13. CASE Tick \/ HandleSignal \/ Heartbeat \/ UNCHANGED vars
  BY <1>1, <1>4, <1>13 DEF Tick, HandleSignal, Heartbeat, LoopFrame, vars
<1>14. CASE StartContainer
  BY <1>1, <1>4, <1>14 DEF StartContainer
<1>15. CASE \/ \E p \in Proc : Differ(p)
            \/ \E d \in Disturbances : Disturb(d)
  BY <1>1, <1>4, <1>15 DEF Differ, Disturb
<1> QED
  BY <1>2, <1>5, <1>6, <1>7, <1>8, <1>9, <1>10, <1>11, <1>12, <1>13, <1>14, <1>15,
     NextIs

LEMMA TypeInvariant == Spec => []TypeInv
<1>1. TypeInv /\ [Next]_vars => TypeInv'
  BY FlagsStep, PlacesStep, CallsStep DEF TypeInv
<1> QED
  BY TypeInit, <1>1, PTL DEF Spec

\* Every variable of the monitor keeps its type; the senders called for an
\* alert are never more than those registered.
THEOREM TypeCorrect == Spec => []TypeOK
<1>1. TypeInv => TypeOK
  BY DEF TypeInv, Flags, Places, Calls, Lists, TypeOK
<1> QED
  BY TypeInvariant, <1>1, PTL

-----------------------------------------------------------------------------
(* No restart without a cause and an alert.                                *)

\* What is known once a check has ended in an alert: it has a cause, and the
\* senders called are the first of the registry, or all of them in the end.
Told ==
    /\ mon \in {"alert", "hung", "restart"} => Cause
    /\ mon \in {"alert", "restart"} => called = Called
    /\ mon = "restart" => told = Len(registry)

LEMMA ToldStep ==
    ASSUME TypeInv, Told, [Next]_vars
    PROVE  Told'
<1> USE DEF Told, alertVars, checkVars, loopVars, senders, sigVars, Step, Startup,
        Looping
<1>1. CASE Starting \/ Rounds \/ ExecuteReturns \/ StartContainer \/ Restarts
  BY <1>1 DEF Starting, SetHealth, NewStorage, InitKubeData, Connect,
     GetDataFromDeployment, Prepare, Register, Execute, Rounds, TakeTick, RoundEnd,
     Stop, NextCheck, ExecuteReturns, StartContainer, Restarts, RestartPod,
     RestartFails
<1>2. CASE Checks
  <2>1. CASE CheckFindsDifference
    <3>1. /\ mon = "check" /\ mon' = "alert" /\ Cause
          /\ UNCHANGED <<checkVars, registry, ctxDone>>
      BY <2>1 DEF CheckFindsDifference, CheckStep, CheckFrame, LoopFrame
    <3>2. Cause'
      BY <3>1 DEF Cause
    <3>3. told = 0 /\ called = {}
      BY <3>1 DEF TypeInv, Calls, Quiet
    <3>4. called' = {} /\ told' = 0
      BY <3>1, <3>3
    <3>5. Called' = {}
      BY <3>4 DEF Called
    <3> QED
      BY <3>1, <3>2, <3>4, <3>5
  <2>2. CASE ~ CheckFindsDifference
    BY <1>2, <2>2 DEF Checks, CheckPasses, CheckFails, AfterOtherError,
       CheckCancelled, CheckStep
  <2> QED
    BY <2>1, <2>2
<1>3. CASE Alerts
  <2>1. mon = "alert" /\ UNCHANGED <<proc, seen, during, senders, sigVars>>
    BY <1>3, AlertIs
  <2>2. Cause'
    BY <2>1 DEF Cause
  <2>3. CASE UNCHANGED alertVars /\ mon' = "restart" /\ told = Len(registry)
    <3>1. Called' = Called
      BY <2>1, <2>3 DEF Called
    <3> QED
      BY <2>1, <2>2, <2>3, <3>1
  <2>4. ASSUME NEW x, Call(x), mon' = "alert", told' = told + 1
        PROVE  Told'
    <3>1. /\ told < Len(registry) /\ registry[told + 1] = x
          /\ called' = called \cup {x} /\ registry' = registry
      BY <2>1, <2>4 DEF Call
    <3>2. registry \in Lists /\ told \in Nat
      BY ListLength DEF TypeInv, Calls
    <3>3. Called' = {registry[i] : i \in 1 .. told + 1}
      BY <2>4, <3>1 DEF Called
    <3>4. Called' = Called \cup {x}
      BY <3>1, <3>2, <3>3, OneMore
    <3> QED
      BY <2>1, <2>2, <2>4, <3>1, <3>4
  <2>5. CASE mon' = "hung"
    BY <2>2, <2>5
  <2> QED
    BY <1>3, <2>1, <2>3, <2>4, <2>5, AlertIs
<1>4. ASSUME Exit
      PROVE  Told'
  BY <1>4 DEF Exit
<1>5. CASE Exits
  BY <1>4, <1>5 DEF Exits, Fatal, ResetHealth, Panic, Kill
\* what the process was found to be like stays so while the alert is on
<1>6. ASSUME UNCHANGED <<mon, registry, told, called, proc, during>>,
             seen \subseteq seen', ctxDone => ctxDone'
      PROVE  Told'
  <2>1. Cause => Cause'
    BY <1>6 DEF Cause
  <2>2. Called' = Called
    BY <1>6 DEF Called
  <2> QED
    BY <1>6, <2>1, <2>2
<1>7. CASE Signals
  <2>1. Signalled
    BY <1>7 DEF Signals, Signal, ProbeFails, Terminate
  <2>2. CASE Caught
    BY <1>6, <2>1, <2>2 DEF Signalled
  <2> QED
    BY <1>4, <2>1, <2>2 DEF Signalled
<1>8. CASE Tick \/ Heartbeat \/ HandleSignal \/ UNCHANGED vars
  BY <1>6, <1>8 DEF Tick, Heartbeat, HandleSignal, LoopFrame, vars
<1>9. ASSUME NEW p \in Proc, Differ(p)
      PROVE  Told'
  BY <1>6, <1>9 DEF Differ
<1>10. ASSUME NEW d \in Disturbances, Disturb(d)
       PROVE  Told'
  BY <1>10 DEF Disturb
<1> QED
  BY <1>1, <1>2, <1>3, <1>5, <1>7, <1>8, <1>9, <1>10, NextIs

LEMMA ToldInvariant == Spec => [](TypeInv /\ Told)
<1>1. Init => Told
  BY DEF Init, Told
<1> QED
  BY TypeInvariant, <1>1, ToldStep, PTL DEF Spec

\* The pod is deleted only for one of the causes that the check of a process has
\* for an integrity error, and only after every configured sender was called,
\* whichever of them returned an error.
THEOREM RestartAnnounced == Spec => RestartIsAnnounced
<1>1. ASSUME TypeInv, Told, [Next]_vars, pod = "up", pod' = "deleted"
      PROVE  called = Asked /\ Cause
  <2>1. RestartPod
    <3>1. CASE Starting \/ Rounds \/ Checks \/ ExecuteReturns \/ Tick
               \/ HandleSignal \/ Heartbeat \/ Signals \/ Exits \/ UNCHANGED vars
               \/ \E d \in Disturbances : Disturb(d)
      <4>1. pod' = pod
        BY <3>1 DEF Starting, SetHealth, NewStorage, InitKubeData, Connect,
           GetDataFromDeployment, Prepare, Register, Execute, StartupFrame, Rounds,
           TakeTick, RoundEnd, Stop, NextCheck, Checks, CheckPasses,
           CheckFindsDifference, CheckFails, CheckCancelled, CheckStep, CheckFrame,
           ExecuteReturns, Tick, HandleSignal, Heartbeat, Signals, Signal,
           ProbeFails, Terminate, Exits, Fatal, ResetHealth, Panic, Kill, Disturb,
           vars, podVars
      <4> QED
        BY <4>1, <1>1
    <3>2. CASE Alerts
      BY <1>1, <3>2, AlertIs DEF podVars
    <3>3. CASE Restarts \/ StartContainer \/ \E p \in Proc : Differ(p)
      BY <1>1, <3>3 DEF Restarts, RestartFails, StartContainer, Differ
    <3> QED
      BY <1>1, <3>1, <3>2, <3>3, NextIs
  <2>2. mon = "restart" /\ told = Len(registry) /\ called = Called /\ Cause
    BY <1>1, <2>1 DEF RestartPod, Step, Told
  <2>3. registry = Registered
    BY <1>1, <2>2 DEF TypeInv, Calls, Ready, Looping
  <2> QED
    BY <2>2, <2>3, AllCalled
<1>2. TypeInv /\ Told /\ [Next]_vars
      => [pod = "up" /\ pod' = "deleted" => called = Asked /\ Cause]_vars
  BY <1>1
<1> QED
  BY ToldInvariant, <1>2, PTL DEF Spec, RestartIsAnnounced
=============================================================================
