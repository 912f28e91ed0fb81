------------------------------- MODULE Monitor -------------------------------
(***************************************************************************)
(* The monitor as a process: its start, the loop that checks every         *)
(* monitored process at every tick, the alerts and the restart that follow *)
(* an integrity error, the shutdown, and the pod it runs in.               *)
(*                                                                         *)
(*   cmd/k8s-integrity-sum/main.go     main, runCheckIntegrity             *)
(*   internal/utils/graceful           Execute                             *)
(*   pkg/health, pkg/alerts, pkg/k8s   health file, Send, RestartPod       *)
(*                                                                         *)
(* One call of CheckIntegrity is a single verdict here, with the causes    *)
(* that IntegrityVerdict names: the files of the process at some moment of *)
(* the check, files that cannot be listed or read or that two directories  *)
(* share, another process of the name, or a shutdown.  A comparer that a   *)
(* shutdown left behind may panic later, as the runs of IntegrityCheck     *)
(* show.                                                                   *)
(*                                                                         *)
(* Deleting the pod makes Kubernetes stop the container and start a new    *)
(* pod with the files of the image.                                        *)
(*                                                                         *)
(* A definition marked "Fault" is no part of the program: it is what the   *)
(* definition after it would be with a plausible mistake, and shows that a *)
(* property notices that mistake.                                          *)
(***************************************************************************)
EXTENDS Naturals, Sequences, FiniteSets

CONSTANTS
    Proc,      \* the processes of --monitoring-options
    Configs,   \* how the alert senders are configured
    NoProc,    \* no process
    Unseen,    \* processes some of whose files may not be listed or read
    Repeated   \* processes with files under two monitored directories

ASSUME MonitorAssumption ==
    /\ Proc # {}
    /\ NoProc \notin Proc
    /\ Configs \subseteq [splunk : BOOLEAN, token : BOOLEAN, syslog : BOOLEAN]
    /\ Unseen \subseteq Proc
    /\ Repeated \subseteq Proc

VARIABLES
    pod,      \* "up", or "deleted" and about to be replaced
    differs,  \* the processes whose files are not those of the snapshot
    mon,      \* where the main goroutine stands
    health,   \* the health file exists
    round,    \* processes not yet checked since the last tick
    proc,     \* the process being checked
    seen,     \* history: whether its files differed, since the check began
    during,   \* history: how the check was disturbed
    config,   \* the flags of the senders, which stay as they are
    registry, \* the senders registered
    err,      \* what the last call of CheckIntegrity returned
    told,     \* how far Send has got in the registry
    called,   \* history: the senders called for the alert
    errs,     \* those of them that returned an error
    tick,     \* the channel of the ticker, which holds one tick
    beat,     \* where the heartbeat goroutine stands
    sig,      \* the channel of signals, which holds one signal
    handler,  \* the goroutine of Execute
    ctxDone,  \* the context of the program is cancelled
    stray     \* a comparer was left behind by a cancelled check

podVars == <<pod, differs>>
alertVars == <<told, called, errs>>
checkVars == <<proc, seen, during, alertVars>>
loopVars == <<round, checkVars, err>>
senders == <<config, registry>>
sigVars == <<sig, handler, ctxDone>>
vars == <<podVars, mon, health, loopVars, senders, tick, beat, sigVars, stray>>

Startup == {"health", "storage", "kube", "connect", "deployment", "senders",
            "options"}
Looping == {"wait", "next", "check", "alert", "hung", "restart"}

\* how a check may be disturbed: a process of the name ends or starts, or the
\* files that differ become others
Disturbances == {"churn", "others"}

Init ==
    /\ pod = "up"
    /\ differs = {}
    /\ mon = "health"
    /\ health = FALSE
    /\ round = {} /\ proc = NoProc /\ seen = {} /\ during = {}
    /\ told = 0 /\ called = {} /\ errs = {}
    /\ err = "nil"
    /\ config \in Configs /\ registry = <<>>
    /\ tick = FALSE
    /\ beat = "off"
    /\ sig = FALSE /\ handler = "off" /\ ctxDone = FALSE
    /\ stray = FALSE

\* The call of CheckIntegrity is over.
NoCheck ==
    /\ proc' = NoProc /\ seen' = {} /\ during' = {}
    /\ told' = 0 /\ called' = {} /\ errs' = {}

\* The process ends, in whatever way, and its goroutines with it.
Exit ==
    /\ mon' = "exited"
    /\ round' = {} /\ err' = "nil"
    /\ NoCheck
    /\ registry' = <<>> /\ UNCHANGED config
    /\ tick' = FALSE
    /\ beat' = "off"
    /\ sig' = FALSE /\ handler' = "off" /\ ctxDone' = FALSE
    /\ stray' = FALSE

Step(from, to) == mon = from /\ mon' = to

-----------------------------------------------------------------------------
(* The start of main: any step may fail, and log.Fatal skips the deferred  *)
(* reset of the health file.                                               *)

StartupFrame == UNCHANGED <<podVars, loopVars, config, tick, stray>>

\* Fault: the file is not created.
NeverHealthy == health
\* main tells the liveness probe that the program is there
Healthy == TRUE

SetHealth ==
    /\ Step("health", "storage")
    /\ health' = Healthy
    /\ UNCHANGED <<registry, beat, sigVars>>
    /\ StartupFrame

Prepare(from, to) ==
    /\ Step(from, to)
    /\ UNCHANGED <<health, registry, beat, sigVars>>
    /\ StartupFrame

\* One call each, in the order main makes them; what they read is left out.
NewStorage == Prepare("storage", "kube")
InitKubeData == Prepare("kube", "connect")
Connect == Prepare("connect", "deployment")
GetDataFromDeployment == Prepare("deployment", "senders")

\* Splunk needs an address and a token; without them it is only logged that
\* there are none
SplunkUsed == config.splunk /\ config.token

\* Fault: a single sender is registered.
OneOfThem ==
    IF SplunkUsed THEN <<"splunk">> ELSE SelectSeq(<<"syslog">>, LAMBDA x : config.syslog)
\* Fault: each sender is registered twice.
Twice == OneOfThem \o OneOfThem
Registered ==
    (IF SplunkUsed THEN <<"splunk">> ELSE <<>>)
        \o (IF config.syslog THEN <<"syslog">> ELSE <<>>)

Register ==
    /\ Step("senders", "options")
    /\ registry' = Registered
    /\ UNCHANGED <<health, beat, sigVars>>
    /\ StartupFrame

\* the options are parsed, Execute starts its goroutine and the heartbeat
Execute ==
    /\ Step("options", "wait")
    /\ handler' = "wait"
    /\ beat' = "wait"
    /\ UNCHANGED <<health, registry, sig, ctxDone>>
    /\ StartupFrame

Fatal ==
    /\ mon \in Startup
    /\ Exit
    /\ UNCHANGED <<podVars, health>>

-----------------------------------------------------------------------------
(* runCheckIntegrity.                                                      *)

LoopFrame == UNCHANGED <<health, senders, beat, sigVars>>

\* the ticker goes on, and drops a tick while one is waiting
Tick ==
    /\ mon \in Looping
    /\ ~ tick
    /\ tick' = TRUE
    /\ UNCHANGED <<podVars, mon, loopVars, stray>>
    /\ LoopFrame

\* Fault: a single process is checked.
OneProcess == {CHOOSE p \in Proc : TRUE}
\* for proc, paths := range optsMap
AllProcesses == Proc

TakeTick ==
    /\ Step("wait", "next")
    /\ tick
    /\ tick' = FALSE
    /\ round' = AllProcesses
    /\ UNCHANGED <<podVars, checkVars, err, stray>>
    /\ LoopFrame

RoundEnd ==
    /\ Step("next", "wait")
    /\ round = {}
    /\ UNCHANGED <<podVars, loopVars, tick, stray>>
    /\ LoopFrame

\* Fault: the loop does not look at its context.
ShutdownIgnored == FALSE
\* the select at the head of the inner loop
ShutdownSeen == ctxDone

NextCheck(p) ==
    /\ Step("next", "check")
    /\ p \in round
    /\ ~ ShutdownSeen
    /\ round' = round \ {p}
    /\ proc' = p
    /\ seen' = {p \in differs}
    /\ UNCHANGED <<podVars, during, err, alertVars, tick, stray>>
    /\ LoopFrame

Stop ==
    /\ Step("next", "leave")
    /\ round # {}
    /\ ShutdownSeen
    /\ UNCHANGED <<podVars, loopVars, tick, stray>>
    /\ LoopFrame

CheckFrame == UNCHANGED <<podVars, round, tick>> /\ LoopFrame

\* The check is over when it leads back to the loop.
CheckStep(from, to) ==
    /\ Step(from, to)
    /\ IF to = "next" THEN NoCheck ELSE UNCHANGED checkVars
    /\ CheckFrame

CheckPasses ==
    /\ CheckStep("check", "next")
    /\ FALSE \in seen \/ during # {} \/ proc \in Unseen \/ ctxDone
    /\ err' = "nil"
    /\ UNCHANGED stray

\* An integrity error has one of these causes.
Cause ==
    \/ TRUE \in seen
    \/ proc \in Unseen \cup Repeated
    \/ "churn" \in during
    \/ ctxDone

CheckFindsDifference ==
    /\ CheckStep("check", "alert")
    /\ Cause
    /\ UNCHANGED <<err, stray>>

\* Fault: every error is taken for an integrity error.
AlertAnyway == "alert"
\* errors that are no integrity errors are only logged
AfterOtherError == "next"

CheckFails ==
    /\ CheckStep("check", AfterOtherError)
    /\ err' = "other"
    /\ UNCHANGED stray

CheckCancelled ==
    /\ CheckStep("check", "next")
    /\ ctxDone
    /\ err' = "cancelled"
    /\ stray' \in {stray, TRUE}

\* Fault: the first error ends the calls.
NoneLeft == Len(registry)
\* the error is collected, and the next sender called
NextSender == told + 1

Call(sender) ==
    /\ mon = "alert"
    /\ told < Len(registry)
    /\ registry[told + 1] = sender
    /\ called' = called \cup {sender}
    /\ UNCHANGED <<proc, seen, during, err, stray>>
    /\ CheckFrame

Sent(sender) ==
    /\ Call(sender)
    /\ told' = told + 1
    /\ UNCHANGED <<mon, errs>>

SendFails(sender) ==
    /\ Call(sender)
    /\ told' = NextSender
    /\ errs' = errs \cup {sender}
    /\ UNCHANGED mon

\* http.Client has no timeout: the call may hang; the dialer of syslog gives up
\* when the system does
SplunkHangs ==
    /\ Call("splunk")
    /\ mon' = "hung"
    /\ UNCHANGED <<told, errs>>

SplunkSend == Sent("splunk") \/ SendFails("splunk") \/ SplunkHangs
SyslogSend == Sent("syslog") \/ SendFails("syslog")

\* Fault: the pod is kept when an alert could not be sent.
KeepPod == IF errs = {} THEN "restart" ELSE "next"
\* what Send returned is logged
AfterAlert == "restart"

Alerted ==
    /\ CheckStep("alert", AfterAlert)
    /\ told = Len(registry)
    /\ err' = "integrity"
    /\ UNCHANGED stray

RestartFrame == NoCheck /\ UNCHANGED <<differs, round, err, tick, stray>> /\ LoopFrame

RestartPod == Step("restart", "next") /\ pod' = "deleted" /\ RestartFrame

\* its error is dropped
RestartFails == Step("restart", "next") /\ UNCHANGED pod /\ RestartFrame

-----------------------------------------------------------------------------
(* The end of main.                                                        *)

\* the deferred calls of Execute: signals have their default effect again
ExecuteReturns ==
    /\ Step("leave", "reset")
    /\ handler' = "off"
    /\ sig' = FALSE
    /\ UNCHANGED <<podVars, health, loopVars, senders, tick, beat, ctxDone, stray>>

ResetHealth ==
    /\ mon = "reset"
    /\ health' = FALSE
    /\ Exit
    /\ UNCHANGED podVars

\* the comparer of a cancelled check sends on its closed errC
Panic ==
    /\ stray
    /\ Exit
    /\ UNCHANGED <<podVars, health>>

Main ==
    \/ SetHealth \/ NewStorage \/ InitKubeData \/ Connect
    \/ GetDataFromDeployment \/ Register \/ Execute \/ Fatal
    \/ TakeTick \/ RoundEnd \/ Stop
    \/ \E p \in Proc : NextCheck(p)
    \/ CheckPasses \/ CheckFindsDifference \/ CheckFails \/ CheckCancelled
    \/ SplunkSend \/ SyslogSend \/ Alerted \/ RestartPod \/ RestartFails
    \/ ExecuteReturns \/ ResetHealth

-----------------------------------------------------------------------------
(* The other goroutines.                                                   *)

HandleSignal ==
    /\ handler = "wait"
    /\ sig
    /\ sig' = FALSE
    /\ handler' = "off"
    /\ ctxDone' = TRUE
    /\ UNCHANGED <<podVars, mon, health, loopVars, senders, tick, beat, stray>>

\* Heartbeat: it shares the senders with the loop, and may hang in one too.
Heartbeat ==
    /\ \/ beat = "wait" /\ beat' = "send"
       \/ beat = "send" /\ beat' = "wait"
       \/ beat = "send" /\ SplunkUsed /\ beat' = "hung"
       \/ beat = "wait" /\ ctxDone /\ beat' = "off"
    /\ UNCHANGED <<podVars, mon, health, loopVars, senders, tick, sigVars, stray>>

-----------------------------------------------------------------------------
(* The pod.                                                                *)

\* Execute catches signals from its first step to its deferred ones.
Caught == mon \in Looping \cup {"leave"}

Signalled ==
    \/ /\ Caught
       /\ sig' = TRUE
       /\ UNCHANGED <<mon, health, loopVars, senders, tick, beat, handler, ctxDone,
                      stray>>
    \/ /\ ~ Caught
       /\ Exit
       /\ UNCHANGED health

\* an operator, or the kubelet when the application is not found by pidof
Signal ==
    /\ mon # "exited"
    /\ Signalled
    /\ UNCHANGED podVars

\* the liveness probe does not find the health file
ProbeFails ==
    /\ ~ health
    /\ mon # "exited"
    /\ Signalled
    /\ UNCHANGED podVars

\* the deletion of the pod sends SIGTERM, and SIGKILL some time later
Terminate ==
    /\ pod = "deleted"
    /\ mon # "exited"
    /\ ~ sig /\ ~ ctxDone
    /\ Signalled
    /\ UNCHANGED podVars

Kill ==
    /\ pod = "deleted"
    /\ mon # "exited"
    /\ Exit
    /\ UNCHANGED <<podVars, health>>

\* a new container, with a file system of its own
StartContainer ==
    /\ Step("exited", "health")
    /\ health' = FALSE
    /\ pod' = "up"
    /\ differs' = IF pod = "deleted" THEN {} ELSE differs
    /\ UNCHANGED <<loopVars, senders, tick, beat, sigVars, stray>>

\* files of a monitored process change, or change back
Differ(p) ==
    /\ pod = "up"
    /\ differs' = IF p \in differs THEN differs \ {p} ELSE differs \cup {p}
    /\ seen' = IF p = proc /\ mon = "check" THEN seen \cup {p \notin differs}
                                            ELSE seen
    /\ UNCHANGED <<pod, mon, health, round, proc, during, err, alertVars, senders,
                   tick, beat, sigVars, stray>>

\* Something happens to the process while it is checked; the files that differ
\* become others without a moment at which none does.
Disturb(d) ==
    /\ mon = "check"
    /\ d = "others" => proc \in differs
    /\ during' = during \cup {d}
    /\ UNCHANGED <<podVars, mon, health, round, proc, seen, err, alertVars, senders, tick,
                   beat, sigVars, stray>>

Next ==
    \/ Main
    \/ Tick
    \/ Panic
    \/ HandleSignal
    \/ Heartbeat
    \/ Signal
    \/ ProbeFails
    \/ Terminate
    \/ Kill
    \/ StartContainer
    \/ \E p \in Proc : Differ(p)
    \/ \E d \in Disturbances : Disturb(d)

Spec == Init /\ [][Next]_vars

\* Goroutines run when they can, the ticker ticks, and Kubernetes stops a
\* deleted pod and starts containers.  Files, failures, disturbances, signals
\* and the heartbeat are free, and nothing bounds how often they come.
Fairness ==
    /\ WF_vars(Main)
    /\ WF_vars(Tick)
    /\ WF_vars(HandleSignal)
    /\ WF_vars(Terminate)
    /\ WF_vars(Kill)
    /\ WF_vars(StartContainer)

FairSpec == Spec /\ Fairness

-----------------------------------------------------------------------------
(* Properties.                                                             *)

\* Every variable keeps its type.
TypeOK ==
    /\ pod \in {"up", "deleted"}
    /\ differs \subseteq Proc
    /\ mon \in Startup \cup Looping \cup {"leave", "reset", "exited"}
    /\ health \in BOOLEAN
    /\ round \subseteq Proc
    /\ proc \in Proc \cup {NoProc}
    /\ seen \subseteq BOOLEAN
    /\ during \subseteq Disturbances
    /\ err \in {"nil", "other", "integrity", "cancelled"}
    /\ config \in Configs
    /\ registry \in {<<>>, <<"splunk">>, <<"syslog">>, <<"splunk", "syslog">>}
    /\ told \in 0 .. Len(registry)
    /\ errs \subseteq called /\ called \subseteq {"splunk", "syslog"}
    /\ tick \in BOOLEAN
    /\ beat \in {"off", "wait", "send", "hung"}
    /\ sig \in BOOLEAN
    /\ handler \in {"off", "wait"}
    /\ ctxDone \in BOOLEAN
    /\ stray \in BOOLEAN

\* The senders that are configured.
Asked == {x \in {"splunk"} : SplunkUsed} \cup {x \in {"syslog"} : config.syslog}

\* The pod is deleted only after every sender that is configured was called,
\* whichever of them returned an error and though one may be enabled without a
\* token; and only for a cause: the files of the process differed during the
\* check, some of them cannot be listed or read or are under two directories, a
\* process of the name came or went, or a shutdown is on.  All but the first
\* restart a pod whose files are untouched.
RestartIsAnnounced ==
    [][pod = "up" /\ pod' = "deleted" => called = Asked /\ Cause]_vars

\* Again and again the program is stopped before it has come to its loop: a call
\* of main fails, or a signal comes.
StoppedAtStart == []<><<mon \in Startup /\ mon' = "exited">>_vars

\* Again and again signals come though the health file is there.
ToldToStop == []<><<Signal /\ health>>_vars

\* No difference stays for ever in a process whose files can be listed and read,
\* though RestartPod, checks of other processes and senders fail, and the
\* heartbeat hangs: runCheckIntegrity finds it again.  The exceptions: a sender
\* hangs in the alert; or again and again the checks of this very process fail
\* or are disturbed, RestartPod fails, or the program is told to stop.
DifferencesEnd ==
    \/ <>[](mon = "hung")
    \/ StoppedAtStart
    \/ []<><<RestartFails>>_vars
    \/ ToldToStop
    \/ \A p \in Proc \ Unseen :
          \/ []<>(p \notin differs)
          \/ []<><<CheckFails /\ proc = p>>_vars
          \/ []<><<during' # {} /\ proc = p>>_vars

\* Every process is checked again and again, though checks and RestartPod fail
\* every time and the heartbeat hangs, and the probe always finds the health
\* file of a program that runs its loop.  The exceptions: a sender hangs in the
\* alert, or again and again pods are replaced or the program is told to stop.
ChecksGoOn ==
    \/ \A p \in Proc : []<>(mon = "check" /\ proc = p)
    \/ []<>(pod = "deleted")
    \/ <>[](mon = "hung")
    \/ StoppedAtStart
    \/ ToldToStop

\* "Run Application with graceful shutdown context": a program that is asked
\* to stop ends, be it at the next tick, unless a sender hangs.
ShutdownEnds == ctxDone ~> mon \in {"exited", "hung"}
=============================================================================
