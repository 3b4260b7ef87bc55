--------------------------- MODULE StrategyTesting ---------------------------
(***************************************************************************)
(* The strategy tests: TestingService (one job at a time, named by the      *)
(* field currentTestJob), StrategyTester.testStrategy (one engine on port   *)
(* 1081 per strategy, the sites checked at once through it), and            *)
(* VpnController.startVpn, which stops the tests before it sends START.     *)
(*                                                                          *)
(* Commands, the start of a job and its end run on the main thread, one     *)
(* after the other.  testStrategy, the coroutine around proxy.start and the *)
(* checks run on IO threads.  A job has the number of its command; the      *)
(* engine of its k-th strategy is session <<j, k>> of ProxyEngine.          *)
(***************************************************************************)
EXTENDS ProxyEngine, Naturals, Sequences, FiniteSets

CONSTANTS
  MaxCommands,   \* bound: tests asked for
  Batch,         \* Config.STRATEGIES, as a sequence of names
  Sites,         \* hosts to check
  Prompt,        \* bounded waits are long against the steps of engines and threads
  EnginesFail,   \* may byedpi give up by itself?
  VpnUsed        \* is the VPN switched on between tests?

Job == 1 .. MaxCommands
VPN == <<0, 0>>               \* the engine of the VPN service, on another port
Strategy == {Batch[k] : k \in DOMAIN Batch}

ASSUME StrategyTestingAssumption ==
  /\ MaxCommands \in Nat /\ IsFiniteSet(Sites) /\ {Prompt, EnginesFail, VpnUsed} \subseteq BOOLEAN
  /\ Batch \in Seq(Strategy) /\ Batch # <<>>
  /\ Session = (Job \X DOMAIN Batch) \cup {VPN}

VARIABLES
  isRunning, currentTestJob,    \* fields of TestingService
  status,       \* _statusFlow: strategy, tested sites, running
  stopping,     \* stopSelf() was called
  arrived, todo, inBatch,       \* commands so far; strategies of a job; is it a batch
  pc, round,    \* control point of each job, strategy it is at
  cancelled,    \* jobs that were cancelled
  proxyJob,     \* the coroutine around proxy.start
  testedCount,
  check, reported, seen,        \* each check: control point, its count, status it read
  ctl, before, gaveUp,          \* startVpn: control point, tests it found, a wait ran out
  vpnAsked,     \* START was sent to the VPN service
  lateStart     \* history: a cancelled job entered jniStartProxy

service == <<isRunning, currentTestJob, status, stopping>>
work    == <<arrived, todo, inBatch>>
tester  == <<pc, round, cancelled, proxyJob>>
checks  == <<testedCount, check, reported, seen>>
control == <<ctl, before, gaveUp, vpnAsked>>
vars    == <<service, work, tester, checks, control, lateStart, evars>>

NoStatus == [strategy |-> "", tested |-> 0, isRunning |-> FALSE]

STInit ==
  /\ PEInit
  /\ isRunning = FALSE /\ currentTestJob = 0 /\ status = NoStatus /\ stopping = FALSE
  /\ arrived = 0 /\ todo = [j \in Job |-> <<>>] /\ inBatch = {}
  /\ pc = [j \in Job |-> "none"] /\ round = [j \in Job |-> 1]
  /\ cancelled = {} /\ proxyJob = [j \in Job |-> "none"]
  /\ testedCount = [j \in Job |-> 0]
  /\ check = [j \in Job |-> [w \in Sites |-> "done"]]
  /\ reported = [j \in Job |-> [w \in Sites |-> 0]]
  /\ seen = [j \in Job |-> [w \in Sites |-> NoStatus]]
  /\ ctl = "idle" /\ before = {} /\ gaveUp = FALSE /\ vpnAsked = FALSE
  /\ lateStart = FALSE

Live(j) == pc[j] \notin {"none", "done"}

-----------------------------------------------------------------------------
(* TestingService.onStartCommand and onDestroy: steps of the main thread.   *)

\* currentTestJob = null; previousJob?.cancel().  A job that is over is not changed by it.
CancelCurrent == cancelled' = cancelled \cup {j \in Job : j = currentTestJob /\ Live(j)}

\* The command is job arrived + 1, or nothing at all if it is ignored.
Launch(strategies) ==
  /\ CancelCurrent
  /\ isRunning' = TRUE
  /\ todo' = [todo EXCEPT ![arrived + 1] = strategies]
  /\ pc' = [pc EXCEPT ![arrived + 1] = "posted"]
  /\ currentTestJob' = arrived + 1
  /\ UNCHANGED <<stopping, round, proxyJob>>

StartBatch ==
  /\ arrived < MaxCommands
  /\ arrived' = arrived + 1
  /\ IF isRunning /\ status.isRunning
       THEN UNCHANGED <<service, todo, inBatch, tester>>
       ELSE Launch(Batch) /\ inBatch' = inBatch \cup {arrived + 1} /\ UNCHANGED status
  /\ UNCHANGED <<checks, control, lateStart, evars>>

StartTest(s) ==
  /\ arrived < MaxCommands
  /\ arrived' = arrived + 1
  /\ IF isRunning /\ status.strategy = s /\ status.isRunning
       THEN UNCHANGED <<service, todo, inBatch, tester>>
       ELSE Launch(<<s>>) /\ UNCHANGED inBatch
            /\ status' = [strategy |-> s, tested |-> 0, isRunning |-> TRUE]
  /\ UNCHANGED <<checks, control, lateStart, evars>>

Halt ==
  /\ currentTestJob' = 0
  /\ isRunning' = FALSE
  /\ status' = [status EXCEPT !.isRunning = FALSE]

\* handleStopTest; the intent of stopTestsAndWait arrives like any other.
StopTest ==
  /\ CancelCurrent /\ Halt
  /\ stopping' = TRUE
  /\ UNCHANGED <<work, pc, round, proxyJob, checks, control, lateStart, evars>>

\* onDestroy; the next command is for a new instance.
Destroy ==
  /\ stopping /\ stopping' = FALSE
  /\ cancelled' = cancelled \cup {j \in Job : Live(j)}
  /\ Halt
  /\ UNCHANGED <<work, pc, round, proxyJob, checks, control, lateStart, evars>>

-----------------------------------------------------------------------------
(* A job: its main-thread parts, and testStrategy on an IO thread.          *)

Go(j, from, to) == pc[j] = from /\ pc' = [pc EXCEPT ![j] = to]
Engine(j) == <<j, round[j]>>
Listening == {s \in Session \ {VPN} : phase[s] \in {"bound", "serve"}}

Resting == <<service, work, cancelled, control, lateStart>>

\* Mutant of Enter: testedCount outlives the strategy.
EnterCounting(j, k) ==
  /\ round' = [round EXCEPT ![j] = k]
  /\ proxyJob' = [proxyJob EXCEPT ![j] = "none"]
  /\ pc' = [pc EXCEPT ![j] = "settings"]
  /\ UNCHANGED <<testedCount, status>>

\* The loop of handleStartBatch enters testStrategy for the next strategy; a
\* single test had its status set by the command.
Enter(j, k) ==
  /\ round' = [round EXCEPT ![j] = k]
  /\ proxyJob' = [proxyJob EXCEPT ![j] = "none"]
  /\ testedCount' = [testedCount EXCEPT ![j] = 0]
  /\ pc' = [pc EXCEPT ![j] = "settings"]
  /\ IF j \in inBatch
       THEN status' = [strategy |-> todo[j][k], tested |-> 0, isRunning |-> TRUE]
       ELSE UNCHANGED status

\* A job that was cancelled before it was dispatched never runs.
Begin(j) ==
  /\ pc[j] = "posted"
  /\ IF j \in cancelled
       THEN /\ pc' = [pc EXCEPT ![j] = "done"]
            /\ UNCHANGED <<service, round, proxyJob, testedCount>>
       ELSE Enter(j, 1) /\ UNCHANGED <<isRunning, currentTestJob, stopping>>
  /\ UNCHANGED <<work, cancelled, check, reported, seen, control, lateStart, evars>>

\* Mutant of Finish: whoever ends clears the flag.
FinishAnyone(j) ==
  /\ pc' = [pc EXCEPT ![j] = "done"]
  /\ isRunning' = FALSE /\ stopping' = TRUE
  /\ UNCHANGED <<currentTestJob, status>>

\* The finally block: only the job the field names reports the end.
Finish(j) ==
  /\ pc' = [pc EXCEPT ![j] = "done"]
  /\ IF currentTestJob = j
       THEN /\ isRunning' = FALSE
            /\ status' = [status EXCEPT !.isRunning = FALSE]
            /\ stopping' = TRUE
            /\ UNCHANGED currentTestJob
       ELSE UNCHANGED service

\* Mutant of ChildGone: the proxy is launched in a scope of its own.
ChildLeft(j) == proxyJob[j] # "posted"

\* withContext waits for its child before it returns.
ChildGone(j) == proxyJob[j] \in {"none", "done"}

\* testStrategy returns; its value is not looked at.
TestReturns(j) ==
  /\ pc[j] = "leave" /\ ChildGone(j)
  /\ IF j \notin cancelled /\ round[j] < Len(todo[j])
       THEN /\ Enter(j, round[j] + 1)
            /\ UNCHANGED <<isRunning, currentTestJob, stopping>>
       ELSE Finish(j) /\ UNCHANGED <<round, proxyJob, testedCount>>
  /\ UNCHANGED <<work, cancelled, check, reported, seen, control, lateStart, evars>>

\* Where testStrategy is suspended, cancellation ends it; nothing stops its engine.
CancelPoint == {"settings", "recheck", "closed", "ready", "unready", "join", "release"}

Abandon(j) ==
  /\ j \in cancelled /\ pc[j] \in CancelPoint
  /\ Go(j, pc[j], "leave")
  /\ UNCHANGED <<Resting, round, proxyJob, checks, evars>>

\* The settings are read; the arguments may turn out invalid.
ReadSettings(j) ==
  /\ Go(j, "settings", "port") \/ Go(j, "settings", "leave")
  /\ todo[j][round[j]] # "None"
  /\ UNCHANGED <<Resting, round, proxyJob, checks, evars>>

\* runDirectTest: strategy "None" has no engine.
TestDirectly(j) ==
  /\ Go(j, "settings", "direct") /\ todo[j][round[j]] = "None"
  /\ check' = [check EXCEPT ![j] = [w \in Sites |-> "checking"]]
  /\ UNCHANGED <<Resting, round, proxyJob, testedCount, reported, seen, evars>>

\* byedpi_stop ends the loop that server_fd and current_pool name, and misses an
\* engine on its way there.  Once engines overlap, one that leaves clears the
\* pointers of another, so that a stop may miss a loop that serves.
StopEngine ==
  /\ \/ \E s \in Session : PhaseStep(s, "serve", "quit")
     \/ (wasReset \/ \A s \in Session : phase[s] # "serve") /\ UNCHANGED phase
  /\ UNCHANGED <<running, wasReset>>

\* A wait that is long enough runs out when engines and threads have come to rest.
Overdue ==
  Prompt => /\ \A s \in Session : phase[s] \in {"out", "serve"}
            /\ \A j \in Job : proxyJob[j] \notin {"posted", "start"}

\* jniForceClose waits for two seconds, then clears the flag by hand.
ForceWaited ==
  \/ ~running /\ UNCHANGED evars
  \/ Overdue /\ ResetFlag

\* isPortAvailable(1081)
PortFree(j) ==
  /\ Go(j, "port", "init") /\ Listening = {}
  /\ UNCHANGED <<Resting, round, proxyJob, checks, evars>>

\* "Try to force close once more"
PortTaken(j) ==
  /\ Go(j, "port", "portClose") /\ Listening # {}
  /\ StopEngine
  /\ UNCHANGED <<Resting, round, proxyJob, checks>>

PortClosed(j) ==
  /\ Go(j, "portClose", "recheck") /\ ForceWaited
  /\ UNCHANGED <<Resting, round, proxyJob, checks>>

Recheck(j) ==
  /\ Go(j, "recheck", IF Listening = {} THEN "init" ELSE "leave")
  /\ UNCHANGED <<Resting, round, proxyJob, checks, evars>>

\* Mutant of CloseOld: the free port is taken for a sign that nothing runs.
CloseOldSkipped(j) ==
  /\ Go(j, "init", "closed")
  /\ UNCHANGED <<Resting, round, proxyJob, checks, evars>>

\* The list of hosts is written, and "any old proxy is closed".
CloseOld(j) ==
  /\ Go(j, "init", "close") /\ StopEngine
  /\ UNCHANGED <<Resting, round, proxyJob, checks>>

\* The list could not be written.
InitFails(j) ==
  /\ Go(j, "init", "leave")
  /\ UNCHANGED <<Resting, round, proxyJob, checks, evars>>

OldClosed(j) ==
  /\ Go(j, "close", "closed") /\ ForceWaited
  /\ UNCHANGED <<Resting, round, proxyJob, checks>>

\* Where a job goes on although it was cancelled, and may still close an engine.
Blocking == {"settings", "port", "portClose", "recheck", "init", "close", "stop", "stopWait"}

\* The delay of 100 ms is over; a prompt thread has noticed by then that its job
\* was cancelled.
LaunchProxy(j) ==
  /\ Go(j, "closed", "ready")
  /\ Prompt => \A i \in cancelled : pc[i] \notin Blocking
  /\ proxyJob' = [proxyJob EXCEPT ![j] = "posted"]
  /\ UNCHANGED <<Resting, round, checks, evars>>

\* proxy.isRunning() and a connection to port 1081: the checks are launched.
Ready(j) ==
  /\ Go(j, "ready", "checks")
  /\ running /\ Listening # {}
  /\ check' = [check EXCEPT ![j] = [w \in Sites |-> "checking"]]
  /\ UNCHANGED <<Resting, round, proxyJob, testedCount, reported, seen, evars>>

\* Forty rounds went by.
NotReady(j) ==
  /\ Go(j, "ready", "unready")
  /\ Overdue /\ ~(running /\ Listening # {})
  /\ UNCHANGED <<Resting, round, proxyJob, checks, evars>>

\* proxyJob.cancelAndJoin()
Joined(j) ==
  /\ Go(j, "unready", "leave") \/ Go(j, "join", "release")
  /\ ChildGone(j)
  /\ UNCHANGED <<Resting, round, proxyJob, checks, evars>>

\* Mutant of ChecksDone: the proxy is joined before it is stopped.
ChecksDoneUnstopped(j) ==
  /\ \A w \in Sites : check[j][w] = "done"
  /\ IF pc[j] = "direct" \/ j \in cancelled THEN Go(j, pc[j], "leave") ELSE Go(j, "checks", "join")
  /\ UNCHANGED <<Resting, round, proxyJob, checks, evars>>

\* All checks are through: proxy.stop().
ChecksDone(j) ==
  /\ \A w \in Sites : check[j][w] = "done"
  /\ \/ Go(j, "direct", "leave") /\ UNCHANGED evars
     \/ j \in cancelled /\ Go(j, "checks", "leave") /\ UNCHANGED evars
     \/ j \notin cancelled /\ Go(j, "checks", "stop") /\ StopEngine
  /\ UNCHANGED <<Resting, round, proxyJob, checks>>

\* proxy.forceClose()
ForceStop(j) ==
  /\ Go(j, "stop", "stopWait") /\ StopEngine
  /\ UNCHANGED <<Resting, round, proxyJob, checks>>

Stopped(j) ==
  /\ Go(j, "stopWait", "join") /\ ForceWaited
  /\ UNCHANGED <<Resting, round, proxyJob, checks>>

Released(j) ==
  /\ Go(j, "release", "leave") /\ (running => Overdue)
  /\ UNCHANGED <<Resting, round, proxyJob, checks, evars>>

Step(j) ==
  \/ ReadSettings(j) \/ TestDirectly(j) \/ PortFree(j) \/ PortTaken(j) \/ PortClosed(j) \/ Recheck(j)
  \/ CloseOld(j) \/ InitFails(j) \/ OldClosed(j) \/ LaunchProxy(j) \/ Ready(j)
  \/ NotReady(j) \/ Joined(j) \/ ChecksDone(j) \/ ForceStop(j) \/ Stopped(j) \/ Released(j)
  \/ Abandon(j) \/ Begin(j) \/ TestReturns(j)

-----------------------------------------------------------------------------
(* The coroutine around proxy.start, and the engines.                       *)

ProxyCancelled(j) == j \in cancelled \/ pc[j] \in {"unready", "join"}
ProxyGo(j, from, to) == proxyJob[j] = from /\ proxyJob' = [proxyJob EXCEPT ![j] = to]

ProxyDispatched(j) ==
  /\ ProxyGo(j, "posted", IF ProxyCancelled(j) THEN "done" ELSE "start")
  /\ UNCHANGED <<service, work, pc, round, cancelled, checks, control, lateStart, evars>>

\* jniStartProxy returns -1 if an engine runs.
ProxyStart(j) ==
  /\ \/ running /\ ProxyGo(j, "start", "done") /\ UNCHANGED <<evars, lateStart>>
     \/ /\ ProxyGo(j, "start", "main") /\ Start(Engine(j))
        /\ lateStart' = (lateStart \/ j \in cancelled)
  /\ UNCHANGED <<service, work, pc, round, cancelled, checks, control>>

ProxyReturns(j) ==
  /\ ProxyGo(j, "main", "done") /\ Return(Engine(j))
  /\ UNCHANGED <<service, work, pc, round, cancelled, checks, control, lateStart>>

Serving == <<service, work, tester, checks, control, lateStart>>

\* Two engines of tests cannot both have port 1081.
BindPort(s) == Bind(s) /\ (s # VPN => Listening = {})

EngineStep(s) ==
  /\ BindPort(s) \/ Announce(s) \/ (phase[s] = "boot" /\ Listening # {} /\ Quit(s))
  /\ UNCHANGED Serving

\* byedpi_main gives up by itself.
EngineFails(s) == EnginesFail /\ Quit(s) /\ UNCHANGED Serving

\* The VPN service, once asked, starts its own engine when it can.
VpnStarts  == vpnAsked /\ Start(VPN) /\ UNCHANGED Serving
VpnReturns == Return(VPN) /\ UNCHANGED Serving

-----------------------------------------------------------------------------
(* The checks of testStrategy, each in a coroutine of its own.              *)

CheckGo(j, w, from, to) ==
  check[j][w] = from /\ check' = [check EXCEPT ![j][w] = to]

\* The check comes to its end, whatever its result, after a while on the network;
\* isActive, incrementAndGet.
Checked(j, w) ==
  /\ Overdue
  /\ IF j \in cancelled
       THEN CheckGo(j, w, "checking", "done") /\ UNCHANGED <<testedCount, reported>>
       ELSE /\ CheckGo(j, w, "checking", "counted")
            /\ testedCount' = [testedCount EXCEPT ![j] = @ + 1]
            /\ reported' = [reported EXCEPT ![j][w] = testedCount[j] + 1]
  /\ UNCHANGED <<service, work, tester, seen, control, lateStart, evars>>

\* onResult: isActive, then the status is read, changed and written back.
Report(j, w) ==
  /\ CheckGo(j, w, "counted", IF j \in cancelled THEN "done" ELSE "report")
  /\ UNCHANGED <<service, work, tester, testedCount, reported, seen, control, lateStart, evars>>

ReadStatus(j, w) ==
  /\ CheckGo(j, w, "report", "write")
  /\ seen' = [seen EXCEPT ![j][w] = status]
  /\ UNCHANGED <<service, work, tester, testedCount, reported, control, lateStart, evars>>

WriteStatus(j, w) ==
  /\ CheckGo(j, w, "write", "done")
  /\ status' = [seen[j][w] EXCEPT !.tested = reported[j][w]]
  /\ reported' = [reported EXCEPT ![j][w] = 0]
  /\ seen' = [seen EXCEPT ![j][w] = NoStatus]
  /\ UNCHANGED <<isRunning, currentTestJob, stopping, work, tester, testedCount, control,
                 lateStart, evars>>

CheckStep(j, w) == Checked(j, w) \/ Report(j, w) \/ ReadStatus(j, w) \/ WriteStatus(j, w)

-----------------------------------------------------------------------------
(* VpnController.startVpn.  Its intents are commands like any other.        *)

CtlGo(from, to) == ctl = from /\ ctl' = to

\* Mutant of StartVpn: the port alone is checked.
StartVpnBlindly ==
  /\ VpnUsed
  /\ CtlGo("idle", "port")
  /\ before' = {j \in Job : Live(j)}
  /\ gaveUp' = FALSE
  /\ UNCHANGED <<vpnAsked, service, work, tester, checks, lateStart, evars>>

\* stopTestsAndWait sends ACTION_STOP_TEST (StopTest) if a test runs.
StartVpn ==
  /\ VpnUsed
  /\ CtlGo("idle", IF isRunning THEN "wait" ELSE "port")
  /\ before' = {j \in Job : Live(j)}
  /\ gaveUp' = FALSE
  /\ UNCHANGED <<vpnAsked, service, work, tester, checks, lateStart, evars>>

\* Fifty rounds at most.
TestsAwaited ==
  /\ CtlGo("wait", "port")
  /\ gaveUp' = isRunning
  /\ UNCHANGED <<before, vpnAsked, service, work, tester, checks, lateStart, evars>>

\* "Final port check"
ForcePort ==
  /\ CtlGo("port", "closing") /\ running /\ StopEngine
  /\ UNCHANGED <<before, gaveUp, vpnAsked, service, work, tester, checks, lateStart>>

PortForced ==
  /\ CtlGo("closing", "port") /\ ForceWaited
  /\ UNCHANGED <<before, gaveUp, vpnAsked, service, work, tester, checks, lateStart>>

\* The port is free, or thirty rounds went by.
SendStart ==
  /\ CtlGo("port", "idle")
  /\ before' = {} /\ gaveUp' = FALSE
  /\ vpnAsked' = TRUE
  /\ UNCHANGED <<service, work, tester, checks, lateStart, evars>>

-----------------------------------------------------------------------------
STNext ==
  \/ StartBatch \/ StopTest \/ Destroy \/ \E s \in Strategy : StartTest(s)
  \/ \E j \in Job :
       \/ Step(j) \/ ProxyDispatched(j) \/ ProxyStart(j) \/ ProxyReturns(j)
       \/ \E w \in Sites : CheckStep(j, w)
  \/ \E s \in Session : EngineStep(s) \/ EngineFails(s)
  \/ VpnStarts \/ VpnReturns
  \/ StartVpn \/ TestsAwaited \/ ForcePort \/ PortForced \/ SendStart

STSpec == STInit /\ [][STNext]_vars

\* Dispatchers run what can run, engines make progress, and checks time out.
STFairness ==
  /\ \A j \in Job : /\ WF_vars(Step(j)) /\ WF_vars(ProxyDispatched(j))
                    /\ WF_vars(ProxyStart(j)) /\ WF_vars(ProxyReturns(j))
                    /\ \A w \in Sites : WF_vars(CheckStep(j, w))
  /\ \A s \in Session : WF_vars(EngineStep(s))
  /\ WF_vars(VpnReturns) /\ WF_vars(PortForced)

STFairSpec == STSpec /\ STFairness

-----------------------------------------------------------------------------
(* Properties.                                                             *)

JobPoint == {"none", "posted", "settings", "direct", "port", "portClose", "recheck",
  "init", "close", "closed", "ready", "unready", "checks", "stop", "stopWait", "join",
  "release", "leave", "done"}
NSites == Cardinality(Sites)
Status == [strategy : Strategy \cup {""}, tested : 0 .. NSites, isRunning : BOOLEAN]

STTypeOK ==
  /\ PETypeOK
  /\ isRunning \in BOOLEAN /\ stopping \in BOOLEAN
  /\ currentTestJob \in Job \cup {0}
  /\ status \in Status
  /\ arrived \in 0 .. MaxCommands /\ todo \in [Job -> Seq(Strategy)]
  /\ inBatch \subseteq Job
  /\ pc \in [Job -> JobPoint] /\ round \in [Job -> DOMAIN Batch]
  /\ cancelled \subseteq Job
  /\ proxyJob \in [Job -> {"none", "posted", "start", "main", "done"}]
  /\ testedCount \in [Job -> 0 .. NSites]
  /\ check \in [Job -> [Sites -> {"checking", "counted", "report", "write", "done"}]]
  /\ reported \in [Job -> [Sites -> 0 .. NSites]]
  /\ seen \in [Job -> [Sites -> Status]]
  /\ ctl \in {"idle", "wait", "port", "closing"} /\ before \subseteq Job
  /\ gaveUp \in BOOLEAN /\ vpnAsked \in BOOLEAN /\ lateStart \in BOOLEAN

\* isRunning is up exactly while a job that nobody cancelled lives, and that job
\* is the one currentTestJob names: the next command or STOP will find and cancel
\* it, and stopTestsAndWait can trust the flag, in every order of commands, ends of
\* jobs and destructions of the service.
OneTest ==
  \A j \in Job : Live(j) /\ j \notin cancelled <=> isRunning /\ currentTestJob = j

\* While the sites of a strategy are checked, no engine but its own has port 1081, so
\* that no result is measured through the engine of a test that was stopped before.
\* Holds until jniForceClose resets the flag by hand or a cancelled job starts its
\* engine late, behind the forceClose of its successor.
OwnEngineMeasured ==
  ~wasReset /\ ~lateStart =>
    \A j \in Job : pc[j] = "checks" /\ j \notin cancelled => Listening \subseteq {Engine(j)}

\* The engines of a job never overlap: the next strategy of a batch waits for the
\* thread in jniStartProxy, whatever the bounded waits of forceClose gave up on.
OneEnginePerJob ==
  \A j \in Job, k \in DOMAIN Batch : phase[<<j, k>>] # "out" => k = round[j] /\ Live(j)

\* "CRITICAL: Stop tests first if any are running" (VpnController.kt:55): when START
\* is sent, every test that ran when startVpn was called is cancelled or over, and no
\* engine is left, unless a wait ran out or the flag was reset by hand.
VpnAfterTests ==
  [][ctl = "port" /\ ctl' = "idle" /\ ~gaveUp /\ ~running =>
       /\ \A j \in before : j \in cancelled \/ ~Live(j)
       /\ wasReset \/ \A s \in Session : phase[s] = "out"]_vars

\* A test that is shown to run comes to its end, whatever the tests before it left
\* behind: no wait for an engine, a port or a check lasts for ever.
TestsEnd == isRunning ~> ~isRunning
=============================================================================
