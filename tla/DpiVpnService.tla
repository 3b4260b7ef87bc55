---------------------------- MODULE DpiVpnService ----------------------------
(***************************************************************************)
(* The VPN service: coroutines of one DpiVpnService instance over vpnLock,  *)
(* the volatile flags, the two child coroutines of vpnWorkJob, the health   *)
(* check, and the native engines they start and stop.                       *)
(*                                                                          *)
(* A handler runs on the main thread from one suspension point to the next; *)
(* the children of vpnWorkJob and the health check run on IO threads and    *)
(* interleave with it.  The session a handler creates has the handler's     *)
(* number: vpnWorkJob, its two children, the interface it opened and its    *)
(* health check are all named by it.                                        *)
(***************************************************************************)
EXTENDS ProxyEngine, Integers, Sequences

CONSTANTS
  MaxIntents,      \* bound: commands sent to this instance
  Intents,         \* commands that may arrive
  Config,          \* strategies and arguments, as far as they differ
  Extras,          \* what a start intent may carry: a configuration or nothing (0)
  Modes,           \* run modes the user may choose between two sessions
  EstablishFails,  \* may startVpnInternal fail to open the interface?
  EngineFails      \* may byedpi or the tunnel stop by themselves?

ASSUME DpiVpnServiceAssumption ==
  /\ MaxIntents \in Nat
  /\ Session = 1 .. MaxIntents   \* one session per command at most
  /\ Intents \subseteq {"START", "STOP", "PAUSE", "RESUME"}
  /\ Modes \subseteq {"VPN", "Proxy"}
  /\ EstablishFails \in BOOLEAN /\ EngineFails \in BOOLEAN
  /\ Config # {} /\ 0 \notin Config
  /\ Extras \subseteq Config \cup {0}

VARIABLES
  vpn,              \* the volatile flags of the companion object
  shown,            \* vpnStateFlow
  isStopping,
  lockHolder, lockQueue,            \* vpnLock: fair, not reentrant
  pc,               \* control point of each coroutine
  arrived,          \* commands that reached onStartCommand or onDestroy
  intent, conf,     \* the command of each handler and its configuration
  lastConfig,       \* lastStrategy .. lastBypassedSites
  vpnWorkJob, healthCheckJob,       \* session whose job the field holds, or 0
  workCancelled, healthCancelled,   \* sessions whose job was cancelled
  vpnInterface,     \* session whose interface the field holds, or 0
  open,             \* sessions whose interface was not closed
  proxyOnly,        \* sessions in run mode "Proxy", without an interface
  tunnelRunning,    \* g_tunnel_running
  protector,        \* g_vpn_service is set
  selfStopped, destroyed            \* stopSelf() called; onDestroy ran

locks    == <<lockHolder, lockQueue>>
cmds     == <<arrived, intent, conf>>
jobs     == <<vpnWorkJob, healthCheckJob, workCancelled, healthCancelled>>
ifaces   == <<vpnInterface, open, proxyOnly>>
natives  == <<evars, tunnelRunning, protector>>
lifetime == <<selfStopped, destroyed>>
vars     == <<vpn, shown, isStopping, locks, pc, cmds, lastConfig, jobs, ifaces,
              natives, lifetime>>

Handler == 1 .. (MaxIntents + 2)      \* onDestroy adds two coroutines
H(h) == <<"handler", h>>
P(s) == <<"proxy", s>>                \* proxyLaunch
T(s) == <<"tunnel", s>>               \* tunnelLaunch
C(s) == <<"health", s>>               \* healthCheckJob
NoCo == <<"none", 0>>
Stoppers  == {P(s) : s \in Session} \cup {T(s) : s \in Session} \cup {C(s) : s \in Session}
Coroutine == {H(h) : h \in Handler} \cup Stoppers

Down == [isRunning |-> FALSE, isPaused |-> FALSE, isConnecting |-> FALSE,
         isDisconnecting |-> FALSE, isError |-> FALSE]

SvcInit ==
  /\ PEInit
  /\ vpn = Down /\ shown = Down
  /\ isStopping = FALSE
  /\ lockHolder = NoCo /\ lockQueue = <<>>
  /\ pc = [x \in Coroutine |-> "none"]
  /\ arrived = 0
  /\ intent = [h \in Handler |-> "none"]
  /\ conf = [h \in Handler |-> 0]
  /\ lastConfig = 0
  /\ vpnWorkJob = 0 /\ healthCheckJob = 0 /\ workCancelled = {} /\ healthCancelled = {}
  /\ vpnInterface = 0 /\ open = {} /\ proxyOnly = {}
  /\ tunnelRunning = FALSE /\ protector = FALSE
  /\ selfStopped = FALSE /\ destroyed = FALSE

-----------------------------------------------------------------------------
(* Coroutines, cancellation and vpnLock.                                   *)

\* serviceJob is cancelled last of all, when no handler is left.
Cancelled(x) ==
  CASE x[1] \in {"proxy", "tunnel"} -> x[2] \in workCancelled
    [] x[1] = "health"              -> x[2] \in healthCancelled
    [] OTHER                        -> FALSE

Go(x, from, to) == pc[x] = from /\ pc' = [pc EXCEPT ![x] = to]

\* Leaving withLock hands the lock to the longest waiter.
Unlock == /\ lockHolder' = IF lockQueue = <<>> THEN NoCo ELSE Head(lockQueue)
          /\ lockQueue' = IF lockQueue = <<>> THEN <<>> ELSE Tail(lockQueue)
Resumed(f) == IF lockQueue = <<>> THEN f ELSE [f EXCEPT ![Head(lockQueue)] = "granted"]
Leave(x)   == Unlock /\ pc' = Resumed([pc EXCEPT ![x] = "done"])

\* Main-thread coroutines start in the order they were launched.  Taking a
\* free mutex does not look at cancellation; waiting for one does.
Lock(x) ==
  /\ \/ pc[x] = "lock"
     \/ /\ x[1] = "handler" /\ pc[x] = "posted"
        /\ \A h \in Handler : h < x[2] => pc[H(h)] # "posted"
  /\ IF lockHolder = NoCo
       THEN /\ lockHolder' = x /\ UNCHANGED lockQueue
            /\ pc' = [pc EXCEPT ![x] = "held"]
       ELSE IF Cancelled(x)
         THEN pc' = [pc EXCEPT ![x] = "done"] /\ UNCHANGED locks
         ELSE /\ lockQueue' = Append(lockQueue, x) /\ UNCHANGED lockHolder
              /\ pc' = [pc EXCEPT ![x] = "waiting"]
  /\ UNCHANGED <<vpn, shown, isStopping, cmds, lastConfig, jobs, ifaces, natives, lifetime>>

\* A waiter whose job is cancelled leaves the queue, or gives back the lock
\* it was handed before it could run.
AbandonLock(x) ==
  /\ Cancelled(x)
  /\ \/ /\ pc[x] = "waiting"
        /\ \E i \in 1 .. Len(lockQueue) :
             /\ lockQueue[i] = x
             /\ lockQueue' = SubSeq(lockQueue, 1, i - 1)
                               \o SubSeq(lockQueue, i + 1, Len(lockQueue))
        /\ pc' = [pc EXCEPT ![x] = "done"]
        /\ UNCHANGED lockHolder
     \/ pc[x] = "granted" /\ Leave(x)
  /\ UNCHANGED <<vpn, shown, isStopping, cmds, lastConfig, jobs, ifaces, natives, lifetime>>

Entered(x) == pc[x] = "held" \/ (pc[x] = "granted" /\ ~Cancelled(x))

\* Mutant of CancelJobs: vpnWorkJob is dropped without being cancelled.
DropJobs ==
  /\ healthCancelled' = healthCancelled \cup ({healthCheckJob} \ {0})
  /\ workCancelled' = workCancelled
  /\ healthCheckJob' = 0 /\ vpnWorkJob' = 0

\* healthCheckJob?.cancel(); vpnWorkJob?.cancel(); both fields cleared.
CancelJobs ==
  /\ healthCancelled' = healthCancelled \cup ({healthCheckJob} \ {0})
  /\ workCancelled' = workCancelled \cup ({vpnWorkJob} \ {0})
  /\ healthCheckJob' = 0 /\ vpnWorkJob' = 0

\* updateVpnState
Update(v) == vpn' = v /\ shown' = v

-----------------------------------------------------------------------------
(* onStartCommand, onRevoke and onDestroy.                                 *)

\* A start intent may carry no extras (0): the service is restarted by the
\* system with a null intent.
Command(a, k) ==
  /\ a \in Intents
  /\ ~destroyed /\ arrived < MaxIntents
  /\ arrived' = arrived + 1
  /\ intent' = [intent EXCEPT ![arrived + 1] = a]
  /\ conf' = [conf EXCEPT ![arrived + 1] = k]
  /\ pc' = [pc EXCEPT ![H(arrived + 1)] = "posted"]
  /\ isStopping' = IF a = "START" THEN FALSE ELSE isStopping
  /\ UNCHANGED <<vpn, shown, locks, lastConfig, jobs, ifaces, natives, lifetime>>

\* handleStop("Destroyed") and the coroutine that clears the native reference.
Destroy ==
  /\ selfStopped /\ ~destroyed
  /\ destroyed' = TRUE
  /\ arrived' = arrived + 2
  /\ intent' = [intent EXCEPT ![arrived + 1] = "STOP", ![arrived + 2] = "CLEANUP"]
  /\ pc' = [pc EXCEPT ![H(arrived + 1)] = "posted", ![H(arrived + 2)] = "posted"]
  /\ UNCHANGED <<vpn, shown, isStopping, locks, conf, lastConfig, jobs, ifaces,
                 natives, selfStopped>>

\* jniSetVpnService(null), jniCleanup(), then serviceJob.cancel().
CleanupBody(h) ==
  /\ intent[h] = "CLEANUP" /\ Entered(H(h))
  /\ protector' = FALSE
  /\ workCancelled' = Session /\ healthCancelled' = Session
  /\ Leave(H(h))
  /\ UNCHANGED <<vpn, shown, isStopping, cmds, lastConfig, vpnWorkJob, healthCheckJob,
                 ifaces, evars, tunnelRunning, lifetime>>

-----------------------------------------------------------------------------
(* handleStart and startVpnInternal.                                       *)

\* An extra that is missing keeps its last value.
NewConfig(h)  == IF conf[h] = 0 THEN lastConfig ELSE conf[h]
SameConfig(h) == NewConfig(h) = lastConfig
\* Mutant of Busy: the interface of a session that is still connecting counts not.
BusyWhenUp == vpn.isRunning \/ vpn.isPaused \/ running \/ tunnelRunning

Busy == vpn.isRunning \/ vpn.isPaused \/ vpnInterface # 0 \/ running \/ tunnelRunning

\* "VPN already running with same config"
StartIgnored(h) ==
  /\ intent[h] = "START" /\ Entered(H(h))
  /\ vpn.isRunning /\ ~vpn.isPaused /\ SameConfig(h)
  /\ Update(vpn)
  /\ Leave(H(h))
  /\ UNCHANGED <<isStopping, cmds, lastConfig, jobs, ifaces, natives, lifetime>>

\* stopVpnInternal("Strategy change") first, when anything is left over.
StartBody(h) ==
  /\ intent[h] = "START" /\ Entered(H(h))
  /\ ~(vpn.isRunning /\ ~vpn.isPaused /\ SameConfig(h))
  /\ IF Busy THEN CancelJobs /\ pc' = [pc EXCEPT ![H(h)] = "stopNatives"]
             ELSE UNCHANGED jobs /\ pc' = [pc EXCEPT ![H(h)] = "begin"]
  /\ UNCHANGED <<vpn, shown, isStopping, locks, cmds, lastConfig, ifaces, natives, lifetime>>

\* Mutant of Begin: jniSetVpnService(this) is left to the service's creation.
BeginBare(h) ==
  /\ Go(H(h), "begin", "establish")
  /\ Update([Down EXCEPT !.isConnecting = TRUE])
  /\ UNCHANGED <<isStopping, locks, cmds, lastConfig, jobs, ifaces, natives, lifetime>>

Begin(h) ==
  /\ Go(H(h), "begin", "establish")
  /\ Update([Down EXCEPT !.isConnecting = TRUE])
  /\ protector' = TRUE
  /\ UNCHANGED <<isStopping, locks, cmds, lastConfig, jobs, ifaces, evars, tunnelRunning,
                 lifetime>>

\* What was never given comes from the stored settings.
RememberConfig(h) ==
  IF NewConfig(h) # 0 THEN lastConfig' = NewConfig(h) ELSE lastConfig' \in Config

OpenInterface(h) ==
  /\ "VPN" \in Modes
  /\ vpnInterface' = h /\ open' = open \cup {h} /\ UNCHANGED proxyOnly

\* The run mode is read from the settings anew for every session.
SkipInterface(h) ==
  /\ "Proxy" \in Modes
  /\ proxyOnly' = proxyOnly \cup {h} /\ UNCHANGED <<vpnInterface, open>>

\* The interface is opened and vpnWorkJob launched with its two children.
Establish(h) ==
  /\ pc[H(h)] = "establish"
  /\ RememberConfig(h)
  /\ OpenInterface(h) \/ SkipInterface(h)
  /\ vpnWorkJob' = h
  /\ Unlock
  /\ pc' = Resumed([pc EXCEPT ![H(h)] = "done", ![P(h)] = "launch", ![T(h)] = "wait"])
  /\ UNCHANGED <<vpn, shown, isStopping, cmds, healthCheckJob, workCancelled,
                 healthCancelled, natives, lifetime>>

\* establish() returns null, or something throws before or after it: stopVpnAsync
\* is called by the coroutine that already holds vpnLock, and waits for itself.
EstablishFailed(h) ==
  /\ EstablishFails
  /\ Go(H(h), "establish", "waiting")
  /\ RememberConfig(h)
  /\ OpenInterface(h) \/ UNCHANGED ifaces
  /\ vpn' = [vpn EXCEPT !.isError = TRUE]
  /\ lockQueue' = Append(lockQueue, H(h))
  /\ UNCHANGED <<shown, isStopping, lockHolder, cmds, jobs, natives, lifetime>>

-----------------------------------------------------------------------------
(* stopVpnInternal, as part of handleStart, stopVpnAsync and pauseVpn.     *)

\* byedpi_stop ends the loop that server_fd and current_pool name, and misses an
\* engine that is not that far.  Once engines overlap, one that leaves clears the
\* pointers of another, so that a stop may miss a loop that serves.
StopProxy ==
  /\ \/ \E s \in Session : PhaseStep(s, "serve", "quit")
     \/ (wasReset \/ \A s \in Session : phase[s] # "serve") /\ UNCHANGED phase
  /\ UNCHANGED <<running, wasReset>>

\* proxy.stop() and tunnel.stop(); hev_socks5_tunnel_quit reaches a tunnel that runs.
StopEngines(f) ==
  /\ StopProxy
  /\ pc' = [x \in Coroutine |-> IF f[x] = "tunnel" THEN "tunnelEnd" ELSE f[x]]
  /\ UNCHANGED tunnelRunning

StopNatives(x) ==
  /\ pc[x] = "stopNatives"
  /\ StopEngines([pc EXCEPT ![x] = "drain"])
  /\ UNCHANGED <<vpn, shown, isStopping, locks, cmds, lastConfig, jobs, ifaces,
                 protector, lifetime>>

\* The bounded waits are long against the time an engine needs to leave,
\* unless it is slow (MayReset) or was missed by the stop.
ProxyOverdue  == running /\ (MayReset \/ \E s \in Session : phase[s] = "serve")
TunnelOverdue == tunnelRunning /\ (MayReset \/ \E s \in Session : pc[T(s)] = "tunnel")

\* jniSetVpnService(null), jniCleanup(), proxy.cleanup()
Drained(x) ==
  /\ Go(x, "drain", "close")
  /\ ~running /\ (tunnelRunning => TunnelOverdue)
  /\ protector' = FALSE
  /\ UNCHANGED <<vpn, shown, isStopping, locks, cmds, lastConfig, jobs, ifaces, evars,
                 tunnelRunning, lifetime>>

\* "Proxy still running, forcing close"
ForceClose(x) ==
  /\ pc[x] = "drain"
  /\ ProxyOverdue
  /\ StopEngines([pc EXCEPT ![x] = "forceWait"])
  /\ UNCHANGED <<vpn, shown, isStopping, locks, cmds, lastConfig, jobs, ifaces,
                 protector, lifetime>>

ForceClosed(x) ==
  /\ Go(x, "forceWait", "close")
  /\ \/ ~running /\ UNCHANGED evars
     \/ ResetFlag
  /\ protector' = FALSE
  /\ UNCHANGED <<vpn, shown, isStopping, locks, cmds, lastConfig, jobs, ifaces,
                 tunnelRunning, lifetime>>

\* Mutants of CloseInterface: the descriptor is not closed; it is marked by -1.
ForgetInterface   == vpnInterface' = 0 /\ UNCHANGED <<open, proxyOnly>>
InterfaceMinusOne ==
  /\ open' = open \ {vpnInterface} /\ vpnInterface' = -1
  /\ UNCHANGED proxyOnly

CloseInterface ==
  /\ open' = open \ {vpnInterface} /\ vpnInterface' = 0
  /\ UNCHANGED proxyOnly

\* The end of stopVpnInternal inside handleStart.
RestartClose(h) ==
  /\ intent[h] = "START" /\ Go(H(h), "close", "begin")
  /\ CloseInterface
  /\ vpn' = [Down EXCEPT !.isError = vpn.isError]
  /\ UNCHANGED <<shown, isStopping, locks, cmds, lastConfig, jobs, natives, lifetime>>

-----------------------------------------------------------------------------
(* stopVpnAsync.                                                           *)

Stops(x) == x \in Stoppers \/ (x[1] = "handler" /\ intent[x[2]] = "STOP")

\* A stop is already on its way, as far as isStopping tells.
StopIgnored(x) ==
  /\ Stops(x) /\ Entered(x)
  /\ isStopping
  /\ Leave(x)
  /\ UNCHANGED <<vpn, shown, isStopping, cmds, lastConfig, jobs, ifaces, natives, lifetime>>

Idle == ~vpn.isRunning /\ ~vpn.isPaused /\ ~vpn.isConnecting /\ vpnInterface = 0

StopIdle(x) ==
  /\ Stops(x) /\ Entered(x)
  /\ ~isStopping /\ Idle
  /\ vpn' = [vpn EXCEPT !.isDisconnecting = FALSE]
  /\ selfStopped' = TRUE
  /\ Leave(x)
  /\ UNCHANGED <<shown, isStopping, cmds, lastConfig, jobs, ifaces, natives, destroyed>>

\* The jobs are cancelled first.  If that cancels the caller itself, the next
\* suspension point throws: the lock is given back and nothing else is undone.
StopBody(x) ==
  /\ Stops(x) /\ Entered(x)
  /\ ~isStopping /\ ~Idle
  /\ isStopping' = TRUE
  /\ Update([vpn EXCEPT !.isDisconnecting = TRUE])
  /\ CancelJobs
  /\ IF Cancelled(x)' THEN Leave(x)
                      ELSE pc' = [pc EXCEPT ![x] = "stopNatives"] /\ UNCHANGED locks
  /\ UNCHANGED <<cmds, lastConfig, ifaces, natives, lifetime>>

\* Mutant of StopClose: the final updateVpnState is missing.
StopCloseSilent(x) ==
  /\ Stops(x) /\ pc[x] = "close"
  /\ CloseInterface
  /\ vpn' = [Down EXCEPT !.isError = vpn.isError]
  /\ selfStopped' = TRUE
  /\ isStopping' = FALSE
  /\ Leave(x)
  /\ UNCHANGED <<shown, cmds, lastConfig, jobs, natives, destroyed>>

StopClose(x) ==
  /\ Stops(x) /\ pc[x] = "close"
  /\ CloseInterface
  /\ Update([Down EXCEPT !.isError = vpn.isError])
  /\ selfStopped' = TRUE
  /\ isStopping' = FALSE
  /\ Leave(x)
  /\ UNCHANGED <<cmds, lastConfig, jobs, natives, destroyed>>

-----------------------------------------------------------------------------
(* pauseVpn and resumeVpn.                                                 *)

PauseBody(h) ==
  /\ intent[h] = "PAUSE" /\ Entered(H(h))
  /\ Update([vpn EXCEPT !.isPaused = TRUE, !.isRunning = FALSE, !.isConnecting = FALSE,
                        !.isDisconnecting = TRUE])
  /\ CancelJobs
  /\ StopEngines([pc EXCEPT ![H(h)] = "pauseDrain"])
  /\ UNCHANGED <<isStopping, locks, cmds, lastConfig, ifaces, protector, lifetime>>

\* Mutant of PauseEnd: the wait has no limit.
PauseEndUnbounded(h) ==
  /\ pc[H(h)] = "pauseDrain"
  /\ ~running /\ ~tunnelRunning
  /\ Update([vpn EXCEPT !.isPaused = TRUE, !.isRunning = FALSE, !.isConnecting = FALSE,
                        !.isDisconnecting = FALSE])
  /\ Leave(H(h))
  /\ UNCHANGED <<isStopping, cmds, lastConfig, jobs, ifaces, natives, lifetime>>

\* The wait ends after 2 s whether or not the engines left.
PauseEnd(h) ==
  /\ pc[H(h)] = "pauseDrain"
  /\ (running => ProxyOverdue) /\ (tunnelRunning => TunnelOverdue)
  /\ Update([vpn EXCEPT !.isPaused = TRUE, !.isRunning = FALSE, !.isConnecting = FALSE,
                        !.isDisconnecting = FALSE])
  /\ Leave(H(h))
  /\ UNCHANGED <<isStopping, cmds, lastConfig, jobs, ifaces, natives, lifetime>>

ResumeBody(h) ==
  /\ intent[h] = "RESUME" /\ Entered(H(h))
  /\ IF vpn.isPaused
       THEN /\ Update([Down EXCEPT !.isConnecting = TRUE, !.isError = vpn.isError])
            /\ pc' = [pc EXCEPT ![H(h)] = "establish"] /\ UNCHANGED locks
       ELSE Leave(H(h)) /\ UNCHANGED <<vpn, shown>>
  /\ UNCHANGED <<isStopping, cmds, lastConfig, jobs, ifaces, natives, lifetime>>

-----------------------------------------------------------------------------
(* vpnWorkJob: proxyLaunch runs the engine, tunnelLaunch the tunnel.        *)

\* A child that is cancelled before it is dispatched, or at its next
\* suspension point, ends there.
ChildCancelled(x) ==
  /\ Cancelled(x)
  /\ \E from \in {"launch", "wait", "sleep"} : Go(x, from, "done")
  /\ UNCHANGED <<vpn, shown, isStopping, locks, cmds, lastConfig, jobs, ifaces, natives,
                 lifetime>>

ProxyLaunch(s) ==
  /\ ~Cancelled(P(s)) /\ Go(P(s), "launch", "call")
  /\ UNCHANGED <<vpn, shown, isStopping, locks, cmds, lastConfig, jobs, ifaces, natives,
                 lifetime>>

\* jniStartProxy: the engine runs, or refuses because one runs already.
ProxyStart(s) ==
  /\ \/ Go(P(s), "call", "run") /\ Start(s)
     \/ Go(P(s), "call", "exitBad") /\ running /\ UNCHANGED evars
  /\ UNCHANGED <<vpn, shown, isStopping, locks, cmds, lastConfig, jobs, ifaces,
                 tunnelRunning, protector, lifetime>>

EngineStep(s) ==
  /\ Bind(s) \/ Announce(s)
  /\ UNCHANGED <<vpn, shown, isStopping, locks, pc, cmds, lastConfig, jobs, ifaces,
                 tunnelRunning, protector, lifetime>>

EngineQuits(s) ==
  /\ EngineFails /\ Quit(s)
  /\ UNCHANGED <<vpn, shown, isStopping, locks, pc, cmds, lastConfig, jobs, ifaces,
                 tunnelRunning, protector, lifetime>>

ProxyExit(s) ==
  /\ Return(s)
  /\ \/ Go(P(s), "run", "exitOk")
     \/ EngineFails /\ Go(P(s), "run", "exitBad")
  /\ UNCHANGED <<vpn, shown, isStopping, locks, cmds, lastConfig, jobs, ifaces,
                 tunnelRunning, protector, lifetime>>

\* What proxyLaunch and tunnelLaunch do when their engine has returned.
LaunchEnds(x) ==
  /\ pc[x] \in {"exitOk", "exitBad"}
  /\ IF vpn.isRunning /\ ~vpn.isPaused /\ ~isStopping
       THEN /\ vpn' = [vpn EXCEPT !.isError = @ \/ pc[x] = "exitBad"]
            /\ pc' = [pc EXCEPT ![x] = "lock"]
       ELSE pc' = [pc EXCEPT ![x] = "done"] /\ UNCHANGED vpn
  /\ UNCHANGED <<shown, isStopping, locks, cmds, lastConfig, jobs, ifaces, natives, lifetime>>

Connectable == running /\ \E s \in Session : phase[s] \in {"bound", "serve"}

WaitForProxy(s) ==
  /\ ~Cancelled(T(s))
  /\ Connectable /\ Go(T(s), "wait", "ready")
  /\ UNCHANGED <<vpn, shown, isStopping, locks, cmds, lastConfig, jobs, ifaces, natives,
                 lifetime>>

\* 40 attempts: an engine that does come up does so in time, unless it is slow.
ProxyTimeout(s) ==
  /\ ~Cancelled(T(s))
  /\ ~Connectable
  /\ EngineFails \/ MayReset \/ pc[P(s)] \notin {"launch", "call", "run"}
  /\ Go(T(s), "wait", "lock")
  /\ vpn' = [vpn EXCEPT !.isError = TRUE]
  /\ UNCHANGED <<shown, isStopping, locks, cmds, lastConfig, jobs, ifaces, natives, lifetime>>

\* Mutant of Ready: the old health check goes on.
ReadyTwice(s) ==
  /\ pc[T(s)] = "ready"
  /\ Update([Down EXCEPT !.isRunning = TRUE])
  /\ pc' = [pc EXCEPT ![T(s)] = "starting", ![C(s)] = "sleep"]
  /\ healthCheckJob' = s
  /\ UNCHANGED <<isStopping, locks, cmds, lastConfig, vpnWorkJob, workCancelled,
                 healthCancelled, ifaces, natives, lifetime>>

\* "Proxy is ready": no suspension point, so nothing looks at cancellation
\* from here on.  In VPN mode startHealthCheck replaces the health check.
Ready(s) ==
  /\ pc[T(s)] = "ready"
  /\ Update([Down EXCEPT !.isRunning = TRUE])
  /\ IF s \notin proxyOnly
       THEN /\ pc' = [pc EXCEPT ![T(s)] = "starting", ![C(s)] = "sleep"]
            /\ healthCancelled' = healthCancelled \cup ({healthCheckJob} \ {0})
            /\ healthCheckJob' = s
       ELSE /\ pc' = [pc EXCEPT ![T(s)] = "done"]
            /\ UNCHANGED <<healthCheckJob, healthCancelled>>
  /\ UNCHANGED <<isStopping, locks, cmds, lastConfig, vpnWorkJob, workCancelled, ifaces,
                 natives, lifetime>>

TunnelStart(s) ==
  /\ \/ /\ ~tunnelRunning /\ tunnelRunning' = TRUE
        /\ Go(T(s), "starting", IF s \in open THEN "tunnel" ELSE "tunnelEnd")
     \/ /\ tunnelRunning /\ UNCHANGED tunnelRunning
        /\ Go(T(s), "starting", "exitBad")
  /\ UNCHANGED <<vpn, shown, isStopping, locks, cmds, lastConfig, jobs, ifaces, evars,
                 protector, lifetime>>

TunnelQuits(s) ==
  /\ EngineFails /\ Go(T(s), "tunnel", "tunnelEnd")
  /\ UNCHANGED <<vpn, shown, isStopping, locks, cmds, lastConfig, jobs, ifaces, natives,
                 lifetime>>

TunnelExit(s) ==
  /\ \/ Go(T(s), "tunnelEnd", "exitOk")
     \/ (EngineFails \/ s \notin open) /\ Go(T(s), "tunnelEnd", "exitBad")
  /\ tunnelRunning' = FALSE
  /\ UNCHANGED <<vpn, shown, isStopping, locks, cmds, lastConfig, jobs, ifaces, evars,
                 protector, lifetime>>

-----------------------------------------------------------------------------
(* startHealthCheck: the tick every 5 s that finds an engine gone.          *)

HealthFails(s) ==
  /\ ~Cancelled(C(s))
  /\ pc[T(s)] # "starting"       \* the tunnel starts long before the first tick
  /\ vpn.isRunning /\ ~vpn.isPaused /\ ~isStopping
  /\ ~running \/ ~tunnelRunning
  /\ Go(C(s), "sleep", "lock")
  /\ vpn' = [vpn EXCEPT !.isError = TRUE]
  /\ UNCHANGED <<shown, isStopping, locks, cmds, lastConfig, jobs, ifaces, natives, lifetime>>

-----------------------------------------------------------------------------
StopStep(x) ==
  \/ Lock(x) \/ AbandonLock(x) \/ StopNatives(x) \/ Drained(x) \/ ForceClose(x)
  \/ ForceClosed(x) \/ StopIgnored(x) \/ StopIdle(x) \/ StopBody(x) \/ StopClose(x)

HandlerStep(h) ==
  \/ StopStep(H(h)) \/ CleanupBody(h) \/ StartIgnored(h) \/ StartBody(h) \/ Begin(h)
  \/ Establish(h) \/ EstablishFailed(h) \/ RestartClose(h) \/ PauseBody(h)
  \/ PauseEnd(h) \/ ResumeBody(h)

ProxyStep(s) ==
  \/ StopStep(P(s)) \/ ChildCancelled(P(s)) \/ ProxyLaunch(s) \/ ProxyStart(s)
  \/ ProxyExit(s) \/ LaunchEnds(P(s))

TunnelStep(s) ==
  \/ StopStep(T(s)) \/ ChildCancelled(T(s)) \/ WaitForProxy(s) \/ ProxyTimeout(s)
  \/ Ready(s) \/ TunnelStart(s) \/ TunnelExit(s) \/ LaunchEnds(T(s))

HealthStep(s) == StopStep(C(s)) \/ ChildCancelled(C(s)) \/ HealthFails(s)

SvcNext ==
  \/ \E k \in Extras : Command("START", k)
  \/ \E a \in Intents \ {"START"} : Command(a, 0)
  \/ Destroy
  \/ \E h \in Handler : HandlerStep(h)
  \/ \E s \in Session : \/ ProxyStep(s) \/ TunnelStep(s) \/ HealthStep(s)
                        \/ EngineStep(s) \/ EngineQuits(s) \/ TunnelQuits(s)

SvcSpec == SvcInit /\ [][SvcNext]_vars

\* Dispatchers run every coroutine that can go on, and the engines get on with
\* what they do; nobody has to send a command and no engine has to fail.
SvcFairness ==
  /\ \A h \in Handler : WF_vars(HandlerStep(h))
  /\ \A s \in Session : /\ WF_vars(ProxyStep(s)) /\ WF_vars(TunnelStep(s))
                        /\ WF_vars(HealthStep(s)) /\ WF_vars(EngineStep(s))
  /\ WF_vars(Destroy)

SvcFairSpec == SvcSpec /\ SvcFairness

-----------------------------------------------------------------------------
(* Properties.                                                             *)

ControlPoint == {"none", "posted", "lock", "waiting", "granted", "held", "begin",
  "establish", "stopNatives", "drain", "forceWait", "close", "pauseDrain", "launch",
  "call", "run", "exitOk", "exitBad", "wait", "ready", "starting", "tunnel",
  "tunnelEnd", "sleep", "done"}

Flags == [isRunning : BOOLEAN, isPaused : BOOLEAN, isConnecting : BOOLEAN,
          isDisconnecting : BOOLEAN, isError : BOOLEAN]

SvcTypeOK ==
  /\ PETypeOK
  /\ vpn \in Flags /\ shown \in Flags
  /\ isStopping \in BOOLEAN
  /\ lockHolder \in Coroutine \cup {NoCo}
  /\ lockQueue \in Seq(Coroutine)
  /\ pc \in [Coroutine -> ControlPoint]
  /\ arrived \in 0 .. MaxIntents + 2
  /\ intent \in [Handler -> {"none", "START", "STOP", "PAUSE", "RESUME", "CLEANUP"}]
  /\ conf \in [Handler -> Config \cup {0}]
  /\ lastConfig \in Config \cup {0}
  /\ {vpnWorkJob, healthCheckJob, vpnInterface} \subseteq Session \cup {0}
  /\ workCancelled \subseteq Session /\ healthCancelled \subseteq Session
  /\ open \subseteq Session /\ proxyOnly \subseteq Session
  /\ tunnelRunning \in BOOLEAN /\ protector \in BOOLEAN
  /\ selfStopped \in BOOLEAN /\ destroyed \in BOOLEAN

\* A session that still works for the service: started and not cancelled.
Working(s) ==
  /\ s \notin workCancelled
  /\ pc[P(s)] \in {"launch", "call", "run"} \/ pc[T(s)] \in {"wait", "ready", "starting", "tunnel"}

\* The coroutines have nothing left to do but serve.
Settled == \A x \in Coroutine : pc[x] \in {"none", "run", "tunnel", "sleep", "done"}

\* Every session that still works is the one vpnWorkJob names, so that the next
\* stop or restart cancels it; in particular there is one at most.  Holds until
\* the first session in proxy mode, which a second start may not see (Busy).
OneSession == proxyOnly = {} => \A s \in Session : Working(s) => vpnWorkJob = s

\* The interface of a session that works is open and the field names it: no stop
\* closes an interface under a session it did not cancel first, and the next one
\* will find it (vpnInterface?.close() in stopVpnInternal).
WorkingOwnsInterface ==
  proxyOnly = {} => \A s \in Session : Working(s) => vpnInterface = s /\ s \in open

\* An interface that the field no longer names is closed: restarts never leave
\* one behind.  Commands START and STOP; RESUME overwrites the field.
NoLeakedInterface == open \subseteq {vpnInterface}

\* A session that serves has g_vpn_service set, so that protect() keeps its
\* sockets out of the tunnel: the jniSetVpnService(null) of a stop never comes
\* after the jniSetVpnService(this) of the start that follows it.
ProtectedWhileServing ==
  \A s \in Session : Working(s) /\ phase[s] = "serve" => protector

\* The health check that can still fire is the one the field names: a stop or a
\* new session will cancel it, even one started by a tunnelLaunch that ran on
\* after its session was stopped.
HealthCheckOwned ==
  \A s \in Session : pc[C(s)] = "sleep" /\ s \notin healthCancelled => healthCheckJob = s

\* When the coroutines have settled, what the screens were told is what the
\* flags say; isError alone may be ahead (it is set before stopVpnAsync).
ShownWhenSettled == Settled => [shown EXCEPT !.isError = vpn.isError] = vpn

HandlerPending == \E h \in Handler : pc[H(h)] \notin {"none", "done"}

\* Every burst of commands is worked off, whatever the engines do and however
\* many stops the children post meanwhile: no handler waits for ever for
\* vpnLock or for an engine.
HandlersFinish == HandlerPending ~> ~HandlerPending
=============================================================================
