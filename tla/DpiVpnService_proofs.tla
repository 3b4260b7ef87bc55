------------------------- MODULE DpiVpnService_proofs -------------------------
(***************************************************************************)
(* The VPN service keeps one session, with its interface, however many      *)
(* commands arrive and however they interleave with the sessions' children. *)
(*                                                                          *)
(* The argument: vpnLock is held by one coroutine (MutexInv); a coroutine   *)
(* inside a stop, a start or a pause has cancelled the session it found     *)
(* (QuietInv), so that what Establish creates is alone (SessionInv); and a  *)
(* paused service has no session (PausedInv).  The types follow group by    *)
(* group, what the screens show from the steps that do not tell them        *)
(* (ShowInv), and the service takes the steps of the abstract engine only.  *)
(***************************************************************************)
EXTENDS DpiVpnService, ProxyEngine_proofs, SequenceTheorems, TLAPS

LEMMA Coroutines ==
  /\ \A h \in Handler : H(h) \in Coroutine
  /\ \A s \in Session : P(s) \in Coroutine /\ T(s) \in Coroutine /\ C(s) \in Coroutine
  /\ \A h, s : H(h) # P(s) /\ H(h) # T(s) /\ H(h) # C(s)
  /\ \A s, t : P(s) # T(t) /\ P(s) # C(t) /\ T(s) # C(t)
  /\ \A s, t : (P(s) = P(t) => s = t) /\ (T(s) = T(t) => s = t) /\ (C(s) = C(t) => s = t)
               /\ (H(s) = H(t) => s = t)
  /\ NoCo \notin Coroutine
  /\ 0 \notin Session
BY DpiVpnServiceAssumption DEF Coroutine, Stoppers, H, P, T, C, NoCo

Typed ==
  /\ pc \in [Coroutine -> ControlPoint]
  /\ vpn \in Flags

LEMMA TypedStep == Typed /\ [SvcNext]_vars => Typed'
<1> SUFFICES ASSUME Typed, [SvcNext]_vars PROVE Typed'
  OBVIOUS
<1> USE DEF Typed, Flags, ControlPoint, Update, Down
<1>1. CASE UNCHANGED vars
  BY <1>1 DEF vars
<1>2. ASSUME NEW a, NEW k, Command(a, k) PROVE Typed'
  BY <1>2 DEF Command
<1>3. CASE Destroy
  BY <1>3 DEF Destroy
<1>4. ASSUME NEW x \in Coroutine, StopStep(x) PROVE Typed'
  <2>1. CASE Lock(x)
    BY <2>1 DEF Lock
  <2>2. CASE AbandonLock(x)
    BY <2>2 DEF AbandonLock, Leave, Resumed
  <2>3. CASE StopNatives(x) \/ ForceClose(x)
    BY <2>3 DEF StopNatives, ForceClose, StopEngines
  <2>4. CASE Drained(x) \/ ForceClosed(x)
    BY <2>4 DEF Drained, ForceClosed, Go
  <2>5. CASE StopIgnored(x)
    BY <2>5 DEF StopIgnored, Leave, Resumed
  <2>6. CASE StopIdle(x)
    BY <2>6 DEF StopIdle, Leave, Resumed
  <2>7. CASE StopBody(x)
    BY <2>7 DEF StopBody, Leave, Resumed
  <2>8. CASE StopClose(x)
    BY <2>8 DEF StopClose, Leave, Resumed
  <2>9. QED
    BY <1>4, <2>1, <2>2, <2>3, <2>4, <2>5, <2>6, <2>7, <2>8 DEF StopStep
<1>5. ASSUME NEW h \in Handler, HandlerStep(h) PROVE Typed'
  <2>1. CASE CleanupBody(h) \/ StartIgnored(h)
    BY <2>1 DEF CleanupBody, StartIgnored, Leave, Resumed
  <2>2. CASE StartBody(h) \/ Begin(h)
    BY <2>2 DEF StartBody, Begin, Go
  <2>3. CASE Establish(h) \/ EstablishFailed(h)
    BY <2>3 DEF Establish, EstablishFailed, Go, Resumed
  <2>4. CASE RestartClose(h)
    BY <2>4 DEF RestartClose, Go
  <2>5. CASE PauseBody(h)
    BY <2>5 DEF PauseBody, StopEngines
  <2>6. CASE PauseEnd(h)
    BY <2>6 DEF PauseEnd, Leave, Resumed
  <2>7. CASE ResumeBody(h)
    BY <2>7 DEF ResumeBody, Leave, Resumed
  <2>8. QED
    BY <1>4, <1>5, Coroutines, <2>1, <2>2, <2>3, <2>4, <2>5, <2>6, <2>7 DEF HandlerStep
<1>6. ASSUME NEW x, ChildCancelled(x) \/ LaunchEnds(x) PROVE Typed'
  BY <1>6 DEF ChildCancelled, LaunchEnds, Go
<1>7. ASSUME NEW s \in Session, ProxyStep(s) PROVE Typed'
  <2>1. CASE ProxyLaunch(s) \/ ProxyStart(s) \/ ProxyExit(s)
    BY <2>1 DEF ProxyLaunch, ProxyStart, ProxyExit, Go
  <2>2. QED
    BY <1>4, <1>6, <1>7, <2>1, Coroutines DEF ProxyStep
<1>8. ASSUME NEW s \in Session, TunnelStep(s) PROVE Typed'
  <2>1. CASE WaitForProxy(s) \/ ProxyTimeout(s)
    BY <2>1 DEF WaitForProxy, ProxyTimeout, Go
  <2>2. CASE Ready(s)
    BY <2>2 DEF Ready, Go
  <2>3. CASE TunnelStart(s) \/ TunnelExit(s)
    BY <2>3 DEF TunnelStart, TunnelExit, Go
  <2>4. QED
    BY <1>4, <1>6, <1>8, <2>1, <2>2, <2>3, Coroutines DEF TunnelStep
<1>9. ASSUME NEW s \in Session, HealthStep(s) PROVE Typed'
  <2>1. CASE HealthFails(s)
    BY <2>1 DEF HealthFails, Go
  <2>2. QED
    BY <1>4, <1>6, <1>9, <2>1, Coroutines DEF HealthStep
<1>10. ASSUME NEW s \in Session, EngineStep(s) \/ EngineQuits(s) \/ TunnelQuits(s)
       PROVE  Typed'
  BY <1>10 DEF EngineStep, EngineQuits, TunnelQuits, Go
<1>11. QED
  BY <1>1, <1>2, <1>3, <1>5, <1>7, <1>8, <1>9, <1>10 DEF SvcNext

LEMMA TypedAlways == SvcSpec => []Typed
<1>1. SvcInit => Typed
  BY DEF SvcInit, Typed, Flags, ControlPoint, Down
<1>2. QED
  BY <1>1, TypedStep, PTL DEF SvcSpec

-----------------------------------------------------------------------------
(* vpnLock.                                                                 *)

\* Control points inside withLock.
Inside == {"held", "granted", "begin", "establish", "stopNatives", "drain",
           "forceWait", "close", "pauseDrain"}

MutexInv == \A x \in Coroutine : pc[x] \in Inside => lockHolder = x

\* Leaving hands the lock to the coroutine that is granted it.
LEMMA LeaveMutex ==
  ASSUME Typed, MutexInv, NEW x \in Coroutine, lockHolder = x, Leave(x)
  PROVE  MutexInv'
BY Coroutines DEF Typed, MutexInv, Leave, Unlock, Resumed, Inside

LEMMA MutexStep == Typed /\ MutexInv /\ [SvcNext]_vars => MutexInv'
<1> SUFFICES ASSUME Typed, MutexInv, [SvcNext]_vars PROVE MutexInv'
  OBVIOUS
<1>1. CASE UNCHANGED vars
  BY <1>1 DEF vars, locks, MutexInv
<1>2. ASSUME NEW a, NEW k, Command(a, k) PROVE MutexInv'
  BY <1>2 DEF Command, locks, MutexInv, Typed, Inside
<1>3. CASE Destroy
  BY <1>3 DEF Destroy, locks, MutexInv, Typed, Inside
<1>4. ASSUME NEW x \in Coroutine, StopStep(x) PROVE MutexInv'
  <2>1. CASE Lock(x)
    BY <2>1, Coroutines DEF Lock, locks, MutexInv, Typed, Inside
  <2>2. CASE AbandonLock(x)
    BY <2>2, LeaveMutex DEF AbandonLock, MutexInv, Typed, Inside
  <2>3. CASE StopNatives(x) \/ ForceClose(x)
    BY <2>3 DEF StopNatives, ForceClose, StopEngines, locks, MutexInv, Typed, Inside
  <2>4. CASE Drained(x) \/ ForceClosed(x)
    BY <2>4 DEF Drained, ForceClosed, Go, locks, MutexInv, Typed, Inside
  <2>5. CASE StopIgnored(x) \/ StopIdle(x) \/ StopClose(x)
    BY <2>5, LeaveMutex DEF StopIgnored, StopIdle, StopClose, Entered, MutexInv, Inside
  <2>6. CASE StopBody(x)
    BY <2>6, LeaveMutex DEF StopBody, Entered, locks, MutexInv, Typed, Inside
  <2>7. QED
    BY <1>4, <2>1, <2>2, <2>3, <2>4, <2>5, <2>6 DEF StopStep
<1>5. ASSUME NEW h \in Handler, HandlerStep(h) PROVE MutexInv'
  <2> USE Coroutines
  <2>1. CASE CleanupBody(h) \/ StartIgnored(h) \/ PauseEnd(h)
    BY <2>1, LeaveMutex DEF CleanupBody, StartIgnored, PauseEnd, Entered, MutexInv, Inside
  <2>2. CASE StartBody(h)
    BY <2>2 DEF StartBody, Entered, locks, MutexInv, Typed, Inside
  <2>3. CASE Begin(h) \/ RestartClose(h)
    BY <2>3 DEF Begin, RestartClose, Go, locks, MutexInv, Typed, Inside
  <2>4. CASE Establish(h)
    BY <2>4 DEF Establish, Unlock, Resumed, MutexInv, Typed, Inside
  <2>5. CASE EstablishFailed(h)
    BY <2>5 DEF EstablishFailed, Go, MutexInv, Typed, Inside
  <2>6. CASE PauseBody(h)
    BY <2>6 DEF PauseBody, StopEngines, Entered, locks, MutexInv, Typed, Inside
  <2>7. CASE ResumeBody(h)
    BY <2>7, LeaveMutex DEF ResumeBody, Entered, locks, MutexInv, Typed, Inside
  <2>8. QED
    BY <1>4, <1>5, <2>1, <2>2, <2>3, <2>4, <2>5, <2>6, <2>7 DEF HandlerStep
<1>6. ASSUME NEW x, ChildCancelled(x) \/ LaunchEnds(x) PROVE MutexInv'
  BY <1>6 DEF ChildCancelled, LaunchEnds, Go, locks, MutexInv, Typed, Inside
<1>7. ASSUME NEW s \in Session, ProxyStep(s) PROVE MutexInv'
  BY <1>4, <1>6, <1>7, Coroutines
     DEF ProxyStep, ProxyLaunch, ProxyStart, ProxyExit, Go, locks, MutexInv, Typed, Inside
<1>8. ASSUME NEW s \in Session, TunnelStep(s) PROVE MutexInv'
  BY <1>4, <1>6, <1>8, Coroutines
     DEF TunnelStep, WaitForProxy, ProxyTimeout, Ready, TunnelStart, TunnelExit, Go, locks,
         MutexInv, Typed, Inside
<1>9. ASSUME NEW s \in Session, HealthStep(s) PROVE MutexInv'
  BY <1>4, <1>6, <1>9, Coroutines DEF HealthStep, HealthFails, Go, locks, MutexInv, Typed, Inside
<1>10. ASSUME NEW s \in Session, EngineStep(s) \/ EngineQuits(s) \/ TunnelQuits(s)
       PROVE  MutexInv'
  BY <1>10 DEF EngineStep, EngineQuits, TunnelQuits, Go, locks, MutexInv, Typed, Inside
<1>11. QED
  BY <1>1, <1>2, <1>3, <1>5, <1>7, <1>8, <1>9, <1>10 DEF SvcNext

LEMMA MutexAlways == SvcSpec => []MutexInv
<1>1. SvcInit => MutexInv
  BY DEF SvcInit, MutexInv, Inside
<1>2. QED
  BY <1>1, MutexStep, TypedAlways, PTL DEF SvcSpec

-----------------------------------------------------------------------------
(* Sessions.                                                                *)

PWork == {"launch", "call", "run"}
TWork == {"wait", "ready", "starting", "tunnel"}

\* No session works.
Gone == \A s \in Session : ~Working(s)

\* Control points between the cancellation of the old jobs and the new session.
AtWork == Inside \ {"held", "granted"}

SessionInv == \A s \in Session : Working(s) => vpnWorkJob = s /\ vpnInterface = s /\ s \in open
QuietInv   == \A x \in Coroutine : pc[x] \in AtWork => Gone
PausedInv  == /\ vpn.isPaused => Gone
              /\ \A h \in Handler : pc[H(h)] = "establish" => ~vpn.isPaused

IInv == SessionInv /\ QuietInv /\ PausedInv

\* No session starts to work, and none is forgotten as cancelled.
Shrinks ==
  /\ workCancelled \subseteq workCancelled'
  /\ \A s \in Session : /\ pc'[P(s)] \in PWork => pc[P(s)] \in PWork
                        /\ pc'[T(s)] \in TWork => pc[T(s)] \in TWork

LEMMA ShrinksWorking ==
  ASSUME Shrinks
  PROVE  \A s \in Session : Working(s)' => Working(s)
BY DEF Shrinks, Working, PWork, TWork

\* Steps that leave the session, its interface and its handlers alone.
LEMMA Keep ==
  ASSUME IInv, Shrinks, UNCHANGED <<vpnWorkJob, ifaces>>, vpn'.isPaused => vpn.isPaused,
         \A x \in Coroutine : pc'[x] \in AtWork => pc[x] \in AtWork,
         \A h \in Handler : pc'[H(h)] = "establish" => pc[H(h)] = "establish"
  PROVE  IInv'
BY ShrinksWorking, Coroutines
   DEF IInv, SessionInv, QuietInv, PausedInv, Gone, ifaces

\* Once no session works, a step that starts none keeps the invariant; it may
\* clear the fields, close the interface and mark the service as paused.
LEMMA KeepGone ==
  ASSUME Gone, Shrinks,
         \A h \in Handler : pc'[H(h)] = "establish" => ~vpn'.isPaused
  PROVE  IInv'
BY ShrinksWorking DEF IInv, SessionInv, QuietInv, PausedInv, Gone

\* Cancelling the job the field names leaves no session at work.
LEMMA CancelGone ==
  ASSUME IInv, CancelJobs,
         \A s \in Session : /\ pc'[P(s)] \in PWork => pc[P(s)] \in PWork
                            /\ pc'[T(s)] \in TWork => pc[T(s)] \in TWork
  PROVE  Gone'
BY Coroutines DEF IInv, SessionInv, CancelJobs, Gone, Working, PWork, TWork

\* A coroutine that holds the lock is alone between AtWork and its end.
LEMMA Alone ==
  ASSUME MutexInv, NEW x \in Coroutine, pc[x] \in Inside
  PROVE  \A y \in Coroutine : y # x => pc[y] \notin Inside
BY DEF MutexInv

LEMMA StopStepKeeps ==
  ASSUME Typed, MutexInv, IInv, NEW x \in Coroutine, StopStep(x)
  PROVE  IInv'
<1> USE Coroutines DEF Typed, Shrinks, PWork, TWork, AtWork, Inside
<1>1. CASE Lock(x)
  BY <1>1, Keep DEF Lock, jobs, ifaces
<1>2. CASE AbandonLock(x)
  BY <1>2, Keep DEF AbandonLock, Leave, Resumed, jobs, ifaces
<1>3. CASE StopNatives(x) \/ ForceClose(x)
  BY <1>3, Keep DEF StopNatives, ForceClose, StopEngines, jobs, ifaces
<1>4. CASE Drained(x) \/ ForceClosed(x)
  BY <1>4, Keep DEF Drained, ForceClosed, Go, jobs, ifaces
<1>5. CASE StopIgnored(x) \/ StopIdle(x)
  BY <1>5, Keep DEF StopIgnored, StopIdle, Leave, Resumed, jobs, ifaces, Flags
<1>6. CASE StopBody(x)
  <2>1. Gone'
    BY <1>6, CancelGone DEF StopBody, Leave, Resumed
  <2>2. \A h \in Handler : pc'[H(h)] # "establish"
    BY <1>6, Alone DEF StopBody, Leave, Resumed, Entered
  <2>3. QED
    BY <2>1, <2>2 DEF IInv, SessionInv, QuietInv, PausedInv, Gone
<1>7. CASE StopClose(x)
  <2>1. Gone
    BY <1>7 DEF StopClose, IInv, QuietInv
  <2>2. \A h \in Handler : pc'[H(h)] # "establish"
    BY <1>7, Alone DEF StopClose, Leave, Resumed
  <2>3. Shrinks
    BY <1>7 DEF StopClose, Leave, Resumed, jobs
  <2>4. QED
    BY <2>1, <2>2, <2>3, KeepGone
<1>8. QED
  BY <1>1, <1>2, <1>3, <1>4, <1>5, <1>6, <1>7 DEF StopStep

LEMMA HandlerStepKeeps ==
  ASSUME proxyOnly' = {}, Typed, MutexInv, IInv, NEW h \in Handler, HandlerStep(h)
  PROVE  IInv'
<1> USE Coroutines DEF Typed, Shrinks, PWork, TWork, AtWork, Inside
<1>1. CASE CleanupBody(h)
  <2>1. Gone'
    BY <1>1 DEF CleanupBody, Gone, Working
  <2>2. \A g \in Handler : pc'[H(g)] # "establish"
    BY <1>1, Alone DEF CleanupBody, Leave, Resumed, Entered
  <2>3. QED
    BY <2>1, <2>2 DEF IInv, SessionInv, QuietInv, PausedInv, Gone
<1>2. CASE StartIgnored(h)
  BY <1>2, Keep DEF StartIgnored, Leave, Resumed, jobs, ifaces, Update
<1>3. CASE StartBody(h)
  <2>1. \A g \in Handler : pc'[H(g)] # "establish"
    BY <1>3, Alone DEF StartBody, Entered
  <2>2. Gone'
    <3>1. CASE Busy
      BY <1>3, <3>1, CancelGone DEF StartBody
    <3>2. CASE ~Busy
      BY <1>3, <3>2 DEF StartBody, Busy, IInv, SessionInv, Gone, Working, jobs
    <3>3. QED
      BY <3>1, <3>2
  <2>3. QED
    BY <2>1, <2>2 DEF IInv, SessionInv, QuietInv, PausedInv, Gone
<1>4. CASE Begin(h)
  <2>1. Gone /\ Shrinks /\ ~vpn'.isPaused
    BY <1>4 DEF Begin, Go, IInv, QuietInv, jobs, Update, Down
  <2>2. QED
    BY <2>1, KeepGone
<1>5. CASE Establish(h)
  <2>1. Gone /\ ~vpn.isPaused /\ vpn' = vpn
    BY <1>5 DEF Establish, IInv, QuietInv, PausedInv
  <2>2. \A y \in Coroutine : pc'[y] \notin AtWork
    BY <1>5, Alone DEF Establish, Resumed
  <2>3. \A s \in Session : Working(s)' => s = h
    BY <1>5, <2>1 DEF Establish, Resumed, Gone, Working
  <2>4. SessionInv'
    BY <1>5, <2>3 DEF Establish, OpenInterface, SkipInterface, SessionInv
  <2>5. QED
    BY <2>1, <2>2, <2>4 DEF IInv, QuietInv, PausedInv
<1>6. CASE EstablishFailed(h)
  <2>1. Gone /\ Shrinks
    BY <1>6 DEF EstablishFailed, Go, IInv, QuietInv, jobs
  <2>2. \A g \in Handler : pc'[H(g)] # "establish"
    BY <1>6, Alone DEF EstablishFailed, Go
  <2>3. QED
    BY <2>1, <2>2, KeepGone
<1>7. CASE RestartClose(h)
  <2>1. Gone /\ Shrinks
    BY <1>7 DEF RestartClose, Go, IInv, QuietInv, jobs
  <2>2. \A g \in Handler : pc'[H(g)] # "establish"
    BY <1>7, Alone DEF RestartClose, Go
  <2>3. QED
    BY <2>1, <2>2, KeepGone
<1>8. CASE PauseBody(h)
  <2>1. Gone'
    BY <1>8, CancelGone DEF PauseBody, StopEngines
  <2>2. \A g \in Handler : pc'[H(g)] # "establish"
    BY <1>8, Alone DEF PauseBody, StopEngines, Entered
  <2>3. QED
    BY <2>1, <2>2 DEF IInv, SessionInv, QuietInv, PausedInv, Gone
<1>9. CASE PauseEnd(h)
  <2>1. Gone /\ Shrinks
    BY <1>9 DEF PauseEnd, Leave, Resumed, IInv, QuietInv, jobs
  <2>2. \A g \in Handler : pc'[H(g)] # "establish"
    BY <1>9, Alone DEF PauseEnd, Leave, Resumed
  <2>3. QED
    BY <2>1, <2>2, KeepGone
<1>10. CASE ResumeBody(h)
  <2>1. CASE vpn.isPaused
    <3>1. Gone /\ Shrinks /\ ~vpn'.isPaused
      BY <1>10, <2>1 DEF ResumeBody, IInv, PausedInv, jobs, Update, Down
    <3>2. QED
      BY <3>1, KeepGone
  <2>2. CASE ~vpn.isPaused
    BY <1>10, <2>2, Keep DEF ResumeBody, Leave, Resumed, jobs, ifaces
  <2>3. QED
    BY <2>1, <2>2
<1>11. QED
  BY <1>1, <1>2, <1>3, <1>4, <1>5, <1>6, <1>7, <1>8, <1>9, <1>10, StopStepKeeps
     DEF HandlerStep

LEMMA ChildStepKeeps ==
  ASSUME Typed, MutexInv, IInv, NEW s \in Session,
         \/ ProxyStep(s) \/ TunnelStep(s) \/ HealthStep(s)
         \/ EngineStep(s) \/ EngineQuits(s) \/ TunnelQuits(s)
  PROVE  IInv'
<1> USE Coroutines DEF Typed, Shrinks, PWork, TWork, AtWork, Inside, jobs, ifaces
<1>1. ASSUME NEW x, ChildCancelled(x) \/ LaunchEnds(x) PROVE IInv'
  BY <1>1, Keep DEF ChildCancelled, LaunchEnds, Go, Flags
<1>2. CASE ProxyLaunch(s) \/ ProxyStart(s) \/ ProxyExit(s)
  BY <1>2, Keep DEF ProxyLaunch, ProxyStart, ProxyExit, Go
<1>3. CASE WaitForProxy(s) \/ ProxyTimeout(s) \/ TunnelStart(s) \/ TunnelExit(s)
  BY <1>3, Keep DEF WaitForProxy, ProxyTimeout, TunnelStart, TunnelExit, Go, Flags
<1>4. CASE Ready(s)
  BY <1>4, Keep DEF Ready, Update, Down
<1>5. CASE HealthFails(s)
  BY <1>5, Keep DEF HealthFails, Go, Flags
<1>6. CASE EngineStep(s) \/ EngineQuits(s) \/ TunnelQuits(s)
  BY <1>6, Keep DEF EngineStep, EngineQuits, TunnelQuits, Go
<1>7. QED
  BY <1>1, <1>2, <1>3, <1>4, <1>5, <1>6, StopStepKeeps DEF ProxyStep, TunnelStep, HealthStep

\* A session in proxy mode is never forgotten, and there is none without the mode.
ModeKept == /\ proxyOnly \subseteq proxyOnly'
            /\ Modes = {"VPN"} => UNCHANGED proxyOnly

LEMMA ModeStep == [SvcNext]_vars => ModeKept
<1> SUFFICES ASSUME [SvcNext]_vars PROVE ModeKept
  OBVIOUS
<1> USE DEF ifaces, ModeKept
<1>1. CASE UNCHANGED vars
  BY <1>1 DEF vars
<1>2. ASSUME NEW a, NEW k, Command(a, k) \/ Destroy PROVE ModeKept
  BY <1>2 DEF Command, Destroy
<1>3. ASSUME NEW x, StopStep(x) PROVE ModeKept
  BY <1>3 DEF StopStep, Lock, AbandonLock, StopNatives, Drained, ForceClose, ForceClosed,
              StopIgnored, StopIdle, StopBody, StopClose, CloseInterface
<1>4. ASSUME NEW h, HandlerStep(h) PROVE ModeKept
  BY <1>3, <1>4 DEF HandlerStep, CleanupBody, StartIgnored, StartBody, Begin, Establish,
                    OpenInterface, SkipInterface, EstablishFailed, RestartClose,
                    CloseInterface, PauseBody, PauseEnd, ResumeBody
<1>5. ASSUME NEW s, ProxyStep(s) \/ TunnelStep(s) \/ HealthStep(s)
      PROVE  ModeKept
  BY <1>3, <1>5 DEF ProxyStep, TunnelStep, HealthStep, ChildCancelled, LaunchEnds,
     ProxyLaunch, ProxyStart, ProxyExit, WaitForProxy, ProxyTimeout, Ready, TunnelStart,
     TunnelExit, HealthFails
<1>6. ASSUME NEW s, EngineStep(s) \/ EngineQuits(s) \/ TunnelQuits(s)
      PROVE  ModeKept
  BY <1>6 DEF EngineStep, EngineQuits, TunnelQuits
<1>7. QED
  BY <1>1, <1>2, <1>3, <1>4, <1>5, <1>6 DEF SvcNext

\* The invariant lives until the first session in proxy mode.
VpnInv == proxyOnly = {} => IInv

LEMMA SessionStep == Typed /\ MutexInv /\ VpnInv /\ [SvcNext]_vars => VpnInv'
<1> SUFFICES ASSUME Typed, MutexInv, VpnInv, [SvcNext]_vars, proxyOnly' = {} PROVE IInv'
  BY DEF VpnInv
<1>0. IInv
  BY ModeStep DEF VpnInv, ModeKept
<1> USE <1>0, Coroutines DEF Typed, Shrinks, PWork, TWork, AtWork, Inside, jobs, ifaces
<1>1. CASE UNCHANGED vars
  BY <1>1, Keep DEF vars
<1>2. ASSUME NEW a, NEW k, Command(a, k) PROVE IInv'
  BY <1>2, Keep DEF Command
<1>3. CASE Destroy
  BY <1>3, Keep DEF Destroy
<1>4. QED
  BY <1>1, <1>2, <1>3, HandlerStepKeeps, ChildStepKeeps DEF SvcNext

LEMMA SessionAlways == SvcSpec => [](VpnInv /\ MutexInv /\ Typed)
<1>1. SvcInit => VpnInv
  <2>1. SvcInit => Gone /\ ~vpn.isPaused
    BY Coroutines DEF SvcInit, Gone, Working, Down
  <2>2. QED
    BY <2>1 DEF VpnInv, IInv, SessionInv, QuietInv, PausedInv, Gone
<1>2. QED
  BY <1>1, SessionStep, TypedAlways, MutexAlways, PTL DEF SvcSpec

\* One session at most works for the service, and vpnWorkJob names it
\* (startVpnInternal and stopVpnInternal, DpiVpnService.kt:338, 560).
THEOREM OneSessionAlways == SvcSpec => []OneSession
<1>1. VpnInv => OneSession
  BY DEF VpnInv, IInv, SessionInv, OneSession
<1>2. QED
  BY <1>1, SessionAlways, PTL

\* No stop or restart closes the interface of a session it has not cancelled,
\* and the field names the interface of the session that works.
THEOREM WorkingAlwaysOwnsInterface == SvcSpec => []WorkingOwnsInterface
<1>1. VpnInv => WorkingOwnsInterface
  BY DEF VpnInv, IInv, SessionInv, WorkingOwnsInterface
<1>2. QED
  BY <1>1, SessionAlways, PTL

-----------------------------------------------------------------------------
(* The health check.                                                        *)

\* Steps that start no health check and forget none.
LEMMA HealthKeep ==
  ASSUME HealthCheckOwned, UNCHANGED <<healthCheckJob, healthCancelled>>,
         \A s \in Session : pc'[C(s)] = "sleep" => pc[C(s)] = "sleep"
  PROVE  HealthCheckOwned'
BY DEF HealthCheckOwned

LEMMA HealthCancel ==
  ASSUME HealthCheckOwned, CancelJobs,
         \A s \in Session : pc'[C(s)] = "sleep" => pc[C(s)] = "sleep"
  PROVE  HealthCheckOwned'
BY Coroutines DEF HealthCheckOwned, CancelJobs

LEMMA HealthStepKeeps == Typed /\ HealthCheckOwned /\ [SvcNext]_vars => HealthCheckOwned'
<1> SUFFICES ASSUME Typed, HealthCheckOwned, [SvcNext]_vars PROVE HealthCheckOwned'
  OBVIOUS
<1> USE Coroutines DEF Typed, jobs
<1>1. CASE UNCHANGED vars
  BY <1>1, HealthKeep DEF vars
<1>2. ASSUME NEW a, NEW k, Command(a, k) PROVE HealthCheckOwned'
  BY <1>2, HealthKeep DEF Command
<1>3. CASE Destroy
  BY <1>3, HealthKeep DEF Destroy
<1>4. ASSUME NEW x \in Coroutine, StopStep(x) PROVE HealthCheckOwned'
  <2>1. CASE StopBody(x)
    BY <2>1, HealthCancel DEF StopBody, Leave, Resumed
  <2>2. CASE Lock(x) \/ AbandonLock(x)
    BY <2>2, HealthKeep DEF Lock, AbandonLock, Leave, Resumed
  <2>3. CASE StopNatives(x) \/ ForceClose(x) \/ Drained(x) \/ ForceClosed(x)
    BY <2>3, HealthKeep DEF StopNatives, ForceClose, Drained, ForceClosed, StopEngines, Go
  <2>4. CASE StopIgnored(x) \/ StopIdle(x) \/ StopClose(x)
    BY <2>4, HealthKeep DEF StopIgnored, StopIdle, StopClose, Leave, Resumed
  <2>5. QED
    BY <1>4, <2>1, <2>2, <2>3, <2>4 DEF StopStep
<1>5. ASSUME NEW h \in Handler, HandlerStep(h) PROVE HealthCheckOwned'
  <2>1. CASE CleanupBody(h)
    BY <2>1 DEF CleanupBody, HealthCheckOwned
  <2>2. CASE StartBody(h)
    BY <2>2, HealthKeep, HealthCancel DEF StartBody
  <2>3. CASE PauseBody(h)
    BY <2>3, HealthCancel DEF PauseBody, StopEngines
  <2>4. CASE StartIgnored(h) \/ PauseEnd(h) \/ ResumeBody(h)
    BY <2>4, HealthKeep DEF StartIgnored, PauseEnd, ResumeBody, Leave, Resumed
  <2>5. CASE Begin(h) \/ RestartClose(h) \/ EstablishFailed(h)
    BY <2>5, HealthKeep DEF Begin, RestartClose, EstablishFailed, Go
  <2>6. CASE Establish(h)
    BY <2>6, HealthKeep DEF Establish, Resumed
  <2>7. QED
    BY <1>4, <1>5, <2>1, <2>2, <2>3, <2>4, <2>5, <2>6 DEF HandlerStep
<1>6. ASSUME NEW x, ChildCancelled(x) \/ LaunchEnds(x) PROVE HealthCheckOwned'
  BY <1>6, HealthKeep DEF ChildCancelled, LaunchEnds, Go
<1>7. ASSUME NEW s \in Session, Ready(s) PROVE HealthCheckOwned'
  BY <1>7 DEF Ready, HealthCheckOwned
<1>8. ASSUME NEW s \in Session,
             \/ ProxyLaunch(s) \/ ProxyStart(s) \/ ProxyExit(s) \/ WaitForProxy(s)
             \/ ProxyTimeout(s) \/ TunnelStart(s) \/ TunnelExit(s) \/ HealthFails(s)
             \/ EngineStep(s) \/ EngineQuits(s) \/ TunnelQuits(s)
      PROVE  HealthCheckOwned'
  BY <1>8, HealthKeep DEF ProxyLaunch, ProxyStart, ProxyExit, WaitForProxy, ProxyTimeout,
     TunnelStart, TunnelExit, HealthFails, EngineStep, EngineQuits, TunnelQuits, Go
<1>9. QED
  BY <1>1, <1>2, <1>3, <1>4, <1>5, <1>6, <1>7, <1>8
     DEF SvcNext, ProxyStep, TunnelStep, HealthStep

\* A health check that can still fire is the one healthCheckJob names, so that
\* every stop and every new session cancels it (startHealthCheck, 415-417).
THEOREM HealthCheckAlwaysOwned == SvcSpec => []HealthCheckOwned
<1>1. SvcInit => HealthCheckOwned
  BY Coroutines DEF SvcInit, HealthCheckOwned
<1>2. QED
  BY <1>1, HealthStepKeeps, TypedAlways, PTL DEF SvcSpec

-----------------------------------------------------------------------------
(* Without RESUME: no interface is left behind and every session is          *)
(* protected.  (resumeVpn neither closes the old interface nor calls         *)
(* jniSetVpnService, so both need the assumption.)                           *)

Opening == {"begin", "establish"}

CleanInv ==
  /\ intent \in [Handler -> {"none", "START", "STOP", "PAUSE", "CLEANUP"}]
  /\ 0 \notin open /\ open \subseteq {vpnInterface}
  /\ \A h \in Handler : pc[H(h)] \in Opening => vpnInterface = 0
  /\ \A h \in Handler : pc[H(h)] = "establish" => protector
  /\ \A s \in Session : Working(s) => protector

LEMMA CleanKeep ==
  ASSUME CleanInv, Shrinks, UNCHANGED <<intent, ifaces, protector>>,
         \A h \in Handler : /\ pc'[H(h)] \in Opening => pc[H(h)] \in Opening
                            /\ pc'[H(h)] = "establish" => pc[H(h)] = "establish"
  PROVE  CleanInv'
BY ShrinksWorking DEF CleanInv, ifaces

\* A coroutine that holds the lock while no handler is opening an interface.
LEMMA CleanLocked ==
  ASSUME CleanInv, UNCHANGED intent, 0 \notin open', open' \subseteq {vpnInterface'},
         \A h \in Handler : pc'[H(h)] \notin Opening,
         protector' \/ Gone'
  PROVE  CleanInv'
BY DEF CleanInv, Opening, Gone

LEMMA CleanStopKeeps ==
  ASSUME Typed, MutexInv, IInv, CleanInv, NEW x \in Coroutine, StopStep(x)
  PROVE  CleanInv'
<1> USE Coroutines DEF Typed, Shrinks, PWork, TWork, AtWork, Inside, Opening
<1>1. CASE Lock(x) \/ AbandonLock(x)
  BY <1>1, CleanKeep DEF Lock, AbandonLock, Leave, Resumed, jobs, natives, cmds
<1>2. CASE StopNatives(x) \/ ForceClose(x)
  BY <1>2, CleanKeep DEF StopNatives, ForceClose, StopEngines, jobs, cmds
<1>3. CASE Drained(x) \/ ForceClosed(x)
  <2>1. \A h \in Handler : pc'[H(h)] \notin Opening
    BY <1>3, Alone DEF Drained, ForceClosed, Go
  <2>2. Gone'
    BY <1>3, ShrinksWorking DEF Drained, ForceClosed, Go, jobs, IInv, QuietInv, Gone
  <2>3. QED
    BY <1>3, <2>1, <2>2, CleanLocked DEF Drained, ForceClosed, cmds, ifaces, CleanInv
<1>4. CASE StopIgnored(x) \/ StopIdle(x)
  BY <1>4, CleanKeep DEF StopIgnored, StopIdle, Leave, Resumed, jobs, natives, cmds
<1>5. CASE StopBody(x)
  <2>1. Shrinks
    BY <1>5 DEF StopBody, Leave, Resumed, CancelJobs
  <2>2. QED
    BY <1>5, <2>1, CleanKeep DEF StopBody, Leave, Resumed, natives, cmds
<1>6. CASE StopClose(x)
  <2>1. \A h \in Handler : pc'[H(h)] \notin Opening
    BY <1>6, Alone DEF StopClose, Leave, Resumed
  <2>2. Gone'
    BY <1>6, ShrinksWorking DEF StopClose, Leave, Resumed, jobs, IInv, QuietInv, Gone
  <2>3. QED
    BY <1>6, <2>1, <2>2, CleanLocked DEF StopClose, CloseInterface, cmds, CleanInv
<1>7. QED
  BY <1>1, <1>2, <1>3, <1>4, <1>5, <1>6 DEF StopStep

LEMMA CleanHandlerKeeps ==
  ASSUME Modes = {"VPN"}, Typed, MutexInv, IInv, CleanInv, NEW h \in Handler, HandlerStep(h)
  PROVE  CleanInv'
<1> USE Coroutines DEF Typed, Shrinks, PWork, TWork, AtWork, Inside, Opening
<1>1. CASE CleanupBody(h)
  <2>1. \A g \in Handler : pc'[H(g)] \notin Opening
    BY <1>1, Alone DEF CleanupBody, Leave, Resumed, Entered
  <2>2. Gone'
    BY <1>1 DEF CleanupBody, Gone, Working
  <2>3. QED
    BY <1>1, <2>1, <2>2, CleanLocked DEF CleanupBody, cmds, ifaces, CleanInv
<1>2. CASE StartIgnored(h)
  BY <1>2, CleanKeep DEF StartIgnored, Leave, Resumed, jobs, natives, cmds
<1>3. CASE StartBody(h)
  <2>1. Shrinks
    BY <1>3 DEF StartBody, CancelJobs, jobs
  <2>2. CASE Busy
    BY <1>3, <2>1, <2>2, CleanKeep DEF StartBody, natives, cmds
  <2>3. CASE ~Busy
    <3>1. vpnInterface = 0 /\ UNCHANGED <<intent, ifaces, protector>>
      BY <1>3, <2>3 DEF StartBody, Busy, natives, cmds
    <3>2. \A g \in Handler : pc'[H(g)] # "establish"
      BY <1>3, Alone DEF StartBody, Entered
    <3>3. QED
      BY <2>1, <3>1, <3>2, ShrinksWorking DEF CleanInv, ifaces
  <2>4. QED
    BY <2>2, <2>3
<1>4. CASE Begin(h)
  <2>1. UNCHANGED <<intent, ifaces>> /\ protector' /\ vpnInterface = 0
    BY <1>4 DEF Begin, Go, CleanInv, cmds
  <2>2. QED
    BY <2>1 DEF CleanInv, ifaces
<1>5. CASE Establish(h)
  <2>1. /\ vpnInterface = 0 /\ open = {} /\ protector
        /\ UNCHANGED <<intent, protector>>
        /\ vpnInterface' = h /\ open' = {h} /\ h # 0
    BY <1>5, DpiVpnServiceAssumption DEF Establish, OpenInterface, SkipInterface, CleanInv,
       natives, cmds, Handler
  <2>2. \A g \in Handler : pc'[H(g)] \notin Opening
    BY <1>5, Alone DEF Establish, Resumed
  <2>3. QED
    BY <2>1, <2>2, CleanLocked
<1>6. CASE EstablishFailed(h)
  <2>1. 0 \notin open' /\ open' \subseteq {vpnInterface'} /\ protector' /\ UNCHANGED intent
    BY <1>6, DpiVpnServiceAssumption
       DEF EstablishFailed, Go, OpenInterface, CleanInv, ifaces, natives, cmds, Handler
  <2>2. \A g \in Handler : pc'[H(g)] \notin Opening
    BY <1>6, Alone DEF EstablishFailed, Go
  <2>3. QED
    BY <2>1, <2>2, CleanLocked
<1>7. CASE RestartClose(h)
  <2>1. \A g \in Handler : pc'[H(g)] # "establish"
    BY <1>7, Alone DEF RestartClose, Go
  <2>2. Gone'
    BY <1>7, ShrinksWorking DEF RestartClose, Go, jobs, IInv, QuietInv, Gone
  <2>3. vpnInterface' = 0 /\ open' = {} /\ UNCHANGED intent
    BY <1>7 DEF RestartClose, CloseInterface, CleanInv, cmds
  <2>4. QED
    BY <2>1, <2>2, <2>3 DEF CleanInv, Gone
<1>8. CASE PauseBody(h)
  <2>1. Shrinks
    BY <1>8 DEF PauseBody, StopEngines, CancelJobs
  <2>2. QED
    BY <1>8, <2>1, CleanKeep DEF PauseBody, StopEngines, cmds
<1>9. CASE PauseEnd(h)
  BY <1>9, CleanKeep DEF PauseEnd, Leave, Resumed, jobs, natives, cmds
<1>10. CASE ResumeBody(h)
  BY <1>10 DEF ResumeBody, CleanInv
<1>11. QED
  BY <1>1, <1>2, <1>3, <1>4, <1>5, <1>6, <1>7, <1>8, <1>9, <1>10, CleanStopKeeps
     DEF HandlerStep

LEMMA CleanStep ==
  ASSUME "RESUME" \notin Intents, Modes = {"VPN"}
  PROVE  Typed /\ MutexInv /\ IInv /\ CleanInv /\ [SvcNext]_vars => CleanInv'
<1> SUFFICES ASSUME Typed, MutexInv, IInv, CleanInv, [SvcNext]_vars PROVE CleanInv'
  OBVIOUS
<1> USE Coroutines DEF Typed, Shrinks, PWork, TWork, Opening, jobs, natives, cmds
<1>1. CASE UNCHANGED vars
  BY <1>1, CleanKeep DEF vars
<1>2. ASSUME NEW a, NEW k, Command(a, k) PROVE CleanInv'
  <2>1. intent' \in [Handler -> {"none", "START", "STOP", "PAUSE", "CLEANUP"}]
    BY <1>2, DpiVpnServiceAssumption DEF Command, CleanInv
  <2>2. Shrinks /\ UNCHANGED <<ifaces, protector>>
    BY <1>2 DEF Command
  <2>3. \A h \in Handler : pc'[H(h)] \in Opening => pc'[H(h)] = pc[H(h)]
    BY <1>2 DEF Command
  <2>4. QED
    BY <2>1, <2>2, <2>3, ShrinksWorking DEF CleanInv, ifaces
<1>3. CASE Destroy
  <2>1. intent' \in [Handler -> {"none", "START", "STOP", "PAUSE", "CLEANUP"}]
    BY <1>3 DEF Destroy, CleanInv
  <2>2. Shrinks /\ UNCHANGED <<ifaces, protector>>
    BY <1>3 DEF Destroy
  <2>3. \A h \in Handler : pc'[H(h)] \in Opening => pc'[H(h)] = pc[H(h)]
    BY <1>3 DEF Destroy
  <2>4. QED
    BY <2>1, <2>2, <2>3, ShrinksWorking DEF CleanInv, ifaces
<1>4. ASSUME NEW x, ChildCancelled(x) \/ LaunchEnds(x) PROVE CleanInv'
  BY <1>4, CleanKeep DEF ChildCancelled, LaunchEnds, Go
<1>5. ASSUME NEW s \in Session,
             \/ ProxyLaunch(s) \/ ProxyStart(s) \/ ProxyExit(s) \/ WaitForProxy(s)
             \/ ProxyTimeout(s) \/ TunnelStart(s) \/ TunnelExit(s) \/ HealthFails(s)
             \/ EngineStep(s) \/ EngineQuits(s) \/ TunnelQuits(s) \/ Ready(s)
      PROVE  CleanInv'
  BY <1>5, CleanKeep DEF ProxyLaunch, ProxyStart, ProxyExit, WaitForProxy, ProxyTimeout,
     TunnelStart, TunnelExit, HealthFails, EngineStep, EngineQuits, TunnelQuits, Go, Ready
<1>6. QED
  BY <1>1, <1>2, <1>3, <1>4, <1>5, CleanHandlerKeeps, CleanStopKeeps
     DEF SvcNext, ProxyStep, TunnelStep, HealthStep

\* With one run mode no session is in proxy mode.
LEMMA VpnOnly == ASSUME Modes = {"VPN"} PROVE SvcSpec => [](proxyOnly = {})
<1>1. SvcInit => proxyOnly = {}
  BY DEF SvcInit
<1>2. proxyOnly = {} /\ [SvcNext]_vars => (proxyOnly = {})'
  BY ModeStep DEF ModeKept
<1>3. QED
  BY <1>1, <1>2, PTL DEF SvcSpec

LEMMA CleanAlways ==
  ASSUME "RESUME" \notin Intents, Modes = {"VPN"}
  PROVE  SvcSpec => []CleanInv
<1>1. SvcInit => CleanInv
  <2>1. SvcInit => Gone
    BY Coroutines DEF SvcInit, Gone, Working
  <2>2. QED
    BY <2>1, Coroutines DEF SvcInit, CleanInv, Gone, Opening
<1>2. proxyOnly = {} /\ VpnInv => IInv
  BY DEF VpnInv
<1>3. SvcSpec => [](proxyOnly = {})
  BY VpnOnly
<1>4. Typed /\ MutexInv /\ IInv /\ CleanInv /\ [SvcNext]_vars => CleanInv'
  BY CleanStep
<1>5. QED
  BY <1>1, <1>2, <1>3, <1>4, SessionAlways, PTL DEF SvcSpec

\* Starts, restarts and stops in any order leave no interface open that
\* vpnInterface does not name.
THEOREM NeverLeaksInterface ==
  ASSUME "RESUME" \notin Intents, Modes = {"VPN"}
  PROVE  SvcSpec => []NoLeakedInterface
<1>1. CleanInv => NoLeakedInterface
  BY DEF CleanInv, NoLeakedInterface
<1>2. QED
  BY <1>1, CleanAlways, PTL

\* A session that serves keeps g_vpn_service: the stop before it cleared the
\* reference before, never after, the start set it (handleStart, 188-190).
THEOREM AlwaysProtected ==
  ASSUME "RESUME" \notin Intents, Modes = {"VPN"}
  PROVE  SvcSpec => []ProtectedWhileServing
<1>1. CleanInv => ProtectedWhileServing
  BY DEF CleanInv, ProtectedWhileServing
<1>2. QED
  BY <1>1, CleanAlways, PTL

-----------------------------------------------------------------------------
(* Type correctness, group by group.                                        *)

Request == {"none", "START", "STOP", "PAUSE", "RESUME", "CLEANUP"}

\* Handlers are numbered in the order their commands arrive, onDestroy's two
\* last; only a handler that was sent a command may create a session.
CmdTyped ==
  /\ intent \in [Handler -> Request]
  /\ conf \in [Handler -> Config \cup {0}] /\ lastConfig \in Config \cup {0}
  /\ destroyed \in BOOLEAN /\ arrived \in 0 .. MaxIntents + 2
  /\ ~destroyed => arrived <= MaxIntents
  /\ \A h \in Handler : /\ h > arrived => intent[h] = "none"
                        /\ intent[h] \in {"START", "PAUSE", "RESUME"} => h \in Session
                        /\ pc[H(h)] \in Opening => h \in Session

LEMMA CmdKeep ==
  ASSUME CmdTyped, UNCHANGED <<cmds, lastConfig, destroyed>>,
         \A h \in Handler : pc'[H(h)] \in Opening => pc[H(h)] \in Opening
  PROVE  CmdTyped'
BY DEF CmdTyped, cmds

LEMMA CmdStopKeeps ==
  ASSUME Typed, CmdTyped, NEW x \in Coroutine, StopStep(x)
  PROVE  CmdTyped'
<1> USE Coroutines DEF Typed, Opening, lifetime
<1>1. CASE Lock(x) \/ AbandonLock(x)
  BY <1>1, CmdKeep DEF Lock, AbandonLock, Leave, Resumed
<1>2. CASE StopNatives(x) \/ ForceClose(x)
  BY <1>2, CmdKeep DEF StopNatives, ForceClose, StopEngines
<1>3. CASE Drained(x) \/ ForceClosed(x)
  BY <1>3, CmdKeep DEF Drained, ForceClosed, Go
<1>4. CASE StopIgnored(x) \/ StopIdle(x) \/ StopClose(x)
  BY <1>4, CmdKeep DEF StopIgnored, StopIdle, StopClose, Leave, Resumed
<1>5. CASE StopBody(x)
  BY <1>5, CmdKeep DEF StopBody, Leave, Resumed
<1>6. QED
  BY <1>1, <1>2, <1>3, <1>4, <1>5 DEF StopStep

LEMMA CmdHandlerKeeps ==
  ASSUME Typed, CmdTyped, NEW h \in Handler, HandlerStep(h)
  PROVE  CmdTyped'
<1> USE Coroutines DEF Typed, Opening, lifetime
<1>1. CASE CleanupBody(h) \/ StartIgnored(h) \/ PauseEnd(h)
  BY <1>1, CmdKeep DEF CleanupBody, StartIgnored, PauseEnd, Leave, Resumed
<1>2. CASE StartBody(h)
  <2>1. UNCHANGED <<cmds, lastConfig, destroyed>> /\ h \in Session
    BY <1>2 DEF StartBody, CmdTyped
  <2>2. PICK to : pc' = [pc EXCEPT ![H(h)] = to]
    BY <1>2 DEF StartBody
  <2>3. \A g \in Handler : g # h /\ pc'[H(g)] \in Opening => pc[H(g)] \in Opening
    BY <2>2
  <2>4. QED
    BY <2>1, <2>3 DEF CmdTyped, cmds
<1>3. CASE Begin(h)
  BY <1>3, CmdKeep DEF Begin, Go
<1>4. ASSUME RememberConfig(h), UNCHANGED <<cmds, destroyed>>,
             \A g \in Handler : pc'[H(g)] \in Opening => pc[H(g)] \in Opening
      PROVE  CmdTyped'
  <2>1. lastConfig' \in Config \cup {0}
    BY <1>4 DEF RememberConfig, NewConfig, CmdTyped
  <2>2. QED
    BY <1>4, <2>1 DEF CmdTyped, cmds
<1>5. CASE Establish(h)
  BY <1>4, <1>5 DEF Establish, Resumed
<1>6. CASE EstablishFailed(h)
  BY <1>4, <1>6 DEF EstablishFailed, Go
<1>7. CASE RestartClose(h)
  <2>1. /\ UNCHANGED <<cmds, lastConfig, destroyed>> /\ h \in Session
        /\ \A g \in Handler : g # h /\ pc'[H(g)] \in Opening => pc[H(g)] \in Opening
    BY <1>7 DEF RestartClose, Go, CmdTyped
  <2>2. QED
    BY <2>1 DEF CmdTyped, cmds
<1>8. CASE PauseBody(h)
  BY <1>8, CmdKeep DEF PauseBody, StopEngines
<1>9. CASE ResumeBody(h)
  <2>1. UNCHANGED <<cmds, lastConfig, destroyed>> /\ h \in Session
    BY <1>9 DEF ResumeBody, CmdTyped
  <2>2. \A g \in Handler : g # h /\ pc'[H(g)] \in Opening => pc[H(g)] \in Opening
    BY <1>9 DEF ResumeBody, Leave, Resumed
  <2>3. QED
    BY <2>1, <2>2 DEF CmdTyped, cmds
<1>10. QED
  BY <1>1, <1>2, <1>3, <1>5, <1>6, <1>7, <1>8, <1>9, CmdStopKeeps DEF HandlerStep

LEMMA CmdStep == Typed /\ CmdTyped /\ [SvcNext]_vars => CmdTyped'
<1> SUFFICES ASSUME Typed, CmdTyped, [SvcNext]_vars PROVE CmdTyped'
  OBVIOUS
<1> USE Coroutines DEF Typed, Opening, lifetime
<1>1. CASE UNCHANGED vars
  BY <1>1, CmdKeep DEF vars
<1>2. ASSUME NEW a \in Intents, NEW k \in Config \cup {0}, Command(a, k) PROVE CmdTyped'
  <2>1. MaxIntents \in Nat /\ Handler = 1 .. MaxIntents + 2 /\ Session = 1 .. MaxIntents
    BY DpiVpnServiceAssumption DEF Handler
  <2>2. arrived + 1 \in Session /\ arrived + 1 \in Handler /\ ~destroyed
    BY <1>2, <2>1 DEF Command, CmdTyped
  <2>3. a \in Request
    BY DpiVpnServiceAssumption DEF Request
  <2>4. /\ arrived' = arrived + 1 /\ UNCHANGED <<lastConfig, destroyed>>
        /\ intent' = [intent EXCEPT ![arrived + 1] = a]
        /\ conf' = [conf EXCEPT ![arrived + 1] = k]
    BY <1>2 DEF Command
  <2>5. \A h \in Handler : pc'[H(h)] \in Opening => pc[H(h)] \in Opening
    BY <1>2 DEF Command
  <2>6. \A h \in Handler : h > arrived' => intent'[h] = "none"
    BY <2>1, <2>2, <2>4 DEF CmdTyped
  <2>7. intent' \in [Handler -> Request] /\ conf' \in [Handler -> Config \cup {0}]
    BY <2>3, <2>4 DEF CmdTyped
  <2>8. \A h \in Handler : intent'[h] \in {"START", "PAUSE", "RESUME"} => h \in Session
    BY <2>2, <2>4 DEF CmdTyped
  <2>9. arrived' \in 0 .. MaxIntents + 2 /\ arrived' <= MaxIntents
    BY <2>1, <2>2, <2>4
  <2>10. QED
    BY <2>4, <2>5, <2>6, <2>7, <2>8, <2>9 DEF CmdTyped
<1>3. CASE Destroy
  <2>1. MaxIntents \in Nat /\ Handler = 1 .. MaxIntents + 2
    BY DpiVpnServiceAssumption DEF Handler
  <2>2. /\ arrived \in 0 .. MaxIntents /\ arrived' = arrived + 2 /\ destroyed' = TRUE
        /\ UNCHANGED <<conf, lastConfig>>
        /\ intent' = [intent EXCEPT ![arrived + 1] = "STOP", ![arrived + 2] = "CLEANUP"]
    BY <1>3, <2>1 DEF Destroy, CmdTyped
  <2>3. \A h \in Handler : pc'[H(h)] \in Opening => pc[H(h)] \in Opening
    BY <1>3 DEF Destroy
  <2>4. \A h \in Handler : h > arrived' => intent'[h] = "none"
    BY <2>1, <2>2 DEF CmdTyped
  <2>5. intent' \in [Handler -> Request]
    BY <2>2 DEF CmdTyped, Request
  <2>6. \A h \in Handler : intent'[h] \in {"START", "PAUSE", "RESUME"} => h \in Session
    BY <2>2 DEF CmdTyped
  <2>7. arrived' \in 0 .. MaxIntents + 2
    BY <2>1, <2>2
  <2>8. QED
    BY <2>2, <2>3, <2>4, <2>5, <2>6, <2>7 DEF CmdTyped
<1>4. ASSUME NEW x, ChildCancelled(x) \/ LaunchEnds(x) PROVE CmdTyped'
  BY <1>4, CmdKeep DEF ChildCancelled, LaunchEnds, Go
<1>5. ASSUME NEW s \in Session,
             \/ ProxyLaunch(s) \/ ProxyStart(s) \/ ProxyExit(s) \/ WaitForProxy(s)
             \/ ProxyTimeout(s) \/ TunnelStart(s) \/ TunnelExit(s) \/ HealthFails(s)
             \/ EngineStep(s) \/ EngineQuits(s) \/ TunnelQuits(s) \/ Ready(s)
      PROVE  CmdTyped'
  BY <1>5, CmdKeep DEF ProxyLaunch, ProxyStart, ProxyExit, WaitForProxy, ProxyTimeout,
     TunnelStart, TunnelExit, HealthFails, EngineStep, EngineQuits, TunnelQuits, Go, Ready
<1>6. CASE \E k \in Extras : Command("START", k)
  <2>1. PICK k \in Extras : Command("START", k)
    BY <1>6
  <2>2. QED
    BY <2>1, <1>2, DpiVpnServiceAssumption DEF Command
<1>7. CASE \E a \in Intents \ {"START"} : Command(a, 0)
  BY <1>7, <1>2
<1>8. QED
  BY <1>1, <1>3, <1>4, <1>5, <1>6, <1>7, CmdHandlerKeeps, CmdStopKeeps
     DEF SvcNext, ProxyStep, TunnelStep, HealthStep

LEMMA CmdAlways == SvcSpec => []CmdTyped
<1>1. ASSUME SvcInit PROVE CmdTyped
  <2>1. MaxIntents \in Nat
    BY DpiVpnServiceAssumption
  <2>2. intent \in [Handler -> Request] /\ conf \in [Handler -> Config \cup {0}]
    BY <1>1 DEF SvcInit, Request
  <2>3. \A h \in Handler : pc[H(h)] = "none" /\ intent[h] = "none"
    BY <1>1, Coroutines DEF SvcInit
  <2>4. destroyed = FALSE /\ arrived = 0 /\ lastConfig = 0
    BY <1>1 DEF SvcInit
  <2>5. arrived \in 0 .. MaxIntents + 2 /\ arrived <= MaxIntents
    BY <2>1, <2>4
  <2>6. QED
    BY <2>2, <2>3, <2>4, <2>5 DEF CmdTyped, Opening
<1>2. QED
  BY <1>1, CmdStep, TypedAlways, PTL DEF SvcSpec

\* vpnLock and the single flags.
PlainTyped ==
  /\ lockHolder \in Coroutine \cup {NoCo} /\ lockQueue \in Seq(Coroutine)
  /\ isStopping \in BOOLEAN /\ selfStopped \in BOOLEAN
  /\ tunnelRunning \in BOOLEAN /\ protector \in BOOLEAN

\* Jobs and interfaces are named by sessions.
JobTyped ==
  /\ {vpnWorkJob, healthCheckJob, vpnInterface} \subseteq Session \cup {0}
  /\ workCancelled \subseteq Session /\ healthCancelled \subseteq Session
  /\ open \subseteq Session /\ proxyOnly \subseteq Session

PlainKept == UNCHANGED <<locks, isStopping, selfStopped, tunnelRunning, protector>>
JobKept   == UNCHANGED <<jobs, ifaces>>

LEMMA UnlockTyped ==
  ASSUME PlainTyped, Unlock
  PROVE  lockHolder' \in Coroutine \cup {NoCo} /\ lockQueue' \in Seq(Coroutine)
BY DEF PlainTyped, Unlock

LEMMA QueueTyped ==
  ASSUME PlainTyped, NEW x \in Coroutine
  PROVE  /\ Append(lockQueue, x) \in Seq(Coroutine)
         /\ \A i \in 1 .. Len(lockQueue) :
              SubSeq(lockQueue, 1, i - 1) \o SubSeq(lockQueue, i + 1, Len(lockQueue))
                \in Seq(Coroutine)
<1>1. lockQueue \in Seq(Coroutine)
  BY DEF PlainTyped
<1>2. Append(lockQueue, x) \in Seq(Coroutine)
  BY <1>1
<1>3. ASSUME NEW i \in 1 .. Len(lockQueue)
      PROVE  SubSeq(lockQueue, 1, i - 1) \o SubSeq(lockQueue, i + 1, Len(lockQueue))
               \in Seq(Coroutine)
  <2>1. \A j \in 1 .. Len(lockQueue) : lockQueue[j] \in Coroutine
    BY <1>1
  <2>2. SubSeq(lockQueue, 1, i - 1) \in Seq(Coroutine)
    BY <1>1, <2>1, SubSeqProperties
  <2>3. SubSeq(lockQueue, i + 1, Len(lockQueue)) \in Seq(Coroutine)
    BY <1>1, <2>1, SubSeqProperties
  <2>4. QED
    BY <2>2, <2>3
<1>4. QED
  BY <1>2, <1>3

LEMMA PlainStopKeeps ==
  ASSUME PlainTyped, NEW x \in Coroutine, StopStep(x)
  PROVE  PlainTyped'
<1> USE Coroutines DEF lifetime, natives, evars
<1>1. CASE Lock(x)
  <2>1. lockHolder' \in Coroutine \cup {NoCo} /\ lockQueue' \in Seq(Coroutine)
    BY <1>1, QueueTyped DEF Lock, locks, PlainTyped
  <2>2. QED
    BY <1>1, <2>1 DEF Lock, PlainTyped
<1>2. CASE AbandonLock(x)
  <2>1. lockHolder' \in Coroutine \cup {NoCo} /\ lockQueue' \in Seq(Coroutine)
    BY <1>2, QueueTyped, UnlockTyped DEF AbandonLock, Leave, PlainTyped
  <2>2. QED
    BY <1>2, <2>1 DEF AbandonLock, PlainTyped
<1>3. CASE StopNatives(x) \/ ForceClose(x) \/ Drained(x) \/ ForceClosed(x)
  BY <1>3 DEF StopNatives, ForceClose, StopEngines, Drained, ForceClosed, locks, PlainTyped
<1>4. CASE StopIgnored(x) \/ StopIdle(x) \/ StopClose(x)
  BY <1>4, UnlockTyped DEF StopIgnored, StopIdle, StopClose, Leave, PlainTyped
<1>5. CASE StopBody(x)
  BY <1>5, UnlockTyped DEF StopBody, Leave, locks, PlainTyped
<1>6. QED
  BY <1>1, <1>2, <1>3, <1>4, <1>5 DEF StopStep

LEMMA PlainStep == PlainTyped /\ [SvcNext]_vars => PlainTyped'
<1> SUFFICES ASSUME PlainTyped, [SvcNext]_vars PROVE PlainTyped'
  OBVIOUS
<1> USE Coroutines DEF lifetime, natives, evars, locks
<1>1. CASE UNCHANGED vars
  BY <1>1 DEF vars, PlainTyped
<1>2. ASSUME NEW a, NEW k, Command(a, k) \/ Destroy PROVE PlainTyped'
  BY <1>2 DEF Command, Destroy, PlainTyped
<1>3. ASSUME NEW h \in Handler, HandlerStep(h) PROVE PlainTyped'
  <2>1. CASE CleanupBody(h) \/ StartIgnored(h) \/ PauseEnd(h)
    BY <2>1, UnlockTyped DEF CleanupBody, StartIgnored, PauseEnd, Leave, PlainTyped
  <2>2. CASE StartBody(h) \/ Begin(h) \/ RestartClose(h)
    BY <2>2 DEF StartBody, Begin, RestartClose, PlainTyped
  <2>3. CASE Establish(h)
    BY <2>3, UnlockTyped DEF Establish, PlainTyped
  <2>4. CASE EstablishFailed(h)
    BY <2>4, QueueTyped DEF EstablishFailed, PlainTyped
  <2>5. CASE PauseBody(h)
    BY <2>5 DEF PauseBody, StopEngines, PlainTyped
  <2>6. CASE ResumeBody(h)
    BY <2>6, UnlockTyped DEF ResumeBody, Leave, PlainTyped
  <2>7. QED
    BY <1>3, <2>1, <2>2, <2>3, <2>4, <2>5, <2>6, PlainStopKeeps DEF HandlerStep
<1>4. ASSUME NEW x, ChildCancelled(x) \/ LaunchEnds(x) PROVE PlainTyped'
  BY <1>4 DEF ChildCancelled, LaunchEnds, PlainTyped
<1>5. ASSUME NEW s \in Session,
             \/ ProxyLaunch(s) \/ ProxyStart(s) \/ ProxyExit(s) \/ WaitForProxy(s)
             \/ ProxyTimeout(s) \/ TunnelStart(s) \/ TunnelExit(s) \/ HealthFails(s)
             \/ EngineStep(s) \/ EngineQuits(s) \/ TunnelQuits(s) \/ Ready(s)
      PROVE  PlainTyped'
  BY <1>5 DEF ProxyLaunch, ProxyStart, ProxyExit, WaitForProxy, ProxyTimeout,
     TunnelStart, TunnelExit, HealthFails, EngineStep, EngineQuits, TunnelQuits, Ready,
     PlainTyped
<1>6. QED
  BY <1>1, <1>2, <1>3, <1>4, <1>5, PlainStopKeeps
     DEF SvcNext, ProxyStep, TunnelStep, HealthStep

LEMMA CancelTyped == ASSUME JobTyped, CancelJobs, UNCHANGED ifaces PROVE JobTyped'
BY DEF JobTyped, CancelJobs, ifaces

LEMMA CloseTyped == ASSUME JobTyped, CloseInterface, UNCHANGED jobs PROVE JobTyped'
BY DEF JobTyped, CloseInterface, jobs

LEMMA JobStep == CmdTyped /\ JobTyped /\ [SvcNext]_vars => JobTyped'
<1> SUFFICES ASSUME CmdTyped, JobTyped, [SvcNext]_vars PROVE JobTyped'
  OBVIOUS
<1>0. ASSUME JobKept PROVE JobTyped'
  BY <1>0 DEF JobKept, jobs, ifaces, JobTyped
<1>1. CASE UNCHANGED vars
  BY <1>0, <1>1 DEF vars, JobKept
<1>2. ASSUME NEW a, NEW k, Command(a, k) \/ Destroy PROVE JobTyped'
  BY <1>0, <1>2 DEF Command, Destroy, JobKept
<1>3. ASSUME NEW x, StopStep(x) PROVE JobTyped'
  <2>1. CASE StopBody(x)
    BY <2>1, CancelTyped DEF StopBody
  <2>2. CASE StopClose(x)
    BY <2>2, CloseTyped DEF StopClose
  <2>3. CASE \/ Lock(x) \/ AbandonLock(x) \/ StopNatives(x) \/ Drained(x) \/ ForceClose(x)
             \/ ForceClosed(x) \/ StopIgnored(x) \/ StopIdle(x)
    BY <1>0, <2>3 DEF Lock, AbandonLock, StopNatives, Drained, ForceClose, ForceClosed,
       StopIgnored, StopIdle, JobKept
  <2>4. QED
    BY <1>3, <2>1, <2>2, <2>3 DEF StopStep
<1>4. ASSUME NEW h \in Handler, HandlerStep(h) PROVE JobTyped'
  <2>1. CASE CleanupBody(h)
    BY <2>1 DEF CleanupBody, ifaces, JobTyped
  <2>2. CASE StartBody(h)
    <3>1. CASE CancelJobs
      BY <2>2, <3>1, CancelTyped DEF StartBody
    <3>2. CASE UNCHANGED jobs
      BY <1>0, <2>2, <3>2 DEF StartBody, JobKept
    <3>3. QED
      BY <2>2, <3>1, <3>2 DEF StartBody
  <2>3. CASE PauseBody(h)
    BY <2>3, CancelTyped DEF PauseBody
  <2>4. CASE RestartClose(h)
    BY <2>4, CloseTyped DEF RestartClose
  <2>5. CASE Establish(h)
    <3>1. h \in Session
      BY <2>5 DEF Establish, CmdTyped, Opening
    <3>2. QED
      BY <2>5, <3>1 DEF Establish, OpenInterface, SkipInterface, JobTyped
  <2>6. CASE EstablishFailed(h)
    <3>1. h \in Session
      BY <2>6 DEF EstablishFailed, Go, CmdTyped, Opening
    <3>2. QED
      BY <2>6, <3>1 DEF EstablishFailed, OpenInterface, jobs, ifaces, JobTyped
  <2>7. CASE StartIgnored(h) \/ Begin(h) \/ PauseEnd(h) \/ ResumeBody(h)
    BY <1>0, <2>7 DEF StartIgnored, Begin, PauseEnd, ResumeBody, JobKept
  <2>8. QED
    BY <1>3, <1>4, <2>1, <2>2, <2>3, <2>4, <2>5, <2>6, <2>7 DEF HandlerStep
<1>5. ASSUME NEW x, ChildCancelled(x) \/ LaunchEnds(x) PROVE JobTyped'
  BY <1>0, <1>5 DEF ChildCancelled, LaunchEnds, JobKept
<1>6. ASSUME NEW s \in Session, Ready(s) PROVE JobTyped'
  BY <1>6 DEF Ready, ifaces, JobTyped
<1>7. ASSUME NEW s \in Session,
             \/ ProxyLaunch(s) \/ ProxyStart(s) \/ ProxyExit(s) \/ WaitForProxy(s)
             \/ ProxyTimeout(s) \/ TunnelStart(s) \/ TunnelExit(s) \/ HealthFails(s)
             \/ EngineStep(s) \/ EngineQuits(s) \/ TunnelQuits(s)
      PROVE  JobTyped'
  BY <1>0, <1>7 DEF ProxyLaunch, ProxyStart, ProxyExit, WaitForProxy, ProxyTimeout,
     TunnelStart, TunnelExit, HealthFails, EngineStep, EngineQuits, TunnelQuits, JobKept
<1>8. QED
  BY <1>1, <1>2, <1>3, <1>4, <1>5, <1>6, <1>7
     DEF SvcNext, ProxyStep, TunnelStep, HealthStep

-----------------------------------------------------------------------------
(* What the screens were told.                                              *)

\* The flags but isError, as vpnStateFlow holds them.
Agree == /\ shown.isRunning = vpn.isRunning /\ shown.isPaused = vpn.isPaused
         /\ shown.isConnecting = vpn.isConnecting
         /\ shown.isDisconnecting = vpn.isDisconnecting

\* Only the end of stopVpnInternal inside handleStart leaves the screens
\* behind, until startVpnInternal reports that it is connecting; and a service
\* that disconnects is not idle, so that a stop that finds it idle has no flag
\* to clear.
ShowInv ==
  /\ shown \in Flags
  /\ Agree \/ \E h \in Handler : intent[h] = "START" /\ pc[H(h)] = "begin"
  /\ vpn.isDisconnecting => ~Idle

\* Steps that change no flag but isError.
LEMMA ShowKeep ==
  ASSUME ShowInv, shown' = shown, vpnInterface' = 0 => vpnInterface = 0,
         vpn'.isRunning = vpn.isRunning, vpn'.isPaused = vpn.isPaused,
         vpn'.isConnecting = vpn.isConnecting, vpn'.isDisconnecting = vpn.isDisconnecting,
         \A h \in Handler : intent[h] = "START" /\ pc[H(h)] = "begin"
                              => intent'[h] = "START" /\ pc'[H(h)] = "begin"
  PROVE  ShowInv'
BY DEF ShowInv, Agree, Idle

\* updateVpnState tells the screens.
LEMMA ShowUpdate ==
  ASSUME NEW v \in Flags, Update(v), 
         v.isDisconnecting => \/ v.isRunning \/ v.isPaused \/ v.isConnecting
                              \/ vpnInterface' # 0
  PROVE  ShowInv'
BY DEF ShowInv, Agree, Idle, Update

\* A coroutine that holds the lock elsewhere: nobody is about to begin.
LEMMA NoneBegins ==
  ASSUME MutexInv, NEW x \in Coroutine, pc[x] \in Inside, pc[x] # "begin"
  PROVE  \A h \in Handler : pc[H(h)] # "begin"
BY Alone, Coroutines DEF Inside

LEMMA ShowStopKeeps ==
  ASSUME Typed, MutexInv, ShowInv, NEW x \in Coroutine, StopStep(x)
  PROVE  ShowInv'
<1> USE Coroutines DEF Typed, ifaces, cmds
<1>1. CASE Lock(x)
  BY <1>1, ShowKeep DEF Lock
<1>2. CASE AbandonLock(x)
  <2>1. CASE pc[x] = "granted" /\ Leave(x)
    BY <1>2, <2>1, NoneBegins, ShowKeep DEF AbandonLock, Inside
  <2>2. CASE pc[x] = "waiting" /\ pc' = [pc EXCEPT ![x] = "done"]
    BY <1>2, <2>2, ShowKeep DEF AbandonLock
  <2>3. QED
    BY <1>2, <2>1, <2>2 DEF AbandonLock
<1>3. CASE StopNatives(x) \/ ForceClose(x)
  BY <1>3, ShowKeep DEF StopNatives, ForceClose, StopEngines
<1>4. CASE Drained(x) \/ ForceClosed(x)
  BY <1>4, ShowKeep DEF Drained, ForceClosed, Go
<1>5. CASE StopIgnored(x)
  BY <1>5, NoneBegins, ShowKeep DEF StopIgnored, Entered, Inside
<1>6. CASE StopIdle(x)
  <2>1. /\ vpn'.isRunning = vpn.isRunning /\ vpn'.isPaused = vpn.isPaused
        /\ vpn'.isConnecting = vpn.isConnecting /\ vpn'.isDisconnecting = FALSE
        /\ vpn.isDisconnecting = FALSE
    BY <1>6 DEF StopIdle, ShowInv, Flags
  <2>2. QED
    BY <1>6, <2>1, NoneBegins, ShowKeep DEF StopIdle, Entered, Inside
<1>7. CASE StopBody(x)
  <2>1. [vpn EXCEPT !.isDisconnecting = TRUE] \in Flags
    BY DEF Flags
  <2>2. ~Idle /\ vpnInterface' = vpnInterface
    BY <1>7 DEF StopBody
  <2>3. QED
    BY <1>7, <2>1, <2>2, ShowUpdate DEF StopBody, Idle, Flags
<1>8. CASE StopClose(x)
  <2>1. [Down EXCEPT !.isError = vpn.isError] \in Flags
    BY DEF Flags, Down
  <2>2. QED
    BY <1>8, <2>1, ShowUpdate DEF StopClose, Down
<1>9. QED
  BY <1>1, <1>2, <1>3, <1>4, <1>5, <1>6, <1>7, <1>8 DEF StopStep

LEMMA ShowHandlerKeeps ==
  ASSUME Typed, MutexInv, ShowInv, NEW h \in Handler, HandlerStep(h)
  PROVE  ShowInv'
<1> USE Coroutines DEF Typed, ifaces, cmds
<1>1. CASE CleanupBody(h)
  BY <1>1, NoneBegins, ShowKeep DEF CleanupBody, Entered, Inside
<1>2. CASE StartIgnored(h)
  BY <1>2, ShowUpdate DEF StartIgnored
<1>3. CASE StartBody(h)
  BY <1>3, ShowKeep DEF StartBody, Entered
<1>4. CASE Begin(h)
  <2>1. [Down EXCEPT !.isConnecting = TRUE] \in Flags
    BY DEF Flags, Down
  <2>2. QED
    BY <1>4, <2>1, ShowUpdate DEF Begin, Down
<1>5. CASE Establish(h)
  <2>1. vpnInterface' = 0 => vpnInterface = 0
    BY <1>5, DpiVpnServiceAssumption DEF Establish, OpenInterface, SkipInterface, Handler
  <2>2. QED
    BY <1>5, <2>1, NoneBegins, ShowKeep DEF Establish, Inside
<1>6. CASE EstablishFailed(h)
  <2>1. vpnInterface' = 0 => vpnInterface = 0
    BY <1>6, DpiVpnServiceAssumption DEF EstablishFailed, OpenInterface, Handler
  <2>2. QED
    BY <1>6, <2>1, ShowKeep DEF EstablishFailed, Go, Flags
<1>7. CASE RestartClose(h)
  BY <1>7 DEF RestartClose, Go, ShowInv, Down
<1>8. CASE PauseBody(h)
  <2>1. [vpn EXCEPT !.isPaused = TRUE, !.isRunning = FALSE, !.isConnecting = FALSE,
                    !.isDisconnecting = TRUE] \in Flags
    BY DEF Flags
  <2>2. QED
    BY <1>8, <2>1, ShowUpdate DEF PauseBody, Flags
<1>9. CASE PauseEnd(h)
  <2>1. [vpn EXCEPT !.isPaused = TRUE, !.isRunning = FALSE, !.isConnecting = FALSE,
                    !.isDisconnecting = FALSE] \in Flags
    BY DEF Flags
  <2>2. QED
    BY <1>9, <2>1, ShowUpdate DEF PauseEnd, Flags
<1>10. CASE ResumeBody(h)
  <2>1. CASE vpn.isPaused
    <3>1. [Down EXCEPT !.isConnecting = TRUE, !.isError = vpn.isError] \in Flags
      BY DEF Flags, Down
    <3>2. QED
      BY <1>10, <2>1, <3>1, ShowUpdate DEF ResumeBody, Down
  <2>2. CASE ~vpn.isPaused
    BY <1>10, <2>2, NoneBegins, ShowKeep DEF ResumeBody, Entered, Inside
  <2>3. QED
    BY <2>1, <2>2
<1>11. QED
  BY <1>1, <1>2, <1>3, <1>4, <1>5, <1>6, <1>7, <1>8, <1>9, <1>10, ShowStopKeeps
     DEF HandlerStep

LEMMA ShowStep == Typed /\ MutexInv /\ CmdTyped /\ ShowInv /\ [SvcNext]_vars => ShowInv'
<1> SUFFICES ASSUME Typed, MutexInv, CmdTyped, ShowInv, [SvcNext]_vars PROVE ShowInv'
  OBVIOUS
<1> USE Coroutines DEF Typed, ifaces, cmds
<1>1. CASE UNCHANGED vars
  BY <1>1, ShowKeep DEF vars
<1>2. ASSUME NEW a, NEW k, Command(a, k) PROVE ShowInv'
  <2>1. \A h \in Handler : intent[h] = "START" => h # arrived + 1
    BY DEF CmdTyped
  <2>2. \A h \in Handler : intent[h] = "START" => intent'[h] = intent[h] /\ pc'[H(h)] = pc[H(h)]
    BY <1>2, <2>1 DEF Command, CmdTyped
  <2>3. QED
    BY <1>2, <2>2, ShowKeep DEF Command
<1>3. CASE Destroy
  <2>1. \A h \in Handler : intent[h] = "START" => h # arrived + 1 /\ h # arrived + 2
    BY DEF CmdTyped
  <2>2. \A h \in Handler : intent[h] = "START" => intent'[h] = intent[h] /\ pc'[H(h)] = pc[H(h)]
    BY <1>3, <2>1 DEF Destroy, CmdTyped
  <2>3. QED
    BY <1>3, <2>2, ShowKeep DEF Destroy
<1>4. ASSUME NEW x, ChildCancelled(x) PROVE ShowInv'
  BY <1>4, ShowKeep DEF ChildCancelled, Go
<1>5. ASSUME NEW x, LaunchEnds(x) PROVE ShowInv'
  BY <1>5, ShowKeep DEF LaunchEnds, Flags
<1>6. ASSUME NEW s \in Session, Ready(s) PROVE ShowInv'
  <2>1. [Down EXCEPT !.isRunning = TRUE] \in Flags
    BY DEF Flags, Down
  <2>2. QED
    BY <1>6, <2>1, ShowUpdate DEF Ready, Down
<1>7. ASSUME NEW s \in Session,
             \/ ProxyLaunch(s) \/ ProxyStart(s) \/ ProxyExit(s) \/ WaitForProxy(s)
             \/ ProxyTimeout(s) \/ TunnelStart(s) \/ TunnelExit(s) \/ HealthFails(s)
             \/ EngineStep(s) \/ EngineQuits(s) \/ TunnelQuits(s)
      PROVE  ShowInv'
  BY <1>7, ShowKeep DEF ProxyLaunch, ProxyStart, ProxyExit, WaitForProxy, ProxyTimeout,
     TunnelStart, TunnelExit, HealthFails, EngineStep, EngineQuits, TunnelQuits, Go, Flags
<1>8. QED
  BY <1>1, <1>2, <1>3, <1>4, <1>5, <1>6, <1>7, ShowHandlerKeeps, ShowStopKeeps
     DEF SvcNext, ProxyStep, TunnelStep, HealthStep

LEMMA ShowAlways == SvcSpec => []ShowInv
<1>1. SvcInit => ShowInv
  BY DEF SvcInit, ShowInv, Agree, Flags, Down
<1>2. QED
  BY <1>1, ShowStep, TypedAlways, MutexAlways, CmdAlways, PTL DEF SvcSpec

\* Once the coroutines have settled, vpnStateFlow holds what the volatile flags
\* say, isError apart: no path through start, stop, pause or the children leaves
\* the screens with an old state (updateVpnState, DpiVpnService.kt).
THEOREM AlwaysShownWhenSettled == SvcSpec => []ShownWhenSettled
<1>1. Typed /\ ShowInv => ShownWhenSettled
  <2> SUFFICES ASSUME Typed, ShowInv, Settled
               PROVE  [shown EXCEPT !.isError = vpn.isError] = vpn
    BY DEF ShownWhenSettled
  <2>1. Agree
    BY Coroutines DEF ShowInv, Settled
  <2>2. QED
    BY <2>1 DEF Agree, ShowInv, Typed, Flags
<1>2. QED
  BY <1>1, ShowAlways, TypedAlways, PTL

-----------------------------------------------------------------------------
(* The service and the abstract engine.                                     *)

LEMMA EngineUse == [SvcNext]_vars => [PENext]_evars
<1> SUFFICES ASSUME [SvcNext]_vars PROVE PENext \/ UNCHANGED evars
  BY DEF evars
<1>1. CASE UNCHANGED vars
  BY <1>1 DEF vars, natives
<1>2. ASSUME NEW a, NEW k, Command(a, k) \/ Destroy PROVE UNCHANGED evars
  BY <1>2 DEF Command, Destroy, natives
<1>3. ASSUME StopProxy PROVE PENext \/ UNCHANGED evars
  BY <1>3 DEF StopProxy, PENext, Quit, evars
<1>4. ASSUME NEW x, StopStep(x) PROVE PENext \/ UNCHANGED evars
  <2>1. CASE StopNatives(x) \/ ForceClose(x)
    BY <1>3, <2>1 DEF StopNatives, ForceClose, StopEngines
  <2>2. CASE ForceClosed(x)
    BY <2>2 DEF ForceClosed, PENext
  <2>3. CASE \/ Lock(x) \/ AbandonLock(x) \/ Drained(x) \/ StopIgnored(x) \/ StopIdle(x)
             \/ StopBody(x) \/ StopClose(x)
    BY <2>3 DEF Lock, AbandonLock, Drained, StopIgnored, StopIdle, StopBody, StopClose, natives
  <2>4. QED
    BY <1>4, <2>1, <2>2, <2>3 DEF StopStep
<1>5. ASSUME NEW h, HandlerStep(h) PROVE PENext \/ UNCHANGED evars
  <2>1. CASE PauseBody(h)
    BY <1>3, <2>1 DEF PauseBody, StopEngines
  <2>2. CASE \/ CleanupBody(h) \/ StartIgnored(h) \/ StartBody(h) \/ Begin(h) \/ Establish(h)
             \/ EstablishFailed(h) \/ RestartClose(h) \/ PauseEnd(h) \/ ResumeBody(h)
    BY <2>2 DEF CleanupBody, StartIgnored, StartBody, Begin, Establish, EstablishFailed,
       RestartClose, PauseEnd, ResumeBody, natives
  <2>3. QED
    BY <1>4, <1>5, <2>1, <2>2 DEF HandlerStep
<1>6. ASSUME NEW s \in Session, ProxyStart(s) \/ ProxyExit(s) \/ EngineStep(s) \/ EngineQuits(s)
      PROVE  PENext \/ UNCHANGED evars
  BY <1>6 DEF ProxyStart, ProxyExit, EngineStep, EngineQuits, PENext
<1>7. ASSUME NEW x, ChildCancelled(x) \/ LaunchEnds(x) PROVE UNCHANGED evars
  BY <1>7 DEF ChildCancelled, LaunchEnds, natives
<1>8. ASSUME NEW s \in Session,
             \/ ProxyLaunch(s) \/ WaitForProxy(s) \/ ProxyTimeout(s) \/ TunnelStart(s)
             \/ TunnelExit(s) \/ HealthFails(s) \/ TunnelQuits(s) \/ Ready(s)
      PROVE  UNCHANGED evars
  BY <1>8 DEF ProxyLaunch, WaitForProxy, ProxyTimeout, TunnelStart, TunnelExit, HealthFails,
     TunnelQuits, Ready, natives
<1>9. QED
  BY <1>1, <1>2, <1>4, <1>5, <1>6, <1>7, <1>8
     DEF SvcNext, ProxyStep, TunnelStep, HealthStep

\* The service drives the engine as the abstract specification allows: every
\* step of a handler, of a child or of the health check is a step of the engine
\* or leaves it alone, whatever stops and starts overlap.
THEOREM ServiceUsesEngine == SvcSpec => PESpec
<1>1. SvcInit => PEInit
  BY DEF SvcInit
<1>2. QED
  BY <1>1, EngineUse, PTL DEF SvcSpec, PESpec

\* Two byedpi_main of the service never overlap and the running flag its waits
\* poll is up while one has not returned, until jniForceClose resets it.
THEOREM ServiceOneMain == SvcSpec => []OneMain
BY ServiceUsesEngine, EngineOneMain, PTL

LEMMA PlainAlways == SvcSpec => []PlainTyped
<1>1. ASSUME SvcInit PROVE PlainTyped
  <2>1. <<>> \in Seq(Coroutine)
    OBVIOUS
  <2>2. lockHolder = NoCo /\ lockQueue = <<>>
    BY <1>1 DEF SvcInit
  <2>3. isStopping = FALSE /\ selfStopped = FALSE /\ tunnelRunning = FALSE /\ protector = FALSE
    BY <1>1 DEF SvcInit
  <2>4. QED
    BY <2>1, <2>2, <2>3 DEF PlainTyped
<1>2. QED
  BY <1>1, PlainStep, PTL DEF SvcSpec

LEMMA JobAlways == SvcSpec => []JobTyped
<1>1. SvcInit => JobTyped
  BY DEF SvcInit, JobTyped
<1>2. QED
  BY <1>1, JobStep, CmdAlways, PTL DEF SvcSpec

\* Types, for any number of commands: among them that the queue of vpnLock
\* holds coroutines only, and that every job and interface the fields of the
\* service name belongs to a session some START, PAUSE or RESUME could create.
THEOREM SvcTypeCorrect == SvcSpec => []SvcTypeOK
<1>1. Typed /\ CmdTyped /\ PlainTyped /\ JobTyped /\ ShowInv /\ PETypeOK => SvcTypeOK
  BY DEF Typed, CmdTyped, PlainTyped, JobTyped, ShowInv, SvcTypeOK, Request
<1>2. SvcSpec => []PETypeOK
  BY ServiceUsesEngine, PETypeCorrect, PTL
<1>3. QED
  BY <1>1, <1>2, TypedAlways, CmdAlways, PlainAlways, JobAlways, ShowAlways, PTL
=============================================================================
