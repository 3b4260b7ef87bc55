------------------------ MODULE StrategyTesting_proofs ------------------------
(***************************************************************************)
(* Theorems about StrategyTesting, for any number of commands, strategies,  *)
(* sites and engines, with every wait running out at any time.              *)
(***************************************************************************)
EXTENDS StrategyTesting, ProxyEngine_proofs, FiniteSetTheorems, TLAPS

\* What a step of a job's own thread, of an engine or of a check leaves alone.
JobsKept == UNCHANGED <<isRunning, currentTestJob, cancelled, arrived>>

\* The flag is exact, and jobs are numbered by their commands.
JobInv ==
  /\ pc \in [Job -> JobPoint]
  /\ cancelled \subseteq Job
  /\ arrived \in 0 .. MaxCommands
  /\ currentTestJob \in 0 .. arrived
  /\ \A j \in Job : j > arrived => pc[j] = "none" /\ j \notin cancelled
  /\ isRunning \in BOOLEAN
  /\ OneTest

\* A step inside a job that goes on does not change which jobs live.
Moves == \E j \in Job : /\ pc[j] \notin {"none", "done"}
                        /\ \E p \in JobPoint \ {"none", "done"} : pc' = [pc EXCEPT ![j] = p]

LEMMA ConstantsST == MaxCommands \in Nat /\ Job = 1 .. MaxCommands
  BY StrategyTestingAssumption DEF Job

-----------------------------------------------------------------------------
LEMMA InitJobInv == STInit => JobInv
<1> SUFFICES ASSUME STInit PROVE JobInv
  OBVIOUS
<1>1. pc = [j \in Job |-> "none"] /\ cancelled = {} /\ arrived = 0
  BY DEF STInit
<1>2. currentTestJob = 0 /\ isRunning = FALSE
  BY DEF STInit
<1>3. OneTest
  BY <1>1, <1>2 DEF OneTest, Live
<1>4. pc \in [Job -> JobPoint]
  BY <1>1 DEF JobPoint
<1>5. arrived \in 0 .. MaxCommands /\ currentTestJob \in 0 .. arrived
  BY <1>1, <1>2, ConstantsST
<1>6. \A j \in Job : pc[j] = "none" /\ j \notin cancelled
  BY <1>1
<1> QED
  BY <1>1, <1>2, <1>3, <1>4, <1>5, <1>6 DEF JobInv

LEMMA QuietStep ==
  ASSUME JobInv, JobsKept, UNCHANGED pc \/ Moves
  PROVE  JobInv'
  <1>1. CASE UNCHANGED pc
    BY <1>1 DEF JobInv, JobsKept, OneTest, Live
  <1>2. CASE Moves
    <2>1. PICK j \in Job, p \in JobPoint \ {"none", "done"} :
            pc[j] \notin {"none", "done"} /\ pc' = [pc EXCEPT ![j] = p]
      BY <1>2 DEF Moves
    <2>2. \A i \in Job : Live(i)' <=> Live(i)
      BY <2>1 DEF JobInv, Live
    <2>3. pc' \in [Job -> JobPoint] /\ \A i \in Job : pc[i] = "none" => pc'[i] = "none"
      BY <2>1 DEF JobInv
    <2> QED  BY <2>2, <2>3 DEF JobInv, JobsKept, OneTest
  <1> QED  BY <1>1, <1>2

\* A new job takes over from the one that was current, if any.
LEMMA LaunchStep ==
  ASSUME JobInv, NEW ss, Launch(ss), arrived < MaxCommands, arrived' = arrived + 1
  PROVE  JobInv'
  <1> DEFINE n == arrived + 1
  <1>1. n \in Job /\ n \in 1 .. MaxCommands /\ arrived \in Nat
    BY ConstantsST DEF JobInv
  <1>2. pc[n] = "none" /\ n \notin cancelled
    BY <1>1, ConstantsST DEF JobInv
  <1>3. pc' = [pc EXCEPT ![n] = "posted"] /\ currentTestJob' = n /\ isRunning' = TRUE
    BY DEF Launch
  <1>4. cancelled' = cancelled \cup {j \in Job : j = currentTestJob /\ Live(j)}
    BY DEF Launch, CancelCurrent
  <1>5. pc' \in [Job -> JobPoint] /\ pc'[n] = "posted" /\ \A j \in Job : j # n => pc'[j] = pc[j]
    BY <1>1, <1>3 DEF JobInv, JobPoint
  <1>6. n \notin cancelled' /\ cancelled' \subseteq Job
    BY <1>2, <1>4 DEF Live, JobInv
  <1>7. ASSUME NEW j \in Job
        PROVE  (Live(j) /\ j \notin cancelled <=> isRunning /\ currentTestJob = j)'
    <2>1. CASE j = n
      BY <2>1, <1>3, <1>5, <1>6 DEF Live
    <2>2. CASE j # n
      <3>1. pc'[j] = pc[j] /\ currentTestJob' # j
        BY <2>2, <1>3, <1>5
      <3>2. Live(j) /\ j \notin cancelled => currentTestJob = j
        BY DEF JobInv, OneTest
      <3> QED  BY <3>1, <3>2, <1>4 DEF Live
    <2> QED  BY <2>1, <2>2
  <1>8. ASSUME NEW j \in Job, j > n  PROVE pc'[j] = "none" /\ j \notin cancelled'
    <2>1. j > arrived /\ j # n
      BY <1>1, <1>8, ConstantsST
    <2>2. pc[j] = "none" /\ j \notin cancelled
      BY <2>1 DEF JobInv
    <2> QED  BY <2>1, <2>2, <1>4, <1>5 DEF Live
  <1>9. arrived' \in 0 .. MaxCommands /\ currentTestJob' \in 0 .. arrived'
    BY <1>1, <1>3
  <1> QED  BY <1>3, <1>5, <1>6, <1>7, <1>8, <1>9 DEF JobInv, OneTest

\* A command that is ignored only raises the count.
LEMMA IgnoredStep ==
  ASSUME JobInv, UNCHANGED <<isRunning, currentTestJob, cancelled, pc>>,
         arrived < MaxCommands, arrived' = arrived + 1
  PROVE  JobInv'
  <1>1. arrived' \in 0 .. MaxCommands /\ currentTestJob' \in 0 .. arrived'
    BY ConstantsST DEF JobInv
  <1>2. \A j \in Job : j > arrived' => j > arrived
    BY ConstantsST DEF JobInv
  <1>3. OneTest'
    BY DEF JobInv, OneTest, Live
  <1> QED  BY <1>1, <1>2, <1>3 DEF JobInv

\* STOP and the destruction of the service leave no job that lives and is not cancelled.
LEMMA HaltStep ==
  ASSUME JobInv, Halt, UNCHANGED <<pc, arrived>>,
         \A j \in Job : Live(j) => j \in cancelled',
         \A j \in Job : j \in cancelled' => j \in cancelled \/ Live(j),
         cancelled' \subseteq Job
  PROVE  JobInv'
  <1>1. isRunning' = FALSE /\ currentTestJob' = 0
    BY DEF Halt
  <1>2. \A j \in Job : Live(j)' <=> Live(j)
    BY DEF Live
  <1>3. OneTest'
    BY <1>1, <1>2 DEF OneTest
  <1>4. \A j \in Job : j > arrived' => pc'[j] = "none" /\ j \notin cancelled'
    BY DEF JobInv, Live
  <1>5. currentTestJob' \in 0 .. arrived'
    BY <1>1, ConstantsST DEF JobInv
  <1> QED  BY <1>1, <1>3, <1>4, <1>5 DEF JobInv

\* A job ends.  If it is not the current one then it was cancelled.
LEMMA FinishStep ==
  ASSUME JobInv, NEW j \in Job, Live(j), pc' = [pc EXCEPT ![j] = "done"],
         UNCHANGED <<cancelled, arrived, currentTestJob>>,
         \/ currentTestJob = j /\ isRunning' = FALSE
         \/ j \in cancelled /\ UNCHANGED isRunning
         \/ currentTestJob # j /\ UNCHANGED isRunning
  PROVE  JobInv'
  <1>1. pc' \in [Job -> JobPoint] /\ pc'[j] = "done" /\ \A i \in Job : i # j => pc'[i] = pc[i]
    BY DEF JobInv, JobPoint
  <1>2. ~Live(j)' /\ \A i \in Job : i # j => (Live(i)' <=> Live(i))
    BY <1>1 DEF Live
  <1>3. \A i \in Job : Live(i) /\ i \notin cancelled <=> isRunning /\ currentTestJob = i
    BY DEF JobInv, OneTest
  <1>4. isRunning' \in BOOLEAN
    BY DEF JobInv
  <1>5. ASSUME NEW i \in Job
        PROVE  (Live(i) /\ i \notin cancelled <=> isRunning /\ currentTestJob = i)'
    <2>1. CASE i = j
      BY <2>1, <1>2, <1>3
    <2>2. CASE i # j
      BY <2>2, <1>2, <1>3
    <2> QED  BY <2>1, <2>2
  <1>6. \A i \in Job : i > arrived' => pc'[i] = "none" /\ i \notin cancelled'
    <2>1. pc[j] # "none"
      BY DEF Live
    <2> QED  BY <2>1, <1>1 DEF JobInv
  <1> QED  BY <1>1, <1>4, <1>5, <1>6 DEF JobInv, OneTest

-----------------------------------------------------------------------------
\* The commands.
LEMMA CommandStep ==
  ASSUME JobInv, StartBatch \/ StopTest \/ Destroy \/ \E s \in Strategy : StartTest(s)
  PROVE  JobInv'
  <1>1. CASE StartBatch
    <2>1. CASE isRunning /\ status.isRunning
      BY <1>1, <2>1, IgnoredStep DEF StartBatch, service, tester
    <2>2. CASE ~(isRunning /\ status.isRunning)
      BY <1>1, <2>2, LaunchStep DEF StartBatch
    <2> QED  BY <2>1, <2>2
  <1>2. CASE \E s \in Strategy : StartTest(s)
    <2>1. PICK s \in Strategy : StartTest(s)
      BY <1>2
    <2>2. CASE isRunning /\ status.strategy = s /\ status.isRunning
      BY <2>1, <2>2, IgnoredStep DEF StartTest, service, tester
    <2>3. CASE ~(isRunning /\ status.strategy = s /\ status.isRunning)
      BY <2>1, <2>3, LaunchStep DEF StartTest
    <2> QED  BY <2>2, <2>3
  <1>3. CASE StopTest
    <2>1. Halt /\ UNCHANGED <<pc, arrived>>
      BY <1>3 DEF StopTest, work
    <2>2. cancelled' = cancelled \cup {j \in Job : j = currentTestJob /\ Live(j)}
      BY <1>3 DEF StopTest, CancelCurrent
    <2>3. \A j \in Job : Live(j) => j \in cancelled'
      BY <2>2 DEF JobInv, OneTest
    <2>4. cancelled' \subseteq Job /\ \A j \in Job : j \in cancelled' => j \in cancelled \/ Live(j)
      BY <2>2 DEF JobInv
    <2> QED  BY <2>1, <2>3, <2>4, HaltStep
  <1>4. CASE Destroy
    <2>1. Halt /\ UNCHANGED <<pc, arrived>>
      BY <1>4 DEF Destroy, work
    <2>2. cancelled' = cancelled \cup {j \in Job : Live(j)}
      BY <1>4 DEF Destroy
    <2>3. cancelled' \subseteq Job
      BY <2>2 DEF JobInv
    <2> QED  BY <2>1, <2>2, <2>3, HaltStep
  <1> QED  BY <1>1, <1>2, <1>3, <1>4

\* The steps inside a job that goes on.
LEMMA InsideStep ==
  ASSUME JobInv, NEW j \in Job,
         \E p, q \in JobPoint \ {"none", "done"} : Go(j, p, q),
         UNCHANGED Resting
  PROVE  JobInv'
  <1>1. Moves
    BY DEF Moves, Go
  <1>2. JobsKept
    BY DEF JobsKept, Resting, service, work
  <1> QED  BY <1>1, <1>2, QuietStep

\* A strategy is entered from "posted" or from the one before it.
LEMMA EnterStep ==
  ASSUME JobInv, NEW j \in Job, NEW k, pc[j] \in {"posted", "leave"}, Enter(j, k),
         UNCHANGED <<isRunning, currentTestJob, cancelled, arrived>>
  PROVE  JobInv'
  <1>1. pc' = [pc EXCEPT ![j] = "settings"]
    BY DEF Enter
  <1>2. Moves
    BY <1>1 DEF Moves, JobPoint
  <1> QED  BY <1>2, QuietStep DEF JobsKept

LEMMA TestReturnsStep ==
  ASSUME JobInv, NEW j \in Job, TestReturns(j)
  PROVE  JobInv'
  <1>1. pc[j] = "leave" /\ Live(j) /\ UNCHANGED <<cancelled, arrived>>
    BY DEF TestReturns, Live, work
  <1>2. CASE Enter(j, round[j] + 1) /\ UNCHANGED <<isRunning, currentTestJob, stopping>>
    BY <1>1, <1>2, EnterStep
  <1>3. CASE Finish(j)
    <2>1. pc' = [pc EXCEPT ![j] = "done"] /\ UNCHANGED currentTestJob
      BY <1>3 DEF Finish, service
    <2>2. \/ currentTestJob = j /\ isRunning' = FALSE
          \/ currentTestJob # j /\ UNCHANGED isRunning
      BY <1>3 DEF Finish, service
    <2> QED  BY <1>1, <2>1, <2>2, FinishStep
  <1> QED  BY <1>2, <1>3 DEF TestReturns

LEMMA BeginStep ==
  ASSUME JobInv, NEW j \in Job, Begin(j)
  PROVE  JobInv'
  <1>1. pc[j] = "posted" /\ Live(j) /\ UNCHANGED <<cancelled, arrived>>
    BY DEF Begin, Live, work
  <1>2. CASE j \in cancelled
    BY <1>1, <1>2, FinishStep DEF Begin, service
  <1>3. CASE j \notin cancelled
    BY <1>1, <1>3, EnterStep DEF Begin
  <1> QED  BY <1>2, <1>3

LEMMA JobStep ==
  ASSUME JobInv, NEW j \in Job, Step(j)
  PROVE  JobInv'
  <1> DEFINE Point == JobPoint \ {"none", "done"}
  <1>1. CASE Begin(j)
    BY <1>1, BeginStep
  <1>2. CASE TestReturns(j)
    BY <1>2, TestReturnsStep
  <1>3. CASE ReadSettings(j) \/ TestDirectly(j) \/ PortFree(j) \/ PortTaken(j) \/ PortClosed(j)
             \/ Recheck(j) \/ CloseOld(j) \/ InitFails(j) \/ OldClosed(j)
    <2>1. (\E p, q \in Point : Go(j, p, q)) /\ UNCHANGED Resting
      BY <1>3 DEF ReadSettings, TestDirectly, PortFree, PortTaken, PortClosed, Recheck, CloseOld,
                  InitFails, OldClosed, JobPoint
    <2> QED  BY <2>1, InsideStep
  <1>4. CASE LaunchProxy(j) \/ Ready(j) \/ NotReady(j) \/ Joined(j) \/ ChecksDone(j)
             \/ ForceStop(j) \/ Stopped(j) \/ Released(j) \/ Abandon(j)
    <2>1. (\E p, q \in Point : Go(j, p, q)) /\ UNCHANGED Resting
      BY <1>4 DEF LaunchProxy, Ready, NotReady, Joined, ChecksDone, ForceStop, Stopped, Released,
                  Abandon, CancelPoint, JobPoint
    <2> QED  BY <2>1, InsideStep
  <1> QED  BY <1>1, <1>2, <1>3, <1>4 DEF Step

\* Nobody else moves a job or enters another strategy.
Others ==
  \/ \E j \in Job : \/ ProxyDispatched(j) \/ ProxyStart(j) \/ ProxyReturns(j)
                    \/ \E w \in Sites : CheckStep(j, w)
  \/ \E s \in Session : EngineStep(s) \/ EngineFails(s)
  \/ VpnStarts \/ VpnReturns
  \/ StartVpn \/ TestsAwaited \/ ForcePort \/ PortForced \/ SendStart

LEMMA OthersEffect ==
  ASSUME Others
  PROVE  UNCHANGED <<pc, round, isRunning, currentTestJob, stopping, cancelled, work>>
  <1>1. CASE \E j \in Job : ProxyDispatched(j) \/ ProxyStart(j) \/ ProxyReturns(j)
    BY <1>1 DEF ProxyDispatched, ProxyStart, ProxyReturns, service
  <1>2. CASE \E j \in Job, w \in Sites : CheckStep(j, w)
    BY <1>2 DEF CheckStep, Checked, Report, ReadStatus, WriteStatus, service, tester
  <1>3. CASE (\E s \in Session : EngineStep(s) \/ EngineFails(s)) \/ VpnStarts \/ VpnReturns
    BY <1>3 DEF EngineStep, EngineFails, VpnStarts, VpnReturns, Serving, service, tester
  <1>4. CASE StartVpn \/ TestsAwaited \/ ForcePort \/ PortForced \/ SendStart
    BY <1>4 DEF StartVpn, TestsAwaited, ForcePort, PortForced, SendStart, service, tester
  <1> QED  BY <1>1, <1>2, <1>3, <1>4 DEF Others

\* The coroutine around proxy.start, the checks, the engines, the VPN and its controller.
LEMMA OtherStep ==
  ASSUME JobInv, Others
  PROVE  JobInv'
  BY OthersEffect, QuietStep DEF JobsKept, work

-----------------------------------------------------------------------------
\* Each step keeps the invariant.
LEMMA JobInvStep ==
  ASSUME JobInv, [STNext]_vars
  PROVE  JobInv'
  <1>1. CASE StartBatch \/ StopTest \/ Destroy \/ \E s \in Strategy : StartTest(s)
    BY <1>1, CommandStep
  <1>2. CASE \E j \in Job : Step(j)
    BY <1>2, JobStep
  <1>3. CASE Others
    BY <1>3, OtherStep
  <1>4. CASE UNCHANGED vars
    BY <1>4, QuietStep DEF vars, service, work, tester, JobsKept
  <1> QED  BY <1>1, <1>2, <1>3, <1>4 DEF STNext, Others

\* The flag and the current job agree with the jobs that live in every reachable state,
\* for any number of commands, sites and strategies, whatever waits give up
\* (TestingService.kt: 92, 134, 188, 220, 325).
THEOREM OneTestAlways == STSpec => []OneTest
<1>1. STInit => JobInv
  BY InitJobInv
<1>2. JobInv /\ [STNext]_vars => JobInv'
  BY JobInvStep
<1>3. JobInv => OneTest
  BY DEF JobInv
<1> QED  BY <1>1, <1>2, <1>3, PTL DEF STSpec

-----------------------------------------------------------------------------
(* What the steps of each actor leave alone; the proofs below cite it.      *)

\* A command starts one job or none, and touches nothing of the others but their
\* cancellation.
LEMMA CommandEffect ==
  ASSUME JobInv, StartBatch \/ StopTest \/ Destroy \/ \E s \in Strategy : StartTest(s)
  PROVE  /\ UNCHANGED <<round, proxyJob, checks, control, lateStart, evars>>
         /\ cancelled \subseteq cancelled'
         /\ \/ UNCHANGED <<pc, todo>> /\ arrived' \in {arrived, arrived + 1}
            \/ \E ss \in Seq(Strategy) :
                 /\ ss # <<>> /\ Len(ss) <= Len(Batch) /\ arrived < MaxCommands
                 /\ arrived' = arrived + 1
                 /\ todo' = [todo EXCEPT ![arrived + 1] = ss]
                 /\ pc' = [pc EXCEPT ![arrived + 1] = "posted"]
  <1>1. Batch \in Seq(Strategy) /\ Batch # <<>> /\ Len(Batch) <= Len(Batch)
    BY StrategyTestingAssumption
  <1>2. \A s \in Strategy : <<s>> \in Seq(Strategy) /\ <<s>> # <<>> /\ Len(<<s>>) <= Len(Batch)
    BY <1>1
  <1>3. CASE StartBatch
    <2>1. CASE isRunning /\ status.isRunning
      BY <1>3, <2>1 DEF StartBatch, service, tester
    <2>2. CASE ~(isRunning /\ status.isRunning)
      BY <1>1, <1>3, <2>2 DEF StartBatch, Launch, CancelCurrent
    <2> QED  BY <2>1, <2>2
  <1>4. CASE \E s \in Strategy : StartTest(s)
    <2>1. PICK s \in Strategy : StartTest(s)
      BY <1>4
    <2>2. CASE isRunning /\ status.strategy = s /\ status.isRunning
      BY <2>1, <2>2 DEF StartTest, service, tester
    <2>3. CASE ~(isRunning /\ status.strategy = s /\ status.isRunning)
      BY <1>2, <2>1, <2>3 DEF StartTest, Launch, CancelCurrent
    <2> QED  BY <2>2, <2>3
  <1>5. CASE StopTest
    BY <1>5 DEF StopTest, CancelCurrent, work
  <1>6. CASE Destroy
    BY <1>6 DEF Destroy, work
  <1> QED  BY <1>3, <1>4, <1>5, <1>6

\* A step of a job moves that job alone and cancels nobody.
LEMMA JobEffect ==
  ASSUME NEW j \in Job, Step(j)
  PROVE  /\ UNCHANGED <<work, cancelled, control, lateStart>>
         /\ pc[j] \notin {"none", "done"}
         /\ \E q \in JobPoint \ {"none"} : pc' = [pc EXCEPT ![j] = q]
         /\ UNCHANGED round \/ \E k : round' = [round EXCEPT ![j] = k]
         /\ UNCHANGED proxyJob \/ \E p : proxyJob' = [proxyJob EXCEPT ![j] = p]
  <1>1. CASE Begin(j) \/ TestReturns(j)
    BY <1>1 DEF Begin, TestReturns, Enter, Finish, work, service, JobPoint
  <1>2. CASE ReadSettings(j) \/ TestDirectly(j) \/ PortFree(j) \/ PortTaken(j) \/ PortClosed(j)
             \/ Recheck(j) \/ CloseOld(j) \/ InitFails(j) \/ OldClosed(j)
    BY <1>2 DEF ReadSettings, TestDirectly, PortFree, PortTaken, PortClosed, Recheck, CloseOld,
                InitFails, OldClosed, JobPoint, Go, Resting
  <1>3. CASE LaunchProxy(j) \/ Ready(j) \/ NotReady(j) \/ Joined(j) \/ ChecksDone(j)
             \/ ForceStop(j) \/ Stopped(j) \/ Released(j) \/ Abandon(j)
    BY <1>3 DEF LaunchProxy, Ready, NotReady, Joined, ChecksDone, ForceStop, Stopped, Released,
                Abandon, CancelPoint, JobPoint, Go, Resting
  <1> QED  BY <1>1, <1>2, <1>3 DEF Step

\* Inside a strategy the job stays with it.
LEMMA InsideKeeps ==
  ASSUME NEW j \in Job, Step(j), ~Begin(j), ~TestReturns(j)
  PROVE  UNCHANGED <<service, round>>
  <1>1. CASE ReadSettings(j) \/ TestDirectly(j) \/ PortFree(j) \/ PortTaken(j) \/ PortClosed(j)
             \/ Recheck(j) \/ CloseOld(j) \/ InitFails(j) \/ OldClosed(j)
    BY <1>1 DEF ReadSettings, TestDirectly, PortFree, PortTaken, PortClosed, Recheck, CloseOld,
                InitFails, OldClosed, Resting
  <1>2. CASE LaunchProxy(j) \/ Ready(j) \/ NotReady(j) \/ Joined(j) \/ ChecksDone(j)
             \/ ForceStop(j) \/ Stopped(j) \/ Released(j) \/ Abandon(j)
    BY <1>2 DEF LaunchProxy, Ready, NotReady, Joined, ChecksDone, ForceStop, Stopped, Released,
                Abandon, Resting
  <1> QED  BY <1>1, <1>2 DEF Step

\* Only the checks count.
LEMMA OthersChecks ==
  ASSUME Others, ~\E j \in Job, w \in Sites : CheckStep(j, w)
  PROVE  UNCHANGED <<checks, status>>
  <1>1. CASE \E j \in Job : ProxyDispatched(j) \/ ProxyStart(j) \/ ProxyReturns(j)
    BY <1>1 DEF ProxyDispatched, ProxyStart, ProxyReturns, service
  <1>2. CASE (\E s \in Session : EngineStep(s) \/ EngineFails(s)) \/ VpnStarts \/ VpnReturns
    BY <1>2 DEF EngineStep, EngineFails, VpnStarts, VpnReturns, Serving, service
  <1>3. CASE StartVpn \/ TestsAwaited \/ ForcePort \/ PortForced \/ SendStart
    BY <1>3 DEF StartVpn, TestsAwaited, ForcePort, PortForced, SendStart, service
  <1> QED  BY <1>1, <1>2, <1>3 DEF Others

\* The step of the whole system, by actor.
LEMMA NextByActor ==
  STNext <=> \/ StartBatch \/ StopTest \/ Destroy \/ \E s \in Strategy : StartTest(s)
             \/ \E j \in Job : Step(j)
             \/ Others
  BY DEF STNext, Others

-----------------------------------------------------------------------------
(* The engines of the tests and of the VPN are engines of ProxyEngine.      *)

\* Every job that arrived has strategies, and is at one of the batch's places.
WorkInv ==
  /\ round \in [Job -> DOMAIN Batch]
  /\ todo \in [Job -> Seq(Strategy)]
  /\ \A j \in Job : /\ Len(todo[j]) <= Len(Batch)
                    /\ pc[j] # "none" => todo[j] # <<>>

LEMMA InitWorkInv == STInit => WorkInv
  <1> SUFFICES ASSUME STInit PROVE WorkInv
    OBVIOUS
  <1>1. Batch \in Seq(Strategy) /\ Batch # <<>>
    BY StrategyTestingAssumption
  <1>2. 1 \in DOMAIN Batch /\ Len(Batch) \in Nat
    BY <1>1
  <1>3. todo = [j \in Job |-> <<>>] /\ round = [j \in Job |-> 1] /\ pc = [j \in Job |-> "none"]
    BY DEF STInit
  <1>4. <<>> \in Seq(Strategy) /\ Len(<<>>) = 0
    OBVIOUS
  <1> QED  BY <1>2, <1>3, <1>4 DEF WorkInv

\* The next strategy is one of the job's.
LEMMA EnterWork ==
  ASSUME JobInv, WorkInv, NEW j \in Job, NEW k \in 1 .. Len(todo[j]), Enter(j, k), UNCHANGED todo,
         pc[j] # "none"
  PROVE  WorkInv'
  <1>1. Batch \in Seq(Strategy) /\ Len(Batch) \in Nat /\ DOMAIN Batch = 1 .. Len(Batch)
    BY StrategyTestingAssumption
  <1>2. Len(todo[j]) \in Nat /\ Len(todo[j]) <= Len(Batch)
    BY DEF WorkInv
  <1>3. k \in DOMAIN Batch
    BY <1>1, <1>2
  <1>4. round' = [round EXCEPT ![j] = k] /\ pc' = [pc EXCEPT ![j] = "settings"]
    BY DEF Enter
  <1>5. \A i \in Job : pc'[i] # "none" => pc[i] # "none"
    BY <1>4 DEF JobInv
  <1> QED  BY <1>3, <1>4, <1>5 DEF WorkInv

LEMMA StepWork ==
  ASSUME JobInv, WorkInv, [STNext]_vars
  PROVE  WorkInv'
  <1>1. CASE StartBatch \/ StopTest \/ Destroy \/ \E s \in Strategy : StartTest(s)
    <2>1. UNCHANGED round
      BY <1>1, CommandEffect
    <2>2. CASE UNCHANGED <<pc, todo>>
      BY <2>1, <2>2 DEF WorkInv
    <2>3. CASE \E ss \in Seq(Strategy) :
                 /\ ss # <<>> /\ Len(ss) <= Len(Batch) /\ arrived < MaxCommands
                 /\ arrived' = arrived + 1
                 /\ todo' = [todo EXCEPT ![arrived + 1] = ss]
                 /\ pc' = [pc EXCEPT ![arrived + 1] = "posted"]
      BY <2>1, <2>3 DEF WorkInv, JobInv
    <2> QED  BY <1>1, <2>2, <2>3, CommandEffect
  <1>2. ASSUME NEW j \in Job, Step(j)  PROVE WorkInv'
    <2>1. UNCHANGED <<todo, cancelled>> /\ pc[j] \notin {"none", "done"}
      BY <1>2, JobEffect DEF work
    <2>2. \A i \in Job : pc'[i] # "none" => pc[i] # "none"
      BY <1>2, JobEffect DEF JobInv
    <2>3. todo[j] \in Seq(Strategy) /\ todo[j] # <<>>
      BY <2>1 DEF WorkInv
    <2>4. Len(todo[j]) \in Nat \ {0}
      BY <2>3
    <2>5. CASE Begin(j)
      <3>1. 1 \in 1 .. Len(todo[j])
        BY <2>4
      <3>2. CASE j \in cancelled
        BY <2>1, <2>2, <2>5, <3>2 DEF Begin, WorkInv
      <3> QED  BY <2>1, <2>5, <3>1, <3>2, EnterWork DEF Begin
    <2>6. CASE TestReturns(j)
      <3>1. CASE j \notin cancelled /\ round[j] < Len(todo[j])
        <4>1. round[j] \in Nat
          BY StrategyTestingAssumption DEF WorkInv
        <4>2. round[j] + 1 \in 1 .. Len(todo[j])
          BY <2>4, <3>1, <4>1
        <4> QED  BY <2>1, <2>6, <3>1, <4>2, EnterWork DEF TestReturns
      <3>2. CASE ~(j \notin cancelled /\ round[j] < Len(todo[j]))
        BY <2>1, <2>2, <2>6, <3>2 DEF TestReturns, WorkInv
      <3> QED  BY <3>1, <3>2
    <2>7. CASE ~Begin(j) /\ ~TestReturns(j)
      <3>1. UNCHANGED round
        BY <1>2, <2>7, InsideKeeps
      <3> QED  BY <2>1, <2>2, <3>1 DEF WorkInv
    <2> QED  BY <2>5, <2>6, <2>7
  <1>3. CASE Others
    BY <1>3, OthersEffect DEF WorkInv, work
  <1>4. CASE UNCHANGED vars
    BY <1>4 DEF vars, work, tester, WorkInv
  <1> QED  BY <1>1, <1>2, <1>3, <1>4, NextByActor

LEMMA Sessions ==
  /\ \A j \in Job, k \in DOMAIN Batch : <<j, k>> \in Session /\ <<j, k>> # VPN
  /\ \A s \in Session \ {VPN} : \E j \in Job, k \in DOMAIN Batch : s = <<j, k>>
  /\ VPN \in Session
  <1>1. Session = (Job \X DOMAIN Batch) \cup {VPN}
    BY StrategyTestingAssumption
  <1>2. \A j \in Job : j # 0
    BY ConstantsST
  <1> QED  BY <1>1, <1>2 DEF VPN

\* byedpi_stop and jniForceClose are steps of the engine, or none.
LEMMA StopIsEngineStep ==
  ASSUME StopEngine \/ ForceWaited
  PROVE  /\ [PENext]_evars
         /\ \A s \in Session : phase[s] = "out" => phase' = phase \/ phase'[s] = "out"
  <1>1. CASE \E s \in Session : PhaseStep(s, "serve", "quit") /\ UNCHANGED <<running, wasReset>>
    <2>1. PICK s \in Session : PhaseStep(s, "serve", "quit") /\ UNCHANGED <<running, wasReset>>
      BY <1>1
    <2>2. Quit(s)
      BY <2>1 DEF Quit
    <2>3. \A t \in Session : phase[t] = "out" => phase'[t] = "out"
      BY <2>1 DEF PhaseStep
    <2> QED  BY <2>2, <2>3 DEF PENext
  <1>2. CASE UNCHANGED evars
    BY <1>2 DEF evars
  <1>3. CASE ResetFlag
    BY <1>3 DEF PENext, ResetFlag
  <1> QED  BY <1>1, <1>2, <1>3 DEF StopEngine, ForceWaited, evars

\* What a job's thread does to the engines.
LEMMA JobEngine ==
  ASSUME NEW j \in Job, Step(j)
  PROVE  UNCHANGED evars \/ StopEngine \/ ForceWaited
  <1>1. CASE Begin(j) \/ TestReturns(j)
    BY <1>1 DEF Begin, TestReturns
  <1>2. CASE ReadSettings(j) \/ TestDirectly(j) \/ PortFree(j) \/ PortTaken(j) \/ PortClosed(j)
             \/ Recheck(j) \/ CloseOld(j) \/ InitFails(j) \/ OldClosed(j)
    BY <1>2 DEF ReadSettings, TestDirectly, PortFree, PortTaken, PortClosed, Recheck, CloseOld,
                InitFails, OldClosed
  <1>3. CASE LaunchProxy(j) \/ Ready(j) \/ NotReady(j) \/ Joined(j) \/ ChecksDone(j)
             \/ ForceStop(j) \/ Stopped(j) \/ Released(j) \/ Abandon(j)
    BY <1>3 DEF LaunchProxy, Ready, NotReady, Joined, ChecksDone, ForceStop, Stopped, Released,
                Abandon
  <1> QED  BY <1>1, <1>2, <1>3 DEF Step

LEMMA OthersEngine ==
  ASSUME WorkInv, Others
  PROVE  [PENext]_evars
  <1>1. ASSUME NEW j \in Job, ProxyDispatched(j) \/ \E w \in Sites : CheckStep(j, w)
        PROVE  UNCHANGED evars
    BY <1>1 DEF ProxyDispatched, CheckStep, Checked, Report, ReadStatus, WriteStatus
  <1>2. ASSUME NEW j \in Job, ProxyStart(j) \/ ProxyReturns(j)
        PROVE  UNCHANGED evars \/ Start(Engine(j)) \/ Return(Engine(j))
    BY <1>2 DEF ProxyStart, ProxyReturns
  <1>3. \A j \in Job : Engine(j) \in Session
    BY Sessions DEF WorkInv, Engine
  <1>4. CASE \E s \in Session : EngineStep(s) \/ EngineFails(s)
    <2>1. PICK s \in Session : EngineStep(s) \/ EngineFails(s)
      BY <1>4
    <2>2. Bind(s) \/ Announce(s) \/ Quit(s)
      BY <2>1 DEF EngineStep, EngineFails, BindPort
    <2> QED  BY <2>2 DEF PENext
  <1>5. CASE VpnStarts \/ VpnReturns
    <2>1. Start(VPN) \/ Return(VPN)
      BY <1>5 DEF VpnStarts, VpnReturns
    <2> QED  BY <2>1, Sessions DEF PENext
  <1>6. CASE StartVpn \/ TestsAwaited \/ ForcePort \/ PortForced \/ SendStart
    <2>1. UNCHANGED evars \/ StopEngine \/ ForceWaited
      BY <1>6 DEF StartVpn, TestsAwaited, ForcePort, PortForced, SendStart
    <2> QED  BY <2>1, StopIsEngineStep
  <1>7. CASE \E j \in Job : ProxyStart(j) \/ ProxyReturns(j)
    BY <1>2, <1>3, <1>7 DEF PENext
  <1> QED  BY <1>1, <1>4, <1>5, <1>6, <1>7 DEF Others

\* The tests, their engines and the engine of the VPN behave as ProxyEngine says: the
\* abstract specification of the native engine, for which the one-engine promise is
\* proved, is what the strategy tests are built on (StrategyTester.kt: 76-244).
THEOREM TestsUseEngine == STSpec => PESpec
<1>1. STInit => JobInv /\ WorkInv /\ PEInit
  BY InitJobInv, InitWorkInv DEF STInit
<1>2. JobInv /\ [STNext]_vars => JobInv'
  BY JobInvStep
<1>3. JobInv /\ WorkInv /\ [STNext]_vars => WorkInv'
  BY StepWork
<1>4. JobInv /\ WorkInv /\ [STNext]_vars => [PENext]_evars
  <2> SUFFICES ASSUME JobInv, WorkInv, [STNext]_vars PROVE [PENext]_evars
    OBVIOUS
  <2>1. CASE StartBatch \/ StopTest \/ Destroy \/ \E s \in Strategy : StartTest(s)
    BY <2>1, CommandEffect
  <2>2. ASSUME NEW j \in Job, Step(j) PROVE [PENext]_evars
    BY <2>2, JobEngine, StopIsEngineStep
  <2>3. CASE Others
    BY <2>3, OthersEngine
  <2>4. CASE UNCHANGED vars
    BY <2>4 DEF vars
  <2> QED  BY <2>1, <2>2, <2>3, <2>4, NextByActor
<1> QED  BY <1>1, <1>2, <1>3, <1>4, PTL DEF STSpec, PESpec

-----------------------------------------------------------------------------
(* The engines of one job.                                                 *)

\* Control points at which the coroutine around proxy.start may not have ended.
Launched == {"ready", "unready", "checks", "stop", "stopWait", "join", "leave"}

\* A thread is in byedpi_main exactly for the strategy the job is at, and the job
\* cannot leave that strategy before the coroutine around the thread has ended.
EngineInv ==
  /\ proxyJob \in [Job -> {"none", "posted", "start", "main", "done"}]
  /\ \A j \in Job, k \in DOMAIN Batch :
       phase[<<j, k>>] # "out" => k = round[j] /\ proxyJob[j] = "main"
  /\ \A j \in Job : ~ChildGone(j) => pc[j] \in Launched

\* No engine enters byedpi_main.
NoneEnters == \A s \in Session : phase[s] = "out" => phase'[s] = "out"

LEMMA QuietEngines ==
  ASSUME EngineInv, NoneEnters, UNCHANGED <<round, proxyJob>>,
         \A j \in Job : pc[j] \in Launched /\ ~ChildGone(j) => pc'[j] \in Launched
  PROVE  EngineInv'
  <1>1. \A j \in Job, k \in DOMAIN Batch : <<j, k>> \in Session
    BY Sessions
  <1>2. \A j \in Job, k \in DOMAIN Batch : phase'[<<j, k>>] # "out" => phase[<<j, k>>] # "out"
    BY <1>1 DEF NoneEnters
  <1> QED  BY <1>2 DEF EngineInv, ChildGone

LEMMA JobEntersNone ==
  ASSUME NEW j \in Job, Step(j)
  PROVE  NoneEnters
  <1>1. CASE UNCHANGED evars
    BY <1>1 DEF evars, NoneEnters
  <1>2. CASE StopEngine \/ ForceWaited
    BY <1>2, StopIsEngineStep DEF NoneEnters
  <1> QED  BY <1>1, <1>2, JobEngine

\* A job whose child is gone has no engine, and may go to any strategy.
LEMMA EnterEngines ==
  ASSUME EngineInv, JobInv, NEW j \in Job, NoneEnters, ChildGone(j),
         NEW k, NEW q, pc' = [pc EXCEPT ![j] = q],
         round' = [round EXCEPT ![j] = k], proxyJob' = [proxyJob EXCEPT ![j] = "none"],
         WorkInv
  PROVE  EngineInv'
  <1>1. \A i \in Job, n \in DOMAIN Batch : <<i, n>> \in Session
    BY Sessions
  <1>2. \A n \in DOMAIN Batch : phase'[<<j, n>>] = "out"
    <2>1. proxyJob[j] # "main"
      BY DEF ChildGone
    <2>2. \A n \in DOMAIN Batch : phase[<<j, n>>] = "out"
      BY <2>1 DEF EngineInv
    <2> QED  BY <1>1, <2>2 DEF NoneEnters
  <1>3. proxyJob' \in [Job -> {"none", "posted", "start", "main", "done"}] /\ proxyJob'[j] = "none"
    BY DEF EngineInv
  <1>4. \A i \in Job : i # j => /\ round'[i] = round[i] /\ proxyJob'[i] = proxyJob[i] /\ pc'[i] = pc[i]
    BY DEF EngineInv, JobInv, WorkInv
  <1>5. ASSUME NEW i \in Job, NEW n \in DOMAIN Batch, phase'[<<i, n>>] # "out"
        PROVE  n = round'[i] /\ proxyJob'[i] = "main"
    <2>1. i # j /\ phase[<<i, n>>] # "out"
      BY <1>1, <1>2, <1>5 DEF NoneEnters
    <2> QED  BY <1>4, <2>1 DEF EngineInv
  <1>6. \A i \in Job : ~ChildGone(i)' => pc'[i] \in Launched
    BY <1>3, <1>4 DEF EngineInv, ChildGone
  <1> QED  BY <1>3, <1>5, <1>6 DEF EngineInv

LEMMA JobEngines ==
  ASSUME JobInv, WorkInv, EngineInv, NEW j \in Job, Step(j)
  PROVE  EngineInv'
  <1>1. NoneEnters
    BY JobEntersNone
  <1>2. pc \in [Job -> JobPoint] /\ \A i \in Job : i # j => pc'[i] = pc[i]
    BY JobEffect DEF JobInv
  <1>3. ~ChildGone(j) => pc[j] \in Launched
    BY DEF EngineInv
  <1>4. CASE Begin(j)
    <2>1. pc[j] = "posted" /\ ChildGone(j)
      BY <1>3, <1>4 DEF Begin, Launched
    <2>2. CASE j \in cancelled
      <3>1. UNCHANGED <<round, proxyJob>>
        BY <1>4, <2>2 DEF Begin
      <3> QED  BY <1>1, <1>2, <2>1, <3>1, QuietEngines
    <2>3. CASE j \notin cancelled
      BY <1>1, <1>4, <2>1, <2>3, EnterEngines DEF Begin, Enter
    <2> QED  BY <2>2, <2>3
  <1>5. CASE TestReturns(j)
    <2>1. ChildGone(j)
      BY <1>5 DEF TestReturns
    <2>2. CASE j \notin cancelled /\ round[j] < Len(todo[j])
      BY <1>1, <1>5, <2>1, <2>2, EnterEngines DEF TestReturns, Enter
    <2>3. CASE ~(j \notin cancelled /\ round[j] < Len(todo[j]))
      <3>1. UNCHANGED <<round, proxyJob>>
        BY <1>5, <2>3 DEF TestReturns
      <3> QED  BY <1>1, <1>2, <2>1, <3>1, QuietEngines
    <2> QED  BY <2>2, <2>3
  <1>6. CASE LaunchProxy(j)
    <2>1. pc[j] = "closed" /\ pc'[j] = "ready" /\ UNCHANGED <<round, evars>>
      BY <1>2, <1>6 DEF LaunchProxy, Go
    <2>2. ChildGone(j)
      BY <1>3, <2>1 DEF Launched
    <2>3. proxyJob' = [proxyJob EXCEPT ![j] = "posted"]
      BY <1>6 DEF LaunchProxy
    <2>4. proxyJob' \in [Job -> {"none", "posted", "start", "main", "done"}]
      BY <2>3 DEF EngineInv
    <2>5. \A i \in Job : i # j => proxyJob'[i] = proxyJob[i]
      BY <2>3 DEF EngineInv
    <2>6. \A k \in DOMAIN Batch : phase[<<j, k>>] = "out"
      BY <2>2 DEF EngineInv, ChildGone
    <2>7. \A i \in Job : ~ChildGone(i)' => pc'[i] \in Launched
      BY <1>2, <2>1, <2>5 DEF EngineInv, ChildGone, Launched
    <2> QED  BY <2>1, <2>4, <2>5, <2>6, <2>7 DEF EngineInv, evars
  <1>7. CASE ReadSettings(j) \/ TestDirectly(j) \/ PortFree(j) \/ PortTaken(j) \/ PortClosed(j)
             \/ Recheck(j) \/ CloseOld(j) \/ InitFails(j) \/ OldClosed(j)
    <2>1. pc[j] \notin Launched /\ UNCHANGED <<round, proxyJob>>
      BY <1>7 DEF ReadSettings, TestDirectly, PortFree, PortTaken, PortClosed, Recheck, CloseOld,
                  InitFails, OldClosed, Launched, Go
    <2> QED  BY <1>1, <1>2, <2>1, QuietEngines
  <1>8. CASE Ready(j) \/ NotReady(j) \/ Joined(j) \/ ChecksDone(j)
             \/ ForceStop(j) \/ Stopped(j) \/ Released(j) \/ Abandon(j)
    <2>1. UNCHANGED <<round, proxyJob>>
      BY <1>8 DEF Ready, NotReady, Joined, ChecksDone, ForceStop, Stopped, Released, Abandon
    <2>2. ChildGone(j) \/ pc'[j] \in Launched
      <3>1. CASE Joined(j)
        BY <3>1 DEF Joined
      <3>2. CASE Ready(j) \/ NotReady(j) \/ ForceStop(j) \/ Stopped(j) \/ Released(j) \/ Abandon(j)
        BY <1>2, <3>2 DEF Ready, NotReady, ForceStop, Stopped, Released, Abandon, Go, Launched
      <3>3. CASE ChecksDone(j)
        BY <1>2, <3>3 DEF ChecksDone, Go, Launched
      <3> QED  BY <1>8, <3>1, <3>2, <3>3
    <2> QED  BY <1>1, <1>2, <2>1, <2>2, QuietEngines
  <1> QED  BY <1>4, <1>5, <1>6, <1>7, <1>8 DEF Step

\* The thread in jniStartProxy is the one of the job's strategy.
LEMMA CoroutineEngines ==
  ASSUME JobInv, WorkInv, EngineInv, PETypeOK, NEW j \in Job,
         ProxyDispatched(j) \/ ProxyStart(j) \/ ProxyReturns(j)
  PROVE  EngineInv'
  <1>1. UNCHANGED <<pc, round>>
    BY DEF ProxyDispatched, ProxyStart, ProxyReturns
  <1>2. \E p \in {"start", "main", "done"} : proxyJob' = [proxyJob EXCEPT ![j] = p]
    BY DEF ProxyDispatched, ProxyStart, ProxyReturns, ProxyGo
  <1>3. ~ChildGone(j)
    BY DEF ProxyDispatched, ProxyStart, ProxyReturns, ProxyGo, ChildGone
  <1>4. /\ proxyJob' \in [Job -> {"none", "posted", "start", "main", "done"}]
        /\ \A i \in Job : i # j => proxyJob'[i] = proxyJob[i]
    BY <1>2 DEF EngineInv
  <1>5. \A i \in Job : ~ChildGone(i)' => pc'[i] \in Launched
    BY <1>1, <1>3, <1>4 DEF EngineInv, ChildGone
  <1>6. round[j] \in DOMAIN Batch /\ Engine(j) = <<j, round[j]>> /\ Engine(j) \in Session
    BY Sessions DEF WorkInv, Engine
  <1>7. \A i \in Job, k \in DOMAIN Batch : <<i, k>> \in Session /\ (<<i, k>> = Engine(j) <=> i = j /\ k = round[j])
    <2> TAKE i \in Job, k \in DOMAIN Batch
    <2>1. <<i, k>> = <<j, round[j]>> <=> i = j /\ k = round[j]
      OBVIOUS
    <2>2. <<i, k>> \in Session
      BY Sessions
    <2>3. Engine(j) = <<j, round[j]>>
      BY <1>6
    <2> QED  BY <2>1, <2>2, <2>3
  <1>8. ASSUME NEW i \in Job, NEW k \in DOMAIN Batch, phase'[<<i, k>>] # "out"
        PROVE  k = round'[i] /\ proxyJob'[i] = "main"
    <2>1. CASE ProxyDispatched(j)
      <3>1. UNCHANGED phase /\ proxyJob[j] = "posted"
        BY <2>1 DEF ProxyDispatched, ProxyGo, evars
      <3> QED  BY <1>1, <1>4, <1>8, <3>1 DEF EngineInv
    <2>2. CASE ProxyStart(j) /\ running
      <3>1. UNCHANGED phase /\ proxyJob[j] = "start"
        BY <2>2 DEF ProxyStart, ProxyGo, evars, Start
      <3> QED  BY <1>1, <1>4, <1>8, <3>1 DEF EngineInv
    <2>3. CASE ProxyStart(j) /\ ~running
      <3>1. phase' = [phase EXCEPT ![Engine(j)] = "boot"] /\ proxyJob' = [proxyJob EXCEPT ![j] = "main"]
        BY <2>3 DEF ProxyStart, ProxyGo, Start, PhaseStep
      <3>2. CASE i = j /\ k = round[j]
        BY <1>1, <3>1, <3>2 DEF EngineInv
      <3>3. CASE ~(i = j /\ k = round[j])
        <4>1. phase[<<i, k>>] # "out"
          BY <1>7, <1>8, <3>1, <3>3 DEF PETypeOK
        <4> QED  BY <1>1, <3>1, <4>1 DEF EngineInv
      <3> QED  BY <3>2, <3>3
    <2>4. CASE ProxyReturns(j)
      <3>1. phase' = [phase EXCEPT ![Engine(j)] = "out"]
        BY <2>4 DEF ProxyReturns, Return, PhaseStep
      <3>2. <<i, k>> # Engine(j) /\ phase[<<i, k>>] # "out"
        BY <1>6, <1>7, <1>8, <3>1 DEF PETypeOK
      <3>3. i # j
        BY <1>7, <3>2 DEF EngineInv
      <3> QED  BY <1>1, <1>4, <3>2, <3>3 DEF EngineInv
    <2> QED  BY <2>1, <2>2, <2>3, <2>4
  <1> QED  BY <1>4, <1>5, <1>8 DEF EngineInv

LEMMA EnginesStep ==
  ASSUME JobInv, WorkInv, EngineInv, PETypeOK, [STNext]_vars
  PROVE  EngineInv'
  <1>1. CASE StartBatch \/ StopTest \/ Destroy \/ \E s \in Strategy : StartTest(s)
    <2>1. UNCHANGED <<round, proxyJob, evars>>
      BY <1>1, CommandEffect
    <2>2. NoneEnters
      BY <2>1 DEF NoneEnters, evars
    <2>3. \A j \in Job : pc[j] \in Launched => pc'[j] \in Launched
      <3>1. CASE UNCHANGED pc
        BY <3>1
      <3>2. CASE arrived < MaxCommands /\ pc' = [pc EXCEPT ![arrived + 1] = "posted"]
        <4>1. arrived + 1 \in Job /\ arrived + 1 > arrived
          BY <3>2, ConstantsST DEF JobInv
        <4>2. pc[arrived + 1] = "none"
          BY <4>1 DEF JobInv
        <4> QED  BY <3>2, <4>1, <4>2 DEF JobInv, Launched
      <3> QED  BY <1>1, <3>1, <3>2, CommandEffect
    <2> QED  BY <2>1, <2>2, <2>3, QuietEngines
  <1>2. ASSUME NEW j \in Job, Step(j) PROVE EngineInv'
    BY <1>2, JobEngines
  <1>3. CASE Others
    <2>1. UNCHANGED <<pc, round>>
      BY <1>3, OthersEffect
    <2>2. CASE \E j \in Job : ProxyDispatched(j) \/ ProxyStart(j) \/ ProxyReturns(j)
      BY <2>2, CoroutineEngines
    <2>3. CASE \E j \in Job, w \in Sites : CheckStep(j, w)
      <3>1. UNCHANGED <<proxyJob, phase>>
        BY <2>3 DEF CheckStep, Checked, Report, ReadStatus, WriteStatus, tester, evars
      <3> QED  BY <2>1, <3>1, QuietEngines DEF NoneEnters
    <2>4. CASE (\E s \in Session : EngineStep(s) \/ EngineFails(s)) \/ VpnReturns
      <3>1. UNCHANGED proxyJob
        BY <2>4 DEF EngineStep, EngineFails, VpnReturns, Serving, tester
      <3>2. \E s \in Session, p, q \in Phase : p # "out" /\ PhaseStep(s, p, q)
        BY <2>4, Sessions DEF EngineStep, EngineFails, VpnReturns, BindPort, Bind, Announce, Quit, Return, Phase
      <3>3. NoneEnters
        BY <3>2 DEF PhaseStep, NoneEnters, PETypeOK
      <3> QED  BY <2>1, <3>1, <3>3, QuietEngines
    <2>5. CASE VpnStarts
      <3>1. UNCHANGED proxyJob /\ phase' = [phase EXCEPT ![VPN] = "boot"]
        BY <2>5 DEF VpnStarts, Serving, tester, Start, PhaseStep
      <3>2. \A j \in Job, k \in DOMAIN Batch : phase'[<<j, k>>] = phase[<<j, k>>]
        BY <3>1, Sessions DEF PETypeOK
      <3> QED  BY <2>1, <3>1, <3>2 DEF EngineInv, ChildGone
    <2>6. CASE StartVpn \/ TestsAwaited \/ ForcePort \/ PortForced \/ SendStart
      <3>1. UNCHANGED proxyJob /\ (UNCHANGED evars \/ StopEngine \/ ForceWaited)
        BY <2>6 DEF StartVpn, TestsAwaited, ForcePort, PortForced, SendStart, tester
      <3>2. NoneEnters
        BY <3>1, StopIsEngineStep DEF NoneEnters, evars
      <3> QED  BY <2>1, <3>1, <3>2, QuietEngines
    <2> QED  BY <1>3, <2>2, <2>3, <2>4, <2>5, <2>6 DEF Others
  <1>4. CASE UNCHANGED vars
    <2>1. UNCHANGED <<pc, round, proxyJob, phase>>
      BY <1>4 DEF vars, tester, evars
    <2> QED  BY <2>1, QuietEngines DEF NoneEnters
  <1> QED  BY <1>1, <1>2, <1>3, <1>4, NextByActor

\* The invariants of the jobs and of the engine, together.
LEMMA JobsAndEngine == STSpec => [](JobInv /\ WorkInv /\ PETypeOK /\ OneMain /\ EngineInv)
<1>1. STInit => JobInv /\ WorkInv /\ EngineInv
  <2>1. STInit => EngineInv
    BY Sessions DEF STInit, PEInit, EngineInv, ChildGone
  <2> QED  BY <2>1, InitJobInv, InitWorkInv
<1>2. JobInv /\ WorkInv /\ EngineInv /\ PETypeOK /\ [STNext]_vars => JobInv' /\ WorkInv' /\ EngineInv'
  BY JobInvStep, StepWork, EnginesStep
<1> QED  BY <1>1, <1>2, TestsUseEngine, PETypeCorrect, EngineOneMain, PTL DEF STSpec

\* In a batch of any length the engines of a job never overlap, however the bounded
\* waits of forceClose end: the next strategy waits for the coroutine around proxy.start
\* (StrategyTester.kt: 103, 237).
THEOREM OneEnginePerJobAlways == STSpec => []OneEnginePerJob
<1>1. JobInv /\ EngineInv => OneEnginePerJob
  <2> SUFFICES ASSUME JobInv, EngineInv, NEW j \in Job, NEW k \in DOMAIN Batch, phase[<<j, k>>] # "out"
               PROVE  k = round[j] /\ Live(j)
    BY DEF OneEnginePerJob
  <2>1. k = round[j] /\ proxyJob[j] = "main"
    BY DEF EngineInv
  <2>2. pc[j] \in Launched
    BY <2>1 DEF EngineInv, ChildGone
  <2> QED  BY <2>1, <2>2 DEF Live, Launched
<1> QED  BY <1>1, JobsAndEngine, PTL

-----------------------------------------------------------------------------
(* Whose engine is measured.                                               *)

\* Control points from the end of the old engine to the end of the checks.
Measuring == {"closed", "ready", "checks"}

\* From the moment forceClose saw the flag down, only the job itself has an engine.
AloneInv ==
  ~wasReset /\ ~lateStart =>
    \A j \in Job \ cancelled : pc[j] \in Measuring =>
      \A i \in Job, k \in DOMAIN Batch : phase[<<i, k>>] # "out" => i = j

LEMMA QuietAlone ==
  ASSUME AloneInv, NoneEnters, cancelled \subseteq cancelled',
         wasReset => wasReset', lateStart => lateStart',
         \A j \in Job : pc'[j] \in Measuring => pc[j] \in Measuring
  PROVE  AloneInv'
  <1>1. \A j \in Job, k \in DOMAIN Batch : phase'[<<j, k>>] # "out" => phase[<<j, k>>] # "out"
    BY Sessions DEF NoneEnters
  <1> QED  BY <1>1 DEF AloneInv

LEMMA ResetStays == PETypeOK /\ [PENext]_evars => (wasReset => wasReset')
  BY DEF PENext, evars, Start, Bind, Announce, Quit, Return, ResetFlag

LEMMA AloneStep ==
  ASSUME JobInv, WorkInv, EngineInv, PETypeOK, OneMain, AloneInv, [STNext]_vars, [PENext]_evars
  PROVE  AloneInv'
  <1>1. wasReset => wasReset'
    BY ResetStays
  <1>2. CASE StartBatch \/ StopTest \/ Destroy \/ \E s \in Strategy : StartTest(s)
    <2>1. UNCHANGED <<lateStart, evars>> /\ cancelled \subseteq cancelled'
      BY <1>2, CommandEffect DEF control
    <2>2. NoneEnters
      BY <2>1 DEF NoneEnters, evars
    <2>3. \A j \in Job : pc'[j] \in Measuring => pc[j] \in Measuring
      <3>1. CASE UNCHANGED pc
        BY <3>1
      <3>2. CASE pc' = [pc EXCEPT ![arrived + 1] = "posted"]
        BY <3>2 DEF JobInv, Measuring
      <3> QED  BY <1>2, <3>1, <3>2, CommandEffect
    <2> QED  BY <1>1, <2>1, <2>2, <2>3, QuietAlone
  <1>3. ASSUME NEW j \in Job, Step(j) PROVE AloneInv'
    <2>1. UNCHANGED <<cancelled, lateStart>> /\ NoneEnters
      BY <1>3, JobEffect, JobEntersNone
    <2>2. \A i \in Job : i # j => pc'[i] = pc[i]
      BY <1>3, JobEffect DEF JobInv
    <2>3. CASE OldClosed(j)
      <3>1. CASE ~running
        <4>1. ~wasReset => \A i \in Job, k \in DOMAIN Batch : phase[<<i, k>>] = "out"
          BY <3>1, Sessions DEF OneMain
        <4>2. ~wasReset => \A i \in Job, k \in DOMAIN Batch : phase'[<<i, k>>] = "out"
          BY <2>1, <4>1, Sessions DEF NoneEnters
        <4> QED  BY <1>1, <4>2 DEF AloneInv
      <3>2. CASE running
        <4>1. wasReset'
          BY <2>3, <3>2 DEF OldClosed, ForceWaited, ResetFlag
        <4> QED  BY <4>1 DEF AloneInv
      <3> QED  BY <3>1, <3>2
    <2>4. CASE ~OldClosed(j)
      <3>1. pc'[j] \in Measuring => pc[j] \in Measuring
        <4>1. CASE Begin(j) \/ TestReturns(j)
          BY <4>1 DEF Begin, TestReturns, Enter, Finish, Measuring, JobInv
        <4>2. CASE ReadSettings(j) \/ TestDirectly(j) \/ PortFree(j) \/ PortTaken(j) \/ PortClosed(j)
                   \/ Recheck(j) \/ CloseOld(j) \/ InitFails(j)
          BY <4>2 DEF ReadSettings, TestDirectly, PortFree, PortTaken, PortClosed, Recheck, CloseOld,
                      InitFails, Go, Measuring, JobInv
        <4>3. CASE LaunchProxy(j) \/ Ready(j) \/ NotReady(j) \/ Joined(j) \/ ChecksDone(j)
                   \/ ForceStop(j) \/ Stopped(j) \/ Released(j) \/ Abandon(j)
          BY <4>3 DEF LaunchProxy, Ready, NotReady, Joined, ChecksDone, ForceStop, Stopped, Released,
                      Abandon, Go, Measuring, JobInv
        <4> QED  BY <1>3, <2>4, <4>1, <4>2, <4>3 DEF Step
      <3> QED  BY <1>1, <2>1, <2>2, <3>1, QuietAlone
    <2> QED  BY <2>3, <2>4
  <1>4. CASE Others
    <2>1. UNCHANGED <<pc, cancelled>>
      BY <1>4, OthersEffect
    <2>2. CASE UNCHANGED lateStart /\ NoneEnters
      BY <1>1, <2>1, <2>2, QuietAlone
    <2>3. CASE \E i \in Job : ProxyStart(i)
      <3>1. PICK i \in Job : ProxyStart(i)
        BY <2>3
      <3>2. CASE running
        <4>1. UNCHANGED <<lateStart, evars>>
          BY <3>1, <3>2 DEF ProxyStart, Start
        <4> QED  BY <2>2, <4>1 DEF NoneEnters, evars
      <3>3. CASE ~running
        <4>1. /\ phase' = [phase EXCEPT ![Engine(i)] = "boot"] /\ proxyJob[i] = "start"
              /\ lateStart' = (lateStart \/ i \in cancelled)
          BY <3>1, <3>3 DEF ProxyStart, ProxyGo, Start, PhaseStep
        <4>2. Live(i)
          BY <4>1 DEF EngineInv, ChildGone, Launched, Live
        <4>3. SUFFICES ASSUME ~wasReset, ~lateStart, i \notin cancelled,
                              NEW j \in Job \ cancelled, pc[j] \in Measuring,
                              NEW h \in Job, NEW k \in DOMAIN Batch, phase'[<<h, k>>] # "out"
                       PROVE  h = j
          BY <1>1, <2>1, <4>1 DEF AloneInv
        <4>4. i = j
          BY <4>2, <4>3 DEF JobInv, OneTest, Live, Measuring
        <4>5. CASE <<h, k>> = Engine(i)
          BY <4>4, <4>5 DEF Engine
        <4>6. CASE <<h, k>> # Engine(i)
          <5>1. phase[<<h, k>>] # "out"
            BY <4>1, <4>3, <4>6, Sessions DEF PETypeOK
          <5> QED  BY <4>3, <5>1 DEF AloneInv
        <4> QED  BY <4>5, <4>6
      <3> QED  BY <3>2, <3>3
    <2>4. CASE \E j \in Job : ProxyDispatched(j) \/ \E w \in Sites : CheckStep(j, w)
      <3>1. UNCHANGED <<lateStart, evars>>
        BY <2>4 DEF ProxyDispatched, CheckStep, Checked, Report, ReadStatus, WriteStatus
      <3> QED  BY <2>2, <3>1 DEF NoneEnters, evars
    <2>5. CASE \/ \E j \in Job : ProxyReturns(j)
               \/ \E s \in Session : EngineStep(s) \/ EngineFails(s)
               \/ VpnReturns
      <3>1. UNCHANGED lateStart
        BY <2>5 DEF ProxyReturns, EngineStep, EngineFails, VpnReturns, Serving
      <3>2. \A j \in Job : Engine(j) \in Session
        BY Sessions DEF WorkInv, Engine
      <3>3. \E s \in Session, p, q \in Phase : p # "out" /\ PhaseStep(s, p, q)
        BY <2>5, <3>2, Sessions DEF ProxyReturns, EngineStep, EngineFails, VpnReturns, BindPort,
                                    Bind, Announce, Quit, Return, Phase
      <3>4. NoneEnters
        BY <3>3 DEF PhaseStep, NoneEnters, PETypeOK
      <3> QED  BY <2>2, <3>1, <3>4
    <2>6. CASE VpnStarts
      <3>1. UNCHANGED lateStart /\ phase' = [phase EXCEPT ![VPN] = "boot"]
        BY <2>6 DEF VpnStarts, Serving, Start, PhaseStep
      <3>2. \A j \in Job, k \in DOMAIN Batch : phase'[<<j, k>>] = phase[<<j, k>>]
        BY <3>1, Sessions DEF PETypeOK
      <3> QED  BY <1>1, <2>1, <3>1, <3>2 DEF AloneInv
    <2>7. CASE StartVpn \/ TestsAwaited \/ ForcePort \/ PortForced \/ SendStart
      <3>1. UNCHANGED lateStart /\ (UNCHANGED evars \/ StopEngine \/ ForceWaited)
        BY <2>7 DEF StartVpn, TestsAwaited, ForcePort, PortForced, SendStart
      <3>2. NoneEnters
        BY <3>1, StopIsEngineStep DEF NoneEnters, evars
      <3> QED  BY <2>2, <3>1, <3>2
    <2> QED  BY <1>4, <2>3, <2>4, <2>5, <2>6, <2>7 DEF Others
  <1>5. CASE UNCHANGED vars
    <2>1. UNCHANGED <<pc, cancelled, lateStart, phase>>
      BY <1>5 DEF vars, tester, evars
    <2> QED  BY <1>1, <2>1, QuietAlone DEF NoneEnters
  <1> QED  BY <1>2, <1>3, <1>4, <1>5, NextByActor

\* No result is measured through the engine of a test that was stopped before, for any
\* number of tests and strategies, until jniForceClose resets the flag by hand or a
\* cancelled job enters jniStartProxy late (StrategyTester.kt: 95-128).
THEOREM OwnEngineAlwaysMeasured == STSpec => []OwnEngineMeasured
<1>1. STInit => AloneInv
  BY DEF STInit, AloneInv, Measuring
<1>2. JobInv /\ WorkInv /\ PETypeOK /\ OneMain /\ EngineInv /\ AloneInv /\ [STNext]_vars /\ [PENext]_evars
        => AloneInv'
  BY AloneStep
<1>3. JobInv /\ EngineInv /\ AloneInv => OwnEngineMeasured
  <2> SUFFICES ASSUME EngineInv, AloneInv, ~wasReset, ~lateStart, NEW j \in Job,
                      pc[j] = "checks", j \notin cancelled, NEW s \in Listening
               PROVE  s = Engine(j)
    BY DEF OwnEngineMeasured
  <2>1. s \in Session \ {VPN} /\ phase[s] # "out"
    BY DEF Listening
  <2>2. PICK i \in Job, k \in DOMAIN Batch : s = <<i, k>>
    BY <2>1, Sessions
  <2>3. i = j /\ k = round[i]
    BY <2>1, <2>2 DEF AloneInv, EngineInv, Measuring
  <2> QED  BY <2>2, <2>3 DEF Engine
<1> QED  BY <1>1, <1>2, <1>3, JobsAndEngine, TestsUseEngine, PTL DEF STSpec, PESpec

-----------------------------------------------------------------------------
(* The VPN after the tests.                                                *)

\* Once startVpn is past its wait, and the wait did not run out, the tests it found are
\* cancelled or over, and stay so.
AfterInv ==
  /\ before \subseteq {j \in Job : j <= arrived}
  /\ ctl \in {"port", "closing"} /\ ~gaveUp => \A j \in before : j \in cancelled \/ ~Live(j)

LEMMA QuietAfter ==
  ASSUME JobInv, AfterInv, UNCHANGED <<ctl, before, gaveUp>>, cancelled \subseteq cancelled',
         arrived' \in {arrived, arrived + 1},
         \A j \in Job : j <= arrived /\ Live(j)' => Live(j)
  PROVE  AfterInv'
  <1>1. \A j \in Job : j <= arrived => j <= arrived'
    BY ConstantsST DEF JobInv
  <1> QED  BY <1>1 DEF AfterInv

LEMMA AfterStep ==
  ASSUME JobInv, AfterInv, [STNext]_vars
  PROVE  AfterInv'
  <1>1. CASE StartBatch \/ StopTest \/ Destroy \/ \E s \in Strategy : StartTest(s)
    <2>1. UNCHANGED <<ctl, before, gaveUp>> /\ cancelled \subseteq cancelled'
      BY <1>1, CommandEffect DEF control
    <2>2. CASE UNCHANGED pc /\ arrived' \in {arrived, arrived + 1}
      BY <2>1, <2>2, QuietAfter DEF Live
    <2>3. CASE arrived' = arrived + 1 /\ pc' = [pc EXCEPT ![arrived + 1] = "posted"]
      <3>1. \A j \in Job : j <= arrived => j # arrived + 1
        BY ConstantsST DEF JobInv
      <3>2. \A j \in Job : j <= arrived /\ Live(j)' => Live(j)
        BY <2>3, <3>1 DEF Live, JobInv
      <3> QED  BY <2>1, <2>3, <3>2, QuietAfter
    <2> QED  BY <1>1, <2>2, <2>3, CommandEffect
  <1>2. ASSUME NEW j \in Job, Step(j) PROVE AfterInv'
    <2>1. UNCHANGED <<ctl, before, gaveUp, cancelled, arrived>>
      BY <1>2, JobEffect DEF control, work
    <2>2. \A i \in Job : Live(i)' => Live(i)
      BY <1>2, JobEffect DEF Live, JobInv
    <2> QED  BY <2>1, <2>2, QuietAfter
  <1>3. CASE Others
    <2>1. UNCHANGED <<pc, cancelled, arrived>>
      BY <1>3, OthersEffect DEF work
    <2>2. CASE UNCHANGED <<ctl, before, gaveUp>>
      BY <2>1, <2>2, QuietAfter DEF Live
    <2>3. ~isRunning => \A j \in Job : j \in cancelled \/ ~Live(j)
      BY DEF JobInv, OneTest
    <2>4. CASE StartVpn
      <3>1. before' = {j \in Job : Live(j)} /\ (ctl' \in {"port", "closing"} => ~isRunning)
        BY <2>4 DEF StartVpn, CtlGo
      <3>2. \A j \in Job : Live(j) => j <= arrived
        BY ConstantsST DEF JobInv, Live
      <3> QED  BY <2>1, <2>3, <3>1, <3>2 DEF AfterInv, Live
    <2>5. CASE TestsAwaited
      <3>1. gaveUp' = isRunning /\ UNCHANGED before
        BY <2>5 DEF TestsAwaited
      <3> QED  BY <2>1, <2>3, <3>1 DEF AfterInv, Live
    <2>6. CASE ForcePort \/ PortForced
      <3>1. ctl \in {"port", "closing"} /\ UNCHANGED <<before, gaveUp>>
        BY <2>6 DEF ForcePort, PortForced, CtlGo
      <3> QED  BY <2>1, <3>1 DEF AfterInv, Live
    <2>7. CASE SendStart
      BY <2>7 DEF SendStart, AfterInv
    <2>8. CASE \E j \in Job : \/ ProxyDispatched(j) \/ ProxyStart(j) \/ ProxyReturns(j)
                              \/ \E w \in Sites : CheckStep(j, w)
      <3>1. UNCHANGED control
        BY <2>8 DEF ProxyDispatched, ProxyStart, ProxyReturns, CheckStep, Checked, Report, ReadStatus,
                    WriteStatus
      <3> QED  BY <2>2, <3>1 DEF control
    <2>9. CASE (\E s \in Session : EngineStep(s) \/ EngineFails(s)) \/ VpnStarts \/ VpnReturns
      <3>1. UNCHANGED control
        BY <2>9 DEF EngineStep, EngineFails, VpnStarts, VpnReturns, Serving
      <3> QED  BY <2>2, <3>1 DEF control
    <2> QED  BY <1>3, <2>4, <2>5, <2>6, <2>7, <2>8, <2>9 DEF Others
  <1>4. CASE UNCHANGED vars
    BY <1>4, QuietAfter DEF vars, work, tester, control, Live
  <1> QED  BY <1>1, <1>2, <1>3, <1>4, NextByActor

\* When START is sent, the tests that ran when startVpn was called are cancelled or over
\* and no engine is left, unless a wait ran out or the flag was reset by hand
\* (VpnController.kt: 55-108).
THEOREM VpnAlwaysAfterTests == STSpec => VpnAfterTests
<1>1. STInit => AfterInv
  BY DEF STInit, AfterInv
<1>2. JobInv /\ AfterInv /\ [STNext]_vars => AfterInv'
  BY AfterStep
<1>3. AfterInv /\ OneMain /\ [STNext]_vars =>
        [ctl = "port" /\ ctl' = "idle" /\ ~gaveUp /\ ~running =>
           /\ \A j \in before : j \in cancelled \/ ~Live(j)
           /\ wasReset \/ \A s \in Session : phase[s] = "out"]_vars
  BY DEF AfterInv, OneMain
<1> QED  BY <1>1, <1>2, <1>3, JobsAndEngine, PTL DEF STSpec, VpnAfterTests

-----------------------------------------------------------------------------
(* The counts and the types.                                               *)

CheckPoint == {"checking", "counted", "report", "write", "done"}
Checking(j) == {w \in Sites : check[j][w] = "checking"}

\* Control points from the reset of testedCount to the launch of the checks.
Uncounted == {"settings", "port", "portClose", "recheck", "init", "close", "closed", "ready"}

\* Each site is counted once: what is counted and what is still checked are no more than
\* the sites, and a strategy is only left when all its checks are done.
CountInv ==
  /\ testedCount \in [Job -> Nat]
  /\ check \in [Job -> [Sites -> CheckPoint]]
  /\ \A j \in Job :
       /\ pc[j] \notin {"direct", "checks"} => \A w \in Sites : check[j][w] = "done"
       /\ pc[j] \in Uncounted => testedCount[j] = 0
       /\ testedCount[j] + Cardinality(Checking(j)) <= NSites

LEMMA Counting ==
  ASSUME NEW S, IsFiniteSet(S)
  PROVE  /\ Cardinality(S) \in Nat
         /\ Cardinality({}) = 0
         /\ \A T \in SUBSET S : IsFiniteSet(T) /\ Cardinality(T) \in Nat /\ Cardinality(T) <= Cardinality(S)
         /\ \A x \in S : Cardinality(S \ {x}) = Cardinality(S) - 1
  BY FS_CardinalityType, FS_EmptySet, FS_Subset, FS_RemoveElement

LEMMA SitesCounted ==
  /\ IsFiniteSet(Sites) /\ NSites \in Nat
  /\ \A j \in Job : IsFiniteSet(Checking(j)) /\ Cardinality(Checking(j)) \in Nat
  <1>1. IsFiniteSet(Sites)
    BY StrategyTestingAssumption
  <1>2. \A j \in Job : Checking(j) \in SUBSET Sites
    BY DEF Checking
  <1> QED  BY <1>1, <1>2, Counting DEF NSites

\* No check is touched, and no job enters or leaves the points where checks run.
LEMMA QuietCount ==
  ASSUME CountInv, UNCHANGED <<testedCount, check>>,
         \A j \in Job : pc'[j] = pc[j] \/ /\ pc'[j] \notin Uncounted \/ pc[j] \in Uncounted
                                          /\ \A w \in Sites : check[j][w] = "done"
  PROVE  CountInv'
  <1>1. \A j \in Job : Checking(j)' = Checking(j)
    BY DEF Checking
  <1> QED  BY <1>1 DEF CountInv

\* The checks of a strategy start from zero.
LEMMA LaunchCount ==
  ASSUME CountInv, JobInv, NEW j \in Job, pc[j] \in Uncounted, UNCHANGED testedCount,
         check' = [check EXCEPT ![j] = [w \in Sites |-> "checking"]],
         \/ pc' = [pc EXCEPT ![j] = "checks"]
         \/ pc' = [pc EXCEPT ![j] = "direct"]
  PROVE  CountInv'
  <1>1. check' \in [Job -> [Sites -> CheckPoint]]
    BY DEF CountInv, CheckPoint
  <1>2. \A i \in Job : i # j => check'[i] = check[i] /\ pc'[i] = pc[i] /\ Checking(i)' = Checking(i)
    BY DEF CountInv, JobInv, Checking
  <1>3. Checking(j)' = Sites
    BY DEF CountInv, Checking
  <1>4. testedCount[j] = 0 /\ pc'[j] \in {"direct", "checks"}
    BY DEF CountInv, JobInv
  <1>5. testedCount'[j] + Cardinality(Checking(j)') <= NSites
    BY <1>3, <1>4, SitesCounted DEF NSites
  <1> QED  BY <1>1, <1>2, <1>4, <1>5 DEF CountInv, Uncounted

\* A new strategy: the count is zero again.
LEMMA EnterCount ==
  ASSUME CountInv, JobInv, NEW j \in Job, NEW k, Enter(j, k), pc[j] \in {"posted", "leave"},
         UNCHANGED check
  PROVE  CountInv'
  <1>1. pc' = [pc EXCEPT ![j] = "settings"] /\ testedCount' = [testedCount EXCEPT ![j] = 0]
    BY DEF Enter
  <1>2. \A i \in Job : Checking(i)' = Checking(i)
    BY DEF Checking
  <1>3. testedCount' \in [Job -> Nat] /\ testedCount'[j] = 0
    BY <1>1 DEF CountInv
  <1>4. \A i \in Job : i # j => testedCount'[i] = testedCount[i] /\ pc'[i] = pc[i]
    BY <1>1 DEF CountInv, JobInv
  <1>5. \A w \in Sites : check[j][w] = "done"
    BY DEF CountInv
  <1>6. testedCount'[j] + Cardinality(Checking(j)') <= NSites
    <2>1. testedCount[j] \in Nat /\ testedCount[j] + Cardinality(Checking(j)) <= NSites
      BY DEF CountInv
    <2> QED  BY <1>2, <1>3, <2>1, SitesCounted
  <1>7. pc'[j] = "settings"
    BY <1>1 DEF JobInv
  <1> QED  BY <1>2, <1>3, <1>4, <1>5, <1>6, <1>7 DEF CountInv

LEMMA JobCount ==
  ASSUME CountInv, JobInv, NEW j \in Job, Step(j)
  PROVE  CountInv'
  <1>1. \A i \in Job : i # j => pc'[i] = pc[i]
    BY JobEffect DEF JobInv
  <1>2. CASE Begin(j)
    <2>1. CASE j \in cancelled
      <3>1. UNCHANGED <<testedCount, check>> /\ pc[j] = "posted" /\ pc'[j] = "done"
        BY <1>2, <2>1 DEF Begin, JobInv
      <3>2. \A w \in Sites : check[j][w] = "done"
        BY <3>1 DEF CountInv
      <3> QED  BY <1>1, <3>1, <3>2, QuietCount DEF Uncounted
    <2>2. CASE j \notin cancelled
      BY <1>2, <2>2, EnterCount DEF Begin
    <2> QED  BY <2>1, <2>2
  <1>3. CASE TestReturns(j)
    <2>1. CASE j \notin cancelled /\ round[j] < Len(todo[j])
      BY <1>3, <2>1, EnterCount DEF TestReturns
    <2>2. CASE ~(j \notin cancelled /\ round[j] < Len(todo[j]))
      <3>1. UNCHANGED <<testedCount, check>> /\ pc[j] = "leave" /\ pc'[j] = "done"
        BY <1>3, <2>2 DEF TestReturns, Finish, JobInv
      <3>2. \A w \in Sites : check[j][w] = "done"
        BY <3>1 DEF CountInv
      <3> QED  BY <1>1, <3>1, <3>2, QuietCount DEF Uncounted
    <2> QED  BY <2>1, <2>2
  <1>4. CASE TestDirectly(j) \/ Ready(j)
    BY <1>4, LaunchCount DEF TestDirectly, Ready, Go, Uncounted
  <1>5. CASE ReadSettings(j) \/ PortFree(j) \/ PortTaken(j) \/ PortClosed(j)
             \/ Recheck(j) \/ CloseOld(j) \/ InitFails(j) \/ OldClosed(j) \/ LaunchProxy(j) \/ NotReady(j)
    <2>1. UNCHANGED <<testedCount, check>> /\ pc[j] \in Uncounted
      BY <1>5 DEF ReadSettings, PortFree, PortTaken, PortClosed, Recheck, CloseOld,
                  InitFails, OldClosed, LaunchProxy, NotReady, Go, Uncounted, checks
    <2>2. \A w \in Sites : check[j][w] = "done"
      BY <2>1 DEF CountInv, Uncounted
    <2> QED  BY <1>1, <2>1, <2>2, QuietCount
  <1>6. CASE Joined(j) \/ ForceStop(j) \/ Stopped(j) \/ Released(j) \/ Abandon(j)
    <2>1. /\ UNCHANGED <<testedCount, check>>
          /\ pc[j] \notin {"direct", "checks"}
          /\ pc'[j] \notin Uncounted
      BY <1>6 DEF Joined, ForceStop, Stopped, Released, Abandon, CancelPoint, Go, Uncounted, checks,
                  JobInv
    <2>2. \A w \in Sites : check[j][w] = "done"
      BY <2>1 DEF CountInv
    <2> QED  BY <1>1, <2>1, <2>2, QuietCount
  <1>7. CASE ChecksDone(j)
    <2>1. UNCHANGED <<testedCount, check>> /\ (\A w \in Sites : check[j][w] = "done")
      BY <1>7 DEF ChecksDone, checks
    <2>2. pc'[j] \notin Uncounted
      BY <1>7 DEF ChecksDone, Go, Uncounted, JobInv
    <2> QED  BY <1>1, <2>1, <2>2, QuietCount
  <1> QED  BY <1>2, <1>3, <1>4, <1>5, <1>6, <1>7 DEF Step

\* A check counts its site as it ends; the others leave the count alone.
LEMMA CheckCount ==
  ASSUME CountInv, NEW j \in Job, NEW w \in Sites, CheckStep(j, w), UNCHANGED pc
  PROVE  CountInv'
  <1>1. /\ check[j][w] # "done"
        /\ \E p \in CheckPoint \ {"checking"} : check' = [check EXCEPT ![j][w] = p]
    BY DEF CheckStep, Checked, Report, ReadStatus, WriteStatus, CheckGo, CheckPoint
  <1>2. PICK p \in CheckPoint \ {"checking"} : check' = [check EXCEPT ![j][w] = p]
    BY <1>1
  <1>3. check' \in [Job -> [Sites -> CheckPoint]] /\ \A i \in Job : i # j => check'[i] = check[i]
    BY <1>2 DEF CountInv
  <1>4. check'[j][w] = p /\ \A v \in Sites : v # w => check'[j][v] = check[j][v]
    BY <1>2 DEF CountInv
  <1>5. pc[j] \in {"direct", "checks"}
    BY <1>1 DEF CountInv
  <1>6. \A i \in Job : i # j => Checking(i)' = Checking(i)
    BY <1>3 DEF Checking
  <1>7. Checking(j)' = Checking(j) \ {w}
    BY <1>4 DEF Checking
  <1>8. /\ testedCount' \in [Job -> Nat]
        /\ \A i \in Job : i # j => testedCount'[i] = testedCount[i]
        /\ testedCount'[j] + Cardinality(Checking(j)') <= NSites
    <2>1. testedCount[j] \in Nat /\ testedCount[j] + Cardinality(Checking(j)) <= NSites
      BY DEF CountInv
    <2>2. CASE check[j][w] = "checking"
      <3>1. w \in Checking(j)
        BY <2>2 DEF Checking
      <3>2. Cardinality(Checking(j)') = Cardinality(Checking(j)) - 1
        BY <1>7, <3>1, SitesCounted, Counting
      <3>3. UNCHANGED testedCount \/ testedCount' = [testedCount EXCEPT ![j] = @ + 1]
        BY <2>2 DEF CheckStep, Checked, Report, ReadStatus, WriteStatus, CheckGo
      <3>4. testedCount' \in [Job -> Nat] /\ \A i \in Job : i # j => testedCount'[i] = testedCount[i]
        BY <3>3 DEF CountInv
      <3>5. testedCount'[j] \in {testedCount[j], testedCount[j] + 1}
        BY <3>3 DEF CountInv
      <3> QED  BY <2>1, <3>2, <3>4, <3>5, SitesCounted
    <2>3. CASE check[j][w] # "checking"
      <3>1. UNCHANGED testedCount
        BY <2>3 DEF CheckStep, Checked, Report, ReadStatus, WriteStatus, CheckGo
      <3>2. Checking(j)' = Checking(j)
        BY <1>7, <2>3 DEF Checking
      <3> QED  BY <3>1, <3>2 DEF CountInv
    <2> QED  BY <2>2, <2>3
  <1> QED  BY <1>3, <1>5, <1>6, <1>8 DEF CountInv, Uncounted

LEMMA CountStep ==
  ASSUME CountInv, JobInv, [STNext]_vars
  PROVE  CountInv'
  <1>1. CASE StartBatch \/ StopTest \/ Destroy \/ \E s \in Strategy : StartTest(s)
    <2>1. UNCHANGED <<testedCount, check>>
      BY <1>1, CommandEffect DEF checks
    <2>2. CASE UNCHANGED pc
      BY <2>1, <2>2, QuietCount
    <2>3. CASE arrived < MaxCommands /\ pc' = [pc EXCEPT ![arrived + 1] = "posted"]
      <3>1. arrived + 1 \in Job /\ arrived + 1 > arrived
        BY <2>3, ConstantsST DEF JobInv
      <3>2. pc[arrived + 1] = "none" /\ pc'[arrived + 1] = "posted"
        BY <2>3, <3>1 DEF JobInv
      <3>3. \A w \in Sites : check[arrived + 1][w] = "done"
        BY <3>1, <3>2 DEF CountInv
      <3>4. \A j \in Job : j # arrived + 1 => pc'[j] = pc[j]
        BY <2>3 DEF JobInv
      <3> QED  BY <2>1, <3>2, <3>3, <3>4, QuietCount DEF Uncounted
    <2> QED  BY <1>1, <2>2, <2>3, CommandEffect
  <1>2. ASSUME NEW j \in Job, Step(j) PROVE CountInv'
    BY <1>2, JobCount
  <1>3. CASE Others
    <2>1. UNCHANGED pc
      BY <1>3, OthersEffect
    <2>2. CASE \E j \in Job, w \in Sites : CheckStep(j, w)
      BY <2>1, <2>2, CheckCount
    <2>3. CASE ~\E j \in Job, w \in Sites : CheckStep(j, w)
      BY <1>3, <2>1, <2>3, OthersChecks, QuietCount DEF checks
    <2> QED  BY <2>2, <2>3
  <1>4. CASE UNCHANGED vars
    BY <1>4, QuietCount DEF vars, checks, tester
  <1> QED  BY <1>1, <1>2, <1>3, <1>4, NextByActor

\* The rest of the state keeps its types; a count that is to be reported is one that
\* testedCount reached.
DataInv ==
  /\ stopping \in BOOLEAN /\ status \in Status /\ inBatch \subseteq Job
  /\ reported \in [Job -> [Sites -> 0 .. NSites]]
  /\ seen \in [Job -> [Sites -> Status]]
  /\ ctl \in {"idle", "wait", "port", "closing"}
  /\ gaveUp \in BOOLEAN /\ vpnAsked \in BOOLEAN /\ lateStart \in BOOLEAN

\* A table with one entry changed.
LEMMA PutTable ==
  ASSUME NEW A, NEW B, NEW T, NEW f \in [A -> [B -> T]], NEW a \in A, NEW b \in B, NEW v \in T
  PROVE  [f EXCEPT ![a][b] = v] \in [A -> [B -> T]]
  OBVIOUS

LEMMA StatusTypes ==
  /\ NoStatus \in Status
  /\ \A s \in Strategy, b \in BOOLEAN : [strategy |-> s, tested |-> 0, isRunning |-> b] \in Status
  /\ \A st \in Status : [st EXCEPT !.isRunning = FALSE] \in Status
  /\ \A st \in Status, n \in 0 .. NSites : [st EXCEPT !.tested = n] \in Status
  <1>1. 0 \in 0 .. NSites
    BY SitesCounted
  <1> QED  BY <1>1 DEF Status, NoStatus

LEMMA InitData ==
  ASSUME STInit
  PROVE  CountInv /\ DataInv
  <1>1. \A j \in Job : Checking(j) = {}
    BY DEF STInit, Checking
  <1>2. Cardinality({}) = 0 /\ 0 \in 0 .. NSites /\ NSites \in Nat
    BY SitesCounted, Counting
  <1>3. CountInv
    <2>1. check \in [Job -> [Sites -> CheckPoint]] /\ testedCount = [j \in Job |-> 0]
      BY DEF STInit, CheckPoint
    <2>2. \A j \in Job : testedCount[j] + Cardinality(Checking(j)) <= NSites
      BY <1>1, <1>2, <2>1
    <2> QED  BY <2>1, <2>2 DEF STInit, CountInv, Uncounted
  <1>4. DataInv
    BY <1>2, StatusTypes DEF STInit, DataInv
  <1> QED  BY <1>3, <1>4

LEMMA CommandData ==
  ASSUME JobInv, DataInv, StartBatch \/ StopTest \/ Destroy \/ \E s \in Strategy : StartTest(s)
  PROVE  DataInv'
  <1>1. UNCHANGED <<reported, seen, ctl, gaveUp, vpnAsked, lateStart>>
    BY CommandEffect DEF checks, control
  <1>2. stopping' \in BOOLEAN
    BY DEF DataInv, StartBatch, StartTest, Launch, StopTest, Destroy, service
  <1>3. inBatch' \subseteq Job
    <2>1. CASE StartBatch
      <3>1. arrived + 1 \in Job
        BY <2>1, ConstantsST DEF StartBatch, JobInv
      <3> QED  BY <2>1, <3>1 DEF StartBatch, DataInv
    <2>2. CASE ~StartBatch
      BY <2>2 DEF DataInv, StartTest, StopTest, Destroy, work
    <2> QED  BY <2>1, <2>2
  <1>4. status' \in Status
    <2>1. CASE StartBatch
      BY <2>1 DEF StartBatch, service, DataInv
    <2>2. CASE StopTest \/ Destroy
      BY <2>2, StatusTypes DEF StopTest, Destroy, Halt, DataInv
    <2>3. CASE \E s \in Strategy : StartTest(s)
      BY <2>3, StatusTypes DEF StartTest, service, DataInv
    <2> QED  BY <2>1, <2>2, <2>3
  <1> QED  BY <1>1, <1>2, <1>3, <1>4 DEF DataInv

LEMMA JobData ==
  ASSUME JobInv, WorkInv, DataInv, NEW j \in Job, Step(j)
  PROVE  DataInv'
  <1>1. UNCHANGED <<inBatch, ctl, gaveUp, vpnAsked, lateStart>>
    BY JobEffect DEF work, control
  <1>2. UNCHANGED <<reported, seen>>
    <2>1. CASE Begin(j) \/ TestReturns(j) \/ TestDirectly(j) \/ Ready(j)
      BY <2>1 DEF Begin, TestReturns, TestDirectly, Ready
    <2>2. CASE ReadSettings(j) \/ PortFree(j) \/ PortTaken(j) \/ PortClosed(j)
               \/ Recheck(j) \/ CloseOld(j) \/ InitFails(j) \/ OldClosed(j)
      BY <2>2 DEF ReadSettings, PortFree, PortTaken, PortClosed, Recheck, CloseOld,
                  InitFails, OldClosed, checks
    <2>3. CASE LaunchProxy(j) \/ NotReady(j) \/ Joined(j) \/ ChecksDone(j)
               \/ ForceStop(j) \/ Stopped(j) \/ Released(j) \/ Abandon(j)
      BY <2>3 DEF LaunchProxy, NotReady, Joined, ChecksDone, ForceStop, Stopped, Released,
                  Abandon, checks
    <2> QED  BY <2>1, <2>2, <2>3 DEF Step
  <1>3. stopping' \in BOOLEAN /\ status' \in Status
    <2>1. ASSUME NEW k \in 1 .. Len(todo[j]), Enter(j, k)  PROVE status' \in Status
      <3>1. todo[j][k] \in Strategy
        BY DEF WorkInv
      <3> QED  BY <2>1, <3>1, StatusTypes DEF Enter, DataInv
    <2>2. todo[j] \in Seq(Strategy) /\ todo[j] # <<>>
      BY JobEffect DEF WorkInv
    <2>3. Len(todo[j]) \in Nat \ {0} /\ round[j] \in Nat \ {0}
      BY <2>2, StrategyTestingAssumption DEF WorkInv
    <2>4. CASE Begin(j)
      <3>1. CASE j \in cancelled
        BY <2>4, <3>1 DEF Begin, service, DataInv
      <3>2. CASE j \notin cancelled
        <4>1. 1 \in 1 .. Len(todo[j])
          BY <2>3
        <4> QED  BY <2>1, <2>4, <3>2, <4>1 DEF Begin, DataInv
      <3> QED  BY <3>1, <3>2
    <2>5. CASE TestReturns(j)
      <3>1. CASE j \notin cancelled /\ round[j] < Len(todo[j])
        <4>1. round[j] + 1 \in 1 .. Len(todo[j])
          BY <2>3, <3>1
        <4> QED  BY <2>1, <2>5, <3>1, <4>1 DEF TestReturns, DataInv
      <3>2. CASE ~(j \notin cancelled /\ round[j] < Len(todo[j]))
        BY <2>5, <3>2, StatusTypes DEF TestReturns, Finish, service, DataInv
      <3> QED  BY <3>1, <3>2
    <2>6. CASE ~Begin(j) /\ ~TestReturns(j)
      BY <2>6, InsideKeeps DEF service, DataInv
    <2> QED  BY <2>4, <2>5, <2>6
  <1> QED  BY <1>1, <1>2, <1>3 DEF DataInv

LEMMA CheckData ==
  ASSUME CountInv, DataInv, NEW j \in Job, NEW w \in Sites, CheckStep(j, w)
  PROVE  DataInv'
  <1>1. UNCHANGED <<stopping, inBatch, ctl, gaveUp, vpnAsked, lateStart>>
    BY DEF CheckStep, Checked, Report, ReadStatus, WriteStatus, service, work, control
  <1>2. CASE Checked(j, w)
    <2>1. UNCHANGED <<seen, status>>
      BY <1>2 DEF Checked, service
    <2>2. testedCount[j] + 1 \in 0 .. NSites
      <3>1. w \in Checking(j)
        BY <1>2 DEF Checked, CheckGo, Checking
      <3>2. Cardinality(Checking(j)) # 0
        <4>1. IsFiniteSet(Checking(j)) /\ Cardinality(Checking(j)) \in Nat
          BY SitesCounted
        <4>2. Cardinality(Checking(j)) # 0
          BY <3>1, <4>1, FS_EmptySet
        <4> QED  BY <4>2
      <3>3. /\ Cardinality(Checking(j)) \in Nat /\ NSites \in Nat /\ testedCount[j] \in Nat
            /\ testedCount[j] + Cardinality(Checking(j)) <= NSites
        BY SitesCounted DEF CountInv
      <3>4. \A t, c, n \in Nat : c # 0 /\ t + c <= n => t + 1 \in 0 .. n
        OBVIOUS
      <3> QED  BY <3>2, <3>3, <3>4
    <2>3. reported' \in [Job -> [Sites -> 0 .. NSites]]
      <3>1. \/ UNCHANGED reported
            \/ reported' = [reported EXCEPT ![j][w] = testedCount[j] + 1]
        BY <1>2 DEF Checked
      <3>2. reported \in [Job -> [Sites -> 0 .. NSites]]
        BY DEF DataInv
      <3>3. [reported EXCEPT ![j][w] = testedCount[j] + 1] \in [Job -> [Sites -> 0 .. NSites]]
        BY <2>2, <3>2, PutTable, Zenon
      <3> QED  BY <3>1, <3>2, <3>3, Zenon
    <2> QED  BY <1>1, <2>1, <2>3 DEF DataInv
  <1>3. CASE Report(j, w)
    BY <1>1, <1>3 DEF Report, service, DataInv
  <1>4. CASE ReadStatus(j, w)
    <2>1. UNCHANGED <<reported, status>> /\ seen' \in [Job -> [Sites -> Status]]
      BY <1>4 DEF ReadStatus, service, DataInv
    <2> QED  BY <1>1, <2>1 DEF DataInv
  <1>5. CASE WriteStatus(j, w)
    <2>1. seen[j][w] \in Status /\ reported[j][w] \in 0 .. NSites /\ 0 \in 0 .. NSites
      BY SitesCounted DEF DataInv
    <2>2. status' \in Status
      BY <1>5, <2>1, StatusTypes DEF WriteStatus
    <2>3. reported' \in [Job -> [Sites -> 0 .. NSites]]
      BY <1>5, <2>1 DEF WriteStatus, DataInv
    <2>4. seen' \in [Job -> [Sites -> Status]]
      BY <1>5, StatusTypes DEF WriteStatus, DataInv
    <2> QED  BY <1>1, <2>2, <2>3, <2>4 DEF DataInv
  <1> QED  BY <1>2, <1>3, <1>4, <1>5 DEF CheckStep

LEMMA DataStep ==
  ASSUME JobInv, WorkInv, CountInv, DataInv, [STNext]_vars
  PROVE  DataInv'
  <1>1. CASE Others
    <2>1. UNCHANGED <<stopping, inBatch>>
      BY <1>1, OthersEffect DEF work
    <2>2. CASE \E j \in Job, w \in Sites : CheckStep(j, w)
      BY <2>2, CheckData
    <2>3. CASE ~\E j \in Job, w \in Sites : CheckStep(j, w)
      <3>1. UNCHANGED <<reported, seen, status>>
        BY <1>1, <2>3, OthersChecks DEF checks
      <3>2. CASE \E j \in Job : ProxyDispatched(j) \/ ProxyStart(j) \/ ProxyReturns(j)
        <4>1. UNCHANGED control /\ lateStart' \in BOOLEAN
          BY <3>2 DEF ProxyDispatched, ProxyStart, ProxyReturns, DataInv
        <4> QED  BY <2>1, <3>1, <4>1 DEF DataInv, control
      <3>3. CASE (\E s \in Session : EngineStep(s) \/ EngineFails(s)) \/ VpnStarts \/ VpnReturns
        <4>1. UNCHANGED <<control, lateStart>>
          BY <3>3 DEF EngineStep, EngineFails, VpnStarts, VpnReturns, Serving
        <4> QED  BY <2>1, <3>1, <4>1 DEF DataInv, control
      <3>4. CASE StartVpn \/ TestsAwaited \/ ForcePort \/ PortForced \/ SendStart
        <4>1. UNCHANGED lateStart /\ ctl' \in {"idle", "wait", "port", "closing"}
          BY <3>4 DEF StartVpn, TestsAwaited, ForcePort, PortForced, SendStart, CtlGo
        <4>2. gaveUp' \in BOOLEAN /\ vpnAsked' \in BOOLEAN
          BY <3>4 DEF StartVpn, TestsAwaited, ForcePort, PortForced, SendStart, DataInv, JobInv
        <4> QED  BY <2>1, <3>1, <4>1, <4>2 DEF DataInv
      <3> QED  BY <1>1, <2>3, <3>2, <3>3, <3>4 DEF Others
    <2> QED  BY <2>2, <2>3
  <1>2. CASE UNCHANGED vars
    BY <1>2 DEF vars, service, work, checks, control, DataInv
  <1> QED  BY <1>1, <1>2, CommandData, JobData, NextByActor

\* Every variable keeps its type: no check is counted twice, so that the status never
\* shows more sites than there are, and a batch never runs past its strategies.
THEOREM STTypeCorrect == STSpec => []STTypeOK
<1>1. STInit => CountInv /\ DataInv /\ AfterInv
  BY InitData DEF STInit, AfterInv
<1>2. JobInv /\ WorkInv /\ CountInv /\ DataInv /\ AfterInv /\ [STNext]_vars
        => CountInv' /\ DataInv' /\ AfterInv'
  BY CountStep, DataStep, AfterStep
<1>3. JobInv /\ WorkInv /\ PETypeOK /\ EngineInv /\ CountInv /\ DataInv /\ AfterInv => STTypeOK
  <2> SUFFICES ASSUME JobInv, WorkInv, PETypeOK, EngineInv, CountInv, DataInv, AfterInv PROVE STTypeOK
    OBVIOUS
  <2>1. currentTestJob \in Job \cup {0}
    BY ConstantsST DEF JobInv
  <2>2. testedCount \in [Job -> 0 .. NSites]
    <3>1. \A j \in Job : testedCount[j] \in 0 .. NSites
      BY SitesCounted DEF CountInv
    <3> QED  BY <3>1 DEF CountInv
  <2>3. before \subseteq Job
    BY DEF AfterInv
  <2>4. check \in [Job -> [Sites -> {"checking", "counted", "report", "write", "done"}]]
    BY DEF CountInv, CheckPoint
  <2> QED  BY <2>1, <2>2, <2>3, <2>4 DEF JobInv, WorkInv, EngineInv, DataInv, STTypeOK
<1> QED  BY <1>1, <1>2, <1>3, JobsAndEngine, PTL DEF STSpec
=============================================================================
