-------------------------- MODULE NativeProxy_proofs --------------------------
(***************************************************************************)
(* Safety of the native engine for any number of threads and descriptors.  *)
(*                                                                          *)
(* The argument has three parts: types (Typed); the pool current_pool names *)
(* belongs to a thread that is inside its loop (PoolInv); and, as long as   *)
(* no flag was reset by hand, one byedpi_main runs at a time and server_fd  *)
(* names the listener that one still holds (ListenerInv).                   *)
(***************************************************************************)
EXTENDS NativeProxy, TLAPS

\* A caller that is about to use a descriptor read one.
SeenInv == \A c \in Caller : cpc[c] \in {"shutdown", "clearFd", "forceShut"} => seenFd[c] \in Fd

Typed == NPTypeOK /\ SeenInv

LEMMA TypedInit == NPInit => Typed
<1> SUFFICES ASSUME NPInit PROVE Typed
  OBVIOUS
<1>1. NPTypeOK
  BY DEF NPInit, NPTypeOK, RunnerPc, CallerPc, Ops
<1>2. SeenInv
  BY DEF NPInit, SeenInv
<1>3. QED
  BY <1>1, <1>2 DEF Typed

LEMMA TypedRunner ==
  ASSUME Typed, NEW r \in Runner, JniStart(r) \/ RunnerStep(r) \/ AcceptFails(r)
  PROVE  Typed'
<1> USE DEF Typed, NPTypeOK, SeenInv, globals, runners, callers, kernel, history, RStep, RunnerPc
<1>1. CASE JniStart(r) \/ ParseArgs(r)
  BY <1>1 DEF JniStart, ParseArgs
<1>2. CASE Listen(r)
  BY <1>2 DEF Listen
<1>3. CASE Publish(r) \/ InitPool(r)
  BY <1>3 DEF Publish, InitPool
<1>4. CASE InitPoolFails(r)
  BY <1>4 DEF InitPoolFails, Close
<1>5. CASE AcceptFails(r)
  BY <1>5 DEF AcceptFails, DelListener, Close
<1>6. CASE LeaveLoop(r) \/ ClearServerFd(r)
  BY <1>6 DEF LeaveLoop, ClearServerFd
<1>7. CASE DestroyPool(r)
  BY <1>7 DEF DestroyPool, DelListener, Close
<1>8. CASE CloseListener(r)
  BY <1>8 DEF CloseListener, Close
<1>9. CASE FinishMain(r) \/ JniReturn(r)
  BY <1>9 DEF FinishMain, JniReturn
<1>10. QED
  BY <1>1, <1>2, <1>3, <1>4, <1>5, <1>6, <1>7, <1>8, <1>9 DEF RunnerStep

LEMMA TypedCaller ==
  ASSUME Typed, NEW c \in Caller,
         CallerStep(c) \/ \E o \in {"stop", "force", "teardown"} : Call(c, o)
  PROVE  Typed'
<1> USE DEF Typed, NPTypeOK, SeenInv, globals, runners, callers, kernel, history,
            CGoto, CStep, CallerPc, Ops
<1>1. ASSUME NEW o \in {"stop", "force", "teardown"}, Call(c, o) PROVE Typed'
  BY <1>1 DEF Call
<1>2. CASE CancelReadFd(c)
  BY <1>2 DEF CancelReadFd
<1>3. CASE CancelShutdown(c) \/ ForceShutdown(c)
  BY <1>3 DEF CancelShutdown, ForceShutdown, Shutdown
<1>4. CASE CancelClearFd(c)
  BY <1>4 DEF CancelClearFd
<1>5. CASE CancelReadPool(c)
  BY <1>5 DEF CancelReadPool, AfterCancel
<1>6. CASE CancelSetBrk(c)
  BY <1>6 DEF CancelSetBrk, AfterCancel
<1>7. CASE PollDone(c) \/ PollGivesUp(c)
  BY <1>7 DEF PollDone, PollGivesUp
<1>8. CASE ForceReadFd(c)
  BY <1>8 DEF ForceReadFd
<1>9. CASE ForceWaitDone(c) \/ ForceWaitExpires(c)
  BY <1>9 DEF ForceWaitDone, ForceWaitExpires, AfterForce
<1>10. CASE Cleanup(c)
  BY <1>10 DEF Cleanup
<1>11. QED
  BY <1>1, <1>2, <1>3, <1>4, <1>5, <1>6, <1>7, <1>8, <1>9, <1>10 DEF CallerStep

LEMMA TypedStep == Typed /\ [NPNext]_vars => Typed'
<1> SUFFICES ASSUME Typed, [NPNext]_vars PROVE Typed'
  OBVIOUS
<1>1. ASSUME NEW f \in Fd, JavaSocket(f) PROVE Typed'
  BY <1>1 DEF JavaSocket, Typed, NPTypeOK, SeenInv, globals, runners, callers, history
<1>2. CASE UNCHANGED vars
  BY <1>2 DEF vars, Typed, NPTypeOK, SeenInv, globals, runners, callers, kernel, history
<1>3. QED
  BY <1>1, <1>2, TypedRunner, TypedCaller DEF NPNext

LEMMA TypedAlways == NPSpec => []Typed
BY TypedInit, TypedStep, PTL DEF NPSpec

\* Every global, local and descriptor keeps its type.
THEOREM NPTypeCorrect == NPSpec => []NPTypeOK
<1>1. Typed => NPTypeOK
  BY DEF Typed
<1>2. QED
  BY <1>1, TypedAlways, PTL

-----------------------------------------------------------------------------
(* The published pool.                                                      *)

\* The thread current_pool belongs to is inside its loop, and a thread inside
\* its loop has a pool that was not freed.
PoolInv ==
  /\ currentPool # None => rpc[currentPool] = "loop"
  /\ \A r \in Runner : rpc[r] = "loop" => pool[r] \in {"live", "broken"}

LEMMA PoolStep == Typed /\ PoolInv /\ [NPNext]_vars => PoolInv'
<1> SUFFICES ASSUME Typed, PoolInv, [NPNext]_vars PROVE PoolInv'
  OBVIOUS
<1> USE NativeProxyAssumption
    DEF Typed, NPTypeOK, PoolInv, globals, runners, callers, kernel, history
<1>1. ASSUME NEW f \in Fd, JavaSocket(f) PROVE PoolInv'
  BY <1>1 DEF JavaSocket
<1>2. ASSUME NEW r \in Runner,
             \/ JniStart(r) \/ ParseArgs(r) \/ Listen(r) \/ Publish(r)
             \/ InitPoolFails(r) \/ ClearServerFd(r) \/ CloseListener(r)
             \/ FinishMain(r) \/ JniReturn(r)
      PROVE  PoolInv'
  BY <1>2 DEF JniStart, ParseArgs, Listen, Publish, InitPoolFails, ClearServerFd,
              CloseListener, FinishMain, JniReturn, RStep
<1>3. ASSUME NEW r \in Runner, InitPool(r) \/ AcceptFails(r) PROVE PoolInv'
  BY <1>3 DEF InitPool, AcceptFails, RStep
<1>4. ASSUME NEW r \in Runner, LeaveLoop(r) \/ DestroyPool(r) PROVE PoolInv'
  BY <1>4 DEF LeaveLoop, DestroyPool, RStep
<1>5. ASSUME NEW c \in Caller, CancelSetBrk(c) PROVE PoolInv'
  BY <1>5 DEF CancelSetBrk
<1>6. ASSUME NEW c \in Caller, CallerStep(c), ~CancelSetBrk(c) PROVE PoolInv'
  BY <1>6 DEF CallerStep, CancelReadFd, CancelShutdown, CancelClearFd, CancelReadPool,
              PollDone, PollGivesUp, ForceReadFd, ForceShutdown, ForceWaitDone,
              ForceWaitExpires, Cleanup
<1>7. ASSUME NEW c \in Caller, NEW o \in {"stop", "force", "teardown"}, Call(c, o)
      PROVE  PoolInv'
  BY <1>7 DEF Call
<1>8. CASE UNCHANGED vars
  BY <1>8 DEF vars
<1>9. QED
  BY <1>1, <1>2, <1>3, <1>4, <1>5, <1>6, <1>7, <1>8 DEF NPNext, RunnerStep

\* current_pool never names a freed pool: start_event_loop withdraws it before
\* destroy_pool (proxy.c), and no other thread publishes a pool it does not run.
THEOREM PublishedPoolAlwaysLive == NPSpec => []PublishedPoolLive
<1>1. NPInit => PoolInv
  BY DEF NPInit, PoolInv
<1>2. Typed /\ PoolInv => PublishedPoolLive
  BY DEF Typed, NPTypeOK, PoolInv, PublishedPoolLive
<1>3. QED
  BY <1>1, <1>2, PoolStep, TypedAlways, PTL DEF NPSpec

-----------------------------------------------------------------------------
(* One engine and its listener, until a flag is reset by hand.              *)

\* One byedpi_main runs at a time and g_proxy_running tells whether one does.
AloneInv ==
  /\ \A r, s \in Runner : Alive(r) /\ Alive(s) => r = s
  /\ proxyRunning <=> \E r \in Runner : Alive(r)

\* Between Listen and the close of its listener a thread owns the descriptor.
HoldsListener(r) == srvFd[r] \in Fd /\ owner[srvFd[r]] = r

\* server_fd is set only while its thread is past listen() and has not yet
\* withdrawn it, and it is that thread's listener.
ListenerInv ==
  /\ \A r \in Runner : rpc[r] \in {"publish", "pool"} => HoldsListener(r)
  /\ serverFd # None =>
       \E r \in Runner : /\ rpc[r] \in {"pool", "loop", "destroy", "clearFd"}
                         /\ srvFd[r] = serverFd /\ owner[serverFd] = r

CleanInv == ~forced => AloneInv /\ ListenerInv

LEMMA CleanStep == Typed /\ CleanInv /\ [NPNext]_vars => CleanInv'
<1> SUFFICES ASSUME Typed, CleanInv, [NPNext]_vars, ~forced'
             PROVE  AloneInv' /\ ListenerInv'
  BY DEF CleanInv
<1> USE NativeProxyAssumption DEF Typed, NPTypeOK, globals, runners, callers, kernel, history
<1>1. ~forced
  BY DEF NPNext, JavaSocket, RunnerStep, JniStart, ParseArgs, Listen, Publish, InitPool,
         InitPoolFails, AcceptFails, LeaveLoop, DestroyPool, ClearServerFd, CloseListener,
         FinishMain, JniReturn, CallerStep, Call, CancelReadFd, CancelShutdown,
         CancelClearFd, CancelReadPool, CancelSetBrk, PollDone, PollGivesUp, ForceReadFd,
         ForceShutdown, ForceWaitDone, ForceWaitExpires, Cleanup, vars
<1>2. AloneInv /\ ListenerInv
  BY <1>1 DEF CleanInv
<1> USE <1>2 DEF AloneInv, ListenerInv, HoldsListener, Alive
<1>3. ASSUME NEW f \in Fd, JavaSocket(f) PROVE AloneInv' /\ ListenerInv'
  BY <1>3 DEF JavaSocket
<1>4. ASSUME NEW r \in Runner, JniStart(r) PROVE AloneInv' /\ ListenerInv'
  BY <1>4 DEF JniStart, RStep
<1>5. ASSUME NEW r \in Runner, ParseArgs(r) PROVE AloneInv' /\ ListenerInv'
  BY <1>5 DEF ParseArgs, RStep, RunnerPc
<1>6. ASSUME NEW r \in Runner, Listen(r) PROVE AloneInv' /\ ListenerInv'
  BY <1>6 DEF Listen, RStep, RunnerPc
<1>7. ASSUME NEW r \in Runner, Publish(r) \/ InitPool(r) PROVE AloneInv' /\ ListenerInv'
  BY <1>7 DEF Publish, InitPool, RStep, RunnerPc
<1>8. ASSUME NEW r \in Runner, InitPoolFails(r) PROVE AloneInv' /\ ListenerInv'
  BY <1>8 DEF InitPoolFails, RStep, RunnerPc, Close
<1>9. ASSUME NEW r \in Runner, AcceptFails(r) PROVE AloneInv' /\ ListenerInv'
  BY <1>9 DEF AcceptFails, RunnerPc, DelListener, Close
<1>10. ASSUME NEW r \in Runner, LeaveLoop(r) PROVE AloneInv' /\ ListenerInv'
  BY <1>10 DEF LeaveLoop, RStep, RunnerPc
<1>11. ASSUME NEW r \in Runner, DestroyPool(r) PROVE AloneInv' /\ ListenerInv'
  BY <1>11 DEF DestroyPool, RStep, RunnerPc, DelListener, Close
<1>12. ASSUME NEW r \in Runner, ClearServerFd(r) \/ CloseListener(r)
       PROVE  AloneInv' /\ ListenerInv'
  BY <1>12 DEF ClearServerFd, CloseListener, RStep, RunnerPc, Close
<1>13. ASSUME NEW r \in Runner, FinishMain(r) \/ JniReturn(r)
       PROVE  AloneInv' /\ ListenerInv'
  BY <1>13 DEF FinishMain, JniReturn, RStep, RunnerPc
<1>14. ASSUME NEW c \in Caller, CallerStep(c) PROVE AloneInv' /\ ListenerInv'
  BY <1>14 DEF CallerStep, CancelReadFd, CancelShutdown, CancelClearFd, CancelReadPool,
               CancelSetBrk, PollDone, PollGivesUp, ForceReadFd, ForceShutdown,
               ForceWaitDone, ForceWaitExpires, Cleanup
<1>15. ASSUME NEW c \in Caller, NEW o \in {"stop", "force", "teardown"}, Call(c, o)
       PROVE  AloneInv' /\ ListenerInv'
  BY <1>15 DEF Call
<1>16. CASE UNCHANGED vars
  BY <1>16 DEF vars
<1>17. QED
  BY <1>3, <1>4, <1>5, <1>6, <1>7, <1>8, <1>9, <1>10, <1>11, <1>12, <1>13, <1>14,
     <1>15, <1>16 DEF NPNext, RunnerStep

LEMMA CleanAlways == NPSpec => []CleanInv
<1>1. NPInit => CleanInv
  BY DEF NPInit, CleanInv, AloneInv, ListenerInv, Alive
<1>2. QED
  BY <1>1, CleanStep, TypedAlways, PTL DEF NPSpec

\* A stop that reads server_fd gets a listener of the engine, never a number
\* the rest of the application has recycled, unless jniForceClose has reset the
\* flag by hand (native-lib.cpp:251).
THEOREM ServerFdAlwaysListener == NPSpec => []ServerFdIsListener
<1>1. CleanInv => ServerFdIsListener
  BY DEF CleanInv, ListenerInv, ServerFdIsListener
<1>2. QED
  BY <1>1, CleanAlways, PTL

\* Until a flag is reset by hand the groups and lists of a byedpi_main are freed
\* under it by the proxy.cleanup() of a teardown only (native-lib.cpp:130-136).
THEOREM ParamsAlwaysKept == NPSpec => ParamsKept
<1> DEFINE Kept == forced \/ \A r \in Runner :
             UsesParams(r)' /\ params = r =>
               params' = r \/ \E c \in Caller : cpc[c] = "cleanup" /\ cpc'[c] = "idle"
<1>1. ASSUME Typed, CleanInv, [NPNext]_vars, ~forced, NEW r \in Runner,
             UsesParams(r)', params = r, params' # r
      PROVE  \E c \in Caller : cpc[c] = "cleanup" /\ cpc'[c] = "idle"
  <2> USE <1>1 DEF globals, Typed, NPTypeOK
  <2>1. ASSUME NEW s \in Runner, JniStart(s) \/ ParseArgs(s) \/ FinishMain(s) PROVE FALSE
    BY <2>1 DEF JniStart, ParseArgs, FinishMain, RStep, UsesParams, CleanInv, AloneInv, Alive,
                RunnerPc
  <2>2. ASSUME NEW s \in Runner, RunnerStep(s) \/ AcceptFails(s),
               ~ParseArgs(s), ~FinishMain(s)
        PROVE  FALSE
    BY <2>2 DEF RunnerStep, Listen, Publish, InitPool, InitPoolFails, AcceptFails, LeaveLoop,
                DestroyPool, ClearServerFd, CloseListener, JniReturn
  <2>3. ASSUME NEW c \in Caller, CallerStep(c), ~Cleanup(c) PROVE FALSE
    BY <2>3 DEF CallerStep, CancelReadFd, CancelShutdown, CancelClearFd, CancelReadPool,
                CancelSetBrk, PollDone, PollGivesUp, ForceReadFd, ForceShutdown,
                ForceWaitDone, ForceWaitExpires
  <2>4. ASSUME NEW c \in Caller, Cleanup(c)
        PROVE  cpc[c] = "cleanup" /\ cpc'[c] = "idle"
    BY <2>4 DEF Cleanup, CStep, CGoto
  <2>5. ASSUME NEW f \in Fd, JavaSocket(f) PROVE FALSE
    BY <2>5 DEF JavaSocket
  <2>6. ASSUME NEW c \in Caller, NEW o \in {"stop", "force", "teardown"}, Call(c, o)
        PROVE  FALSE
    BY <2>6 DEF Call
  <2>7. ~UNCHANGED vars
    BY DEF vars
  <2>8. QED
    BY <2>1, <2>2, <2>3, <2>4, <2>5, <2>6, <2>7 DEF NPNext
<1>2. Typed /\ CleanInv /\ [NPNext]_vars => [Kept]_vars
  BY <1>1
<1>3. QED
  BY <1>2, TypedAlways, CleanAlways, PTL DEF NPSpec, ParamsKept

\* "Let's just fail if it's already running to avoid corruption": one byedpi_main
\* at a time and an exact flag, until the flag is reset by hand (native-lib.cpp:168).
THEOREM OneMainAlways == NPSpec => []OneMainAtATime
<1>1. CleanInv => OneMainAtATime
  <2>1. \A r \in Runner : [q \in Runner |-> phaseOf(q)][r] # "out" <=> Alive(r)
    BY DEF phaseOf, Alive
  <2>2. QED
    BY <2>1 DEF CleanInv, AloneInv, OneMainAtATime, Engine!OneMain
<1>2. QED
  BY <1>1, CleanAlways, PTL

-----------------------------------------------------------------------------
(* NativeProxy implements ProxyEngine.                                      *)

Ph == [r \in Runner |-> phaseOf(r)]

\* A step that moves one thread and no pool moves that thread's phase only.
LEMMA PhaseMove ==
  ASSUME Typed, NEW r \in Runner, NEW to \in RunnerPc,
         rpc' = [rpc EXCEPT ![r] = to], \A s \in Runner : s # r => pool'[s] = pool[s]
  PROVE  /\ Ph' = [Ph EXCEPT ![r] = phaseOf(r)']
         /\ rpc'[r] = to
BY DEF Typed, NPTypeOK, Ph, phaseOf

\* A step that moves no thread and no pool moves no phase.
LEMMA PhaseStays ==
  ASSUME UNCHANGED <<rpc, pool>>
  PROVE  Ph' = Ph
BY DEF Ph, phaseOf

\* Breaking a pool stops its thread's loop, if the thread is still in it.
LEMMA PhaseBreaks ==
  ASSUME Typed, NEW r \in Runner, UNCHANGED rpc, pool' = [pool EXCEPT ![r] = "broken"],
         pool[r] # "dead"
  PROVE  \/ Ph' = Ph
         \/ Ph[r] = "serve" /\ Ph' = [Ph EXCEPT ![r] = "quit"]
<1>1. CASE rpc[r] = "loop" /\ pool[r] = "live"
  BY <1>1 DEF Typed, NPTypeOK, Ph, phaseOf
<1>2. CASE rpc[r] # "loop" \/ pool[r] = "broken"
  BY <1>2 DEF Typed, NPTypeOK, Ph, phaseOf
<1>3. QED
  BY <1>1, <1>2 DEF Typed, NPTypeOK

LEMMA RunnerRefines ==
  ASSUME Typed, NEW r \in Runner, JniStart(r) \/ RunnerStep(r) \/ AcceptFails(r)
  PROVE  [Engine!PENext]_(Engine!evars)
<1> USE DEF Engine!PENext, Engine!evars, Engine!PhaseStep, RStep, RunnerPc, runners, history
<1>1. CASE JniStart(r)
  <2>1. rpc[r] = "idle" /\ Ph' = [Ph EXCEPT ![r] = phaseOf(r)'] /\ rpc'[r] = "parse"
    BY <1>1, PhaseMove DEF JniStart
  <2>2. QED
    BY <1>1, <2>1 DEF JniStart, Engine!Start, Ph, phaseOf
<1>2. CASE ParseArgs(r)
  <2>1. /\ rpc[r] = "parse" /\ rpc'[r] \in {"listen", "return"}
        /\ Ph' = [Ph EXCEPT ![r] = phaseOf(r)']
    BY <1>2, PhaseMove DEF ParseArgs
  <2>2. QED
    BY <1>2, <2>1 DEF ParseArgs, Engine!Quit, Ph, phaseOf
<1>3. CASE Listen(r)
  <2>1. /\ rpc[r] = "listen" /\ rpc'[r] \in {"publish", "fail"}
        /\ Ph' = [Ph EXCEPT ![r] = phaseOf(r)']
    BY <1>3, PhaseMove DEF Listen
  <2>2. QED
    BY <1>3, <2>1 DEF Listen, globals, Engine!Quit, Engine!Bind, Ph, phaseOf
<1>4. CASE Publish(r)
  <2>1. rpc[r] = "publish" /\ rpc'[r] = "pool" /\ Ph' = [Ph EXCEPT ![r] = phaseOf(r)']
    BY <1>4, PhaseMove DEF Publish
  <2>2. QED
    BY <1>4, <2>1 DEF Publish, Engine!Announce, Ph, phaseOf
<1>5. CASE InitPool(r)
  <2>1. /\ rpc[r] = "pool" /\ rpc'[r] = "loop" /\ pool'[r] = "live"
        /\ Ph' = [Ph EXCEPT ![r] = phaseOf(r)']
    BY <1>5, PhaseMove DEF InitPool, Typed, NPTypeOK
  <2>2. QED
    BY <1>5, <2>1 DEF InitPool, Ph, phaseOf
<1>6. CASE InitPoolFails(r)
  <2>1. rpc[r] = "pool" /\ rpc'[r] = "fail" /\ Ph' = [Ph EXCEPT ![r] = phaseOf(r)']
    BY <1>6, PhaseMove DEF InitPoolFails
  <2>2. QED
    BY <1>6, <2>1 DEF InitPoolFails, Engine!Quit, Ph, phaseOf
<1>7. CASE AcceptFails(r)
  <2>1. pool[r] # "dead" => \/ Ph' = Ph
                            \/ Ph[r] = "serve" /\ Ph' = [Ph EXCEPT ![r] = "quit"]
    BY <1>7, PhaseBreaks DEF AcceptFails
  <2>2. pool[r] = "dead" => Ph' = Ph
    BY <1>7 DEF AcceptFails, Typed, NPTypeOK, Ph, phaseOf
  <2>3. QED
    BY <1>7, <2>1, <2>2 DEF AcceptFails, globals, Engine!Quit, Ph
<1>8. CASE \/ LeaveLoop(r) \/ DestroyPool(r) \/ ClearServerFd(r) \/ CloseListener(r)
           \/ FinishMain(r)
  <2>1. /\ phaseOf(r) = "quit"
        /\ rpc'[r] \in {"destroy", "clearFd", "close", "finish", "return"}
        /\ Ph' = [Ph EXCEPT ![r] = phaseOf(r)']
    BY <1>8, PhaseMove DEF LeaveLoop, DestroyPool, ClearServerFd, CloseListener, FinishMain,
       Typed, NPTypeOK, phaseOf
  <2>2. phaseOf(r)' = "quit"
    BY <2>1 DEF phaseOf
  <2>3. Ph' = Ph
    BY <2>1, <2>2 DEF Ph
  <2>4. QED
    BY <1>8, <2>3 DEF LeaveLoop, DestroyPool, ClearServerFd, CloseListener, FinishMain,
       globals, Ph
<1>9. CASE JniReturn(r)
  <2>1. rpc[r] = "return" /\ rpc'[r] = "idle" /\ Ph' = [Ph EXCEPT ![r] = phaseOf(r)']
    BY <1>9, PhaseMove DEF JniReturn
  <2>2. QED
    BY <1>9, <2>1 DEF JniReturn, Engine!Return, Ph, phaseOf
<1>10. QED
  BY <1>1, <1>2, <1>3, <1>4, <1>5, <1>6, <1>7, <1>8, <1>9 DEF RunnerStep

LEMMA CallerRefines ==
  ASSUME Typed, NEW c \in Caller, CallerStep(c)
  PROVE  [Engine!PENext]_(Engine!evars)
<1> USE DEF Engine!PENext, Engine!evars, Engine!PhaseStep, globals, runners, history
<1>1. CASE CancelSetBrk(c)
  <2>1. ASSUME NEW r \in Runner, pool[r] # "dead", pool' = [pool EXCEPT ![r] = "broken"]
        PROVE  [Engine!PENext]_(Engine!evars)
    <3>1. Ph' = Ph \/ (Ph[r] = "serve" /\ Ph' = [Ph EXCEPT ![r] = "quit"])
      BY <1>1, <2>1, PhaseBreaks DEF CancelSetBrk
    <3>2. QED
      BY <1>1, <3>1 DEF CancelSetBrk, Engine!Quit, Ph
  <2>2. CASE pool' = pool
    BY <1>1, <2>2, PhaseStays DEF CancelSetBrk, Ph
  <2>3. CASE pool' = [pool EXCEPT ![seenPool[c]] = "broken"] /\ seenPool[c] \notin Runner
    <3>1. pool' = pool
      BY <2>3 DEF Typed, NPTypeOK
    <3>2. QED
      BY <2>2, <3>1
  <2>4. QED
    BY <1>1, <2>1, <2>2, <2>3 DEF CancelSetBrk
<1>2. CASE ForceWaitExpires(c)
  BY <1>2, PhaseStays DEF ForceWaitExpires, Engine!ResetFlag, Ph
<1>3. CASE \/ CancelReadFd(c) \/ CancelShutdown(c) \/ CancelClearFd(c) \/ CancelReadPool(c)
           \/ PollDone(c) \/ PollGivesUp(c) \/ ForceReadFd(c) \/ ForceShutdown(c)
           \/ ForceWaitDone(c) \/ Cleanup(c)
  BY <1>3, PhaseStays DEF CancelReadFd, CancelShutdown, CancelClearFd, CancelReadPool,
     PollDone, PollGivesUp, ForceReadFd, ForceShutdown, ForceWaitDone, Cleanup, Ph
<1>4. QED
  BY <1>1, <1>2, <1>3 DEF CallerStep

\* Whatever the interleaving of stops, force-closes and teardowns, the threads
\* show the services nothing but the engine of ProxyEngine: a flag that is up
\* from jniStartProxy to its return, and a byedpi_main that goes through its
\* phases once (native-lib.cpp:163-258, proxy.c:48-60, 1082-1166).
THEOREM EngineImplemented == NPSpec => ImplementsEngine
<1>1. NPInit => Engine!PEInit
  BY DEF NPInit, Engine!PEInit, phaseOf
<1>2. Typed /\ [NPNext]_vars => [Engine!PENext]_(Engine!evars)
  <2> SUFFICES ASSUME Typed, [NPNext]_vars PROVE [Engine!PENext]_(Engine!evars)
    OBVIOUS
  <2>1. ASSUME NEW f \in Fd, JavaSocket(f) PROVE [Engine!PENext]_(Engine!evars)
    BY <2>1, PhaseStays DEF JavaSocket, Engine!evars, Ph, globals, runners, history
  <2>2. ASSUME NEW c \in Caller, NEW o \in {"stop", "force", "teardown"}, Call(c, o)
        PROVE  [Engine!PENext]_(Engine!evars)
    BY <2>2, PhaseStays DEF Call, Engine!evars, Ph, globals, runners, history
  <2>3. CASE UNCHANGED vars
    BY <2>3, PhaseStays DEF vars, Engine!evars, Ph, globals, runners, history
  <2>4. QED
    BY <2>1, <2>2, <2>3, RunnerRefines, CallerRefines DEF NPNext
<1>3. QED
  BY <1>1, <1>2, TypedAlways, PTL DEF NPSpec, ImplementsEngine, Engine!PESpec
=============================================================================
