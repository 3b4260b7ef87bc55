----------------------------- MODULE NativeProxy -----------------------------
(***************************************************************************)
(* The byedpi engine as the application drives it through native-lib.cpp:  *)
(* threads that run jniStartProxy (a whole byedpi_main each) and threads    *)
(* that call jniStopProxy, jniForceClose or the teardown sequence of        *)
(* DpiVpnService.stopVpnInternal, over the process-wide globals             *)
(* g_proxy_running, server_fd, current_pool and params.                     *)
(*                                                                          *)
(* A region of code between lock() and unlock() of g_proxy_mutex is one     *)
(* step; server_fd, current_pool and params are read and written without    *)
(* the mutex, so each such access is a step of its own.                     *)
(***************************************************************************)
EXTENDS FiniteSets

CONSTANTS
  Runner,       \* threads that call jniStartProxy
  Caller,       \* threads that stop the proxy
  Fd,           \* descriptors of the process that matter here
  Java,         \* owner of a descriptor opened by Kotlin code
  None,         \* no descriptor, no pool, no owner
  WaitExpires   \* may the 2 s wait of jniForceClose run out?

ASSUME NativeProxyAssumption ==
  /\ Java \notin Runner          \* owners are told apart
  /\ None \notin Runner \cup Fd \cup {Java}
  /\ WaitExpires \in BOOLEAN

VARIABLES
  proxyRunning,  \* g_proxy_running
  serverFd,      \* server_fd (None is -1)
  currentPool,   \* current_pool: the runner whose pool it points to, or None
  params,        \* whose parsed groups params.dp holds (None: cleared)
  rpc,           \* control point of each runner
  srvFd,         \* the runner's local srvfd
  armed,         \* runners whose listener event is in their pool
  pool,          \* life of each runner's pool: "dead", "live", "broken"
  owner,         \* who holds each descriptor
  shut,          \* listeners on which shutdown() was called
  cpc,           \* control point of each caller
  op,            \* what the caller was asked to do
  seenFd,        \* descriptor the caller read from server_fd
  seenPool,      \* pool the caller read from current_pool
  forced,        \* history: the running flag was reset by hand (line 253)
  foreignClosed  \* history: close() hit a descriptor of Kotlin code

globals   == <<proxyRunning, serverFd, currentPool, params>>
runners   == <<rpc, srvFd, armed, pool>>
callers   == <<cpc, op, seenFd, seenPool>>
kernel    == <<owner, shut>>
history   == <<forced, foreignClosed>>
vars      == <<globals, runners, kernel, callers, history>>

RunnerPc == {"idle", "parse", "listen", "publish", "pool", "loop", "destroy",
             "clearFd", "close", "finish", "fail", "return"}
CallerPc == {"idle", "readFd", "shutdown", "clearFd", "readPool", "setBrk",
             "poll", "forceRead", "forceShut", "forceWait", "cleanup"}
Ops      == {"none", "stop", "force", "teardown", "teardownForce"}

\* A byedpi_main is between its call and the end of jniStartProxy.
Alive(r)  == rpc[r] # "idle"

\* A byedpi_main that reads params.
UsesParams(r) == rpc[r] \in {"listen", "publish", "pool", "loop", "destroy"}

NPInit ==
  /\ proxyRunning = FALSE /\ serverFd = None /\ currentPool = None /\ params = None
  /\ rpc = [r \in Runner |-> "idle"]
  /\ srvFd = [r \in Runner |-> None]
  /\ armed = {}
  /\ pool = [r \in Runner |-> "dead"]
  /\ owner = [f \in Fd |-> None]
  /\ shut = {}
  /\ cpc = [c \in Caller |-> "idle"]
  /\ op = [c \in Caller |-> "none"]
  /\ seenFd = [c \in Caller |-> None]
  /\ seenPool = [c \in Caller |-> None]
  /\ forced = FALSE /\ foreignClosed = FALSE

-----------------------------------------------------------------------------
(* Descriptors.                                                            *)

\* close(fd): the number becomes free whoever held it.
Close(f) ==
  /\ owner' = [owner EXCEPT ![f] = None]
  /\ shut' = shut \ {f}
  /\ foreignClosed' = (foreignClosed \/ owner[f] = Java)

\* shutdown(fd, SHUT_RDWR): accept() on a listener fails from now on.
Shutdown(f) == shut' = IF owner[f] \in Runner THEN shut \cup {f} ELSE shut

\* del_event on the listener: it spares the descriptor server_fd names.
DelListener(r) ==
  IF srvFd[r] # serverFd THEN Close(srvFd[r])
                         ELSE UNCHANGED <<owner, shut, foreignClosed>>

\* Sockets of the rest of the application come and go.
JavaSocket(f) ==
  /\ \/ owner[f] = None /\ owner' = [owner EXCEPT ![f] = Java]
     \/ owner[f] = Java /\ owner' = [owner EXCEPT ![f] = None]
  /\ UNCHANGED <<globals, runners, shut, callers, history>>

-----------------------------------------------------------------------------
(* jniStartProxy and byedpi_main.                                          *)

RStep(r, from, to) == rpc[r] = from /\ rpc' = [rpc EXCEPT ![r] = to]

\* Mutant of JniStart: the flag is set without looking at it.
JniStartUnchecked(r) ==
  /\ RStep(r, "idle", "parse")
  /\ proxyRunning' = TRUE
  /\ params' = None
  /\ UNCHANGED <<serverFd, currentPool, srvFd, armed, pool, kernel, callers, history>>

\* The flag is taken and params reset under the mutex; a caller that finds
\* the flag set gets -1 and changes nothing.
JniStart(r) ==
  /\ ~proxyRunning
  /\ RStep(r, "idle", "parse")
  /\ proxyRunning' = TRUE
  /\ params' = None
  /\ UNCHANGED <<serverFd, currentPool, srvFd, armed, pool, kernel, callers, history>>

\* parse_args and init fill params, or reject the arguments.
ParseArgs(r) ==
  /\ \/ RStep(r, "parse", "listen") /\ params' = r
     \/ RStep(r, "parse", "return") /\ params' = None
  /\ UNCHANGED <<proxyRunning, serverFd, currentPool, srvFd, armed, pool, kernel,
                 callers, history>>

Listen(r) ==
  /\ \/ /\ RStep(r, "listen", "publish")
        /\ \E f \in Fd : /\ owner[f] = None
                         /\ owner' = [owner EXCEPT ![f] = r]
                         /\ srvFd' = [srvFd EXCEPT ![r] = f]
     \/ RStep(r, "listen", "fail") /\ UNCHANGED <<owner, srvFd>>
  /\ UNCHANGED <<globals, armed, pool, shut, callers, history>>

Publish(r) ==
  /\ RStep(r, "publish", "pool")
  /\ serverFd' = srvFd[r]
  /\ UNCHANGED <<proxyRunning, currentPool, params, srvFd, armed, pool, kernel,
                 callers, history>>

InitPool(r) ==
  /\ RStep(r, "pool", "loop")
  /\ currentPool' = r
  /\ pool' = [pool EXCEPT ![r] = "live"]
  /\ armed' = armed \cup {r}
  /\ UNCHANGED <<proxyRunning, serverFd, params, srvFd, kernel, callers, history>>

\* init_pool or the first add_event fails.
InitPoolFails(r) ==
  /\ RStep(r, "pool", "fail")
  /\ serverFd' = None
  /\ srvFd' = [srvFd EXCEPT ![r] = None]
  /\ Close(srvFd[r])
  /\ UNCHANGED <<proxyRunning, currentPool, params, armed, pool, callers, forced>>

\* on_accept fails (the listener was shut down, or no descriptor is left):
\* it breaks the loop and loop_event deletes the listener's event.
AcceptFails(r) ==
  /\ rpc[r] = "loop" /\ r \in armed
  /\ armed' = armed \ {r}
  /\ pool' = [pool EXCEPT ![r] = "broken"]
  /\ DelListener(r)
  /\ UNCHANGED <<globals, rpc, srvFd, callers, forced>>

\* Mutant of LeaveLoop: current_pool is not withdrawn.
LeaveLoopPublished(r) ==
  /\ pool[r] = "broken"
  /\ RStep(r, "loop", "destroy")
  /\ UNCHANGED <<globals, srvFd, armed, pool, kernel, callers, history>>

\* loop_event sees brk; current_pool is withdrawn before the pool is freed.
LeaveLoop(r) ==
  /\ pool[r] = "broken"
  /\ RStep(r, "loop", "destroy")
  /\ currentPool' = None
  /\ UNCHANGED <<proxyRunning, serverFd, params, srvFd, armed, pool, kernel,
                 callers, history>>

DestroyPool(r) ==
  /\ RStep(r, "destroy", "clearFd")
  /\ pool' = [pool EXCEPT ![r] = "dead"]
  /\ armed' = armed \ {r}
  /\ IF r \in armed THEN DelListener(r) ELSE UNCHANGED <<owner, shut, foreignClosed>>
  /\ UNCHANGED <<globals, srvFd, callers, forced>>

\* Mutant of ClearServerFd: server_fd keeps naming the listener about to be closed.
KeepServerFd(r) ==
  /\ RStep(r, "clearFd", "close")
  /\ UNCHANGED <<globals, srvFd, armed, pool, kernel, callers, history>>

ClearServerFd(r) ==
  /\ RStep(r, "clearFd", "close")
  /\ serverFd' = None
  /\ UNCHANGED <<proxyRunning, currentPool, params, srvFd, armed, pool, kernel,
                 callers, history>>

CloseListener(r) ==
  /\ RStep(r, "close", "finish")
  /\ Close(srvFd[r])
  /\ srvFd' = [srvFd EXCEPT ![r] = None]
  /\ UNCHANGED <<globals, armed, pool, callers, forced>>

\* The end of byedpi_main; only the successful path clears server_fd.
FinishMain(r) ==
  /\ \/ RStep(r, "finish", "return") /\ serverFd' = None
     \/ RStep(r, "fail", "return") /\ UNCHANGED serverFd
  /\ params' = None
  /\ UNCHANGED <<proxyRunning, currentPool, srvFd, armed, pool, kernel, callers, history>>

\* Mutant of JniReturn: the flag stays up.
JniReturnRunning(r) ==
  /\ RStep(r, "return", "idle")
  /\ serverFd' = None
  /\ UNCHANGED <<proxyRunning, currentPool, params, srvFd, armed, pool, kernel, callers,
                 history>>

JniReturn(r) ==
  /\ RStep(r, "return", "idle")
  /\ serverFd' = None
  /\ proxyRunning' = FALSE
  /\ UNCHANGED <<currentPool, params, srvFd, armed, pool, kernel, callers, history>>

RunnerStep(r) ==
  \/ ParseArgs(r) \/ Listen(r) \/ Publish(r) \/ InitPool(r) \/ InitPoolFails(r)
  \/ LeaveLoop(r) \/ DestroyPool(r) \/ ClearServerFd(r) \/ CloseListener(r)
  \/ FinishMain(r) \/ JniReturn(r)

-----------------------------------------------------------------------------
(* on_cancel, jniForceClose and the teardown of stopVpnInternal.           *)

CGoto(c, from, to) == cpc[c] = from /\ cpc' = [cpc EXCEPT ![c] = to]

\* A step inside a call; the call is over once the caller is idle again.
CStep(c, from, to) ==
  /\ CGoto(c, from, to)
  /\ op' = [op EXCEPT ![c] = IF to = "idle" THEN "none" ELSE @]

\* Where a caller goes once byedpi_stop has returned.
AfterCancel(c) ==
  CASE op[c] = "stop"     -> "idle"
    [] op[c] = "teardown" -> "poll"
    [] OTHER              -> "forceRead"

\* Mutant of AfterForce: control goes on by the kind of the call.
AfterForceOp(c) == IF op[c] = "teardownForce" THEN "cleanup" ELSE op[c]

\* Where a caller goes once proxy.forceClose() has returned.
AfterForce(c) == IF op[c] = "teardownForce" THEN "cleanup" ELSE "idle"

Call(c, o) ==
  /\ CGoto(c, "idle", "readFd")
  /\ op' = [op EXCEPT ![c] = o]
  /\ UNCHANGED <<globals, runners, kernel, seenFd, seenPool, history>>

\* Mutant of CancelReadFd: a stop under way is taken for enough.
CancelReadFdOnce(c) ==
  /\ CStep(c, "readFd", IF \E d \in Caller \ {c} : cpc[d] # "idle" THEN AfterCancel(c)
                        ELSE IF serverFd # None THEN "shutdown" ELSE "readPool")
  /\ seenFd' = [seenFd EXCEPT ![c] = serverFd]
  /\ UNCHANGED <<globals, runners, kernel, seenPool, history>>

CancelReadFd(c) ==
  /\ CStep(c, "readFd", IF serverFd # None THEN "shutdown" ELSE "readPool")
  /\ seenFd' = [seenFd EXCEPT ![c] = serverFd]
  /\ UNCHANGED <<globals, runners, kernel, seenPool, history>>

CancelShutdown(c) ==
  /\ CStep(c, "shutdown", "clearFd")
  /\ Shutdown(seenFd[c])
  /\ UNCHANGED <<globals, runners, owner, seenFd, seenPool, history>>

\* server_fd is withdrawn unless another one was published meanwhile.
CancelClearFd(c) ==
  /\ CStep(c, "clearFd", "readPool")
  /\ serverFd' = IF serverFd = seenFd[c] THEN None ELSE serverFd
  /\ seenFd' = [seenFd EXCEPT ![c] = None]
  /\ UNCHANGED <<proxyRunning, currentPool, params, runners, kernel, seenPool, history>>

CancelReadPool(c) ==
  /\ CStep(c, "readPool", IF currentPool # None THEN "setBrk" ELSE AfterCancel(c))
  /\ seenPool' = [seenPool EXCEPT ![c] = currentPool]
  /\ UNCHANGED <<globals, runners, kernel, seenFd, history>>

\* brk and the wakeup pipe.  The pool may have been freed since it was read:
\* the write is then lost, or lands in a pool allocated at the same address
\* (or ends the process, which nothing here outlives).
CancelSetBrk(c) ==
  /\ CStep(c, "setBrk", AfterCancel(c))
  /\ \/ /\ pool[seenPool[c]] # "dead"
        /\ pool' = [pool EXCEPT ![seenPool[c]] = "broken"]
     \/ /\ pool[seenPool[c]] = "dead"
        /\ \/ UNCHANGED pool
           \/ \E r \in Runner : pool[r] = "live" /\ pool' = [pool EXCEPT ![r] = "broken"]
  /\ seenPool' = [seenPool EXCEPT ![c] = None]
  /\ UNCHANGED <<globals, rpc, srvFd, armed, kernel, seenFd, history>>

\* stopVpnInternal polls isRunning(); after 30 rounds it escalates to
\* proxy.forceClose(), else it goes on to proxy.cleanup().
PollDone(c) ==
  /\ CStep(c, "poll", "cleanup")
  /\ ~proxyRunning
  /\ UNCHANGED <<globals, runners, kernel, seenFd, seenPool, history>>

PollGivesUp(c) ==
  /\ CGoto(c, "poll", "readFd")
  /\ proxyRunning
  /\ op' = [op EXCEPT ![c] = "teardownForce"]
  /\ UNCHANGED <<globals, runners, kernel, seenFd, seenPool, history>>

ForceReadFd(c) ==
  /\ CStep(c, "forceRead", IF serverFd # None THEN "forceShut" ELSE "forceWait")
  /\ seenFd' = [seenFd EXCEPT ![c] = serverFd]
  /\ UNCHANGED <<globals, runners, kernel, seenPool, history>>

ForceShutdown(c) ==
  /\ CStep(c, "forceShut", "forceWait")
  /\ Shutdown(seenFd[c])
  /\ seenFd' = [seenFd EXCEPT ![c] = None]
  /\ UNCHANGED <<globals, runners, owner, seenPool, history>>

\* wait_for returns with the flag down.
ForceWaitDone(c) ==
  /\ CStep(c, "forceWait", AfterForce(c))
  /\ ~proxyRunning
  /\ UNCHANGED <<globals, runners, kernel, seenFd, seenPool, history>>

\* Mutant of ForceWaitExpires: wait() in place of wait_for().
ForceWaitForever(c) ==
  /\ WaitExpires
  /\ CStep(c, "forceWait", AfterForce(c))
  /\ ~proxyRunning
  /\ forced' = TRUE
  /\ UNCHANGED <<globals, runners, kernel, seenFd, seenPool, foreignClosed>>

\* wait_for runs out: "resetting state manually".
ForceWaitExpires(c) ==
  /\ WaitExpires
  /\ CStep(c, "forceWait", AfterForce(c))
  /\ proxyRunning
  /\ proxyRunning' = FALSE
  /\ forced' = TRUE
  /\ UNCHANGED <<serverFd, currentPool, params, runners, kernel, seenFd, seenPool,
                 foreignClosed>>

\* proxy.cleanup(): clear_params and reset_params.
Cleanup(c) ==
  /\ CStep(c, "cleanup", "idle")
  /\ params' = None
  /\ UNCHANGED <<proxyRunning, serverFd, currentPool, runners, kernel, seenFd,
                 seenPool, history>>

CallerStep(c) ==
  \/ CancelReadFd(c) \/ CancelShutdown(c) \/ CancelClearFd(c) \/ CancelReadPool(c)
  \/ CancelSetBrk(c) \/ PollDone(c) \/ PollGivesUp(c) \/ ForceReadFd(c)
  \/ ForceShutdown(c) \/ ForceWaitDone(c) \/ ForceWaitExpires(c) \/ Cleanup(c)

NPNext ==
  \/ \E f \in Fd : JavaSocket(f)
  \/ \E r \in Runner : JniStart(r) \/ RunnerStep(r) \/ AcceptFails(r)
  \/ \E c \in Caller : CallerStep(c) \/ \E o \in {"stop", "force", "teardown"} : Call(c, o)

NPSpec == NPInit /\ [][NPNext]_vars

\* Threads run on, and epoll reports a listener that was shut down; nobody
\* has to start or stop the proxy, and an accept error of another kind is
\* never owed.
NPFairness ==
  /\ \A r \in Runner : WF_vars(RunnerStep(r))
  /\ \A r \in Runner : WF_vars(srvFd[r] \in shut /\ AcceptFails(r))
  /\ \A c \in Caller : WF_vars(CallerStep(c))

NPFairSpec == NPSpec /\ NPFairness

-----------------------------------------------------------------------------
(* Properties.                                                             *)

NPTypeOK ==
  /\ proxyRunning \in BOOLEAN
  /\ serverFd \in Fd \cup {None}
  /\ currentPool \in Runner \cup {None}
  /\ params \in Runner \cup {None}
  /\ rpc \in [Runner -> RunnerPc]
  /\ srvFd \in [Runner -> Fd \cup {None}]
  /\ armed \in SUBSET Runner
  /\ pool \in [Runner -> {"dead", "live", "broken"}]
  /\ owner \in [Fd -> Runner \cup {Java, None}]
  /\ shut \in SUBSET Fd
  /\ cpc \in [Caller -> CallerPc]
  /\ op \in [Caller -> Ops]
  /\ seenFd \in [Caller -> Fd \cup {None}]
  /\ seenPool \in [Caller -> Runner \cup {None}]
  /\ forced \in BOOLEAN
  /\ foreignClosed \in BOOLEAN

\* current_pool never names a pool that was freed, even while two byedpi_main
\* overlap: start_event_loop withdraws it before destroy_pool, so a stop that
\* starts later cannot pick up a dead pool.
PublishedPoolLive ==
  currentPool # None => pool[currentPool] \in {"live", "broken"}

\* While no flag was reset by hand, server_fd names a listener of the engine:
\* a stop that reads it now does not shut down a recycled descriptor of the
\* rest of the application.
ServerFdIsListener ==
  ~forced /\ serverFd # None => owner[serverFd] \in Runner

\* "Calling close(fd) here causes a double-close race condition where Java
\* sockets get prematurely closed" (native-lib.cpp:235-236): the engine closes
\* its listener and nothing else.
NoForeignClose == ~foreignClosed

\* The groups and lists a byedpi_main works with are its own, and until a flag is
\* reset by hand nothing but the proxy.cleanup() of a teardown frees them under it:
\* the clear_params of jniStartProxy and those at the end of byedpi_main never do.
ParamsKept ==
  [][ forced \/ \A r \in Runner :
        UsesParams(r)' /\ params = r =>
          params' = r \/ \E c \in Caller : cpc[c] = "cleanup" /\ cpc'[c] = "idle" ]_vars

\* A stop that starts while a loop serves ends that loop, whatever other
\* stops do to server_fd and current_pool meanwhile.
StopEndsLoop ==
  \A c \in Caller, r \in Runner :
    (cpc[c] = "readFd" /\ rpc[r] = "loop") ~> (rpc[r] # "loop")

\* No call that stops the proxy blocks its caller for ever: the polls and the
\* wait of jniForceClose are bounded even when the stop was missed.
StopsReturn == \A c \in Caller : (cpc[c] # "idle") ~> (cpc[c] = "idle")

-----------------------------------------------------------------------------
(* The engine as the services see it.                                      *)

phaseOf(r) ==
  IF rpc[r] = "idle" THEN "out"
  ELSE IF rpc[r] \in {"parse", "listen"} THEN "boot"
  ELSE IF rpc[r] = "publish" THEN "bound"
  ELSE IF rpc[r] = "pool" \/ (rpc[r] = "loop" /\ pool[r] = "live") THEN "serve"
  ELSE "quit"

Engine == INSTANCE ProxyEngine WITH
            Session <- Runner, MayReset <- WaitExpires,
            running <- proxyRunning, phase <- [r \in Runner |-> phaseOf(r)],
            wasReset <- forced

\* While no flag was reset by hand one byedpi_main runs at a time and
\* ByeDpiProxy.isRunning() says whether one does.
OneMainAtATime == Engine!OneMain

\* Every step of the threads is a step of the engine's promise or invisible.
ImplementsEngine == Engine!PESpec
=============================================================================
