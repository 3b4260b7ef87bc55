----------------------------- MODULE ProxyEngine -----------------------------
(***************************************************************************)
(* What native-lib.cpp promises of the byedpi engine, and all that the      *)
(* Kotlin services can tell of it: a running flag (ByeDpiProxy.isRunning)   *)
(* and, for each thread that called jniStartProxy, how far its byedpi_main  *)
(* is.  NativeProxy implements this module; DpiVpnService is built on it.   *)
(***************************************************************************)
CONSTANTS
  Session,    \* threads that call jniStartProxy
  MayReset    \* may jniForceClose give up waiting and reset the flag?

ASSUME ProxyEngineAssumption == MayReset \in BOOLEAN

VARIABLES
  running,    \* g_proxy_running
  phase,      \* progress of each byedpi_main
  wasReset    \* history: the flag was reset by hand

evars == <<running, phase, wasReset>>

\* "out" no byedpi_main; "boot" before listen(); "bound" listening, not yet
\* published in server_fd, so that byedpi_stop misses it; "serve" in the
\* event loop, where byedpi_stop finds it; "quit" on its way out.
Phase == {"out", "boot", "bound", "serve", "quit"}

PEInit ==
  /\ running = FALSE
  /\ phase = [s \in Session |-> "out"]
  /\ wasReset = FALSE

PhaseStep(s, from, to) == phase[s] = from /\ phase' = [phase EXCEPT ![s] = to]

Start(s) ==
  /\ ~running
  /\ PhaseStep(s, "out", "boot")
  /\ running' = TRUE
  /\ UNCHANGED wasReset

Bind(s)    == PhaseStep(s, "boot", "bound") /\ UNCHANGED <<running, wasReset>>
Announce(s) == PhaseStep(s, "bound", "serve") /\ UNCHANGED <<running, wasReset>>

\* byedpi_main gives up before it serves, or its loop is broken.
Quit(s) ==
  /\ \/ PhaseStep(s, "boot", "quit")
     \/ PhaseStep(s, "serve", "quit")
  /\ UNCHANGED <<running, wasReset>>

Return(s) ==
  /\ PhaseStep(s, "quit", "out")
  /\ running' = FALSE
  /\ UNCHANGED wasReset

\* jniForceClose after its wait ran out.
ResetFlag ==
  /\ MayReset /\ running
  /\ running' = FALSE
  /\ wasReset' = TRUE
  /\ UNCHANGED phase

PENext ==
  \/ \E s \in Session : Start(s) \/ Bind(s) \/ Announce(s) \/ Quit(s) \/ Return(s)
  \/ ResetFlag

PESpec == PEInit /\ [][PENext]_evars

-----------------------------------------------------------------------------
PETypeOK ==
  /\ running \in BOOLEAN
  /\ phase \in [Session -> Phase]
  /\ wasReset \in BOOLEAN

\* Until a flag is reset by hand, two byedpi_main never overlap, and the flag
\* is up exactly while one of them has not returned ("let's just fail if it's
\* already running to avoid corruption", native-lib.cpp:169-170).
OneMain ==
  ~wasReset => /\ \A s, t \in Session : phase[s] # "out" /\ phase[t] # "out" => s = t
               /\ running <=> \E s \in Session : phase[s] # "out"
=============================================================================
