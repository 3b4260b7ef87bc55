-------------------------- MODULE ProxyEngine_proofs --------------------------
(***************************************************************************)
(* The abstract engine keeps its promise for any set of threads.            *)
(***************************************************************************)
EXTENDS ProxyEngine, TLAPS

\* The variables keep their types whatever the threads do.
THEOREM PETypeCorrect == PESpec => []PETypeOK
<1>1. PEInit => PETypeOK
  BY DEF PEInit, PETypeOK, Phase
<1>2. PETypeOK /\ [PENext]_evars => PETypeOK'
  BY DEF PETypeOK, PENext, evars, Phase, PhaseStep, Start, Bind, Announce, Quit,
         Return, ResetFlag
<1>3. QED
  BY <1>1, <1>2, PTL DEF PESpec

\* Two byedpi_main never overlap and the running flag tells whether one runs,
\* as long as jniForceClose has not reset the flag by hand (native-lib.cpp:169).
THEOREM EngineOneMain == PESpec => []OneMain
<1>1. PEInit => OneMain
  BY DEF PEInit, OneMain
<1>2. PETypeOK /\ OneMain /\ [PENext]_evars => OneMain'
  <2> SUFFICES ASSUME PETypeOK, OneMain, [PENext]_evars, ~wasReset'
               PROVE  /\ \A s, t \in Session :
                           phase'[s] # "out" /\ phase'[t] # "out" => s = t
                      /\ running' <=> \E s \in Session : phase'[s] # "out"
    BY DEF OneMain
  <2>1. ~wasReset
    BY DEF PENext, evars, Start, Bind, Announce, Quit, Return, ResetFlag, PETypeOK
  <2>2. /\ \A s, t \in Session : phase[s] # "out" /\ phase[t] # "out" => s = t
        /\ running <=> \E s \in Session : phase[s] # "out"
    BY <2>1 DEF OneMain
  <2>3. ASSUME NEW s \in Session, Start(s) PROVE OneMain'
    BY <2>2, <2>3 DEF Start, PhaseStep, PETypeOK, OneMain
  <2>4. ASSUME NEW s \in Session, Bind(s) \/ Announce(s) \/ Quit(s) PROVE OneMain'
    BY <2>2, <2>4 DEF Bind, Announce, Quit, PhaseStep, PETypeOK, OneMain
  <2>5. ASSUME NEW s \in Session, Return(s) PROVE OneMain'
    BY <2>2, <2>5 DEF Return, PhaseStep, PETypeOK, OneMain
  <2>6. CASE ResetFlag
    BY <2>6 DEF ResetFlag
  <2>7. CASE UNCHANGED evars
    BY <2>2, <2>7 DEF evars, OneMain
  <2>8. QED
    BY <2>3, <2>4, <2>5, <2>6, <2>7 DEF PENext, OneMain
<1>3. QED
  BY <1>1, <1>2, PETypeCorrect, PTL DEF PESpec
=============================================================================
