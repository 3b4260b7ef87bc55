-------------------------- MODULE MCDpiVpnService --------------------------
(***************************************************************************)
(* Instances of DpiVpnService for TLC.                                      *)
(***************************************************************************)
EXTENDS DpiVpnService, FiniteSets

ThreeSessions == 1 .. 3
TwoSessions   == 1 .. 2

\* Bound: of the commands two at most are starts.
TwoStarts == Cardinality({h \in Handler : intent[h] = "START"}) <= 2
=============================================================================
