------------------------- MODULE MCStrategyTesting -------------------------
(***************************************************************************)
(* Instances of StrategyTesting for TLC.                                    *)
(***************************************************************************)
EXTENDS StrategyTesting

TwoStrategies == <<"A", "B">>
WithDirect    == <<"None", "A">>
TwoJobs       == ((1 .. 2) \X (1 .. 2)) \cup {VPN}
OneStrategy   == <<"A">>
TwoSingles    == ((1 .. 2) \X {1}) \cup {VPN}
=============================================================================
