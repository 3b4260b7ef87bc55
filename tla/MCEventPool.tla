---------------------------- MODULE MCEventPool ----------------------------
(* The smallest pool in which connections meet: the control pipe, the         *)
(* listener and three more slots, as for params.max_open = 2.                 *)
EXTENDS EventPool

MCDelays == {1, 2}
=============================================================================
