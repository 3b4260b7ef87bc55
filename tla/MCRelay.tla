------------------------------- MODULE MCRelay -------------------------------
(***************************************************************************)
(* Instances of Relay for TLC.  Single parts and a part counted from the     *)
(* end, a pair, and a plain group: what is tried at three servers in turn.   *)
(***************************************************************************)
EXTENDS Relay

Part(pos) == [pos |-> pos, first |-> FALSE, start |-> FALSE]
StartPart(pos) == [Part(pos) EXCEPT !.start = TRUE]
FirstOfPair(pos) == [Part(pos) EXCEPT !.first = TRUE]

Groups   == << <<StartPart(1), Part(4)>>, <<FirstOfPair(1), Part(-1)>>, <<>> >>
Requests == <<3, 4, 6>>
=============================================================================
