---------------------------- MODULE MCStreamTap ----------------------------
(***************************************************************************)
(* Instances of StreamTap for TLC: lines that are events of two types,     *)
(* with one count or both, or no data, and the beginnings of lines, with   *)
(* and without a number that is not there to its last digit; a buffer of   *)
(* two pieces, which such beginnings may fill; configurations with two     *)
(* chunk types, with one type for both counts, so that the other type      *)
(* counts nothing, and of mode last.                                       *)
(***************************************************************************)
EXTENDS StreamTap

Event(t, in, out) == [payload |-> TRUE, type |-> t, input |-> in, output |-> out, ends |-> TRUE]

MCPieces ==
    {Event("start", 1, None), Event("start", 2, 1), Event("delta", None, 2),
     [Event("start", 4, 4) EXCEPT !.payload = FALSE],
     [Event("", None, None) EXCEPT !.ends = FALSE],
     [Event("delta", None, 1) EXCEPT !.ends = FALSE]}

MCConfigs ==
    {[mode |-> "split", input |-> "start", output |-> "delta"],
     [mode |-> "split", input |-> "start", output |-> "start"],
     [mode |-> "last", input |-> "", output |-> ""]}
=============================================================================
