----------------------------- MODULE MCMyAtomic -----------------------------
(* Words of two bits, so that additions wrap, and the calls of main.go.     *)
EXTENDS MyAtomic, TLC

C(op, a, x, y) == [op |-> op, addr |-> a, x |-> x, y |-> y]

MCAddrs == {"counter", "old"}
MCCalls ==
  { C("add", "counter", 1, 0), C("add", "counter", 3, 0),
    C("swap", "old", 1, 0), C("swap", "old", 2, 0),
    C("cas", "old", 0, 1), C("cas", "old", 1, 0) }
=============================================================================
