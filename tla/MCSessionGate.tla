---------------------------- MODULE MCSessionGate ----------------------------
(* Instances of SessionGate for TLC; connections, requests and devices are  *)
(* interchangeable.                                                         *)
EXTENDS SessionGate, TLC
GateSymmetry == Permutations(Conns) \cup Permutations(Reqs) \cup Permutations(Devices)
=============================================================================
