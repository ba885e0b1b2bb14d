----------------------------- MODULE MCShellTasks -----------------------------
(* Instances of ShellTasks for TLC; tasks, calls and devices are            *)
(* interchangeable.                                                         *)
EXTENDS ShellTasks, TLC
ShellSymmetry == Permutations(Tasks) \cup Permutations(Calls) \cup Permutations(Devices)
=============================================================================
