---------------------------- MODULE MCFileTransfer ----------------------------
(* Instances of FileTransfer for TLC: a transfer in either direction, with   *)
(* its source edited, its destination taken, or two faults in a row.         *)
EXTENDS FileTransfer
With(kind, policy, e, f, x) ==
    {[kind |-> kind, policy |-> policy, edits |-> e, foreign |-> f, faults |-> x]}
AllJobs == With("put", "replace", 1, 0, 1) \cup With("put", "rename", 0, 1, 1)
      \cup With("put", "fail", 1, 1, 0) \cup With("get", "fail", 1, 0, 1)
      \cup With("get", "replace", 0, 1, 0) \cup With("get", "rename", 0, 0, 2)
=============================================================================
