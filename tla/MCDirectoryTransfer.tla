------------------------ MODULE MCDirectoryTransfer ------------------------
(* One tree under every kind of trouble, one at a time and in the pairs    *)
(* that meet, and two trees that share the budget.                         *)
EXTENDS DirectoryTransfer

CONSTANTS t1, t2

Quiet == [kind |-> [t1 |-> "put", t2 |-> "unused"], cancels |-> 0, crashes |-> 0, edits |-> 0,
          foreign |-> 0, faults |-> 0, losses |-> 0, prunes |-> 0]

Kinds(a, b) == [t \in Trees |-> IF t = t1 THEN a ELSE b]

One(kind) == [Quiet EXCEPT !.kind = Kinds(kind, "unused")]

SinglePlans ==
  UNION {{[One(k) EXCEPT !.crashes = 1, !.edits = 1, !.losses = 1],
          [One(k) EXCEPT !.crashes = 1, !.foreign = 1, !.losses = 1],
          [One(k) EXCEPT !.crashes = 1, !.cancels = 1],
          [One(k) EXCEPT !.crashes = 1, !.faults = 1],
          [One(k) EXCEPT !.crashes = 1, !.prunes = 1]} : k \in {"put", "get"}}

PairPlans == {[Quiet EXCEPT !.kind = Kinds("put", "get")]}

AllPlans == SinglePlans \cup PairPlans
=============================================================================
