--------------------------- MODULE DurableRegister ---------------------------
(***************************************************************************)
(* What the Controller's state store promises: one value, replaced by      *)
(* transactions that are acknowledged, fail, or are cut short by a crash.  *)
(* An acknowledged value survives every crash.  A value whose transaction  *)
(* failed or was cut short may or may not appear after the next restart,   *)
(* and nothing else ever appears.                                          *)
(***************************************************************************)
CONSTANTS Values, InitValue, NoValue

VARIABLES
    committed,      \* the value last acknowledged or recovered, or NoValue
    doubt,          \* unacknowledged values a restart may still show
    serving,        \* the value the running program works with, or NoValue
    proposed        \* the value being written, or NoValue

rvars == <<committed, doubt, serving, proposed>>

RInit == committed = NoValue /\ doubt = {} /\ serving = NoValue /\ proposed = NoValue

\* A write that is not acknowledged: the old content, nothing, or the new value.
Unacknowledged == doubt' \in {doubt, {}, {proposed}} /\ proposed' = NoValue

Create ==
    /\ committed = NoValue /\ serving = NoValue /\ proposed = NoValue
    /\ proposed' = InitValue
    /\ UNCHANGED <<committed, doubt, serving>>

Propose(v) ==
    /\ serving # NoValue /\ proposed = NoValue
    /\ proposed' = v
    /\ UNCHANGED <<committed, doubt, serving>>

Acknowledge ==
    /\ proposed # NoValue
    /\ committed' = proposed /\ serving' = proposed
    /\ doubt' = {} /\ proposed' = NoValue

Fail ==
    /\ proposed # NoValue /\ Unacknowledged
    /\ UNCHANGED <<committed, serving>>

Crash ==
    /\ serving' = NoValue
    /\ IF proposed = NoValue THEN UNCHANGED <<doubt, proposed>> ELSE Unacknowledged
    /\ UNCHANGED committed

Recover ==
    /\ serving = NoValue /\ proposed = NoValue
    /\ committed' \in ({committed} \cup doubt) \ {NoValue}
    /\ serving' = committed' /\ doubt' = {}
    /\ UNCHANGED proposed

RNext ==
    \/ Create \/ Acknowledge \/ Fail \/ Crash \/ Recover
    \/ \E v \in Values : Propose(v)

RSpec == RInit /\ [][RNext]_rvars
=============================================================================
