---------------------------- MODULE ControlStore ----------------------------
(***************************************************************************)
(* The two-slot store behind ControllerControlStore (the file-transfer,    *)
(* directory-transfer and outfit stores repeat the scheme).  Generation n  *)
(* goes to slot A when n is odd and to slot B when it is even, so a write  *)
(* always overwrites the older slot, in place: truncate, write, fsync.     *)
(* A kill or a power loss leaves the slot being written with its old       *)
(* content, incomplete, or new; an I/O error may too, and the program goes *)
(* on with the previous snapshot in memory.                                *)
(***************************************************************************)
EXTENDS Integers

CONSTANTS
    Values,         \* snapshots that pass validate()
    InitValue,      \* ControllerControlSnapshot::initial
    MaxGen,         \* bound: last generation written
    NoValue,        \* no value
    Missing,        \* a slot file that does not exist
    TornSlot        \* a slot file that does not decode

ASSUME StoreAssumption ==
    /\ InitValue \in Values /\ NoValue \notin Values
    /\ MaxGen \in Nat
    /\ Missing # TornSlot
    /\ Missing \notin [gen: Nat, val: Values]
    /\ TornSlot \notin [gen: Nat, val: Values]

VARIABLES
    slot,           \* slot["A"], slot["B"]: contents of the two files
    phase,          \* "down", "idle", "creating" or "writing"
    mem,            \* the snapshot in memory
    cand,           \* the candidate being committed
    acked           \* history: generation last acknowledged or loaded

storeVars == <<slot, phase, mem, cand, acked>>

Slots == {"A", "B"}
Doc == [gen: Nat, val: Values]
\* controller_control_slot_a_path for odd generations, slot_b for even ones.
SlotFor(n) == IF n % 2 = 1 THEN "A" ELSE "B"
Valid == {s \in Slots : slot[s] \notin {Missing, TornSlot}}

StoreInit ==
    /\ slot = [s \in Slots |-> Missing]
    /\ phase = "down"
    /\ mem = [gen |-> 0, val |-> InitValue]
    /\ cand = mem
    /\ acked = 0

-----------------------------------------------------------------------------
\* The slot load_or_create picks: the valid one with the highest generation.
Newest(s) == \A t \in Valid : slot[t].gen <= slot[s].gen

\* Mutant: two valid slots are refused whatever their generations.
GenerationConflictAny == Valid = Slots

\* Two valid slots of one generation are refused.
GenerationConflict ==
    Valid = Slots /\ slot["A"].gen = slot["B"].gen

\* load_or_create when a slot is readable.
Load ==
    /\ phase = "down" /\ ~GenerationConflict
    /\ \E s \in Valid :
          /\ Newest(s)
          /\ mem' = slot[s] /\ cand' = slot[s] /\ acked' = slot[s].gen
    /\ phase' = "idle"
    /\ UNCHANGED slot

\* Mutants: the generation is not advanced, so the slot in use is overwritten; a
\* snapshot that fails validation is committed.
CandidateSameGen(v) == [gen |-> mem.gen, val |-> v]
CandidateUnvalidated(v) == [gen |-> mem.gen + 1, val |-> NoValue]

\* commit_candidate: the next generation, to the slot of its parity.
Candidate(v) == [gen |-> mem.gen + 1, val |-> v]

\* load_or_create when no slot file exists.
CreateInitial ==
    /\ phase = "down" /\ \A s \in Slots : slot[s] = Missing
    /\ mem' = [gen |-> 0, val |-> InitValue]
    /\ cand' = [gen |-> 1, val |-> InitValue]
    /\ phase' = "creating"
    /\ UNCHANGED <<slot, acked>>

\* transaction: clone, mutate, validate, commit_candidate.
Transaction(v) ==
    /\ phase = "idle" /\ mem.gen < MaxGen
    /\ cand' = Candidate(v)
    /\ phase' = "writing"
    /\ UNCHANGED <<slot, mem, acked>>

\* write_slot returned Ok: only now does memory move to the candidate.
WriteSucceeds ==
    /\ phase \in {"creating", "writing"}
    /\ slot' = [slot EXCEPT ![SlotFor(cand.gen)] = cand]
    /\ mem' = cand /\ acked' = cand.gen
    /\ phase' = "idle"
    /\ UNCHANGED cand

\* Mutant: a failed write is taken for the current snapshot.
WriteFailsForward ==
    /\ phase \in {"creating", "writing"}
    /\ slot' \in {[slot EXCEPT ![SlotFor(cand.gen)] = c] :
                     c \in {slot[SlotFor(cand.gen)], TornSlot, cand}}
    /\ mem' = cand
    /\ phase' = IF phase = "creating" THEN "down" ELSE "idle"
    /\ UNCHANGED <<cand, acked>>

\* What the slot being written may hold when the write is not acknowledged.
Leftovers ==
    {[slot EXCEPT ![SlotFor(cand.gen)] = c] :
        c \in {slot[SlotFor(cand.gen)], TornSlot, cand}}

\* write_slot returned an error (open, write, fsync or directory fsync).
WriteFails ==
    /\ phase \in {"creating", "writing"}
    /\ slot' \in Leftovers
    /\ phase' = IF phase = "creating" THEN "down" ELSE "idle"
    /\ UNCHANGED <<mem, cand, acked>>

Crash ==
    /\ phase # "down"
    /\ IF phase = "idle" THEN UNCHANGED slot ELSE slot' \in Leftovers
    /\ phase' = "down"
    /\ UNCHANGED <<mem, cand, acked>>

StoreNext ==
    \/ Load \/ CreateInitial \/ WriteSucceeds \/ WriteFails \/ Crash
    \/ \E v \in Values : Transaction(v)

StoreSpec == StoreInit /\ [][StoreNext]_storeVars

\* The Controller is started again after a crash, and a write returns.
StoreFairness == WF_storeVars(Load) /\ WF_storeVars(CreateInitial)
                /\ WF_storeVars(WriteSucceeds \/ WriteFails)
StoreFairSpec == StoreSpec /\ StoreFairness

-----------------------------------------------------------------------------
(* Properties.                                                             *)

\* Types of all state.
StoreType ==
    /\ slot \in [Slots -> Doc \cup {Missing, TornSlot}]
    /\ phase \in {"down", "idle", "creating", "writing"}
    /\ mem \in Doc /\ cand \in Doc
    /\ acked \in Nat

\* The last acknowledged generation is intact on disk at every moment, also in
\* the middle of a write, and the other slot is at most one generation ahead.
Other(s) == IF s = "A" THEN "B" ELSE "A"
AckedIsDurable ==
    acked > 0 =>
        /\ SlotFor(acked) \in Valid /\ slot[SlotFor(acked)].gen = acked
        /\ Other(SlotFor(acked)) \in Valid =>
              slot[Other(SlotFor(acked))].gen \in {acked - 1, acked + 1}

\* load_or_create finds a valid snapshot or no file at all.
Openable == Valid # {} \/ \A s \in Slots : slot[s] = Missing

\* Once crashes and I/O errors stop, a Controller that is down comes back up.  The
\* one exception is a torn first write, before anything was acknowledged: the
\* store then refuses to open what it cannot read.
FaultsStop == <>[][~(WriteFails \/ Crash)]_storeVars
TornFirstWrite == acked = 0 /\ ~Openable
ComesBack ==
    FaultsStop => [](phase = "down" => <>(phase = "idle" \/ TornFirstWrite))

\* The promise: see DurableRegister.
Committed == IF acked = 0 THEN NoValue ELSE slot[SlotFor(acked)].val
InDoubt ==
    LET s == IF acked = 0 THEN "A" ELSE Other(SlotFor(acked)) IN
    IF s \in Valid /\ slot[s].gen = acked + 1 THEN {slot[s].val} ELSE {}
Serving == IF phase \in {"idle", "writing"} THEN mem.val ELSE NoValue
Proposed == IF phase \in {"creating", "writing"} THEN cand.val ELSE NoValue

Register == INSTANCE DurableRegister WITH
    committed <- Committed, doubt <- InDoubt,
    serving <- Serving, proposed <- Proposed
\* The two slots implement a register that never loses an acknowledged value and
\* never shows a value that was not written last.
ImplementsRegister == Register!RSpec
=============================================================================
