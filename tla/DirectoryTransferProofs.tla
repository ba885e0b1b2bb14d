---------------------- MODULE DirectoryTransferProofs ----------------------
(***************************************************************************)
(* Proofs about directory transfers, for any number of trees, files,       *)
(* children in a window, permits and troubles.                             *)
(*                                                                         *)
(* What a tree's entry claims, in memory or in the journal, is so on the   *)
(* disk (Stands): the prefix and the flags behind it were delivered, every *)
(* child that was ever started has its place, Completed names a tree that  *)
(* is in place.  A worker between two entries knows a little more          *)
(* (Knows), and the disk tells a whole tree from a staged one (Sound).     *)
(* These speak of one tree and of values, so that a step on another tree,  *)
(* which may only put an entry from memory into the journal, is one lemma. *)
(***************************************************************************)
EXTENDS DirectoryTransfer, Integers, FiniteSetTheorems, SequenceTheorems,
        WellFoundedInduction, TLAPS

-----------------------------------------------------------------------------
(* Shapes *)

Pcs == {"idle", "begin", "counted", "prepare", "stage", "fill", "poll",
        "ending", "finalize", "commit", "undo", "close"}
Phases == {"none", "Preparing", "Running", "WaitingForReconnect", "Cancelling",
           "Finalizing", "Completed", "Failed", "Cancelled"}
ChildPhases == {"none", "running", "completed", "failed", "cancelled"}

Total(e) == e.prefix + Len(e.active)

Entry == [phase : Phases, counted : BOOLEAN,
          state : {"none", "manifest", "staged", "verified"},
          manifest : Version, active : Seq(BOOLEAN), prefix : 0 .. N]
Locals == [fresh : BOOLEAN, at : Nat \ {0}, seen : SUBSET Nat,
           verdict : {"none", "Failed", "Cancelled"}]
Answer == {"none", "Conflict", "Prepared", "Manifest", "NotFound", "Completed", "HashMismatch",
           "Verified"}
Reply == [is : Answer, version : Version]
Tree == [staging : BOOLEAN, files : [Files -> 0 .. 2],
         final : {"absent", "own", "foreign"}, thrown : BOOLEAN]

-----------------------------------------------------------------------------
(* One tree *)

\* What the entry counts is on the disk.
Recorded(e, d) ==
  ~d.thrown => /\ \A f \in 1 .. e.prefix : d.files[f] # Absent
               /\ \A i \in 1 .. Len(e.active) : e.active[i] => d.files[e.prefix + i] # Absent
\* A child that was started has its place in the entry.
Reserved(e, c) ==
  e.phase \notin Terminal => \A f \in Files : c[f] # "none" => f <= Total(e)
Claimed(e, d) == e.phase = "Completed" => d.final = "own"
Stands(e, c, d) == Recorded(e, d) /\ Reserved(e, c) /\ Claimed(e, d)
Fits(e) == e \in Entry /\ Total(e) <= N

\* The trees on the disk, and the children that deliver into them.
Sound(c, d) ==
  /\ d.final = "own" => \E v \in Version : \A f \in Files : d.files[f] = v
  /\ ~d.thrown => \A f \in Files : /\ d.files[f] # Absent => d.staging \/ d.final = "own"
                                   /\ c[f] = "completed" => d.files[f] # Absent

\* What the worker relies on between two steps.
Knows(p, e, j, l, h, r, d) ==
  /\ p \notin {"idle", "close"} => e.phase \notin Terminal
  /\ p \notin {"fill", "poll"} => h = {}
  /\ p \in {"fill", "poll"} => Total(j) = Total(e)
  /\ p = "ending" => e.prefix = N
  /\ p = "poll" => \A i \in l.seen : /\ i \in 1 .. Len(e.active)
                                     /\ ~d.thrown => d.files[e.prefix + i] # Absent
  /\ p = "undo" => l.verdict # "none"
  /\ r.is = "Completed" => d.final = "own"

Shape(p, e, j, l, h, c, r, d, s) ==
  /\ p \in Pcs /\ Fits(e) /\ Fits(j) /\ l \in Locals /\ h \in SUBSET Files
  /\ c \in [Files -> ChildPhases] /\ r \in Reply /\ d \in Tree /\ s \in Version

Good(u, p, e, j, l, h, c, r, d, s) ==
  /\ Shape(p, e, j, l, h, c, r, d, s)
  /\ Stands(j, c, d) /\ Sound(c, d) /\ Knows(p, e, j, l, h, r, d)
  /\ u => Stands(e, c, d)
  /\ ~u => p = "idle" /\ e = NoEntry

GoodTree(t) == Good(up, pc[t], mem[t], journal[t], loc[t], holds[t], child[t], reply[t],
                    disk[t], src[t])

\* The functions have all trees.
Domains ==
  /\ up \in BOOLEAN /\ plan \in PlanType
  /\ DOMAIN pc = Trees /\ DOMAIN mem = Trees /\ DOMAIN journal = Trees /\ DOMAIN loc = Trees
  /\ DOMAIN holds = Trees /\ DOMAIN child = Trees /\ DOMAIN reply = Trees
  /\ DOMAIN disk = Trees /\ DOMAIN src = Trees

\* The inductive invariant.
IInv == Domains /\ (\A t \in Trees : GoodTree(t)) /\ Held <= Permits

-----------------------------------------------------------------------------
(* Values *)

\* The children and the disk only move on: nothing that was there is gone,
\* unless the staging tree is thrown away, and no child is new.
Later(c, d, cc, dd) ==
  /\ ~dd.thrown => ~d.thrown /\ \A f \in Files : d.files[f] # Absent => dd.files[f] # Absent
  /\ d.final = "own" => dd.final = "own"
  /\ \A f \in Files : cc[f] # "none" => c[f] # "none"

\* An entry that fits speaks of files of the manifest only.
LEMMA FitsFiles ==
    ASSUME NEW e, Fits(e)
    PROVE  /\ e.prefix \in Nat /\ Len(e.active) \in Nat /\ Total(e) \in 0 .. N
           /\ \A f \in 1 .. e.prefix : f \in Files
           /\ \A i \in 1 .. Len(e.active) : e.prefix + i \in Files /\ e.active[i] \in BOOLEAN
<1>1. e.prefix \in 0 .. N /\ e.active \in Seq(BOOLEAN) /\ N \in Nat
  BY DirectoryConstants DEF Fits, Entry
<1>2. Len(e.active) \in Nat /\ \A i \in 1 .. Len(e.active) : e.active[i] \in BOOLEAN
  BY <1>1, LenProperties, ElementOfSeq
<1>3. e.prefix + Len(e.active) <= N
  BY DEF Fits, Total
<1> QED  BY <1>1, <1>2, <1>3 DEF Files, Total

\* What an entry claims stays so.
LEMMA StandsLater ==
    ASSUME NEW e, NEW c, NEW d, NEW cc, NEW dd, Fits(e), Stands(e, c, d), Later(c, d, cc, dd)
    PROVE  Stands(e, cc, dd)
<1>1. Recorded(e, dd)
  BY FitsFiles DEF Stands, Recorded, Later
<1>2. Reserved(e, cc)
  BY DEF Stands, Reserved, Later
<1> QED  BY <1>1, <1>2 DEF Stands, Claimed, Later

\* Nothing moved.
LEMMA SameIsLater == ASSUME NEW c, NEW d PROVE Later(c, d, c, d)
BY DEF Later

\* An entry with the same window claims the same.
LEMMA SameWindow ==
    ASSUME NEW e, NEW f, NEW c, NEW d, Stands(e, c, d),
           f.prefix = e.prefix, f.active = e.active,
           e.phase \in Terminal => f.phase \in Terminal,
           f.phase = "Completed" => d.final = "own"
    PROVE  Stands(f, c, d)
BY DEF Stands, Recorded, Reserved, Claimed, Total

\* An entry that is over claims no more than its prefix.
LEMMA ClosedStands ==
    ASSUME NEW e, NEW f, NEW c, NEW d, Stands(e, c, d), Fits(e),
           f.prefix = e.prefix, f.active = <<>>, f.phase \in Terminal,
           f.phase = "Completed" => d.final = "own"
    PROVE  Stands(f, c, d)
<1>1. Len(f.active) = 0
  BY EmptySeq
<1> QED  BY <1>1 DEF Stands, Recorded, Reserved, Claimed

\* Children that end otherwise than by delivering leave the disk sound.
LEMMA SoundWithout ==
    ASSUME NEW c, NEW cc, NEW d, Sound(c, d),
           \A f \in Files : cc[f] = "completed" => c[f] = "completed"
    PROVE  Sound(cc, d)
BY DEF Sound

\* Entries with another phase, state or manifest keep their shape.
LEMMA FitsSame ==
    ASSUME NEW e, NEW f, Fits(e), f \in Entry, f.prefix = e.prefix,
           f.active = e.active \/ f.active = <<>>
    PROVE  Fits(f)
<1>1. Len(<<>>) = 0 /\ Total(e) <= N /\ N \in Nat /\ e.prefix \in 0 .. N
  BY EmptySeq, DirectoryConstants DEF Fits, Entry
<1> QED  BY <1>1 DEF Fits, Total

\* Removing a staging tree.
LEMMA RemovedOK ==
    ASSUME NEW c, NEW d \in Tree, Sound(c, d)
    PROVE  Removed(d) \in Tree /\ Later(c, d, c, Removed(d)) /\ Sound(c, Removed(d))
<1> DEFINE gone == IF d.final = "own" THEN d.files ELSE [f \in Files |-> Absent]
<1>3. gone \in [Files -> 0 .. 2]
  BY DEF Tree, Absent
<1>4. Removed(d) = [d EXCEPT !.staging = FALSE, !.thrown = TRUE, !.files = gone]
  BY DEF Removed, Tree
<1> HIDE DEF gone
<1>1. Removed(d) \in Tree /\ Removed(d).thrown /\ Removed(d).final = d.final
  BY <1>3, <1>4 DEF Tree
<1>2. d.final = "own" => Removed(d).files = d.files
  BY DEF Removed, Tree
<1> QED  BY <1>1, <1>2 DEF Later, Sound

\* Making one.
LEMMA StagedOK ==
    ASSUME NEW c, NEW d \in Tree, Sound(c, d)
    PROVE  Staged(d) \in Tree /\ Later(c, d, c, Staged(d)) /\ Sound(c, Staged(d))
<1>1. /\ Staged(d) \in Tree /\ Staged(d).staging /\ Staged(d).thrown = d.thrown
      /\ Staged(d).files = d.files /\ Staged(d).final = d.final
  BY DEF Staged, Tree
<1> QED  BY <1>1 DEF Later, Sound

\* Committing one whose files are those of a manifest.
Final(d) == [d EXCEPT !.staging = FALSE, !.final = "own"]

\* A commit moves the tree on, and leaves it whole.
LEMMA CommittedOK ==
    ASSUME NEW c, NEW d \in Tree, Sound(c, d), \E v \in Version : \A f \in Files : d.files[f] = v
    PROVE  /\ Final(d) \in Tree /\ Later(c, d, c, Final(d)) /\ Sound(c, Final(d))
           /\ Final(d).final = "own"
<1>1. /\ Final(d) \in Tree /\ Final(d).thrown = d.thrown /\ Final(d).files = d.files
      /\ Final(d).final = "own"
  BY DEF Tree, Final
<1> QED  BY <1>1 DEF Later, Sound

-----------------------------------------------------------------------------
(* Permits *)

Out(hs) == {h \in Trees \X Files : h[2] \in hs[h[1]]}

\* There are finitely many.
LEMMA OutFinite == ASSUME NEW hs PROVE IsFiniteSet(Out(hs)) /\ Cardinality(Out(hs)) \in Nat
<1>1. IsFiniteSet(Trees) /\ N \in Nat
  BY DirectoryConstants
<1>2. IsFiniteSet(Files)
  BY <1>1, FS_Interval DEF Files
<1>3. IsFiniteSet(Trees \X Files)
  BY <1>1, <1>2, FS_Product
<1>4. Out(hs) \in SUBSET (Trees \X Files)
  BY DEF Out
<1> HIDE DEF Out
<1>5. IsFiniteSet(Out(hs))
  BY <1>3, <1>4, FS_Subset
<1> QED  BY <1>5, FS_CardinalityType

\* Giving permits back.
LEMMA OutLess ==
    ASSUME NEW hs, NEW ks, \A x \in Trees : ks[x] \subseteq hs[x]
    PROVE  Cardinality(Out(ks)) <= Cardinality(Out(hs))
<1>1. Out(ks) \in SUBSET Out(hs)
  BY DEF Out
<1> HIDE DEF Out
<1> QED  BY <1>1, OutFinite, FS_Subset

\* Taking one.
LEMMA OutMore ==
    ASSUME NEW hs, NEW ks, NEW t \in Trees, NEW f,
           ks[t] \subseteq hs[t] \cup {f}, \A x \in Trees \ {t} : ks[x] \subseteq hs[x]
    PROVE  Cardinality(Out(ks)) <= Cardinality(Out(hs)) + 1
<1> DEFINE more == Out(hs) \cup {<<t, f>>}
<1>1. Out(ks) \in SUBSET more
  BY DEF Out
<1>2. IsFiniteSet(Out(hs)) /\ Cardinality(Out(hs)) \in Nat
  BY OutFinite
<1> HIDE DEF Out
<1>3. IsFiniteSet(more) /\ Cardinality(more) <= Cardinality(Out(hs)) + 1
  <2>1. \/ Cardinality(more) = Cardinality(Out(hs))
        \/ Cardinality(more) = Cardinality(Out(hs)) + 1
    BY <1>2, FS_AddElement
  <2>2. IsFiniteSet(more)
    BY <1>2, FS_AddElement
  <2> QED  BY <1>2, <2>1, <2>2
<1>4. Cardinality(more) \in Nat /\ Cardinality(Out(ks)) \in Nat
  BY <1>3, FS_CardinalityType, OutFinite
<1> HIDE DEF more
<1>5. Cardinality(Out(ks)) <= Cardinality(more)
  BY <1>1, <1>3, FS_Subset
<1> QED  BY <1>2, <1>3, <1>4, <1>5

-----------------------------------------------------------------------------
(* Steps *)

\* A step of tree t: another tree sees at most its own entry journalled.
Elsewhere(t) ==
  /\ up' = up
  /\ \A x \in Trees \ {t} :
       /\ pc'[x] = pc[x] /\ mem'[x] = mem[x] /\ loc'[x] = loc[x] /\ holds'[x] = holds[x]
       /\ child'[x] = child[x] /\ reply'[x] = reply[x] /\ disk'[x] = disk[x] /\ src'[x] = src[x]
       /\ journal'[x] = journal[x] \/ (up /\ journal'[x] = mem[x])

\* The journal takes over entries of the memory.
LEMMA OtherTree ==
    ASSUME NEW t \in Trees, Elsewhere(t), NEW x \in Trees \ {t}, GoodTree(x)
    PROVE  GoodTree(x)'
<1>1. CASE journal'[x] = journal[x]
  BY <1>1 DEF Elsewhere, GoodTree
<1>2. CASE up /\ journal'[x] = mem[x]
  BY <1>2 DEF Elsewhere, GoodTree, Good, Shape, Knows
<1> QED  BY <1>1, <1>2 DEF Elsewhere

\* A step of one tree, which takes at most one free permit.
LEMMA OneTree ==
    ASSUME IInv, NEW t \in Trees, Elsewhere(t), Domains', GoodTree(t)',
           \/ holds'[t] \subseteq holds[t]
           \/ Free /\ \E f : holds'[t] \subseteq holds[t] \cup {f}
    PROVE  IInv'
<1>1. \A x \in Trees : GoodTree(x)'
  BY OtherTree DEF IInv
<1>2. Held = Cardinality(Out(holds)) /\ Held' = Cardinality(Out(holds'))
  BY DEF Held, Out
<1>3. Cardinality(Out(holds)) \in Nat /\ Cardinality(Out(holds')) \in Nat /\ Permits \in Nat
  BY OutFinite, DirectoryConstants
<1>4. \A x \in Trees \ {t} : holds'[x] \subseteq holds[x]
  BY DEF Elsewhere
<1>5. CASE holds'[t] \subseteq holds[t]
  <2>1. Cardinality(Out(holds')) <= Cardinality(Out(holds))
    BY <1>4, <1>5, OutLess
  <2> QED  BY <1>1, <1>2, <1>3, <2>1 DEF IInv
<1>6. CASE Free /\ \E f : holds'[t] \subseteq holds[t] \cup {f}
  <2>1. Cardinality(Out(holds')) <= Cardinality(Out(holds)) + 1
    BY <1>4, <1>6, OutMore
  <2>2. Cardinality(Out(holds)) < Permits
    BY <1>2, <1>6 DEF Free
  <2> QED  BY <1>1, <1>2, <1>3, <2>1, <2>2 DEF IInv
<1> QED  BY <1>5, <1>6

\* What is left of a plan is a plan.
LEMMA SpendPlan ==
    ASSUME plan \in PlanType, NEW what, Spend(what),
           what \in {"cancels", "crashes", "edits", "foreign", "faults", "losses", "prunes"}
    PROVE  plan' \in PlanType
<1>1. plan[what] \in 0 .. 1
  BY DEF PlanType
<1>2. plan[what] - 1 \in 0 .. 1 /\ plan' = [plan EXCEPT ![what] = plan[what] - 1]
  BY <1>1 DEF Spend
<1> QED  BY <1>2 DEF PlanType

\* A journal write puts the entries there, or some leave things as they were.
LEMMA Journaled ==
    ASSUME plan \in PlanType, NEW m, Journals(m) \/ Refuses(m)
    PROVE  /\ plan' \in PlanType /\ (journal' = m \/ journal' = journal)
           /\ Journals(m) => journal' = m
<1>1. CASE Journals(m)
  BY <1>1 DEF Journals
<1>2. CASE Refuses(m)
  <2>1. CASE WriteFails(m)
    <3>1. Spend("faults")
      BY <2>1 DEF WriteFails
    <3>2. plan' \in PlanType
      BY <3>1, SpendPlan
    <3> QED  BY <1>2, <2>1, <3>2 DEF WriteFails, Journals, Refuses
  <2>2. CASE ~Valid(m) /\ UNCHANGED <<journal, plan>>
    BY <2>2 DEF Journals
  <2> QED  BY <1>2, <2>1, <2>2 DEF Refuses
<1> QED  BY <1>1, <1>2

\* The parts of a tree, by name.
LEMMA TreeFacts ==
    ASSUME IInv, NEW t \in Trees
    PROVE  /\ GoodTree(t) /\ Domains
           /\ Shape(pc[t], mem[t], journal[t], loc[t], holds[t], child[t], reply[t], disk[t], src[t])
           /\ Stands(journal[t], child[t], disk[t]) /\ Sound(child[t], disk[t])
           /\ Knows(pc[t], mem[t], journal[t], loc[t], holds[t], reply[t], disk[t])
           /\ up => Stands(mem[t], child[t], disk[t])
           /\ pc[t] \in Pcs /\ Fits(mem[t]) /\ Fits(journal[t]) /\ mem[t] \in Entry
           /\ journal[t] \in Entry
           /\ loc[t] \in Locals /\ holds[t] \in SUBSET Files /\ child[t] \in [Files -> ChildPhases]
           /\ reply[t] \in Reply /\ disk[t] \in Tree /\ src[t] \in Version
BY DEF IInv, GoodTree, Good, Shape, Fits

\* Constants of the shapes.
LEMMA Shapes ==
    /\ NoReply \in Reply /\ NoReply.is = "none" /\ NoLocals \in Locals /\ NoTree \in Tree
    /\ Fits(NoEntry) /\ NoEntry \in Entry /\ NoEntry.prefix = 0 /\ Len(NoEntry.active) = 0
    /\ NoEntry.active = <<>> /\ NoEntry.phase = "none" /\ NoEntry.state = "none" /\ Total(NoEntry) = 0
<1>1. N \in Nat /\ <<>> \in Seq(BOOLEAN) /\ Len(<<>>) = 0
  BY DirectoryConstants, EmptySeq
<1>2. NoEntry \in Entry /\ NoEntry.prefix = 0 /\ NoEntry.active = <<>> /\ NoEntry.phase = "none"
      /\ NoEntry.state = "none"
  BY <1>1 DEF NoEntry, Entry, Phases, Version
<1>3. NoTree \in Tree
  BY DEF NoTree, Tree, Absent
<1>4. NoReply \in Reply /\ NoReply.is = "none"
  BY DEF NoReply, Reply, Answer, Version
<1>5. NoLocals \in Locals
  BY DEF NoLocals, Locals
<1> QED  BY <1>1, <1>2, <1>3, <1>4, <1>5 DEF Fits, Total

\* The new values of the tree that moves, put together.
LEMMA Together ==
    ASSUME NEW t,
           pc'[t] \in Pcs, Fits(mem'[t]), Fits(journal'[t]), loc'[t] \in Locals,
           holds'[t] \in SUBSET Files, child'[t] \in [Files -> ChildPhases],
           reply'[t] \in Reply, disk'[t] \in Tree, src'[t] \in Version,
           Stands(journal'[t], child'[t], disk'[t]), Sound(child'[t], disk'[t]),
           Knows(pc'[t], mem'[t], journal'[t], loc'[t], holds'[t], reply'[t], disk'[t]),
           up', Stands(mem'[t], child'[t], disk'[t])
    PROVE  GoodTree(t)'
BY DEF GoodTree, Good, Shape

\* A worker that leaves its window, or never was in it.
LEMMA OutOfWindow ==
    ASSUME NEW t, NEW p, p \notin {"fill", "poll", "ending"}, holds'[t] = {},
           p = "close" \/ mem'[t].phase \notin Terminal,
           p = "undo" => loc'[t].verdict # "none",
           reply'[t].is = "Completed" => disk'[t].final = "own"
    PROVE  Knows(p, mem'[t], journal'[t], loc'[t], holds'[t], reply'[t], disk'[t])
BY DEF Knows

\* A worker that is over: only the last journal write is to come.
LEMMA SettleOK ==
    ASSUME IInv, NEW t \in Trees, up, up', NEW phase \in Terminal, Settle(t, phase),
           phase = "Completed" => disk'[t].final = "own",
           Later(child[t], disk[t], child'[t], disk'[t]), Sound(child'[t], disk'[t]),
           child'[t] \in [Files -> ChildPhases], disk'[t] \in Tree,
           reply'[t] \in Reply, reply'[t].is = "Completed" => disk'[t].final = "own",
           UNCHANGED <<journal, loc, src>>
    PROVE  GoodTree(t)' /\ holds'[t] \subseteq holds[t]
<1>0. /\ Fits(mem[t]) /\ mem[t] \in Entry /\ Fits(journal[t]) /\ loc[t] \in Locals /\ src[t] \in Version
      /\ Stands(journal[t], child[t], disk[t]) /\ Stands(mem[t], child[t], disk[t]) /\ Domains
  BY TreeFacts
<1>1. /\ mem'[t] = [mem[t] EXCEPT !.phase = phase, !.active = <<>>]
      /\ pc'[t] = "close" /\ holds'[t] = {}
  BY <1>0 DEF Settle, With, Goes, Domains
<1>2. mem'[t] \in Entry /\ mem'[t].prefix = mem[t].prefix /\ mem'[t].active = <<>> /\ mem'[t].phase = phase
  <2>1. <<>> \in Seq(BOOLEAN) /\ phase \in Phases
    BY EmptySeq DEF Phases, Terminal
  <2> QED  BY <1>0, <1>1, <2>1 DEF Entry
<1>3. Fits(mem'[t])
  BY <1>0, <1>2, FitsSame
<1>4. Stands(journal[t], child'[t], disk'[t]) /\ Stands(mem[t], child'[t], disk'[t])
  BY <1>0, StandsLater
<1>5. Stands(mem'[t], child'[t], disk'[t])
  BY <1>0, <1>2, <1>4, ClosedStands
<1>6. Knows("close", mem'[t], journal'[t], loc'[t], holds'[t], reply'[t], disk'[t])
  BY <1>1, OutOfWindow
<1>7. /\ journal'[t] = journal[t] /\ loc'[t] = loc[t] /\ src'[t] = src[t] /\ pc'[t] \in Pcs
      /\ holds'[t] \in SUBSET Files
  BY <1>1 DEF Pcs
<1>8. GoodTree(t)'
  BY <1>0, <1>1, <1>3, <1>4, <1>5, <1>6, <1>7, Together
<1> QED  BY <1>1, <1>8

\* A worker that gives up takes the staging tree away next.
LEMMA AbandonOK ==
    ASSUME IInv, NEW t \in Trees, up, up', NEW verdict \in {"Failed", "Cancelled"},
           Abandon(t, verdict), mem'[t].phase \notin Terminal, Fits(mem'[t]), Fits(journal'[t]),
           Stands(mem'[t], child'[t], disk'[t]), Stands(journal'[t], child'[t], disk'[t]),
           Sound(child'[t], disk'[t]),
           child'[t] \in [Files -> ChildPhases], disk'[t] \in Tree, UNCHANGED src
    PROVE  GoodTree(t)' /\ holds'[t] \subseteq holds[t]
<1>0. loc[t] \in Locals /\ src[t] \in Version /\ Domains
  BY TreeFacts
<1>1. /\ pc'[t] = "undo" /\ holds'[t] = {} /\ loc'[t] = [loc[t] EXCEPT !.verdict = verdict]
      /\ reply'[t] = NoReply
  BY <1>0 DEF Abandon, Goes, Domains
<1>2. loc'[t] \in Locals /\ loc'[t].verdict = verdict
  BY <1>0, <1>1 DEF Locals
<1>3. reply'[t] \in Reply /\ reply'[t].is = "none"
  BY <1>1, Shapes
<1>4. Knows("undo", mem'[t], journal'[t], loc'[t], holds'[t], reply'[t], disk'[t])
  BY <1>1, <1>2, <1>3, OutOfWindow
<1>5. src'[t] \in Version /\ pc'[t] \in Pcs /\ holds'[t] \in SUBSET Files
  BY <1>0, <1>1 DEF Pcs
<1>6. GoodTree(t)'
  BY <1>1, <1>2, <1>3, <1>4, <1>5, Together
<1> QED  BY <1>1, <1>6

\* Cancelling the children of a window.
LEMMA CancelKidsOK ==
    ASSUME IInv, NEW t \in Trees, NEW e, CancelKids(t, e)
    PROVE  /\ child'[t] \in [Files -> ChildPhases]
           /\ Later(child[t], disk[t], child'[t], disk[t]) /\ Sound(child'[t], disk[t])
<1>0. child[t] \in [Files -> ChildPhases] /\ Sound(child[t], disk[t]) /\ Domains
  BY TreeFacts
<1>1. \A f \in Files : child'[t][f] = child[t][f] \/ (child[t][f] = "running" /\ child'[t][f] = "cancelled")
  BY <1>0 DEF CancelKids, Domains
<1>2. child'[t] \in [Files -> ChildPhases]
  BY <1>0, <1>1 DEF CancelKids, Domains, ChildPhases
<1>3. Sound(child'[t], disk[t])
  BY <1>0, <1>1, SoundWithout
<1> QED  BY <1>1, <1>2, <1>3 DEF Later

\* A step that leaves children and disk alone.
LEMMA WorkerMoves ==
    ASSUME IInv, NEW t \in Trees, up, up', UNCHANGED <<child, disk, src>>,
           pc'[t] \in Pcs, loc'[t] \in Locals, holds'[t] \in SUBSET Files, reply'[t] \in Reply,
           Fits(mem'[t]), Fits(journal'[t]),
           Stands(mem'[t], child[t], disk[t]), Stands(journal'[t], child[t], disk[t]),
           Knows(pc'[t], mem'[t], journal'[t], loc'[t], holds'[t], reply'[t], disk[t])
    PROVE  GoodTree(t)'
<1>1. child'[t] = child[t] /\ disk'[t] = disk[t] /\ src'[t] = src[t]
  OBVIOUS
<1>2. /\ Sound(child[t], disk[t]) /\ child[t] \in [Files -> ChildPhases] /\ disk[t] \in Tree
      /\ src[t] \in Version
  BY TreeFacts
<1> QED  BY <1>1, <1>2, Together

-----------------------------------------------------------------------------
(* The calls of the local API, and the first steps of a worker *)

\* A tree is started: no child of it was before.
LEMMA StartOK == ASSUME IInv, NEW t \in Trees, Start(t) PROVE IInv'
<1> DEFINE e == [NoEntry EXCEPT !.phase = "Preparing"]
           m == With(t, e)
<1>0. /\ up /\ mem[t] = NoEntry /\ pc[t] = "idle" /\ Domains
      /\ UNCHANGED <<up, holds, signal, calling, child, reply, disk, src>>
  BY TreeFacts DEF Start
<1>1. /\ Fits(journal[t]) /\ Stands(journal[t], child[t], disk[t]) /\ Sound(child[t], disk[t])
      /\ Stands(NoEntry, child[t], disk[t]) /\ loc[t] \in Locals /\ holds[t] \in SUBSET Files
      /\ child[t] \in [Files -> ChildPhases] /\ reply[t] \in Reply /\ disk[t] \in Tree
      /\ src[t] \in Version /\ holds[t] = {} /\ (reply[t].is = "Completed" => disk[t].final = "own")
  BY <1>0, TreeFacts DEF Knows
<1>2. e \in Entry /\ e.prefix = NoEntry.prefix /\ e.active = NoEntry.active /\ e.phase = "Preparing"
  BY Shapes DEF NoEntry, Entry, Phases
<1> HIDE DEF e
<1>3. Fits(e) /\ Stands(e, child[t], disk[t])
  BY <1>1, <1>2, FitsSame, SameWindow, Shapes DEF Terminal
<1>4. plan' \in PlanType /\ (journal' = m \/ journal' = journal)
  <2>1. Journals(m) \/ Refuses(m)
    BY DEF Start, e, m
  <2> QED  BY <1>0, <2>1, Journaled DEF Domains
<1>5. /\ mem' = m /\ Goes(t, "begin") /\ loc' = [loc EXCEPT ![t].fresh = TRUE]
      \/ UNCHANGED <<mem, pc, loc>>
  BY DEF Start, e, m
<1>6. Elsewhere(t) /\ Domains'
  BY <1>0, <1>4, <1>5 DEF Elsewhere, Domains, With, Goes
<1>7. /\ pc'[t] \in {"idle", "begin"} /\ (pc'[t] = "begin" => mem'[t] = e)
      /\ mem'[t] \in {e, NoEntry} /\ journal'[t] \in {e, journal[t]}
      /\ loc'[t] \in {loc[t], [loc[t] EXCEPT !.fresh = TRUE]}
  BY <1>0, <1>4, <1>5 DEF Domains, With, Goes
<1>8. loc'[t] \in Locals
  BY <1>1, <1>7 DEF Locals
<1>9. /\ Fits(mem'[t]) /\ Fits(journal'[t])
      /\ Stands(mem'[t], child[t], disk[t]) /\ Stands(journal'[t], child[t], disk[t])
  BY <1>1, <1>3, <1>7, Shapes
<1>10. Knows(pc'[t], mem'[t], journal'[t], loc'[t], holds'[t], reply'[t], disk[t])
  BY <1>0, <1>1, <1>2, <1>7 DEF Knows, Terminal
<1>11. pc'[t] \in Pcs /\ holds'[t] \in SUBSET Files /\ reply'[t] \in Reply
  BY <1>0, <1>1, <1>7 DEF Pcs
<1>12. GoodTree(t)'
  BY <1>0, <1>8, <1>9, <1>10, <1>11, WorkerMoves
<1> QED  BY <1>0, <1>6, <1>12, OneTree

\* A cancel call marks the entry.
LEMMA CancelMarksOK == ASSUME IInv, NEW t \in Trees, CancelMarks(t) PROVE IInv'
<1> DEFINE e == [mem[t] EXCEPT !.phase = IF @ \in Cancellable THEN "Cancelling" ELSE @]
           m == With(t, e)
<1>0. /\ up /\ mem[t].phase \notin Terminal /\ mem' = m /\ Domains /\ Spend("cancels")
      /\ UNCHANGED <<up, pc, loc, holds, signal, child, reply, disk, src>>
      /\ (journal' = m \/ journal' = journal)
  BY TreeFacts DEF CancelMarks
<1>1. /\ Fits(journal[t]) /\ Stands(journal[t], child[t], disk[t]) /\ loc[t] \in Locals
      /\ holds[t] \in SUBSET Files /\ reply[t] \in Reply /\ Stands(mem[t], child[t], disk[t])
      /\ mem[t] \in Entry /\ Fits(mem[t]) /\ pc[t] \in Pcs
      /\ Knows(pc[t], mem[t], journal[t], loc[t], holds[t], reply[t], disk[t])
  BY <1>0, TreeFacts
<1>2. e \in Entry /\ e.prefix = mem[t].prefix /\ e.active = mem[t].active /\ e.phase \notin Terminal
  BY <1>0, <1>1 DEF Entry, Phases, Terminal
<1> HIDE DEF e
<1>3. Fits(e) /\ Stands(e, child[t], disk[t]) /\ Total(e) = Total(mem[t])
  BY <1>0, <1>1, <1>2, FitsSame, SameWindow DEF Terminal, Total
<1>4. plan' \in PlanType
  BY <1>0, SpendPlan DEF Domains
<1>5. Elsewhere(t) /\ Domains'
  BY <1>0, <1>4 DEF Elsewhere, Domains, With
<1>6. mem'[t] = e /\ journal'[t] \in {e, journal[t]}
  BY <1>0 DEF Domains, With
<1>7. Knows(pc[t], e, journal'[t], loc[t], holds[t], reply[t], disk[t])
  BY <1>1, <1>2, <1>3, <1>6 DEF Knows
<1>8. GoodTree(t)'
  BY <1>0, <1>1, <1>3, <1>6, <1>7, WorkerMoves
<1> QED  BY <1>0, <1>5, <1>8, OneTree

\* Nothing of a tree but its watches moves.
LEMMA Untouched ==
    ASSUME IInv, plan' \in PlanType, UNCHANGED <<up, mem, journal, pc, loc, holds, child, reply, disk, src>>
    PROVE  IInv'
<1>1. Domains' /\ \A t \in Trees : GoodTree(t)'
  BY DEF IInv, Domains, GoodTree
<1>2. Held' = Held
  BY DEF Held
<1> QED  BY <1>1, <1>2 DEF IInv

\* The Host answers: PreparePut makes the staging tree, FinalizePut commits it.
LEMMA HostAnswersOK == ASSUME IInv, NEW t \in Trees, HostAnswers(t) PROVE IInv'
<1>0. /\ up /\ Domains /\ reply[t] = NoReply
      /\ UNCHANGED <<plan, up, mem, journal, pc, loc, holds, signal, calling, child, src>>
  BY TreeFacts DEF HostAnswers
<1>1. /\ Fits(journal[t]) /\ Stands(journal[t], child[t], disk[t]) /\ Sound(child[t], disk[t])
      /\ Stands(mem[t], child[t], disk[t]) /\ loc[t] \in Locals /\ holds[t] \in SUBSET Files
      /\ child[t] \in [Files -> ChildPhases] /\ disk[t] \in Tree /\ src[t] \in Version
      /\ mem[t] \in Entry /\ Fits(mem[t]) /\ pc[t] \in Pcs
      /\ Knows(pc[t], mem[t], journal[t], loc[t], holds[t], reply[t], disk[t])
  BY <1>0, TreeFacts
<1>2. ASSUME NEW is \in Answer, Answers(t, is), NEW d, disk' = [disk EXCEPT ![t] = d] \/ (disk' = disk /\ d = disk[t]),
             d \in Tree, Later(child[t], disk[t], child[t], d), Sound(child[t], d),
             is = "Completed" => d.final = "own"
      PROVE  IInv'
  <2>1. /\ disk'[t] = d /\ reply'[t] = [is |-> is, version |-> src[t]] /\ child'[t] = child[t]
        /\ src'[t] = src[t] /\ mem'[t] = mem[t] /\ journal'[t] = journal[t] /\ loc'[t] = loc[t]
        /\ holds'[t] = holds[t] /\ pc'[t] = pc[t] /\ up'
    BY <1>0, <1>2 DEF Domains, Answers
  <2>2. reply'[t] \in Reply /\ reply'[t].is = is
    BY <1>1, <1>2, <2>1 DEF Reply
  <2>3. Stands(mem[t], child[t], d) /\ Stands(journal[t], child[t], d)
    BY <1>1, <1>2, StandsLater
  <2>4. Knows(pc[t], mem[t], journal[t], loc[t], holds[t], reply'[t], d)
    <3>1. \A i \in 1 .. Len(mem[t].active) : mem[t].prefix + i \in Files
      BY <1>1, FitsFiles
    <3> QED  BY <1>1, <1>2, <2>2, <3>1 DEF Knows, Later
  <2>5. GoodTree(t)'
    BY <1>0, <1>1, <1>2, <2>1, <2>2, <2>3, <2>4, Together
  <2>6. Elsewhere(t) /\ Domains'
    BY <1>0, <1>2 DEF Elsewhere, Domains, Answers
  <2> QED  BY <1>0, <2>5, <2>6, OneTree
<1>3. ASSUME NEW is \in Answer, is # "Completed", Answers(t, is), UNCHANGED disk PROVE IInv'
  BY <1>1, <1>2, <1>3, SameIsLater
<1>4. CASE PreparePut(t)
  <2>1. CASE Answers(t, "Conflict") /\ UNCHANGED disk
    BY <1>3, <2>1 DEF Answer
  <2>2. CASE Answers(t, "Prepared") /\ disk' = [disk EXCEPT ![t] = Staged(disk[t])]
    <3>1. /\ Staged(disk[t]) \in Tree /\ Later(child[t], disk[t], child[t], Staged(disk[t]))
          /\ Sound(child[t], Staged(disk[t]))
      BY <1>1, StagedOK
    <3>2. "Prepared" \in Answer /\ "Prepared" # "Completed"
      BY DEF Answer
    <3> QED  BY <1>2, <2>2, <3>1, <3>2
  <2> QED  BY <1>4, <2>1, <2>2 DEF PreparePut
<1>5. CASE FinalizePut(t)
  <2>1. CASE disk[t].final = "own" /\ Answers(t, "Completed") /\ UNCHANGED disk
    <3>1. "Completed" \in Answer
      BY DEF Answer
    <3> QED  BY <1>1, <1>2, <2>1, <3>1, SameIsLater
  <2>2. CASE /\ TreeMatches(t) /\ Answers(t, "Completed")
             /\ disk' = [disk EXCEPT ![t].staging = FALSE, ![t].final = "own"]
    <3>1. disk' = [disk EXCEPT ![t] = Final(disk[t])]
      BY <1>0, <2>2 DEF Domains, Final
    <3>2. \E v \in Version : \A f \in Files : disk[t].files[f] = v
      BY <1>1, <2>2 DEF TreeMatches, ScanIs, Entry
    <3>3. /\ Final(disk[t]) \in Tree /\ Later(child[t], disk[t], child[t], Final(disk[t]))
          /\ Sound(child[t], Final(disk[t])) /\ Final(disk[t]).final = "own"
      BY <1>1, <3>2, CommittedOK
    <3>4. "Completed" \in Answer
      BY DEF Answer
    <3> QED  BY <1>2, <2>2, <3>1, <3>3, <3>4
  <2>3. CASE UNCHANGED disk /\ \E is \in {"NotFound", "HashMismatch", "Conflict"} : Answers(t, is)
    <3>1. {"NotFound", "HashMismatch", "Conflict"} \subseteq Answer \ {"Completed"}
      BY DEF Answer
    <3> QED  BY <1>3, <2>3, <3>1
  <2> QED  BY <1>5, <2>1, <2>2, <2>3 DEF FinalizePut
<1>6. CASE PrepareGet(t)
  BY <1>3, <1>6 DEF PrepareGet, Answer
<1>7. CASE FinalizeGet(t)
  <2>1. \E is \in {"Verified", "HashMismatch"} : Answers(t, is) /\ UNCHANGED disk
    BY <1>7 DEF FinalizeGet
  <2>2. {"Verified", "HashMismatch"} \subseteq Answer \ {"Completed"}
    BY DEF Answer
  <2> QED  BY <1>3, <2>1, <2>2
<1> QED  BY <1>4, <1>5, <1>6, <1>7 DEF HostAnswers

-----------------------------------------------------------------------------
(* What the steps of a worker have in common *)

\* The entry of one tree is written, and journalled or not.
Writes(t, e) ==
  /\ mem' = With(t, e) \/ (mem' = mem /\ e = mem[t])
  /\ Journals(With(t, e)) \/ Refuses(With(t, e)) \/ UNCHANGED <<plan, journal>>

\* The staging tree is made, or nothing happens to the disk.
Stages(t) == disk' = disk \/ disk' = [disk EXCEPT ![t] = Staged(disk[t])]

\* The answer is taken, or left.
Takes(t) == reply' = reply \/ reply' = [reply EXCEPT ![t] = NoReply]

\* The worker's locals move.
Relocates(t) == /\ DOMAIN loc' = Trees /\ loc'[t] \in Locals
                /\ \A x \in Trees \ {t} : loc'[x] = loc[x]

\* An entry that is written.
LEMMA WritesOK ==
    ASSUME IInv, NEW t \in Trees, NEW e, Writes(t, e)
    PROVE  /\ mem'[t] = e /\ DOMAIN mem' = Trees /\ plan' \in PlanType /\ DOMAIN journal' = Trees
           /\ journal'[t] \in {e, journal[t]} /\ (Journals(With(t, e)) => journal'[t] = e)
           /\ \A x \in Trees \ {t} : /\ mem'[x] = mem[x]
                                     /\ journal'[x] = journal[x] \/ journal'[x] = mem[x]
<1> DEFINE m == With(t, e)
<1>0. Domains
  BY DEF IInv
<1>1. mem'[t] = e /\ DOMAIN mem' = Trees /\ \A x \in Trees \ {t} : mem'[x] = mem[x]
  BY <1>0 DEF Writes, With, Domains
<1>2. m[t] = e /\ DOMAIN m = Trees /\ \A x \in Trees \ {t} : m[x] = mem[x]
  BY <1>0 DEF With, Domains
<1>3. Journals(m) \/ Refuses(m) \/ UNCHANGED <<plan, journal>>
  BY DEF Writes
<1>4. plan \in PlanType /\ DOMAIN journal = Trees
  BY <1>0 DEF Domains
<1> HIDE DEF m
<1>5. /\ plan' \in PlanType /\ (journal' = m \/ journal' = journal)
      /\ Journals(m) => journal' = m
  <2>1. CASE Journals(m) \/ Refuses(m)
    BY <1>4, <2>1, Journaled
  <2>2. CASE UNCHANGED <<plan, journal>>
    BY <1>4, <2>2 DEF Journals
  <2> QED  BY <1>3, <2>1, <2>2
<1> QED  BY <1>1, <1>2, <1>4, <1>5 DEF m

\* Making a staging tree, or not.
LEMMA StagesOK ==
    ASSUME IInv, NEW t \in Trees, Stages(t)
    PROVE  /\ disk'[t] \in Tree /\ DOMAIN disk' = Trees /\ \A x \in Trees \ {t} : disk'[x] = disk[x]
           /\ Later(child[t], disk[t], child[t], disk'[t]) /\ Sound(child[t], disk'[t])
           /\ disk'[t].final = disk[t].final
<1>0. Domains /\ disk[t] \in Tree /\ Sound(child[t], disk[t])
  BY TreeFacts
<1>1. disk'[t] \in {disk[t], Staged(disk[t])} /\ DOMAIN disk' = Trees /\ \A x \in Trees \ {t} : disk'[x] = disk[x]
  BY <1>0 DEF Stages, Domains
<1>2. Staged(disk[t]).final = disk[t].final
  BY <1>0 DEF Staged, Tree
<1> QED  BY <1>0, <1>1, <1>2, StagedOK, SameIsLater

\* Taking an answer, or not.
LEMMA TakesOK ==
    ASSUME IInv, NEW t \in Trees, Takes(t)
    PROVE  /\ reply'[t] \in Reply /\ DOMAIN reply' = Trees /\ \A x \in Trees \ {t} : reply'[x] = reply[x]
           /\ reply'[t].is = "Completed" => disk[t].final = "own"
<1>0. /\ Domains /\ reply[t] \in Reply
      /\ Knows(pc[t], mem[t], journal[t], loc[t], holds[t], reply[t], disk[t])
  BY TreeFacts
<1>1. reply'[t] \in {reply[t], NoReply} /\ DOMAIN reply' = Trees /\ \A x \in Trees \ {t} : reply'[x] = reply[x]
  BY <1>0 DEF Takes, Domains
<1> QED  BY <1>0, <1>1, Shapes DEF Knows

\* A worker that is over where it stands.
LEMMA SettlesHere ==
    ASSUME IInv, NEW t \in Trees, up, UNCHANGED <<plan, up, journal, loc, child, disk, src>>,
           NEW phase \in Terminal, Settle(t, phase), phase = "Completed" => disk[t].final = "own",
           Takes(t)
    PROVE  IInv'
<1>0. /\ Domains /\ child[t] \in [Files -> ChildPhases] /\ disk[t] \in Tree /\ Sound(child[t], disk[t])
      /\ child'[t] = child[t] /\ disk'[t] = disk[t] /\ up'
  BY TreeFacts
<1>1. /\ reply'[t] \in Reply /\ DOMAIN reply' = Trees /\ \A x \in Trees \ {t} : reply'[x] = reply[x]
      /\ reply'[t].is = "Completed" => disk[t].final = "own"
  BY TakesOK
<1>2. GoodTree(t)' /\ holds'[t] \subseteq holds[t]
  <2>1. UNCHANGED <<journal, loc, src>>
    OBVIOUS
  <2> QED  BY <1>0, <1>1, <2>1, SameIsLater, SettleOK
<1>3. Elsewhere(t) /\ Domains'
  BY <1>0, <1>1 DEF Elsewhere, Domains, Settle, With, Goes
<1> QED  BY <1>2, <1>3, OneTree

\* A worker that gives up, with or without children to cancel.
LEMMA AbandonsHere ==
    ASSUME IInv, NEW t \in Trees, up, UNCHANGED <<up, src>>, Stages(t),
           NEW verdict \in {"Failed", "Cancelled"}, Abandon(t, verdict),
           NEW e, Writes(t, e), e.phase \notin Terminal, Fits(e), Stands(e, child[t], disk[t]),
           NEW k, child' = child \/ CancelKids(t, k)
    PROVE  IInv'
<1>0. /\ Domains /\ child[t] \in [Files -> ChildPhases] /\ Fits(journal[t]) /\ up' /\ UNCHANGED src
      /\ Stands(journal[t], child[t], disk[t])
  BY TreeFacts
<1>1. /\ mem'[t] = e /\ DOMAIN mem' = Trees /\ plan' \in PlanType /\ DOMAIN journal' = Trees
      /\ journal'[t] \in {e, journal[t]}
      /\ \A x \in Trees \ {t} : mem'[x] = mem[x] /\ (journal'[x] = journal[x] \/ journal'[x] = mem[x])
  BY WritesOK
<1>2. /\ disk'[t] \in Tree /\ DOMAIN disk' = Trees /\ \A x \in Trees \ {t} : disk'[x] = disk[x]
      /\ Later(child[t], disk[t], child[t], disk'[t]) /\ Sound(child[t], disk'[t])
  BY StagesOK
<1>3. /\ child'[t] \in [Files -> ChildPhases] /\ DOMAIN child' = Trees
      /\ \A x \in Trees \ {t} : child'[x] = child[x]
      /\ \A f \in Files : /\ child'[t][f] = "completed" => child[t][f] = "completed"
                          /\ child'[t][f] # "none" => child[t][f] # "none"
  <2>1. CASE child' = child
    BY <1>0, <2>1 DEF Domains
  <2>2. CASE CancelKids(t, k)
    <3>1. DOMAIN child' = Trees /\ \A x \in Trees \ {t} : child'[x] = child[x]
      BY <1>0, <2>2 DEF CancelKids, Domains
    <3>2. child'[t] \in [Files -> ChildPhases]
      BY <2>2, CancelKidsOK
    <3>3. \A f \in Files : child'[t][f] = child[t][f] \/ (child[t][f] = "running" /\ child'[t][f] = "cancelled")
      BY <1>0, <2>2 DEF CancelKids, Domains
    <3> QED  BY <3>1, <3>2, <3>3
  <2> QED  BY <2>1, <2>2
<1>4. Later(child[t], disk[t], child'[t], disk'[t]) /\ Sound(child'[t], disk'[t])
  BY <1>2, <1>3, SoundWithout DEF Later
<1>5. Stands(mem'[t], child'[t], disk'[t]) /\ Stands(journal'[t], child'[t], disk'[t])
      /\ Fits(mem'[t]) /\ Fits(journal'[t]) /\ mem'[t].phase \notin Terminal
  BY <1>0, <1>1, <1>4, StandsLater
<1>6. GoodTree(t)' /\ holds'[t] \subseteq holds[t]
  BY <1>0, <1>2, <1>3, <1>4, <1>5, AbandonOK
<1>7. Elsewhere(t) /\ Domains'
  BY <1>0, <1>1, <1>2, <1>3 DEF Elsewhere, Domains, Abandon, Goes
<1> QED  BY <1>6, <1>7, OneTree

\* A worker that goes on.
LEMMA MovesHere ==
    ASSUME IInv, NEW t \in Trees, up, UNCHANGED <<up, child, src>>, Stages(t),
           NEW p \in Pcs, Goes(t, p),
           NEW e, Writes(t, e), Fits(e), Stands(e, child[t], disk[t]),
           loc' = loc \/ Relocates(t),
           holds' = holds \/ holds' = [holds EXCEPT ![t] = {}], Takes(t),
           Knows(p, e, journal'[t], loc'[t], holds'[t], NoReply, disk'[t])
    PROVE  IInv'
<1>0. /\ Domains /\ child[t] \in [Files -> ChildPhases] /\ Fits(journal[t]) /\ up' /\ src'[t] \in Version
      /\ Stands(journal[t], child[t], disk[t]) /\ loc[t] \in Locals /\ holds[t] \in SUBSET Files
      /\ child'[t] = child[t]
  BY TreeFacts
<1>1. /\ mem'[t] = e /\ DOMAIN mem' = Trees /\ plan' \in PlanType /\ DOMAIN journal' = Trees
      /\ journal'[t] \in {e, journal[t]}
      /\ \A x \in Trees \ {t} : mem'[x] = mem[x] /\ (journal'[x] = journal[x] \/ journal'[x] = mem[x])
  BY WritesOK
<1>2. /\ disk'[t] \in Tree /\ DOMAIN disk' = Trees /\ \A x \in Trees \ {t} : disk'[x] = disk[x]
      /\ Later(child[t], disk[t], child[t], disk'[t]) /\ Sound(child[t], disk'[t])
      /\ disk'[t].final = disk[t].final
  BY StagesOK
<1>3. /\ reply'[t] \in Reply /\ DOMAIN reply' = Trees /\ \A x \in Trees \ {t} : reply'[x] = reply[x]
      /\ reply'[t].is = "Completed" => disk[t].final = "own"
  BY TakesOK
<1>4. /\ pc'[t] = p /\ DOMAIN pc' = Trees /\ DOMAIN loc' = Trees /\ DOMAIN holds' = Trees
      /\ \A x \in Trees \ {t} : pc'[x] = pc[x] /\ loc'[x] = loc[x] /\ holds'[x] = holds[x]
      /\ loc'[t] \in Locals /\ holds'[t] \in SUBSET Files /\ holds'[t] \subseteq holds[t]
  BY <1>0 DEF Domains, Goes, Relocates
<1>5. Stands(mem'[t], child'[t], disk'[t]) /\ Stands(journal'[t], child'[t], disk'[t])
      /\ Fits(mem'[t]) /\ Fits(journal'[t])
  BY <1>0, <1>1, <1>2, StandsLater
<1>6. Knows(p, mem'[t], journal'[t], loc'[t], holds'[t], reply'[t], disk'[t])
  BY <1>1, <1>2, <1>3, Shapes DEF Knows
<1>7. GoodTree(t)'
  BY <1>0, <1>2, <1>3, <1>4, <1>5, <1>6, Together
<1>8. Elsewhere(t) /\ Domains'
  BY <1>0, <1>1, <1>2, <1>3, <1>4 DEF Elsewhere, Domains
<1> QED  BY <1>4, <1>7, <1>8, OneTree

-----------------------------------------------------------------------------
(* The worker up to the window *)

\* What is known of a tree while the Controller runs.
LEMMA Running ==
    ASSUME IInv, NEW t \in Trees, up
    PROVE  /\ Fits(mem[t]) /\ mem[t] \in Entry /\ Fits(journal[t]) /\ Stands(mem[t], child[t], disk[t])
           /\ Knows(pc[t], mem[t], journal[t], loc[t], holds[t], reply[t], disk[t])
           /\ loc[t] \in Locals /\ holds[t] \in SUBSET Files /\ reply[t] \in Reply
           /\ disk[t] \in Tree /\ src[t] \in Version /\ Domains
           /\ pc[t] \notin {"fill", "poll"} => holds[t] = {}
           /\ pc[t] \notin {"idle", "close"} => mem[t].phase \notin Terminal
BY TreeFacts DEF Knows

\* The entry with other fields that no claim is about.
LEMMA SameClaims ==
    ASSUME IInv, NEW t \in Trees, up, NEW e \in Entry, e.prefix = mem[t].prefix,
           e.active = mem[t].active, mem[t].phase \in Terminal => e.phase \in Terminal,
           e.phase = "Completed" => mem[t].phase = "Completed"
    PROVE  Fits(e) /\ Stands(e, child[t], disk[t]) /\ Total(e) = Total(mem[t])
<1>1. Fits(mem[t]) /\ Stands(mem[t], child[t], disk[t])
  BY Running
<1>2. Fits(e)
  BY <1>1, FitsSame
<1>3. Stands(e, child[t], disk[t])
  BY <1>1, SameWindow DEF Stands, Claimed
<1> QED  BY <1>2, <1>3 DEF Total

\* A worker that has no window goes where it knows nothing.
LEMMA KnowsLittle ==
    ASSUME NEW p, p \notin {"fill", "poll", "ending", "undo"}, NEW e, p = "close" \/ e.phase \notin Terminal,
           NEW j, NEW l, NEW d
    PROVE  Knows(p, e, j, l, {}, NoReply, d)
BY Shapes DEF Knows

\* A new put scans its source and fills in the totals.
LEMMA BeginPutOK == ASSUME IInv, NEW t \in Trees, BeginPut(t) PROVE IInv'
<1>0. /\ up /\ pc[t] = "begin"
      /\ UNCHANGED <<plan, up, journal, loc, signal, calling, child, reply, disk, src>>
  BY DEF BeginPut
<1>1. CASE Settle(t, "Cancelled")
  BY <1>0, <1>1, SettlesHere DEF Terminal, Takes
<1>2. CASE /\ mem' = With(t, [mem[t] EXCEPT !.counted = TRUE, !.manifest = src[t]])
           /\ Goes(t, "counted") /\ UNCHANGED holds
  <2> DEFINE e == [mem[t] EXCEPT !.counted = TRUE, !.manifest = src[t]]
  <2>1. mem[t] \in Entry /\ src[t] \in Version /\ holds[t] = {} /\ mem[t].phase \notin Terminal
    BY <1>0, Running
  <2>2. e \in Entry /\ e.prefix = mem[t].prefix /\ e.active = mem[t].active /\ e.phase = mem[t].phase
    BY <2>1 DEF Entry
  <2>3. Writes(t, e) /\ Stages(t) /\ Takes(t)
    BY <1>0, <1>2 DEF Writes, Stages, Takes
  <2> HIDE DEF e
  <2>4. Fits(e) /\ Stands(e, child[t], disk[t])
    BY <1>0, <2>2, SameClaims
  <2>5. Knows("counted", e, journal'[t], loc'[t], holds'[t], NoReply, disk'[t])
    BY <1>2, <2>1, <2>2, KnowsLittle
  <2> QED  BY <1>0, <1>2, <2>3, <2>4, <2>5, MovesHere DEF Pcs
<1> QED  BY <1>1, <1>2 DEF BeginPut

\* A worker that moves on without a window, its entry as it was.
LEMMA GoesOn ==
    ASSUME IInv, NEW t \in Trees, up, pc[t] \notin {"fill", "poll", "idle", "close"},
           UNCHANGED <<plan, up, mem, journal, child, disk, src>>, loc' = loc, holds' = holds,
           NEW p \in Pcs, p \notin {"fill", "poll", "ending", "undo"}, Goes(t, p), Takes(t)
    PROVE  IInv'
<1>1. Writes(t, mem[t]) /\ Stages(t) /\ holds[t] = {} /\ mem[t].phase \notin Terminal
  BY Running DEF Writes, Stages
<1>2. Fits(mem[t]) /\ Stands(mem[t], child[t], disk[t])
  BY Running
<1>3. Knows(p, mem[t], journal'[t], loc'[t], holds'[t], NoReply, disk'[t])
  BY <1>1, KnowsLittle
<1> QED  BY <1>1, <1>2, <1>3, MovesHere

\* A new get, and a recovered worker, ask the Host.
LEMMA AsksOK == ASSUME IInv, NEW t \in Trees, BeginGet(t) \/ Recovered(t) PROVE IInv'
BY GoesOn DEF BeginGet, Recovered, Pcs, Takes

\* The durable state is journalled.
LEMMA SetDurableStateOK == ASSUME IInv, NEW t \in Trees, SetDurableState(t) PROVE IInv'
<1> DEFINE e == [mem[t] EXCEPT !.state = IF Put(t) THEN "manifest" ELSE "staged"]
           g == [e EXCEPT !.phase = "Failed"]
           p == IF Put(t) THEN "prepare" ELSE "stage"
<1>0. /\ up /\ pc[t] = "counted" /\ UNCHANGED <<up, loc, signal, calling, child, reply, disk, src>>
      /\ UNCHANGED holds /\ Domains /\ mem[t] \in Entry /\ holds[t] = {}
      /\ mem[t].phase \notin Terminal /\ Stages(t) /\ Takes(t)
  BY Running DEF SetDurableState, Stages, Takes
<1>1. e \in Entry /\ e.prefix = mem[t].prefix /\ e.active = mem[t].active /\ e.phase = mem[t].phase
  BY <1>0 DEF Entry
<1>2. g \in Entry /\ g.prefix = mem[t].prefix /\ g.active = mem[t].active /\ g.phase = "Failed"
  BY <1>0 DEF Entry, Phases
<1>3. [With(t, e) EXCEPT ![t].phase = "Failed"] = With(t, g)
  BY <1>0 DEF With, Domains
<1>4. \/ Journals(With(t, e)) /\ mem' = With(t, e) /\ Goes(t, p)
      \/ Refuses(With(t, e)) /\ mem' = With(t, g) /\ Goes(t, "close")
  BY <1>3 DEF SetDurableState
<1> HIDE DEF e, g
<1>5. Fits(e) /\ Stands(e, child[t], disk[t]) /\ Fits(g) /\ Stands(g, child[t], disk[t])
  BY <1>0, <1>1, <1>2, SameClaims DEF Terminal
<1>6. CASE Journals(With(t, e)) /\ mem' = With(t, e) /\ Goes(t, p)
  <2>1. Writes(t, e) /\ p \in Pcs /\ p \notin {"fill", "poll", "ending", "undo"}
    BY <1>6 DEF Writes, Pcs
  <2>2. Knows(p, e, journal'[t], loc'[t], holds'[t], NoReply, disk'[t])
    BY <1>0, <1>1, <2>1, KnowsLittle
  <2> QED  BY <1>0, <1>5, <1>6, <2>1, <2>2, MovesHere
<1>7. CASE Refuses(With(t, e)) /\ mem' = With(t, g) /\ Goes(t, "close")
  <2>1. /\ GoodTree(t)' /\ holds'[t] \subseteq holds[t] /\ Elsewhere(t) /\ Domains'
    <3>1. plan' \in PlanType /\ journal' \in {With(t, e), journal}
      BY <1>0, <1>7, Journaled DEF Domains
    <3>2. /\ mem'[t] = g /\ journal'[t] \in {e, journal[t]} /\ pc'[t] = "close" /\ holds'[t] = {}
          /\ loc'[t] = loc[t] /\ reply'[t] = reply[t]
      BY <1>0, <1>7, <3>1 DEF With, Goes, Domains
    <3>3. Elsewhere(t) /\ Domains'
      BY <1>0, <1>7, <3>1 DEF Elsewhere, Domains, With, Goes
    <3>4. /\ Fits(journal[t]) /\ Stands(journal[t], child[t], disk[t]) /\ loc[t] \in Locals
          /\ reply[t] \in Reply /\ (reply[t].is = "Completed" => disk[t].final = "own")
      BY TreeFacts DEF Knows
    <3>5. Knows("close", mem'[t], journal'[t], loc'[t], holds'[t], reply'[t], disk'[t])
      BY <1>0, <3>2, <3>4, OutOfWindow
    <3>6. "close" \in Pcs /\ holds'[t] \in SUBSET Files
      BY <3>2 DEF Pcs
    <3>7. GoodTree(t)'
      BY <1>0, <1>5, <3>2, <3>4, <3>5, <3>6, WorkerMoves
    <3> QED  BY <1>0, <3>3, <3>7
  <2> QED  BY <1>0, <2>1, OneTree
<1> QED  BY <1>4, <1>6, <1>7

\* A get whose source was verified before the crash.
LEMMA RecoverCommitOK == ASSUME IInv, NEW t \in Trees, RecoverCommit(t) PROVE IInv'
<1>0. /\ up /\ pc[t] = "begin"
      /\ UNCHANGED <<plan, up, journal, loc, signal, calling, child, reply, disk, src>>
  BY DEF RecoverCommit
<1>1. CASE Goes(t, "stage") /\ UNCHANGED <<mem, holds>>
  BY <1>0, <1>1, GoesOn DEF Pcs, Takes
<1>2. ASSUME NEW phase \in {"Completed", "Failed"}, Settle(t, phase),
             phase = "Completed" => disk[t].final = "own"
      PROVE  IInv'
  <2>1. phase \in Terminal /\ Takes(t) /\ UNCHANGED <<plan, up, journal, loc, child, disk, src>>
    BY <1>0 DEF Terminal, Takes
  <2> QED  BY <1>0, <1>2, <2>1, SettlesHere
<1>3. \/ Goes(t, "stage") /\ UNCHANGED <<mem, holds>>
      \/ Settle(t, "Completed") /\ disk[t].final = "own"
      \/ Settle(t, "Failed")
  BY DEF RecoverCommit
<1> QED  BY <1>1, <1>2, <1>3

\* A put that Host has prepared.
LEMMA PreparedPutOK ==
    ASSUME IInv, NEW t \in Trees, up, pc[t] = "prepare", PreparedPut(t),
           reply' = [reply EXCEPT ![t] = NoReply], UNCHANGED <<up, signal, calling, src>>
    PROVE  IInv'
<1> DEFINE e == [mem[t] EXCEPT !.state = "staged",
                               !.phase = IF mem[t].prefix < N THEN "Running" ELSE @]
           p == IF e.prefix < N THEN "fill" ELSE "ending"
<1>0. /\ Domains /\ mem[t] \in Entry /\ holds[t] = {} /\ Fits(mem[t]) /\ Takes(t)
      /\ mem[t].phase \notin Terminal /\ Stages(t) /\ UNCHANGED <<child, disk>>
  BY Running DEF Takes, PreparedPut, Stages
<1>1. /\ e \in Entry /\ e.prefix = mem[t].prefix /\ e.active = mem[t].active
      /\ e.phase = IF mem[t].prefix < N THEN "Running" ELSE mem[t].phase
  BY <1>0 DEF Entry, Phases
<1>2. /\ mem' = With(t, e)
      /\ \/ Journals(With(t, e)) /\ Goes(t, p) /\ UNCHANGED <<loc, holds>>
         \/ UNCHANGED <<plan, journal>> /\ Abandon(t, "Failed")
         \/ Refuses(With(t, e)) /\ Abandon(t, "Failed")
  BY DEF PreparedPut
<1> HIDE DEF e
<1>3. e.prefix \in 0 .. N /\ N \in Nat
  BY <1>1, DirectoryConstants DEF Entry
<1>4. e.phase \notin Terminal
  BY <1>0, <1>1 DEF Terminal
<1>5. Fits(e) /\ Stands(e, child[t], disk[t])
  <2>1. mem[t].phase \in Terminal => e.phase \in Terminal
    BY <1>0
  <2>2. e.phase = "Completed" => mem[t].phase = "Completed"
    BY <1>4 DEF Terminal
  <2> QED  BY <1>1, <2>1, <2>2, SameClaims
<1>6. CASE Journals(With(t, e)) /\ Goes(t, p) /\ UNCHANGED <<loc, holds>>
  <2>1. Writes(t, e) /\ journal'[t] = e
    <3>1. Writes(t, e)
      BY <1>2, <1>6 DEF Writes
    <3> QED  BY <1>6, <3>1, WritesOK
  <2>2. p \in {"fill", "ending"} /\ (p = "ending" => e.prefix = N)
    BY <1>3
  <2>3. Knows(p, e, journal'[t], loc'[t], holds'[t], NoReply, disk'[t])
    BY <1>0, <1>4, <1>6, <2>1, <2>2, Shapes DEF Knows
  <2> QED  BY <1>0, <1>5, <1>6, <2>1, <2>2, <2>3, MovesHere DEF Pcs
<1>7. CASE (UNCHANGED <<plan, journal>> \/ Refuses(With(t, e))) /\ Abandon(t, "Failed")
  <2>1. Writes(t, e)
    BY <1>2, <1>7 DEF Writes
  <2> QED  BY <1>0, <1>4, <1>5, <1>7, <2>1, AbandonsHere
<1> QED  BY <1>2, <1>6, <1>7

\* A get that has its manifest.
LEMMA PreparedGetOK ==
    ASSUME IInv, NEW t \in Trees, up, pc[t] = "prepare", PreparedGet(t),
           reply' = [reply EXCEPT ![t] = NoReply], UNCHANGED <<up, signal, calling, src>>
    PROVE  IInv'
<1>0. /\ mem[t] \in Entry /\ holds[t] = {} /\ mem[t].phase \notin Terminal
      /\ Takes(t) /\ Stages(t) /\ UNCHANGED <<plan, up, journal, loc, child, disk, src>>
      /\ reply[t].version \in Version
  BY Running DEF Takes, PreparedGet, Stages, Reply
<1>1. CASE Settle(t, "Failed")
  BY <1>0, <1>1, SettlesHere DEF Terminal
<1>2. CASE Goes(t, "stage") /\ UNCHANGED <<mem, holds>>
  BY <1>0, <1>2, GoesOn DEF Pcs
<1>3. CASE /\ mem' = With(t, [mem[t] EXCEPT !.counted = TRUE, !.manifest = reply[t].version])
           /\ Goes(t, "counted") /\ UNCHANGED holds
  <2> DEFINE e == [mem[t] EXCEPT !.counted = TRUE, !.manifest = reply[t].version]
  <2>2. e \in Entry /\ e.prefix = mem[t].prefix /\ e.active = mem[t].active /\ e.phase = mem[t].phase
    BY <1>0 DEF Entry
  <2>3. Writes(t, e)
    BY <1>0, <1>3 DEF Writes
  <2> HIDE DEF e
  <2>4. Fits(e) /\ Stands(e, child[t], disk[t])
    BY <2>2, SameClaims
  <2>5. Knows("counted", e, journal'[t], loc'[t], holds'[t], NoReply, disk'[t])
    BY <1>0, <1>3, <2>2, KnowsLittle
  <2> QED  BY <1>0, <1>3, <2>3, <2>4, <2>5, MovesHere DEF Pcs
<1> QED  BY <1>1, <1>2, <1>3 DEF PreparedGet, FreshGet, RecoveredGet

\* The worker takes the first answer.
LEMMA TakePreparedOK == ASSUME IInv, NEW t \in Trees, TakePrepared(t) PROVE IInv'
<1>0. /\ up /\ pc[t] = "prepare" /\ reply' = [reply EXCEPT ![t] = NoReply]
      /\ UNCHANGED <<up, signal, calling, src>>
  BY DEF TakePrepared
<1>1. CASE Settle(t, "Failed") /\ UNCHANGED <<plan, journal, loc, child, disk>>
  BY <1>0, <1>1, SettlesHere DEF Terminal, Takes
<1> QED  BY <1>0, <1>1, PreparedPutOK, PreparedGetOK DEF TakePrepared

\* A get makes its staging tree, or finds it.
LEMMA StageOK == ASSUME IInv, NEW t \in Trees, Stage(t) PROVE IInv'
<1> DEFINE r == [mem[t] EXCEPT !.phase = "Running"]
<1>0. /\ up /\ pc[t] = "stage" /\ UNCHANGED <<up, signal, calling, src>>
      /\ mem[t] \in Entry /\ holds[t] = {} /\ mem[t].phase \notin Terminal
      /\ Fits(mem[t]) /\ Stands(mem[t], child[t], disk[t])
  BY Running DEF Stage
<1>1. r \in Entry /\ r.prefix = mem[t].prefix /\ r.active = mem[t].active /\ r.phase = "Running"
  BY <1>0 DEF Entry, Phases
<1>2. \/ Settle(t, "Failed") /\ UNCHANGED <<plan, journal, loc, child, reply, disk>>
      \/ /\ disk' = [disk EXCEPT ![t] = Staged(disk[t])]
         /\ \/ AbandonWindow(t, mem[t], "Cancelled") /\ UNCHANGED <<plan, mem, journal>>
            \/ /\ UNCHANGED child /\ mem[t].prefix = N /\ Goes(t, "ending")
               /\ UNCHANGED <<plan, mem, journal, loc, holds, reply>>
            \/ /\ UNCHANGED child /\ mem' = With(t, r) /\ Journals(With(t, r))
               /\ Goes(t, "fill") /\ UNCHANGED <<loc, holds, reply>>
            \/ /\ UNCHANGED child /\ mem' = With(t, r) /\ Refuses(With(t, r))
               /\ Abandon(t, "Failed")
  BY DEF Stage
<1> HIDE DEF r
<1>3. Fits(r) /\ Stands(r, child[t], disk[t]) /\ r.phase \notin Terminal
  BY <1>0, <1>1, SameClaims DEF Terminal
<1>4. CASE Settle(t, "Failed") /\ UNCHANGED <<plan, journal, loc, child, reply, disk>>
  BY <1>0, <1>4, SettlesHere DEF Terminal, Takes
<1>5. CASE /\ disk' = [disk EXCEPT ![t] = Staged(disk[t])]
           /\ AbandonWindow(t, mem[t], "Cancelled") /\ UNCHANGED <<plan, mem, journal>>
  <2>1. Writes(t, mem[t]) /\ Stages(t) /\ Abandon(t, "Cancelled") /\ CancelKids(t, mem[t])
    BY <1>5 DEF Writes, Stages, AbandonWindow
  <2> QED  BY <1>0, <2>1, AbandonsHere
<1>6. CASE /\ disk' = [disk EXCEPT ![t] = Staged(disk[t])]
           /\ UNCHANGED child /\ mem[t].prefix = N /\ Goes(t, "ending")
           /\ UNCHANGED <<plan, mem, journal, loc, holds, reply>>
  <2>1. Writes(t, mem[t]) /\ Stages(t) /\ Takes(t)
    BY <1>6 DEF Writes, Stages, Takes
  <2>2. Knows("ending", mem[t], journal'[t], loc'[t], holds'[t], NoReply, disk'[t])
    BY <1>0, <1>6, Shapes DEF Knows
  <2> QED  BY <1>0, <1>6, <2>1, <2>2, MovesHere DEF Pcs
<1>7. CASE /\ disk' = [disk EXCEPT ![t] = Staged(disk[t])]
           /\ UNCHANGED child /\ mem' = With(t, r) /\ Journals(With(t, r))
           /\ Goes(t, "fill") /\ UNCHANGED <<loc, holds, reply>>
  <2>1. Writes(t, r) /\ Stages(t) /\ Takes(t)
    BY <1>7 DEF Writes, Stages, Takes
  <2>2. journal'[t] = r
    BY <1>7, <2>1, WritesOK
  <2>3. Knows("fill", r, journal'[t], loc'[t], holds'[t], NoReply, disk'[t])
    BY <1>0, <1>3, <1>7, <2>2, Shapes DEF Knows
  <2> QED  BY <1>0, <1>3, <1>7, <2>1, <2>3, MovesHere DEF Pcs
<1>8. CASE /\ disk' = [disk EXCEPT ![t] = Staged(disk[t])]
           /\ UNCHANGED child /\ mem' = With(t, r) /\ Refuses(With(t, r))
           /\ Abandon(t, "Failed")
  <2>1. Writes(t, r) /\ Stages(t)
    BY <1>8 DEF Writes, Stages
  <2> QED  BY <1>0, <1>3, <1>8, <2>1, AbandonsHere
<1> QED  BY <1>2, <1>4, <1>5, <1>6, <1>7, <1>8

-----------------------------------------------------------------------------
(* The window *)

\* Sequences of flags, one longer and cut at the front.
LEMMA Appended ==
    ASSUME NEW s \in Seq(BOOLEAN), NEW b \in BOOLEAN
    PROVE  /\ Append(s, b) \in Seq(BOOLEAN) /\ Len(Append(s, b)) = Len(s) + 1
           /\ \A i \in 1 .. Len(s) : Append(s, b)[i] = s[i]
           /\ Append(s, b)[Len(s) + 1] = b
BY AppendProperties

\* The entry with one more child.
LEMMA ReservedEntry ==
    ASSUME IInv, NEW t \in Trees, up, Wants(mem[t]), mem[t].phase \notin Terminal,
           NEW e, e = [mem[t] EXCEPT !.active = Append(@, FALSE)]
    PROVE  /\ Fits(e) /\ Stands(e, child[t], disk[t]) /\ e.phase \notin Terminal
           /\ Total(e) = Total(mem[t]) + 1 /\ Next_(mem[t]) \in Files
<1>0. Fits(mem[t]) /\ mem[t] \in Entry /\ Stands(mem[t], child[t], disk[t])
  BY Running
<1>1. /\ mem[t].active \in Seq(BOOLEAN) /\ Len(mem[t].active) \in Nat /\ mem[t].prefix \in Nat
      /\ N \in Nat /\ Total(mem[t]) + 1 <= N
  BY <1>0, FitsFiles, DirectoryConstants DEF Entry, Wants, Next_, Total
<1>2. /\ e \in Entry /\ e.prefix = mem[t].prefix /\ e.phase = mem[t].phase
      /\ e.active = Append(mem[t].active, FALSE)
  BY <1>0, <1>1, Appended DEF Entry
<1>3. /\ Len(e.active) = Len(mem[t].active) + 1
      /\ \A i \in 1 .. Len(mem[t].active) : e.active[i] = mem[t].active[i]
      /\ e.active[Len(mem[t].active) + 1] = FALSE
  <2> DEFINE s == mem[t].active
             r == Append(s, FALSE)
  <2>1. s \in Seq(BOOLEAN) /\ FALSE \in BOOLEAN /\ e.active = r
    BY <1>1, <1>2
  <2>2. Len(r) = Len(s) + 1 /\ (\A i \in 1 .. Len(s) : r[i] = s[i]) /\ r[Len(s) + 1] = FALSE
    BY <2>1, Appended
  <2> HIDE DEF r
  <2> QED  BY <2>1, <2>2
<1>4. Total(e) = Total(mem[t]) + 1
  BY SMTT(30), <1>1, <1>2, <1>3 DEF Total
<1>5. Fits(e)
  BY <1>1, <1>2, <1>4 DEF Fits
<1>6. Recorded(e, disk[t])
  <2>1. \A i \in 1 .. Len(e.active) : i \in 1 .. Len(mem[t].active) \/ i = Len(mem[t].active) + 1
    BY <1>1, <1>3
  <2> QED  BY <1>0, <1>2, <1>3, <2>1 DEF Stands, Recorded
<1>7. Reserved(e, child[t])
  <2>1. \A f \in Files : f <= Total(mem[t]) => f <= Total(mem[t]) + 1
    BY <1>1 DEF Files, Total
  <2> QED  BY <1>0, <1>2, <1>4, <2>1 DEF Stands, Reserved
<1>8. Claimed(e, disk[t])
  BY <1>2 DEF Claimed, Terminal
<1>9. Next_(mem[t]) \in Files
  BY <1>1 DEF Next_, Files, Total
<1> QED  BY <1>2, <1>4, <1>5, <1>6, <1>7, <1>8, <1>9 DEF Stands

\* A child is reserved, under a permit of its own.
LEMMA ReserveOK ==
    ASSUME IInv, NEW t \in Trees, up, pc[t] = "fill", Reserve(t),
           UNCHANGED <<up, signal, calling, disk, src>>
    PROVE  IInv'
<1> DEFINE e == [mem[t] EXCEPT !.active = Append(@, FALSE)]
<1>0. /\ mem[t].phase \notin Terminal /\ holds[t] \in SUBSET Files /\ Wants(mem[t]) /\ Free
      /\ mem' = With(t, e) /\ Domains /\ loc[t] \in Locals /\ Stages(t)
  BY Running DEF Reserve, Stages
<1>1. e = [mem[t] EXCEPT !.active = Append(@, FALSE)]
  OBVIOUS
<1>2. With(t, e)[t] = e
  BY <1>0 DEF With, Domains
<1>3. \/ /\ Journals(With(t, e)) /\ holds' = [holds EXCEPT ![t] = @ \cup {Next_(mem[t])}]
         /\ UNCHANGED <<pc, loc, child, reply>>
      \/ Refuses(With(t, e)) /\ AbandonWindow(t, e, "Failed")
  BY <1>2 DEF Reserve
<1> HIDE DEF e
<1>4. /\ Fits(e) /\ Stands(e, child[t], disk[t]) /\ e.phase \notin Terminal
      /\ Next_(mem[t]) \in Files
  BY <1>0, <1>1, ReservedEntry
<1>5. Writes(t, e)
  BY <1>0, <1>3 DEF Writes
<1>6. CASE Refuses(With(t, e)) /\ AbandonWindow(t, e, "Failed")
  <2>1. Abandon(t, "Failed") /\ CancelKids(t, e)
    BY <1>6 DEF AbandonWindow
  <2> QED  BY <1>0, <1>4, <1>5, <2>1, AbandonsHere
<1>7. CASE /\ Journals(With(t, e)) /\ holds' = [holds EXCEPT ![t] = @ \cup {Next_(mem[t])}]
           /\ UNCHANGED <<pc, loc, child, reply>>
  <2>1. /\ mem'[t] = e /\ DOMAIN mem' = Trees /\ plan' \in PlanType /\ DOMAIN journal' = Trees
        /\ journal'[t] = e
        /\ \A x \in Trees \ {t} : mem'[x] = mem[x] /\ (journal'[x] = journal[x] \/ journal'[x] = mem[x])
    BY <1>5, <1>7, WritesOK
  <2>2. /\ DOMAIN holds' = Trees /\ holds'[t] = holds[t] \cup {Next_(mem[t])}
        /\ \A x \in Trees \ {t} : holds'[x] = holds[x]
    BY <1>0, <1>7 DEF Domains
  <2>3. Elsewhere(t) /\ Domains'
    BY <1>0, <1>7, <2>1, <2>2 DEF Elsewhere, Domains
  <2>4. /\ Knows(pc[t], mem[t], journal[t], loc[t], holds[t], reply[t], disk[t])
        /\ reply[t] \in Reply
    BY Running
  <2>5. Knows("fill", e, e, loc[t], holds'[t], reply[t], disk[t])
    BY <1>4, <2>4 DEF Knows
  <2>6. /\ holds'[t] \in SUBSET Files /\ pc'[t] = "fill" /\ "fill" \in Pcs /\ loc'[t] = loc[t]
        /\ reply'[t] = reply[t] /\ up'
    BY <1>0, <1>4, <1>7, <2>2 DEF Pcs
  <2>7. GoodTree(t)'
    BY <1>0, <1>4, <1>7, <2>1, <2>4, <2>5, <2>6, WorkerMoves
  <2> QED  BY <1>0, <2>2, <2>3, <2>7, OneTree
<1> QED  BY <1>3, <1>6, <1>7

\* A round of polls begins.
First(l) == [l EXCEPT !.at = 1, !.seen = {}]

\* The round has seen nothing yet.
LEMMA FirstOK == ASSUME NEW l \in Locals PROVE First(l) \in Locals /\ First(l).seen = {}
<1>1. {} \in SUBSET Nat /\ 1 \in Nat \ {0}
  OBVIOUS
<1>2. \A s \in SUBSET Nat, n \in Nat \ {0} : LET k == [l EXCEPT !.at = n, !.seen = s]
                                             IN k \in Locals /\ k.seen = s
  BY DEF Locals
<1> QED  BY <1>1, <1>2 DEF First

\* The window is filled, or goes on.
LEMMA FillOK == ASSUME IInv, NEW t \in Trees, Fill(t) PROVE IInv'
<1>0. /\ up /\ pc[t] = "fill" /\ UNCHANGED <<up, signal, calling, disk, src>> /\ Stages(t)
      /\ mem[t].phase \notin Terminal /\ Fits(mem[t]) /\ Stands(mem[t], child[t], disk[t])
      /\ Knows(pc[t], mem[t], journal[t], loc[t], holds[t], reply[t], disk[t]) /\ Domains
      /\ loc[t] \in Locals
  BY Running DEF Fill, Stages
<1>1. CASE /\ mem[t].prefix = N /\ Goes(t, "ending") /\ holds' = [holds EXCEPT ![t] = {}]
           /\ UNCHANGED <<plan, mem, journal, loc, child, reply>>
  <2>1. Writes(t, mem[t]) /\ Takes(t) /\ holds'[t] = {}
    BY <1>0, <1>1 DEF Writes, Takes, Domains
  <2>2. Knows("ending", mem[t], journal'[t], loc'[t], holds'[t], NoReply, disk'[t])
    BY <1>0, <1>1, <2>1, Shapes DEF Knows
  <2> QED  BY <1>0, <1>1, <2>1, <2>2, MovesHere DEF Pcs
<1>2. CASE /\ Goes(t, "poll") /\ loc' = [loc EXCEPT ![t].at = 1, ![t].seen = {}]
           /\ UNCHANGED <<plan, mem, journal, holds, child, reply>>
  <2> DEFINE l == First(loc[t])
  <2>1. /\ DOMAIN loc' = Trees /\ loc'[t] = l /\ \A x \in Trees \ {t} : loc'[x] = loc[x]
    <3> DEFINE g == [loc EXCEPT ![t].at = 1]
    <3>1. DOMAIN g = Trees /\ g[t] = [loc[t] EXCEPT !.at = 1] /\ \A x \in Trees \ {t} : g[x] = loc[x]
      BY <1>0 DEF Domains
    <3>2. loc' = [g EXCEPT ![t].seen = {}]
      BY <1>2, Zenon
    <3> HIDE DEF g
    <3>3. DOMAIN loc' = Trees /\ loc'[t] = [g[t] EXCEPT !.seen = {}] /\ \A x \in Trees \ {t} : loc'[x] = g[x]
      BY <3>1, <3>2
    <3>4. l = [[loc[t] EXCEPT !.at = 1] EXCEPT !.seen = {}]
      BY Zenon DEF First
    <3> DEFINE k == [loc[t] EXCEPT !.at = 1]
    <3>5. loc'[t] = [k EXCEPT !.seen = {}] /\ l = [k EXCEPT !.seen = {}]
      BY <3>1, <3>3, <3>4, Zenon
    <3>6. loc'[t] = l
      BY <3>5, Zenon
    <3>7. \A x \in Trees \ {t} : loc'[x] = loc[x]
      BY <3>1, <3>3
    <3> HIDE DEF k, l
    <3> QED  BY <3>3, <3>6, <3>7
  <2>4. l \in Locals /\ l.seen = {}
    BY <1>0, FirstOK
  <2>5. Relocates(t)
    BY <2>1, <2>4 DEF Relocates
  <2> HIDE DEF l
  <2>2. Writes(t, mem[t]) /\ Takes(t)
    BY <1>0, <1>2 DEF Writes, Takes
  <2>3. Knows("poll", mem[t], journal'[t], loc'[t], holds'[t], NoReply, disk'[t])
    BY <1>0, <1>2, <2>1, <2>4, Shapes DEF Knows
  <2> QED  BY <1>0, <1>2, <2>2, <2>3, <2>5, MovesHere DEF Pcs
<1> QED  BY <1>0, <1>1, <1>2, ReserveOK DEF Fill

\* A worker in its window polls a child, whose permit is had or free.
PollsChild(t) ==
  /\ up /\ pc[t] = "poll"
  /\ UNCHANGED <<plan, up, mem, journal, disk, src, pc, reply>>
  /\ Relocates(t) /\ DOMAIN holds' = Trees /\ DOMAIN child' = Trees
  /\ \A x \in Trees \ {t} : holds'[x] = holds[x] /\ child'[x] = child[x]
  /\ \A i \in loc'[t].seen : /\ i \in 1 .. Len(mem[t].active)
                             /\ ~disk[t].thrown => disk[t].files[mem[t].prefix + i] # Absent
  /\ holds'[t] \subseteq holds[t] \/ (Free /\ \E f \in Files : holds'[t] = holds[t] \cup {f})
  /\ child'[t] \in [Files -> ChildPhases]
  /\ \A f \in Files : /\ child'[t][f] = "completed" => child[t][f] = "completed"
                      /\ child'[t][f] # "none" => child[t][f] # "none" \/ f <= Total(mem[t])

\* Polling one keeps the invariant: at most one permit is taken, and the
\* child that is started has its place in the entry.
LEMMA PollsOne == ASSUME IInv, NEW t \in Trees, PollsChild(t) PROVE IInv'
<1>0. /\ Domains /\ mem[t].phase \notin Terminal /\ Fits(mem[t]) /\ Fits(journal[t]) /\ up
      /\ Stands(mem[t], child[t], disk[t]) /\ Stands(journal[t], child[t], disk[t])
      /\ Knows(pc[t], mem[t], journal[t], loc[t], holds[t], reply[t], disk[t])
      /\ reply[t] \in Reply /\ disk[t] \in Tree /\ src[t] \in Version /\ Sound(child[t], disk[t])
      /\ holds[t] \in SUBSET Files
  BY Running, TreeFacts DEF PollsChild
<1>1. /\ pc'[t] = "poll" /\ up' /\ mem'[t] = mem[t] /\ pc[t] = "poll"
      /\ journal'[t] = journal[t] /\ disk'[t] = disk[t] /\ src'[t] = src[t] /\ reply'[t] = reply[t]
      /\ child'[t] \in [Files -> ChildPhases] /\ loc'[t] \in Locals
  BY DEF PollsChild, Relocates
<1>2. Total(journal[t]) = Total(mem[t])
  BY <1>0, <1>1 DEF Knows
<1>3. Stands(mem[t], child'[t], disk[t])
  BY <1>0 DEF Stands, Reserved, PollsChild
<1>4. Stands(journal[t], child'[t], disk[t])
  BY <1>0, <1>2 DEF Stands, Reserved, PollsChild
<1>5. Sound(child'[t], disk[t])
  BY <1>0, SoundWithout DEF PollsChild
<1>6. Knows("poll", mem[t], journal[t], loc'[t], holds'[t], reply[t], disk[t])
  BY <1>0, <1>1 DEF Knows, PollsChild
<1>9. holds'[t] \in SUBSET Files
  BY <1>0 DEF PollsChild
<1>7. GoodTree(t)'
  BY <1>0, <1>1, <1>3, <1>4, <1>5, <1>6, <1>9, Together DEF Pcs
<1>8. Elsewhere(t) /\ Domains'
  BY <1>0 DEF Elsewhere, Domains, Relocates, PollsChild
<1>10. holds'[t] \subseteq holds[t] \/ (Free /\ \E f : holds'[t] \subseteq holds[t] \cup {f})
  BY DEF PollsChild
<1> QED  BY <1>7, <1>8, <1>10, OneTree

\* A child of the round is seen to be over.
Seen(l, i) == [l EXCEPT !.seen = @ \cup {i}]

\* The round remembers it.
LEMMA SeenOK ==
    ASSUME NEW l \in Locals, NEW i \in Nat
    PROVE  Seen(l, i) \in Locals /\ Seen(l, i).seen = l.seen \cup {i}
<1>1. l.seen \cup {i} \in SUBSET Nat
  BY DEF Locals
<1>2. \A s \in SUBSET Nat : LET k == [l EXCEPT !.seen = s] IN k \in Locals /\ k.seen = s
  BY DEF Locals
<1> QED  BY <1>1, <1>2 DEF Seen

\* One child of the round.
LEMMA PollOK == ASSUME IInv, NEW t \in Trees, Poll(t) PROVE IInv'
<1> DEFINE at == loc[t].at
           f == mem[t].prefix + at
<1>0. /\ up /\ pc[t] = "poll" /\ at <= Len(mem[t].active) /\ Domains
      /\ UNCHANGED <<plan, up, mem, journal, signal, calling, disk, src>> /\ Stages(t)
      /\ Fits(mem[t]) /\ Stands(mem[t], child[t], disk[t]) /\ mem[t].phase \notin Terminal
      /\ loc[t] \in Locals /\ holds[t] \in SUBSET Files
      /\ Knows(pc[t], mem[t], journal[t], loc[t], holds[t], reply[t], disk[t])
  BY Running DEF Poll, Stages
<1>1. /\ at \in 1 .. Len(mem[t].active) /\ Len(mem[t].active) \in Nat /\ mem[t].prefix \in Nat
      /\ f \in Files /\ f <= Total(mem[t]) /\ Total(mem[t]) \in Nat /\ at + 1 \in Nat \ {0}
  <2>1. at \in Nat \ {0}
    BY <1>0 DEF Locals
  <2>2. /\ mem[t].prefix \in Nat /\ Len(mem[t].active) \in Nat /\ Total(mem[t]) \in 0 .. N
        /\ \A i \in 1 .. Len(mem[t].active) : mem[t].prefix + i \in Files
    BY <1>0, FitsFiles
  <2>3. at <= Len(mem[t].active) /\ N \in Nat
    BY <1>0, DirectoryConstants
  <2> HIDE DEF at
  <2>4. at \in 1 .. Len(mem[t].active)
    BY <2>1, <2>2, <2>3
  <2> QED  BY <2>1, <2>2, <2>3, <2>4 DEF Total
<1>2. child[t] \in [Files -> ChildPhases] /\ Sound(child[t], disk[t])
  BY TreeFacts
<1>3. \A i \in loc[t].seen : /\ i \in 1 .. Len(mem[t].active)
                             /\ ~disk[t].thrown => disk[t].files[mem[t].prefix + i] # Absent
  BY <1>0 DEF Knows
<1> DEFINE next == [loc[t] EXCEPT !.at = @ + 1]
<1>4. next \in Locals /\ next.seen = loc[t].seen
  BY <1>0, <1>1 DEF Locals
<1> HIDE DEF f
<1>5. ASSUME loc' = [loc EXCEPT ![t].at = @ + 1]
      PROVE  Relocates(t) /\ loc'[t] = next
  <2>1. DOMAIN loc' = Trees /\ loc'[t] = next /\ \A x \in Trees \ {t} : loc'[x] = loc[x]
    BY <1>0, <1>5 DEF Domains
  <2> QED  BY <1>4, <2>1 DEF Relocates
<1>6. CASE loc' = [loc EXCEPT ![t].at = @ + 1] /\ UNCHANGED <<pc, holds, child, reply>>
  <2>1. Relocates(t) /\ loc'[t].seen = loc[t].seen
    BY <1>4, <1>5, <1>6
  <2> QED  BY <1>0, <1>2, <1>3, <1>6, <2>1, PollsOne DEF PollsChild, Domains
<1>7. CASE EnsureStarted(t, f) /\ (f \in holds[t] \/ Free)
  <2>1. /\ child' = [child EXCEPT ![t][f] = "running"] /\ holds' = [holds EXCEPT ![t] = @ \cup {f}]
        /\ loc' = [loc EXCEPT ![t].at = @ + 1] /\ UNCHANGED <<pc, reply>>
    BY <1>7 DEF EnsureStarted
  <2>2. Relocates(t) /\ loc'[t].seen = loc[t].seen
    BY <1>4, <1>5, <2>1
  <2>3. /\ DOMAIN holds' = Trees /\ holds'[t] = holds[t] \cup {f}
        /\ \A x \in Trees \ {t} : holds'[x] = holds[x]
    BY <1>0, <2>1 DEF Domains
  <2>4. /\ DOMAIN child' = Trees /\ child'[t] = [child[t] EXCEPT ![f] = "running"]
        /\ \A x \in Trees \ {t} : child'[x] = child[x]
    BY <1>0, <2>1 DEF Domains
  <2>5. child'[t] \in [Files -> ChildPhases]
    BY <1>1, <1>2, <2>4 DEF ChildPhases
  <2>6. \A g \in Files : /\ child'[t][g] = "completed" => child[t][g] = "completed"
                        /\ child'[t][g] # "none" => child[t][g] # "none" \/ g <= Total(mem[t])
    BY <1>1, <1>2, <2>4
  <2>7. holds'[t] \subseteq holds[t] \/ (Free /\ \E g \in Files : holds'[t] = holds[t] \cup {g})
    BY <1>1, <1>7, <2>3
  <2> QED  BY <1>0, <1>3, <2>1, <2>2, <2>3, <2>4, <2>5, <2>6, <2>7, PollsOne DEF PollsChild
<1>8. CASE ChildOutcome(t, f)
  <2>1. CASE /\ child[t][f] = "completed"
             /\ loc' = [loc EXCEPT ![t].at = @ + 1, ![t].seen = @ \cup {at}]
             /\ holds' = [holds EXCEPT ![t] = @ \ {f}] /\ UNCHANGED <<pc, child, reply>>
    <3>1. /\ DOMAIN holds' = Trees /\ holds'[t] = holds[t] \ {f}
          /\ \A x \in Trees \ {t} : holds'[x] = holds[x]
      BY <1>0, <2>1 DEF Domains
    <3> DEFINE g == [loc EXCEPT ![t].at = @ + 1]
               k == Seen(next, at)
    <3>2. DOMAIN g = Trees /\ g[t] = next /\ \A x \in Trees \ {t} : g[x] = loc[x]
      BY <1>0 DEF Domains
    <3>3. loc' = [g EXCEPT ![t].seen = @ \cup {at}]
      BY <2>1, Zenon
    <3>4. k \in Locals /\ k.seen = loc[t].seen \cup {at}
      <4>1. at \in Nat
        BY <1>1
      <4> HIDE DEF at, next
      <4> QED  BY <1>4, <4>1, SeenOK
    <3> HIDE DEF g, next
    <3>5. DOMAIN loc' = Trees /\ loc'[t] = k /\ \A x \in Trees \ {t} : loc'[x] = loc[x]
      BY <3>2, <3>3 DEF Seen
    <3> HIDE DEF k
    <3>6. Relocates(t) /\ loc'[t].seen = loc[t].seen \cup {at}
      BY <3>4, <3>5 DEF Relocates
    <3>7. ~disk[t].thrown => disk[t].files[mem[t].prefix + at] # Absent
      BY <1>1, <1>2, <2>1 DEF Sound, f
    <3>8. child'[t] = child[t] /\ holds'[t] \subseteq holds[t]
      BY <2>1, <3>1
    <3> QED  BY <1>0, <1>1, <1>2, <1>3, <2>1, <3>1, <3>6, <3>7, <3>8, PollsOne DEF PollsChild, Domains
  <2>2. ASSUME NEW verdict \in {"Failed", "Cancelled"}, AbandonWindow(t, mem[t], verdict) PROVE IInv'
    <3>1. Writes(t, mem[t]) /\ Abandon(t, verdict) /\ CancelKids(t, mem[t])
      BY <1>0, <2>2 DEF Writes, AbandonWindow
    <3> QED  BY <1>0, <2>2, <3>1, AbandonsHere
  <2> QED  BY <1>8, <2>1, <2>2 DEF ChildOutcome
<1>9. \/ loc' = [loc EXCEPT ![t].at = @ + 1] /\ UNCHANGED <<pc, holds, child, reply>>
      \/ EnsureStarted(t, f) /\ (f \in holds[t] \/ Free)
      \/ ChildOutcome(t, f)
  BY DEF Poll, f
<1> QED  BY <1>6, <1>7, <1>8, <1>9

\* A worker sees the cancel watch.
LEMMA SeeCancelOK == ASSUME IInv, NEW t \in Trees, SeeCancel(t) PROVE IInv'
<1>0. /\ up /\ pc[t] \in {"prepare", "fill", "poll"} /\ Stages(t) /\ Writes(t, mem[t])
      /\ UNCHANGED <<up, src>> /\ Abandon(t, "Cancelled")
      /\ child' = child \/ CancelKids(t, mem[t])
  BY DEF SeeCancel, Stages, Writes, AbandonWindow
<1>1. Fits(mem[t]) /\ Stands(mem[t], child[t], disk[t]) /\ mem[t].phase \notin Terminal
  BY <1>0, Running
<1> QED  BY <1>0, <1>1, AbandonsHere

\* A set of natural numbers has a least one.
LEMMA Least == ASSUME NEW T \in SUBSET Nat, T # {} PROVE \E n \in T : \A m \in T : n <= m
<1> DEFINE R == OpToRel(<, Nat)
<1>1. IsWellFoundedOn(R, Nat)
  BY NatLessThanWellFounded
<1> HIDE DEF R
<1>2. PICK x \in T : \A y \in T : ~ (<<y, x>> \in R)
  BY <1>1, WFMin
<1>3. \A y \in T : ~(y < x)
  BY <1>2 DEF R, OpToRel
<1> QED  BY <1>3

\* The completed front of a window: a length up to which every flag is set.
LEMMA FrontDoneOK ==
    ASSUME NEW s \in Seq(BOOLEAN)
    PROVE  FrontDone(s) \in 0 .. Len(s) /\ \A i \in 1 .. FrontDone(s) : s[i]
<1> DEFINE K == {k \in 0 .. Len(s) : \A i \in 1 .. k : s[i]}
           T == {n \in 0 .. Len(s) : Len(s) - n \in K}
<1>1. Len(s) \in Nat
  BY LenProperties
<1>2. Len(s) \in T /\ T \in SUBSET Nat
  BY <1>1
<1>3. K \subseteq 0 .. Len(s)
  OBVIOUS
<1>4. PICK n \in T : \A m \in T : n <= m
  <2> HIDE DEF T
  <2>1. T # {}
    BY <1>2
  <2> QED  BY <1>2, <2>1, Least
<1>5. n \in 0 .. Len(s) /\ Len(s) - n \in K
  BY <1>4
<1>6. \A k \in K : Len(s) - n >= k
  <2> SUFFICES ASSUME NEW k \in K PROVE Len(s) - n >= k
    OBVIOUS
  <2>1. k \in 0 .. Len(s) /\ Len(s) - k \in 0 .. Len(s) /\ Len(s) - (Len(s) - k) = k
    BY <1>1, <1>3
  <2>2. Len(s) - k \in T
    BY <2>1
  <2>3. n <= Len(s) - k
    BY <1>4, <2>2
  <2> QED  BY <1>1, <1>5, <2>1, <2>3
<1>7. \E x \in K : \A y \in K : x >= y
  BY <1>5, <1>6
<1>8. FrontDone(s) = CHOOSE x \in K : \A y \in K : x >= y
  BY DEF FrontDone, Max
<1>9. FrontDone(s) \in K
  <2> HIDE DEF K, T
  <2> QED  BY <1>7, <1>8, Zenon
<1> QED  BY <1>9

\* Flags that are set, and the others.
LEMMA FlaggedOK ==
    ASSUME NEW e, e.active \in Seq(BOOLEAN), NEW seen
    PROVE  /\ Flagged(e, seen) \in Seq(BOOLEAN) /\ Len(Flagged(e, seen)) = Len(e.active)
           /\ \A i \in 1 .. Len(e.active) : Flagged(e, seen)[i] = (e.active[i] \/ i \in seen)
<1>1. Len(e.active) \in Nat /\ \A i \in 1 .. Len(e.active) : e.active[i] \in BOOLEAN
  BY LenProperties, ElementOfSeq
<1>2. \A i \in 1 .. Len(e.active) : (e.active[i] \/ i \in seen) \in BOOLEAN
  BY <1>1
<1>3. Flagged(e, seen) \in [1 .. Len(e.active) -> BOOLEAN]
  BY <1>2 DEF Flagged
<1>4. Flagged(e, seen) \in Seq(BOOLEAN)
  BY <1>1, <1>3, SeqDef
<1>5. Len(Flagged(e, seen)) = Len(e.active)
  <2>1. DOMAIN Flagged(e, seen) = 1 .. Len(e.active)
    BY <1>3
  <2>2. DOMAIN Flagged(e, seen) = 1 .. Len(Flagged(e, seen)) /\ Len(Flagged(e, seen)) \in Nat
    BY <1>4, LenProperties
  <2> QED  BY <1>1, <2>1, <2>2
<1> QED  BY <1>4, <1>5 DEF Flagged

\* What a round has seen to be over is on the disk.
Delivered(e, d, seen) ==
  \A i \in seen : i \in 1 .. Len(e.active) /\ (~d.thrown => d.files[e.prefix + i] # Absent)

\* The entry whose window has moved on still says what is on the disk.
LEMMA AdvancedOK ==
    ASSUME NEW e, NEW c, NEW d, NEW seen, Fits(e), Stands(e, c, d), Delivered(e, d, seen)
    PROVE  /\ Fits(Advanced(e, seen)) /\ Stands(Advanced(e, seen), c, d)
           /\ Advanced(e, seen).phase = e.phase /\ Total(Advanced(e, seen)) = Total(e)
<1> DEFINE s == Flagged(e, seen)
           k == FrontDone(s)
           a == SubSeq(s, k + 1, Len(s))
           n == Len(e.active)
           g == Advanced(e, seen)
<1>0. e \in Entry /\ e.active \in Seq(BOOLEAN) /\ e.prefix \in Nat /\ n \in Nat /\ N \in Nat
      /\ Total(e) \in 0 .. N /\ Total(e) = e.prefix + n
  BY FitsFiles, DirectoryConstants DEF Fits, Entry, Total
<1>1. /\ s \in Seq(BOOLEAN) /\ Len(s) = n
      /\ \A i \in 1 .. n : s[i] = (e.active[i] \/ i \in seen)
  BY <1>0, FlaggedOK
<1>2. g = [e EXCEPT !.active = a, !.prefix = @ + k]
  BY DEF Advanced
<1> HIDE DEF s, g
<1>3. k \in 0 .. n /\ \A i \in 1 .. k : s[i]
  BY <1>1, FrontDoneOK
<1> HIDE DEF k
<1>4. a \in Seq(BOOLEAN) /\ Len(a) = n - k /\ \A i \in 1 .. n - k : a[i] = s[k + i]
  <2>1. k + 1 \in Int /\ Len(s) \in Int /\ \A i \in (k + 1) .. Len(s) : s[i] \in BOOLEAN
    <3>1. \A i \in 1 .. n : s[i] \in BOOLEAN
      BY <1>1, ElementOfSeq
    <3> QED  BY <1>0, <1>1, <1>3, <3>1
  <2>2. /\ a \in Seq(BOOLEAN) /\ Len(a) = IF k + 1 <= n THEN n - (k + 1) + 1 ELSE 0
        /\ \A i \in 1 .. n - (k + 1) + 1 : a[i] = s[(k + 1) + i - 1]
    BY SMTT(30), <1>1, <2>1, SubSeqProperties
  <2> HIDE DEF a
  <2>3. Len(a) = n - k
    BY <1>0, <1>3, <2>2
  <2>4. n - (k + 1) + 1 = n - k /\ \A i \in 1 .. n - k : (k + 1) + i - 1 = k + i
    BY <1>0, <1>3
  <2> QED  BY <2>2, <2>3, <2>4
<1> HIDE DEF a
<1>5. e.prefix + k \in 0 .. N
  BY <1>0, <1>3
<1>6. /\ g \in Entry /\ g.prefix = e.prefix + k /\ g.active = a /\ g.phase = e.phase
  BY <1>0, <1>2, <1>4, <1>5 DEF Entry
<1>7. Total(g) = Total(e)
  BY <1>0, <1>3, <1>4, <1>6 DEF Total
<1>8. Fits(g)
  BY <1>6, <1>7 DEF Fits
<1>9. ASSUME NEW i \in 1 .. n, s[i], ~d.thrown PROVE d.files[e.prefix + i] # Absent
  BY <1>1, <1>9 DEF Stands, Recorded, Delivered
<1>10. Recorded(g, d)
  <2>1. ASSUME NEW f \in 1 .. g.prefix, ~d.thrown PROVE d.files[f] # Absent
    <3>1. CASE f \in 1 .. e.prefix
      BY <2>1, <3>1 DEF Stands, Recorded
    <3>2. CASE f - e.prefix \in 1 .. k
      <4>1. f - e.prefix \in 1 .. n /\ e.prefix + (f - e.prefix) = f /\ s[f - e.prefix]
        BY <1>0, <1>3, <3>2
      <4> QED  BY <1>9, <2>1, <4>1
    <3> QED  BY <1>0, <1>3, <1>6, <3>1, <3>2
  <2>2. ASSUME NEW i \in 1 .. Len(a), a[i], ~d.thrown PROVE d.files[g.prefix + i] # Absent
    <3>1. i \in 1 .. n - k /\ k + i \in 1 .. n /\ g.prefix + i = e.prefix + (k + i) /\ s[k + i]
      BY <1>0, <1>3, <1>4, <1>6, <2>2
    <3> QED  BY <1>9, <2>2, <3>1
  <2> QED  BY <1>6, <2>1, <2>2 DEF Recorded
<1>11. Reserved(g, c) /\ Claimed(g, d)
  BY <1>6, <1>7 DEF Stands, Reserved, Claimed
<1> QED  BY <1>6, <1>7, <1>8, <1>10, <1>11 DEF Stands, g

\* A round ends, and the window moves on.
LEMMA AdvanceOK == ASSUME IInv, NEW t \in Trees, Advance(t) PROVE IInv'
<1> DEFINE e == Advanced(mem[t], loc[t].seen)
<1>0. /\ up /\ pc[t] = "poll" /\ UNCHANGED <<up, signal, calling, disk, src>> /\ Stages(t)
      /\ mem[t].phase \notin Terminal /\ Fits(mem[t]) /\ Stands(mem[t], child[t], disk[t])
      /\ Knows(pc[t], mem[t], journal[t], loc[t], holds[t], reply[t], disk[t])
      /\ mem' = With(t, e)
  BY Running DEF Advance, Stages
<1>1. /\ Fits(e) /\ Stands(e, child[t], disk[t]) /\ e.phase \notin Terminal /\ Total(e) = Total(mem[t])
  <2>1. Delivered(mem[t], disk[t], loc[t].seen)
    <3>1. up /\ pc[t] = "poll"
      BY DEF Advance
    <3>2. Knows("poll", mem[t], journal[t], loc[t], holds[t], reply[t], disk[t])
      BY <3>1, Running
    <3> QED  BY <3>2 DEF Knows, Delivered
  <2> QED  BY <1>0, <2>1, AdvancedOK
<1>2. \/ /\ Goes(t, "fill") /\ UNCHANGED <<loc, holds, child, reply>>
         /\ Journals(With(t, e)) \/ UNCHANGED <<plan, journal>>
      \/ Refuses(With(t, e)) /\ AbandonWindow(t, e, "Failed")
  BY <1>0 DEF Advance
<1> HIDE DEF e
<1>3. CASE /\ Goes(t, "fill") /\ UNCHANGED <<loc, holds, child, reply>>
           /\ Journals(With(t, e)) \/ UNCHANGED <<plan, journal>>
  <2>1. Writes(t, e) /\ Takes(t)
    BY <1>0, <1>3 DEF Writes, Takes
  <2>2. journal'[t] = e \/ journal'[t] = journal[t]
    BY <2>1, WritesOK
  <2>3. Total(journal'[t]) = Total(e)
    BY <1>0, <1>1, <2>2 DEF Knows
  <2>4. Knows("fill", e, journal'[t], loc'[t], holds'[t], NoReply, disk'[t])
    BY <1>1, <2>3, Shapes DEF Knows
  <2> QED  BY <1>0, <1>1, <1>3, <2>1, <2>4, MovesHere DEF Pcs
<1>4. CASE Refuses(With(t, e)) /\ AbandonWindow(t, e, "Failed")
  <2>1. Writes(t, e) /\ Abandon(t, "Failed") /\ CancelKids(t, e)
    BY <1>0, <1>4 DEF Writes, AbandonWindow
  <2> QED  BY <1>0, <1>1, <2>1, AbandonsHere
<1> QED  BY <1>2, <1>3, <1>4

-----------------------------------------------------------------------------
(* The end of a tree *)

\* The whole prefix is journalled before the Host is asked to commit.
LEMMA EndingOK == ASSUME IInv, NEW t \in Trees, Ending(t) PROVE IInv'
<1> DEFINE e == Finalizing(mem[t])
           p == IF e.state = "verified" THEN "commit" ELSE "finalize"
<1>0. /\ up /\ pc[t] = "ending" /\ UNCHANGED <<up, signal, calling, child, disk, src>> /\ Stages(t)
      /\ mem[t].phase \notin Terminal /\ Fits(mem[t]) /\ Stands(mem[t], child[t], disk[t])
      /\ mem[t] \in Entry /\ holds[t] = {} /\ Domains
  BY Running DEF Ending, Stages
<1>1. mem[t].prefix = N
  <2>1. Knows("ending", mem[t], journal[t], loc[t], holds[t], reply[t], disk[t])
    BY <1>0, Running
  <2> QED  BY <2>1 DEF Knows
<1>2. e \in Entry /\ e.prefix = mem[t].prefix /\ e.active = <<>> /\ e.phase = "Finalizing"
  BY <1>0, <1>1, EmptySeq DEF Finalizing, Entry, Phases
<1>3. With(t, e)[t] = e
  BY <1>0 DEF With, Domains
<1>4. \/ Abandon(t, "Cancelled") /\ UNCHANGED <<plan, mem, journal>>
      \/ /\ Journals(With(t, e)) /\ mem' = With(t, e) /\ Goes(t, p)
         /\ UNCHANGED <<loc, holds, reply>>
      \/ Refuses(With(t, e)) /\ mem' = With(t, e) /\ Abandon(t, "Failed")
  BY <1>3 DEF Ending
<1> HIDE DEF e
<1>5. Fits(e) /\ Stands(e, child[t], disk[t]) /\ e.phase \notin Terminal
  <2>1. N \in Nat /\ Len(e.active) = 0 /\ Total(e) = N
    BY <1>1, <1>2, EmptySeq, DirectoryConstants DEF Total
  <2>2. Fits(e)
    BY <1>2, <2>1 DEF Fits
  <2>3. Recorded(e, disk[t])
    BY <1>0, <1>2, <2>1 DEF Stands, Recorded
  <2>4. Reserved(e, child[t])
    BY <2>1 DEF Reserved, Files
  <2> QED  BY <1>2, <2>2, <2>3, <2>4 DEF Stands, Claimed, Terminal
<1>6. CASE Abandon(t, "Cancelled") /\ UNCHANGED <<plan, mem, journal>>
  <2>1. Writes(t, mem[t])
    BY <1>6 DEF Writes
  <2> QED  BY <1>0, <1>6, <2>1, AbandonsHere
<1>7. CASE /\ Journals(With(t, e)) /\ mem' = With(t, e) /\ Goes(t, p)
           /\ UNCHANGED <<loc, holds, reply>>
  <2>1. Writes(t, e) /\ Takes(t) /\ p \in Pcs /\ p \notin {"fill", "poll", "ending", "undo"}
    BY <1>7 DEF Writes, Takes, Pcs
  <2> HIDE DEF p
  <2>2. Knows(p, e, journal'[t], loc'[t], holds'[t], NoReply, disk'[t])
    BY <1>0, <1>5, <1>7, <2>1, KnowsLittle
  <2> QED  BY <1>0, <1>5, <1>7, <2>1, <2>2, MovesHere
<1>8. CASE Refuses(With(t, e)) /\ mem' = With(t, e) /\ Abandon(t, "Failed")
  <2>1. Writes(t, e)
    BY <1>8 DEF Writes
  <2> QED  BY <1>0, <1>5, <1>8, <2>1, AbandonsHere
<1> QED  BY <1>4, <1>6, <1>7, <1>8

\* The Host's last answer.
LEMMA TakeFinalOK == ASSUME IInv, NEW t \in Trees, TakeFinal(t) PROVE IInv'
<1> DEFINE e == [mem[t] EXCEPT !.state = "verified"]
<1>0. /\ up /\ pc[t] = "finalize" /\ UNCHANGED <<up, signal, calling, child, disk, src>> /\ Stages(t)
      /\ mem[t].phase \notin Terminal /\ Fits(mem[t]) /\ Stands(mem[t], child[t], disk[t])
      /\ mem[t] \in Entry /\ holds[t] = {}
      /\ reply[t].is = "Completed" => disk[t].final = "own"
  BY Running DEF TakeFinal, Stages, Knows
<1>1. e \in Entry /\ e.prefix = mem[t].prefix /\ e.active = mem[t].active /\ e.phase = mem[t].phase
  BY <1>0 DEF Entry
<1>2. CASE FinalPut(t)
  <2>1. /\ Settle(t, "Completed") /\ Takes(t) /\ disk[t].final = "own" /\ "Completed" \in Terminal
        /\ UNCHANGED <<plan, up, journal, loc, child, disk, src>>
    BY <1>0, <1>2 DEF FinalPut, Takes, Terminal
  <2> QED  BY <1>0, <2>1, SettlesHere
<1>3. CASE FinalGet(t)
  <2>1. Fits(e) /\ Stands(e, child[t], disk[t])
    BY <1>0, <1>1, SameClaims
  <2>2. \/ /\ Journals(With(t, e)) /\ mem' = With(t, e) /\ Goes(t, "commit")
           /\ reply' = [reply EXCEPT ![t] = NoReply] /\ UNCHANGED <<loc, holds>>
        \/ Refuses(With(t, e)) /\ mem' = With(t, e) /\ Abandon(t, "Failed")
    BY <1>3 DEF FinalGet
  <2> HIDE DEF e
  <2>3. CASE /\ Journals(With(t, e)) /\ mem' = With(t, e) /\ Goes(t, "commit")
             /\ reply' = [reply EXCEPT ![t] = NoReply] /\ UNCHANGED <<loc, holds>>
    <3>1. Writes(t, e) /\ Takes(t)
      BY <2>3 DEF Writes, Takes
    <3>2. Knows("commit", e, journal'[t], loc'[t], holds'[t], NoReply, disk'[t])
      BY <1>0, <1>1, <2>3, KnowsLittle
    <3> QED  BY <1>0, <2>1, <2>3, <3>1, <3>2, MovesHere DEF Pcs
  <2>4. CASE Refuses(With(t, e)) /\ mem' = With(t, e) /\ Abandon(t, "Failed")
    <3>1. Writes(t, e)
      BY <2>4 DEF Writes
    <3> QED  BY <1>0, <1>1, <2>1, <2>4, <3>1, AbandonsHere
  <2> QED  BY <2>2, <2>3, <2>4
<1>4. CASE Abandon(t, "Failed") /\ UNCHANGED <<plan, mem, journal>>
  <2>1. Writes(t, mem[t])
    BY <1>4 DEF Writes
  <2> QED  BY <1>0, <1>4, <2>1, AbandonsHere
<1> QED  BY <1>2, <1>3, <1>4 DEF TakeFinal

\* The commit here: the staging tree becomes the final one, or goes.
LEMMA CommitOK == ASSUME IInv, NEW t \in Trees, Commit(t) PROVE IInv'
<1> DEFINE ok == disk[t].staging /\ TreeMatches(t) /\ disk[t].final = "absent"
           d == IF ok THEN Final(disk[t]) ELSE Removed(disk[t])
           phase == IF ok THEN "Completed" ELSE "Failed"
<1>0. /\ up /\ pc[t] = "commit" /\ Domains /\ disk[t] \in Tree /\ Sound(child[t], disk[t])
      /\ UNCHANGED <<plan, up, journal, loc, signal, calling, child, reply, src>>
      /\ mem[t] \in Entry /\ child[t] \in [Files -> ChildPhases] /\ reply[t] \in Reply
      /\ reply[t].is = "Completed" => disk[t].final = "own"
  BY TreeFacts DEF Commit, Knows
<1>1. disk' = [disk EXCEPT ![t] = d] /\ Settle(t, phase)
  BY DEF Commit, Final
<1>2. /\ d \in Tree /\ Later(child[t], disk[t], child[t], d) /\ Sound(child[t], d)
      /\ phase = "Completed" => d.final = "own"
  <2>1. CASE ok
    <3>1. \E v \in Version : \A f \in Files : disk[t].files[f] = v
      BY <1>0, <2>1 DEF TreeMatches, ScanIs, Entry
    <3> QED  BY <1>0, <2>1, <3>1, CommittedOK
  <2>2. CASE ~ok
    BY <1>0, <2>2, RemovedOK
  <2> QED  BY <2>1, <2>2
<1>3. phase \in Terminal
  BY DEF Terminal
<1> HIDE DEF d, phase
<1>4. disk'[t] = d /\ child'[t] = child[t] /\ up' /\ reply'[t] = reply[t] /\ UNCHANGED <<journal, loc, src>>
  BY <1>0, <1>1 DEF Domains
<1>5. d.final = "own" \/ disk[t].final # "own"
  BY <1>2 DEF Later
<1>6. GoodTree(t)' /\ holds'[t] \subseteq holds[t]
  BY <1>0, <1>1, <1>2, <1>3, <1>4, <1>5, SettleOK
<1>7. Elsewhere(t) /\ Domains'
  BY <1>0, <1>1 DEF Elsewhere, Domains, Settle, With, Goes
<1> QED  BY <1>0, <1>6, <1>7, OneTree

\* The staging tree is taken away.
LEMMA UndoOK == ASSUME IInv, NEW t \in Trees, Undo(t) PROVE IInv'
<1>0. /\ up /\ pc[t] = "undo" /\ Domains /\ disk[t] \in Tree /\ Sound(child[t], disk[t])
      /\ UNCHANGED <<plan, up, journal, loc, signal, calling, child, reply, src>>
      /\ child[t] \in [Files -> ChildPhases] /\ reply[t] \in Reply /\ loc[t] \in Locals
      /\ reply[t].is = "Completed" => disk[t].final = "own"
      /\ loc[t].verdict # "none" /\ Settle(t, loc[t].verdict)
  BY TreeFacts DEF Undo, Knows
<1>1. loc[t].verdict \in Terminal /\ loc[t].verdict # "Completed"
  BY <1>0 DEF Locals, Terminal
<1>2. disk'[t] \in {disk[t], Removed(disk[t])} /\ DOMAIN disk' = Trees
      /\ \A x \in Trees \ {t} : disk'[x] = disk[x]
  BY <1>0 DEF Undo, CancelPut, Domains
<1>3. /\ disk'[t] \in Tree /\ Later(child[t], disk[t], child[t], disk'[t]) /\ Sound(child[t], disk'[t])
  BY <1>0, <1>2, RemovedOK, SameIsLater
<1>4. child'[t] = child[t] /\ up' /\ reply'[t] = reply[t] /\ UNCHANGED <<journal, loc, src>>
  BY <1>0
<1>5. disk'[t].final = "own" \/ disk[t].final # "own"
  BY <1>3 DEF Later
<1>6. GoodTree(t)' /\ holds'[t] \subseteq holds[t]
  BY <1>0, <1>1, <1>3, <1>4, <1>5, SettleOK
<1>7. Elsewhere(t) /\ Domains'
  BY <1>0, <1>2 DEF Elsewhere, Domains, Settle, With, Goes
<1> QED  BY <1>0, <1>6, <1>7, OneTree

\* The last write of a worker.
LEMMA CloseOK == ASSUME IInv, NEW t \in Trees, Close(t) PROVE IInv'
<1>0. /\ up /\ pc[t] = "close" /\ Domains /\ Goes(t, "idle") /\ loc' = [loc EXCEPT ![t] = NoLocals]
      /\ UNCHANGED <<up, mem, holds, signal, calling, child, reply, disk, src>>
      /\ Fits(mem[t]) /\ Stands(mem[t], child[t], disk[t]) /\ holds[t] = {} /\ reply[t] \in Reply
      /\ reply[t].is = "Completed" => disk[t].final = "own"
  BY Running DEF Close, Knows
<1>1. Fits(journal[t]) /\ Stands(journal[t], child[t], disk[t])
  BY TreeFacts
<1>2. plan' \in PlanType /\ (journal' = mem \/ journal' = journal)
  <2>1. Journals(mem) \/ Refuses(mem)
    BY DEF Close
  <2> QED  BY <1>0, <2>1, Journaled DEF Domains
<1>3. Elsewhere(t) /\ Domains'
  BY <1>0, <1>2 DEF Elsewhere, Domains, Goes
<1>4. /\ pc'[t] = "idle" /\ loc'[t] = NoLocals /\ journal'[t] \in {mem[t], journal[t]} /\ mem'[t] = mem[t]
      /\ holds'[t] = {} /\ reply'[t] = reply[t] /\ up'
  BY <1>0, <1>2 DEF Domains, Goes
<1>5. Knows("idle", mem'[t], journal'[t], loc'[t], holds'[t], reply'[t], disk[t])
  BY <1>0, <1>4 DEF Knows
<1>6. pc'[t] \in Pcs /\ loc'[t] \in Locals /\ holds'[t] \in SUBSET Files
  BY <1>4, Shapes DEF Pcs
<1>7. GoodTree(t)'
  BY <1>0, <1>1, <1>4, <1>5, <1>6, WorkerMoves
<1> QED  BY <1>0, <1>3, <1>7, OneTree

-----------------------------------------------------------------------------
(* The children, the process and the world *)

\* Something happens to the children and the disk of one tree.
Happens(t) ==
  /\ UNCHANGED <<up, mem, journal, pc, loc, holds, reply>>
  /\ DOMAIN child' = Trees /\ DOMAIN disk' = Trees /\ DOMAIN src' = Trees
  /\ \A x \in Trees \ {t} : child'[x] = child[x] /\ disk'[x] = disk[x] /\ src'[x] = src[x]

\* Such a step keeps the invariant when children and disk only move on.
LEMMA HappensOK ==
    ASSUME IInv, NEW t \in Trees, Happens(t), plan' \in PlanType,
           child'[t] \in [Files -> ChildPhases], disk'[t] \in Tree, src'[t] \in Version,
           Later(child[t], disk[t], child'[t], disk'[t]), Sound(child'[t], disk'[t])
    PROVE  IInv'
<1>0. /\ Shape(pc[t], mem[t], journal[t], loc[t], holds[t], child[t], reply[t], disk[t], src[t])
      /\ Fits(mem[t]) /\ Fits(journal[t]) /\ Stands(journal[t], child[t], disk[t])
      /\ Knows(pc[t], mem[t], journal[t], loc[t], holds[t], reply[t], disk[t]) /\ Domains
      /\ up => Stands(mem[t], child[t], disk[t])
      /\ ~up => pc[t] = "idle" /\ mem[t] = NoEntry
  BY TreeFacts DEF GoodTree, Good
<1>1. /\ pc'[t] = pc[t] /\ mem'[t] = mem[t] /\ journal'[t] = journal[t] /\ loc'[t] = loc[t]
      /\ holds'[t] = holds[t] /\ reply'[t] = reply[t] /\ up' = up
  BY DEF Happens
<1>2. Stands(journal[t], child'[t], disk'[t]) /\ (up => Stands(mem[t], child'[t], disk'[t]))
  BY <1>0, StandsLater
<1>3. Shape(pc[t], mem[t], journal[t], loc[t], holds[t], child'[t], reply[t], disk'[t], src'[t])
  BY <1>0 DEF Shape
<1>4. Knows(pc[t], mem[t], journal[t], loc[t], holds[t], reply[t], disk'[t])
  <2>1. \A i \in 1 .. Len(mem[t].active) : mem[t].prefix + i \in Files
    BY <1>0, FitsFiles
  <2> QED  BY <1>0, <2>1 DEF Knows, Later
<1>5. GoodTree(t)'
  BY <1>0, <1>1, <1>2, <1>3, <1>4 DEF GoodTree, Good
<1>6. Elsewhere(t) /\ Domains'
  BY <1>0 DEF Elsewhere, Domains, Happens
<1>7. holds'[t] \subseteq holds[t]
  BY <1>1
<1> QED  BY <1>5, <1>6, <1>7, OneTree

\* A child delivers into the staging tree, or finds that it cannot.
LEMMA ChildEndsOK == ASSUME IInv, NEW t \in Trees, NEW f \in Files, ChildEnds(t, f) PROVE IInv'
<1> DEFINE lands == disk[t].staging /\ disk[t].files[f] = Absent
           c == [child[t] EXCEPT ![f] = IF lands THEN "completed" ELSE "failed"]
           d == IF lands THEN [disk[t] EXCEPT !.files[f] = src[t]] ELSE disk[t]
<1>0. /\ child[t] \in [Files -> ChildPhases] /\ Sound(child[t], disk[t]) /\ Domains
      /\ disk[t] \in Tree /\ src[t] \in Version /\ child[t][f] = "running"
      /\ plan' = plan /\ UNCHANGED <<up, mem, journal, pc, loc, holds, reply, src>>
  BY TreeFacts DEF ChildEnds
<1>1. /\ child'[t] = c /\ DOMAIN child' = Trees /\ \A x \in Trees \ {t} : child'[x] = child[x]
  BY <1>0 DEF ChildEnds, Domains
<1>2. /\ disk'[t] = d /\ DOMAIN disk' = Trees /\ \A x \in Trees \ {t} : disk'[x] = disk[x]
  <2>1. CASE lands
    <3>1. disk' = [disk EXCEPT ![t].files[f] = src[t]]
      BY <2>1 DEF ChildEnds
    <3> QED  BY <1>0, <2>1, <3>1 DEF Domains
  <2>2. CASE ~lands
    <3>1. disk' = disk
      BY <2>2 DEF ChildEnds
    <3> QED  BY <1>0, <2>2, <3>1 DEF Domains
  <2> QED  BY <2>1, <2>2
<1>3. Happens(t) /\ src'[t] = src[t] /\ plan' \in PlanType
  BY <1>0, <1>1, <1>2 DEF Happens, Domains
<1>4. c \in [Files -> ChildPhases] /\ c[f] # "none" /\ \A g \in Files \ {f} : c[g] = child[t][g]
  BY <1>0 DEF ChildPhases
<1>5. CASE lands
  <2>1. /\ d \in Tree /\ d.staging = TRUE /\ d.final = disk[t].final /\ d.thrown = disk[t].thrown
        /\ d.files[f] = src[t] /\ \A g \in Files \ {f} : d.files[g] = disk[t].files[g]
    <3> DEFINE fs == [disk[t].files EXCEPT ![f] = src[t]]
    <3>1. d = [disk[t] EXCEPT !.files = fs]
      BY <1>0, <1>5 DEF Tree
    <3>2. /\ fs \in [Files -> 0 .. 2] /\ fs[f] = src[t]
          /\ \A g \in Files \ {f} : fs[g] = disk[t].files[g]
      BY <1>0 DEF Tree, Version
    <3> HIDE DEF fs, d
    <3> QED  BY <1>0, <1>5, <3>1, <3>2 DEF Tree
  <2>2. disk[t].final # "own" /\ src[t] # Absent
    BY <1>0, <1>5 DEF Sound, Version, Absent
  <2> HIDE DEF d, c
  <2>3. Later(child[t], disk[t], c, d)
    BY <1>0, <1>4, <2>1, <2>2 DEF Later
  <2>4. Sound(c, d)
    BY <1>0, <1>4, <2>1, <2>2 DEF Sound
  <2> QED  BY <1>0, <1>1, <1>2, <1>3, <1>4, <2>1, <2>3, <2>4, HappensOK
<1>6. CASE ~lands
  <2>1. d = disk[t] /\ c[f] = "failed"
    BY <1>0, <1>6
  <2> HIDE DEF d, c
  <2>2. Later(child[t], disk[t], c, d)
    BY <1>0, <1>4, <2>1 DEF Later
  <2>3. Sound(c, d)
    BY <1>0, <1>4, <2>1 DEF Sound
  <2> QED  BY <1>0, <1>1, <1>2, <1>3, <1>4, <2>1, <2>2, <2>3, HappensOK
<1> QED  BY <1>5, <1>6

\* A child fails, or is forgotten by the single-file manager.
LEMMA ChildGoesOK ==
    ASSUME IInv, NEW t \in Trees, NEW f \in Files, ChildFails(t, f) \/ ChildPruned(t, f)
    PROVE  IInv'
<1>0. /\ child[t] \in [Files -> ChildPhases] /\ Sound(child[t], disk[t]) /\ Domains
      /\ disk[t] \in Tree /\ src[t] \in Version
      /\ UNCHANGED <<up, mem, journal, pc, loc, holds, reply, disk, src>>
  BY TreeFacts DEF ChildFails, ChildPruned
<1>1. /\ DOMAIN child' = Trees /\ \A x \in Trees \ {t} : child'[x] = child[x]
      /\ child'[t] \in {[child[t] EXCEPT ![f] = "failed"], [child[t] EXCEPT ![f] = "none"]}
      /\ child[t][f] # "none"
  BY <1>0 DEF ChildFails, ChildPruned, Domains
<1>2. plan' \in PlanType
  BY <1>0, SpendPlan DEF ChildFails, ChildPruned, Domains
<1>3. Happens(t)
  BY <1>0, <1>1 DEF Happens, Domains
<1>4. /\ child'[t] \in [Files -> ChildPhases] /\ child'[t][f] # "completed"
      /\ \A g \in Files \ {f} : child'[t][g] = child[t][g]
  BY <1>0, <1>1 DEF ChildPhases
<1>5. disk'[t] = disk[t] /\ src'[t] = src[t]
  BY <1>0
<1>6. Later(child[t], disk[t], child'[t], disk[t]) /\ Sound(child'[t], disk[t])
  BY <1>0, <1>1, <1>4 DEF Later, Sound
<1> QED  BY <1>0, <1>2, <1>3, <1>4, <1>5, <1>6, HappensOK

\* The user edits the source.
LEMMA EditOK == ASSUME IInv, NEW t \in Trees, Edit(t) PROVE IInv'
<1>0. /\ child[t] \in [Files -> ChildPhases] /\ Sound(child[t], disk[t]) /\ Domains /\ disk[t] \in Tree
      /\ UNCHANGED <<up, mem, journal, pc, loc, holds, reply, disk, child>>
      /\ src' = [src EXCEPT ![t] = 1] /\ Spend("edits")
  BY TreeFacts DEF Edit
<1>1. Happens(t) /\ src'[t] \in Version /\ child'[t] = child[t] /\ disk'[t] = disk[t]
  BY <1>0 DEF Happens, Domains, Version
<1>2. plan' \in PlanType
  BY <1>0, SpendPlan DEF Domains
<1> QED  BY <1>0, <1>1, <1>2, SameIsLater, HappensOK

\* Another program takes the destination.
LEMMA ForeignOK == ASSUME IInv, NEW t \in Trees, Foreign(t) PROVE IInv'
<1> DEFINE d == [disk[t] EXCEPT !.final = "foreign"]
<1>0. /\ child[t] \in [Files -> ChildPhases] /\ Sound(child[t], disk[t]) /\ Domains /\ disk[t] \in Tree
      /\ UNCHANGED <<up, mem, journal, pc, loc, holds, reply, src, child>> /\ src[t] \in Version
      /\ disk' = [disk EXCEPT ![t].final = "foreign"] /\ Spend("foreign") /\ disk[t].final = "absent"
  BY TreeFacts DEF Foreign
<1>1. disk'[t] = d /\ Happens(t) /\ child'[t] = child[t] /\ src'[t] = src[t]
  BY <1>0 DEF Happens, Domains
<1>2. /\ d \in Tree /\ d.final = "foreign" /\ d.thrown = disk[t].thrown /\ d.files = disk[t].files
      /\ d.staging = disk[t].staging
  BY <1>0 DEF Tree
<1> HIDE DEF d
<1>3. Later(child[t], disk[t], child[t], d) /\ Sound(child[t], d)
  BY <1>0, <1>2 DEF Later, Sound
<1>4. plan' \in PlanType
  BY <1>0, SpendPlan DEF Domains
<1> QED  BY <1>0, <1>1, <1>2, <1>3, <1>4, HappensOK

\* An answer is lost.
LEMMA AnswerLostOK == ASSUME IInv, NEW t \in Trees, AnswerLost(t) PROVE IInv'
<1>0. /\ Domains /\ GoodTree(t) /\ reply' = [reply EXCEPT ![t] = NoReply] /\ Spend("losses")
      /\ UNCHANGED <<up, mem, journal, pc, loc, holds, signal, calling, child, disk, src>>
  BY TreeFacts DEF AnswerLost
<1>1. /\ reply'[t] = NoReply /\ DOMAIN reply' = Trees /\ \A x \in Trees \ {t} : reply'[x] = reply[x]
  BY <1>0 DEF Domains
<1>2. GoodTree(t)'
  BY <1>0, <1>1, Shapes DEF GoodTree, Good, Shape, Knows
<1>3. plan' \in PlanType
  BY <1>0, SpendPlan DEF Domains
<1>4. Elsewhere(t) /\ Domains' /\ holds'[t] \subseteq holds[t]
  BY <1>0, <1>1, <1>3 DEF Elsewhere, Domains
<1> QED  BY <1>2, <1>4, OneTree

\* The Controller stops: only the journal, the children and the disk stay.
LEMMA CrashOK == ASSUME IInv, Crash PROVE IInv'
<1>1. /\ Domains /\ up' = FALSE /\ plan' \in PlanType /\ UNCHANGED <<journal, child, disk, src>>
      /\ \A t \in Trees : /\ mem'[t] = NoEntry /\ pc'[t] = "idle" /\ loc'[t] = NoLocals
                          /\ holds'[t] = {} /\ reply'[t] = NoReply
  BY SpendPlan DEF Crash, IInv, Domains
<1>2. Domains'
  BY <1>1 DEF Crash, Domains
<1>3. ASSUME NEW t \in Trees PROVE GoodTree(t)'
  <2>1. GoodTree(t)
    BY DEF IInv
  <2>2. Knows("idle", NoEntry, journal[t], NoLocals, {}, NoReply, disk[t])
    BY Shapes DEF Knows
  <2>3. Shape("idle", NoEntry, journal[t], NoLocals, {}, child[t], NoReply, disk[t], src[t])
    BY <2>1, Shapes DEF GoodTree, Good, Shape, Pcs
  <2> QED  BY <1>1, <2>1, <2>2, <2>3 DEF GoodTree, Good
<1>4. Held' <= Held
  <2>1. \A x \in Trees : holds'[x] \subseteq holds[x]
    BY <1>1
  <2>2. Held = Cardinality(Out(holds)) /\ Held' = Cardinality(Out(holds'))
    BY DEF Held, Out
  <2> QED  BY <2>1, <2>2, OutLess
<1>5. Held \in Nat /\ Held' \in Nat /\ Permits \in Nat
  <2>1. Held = Cardinality(Out(holds)) /\ Held' = Cardinality(Out(holds'))
    BY DEF Held, Out
  <2> QED  BY <2>1, OutFinite, DirectoryConstants
<1> QED  BY <1>2, <1>3, <1>4, <1>5 DEF IInv

\* It starts again from the journal.
LEMMA RestartOK == ASSUME IInv, Restart PROVE IInv'
<1>1. /\ Domains /\ ~up /\ up' = TRUE /\ UNCHANGED <<plan, holds, disk, src, reply>>
      /\ \A t \in Trees : /\ mem'[t] = RestoredEntry(journal[t]) /\ journal'[t] = RestoredEntry(journal[t])
                          /\ pc'[t] = Resumes(journal[t])
                          /\ loc'[t] = IF journal[t].phase = "Cancelling"
                                       THEN [NoLocals EXCEPT !.verdict = "Cancelled"] ELSE NoLocals
  BY DEF Restart, IInv
<1>2. Domains'
  BY <1>1 DEF Restart, Domains
<1>3. ASSUME NEW t \in Trees PROVE GoodTree(t)'
  <2> DEFINE j == journal[t]
             e == RestoredEntry(j)
             l == IF j.phase = "Cancelling" THEN [NoLocals EXCEPT !.verdict = "Cancelled"] ELSE NoLocals
  <2>1. /\ Fits(j) /\ j \in Entry /\ Stands(j, child[t], disk[t]) /\ Sound(child[t], disk[t])
        /\ child[t] \in [Files -> ChildPhases] /\ disk[t] \in Tree /\ src[t] \in Version
        /\ reply[t] \in Reply /\ holds[t] = {} /\ (reply[t].is = "Completed" => disk[t].final = "own")
    BY <1>1, TreeFacts DEF GoodTree, Good, Knows
  <2>2. /\ e \in Entry /\ e.prefix = j.prefix /\ e.active = j.active
        /\ e.phase = IF j.phase \in Terminal \cup {"none", "Finalizing", "Cancelling"} THEN j.phase
                     ELSE "WaitingForReconnect"
    BY <2>1 DEF RestoredEntry, Entry, Phases
  <2>3. /\ \A f \in Files : child'[t][f] = child[t][f] \/ (child[t][f] = "running" /\ child'[t][f] = "cancelled")
        /\ child'[t] \in [Files -> ChildPhases]
    BY <2>1 DEF Restart, ChildPhases
  <2>4. l \in Locals /\ (j.phase = "Cancelling" => l.verdict = "Cancelled")
    BY Shapes DEF NoLocals, Locals
  <2> HIDE DEF e, l
  <2>5. Fits(e) /\ Stands(e, child[t], disk[t])
    <3>1. e.phase = "Completed" => disk[t].final = "own"
      BY <2>1, <2>2 DEF Stands, Claimed
    <3>2. j.phase \in Terminal => e.phase \in Terminal
      BY <2>2
    <3>3. Fits(e)
      BY <2>1, <2>2, FitsSame
    <3> QED  BY <2>1, <2>2, <3>1, <3>2, <3>3, SameWindow
  <2>6. Later(child[t], disk[t], child'[t], disk[t]) /\ Sound(child'[t], disk[t])
    BY <2>1, <2>3, SoundWithout DEF Later
  <2>7. Stands(e, child'[t], disk[t])
    BY <2>5, <2>6, StandsLater
  <2>8. /\ Resumes(j) \in {"idle", "undo", "begin"}
        /\ Resumes(j) # "idle" => e.phase \notin Terminal
        /\ Resumes(j) = "undo" => j.phase = "Cancelling"
    BY <2>2 DEF Resumes, Terminal
  <2>9. Knows(Resumes(j), e, e, l, {}, reply[t], disk[t])
    BY <2>1, <2>4, <2>8 DEF Knows
  <2>10. /\ mem'[t] = e /\ journal'[t] = e /\ pc'[t] = Resumes(j) /\ loc'[t] = l /\ holds'[t] = {}
         /\ disk'[t] = disk[t] /\ src'[t] = src[t] /\ reply'[t] = reply[t] /\ up'
    BY <1>1, <2>1 DEF e, l
  <2>11. pc'[t] \in Pcs /\ holds'[t] \in SUBSET Files
    BY <2>8, <2>10 DEF Pcs
  <2> QED  BY <2>1, <2>3, <2>4, <2>5, <2>6, <2>7, <2>9, <2>10, <2>11, Together
<1>4. Held' = Held
  BY <1>1 DEF Held
<1> QED  BY <1>2, <1>3, <1>4 DEF IInv

-----------------------------------------------------------------------------
(* All together *)

\* The invariant holds at first.
LEMMA InitIInv == Init => IInv
<1> SUFFICES ASSUME Init PROVE IInv
  OBVIOUS
<1>1. Domains
  BY DirectoryConstants DEF Init, Domains
<1>2. ASSUME NEW t \in Trees PROVE GoodTree(t)
  <2>1. /\ up = TRUE /\ pc[t] = "idle" /\ mem[t] = NoEntry /\ journal[t] = NoEntry /\ loc[t] = NoLocals
        /\ holds[t] = {} /\ child[t] = [f \in Files |-> "none"] /\ reply[t] = NoReply
        /\ disk[t] = NoTree /\ src[t] = 0
    BY DEF Init
  <2>2. NoTree.final = "absent" /\ \A f \in Files : NoTree.files[f] = Absent
    BY DEF NoTree
  <2>3. Stands(NoEntry, child[t], NoTree)
    BY <2>1, Shapes DEF Stands, Recorded, Reserved, Claimed
  <2>4. Sound(child[t], NoTree)
    BY <2>1, <2>2 DEF Sound
  <2>5. Knows("idle", NoEntry, NoEntry, NoLocals, {}, NoReply, NoTree)
    BY Shapes DEF Knows
  <2>6. Shape("idle", NoEntry, NoEntry, NoLocals, {}, child[t], NoReply, NoTree, 0)
    BY <2>1, Shapes DEF Shape, Pcs, ChildPhases, Version
  <2> QED  BY <2>1, <2>3, <2>4, <2>5, <2>6 DEF GoodTree, Good
<1>3. Held = 0
  <2>1. {h \in Trees \X Files : h[2] \in holds[h[1]]} = {}
    BY DEF Init
  <2> QED  BY <2>1, FS_EmptySet DEF Held
<1> QED  BY <1>1, <1>2, <1>3, DirectoryConstants DEF IInv

\* A worker's step.
LEMMA WorkerOK == ASSUME IInv, NEW t \in Trees, Worker(t) PROVE IInv'
<1>1. CASE BeginPut(t)  BY <1>1, BeginPutOK
<1>2. CASE BeginGet(t) \/ Recovered(t)  BY <1>2, AsksOK
<1>3. CASE SetDurableState(t)  BY <1>3, SetDurableStateOK
<1>4. CASE RecoverCommit(t)  BY <1>4, RecoverCommitOK
<1>5. CASE TakePrepared(t)  BY <1>5, TakePreparedOK
<1>6. CASE Stage(t)  BY <1>6, StageOK
<1>7. CASE Fill(t)  BY <1>7, FillOK
<1>8. CASE Poll(t)  BY <1>8, PollOK
<1>9. CASE Advance(t)  BY <1>9, AdvanceOK
<1>10. CASE SeeCancel(t)  BY <1>10, SeeCancelOK
<1>11. CASE Ending(t)  BY <1>11, EndingOK
<1>12. CASE TakeFinal(t)  BY <1>12, TakeFinalOK
<1>13. CASE Commit(t)  BY <1>13, CommitOK
<1>14. CASE Undo(t)  BY <1>14, UndoOK
<1>15. CASE Close(t)  BY <1>15, CloseOK
<1> QED
  BY <1>1, <1>2, <1>3, <1>4, <1>5, <1>6, <1>7, <1>8, <1>9, <1>10, <1>11, <1>12, <1>13, <1>14, <1>15
     DEF Worker

\* Every step keeps the invariant.
LEMMA NextIInv == IInv /\ [Next]_vars => IInv'
<1> SUFFICES ASSUME IInv, [Next]_vars PROVE IInv'
  OBVIOUS
<1>0. plan \in PlanType
  BY DEF IInv, Domains
<1>1. CASE UNCHANGED vars
  BY <1>0, <1>1, Untouched DEF vars
<1>2. ASSUME NEW t \in Trees, Start(t) PROVE IInv'
  BY <1>2, StartOK
<1>3. ASSUME NEW t \in Trees, CancelMarks(t) PROVE IInv'
  BY <1>3, CancelMarksOK
<1>4. ASSUME NEW t \in Trees, CancelSignals(t) PROVE IInv'
  BY <1>0, <1>4, Untouched DEF CancelSignals
<1>5. ASSUME NEW t \in Trees, HostAnswers(t) PROVE IInv'
  BY <1>5, HostAnswersOK
<1>6. ASSUME NEW t \in Trees, Worker(t) PROVE IInv'
  BY <1>6, WorkerOK
<1>7. ASSUME NEW t \in Trees, NEW f \in Files, ChildEnds(t, f) PROVE IInv'
  BY <1>7, ChildEndsOK
<1>8. CASE Restart
  BY <1>8, RestartOK
<1>9. CASE Environment
  <2>1. CASE Crash
    BY <2>1, CrashOK
  <2>2. ASSUME NEW t \in Trees, Edit(t) \/ Foreign(t) \/ AnswerLost(t) PROVE IInv'
    BY <2>2, EditOK, ForeignOK, AnswerLostOK
  <2>3. ASSUME NEW t \in Trees, NEW f \in Files, ChildFails(t, f) \/ ChildPruned(t, f) PROVE IInv'
    BY <2>3, ChildGoesOK
  <2> QED  BY <1>9, <2>1, <2>2, <2>3 DEF Environment
<1> QED  BY <1>1, <1>2, <1>3, <1>4, <1>5, <1>6, <1>7, <1>8, <1>9 DEF Next

\* The invariant holds throughout.
LEMMA SpecIInv == Spec => []IInv
BY InitIInv, NextIInv, PTL DEF Spec

\* The shapes of all variables, in every reachable state of any instance.
THEOREM DirectoryTypeOK == Spec => []TypeOK
<1>1. IInv => TypeOK
  <2> SUFFICES ASSUME IInv PROVE TypeOK
    OBVIOUS
  <2>1. plan \in PlanType /\ up \in BOOLEAN
    BY DEF IInv, Domains
  <2>2. ASSUME NEW t \in Trees
        PROVE  /\ pc[t] \in Pcs /\ mem[t] \in Entry /\ holds[t] \in SUBSET Files
               /\ child[t] \in [Files -> ChildPhases] /\ disk[t] \in Tree
    BY TreeFacts
  <2> QED  BY <2>1, <2>2 DEF TypeOK, Pcs, Entry, ChildPhases, Tree
<1> QED  BY <1>1, SpecIInv, PTL

\* A tree becomes visible whole or not at all, and Completed is never said
\* of less: for any number of trees and files, whatever is edited, lost,
\* cancelled, pruned or restarted on the way, as often as the plan allows.
THEOREM TreeIsWholeThm == Spec => []TreeIsWhole
<1>1. IInv => TreeIsWhole
  <2> SUFFICES ASSUME IInv, NEW t \in Trees
               PROVE  /\ disk[t].final = "own" => \E v \in Version : \A f \in Files : disk[t].files[f] = v
                      /\ mem[t].phase = "Completed" => disk[t].final = "own"
    BY DEF TreeIsWhole
  <2>1. Sound(child[t], disk[t]) /\ Good(up, pc[t], mem[t], journal[t], loc[t], holds[t], child[t],
                                         reply[t], disk[t], src[t])
    BY TreeFacts DEF GoodTree
  <2>2. up => Claimed(mem[t], disk[t])
    BY <2>1 DEF Good, Stands
  <2>3. ~up => mem[t].phase = "none"
    BY <2>1, Shapes DEF Good
  <2> QED  BY <2>1, <2>2, <2>3 DEF Sound, Claimed
<1> QED  BY <1>1, SpecIInv, PTL

\* The window of children is kept, whoever crashes or cancels, and however
\* the trees compete for permits: no child outlives its record, the completed
\* prefix is on the disk, and the shared budget is kept and given back.
THEOREM WindowIsKeptThm == Spec => []WindowIsKept
<1>1. IInv => WindowIsKept
  <2> SUFFICES ASSUME IInv PROVE WindowIsKept
    OBVIOUS
  <2>1. ChildIsReserved
    <3>1. \A t \in Trees : Reserved(journal[t], child[t])
      BY TreeFacts DEF Stands
    <3> QED  BY <3>1 DEF ChildIsReserved, Reserved, Total
  <2>2. PrefixIsDelivered
    <3> SUFFICES ASSUME NEW t \in Trees, mem[t].phase \notin Terminal, mem[t].prefix > 0, ~disk[t].thrown
                 PROVE  /\ disk[t].staging \/ disk[t].final = "own"
                        /\ \A f \in 1 .. mem[t].prefix : disk[t].files[f] # Absent
      BY DEF PrefixIsDelivered
    <3>1. Good(up, pc[t], mem[t], journal[t], loc[t], holds[t], child[t], reply[t], disk[t], src[t])
      BY TreeFacts DEF GoodTree
    <3>2. up
      BY <3>1, Shapes DEF Good
    <3>3. Recorded(mem[t], disk[t]) /\ Sound(child[t], disk[t]) /\ Fits(mem[t])
      BY <3>1, <3>2, TreeFacts DEF Good, Stands
    <3>4. \A f \in 1 .. mem[t].prefix : disk[t].files[f] # Absent
      BY <3>3 DEF Recorded
    <3>5. 1 \in 1 .. mem[t].prefix /\ 1 \in Files
      BY <3>3, FitsFiles
    <3> QED  BY <3>3, <3>4, <3>5 DEF Sound
  <2>3. BudgetKept
    <3>1. \A t \in Trees : pc[t] \notin {"fill", "poll"} => holds[t] = {}
      BY TreeFacts DEF Knows
    <3> QED  BY <3>1 DEF BudgetKept, IInv
  <2> QED  BY <2>1, <2>2, <2>3 DEF WindowIsKept
<1> QED  BY <1>1, SpecIInv, PTL

=============================================================================
