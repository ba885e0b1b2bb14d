------------------------- MODULE DirectoryTransfer -------------------------
(***************************************************************************)
(* Directory puts and gets: the Controller's directory manager, which      *)
(* journals one entry per tree, keeps a bounded window of single-file      *)
(* children under a budget of permits that all trees share, and commits    *)
(* the staged tree by one rename; the Host's tree service, which owns the  *)
(* staging tree of a put; and the single-file manager, seen as a table of  *)
(* children that land or fail.                                             *)
(*                                                                         *)
(* The staging and the final tree of a put are on the Host, those of a get *)
(* on the Controller; one variable holds both.  A file is its number in    *)
(* the manifest and the version of the source it was read from.  A plan    *)
(* says which trees exist and what may happen to them, so that scenarios   *)
(* add up instead of multiplying.                                          *)
(***************************************************************************)
EXTENDS Naturals, Sequences, FiniteSets, FiniteSetsExt

CONSTANTS Trees,     \* the directory transfers
          N,         \* files of a tree
          Window,    \* HARD_MAX_DIRECTORY_CHILDREN_PER_TRANSFER
          Permits,   \* HARD_MAX_CONTROLLER_DIRECTORY_ACTIVE_CHILDREN
          Plans      \* what may happen: see PlanType


VARIABLES plan,      \* the scenario, and how much of it is still to come
          up,        \* the Controller process runs
          mem,       \* the manager's entry of every tree
          journal,   \* the entries as the newest journal slot has them
          pc,        \* where the tree's worker is
          loc,       \* the worker's locals
          holds,     \* the files the worker holds a permit for
          signal,    \* the cancel watch of the tree
          calling,   \* a cancel call has marked and not yet signalled
          child,     \* the single-file manager's entry of every child
          reply,     \* the Host's answer on its way to the worker
          disk,      \* the staging and the final tree
          src        \* the version of the source tree

vars == <<plan, up, mem, journal, pc, loc, holds, signal, calling, child,
          reply, disk, src>>

Files == 1 .. N
Absent == 2                       \* a file that is not in the staging tree
Version == 0 .. 1

PlanType == [kind: [Trees -> {"put", "get", "unused"}], cancels: 0 .. 1,
             crashes: 0 .. 1, edits: 0 .. 1, foreign: 0 .. 1, faults: 0 .. 1,
             losses: 0 .. 1, prunes: 0 .. 1]

ASSUME DirectoryConstants ==
  /\ IsFiniteSet(Trees) /\ N \in Nat \ {0}
  /\ Window \in Nat \ {0} /\ Permits \in Nat \ {0}
  /\ \A p \in Plans : p \in PlanType

Put(t) == plan.kind[t] = "put"

Spend(what) == /\ plan[what] > 0
               /\ plan' = [plan EXCEPT ![what] = @ - 1]

(***************************************************************************)
(* Entries.  `counted` says that the totals were filled in, `state` how    *)
(* much of the durable state is there: nothing, the manifest, the manifest *)
(* with the staging root, or the verified source of a get.  `active` are   *)
(* the children of the files after the completed prefix, in order, each    *)
(* with its completed flag.                                                *)
(***************************************************************************)
NoEntry == [phase |-> "none", counted |-> FALSE, state |-> "none",
            manifest |-> 0, active |-> <<>>, prefix |-> 0]

Terminal == {"Completed", "Failed", "Cancelled"}
Cancellable == {"Preparing", "Running", "WaitingForReconnect"}

NoLocals == [fresh |-> FALSE, at |-> 1, seen |-> {}, verdict |-> "none"]
NoReply == [is |-> "none", version |-> 0]
\* `thrown` remembers, for the properties, that a staging tree was removed
NoTree == [staging |-> FALSE, files |-> [f \in Files |-> Absent],
           final |-> "absent", thrown |-> FALSE]

Init ==
  /\ plan \in Plans
  /\ up = TRUE
  /\ mem = [t \in Trees |-> NoEntry]
  /\ journal = mem
  /\ pc = [t \in Trees |-> "idle"]
  /\ loc = [t \in Trees |-> NoLocals]
  /\ holds = [t \in Trees |-> {}]
  /\ signal = [t \in Trees |-> FALSE]
  /\ calling = [t \in Trees |-> FALSE]
  /\ child = [t \in Trees |-> [f \in Files |-> "none"]]
  /\ reply = [t \in Trees |-> NoReply]
  /\ disk = [t \in Trees |-> NoTree]
  /\ src = [t \in Trees |-> 0]

(***************************************************************************)
(* The journal.  A snapshot holds every tree and is validated as a whole,  *)
(* so one entry that the validator refuses keeps all of them from being    *)
(* written.  A write that fails may have reached the disk or not.          *)
(***************************************************************************)
\* without a manifest there is no progress
ValidUnprepared(e) ==
  e.state = "none" =>
    /\ ~e.counted /\ e.prefix = 0 /\ e.active = <<>>
    /\ e.phase \in Cancellable \cup {"none", "Cancelling", "Failed", "Cancelled"}

\* a verified source belongs to a get that is being committed
ValidVerified(e) ==
  e.state = "verified" => e.phase \in {"Finalizing", "Completed", "Failed"}

\* the window starts at the first file that is not completed, and a
\* transfer that is over, or committing, has none
ValidWindow(e) ==
  /\ Len(e.active) <= Window
  /\ e.active # <<>> => e.prefix + Len(e.active) <= N /\ ~Head(e.active)
  /\ e.phase \in Terminal => e.active = <<>>
  /\ e.phase \in {"Completed", "Finalizing"} => e.prefix = N /\ e.active = <<>>

Valid(m) == \A t \in Trees : /\ ValidUnprepared(m[t])
                            /\ ValidVerified(m[t])
                            /\ ValidWindow(m[t])

Journals(m) == Valid(m) /\ journal' = m /\ UNCHANGED plan

WriteFails(m) == Valid(m) /\ Spend("faults") /\ journal' \in {journal, m}

Refuses(m) == \/ ~Valid(m) /\ UNCHANGED <<journal, plan>>
              \/ WriteFails(m)

With(t, e) == [mem EXCEPT ![t] = e]

Goes(t, where) == pc' = [pc EXCEPT ![t] = where]

(***************************************************************************)
(* How a worker ends.  Settle writes the verdict and leaves the last       *)
(* journal write to Close; Abandon first takes the staging tree away, on   *)
(* the Host or here, and for a window also cancels its children.           *)
(***************************************************************************)
Settle(t, phase) ==
  /\ mem' = With(t, [mem[t] EXCEPT !.phase = phase, !.active = <<>>])
  /\ Goes(t, "close")
  /\ holds' = [holds EXCEPT ![t] = {}]

\* cancel_child_ids: a child that has ended, or was never started, is left
CancelKids(t, e) ==
  child' = [child EXCEPT ![t] = [f \in Files |->
              IF /\ f \in (e.prefix + 1) .. (e.prefix + Len(e.active))
                 /\ child[t][f] = "running"
              THEN "cancelled" ELSE child[t][f]]]

Abandon(t, verdict) ==
  /\ Goes(t, "undo")
  /\ loc' = [loc EXCEPT ![t].verdict = verdict]
  /\ holds' = [holds EXCEPT ![t] = {}]
  /\ reply' = [reply EXCEPT ![t] = NoReply]

AbandonWindow(t, e, verdict) == Abandon(t, verdict) /\ CancelKids(t, e)

\* mutant: the scan compares names and not contents
ScanNames(t, v) == \A f \in Files : disk[t].files[f] # Absent

\* what a scan of the tree finds, and whether it is the manifest's tree
ScanIs(t, v) == \A f \in Files : disk[t].files[f] = v
TreeMatches(t) == ScanIs(t, mem[t].manifest)

Removed(d) == [d EXCEPT !.staging = FALSE, !.thrown = TRUE,
                        !.files = IF d.final = "own" THEN @
                                  ELSE [f \in Files |-> Absent]]

\* CancelPut on the Host: refused when the tree is already final
CancelPut(t) == disk' = [disk EXCEPT ![t] = IF @.staging THEN Removed(@) ELSE @]

\* cancel_remote_directory gives up after 30 s; a tree without a manifest,
\* and a get, need no Host
Undo(t) ==
  /\ up /\ pc[t] = "undo"
  /\ \/ Put(t) /\ mem[t].state # "none" /\ CancelPut(t)
     \/ Put(t) /\ UNCHANGED disk
     \/ ~Put(t) /\ disk' = [disk EXCEPT ![t] = IF mem[t].state # "none" /\ @.staging
                                               THEN Removed(@) ELSE @]
  /\ Settle(t, loc[t].verdict)
  /\ UNCHANGED <<plan, up, journal, loc, signal, calling, child, reply, src>>

\* the write at the end of every worker; when it fails there is a warning
Close(t) ==
  /\ up /\ pc[t] = "close"
  /\ Journals(mem) \/ Refuses(mem)
  /\ Goes(t, "idle")
  /\ loc' = [loc EXCEPT ![t] = NoLocals]
  /\ UNCHANGED <<up, mem, holds, signal, calling, child, reply, disk, src>>

(***************************************************************************)
(* The calls of the local API.                                             *)
(***************************************************************************)
Start(t) ==
  LET m == With(t, [NoEntry EXCEPT !.phase = "Preparing"]) IN
  /\ up /\ plan.kind[t] # "unused" /\ mem[t] = NoEntry /\ pc[t] = "idle"
  /\ \/ /\ Journals(m)
        /\ mem' = m
        /\ Goes(t, "begin")
        /\ loc' = [loc EXCEPT ![t].fresh = TRUE]
     \/ /\ Refuses(m)               \* the caller is told, the entry is gone
        /\ UNCHANGED <<mem, pc, loc>>
  /\ UNCHANGED <<up, holds, signal, calling, child, reply, disk, src>>

CancelMarks(t) ==
  LET e == [mem[t] EXCEPT !.phase = IF @ \in Cancellable THEN "Cancelling" ELSE @]
      m == With(t, e)
  IN /\ up /\ mem[t].phase \notin {"none"} \cup Terminal
     /\ ~calling[t] /\ ~signal[t]
     /\ Spend("cancels")
     /\ mem' = m
     /\ \/ Valid(m) /\ journal' = m /\ calling' = [calling EXCEPT ![t] = TRUE]
        \/ ~Valid(m) /\ UNCHANGED <<journal, calling>>
     /\ UNCHANGED <<up, pc, loc, holds, signal, child, reply, disk, src>>

CancelSignals(t) ==
  /\ up /\ calling[t]
  /\ calling' = [calling EXCEPT ![t] = FALSE]
  /\ signal' = [signal EXCEPT ![t] = mem[t].phase \notin Terminal]
  /\ UNCHANGED <<plan, up, mem, journal, pc, loc, holds, child, reply, disk, src>>

(***************************************************************************)
(* The Host's tree service.  directory_tree sends the same request again   *)
(* over every new session until an answer comes back, so a request may be  *)
(* executed more than once.                                                *)
(***************************************************************************)
Answers(t, is) == reply' = [reply EXCEPT ![t] = [is |-> is, version |-> src[t]]]

\* the request that a waiting worker has outstanding
Request(t) == CASE pc[t] = "prepare" -> IF Put(t) THEN "PreparePut" ELSE "PrepareGet"
                [] pc[t] = "finalize" -> IF Put(t) THEN "FinalizePut" ELSE "FinalizeGet"
                [] OTHER -> "none"

\* ensure_staging_root keeps a tree that is already there
Staged(d) == [d EXCEPT !.staging = TRUE]

PreparePut(t) ==
  IF disk[t].final # "absent"
  THEN Answers(t, "Conflict") /\ UNCHANGED disk
  ELSE Answers(t, "Prepared") /\ disk' = [disk EXCEPT ![t] = Staged(@)]

FinalizePut(t) ==
  \/ /\ ~disk[t].staging
     /\ Answers(t, IF disk[t].final = "absent" THEN "NotFound"
                   ELSE IF disk[t].final = "own" /\ TreeMatches(t)
                        THEN "Completed" ELSE "HashMismatch")
     /\ UNCHANGED disk
  \/ /\ disk[t].staging
     /\ disk[t].final # "absent" \/ ~TreeMatches(t)
     /\ Answers(t, IF disk[t].final # "absent" THEN "Conflict" ELSE "HashMismatch")
     /\ UNCHANGED disk
  \/ /\ disk[t].staging /\ disk[t].final = "absent" /\ TreeMatches(t)
     /\ Answers(t, "Completed")
     /\ disk' = [disk EXCEPT ![t].staging = FALSE, ![t].final = "own"]

PrepareGet(t) == Answers(t, "Manifest") /\ UNCHANGED disk

FinalizeGet(t) ==
  /\ Answers(t, IF src[t] = mem[t].manifest THEN "Verified" ELSE "HashMismatch")
  /\ UNCHANGED disk

HostAnswers(t) ==
  /\ up /\ reply[t] = NoReply
  /\ \/ Request(t) = "PreparePut" /\ PreparePut(t)
     \/ Request(t) = "PrepareGet" /\ PrepareGet(t)
     \/ Request(t) = "FinalizePut" /\ FinalizePut(t)
     \/ Request(t) = "FinalizeGet" /\ FinalizeGet(t)
  /\ UNCHANGED <<plan, up, mem, journal, pc, loc, holds, signal, calling, child, src>>

\* the session ends before the answer arrives
AnswerLost(t) ==
  /\ reply[t] # NoReply
  /\ Spend("losses")
  /\ reply' = [reply EXCEPT ![t] = NoReply]
  /\ UNCHANGED <<up, mem, journal, pc, loc, holds, signal, calling, child, disk, src>>

(***************************************************************************)
(* The worker up to the window.                                            *)
(***************************************************************************)
\* A new put scans its source, fills in the totals, and in a second critical
\* section the manifest; between the two the entry does not validate.
BeginPut(t) ==
  /\ up /\ pc[t] = "begin" /\ mem[t].state = "none" /\ Put(t)
  /\ \/ signal[t] /\ Settle(t, "Cancelled")
     \/ /\ ~signal[t]
        /\ mem' = With(t, [mem[t] EXCEPT !.counted = TRUE, !.manifest = src[t]])
        /\ Goes(t, "counted")
        /\ UNCHANGED holds
  /\ UNCHANGED <<plan, up, journal, loc, signal, calling, child, reply, disk, src>>

BeginGet(t) ==
  /\ up /\ pc[t] = "begin" /\ mem[t].state = "none" /\ ~Put(t)
  /\ Goes(t, "prepare")
  /\ UNCHANGED <<plan, up, mem, journal, loc, holds, signal, calling, child, reply, disk, src>>

SetDurableState(t) ==
  LET m == With(t, [mem[t] EXCEPT !.state = IF Put(t) THEN "manifest" ELSE "staged"]) IN
  /\ up /\ pc[t] = "counted"
  /\ \/ Journals(m) /\ mem' = m /\ Goes(t, IF Put(t) THEN "prepare" ELSE "stage")
                    /\ UNCHANGED holds
     \/ Refuses(m) /\ mem' = [m EXCEPT ![t].phase = "Failed"] /\ Goes(t, "close")
                   /\ UNCHANGED holds
  /\ UNCHANGED <<up, loc, signal, calling, child, reply, disk, src>>

\* A recovered worker asks the Host again, except for a get whose source was
\* verified: that may have been committed before the crash, and
\* recover_local_get_commit looks at both trees.
Recovered(t) ==
  /\ up /\ pc[t] = "begin" /\ mem[t].state \in {"manifest", "staged"}
  /\ Goes(t, "prepare")
  /\ UNCHANGED <<plan, up, mem, journal, loc, holds, signal, calling, child, reply, disk, src>>

RecoverCommit(t) ==
  LET d == disk[t] IN
  /\ up /\ pc[t] = "begin" /\ mem[t].state = "verified"
  /\ \/ d.final = "absent" /\ Goes(t, "stage") /\ UNCHANGED <<mem, holds>>
     \/ /\ d.final # "absent"
        /\ Settle(t, IF ~d.staging /\ d.final = "own" /\ TreeMatches(t)
                     THEN "Completed" ELSE "Failed")
  /\ UNCHANGED <<plan, up, journal, loc, signal, calling, child, reply, disk, src>>

\* A put that Host has prepared.  A recovered one proves its source again
\* before it goes on; what it had running is not cancelled when it may not.
PreparedPut(t) ==
  LET e == [mem[t] EXCEPT !.state = "staged",
                          !.phase = IF mem[t].prefix < N THEN "Running" ELSE @]
      m == With(t, e)
      changed == mem[t].prefix < N /\ ~loc[t].fresh /\ src[t] # mem[t].manifest
  IN /\ mem' = m
     /\ \/ /\ ~changed /\ Journals(m)
           /\ Goes(t, IF e.prefix < N THEN "fill" ELSE "ending")
           /\ UNCHANGED <<loc, holds>>
        \/ /\ changed /\ UNCHANGED <<plan, journal>>
           /\ Abandon(t, "Failed")
        \/ /\ ~changed /\ Refuses(m)
           /\ Abandon(t, "Failed")
     /\ UNCHANGED <<child, disk>>

\* A get that has its manifest: a new one must find neither tree, a
\* recovered one the manifest it had.
FreshGet(t) ==
  LET conflict == disk[t].final # "absent" \/ disk[t].staging IN
  \/ conflict /\ Settle(t, "Failed")
  \/ /\ ~conflict
     /\ mem' = With(t, [mem[t] EXCEPT !.counted = TRUE, !.manifest = reply[t].version])
     /\ Goes(t, "counted") /\ UNCHANGED holds

RecoveredGet(t) ==
  \/ reply[t].version # mem[t].manifest /\ Settle(t, "Failed")
  \/ reply[t].version = mem[t].manifest /\ Goes(t, "stage") /\ UNCHANGED <<mem, holds>>

PreparedGet(t) ==
  /\ \/ loc[t].fresh /\ FreshGet(t)
     \/ ~loc[t].fresh /\ RecoveredGet(t)
  /\ UNCHANGED <<plan, journal, loc, child, disk>>

TakePrepared(t) ==
  /\ up /\ pc[t] = "prepare" /\ reply[t] # NoReply
  /\ \/ reply[t].is = "Conflict" /\ Settle(t, "Failed")
        /\ UNCHANGED <<plan, journal, loc, child, disk>>
     \/ reply[t].is = "Prepared" /\ PreparedPut(t)
     \/ reply[t].is = "Manifest" /\ PreparedGet(t)
  /\ reply' = [reply EXCEPT ![t] = NoReply]
  /\ UNCHANGED <<up, signal, calling, src>>

\* ensure_local_get_staging: only a get without progress may make the tree
StagingOk(t) ==
  LET e == mem[t]
      mayCreate == e.prefix = 0 /\ e.active = <<>> /\ e.state # "verified"
  IN /\ disk[t].final = "absent"
     /\ IF disk[t].staging THEN ~loc[t].fresh ELSE mayCreate

Stage(t) ==
  LET e == mem[t]
      ok == StagingOk(t)
      r == [e EXCEPT !.phase = "Running"]
  IN /\ up /\ pc[t] = "stage"
     /\ \/ /\ ~ok /\ Settle(t, "Failed")
           /\ UNCHANGED <<plan, journal, loc, child, reply, disk>>
        \/ /\ ok /\ signal[t] /\ AbandonWindow(t, e, "Cancelled")
           /\ disk' = [disk EXCEPT ![t] = Staged(@)]
           /\ UNCHANGED <<plan, mem, journal>>
        \/ /\ ok /\ ~signal[t]
           /\ disk' = [disk EXCEPT ![t] = Staged(@)]
           /\ UNCHANGED child
           /\ \/ /\ e.prefix = N /\ Goes(t, "ending")
                 /\ UNCHANGED <<plan, mem, journal, loc, holds, reply>>
              \/ /\ e.prefix < N /\ mem' = With(t, r)
                 /\ \/ Journals(mem') /\ Goes(t, "fill") /\ UNCHANGED <<loc, holds, reply>>
                    \/ Refuses(mem') /\ Abandon(t, "Failed")
     /\ UNCHANGED <<up, signal, calling, src>>

(***************************************************************************)
(* The window of children.                                                 *)
(***************************************************************************)
Held == Cardinality({h \in Trees \X Files : h[2] \in holds[h[1]]})
\* mutant: one permit too many
FreeOffByOne == Held <= Permits
Free == Held < Permits

Next_(e) == e.prefix + Len(e.active) + 1      \* the file to reserve next
Wants(e) == Len(e.active) < Window /\ Next_(e) <= N

\* mutant: the reservation is kept in memory only
ReserveInMemory(t) ==
  /\ Wants(mem[t]) /\ Free
  /\ mem' = With(t, [mem[t] EXCEPT !.active = Append(@, FALSE)])
  /\ holds' = [holds EXCEPT ![t] = @ \cup {Next_(mem[t])}]
  /\ UNCHANGED <<plan, journal, pc, loc, child, reply>>

\* A child is journalled before it is started, and after its permit is had.
Reserve(t) ==
  LET m == With(t, [mem[t] EXCEPT !.active = Append(@, FALSE)]) IN
  /\ Wants(mem[t]) /\ Free
  /\ mem' = m
  /\ \/ /\ Journals(m)
        /\ holds' = [holds EXCEPT ![t] = @ \cup {Next_(mem[t])}]
        /\ UNCHANGED <<pc, loc, child, reply>>
     \/ Refuses(m) /\ AbandonWindow(t, m[t], "Failed")

Fill(t) ==
  LET e == mem[t] IN
  /\ up /\ pc[t] = "fill" /\ ~signal[t]
  /\ \/ /\ e.prefix = N /\ e.active = <<>>
        /\ Goes(t, "ending") /\ holds' = [holds EXCEPT ![t] = {}]
        /\ UNCHANGED <<plan, mem, journal, loc, child, reply>>
     \/ Reserve(t)
     \/ /\ ~Wants(e) /\ e.active # <<>>
        /\ Goes(t, "poll") /\ loc' = [loc EXCEPT ![t].at = 1, ![t].seen = {}]
        /\ UNCHANGED <<plan, mem, journal, holds, child, reply>>
  /\ UNCHANGED <<up, signal, calling, disk, src>>

\* ensure_*_child_started: a child that the single-file manager does not know
\* is started under its reserved id
EnsureStarted(t, f) ==
  /\ child[t][f] \in {"none", "running"}
  /\ child' = [child EXCEPT ![t][f] = "running"]
  /\ holds' = [holds EXCEPT ![t] = @ \cup {f}]
  /\ loc' = [loc EXCEPT ![t].at = @ + 1]
  /\ UNCHANGED <<pc, reply>>

\* what the child's phase means to the window
ChildOutcome(t, f) ==
  \/ /\ child[t][f] = "completed"
     /\ loc' = [loc EXCEPT ![t].at = @ + 1, ![t].seen = @ \cup {loc[t].at}]
     /\ holds' = [holds EXCEPT ![t] = @ \ {f}]
     /\ UNCHANGED <<pc, child, reply>>
  \/ child[t][f] = "failed" /\ AbandonWindow(t, mem[t], "Failed")
  \/ child[t][f] = "cancelled" /\ AbandonWindow(t, mem[t], "Cancelled")

\* One child of the round; a restored child first needs a permit.
Poll(t) ==
  LET at == loc[t].at
      f == mem[t].prefix + at
  IN /\ up /\ pc[t] = "poll" /\ at <= Len(mem[t].active)
     /\ \/ /\ mem[t].active[at]
           /\ loc' = [loc EXCEPT ![t].at = @ + 1]
           /\ UNCHANGED <<pc, holds, child, reply>>
        \/ /\ ~mem[t].active[at]
           /\ f \in holds[t] \/ Free
           /\ EnsureStarted(t, f) \/ ChildOutcome(t, f)
     /\ UNCHANGED <<plan, up, mem, journal, signal, calling, disk, src>>

\* advance_*_window_state: flags may be set out of order, the prefix only
\* moves over completed children at the front
Flagged(e, seen) == [i \in 1 .. Len(e.active) |-> e.active[i] \/ i \in seen]

\* mutant: completions behind a gap count
DoneAnywhere(flags) == Cardinality({i \in DOMAIN flags : flags[i]})

FrontDone(flags) ==
  Max({k \in 0 .. Len(flags) : \A i \in 1 .. k : flags[i]})

Advanced(e, seen) ==
  LET flags == Flagged(e, seen)
      k == FrontDone(flags)
  IN [e EXCEPT !.active = SubSeq(flags, k + 1, Len(flags)), !.prefix = @ + k]

Advance(t) ==
  LET e == Advanced(mem[t], loc[t].seen) IN
  /\ up /\ pc[t] = "poll" /\ loc[t].at > Len(mem[t].active)
  /\ mem' = With(t, e)
  /\ \/ e = mem[t] /\ Goes(t, "fill") /\ UNCHANGED <<plan, journal, loc, holds, child, reply>>
     \/ /\ e # mem[t] /\ Journals(mem') /\ Goes(t, "fill")
        /\ UNCHANGED <<loc, holds, child, reply>>
     \/ e # mem[t] /\ Refuses(mem') /\ AbandonWindow(t, e, "Failed")
  /\ UNCHANGED <<up, signal, calling, disk, src>>

\* Where a worker notices the watch: while it waits for the Host's first
\* answer, at the top of the window, and while it waits for a permit.
SeeCancel(t) ==
  /\ up /\ signal[t]
  /\ \/ pc[t] = "prepare" /\ Abandon(t, "Cancelled") /\ UNCHANGED child
     \/ pc[t] = "fill" /\ AbandonWindow(t, mem[t], "Cancelled")
     \/ /\ pc[t] = "poll" /\ loc[t].at <= Len(mem[t].active) /\ ~Free
        /\ ~mem[t].active[loc[t].at] /\ (mem[t].prefix + loc[t].at) \notin holds[t]
        /\ AbandonWindow(t, mem[t], "Cancelled")
  /\ UNCHANGED <<plan, up, mem, journal, signal, calling, disk, src>>

(***************************************************************************)
(* The end of a tree.                                                      *)
(***************************************************************************)
Finalizing(e) == [e EXCEPT !.phase = "Finalizing", !.prefix = N, !.active = <<>>]

Ending(t) ==
  LET m == With(t, Finalizing(mem[t])) IN
  /\ up /\ pc[t] = "ending"
  /\ \/ signal[t] /\ Abandon(t, "Cancelled") /\ UNCHANGED <<plan, mem, journal>>
     \/ /\ ~signal[t] /\ Journals(m) /\ mem' = m
        /\ Goes(t, IF m[t].state = "verified" THEN "commit" ELSE "finalize")
        /\ UNCHANGED <<loc, holds, reply>>
     \/ ~signal[t] /\ Refuses(m) /\ mem' = m /\ Abandon(t, "Failed")
  /\ UNCHANGED <<up, signal, calling, child, disk, src>>

\* The Host's last answer: a put is delivered, a get has its source proved
\* again and journals that before it commits.
FinalPut(t) ==
  /\ reply[t].is = "Completed"
  /\ Settle(t, "Completed")
  /\ reply' = [reply EXCEPT ![t] = NoReply]
  /\ UNCHANGED <<plan, journal, loc>>

FinalGet(t) ==
  LET m == With(t, [mem[t] EXCEPT !.state = "verified"]) IN
  /\ reply[t].is = "Verified"
  /\ mem' = m
  /\ \/ /\ Journals(m) /\ Goes(t, "commit")
        /\ reply' = [reply EXCEPT ![t] = NoReply] /\ UNCHANGED <<loc, holds>>
     \/ Refuses(m) /\ Abandon(t, "Failed")

TakeFinal(t) ==
  /\ up /\ pc[t] = "finalize" /\ reply[t] # NoReply
  /\ \/ FinalPut(t)
     \/ FinalGet(t)
     \/ /\ reply[t].is \in {"NotFound", "Conflict", "HashMismatch"}
        /\ Abandon(t, "Failed") /\ UNCHANGED <<plan, mem, journal>>
  /\ UNCHANGED <<up, signal, calling, child, disk, src>>

\* finalize_local_get_staging, and the verdict in memory; Close journals it
Commit(t) ==
  LET d == disk[t]
      ok == d.staging /\ TreeMatches(t) /\ d.final = "absent"
  IN /\ up /\ pc[t] = "commit"
     /\ disk' = [disk EXCEPT ![t] = IF ok THEN [d EXCEPT !.staging = FALSE, !.final = "own"]
                                    ELSE Removed(d)]
     /\ Settle(t, IF ok THEN "Completed" ELSE "Failed")
     /\ UNCHANGED <<plan, up, journal, loc, signal, calling, child, reply, src>>

(***************************************************************************)
(* The single-file manager, the Controller process and the world.          *)
(***************************************************************************)
\* A child delivers under FailIfExists into the staging tree.
ChildEnds(t, f) ==
  LET lands == disk[t].staging /\ disk[t].files[f] = Absent IN
  /\ up /\ child[t][f] = "running"
  /\ child' = [child EXCEPT ![t][f] = IF lands THEN "completed" ELSE "failed"]
  /\ disk' = IF lands THEN [disk EXCEPT ![t].files[f] = src[t]] ELSE disk
  /\ UNCHANGED <<plan, up, mem, journal, pc, loc, holds, signal, calling, reply, src>>

ChildFails(t, f) ==
  /\ up /\ child[t][f] = "running"
  /\ Spend("faults")
  /\ child' = [child EXCEPT ![t][f] = "failed"]
  /\ UNCHANGED <<up, mem, journal, pc, loc, holds, signal, calling, reply, disk, src>>

\* the single-file manager keeps 16 entries and prunes completed ones
ChildPruned(t, f) ==
  /\ up /\ child[t][f] = "completed"
  /\ Spend("prunes")
  /\ child' = [child EXCEPT ![t][f] = "none"]
  /\ UNCHANGED <<up, mem, journal, pc, loc, holds, signal, calling, reply, disk, src>>

Crash ==
  /\ up /\ Spend("crashes")
  /\ up' = FALSE
  /\ mem' = [t \in Trees |-> NoEntry]
  /\ pc' = [t \in Trees |-> "idle"]
  /\ loc' = [t \in Trees |-> NoLocals]
  /\ holds' = [t \in Trees |-> {}]
  /\ signal' = [t \in Trees |-> FALSE]
  /\ calling' = [t \in Trees |-> FALSE]
  /\ reply' = [t \in Trees |-> NoReply]
  /\ UNCHANGED <<journal, child, disk, src>>

\* restore_snapshot
RestoredEntry(e) ==
  [e EXCEPT !.phase = IF @ \in Terminal \cup {"none", "Finalizing", "Cancelling"}
                      THEN @ ELSE "WaitingForReconnect"]

\* mutant: a transfer that was being finalized is not taken up again
ResumesUnfinished(e) == CASE e.phase \in Terminal \cup {"none", "Finalizing"} -> "idle"
                          [] e.phase = "Cancelling" -> "undo"
                          [] OTHER -> "begin"

Resumes(e) == CASE e.phase \in Terminal \cup {"none"} -> "idle"
                [] e.phase = "Cancelling" -> "undo"
                [] OTHER -> "begin"

Restart ==
  LET m == [t \in Trees |-> RestoredEntry(journal[t])] IN
  /\ ~up
  /\ up' = TRUE
  /\ mem' = m /\ journal' = m
  /\ pc' = [t \in Trees |-> Resumes(journal[t])]
  /\ loc' = [t \in Trees |-> IF journal[t].phase = "Cancelling"
                             THEN [NoLocals EXCEPT !.verdict = "Cancelled"]
                             ELSE NoLocals]
  /\ child' = [t \in Trees |-> [f \in Files |->
                 IF /\ journal[t].phase = "Cancelling" /\ child[t][f] = "running"
                    /\ f \in (m[t].prefix + 1) .. (m[t].prefix + Len(m[t].active))
                 THEN "cancelled" ELSE child[t][f]]]
  /\ UNCHANGED <<plan, holds, signal, calling, reply, disk, src>>

\* the user edits the source; another program takes the destination
Edit(t) ==
  /\ plan.kind[t] # "unused" /\ Spend("edits")
  /\ src' = [src EXCEPT ![t] = 1]
  /\ UNCHANGED <<up, mem, journal, pc, loc, holds, signal, calling, child, reply, disk>>

Foreign(t) ==
  /\ plan.kind[t] # "unused" /\ disk[t].final = "absent" /\ Spend("foreign")
  /\ disk' = [disk EXCEPT ![t].final = "foreign"]
  /\ UNCHANGED <<up, mem, journal, pc, loc, holds, signal, calling, child, reply, src>>

Worker(t) == \/ BeginPut(t) \/ BeginGet(t) \/ SetDurableState(t) \/ Recovered(t)
             \/ RecoverCommit(t) \/ TakePrepared(t)
             \/ Stage(t) \/ Fill(t) \/ Poll(t) \/ Advance(t) \/ SeeCancel(t)
             \/ Ending(t) \/ TakeFinal(t) \/ Commit(t) \/ Undo(t) \/ Close(t)

Environment == \/ Crash
               \/ \E t \in Trees : \/ Edit(t) \/ Foreign(t) \/ AnswerLost(t)
                                   \/ \E f \in Files : ChildFails(t, f) \/ ChildPruned(t, f)

Next == \/ \E t \in Trees : \/ Start(t) \/ CancelMarks(t) \/ CancelSignals(t)
                            \/ HostAnswers(t) \/ Worker(t)
                            \/ \E f \in Files : ChildEnds(t, f)
        \/ Restart
        \/ Environment

\* Workers are tokio tasks and the semaphore serves its waiters in order;
\* children and the Host answer as long as the device is reachable.
Fairness ==
  /\ \A t \in Trees : /\ SF_vars(Worker(t))
                      /\ WF_vars(HostAnswers(t))
                      /\ WF_vars(CancelSignals(t))
                      /\ \A f \in Files : WF_vars(ChildEnds(t, f))
  /\ WF_vars(Restart)

Spec == Init /\ [][Next]_vars /\ Fairness

-----------------------------------------------------------------------------
TypeOK ==
  /\ plan \in PlanType /\ up \in BOOLEAN
  /\ \A t \in Trees :
       /\ pc[t] \in {"idle", "begin", "counted", "prepare", "stage", "fill", "poll",
                     "ending", "finalize", "commit", "undo", "close"}
       /\ mem[t].prefix \in 0 .. N /\ mem[t].active \in Seq(BOOLEAN)
       /\ holds[t] \in SUBSET Files
       /\ child[t] \in [Files -> {"none", "running", "completed", "failed", "cancelled"}]
       /\ disk[t].final \in {"absent", "own", "foreign"}

\* A tree becomes visible whole or not at all: whatever was edited, lost,
\* cancelled or restarted on the way, the final directory holds every file
\* of one and the same manifest, and Completed is never said of less.
TreeIsWhole ==
  \A t \in Trees :
    /\ disk[t].final = "own" =>
         \E v \in Version : \A f \in Files : disk[t].files[f] = v
    /\ mem[t].phase = "Completed" => disk[t].final = "own"

\* No child outlives its record: what the single-file manager runs or has
\* run for a live tree is in the journal, as part of the completed prefix or
\* of the reserved window, so a restarted Controller adopts it.
ChildIsReserved ==
  \A t \in Trees : journal[t].phase \notin Terminal =>
    \A f \in Files : child[t][f] # "none" =>
      f <= journal[t].prefix + Len(journal[t].active)

\* completed_files counts a prefix that is really there: every file behind
\* it is in the staging tree (or the tree is already final), through lost
\* answers, out-of-order completions and restarts, until the transfer itself
\* throws the staging tree away.
PrefixIsDelivered ==
  \A t \in Trees : (mem[t].phase \notin Terminal /\ mem[t].prefix > 0 /\ ~disk[t].thrown) =>
    /\ disk[t].staging \/ disk[t].final = "own"
    /\ \A f \in 1 .. mem[t].prefix : disk[t].files[f] # Absent

\* The shared budget is kept, and given back: no more permits are out than
\* there are, and a worker outside its window holds none.
BudgetKept ==
  /\ Held <= Permits
  /\ \A t \in Trees : pc[t] \notin {"fill", "poll"} => holds[t] = {}

\* The window of children is kept: recorded before it runs, counted only when
\* delivered, and within the shared budget.
WindowIsKept == ChildIsReserved /\ PrefixIsDelivered /\ BudgetKept

\* Every directory transfer that was started comes to an end.
TreeSettles ==
  \A t \in Trees : (up /\ mem[t].phase = "Preparing") ~>
                   (mem[t].phase \in Terminal \cup {"none"} /\ up)

\* What the budget test of the manager says: a child that has completed
\* gives its permit to the next one, whichever tree that belongs to.
PermitAdmitsTheNext ==
  \A t \in Trees, f \in Files :
    (child[t][f] = "completed" /\ f \in holds[t]) ~> (f \notin holds[t])

\* What the development notes say of a put interrupted while it is being
\* finalized: the restarted Controller finds the final state of the same
\* transfer on the Host, so a tree that is there is not reported as failed.
FinalizedPutIsFound ==
  \A t \in Trees : Put(t) /\ mem[t].phase = "Failed" => disk[t].final # "own"
=============================================================================
