----------------------------- MODULE ManagedFs -----------------------------
(***************************************************************************)
(* The Host's filesystem control requests: directories made, files copied  *)
(* and moved (all to one destination here, where they can collide), the    *)
(* system trash with its two-phase purge, and the managed temporary        *)
(* resources.  Every trash and temp request, the two lists included, loads *)
(* the whole ledger, works on the disk and on its copy, and writes the     *)
(* copy back; nothing is held in between, and mutation workers run         *)
(* concurrently.                                                           *)
(* A request is its number; that is also the id of the trash item or the   *)
(* resource it makes, and the confirmation token it issues.                *)
(***************************************************************************)
EXTENDS Naturals, FiniteSets

CONSTANTS FsWorkers,   \* mutation workers of the Host
          MaxRequests, \* requests the Controller sends (bound)
          MaxItems,    \* HARD_MAX_FS_CONTROL_ITEMS
          MaxClock     \* bound of the clock

VARIABLES fsLedger,    \* ledger.json
          fsBin,       \* the items of the system trash and what became of them
          fsDirs,      \* the resource directories under temp/
          fsDest,      \* the destination path: the request it comes from, and whether it is a directory
          fsLost,      \* history: the requests whose result at the destination was replaced
          fsJob,       \* the request each worker executes
          fsClock,
          fsNext,      \* requests sent so far
          fsExcused,   \* two requests have overlapped, or one did not end well
          fsPrepared,  \* history: every confirmation issued
          fsPurges     \* history: every purge, with its token and time

fsVars == <<fsLedger, fsBin, fsDirs, fsDest, fsLost, fsJob, fsClock, fsNext, fsExcused,
            fsPrepared, fsPurges>>

Requests == 1 .. MaxRequests
Times == 0 .. MaxClock
PurgeTtl == 1

Ledgers == [trash: SUBSET Requests,
            temp: SUBSET [id: Requests, until: Nat],
            purge: SUBSET [id: Requests, token: Requests, until: Nat]]

NoLedger == [trash |-> {}, temp |-> {}, purge |-> {}]

NoJob == [op |-> "none", id |-> 0, of |-> 0, token |-> 0, at |-> "idle",
          ledger |-> NoLedger]

Nothing == [by |-> 0, dir |-> FALSE]

TempIds(l) == {r.id : r \in l.temp}

FsInit ==
  /\ fsLedger = NoLedger
  /\ fsBin = [r \in Requests |-> "none"]
  /\ fsDirs = {}
  /\ fsDest = Nothing
  /\ fsLost = {}
  /\ fsJob = [w \in FsWorkers |-> NoJob]
  /\ fsClock = 0
  /\ fsNext = 1
  /\ fsExcused = FALSE
  /\ fsPrepared = {}
  /\ fsPurges = {}

Placing == {"CreateDirectory", "Copy", "Move"}
Fresh == {"Trash", "TrashList", "TempCreate", "TempList", "TempGc"} \cup Placing
Naming == {"TrashRestore", "TrashPurgePrepare", "TempRelease"}

\* The step a request starts with: a destination is probed, a trash target is
\* deleted, everything else begins with the ledger.
FirstStep(op) == CASE op \in Placing -> "probe" [] op = "Trash" -> "delete" [] OTHER -> "load"

\* A worker takes a request.  `of` names the item or resource it is about,
\* `token` what the caller believes the confirmation token to be.
Accept(w, op, of, token) ==
  /\ fsJob[w] = NoJob /\ fsNext <= MaxRequests
  /\ of < fsNext /\ token < fsNext
  /\ fsNext' = fsNext + 1
  /\ fsJob' = [fsJob EXCEPT ![w] =
                [NoJob EXCEPT !.op = op, !.id = fsNext, !.of = of, !.token = token,
                              !.at = FirstStep(op)]]
  /\ fsExcused' = (fsExcused \/ \E v \in FsWorkers : fsJob[v] # NoJob)
  /\ UNCHANGED <<fsLedger, fsBin, fsDirs, fsDest, fsLost, fsClock, fsPrepared, fsPurges>>

Ends(w) == fsJob' = [fsJob EXCEPT ![w] = NoJob]

\* The request is answered with an error; only a request that had already
\* changed the disk leaves something behind.
Fails(w, changed) == Ends(w) /\ fsExcused' = (fsExcused \/ changed)

(***************************************************************************)
(* prepare_new_target finds the destination free; what is made there comes *)
(* later.  create_dir still refuses an existing path; a copy or a move     *)
(* replaces a file that appeared in between, but not a directory.          *)
(***************************************************************************)
Probe(w) ==
  /\ fsJob[w].at = "probe"
  /\ \/ /\ fsDest = Nothing
        /\ fsJob' = [fsJob EXCEPT ![w].at = "place"] /\ UNCHANGED fsExcused
     \/ fsDest # Nothing /\ Fails(w, FALSE)
  /\ UNCHANGED <<fsLedger, fsBin, fsDirs, fsDest, fsLost, fsClock, fsNext, fsPrepared, fsPurges>>

CanPlace(op) == fsDest = Nothing \/ (op # "CreateDirectory" /\ ~fsDest.dir)

Place(w) ==
  LET j == fsJob[w] IN
  /\ j.at = "place"
  /\ \/ /\ CanPlace(j.op)
        /\ fsDest' = [by |-> j.id, dir |-> j.op = "CreateDirectory"]
        /\ fsLost' = fsLost \cup ({fsDest.by} \ {0})
     \/ ~CanPlace(j.op) /\ UNCHANGED <<fsDest, fsLost>>
  /\ Ends(w)
  /\ UNCHANGED <<fsLedger, fsBin, fsDirs, fsClock, fsNext, fsExcused, fsPrepared, fsPurges>>

(***************************************************************************)
(* trash_path moves the target before the ledger is even read.             *)
(***************************************************************************)
Delete(w) ==
  /\ fsJob[w].at = "delete"
  /\ fsBin' = [fsBin EXCEPT ![fsJob[w].id] = "binned"]
  /\ fsJob' = [fsJob EXCEPT ![w].at = "load"]
  /\ UNCHANGED <<fsLedger, fsDirs, fsDest, fsLost, fsClock, fsNext, fsExcused, fsPrepared, fsPurges>>

\* load_ledger refuses what exceeds the bound; no request enforces the bound
\* when it inserts.
Loadable(l) == /\ Cardinality(l.trash) <= MaxItems
               /\ Cardinality(l.temp) <= MaxItems
               /\ Cardinality(l.purge) <= MaxItems

Load(w) ==
  /\ fsJob[w].at = "load"
  /\ \/ /\ Loadable(fsLedger)
        /\ fsJob' = [fsJob EXCEPT ![w].at = "work", ![w].ledger = fsLedger]
        /\ UNCHANGED fsExcused
     \/ ~Loadable(fsLedger) /\ Fails(w, fsJob[w].op = "Trash")
  /\ UNCHANGED <<fsLedger, fsBin, fsDirs, fsDest, fsLost, fsClock, fsNext, fsPrepared, fsPurges>>

(***************************************************************************)
(* The work between load and save: `l` is the copy as it will be saved.    *)
(***************************************************************************)
Works(w, l) == /\ fsJob' = [fsJob EXCEPT ![w].at = "save", ![w].ledger = l]
               /\ UNCHANGED fsExcused

Insert(w) ==
  LET j == fsJob[w] IN
  /\ j.op = "Trash"
  /\ Works(w, [j.ledger EXCEPT !.trash = @ \cup {j.id}])
  /\ UNCHANGED <<fsBin, fsDirs, fsPrepared, fsPurges>>

List(w) == /\ fsJob[w].op \in {"TrashList", "TempList"}
           /\ Works(w, fsJob[w].ledger)
           /\ UNCHANGED <<fsBin, fsDirs, fsPrepared, fsPurges>>

\* mutant: a pending confirmation outlives its item
ForgetItem(l, id) == [l EXCEPT !.trash = @ \ {id}]
Forget(l, id) == [l EXCEPT !.trash = @ \ {id}, !.purge = {p \in @ : p.id # id}]

\* the system restores or purges only what it still finds in its trash
InSystemTrash(id) == fsBin[id] = "binned"

Restore(w) ==
  LET j == fsJob[w]
      ok == j.of \in j.ledger.trash /\ InSystemTrash(j.of)
  IN /\ j.op = "TrashRestore"
     /\ \/ /\ ok /\ fsBin' = [fsBin EXCEPT ![j.of] = "restored"]
           /\ Works(w, Forget(j.ledger, j.of))
        \/ ~ok /\ Fails(w, FALSE) /\ UNCHANGED fsBin
     /\ UNCHANGED <<fsDirs, fsPrepared, fsPurges>>

PurgePrepare(w) ==
  LET j == fsJob[w]
      pending == [id |-> j.of, token |-> j.id, until |-> fsClock + PurgeTtl]
  IN /\ j.op = "TrashPurgePrepare"
     /\ \/ /\ j.of \in j.ledger.trash
           /\ fsPrepared' = fsPrepared \cup {pending}
           /\ Works(w, [j.ledger EXCEPT !.purge = {p \in @ : p.id # j.of} \cup {pending}])
        \/ j.of \notin j.ledger.trash /\ Fails(w, FALSE) /\ UNCHANGED fsPrepared
     /\ UNCHANGED <<fsBin, fsDirs, fsPurges>>

\* mutant: the confirmation's age is not looked at
ConfirmsLate(p, j) == p.id = j.of /\ p.token = j.token
Confirms(p, j) == p.id = j.of /\ p.token = j.token /\ fsClock <= p.until

Confirmed(j) == \E p \in j.ledger.purge : Confirms(p, j)

PurgeConfirm(w) ==
  LET j == fsJob[w]
      ok == Confirmed(j) /\ j.of \in j.ledger.trash /\ InSystemTrash(j.of)
  IN /\ j.op = "TrashPurgeConfirm"
     /\ \/ /\ ok /\ fsBin' = [fsBin EXCEPT ![j.of] = "purged"]
           /\ fsPurges' = fsPurges \cup {[id |-> j.of, token |-> j.token, at |-> fsClock]}
           /\ Works(w, Forget(j.ledger, j.of))
        \/ ~ok /\ Fails(w, FALSE) /\ UNCHANGED <<fsBin, fsPurges>>
     /\ UNCHANGED <<fsDirs, fsPrepared>>

TempCreate(w) ==
  LET j == fsJob[w] IN
  /\ j.op = "TempCreate"
  /\ fsDirs' = fsDirs \cup {j.id}
  /\ Works(w, [j.ledger EXCEPT !.temp = @ \cup {[id |-> j.id, until |-> fsClock + 1]}])
  /\ UNCHANGED <<fsBin, fsPrepared, fsPurges>>

Drop(l, ids) == [l EXCEPT !.temp = {r \in @ : r.id \notin ids}]

\* remove_temp_resource does not mind a directory that is already gone
TempRelease(w) ==
  LET j == fsJob[w] IN
  /\ j.op = "TempRelease"
  /\ \/ /\ j.of \in TempIds(j.ledger)
        /\ fsDirs' = fsDirs \ {j.of}
        /\ Works(w, Drop(j.ledger, {j.of}))
     \/ j.of \notin TempIds(j.ledger) /\ Fails(w, FALSE) /\ UNCHANGED fsDirs
  /\ UNCHANGED <<fsBin, fsPrepared, fsPurges>>

TempGc(w) ==
  LET j == fsJob[w]
      expired == {r.id : r \in {r \in j.ledger.temp : r.until <= fsClock}}
  IN /\ j.op = "TempGc"
     /\ fsDirs' = fsDirs \ expired
     /\ Works(w, Drop(j.ledger, expired))
     /\ UNCHANGED <<fsBin, fsPrepared, fsPurges>>

Work(w) ==
  /\ fsJob[w].at = "work"
  /\ \/ Insert(w) \/ List(w) \/ Restore(w) \/ PurgePrepare(w) \/ PurgeConfirm(w)
     \/ TempCreate(w) \/ TempRelease(w) \/ TempGc(w)
  /\ UNCHANGED <<fsLedger, fsDest, fsLost, fsClock, fsNext>>

\* The copy replaces the file by one rename.
Save(w) ==
  /\ fsJob[w].at = "save"
  /\ fsLedger' = fsJob[w].ledger
  /\ Ends(w)
  /\ UNCHANGED <<fsBin, fsDirs, fsDest, fsLost, fsClock, fsNext, fsExcused, fsPrepared, fsPurges>>

\* the Host process dies in the middle
FsCrash ==
  /\ \E w \in FsWorkers : fsJob[w] # NoJob
  /\ fsJob' = [w \in FsWorkers |-> NoJob]
  /\ fsExcused' = TRUE
  /\ UNCHANGED <<fsLedger, fsBin, fsDirs, fsDest, fsLost, fsClock, fsNext, fsPrepared, fsPurges>>

FsTick == /\ fsClock < MaxClock
          /\ fsClock' = fsClock + 1
          /\ UNCHANGED <<fsLedger, fsBin, fsDirs, fsDest, fsLost, fsJob, fsNext, fsExcused, fsPrepared, fsPurges>>

FsNext == \/ \E w \in FsWorkers :
               \/ \E op \in Fresh : Accept(w, op, 0, 0)
               \/ \E op \in Naming, of \in Requests : Accept(w, op, of, 0)
               \/ \E of, token \in Requests : Accept(w, "TrashPurgeConfirm", of, token)
               \/ Probe(w) \/ Place(w) \/ Delete(w) \/ Load(w) \/ Work(w) \/ Save(w)
          \/ FsCrash
          \/ FsTick

FsSpec == FsInit /\ [][FsNext]_fsVars

-----------------------------------------------------------------------------
FsTypeOK ==
  /\ fsLedger \in Ledgers
  /\ fsBin \in [Requests -> {"none", "binned", "restored", "purged"}]
  /\ fsDirs \subseteq Requests /\ fsClock \in Times /\ fsExcused \in BOOLEAN

\* Nothing is destroyed by one call: a purge carries the token of an earlier
\* request that prepared it for this very item, not longer ago than the
\* confirmation lives, however stale the ledger copies were.
PurgeWasPrepared ==
  \A p \in fsPurges : \E q \in fsPrepared :
    q.id = p.id /\ q.token = p.token /\ p.at <= q.until

\* Requests that do not overlap and end well leave the ledger and the disk
\* in agreement: every recorded resource has its directory and every
\* directory its record, every recorded trash item is in the system trash,
\* no confirmation is pending for an item that is gone, and nothing that a
\* request put at the destination was replaced by another.
LedgerMirrorsDisk ==
  (~fsExcused /\ \A w \in FsWorkers : fsJob[w] = NoJob) =>
    /\ TempIds(fsLedger) = fsDirs
    /\ fsLedger.trash = {r \in Requests : fsBin[r] = "binned"}
    /\ \A p \in fsLedger.purge : p.id \in fsLedger.trash
    /\ fsLost = {}
=============================================================================
