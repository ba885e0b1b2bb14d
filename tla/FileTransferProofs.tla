-------------------------- MODULE FileTransferProofs --------------------------
(***************************************************************************)
(* Proofs about one file transfer, for every set of jobs, any number of    *)
(* chunks, sessions, edits, foreign files and faults.                      *)
(*                                                                         *)
(* The inductive invariant says which requests can be on their way for     *)
(* which direction and that only the last one is waited for; what the      *)
(* Host's entry, its journal and the part say of each other at every step  *)
(* of a request; and what an offset that a worker counts, or is about to   *)
(* be told, stands for on disk.                                            *)
(*                                                                         *)
(* A second one, DlInv, stands on the first and follows a claim of         *)
(* success: from the rename to the Host's entry, from there to an answer   *)
(* on its way, from the answer to the worker's terminal record. It needs   *)
(* files of at least one chunk: a foreign file is modelled as empty data,  *)
(* which a restart would take for a landed file of no chunks.              *)
(***************************************************************************)
EXTENDS FileTransfer, SequenceTheorems, TLAPS

(***************************************************************************)
(* Shapes.                                                                 *)
(***************************************************************************)
Words == {"none", "error", "notfound", "cancelled", "manifest", "chunk", "receiving", "ready",
          "completed", "putbegin", "putchunk", "status", "finalize", "getbegin", "getchunk", "cancel"}
Letter == [k : Words, off : Int, v : Int]
Packet == [req : Letter, ans : Letter, heard : BOOLEAN]

PutWords == {"putbegin", "putchunk", "status", "finalize", "cancel"}
GetWords == {"getbegin", "getchunk", "cancel"}
PutPcs == {"idle", "prepare", "persist", "begin", "wait", "cancel", "chunk", "resend", "rebegin",
           "finalize", "refinalize"}
GetPcs == {"idle", "recover", "persist", "getbegin", "cancel", "settle", "cleanup", "getchunk",
           "regetchunk", "land"}

PartOK(p) ==
  /\ DOMAIN p = {"there", "data", "ragged"} /\ p.data \in Seq(Int)
  /\ ~p.there => p.data = << >>

EntryOK(e, versions) ==
  /\ DOMAIN e = {"phase", "err", "off", "m", "kept"}
  /\ e.m \in Int /\ e.off \in Int
  /\ e.kept => e.m \in versions

(***************************************************************************)
(* The channel: what is asked fits the direction, only the first request   *)
(* is answered and only the last one is waited for.                        *)
(***************************************************************************)
PacketOK(x, kind, versions) ==
  /\ kind = "put" => x.req.k \in PutWords
  /\ kind = "get" => x.req.k \in GetWords
  /\ x.req.k = "putbegin" => x.req.v \in versions
  /\ x.ans.k = "manifest" => x.ans.v \in versions

ChanOK(c, sent, kind, versions) ==
  /\ c \in Seq(Packet)
  /\ \A i \in 1 .. Len(c) :
       /\ PacketOK(c[i], kind, versions)
       /\ c[i].ans # NoMsg => i = 1
       /\ c[i].heard => i = Len(c) /\ sent = "yes"

(***************************************************************************)
(* The worker.                                                             *)
(***************************************************************************)
WorkerOK(x, e, kind, versions) ==
  /\ DOMAIN x = {"pc", "why", "sent", "gen", "m", "off", "v"}
  /\ x.m \in Int /\ x.off \in Int /\ x.v \in Int
  /\ x.pc \in Local => x.sent = "no"
  /\ kind = "put" =>
       /\ x.pc \in PutPcs
       /\ x.pc \notin {"idle", "prepare", "persist", "cancel"} => x.m \in versions
  /\ kind = "get" =>
       /\ x.pc \in GetPcs
       /\ x.pc = "recover" => e.m \in versions
       /\ x.pc \in {"getchunk", "regetchunk", "land"} \/ (x.pc = "getbegin" /\ x.why # "fresh") =>
            x.m \in versions

(***************************************************************************)
(* The Host: its entry, its journal and the part.                          *)
(***************************************************************************)
HostPhases == {"none", "receiving", "ready", "completed"}
HostFields == {"up", "step", "phase", "m", "off", "last", "path", "get"}
JournalFields == {"phase", "m", "off", "path", "get", "tied"}

HostOK(h, c, p, land, kind, versions) ==
  /\ DOMAIN h = HostFields
  /\ h.phase \in HostPhases /\ h.m \in Int /\ h.off \in Int
  /\ h.path \in Names \cup {NoPath} /\ h.get \in {0} \cup versions
  /\ kind = "get" => h.phase = "none" /\ h.step = "idle"
  /\ Active(h.phase) => h.m \in versions
  /\ h.step \in {"idle", "begun", "named", "renamed", "unlinked"}
  /\ h.step # "idle" => c # << >> /\ c[1].ans = NoMsg
  /\ h.step = "begun" => c[1].req.k = "putbegin" /\ Active(h.phase)
  /\ h.step \in {"named", "renamed"} => h.phase = "ready" /\ h.path \in Names
  /\ h.step = "renamed" => land > 0
  /\ h.step = "unlinked" => c[1].req.k = "cancel" /\ h.phase = "none"
  /\ h.phase = "ready" /\ h.step # "renamed" => p.data = Whole(h.m)
  /\ Active(h.phase) /\ h.step # "renamed" => p.there /\ Len(p.data) >= h.off

JournalOK(j, h, kind, versions) ==
  /\ DOMAIN j = JournalFields
  /\ j.phase \in HostPhases /\ j.m \in Int /\ j.off \in Int
  /\ j.path \in Names \cup {NoPath} /\ j.get \in {0} \cup versions
  /\ kind = "get" => j.phase = "none"
  /\ Active(j.phase) => j.m \in versions
  /\ Active(h.phase) /\ h.step \in {"idle", "named"} => Active(j.phase) /\ j.tied

(***************************************************************************)
(* What a confirmed offset stands for.                                     *)
(***************************************************************************)
Held(p, j, h, land, n) ==
  \/ land > 0
  \/ /\ p.there /\ Len(p.data) >= n
     /\ Active(j.phase) /\ j.tied /\ (h.up => Active(h.phase))
PutCounts(x) == \/ x.pc \in {"chunk", "resend", "finalize", "refinalize"}
                \/ x.pc = "wait" /\ x.why \in {"chunk", "finalize"}
GetCounts(x) == \/ x.pc \in {"getchunk", "regetchunk"}
                \/ x.pc = "getbegin" /\ x.why # "fresh"

PutHeld(x, c, p, j, h, land) ==
  /\ PutCounts(x) =>
       /\ Held(p, j, h, land, x.off)
       /\ land > 0 \/ \A i \in 1 .. Len(c) : c[i].req.k \notin {"putbegin", "cancel"}
  /\ \A i \in 1 .. Len(c) : c[i].heard /\ Active(c[i].ans.k) => Held(p, j, h, land, c[i].ans.off)
GetHeld(x, p) == GetCounts(x) => p.there /\ Len(p.data) >= x.off

DestOK(d, versions) ==
  /\ DOMAIN d = Names
  /\ \A n \in Names : d[n].by = "us" => \E v \in versions : d[n].data = Whole(v)

FtInv ==
  /\ job \in Jobs /\ src \in Versions /\ landed \in Nat
  /\ PartOK(part)
  /\ EntryOK(entry, Versions) /\ EntryOK(ctlJournal, Versions)
  /\ ChanOK(chan, w.sent, Kind, Versions)
  /\ WorkerOK(w, entry, Kind, Versions)
  /\ HostOK(host, chan, part, landed, Kind, Versions)
  /\ JournalOK(hostJournal, host, Kind, Versions)
  /\ Kind = "put" => PutHeld(w, chan, part, hostJournal, host, landed)
  /\ Kind = "get" => GetHeld(w, part)
  /\ DestOK(dest, Versions) /\ ~clobbered

-----------------------------------------------------------------------------
\* A job has a direction and bounds.
LEMMA JobFacts ==
    ASSUME job \in Jobs
    PROVE  Kind \in {"put", "get"} /\ MaxEdits \in Nat /\ Versions \subseteq Int /\ 0 \notin Versions
<1>1. job \in Job
  BY HostFileAssumption
<1>2. Kind \in {"put", "get"} /\ MaxEdits \in Nat
  BY <1>1 DEF Job, Kind, MaxEdits
<1> QED  BY <1>2 DEF Versions

\* Nothing holds at first that could be wrong.
LEMMA FtInvInit == Init => FtInv
<1> SUFFICES ASSUME Init PROVE FtInv
  OBVIOUS
<1>1. /\ job \in Jobs /\ host = HostBlank /\ hostJournal = JournalBlank /\ chan = << >> /\ part = NoPart
      /\ dest = [n \in Names |-> Free] /\ src = 1 /\ landed = 0 /\ clobbered = FALSE
      /\ entry = NoEntry /\ ctlJournal = NoEntry /\ w = IdleWorker
  BY DEF Init, HostInit
<1>2. Kind \in {"put", "get"} /\ MaxEdits \in Nat /\ Versions \subseteq Int /\ 0 \notin Versions
  BY <1>1, JobFacts
<1>3. src \in Versions /\ landed \in Nat
  BY <1>1, <1>2 DEF Versions
<1>4. PartOK(part)
  BY <1>1 DEF PartOK, NoPart
<1>5. EntryOK(entry, Versions) /\ EntryOK(ctlJournal, Versions)
  BY <1>1 DEF EntryOK, NoEntry
<1>6. Len(chan) = 0 /\ chan \in Seq(Packet)
  BY <1>1
<1>7. ChanOK(chan, w.sent, Kind, Versions)
  BY <1>6 DEF ChanOK
<1>a. /\ DOMAIN IdleWorker = {"pc", "why", "sent", "gen", "m", "off", "v"}
      /\ IdleWorker.pc = "idle" /\ IdleWorker.sent = "no"
      /\ IdleWorker.m = 0 /\ IdleWorker.off = 0 /\ IdleWorker.v = 0
  BY DEF IdleWorker
<1>8. WorkerOK(w, entry, Kind, Versions)
  BY <1>1, <1>a DEF WorkerOK, PutPcs, GetPcs, Local
<1>9. HostOK(host, chan, part, landed, Kind, Versions)
  BY <1>1 DEF HostOK, HostBlank, HostFields, HostPhases, Active
<1>10. JournalOK(hostJournal, host, Kind, Versions)
  BY <1>1 DEF JournalOK, JournalBlank, HostBlank, JournalFields, HostPhases, Active
<1>11. PutHeld(w, chan, part, hostJournal, host, landed) /\ GetHeld(w, part)
  BY <1>1, <1>6, <1>a DEF PutHeld, GetHeld, PutCounts, GetCounts
<1>12. DestOK(dest, Versions)
  BY <1>1 DEF DestOK, Free
<1> QED
  BY <1>1, <1>3, <1>4, <1>5, <1>7, <1>8, <1>9, <1>10, <1>11, <1>12 DEF FtInv

\* The request that the Host is in the middle of stays the first one.
StepKept(c) ==
  host.step # "idle" => c # << >> /\ c[1].ans = NoMsg /\ c[1].req.k = chan[1].req.k

\* A step of the Controller, put together.
LEMMA CtlStep ==
    ASSUME FtInv, UNCHANGED <<job, src, host, hostJournal>>,
           ChanOK(chan', w'.sent, Kind, Versions), StepKept(chan'),
           PartOK(part'), Kind = "put" => part' = part /\ landed' = landed, landed' \in Nat,
           EntryOK(entry', Versions), EntryOK(ctlJournal', Versions),
           WorkerOK(w', entry', Kind, Versions),
           Kind = "put" => PutHeld(w', chan', part, hostJournal, host, landed),
           Kind = "get" => GetHeld(w', part'),
           DestOK(dest', Versions), ~clobbered'
    PROVE  FtInv'
<1>1. Versions' = Versions /\ Kind' = Kind
  BY DEF Versions, MaxEdits, Kind
<1>2. Kind \in {"put", "get"}
  BY JobFacts DEF FtInv
<1>3. HostOK(host, chan', part', landed', Kind, Versions)
  <2>1. HostOK(host, chan, part, landed, Kind, Versions)
    BY DEF FtInv
  <2>2. CASE Kind = "put"
    BY <2>1, <2>2 DEF HostOK, StepKept
  <2>3. CASE Kind = "get"
    BY <2>1, <2>3 DEF HostOK, Active
  <2> QED  BY <1>2, <2>2, <2>3
<1>4. JournalOK(hostJournal, host, Kind, Versions) /\ job \in Jobs /\ src \in Versions
  BY DEF FtInv
<1>5. Kind = "put" => PutHeld(w', chan', part', hostJournal, host, landed')
  OBVIOUS
<1> QED  BY <1>1, <1>3, <1>4, <1>5 DEF FtInv

WorkerShape(x) ==
  /\ DOMAIN x = {"pc", "why", "sent", "gen", "m", "off", "v"}
  /\ x.m \in Int /\ x.off \in Int /\ x.v \in Int

\* The fields of a worker that goes on.
Goes(n, pc) ==
  /\ WorkerShape(n) /\ n.pc = pc /\ n.sent = "no"
  /\ n.m = w.m /\ n.off = w.off /\ n.v = w.v /\ n.why = w.why

\* A worker goes on somewhere else.
LEMMA AtGoes ==
    ASSUME WorkerShape(w), NEW pc
    PROVE  Goes(At(pc), pc) /\ Goes([At(pc) EXCEPT !.gen = 0], pc)
BY DEF WorkerShape, Goes, At

\* A worker goes on for another reason.
LEMMA ForGoes ==
    ASSUME WorkerShape(w), NEW pc, NEW why
    PROVE  /\ WorkerShape(For(pc, why)) /\ For(pc, why).pc = pc /\ For(pc, why).sent = "no"
           /\ For(pc, why).why = why /\ For(pc, why).off = w.off /\ For(pc, why).m = w.m
BY DEF WorkerShape, For

\* Nobody waits for what is in c, and c asks nothing that chan does not ask.
Unheard(c) ==
  /\ c \in Seq(Packet)
  /\ \A i \in 1 .. Len(c) :
       /\ PacketOK(c[i], Kind, Versions) /\ (c[i].ans # NoMsg => i = 1) /\ ~c[i].heard
       /\ \E j \in 1 .. Len(chan) : c[i].req = chan[j].req

\* The channel, when the worker does not wait.
LEMMA NotWaiting ==
    ASSUME FtInv, w.sent # "yes"
    PROVE  Unheard(chan) /\ StepKept(chan)
<1>1. ChanOK(chan, w.sent, Kind, Versions) /\ HostOK(host, chan, part, landed, Kind, Versions)
  BY DEF FtInv
<1>2. Unheard(chan)
  BY <1>1 DEF ChanOK, Unheard
<1>3. StepKept(chan)
  BY <1>1 DEF HostOK, StepKept
<1> QED  BY <1>2, <1>3

\* Workers that count nothing.
Idles(x) == ~PutCounts(x) /\ ~GetCounts(x)

\* A step of the worker that leaves no request behind that it waits for.
LEMMA WorkerGoes ==
    ASSUME FtInv, UNCHANGED <<job, src, host, hostJournal>>, Unheard(chan'), StepKept(chan'),
           PartOK(part'), Kind = "put" => part' = part /\ landed' = landed, landed' \in Nat,
           EntryOK(entry', Versions), EntryOK(ctlJournal', Versions),
           WorkerOK(w', entry', Kind, Versions),
           Kind = "put" /\ PutCounts(w') => PutCounts(w) /\ w'.off = w.off,
           Kind = "get" => GetHeld(w', part'),
           DestOK(dest', Versions), ~clobbered'
    PROVE  FtInv'
<1>1. ChanOK(chan', w'.sent, Kind, Versions)
  BY DEF Unheard, ChanOK
<1>2. ASSUME Kind = "put" PROVE PutHeld(w', chan', part, hostJournal, host, landed)
  <2>1. PutHeld(w, chan, part, hostJournal, host, landed)
    BY <1>2 DEF FtInv
  <2>2. ASSUME PutCounts(w') PROVE /\ Held(part, hostJournal, host, landed, w'.off)
                                   /\ landed > 0 \/ \A i \in 1 .. Len(chan) : chan[i].req.k \notin {"putbegin", "cancel"}
    BY <1>2, <2>1, <2>2 DEF PutHeld
  <2>3. PutCounts(w') => landed > 0 \/ \A i \in 1 .. Len(chan') : chan'[i].req.k \notin {"putbegin", "cancel"}
    BY <2>2 DEF Unheard
  <2> QED  BY <2>2, <2>3 DEF PutHeld, Unheard
<1> QED  BY <1>1, <1>2, CtlStep

\* The worker that has nothing to do.
LEMMA IdleFields ==
    /\ WorkerShape(IdleWorker) /\ IdleWorker.pc = "idle" /\ IdleWorker.sent = "no"
    /\ IdleWorker.m = 0 /\ IdleWorker.off = 0
BY DEF IdleWorker, WorkerShape

Resting == {"idle", "persist", "cancel"}
\* A worker between two things, in either direction.
LEMMA RestingOK ==
    ASSUME NEW n, NEW e, WorkerShape(n), n.sent = "no",
           n.pc \in Resting \/ (Kind = "get" /\ n.pc \in {"settle", "cleanup"})
    PROVE  WorkerOK(n, e, Kind, Versions) /\ ~PutCounts(n) /\ ~GetCounts(n)
BY DEF Resting, WorkerOK, WorkerShape, PutCounts, GetCounts, PutPcs, GetPcs, Local

\* Everything about the worker's own state.
LEMMA OwnState ==
    ASSUME FtInv
    PROVE  /\ WorkerShape(w) /\ EntryOK(entry, Versions) /\ EntryOK(ctlJournal, Versions)
           /\ PartOK(part) /\ landed \in Nat /\ DestOK(dest, Versions) /\ ~clobbered
           /\ WorkerOK(w, entry, Kind, Versions) /\ Kind \in {"put", "get"}
           /\ src \in Versions /\ Versions \subseteq Int /\ PartOK(NoPart) /\ PartOK(NewPart)
<1>1. Kind \in {"put", "get"} /\ Versions \subseteq Int
  BY JobFacts DEF FtInv
<1>2. WorkerShape(w)
  BY DEF FtInv, WorkerOK, WorkerShape
<1>3. PartOK(NoPart) /\ PartOK(NewPart)
  BY DEF PartOK, NoPart, NewPart
<1> QED  BY <1>1, <1>2, <1>3 DEF FtInv

\* What a failed or cancelled worker leaves behind.
LEMMA Gives ==
    ASSUME FtInv, Fail \/ (CancelWorker /\ UNCHANGED entry)
    PROVE  /\ WorkerShape(w') /\ w'.sent = "no"
           /\ w'.pc \in Resting \/ (Kind = "get" /\ w'.pc \in {"settle", "cleanup"})
           /\ PartOK(part') /\ (Kind = "put" => part' = part)
           /\ EntryOK(entry', Versions) /\ entry'.m = entry.m
<1>0. /\ WorkerShape(w) /\ EntryOK(entry, Versions) /\ PartOK(part) /\ PartOK(NoPart)
      /\ Kind \in {"put", "get"}
  BY OwnState
<1>1. SetFailed(entry).m = entry.m /\ EntryOK(SetFailed(entry), Versions)
  BY <1>0 DEF SetFailed, EntryOK
<1>2. CASE CancelWorker /\ UNCHANGED entry
  <2>1. w' = [At("cancel") EXCEPT !.gen = 0] /\ (part' = part \/ (part' = NoPart /\ Kind = "get"))
    BY <1>2 DEF CancelWorker, GoTo
  <2>2. Goes(w', "cancel")
    BY <1>0, <2>1, AtGoes
  <2> QED  BY <1>0, <1>2, <2>1, <2>2 DEF Goes, Resting
<1>3. CASE Fail /\ Kind = "put"
  <2>1. w' = At("persist") /\ part' = part /\ entry' = SetFailed(entry)
    BY <1>3 DEF Fail, GoTo
  <2>2. Goes(w', "persist")
    BY <1>0, <2>1, AtGoes
  <2> QED  BY <1>0, <1>1, <2>1, <2>2 DEF Goes, Resting
<1>4. CASE Fail /\ Kind = "get"
  <2>1. w' = [At("cleanup") EXCEPT !.gen = 0] /\ part' \in {part, NoPart} /\ entry' = SetFailed(entry)
    BY <1>4 DEF Fail, GoTo
  <2>2. Goes(w', "cleanup")
    BY <1>0, <2>1, AtGoes
  <2> QED  BY <1>0, <1>1, <1>4, <2>1, <2>2 DEF Goes
<1> QED  BY <1>0, <1>2, <1>3, <1>4

Around == UNCHANGED <<job, src, host, hostJournal>>
Places == UNCHANGED <<dest, landed, clobbered>>

\* A worker that fails or is cancelled keeps the invariant.
LEMMA GivesUp ==
    ASSUME FtInv, Around, Places, Unheard(chan'), StepKept(chan'), EntryOK(ctlJournal', Versions),
           Fail \/ (CancelWorker /\ UNCHANGED entry)
    PROVE  FtInv'
<1>0. landed \in Nat /\ DestOK(dest, Versions) /\ ~clobbered
  BY OwnState
<1>1. /\ WorkerShape(w') /\ w'.sent = "no"
      /\ w'.pc \in Resting \/ (Kind = "get" /\ w'.pc \in {"settle", "cleanup"})
      /\ PartOK(part') /\ (Kind = "put" => part' = part)
      /\ EntryOK(entry', Versions)
  BY Gives
<1>2. WorkerOK(w', entry', Kind, Versions) /\ ~PutCounts(w') /\ ~GetCounts(w')
  BY <1>1, RestingOK
<1>3. GetHeld(w', part')
  BY <1>2 DEF GetHeld
<1> QED  BY <1>0, <1>1, <1>2, <1>3, WorkerGoes DEF Around, Places

\* The local API calls, another transfer's journal write, and a worker's last line.
LEMMA FtCalls ==
    ASSUME FtInv, StartPut \/ StartGet \/ CancelMarks \/ CancelSignals \/ OtherJournals \/ PersistLast
    PROVE  FtInv'
<1>0. /\ WorkerShape(w) /\ EntryOK(entry, Versions) /\ EntryOK(ctlJournal, Versions)
      /\ PartOK(part) /\ landed \in Nat /\ DestOK(dest, Versions) /\ ~clobbered
      /\ WorkerOK(w, entry, Kind, Versions) /\ Kind \in {"put", "get"}
  BY OwnState
<1>1. UNCHANGED <<job, src, host, hostJournal, chan, part, dest, landed, clobbered>>
  BY DEF StartPut, StartGet, Started, CancelMarks, CancelSignals, OtherJournals, PersistLast,
         NoChannel, NoFiles, Outside
<1>2. CASE w' = w /\ entry'.m = entry.m /\ EntryOK(entry', Versions) /\ EntryOK(ctlJournal', Versions)
  <2>1. WorkerOK(w', entry', Kind, Versions)
    BY <1>0, <1>2 DEF WorkerOK
  <2>2. ChanOK(chan', w'.sent, Kind, Versions) /\ StepKept(chan')
    BY <1>1, <1>2 DEF FtInv, StepKept, HostOK
  <2> QED  BY <1>0, <1>1, <1>2, <2>1, <2>2, CtlStep DEF FtInv
<1>3. CASE CancelMarks
  BY <1>0, <1>2, <1>3 DEF CancelMarks, EntryOK
<1>4. CASE CancelSignals \/ OtherJournals
  BY <1>0, <1>2, <1>4 DEF CancelSignals, OtherJournals, CtlPersistOk, CtlPersistFails
<1>5. CASE PersistLast
  <2>1. w.sent = "no"
    BY <1>0, <1>5 DEF PersistLast, WorkerOK, Local
  <2>2. Unheard(chan') /\ StepKept(chan')
    BY <1>1, <2>1, NotWaiting DEF Unheard, StepKept
  <2>3. w' = IdleWorker /\ EntryOK(entry', Versions) /\ EntryOK(ctlJournal', Versions)
    BY <1>0, <1>5 DEF PersistLast, GoTo, EntryOK, CtlPersistOk, CtlPersistFails
  <2>4. WorkerOK(w', entry', Kind, Versions) /\ ~PutCounts(w') /\ ~GetCounts(w')
    BY <2>3, IdleFields, RestingOK DEF Resting
  <2> QED  BY <1>0, <1>1, <2>2, <2>3, <2>4, WorkerGoes DEF GetHeld
<1>6. ASSUME NEW x, Started(x), WorkerOK(x, entry', Kind, Versions), ~PutCounts(x), ~GetCounts(x)
      PROVE  FtInv'
  <2> DEFINE e == [NoEntry EXCEPT !.phase = "Preparing"]
  <2>1. EntryOK(e, Versions)
    BY DEF EntryOK, NoEntry
  <2>2. w = IdleWorker /\ \/ ctlJournal' = e /\ entry' = e /\ w' = x
                          \/ ctlJournal' \in {ctlJournal, e} /\ entry' = entry /\ w' = w
    BY <1>6 DEF Started, CtlPersistOk, CtlPersistFails
  <2> HIDE DEF e
  <2>3. CASE entry' = entry /\ w' = w
    BY <1>0, <1>2, <2>1, <2>2, <2>3
  <2>4. CASE ctlJournal' = e /\ entry' = e /\ w' = x
    <3>1. Unheard(chan') /\ StepKept(chan')
      BY <1>1, <2>2, IdleFields, NotWaiting DEF Unheard, StepKept
    <3> QED  BY <1>0, <1>1, <1>6, <2>1, <2>4, <3>1, WorkerGoes DEF GetHeld
  <2> QED  BY <2>2, <2>3, <2>4
<1>7. CASE StartPut
  <2>1. Goes(At("prepare"), "prepare")
    BY <1>0, AtGoes
  <2>2. Kind = "put" /\ Started(At("prepare"))
    BY <1>7 DEF StartPut
  <2>3. WorkerOK(At("prepare"), entry', Kind, Versions) /\ ~PutCounts(At("prepare")) /\ ~GetCounts(At("prepare"))
    BY <2>1, <2>2 DEF Goes, WorkerShape, WorkerOK, PutPcs, PutCounts, GetCounts
  <2> QED  BY <1>6, <2>2, <2>3
<1>8. CASE StartGet
  <2> DEFINE x == For("getbegin", "fresh")
  <2>1. WorkerShape(x) /\ x.pc = "getbegin" /\ x.sent = "no" /\ x.why = "fresh"
    BY <1>0, ForGoes
  <2>2. Kind = "get" /\ Started(x)
    BY <1>8 DEF StartGet
  <2> HIDE DEF x
  <2>3. WorkerOK(x, entry', Kind, Versions) /\ ~PutCounts(x) /\ ~GetCounts(x)
    BY <2>1, <2>2 DEF WorkerShape, WorkerOK, GetPcs, PutCounts, GetCounts
  <2> QED  BY <1>6, <2>2, <2>3
<1> QED  BY <1>3, <1>4, <1>5, <1>7, <1>8

\* A worker that does not wait for the channel leaves it alone.
LEMMA LocalStep ==
    ASSUME FtInv, w.pc \in Local, UNCHANGED chan
    PROVE  Unheard(chan') /\ StepKept(chan')
<1>1. w.sent = "no"
  BY OwnState DEF WorkerOK
<1> QED  BY <1>1, NotWaiting DEF Unheard, StepKept

\* The source is hashed.
LEMMA FtPrepareSource == ASSUME FtInv, PrepareSource PROVE FtInv'
<1>0. /\ WorkerShape(w) /\ EntryOK(entry, Versions) /\ EntryOK(ctlJournal, Versions)
      /\ PartOK(part) /\ landed \in Nat /\ DestOK(dest, Versions) /\ ~clobbered
      /\ WorkerOK(w, entry, Kind, Versions) /\ Kind \in {"put", "get"}
      /\ src \in Versions /\ Versions \subseteq Int
  BY OwnState
<1>1. w.pc = "prepare" /\ UNCHANGED <<job, src, host, hostJournal, chan, dest, landed, clobbered, ctlJournal>>
  BY DEF PrepareSource, NoChannel, Outside
<1>2. Kind = "put"
  BY <1>0, <1>1 DEF WorkerOK, GetPcs
<1>3. Unheard(chan') /\ StepKept(chan')
  BY <1>1, LocalStep DEF Local
<1>4. CASE Fail \/ (CancelWorker /\ UNCHANGED entry)
  BY <1>0, <1>1, <1>3, <1>4, GivesUp DEF Around, Places
<1>5. CASE entry' = [entry EXCEPT !.phase = "Running", !.m = src]
           /\ \/ w' = [At("begin") EXCEPT !.m = src, !.gen = 0] /\ UNCHANGED part
              \/ CancelWorker
  <2>1. EntryOK(entry', Versions)
    BY <1>0, <1>5 DEF EntryOK
  <2>2. CASE CancelWorker
    <3>1. w' = [At("cancel") EXCEPT !.gen = 0] /\ part' = part
      BY <1>2, <2>2 DEF CancelWorker, GoTo
    <3>2. Goes(w', "cancel")
      BY <1>0, <3>1, AtGoes
    <3>3. WorkerOK(w', entry', Kind, Versions) /\ ~PutCounts(w') /\ ~GetCounts(w')
      BY <3>2, RestingOK DEF Goes, Resting
    <3> QED  BY <1>0, <1>1, <1>3, <2>1, <3>1, <3>3, WorkerGoes DEF GetHeld
  <2>3. CASE w' = [At("begin") EXCEPT !.m = src, !.gen = 0] /\ UNCHANGED part
    <3>1. WorkerShape(w') /\ w'.pc = "begin" /\ w'.sent = "no" /\ w'.m = src
      BY <1>0, <2>3 DEF WorkerShape, At
    <3>2. WorkerOK(w', entry', Kind, Versions) /\ ~PutCounts(w') /\ ~GetCounts(w')
      BY <1>0, <1>2, <3>1 DEF WorkerOK, WorkerShape, PutPcs, Local, PutCounts, GetCounts
    <3> QED  BY <1>0, <1>1, <1>3, <2>1, <2>3, <3>2, WorkerGoes DEF GetHeld
  <2> QED  BY <1>5, <2>2, <2>3
<1> QED  BY <1>4, <1>5 DEF PrepareSource, GoTo

\* The part of an interrupted get is taken up again.
LEMMA FtRecoverPart == ASSUME FtInv, RecoverPart PROVE FtInv'
<1>0. /\ WorkerShape(w) /\ EntryOK(entry, Versions) /\ EntryOK(ctlJournal, Versions)
      /\ PartOK(part) /\ landed \in Nat /\ DestOK(dest, Versions) /\ ~clobbered
      /\ WorkerOK(w, entry, Kind, Versions) /\ Kind \in {"put", "get"} /\ PartOK(NewPart)
  BY OwnState
<1>1. w.pc = "recover" /\ UNCHANGED <<job, src, host, hostJournal, chan, dest, landed, clobbered>>
  BY DEF RecoverPart, NoChannel, Outside
<1>2. Kind = "get" /\ entry.m \in Versions
  BY <1>0, <1>1 DEF WorkerOK, PutPcs
<1>3. Unheard(chan') /\ StepKept(chan')
  BY <1>1, LocalStep DEF Local
<1>4. CASE Fail /\ UNCHANGED ctlJournal
  BY <1>0, <1>1, <1>3, <1>4, GivesUp DEF Around, Places
<1>5. CASE LET e == [entry EXCEPT !.off = Len(part.data), !.phase = "Waiting", !.err = FALSE]
           IN  /\ entry' = e /\ CtlPersistOk(e)
               /\ part' = IF part.there THEN part ELSE NewPart
               /\ GoTo([For("getbegin", "resume") EXCEPT !.off = e.off, !.m = e.m])
  <2> DEFINE e == [entry EXCEPT !.off = Len(part.data), !.phase = "Waiting", !.err = FALSE]
             x == [For("getbegin", "resume") EXCEPT !.off = e.off, !.m = e.m]
  <2>1. entry' = e /\ ctlJournal' = e /\ w' = x /\ part' = IF part.there THEN part ELSE NewPart
    BY <1>5 DEF CtlPersistOk, GoTo
  <2>2. Len(part.data) \in Int
    BY <1>0 DEF PartOK
  <2>3. EntryOK(e, Versions) /\ e.off = Len(part.data) /\ e.m = entry.m
    BY <1>0, <2>2 DEF EntryOK
  <2> HIDE DEF e
  <2>4. /\ WorkerShape(x) /\ x.pc = "getbegin" /\ x.sent = "no" /\ x.why = "resume"
        /\ x.off = Len(part.data) /\ x.m = entry.m
    BY <1>0, <2>2, <2>3 DEF WorkerShape, For, EntryOK
  <2> HIDE DEF x
  <2>5. WorkerOK(w', entry', Kind, Versions)
    BY <1>2, <2>1, <2>4 DEF WorkerOK, WorkerShape, GetPcs, Local
  <2>6. PartOK(part') /\ part'.there /\ Len(part'.data) = Len(part.data)
    BY <1>0, <2>1 DEF PartOK, NewPart
  <2>7. GetHeld(w', part')
    BY <2>1, <2>2, <2>4, <2>6 DEF GetHeld
  <2> QED  BY <1>0, <1>1, <1>2, <1>3, <2>1, <2>3, <2>5, <2>6, <2>7, WorkerGoes
<1> QED  BY <1>4, <1>5 DEF RecoverPart

\* A get is renamed into place, or refused.
LEMMA FtGetLands == ASSUME FtInv, GetLands \/ GetRefused PROVE FtInv'
<1>0. /\ WorkerShape(w) /\ EntryOK(entry, Versions) /\ EntryOK(ctlJournal, Versions)
      /\ PartOK(part) /\ landed \in Nat /\ DestOK(dest, Versions) /\ ~clobbered
      /\ WorkerOK(w, entry, Kind, Versions) /\ Kind \in {"put", "get"} /\ PartOK(NoPart)
  BY OwnState
<1>1. w.pc = "land" /\ UNCHANGED <<job, src, host, hostJournal, chan, ctlJournal>>
  BY DEF GetLands, GetRefused, NoChannel, Outside
<1>2. Kind = "get" /\ w.m \in Versions
  BY <1>0, <1>1 DEF WorkerOK, PutPcs
<1>3. Unheard(chan') /\ StepKept(chan')
  BY <1>1, LocalStep DEF Local
<1>4. CASE GetRefused
  BY <1>0, <1>1, <1>3, <1>4, GivesUp DEF Around, Places, GetRefused
<1>5. CASE GetLands
  <2>1. part.data = Whole(w.m) /\ part' = NoPart /\ landed' = landed + 1
    BY <1>5 DEF GetLands
  <2>2. PICK n \in GetTarget :
        /\ ~Occupied(n)
        /\ dest' = [dest EXCEPT ![n] = [by |-> "us", data |-> part.data]]
        /\ clobbered' = (clobbered \/ (dest[n].by = "other" /\ Policy # "replace"))
    BY <1>5 DEF GetLands
  <2>3. n \in Names
    BY <2>2 DEF GetTarget, FreeNames, Names
  <2>4. ~clobbered'
    BY <1>0, <2>2 DEF Occupied
  <2>5. DestOK(dest', Versions)
    <3> DEFINE f == [by |-> "us", data |-> part.data]
    <3>1. f.data = Whole(w.m)
      BY <2>1
    <3> HIDE DEF f
    <3>2. dest' = [dest EXCEPT ![n] = f]
      BY <2>2 DEF f
    <3> QED  BY <1>0, <1>2, <2>3, <3>1, <3>2 DEF DestOK
  <2>6. /\ EntryOK(entry', Versions)
        /\ w' = [At("settle") EXCEPT !.gen = 0] \/ w' = [At("cleanup") EXCEPT !.gen = 0]
    <3>1. EntryOK(SetFailed(entry), Versions)
      BY <1>0 DEF EntryOK, SetFailed
    <3>2. EntryOK([entry EXCEPT !.phase = "Completed", !.off = Total, !.err = FALSE, !.kept = FALSE], Versions)
      BY <1>0, HostFileAssumption DEF EntryOK
    <3> QED  BY <1>5, <3>1, <3>2, Zenon DEF GetLands, GoTo
  <2>7. Goes(w', "settle") \/ Goes(w', "cleanup")
    BY <1>0, <2>6, AtGoes
  <2>8. WorkerOK(w', entry', Kind, Versions) /\ ~PutCounts(w') /\ ~GetCounts(w')
    BY <1>2, <2>7, RestingOK DEF Goes
  <2> QED  BY <1>0, <1>1, <1>2, <1>3, <2>1, <2>4, <2>5, <2>6, <2>8, WorkerGoes DEF GetHeld
<1> QED  BY <1>4, <1>5

\* A request has the words of its direction.
LEMMA RequestOK ==
    ASSUME FtInv, w.pc \notin Local
    PROVE  /\ Request \in Letter
           /\ Kind = "put" => Request.k \in PutWords
           /\ Kind = "get" => Request.k \in GetWords
           /\ Request.k = "putbegin" => Request.v \in Versions
           /\ PutCounts(w) => Request.k \notin {"putbegin", "cancel"}
<1>0. WorkerShape(w) /\ WorkerOK(w, entry, Kind, Versions) /\ Kind \in {"put", "get"} /\ src \in Int
  BY OwnState
<1>1. w.pc \in PutPcs \cup GetPcs /\ w.pc \notin Local
  BY <1>0 DEF WorkerOK
<1>2. CASE w.pc \in {"begin", "rebegin"}
  <2>1. Kind = "put" /\ w.m \in Versions
    BY <1>0, <1>2 DEF WorkerOK, GetPcs
  <2>2. Request = Msg("putbegin", 0, w.m)
    BY <1>2 DEF Request
  <2> QED  BY <1>0, <1>2, <2>1, <2>2 DEF Msg, Letter, Words, WorkerShape, PutWords, PutCounts
<1>3. CASE w.pc \in {"chunk", "resend", "finalize", "refinalize", "wait"}
  <2>1. Kind = "put"
    BY <1>0, <1>3 DEF WorkerOK, GetPcs
  <2>2. Request \in {Msg("putchunk", w.off, src), Msg("putchunk", w.off, w.v), Msg("status", 0, 0),
                     Msg("finalize", 0, 0)}
    BY <1>3 DEF Request
  <2> QED  BY <1>0, <2>1, <2>2 DEF Msg, Letter, Words, WorkerShape, PutWords
<1>4. CASE w.pc \in {"getbegin", "getchunk", "regetchunk"}
  <2>1. Kind = "get"
    BY <1>0, <1>4 DEF WorkerOK, PutPcs
  <2>2. Request \in {Msg("getbegin", 0, 0), Msg("getchunk", w.off, 0)}
    BY <1>4 DEF Request
  <2> QED  BY <1>0, <2>1, <2>2 DEF Msg, Letter, Words, WorkerShape, GetWords
<1>5. CASE w.pc \in {"cancel", "settle", "cleanup"}
  <2>1. Request = Msg("cancel", 0, 0)
    BY <1>5 DEF Request
  <2> QED  BY <1>0, <1>5, <2>1 DEF Msg, Letter, Words, PutWords, GetWords, PutCounts
<1> QED  BY <1>1, <1>2, <1>3, <1>4, <1>5 DEF PutPcs, GetPcs, Local

\* The worker sends a request and waits for it.
LEMMA FtSend == ASSUME FtInv, Send PROVE FtInv'
<1>0. /\ WorkerShape(w) /\ EntryOK(entry, Versions) /\ EntryOK(ctlJournal, Versions)
      /\ PartOK(part) /\ landed \in Nat /\ DestOK(dest, Versions) /\ ~clobbered
      /\ WorkerOK(w, entry, Kind, Versions) /\ Kind \in {"put", "get"} /\ src \in Int
  BY OwnState
<1> DEFINE x == [req |-> Request, ans |-> NoMsg, heard |-> TRUE]
           n == [w EXCEPT !.sent = "yes", !.gen = gen, !.v = IF w.pc = "chunk" THEN src ELSE w.v]
<1>1. /\ w.sent = "no" /\ w.pc \notin Local /\ chan' = Append(chan, x) /\ w' = n
      /\ UNCHANGED <<job, src, host, hostJournal, entry, ctlJournal, part, dest, landed, clobbered>>
  BY DEF Send, NoFiles, Outside, Local, AnySession, OneSession
<1>2. /\ WorkerShape(n) /\ n.sent = "yes" /\ n.pc = w.pc /\ n.why = w.why /\ n.m = w.m /\ n.off = w.off
  BY <1>0 DEF WorkerShape
<1>3. /\ Request \in Letter
      /\ Kind = "put" => Request.k \in PutWords
      /\ Kind = "get" => Request.k \in GetWords
      /\ Request.k = "putbegin" => Request.v \in Versions
      /\ PutCounts(w) => Request.k \notin {"putbegin", "cancel"}
  BY <1>1, RequestOK
<1>4. NoMsg \in Letter /\ NoMsg.k = "none"
  BY DEF NoMsg, Msg, Letter, Words
<1>5. x.req = Request /\ x.ans = NoMsg /\ x.heard /\ x \in Packet
  BY <1>3, <1>4 DEF Packet
<1> HIDE DEF x, n
<1>6. Unheard(chan) /\ StepKept(chan)
  BY <1>1, NotWaiting
<1>7. /\ chan \in Seq(Packet) /\ Len(chan) \in Nat /\ chan' \in Seq(Packet)
      /\ Len(chan') = Len(chan) + 1 /\ chan'[Len(chan')] = x
      /\ \A i \in 1 .. Len(chan) : chan'[i] = chan[i]
      /\ \A i \in 1 .. Len(chan') : i \in 1 .. Len(chan) \/ i = Len(chan')
  BY <1>1, <1>5, <1>6 DEF Unheard
<1>8. PacketOK(x, Kind, Versions)
  BY <1>3, <1>4, <1>5 DEF PacketOK
<1>9. ChanOK(chan', w'.sent, Kind, Versions)
  BY SMTT(30), <1>1, <1>2, <1>5, <1>6, <1>7, <1>8 DEF ChanOK, Unheard
<1>10. StepKept(chan')
  <2>1. ASSUME chan # << >> PROVE 1 \in 1 .. Len(chan) /\ chan' # << >> /\ chan'[1] = chan[1]
    BY <1>7, <2>1
  <2> QED  BY <1>6, <2>1 DEF StepKept
<1>11. WorkerOK(w', entry', Kind, Versions)
  BY <1>0, <1>1, <1>2 DEF WorkerOK, WorkerShape
<1>12. ASSUME Kind = "put" PROVE PutHeld(w', chan', part, hostJournal, host, landed)
  <2>1. PutHeld(w, chan, part, hostJournal, host, landed)
    BY <1>12 DEF FtInv
  <2>2. PutCounts(w') => PutCounts(w)
    BY <1>1, <1>2 DEF PutCounts
  <2>3. \A i \in 1 .. Len(chan') : chan'[i].heard => chan'[i].ans.k = "none"
    BY <1>4, <1>5, <1>6, <1>7 DEF Unheard
  <2>4. \A i \in 1 .. Len(chan') :
           PutCounts(w) => \/ i \in 1 .. Len(chan) /\ chan'[i] = chan[i]
                           \/ chan'[i].req.k \notin {"putbegin", "cancel"}
    BY <1>3, <1>5, <1>7
  <2> QED  BY <1>1, <1>2, <2>1, <2>2, <2>3, <2>4 DEF PutHeld, Active
<1>13. ASSUME Kind = "get" PROVE GetHeld(w', part')
  BY <1>1, <1>2, <1>13 DEF FtInv, GetHeld, GetCounts
<1> QED  BY <1>0, <1>1, <1>9, <1>10, <1>11, <1>12, <1>13, CtlStep

\* A request for a session that is gone is lost at once.
LEMMA FtSendTooLate == ASSUME FtInv, SendTooLate PROVE FtInv'
<1>0. /\ WorkerShape(w) /\ EntryOK(entry, Versions) /\ EntryOK(ctlJournal, Versions)
      /\ PartOK(part) /\ landed \in Nat /\ DestOK(dest, Versions) /\ ~clobbered
      /\ WorkerOK(w, entry, Kind, Versions) /\ Kind \in {"put", "get"} /\ src \in Int
  BY OwnState
<1> DEFINE n == [w EXCEPT !.sent = "lost", !.v = IF w.pc = "chunk" THEN src ELSE w.v]
<1>1. /\ w.sent = "no" /\ w.pc \notin Local /\ w' = n
      /\ UNCHANGED <<job, src, host, hostJournal, chan, entry, ctlJournal, part, dest, landed, clobbered>>
  BY DEF SendTooLate, NoFiles, NoChannel, Outside, Local, OneSession
<1>2. /\ WorkerShape(n) /\ n.pc = w.pc /\ n.why = w.why /\ n.m = w.m /\ n.off = w.off
  BY <1>0 DEF WorkerShape
<1> HIDE DEF n
<1>3. Unheard(chan') /\ StepKept(chan')
  BY <1>1, NotWaiting DEF Unheard, StepKept
<1>4. WorkerOK(w', entry', Kind, Versions)
  BY <1>0, <1>1, <1>2 DEF WorkerOK, WorkerShape
<1>5. ASSUME Kind = "get" PROVE GetHeld(w', part')
  BY <1>1, <1>2, <1>5 DEF FtInv, GetHeld, GetCounts
<1>6. PutCounts(w') => PutCounts(w) /\ w'.off = w.off
  BY <1>1, <1>2 DEF PutCounts
<1> QED  BY <1>0, <1>1, <1>3, <1>4, <1>5, <1>6, WorkerGoes

\* Nobody waits for what the channel still holds.
LEMMA DeafUnheard == ASSUME FtInv PROVE Unheard(Deaf) /\ StepKept(Deaf)
<1>1. ChanOK(chan, w.sent, Kind, Versions) /\ HostOK(host, chan, part, landed, Kind, Versions)
  BY DEF FtInv
<1>2. chan \in Seq(Packet) /\ Len(chan) \in Nat /\ DOMAIN chan = 1 .. Len(chan)
  BY <1>1 DEF ChanOK
<1>3. \A i \in 1 .. Len(chan) : /\ Deaf[i].req = chan[i].req /\ Deaf[i].ans = chan[i].ans
                                /\ Deaf[i].heard = FALSE /\ Deaf[i] \in Packet
  <2>1. ASSUME NEW i \in 1 .. Len(chan), NEW y \in Packet, NEW z, z = [y EXCEPT !.heard = FALSE]
        PROVE  z.req = y.req /\ z.ans = y.ans /\ z.heard = FALSE /\ z \in Packet
    BY <2>1 DEF Packet
  <2>2. \A i \in 1 .. Len(chan) : Deaf[i] = [chan[i] EXCEPT !.heard = FALSE] /\ chan[i] \in Packet
    BY <1>2 DEF Deaf
  <2> QED  BY ZenonT(60), <2>1, <2>2
<1>4. Deaf \in Seq(Packet) /\ Len(Deaf) = Len(chan)
  <2>1. DOMAIN Deaf = 1 .. Len(chan) /\ Deaf = [i \in 1 .. Len(chan) |-> Deaf[i]]
    BY <1>2 DEF Deaf
  <2> HIDE DEF Deaf
  <2> QED  BY <1>2, <1>3, <2>1
<1>5. Unheard(Deaf)
  <2>1. \A i \in 1 .. Len(chan) : PacketOK(chan[i], Kind, Versions) => PacketOK(Deaf[i], Kind, Versions)
    BY <1>3 DEF PacketOK
  <2> HIDE DEF Deaf
  <2> QED  BY <1>1, <1>3, <1>4, <2>1 DEF ChanOK, Unheard
<1>6. StepKept(Deaf)
  <2>1. ASSUME chan # << >> PROVE 1 \in 1 .. Len(chan) /\ Deaf # << >>
    BY <1>2, <1>4, <2>1
  <2> QED  BY <1>1, <1>3, <2>1 DEF HostOK, StepKept
<1> QED  BY <1>5, <1>6

\* confirm_remote_cancel comes back, one way or the other.
LEMMA FtConfirmed ==
    ASSUME FtInv, Around, Places, UNCHANGED <<part, ctlJournal>>, Unheard(chan'), StepKept(chan'),
           NEW yes \in BOOLEAN, w.pc \in {"cancel", "settle", "cleanup"}, Confirmed(yes)
    PROVE  FtInv'
<1>0. /\ WorkerShape(w) /\ EntryOK(entry, Versions) /\ EntryOK(ctlJournal, Versions)
      /\ PartOK(part) /\ landed \in Nat /\ DestOK(dest, Versions) /\ ~clobbered
  BY OwnState
<1>1. Goes(w', "persist")
  BY <1>0, AtGoes DEF Confirmed, GoTo
<1>2. EntryOK(entry', Versions)
  <2>1. \/ entry' = [entry EXCEPT !.phase = "Cancelled", !.err = ~yes, !.kept = FALSE]
        \/ entry' = [entry EXCEPT !.err = entry.err \/ ~yes]
        \/ entry' = [entry EXCEPT !.kept = FALSE]
    BY DEF Confirmed
  <2> QED  BY <1>0, <2>1 DEF EntryOK
<1>3. WorkerOK(w', entry', Kind, Versions) /\ ~PutCounts(w') /\ ~GetCounts(w')
  BY <1>1, RestingOK DEF Goes, Resting
<1> QED  BY <1>0, <1>2, <1>3, WorkerGoes DEF GetHeld, Around, Places

\* A cancel is seen, or has waited long enough.
LEMMA FtSignals == ASSUME FtInv, SeeSignal \/ CancelTimesOut PROVE FtInv'
<1>1. chan' = Deaf /\ UNCHANGED <<job, src, host, hostJournal, ctlJournal, dest, landed, clobbered>>
  BY DEF SeeSignal, CancelTimesOut, NoFiles, Outside
<1>2. Unheard(chan') /\ StepKept(chan')
  BY <1>1, DeafUnheard
<1>3. EntryOK(ctlJournal', Versions)
  BY <1>1, OwnState
<1>4. CASE SeeSignal
  BY <1>1, <1>2, <1>3, <1>4, GivesUp DEF SeeSignal, Around, Places
<1>5. CASE CancelTimesOut
  BY <1>1, <1>2, <1>3, <1>5, FtConfirmed DEF CancelTimesOut, Around, Places, NoFiles
<1> QED  BY <1>4, <1>5

\* The worker learns that its session is gone.
LEMMA FtLost == ASSUME FtInv, Lost PROVE FtInv'
<1>0. /\ WorkerShape(w) /\ EntryOK(entry, Versions) /\ EntryOK(ctlJournal, Versions)
      /\ PartOK(part) /\ landed \in Nat /\ DestOK(dest, Versions) /\ ~clobbered
      /\ WorkerOK(w, entry, Kind, Versions) /\ Kind \in {"put", "get"}
  BY OwnState
<1>1. /\ w.sent = "lost"
      /\ UNCHANGED <<job, src, host, hostJournal, chan, ctlJournal, dest, landed, clobbered>>
  BY DEF Lost, NoChannel, Outside
<1>2. Unheard(chan') /\ StepKept(chan')
  BY <1>1, NotWaiting DEF Unheard, StepKept
<1>3. CASE Fail
  BY <1>0, <1>1, <1>2, <1>3, GivesUp DEF Around, Places
<1>4. CASE w.pc \in {"cancel", "settle", "cleanup"} /\ Confirmed(FALSE) /\ UNCHANGED part
  BY <1>0, <1>1, <1>2, <1>4, FtConfirmed DEF Around, Places
<1>5. ASSUME UNCHANGED part, EntryOK(entry', Versions), WorkerShape(w'), w'.sent = "no",
             w'.off = w.off, w'.m = w.m,
             \/ w.pc \in {"begin", "wait", "chunk", "finalize"} /\ w'.pc = "wait"
                /\ (w.pc = "begin" => w'.why = "begin") /\ (w.pc = "wait" => w'.why = w.why)
             \/ w.pc = "getbegin" /\ w'.pc = "getbegin" /\ w'.why = w.why
             \/ w.pc = "getchunk" /\ w'.pc = "getbegin"
      PROVE  FtInv'
  <2>1. WorkerOK(w', entry', Kind, Versions)
    BY <1>0, <1>5 DEF WorkerOK, WorkerShape, PutPcs, GetPcs, Local
  <2>2. PutCounts(w') => PutCounts(w) /\ w'.off = w.off
    BY <1>5 DEF PutCounts
  <2>3. ASSUME Kind = "get" PROVE GetHeld(w', part')
    BY <1>1, <1>5, <2>3 DEF FtInv, GetHeld, GetCounts
  <2> QED  BY <1>0, <1>1, <1>2, <1>5, <2>1, <2>2, <2>3, WorkerGoes
<1>6. \A ph : EntryOK([entry EXCEPT !.phase = ph], Versions)
  BY <1>0 DEF EntryOK
<1>7. CASE w.pc = "begin" /\ Shown("Waiting") /\ GoTo(For("wait", "begin")) /\ UNCHANGED part
  BY <1>0, <1>5, <1>6, <1>7, ForGoes DEF Shown, GoTo
<1>8. CASE w.pc = "wait" /\ GoTo(At("wait")) /\ UNCHANGED <<entry, part>>
  BY <1>0, <1>5, <1>8, AtGoes DEF GoTo, Goes
<1>9. CASE w.pc \in {"chunk", "finalize"} /\ Shown("Waiting") /\ GoTo(For("wait", w.pc)) /\ UNCHANGED part
  BY <1>0, <1>5, <1>6, <1>9, ForGoes DEF Shown, GoTo
<1>10. CASE w.pc = "getbegin" /\ Shown("Waiting") /\ GoTo(At("getbegin")) /\ UNCHANGED part
  BY <1>0, <1>5, <1>6, <1>10, AtGoes DEF Shown, GoTo, Goes
<1>11. CASE w.pc = "getchunk" /\ Shown("Waiting") /\ GoTo(For("getbegin", "mid")) /\ UNCHANGED part
  BY <1>0, <1>5, <1>6, <1>11, ForGoes DEF Shown, GoTo
<1> QED  BY <1>3, <1>4, <1>7, <1>8, <1>9, <1>10, <1>11 DEF Lost

\* What an answer that is waited for finds.
Answering(r) ==
  /\ chan' = << >> /\ host.step = "idle" /\ r \in Letter
  /\ w.pc \notin Local
  /\ UNCHANGED <<job, src, host, hostJournal, dest, landed, clobbered>>
  /\ r.k = "manifest" => r.v \in Versions
  /\ Kind = "put" /\ Active(r.k) => Held(part, hostJournal, host, landed, r.off)

\* Nothing is left in the channel when the worker acts on its answer.
LEMMA EmptyChannel == ASSUME NEW r, Answering(r) PROVE Unheard(chan') /\ StepKept(chan')
<1>1. Len(<<>>) = 0 /\ <<>> \in Seq(Packet)
  OBVIOUS
<1> QED  BY <1>1 DEF Answering, Unheard, StepKept

\* The worker takes the status it was given.
LEMMA FtAccept ==
    ASSUME FtInv, NEW r, NEW phase, Answering(r), Kind = "put", w.pc # "cancel",
           UNCHANGED ctlJournal, Valid(r), Accept(r, phase)
    PROVE  FtInv'
<1>0. /\ WorkerShape(w) /\ EntryOK(entry, Versions) /\ EntryOK(ctlJournal, Versions)
      /\ PartOK(part) /\ landed \in Nat /\ DestOK(dest, Versions) /\ ~clobbered
      /\ WorkerOK(w, entry, Kind, Versions)
  BY OwnState
<1>1. Unheard(chan') /\ StepKept(chan')
  BY EmptyChannel
<1>2. r.off \in Int /\ r.k \in {"receiving", "ready", "completed"}
  BY DEF Answering, Letter, Valid, IsStatus
<1>3. w.m \in Versions
  BY <1>0 DEF WorkerOK, Answering, Local
<1>4. /\ part' = part /\ w' = [At(After(r)) EXCEPT !.off = r.off]
      /\ entry' = [entry EXCEPT !.off = r.off, !.phase = IF Done(r) THEN "Completed" ELSE phase,
                              !.err = entry.err /\ ~Done(r)]
  BY DEF Accept, GoTo
<1>5. EntryOK(entry', Versions)
  BY <1>0, <1>2, <1>4 DEF EntryOK
<1>6. WorkerShape(w') /\ w'.pc = After(r) /\ w'.sent = "no" /\ w'.m = w.m /\ w'.off = r.off
  BY <1>0, <1>2, <1>4 DEF WorkerShape, At
<1>7. After(r) \in {"chunk", "finalize", "persist"} /\ (After(r) # "persist" => Active(r.k))
  BY <1>2 DEF After, Active
<1>8. WorkerOK(w', entry', Kind, Versions)
  BY <1>3, <1>6, <1>7 DEF WorkerOK, WorkerShape, PutPcs, Local
<1>9. PutHeld(w', chan', part, hostJournal, host, landed)
  <2>1. Len(chan') = 0
    BY DEF Answering
  <2>2. PutCounts(w') => Active(r.k)
    BY <1>6, <1>7 DEF PutCounts
  <2> QED  BY <1>6, <2>1, <2>2 DEF PutHeld, Answering
<1>10. ChanOK(chan', w'.sent, Kind, Versions)
  BY <1>1 DEF Unheard, ChanOK
<1> QED  BY <1>0, <1>1, <1>4, <1>5, <1>8, <1>9, <1>10, CtlStep DEF Answering

\* The worker does something else about its answer.
LEMMA FtPutAnswer ==
    ASSUME FtInv, NEW r, Answering(r), Kind = "put", w.pc # "cancel", UNCHANGED ctlJournal, PutAnswer(r)
    PROVE  FtInv'
<1>0. /\ WorkerShape(w) /\ EntryOK(entry, Versions) /\ EntryOK(ctlJournal, Versions)
      /\ PartOK(part) /\ landed \in Nat /\ DestOK(dest, Versions) /\ ~clobbered
      /\ WorkerOK(w, entry, Kind, Versions)
  BY OwnState
<1>1. Unheard(chan') /\ StepKept(chan')
  BY EmptyChannel
<1>2. CASE Fail
  BY <1>0, <1>1, <1>2, GivesUp DEF Answering, Around, Places
<1>3. CASE \E phase : Valid(r) /\ Accept(r, phase)
  BY <1>3, FtAccept
<1>4. ASSUME NEW pc \in {"rebegin", "resend", "refinalize"}, GoTo(At(pc)), UNCHANGED <<entry, part>>,
             pc = "rebegin" \/ PutCounts(w)
      PROVE  FtInv'
  <2>1. Goes(w', pc)
    BY <1>0, <1>4, AtGoes DEF GoTo
  <2>2. w.m \in Versions
    BY <1>0 DEF WorkerOK, Answering, Local
  <2>3. WorkerOK(w', entry', Kind, Versions)
    BY <1>4, <2>1, <2>2 DEF Goes, WorkerOK, WorkerShape, PutPcs, Local
  <2>4. PutCounts(w') => PutCounts(w) /\ w'.off = w.off
    BY <1>4, <2>1 DEF PutCounts, Goes
  <2> QED  BY <1>0, <1>1, <1>4, <2>3, <2>4, WorkerGoes DEF Answering
<1>5. CASE BeginAnswer(r)
  BY <1>2, <1>3, <1>4, <1>5 DEF BeginAnswer
<1>6. CASE w.pc = "wait" /\ w.why = "chunk" /\ ResumeChunk(r)
  BY <1>2, <1>3, <1>4, <1>6 DEF ResumeChunk, PutCounts
<1>7. CASE w.pc = "wait" /\ w.why = "finalize" /\ ResumeFinalize(r)
  BY <1>2, <1>3, <1>4, <1>7 DEF ResumeFinalize, PutCounts
<1>8. CASE ChunkAnswer(r) \/ ResentAnswer(r) \/ FinalizeAnswer(r)
  BY <1>2, <1>3, <1>8 DEF ChunkAnswer, ResentAnswer, FinalizeAnswer
<1> QED  BY <1>5, <1>6, <1>7, <1>8 DEF PutAnswer

\* A get's answer is acted on.
LEMMA FtGetAnswer ==
    ASSUME FtInv, NEW r, Answering(r), Kind = "get", GetAnswer(r)
    PROVE  FtInv'
<1>0. /\ WorkerShape(w) /\ EntryOK(entry, Versions) /\ EntryOK(ctlJournal, Versions)
      /\ PartOK(part) /\ landed \in Nat /\ DestOK(dest, Versions) /\ ~clobbered
      /\ WorkerOK(w, entry, Kind, Versions) /\ Versions \subseteq Int
      /\ PartOK(NoPart) /\ PartOK(NewPart)
  BY OwnState
<1>1. Unheard(chan') /\ StepKept(chan')
  BY EmptyChannel
<1>2. r.off \in Int /\ r.v \in Int /\ (r.k = "manifest" => r.v \in Versions)
  BY DEF Answering, Letter
<1>3. GetHeld(w, part)
  BY DEF FtInv
<1>4. CASE Fail /\ UNCHANGED ctlJournal
  BY <1>0, <1>1, <1>4, GivesUp DEF Answering, Around, Places
<1>5. ASSUME EntryOK(entry', Versions), EntryOK(ctlJournal', Versions), PartOK(part'),
             WorkerShape(w'), w'.sent = "no",
             \/ /\ w'.pc \in {"land", "getchunk", "regetchunk"} /\ w'.m \in Versions
                /\ part'.there /\ Len(part'.data) >= w'.off
             \/ w'.pc = "cleanup"
      PROVE  FtInv'
  <2>1. WorkerOK(w', entry', Kind, Versions)
    BY <1>5 DEF WorkerOK, WorkerShape, GetPcs, Local
  <2>2. GetHeld(w', part')
    BY <1>5 DEF GetHeld, GetCounts
  <2> QED  BY <1>0, <1>1, <1>5, <2>1, <2>2, WorkerGoes DEF Answering
<1>6. \A k : LoopOrLand(k) \in {"land", "getchunk"}
  BY DEF LoopOrLand
<1>7. \A k : Goes(At(k), k) /\ Goes([At(k) EXCEPT !.gen = 0], k)
  BY <1>0, AtGoes
<1>8. CASE r.k = "manifest" /\ FreshGet(r)
  <2> DEFINE e == [entry EXCEPT !.m = r.v, !.phase = "Running", !.kept = TRUE]
  <2>1. EntryOK(e, Versions)
    BY <1>0, <1>2, <1>8 DEF EntryOK
  <2>2. EntryOK(SetFailed(e), Versions)
    BY <2>1 DEF EntryOK, SetFailed
  <2>3. \/ /\ ctlJournal' = e /\ entry' = e /\ part' = (IF part.there THEN part ELSE NewPart)
           /\ w' = [At(LoopOrLand(Len(part'.data))) EXCEPT !.m = r.v, !.off = Len(part'.data)]
        \/ Fail /\ UNCHANGED ctlJournal
        \/ /\ ctlJournal' \in {ctlJournal, e} /\ entry' = SetFailed(e) /\ part' = NoPart
           /\ w' = [At("cleanup") EXCEPT !.gen = 0]
    BY <1>8, Zenon DEF FreshGet, CtlPersistOk, CtlPersistFails, GoTo
  <2> HIDE DEF e
  <2>4. CASE /\ ctlJournal' = e /\ entry' = e /\ part' = (IF part.there THEN part ELSE NewPart)
             /\ w' = [At(LoopOrLand(Len(part'.data))) EXCEPT !.m = r.v, !.off = Len(part'.data)]
    <3>1. PartOK(part') /\ part'.there
      BY <1>0, <2>4 DEF NewPart
    <3>2. Len(part'.data) \in Int
      BY <3>1 DEF PartOK
    <3> DEFINE n == Len(part'.data)
               k == LoopOrLand(n)
    <3>3. w' = [At(k) EXCEPT !.m = r.v, !.off = n] /\ k \in {"land", "getchunk"} /\ n \in Int
      BY <1>6, <2>4, <3>2
    <3>4. Goes(At(k), k)
      BY <1>7
    <3> HIDE DEF n, k
    <3>5. WorkerShape(w') /\ w'.pc = k /\ w'.sent = "no" /\ w'.m = r.v /\ w'.off = n
      BY <1>2, <3>3, <3>4 DEF Goes, WorkerShape
    <3> QED  BY <1>2, <1>5, <1>8, <2>1, <2>4, <3>1, <3>2, <3>3, <3>5 DEF n
  <2>5. CASE /\ ctlJournal' \in {ctlJournal, e} /\ entry' = SetFailed(e) /\ part' = NoPart
             /\ w' = [At("cleanup") EXCEPT !.gen = 0]
    <3>1. Goes(w', "cleanup")
      BY <1>7, <2>5
    <3> QED  BY <1>0, <1>5, <2>1, <2>2, <2>5, <3>1 DEF Goes
  <2> QED  BY <1>4, <2>3, <2>4, <2>5
<1>9. CASE w.pc = "getbegin" /\ w.why # "fresh" /\ SameManifest(r) /\ UNCHANGED ctlJournal
  <2>1. w.m \in Versions /\ part.there /\ Len(part.data) >= w.off
    BY <1>0, <1>3, <1>9 DEF WorkerOK, GetHeld, GetCounts
  <2>2. EntryOK([entry EXCEPT !.phase = "Running"], Versions)
    BY <1>0 DEF EntryOK
  <2>3. CASE Fail
    BY <1>4, <1>9, <2>3
  <2>4. ASSUME NEW k \in {"land", "getchunk", "regetchunk"}, w' = At(k), part' = part, EntryOK(entry', Versions)
        PROVE  FtInv'
    <3>1. Goes(w', k)
      BY <1>7, <2>4
    <3> QED  BY <1>0, <1>5, <1>9, <2>1, <2>4, <3>1 DEF Goes
  <2>5. CASE Shown("Running") /\ GoTo(At(LoopOrLand(w.off))) /\ UNCHANGED part
    BY <1>6, <2>2, <2>4, <2>5 DEF Shown, GoTo
  <2>6. CASE GoTo(At("regetchunk")) /\ UNCHANGED <<entry, part>>
    BY <1>0, <2>4, <2>6 DEF GoTo
  <2> QED  BY <1>9, <2>3, <2>5, <2>6 DEF SameManifest
<1>10. CASE w.pc \in {"getchunk", "regetchunk"} /\ StoreChunk(r) /\ UNCHANGED ctlJournal
  <2>1. w.m \in Versions /\ part.there /\ w.off \in Int
    BY <1>0, <1>3, <1>10 DEF WorkerOK, GetHeld, GetCounts, WorkerShape
  <2>2. CASE Fail
    BY <1>4, <1>10, <2>2
  <2>3. CASE /\ Len(part.data) = w.off /\ part' = Appended(r.v)
             /\ entry' = [entry EXCEPT !.off = w.off + 1, !.phase = "Running"]
             /\ GoTo([At(LoopOrLand(w.off + 1)) EXCEPT !.off = @ + 1])
    <3>1. EntryOK(entry', Versions)
      BY <1>0, <2>1, <2>3 DEF EntryOK
    <3>2. PartOK(part') /\ part'.there /\ Len(part'.data) = w.off + 1
      BY <1>0, <1>2, <2>1, <2>3 DEF PartOK, Appended
    <3> DEFINE k == LoopOrLand(w.off + 1)
    <3>3. w' = [At(k) EXCEPT !.off = At(k).off + 1] /\ k \in {"land", "getchunk"}
      BY <1>6, <2>3 DEF GoTo
    <3>4. Goes(At(k), k)
      BY <1>7
    <3> HIDE DEF k
    <3>5. WorkerShape(w') /\ w'.pc = k /\ w'.sent = "no" /\ w'.m = w.m /\ w'.off = w.off + 1
      BY <2>1, <3>3, <3>4 DEF Goes, WorkerShape
    <3> QED  BY <1>0, <1>5, <1>10, <2>1, <3>1, <3>2, <3>3, <3>5
  <2> QED  BY <1>10, <2>2, <2>3 DEF StoreChunk
<1> QED  BY <1>4, <1>8, <1>9, <1>10 DEF GetAnswer

\* The session handler delivers an answer.
LEMMA FtDeliver == ASSUME FtInv, Deliver PROVE FtInv'
<1>0. /\ WorkerShape(w) /\ EntryOK(entry, Versions) /\ EntryOK(ctlJournal, Versions)
      /\ PartOK(part) /\ landed \in Nat /\ DestOK(dest, Versions) /\ ~clobbered
      /\ WorkerOK(w, entry, Kind, Versions) /\ Kind \in {"put", "get"}
  BY OwnState
<1> DEFINE r == chan[1].ans
<1>1. /\ chan # << >> /\ r # NoMsg /\ chan' = Tail(chan)
      /\ UNCHANGED <<job, src, host, hostJournal, dest, landed, clobbered>>
  BY DEF Deliver, Outside
<1>2. ChanOK(chan, w.sent, Kind, Versions) /\ HostOK(host, chan, part, landed, Kind, Versions)
  BY DEF FtInv
<1>3. /\ chan \in Seq(Packet) /\ Len(chan) \in Nat /\ Len(chan) >= 1 /\ 1 \in 1 .. Len(chan)
      /\ chan[1] \in Packet
      /\ Tail(chan) \in Seq(Packet) /\ Len(Tail(chan)) = Len(chan) - 1
      /\ \A i \in 1 .. Len(Tail(chan)) : i + 1 \in 1 .. Len(chan) /\ Tail(chan)[i] = chan[i + 1]
  BY <1>1, <1>2 DEF ChanOK
<1>4. host.step = "idle"
  BY <1>1, <1>2 DEF HostOK
<1>5. CASE ~chan[1].heard
  <2>1. UNCHANGED <<entry, ctlJournal, w, part>>
    BY <1>5 DEF Deliver
  <2>2. ChanOK(chan', w'.sent, Kind, Versions)
    <3>1. \A i \in 1 .. Len(Tail(chan)) :
            /\ PacketOK(chan[i + 1], Kind, Versions)
            /\ chan[i + 1].ans # NoMsg => FALSE
            /\ chan[i + 1].heard => i = Len(Tail(chan)) /\ w.sent = "yes"
      <4> TAKE i \in 1 .. Len(Tail(chan))
      <4> DEFINE k == i + 1
      <4>1. k \in 1 .. Len(chan) /\ k # 1 /\ (k = Len(chan) => i = Len(Tail(chan)))
        <5> DEFINE a == Len(chan)
                   b == Len(Tail(chan))
        <5>1. a \in Nat /\ b = a - 1 /\ i \in 1 .. b
          BY <1>3
        <5> HIDE DEF a, b
        <5>2. k \in 1 .. a /\ k # 1 /\ (k = a => i = b)
          BY <5>1
        <5> QED  BY <5>2 DEF a, b
      <4>2. PacketOK(chan[k], Kind, Versions) /\ (chan[k].ans # NoMsg => k = 1)
            /\ (chan[k].heard => k = Len(chan) /\ w.sent = "yes")
        <5> HIDE DEF k
        <5> QED  BY <1>2, <4>1 DEF ChanOK
      <4> QED  BY <4>1, <4>2
    <3> QED  BY <1>1, <1>3, <2>1, <3>1 DEF ChanOK
  <2>3. ASSUME Kind = "put" PROVE PutHeld(w', chan', part, hostJournal, host, landed)
    BY <1>1, <1>3, <2>1, <2>3 DEF FtInv, PutHeld
  <2> QED  BY <1>0, <1>1, <1>4, <2>1, <2>2, <2>3, CtlStep DEF StepKept, FtInv
<1>6. CASE chan[1].heard
  <2>1. Len(chan) = 1 /\ w.sent = "yes"
    BY <1>2, <1>3, <1>6 DEF ChanOK
  <2>2. chan' = << >>
    BY <1>1, <1>3, <2>1
  <2>3. w.pc \notin Local
    BY <1>0, <2>1 DEF WorkerOK
  <2>4. r \in Letter /\ (r.k = "manifest" => r.v \in Versions)
    BY <1>2, <1>3 DEF Packet, ChanOK, PacketOK
  <2>5. Kind = "put" /\ Active(r.k) => Held(part, hostJournal, host, landed, r.off)
    BY <1>3, <1>6 DEF FtInv, PutHeld
  <2>6. Answering(r)
    BY <1>1, <1>4, <2>2, <2>3, <2>4, <2>5 DEF Answering
  <2> HIDE DEF r
  <2>7. CASE w.pc \in {"cancel", "settle", "cleanup"}
    <3>1. Confirmed(Confirms(r)) /\ UNCHANGED <<ctlJournal, part>>
      BY <1>6, <2>7 DEF Deliver, r
    <3>2. Confirms(r) \in BOOLEAN
      BY DEF Confirms
    <3> QED  BY <1>1, <2>6, <2>7, <3>1, <3>2, EmptyChannel, FtConfirmed DEF Around, Places
  <2>8. CASE w.pc \notin {"cancel", "settle", "cleanup"} /\ Kind = "put"
    <3>1. PutAnswer(r) /\ UNCHANGED ctlJournal
      BY <1>6, <2>8 DEF Deliver, r
    <3> QED  BY <2>6, <2>8, <3>1, FtPutAnswer
  <2>9. CASE w.pc \notin {"cancel", "settle", "cleanup"} /\ Kind = "get"
    <3>1. GetAnswer(r)
      BY <1>6, <2>9 DEF Deliver, r
    <3> QED  BY <2>6, <2>9, <3>1, FtGetAnswer
  <2> QED  BY <1>0, <2>7, <2>8, <2>9
<1> QED  BY <1>5, <1>6

\* What a lost session leaves of the channel.
Remains == IF host.step = "idle" THEN Flying(chan) ELSE {<<[chan[1] EXCEPT !.heard = FALSE]>>}
\* Nobody waits for it, and the Host finishes what it has begun.
LEMMA RemainsUnheard == ASSUME FtInv, NEW c \in Remains PROVE Unheard(c) /\ StepKept(c)
<1>1. ChanOK(chan, w.sent, Kind, Versions) /\ HostOK(host, chan, part, landed, Kind, Versions)
  BY DEF FtInv
<1> DEFINE y == chan[1]
           z == [y EXCEPT !.heard = FALSE]
<1>2. \/ c = << >> /\ host.step = "idle"
      \/ chan # << >> /\ y.ans = NoMsg /\ c = <<z>>
  BY <1>1 DEF Remains, Flying, HostOK
<1>3. CASE c = << >> /\ host.step = "idle"
  <2>1. Len(<<>>) = 0 /\ <<>> \in Seq(Packet)
    OBVIOUS
  <2> QED  BY <1>3, <2>1 DEF Unheard, StepKept
<1>4. CASE chan # << >> /\ y.ans = NoMsg /\ c = <<z>>
  <2>1. 1 \in 1 .. Len(chan) /\ y \in Packet /\ PacketOK(y, Kind, Versions)
    BY <1>1, <1>4 DEF ChanOK
  <2>2. z.req = y.req /\ z.ans = y.ans /\ z.heard = FALSE /\ z \in Packet
    <3> HIDE DEF y
    <3> QED  BY <2>1 DEF Packet
  <2> HIDE DEF z
  <2>3. c \in Seq(Packet) /\ Len(c) = 1 /\ c[1] = z
    BY <1>4, <2>2
  <2>4. PacketOK(z, Kind, Versions)
    BY <2>1, <2>2 DEF PacketOK
  <2>5. Unheard(c)
    BY <2>1, <2>2, <2>3, <2>4 DEF Unheard
  <2>6. c # << >>
    BY <1>4
  <2>7. StepKept(c)
    BY <1>4, <2>2, <2>3, <2>6 DEF StepKept
  <2> QED  BY <2>5, <2>7
<1> QED  BY <1>2, <1>3, <1>4

\* A worker whose session is gone counts what it counted.
LEMMA LosesOK ==
    ASSUME FtInv, w' = LosesRequest(w), entry' = entry
    PROVE  /\ WorkerOK(w', entry', Kind, Versions) /\ w'.sent # "yes"
           /\ PutCounts(w') => PutCounts(w)
           /\ GetCounts(w') => GetCounts(w)
           /\ w'.off = w.off
<1>0. WorkerShape(w) /\ WorkerOK(w, entry, Kind, Versions)
  BY OwnState
<1>1. CASE w.sent # "yes"
  BY <1>0, <1>1 DEF LosesRequest
<1>2. CASE w.sent = "yes"
  <2>1. w' = [w EXCEPT !.sent = "lost"]
    BY <1>2 DEF LosesRequest
  <2>2. /\ WorkerShape(w') /\ w'.pc = w.pc /\ w'.why = w.why /\ w'.m = w.m /\ w'.off = w.off
        /\ w'.sent = "lost"
    BY <1>0, <2>1 DEF WorkerShape
  <2>3. w.pc \notin Local
    BY <1>0, <1>2 DEF WorkerOK
  <2> QED  BY <1>0, <2>2, <2>3 DEF WorkerOK, WorkerShape, PutCounts, GetCounts
<1> QED  BY <1>1, <1>2

\* Sessions come and go.
LEMMA FtSessions == ASSUME FtInv, Connect \/ Disconnect \/ HostDrops PROVE FtInv'
<1>0. /\ WorkerShape(w) /\ EntryOK(entry, Versions) /\ EntryOK(ctlJournal, Versions)
      /\ PartOK(part) /\ landed \in Nat /\ DestOK(dest, Versions) /\ ~clobbered
      /\ WorkerOK(w, entry, Kind, Versions)
  BY OwnState
<1>1. UNCHANGED <<job, src, host, hostJournal, entry, ctlJournal, part, dest, landed, clobbered>>
  BY DEF Connect, Disconnect, HostDrops, NoFiles, Outside
<1>2. CASE Connect
  <2>1. UNCHANGED <<chan, w>>
    BY <1>2 DEF Connect
  <2>2. StepKept(chan')
    BY <2>1 DEF FtInv, HostOK, StepKept
  <2> QED  BY <1>0, <1>1, <2>1, <2>2, CtlStep DEF FtInv
<1>3. CASE Disconnect
  <2>1. chan' \in Remains /\ w' = LosesRequest(w)
    BY <1>3 DEF Disconnect, Remains
  <2>2. Unheard(chan') /\ StepKept(chan')
    BY <2>1, RemainsUnheard
  <2>3. /\ WorkerOK(w', entry', Kind, Versions) /\ w'.off = w.off
        /\ PutCounts(w') => PutCounts(w)
        /\ GetCounts(w') => GetCounts(w)
    BY <1>1, <2>1, LosesOK
  <2>4. Kind = "get" => GetHeld(w', part')
    BY <1>1, <2>3 DEF GetHeld, FtInv
  <2> QED  BY <1>0, <1>1, <2>2, <2>3, <2>4, WorkerGoes
<1>4. CASE HostDrops
  <2>1. chan' = << >> /\ w' = w /\ chan # << >> /\ (chan[1].ans # NoMsg \/ host.step = "idle")
    BY <1>4 DEF HostDrops
  <2>2. host.step = "idle"
    BY <2>1 DEF FtInv, HostOK
  <2>3. Len(<<>>) = 0 /\ <<>> \in Seq(Packet)
    OBVIOUS
  <2>4. Unheard(chan') /\ StepKept(chan')
    BY <2>1, <2>2, <2>3 DEF Unheard, StepKept
  <2> QED  BY <1>0, <1>1, <2>1, <2>4, WorkerGoes DEF FtInv, GetHeld
<1> QED  BY <1>2, <1>3, <1>4

\* The Host stops, perhaps in the middle of a chunk.
LEMMA FtHostCrash == ASSUME FtInv, HostCrash PROVE FtInv'
<1>0. /\ WorkerShape(w) /\ EntryOK(entry, Versions) /\ EntryOK(ctlJournal, Versions)
      /\ PartOK(part) /\ landed \in Nat /\ DestOK(dest, Versions) /\ ~clobbered
      /\ WorkerOK(w, entry, Kind, Versions) /\ Kind \in {"put", "get"}
  BY OwnState
<1>1. /\ host' = [HostBlank EXCEPT !.up = FALSE] /\ part' \in HalfWritten /\ chan' = << >>
      /\ w' = LosesRequest(w)
      /\ UNCHANGED <<job, src, hostJournal, entry, ctlJournal, dest, landed, clobbered>>
  BY DEF HostCrash, Outside
<1>2. /\ HostOK(host, chan, part, landed, Kind, Versions) /\ ChanOK(chan, w.sent, Kind, Versions)
      /\ JournalOK(hostJournal, host, Kind, Versions)
  BY DEF FtInv
<1>3. /\ PartOK(part') /\ (Kind = "get" => part' = part)
      /\ part.there => part'.there
      /\ Len(part'.data) \in Int /\ Len(part.data) \in Int /\ Len(part'.data) >= Len(part.data)
  <2>1. Len(part.data) \in Int
    BY <1>0 DEF PartOK
  <2>2. CASE part' = part
    BY <1>0, <2>1, <2>2
  <2>3. CASE part' \in Torn(chan[1].req.v) /\ Starting("putchunk") /\ Active(host.phase)
    <3>1. Kind = "put" /\ part.there
      BY <1>0, <1>2, <2>3 DEF Starting, HostOK, Active
    <3>2. chan[1] \in Packet
      BY <1>2, <2>3 DEF Starting, Serving, ChanOK
    <3> DEFINE v == chan[1].req.v
    <3>3. v \in Int
      BY <3>2 DEF Packet, Letter
    <3>4. part' \in {[part EXCEPT !.ragged = TRUE], Appended(v), part}
      BY <2>3 DEF Torn
    <3> HIDE DEF v
    <3>5. CASE part' = [part EXCEPT !.ragged = TRUE]
      BY <1>0, <2>1, <3>1, <3>5 DEF PartOK
    <3>6. CASE part' = Appended(v)
      BY <1>0, <2>1, <3>1, <3>3, <3>6 DEF PartOK, Appended
    <3> QED  BY <2>2, <3>4, <3>5, <3>6
  <2> QED  BY <1>1, <2>2, <2>3 DEF HalfWritten
<1>4. Versions' = Versions /\ Kind' = Kind
  BY <1>1 DEF Versions, MaxEdits, Kind
<1>5. Len(<<>>) = 0 /\ <<>> \in Seq(Packet)
  OBVIOUS
<1>6. ChanOK(chan', w'.sent, Kind, Versions)
  BY <1>1, <1>5 DEF ChanOK
<1>7. HostOK(host', chan', part', landed, Kind, Versions)
  BY <1>1 DEF HostOK, HostBlank, HostFields, HostPhases, Active
<1>8. JournalOK(hostJournal, host', Kind, Versions)
  BY <1>1, <1>2 DEF JournalOK, HostBlank, Active
<1>9. /\ WorkerOK(w', entry', Kind, Versions) /\ w'.off = w.off /\ w.off \in Int
      /\ PutCounts(w') => PutCounts(w)
      /\ GetCounts(w') => GetCounts(w)
  BY <1>0, <1>1, LosesOK DEF WorkerShape
<1>10. ASSUME Kind = "put" PROVE PutHeld(w', chan', part', hostJournal, host', landed)
  <2>1. PutCounts(w) => Held(part, hostJournal, host, landed, w.off)
    BY <1>10 DEF FtInv, PutHeld
  <2>2. host'.up = FALSE
    BY <1>1 DEF HostBlank
  <2>3. Held(part, hostJournal, host, landed, w.off) => Held(part', hostJournal, host', landed, w.off)
    BY <1>3, <1>9, <2>2 DEF Held
  <2> QED  BY <1>1, <1>5, <1>9, <2>1, <2>3 DEF PutHeld
<1>11. ASSUME Kind = "get" PROVE GetHeld(w', part')
  BY <1>3, <1>9, <1>11 DEF FtInv, GetHeld
<1> QED  BY <1>0, <1>1, <1>3, <1>4, <1>6, <1>7, <1>8, <1>9, <1>10, <1>11 DEF FtInv

\* A stopped Controller has no worker.
DownInv == ~ctlUp => w = IdleWorker

\* The Controller stops.
LEMMA FtControllerCrash == ASSUME FtInv, ControllerCrash PROVE FtInv'
<1>0. /\ EntryOK(ctlJournal, Versions)
      /\ PartOK(part) /\ landed \in Nat /\ DestOK(dest, Versions) /\ ~clobbered
      /\ WorkerOK(w, entry, Kind, Versions)
  BY OwnState
<1>1. /\ entry' = NoEntry /\ w' = IdleWorker /\ chan' \in Remains
      /\ part' \in IF w.pc \in {"getchunk", "regetchunk"} /\ part.there
                   THEN {part, [part EXCEPT !.ragged = TRUE]} ELSE {part}
      /\ UNCHANGED <<job, src, host, hostJournal, ctlJournal, dest, landed, clobbered>>
  BY DEF ControllerCrash, Remains
<1>2. Unheard(chan') /\ StepKept(chan')
  BY <1>1, RemainsUnheard
<1>3. PartOK(part') /\ (Kind = "put" => part' = part)
  BY <1>0, <1>1 DEF PartOK, WorkerOK, PutPcs
<1>4. EntryOK(entry', Versions)
  BY <1>1 DEF EntryOK, NoEntry
<1>5. WorkerOK(w', entry', Kind, Versions) /\ ~PutCounts(w') /\ ~GetCounts(w')
  BY <1>1, IdleFields, RestingOK DEF Resting
<1> QED  BY <1>0, <1>1, <1>2, <1>3, <1>4, <1>5, WorkerGoes DEF GetHeld

\* The Controller starts again from its journal.
LEMMA FtControllerRestart == ASSUME FtInv, DownInv, ControllerRestart PROVE FtInv'
<1>0. /\ EntryOK(entry, Versions) /\ EntryOK(ctlJournal, Versions)
      /\ PartOK(part) /\ landed \in Nat /\ DestOK(dest, Versions) /\ ~clobbered
      /\ WorkerOK(w, entry, Kind, Versions) /\ PartOK(NoPart) /\ Kind \in {"put", "get"}
  BY OwnState
<1>1. /\ w = IdleWorker
      /\ UNCHANGED <<job, src, host, hostJournal, chan, dest, landed, clobbered>>
  BY DEF ControllerRestart, DownInv, NoChannel
<1>2. Unheard(chan') /\ StepKept(chan')
  BY <1>1, IdleFields, NotWaiting DEF Unheard, StepKept
<1>3. /\ EntryOK(RestoredEntry, Versions)
      /\ RestoredEntry.phase = "Waiting" /\ Kind = "get" => RestoredEntry.m \in Versions
  <2>1. EntryOK([ctlJournal EXCEPT !.phase = "Waiting", !.err = FALSE], Versions)
        /\ [ctlJournal EXCEPT !.phase = "Waiting", !.err = FALSE].m = ctlJournal.m
    BY <1>0 DEF EntryOK
  <2>2. EntryOK([ctlJournal EXCEPT !.phase = "Failed", !.err = TRUE], Versions)
        /\ [ctlJournal EXCEPT !.phase = "Failed", !.err = TRUE].phase = "Failed"
    BY <1>0 DEF EntryOK
  <2>3. CASE ctlJournal.phase \in Terminal \cup {"none", "Cancelling"}
    BY <1>0, <2>3 DEF RestoredEntry, Terminal
  <2>4. CASE ctlJournal.phase \notin Terminal \cup {"none", "Cancelling"}
    BY <1>0, <2>1, <2>2, <2>4 DEF RestoredEntry, EntryOK
  <2> QED  BY <2>3, <2>4
<1>4. CASE /\ entry' = RestoredEntry /\ ctlJournal' = RestoredEntry /\ w' = RestoredWorker
           /\ part' = part \/ (part' = NoPart /\ Kind = "get")
  <2>1. /\ WorkerShape(w') /\ w'.sent = "no"
        /\ \/ w'.pc \in {"idle", "cancel"}
           \/ w'.pc = "prepare" /\ Kind = "put"
           \/ w'.pc = "recover" /\ Kind = "get" /\ RestoredEntry.m \in Versions
    <3>1. \A k : /\ WorkerShape([IdleWorker EXCEPT !.pc = k])
                 /\ [IdleWorker EXCEPT !.pc = k].sent = "no" /\ [IdleWorker EXCEPT !.pc = k].pc = k
      BY DEF IdleWorker, WorkerShape
    <3>2. CASE RestoredEntry.phase = "Cancelling"
      BY <1>4, <3>1, <3>2 DEF RestoredWorker
    <3>3. CASE RestoredEntry.phase = "Waiting"
      <4>1. w' = [IdleWorker EXCEPT !.pc = IF Kind = "put" THEN "prepare" ELSE "recover"]
        BY <1>4, <3>3 DEF RestoredWorker
      <4> QED  BY <1>0, <1>3, <3>1, <3>3, <4>1
    <3>4. CASE RestoredEntry.phase \notin {"Cancelling", "Waiting"}
      BY <1>4, <3>4, IdleFields DEF RestoredWorker
    <3> QED  BY <3>2, <3>3, <3>4
  <2>2. WorkerOK(w', entry', Kind, Versions) /\ ~PutCounts(w') /\ ~GetCounts(w')
    BY <1>4, <2>1 DEF WorkerOK, WorkerShape, PutPcs, GetPcs, PutCounts, GetCounts
  <2> QED  BY <1>0, <1>1, <1>2, <1>3, <1>4, <2>2, WorkerGoes DEF GetHeld
<1>5. CASE ctlJournal' \in {ctlJournal, RestoredEntry} /\ UNCHANGED <<entry, w, part>>
  BY <1>0, <1>1, <1>2, <1>3, <1>5, WorkerGoes DEF FtInv
<1> QED  BY <1>4, <1>5 DEF ControllerRestart, CtlPersistOk, CtlPersistFails

-----------------------------------------------------------------------------
(* The Host's steps.                                                       *)

\* Whatever was held is still held.
Stays == \A n \in Int : Held(part, hostJournal, host, landed, n) =>
                        Held(part', hostJournal', host', landed', n)
\* The request that is served was not made by a worker that counts.
Spared == chan # << >> /\ chan[1].ans = NoMsg /\ chan[1].req.k \in {"putbegin", "cancel"}

\* What every step of the Host, or beside it, leaves in order.
HostSide ==
  /\ UNCHANGED <<job, w, entry, ctlJournal>> /\ src' \in Versions
  /\ PartOK(part') /\ landed' \in Nat /\ landed' >= landed
  /\ HostOK(host', chan', part', landed', Kind, Versions)
  /\ JournalOK(hostJournal', host', Kind, Versions)
  /\ DestOK(dest', Versions) /\ ~clobbered'
  /\ Kind = "get" => part' = part
  /\ Kind = "put" => Stays \/ Spared

\* A worker that counts is not disturbed.
LEMMA CountStays ==
    ASSUME FtInv, HostSide, Kind = "put", PutCounts(w)
    PROVE  Held(part', hostJournal', host', landed', w.off)
<1>1. /\ Held(part, hostJournal, host, landed, w.off)
      /\ landed > 0 \/ \A i \in 1 .. Len(chan) : chan[i].req.k \notin {"putbegin", "cancel"}
  BY DEF FtInv, PutHeld
<1>2. w.off \in Int /\ landed \in Nat /\ chan \in Seq(Packet)
  BY OwnState DEF WorkerShape, FtInv, ChanOK
<1>3. CASE landed > 0
  BY <1>2, <1>3 DEF HostSide, Held
<1>4. CASE Stays
  BY <1>1, <1>2, <1>4 DEF Stays
<1>5. CASE Spared /\ ~(landed > 0)
  <2>1. 1 \in 1 .. Len(chan)
    BY <1>2, <1>5 DEF Spared
  <2> QED  BY <1>1, <1>5, <2>1 DEF Spared
<1> QED  BY <1>3, <1>4, <1>5 DEF HostSide

\* The Host goes on without answering.
LEMMA HostGoesOn == ASSUME FtInv, HostSide, chan' = chan PROVE FtInv'
<1>1. Versions' = Versions /\ Kind' = Kind
  BY DEF Versions, MaxEdits, Kind, HostSide
<1>2. ASSUME Kind = "put" PROVE PutHeld(w', chan', part', hostJournal', host', landed')
  <2>1. PutHeld(w, chan, part, hostJournal, host, landed)
    BY <1>2 DEF FtInv
  <2>2. PutCounts(w) => Held(part', hostJournal', host', landed', w.off)
    BY <1>2, CountStays
  <2>3. landed' >= landed /\ landed \in Nat /\ landed' \in Nat
    BY DEF HostSide, FtInv
  <2>4. PutCounts(w) => landed' > 0 \/ \A i \in 1 .. Len(chan) : chan[i].req.k \notin {"putbegin", "cancel"}
    BY <2>1, <2>3 DEF PutHeld
  <2>5. ASSUME NEW i \in 1 .. Len(chan), chan[i].heard, Active(chan[i].ans.k)
        PROVE  Held(part', hostJournal', host', landed', chan[i].ans.off)
    <3>1. Held(part, hostJournal, host, landed, chan[i].ans.off)
      BY <2>1, <2>5 DEF PutHeld
    <3>2. ChanOK(chan, w.sent, Kind, Versions) /\ chan[i] \in Packet
      BY DEF FtInv, ChanOK
    <3>3. chan[i].ans.off \in Int /\ chan[i].ans # NoMsg
      BY <2>5, <3>2 DEF Packet, Letter, NoMsg, Msg, Active
    <3>4. ~Spared
      BY <3>2, <3>3 DEF Spared, ChanOK
    <3> QED  BY <1>2, <3>1, <3>3, <3>4 DEF HostSide, Stays
  <2> QED  BY <2>2, <2>4, <2>5 DEF PutHeld, HostSide
<1>3. ASSUME Kind = "get" PROVE GetHeld(w', part')
  BY <1>3 DEF HostSide, FtInv, GetHeld
<1> QED  BY <1>1, <1>2, <1>3 DEF HostSide, FtInv

\* The Host answers its request.
LEMMA HostAnswers ==
    ASSUME FtInv, HostSide, chan # << >>, chan[1].ans = NoMsg, NEW r \in Letter, Answer(r),
           r.k = "manifest" => r.v \in Versions,
           Kind = "put" /\ Active(r.k) => Held(part', hostJournal', host', landed', r.off)
    PROVE  FtInv'
<1>1. Versions' = Versions /\ Kind' = Kind
  BY DEF Versions, MaxEdits, Kind, HostSide
<1>2. ChanOK(chan, w.sent, Kind, Versions) /\ chan \in Seq(Packet) /\ 1 \in 1 .. Len(chan)
  BY DEF FtInv, ChanOK
<1>3. chan[1] \in Packet /\ Len(chan) \in Nat
  BY <1>2
<1> DEFINE y == [chan[1] EXCEPT !.ans = r]
<1>4. y.req = chan[1].req /\ y.ans = r /\ y.heard = chan[1].heard /\ y \in Packet
  BY <1>3 DEF Packet
<1>5. chan' = [chan EXCEPT ![1] = y]
  BY DEF Answer
<1> HIDE DEF y
<1>6. /\ chan' \in Seq(Packet) /\ Len(chan') = Len(chan) /\ chan'[1] = y
      /\ \A i \in 1 .. Len(chan) : i # 1 => chan'[i] = chan[i]
  BY <1>2, <1>4, <1>5
<1>7. \A i \in 1 .. Len(chan) : chan'[i].req = chan[i].req /\ chan'[i].heard = chan[i].heard
  BY <1>4, <1>6
<1>8. \A i \in 1 .. Len(chan) : chan'[i].ans # NoMsg => i = 1
  BY <1>2, <1>6 DEF ChanOK
<1>9. \A i \in 1 .. Len(chan) : PacketOK(chan'[i], Kind, Versions)
  <2>1. PacketOK(y, Kind, Versions)
    BY <1>2, <1>4 DEF ChanOK, PacketOK
  <2> QED  BY <1>2, <1>6, <2>1 DEF ChanOK
<1>10. ChanOK(chan', w'.sent, Kind, Versions)
  BY <1>2, <1>6, <1>7, <1>8, <1>9 DEF ChanOK, HostSide
<1>11. ASSUME Kind = "put" PROVE PutHeld(w', chan', part', hostJournal', host', landed')
  <2>1. PutHeld(w, chan, part, hostJournal, host, landed)
    BY <1>11 DEF FtInv
  <2>2. PutCounts(w) => Held(part', hostJournal', host', landed', w.off)
    BY <1>11, CountStays
  <2>3. landed' >= landed /\ landed \in Nat /\ landed' \in Nat
    BY DEF HostSide, FtInv
  <2>4. PutCounts(w) => landed' > 0 \/ \A i \in 1 .. Len(chan') : chan'[i].req.k \notin {"putbegin", "cancel"}
    BY <1>6, <1>7, <2>1, <2>3 DEF PutHeld
  <2>5. ASSUME NEW i \in 1 .. Len(chan'), Active(chan'[i].ans.k)
        PROVE  Held(part', hostJournal', host', landed', chan'[i].ans.off)
    <3>1. chan'[i].ans # NoMsg
      BY <2>5 DEF NoMsg, Msg, Active
    <3>2. i = 1 /\ chan'[i].ans = r
      BY <1>4, <1>6, <1>8, <3>1
    <3> QED  BY <1>11, <2>5, <3>2
  <2> QED  BY <2>2, <2>4, <2>5 DEF PutHeld, HostSide
<1>12. ASSUME Kind = "get" PROVE GetHeld(w', part')
  BY <1>12 DEF HostSide, FtInv, GetHeld
<1> QED  BY <1>1, <1>10, <1>11, <1>12 DEF HostSide, FtInv

\* Everything about the Host's own state.
LEMMA HostState ==
    ASSUME FtInv
    PROVE  /\ HostOK(host, chan, part, landed, Kind, Versions)
           /\ JournalOK(hostJournal, host, Kind, Versions)
           /\ PartOK(part) /\ PartOK(NoPart) /\ PartOK(NewPart) /\ landed \in Nat
           /\ DestOK(dest, Versions) /\ ~clobbered /\ src \in Versions /\ Versions \subseteq Int
           /\ Kind \in {"put", "get"} /\ chan \in Seq(Packet) /\ 0 \notin Versions
           /\ chan # << >> => chan[1] \in Packet /\ PacketOK(chan[1], Kind, Versions)
<1>1. chan \in Seq(Packet) /\ ChanOK(chan, w.sent, Kind, Versions)
  BY DEF FtInv, ChanOK
<1>2. ASSUME chan # << >> PROVE 1 \in 1 .. Len(chan)
  BY <1>1, <1>2
<1>3. chan # << >> => chan[1] \in Packet /\ PacketOK(chan[1], Kind, Versions)
  BY <1>1, <1>2 DEF ChanOK
<1> QED  BY <1>1, <1>3, OwnState, JobFacts DEF FtInv

\* The rest of the system during a step of the Host.
Apart == UNCHANGED <<job, w, entry, ctlJournal>>

\* The Host answers and changes nothing.
LEMMA HostSays ==
    ASSUME FtInv, Apart, UNCHANGED <<src, hostJournal, part, dest, landed, clobbered>>,
           host.step = "idle", host' = host \/ host' = [host EXCEPT !.step = "idle"],
           chan # << >>, chan[1].ans = NoMsg, NEW r, Answer(r),
           r \in Letter,
           r.k = "manifest" => r.v \in Versions,
           Active(r.k) => r.k = host.phase /\ r.off = host.off
    PROVE  FtInv'
<1>0. /\ HostOK(host, chan, part, landed, Kind, Versions)
      /\ JournalOK(hostJournal, host, Kind, Versions)
      /\ PartOK(part) /\ landed \in Nat
      /\ DestOK(dest, Versions) /\ ~clobbered /\ src \in Versions
  BY HostState
<1>1. /\ DOMAIN host' = HostFields /\ host'.step = "idle" /\ host'.up = host.up
      /\ host'.phase = host.phase /\ host'.m = host.m /\ host'.off = host.off
      /\ host'.path = host.path /\ host'.get = host.get
  BY <1>0 DEF HostOK, HostFields
<1>2. HostOK(host', chan', part', landed', Kind, Versions)
  BY <1>0, <1>1 DEF HostOK
<1>3. JournalOK(hostJournal', host', Kind, Versions)
  BY <1>0, <1>1 DEF JournalOK
<1>4. Stays
  BY <1>1 DEF Stays, Held
<1>5. Active(r.k) => Held(part', hostJournal', host', landed', r.off)
  BY <1>0, <1>1 DEF HostOK, JournalOK, Held
<1>6. HostSide
  BY <1>0, <1>2, <1>3, <1>4 DEF HostSide, Apart
<1> QED  BY <1>5, <1>6, HostAnswers

\* A plain answer, and one that carries a manifest or a chunk.
LEMMA PlainAnswers ==
    /\ \A k \in Words, off, v \in Int :
         Msg(k, off, v) \in Letter /\ Msg(k, off, v).k = k /\ Msg(k, off, v).off = off /\ Msg(k, off, v).v = v
    /\ Error \in Letter /\ Error.k = "error" /\ NotFound \in Letter /\ NotFound.k = "notfound"
BY DEF Msg, Letter, Words, Error, NotFound

\* The status of an entry.
LEMMA StatusAnswer ==
    ASSUME NEW h, h.phase \in HostPhases, h.off \in Int, h.m \in Int
    PROVE  Status(h) \in Letter /\ Status(h).k = h.phase /\ Status(h).off = h.off
BY DEF Status, Msg, Letter, Words, HostPhases

\* What a snapshot of the store says.
LEMMA SnapshotFields ==
    ASSUME NEW h
    PROVE  /\ DOMAIN Snapshot(h) = JournalFields /\ Snapshot(h).phase = h.phase /\ Snapshot(h).m = h.m
           /\ Snapshot(h).off = h.off /\ Snapshot(h).path = h.path /\ Snapshot(h).get = h.get
           /\ Snapshot(h).tied = Active(h.phase)
BY DEF Snapshot, JournalFields

\* The journal is the store's snapshot, or what it was.
LEMMA JournalOrSnapshot ==
    ASSUME NEW j, NEW h, NEW k, j = hostJournal \/ j = Snapshot(h),
           JournalOK(hostJournal, host, Kind, Versions),
           h.phase \in HostPhases, h.m \in Int, h.off \in Int, h.path \in Names \cup {NoPath},
           h.get \in {0} \cup Versions, Kind = "get" => h.phase = "none",
           Active(h.phase) => h.m \in Versions,
           Active(k.phase) /\ k.step \in {"idle", "named"} =>
             \/ j = hostJournal /\ Active(host.phase) /\ host.step \in {"idle", "named"}
             \/ j = Snapshot(h) /\ Active(h.phase)
    PROVE  JournalOK(j, k, Kind, Versions)
BY SnapshotFields DEF JournalOK

\* put_begin
LEMMA FtPutBegin == ASSUME FtInv, Apart, PutBegin PROVE FtInv'
<1>0. /\ HostOK(host, chan, part, landed, Kind, Versions)
      /\ JournalOK(hostJournal, host, Kind, Versions)
      /\ PartOK(part) /\ PartOK(NewPart) /\ landed \in Nat
      /\ DestOK(dest, Versions) /\ ~clobbered /\ src \in Versions /\ Versions \subseteq Int
      /\ Kind \in {"put", "get"} /\ chan \in Seq(Packet)
      /\ chan # << >> => chan[1] \in Packet /\ PacketOK(chan[1], Kind, Versions)
  BY HostState
<1>1. /\ host.up /\ chan # << >> /\ chan[1].ans = NoMsg /\ chan[1].req.k = "putbegin"
      /\ host.step = "idle" /\ UNCHANGED <<job, dest, src, landed, clobbered>>
  BY DEF PutBegin, Starting, Serving
<1>2. Kind = "put" /\ chan[1].req.v \in Versions
  BY <1>0, <1>1 DEF PacketOK, GetWords
<1>3. CASE \E r \in {Status(host), Error} : Reply(host, r) /\ UNCHANGED <<hostJournal, part>>
  <2>1. PICK r \in {Status(host), Error} : Reply(host, r) /\ UNCHANGED <<hostJournal, part>>
    BY <1>3
  <2>2. r \in Letter /\ (r = Status(host) => r.k = host.phase /\ r.off = host.off) /\ (r = Error => r.k = "error")
    BY <1>0, StatusAnswer, PlainAnswers DEF HostOK
  <2> QED  BY <1>0, <1>1, <2>1, <2>2, HostSays DEF Reply, Active, HostOK, HostPhases
<1>4. CASE /\ ~Known /\ part' = NewPart /\ hostJournal' = [hostJournal EXCEPT !.tied = FALSE]
           /\ Next1([host EXCEPT !.step = "begun", !.phase = PhaseAt(0), !.m = chan[1].req.v,
                                 !.off = 0, !.last = NoMsg, !.path = NoPath])
  <2> DEFINE v == chan[1].req.v
             h == [host EXCEPT !.step = "begun", !.phase = PhaseAt(0), !.m = v,
                               !.off = 0, !.last = NoMsg, !.path = NoPath]
  <2>1. host' = h /\ chan' = chan /\ v \in Versions
    BY <1>2, <1>4 DEF Next1
  <2> HIDE DEF v
  <2>2. /\ DOMAIN h = HostFields /\ h.step = "begun" /\ h.phase = PhaseAt(0) /\ h.m = v /\ h.off = 0
        /\ h.path = NoPath /\ h.get = host.get
    BY <1>0 DEF HostOK, HostFields
  <2> HIDE DEF h
  <2>3. h.phase \in {"receiving", "ready"} /\ (h.phase = "ready" => Total = 0)
    BY <2>2 DEF PhaseAt
  <2>4. Total = 0 => Whole(v) = << >>
    BY DEF Whole
  <2>5. part'.there /\ part'.data = << >> /\ Len(part'.data) = 0 /\ PartOK(part')
    BY <1>0, <1>4 DEF NewPart
  <2>6. HostOK(host', chan', part', landed', Kind, Versions)
    BY <1>0, <1>1, <1>2, <2>1, <2>2, <2>3, <2>4, <2>5 DEF HostOK, HostPhases, Active
  <2>7. /\ DOMAIN hostJournal' = JournalFields /\ hostJournal'.phase = hostJournal.phase
        /\ hostJournal'.m = hostJournal.m /\ hostJournal'.off = hostJournal.off
        /\ hostJournal'.path = hostJournal.path /\ hostJournal'.get = hostJournal.get
    BY <1>0, <1>4 DEF JournalOK, JournalFields
  <2>8. JournalOK(hostJournal', host', Kind, Versions)
    BY <1>0, <1>2, <2>1, <2>2, <2>7 DEF JournalOK
  <2>9. HostSide
    BY <1>0, <1>1, <1>2, <2>5, <2>6, <2>8 DEF HostSide, Apart, Spared
  <2> QED  BY <2>1, <2>9, HostGoesOn
<1> QED  BY <1>3, <1>4 DEF PutBegin

\* The entry of a new put is journaled, or taken away again.
LEMMA FtPutBegun == ASSUME FtInv, Apart, PutBegun PROVE FtInv'
<1>0. /\ HostOK(host, chan, part, landed, Kind, Versions)
      /\ JournalOK(hostJournal, host, Kind, Versions)
      /\ PartOK(part) /\ PartOK(NoPart) /\ landed \in Nat
      /\ DestOK(dest, Versions) /\ ~clobbered /\ src \in Versions
      /\ Kind \in {"put", "get"} /\ chan \in Seq(Packet)
      /\ chan # << >> => chan[1] \in Packet /\ PacketOK(chan[1], Kind, Versions)
  BY HostState
<1>1. /\ host.up /\ chan # << >> /\ chan[1].ans = NoMsg /\ chan[1].req.k = "putbegin"
      /\ host.step = "begun" /\ UNCHANGED <<job, dest, src, landed, clobbered>>
  BY DEF PutBegun, Serving
<1>2. Kind = "put" /\ Spared
  BY <1>0, <1>1 DEF PacketOK, GetWords, Spared
<1>3. Active(host.phase)
  BY <1>0, <1>1 DEF HostOK
<1>4. CASE PersistOk(host) /\ Reply(host, Status(host)) /\ UNCHANGED part
  <2>1. host' = [host EXCEPT !.step = "idle"] /\ Answer(Status(host)) /\ hostJournal' = Snapshot(host)
    BY <1>4 DEF Reply, PersistOk
  <2>2. /\ DOMAIN host' = HostFields /\ host'.step = "idle" /\ host'.up = host.up
        /\ host'.phase = host.phase /\ host'.m = host.m /\ host'.off = host.off
        /\ host'.path = host.path /\ host'.get = host.get
    BY <1>0, <2>1 DEF HostOK, HostFields
  <2>3. HostOK(host', chan', part', landed', Kind, Versions)
    BY <1>0, <1>1, <1>4, <2>2 DEF HostOK
  <2>4. JournalOK(hostJournal', host', Kind, Versions)
    BY <1>0, <1>2, <1>3, <2>1, <2>2, JournalOrSnapshot DEF HostOK
  <2>5. Status(host) \in Letter /\ Status(host).k = host.phase /\ Status(host).off = host.off
    BY <1>0, StatusAnswer DEF HostOK
  <2>6. Held(part', hostJournal', host', landed', host.off)
    BY <1>0, <1>1, <1>3, <1>4, <2>2, <2>3, <2>4 DEF HostOK, JournalOK, Held
  <2>7. HostSide
    BY <1>0, <1>1, <1>2, <1>4, <2>3, <2>4 DEF HostSide, Apart
  <2> QED  BY <1>1, <1>3, <2>1, <2>5, <2>6, <2>7, HostAnswers DEF Active
<1>5. CASE /\ PersistFails(host) /\ part' = NoPart
           /\ Reply([host EXCEPT !.phase = "none", !.m = 0], Error)
  <2>1. /\ host' = [[host EXCEPT !.phase = "none", !.m = 0] EXCEPT !.step = "idle"] /\ Answer(Error)
        /\ hostJournal' = hostJournal \/ hostJournal' = Snapshot(host)
    BY <1>5 DEF Reply, PersistFails
  <2>2. /\ DOMAIN host' = HostFields /\ host'.step = "idle"
        /\ host'.phase = "none" /\ host'.m = 0 /\ host'.off = host.off
        /\ host'.path = host.path /\ host'.get = host.get
    BY <1>0, <2>1 DEF HostOK, HostFields
  <2>3. HostOK(host', chan', part', landed', Kind, Versions)
    BY <1>0, <1>1, <2>2 DEF HostOK, HostPhases, Active
  <2>4. JournalOK(hostJournal', host', Kind, Versions)
    BY <1>0, <1>2, <1>3, <2>1, <2>2, JournalOrSnapshot DEF HostOK, Active
  <2>5. HostSide
    BY <1>0, <1>1, <1>2, <1>5, <2>3, <2>4 DEF HostSide, Apart
  <2> QED  BY <1>1, <2>1, <2>5, PlainAnswers, HostAnswers DEF Active
<1> QED  BY <1>4, <1>5 DEF PutBegun

\* The record a step of the Host makes of its entry.
Becomes(h, step, phase, off, path, get) ==
  /\ DOMAIN h = HostFields /\ h.step = step /\ h.up = host.up /\ h.phase = phase
  /\ h.off = off /\ h.path = path /\ h.get = get

\* put_chunk
LEMMA FtPutChunk == ASSUME FtInv, Apart, PutChunk PROVE FtInv'
<1>0. /\ HostOK(host, chan, part, landed, Kind, Versions)
      /\ JournalOK(hostJournal, host, Kind, Versions)
      /\ PartOK(part) /\ landed \in Nat
      /\ DestOK(dest, Versions) /\ ~clobbered /\ src \in Versions
      /\ Kind \in {"put", "get"} /\ chan \in Seq(Packet)
      /\ chan # << >> => chan[1] \in Packet /\ PacketOK(chan[1], Kind, Versions)
  BY HostState
<1>1. /\ host.up /\ chan # << >> /\ chan[1].ans = NoMsg /\ chan[1].req.k = "putchunk"
      /\ host.step = "idle" /\ UNCHANGED <<job, hostJournal, dest, src, landed, clobbered>>
  BY DEF PutChunk, Starting, Serving
<1>2. Kind = "put"
  BY <1>0, <1>1 DEF PacketOK, GetWords
<1> DEFINE c == chan[1].req
<1>3. c.off \in Int /\ c.v \in Int
  BY <1>0, <1>1 DEF Packet, Letter
<1>4. CASE \E r \in {Status(host), Error, NotFound} : Reply(host, r) /\ UNCHANGED part
  <2>1. PICK r \in {Status(host), Error, NotFound} : Reply(host, r) /\ UNCHANGED part
    BY <1>4
  <2>2. /\ r \in Letter /\ (r = Status(host) => r.k = host.phase /\ r.off = host.off)
        /\ (r = Error => r.k = "error") /\ (r = NotFound => r.k = "notfound")
    BY <1>0, <2>1, StatusAnswer, PlainAnswers DEF HostOK
  <2> QED  BY <1>0, <1>1, <2>1, <2>2, HostSays DEF Reply, Active, HostOK, HostPhases
<1>5. ASSUME Active(host.phase), ~Wrong(c)
      PROVE  /\ host.phase = "receiving" /\ c.off = host.off /\ Len(part.data) = host.off /\ part.there
             /\ c.off + 1 = Total => Append(part.data, c.v) = Whole(host.m)
  BY <1>0, <1>1, <1>5 DEF Wrong, Active, HostOK
<1>6. CASE /\ Active(host.phase) /\ ~Wrong(c)
           /\ LET h == [host EXCEPT !.off = @ + 1, !.last = c, !.phase = PhaseAt(c.off + 1)]
              IN  Reply(h, Status(h)) /\ part' = Appended(c.v)
  <2> DEFINE ph == PhaseAt(c.off + 1)
             h == [host EXCEPT !.off = host.off + 1, !.last = c, !.phase = ph]
  <2>1. host' = [h EXCEPT !.step = "idle"] /\ Answer(Status(h)) /\ part' = Appended(c.v)
    BY <1>6 DEF Reply
  <2>2. ph \in {"receiving", "ready"} /\ (ph = "ready" => c.off + 1 = Total)
    BY DEF PhaseAt
  <2> HIDE DEF ph, c
  <2>3. DOMAIN h = HostFields /\ h.off = host.off + 1 /\ h.phase = ph /\ h.m = host.m /\ h.path = host.path
        /\ h.get = host.get /\ h.up = host.up
    BY <1>0 DEF HostOK, HostFields
  <2> HIDE DEF h
  <2>4. Becomes(host', "idle", ph, host.off + 1, host.path, host.get) /\ host'.m = host.m
    BY <2>1, <2>3 DEF Becomes, HostFields
  <2>5. /\ host.phase = "receiving" /\ c.off = host.off /\ Len(part.data) = host.off /\ part.there
        /\ c.off + 1 = Total => Append(part.data, c.v) = Whole(host.m)
    BY <1>5, <1>6
  <2>6. /\ PartOK(part') /\ part'.there /\ part'.data = Append(part.data, c.v)
        /\ Len(part'.data) = host.off + 1 /\ host.off \in Int
    BY <1>0, <1>3, <2>1, <2>5 DEF PartOK, Appended, HostOK
  <2>7. HostOK(host', chan', part', landed', Kind, Versions)
    BY <1>0, <1>1, <1>2, <2>2, <2>4, <2>5, <2>6 DEF HostOK, Becomes, HostPhases, Active
  <2>8. JournalOK(hostJournal', host', Kind, Versions)
    BY <1>0, <1>1, <2>5 DEF JournalOK, Active
  <2>9. Stays
    BY <1>0, <1>1, <2>2, <2>4, <2>5, <2>6 DEF Stays, Held, Becomes, Active
  <2>10. HostSide
    BY <1>0, <1>1, <1>2, <2>6, <2>7, <2>8, <2>9 DEF HostSide, Apart
  <2>11. Status(h) \in Letter /\ Status(h).k = ph /\ Status(h).off = host.off + 1
    BY <1>0, <2>2, <2>3, <2>6, StatusAnswer DEF HostOK, HostPhases
  <2>12. Held(part', hostJournal', host', landed', host.off + 1)
    BY <1>0, <1>1, <2>2, <2>4, <2>5, <2>6 DEF Held, JournalOK, Becomes, Active
  <2> QED  BY <1>1, <2>1, <2>2, <2>10, <2>11, <2>12, HostAnswers
<1>7. CASE Active(host.phase) /\ ~Wrong(c) /\ Reply(host, Error) /\ part' \in Torn(c.v)
  <2>1. /\ host.phase = "receiving" /\ c.off = host.off /\ Len(part.data) = host.off /\ part.there
    BY <1>5, <1>7
  <2>2. part' \in {[part EXCEPT !.ragged = TRUE], Appended(c.v), part} /\ host' = [host EXCEPT !.step = "idle"] /\ Answer(Error)
    BY <1>7 DEF Torn, Reply
  <2> HIDE DEF c
  <2>3. /\ PartOK(part') /\ part'.there /\ Len(part'.data) \in Int /\ Len(part'.data) >= host.off /\ host.off \in Int
    <3>1. host.off \in Int
      BY <1>0 DEF HostOK
    <3>2. CASE part' = part
      BY <1>0, <2>1, <3>1, <3>2
    <3>3. CASE part' = [part EXCEPT !.ragged = TRUE]
      BY <1>0, <2>1, <3>1, <3>3 DEF PartOK
    <3>4. CASE part' = Appended(c.v)
      BY <1>0, <1>3, <2>1, <3>1, <3>4 DEF PartOK, Appended
    <3> QED  BY <2>2, <3>2, <3>3, <3>4
  <2>4. Becomes(host', "idle", host.phase, host.off, host.path, host.get) /\ host'.m = host.m
    BY <1>0, <2>2 DEF Becomes, HostOK, HostFields
  <2>5. HostOK(host', chan', part', landed', Kind, Versions)
    BY <1>0, <1>1, <2>1, <2>3, <2>4 DEF HostOK, Becomes
  <2>6. JournalOK(hostJournal', host', Kind, Versions)
    BY <1>0, <1>1, <2>4 DEF JournalOK, Becomes
  <2>7. Stays
    BY <1>1, <2>1, <2>3, <2>4 DEF Stays, Held, Becomes
  <2>8. HostSide
    BY <1>0, <1>1, <1>2, <2>3, <2>5, <2>6, <2>7 DEF HostSide, Apart
  <2> QED  BY <1>1, <2>2, <2>8, PlainAnswers, HostAnswers DEF Active
<1> QED  BY <1>4, <1>6, <1>7 DEF PutChunk

\* finalize, up to the journaled path.
LEMMA FtFinalize == ASSUME FtInv, Apart, Finalize PROVE FtInv'
<1>0. /\ HostOK(host, chan, part, landed, Kind, Versions)
      /\ JournalOK(hostJournal, host, Kind, Versions)
      /\ PartOK(part) /\ landed \in Nat
      /\ DestOK(dest, Versions) /\ ~clobbered /\ src \in Versions
      /\ Kind \in {"put", "get"} /\ chan \in Seq(Packet)
      /\ chan # << >> => chan[1] \in Packet /\ PacketOK(chan[1], Kind, Versions)
  BY HostState
<1>1. /\ host.up /\ chan # << >> /\ chan[1].ans = NoMsg /\ chan[1].req.k = "finalize"
      /\ host.step = "idle" /\ UNCHANGED <<job, part, dest, src, landed, clobbered>>
  BY DEF Finalize, Starting, Serving
<1>2. Kind = "put"
  BY <1>0, <1>1 DEF PacketOK, GetWords
<1>3. CASE \E r \in {Status(host), Error, NotFound} : Reply(host, r) /\ UNCHANGED hostJournal
  <2>1. PICK r \in {Status(host), Error, NotFound} : Reply(host, r) /\ UNCHANGED hostJournal
    BY <1>3
  <2>2. /\ r \in Letter /\ (r = Status(host) => r.k = host.phase /\ r.off = host.off)
        /\ (r = Error => r.k = "error") /\ (r = NotFound => r.k = "notfound")
    BY <1>0, <2>1, StatusAnswer, PlainAnswers DEF HostOK
  <2> QED  BY <1>0, <1>1, <2>1, <2>2, HostSays DEF Reply, Active, HostOK, HostPhases
<1>4. CASE /\ host.phase = "ready"
           /\ \E n \in Chosen : LET h == [host EXCEPT !.path = n] IN
                \/ PersistOk(h) /\ Next1([h EXCEPT !.step = "named"])
                \/ PersistFails(h) /\ Reply(h, Error)
  <2>1. PICK n \in Chosen : LET h == [host EXCEPT !.path = n] IN
                \/ PersistOk(h) /\ Next1([h EXCEPT !.step = "named"])
                \/ PersistFails(h) /\ Reply(h, Error)
    BY <1>4
  <2>2. n \in Names
    BY <1>0, <2>1 DEF Chosen, HostOK, FreeNames, Names
  <2> DEFINE h == [host EXCEPT !.path = n]
  <2>3. \/ hostJournal' = Snapshot(h) /\ host' = [h EXCEPT !.step = "named"] /\ chan' = chan
        \/ /\ hostJournal' = hostJournal \/ hostJournal' = Snapshot(h)
           /\ host' = [h EXCEPT !.step = "idle"] /\ Answer(Error)
    BY <2>1 DEF PersistOk, PersistFails, Next1, Reply
  <2>4. Becomes(h, host.step, host.phase, host.off, n, host.get) /\ h.m = host.m
    BY <1>0 DEF Becomes, HostOK, HostFields
  <2> HIDE DEF h
  <2>5. ASSUME NEW st \in {"idle", "named"}, host' = [h EXCEPT !.step = st],
               hostJournal' = hostJournal \/ hostJournal' = Snapshot(h),
               st = "named" => chan' = chan
        PROVE  HostSide
    <3>1. Becomes(host', st, host.phase, host.off, n, host.get) /\ host'.m = host.m
      BY <2>4, <2>5 DEF Becomes, HostFields
    <3>2. HostOK(host', chan', part', landed', Kind, Versions)
      BY <1>0, <1>1, <1>4, <2>2, <2>5, <3>1 DEF HostOK, Becomes, Active
    <3>3. JournalOK(hostJournal', host', Kind, Versions)
      <4>1. /\ h.phase \in HostPhases /\ h.m \in Int /\ h.off \in Int /\ h.path \in Names \cup {NoPath}
            /\ h.get \in {0} \cup Versions /\ Active(h.phase) /\ h.m \in Versions
        BY <1>0, <1>4, <2>2, <2>4 DEF HostOK, Becomes, Active
      <4> QED  BY <1>0, <1>1, <1>2, <1>4, <2>5, <4>1, JournalOrSnapshot DEF Active
    <3>4. Active(hostJournal'.phase) /\ hostJournal'.tied
      BY <1>4, <2>5, <3>1, <3>3 DEF JournalOK, Becomes, Active
    <3>5. Stays
      BY <1>1, <1>4, <3>1, <3>4 DEF Stays, Held, Becomes, Active
    <3> QED  BY <1>0, <1>1, <1>2, <3>2, <3>3, <3>5 DEF HostSide, Apart
  <2>6. CASE hostJournal' = Snapshot(h) /\ host' = [h EXCEPT !.step = "named"] /\ chan' = chan
    BY <2>5, <2>6, HostGoesOn
  <2>7. CASE /\ hostJournal' = hostJournal \/ hostJournal' = Snapshot(h)
             /\ host' = [h EXCEPT !.step = "idle"] /\ Answer(Error)
    <3>1. HostSide
      BY <2>5, <2>7
    <3> QED  BY <1>1, <2>7, <3>1, PlainAnswers, HostAnswers DEF Active
  <2> QED  BY <2>3, <2>6, <2>7
<1>5. \/ \E r \in {Status(host), Error, NotFound} : Reply(host, r) /\ UNCHANGED hostJournal
      \/ /\ host.phase = "ready"
         /\ \E n \in Chosen : LET h == [host EXCEPT !.path = n] IN
                \/ PersistOk(h) /\ Next1([h EXCEPT !.step = "named"])
                \/ PersistFails(h) /\ Reply(h, Error)
  BY DEF Finalize
<1> QED  BY <1>3, <1>4, <1>5

\* The part is renamed into place, or the path is withdrawn.
LEMMA FtRename == ASSUME FtInv, Apart, Rename PROVE FtInv'
<1>0. /\ HostOK(host, chan, part, landed, Kind, Versions)
      /\ JournalOK(hostJournal, host, Kind, Versions)
      /\ PartOK(part) /\ PartOK(NoPart) /\ landed \in Nat
      /\ DestOK(dest, Versions) /\ ~clobbered /\ src \in Versions
      /\ Kind \in {"put", "get"} /\ chan \in Seq(Packet)
  BY HostState
<1>1. /\ host.up /\ chan # << >> /\ chan[1].ans = NoMsg
      /\ host.step = "named" /\ UNCHANGED <<job, src>>
  BY DEF Rename, Serving
<1>2. /\ Kind = "put" /\ host.phase = "ready" /\ host.path \in Names /\ host.m \in Versions
      /\ part.data = Whole(host.m) /\ part.there /\ Active(hostJournal.phase) /\ hostJournal.tied
  BY <1>0, <1>1 DEF HostOK, JournalOK, Active
<1>3. CASE /\ ~Occupied(host.path)
           /\ dest' = [dest EXCEPT ![host.path] = [by |-> "us", data |-> part.data]]
           /\ part' = NoPart /\ landed' = landed + 1
           /\ clobbered' = (clobbered \/ (dest[host.path].by = "other" /\ Policy # "replace"))
           /\ Next1([host EXCEPT !.step = "renamed"]) /\ UNCHANGED hostJournal
  <2>1. host' = [host EXCEPT !.step = "renamed"] /\ chan' = chan
    BY <1>3 DEF Next1
  <2>2. Becomes(host', "renamed", host.phase, host.off, host.path, host.get) /\ host'.m = host.m
    BY <1>0, <2>1 DEF Becomes, HostOK, HostFields
  <2>3. ~clobbered'
    BY <1>0, <1>3 DEF Occupied
  <2>4. DestOK(dest', Versions)
    <3> DEFINE f == [by |-> "us", data |-> part.data]
    <3>1. f.data = Whole(host.m) /\ dest' = [dest EXCEPT ![host.path] = f]
      BY <1>2, <1>3
    <3> HIDE DEF f
    <3> QED  BY <1>0, <1>2, <3>1 DEF DestOK
  <2>5. landed' \in Nat /\ landed' > 0 /\ landed' >= landed
    BY <1>0, <1>3
  <2>6. HostOK(host', chan', part', landed', Kind, Versions)
    BY <1>0, <1>1, <1>2, <2>1, <2>2, <2>5 DEF HostOK, Becomes, Active
  <2>7. JournalOK(hostJournal', host', Kind, Versions)
    BY <1>0, <1>3, <2>2 DEF JournalOK, Becomes
  <2>8. Stays
    BY <2>5 DEF Stays, Held
  <2>9. HostSide
    BY <1>0, <1>1, <1>2, <1>3, <2>3, <2>4, <2>5, <2>6, <2>7, <2>8 DEF HostSide, Apart
  <2> QED  BY <2>1, <2>9, HostGoesOn
<1> DEFINE back == [host EXCEPT !.path = NoPath]
<1>4. Becomes(back, host.step, host.phase, host.off, NoPath, host.get) /\ back.m = host.m
  BY <1>0 DEF Becomes, HostOK, HostFields
<1> HIDE DEF back
<1>5. ASSUME host' = [back EXCEPT !.step = "idle"], UNCHANGED <<part, dest, landed, clobbered>>,
             hostJournal' = hostJournal \/ hostJournal' = Snapshot(back)
      PROVE  HostSide
  <2>1. Becomes(host', "idle", host.phase, host.off, NoPath, host.get) /\ host'.m = host.m
    BY <1>4, <1>5 DEF Becomes, HostFields
  <2>2. HostOK(host', chan', part', landed', Kind, Versions)
    BY <1>0, <1>1, <1>2, <1>5, <2>1 DEF HostOK, Becomes, Active
  <2>3. JournalOK(hostJournal', host', Kind, Versions)
    <3>1. /\ back.phase \in HostPhases /\ back.m \in Int /\ back.off \in Int /\ back.path \in Names \cup {NoPath}
          /\ back.get \in {0} \cup Versions /\ Active(back.phase) /\ back.m \in Versions
      BY <1>0, <1>2, <1>4 DEF HostOK, Becomes, Active
    <3> QED  BY <1>0, <1>1, <1>2, <1>5, <3>1, JournalOrSnapshot DEF Active
  <2>4. Active(hostJournal'.phase) /\ hostJournal'.tied
    BY <1>2, <2>1, <2>3 DEF JournalOK, Becomes, Active
  <2>5. Stays
    BY <1>2, <1>5, <2>1, <2>4 DEF Stays, Held, Becomes, Active
  <2> QED  BY <1>0, <1>1, <1>2, <1>5, <2>2, <2>3, <2>5 DEF HostSide, Apart
<1>6. ASSUME host' = [back EXCEPT !.step = "idle"], UNCHANGED <<part, dest, landed, clobbered>>,
             hostJournal' = hostJournal \/ hostJournal' = Snapshot(back),
             chan' = chan \/ Answer(Error)
      PROVE  FtInv'
  <2>1. HostSide
    BY <1>5, <1>6
  <2>2. CASE chan' = chan
    BY <2>1, <2>2, HostGoesOn
  <2>3. CASE Answer(Error)
    BY <1>1, <2>1, <2>3, PlainAnswers, HostAnswers DEF Active
  <2> QED  BY <1>6, <2>2, <2>3
<1>7. CASE /\ \/ PersistOk(back) /\ (IF Policy = "rename"
                                     THEN Next1([back EXCEPT !.step = "idle"])
                                     ELSE Reply(back, Error))
              \/ PersistFails(back) /\ Reply(back, Error)
           /\ UNCHANGED <<part, dest, landed, clobbered>>
  BY <1>6, <1>7 DEF PersistOk, PersistFails, Next1, Reply
<1>8. CASE hostJournal' = Snapshot(back) /\ Reply(back, Error) /\ UNCHANGED <<part, dest, landed, clobbered>>
  BY <1>6, <1>8 DEF Reply
<1> QED  BY <1>3, <1>7, <1>8 DEF Rename, back

\* The end of finalize.
LEMMA FtFinalized == ASSUME FtInv, Apart, Finalized PROVE FtInv'
<1>0. /\ HostOK(host, chan, part, landed, Kind, Versions)
      /\ JournalOK(hostJournal, host, Kind, Versions)
      /\ PartOK(part) /\ landed \in Nat
      /\ DestOK(dest, Versions) /\ ~clobbered /\ src \in Versions
      /\ Kind \in {"put", "get"} /\ chan \in Seq(Packet)
  BY HostState
<1>1. /\ host.up /\ chan # << >> /\ chan[1].ans = NoMsg
      /\ host.step = "renamed" /\ UNCHANGED <<job, part, dest, src, landed, clobbered>>
  BY DEF Finalized, Serving
<1>2. Kind = "put" /\ landed > 0
  BY <1>0, <1>1 DEF HostOK
<1> DEFINE h == [host EXCEPT !.phase = "completed", !.path = NoPath]
<1>3. /\ hostJournal' = hostJournal \/ hostJournal' = Snapshot(h)
      /\ host' = [h EXCEPT !.step = "idle"] /\ (Answer(Error) \/ Answer(Status(h)))
  BY DEF Finalized, PersistOk, PersistFails, Reply
<1>4. Becomes(h, host.step, "completed", host.off, NoPath, host.get) /\ h.m = host.m
  BY <1>0 DEF Becomes, HostOK, HostFields
<1> HIDE DEF h
<1>5. Becomes(host', "idle", "completed", host.off, NoPath, host.get) /\ host'.m = host.m
  BY <1>3, <1>4 DEF Becomes, HostFields
<1>6. HostOK(host', chan', part', landed', Kind, Versions)
  BY <1>0, <1>1, <1>2, <1>5 DEF HostOK, Becomes, Active, HostPhases
<1>7. JournalOK(hostJournal', host', Kind, Versions)
  <2>1. /\ h.phase \in HostPhases /\ h.m \in Int /\ h.off \in Int /\ h.path \in Names \cup {NoPath}
        /\ h.get \in {0} \cup Versions /\ ~Active(h.phase) /\ ~Active(host'.phase)
    BY <1>0, <1>4, <1>5 DEF HostOK, Becomes, Active, HostPhases
  <2> QED  BY <1>0, <1>2, <1>3, <2>1, JournalOrSnapshot
<1>8. Stays
  BY <1>1, <1>2 DEF Stays, Held
<1>9. HostSide
  BY <1>0, <1>1, <1>2, <1>6, <1>7, <1>8 DEF HostSide, Apart
<1>10. Status(h) \in Letter /\ Status(h).k = "completed"
  BY <1>0, <1>4, StatusAnswer DEF HostOK, Becomes, HostPhases
<1>11. CASE Answer(Error)
  BY <1>1, <1>9, <1>11, PlainAnswers, HostAnswers DEF Active
<1>12. CASE Answer(Status(h))
  BY <1>1, <1>9, <1>10, <1>12, HostAnswers DEF Active
<1> QED  BY <1>3, <1>11, <1>12

\* get_begin, get_chunk and get_status
LEMMA FtGets == ASSUME FtInv, Apart, GetBegin \/ GetChunk \/ GetStatus PROVE FtInv'
<1>0. /\ HostOK(host, chan, part, landed, Kind, Versions)
      /\ JournalOK(hostJournal, host, Kind, Versions)
      /\ PartOK(part) /\ landed \in Nat
      /\ DestOK(dest, Versions) /\ ~clobbered /\ src \in Versions /\ Versions \subseteq Int
      /\ Kind \in {"put", "get"} /\ chan \in Seq(Packet)
      /\ chan # << >> => chan[1] \in Packet /\ PacketOK(chan[1], Kind, Versions)
  BY HostState
<1>1. /\ host.up /\ chan # << >> /\ chan[1].ans = NoMsg
      /\ host.step = "idle" /\ UNCHANGED <<job, part, dest, src, landed, clobbered>>
  BY DEF GetBegin, GetChunk, GetStatus, Starting, Serving
<1>2. chan[1].req.off \in Int /\ src \in Int /\ (host.get # 0 => host.get \in Versions /\ host.get \in Int)
  BY <1>0, <1>1 DEF Packet, Letter, HostOK
<1>3. ASSUME NEW r, UNCHANGED hostJournal, host' = host \/ host' = [host EXCEPT !.step = "idle"], Answer(r),
             \/ r = Status(host) \/ r = Error \/ r = NotFound
             \/ r = Msg("manifest", 0, host.get) /\ host.get # 0
             \/ r = Msg("chunk", chan[1].req.off, src)
      PROVE  FtInv'
  <2>1. CASE r = Status(host)
    BY <1>0, <1>1, <1>3, <2>1, StatusAnswer, HostSays DEF HostOK, HostPhases
  <2>2. CASE r = Error \/ r = NotFound
    BY <1>1, <1>3, <2>2, PlainAnswers, HostSays DEF Active
  <2>3. CASE r = Msg("manifest", 0, host.get) /\ host.get # 0
    <3>1. r \in Letter /\ r.k = "manifest" /\ r.v = host.get
      <4>1. "manifest" \in Words /\ 0 \in Int /\ host.get \in Int
        BY <1>2, <2>3 DEF Words
      <4> QED  BY <2>3, <4>1, PlainAnswers
    <3> QED  BY <1>1, <1>2, <1>3, <2>3, <3>1, HostSays DEF Active
  <2>4. CASE r = Msg("chunk", chan[1].req.off, src)
    <3>1. r \in Letter /\ r.k = "chunk"
      <4>1. "chunk" \in Words
        BY DEF Words
      <4> QED  BY <1>2, <2>4, <4>1, PlainAnswers
    <3> QED  BY <1>1, <1>3, <3>1, HostSays DEF Active
  <2> QED  BY <1>3, <2>1, <2>2, <2>3, <2>4
<1>4. CASE GetStatus
  BY <1>3, <1>4 DEF GetStatus, Reply
<1>5. CASE GetChunk
  BY <1>3, <1>5 DEF GetChunk
<1>6. CASE GetBegin
  <2>1. Kind = "get"
    BY <1>0, <1>1, <1>6 DEF GetBegin, Starting, Serving, PacketOK, PutWords
  <2>2. CASE /\ host.phase # "none" \/ host.get # 0
             /\ Reply(host, IF host.phase # "none" THEN Error ELSE Msg("manifest", 0, host.get))
             /\ UNCHANGED hostJournal
    BY <1>3, <2>2 DEF Reply
  <2> DEFINE h == [host EXCEPT !.get = src]
  <2>3. CASE \/ PersistOk(h) /\ Reply(h, Msg("manifest", 0, src))
             \/ PersistFails(h) /\ Reply(host, Error)
    <3>1. \/ hostJournal' = Snapshot(h) /\ host' = [h EXCEPT !.step = "idle"] /\ Answer(Msg("manifest", 0, src))
          \/ (hostJournal' = hostJournal \/ hostJournal' = Snapshot(h))
             /\ host' = [host EXCEPT !.step = "idle"] /\ Answer(Error)
      BY <2>3 DEF PersistOk, PersistFails, Reply
    <3>2. Becomes(h, host.step, host.phase, host.off, host.path, src) /\ h.m = host.m
      BY <1>0 DEF Becomes, HostOK, HostFields
    <3> HIDE DEF h
    <3>3. \E g \in {src, host.get} : Becomes(host', "idle", host.phase, host.off, host.path, g) /\ host'.m = host.m
      BY <1>0, <3>1, <3>2 DEF Becomes, HostFields, HostOK
    <3>4. host.phase = "none"
      BY <1>0, <2>1 DEF HostOK
    <3>5. HostOK(host', chan', part', landed', Kind, Versions)
      BY <1>0, <1>1, <2>1, <3>3, <3>4 DEF HostOK, Becomes, Active
    <3>6. JournalOK(hostJournal', host', Kind, Versions)
      <4>1. /\ h.phase \in HostPhases /\ h.m \in Int /\ h.off \in Int /\ h.path \in Names \cup {NoPath}
            /\ h.get \in {0} \cup Versions /\ ~Active(h.phase) /\ ~Active(host'.phase) /\ h.phase = "none"
        BY <1>0, <3>2, <3>3, <3>4 DEF HostOK, Becomes, Active, HostPhases
      <4> QED  BY <1>0, <3>1, <4>1, JournalOrSnapshot
    <3>7. HostSide
      BY <1>0, <1>1, <2>1, <3>5, <3>6 DEF HostSide, Apart
    <3>8. Msg("manifest", 0, src) \in Letter /\ Msg("manifest", 0, src).k = "manifest"
          /\ Msg("manifest", 0, src).v = src
      BY <1>2, PlainAnswers DEF Words
    <3>9. CASE Answer(Error)
      BY <1>1, <3>7, <3>9, PlainAnswers, HostAnswers DEF Active
    <3>10. CASE Answer(Msg("manifest", 0, src))
      BY <1>0, <1>1, <3>7, <3>8, <3>10, HostAnswers DEF Active
    <3> QED  BY <3>1, <3>9, <3>10
  <2> QED  BY <1>6, <2>2, <2>3 DEF GetBegin
<1> QED  BY <1>4, <1>5, <1>6

\* cancel: the entry and its part go before the journal is written.
LEMMA FtCancels == ASSUME FtInv, Apart, Cancel \/ Cancelled PROVE FtInv'
<1>0. /\ HostOK(host, chan, part, landed, Kind, Versions)
      /\ JournalOK(hostJournal, host, Kind, Versions)
      /\ PartOK(part) /\ PartOK(NoPart) /\ landed \in Nat
      /\ DestOK(dest, Versions) /\ ~clobbered /\ src \in Versions
      /\ Kind \in {"put", "get"} /\ chan \in Seq(Packet)
  BY HostState
<1>1. /\ host.up /\ chan # << >> /\ chan[1].ans = NoMsg /\ chan[1].req.k = "cancel"
      /\ UNCHANGED <<job, dest, src, landed, clobbered>>
  BY DEF Cancel, Cancelled, Starting, Serving
<1>2. Spared
  BY <1>1 DEF Spared
<1>3. Msg("cancelled", 0, 0) \in Letter /\ Msg("cancelled", 0, 0).k = "cancelled"
  BY PlainAnswers DEF Words
<1>4. CASE /\ host.step = "idle" /\ UNCHANGED <<hostJournal, part>>
           /\ Reply(host, IF host.phase = "none" THEN NotFound ELSE Error)
  <2>1. PICK r \in {NotFound, Error} : Reply(host, r)
    BY <1>4
  <2>2. r \in Letter /\ r.k \in {"notfound", "error"}
    BY <2>1, PlainAnswers
  <2> QED  BY <1>1, <1>4, <2>1, <2>2, HostSays DEF Reply, Active
<1>5. CASE /\ host.step = "idle" /\ Active(host.phase) /\ part' = NoPart /\ UNCHANGED hostJournal
           /\ Next1([host EXCEPT !.step = "unlinked", !.phase = "none", !.m = 0, !.path = NoPath])
  <2>1. host' = [host EXCEPT !.step = "unlinked", !.phase = "none", !.m = 0, !.path = NoPath] /\ chan' = chan
    BY <1>5 DEF Next1
  <2>2. Becomes(host', "unlinked", "none", host.off, NoPath, host.get) /\ host'.m = 0
    BY <1>0, <2>1 DEF Becomes, HostOK, HostFields
  <2>3. Kind = "put"
    BY <1>0, <1>5 DEF HostOK, Active
  <2>4. HostOK(host', chan', part', landed', Kind, Versions)
    BY <1>0, <1>1, <2>1, <2>2, <2>3 DEF HostOK, Becomes, Active, HostPhases
  <2>5. JournalOK(hostJournal', host', Kind, Versions)
    BY <1>0, <1>5, <2>2 DEF JournalOK, Becomes, Active
  <2>6. HostSide
    BY <1>0, <1>1, <1>2, <1>5, <2>3, <2>4, <2>5 DEF HostSide, Apart
  <2> QED  BY <2>1, <2>6, HostGoesOn
<1>6. ASSUME NEW h, UNCHANGED part, host.phase = "none", h.m = host.m, h.get \in {0, host.get},
             Becomes(h, host.step, "none", host.off, host.path, h.get),
             \/ PersistOk(h) /\ Reply(h, Msg("cancelled", 0, 0))
             \/ PersistFails(h) /\ Reply(h, Error)
      PROVE  FtInv'
  <2>1. /\ hostJournal' = hostJournal \/ hostJournal' = Snapshot(h)
        /\ host' = [h EXCEPT !.step = "idle"] /\ (Answer(Error) \/ Answer(Msg("cancelled", 0, 0)))
    BY <1>6 DEF PersistOk, PersistFails, Reply
  <2>2. Becomes(host', "idle", "none", host.off, host.path, h.get) /\ host'.m = host.m
    BY <1>6, <2>1 DEF Becomes, HostFields
  <2>3. HostOK(host', chan', part', landed', Kind, Versions)
    BY <1>0, <1>1, <1>6, <2>2 DEF HostOK, Becomes, Active, HostPhases
  <2>4. JournalOK(hostJournal', host', Kind, Versions)
    <3>1. /\ h.phase \in HostPhases /\ h.m \in Int /\ h.off \in Int /\ h.path \in Names \cup {NoPath}
          /\ h.get \in {0} \cup Versions /\ ~Active(h.phase) /\ ~Active(host'.phase) /\ h.phase = "none"
      BY <1>0, <1>6, <2>2 DEF HostOK, Becomes, Active, HostPhases
    <3> QED  BY <1>0, <2>1, <3>1, JournalOrSnapshot
  <2>5. HostSide
    BY <1>0, <1>1, <1>2, <1>6, <2>3, <2>4 DEF HostSide, Apart
  <2>6. CASE Answer(Error)
    BY <1>1, <2>5, <2>6, PlainAnswers, HostAnswers DEF Active
  <2>7. CASE Answer(Msg("cancelled", 0, 0))
    BY <1>1, <1>3, <2>5, <2>7, HostAnswers DEF Active
  <2> QED  BY <2>1, <2>6, <2>7
<1>7. CASE /\ host.phase = "none" /\ UNCHANGED part
           /\ LET h == [host EXCEPT !.get = 0] IN
              \/ PersistOk(h) /\ Reply(h, Msg("cancelled", 0, 0))
              \/ PersistFails(h) /\ Reply(h, Error)
  <2> DEFINE h == [host EXCEPT !.get = 0]
  <2>1. Becomes(h, host.step, "none", host.off, host.path, 0) /\ h.m = host.m /\ h.get = 0
    BY <1>0, <1>7 DEF Becomes, HostOK, HostFields
  <2>2. \/ PersistOk(h) /\ Reply(h, Msg("cancelled", 0, 0))
        \/ PersistFails(h) /\ Reply(h, Error)
    BY <1>7
  <2> HIDE DEF h
  <2> QED  BY <1>6, <1>7, <2>1, <2>2
<1>8. CASE Cancelled
  <2>1. host.step = "unlinked" /\ UNCHANGED part
        /\ \/ PersistOk(host) /\ Reply(host, Msg("cancelled", 0, 0))
           \/ PersistFails(host) /\ Reply(host, Error)
    BY <1>8 DEF Cancelled
  <2>2. host.phase = "none" /\ Becomes(host, host.step, "none", host.off, host.path, host.get)
    BY <1>0, <2>1 DEF HostOK, Becomes
  <2> QED  BY <1>6, <2>1, <2>2
<1>9. CASE Cancel
  BY <1>4, <1>5, <1>7, <1>9 DEF Cancel, Starting
<1> QED  BY <1>8, <1>9

\* Other transfers and other programs.
LEMMA FtAlone == ASSUME FtInv, Apart, HostAlone PROVE FtInv'
<1>0. /\ HostOK(host, chan, part, landed, Kind, Versions)
      /\ JournalOK(hostJournal, host, Kind, Versions)
      /\ PartOK(part) /\ landed \in Nat
      /\ DestOK(dest, Versions) /\ ~clobbered /\ src \in Versions
      /\ Kind \in {"put", "get"} /\ chan \in Seq(Packet)
  BY HostState
<1>1. UNCHANGED <<job, chan, part, landed, clobbered>>
  BY DEF HostAlone, Prune, OtherPersists, Edit, ForeignFile
<1>2. CASE Prune
  <2>1. /\ host.up /\ host.step = "idle" /\ host.phase = "completed" /\ UNCHANGED <<src, dest>>
        /\ host' = [host EXCEPT !.phase = "none", !.m = 0] /\ hostJournal' = Snapshot(host')
    BY <1>2 DEF Prune
  <2>2. Becomes(host', "idle", "none", host.off, host.path, host.get) /\ host'.m = 0
    BY <1>0, <2>1 DEF Becomes, HostOK, HostFields
  <2>3. HostOK(host', chan', part', landed', Kind, Versions)
    BY <1>0, <1>1, <2>2 DEF HostOK, Becomes, Active, HostPhases
  <2>4. JournalOK(hostJournal', host', Kind, Versions)
    BY <1>0, <2>1, <2>2, <2>3, JournalOrSnapshot DEF HostOK, Becomes, Active
  <2>5. Stays
    BY <1>1, <2>1 DEF Stays, Held, Active
  <2>6. HostSide
    BY <1>0, <1>1, <2>1, <2>3, <2>4, <2>5 DEF HostSide, Apart
  <2> QED  BY <1>1, <2>6, HostGoesOn
<1>3. CASE OtherPersists
  <2>1. host.up /\ host.step = "idle" /\ hostJournal' = Snapshot(host) /\ UNCHANGED <<host, src, dest>>
    BY <1>3 DEF OtherPersists
  <2>2. HostOK(host', chan', part', landed', Kind, Versions)
    BY <1>0, <1>1, <2>1
  <2>3. JournalOK(hostJournal', host', Kind, Versions)
    BY <1>0, <2>1, JournalOrSnapshot DEF HostOK
  <2>4. hostJournal'.phase = host.phase /\ hostJournal'.tied = Active(host.phase)
    BY <2>1, SnapshotFields
  <2>5. Stays
    BY <1>1, <2>1, <2>4 DEF Stays, Held
  <2>6. HostSide
    BY <1>0, <1>1, <2>1, <2>2, <2>3, <2>5 DEF HostSide, Apart
  <2> QED  BY <1>1, <2>6, HostGoesOn
<1>4. ASSUME UNCHANGED <<host, hostJournal>>, src' \in Versions, DestOK(dest', Versions)
      PROVE  FtInv'
  <2>1. Stays
    BY <1>1, <1>4 DEF Stays
  <2>2. HostSide
    BY <1>0, <1>1, <1>4, <2>1 DEF HostSide, Apart
  <2> QED  BY <1>1, <2>2, HostGoesOn
<1>5. CASE Edit
  <2>1. MaxEdits \in Nat
    BY JobFacts DEF FtInv
  <2>2. src' \in Versions
    BY <1>0, <1>5, <2>1 DEF Edit, Versions
  <2> QED  BY <1>0, <1>4, <1>5, <2>2 DEF Edit
<1>6. ASSUME NEW n \in Names, ForeignFile(n) PROVE FtInv'
  <2> DEFINE f == [by |-> "other", data |-> << >>]
  <2>1. f.by = "other" /\ dest' = [dest EXCEPT ![n] = f] /\ UNCHANGED <<host, hostJournal, src>>
    BY <1>6 DEF ForeignFile
  <2> HIDE DEF f
  <2>2. DestOK(dest', Versions)
    BY <1>0, <2>1 DEF DestOK
  <2> QED  BY <1>0, <1>4, <2>1, <2>2
<1> QED  BY <1>2, <1>3, <1>5, <1>6 DEF HostAlone

\* load_or_create
LEMMA FtHostRestart == ASSUME FtInv, Apart, HostRestart PROVE FtInv'
<1>0. /\ HostOK(host, chan, part, landed, Kind, Versions)
      /\ JournalOK(hostJournal, host, Kind, Versions)
      /\ PartOK(part) /\ PartOK(NoPart) /\ landed \in Nat
      /\ DestOK(dest, Versions) /\ ~clobbered /\ src \in Versions
      /\ Kind \in {"put", "get"} /\ chan \in Seq(Packet)
  BY HostState
<1>1. ~host.up /\ Loadable /\ UNCHANGED <<job, chan, dest, src, landed, clobbered>>
  BY DEF HostRestart
<1> DEFINE h == Restored
           e == [HostBlank EXCEPT !.phase = hostJournal.phase, !.m = hostJournal.m, !.off = hostJournal.off,
                                  !.get = IF hostJournal.get = src THEN hostJournal.get ELSE 0]
<1>2. Len(part.data) \in Int
  BY <1>0 DEF PartOK
<1>3. /\ DOMAIN e = HostFields /\ e.step = "idle" /\ e.up = TRUE /\ e.phase = hostJournal.phase
      /\ e.m = hostJournal.m /\ e.off = hostJournal.off /\ e.path = NoPath /\ e.get \in {0, hostJournal.get}
  BY DEF HostBlank, HostFields
<1>4. h = IF ~Active(hostJournal.phase) THEN e
          ELSE IF PartThere
          THEN [e EXCEPT !.off = Len(part.data), !.phase = PhaseAt(Len(part.data)), !.path = hostJournal.path]
          ELSE [e EXCEPT !.phase = "completed"]
  BY DEF Restored
<1> HIDE DEF e, h
<1>5. /\ DOMAIN h = HostFields /\ h.step = "idle" /\ h.up = TRUE /\ h.m = hostJournal.m
      /\ h.off \in Int /\ h.path \in {NoPath, hostJournal.path} /\ h.get \in {0, hostJournal.get}
      /\ ~Active(hostJournal.phase) => h.phase = hostJournal.phase
      /\ Active(hostJournal.phase) /\ PartThere => h.off = Len(part.data) /\ h.phase = PhaseAt(Len(part.data))
      /\ Active(hostJournal.phase) /\ ~PartThere => h.phase = "completed"
  BY <1>0, <1>2, <1>3, <1>4 DEF HostFields, JournalOK
<1>6. \A n : PhaseAt(n) \in {"receiving", "ready"} /\ (PhaseAt(n) = "ready" => n = Total)
  BY DEF PhaseAt
<1>7. /\ h.phase \in HostPhases /\ h.m \in Int /\ h.path \in Names \cup {NoPath} /\ h.get \in {0} \cup Versions
      /\ Kind = "get" => h.phase = "none"
      /\ Active(h.phase) => /\ h.m \in Versions /\ PartThere /\ h.off = Len(part.data) /\ Active(hostJournal.phase)
                            /\ h.phase = "ready" => Len(part.data) = Total
  BY <1>0, <1>5, <1>6 DEF JournalOK, HostPhases, Active
<1>8. Active(hostJournal.phase) /\ PartThere => Active(h.phase)
  BY <1>5, <1>6 DEF Active
<1>9. CASE /\ host' = Restored /\ PersistOk(Restored)
           /\ part' = IF Kind = "put" /\ ~Active(Restored.phase) THEN NoPart ELSE part
  <2>1. host' = h /\ hostJournal' = Snapshot(h) /\ part' = IF Kind = "put" /\ ~Active(h.phase) THEN NoPart ELSE part
    BY <1>9 DEF h, PersistOk
  <2>2. PartOK(part') /\ (Active(h.phase) => part' = part) /\ (Kind = "get" => part' = part)
    BY <1>0, <2>1
  <2>3. Active(h.phase) => part.there /\ (h.phase = "ready" => part.data = Whole(h.m))
    BY <1>1, <1>5, <1>7 DEF Loadable, PartThere, PartFits
  <2>4. HostOK(host', chan', part', landed', Kind, Versions)
    BY <1>2, <1>5, <1>7, <2>1, <2>2, <2>3 DEF HostOK, Active
  <2>5. JournalOK(hostJournal', host', Kind, Versions)
    BY <1>0, <1>5, <1>7, <2>1, JournalOrSnapshot
  <2>6. hostJournal'.phase = h.phase /\ hostJournal'.tied = Active(h.phase)
    BY <2>1, SnapshotFields
  <2>7. Stays
    BY <1>1, <1>8, <2>1, <2>2, <2>6 DEF Stays, Held, PartThere
  <2>8. HostSide
    BY <1>0, <1>1, <2>2, <2>4, <2>5, <2>7 DEF HostSide, Apart
  <2> QED  BY <1>1, <2>8, HostGoesOn
<1>10. CASE PersistFails(Restored) /\ UNCHANGED <<host, part>>
  <2>1. (hostJournal' = hostJournal \/ hostJournal' = Snapshot(h)) /\ UNCHANGED <<host, part>>
    BY <1>10 DEF h, PersistFails
  <2>2. HostOK(host', chan', part', landed', Kind, Versions)
    BY <1>0, <1>1, <2>1
  <2>3. Snapshot(h).phase = h.phase /\ Snapshot(h).tied = Active(h.phase)
    BY SnapshotFields
  <2>4. Active(host.phase) /\ host.step \in {"idle", "named"} => Active(h.phase)
    BY <1>0, <1>8 DEF JournalOK, HostOK, PartThere
  <2>5. JournalOK(hostJournal', host', Kind, Versions)
    BY <1>0, <1>5, <1>7, <2>1, <2>4, JournalOrSnapshot
  <2>6. Stays
    BY <1>1, <1>8, <2>1, <2>3 DEF Stays, Held, PartThere
  <2>7. HostSide
    BY <1>0, <1>1, <2>1, <2>2, <2>5, <2>6 DEF HostSide, Apart
  <2> QED  BY <1>1, <2>7, HostGoesOn
<1> QED  BY <1>9, <1>10 DEF HostRestart

-----------------------------------------------------------------------------
\* A stopped Controller does nothing until it starts again.
LEMMA DownStep == ASSUME FtInv, DownInv, [Next]_vars PROVE DownInv'
<1> SUFFICES ASSUME ~ctlUp' PROVE w' = IdleWorker
  BY DEF DownInv
<1>1. CASE ControllerCrash
  BY <1>1 DEF ControllerCrash
<1>2. CASE UNCHANGED vars
  BY <1>2 DEF vars, ctlVars, DownInv
<1>3. CASE ControllerRestart
  BY <1>3 DEF ControllerRestart, DownInv
<1>4. CASE (HostStep \/ HostAlone \/ HostRestart) /\ UNCHANGED ctlVars
  BY <1>4 DEF ctlVars, DownInv
<1>5. ASSUME UNCHANGED ctlUp PROVE w = IdleWorker /\ w.pc = "idle" /\ w.sent = "no" /\ ~ctlUp
  BY <1>5, IdleFields DEF DownInv
<1>6. CASE StartPut \/ StartGet \/ CancelMarks \/ CancelSignals \/ OtherJournals \/ PersistLast
  BY <1>5, <1>6 DEF StartPut, StartGet, Started, CancelMarks, CancelSignals, OtherJournals, PersistLast,
                    Outside, GoTo
<1>7. CASE PrepareSource \/ RecoverPart \/ GetLands \/ GetRefused \/ SeeSignal \/ Lost \/ CancelTimesOut
  BY <1>5, <1>7 DEF PrepareSource, RecoverPart, GetLands, GetRefused, SeeSignal, Lost, CancelTimesOut,
                    Outside, LoopHead
<1>8. CASE Send \/ SendTooLate
  BY <1>5, <1>8 DEF Send, SendTooLate, Outside, AnySession, OneSession
<1>9. CASE Deliver
  <2>1. UNCHANGED ctlUp /\ chan # << >>
    BY <1>9 DEF Deliver, Outside
  <2>2. ChanOK(chan, w.sent, Kind, Versions) /\ 1 \in 1 .. Len(chan)
    BY <2>1 DEF FtInv, ChanOK
  <2>3. ~chan[1].heard
    BY <1>5, <2>1, <2>2 DEF ChanOK
  <2> QED  BY <1>5, <1>9, <2>1, <2>3 DEF Deliver
<1>10. CASE Connect \/ HostDrops
  BY <1>5, <1>10 DEF Connect, HostDrops, Outside
<1>11. CASE Disconnect \/ HostCrash
  BY <1>5, <1>11 DEF Disconnect, HostCrash, Outside, LosesRequest
<1> QED
  BY <1>1, <1>2, <1>3, <1>4, <1>6, <1>7, <1>8, <1>9, <1>10, <1>11 DEF Next, WorkerStep

\* Every step keeps the invariant.
LEMMA FtInvStep == ASSUME FtInv, DownInv, [Next]_vars PROVE FtInv'
<1>1. CASE UNCHANGED vars
  <2>1. UNCHANGED <<job, src, landed, part, entry, ctlJournal, chan, w, host, hostJournal, dest, clobbered>>
    BY <1>1 DEF vars, ctlVars
  <2>2. Versions' = Versions /\ Kind' = Kind
    BY <2>1 DEF Versions, MaxEdits, Kind
  <2> QED  BY <2>1, <2>2 DEF FtInv
<1>2. ASSUME UNCHANGED ctlVars PROVE Apart \/ job' # job
  BY <1>2 DEF ctlVars, Apart
<1>3. CASE HostStep /\ UNCHANGED ctlVars
  <2>1. job' = job
    BY <1>3 DEF HostStep, PutBegin, PutBegun, PutChunk, Finalize, Rename, Finalized, GetBegin, GetChunk,
                GetStatus, Cancel, Cancelled
  <2>2. Apart
    BY <1>2, <1>3, <2>1
  <2> QED  BY <1>3, <2>2, FtPutBegin, FtPutBegun, FtPutChunk, FtFinalize, FtRename, FtFinalized, FtGets,
              FtCancels DEF HostStep
<1>4. CASE (HostAlone \/ HostRestart) /\ UNCHANGED ctlVars
  <2>1. job' = job
    BY <1>4 DEF HostAlone, HostRestart, Prune, OtherPersists, Edit, ForeignFile
  <2>2. Apart
    BY <1>2, <1>4, <2>1
  <2> QED  BY <1>4, <2>2, FtAlone, FtHostRestart
<1>5. CASE StartPut \/ StartGet \/ CancelMarks \/ CancelSignals \/ OtherJournals \/ PersistLast
  BY <1>5, FtCalls
<1>6. CASE WorkerStep \/ CancelTimesOut
  BY <1>5, <1>6, FtPrepareSource, FtRecoverPart, FtGetLands, FtSend, FtSendTooLate, FtSignals, FtLost,
     FtDeliver DEF WorkerStep
<1>7. CASE Connect \/ Disconnect \/ HostDrops \/ HostCrash \/ ControllerCrash \/ ControllerRestart
  BY <1>7, FtSessions, FtHostCrash, FtControllerCrash, FtControllerRestart
<1> QED  BY <1>1, <1>3, <1>4, <1>5, <1>6, <1>7 DEF Next

\* The inductive invariant holds in every reachable state.
THEOREM FtInvariance == Spec => [](FtInv /\ DownInv)
<1>1. Init => FtInv /\ DownInv
  BY FtInvInit DEF Init, DownInv
<1>2. FtInv /\ DownInv /\ [Next]_vars => (FtInv /\ DownInv)'
  BY FtInvStep, DownStep
<1> QED  BY <1>1, <1>2, PTL DEF Spec

\* DestinationSafe: what the Host's Rename or the Controller's GetLands puts at
\* the destination is one whole version of the source, and never stands where
\* a file of another program was that the policy protects, whatever sequence
\* of losses, repeats, edits, failed writes and restarts led there.
THEOREM DestinationSafeThm == Spec => []DestinationSafe
<1>1. FtInv => DestinationSafe
  BY DEF FtInv, DestOK, DestinationSafe
<1> QED  BY <1>1, FtInvariance, PTL

\* ConfirmedIsOnDisk: an offset that a worker counts, from a status of the Host
\* or from its own writes, is in the part file, through every crash between
\* the write, the answer and the journal.
THEOREM ConfirmedIsOnDiskThm == Spec => []ConfirmedIsOnDisk
<1>1. FtInv => ConfirmedIsOnDisk
  <2> SUFFICES ASSUME FtInv, Counting PROVE landed > 0 \/ (part.there /\ Len(part.data) >= w.off)
    BY DEF ConfirmedIsOnDisk
  <2>0. WorkerOK(w, entry, Kind, Versions) /\ Kind \in {"put", "get"}
    BY OwnState
  <2>1. CASE Kind = "put"
    <3>1. PutCounts(w)
      BY <2>0, <2>1 DEF Counting, PutCounts, WorkerOK, PutPcs
    <3> QED  BY <2>1, <3>1 DEF FtInv, PutHeld, Held
  <2>2. CASE Kind = "get"
    <3>1. GetCounts(w)
      BY <2>0, <2>2 DEF Counting, GetCounts, WorkerOK, GetPcs
    <3> QED  BY <2>2, <3>1 DEF FtInv, GetHeld
  <2> QED  BY <2>0, <2>1, <2>2
<1> QED  BY <1>1, FtInvariance, PTL

(***************************************************************************)
(* What was delivered: a second invariant beside FtInv.  Only a rename puts*)
(* a whole file in place, and whoever renamed remembers it, in memory or   *)
(* in the journal, until the memory is dropped; a report of completion or  *)
(* of a clean cancel finds every request of the worker answered.           *)
(***************************************************************************)
InPlace(d, v) == \E n \in Names : d[n].by = "us" /\ d[n].data = Whole(v)

\* What lies at the destination: a file of ours was landed, a foreign one is
\* empty.
DestTold ==
  \A n \in Names : /\ dest[n].by = "us" => landed > 0
                   /\ dest[n].by \notin {"none", "us"} => dest[n].data = << >>

\* The journal of the Host leads a restart to a completed entry.
Remembers == \/ hostJournal.phase = "completed"
             \/ Active(hostJournal.phase) /\ LandedAt(hostJournal.path)
PutTold ==
  /\ host.up /\ (~Active(host.phase) \/ host.step = "renamed") => ~part.there
  /\ ~lapse /\ landed > 0 =>
       /\ landed = 1 /\ (host.up => host.phase = "completed" \/ host.step = "renamed")
       /\ Remembers /\ ~part.there
HostTold ==
  /\ gen # 0 \/ chan # << >> => host.up
  /\ host.phase = "completed" => InPlace(dest, host.m)
  /\ hostJournal.phase = "completed" =>
       InPlace(dest, hostJournal.m) /\ (host.up => host.phase = "completed")
  /\ host.step = "renamed" => dest[host.path].by = "us" /\ dest[host.path].data = Whole(host.m)
  /\ host.step \in {"named", "renamed"} => hostJournal = Snapshot(host)
  /\ Kind = "put" => PutTold

\* What an answer says is so until it is read.
PacketTold(x) ==
  /\ x.ans.k = "completed" => Kind = "put" /\ InPlace(dest, x.ans.v)
  /\ x.req.k = "cancel" /\ Confirms(x.ans) => host.phase = "none"
  /\ x.heard /\ w.pc \in {"cancel", "settle", "cleanup"} => x.req.k = "cancel"
ChanTold == \A i \in 1 .. Len(chan) : PacketTold(chan[i])

\* The worker's manifest is the entry's.
Manifested(x) ==
  \/ x.pc \in {"begin", "wait", "chunk", "resend", "rebegin", "finalize", "refinalize",
               "getchunk", "regetchunk", "land"}
  \/ x.pc = "getbegin" /\ x.why # "fresh"
\* A request that is bound to a session had one.
Sessioned(x) == x.pc \in OneSession \/ x.sent = "yes" => x.gen # 0
\* Nothing of the worker is on its way that could undo what it reported.
Quiet == /\ Kind = "put" => w.pc \in {"idle", "persist"} /\ chan = << >>
         /\ Kind = "get" => w.pc \in {"idle", "persist", "settle"}
\* Nothing was delivered and nothing is left.
Bare == ~lapse => landed = 0 /\ ~part.there /\ (host.up => host.phase = "none")
Over(e) == e.phase = "Completed"
Clean(e) == e.phase = "Cancelled" /\ ~e.err
Ended(e) == /\ Over(e) => Quiet /\ InPlace(dest, e.m)
            /\ Clean(e) => Quiet /\ Bare
GetTold ==
  /\ part.there => ctlJournal.kept /\ (ctlUp => entry.kept)
  /\ w.pc \in {"cancel", "settle", "cleanup"} => ~part.there
  /\ w.pc = "recover" => entry.kept /\ ctlJournal.kept
  /\ ~lapse /\ landed > 0 =>
       /\ landed = 1 /\ w.pc \in {"idle", "persist", "settle", "cleanup"}
       /\ ~ctlUp => ctlJournal.phase \in Terminal
CtlTold ==
  /\ Manifested(w) => w.m = entry.m
  /\ Sessioned(w)
  /\ Kind = "get" => GetTold
  /\ Ended(entry) /\ Ended(ctlJournal)

DlInv == DestTold /\ HostTold /\ ChanTold /\ CtlTold

\* Nothing was delivered at first.
LEMMA DlInvInit == Init => DlInv
<1> SUFFICES ASSUME Init PROVE DlInv
  OBVIOUS
<1>1. /\ host = HostBlank /\ hostJournal = JournalBlank /\ chan = << >> /\ part = NoPart
      /\ dest = [n \in Names |-> Free] /\ landed = 0 /\ gen = 0
      /\ entry = NoEntry /\ ctlJournal = NoEntry /\ w = IdleWorker
  BY DEF Init, HostInit
<1>2. DestTold
  BY <1>1 DEF DestTold, Free
<1>3. HostTold
  BY <1>1 DEF HostTold, PutTold, HostBlank, JournalBlank, NoPart
<1>4. ChanTold
  <2>1. Len(chan) = 0
    BY <1>1
  <2> QED  BY <2>1 DEF ChanTold
<1>5. CtlTold
  <2>1. w.pc = "idle" /\ Sessioned(w)
    BY <1>1, IdleFields DEF Sessioned, OneSession
  <2>2. entry.phase = "none" /\ ctlJournal.phase = "none" /\ ~part.there
    BY <1>1 DEF NoEntry, NoPart
  <2> QED  BY <1>1, <2>1, <2>2 DEF CtlTold, Manifested, GetTold, Ended, Over, Clean
<1> QED  BY <1>2, <1>3, <1>4, <1>5 DEF DlInv

-----------------------------------------------------------------------------
(* The Controller's steps.                                                 *)

\* A transfer is a put or a get, and a get leaves the Host without a put.
LEMMA GetHost ==
    ASSUME FtInv
    PROVE  /\ Kind \in {"put", "get"} /\ landed \in Nat
           /\ Kind = "get" => host.phase = "none" /\ host.step = "idle" /\ hostJournal.phase = "none"
BY HostState DEF HostOK, JournalOK

\* A step of the Controller leaves the Host and its journal as they are.
LEMMA CtlTells ==
    ASSUME FtInv, FtInv', DlInv, UNCHANGED <<job, host, hostJournal>>, lapse => lapse',
           gen' # 0 \/ chan' # << >> => host.up,
           Kind = "put" => UNCHANGED <<part, dest, landed>>,
           DestTold', ChanTold', CtlTold'
    PROVE  DlInv'
<1>1. Kind' = Kind
  BY DEF Kind
<1>2. HostTold'
  <2>1. CASE Kind = "get"
    BY <1>1, <2>1, GetHost DEF HostTold, DlInv
  <2>2. CASE Kind = "put"
    BY <1>1, <2>2 DEF HostTold, DlInv, PutTold, Remembers, LandedAt
  <2> QED  BY <2>1, <2>2, GetHost
<1> QED  BY <1>2 DEF DlInv

\* Nobody waits for what is in c, and what it answers was answered.
Echoes(c) ==
  \A i \in 1 .. Len(c) :
    /\ ~c[i].heard
    /\ c[i].ans # NoMsg => \E j \in 1 .. Len(chan) : c[i].ans = chan[j].ans /\ c[i].req = chan[j].req

\* Such a channel still tells the truth.
LEMMA EchoesTold ==
    ASSUME ChanTold, Echoes(chan'), UNCHANGED <<job, host>>, Kind = "put" => UNCHANGED dest
    PROVE  ChanTold'
<1>1. Kind' = Kind
  BY DEF Kind
<1> SUFFICES ASSUME NEW i \in 1 .. Len(chan') PROVE PacketTold(chan[i])'
  BY DEF ChanTold
<1> DEFINE x == chan'[i]
<1>2. ~x.heard /\ (x.ans # NoMsg => \E j \in 1 .. Len(chan) : x.ans = chan[j].ans /\ x.req = chan[j].req)
  BY DEF Echoes
<1>3. CASE x.ans = NoMsg
  <2>1. x.ans.k = "none"
    BY <1>3 DEF NoMsg, Msg
  <2> QED  BY <1>2, <2>1 DEF PacketTold, Confirms
<1>4. CASE x.ans # NoMsg
  <2>1. PICK j \in 1 .. Len(chan) : x.ans = chan[j].ans /\ x.req = chan[j].req
    BY <1>2, <1>4
  <2>2. PacketTold(chan[j])
    BY DEF ChanTold
  <2> QED  BY <1>1, <1>2, <2>1, <2>2 DEF PacketTold, Confirms
<1> QED  BY <1>3, <1>4

\* The channels that a step of the worker leaves.
LEMMA WorkerEchoes ==
    ASSUME FtInv
    PROVE  /\ Echoes(<< >>) /\ Echoes(Deaf) /\ (w.sent # "yes" => Echoes(chan))
           /\ \A c \in Remains : Echoes(c)
<1>1. /\ \A i \in 1 .. Len(chan) : chan[i].heard => w.sent = "yes"
      /\ chan \in Seq(Packet)
  BY DEF FtInv, ChanOK
<1>2. Len(<< >>) = 0 /\ DOMAIN chan = 1 .. Len(chan) /\ Len(chan) \in Nat
  BY <1>1
<1>3. Echoes(<< >>)
  BY <1>2 DEF Echoes
<1>4. w.sent # "yes" => Echoes(chan)
  BY <1>1 DEF Echoes
<1>5. ASSUME NEW y \in Packet, NEW z, z = [y EXCEPT !.heard = FALSE]
      PROVE  ~z.heard /\ z.ans = y.ans /\ z.req = y.req
  BY <1>5 DEF Packet
<1>6. Echoes(Deaf)
  <2>1. \A i \in 1 .. Len(chan) : Deaf[i] = [chan[i] EXCEPT !.heard = FALSE] /\ chan[i] \in Packet
    BY <1>1, <1>2 DEF Deaf
  <2>2. Len(Deaf) = Len(chan)
    <3>1. DOMAIN Deaf = 1 .. Len(chan) /\ Deaf \in Seq(Packet)
      BY <1>2, DeafUnheard DEF Deaf, Unheard
    <3> QED  BY <1>2, <3>1
  <2>3. \A i \in 1 .. Len(chan) : ~Deaf[i].heard /\ Deaf[i].ans = chan[i].ans /\ Deaf[i].req = chan[i].req
    BY <1>5, <2>1
  <2> HIDE DEF Deaf
  <2> QED  BY <2>2, <2>3 DEF Echoes
<1>7. ASSUME NEW c \in Remains PROVE Echoes(c)
  <2> DEFINE y == chan[1]
             z == [y EXCEPT !.heard = FALSE]
  <2>1. c = << >> \/ (chan # << >> /\ y.ans = NoMsg /\ c = <<z>>)
    <3>1. HostOK(host, chan, part, landed, Kind, Versions)
      BY DEF FtInv
    <3> QED  BY <1>7, <3>1 DEF Remains, Flying, HostOK
  <2>2. CASE c = << >>
    BY <1>3, <2>2
  <2>3. CASE chan # << >> /\ y.ans = NoMsg /\ c = <<z>>
    <3>1. y \in Packet
      BY <1>1, <2>3
    <3>2. ~z.heard /\ z.ans = NoMsg
      <4> HIDE DEF y
      <4> QED  BY <1>5, <2>3, <3>1
    <3> HIDE DEF z
    <3>3. Len(c) = 1 /\ c[1] = z
      BY <2>3
    <3> QED  BY <3>2, <3>3 DEF Echoes
  <2> QED  BY <2>1, <2>2, <2>3
<1> QED  BY <1>3, <1>4, <1>6, <1>7

\* A worker that is not at rest has reported nothing yet.
LEMMA Busy ==
    ASSUME FtInv, CtlTold, w.pc \notin {"idle", "persist", "settle"}
    PROVE  ~Over(entry) /\ ~Clean(entry) /\ ~Over(ctlJournal) /\ ~Clean(ctlJournal)
BY GetHost DEF CtlTold, Ended, Quiet

\* What a step of the Controller leaves alone.
CtlOnly == UNCHANGED <<job, host, hostJournal, dest, landed, lapse, ctlUp>>

\* A busy worker goes on, fails or is cancelled.
LEMMA Runs ==
    ASSUME FtInv, CtlTold, CtlOnly, ctlUp,
           w.pc \notin {"idle", "persist", "settle", "cancel", "cleanup"},
           ~Over(entry'), ~Clean(entry'), ~Over(ctlJournal'), ~Clean(ctlJournal'),
           Manifested(w') => w'.m = entry'.m, Sessioned(w'),
           Kind = "get" =>
             /\ part'.there => ctlJournal'.kept /\ entry'.kept
             /\ w'.pc \in {"cancel", "settle", "cleanup"} => ~part'.there
             /\ w'.pc # "recover"
    PROVE  CtlTold'
<1>1. Kind' = Kind
  BY DEF Kind, CtlOnly
<1>2. ASSUME Kind = "get" PROVE GetTold'
  BY <1>2 DEF CtlTold, GetTold, CtlOnly
<1> QED  BY <1>1, <1>2 DEF CtlTold, Ended

\* A failed entry reports nothing.
LEMMA FailedFields ==
    ASSUME NEW e, EntryOK(e, Versions)
    PROVE  /\ SetFailed(e).m = e.m /\ SetFailed(e).kept = e.kept
           /\ ~Over(e) /\ ~Clean(e) => ~Over(SetFailed(e)) /\ ~Clean(SetFailed(e))
<1>1. CASE e.phase \in {"Cancelling", "Cancelled"}
  BY <1>1 DEF SetFailed
<1>2. CASE e.phase \notin {"Cancelling", "Cancelled"}
  <2>1. SetFailed(e) = [e EXCEPT !.phase = "Failed", !.err = TRUE]
    BY <1>2 DEF SetFailed
  <2>2. SetFailed(e).phase = "Failed" /\ SetFailed(e).m = e.m /\ SetFailed(e).kept = e.kept
    BY <2>1 DEF EntryOK
  <2> QED  BY <2>2 DEF Over, Clean
<1> QED  BY <1>1, <1>2

\* The same for a worker that ends.
LEMMA EndsTold ==
    ASSUME FtInv, CtlTold, CtlOnly, ctlUp, UNCHANGED ctlJournal,
           w.pc \notin {"idle", "persist", "settle", "cancel", "cleanup"},
           Fail \/ (CancelWorker /\ (entry' = entry \/ (Kind = "put" /\ entry'.phase = "Running")))
    PROVE  CtlTold'
<1>0. WorkerShape(w) /\ Kind \in {"put", "get"}
  BY OwnState
<1>1. ~Over(entry) /\ ~Clean(entry) /\ ~Over(ctlJournal) /\ ~Clean(ctlJournal)
  BY Busy
<1>2. \A k : Goes(At(k), k) /\ Goes([At(k) EXCEPT !.gen = 0], k)
  BY <1>0, AtGoes
<1>3. ~NoPart.there
  BY DEF NoPart
<1>4. Kind = "get" /\ part.there => entry.kept
  BY DEF CtlTold, GetTold
<1>5. CASE Fail
  <2>1. entry' = SetFailed(entry) /\ (part' = part \/ part' = NoPart)
        /\ (w' = At("persist") \/ w' = [At("cleanup") EXCEPT !.gen = 0])
        /\ (Kind = "get" => ~part'.there)
    BY <1>0, <1>3, <1>4, <1>5 DEF Fail, GoTo
  <2>2. ~Over(SetFailed(entry)) /\ ~Clean(SetFailed(entry))
    BY <1>1, FailedFields, OwnState
  <2>3. w'.pc \in {"persist", "cleanup"} /\ Sessioned(w')
    <3>1. PICK k \in {"persist", "cleanup"} : Goes(w', k)
      BY <1>2, <2>1
    <3>2. w'.pc = k /\ w'.sent = "no"
      BY <3>1 DEF Goes
    <3> QED  BY <3>2 DEF Sessioned, OneSession
  <2> QED  BY <1>1, <2>1, <2>2, <2>3, Runs DEF Manifested
<1>6. CASE CancelWorker /\ (entry' = entry \/ (Kind = "put" /\ entry'.phase = "Running"))
  <2>1. w' = [At("cancel") EXCEPT !.gen = 0] /\ (Kind = "get" => ~part'.there)
    BY <1>3, <1>4, <1>6 DEF CancelWorker, GoTo
  <2>2. w'.pc = "cancel" /\ Sessioned(w')
    BY <1>2, <2>1 DEF Goes, Sessioned, OneSession
  <2>3. ~Over(entry') /\ ~Clean(entry')
    BY <1>1, <1>6 DEF Over, Clean
  <2> QED  BY <1>1, <2>1, <2>2, <2>3, Runs DEF Manifested
<1> QED  BY <1>5, <1>6

\* A worker is at work only while its process runs.
LEMMA Awake == ASSUME DownInv, w.pc # "idle" PROVE ctlUp
BY IdleFields DEF DownInv

\* A step that neither lands a file nor forgets one.
LEMMA PlainStep ==
    ASSUME FtInv, FtInv', DlInv, CtlOnly, gen' # 0 \/ chan' # << >> => host.up,
           Kind = "put" => UNCHANGED part, ChanTold', CtlTold'
    PROVE  DlInv'
<1>1. DestTold'
  BY DEF DlInv, DestTold, CtlOnly
<1> QED  BY <1>1, CtlTells DEF CtlOnly

\* The channel is not touched by a worker that does not wait for it.
LEMMA StillTold ==
    ASSUME FtInv, DlInv, w.sent # "yes", UNCHANGED <<chan, job, host>>, Kind = "put" => UNCHANGED dest
    PROVE  ChanTold'
BY WorkerEchoes, EchoesTold DEF DlInv

\* The local API calls, another transfer's journal write, and a worker's last line.
LEMMA DlCalls ==
    ASSUME FtInv, FtInv', DlInv, DownInv,
           StartPut \/ StartGet \/ CancelMarks \/ CancelSignals \/ OtherJournals \/ PersistLast
    PROVE  DlInv'
<1>0. /\ WorkerShape(w) /\ EntryOK(entry, Versions) /\ EntryOK(ctlJournal, Versions)
      /\ Kind \in {"put", "get"} /\ landed \in Nat
  BY OwnState
<1>1. CtlOnly /\ UNCHANGED <<chan, gen, part>>
  BY DEF StartPut, StartGet, Started, CancelMarks, CancelSignals, OtherJournals, PersistLast,
         NoChannel, NoFiles, Outside, CtlOnly
<1>2. ctlUp
  BY Awake DEF StartPut, StartGet, Started, CancelMarks, CancelSignals, OtherJournals, PersistLast
<1>3. Kind' = Kind /\ (gen' # 0 \/ chan' # << >> => host.up)
  BY <1>1 DEF Kind, CtlOnly, DlInv, HostTold
<1>4. (w' = w => ChanTold') /\ (w.sent # "yes" => ChanTold')
  <2>1. ASSUME w' = w PROVE ChanTold'
    BY <1>1, <1>3, <2>1 DEF DlInv, ChanTold, PacketTold, CtlOnly
  <2> QED  BY <1>1, <2>1, StillTold DEF CtlOnly
<1>5. /\ Quiet /\ (w' = w \/ w'.pc = "idle") => Quiet'
      /\ Bare => Bare'
  BY <1>1, <1>3 DEF Quiet, Bare, CtlOnly
<1>6. ASSUME NEW e, NEW f, Ended(e), f.m = e.m, Over(f) => Over(e), Clean(f) => Clean(e),
             w' = w \/ w'.pc = "idle"
      PROVE  /\ Over(f) => Quiet' /\ InPlace(dest', f.m)
             /\ Clean(f) => Quiet' /\ Bare'
  BY <1>1, <1>5, <1>6 DEF Ended, CtlOnly
<1>7. ASSUME ChanTold', CtlTold' PROVE DlInv'
  BY <1>1, <1>3, <1>7, PlainStep
<1>8. CASE CancelMarks
  <2>1. entry' = [entry EXCEPT !.phase = "Cancelling"] /\ UNCHANGED <<ctlJournal, w>>
    BY <1>8 DEF CancelMarks
  <2>2. entry'.phase = "Cancelling" /\ entry'.m = entry.m /\ entry'.kept = entry.kept
    BY <1>0, <2>1 DEF EntryOK
  <2>3. Kind = "get" => GetTold'
    BY <1>1, <2>1, <2>2 DEF DlInv, CtlTold, GetTold, CtlOnly
  <2>4. CtlTold'
    BY <1>1, <1>3, <1>5, <2>1, <2>2, <2>3 DEF DlInv, CtlTold, Ended, Over, Clean, CtlOnly
  <2> QED  BY <1>4, <1>7, <2>1, <2>4
<1>9. CASE CancelSignals \/ OtherJournals
  <2>1. ctlJournal' \in {ctlJournal, entry} /\ UNCHANGED <<entry, w>>
    BY <1>9 DEF CancelSignals, OtherJournals, CtlPersistOk, CtlPersistFails
  <2>2. Kind = "get" => GetTold'
    BY <1>1, <1>2, <2>1 DEF DlInv, CtlTold, GetTold, CtlOnly
  <2>3. CtlTold'
    BY <1>1, <1>3, <1>5, <2>1, <2>2 DEF DlInv, CtlTold, Ended, CtlOnly
  <2> QED  BY <1>4, <1>7, <2>1, <2>3
<1>10. CASE PersistLast
  <2>1. /\ w.pc = "persist" /\ w' = IdleWorker /\ ctlJournal' \in {ctlJournal, entry}
        /\ entry' = entry \/ entry' = [entry EXCEPT !.err = TRUE]
    BY <1>10 DEF PersistLast, CtlPersistOk, CtlPersistFails, GoTo
  <2>2. w'.pc = "idle" /\ w.sent = "no"
    BY <2>1, IdleFields, OwnState DEF WorkerOK, Local
  <2>3. /\ entry'.m = entry.m /\ entry'.kept = entry.kept
        /\ Over(entry') => Over(entry)
        /\ Clean(entry') => Clean(entry)
    BY <1>0, <2>1 DEF EntryOK, Over, Clean
  <2>4. Kind = "get" => GetTold'
    BY <1>1, <1>2, <2>1, <2>2, <2>3 DEF DlInv, CtlTold, GetTold, CtlOnly
  <2>5. ~Manifested(w') /\ Sessioned(w')
    BY <2>1, <2>2, IdleFields DEF Manifested, Sessioned, OneSession
  <2>6. Ended(entry) /\ Ended(ctlJournal)
    BY DEF DlInv, CtlTold
  <2>7. Ended(entry)' /\ Ended(ctlJournal)'
    <3>1. /\ Over(entry') => Quiet' /\ InPlace(dest', entry'.m)
          /\ Clean(entry') => Quiet' /\ Bare'
      BY <1>6, <2>2, <2>3, <2>6
    <3>2. /\ Over(ctlJournal') => Quiet' /\ InPlace(dest', ctlJournal'.m)
          /\ Clean(ctlJournal') => Quiet' /\ Bare'
      BY <1>6, <2>1, <2>2, <2>6
    <3> QED  BY <3>1, <3>2 DEF Ended
  <2>8. CtlTold'
    BY <1>3, <2>4, <2>5, <2>7 DEF CtlTold
  <2> QED  BY <1>4, <1>7, <2>2, <2>8
<1>11. ASSUME NEW x, Started(x), ~Manifested(x), Sessioned(x), x.pc \in {"prepare", "getbegin"}, w' = x \/ w' = w
       PROVE  DlInv'
  <2> DEFINE e == [NoEntry EXCEPT !.phase = "Preparing"]
  <2>1. /\ w = IdleWorker /\ ctlJournal = NoEntry /\ entry.phase = "none" /\ landed = 0
        /\ ctlJournal' \in {ctlJournal, e} /\ entry' \in {entry, e}
    BY <1>11 DEF Started, CtlPersistOk, CtlPersistFails
  <2>2. ~NoEntry.kept /\ NoEntry.phase = "none" /\ e.phase = "Preparing"
    BY DEF NoEntry
  <2> HIDE DEF e
  <2>3. w.pc = "idle" /\ w.sent = "no"
    BY <2>1, IdleFields
  <2>4. ~Manifested(w') /\ Sessioned(w')
    BY <1>11, <2>3 DEF Manifested, DlInv, CtlTold
  <2>5. /\ ~Over(entry') /\ ~Clean(entry') /\ ~Over(ctlJournal') /\ ~Clean(ctlJournal')
    BY <2>1, <2>2 DEF Over, Clean
  <2>6. ASSUME Kind = "get" PROVE GetTold'
    <3>1. ~part.there
      BY <2>1, <2>2, <2>6 DEF DlInv, CtlTold, GetTold
    <3> QED  BY <1>0, <1>1, <1>11, <2>1, <2>3, <3>1 DEF GetTold, CtlOnly
  <2>7. CtlTold'
    BY <1>3, <2>4, <2>5, <2>6 DEF CtlTold, Ended
  <2> QED  BY <1>4, <1>7, <2>3, <2>7
<1>12. CASE StartPut
  <2>1. Goes(At("prepare"), "prepare")
    BY <1>0, AtGoes
  <2>2. Started(At("prepare")) /\ (w' = At("prepare") \/ w' = w)
    BY <1>12 DEF StartPut, Started
  <2> QED  BY <1>11, <2>1, <2>2 DEF Goes, Manifested, Sessioned, OneSession
<1>13. CASE StartGet
  <2> DEFINE x == For("getbegin", "fresh")
  <2>1. x.pc = "getbegin" /\ x.why = "fresh" /\ x.sent = "no"
    BY <1>0, ForGoes
  <2>2. Started(x) /\ (w' = x \/ w' = w)
    BY <1>13 DEF StartGet, Started
  <2> HIDE DEF x
  <2> QED  BY <1>11, <2>1, <2>2 DEF Manifested, Sessioned, OneSession
<1> QED  BY <1>8, <1>9, <1>10, <1>12, <1>13

\* The source is hashed.
LEMMA DlPrepareSource == ASSUME FtInv, FtInv', DlInv, DownInv, PrepareSource PROVE DlInv'
<1>0. WorkerShape(w) /\ EntryOK(entry, Versions) /\ WorkerOK(w, entry, Kind, Versions) /\ Kind \in {"put", "get"}
  BY OwnState
<1>1. w.pc = "prepare" /\ CtlOnly /\ UNCHANGED <<chan, gen, ctlJournal>>
  BY DEF PrepareSource, NoChannel, Outside, CtlOnly
<1>2. Kind = "put" /\ w.sent = "no" /\ ctlUp
  BY <1>0, <1>1, Awake DEF WorkerOK, GetPcs, Local
<1>3. part' = part
  BY <1>2 DEF PrepareSource, CancelWorker, Fail
<1>4. ChanTold' /\ (gen' # 0 \/ chan' # << >> => host.up)
  BY <1>1, <1>2, StillTold DEF CtlOnly, DlInv, HostTold
<1>5. ~Over(entry) /\ ~Clean(entry) /\ ~Over(ctlJournal) /\ ~Clean(ctlJournal)
  BY <1>1, Busy DEF DlInv
<1>6. CASE Fail \/ (CancelWorker /\ (entry' = entry \/ entry'.phase = "Running"))
  <2>1. CtlTold'
    BY <1>1, <1>2, <1>6, EndsTold DEF DlInv
  <2> QED  BY <1>1, <1>3, <1>4, <2>1, PlainStep
<1>7. CASE entry' = [entry EXCEPT !.phase = "Running", !.m = src]
           /\ w' = [At("begin") EXCEPT !.m = src, !.gen = 0]
  <2>1. entry'.phase = "Running" /\ entry'.m = src
    BY <1>0, <1>7 DEF EntryOK
  <2>2. w'.m = src /\ w'.pc = "begin" /\ w'.sent = "no"
    BY <1>0, <1>7 DEF WorkerShape, At
  <2>3. CtlTold'
    BY <1>1, <1>2, <1>5, <2>1, <2>2, Runs DEF Over, Clean, DlInv, Sessioned, OneSession
  <2> QED  BY <1>1, <1>3, <1>4, <2>3, PlainStep
<1>8. entry' = [entry EXCEPT !.phase = "Running", !.m = src] => entry'.phase = "Running"
  BY <1>0 DEF EntryOK
<1> QED  BY <1>6, <1>7, <1>8 DEF PrepareSource, GoTo

\* The part of an interrupted get is taken up again.
LEMMA DlRecoverPart == ASSUME FtInv, FtInv', DlInv, DownInv, RecoverPart PROVE DlInv'
<1>0. WorkerShape(w) /\ EntryOK(entry, Versions) /\ WorkerOK(w, entry, Kind, Versions) /\ Kind \in {"put", "get"}
  BY OwnState
<1>1. w.pc = "recover" /\ CtlOnly /\ UNCHANGED <<chan, gen>>
  BY DEF RecoverPart, NoChannel, Outside, CtlOnly
<1>2. Kind = "get" /\ w.sent = "no" /\ ctlUp /\ entry.kept
  BY <1>0, <1>1, Awake DEF WorkerOK, PutPcs, Local, DlInv, CtlTold, GetTold
<1>3. ChanTold' /\ (gen' # 0 \/ chan' # << >> => host.up)
  BY <1>1, <1>2, StillTold DEF CtlOnly, DlInv, HostTold
<1>4. CASE Fail /\ UNCHANGED ctlJournal
  <2>1. CtlTold'
    BY <1>1, <1>2, <1>4, EndsTold DEF DlInv
  <2> QED  BY <1>1, <1>2, <1>3, <2>1, PlainStep
<1>5. CASE LET e == [entry EXCEPT !.off = Len(part.data), !.phase = "Waiting", !.err = FALSE]
           IN  /\ entry' = e /\ CtlPersistOk(e)
               /\ part' = IF part.there THEN part ELSE NewPart
               /\ GoTo([For("getbegin", "resume") EXCEPT !.off = e.off, !.m = e.m])
  <2> DEFINE e == [entry EXCEPT !.off = Len(part.data), !.phase = "Waiting", !.err = FALSE]
  <2>1. entry' = e /\ ctlJournal' = e /\ w' = [For("getbegin", "resume") EXCEPT !.off = e.off, !.m = e.m]
    BY <1>5 DEF CtlPersistOk, GoTo
  <2>2. e.phase = "Waiting" /\ e.kept = entry.kept
    BY <1>0 DEF EntryOK
  <2> HIDE DEF e
  <2>3. w'.pc = "getbegin" /\ w'.m = e.m /\ w'.sent = "no"
    BY <1>0, <2>1 DEF WorkerShape, For
  <2>4. CtlTold'
    BY <1>1, <1>2, <2>1, <2>2, <2>3, Runs DEF Over, Clean, DlInv, Sessioned, OneSession
  <2> QED  BY <1>1, <1>2, <1>3, <2>4, PlainStep
<1> QED  BY <1>4, <1>5 DEF RecoverPart

\* A get is renamed into place, once, or refused.
LEMMA DlGetLands == ASSUME FtInv, FtInv', DlInv, DownInv, GetLands \/ GetRefused PROVE DlInv'
<1>0. /\ WorkerShape(w) /\ EntryOK(entry, Versions) /\ WorkerOK(w, entry, Kind, Versions)
      /\ Kind \in {"put", "get"} /\ landed \in Nat /\ DestOK(dest, Versions)
  BY OwnState
<1>1. w.pc = "land" /\ UNCHANGED <<job, host, hostJournal, lapse, ctlUp, chan, gen, ctlJournal>>
  BY DEF GetLands, GetRefused, NoChannel, Outside
<1>2. Kind = "get" /\ w.sent = "no" /\ ctlUp /\ Kind' = Kind
  BY <1>0, <1>1, Awake DEF WorkerOK, PutPcs, Local, Kind
<1>3. ChanTold' /\ (gen' # 0 \/ chan' # << >> => host.up)
  BY <1>1, <1>2, StillTold DEF DlInv, HostTold
<1>4. ~Over(entry) /\ ~Clean(entry) /\ ~Over(ctlJournal) /\ ~Clean(ctlJournal)
  BY <1>1, Busy DEF DlInv
<1>5. CASE GetRefused
  <2>1. CtlOnly /\ Fail
    BY <1>1, <1>5 DEF GetRefused, CtlOnly
  <2>2. CtlTold'
    BY <1>1, <1>2, <2>1, EndsTold DEF DlInv
  <2> QED  BY <1>2, <1>3, <2>1, <2>2, PlainStep
<1>6. CASE GetLands
  <2>1. part.data = Whole(w.m) /\ part' = NoPart /\ landed' = landed + 1
    BY <1>6 DEF GetLands
  <2>2. PICK n \in GetTarget : dest' = [dest EXCEPT ![n] = [by |-> "us", data |-> part.data]]
    BY <1>6 DEF GetLands
  <2> DEFINE f == [by |-> "us", data |-> part.data]
  <2>3. n \in Names /\ f.by = "us" /\ f.data = Whole(w.m) /\ w.m = entry.m
    BY <1>1, <2>1, <2>2 DEF GetTarget, FreeNames, Names, DlInv, CtlTold, Manifested
  <2>4. dest' = [dest EXCEPT ![n] = f]
    BY <2>2
  <2> HIDE DEF f
  <2>5. DestTold' /\ InPlace(dest', entry.m)
    BY <1>0, <2>1, <2>3, <2>4 DEF DlInv, DestTold, DestOK, InPlace
  <2>6. \/ /\ entry' = [entry EXCEPT !.phase = "Completed", !.off = Total, !.err = FALSE, !.kept = FALSE]
           /\ w' = [At("settle") EXCEPT !.gen = 0]
        \/ entry' = SetFailed(entry) /\ w' = [At("cleanup") EXCEPT !.gen = 0]
    BY <1>6, Zenon DEF GetLands, GoTo
  <2>7. entry'.m = entry.m /\ ~Clean(entry')
    <3>1. [entry EXCEPT !.phase = "Completed", !.off = Total, !.err = FALSE, !.kept = FALSE].m = entry.m
          /\ [entry EXCEPT !.phase = "Completed", !.off = Total, !.err = FALSE, !.kept = FALSE].phase = "Completed"
      BY <1>0 DEF EntryOK
    <3>2. SetFailed(entry).m = entry.m /\ ~Clean(SetFailed(entry))
      BY <1>0, <1>4, FailedFields
    <3>3. entry' = SetFailed(entry) => entry'.m = entry.m /\ ~Clean(entry')
      BY <3>2
    <3>4. CASE entry' # SetFailed(entry)
      <4>1. entry'.m = entry.m /\ entry'.phase = "Completed"
        BY <2>6, <3>1, <3>4
      <4> QED  BY <4>1 DEF Clean
    <3> QED  BY <3>3, <3>4
  <2>8. /\ Goes([At("settle") EXCEPT !.gen = 0], "settle")
        /\ Goes([At("cleanup") EXCEPT !.gen = 0], "cleanup")
    BY <1>0, AtGoes
  <2>9. /\ w'.pc \in {"settle", "cleanup"} /\ w'.sent = "no"
        /\ Over(entry') => w'.pc = "settle"
    BY ZenonT(60), <1>0, <1>4, <2>6, <2>8, FailedFields DEF Goes
  <2>10. ~part'.there /\ (~lapse => landed' = 1)
    BY <1>0, <1>1, <1>2, <2>1 DEF NoPart, DlInv, CtlTold, GetTold
  <2>11. GetTold'
    BY <1>1, <1>2, <2>9, <2>10 DEF GetTold
  <2>12. Over(entry') => Quiet'
    BY <1>2, <2>9 DEF Quiet
  <2>13. CtlTold'
    BY <1>1, <1>4, <2>5, <2>7, <2>9, <2>11, <2>12 DEF CtlTold, Ended, Manifested, Sessioned, OneSession
  <2> QED  BY <1>1, <1>2, <1>3, <2>5, <2>13, CtlTells
<1> QED  BY <1>5, <1>6

\* The worker's fields when only the state of its request changes.
LEMMA SameWorker ==
    ASSUME FtInv, DlInv, CtlOnly, UNCHANGED <<entry, ctlJournal, part>>,
           w'.pc = w.pc, w'.why = w.why, w'.m = w.m, Sessioned(w'), Kind = "put" /\ Quiet => chan' = << >>
    PROVE  CtlTold'
<1>1. Kind' = Kind /\ Kind \in {"put", "get"}
  BY GetHost DEF Kind, CtlOnly
<1>2. Manifested(w') => w'.m = entry'.m
  BY DEF DlInv, CtlTold, Manifested
<1>3. Kind = "get" => GetTold'
  BY DEF DlInv, CtlTold, GetTold, CtlOnly
<1>4. (Quiet => Quiet') /\ (Bare => Bare')
  BY <1>1 DEF Quiet, Bare, CtlOnly
<1> QED  BY <1>1, <1>2, <1>3, <1>4 DEF DlInv, CtlTold, Ended, CtlOnly

\* The worker sends a request, or finds its session gone.
LEMMA DlSends == ASSUME FtInv, FtInv', DlInv, Send \/ SendTooLate PROVE DlInv'
<1>0. WorkerShape(w) /\ WorkerOK(w, entry, Kind, Versions) /\ Kind \in {"put", "get"} /\ chan \in Seq(Packet)
  BY OwnState, HostState
<1>1. /\ w.sent = "no" /\ w.pc \notin Local /\ CtlOnly /\ UNCHANGED <<gen, entry, ctlJournal, part>>
  BY DEF Send, SendTooLate, NoFiles, NoChannel, Outside, CtlOnly, Local, AnySession, OneSession
<1>2. w'.pc = w.pc /\ w'.why = w.why /\ w'.m = w.m /\ Sessioned(w')
  <2>1. CASE Send
    <3>1. w' = [w EXCEPT !.sent = "yes", !.gen = gen, !.v = IF w.pc = "chunk" THEN src ELSE w.v]
      BY <2>1 DEF Send
    <3>2. gen # 0
      BY <2>1 DEF Send, DlInv, CtlTold, Sessioned
    <3> QED  BY <1>0, <3>1, <3>2 DEF WorkerShape, Sessioned
  <2>2. CASE SendTooLate
    <3>1. w' = [w EXCEPT !.sent = "lost", !.v = IF w.pc = "chunk" THEN src ELSE w.v]
      BY <2>2 DEF SendTooLate
    <3>2. w.gen # 0
      BY <2>2 DEF SendTooLate, DlInv, CtlTold, Sessioned
    <3> QED  BY <1>0, <3>1, <3>2 DEF WorkerShape, Sessioned
  <2> QED  BY <2>1, <2>2
<1>3. ~(Kind = "put" /\ Quiet)
  BY <1>1 DEF Quiet, Local
<1>4. CtlTold'
  BY <1>1, <1>2, <1>3, SameWorker
<1>5. CASE SendTooLate
  <2>1. UNCHANGED chan
    BY <1>5 DEF SendTooLate, NoChannel
  <2>2. ChanTold' /\ (gen' # 0 \/ chan' # << >> => host.up)
    BY <1>1, <2>1, StillTold DEF CtlOnly, DlInv, HostTold
  <2> QED  BY <1>1, <1>4, <2>2, PlainStep
<1>6. CASE Send
  <2> DEFINE x == [req |-> Request, ans |-> NoMsg, heard |-> TRUE]
  <2>1. chan' = Append(chan, x) /\ host.up
    BY <1>6 DEF Send, DlInv, CtlTold, Sessioned, HostTold
  <2>2. x.ans.k = "none" /\ x.req = Request
    BY DEF NoMsg, Msg
  <2>3. w.pc \in {"cancel", "settle", "cleanup"} => x.req.k = "cancel"
    BY <2>2 DEF Request, Msg
  <2>4. x \in Packet
    BY <1>1, RequestOK DEF Packet, Letter, NoMsg, Msg, Words
  <2> HIDE DEF x
  <2>5. \A i \in 1 .. Len(chan') : chan'[i] = x \/ (i \in 1 .. Len(chan) /\ chan'[i] = chan[i])
    BY <1>0, <2>1, <2>4
  <2>6. ASSUME NEW i \in 1 .. Len(chan') PROVE PacketTold(chan[i])'
    <3>1. CASE chan'[i] = x
      BY <1>2, <2>2, <2>3, <3>1 DEF PacketTold, Confirms
    <3>2. CASE i \in 1 .. Len(chan) /\ chan'[i] = chan[i]
      BY <1>1, <1>2, <3>2 DEF PacketTold, Confirms, DlInv, ChanTold, CtlOnly, Kind
    <3> QED  BY <2>5, <3>1, <3>2
  <2>7. ChanTold'
    BY <2>6 DEF ChanTold
  <2> QED  BY <1>1, <1>4, <2>1, <2>7, PlainStep
<1> QED  BY <1>5, <1>6

\* confirm_remote_cancel comes back, and takes nothing for a confirmation
\* that is not one.
LEMMA DlConfirmed ==
    ASSUME FtInv, DlInv, CtlOnly, ctlUp, UNCHANGED <<part, ctlJournal>>,
           NEW yes \in BOOLEAN, w.pc \in {"cancel", "settle", "cleanup"}, Confirmed(yes),
           yes /\ w.pc = "cancel" => host.phase = "none" /\ host.up /\ chan' = << >>
    PROVE  CtlTold'
<1>0. /\ WorkerShape(w) /\ EntryOK(entry, Versions) /\ Kind \in {"put", "get"} /\ landed \in Nat
      /\ WorkerOK(w, entry, Kind, Versions) /\ HostOK(host, chan, part, landed, Kind, Versions)
  BY OwnState, HostState
<1>1. Goes(w', "persist") /\ Kind' = Kind
  BY <1>0, AtGoes DEF Confirmed, GoTo, CtlOnly, Kind
<1>2. ~Manifested(w') /\ Sessioned(w') /\ w'.pc = "persist"
  BY <1>1 DEF Goes, Manifested, Sessioned, OneSession
<1>3. Kind = "get" => ~part.there
  BY DEF DlInv, CtlTold, GetTold
<1>4. ASSUME Kind = "get" PROVE GetTold'
  BY <1>2, <1>3, <1>4 DEF DlInv, CtlTold, GetTold, CtlOnly
<1>5. (Kind = "get" => Quiet') /\ (Bare => Bare') /\ (Kind = "put" => w.pc = "cancel")
  BY <1>0, <1>1, <1>2 DEF Quiet, Bare, CtlOnly, WorkerOK, PutPcs
<1>6. w.pc # "settle" => ~Over(entry) /\ ~Clean(entry) /\ ~Over(ctlJournal) /\ ~Clean(ctlJournal)
  BY Busy DEF DlInv
<1>7. Ended(ctlJournal)'
  <2>1. CASE w.pc # "settle"
    BY <1>6, <2>1 DEF Ended
  <2>2. CASE w.pc = "settle"
    BY <1>0, <1>5, <2>2 DEF DlInv, CtlTold, Ended, CtlOnly
  <2> QED  BY <2>1, <2>2
<1>8. CASE w.pc = "cancel"
  <2>1. entry' = [entry EXCEPT !.phase = "Cancelled", !.err = ~yes, !.kept = FALSE]
    BY <1>8 DEF Confirmed
  <2>2. entry'.phase = "Cancelled" /\ entry'.err = ~yes
    BY <1>0, <2>1 DEF EntryOK
  <2>3. ASSUME yes PROVE Quiet' /\ Bare'
    <3>1. Quiet'
      BY <1>1, <1>2, <1>8, <2>3 DEF Quiet
    <3>2. ~part.there /\ (~lapse => landed = 0)
      <4>1. CASE Kind = "get"
        BY <1>0, <1>3, <1>8, <4>1 DEF DlInv, CtlTold, GetTold
      <4>2. CASE Kind = "put"
        BY <1>0, <1>8, <2>3, <4>2 DEF DlInv, HostTold, PutTold, Active, HostOK
      <4> QED  BY <1>0, <4>1, <4>2
    <3> QED  BY <1>8, <2>3, <3>1, <3>2 DEF Bare, CtlOnly
  <2>4. Ended(entry)'
    BY <2>2, <2>3 DEF Ended, Over, Clean
  <2> QED  BY <1>1, <1>2, <1>4, <1>7, <2>4 DEF CtlTold
<1>9. CASE w.pc = "settle"
  <2>1. entry' = [entry EXCEPT !.err = entry.err \/ ~yes]
    BY <1>9 DEF Confirmed
  <2>2. /\ entry'.m = entry.m /\ (Over(entry') => Over(entry)) /\ (Clean(entry') => Clean(entry))
    BY <1>0, <2>1 DEF EntryOK, Over, Clean
  <2>3. Ended(entry)'
    BY <1>0, <1>5, <1>9, <2>2 DEF DlInv, CtlTold, Ended, CtlOnly
  <2> QED  BY <1>1, <1>2, <1>4, <1>7, <2>3 DEF CtlTold
<1>10. CASE w.pc = "cleanup"
  <2>1. entry' = [entry EXCEPT !.kept = FALSE]
    BY <1>10 DEF Confirmed
  <2>2. ~Over(entry') /\ ~Clean(entry')
    BY <1>0, <1>6, <1>10, <2>1 DEF EntryOK, Over, Clean
  <2> QED  BY <1>1, <1>2, <1>4, <1>7, <2>2 DEF CtlTold, Ended
<1> QED  BY <1>8, <1>9, <1>10

\* A cancel is seen, or has waited long enough.
LEMMA DlSignals == ASSUME FtInv, FtInv', DlInv, DownInv, SeeSignal \/ CancelTimesOut PROVE DlInv'
<1>0. WorkerShape(w) /\ WorkerOK(w, entry, Kind, Versions) /\ Kind \in {"put", "get"}
  BY OwnState
<1>1. chan' = Deaf /\ CtlOnly /\ UNCHANGED <<gen, ctlJournal>> /\ w.pc # "idle"
  BY DEF SeeSignal, CancelTimesOut, NoFiles, Outside, CtlOnly, LoopHead
<1>2. ctlUp /\ ChanTold'
  BY <1>1, Awake, WorkerEchoes, EchoesTold DEF CtlOnly, DlInv
<1>3. gen' # 0 \/ chan' # << >> => host.up
  <2>1. chan = << >> => Deaf = << >>
    BY DEF Deaf
  <2> QED  BY <1>1, <2>1 DEF DlInv, HostTold
<1>4. CASE SeeSignal
  <2>1. /\ CancelWorker /\ entry' = entry /\ w.pc \notin {"idle", "persist", "settle", "cancel", "cleanup"}
    BY <1>4 DEF SeeSignal, LoopHead
  <2>2. CtlTold' /\ (Kind = "put" => part' = part)
    BY <1>1, <1>2, <2>1, EndsTold DEF DlInv, CancelWorker
  <2> QED  BY <1>1, <1>2, <1>3, <2>2, PlainStep
<1>5. CASE CancelTimesOut
  <2>1. /\ Confirmed(FALSE) /\ w.pc \in {"cancel", "settle", "cleanup"} /\ UNCHANGED part
    BY <1>5 DEF CancelTimesOut, NoFiles
  <2>2. CtlTold'
    BY <1>1, <1>2, <2>1, DlConfirmed
  <2> QED  BY <1>1, <1>2, <1>3, <2>1, <2>2, PlainStep
<1> QED  BY <1>4, <1>5

\* The worker learns that its session is gone.
LEMMA DlLost == ASSUME FtInv, FtInv', DlInv, DownInv, Lost PROVE DlInv'
<1>0. /\ WorkerShape(w) /\ WorkerOK(w, entry, Kind, Versions) /\ Kind \in {"put", "get"}
      /\ EntryOK(entry, Versions)
  BY OwnState
<1>1. w.sent = "lost" /\ w.pc \notin Local /\ CtlOnly /\ UNCHANGED <<gen, chan, ctlJournal>>
  BY <1>0 DEF Lost, NoChannel, Outside, CtlOnly, WorkerOK
<1>2. ctlUp /\ ChanTold' /\ (gen' # 0 \/ chan' # << >> => host.up)
  BY <1>1, Awake, StillTold DEF CtlOnly, DlInv, HostTold, Local
<1>3. CASE w.pc \in {"rebegin", "resend", "refinalize", "regetchunk"} /\ Fail
  <2>1. CtlTold' /\ (Kind = "put" => part' = part)
    BY <1>1, <1>2, <1>3, EndsTold DEF DlInv, Fail
  <2> QED  BY <1>1, <1>2, <2>1, PlainStep
<1>4. CASE w.pc \in {"cancel", "settle", "cleanup"} /\ Confirmed(FALSE) /\ UNCHANGED part
  <2>1. CtlTold'
    BY <1>1, <1>2, <1>4, DlConfirmed
  <2> QED  BY <1>1, <1>2, <1>4, <2>1, PlainStep
<1>5. ASSUME w.pc \notin {"idle", "persist", "settle", "cancel", "cleanup"}, UNCHANGED part,
             w'.m = w.m, w'.pc \in {"wait", "getbegin"}, w'.sent = "no",
             Manifested(w') => Manifested(w) \/ w.pc = "begin",
             entry' = entry \/ Shown("Waiting")
      PROVE  DlInv'
  <2>1. ~Over(entry) /\ ~Clean(entry) /\ ~Over(ctlJournal) /\ ~Clean(ctlJournal)
    BY <1>5, Busy DEF DlInv
  <2>2. entry'.m = entry.m /\ entry'.kept = entry.kept /\ ~Over(entry') /\ ~Clean(entry')
    BY <1>0, <1>5, <2>1 DEF EntryOK, Shown, Over, Clean
  <2>3. Sessioned(w')
    BY <1>5 DEF Sessioned, OneSession
  <2>4. Manifested(w') => w'.m = entry'.m
    BY <1>5, <2>2 DEF DlInv, CtlTold, Manifested
  <2>5. Kind = "get" => (part'.there => ctlJournal'.kept /\ entry'.kept)
    BY <1>1, <1>2, <1>5, <2>2 DEF DlInv, CtlTold, GetTold
  <2>6. CtlTold'
    BY <1>1, <1>2, <1>5, <2>1, <2>2, <2>3, <2>4, <2>5, Runs DEF DlInv
  <2> QED  BY <1>1, <1>2, <1>5, <2>6, PlainStep
<1>6. CASE w.pc = "begin" /\ Shown("Waiting") /\ GoTo(For("wait", "begin")) /\ UNCHANGED part
  BY <1>0, <1>5, <1>6, ForGoes DEF GoTo
<1>7. CASE w.pc = "wait" /\ GoTo(At("wait")) /\ UNCHANGED <<entry, part>>
  BY <1>0, <1>5, <1>7, AtGoes DEF GoTo, Goes, Manifested
<1>8. CASE w.pc \in {"chunk", "finalize"} /\ Shown("Waiting") /\ GoTo(For("wait", w.pc)) /\ UNCHANGED part
  BY <1>0, <1>5, <1>8, ForGoes DEF GoTo, Manifested
<1>9. CASE w.pc = "getbegin" /\ Shown("Waiting") /\ GoTo(At("getbegin")) /\ UNCHANGED part
  <2>1. Goes(At("getbegin"), "getbegin") /\ w' = At("getbegin")
    BY <1>0, <1>9, AtGoes DEF GoTo
  <2>2. w'.pc = "getbegin" /\ w'.sent = "no" /\ w'.m = w.m /\ w'.why = w.why
    BY <2>1 DEF Goes
  <2>3. Manifested(w') => Manifested(w)
    BY <1>9, <2>2 DEF Manifested
  <2> QED  BY <1>5, <1>9, <2>2, <2>3
<1>10. CASE w.pc = "getchunk" /\ Shown("Waiting") /\ GoTo(For("getbegin", "mid")) /\ UNCHANGED part
  BY <1>0, <1>5, <1>10, ForGoes DEF GoTo, Manifested
<1> QED  BY <1>3, <1>4, <1>6, <1>7, <1>8, <1>9, <1>10 DEF Lost

\* The worker takes the status it was given.
LEMMA DlAccept ==
    ASSUME FtInv, DlInv, CtlOnly, ctlUp, NEW r, NEW phase, chan' = << >>, Kind = "put",
           w.pc \notin {"idle", "persist", "settle", "cancel", "cleanup"},
           w.gen # 0, Manifested(w), UNCHANGED ctlJournal, Valid(r), r.off \in Int,
           r.k = "completed" => InPlace(dest, r.v),
           phase \in {entry.phase, "Running", "ReadyToFinalize"}, Accept(r, phase)
    PROVE  CtlTold'
<1>0. WorkerShape(w) /\ EntryOK(entry, Versions) /\ Kind' = Kind
  BY OwnState DEF Kind, CtlOnly
<1>1. ~Over(entry) /\ ~Clean(entry) /\ ~Over(ctlJournal) /\ ~Clean(ctlJournal)
  BY Busy DEF DlInv
<1>2. /\ w' = [At(After(r)) EXCEPT !.off = r.off]
      /\ entry' = [entry EXCEPT !.off = r.off, !.phase = IF Done(r) THEN "Completed" ELSE phase,
                                !.err = entry.err /\ ~Done(r)]
  BY DEF Accept, GoTo
<1>3. w'.pc = After(r) /\ w'.m = w.m /\ w'.gen = w.gen
  BY <1>0, <1>2 DEF WorkerShape, At
<1>4. /\ entry'.m = entry.m /\ entry'.phase = (IF Done(r) THEN "Completed" ELSE phase)
      /\ entry'.err = (entry.err /\ ~Done(r))
  BY <1>0, <1>2 DEF EntryOK
<1>5. Sessioned(w') /\ (Manifested(w') => w'.m = entry'.m)
  BY <1>3, <1>4 DEF Sessioned, DlInv, CtlTold
<1>6. ~Clean(entry')
  BY <1>1, <1>4 DEF Clean
<1>7. ASSUME Over(entry') PROVE Quiet' /\ InPlace(dest', entry'.m)
  <2>1. Done(r)
    BY <1>1, <1>4, <1>7 DEF Over
  <2>2. w'.pc = "persist" /\ r.v = entry.m
    BY <1>3, <2>1 DEF Done, After, Valid, DlInv, CtlTold
  <2> QED  BY <1>0, <1>4, <2>1, <2>2 DEF Quiet, Done, CtlOnly
<1> QED  BY <1>0, <1>1, <1>5, <1>6, <1>7 DEF CtlTold, Ended

\* A put's answer is acted on.
LEMMA DlPutAnswer ==
    ASSUME FtInv, DlInv, CtlOnly, ctlUp, NEW r, chan' = << >>, Kind = "put",
           w.pc \notin {"idle", "persist", "settle", "cancel", "cleanup"},
           w.gen # 0, UNCHANGED ctlJournal, r.off \in Int,
           r.k = "completed" => InPlace(dest, r.v), PutAnswer(r)
    PROVE  CtlTold' /\ part' = part
<1>0. WorkerShape(w) /\ EntryOK(entry, Versions)
  BY OwnState
<1>1. ~Over(entry) /\ ~Clean(entry) /\ ~Over(ctlJournal) /\ ~Clean(ctlJournal)
  BY Busy DEF DlInv
<1>2. Manifested(w)
  BY DEF PutAnswer, Manifested
<1>3. CASE Fail
  BY <1>3, EndsTold DEF DlInv, Fail
<1>4. CASE \E phase \in {entry.phase, "Running", "ReadyToFinalize"} : Valid(r) /\ Accept(r, phase)
  BY <1>2, <1>4, DlAccept DEF Accept
<1>5. ASSUME NEW pc \in {"rebegin", "resend", "refinalize"}, GoTo(At(pc)), UNCHANGED <<entry, part>>
      PROVE  CtlTold' /\ part' = part
  <2>1. w' = At(pc) /\ w'.gen = w.gen /\ w'.m = w.m
    BY <1>0, <1>5 DEF GoTo, At, WorkerShape
  <2>2. Sessioned(w') /\ w'.m = entry'.m
    BY <1>2, <1>5, <2>1 DEF Sessioned, DlInv, CtlTold
  <2> QED  BY <1>1, <1>5, <2>2, Runs DEF DlInv
<1>6. Progress(r) \in {"Running", "ReadyToFinalize"}
  BY DEF Progress
<1>7. CASE BeginAnswer(r)
  BY <1>3, <1>4, <1>5, <1>7 DEF BeginAnswer
<1>8. CASE ResumeChunk(r)
  BY <1>3, <1>4, <1>5, <1>6, <1>8 DEF ResumeChunk
<1>9. CASE ResumeFinalize(r)
  BY <1>3, <1>4, <1>5, <1>9 DEF ResumeFinalize
<1>10. CASE ChunkAnswer(r) \/ ResentAnswer(r) \/ FinalizeAnswer(r)
  BY <1>3, <1>4, <1>6, <1>10 DEF ChunkAnswer, ResentAnswer, FinalizeAnswer
<1> QED  BY <1>7, <1>8, <1>9, <1>10 DEF PutAnswer

\* A get's answer is acted on.
LEMMA DlGetAnswer ==
    ASSUME FtInv, DlInv, CtlOnly, ctlUp, NEW r, Kind = "get",
           w.pc \notin {"idle", "persist", "settle", "cancel", "cleanup"},
           w.gen # 0, GetAnswer(r)
    PROVE  CtlTold'
<1>0. WorkerShape(w) /\ EntryOK(entry, Versions) /\ PartOK(part)
  BY OwnState
<1>1. /\ ~Over(entry) /\ ~Clean(entry) /\ ~Over(ctlJournal) /\ ~Clean(ctlJournal)
      /\ part.there => ctlJournal.kept /\ entry.kept
      /\ Manifested(w) => w.m = entry.m
  BY Busy DEF DlInv, CtlTold, GetTold
<1>2. \A k : Goes(At(k), k) /\ At(k).gen = w.gen /\ Goes([At(k) EXCEPT !.gen = 0], k)
  BY <1>0, AtGoes DEF At, WorkerShape
<1>3. \A k : LoopOrLand(k) \in {"land", "getchunk"}
  BY DEF LoopOrLand
<1>4. CASE Fail /\ UNCHANGED ctlJournal
  BY <1>4, EndsTold DEF DlInv
<1>5. ASSUME w'.pc \in {"land", "getchunk", "regetchunk"}, w'.gen = w.gen, w'.m = entry'.m,
             ~Over(entry'), ~Clean(entry'), ~Over(ctlJournal'), ~Clean(ctlJournal'),
             part'.there => ctlJournal'.kept /\ entry'.kept
      PROVE  CtlTold'
  BY <1>5, Runs DEF DlInv, Sessioned
<1>6. CASE FreshGet(r)
  <2> DEFINE e == [entry EXCEPT !.m = r.v, !.phase = "Running", !.kept = TRUE]
  <2>1. e.phase = "Running" /\ e.kept /\ e.m = r.v /\ DOMAIN e = DOMAIN entry
    BY <1>0 DEF EntryOK
  <2>2. \/ /\ ctlJournal' = e /\ entry' = e
           /\ w' = [At(LoopOrLand(Len(part'.data))) EXCEPT !.m = r.v, !.off = Len(part'.data)]
        \/ Fail /\ UNCHANGED ctlJournal
        \/ /\ ctlJournal' \in {ctlJournal, e} /\ entry' = SetFailed(e) /\ part' = NoPart
           /\ w' = [At("cleanup") EXCEPT !.gen = 0]
    BY <1>6, Zenon DEF FreshGet, CtlPersistOk, CtlPersistFails, GoTo
  <2> HIDE DEF e
  <2>3. ~Over(e) /\ ~Clean(e)
    BY <2>1 DEF Over, Clean
  <2>4. CASE /\ ctlJournal' = e /\ entry' = e
             /\ w' = [At(LoopOrLand(Len(part'.data))) EXCEPT !.m = r.v, !.off = Len(part'.data)]
    <3> DEFINE n == Len(part'.data)
               k == LoopOrLand(n)
    <3>1. w' = [At(k) EXCEPT !.m = r.v, !.off = n] /\ k \in {"land", "getchunk"}
      BY <1>3, <2>4
    <3>2. Goes(At(k), k) /\ At(k).gen = w.gen
      BY <1>2
    <3> HIDE DEF k, n
    <3>3. w'.pc = k /\ w'.gen = w.gen /\ w'.m = r.v
      BY <3>1, <3>2 DEF Goes, WorkerShape
    <3> QED  BY <1>5, <2>1, <2>3, <2>4, <3>1, <3>3
  <2>5. CASE /\ ctlJournal' \in {ctlJournal, e} /\ entry' = SetFailed(e) /\ part' = NoPart
             /\ w' = [At("cleanup") EXCEPT !.gen = 0]
    <3>1. w'.pc = "cleanup" /\ w'.sent = "no" /\ ~part'.there
      BY <1>2, <2>5 DEF Goes, NoPart
    <3>2. ~Over(SetFailed(e)) /\ ~Clean(SetFailed(e))
      BY <2>1 DEF SetFailed, Over, Clean
    <3>3. SetFailed(e) = [e EXCEPT !.phase = "Failed", !.err = TRUE] \/ SetFailed(e) = e
      BY DEF SetFailed
    <3> QED  BY <1>1, <2>3, <2>5, <3>1, <3>2, Runs DEF DlInv, Sessioned, OneSession, Manifested
  <2> QED  BY <1>4, <2>2, <2>4, <2>5
<1>7. CASE w.pc = "getbegin" /\ w.why # "fresh" /\ SameManifest(r) /\ UNCHANGED ctlJournal
  <2>1. w.m = entry.m
    BY <1>1, <1>7 DEF Manifested
  <2>2. ASSUME entry' = entry \/ entry' = [entry EXCEPT !.phase = "Running"]
        PROVE  /\ entry'.m = entry.m /\ entry'.kept = entry.kept /\ ~Over(entry') /\ ~Clean(entry')
    BY <1>0, <1>1, <2>2 DEF EntryOK, Over, Clean
  <2>3. CASE Fail
    BY <1>4, <1>7, <2>3
  <2>4. ASSUME NEW k \in {"land", "getchunk", "regetchunk"}, w' = At(k), part' = part,
               entry' = entry \/ entry' = [entry EXCEPT !.phase = "Running"]
        PROVE  CtlTold'
    <3>1. Goes(w', k) /\ w'.gen = w.gen
      BY <1>2, <2>4
    <3> QED  BY <1>1, <1>5, <1>7, <2>1, <2>2, <2>4, <3>1 DEF Goes
  <2> QED  BY <1>3, <1>7, <2>3, <2>4 DEF SameManifest, Shown, GoTo
<1>8. CASE w.pc \in {"getchunk", "regetchunk"} /\ StoreChunk(r) /\ UNCHANGED ctlJournal
  <2>1. w.m = entry.m
    BY <1>1, <1>8 DEF Manifested
  <2>2. CASE Fail
    BY <1>4, <1>8, <2>2
  <2>3. CASE /\ part' = Appended(r.v)
             /\ entry' = [entry EXCEPT !.off = w.off + 1, !.phase = "Running"]
             /\ GoTo([At(LoopOrLand(w.off + 1)) EXCEPT !.off = @ + 1])
    <3>1. entry'.m = entry.m /\ entry'.kept = entry.kept /\ ~Over(entry') /\ ~Clean(entry')
      BY <1>0, <2>3 DEF EntryOK, Over, Clean
    <3>2. part'.there = part.there
      BY <1>0, <2>3 DEF PartOK, Appended
    <3> DEFINE k == LoopOrLand(w.off + 1)
    <3>3. w' = [At(k) EXCEPT !.off = At(k).off + 1] /\ k \in {"land", "getchunk"}
      BY <1>3, <2>3 DEF GoTo
    <3>4. Goes(At(k), k) /\ At(k).gen = w.gen
      BY <1>2
    <3> HIDE DEF k
    <3>5. w'.pc = k /\ w'.m = w.m /\ w'.gen = w.gen
      BY <3>3, <3>4 DEF Goes, WorkerShape
    <3> QED  BY <1>1, <1>5, <1>8, <2>1, <3>1, <3>2, <3>3, <3>5
  <2> QED  BY <1>8, <2>2, <2>3 DEF StoreChunk
<1> QED  BY <1>4, <1>6, <1>7, <1>8 DEF GetAnswer

\* The session handler delivers an answer.
LEMMA DlDeliver == ASSUME FtInv, FtInv', DlInv, DownInv, Deliver PROVE DlInv'
<1>0. /\ WorkerOK(w, entry, Kind, Versions) /\ Kind \in {"put", "get"}
  BY OwnState
<1> DEFINE r == chan[1].ans
<1>1. /\ gen # 0 /\ chan # << >> /\ r # NoMsg /\ chan' = Tail(chan) /\ CtlOnly /\ UNCHANGED gen /\ host.up
  BY DEF Deliver, Outside, CtlOnly, DlInv, HostTold
<1>2. ChanOK(chan, w.sent, Kind, Versions)
  BY DEF FtInv
<1>3. /\ chan \in Seq(Packet) /\ Len(chan) \in Nat /\ Len(chan) >= 1 /\ 1 \in 1 .. Len(chan)
      /\ chan[1] \in Packet
      /\ Tail(chan) \in Seq(Packet) /\ Len(Tail(chan)) = Len(chan) - 1
      /\ \A i \in 1 .. Len(Tail(chan)) : i + 1 \in 1 .. Len(chan) /\ Tail(chan)[i] = chan[i + 1]
  BY <1>1, <1>2 DEF ChanOK
<1>4. CASE ~chan[1].heard
  <2>1. UNCHANGED <<entry, ctlJournal, w, part>>
    BY <1>4 DEF Deliver
  <2>2. CtlTold'
    BY <1>1, <2>1, SameWorker DEF Quiet, DlInv, CtlTold
  <2>3. ASSUME NEW i \in 1 .. Len(chan') PROVE PacketTold(chan[i])'
    <3>1. PacketTold(chan[i + 1]) /\ chan'[i] = chan[i + 1]
      BY <1>1, <1>3 DEF DlInv, ChanTold
    <3> QED  BY <1>1, <2>1, <3>1 DEF PacketTold, Confirms, CtlOnly, Kind
  <2>4. ChanTold'
    BY <2>3 DEF ChanTold
  <2> QED  BY <1>1, <2>1, <2>2, <2>4, PlainStep
<1>5. CASE chan[1].heard
  <2>1. Len(chan) = 1 /\ w.sent = "yes"
    BY <1>2, <1>3, <1>5 DEF ChanOK
  <2>2. chan' = << >>
    BY <1>1, <1>3, <2>1
  <2>3. w.pc \notin Local /\ w.gen # 0 /\ r.off \in Int
    BY <1>0, <1>3, <2>1 DEF WorkerOK, DlInv, CtlTold, Sessioned, Packet, Letter
  <2>4. ctlUp
    BY <2>3, Awake DEF Local
  <2>5. PacketTold(chan[1])
    BY <1>3 DEF DlInv, ChanTold
  <2>6. ChanTold'
    <3>1. Len(chan') = 0
      BY <2>2
    <3> QED  BY <3>1 DEF ChanTold
  <2>7. CASE w.pc \in {"cancel", "settle", "cleanup"}
    <3>1. Confirmed(Confirms(r)) /\ UNCHANGED <<ctlJournal, part>>
      BY <1>5, <2>7 DEF Deliver
    <3>2. Confirms(r) \in BOOLEAN /\ (Confirms(r) => host.phase = "none")
      BY <1>5, <2>5, <2>7 DEF Confirms, PacketTold
    <3> HIDE DEF r
    <3>3. CtlTold'
      BY <1>1, <2>2, <2>4, <2>7, <3>1, <3>2, DlConfirmed
    <3> QED  BY <1>1, <2>6, <3>1, <3>3, PlainStep
  <2>8. CASE w.pc \notin {"cancel", "settle", "cleanup"} /\ Kind = "put"
    <3>1. PutAnswer(r) /\ UNCHANGED ctlJournal
      BY <1>5, <2>8 DEF Deliver
    <3>2. r.k = "completed" => InPlace(dest, r.v)
      BY <2>5 DEF PacketTold
    <3> HIDE DEF r
    <3>3. CtlTold' /\ part' = part
      BY <1>1, <2>2, <2>3, <2>4, <2>8, <3>1, <3>2, DlPutAnswer DEF Local
    <3> QED  BY <1>1, <2>6, <3>3, PlainStep
  <2>9. CASE w.pc \notin {"cancel", "settle", "cleanup"} /\ Kind = "get"
    <3>1. GetAnswer(r)
      BY <1>5, <2>9 DEF Deliver
    <3> HIDE DEF r
    <3>2. CtlTold'
      BY <1>1, <2>3, <2>4, <2>9, <3>1, DlGetAnswer DEF Local
    <3> QED  BY <1>1, <2>6, <2>9, <3>2, PlainStep
  <2> QED  BY <1>0, <2>7, <2>8, <2>9
<1> QED  BY <1>4, <1>5

\* What a lost session leaves of an empty channel.
LEMMA NothingRemains == ASSUME FtInv, chan = << >>, NEW c \in Remains PROVE c = << >>
BY HostState DEF HostOK, Remains, Flying

\* A worker whose session is gone.
LEMMA LosesFields ==
    ASSUME FtInv, w' = LosesRequest(w), Sessioned(w)
    PROVE  w'.pc = w.pc /\ w'.why = w.why /\ w'.m = w.m /\ Sessioned(w')
<1>1. WorkerShape(w)
  BY OwnState
<1>2. CASE w.sent # "yes"
  BY <1>2 DEF LosesRequest
<1>3. CASE w.sent = "yes"
  <2>1. w' = [w EXCEPT !.sent = "lost"]
    BY <1>3 DEF LosesRequest
  <2>2. w'.pc = w.pc /\ w'.why = w.why /\ w'.m = w.m /\ w'.gen = w.gen
    BY <1>1, <2>1 DEF WorkerShape
  <2> QED  BY <1>3, <2>2 DEF Sessioned
<1> QED  BY <1>2, <1>3

\* Sessions come and go.
LEMMA DlSessions == ASSUME FtInv, FtInv', DlInv, Connect \/ Disconnect \/ HostDrops PROVE DlInv'
<1>1. CtlOnly /\ UNCHANGED <<entry, ctlJournal, part>>
  BY DEF Connect, Disconnect, HostDrops, NoFiles, Outside, CtlOnly
<1>2. Sessioned(w)
  BY DEF DlInv, CtlTold
<1>3. /\ chan' \in Remains \/ chan' = << >>
      /\ w' = w \/ w' = LosesRequest(w)
      /\ gen' # 0 \/ chan' # << >> => host.up
  <2>1. CASE Connect
    BY <2>1 DEF Connect, DlInv, HostTold
  <2>2. CASE Disconnect
    BY <2>2 DEF Disconnect, Remains, DlInv, HostTold
  <2>3. CASE HostDrops
    BY <2>3 DEF HostDrops
  <2> QED  BY <2>1, <2>2, <2>3
<1>4. w'.pc = w.pc /\ w'.why = w.why /\ w'.m = w.m /\ Sessioned(w')
  BY <1>2, <1>3, LosesFields
<1>5. CtlTold'
  BY <1>1, <1>3, <1>4, NothingRemains, SameWorker DEF Quiet
<1>6. ChanTold'
  BY <1>1, <1>3, WorkerEchoes, EchoesTold DEF CtlOnly, DlInv
<1> QED  BY <1>1, <1>3, <1>5, <1>6, PlainStep

\* The Host stops, perhaps in the middle of a chunk.
LEMMA DlHostCrash == ASSUME FtInv, FtInv', DlInv, HostCrash PROVE DlInv'
<1>0. /\ Kind \in {"put", "get"} /\ HostOK(host, chan, part, landed, Kind, Versions) /\ landed \in Nat
      /\ PartOK(part)
  BY HostState
<1>1. /\ host' = [HostBlank EXCEPT !.up = FALSE] /\ part' \in HalfWritten /\ chan' = << >> /\ gen' = 0
      /\ w' = LosesRequest(w) /\ host.up
      /\ UNCHANGED <<job, hostJournal, entry, ctlJournal, dest, landed, lapse, ctlUp>>
  BY DEF HostCrash, Outside
<1>2. /\ ~host'.up /\ host'.phase = "none" /\ host'.step = "idle"
  BY <1>1 DEF HostBlank
<1>3. Kind' = Kind
  BY <1>1 DEF Kind
<1>4. w'.pc = w.pc /\ w'.why = w.why /\ w'.m = w.m /\ Sessioned(w')
  BY <1>1, LosesFields DEF DlInv, CtlTold
<1>5. part' = part \/ (Kind = "put" /\ chan # << >> /\ Active(host.phase))
  BY <1>0, <1>1 DEF HalfWritten, Starting, Serving, HostOK, Active
<1>6. part' = part \/ (host.step = "idle" /\ Active(host.phase))
  BY <1>1 DEF HalfWritten, Starting
<1>7. DestTold'
  BY <1>1 DEF DlInv, DestTold
<1>8. HostTold'
  <2>1. ASSUME Kind = "put", ~lapse, landed > 0 PROVE landed = 1 /\ Remembers' /\ ~part'.there
    <3>1. /\ landed = 1 /\ (host.phase = "completed" \/ host.step = "renamed")
          /\ Remembers /\ ~part.there
      BY <1>1, <2>1 DEF DlInv, HostTold, PutTold
    <3>2. part' = part
      BY <1>6, <3>1 DEF Active
    <3> QED  BY <1>1, <3>1, <3>2 DEF Remembers, LandedAt
  <2> QED  BY <1>1, <1>2, <1>3, <2>1 DEF HostTold, PutTold, DlInv
<1>9. ChanTold'
  <2>1. Len(chan') = 0
    BY <1>1
  <2> QED  BY <2>1 DEF ChanTold
<1>10. CtlTold'
  <2>1. Manifested(w') => w'.m = entry'.m
    BY <1>1, <1>4 DEF DlInv, CtlTold, Manifested
  <2>2. Kind = "get" => GetTold'
    BY <1>1, <1>4, <1>5 DEF DlInv, CtlTold, GetTold
  <2>3. Quiet => Quiet'
    BY <1>1, <1>3, <1>4 DEF Quiet
  <2>4. Quiet /\ Bare => Bare'
    BY <1>1, <1>2, <1>5 DEF Quiet, Bare
  <2> QED  BY <1>1, <1>3, <1>4, <2>1, <2>2, <2>3, <2>4 DEF DlInv, CtlTold, Ended
<1> QED  BY <1>7, <1>8, <1>9, <1>10 DEF DlInv

\* The Controller stops.
LEMMA DlControllerCrash == ASSUME FtInv, FtInv', DlInv, ControllerCrash PROVE DlInv'
<1>0. /\ Kind \in {"put", "get"} /\ PartOK(part) /\ WorkerOK(w, entry, Kind, Versions) /\ landed \in Nat
  BY OwnState
<1>1. /\ entry' = NoEntry /\ w' = IdleWorker /\ chan' \in Remains /\ gen' = 0 /\ ~ctlUp' /\ ctlUp
      /\ lapse' = (lapse \/ GetForgotten)
      /\ part' \in IF w.pc \in {"getchunk", "regetchunk"} /\ part.there
                   THEN {part, [part EXCEPT !.ragged = TRUE]} ELSE {part}
      /\ UNCHANGED <<job, host, hostJournal, ctlJournal, dest, landed>>
  BY DEF ControllerCrash, Remains
<1>2. part'.there = part.there /\ (Kind = "put" => part' = part) /\ Kind' = Kind
  BY <1>0, <1>1 DEF PartOK, WorkerOK, PutPcs, Kind
<1>3. ChanTold'
  BY <1>1, WorkerEchoes, EchoesTold DEF DlInv
<1>4. w'.pc = "idle" /\ w'.sent = "no" /\ entry'.phase = "none"
  BY <1>1, IdleFields DEF NoEntry
<1>5. ~Manifested(w') /\ Sessioned(w')
  BY <1>4 DEF Manifested, Sessioned, OneSession
<1>6. ASSUME Kind = "get" PROVE GetTold'
  BY <1>1, <1>2, <1>4, <1>6 DEF DlInv, CtlTold, GetTold, GetForgotten
<1>7. (Quiet => Quiet') /\ (Bare => Bare')
  BY <1>1, <1>2, <1>4, NothingRemains DEF Quiet, Bare
<1>8. CtlTold'
  BY <1>1, <1>2, <1>4, <1>5, <1>6, <1>7 DEF DlInv, CtlTold, Ended, Over, Clean
<1>9. DestTold'
  BY <1>1 DEF DlInv, DestTold
<1>10. chan' # << >> => host.up
  BY <1>1, NothingRemains DEF DlInv, HostTold
<1> QED  BY <1>0, <1>1, <1>2, <1>3, <1>8, <1>9, <1>10, CtlTells

\* The Controller starts again from its journal.
LEMMA DlControllerRestart == ASSUME FtInv, FtInv', DlInv, DownInv, ControllerRestart PROVE DlInv'
<1>0. /\ Kind \in {"put", "get"} /\ EntryOK(ctlJournal, Versions) /\ landed \in Nat
  BY OwnState
<1>1. /\ w = IdleWorker /\ ~ctlUp
      /\ UNCHANGED <<job, host, hostJournal, chan, gen, lapse, dest, landed>>
  BY DEF ControllerRestart, DownInv, NoChannel
<1>2. w.pc = "idle" /\ w.sent = "no" /\ Kind' = Kind
  BY <1>1, IdleFields DEF Kind
<1>3. ChanTold' /\ DestTold' /\ (gen' # 0 \/ chan' # << >> => host.up)
  BY <1>1, <1>2, StillTold DEF DlInv, DestTold, HostTold
<1>4. /\ RestoredEntry = ctlJournal
         \/ /\ ctlJournal.phase \notin Terminal \cup {"none", "Cancelling"}
            /\ RestoredEntry.phase \in {"Waiting", "Failed"}
      /\ RestoredEntry.kept = ctlJournal.kept
      /\ RestoredEntry.phase = "Waiting" /\ Kind = "get" => ctlJournal.kept
      /\ RestoredEntry.phase \in {"Waiting", "Cancelling"} => ctlJournal.phase \notin Terminal
  <2>1. /\ [ctlJournal EXCEPT !.phase = "Waiting", !.err = FALSE].phase = "Waiting"
        /\ [ctlJournal EXCEPT !.phase = "Waiting", !.err = FALSE].kept = ctlJournal.kept
        /\ [ctlJournal EXCEPT !.phase = "Failed", !.err = TRUE].phase = "Failed"
        /\ [ctlJournal EXCEPT !.phase = "Failed", !.err = TRUE].kept = ctlJournal.kept
    BY <1>0 DEF EntryOK
  <2>2. CASE ctlJournal.phase \in Terminal \cup {"none", "Cancelling"}
    BY <2>2 DEF RestoredEntry, Terminal
  <2>3. CASE ctlJournal.phase \notin Terminal \cup {"none", "Cancelling"}
    BY <1>0, <2>1, <2>3 DEF RestoredEntry
  <2> QED  BY <2>2, <2>3
<1>5. ASSUME NEW x \in {entry, ctlJournal, RestoredEntry}
      PROVE  /\ Over(x) => x = entry \/ x = ctlJournal
             /\ Clean(x) => x = entry \/ x = ctlJournal
  BY <1>4, <1>5 DEF Over, Clean
<1>6. CASE /\ ctlUp' /\ entry' = RestoredEntry /\ ctlJournal' = RestoredEntry /\ w' = RestoredWorker
           /\ part' = IF Kind = "get" /\ ctlJournal.phase = "Cancelling" /\ ctlJournal.kept
                      THEN NoPart ELSE part
  <2>1. /\ w'.sent = "no" /\ ~Manifested(w') /\ Sessioned(w')
        /\ RestoredEntry.phase = "Cancelling" => w'.pc = "cancel"
        /\ RestoredEntry.phase = "Waiting" => w'.pc = IF Kind = "put" THEN "prepare" ELSE "recover"
        /\ RestoredEntry.phase \notin {"Cancelling", "Waiting"} => w'.pc = "idle"
    <3>1. \A k : /\ [IdleWorker EXCEPT !.pc = k].sent = "no" /\ [IdleWorker EXCEPT !.pc = k].pc = k
      BY DEF IdleWorker
    <3>2. /\ w'.sent = "no"
          /\ RestoredEntry.phase = "Cancelling" => w'.pc = "cancel"
          /\ RestoredEntry.phase = "Waiting" => w'.pc = IF Kind = "put" THEN "prepare" ELSE "recover"
          /\ RestoredEntry.phase \notin {"Cancelling", "Waiting"} => w'.pc = "idle"
      BY <1>6, <3>1, IdleFields DEF RestoredWorker
    <3>3. w'.pc \in {"idle", "cancel", "prepare", "recover"}
      BY <3>2
    <3> QED  BY <3>2, <3>3 DEF Manifested, Sessioned, OneSession
  <2>2. ~NoPart.there
    BY DEF NoPart
  <2>3. ASSUME Kind = "get" PROVE GetTold'
    <3>1. /\ part.there => ctlJournal.kept
          /\ ~lapse /\ landed > 0 => landed = 1 /\ ctlJournal.phase \in Terminal
      BY <1>1, <2>3 DEF DlInv, CtlTold, GetTold
    <3>2. w'.pc \in {"idle", "cancel", "recover"} /\ (w'.pc = "recover" => ctlJournal.kept)
          /\ (w'.pc = "cancel" => RestoredEntry.phase = "Cancelling")
      BY <1>4, <2>1, <2>3
    <3>3. RestoredEntry.phase = "Cancelling" => ctlJournal.phase = "Cancelling"
      BY <1>4
    <3>4. (part'.there => part.there) /\ (w'.pc = "cancel" => ~part'.there)
      BY <1>6, <2>2, <2>3, <3>1, <3>2, <3>3
    <3>5. ctlJournal.phase \in Terminal => w'.pc = "idle"
      BY <1>4, <2>1
    <3> QED  BY <1>1, <1>4, <1>6, <3>1, <3>2, <3>4, <3>5 DEF GetTold
  <2>4. ASSUME NEW x, x = RestoredEntry, Over(x) \/ Clean(x)
        PROVE  x = ctlJournal /\ Quiet'/\ part' = part
    <3>1. x.phase \in {"Completed", "Cancelled"}
      BY <2>4 DEF Over, Clean
    <3>2. x = ctlJournal /\ w'.pc = "idle" /\ part' = part
      BY <1>4, <1>6, <2>1, <2>4, <3>1
    <3>3. Quiet
      BY <2>4, <3>2 DEF DlInv, CtlTold, Ended
    <3> QED  BY <1>1, <1>2, <3>2, <3>3 DEF Quiet
  <2>5. part' = part /\ Bare => Bare'
    BY <1>1 DEF Bare
  <2>6. Ended(entry)' /\ Ended(ctlJournal)'
    BY <1>1, <1>6, <2>4, <2>5 DEF DlInv, CtlTold, Ended
  <2>7. CtlTold'
    BY <1>2, <2>1, <2>3, <2>6 DEF CtlTold
  <2>8. Kind = "put" => part' = part
    BY <1>6
  <2> QED  BY <1>1, <1>3, <2>7, <2>8, CtlTells
<1>7. CASE ctlJournal' \in {ctlJournal, RestoredEntry} /\ UNCHANGED <<ctlUp, entry, w, part>>
  <2>1. Quiet' = Quiet /\ (Bare => Bare')
    BY <1>1, <1>2, <1>7 DEF Quiet, Bare
  <2>2. ASSUME Kind = "get" PROVE GetTold'
    <3>1. ctlJournal.phase \in Terminal => RestoredEntry.phase \in Terminal
      BY <1>4
    <3> QED  BY <1>1, <1>4, <1>7, <2>2, <3>1 DEF DlInv, CtlTold, GetTold
  <2>3. ASSUME NEW x \in {ctlJournal, RestoredEntry}, ctlJournal' = x
        PROVE  /\ Over(x) => Quiet' /\ InPlace(dest', x.m)
               /\ Clean(x) => Quiet' /\ Bare'
    BY <1>1, <1>5, <2>1, <2>3 DEF DlInv, CtlTold, Ended
  <2>4. Ended(entry)' /\ Ended(ctlJournal)'
    BY <1>1, <1>7, <2>1, <2>3 DEF DlInv, CtlTold, Ended
  <2>5. CtlTold'
    BY <1>1, <1>2, <1>7, <2>2, <2>4 DEF DlInv, CtlTold, Manifested, Sessioned
  <2> QED  BY <1>1, <1>3, <1>7, <2>5, CtlTells
<1> QED  BY <1>6, <1>7 DEF ControllerRestart, CtlPersistOk, CtlPersistFails

-----------------------------------------------------------------------------
(* The Host's steps, and those beside it.                                  *)

\* What a step of the Host leaves alone.
HostOnly == UNCHANGED <<job, lapse, ctlVars>>

\* The Controller has reported nothing that a request on its way could undo.
LEMMA ServeCtl ==
    ASSUME FtInv, FtInv', DlInv, HostOnly, chan # << >>, chan' # << >>,
           Kind = "get" => UNCHANGED <<part, dest, landed>>
    PROVE  CtlTold'
<1>1. UNCHANGED <<w, entry, ctlJournal, ctlUp, lapse>> /\ Kind' = Kind /\ Kind \in {"put", "get"}
  BY GetHost DEF HostOnly, ctlVars, Kind
<1>2. CASE Kind = "put"
  BY <1>1, <1>2 DEF DlInv, CtlTold, Ended, Quiet, Manifested, Sessioned
<1>3. CASE Kind = "get"
  <2>1. host'.phase = "none"
    BY <1>1, <1>3 DEF FtInv, HostOK
  <2>2. GetTold'
    BY <1>1, <1>3 DEF DlInv, CtlTold, GetTold
  <2>3. (Quiet => Quiet') /\ (Bare => Bare')
    BY <1>1, <1>3, <2>1 DEF Quiet, Bare
  <2> QED  BY <1>1, <1>3, <2>2, <2>3 DEF DlInv, CtlTold, Ended, Manifested, Sessioned
<1> QED  BY <1>1, <1>2, <1>3

\* Only the first request is answered.
LEMMA AnswerTold ==
    ASSUME FtInv, DlInv, HostOnly, chan # << >>, chan[1].ans = NoMsg, NEW r, Answer(r),
           r.k = "completed" => Kind = "put" /\ InPlace(dest', r.v),
           chan[1].req.k = "cancel" /\ Confirms(r) => host'.phase = "none"
    PROVE  ChanTold' /\ chan' # << >>
<1>1. chan \in Seq(Packet) /\ w' = w /\ Kind' = Kind
  BY HostState DEF HostOnly, ctlVars, Kind
<1>2. 1 \in 1 .. Len(chan) /\ chan[1] \in Packet /\ Len(chan) \in Nat
  BY <1>1
<1> DEFINE y == [chan[1] EXCEPT !.ans = r]
<1>3. y.req = chan[1].req /\ y.ans = r /\ y.heard = chan[1].heard
  BY <1>2 DEF Packet
<1>4. chan' = [chan EXCEPT ![1] = y]
  BY DEF Answer
<1> HIDE DEF y
<1>5. /\ DOMAIN chan' = 1 .. Len(chan) /\ chan'[1] = y
      /\ \A i \in 1 .. Len(chan) : i # 1 => chan'[i] = chan[i]
  BY <1>1, <1>2, <1>4
<1>6. \A i \in 1 .. Len(chan) : i # 1 => chan[i].ans = NoMsg /\ PacketTold(chan[i])
  BY <1>1 DEF FtInv, ChanOK, DlInv, ChanTold
<1>7. PacketTold(chan[1])
  BY <1>2 DEF DlInv, ChanTold
<1>8. NoMsg.k = "none"
  BY DEF NoMsg, Msg
<1>9. \A i \in 1 .. Len(chan) : PacketTold(chan[i])'
  <2> SUFFICES ASSUME NEW i \in 1 .. Len(chan) PROVE PacketTold(chan[i])'
    OBVIOUS
  <2>1. CASE i = 1
    BY <1>1, <1>3, <1>5, <1>7, <2>1 DEF PacketTold
  <2>2. CASE i # 1
    BY <1>1, <1>5, <1>6, <1>8, <2>2 DEF PacketTold, Confirms
  <2> QED  BY <2>1, <2>2
<1>10. Len(chan') = Len(chan)
  BY <1>2, <1>5, <1>1, <1>4, LenProperties
<1>11. chan' # << >>
  BY <1>2, <1>5
<1> QED  BY <1>9, <1>10, <1>11 DEF ChanTold

\* The Host goes on without an answer.
LEMMA NoAnswerTold ==
    ASSUME FtInv, DlInv, HostOnly, chan # << >>, chan[1].ans = NoMsg, chan' = chan
    PROVE  ChanTold'
<1>1. w' = w /\ Kind' = Kind
  BY DEF HostOnly, ctlVars, Kind
<1>2. \A i \in 1 .. Len(chan) : chan[i].ans = NoMsg /\ PacketTold(chan[i])
  BY DEF FtInv, ChanOK, DlInv, ChanTold
<1>3. NoMsg.k = "none"
  BY DEF NoMsg, Msg
<1> QED  BY <1>1, <1>2, <1>3 DEF ChanTold, PacketTold, Confirms

\* The Host answers with what it knows.
LEMMA DlSays ==
    ASSUME FtInv, FtInv', DlInv, HostOnly, UNCHANGED <<hostJournal, part, dest, landed>>,
           host.up, host.step = "idle", host' = host \/ host' = [host EXCEPT !.step = "idle"],
           chan # << >>, chan[1].ans = NoMsg, NEW r, Answer(r),
           r.k = "completed" => r = Status(host) /\ Kind = "put",
           chan[1].req.k = "cancel" /\ Confirms(r) => host.phase = "none"
    PROVE  DlInv'
<1>0. HostOK(host, chan, part, landed, Kind, Versions)
  BY HostState
<1>1. /\ host'.up /\ host'.step = "idle" /\ host'.phase = host.phase /\ host'.m = host.m
  BY <1>0 DEF HostOK, HostFields
<1>2. UNCHANGED <<gen, lapse>> /\ Kind' = Kind
  BY DEF HostOnly, ctlVars, Kind
<1>3. r = Status(host) => r.k = host.phase /\ r.v = host.m
  BY DEF Status, Msg
<1>4. ChanTold' /\ chan' # << >>
  BY <1>1, <1>3, AnswerTold DEF DlInv, HostTold
<1>5. CtlTold'
  BY <1>4, ServeCtl
<1>6. DestTold'
  BY DEF DlInv, DestTold
<1>7. HostTold'
  BY <1>1, <1>2 DEF DlInv, HostTold, PutTold, Remembers, LandedAt
<1> QED  BY <1>4, <1>5, <1>6, <1>7 DEF DlInv

\* The Host works on an entry that is not completed.
LEMMA DlWorks ==
    ASSUME FtInv, FtInv', DlInv, HostOnly, UNCHANGED <<dest, landed>>, Kind = "get" => UNCHANGED part,
           host.up, host.phase # "completed", host.step # "renamed",
           host'.up, host'.phase # "completed", host'.step # "renamed",
           hostJournal'.phase \in {hostJournal.phase, host.phase, "none"},
           host'.step = "named" => hostJournal' = Snapshot(host'),
           Kind = "put" /\ ~Active(host'.phase) => ~part'.there,
           chan # << >>, chan[1].ans = NoMsg,
           \/ chan' = chan
           \/ \E r : /\ Answer(r) /\ r.k # "completed"
                     /\ chan[1].req.k = "cancel" /\ Confirms(r) => host'.phase = "none"
    PROVE  DlInv'
<1>1. UNCHANGED <<gen, lapse>> /\ Kind' = Kind
  BY DEF HostOnly, ctlVars, Kind
<1>2. ChanTold' /\ chan' # << >>
  <2>1. CASE chan' = chan
    BY <2>1, NoAnswerTold
  <2>2. ASSUME NEW r, Answer(r), r.k # "completed",
               chan[1].req.k = "cancel" /\ Confirms(r) => host'.phase = "none"
        PROVE  ChanTold' /\ chan' # << >>
    BY <2>2, AnswerTold
  <2> QED  BY <2>1, <2>2
<1>3. CtlTold'
  BY <1>2, ServeCtl
<1>4. DestTold'
  BY DEF DlInv, DestTold
<1>5. hostJournal'.phase # "completed"
  BY DEF DlInv, HostTold
<1>6. HostTold'
  BY <1>1, <1>5 DEF DlInv, HostTold, PutTold
<1> QED  BY <1>2, <1>3, <1>4, <1>6 DEF DlInv

\* The answers that report no completion and confirm no cancel, or do.
LEMMA AnswerWords ==
    /\ Error.k = "error" /\ NotFound.k = "notfound"
    /\ \A k, off, v : Msg(k, off, v).k = k
    /\ \A h : Status(h).k = h.phase
    /\ ~Confirms(Error)
    /\ \A r : Confirms(r) => r.k \in {"cancelled", "notfound"}
BY DEF Error, NotFound, Msg, Status, Confirms

\* put_begin
LEMMA DlPutBegin == ASSUME FtInv, FtInv', DlInv, HostOnly, PutBegin PROVE DlInv'
<1>0. /\ HostOK(host, chan, part, landed, Kind, Versions) /\ JournalOK(hostJournal, host, Kind, Versions)
      /\ Kind \in {"put", "get"} /\ (chan # << >> => PacketOK(chan[1], Kind, Versions))
  BY HostState
<1>1. /\ host.up /\ chan # << >> /\ chan[1].ans = NoMsg /\ chan[1].req.k = "putbegin"
      /\ host.step = "idle" /\ UNCHANGED <<dest, landed>>
  BY DEF PutBegin, Starting, Serving
<1>2. Kind = "put"
  BY <1>0, <1>1 DEF PacketOK, GetWords
<1>3. CASE \E r \in {Status(host), Error} : Reply(host, r) /\ UNCHANGED <<hostJournal, part>>
  BY <1>1, <1>2, <1>3, DlSays, AnswerWords DEF Reply
<1>4. CASE /\ ~Known /\ part' = NewPart /\ hostJournal' = [hostJournal EXCEPT !.tied = FALSE]
           /\ Next1([host EXCEPT !.step = "begun", !.phase = PhaseAt(0), !.m = chan[1].req.v,
                                 !.off = 0, !.last = NoMsg, !.path = NoPath])
  <2> DEFINE v == chan[1].req.v
             h == [host EXCEPT !.step = "begun", !.phase = PhaseAt(0), !.m = v,
                               !.off = 0, !.last = NoMsg, !.path = NoPath]
  <2>1. host' = h /\ chan' = chan
    BY <1>4 DEF Next1
  <2> HIDE DEF v
  <2>2. h.step = "begun" /\ h.phase = PhaseAt(0) /\ h.up = host.up
    BY <1>0 DEF HostOK, HostFields
  <2> HIDE DEF h
  <2>3. PhaseAt(0) \in {"receiving", "ready"}
    BY DEF PhaseAt
  <2>4. hostJournal'.phase = hostJournal.phase
    BY <1>0, <1>4 DEF JournalOK, JournalFields
  <2> QED  BY <1>1, <1>2, <1>4, <2>1, <2>2, <2>3, <2>4, DlWorks DEF Known, Active
<1> QED  BY <1>3, <1>4 DEF PutBegin

\* The entry of a new put is journaled, or taken away again.
LEMMA DlPutBegun == ASSUME FtInv, FtInv', DlInv, HostOnly, PutBegun PROVE DlInv'
<1>0. /\ HostOK(host, chan, part, landed, Kind, Versions)
      /\ Kind \in {"put", "get"} /\ (chan # << >> => PacketOK(chan[1], Kind, Versions))
  BY HostState
<1>1. /\ host.up /\ chan # << >> /\ chan[1].ans = NoMsg /\ chan[1].req.k = "putbegin"
      /\ host.step = "begun" /\ UNCHANGED <<dest, landed>>
  BY DEF PutBegun, Serving
<1>2. Kind = "put" /\ host.phase \in {"receiving", "ready"}
  BY <1>0, <1>1 DEF PacketOK, GetWords, HostOK, Active
<1>3. Snapshot(host).phase = host.phase
  BY SnapshotFields
<1>4. CASE PersistOk(host) /\ Reply(host, Status(host)) /\ UNCHANGED part
  <2>1. host' = [host EXCEPT !.step = "idle"] /\ Answer(Status(host)) /\ hostJournal' = Snapshot(host)
    BY <1>4 DEF Reply, PersistOk
  <2>2. host'.step = "idle" /\ host'.up = host.up /\ host'.phase = host.phase
    BY <1>0, <2>1 DEF HostOK, HostFields
  <2> QED  BY <1>1, <1>2, <1>3, <2>1, <2>2, DlWorks, AnswerWords DEF Active
<1>5. CASE /\ PersistFails(host) /\ part' = NoPart
           /\ Reply([host EXCEPT !.phase = "none", !.m = 0], Error)
  <2>1. /\ host' = [[host EXCEPT !.phase = "none", !.m = 0] EXCEPT !.step = "idle"] /\ Answer(Error)
        /\ hostJournal' = hostJournal \/ hostJournal' = Snapshot(host)
    BY <1>5 DEF Reply, PersistFails
  <2>2. host'.step = "idle" /\ host'.phase = "none" /\ host'.up = host.up /\ ~part'.there
    BY <1>0, <1>5, <2>1 DEF HostOK, HostFields, NoPart
  <2> QED  BY <1>1, <1>2, <1>3, <2>1, <2>2, DlWorks, AnswerWords
<1> QED  BY <1>4, <1>5 DEF PutBegun

\* put_chunk
LEMMA DlPutChunk == ASSUME FtInv, FtInv', DlInv, HostOnly, PutChunk PROVE DlInv'
<1>0. /\ HostOK(host, chan, part, landed, Kind, Versions)
      /\ Kind \in {"put", "get"} /\ (chan # << >> => PacketOK(chan[1], Kind, Versions))
  BY HostState
<1> DEFINE c == chan[1].req
<1>1. /\ host.up /\ chan # << >> /\ chan[1].ans = NoMsg /\ c.k = "putchunk"
      /\ host.step = "idle" /\ UNCHANGED <<hostJournal, dest, landed>>
  BY DEF PutChunk, Starting, Serving
<1>2. Kind = "put"
  BY <1>0, <1>1 DEF PacketOK, GetWords
<1>3. CASE \E r \in {Status(host), Error, NotFound} : Reply(host, r) /\ UNCHANGED part
  BY <1>1, <1>2, <1>3, DlSays, AnswerWords DEF Reply
<1>4. CASE /\ Active(host.phase)
           /\ LET h == [host EXCEPT !.off = @ + 1, !.last = c, !.phase = PhaseAt(c.off + 1)]
              IN  Reply(h, Status(h)) /\ part' = Appended(c.v)
  <2> DEFINE ph == PhaseAt(c.off + 1)
             h == [host EXCEPT !.off = host.off + 1, !.last = c, !.phase = ph]
  <2>1. host' = [h EXCEPT !.step = "idle"] /\ Answer(Status(h))
    BY <1>4 DEF Reply
  <2>2. ph \in {"receiving", "ready"}
    BY DEF PhaseAt
  <2> HIDE DEF ph, c
  <2>3. DOMAIN h = HostFields /\ h.phase = ph /\ h.up = host.up
    BY <1>0 DEF HostOK, HostFields
  <2> HIDE DEF h
  <2>4. host'.step = "idle" /\ host'.phase = ph /\ host'.up = host.up
    BY <2>1, <2>3 DEF HostFields
  <2>5. Status(h).k = ph
    BY <2>3, AnswerWords
  <2>6. Answer(Status(h)) /\ Status(h).k # "completed" /\ c.k # "cancel"
    BY <1>1, <2>1, <2>2, <2>5
  <2> QED  BY <1>1, <1>2, <1>4, <2>2, <2>4, <2>6, DlWorks DEF Active, c
<1>5. CASE Active(host.phase) /\ Reply(host, Error) /\ part' \in Torn(c.v)
  <2>1. host' = [host EXCEPT !.step = "idle"] /\ Answer(Error)
    BY <1>5 DEF Reply
  <2>2. host'.step = "idle" /\ host'.phase = host.phase /\ host'.up = host.up
    BY <1>0, <2>1 DEF HostOK, HostFields
  <2> QED  BY <1>1, <1>2, <1>5, <2>1, <2>2, DlWorks, AnswerWords DEF Active
<1> QED  BY <1>3, <1>4, <1>5 DEF PutChunk

\* finalize, up to the journaled path.
LEMMA DlFinalize == ASSUME FtInv, FtInv', DlInv, HostOnly, Finalize PROVE DlInv'
<1>0. /\ HostOK(host, chan, part, landed, Kind, Versions)
      /\ Kind \in {"put", "get"} /\ (chan # << >> => PacketOK(chan[1], Kind, Versions))
  BY HostState
<1>1. /\ host.up /\ chan # << >> /\ chan[1].ans = NoMsg /\ chan[1].req.k = "finalize"
      /\ host.step = "idle" /\ UNCHANGED <<part, dest, landed>>
  BY DEF Finalize, Starting, Serving
<1>2. Kind = "put"
  BY <1>0, <1>1 DEF PacketOK, GetWords
<1>3. CASE \E r \in {Status(host), Error, NotFound} : Reply(host, r) /\ UNCHANGED hostJournal
  BY <1>1, <1>2, <1>3, DlSays, AnswerWords DEF Reply
<1>4. CASE /\ host.phase = "ready"
           /\ \E n \in Chosen : LET h == [host EXCEPT !.path = n] IN
                \/ PersistOk(h) /\ Next1([h EXCEPT !.step = "named"])
                \/ PersistFails(h) /\ Reply(h, Error)
  <2>1. PICK n \in Chosen : LET h == [host EXCEPT !.path = n] IN
                \/ PersistOk(h) /\ Next1([h EXCEPT !.step = "named"])
                \/ PersistFails(h) /\ Reply(h, Error)
    BY <1>4
  <2> DEFINE h == [host EXCEPT !.path = n]
  <2>2. \/ hostJournal' = Snapshot(h) /\ host' = [h EXCEPT !.step = "named"] /\ chan' = chan
        \/ /\ hostJournal' = hostJournal \/ hostJournal' = Snapshot(h)
           /\ host' = [h EXCEPT !.step = "idle"] /\ Answer(Error)
    BY <2>1 DEF PersistOk, PersistFails, Next1, Reply
  <2>3. Becomes(h, host.step, host.phase, host.off, n, host.get) /\ h.m = host.m
    BY <1>0 DEF Becomes, HostOK, HostFields
  <2> HIDE DEF h
  <2>4. Snapshot(h).phase = host.phase
    BY <2>3, SnapshotFields DEF Becomes
  <2>5. \E st \in {"idle", "named"} : Becomes(host', st, host.phase, host.off, n, host.get) /\ host'.m = h.m
        /\ (st = "named" => hostJournal' = Snapshot(h) /\ chan' = chan)
        /\ (st = "idle" => Answer(Error))
    BY <2>2, <2>3 DEF Becomes, HostFields
  <2>6. host'.step = "named" => hostJournal' = Snapshot(host')
    BY <2>3, <2>5 DEF Snapshot, Becomes
  <2>7. host'.up /\ host'.phase = "ready" /\ host'.step # "renamed" /\ (chan' = chan \/ Answer(Error))
    BY <1>1, <1>4, <2>5 DEF Becomes
  <2> QED  BY <1>1, <1>2, <1>4, <2>2, <2>4, <2>6, <2>7, DlWorks, AnswerWords DEF Active
<1>5. \/ \E r \in {Status(host), Error, NotFound} : Reply(host, r) /\ UNCHANGED hostJournal
      \/ /\ host.phase = "ready"
         /\ \E n \in Chosen : LET h == [host EXCEPT !.path = n] IN
                \/ PersistOk(h) /\ Next1([h EXCEPT !.step = "named"])
                \/ PersistFails(h) /\ Reply(h, Error)
  BY DEF Finalize
<1> QED  BY <1>3, <1>4, <1>5

\* The part is renamed into place, once, or the path is withdrawn.
LEMMA DlRename == ASSUME FtInv, FtInv', DlInv, HostOnly, Rename PROVE DlInv'
<1>0. /\ HostOK(host, chan, part, landed, Kind, Versions) /\ DestOK(dest, Versions)
      /\ Kind \in {"put", "get"} /\ landed \in Nat
  BY HostState
<1>1. /\ host.up /\ chan # << >> /\ chan[1].ans = NoMsg /\ host.step = "named"
  BY DEF Rename, Serving
<1>2. /\ Kind = "put" /\ host.phase = "ready" /\ host.path \in Names
      /\ part.data = Whole(host.m) /\ hostJournal = Snapshot(host)
  BY <1>0, <1>1 DEF HostOK, DlInv, HostTold
<1>3. UNCHANGED <<gen, lapse>> /\ Kind' = Kind
  BY DEF HostOnly, ctlVars, Kind
<1>4. CASE /\ dest' = [dest EXCEPT ![host.path] = [by |-> "us", data |-> part.data]]
           /\ part' = NoPart /\ landed' = landed + 1
           /\ Next1([host EXCEPT !.step = "renamed"]) /\ UNCHANGED hostJournal
  <2>1. host' = [host EXCEPT !.step = "renamed"] /\ chan' = chan
    BY <1>4 DEF Next1
  <2>2. /\ Becomes(host', "renamed", "ready", host.off, host.path, host.get) /\ host'.m = host.m
    BY <1>0, <1>2, <2>1 DEF Becomes, HostOK, HostFields
  <2> DEFINE f == [by |-> "us", data |-> part.data]
  <2>3. f.by = "us" /\ f.data = Whole(host.m) /\ dest' = [dest EXCEPT ![host.path] = f]
    BY <1>2, <1>4
  <2> HIDE DEF f
  <2>4. dest'[host.path] = f /\ \A n \in Names : n # host.path => dest'[n] = dest[n]
    BY <1>0, <1>2, <2>3 DEF DestOK
  <2>5. landed' > 0 /\ (~lapse => landed' = 1)
    BY <1>0, <1>1, <1>2, <1>4 DEF DlInv, HostTold, PutTold
  <2>6. DestTold'
    BY <2>3, <2>4, <2>5 DEF DlInv, DestTold
  <2>7. /\ hostJournal'.phase = "ready" /\ hostJournal'.path = host.path /\ hostJournal'.m = host.m
        /\ hostJournal' = Snapshot(host')
    BY <1>2, <1>4, <2>2, SnapshotFields DEF Becomes, Snapshot
  <2>8. Remembers'
    BY <1>2, <2>3, <2>4, <2>7 DEF Remembers, LandedAt, Active, Names, NoPath
  <2>9. HostTold'
    BY <1>1, <1>2, <1>3, <1>4, <2>2, <2>3, <2>4, <2>5, <2>7, <2>8
       DEF HostTold, PutTold, Becomes, NoPart
  <2>10. ChanTold' /\ CtlTold'
    BY <1>1, <1>2, <2>1, NoAnswerTold, ServeCtl
  <2> QED  BY <2>6, <2>9, <2>10 DEF DlInv
<1> DEFINE back == [host EXCEPT !.path = NoPath]
<1>5. Becomes(back, host.step, host.phase, host.off, NoPath, host.get) /\ back.m = host.m
  BY <1>0 DEF Becomes, HostOK, HostFields
<1> HIDE DEF back
<1>6. ASSUME host' = [back EXCEPT !.step = "idle"], UNCHANGED <<part, dest, landed>>,
             hostJournal' = hostJournal \/ hostJournal' = Snapshot(back),
             chan' = chan \/ Answer(Error)
      PROVE  DlInv'
  <2>1. Becomes(host', "idle", host.phase, host.off, NoPath, host.get)
    BY <1>5, <1>6 DEF Becomes, HostFields
  <2>2. Snapshot(back).phase = host.phase
    BY <1>5, SnapshotFields DEF Becomes
  <2> QED  BY <1>1, <1>2, <1>6, <2>1, <2>2, DlWorks, AnswerWords DEF Becomes, Active
<1>7. CASE /\ \/ PersistOk(back) /\ (IF Policy = "rename"
                                     THEN Next1([back EXCEPT !.step = "idle"])
                                     ELSE Reply(back, Error))
              \/ PersistFails(back) /\ Reply(back, Error)
           /\ UNCHANGED <<part, dest, landed, clobbered>>
  BY <1>6, <1>7 DEF PersistOk, PersistFails, Next1, Reply
<1>8. CASE hostJournal' = Snapshot(back) /\ Reply(back, Error) /\ UNCHANGED <<part, dest, landed, clobbered>>
  BY <1>6, <1>8 DEF Reply
<1> QED  BY <1>4, <1>7, <1>8 DEF Rename, back

\* The end of finalize.
LEMMA DlFinalized == ASSUME FtInv, FtInv', DlInv, HostOnly, Finalized PROVE DlInv'
<1>0. /\ HostOK(host, chan, part, landed, Kind, Versions) /\ (chan # << >> => PacketOK(chan[1], Kind, Versions))
      /\ Kind \in {"put", "get"}
  BY HostState
<1>1. /\ host.up /\ chan # << >> /\ chan[1].ans = NoMsg /\ chan[1].req.k = "finalize"
      /\ host.step = "renamed" /\ UNCHANGED <<part, dest, landed>>
  BY DEF Finalized, Serving
<1>2. /\ Kind = "put" /\ host.path \in Names /\ host.phase = "ready"
      /\ hostJournal = Snapshot(host) /\ ~part.there /\ InPlace(dest, host.m)
  BY <1>0, <1>1 DEF HostOK, DlInv, HostTold, PutTold, InPlace
<1>3. UNCHANGED <<gen, lapse>> /\ Kind' = Kind
  BY DEF HostOnly, ctlVars, Kind
<1> DEFINE h == [host EXCEPT !.phase = "completed", !.path = NoPath]
<1>4. /\ hostJournal' = hostJournal \/ hostJournal' = Snapshot(h)
      /\ host' = [h EXCEPT !.step = "idle"] /\ (Answer(Error) \/ Answer(Status(h)))
  BY DEF Finalized, PersistOk, PersistFails, Reply
<1>5. Becomes(h, host.step, "completed", host.off, NoPath, host.get) /\ h.m = host.m
  BY <1>0 DEF Becomes, HostOK, HostFields
<1> HIDE DEF h
<1>6. Becomes(host', "idle", "completed", host.off, NoPath, host.get) /\ host'.m = host.m
  BY <1>4, <1>5 DEF Becomes, HostFields
<1>7. /\ Snapshot(h).phase = "completed" /\ Snapshot(h).m = host.m
      /\ hostJournal.phase = "ready" /\ Status(h).v = host.m
  BY <1>2, <1>5, SnapshotFields DEF Becomes, Status, Msg
<1>8. ~lapse /\ landed > 0 => landed = 1 /\ Remembers'
  BY <1>1, <1>2, <1>4, <1>7 DEF DlInv, HostTold, PutTold, Remembers, LandedAt
<1>9. HostTold'
  BY <1>1, <1>2, <1>3, <1>4, <1>6, <1>7, <1>8 DEF HostTold, PutTold, Becomes
<1>10. DestTold'
  BY <1>1 DEF DlInv, DestTold
<1>11. \E r \in {Error, Status(h)} : Answer(r)
  BY <1>4
<1>12. ChanTold' /\ chan' # << >>
  BY <1>1, <1>2, <1>7, <1>11, AnswerTold, AnswerWords
<1>13. CtlTold'
  BY <1>1, <1>12, ServeCtl
<1> QED  BY <1>9, <1>10, <1>12, <1>13 DEF DlInv

\* get_begin, get_chunk and get_status
LEMMA DlGets == ASSUME FtInv, FtInv', DlInv, HostOnly, GetBegin \/ GetChunk \/ GetStatus PROVE DlInv'
<1>0. /\ HostOK(host, chan, part, landed, Kind, Versions)
      /\ Kind \in {"put", "get"} /\ (chan # << >> => PacketOK(chan[1], Kind, Versions))
  BY HostState
<1>1. /\ host.up /\ chan # << >> /\ chan[1].ans = NoMsg /\ chan[1].req.k # "cancel"
      /\ host.step = "idle" /\ UNCHANGED <<part, dest, landed>>
  BY DEF GetBegin, GetChunk, GetStatus, Starting, Serving
<1>2. ASSUME NEW r, UNCHANGED hostJournal, host' = host \/ host' = [host EXCEPT !.step = "idle"], Answer(r),
             r = Status(host) \/ r.k \in {"error", "notfound", "manifest", "chunk"}
      PROVE  DlInv'
  <2>1. r.k = "completed" => r = Status(host) /\ Kind = "put"
    BY <1>0, <1>2, AnswerWords DEF HostOK
  <2> QED  BY <1>1, <1>2, <2>1, DlSays
<1>3. CASE GetStatus
  <2>1. PICK r : Reply(host, r) /\ (r = Status(host) \/ r.k \in {"notfound", "manifest"}) /\ UNCHANGED hostJournal
    BY <1>3, AnswerWords DEF GetStatus
  <2> QED  BY <1>2, <2>1 DEF Reply
<1>4. CASE GetChunk
  <2>1. PICK r : Answer(r) /\ r.k \in {"error", "notfound", "chunk"}
    BY <1>4, AnswerWords DEF GetChunk
  <2> QED  BY <1>2, <1>4, <2>1 DEF GetChunk
<1>5. CASE GetBegin
  <2>1. Kind = "get" /\ host.phase = "none"
    BY <1>0, <1>1, <1>5 DEF GetBegin, Starting, Serving, PacketOK, PutWords, HostOK
  <2>2. CASE /\ Reply(host, IF host.phase # "none" THEN Error ELSE Msg("manifest", 0, host.get))
             /\ UNCHANGED hostJournal
    <3>1. Reply(host, Msg("manifest", 0, host.get))
      BY <2>1, <2>2
    <3> QED  BY <1>2, <2>2, <3>1, AnswerWords DEF Reply
  <2> DEFINE h == [host EXCEPT !.get = src]
  <2>3. CASE \/ PersistOk(h) /\ Reply(h, Msg("manifest", 0, src))
             \/ PersistFails(h) /\ Reply(host, Error)
    <3>1. /\ hostJournal' = hostJournal \/ hostJournal' = Snapshot(h)
          /\ host' = [h EXCEPT !.step = "idle"] \/ host' = [host EXCEPT !.step = "idle"]
          /\ Answer(Error) \/ Answer(Msg("manifest", 0, src))
      BY <2>3 DEF PersistOk, PersistFails, Reply
    <3>2. Becomes(h, host.step, host.phase, host.off, host.path, src)
      BY <1>0 DEF Becomes, HostOK, HostFields
    <3> HIDE DEF h
    <3>3. host'.up = host.up /\ host'.step = "idle" /\ host'.phase = host.phase
      BY <1>0, <3>1, <3>2 DEF Becomes, HostFields, HostOK
    <3>4. hostJournal'.phase \in {hostJournal.phase, host.phase}
      BY <3>1, <3>2, SnapshotFields DEF Becomes
    <3> QED  BY <1>1, <2>1, <3>1, <3>3, <3>4, DlWorks, AnswerWords
  <2> QED  BY <1>5, <2>2, <2>3 DEF GetBegin
<1> QED  BY <1>3, <1>4, <1>5

\* cancel: the entry and its part go before the journal is written.
LEMMA DlCancels == ASSUME FtInv, FtInv', DlInv, HostOnly, Cancel \/ Cancelled PROVE DlInv'
<1>0. /\ HostOK(host, chan, part, landed, Kind, Versions) /\ Kind \in {"put", "get"}
  BY HostState
<1>1. /\ host.up /\ chan # << >> /\ chan[1].ans = NoMsg /\ chan[1].req.k = "cancel"
      /\ UNCHANGED <<dest, landed>>
  BY DEF Cancel, Cancelled, Starting, Serving
<1>2. CASE /\ host.step = "idle" /\ UNCHANGED <<hostJournal, part>>
           /\ Reply(host, IF host.phase = "none" THEN NotFound ELSE Error)
  <2>1. PICK r \in {NotFound, Error} : Reply(host, r) /\ (r = NotFound => host.phase = "none")
    BY <1>2, AnswerWords
  <2> QED  BY <1>1, <1>2, <2>1, DlSays, AnswerWords DEF Reply
<1>3. CASE /\ host.step = "idle" /\ Active(host.phase) /\ part' = NoPart /\ UNCHANGED hostJournal
           /\ Next1([host EXCEPT !.step = "unlinked", !.phase = "none", !.m = 0, !.path = NoPath])
  <2>1. host' = [host EXCEPT !.step = "unlinked", !.phase = "none", !.m = 0, !.path = NoPath] /\ chan' = chan
    BY <1>3 DEF Next1
  <2>2. Becomes(host', "unlinked", "none", host.off, NoPath, host.get)
    BY <1>0, <2>1 DEF Becomes, HostOK, HostFields
  <2>3. Kind = "put"
    BY <1>0, <1>3 DEF HostOK, Active
  <2> QED  BY <1>1, <1>3, <2>1, <2>2, <2>3, DlWorks DEF Active, Becomes, NoPart
<1>4. ASSUME NEW h, UNCHANGED part, host.phase = "none", host.step # "renamed",
             Becomes(h, host.step, "none", host.off, host.path, h.get),
             \/ PersistOk(h) /\ Reply(h, Msg("cancelled", 0, 0))
             \/ PersistFails(h) /\ Reply(h, Error)
      PROVE  DlInv'
  <2>1. /\ hostJournal' = hostJournal \/ hostJournal' = Snapshot(h)
        /\ host' = [h EXCEPT !.step = "idle"] /\ (Answer(Error) \/ Answer(Msg("cancelled", 0, 0)))
    BY <1>4 DEF PersistOk, PersistFails, Reply
  <2>2. Becomes(host', "idle", "none", host.off, host.path, h.get)
    BY <1>4, <2>1 DEF Becomes, HostFields
  <2>3. Snapshot(h).phase = "none"
    BY <1>4, SnapshotFields DEF Becomes
  <2>4. Kind = "put" => ~part.there
    BY <1>1, <1>4 DEF DlInv, HostTold, PutTold, Active
  <2>5. \E r : Answer(r) /\ r.k # "completed"
    BY <2>1, AnswerWords
  <2> QED  BY <1>1, <1>4, <2>1, <2>2, <2>3, <2>4, <2>5, DlWorks DEF Becomes
<1>5. CASE /\ host.phase = "none" /\ host.step = "idle" /\ UNCHANGED part
           /\ LET h == [host EXCEPT !.get = 0] IN
              \/ PersistOk(h) /\ Reply(h, Msg("cancelled", 0, 0))
              \/ PersistFails(h) /\ Reply(h, Error)
  <2> DEFINE h == [host EXCEPT !.get = 0]
  <2>1. Becomes(h, host.step, "none", host.off, host.path, h.get)
    BY <1>0, <1>5 DEF Becomes, HostOK, HostFields
  <2>2. \/ PersistOk(h) /\ Reply(h, Msg("cancelled", 0, 0))
        \/ PersistFails(h) /\ Reply(h, Error)
    BY <1>5
  <2> HIDE DEF h
  <2> QED  BY <1>4, <1>5, <2>1, <2>2
<1>6. CASE Cancelled
  <2>1. host.step = "unlinked" /\ UNCHANGED part
        /\ \/ PersistOk(host) /\ Reply(host, Msg("cancelled", 0, 0))
           \/ PersistFails(host) /\ Reply(host, Error)
    BY <1>6 DEF Cancelled
  <2>2. host.phase = "none" /\ Becomes(host, host.step, "none", host.off, host.path, host.get)
    BY <1>0, <2>1 DEF HostOK, Becomes
  <2> QED  BY <1>4, <2>1, <2>2
<1>7. CASE Cancel
  BY <1>2, <1>3, <1>5, <1>7 DEF Cancel, Starting
<1> QED  BY <1>6, <1>7

\* The completed put is pruned, and the loss is noted.
LEMMA DlPrune == ASSUME FtInv, FtInv', DlInv, UNCHANGED ctlVars, Prune PROVE DlInv'
<1>0. HostOK(host, chan, part, landed, Kind, Versions) /\ Kind \in {"put", "get"}
  BY HostState
<1>1. /\ host.up /\ host.step = "idle" /\ host.phase = "completed"
      /\ host' = [host EXCEPT !.phase = "none", !.m = 0] /\ hostJournal' = Snapshot(host') /\ lapse'
      /\ UNCHANGED <<job, chan, part, dest, landed, gen, w, entry, ctlJournal, ctlUp>>
  BY DEF Prune, ctlVars
<1>2. host'.up /\ host'.step = "idle" /\ host'.phase = "none" /\ Kind' = Kind /\ Kind = "put"
  BY <1>0, <1>1 DEF HostOK, HostFields, Kind
<1>3. hostJournal'.phase = "none"
  BY <1>1, <1>2, SnapshotFields
<1>4. DestTold' /\ ChanTold'
  BY <1>1, <1>2 DEF DlInv, DestTold, ChanTold, PacketTold, Confirms
<1>5. HostTold'
  BY <1>1, <1>2, <1>3 DEF DlInv, HostTold, PutTold, Active
<1>6. Quiet => Quiet'
  BY <1>1, <1>2 DEF Quiet
<1>7. Bare'
  BY <1>1 DEF Bare
<1>8. CtlTold'
  BY <1>1, <1>2, <1>6, <1>7 DEF DlInv, CtlTold, Manifested, Sessioned, Ended
<1> QED  BY <1>4, <1>5, <1>8 DEF DlInv

\* Another transfer writes the journal, or a file of another program appears.
LEMMA DlBeside ==
    ASSUME FtInv, FtInv', DlInv, HostOnly, OtherPersists \/ \E n \in Names : ForeignFile(n)
    PROVE  DlInv'
<1>0. HostOK(host, chan, part, landed, Kind, Versions) /\ DestOK(dest, Versions)
  BY HostState
<1>1. UNCHANGED <<job, host, chan, part, landed, lapse, gen, w, entry, ctlJournal, ctlUp>> /\ Kind' = Kind
  BY DEF OtherPersists, ForeignFile, HostOnly, ctlVars, Kind
<1>2. \/ dest' = dest
      \/ \E n \in Names : dest[n].by = "none" /\ dest' = [dest EXCEPT ![n] = [by |-> "other", data |-> << >>]]
  BY DEF OtherPersists, ForeignFile
<1>3. \A n \in Names : \/ dest'[n] = dest[n]
                       \/ dest[n].by = "none" /\ dest'[n].by = "other" /\ dest'[n].data = << >>
  <2>1. CASE dest' = dest
    BY <2>1
  <2>2. ASSUME NEW k \in Names, dest[k].by = "none",
               dest' = [dest EXCEPT ![k] = [by |-> "other", data |-> << >>]]
        PROVE  \A n \in Names : \/ dest'[n] = dest[n]
                                \/ dest[n].by = "none" /\ dest'[n].by = "other" /\ dest'[n].data = << >>
    <3> DEFINE f == [by |-> "other", data |-> << >>]
    <3>1. f.by = "other" /\ f.data = << >> /\ dest' = [dest EXCEPT ![k] = f]
      BY <2>2
    <3> HIDE DEF f
    <3> QED  BY <1>0, <2>2, <3>1 DEF DestOK
  <2> QED  BY <1>2, <2>1, <2>2
<1>4. DestTold'
  BY <1>1, <1>3 DEF DlInv, DestTold
<1>5. \A v : InPlace(dest, v) => InPlace(dest', v)
  BY <1>3 DEF InPlace
<1>6. \/ hostJournal' = hostJournal
      \/ host.up /\ host.step = "idle" /\ hostJournal' = Snapshot(host) /\ dest' = dest
  BY DEF OtherPersists, ForeignFile
<1>7. HostTold'
  <2>1. CASE hostJournal' = hostJournal
    <3>1. Remembers => Remembers'
      <4> SUFFICES ASSUME LandedAt(hostJournal.path), hostJournal.path \in Names \cup {NoPath}
                   PROVE  LandedAt(hostJournal.path)'
        BY <2>1, HostState DEF Remembers, JournalOK
      <4> QED  BY <1>3, <2>1 DEF LandedAt
    <3>2. host.step = "renamed" => host.path \in Names
      BY <1>0 DEF HostOK
    <3> QED  BY <1>1, <1>3, <1>5, <2>1, <3>1, <3>2 DEF DlInv, HostTold, PutTold
  <2>2. CASE host.up /\ host.step = "idle" /\ hostJournal' = Snapshot(host) /\ dest' = dest
    <3>1. hostJournal'.phase = host.phase /\ hostJournal'.m = host.m
      BY <2>2, SnapshotFields
    <3>2. host.phase = "completed" => Remembers'
      BY <3>1 DEF Remembers
    <3> QED  BY <1>1, <2>2, <3>1, <3>2 DEF DlInv, HostTold, PutTold
  <2> QED  BY <1>6, <2>1, <2>2
<1>8. ChanTold'
  BY <1>1, <1>5 DEF DlInv, ChanTold, PacketTold, Confirms
<1>9. CtlTold'
  <2>1. (Quiet => Quiet') /\ (Bare => Bare')
    BY <1>1 DEF Quiet, Bare
  <2> QED  BY <1>1, <1>5, <2>1 DEF DlInv, CtlTold, Ended, Manifested, Sessioned, GetTold
<1> QED  BY <1>4, <1>7, <1>8, <1>9 DEF DlInv

\* What the Host finds when it starts again: a completed put is in place, an
\* empty device has none, and a delivery that was not forgotten is known.
LEMMA RestoredTold ==
    ASSUME Total > 0, FtInv, DlInv, ~host.up, Loadable
    PROVE  /\ Restored.up /\ Restored.step = "idle"
           /\ Restored.phase = "completed" => InPlace(dest, Restored.m)
           /\ landed = 0 /\ ~part.there => Restored.phase = "none"
           /\ Kind = "put" /\ ~lapse /\ landed > 0 => Restored.phase = "completed"
<1>0. JournalOK(hostJournal, host, Kind, Versions) /\ landed \in Nat
  BY HostState
<1> DEFINE h == Restored
           e == [HostBlank EXCEPT !.phase = hostJournal.phase, !.m = hostJournal.m, !.off = hostJournal.off,
                                  !.get = IF hostJournal.get = src THEN hostJournal.get ELSE 0]
<1>1. /\ DOMAIN e = HostFields /\ e.step = "idle" /\ e.up = TRUE /\ e.phase = hostJournal.phase
      /\ e.m = hostJournal.m
  BY DEF HostBlank, HostFields
<1>2. h = IF ~Active(hostJournal.phase) THEN e
          ELSE IF PartThere
          THEN [e EXCEPT !.off = Len(part.data), !.phase = PhaseAt(Len(part.data)), !.path = hostJournal.path]
          ELSE [e EXCEPT !.phase = "completed"]
  BY DEF Restored
<1>3. \A n : PhaseAt(n) \in {"receiving", "ready"}
  BY DEF PhaseAt
<1> HIDE DEF e, h
<1>4. /\ h.up /\ h.step = "idle" /\ h.m = hostJournal.m
      /\ ~Active(hostJournal.phase) => h.phase = hostJournal.phase
      /\ Active(hostJournal.phase) /\ PartThere => Active(h.phase)
      /\ Active(hostJournal.phase) /\ ~PartThere => h.phase = "completed"
  BY <1>1, <1>2, <1>3 DEF HostFields, Active
<1>5. ASSUME h.phase = "completed" PROVE InPlace(dest, h.m)
  <2>1. CASE hostJournal.phase = "completed"
    BY <1>4, <2>1 DEF DlInv, HostTold
  <2>2. CASE Active(hostJournal.phase) /\ LandedAt(hostJournal.path)
    <3> DEFINE n == hostJournal.path
    <3>1. n \in Names /\ dest[n].by # "none" /\ dest[n].data = Whole(hostJournal.m)
      BY <1>0, <2>2 DEF LandedAt, JournalOK
    <3>2. Whole(hostJournal.m) # << >>
      <4>1. DOMAIN Whole(hostJournal.m) = 1 .. Total /\ 1 \in 1 .. Total
        BY HostFileAssumption DEF Whole
      <4>2. ~(1 \in DOMAIN << >>)
        OBVIOUS
      <4> QED  BY <4>1, <4>2
    <3>3. dest[n].by = "us"
      BY <3>1, <3>2 DEF DlInv, DestTold
    <3> QED  BY <1>4, <3>1, <3>3 DEF InPlace
  <2>3. Active(hostJournal.phase) => ~PartThere
    BY <1>4, <1>5 DEF Active
  <2> QED  BY <1>4, <1>5, <2>1, <2>2, <2>3 DEF Loadable
<1>6. ASSUME landed = 0, ~part.there PROVE h.phase = "none"
  <2>1. h.phase # "completed"
    BY <1>5, <1>6 DEF InPlace, DlInv, DestTold
  <2>2. ~PartThere
    BY <1>6 DEF PartThere
  <2> QED  BY <1>0, <1>4, <2>1, <2>2 DEF JournalOK, HostPhases, Active
<1>7. ASSUME Kind = "put", ~lapse, landed > 0 PROVE h.phase = "completed"
  <2>1. Remembers /\ ~part.there
    BY <1>7 DEF DlInv, HostTold, PutTold
  <2> QED  BY <1>4, <2>1 DEF Remembers, PartThere, Active
<1> QED  BY <1>4, <1>5, <1>6, <1>7 DEF h

\* load_or_create
LEMMA DlHostRestart == ASSUME Total > 0, FtInv, FtInv', DlInv, HostOnly, HostRestart PROVE DlInv'
<1>0. HostOK(host, chan, part, landed, Kind, Versions) /\ Kind \in {"put", "get"} /\ landed \in Nat
  BY HostState
<1>1. ~host.up /\ Loadable /\ UNCHANGED <<job, chan, dest, landed, lapse, gen, w, entry, ctlJournal, ctlUp>>
  BY DEF HostRestart, HostOnly, ctlVars
<1>2. Kind' = Kind /\ chan = << >> /\ Len(chan) = 0 /\ gen = 0
  BY <1>1 DEF Kind, DlInv, HostTold
<1> DEFINE h == Restored
<1>3. /\ h.up /\ h.step = "idle"
      /\ h.phase = "completed" => InPlace(dest, h.m)
      /\ landed = 0 /\ ~part.there => h.phase = "none"
      /\ Kind = "put" /\ ~lapse /\ landed > 0 => h.phase = "completed"
  BY <1>1, RestoredTold
<1> HIDE DEF h
<1>4. Snapshot(h).phase = h.phase /\ Snapshot(h).m = h.m
  BY SnapshotFields
<1>5. DestTold' /\ ChanTold'
  BY <1>1, <1>2 DEF DlInv, DestTold, ChanTold
<1>6. ASSUME part'.there => part.there, Kind = "get" => part' = part,
             host'.up /\ landed = 0 /\ ~part.there => host'.phase = "none"
      PROVE  CtlTold'
  <2>1. (Quiet => Quiet') /\ (Bare => Bare')
    BY <1>1, <1>2, <1>6 DEF Quiet, Bare
  <2>2. Kind = "get" => GetTold'
    BY <1>1, <1>6 DEF DlInv, CtlTold, GetTold
  <2> QED  BY <1>1, <1>2, <2>1, <2>2 DEF DlInv, CtlTold, Ended, Manifested, Sessioned
<1>7. CASE /\ host' = h /\ hostJournal' = Snapshot(h)
           /\ part' = IF Kind = "put" /\ ~Active(h.phase) THEN NoPart ELSE part
  <2>1. (part'.there => part.there) /\ (Kind = "get" => part' = part)
        /\ (Kind = "put" /\ ~Active(h.phase) => ~part'.there)
    BY <1>7 DEF NoPart
  <2>2. CtlTold'
    BY <1>3, <1>6, <1>7, <2>1
  <2>3. ASSUME Kind = "put", ~lapse, landed > 0
        PROVE  landed = 1 /\ h.phase = "completed" /\ Remembers' /\ ~part'.there
    BY <1>3, <1>4, <1>7, <2>1, <2>3 DEF DlInv, HostTold, PutTold, Remembers, Active
  <2>4. HostTold'
    BY <1>1, <1>2, <1>3, <1>4, <1>7, <2>1, <2>3 DEF HostTold, PutTold
  <2> QED  BY <1>5, <2>2, <2>4 DEF DlInv
<1>8. CASE (hostJournal' = hostJournal \/ hostJournal' = Snapshot(h)) /\ UNCHANGED <<host, part>>
  <2>1. CtlTold'
    BY <1>1, <1>6, <1>8
  <2>2. host.step = "idle"
    BY <1>0, <1>2 DEF HostOK
  <2>3. Kind = "put" /\ ~lapse /\ landed > 0 => landed = 1 /\ Remembers' /\ ~part.there
    BY <1>1, <1>3, <1>4, <1>8 DEF DlInv, HostTold, PutTold, Remembers, LandedAt
  <2>4. HostTold'
    BY <1>1, <1>2, <1>3, <1>4, <1>8, <2>2, <2>3 DEF DlInv, HostTold, PutTold
  <2> QED  BY <1>5, <2>1, <2>4 DEF DlInv
<1> QED  BY <1>7, <1>8 DEF HostRestart, PersistOk, PersistFails, h

-----------------------------------------------------------------------------
\* Every step keeps the second invariant.
LEMMA DlInvStep == ASSUME Total > 0, FtInv, FtInv', DlInv, DownInv, [Next]_vars PROVE DlInv'
<1>1. CASE UNCHANGED <<job, host, hostJournal, chan, part, dest, landed, lapse, gen, w, entry, ctlJournal, ctlUp>>
  <2>1. Kind' = Kind
    BY <1>1 DEF Kind
  <2>2. Quiet' = Quiet /\ Bare' = Bare /\ Remembers' = Remembers
    BY <1>1, <2>1 DEF Quiet, Bare, Remembers, LandedAt
  <2>3. DestTold' /\ HostTold' /\ ChanTold'
    BY <1>1, <2>1, <2>2 DEF DlInv, DestTold, HostTold, PutTold, ChanTold, PacketTold, Confirms
  <2>4. CtlTold'
    BY <1>1, <2>1, <2>2 DEF DlInv, CtlTold, Manifested, Sessioned, GetTold, Ended
  <2> QED  BY <2>3, <2>4 DEF DlInv
<1>2. CASE UNCHANGED vars
  BY <1>1, <1>2 DEF vars, ctlVars
<1>3. CASE HostStep /\ UNCHANGED ctlVars
  <2>1. HostOnly
    BY <1>3 DEF HostStep, PutBegin, PutBegun, PutChunk, Finalize, Rename, Finalized, GetBegin, GetChunk,
                GetStatus, Cancel, Cancelled, HostOnly
  <2> QED  BY <1>3, <2>1, DlPutBegin, DlPutBegun, DlPutChunk, DlFinalize, DlRename, DlFinalized, DlGets,
              DlCancels DEF HostStep
<1>4. CASE HostAlone /\ UNCHANGED ctlVars
  <2>1. CASE Edit
    BY <1>1, <1>4, <2>1 DEF Edit, ctlVars
  <2>2. CASE Prune
    BY <1>4, <2>2, DlPrune
  <2>3. CASE OtherPersists \/ \E n \in Names : ForeignFile(n)
    <3>1. HostOnly
      BY <1>4, <2>3 DEF OtherPersists, ForeignFile, HostOnly
    <3> QED  BY <2>3, <3>1, DlBeside
  <2> QED  BY <1>4, <2>1, <2>2, <2>3 DEF HostAlone
<1>5. CASE HostRestart /\ UNCHANGED ctlVars
  <2>1. HostOnly
    BY <1>5 DEF HostRestart, HostOnly
  <2> QED  BY <1>5, <2>1, DlHostRestart
<1>6. CASE StartPut \/ StartGet \/ CancelMarks \/ CancelSignals \/ OtherJournals \/ PersistLast
  BY <1>6, DlCalls
<1>7. CASE WorkerStep \/ CancelTimesOut
  BY <1>6, <1>7, DlPrepareSource, DlRecoverPart, DlGetLands, DlSends, DlSignals, DlLost, DlDeliver
     DEF WorkerStep
<1>8. CASE Connect \/ Disconnect \/ HostDrops \/ HostCrash \/ ControllerCrash \/ ControllerRestart
  BY <1>8, DlSessions, DlHostCrash, DlControllerCrash, DlControllerRestart
<1> QED  BY <1>2, <1>3, <1>4, <1>5, <1>6, <1>7, <1>8 DEF Next

\* The second invariant holds in every reachable state.
LEMMA DlInvariance == ASSUME Total > 0 PROVE Spec => []DlInv
<1>1. Init => DlInv
  BY DlInvInit
<1>2. (FtInv /\ DownInv) /\ (FtInv /\ DownInv)' /\ DlInv /\ [Next]_vars => DlInv'
  BY DlInvStep
<1> QED  BY <1>1, <1>2, FtInvariance, PTL DEF Spec

\* DeliveryIsTrue: a transfer delivers its file once although Begin, chunks and
\* Finalize are repeated over sessions and both sides restart from journals
\* that may or may not know the rename, and Completed is shown only for a
\* file that is in place with the manifest's content.
THEOREM DeliveryIsTrueThm == ASSUME Total > 0 PROVE Spec => []DeliveryIsTrue
<1>1. FtInv /\ DlInv => DeliveryIsTrue
  <2> SUFFICES ASSUME FtInv, DlInv PROVE DeliveredOnce /\ CompletedIsDelivered
    BY DEF DeliveryIsTrue
  <2>1. Kind \in {"put", "get"} /\ landed \in Nat
    BY OwnState
  <2>2. DeliveredOnce
    BY <2>1 DEF DeliveredOnce, DlInv, HostTold, PutTold, CtlTold, GetTold
  <2>3. CompletedIsDelivered
    BY DEF CompletedIsDelivered, DlInv, CtlTold, Ended, Over, InPlace
  <2> QED  BY <2>2, <2>3
<1> QED  BY <1>1, FtInvariance, DlInvariance, PTL

\* CleanCancel: when the entry says Cancelled without a warning nothing was
\* delivered, no part is left and the Host has no put, whatever requests the
\* worker had given up were still executed before the cancel was confirmed.
THEOREM CleanCancelThm == ASSUME Total > 0 PROVE Spec => []CleanCancel
<1>1. DlInv => CleanCancel
  BY DEF CleanCancel, DlInv, CtlTold, Ended, Clean, Bare
<1> QED  BY <1>1, DlInvariance, PTL
=============================================================================
