----------------------------- MODULE FileTransfer -----------------------------
(***************************************************************************)
(* One file transfer from end to end: the Controller's entry, journal and  *)
(* worker task (ControllerFileTransferManager,                             *)
(* crates/clew-runtime/src/transfer.rs), the requests it makes through the *)
(* hub on one session after another (crates/clew-runtime/src/remote.rs),   *)
(* and the Host of module HostFileTransfer.                                *)
(*                                                                         *)
(* The worker is one sequential task; pc names the await it is in.  A      *)
(* request is outstanding from its sending until its answer is delivered   *)
(* or the session is lost; a request whose waiter is gone is still         *)
(* executed.  When a session is lost the first request may be with the     *)
(* Host, which executes it before it can connect again.                    *)
(***************************************************************************)
EXTENDS HostFileTransfer

CONSTANTS MaxGen    \* bound: sessions established
ASSUME FileAssumption == MaxGen \in Nat

VARIABLES
    gen,            \* generation of the current session, 0 when offline
    gens,           \* sessions so far
    entry,          \* ControllerFileTransferEntry and its public info
    ctlJournal,     \* the newest valid slot of the Controller's journal
    w,              \* the worker task
    signal,         \* the watch channel a cancel sets
    cancelling,     \* a cancel() call between its two critical sections
    ctlUp

ctlVars == <<gen, gens, entry, ctlJournal, w, signal, cancelling, ctlUp>>
vars == <<job, host, hostJournal, chan, part, dest, src, landed, clobbered, lapse, faults,
          foreign, ctlVars>>

Terminal == {"Completed", "Failed", "Cancelled"}
Phases == {"none", "Preparing", "Running", "Waiting", "ReadyToFinalize", "Cancelling"}
              \cup Terminal
\* m: the manifest; kept: DurableControllerGetState is present.
Entry == [phase : Phases, err : BOOLEAN, off : 0..Total, m : 0..(MaxEdits + 1), kept : BOOLEAN]
NoEntry == [phase |-> "none", err |-> FALSE, off |-> 0, m |-> 0, kept |-> FALSE]

(***************************************************************************)
(* pc    the await; why: the caller of a wait or of a GetBegin             *)
(* sent  "no", "yes" while outstanding, "lost" with its session            *)
(* gen   the generation of the last request; m, off: the manifest and the  *)
(*       offset the Host confirmed; v: the chunk read last                 *)
(***************************************************************************)
AnySession == {"begin", "wait", "getbegin", "cancel", "settle", "cleanup"}
OneSession == {"chunk", "resend", "rebegin", "finalize", "refinalize", "getchunk", "regetchunk"}
Local == {"idle", "prepare", "recover", "land", "persist"}
Worker == [pc : Local \cup AnySession \cup OneSession,
           why : {"", "begin", "chunk", "finalize", "fresh", "resume", "mid"},
           sent : {"no", "yes", "lost"}, gen : 0..MaxGen, m : 0..(MaxEdits + 1),
           off : 0..Total, v : 0..(MaxEdits + 1)]
IdleWorker == [pc |-> "idle", why |-> "", sent |-> "no", gen |-> 0, m |-> 0, off |-> 0, v |-> 0]

Init ==
    /\ HostInit
    /\ gen = 0 /\ gens = 0
    /\ entry = NoEntry /\ ctlJournal = NoEntry
    /\ w = IdleWorker
    /\ signal = FALSE /\ cancelling = FALSE
    /\ ctlUp = TRUE

\* ControllerFileTransferStateStore::persist, as on the Host.
CtlPersistOk(e) == ctlJournal' = e /\ NoFault
CtlPersistFails(e) == ctlJournal' \in {ctlJournal, e} /\ Fault

At(pc) == [w EXCEPT !.pc = pc, !.sent = "no"]
For(pc, why) == [w EXCEPT !.pc = pc, !.why = why, !.sent = "no"]
NoChannel == UNCHANGED <<host, hostJournal, chan, gen, gens>>
NoFiles == UNCHANGED <<part, dest, landed, clobbered>>
Outside == UNCHANGED <<job, src, lapse, foreign, ctlUp>>
NoCancel == UNCHANGED <<signal, cancelling>>

-----------------------------------------------------------------------------
(* Local API calls *)

\* The entry is journaled before its worker runs, and removed again when the
\* journal cannot be written.
Started(worker) ==
    /\ ctlUp /\ entry.phase = "none" /\ ctlJournal = NoEntry /\ landed = 0 /\ w = IdleWorker
    /\ LET e == [NoEntry EXCEPT !.phase = "Preparing"] IN
       \/ CtlPersistOk(e) /\ entry' = e /\ w' = worker
       \/ CtlPersistFails(e) /\ UNCHANGED <<entry, w>>
    /\ NoChannel /\ NoFiles /\ Outside /\ NoCancel
\* start_put_with_transfer_id
StartPut == Kind = "put" /\ Started(At("prepare"))
\* start_get_with_transfer_id
StartGet == Kind = "get" /\ Started(For("getbegin", "fresh"))

\* cancel(), first critical section: mark_cancelling.
CancelMarks ==
    /\ ctlUp /\ ~cancelling /\ ~signal
    /\ entry.phase \notin Terminal \cup {"none"}
    /\ entry' = [entry EXCEPT !.phase = "Cancelling"]
    /\ cancelling' = TRUE
    /\ UNCHANGED <<ctlJournal, w, signal, faults>>
    /\ NoChannel /\ NoFiles /\ Outside

\* cancel(), from persist_current on: without a journal there is no signal.
CancelSignals ==
    /\ ctlUp /\ cancelling
    /\ cancelling' = FALSE
    /\ \/ CtlPersistOk(entry) /\ signal' = (signal \/ entry.phase \notin Terminal)
       \/ CtlPersistFails(entry) /\ UNCHANGED signal
    /\ UNCHANGED <<entry, w>>
    /\ NoChannel /\ NoFiles /\ Outside

\* Another transfer writes the journal with this entry as it is now.
OtherJournals ==
    /\ ctlUp /\ ctlJournal # entry
    /\ ctlJournal' = entry
    /\ UNCHANGED <<entry, w, faults>>
    /\ NoChannel /\ NoFiles /\ Outside /\ NoCancel

-----------------------------------------------------------------------------
(* How a worker ends *)

Shown(phase) == entry' = [entry EXCEPT !.phase = phase]
GoTo(x) == w' = x

\* set_failed and set_get_failed leave a Cancelling entry as it is.
SetFailed(e) == IF e.phase \in {"Cancelling", "Cancelled"} THEN e
                ELSE [e EXCEPT !.phase = "Failed", !.err = TRUE]
\* Err(error): a failed put is journaled; a failed get first drops its part
\* (cleanup_get_local_part) and the Host's source entry.
Fail == IF Kind = "put"
        THEN entry' = SetFailed(entry) /\ GoTo(At("persist")) /\ UNCHANGED part
        ELSE /\ entry' = SetFailed(entry) /\ GoTo([At("cleanup") EXCEPT !.gen = 0])
             /\ part' = IF entry.kept THEN NoPart ELSE part
\* Err(Cancelled), or is_cancelled in the put loop.
CancelWorker == /\ GoTo([At("cancel") EXCEPT !.gen = 0])
                /\ part' = IF Kind = "get" /\ entry.kept THEN NoPart ELSE part

\* The last lines of both workers: persist_manager_state.
PersistLast ==
    /\ w.pc = "persist"
    /\ \/ CtlPersistOk(entry) /\ UNCHANGED entry
       \/ CtlPersistFails(entry) /\ entry' = [entry EXCEPT !.err = TRUE]
    /\ GoTo(IdleWorker)
    /\ NoChannel /\ NoFiles /\ Outside /\ NoCancel

\* What confirm_remote_cancel takes for a confirmation.
Answered(r) == TRUE
Confirms(r) == r.k \in {"cancelled", "notfound"}
\* confirm_remote_cancel returned, after an answer, a lost session or its
\* 30 seconds: cancel_remote, the end of a completed get, the end of a
\* failed one.
Confirmed(yes) ==
    /\ entry' = CASE w.pc = "cancel" -> [entry EXCEPT !.phase = "Cancelled", !.err = ~yes,
                                                      !.kept = FALSE]
                  [] w.pc = "settle" -> [entry EXCEPT !.err = @ \/ ~yes]
                  [] w.pc = "cleanup" -> [entry EXCEPT !.kept = FALSE]
    /\ GoTo(At("persist"))

-----------------------------------------------------------------------------
(* Local steps of the workers *)

\* prepare_source and the manifest; the phase is overwritten whatever it is.
PrepareSource ==
    /\ w.pc = "prepare"
    /\ \/ /\ entry' = [entry EXCEPT !.phase = "Running", !.m = src]
          /\ \/ ~signal /\ GoTo([At("begin") EXCEPT !.m = src, !.gen = 0]) /\ UNCHANGED part
             \/ signal /\ CancelWorker
          /\ NoFault
       \/ signal /\ CancelWorker /\ UNCHANGED entry /\ NoFault
       \/ Fail /\ Fault
    /\ UNCHANGED <<ctlJournal, dest, landed, clobbered>>
    /\ NoChannel /\ Outside /\ NoCancel

\* recover_controller_get_part, the journal write, and what GetBegin is for.
Recoverable == /\ TargetOk
               /\ IF part.there THEN /\ ~part.ragged /\ Len(part.data) <= Total
                                     /\ entry.off <= Len(part.data)
                  ELSE entry.off = 0
RecoverPart ==
    /\ w.pc = "recover"
    /\ UNCHANGED <<dest, landed, clobbered>> /\ NoChannel /\ Outside /\ NoCancel
    /\ \/ /\ Recoverable
          /\ LET e == [entry EXCEPT !.off = Len(part.data), !.phase = "Waiting", !.err = FALSE]
             IN  /\ entry' = e /\ CtlPersistOk(e)
                 /\ part' = IF part.there THEN part ELSE NewPart
                 /\ GoTo([For("getbegin", "resume") EXCEPT !.off = e.off, !.m = e.m])
       \/ ~Recoverable /\ Fail /\ UNCHANGED ctlJournal /\ NoFault
       \/ Recoverable /\ Fail /\ Fault /\ UNCHANGED ctlJournal

\* The end of run_get_task: the hash, persist_controller_destination and
\* Completed; a directory sync that fails after the rename fails the get.
GetTarget == IF Policy # "rename" THEN {0} ELSE {n \in FreeNames : \A k \in FreeNames : n <= k}
GetLands ==
    /\ w.pc = "land" /\ part.data = Whole(w.m)
    /\ \E n \in GetTarget :
        /\ ~Occupied(n)
        /\ dest' = [dest EXCEPT ![n] = [by |-> "us", data |-> part.data]]
        /\ clobbered' = (clobbered \/ (dest[n].by = "other" /\ Policy # "replace"))
    /\ landed' = landed + 1
    /\ part' = NoPart
    /\ \/ /\ entry' = [entry EXCEPT !.phase = "Completed", !.off = Total, !.err = FALSE,
                                    !.kept = FALSE]
          /\ GoTo([At("settle") EXCEPT !.gen = 0]) /\ NoFault
       \/ /\ entry' = SetFailed(entry) /\ GoTo([At("cleanup") EXCEPT !.gen = 0]) /\ Fault
    /\ UNCHANGED ctlJournal
    /\ NoChannel /\ Outside /\ NoCancel

GetRefused ==
    /\ w.pc = "land"
    /\ part.data # Whole(w.m) \/ \A n \in GetTarget : Occupied(n)
    /\ Fail
    /\ UNCHANGED <<dest, landed, clobbered, ctlJournal>> /\ NoFault
    /\ NoChannel /\ Outside /\ NoCancel

-----------------------------------------------------------------------------
(* Requests *)

Request ==
    CASE w.pc \in {"begin", "rebegin"} -> Msg("putbegin", 0, w.m)
      [] w.pc = "chunk" -> Msg("putchunk", w.off, src)
      [] w.pc = "resend" -> Msg("putchunk", w.off, w.v)
      [] w.pc = "wait" -> Msg("status", 0, 0)
      [] w.pc \in {"finalize", "refinalize"} -> Msg("finalize", 0, 0)
      [] w.pc = "getbegin" -> Msg("getbegin", 0, 0)
      [] w.pc \in {"getchunk", "regetchunk"} -> Msg("getchunk", w.off, 0)
      [] w.pc \in {"cancel", "settle", "cleanup"} -> Msg("cancel", 0, 0)

\* Where is_cancelled is asked: at the head of both chunk loops.
LoopHead == w.pc \in {"chunk", "getchunk"} /\ w.sent = "no"

\* file_transfer_attempt on a session other than the last one, or
\* file_transfer_on_generation on that very session.
Send ==
    /\ w.sent = "no"
    /\ ~(LoopHead /\ signal)
    /\ \/ w.pc \in AnySession /\ gen # 0 /\ gen # w.gen
       \/ w.pc \in OneSession /\ gen = w.gen
    /\ chan' = Append(chan, [req |-> Request, ans |-> NoMsg, heard |-> TRUE])
    /\ w' = [w EXCEPT !.sent = "yes", !.gen = gen, !.v = IF w.pc = "chunk" THEN src ELSE @]
    /\ UNCHANGED <<host, hostJournal, gen, gens, entry, ctlJournal, faults>>
    /\ NoFiles /\ Outside /\ NoCancel

\* The slot holds another session, or none.
WaitForTheSession == FALSE /\ UNCHANGED vars
SendTooLate ==
    /\ w.pc \in OneSession /\ w.sent = "no" /\ gen # w.gen
    /\ ~(LoopHead /\ signal)
    /\ w' = [w EXCEPT !.sent = "lost", !.v = IF w.pc = "chunk" THEN src ELSE @]
    /\ UNCHANGED <<entry, ctlJournal, faults>>
    /\ NoChannel /\ NoFiles /\ Outside /\ NoCancel

\* A cancel is seen at a loop head, and by the select! around the waits.
Deaf == [i \in DOMAIN chan |-> [chan[i] EXCEPT !.heard = FALSE]]
SeeSignal ==
    /\ signal
    /\ LoopHead \/ w.pc \in {"begin", "wait", "getbegin"}
    /\ CancelWorker
    /\ chan' = Deaf
    /\ UNCHANGED <<host, hostJournal, gen, gens, entry, ctlJournal, faults, dest, landed,
                   clobbered>>
    /\ Outside /\ NoCancel

\* confirm_remote_cancel gives up after REMOTE_CANCEL_WINDOW.
CancelTimesOut ==
    /\ w.pc \in {"cancel", "settle", "cleanup"} /\ w.sent # "lost"
    /\ Confirmed(FALSE)
    /\ chan' = Deaf
    /\ UNCHANGED <<host, hostJournal, gen, gens, ctlJournal, faults>>
    /\ NoFiles /\ Outside /\ NoCancel

-----------------------------------------------------------------------------
(* Answers *)

\* validate_status: the scope, and in it the final hash, is the manifest's.
IsStatus(r) == r.k \in {"receiving", "ready", "completed"}
Valid(r) == IsStatus(r) /\ r.v = w.m
AllConfirmed(r) == r.off = Total
Done(r) == r.k = "completed"
After(r) == CASE r.k = "receiving" -> "chunk" [] r.k = "ready" -> "finalize"
              [] r.k = "completed" -> "persist"
\* update_status_info, and Completed when the Host says so.
Accept(r, phase) ==
    /\ entry' = [entry EXCEPT !.off = r.off, !.phase = IF Done(r) THEN "Completed" ELSE phase,
                              !.err = @ /\ ~Done(r)]
    /\ GoTo([At(After(r)) EXCEPT !.off = r.off])
    /\ UNCHANGED part
\* The phase shown after a chunk.
Progress(r) == IF r.k = "ready" THEN "ReadyToFinalize" ELSE "Running"

\* A lost chunk answer: the Host has it or not.
ResumeChunk(r) ==
    \/ /\ Valid(r) /\ r.off = w.off
       /\ GoTo(At("resend")) /\ UNCHANGED <<entry, part>>
    \/ Valid(r) /\ r.off = w.off + 1 /\ Accept(r, Progress(r))
    \/ ~(Valid(r) /\ r.off \in {w.off, w.off + 1}) /\ Fail
ResumeFinalize(r) ==
    \/ Valid(r) /\ r.off >= w.off /\ r.k = "completed" /\ Accept(r, entry.phase)
    \/ /\ Valid(r) /\ r.off >= w.off /\ r.k = "ready"
       /\ GoTo(At("refinalize")) /\ UNCHANGED <<entry, part>>
    \/ ~(Valid(r) /\ r.off >= w.off /\ r.k # "receiving") /\ Fail

\* begin_or_recover: PutBegin, or Status and PutBegin if the Host has nothing.
BeginAnswer(r) ==
    \/ /\ w.pc = "wait" /\ r = NotFound
       /\ GoTo(At("rebegin")) /\ UNCHANGED <<entry, part>>
    \/ (w.pc # "wait" \/ r # NotFound) /\ (IF Valid(r) THEN Accept(r, entry.phase) ELSE Fail)
\* A chunk's acknowledgement advances by exactly that chunk.
ChunkAnswer(r) ==
    IF Valid(r) /\ r.off = w.off + 1 THEN Accept(r, Progress(r)) ELSE Fail
\* send_chunk_on_generation
ResentAnswer(r) ==
    IF Valid(r) /\ r.off >= w.off THEN Accept(r, Progress(r)) ELSE Fail
FinalizeAnswer(r) ==
    IF Valid(r) /\ r.k = "completed" THEN Accept(r, entry.phase) ELSE Fail

PutAnswer(r) ==
    \/ (w.pc \in {"begin", "rebegin"} \/ (w.pc = "wait" /\ w.why = "begin")) /\ BeginAnswer(r)
    \/ w.pc = "wait" /\ w.why = "chunk" /\ ResumeChunk(r)
    \/ w.pc = "wait" /\ w.why = "finalize" /\ ResumeFinalize(r)
    \/ w.pc = "chunk" /\ ChunkAnswer(r)
    \/ w.pc = "resend" /\ ResentAnswer(r)
    \/ w.pc \in {"finalize", "refinalize"} /\ FinalizeAnswer(r)

LoopOrLand(n) == IF n = Total THEN "land" ELSE "getchunk"

\* GetBegin answered at the start of a fresh get: the paths, the durable
\* state, its journal record, then the part.
FreshGet(r) ==
    LET e == [entry EXCEPT !.m = r.v, !.phase = "Running", !.kept = TRUE] IN
    \/ /\ TargetOk /\ CtlPersistOk(e) /\ entry' = e
       /\ part' = IF part.there THEN part ELSE NewPart
       /\ GoTo([At(LoopOrLand(Len(part'.data))) EXCEPT !.m = r.v, !.off = Len(part'.data)])
    \/ ~TargetOk /\ Fail /\ UNCHANGED ctlJournal /\ NoFault
    \/ /\ TargetOk /\ CtlPersistFails(e) /\ entry' = SetFailed(e)
       /\ GoTo([At("cleanup") EXCEPT !.gen = 0]) /\ part' = NoPart
\* The manifest must be the one the part was begun with.
SameManifest(r) ==
    \/ /\ r.v = w.m /\ w.why = "resume" /\ Shown("Running")
       /\ GoTo(At(LoopOrLand(w.off))) /\ UNCHANGED part
    \/ r.v = w.m /\ w.why = "mid" /\ GoTo(At("regetchunk")) /\ UNCHANGED <<entry, part>>
    \/ r.v # w.m /\ Fail

\* A chunk arrived: write_controller_durable_chunk, then the checkpoint.
StoreChunk(r) ==
    \/ /\ ~part.ragged /\ Len(part.data) = w.off
       /\ part' = Appended(r.v)
       /\ entry' = [entry EXCEPT !.off = w.off + 1, !.phase = "Running"]
       /\ GoTo([At(LoopOrLand(w.off + 1)) EXCEPT !.off = @ + 1]) /\ NoFault
    \/ Fail /\ Fault
    \/ (part.ragged \/ Len(part.data) # w.off) /\ Fail /\ NoFault

GetAnswer(r) ==
    \/ w.pc = "getbegin" /\ r.k = "manifest" /\ w.why = "fresh" /\ FreshGet(r)
    \/ /\ w.pc = "getbegin" /\ r.k = "manifest" /\ w.why # "fresh" /\ SameManifest(r)
       /\ UNCHANGED ctlJournal /\ NoFault
    \/ /\ w.pc \in {"getchunk", "regetchunk"} /\ r.k = "chunk"
       /\ StoreChunk(r) /\ UNCHANGED ctlJournal
    \/ /\ \/ w.pc = "getbegin" /\ r.k # "manifest"
          \/ w.pc \in {"getchunk", "regetchunk"} /\ r.k # "chunk"
       /\ Fail /\ UNCHANGED ctlJournal /\ NoFault

\* The session handler takes the Host's answer and goes on with the next
\* request; the waiter, if there is one, acts on it.
Deliver ==
    /\ gen # 0 /\ chan # << >> /\ chan[1].ans # NoMsg
    /\ chan' = Tail(chan)
    /\ LET r == chan[1].ans IN
       IF ~chan[1].heard THEN UNCHANGED <<entry, ctlJournal, w, part, faults>>
       ELSE IF w.pc \in {"cancel", "settle", "cleanup"}
       THEN Confirmed(Confirms(r)) /\ UNCHANGED <<ctlJournal, part, faults>>
       ELSE IF Kind = "put" THEN PutAnswer(r) /\ UNCHANGED <<ctlJournal, faults>>
       ELSE GetAnswer(r)
    /\ UNCHANGED <<host, hostJournal, gen, gens, dest, landed, clobbered>>
    /\ Outside /\ NoCancel

\* The worker finds its request lost with the session.
Lost ==
    /\ w.sent = "lost"
    /\ \/ /\ w.pc = "begin"
          /\ Shown("Waiting") /\ GoTo(For("wait", "begin")) /\ UNCHANGED part
       \/ w.pc = "wait" /\ GoTo(At("wait")) /\ UNCHANGED <<entry, part>>
       \/ /\ w.pc \in {"chunk", "finalize"}
          /\ Shown("Waiting") /\ GoTo(For("wait", w.pc)) /\ UNCHANGED part
       \/ w.pc = "getbegin" /\ Shown("Waiting") /\ GoTo(At("getbegin")) /\ UNCHANGED part
       \/ /\ w.pc = "getchunk"
          /\ Shown("Waiting") /\ GoTo(For("getbegin", "mid")) /\ UNCHANGED part
       \/ w.pc \in {"rebegin", "resend", "refinalize", "regetchunk"} /\ Fail
       \/ w.pc \in {"cancel", "settle", "cleanup"} /\ Confirmed(FALSE) /\ UNCHANGED part
    /\ UNCHANGED <<ctlJournal, dest, landed, clobbered, faults>>
    /\ NoChannel /\ Outside /\ NoCancel

-----------------------------------------------------------------------------
(* Sessions, crashes and restarts *)

\* What is left of the channel: the request the Host may have received.
Flying(c) == IF c # << >> /\ c[1].ans = NoMsg THEN {<< >>, <<[c[1] EXCEPT !.heard = FALSE]>>}
             ELSE {<< >>}
LosesRequest(x) == IF x.sent = "yes" THEN [x EXCEPT !.sent = "lost"] ELSE x

\* A new authenticated session; the Host serves one at a time.
Connect ==
    /\ gen = 0 /\ gens < MaxGen /\ ctlUp /\ host.up /\ host.step = "idle" /\ chan = << >>
    /\ gen' = gens + 1 /\ gens' = gens + 1
    /\ UNCHANGED <<host, hostJournal, chan, entry, ctlJournal, w, faults>>
    /\ NoFiles /\ Outside /\ NoCancel

Disconnect ==
    /\ gen # 0 /\ gens < MaxGen
    /\ gen' = 0
    /\ chan' \in IF host.step = "idle" THEN Flying(chan)
                 ELSE {<<[chan[1] EXCEPT !.heard = FALSE]>>}
    /\ w' = LosesRequest(w)
    /\ UNCHANGED <<host, hostJournal, gens, entry, ctlJournal, faults>>
    /\ NoFiles /\ Outside /\ NoCancel

\* The Host finds the connection closed before or after it read the request.
HostDrops ==
    /\ gen = 0 /\ chan # << >>
    /\ \/ chan[1].ans # NoMsg \/ host.step = "idle"
    /\ chan' = << >>
    /\ UNCHANGED <<host, hostJournal, gen, gens, entry, ctlJournal, w, faults>>
    /\ NoFiles /\ Outside /\ NoCancel

\* A chunk being written when the Host stops may be left unfinished.
HalfWritten == IF Starting("putchunk") /\ Active(host.phase) /\ ~Wrong(chan[1].req)
                    /\ ~Repeats(chan[1].req)
               THEN Torn(chan[1].req.v) ELSE {part}
HostCrash ==
    /\ host.up /\ Fault
    /\ host' = [HostBlank EXCEPT !.up = FALSE]
    /\ part' \in HalfWritten
    /\ chan' = << >> /\ gen' = 0
    /\ w' = LosesRequest(w)
    /\ UNCHANGED <<hostJournal, gens, entry, ctlJournal, dest, landed, clobbered>>
    /\ Outside /\ NoCancel

\* A get has landed and the journal does not know it.
GetForgotten == Kind = "get" /\ landed > 0 /\ ctlJournal.phase \notin Terminal
ControllerCrash ==
    /\ ctlUp /\ Fault
    /\ ctlUp' = FALSE
    /\ entry' = NoEntry /\ w' = IdleWorker
    /\ signal' = FALSE /\ cancelling' = FALSE
    /\ gen' = 0
    /\ chan' \in IF host.step = "idle" THEN Flying(chan)
                 ELSE {<<[chan[1] EXCEPT !.heard = FALSE]>>}
    /\ lapse' = (lapse \/ GetForgotten)
    /\ part' \in IF w.pc \in {"getchunk", "regetchunk"} /\ part.there
                 THEN {part, [part EXCEPT !.ragged = TRUE]} ELSE {part}
    /\ UNCHANGED <<job, src, foreign, host, hostJournal, gens, ctlJournal, dest, landed, clobbered>>

\* load_or_create and restore_snapshot: every journaled transfer that was not
\* over gets a worker again.
RestoredEntry ==
    LET e == ctlJournal IN
    IF e.phase \in Terminal \cup {"none", "Cancelling"} THEN e
    ELSE IF Kind = "put" \/ e.kept THEN [e EXCEPT !.phase = "Waiting", !.err = FALSE]
    ELSE [e EXCEPT !.phase = "Failed", !.err = TRUE]
RestoredWorker ==
    CASE RestoredEntry.phase = "Cancelling" -> [IdleWorker EXCEPT !.pc = "cancel"]
      [] RestoredEntry.phase = "Waiting" ->
            [IdleWorker EXCEPT !.pc = IF Kind = "put" THEN "prepare" ELSE "recover"]
      [] OTHER -> IdleWorker
ControllerRestart ==
    /\ ~ctlUp
    /\ \/ /\ ctlUp' = TRUE
          /\ entry' = RestoredEntry /\ CtlPersistOk(RestoredEntry)
          /\ w' = RestoredWorker
          /\ part' = IF Kind = "get" /\ ctlJournal.phase = "Cancelling" /\ ctlJournal.kept
                     THEN NoPart ELSE part
       \/ CtlPersistFails(RestoredEntry) /\ UNCHANGED <<ctlUp, entry, w, part>>
    /\ NoChannel /\ NoCancel
    /\ UNCHANGED <<job, src, lapse, foreign, dest, landed, clobbered>>

-----------------------------------------------------------------------------
WorkerStep == \/ PrepareSource \/ RecoverPart \/ GetLands \/ GetRefused \/ PersistLast
              \/ Send \/ SendTooLate \/ SeeSignal \/ Lost \/ Deliver
Next ==
    \/ StartPut \/ StartGet \/ CancelMarks \/ CancelSignals \/ OtherJournals
    \/ WorkerStep \/ CancelTimesOut
    \/ HostStep /\ UNCHANGED ctlVars
    \/ HostAlone /\ UNCHANGED ctlVars
    \/ HostRestart /\ UNCHANGED ctlVars
    \/ Connect \/ Disconnect \/ HostDrops \/ HostCrash \/ ControllerCrash \/ ControllerRestart

(***************************************************************************)
(* Both processes run, the Host serves and answers, a closed session is    *)
(* noticed, a Host and a Controller that stopped are started again by      *)
(* their service managers and the Host reconnects (its loop never gives    *)
(* up).  Nothing obliges anyone to cancel, edit, fail or disconnect.       *)
(***************************************************************************)
Fairness ==
    /\ WF_vars(WorkerStep)
    /\ WF_vars(CancelSignals)
    /\ WF_vars(HostStep /\ UNCHANGED ctlVars)
    /\ WF_vars(HostRestart /\ UNCHANGED ctlVars)
    /\ WF_vars(HostDrops)
    /\ WF_vars(Connect)
    /\ WF_vars(ControllerRestart)
Spec == Init /\ [][Next]_vars /\ Fairness

-----------------------------------------------------------------------------
(* Properties *)

Message == [k : {"none", "error", "notfound", "cancelled", "manifest", "chunk", "receiving",
                 "ready", "completed", "putbegin", "putchunk", "status", "finalize",
                 "getbegin", "getchunk", "cancel"},
            off : 0..Total, v : 0..(MaxEdits + 1)]
\* The variables keep their types.
TypeOK ==
    /\ job \in Jobs /\ src \in Versions
    /\ host \in [up : BOOLEAN, step : {"idle", "begun", "named", "renamed", "unlinked"},
                 phase : {"none", "receiving", "ready", "completed"}, m : 0..(MaxEdits + 1),
                 off : 0..Total, last : Message, path : Names \cup {NoPath},
                 get : 0..(MaxEdits + 1)]
    /\ part \in [there : BOOLEAN, data : Data, ragged : BOOLEAN]
    /\ dest \in [Names -> [by : {"none", "us", "other"}, data : Data]]
    /\ \A i \in DOMAIN chan : chan[i] \in [req : Message, ans : Message, heard : BOOLEAN]
    /\ entry \in Entry /\ ctlJournal \in Entry /\ w \in Worker
    /\ gen \in 0..MaxGen /\ gens \in 0..MaxGen
    /\ faults \in 0..MaxFaults /\ foreign \in 0..MaxForeign
    /\ {signal, cancelling, ctlUp, clobbered, lapse} \subseteq BOOLEAN

\* A file appears at the destination only whole, in one version of a source
\* that was being edited, and never over a file of another program that the
\* policy protects, whatever was lost, repeated or restarted on the way.
DestinationSafe ==
    /\ \A n \in Names : dest[n].by = "us" => \E v \in Versions : dest[n].data = Whole(v)
    /\ ~clobbered

\* One transfer delivers one file: a repeated Begin, chunk or Finalize and a
\* restart of either side never deliver it twice, unless the Host pruned the
\* completed put or the Controller crashed before it journaled a landed get.
DeliveredOnce == ~lapse => landed <= 1

\* Completed is shown only for a file that is in place with the manifest's
\* content.
CompletedIsDelivered ==
    entry.phase = "Completed" =>
        \E n \in Names : dest[n].by = "us" /\ dest[n].data = Whole(entry.m)

\* What the Controller reports is what was delivered, and it was delivered
\* once.
DeliveryIsTrue == DeliveredOnce /\ CompletedIsDelivered

\* Cancelled without a warning: nothing was delivered, no part is left and
\* the Host has no put, although requests the worker had given up may have
\* been executed after it.
CleanCancel ==
    (entry.phase = "Cancelled" /\ ~entry.err /\ ~lapse) =>
        /\ landed = 0
        /\ ~part.there
        /\ host.up => host.phase = "none"

\* The chunks the worker counts as confirmed are in the part, through every
\* crash of the side that wrote them.
Counting == \/ w.pc \in {"chunk", "resend", "finalize", "refinalize", "getchunk", "regetchunk"}
            \/ w.pc = "wait" /\ w.why \in {"chunk", "finalize"}
ConfirmedIsOnDisk ==
    Counting => landed > 0 \/ (part.there /\ Len(part.data) >= w.off)

\* With the device online again and again, a worker comes to its end: no
\* lost answer, late answer or restart leaves it waiting for ever.
WorkerSettles == []<>(gen # 0) => (w.pc # "idle" ~> w.pc = "idle")

\* An active put in the journal of a stopped Host has its part, or the path
\* it was being renamed to.
JournalNeverLeadsPart ==
    (~host.up /\ Active(hostJournal.phase)) => PartThere \/ hostJournal.path # NoPath

\* A cancel ends in a terminal phase.
CancelLands == []<>(gen # 0) => (entry.phase = "Cancelling" ~> entry.phase \in Terminal)
=============================================================================
