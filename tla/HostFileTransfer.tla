--------------------------- MODULE HostFileTransfer ---------------------------
(***************************************************************************)
(* The Host side of one file transfer: HostFileTransferService             *)
(* (crates/clew-host/src/file_transfer.rs), which answers one request of   *)
(* its session at a time under its store lock, keeps a two-slot journal,   *)
(* and writes a private part file beside the destination.                  *)
(*                                                                         *)
(* A file is Total chunks; a chunk is the version of the source it was     *)
(* read from, so a file is whole when all its chunks have one version, and *)
(* a manifest (size and SHA-256) is the version that was hashed.  For a    *)
(* put the part and the destination are on the Host, for a get on the      *)
(* Controller.  Other transfers appear only as what they do to this one:   *)
(* they may fill the store, prune a completed entry and write the journal. *)
(* Hashing a file is one step; paths, scopes and grants are taken valid.   *)
(***************************************************************************)
EXTENDS Integers, Sequences, FiniteSets

CONSTANTS
    Jobs,           \* the transfers considered, see Job
    Total           \* chunks of the file

(***************************************************************************)
(* A transfer and the bounds on what happens to it: in-place edits of the  *)
(* source, files another program creates at the destination, and failed    *)
(* I/O operations and process crashes.                                     *)
(***************************************************************************)
Job == [kind : {"put", "get"}, policy : {"fail", "replace", "rename"},
        edits : Nat, foreign : Nat, faults : Nat]

ASSUME HostFileAssumption ==
    /\ \A j \in Jobs : j \in Job
    /\ Total \in Nat

VARIABLES
    job,            \* FileTransferDirection, FileConflictPolicy and bounds
    host,           \* HostFileTransferStore: the entry of this transfer
    hostJournal,    \* the newest valid slot of the Host's journal
    chan,           \* requests of the session: the first is with the Host
    part,           \* the part file
    dest,           \* the destination and its rename candidate
    src,            \* version of the source file
    landed,         \* history: how often a part was renamed into place
    clobbered,      \* history: a file of another program was overwritten
    lapse,          \* history: the memory of a delivery was dropped, see README
    faults, foreign

hostVars == <<host, hostJournal>>
fileVars == <<part, dest, landed, clobbered>>

Kind == job.kind        \* "put" (to the device) or "get" (from it)
Policy == job.policy
MaxEdits == job.edits
MaxForeign == job.foreign
MaxFaults == job.faults
Versions == 1..(MaxEdits + 1)
Names == {0, 1}                 \* the destination, and one rename candidate
NoPath == -1
Data == UNION {[1..n -> Versions] : n \in 0..(Total + 1)}
Whole(v) == [i \in 1..Total |-> v]

NoPart == [there |-> FALSE, data |-> << >>, ragged |-> FALSE]
NewPart == [there |-> TRUE, data |-> << >>, ragged |-> FALSE]
Free == [by |-> "none", data |-> << >>]

\* A request or a reply: its kind, an offset in chunks, a version.
Msg(k, off, v) == [k |-> k, off |-> off, v |-> v]
NoMsg == Msg("none", 0, 0)

\* HostPutEntry and HostGetEntry.  step: where in a request with several
\* durable effects the worker thread is; last: the chunk accepted last.
HostBlank == [up |-> TRUE, step |-> "idle", phase |-> "none", m |-> 0, off |-> 0,
              last |-> NoMsg, path |-> NoPath, get |-> 0]
\* HostFileTransferSnapshot: tied says that the part it names is the one there.
JournalBlank == [phase |-> "none", m |-> 0, off |-> 0, path |-> NoPath, get |-> 0,
                 tied |-> FALSE]
Active(phase) == phase \in {"receiving", "ready"}
Snapshot(h) == [phase |-> h.phase, m |-> h.m, off |-> h.off, path |-> h.path,
                get |-> h.get, tied |-> Active(h.phase)]

HostInit ==
    /\ job \in Jobs
    /\ host = HostBlank
    /\ hostJournal = JournalBlank
    /\ chan = << >>
    /\ part = NoPart
    /\ dest = [n \in Names |-> Free]
    /\ src = 1
    /\ landed = 0 /\ clobbered = FALSE /\ lapse = FALSE
    /\ faults = 0 /\ foreign = 0

Fault == faults < MaxFaults /\ faults' = faults + 1
NoFault == UNCHANGED faults

\* HostFileTransferStateStore::persist.  A failure may or may not have left
\* the new slot complete on disk.
PersistOk(h) == hostJournal' = Snapshot(h) /\ NoFault
PersistFails(h) == hostJournal' \in {hostJournal, Snapshot(h)} /\ Fault
PhaseAt(n) == IF n = Total THEN "ready" ELSE "receiving"

Status(h) == Msg(h.phase, h.off, h.m)
Error == Msg("error", 0, 0)
NotFound == Msg("notfound", 0, 0)

\* The request the worker thread executes.
Serving(k) ==
    /\ host.up
    /\ chan # << >>
    /\ chan[1].ans = NoMsg
    /\ chan[1].req.k = k
Starting(k) == Serving(k) /\ host.step = "idle"
Answer(r) == chan' = [chan EXCEPT ![1].ans = r]
Next1(h) == host' = h /\ chan' = chan
Reply(h, r) == host' = [h EXCEPT !.step = "idle"] /\ Answer(r)

-----------------------------------------------------------------------------
(* Requests of a put *)

\* prepare_put_target: under "fail" the destination must not exist.
TargetOk == Policy = "fail" => dest[0].by = "none"

\* put_begin finds the TransferId in its store.
OnlyActive == Active(host.phase)
Known == host.phase # "none"
\* put_begin up to the temporary file; a store filled by other transfers
\* answers Capacity.
PutBegin ==
    /\ Starting("putbegin")
    /\ UNCHANGED <<job, dest, src, landed, clobbered, lapse, foreign>>
    /\ \/ /\ Known
          /\ Reply(host, IF host.m = chan[1].req.v THEN Status(host) ELSE Error)
          /\ UNCHANGED <<hostJournal, part>> /\ NoFault
       \/ /\ ~Known /\ ~TargetOk
          /\ Reply(host, Error)
          /\ UNCHANGED <<hostJournal, part>> /\ NoFault
       \/ /\ ~Known /\ TargetOk
          /\ Reply(host, Error)
          /\ UNCHANGED <<hostJournal, part>> /\ Fault
       \/ /\ ~Known /\ TargetOk
          /\ part' = NewPart
          /\ hostJournal' = [hostJournal EXCEPT !.tied = FALSE]
          /\ Next1([host EXCEPT !.step = "begun", !.phase = PhaseAt(0), !.m = chan[1].req.v,
                                !.off = 0, !.last = NoMsg, !.path = NoPath])
          /\ NoFault

\* put_begin from the insertion on: a failed write takes the entry and its
\* temporary file away again.
PutBegun ==
    /\ Serving("putbegin") /\ host.step = "begun"
    /\ UNCHANGED <<job, dest, src, landed, clobbered, lapse, foreign>>
    /\ \/ PersistOk(host) /\ Reply(host, Status(host)) /\ UNCHANGED part
       \/ /\ PersistFails(host)
          /\ Reply([host EXCEPT !.phase = "none", !.m = 0], Error)
          /\ part' = NoPart

\* write_all and sync_data of a chunk.
AppendedLate(v) == part
Appended(v) == [part EXCEPT !.data = Append(@, v)]
\* What write_all and sync_data may leave when they fail.
Torn(v) == {[part EXCEPT !.ragged = TRUE], Appended(v), part}

Repeats(c) == host.last = c /\ c.off + 1 = host.off
Wrong(c) == \/ host.phase = "ready" \/ c.off # host.off
            \/ c.off + 1 = Total /\ Append(part.data, c.v) # Whole(host.m)
            \/ Len(part.data) # host.off \/ part.ragged

\* put_chunk
PutChunk ==
    /\ Starting("putchunk")
    /\ UNCHANGED <<job, hostJournal, dest, src, landed, clobbered, lapse, foreign>>
    /\ LET c == chan[1].req IN
       \/ /\ host.phase = "none"
          /\ Reply(host, NotFound) /\ UNCHANGED part /\ NoFault
       \/ /\ host.phase # "none" /\ (Repeats(c) \/ host.phase = "completed")
          /\ Reply(host, Status(host)) /\ UNCHANGED part /\ NoFault
       \/ /\ Active(host.phase) /\ ~Repeats(c) /\ Wrong(c)
          /\ Reply(host, Error) /\ UNCHANGED part /\ NoFault
       \/ /\ Active(host.phase) /\ ~Repeats(c) /\ ~Wrong(c)
          /\ \/ LET h == [host EXCEPT !.off = @ + 1, !.last = c, !.phase = PhaseAt(c.off + 1)]
                IN  Reply(h, Status(h)) /\ part' = Appended(c.v) /\ NoFault
             \/ Reply(host, Error) /\ part' \in Torn(c.v) /\ Fault

\* choose_finalizing_path: the destination itself or the first free name.
FreeNames == {n \in Names : dest[n].by = "none"}
Chosen == IF host.path # NoPath THEN {host.path}
          ELSE IF Policy # "rename" THEN {0}
          ELSE {n \in FreeNames : \A k \in FreeNames : n <= k}

\* finalize up to the journaled path.
Finalize ==
    /\ Starting("finalize")
    /\ UNCHANGED <<job, part, dest, src, landed, clobbered, lapse, foreign>>
    /\ \/ /\ host.phase = "none"
          /\ Reply(host, IF host.get = 0 THEN NotFound ELSE Error)
          /\ UNCHANGED hostJournal /\ NoFault
       \/ /\ host.phase = "completed"
          /\ Reply(host, Status(host)) /\ UNCHANGED hostJournal /\ NoFault
       \/ /\ \/ host.phase = "receiving"
             \/ host.phase = "ready" /\ Chosen = {}
          /\ Reply(host, Error) /\ UNCHANGED hostJournal /\ NoFault
       \/ /\ host.phase = "ready"
          /\ \E n \in Chosen : LET h == [host EXCEPT !.path = n] IN
                \/ PersistOk(h) /\ Next1([h EXCEPT !.step = "named"])
                \/ PersistFails(h) /\ Reply(h, Error)

\* The rename refused: persist_noclobber found a file there.
NeverOccupied(n) == FALSE
Occupied(n) == Policy # "replace" /\ dest[n].by # "none"

\* persist_final_at: the atomic rename of the part, or its refusal, after
\* which the path is withdrawn and "rename" chooses another one.
Rename ==
    /\ Serving("finalize") /\ host.step = "named"
    /\ UNCHANGED <<job, src, lapse, foreign>>
    /\ LET n == host.path
           back == [host EXCEPT !.path = NoPath]
       IN \/ /\ ~Occupied(n)
             /\ dest' = [dest EXCEPT ![n] = [by |-> "us", data |-> part.data]]
             /\ part' = NoPart
             /\ landed' = landed + 1
             /\ clobbered' = (clobbered \/ (dest[n].by = "other" /\ Policy # "replace"))
             /\ Next1([host EXCEPT !.step = "renamed"])
             /\ UNCHANGED hostJournal /\ NoFault
          \/ /\ Occupied(n)
             /\ \/ PersistOk(back) /\ (IF Policy = "rename"
                                       THEN Next1([back EXCEPT !.step = "idle"])
                                       ELSE Reply(back, Error))
                \/ PersistFails(back) /\ Reply(back, Error)
             /\ UNCHANGED <<part, dest, landed, clobbered>>
          \/ /\ hostJournal' = Snapshot(back) /\ Fault      \* the rename itself failed
             /\ Reply(back, Error)
             /\ UNCHANGED <<part, dest, landed, clobbered>>

\* The end of finalize: a failed directory sync or journal write is answered
\* with an error although the file is in place.
Finalized ==
    /\ Serving("finalize") /\ host.step = "renamed"
    /\ UNCHANGED <<job, part, dest, src, landed, clobbered, lapse, foreign>>
    /\ LET h == [host EXCEPT !.phase = "completed", !.path = NoPath]
       IN \/ PersistOk(h) /\ Reply(h, Status(h))
          \/ PersistFails(h) /\ Reply(h, Error)
          \/ hostJournal' = Snapshot(h) /\ Fault /\ Reply(h, Error)

-----------------------------------------------------------------------------
(* Requests of a get, and requests of both *)

\* get_begin: prepare_get_source hashes the source as it is now.
GetBegin ==
    /\ Starting("getbegin")
    /\ UNCHANGED <<job, part, dest, src, landed, clobbered, lapse, foreign>>
    /\ \/ /\ host.phase # "none" \/ host.get # 0
          /\ Reply(host, IF host.phase # "none" THEN Error ELSE Msg("manifest", 0, host.get))
          /\ UNCHANGED hostJournal /\ NoFault
       \/ /\ host.phase = "none" /\ host.get = 0
          /\ LET h == [host EXCEPT !.get = src] IN
             \/ PersistOk(h) /\ Reply(h, Msg("manifest", 0, src))
             \/ PersistFails(h) /\ Reply(host, Error)

\* get_chunk reads the open source, whatever was written to it since.
GetChunk ==
    /\ Starting("getchunk")
    /\ host' = host
    /\ UNCHANGED <<job, hostJournal, part, dest, src, landed, clobbered, lapse, foreign>>
    /\ \/ host.get = 0 /\ Answer(NotFound) /\ NoFault
       \/ host.get # 0 /\ Answer(Msg("chunk", chan[1].req.off, src)) /\ NoFault
       \/ host.get # 0 /\ Answer(Error) /\ Fault

GetStatus ==
    /\ Starting("status")
    /\ Reply(host, IF host.phase # "none" THEN Status(host)
                   ELSE IF host.get # 0 THEN Msg("manifest", 0, host.get) ELSE NotFound)
    /\ UNCHANGED <<job, hostJournal, part, dest, src, landed, clobbered, lapse, foreign>> /\ NoFault

\* cancel: the entry, and the temporary file it owns, go before the journal
\* is written.
Cancel ==
    /\ Starting("cancel")
    /\ UNCHANGED <<job, dest, src, landed, clobbered, lapse, foreign>>
    /\ \/ /\ host.phase = "completed" \/ (host.phase = "none" /\ host.get = 0)
          /\ Reply(host, IF host.phase = "none" THEN NotFound ELSE Error)
          /\ UNCHANGED <<hostJournal, part>> /\ NoFault
       \/ /\ Active(host.phase)
          /\ part' = NoPart
          /\ Next1([host EXCEPT !.step = "unlinked", !.phase = "none", !.m = 0, !.path = NoPath])
          /\ UNCHANGED hostJournal /\ NoFault
       \/ /\ host.phase = "none" /\ host.get # 0
          /\ LET h == [host EXCEPT !.get = 0] IN
             \/ PersistOk(h) /\ Reply(h, Msg("cancelled", 0, 0))
             \/ PersistFails(h) /\ Reply(h, Error)
          /\ UNCHANGED part

Cancelled ==
    /\ Serving("cancel") /\ host.step = "unlinked"
    /\ UNCHANGED <<job, part, dest, src, landed, clobbered, lapse, foreign>>
    /\ \/ PersistOk(host) /\ Reply(host, Msg("cancelled", 0, 0))
       \/ PersistFails(host) /\ Reply(host, Error)

-----------------------------------------------------------------------------
(* Other transfers, crash and restart *)

\* prune_completed, on behalf of a transfer that needs the room; its own
\* journal write follows.
Prune ==
    /\ host.up /\ host.step = "idle" /\ host.phase = "completed"
    /\ host' = [host EXCEPT !.phase = "none", !.m = 0]
    /\ hostJournal' = Snapshot(host')
    /\ lapse' = TRUE
    /\ UNCHANGED <<job, chan, part, dest, src, landed, clobbered, faults, foreign>>

\* Another transfer's persist writes the entry of this one as it is now.
OtherPersists ==
    /\ host.up /\ host.step = "idle"
    /\ hostJournal # Snapshot(host)
    /\ hostJournal' = Snapshot(host)
    /\ UNCHANGED <<job, host, chan, part, dest, src, landed, clobbered, lapse, faults, foreign>>

\* The part the journal names can be taken up again: restore_snapshot's
\* checks of its length and of its final hash.
PartFits == /\ TargetOk /\ ~part.ragged /\ Len(part.data) <= Total
            /\ Len(part.data) >= hostJournal.off
            /\ Len(part.data) = Total => part.data = Whole(hostJournal.m)
PartThere == part.there /\ hostJournal.tied
\* The rename had happened: the journaled path holds the whole file.
LandedAt(n) == n # NoPath /\ dest[n].by # "none" /\ dest[n].data = Whole(hostJournal.m)
\* restore_snapshot succeeds; otherwise the Host does not serve its member.
Loadable == Active(hostJournal.phase) =>
                IF PartThere THEN PartFits ELSE LandedAt(hostJournal.path)

Restored ==
    LET j == hostJournal
        get == IF j.get = src THEN j.get ELSE 0
        e == [HostBlank EXCEPT !.phase = j.phase, !.m = j.m, !.off = j.off, !.get = get]
    IN IF ~Active(j.phase) THEN e
       ELSE IF PartThere
       THEN [e EXCEPT !.off = Len(part.data), !.phase = PhaseAt(Len(part.data)), !.path = j.path]
       ELSE [e EXCEPT !.phase = "completed"]

\* load_or_create, whose restore_snapshot writes the journal before it serves.
HostRestart ==
    /\ ~host.up /\ Loadable
    /\ UNCHANGED <<job, chan, dest, src, landed, clobbered, lapse, foreign>>
    /\ \/ /\ host' = Restored /\ PersistOk(Restored)
          /\ part' = IF Kind = "put" /\ ~Active(Restored.phase) THEN NoPart ELSE part
       \/ PersistFails(Restored) /\ UNCHANGED <<host, part>>

-----------------------------------------------------------------------------
(* Other programs *)

Edit ==
    /\ src <= MaxEdits
    /\ src' = src + 1
    /\ UNCHANGED <<job, host, hostJournal, chan, part, dest, landed, clobbered, lapse, faults, foreign>>

ForeignFile(n) ==
    /\ foreign < MaxForeign /\ dest[n].by = "none"
    /\ dest' = [dest EXCEPT ![n] = [by |-> "other", data |-> << >>]]
    /\ foreign' = foreign + 1
    /\ UNCHANGED <<job, host, hostJournal, chan, part, src, landed, clobbered, lapse, faults>>

HostStep ==
    \/ PutBegin \/ PutBegun \/ PutChunk \/ Finalize \/ Rename \/ Finalized
    \/ GetBegin \/ GetChunk \/ GetStatus \/ Cancel \/ Cancelled
HostAlone == Prune \/ OtherPersists \/ Edit \/ \E n \in Names : ForeignFile(n)
=============================================================================
