---------------------------- MODULE MutationReplay ----------------------------
(***************************************************************************)
(* File mutations that are replayed until they are answered.  The          *)
(* Controller sends Write or Edit under one RequestId, again and again on  *)
(* new sessions (RemoteHub::fs_mutation, crates/clew-runtime/src/remote.rs)*)
(* while the Host remembers what it has done for each RequestId in a       *)
(* bounded cache and does the work in threads that outlive the session     *)
(* (HostReadService, crates/clew-host/src/read.rs).                        *)
(*                                                                         *)
(* One device.  The handler of a session has one RPC out at a time and the *)
(* Host executes it before it reads the next; a worker runs on when the    *)
(* Host has answered Timeout or the session is gone.                       *)
(***************************************************************************)
EXTENDS Integers, FiniteSets

CONSTANTS
    Reqs,           \* RequestIds, one per Local API call
    Paths,          \* mutation targets inside the allowed roots
    Values,         \* small file contents
    CacheCap,       \* HARD_MAX_MUTATION_REPLAY_ENTRIES
    MaxBreaks,      \* bound: sessions lost and restarts of the Host process
    MaxTimeouts     \* bound: Timeout replies of the Host

ASSUME ReplayAssumption ==
    /\ CacheCap \in Nat \ {0}
    /\ MaxBreaks \in Nat /\ MaxTimeouts \in Nat

VARIABLES
    session,        \* generation in the device's hub slot, 0 when offline
    next,           \* next_generation
    req,            \* fs_mutation futures
    rpc,            \* the request on the current connection
    entry,          \* MutationReplayCache: what is known of each RequestId
    stamp,          \* sequence of each entry: the order they were made in
    sequence,       \* next_sequence
    worker,         \* execute_mutation_blocking threads
    hung,           \* entries of older requests whose thread never comes back
    file,           \* contents of the targets
    applied,        \* history: how often each request reached the disk
    forgot,         \* history: how often the cache lost a request's entry
    overwrote,      \* history: replacements of something else than expected
    breaks, timeouts

ctl == <<session, next, req>>
cache == <<entry, stamp, sequence, hung>>
history == <<applied, forgot, overwrote>>
bounds == <<breaks, timeouts>>
vars == <<ctl, rpc, cache, worker, file, history, bounds>>

None == "none"
Absent == "absent"
\* FsWritePrecondition::CreateOnly is pre = Absent; MatchSha256, and an Edit,
\* name the contents they expect.
Mutation == [path : Paths, pre : Values \cup {Absent}, new : Values]
NoOp == [path |-> None, pre |-> None, new |-> None]
\* Every error but Timeout ends the replay loop.
Replies == {"ok", "conflict", "exists", "io", "capacity"}

ReqState == [pc : {"idle", "waiting", "sent", "done", "failed"}, prev : Nat, gen : Nat,
             op : Mutation \cup {NoOp}, result : Replies \cup {None}]
RpcState == [req : Reqs \cup {None}, phase : {"idle", "wire", "exec"}]
WorkerState == {"none", "start", "checked"} \cup Replies
Quiet == [req |-> None, phase |-> "idle"]

Init ==
    /\ session = 0
    /\ next = 0
    /\ req = [r \in Reqs |-> [pc |-> "idle", prev |-> 0, gen |-> 0, op |-> NoOp,
                              result |-> None]]
    /\ rpc = Quiet
    /\ entry = [r \in Reqs |-> "none"]
    /\ stamp = [r \in Reqs |-> 0]
    /\ sequence = 0
    /\ worker = [r \in Reqs |-> "none"]
    /\ hung \in 0..(CacheCap - 1)
    /\ file \in [Paths -> Values \cup {Absent}]
    /\ applied = [r \in Reqs |-> 0]
    /\ forgot = [r \in Reqs |-> 0]
    /\ overwrote = {}
    /\ breaks = 0
    /\ timeouts = 0

-----------------------------------------------------------------------------
(* Sessions.  A Host has one at a time: whatever the old one had not taken  *)
(* from the wire is gone when it connects again.                            *)

Connect ==
    /\ session = 0
    /\ next' = next + 1
    /\ session' = next'
    /\ rpc' = Quiet
    /\ UNCHANGED <<req, cache, worker, file, history, bounds>>

\* The Controller's handler ends; the Host may not have noticed yet.
Drop ==
    /\ session # 0
    /\ breaks < MaxBreaks
    /\ breaks' = breaks + 1
    /\ session' = 0
    /\ UNCHANGED <<next, req, rpc, cache, worker, file, history, timeouts>>

\* A new Host process has an empty cache and no threads; its connection is gone.
HostRestart ==
    /\ breaks < MaxBreaks
    /\ breaks' = breaks + 1
    /\ session' = 0
    /\ rpc' = Quiet
    /\ entry' = [r \in Reqs |-> "none"]
    /\ stamp' = [r \in Reqs |-> 0]
    /\ sequence' = 0
    /\ hung' = 0
    /\ worker' = [r \in Reqs |-> "none"]
    /\ forgot' = [r \in Reqs |-> IF entry[r] = "none" THEN forgot[r] ELSE forgot[r] + 1]
    /\ UNCHANGED <<next, req, file, applied, overwrote, timeouts>>

-----------------------------------------------------------------------------
(* RemoteHub::fs_mutation *)

Issue(r, m) ==
    /\ req[r].pc = "idle"
    /\ req' = [req EXCEPT ![r].pc = "waiting", ![r].op = m]
    /\ UNCHANGED <<session, next, rpc, cache, worker, file, history, bounds>>

\* replay_session_after, and the handler putting the command on the wire.
Send(r) ==
    /\ req[r].pc = "waiting"
    /\ session # 0
    /\ session # req[r].prev
    /\ rpc = Quiet
    /\ rpc' = [req |-> r, phase |-> "wire"]
    /\ req' = [req EXCEPT ![r].pc = "sent", ![r].gen = session]
    /\ UNCHANGED <<session, next, cache, worker, file, history, bounds>>

\* The handler of the session it was sent on has ended.
SessionLost(r) ==
    /\ req[r].pc = "sent"
    /\ session # req[r].gen
    /\ req' = [req EXCEPT ![r].pc = "waiting", ![r].prev = req[r].gen]
    /\ UNCHANGED <<session, next, rpc, cache, worker, file, history, bounds>>

\* The Local API timeout drops the loop; nothing is withdrawn from the wire.
GiveUp(r) ==
    /\ req[r].pc \in {"waiting", "sent"}
    /\ req' = [req EXCEPT ![r].pc = "failed"]
    /\ UNCHANGED <<session, next, rpc, cache, worker, file, history, bounds>>

\* A reply reaches the loop that sent the request.
Hears(r) == req[r].pc = "sent" /\ session = req[r].gen
\* A loop that takes a Timeout for a broken session.
TimeoutEndsGeneration(r) ==
    req' = IF Hears(r) THEN [req EXCEPT ![r].pc = "waiting", ![r].prev = req[r].gen] ELSE req
\* Timeout: the worker still runs, ask again on whatever session there is.
TimedOut(r) ==
    req' = IF Hears(r) THEN [req EXCEPT ![r].pc = "waiting", ![r].prev = 0] ELSE req
Answered(r, reply) ==
    req' = IF Hears(r) THEN [req EXCEPT ![r].pc = "done", ![r].result = reply] ELSE req

-----------------------------------------------------------------------------
(* HostReadService::execute_fs_mutation_rpc *)

Entries == {r \in Reqs : entry[r] # "none"}
Completed(r) == entry[r] \in Replies
HasRoom == Cardinality(Entries) + hung < CacheCap
Oldest(S) == {r \in S : \A q \in S : stamp[r] <= stamp[q]}

\* A cache that makes room by age alone.
EvictOldest == IF HasRoom THEN {} ELSE Oldest(Entries)
\* prune_completed_mutation_replay: at capacity the oldest completed entry
\* goes; an entry whose worker runs is never removed.
Evict == IF HasRoom THEN {} ELSE Oldest({r \in Reqs : Completed(r)})

\* A Host that refuses the duplicate of a request it is still working on.
HostKnowsRefuses(r) ==
    /\ rpc = [req |-> r, phase |-> "wire"]
    /\ entry[r] # "none"
    /\ IF Completed(r) THEN rpc' = [rpc EXCEPT !.phase = "exec"] /\ UNCHANGED req
       ELSE rpc' = Quiet /\ Answered(r, "conflict")
    /\ UNCHANGED <<session, next, cache, worker, file, history, bounds>>
\* The RequestId is known: a completed one is answered from the cache, one in
\* flight is waited for.
HostKnows(r) ==
    /\ rpc = [req |-> r, phase |-> "wire"]
    /\ entry[r] # "none"
    /\ rpc' = [rpc EXCEPT !.phase = "exec"]
    /\ UNCHANGED <<ctl, cache, worker, file, history, bounds>>

\* A new RequestId is registered and its worker launched.
HostLaunches(r) ==
    /\ rpc = [req |-> r, phase |-> "wire"]
    /\ entry[r] = "none"
    /\ Cardinality(Entries \ Evict) + hung < CacheCap
    /\ entry' = [q \in Reqs |-> IF q = r THEN "inflight"
                                ELSE IF q \in Evict THEN "none" ELSE entry[q]]
    /\ sequence' = sequence + 1
    /\ stamp' = [q \in Reqs |-> IF q = r THEN sequence'
                                ELSE IF q \in Evict THEN 0 ELSE stamp[q]]
    /\ forgot' = [q \in Reqs |-> IF q \in Evict THEN forgot[q] + 1 ELSE forgot[q]]
    /\ worker' = [worker EXCEPT ![r] = "start"]
    /\ rpc' = [rpc EXCEPT !.phase = "exec"]
    /\ UNCHANGED <<ctl, hung, file, applied, overwrote, bounds>>

\* Every entry is in flight.
HostFull(r) ==
    /\ rpc = [req |-> r, phase |-> "wire"]
    /\ entry[r] = "none"
    /\ ~HasRoom
    /\ Evict = {}
    /\ Answered(r, "capacity")
    /\ rpc' = Quiet
    /\ UNCHANGED <<session, next, cache, worker, file, history, bounds>>

\* The worker's reply is there.
HostAnswers(r) ==
    /\ rpc = [req |-> r, phase |-> "exec"]
    /\ Completed(r)
    /\ Answered(r, entry[r])
    /\ rpc' = Quiet
    /\ UNCHANGED <<session, next, cache, worker, file, history, bounds>>

\* policy.timeout_ms passes first: the worker keeps running.
HostTimesOut(r) ==
    /\ rpc = [req |-> r, phase |-> "exec"]
    /\ entry[r] = "inflight"
    /\ timeouts < MaxTimeouts
    /\ timeouts' = timeouts + 1
    /\ TimedOut(r)
    /\ rpc' = Quiet
    /\ UNCHANGED <<session, next, cache, worker, file, history, breaks>>

-----------------------------------------------------------------------------
(* execute_mutation_blocking, one thread per launched request *)

Op(r) == req[r].op
Current(r) == file[Op(r).path]
Creates(r) == Op(r).pre = Absent

\* read_existing_mutation_target or prepare_create_target: the precondition
\* is compared with what is there now.
WorkerChecks(r) ==
    /\ worker[r] = "start"
    /\ worker' = [worker EXCEPT ![r] = IF Current(r) = Op(r).pre THEN "checked"
                                       ELSE IF Creates(r) THEN "exists" ELSE "conflict"]
    /\ UNCHANGED <<ctl, rpc, cache, file, history, bounds>>

\* A creation that renames over whatever has appeared meanwhile.
PersistClobbers(r, reply) ==
    /\ worker[r] = "checked"
    /\ file' = [file EXCEPT ![Op(r).path] = Op(r).new]
    /\ worker' = [worker EXCEPT ![r] = reply]
    /\ applied' = [applied EXCEPT ![r] = @ + 1]
    /\ overwrote' = IF Current(r) = Op(r).pre THEN overwrote ELSE overwrote \cup {r}
    /\ UNCHANGED <<ctl, rpc, cache, forgot, bounds>>
\* persist_mutation: rename the synced temporary file onto the target; only a
\* creation looks again (persist_noclobber).  A failing sync after the rename
\* makes the reply an error although the contents are there.
Persist(r, reply) ==
    /\ worker[r] = "checked"
    /\ Creates(r) => Current(r) = Absent
    /\ file' = [file EXCEPT ![Op(r).path] = Op(r).new]
    /\ worker' = [worker EXCEPT ![r] = reply]
    /\ applied' = [applied EXCEPT ![r] = @ + 1]
    /\ overwrote' = IF Current(r) = Op(r).pre THEN overwrote ELSE overwrote \cup {r}
    /\ UNCHANGED <<ctl, rpc, cache, forgot, bounds>>

\* persist_noclobber finds the target taken, or an I/O step fails before it.
PersistFails(r, reply) ==
    /\ worker[r] = "checked"
    /\ reply = "io" \/ (reply = "exists" /\ Creates(r) /\ Current(r) # Absent)
    /\ worker' = [worker EXCEPT ![r] = reply]
    /\ UNCHANGED <<ctl, rpc, cache, file, history, bounds>>

\* A completion task that keeps the reply only for somebody who waits.
WorkerCompletesUnkept(r) ==
    /\ worker[r] \in Replies
    /\ IF rpc = [req |-> r, phase |-> "exec"]
       THEN entry' = [entry EXCEPT ![r] = worker[r]] /\ stamp' = stamp
       ELSE entry' = [entry EXCEPT ![r] = "none"] /\ stamp' = [stamp EXCEPT ![r] = 0]
    /\ worker' = [worker EXCEPT ![r] = "none"]
    /\ UNCHANGED <<ctl, rpc, sequence, hung, file, history, bounds>>
\* The completion task stores the reply and wakes whoever waits.
WorkerCompletes(r) ==
    /\ worker[r] \in Replies
    /\ entry' = [entry EXCEPT ![r] = worker[r]]
    /\ worker' = [worker EXCEPT ![r] = "none"]
    /\ UNCHANGED <<ctl, rpc, stamp, sequence, hung, file, history, bounds>>

-----------------------------------------------------------------------------
Host(r) == HostKnows(r) \/ HostLaunches(r) \/ HostFull(r) \/ HostAnswers(r) \/ HostTimesOut(r)
Work(r) ==
    \/ WorkerChecks(r) \/ WorkerCompletes(r)
    \/ \E reply \in {"ok", "io"} : Persist(r, reply)
    \/ \E reply \in {"io", "exists"} : PersistFails(r, reply)

Next ==
    \/ Connect \/ Drop \/ HostRestart
    \/ \E r \in Reqs : \/ Send(r) \/ SessionLost(r) \/ GiveUp(r) \/ Host(r) \/ Work(r)
                       \/ \E m \in Mutation : Issue(r, m)

Spec == Init /\ [][Next]_vars

(***************************************************************************)
(* The Host reconnects for ever (serve_networked_membership_until), its    *)
(* dispatcher answers or times out, blocking threads come back, and the    *)
(* replay loop of a waiting caller runs.  Nothing is assumed of the Local  *)
(* API timeout.                                                            *)
(***************************************************************************)
Fairness ==
    /\ WF_vars(Connect)
    /\ \A r \in Reqs : WF_vars(Send(r)) /\ WF_vars(SessionLost(r))
                     /\ WF_vars(Host(r)) /\ WF_vars(Work(r))

FairSpec == Spec /\ Fairness

-----------------------------------------------------------------------------
TypeOK ==
    /\ session \in {0, next}
    /\ next \in Nat
    /\ req \in [Reqs -> ReqState]
    /\ rpc \in RpcState
    /\ entry \in [Reqs -> {"none", "inflight"} \cup Replies]
    /\ stamp \in [Reqs -> 0..sequence]
    /\ sequence \in Nat
    /\ hung \in 0..(CacheCap - 1)
    /\ worker \in [Reqs -> WorkerState]
    /\ file \in [Paths -> Values \cup {Absent}]
    /\ applied \in [Reqs -> Nat]
    /\ forgot \in [Reqs -> Nat]
    /\ overwrote \subseteq Reqs
    /\ breaks \in 0..MaxBreaks
    /\ timeouts \in 0..MaxTimeouts

(***************************************************************************)
(* While a worker runs its RequestId is in the cache as in flight, and the *)
(* cache stays within its hard bound and knows which entry is older: a     *)
(* replay can never start a second worker, and nobody loses the result of  *)
(* one that runs.                                                          *)
(***************************************************************************)
InFlightIsKept ==
    /\ \A r \in Reqs : worker[r] # "none" <=> entry[r] = "inflight"
    /\ Cardinality(Entries) + hung <= CacheCap
    /\ \A r, q \in Entries : stamp[r] = stamp[q] => r = q

(***************************************************************************)
(* However often a request is sent, timed out, lost and sent again, it     *)
(* reaches the disk at most once for each time the Host has forgotten it.  *)
(***************************************************************************)
AppliedOncePerMemory == \A r \in Reqs : applied[r] <= 1 + forgot[r]

(***************************************************************************)
(* A caller that hears of success has its contents written; a caller that  *)
(* hears of a conflict from a Host that has forgotten nothing has changed  *)
(* nothing, also when the answer is that of an earlier attempt.            *)
(***************************************************************************)
ReplyTellsTruth ==
    \A r \in Reqs :
        /\ req[r].result = "ok" => applied[r] > 0
        /\ req[r].result \in {"conflict", "exists", "capacity"} /\ forgot[r] = 0
               => applied[r] = 0

(***************************************************************************)
(* A create-only write never replaces contents, whoever creates the target *)
(* between its check and its rename.                                       *)
(***************************************************************************)
CreateNeverClobbers == \A r \in overwrote : ~Creates(r)

(***************************************************************************)
(* The cache keeps what it must, within its bound, and so a request that   *)
(* is sent again is not executed again; a creation replaces nothing.       *)
(***************************************************************************)
ReplayIsExact ==
    TypeOK /\ InFlightIsKept /\ AppliedOncePerMemory /\ CreateNeverClobbers

(***************************************************************************)
(* A call that is not abandoned is answered: Timeout replies, lost         *)
(* sessions and Host restarts do not leave the loop waiting for ever.      *)
(***************************************************************************)
CallIsAnswered ==
    \A r \in Reqs : req[r].pc = "waiting" ~> req[r].pc \in {"done", "failed"}

(***************************************************************************)
(* A write or edit with a precondition replaces only what it expects.      *)
(***************************************************************************)
StaleWriteConflicts == overwrote = {}
=============================================================================
