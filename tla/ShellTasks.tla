------------------------------ MODULE ShellTasks ------------------------------
(***************************************************************************)
(* Shell tasks across reconnections.  A Host owns the processes it starts  *)
(* (HostShellService, crates/clew-host/src/shell.rs); the Controller keeps *)
(* a projection TaskId -> (device, generation, reattach deadline) in its   *)
(* hub (RemoteHub::shell_start and shell_task,                             *)
(* crates/clew-runtime/src/remote.rs).  When a session is lost the task    *)
(* lives on for a grace period on both sides, and the first use on a new   *)
(* session must prove with a Status request that the Host still has it.    *)
(*                                                                         *)
(* Each side learns of a lost connection in its own time.  Every RPC has   *)
(* three steps: the Controller sends, the Host executes, the Controller    *)
(* takes the reply or finds the session gone.  Both sides use wall-clock   *)
(* deadlines; one clock is assumed for both.                               *)
(***************************************************************************)
EXTENDS RemoteHub

CONSTANTS
    Calls,          \* concurrent Local API calls
    HostCap,        \* HARD_MAX_SHELL_TASKS_PER_SESSION
    MaxConns,       \* bound: sessions established
    MaxTime,        \* bound: ticks of the clock
    MaxRestarts     \* bound: restarts of a Host process

ASSUME ShellAssumption ==
    /\ IsFiniteSet(Calls)
    /\ HostCap \in Nat /\ MaxConns \in Nat /\ MaxTime \in Nat /\ MaxRestarts \in Nat

VARIABLES
    hub,            \* RemoteHubState
    alive,          \* sessions whose handle_member loop is running
    now,            \* wall clock
    host,           \* HostShellServiceInner and its session, per device
    task,           \* HostShellTaskEntry, per task
    call,           \* shell_start / shell_task futures
    delivered,      \* history: tasks whose Started reply a caller received
    epochOf,        \* history: the Host epoch behind each generation
    restarts

vars == <<hub, alive, now, host, task, call, delivered, epochOf, restarts>>

None == "none"
Ops == {"status", "attach", "cancel"}

Timer == [epoch : Nat, deadline : Nat]
HostState == [up : BOOLEAN, epoch : Nat, gen : Nat, timers : SUBSET Timer]
\* phase: "none" before it is started, "gone" once the Host has forgotten it.
TaskState == [phase : {"none", "running", "ended", "gone"},
              dev : Devices \cup {None}, born : Nat, confirmed : Nat]
(***************************************************************************)
(* pc     where the future is suspended                                    *)
(* why    what the enclosing code does with shell_task's result            *)
(* op     the request on its way; task, dev: what it is about              *)
(* gen    the generation whose channel it holds                            *)
(* snap   the projection copied at the lookup                              *)
(* reply  what the Host answered, None while it has not                    *)
(* heard  whether the Local API caller still waits                         *)
(***************************************************************************)
CallState == [pc : {"idle", "start", "insert", "lookup", "await", "proof", "send",
                    "drop", "done"},
              why : {None, "receipt", "cleanup", "caller"},
              op : Ops \cup {"start", None}, task : Tasks \cup {None},
              dev : Devices \cup {None}, gen : Nat,
              snap : Projection \cup {NoProjection},
              reply : {None, "ok", "notfound", "error"}, heard : BOOLEAN]

Idle == [pc |-> "idle", why |-> None, op |-> None, task |-> None, dev |-> None, gen |-> 0,
         snap |-> NoProjection, reply |-> None, heard |-> TRUE]

Init ==
    /\ hub = HubInit
    /\ alive = {}
    /\ now = 0
    /\ host = [d \in Devices |-> [up |-> FALSE, epoch |-> 0, gen |-> 0, timers |-> {}]]
    /\ task = [t \in Tasks |-> [phase |-> "none", dev |-> None, born |-> 0, confirmed |-> 0]]
    /\ call = [k \in Calls |-> Idle]
    /\ delivered = {}
    /\ epochOf = [g \in 1..MaxConns |-> 0]
    /\ restarts = 0

-----------------------------------------------------------------------------
(* Sessions *)

\* The Host's inner session is up (attach_session) and the Controller
\* registers it; no RPC can be sent between the two.
Connect(d) ==
    /\ ~host[d].up
    /\ hub.next < MaxConns
    /\ hub' = Register(hub, d, now)
    /\ alive' = alive \cup {[dev |-> d, gen |-> hub'.next]}
    /\ host' = [host EXCEPT ![d].up = TRUE, ![d].epoch = @ + 1, ![d].gen = hub'.next]
    /\ epochOf' = [epochOf EXCEPT ![hub'.next] = host[d].epoch + 1]
    /\ UNCHANGED <<now, task, call, delivered, restarts>>

\* The Controller's handler of session s ends: the connection broke, an RPC
\* or heartbeat failed, or a newer generation told it to stop.
ControllerDetach(s) ==
    /\ s \in alive
    /\ hub' = Unregister(hub, s.dev, s.gen, now)
    /\ alive' = alive \ {s}
    /\ UNCHANGED <<now, host, task, call, delivered, epochOf, restarts>>

Ended(T) == [t \in Tasks |-> IF t \in T THEN [task[t] EXCEPT !.phase = "ended"] ELSE task[t]]
Running(d) == {t \in Tasks : task[t].phase = "running" /\ task[t].dev = d}

\* HostShellSessionGuard::drop: tasks of this epoch nobody has asked about are
\* cancelled at once, the others get the grace period.
HostDetach(d) ==
    /\ host[d].up
    /\ host' = [host EXCEPT ![d].up = FALSE,
                            ![d].timers = @ \cup {[epoch |-> host[d].epoch,
                                                   deadline |-> now + Grace]}]
    /\ task' = Ended({t \in Running(d) : /\ task[t].born = host[d].epoch
                                         /\ task[t].confirmed = 0})
    /\ UNCHANGED <<hub, alive, now, call, delivered, epochOf, restarts>>

\* A timer that spares every task once the network is back.
DueReconnected(d, tm) ==
    {t \in Running(d) : task[t].born <= tm.epoch /\ host[d].epoch = tm.epoch}
\* The tasks an expired grace timer cancels: they existed at the detach and
\* no newer epoch has asked for them.
Due(d, tm) ==
    {t \in Running(d) : task[t].born <= tm.epoch /\ task[t].confirmed <= tm.epoch}

\* schedule_reconnect_grace, when wait_for_wall_deadline returns.
GraceEnds(d) ==
    \E tm \in host[d].timers :
        /\ now >= tm.deadline
        /\ task' = Ended(Due(d, tm))
        /\ host' = [host EXCEPT ![d].timers = @ \ {tm}]
        /\ UNCHANGED <<hub, alive, now, call, delivered, epochOf, restarts>>

\* run_child: the process exits or its own timeout kills it.
ChildEnds(t) ==
    /\ task[t].phase = "running"
    /\ task' = Ended({t})
    /\ UNCHANGED <<hub, alive, now, host, call, delivered, epochOf, restarts>>

\* A new Host process knows no task, no timer and no epoch.
HostRestart(d) ==
    /\ restarts < MaxRestarts
    /\ restarts' = restarts + 1
    /\ host' = [host EXCEPT ![d] = [up |-> FALSE, epoch |-> 0, gen |-> 0, timers |-> {}]]
    /\ task' = [t \in Tasks |-> IF task[t].dev = d THEN [task[t] EXCEPT !.phase = "gone"]
                                ELSE task[t]]
    /\ UNCHANGED <<hub, alive, now, call, delivered, epochOf>>

Tick ==
    /\ now < MaxTime
    /\ now' = now + 1
    /\ UNCHANGED <<hub, alive, host, task, call, delivered, epochOf, restarts>>

-----------------------------------------------------------------------------
(* RPCs: pc "start", "proof" or "send" means a command is out on gen. *)

Sending(k) == call[k].pc \in {"start", "proof", "send"}
Served(k) == [dev |-> call[k].dev, gen |-> call[k].gen] \in alive

\* The Host executes one request at a time per session.
Reaches(k) ==
    LET c == call[k]
    IN  /\ Sending(k)
        /\ c.reply = None
        /\ Served(k)
        /\ host[c.dev].up /\ host[c.dev].gen = c.gen
        /\ \A j \in Calls : Sending(j) /\ call[j].gen = c.gen => call[j].reply = None

Replied(k, r) == call' = [call EXCEPT ![k].reply = r]

Stored(d) == {t \in Tasks : task[t].dev = d /\ task[t].phase \in {"running", "ended"}}

\* HostShellService::start: prune terminal tasks at capacity, spawn, remember.
HostStart(k) ==
    LET d == call[k].dev
    IN  /\ Reaches(k)
        /\ call[k].pc = "start"
        /\ \E t \in Tasks, Forget \in SUBSET (Stored(d) \ Running(d)) :
              /\ task[t].phase = "none"
              /\ Forget = {} \/ Cardinality(Stored(d) \ Forget) = HostCap - 1
              /\ Cardinality(Stored(d) \ Forget) < HostCap
              /\ task' = [u \in Tasks |->
                    IF u = t THEN [phase |-> "running", dev |-> d,
                                   born |-> host[d].epoch, confirmed |-> 0]
                    ELSE IF u \in Forget THEN [task[u] EXCEPT !.phase = "gone"]
                    ELSE task[u]]
              /\ call' = [call EXCEPT ![k].reply = "ok", ![k].task = t]
        /\ UNCHANGED <<hub, alive, now, host, delivered, epochOf, restarts>>

\* Denied, Capacity or SpawnFailed.
HostRefuses(k) ==
    /\ Reaches(k)
    /\ call[k].pc = "start"
    /\ Replied(k, "error")
    /\ UNCHANGED <<hub, alive, now, host, task, delivered, epochOf, restarts>>

\* HostShellService::status, attach and cancel.  Status and Attach confirm the
\* task for the current epoch (confirmed_task_state); Cancel does not.
HostAnswers(k) ==
    LET c == call[k]
        what == IF c.pc = "proof" THEN "status" ELSE c.op
        known == task[c.task].phase \in {"running", "ended"}
    IN  /\ Reaches(k)
        /\ c.pc \in {"proof", "send"}
        /\ task' = IF ~known THEN task
                   ELSE IF what = "cancel" THEN Ended({c.task})
                   ELSE [task EXCEPT ![c.task].confirmed = host[c.dev].epoch]
        /\ Replied(k, IF known THEN "ok" ELSE "notfound")
        /\ UNCHANGED <<hub, alive, now, host, delivered, epochOf, restarts>>

\* A follow-up whose caller left is only a command in the session's queue.
Unheard(k) == call[k].why = "caller" /\ ~call[k].heard
Answered(k) == Sending(k) /\ call[k].reply # None /\ Served(k) /\ ~Unheard(k)
\* The handler dropped the reply channel.
Lost(k) == Sending(k) /\ ~Served(k) /\ ~Unheard(k)

-----------------------------------------------------------------------------
(* RemoteHub::shell_start *)

\* Reserve a projection and send the command, if the device is online.
StartReserve(k, d) ==
    LET proj == Prune(hub.proj, now)
        free == Cardinality({t \in Tasks : proj[t] # NoProjection}) + hub.pending < Cap
    IN  /\ call[k].pc = "idle"
        /\ hub.session[d] # Offline
        /\ free
        /\ hub' = [hub EXCEPT !.proj = proj, !.pending = @ + 1]
        /\ call' = [call EXCEPT ![k] = [Idle EXCEPT !.pc = "start", !.op = "start", !.dev = d,
                                                    !.gen = hub.session[d]]]
        /\ UNCHANGED <<alive, now, host, task, delivered, epochOf, restarts>>

\* The completion task has the reply and releases the reservation before it
\* takes the lock again to insert the projection.
StartReplied(k) ==
    /\ Answered(k) /\ call[k].pc = "start"
    /\ hub' = [hub EXCEPT !.pending = @ - 1]
    /\ call' = [call EXCEPT ![k].pc = IF call[k].reply = "ok" THEN "insert" ELSE "done",
                            ![k].reply = None]
    /\ UNCHANGED <<alive, now, host, task, delivered, epochOf, restarts>>

\* A start whose reservation is not given back when the session is lost.
StartLostLeaks(k) ==
    /\ Lost(k) /\ call[k].pc = "start"
    /\ call' = [call EXCEPT ![k].pc = "done", ![k].task = None, ![k].reply = None]
    /\ UNCHANGED <<hub, alive, now, host, task, delivered, epochOf, restarts>>
\* The reply is lost: nobody learns the TaskId, and Start is never replayed.
StartLost(k) ==
    /\ Lost(k) /\ call[k].pc = "start"
    /\ hub' = [hub EXCEPT !.pending = @ - 1]
    /\ call' = [call EXCEPT ![k].pc = "done", ![k].task = None, ![k].reply = None]
    /\ UNCHANGED <<alive, now, host, task, delivered, epochOf, restarts>>

Begin(k, why, op) == [call[k] EXCEPT !.pc = "lookup", !.why = why, !.op = op, !.reply = None]

\* An insertion that does not look whether the session is still the same.
StartInsertAny(k) ==
    LET c == call[k]
    IN  /\ c.pc = "insert"
        /\ hub' = [hub EXCEPT !.proj[c.task] = [dev |-> c.dev, gen |-> c.gen,
                                                deadline |-> NoDeadline]]
        /\ call' = [call EXCEPT ![k] = Begin(k, "receipt", "status")]
        /\ UNCHANGED <<alive, now, host, task, delivered, epochOf, restarts>>
\* A start that is reported to the caller without asking the Host again.
StartInsertNoReceipt(k) ==
    LET c == call[k]
    IN  /\ c.pc = "insert"
        /\ hub.session[c.dev] = c.gen
        /\ hub' = [hub EXCEPT !.proj[c.task] = [dev |-> c.dev, gen |-> c.gen,
                                                deadline |-> NoDeadline]]
        /\ call' = [call EXCEPT ![k].pc = "done"]
        /\ delivered' = delivered \cup {c.task}
        /\ UNCHANGED <<alive, now, host, task, epochOf, restarts>>
\* Insert the projection if the session is still the one that started the
\* task, and ask the Host for a receipt; otherwise try to cancel the task.
StartInsert(k) ==
    LET c == call[k]
        same == hub.session[c.dev] = c.gen
    IN  /\ c.pc = "insert"
        /\ hub' = IF same THEN [hub EXCEPT !.proj[c.task] = [dev |-> c.dev, gen |-> c.gen,
                                                             deadline |-> NoDeadline]]
                  ELSE hub
        /\ call' = [call EXCEPT ![k] = IF same THEN Begin(k, "receipt", "status")
                                       ELSE Begin(k, "cleanup", "cancel")]
        /\ UNCHANGED <<alive, now, host, task, delivered, epochOf, restarts>>

\* The Local API timeout drops the caller's future.  The completion task of a
\* start goes on; a follow-up ends, but a command it has sent stays queued.
CallerLeaves(k) ==
    LET c == call[k]
    IN  /\ c.heard
        /\ c.pc \notin {"idle", "done"}
        /\ c.why # "cleanup"
        /\ call' = [call EXCEPT ![k].heard = FALSE,
                                ![k].pc = IF c.why = "caller" /\ ~Sending(k) THEN "done" ELSE @]
        /\ UNCHANGED <<hub, alive, now, host, task, delivered, epochOf, restarts>>

\* The reply to such a command has no receiver.
ReplyUnheard(k) ==
    /\ Sending(k) /\ Unheard(k)
    /\ call[k].reply # None \/ ~Served(k)
    /\ call' = [call EXCEPT ![k].pc = "done"]
    /\ UNCHANGED <<hub, alive, now, host, task, delivered, epochOf, restarts>>

\* A clean-up that gives back a reservation already released.
StartDropReleases(k) ==
    LET c == call[k]
    IN  /\ c.pc = "drop"
        /\ hub' = [hub EXCEPT !.proj[c.task] = NoProjection, !.pending = @ - 1]
        /\ call' = [call EXCEPT ![k].pc = "done"]
        /\ UNCHANGED <<alive, now, host, task, delivered, epochOf, restarts>>
\* After the clean-up's Cancel, whatever it returned.
StartDrop(k) ==
    LET c == call[k]
    IN  /\ c.pc = "drop"
        /\ hub' = IF hub.proj[c.task].dev = c.dev
                  THEN [hub EXCEPT !.proj[c.task] = NoProjection] ELSE hub
        /\ call' = [call EXCEPT ![k].pc = "done"]
        /\ UNCHANGED <<alive, now, host, task, delivered, epochOf, restarts>>

-----------------------------------------------------------------------------
(* RemoteHub::shell_task *)

\* What the code around shell_task does with its result.  (A Status receipt
\* that the Host answers with an error is no success.)
Returns(k, ok) ==
    LET c == call[k]
        good == ok /\ c.heard
    IN  /\ call' = [call EXCEPT ![k] =
            IF c.why = "caller" \/ (c.why = "receipt" /\ good) THEN [c EXCEPT !.pc = "done"]
            ELSE IF c.why = "receipt" THEN Begin(k, "cleanup", "cancel")
            ELSE [c EXCEPT !.pc = "drop"]]
        /\ delivered' = IF c.why = "receipt" /\ good
                        THEN delivered \cup {c.task} ELSE delivered

\* A caller uses a TaskId it was given (ShellStatus, ShellAttach, ShellCancel).
FollowUp(k, t, op) ==
    /\ call[k].pc = "idle"
    /\ t \in delivered
    /\ call' = [call EXCEPT ![k] = [Idle EXCEPT !.pc = "lookup", !.why = "caller",
                                                !.op = op, !.task = t]]
    /\ UNCHANGED <<hub, alive, now, host, task, delivered, epochOf, restarts>>

\* Prune, then copy the projection; the device comes from it, never from the
\* caller.
Lookup(k) ==
    LET proj == Prune(hub.proj, now)
        p == proj[call[k].task]
    IN  /\ call[k].pc = "lookup"
        /\ hub' = [hub EXCEPT !.proj = proj]
        /\ IF p = NoProjection
           THEN Returns(k, FALSE)
           ELSE /\ call' = [call EXCEPT ![k].pc = "await", ![k].snap = p, ![k].dev = p.dev]
                /\ UNCHANGED delivered
        /\ UNCHANGED <<alive, now, host, task, epochOf, restarts>>

\* replay_session_after(device, None): any session will do; one that is not
\* the projection's own is asked for a proof first.
GotSession(k) ==
    LET c == call[k]
        g == hub.session[c.dev]
    IN  /\ c.pc = "await"
        /\ g # Offline
        /\ call' = [call EXCEPT ![k].pc = IF g = c.snap.gen THEN "send" ELSE "proof",
                                ![k].gen = g, ![k].reply = None]
        /\ UNCHANGED <<hub, alive, now, host, task, delivered, epochOf, restarts>>

\* The copied deadline passes with the device offline: the projection goes.
AwaitTimesOut(k) ==
    LET c == call[k]
    IN  /\ c.pc = "await"
        /\ c.snap.deadline # NoDeadline
        /\ now >= c.snap.deadline
        /\ hub.session[c.dev] = Offline
        /\ hub' = [hub EXCEPT !.proj[c.task] = NoProjection]
        /\ Returns(k, FALSE)
        /\ UNCHANGED <<alive, now, host, task, epochOf, restarts>>

\* The conditions under which a Status proof rebinds the projection.
MayRebind(c) == hub.session[c.dev] = c.gen /\ hub.proj[c.task].dev = c.dev

\* The reply to the proof.
Proved(k) ==
    LET c == call[k]
    IN  /\ Answered(k) /\ c.pc = "proof"
        /\ IF c.reply = "notfound"
           THEN /\ hub' = [hub EXCEPT !.proj[c.task] = NoProjection]
                /\ Returns(k, FALSE)
           ELSE IF ~MayRebind(c)
           THEN Returns(k, FALSE) /\ UNCHANGED hub
           ELSE /\ hub' = [hub EXCEPT !.proj[c.task] = [dev |-> c.dev, gen |-> c.gen,
                                                        deadline |-> NoDeadline]]
                /\ IF c.op = "status"
                   THEN Returns(k, TRUE)
                   ELSE /\ call' = [call EXCEPT ![k].pc = "send", ![k].reply = None]
                        /\ UNCHANGED delivered
        /\ UNCHANGED <<alive, now, host, task, epochOf, restarts>>

\* The reply to the request itself; a reply from a session that has been
\* replaced counts as none.
Completed(k) ==
    LET c == call[k]
    IN  /\ Answered(k) /\ c.pc = "send"
        /\ IF hub.session[c.dev] # c.gen
           THEN /\ hub' = [hub EXCEPT !.proj = Detach(@, c.dev, c.gen, now)]
                /\ Returns(k, FALSE)
           ELSE /\ hub' = IF c.reply = "notfound"
                          THEN [hub EXCEPT !.proj[c.task] = NoProjection] ELSE hub
                /\ Returns(k, c.reply = "ok")
        /\ UNCHANGED <<alive, now, host, task, epochOf, restarts>>

RpcLost(k) ==
    /\ Lost(k) /\ call[k].pc \in {"proof", "send"}
    /\ Returns(k, FALSE)
    /\ UNCHANGED <<hub, alive, now, host, task, epochOf, restarts>>

-----------------------------------------------------------------------------
Next ==
    \/ \E d \in Devices : \/ Connect(d) \/ HostDetach(d) \/ GraceEnds(d) \/ HostRestart(d)
    \/ \E s \in alive : ControllerDetach(s)
    \/ \E t \in Tasks : ChildEnds(t)
    \/ Tick
    \/ \E k \in Calls :
          \/ \E d \in Devices : StartReserve(k, d)
          \/ \E t \in Tasks, op \in Ops : FollowUp(k, t, op)
          \/ HostStart(k) \/ HostRefuses(k) \/ HostAnswers(k)
          \/ StartReplied(k) \/ StartLost(k) \/ StartInsert(k) \/ StartDrop(k)
          \/ CallerLeaves(k) \/ ReplyUnheard(k)
          \/ Lookup(k) \/ GotSession(k) \/ AwaitTimesOut(k)
          \/ Proved(k) \/ Completed(k) \/ RpcLost(k)

Spec == Init /\ [][Next]_vars

-----------------------------------------------------------------------------
TypeOK ==
    /\ hub \in HubState
    /\ alive \subseteq [dev : Devices, gen : 1..MaxConns]
    /\ now \in 0..MaxTime
    /\ host \in [Devices -> HostState]
    /\ task \in [Tasks -> TaskState]
    /\ call \in [Calls -> CallState]
    /\ delivered \subseteq Tasks
    /\ epochOf \in [1..MaxConns -> Nat]
    /\ restarts \in 0..MaxRestarts

\* The starts that hold a ShellStartReservation.
Starting == {k \in Calls : call[k].pc = "start"}

(***************************************************************************)
(* The hub counts exactly the starts that are in flight: whichever way one *)
(* ends - reply, error, lost session, a caller who left - it gives its     *)
(* reservation back once.                                                  *)
(***************************************************************************)
ReservationsCounted == hub.pending = Cardinality(Starting)

(***************************************************************************)
(* A projection without a deadline is bound to the session that is there   *)
(* now.  A session that ends or is replaced while a start, a proof or a    *)
(* follow-up is on its way leaves no projection that would never expire.   *)
(***************************************************************************)
AttachedIsLive ==
    \A t \in Projected(hub) :
        hub.proj[t].deadline = NoDeadline => hub.session[hub.proj[t].dev] = hub.proj[t].gen

(***************************************************************************)
(* The Controller believes a generation to hold a task only if the task    *)
(* was started in it or the Host has answered for it there: reconnecting   *)
(* alone never revives a projection, and never on another device.          *)
(***************************************************************************)
ReboundWasProved ==
    \A t \in Projected(hub) :
        LET p == hub.proj[t]
        IN  task[t].phase \in {"running", "ended"} =>
               /\ p.dev = task[t].dev
               /\ \/ epochOf[p.gen] = task[t].born
                  \/ epochOf[p.gen] <= task[t].confirmed

(***************************************************************************)
(* A caller holds a TaskId only of a task the Host has confirmed after     *)
(* starting it, so that the task has earned its reconnect grace.           *)
(***************************************************************************)
ReceiptBeforeDelivery ==
    \A t \in delivered : task[t].confirmed > 0

(***************************************************************************)
(* Nothing is believed of a task that its Host has not said.               *)
(***************************************************************************)
TaskIsProved == ReboundWasProved /\ ReceiptBeforeDelivery

\* Nobody at the Controller can name the task any more.
Forgotten(t) ==
    /\ hub.proj[t] = NoProjection
    /\ \A k \in Calls : call[k].task = t => call[k].pc \in {"idle", "done"}

\* The Host will cancel it: its session is over (or about to be), a pending
\* grace timer counts it, or it is unconfirmed.
Doomed(t) ==
    LET d == task[t].dev
    IN  \/ ~host[d].up
        \/ hub.session[d] # host[d].gen
        \/ \E tm \in host[d].timers : t \in Due(d, tm)

(***************************************************************************)
(* A task that was never proved in a later epoch does not outlive the      *)
(* Controller's knowledge of it: once nobody can name it, the Host is on   *)
(* its way to cancel it, whoever timed out, left or reconnected before.    *)
(* (A proof that reaches the Host while the Controller prunes the          *)
(* projection spares the task: for those the same does not hold.)          *)
(***************************************************************************)
UnprovedOrphanDies ==
    \A t \in Tasks :
        task[t].phase = "running" /\ task[t].confirmed <= task[t].born /\ Forgotten(t)
            => Doomed(t)
=============================================================================
