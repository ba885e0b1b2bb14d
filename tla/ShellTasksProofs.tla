--------------------------- MODULE ShellTasksProofs ---------------------------
(***************************************************************************)
(* For any number of devices, tasks, calls and sessions: ShellTasks is     *)
(* well typed, the hub's count of reservations is exact, no Shell          *)
(* projection stays attached to a session that has ended, nothing is       *)
(* believed of a task that its Host has not said, and a running task that  *)
(* nobody can name is about to be cancelled.                               *)
(***************************************************************************)
EXTENDS ShellTasks, FiniteSetTheorems, TLAPS

-----------------------------------------------------------------------------
(* What the methods of RemoteHub preserve, whoever calls them *)

\* No projection is left attached to a session that is gone.
ProjectionsLive(h) ==
    \A t \in Projected(h) :
        h.proj[t].deadline = NoDeadline => h.session[h.proj[t].dev] = h.proj[t].gen

\* The type of RemoteHubState::shell_tasks.
Projections == [Tasks -> Projection \cup {NoProjection}]

\* Marking detached, and pruning, keep the type of the projections.
LEMMA DetachType ==
    ASSUME NEW proj \in Projections, NEW d \in Devices, NEW g \in Nat, NEW ts \in Nat
    PROVE  Detach(proj, d, g, ts) \in Projections
<1>1. ASSUME NEW t \in Tasks, proj[t].dev = d
      PROVE  [proj[t] EXCEPT !.deadline = ts + Grace] \in Projection
  <2>1. proj[t] \in Projection
    BY <1>1, HubAssumption DEF Projections, NoProjection
  <2>2. ts + Grace \in Nat
    BY HubAssumption
  <2> QED  BY <2>1, <2>2 DEF Projection
<1> QED  BY <1>1 DEF Detach, Projections

\* Pruning keeps the type of the projections.
LEMMA PruneType ==
    ASSUME NEW proj \in Projections, NEW ts \in Nat
    PROVE  Prune(proj, ts) \in Projections
BY DEF Prune, Projections

\* RemoteHub::register keeps the type.
LEMMA RegisterType ==
    ASSUME NEW h \in HubState, NEW d \in Devices, NEW ts \in Nat
    PROVE  /\ Register(h, d, ts) \in HubState
           /\ Register(h, d, ts).next = h.next + 1
           /\ Register(h, d, ts).pending = h.pending
<1> DEFINE g == h.next + 1
<1> DEFINE p == Detach(Prune(h.proj, ts), d, h.session[d], ts)
<1>1. g \in Nat /\ h.session[d] \in Nat /\ h.proj \in Projections
  BY DEF HubState, Projections
<1>2. p \in Projections
  BY <1>1, PruneType, DetachType
<1>3. [h.session EXCEPT ![d] = g] \in [Devices -> Nat]
  BY <1>1 DEF HubState
<1>4. [gen |-> g, up |-> TRUE, path |-> g] \in SessionInfo
  BY <1>1 DEF SessionInfo
<1>5. [h.info EXCEPT ![d] = [gen |-> g, up |-> TRUE, path |-> g]] \in [Devices -> SessionInfo]
  BY <1>4 DEF HubState
<1> HIDE DEF p
<1>6. Register(h, d, ts) = [h EXCEPT !.next = g, !.session[d] = g,
                                !.info[d] = [gen |-> g, up |-> TRUE, path |-> g], !.proj = p]
  BY DEF Register, p
<1> QED  BY <1>1, <1>2, <1>3, <1>5, <1>6 DEF HubState, Projections

\* RemoteHub::unregister keeps the type.
LEMMA UnregisterType ==
    ASSUME NEW h \in HubState, NEW d \in Devices, NEW g \in Nat, NEW ts \in Nat
    PROVE  /\ Unregister(h, d, g, ts) \in HubState
           /\ Unregister(h, d, g, ts).next = h.next
           /\ Unregister(h, d, g, ts).pending = h.pending
<1> DEFINE p == Detach(h.proj, d, h.session[d], ts)
<1> DEFINE up == IF h.info[d].gen = h.session[d] THEN FALSE ELSE h.info[d].up
<1>1. h.session[d] \in Nat /\ h.proj \in Projections /\ up \in BOOLEAN
  BY DEF HubState, Projections, SessionInfo
<1>2. p \in Projections
  BY <1>1, DetachType
<1>3. [h.session EXCEPT ![d] = Offline] \in [Devices -> Nat]
  BY DEF HubState, Offline
<1>4. [h.info EXCEPT ![d].up = up] \in [Devices -> SessionInfo]
  BY ZenonT(60), <1>1 DEF HubState, SessionInfo
<1>5. EmptySlot(h, d, ts) = [h EXCEPT !.session[d] = Offline, !.info[d].up = up, !.proj = p]
  BY DEF EmptySlot
<1> HIDE DEF p, up
<1>6. /\ EmptySlot(h, d, ts) \in HubState
      /\ EmptySlot(h, d, ts).next = h.next
      /\ EmptySlot(h, d, ts).pending = h.pending
  BY <1>2, <1>3, <1>4, <1>5 DEF HubState, Projections
<1> QED  BY <1>6 DEF Unregister

\* The initial hub is well typed.
LEMMA HubInitType == HubInit \in HubState /\ ProjectionsLive(HubInit)
<1>1. HubInit \in HubState
  BY DEF HubInit, HubState, SessionInfo, Offline
<1>2. Projected(HubInit) = {}
  BY DEF Projected, HubInit
<1> QED  BY <1>1, <1>2 DEF ProjectionsLive

\* After marking what generation g of d held, nothing attached to it is left,
\* and everything else is as before.
LEMMA DetachLive ==
    ASSUME NEW proj \in Projections, NEW d \in Devices, NEW g \in Nat, NEW ts \in Nat,
           NEW t \in Tasks,
           Detach(proj, d, g, ts)[t].deadline = NoDeadline
    PROVE  /\ Detach(proj, d, g, ts)[t] = proj[t]
           /\ proj[t].dev = d => proj[t].gen # g
<1>1. ts + Grace # NoDeadline
  BY HubAssumption DEF NoDeadline
<1>2. ASSUME proj[t].dev = d, proj[t].gen = g
      PROVE  FALSE
  <2>1. proj[t] \in Projection
    BY <1>2, HubAssumption DEF Projections, NoProjection
  <2>2. Detach(proj, d, g, ts)[t] = [proj[t] EXCEPT !.deadline = ts + Grace]
    BY <1>2 DEF Detach
  <2> QED  BY <1>1, <2>1, <2>2 DEF Projection
<1> QED  BY <1>2 DEF Detach

\* RemoteHub::register leaves no projection attached to the replaced session.
LEMMA RegisterLive ==
    ASSUME NEW h \in HubState, NEW d \in Devices, NEW ts \in Nat, ProjectionsLive(h)
    PROVE  ProjectionsLive(Register(h, d, ts))
<1> DEFINE q == Prune(h.proj, ts)
<1> DEFINE p == Detach(q, d, h.session[d], ts)
<1> DEFINE s == [h.session EXCEPT ![d] = h.next + 1]
<1>1. h.session \in [Devices -> Nat] /\ h.proj \in Projections /\ q \in Projections
  BY PruneType DEF HubState, Projections
<1>2. Register(h, d, ts).proj = p /\ Register(h, d, ts).session = s
  BY DEF Register, HubState
<1>3. ASSUME NEW t \in Tasks, p[t] # NoProjection, p[t].deadline = NoDeadline
      PROVE  s[p[t].dev] = p[t].gen
  <2> HIDE DEF p, q
  <2>1. p[t] = q[t] /\ (q[t].dev = d => q[t].gen # h.session[d])
    BY <1>1, <1>3, DetachLive DEF p
  <2>2. q[t] = h.proj[t]
    BY <1>3, <2>1 DEF q, Prune
  <2>3. h.proj[t] \in Projection /\ h.session[h.proj[t].dev] = h.proj[t].gen
    BY <1>1, <1>3, <2>1, <2>2 DEF Projections, ProjectionsLive, Projected
  <2>4. h.proj[t].dev \in Devices /\ h.proj[t].dev # d
    BY <2>1, <2>2, <2>3 DEF Projection
  <2> QED  BY <1>1, <2>1, <2>2, <2>3, <2>4
<1> QED  BY <1>2, <1>3 DEF ProjectionsLive, Projected

\* RemoteHub::unregister detaches everything that session held.
LEMMA UnregisterLive ==
    ASSUME NEW h \in HubState, NEW d \in Devices, NEW g \in Nat, NEW ts \in Nat,
           ProjectionsLive(h)
    PROVE  ProjectionsLive(Unregister(h, d, g, ts))
<1> DEFINE p == Detach(h.proj, d, h.session[d], ts)
<1> DEFINE s == [h.session EXCEPT ![d] = Offline]
<1>1. h.session \in [Devices -> Nat] /\ h.proj \in Projections
  BY DEF HubState, Projections
<1>2. EmptySlot(h, d, ts).proj = p /\ EmptySlot(h, d, ts).session = s
  BY DEF EmptySlot, HubState
<1>3. ASSUME NEW t \in Tasks, p[t] # NoProjection, p[t].deadline = NoDeadline
      PROVE  s[p[t].dev] = p[t].gen
  <2> HIDE DEF p
  <2>1. p[t] = h.proj[t] /\ (h.proj[t].dev = d => h.proj[t].gen # h.session[d])
    BY <1>1, <1>3, DetachLive DEF p
  <2>2. h.proj[t] \in Projection /\ h.session[h.proj[t].dev] = h.proj[t].gen
    BY <1>1, <1>3, <2>1 DEF Projections, ProjectionsLive, Projected
  <2>3. h.proj[t].dev \in Devices /\ h.proj[t].dev # d
    BY <2>1, <2>2 DEF Projection
  <2> QED  BY <1>1, <2>1, <2>2, <2>3
<1>4. ProjectionsLive(EmptySlot(h, d, ts))
  BY <1>2, <1>3 DEF ProjectionsLive, Projected
<1> QED  BY <1>4 DEF Unregister

\* Writing one projection: it may be attached only to the session in the slot.
LEMMA ProjectLive ==
    ASSUME NEW h \in HubState, NEW t \in Tasks, NEW x \in Projection \cup {NoProjection},
           x # NoProjection /\ x.deadline = NoDeadline => h.session[x.dev] = x.gen,
           ProjectionsLive(h)
    PROVE  /\ [h EXCEPT !.proj[t] = x] \in HubState
           /\ [h EXCEPT !.proj[t] = x].pending = h.pending
           /\ ProjectionsLive([h EXCEPT !.proj[t] = x])
<1> DEFINE n == [h EXCEPT !.proj[t] = x]
<1>1. n.session = h.session /\ n.pending = h.pending /\ n.proj = [h.proj EXCEPT ![t] = x]
  BY DEF HubState
<1>2. n \in HubState
  BY DEF HubState
<1>3. ASSUME NEW u \in Tasks, n.proj[u] # NoProjection, n.proj[u].deadline = NoDeadline
      PROVE  n.session[n.proj[u].dev] = n.proj[u].gen
  <2> HIDE DEF n
  <2>1. CASE u = t
    BY <1>1, <1>3, <2>1 DEF HubState
  <2>2. CASE u # t
    BY <1>1, <1>3, <2>2 DEF HubState, ProjectionsLive, Projected
  <2> QED  BY <2>1, <2>2
<1> QED  BY <1>1, <1>2, <1>3 DEF ProjectionsLive, Projected

\* prune_expired_shell_projections only removes.
LEMMA PruneLive ==
    ASSUME NEW h \in HubState, NEW ts \in Nat, ProjectionsLive(h)
    PROVE  /\ [h EXCEPT !.proj = Prune(h.proj, ts)] \in HubState
           /\ [h EXCEPT !.proj = Prune(h.proj, ts)].pending = h.pending
           /\ ProjectionsLive([h EXCEPT !.proj = Prune(h.proj, ts)])
<1> DEFINE p == Prune(h.proj, ts)
<1> DEFINE n == [h EXCEPT !.proj = p]
<1>1. p \in Projections
  BY PruneType DEF HubState, Projections
<1>2. \A t \in Tasks : p[t] # NoProjection => p[t] = h.proj[t]
  BY DEF Prune
<1> HIDE DEF p
<1>3. n \in HubState /\ n.session = h.session /\ n.pending = h.pending /\ n.proj = p
  BY <1>1 DEF HubState, Projections
<1>4. ProjectionsLive(n)
  BY <1>2, <1>3 DEF ProjectionsLive, Projected
<1> QED  BY <1>3, <1>4 DEF p

\* mark_shell_projections_detached only adds deadlines.
LEMMA DetachHubLive ==
    ASSUME NEW h \in HubState, NEW d \in Devices, NEW g \in Nat, NEW ts \in Nat,
           ProjectionsLive(h)
    PROVE  /\ [h EXCEPT !.proj = Detach(h.proj, d, g, ts)] \in HubState
           /\ [h EXCEPT !.proj = Detach(h.proj, d, g, ts)].pending = h.pending
           /\ ProjectionsLive([h EXCEPT !.proj = Detach(h.proj, d, g, ts)])
<1> DEFINE p == Detach(h.proj, d, g, ts)
<1> DEFINE n == [h EXCEPT !.proj = p]
<1>1. h.proj \in Projections /\ p \in Projections
  BY DetachType DEF HubState, Projections
<1>2. \A t \in Tasks : p[t].deadline = NoDeadline => p[t] = h.proj[t]
  BY <1>1, DetachLive
<1> HIDE DEF p
<1>3. n \in HubState /\ n.session = h.session /\ n.pending = h.pending /\ n.proj = p
  BY <1>1 DEF HubState, Projections
<1>4. ProjectionsLive(n)
  BY <1>2, <1>3 DEF ProjectionsLive, Projected
<1> QED  BY <1>3, <1>4 DEF p

\* Projections p are some of those in q, on the same device and generation.
Narrower(p, q) ==
    \A t \in Tasks : p[t] # NoProjection => /\ q[t] # NoProjection
                                            /\ p[t].dev = q[t].dev /\ p[t].gen = q[t].gen

\* Detaching and pruning invent no projection and move none.
LEMMA DetachNarrows ==
    ASSUME NEW proj \in Projections, NEW d \in Devices, NEW g \in Nat, NEW ts \in Nat
    PROVE  Narrower(Detach(proj, d, g, ts), proj)
<1>1. ASSUME NEW t \in Tasks, proj[t].dev = d, proj[t].gen = g
      PROVE  /\ proj[t] # NoProjection
             /\ Detach(proj, d, g, ts)[t].dev = proj[t].dev
             /\ Detach(proj, d, g, ts)[t].gen = proj[t].gen
  <2>1. proj[t] \in Projection /\ proj[t] # NoProjection
    BY <1>1, HubAssumption DEF Projections, NoProjection
  <2> QED  BY <1>1, <2>1 DEF Detach, Projection
<1>2. ASSUME NEW t \in Tasks, ~(proj[t].dev = d /\ proj[t].gen = g)
      PROVE  Detach(proj, d, g, ts)[t] = proj[t]
  BY <1>2 DEF Detach
<1> QED  BY <1>1, <1>2 DEF Narrower

\* Pruning only forgets.
LEMMA PruneNarrows ==
    ASSUME NEW proj, NEW ts
    PROVE  Narrower(Prune(proj, ts), proj)
BY DEF Narrower, Prune

\* A new session takes over no projection: RemoteHub::register.
LEMMA RegisterNarrows ==
    ASSUME NEW h \in HubState, NEW d \in Devices, NEW ts \in Nat
    PROVE  /\ Narrower(Register(h, d, ts).proj, h.proj)
           /\ Register(h, d, ts).session = [h.session EXCEPT ![d] = h.next + 1]
<1> DEFINE q == Prune(h.proj, ts)
<1>1. q \in Projections /\ h.session[d] \in Nat
  BY PruneType DEF HubState, Projections
<1>2. Narrower(Detach(q, d, h.session[d], ts), q) /\ Narrower(q, h.proj)
  BY <1>1, DetachNarrows, PruneNarrows
<1>3. /\ Register(h, d, ts).proj = Detach(q, d, h.session[d], ts)
      /\ Register(h, d, ts).session = [h.session EXCEPT ![d] = h.next + 1]
  BY DEF Register, HubState
<1> HIDE DEF q
<1> QED  BY <1>2, <1>3 DEF Narrower

\* Nor does the end of one: RemoteHub::unregister.
LEMMA UnregisterNarrows ==
    ASSUME NEW h \in HubState, NEW d \in Devices, NEW g \in Nat, NEW ts \in Nat
    PROVE  /\ Narrower(Unregister(h, d, g, ts).proj, h.proj)
           /\ \A e \in Devices : Unregister(h, d, g, ts).session[e] \in {h.session[e], Offline}
<1>1. h.session \in [Devices -> Nat] /\ h.proj \in Projections
  BY DEF HubState, Projections
<1>2. CASE h.session[d] = g
  <2>1. /\ Unregister(h, d, g, ts).proj = Detach(h.proj, d, h.session[d], ts)
        /\ Unregister(h, d, g, ts).session = [h.session EXCEPT ![d] = Offline]
    BY <1>2 DEF Unregister, EmptySlot, HubState
  <2> QED  BY <1>1, <2>1, DetachNarrows
<1>3. CASE h.session[d] # g
  BY <1>3 DEF Unregister, Narrower
<1> QED  BY <1>2, <1>3

-----------------------------------------------------------------------------
(* The invariants *)

\* What a suspended shell_start or shell_task future holds.
CallShape(c) ==
    /\ c \in CallState
    /\ c.pc \in {"start", "insert", "await", "proof", "send"} => c.dev \in Devices
    /\ c.pc \in {"insert", "lookup", "await", "proof", "send", "drop"} => c.task \in Tasks
    /\ c.pc = "start" /\ c.reply = "ok" => c.task \in Tasks
    /\ c.pc \in {"lookup", "await", "proof", "send"} => c.why # None
    /\ c.pc \in {"start", "insert"} => c.why = None

CallsOK == /\ DOMAIN call = Calls
           /\ call = [k \in Calls |-> call[k]]
           /\ \A k \in Calls : CallShape(call[k])
HubOK == hub \in HubState /\ ProjectionsLive(hub)
RestOK ==
    /\ alive \subseteq [dev : Devices, gen : 1..MaxConns]
    /\ now \in 0..MaxTime
    /\ host \in [Devices -> HostState]
    /\ task \in [Tasks -> TaskState]
    /\ delivered \subseteq Tasks
    /\ epochOf \in [1..MaxConns -> Nat]
    /\ restarts \in 0..MaxRestarts

\* The inductive invariant.
IInv == HubOK /\ CallsOK /\ ReservationsCounted /\ RestOK

\* It implies the properties that are checked.
LEMMA IInvImplies == IInv => TypeOK /\ ReservationsCounted /\ AttachedIsLive
<1> SUFFICES ASSUME IInv PROVE TypeOK /\ ReservationsCounted /\ AttachedIsLive
  OBVIOUS
<1>1. call \in [Calls -> CallState]
  BY DEF IInv, CallsOK, CallShape
<1> QED
  BY <1>1 DEF IInv, HubOK, RestOK, TypeOK, AttachedIsLive, ProjectionsLive

\* Both ends start empty.
LEMMA InitIInv == Init => IInv
<1> SUFFICES ASSUME Init PROVE IInv
  OBVIOUS
<1>1. HubOK
  BY HubInitType DEF Init, HubOK
<1>2. Idle \in CallState /\ CallShape(Idle)
  BY DEF Idle, CallState, CallShape, None
<1>3. CallsOK
  BY <1>2 DEF Init, CallsOK
<1>4. Starting = {}
  BY DEF Init, Starting, Idle
<1>5. ReservationsCounted
  BY <1>4, FS_EmptySet DEF Init, ReservationsCounted, HubInit
<1>6. RestOK
  BY ShellAssumption DEF Init, RestOK, HostState, TaskState, Timer
<1> QED  BY <1>1, <1>3, <1>5, <1>6 DEF IInv

\* A future moves on without starting or ending a start.
LEMMA CallMoves ==
    ASSUME CallsOK, NEW k \in Calls, NEW c,
           call' = [call EXCEPT ![k] = c],
           CallShape(c),
           (c.pc = "start") <=> (call[k].pc = "start")
    PROVE  CallsOK' /\ Starting' = Starting
<1>1. \A j \in Calls : call'[j] = IF j = k THEN c ELSE call[j]
  BY DEF CallsOK
<1> QED  BY <1>1 DEF CallsOK, Starting

\* What the code around shell_task does with its result.
LEMMA ReturnsOK ==
    ASSUME CallsOK, delivered \subseteq Tasks, NEW k \in Calls, NEW ok \in BOOLEAN,
           call[k].pc \in {"lookup", "await", "proof", "send"},
           Returns(k, ok)
    PROVE  CallsOK' /\ Starting' = Starting /\ delivered' \subseteq Tasks
<1> DEFINE c == call[k]
<1>1. CallShape(c) /\ c \in CallState
  BY DEF CallsOK, CallShape
<1>2. c.task \in Tasks /\ c.why \in {"caller", "receipt", "cleanup"} /\ c.heard \in BOOLEAN
  BY <1>1 DEF CallShape, CallState
<1>3. delivered' \subseteq Tasks
  BY <1>2 DEF Returns
<1> DEFINE good == ok /\ c.heard
<1> DEFINE n == IF c.why = "caller" \/ (c.why = "receipt" /\ good)
               THEN [c EXCEPT !.pc = "done"]
               ELSE IF c.why = "receipt" THEN Begin(k, "cleanup", "cancel")
               ELSE [c EXCEPT !.pc = "drop"]
<1>4. call' = [call EXCEPT ![k] = n]
  BY DEF Returns
<1>5. CallShape(n) /\ n.pc # "start"
  BY ZenonT(60), <1>1, <1>2 DEF CallShape, CallState, Begin, Ops, None
<1> HIDE DEF n
<1> QED  BY <1>3, <1>4, <1>5, CallMoves

\* Nothing of what the future holds changes.
LEMMA CallsStay ==
    ASSUME CallsOK, UNCHANGED call
    PROVE  CallsOK' /\ Starting' = Starting
BY DEF CallsOK, Starting

\* The count of reservations stays exact when neither side of it moves.
LEMMA CountStays ==
    ASSUME ReservationsCounted, Starting' = Starting, hub'.pending = hub.pending
    PROVE  ReservationsCounted'
BY DEF ReservationsCounted

\* Cancelled or finished tasks are tasks.
LEMMA EndedType ==
    ASSUME task \in [Tasks -> TaskState], NEW T
    PROVE  Ended(T) \in [Tasks -> TaskState]
BY DEF Ended, TaskState

\* A new session: RemoteHub::register and HostShellService::attach_session.
LEMMA ConnectIInv ==
    ASSUME IInv, NEW d \in Devices, Connect(d)
    PROVE  IInv'
<1>1. hub \in HubState /\ ProjectionsLive(hub) /\ now \in Nat /\ hub.next \in Nat
  BY ShellAssumption DEF IInv, HubOK, RestOK, HubState
<1>2. /\ hub' \in HubState /\ hub'.next = hub.next + 1 /\ hub'.pending = hub.pending
      /\ ProjectionsLive(hub')
  BY <1>1, RegisterType, RegisterLive DEF Connect
<1>3. CallsOK' /\ ReservationsCounted'
  BY <1>2, CallsStay, CountStays DEF IInv, Connect
<1>4. hub'.next \in 1..MaxConns
  BY <1>1, <1>2, ShellAssumption DEF Connect
<1>5. alive' \subseteq [dev : Devices, gen : 1..MaxConns]
  BY <1>4 DEF IInv, RestOK, Connect
<1>6. host' \in [Devices -> HostState]
  BY <1>4 DEF IInv, RestOK, Connect, HostState
<1>7. epochOf' \in [1..MaxConns -> Nat]
  BY <1>4 DEF IInv, RestOK, Connect, HostState
<1> QED
  BY <1>2, <1>3, <1>5, <1>6, <1>7 DEF IInv, HubOK, RestOK, Connect

\* The end of handle_member: RemoteHub::unregister.
LEMMA ControllerDetachIInv ==
    ASSUME IInv, NEW s \in alive, ControllerDetach(s)
    PROVE  IInv'
<1>1. /\ hub \in HubState /\ ProjectionsLive(hub) /\ now \in Nat
      /\ s.dev \in Devices /\ s.gen \in Nat
  BY ShellAssumption DEF IInv, HubOK, RestOK
<1>2. /\ hub' \in HubState /\ hub'.pending = hub.pending /\ ProjectionsLive(hub')
  BY SMTT(30), <1>1, UnregisterType, UnregisterLive DEF ControllerDetach
<1>3. CallsOK' /\ ReservationsCounted'
  BY <1>2, CallsStay, CountStays DEF IInv, ControllerDetach
<1> QED  BY <1>2, <1>3 DEF IInv, HubOK, RestOK, ControllerDetach

\* The session guard, the grace timer and a restart of the Host.
LEMMA DeviceSideIInv ==
    ASSUME IInv, NEW d \in Devices, HostDetach(d) \/ GraceEnds(d) \/ HostRestart(d)
    PROVE  IInv'
<1>1. UNCHANGED <<hub, call, alive, delivered, epochOf>>
  BY DEF HostDetach, GraceEnds, HostRestart
<1>2. HubOK' /\ CallsOK' /\ ReservationsCounted'
  BY <1>1, CallsStay, CountStays DEF IInv, HubOK
<1>3. now \in Nat /\ now + Grace \in Nat /\ task \in [Tasks -> TaskState]
  BY ShellAssumption, HubAssumption DEF IInv, RestOK
<1>4. task' \in [Tasks -> TaskState]
  <2>1. CASE HostDetach(d)   BY <1>3, <2>1, EndedType DEF HostDetach
  <2>2. CASE GraceEnds(d)    BY <1>3, <2>2, EndedType DEF GraceEnds
  <2>3. CASE HostRestart(d)  BY <1>3, <2>3 DEF HostRestart, TaskState
  <2> QED  BY <2>1, <2>2, <2>3
<1>5. host' \in [Devices -> HostState]
  <2> host \in [Devices -> HostState]
    BY DEF IInv, RestOK
  <2>1. CASE HostDetach(d)
    <3> DEFINE tm == [epoch |-> host[d].epoch, deadline |-> now + Grace]
    <3>1. tm \in Timer
      BY <1>3 DEF HostState, Timer
    <3>2. host[d].timers \cup {tm} \in SUBSET Timer
      BY <3>1 DEF HostState
    <3>3. host' = [host EXCEPT ![d].up = FALSE, ![d].timers = host[d].timers \cup {tm}]
      BY <2>1 DEF HostDetach
    <3> HIDE DEF tm
    <3> QED  BY ZenonT(60), <3>2, <3>3 DEF HostState
  <2>2. CASE GraceEnds(d)    BY <2>2 DEF GraceEnds, HostState, Timer
  <2>3. CASE HostRestart(d)  BY <2>3 DEF HostRestart, HostState, Timer
  <2> QED  BY <2>1, <2>2, <2>3
<1>6. now' \in 0..MaxTime /\ restarts' \in 0..MaxRestarts
  BY ShellAssumption DEF IInv, RestOK, HostDetach, GraceEnds, HostRestart
<1> QED  BY <1>1, <1>2, <1>4, <1>5, <1>6 DEF IInv, RestOK

\* The clock, and a child that ends by itself.
LEMMA TaskSideIInv ==
    ASSUME IInv, Tick \/ \E t \in Tasks : ChildEnds(t)
    PROVE  IInv'
<1>1. UNCHANGED <<hub, call, alive, host, delivered, epochOf, restarts>>
  BY DEF ChildEnds, Tick
<1>2. HubOK' /\ CallsOK' /\ ReservationsCounted'
  BY <1>1, CallsStay, CountStays DEF IInv, HubOK
<1>3. task' \in [Tasks -> TaskState]
  BY EndedType DEF IInv, RestOK, ChildEnds, Tick
<1>4. now' \in 0..MaxTime
  <2> now \in 0..MaxTime
    BY DEF IInv, RestOK
  <2>1. CASE Tick
    BY <2>1, ShellAssumption DEF Tick
  <2>2. CASE \E t \in Tasks : ChildEnds(t)
    BY <2>2 DEF ChildEnds
  <2> QED  BY <2>1, <2>2
<1> QED  BY <1>1, <1>2, <1>3, <1>4 DEF IInv, RestOK

\* The calls hold finitely many reservations.
LEMMA StartingFinite == IsFiniteSet(Starting) /\ IsFiniteSet(Starting')
<1>1. Starting \subseteq Calls /\ Starting' \subseteq Calls
  BY DEF Starting
<1> QED  BY <1>1, ShellAssumption, FS_Subset

\* What the Host does with a request that reached it.
LEMMA HostRepliesIInv ==
    ASSUME IInv, NEW k \in Calls, HostStart(k) \/ HostRefuses(k) \/ HostAnswers(k)
    PROVE  IInv'
<1> DEFINE c == call[k]
<1>1. CallsOK /\ CallShape(c) /\ c.pc \in {"start", "proof", "send"}
  BY DEF IInv, CallsOK, HostStart, HostRefuses, HostAnswers, Reaches, Sending
<1>2. /\ c.dev \in Devices
      /\ host[c.dev].epoch \in Nat
      /\ task \in [Tasks -> TaskState]
  BY <1>1 DEF IInv, RestOK, CallShape, HostState
<1>3. /\ UNCHANGED <<hub, alive, now, host, delivered, epochOf, restarts>>
      /\ CallsOK' /\ Starting' = Starting
      /\ task' \in [Tasks -> TaskState]
  <2>1. CASE HostStart(k)
    <3>1. PICK t \in Tasks, Forget \in SUBSET (Stored(c.dev) \ Running(c.dev)) :
            /\ task' = [u \in Tasks |->
                    IF u = t THEN [phase |-> "running", dev |-> c.dev,
                                   born |-> host[c.dev].epoch, confirmed |-> 0]
                    ELSE IF u \in Forget THEN [task[u] EXCEPT !.phase = "gone"]
                    ELSE task[u]]
            /\ call' = [call EXCEPT ![k].reply = "ok", ![k].task = t]
      BY <2>1 DEF HostStart
    <3>2. task' \in [Tasks -> TaskState]
      BY ZenonT(60), <1>2, <3>1 DEF TaskState
    <3> DEFINE n == [c EXCEPT !.reply = "ok", !.task = t]
    <3>3. call' = [call EXCEPT ![k] = n]
      BY <1>1, <3>1 DEF CallsOK, CallShape, CallState
    <3>4. CallShape(n) /\ n.pc = c.pc
      BY <1>1 DEF CallShape, CallState
    <3> HIDE DEF n
    <3> QED  BY <1>1, <2>1, <3>2, <3>3, <3>4, CallMoves DEF HostStart
  <2>2. ASSUME NEW r \in {"ok", "notfound", "error"}, Replied(k, r),
               r = "ok" => c.pc # "start"
        PROVE  CallsOK' /\ Starting' = Starting
    <3> DEFINE n == [c EXCEPT !.reply = r]
    <3>1. call' = [call EXCEPT ![k] = n]
      BY <1>1, <2>2 DEF Replied, CallsOK, CallShape, CallState
    <3>2. CallShape(n) /\ n.pc = c.pc
      BY <1>1, <2>2 DEF CallShape, CallState
    <3> HIDE DEF n
    <3> QED  BY <1>1, <3>1, <3>2, CallMoves
  <2>3. CASE HostRefuses(k)
    BY <1>2, <2>2, <2>3 DEF HostRefuses
  <2>4. CASE HostAnswers(k)
    <3>1. task' \in [Tasks -> TaskState]
      <4>1. Ended({c.task}) \in [Tasks -> TaskState]
        BY <1>2, EndedType
      <4>2. [task EXCEPT ![c.task].confirmed = host[c.dev].epoch] \in [Tasks -> TaskState]
        BY <1>2 DEF TaskState
      <4> QED  BY <1>2, <2>4, <4>1, <4>2 DEF HostAnswers
    <3>2. c.pc # "start" /\ (Replied(k, "ok") \/ Replied(k, "notfound"))
      BY <2>4 DEF HostAnswers
    <3> QED  BY <2>2, <2>4, <3>1, <3>2 DEF HostAnswers
  <2> QED  BY <2>1, <2>3, <2>4
<1>4. ReservationsCounted'
  BY <1>3, CountStays DEF IInv
<1> QED  BY <1>3, <1>4 DEF IInv, HubOK, RestOK

\* shell_start takes a reservation before it sends.
LEMMA StartReserveIInv ==
    ASSUME IInv, NEW k \in Calls, NEW d \in Devices, StartReserve(k, d)
    PROVE  IInv'
<1> DEFINE h == [hub EXCEPT !.proj = Prune(hub.proj, now)]
<1> DEFINE n == [Idle EXCEPT !.pc = "start", !.op = "start", !.dev = d,
                             !.gen = hub.session[d]]
<1>1. /\ hub \in HubState /\ ProjectionsLive(hub) /\ now \in Nat
      /\ CallsOK /\ ReservationsCounted
      /\ call[k].pc = "idle" /\ hub.session[d] \in Nat
  BY ShellAssumption DEF IInv, HubOK, RestOK, StartReserve, HubState
<1>2. h \in HubState /\ h.pending = hub.pending /\ ProjectionsLive(h)
  BY <1>1, PruneLive
<1>3. hub' = [h EXCEPT !.pending = hub.pending + 1]
  BY <1>1 DEF StartReserve, HubState
<1>4. call' = [call EXCEPT ![k] = n]
  BY DEF StartReserve
<1>5. CallShape(n) /\ n.pc = "start"
  BY <1>1 DEF CallShape, CallState, Idle, None
<1> HIDE DEF h, n
<1>6. HubOK' /\ hub'.pending = hub.pending + 1
  BY <1>2, <1>3 DEF HubOK, HubState, ProjectionsLive, Projected
<1>7. \A j \in Calls : call'[j] = IF j = k THEN n ELSE call[j]
  BY <1>1, <1>4 DEF CallsOK
<1>8. CallsOK'
  BY <1>1, <1>4, <1>5, <1>7 DEF CallsOK
<1>9. Starting' = Starting \cup {k} /\ k \notin Starting
  BY <1>1, <1>5, <1>7 DEF Starting
<1>10. ReservationsCounted'
  BY <1>1, <1>6, <1>9, StartingFinite, FS_AddElement DEF ReservationsCounted
<1> QED  BY <1>6, <1>8, <1>10 DEF IInv, RestOK, StartReserve

\* Both ways the Start RPC can end give its reservation back.
LEMMA StartEndsIInv ==
    ASSUME IInv, NEW k \in Calls, StartReplied(k) \/ StartLost(k)
    PROVE  IInv'
<1> DEFINE c == call[k]
<1>1. /\ hub \in HubState /\ ProjectionsLive(hub) /\ CallsOK /\ ReservationsCounted
      /\ CallShape(c) /\ c.pc = "start"
      /\ hub' = [hub EXCEPT !.pending = @ - 1]
  BY DEF IInv, HubOK, CallsOK, StartReplied, StartLost
<1>2. PICK n : call' = [call EXCEPT ![k] = n] /\ CallShape(n) /\ n.pc # "start"
  <2>1. CASE StartReplied(k)
    <3> DEFINE n == [c EXCEPT !.pc = IF c.reply = "ok" THEN "insert" ELSE "done",
                              !.reply = None]
    <3>1. call' = [call EXCEPT ![k] = n]
      BY ZenonT(60), <1>1, <2>1 DEF StartReplied, CallsOK, CallShape, CallState
    <3>2. CallShape(n) /\ n.pc # "start"
      BY ZenonT(40), <1>1 DEF CallShape, CallState, None
    <3> HIDE DEF n
    <3> QED  BY <3>1, <3>2
  <2>2. CASE StartLost(k)
    <3> DEFINE n == [c EXCEPT !.pc = "done", !.task = None, !.reply = None]
    <3>1. call' = [call EXCEPT ![k] = n]
      BY ZenonT(60), <1>1, <2>2 DEF StartLost, CallsOK, CallShape, CallState
    <3>2. CallShape(n) /\ n.pc # "start"
      BY ZenonT(60), <1>1 DEF CallShape, CallState, None
    <3> HIDE DEF n
    <3> QED  BY <3>1, <3>2
  <2> QED  BY <2>1, <2>2
<1>3. \A j \in Calls : call'[j] = IF j = k THEN n ELSE call[j]
  BY <1>1, <1>2 DEF CallsOK
<1>4. CallsOK'
  BY <1>1, <1>2, <1>3 DEF CallsOK
<1>5. Starting' = Starting \ {k} /\ k \in Starting
  BY <1>1, <1>2, <1>3 DEF Starting
<1>6. Cardinality(Starting') = Cardinality(Starting) - 1 /\ Cardinality(Starting') \in Nat
  BY <1>5, StartingFinite, FS_RemoveElement, FS_CardinalityType
<1>7. hub'.pending = hub.pending - 1
  BY <1>1 DEF HubState
<1>8. ReservationsCounted'
  BY <1>1, <1>6, <1>7 DEF ReservationsCounted
<1>9. HubOK'
  <2>1. hub'.pending \in Nat
    BY <1>6, <1>8 DEF ReservationsCounted
  <2>2. hub' \in HubState
    BY <1>1, <2>1 DEF HubState
  <2> QED  BY <1>1, <2>2 DEF HubOK, HubState, ProjectionsLive, Projected
<1> QED  BY <1>4, <1>8, <1>9 DEF IInv, RestOK, StartReplied, StartLost

\* A projection attached to the session in the slot.
Attached(d, g) == [dev |-> d, gen |-> g, deadline |-> NoDeadline]

\* A projection bound to a session is well typed.
LEMMA AttachedType ==
    ASSUME NEW d \in Devices, NEW g \in Nat
    PROVE  Attached(d, g) \in Projection
BY DEF Attached, Projection

\* Binding a task to the session in the slot keeps the hub in order, and so
\* does forgetting it.
LEMMA BindHub ==
    ASSUME HubOK, NEW t \in Tasks, NEW d \in Devices, NEW g \in Nat, hub.session[d] = g,
           hub' = [hub EXCEPT !.proj[t] = Attached(d, g)]
    PROVE  HubOK' /\ hub'.pending = hub.pending
<1> DEFINE x == Attached(d, g)
<1>1. x \in Projection \cup {NoProjection} /\ x.dev = d /\ x.gen = g
  BY AttachedType DEF Attached
<1> HIDE DEF x
<1>2. hub' = [hub EXCEPT !.proj[t] = x]
  BY DEF x
<1> QED  BY <1>1, <1>2, ProjectLive DEF HubOK

\* Removing a projection is writing NoProjection.
LEMMA ForgetHub ==
    ASSUME HubOK, NEW t \in Tasks, hub' = [hub EXCEPT !.proj[t] = NoProjection]
    PROVE  HubOK' /\ hub'.pending = hub.pending
BY ProjectLive DEF HubOK

\* A step that leaves the hub alone.
LEMMA HubStays ==
    ASSUME HubOK, UNCHANGED hub
    PROVE  HubOK' /\ hub'.pending = hub.pending
BY DEF HubOK

\* The invariant follows from its parts when only hub, call and delivered move.
LEMMA CallStep ==
    ASSUME IInv, HubOK', hub'.pending = hub.pending, CallsOK', Starting' = Starting,
           delivered' \subseteq Tasks,
           UNCHANGED <<alive, now, host, task, epochOf, restarts>>
    PROVE  IInv'
<1>1. ReservationsCounted'
  BY CountStays DEF IInv
<1> QED  BY <1>1 DEF IInv, RestOK

\* shell_start inserts the projection of a task whose session is still current.
LEMMA StartInsertIInv ==
    ASSUME IInv, NEW k \in Calls, StartInsert(k)
    PROVE  IInv'
<1> DEFINE c == call[k]
<1> DEFINE same == hub.session[c.dev] = c.gen
<1>1. /\ CallsOK /\ HubOK /\ CallShape(c) /\ c.pc = "insert" /\ c.dev \in Devices
      /\ c.task \in Tasks /\ c.gen \in Nat
  BY DEF IInv, CallsOK, StartInsert, CallShape, CallState
<1>2. HubOK' /\ hub'.pending = hub.pending
  <2>1. CASE same
    <3>1. hub' = [hub EXCEPT !.proj[c.task] = Attached(c.dev, c.gen)]
      BY <2>1 DEF StartInsert, Attached
    <3> QED  BY <1>1, <2>1, <3>1, BindHub
  <2>2. CASE ~same
    BY <1>1, <2>2, HubStays DEF StartInsert
  <2> QED  BY <2>1, <2>2
<1> DEFINE n == IF same THEN Begin(k, "receipt", "status") ELSE Begin(k, "cleanup", "cancel")
<1>3. call' = [call EXCEPT ![k] = n]
  BY DEF StartInsert
<1>4. CallShape(n) /\ n.pc = "lookup"
  BY ZenonT(60), <1>1 DEF Begin, CallShape, CallState, Ops, None
<1> HIDE DEF n
<1>5. CallsOK' /\ Starting' = Starting
  BY <1>1, <1>3, <1>4, CallMoves
<1> QED  BY <1>2, <1>5, CallStep DEF StartInsert, IInv, RestOK

\* shell_start takes back the projection of a task whose caller has left.
LEMMA StartDropIInv ==
    ASSUME IInv, NEW k \in Calls, StartDrop(k)
    PROVE  IInv'
<1> DEFINE c == call[k]
<1>1. CallsOK /\ HubOK /\ CallShape(c) /\ c.pc = "drop" /\ c.task \in Tasks
  BY DEF IInv, CallsOK, StartDrop, CallShape
<1>2. HubOK' /\ hub'.pending = hub.pending
  BY <1>1, ForgetHub, HubStays DEF StartDrop
<1> DEFINE n == [c EXCEPT !.pc = "done"]
<1>3. call' = [call EXCEPT ![k] = n]
  BY <1>1 DEF StartDrop, CallsOK, CallShape, CallState
<1>4. CallShape(n) /\ n.pc = "done"
  BY <1>1 DEF CallShape, CallState
<1> HIDE DEF n
<1>5. CallsOK' /\ Starting' = Starting
  BY <1>1, <1>3, <1>4, CallMoves
<1> QED  BY <1>2, <1>5, CallStep DEF StartDrop, IInv, RestOK

\* Steps of a future that leave the hub alone.
LEMMA QuietCallIInv ==
    ASSUME IInv, NEW k \in Calls, CallerLeaves(k) \/ ReplyUnheard(k) \/ GotSession(k)
    PROVE  IInv'
<1> DEFINE c == call[k]
<1>1. CallsOK /\ HubOK /\ CallShape(c) /\ c \in CallState
  BY DEF IInv, CallsOK, CallShape
<1>2. UNCHANGED <<hub, alive, now, host, task, delivered, epochOf, restarts>>
  BY DEF CallerLeaves, ReplyUnheard, GotSession
<1>3. CallsOK' /\ Starting' = Starting
  <2>1. CASE CallerLeaves(k)
    <3> DEFINE n == [c EXCEPT !.heard = FALSE,
                     !.pc = IF c.why = "caller" /\ ~Sending(k) THEN "done" ELSE c.pc]
    <3>1. call' = [call EXCEPT ![k] = n]
      BY <1>1, <2>1 DEF CallerLeaves, CallsOK, CallState
    <3>2. CallShape(n) /\ (n.pc = "start" <=> c.pc = "start")
      BY ZenonT(40), <1>1 DEF CallShape, CallState, Sending
    <3> HIDE DEF n
    <3> QED  BY <1>1, <3>1, <3>2, CallMoves
  <2>2. CASE ReplyUnheard(k)
    <3> DEFINE n == [c EXCEPT !.pc = "done"]
    <3>1. call' = [call EXCEPT ![k] = n]
      BY <1>1, <2>2 DEF ReplyUnheard, CallsOK, CallState
    <3>2. CallShape(n) /\ n.pc = "done"
      BY <1>1 DEF CallShape, CallState
    <3>3. c.pc # "start"
      BY <1>1, <2>2 DEF ReplyUnheard, Unheard, CallShape, None
    <3> HIDE DEF n
    <3> QED  BY <1>1, <3>1, <3>2, <3>3, CallMoves
  <2>3. CASE GotSession(k)
    <3> DEFINE g == hub.session[c.dev]
    <3> DEFINE n == [c EXCEPT !.pc = IF g = c.snap.gen THEN "send" ELSE "proof",
                              !.gen = g, !.reply = None]
    <3>1. c.pc = "await" /\ c.dev \in Devices /\ g \in Nat
      BY <1>1, <2>3 DEF GotSession, CallShape, HubOK, HubState
    <3>2. call' = [call EXCEPT ![k] = n]
      BY <1>1, <2>3 DEF GotSession, CallsOK, CallState
    <3>3. CallShape(n) /\ n.pc # "start"
      BY ZenonT(60), <1>1, <3>1 DEF CallShape, CallState, None
    <3> HIDE DEF n
    <3> QED  BY <1>1, <3>1, <3>2, <3>3, CallMoves
  <2> QED  BY <2>1, <2>2, <2>3
<1>4. HubOK' /\ hub'.pending = hub.pending
  BY <1>1, <1>2, HubStays
<1> QED  BY <1>2, <1>3, <1>4, CallStep DEF IInv, RestOK

\* A follow-up call enters the Controller.
LEMMA FollowUpIInv ==
    ASSUME IInv, NEW k \in Calls, NEW t \in Tasks, NEW op \in Ops, FollowUp(k, t, op)
    PROVE  IInv'
<1> DEFINE n == [Idle EXCEPT !.pc = "lookup", !.why = "caller", !.op = op, !.task = t]
<1>1. call' = [call EXCEPT ![k] = n] /\ call[k].pc = "idle"
  BY DEF FollowUp
<1>2. CallShape(n) /\ n.pc = "lookup"
  BY DEF CallShape, CallState, Idle, None, Ops
<1> HIDE DEF n
<1>3. CallsOK' /\ Starting' = Starting
  BY <1>1, <1>2, CallMoves DEF IInv
<1>4. HubOK' /\ hub'.pending = hub.pending
  BY HubStays DEF FollowUp, IInv
<1> QED  BY <1>3, <1>4, CallStep DEF FollowUp, IInv, RestOK

\* shell_task reads the projection, pruning what has expired.
LEMMA LookupIInv ==
    ASSUME IInv, NEW k \in Calls, Lookup(k)
    PROVE  IInv'
<1> DEFINE c == call[k]
<1> DEFINE q == Prune(hub.proj, now)
<1> DEFINE p == q[c.task]
<1>1. /\ CallsOK /\ HubOK /\ CallShape(c) /\ c \in CallState /\ now \in Nat
      /\ c.pc = "lookup" /\ c.task \in Tasks /\ delivered \subseteq Tasks
  BY ShellAssumption DEF IInv, CallsOK, CallShape, Lookup, RestOK
<1>2. hub' = [hub EXCEPT !.proj = q]
  BY DEF Lookup
<1>3. HubOK' /\ hub'.pending = hub.pending
  BY <1>1, <1>2, PruneLive DEF HubOK
<1>4. CallsOK' /\ Starting' = Starting /\ delivered' \subseteq Tasks
  <2>1. CASE p = NoProjection
    <3>1. Returns(k, FALSE)
      BY <2>1 DEF Lookup
    <3> QED  BY <1>1, <3>1, ReturnsOK
  <2>2. CASE p # NoProjection
    <3> DEFINE n == [c EXCEPT !.pc = "await", !.snap = p, !.dev = p.dev]
    <3>1. p \in Projection /\ p.dev \in Devices
      BY <1>1, <2>2, PruneType DEF HubOK, HubState, Projections, Projection
    <3>2. UNCHANGED delivered
          /\ call' = [call EXCEPT ![k].pc = "await", ![k].snap = p, ![k].dev = p.dev]
      BY <2>2 DEF Lookup
    <3> HIDE DEF p, q
    <3>3. call' = [call EXCEPT ![k] = n]
      BY <1>1, <3>2 DEF CallsOK, CallState
    <3>4. CallShape(n) /\ n.pc = "await"
      BY <1>1, <3>1 DEF CallShape, CallState
    <3> HIDE DEF n
    <3> QED  BY <1>1, <3>2, <3>3, <3>4, CallMoves
  <2> QED  BY <2>1, <2>2
<1> QED  BY <1>3, <1>4, CallStep DEF Lookup

\* shell_task stops waiting for a session.
LEMMA AwaitTimesOutIInv ==
    ASSUME IInv, NEW k \in Calls, AwaitTimesOut(k)
    PROVE  IInv'
<1>1. /\ CallsOK /\ HubOK /\ CallShape(call[k]) /\ call[k].pc = "await"
      /\ call[k].task \in Tasks /\ delivered \subseteq Tasks
  BY DEF IInv, CallsOK, CallShape, AwaitTimesOut, RestOK
<1>2. HubOK' /\ hub'.pending = hub.pending
  BY <1>1, ForgetHub DEF AwaitTimesOut
<1>3. CallsOK' /\ Starting' = Starting /\ delivered' \subseteq Tasks
  BY <1>1, ReturnsOK DEF AwaitTimesOut
<1> QED  BY <1>2, <1>3, CallStep DEF AwaitTimesOut

\* The Status proof may bind the projection to the session that answered.
LEMMA ProvedIInv ==
    ASSUME IInv, NEW k \in Calls, Proved(k)
    PROVE  IInv'
<1> DEFINE c == call[k]
<1>1. /\ CallsOK /\ HubOK /\ CallShape(c) /\ c \in CallState /\ c.pc = "proof"
      /\ c.task \in Tasks /\ c.dev \in Devices /\ c.gen \in Nat /\ delivered \subseteq Tasks
  BY DEF IInv, CallsOK, CallShape, Proved, RestOK, CallState
<1>2. CASE c.reply = "notfound"
  <2>1. hub' = [hub EXCEPT !.proj[c.task] = NoProjection] /\ Returns(k, FALSE)
    BY <1>2 DEF Proved
  <2>2. HubOK' /\ hub'.pending = hub.pending
    BY <1>1, <2>1, ForgetHub
  <2>3. CallsOK' /\ Starting' = Starting /\ delivered' \subseteq Tasks
    BY <1>1, <2>1, ReturnsOK
  <2> QED  BY <2>2, <2>3, CallStep DEF Proved
<1>3. CASE c.reply # "notfound" /\ ~MayRebind(c)
  <2>1. UNCHANGED hub /\ Returns(k, FALSE)
    BY <1>3 DEF Proved
  <2>2. HubOK' /\ hub'.pending = hub.pending
    BY <1>1, <2>1, HubStays
  <2>3. CallsOK' /\ Starting' = Starting /\ delivered' \subseteq Tasks
    BY <1>1, <2>1, ReturnsOK
  <2> QED  BY <2>2, <2>3, CallStep DEF Proved
<1>4. CASE c.reply # "notfound" /\ MayRebind(c)
  <2>1. hub' = [hub EXCEPT !.proj[c.task] = Attached(c.dev, c.gen)]
    BY <1>4 DEF Proved, Attached
  <2>2. HubOK' /\ hub'.pending = hub.pending
    BY <1>1, <1>4, <2>1, BindHub DEF MayRebind
  <2>3. CallsOK' /\ Starting' = Starting /\ delivered' \subseteq Tasks
    <3>1. CASE c.op = "status"
      <4>1. Returns(k, TRUE)
        BY <1>4, <3>1 DEF Proved
      <4> QED  BY <1>1, <4>1, ReturnsOK
    <3>2. CASE c.op # "status"
      <4> DEFINE n == [c EXCEPT !.pc = "send", !.reply = None]
      <4>1. UNCHANGED delivered /\ call' = [call EXCEPT ![k].pc = "send", ![k].reply = None]
        BY <1>4, <3>2 DEF Proved
      <4>2. call' = [call EXCEPT ![k] = n]
        BY <1>1, <4>1 DEF CallsOK, CallState
      <4>3. CallShape(n) /\ n.pc = "send"
        BY ZenonT(60), <1>1 DEF CallShape, CallState, None
      <4> HIDE DEF n
      <4> QED  BY <1>1, <4>1, <4>2, <4>3, CallMoves
    <3> QED  BY <3>1, <3>2
  <2> QED  BY <2>2, <2>3, CallStep DEF Proved
<1> QED  BY <1>2, <1>3, <1>4

\* The answer to a follow-up: a terminal one removes the projection.
LEMMA CompletedIInv ==
    ASSUME IInv, NEW k \in Calls, Completed(k)
    PROVE  IInv'
<1> DEFINE c == call[k]
<1>1. /\ CallsOK /\ HubOK /\ CallShape(c) /\ c.pc = "send" /\ now \in Nat
      /\ c.task \in Tasks /\ c.dev \in Devices /\ c.gen \in Nat /\ delivered \subseteq Tasks
  BY ShellAssumption DEF IInv, CallsOK, CallShape, Completed, RestOK, CallState
<1>2. CASE hub.session[c.dev] # c.gen
  <2>1. hub' = [hub EXCEPT !.proj = Detach(hub.proj, c.dev, c.gen, now)] /\ Returns(k, FALSE)
    BY <1>2 DEF Completed
  <2>2. HubOK' /\ hub'.pending = hub.pending
    BY <1>1, <2>1, DetachHubLive DEF HubOK
  <2>3. CallsOK' /\ Starting' = Starting /\ delivered' \subseteq Tasks
    BY <1>1, <2>1, ReturnsOK
  <2> QED  BY <2>2, <2>3, CallStep DEF Completed
<1>3. CASE hub.session[c.dev] = c.gen
  <2>1. /\ \/ hub' = [hub EXCEPT !.proj[c.task] = NoProjection]
           \/ hub' = hub
        /\ Returns(k, c.reply = "ok")
    BY <1>3 DEF Completed
  <2>2. HubOK' /\ hub'.pending = hub.pending
    BY <1>1, <2>1, ForgetHub, HubStays
  <2>3. CallsOK' /\ Starting' = Starting /\ delivered' \subseteq Tasks
    BY <1>1, <2>1, ReturnsOK
  <2> QED  BY <2>2, <2>3, CallStep DEF Completed
<1> QED  BY <1>2, <1>3

\* The session is lost under a follow-up call.
LEMMA RpcLostIInv ==
    ASSUME IInv, NEW k \in Calls, RpcLost(k)
    PROVE  IInv'
<1>1. /\ CallsOK /\ HubOK /\ call[k].pc \in {"proof", "send"} /\ delivered \subseteq Tasks
  BY DEF IInv, RpcLost, RestOK
<1>2. HubOK' /\ hub'.pending = hub.pending
  BY <1>1, HubStays DEF RpcLost
<1>3. CallsOK' /\ Starting' = Starting /\ delivered' \subseteq Tasks
  BY <1>1, ReturnsOK DEF RpcLost
<1> QED  BY <1>2, <1>3, CallStep DEF RpcLost

\* Every step keeps the invariant: one case per action.
LEMMA NextIInv == IInv /\ [Next]_vars => IInv'
<1> SUFFICES ASSUME IInv, [Next]_vars PROVE IInv'
  OBVIOUS
<1>1. CASE UNCHANGED vars
  <2>1. HubOK' /\ CallsOK' /\ Starting' = Starting
    BY <1>1, CallsStay, HubStays DEF IInv, vars
  <2> QED  BY <1>1, <2>1, CallStep DEF vars, IInv, RestOK
<1>2. ASSUME NEW d \in Devices,
             Connect(d) \/ HostDetach(d) \/ GraceEnds(d) \/ HostRestart(d)
      PROVE  IInv'
  <2>1. CASE Connect(d)
    BY <2>1, ConnectIInv
  <2>2. CASE HostDetach(d) \/ GraceEnds(d) \/ HostRestart(d)
    BY <2>2, DeviceSideIInv
  <2> QED  BY <1>2, <2>1, <2>2
<1>3. ASSUME NEW s \in alive, ControllerDetach(s) PROVE IInv'
  BY <1>3, ControllerDetachIInv
<1>4. CASE Tick \/ \E t \in Tasks : ChildEnds(t)
  BY <1>4, TaskSideIInv
<1>5. ASSUME NEW k \in Calls,
             \/ \E d \in Devices : StartReserve(k, d)
             \/ \E t \in Tasks, op \in Ops : FollowUp(k, t, op)
             \/ HostStart(k) \/ HostRefuses(k) \/ HostAnswers(k)
             \/ StartReplied(k) \/ StartLost(k) \/ StartInsert(k) \/ StartDrop(k)
             \/ CallerLeaves(k) \/ ReplyUnheard(k)
             \/ Lookup(k) \/ GotSession(k) \/ AwaitTimesOut(k)
             \/ Proved(k) \/ Completed(k) \/ RpcLost(k)
      PROVE  IInv'
  BY <1>5, StartReserveIInv, QuietCallIInv, FollowUpIInv, HostRepliesIInv, StartEndsIInv,
     StartInsertIInv, StartDropIInv, LookupIInv, AwaitTimesOutIInv, ProvedIInv, CompletedIInv,
     RpcLostIInv
<1> QED  BY <1>1, <1>2, <1>3, <1>4, <1>5 DEF Next

\* Whatever callers, Hosts, sessions and clock do, the state is well typed; in
\* particular the count of pending starts never falls below zero.
THEOREM ShellTypeOK == Spec => []TypeOK
<1>1. IInv => TypeOK
  BY IInvImplies
<1> QED  BY <1>1, InitIInv, NextIInv, PTL DEF Spec

\* pending_shell_starts counts exactly the starts in flight, for any number of
\* concurrent calls: no way out of shell_start leaks or doubly frees a place.
THEOREM ReservationsCountedThm == Spec => []ReservationsCounted
<1>1. IInv => ReservationsCounted
  BY IInvImplies
<1> QED  BY <1>1, InitIInv, NextIInv, PTL DEF Spec

\* No projection stays attached to a session that has ended or was replaced:
\* what is not proved again on the new session expires.
THEOREM AttachedIsLiveThm == Spec => []AttachedIsLive
<1>1. IInv => AttachedIsLive
  BY IInvImplies
<1> QED  BY <1>1, InitIInv, NextIInv, PTL DEF Spec

-----------------------------------------------------------------------------
(***************************************************************************)
(* What the Controller believes of tasks rests on what Hosts have said.    *)
(* TaskIsProved speaks of projections and of delivered TaskIds only; to be *)
(* inductive it has to say what a suspended future will use later.         *)
(***************************************************************************)
Live(t) == task[t].phase \in {"running", "ended"}

\* Generations are issued in order, and a Host's epoch is the one its present
\* generation stands for.
EpochsOK ==
    /\ hub.next <= MaxConns
    /\ \A d \in Devices :
         /\ hub.session[d] <= hub.next
         /\ host[d].up => /\ host[d].gen \in 1..hub.next
                          /\ host[d].epoch > 0
                          /\ epochOf[host[d].gen] = host[d].epoch

\* A Host confirms its own tasks, up to the epoch it has reached.
TasksOK == \A t \in Tasks : Live(t) => /\ task[t].dev \in Devices
                                       /\ task[t].confirmed <= host[task[t].dev].epoch

\* Generation g of device d is known to hold task t.
Bound(t, d, g) ==
    Live(t) => /\ task[t].dev = d
               /\ epochOf[g] = task[t].born \/ epochOf[g] <= task[t].confirmed

ProjectionOK(t) ==
    hub.proj[t] # NoProjection => /\ task[t].phase # "none"
                                  /\ hub.proj[t].gen \in 1..hub.next
                                  /\ Bound(t, hub.proj[t].dev, hub.proj[t].gen)

DeliveredOK == \A t \in delivered : task[t].phase # "none" /\ task[t].confirmed > 0

\* What a suspended future holds about its task.
Knows(k) ==
    LET c == call[k] IN
    /\ c.pc \in {"start", "insert", "proof", "send"} => c.gen \in 1..hub.next
    /\ c.pc = "insert" \/ (c.pc = "start" /\ c.reply = "ok") =>
           /\ task[c.task].phase # "none"
           /\ Live(c.task) => task[c.task].dev = c.dev /\ epochOf[c.gen] = task[c.task].born
    /\ c.pc \in {"lookup", "await", "proof", "send", "drop"} => task[c.task].phase # "none"
    /\ c.pc \in {"await", "proof", "send"} /\ Live(c.task) => task[c.task].dev = c.dev
    /\ c.pc \in {"proof", "send"} => c.reply \in {None, "ok", "notfound"}
    /\ c.pc \in {"lookup", "await", "proof", "send"} /\ c.why = "receipt" => c.op = "status"
    /\ c.pc = "proof" /\ c.reply = "ok" => /\ task[c.task].confirmed > 0
                                           /\ Live(c.task) => epochOf[c.gen] <= task[c.task].confirmed
    /\ c.pc = "send" /\ c.reply = "ok" /\ c.op = "status" => task[c.task].confirmed > 0

Provenance ==
    /\ EpochsOK /\ TasksOK /\ DeliveredOK
    /\ \A t \in Tasks : ProjectionOK(t)
    /\ \A k \in Calls : Knows(k)

\* It implies what is checked.
LEMMA ProvenanceImplies == IInv /\ Provenance => TaskIsProved
BY DEF Provenance, ProjectionOK, Bound, DeliveredOK, TaskIsProved, ReboundWasProved,
       ReceiptBeforeDelivery, Projected, Live, IInv, HubOK, HubState

\* At the start nobody believes anything.
LEMMA InitProvenance == Init => Provenance
<1> SUFFICES ASSUME Init PROVE Provenance
  OBVIOUS
<1>1. EpochsOK
  BY ShellAssumption DEF Init, EpochsOK, HubInit, Offline
<1>2. TasksOK /\ DeliveredOK
  BY DEF Init, TasksOK, DeliveredOK, Live
<1>3. \A t \in Tasks : ProjectionOK(t)
  BY DEF Init, ProjectionOK, HubInit
<1>4. \A k \in Calls : Knows(k)
  BY DEF Init, Knows, Idle
<1> QED  BY <1>1, <1>2, <1>3, <1>4 DEF Provenance

\* How a step may change a task that has been started: it stays started, a live
\* one keeps its device and its birth, and no confirmation is taken back.
Ages ==
    \A t \in Tasks :
        task[t].phase # "none" =>
            /\ task'[t].phase # "none"
            /\ Live(t)' => Live(t) /\ task'[t].dev = task[t].dev /\ task'[t].born = task[t].born
            /\ task'[t].confirmed >= task[t].confirmed

\* What a generation stands for is settled when it is issued.
EpochsStand ==
    /\ hub'.next >= hub.next
    /\ \A g \in 1..hub.next : epochOf'[g] = epochOf[g]

\* Under such steps a future that does not move still knows what it knew.
LEMMA CallKept ==
    ASSUME IInv, IInv', Provenance, Ages, EpochsStand, NEW k \in Calls,
           call'[k] = call[k]
    PROVE  Knows(k)'
<1> DEFINE c == call[k]
<1>1. /\ CallShape(c) /\ task \in [Tasks -> TaskState] /\ task' \in [Tasks -> TaskState]
      /\ epochOf \in [1..MaxConns -> Nat] /\ hub.next \in Nat /\ hub'.next \in Nat
      /\ call'[k] = c
  BY DEF IInv, CallsOK, RestOK, HubOK, HubState
<1> DEFINE b == task'[c.task]
<1>2. c.task \in Tasks => task[c.task].confirmed \in Nat /\ b.confirmed \in Nat
  BY <1>1 DEF TaskState
<1>3. c.task \in Tasks /\ task[c.task].phase # "none" =>
        /\ b.phase # "none"
        /\ b.phase \in {"running", "ended"} => Live(c.task) /\ b.dev = task[c.task].dev /\ b.born = task[c.task].born
        /\ b.confirmed >= task[c.task].confirmed
  BY DEF Ages, Live
<1>4. Knows(k) /\ hub.next <= MaxConns
  BY DEF Provenance, EpochsOK
<1>5. c.pc \in {"start", "insert", "proof", "send"} =>
        /\ c.gen \in 1..hub'.next
        /\ epochOf'[c.gen] = epochOf[c.gen] /\ epochOf[c.gen] \in Nat
  <2>1. ASSUME c.gen \in 1..hub.next
        PROVE  /\ c.gen \in 1..hub'.next
               /\ epochOf'[c.gen] = epochOf[c.gen] /\ epochOf[c.gen] \in Nat
    BY SMTT(30), <1>1, <1>4, <2>1, ShellAssumption DEF EpochsStand
  <2> QED  BY <1>4, <2>1 DEF Knows
<1>6. /\ c.pc \in {"insert", "lookup", "await", "proof", "send", "drop"} => c.task \in Tasks
      /\ c.pc = "start" /\ c.reply = "ok" => c.task \in Tasks
  BY <1>1 DEF CallShape
<1>7. /\ c.pc = "insert" \/ (c.pc = "start" /\ c.reply = "ok") =>
           /\ b.phase # "none"
           /\ b.phase \in {"running", "ended"} => b.dev = c.dev /\ epochOf'[c.gen] = b.born
      /\ c.pc \in {"lookup", "await", "proof", "send", "drop"} => b.phase # "none"
      /\ c.pc \in {"await", "proof", "send"} /\ b.phase \in {"running", "ended"} => b.dev = c.dev
  BY <1>3, <1>4, <1>5, <1>6 DEF Knows, Live
<1>8. /\ c.pc = "proof" /\ c.reply = "ok" =>
           /\ b.confirmed > 0
           /\ b.phase \in {"running", "ended"} => epochOf'[c.gen] <= b.confirmed
      /\ c.pc = "send" /\ c.reply = "ok" /\ c.op = "status" => b.confirmed > 0
  BY <1>2, <1>3, <1>4, <1>5, <1>6 DEF Knows, Live
<1>9. /\ c.pc \in {"proof", "send"} => c.reply \in {None, "ok", "notfound"}
      /\ c.pc \in {"lookup", "await", "proof", "send"} /\ c.why = "receipt" => c.op = "status"
  BY <1>4 DEF Knows
<1> HIDE DEF c
<1> QED  BY <1>1, <1>5, <1>7, <1>8, <1>9 DEF Knows, Live

\* So does a projection that is only detached or removed.
LEMMA ProjectionsKept ==
    ASSUME IInv, IInv', Provenance, Ages, EpochsStand, Narrower(hub'.proj, hub.proj),
           NEW t \in Tasks
    PROVE  ProjectionOK(t)'
<1> DEFINE g == hub'.proj[t].gen
<1>1. /\ task \in [Tasks -> TaskState] /\ task' \in [Tasks -> TaskState]
      /\ epochOf \in [1..MaxConns -> Nat] /\ hub.next \in Nat /\ hub'.next \in Nat
      /\ hub.next <= MaxConns /\ ProjectionOK(t)
  BY DEF IInv, RestOK, HubOK, HubState, Provenance, EpochsOK
<1>2. SUFFICES ASSUME hub'.proj[t] # NoProjection
               PROVE  /\ task'[t].phase # "none"
                      /\ g \in 1..hub'.next
                      /\ Live(t)' => /\ task'[t].dev = hub'.proj[t].dev
                                     /\ \/ epochOf'[g] = task'[t].born
                                        \/ epochOf'[g] <= task'[t].confirmed
  BY DEF ProjectionOK, Bound
<1>3. /\ hub.proj[t] # NoProjection /\ hub'.proj[t].dev = hub.proj[t].dev
      /\ g = hub.proj[t].gen
  BY <1>2 DEF Narrower
<1>4. /\ task[t].phase # "none" /\ g \in 1..hub.next /\ Bound(t, hub.proj[t].dev, g)
  BY <1>1, <1>3 DEF ProjectionOK
<1>5. /\ task'[t].phase # "none"
      /\ Live(t)' => Live(t) /\ task'[t].dev = task[t].dev /\ task'[t].born = task[t].born
      /\ task'[t].confirmed >= task[t].confirmed
  BY <1>4 DEF Ages
<1>6. g \in 1..hub'.next /\ epochOf'[g] = epochOf[g] /\ epochOf[g] \in Nat
  BY SMTT(30), <1>1, <1>4, ShellAssumption DEF EpochsStand
<1>7. task[t].confirmed \in Nat /\ task'[t].confirmed \in Nat
  BY <1>1 DEF TaskState
<1> QED  BY <1>3, <1>4, <1>5, <1>6, <1>7 DEF Bound

\* And a receipt stays a receipt.
LEMMA DeliveredKept ==
    ASSUME IInv, IInv', Provenance, Ages, NEW T \in SUBSET Tasks, delivered' = delivered \cup T,
           \A t \in T : task[t].phase # "none" /\ task[t].confirmed > 0
    PROVE  DeliveredOK'
<1>1. /\ task \in [Tasks -> TaskState] /\ task' \in [Tasks -> TaskState]
      /\ delivered \subseteq Tasks /\ DeliveredOK
  BY DEF IInv, RestOK, Provenance
<1>2. ASSUME NEW t \in delivered'
      PROVE  task'[t].phase # "none" /\ task'[t].confirmed > 0
  <2>1. t \in Tasks /\ task[t].phase # "none" /\ task[t].confirmed > 0
    BY <1>1, <1>2 DEF DeliveredOK
  <2>2. task[t].confirmed \in Nat /\ task'[t].confirmed \in Nat
    BY <1>1, <2>1 DEF TaskState
  <2> QED  BY <2>1, <2>2 DEF Ages
<1> QED  BY <1>2 DEF DeliveredOK

\* A step at the Controller leaves tasks and Hosts alone and moves one future.
AtController(k) ==
    /\ UNCHANGED <<host, task, epochOf>>
    /\ hub'.next = hub.next /\ hub'.session = hub.session
    /\ \A j \in Calls : j # k => call'[j] = call[j]

\* Where tasks and generations do not change they have not aged.
LEMMA NothingAges ==
    ASSUME IInv, UNCHANGED <<task, epochOf>>, hub'.next = hub.next
    PROVE  Ages /\ EpochsStand
<1>1. task \in [Tasks -> TaskState] /\ hub.next \in Nat
  BY DEF IInv, RestOK, HubOK, HubState
<1>2. \A t \in Tasks : task[t].confirmed \in Nat
  BY <1>1 DEF TaskState
<1> QED  BY <1>1, <1>2 DEF Ages, EpochsStand, Live

\* Such a step is judged by the future that moves, the projections and the
\* TaskIds handed out.
LEMMA ControllerStep ==
    ASSUME IInv, IInv', Provenance, NEW k \in Calls, AtController(k), Knows(k)', DeliveredOK',
           \A t \in Tasks : ProjectionOK(t)'
    PROVE  Provenance'
<1>1. Ages /\ EpochsStand
  BY NothingAges DEF AtController
<1>2. \A j \in Calls : Knows(j)'
  BY <1>1, CallKept DEF AtController
<1>3. EpochsOK' /\ TasksOK'
  BY DEF Provenance, AtController, EpochsOK, TasksOK, Live
<1> QED  BY <1>2, <1>3 DEF Provenance

\* What the code around shell_task does with a result claims nothing new: a
\* receipt is delivered only when the Host has confirmed the task.
LEMMA ReturnsKnows ==
    ASSUME IInv, IInv', Provenance, NEW k \in Calls, NEW ok \in BOOLEAN,
           call[k].pc \in {"lookup", "await", "proof", "send"},
           Returns(k, ok), UNCHANGED <<host, task, epochOf>>,
           hub'.next = hub.next, hub'.session = hub.session,
           ok /\ call[k].op = "status" => task[call[k].task].confirmed > 0
    PROVE  AtController(k) /\ Knows(k)' /\ DeliveredOK'
<1> DEFINE c == call[k]
<1>1. CallsOK /\ CallShape(c) /\ c \in CallState /\ c.task \in Tasks /\ Knows(k)
  BY DEF IInv, CallsOK, CallShape, Provenance
<1> DEFINE good == ok /\ c.heard
<1> DEFINE n == IF c.why = "caller" \/ (c.why = "receipt" /\ good)
               THEN [c EXCEPT !.pc = "done"]
               ELSE IF c.why = "receipt" THEN Begin(k, "cleanup", "cancel")
               ELSE [c EXCEPT !.pc = "drop"]
<1>2. call' = [call EXCEPT ![k] = n]
  BY DEF Returns
<1>3. n.pc \in {"done", "lookup", "drop"} /\ n.task = c.task
      /\ (n.pc = "lookup" => n.why = "cleanup")
  BY <1>1 DEF Begin, CallState
<1> HIDE DEF n
<1>4. call'[k] = n /\ \A j \in Calls : j # k => call'[j] = call[j]
  BY <1>1, <1>2 DEF CallsOK
<1>5. AtController(k)
  BY <1>4 DEF AtController
<1>6. task[c.task].phase # "none"
  BY <1>1 DEF Knows
<1>7. Knows(k)'
  BY <1>3, <1>4, <1>6 DEF Knows
<1>8. DeliveredOK'
  <2> DEFINE T == IF c.why = "receipt" /\ good THEN {c.task} ELSE {}
  <2>1. delivered' = delivered \cup T /\ T \in SUBSET Tasks
    BY <1>1 DEF Returns
  <2>2. \A t \in T : task[t].phase # "none" /\ task[t].confirmed > 0
    BY <1>1, <1>6 DEF Knows
  <2> HIDE DEF T
  <2> QED  BY <2>1, <2>2, NothingAges, DeliveredKept
<1> QED  BY <1>5, <1>7, <1>8

\* A step that binds nothing and hands out nothing.
LEMMA QuietStep ==
    ASSUME IInv, IInv', Provenance, NEW k \in Calls, NEW n,
           call' = [call EXCEPT ![k] = n],
           UNCHANGED <<host, task, epochOf, delivered>>,
           hub'.next = hub.next, hub'.session = hub.session,
           Narrower(hub'.proj, hub.proj), Knows(k)'
    PROVE  Provenance'
<1>1. AtController(k)
  BY DEF AtController, IInv, CallsOK
<1>2. Ages /\ EpochsStand
  BY NothingAges
<1>3. \A t \in Tasks : ProjectionOK(t)'
  BY <1>2, ProjectionsKept
<1>4. delivered' = delivered \cup {} /\ {} \in SUBSET Tasks
  OBVIOUS
<1>5. DeliveredOK'
  BY <1>2, <1>4, DeliveredKept
<1> QED  BY <1>1, <1>3, <1>5, ControllerStep

\* What the proofs below use of a future about to move.
LEMMA FutureFacts ==
    ASSUME IInv, Provenance, NEW k \in Calls
    PROVE  /\ CallsOK /\ CallShape(call[k]) /\ call[k] \in CallState /\ Knows(k)
           /\ hub \in HubState /\ now \in Nat
           /\ Narrower(hub.proj, hub.proj)
BY ShellAssumption DEF IInv, CallsOK, CallShape, Provenance, HubOK, RestOK, Narrower

\* A start is sent on the generation in the slot.
LEMMA StartReserveProvenance ==
    ASSUME IInv, IInv', Provenance, NEW k \in Calls, NEW d \in Devices, StartReserve(k, d)
    PROVE  Provenance'
<1> DEFINE n == [Idle EXCEPT !.pc = "start", !.op = "start", !.dev = d,
                             !.gen = hub.session[d]]
<1>1. hub \in HubState /\ CallsOK
  BY FutureFacts
<1>2. /\ hub'.proj = Prune(hub.proj, now)
      /\ hub'.next = hub.next /\ hub'.session = hub.session
      /\ UNCHANGED <<host, task, epochOf, delivered>>
  BY <1>1 DEF StartReserve, HubState
<1>3. call' = [call EXCEPT ![k] = n] /\ call'[k] = n
  BY <1>1 DEF StartReserve, CallsOK
<1>4. n.pc = "start" /\ n.reply = None /\ n.gen = hub.session[d]
  BY DEF Idle
<1>5. hub.session[d] \in 1..hub.next
  BY <1>1 DEF StartReserve, HubState, Offline, Provenance, EpochsOK
<1> HIDE DEF n
<1>6. Knows(k)'
  BY <1>2, <1>3, <1>4, <1>5 DEF Knows, None
<1> QED  BY <1>2, <1>3, <1>6, PruneNarrows, QuietStep

\* A caller names a task it was given.
LEMMA FollowUpProvenance ==
    ASSUME IInv, IInv', Provenance, NEW k \in Calls, NEW t \in Tasks, NEW op \in Ops,
           FollowUp(k, t, op)
    PROVE  Provenance'
<1> DEFINE n == [Idle EXCEPT !.pc = "lookup", !.why = "caller", !.op = op, !.task = t]
<1>1. CallsOK /\ Narrower(hub.proj, hub.proj)
  BY FutureFacts
<1>2. call' = [call EXCEPT ![k] = n] /\ call'[k] = n
  BY <1>1 DEF FollowUp, CallsOK
<1>3. n.pc = "lookup" /\ n.why = "caller" /\ n.task = t
  BY DEF Idle
<1>4. task[t].phase # "none"
  BY DEF FollowUp, Provenance, DeliveredOK
<1> HIDE DEF n
<1>5. UNCHANGED <<hub, host, task, epochOf, delivered>>
  BY DEF FollowUp
<1>6. Knows(k)'
  BY <1>2, <1>3, <1>4, <1>5 DEF Knows
<1> QED  BY <1>1, <1>2, <1>5, <1>6, QuietStep

\* The Host's answer names the task it started in this generation.
LEMMA StartRepliedProvenance ==
    ASSUME IInv, IInv', Provenance, NEW k \in Calls, StartReplied(k)
    PROVE  Provenance'
<1> DEFINE c == call[k]
<1> DEFINE n == [c EXCEPT !.pc = IF c.reply = "ok" THEN "insert" ELSE "done",
                          !.reply = None]
<1>1. CallsOK /\ c \in CallState /\ Knows(k) /\ hub \in HubState
  BY FutureFacts
<1>2. /\ hub'.proj = hub.proj /\ hub'.next = hub.next /\ hub'.session = hub.session
      /\ UNCHANGED <<host, task, epochOf, delivered>>
  BY <1>1 DEF StartReplied, HubState
<1>3. call' = [call EXCEPT ![k] = n] /\ call'[k] = n
  BY <1>1 DEF StartReplied, CallsOK, CallState
<1>4. /\ c.pc = "start" /\ n.pc \in {"insert", "done"} /\ (n.pc = "insert" => c.reply = "ok")
      /\ n.task = c.task /\ n.dev = c.dev /\ n.gen = c.gen
  BY <1>1 DEF StartReplied, CallState
<1> HIDE DEF n
<1>5. Knows(k)'
  BY <1>1, <1>2, <1>3, <1>4 DEF Knows, Live
<1> QED  BY <1>2, <1>3, <1>5, FutureFacts, QuietStep

\* A future that ends holds nothing.
LEMMA EndsProvenance ==
    ASSUME IInv, IInv', Provenance, NEW k \in Calls,
           StartLost(k) \/ StartDrop(k) \/ ReplyUnheard(k)
    PROVE  Provenance'
<1> DEFINE c == call[k]
<1>1. CallsOK /\ CallShape(c) /\ c \in CallState /\ hub \in HubState
  BY FutureFacts
<1>2. PICK n : call' = [call EXCEPT ![k] = n] /\ n.pc = "done"
  <2>1. CASE StartLost(k)
    <3> DEFINE n == [c EXCEPT !.pc = "done", !.task = None, !.reply = None]
    <3>1. call' = [call EXCEPT ![k] = n] /\ n.pc = "done"
      BY <1>1, <2>1 DEF StartLost, CallsOK, CallState
    <3> QED  BY <3>1
  <2>2. CASE StartDrop(k) \/ ReplyUnheard(k)
    <3> DEFINE n == [c EXCEPT !.pc = "done"]
    <3>1. call' = [call EXCEPT ![k] = n] /\ n.pc = "done"
      BY <1>1, <2>2 DEF StartDrop, ReplyUnheard, CallsOK, CallState
    <3> QED  BY <3>1
  <2> QED  BY <2>1, <2>2
<1>3. /\ hub'.next = hub.next /\ hub'.session = hub.session
      /\ Narrower(hub'.proj, hub.proj)
      /\ UNCHANGED <<host, task, epochOf, delivered>>
  <2>1. CASE StartLost(k)
    BY <1>1, <2>1 DEF StartLost, HubState, Narrower
  <2>2. CASE StartDrop(k)
    <3>1. c.task \in Tasks
      BY <1>1, <2>2 DEF StartDrop, CallShape
    <3> QED  BY <1>1, <2>2, <3>1 DEF StartDrop, HubState, Narrower
  <2>3. CASE ReplyUnheard(k)
    BY <2>3 DEF ReplyUnheard, Narrower
  <2> QED  BY <2>1, <2>2, <2>3
<1>4. call'[k].pc = "done"
  BY <1>1, <1>2 DEF CallsOK
<1>5. Knows(k)'
  BY <1>4 DEF Knows
<1> QED  BY <1>2, <1>3, <1>5, QuietStep

\* shell_task gets a session: the one in the slot, of the projection's device.
LEMMA GotSessionProvenance ==
    ASSUME IInv, IInv', Provenance, NEW k \in Calls, GotSession(k)
    PROVE  Provenance'
<1> DEFINE c == call[k]
<1> DEFINE g == hub.session[c.dev]
<1> DEFINE n == [c EXCEPT !.pc = IF g = c.snap.gen THEN "send" ELSE "proof",
                          !.gen = g, !.reply = None]
<1>1. CallsOK /\ CallShape(c) /\ c \in CallState /\ Knows(k) /\ hub \in HubState
  BY FutureFacts
<1>2. call' = [call EXCEPT ![k] = n] /\ call'[k] = n
  BY <1>1 DEF GotSession, CallsOK, CallState
<1>3. /\ c.pc = "await" /\ n.pc \in {"send", "proof"} /\ n.reply = None
      /\ n.task = c.task /\ n.dev = c.dev /\ n.gen = g /\ n.why = c.why /\ n.op = c.op
  BY <1>1 DEF GotSession, CallState
<1>4. g \in 1..hub.next
  BY <1>1 DEF GotSession, CallShape, HubState, Offline, Provenance, EpochsOK
<1>5. UNCHANGED <<hub, host, task, epochOf, delivered>>
  BY DEF GotSession
<1> HIDE DEF n, g
<1>6. Knows(k)'
  BY <1>1, <1>2, <1>3, <1>4, <1>5 DEF Knows, Live, None
<1> QED  BY <1>2, <1>5, <1>6, FutureFacts, QuietStep

\* A caller that leaves takes no knowledge away; a refused start brings none.
LEMMA LeavesProvenance ==
    ASSUME IInv, IInv', Provenance, NEW k \in Calls, CallerLeaves(k) \/ HostRefuses(k)
    PROVE  Provenance'
<1> DEFINE c == call[k]
<1>1. CallsOK /\ CallShape(c) /\ c \in CallState /\ Knows(k)
  BY FutureFacts
<1>2. UNCHANGED <<hub, host, task, epochOf, delivered>>
  BY DEF CallerLeaves, HostRefuses
<1>3. CASE CallerLeaves(k)
  <2> DEFINE p == IF c.why = "caller" /\ ~Sending(k) THEN "done" ELSE c.pc
  <2> DEFINE n == [c EXCEPT !.heard = FALSE, !.pc = p]
  <2>1. call' = [call EXCEPT ![k].heard = FALSE, ![k].pc = p]
    BY <1>3 DEF CallerLeaves
  <2>2. p \in {"done", c.pc}
    OBVIOUS
  <2> HIDE DEF p
  <2>3. call' = [call EXCEPT ![k] = n] /\ call'[k] = n
    BY <1>1, <2>1 DEF CallsOK, CallState
  <2>4. /\ n.pc \in {"done", c.pc} /\ n.reply = c.reply
        /\ n.task = c.task /\ n.dev = c.dev /\ n.gen = c.gen /\ n.why = c.why /\ n.op = c.op
    BY <1>1, <2>2 DEF CallState
  <2> HIDE DEF n
  <2>5. Knows(k)'
    BY <1>1, <1>2, <2>3, <2>4 DEF Knows, Live
  <2> QED  BY <1>2, <2>3, <2>5, FutureFacts, QuietStep
<1>4. CASE HostRefuses(k)
  <2> DEFINE n == [c EXCEPT !.reply = "error"]
  <2>1. call' = [call EXCEPT ![k] = n] /\ call'[k] = n
    BY <1>1, <1>4 DEF HostRefuses, Replied, CallsOK, CallState
  <2>2. n.pc = "start" /\ n.reply = "error" /\ n.gen = c.gen /\ c.pc = "start"
    BY <1>1, <1>4 DEF HostRefuses, CallState
  <2> HIDE DEF n
  <2>3. Knows(k)'
    BY <1>1, <1>2, <2>1, <2>2 DEF Knows
  <2> QED  BY <1>2, <2>1, <2>3, FutureFacts, QuietStep
<1> QED  BY <1>3, <1>4

\* A step that ends in Returns and binds nothing.
LEMMA ReturnsStep ==
    ASSUME IInv, IInv', Provenance, NEW k \in Calls, NEW ok \in BOOLEAN,
           call[k].pc \in {"lookup", "await", "proof", "send"},
           Returns(k, ok), UNCHANGED <<host, task, epochOf>>,
           hub'.next = hub.next, hub'.session = hub.session,
           Narrower(hub'.proj, hub.proj),
           ok /\ call[k].op = "status" => task[call[k].task].confirmed > 0
    PROVE  Provenance'
<1>1. AtController(k) /\ Knows(k)' /\ DeliveredOK'
  BY ReturnsKnows
<1>2. \A t \in Tasks : ProjectionOK(t)'
  BY NothingAges, ProjectionsKept
<1> QED  BY <1>1, <1>2, ControllerStep

\* The projection's device is the one the task lives on.
LEMMA LookupProvenance ==
    ASSUME IInv, IInv', Provenance, NEW k \in Calls, Lookup(k)
    PROVE  Provenance'
<1> DEFINE c == call[k]
<1> DEFINE q == Prune(hub.proj, now)
<1> DEFINE p == q[c.task]
<1>1. /\ CallsOK /\ CallShape(c) /\ c \in CallState /\ Knows(k) /\ hub \in HubState
      /\ c.pc = "lookup" /\ c.task \in Tasks
  BY FutureFacts DEF Lookup, CallShape
<1>2. /\ hub'.proj = q /\ hub'.next = hub.next /\ hub'.session = hub.session
      /\ UNCHANGED <<host, task, epochOf>>
  BY <1>1 DEF Lookup, HubState
<1>3. Narrower(q, hub.proj)
  BY PruneNarrows
<1>4. CASE p = NoProjection
  <2>1. Returns(k, FALSE)
    BY <1>4 DEF Lookup
  <2> QED  BY <1>1, <1>2, <1>3, <2>1, ReturnsStep
<1>5. CASE p # NoProjection
  <2> DEFINE n == [c EXCEPT !.pc = "await", !.snap = p, !.dev = p.dev]
  <2>1. /\ UNCHANGED delivered
        /\ call' = [call EXCEPT ![k].pc = "await", ![k].snap = p, ![k].dev = p.dev]
    BY <1>5 DEF Lookup
  <2>2. p.dev = hub.proj[c.task].dev /\ hub.proj[c.task] # NoProjection
    BY <1>1, <1>3, <1>5 DEF Narrower
  <2>3. Live(c.task) => task[c.task].dev = p.dev
    BY <1>1, <2>2 DEF Provenance, ProjectionOK, Bound
  <2> HIDE DEF p, q
  <2>4. call' = [call EXCEPT ![k] = n] /\ call'[k] = n
    BY <1>1, <2>1 DEF CallsOK, CallState
  <2>5. /\ n.pc = "await" /\ n.task = c.task /\ n.dev = p.dev /\ n.why = c.why /\ n.op = c.op
    BY <1>1 DEF CallState
  <2> HIDE DEF n
  <2>6. Knows(k)'
    BY <1>1, <1>2, <2>3, <2>4, <2>5 DEF Knows, Live
  <2> QED  BY <1>2, <1>3, <2>1, <2>4, <2>6, QuietStep
<1> QED  BY <1>4, <1>5

\* No session in time, and a session lost under a request, claim nothing.
LEMMA LostProvenance ==
    ASSUME IInv, IInv', Provenance, NEW k \in Calls, AwaitTimesOut(k) \/ RpcLost(k)
    PROVE  Provenance'
<1> DEFINE c == call[k]
<1>1. /\ CallShape(c) /\ hub \in HubState /\ c.pc \in {"await", "proof", "send"}
      /\ Narrower(hub.proj, hub.proj)
  BY FutureFacts DEF AwaitTimesOut, RpcLost
<1>2. Returns(k, FALSE) /\ UNCHANGED <<host, task, epochOf>>
  BY DEF AwaitTimesOut, RpcLost
<1>3. /\ hub'.next = hub.next /\ hub'.session = hub.session
      /\ Narrower(hub'.proj, hub.proj)
  <2>1. CASE AwaitTimesOut(k)
    <3>1. c.task \in Tasks
      BY <1>1 DEF CallShape
    <3> QED  BY <1>1, <2>1, <3>1 DEF AwaitTimesOut, HubState, Narrower
  <2>2. CASE RpcLost(k)
    BY <1>1, <2>2 DEF RpcLost
  <2> QED  BY <2>1, <2>2
<1> QED  BY <1>1, <1>2, <1>3, ReturnsStep

\* The answer to a request.
LEMMA CompletedProvenance ==
    ASSUME IInv, IInv', Provenance, NEW k \in Calls, Completed(k)
    PROVE  Provenance'
<1> DEFINE c == call[k]
<1>1. /\ CallShape(c) /\ c \in CallState /\ Knows(k) /\ hub \in HubState /\ now \in Nat
      /\ c.pc = "send" /\ c.task \in Tasks /\ c.dev \in Devices /\ c.gen \in Nat
      /\ Narrower(hub.proj, hub.proj)
  BY FutureFacts DEF Completed, CallShape, CallState
<1>2. UNCHANGED <<host, task, epochOf>>
  BY DEF Completed
<1>3. CASE hub.session[c.dev] # c.gen
  <2>1. /\ Returns(k, FALSE)
        /\ hub'.proj = Detach(hub.proj, c.dev, c.gen, now)
        /\ hub'.next = hub.next /\ hub'.session = hub.session
    BY <1>1, <1>3 DEF Completed, HubState
  <2>2. Narrower(hub'.proj, hub.proj)
    BY <1>1, <2>1, DetachNarrows DEF HubState, Projections
  <2> QED  BY <1>1, <1>2, <2>1, <2>2, ReturnsStep
<1>4. CASE hub.session[c.dev] = c.gen
  <2>1. /\ Returns(k, c.reply = "ok")
        /\ hub'.next = hub.next /\ hub'.session = hub.session
        /\ Narrower(hub'.proj, hub.proj)
    BY <1>1, <1>4 DEF Completed, HubState, Narrower
  <2>2. c.reply = "ok" /\ c.op = "status" => task[c.task].confirmed > 0
    BY <1>1 DEF Knows
  <2> QED  BY <1>1, <1>2, <2>1, <2>2, ReturnsStep
<1> QED  BY <1>3, <1>4

\* The one projection a step binds.
LEMMA BindProjections ==
    ASSUME IInv, IInv', Provenance, NEW t \in Tasks, NEW d \in Devices, NEW g \in 1..hub.next,
           UNCHANGED <<task, epochOf>>,
           hub' = [hub EXCEPT !.proj[t] = Attached(d, g)],
           task[t].phase # "none", Bound(t, d, g)
    PROVE  /\ hub'.next = hub.next /\ hub'.session = hub.session
           /\ \A u \in Tasks : ProjectionOK(u)'
<1> DEFINE x == Attached(d, g)
<1>1. x.dev = d /\ x.gen = g /\ hub \in HubState
  BY DEF Attached, IInv, HubOK
<1> HIDE DEF x
<1>2. /\ hub'.next = hub.next /\ hub'.session = hub.session
      /\ \A u \in Tasks : hub'.proj[u] = IF u = t THEN x ELSE hub.proj[u]
  BY <1>1 DEF HubState, x
<1>3. ASSUME NEW u \in Tasks PROVE ProjectionOK(u)'
  <2>1. CASE u = t
    BY <1>1, <1>2, <2>1 DEF ProjectionOK, Bound, Live
  <2>2. CASE u # t
    BY <1>2, <2>2 DEF Provenance, ProjectionOK, Bound, Live
  <2> QED  BY <2>1, <2>2
<1> QED  BY <1>2, <1>3

\* shell_start binds a task to the generation that started it.
LEMMA StartInsertProvenance ==
    ASSUME IInv, IInv', Provenance, NEW k \in Calls, StartInsert(k)
    PROVE  Provenance'
<1> DEFINE c == call[k]
<1> DEFINE same == hub.session[c.dev] = c.gen
<1> DEFINE n == IF same THEN Begin(k, "receipt", "status") ELSE Begin(k, "cleanup", "cancel")
<1>1. /\ CallsOK /\ CallShape(c) /\ c \in CallState /\ Knows(k) /\ hub \in HubState
      /\ c.pc = "insert" /\ c.task \in Tasks /\ c.dev \in Devices
      /\ Narrower(hub.proj, hub.proj)
  BY FutureFacts DEF StartInsert, CallShape
<1>2. UNCHANGED <<host, task, epochOf, delivered>>
  BY DEF StartInsert
<1>3. call' = [call EXCEPT ![k] = n] /\ call'[k] = n
  BY <1>1 DEF StartInsert, CallsOK
<1>4. n.pc = "lookup" /\ n.task = c.task /\ (n.why = "receipt" => n.op = "status")
  BY <1>1 DEF Begin, CallState
<1> HIDE DEF n
<1>5. Knows(k)'
  BY <1>1, <1>2, <1>3, <1>4 DEF Knows
<1>6. CASE same
  <2>1. hub' = [hub EXCEPT !.proj[c.task] = Attached(c.dev, c.gen)]
    BY <1>6 DEF StartInsert, Attached
  <2>2. task[c.task].phase # "none" /\ Bound(c.task, c.dev, c.gen) /\ c.gen \in 1..hub.next
    BY <1>1 DEF Knows, Bound
  <2>3. /\ hub'.next = hub.next /\ hub'.session = hub.session
        /\ \A u \in Tasks : ProjectionOK(u)'
    BY <1>1, <1>2, <2>1, <2>2, BindProjections
  <2>4. AtController(k)
    BY <1>1, <1>2, <1>3, <2>3 DEF AtController, CallsOK
  <2>5. delivered' = delivered \cup {} /\ {} \in SUBSET Tasks /\ Ages
    BY <1>2, <2>3, NothingAges
  <2>6. DeliveredOK'
    BY <2>5, DeliveredKept
  <2> QED  BY <1>5, <2>3, <2>4, <2>6, ControllerStep
<1>7. CASE ~same
  <2>1. UNCHANGED hub
    BY <1>7 DEF StartInsert
  <2> QED  BY <1>1, <1>2, <1>3, <1>5, <2>1, QuietStep
<1> QED  BY <1>6, <1>7

\* shell_task binds a task to a generation whose Host has answered for it.
LEMMA ProvedProvenance ==
    ASSUME IInv, IInv', Provenance, NEW k \in Calls, Proved(k)
    PROVE  Provenance'
<1> DEFINE c == call[k]
<1>1. /\ CallsOK /\ CallShape(c) /\ c \in CallState /\ Knows(k) /\ hub \in HubState
      /\ c.pc = "proof" /\ c.task \in Tasks /\ c.dev \in Devices
      /\ c.reply \in {"ok", "notfound"}
      /\ Narrower(hub.proj, hub.proj)
  <2>1. c.pc = "proof" /\ c.reply # None
    BY DEF Proved, Answered
  <2> QED  BY <2>1, FutureFacts DEF CallShape, Knows
<1>2. UNCHANGED <<host, task, epochOf>>
  BY DEF Proved
<1>3. CASE c.reply = "notfound"
  <2>1. /\ Returns(k, FALSE)
        /\ hub'.next = hub.next /\ hub'.session = hub.session
        /\ Narrower(hub'.proj, hub.proj)
    BY <1>1, <1>3 DEF Proved, HubState, Narrower
  <2> QED  BY <1>1, <1>2, <2>1, ReturnsStep
<1>4. CASE c.reply = "ok" /\ ~MayRebind(c)
  <2>1. UNCHANGED hub /\ Returns(k, FALSE)
    BY <1>4 DEF Proved
  <2> QED  BY <1>1, <1>2, <2>1, ReturnsStep
<1>5. CASE c.reply = "ok" /\ MayRebind(c)
  <2>1. hub' = [hub EXCEPT !.proj[c.task] = Attached(c.dev, c.gen)]
    BY <1>5 DEF Proved, Attached
  <2>2. /\ task[c.task].phase # "none" /\ Bound(c.task, c.dev, c.gen)
        /\ c.gen \in 1..hub.next /\ task[c.task].confirmed > 0
    BY <1>1, <1>5 DEF Knows, Bound
  <2>3. /\ hub'.next = hub.next /\ hub'.session = hub.session
        /\ \A u \in Tasks : ProjectionOK(u)'
    BY <1>1, <1>2, <2>1, <2>2, BindProjections
  <2>4. AtController(k) /\ Knows(k)' /\ DeliveredOK'
    <3>1. CASE c.op = "status"
      <4>1. Returns(k, TRUE)
        BY <1>5, <3>1 DEF Proved
      <4> QED  BY <1>1, <1>2, <2>2, <2>3, <4>1, ReturnsKnows
    <3>2. CASE c.op # "status"
      <4> DEFINE n == [c EXCEPT !.pc = "send", !.reply = None]
      <4>1. UNCHANGED delivered /\ call' = [call EXCEPT ![k].pc = "send", ![k].reply = None]
        BY <1>5, <3>2 DEF Proved
      <4>2. call' = [call EXCEPT ![k] = n] /\ call'[k] = n
        BY <1>1, <4>1 DEF CallsOK, CallState
      <4>3. /\ n.pc = "send" /\ n.reply = None /\ n.task = c.task /\ n.dev = c.dev
            /\ n.gen = c.gen /\ n.why = c.why /\ n.op = c.op
        BY <1>1 DEF CallState
      <4> HIDE DEF n
      <4>4. Knows(k)'
        BY <1>1, <1>2, <2>3, <4>2, <4>3 DEF Knows, Live, None
      <4>5. AtController(k)
        BY <1>1, <1>2, <2>3, <4>2 DEF AtController, CallsOK
      <4>6. delivered' = delivered \cup {} /\ {} \in SUBSET Tasks /\ Ages
        BY <1>2, <2>3, <4>1, NothingAges
      <4> QED  BY <4>4, <4>5, <4>6, DeliveredKept
    <3> QED  BY <3>1, <3>2
  <2> QED  BY <2>3, <2>4, ControllerStep
<1> QED  BY <1>1, <1>3, <1>4, <1>5

\* The Controller's part of the invariant, when tasks only age, generations
\* stand and projections are at most lost.
LEMMA BeliefsKept ==
    ASSUME IInv, IInv', Provenance, Ages, EpochsStand, Narrower(hub'.proj, hub.proj),
           UNCHANGED delivered, EpochsOK', TasksOK',
           \A k \in Calls : call'[k] = call[k] \/ Knows(k)'
    PROVE  Provenance'
<1>1. \A k \in Calls : Knows(k)'
  BY CallKept
<1>2. \A t \in Tasks : ProjectionOK(t)'
  BY ProjectionsKept
<1>3. delivered' = delivered \cup {} /\ {} \in SUBSET Tasks
  OBVIOUS
<1>4. DeliveredOK'
  BY <1>3, DeliveredKept
<1> QED  BY <1>1, <1>2, <1>4 DEF Provenance

\* A new generation stands for a new epoch of its Host.
LEMMA ConnectProvenance ==
    ASSUME IInv, IInv', Provenance, NEW d \in Devices, Connect(d)
    PROVE  Provenance'
<1> DEFINE g == hub.next + 1  e == host[d].epoch + 1
<1>1. /\ hub \in HubState /\ now \in Nat /\ hub.next \in Nat /\ hub.next < MaxConns
      /\ hub.session \in [Devices -> Nat] /\ host[d].epoch \in Nat
      /\ host \in [Devices -> HostState] /\ task \in [Tasks -> TaskState]
      /\ epochOf \in [1..MaxConns -> Nat] /\ EpochsOK /\ TasksOK
  <2>1. /\ hub \in HubState /\ now \in Nat
        /\ host \in [Devices -> HostState] /\ task \in [Tasks -> TaskState]
        /\ epochOf \in [1..MaxConns -> Nat] /\ EpochsOK /\ TasksOK
    BY ShellAssumption DEF IInv, HubOK, RestOK, Provenance
  <2>2. hub.next < MaxConns
    BY DEF Connect
  <2> QED  BY <2>1, <2>2 DEF HubState, HostState
<1>2. /\ hub'.next = g /\ hub'.session = [hub.session EXCEPT ![d] = g]
      /\ Narrower(hub'.proj, hub.proj)
  BY ZenonT(60), <1>1, RegisterType, RegisterNarrows DEF Connect
<1>3. /\ epochOf' = [epochOf EXCEPT ![g] = e]
      /\ host' = [host EXCEPT ![d].up = TRUE, ![d].epoch = @ + 1, ![d].gen = g]
      /\ UNCHANGED <<task, call, delivered>>
  BY <1>2 DEF Connect
<1>4. g \in 1..MaxConns /\ \A i \in 1..hub.next : i \in 1..MaxConns /\ i # g
  BY <1>1, ShellAssumption
<1>5. EpochsStand
  BY <1>1, <1>2, <1>3, <1>4 DEF EpochsStand
<1>6. \A t \in Tasks : task[t].confirmed \in Nat
  BY <1>1 DEF TaskState
<1>7. Ages
  BY <1>3, <1>6 DEF Ages, Live
<1>8. /\ host'[d].up /\ host'[d].epoch = e /\ host'[d].gen = g
      /\ \A f \in Devices : f # d => host'[f] = host[f]
  BY <1>1, <1>3 DEF HostState
<1>9. EpochsOK'
  <2>1. ASSUME NEW f \in Devices
        PROVE  /\ hub'.session[f] <= hub'.next
               /\ host'[f].up => /\ host'[f].gen \in 1..hub'.next
                                 /\ host'[f].epoch > 0
                                 /\ epochOf'[host'[f].gen] = host'[f].epoch
    <3>1. CASE f = d
      <4>1. epochOf'[g] = e /\ hub'.session[d] = g
        BY <1>1, <1>2, <1>3, <1>4
      <4> QED  BY <1>1, <1>2, <1>8, <3>1, <4>1
    <3>2. CASE f # d
      <4>1. hub'.session[f] = hub.session[f] /\ host'[f] = host[f] /\ hub.session[f] \in Nat
        BY <1>1, <1>2, <1>8, <3>2
      <4>2. hub'.session[f] <= hub'.next
        BY <1>1, <1>2, <4>1 DEF EpochsOK
      <4>3. host[f].up => /\ host[f].gen \in 1..hub.next /\ host[f].epoch > 0
                          /\ epochOf[host[f].gen] = host[f].epoch
        BY <1>1 DEF EpochsOK
      <4> QED  BY <1>1, <1>2, <1>5, <4>1, <4>2, <4>3 DEF EpochsStand
    <3> QED  BY <3>1, <3>2
  <2> QED  BY <1>1, <1>2, <2>1, ShellAssumption DEF EpochsOK
<1>10. TasksOK'
  <2>1. ASSUME NEW t \in Tasks, Live(t)
        PROVE  task[t].dev \in Devices /\ task[t].confirmed <= host'[task[t].dev].epoch
    BY <1>1, <1>6, <1>8, <2>1 DEF TasksOK
  <2> QED  BY <1>3, <2>1 DEF TasksOK, Live
<1> QED  BY <1>2, <1>3, <1>5, <1>7, <1>9, <1>10, BeliefsKept

\* The end of a session at the Controller.
LEMMA ControllerDetachProvenance ==
    ASSUME IInv, IInv', Provenance, NEW s \in alive, ControllerDetach(s)
    PROVE  Provenance'
<1>1. /\ hub \in HubState /\ now \in Nat /\ s.dev \in Devices /\ s.gen \in Nat
      /\ EpochsOK /\ TasksOK /\ hub.next \in Nat /\ hub.session \in [Devices -> Nat]
  BY SMTT(30), ShellAssumption DEF IInv, HubOK, RestOK, Provenance, HubState
<1>2. /\ Narrower(hub'.proj, hub.proj)
      /\ \A e \in Devices : hub'.session[e] \in {hub.session[e], Offline}
  BY <1>1, UnregisterNarrows DEF ControllerDetach
<1>3. hub'.next = hub.next
  BY <1>1 DEF ControllerDetach, Unregister, EmptySlot, HubState
<1>4. UNCHANGED <<host, task, call, delivered, epochOf>>
  BY DEF ControllerDetach
<1>5. EpochsOK'
  <2>1. \A e \in Devices : hub'.session[e] <= hub'.next
    BY <1>1, <1>2, <1>3 DEF EpochsOK, Offline
  <2> QED  BY <1>1, <1>3, <1>4, <2>1 DEF EpochsOK
<1>6. TasksOK'
  BY <1>1, <1>4 DEF TasksOK, Live
<1> QED  BY <1>2, <1>3, <1>4, <1>5, <1>6, NothingAges, BeliefsKept

\* A step on a Host that keeps its epoch, or starts again at none.
LEMMA HostSideProvenance ==
    ASSUME IInv, IInv', Provenance, NEW d \in Devices,
           UNCHANGED <<hub, call, delivered, epochOf>>, Ages,
           \A e \in Devices : e # d => host'[e] = host[e],
           host'[d].up => host[d].up /\ host'[d].gen = host[d].gen,
           host'[d].epoch = host[d].epoch \/ (~host'[d].up /\ \A t \in Tasks : Live(t)' => task'[t].dev # d),
           \A t \in Tasks : Live(t)' => Live(t) /\ task'[t].dev = task[t].dev
                                                /\ task'[t].confirmed = task[t].confirmed
    PROVE  Provenance'
<1>1. EpochsOK /\ TasksOK /\ hub.next \in Nat
  BY DEF Provenance, IInv, HubOK, HubState
<1>2. EpochsStand /\ Narrower(hub'.proj, hub.proj)
  BY <1>1 DEF EpochsStand, Narrower
<1>3. EpochsOK'
  <2>1. ASSUME NEW e \in Devices, host'[e].up
        PROVE  host[e].up /\ host'[e].gen = host[e].gen /\ host'[e].epoch = host[e].epoch
    BY <2>1
  <2> QED  BY <1>1, <2>1 DEF EpochsOK
<1>4. TasksOK'
  <2>1. ASSUME NEW t \in Tasks, Live(t)'
        PROVE  /\ task'[t].dev \in Devices
               /\ task'[t].confirmed <= host'[task'[t].dev].epoch
    <3>1. /\ task[t].dev \in Devices /\ task[t].confirmed <= host[task[t].dev].epoch
          /\ task'[t].dev = task[t].dev /\ task'[t].confirmed = task[t].confirmed
      BY <1>1, <2>1 DEF TasksOK
    <3>2. host'[task[t].dev].epoch = host[task[t].dev].epoch
      BY <2>1, <3>1
    <3> QED  BY <3>1, <3>2
  <2> QED  BY <2>1 DEF TasksOK
<1> QED  BY <1>2, <1>3, <1>4, BeliefsKept

\* Cancelling or ending tasks ages them.
LEMMA EndedAges ==
    ASSUME IInv, NEW T \in SUBSET {t \in Tasks : task[t].phase = "running"}, task' = Ended(T)
    PROVE  /\ Ages
           /\ \A t \in Tasks : Live(t)' => Live(t) /\ task'[t].dev = task[t].dev
                                                   /\ task'[t].confirmed = task[t].confirmed
<1>1. task \in [Tasks -> TaskState]
  BY DEF IInv, RestOK
<1>2. ASSUME NEW t \in Tasks
      PROVE  /\ task'[t].dev = task[t].dev /\ task'[t].born = task[t].born
             /\ task'[t].confirmed = task[t].confirmed /\ task[t].confirmed \in Nat
             /\ task'[t].phase = task[t].phase
                \/ (task[t].phase = "running" /\ task'[t].phase = "ended")
  BY <1>1 DEF Ended, TaskState
<1> QED  BY <1>2 DEF Ages, Live

\* The session guard, the grace timer, a child that ends, a restart.
LEMMA HostEndsProvenance ==
    ASSUME IInv, IInv', Provenance, NEW d \in Devices,
           HostDetach(d) \/ GraceEnds(d) \/ HostRestart(d)
    PROVE  Provenance'
<1>1. host \in [Devices -> HostState] /\ task \in [Tasks -> TaskState]
  BY DEF IInv, RestOK
<1>2. CASE HostDetach(d)
  <2>1. PICK T \in SUBSET {t \in Tasks : task[t].phase = "running"} : task' = Ended(T)
    BY <1>2 DEF HostDetach, Running
  <2>2. /\ UNCHANGED <<hub, call, delivered, epochOf>>
        /\ ~host'[d].up /\ host'[d].epoch = host[d].epoch
        /\ \A e \in Devices : e # d => host'[e] = host[e]
    BY <1>1, <1>2 DEF HostDetach, HostState
  <2> QED  BY <2>1, <2>2, EndedAges, HostSideProvenance
<1>3. CASE GraceEnds(d)
  <2>1. PICK tm \in host[d].timers :
          /\ task' = Ended(Due(d, tm))
          /\ host' = [host EXCEPT ![d].timers = @ \ {tm}]
    BY <1>3 DEF GraceEnds
  <2>2. Due(d, tm) \in SUBSET {t \in Tasks : task[t].phase = "running"}
    BY DEF Due, Running
  <2>3. UNCHANGED <<hub, call, delivered, epochOf>>
    BY <1>3 DEF GraceEnds
  <2>4. /\ host'[d].up = host[d].up /\ host'[d].gen = host[d].gen
        /\ host'[d].epoch = host[d].epoch
        /\ \A e \in Devices : e # d => host'[e] = host[e]
    BY <1>1, <2>1 DEF HostState
  <2> QED  BY <2>1, <2>2, <2>3, <2>4, EndedAges, HostSideProvenance
<1>4. CASE HostRestart(d)
  <2>1. /\ UNCHANGED <<hub, call, delivered, epochOf>>
        /\ ~host'[d].up /\ \A e \in Devices : e # d => host'[e] = host[e]
    BY <1>1, <1>4 DEF HostRestart, HostState
  <2>2. ASSUME NEW t \in Tasks
        PROVE  /\ task'[t].dev = task[t].dev /\ task'[t].born = task[t].born
               /\ task'[t].confirmed = task[t].confirmed /\ task[t].confirmed \in Nat
               /\ IF task[t].dev = d THEN task'[t].phase = "gone"
                  ELSE task'[t].phase = task[t].phase
    BY <1>1, <1>4 DEF HostRestart, TaskState
  <2>3. Ages
    BY <2>2 DEF Ages, Live
  <2>4. \A t \in Tasks : Live(t)' => /\ Live(t) /\ task'[t].dev = task[t].dev
                                     /\ task'[t].confirmed = task[t].confirmed
                                     /\ task'[t].dev # d
    BY <2>2 DEF Live
  <2> QED  BY <2>1, <2>3, <2>4, HostSideProvenance
<1> QED  BY <1>2, <1>3, <1>4

\* The clock and a child that ends by itself.
LEMMA TaskSideProvenance ==
    ASSUME IInv, IInv', Provenance, Tick \/ UNCHANGED vars \/ \E t \in Tasks : ChildEnds(t)
    PROVE  Provenance'
<1>1. UNCHANGED <<hub, host, call, delivered, epochOf>>
  BY DEF Tick, ChildEnds, vars
<1>2. /\ Ages
      /\ \A t \in Tasks : Live(t)' => Live(t) /\ task'[t].dev = task[t].dev
                                              /\ task'[t].confirmed = task[t].confirmed
  <2>1. CASE UNCHANGED task
    BY <1>1, <2>1, NothingAges DEF Live
  <2>2. ASSUME NEW u \in Tasks, ChildEnds(u)
        PROVE  /\ Ages
               /\ \A t \in Tasks : Live(t)' => Live(t) /\ task'[t].dev = task[t].dev
                                                       /\ task'[t].confirmed = task[t].confirmed
    <3>1. {u} \in SUBSET {t \in Tasks : task[t].phase = "running"} /\ task' = Ended({u})
      BY <2>2 DEF ChildEnds
    <3> QED  BY <3>1, EndedAges
  <2> QED  BY <2>1, <2>2 DEF Tick, vars
<1>3. EpochsOK /\ TasksOK /\ EpochsStand /\ Narrower(hub'.proj, hub.proj)
  BY <1>1, FutureFacts DEF Provenance, EpochsStand, Narrower, IInv, HubOK, HubState
<1>4. EpochsOK' /\ TasksOK'
  BY <1>1, <1>2, <1>3 DEF EpochsOK, TasksOK
<1> QED  BY <1>1, <1>2, <1>3, <1>4, BeliefsKept

\* HostShellService::start gives out a task nobody has heard of.
LEMMA HostStartProvenance ==
    ASSUME IInv, IInv', Provenance, NEW k \in Calls, HostStart(k)
    PROVE  Provenance'
<1> DEFINE c == call[k]  d == call[k].dev
<1>1. /\ CallsOK /\ CallShape(c) /\ c \in CallState /\ Knows(k)
      /\ c.pc = "start" /\ d \in Devices
  BY FutureFacts DEF HostStart, CallShape
<1>2. /\ UNCHANGED <<hub, host, delivered, epochOf>>
      /\ host[d].up /\ host[d].gen = c.gen
  BY DEF HostStart, Reaches
<1>3. PICK t \in Tasks, Forget \in SUBSET (Stored(d) \ Running(d)) :
         /\ task[t].phase = "none"
         /\ task' = [u \in Tasks |->
               IF u = t THEN [phase |-> "running", dev |-> d,
                              born |-> host[d].epoch, confirmed |-> 0]
               ELSE IF u \in Forget THEN [task[u] EXCEPT !.phase = "gone"]
               ELSE task[u]]
         /\ call' = [call EXCEPT ![k].reply = "ok", ![k].task = t]
  BY DEF HostStart
<1>4. task \in [Tasks -> TaskState] /\ host[d].epoch \in Nat /\ EpochsOK /\ TasksOK
  BY <1>1 DEF IInv, RestOK, HostState, Provenance
<1>5. /\ task'[t].phase = "running" /\ task'[t].dev = d /\ task'[t].born = host[d].epoch
      /\ task'[t].confirmed = 0
  BY <1>3
<1>6. ASSUME NEW u \in Tasks, u # t
      PROVE  /\ task'[u].dev = task[u].dev /\ task'[u].born = task[u].born
             /\ task'[u].confirmed = task[u].confirmed /\ task[u].confirmed \in Nat
             /\ task'[u].phase = task[u].phase \/ (task[u].phase # "none" /\ task'[u].phase = "gone")
  <2>1. Forget \subseteq {v \in Tasks : task[v].phase # "none"}
    BY DEF Stored
  <2> QED  BY <1>3, <1>4, <1>6, <2>1 DEF TaskState
<1>7. Ages
  BY <1>3, <1>6 DEF Ages, Live
<1>8. EpochsStand /\ Narrower(hub'.proj, hub.proj) /\ EpochsOK'
  BY <1>2, <1>4 DEF EpochsStand, Narrower, EpochsOK, IInv, HubOK, HubState
<1>9. TasksOK'
  <2>1. ASSUME NEW u \in Tasks, Live(u)'
        PROVE  task'[u].dev \in Devices /\ task'[u].confirmed <= host[task'[u].dev].epoch
    <3>1. CASE u = t
      BY <1>1, <1>4, <1>5, <3>1
    <3>2. CASE u # t
      BY <1>4, <1>6, <2>1, <3>2 DEF TasksOK, Live
    <3> QED  BY <3>1, <3>2
  <2> QED  BY <1>2, <2>1 DEF TasksOK
<1> DEFINE n == [c EXCEPT !.reply = "ok", !.task = t]
<1>10. call' = [call EXCEPT ![k] = n] /\ call'[k] = n
  BY <1>1, <1>3 DEF CallsOK, CallState
<1>11. n.pc = "start" /\ n.task = t /\ n.dev = d /\ n.gen = c.gen
  BY <1>1 DEF CallState
<1> HIDE DEF n
<1>12. epochOf[c.gen] = host[d].epoch /\ c.gen \in 1..hub.next
  BY <1>1, <1>2, <1>4 DEF EpochsOK
<1>13. Knows(k)'
  BY <1>2, <1>5, <1>10, <1>11, <1>12 DEF Knows
<1>14. \A j \in Calls : call'[j] = call[j] \/ Knows(j)'
  BY <1>1, <1>10, <1>13 DEF CallsOK
<1> QED  BY <1>2, <1>7, <1>8, <1>9, <1>14, BeliefsKept

\* HostShellService::status and attach confirm the task for this epoch.
LEMMA HostAnswersProvenance ==
    ASSUME IInv, IInv', Provenance, NEW k \in Calls, HostAnswers(k)
    PROVE  Provenance'
<1> DEFINE c == call[k]
<1> DEFINE what == IF c.pc = "proof" THEN "status" ELSE c.op
<1> DEFINE e == host[c.dev].epoch
<1> DEFINE r == IF Live(c.task) THEN "ok" ELSE "notfound"
<1>1. /\ CallsOK /\ CallShape(c) /\ c \in CallState /\ Knows(k)
      /\ c.pc \in {"proof", "send"} /\ c.dev \in Devices /\ c.task \in Tasks
  BY FutureFacts DEF HostAnswers, CallShape
<1>2. /\ UNCHANGED <<hub, host, delivered, epochOf>>
      /\ host[c.dev].up /\ host[c.dev].gen = c.gen
  BY DEF HostAnswers, Reaches
<1>3. /\ task \in [Tasks -> TaskState] /\ e \in Nat /\ EpochsOK /\ TasksOK
      /\ host \in [Devices -> HostState]
  BY <1>1 DEF IInv, RestOK, HostState, Provenance
<1>4. epochOf[c.gen] = e /\ e > 0 /\ c.gen \in 1..hub.next
  BY <1>1, <1>2, <1>3 DEF EpochsOK
<1>5. Live(c.task) => task[c.task].dev = c.dev /\ task[c.task].confirmed <= e
  BY <1>1, <1>3 DEF Knows, TasksOK
<1>6. ASSUME NEW u \in Tasks
      PROVE  /\ task'[u].dev = task[u].dev /\ task'[u].born = task[u].born
             /\ task'[u].confirmed \in Nat /\ task[u].confirmed \in Nat
             /\ task'[u].phase = task[u].phase \/ (Live(u) /\ task'[u].phase = "ended")
             /\ \/ task'[u].confirmed = task[u].confirmed
                \/ u = c.task /\ Live(u) /\ task'[u].confirmed = e
             /\ u = c.task /\ Live(u) /\ what # "cancel" => task'[u].confirmed = e
  <2>1. CASE ~Live(c.task)
    BY <1>3, <2>1 DEF HostAnswers, Live, TaskState
  <2>2. CASE Live(c.task) /\ what = "cancel"
    <3>1. task' = Ended({c.task})
      BY <2>2 DEF HostAnswers, Live
    <3> QED  BY <1>3, <2>2, <3>1 DEF Ended, Live, TaskState
  <2>3. CASE Live(c.task) /\ what # "cancel"
    <3>1. task' = [task EXCEPT ![c.task].confirmed = e]
      BY <2>3 DEF HostAnswers, Live
    <3> QED  BY <1>1, <1>3, <2>3, <3>1 DEF Live, TaskState
  <2> QED  BY <2>1, <2>2, <2>3
<1>7. Ages
  BY <1>3, <1>5, <1>6 DEF Ages, Live
<1>8. EpochsStand /\ Narrower(hub'.proj, hub.proj) /\ EpochsOK'
  BY <1>2, <1>3 DEF EpochsStand, Narrower, EpochsOK, IInv, HubOK, HubState
<1>9. TasksOK'
  <2>1. ASSUME NEW u \in Tasks, Live(u)'
        PROVE  task'[u].dev \in Devices /\ task'[u].confirmed <= host[task'[u].dev].epoch
    <3>1. Live(u) /\ task'[u].dev = task[u].dev
      BY <1>6, <2>1 DEF Live
    <3> QED  BY <1>3, <1>5, <1>6, <3>1 DEF TasksOK
  <2> QED  BY <1>2, <2>1 DEF TasksOK
<1> DEFINE n == [c EXCEPT !.reply = r]
<1>10. call' = [call EXCEPT ![k].reply = r] /\ r \in {"ok", "notfound"}
  BY DEF HostAnswers, Replied, Live
<1>11. r = "ok" => Live(c.task)
  OBVIOUS
<1> HIDE DEF r
<1>12. call' = [call EXCEPT ![k] = n] /\ call'[k] = n
  BY <1>1, <1>10 DEF CallsOK, CallState
<1>13. /\ n.pc = c.pc /\ n.task = c.task /\ n.dev = c.dev /\ n.gen = c.gen
       /\ n.reply = r /\ n.why = c.why /\ n.op = c.op
  BY <1>1 DEF CallState
<1> HIDE DEF n
<1>14. /\ c.pc = "proof" /\ r = "ok" => task'[c.task].confirmed = e
       /\ c.pc = "send" /\ r = "ok" /\ c.op = "status" => task'[c.task].confirmed = e
  BY <1>1, <1>6, <1>11
<1>15. /\ task'[c.task].phase # "none"
       /\ task'[c.task].phase \in {"running", "ended"} => task'[c.task].dev = c.dev
  BY <1>1, <1>5, <1>6 DEF Knows, Live
<1>16. c.why = "receipt" => c.op = "status"
  BY <1>1 DEF Knows
<1> HIDE DEF c, e, what
<1>17. Knows(k)'
  <2>1. /\ c.pc = "proof" /\ r = "ok" => /\ task'[c.task].confirmed > 0
                                         /\ epochOf'[c.gen] <= task'[c.task].confirmed
        /\ c.pc = "send" /\ r = "ok" /\ c.op = "status" => task'[c.task].confirmed > 0
        /\ c.gen \in 1..hub'.next
    BY <1>2, <1>3, <1>4, <1>14
  <2>2. /\ c.pc \in {"proof", "send"} /\ r \in {None, "ok", "notfound"}
    BY <1>1, <1>10
  <2> QED  BY <1>12, <1>13, <1>15, <1>16, <2>1, <2>2 DEF Knows, Live
<1>18. \A j \in Calls : call'[j] = call[j] \/ Knows(j)'
  BY <1>1, <1>12, <1>17 DEF CallsOK
<1> QED  BY <1>2, <1>7, <1>8, <1>9, <1>18, BeliefsKept

\* Every step keeps what the Controller believes true: one case per action.
LEMMA NextProvenance == IInv /\ IInv' /\ Provenance /\ [Next]_vars => Provenance'
<1> SUFFICES ASSUME IInv, IInv', Provenance, [Next]_vars PROVE Provenance'
  OBVIOUS
<1>1. CASE Tick \/ UNCHANGED vars \/ \E t \in Tasks : ChildEnds(t)
  BY <1>1, TaskSideProvenance
<1>2. ASSUME NEW d \in Devices,
             Connect(d) \/ HostDetach(d) \/ GraceEnds(d) \/ HostRestart(d)
      PROVE  Provenance'
  BY <1>2, ConnectProvenance, HostEndsProvenance
<1>3. ASSUME NEW s \in alive, ControllerDetach(s) PROVE Provenance'
  BY <1>3, ControllerDetachProvenance
<1>4. ASSUME NEW k \in Calls,
             \/ \E d \in Devices : StartReserve(k, d)
             \/ \E t \in Tasks, op \in Ops : FollowUp(k, t, op)
             \/ HostStart(k) \/ HostRefuses(k) \/ HostAnswers(k)
             \/ StartReplied(k) \/ StartLost(k) \/ StartInsert(k) \/ StartDrop(k)
             \/ CallerLeaves(k) \/ ReplyUnheard(k)
             \/ Lookup(k) \/ GotSession(k) \/ AwaitTimesOut(k)
             \/ Proved(k) \/ Completed(k) \/ RpcLost(k)
      PROVE  Provenance'
  BY <1>4, StartReserveProvenance, FollowUpProvenance, HostStartProvenance,
     HostAnswersProvenance, LeavesProvenance, StartRepliedProvenance, EndsProvenance,
     StartInsertProvenance, LookupProvenance, GotSessionProvenance, LostProvenance,
     ProvedProvenance, CompletedProvenance
<1> QED  BY <1>1, <1>2, <1>3, <1>4 DEF Next

\* Nothing is believed of a task that its Host has not said: a projection names
\* the task's own device and a generation that started or confirmed it, and a
\* TaskId is handed to a caller only after the Host confirmed the task, however
\* sessions are lost, replaced and proved again and whoever leaves.
THEOREM TaskIsProvedThm == Spec => []TaskIsProved
<1>1. Init => IInv /\ Provenance
  BY InitIInv, InitProvenance
<1>2. IInv /\ Provenance /\ [Next]_vars => IInv' /\ Provenance'
  BY NextIInv, NextProvenance
<1>3. IInv /\ Provenance => TaskIsProved
  BY ProvenanceImplies
<1> QED  BY <1>1, <1>2, <1>3, PTL DEF Spec

-----------------------------------------------------------------------------
(***************************************************************************)
(* No task that nobody can name is left running.  A task is in the care of *)
(* the Controller while the session it was started in is there on both     *)
(* sides; from the moment one of them has lost it, a timer or the next     *)
(* detach of the Host will see to it.                                      *)
(***************************************************************************)
InCare(t) ==
    LET d == task[t].dev
    IN  /\ task[t].phase = "running"
        /\ host[d].up /\ host[d].epoch = task[t].born
        /\ hub.session[d] = host[d].gen

\* The call is between the Host's start of its task and the projection.
Delivers(k) == call[k].pc = "insert" \/ (call[k].pc = "start" /\ call[k].reply = "ok")

\* The call may still name t.
Holds(k, t) ==
    /\ call[k].task = t
    /\ Delivers(k) \/ call[k].pc \in {"lookup", "await", "proof", "send", "drop"}

\* A task is born in an epoch of its Host, and once that is over, or the Host
\* has left it, a timer counts the task.
TimedOK(t) ==
    task[t].phase = "running" =>
        LET h == host[task[t].dev]
        IN  /\ task[t].born <= h.epoch
            /\ task[t].confirmed <= task[t].born /\ (task[t].born < h.epoch \/ ~h.up)
                 => \E tm \in h.timers : task[t].born <= tm.epoch

\* The projection of a task in the session of its Host, which does not expire.
Safe(t) == hub.proj[t] = Attached(task[t].dev, host[task[t].dev].gen)

\* A task in care is on its way to such a projection, or has it.
CareOK(t) == InCare(t) => Safe(t) \/ \E k \in Calls : Delivers(k) /\ call[k].task = t

\* Nobody else knows of a task on its way.
SoleOK(k) ==
    Delivers(k) => /\ hub.proj[call[k].task] = NoProjection
                   /\ call[k].task \notin delivered
                   /\ \A j \in Calls \ {k} : ~Holds(j, call[k].task)

\* What a future that is about a task in care will not do to it.
HarmlessOK(k) ==
    LET c == call[k]
        g == host[task[c.task].dev].gen
    IN  /\ c.why = "cleanup" /\ c.pc \in {"lookup", "await", "proof", "send"} => c.op = "cancel"
        /\ Holds(k, c.task) /\ InCare(c.task) =>
              /\ c.pc \notin {"proof", "drop"}
              /\ c.pc = "await" => c.snap.gen = g
              /\ c.pc = "send" => /\ c.gen = g /\ c.reply # "notfound"
                                  /\ c.op = "cancel" => c.reply = None
              /\ Delivers(k) => c.gen = g

\* A session in its slot has its handler.
SessionsServed ==
    \A d \in Devices : hub.session[d] # Offline => [dev |-> d, gen |-> hub.session[d]] \in alive

Custody ==
    /\ SessionsServed
    /\ \A t \in Tasks : TimedOK(t) /\ CareOK(t)
    /\ \A k \in Calls : SoleOK(k) /\ HarmlessOK(k)

\* A task in care lives on one of the devices, and the generation of its Host
\* is in that device's slot.
LEMMA InCareFacts ==
    ASSUME IInv, Provenance, NEW t \in Tasks, InCare(t)
    PROVE  /\ task[t].phase = "running" /\ Live(t) /\ task[t].dev \in Devices
           /\ hub.session[task[t].dev] = host[task[t].dev].gen
           /\ host[task[t].dev].gen \in Nat /\ host[task[t].dev].gen # Offline
<1>1. Live(t) /\ task[t].dev \in Devices
  BY DEF InCare, Live, Provenance, TasksOK
<1> QED  BY <1>1 DEF InCare, Provenance, EpochsOK, IInv, HubOK, HubState, Offline

\* A future that holds a task holds one that was started.
LEMMA HeldTask ==
    ASSUME IInv, Provenance, NEW k \in Calls, NEW t, Holds(k, t)
    PROVE  t \in Tasks /\ task[t].phase # "none"
BY FutureFacts DEF Holds, Delivers, CallShape, Knows

\* It implies what is checked.
LEMMA CustodyImplies == IInv /\ Provenance /\ Custody => UnprovedOrphanDies
<1> SUFFICES ASSUME IInv, Provenance, Custody, NEW t \in Tasks,
                    task[t].phase = "running", task[t].confirmed <= task[t].born,
                    Forgotten(t), ~Doomed(t)
             PROVE  FALSE
  BY DEF UnprovedOrphanDies
<1> DEFINE d == task[t].dev
<1>1. /\ host[d].up /\ hub.session[d] = host[d].gen
      /\ \A tm \in host[d].timers : t \notin Due(d, tm)
  BY DEF Doomed
<1>2. TimedOK(t) /\ CareOK(t) /\ d \in Devices
  BY DEF Custody, Provenance, TasksOK, Live
<1>3. /\ task[t].born \in Nat /\ task[t].confirmed \in Nat /\ host[d].epoch \in Nat
      /\ \A tm \in host[d].timers : tm.epoch \in Nat
  BY <1>2 DEF IInv, RestOK, TaskState, HostState, Timer
<1>4. CASE task[t].born < host[d].epoch
  <2>1. PICK tm \in host[d].timers : task[t].born <= tm.epoch
    BY <1>2, <1>4 DEF TimedOK
  <2>2. t \in Due(d, tm)
    BY <1>3, <2>1 DEF Due, Running
  <2> QED  BY <1>1, <2>2
<1>5. CASE task[t].born = host[d].epoch
  <2>1. InCare(t)
    BY <1>1, <1>5 DEF InCare
  <2>2. hub.proj[t] = NoProjection /\ \A k \in Calls : Delivers(k) => call[k].task # t
    BY DEF Forgotten, Delivers
  <2>3. Safe(t)
    BY <1>2, <2>1, <2>2 DEF CareOK
  <2> QED  BY <1>2, <2>2, <2>3, HubAssumption DEF Safe, Attached, NoProjection
<1>6. task[t].born <= host[d].epoch
  BY <1>2 DEF TimedOK
<1> QED  BY <1>3, <1>4, <1>5, <1>6

\* At the start there is no task.
LEMMA InitCustody == Init => Custody
<1> SUFFICES ASSUME Init PROVE Custody
  OBVIOUS
<1>1. SessionsServed
  BY DEF Init, SessionsServed, HubInit
<1>2. \A t \in Tasks : TimedOK(t) /\ CareOK(t)
  BY DEF Init, TimedOK, CareOK, InCare
<1>3. \A k \in Calls : call[k].pc = "idle" /\ call[k].why = None
  BY DEF Init, Idle
<1>4. \A k \in Calls : SoleOK(k) /\ HarmlessOK(k)
  BY <1>3 DEF SoleOK, HarmlessOK, Holds, Delivers
<1> QED  BY <1>1, <1>2, <1>4 DEF Custody

\* No step takes a task that was started into care, and one that stays there
\* keeps its session.
CareShrinks ==
    \A t \in Tasks :
        task[t].phase # "none" /\ InCare(t)' =>
            /\ InCare(t) /\ task'[t].dev = task[t].dev
            /\ host'[task[t].dev].gen = host[task[t].dev].gen

\* Under such a step a future that does not move stays harmless.
LEMMA HarmlessKept ==
    ASSUME IInv, Provenance, Custody, CareShrinks, NEW k \in Calls, call'[k] = call[k]
    PROVE  HarmlessOK(k)'
<1> DEFINE c == call[k]
<1>1. HarmlessOK(k)
  BY DEF Custody
<1>2. Holds(k, c.task)' <=> Holds(k, c.task)
  BY DEF Holds, Delivers
<1>3. Holds(k, c.task) /\ InCare(c.task)' =>
        /\ InCare(c.task) /\ task'[c.task].dev = task[c.task].dev
        /\ host'[task[c.task].dev].gen = host[task[c.task].dev].gen
  BY HeldTask DEF CareShrinks
<1>4. Delivers(k)' <=> Delivers(k)
  BY DEF Delivers
<1> QED  BY ZenonT(40), <1>1, <1>2, <1>3, <1>4 DEF HarmlessOK, Holds, InCare

\* A step in which no future moves.
LEMMA FuturesStay ==
    ASSUME IInv, IInv', Provenance, Custody, CareShrinks, UNCHANGED <<call, delivered>>,
           Narrower(hub'.proj, hub.proj), SessionsServed',
           \A t \in Tasks : TimedOK(t)',
           \A t \in Tasks : task'[t].phase = "running" => task[t].phase = "running",
           \A t \in Tasks : InCare(t)' /\ Safe(t) => hub'.proj[t] = hub.proj[t]
    PROVE  Custody'
<1>1. \A k \in Calls : HarmlessOK(k)'
  BY HarmlessKept
<1>2. ASSUME NEW k \in Calls PROVE SoleOK(k)'
  <2>1. SUFFICES ASSUME Delivers(k)
                 PROVE  /\ hub'.proj[call[k].task] = NoProjection
                        /\ call[k].task \notin delivered
                        /\ \A j \in Calls \ {k} : ~Holds(j, call[k].task)
    BY DEF SoleOK, Delivers, Holds
  <2>2. SoleOK(k) /\ call[k].task \in Tasks
    BY <2>1, HeldTask DEF Custody, Holds
  <2> QED  BY <2>1, <2>2 DEF SoleOK, Narrower
<1>3. ASSUME NEW t \in Tasks PROVE CareOK(t)'
  <2>1. SUFFICES ASSUME InCare(t)'
                 PROVE  Safe(t)' \/ \E k \in Calls : Delivers(k)' /\ call'[k].task = t
    BY DEF CareOK
  <2>2. task[t].phase # "none"
    BY <2>1 DEF InCare
  <2>3. /\ InCare(t) /\ task'[t].dev = task[t].dev
        /\ host'[task[t].dev].gen = host[task[t].dev].gen /\ CareOK(t)
    BY <2>1, <2>2 DEF CareShrinks, Custody
  <2>4. CASE Safe(t)
    BY <2>1, <2>3, <2>4 DEF Safe
  <2>5. CASE \E k \in Calls : Delivers(k) /\ call[k].task = t
    BY <2>5 DEF Delivers
  <2> QED  BY <2>3, <2>4, <2>5 DEF CareOK
<1> QED  BY <1>1, <1>2, <1>3 DEF Custody

\* The new session of a Host: its tasks are all of an earlier epoch.
LEMMA ConnectCustody ==
    ASSUME IInv, IInv', Provenance, Custody, NEW d \in Devices, Connect(d)
    PROVE  Custody'
<1> DEFINE g == hub.next + 1
<1>1. /\ hub \in HubState /\ now \in Nat /\ hub.next \in Nat
      /\ host \in [Devices -> HostState] /\ task \in [Tasks -> TaskState]
      /\ hub.session \in [Devices -> Nat] /\ host[d].epoch \in Nat
      /\ ~host[d].up
  <2>1. /\ hub \in HubState /\ now \in Nat
        /\ host \in [Devices -> HostState] /\ task \in [Tasks -> TaskState]
    BY ShellAssumption DEF IInv, HubOK, RestOK
  <2>2. ~host[d].up
    BY DEF Connect
  <2> QED  BY <2>1, <2>2 DEF HubState, HostState
<1>2. /\ hub' = Register(hub, d, now)
      /\ hub'.next = g /\ hub'.session = [hub.session EXCEPT ![d] = g]
      /\ Narrower(hub'.proj, hub.proj)
  BY ZenonT(60), <1>1, RegisterType, RegisterNarrows DEF Connect
<1>3. /\ host' = [host EXCEPT ![d].up = TRUE, ![d].epoch = @ + 1, ![d].gen = g]
      /\ alive' = alive \cup {[dev |-> d, gen |-> g]}
      /\ UNCHANGED <<task, call, delivered>>
  BY <1>2 DEF Connect
<1>4. /\ host'[d].up /\ host'[d].epoch = host[d].epoch + 1 /\ host'[d].timers = host[d].timers
      /\ \A f \in Devices : f # d => host'[f] = host[f] /\ hub'.session[f] = hub.session[f]
  BY <1>1, <1>2, <1>3 DEF HostState
<1>5. ASSUME NEW t \in Tasks, task[t].phase = "running"
      PROVE  /\ task[t].dev \in Devices /\ task[t].born \in Nat /\ task[t].confirmed \in Nat
             /\ TimedOK(t)
  BY <1>1, <1>5 DEF Provenance, TasksOK, Live, Custody, TaskState
<1>6. ASSUME NEW t \in Tasks, InCare(t)'
      PROVE  task[t].dev # d
  <2>1. task[t].phase = "running" /\ host'[task[t].dev].epoch = task[t].born
    BY <1>3, <1>6 DEF InCare
  <2>2. task[t].dev = d => task[t].born <= host[d].epoch /\ task[t].born = host[d].epoch + 1
    BY <1>4, <1>5, <2>1 DEF TimedOK
  <2> QED  BY <1>1, <2>2
<1>7. CareShrinks
  <2>1. ASSUME NEW t \in Tasks, InCare(t)'
        PROVE  InCare(t) /\ host'[task[t].dev].gen = host[task[t].dev].gen
    <3>1. task[t].phase = "running" /\ task[t].dev # d /\ task[t].dev \in Devices
      BY <1>3, <1>5, <1>6, <2>1 DEF InCare
    <3>2. host'[task[t].dev] = host[task[t].dev] /\ hub'.session[task[t].dev] = hub.session[task[t].dev]
      BY <1>4, <3>1
    <3> QED  BY <1>3, <2>1, <3>1, <3>2 DEF InCare
  <2> QED  BY <1>3, <2>1 DEF CareShrinks
<1>8. SessionsServed'
  <2>1. hub'.session[d] = g
    BY <1>1, <1>2
  <2> QED  BY <1>3, <1>4, <2>1 DEF SessionsServed, Custody
<1>9. ASSUME NEW t \in Tasks PROVE TimedOK(t)'
  BY <1>1, <1>3, <1>4, <1>5 DEF TimedOK
<1>10. ASSUME NEW t \in Tasks, InCare(t)', Safe(t) PROVE hub'.proj[t] = hub.proj[t]
  <2>1. hub.proj[t].dev # d /\ hub.proj[t].deadline = NoDeadline
    BY <1>6, <1>10 DEF Safe, Attached
  <2> QED  BY <1>1, <1>2, <2>1 DEF Register, Detach, Prune, Expired, HubState
<1> QED  BY <1>2, <1>3, <1>7, <1>8, <1>9, <1>10, FuturesStay

\* The end of a session at the Controller.
LEMMA ControllerDetachCustody ==
    ASSUME IInv, IInv', Provenance, Custody, NEW s \in alive, ControllerDetach(s)
    PROVE  Custody'
<1>1. /\ hub \in HubState /\ now \in Nat /\ s.dev \in Devices /\ s.gen \in Nat
      /\ s = [dev |-> s.dev, gen |-> s.gen]
      /\ hub.session \in [Devices -> Nat]
  BY SMTT(30), ShellAssumption DEF IInv, HubOK, RestOK, HubState
<1>2. /\ hub' = Unregister(hub, s.dev, s.gen, now) /\ alive' = alive \ {s}
      /\ UNCHANGED <<host, task, call, delivered>>
      /\ Narrower(hub'.proj, hub.proj)
  BY <1>1, UnregisterNarrows DEF ControllerDetach
<1>3. /\ \A d \in Devices : d # s.dev => hub'.session[d] = hub.session[d]
      /\ IF hub.session[s.dev] = s.gen
         THEN /\ hub'.session[s.dev] = Offline
              /\ hub'.proj = Detach(hub.proj, s.dev, s.gen, now)
         ELSE hub' = hub
  BY <1>1, <1>2 DEF Unregister, EmptySlot, HubState
<1>4. ASSUME NEW t \in Tasks, InCare(t)'
      PROVE  InCare(t) /\ (hub' = hub \/ task[t].dev # s.dev)
  <2>1. /\ task[t].phase = "running" /\ host[task[t].dev].up
        /\ host[task[t].dev].epoch = task[t].born
        /\ hub'.session[task[t].dev] = host[task[t].dev].gen
    BY <1>2, <1>4 DEF InCare
  <2>2. task[t].dev \in Devices /\ host[task[t].dev].gen # Offline
    BY <2>1 DEF Provenance, TasksOK, Live, EpochsOK, Offline, IInv, HubOK, HubState
  <2> QED  BY <1>3, <2>1, <2>2 DEF InCare
<1>5. CareShrinks
  BY <1>2, <1>4 DEF CareShrinks
<1>6. SessionsServed'
  <2>1. ASSUME NEW d \in Devices, hub'.session[d] # Offline
        PROVE  [dev |-> d, gen |-> hub'.session[d]] \in alive'
    <3>1. hub'.session[d] = hub.session[d] /\ (d = s.dev => hub.session[d] # s.gen)
      BY <1>3, <2>1
    <3>2. [dev |-> d, gen |-> hub.session[d]] # s
      BY <1>1, <3>1
    <3> QED  BY <1>2, <2>1, <3>1, <3>2 DEF Custody, SessionsServed
  <2> QED  BY <2>1 DEF SessionsServed
<1>7. \A t \in Tasks : TimedOK(t)'
  BY <1>2 DEF Custody, TimedOK
<1>8. ASSUME NEW t \in Tasks, InCare(t)', Safe(t) PROVE hub'.proj[t] = hub.proj[t]
  <2>1. hub.proj[t].dev = task[t].dev
    BY <1>8 DEF Safe, Attached
  <2> QED  BY <1>1, <1>3, <1>4, <1>8, <2>1 DEF Detach, HubState
<1> QED  BY <1>2, <1>5, <1>6, <1>7, <1>8, FuturesStay

\* What happens on a Host, between requests, to the tasks that go on running.
LEMMA HostSideCustody ==
    ASSUME IInv, IInv', Provenance, Custody, NEW d \in Devices,
           UNCHANGED <<hub, alive, call, delivered>>,
           \A e \in Devices : e # d => host'[e] = host[e],
           host'[d].up => host'[d].gen = host[d].gen /\ host[d].up,
           host'[d].epoch = host[d].epoch \/ (~host'[d].up /\ \A t \in Running(d) : task'[t].phase # "running"),
           \A t \in Tasks : task'[t].phase = "running" => task'[t] = task[t],
           \A t \in Running(d) : TimedOK(t)'
    PROVE  Custody'
<1>1. hub \in HubState
  BY DEF IInv, HubOK
<1>2. Narrower(hub'.proj, hub.proj) /\ SessionsServed'
  BY DEF Narrower, SessionsServed, Custody
<1>3. ASSUME NEW t \in Tasks, task'[t].phase = "running"
      PROVE  /\ task'[t] = task[t] /\ task[t].phase = "running" /\ task[t].dev \in Devices
             /\ task[t].dev = d => t \in Running(d)
  BY <1>3 DEF Provenance, TasksOK, Live, Running
<1>4. ASSUME NEW t \in Tasks, InCare(t)'
      PROVE  /\ InCare(t) /\ task'[t].dev = task[t].dev
             /\ host'[task[t].dev].gen = host[task[t].dev].gen
  <2>1. task'[t].phase = "running"
    BY <1>4 DEF InCare
  <2>2. CASE task[t].dev = d
    BY <1>3, <1>4, <2>1, <2>2 DEF InCare
  <2>3. CASE task[t].dev # d
    BY <1>3, <1>4, <2>1, <2>3 DEF InCare
  <2> QED  BY <2>2, <2>3
<1>5. CareShrinks
  BY <1>4 DEF CareShrinks
<1>6. ASSUME NEW t \in Tasks PROVE TimedOK(t)'
  <2>1. CASE task'[t].phase # "running"
    BY <2>1 DEF TimedOK
  <2>2. CASE task'[t].phase = "running" /\ task[t].dev = d
    BY <1>3, <2>2
  <2>3. CASE task'[t].phase = "running" /\ task[t].dev # d
    BY <1>3, <2>3 DEF TimedOK, Custody
  <2> QED  BY <2>1, <2>2, <2>3
<1> QED  BY <1>2, <1>3, <1>5, <1>6, FuturesStay

\* Ending tasks leaves the others as they are.
LEMMA EndedKeeps ==
    ASSUME IInv, NEW T, task' = Ended(T)
    PROVE  /\ \A t \in Tasks : task'[t].phase = "running" => task'[t] = task[t] /\ t \notin T
           /\ \A t \in Tasks : task[t].phase = "running" /\ t \in T => task'[t].phase # "running"
BY DEF IInv, RestOK, Ended, TaskState

\* The session guard, the grace timer and a restart of the Host.
LEMMA DeviceSideCustody ==
    ASSUME IInv, IInv', Provenance, Custody, NEW d \in Devices,
           HostDetach(d) \/ GraceEnds(d) \/ HostRestart(d)
    PROVE  Custody'
<1>1. host \in [Devices -> HostState] /\ task \in [Tasks -> TaskState]
  BY DEF IInv, RestOK
<1>2. UNCHANGED <<hub, alive, call, delivered>>
  BY DEF HostDetach, GraceEnds, HostRestart
<1>3. ASSUME NEW t \in Running(d)
      PROVE  /\ t \in Tasks /\ task[t].dev = d /\ TimedOK(t) /\ task[t].phase = "running"
             /\ task[t].born \in Nat /\ task[t].confirmed \in Nat /\ task[t].born <= host[d].epoch
             /\ host[d].epoch \in Nat /\ \A tm \in host[d].timers : tm.epoch \in Nat
  BY <1>1, <1>3 DEF Running, Custody, TimedOK, TaskState, HostState, Timer
<1>4. CASE HostDetach(d)
  <2> DEFINE tm == [epoch |-> host[d].epoch, deadline |-> now + Grace]
  <2>1. /\ ~host'[d].up /\ host'[d].epoch = host[d].epoch /\ tm \in host'[d].timers
        /\ \A e \in Devices : e # d => host'[e] = host[e]
    BY <1>1, <1>4 DEF HostDetach, HostState
  <2>2. \A t \in Tasks : task'[t].phase = "running" => task'[t] = task[t]
    BY <1>4, EndedKeeps DEF HostDetach
  <2>3. ASSUME NEW t \in Running(d) PROVE TimedOK(t)'
    <3>1. t \in Tasks /\ task[t].dev = d /\ task[t].born <= tm.epoch
      BY <1>3
    <3> HIDE DEF tm
    <3> QED  BY <2>1, <2>2, <3>1 DEF TimedOK, tm
  <2> QED  BY <1>2, <2>1, <2>2, <2>3, HostSideCustody
<1>5. CASE GraceEnds(d)
  <2>1. PICK tm \in host[d].timers :
          /\ task' = Ended(Due(d, tm))
          /\ host' = [host EXCEPT ![d].timers = @ \ {tm}]
    BY <1>5 DEF GraceEnds
  <2>2. /\ host'[d].up = host[d].up /\ host'[d].gen = host[d].gen
        /\ host'[d].epoch = host[d].epoch /\ host'[d].timers = host[d].timers \ {tm}
        /\ \A e \in Devices : e # d => host'[e] = host[e]
    BY <1>1, <2>1 DEF HostState
  <2>3. \A t \in Tasks : task'[t].phase = "running" => task'[t] = task[t] /\ t \notin Due(d, tm)
    BY <2>1, EndedKeeps
  <2>4. ASSUME NEW t \in Running(d) PROVE TimedOK(t)'
    <3>1. SUFFICES ASSUME task'[t].phase = "running",
                          task[t].confirmed <= task[t].born,
                          task[t].born < host[d].epoch \/ ~host[d].up
                   PROVE  \E x \in host[d].timers \ {tm} : task[t].born <= x.epoch
      BY <1>3, <2>2, <2>3 DEF TimedOK
    <3>2. PICK x \in host[d].timers : task[t].born <= x.epoch
      BY <1>3, <3>1 DEF TimedOK
    <3>3. x # tm
      BY <1>3, <2>3, <3>1, <3>2 DEF Due
    <3> QED  BY <3>2, <3>3
  <2> QED  BY <1>2, <2>2, <2>3, <2>4, HostSideCustody
<1>6. CASE HostRestart(d)
  <2>1. ~host'[d].up /\ \A e \in Devices : e # d => host'[e] = host[e]
    BY <1>1, <1>6 DEF HostRestart, HostState
  <2>2. /\ \A t \in Tasks : task'[t].phase = "running" => task'[t] = task[t]
        /\ \A t \in Running(d) : task'[t].phase # "running"
    BY <1>1, <1>6 DEF HostRestart, TaskState, Running
  <2>3. \A t \in Running(d) : TimedOK(t)'
    BY <2>2 DEF TimedOK
  <2> QED  BY <1>2, <2>1, <2>2, <2>3, HostSideCustody
<1> QED  BY <1>4, <1>5, <1>6

\* The clock, and a child that ends by itself.
LEMMA TaskSideCustody ==
    ASSUME IInv, IInv', Provenance, Custody,
           Tick \/ UNCHANGED vars \/ \E t \in Tasks : ChildEnds(t)
    PROVE  Custody'
<1>1. UNCHANGED <<hub, alive, host, call, delivered>>
  BY DEF Tick, ChildEnds, vars
<1>2. \A t \in Tasks : task'[t].phase = "running" => task'[t] = task[t]
  BY EndedKeeps DEF Tick, ChildEnds, vars
<1>3. Narrower(hub'.proj, hub.proj) /\ SessionsServed'
  BY <1>1 DEF Narrower, SessionsServed, Custody
<1>4. CareShrinks
  BY <1>1, <1>2 DEF CareShrinks, InCare
<1>5. \A t \in Tasks : TimedOK(t)'
  BY <1>1, <1>2 DEF TimedOK, Custody
<1> QED  BY <1>1, <1>2, <1>3, <1>4, <1>5, FuturesStay

\* A step that moves one future k: what it must leave to the others.
LEMMA FutureMoves ==
    ASSUME IInv, IInv', Provenance, Custody, NEW k \in Calls,
           UNCHANGED <<alive, host>>, hub'.session = hub.session,
           \A j \in Calls : j # k => call'[j] = call[j],
           CareShrinks, \A t \in Tasks : TimedOK(t)' /\ CareOK(t)',
           SoleOK(k)', HarmlessOK(k)',
           \A j \in Calls \ {k} : Delivers(j) => /\ hub'.proj[call[j].task] = NoProjection
                                                 /\ call[j].task \notin delivered'
                                                 /\ ~Holds(k, call[j].task)'
    PROVE  Custody'
<1>1. SessionsServed'
  BY DEF SessionsServed, Custody
<1>2. ASSUME NEW j \in Calls, j # k PROVE HarmlessOK(j)' /\ SoleOK(j)'
  <2>1. HarmlessOK(j)'
    BY <1>2, HarmlessKept
  <2>2. ASSUME Delivers(j), NEW i \in Calls \ {j} PROVE ~Holds(i, call[j].task)'
    <3>1. CASE i = k
      BY <1>2, <2>2, <3>1
    <3>2. CASE i # k
      <4>1. call'[j] = call[j] /\ call'[i] = call[i]
        BY <1>2, <2>2, <3>2
      <4>2. ~Holds(i, call[j].task)
        BY <2>2 DEF Custody, SoleOK
      <4> QED  BY <4>1, <4>2 DEF Holds, Delivers
    <3> QED  BY <3>1, <3>2
  <2>3. call'[j] = call[j]
    BY <1>2
  <2>4. SUFFICES ASSUME Delivers(j)
                 PROVE  /\ hub'.proj[call[j].task] = NoProjection
                        /\ call[j].task \notin delivered'
                        /\ \A i \in Calls \ {j} : ~Holds(i, call[j].task)'
    BY <2>1, <2>3 DEF SoleOK, Delivers, Holds
  <2> QED  BY <1>2, <2>2, <2>4
<1> QED  BY <1>1, <1>2 DEF Custody

\* Nobody else holds the task of a future on its way.
LEMMA NobodyElse ==
    ASSUME Custody, NEW j \in Calls, NEW k \in Calls, j # k, Delivers(j)
    PROVE  /\ ~Holds(k, call[j].task)
           /\ hub.proj[call[j].task] = NoProjection /\ call[j].task \notin delivered
BY DEF Custody, SoleOK

\* A future that is not on its way from a start looks up, waits, asks, or is
\* done: the tasks in care that are not its own keep their projections.
LEMMA WatcherMoves ==
    ASSUME IInv, IInv', Provenance, Custody, NEW k \in Calls,
           ~Delivers(k), ~Delivers(k)',
           UNCHANGED <<alive, host, task>>, hub'.session = hub.session,
           \A j \in Calls : j # k => call'[j] = call[j],
           NEW Own \in SUBSET Tasks,
           \A t \in Own : Holds(k, t) \/ t \in delivered,
           \A t \in Tasks : Holds(k, t)' => t \in Own,
           delivered' \subseteq delivered \cup Own,
           \A t \in Tasks \ Own : hub.proj[t] = NoProjection => hub'.proj[t] = NoProjection,
           \A t \in Tasks : InCare(t) /\ Safe(t) => hub'.proj[t] = hub.proj[t],
           HarmlessOK(k)'
    PROVE  Custody'
<1>1. CareShrinks
  BY DEF CareShrinks, InCare
<1>2. SoleOK(k)'
  BY DEF SoleOK
<1>3. ASSUME NEW j \in Calls \ {k}, Delivers(j)
      PROVE  /\ call[j].task \in Tasks /\ call[j].task \notin Own
             /\ hub'.proj[call[j].task] = NoProjection
             /\ call[j].task \notin delivered'
             /\ ~Holds(k, call[j].task)'
  <2>1. call[j].task \in Tasks
    BY <1>3, HeldTask DEF Holds
  <2>2. /\ ~Holds(k, call[j].task) /\ hub.proj[call[j].task] = NoProjection
        /\ call[j].task \notin delivered
    BY <1>3, NobodyElse
  <2>3. call[j].task \notin Own
    BY <2>1, <2>2
  <2> QED  BY <2>1, <2>2, <2>3
<1>4. ASSUME NEW t \in Tasks PROVE TimedOK(t)' /\ CareOK(t)'
  <2>1. TimedOK(t)'
    BY DEF Custody, TimedOK
  <2>2. ASSUME InCare(t) PROVE Safe(t)' \/ \E j \in Calls : Delivers(j)' /\ call'[j].task = t
    <3>1. CASE Safe(t)
      BY <2>2, <3>1 DEF Safe
    <3>2. ASSUME NEW j \in Calls, Delivers(j), call[j].task = t
          PROVE  Delivers(j)' /\ call'[j].task = t
      BY <3>2 DEF Delivers
    <3> QED  BY <2>2, <3>1, <3>2 DEF Custody, CareOK
  <2> QED  BY <2>1, <2>2 DEF CareOK, InCare
<1> QED  BY <1>1, <1>2, <1>3, <1>4, FutureMoves

\* What the code around shell_task does with a result: a clean-up that comes to
\* its end is not about a task in care.
LEMMA ReturnsCustody ==
    ASSUME IInv, IInv', Provenance, Custody, NEW k \in Calls, NEW ok \in BOOLEAN,
           call[k].pc \in {"lookup", "await", "proof", "send"},
           Returns(k, ok), UNCHANGED <<alive, host, task>>, hub'.session = hub.session,
           \A t \in Tasks \ {call[k].task} : hub.proj[t] = NoProjection => hub'.proj[t] = NoProjection,
           \A t \in Tasks : InCare(t) /\ Safe(t) => hub'.proj[t] = hub.proj[t],
           call[k].why = "cleanup" => ~InCare(call[k].task)
    PROVE  Custody'
<1> DEFINE c == call[k]
<1>1. CallsOK /\ CallShape(c) /\ c \in CallState /\ c.task \in Tasks
  BY FutureFacts DEF CallShape
<1> DEFINE good == ok /\ c.heard
<1> DEFINE n == IF c.why = "caller" \/ (c.why = "receipt" /\ good)
               THEN [c EXCEPT !.pc = "done"]
               ELSE IF c.why = "receipt" THEN Begin(k, "cleanup", "cancel")
               ELSE [c EXCEPT !.pc = "drop"]
<1>2. call' = [call EXCEPT ![k] = n]
  BY DEF Returns
<1>3. /\ n.pc \in {"done", "lookup", "drop"} /\ n.task = c.task
      /\ n.pc = "lookup" => n.op = "cancel"
      /\ n.pc = "drop" => c.why = "cleanup"
  BY <1>1 DEF Begin, CallState, CallShape
<1> HIDE DEF n
<1>4. call'[k] = n /\ \A j \in Calls : j # k => call'[j] = call[j]
  BY <1>1, <1>2 DEF CallsOK
<1>5. ~Delivers(k) /\ ~Delivers(k)' /\ Holds(k, c.task)
  BY <1>1, <1>3, <1>4 DEF Delivers, Holds
<1>6. \A t \in Tasks : Holds(k, t)' => t \in {c.task}
  BY <1>3, <1>4 DEF Holds
<1>7. HarmlessOK(k)'
  BY <1>3, <1>4, <1>5 DEF HarmlessOK, InCare
<1>8. delivered' \subseteq delivered \cup {c.task} /\ {c.task} \in SUBSET Tasks
  BY <1>1 DEF Returns
<1> HIDE DEF c
<1>9. \A t \in {c.task} : Holds(k, t) \/ t \in delivered
  BY <1>5
<1>10. \A t \in Tasks \ {c.task} : hub.proj[t] = NoProjection => hub'.proj[t] = NoProjection
  BY DEF c
<1> QED  BY <1>4, <1>5, <1>6, <1>7, <1>8, <1>9, <1>10, WatcherMoves

\* A step of a future that is not on its way, in which it keeps its task.
LEMMA KeepsTask ==
    ASSUME IInv, IInv', Provenance, Custody, NEW k \in Calls, NEW n,
           call' = [call EXCEPT ![k] = n],
           ~Delivers(k), n.pc \notin {"start", "insert"},
           n.pc \in {"idle", "done"} \/ Holds(k, n.task),
           UNCHANGED <<alive, host, task, delivered>>, hub'.session = hub.session,
           \A t \in Tasks \ {n.task} : hub.proj[t] = NoProjection => hub'.proj[t] = NoProjection,
           n.pc \in {"idle", "done"} =>
               \A t \in Tasks : hub.proj[t] = NoProjection => hub'.proj[t] = NoProjection,
           \A t \in Tasks : InCare(t) /\ Safe(t) => hub'.proj[t] = hub.proj[t],
           HarmlessOK(k)'
    PROVE  Custody'
<1>1. call'[k] = n /\ \A j \in Calls : j # k => call'[j] = call[j]
  BY DEF IInv, CallsOK
<1> DEFINE Own == IF n.pc \in {"idle", "done"} THEN {} ELSE {n.task}
<1>2. Own \in SUBSET Tasks /\ \A t \in Own : Holds(k, t) \/ t \in delivered
  BY HeldTask
<1>3. \A t \in Tasks : Holds(k, t)' => t \in Own
  BY <1>1 DEF Holds, Delivers
<1>4. \A t \in Tasks \ Own : hub.proj[t] = NoProjection => hub'.proj[t] = NoProjection
  OBVIOUS
<1>5. ~Delivers(k)'
  BY <1>1 DEF Delivers
<1>6. delivered' \subseteq delivered \cup Own
  OBVIOUS
<1> HIDE DEF Own
<1> QED  BY <1>1, <1>2, <1>3, <1>4, <1>5, <1>6, WatcherMoves

\* A start is sent; a caller names a task it was given.
LEMMA CallBeginsCustody ==
    ASSUME IInv, IInv', Provenance, Custody, NEW k \in Calls,
           \/ \E d \in Devices : StartReserve(k, d)
           \/ \E t \in Tasks, op \in Ops : FollowUp(k, t, op)
    PROVE  Custody'
<1>1. CallsOK /\ hub \in HubState
  BY FutureFacts
<1>2. ASSUME NEW d \in Devices, StartReserve(k, d) PROVE Custody'
  <2> DEFINE n == [Idle EXCEPT !.pc = "start", !.op = "start", !.dev = d,
                               !.gen = hub.session[d]]
  <2>1. /\ hub'.proj = Prune(hub.proj, now) /\ hub'.session = hub.session
        /\ UNCHANGED <<alive, host, task, delivered>> /\ call[k].pc = "idle"
    BY <1>1, <1>2 DEF StartReserve, HubState
  <2>2. call'[k] = n /\ \A j \in Calls : j # k => call'[j] = call[j]
    BY <1>1, <1>2 DEF StartReserve, CallsOK
  <2>3. n.pc = "start" /\ n.reply = None /\ n.why = None
    BY DEF Idle
  <2> HIDE DEF n
  <2>4. ~Delivers(k) /\ ~Delivers(k)' /\ (\A t \in Tasks : ~Holds(k, t)')
    BY <2>1, <2>2, <2>3 DEF Delivers, Holds, None
  <2>5. HarmlessOK(k)'
    BY <2>2, <2>3, <2>4 DEF HarmlessOK, Holds, Delivers, None
  <2>6. /\ \A t \in Tasks : hub.proj[t] = NoProjection => hub'.proj[t] = NoProjection
        /\ \A t \in Tasks : Safe(t) => hub'.proj[t] = hub.proj[t]
    BY <2>1 DEF Prune, Expired, NoProjection, Safe, Attached
  <2>7. {} \in SUBSET Tasks /\ delivered' \subseteq delivered \cup {}
    BY <2>1
  <2> QED  BY <2>1, <2>2, <2>4, <2>5, <2>6, <2>7, WatcherMoves
<1>3. ASSUME NEW t \in Tasks, NEW op \in Ops, FollowUp(k, t, op) PROVE Custody'
  <2> DEFINE n == [Idle EXCEPT !.pc = "lookup", !.why = "caller", !.op = op, !.task = t]
  <2>1. UNCHANGED <<hub, alive, host, task, delivered>> /\ call[k].pc = "idle" /\ t \in delivered
    BY <1>3 DEF FollowUp
  <2>2. call'[k] = n /\ \A j \in Calls : j # k => call'[j] = call[j]
    BY <1>1, <1>3 DEF FollowUp, CallsOK
  <2>3. n.pc = "lookup" /\ n.task = t /\ n.why = "caller"
    BY DEF Idle
  <2> HIDE DEF n
  <2>4. ~Delivers(k) /\ ~Delivers(k)' /\ (\A u \in Tasks : Holds(k, u)' => u \in {t})
    BY <2>1, <2>2, <2>3 DEF Delivers, Holds
  <2>5. HarmlessOK(k)'
    BY <2>2, <2>3, <2>4 DEF HarmlessOK
  <2>6. {t} \in SUBSET Tasks /\ \A u \in {t} : Holds(k, u) \/ u \in delivered
    BY <2>1
  <2> QED  BY <2>1, <2>2, <2>4, <2>5, <2>6, WatcherMoves
<1> QED  BY <1>2, <1>3

\* A call that is lost under its request was not about a task in care: the
\* session of such a task has its handler.
LEMMA CareIsServed ==
    ASSUME IInv, Provenance, Custody, NEW k \in Calls, Sending(k), ~Served(k),
           Holds(k, call[k].task), InCare(call[k].task)
    PROVE  FALSE
<1> DEFINE c == call[k]  d == task[call[k].task].dev
<1>1. c.task \in Tasks /\ Knows(k) /\ HarmlessOK(k)
  BY HeldTask DEF Custody, Provenance
<1>2. /\ d \in Devices /\ hub.session[d] = host[d].gen /\ host[d].gen # Offline /\ Live(c.task)
  BY <1>1, InCareFacts
<1>3. [dev |-> d, gen |-> host[d].gen] \in alive
  BY <1>2 DEF Custody, SessionsServed
<1>4. c.gen = host[d].gen /\ c.dev = d
  BY <1>1, <1>2 DEF HarmlessOK, Knows, Sending, Delivers, Holds
<1> QED  BY <1>3, <1>4 DEF Served

\* The session is lost under a request.
LEMMA RpcLostCustody ==
    ASSUME IInv, IInv', Provenance, Custody, NEW k \in Calls, RpcLost(k)
    PROVE  Custody'
<1>1. /\ call[k].pc \in {"proof", "send"} /\ Returns(k, FALSE) /\ Sending(k) /\ ~Served(k)
      /\ UNCHANGED <<hub, alive, host, task>>
  BY DEF RpcLost, Lost
<1>2. Holds(k, call[k].task)
  BY <1>1 DEF Holds
<1>3. ~InCare(call[k].task)
  BY <1>1, <1>2, CareIsServed
<1> QED  BY <1>1, <1>3, ReturnsCustody

\* The projection is copied.
LEMMA LookupCustody ==
    ASSUME IInv, IInv', Provenance, Custody, NEW k \in Calls, Lookup(k)
    PROVE  Custody'
<1> DEFINE c == call[k]
<1> DEFINE q == Prune(hub.proj, now)
<1> DEFINE p == q[c.task]
<1>1. /\ CallsOK /\ CallShape(c) /\ c \in CallState /\ Knows(k) /\ hub \in HubState
      /\ c.pc = "lookup" /\ c.task \in Tasks
  BY FutureFacts DEF Lookup, CallShape
<1>2. /\ hub'.proj = q /\ hub'.session = hub.session
      /\ UNCHANGED <<alive, host, task>>
  BY <1>1 DEF Lookup, HubState
<1>3. /\ \A t \in Tasks : hub.proj[t] = NoProjection => hub'.proj[t] = NoProjection
      /\ \A t \in Tasks : Safe(t) => hub'.proj[t] = hub.proj[t]
  BY <1>2 DEF Prune, Expired, NoProjection, Safe, Attached
<1>4. Holds(k, c.task) /\ ~Delivers(k)
  BY <1>1 DEF Holds, Delivers
<1>5. InCare(c.task) => Safe(c.task)
  <2>1. ASSUME NEW j \in Calls, Delivers(j), call[j].task = c.task PROVE FALSE
    BY <1>4, <2>1, NobodyElse
  <2> QED  BY <1>1, <2>1 DEF Custody, CareOK
<1>6. InCare(c.task) => /\ p = Attached(task[c.task].dev, host[task[c.task].dev].gen)
                        /\ p # NoProjection
  <2>1. ASSUME InCare(c.task)
        PROVE  /\ hub.proj[c.task] = Attached(task[c.task].dev, host[task[c.task].dev].gen)
               /\ p = hub.proj[c.task] /\ task[c.task].dev \in Devices
    BY <1>1, <1>2, <1>3, <1>5, <2>1, InCareFacts DEF Safe
  <2> QED  BY <2>1, HubAssumption DEF Attached, NoProjection
<1> HIDE DEF q
<1>7. CASE p = NoProjection
  <2>1. Returns(k, FALSE)
    BY <1>7 DEF Lookup, q
  <2> QED  BY <1>1, <1>2, <1>3, <1>6, <1>7, <2>1, ReturnsCustody
<1>8. CASE p # NoProjection
  <2> DEFINE n == [c EXCEPT !.pc = "await", !.snap = p, !.dev = p.dev]
  <2>1. /\ UNCHANGED delivered
        /\ call' = [call EXCEPT ![k].pc = "await", ![k].snap = p, ![k].dev = p.dev]
    BY <1>8 DEF Lookup, q
  <2> HIDE DEF p
  <2>2. call' = [call EXCEPT ![k] = n] /\ call'[k] = n
    BY <1>1, <2>1 DEF CallsOK, CallState
  <2>3. /\ n.pc = "await" /\ n.task = c.task /\ n.snap = p /\ n.why = c.why /\ n.op = c.op
    BY <1>1 DEF CallState
  <2> HIDE DEF n
  <2>4. InCare(c.task) => p.gen = host[task[c.task].dev].gen
    BY <1>6 DEF Attached
  <2>5. c.why = "cleanup" => c.op = "cancel"
    BY <1>1 DEF Custody, HarmlessOK
  <2>6. HarmlessOK(k)'
    BY <1>2, <2>2, <2>3, <2>4, <2>5 DEF HarmlessOK, InCare, Delivers
  <2> QED  BY <1>2, <1>3, <1>4, <2>1, <2>2, <2>3, <2>6, KeepsTask
<1> QED  BY <1>7, <1>8

\* The session of a task in care is the one its request goes to.
LEMMA GotSessionCustody ==
    ASSUME IInv, IInv', Provenance, Custody, NEW k \in Calls, GotSession(k)
    PROVE  Custody'
<1> DEFINE c == call[k]
<1> DEFINE g == hub.session[c.dev]
<1> DEFINE n == [c EXCEPT !.pc = IF g = c.snap.gen THEN "send" ELSE "proof",
                          !.gen = g, !.reply = None]
<1>1. /\ CallsOK /\ CallShape(c) /\ c \in CallState /\ Knows(k) /\ HarmlessOK(k)
      /\ c.pc = "await" /\ c.task \in Tasks
  BY FutureFacts DEF GotSession, CallShape, Custody
<1>2. call' = [call EXCEPT ![k] = n] /\ call'[k] = n
  BY <1>1 DEF GotSession, CallsOK, CallState
<1>3. /\ n.pc = (IF g = c.snap.gen THEN "send" ELSE "proof") /\ n.reply = None
      /\ n.task = c.task /\ n.gen = g /\ n.why = c.why /\ n.op = c.op
  BY <1>1 DEF CallState
<1> HIDE DEF n
<1>4. UNCHANGED <<hub, alive, host, task, delivered>>
  BY DEF GotSession
<1>5. Holds(k, c.task) /\ ~Delivers(k)
  BY <1>1 DEF Holds, Delivers
<1>6. InCare(c.task) => c.snap.gen = host[task[c.task].dev].gen /\ g = c.snap.gen
  <2>1. ASSUME InCare(c.task)
        PROVE  c.snap.gen = host[task[c.task].dev].gen /\ g = c.snap.gen
    BY <1>1, <1>5, <2>1, InCareFacts DEF HarmlessOK, Knows
  <2> QED  BY <2>1
<1>7. c.why = "cleanup" => c.op = "cancel"
  BY <1>1 DEF HarmlessOK
<1> HIDE DEF g
<1>8. HarmlessOK(k)'
  BY <1>2, <1>3, <1>4, <1>6, <1>7 DEF HarmlessOK, InCare, Delivers, None
<1> QED  BY <1>2, <1>3, <1>4, <1>5, <1>8, KeepsTask

\* No session before the deadline: the device of a task in care is online.
LEMMA AwaitTimesOutCustody ==
    ASSUME IInv, IInv', Provenance, Custody, NEW k \in Calls, AwaitTimesOut(k)
    PROVE  Custody'
<1> DEFINE c == call[k]
<1>1. /\ CallShape(c) /\ Knows(k) /\ hub \in HubState /\ c.pc = "await" /\ c.task \in Tasks
  BY FutureFacts DEF AwaitTimesOut, CallShape
<1>2. /\ Returns(k, FALSE) /\ UNCHANGED <<alive, host, task>>
      /\ hub.session[c.dev] = Offline
      /\ hub'.session = hub.session
      /\ \A t \in Tasks : t # c.task => hub'.proj[t] = hub.proj[t]
  BY <1>1 DEF AwaitTimesOut, HubState
<1>3. ~InCare(c.task)
  BY <1>1, <1>2, InCareFacts DEF Knows
<1>4. \A t \in Tasks : InCare(t) /\ Safe(t) => hub'.proj[t] = hub.proj[t]
  BY <1>2, <1>3
<1> QED  BY <1>1, <1>2, <1>3, <1>4, ReturnsCustody

\* A proof is never asked of a task in care.
LEMMA ProvedCustody ==
    ASSUME IInv, IInv', Provenance, Custody, NEW k \in Calls, Proved(k)
    PROVE  Custody'
<1> DEFINE c == call[k]
<1>1. /\ CallsOK /\ CallShape(c) /\ c \in CallState /\ hub \in HubState
      /\ c.pc = "proof" /\ c.task \in Tasks /\ HarmlessOK(k)
  BY FutureFacts DEF Proved, CallShape, Custody
<1>2. UNCHANGED <<alive, host, task>>
  BY DEF Proved
<1>3. Holds(k, c.task) /\ ~Delivers(k)
  BY <1>1 DEF Holds, Delivers
<1>4. ~InCare(c.task)
  BY <1>1, <1>3 DEF HarmlessOK
<1>5. /\ hub'.session = hub.session
      /\ \A t \in Tasks : t # c.task => hub'.proj[t] = hub.proj[t]
  BY ZenonT(60), <1>1 DEF Proved, HubState
<1>6. \A t \in Tasks : InCare(t) /\ Safe(t) => hub'.proj[t] = hub.proj[t]
  BY <1>4, <1>5
<1>7. CASE \E ok \in BOOLEAN : Returns(k, ok)
  BY <1>1, <1>2, <1>4, <1>5, <1>6, <1>7, ReturnsCustody
<1>8. CASE call' = [call EXCEPT ![k].pc = "send", ![k].reply = None] /\ UNCHANGED delivered
  <2> DEFINE n == [c EXCEPT !.pc = "send", !.reply = None]
  <2>1. call' = [call EXCEPT ![k] = n] /\ call'[k] = n
    BY <1>1, <1>8 DEF CallsOK, CallState
  <2>2. n.pc = "send" /\ n.task = c.task /\ n.why = c.why /\ n.op = c.op
    BY <1>1 DEF CallState
  <2> HIDE DEF n
  <2>3. HarmlessOK(k)'
    BY SMTT(30), <1>1, <1>2, <1>4, <1>5, <2>1, <2>2 DEF HarmlessOK, InCare
  <2> QED  BY <1>2, <1>3, <1>5, <1>6, <1>8, <2>1, <2>2, <2>3, KeepsTask
<1> QED  BY <1>7, <1>8 DEF Proved

\* The answer to a request about a task in care is not that there is none, and
\* is never the answer to a Cancel.
LEMMA CompletedCustody ==
    ASSUME IInv, IInv', Provenance, Custody, NEW k \in Calls, Completed(k)
    PROVE  Custody'
<1> DEFINE c == call[k]
<1>1. /\ CallShape(c) /\ Knows(k) /\ hub \in HubState /\ HarmlessOK(k)
      /\ c.pc = "send" /\ c.task \in Tasks /\ c.dev \in Devices /\ c.reply # None
  BY FutureFacts DEF Completed, CallShape, Custody, Answered
<1>2. UNCHANGED <<alive, host, task>>
  BY DEF Completed
<1>3. Holds(k, c.task)
  BY <1>1 DEF Holds
<1>4. ASSUME InCare(c.task)
      PROVE  /\ c.why # "cleanup" /\ c.reply # "notfound" /\ hub.session[c.dev] = c.gen
  BY <1>1, <1>3, <1>4, InCareFacts DEF HarmlessOK, Knows
<1>5. CASE hub.session[c.dev] # c.gen
  <2>1. /\ Returns(k, FALSE)
        /\ hub'.proj = Detach(hub.proj, c.dev, c.gen, now) /\ hub'.session = hub.session
    BY <1>1, <1>5 DEF Completed, HubState
  <2>2. ASSUME NEW t \in Tasks, InCare(t), Safe(t) PROVE hub'.proj[t] = hub.proj[t]
    <3>1. hub.proj[t].gen = hub.session[hub.proj[t].dev]
      BY <2>2, InCareFacts DEF Safe, Attached
    <3>2. ~(hub.proj[t].dev = c.dev /\ hub.proj[t].gen = c.gen)
      BY <1>5, <3>1
    <3> QED  BY <2>1, <3>2 DEF Detach
  <2>3. \A t \in Tasks : hub.proj[t] = NoProjection => hub'.proj[t] = NoProjection
    BY <1>1, <2>1, HubAssumption DEF Detach, NoProjection
  <2> QED  BY <1>1, <1>2, <1>4, <1>5, <2>1, <2>2, <2>3, ReturnsCustody
<1>6. CASE hub.session[c.dev] = c.gen
  <2>1. /\ Returns(k, c.reply = "ok") /\ (c.reply = "ok") \in BOOLEAN
        /\ hub'.session = hub.session
        /\ \A t \in Tasks : hub'.proj[t] = IF t = c.task /\ c.reply = "notfound"
                                           THEN NoProjection ELSE hub.proj[t]
    BY <1>1, <1>6 DEF Completed, HubState
  <2>2. \A t \in Tasks : InCare(t) /\ Safe(t) => hub'.proj[t] = hub.proj[t]
    BY <1>4, <2>1
  <2>3. \A t \in Tasks : hub.proj[t] = NoProjection => hub'.proj[t] = NoProjection
    BY <2>1
  <2> QED  BY <1>1, <1>2, <1>4, <2>1, <2>2, <2>3, ReturnsCustody
<1> QED  BY <1>5, <1>6

\* The end of a clean-up, and of a follow-up nobody waits for.
LEMMA CallEndsCustody ==
    ASSUME IInv, IInv', Provenance, Custody, NEW k \in Calls, StartDrop(k) \/ ReplyUnheard(k)
    PROVE  Custody'
<1> DEFINE c == call[k]
<1> DEFINE n == [c EXCEPT !.pc = "done"]
<1>1. /\ CallsOK /\ CallShape(c) /\ c \in CallState /\ hub \in HubState /\ HarmlessOK(k)
  BY FutureFacts DEF Custody
<1>2. call' = [call EXCEPT ![k] = n] /\ call'[k] = n
  BY <1>1 DEF StartDrop, ReplyUnheard, CallsOK, CallState
<1>3. n.pc = "done"
  BY <1>1 DEF CallState
<1> HIDE DEF n
<1>4. UNCHANGED <<alive, host, task, delivered>>
  BY DEF StartDrop, ReplyUnheard
<1>5. ~Delivers(k)
  BY <1>1 DEF StartDrop, ReplyUnheard, Sending, Unheard, Delivers, CallShape, None
<1>6. HarmlessOK(k)'
  BY <1>2, <1>3 DEF HarmlessOK, Holds, Delivers
<1>7. /\ hub'.session = hub.session
      /\ \A t \in Tasks : hub.proj[t] = NoProjection => hub'.proj[t] = NoProjection
      /\ \A t \in Tasks : InCare(t) => hub'.proj[t] = hub.proj[t]
  <2>1. CASE StartDrop(k)
    <3>1. c.pc = "drop" /\ c.task \in Tasks /\ ~InCare(c.task)
      BY <1>1, <2>1 DEF StartDrop, CallShape, HarmlessOK, Holds
    <3> QED  BY <1>1, <2>1, <3>1 DEF StartDrop, HubState
  <2>2. CASE ReplyUnheard(k)
    BY <2>2 DEF ReplyUnheard
  <2> QED  BY <2>1, <2>2
<1> QED  BY <1>2, <1>3, <1>4, <1>5, <1>6, <1>7, KeepsTask

\* A step of a future on its way, in which it stays so or its task is, as the
\* hub knows, no longer in care.
LEMMA DelivererMoves ==
    ASSUME IInv, IInv', Provenance, Custody, NEW k \in Calls, NEW n,
           NEW t0 \in Tasks, t0 = call[k].task,
           call' = [call EXCEPT ![k] = n],
           Holds(k, n.task) \/ n.pc = "done", Delivers(k),
           UNCHANGED <<alive, host, task, delivered>>, hub'.session = hub.session,
           \A t \in Tasks \ {t0} : hub'.proj[t] = hub.proj[t],
           Delivers(k)' => n.task = t0 /\ hub'.proj[n.task] = hub.proj[n.task],
           ~Delivers(k)' => CareOK(t0)',
           HarmlessOK(k)'
    PROVE  Custody'
<1>1. call'[k] = n /\ \A j \in Calls : j # k => call'[j] = call[j]
  BY DEF IInv, CallsOK
<1>2. /\ hub.proj[t0] = NoProjection /\ t0 \notin delivered
      /\ \A j \in Calls \ {k} : ~Holds(j, t0)
  BY DEF Custody, SoleOK
<1>3. \A t \in Tasks : Holds(k, t)' => t = t0
  BY <1>1 DEF Holds, Delivers
<1>4. SoleOK(k)'
  <2>1. SUFFICES ASSUME Delivers(k)'
                 PROVE  /\ hub'.proj[n.task] = NoProjection
                        /\ n.task \notin delivered'
                        /\ \A j \in Calls \ {k} : ~Holds(j, n.task)'
    BY <1>1 DEF SoleOK
  <2>2. \A j \in Calls \ {k} : ~Holds(j, t0)'
    BY <1>1, <1>2 DEF Holds, Delivers
  <2> QED  BY <1>2, <2>1, <2>2
<1>5. ASSUME NEW j \in Calls \ {k}, Delivers(j)
      PROVE  /\ hub'.proj[call[j].task] = NoProjection
             /\ call[j].task \notin delivered'
             /\ ~Holds(k, call[j].task)'
  <2>1. /\ call[j].task # t0 /\ call[j].task \in Tasks
        /\ hub.proj[call[j].task] = NoProjection /\ call[j].task \notin delivered
    BY <1>2, <1>5, HeldTask, NobodyElse DEF Holds
  <2> QED  BY <1>3, <2>1
<1>6. CareShrinks
  BY DEF CareShrinks, InCare
<1>7. ASSUME NEW t \in Tasks PROVE TimedOK(t)' /\ CareOK(t)'
  <2>1. TimedOK(t)' /\ TimedOK(t) /\ CareOK(t)
    BY DEF Custody, TimedOK
  <2>2. CASE t = t0 /\ ~Delivers(k)'
    BY <2>1, <2>2
  <2>3. CASE t = t0 /\ Delivers(k)'
    <3>1. call'[k].task = t
      BY <1>1, <2>3
    <3> QED  BY <2>1, <2>3, <3>1 DEF CareOK
  <2>4. CASE t # t0
    <3>1. ASSUME NEW j \in Calls, Delivers(j), call[j].task = t
          PROVE  Delivers(j)' /\ call'[j].task = t
      BY <1>1, <2>4, <3>1 DEF Delivers
    <3>2. Safe(t) => Safe(t)'
      BY <2>4 DEF Safe
    <3>3. InCare(t)' <=> InCare(t)
      BY DEF InCare
    <3>4. CareOK(t)'
      BY <2>1, <3>1, <3>2, <3>3 DEF CareOK
    <3> QED  BY <2>1, <3>4
  <2> QED  BY <2>2, <2>3, <2>4
<1> QED  BY <1>1, <1>4, <1>5, <1>6, <1>7, FutureMoves

\* The Start RPC ends: its task is on its way on, or its session is lost.
LEMMA StartEndsCustody ==
    ASSUME IInv, IInv', Provenance, Custody, NEW k \in Calls, StartReplied(k) \/ StartLost(k)
    PROVE  Custody'
<1> DEFINE c == call[k]
<1>1. /\ CallsOK /\ CallShape(c) /\ c \in CallState /\ hub \in HubState
      /\ c.pc = "start" /\ c.why = None /\ HarmlessOK(k)
  BY FutureFacts DEF StartReplied, StartLost, CallShape, Custody
<1>2. /\ UNCHANGED <<alive, host, task, delivered>>
      /\ hub'.proj = hub.proj /\ hub'.session = hub.session
  BY <1>1 DEF StartReplied, StartLost, HubState
<1>3. PICK n : /\ call' = [call EXCEPT ![k] = n] /\ n.why = None
               /\ \/ n.pc = "done" /\ (StartLost(k) \/ c.reply # "ok")
                  \/ n.pc = "insert" /\ c.reply = "ok" /\ n.task = c.task /\ n.gen = c.gen
  <2>1. CASE StartReplied(k)
    <3> DEFINE n == [c EXCEPT !.pc = IF c.reply = "ok" THEN "insert" ELSE "done",
                              !.reply = None]
    <3>1. call' = [call EXCEPT ![k] = n]
      BY <1>1, <2>1 DEF StartReplied, CallsOK, CallState
    <3>2. /\ n.pc = (IF c.reply = "ok" THEN "insert" ELSE "done") /\ n.task = c.task
          /\ n.gen = c.gen /\ n.why = None
      BY <1>1 DEF CallState
    <3> QED  BY <3>1, <3>2
  <2>2. CASE StartLost(k)
    <3> DEFINE n == [c EXCEPT !.pc = "done", !.task = None, !.reply = None]
    <3>1. call' = [call EXCEPT ![k] = n] /\ n.pc = "done" /\ n.why = None
      BY ZenonT(60), <1>1, <2>2 DEF StartLost, CallsOK, CallState
    <3> QED  BY <2>2, <3>1
  <2> QED  BY <2>1, <2>2
<1>4. call'[k] = n
  BY <1>1, <1>3 DEF CallsOK
<1>5. CASE c.reply = "ok"
  <2>1. Delivers(k) /\ Holds(k, c.task)
    BY <1>1, <1>5 DEF Delivers, Holds
  <2>2. Delivers(k)' => n.pc = "insert" /\ n.task = c.task /\ n.gen = c.gen
    BY <1>3, <1>4 DEF Delivers
  <2>3. HarmlessOK(k)'
    BY <1>1, <1>2, <1>3, <1>4, <2>1 DEF HarmlessOK, InCare, Delivers, Holds, None
  <2>4. PICK t0 \in Tasks : t0 = c.task
    BY <1>1, <1>5 DEF CallShape
  <2>5. ASSUME ~Delivers(k)' PROVE CareOK(t0)'
    <3>1. StartLost(k)
      BY <1>3, <1>4, <1>5, <2>5 DEF Delivers
    <3>2. ~InCare(t0)
      BY <2>1, <2>4, <3>1, CareIsServed DEF StartLost, Lost
    <3> QED  BY <1>2, <3>2 DEF CareOK, InCare
  <2>6. Holds(k, n.task) \/ n.pc = "done"
    BY <1>3, <2>1
  <2> QED  BY <1>2, <1>3, <2>1, <2>2, <2>3, <2>4, <2>5, <2>6, DelivererMoves
<1>6. CASE c.reply # "ok"
  <2>1. ~Delivers(k) /\ n.pc = "done"
    BY <1>1, <1>3, <1>6 DEF Delivers
  <2>2. HarmlessOK(k)'
    BY <1>4, <2>1 DEF HarmlessOK, Holds, Delivers
  <2> QED  BY <1>2, <1>3, <2>1, <2>2, KeepsTask
<1> QED  BY <1>5, <1>6

\* The projection goes in if the session is the one the task was started in,
\* and a task in care is in no other.
LEMMA StartInsertCustody ==
    ASSUME IInv, IInv', Provenance, Custody, NEW k \in Calls, StartInsert(k)
    PROVE  Custody'
<1> DEFINE c == call[k]
<1> DEFINE same == hub.session[c.dev] = c.gen
<1> DEFINE n == IF same THEN Begin(k, "receipt", "status") ELSE Begin(k, "cleanup", "cancel")
<1>1. /\ CallsOK /\ CallShape(c) /\ c \in CallState /\ Knows(k) /\ hub \in HubState
      /\ c.pc = "insert" /\ c.task \in Tasks /\ HarmlessOK(k)
  BY FutureFacts DEF StartInsert, CallShape, Custody
<1>2. UNCHANGED <<alive, host, task, delivered>>
  BY DEF StartInsert
<1>3. call' = [call EXCEPT ![k] = n] /\ call'[k] = n
  BY <1>1 DEF StartInsert, CallsOK
<1>4. n.pc = "lookup" /\ n.task = c.task /\ (n.why = "cleanup" => n.op = "cancel")
  BY <1>1 DEF Begin, CallState
<1> HIDE DEF n
<1>5. Delivers(k) /\ Holds(k, c.task) /\ ~Delivers(k)'
  BY <1>1, <1>3, <1>4 DEF Delivers, Holds
<1>6. HarmlessOK(k)'
  BY <1>3, <1>4, <1>5 DEF HarmlessOK
<1>7. /\ hub'.session = hub.session
      /\ \A t \in Tasks : t # c.task => hub'.proj[t] = hub.proj[t]
      /\ same => hub'.proj[c.task] = Attached(c.dev, c.gen)
  BY <1>1 DEF StartInsert, HubState, Attached
<1>8. PICK t0 \in Tasks : t0 = c.task
  BY <1>1
<1>9. ASSUME InCare(t0) PROVE Safe(t0)'
  <2>1. task[t0].dev = c.dev /\ c.gen = host[c.dev].gen /\ same
    BY <1>1, <1>5, <1>8, <1>9, InCareFacts DEF HarmlessOK, Knows
  <2> QED  BY <1>2, <1>7, <1>8, <2>1 DEF Safe
<1>10. CareOK(t0)'
  BY <1>2, <1>7, <1>9 DEF CareOK, InCare
<1> HIDE DEF same
<1> QED  BY <1>2, <1>3, <1>4, <1>5, <1>6, <1>7, <1>8, <1>10, DelivererMoves

\* The caller leaves, or the Host refuses to start a task.
LEMMA LeavesCustody ==
    ASSUME IInv, IInv', Provenance, Custody, NEW k \in Calls, CallerLeaves(k) \/ HostRefuses(k)
    PROVE  Custody'
<1> DEFINE c == call[k]
<1>1. CallsOK /\ CallShape(c) /\ c \in CallState /\ HarmlessOK(k)
  BY FutureFacts DEF Custody
<1>2. UNCHANGED <<hub, alive, host, task, delivered>>
  BY DEF CallerLeaves, HostRefuses
<1>3. CASE CallerLeaves(k)
  <2> DEFINE p == IF c.why = "caller" /\ ~Sending(k) THEN "done" ELSE c.pc
  <2> DEFINE n == [c EXCEPT !.heard = FALSE, !.pc = p]
  <2>1. call' = [call EXCEPT ![k].heard = FALSE, ![k].pc = p] /\ c.pc \notin {"idle", "done"}
    BY <1>3 DEF CallerLeaves
  <2>2. p \in {"done", c.pc}
    OBVIOUS
  <2> HIDE DEF p
  <2>3. call' = [call EXCEPT ![k] = n] /\ call'[k] = n
    BY <1>1, <2>1 DEF CallsOK, CallState
  <2>4. /\ n.pc \in {"done", c.pc} /\ n.reply = c.reply /\ n.snap = c.snap
        /\ n.task = c.task /\ n.dev = c.dev /\ n.gen = c.gen /\ n.why = c.why /\ n.op = c.op
    BY <1>1, <2>2 DEF CallState
  <2> HIDE DEF n
  <2>5. HarmlessOK(k)'
    BY <1>1, <1>2, <2>3, <2>4 DEF HarmlessOK, InCare, Holds, Delivers
  <2>6. CASE Delivers(k)
    <3>1. n.pc = c.pc /\ Holds(k, c.task)
      <4>1. c.why # "caller" /\ n.pc = p
        BY <1>1, <2>6 DEF Delivers, CallShape, CallState, None, n
      <4> QED  BY <2>6, <4>1 DEF Holds, p
    <3>2. Delivers(k)'
      BY <2>3, <2>4, <2>6, <3>1 DEF Delivers
    <3>3. c.task \in Tasks
      BY <1>1, <2>6 DEF Delivers, CallShape
    <3> QED  BY <1>2, <2>3, <2>4, <2>5, <2>6, <3>1, <3>2, <3>3, DelivererMoves
  <2>7. CASE ~Delivers(k)
    <3>1. n.pc = "done" \/ (n.pc = c.pc /\ ~Delivers(k)')
      BY <2>3, <2>4, <2>7 DEF Delivers
    <3>2. ~Delivers(k)' /\ \A t \in Tasks : Holds(k, t)' => Holds(k, t) /\ t = c.task
      BY <2>3, <2>4, <2>7, <3>1 DEF Holds, Delivers
    <3> DEFINE Own == {t \in Tasks : Holds(k, t)}
    <3>3. Own \in SUBSET Tasks /\ (\A t \in Own : Holds(k, t)) /\ delivered' \subseteq delivered \cup Own
          /\ \A t \in Tasks : Holds(k, t)' => t \in Own
      BY <1>2, <3>2
    <3>4. \A j \in Calls : j # k => call'[j] = call[j]
      BY <1>1, <2>3 DEF CallsOK
    <3> HIDE DEF Own
    <3> QED  BY <1>2, <2>5, <2>7, <3>2, <3>3, <3>4, WatcherMoves
  <2> QED  BY <2>6, <2>7
<1>4. CASE HostRefuses(k)
  <2> DEFINE n == [c EXCEPT !.reply = "error"]
  <2>1. call' = [call EXCEPT ![k] = n] /\ call'[k] = n
    BY <1>1, <1>4 DEF HostRefuses, Replied, CallsOK, CallState
  <2>2. n.pc = "start" /\ n.reply = "error" /\ n.why = None /\ c.pc = "start" /\ c.reply = None
    BY <1>1, <1>4 DEF HostRefuses, Reaches, CallState, CallShape
  <2> HIDE DEF n
  <2>3. ~Delivers(k) /\ ~Delivers(k)' /\ \A t \in Tasks : ~Holds(k, t)'
    BY <2>1, <2>2 DEF Delivers, Holds, None
  <2>4. HarmlessOK(k)'
    BY <2>1, <2>2, <2>3 DEF HarmlessOK, Holds, Delivers, None
  <2>5. {} \in SUBSET Tasks /\ delivered' \subseteq delivered \cup {}
    BY <1>2
  <2>6. \A j \in Calls : j # k => call'[j] = call[j]
    BY <1>1, <2>1 DEF CallsOK
  <2> QED  BY <1>2, <2>3, <2>4, <2>5, <2>6, WatcherMoves
<1> QED  BY <1>3, <1>4

\* HostShellService::start gives out a task that nobody holds, born in the
\* epoch of the session it was asked for in.
LEMMA HostStartCustody ==
    ASSUME IInv, IInv', Provenance, Custody, NEW k \in Calls, HostStart(k)
    PROVE  Custody'
<1> DEFINE c == call[k]  d == call[k].dev
<1>1. /\ CallsOK /\ CallShape(c) /\ c \in CallState
      /\ c.pc = "start" /\ c.reply = None /\ c.why = None /\ d \in Devices
  BY FutureFacts DEF HostStart, Reaches, CallShape
<1>2. /\ UNCHANGED <<hub, alive, host, delivered>>
      /\ host[d].up /\ host[d].gen = c.gen
  BY DEF HostStart, Reaches
<1>3. PICK t \in Tasks, Forget \in SUBSET (Stored(d) \ Running(d)) :
         /\ task[t].phase = "none"
         /\ task' = [u \in Tasks |->
               IF u = t THEN [phase |-> "running", dev |-> d,
                              born |-> host[d].epoch, confirmed |-> 0]
               ELSE IF u \in Forget THEN [task[u] EXCEPT !.phase = "gone"]
               ELSE task[u]]
         /\ call' = [call EXCEPT ![k].reply = "ok", ![k].task = t]
  BY DEF HostStart
<1>4. task \in [Tasks -> TaskState] /\ host[d].epoch \in Nat
  BY <1>1 DEF IInv, RestOK, HostState
<1>5. /\ task'[t].phase = "running" /\ task'[t].dev = d /\ task'[t].born = host[d].epoch
      /\ task'[t].confirmed = 0
  BY <1>3
<1>6. ASSUME NEW u \in Tasks, u # t, task'[u].phase = "running"
      PROVE  task'[u] = task[u]
  BY <1>3, <1>4, <1>6 DEF TaskState
<1> DEFINE n == [c EXCEPT !.reply = "ok", !.task = t]
<1>7. call' = [call EXCEPT ![k] = n] /\ call'[k] = n
  BY <1>1, <1>3 DEF CallsOK, CallState
<1>8. n.pc = "start" /\ n.reply = "ok" /\ n.task = t /\ n.gen = c.gen /\ n.why = None
  BY <1>1 DEF CallState
<1> HIDE DEF n
<1>9. /\ \A j \in Calls : j # k => call'[j] = call[j]
      /\ ~Delivers(k) /\ Delivers(k)' /\ \A u \in Tasks : Holds(k, u)' => u = t
  BY <1>1, <1>7, <1>8 DEF CallsOK, Delivers, Holds, None
<1>10. \A j \in Calls : ~Holds(j, t)
  BY <1>3, HeldTask
<1>11. hub.proj[t] = NoProjection /\ t \notin delivered
  BY <1>3 DEF Provenance, ProjectionOK, DeliveredOK
<1>12. CareShrinks
  <2>1. ASSUME NEW u \in Tasks, task[u].phase # "none", InCare(u)'
        PROVE  InCare(u) /\ task'[u].dev = task[u].dev
    <3>1. task'[u] = task[u]
      BY <1>3, <1>6, <2>1 DEF InCare
    <3> QED  BY <1>2, <2>1, <3>1 DEF InCare
  <2> QED  BY <1>2, <2>1 DEF CareShrinks
<1>13. ASSUME NEW u \in Tasks PROVE TimedOK(u)' /\ CareOK(u)'
  <2>1. CASE u = t
    <3>1. TimedOK(u)'
      BY <1>1, <1>2, <1>4, <1>5, <2>1 DEF TimedOK
    <3>2. CareOK(u)'
      BY <1>7, <1>8, <1>9, <2>1 DEF CareOK
    <3> QED  BY <3>1, <3>2
  <2>2. CASE u # t /\ task'[u].phase # "running"
    BY <2>2 DEF TimedOK, CareOK, InCare
  <2>3. CASE u # t /\ task'[u].phase = "running"
    <3>1. task'[u] = task[u] /\ TimedOK(u) /\ CareOK(u)
      BY <1>6, <2>3 DEF Custody
    <3>2. TimedOK(u)' /\ (InCare(u)' => InCare(u)) /\ (Safe(u) => Safe(u)')
      BY <1>2, <3>1 DEF TimedOK, InCare, Safe
    <3>3. ASSUME NEW j \in Calls, Delivers(j), call[j].task = u
          PROVE  Delivers(j)' /\ call'[j].task = u
      BY <1>9, <3>3 DEF Delivers
    <3> QED  BY <3>1, <3>2, <3>3 DEF CareOK
  <2> QED  BY <2>1, <2>2, <2>3
<1>14. SoleOK(k)'
  <2>1. SUFFICES \A j \in Calls \ {k} : ~Holds(j, t)'
    BY <1>2, <1>7, <1>8, <1>11 DEF SoleOK
  <2> QED  BY <1>9, <1>10 DEF Holds, Delivers
<1>15. HarmlessOK(k)'
  BY <1>2, <1>5, <1>7, <1>8 DEF HarmlessOK, None
<1>16. ASSUME NEW j \in Calls \ {k}, Delivers(j)
       PROVE  /\ hub'.proj[call[j].task] = NoProjection
              /\ call[j].task \notin delivered'
              /\ ~Holds(k, call[j].task)'
  <2>1. call[j].task # t /\ call[j].task \in Tasks /\ call'[j] = call[j]
    BY <1>9, <1>10, <1>16, HeldTask DEF Holds
  <2>2. hub.proj[call[j].task] = NoProjection /\ call[j].task \notin delivered
    BY <1>16 DEF Custody, SoleOK
  <2> QED  BY <1>2, <1>9, <2>1, <2>2
<1> QED  BY <1>2, <1>9, <1>12, <1>13, <1>14, <1>15, <1>16, FutureMoves

\* HostShellService::status, attach and cancel: a confirmation is of the
\* present epoch, and a cancelled task does not run.
LEMMA HostAnswersCustody ==
    ASSUME IInv, IInv', Provenance, Custody, NEW k \in Calls, HostAnswers(k)
    PROVE  Custody'
<1> DEFINE c == call[k]
<1> DEFINE what == IF c.pc = "proof" THEN "status" ELSE c.op
<1> DEFINE e == host[c.dev].epoch
<1> DEFINE r == IF Live(c.task) THEN "ok" ELSE "notfound"
<1>1. /\ CallsOK /\ CallShape(c) /\ c \in CallState /\ Knows(k) /\ HarmlessOK(k)
      /\ c.pc \in {"proof", "send"} /\ c.dev \in Devices /\ c.task \in Tasks
  BY FutureFacts DEF HostAnswers, CallShape, Custody
<1>2. UNCHANGED <<hub, alive, host, delivered>> /\ host[c.dev].up
  BY DEF HostAnswers, Reaches
<1>3. /\ task \in [Tasks -> TaskState] /\ host \in [Devices -> HostState] /\ e \in Nat
      /\ TasksOK
  BY <1>1 DEF IInv, RestOK, HostState, Provenance
<1>4. Live(c.task) => task[c.task].dev = c.dev /\ task[c.task].confirmed <= e
  BY <1>1, <1>3 DEF Knows, TasksOK
<1>5. ASSUME NEW u \in Tasks, task'[u].phase = "running"
      PROVE  /\ task[u].phase = "running" /\ task'[u].dev = task[u].dev
             /\ task'[u].born = task[u].born
             /\ u # c.task => task'[u] = task[u]
             /\ u = c.task => what # "cancel" /\ task'[u].confirmed = e
  <2>1. CASE ~Live(c.task)
    <3>1. task' = task
      BY <2>1 DEF HostAnswers, Live
    <3> QED  BY <1>5, <2>1, <3>1 DEF Live
  <2>2. CASE Live(c.task) /\ what = "cancel"
    <3>1. task' = Ended({c.task})
      BY <2>2 DEF HostAnswers, Live
    <3> QED  BY <1>3, <1>5, <2>2, <3>1 DEF Ended, TaskState
  <2>3. CASE Live(c.task) /\ what # "cancel"
    <3>1. task' = [task EXCEPT ![c.task].confirmed = e]
      BY <2>3 DEF HostAnswers, Live
    <3> QED  BY <1>1, <1>3, <1>5, <2>3, <3>1 DEF TaskState
  <2> QED  BY <2>1, <2>2, <2>3
<1>6. ASSUME NEW u \in Tasks, InCare(u)'
      PROVE  InCare(u) /\ task'[u].dev = task[u].dev /\ task[u].phase = "running"
  <2>1. task[u].phase = "running" /\ task'[u].dev = task[u].dev /\ task'[u].born = task[u].born
    BY <1>5, <1>6 DEF InCare
  <2> QED  BY <1>2, <1>6, <2>1 DEF InCare
<1>7. CareShrinks
  BY <1>2, <1>6 DEF CareShrinks
<1> DEFINE n == [c EXCEPT !.reply = r]
<1>8. call' = [call EXCEPT ![k].reply = r]
  BY DEF HostAnswers, Replied, Live
<1>9. (r = "notfound" => ~Live(c.task)) /\ r \in {"ok", "notfound"}
  OBVIOUS
<1> HIDE DEF r
<1>10. call' = [call EXCEPT ![k] = n] /\ call'[k] = n
  BY <1>1, <1>8 DEF CallsOK, CallState
<1>11. /\ n.pc = c.pc /\ n.task = c.task /\ n.dev = c.dev /\ n.gen = c.gen
       /\ n.reply = r /\ n.why = c.why /\ n.op = c.op
  BY <1>1 DEF CallState
<1> HIDE DEF n
<1>12. /\ \A j \in Calls : j # k => call'[j] = call[j]
       /\ ~Delivers(k) /\ ~Delivers(k)' /\ Holds(k, c.task)
       /\ \A u \in Tasks : Holds(k, u)' => u = c.task
  BY <1>1, <1>10, <1>11 DEF CallsOK, Delivers, Holds
<1>13. ASSUME NEW u \in Tasks PROVE TimedOK(u)' /\ CareOK(u)'
  <2>1. TimedOK(u) /\ CareOK(u)
    BY DEF Custody
  <2>2. TimedOK(u)'
    <3>1. CASE task'[u].phase # "running"
      BY <3>1 DEF TimedOK
    <3>2. CASE task'[u].phase = "running" /\ u # c.task
      <4>1. task'[u] = task[u]
        BY <1>5, <3>2
      <4> QED  BY <1>2, <2>1, <4>1 DEF TimedOK
    <3>3. CASE task'[u].phase = "running" /\ u = c.task
      <4>1. /\ task'[u].dev = c.dev /\ task'[u].born = task[u].born /\ task'[u].confirmed = e
            /\ task[u].born <= e /\ task[u].born \in Nat
        BY <1>3, <1>4, <1>5, <2>1, <3>3 DEF TimedOK, Live, TaskState
      <4> QED  BY <1>2, <1>3, <4>1 DEF TimedOK
    <3> QED  BY <3>1, <3>2, <3>3
  <2>3. ASSUME InCare(u)' PROVE Safe(u)' \/ \E j \in Calls : Delivers(j)' /\ call'[j].task = u
    <3>1. InCare(u) /\ task'[u].dev = task[u].dev
      BY <1>6, <2>3
    <3>2. Safe(u) => Safe(u)'
      BY <1>2, <3>1 DEF Safe
    <3>3. ASSUME NEW j \in Calls, Delivers(j), call[j].task = u
          PROVE  Delivers(j)' /\ call'[j].task = u
      BY <1>12, <3>3 DEF Delivers
    <3> QED  BY <2>1, <3>1, <3>2, <3>3 DEF CareOK
  <2> QED  BY <2>2, <2>3 DEF CareOK
<1>14. SoleOK(k)'
  BY <1>12 DEF SoleOK
<1>15. HarmlessOK(k)'
  <2>1. c.why = "cleanup" => c.op = "cancel"
    BY <1>1 DEF HarmlessOK
  <2>2. PICK t \in Tasks : t = c.task
    BY <1>1
  <2>3. ASSUME InCare(t)'
        PROVE  /\ c.pc = "send" /\ c.gen = host[task'[t].dev].gen /\ r # "notfound"
               /\ c.op # "cancel"
    <3>1. /\ InCare(t) /\ task'[t].dev = task[t].dev /\ Live(t) /\ task'[t].phase = "running"
      BY <1>6, <2>3 DEF InCare, Live
    <3>2. c.pc = "send" /\ c.gen = host[task[t].dev].gen
      BY <1>1, <1>12, <2>2, <3>1 DEF HarmlessOK
    <3>3. what # "cancel"
      BY <1>5, <2>2, <3>1
    <3> QED  BY <1>9, <2>2, <3>1, <3>2, <3>3
  <2> HIDE DEF c
  <2>4. call'[k].task = t
    BY <1>10, <1>11, <2>2
  <2> QED  BY <1>2, <1>10, <1>11, <1>12, <2>1, <2>3, <2>4 DEF HarmlessOK
<1>16. ASSUME NEW j \in Calls \ {k}, Delivers(j)
       PROVE  /\ hub'.proj[call[j].task] = NoProjection
              /\ call[j].task \notin delivered'
              /\ ~Holds(k, call[j].task)'
  <2>1. call[j].task # c.task /\ call[j].task \in Tasks /\ call'[j] = call[j]
    BY <1>12, <1>16, HeldTask, NobodyElse DEF Holds
  <2>2. hub.proj[call[j].task] = NoProjection /\ call[j].task \notin delivered
    BY <1>16 DEF Custody, SoleOK
  <2> QED  BY <1>2, <1>12, <2>1, <2>2
<1> QED  BY <1>2, <1>7, <1>12, <1>13, <1>14, <1>15, <1>16, FutureMoves

\* Every step keeps custody: one case per action.
LEMMA NextCustody ==
    IInv /\ IInv' /\ Provenance /\ Custody /\ [Next]_vars => Custody'
<1> SUFFICES ASSUME IInv, IInv', Provenance, Custody, [Next]_vars PROVE Custody'
  OBVIOUS
<1>1. CASE Tick \/ UNCHANGED vars \/ \E t \in Tasks : ChildEnds(t)
  BY <1>1, TaskSideCustody
<1>2. ASSUME NEW d \in Devices,
             Connect(d) \/ HostDetach(d) \/ GraceEnds(d) \/ HostRestart(d)
      PROVE  Custody'
  BY <1>2, ConnectCustody, DeviceSideCustody
<1>3. ASSUME NEW s \in alive, ControllerDetach(s) PROVE Custody'
  BY <1>3, ControllerDetachCustody
<1>4. ASSUME NEW k \in Calls,
             \/ \E d \in Devices : StartReserve(k, d)
             \/ \E t \in Tasks, op \in Ops : FollowUp(k, t, op)
             \/ HostStart(k) \/ HostRefuses(k) \/ HostAnswers(k)
             \/ StartReplied(k) \/ StartLost(k) \/ StartInsert(k) \/ StartDrop(k)
             \/ CallerLeaves(k) \/ ReplyUnheard(k)
             \/ Lookup(k) \/ GotSession(k) \/ AwaitTimesOut(k)
             \/ Proved(k) \/ Completed(k) \/ RpcLost(k)
      PROVE  Custody'
  BY <1>4, CallBeginsCustody, HostStartCustody, HostAnswersCustody, LeavesCustody,
     StartEndsCustody, StartInsertCustody, CallEndsCustody, LookupCustody,
     GotSessionCustody, AwaitTimesOutCustody, ProvedCustody, CompletedCustody, RpcLostCustody
<1> QED  BY <1>1, <1>2, <1>3, <1>4 DEF Next

\* Once nobody at the Controller can name a running task that no later epoch
\* has confirmed, its Host is on its way to cancel it: no order of lost
\* sessions, timeouts, callers who leave, proofs and clean-ups orphans it.
THEOREM UnprovedOrphanDiesThm == Spec => []UnprovedOrphanDies
<1>1. Init => IInv /\ Provenance /\ Custody
  BY InitIInv, InitProvenance, InitCustody
<1>2. IInv /\ Provenance /\ Custody /\ [Next]_vars => IInv' /\ Provenance' /\ Custody'
  BY NextIInv, NextProvenance, NextCustody
<1>3. IInv /\ Provenance /\ Custody => UnprovedOrphanDies
  BY CustodyImplies
<1> QED  BY <1>1, <1>2, <1>3, PTL DEF Spec
=============================================================================
