-------------------------- MODULE SessionGateProofs --------------------------
(***************************************************************************)
(* For any number of devices, connections and requests: SessionGate is     *)
(* well typed, its telemetry agrees with its slots, a replayed request     *)
(* moves to newer generations only, a slot is lost only for a cause, and   *)
(* no slot is left behind but where the clock jumped.                      *)
(***************************************************************************)
EXTENDS SessionGate, TLAPS

-----------------------------------------------------------------------------
(* What the methods of RemoteHub preserve, whoever calls them *)

\* The type of RemoteHubState::shell_tasks.
Projections == [Tasks -> Projection \cup {NoProjection}]

\* Marking detached, and pruning, keep the type of the projections.
LEMMA DetachType ==
    ASSUME NEW proj \in Projections, NEW d \in Devices, NEW g \in Nat, NEW now \in Nat
    PROVE  Detach(proj, d, g, now) \in Projections
<1>1. ASSUME NEW t \in Tasks, proj[t].dev = d
      PROVE  [proj[t] EXCEPT !.deadline = now + Grace] \in Projection
  <2>1. proj[t] \in Projection
    BY <1>1, HubAssumption DEF Projections, NoProjection
  <2>2. now + Grace \in Nat
    BY HubAssumption
  <2> QED  BY <2>1, <2>2 DEF Projection
<1> QED  BY <1>1 DEF Detach, Projections

\* Pruning keeps the type of the projections.
LEMMA PruneType ==
    ASSUME NEW proj \in Projections, NEW now \in Nat
    PROVE  Prune(proj, now) \in Projections
BY DEF Prune, Projections

\* RemoteHub::register keeps the type.
LEMMA RegisterType ==
    ASSUME NEW h \in HubState, NEW d \in Devices, NEW now \in Nat
    PROVE  /\ Register(h, d, now) \in HubState
           /\ Register(h, d, now).next = h.next + 1
           /\ Register(h, d, now).pending = h.pending
<1> DEFINE g == h.next + 1
<1> DEFINE p == Detach(Prune(h.proj, now), d, h.session[d], now)
<1>1. g \in Nat /\ h.session[d] \in Nat /\ h.proj \in Projections
  BY DEF HubState, Projections
<1>2. p \in Projections
  BY <1>1, PruneType, DetachType
<1>3. [h.session EXCEPT ![d] = g] \in [Devices -> Nat]
  BY <1>1 DEF HubState
<1>4. [gen |-> g, up |-> TRUE, path |-> g] \in SessionInfo
  BY <1>1 DEF SessionInfo
<1>5. [h.info EXCEPT ![d] = [gen |-> g, up |-> TRUE, path |-> g]] \in [Devices -> SessionInfo]
  BY <1>4 DEF HubState
<1> HIDE DEF p
<1>6. Register(h, d, now) = [h EXCEPT !.next = g, !.session[d] = g,
                                !.info[d] = [gen |-> g, up |-> TRUE, path |-> g], !.proj = p]
  BY DEF Register, p
<1> QED  BY <1>1, <1>2, <1>3, <1>5, <1>6 DEF HubState, Projections

\* RemoteHub::unregister keeps the type.
LEMMA UnregisterType ==
    ASSUME NEW h \in HubState, NEW d \in Devices, NEW g \in Nat, NEW now \in Nat
    PROVE  /\ Unregister(h, d, g, now) \in HubState
           /\ Unregister(h, d, g, now).next = h.next
           /\ Unregister(h, d, g, now).pending = h.pending
<1> DEFINE p == Detach(h.proj, d, h.session[d], now)
<1> DEFINE up == IF h.info[d].gen = h.session[d] THEN FALSE ELSE h.info[d].up
<1>1. h.session[d] \in Nat /\ h.proj \in Projections /\ up \in BOOLEAN
  BY DEF HubState, Projections, SessionInfo
<1>2. p \in Projections
  BY <1>1, DetachType
<1>3. [h.session EXCEPT ![d] = Offline] \in [Devices -> Nat]
  BY DEF HubState, Offline
<1>4. [h.info EXCEPT ![d].up = up] \in [Devices -> SessionInfo]
  BY ZenonT(60), <1>1 DEF HubState, SessionInfo
<1>5. EmptySlot(h, d, now) = [h EXCEPT !.session[d] = Offline, !.info[d].up = up, !.proj = p]
  BY DEF EmptySlot
<1> HIDE DEF p, up
<1>6. /\ EmptySlot(h, d, now) \in HubState
      /\ EmptySlot(h, d, now).next = h.next
      /\ EmptySlot(h, d, now).pending = h.pending
  BY <1>2, <1>3, <1>4, <1>5 DEF HubState, Projections
<1> QED  BY <1>6 DEF Unregister

\* The initial hub is well typed.
LEMMA HubInitType == HubInit \in HubState
BY DEF HubInit, HubState, SessionInfo, Offline

\* RemoteHub::disconnect keeps the type.
LEMMA DisconnectType ==
    ASSUME NEW h \in HubState, NEW d \in Devices, NEW now \in Nat
    PROVE  Disconnect(h, d, now) \in HubState
<1>1. h.session[d] \in Nat /\ Unregister(h, d, h.session[d], now) = EmptySlot(h, d, now)
  BY DEF HubState, Unregister
<1> QED  BY <1>1, UnregisterType DEF Disconnect

\* Generations in the slots have been issued, and the telemetry record tells
\* what is in the slot.
SessionsAgree(h) ==
    \A d \in Devices :
        /\ h.session[d] <= h.next
        /\ h.info[d].up <=> h.session[d] # Offline
        /\ h.info[d].up => h.info[d].gen = h.session[d]
        /\ h.info[d].path = h.info[d].gen

\* In an empty hub, slots and telemetry agree.
LEMMA HubInitAgrees == SessionsAgree(HubInit)
BY DEF SessionsAgree, HubInit, Offline

\* RemoteHub::register issues a new generation and puts it in the slot.
LEMMA RegisterAgrees ==
    ASSUME NEW h \in HubState, NEW d \in Devices, NEW now \in Nat, SessionsAgree(h)
    PROVE  /\ Register(h, d, now).session = [h.session EXCEPT ![d] = h.next + 1]
           /\ SessionsAgree(Register(h, d, now))
<1> DEFINE n == Register(h, d, now)
<1> DEFINE i == [gen |-> h.next + 1, up |-> TRUE, path |-> h.next + 1]
<1>1. /\ n.session = [h.session EXCEPT ![d] = h.next + 1]
      /\ n.info = [h.info EXCEPT ![d] = i]
      /\ n.next = h.next + 1
  BY DEF Register, HubState
<1>2. h.next \in Nat /\ h.session \in [Devices -> Nat] /\ h.info \in [Devices -> SessionInfo]
  BY DEF HubState
<1>3. i.gen = h.next + 1 /\ i.path = h.next + 1 /\ i.up = TRUE
  OBVIOUS
<1> HIDE DEF n, i
<1>4. ASSUME NEW e \in Devices
      PROVE  /\ n.session[e] <= n.next
             /\ n.info[e].up <=> n.session[e] # Offline
             /\ n.info[e].up => n.info[e].gen = n.session[e]
             /\ n.info[e].path = n.info[e].gen
  <2>1. CASE e = d
    <3>1. n.session[e] = h.next + 1 /\ n.info[e] = i /\ n.next = h.next + 1
      BY <1>1, <1>2, <2>1
    <3> QED  BY <1>2, <1>3, <3>1 DEF Offline
  <2>2. CASE e # d
    <3>1. n.session[e] = h.session[e] /\ n.info[e] = h.info[e] /\ n.next = h.next + 1
      BY <1>1, <1>2, <2>2
    <3> QED  BY <1>2, <3>1 DEF SessionsAgree
  <2> QED  BY <2>1, <2>2
<1> QED  BY <1>1, <1>4 DEF SessionsAgree, n

\* Emptying a slot takes its telemetry down with it.
LEMMA EmptySlotAgrees ==
    ASSUME NEW h \in HubState, NEW d \in Devices, NEW now \in Nat, SessionsAgree(h)
    PROVE  /\ EmptySlot(h, d, now).session = [h.session EXCEPT ![d] = Offline]
           /\ EmptySlot(h, d, now).next = h.next
           /\ SessionsAgree(EmptySlot(h, d, now))
<1> DEFINE n == EmptySlot(h, d, now)
<1> DEFINE up == IF h.info[d].gen = h.session[d] THEN FALSE ELSE h.info[d].up
<1>1. /\ n.session = [h.session EXCEPT ![d] = Offline]
      /\ n.info = [h.info EXCEPT ![d].up = up]
      /\ n.next = h.next
  BY DEF EmptySlot, HubState
<1>2. h.next \in Nat /\ h.session \in [Devices -> Nat] /\ h.info \in [Devices -> SessionInfo]
  BY DEF HubState
<1>3. up = FALSE
  BY <1>2 DEF SessionsAgree, SessionInfo
<1> HIDE DEF n, up
<1>4. ASSUME NEW e \in Devices
      PROVE  /\ n.session[e] <= n.next
             /\ n.info[e].up <=> n.session[e] # Offline
             /\ n.info[e].up => n.info[e].gen = n.session[e]
             /\ n.info[e].path = n.info[e].gen
  <2>1. CASE e = d
    <3>1. n.session[e] = Offline /\ n.info[e] = [h.info[d] EXCEPT !.up = FALSE]
      BY <1>1, <1>2, <1>3, <2>1
    <3>2. n.info[e].up = FALSE /\ n.info[e].path = n.info[e].gen
      BY <1>2, <3>1 DEF SessionInfo, SessionsAgree
    <3> QED  BY <1>1, <1>2, <3>1, <3>2 DEF Offline
  <2>2. CASE e # d
    <3>1. n.session[e] = h.session[e] /\ n.info[e] = h.info[e] /\ n.next = h.next
      BY <1>1, <1>2, <2>2
    <3> QED  BY <3>1 DEF SessionsAgree
  <2> QED  BY <2>1, <2>2
<1> QED  BY <1>1, <1>4 DEF SessionsAgree, n

\* RemoteHub::update_path changes the path of the session in the slot only.
LEMMA UpdatePathAgrees ==
    ASSUME NEW h \in HubState, NEW d \in Devices, NEW g \in Nat, SessionsAgree(h)
    PROVE  /\ UpdatePath(h, d, g) \in HubState
           /\ UpdatePath(h, d, g).session = h.session
           /\ UpdatePath(h, d, g).next = h.next
           /\ SessionsAgree(UpdatePath(h, d, g))
<1>1. CASE h.session[d] = g /\ h.info[d].gen = g
  <2> DEFINE n == [h EXCEPT !.info[d].path = g]
  <2>1. h.info[d].path = g /\ h.info[d] \in SessionInfo
    BY <1>1 DEF SessionsAgree, HubState
  <2>2. n = h
    BY <2>1 DEF HubState, SessionInfo
  <2> QED  BY <1>1, <2>2 DEF UpdatePath
<1>2. CASE ~(h.session[d] = g /\ h.info[d].gen = g)
  BY <1>2 DEF UpdatePath
<1> QED  BY <1>1, <1>2

-----------------------------------------------------------------------------
(* The invariant *)

\* handle_member knows its device from the authorization on.
ConnsOK ==
    /\ conn \in [Conns -> ConnState]
    /\ \A c \in Conns : conn[c].pc \notin {"new", "closed"} => conn[c].dev \in Devices

\* Where a replay loop stands: its generations have been issued, the slot of
\* its device never goes back behind the one it used last, and the one it is
\* on is newer than the one it failed on.
Forward(r) ==
    /\ req[r].pc # "idle" => req[r].dev \in Devices
    /\ req[r].pc = "idle" => req[r].gen = 0
    /\ req[r].prev <= req[r].gen
    /\ req[r].gen <= hub.next
    /\ req[r].dev \in Devices => \/ hub.session[req[r].dev] = Offline
                                 \/ hub.session[req[r].dev] >= req[r].gen
    /\ req[r].pc \in {"queued", "sent"} => req[r].prev < req[r].gen

ReqsOK == req \in [Reqs -> ReqState] /\ \A r \in Reqs : Forward(r)
HubOK == hub \in HubState /\ SessionsAgree(hub)
RestOK == revoked \subseteq Devices /\ revoking \subseteq revoked /\ jumps \in 0..MaxJumps

\* The inductive invariant.
IInv == HubOK /\ ConnsOK /\ ReqsOK /\ RestOK

\* It implies the invariants that are checked.
LEMMA IInvImplies == IInv => TypeOK /\ TelemetryAgrees /\ ReplayMovesForward
<1> SUFFICES ASSUME IInv PROVE TypeOK /\ TelemetryAgrees /\ ReplayMovesForward
  OBVIOUS
<1>1. TypeOK
  BY DEF IInv, HubOK, ConnsOK, ReqsOK, RestOK, TypeOK
<1>2. TelemetryAgrees
  BY DEF IInv, HubOK, SessionsAgree, TelemetryAgrees
<1>3. ReplayMovesForward
  BY DEF IInv, ReqsOK, Forward, ReplayMovesForward, ReqState
<1> QED  BY <1>1, <1>2, <1>3

\* The Controller starts with an empty hub.
LEMMA InitIInv == Init => IInv
<1> SUFFICES ASSUME Init PROVE IInv
  OBVIOUS
<1>1. HubOK
  BY HubInitType, HubInitAgrees DEF Init, HubOK
<1>2. ConnsOK
  BY DEF Init, ConnsOK, ConnState
<1>3. ReqsOK
  BY HubAssumption DEF Init, ReqsOK, ReqState, Forward, HubInit, None
<1>4. RestOK
  BY GateAssumption DEF Init, RestOK
<1> QED  BY <1>1, <1>2, <1>3, <1>4 DEF IInv

\* The slots may be emptied or filled with a new generation under a replay
\* loop without disturbing it.
LEMMA SlotsMove ==
    ASSUME IInv, UNCHANGED req, hub'.next \in Nat, hub'.next >= hub.next,
           \A d \in Devices : \/ hub'.session[d] = hub.session[d]
                              \/ hub'.session[d] = Offline
                              \/ hub'.session[d] = hub.next + 1
    PROVE  ReqsOK'
<1>1. ASSUME NEW r \in Reqs PROVE Forward(r)'
  <2>1. /\ req[r].gen \in Nat /\ req[r].prev \in Nat /\ hub.next \in Nat
        /\ \A d \in Devices : hub.session[d] \in Nat
    BY DEF IInv, ReqsOK, ReqState, HubOK, HubState
  <2>2. Forward(r)
    BY DEF IInv, ReqsOK
  <2>3. req'[r] = req[r]
    OBVIOUS
  <2>4. req[r].dev \in Devices => \/ hub'.session[req[r].dev] = Offline
                                  \/ hub'.session[req[r].dev] >= req[r].gen
    BY <2>1, <2>2 DEF Forward
  <2> QED  BY <2>1, <2>2, <2>3, <2>4 DEF Forward
<1> QED  BY <1>1 DEF IInv, ReqsOK

\* A handler that moves on keeps its device.
LEMMA EnterOK ==
    ASSUME ConnsOK, NEW c \in Conns, conn[c].pc \notin {"new", "closed"},
           NEW pc \in {"authorized", "probing", "serving", "ending", "closed"},
           Enter(c, pc)
    PROVE  ConnsOK'
BY DEF ConnsOK, ConnState, Enter

\* Steps of handle_member that do not touch the hub.
LEMMA QuietMemberIInv ==
    ASSUME IInv, NEW c \in Conns,
           \/ \E d \in Devices : Authorize(c, d)
           \/ LostBeforeRegister(c) \/ ProbeAnswered(c) \/ ProbeContinuityLost(c)
           \/ LoseConnection(c) \/ StopServing(c)
    PROVE  IInv'
<1>1. UNCHANGED <<hub, req, revoked, revoking, jumps>>
  BY DEF Authorize, LostBeforeRegister, ProbeAnswered, ProbeContinuityLost, LoseConnection,
         StopServing
<1>2. ConnsOK'
  <2>1. CASE \E d \in Devices : Authorize(c, d)
    <3> PICK d \in Devices : Authorize(c, d)
      BY <2>1
    <3> DEFINE x == [conn[c] EXCEPT !.pc = "authorized", !.dev = d]
    <3>1. x \in ConnState /\ x.dev \in Devices
      BY DEF IInv, ConnsOK, ConnState
    <3>2. conn' = [conn EXCEPT ![c] = x]
      BY DEF Authorize, IInv, ConnsOK
    <3> HIDE DEF x
    <3> QED  BY <3>1, <3>2 DEF IInv, ConnsOK
  <2>2. CASE LostBeforeRegister(c) \/ ProbeContinuityLost(c)
    <3>1. conn[c].pc \notin {"new", "closed"} /\ Enter(c, "closed")
      BY <2>2 DEF LostBeforeRegister, ProbeContinuityLost
    <3> QED  BY <3>1, EnterOK DEF IInv
  <2>3. CASE ProbeAnswered(c)
    <3>1. conn[c].pc \notin {"new", "closed"} /\ Enter(c, "serving")
      BY <2>3 DEF ProbeAnswered
    <3> QED  BY <3>1, EnterOK DEF IInv
  <2>4. CASE LoseConnection(c) \/ StopServing(c)
    <3>1. conn[c].pc \notin {"new", "closed"} /\ Enter(c, "ending")
      BY <2>4 DEF LoseConnection, StopServing
    <3> QED  BY <3>1, EnterOK DEF IInv
  <2> QED  BY <2>1, <2>2, <2>3, <2>4
<1> QED  BY <1>1, <1>2 DEF IInv, HubOK, ReqsOK, Forward, RestOK

\* Registration puts a fresh generation into the slot.
LEMMA RegisterMemberIInv ==
    ASSUME IInv, NEW c \in Conns, RegisterMember(c)
    PROVE  IInv'
<1>1. hub \in HubState /\ SessionsAgree(hub) /\ conn[c].dev \in Devices /\ Now \in Nat
  BY DEF IInv, HubOK, ConnsOK, RegisterMember, Now
<1>2. /\ hub' \in HubState /\ SessionsAgree(hub') /\ hub'.next = hub.next + 1
      /\ hub'.session = [hub.session EXCEPT ![conn[c].dev] = hub.next + 1]
  BY <1>1, RegisterType, RegisterAgrees DEF RegisterMember
<1>3. hub.next \in Nat /\ hub.session \in [Devices -> Nat] /\ hub'.next \in Nat
  BY <1>1, <1>2 DEF HubState
<1>4. ReqsOK'
  BY <1>2, <1>3, SlotsMove DEF RegisterMember
<1>5. ConnsOK'
  BY ZenonT(40), <1>1, <1>3 DEF IInv, ConnsOK, ConnState, RegisterMember
<1> QED  BY <1>2, <1>4, <1>5 DEF IInv, HubOK, RestOK, RegisterMember

\* Unregistering gives back the handler's own slot, or nothing.
LEMMA UnregisterOK ==
    ASSUME IInv, NEW d \in Devices, NEW g \in Nat, hub' = Unregister(hub, d, g, Now)
    PROVE  /\ HubOK'
           /\ UNCHANGED req => ReqsOK'
           /\ \A e \in Devices : \/ hub'.session[e] = hub.session[e]
                                 \/ e = d /\ hub.session[d] = g
<1>1. hub \in HubState /\ SessionsAgree(hub) /\ Now \in Nat
  BY DEF IInv, HubOK, Now
<1>2. hub' \in HubState /\ hub'.next = hub.next
  BY <1>1, UnregisterType
<1>3. CASE hub.session[d] = g
  <2>1. hub' = EmptySlot(hub, d, Now)
    BY <1>3 DEF Unregister
  <2>2. SessionsAgree(hub') /\ hub'.session = [hub.session EXCEPT ![d] = Offline]
    BY <1>1, <2>1, EmptySlotAgrees
  <2>3. hub.session \in [Devices -> Nat] /\ hub.next \in Nat
    BY <1>1 DEF HubState
  <2> QED  BY <1>2, <1>3, <2>2, <2>3, SlotsMove DEF HubOK
<1>4. CASE hub.session[d] # g
  <2>1. hub' = hub
    BY <1>4 DEF Unregister
  <2> QED  BY <1>1, <2>1 DEF IInv, HubOK, ReqsOK, Forward
<1> QED  BY <1>3, <1>4

\* The ends of a handler that unregister it.
LEMMA UnregisterMemberIInv ==
    ASSUME IInv, NEW c \in Conns, UnregisterMember(c) \/ ProbeFailed(c)
    PROVE  IInv'
<1>1. /\ conn[c].dev \in Devices /\ conn[c].gen \in Nat
      /\ conn[c].pc \notin {"new", "closed"}
      /\ hub' = Unregister(hub, conn[c].dev, conn[c].gen, Now)
      /\ Enter(c, "closed") /\ UNCHANGED <<req, revoked, revoking, jumps>>
  BY DEF IInv, ConnsOK, ConnState, UnregisterMember, ProbeFailed
<1>2. HubOK' /\ ReqsOK'
  BY <1>1, UnregisterOK
<1>3. ConnsOK'
  BY <1>1, EnterOK DEF IInv
<1> QED  BY <1>1, <1>2, <1>3 DEF IInv, RestOK

\* A path event relabels at most the session in the slot.
LEMMA PathEventIInv ==
    ASSUME IInv, NEW c \in Conns, PathEvent(c)
    PROVE  IInv'
<1>1. conn[c].dev \in Devices /\ conn[c].gen \in Nat /\ hub \in HubState /\ SessionsAgree(hub)
  BY DEF IInv, ConnsOK, ConnState, PathEvent, HubOK
<1>2. HubOK' /\ hub'.session = hub.session /\ hub'.next = hub.next
  BY <1>1, UpdatePathAgrees DEF PathEvent, HubOK
<1>3. ReqsOK'
  BY <1>2 DEF PathEvent, IInv, ReqsOK, Forward
<1> QED  BY <1>2, <1>3 DEF IInv, ConnsOK, RestOK, PathEvent

\* The two halves of a revocation, and the clock.
LEMMA OwnerIInv ==
    ASSUME IInv, ClockJump \/ \E d \in Devices : RevokeCommit(d) \/ RevokeDisconnect(d)
    PROVE  IInv'
<1>1. CASE ClockJump
  <2>1. ConnsOK'
    BY ZenonT(60), <1>1 DEF IInv, ConnsOK, ConnState, ClockJump
  <2>2. jumps' \in 0..MaxJumps
    BY <1>1, GateAssumption DEF IInv, RestOK, ClockJump
  <2> QED  BY <1>1, <2>1, <2>2 DEF IInv, HubOK, ReqsOK, Forward, RestOK, ClockJump
<1>2. ASSUME NEW d \in Devices, RevokeCommit(d) PROVE IInv'
  BY <1>2 DEF IInv, HubOK, ConnsOK, ReqsOK, Forward, RestOK, RevokeCommit
<1>3. ASSUME NEW d \in Devices, RevokeDisconnect(d) PROVE IInv'
  <2>1. hub \in HubState /\ SessionsAgree(hub) /\ Now \in Nat
    BY DEF IInv, HubOK, Now
  <2>2. hub' \in HubState /\ hub.next \in Nat /\ hub.session \in [Devices -> Nat]
    BY <1>3, <2>1, DisconnectType DEF RevokeDisconnect, HubState
  <2>3. /\ SessionsAgree(hub') /\ hub'.next = hub.next
        /\ \A e \in Devices : hub'.session[e] = hub.session[e] \/ hub'.session[e] = Offline
    <3>1. CASE hub.session[d] = Offline
      BY <1>3, <2>1, <3>1 DEF RevokeDisconnect, Disconnect
    <3>2. CASE hub.session[d] # Offline
      <4>1. hub' = EmptySlot(hub, d, Now)
        BY <1>3, <3>2 DEF RevokeDisconnect, Disconnect
      <4>2. /\ SessionsAgree(hub') /\ hub'.next = hub.next
            /\ hub'.session = [hub.session EXCEPT ![d] = Offline]
        BY <2>1, <4>1, EmptySlotAgrees
      <4> QED  BY <2>2, <4>2
    <3> QED  BY <3>1, <3>2
  <2>4. ReqsOK'
    BY <1>3, <2>2, <2>3, SlotsMove DEF RevokeDisconnect
  <2> QED  BY <1>3, <2>2, <2>3, <2>4 DEF IInv, HubOK, ConnsOK, RestOK, RevokeDisconnect
<1> QED  BY <1>1, <1>2, <1>3

\* A replay loop whose record changes while the hub stands still.
LEMMA ReqMoves ==
    ASSUME IInv, NEW r \in Reqs, NEW x \in ReqState, req' = [req EXCEPT ![r] = x],
           UNCHANGED hub,
           x.pc # "idle", x.dev \in Devices, x.prev <= x.gen, x.gen <= hub.next,
           hub.session[x.dev] = Offline \/ hub.session[x.dev] >= x.gen,
           x.pc \in {"queued", "sent"} => x.prev < x.gen
    PROVE  ReqsOK'
<1>1. req' \in [Reqs -> ReqState]
  BY DEF IInv, ReqsOK
<1>2. ASSUME NEW q \in Reqs PROVE Forward(q)'
  <2>1. CASE q = r
    <3>1. req'[q] = x
      BY <2>1 DEF IInv, ReqsOK
    <3> QED  BY <3>1 DEF Forward
  <2>2. CASE q # r
    <3>1. req'[q] = req[q]
      BY <2>2 DEF IInv, ReqsOK
    <3> QED  BY <3>1 DEF IInv, ReqsOK, Forward
  <2> QED  BY <2>1, <2>2
<1> QED  BY <1>1, <1>2 DEF ReqsOK

\* A loop that changes its program counter only: it may enter "sent" from
\* "queued", and leave for any state in which nothing is on its way.
LEMMA ResumeOK ==
    ASSUME IInv, NEW r \in Reqs, req[r].pc # "idle", UNCHANGED hub,
           NEW pc \in {"abandoned", "sent", "unheard", "done", "failed"}, Resume(r, pc),
           pc = "sent" => req[r].pc = "queued"
    PROVE  ReqsOK'
<1> DEFINE x == [req[r] EXCEPT !.pc = pc]
<1>1. req[r] \in ReqState /\ Forward(r)
  BY DEF IInv, ReqsOK
<1>2. x \in ReqState /\ x.pc = pc /\ x.dev = req[r].dev /\ x.prev = req[r].prev
      /\ x.gen = req[r].gen
  BY <1>1 DEF ReqState
<1>3. req' = [req EXCEPT ![r] = x]
  BY DEF Resume, IInv, ReqsOK
<1> HIDE DEF x
<1> QED  BY <1>1, <1>2, <1>3, ReqMoves DEF Forward

\* A failed attempt is remembered as the generation to move on from.
LEMMA RetryOK ==
    ASSUME IInv, NEW r \in Reqs, req[r].pc # "idle", UNCHANGED hub, Retry(r)
    PROVE  ReqsOK'
<1>1. CASE req[r].pc \in {"abandoned", "unheard"}
  BY <1>1, ResumeOK DEF Retry
<1>2. CASE req[r].pc \notin {"abandoned", "unheard"}
  <2> DEFINE x == [req[r] EXCEPT !.pc = "waiting", !.prev = req[r].gen]
  <2>1. req[r] \in ReqState /\ Forward(r) /\ req[r].gen \in Nat
    BY DEF IInv, ReqsOK, ReqState
  <2>2. x \in ReqState /\ x.pc = "waiting" /\ x.dev = req[r].dev /\ x.prev = req[r].gen
        /\ x.gen = req[r].gen
    BY <2>1 DEF ReqState
  <2>3. req' = [req EXCEPT ![r] = x]
    BY <1>2 DEF Retry, IInv, ReqsOK
  <2> HIDE DEF x
  <2>4. /\ x.dev \in Devices /\ x.prev <= x.gen /\ x.gen <= hub.next
        /\ hub.session[x.dev] = Offline \/ hub.session[x.dev] >= x.gen
    BY <2>1, <2>2 DEF Forward
  <2>5. x.pc # "idle" /\ x.pc \notin {"queued", "sent"}
    BY <2>2
  <2> QED  BY <2>2, <2>3, <2>4, <2>5, ReqMoves
<1> QED  BY <1>1, <1>2

\* The steps of a replay loop outside a serving handler.
LEMMA ReqIInv ==
    ASSUME IInv, NEW r \in Reqs,
           Pick(r) \/ Dropped(r) \/ GiveUp(r) \/ \E d \in Devices : Issue(r, d)
    PROVE  IInv'
<1>1. UNCHANGED <<hub, conn, revoked, revoking, jumps>>
  BY DEF Pick, Dropped, GiveUp, Issue
<1>2. /\ req[r] \in ReqState /\ Forward(r) /\ hub.next \in Nat
      /\ \A d \in Devices : hub.session[d] \in Nat /\ hub.session[d] <= hub.next
  BY DEF IInv, ReqsOK, HubOK, HubState, SessionsAgree
<1>3. CASE Pick(r)
  <2> DEFINE g == hub.session[req[r].dev]
  <2> DEFINE x == [req[r] EXCEPT !.pc = "queued", !.gen = g]
  <2>1. g \in Nat /\ g <= hub.next /\ req[r].prev < g /\ req[r].dev \in Devices
    BY <1>2, <1>3 DEF Pick, Forward, ReqState
  <2>2. x \in ReqState /\ x.pc = "queued" /\ x.dev = req[r].dev /\ x.prev = req[r].prev
        /\ x.gen = g
    BY <1>2, <2>1 DEF ReqState
  <2>3. req' = [req EXCEPT ![r] = x]
    BY <1>3 DEF Pick, IInv, ReqsOK
  <2>4. x.prev \in Nat
    BY <1>2, <2>2 DEF ReqState
  <2> HIDE DEF x
  <2>5. /\ x.dev \in Devices /\ x.prev <= x.gen /\ x.prev < x.gen /\ x.gen <= hub.next
        /\ hub.session[x.dev] >= x.gen
    BY <2>1, <2>2, <2>4
  <2>6. ReqsOK'
    BY <1>1, <2>2, <2>3, <2>5, ReqMoves
  <2> QED  BY <1>1, <2>6 DEF IInv, HubOK, ConnsOK, RestOK
<1>4. CASE Dropped(r)
  <2>1. ReqsOK'
    BY <1>1, <1>4, RetryOK DEF Dropped, Queued
  <2> QED  BY <1>1, <2>1 DEF IInv, HubOK, ConnsOK, RestOK
<1>5. CASE GiveUp(r)
  <2>1. /\ req[r].pc # "idle"
        /\ Resume(r, "failed") \/ Resume(r, "abandoned") \/ Resume(r, "unheard")
    BY <1>5 DEF GiveUp
  <2>2. ReqsOK'
    BY <1>1, <2>1, ResumeOK
  <2> QED  BY <1>1, <2>2 DEF IInv, HubOK, ConnsOK, RestOK
<1>6. ASSUME NEW d \in Devices, Issue(r, d) PROVE IInv'
  <2> DEFINE x == [req[r] EXCEPT !.pc = "waiting", !.dev = d]
  <2>1. x \in ReqState /\ x.pc = "waiting" /\ x.dev = d /\ x.prev = req[r].prev /\ x.gen = 0
    BY <1>2, <1>6 DEF ReqState, Issue, Forward
  <2>2. req' = [req EXCEPT ![r] = x]
    BY <1>6 DEF Issue, IInv, ReqsOK
  <2> HIDE DEF x
  <2>3. /\ x.prev <= x.gen /\ x.gen <= hub.next /\ hub.session[x.dev] >= x.gen
        /\ x.pc # "idle" /\ x.pc \notin {"queued", "sent"}
    BY <1>2, <1>6, <2>1 DEF Issue, Forward
  <2>4. ReqsOK'
    BY <1>1, <2>1, <2>2, <2>3, ReqMoves
  <2> QED  BY <1>1, <2>4 DEF IInv, HubOK, ConnsOK, RestOK
<1> QED  BY <1>3, <1>4, <1>5, <1>6

\* The steps of a serving handler on a request.
LEMMA ServeIInv ==
    ASSUME IInv, NEW c \in Conns, NEW r \in Reqs,
           Deliver(c, r) \/ Reply(c, r) \/ RpcFails(c, r)
    PROVE  IInv'
<1>1. UNCHANGED <<hub, revoked, revoking, jumps>> /\ req[r].pc # "idle"
  BY DEF Deliver, Reply, RpcFails, Sent, Queued
<1>2. ReqsOK'
  <2>1. CASE Deliver(c, r)
    <3>1. CASE req[r].pc = "queued"
      BY <1>1, <2>1, <3>1, ResumeOK DEF Deliver
    <3>2. CASE req[r].pc # "queued"
      BY <1>1, <2>1, <3>2, ResumeOK DEF Deliver
    <3> QED  BY <3>1, <3>2
  <2>2. CASE Reply(c, r)
    <3>1. CASE req[r].pc = "sent"
      BY <1>1, <2>2, <3>1, ResumeOK DEF Reply
    <3>2. CASE req[r].pc # "sent"
      BY <1>1, <2>2, <3>2, ResumeOK DEF Reply
    <3> QED  BY <3>1, <3>2
  <2>3. CASE RpcFails(c, r)
    BY <1>1, <2>3, RetryOK DEF RpcFails
  <2> QED  BY <2>1, <2>2, <2>3
<1>3. ConnsOK'
  <2>1. CASE Deliver(c, r) \/ Reply(c, r)
    BY <2>1 DEF Deliver, Reply, IInv, ConnsOK
  <2>2. CASE RpcFails(c, r)
    <3>1. conn[c].pc \notin {"new", "closed"} /\ Enter(c, "ending")
      BY <2>2 DEF RpcFails
    <3> QED  BY <3>1, EnterOK DEF IInv
  <2> QED  BY <2>1, <2>2
<1> QED  BY <1>1, <1>2, <1>3 DEF IInv, HubOK, RestOK

\* Every step preserves the inductive invariant.
LEMMA NextIInv == IInv /\ [Next]_vars => IInv'
<1> SUFFICES ASSUME IInv, [Next]_vars PROVE IInv'
  OBVIOUS
<1>1. CASE UNCHANGED vars
  BY <1>1 DEF vars, IInv, HubOK, ConnsOK, ReqsOK, Forward, RestOK
<1>2. ASSUME NEW c \in Conns, Member(c) PROVE IInv'
  BY <1>2, RegisterMemberIInv, QuietMemberIInv, UnregisterMemberIInv, ServeIInv DEF Member
<1>3. ASSUME NEW c \in Conns,
             LostBeforeRegister(c) \/ LoseConnection(c) \/ \E d \in Devices : Authorize(c, d)
      PROVE  IInv'
  BY <1>3, QuietMemberIInv
<1>4. ASSUME NEW c \in Conns, PathEvent(c) PROVE IInv'
  BY <1>4, PathEventIInv
<1>5. CASE ClockJump \/ \E d \in Devices : RevokeCommit(d) \/ RevokeDisconnect(d)
  BY <1>5, OwnerIInv
<1>6. ASSUME NEW r \in Reqs,
             Pick(r) \/ Dropped(r) \/ GiveUp(r) \/ \E d \in Devices : Issue(r, d)
      PROVE  IInv'
  BY <1>6, ReqIInv
<1> QED  BY <1>1, <1>2, <1>3, <1>4, <1>5, <1>6 DEF Next

\* The specification keeps the inductive invariant.
LEMMA SpecIInv == Spec => []IInv
BY InitIInv, NextIInv, PTL DEF Spec

\* SessionGate is well typed, for every set of devices, connections and calls.
THEOREM GateTypeOK == Spec => []TypeOK
BY SpecIInv, IInvImplies, PTL

\* RemoteHub::session_info never contradicts the session slot.
THEOREM TelemetryAgreesThm == Spec => []TelemetryAgrees
BY SpecIInv, IInvImplies, PTL

\* replay_session_after never hands a request back to a generation that the
\* request has already failed on, or to an older one.
THEOREM ReplayMovesForwardThm == Spec => []ReplayMovesForward
BY SpecIInv, IInvImplies, PTL

\* What a step may do to a session slot: the action of SlotLeavesForCause.
ForCause ==
    \A d \in Devices :
        hub.session[d] # Offline /\ hub'.session[d] # hub.session[d] =>
            \/ hub'.session[d] > hub.session[d]
            \/ d \in revoked
            \/ \E c \in Conns : conn[c].gen = hub.session[d] /\ conn'[c].pc = "closed"

\* Each step that touches a slot has one of the three causes.
LEMMA NextForCause == IInv /\ [Next]_vars => [ForCause]_vars
<1> SUFFICES ASSUME IInv, Next PROVE ForCause
  OBVIOUS
<1>1. /\ hub \in HubState /\ SessionsAgree(hub) /\ Now \in Nat
      /\ hub.next \in Nat /\ hub.session \in [Devices -> Nat]
  BY DEF IInv, HubOK, Now, HubState
<1>2. CASE UNCHANGED hub
  BY <1>2 DEF ForCause
<1>3. ASSUME NEW c \in Conns, RegisterMember(c) PROVE ForCause
  <2>1. conn[c].dev \in Devices
    BY <1>3 DEF IInv, ConnsOK, RegisterMember
  <2>2. hub'.session = [hub.session EXCEPT ![conn[c].dev] = hub.next + 1]
    BY <1>1, <1>3, <2>1, RegisterAgrees DEF RegisterMember
  <2>3. hub.session[conn[c].dev] <= hub.next
    BY <1>1, <2>1 DEF SessionsAgree
  <2> QED  BY <1>1, <2>1, <2>2, <2>3 DEF ForCause
<1>4. ASSUME NEW c \in Conns, UnregisterMember(c) \/ ProbeFailed(c) PROVE ForCause
  <2>1. /\ conn[c].dev \in Devices /\ conn[c].gen \in Nat
        /\ hub' = Unregister(hub, conn[c].dev, conn[c].gen, Now) /\ Enter(c, "closed")
    BY <1>4 DEF IInv, ConnsOK, ConnState, UnregisterMember, ProbeFailed
  <2>2. \A e \in Devices : \/ hub'.session[e] = hub.session[e]
                           \/ e = conn[c].dev /\ hub.session[conn[c].dev] = conn[c].gen
    BY <2>1, UnregisterOK
  <2>3. conn'[c].pc = "closed"
    BY <2>1 DEF Enter, IInv, ConnsOK, ConnState
  <2> QED  BY <2>2, <2>3 DEF ForCause
<1>5. ASSUME NEW c \in Conns, PathEvent(c) PROVE ForCause
  <2>1. conn[c].dev \in Devices /\ conn[c].gen \in Nat
    BY <1>5 DEF IInv, ConnsOK, ConnState, PathEvent
  <2>2. hub'.session = hub.session
    BY <1>1, <1>5, <2>1, UpdatePathAgrees DEF PathEvent
  <2> QED  BY <2>2 DEF ForCause
<1>6. ASSUME NEW d \in Devices, RevokeDisconnect(d) PROVE ForCause
  <2>1. d \in revoked
    BY <1>6 DEF IInv, RestOK, RevokeDisconnect
  <2>2. CASE hub.session[d] = Offline
    BY <1>6, <2>2 DEF RevokeDisconnect, Disconnect, ForCause
  <2>3. CASE hub.session[d] # Offline
    <3>1. hub' = EmptySlot(hub, d, Now)
      BY <1>6, <2>3 DEF RevokeDisconnect, Disconnect
    <3>2. hub'.session = [hub.session EXCEPT ![d] = Offline]
      BY <1>1, <3>1, EmptySlotAgrees
    <3> QED  BY <1>1, <2>1, <3>2 DEF ForCause
  <2> QED  BY <2>2, <2>3
<1> QED
  <2>1. \/ UNCHANGED hub
        \/ \E c \in Conns : \/ RegisterMember(c) \/ UnregisterMember(c) \/ ProbeFailed(c)
                            \/ PathEvent(c)
        \/ \E d \in Devices : RevokeDisconnect(d)
    BY DEF Next, Member, Authorize, LostBeforeRegister, ProbeAnswered, ProbeContinuityLost,
           LoseConnection, StopServing, Deliver, Reply, RpcFails, RevokeCommit, ClockJump,
           Pick, Dropped, GiveUp, Issue
  <2> QED  BY <2>1, <1>2, <1>3, <1>4, <1>5, <1>6

\* RemoteHub::unregister's generation check works: no late clean-up of an older
\* handler ever takes a device offline.
THEOREM SlotLeavesForCauseThm == Spec => SlotLeavesForCause
<1>1. SlotLeavesForCause <=> [][ForCause]_vars
  BY DEF SlotLeavesForCause, ForCause
<1> QED  BY <1>1, SpecIInv, NextForCause, PTL DEF Spec

-----------------------------------------------------------------------------
\* A clock jump hits registered handlers only.
FreshConns == \A c \in Conns : conn[c].pc \in {"new", "authorized"} => ~conn[c].lost

SlotInv == FreshConns /\ SlotIsGivenBack

\* What keeps a slot accounted for: a handler that has not returned, or one the
\* clock jumped under.
Holds(c, d) ==
    /\ conn[c].gen = hub.session[d]
    /\ \/ conn[c].dev = d /\ conn[c].pc \in {"probing", "serving", "ending"}
       \/ conn[c].lost

\* SlotIsGivenBack, said of one handler.
LEMMA SlotIsHeld ==
    SlotIsGivenBack <=> \A d \in Devices : hub.session[d] # Offline => \E c \in Conns : Holds(c, d)
BY DEF SlotIsGivenBack, Served, Holds

\* A step under which every slot stays or is emptied, and every handler that
\* holds one goes on holding it, keeps the slots accounted for.
LEMMA HoldersStay ==
    ASSUME SlotIsGivenBack,
           \A d \in Devices : hub'.session[d] # Offline =>
               /\ hub'.session[d] = hub.session[d]
               /\ \A c \in Conns : Holds(c, d) => Holds(c, d)'
    PROVE  SlotIsGivenBack'
<1>1. \A d \in Devices : hub'.session[d] # Offline => \E c \in Conns : Holds(c, d)'
  BY SlotIsHeld
<1> QED  BY <1>1 DEF SlotIsGivenBack, Served, Holds

\* Steps that leave every slot alone.
LEMMA QuietSlotInv ==
    ASSUME IInv, SlotInv, hub'.session = hub.session,
           \A c \in Conns :
             \/ conn'[c] = conn[c]
             \/ /\ conn'[c].gen = conn[c].gen /\ conn'[c].dev = conn[c].dev
                /\ conn[c].pc \in {"probing", "serving", "ending"}
                /\ conn'[c].pc \in {"probing", "serving", "ending"}
                /\ conn[c].lost => conn'[c].lost
             \/ /\ conn'[c].gen = conn[c].gen /\ conn'[c].pc = "closed"
                /\ conn'[c].lost = conn[c].lost
                /\ conn[c].lost \/ conn[c].pc \notin {"probing", "serving", "ending"}
             \/ /\ conn'[c].gen = conn[c].gen /\ conn[c].pc = "new"
                /\ conn'[c].pc = "authorized" /\ conn'[c].lost = conn[c].lost
    PROVE  SlotInv'
<1>1. FreshConns'
  BY DEF SlotInv, FreshConns
<1>2. \A c \in Conns, d \in Devices : Holds(c, d) => Holds(c, d)'
  BY DEF Holds
<1>3. SlotIsGivenBack'
  BY <1>2, HoldersStay DEF SlotInv
<1> QED  BY <1>1, <1>3 DEF SlotInv

\* The steps of a handler that do not call the hub, and those of its requests.
LEMMA MemberSlotInv ==
    ASSUME IInv, SlotInv, NEW c \in Conns,
           \/ \E d \in Devices : Authorize(c, d)
           \/ LostBeforeRegister(c) \/ ProbeAnswered(c) \/ ProbeContinuityLost(c)
           \/ LoseConnection(c) \/ StopServing(c) \/ PathEvent(c)
           \/ \E r \in Reqs : Deliver(c, r) \/ Reply(c, r) \/ RpcFails(c, r)
    PROVE  SlotInv'
<1>1. hub \in HubState /\ SessionsAgree(hub) /\ conn \in [Conns -> ConnState]
  BY DEF IInv, HubOK, ConnsOK
<1>2. hub'.session = hub.session
  <2>1. CASE PathEvent(c)
    <3>1. conn[c].dev \in Devices /\ conn[c].gen \in Nat
      BY <2>1 DEF IInv, ConnsOK, ConnState, PathEvent
    <3> QED  BY <1>1, <2>1, <3>1, UpdatePathAgrees DEF PathEvent
  <2>2. CASE ~PathEvent(c)
    BY <2>2 DEF Authorize, LostBeforeRegister, ProbeAnswered, ProbeContinuityLost, LoseConnection,
                StopServing, Deliver, Reply, RpcFails
  <2> QED  BY <2>1, <2>2
<1>3. \A q \in Conns : q # c => conn'[q] = conn[q]
  BY <1>1 DEF Authorize, LostBeforeRegister, ProbeAnswered, ProbeContinuityLost, LoseConnection,
              StopServing, Deliver, Reply, RpcFails, PathEvent, Enter
<1>4. \/ conn'[c] = conn[c]
      \/ /\ conn'[c].gen = conn[c].gen /\ conn'[c].dev = conn[c].dev
         /\ conn[c].pc \in {"probing", "serving", "ending"}
         /\ conn'[c].pc \in {"probing", "serving", "ending"}
         /\ conn'[c].lost = conn[c].lost
      \/ /\ conn'[c].gen = conn[c].gen /\ conn'[c].pc = "closed"
         /\ conn'[c].lost = conn[c].lost
         /\ conn[c].lost \/ conn[c].pc \notin {"probing", "serving", "ending"}
      \/ /\ conn'[c].gen = conn[c].gen /\ conn[c].pc = "new"
         /\ conn'[c].pc = "authorized" /\ conn'[c].lost = conn[c].lost
  BY <1>1 DEF ConnState, Authorize, LostBeforeRegister, ProbeAnswered, ProbeContinuityLost,
              LoseConnection, StopServing, Deliver, Reply, RpcFails, PathEvent, Enter
<1> QED  BY <1>2, <1>3, <1>4, QuietSlotInv

\* Every step keeps the slots accounted for.
LEMMA NextSlotInv == IInv /\ SlotInv /\ [Next]_vars => SlotInv'
<1> SUFFICES ASSUME IInv, SlotInv, [Next]_vars PROVE SlotInv'
  OBVIOUS
<1>1. /\ hub \in HubState /\ SessionsAgree(hub) /\ Now \in Nat
      /\ hub.next \in Nat /\ hub.session \in [Devices -> Nat]
      /\ conn \in [Conns -> ConnState]
  BY DEF IInv, HubOK, ConnsOK, Now, HubState
<1>2. CASE UNCHANGED <<hub, conn>>
  BY <1>2, QuietSlotInv
<1>3. ASSUME NEW c \in Conns,
             \/ \E d \in Devices : Authorize(c, d)
             \/ LostBeforeRegister(c) \/ ProbeAnswered(c) \/ ProbeContinuityLost(c)
             \/ LoseConnection(c) \/ StopServing(c) \/ PathEvent(c)
             \/ \E r \in Reqs : Deliver(c, r) \/ Reply(c, r) \/ RpcFails(c, r)
      PROVE  SlotInv'
  BY <1>3, MemberSlotInv
<1>4. ASSUME NEW c \in Conns, RegisterMember(c) PROVE SlotInv'
  <2>1. conn[c].dev \in Devices /\ conn[c].pc = "authorized" /\ ~conn[c].lost
    BY <1>4 DEF IInv, ConnsOK, RegisterMember, SlotInv, FreshConns
  <2>2. hub'.session = [hub.session EXCEPT ![conn[c].dev] = hub.next + 1] /\ hub'.next = hub.next + 1
    BY <1>1, <1>4, <2>1, RegisterType, RegisterAgrees DEF RegisterMember
  <2>3. /\ conn'[c].pc = "probing" /\ conn'[c].gen = hub.next + 1
        /\ conn'[c].dev = conn[c].dev /\ conn'[c].lost = conn[c].lost
        /\ \A q \in Conns : q # c => conn'[q] = conn[q]
    BY <1>1, <1>4, <2>2 DEF RegisterMember, ConnState
  <2>4. FreshConns'
    BY <2>3 DEF SlotInv, FreshConns
  <2>5. ASSUME NEW d \in Devices, hub'.session[d] # Offline PROVE \E q \in Conns : Holds(q, d)'
    <3>1. CASE d = conn[c].dev
      <4>1. Holds(c, d)'
        BY <1>1, <2>2, <2>3, <3>1 DEF Holds
      <4> QED  BY <4>1
    <3>2. CASE d # conn[c].dev
      <4>1. hub'.session[d] = hub.session[d]
        BY <1>1, <2>2, <3>2
      <4>2. PICK q \in Conns : Holds(q, d)
        BY <2>5, <4>1, SlotIsHeld DEF SlotInv
      <4>3. q # c
        BY <2>1, <3>2, <4>2 DEF Holds
      <4>4. Holds(q, d)'
        BY <2>3, <4>1, <4>2, <4>3 DEF Holds
      <4> QED  BY <4>4
    <3> QED  BY <3>1, <3>2
  <2>6. SlotIsGivenBack'
    BY <2>5 DEF SlotIsGivenBack, Served, Holds
  <2> QED  BY <2>4, <2>6 DEF SlotInv
<1>5. ASSUME NEW c \in Conns, UnregisterMember(c) \/ ProbeFailed(c) PROVE SlotInv'
  <2>1. /\ conn[c].dev \in Devices /\ conn[c].gen \in Nat
        /\ hub' = Unregister(hub, conn[c].dev, conn[c].gen, Now) /\ Enter(c, "closed")
    BY <1>5 DEF IInv, ConnsOK, ConnState, UnregisterMember, ProbeFailed
  <2>2. /\ conn'[c].pc = "closed" /\ conn'[c].gen = conn[c].gen /\ conn'[c].lost = conn[c].lost
        /\ \A q \in Conns : q # c => conn'[q] = conn[q]
    BY <1>1, <2>1 DEF Enter, ConnState
  <2>3. FreshConns'
    BY <2>2 DEF SlotInv, FreshConns
  <2>4. ASSUME NEW d \in Devices, hub'.session[d] # Offline
        PROVE  /\ hub'.session[d] = hub.session[d]
               /\ d = conn[c].dev => hub.session[d] # conn[c].gen
    <3>1. CASE hub.session[conn[c].dev] = conn[c].gen
      <4>1. hub'.session = [hub.session EXCEPT ![conn[c].dev] = Offline]
        BY <1>1, <2>1, <3>1, EmptySlotAgrees DEF Unregister
      <4> QED  BY <1>1, <2>4, <4>1
    <3>2. CASE hub.session[conn[c].dev] # conn[c].gen
      BY <2>1, <3>2 DEF Unregister
    <3> QED  BY <3>1, <3>2
  <2>5. ASSUME NEW d \in Devices, hub'.session[d] # Offline, NEW q \in Conns, Holds(q, d)
        PROVE  Holds(q, d)'
    <3>1. CASE q # c
      BY <2>2, <2>4, <2>5, <3>1 DEF Holds
    <3>2. CASE q = c
      BY <2>2, <2>4, <2>5, <3>2 DEF Holds
    <3> QED  BY <3>1, <3>2
  <2>6. SlotIsGivenBack'
    BY <2>4, <2>5, HoldersStay DEF SlotInv
  <2> QED  BY <2>3, <2>6 DEF SlotInv
<1>6. ASSUME NEW d \in Devices, RevokeDisconnect(d) PROVE SlotInv'
  <2>1. \A e \in Devices : hub'.session[e] # Offline => hub'.session[e] = hub.session[e]
    <3>1. CASE hub.session[d] = Offline
      BY <1>6, <3>1 DEF RevokeDisconnect, Disconnect
    <3>2. CASE hub.session[d] # Offline
      <4>1. hub'.session = [hub.session EXCEPT ![d] = Offline]
        BY <1>1, <1>6, <3>2, EmptySlotAgrees DEF RevokeDisconnect, Disconnect
      <4> QED  BY <1>1, <4>1
    <3> QED  BY <3>1, <3>2
  <2>2. conn' = conn
    BY <1>6 DEF RevokeDisconnect
  <2>3. SlotIsGivenBack'
    BY <2>1, <2>2, HoldersStay DEF SlotInv, Holds
  <2> QED  BY <2>2, <2>3 DEF SlotInv, FreshConns
<1>7. CASE ClockJump
  <2>1. hub' = hub
    BY <1>7 DEF ClockJump
  <2>2. ASSUME NEW c \in Conns
        PROVE  /\ conn'[c].gen = conn[c].gen /\ conn'[c].dev = conn[c].dev
               /\ conn'[c].pc = conn[c].pc
               /\ conn[c].lost => conn'[c].lost
               /\ conn[c].pc \in {"new", "authorized"} => conn'[c].lost = conn[c].lost
    BY <1>1, <1>7 DEF ClockJump, ConnState
  <2>3. FreshConns'
    BY <2>2 DEF SlotInv, FreshConns
  <2>4. \A c \in Conns, d \in Devices : Holds(c, d) => Holds(c, d)'
    BY <2>1, <2>2 DEF Holds
  <2>5. SlotIsGivenBack'
    BY <2>1, <2>4, HoldersStay DEF SlotInv
  <2> QED  BY <2>3, <2>5 DEF SlotInv
<1>8. \/ UNCHANGED <<hub, conn>> \/ ClockJump
      \/ \E c \in Conns : \/ \E d \in Devices : Authorize(c, d)
                          \/ LostBeforeRegister(c) \/ ProbeAnswered(c) \/ ProbeContinuityLost(c)
                          \/ LoseConnection(c) \/ StopServing(c) \/ PathEvent(c)
                          \/ \E r \in Reqs : Deliver(c, r) \/ Reply(c, r) \/ RpcFails(c, r)
                          \/ RegisterMember(c) \/ UnregisterMember(c) \/ ProbeFailed(c)
      \/ \E d \in Devices : RevokeDisconnect(d)
  BY DEF Next, Member, vars, RevokeCommit, Pick, Dropped, GiveUp, Issue
<1> QED  BY <1>2, <1>3, <1>4, <1>5, <1>6, <1>7, <1>8

\* A handler of handle_member returns without giving its slot back only when
\* the clock jumped under it: no other way leads to a device that looks online
\* and is served by nobody.
THEOREM SlotIsGivenBackThm == Spec => []SlotIsGivenBack
<1>1. Init => SlotInv
  BY DEF Init, SlotInv, FreshConns, SlotIsGivenBack, HubInit, Offline
<1>2. SlotInv => SlotIsGivenBack
  BY DEF SlotInv
<1> QED  BY <1>1, <1>2, SpecIInv, NextSlotInv, PTL DEF Spec
=============================================================================
