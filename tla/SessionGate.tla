----------------------------- MODULE SessionGate -----------------------------
(***************************************************************************)
(* Who is online: the life of an authenticated Host connection in the      *)
(* Controller (handle_member), the owner's revocations that race with it,  *)
(* and the replayable requests (read, fs_query, fs_mutation,               *)
(* directory_tree) that follow a device from one session generation to the *)
(* next (crates/clew-runtime/src/remote.rs, local_api.rs).                 *)
(*                                                                         *)
(* handle_member checks the authorization inside the Noise handshake,      *)
(* awaits network I/O, and only then takes a slot in the hub; a revocation *)
(* commits to the control store and then empties the slot.  Each of these  *)
(* is a step of its own here, as are the two ends of the registration      *)
(* probe, the wall clock moving under SessionContinuity, and the moments   *)
(* at which a request is picked up, sent, answered or dropped.             *)
(***************************************************************************)
EXTENDS RemoteHub

CONSTANTS
    Conns,          \* inbound member connections, each handled once
    Reqs,           \* replayable Local API calls
    MaxJumps        \* bound: discontinuities of the Controller's wall clock

ASSUME GateAssumption == MaxJumps \in Nat

VARIABLES
    hub,            \* RemoteHubState
    conn,           \* one handle_member per connection
    req,            \* one replay loop per Local API call
    revoked,        \* devices the control store records as revoked
    revoking,       \* devices between the commit and RemoteHub::disconnect
    jumps

vars == <<hub, conn, req, revoked, revoking, jumps>>

None == "none"
Now == 0            \* no Shell projection here: time does not matter

ConnState == [pc : {"new", "authorized", "probing", "serving", "ending", "closed"},
              dev : Devices \cup {None}, gen : Nat, lost : BOOLEAN]
ReqState == [pc : {"idle", "waiting", "queued", "abandoned", "sent", "unheard", "done", "failed"},
             dev : Devices \cup {None}, prev : Nat, gen : Nat]

Init ==
    /\ hub = HubInit
    /\ conn = [c \in Conns |-> [pc |-> "new", dev |-> None, gen |-> 0, lost |-> FALSE]]
    /\ req = [r \in Reqs |-> [pc |-> "idle", dev |-> None, prev |-> 0, gen |-> 0]]
    /\ revoked = {}
    /\ revoking = {}
    /\ jumps = 0

Enter(c, pc) == conn' = [conn EXCEPT ![c].pc = pc]
Resume(r, pc) == req' = [req EXCEPT ![r].pc = pc]

-----------------------------------------------------------------------------
(* handle_member *)

\* The closure given to InnerSession::accept_authorized.
Authorize(c, d) ==
    /\ conn[c].pc = "new"
    /\ d \notin revoked
    /\ conn' = [conn EXCEPT ![c].pc = "authorized", ![c].dev = d]
    /\ UNCHANGED <<hub, req, revoked, revoking, jumps>>

\* The stream breaks while the connector lease is being sent.
LostBeforeRegister(c) ==
    /\ conn[c].pc = "authorized"
    /\ Enter(c, "closed")
    /\ UNCHANGED <<hub, req, revoked, revoking, jumps>>

RegisterMember(c) ==
    /\ conn[c].pc = "authorized"
    /\ hub' = Register(hub, conn[c].dev, Now)
    /\ conn' = [conn EXCEPT ![c].pc = "probing", ![c].gen = hub'.next]
    /\ UNCHANGED <<req, revoked, revoking, jumps>>

\* The registration pong arrives and SessionContinuity accepts it.
ProbeAnswered(c) ==
    /\ conn[c].pc = "probing"
    /\ ~conn[c].lost
    /\ Enter(c, "serving")
    /\ UNCHANGED <<hub, req, revoked, revoking, jumps>>

\* The pong arrives, but observe_peer_activity(...)? finds the clock moved:
\* the `?` returns from handle_member without unregistering.
ProbeContinuityLost(c) ==
    /\ conn[c].pc = "probing"
    /\ conn[c].lost
    /\ Enter(c, "closed")
    /\ UNCHANGED <<hub, req, revoked, revoking, jumps>>

\* No pong, or a wrong one, within SESSION_HEARTBEAT_TIMEOUT.
ProbeFailed(c) ==
    /\ conn[c].pc = "probing"
    /\ hub' = Unregister(hub, conn[c].dev, conn[c].gen, Now)
    /\ Enter(c, "closed")
    /\ UNCHANGED <<req, revoked, revoking, jumps>>

\* The path watcher that runs beside the serving loop until it is aborted.
PathEvent(c) ==
    /\ conn[c].pc \in {"serving", "ending"}
    /\ hub' = UpdatePath(hub, conn[c].dev, conn[c].gen)
    /\ UNCHANGED <<conn, req, revoked, revoking, jumps>>

\* The command a serving loop is busy with; its caller may have left since.
Sent(c) == {r \in Reqs : req[r].pc \in {"sent", "unheard"} /\ req[r].gen = conn[c].gen}

\* connection.closed(), or a heartbeat that is not answered in time.
LoseConnection(c) ==
    /\ conn[c].pc = "serving"
    /\ Sent(c) = {}
    /\ Enter(c, "ending")
    /\ UNCHANGED <<hub, req, revoked, revoking, jumps>>

\* The loop leaves on RemoteCommand::Stop, on a command channel whose sender
\* is gone from the hub, or on a heartbeat tick after continuity was lost.
StopServing(c) ==
    /\ conn[c].pc = "serving"
    /\ Sent(c) = {}
    /\ conn[c].lost \/ hub.session[conn[c].dev] # conn[c].gen
    /\ Enter(c, "ending")
    /\ UNCHANGED <<hub, req, revoked, revoking, jumps>>

UnregisterMember(c) ==
    /\ conn[c].pc = "ending"
    /\ hub' = Unregister(hub, conn[c].dev, conn[c].gen, Now)
    /\ Enter(c, "closed")
    /\ UNCHANGED <<req, revoked, revoking, jumps>>

-----------------------------------------------------------------------------
(* The owner and the clock *)

\* A revocation that goes on to disconnect although its commit failed.
RevokeCommitLost(d) ==
    /\ d \notin revoked
    /\ revoking' = revoking \cup {d}
    /\ UNCHANGED <<hub, conn, req, revoked, jumps>>
\* LocalMethod::DeviceRevoke and InviteRevoke: the transaction commits ...
RevokeCommit(d) ==
    /\ d \notin revoked
    /\ revoked' = revoked \cup {d}
    /\ revoking' = revoking \cup {d}
    /\ UNCHANGED <<hub, conn, req, jumps>>

\* ... and then the handler calls RemoteHub::disconnect.
RevokeDisconnect(d) ==
    /\ d \in revoking
    /\ hub' = Disconnect(hub, d, Now)
    /\ revoking' = revoking \ {d}
    /\ UNCHANGED <<conn, req, revoked, jumps>>

\* The wall clock goes back, or forward by more than SESSION_CONTINUITY_GAP_MS
\* (a suspended machine): every live SessionContinuity is now broken for good.
ClockJump ==
    /\ jumps < MaxJumps
    /\ jumps' = jumps + 1
    /\ conn' = [c \in Conns |->
                  [conn[c] EXCEPT !.lost = @ \/ conn[c].pc \in {"probing", "serving"}]]
    /\ UNCHANGED <<hub, req, revoked, revoking>>

-----------------------------------------------------------------------------
(* Replayable requests *)

\* read_response and its siblings: the Local API checks the catalog first.
Issue(r, d) ==
    /\ req[r].pc = "idle"
    /\ d \notin revoked
    /\ req' = [req EXCEPT ![r].pc = "waiting", ![r].dev = d]
    /\ UNCHANGED <<hub, conn, revoked, revoking, jumps>>

\* A replay loop that takes the session it has just failed on.
PickAny(r) ==
    LET g == hub.session[req[r].dev]
    IN  /\ req[r].pc = "waiting"
        /\ g # Offline
        /\ req' = [req EXCEPT ![r].pc = "queued", ![r].gen = g]
        /\ UNCHANGED <<hub, conn, revoked, revoking, jumps>>
\* A replay loop that waits for a change before it has looked once.
PickAfterChange(r) ==
    LET g == hub.session[req[r].dev]
    IN  /\ req[r].pc = "waiting"
        /\ g # Offline
        /\ req[r].prev # Offline
        /\ g # req[r].prev
        /\ req' = [req EXCEPT ![r].pc = "queued", ![r].gen = g]
        /\ UNCHANGED <<hub, conn, revoked, revoking, jumps>>
\* replay_session_after: wait for a generation other than the failed one, and
\* send the command, with the same RequestId, into that session's channel.
Pick(r) ==
    LET g == hub.session[req[r].dev]
    IN  /\ req[r].pc = "waiting"
        /\ g # Offline
        /\ g # req[r].prev
        /\ req' = [req EXCEPT ![r].pc = "queued", ![r].gen = g]
        /\ UNCHANGED <<hub, conn, revoked, revoking, jumps>>

\* A command in the channel of generation g; its caller may have left since.
Queued(r, g) == req[r].pc \in {"queued", "abandoned"} /\ req[r].gen = g

\* The serving loop takes one command at a time and puts it on the wire.
Deliver(c, r) ==
    /\ conn[c].pc = "serving"
    /\ ~conn[c].lost
    /\ Sent(c) = {}
    /\ Queued(r, conn[c].gen)
    /\ Resume(r, IF req[r].pc = "queued" THEN "sent" ELSE "unheard")
    /\ UNCHANGED <<hub, conn, revoked, revoking, jumps>>

\* The final rpc_reply arrives with continuity intact.
Reply(c, r) ==
    /\ conn[c].pc = "serving"
    /\ ~conn[c].lost
    /\ r \in Sent(c)
    /\ Resume(r, IF req[r].pc = "sent" THEN "done" ELSE "failed")
    /\ UNCHANGED <<hub, conn, revoked, revoking, jumps>>

Retry(r) ==
    IF req[r].pc \in {"abandoned", "unheard"}
    THEN Resume(r, "failed")
    ELSE req' = [req EXCEPT ![r].pc = "waiting", ![r].prev = req[r].gen]

\* The RPC fails (stream broken, no progress in time, continuity lost before
\* the send or after the reply): the loop answers with the error and breaks.
RpcFails(c, r) ==
    /\ conn[c].pc = "serving"
    /\ \/ r \in Sent(c)
       \/ Queued(r, conn[c].gen) /\ conn[c].lost /\ Sent(c) = {}
    /\ Enter(c, "ending")
    /\ Retry(r)
    /\ UNCHANGED <<hub, revoked, revoking, jumps>>

\* The handler has returned: its receiver, and with it every queued reply
\* channel, is dropped.
Dropped(r) ==
    /\ \E c \in Conns : Queued(r, conn[c].gen) /\ conn[c].pc = "closed"
    /\ Retry(r)
    /\ UNCHANGED <<hub, conn, revoked, revoking, jumps>>

\* The outer Local API timeout drops the whole replay future; a command that
\* is in the channel or on the wire keeps its handler busy all the same.
GiveUp(r) ==
    /\ req[r].pc \in {"waiting", "queued", "sent"}
    /\ Resume(r, [waiting |-> "failed", queued |-> "abandoned", sent |-> "unheard"][req[r].pc])
    /\ UNCHANGED <<hub, conn, revoked, revoking, jumps>>

-----------------------------------------------------------------------------
Member(c) ==
    \/ RegisterMember(c) \/ ProbeAnswered(c) \/ ProbeContinuityLost(c) \/ ProbeFailed(c)
    \/ StopServing(c) \/ UnregisterMember(c)
    \/ \E r \in Reqs : Deliver(c, r) \/ Reply(c, r) \/ RpcFails(c, r)

Next ==
    \/ \E c \in Conns : \/ Member(c) \/ LostBeforeRegister(c) \/ LoseConnection(c)
                        \/ PathEvent(c)
                        \/ \E d \in Devices : Authorize(c, d)
    \/ \E d \in Devices : RevokeCommit(d) \/ RevokeDisconnect(d)
    \/ ClockJump
    \/ \E r \in Reqs : \/ Pick(r) \/ Dropped(r) \/ GiveUp(r)
                       \/ \E d \in Devices : Issue(r, d)

Spec == Init /\ [][Next]_vars

(***************************************************************************)
(* Every handler keeps running: the probe and each RPC step have timeouts, *)
(* and the serving loop looks at its command channel again and again.      *)
(* Nothing is assumed of the network (ProbeFailed and RpcFails count as    *)
(* progress), of reconnections, or of the Local API timeout.               *)
(***************************************************************************)
Fairness ==
    /\ \A c \in Conns : WF_vars(Member(c))
    /\ \A r \in Reqs : WF_vars(Pick(r)) /\ WF_vars(Dropped(r))
    /\ \A d \in Devices : WF_vars(RevokeDisconnect(d))

FairSpec == Spec /\ Fairness

-----------------------------------------------------------------------------
TypeOK ==
    /\ hub \in HubState
    /\ conn \in [Conns -> ConnState]
    /\ req \in [Reqs -> ReqState]
    /\ revoked \subseteq Devices
    /\ revoking \subseteq revoked
    /\ jumps \in 0..MaxJumps

\* The session in the slot of d has a handler that has not returned.
Served(d) ==
    \E c \in Conns : /\ conn[c].dev = d
                     /\ conn[c].gen = hub.session[d]
                     /\ conn[c].pc \in {"probing", "serving", "ending"}

(***************************************************************************)
(* A device the hub calls online has a handler that will answer commands   *)
(* or give the slot back: is_online and the replay loops rely on it.       *)
(***************************************************************************)
OnlineIsServed == \A d \in Devices : hub.session[d] # Offline => Served(d)

(***************************************************************************)
(* The part of OnlineIsServed that holds: a handler returns without giving *)
(* its slot back only when the clock jumped under it.                      *)
(***************************************************************************)
SlotIsGivenBack ==
    \A d \in Devices : hub.session[d] # Offline =>
        \/ Served(d)
        \/ \E c \in Conns : conn[c].gen = hub.session[d] /\ conn[c].lost

(***************************************************************************)
(* session_info never contradicts the slot: it says connected exactly for  *)
(* the generation in the slot, and shows a path of that very connection,   *)
(* whatever late unregister or path event of an older one arrives.         *)
(***************************************************************************)
TelemetryAgrees ==
    \A d \in Devices :
        /\ hub.info[d].up <=> hub.session[d] # Offline
        /\ hub.info[d].up => hub.info[d].gen = hub.session[d]
        /\ hub.info[d].path = hub.info[d].gen

(***************************************************************************)
(* A replayed request goes to a strictly newer generation than the one it  *)
(* failed on: it never spins on a channel already known to be broken.      *)
(***************************************************************************)
ReplayMovesForward ==
    \A r \in Reqs : req[r].pc \in {"queued", "sent"} => req[r].gen > req[r].prev

(***************************************************************************)
(* Nobody loses the slot to a ghost: a generation leaves the hub only      *)
(* because a newer one replaces it, its own handler closes, or the device  *)
(* was revoked - never because of an older handler's late clean-up.        *)
(***************************************************************************)
SlotLeavesForCause ==
    [][\A d \in Devices :
         hub.session[d] # Offline /\ hub'.session[d] # hub.session[d] =>
            \/ hub'.session[d] > hub.session[d]
            \/ d \in revoked
            \/ \E c \in Conns : conn[c].gen = hub.session[d] /\ conn'[c].pc = "closed"]_vars

(***************************************************************************)
(* A waiting request is not left behind: while its device is served, it is *)
(* picked up, or the session ends, or the caller gives up.                 *)
(***************************************************************************)
WaiterMovesOn ==
    \A r \in Reqs : \A d \in Devices :
        (req[r].pc = "waiting" /\ req[r].dev = d /\ Served(d))
            ~> (req[r].pc # "waiting" \/ ~Served(d))

(***************************************************************************)
(* Once DeviceRevoke has been answered, the device holds no session.       *)
(***************************************************************************)
RevokedIsOffline ==
    \A d \in revoked \ revoking : hub.session[d] = Offline
=============================================================================
