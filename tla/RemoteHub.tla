------------------------------ MODULE RemoteHub ------------------------------
(***************************************************************************)
(* The Controller's in-memory table of live Host sessions and Shell task   *)
(* projections: RemoteHub of crates/clew-runtime/src/remote.rs.            *)
(*                                                                         *)
(* Every method of RemoteHub locks one mutex, changes RemoteHubState and   *)
(* unlocks it, so each is written here as a function from hub states to    *)
(* hub states.  The modules that extend this one (SessionGate, ShellTasks) *)
(* hold such a state in a variable and say who calls which method when.    *)
(***************************************************************************)
EXTENDS Integers, FiniteSets

CONSTANTS
    Devices,        \* DeviceIds of enrolled Hosts
    Tasks,          \* TaskIds that Hosts may hand out
    Grace,          \* SHELL_RECONNECT_GRACE_MS, in ticks
    Cap             \* MAX_REMOTE_SHELL_TASK_PROJECTIONS

ASSUME HubAssumption == Grace \in Nat /\ Cap \in Nat /\ "none" \notin Devices

Offline == 0        \* no slot in `sessions`; generations start at 1
NoDeadline == -1    \* reattach_deadline_unix_ms = None: attached to a session
NoProjection == [dev |-> "none", gen |-> 0, deadline |-> NoDeadline]

(***************************************************************************)
(* RemoteHubState.  session[d] is the generation in d's slot; info[d] is   *)
(* the telemetry record, where `path` names the generation whose           *)
(* connection the shown network path was read from; proj[t] is the         *)
(* projection of Shell task t; pending counts ShellStartReservations.      *)
(***************************************************************************)
SessionInfo == [gen : Nat, up : BOOLEAN, path : Nat]
Projection == [dev : Devices, gen : Nat, deadline : Nat \cup {NoDeadline}]
HubState == [next : Nat,
             session : [Devices -> Nat],
             info : [Devices -> SessionInfo],
             proj : [Tasks -> Projection \cup {NoProjection}],
             pending : Nat]

HubInit == [next |-> 0,
            session |-> [d \in Devices |-> Offline],
            info |-> [d \in Devices |-> [gen |-> 0, up |-> FALSE, path |-> 0]],
            proj |-> [t \in Tasks |-> NoProjection],
            pending |-> 0]

Projected(hub) == {t \in Tasks : hub.proj[t] # NoProjection}

\* mark_shell_projections_detached: what generation g of d held must be proved
\* again before the deadline.
Detach(proj, d, g, now) ==
    [t \in Tasks |->
        IF proj[t].dev = d /\ proj[t].gen = g
        THEN [proj[t] EXCEPT !.deadline = now + Grace]
        ELSE proj[t]]

\* prune_expired_shell_projections
Expired(p, now) == p.deadline # NoDeadline /\ now > p.deadline
Prune(proj, now) ==
    [t \in Tasks |-> IF Expired(proj[t], now) THEN NoProjection ELSE proj[t]]

\* A registration that hands the old session's projections to the new one.
RegisterCarries(hub, d, now) ==
    LET g == hub.next + 1
    IN  [hub EXCEPT !.next = g,
                    !.session[d] = g,
                    !.info[d] = [gen |-> g, up |-> TRUE, path |-> g],
                    !.proj = [t \in Tasks |-> IF hub.proj[t].dev = d
                                              THEN [dev |-> d, gen |-> g, deadline |-> NoDeadline]
                                              ELSE hub.proj[t]]]
\* RemoteHub::register: a new generation replaces whatever slot d had.
Register(hub, d, now) ==
    LET g == hub.next + 1
    IN  [hub EXCEPT !.next = g,
                    !.session[d] = g,
                    !.info[d] = [gen |-> g, up |-> TRUE, path |-> g],
                    !.proj = Detach(Prune(hub.proj, now), d, hub.session[d], now)]

\* The slot of d is emptied; the telemetry of the same generation goes down.
EmptySlot(hub, d, now) ==
    [hub EXCEPT !.session[d] = Offline,
                !.info[d].up = IF hub.info[d].gen = hub.session[d] THEN FALSE ELSE @,
                !.proj = Detach(hub.proj, d, hub.session[d], now)]

\* A handler that unregisters whatever generation is there.
UnregisterAny(hub, d, g, now) == EmptySlot(hub, d, now)
\* A handler that leaves without giving its slot back.
UnregisterForgotten(hub, d, g, now) == hub
\* RemoteHub::unregister: only the generation that owns the slot may empty it.
Unregister(hub, d, g, now) ==
    IF hub.session[d] = g THEN EmptySlot(hub, d, now) ELSE hub

\* RemoteHub::disconnect: a revocation empties the slot of any generation.
Disconnect(hub, d, now) ==
    IF hub.session[d] # Offline THEN EmptySlot(hub, d, now) ELSE hub

\* A path event that does not look at the generation it belongs to.
UpdatePathAny(hub, d, g) == [hub EXCEPT !.info[d].path = g]
\* RemoteHub::update_path, called from the path watcher of generation g.
UpdatePath(hub, d, g) ==
    IF hub.session[d] = g /\ hub.info[d].gen = g
    THEN [hub EXCEPT !.info[d].path = g]
    ELSE hub
=============================================================================
