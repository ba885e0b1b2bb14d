------------------------------ MODULE SitePath ------------------------------
(***************************************************************************)
(* How a Host reaches its Controller, and how it helps others to.  A       *)
(* target races a direct dial against dials through helpers it discovers,  *)
(* inside a window; a helper is a Host with a direct session that holds a  *)
(* short lease signed by the Controller, carries opaque tunnels and must   *)
(* stop before the lease ends.  The helper's session loop is one select:   *)
(* while it executes a request none of its timers is looked at.            *)
(* One helper and one target are followed; other targets also open tunnels.*)
(* The helper's clock runs spLag behind the Controller's and the target's. *)
(***************************************************************************)
EXTENDS Integers, Sequences, FiniteSets

CONSTANTS Candidates,   \* endpoint ids a target may hear of
          Helper,       \* the endpoint id of the helper
          MaxDials,     \* MAX_CONCURRENT_CONNECTOR_DIALS
          MaxSeen,      \* MAX_CONNECTOR_CANDIDATES_PER_WINDOW
          MaxTunnels,   \* MAX_CONNECTOR_TUNNELS
          Lifetime,     \* of a lease
          Margin,       \* CONNECTOR_LEASE_RENEW_MARGIN
          Skew,         \* MAX_CONNECTOR_LEASE_NOT_BEFORE_SKEW_MS
          MaxTime       \* bound of the clock

VARIABLES spNow,      \* the Controller's clock
          spLag,      \* how far the helper's clock is behind
          spHelper,   \* the helper's session
          spTunnels,  \* tunnels it carries
          spDying,    \* aborted tunnels whose guard has not run yet
          spStatus,   \* HelperTunnelStatus and HostNetworkState as published
          spWin,      \* the target's path window
          spPath      \* the path the last window gave, with the lease behind it

spVars == <<spNow, spLag, spHelper, spTunnels, spDying, spStatus, spWin, spPath>>

Purposes == {"bootstrap", "inner"}
Modes == {"automatic", "required"}
HelperNow == spNow - spLag

NoSession == [at |-> "down", lease |-> 0, mdns |-> FALSE, renewAt |-> 0,
              refreshAt |-> 0, rpc |-> FALSE, ended |-> "none"]
NoWindow == [on |-> FALSE, purpose |-> "inner", mode |-> "automatic", direct |-> "off",
             sealed |-> TRUE, lan |-> FALSE, queue |-> <<>>, seen |-> {}, dials |-> {}]
NoPath == [via |-> "none", mode |-> "automatic", at |-> 0, lease |-> 0]

SpInit ==
  /\ spNow = 0 /\ spLag \in 0 .. Skew + 1
  /\ spHelper = NoSession
  /\ spTunnels = {} /\ spDying = {}
  /\ spStatus = [network |-> "Connecting", once |-> FALSE, active |-> 0]
  /\ spWin = NoWindow /\ spPath = NoPath

(***************************************************************************)
(* Leases                                                                  *)
(***************************************************************************)
Unexpired(expires, now) == now < expires
\* mutant: a lease is good while it is not older than its last instant plus the skew
UnexpiredWithSkew(expires, issued, now) == now <= expires + Skew /\ issued <= now + Skew
Verifies(expires, issued, now) == issued <= now + Skew /\ Unexpired(expires, now)

Issued(expires) == expires - Lifetime

Max2(a, b) == IF a > b THEN a ELSE b
RenewAt(expires, now) == now + Max2(expires - now - Margin, 1)

(***************************************************************************)
(* The helper's session                                                    *)
(***************************************************************************)
Shown(network) == [spStatus EXCEPT !.network = network]

\* The session future ends: its tunnels are dropped with it (aborted, their
\* guards still to run), the counters are cleared, the loop will reconnect.
SessionOver(reason) ==
  /\ spHelper' = [NoSession EXCEPT !.ended = reason]
  /\ spDying' = spDying \cup spTunnels
  /\ spTunnels' = {}
  /\ LET once == spStatus.once \/ spStatus.network = "Connected" IN
     spStatus' = [network |-> IF once THEN "Reconnecting" ELSE "Connecting",
                  once |-> once, active |-> 0]
  /\ UNCHANGED <<spNow, spLag, spWin, spPath>>

\* Over a direct connection the Controller signs a lease for this endpoint
\* right after the handshake; the helper verifies it by its own clock.  mDNS
\* may fail to start.
ReceiveLease ==
  LET expires == spNow + Lifetime IN
  /\ spHelper.at = "down" /\ spDying = {}
  /\ \/ /\ Verifies(expires, spNow, HelperNow)
        /\ \E mdns \in BOOLEAN :
             spHelper' = [NoSession EXCEPT !.at = "joined", !.lease = expires, !.mdns = mdns,
                            !.renewAt = RenewAt(expires, HelperNow),
                            !.refreshAt = HelperNow + 1]
        /\ UNCHANGED <<spNow, spLag, spTunnels, spDying, spStatus, spWin, spPath>>
     \/ ~Verifies(expires, spNow, HelperNow) /\ SessionOver("NotYetValid")

\* Over another helper there is no lease and no helping.
JoinThroughHelper ==
  /\ spHelper.at = "down" /\ spDying = {}
  /\ spHelper' = [NoSession EXCEPT !.at = "joined"]
  /\ UNCHANGED <<spNow, spLag, spTunnels, spDying, spStatus, spWin, spPath>>

\* The first message after registration makes the Host live.
Registered ==
  /\ spHelper.at = "joined"
  /\ \/ /\ spHelper' = [spHelper EXCEPT !.at = "serving"]
        /\ spStatus' = Shown("Connected")
        /\ UNCHANGED <<spNow, spLag, spTunnels, spDying, spWin, spPath>>
     \/ SessionOver("ControllerSessionReadyTimeout")

Polls == spHelper.at = "serving" /\ ~spHelper.rpc
Helps == spHelper.at = "serving" /\ spHelper.lease > 0

RequestBegins ==
  /\ Polls /\ spHelper' = [spHelper EXCEPT !.rpc = TRUE]
  /\ UNCHANGED <<spNow, spLag, spTunnels, spDying, spStatus, spWin, spPath>>
RequestEnds ==
  /\ spHelper.rpc /\ spHelper' = [spHelper EXCEPT !.rpc = FALSE]
  /\ UNCHANGED <<spNow, spLag, spTunnels, spDying, spStatus, spWin, spPath>>

SessionFails == spHelper.at = "serving" /\ SessionOver("Io")

\* mutant: the tunnels stay with the process
RenewKeepingTunnels ==
  /\ Polls /\ spHelper.lease > 0 /\ HelperNow >= spHelper.renewAt
  /\ spHelper' = [NoSession EXCEPT !.ended = "ConnectorLeaseRefreshRequired", !.lease = spHelper.lease]
  /\ UNCHANGED <<spNow, spLag, spTunnels, spDying, spStatus, spWin, spPath>>

\* The renewal timer waits for every tunnel to be gone before it returns.
Renew ==
  /\ Polls /\ Helps /\ HelperNow >= spHelper.renewAt
  /\ spHelper' = [NoSession EXCEPT !.ended = "ConnectorLeaseRefreshRequired"]
  /\ spTunnels' = {}
  /\ spStatus' = [network |-> "Reconnecting", once |-> TRUE, active |-> 0]
  /\ UNCHANGED <<spNow, spLag, spDying, spWin, spPath>>

\* The presence timer needs the mDNS publisher and an unexpired lease.
PresenceRefresh ==
  /\ Polls /\ Helps /\ HelperNow >= spHelper.refreshAt
  /\ \/ ~spHelper.mdns /\ SessionOver("MissingConnectorLease")
     \/ /\ spHelper.mdns /\ ~Verifies(spHelper.lease, Issued(spHelper.lease), HelperNow)
        /\ SessionOver("Expired")
     \/ /\ spHelper.mdns /\ Verifies(spHelper.lease, Issued(spHelper.lease), HelperNow)
        /\ spHelper' = [spHelper EXCEPT !.refreshAt = HelperNow + 1]
        /\ UNCHANGED <<spNow, spLag, spTunnels, spDying, spStatus, spWin, spPath>>

\* The helper accepts a tunnel and checks its own lease before it dials on.
TunnelStarts(tunnels) ==
  /\ Polls /\ Helps /\ Cardinality(spTunnels) < MaxTunnels
  /\ Verifies(spHelper.lease, Issued(spHelper.lease), HelperNow)
  /\ tunnels = spTunnels \cup {CHOOSE t \in 1 .. 2 * MaxTunnels : t \notin spTunnels \cup spDying}

Opens == [spStatus EXCEPT !.active = @ + 1]
\* mutant: the counter is not kept from going below zero
ClosesBelow(status) == [status EXCEPT !.active = @ - 1]
Closes(status) == [status EXCEPT !.active = Max2(@ - 1, 0)]

OtherTargetOpens ==
  /\ \E tunnels \in SUBSET (1 .. 2 * MaxTunnels) : TunnelStarts(tunnels) /\ spTunnels' = tunnels
  /\ spStatus' = Opens
  /\ UNCHANGED <<spNow, spLag, spHelper, spDying, spWin, spPath>>

TunnelEnds(t) ==
  /\ t \in spTunnels /\ spTunnels' = spTunnels \ {t}
  /\ spStatus' = Closes(spStatus)
  /\ UNCHANGED <<spNow, spLag, spHelper, spDying, spWin, spPath>>

GuardRuns(t) ==
  /\ t \in spDying /\ spDying' = spDying \ {t}
  /\ spStatus' = Closes(spStatus)
  /\ UNCHANGED <<spNow, spLag, spHelper, spTunnels, spWin, spPath>>

(***************************************************************************)
(* The target's window                                                     *)
(***************************************************************************)
\* ConnectorCandidateQueue::push
Pushed(w, c) ==
  IF Cardinality(w.seen) >= MaxSeen \/ c \in w.seen THEN w
  ELSE [w EXCEPT !.seen = @ \cup {c}, !.queue = Append(@, c)]

\* as many dials as there is room for, in the order of discovery
Filled(w) ==
  LET room == MaxDials - Cardinality(w.dials)
      n == IF Len(w.queue) < room THEN Len(w.queue) ELSE room
  IN [w EXCEPT !.dials = @ \cup {w.queue[i] : i \in 1 .. n},
               !.queue = SubSeq(@, n + 1, Len(@))]

Opened(purpose, mode) ==
  [NoWindow EXCEPT !.on = TRUE, !.purpose = purpose, !.mode = mode,
                   !.direct = IF mode = "automatic" THEN "dialing" ELSE "done"]

WindowLeaves == <<spNow, spLag, spHelper, spTunnels, spDying, spStatus>>
Ended(path) == spWin' = NoWindow /\ spPath' = path /\ UNCHANGED WindowLeaves

\* An activation without the Controller's bootstrap key can only be direct.
BeginUnsealed(mode) ==
  /\ ~spWin.on
  /\ \/ mode = "required" /\ Ended([NoPath EXCEPT !.mode = mode])
     \/ /\ mode = "automatic" /\ spPath' = NoPath /\ UNCHANGED WindowLeaves
        /\ spWin' = [Opened("bootstrap", mode) EXCEPT !.sealed = FALSE]

\* The imported nearby file is the first candidate, if there is one.
BeginWindow(purpose, mode) ==
  /\ ~spWin.on /\ spPath' = NoPath
  /\ \/ spWin' = Opened(purpose, mode)
     \/ \E c \in Candidates : spWin' = Filled(Pushed(Opened(purpose, mode), c))
  /\ UNCHANGED WindowLeaves
ConnectBootstrap(mode) == BeginWindow("bootstrap", mode)
ConnectMember(mode) == BeginWindow("inner", mode)

\* An mDNS event names one candidate.
Discover(c) ==
  /\ spWin.on /\ spWin.sealed
  /\ spWin' = Filled(Pushed(spWin, c)) /\ spWin' # spWin
  /\ UNCHANGED <<spPath, WindowLeaves>>

\* The LAN probe ends once in a window, with every answer it got: none, one,
\* or two here.
DiscoverLan ==
  LET w == [spWin EXCEPT !.lan = TRUE] IN
  /\ spWin.on /\ spWin.sealed /\ ~spWin.lan
  /\ \/ spWin' = w
     \/ \E c, d \in Candidates : spWin' = Filled(Pushed(Pushed(w, c), d))
  /\ UNCHANGED <<spPath, WindowLeaves>>

DirectEnds ==
  /\ spWin.on /\ spWin.direct = "dialing"
  /\ \/ Ended([via |-> "direct", mode |-> spWin.mode, at |-> spNow, lease |-> 0])
     \/ /\ spWin' = [spWin EXCEPT !.direct = "done"]
        /\ UNCHANGED <<spPath, WindowLeaves>>

\* A dial that fails, times out or shows a lease that does not verify frees
\* its place for the next candidate.
CandidateFails(c) ==
  /\ spWin.on /\ c \in spWin.dials
  /\ spWin' = Filled([spWin EXCEPT !.dials = @ \ {c}])
  /\ UNCHANGED <<spPath, WindowLeaves>>

\* The helper's tunnel is up and its lease verifies by the target's clock.
CandidateConnects ==
  /\ spWin.on /\ Helper \in spWin.dials
  /\ \E tunnels \in SUBSET (1 .. 2 * MaxTunnels) : TunnelStarts(tunnels) /\ spTunnels' = tunnels
  /\ Verifies(spHelper.lease, Issued(spHelper.lease), spNow)
  /\ spStatus' = Opens
  /\ spWin' = NoWindow
  /\ spPath' = [via |-> "connector", mode |-> spWin.mode, at |-> spNow, lease |-> spHelper.lease]
  /\ UNCHANGED <<spNow, spLag, spHelper, spDying>>

WindowCloses == spWin.on /\ Ended([NoPath EXCEPT !.mode = spWin.mode])

(***************************************************************************)
(* Time passes only when no timer that could run is due.                   *)
(***************************************************************************)
Due == Polls /\ Helps /\ (HelperNow >= spHelper.renewAt \/ HelperNow >= spHelper.refreshAt)
SpTick ==
  /\ spNow < MaxTime /\ ~Due /\ spHelper.at # "joined"
  /\ spNow' = spNow + 1
  /\ UNCHANGED <<spLag, spHelper, spTunnels, spDying, spStatus, spWin, spPath>>

SpNext ==
  \/ ReceiveLease \/ JoinThroughHelper \/ Registered \/ RequestBegins \/ RequestEnds
  \/ SessionFails \/ Renew \/ PresenceRefresh \/ OtherTargetOpens
  \/ \E t \in 1 .. 2 * MaxTunnels : TunnelEnds(t) \/ GuardRuns(t)
  \/ \E mode \in Modes : BeginUnsealed(mode) \/ ConnectBootstrap(mode) \/ ConnectMember(mode)
  \/ \E c \in Candidates : Discover(c) \/ CandidateFails(c)
  \/ DiscoverLan \/ DirectEnds \/ CandidateConnects \/ WindowCloses \/ SpTick

SpSpec == SpInit /\ [][SpNext]_spVars

-----------------------------------------------------------------------------
\* A target never goes through a helper whose lease has ended by the target's
\* clock, however far behind the helper's clock is, and a target told to use
\* a helper never goes around it.
PathIsLeased ==
  /\ spPath.via = "connector" => spPath.at < spPath.lease
  /\ spPath.via = "direct" => spPath.mode = "automatic"

\* No tunnel is carried past the end of the helper's lease, by the helper's
\* clock, except while the helper executes a request.
TunnelsEndWithLease ==
  spTunnels # {} /\ ~spHelper.rpc => HelperNow < spHelper.lease \/ Due

\* What the helper shows is what it has: live exactly while registered, and
\* as many tunnels as it carries, late guards of an earlier session included.
HelperStatusIsTrue ==
  /\ spStatus.network = "Connected" <=> spHelper.at = "serving"
  /\ spHelper.at # "down" => spStatus.active = Cardinality(spTunnels)
  /\ spStatus.active >= 0

\* "lease 到期前 30 秒撤广播、结束 tunnel" (docs/DEVELOPMENT_CHECKPOINT.md:563): the
\* tunnels are gone when the lease has reached its margin.
TunnelsEndBeforeMargin ==
  spTunnels # {} => HelperNow <= spHelper.lease - Margin

\* "mDNS is an optional LAN convenience, not an authority or connectivity
\* gate" (clew-host/src/remote.rs): a session never ends for want of it.
MdnsIsOptional == spHelper.ended # "MissingConnectorLease"
=============================================================================
