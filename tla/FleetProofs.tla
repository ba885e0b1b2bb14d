---------------------------- MODULE FleetProofs ----------------------------
(***************************************************************************)
(* For instances of any size: the invariants of the components that        *)
(* MCFleet puts side by side.  A component's variables change only in its  *)
(* own steps, so each has an inductive invariant of its own.               *)
(***************************************************************************)
EXTENDS MCFleet, Integers, Sequences, FiniteSets, FiniteSetTheorems, TLAPS

-----------------------------------------------------------------------------
(* One process per state directory.                                        *)

SiLabels == {"off", "locked", "keyed", "serving", "secret", "socket", "lock",
             "busy", "authed", "linked"}
SiHolds == {"locked", "keyed", "serving", "secret", "socket", "lock"}

\* Whoever is past the lock has it, whoever has written the secret or bound the
\* socket and not yet dropped it finds its own there, and a Controller's sessions
\* run only while it serves.
SiInv ==
  /\ siAt \in [Procs -> SiLabels]
  /\ \A p \in Procs : siAt[p] \in SiHolds => siLock = p
  /\ \A p \in Procs : siAt[p] \in {"keyed", "serving", "secret"} => siSecret = p
  /\ \A p \in Procs : siAt[p] \in {"serving", "secret", "socket"} => siSock = p
  /\ siNet \subseteq Procs
  /\ siKind = "controller" => \A p \in siNet : siAt[p] = "serving"

\* A value is dropped secret first, then the socket, then the lock.
LEMMA SiAfter == Si!After("secret") = "socket" /\ Si!After("socket") = "lock" /\ Si!After("lock") = "off"
<1>1. ASSUME NEW part, NEW k \in 1 .. 3, Si!Closing[k] = part,
             \A j \in 1 .. 3 : Si!Closing[j] = part => j = k
      PROVE  Si!After(part) = IF k < 3 THEN Si!Closing[k + 1] ELSE "off"
  <2> DEFINE i == CHOOSE i \in 1 .. Len(Si!Closing) : Si!Closing[i] = part
  <2>1. Len(Si!Closing) = 3
    BY DEF Si!Closing
  <2>2. i \in 1 .. 3 /\ Si!Closing[i] = part
    BY <1>1, <2>1
  <2>3. i = k
    BY <1>1, <2>2
  <2>4. Si!After(part) = IF i < Len(Si!Closing) THEN Si!Closing[i + 1] ELSE "off"
    BY Zenon DEF Si!After
  <2> HIDE DEF i
  <2> QED  BY <2>1, <2>3, <2>4
<1>2. Si!Closing[1] = "secret" /\ Si!Closing[2] = "socket" /\ Si!Closing[3] = "lock"
  BY DEF Si!Closing
<1>3. Si!After("secret") = Si!Closing[1 + 1]
  BY <1>1, <1>2
<1>4. Si!After("socket") = Si!Closing[2 + 1]
  BY <1>1, <1>2
<1>5. Si!After("lock") = "off"
  BY <1>1, <1>2
<1> QED  BY <1>2, <1>3, <1>4, <1>5

\* Nobody runs at first.
LEMMA SiInvInit == Init => SiInv
BY FleetAssumption DEF Init, Si!SiInit, SiInv, SiLabels, SiHolds

\* Each step of a process keeps the invariant.
LEMMA SiInvNext ==
    ASSUME SiInv, NEW p \in Procs,
           \/ Si!TryAcquire(p) \/ Si!StartFails(p) \/ Si!TruncateSecret(p) \/ Si!RotateSecret(p)
           \/ Si!Bind(p) \/ Si!Quit(p) \/ Si!NetEnds(p) \/ Si!ServeEnds(p) \/ Si!DropPart(p)
           \/ Si!LoadSecret(p) \/ Si!Connect(p) \/ Si!Send(p) \/ Si!HandleFrame(p) \/ Si!Kill(p)
    PROVE  SiInv'
<1> USE FleetAssumption DEF SiInv, SiLabels, SiHolds, Si!Goes
<1>1. CASE Si!TryAcquire(p)
  BY <1>1 DEF Si!TryAcquire
<1>2. CASE Si!StartFails(p)
  BY <1>2 DEF Si!StartFails
<1>3. CASE Si!TruncateSecret(p)
  BY <1>3 DEF Si!TruncateSecret
<1>4. CASE Si!RotateSecret(p)
  BY <1>4 DEF Si!RotateSecret
<1>5. CASE Si!Bind(p)
  BY <1>5 DEF Si!Bind
<1>6. CASE Si!Quit(p) \/ Si!NetEnds(p)
  BY <1>6 DEF Si!Quit, Si!NetEnds
<1>7. CASE Si!ServeEnds(p)
  <2>1. Si!Closing[1] = "secret"
    BY DEF Si!Closing
  <2> QED  BY <1>7, <2>1 DEF Si!ServeEnds
<1>8. CASE Si!DropPart(p)
  <2>1. CASE siAt[p] = "secret"
    BY <1>8, <2>1, SiAfter DEF Si!DropPart
  <2>2. CASE siAt[p] = "socket"
    BY <1>8, <2>2, SiAfter DEF Si!DropPart
  <2>3. CASE siAt[p] = "lock"
    BY <1>8, <2>3, SiAfter DEF Si!DropPart
  <2> QED  BY <1>8, <2>1, <2>2, <2>3 DEF Si!DropPart
<1>9. CASE Si!LoadSecret(p)
  BY <1>9 DEF Si!LoadSecret
<1>10. CASE Si!Connect(p)
  BY <1>10 DEF Si!Connect
<1>11. CASE Si!Send(p)
  BY <1>11 DEF Si!Send
<1>12. CASE Si!HandleFrame(p)
  <2>1. Si!Closing[1] = "secret"
    BY DEF Si!Closing
  <2> QED  BY ZenonT(60), <1>12, <2>1 DEF Si!HandleFrame
<1>13. CASE Si!Kill(p)
  BY <1>13 DEF Si!Kill
<1> QED  BY <1>1, <1>2, <1>3, <1>4, <1>5, <1>6, <1>7, <1>8, <1>9, <1>10, <1>11, <1>12, <1>13

\* So does a step of the whole system.
LEMMA SiInvStep == SiInv /\ [Next]_vars => SiInv'
<1> SUFFICES ASSUME SiInv, [Next]_vars PROVE SiInv'
  OBVIOUS
<1>1. Si!SiNext \/ UNCHANGED siVars
  BY DEF Next, vars, ManagedFsStep, TcpForwardStep, SitePathStep, MachineServiceStep,
     SingleInstanceStep, SiteKitStep, FsQueryStep, InnerSessionStep, ControllerWindowStep,
     LocalCallsStep
<1>2. CASE Si!SiNext
  BY <1>2, SiInvNext DEF Si!SiNext
<1>3. CASE UNCHANGED siVars
  BY <1>3 DEF siVars, SiInv
<1> QED  BY <1>1, <1>2, <1>3

\* For any number of processes: the one that serves holds the lock and finds its
\* own secret and socket under their names, whatever the others do as they start,
\* fail, quit in the order of their Drop, or are killed.
THEOREM OwnerKeepsItsEndpointThm == Spec => []OwnerKeepsItsEndpoint
<1>1. Init => SiInv
  BY SiInvInit
<1>2. SiInv /\ [Next]_vars => SiInv'
  BY SiInvStep
<1>3. SiInv => OwnerKeepsItsEndpoint
  BY DEF SiInv, SiHolds, OwnerKeepsItsEndpoint, Si!OwnerKeepsItsEndpoint
<1> QED  BY <1>1, <1>2, <1>3, PTL DEF Spec

-----------------------------------------------------------------------------
(* Leases and paths.                                                       *)

\* What the proofs need to know of the helper's session and of what it shows.
SessionShape(h) ==
  /\ DOMAIN h = {"at", "lease", "mdns", "renewAt", "refreshAt", "rpc", "ended"}
  /\ h.lease \in Nat /\ h.renewAt \in Int
StatusShape(s) == DOMAIN s = {"network", "once", "active"}

\* A window that must use a helper has no direct dial in it.
WinShape(w) ==
  DOMAIN w = {"on", "purpose", "mode", "direct", "sealed", "lan", "queue", "seen", "dials"}
WinOK(w) == WinShape(w) /\ (w.direct = "dialing" => w.mode = "automatic")

SpTyped ==
  /\ spNow \in Nat /\ spLag \in Nat
  /\ spTunnels \subseteq 1 .. 2 * MaxTunnels /\ spDying \subseteq 1 .. 2 * MaxTunnels
  /\ SessionShape(spHelper)
  /\ StatusShape(spStatus)

\* The renewal of a lease falls before its end; only a helper that serves under
\* a lease has tunnels, the late guards of an earlier session have run before
\* the next one begins, so that the number shown is that of the tunnels; and a
\* window that must use a helper has no direct dial in it.
SpInv ==
  /\ SpTyped
  /\ spHelper.lease > 0 => spHelper.renewAt <= spHelper.lease
  /\ spTunnels # {} => Sp!Helps
  /\ spDying # {} => spHelper.at = "down"
  /\ spStatus.active = Cardinality(spTunnels)
  /\ spStatus.network = "Connected" <=> spHelper.at = "serving"
  /\ WinOK(spWin)
  /\ Sp!PathIsLeased

\* The instance counts as everyone does.
LEMMA SpCardinality == ASSUME NEW S PROVE Sp!Cardinality(S) = Cardinality(S)
BY DEF Sp!Cardinality, Cardinality

\* Initially the helper is down and no window is open.
LEMMA SpInvInit == Init => SpInv
<1> SUFFICES ASSUME Init PROVE SpInv
  OBVIOUS
<1>1. Sp!SpInit
  BY DEF Init
<1>2. Cardinality({}) = 0
  BY FS_EmptySet
<1> QED
  BY <1>1, <1>2, FleetAssumption DEF Sp!SpInit, SpInv, SpTyped, SessionShape, StatusShape, WinOK, WinShape,
     Sp!NoSession, Sp!NoWindow, Sp!NoPath, Sp!PathIsLeased, Sp!Helps

\* The end of a session takes its tunnels with it.
LEMMA SpSessionOver ==
    ASSUME SpInv, NEW reason, Sp!SessionOver(reason)
    PROVE  SpInv'
<1>1. Cardinality({}) = 0
  BY FS_EmptySet
<1> QED
  BY <1>1, FleetAssumption DEF SpInv, SpTyped, SessionShape, StatusShape, Sp!SessionOver,
     Sp!NoSession, Sp!PathIsLeased, Sp!Helps

\* A lease that verifies by the helper's clock is renewed no later than it ends.
LEMMA SpReceiveLease == ASSUME SpInv, Sp!ReceiveLease PROVE SpInv'
<1> DEFINE expires == spNow + Lifetime
<1>1. CASE ~Sp!Verifies(expires, spNow, Sp!HelperNow)
  <2>1. Sp!SessionOver("NotYetValid")
    BY <1>1 DEF Sp!ReceiveLease
  <2> QED  BY <2>1, SpSessionOver
<1>2. CASE Sp!Verifies(expires, spNow, Sp!HelperNow)
  <2>1. PICK mdns \in BOOLEAN :
          spHelper' = [Sp!NoSession EXCEPT !.at = "joined", !.lease = expires, !.mdns = mdns,
                            !.renewAt = Sp!RenewAt(expires, Sp!HelperNow),
                            !.refreshAt = Sp!HelperNow + 1]
    BY <1>2 DEF Sp!ReceiveLease
  <2>2. UNCHANGED <<spNow, spLag, spTunnels, spDying, spStatus, spWin, spPath>>
        /\ spHelper.at = "down" /\ spDying = {}
    BY <1>2 DEF Sp!ReceiveLease
  <2>3. Sp!HelperNow \in Int /\ expires \in Nat
    BY FleetAssumption DEF SpInv, SpTyped, Sp!HelperNow
  <2>4. /\ Sp!RenewAt(expires, Sp!HelperNow) \in Int
        /\ Sp!RenewAt(expires, Sp!HelperNow) <= expires
    BY <1>2, <2>3, FleetAssumption DEF Sp!RenewAt, Sp!Max2, Sp!Verifies, Sp!Unexpired
  <2>5. spTunnels = {}
    BY <2>2 DEF SpInv, Sp!Helps
  <2> HIDE DEF expires
  <2> QED
    BY <2>1, <2>2, <2>3, <2>4, <2>5 DEF SpInv, SpTyped, SessionShape, StatusShape,
       Sp!NoSession, Sp!PathIsLeased, Sp!Helps
<1> QED  BY <1>1, <1>2

\* The other steps of the helper's session.
LEMMA SpSession ==
    ASSUME SpInv,
           \/ Sp!JoinThroughHelper \/ Sp!Registered \/ Sp!RequestBegins \/ Sp!RequestEnds
           \/ Sp!SessionFails \/ Sp!Renew \/ Sp!PresenceRefresh
    PROVE  SpInv'
<1>0. Cardinality({}) = 0
  BY FS_EmptySet
<1>9. ASSUME SpTyped', UNCHANGED <<spTunnels, spDying, spStatus, spWin, spPath>>, spHelper'.lease = spHelper.lease,
             spHelper'.renewAt = spHelper.renewAt, spHelper'.at = spHelper.at
      PROVE  SpInv'
  BY <1>9 DEF SpInv, Sp!PathIsLeased, Sp!Helps
<1>1. CASE Sp!JoinThroughHelper
  BY <1>1 DEF Sp!JoinThroughHelper, SpInv, SpTyped, SessionShape, StatusShape, Sp!NoSession, Sp!PathIsLeased, Sp!Helps
<1>2. CASE Sp!Registered
  <2>1. CASE Sp!SessionOver("ControllerSessionReadyTimeout")
    BY <2>1, SpSessionOver
  <2>2. CASE /\ spHelper' = [spHelper EXCEPT !.at = "serving"]
             /\ spStatus' = Sp!Shown("Connected")
             /\ UNCHANGED <<spNow, spLag, spTunnels, spDying, spWin, spPath>>
    BY <1>2, <2>2 DEF Sp!Registered, Sp!Shown, SpInv, SpTyped, SessionShape, StatusShape, Sp!PathIsLeased, Sp!Helps
  <2> QED  BY <1>2, <2>1, <2>2 DEF Sp!Registered
<1>3. CASE Sp!RequestBegins
  BY <1>3, <1>9 DEF Sp!RequestBegins, SpInv, SpTyped, SessionShape
<1>4. CASE Sp!RequestEnds
  BY <1>4, <1>9 DEF Sp!RequestEnds, SpInv, SpTyped, SessionShape
<1>5. CASE Sp!SessionFails
  BY <1>5, SpSessionOver DEF Sp!SessionFails
<1>6. CASE Sp!Renew
  BY <1>0, <1>6 DEF Sp!Renew, Sp!Polls, SpInv, SpTyped, SessionShape, StatusShape, Sp!NoSession, Sp!PathIsLeased, Sp!Helps
<1>7. CASE Sp!PresenceRefresh
  <2>1. CASE Sp!SessionOver("MissingConnectorLease") \/ Sp!SessionOver("Expired")
    BY <2>1, SpSessionOver
  <2>2. CASE /\ spHelper' = [spHelper EXCEPT !.refreshAt = Sp!HelperNow + 1]
             /\ UNCHANGED <<spNow, spLag, spTunnels, spDying, spStatus, spWin, spPath>>
    BY <2>2, <1>9 DEF SpInv, SpTyped, SessionShape
  <2> QED  BY <1>7, <2>1, <2>2 DEF Sp!PresenceRefresh
<1> QED  BY <1>1, <1>2, <1>3, <1>4, <1>5, <1>6, <1>7

\* The tunnels can be counted.
LEMMA SpFinite == ASSUME SpInv PROVE IsFiniteSet(spTunnels) /\ Cardinality(spTunnels) \in Nat
<1>1. IsFiniteSet(1 .. 2 * MaxTunnels)
  BY FS_Interval, FleetAssumption
<1> QED  BY <1>1, FS_Subset, FS_CardinalityType DEF SpInv, SpTyped

\* A new tunnel is one that is not there yet.
LEMMA SpTunnelStarts ==
    ASSUME SpInv, NEW tunnels \in SUBSET (1 .. 2 * MaxTunnels), Sp!TunnelStarts(tunnels)
    PROVE  /\ Sp!Helps /\ spDying = {}
           /\ Cardinality(tunnels) = Cardinality(spTunnels) + 1
<1> DEFINE All == 1 .. 2 * MaxTunnels
           t == CHOOSE t \in All : t \notin spTunnels \cup spDying
<1>1. tunnels = spTunnels \cup {t} /\ Sp!Helps /\ Cardinality(spTunnels) < MaxTunnels
  BY SpCardinality DEF Sp!TunnelStarts
<1>0. spDying = {}
  BY <1>1 DEF SpInv, Sp!Helps
<1>2. IsFiniteSet(All) /\ Cardinality(All) = 2 * MaxTunnels
  <2>1. MaxTunnels \in Nat /\ 1 \in Int /\ 2 * MaxTunnels \in Int
    BY FleetAssumption
  <2>2. IsFiniteSet(All) /\ Cardinality(All) = IF 1 > 2 * MaxTunnels THEN 0 ELSE 2 * MaxTunnels - 1 + 1
    BY <2>1, FS_Interval
  <2> QED  BY <2>1, <2>2
<1>3. IsFiniteSet(spTunnels) /\ Cardinality(spTunnels) \in Nat
  BY SpFinite
<1>4. spTunnels # All
  BY <1>1, <1>2, <1>3, FleetAssumption
<1>5. \E x \in All : x \notin spTunnels \cup spDying
  BY <1>0, <1>4 DEF SpInv, SpTyped
<1>6. t \notin spTunnels
  BY <1>5
<1> HIDE DEF t
<1>7. Cardinality(spTunnels \cup {t}) = Cardinality(spTunnels) + 1
  BY <1>3, <1>6, FS_AddElement
<1> QED  BY <1>0, <1>1, <1>7

\* Tunnels come and go with the number shown.
LEMMA SpTunnels ==
    ASSUME SpInv,
           \/ Sp!OtherTargetOpens \/ Sp!CandidateConnects
           \/ \E t \in 1 .. 2 * MaxTunnels : Sp!TunnelEnds(t) \/ Sp!GuardRuns(t)
    PROVE  SpInv'
<1>0. /\ Cardinality({}) = 0
      /\ IsFiniteSet(spTunnels) /\ Cardinality(spTunnels) \in Nat
  BY FS_EmptySet, SpFinite
<1>1. CASE Sp!OtherTargetOpens
  <2>1. PICK tunnels \in SUBSET (1 .. 2 * MaxTunnels) : Sp!TunnelStarts(tunnels) /\ spTunnels' = tunnels
    BY <1>1 DEF Sp!OtherTargetOpens
  <2>2. Sp!Helps /\ spDying = {} /\ Cardinality(spTunnels') = Cardinality(spTunnels) + 1
    BY <2>1, SpTunnelStarts
  <2> QED
    BY <1>0, <1>1, <2>1, <2>2 DEF Sp!OtherTargetOpens, Sp!Opens, SpInv, SpTyped, StatusShape,
       Sp!PathIsLeased, Sp!Helps
<1>2. CASE Sp!CandidateConnects
  <2>1. PICK tunnels \in SUBSET (1 .. 2 * MaxTunnels) : Sp!TunnelStarts(tunnels) /\ spTunnels' = tunnels
    BY <1>2 DEF Sp!CandidateConnects
  <2>2. Sp!Helps /\ spDying = {} /\ Cardinality(spTunnels') = Cardinality(spTunnels) + 1
    BY <2>1, SpTunnelStarts
  <2>3. WinOK(spWin')
    BY <1>2 DEF Sp!CandidateConnects, WinOK, WinShape, Sp!NoWindow
  <2>4. Sp!PathIsLeased'
    BY <1>2 DEF Sp!CandidateConnects, Sp!PathIsLeased, Sp!Verifies, Sp!Unexpired
  <2> QED
    BY <1>0, <1>2, <2>1, <2>2, <2>3, <2>4 DEF Sp!CandidateConnects, Sp!Opens, SpInv, SpTyped, StatusShape,
       Sp!Helps
<1>3. CASE \E t \in 1 .. 2 * MaxTunnels : Sp!TunnelEnds(t)
  <2>1. PICK t \in 1 .. 2 * MaxTunnels : Sp!TunnelEnds(t)
    BY <1>3
  <2>2. Cardinality(spTunnels') = Cardinality(spTunnels) - 1 /\ Cardinality(spTunnels') \in Nat
    <3>1. t \in spTunnels /\ spTunnels' = spTunnels \ {t}
      BY <2>1 DEF Sp!TunnelEnds
    <3> QED  BY <1>0, <3>1, FS_RemoveElement, FS_CardinalityType
  <2> QED
    BY <1>0, <2>1, <2>2 DEF Sp!TunnelEnds, Sp!Closes, Sp!Max2, SpInv, SpTyped, StatusShape,
       Sp!PathIsLeased, Sp!Helps
<1>4. CASE \E t \in 1 .. 2 * MaxTunnels : Sp!GuardRuns(t)
  <2>1. PICK t \in 1 .. 2 * MaxTunnels : Sp!GuardRuns(t)
    BY <1>4
  <2>2. spTunnels = {}
    BY <2>1 DEF Sp!GuardRuns, SpInv, Sp!Helps
  <2> QED
    BY <1>0, <2>1, <2>2 DEF Sp!GuardRuns, Sp!Closes, Sp!Max2, SpInv, SpTyped, StatusShape,
       Sp!PathIsLeased, Sp!Helps
<1> QED  BY <1>1, <1>2, <1>3, <1>4

\* Candidates and dials leave the mode and the direct dial of a window alone.
LEMMA WinPushed == ASSUME NEW w, WinOK(w), NEW c PROVE WinOK(Sp!Pushed(w, c))
BY DEF WinOK, WinShape, Sp!Pushed

\* Filling the dial slots leaves the mode and the direct dial alone too.
LEMMA WinFilled == ASSUME NEW w, WinOK(w) PROVE WinOK(Sp!Filled(w))
BY DEF Sp!Filled, WinOK, WinShape

\* Only a window in automatic mode begins with a direct dial.
LEMMA WinOpened == ASSUME NEW purpose, NEW mode PROVE WinOK(Sp!Opened(purpose, mode))
BY DEF WinOK, WinShape, Sp!Opened, Sp!NoWindow

\* A step of the target's window that begins or fills one.
LEMMA SpWindowFills ==
    ASSUME SpInv, UNCHANGED Sp!WindowLeaves, WinOK(spWin'), Sp!PathIsLeased'
    PROVE  SpInv'
BY DEF SpInv, SpTyped, Sp!WindowLeaves, Sp!Helps

\* The steps of the target's window.
LEMMA SpWindow ==
    ASSUME SpInv,
           \/ \E mode \in Sp!Modes :
                Sp!BeginUnsealed(mode) \/ Sp!ConnectBootstrap(mode) \/ Sp!ConnectMember(mode)
           \/ \E c \in Candidates : Sp!Discover(c) \/ Sp!CandidateFails(c)
           \/ Sp!DiscoverLan \/ Sp!DirectEnds \/ Sp!WindowCloses
    PROVE  SpInv'
<1>0. WinOK(spWin) /\ WinOK(Sp!NoWindow) /\ Sp!PathIsLeased
  BY DEF SpInv, WinOK, WinShape, Sp!NoWindow
<1>1. CASE \E mode \in Sp!Modes : Sp!BeginUnsealed(mode)
  <2>1. PICK mode \in Sp!Modes : Sp!BeginUnsealed(mode)
    BY <1>1
  <2> DEFINE w == Sp!Opened("bootstrap", mode)
  <2>2. WinOK(w)
    BY WinOpened
  <2>3. WinOK([w EXCEPT !.sealed = FALSE])
    <3> HIDE DEF w
    <3> QED  BY <2>2 DEF WinOK, WinShape
  <2>4. WinOK(spWin') /\ UNCHANGED Sp!WindowLeaves
    BY <1>0, <2>1, <2>3 DEF Sp!BeginUnsealed, Sp!Ended
  <2>5. Sp!PathIsLeased'
    BY <2>1 DEF Sp!BeginUnsealed, Sp!Ended, Sp!PathIsLeased, Sp!NoPath
  <2> QED  BY <2>4, <2>5, SpWindowFills
<1>2. CASE \E mode \in Sp!Modes : Sp!ConnectBootstrap(mode) \/ Sp!ConnectMember(mode)
  <2>1. PICK mode \in Sp!Modes, purpose \in {"bootstrap", "inner"} : Sp!BeginWindow(purpose, mode)
    BY <1>2 DEF Sp!ConnectBootstrap, Sp!ConnectMember
  <2>2. WinOK(Sp!Opened(purpose, mode))
    BY WinOpened
  <2>3. \A c : WinOK(Sp!Filled(Sp!Pushed(Sp!Opened(purpose, mode), c)))
    BY <2>2, WinPushed, WinFilled
  <2>4. WinOK(spWin') /\ UNCHANGED Sp!WindowLeaves
    BY <2>1, <2>2, <2>3 DEF Sp!BeginWindow
  <2>5. Sp!PathIsLeased'
    BY <2>1 DEF Sp!BeginWindow, Sp!PathIsLeased, Sp!NoPath
  <2> QED  BY <2>4, <2>5, SpWindowFills
<1>3. CASE \E c \in Candidates : Sp!Discover(c) \/ Sp!CandidateFails(c)
  <2>1. PICK c \in Candidates : Sp!Discover(c) \/ Sp!CandidateFails(c)
    BY <1>3
  <2>2. WinOK(Sp!Filled(Sp!Pushed(spWin, c)))
    BY <1>0, WinPushed, WinFilled
  <2>3. WinOK([spWin EXCEPT !.dials = @ \ {c}])
    BY <1>0 DEF WinOK, WinShape
  <2>4. WinOK(Sp!Filled([spWin EXCEPT !.dials = @ \ {c}]))
    BY <2>3, WinFilled
  <2>5. WinOK(spWin') /\ UNCHANGED <<spPath, Sp!WindowLeaves>>
    BY <2>1, <2>2, <2>4 DEF Sp!Discover, Sp!CandidateFails
  <2>6. Sp!PathIsLeased'
    BY <1>0, <2>5 DEF Sp!PathIsLeased
  <2> QED  BY <2>5, <2>6, SpWindowFills
<1>4. CASE Sp!DiscoverLan
  <2> DEFINE w == [spWin EXCEPT !.lan = TRUE]
  <2>1. WinOK(w)
    BY <1>0 DEF WinOK, WinShape
  <2>2. \A c, d : WinOK(Sp!Filled(Sp!Pushed(Sp!Pushed(w, c), d)))
    <3> HIDE DEF w
    <3> QED  BY <2>1, WinPushed, WinFilled
  <2>3. WinOK(spWin') /\ UNCHANGED <<spPath, Sp!WindowLeaves>>
    BY <1>4, <2>1, <2>2 DEF Sp!DiscoverLan
  <2>4. Sp!PathIsLeased'
    BY <1>0, <2>3 DEF Sp!PathIsLeased
  <2> QED  BY <2>3, <2>4, SpWindowFills
<1>5. CASE Sp!DirectEnds
  <2>1. WinOK([spWin EXCEPT !.direct = "done"])
    BY <1>0 DEF WinOK, WinShape
  <2>2. WinOK(spWin') /\ UNCHANGED Sp!WindowLeaves
    BY <1>0, <1>5, <2>1 DEF Sp!DirectEnds, Sp!Ended
  <2>3. Sp!PathIsLeased'
    BY <1>0, <1>5 DEF Sp!DirectEnds, Sp!Ended, Sp!PathIsLeased, WinOK
  <2> QED  BY <2>2, <2>3, SpWindowFills
<1>6. CASE Sp!WindowCloses
  <2>1. WinOK(spWin') /\ UNCHANGED Sp!WindowLeaves
    BY <1>0, <1>6 DEF Sp!WindowCloses, Sp!Ended
  <2>2. Sp!PathIsLeased'
    BY <1>6 DEF Sp!WindowCloses, Sp!Ended, Sp!PathIsLeased, Sp!NoPath
  <2> QED  BY <2>1, <2>2, SpWindowFills
<1> QED  BY <1>1, <1>2, <1>3, <1>4, <1>5, <1>6

\* So does a step of the whole system.
LEMMA SpInvStep == SpInv /\ [Next]_vars => SpInv'
<1> SUFFICES ASSUME SpInv, [Next]_vars PROVE SpInv'
  OBVIOUS
<1>1. Sp!SpNext \/ UNCHANGED spVars
  BY DEF Next, vars, ManagedFsStep, TcpForwardStep, SitePathStep, MachineServiceStep,
     SingleInstanceStep, SiteKitStep, FsQueryStep, InnerSessionStep, ControllerWindowStep,
     LocalCallsStep
<1>2. CASE UNCHANGED spVars
  BY <1>2 DEF spVars, SpInv, SpTyped, Sp!Helps, Sp!PathIsLeased
<1>3. CASE Sp!SpTick
  BY <1>3 DEF Sp!SpTick, SpInv, SpTyped, Sp!Helps, Sp!PathIsLeased
<1> QED
  BY <1>1, <1>2, <1>3, SpReceiveLease, SpSession, SpTunnels, SpWindow DEF Sp!SpNext

\* For any number of tunnels and candidates, any lifetime, margin and skew, and
\* a helper's clock any distance behind: no target uses a helper past its lease
\* or goes around one it must use, no tunnel outlives the lease but during a
\* request, and the helper shows what it carries.
THEOREM LeaseIsObeyedThm == Spec => []LeaseIsObeyed
<1>1. SpInv => LeaseIsObeyed
  <2> SUFFICES ASSUME SpInv PROVE Sp!PathIsLeased /\ Sp!TunnelsEndWithLease /\ Sp!HelperStatusIsTrue
    BY DEF LeaseIsObeyed
  <2>0. Cardinality(spTunnels) \in Nat
    BY SpFinite
  <2>3. Sp!PathIsLeased
    BY DEF SpInv
  <2>4. spStatus.active = Cardinality(spTunnels) /\ spStatus.active >= 0
    BY <2>0 DEF SpInv
  <2>1. Sp!HelperStatusIsTrue
    BY <2>4, SpCardinality DEF SpInv, Sp!HelperStatusIsTrue
  <2>2. Sp!TunnelsEndWithLease
    BY DEF SpInv, SpTyped, SessionShape, Sp!TunnelsEndWithLease, Sp!Due, Sp!Polls, Sp!Helps, Sp!HelperNow
  <2> QED  BY <2>1, <2>2, <2>3
<1> QED  BY <1>1, SpInvInit, SpInvStep, PTL DEF Spec

-----------------------------------------------------------------------------
(* The managed file-system ledger.                                         *)

LedgerShape(l) == DOMAIN l = {"trash", "temp", "purge"}

\* What the proofs need to know of a worker's job: only confirmations that were
\* issued are in its copy of the ledger.
FsJobOK(j, prepared) ==
  /\ DOMAIN j = {"op", "id", "of", "token", "at", "ledger"}
  /\ LedgerShape(j.ledger) /\ j.ledger.purge \subseteq prepared
  /\ j.at \in {"idle", "probe", "place", "delete", "load", "work", "save"}
  /\ j.at = "idle" => j = Fs!NoJob
  /\ j.at = "delete" => j.op = "Trash"
  /\ j.at # "idle" => j.id \in Fs!Requests

FsBase ==
  /\ DOMAIN fsJob = FsWorkers
  /\ \A w \in FsWorkers : FsJobOK(fsJob[w], fsPrepared)
  /\ LedgerShape(fsLedger) /\ fsLedger.purge \subseteq fsPrepared
  /\ DOMAIN fsBin = Fs!Requests
  /\ fsNext \in Nat \ {0}
  /\ Fs!PurgeWasPrepared

Binned(b) == {r \in Fs!Requests : b[r] = "binned"}

\* A ledger that mirrors the disk, and one that still owes it the item id.
Agrees(l, b, d) ==
  /\ Fs!TempIds(l) = d /\ l.trash = Binned(b) /\ \A p \in l.purge : p.id \in l.trash
Owes(l, b, d, id) ==
  /\ Fs!TempIds(l) = d /\ l.trash \cup {id} = Binned(b) /\ \A p \in l.purge : p.id \in l.trash

\* How far a request has come that nobody else disturbs: the ledger mirrors the
\* disk until the target of a trash request is gone, a copy is the ledger until
\* the work is done, and from then on the copy mirrors the disk.
OnItsWay(j, l, b, d, dest) ==
  /\ j.at \in {"idle", "probe", "place", "delete"} => Agrees(l, b, d)
  /\ j.at = "place" => dest = Fs!Nothing
  /\ j.at \in {"load", "work"} =>
       IF j.op = "Trash" THEN Owes(l, b, d, j.id) ELSE Agrees(l, b, d)
  /\ j.at = "work" => j.ledger = l
  /\ j.at = "save" => Agrees(j.ledger, b, d)

\* Without an excuse at most one request is under way.
FsMirror ==
  ~fsExcused =>
    /\ fsLost = {}
    /\ \A v, w \in FsWorkers : fsJob[v].at # "idle" /\ fsJob[w].at # "idle" => v = w
    /\ (\A w \in FsWorkers : fsJob[w].at = "idle") => Agrees(fsLedger, fsBin, fsDirs)
    /\ \A w \in FsWorkers :
         fsJob[w].at # "idle" => OnItsWay(fsJob[w], fsLedger, fsBin, fsDirs, fsDest)

FsInv == FsBase /\ FsMirror

\* Nothing has been requested at first.
LEMMA FsInvInit == Init => FsInv
<1> SUFFICES ASSUME Init PROVE FsInv
  OBVIOUS
<1>1. Fs!FsInit
  BY DEF Init
<1>2. DOMAIN Fs!NoJob = {"op", "id", "of", "token", "at", "ledger"} /\ Fs!NoJob.at = "idle"
      /\ Fs!NoJob.ledger = Fs!NoLedger
  BY DEF Fs!NoJob
<1>3. LedgerShape(Fs!NoLedger) /\ Fs!NoLedger.purge = {} /\ Fs!NoLedger.trash = {} /\ Fs!NoLedger.temp = {}
  BY DEF LedgerShape, Fs!NoLedger
<1>4. FsBase
  BY <1>1, <1>2, <1>3 DEF Fs!FsInit, FsBase, FsJobOK, Fs!PurgeWasPrepared
<1>5. Binned(fsBin) = {}
  BY <1>1 DEF Fs!FsInit, Binned
<1>6. Agrees(fsLedger, fsBin, fsDirs)
  BY <1>1, <1>3, <1>5 DEF Fs!FsInit, Agrees, Fs!TempIds
<1>7. \A w \in FsWorkers : fsJob[w].at = "idle"
  BY <1>1, <1>2 DEF Fs!FsInit
<1>8. fsLost = {}
  BY <1>1 DEF Fs!FsInit
<1> QED  BY <1>4, <1>6, <1>7, <1>8 DEF FsInv, FsMirror

\* The worker's next job is one that the invariants allow.
FsMoves(w, n) ==
  /\ fsJob' = [fsJob EXCEPT ![w] = n]
  /\ FsJobOK(n, fsPrepared')
  /\ fsPrepared \subseteq fsPrepared'

\* A step of one worker.
LEMMA FsBaseStep ==
    ASSUME FsBase, NEW w \in FsWorkers, NEW n, FsMoves(w, n),
           LedgerShape(fsLedger'), fsLedger'.purge \subseteq fsPrepared',
           DOMAIN fsBin' = Fs!Requests, fsNext' \in Nat \ {0}, Fs!PurgeWasPrepared'
    PROVE  FsBase'
<1>1. \A v \in FsWorkers : FsJobOK(fsJob'[v], fsPrepared')
  <2> TAKE v \in FsWorkers
  <2>1. CASE v = w
    BY <2>1 DEF FsBase, FsMoves
  <2>2. CASE v # w
    BY <2>2 DEF FsBase, FsMoves, FsJobOK
  <2> QED  BY <2>1, <2>2
<1> QED  BY <1>1 DEF FsBase, FsMoves

\* A worker that leaves ledger and disk on their way to agreement.
LEMMA FsMirrorStep ==
    ASSUME FsBase, FsMirror, NEW w \in FsWorkers, NEW n, FsMoves(w, n),
           fsJob[w].at # "idle",
           ~fsExcused' => ~fsExcused /\ fsLost' = {} /\ OnItsWay(n, fsLedger', fsBin', fsDirs', fsDest')
    PROVE  FsMirror'
<1> SUFFICES ASSUME ~fsExcused' PROVE FsMirror'
  BY DEF FsMirror
<1>1. ~fsExcused /\ fsLost' = {} /\ OnItsWay(n, fsLedger', fsBin', fsDirs', fsDest')
  OBVIOUS
<1>2. fsJob'[w] = n /\ \A v \in FsWorkers : v # w => fsJob'[v] = fsJob[v] /\ fsJob[v].at = "idle"
  BY <1>1 DEF FsBase, FsMirror, FsMoves
<1>3. n.at = "idle" => Agrees(fsLedger', fsBin', fsDirs')
  BY <1>1 DEF OnItsWay
<1> QED  BY <1>1, <1>2, <1>3 DEF FsMirror

\* A request that has ended.
LEMMA FsEnds ==
    ASSUME FsBase, NEW w \in FsWorkers, Fs!Ends(w), fsPrepared \subseteq fsPrepared'
    PROVE  FsMoves(w, Fs!NoJob) /\ Fs!NoJob.at = "idle"
<1>1. FsJobOK(Fs!NoJob, fsPrepared') /\ Fs!NoJob.at = "idle"
  BY DEF FsJobOK, LedgerShape, Fs!NoJob, Fs!NoLedger
<1> QED  BY <1>1 DEF FsMoves, Fs!Ends
\* A request is taken by an idle worker.
LEMMA FsAccept ==
    ASSUME FsInv, NEW w \in FsWorkers, NEW op, NEW of, NEW token, Fs!Accept(w, op, of, token)
    PROVE  FsInv'
<1> DEFINE n == [Fs!NoJob EXCEPT !.op = op, !.id = fsNext, !.of = of, !.token = token,
                                 !.at = Fs!FirstStep(op)]
<1>1. /\ DOMAIN n = {"op", "id", "of", "token", "at", "ledger"}
      /\ n.ledger = Fs!NoLedger /\ n.id = fsNext /\ n.op = op /\ n.at = Fs!FirstStep(op)
  BY DEF Fs!NoJob
<1>2. /\ fsJob' = [fsJob EXCEPT ![w] = n]
      /\ fsNext' = fsNext + 1 /\ fsNext <= MaxRequests /\ fsJob[w] = Fs!NoJob
      /\ fsExcused' = (fsExcused \/ \E v \in FsWorkers : fsJob[v] # Fs!NoJob)
      /\ UNCHANGED <<fsLedger, fsBin, fsDirs, fsDest, fsLost, fsClock, fsPrepared, fsPurges>>
  BY DEF Fs!Accept
<1> HIDE DEF n
<1>3. n.at \in {"probe", "delete", "load"} /\ (n.at = "load" => op # "Trash")
      /\ (n.at = "delete" => op = "Trash")
  BY <1>1 DEF Fs!FirstStep, Fs!Placing
<1>4. fsNext \in Fs!Requests
  BY <1>2, FleetAssumption DEF Fs!Requests, FsInv, FsBase
<1>5. LedgerShape(Fs!NoLedger) /\ Fs!NoLedger.purge = {}
  BY DEF LedgerShape, Fs!NoLedger
<1>6. FsMoves(w, n)
  BY <1>1, <1>2, <1>3, <1>4, <1>5 DEF FsMoves, FsJobOK
<1>7. FsBase'
  <2>1. Fs!PurgeWasPrepared'
    BY <1>2 DEF FsInv, FsBase, Fs!PurgeWasPrepared
  <2> QED  BY <1>2, <1>6, <2>1, FsBaseStep DEF FsInv, FsBase
<1>8. FsMirror'
  <2> SUFFICES ASSUME ~fsExcused' PROVE FsMirror'
    BY DEF FsMirror
  <2>1. ~fsExcused /\ \A v \in FsWorkers : fsJob[v] = Fs!NoJob
    BY <1>2
  <2>2. \A v \in FsWorkers : fsJob[v].at = "idle"
    BY <2>1 DEF Fs!NoJob
  <2>3. Agrees(fsLedger, fsBin, fsDirs) /\ fsLost = {}
    BY <2>1, <2>2 DEF FsInv, FsMirror
  <2>4. OnItsWay(n, fsLedger, fsBin, fsDirs, fsDest)
    BY <1>1, <1>3, <2>3 DEF OnItsWay
  <2>5. fsJob'[w] = n /\ \A v \in FsWorkers : v # w => fsJob'[v].at = "idle"
    BY <1>2, <2>2 DEF FsInv, FsBase
  <2> QED  BY <1>2, <1>3, <2>3, <2>4, <2>5 DEF FsMirror
<1> QED  BY <1>7, <1>8 DEF FsInv

\* The part of the disk that a step leaves alone.
LEMMA FsPurgesKept ==
    ASSUME FsBase, UNCHANGED fsPurges, fsPrepared \subseteq fsPrepared'
    PROVE  Fs!PurgeWasPrepared'
BY DEF FsBase, Fs!PurgeWasPrepared

\* A destination found taken fails the request before anything has changed.
LEMMA FsProbe == ASSUME FsInv, NEW w \in FsWorkers, Fs!Probe(w) PROVE FsInv'
<1> DEFINE n == IF fsDest = Fs!Nothing THEN [fsJob[w] EXCEPT !.at = "place"] ELSE Fs!NoJob
<1>1. /\ fsJob[w].at = "probe" /\ fsJob' = [fsJob EXCEPT ![w] = n]
      /\ ~fsExcused' => ~fsExcused
      /\ UNCHANGED <<fsLedger, fsBin, fsDirs, fsDest, fsLost, fsClock, fsNext, fsPrepared, fsPurges>>
  <2>1. CASE fsDest = Fs!Nothing
    BY <2>1 DEF Fs!Probe
  <2>2. CASE fsDest # Fs!Nothing
    BY <2>2 DEF Fs!Probe, Fs!Fails, Fs!Ends
  <2> QED  BY <2>1, <2>2
<1>2. FsMoves(w, n) /\ (n.at = "idle" \/ (n.at = "place" /\ fsDest = Fs!Nothing))
  <2>1. CASE fsDest = Fs!Nothing
    BY <1>1, <2>1 DEF FsInv, FsBase, FsMoves, FsJobOK
  <2>2. CASE fsDest # Fs!Nothing
    <3>1. Fs!Ends(w)
      BY <1>1, <2>2 DEF Fs!Ends
    <3> QED  BY <1>1, <2>2, <3>1, FsEnds DEF FsInv
  <2> QED  BY <2>1, <2>2
<1> HIDE DEF n
<1>3. FsBase'
  BY <1>1, <1>2, FsBaseStep, FsPurgesKept DEF FsInv, FsBase
<1>4. ASSUME ~fsExcused'
      PROVE  ~fsExcused /\ fsLost' = {} /\ OnItsWay(n, fsLedger', fsBin', fsDirs', fsDest')
  <2>1. fsLost = {} /\ OnItsWay(fsJob[w], fsLedger, fsBin, fsDirs, fsDest)
    BY <1>1, <1>4 DEF FsInv, FsMirror
  <2> QED  BY <1>1, <1>2, <1>4, <2>1 DEF OnItsWay
<1>5. FsMirror'
  BY <1>1, <1>2, <1>4, FsMirrorStep DEF FsInv
<1> QED  BY <1>3, <1>5 DEF FsInv

\* What is put at a destination that is still free replaces nothing.
LEMMA FsPlace == ASSUME FsInv, NEW w \in FsWorkers, Fs!Place(w) PROVE FsInv'
<1>1. /\ fsJob[w].at = "place" /\ Fs!Ends(w)
      /\ UNCHANGED <<fsLedger, fsBin, fsDirs, fsClock, fsNext, fsExcused, fsPrepared, fsPurges>>
  BY DEF Fs!Place
<1>2. FsMoves(w, Fs!NoJob) /\ Fs!NoJob.at = "idle"
  BY <1>1, FsEnds DEF FsInv
<1>3. FsBase'
  BY <1>1, <1>2, FsBaseStep, FsPurgesKept DEF FsInv, FsBase
<1>4. ASSUME ~fsExcused'
      PROVE  ~fsExcused /\ fsLost' = {} /\ OnItsWay(Fs!NoJob, fsLedger', fsBin', fsDirs', fsDest')
  <2>1. fsLost = {} /\ OnItsWay(fsJob[w], fsLedger, fsBin, fsDirs, fsDest)
    BY <1>1, <1>4 DEF FsInv, FsMirror
  <2>2. fsDest.by = 0
    BY <1>1, <2>1 DEF OnItsWay, Fs!Nothing
  <2>3. fsLost' = {}
    BY <2>1, <2>2 DEF Fs!Place
  <2> QED  BY <1>1, <1>2, <1>4, <2>1, <2>3 DEF OnItsWay
<1>5. FsMirror'
  BY <1>1, <1>2, <1>4, FsMirrorStep DEF FsInv
<1> QED  BY <1>3, <1>5 DEF FsInv

\* The target of a trash request is gone before the ledger is read.
LEMMA FsDelete ==
    ASSUME FsInv, NEW w \in FsWorkers, Fs!Delete(w) PROVE FsInv'
<1> DEFINE n == [fsJob[w] EXCEPT !.at = "load"]
           id == fsJob[w].id
<1>1. /\ fsJob[w].at = "delete" /\ fsJob' = [fsJob EXCEPT ![w] = n]
      /\ fsBin' = [fsBin EXCEPT ![id] = "binned"]
      /\ UNCHANGED <<fsLedger, fsDirs, fsDest, fsLost, fsClock, fsNext, fsExcused, fsPrepared, fsPurges>>
  BY DEF Fs!Delete
<1>2. /\ FsMoves(w, n) /\ n.at = "load" /\ n.op = fsJob[w].op /\ n.id = id /\ id \in Fs!Requests
  BY <1>1 DEF FsInv, FsBase, FsMoves, FsJobOK
<1> HIDE DEF n, id
<1>3. FsBase'
  BY <1>1, <1>2, FsBaseStep, FsPurgesKept DEF FsInv, FsBase
<1>4. ASSUME ~fsExcused'
      PROVE  ~fsExcused /\ fsLost' = {} /\ OnItsWay(n, fsLedger', fsBin', fsDirs', fsDest')
  <2>1. fsLost = {} /\ OnItsWay(fsJob[w], fsLedger, fsBin, fsDirs, fsDest)
    BY <1>1, <1>4 DEF FsInv, FsMirror
  <2>2. fsJob[w].op = "Trash"
    BY <1>1 DEF FsInv, FsBase, FsJobOK
  <2>3. Binned(fsBin') = Binned(fsBin) \cup {id}
    BY <1>1, <1>2 DEF Binned, FsInv, FsBase
  <2>4. Owes(fsLedger, fsBin', fsDirs, id)
    BY <1>1, <2>1, <2>3 DEF OnItsWay, Agrees, Owes
  <2> QED  BY <1>1, <1>2, <1>4, <2>1, <2>2, <2>4 DEF OnItsWay
<1>5. FsMirror'
  BY <1>1, <1>2, <1>4, FsMirrorStep DEF FsInv
<1> QED  BY <1>3, <1>5 DEF FsInv

\* The copy that a request works on is the ledger as it was read.
LEMMA FsLoad == ASSUME FsInv, NEW w \in FsWorkers, Fs!Load(w) PROVE FsInv'
<1> DEFINE n == IF Fs!Loadable(fsLedger) THEN [fsJob[w] EXCEPT !.at = "work", !.ledger = fsLedger]
                ELSE Fs!NoJob
<1>1. /\ fsJob[w].at = "load" /\ fsJob' = [fsJob EXCEPT ![w] = n]
      /\ ~fsExcused' => ~fsExcused /\ (Fs!Loadable(fsLedger) \/ fsJob[w].op # "Trash")
      /\ UNCHANGED <<fsLedger, fsBin, fsDirs, fsDest, fsLost, fsClock, fsNext, fsPrepared, fsPurges>>
  <2>1. CASE Fs!Loadable(fsLedger)
    <3>1. fsJob' = [fsJob EXCEPT ![w].at = "work", ![w].ledger = fsLedger]
      BY <2>1 DEF Fs!Load
    <3>2. fsJob' = [fsJob EXCEPT ![w] = n]
      BY <2>1, <3>1 DEF FsInv, FsBase
    <3> QED  BY <2>1, <3>2 DEF Fs!Load
  <2>2. CASE ~Fs!Loadable(fsLedger)
    BY <2>2 DEF Fs!Load, Fs!Fails, Fs!Ends
  <2> QED  BY <2>1, <2>2
<1>2. /\ FsMoves(w, n)
      /\ \/ n.at = "idle" /\ ~Fs!Loadable(fsLedger)
         \/ n.at = "work" /\ n.ledger = fsLedger /\ n.op = fsJob[w].op /\ n.id = fsJob[w].id
  <2>1. CASE Fs!Loadable(fsLedger)
    BY <1>1, <2>1 DEF FsInv, FsBase, FsMoves, FsJobOK
  <2>2. CASE ~Fs!Loadable(fsLedger)
    <3>1. Fs!Ends(w)
      BY <1>1, <2>2 DEF Fs!Ends
    <3> QED  BY <1>1, <2>2, <3>1, FsEnds DEF FsInv
  <2> QED  BY <2>1, <2>2
<1> HIDE DEF n
<1>3. FsBase'
  BY <1>1, <1>2, FsBaseStep, FsPurgesKept DEF FsInv, FsBase
<1>4. ASSUME ~fsExcused'
      PROVE  ~fsExcused /\ fsLost' = {} /\ OnItsWay(n, fsLedger', fsBin', fsDirs', fsDest')
  <2>1. fsLost = {} /\ OnItsWay(fsJob[w], fsLedger, fsBin, fsDirs, fsDest)
    BY <1>1, <1>4 DEF FsInv, FsMirror
  <2> QED  BY <1>1, <1>2, <1>4, <2>1 DEF OnItsWay
<1>5. FsMirror'
  BY <1>1, <1>2, <1>4, FsMirrorStep DEF FsInv
<1> QED  BY <1>3, <1>5 DEF FsInv

\* The copy replaces the ledger.
LEMMA FsSave == ASSUME FsInv, NEW w \in FsWorkers, Fs!Save(w) PROVE FsInv'
<1>1. /\ fsJob[w].at = "save" /\ Fs!Ends(w) /\ fsLedger' = fsJob[w].ledger
      /\ UNCHANGED <<fsBin, fsDirs, fsDest, fsLost, fsClock, fsNext, fsExcused, fsPrepared, fsPurges>>
  BY DEF Fs!Save
<1>2. FsMoves(w, Fs!NoJob) /\ Fs!NoJob.at = "idle"
  BY <1>1, FsEnds DEF FsInv
<1>3. FsBase'
  <2>1. LedgerShape(fsLedger') /\ fsLedger'.purge \subseteq fsPrepared'
    BY <1>1 DEF FsInv, FsBase, FsJobOK
  <2> QED  BY <1>1, <1>2, <2>1, FsBaseStep, FsPurgesKept DEF FsInv, FsBase
<1>4. ASSUME ~fsExcused'
      PROVE  ~fsExcused /\ fsLost' = {} /\ OnItsWay(Fs!NoJob, fsLedger', fsBin', fsDirs', fsDest')
  <2>1. fsLost = {} /\ OnItsWay(fsJob[w], fsLedger, fsBin, fsDirs, fsDest)
    BY <1>1, <1>4 DEF FsInv, FsMirror
  <2> QED  BY <1>1, <1>2, <1>4, <2>1 DEF OnItsWay
<1>5. FsMirror'
  BY <1>1, <1>2, <1>4, FsMirrorStep DEF FsInv
<1> QED  BY <1>3, <1>5 DEF FsInv
\* What a request knows when it has the ledger.
LEMMA FsWorking ==
    ASSUME FsInv, NEW w \in FsWorkers, fsJob[w].at = "work"
    PROVE  LET j == fsJob[w] IN
           /\ FsJobOK(j, fsPrepared) /\ j.id \in Fs!Requests
           /\ LedgerShape(j.ledger) /\ j.ledger.purge \subseteq fsPrepared
           /\ ~fsExcused /\ j.op = "Trash" => Owes(j.ledger, fsBin, fsDirs, j.id)
           /\ ~fsExcused /\ j.op # "Trash" => Agrees(j.ledger, fsBin, fsDirs)
<1>1. FsJobOK(fsJob[w], fsPrepared)
  BY DEF FsInv, FsBase
<1>2. ~fsExcused => OnItsWay(fsJob[w], fsLedger, fsBin, fsDirs, fsDest)
  BY DEF FsInv, FsMirror
<1> QED  BY <1>1, <1>2 DEF FsJobOK, OnItsWay

\* What the work leaves for the save.
FsResult(l) ==
  /\ LedgerShape(l) /\ l.purge \subseteq fsPrepared'
  /\ fsPrepared \subseteq fsPrepared' /\ DOMAIN fsBin' = Fs!Requests /\ Fs!PurgeWasPrepared'
  /\ ~fsExcused => Agrees(l, fsBin', fsDirs')

\* The step of a request that has done its work.
LEMMA FsWorks ==
    ASSUME FsInv, NEW w \in FsWorkers, fsJob[w].at = "work", NEW l, Fs!Works(w, l), FsResult(l),
           UNCHANGED <<fsLedger, fsDest, fsLost, fsClock, fsNext>>
    PROVE  FsInv'
<1> DEFINE n == [fsJob[w] EXCEPT !.at = "save", !.ledger = l]
<1>0. FsJobOK(fsJob[w], fsPrepared)
  BY FsWorking
<1>1. fsJob' = [fsJob EXCEPT ![w] = n] /\ UNCHANGED fsExcused
  BY DEF Fs!Works, FsInv, FsBase
<1>2. FsMoves(w, n) /\ n.at = "save" /\ n.ledger = l
  BY <1>0, <1>1 DEF FsMoves, FsJobOK, FsResult
<1> HIDE DEF n
<1>3. FsBase'
  BY <1>1, <1>2, FsBaseStep DEF FsInv, FsBase, FsResult
<1>4. ASSUME ~fsExcused'
      PROVE  ~fsExcused /\ fsLost' = {} /\ OnItsWay(n, fsLedger', fsBin', fsDirs', fsDest')
  BY <1>1, <1>2, <1>4 DEF OnItsWay, FsResult, FsInv, FsMirror
<1>5. FsMirror'
  BY <1>1, <1>2, <1>4, FsMirrorStep DEF FsInv
<1> QED  BY <1>3, <1>5 DEF FsInv

\* A request other than trash that fails at its work has changed nothing.
LEMMA FsWorkFails ==
    ASSUME FsInv, NEW w \in FsWorkers, fsJob[w].at = "work", fsJob[w].op # "Trash", Fs!Fails(w, FALSE),
           UNCHANGED <<fsLedger, fsBin, fsDirs, fsDest, fsLost, fsClock, fsNext, fsPrepared, fsPurges>>
    PROVE  FsInv'
<1>1. Fs!Ends(w) /\ (~fsExcused' => ~fsExcused)
  BY DEF Fs!Fails
<1>2. FsMoves(w, Fs!NoJob) /\ Fs!NoJob.at = "idle"
  BY <1>1, FsEnds DEF FsInv
<1>3. FsBase'
  BY <1>1, <1>2, FsBaseStep, FsPurgesKept DEF FsInv, FsBase
<1>4. ASSUME ~fsExcused'
      PROVE  ~fsExcused /\ fsLost' = {} /\ OnItsWay(Fs!NoJob, fsLedger', fsBin', fsDirs', fsDest')
  <2>1. fsLost = {} /\ OnItsWay(fsJob[w], fsLedger, fsBin, fsDirs, fsDest)
    BY <1>1, <1>4 DEF FsInv, FsMirror
  <2> QED  BY <1>1, <1>2, <1>4, <2>1 DEF OnItsWay
<1>5. FsMirror'
  BY <1>1, <1>2, <1>4, FsMirrorStep DEF FsInv
<1> QED  BY <1>3, <1>5 DEF FsInv

\* The work of one kind of request after the other.
LEMMA FsInsertWork ==
    ASSUME FsInv, NEW w \in FsWorkers, fsJob[w].at = "work", Fs!Insert(w),
           UNCHANGED <<fsLedger, fsDest, fsLost, fsClock, fsNext>>
    PROVE  FsInv'
<1> DEFINE j == fsJob[w]
           l == [j.ledger EXCEPT !.trash = @ \cup {j.id}]
<1>1. j.op = "Trash" /\ Fs!Works(w, l) /\ UNCHANGED <<fsBin, fsDirs, fsPrepared, fsPurges>>
  BY DEF Fs!Insert
<1>2. LedgerShape(l) /\ l.purge = j.ledger.purge /\ l.temp = j.ledger.temp
      /\ l.trash = j.ledger.trash \cup {j.id}
  BY FsWorking DEF LedgerShape
<1>3. /\ j.ledger.purge \subseteq fsPrepared
      /\ ~fsExcused => Owes(j.ledger, fsBin, fsDirs, j.id)
  BY <1>1, FsWorking
<1> HIDE DEF l
<1>4. ~fsExcused => Agrees(l, fsBin, fsDirs)
  BY <1>2, <1>3 DEF Owes, Agrees, Fs!TempIds
<1>5. Fs!PurgeWasPrepared'
  BY <1>1, FsPurgesKept DEF FsInv
<1>6. FsResult(l)
  BY <1>1, <1>2, <1>3, <1>4, <1>5 DEF FsResult, FsInv, FsBase
<1> QED  BY <1>1, <1>6, FsWorks

\* A list saves what it read.
LEMMA FsListWork ==
    ASSUME FsInv, NEW w \in FsWorkers, fsJob[w].at = "work", Fs!List(w),
           UNCHANGED <<fsLedger, fsDest, fsLost, fsClock, fsNext>>
    PROVE  FsInv'
<1> DEFINE l == fsJob[w].ledger
<1>1. fsJob[w].op # "Trash" /\ Fs!Works(w, l) /\ UNCHANGED <<fsBin, fsDirs, fsPrepared, fsPurges>>
  BY DEF Fs!List
<1>2. LedgerShape(l) /\ l.purge \subseteq fsPrepared /\ (~fsExcused => Agrees(l, fsBin, fsDirs))
  BY <1>1, FsWorking
<1>5. Fs!PurgeWasPrepared'
  BY <1>1, FsPurgesKept DEF FsInv
<1>6. FsResult(l)
  BY <1>1, <1>2, <1>5 DEF FsResult, FsInv, FsBase
<1> QED  BY <1>1, <1>6, FsWorks

\* An item that leaves the system trash leaves the ledger with its confirmation.
LEMMA FsForget ==
    ASSUME FsInv, NEW l, LedgerShape(l), NEW id, id \in l.trash, NEW state, state # "binned",
           NEW b, b = [fsBin EXCEPT ![id] = state]
    PROVE  /\ LedgerShape(Fs!Forget(l, id)) /\ Fs!Forget(l, id).purge \subseteq l.purge
           /\ Agrees(l, fsBin, fsDirs) => Agrees(Fs!Forget(l, id), b, fsDirs)
           /\ DOMAIN b = Fs!Requests
<1> DEFINE f == Fs!Forget(l, id)
<1>1. /\ LedgerShape(f) /\ f.temp = l.temp /\ f.trash = l.trash \ {id}
      /\ f.purge = {p \in l.purge : p.id # id}
  BY DEF Fs!Forget, LedgerShape
<1> HIDE DEF f
<1>2. DOMAIN b = Fs!Requests
  BY DEF FsInv, FsBase
<1>3. Binned(b) = Binned(fsBin) \ {id}
  BY DEF Binned, FsInv, FsBase
<1>4. Agrees(l, fsBin, fsDirs) => Agrees(f, b, fsDirs)
  BY <1>1, <1>3 DEF Agrees, Fs!TempIds
<1> QED  BY <1>1, <1>2, <1>4 DEF f

\* restore_trash, in the middle of a request.
LEMMA FsRestoreWork ==
    ASSUME FsInv, NEW w \in FsWorkers, fsJob[w].at = "work", Fs!Restore(w),
           UNCHANGED <<fsLedger, fsDest, fsLost, fsClock, fsNext>>
    PROVE  FsInv'
<1> DEFINE j == fsJob[w]
           ok == j.of \in j.ledger.trash /\ Fs!InSystemTrash(j.of)
           l == Fs!Forget(j.ledger, j.of)
<1>1. j.op # "Trash" /\ UNCHANGED <<fsDirs, fsPrepared, fsPurges>>
  BY DEF Fs!Restore
<1>2. CASE ok
  <2>1. fsBin' = [fsBin EXCEPT ![j.of] = "restored"] /\ Fs!Works(w, l) /\ j.of \in j.ledger.trash
    BY <1>2 DEF Fs!Restore
  <2>2. LedgerShape(j.ledger) /\ j.ledger.purge \subseteq fsPrepared
        /\ (~fsExcused => Agrees(j.ledger, fsBin, fsDirs))
    BY <1>1, FsWorking
  <2>3. /\ LedgerShape(l) /\ l.purge \subseteq j.ledger.purge
        /\ Agrees(j.ledger, fsBin, fsDirs) => Agrees(l, fsBin', fsDirs)
        /\ DOMAIN fsBin' = Fs!Requests
    BY <2>1, <2>2, FsForget
  <2> HIDE DEF l
  <2>5. Fs!PurgeWasPrepared'
    BY <1>1, FsPurgesKept DEF FsInv
  <2>6. FsResult(l)
    BY <1>1, <2>2, <2>3, <2>5 DEF FsResult
  <2> QED  BY <1>1, <2>1, <2>6, FsWorks
<1>3. CASE ~ok
  <2>1. Fs!Fails(w, FALSE) /\ UNCHANGED fsBin
    BY <1>3 DEF Fs!Restore
  <2> QED  BY <1>1, <2>1, FsWorkFails
<1> QED  BY <1>2, <1>3

\* A purge that was confirmed had been prepared.
LEMMA FsPurgeConfirmWork ==
    ASSUME FsInv, NEW w \in FsWorkers, fsJob[w].at = "work", Fs!PurgeConfirm(w),
           UNCHANGED <<fsLedger, fsDest, fsLost, fsClock, fsNext>>
    PROVE  FsInv'
<1> DEFINE j == fsJob[w]
           ok == Fs!Confirmed(j) /\ j.of \in j.ledger.trash /\ Fs!InSystemTrash(j.of)
           l == Fs!Forget(j.ledger, j.of)
           new == [id |-> j.of, token |-> j.token, at |-> fsClock]
<1>1. j.op # "Trash" /\ UNCHANGED <<fsDirs, fsPrepared>>
  BY DEF Fs!PurgeConfirm
<1>2. CASE ok
  <2>1. fsBin' = [fsBin EXCEPT ![j.of] = "purged"] /\ Fs!Works(w, l) /\ j.of \in j.ledger.trash
        /\ fsPurges' = fsPurges \cup {new}
    BY <1>2 DEF Fs!PurgeConfirm
  <2>2. LedgerShape(j.ledger) /\ j.ledger.purge \subseteq fsPrepared
        /\ (~fsExcused => Agrees(j.ledger, fsBin, fsDirs))
    BY <1>1, FsWorking
  <2>3. /\ LedgerShape(l) /\ l.purge \subseteq j.ledger.purge
        /\ Agrees(j.ledger, fsBin, fsDirs) => Agrees(l, fsBin', fsDirs)
        /\ DOMAIN fsBin' = Fs!Requests
    BY <2>1, <2>2, FsForget
  <2>4. PICK q \in j.ledger.purge : q.id = j.of /\ q.token = j.token /\ fsClock <= q.until
    BY <1>2 DEF Fs!Confirmed, Fs!Confirms
  <2> HIDE DEF l
  <2>5. Fs!PurgeWasPrepared'
    <3>1. q \in fsPrepared /\ new.id = q.id /\ new.token = q.token /\ new.at <= q.until
      BY <2>2, <2>4
    <3> HIDE DEF new
    <3> QED  BY <1>1, <2>1, <3>1 DEF FsInv, FsBase, Fs!PurgeWasPrepared
  <2>6. FsResult(l)
    BY <1>1, <2>2, <2>3, <2>5 DEF FsResult
  <2> QED  BY <1>1, <2>1, <2>6, FsWorks
<1>3. CASE ~ok
  <2>1. Fs!Fails(w, FALSE) /\ UNCHANGED <<fsBin, fsPurges>>
    BY <1>3 DEF Fs!PurgeConfirm
  <2> QED  BY <1>1, <2>1, FsWorkFails
<1> QED  BY <1>2, <1>3

\* A confirmation that is put into a copy has been issued.
LEMMA FsPurgePrepareWork ==
    ASSUME FsInv, NEW w \in FsWorkers, fsJob[w].at = "work", Fs!PurgePrepare(w),
           UNCHANGED <<fsLedger, fsDest, fsLost, fsClock, fsNext>>
    PROVE  FsInv'
<1> DEFINE j == fsJob[w]
           pending == [id |-> j.of, token |-> j.id, until |-> fsClock + Fs!PurgeTtl]
           l == [j.ledger EXCEPT !.purge = {p \in @ : p.id # j.of} \cup {pending}]
<1>1. j.op # "Trash" /\ UNCHANGED <<fsBin, fsDirs, fsPurges>>
  BY DEF Fs!PurgePrepare
<1>2. CASE j.of \in j.ledger.trash
  <2>1. fsPrepared' = fsPrepared \cup {pending} /\ Fs!Works(w, l)
    BY <1>2 DEF Fs!PurgePrepare
  <2>2. LedgerShape(j.ledger) /\ j.ledger.purge \subseteq fsPrepared
        /\ (~fsExcused => Agrees(j.ledger, fsBin, fsDirs))
    BY <1>1, FsWorking
  <2>7. pending.id = j.of
    OBVIOUS
  <2> HIDE DEF pending
  <2>3. /\ LedgerShape(l) /\ l.temp = j.ledger.temp /\ l.trash = j.ledger.trash
        /\ l.purge = {p \in j.ledger.purge : p.id # j.of} \cup {pending}
    BY <2>2 DEF LedgerShape
  <2> HIDE DEF l
  <2>4. ~fsExcused => Agrees(l, fsBin, fsDirs)
    BY <1>2, <2>2, <2>3, <2>7 DEF Agrees, Fs!TempIds
  <2>5. Fs!PurgeWasPrepared'
    BY <1>1, <2>1, FsPurgesKept DEF FsInv
  <2>6. FsResult(l)
    BY <1>1, <2>1, <2>2, <2>3, <2>4, <2>5 DEF FsResult, FsInv, FsBase
  <2> QED  BY <1>1, <2>1, <2>6, FsWorks
<1>3. CASE j.of \notin j.ledger.trash
  <2>1. Fs!Fails(w, FALSE) /\ UNCHANGED fsPrepared
    BY <1>3 DEF Fs!PurgePrepare
  <2> QED  BY <1>1, <2>1, FsWorkFails
<1> QED  BY <1>2, <1>3

\* A resource is recorded with its directory.
LEMMA FsTempCreateWork ==
    ASSUME FsInv, NEW w \in FsWorkers, fsJob[w].at = "work", Fs!TempCreate(w),
           UNCHANGED <<fsLedger, fsDest, fsLost, fsClock, fsNext>>
    PROVE  FsInv'
<1> DEFINE j == fsJob[w]
           e == [id |-> j.id, until |-> fsClock + 1]
           l == [j.ledger EXCEPT !.temp = @ \cup {e}]
<1>1. j.op # "Trash" /\ Fs!Works(w, l) /\ fsDirs' = fsDirs \cup {j.id}
      /\ UNCHANGED <<fsBin, fsPrepared, fsPurges>>
  BY DEF Fs!TempCreate
<1>2. LedgerShape(j.ledger) /\ j.ledger.purge \subseteq fsPrepared
      /\ (~fsExcused => Agrees(j.ledger, fsBin, fsDirs))
  BY <1>1, FsWorking
<1>3. e.id = j.id
  OBVIOUS
<1> HIDE DEF e
<1>4. /\ LedgerShape(l) /\ l.purge = j.ledger.purge /\ l.trash = j.ledger.trash
      /\ l.temp = j.ledger.temp \cup {e}
  BY <1>2 DEF LedgerShape
<1> HIDE DEF l
<1>7. Fs!TempIds(l) = Fs!TempIds(j.ledger) \cup {j.id}
  BY <1>3, <1>4 DEF Fs!TempIds
<1>8. ~fsExcused => Agrees(l, fsBin, fsDirs')
  BY <1>1, <1>2, <1>4, <1>7 DEF Agrees
<1>5. Fs!PurgeWasPrepared'
  BY <1>1, FsPurgesKept DEF FsInv
<1>6. FsResult(l)
  BY <1>1, <1>2, <1>4, <1>8, <1>5 DEF FsResult, FsInv, FsBase
<1> QED  BY <1>1, <1>6, FsWorks

\* Records are dropped with their directories.
LEMMA FsDrop ==
    ASSUME NEW l, LedgerShape(l), NEW ids
    PROVE  /\ LedgerShape(Fs!Drop(l, ids)) /\ Fs!Drop(l, ids).purge = l.purge
           /\ \A b, d : Agrees(l, b, d) => Agrees(Fs!Drop(l, ids), b, d \ ids)
<1> DEFINE f == Fs!Drop(l, ids)
<1>1. LedgerShape(f) /\ f.purge = l.purge /\ f.trash = l.trash /\ f.temp = {r \in l.temp : r.id \notin ids}
  BY DEF Fs!Drop, LedgerShape
<1> HIDE DEF f
<1>2. Fs!TempIds(f) = Fs!TempIds(l) \ ids
  BY <1>1 DEF Fs!TempIds
<1>3. \A b, d : Agrees(l, b, d) => Agrees(f, b, d \ ids)
  BY <1>1, <1>2 DEF Agrees
<1> QED  BY <1>1, <1>3 DEF f

\* A release and the collection of what has expired.
LEMMA FsTempDropWork ==
    ASSUME FsInv, NEW w \in FsWorkers, fsJob[w].at = "work", fsJob[w].op # "Trash", NEW ids,
           Fs!Works(w, Fs!Drop(fsJob[w].ledger, ids)), fsDirs' = fsDirs \ ids,
           UNCHANGED <<fsBin, fsPrepared, fsPurges>>,
           UNCHANGED <<fsLedger, fsDest, fsLost, fsClock, fsNext>>
    PROVE  FsInv'
<1> DEFINE j == fsJob[w]
           l == Fs!Drop(j.ledger, ids)
<1>2. LedgerShape(j.ledger) /\ j.ledger.purge \subseteq fsPrepared
      /\ (~fsExcused => Agrees(j.ledger, fsBin, fsDirs))
  BY FsWorking
<1>3. LedgerShape(l) /\ l.purge = j.ledger.purge
      /\ (Agrees(j.ledger, fsBin, fsDirs) => Agrees(l, fsBin, fsDirs \ ids))
  BY <1>2, FsDrop
<1>1. Fs!Works(w, l)
  OBVIOUS
<1> HIDE DEF l
<1>5. Fs!PurgeWasPrepared'
  BY FsPurgesKept DEF FsInv
<1>6. FsResult(l)
  BY <1>2, <1>3, <1>5 DEF FsResult, FsInv, FsBase
<1> QED  BY <1>1, <1>6, FsWorks

\* temp_release, in the middle of a request.
LEMMA FsTempReleaseWork ==
    ASSUME FsInv, NEW w \in FsWorkers, fsJob[w].at = "work", Fs!TempRelease(w),
           UNCHANGED <<fsLedger, fsDest, fsLost, fsClock, fsNext>>
    PROVE  FsInv'
<1> DEFINE j == fsJob[w]
<1>1. j.op # "Trash" /\ UNCHANGED <<fsBin, fsPrepared, fsPurges>>
  BY DEF Fs!TempRelease
<1>2. CASE j.of \in Fs!TempIds(j.ledger)
  <2>1. fsDirs' = fsDirs \ {j.of} /\ Fs!Works(w, Fs!Drop(j.ledger, {j.of}))
    BY <1>2 DEF Fs!TempRelease
  <2> QED  BY <1>1, <2>1, FsTempDropWork
<1>3. CASE j.of \notin Fs!TempIds(j.ledger)
  <2>1. Fs!Fails(w, FALSE) /\ UNCHANGED fsDirs
    BY <1>3 DEF Fs!TempRelease
  <2> QED  BY <1>1, <2>1, FsWorkFails
<1> QED  BY <1>2, <1>3

\* temp_gc, in the middle of a request.
LEMMA FsTempGcWork ==
    ASSUME FsInv, NEW w \in FsWorkers, fsJob[w].at = "work", Fs!TempGc(w),
           UNCHANGED <<fsLedger, fsDest, fsLost, fsClock, fsNext>>
    PROVE  FsInv'
<1> DEFINE j == fsJob[w]
           expired == {r.id : r \in {r \in j.ledger.temp : r.until <= fsClock}}
<1>1. /\ j.op # "Trash" /\ UNCHANGED <<fsBin, fsPrepared, fsPurges>>
      /\ fsDirs' = fsDirs \ expired /\ Fs!Works(w, Fs!Drop(j.ledger, expired))
  BY DEF Fs!TempGc
<1> HIDE DEF expired
<1> QED  BY <1>1, FsTempDropWork

\* A step of the whole system keeps the invariant.
LEMMA FsInvStep == FsInv /\ [Next]_vars => FsInv'
<1> SUFFICES ASSUME FsInv, [Next]_vars PROVE FsInv'
  OBVIOUS
<1>1. Fs!FsNext \/ UNCHANGED fsVars
  BY DEF Next, vars, ManagedFsStep, TcpForwardStep, SitePathStep, MachineServiceStep,
     SingleInstanceStep, SiteKitStep, FsQueryStep, InnerSessionStep, ControllerWindowStep,
     LocalCallsStep
<1>2. CASE UNCHANGED fsVars
  BY <1>2 DEF fsVars, FsInv, FsBase, FsMirror, Fs!PurgeWasPrepared
<1>3. CASE Fs!FsTick
  BY <1>3 DEF Fs!FsTick, FsInv, FsBase, FsMirror, Fs!PurgeWasPrepared
<1>4. CASE Fs!FsCrash
  <2>1. FsJobOK(Fs!NoJob, fsPrepared)
    BY DEF FsJobOK, LedgerShape, Fs!NoJob, Fs!NoLedger
  <2> QED  BY <1>4, <2>1 DEF Fs!FsCrash, FsInv, FsBase, FsMirror, Fs!PurgeWasPrepared
<1>5. CASE \E w \in FsWorkers : Fs!Work(w)
  <2>1. PICK w \in FsWorkers : Fs!Work(w)
    BY <1>5
  <2>2. fsJob[w].at = "work" /\ UNCHANGED <<fsLedger, fsDest, fsLost, fsClock, fsNext>>
    BY <2>1 DEF Fs!Work
  <2>3. \/ Fs!Insert(w) \/ Fs!List(w) \/ Fs!Restore(w) \/ Fs!PurgePrepare(w) \/ Fs!PurgeConfirm(w)
        \/ Fs!TempCreate(w) \/ Fs!TempRelease(w) \/ Fs!TempGc(w)
    BY <2>1 DEF Fs!Work
  <2> QED
    BY <2>2, <2>3, FsInsertWork, FsListWork, FsRestoreWork, FsPurgePrepareWork, FsPurgeConfirmWork,
       FsTempCreateWork, FsTempReleaseWork, FsTempGcWork
<1>6. CASE \E w \in FsWorkers :
             \/ \E op \in Fs!Fresh : Fs!Accept(w, op, 0, 0)
             \/ \E op \in Fs!Naming, of \in Fs!Requests : Fs!Accept(w, op, of, 0)
             \/ \E of, token \in Fs!Requests : Fs!Accept(w, "TrashPurgeConfirm", of, token)
  BY <1>6, FsAccept
<1>7. CASE \E w \in FsWorkers :
             Fs!Probe(w) \/ Fs!Place(w) \/ Fs!Delete(w) \/ Fs!Load(w) \/ Fs!Save(w)
  BY <1>7, FsProbe, FsPlace, FsDelete, FsLoad, FsSave
<1> QED  BY <1>1, <1>2, <1>3, <1>4, <1>5, <1>6, <1>7 DEF Fs!FsNext

\* For any number of workers, requests and items: nothing is purged that was not
\* prepared, and requests that do not overlap and end well leave ledger and disk
\* in agreement and the destination as they made it.
THEOREM LedgerIsSafeThm == Spec => []LedgerIsSafe
<1>1. FsInv => LedgerIsSafe
  <2> SUFFICES ASSUME FsInv PROVE Fs!PurgeWasPrepared /\ Fs!LedgerMirrorsDisk
    BY DEF LedgerIsSafe
  <2>1. Fs!PurgeWasPrepared
    BY DEF FsInv, FsBase
  <2>2. ASSUME ~fsExcused, \A w \in FsWorkers : fsJob[w] = Fs!NoJob
        PROVE  Agrees(fsLedger, fsBin, fsDirs) /\ fsLost = {}
    <3>0. Fs!NoJob.at = "idle"
      BY DEF Fs!NoJob
    <3>1. \A w \in FsWorkers : fsJob[w].at = "idle"
      BY <2>2, <3>0
    <3> QED  BY <2>2, <3>1 DEF FsInv, FsMirror
  <2>3. Fs!LedgerMirrorsDisk
    BY <2>2 DEF Fs!LedgerMirrorsDisk, Agrees, Binned
  <2> QED  BY <2>1, <2>3
<1> QED  BY <1>1, FsInvInit, FsInvStep, PTL DEF Spec

-----------------------------------------------------------------------------
(* TCP forwards.                                                           *)

\* The positions that follow n, in order.
IsRun(s, n) == s \in Seq(Nat) /\ \A i \in 1 .. Len(s) : s[i] = n + i

\* A run is a sequence.
LEMMA RunLen == ASSUME NEW s, NEW n, IsRun(s, n) PROVE s \in Seq(Nat) /\ Len(s) \in Nat
BY DEF IsRun

\* Two runs in a row are one.
LEMMA RunConcat ==
    ASSUME NEW s, NEW t, NEW n \in Nat, IsRun(s, n), IsRun(t, n + Len(s))
    PROVE  IsRun(s \o t, n) /\ Len(s \o t) = Len(s) + Len(t)
BY DEF IsRun

\* A run is cut into two.
LEMMA RunCut ==
    ASSUME NEW s, NEW n \in Nat, IsRun(s, n), NEW k \in 0 .. Len(s)
    PROVE  /\ IsRun(SubSeq(s, 1, k), n) /\ Len(SubSeq(s, 1, k)) = k
           /\ IsRun(SubSeq(s, k + 1, Len(s)), n + k) /\ Len(SubSeq(s, k + 1, Len(s))) = Len(s) - k
BY SMTT(30) DEF IsRun

\* The empty run.
LEMMA RunEmpty == ASSUME NEW n \in Nat PROVE IsRun(<<>>, n)
BY DEF IsRun

\* The empty run and the run of one position.
LEMMA RunSmall ==
    ASSUME NEW n \in Nat
    PROVE  /\ IsRun(<<>>, n) /\ Len(<<>>) = 0
           /\ IsRun(<<n + 1>>, n) /\ Len(<<n + 1>>) = 1
BY DEF IsRun

\* What has come through is the beginning of the stream, and the other way round.
LEMMA RunStream == ASSUME NEW s, IsRun(s, 0) PROVE s = Fw!Stream(Len(s))
BY DEF IsRun, Fw!Stream

\* The beginning of the stream is a run.
LEMMA StreamRun == ASSUME NEW k \in Nat PROVE IsRun(Fw!Stream(k), 0) /\ Len(Fw!Stream(k)) = k
BY DEF IsRun, Fw!Stream

FwAts == {"idle", "handshake", "open", "opening", "opened", "pump", "exchanging", "exchanged",
          "closing", "done"}
FwReady == {"idle", "handshake", "open", "opening", "opened", "pump"}
FwCommands == [conn : Conns, op : {"open", "exchange", "close"}, bytes : Seq(Nat), eof : BOOLEAN]

TaskOK(t, ports) ==
  /\ DOMAIN t = {"at", "port", "gen", "initial", "next", "eofSent", "reply", "read", "readEof"}
  /\ t.at \in FwAts
  /\ t.at # "idle" => t.port \in Listeners /\ ports[t.port].at \in {"on", "removed"}

\* What the task has not sent yet continues a destination that has n bytes.
Unsent(t, n) == IsRun(t.initial, n) /\ t.next = n + Len(t.initial) + 1 /\ t.next <= MaxBytes + 1

\* The bytes of a command continue the destination's.
Continues(x, sink) ==
  /\ IsRun(x.bytes, Len(sink.bytes)) /\ Len(sink.bytes) + Len(x.bytes) <= MaxBytes
  /\ x.eof => Len(sink.bytes) + Len(x.bytes) = MaxBytes

Carries(x, c, op) == x.conn = c /\ x.op = op

\* From the application to the destination: at most one exchange is on its way,
\* and what it carries comes next, whoever still waits for its answer.
Outgoing(c, t, sink, q) ==
  /\ DOMAIN sink = {"bytes", "eof"}
  /\ IsRun(sink.bytes, 0) /\ (sink.eof => Len(sink.bytes) = MaxBytes)
  /\ t.at \in {"idle", "handshake"} => Len(sink.bytes) = 0
  /\ t.at \in FwReady \/ (t.at = "exchanged" /\ t.reply = "Exchanged") => Unsent(t, Len(sink.bytes))
  /\ \A i \in 1 .. Len(q) : Carries(q[i], c, "exchange") =>
       /\ t.at \in {"exchanging", "closing", "done"}
       /\ Continues(q[i], sink)
       /\ t.at = "exchanging" => Unsent(t, Len(sink.bytes) + Len(q[i].bytes))
  /\ \A i, j \in 1 .. Len(q) : Carries(q[i], c, "exchange") /\ Carries(q[j], c, "exchange") => i = j

\* From the destination to the application: what the Host has read is delivered
\* or on its way.
Incoming(t, got, read) ==
  /\ DOMAIN got = {"bytes", "eof"}
  /\ IsRun(got.bytes, 0) /\ (got.eof => Len(got.bytes) = MaxBytes)
  /\ read \in 0 .. MaxBytes
  /\ t.at \in FwReady \cup {"exchanging"} => Len(got.bytes) = read
  /\ t.at = "exchanged" /\ t.reply = "Exchanged" =>
       /\ IsRun(t.read, Len(got.bytes)) /\ Len(got.bytes) + Len(t.read) = read
       /\ t.readEof => read = MaxBytes

InClosing(c, q) == \E i \in 1 .. Len(q) : Carries(q[i], c, "close")
Excused(c, t, ports, gone) ==
  ports[t.port].at = "removed" \/ (c \in gone /\ ports[t.port].kind # "forward")

\* The Host has a connection only of a task of this session that was told so,
\* or is about to be told, or whose Close is on its way, or that had an excuse.
Owned(c, t, q, host, ports, gone, gen, up) ==
  /\ c \in host => up
  /\ t.at \in {"idle", "handshake", "open", "opening"} => c \notin host
  /\ t.at = "opening" => up /\ t.gen = gen
  /\ t.at = "opened" /\ t.reply # "Opened" => c \notin host
  /\ c \in host /\ t.at \notin {"closing", "done"} => t.gen = gen
  /\ t.at = "closing" => InClosing(c, q)
  /\ c \in host /\ t.at = "done" => InClosing(c, q) \/ Excused(c, t, ports, gone)
  /\ \A i \in 1 .. Len(q) : Carries(q[i], c, "open") =>
       t.at = "opening" \/ (t.at = "done" /\ ports[t.port].at = "removed")
  /\ \A i, j \in 1 .. Len(q) : Carries(q[i], c, "open") /\ Carries(q[j], c, "open") => i = j

FwConn(c) ==
  /\ TaskOK(fwTask[c], fwPort)
  /\ Outgoing(c, fwTask[c], fwSink[c], fwQueue)
  /\ Incoming(fwTask[c], fwGot[c], fwRead[c])
  /\ Owned(c, fwTask[c], fwQueue, fwHost, fwPort, fwGone, fwGen, fwUp)

FwTyped ==
  /\ DOMAIN fwTask = Conns /\ DOMAIN fwSink = Conns /\ DOMAIN fwGot = Conns /\ DOMAIN fwRead = Conns
  /\ DOMAIN fwPort = Listeners
  /\ fwQueue \in Seq(FwCommands) /\ fwHost \subseteq Conns

FwInv == FwTyped /\ \A c \in Conns : FwConn(c)

\* Nothing is connected at first.
LEMMA FwInvInit == Init => FwInv
<1> SUFFICES ASSUME Init PROVE FwInv
  OBVIOUS
<1>1. Fw!FwInit
  BY DEF Init
<1>2. FwTyped
  BY <1>1 DEF Fw!FwInit, FwTyped
<1>3. ASSUME NEW c \in Conns PROVE FwConn(c)
  <2>1. /\ fwTask[c] = Fw!NoTask /\ fwSink[c] = Fw!NoEnd /\ fwGot[c] = Fw!NoEnd /\ fwRead[c] = 0
        /\ fwQueue = <<>> /\ fwHost = {}
    BY <1>1 DEF Fw!FwInit
  <2>2. Fw!NoTask.at = "idle" /\ Fw!NoTask.initial = <<>> /\ Fw!NoTask.next = 1
        /\ DOMAIN Fw!NoTask = {"at", "port", "gen", "initial", "next", "eofSent", "reply", "read", "readEof"}
    BY DEF Fw!NoTask
  <2>3. Fw!NoEnd.bytes = <<>> /\ Fw!NoEnd.eof = FALSE /\ DOMAIN Fw!NoEnd = {"bytes", "eof"}
    BY DEF Fw!NoEnd
  <2>4. IsRun(<<>>, 0) /\ Len(<<>>) = 0 /\ Len(fwQueue) = 0
    BY <2>1, RunSmall
  <2>5. TaskOK(fwTask[c], fwPort)
    BY <2>1, <2>2 DEF TaskOK, FwAts
  <2>6. Unsent(Fw!NoTask, 0)
    BY <2>2, <2>4, FleetAssumption DEF Unsent
  <2>7. Outgoing(c, fwTask[c], fwSink[c], fwQueue)
    BY <2>1, <2>2, <2>3, <2>4, <2>6 DEF Outgoing, FwReady
  <2>8. Incoming(fwTask[c], fwGot[c], fwRead[c])
    BY <2>1, <2>2, <2>3, <2>4, FleetAssumption DEF Incoming, FwReady
  <2>9. Owned(c, fwTask[c], fwQueue, fwHost, fwPort, fwGone, fwGen, fwUp)
    BY <2>1, <2>2, <2>4 DEF Owned
  <2> QED  BY <2>5, <2>7, <2>8, <2>9 DEF FwConn
<1> QED  BY <1>2, <1>3 DEF FwInv

\* How the queue changes in a step of one connection.
FwQueueStep(c) ==
  \/ UNCHANGED fwQueue
  \/ \E x \in FwCommands : x.conn = c /\ fwQueue' = Append(fwQueue, x)
  \/ fwQueue # <<>> /\ fwQueue[1].conn = c /\ fwQueue' = Tail(fwQueue)

FwOnly(c) ==
  /\ DOMAIN fwTask' = Conns /\ DOMAIN fwSink' = Conns /\ DOMAIN fwGot' = Conns /\ DOMAIN fwRead' = Conns
  /\ \A d \in Conns : d # c =>
       /\ fwTask'[d] = fwTask[d] /\ fwSink'[d] = fwSink[d] /\ fwGot'[d] = fwGot[d]
       /\ fwRead'[d] = fwRead[d] /\ (d \in fwHost' <=> d \in fwHost)
  /\ UNCHANGED <<fwPort, fwGone, fwGen, fwUp>>
  /\ fwHost' \subseteq fwHost \cup {c}
  /\ FwQueueStep(c)

\* The queue with one command more, and with the first one served.
LEMMA QueueMore ==
    ASSUME NEW q \in Seq(FwCommands), NEW x \in FwCommands
    PROVE  /\ Append(q, x) \in Seq(FwCommands) /\ Len(Append(q, x)) = Len(q) + 1
           /\ \A i \in 1 .. Len(q) : Append(q, x)[i] = q[i]
           /\ Append(q, x)[Len(q) + 1] = x
OBVIOUS

\* The queue with its first command served.
LEMMA QueueLess ==
    ASSUME NEW q \in Seq(FwCommands), q # <<>>
    PROVE  /\ Tail(q) \in Seq(FwCommands) /\ Len(Tail(q)) = Len(q) - 1 /\ Len(q) > 0
           /\ \A i \in 1 .. Len(Tail(q)) : Tail(q)[i] = q[i + 1]
OBVIOUS

\* A connection does not notice the commands of another.
LEMMA OtherQueue ==
    ASSUME FwTyped, NEW c, NEW d, d # c, FwQueueStep(c)
    PROVE  /\ fwQueue' \in Seq(FwCommands)
           /\ \A t, sink : Outgoing(d, t, sink, fwQueue) => Outgoing(d, t, sink, fwQueue')
           /\ \A t, host, ports, gone, gen, up :
                Owned(d, t, fwQueue, host, ports, gone, gen, up) =>
                Owned(d, t, fwQueue', host, ports, gone, gen, up)
<1>0. fwQueue \in Seq(FwCommands) /\ Len(fwQueue) \in Nat
  BY DEF FwTyped
<1>1. CASE UNCHANGED fwQueue
  BY <1>0, <1>1
<1>2. CASE \E x \in FwCommands : x.conn = c /\ fwQueue' = Append(fwQueue, x)
  <2>1. PICK x \in FwCommands : x.conn = c /\ fwQueue' = Append(fwQueue, x)
    BY <1>2
  <2>2. /\ fwQueue' \in Seq(FwCommands) /\ Len(fwQueue') = Len(fwQueue) + 1
        /\ \A i \in 1 .. Len(fwQueue) : fwQueue'[i] = fwQueue[i]
        /\ fwQueue'[Len(fwQueue) + 1] = x
    BY <1>0, <2>1, QueueMore
  <2>3. \A i \in 1 .. Len(fwQueue') : fwQueue'[i].conn = d => i \in 1 .. Len(fwQueue) /\ fwQueue'[i] = fwQueue[i]
    BY <1>0, <2>1, <2>2
  <2>4. \A t, sink : Outgoing(d, t, sink, fwQueue) => Outgoing(d, t, sink, fwQueue')
    BY ZenonT(60), <1>0, <2>2, <2>3 DEF Outgoing, Carries
  <2>5. InClosing(d, fwQueue) => InClosing(d, fwQueue')
    BY <1>0, <2>2 DEF InClosing
  <2>6. \A t, host, ports, gone, gen, up :
                Owned(d, t, fwQueue, host, ports, gone, gen, up) =>
                Owned(d, t, fwQueue', host, ports, gone, gen, up)
    BY <1>0, <2>2, <2>3, <2>5 DEF Owned, Carries
  <2> QED  BY <2>2, <2>4, <2>6
<1>3. CASE fwQueue # <<>> /\ fwQueue[1].conn = c /\ fwQueue' = Tail(fwQueue)
  <2>2. /\ fwQueue' \in Seq(FwCommands) /\ Len(fwQueue') = Len(fwQueue) - 1 /\ Len(fwQueue) > 0
        /\ \A i \in 1 .. Len(fwQueue') : fwQueue'[i] = fwQueue[i + 1]
    BY <1>0, <1>3, QueueLess
  <2>3. /\ \A i \in 1 .. Len(fwQueue') : i + 1 \in 1 .. Len(fwQueue) /\ fwQueue'[i] = fwQueue[i + 1]
        /\ \A i \in 1 .. Len(fwQueue) : fwQueue[i].conn = d =>
             i - 1 \in 1 .. Len(fwQueue') /\ fwQueue'[i - 1] = fwQueue[i]
    BY <1>0, <1>3, <2>2
  <2>4. \A t, sink : Outgoing(d, t, sink, fwQueue) => Outgoing(d, t, sink, fwQueue')
    <3> SUFFICES ASSUME NEW t, NEW sink, Outgoing(d, t, sink, fwQueue)
                 PROVE  Outgoing(d, t, sink, fwQueue')
      OBVIOUS
    <3>1. \A i \in 1 .. Len(fwQueue') : Carries(fwQueue'[i], d, "exchange") =>
            i + 1 \in 1 .. Len(fwQueue) /\ Carries(fwQueue[i + 1], d, "exchange")
      BY <2>3 DEF Carries
    <3>2. \A i \in 1 .. Len(fwQueue') : Carries(fwQueue'[i], d, "exchange") =>
            /\ t.at \in {"exchanging", "closing", "done"}
            /\ Continues(fwQueue'[i], sink)
            /\ t.at = "exchanging" => Unsent(t, Len(sink.bytes) + Len(fwQueue'[i].bytes))
      BY <2>3, <3>1 DEF Outgoing
    <3>3. ASSUME NEW i \in 1 .. Len(fwQueue'), NEW j \in 1 .. Len(fwQueue'),
                 Carries(fwQueue'[i], d, "exchange"), Carries(fwQueue'[j], d, "exchange")
          PROVE  i = j
      <4>1. i + 1 = j + 1
        BY <3>1, <3>3 DEF Outgoing
      <4> QED  BY <4>1, <2>2, <1>0
    <3> QED  BY <3>2, <3>3 DEF Outgoing
  <2>5. InClosing(d, fwQueue) => InClosing(d, fwQueue')
    BY SMTT(30), <1>0, <2>2, <2>3 DEF InClosing, Carries
  <2>6. \A t, host, ports, gone, gen, up :
                Owned(d, t, fwQueue, host, ports, gone, gen, up) =>
                Owned(d, t, fwQueue', host, ports, gone, gen, up)
    BY SMTT(30), <1>0, <2>2, <2>3, <2>5 DEF Owned, Carries
  <2> QED  BY <2>2, <2>4, <2>6
<1> QED  BY <1>1, <1>2, <1>3 DEF FwQueueStep

\* A step of one connection.
LEMMA FwStep ==
    ASSUME FwInv, NEW c \in Conns, FwOnly(c), FwConn(c)'
    PROVE  FwInv'
<1>1. FwTyped
  BY DEF FwInv
<1>2. FwTyped'
  <2>1. fwQueue' \in Seq(FwCommands)
    BY ZenonT(40), <1>1, QueueMore, QueueLess DEF FwTyped, FwOnly, FwQueueStep
  <2> QED  BY <1>1, <2>1 DEF FwTyped, FwOnly
<1>3. ASSUME NEW d \in Conns, d # c PROVE FwConn(d)'
  <2>1. FwConn(d)
    BY DEF FwInv
  <2>2. /\ fwTask'[d] = fwTask[d] /\ fwSink'[d] = fwSink[d] /\ fwGot'[d] = fwGot[d]
        /\ fwRead'[d] = fwRead[d] /\ (d \in fwHost' <=> d \in fwHost)
        /\ UNCHANGED <<fwPort, fwGone, fwGen, fwUp>> /\ FwQueueStep(c)
    BY <1>3 DEF FwOnly
  <2>3. Outgoing(d, fwTask'[d], fwSink'[d], fwQueue')
    BY <1>1, <1>3, <2>1, <2>2, OtherQueue DEF FwConn
  <2>4. Owned(d, fwTask'[d], fwQueue', fwHost, fwPort', fwGone', fwGen', fwUp')
    BY <1>1, <1>3, <2>1, <2>2, OtherQueue DEF FwConn
  <2>5. Owned(d, fwTask'[d], fwQueue', fwHost', fwPort', fwGone', fwGen', fwUp')
    BY <2>2, <2>4 DEF Owned
  <2>6. TaskOK(fwTask'[d], fwPort') /\ Incoming(fwTask'[d], fwGot'[d], fwRead'[d])
    BY <2>1, <2>2 DEF FwConn
  <2> QED  BY <2>3, <2>5, <2>6 DEF FwConn
<1> QED  BY <1>2, <1>3 DEF FwInv

FwLocal(c, n) ==
  /\ fwTask' = [fwTask EXCEPT ![c] = n]
  /\ UNCHANGED <<fwPort, fwGone, fwSink, fwHost, fwRead, fwGen, fwUp>>

\* What a task without a command of its own in the queue may do: it becomes n.
LEMMA FwQuiet ==
    ASSUME FwInv, NEW c \in Conns, NEW n, FwLocal(c, n), UNCHANGED <<fwGot, fwQueue>>,
           TaskOK(n, fwPort), Outgoing(c, n, fwSink[c], fwQueue),
           Incoming(n, fwGot[c], fwRead[c]),
           Owned(c, n, fwQueue, fwHost, fwPort, fwGone, fwGen, fwUp)
    PROVE  FwInv'
<1>1. fwTask'[c] = n /\ DOMAIN fwTask' = Conns /\ \A d \in Conns : d # c => fwTask'[d] = fwTask[d]
  BY DEF FwInv, FwTyped, FwLocal
<1>2. FwOnly(c)
  BY <1>1 DEF FwInv, FwTyped, FwLocal, FwOnly, FwQueueStep
<1>3. FwConn(c)'
  BY <1>1 DEF FwConn, FwLocal
<1> QED  BY <1>2, <1>3, FwStep

\* A task sends one more command and becomes n; an application may receive.
LEMMA FwSends ==
    ASSUME FwInv, NEW c \in Conns, NEW n, FwLocal(c, n), NEW x \in FwCommands, x.conn = c,
           fwQueue' = Append(fwQueue, x),
           DOMAIN fwGot' = Conns, \A d \in Conns : d # c => fwGot'[d] = fwGot[d],
           TaskOK(n, fwPort), Outgoing(c, n, fwSink[c], fwQueue'),
           Incoming(n, fwGot'[c], fwRead[c]),
           Owned(c, n, fwQueue', fwHost, fwPort, fwGone, fwGen, fwUp)
    PROVE  FwInv'
<1>1. fwTask'[c] = n /\ DOMAIN fwTask' = Conns /\ \A d \in Conns : d # c => fwTask'[d] = fwTask[d]
  BY DEF FwInv, FwTyped, FwLocal
<1>2. FwOnly(c)
  BY <1>1 DEF FwInv, FwTyped, FwLocal, FwOnly, FwQueueStep
<1>3. FwConn(c)'
  BY <1>1 DEF FwConn, FwLocal
<1> QED  BY <1>2, <1>3, FwStep

Gone(p) == [Fw!NoTask EXCEPT !.at = "done", !.port = p]

\* The fields of a task that has ended.
LEMMA GoneFields ==
    ASSUME NEW p
    PROVE  Gone(p).at = "done" /\ Gone(p).port = p
           /\ DOMAIN Gone(p) = {"at", "port", "gen", "initial", "next", "eofSent", "reply", "read", "readEof"}
BY DEF Gone, Fw!NoTask

FwTaskOnly(c) == UNCHANGED <<fwPort, fwGone, fwSink, fwHost, fwRead, fwGen, fwUp>>

\* A received stream that may have grown.
GotOK(c) ==
  /\ DOMAIN fwGot' = Conns /\ \A d \in Conns : d # c => fwGot'[d] = fwGot[d]
  /\ DOMAIN fwGot'[c] = {"bytes", "eof"}
  /\ IsRun(fwGot'[c].bytes, 0) /\ (fwGot'[c].eof => Len(fwGot'[c].bytes) = MaxBytes)

\* A task ends without a Close: the Host has nothing of it, or there is an excuse.
LEMMA FwEnds ==
    ASSUME FwInv, NEW c \in Conns, fwTask' = Fw!Ended(c), FwTaskOnly(c), UNCHANGED fwQueue, GotOK(c),
           fwTask[c].at # "idle",
           c \notin fwHost \/ Excused(c, fwTask[c], fwPort, fwGone),
           fwTask[c].at # "opening" \/ fwPort[fwTask[c].port].at = "removed"
    PROVE  FwInv'
<1> DEFINE n == Gone(fwTask[c].port)
<1>0. FwConn(c) /\ FwTyped
  BY DEF FwInv
<1>1. n.at = "done" /\ n.port = fwTask[c].port
      /\ DOMAIN n = {"at", "port", "gen", "initial", "next", "eofSent", "reply", "read", "readEof"}
  BY GoneFields
<1>2. fwTask' = [fwTask EXCEPT ![c] = n]
  BY DEF Fw!Ended, Gone
<1> HIDE DEF n
<1>3. fwTask'[c] = n /\ DOMAIN fwTask' = Conns /\ \A d \in Conns : d # c => fwTask'[d] = fwTask[d]
  BY <1>0, <1>2 DEF FwTyped
<1>4. FwOnly(c)
  BY <1>0, <1>3 DEF FwTyped, FwTaskOnly, FwOnly, FwQueueStep, GotOK
<1>5. TaskOK(n, fwPort)
  BY <1>0, <1>1 DEF FwConn, TaskOK, FwAts
<1>6. Outgoing(c, n, fwSink[c], fwQueue)
  BY <1>0, <1>1 DEF FwConn, Outgoing, FwReady
<1>7. Incoming(n, fwGot'[c], fwRead[c])
  BY <1>0, <1>1 DEF FwConn, Incoming, FwReady, GotOK
<1>8. Owned(c, n, fwQueue, fwHost, fwPort, fwGone, fwGen, fwUp)
  BY <1>0, <1>1 DEF FwConn, Owned, Excused
<1>9. FwConn(c)'
  BY <1>3, <1>5, <1>6, <1>7, <1>8 DEF FwConn, FwTaskOnly
<1> QED  BY <1>4, <1>9, FwStep

\* A listener takes a connection.
LEMMA FwServe ==
    ASSUME FwInv, NEW c \in Conns, NEW p \in Listeners, Fw!Serve(c, p)
    PROVE  FwInv'
<1>0. FwConn(c) /\ FwTyped
  BY DEF FwInv
<1> DEFINE a == CASE Fw!Cardinality(Fw!Alive(p)) >= FwCap -> "done"
                  [] fwPort[p].kind = "forward" -> "open"
                  [] OTHER -> "handshake"
<1>1. a \in {"done", "open", "handshake"} /\ fwTask' = [fwTask EXCEPT ![c].port = p, ![c].at = a]
  BY DEF Fw!Serve
<1> HIDE DEF a
<1> DEFINE n == [fwTask[c] EXCEPT !.port = p, !.at = a]
<1>2. fwTask' = [fwTask EXCEPT ![c] = n]
  BY <1>0, <1>1 DEF FwTyped
<1>3. fwTask[c].at = "idle" /\ fwPort[p].at = "on"
  BY DEF Fw!Serve
<1>4. /\ n.at = a /\ n.port = p /\ DOMAIN n = DOMAIN fwTask[c]
      /\ n.initial = fwTask[c].initial /\ n.next = fwTask[c].next
  BY <1>0 DEF FwConn, TaskOK
<1> HIDE DEF n
<1>5. TaskOK(n, fwPort)
  BY <1>0, <1>1, <1>3, <1>4 DEF FwConn, TaskOK, FwAts
<1>6. Outgoing(c, n, fwSink[c], fwQueue)
  BY <1>0, <1>1, <1>3, <1>4 DEF FwConn, Outgoing, FwReady, Unsent
<1>7. Incoming(n, fwGot[c], fwRead[c])
  BY <1>0, <1>1, <1>3, <1>4 DEF FwConn, Incoming, FwReady
<1>8. Owned(c, n, fwQueue, fwHost, fwPort, fwGone, fwGen, fwUp)
  BY <1>0, <1>1, <1>3, <1>4 DEF FwConn, Owned
<1>9. FwLocal(c, n) /\ UNCHANGED <<fwGot, fwQueue>>
  BY <1>2 DEF Fw!Serve, FwLocal, Fw!fwRemote
<1> QED  BY <1>5, <1>6, <1>7, <1>8, <1>9, FwQuiet

\* Before it is opened a connection is not the Host's.
LEMMA FwHandshakeEnds ==
    ASSUME FwInv, NEW c \in Conns, fwTask[c].at \in {"handshake", "open"}, fwTask' = Fw!Ended(c),
           FwTaskOnly(c), UNCHANGED <<fwGot, fwQueue>>
    PROVE  FwInv'
<1>0. FwConn(c) /\ FwTyped
  BY DEF FwInv
<1>1. GotOK(c)
  BY <1>0 DEF GotOK, FwTyped, FwConn, Incoming
<1>2. c \notin fwHost
  BY <1>0 DEF FwConn, Owned
<1> QED  BY <1>1, <1>2, FwEnds

\* The SOCKS5 handshake.
LEMMA FwSocks ==
    ASSUME FwInv, NEW c \in Conns, Fw!NegotiateSocks5(c)
    PROVE  FwInv'
<1>0. FwConn(c) /\ FwTyped
  BY DEF FwInv
<1>1. fwTask[c].at = "handshake" /\ FwTaskOnly(c) /\ UNCHANGED <<fwGot, fwQueue>>
  BY DEF Fw!NegotiateSocks5, FwTaskOnly, Fw!fwRemote
<1>2. CASE fwTask' = Fw!Ended(c)
  BY <1>1, <1>2, FwHandshakeEnds
<1>3. CASE fwTask' = [fwTask EXCEPT ![c].at = "open"]
  <2> DEFINE n == [fwTask[c] EXCEPT !.at = "open"]
  <2>1. fwTask' = [fwTask EXCEPT ![c] = n]
    BY <1>3
  <2>2. /\ n.at = "open" /\ n.port = fwTask[c].port /\ DOMAIN n = DOMAIN fwTask[c]
        /\ n.initial = fwTask[c].initial /\ n.next = fwTask[c].next
    BY <1>0 DEF FwConn, TaskOK
  <2> HIDE DEF n
  <2>3. TaskOK(n, fwPort)
    BY <1>0, <1>1, <2>2 DEF FwConn, TaskOK, FwAts
  <2>4. Outgoing(c, n, fwSink[c], fwQueue)
    BY <1>0, <1>1, <2>2 DEF FwConn, Outgoing, FwReady, Unsent
  <2>5. Incoming(n, fwGot[c], fwRead[c])
    BY <1>0, <1>1, <2>2 DEF FwConn, Incoming, FwReady
  <2>6. Owned(c, n, fwQueue, fwHost, fwPort, fwGone, fwGen, fwUp)
    BY <1>0, <1>1, <2>2 DEF FwConn, Owned
  <2>7. FwLocal(c, n) /\ UNCHANGED <<fwGot, fwQueue>>
    BY <1>1, <2>1 DEF FwLocal, FwTaskOnly
  <2> QED  BY <2>3, <2>4, <2>5, <2>6, <2>7, FwQuiet
<1> QED  BY <1>2, <1>3 DEF Fw!NegotiateSocks5

HttpTasks(c, k) ==
  [fwTask EXCEPT ![c].at = "open", ![c].initial = Fw!Stream(k), ![c].next = k + 1]

\* The HTTP handshake takes the beginning of the stream with it.
LEMMA FwHttp ==
    ASSUME FwInv, NEW c \in Conns, Fw!ReadHttpConnect(c)
    PROVE  FwInv'
<1>0. FwConn(c) /\ FwTyped
  BY DEF FwInv
<1>1. fwTask[c].at = "handshake" /\ FwTaskOnly(c) /\ UNCHANGED <<fwGot, fwQueue>>
  BY Zenon DEF Fw!ReadHttpConnect, FwTaskOnly, Fw!fwRemote
<1>2. CASE fwTask' = Fw!Ended(c)
  BY <1>1, <1>2, FwHandshakeEnds
<1>3. CASE \E k \in 0 .. MaxBytes : fwTask' = HttpTasks(c, k)
  <2>0. PICK k \in 0 .. MaxBytes : fwTask' = HttpTasks(c, k)
    BY <1>3
  <2> DEFINE n == [fwTask[c] EXCEPT !.at = "open", !.initial = Fw!Stream(k), !.next = k + 1]
  <2>1. fwTask' = [fwTask EXCEPT ![c] = n]
    BY <1>0, <2>0 DEF FwTyped, HttpTasks
  <2>2. /\ n.at = "open" /\ n.port = fwTask[c].port /\ DOMAIN n = DOMAIN fwTask[c]
        /\ n.initial = Fw!Stream(k) /\ n.next = k + 1
    BY <1>0 DEF FwConn, TaskOK
  <2> HIDE DEF n
  <2>3. TaskOK(n, fwPort)
    BY <1>0, <1>1, <2>2 DEF FwConn, TaskOK, FwAts
  <2>a. k \in Nat /\ k <= MaxBytes /\ MaxBytes \in Nat
    BY FleetAssumption
  <2>b. Unsent(n, 0)
    BY <2>2, <2>a, StreamRun DEF Unsent
  <2>4. Outgoing(c, n, fwSink[c], fwQueue)
    BY <1>0, <1>1, <2>2, <2>b DEF FwConn, Outgoing
  <2>5. Incoming(n, fwGot[c], fwRead[c])
    BY <1>0, <1>1, <2>2 DEF FwConn, Incoming, FwReady
  <2>6. Owned(c, n, fwQueue, fwHost, fwPort, fwGone, fwGen, fwUp)
    BY <1>0, <1>1, <2>2 DEF FwConn, Owned
  <2>7. FwLocal(c, n) /\ UNCHANGED <<fwGot, fwQueue>>
    BY <1>1, <2>1 DEF FwLocal, FwTaskOnly
  <2> QED  BY <2>3, <2>4, <2>5, <2>6, <2>7, FwQuiet
<1> QED  BY <1>2, <1>3, Zenon DEF Fw!ReadHttpConnect, HttpTasks

\* The queue with a command of c more, as c and its destination see it.
LEMMA QueueGrows ==
    ASSUME FwTyped, NEW x \in FwCommands, fwQueue' = Append(fwQueue, x)
    PROVE  /\ fwQueue' \in Seq(FwCommands) /\ Len(fwQueue) \in Nat /\ Len(fwQueue') = Len(fwQueue) + 1
           /\ \A i \in 1 .. Len(fwQueue') : i \in 1 .. Len(fwQueue) \/ i = Len(fwQueue')
           /\ \A i \in 1 .. Len(fwQueue) : i \in 1 .. Len(fwQueue') /\ fwQueue'[i] = fwQueue[i]
           /\ fwQueue'[Len(fwQueue')] = x /\ Len(fwQueue') \in 1 .. Len(fwQueue')
<1>1. Len(fwQueue) \in Nat /\ fwQueue \in Seq(FwCommands)
  BY DEF FwTyped
<1> QED  BY <1>1, QueueMore

\* The task asks the Host to open its connection.
LEMMA FwOpenConnection ==
    ASSUME FwInv, NEW c \in Conns, Fw!OpenConnection(c)
    PROVE  FwInv'
<1>0. FwConn(c) /\ FwTyped
  BY DEF FwInv
<1>1. fwTask[c].at = "open" /\ FwTaskOnly(c) /\ UNCHANGED fwGot
  BY DEF Fw!OpenConnection, FwTaskOnly, Fw!fwRemote
<1>2. CASE fwTask' = Fw!Ended(c) /\ UNCHANGED fwQueue
  BY <1>1, <1>2, FwHandshakeEnds
<1>3. CASE fwUp /\ Fw!Send(c, "open", <<>>, FALSE)
           /\ fwTask' = [fwTask EXCEPT ![c].at = "opening", ![c].gen = fwGen]
  <2> DEFINE n == [fwTask[c] EXCEPT !.at = "opening", !.gen = fwGen]
             x == [conn |-> c, op |-> "open", bytes |-> <<>>, eof |-> FALSE]
  <2>1. fwTask' = [fwTask EXCEPT ![c] = n]
    BY <1>0, <1>3 DEF FwTyped
  <2>2. /\ n.at = "opening" /\ n.port = fwTask[c].port /\ DOMAIN n = DOMAIN fwTask[c]
        /\ n.gen = fwGen /\ n.initial = fwTask[c].initial /\ n.next = fwTask[c].next
    BY <1>0 DEF FwConn, TaskOK
  <2>3. x \in FwCommands /\ x.conn = c /\ x.op = "open"
    BY DEF FwCommands
  <2>4. fwQueue' = Append(fwQueue, x)
    BY <1>3 DEF Fw!Send
  <2> HIDE DEF n, x
  <2>5. /\ fwQueue' \in Seq(FwCommands) /\ Len(fwQueue) \in Nat /\ Len(fwQueue') = Len(fwQueue) + 1
        /\ \A i \in 1 .. Len(fwQueue') : i \in 1 .. Len(fwQueue) \/ i = Len(fwQueue')
        /\ \A i \in 1 .. Len(fwQueue) : i \in 1 .. Len(fwQueue') /\ fwQueue'[i] = fwQueue[i]
        /\ fwQueue'[Len(fwQueue')] = x /\ Len(fwQueue') \in 1 .. Len(fwQueue')
    BY <1>0, <2>3, <2>4, QueueGrows
  <2>6. TaskOK(n, fwPort)
    BY <1>0, <1>1, <2>2 DEF FwConn, TaskOK, FwAts
  <2>a. \A i \in 1 .. Len(fwQueue') : Carries(fwQueue'[i], c, "exchange") =>
          i \in 1 .. Len(fwQueue) /\ fwQueue'[i] = fwQueue[i] /\ Carries(fwQueue[i], c, "exchange")
    BY <2>3, <2>5 DEF Carries
  <2>7. Outgoing(c, n, fwSink[c], fwQueue')
    BY <1>0, <1>1, <2>2, <2>a DEF FwConn, Outgoing, FwReady, Unsent
  <2>8. Incoming(n, fwGot[c], fwRead[c])
    BY <1>0, <1>1, <2>2 DEF FwConn, Incoming, FwReady
  <2>9. Owned(c, n, fwQueue', fwHost, fwPort, fwGone, fwGen, fwUp)
    BY <1>0, <1>1, <1>3, <2>2, <2>3, <2>5 DEF FwConn, Owned, Carries
  <2>10. FwLocal(c, n)
    BY <1>1, <2>1 DEF FwLocal, FwTaskOnly
  <2>11. DOMAIN fwGot' = Conns /\ fwGot' = fwGot
    BY <1>0, <1>1 DEF FwTyped
  <2> QED  BY <2>3, <2>4, <2>6, <2>7, <2>8, <2>9, <2>10, <2>11, FwSends
<1> QED  BY <1>2, <1>3 DEF Fw!OpenConnection

\* The answer to the open.
LEMMA FwOpened ==
    ASSUME FwInv, NEW c \in Conns, Fw!Opened(c)
    PROVE  FwInv'
<1>0. FwConn(c) /\ FwTyped
  BY DEF FwInv
<1>1. fwTask[c].at = "opened" /\ FwTaskOnly(c) /\ UNCHANGED <<fwGot, fwQueue>>
  BY DEF Fw!Opened, FwTaskOnly, Fw!fwRemote
<1>2. CASE /\ \/ fwTask[c].reply # "Opened" \/ ~Fw!Current(c)
              \/ c \in fwGone /\ Fw!Kind(c) # "forward"
           /\ fwTask' = Fw!Ended(c)
  <2>1. GotOK(c)
    BY <1>0, <1>1 DEF GotOK, FwTyped, FwConn, Incoming
  <2>2. c \notin fwHost \/ Excused(c, fwTask[c], fwPort, fwGone)
    BY <1>0, <1>1, <1>2 DEF FwConn, Owned, Excused, Fw!Current, Fw!Kind
  <2> QED  BY <1>1, <1>2, <2>1, <2>2, FwEnds
<1>3. CASE fwTask' = [fwTask EXCEPT ![c].at = "pump", ![c].reply = "none"]
  <2> DEFINE n == [fwTask[c] EXCEPT !.at = "pump", !.reply = "none"]
  <2>1. fwTask' = [fwTask EXCEPT ![c] = n]
    BY <1>0, <1>3 DEF FwTyped
  <2>2. /\ n.at = "pump" /\ n.port = fwTask[c].port /\ DOMAIN n = DOMAIN fwTask[c]
        /\ n.gen = fwTask[c].gen /\ n.initial = fwTask[c].initial /\ n.next = fwTask[c].next
    BY <1>0 DEF FwConn, TaskOK
  <2> HIDE DEF n
  <2>3. TaskOK(n, fwPort)
    BY <1>0, <1>1, <2>2 DEF FwConn, TaskOK, FwAts
  <2>4. Outgoing(c, n, fwSink[c], fwQueue)
    BY <1>0, <1>1, <2>2 DEF FwConn, Outgoing, FwReady, Unsent
  <2>5. Incoming(n, fwGot[c], fwRead[c])
    BY <1>0, <1>1, <2>2 DEF FwConn, Incoming, FwReady
  <2>6. Owned(c, n, fwQueue, fwHost, fwPort, fwGone, fwGen, fwUp)
    BY <1>0, <1>1, <2>2 DEF FwConn, Owned
  <2>7. FwLocal(c, n)
    BY <1>1, <2>1 DEF FwLocal, FwTaskOnly
  <2> QED  BY <1>1, <2>3, <2>4, <2>5, <2>6, <2>7, FwQuiet
<1> QED  BY <1>2, <1>3 DEF Fw!Opened

\* The pump leaves its loop: what the Host has in this session it is told to close.
LEMMA FwFinish ==
    ASSUME FwInv, NEW c \in Conns, fwTask[c].at \in {"pump", "exchanging", "exchanged"},
           Fw!Finish(c), FwTaskOnly(c), GotOK(c)
    PROVE  FwInv'
<1>0. FwConn(c) /\ FwTyped
  BY DEF FwInv
<1>1. CASE ~Fw!Current(c) /\ fwTask' = Fw!Ended(c) /\ UNCHANGED fwQueue
  <2>1. c \notin fwHost
    BY <1>0, <1>1 DEF FwConn, Owned, Fw!Current
  <2> QED  BY <1>1, <2>1, FwEnds
<1>2. CASE Fw!Send(c, "close", <<>>, FALSE)
           /\ fwTask' = [fwTask EXCEPT ![c] = [Fw!NoTask EXCEPT !.at = "closing", !.port = fwTask[c].port]]
  <2> DEFINE n == [Fw!NoTask EXCEPT !.at = "closing", !.port = fwTask[c].port]
             x == [conn |-> c, op |-> "close", bytes |-> <<>>, eof |-> FALSE]
  <2>1. fwTask' = [fwTask EXCEPT ![c] = n] /\ fwQueue' = Append(fwQueue, x)
    BY <1>2 DEF Fw!Send
  <2>2. n.at = "closing" /\ n.port = fwTask[c].port
        /\ DOMAIN n = {"at", "port", "gen", "initial", "next", "eofSent", "reply", "read", "readEof"}
    BY DEF Fw!NoTask
  <2>3. x \in FwCommands /\ x.conn = c /\ x.op = "close"
    BY DEF FwCommands
  <2> HIDE DEF n, x
  <2>5. /\ fwQueue' \in Seq(FwCommands) /\ Len(fwQueue) \in Nat /\ Len(fwQueue') = Len(fwQueue) + 1
        /\ \A i \in 1 .. Len(fwQueue') : i \in 1 .. Len(fwQueue) \/ i = Len(fwQueue')
        /\ \A i \in 1 .. Len(fwQueue) : i \in 1 .. Len(fwQueue') /\ fwQueue'[i] = fwQueue[i]
        /\ fwQueue'[Len(fwQueue')] = x /\ Len(fwQueue') \in 1 .. Len(fwQueue')
    BY <1>0, <2>1, <2>3, QueueGrows
  <2>6. TaskOK(n, fwPort)
    BY <1>0, <2>2 DEF FwConn, TaskOK, FwAts
  <2>a. \A i \in 1 .. Len(fwQueue') : Carries(fwQueue'[i], c, "exchange") =>
          i \in 1 .. Len(fwQueue) /\ fwQueue'[i] = fwQueue[i] /\ Carries(fwQueue[i], c, "exchange")
    BY <2>3, <2>5 DEF Carries
  <2>7. Outgoing(c, n, fwSink[c], fwQueue')
    BY <1>0, <2>2, <2>a DEF FwConn, Outgoing, FwReady
  <2>8. Incoming(n, fwGot'[c], fwRead[c])
    BY <1>0, <2>2 DEF FwConn, Incoming, FwReady, GotOK
  <2>9. Owned(c, n, fwQueue', fwHost, fwPort, fwGone, fwGen, fwUp)
    BY SMTT(30), <1>0, <2>2, <2>3, <2>5 DEF FwConn, Owned, Carries, InClosing
  <2>10. FwLocal(c, n)
    BY <2>1 DEF FwLocal, FwTaskOnly
  <2> QED  BY <2>1, <2>3, <2>6, <2>7, <2>8, <2>9, <2>10, FwSends DEF GotOK
<1> QED  BY <1>1, <1>2 DEF Fw!Finish

\* One exchange: what is sent continues the destination, what is left continues
\* what is sent.
LEMMA FwExchange ==
    ASSUME FwInv, NEW c \in Conns, fwTask[c].at = "pump", NEW bytes, NEW eof \in BOOLEAN, NEW t,
           Fw!Exchange(c, bytes, eof, t), FwTaskOnly(c), UNCHANGED fwGot,
           t.port = fwTask[c].port, t.gen = fwTask[c].gen, DOMAIN t = DOMAIN fwTask[c],
           IsRun(bytes, Len(fwSink[c].bytes)), Len(fwSink[c].bytes) + Len(bytes) <= MaxBytes,
           eof => Len(fwSink[c].bytes) + Len(bytes) = MaxBytes,
           Unsent(t, Len(fwSink[c].bytes) + Len(bytes))
    PROVE  FwInv'
<1>0. FwConn(c) /\ FwTyped
  BY DEF FwInv
<1>1. CASE ~Fw!Current(c) /\ fwTask' = Fw!Ended(c) /\ UNCHANGED fwQueue
  <2>1. c \notin fwHost
    BY <1>0, <1>1 DEF FwConn, Owned, Fw!Current
  <2>2. GotOK(c)
    BY <1>0 DEF GotOK, FwTyped, FwConn, Incoming
  <2> QED  BY <1>1, <2>1, <2>2, FwEnds
<1>2. CASE Fw!Send(c, "exchange", bytes, eof)
           /\ fwTask' = [fwTask EXCEPT ![c] = [t EXCEPT !.at = "exchanging"]]
  <2> DEFINE n == [t EXCEPT !.at = "exchanging"]
             x == [conn |-> c, op |-> "exchange", bytes |-> bytes, eof |-> eof]
  <2>1. fwTask' = [fwTask EXCEPT ![c] = n] /\ fwQueue' = Append(fwQueue, x)
    BY <1>2 DEF Fw!Send
  <2>2. /\ n.at = "exchanging" /\ n.port = fwTask[c].port /\ DOMAIN n = DOMAIN fwTask[c]
        /\ n.gen = fwTask[c].gen /\ n.initial = t.initial /\ n.next = t.next
    BY <1>0 DEF FwConn, TaskOK
  <2>3. x \in FwCommands /\ x.conn = c /\ x.op = "exchange" /\ x.bytes = bytes /\ x.eof = eof
    BY DEF FwCommands, IsRun
  <2> HIDE DEF n, x
  <2>5. /\ fwQueue' \in Seq(FwCommands) /\ Len(fwQueue) \in Nat /\ Len(fwQueue') = Len(fwQueue) + 1
        /\ \A i \in 1 .. Len(fwQueue') : i \in 1 .. Len(fwQueue) \/ i = Len(fwQueue')
        /\ \A i \in 1 .. Len(fwQueue) : i \in 1 .. Len(fwQueue') /\ fwQueue'[i] = fwQueue[i]
        /\ fwQueue'[Len(fwQueue')] = x /\ Len(fwQueue') \in 1 .. Len(fwQueue')
    BY <1>0, <2>1, <2>3, QueueGrows
  <2>6. TaskOK(n, fwPort)
    BY <1>0, <2>2 DEF FwConn, TaskOK, FwAts
  <2>a. \A i \in 1 .. Len(fwQueue) : ~Carries(fwQueue[i], c, "exchange")
    BY <1>0 DEF FwConn, Outgoing
  <2>b. \A i \in 1 .. Len(fwQueue') : Carries(fwQueue'[i], c, "exchange") => i = Len(fwQueue')
    BY <2>a, <2>5
  <2>c. Continues(x, fwSink[c]) /\ Unsent(n, Len(fwSink[c].bytes) + Len(x.bytes))
    BY <2>2, <2>3 DEF Continues, Unsent
  <2>7. Outgoing(c, n, fwSink[c], fwQueue')
    BY <1>0, <2>2, <2>5, <2>b, <2>c DEF FwConn, Outgoing, FwReady
  <2>8. Incoming(n, fwGot[c], fwRead[c])
    BY <1>0, <2>2 DEF FwConn, Incoming, FwReady
  <2>9. Owned(c, n, fwQueue', fwHost, fwPort, fwGone, fwGen, fwUp)
    BY SMTT(30), <1>0, <2>2, <2>3, <2>5 DEF FwConn, Owned, Carries
  <2>10. FwLocal(c, n)
    BY <2>1 DEF FwLocal, FwTaskOnly
  <2>11. DOMAIN fwGot' = Conns
    BY <1>0 DEF FwTyped
  <2> QED  BY <2>1, <2>3, <2>6, <2>7, <2>8, <2>9, <2>10, <2>11, FwSends
<1> QED  BY <1>1, <1>2 DEF Fw!Exchange

\* The pipelined bytes go first, in chunks.
LEMMA FwPumpInitial ==
    ASSUME FwInv, NEW c \in Conns, fwTask[c].at = "pump", Fw!PumpInitial(c), FwTaskOnly(c), UNCHANGED fwGot
    PROVE  FwInv'
<1> DEFINE t == fwTask[c]
           m == Len(fwSink[c].bytes)
           k == IF Len(t.initial) < FwChunk THEN Len(t.initial) ELSE FwChunk
           n == [t EXCEPT !.initial = SubSeq(t.initial, k + 1, Len(t.initial))]
<1>0. FwConn(c) /\ FwTyped
  BY DEF FwInv
<1>1. m \in Nat /\ Unsent(t, m) /\ MaxBytes \in Nat /\ FwChunk \in Nat
  BY <1>0, FleetAssumption, RunLen DEF FwConn, Outgoing, FwReady
<1>2. Fw!Exchange(c, SubSeq(t.initial, 1, k), FALSE, n)
  BY DEF Fw!PumpInitial
<1>a. /\ IsRun(t.initial, m) /\ Len(t.initial) \in Nat
      /\ t.next = m + Len(t.initial) + 1 /\ t.next <= MaxBytes + 1
  BY <1>1, RunLen DEF Unsent
<1>3. k \in 0 .. Len(t.initial)
  BY <1>1, <1>a
<1>4. /\ n.initial = SubSeq(t.initial, k + 1, Len(t.initial)) /\ n.next = t.next
      /\ n.port = t.port /\ n.gen = t.gen /\ DOMAIN n = DOMAIN t
  BY <1>0 DEF FwConn, TaskOK
<1> HIDE DEF k, n, m
<1>5. /\ IsRun(SubSeq(t.initial, 1, k), m) /\ Len(SubSeq(t.initial, 1, k)) = k
      /\ IsRun(n.initial, m + k) /\ Len(n.initial) = Len(t.initial) - k
  BY SMTT(30), <1>1, <1>a, <1>3, <1>4, RunCut
<1>6. m + k <= MaxBytes /\ Unsent(n, m + k)
  <2>2. m + k <= MaxBytes /\ n.next = (m + k) + Len(n.initial) + 1 /\ n.next <= MaxBytes + 1
    <3>1. m \in Nat /\ Len(t.initial) \in Nat /\ k \in 0 .. Len(t.initial)
          /\ Len(n.initial) = Len(t.initial) - k /\ n.next = m + Len(t.initial) + 1 /\ n.next <= MaxBytes + 1
      BY <1>1, <1>a, <1>3, <1>4, <1>5
    <3> DEFINE a == Len(t.initial)
               b == Len(n.initial)
               f == n.next
    <3>2. a \in Nat /\ k \in 0 .. a /\ b = a - k /\ f = m + a + 1 /\ f <= MaxBytes + 1
      BY <3>1
    <3> HIDE DEF a, b, f
    <3>3. m + k <= MaxBytes /\ f = (m + k) + b + 1
      BY <1>1, <3>2
    <3> QED  BY <3>1, <3>3 DEF b, f
  <2> QED  BY <1>5, <2>2 DEF Unsent
<1>7. IsRun(SubSeq(t.initial, 1, k), m) /\ m + Len(SubSeq(t.initial, 1, k)) <= MaxBytes
      /\ Unsent(n, m + Len(SubSeq(t.initial, 1, k)))
  BY <1>5, <1>6
<1> QED  BY <1>2, <1>4, <1>7, FwExchange DEF m

\* Then what the local read returns, and the end last of all.
LEMMA FwPumpLocal ==
    ASSUME FwInv, NEW c \in Conns, fwTask[c].at = "pump", FwTaskOnly(c), UNCHANGED fwGot,
           Fw!PumpLocal(c) \/ Fw!PumpAfterEof(c)
    PROVE  FwInv'
<1> DEFINE t == fwTask[c]
           m == Len(fwSink[c].bytes)
<1>0. FwConn(c) /\ FwTyped
  BY DEF FwInv
<1>1. m \in Nat /\ Unsent(t, m) /\ MaxBytes \in Nat
  BY <1>0, FleetAssumption, RunLen DEF FwConn, Outgoing, FwReady
<1> HIDE DEF m
<1>2. t.initial = <<>> /\ t.next = m + 1 /\ m <= MaxBytes
  <2>1. t.initial = <<>>
    BY DEF Fw!PumpLocal, Fw!PumpAfterEof
  <2>2. Len(t.initial) = 0
    BY <2>1
  <2> QED  BY <1>1, <2>1, <2>2 DEF Unsent
<1>b. Len(<<>>) = 0 /\ m + 0 = m
  BY <1>1
<1>c. IsRun(<<>>, m)
  BY <1>1, RunEmpty
<1>3. IsRun(<<>>, m) /\ Len(<<>>) = 0 /\ m + Len(<<>>) = m
  BY <1>b, <1>c
<1>4. CASE Fw!Exchange(c, <<>>, FALSE, t)
  BY <1>1, <1>2, <1>3, <1>4, FwExchange DEF m
<1>5. CASE Fw!Finish(c)
  <2>1. GotOK(c)
    BY <1>0 DEF GotOK, FwTyped, FwConn, Incoming
  <2> QED  BY <1>5, <2>1, FwFinish
<1>6. CASE t.next <= MaxBytes /\ Fw!Exchange(c, <<t.next>>, FALSE, [t EXCEPT !.next = t.next + 1])
  <2> DEFINE n == [t EXCEPT !.next = t.next + 1]
  <2>1. /\ n.initial = t.initial /\ n.next = t.next + 1
        /\ n.port = t.port /\ n.gen = t.gen /\ DOMAIN n = DOMAIN t
    BY <1>0 DEF FwConn, TaskOK
  <2> HIDE DEF n
  <2>2. IsRun(<<t.next>>, m) /\ Len(<<t.next>>) = 1
    BY <1>1, <1>2, RunSmall
  <2>3. IsRun(<<>>, m + 1) /\ Len(<<>>) = 0
    <3>1. m + 1 \in Nat
      BY <1>1
    <3> QED  BY <1>b, <3>1, RunEmpty
  <2>4. Unsent(n, m + 1) /\ m + 1 <= MaxBytes
    BY <1>1, <1>2, <1>6, <2>1, <2>3 DEF Unsent
  <2> QED  BY <1>6, <2>1, <2>2, <2>4, FwExchange DEF n, m
<1>7. CASE t.next > MaxBytes /\ Fw!Exchange(c, <<>>, TRUE, [t EXCEPT !.eofSent = TRUE])
  <2> DEFINE n == [t EXCEPT !.eofSent = TRUE]
  <2>1. /\ n.initial = t.initial /\ n.next = t.next
        /\ n.port = t.port /\ n.gen = t.gen /\ DOMAIN n = DOMAIN t
    BY <1>0 DEF FwConn, TaskOK
  <2> HIDE DEF n
  <2>2. Unsent(n, m) /\ m = MaxBytes
    BY <1>1, <1>2, <1>7, <2>1 DEF Unsent
  <2>3. m + Len(<<>>) = MaxBytes /\ Unsent(n, m + Len(<<>>))
    BY <1>1, <1>3, <2>2
  <2>4. Fw!Exchange(c, <<>>, TRUE, n)
    BY <1>7 DEF n
  <2>5. m + Len(<<>>) <= MaxBytes
    BY <1>1, <2>3
  <2> QED  BY <1>3, <2>1, <2>3, <2>4, <2>5, FwExchange DEF m
<1>8. CASE Fw!PumpLocal(c)
  BY <1>4, <1>5, <1>6, <1>7, <1>8 DEF Fw!PumpLocal
<1>9. CASE Fw!PumpAfterEof(c)
  BY <1>4, <1>9 DEF Fw!PumpAfterEof
<1> QED  BY <1>8, <1>9

\* The pump.
LEMMA FwPump == ASSUME FwInv, NEW c \in Conns, Fw!Pump(c) PROVE FwInv'
<1>1. fwTask[c].at = "pump" /\ FwTaskOnly(c) /\ UNCHANGED fwGot
  BY DEF Fw!Pump, FwTaskOnly, Fw!fwRemote
<1> QED  BY <1>1, FwPumpInitial, FwPumpLocal DEF Fw!Pump

\* The answer to an exchange is delivered, if it belongs to this session.
LEMMA FwExchanged == ASSUME FwInv, NEW c \in Conns, Fw!Exchanged(c) PROVE FwInv'
<1> DEFINE t == fwTask[c]
           ok == t.reply = "Exchanged" /\ Fw!Current(c)
           stuck == t.read # <<>> /\ c \in fwGone
<1>0. FwConn(c) /\ FwTyped
  BY DEF FwInv
<1>1. t.at = "exchanged" /\ FwTaskOnly(c) /\ fwGot' = IF ok /\ ~stuck THEN Fw!Deliver(c) ELSE fwGot
  BY DEF Fw!Exchanged, FwTaskOnly, Fw!fwRemote
<1>2. GotOK(c) /\ (ok /\ ~stuck => Len(fwGot'[c].bytes) = fwRead[c])
  <2>1. CASE ok /\ ~stuck
    <3> DEFINE g == [fwGot[c] EXCEPT !.bytes = fwGot[c].bytes \o t.read, !.eof = t.readEof]
    <3>1. fwGot' = [fwGot EXCEPT ![c] = g]
      BY <1>0, <1>1, <2>1 DEF Fw!Deliver, FwTyped
    <3>2. DOMAIN g = {"bytes", "eof"} /\ g.bytes = fwGot[c].bytes \o t.read /\ g.eof = t.readEof
      BY <1>0 DEF FwConn, Incoming
    <3> HIDE DEF g
    <3>3. fwGot'[c] = g /\ DOMAIN fwGot' = Conns /\ \A d \in Conns : d # c => fwGot'[d] = fwGot[d]
      BY <1>0, <3>1 DEF FwTyped
    <3>4. /\ IsRun(fwGot[c].bytes, 0) /\ IsRun(t.read, Len(fwGot[c].bytes))
          /\ Len(fwGot[c].bytes) + Len(t.read) = fwRead[c] /\ (t.readEof => fwRead[c] = MaxBytes)
          /\ Len(fwGot[c].bytes) \in Nat
      BY <1>0, <1>1, <2>1, RunLen DEF FwConn, Incoming
    <3>5. IsRun(g.bytes, 0) /\ Len(g.bytes) = fwRead[c]
      <4>1. IsRun(t.read, 0 + Len(fwGot[c].bytes))
        BY <3>4
      <4> QED  BY <3>2, <3>4, <4>1, RunConcat
    <3> QED  BY <3>2, <3>3, <3>4, <3>5 DEF GotOK
  <2>2. CASE ~(ok /\ ~stuck)
    BY <1>0, <1>1, <2>2 DEF GotOK, FwTyped, FwConn, Incoming
  <2> QED  BY <2>1, <2>2
<1>3. CASE Fw!Finish(c)
  BY <1>1, <1>2, <1>3, FwFinish
<1>4. CASE /\ ok /\ ~stuck /\ ~t.readEof
           /\ fwTask' = [fwTask EXCEPT ![c].at = "pump", ![c].reply = "none", ![c].read = <<>>]
           /\ UNCHANGED fwQueue
  <2> DEFINE n == [fwTask[c] EXCEPT !.at = "pump", !.reply = "none", !.read = <<>>]
  <2>1. fwTask' = [fwTask EXCEPT ![c] = n]
    BY <1>0, <1>4 DEF FwTyped
  <2>2. /\ n.at = "pump" /\ n.port = fwTask[c].port /\ DOMAIN n = DOMAIN fwTask[c]
        /\ n.gen = fwTask[c].gen /\ n.initial = fwTask[c].initial /\ n.next = fwTask[c].next
    BY <1>0 DEF FwConn, TaskOK
  <2> HIDE DEF n
  <2>3. TaskOK(n, fwPort)
    BY <1>0, <1>1, <2>2 DEF FwConn, TaskOK, FwAts
  <2>4. Outgoing(c, n, fwSink[c], fwQueue)
    BY <1>0, <1>1, <1>4, <2>2 DEF FwConn, Outgoing, FwReady, Unsent
  <2>5. Incoming(n, fwGot'[c], fwRead[c])
    BY <1>0, <1>2, <1>4, <2>2 DEF FwConn, Incoming, GotOK
  <2>6. Owned(c, n, fwQueue, fwHost, fwPort, fwGone, fwGen, fwUp)
    BY <1>0, <1>1, <2>2 DEF FwConn, Owned
  <2>7. fwTask'[c] = n /\ DOMAIN fwTask' = Conns /\ \A d \in Conns : d # c => fwTask'[d] = fwTask[d]
    BY <1>0, <2>1 DEF FwTyped
  <2>8. FwOnly(c)
    BY <1>0, <1>1, <1>2, <1>4, <2>7 DEF FwTyped, FwTaskOnly, FwOnly, FwQueueStep, GotOK
  <2>9. FwConn(c)'
    BY <1>1, <1>4, <2>3, <2>4, <2>5, <2>6, <2>7 DEF FwConn, FwTaskOnly
  <2> QED  BY <2>8, <2>9, FwStep
<1> QED  BY <1>3, <1>4 DEF Fw!Exchanged

\* A removed listener lets its tasks return or finish, or aborts them.
LEMMA FwSignalled ==
    ASSUME FwInv, NEW c \in Conns, Fw!Signalled(c) \/ Fw!Aborted(c)
    PROVE  FwInv'
<1>0. FwConn(c) /\ FwTyped
  BY DEF FwInv
<1>1. FwTaskOnly(c) /\ UNCHANGED fwGot /\ fwPort[fwTask[c].port].at = "removed"
  BY DEF Fw!Signalled, Fw!Aborted, FwTaskOnly, Fw!fwRemote, Fw!Removed
<1>2. GotOK(c)
  BY <1>0, <1>1 DEF GotOK, FwTyped, FwConn, Incoming
<1>3. CASE fwTask[c].at # "idle" /\ fwTask' = Fw!Ended(c) /\ UNCHANGED fwQueue
  BY <1>1, <1>2, <1>3, FwEnds DEF Excused
<1>4. CASE fwTask[c].at \in {"pump", "exchanging"} /\ Fw!Finish(c)
  BY <1>1, <1>2, <1>4, FwFinish
<1> QED  BY <1>3, <1>4 DEF Fw!Signalled, Fw!Aborted

PortKept(p) ==
  fwPort[p].at \in {"on", "removed"} =>
    /\ fwPort'[p].at \in {"on", "removed"} /\ fwPort'[p].kind = fwPort[p].kind
    /\ fwPort[p].at = "removed" => fwPort'[p].at = "removed"

\* A listener that has accepted something stays what it is until it is removed.
LEMMA FwPorts ==
    ASSUME FwInv, DOMAIN fwPort' = Listeners, \A p \in Listeners : PortKept(p),
           UNCHANGED <<fwTask, fwGone, fwGot, fwQueue, fwSink, fwHost, fwRead, fwGen, fwUp>>
    PROVE  FwInv'
<1>1. FwTyped'
  BY DEF FwInv, FwTyped
<1>2. ASSUME NEW c \in Conns PROVE FwConn(c)'
  <2>1. FwConn(c)
    BY DEF FwInv
  <2>2. TaskOK(fwTask[c], fwPort')
    BY <2>1 DEF FwConn, TaskOK, PortKept
  <2>3. Owned(c, fwTask[c], fwQueue, fwHost, fwPort', fwGone, fwGen, fwUp)
    BY <2>1 DEF FwConn, Owned, TaskOK, PortKept, Excused
  <2> QED  BY <2>1, <2>2, <2>3 DEF FwConn
<1> QED  BY <1>1, <1>2 DEF FwInv

\* The steps of the three managers.
LEMMA FwManager ==
    ASSUME FwInv, NEW p \in Listeners,
           Fw!AddForward(p) \/ Fw!AddSocks5(p) \/ Fw!AddHttpConnect(p) \/ Fw!Remove(p)
    PROVE  FwInv'
<1>0. DOMAIN fwPort = Listeners
  BY DEF FwInv, FwTyped
<1>1. ASSUME NEW k, NEW a, Fw!SetPort(p, k, a),
             fwPort[p].at \in {"off", "binding"} \/ (fwPort[p].at = "on" /\ k = fwPort[p].kind /\ a = "removed")
      PROVE  FwInv'
  <2>1. /\ fwPort' = [fwPort EXCEPT ![p] = [kind |-> k, at |-> a]]
        /\ UNCHANGED <<fwTask, fwGone, fwGot, fwQueue, fwSink, fwHost, fwRead, fwGen, fwUp>>
    BY <1>1 DEF Fw!SetPort, Fw!fwRemote
  <2>2. DOMAIN fwPort' = Listeners /\ fwPort'[p].kind = k /\ fwPort'[p].at = a
        /\ \A r \in Listeners : r # p => fwPort'[r] = fwPort[r]
    BY <1>0, <2>1
  <2>3. \A r \in Listeners : PortKept(r)
    BY <1>1, <2>2 DEF PortKept
  <2> QED  BY <2>1, <2>2, <2>3, FwPorts
<1>2. ASSUME NEW k, Fw!AddListener(p, k) PROVE FwInv'
  <2>1. fwPort[p].at \in {"off", "binding"}
    BY <1>2 DEF Fw!AddListener
  <2> QED  BY <1>1, <1>2, <2>1 DEF Fw!AddListener
<1>3. CASE Fw!Remove(p)
  BY <1>1, <1>3 DEF Fw!Remove
<1> QED  BY <1>2, <1>3 DEF Fw!AddForward, Fw!AddSocks5, Fw!AddHttpConnect

\* An application goes away, or the session comes back.
LEMMA FwAround ==
    ASSUME FwInv, Fw!SessionRegisters \/ \E c \in Conns : Fw!AppGone(c)
    PROVE  FwInv'
<1>1. /\ UNCHANGED <<fwPort, fwTask, fwGot, fwSink, fwHost, fwRead, fwQueue>>
      /\ fwGone \subseteq fwGone'
      /\ (fwGen' = fwGen /\ fwUp' = fwUp) \/ ~fwUp
  BY DEF Fw!SessionRegisters, Fw!AppGone, Fw!fwRemote
<1>2. FwTyped'
  BY <1>1 DEF FwInv, FwTyped
<1>3. ASSUME NEW c \in Conns PROVE FwConn(c)'
  <2>1. FwConn(c)
    BY DEF FwInv
  <2>2. Owned(c, fwTask[c], fwQueue, fwHost, fwPort, fwGone', fwGen', fwUp')
    BY <1>1, <2>1 DEF FwConn, Owned, Excused
  <2> QED  BY <1>1, <2>1, <2>2 DEF FwConn
<1> QED  BY <1>2, <1>3 DEF FwInv

AtTheEnd(t) ==
  CASE t.at \in {"opening", "closing"} -> [Fw!NoTask EXCEPT !.at = "done", !.port = t.port]
    [] t.at = "exchanging" -> [t EXCEPT !.at = "exchanged", !.reply = "Error"]
    [] OTHER -> t

\* The session ends: nothing is on its way any more and the Host keeps nothing.
LEMMA FwSessionEnds == ASSUME FwInv, Fw!SessionEnds PROVE FwInv'
<1>1. /\ UNCHANGED <<fwPort, fwGone, fwGot, fwSink, fwRead, fwGen>>
      /\ fwUp' = FALSE /\ fwHost' = {} /\ fwQueue' = <<>>
  BY Zenon DEF Fw!SessionEnds
<1>a. fwTask' = [c \in Conns |-> AtTheEnd(fwTask[c])]
  BY Zenon DEF Fw!SessionEnds, AtTheEnd
<1>2. DOMAIN fwTask' = Conns /\ \A c \in Conns : fwTask'[c] = AtTheEnd(fwTask[c])
  BY <1>a
<1>3. Len(<<>>) = 0
  OBVIOUS
<1>4. FwTyped'
  BY <1>1, <1>2 DEF FwInv, FwTyped
<1>5. ASSUME NEW c \in Conns PROVE FwConn(c)'
  <2> DEFINE t == fwTask[c]
             n == fwTask'[c]
  <2>1. FwConn(c)
    BY DEF FwInv
  <2>2. n = AtTheEnd(t)
    BY <1>2
  <2>3. \/ n = t /\ t.at \notin {"opening", "closing", "exchanging"}
        \/ n = Gone(t.port) /\ t.at # "idle"
        \/ n = [t EXCEPT !.at = "exchanged", !.reply = "Error"] /\ t.at = "exchanging"
    BY <2>2 DEF Gone, AtTheEnd
  <2>4. DOMAIN t = {"at", "port", "gen", "initial", "next", "eofSent", "reply", "read", "readEof"}
    BY <2>1 DEF FwConn, TaskOK
  <2> HIDE DEF n
  <2>5. /\ DOMAIN n = {"at", "port", "gen", "initial", "next", "eofSent", "reply", "read", "readEof"}
        /\ n.port = t.port
        /\ \/ n = t /\ t.at \notin {"opening", "closing", "exchanging"}
           \/ n.at = "done" /\ t.at # "idle"
           \/ n.at = "exchanged" /\ n.reply = "Error" /\ t.at # "idle"
    BY ZenonT(60), <2>3, <2>4, GoneFields
  <2>6. TaskOK(n, fwPort)
    BY <2>1, <2>5 DEF FwConn, TaskOK, FwAts
  <2>7. Outgoing(c, n, fwSink[c], <<>>)
    BY <1>3, <2>1, <2>5 DEF FwConn, Outgoing, FwReady
  <2>8. Incoming(n, fwGot[c], fwRead[c])
    BY <2>1, <2>5 DEF FwConn, Incoming, FwReady
  <2>9. Owned(c, n, <<>>, {}, fwPort, fwGone, fwGen, FALSE)
    BY <1>3, <2>1, <2>5 DEF FwConn, Owned
  <2> QED  BY <1>1, <2>6, <2>7, <2>8, <2>9 DEF FwConn, n
<1> QED  BY <1>4, <1>5 DEF FwInv

\* The queue without its first command.
Shifted(q, r) ==
  /\ q \in Seq(FwCommands) /\ r \in Seq(FwCommands) /\ Len(q) \in Nat /\ Len(r) \in Nat
  /\ Len(r) = Len(q) - 1 /\ 1 \in 1 .. Len(q) /\ q[1] \in FwCommands
  /\ \A i \in 1 .. Len(r) : i + 1 \in 1 .. Len(q) /\ r[i] = q[i + 1]
  /\ \A i \in 1 .. Len(q) : i # 1 => i - 1 \in 1 .. Len(r) /\ r[i - 1] = q[i]

\* Serving a command takes the first one.
LEMMA FwShift ==
    ASSUME FwInv, Fw!ServeCommand
    PROVE  /\ Shifted(fwQueue, fwQueue') /\ Head(fwQueue) = fwQueue[1]
           /\ fwQueue' = Tail(fwQueue) /\ fwUp /\ fwQueue # <<>>
           /\ UNCHANGED <<fwPort, fwGone, fwGot, fwGen, fwUp>>
<1>1. fwQueue \in Seq(FwCommands) /\ fwQueue # <<>> /\ fwQueue' = Tail(fwQueue) /\ fwUp
      /\ UNCHANGED <<fwPort, fwGone, fwGot, fwGen, fwUp>>
  BY DEF FwInv, FwTyped, Fw!ServeCommand
<1>2. /\ fwQueue' \in Seq(FwCommands) /\ Len(fwQueue') = Len(fwQueue) - 1 /\ Len(fwQueue) > 0
      /\ \A i \in 1 .. Len(fwQueue') : fwQueue'[i] = fwQueue[i + 1]
  BY <1>1, QueueLess
<1>3. Len(fwQueue) \in Nat /\ Len(fwQueue') \in Nat /\ Head(fwQueue) = fwQueue[1]
      /\ 1 \in 1 .. Len(fwQueue) /\ fwQueue[1] \in FwCommands
  BY <1>1, <1>2
<1>4. \A i \in 1 .. Len(fwQueue') : i + 1 \in 1 .. Len(fwQueue)
  BY <1>2, <1>3
<1>5. ASSUME NEW i \in 1 .. Len(fwQueue), i # 1
      PROVE  i - 1 \in 1 .. Len(fwQueue') /\ fwQueue'[i - 1] = fwQueue[i]
  <2>1. i - 1 \in 1 .. Len(fwQueue') /\ (i - 1) + 1 = i
    BY <1>2, <1>3, <1>5
  <2> QED  BY <1>2, <2>1
<1> QED  BY <1>1, <1>2, <1>3, <1>4, <1>5 DEF Shifted

\* What is said of the commands in the queue remains true of the rest.
LEMMA FwRest ==
    ASSUME NEW q, NEW r, Shifted(q, r), NEW c
    PROVE  /\ \A op : \A i \in 1 .. Len(r) : Carries(r[i], c, op) => i + 1 \in 1 .. Len(q) /\ Carries(q[i + 1], c, op)
           /\ InClosing(c, q) /\ q[1].op # "close" => InClosing(c, r)
           /\ \A op : (\A i, j \in 1 .. Len(q) : Carries(q[i], c, op) /\ Carries(q[j], c, op) => i = j) =>
                (\A i, j \in 1 .. Len(r) : Carries(r[i], c, op) /\ Carries(r[j], c, op) => i = j)
           /\ \A op : (\A i, j \in 1 .. Len(q) : Carries(q[i], c, op) /\ Carries(q[j], c, op) => i = j)
                /\ Carries(q[1], c, op) => \A i \in 1 .. Len(r) : ~Carries(r[i], c, op)
<1>1. \A op : \A i \in 1 .. Len(r) : Carries(r[i], c, op) => i + 1 \in 1 .. Len(q) /\ Carries(q[i + 1], c, op)
  BY DEF Shifted, Carries
<1>2. InClosing(c, q) /\ q[1].op # "close" => InClosing(c, r)
  BY DEF Shifted, Carries, InClosing
<1>3. ASSUME NEW op, \A i, j \in 1 .. Len(q) : Carries(q[i], c, op) /\ Carries(q[j], c, op) => i = j,
             NEW i \in 1 .. Len(r), NEW j \in 1 .. Len(r), Carries(r[i], c, op), Carries(r[j], c, op)
      PROVE  i = j
  <2>1. i + 1 = j + 1
    BY <1>1, <1>3
  <2> QED  BY <2>1 DEF Shifted
<1>4. ASSUME NEW op, \A i, j \in 1 .. Len(q) : Carries(q[i], c, op) /\ Carries(q[j], c, op) => i = j,
             Carries(q[1], c, op), NEW i \in 1 .. Len(r), Carries(r[i], c, op)
      PROVE  FALSE
  <2>1. i + 1 = 1 /\ i \in 1 .. Len(r) /\ Len(r) \in Nat
    BY <1>1, <1>4 DEF Shifted
  <2> QED  BY <2>1
<1> QED  BY <1>1, <1>2, <1>3, <1>4

\* Both directions after the first command was served and did not concern them.
LEMMA OutgoingRest ==
    ASSUME NEW q, NEW r, Shifted(q, r), NEW c, NEW t, NEW sink, Outgoing(c, t, sink, q)
    PROVE  Outgoing(c, t, sink, r)
<1>1. \A i \in 1 .. Len(r) : Carries(r[i], c, "exchange") =>
        i + 1 \in 1 .. Len(q) /\ Carries(q[i + 1], c, "exchange") /\ r[i] = q[i + 1]
  BY FwRest DEF Shifted
<1>2. \A i, j \in 1 .. Len(r) : Carries(r[i], c, "exchange") /\ Carries(r[j], c, "exchange") => i = j
  BY FwRest DEF Outgoing
<1>3. \A i \in 1 .. Len(r) : Carries(r[i], c, "exchange") =>
       /\ t.at \in {"exchanging", "closing", "done"}
       /\ Continues(r[i], sink)
       /\ t.at = "exchanging" => Unsent(t, Len(sink.bytes) + Len(r[i].bytes))
  BY <1>1 DEF Outgoing
<1> QED  BY <1>2, <1>3 DEF Outgoing

\* A served step, put together.
LEMMA FwServedStep ==
    ASSUME FwInv, Fw!ServeCommand, NEW c \in Conns, fwQueue[1].conn = c,
           DOMAIN fwTask' = Conns, DOMAIN fwSink' = Conns, DOMAIN fwRead' = Conns,
           \A d \in Conns : d # c => /\ fwTask'[d] = fwTask[d] /\ fwSink'[d] = fwSink[d]
                                     /\ fwRead'[d] = fwRead[d] /\ (d \in fwHost' <=> d \in fwHost),
           fwHost' \subseteq fwHost \cup {c},
           TaskOK(fwTask'[c], fwPort), Outgoing(c, fwTask'[c], fwSink'[c], fwQueue'),
           Incoming(fwTask'[c], fwGot[c], fwRead'[c]),
           Owned(c, fwTask'[c], fwQueue', fwHost', fwPort, fwGone, fwGen, fwUp)
    PROVE  FwInv'
<1>1. fwQueue' = Tail(fwQueue) /\ fwQueue # <<>> /\ UNCHANGED <<fwPort, fwGone, fwGot, fwGen, fwUp>>
  BY FwShift
<1>2. FwOnly(c)
  BY <1>1 DEF FwInv, FwTyped, FwOnly, FwQueueStep
<1>3. FwConn(c)'
  BY <1>1 DEF FwConn
<1> QED  BY <1>2, <1>3, FwStep

TaskFields == {"at", "port", "gen", "initial", "next", "eofSent", "reply", "read", "readEof"}

\* Whoever waits for the answer gets it.
LEMMA FwAnswered ==
    ASSUME FwTyped, NEW c \in Conns, NEW w, NEW n, Fw!Answer(c, w, n)
    PROVE  /\ DOMAIN fwTask' = Conns /\ \A d \in Conns : d # c => fwTask'[d] = fwTask[d]
           /\ fwTask[c].at = w => fwTask'[c] = n
           /\ fwTask[c].at # w => fwTask'[c] = fwTask[c]
BY DEF FwTyped, Fw!Answer

\* The Host opens a connection, or cannot.
LEMMA FwHostOpen ==
    ASSUME FwInv, Fw!ServeCommand, fwQueue[1].op = "open", Fw!HostOpen(fwQueue[1].conn)
    PROVE  FwInv'
<1> DEFINE c == fwQueue[1].conn
           t == fwTask[c]
           n == fwTask'[c]
<1>1. Shifted(fwQueue, fwQueue') /\ fwUp
  BY FwShift
<1>2. c \in Conns /\ Carries(fwQueue[1], c, "open") /\ 1 \in 1 .. Len(fwQueue)
  BY <1>1 DEF Shifted, FwCommands, Carries
<1>0. FwConn(c) /\ FwTyped
  BY <1>2 DEF FwInv
<1>3. /\ \A i \in 1 .. Len(fwQueue') : ~Carries(fwQueue'[i], c, "open")
      /\ InClosing(c, fwQueue) => InClosing(c, fwQueue')
  <2>1. \A i, j \in 1 .. Len(fwQueue) : Carries(fwQueue[i], c, "open") /\ Carries(fwQueue[j], c, "open") => i = j
    BY <1>0 DEF FwConn, Owned
  <2> HIDE DEF c
  <2> QED  BY SMTT(30), <1>1, <1>2, <2>1, FwRest DEF Carries
<1>4. t.at = "opening" \/ (t.at = "done" /\ fwPort[t.port].at = "removed")
  BY <1>0, <1>2 DEF FwConn, Owned
<1>5. PICK a \in {"Opened", "Error"} :
        /\ Fw!Answer(c, "opening", [t EXCEPT !.at = "opened", !.reply = a])
        /\ fwHost' = IF a = "Opened" THEN fwHost \cup {c} ELSE fwHost
        /\ UNCHANGED <<fwSink, fwRead>>
  <2>1. UNCHANGED <<fwSink, fwRead>>
    BY DEF Fw!HostOpen
  <2>2. CASE fwHost' = fwHost \cup {c}
             /\ Fw!Answer(c, "opening", [[t EXCEPT !.at = "opened"] EXCEPT !.reply = "Opened"])
    BY <2>1, <2>2
  <2>3. CASE fwHost' = fwHost
             /\ Fw!Answer(c, "opening", [[t EXCEPT !.at = "opened"] EXCEPT !.reply = "Error"])
    BY <2>1, <2>3
  <2> QED  BY <2>2, <2>3 DEF Fw!HostOpen
<1>6. /\ DOMAIN fwTask' = Conns /\ \A d \in Conns : d # c => fwTask'[d] = fwTask[d]
      /\ t.at = "opening" => n = [t EXCEPT !.at = "opened", !.reply = a]
      /\ t.at # "opening" => n = t
  BY <1>0, <1>2, <1>5, FwAnswered
<1>7. DOMAIN t = TaskFields
  BY <1>0 DEF FwConn, TaskOK, TaskFields
<1>8. CASE t.at = "opening"
  <2>1. /\ DOMAIN n = TaskFields /\ n.at = "opened" /\ n.reply = a /\ n.port = t.port /\ n.gen = t.gen
        /\ n.initial = t.initial /\ n.next = t.next
    BY <1>6, <1>7, <1>8 DEF TaskFields
  <2> HIDE DEF n
  <2>2. TaskOK(n, fwPort)
    BY <1>0, <1>8, <2>1 DEF FwConn, TaskOK, FwAts, TaskFields
  <2>3. Outgoing(c, n, fwSink[c], fwQueue)
    BY <1>0, <1>8, <2>1 DEF FwConn, Outgoing, FwReady, Unsent
  <2>4. Outgoing(c, n, fwSink[c], fwQueue')
    BY <1>1, <2>3, OutgoingRest
  <2>5. Incoming(n, fwGot[c], fwRead[c])
    BY <1>0, <1>8, <2>1 DEF FwConn, Incoming, FwReady
  <2>6. Owned(c, n, fwQueue', fwHost', fwPort, fwGone, fwGen, fwUp)
    BY <1>0, <1>1, <1>3, <1>5, <1>8, <2>1 DEF FwConn, Owned
  <2> QED  BY <1>0, <1>2, <1>5, <1>6, <2>2, <2>4, <2>5, <2>6, FwServedStep DEF FwTyped, n
<1>9. CASE t.at # "opening"
  <2>1. n = t
    BY <1>6, <1>9
  <2> HIDE DEF n
  <2>4. Outgoing(c, n, fwSink[c], fwQueue')
    BY <1>0, <1>1, <2>1, OutgoingRest DEF FwConn
  <2>6. Owned(c, n, fwQueue', fwHost', fwPort, fwGone, fwGen, fwUp)
    <3>1. t.at = "done" /\ Excused(c, t, fwPort, fwGone)
      BY <1>4, <1>9 DEF Excused
    <3> HIDE DEF c, t
    <3> QED  BY <1>1, <1>3, <2>1, <3>1 DEF Owned
  <2> QED  BY <1>0, <1>2, <1>5, <1>6, <2>1, <2>4, <2>6, FwServedStep DEF FwTyped, n, FwConn
<1> QED  BY <1>8, <1>9

\* The Host closes a connection.
LEMMA FwHostClose ==
    ASSUME FwInv, Fw!ServeCommand, fwQueue[1].op = "close", Fw!HostClose(fwQueue[1].conn)
    PROVE  FwInv'
<1> DEFINE c == fwQueue[1].conn
           t == fwTask[c]
           n == fwTask'[c]
<1>1. Shifted(fwQueue, fwQueue') /\ fwUp
  BY FwShift
<1>2. c \in Conns /\ 1 \in 1 .. Len(fwQueue)
  BY <1>1 DEF Shifted, FwCommands
<1>0. FwConn(c) /\ FwTyped
  BY <1>2 DEF FwInv
<1>3. /\ \A i \in 1 .. Len(fwQueue') : Carries(fwQueue'[i], c, "open") =>
           i + 1 \in 1 .. Len(fwQueue) /\ Carries(fwQueue[i + 1], c, "open")
      /\ \A i, j \in 1 .. Len(fwQueue') : Carries(fwQueue'[i], c, "open") /\ Carries(fwQueue'[j], c, "open") => i = j
  <2>1. \A i, j \in 1 .. Len(fwQueue) : Carries(fwQueue[i], c, "open") /\ Carries(fwQueue[j], c, "open") => i = j
    BY <1>0 DEF FwConn, Owned
  <2> HIDE DEF c
  <2> QED  BY ZenonT(60), <1>1, <2>1, FwRest
<1>5. /\ Fw!Answer(c, "closing", [t EXCEPT !.at = "done"])
      /\ fwHost' = fwHost \ {c} /\ UNCHANGED <<fwSink, fwRead>>
  BY DEF Fw!HostClose
<1>6. /\ DOMAIN fwTask' = Conns /\ \A d \in Conns : d # c => fwTask'[d] = fwTask[d]
      /\ t.at = "closing" => n = [t EXCEPT !.at = "done"]
      /\ t.at # "closing" => n = t
  BY <1>0, <1>2, <1>5, FwAnswered
<1>7. DOMAIN t = TaskFields
  BY <1>0 DEF FwConn, TaskOK, TaskFields
<1>8. CASE t.at = "closing"
  <2>1. DOMAIN n = TaskFields /\ n.at = "done" /\ n.port = t.port
    BY <1>6, <1>7, <1>8 DEF TaskFields
  <2> HIDE DEF n
  <2>2. TaskOK(n, fwPort)
    BY <1>0, <1>8, <2>1 DEF FwConn, TaskOK, FwAts, TaskFields
  <2>3. Outgoing(c, n, fwSink[c], fwQueue)
    BY <1>0, <1>8, <2>1 DEF FwConn, Outgoing, FwReady
  <2>4. Outgoing(c, n, fwSink[c], fwQueue')
    BY <1>1, <2>3, OutgoingRest
  <2>5. Incoming(n, fwGot[c], fwRead[c])
    BY <1>0, <1>8, <2>1 DEF FwConn, Incoming, FwReady
  <2>6. Owned(c, n, fwQueue', fwHost', fwPort, fwGone, fwGen, fwUp)
    BY <1>0, <1>1, <1>3, <1>5, <1>8, <2>1 DEF FwConn, Owned
  <2> QED  BY <1>0, <1>2, <1>5, <1>6, <2>2, <2>4, <2>5, <2>6, FwServedStep DEF FwTyped, n
<1>9. CASE t.at # "closing"
  <2>1. n = t
    BY <1>6, <1>9
  <2> HIDE DEF n
  <2>4. Outgoing(c, n, fwSink[c], fwQueue')
    BY SMTT(30), <1>0, <1>1, <2>1, OutgoingRest DEF FwConn
  <2>6. Owned(c, n, fwQueue', fwHost', fwPort, fwGone, fwGen, fwUp)
    BY <1>0, <1>1, <1>3, <1>5, <1>9, <2>1 DEF FwConn, Owned
  <2> QED  BY <1>0, <1>2, <1>5, <1>6, <2>1, <2>4, <2>6, FwServedStep DEF FwTyped, n, FwConn
<1> QED  BY <1>8, <1>9

\* What the Host wrote: nothing, the bytes, or the bytes and the end.
SinkAfter(old, new, x) ==
  /\ DOMAIN new = {"bytes", "eof"}
  /\ \/ new.bytes = old.bytes /\ new.eof = old.eof
     \/ new.bytes = old.bytes \o x.bytes /\ new.eof = old.eof
     \/ new.bytes = old.bytes \o x.bytes /\ new.eof = (old.eof \/ x.eof)

\* What the Host wrote is still the beginning of the stream.
LEMMA SinkRun ==
    ASSUME NEW old, NEW new, NEW x, SinkAfter(old, new, x), Continues(x, old),
           IsRun(old.bytes, 0), old.eof => Len(old.bytes) = MaxBytes
    PROVE  /\ DOMAIN new = {"bytes", "eof"} /\ IsRun(new.bytes, 0)
           /\ new.eof => Len(new.bytes) = MaxBytes
           /\ new.bytes = old.bytes \o x.bytes => Len(new.bytes) = Len(old.bytes) + Len(x.bytes)
<1>1. /\ Len(old.bytes) \in Nat /\ Len(x.bytes) \in Nat /\ MaxBytes \in Nat
      /\ IsRun(x.bytes, Len(old.bytes)) /\ Len(old.bytes) + Len(x.bytes) <= MaxBytes
      /\ x.eof => Len(old.bytes) + Len(x.bytes) = MaxBytes
  BY RunLen, FleetAssumption DEF Continues
<1>2. IsRun(x.bytes, 0 + Len(old.bytes))
  BY <1>1
<1>3. IsRun(old.bytes \o x.bytes, 0) /\ Len(old.bytes \o x.bytes) = Len(old.bytes) + Len(x.bytes)
  BY <1>2, RunConcat
<1>4. ASSUME old.eof PROVE Len(old.bytes) + Len(x.bytes) = MaxBytes
  <2> DEFINE a == Len(old.bytes)
             b == Len(x.bytes)
  <2>1. a \in Nat /\ b \in Nat /\ MaxBytes \in Nat /\ a + b <= MaxBytes /\ a = MaxBytes
    BY <1>1, <1>4
  <2> HIDE DEF a, b
  <2>2. a + b = MaxBytes
    BY <2>1
  <2> QED  BY <2>2 DEF a, b
<1> QED  BY <1>1, <1>3, <1>4 DEF SinkAfter

\* What an exchange leaves behind on the Host: sink, read position and answer.
ExchangeDone(c, x) ==
  /\ DOMAIN fwSink' = Conns /\ DOMAIN fwRead' = Conns /\ fwHost' = fwHost
  /\ \A d \in Conns : d # c => fwSink'[d] = fwSink[d] /\ fwRead'[d] = fwRead[d]
  /\ SinkAfter(fwSink[c], fwSink'[c], x)

ReadAfter(c, r) == [fwRead EXCEPT ![c] = fwRead[c] + Len(r.read)]
Reply(c, r) ==
  Fw!Answer(c, "exchanging",
    [[fwTask[c] EXCEPT !.at = "exchanged"]
       EXCEPT !.reply = "Exchanged", !.read = r.read, !.readEof = r.readEof])
ErrorReply(c) ==
  Fw!Answer(c, "exchanging", [[fwTask[c] EXCEPT !.at = "exchanged"] EXCEPT !.reply = "Error"])

ExchangeOk(c, x) ==
  /\ fwSink'[c].bytes = fwSink[c].bytes \o x.bytes
  /\ \E r \in Fw!HostReads(c) : fwRead'[c] = fwRead[c] + Len(r.read) /\ Reply(c, r)

ExchangeFailed(c) == fwRead'[c] = fwRead[c] /\ ErrorReply(c)

\* An exchange succeeds, or fails at one of its steps.
LEMMA FwOutcome ==
    ASSUME FwInv, NEW x \in FwCommands, NEW c \in Conns, x.conn = c,
           Fw!HostExchange(c, x.bytes, x.eof)
    PROVE  ExchangeDone(c, x) /\ (ExchangeOk(c, x) \/ ExchangeFailed(c))
<1> DEFINE old == fwSink[c]
           w == [old EXCEPT !.bytes = old.bytes \o x.bytes]
           cl == [w EXCEPT !.eof = w.eof \/ x.eof]
           written == [fwSink EXCEPT ![c].bytes = old.bytes \o x.bytes]
           closed == [written EXCEPT ![c].eof = written[c].eof \/ x.eof]
           t == [fwTask[c] EXCEPT !.at = "exchanged"]
<1>0. FwConn(c) /\ FwTyped
  BY DEF FwInv
<1>1. DOMAIN fwSink = Conns /\ DOMAIN fwRead = Conns /\ DOMAIN old = {"bytes", "eof"}
  BY <1>0 DEF FwTyped, FwConn, Outgoing
<1>2. /\ DOMAIN w = {"bytes", "eof"} /\ w.bytes = old.bytes \o x.bytes /\ w.eof = old.eof
      /\ DOMAIN cl = {"bytes", "eof"} /\ cl.bytes = old.bytes \o x.bytes /\ cl.eof = (old.eof \/ x.eof)
  BY <1>1
<1>3. written = [fwSink EXCEPT ![c] = w]
  BY <1>1
<1> HIDE DEF w
<1>4. written[c] = w /\ DOMAIN written = Conns /\ \A d \in Conns : d # c => written[d] = fwSink[d]
  BY <1>1, <1>3
<1> HIDE DEF written
<1>5. closed[c] = cl /\ DOMAIN closed = Conns /\ \A d \in Conns : d # c => closed[d] = fwSink[d]
  BY <1>4
<1> HIDE DEF closed, cl
<1>6. ASSUME fwSink' \in {fwSink, written, closed}, fwHost' = fwHost, DOMAIN fwRead' = Conns,
             \A d \in Conns : d # c => fwRead'[d] = fwRead[d]
      PROVE  ExchangeDone(c, x)
  <2>1. SinkAfter(old, fwSink'[c], x)
    <3>1. CASE fwSink' = fwSink
      BY <1>1, <3>1 DEF SinkAfter
    <3>2. CASE fwSink' = written
      BY <1>2, <1>4, <3>2 DEF SinkAfter
    <3>3. CASE fwSink' = closed
      BY <1>2, <1>5, <3>3 DEF SinkAfter
    <3> QED  BY <1>6, <3>1, <3>2, <3>3
  <2> QED  BY <1>1, <1>4, <1>5, <1>6, <2>1 DEF ExchangeDone
<1>7. fwHost' = fwHost
  BY Zenon DEF Fw!HostExchange
<1>8. CASE fwSink' = closed /\ \E r \in Fw!HostReads(c) : fwRead' = ReadAfter(c, r) /\ Reply(c, r)
  <2>1. PICK r \in Fw!HostReads(c) : fwRead' = ReadAfter(c, r) /\ Reply(c, r)
    BY <1>8, Zenon
  <2>2. DOMAIN fwRead' = Conns /\ fwRead'[c] = fwRead[c] + Len(r.read)
        /\ \A d \in Conns : d # c => fwRead'[d] = fwRead[d]
    BY <1>1, <2>1 DEF ReadAfter
  <2>3. fwSink'[c].bytes = fwSink[c].bytes \o x.bytes
    BY <1>2, <1>5, <1>8
  <2>4. ExchangeOk(c, x)
    BY <2>1, <2>2, <2>3, Zenon DEF ExchangeOk
  <2> QED  BY <1>6, <1>7, <1>8, <2>2, <2>4
<1>9. CASE /\ fwSink' \in {fwSink} \cup IF c \in fwHost THEN {written, closed} ELSE {}
           /\ ErrorReply(c) /\ fwRead' = fwRead
  <2>1. ExchangeFailed(c)
    BY <1>9 DEF ExchangeFailed
  <2> QED  BY <1>1, <1>6, <1>7, <1>9, <2>1
<1> QED  BY <1>8, <1>9, Zenon DEF Fw!HostExchange, written, closed, ReadAfter, Reply, ErrorReply

\* What the destination had for the Host comes next.
LEMMA HostReadsNext ==
    ASSUME NEW c, fwRead[c] \in 0 .. MaxBytes, NEW r \in Fw!HostReads(c)
    PROVE  /\ IsRun(r.read, fwRead[c]) /\ fwRead[c] + Len(r.read) \in 0 .. MaxBytes
           /\ r.readEof => fwRead[c] + Len(r.read) = MaxBytes
<1>0. MaxBytes \in Nat /\ fwRead[c] \in Nat /\ Len(<<>>) = 0 /\ Len(<<fwRead[c] + 1>>) = 1
  BY FleetAssumption
<1>1. \/ r = [read |-> <<>>, readEof |-> FALSE]
      \/ r = [read |-> <<fwRead[c] + 1>>, readEof |-> FALSE] /\ fwRead[c] < MaxBytes
      \/ r = [read |-> <<>>, readEof |-> TRUE] /\ ~(fwRead[c] < MaxBytes)
  BY DEF Fw!HostReads
<1>2. \/ r.read = <<>> /\ r.readEof = FALSE
      \/ r.read = <<fwRead[c] + 1>> /\ r.readEof = FALSE /\ fwRead[c] < MaxBytes
      \/ r.read = <<>> /\ r.readEof = TRUE /\ ~(fwRead[c] < MaxBytes)
  BY <1>1
<1>3. IsRun(r.read, fwRead[c])
  BY <1>0, <1>2, RunSmall
<1> DEFINE a == fwRead[c]
           b == Len(r.read)
<1>4. b \in {0, 1} /\ (b = 1 => a < MaxBytes) /\ (r.readEof => b = 0 /\ ~(a < MaxBytes))
      /\ a \in 0 .. MaxBytes /\ MaxBytes \in Nat
  <2>1. CASE r.read = <<>>
    BY <1>0, <1>2, <2>1
  <2>2. CASE r.read # <<>>
    BY <1>0, <1>2, <2>2
  <2> QED  BY <2>1, <2>2
<1> HIDE DEF a, b
<1>5. a + b \in 0 .. MaxBytes /\ (r.readEof => a + b = MaxBytes)
  BY <1>4
<1> QED  BY <1>3, <1>5 DEF a, b

\* The Host exchanges, or fails to.
LEMMA FwHostExchange ==
    ASSUME FwInv, Fw!ServeCommand, fwQueue[1].op = "exchange",
           Fw!HostExchange(fwQueue[1].conn, fwQueue[1].bytes, fwQueue[1].eof)
    PROVE  FwInv'
<1> DEFINE x == fwQueue[1]
           c == fwQueue[1].conn
           t == fwTask[c]
           n == fwTask'[c]
           old == fwSink[c]
           new == fwSink'[c]
<1>1. Shifted(fwQueue, fwQueue') /\ fwUp
  BY FwShift
<1>2. c \in Conns /\ x \in FwCommands /\ Carries(x, c, "exchange") /\ 1 \in 1 .. Len(fwQueue)
  BY <1>1 DEF Shifted, FwCommands, Carries
<1>0. FwConn(c) /\ FwTyped
  BY <1>2 DEF FwInv
<1>3. /\ t.at \in {"exchanging", "closing", "done"} /\ Continues(x, old)
      /\ t.at = "exchanging" => Unsent(t, Len(old.bytes) + Len(x.bytes))
      /\ IsRun(old.bytes, 0) /\ (old.eof => Len(old.bytes) = MaxBytes)
  BY <1>0, <1>2 DEF FwConn, Outgoing
<1>4. /\ \A i \in 1 .. Len(fwQueue') : ~Carries(fwQueue'[i], c, "exchange")
      /\ InClosing(c, fwQueue) => InClosing(c, fwQueue')
      /\ \A i \in 1 .. Len(fwQueue') : Carries(fwQueue'[i], c, "open") =>
           i + 1 \in 1 .. Len(fwQueue) /\ Carries(fwQueue[i + 1], c, "open")
      /\ \A i, j \in 1 .. Len(fwQueue') : Carries(fwQueue'[i], c, "open") /\ Carries(fwQueue'[j], c, "open") => i = j
  <2>1. \A i, j \in 1 .. Len(fwQueue) : Carries(fwQueue[i], c, "open") /\ Carries(fwQueue[j], c, "open") => i = j
    BY <1>0 DEF FwConn, Owned
  <2>2. \A i, j \in 1 .. Len(fwQueue) :
          Carries(fwQueue[i], c, "exchange") /\ Carries(fwQueue[j], c, "exchange") => i = j
    BY <1>0 DEF FwConn, Outgoing
  <2>3. fwQueue[1].op # "close" /\ Carries(fwQueue[1], c, "exchange")
    BY <1>2
  <2> HIDE DEF c
  <2> QED  BY ZenonT(60), <1>1, <2>1, <2>2, <2>3, FwRest
<1>5. ExchangeDone(c, x) /\ (ExchangeOk(c, x) \/ ExchangeFailed(c))
  BY <1>2, FwOutcome
<1>6. /\ DOMAIN new = {"bytes", "eof"} /\ IsRun(new.bytes, 0) /\ (new.eof => Len(new.bytes) = MaxBytes)
      /\ new.bytes = old.bytes \o x.bytes => Len(new.bytes) = Len(old.bytes) + Len(x.bytes)
  <2>1. SinkAfter(old, new, x)
    BY <1>5 DEF ExchangeDone
  <2> HIDE DEF old, new, x
  <2> QED  BY ZenonT(60), <1>3, <2>1, SinkRun
<1>7. /\ DOMAIN t = TaskFields /\ t.at # "idle" /\ fwRead[c] \in 0 .. MaxBytes
      /\ IsRun(fwGot[c].bytes, 0) /\ DOMAIN fwGot[c] = {"bytes", "eof"}
      /\ fwGot[c].eof => Len(fwGot[c].bytes) = MaxBytes
      /\ t.at = "exchanging" => Len(fwGot[c].bytes) = fwRead[c]
  BY SMTT(30), <1>0, <1>3 DEF FwConn, TaskOK, TaskFields, Incoming
<1>8. /\ DOMAIN fwTask' = Conns /\ \A d \in Conns : d # c => fwTask'[d] = fwTask[d]
      /\ t.at # "exchanging" => n = t
      /\ t.at = "exchanging" =>
           /\ DOMAIN n = TaskFields /\ n.at = "exchanged" /\ n.port = t.port /\ n.gen = t.gen
           /\ n.initial = t.initial /\ n.next = t.next
      /\ fwRead'[c] \in 0 .. MaxBytes
      /\ t.at = "exchanging" /\ n.reply = "Exchanged" =>
           /\ new.bytes = old.bytes \o x.bytes
           /\ IsRun(n.read, fwRead[c]) /\ fwRead'[c] = fwRead[c] + Len(n.read)
           /\ n.readEof => fwRead'[c] = MaxBytes
  <2>1. CASE ExchangeOk(c, x)
    <3>1. PICK r \in Fw!HostReads(c) : fwRead'[c] = fwRead[c] + Len(r.read) /\ Reply(c, r)
      BY <2>1, Zenon DEF ExchangeOk
    <3>2. new.bytes = old.bytes \o x.bytes
      BY <2>1 DEF ExchangeOk
    <3>3. /\ IsRun(r.read, fwRead[c]) /\ fwRead[c] + Len(r.read) \in 0 .. MaxBytes
          /\ r.readEof => fwRead[c] + Len(r.read) = MaxBytes
      BY <1>7, <3>1, HostReadsNext
    <3> DEFINE m == [[t EXCEPT !.at = "exchanged"]
                       EXCEPT !.reply = "Exchanged", !.read = r.read, !.readEof = r.readEof]
    <3>4. /\ DOMAIN m = TaskFields /\ m.at = "exchanged" /\ m.port = t.port /\ m.gen = t.gen
          /\ m.initial = t.initial /\ m.next = t.next /\ m.read = r.read /\ m.readEof = r.readEof
      BY <1>7 DEF TaskFields
    <3>5. Fw!Answer(c, "exchanging", m)
      BY <3>1 DEF Reply
    <3> HIDE DEF m
    <3>6. /\ DOMAIN fwTask' = Conns /\ \A d \in Conns : d # c => fwTask'[d] = fwTask[d]
          /\ t.at # "exchanging" => n = t
          /\ t.at = "exchanging" => n = m
      BY <1>0, <1>2, <3>5, FwAnswered
    <3> HIDE DEF n, t, new, old, x, c
    <3> QED  BY <3>1, <3>2, <3>3, <3>4, <3>6
  <2>2. CASE ExchangeFailed(c)
    <3> DEFINE m == [[t EXCEPT !.at = "exchanged"] EXCEPT !.reply = "Error"]
    <3>4. /\ DOMAIN m = TaskFields /\ m.at = "exchanged" /\ m.port = t.port /\ m.gen = t.gen
          /\ m.initial = t.initial /\ m.next = t.next /\ m.reply = "Error"
      BY <1>7 DEF TaskFields
    <3>5. Fw!Answer(c, "exchanging", m) /\ fwRead'[c] = fwRead[c]
      BY <2>2 DEF ErrorReply, ExchangeFailed
    <3> HIDE DEF m
    <3>6. /\ DOMAIN fwTask' = Conns /\ \A d \in Conns : d # c => fwTask'[d] = fwTask[d]
          /\ t.at # "exchanging" => n = t
          /\ t.at = "exchanging" => n = m
      BY <1>0, <1>2, <3>5, FwAnswered
    <3> HIDE DEF n, t, new, old, x, c
    <3> QED  BY <1>7, <3>4, <3>5, <3>6
  <2> QED  BY <1>5, <2>1, <2>2
<1>9. TaskOK(n, fwPort)
  <2>1. TaskOK(t, fwPort)
    BY <1>0 DEF FwConn
  <2> HIDE DEF n, t, c
  <2>2. CASE t.at = "exchanging"
    BY <1>7, <1>8, <2>1, <2>2 DEF TaskOK, FwAts, TaskFields
  <2>3. CASE t.at # "exchanging"
    BY <1>8, <2>1, <2>3
  <2> QED  BY <2>2, <2>3
<1>10. Outgoing(c, n, new, fwQueue')
  <2>1. n.at = "exchanged" /\ n.reply = "Exchanged" => Unsent(n, Len(new.bytes))
    BY <1>3, <1>6, <1>8 DEF Unsent
  <2>2. n.at \in {"exchanged", "closing", "done"}
    BY <1>3, <1>8
  <2> HIDE DEF n, t, new, old, x, c
  <2> QED  BY SMTT(30), <1>4, <1>6, <2>1, <2>2 DEF Outgoing, FwReady
<1>11. Incoming(n, fwGot[c], fwRead'[c])
  <2>1. n.at \in {"exchanged", "closing", "done"} /\ (n.at = "exchanged" => t.at = "exchanging")
    BY <1>3, <1>8
  <2> HIDE DEF n, t, new, old, x, c
  <2> QED  BY <1>7, <1>8, <2>1 DEF Incoming, FwReady
<1>12. Owned(c, n, fwQueue', fwHost', fwPort, fwGone, fwGen, fwUp)
  <2>1. Owned(c, t, fwQueue, fwHost, fwPort, fwGone, fwGen, fwUp) /\ fwHost' = fwHost
    BY <1>0, <1>5 DEF FwConn, ExchangeDone
  <2> HIDE DEF n, t, new, old, x, c
  <2>2. CASE t.at = "exchanging"
    BY <1>4, <1>8, <2>1, <2>2 DEF Owned
  <2>3. CASE t.at # "exchanging"
    BY <1>4, <1>8, <2>1, <2>3 DEF Owned
  <2> QED  BY <2>2, <2>3
<1> QED  BY <1>2, <1>5, <1>8, <1>9, <1>10, <1>11, <1>12, FwServedStep DEF ExchangeDone

\* The Host serves the next command.
LEMMA FwServeCommand == ASSUME FwInv, Fw!ServeCommand PROVE FwInv'
<1>1. Head(fwQueue) = fwQueue[1]
  BY FwShift
<1>2. \/ fwQueue[1].op = "open" /\ Fw!HostOpen(fwQueue[1].conn)
      \/ fwQueue[1].op = "exchange" /\ Fw!HostExchange(fwQueue[1].conn, fwQueue[1].bytes, fwQueue[1].eof)
      \/ fwQueue[1].op = "close" /\ Fw!HostClose(fwQueue[1].conn)
  BY <1>1 DEF Fw!ServeCommand
<1> QED  BY <1>2, FwHostOpen, FwHostExchange, FwHostClose

\* Every step keeps the invariant.
LEMMA FwInvNext == ASSUME FwInv, Fw!FwNext PROVE FwInv'
<1>1. CASE \E p \in Listeners : Fw!AddForward(p) \/ Fw!AddSocks5(p) \/ Fw!AddHttpConnect(p) \/ Fw!Remove(p)
  BY <1>1, FwManager
<1>2. CASE \E c \in Conns : \E p \in Listeners : Fw!Serve(c, p)
  BY <1>2, FwServe
<1>3. CASE \E c \in Conns : Fw!NegotiateSocks5(c) \/ Fw!ReadHttpConnect(c)
  BY <1>3, FwSocks, FwHttp
<1>4. CASE \E c \in Conns : Fw!OpenConnection(c) \/ Fw!Opened(c)
  BY <1>4, FwOpenConnection, FwOpened
<1>5. CASE \E c \in Conns : Fw!Pump(c) \/ Fw!Exchanged(c)
  BY <1>5, FwPump, FwExchanged
<1>6. CASE \E c \in Conns : Fw!Signalled(c) \/ Fw!Aborted(c)
  BY <1>6, FwSignalled
<1>7. CASE Fw!SessionRegisters \/ \E c \in Conns : Fw!AppGone(c)
  BY <1>7, FwAround
<1>8. CASE Fw!ServeCommand \/ Fw!SessionEnds
  BY <1>8, FwServeCommand, FwSessionEnds
<1> QED  BY <1>1, <1>2, <1>3, <1>4, <1>5, <1>6, <1>7, <1>8 DEF Fw!FwNext

\* The fleet's steps, and those of the other components.
LEMMA FwInvStep == FwInv /\ [Next]_vars => FwInv'
<1> SUFFICES ASSUME FwInv, [Next]_vars PROVE FwInv'
  OBVIOUS
<1>1. Fw!FwNext \/ UNCHANGED fwVars
  BY DEF Next, vars, ManagedFsStep, TcpForwardStep, SitePathStep, MachineServiceStep,
     SingleInstanceStep, SiteKitStep, FsQueryStep, InnerSessionStep, ControllerWindowStep,
     LocalCallsStep
<1>2. CASE UNCHANGED fwVars
  <2>1. UNCHANGED <<fwPort, fwTask, fwGone, fwGot, fwSink, fwHost, fwRead, fwQueue, fwGen, fwUp>>
    BY <1>2 DEF fwVars
  <2>2. FwTyped'
    BY <2>1 DEF FwInv, FwTyped
  <2>3. ASSUME NEW c \in Conns PROVE FwConn(c)'
    BY <2>1 DEF FwInv, FwConn
  <2> QED  BY <2>2, <2>3 DEF FwInv
<1> QED  BY <1>1, <1>2, FwInvNext

\* For any number of listeners, connections, bytes and sessions and any chunk:
\* neither stream is reordered, repeated or holed, and an end comes last.
THEOREM StreamsAreIntactThm == Spec => []StreamsAreIntact
<1>1. FwInv => StreamsAreIntact
  <2> SUFFICES ASSUME FwInv PROVE Fw!StreamsAreIntact
    BY DEF StreamsAreIntact
  <2>1. ASSUME NEW c \in Conns
        PROVE  /\ fwSink[c].bytes = Fw!Stream(Len(fwSink[c].bytes))
               /\ fwGot[c].bytes = Fw!Stream(Len(fwGot[c].bytes))
               /\ fwSink[c].eof => Len(fwSink[c].bytes) = MaxBytes
               /\ fwGot[c].eof => Len(fwGot[c].bytes) = MaxBytes
    <3>1. FwConn(c)
      BY DEF FwInv
    <3> QED  BY <3>1, RunStream DEF FwConn, Outgoing, Incoming
  <2> QED  BY <2>1 DEF Fw!StreamsAreIntact
<1> QED  BY <1>1, FwInvInit, FwInvStep, PTL DEF Spec

\* For any number of listeners, connections and sessions: the Host has no
\* connection open that nobody uses or is about to close, unless its listener was
\* removed or its application left a proxy early.
THEOREM HostConnectionIsOwnedThm == Spec => []HostConnectionIsOwned
<1>1. FwInv => HostConnectionIsOwned
  <2> SUFFICES ASSUME FwInv PROVE Fw!HostConnectionIsOwned
    BY DEF HostConnectionIsOwned
  <2>1. ASSUME NEW c \in fwHost, c \in Conns
        PROVE  \/ fwTask[c].at \notin {"done"} \/ Fw!Closing(c) \/ Fw!Removed(c)
               \/ c \in fwGone /\ Fw!Kind(c) # "forward"
    <3>1. FwConn(c)
      BY <2>1 DEF FwInv
    <3> QED  BY <2>1, <3>1 DEF FwConn, Owned, Excused, InClosing, Carries, Fw!Closing, Fw!Removed, Fw!Kind
  <2>2. fwHost \subseteq Conns
    BY DEF FwInv, FwTyped
  <2> QED  BY <2>1, <2>2 DEF Fw!HostConnectionIsOwned
<1> QED  BY <1>1, FwInvInit, FwInvStep, PTL DEF Spec

-----------------------------------------------------------------------------
(* The machine service.                                                    *)

\* What is left of a plan from its step k on.
RestOf(P, k) == SubSeq(P, k, Len(P))

\* The command runs plan P and is at step k.
MsAt(name, P, k) ==
  k \in 1 .. Len(P) + 1 /\ msCmd = [name |-> name, plan |-> RestOf(P, k)]

\* Nothing runs, is due to run or is started at boot.
MsQuiet == msProc = "off" /\ ~msEnabled

\* What the steps that a command has taken make sure of: on a Linux machine,
MsLinuxInstall(k) ==
  /\ MsAt("install", Ms!InstallMachineLinux, k)
  /\ MsQuiet
  /\ k > 1 => "cred" \in msHas

MsLinuxRollback(k) ==
  /\ MsAt("rollback", Ms!CleanupFailedInstall, k)
  /\ MsQuiet
  /\ k > 1 => msUser = "none"
  /\ k > 2 => msGroup = "none"
  /\ k > 3 => "unit" \notin msHas
  /\ k > 4 => "root" \notin msHas /\ "config" \notin msHas
  /\ k > 5 => "bin" \notin msHas
  /\ k > 6 => "cred" \notin msHas

MsLinuxUninstall(k) ==
  /\ MsAt("uninstall", Ms!UninstallMachineLinux, k)
  /\ k > 1 => msProc = "off"
  /\ k > 2 => ~msEnabled
  /\ k > 3 => msUser = "none"
  /\ k > 4 => msGroup = "none"

MsLinux ==
  msOs = "linux" /\ \E k \in Nat : MsLinuxInstall(k) \/ MsLinuxRollback(k) \/ MsLinuxUninstall(k)

\* on Windows,
MsWindowsInstall(k) == MsAt("install", Ms!InstallMachineWindows, k) /\ MsQuiet

MsWindowsRollback(k) == MsAt("rollback", Ms!CleanupWindows, k) /\ MsQuiet

MsWindowsUninstall(k, self) ==
  /\ MsAt("uninstall", Ms!UninstallMachineWindows(self), k)
  /\ k > 3 => "service" \notin msHas

MsWindows ==
  /\ msOs = "windows"
  /\ \E k \in Nat : \/ MsWindowsInstall(k) \/ MsWindowsRollback(k)
                    \/ \E self \in BOOLEAN : MsWindowsUninstall(k, self)

\* and for a user's unit, where a failed install puts back what was there.
MsUnitWas == ~MsQuiet => "unit" \in msBefore

MsUnitInstall(k) == MsAt("install", Ms!InstallUserUnit, k) /\ MsUnitWas

MsRestore == << Ms!Do("restore"), Ms!Do("reload") >>

MsUnitRollback(k) ==
  /\ MsAt("rollback", MsRestore, k)
  /\ MsUnitWas
  /\ k > 1 => msHas = msBefore

MsUnitUninstall(k) ==
  /\ MsAt("uninstall", Ms!UninstallUserUnit, k)
  /\ k > 1 => msProc = "off"
  /\ k > 2 => ~msEnabled

MsUnit ==
  msOs = "user" /\ \E k \in Nat : MsUnitInstall(k) \/ MsUnitRollback(k) \/ MsUnitUninstall(k)

\* The commands of one step, and the uninstall that finds nothing.
MsOne(name, k) ==
  /\ MsAt(name, << Ms!Do(name) >>, k)
  /\ name = "enable" => Ms!Whole \/ (msOs = "windows" /\ "service" \notin msHas)

MsOnes == {"enable", "disable", "start", "stop"}

MsSingle ==
  \/ MsAt("uninstall", <<>>, 1)
  \/ \E name \in MsOnes, k \in Nat : MsOne(name, k)

MsCommand == msCmd = Ms!NoCommand \/ MsLinux \/ MsWindows \/ MsUnit \/ MsSingle

MsBase ==
  /\ msOs \in {"linux", "windows", "user"}
  /\ msOs # "linux" => msUser = "none" /\ msGroup = "none"
  /\ msHelper # "none" \/ msDying => msOs = "windows"
  /\ Ms!IdentityIsKept
  /\ Ms!StartedIsWhole

MsInv == MsBase /\ MsCommand /\ Ms!RollbackIsComplete

\* The first step of what is left, and what is left after it.
LEMMA RestStep ==
    ASSUME NEW S, NEW P \in Seq(S), NEW k \in 1 .. Len(P) + 1
    PROVE  /\ RestOf(P, k) = <<>> => k = Len(P) + 1
           /\ RestOf(P, k) # <<>> =>
                k \in 1 .. Len(P) /\ Head(RestOf(P, k)) = P[k] /\ Tail(RestOf(P, k)) = RestOf(P, k + 1)
           /\ RestOf(P, 1) = P
<1>1. RestOf(P, k) \in Seq(S) /\ Len(RestOf(P, k)) = Len(P) - k + 1
  BY DEF RestOf
<1>2. RestOf(P, 1) = P
  BY DEF RestOf
<1>3. ASSUME k \in 1 .. Len(P)
      PROVE Head(RestOf(P, k)) = P[k] /\ Tail(RestOf(P, k)) = RestOf(P, k + 1)
  BY <1>3 DEF RestOf
<1> QED  BY <1>1, <1>2, <1>3

\* A plan is a sequence of steps.
MsOps == {"secure", "verify", "delete", "await", "spawn", "stop", "disable", "enable", "start",
          "reload", "restore"}
MsThings == {"cred", "group", "user", "bin", "root", "config", "unit", "service"}
MsSteps == [op : MsOps \cup {"make", "drop"}, of : MsThings \cup {"none"}]

\* A step that succeeds, in a plan that is at its step k.
LEMMA MsDone ==
    ASSUME NEW name, NEW P \in Seq(MsSteps), NEW k, MsAt(name, P, k), Ms!StepDone
    PROVE  /\ k \in 1 .. Len(P) /\ Ms!Effect(P[k]) /\ MsAt(name, P, k + 1)'
           /\ UNCHANGED <<msOs, msBefore, msOut, msIssued>>
<1>1. k \in 1 .. Len(P) + 1 /\ msCmd = [name |-> name, plan |-> RestOf(P, k)]
  BY DEF MsAt
<1>2. msCmd.plan = RestOf(P, k) /\ RestOf(P, k) # <<>> /\ Ms!Effect(Head(RestOf(P, k)))
      /\ msCmd' = [msCmd EXCEPT !.plan = Tail(RestOf(P, k))]
  BY <1>1 DEF Ms!StepDone
<1>3. k \in 1 .. Len(P) /\ Head(RestOf(P, k)) = P[k] /\ Tail(RestOf(P, k)) = RestOf(P, k + 1)
  BY <1>1, <1>2, RestStep
<1>4. msCmd' = [name |-> name, plan |-> RestOf(P, k + 1)]
  BY <1>1, <1>2, <1>3
<1>5. k + 1 \in 1 .. Len(P) + 1
  BY <1>3
<1> QED  BY <1>2, <1>3, <1>4, <1>5 DEF MsAt, Ms!StepDone

\* A plan that has run to its end is past its last step.
LEMMA MsOver ==
    ASSUME NEW name, NEW P \in Seq(MsSteps), NEW k, MsAt(name, P, k), Ms!CommandEnds
    PROVE  k = Len(P) + 1 /\ msCmd.name = name
BY RestStep DEF MsAt, Ms!CommandEnds

\* The steps of a plan are told apart by what they do and to what.
LEMMA MsStepFields ==
    ASSUME NEW x
    PROVE  /\ Ms!Make(x).op = "make" /\ Ms!Make(x).of = x
           /\ Ms!Drop(x).op = "drop" /\ Ms!Drop(x).of = x
           /\ Ms!Do(x).op = x /\ Ms!Do(x).of = "none"
BY DEF Ms!Make, Ms!Drop, Ms!Do

\* What making something does.
LEMMA MsMakes ==
    ASSUME NEW x \in MsThings, Ms!Effect(Ms!Make(x))
    PROVE  /\ msHas' = IF x \in {"user", "group"} THEN msHas ELSE msHas \cup {x}
           /\ msUser' = IF x = "user" THEN "ours" ELSE msUser
           /\ msGroup' = IF x = "group" THEN "ours" ELSE msGroup
           /\ ~msLost => ~msLost'
           /\ UNCHANGED <<msProc, msEnabled, msHelper>> /\ (msDying' => msDying)
<1> DEFINE s == Ms!Make(x)
<1>1. s.op = "make" /\ s.of = x /\ Ms!Accounts(s) /\ Ms!Files(s) /\ Ms!Process(s)
  BY MsStepFields DEF Ms!Effect
<1>2. \A y : s # Ms!Drop(y) /\ (y # x => s # Ms!Make(y))
  BY <1>1, MsStepFields
<1> HIDE DEF s
<1>3. msHas' = IF x \in {"user", "group"} THEN msHas ELSE msHas \cup {x}
  BY <1>1 DEF Ms!Files
<1>4. msUser' = IF x = "user" THEN "ours" ELSE msUser
  BY <1>1, <1>2 DEF Ms!Accounts, s
<1>5. msGroup' = IF x = "group" THEN "ours" ELSE msGroup
  BY <1>1, <1>2 DEF Ms!Accounts, s
<1>6. ~msLost => ~msLost'
  BY <1>1, <1>4, <1>5 DEF Ms!Accounts
<1>7. UNCHANGED <<msProc, msEnabled, msHelper>>
  BY <1>1 DEF Ms!Process
<1>8. msDying' => msDying
  BY <1>1 DEF Ms!Process
<1> QED  BY <1>3, <1>4, <1>5, <1>6, <1>7, <1>8

\* What dropping a file, an entry or a tree does.
LEMMA MsDrops ==
    ASSUME NEW x \in MsThings \ {"user", "group"}, Ms!Effect(Ms!Drop(x))
    PROVE  /\ msHas' = msHas \ (IF x = "root" THEN {"root", "config"} ELSE {x})
           /\ ~msLost => ~msLost'
           /\ UNCHANGED <<msUser, msGroup, msProc, msEnabled, msHelper>> /\ (msDying' => msDying)
<1> DEFINE s == Ms!Drop(x)
<1>1. s.op = "drop" /\ s.of = x /\ Ms!Accounts(s) /\ Ms!Files(s) /\ Ms!Process(s)
  BY MsStepFields DEF Ms!Effect
<1>2. \A y : s # Ms!Make(y) /\ (y # x => s # Ms!Drop(y))
  BY <1>1, MsStepFields
<1> HIDE DEF s
<1>3. msHas' = msHas \ (IF x = "root" THEN {"root", "config"} ELSE {x})
  BY <1>1 DEF Ms!Files, Ms!Gone
<1>4. UNCHANGED <<msUser, msGroup>>
  BY <1>1, <1>2 DEF Ms!Accounts
<1>5. ~msLost => ~msLost'
  BY <1>1, <1>4 DEF Ms!Accounts
<1>6. UNCHANGED <<msProc, msEnabled, msHelper>> /\ (msDying' => msDying)
  BY <1>1 DEF Ms!Process
<1> QED  BY <1>3, <1>4, <1>5, <1>6

\* What dropping the account or its group does: only Clew's own goes.
LEMMA MsDropsAccount ==
    ASSUME NEW x \in {"user", "group"}, Ms!Effect(Ms!Drop(x)), ~msLost
    PROVE  /\ msHas' = msHas \ {x}
           /\ msUser' = IF x = "user" THEN "none" ELSE msUser
           /\ msGroup' \in {msGroup, "none"} /\ (x = "group" => msGroup' = "none")
           /\ ~msLost'
           /\ UNCHANGED <<msProc, msEnabled, msHelper>> /\ (msDying' => msDying)
<1> DEFINE s == Ms!Drop(x)
<1>1. s.op = "drop" /\ s.of = x /\ Ms!Accounts(s) /\ Ms!Files(s) /\ Ms!Process(s) /\ Ms!Allowed(s)
  BY MsStepFields DEF Ms!Effect
<1>2. \A y : s # Ms!Make(y) /\ (y # x => s # Ms!Drop(y)) /\ s = Ms!Drop(x)
  BY <1>1, MsStepFields
<1> HIDE DEF s
<1>3. msHas' = msHas \ {x}
  BY <1>1 DEF Ms!Files, Ms!Gone
<1>4. msUser' = IF x = "user" THEN "none" ELSE msUser
  BY <1>1, <1>2 DEF Ms!Accounts
<1>5. msGroup' \in {msGroup, "none"} /\ (x = "group" => msGroup' = "none")
  BY <1>1, <1>2 DEF Ms!Accounts
<1>6. (x = "user" => msUser # "foreign" /\ msGroup # "foreign") /\ (x = "group" => msGroup # "foreign")
  BY <1>1, <1>2 DEF Ms!Allowed, Ms!VerifyServiceAccount
<1>7. ~msLost'
  BY <1>1, <1>4, <1>5, <1>6 DEF Ms!Accounts
<1>8. UNCHANGED <<msProc, msEnabled, msHelper>> /\ (msDying' => msDying)
  BY <1>1 DEF Ms!Process
<1> QED  BY <1>3, <1>4, <1>5, <1>7, <1>8

\* What the other steps do.
LEMMA MsDoes ==
    ASSUME NEW x \in MsOps, Ms!Effect(Ms!Do(x))
    PROVE  /\ msHas' = IF x = "restore" THEN msBefore ELSE msHas
           /\ ~msLost => ~msLost'
           /\ UNCHANGED <<msUser, msGroup>>
           /\ x = "start" => Ms!Whole
           /\ x = "await" => "service" \notin msHas
           /\ x = "enable" /\ msOs = "windows" => "service" \in msHas
           /\ x \notin {"start", "stop"} => msProc' = msProc
           /\ x = "stop" => msProc' \in {msProc, "off"} /\ (msOs # "windows" => msProc' = "off")
           /\ x # "enable" => (msEnabled' => msEnabled)
           /\ x = "disable" => ~msEnabled'
           /\ x # "delete" => (msDying' => msDying)
           /\ x # "spawn" => msHelper' = msHelper
<1> DEFINE s == Ms!Do(x)
<1>1. s.op = x /\ Ms!Accounts(s) /\ Ms!Files(s) /\ Ms!Process(s) /\ Ms!Allowed(s)
  BY MsStepFields DEF Ms!Effect
<1>2. \A y : s # Ms!Make(y) /\ s # Ms!Drop(y) /\ s = Ms!Do(x)
  BY <1>1, MsStepFields DEF MsOps
<1> HIDE DEF s
<1>3. msHas' = IF x = "restore" THEN msBefore ELSE msHas
  BY <1>1 DEF Ms!Files, MsOps
<1>4. UNCHANGED <<msUser, msGroup>>
  BY <1>1, <1>2 DEF Ms!Accounts
<1>5. ~msLost => ~msLost'
  BY <1>1, <1>4 DEF Ms!Accounts
<1>6. /\ x = "start" => Ms!Whole
      /\ x = "await" => "service" \notin msHas
      /\ x = "enable" /\ msOs = "windows" => "service" \in msHas
  BY <1>1, <1>2 DEF Ms!Allowed
<1>7. /\ x \notin {"start", "stop"} => msProc' = msProc
      /\ x = "stop" => msProc' \in {msProc, "off"} /\ (msOs # "windows" => msProc' = "off")
  BY <1>1 DEF Ms!Process, MsOps
<1>8. (x # "enable" => (msEnabled' => msEnabled)) /\ (x = "disable" => ~msEnabled')
  BY <1>1 DEF Ms!Process, MsOps
<1>9. (x # "delete" => (msDying' => msDying)) /\ (x # "spawn" => msHelper' = msHelper)
  BY <1>1 DEF Ms!Process, MsOps
<1> QED  BY <1>3, <1>4, <1>5, <1>6, <1>7, <1>8, <1>9

\* A step that fails, in a plan that is at its step k.
LEMMA MsFails ==
    ASSUME NEW name, NEW P \in Seq(MsSteps), NEW k, MsAt(name, P, k), Ms!StepFails
    PROVE  /\ k \in 1 .. Len(P)
           /\ Ms!NoEffect \/ (P[k].op = "make" /\ Ms!Effect(P[k]))
           /\ \/ /\ name = "install" /\ (msOs = "user" => P[k].op # "make")
                 /\ msCmd' = [name |-> "rollback", plan |-> Ms!Rollback]
              \/ name = "rollback" /\ msOs = "windows" /\ MsAt(name, P, k + 1)'
              \/ msCmd' = Ms!NoCommand /\ msOut' = "failed"
           /\ UNCHANGED <<msOs, msBefore>>
<1>1. k \in 1 .. Len(P) + 1 /\ msCmd = [name |-> name, plan |-> RestOf(P, k)]
  BY DEF MsAt
<1>2. msCmd.plan = RestOf(P, k) /\ RestOf(P, k) # <<>> /\ msCmd.name = name
  BY <1>1 DEF Ms!StepFails
<1>3. k \in 1 .. Len(P) /\ Head(RestOf(P, k)) = P[k] /\ Tail(RestOf(P, k)) = RestOf(P, k + 1)
  BY <1>1, <1>2, RestStep
<1>4. Head(msCmd.plan) = P[k] /\ Tail(msCmd.plan) = RestOf(P, k + 1)
  BY <1>2, <1>3
<1>5. k + 1 \in 1 .. Len(P) + 1
  BY <1>3
<1>6. msCmd' = [msCmd EXCEPT !.plan = Tail(@)] => MsAt(name, P, k + 1)'
  <2>1. SUFFICES ASSUME msCmd' = [msCmd EXCEPT !.plan = Tail(@)]
                 PROVE  msCmd' = [name |-> name, plan |-> RestOf(P, k + 1)]
    BY <1>5 DEF MsAt
  <2> QED  BY <1>1, <1>3, <2>1
<1> QED  BY <1>2, <1>3, <1>4, <1>6 DEF Ms!StepFails, Ms!RollsBack, Ms!GoesOn

\* The plans.
LEMMA MsLinuxPlans ==
    /\ LET P == Ms!InstallMachineLinux IN
         /\ P \in Seq(MsSteps) /\ Len(P) = 8
         /\ P[1] = Ms!Make("cred") /\ P[2] = Ms!Make("group") /\ P[3] = Ms!Make("user")
         /\ P[4] = Ms!Make("bin") /\ P[5] = Ms!Make("root") /\ P[6] = Ms!Make("config")
         /\ P[7] = Ms!Make("unit") /\ P[8] = Ms!Do("reload")
    /\ LET P == Ms!CleanupFailedInstall IN
         /\ P \in Seq(MsSteps) /\ Len(P) = 6
         /\ P[1] = Ms!Drop("user") /\ P[2] = Ms!Drop("group") /\ P[3] = Ms!Drop("unit")
         /\ P[4] = Ms!Drop("root") /\ P[5] = Ms!Drop("bin") /\ P[6] = Ms!Drop("cred")
    /\ LET P == Ms!UninstallMachineLinux IN
         /\ P \in Seq(MsSteps) /\ Len(P) = 9
         /\ P[1] = Ms!Do("stop") /\ P[2] = Ms!Do("disable") /\ P[3] = Ms!Drop("user")
         /\ P[4] = Ms!Drop("group") /\ P[5] = Ms!Drop("root") /\ P[6] = Ms!Drop("bin")
         /\ P[7] = Ms!Drop("unit") /\ P[8] = Ms!Drop("cred") /\ P[9] = Ms!Do("reload")
<1>1. /\ \A x \in MsThings : Ms!Make(x) \in MsSteps /\ Ms!Drop(x) \in MsSteps
      /\ \A x \in MsOps : Ms!Do(x) \in MsSteps
  BY DEF Ms!Make, Ms!Drop, Ms!Do, MsSteps
<1>2. /\ Ms!Make("cred") \in MsSteps /\ Ms!Make("group") \in MsSteps /\ Ms!Make("user") \in MsSteps
      /\ Ms!Make("bin") \in MsSteps /\ Ms!Make("root") \in MsSteps /\ Ms!Make("config") \in MsSteps
      /\ Ms!Make("unit") \in MsSteps /\ Ms!Do("reload") \in MsSteps /\ Ms!Do("stop") \in MsSteps
      /\ Ms!Do("disable") \in MsSteps /\ Ms!Drop("user") \in MsSteps /\ Ms!Drop("group") \in MsSteps
      /\ Ms!Drop("unit") \in MsSteps /\ Ms!Drop("root") \in MsSteps /\ Ms!Drop("bin") \in MsSteps
      /\ Ms!Drop("cred") \in MsSteps
  BY <1>1 DEF MsThings, MsOps
<1> QED  BY <1>2 DEF Ms!InstallMachineLinux, Ms!CleanupFailedInstall, Ms!UninstallMachineLinux

\* The plans on Windows and for a user's unit are sequences of steps too.
LEMMA MsOtherPlans ==
    /\ LET P == Ms!InstallMachineWindows IN
         /\ P \in Seq(MsSteps) /\ Len(P) = 5
         /\ P[1] = Ms!Make("service") /\ P[2] = Ms!Do("secure") /\ P[3] = Ms!Make("root")
         /\ P[4] = Ms!Make("config") /\ P[5] = Ms!Do("verify")
    /\ LET P == Ms!CleanupWindows IN
         /\ P \in Seq(MsSteps) /\ Len(P) = 3
         /\ P[1] = Ms!Do("delete") /\ P[2] = Ms!Do("await") /\ P[3] = Ms!Drop("root")
    /\ \A self \in BOOLEAN : LET P == Ms!UninstallMachineWindows(self) IN
         /\ P \in Seq(MsSteps) /\ Len(P) = 4
         /\ P[1] = Ms!Do("stop") /\ P[2] = Ms!Do("delete") /\ P[3] = Ms!Do("await")
         /\ P[4] \in {Ms!Do("spawn"), Ms!Drop("root")}
    /\ LET P == Ms!InstallUserUnit IN
         /\ P \in Seq(MsSteps) /\ Len(P) = 2 /\ P[1] = Ms!Make("unit") /\ P[2] = Ms!Do("reload")
    /\ LET P == Ms!UninstallUserUnit IN
         /\ P \in Seq(MsSteps) /\ Len(P) = 4
         /\ P[1] = Ms!Do("stop") /\ P[2] = Ms!Do("disable") /\ P[3] = Ms!Drop("unit")
         /\ P[4] = Ms!Do("reload")
    /\ LET P == MsRestore IN
         /\ P \in Seq(MsSteps) /\ Len(P) = 2 /\ P[1] = Ms!Do("restore") /\ P[2] = Ms!Do("reload")
    /\ \A name \in MsOnes : LET P == << Ms!Do(name) >> IN
         P \in Seq(MsSteps) /\ Len(P) = 1 /\ P[1] = Ms!Do(name)
    /\ <<>> \in Seq(MsSteps) /\ Len(<<>>) = 0
<1>1. /\ \A x \in MsThings : Ms!Make(x) \in MsSteps /\ Ms!Drop(x) \in MsSteps
      /\ \A x \in MsOps : Ms!Do(x) \in MsSteps
  BY DEF Ms!Make, Ms!Drop, Ms!Do, MsSteps
<1>2. /\ Ms!Make("service") \in MsSteps /\ Ms!Make("root") \in MsSteps /\ Ms!Make("config") \in MsSteps
      /\ Ms!Make("unit") \in MsSteps /\ Ms!Do("secure") \in MsSteps /\ Ms!Do("verify") \in MsSteps
      /\ Ms!Do("delete") \in MsSteps /\ Ms!Do("await") \in MsSteps /\ Ms!Do("spawn") \in MsSteps
      /\ Ms!Do("stop") \in MsSteps /\ Ms!Do("disable") \in MsSteps /\ Ms!Do("enable") \in MsSteps
      /\ Ms!Do("start") \in MsSteps /\ Ms!Do("reload") \in MsSteps /\ Ms!Do("restore") \in MsSteps
      /\ Ms!Drop("root") \in MsSteps /\ Ms!Drop("unit") \in MsSteps
  BY <1>1 DEF MsThings, MsOps
<1>3. ASSUME NEW self \in BOOLEAN
      PROVE  LET P == Ms!UninstallMachineWindows(self) IN
         /\ P \in Seq(MsSteps) /\ Len(P) = 4
         /\ P[1] = Ms!Do("stop") /\ P[2] = Ms!Do("delete") /\ P[3] = Ms!Do("await")
         /\ P[4] \in {Ms!Do("spawn"), Ms!Drop("root")}
  BY <1>2 DEF Ms!UninstallMachineWindows
<1>4. ASSUME NEW name \in MsOnes
      PROVE  << Ms!Do(name) >> \in Seq(MsSteps) /\ Len(<< Ms!Do(name) >>) = 1
             /\ << Ms!Do(name) >>[1] = Ms!Do(name)
  BY <1>2 DEF MsOnes
<1> QED
  BY <1>2, <1>3, <1>4 DEF Ms!InstallMachineWindows, Ms!CleanupWindows, Ms!InstallUserUnit,
                          Ms!UninstallUserUnit, MsRestore

\* A command that runs is not the absence of one, and then nothing is reported.
LEMMA MsBusy ==
    ASSUME NEW name, NEW P, NEW k, MsAt(name, P, k), name # "none"
    PROVE  msCmd # Ms!NoCommand /\ Ms!RollbackIsComplete
<1>1. msCmd.name = name /\ Ms!NoCommand.name = "none"
  BY DEF MsAt, Ms!NoCommand
<1> QED  BY <1>1 DEF Ms!RollbackIsComplete

\* A step of an install on a Linux machine: the credential is there first.
LEMMA MsLinuxInstallDone ==
    ASSUME MsBase, msOs = "linux", NEW k \in Nat, MsLinuxInstall(k), Ms!StepDone
    PROVE  MsBase' /\ MsLinux'
<1> DEFINE P == Ms!InstallMachineLinux
<1>1. /\ P \in Seq(MsSteps) /\ Len(P) = 8
      /\ P[1] = Ms!Make("cred") /\ P[2] = Ms!Make("group") /\ P[3] = Ms!Make("user")
      /\ P[4] = Ms!Make("bin") /\ P[5] = Ms!Make("root") /\ P[6] = Ms!Make("config")
      /\ P[7] = Ms!Make("unit") /\ P[8] = Ms!Do("reload")
  BY MsLinuxPlans
<1> HIDE DEF P
<1>2. MsAt("install", P, k) /\ MsQuiet /\ (k > 1 => "cred" \in msHas)
  BY DEF MsLinuxInstall, P
<1>3. k \in 1 .. 8 /\ Ms!Effect(P[k]) /\ MsAt("install", P, k + 1)' /\ msOs' = msOs
  BY <1>1, <1>2, MsDone
<1>4. /\ MsQuiet' /\ "cred" \in msHas' /\ ~msLost' /\ msHelper' = msHelper /\ (msDying' => msDying)
      /\ Ms!IdentityIsKept'
  <2>1. CASE k = 8
    <3>1. Ms!Effect(Ms!Do("reload")) /\ "reload" \in MsOps
      BY <1>1, <1>3, <2>1 DEF MsOps
    <3> QED  BY <1>2, <2>1, <3>1, MsDoes DEF MsBase, MsQuiet, Ms!IdentityIsKept
  <2>2. CASE k \in 1 .. 7
    <3>1. PICK x \in MsThings : Ms!Effect(Ms!Make(x)) /\ (k = 1 => x = "cred")
      BY <1>1, <1>3, <2>2 DEF MsThings
    <3>2. "cred" \in msHas'
      BY <1>2, <1>3, <3>1, MsMakes
    <3> QED  BY <1>2, <3>1, <3>2, MsMakes DEF MsBase, MsQuiet, Ms!IdentityIsKept
  <2> QED  BY <1>3, <2>1, <2>2
<1>5. MsBase'
  BY <1>3, <1>4 DEF MsBase, MsQuiet, Ms!StartedIsWhole
<1>6. MsLinuxInstall(k + 1)'
  BY <1>3, <1>4 DEF MsLinuxInstall, P
<1> QED  BY <1>3, <1>5, <1>6 DEF MsLinux

\* A step of its rollback: the account goes before the credential that proves it.
LEMMA MsLinuxRollbackDone ==
    ASSUME MsBase, msOs = "linux", NEW k \in Nat, MsLinuxRollback(k), Ms!StepDone
    PROVE  MsBase' /\ MsLinux'
<1> DEFINE P == Ms!CleanupFailedInstall
<1>1. /\ P \in Seq(MsSteps) /\ Len(P) = 6
      /\ P[1] = Ms!Drop("user") /\ P[2] = Ms!Drop("group") /\ P[3] = Ms!Drop("unit")
      /\ P[4] = Ms!Drop("root") /\ P[5] = Ms!Drop("bin") /\ P[6] = Ms!Drop("cred")
  BY MsLinuxPlans
<1> HIDE DEF P
<1>2. /\ MsAt("rollback", P, k) /\ MsQuiet
      /\ (k > 1 => msUser = "none") /\ (k > 2 => msGroup = "none") /\ (k > 3 => "unit" \notin msHas)
      /\ (k > 4 => "root" \notin msHas /\ "config" \notin msHas)
      /\ (k > 5 => "bin" \notin msHas)
  BY DEF MsLinuxRollback, P
<1>3. k \in 1 .. 6 /\ Ms!Effect(P[k]) /\ MsAt("rollback", P, k + 1)' /\ msOs' = msOs
  BY <1>1, <1>2, MsDone
<1>4. /\ MsQuiet' /\ msHas' \subseteq msHas /\ msHelper' = msHelper /\ (msDying' => msDying)
      /\ Ms!IdentityIsKept'
      /\ msUser' = "none" /\ (k > 1 => msGroup' = "none") /\ (k > 2 => "unit" \notin msHas')
      /\ (k > 3 => "root" \notin msHas' /\ "config" \notin msHas')
      /\ (k > 4 => "bin" \notin msHas') /\ (k > 5 => "cred" \notin msHas')
  <2>1. CASE k \in {1, 2}
    <3>1. PICK x \in {"user", "group"} : /\ Ms!Effect(Ms!Drop(x)) /\ (k = 1 => x = "user")
                                        /\ (k = 2 => x = "group")
      BY <1>1, <1>3, <2>1
    <3>2. ~msLost /\ ("ours" \in {msUser, msGroup} => "cred" \in msHas)
      BY DEF MsBase, Ms!IdentityIsKept
    <3> QED  BY <1>2, <2>1, <3>1, <3>2, MsDropsAccount DEF MsQuiet, Ms!IdentityIsKept
  <2>2. CASE k \in 3 .. 6
    <3>1. PICK x \in MsThings \ {"user", "group"} :
            /\ Ms!Effect(Ms!Drop(x)) /\ (k = 3 => x = "unit") /\ (k = 4 => x = "root")
            /\ (k = 5 => x = "bin") /\ (k = 6 => x = "cred")
      BY <1>1, <1>3, <2>2 DEF MsThings
    <3>2. ~msLost /\ ("ours" \in {msUser, msGroup} => "cred" \in msHas)
      BY DEF MsBase, Ms!IdentityIsKept
    <3> QED  BY <1>2, <2>2, <3>1, <3>2, MsDrops DEF MsQuiet, Ms!IdentityIsKept
  <2> QED  BY <1>3, <2>1, <2>2
<1>5. MsBase'
  BY <1>3, <1>4 DEF MsBase, MsQuiet, Ms!StartedIsWhole
<1>6. MsLinuxRollback(k + 1)'
  BY <1>3, <1>4 DEF MsLinuxRollback, P
<1> QED  BY <1>3, <1>5, <1>6 DEF MsLinux

\* A step of an uninstall: stopped and disabled before anything is taken away.
LEMMA MsLinuxUninstallDone ==
    ASSUME MsBase, msOs = "linux", NEW k \in Nat, MsLinuxUninstall(k), Ms!StepDone
    PROVE  MsBase' /\ MsLinux'
<1> DEFINE P == Ms!UninstallMachineLinux
<1>1. /\ P \in Seq(MsSteps) /\ Len(P) = 9
      /\ P[1] = Ms!Do("stop") /\ P[2] = Ms!Do("disable") /\ P[3] = Ms!Drop("user")
      /\ P[4] = Ms!Drop("group") /\ P[5] = Ms!Drop("root") /\ P[6] = Ms!Drop("bin")
      /\ P[7] = Ms!Drop("unit") /\ P[8] = Ms!Drop("cred") /\ P[9] = Ms!Do("reload")
  BY MsLinuxPlans
<1> HIDE DEF P
<1>2. /\ MsAt("uninstall", P, k)
      /\ (k > 1 => msProc = "off") /\ (k > 2 => ~msEnabled)
      /\ (k > 3 => msUser = "none") /\ (k > 4 => msGroup = "none")
  BY DEF MsLinuxUninstall, P
<1>3. k \in 1 .. 9 /\ Ms!Effect(P[k]) /\ MsAt("uninstall", P, k + 1)' /\ msOs' = msOs
  BY <1>1, <1>2, MsDone
<1>4. ~msLost /\ ("ours" \in {msUser, msGroup} => "cred" \in msHas)
  BY DEF MsBase, Ms!IdentityIsKept
<1>5. /\ msProc' = "off" /\ (k > 1 => ~msEnabled') /\ msHelper' = msHelper /\ (msDying' => msDying)
      /\ (k > 2 => msUser' = "none") /\ (k > 3 => msGroup' = "none")
      /\ (msEnabled' => msEnabled) /\ (k = 1 => UNCHANGED <<msHas, msUser>>)
      /\ Ms!IdentityIsKept'
  <2>1. CASE k \in {1, 2, 9}
    <3>1. PICK x \in MsOps : /\ Ms!Effect(Ms!Do(x)) /\ (k = 1 => x = "stop") /\ (k = 2 => x = "disable")
                             /\ (k = 9 => x = "reload")
      BY <1>1, <1>3, <2>1 DEF MsOps
    <3>2. UNCHANGED <<msHas, msUser, msGroup>> /\ ~msLost'
      BY <1>4, <2>1, <3>1, MsDoes
    <3>3. msProc' = "off" /\ msHelper' = msHelper /\ (msDying' => msDying)
      BY <1>2, <2>1, <3>1, MsDoes
    <3>4. (k > 1 => ~msEnabled') /\ (msEnabled' => msEnabled)
      BY <1>2, <2>1, <3>1, MsDoes
    <3> QED  BY <1>2, <1>4, <2>1, <3>2, <3>3, <3>4 DEF Ms!IdentityIsKept
  <2>2. CASE k \in {3, 4}
    <3>1. PICK x \in {"user", "group"} : /\ Ms!Effect(Ms!Drop(x)) /\ (k = 3 => x = "user")
                                        /\ (k = 4 => x = "group")
      BY <1>1, <1>3, <2>2
    <3> QED  BY <1>2, <1>4, <2>2, <3>1, MsDropsAccount DEF Ms!IdentityIsKept
  <2>3. CASE k \in 5 .. 8
    <3>1. PICK x \in MsThings \ {"user", "group"} : Ms!Effect(Ms!Drop(x))
      BY <1>1, <1>3, <2>3 DEF MsThings
    <3> QED  BY <1>2, <1>4, <2>3, <3>1, MsDrops DEF Ms!IdentityIsKept
  <2> QED  BY <1>3, <2>1, <2>2, <2>3
<1>6. Ms!StartedIsWhole'
  <2>1. CASE k > 1
    BY <1>5, <2>1 DEF Ms!StartedIsWhole
  <2>2. CASE k = 1
    <3>1. UNCHANGED <<msHas, msUser, msOs>>
      BY <1>3, <1>5, <2>2
    <3>2. Ms!Whole => Ms!Whole'
      BY <3>1 DEF Ms!Whole
    <3> QED  BY <1>5, <3>2 DEF MsBase, Ms!StartedIsWhole
  <2> QED  BY <1>3, <2>1, <2>2
<1>7. MsBase'
  BY <1>3, <1>5, <1>6 DEF MsBase
<1>8. MsLinuxUninstall(k + 1)'
  BY <1>3, <1>5 DEF MsLinuxUninstall, P
<1> QED  BY <1>3, <1>7, <1>8 DEF MsLinux

\* Windows: steps of an install and of its rollback, with nothing running.
LEMMA MsWindowsQuiet ==
    ASSUME MsBase, msOs = "windows", msOs' = "windows", MsQuiet, NEW s,
           \/ \E x \in MsThings \ {"user", "group"} : s = Ms!Make(x) \/ s = Ms!Drop(x)
           \/ \E x \in MsOps \ {"start", "enable", "restore"} : s = Ms!Do(x),
           Ms!Effect(s)
    PROVE  MsBase' /\ MsQuiet'
<1>1. CASE \E x \in MsThings \ {"user", "group"} : s = Ms!Make(x) \/ s = Ms!Drop(x)
  <2>1. PICK x \in MsThings \ {"user", "group"} : s = Ms!Make(x) \/ s = Ms!Drop(x)
    BY <1>1
  <2>2. /\ ~msLost => ~msLost'
        /\ UNCHANGED <<msUser, msGroup, msProc, msEnabled>>
    BY <2>1, MsMakes, MsDrops
  <2> QED  BY <2>2 DEF MsBase, MsQuiet, Ms!IdentityIsKept, Ms!StartedIsWhole
<1>2. CASE \E x \in MsOps \ {"start", "enable", "restore"} : s = Ms!Do(x)
  <2>1. PICK x \in MsOps \ {"start", "enable", "restore"} : s = Ms!Do(x)
    BY <1>2
  <2>2. /\ ~msLost => ~msLost'
        /\ UNCHANGED <<msUser, msGroup>>
        /\ msProc' = "off" /\ (msEnabled' => msEnabled)
    BY <2>1, MsDoes DEF MsQuiet
  <2> QED  BY <2>2 DEF MsBase, MsQuiet, Ms!IdentityIsKept, Ms!StartedIsWhole
<1> QED  BY <1>1, <1>2

\* What is deleted on Windows is deleted when the entry is gone.
LEMMA MsWindowsDone ==
    ASSUME MsBase, MsWindows, Ms!StepDone
    PROVE  MsBase' /\ MsWindows'
<1>1. PICK k \in Nat : \/ MsWindowsInstall(k) \/ MsWindowsRollback(k)
                       \/ \E self \in BOOLEAN : MsWindowsUninstall(k, self)
  BY DEF MsWindows
<1>2. CASE MsWindowsInstall(k)
  <2> DEFINE P == Ms!InstallMachineWindows
  <2>1. /\ P \in Seq(MsSteps) /\ Len(P) = 5
        /\ P[1] = Ms!Make("service") /\ P[2] = Ms!Do("secure") /\ P[3] = Ms!Make("root")
        /\ P[4] = Ms!Make("config") /\ P[5] = Ms!Do("verify")
    BY MsOtherPlans
  <2>2. MsAt("install", P, k) /\ MsQuiet
    BY <1>2 DEF MsWindowsInstall
  <2> HIDE DEF P
  <2>3. k \in 1 .. 5 /\ Ms!Effect(P[k]) /\ MsAt("install", P, k + 1)' /\ msOs' = msOs
    BY <2>1, <2>2, MsDone
  <2>4. \/ \E x \in MsThings \ {"user", "group"} : P[k] = Ms!Make(x) \/ P[k] = Ms!Drop(x)
        \/ \E x \in MsOps \ {"start", "enable", "restore"} : P[k] = Ms!Do(x)
    <3>1. /\ {"service", "root", "config"} \subseteq MsThings \ {"user", "group"}
          /\ {"secure", "verify"} \subseteq MsOps \ {"start", "enable", "restore"}
      BY DEF MsThings, MsOps
    <3> QED  BY <2>1, <2>3, <3>1
  <2>5. MsBase' /\ MsQuiet'
    BY <2>2, <2>3, <2>4, MsWindowsQuiet DEF MsWindows
  <2> QED  BY <2>3, <2>5 DEF MsWindows, MsWindowsInstall, P
<1>3. CASE MsWindowsRollback(k)
  <2> DEFINE P == Ms!CleanupWindows
  <2>1. /\ P \in Seq(MsSteps) /\ Len(P) = 3
        /\ P[1] = Ms!Do("delete") /\ P[2] = Ms!Do("await") /\ P[3] = Ms!Drop("root")
    BY MsOtherPlans
  <2>2. MsAt("rollback", P, k) /\ MsQuiet
    BY <1>3 DEF MsWindowsRollback
  <2> HIDE DEF P
  <2>3. k \in 1 .. 3 /\ Ms!Effect(P[k]) /\ MsAt("rollback", P, k + 1)' /\ msOs' = msOs
    BY <2>1, <2>2, MsDone
  <2>4. \/ \E x \in MsThings \ {"user", "group"} : P[k] = Ms!Make(x) \/ P[k] = Ms!Drop(x)
        \/ \E x \in MsOps \ {"start", "enable", "restore"} : P[k] = Ms!Do(x)
    <3>1. /\ {"root"} \subseteq MsThings \ {"user", "group"}
          /\ {"delete", "await"} \subseteq MsOps \ {"start", "enable", "restore"}
      BY DEF MsThings, MsOps
    <3> QED  BY <2>1, <2>3, <3>1
  <2>5. MsBase' /\ MsQuiet'
    BY <2>2, <2>3, <2>4, MsWindowsQuiet DEF MsWindows
  <2> QED  BY <2>3, <2>5 DEF MsWindows, MsWindowsRollback, P
<1>4. CASE \E self \in BOOLEAN : MsWindowsUninstall(k, self)
  <2>0. PICK self \in BOOLEAN : MsWindowsUninstall(k, self)
    BY <1>4
  <2> DEFINE P == Ms!UninstallMachineWindows(self)
  <2>1. /\ P \in Seq(MsSteps) /\ Len(P) = 4
        /\ P[1] = Ms!Do("stop") /\ P[2] = Ms!Do("delete") /\ P[3] = Ms!Do("await")
        /\ P[4] \in {Ms!Do("spawn"), Ms!Drop("root")}
    BY MsOtherPlans
  <2>2. MsAt("uninstall", P, k) /\ (k > 3 => "service" \notin msHas)
    BY <2>0 DEF MsWindowsUninstall
  <2> HIDE DEF P
  <2>3. k \in 1 .. 4 /\ Ms!Effect(P[k]) /\ MsAt("uninstall", P, k + 1)' /\ msOs' = msOs
    BY <2>1, <2>2, MsDone
  <2>4. CASE k \in 1 .. 3
    <3>1. PICK x \in MsOps \ {"start", "enable", "restore"} : P[k] = Ms!Do(x) /\ (k = 3 => x = "await")
      BY <2>1, <2>3, <2>4 DEF MsOps
    <3>2. /\ ~msLost => ~msLost'
          /\ UNCHANGED <<msUser, msGroup, msHas>>
          /\ msProc' \in {msProc, "off"} /\ (msEnabled' => msEnabled)
          /\ k = 3 => "service" \notin msHas
      BY <2>3, <3>1, MsDoes
    <3>3. Ms!Whole => Ms!Whole'
      BY <2>3, <3>2 DEF Ms!Whole
    <3>4. MsBase'
      BY <2>3, <3>2, <3>3 DEF MsBase, MsWindows, Ms!IdentityIsKept, Ms!StartedIsWhole
    <3>5. MsWindowsUninstall(k + 1, self)'
      BY <2>3, <2>4, <3>2 DEF MsWindowsUninstall, P
    <3> QED  BY <2>3, <3>4, <3>5 DEF MsWindows
  <2>5. CASE k = 4
    <3>1. "service" \notin msHas /\ msOs = "windows" /\ MsQuiet
      BY <2>2, <2>5 DEF MsWindows, MsBase, Ms!StartedIsWhole, Ms!Whole, Ms!Payload, MsQuiet
    <3>2. /\ "root" \in MsThings \ {"user", "group"}
          /\ "spawn" \in MsOps \ {"start", "enable", "restore"}
      BY DEF MsThings, MsOps
    <3>3. \/ \E x \in MsThings \ {"user", "group"} : P[k] = Ms!Make(x) \/ P[k] = Ms!Drop(x)
          \/ \E x \in MsOps \ {"start", "enable", "restore"} : P[k] = Ms!Do(x)
      BY <2>1, <2>5, <3>2
    <3>4. MsBase'
      BY <2>3, <3>1, <3>3, MsWindowsQuiet
    <3>5. "service" \notin msHas'
      <4>1. CASE P[k] = Ms!Do("spawn")
        BY <2>3, <3>1, <3>2, <4>1, MsDoes
      <4>2. CASE P[k] = Ms!Drop("root")
        BY <2>3, <3>1, <3>2, <4>2, MsDrops
      <4> QED  BY <2>1, <2>5, <4>1, <4>2
    <3>6. MsWindowsUninstall(k + 1, self)'
      BY <2>3, <3>5 DEF MsWindowsUninstall, P
    <3> QED  BY <2>3, <3>1, <3>4, <3>6 DEF MsWindows
  <2> QED  BY <2>3, <2>4, <2>5
<1> QED  BY <1>1, <1>2, <1>3, <1>4

\* The user's unit: what runs has its unit, also after a failed install put the
\* earlier one back.
LEMMA MsUnitDone ==
    ASSUME MsBase, MsUnit, Ms!StepDone
    PROVE  MsBase' /\ MsUnit'
<1>0. msOs = "user" /\ msUser = "none" /\ msGroup = "none" /\ ~msLost /\ ~(msHelper # "none" \/ msDying)
  BY DEF MsUnit, MsBase, Ms!IdentityIsKept
<1>1. (~MsQuiet => "unit" \in msHas) /\ (Ms!Whole <=> "unit" \in msHas)
  BY <1>0 DEF MsBase, MsQuiet, Ms!StartedIsWhole, Ms!Whole, Ms!Payload
<1>2. ASSUME msOs' = "user", UNCHANGED <<msUser, msGroup>>, ~msLost', msHelper' = msHelper,
             msDying' => msDying, ~MsQuiet' => "unit" \in msHas'
      PROVE  MsBase'
  <2>1. "unit" \in msHas' => Ms!Whole'
    BY <1>2 DEF Ms!Whole, Ms!Payload
  <2> QED  BY <1>0, <1>2, <2>1 DEF MsBase, MsQuiet, Ms!IdentityIsKept, Ms!StartedIsWhole
<1>3. PICK k \in Nat : MsUnitInstall(k) \/ MsUnitRollback(k) \/ MsUnitUninstall(k)
  BY DEF MsUnit
<1>4. {"stop", "disable", "reload", "restore"} \subseteq MsOps /\ "unit" \in MsThings \ {"user", "group"}
  BY DEF MsOps, MsThings
<1>5. CASE MsUnitInstall(k)
  <2> DEFINE P == Ms!InstallUserUnit
  <2>1. P \in Seq(MsSteps) /\ Len(P) = 2 /\ P[1] = Ms!Make("unit") /\ P[2] = Ms!Do("reload")
    BY MsOtherPlans
  <2>2. MsAt("install", P, k) /\ MsUnitWas
    BY <1>5 DEF MsUnitInstall
  <2> HIDE DEF P
  <2>3. k \in 1 .. 2 /\ Ms!Effect(P[k]) /\ MsAt("install", P, k + 1)' /\ UNCHANGED <<msOs, msBefore>>
    BY <2>1, <2>2, MsDone
  <2>4. /\ UNCHANGED <<msUser, msGroup>> /\ ~msLost' /\ msHelper' = msHelper /\ (msDying' => msDying)
        /\ msProc' = msProc /\ (msEnabled' => msEnabled) /\ msHas \subseteq msHas'
    <3>1. CASE k = 1
      BY <1>0, <1>4, <2>1, <2>3, <3>1, MsMakes
    <3>2. CASE k = 2
      BY <1>0, <1>4, <2>1, <2>3, <3>2, MsDoes
    <3> QED  BY <2>3, <3>1, <3>2
  <2>5. MsBase'
    BY <1>0, <1>1, <1>2, <2>3, <2>4 DEF MsQuiet
  <2>6. MsUnitInstall(k + 1)'
    BY <2>2, <2>3, <2>4 DEF MsUnitInstall, MsUnitWas, MsQuiet, P
  <2> QED  BY <1>0, <2>3, <2>5, <2>6 DEF MsUnit
<1>6. CASE MsUnitRollback(k)
  <2> DEFINE P == MsRestore
  <2>1. P \in Seq(MsSteps) /\ Len(P) = 2 /\ P[1] = Ms!Do("restore") /\ P[2] = Ms!Do("reload")
    BY MsOtherPlans
  <2>2. MsAt("rollback", P, k) /\ MsUnitWas /\ (k > 1 => msHas = msBefore)
    BY <1>6 DEF MsUnitRollback
  <2> HIDE DEF P
  <2>3. k \in 1 .. 2 /\ Ms!Effect(P[k]) /\ MsAt("rollback", P, k + 1)' /\ UNCHANGED <<msOs, msBefore>>
    BY <2>1, <2>2, MsDone
  <2>4. /\ UNCHANGED <<msUser, msGroup>> /\ ~msLost' /\ msHelper' = msHelper /\ (msDying' => msDying)
        /\ msProc' = msProc /\ (msEnabled' => msEnabled) /\ msHas' = msBefore
    <3>1. CASE k = 1
      BY <1>0, <1>4, <2>1, <2>3, <3>1, MsDoes
    <3>2. CASE k = 2
      BY <1>0, <1>4, <2>1, <2>2, <2>3, <3>2, MsDoes
    <3> QED  BY <2>3, <3>1, <3>2
  <2>5. MsBase'
    BY <1>0, <1>2, <2>2, <2>3, <2>4 DEF MsQuiet, MsUnitWas
  <2>6. MsUnitRollback(k + 1)'
    BY <2>2, <2>3, <2>4 DEF MsUnitRollback, MsUnitWas, MsQuiet, P
  <2> QED  BY <1>0, <2>3, <2>5, <2>6 DEF MsUnit
<1>7. CASE MsUnitUninstall(k)
  <2> DEFINE P == Ms!UninstallUserUnit
  <2>1. /\ P \in Seq(MsSteps) /\ Len(P) = 4
        /\ P[1] = Ms!Do("stop") /\ P[2] = Ms!Do("disable") /\ P[3] = Ms!Drop("unit")
        /\ P[4] = Ms!Do("reload")
    BY MsOtherPlans
  <2>2. MsAt("uninstall", P, k) /\ (k > 1 => msProc = "off") /\ (k > 2 => ~msEnabled)
    BY <1>7 DEF MsUnitUninstall
  <2> HIDE DEF P
  <2>3. k \in 1 .. 4 /\ Ms!Effect(P[k]) /\ MsAt("uninstall", P, k + 1)' /\ UNCHANGED <<msOs, msBefore>>
    BY <2>1, <2>2, MsDone
  <2>4. /\ UNCHANGED <<msUser, msGroup>> /\ ~msLost' /\ msHelper' = msHelper /\ (msDying' => msDying)
        /\ msProc' = "off" /\ (msEnabled' => msEnabled) /\ (k > 1 => ~msEnabled')
        /\ (k = 1 => msHas' = msHas)
    <3>1. CASE k = 1
      BY <1>0, <1>4, <2>1, <2>3, <3>1, MsDoes
    <3>2. CASE k = 2
      BY <1>0, <1>4, <2>1, <2>2, <2>3, <3>2, MsDoes
    <3>3. CASE k = 3
      BY <1>0, <1>4, <2>1, <2>2, <2>3, <3>3, MsDrops
    <3>4. CASE k = 4
      BY <1>0, <1>4, <2>1, <2>2, <2>3, <3>4, MsDoes
    <3> QED  BY <2>3, <3>1, <3>2, <3>3, <3>4
  <2>5. ~MsQuiet' => "unit" \in msHas'
    BY <1>1, <2>3, <2>4 DEF MsQuiet
  <2>6. MsBase'
    BY <1>0, <1>2, <2>3, <2>4, <2>5
  <2>7. MsUnitUninstall(k + 1)'
    BY <2>3, <2>4 DEF MsUnitUninstall, P
  <2> QED  BY <1>0, <2>3, <2>6, <2>7 DEF MsUnit
<1> QED  BY <1>3, <1>5, <1>6, <1>7

\* The commands of one step.
LEMMA MsSingleDone ==
    ASSUME MsBase, MsSingle, Ms!StepDone
    PROVE  MsBase' /\ MsSingle'
<1>1. ~MsAt("uninstall", <<>>, 1)
  <2> DEFINE P == <<>>
  <2>1. SUFFICES ASSUME MsAt("uninstall", P, 1) PROVE FALSE
    OBVIOUS
  <2>2. P \in Seq(MsSteps) /\ Len(P) = 0
    BY MsOtherPlans
  <2> HIDE DEF P
  <2>3. 1 \in 1 .. Len(P)
    BY <2>1, <2>2, MsDone
  <2> QED  BY <2>2, <2>3
<1>2. PICK name \in MsOnes, k \in Nat : MsOne(name, k)
  BY <1>1 DEF MsSingle
<1> DEFINE P == << Ms!Do(name) >>
<1>3. P \in Seq(MsSteps) /\ Len(P) = 1 /\ P[1] = Ms!Do(name)
  BY MsOtherPlans
<1>4. MsAt(name, P, k) /\ (name = "enable" => Ms!Whole \/ (msOs = "windows" /\ "service" \notin msHas))
  BY <1>2 DEF MsOne
<1> HIDE DEF P
<1>5. k = 1 /\ Ms!Effect(Ms!Do(name)) /\ MsAt(name, P, k + 1)' /\ msOs' = msOs
  BY <1>3, <1>4, MsDone
<1>6. name \in MsOps
  BY DEF MsOnes, MsOps
<1>7. /\ UNCHANGED <<msHas, msUser, msGroup, msHelper>> /\ (~msLost => ~msLost') /\ (msDying' => msDying)
      /\ name = "start" => Ms!Whole
      /\ name = "enable" /\ msOs = "windows" => "service" \in msHas
      /\ name # "start" => msProc' \in {msProc, "off"}
      /\ name # "enable" => (msEnabled' => msEnabled)
  BY <1>5, <1>6, MsDoes DEF MsOnes
<1>8. Ms!Whole <=> Ms!Whole'
  BY <1>5, <1>7 DEF Ms!Whole
<1>9. Ms!StartedIsWhole'
  BY <1>4, <1>7, <1>8 DEF MsBase, Ms!StartedIsWhole
<1>10. MsBase'
  BY <1>5, <1>7, <1>9 DEF MsBase, Ms!IdentityIsKept
<1>11. MsOne(name, k + 1)'
  BY <1>4, <1>5, <1>7, <1>8 DEF MsOne, P
<1> QED  BY <1>5, <1>10, <1>11 DEF MsSingle

\* Every step of a plan that succeeds keeps the invariant.
LEMMA MsStepDone == ASSUME MsInv, Ms!StepDone PROVE MsInv'
<1>1. msCmd # Ms!NoCommand
  BY DEF Ms!StepDone, Ms!NoCommand
<1>2. MsBase' /\ (MsLinux' \/ MsWindows' \/ MsUnit' \/ MsSingle')
  BY <1>1, MsLinuxInstallDone, MsLinuxRollbackDone, MsLinuxUninstallDone, MsWindowsDone, MsUnitDone,
     MsSingleDone DEF MsInv, MsCommand, MsLinux
<1>3. msCmd' # Ms!NoCommand
  <2>1. msCmd'.name = msCmd.name
    <3>1. PICK name, P, k : MsAt(name, P, k)
      BY <1>1 DEF MsInv, MsCommand, MsLinux, MsWindows, MsUnit, MsSingle, MsLinuxInstall, MsLinuxRollback,
           MsLinuxUninstall, MsWindowsInstall, MsWindowsRollback, MsWindowsUninstall, MsUnitInstall,
           MsUnitRollback, MsUnitUninstall, MsOne
    <3>2. msCmd = [name |-> name, plan |-> RestOf(P, k)]
      BY <3>1 DEF MsAt
    <3> QED  BY <3>2 DEF Ms!StepDone
  <2>2. msCmd.name # "none"
    BY <1>1 DEF MsInv, MsCommand, MsLinux, MsWindows, MsUnit, MsSingle, MsLinuxInstall, MsLinuxRollback,
         MsLinuxUninstall, MsWindowsInstall, MsWindowsRollback, MsWindowsUninstall, MsUnitInstall,
         MsUnitRollback, MsUnitUninstall, MsOne, MsOnes, MsAt
  <2> QED  BY <2>1, <2>2 DEF Ms!NoCommand
<1> QED  BY <1>2, <1>3 DEF MsInv, MsCommand, Ms!RollbackIsComplete

\* What MsBase needs of a step that leaves the running service alone.
LEMMA MsBaseKept ==
    ASSUME MsBase, UNCHANGED <<msOs, msUser, msGroup, msHas>>, ~msLost', msHelper' = msHelper,
           msDying' => msDying, msProc' # "off" => msProc # "off", msEnabled' => msEnabled
    PROVE  MsBase' /\ (Ms!Whole <=> Ms!Whole')
<1>1. Ms!Whole <=> Ms!Whole'
  BY DEF Ms!Whole
<1> QED  BY <1>1 DEF MsBase, Ms!IdentityIsKept, Ms!StartedIsWhole

\* A step without effect changes nothing but the command.
LEMMA MsNoEffect == ASSUME MsBase, Ms!NoEffect, msOs' = msOs PROVE MsBase'
BY MsBaseKept DEF Ms!NoEffect, MsBase, Ms!IdentityIsKept

\* A step that fails, on a Linux machine.
LEMMA MsLinuxFails == ASSUME MsBase, MsLinux, Ms!StepFails PROVE MsInv'
<1>1. msOs = "linux" /\ Ms!Rollback = Ms!CleanupFailedInstall
  BY DEF MsLinux, Ms!Rollback
<1>2. PICK k \in Nat : MsLinuxInstall(k) \/ MsLinuxRollback(k) \/ MsLinuxUninstall(k)
  BY DEF MsLinux
<1>3. ASSUME MsBase', MsQuiet', msOs' = msOs, msCmd' = [name |-> "rollback", plan |-> Ms!Rollback]
      PROVE  MsInv'
  <2> DEFINE P == Ms!CleanupFailedInstall
  <2>1. P \in Seq(MsSteps) /\ Len(P) = 6
    BY MsLinuxPlans
  <2> HIDE DEF P
  <2>2. RestOf(P, 1) = P /\ 1 \in 1 .. Len(P) + 1
    BY <2>1, RestStep
  <2>3. MsAt("rollback", P, 1)'
    BY <1>1, <1>3, <2>2 DEF MsAt, P
  <2>4. Ms!RollbackIsComplete'
    BY <2>3 DEF MsAt, Ms!NoCommand, Ms!RollbackIsComplete
  <2>5. MsLinuxRollback(1)'
    BY <1>3, <2>3 DEF MsLinuxRollback, P
  <2> QED  BY <1>1, <1>3, <2>4, <2>5 DEF MsInv, MsCommand, MsLinux
<1>4. ASSUME MsBase', msCmd' = Ms!NoCommand, msOut' = "failed" PROVE MsInv'
  BY <1>4 DEF MsInv, MsCommand, Ms!RollbackIsComplete
<1>5. CASE MsLinuxInstall(k)
  <2> DEFINE P == Ms!InstallMachineLinux
  <2>1. /\ P \in Seq(MsSteps) /\ Len(P) = 8
        /\ P[1] = Ms!Make("cred") /\ P[2] = Ms!Make("group") /\ P[3] = Ms!Make("user")
        /\ P[4] = Ms!Make("bin") /\ P[5] = Ms!Make("root") /\ P[6] = Ms!Make("config")
        /\ P[7] = Ms!Make("unit") /\ P[8] = Ms!Do("reload")
    BY MsLinuxPlans
  <2>2. MsAt("install", P, k) /\ MsQuiet /\ (k > 1 => "cred" \in msHas)
    BY <1>5 DEF MsLinuxInstall
  <2> HIDE DEF P
  <2>3. /\ k \in 1 .. 8
        /\ Ms!NoEffect \/ (P[k].op = "make" /\ Ms!Effect(P[k]))
        /\ \/ msCmd' = [name |-> "rollback", plan |-> Ms!Rollback]
           \/ msCmd' = Ms!NoCommand /\ msOut' = "failed"
        /\ msOs' = msOs
    BY <1>1, <2>1, <2>2, MsFails
  <2>4. CASE Ms!NoEffect
    BY <1>3, <1>4, <2>2, <2>3, <2>4, MsNoEffect DEF MsQuiet, Ms!NoEffect
  <2>5. CASE P[k].op = "make" /\ Ms!Effect(P[k])
    <3>1. k # 8
      BY <2>1, <2>5 DEF Ms!Do
    <3>2. PICK x \in MsThings : Ms!Effect(Ms!Make(x)) /\ (k = 1 => x = "cred")
      BY <2>1, <2>3, <2>5, <3>1 DEF MsThings
    <3>3. "cred" \in msHas'
      BY <2>2, <2>3, <3>2, MsMakes
    <3>4. MsQuiet' /\ ~msLost' /\ msHelper' = msHelper /\ (msDying' => msDying)
      BY <2>2, <3>2, MsMakes DEF MsBase, MsQuiet, Ms!IdentityIsKept
    <3>5. MsBase'
      BY <1>1, <2>3, <3>3, <3>4 DEF MsBase, MsQuiet, Ms!IdentityIsKept, Ms!StartedIsWhole
    <3> QED  BY <1>3, <1>4, <2>3, <3>4, <3>5
  <2> QED  BY <2>3, <2>4, <2>5
<1>6. CASE MsLinuxRollback(k)
  <2> DEFINE P == Ms!CleanupFailedInstall
  <2>1. /\ P \in Seq(MsSteps) /\ Len(P) = 6 /\ MsAt("rollback", P, k)
        /\ \A i \in 1 .. 6 : P[i].op # "make"
    BY <1>6, MsLinuxPlans, MsStepFields DEF MsLinuxRollback
  <2> HIDE DEF P
  <2>2. Ms!NoEffect /\ msCmd' = Ms!NoCommand /\ msOut' = "failed" /\ msOs' = msOs
    BY <1>1, <2>1, MsFails
  <2> QED  BY <1>4, <2>2, MsNoEffect
<1>7. CASE MsLinuxUninstall(k)
  <2> DEFINE P == Ms!UninstallMachineLinux
  <2>1. /\ P \in Seq(MsSteps) /\ Len(P) = 9 /\ MsAt("uninstall", P, k)
        /\ \A i \in 1 .. 9 : P[i].op # "make"
    BY <1>7, MsLinuxPlans, MsStepFields DEF MsLinuxUninstall
  <2> HIDE DEF P
  <2>2. Ms!NoEffect /\ msCmd' = Ms!NoCommand /\ msOut' = "failed" /\ msOs' = msOs
    BY <1>1, <2>1, MsFails
  <2> QED  BY <1>4, <2>2, MsNoEffect
<1> QED  BY <1>2, <1>5, <1>6, <1>7

\* A step that fails, on Windows.
LEMMA MsWindowsFails == ASSUME MsBase, MsWindows, Ms!StepFails PROVE MsInv'
<1>1. msOs = "windows" /\ Ms!Rollback = Ms!CleanupWindows
  BY DEF MsWindows, Ms!Rollback
<1>2. PICK k \in Nat : \/ MsWindowsInstall(k) \/ MsWindowsRollback(k)
                       \/ \E self \in BOOLEAN : MsWindowsUninstall(k, self)
  BY DEF MsWindows
<1>3. ASSUME MsBase', MsQuiet', msOs' = msOs, NEW i \in Nat, MsAt("rollback", Ms!CleanupWindows, i)'
      PROVE  MsInv'
  <2>1. Ms!RollbackIsComplete'
    BY <1>1, <1>3 DEF Ms!RollbackIsComplete
  <2>2. MsWindowsRollback(i)'
    BY <1>3 DEF MsWindowsRollback
  <2> QED  BY <1>1, <1>3, <2>1, <2>2 DEF MsInv, MsCommand, MsWindows
<1>4. ASSUME MsBase', msCmd' = Ms!NoCommand, msOut' = "failed" PROVE MsInv'
  BY <1>4 DEF MsInv, MsCommand, Ms!RollbackIsComplete
<1>5. CASE MsWindowsInstall(k)
  <2> DEFINE P == Ms!InstallMachineWindows
  <2>1. /\ P \in Seq(MsSteps) /\ Len(P) = 5
        /\ P[1] = Ms!Make("service") /\ P[2] = Ms!Do("secure") /\ P[3] = Ms!Make("root")
        /\ P[4] = Ms!Make("config") /\ P[5] = Ms!Do("verify")
    BY MsOtherPlans
  <2>2. MsAt("install", P, k) /\ MsQuiet
    BY <1>5 DEF MsWindowsInstall
  <2> HIDE DEF P
  <2>3. /\ k \in 1 .. 5
        /\ Ms!NoEffect \/ (P[k].op = "make" /\ Ms!Effect(P[k]))
        /\ \/ msCmd' = [name |-> "rollback", plan |-> Ms!Rollback]
           \/ msCmd' = Ms!NoCommand /\ msOut' = "failed"
        /\ msOs' = msOs
    BY <1>1, <2>1, <2>2, MsFails
  <2>4. MsBase' /\ MsQuiet'
    <3>1. CASE Ms!NoEffect
      BY <2>2, <2>3, <3>1, MsNoEffect DEF MsQuiet, Ms!NoEffect
    <3>2. CASE P[k].op = "make" /\ Ms!Effect(P[k])
      <4>1. k \in {1, 3, 4}
        BY <2>1, <2>3, <3>2 DEF Ms!Do
      <4>2. \E x \in MsThings \ {"user", "group"} : P[k] = Ms!Make(x)
        BY <2>1, <4>1 DEF MsThings
      <4> QED  BY <1>1, <2>2, <2>3, <3>2, <4>2, MsWindowsQuiet
    <3> QED  BY <2>3, <3>1, <3>2
  <2>5. msCmd' = [name |-> "rollback", plan |-> Ms!Rollback] => MsAt("rollback", Ms!CleanupWindows, 1)'
    <3> DEFINE Q == Ms!CleanupWindows
    <3>1. Q \in Seq(MsSteps) /\ Len(Q) = 3
      BY MsOtherPlans
    <3> HIDE DEF Q
    <3>2. RestOf(Q, 1) = Q /\ 1 \in 1 .. Len(Q) + 1
      BY <3>1, RestStep
    <3> QED  BY <1>1, <3>2 DEF MsAt, Q
  <2> QED  BY <1>3, <1>4, <2>3, <2>4, <2>5
<1>6. CASE MsWindowsRollback(k)
  <2> DEFINE P == Ms!CleanupWindows
  <2>1. /\ P \in Seq(MsSteps) /\ Len(P) = 3 /\ MsAt("rollback", P, k) /\ MsQuiet
        /\ \A i \in 1 .. 3 : P[i].op # "make"
    BY <1>6, MsOtherPlans, MsStepFields DEF MsWindowsRollback
  <2> HIDE DEF P
  <2>2. /\ Ms!NoEffect /\ msOs' = msOs
        /\ MsAt("rollback", P, k + 1)' \/ (msCmd' = Ms!NoCommand /\ msOut' = "failed")
    BY <1>1, <2>1, MsFails
  <2>3. MsBase' /\ MsQuiet'
    BY <2>1, <2>2, MsNoEffect DEF MsQuiet, Ms!NoEffect
  <2> QED  BY <1>3, <1>4, <2>2, <2>3 DEF P
<1>7. CASE \E self \in BOOLEAN : MsWindowsUninstall(k, self)
  <2>0. PICK self \in BOOLEAN : MsWindowsUninstall(k, self)
    BY <1>7
  <2> DEFINE P == Ms!UninstallMachineWindows(self)
  <2>1. /\ P \in Seq(MsSteps) /\ Len(P) = 4
        /\ P[1] = Ms!Do("stop") /\ P[2] = Ms!Do("delete") /\ P[3] = Ms!Do("await")
        /\ P[4] \in {Ms!Do("spawn"), Ms!Drop("root")}
    BY MsOtherPlans
  <2>2. MsAt("uninstall", P, k)
    BY <2>0 DEF MsWindowsUninstall
  <2> HIDE DEF P
  <2>3. \A i \in 1 .. 4 : P[i].op # "make"
    BY <2>1, MsStepFields
  <2>4. Ms!NoEffect /\ msCmd' = Ms!NoCommand /\ msOut' = "failed" /\ msOs' = msOs
    BY <1>1, <2>1, <2>2, <2>3, MsFails
  <2> QED  BY <1>4, <2>4, MsNoEffect
<1> QED  BY <1>2, <1>5, <1>6, <1>7

\* A step that fails, for a user's unit.
LEMMA MsUnitFails == ASSUME MsBase, MsUnit, Ms!StepFails PROVE MsInv'
<1>1. msOs = "user" /\ Ms!Rollback = MsRestore
  BY DEF MsUnit, Ms!Rollback, MsRestore
<1>2. PICK k \in Nat : MsUnitInstall(k) \/ MsUnitRollback(k) \/ MsUnitUninstall(k)
  BY DEF MsUnit
<1>3. ASSUME MsBase', msCmd' = Ms!NoCommand, msOut' = "failed" PROVE MsInv'
  BY <1>3 DEF MsInv, MsCommand, Ms!RollbackIsComplete
<1>4. CASE MsUnitInstall(k)
  <2> DEFINE P == Ms!InstallUserUnit
  <2>1. P \in Seq(MsSteps) /\ Len(P) = 2 /\ P[1] = Ms!Make("unit") /\ P[2] = Ms!Do("reload")
    BY MsOtherPlans
  <2>2. MsAt("install", P, k) /\ MsUnitWas
    BY <1>4 DEF MsUnitInstall
  <2> HIDE DEF P
  <2>3. /\ k \in 1 .. 2
        /\ Ms!NoEffect \/ (P[k].op = "make" /\ Ms!Effect(P[k]))
        /\ \/ msCmd' = [name |-> "rollback", plan |-> Ms!Rollback]
           \/ msCmd' = Ms!NoCommand /\ msOut' = "failed"
        /\ UNCHANGED <<msOs, msBefore>>
    BY <1>1, <2>1, <2>2, MsFails
  <2>4. MsBase' /\ UNCHANGED <<msProc, msEnabled>>
    <3>1. CASE Ms!NoEffect
      BY <2>3, <3>1, MsNoEffect DEF Ms!NoEffect
    <3>2. CASE P[k].op = "make" /\ Ms!Effect(P[k])
      <4>1. Ms!Effect(Ms!Make("unit")) /\ "unit" \in MsThings
        BY <2>1, <2>3, <3>2 DEF Ms!Do, MsThings
      <4>2. /\ msHas' = msHas \cup {"unit"} /\ UNCHANGED <<msUser, msGroup, msProc, msEnabled, msHelper>>
            /\ (~msLost => ~msLost') /\ (msDying' => msDying)
        BY <4>1, MsMakes
      <4>3. Ms!Whole'
        BY <1>1, <2>3, <4>2 DEF Ms!Whole, Ms!Payload
      <4> QED  BY <1>1, <2>3, <4>2, <4>3 DEF MsBase, Ms!IdentityIsKept, Ms!StartedIsWhole
    <3> QED  BY <2>3, <3>1, <3>2
  <2>5. ASSUME msCmd' = [name |-> "rollback", plan |-> Ms!Rollback] PROVE MsInv'
    <3> DEFINE Q == MsRestore
    <3>1. Q \in Seq(MsSteps) /\ Len(Q) = 2
      BY MsOtherPlans
    <3> HIDE DEF Q
    <3>2. RestOf(Q, 1) = Q /\ 1 \in 1 .. Len(Q) + 1
      BY <3>1, RestStep
    <3>3. MsAt("rollback", Q, 1)'
      BY <1>1, <2>5, <3>2 DEF MsAt, Q
    <3>4. Ms!RollbackIsComplete'
      BY <3>3 DEF MsAt, Ms!NoCommand, Ms!RollbackIsComplete
    <3>5. MsUnitRollback(1)'
      BY <2>2, <2>3, <2>4, <3>3 DEF MsUnitRollback, MsUnitWas, MsQuiet, Q
    <3> QED  BY <1>1, <2>3, <2>4, <3>4, <3>5 DEF MsInv, MsCommand, MsUnit
  <2> QED  BY <1>3, <2>3, <2>4, <2>5
<1>5. CASE MsUnitRollback(k)
  <2> DEFINE P == MsRestore
  <2>1. P \in Seq(MsSteps) /\ Len(P) = 2 /\ MsAt("rollback", P, k) /\ \A i \in 1 .. 2 : P[i].op # "make"
    BY <1>5, MsOtherPlans, MsStepFields DEF MsUnitRollback
  <2> HIDE DEF P
  <2>2. Ms!NoEffect /\ msCmd' = Ms!NoCommand /\ msOut' = "failed" /\ msOs' = msOs
    BY <1>1, <2>1, MsFails
  <2> QED  BY <1>3, <2>2, MsNoEffect
<1>6. CASE MsUnitUninstall(k)
  <2> DEFINE P == Ms!UninstallUserUnit
  <2>1. P \in Seq(MsSteps) /\ Len(P) = 4 /\ MsAt("uninstall", P, k) /\ \A i \in 1 .. 4 : P[i].op # "make"
    BY <1>6, MsOtherPlans, MsStepFields DEF MsUnitUninstall
  <2> HIDE DEF P
  <2>2. Ms!NoEffect /\ msCmd' = Ms!NoCommand /\ msOut' = "failed" /\ msOs' = msOs
    BY <1>1, <2>1, MsFails
  <2> QED  BY <1>3, <2>2, MsNoEffect
<1> QED  BY <1>2, <1>4, <1>5, <1>6

\* A step that fails, in a command of one step.
LEMMA MsSingleFails == ASSUME MsBase, MsSingle, Ms!StepFails PROVE MsInv'
<1>1. ASSUME MsBase', msCmd' = Ms!NoCommand, msOut' = "failed" PROVE MsInv'
  BY <1>1 DEF MsInv, MsCommand, Ms!RollbackIsComplete
<1>2. PICK name \in MsOnes \cup {"uninstall"}, k \in Nat, P \in Seq(MsSteps) :
        MsAt(name, P, k) /\ (Len(P) = 0 \/ (Len(P) = 1 /\ P[1] = Ms!Do(name) /\ name \in MsOnes))
  <2>1. CASE MsAt("uninstall", <<>>, 1)
    BY <2>1, MsOtherPlans
  <2>2. CASE \E name \in MsOnes, k \in Nat : MsOne(name, k)
    BY <2>2, MsOtherPlans DEF MsOne
  <2> QED  BY <2>1, <2>2 DEF MsSingle
<1>3. k = 1 /\ Len(P) = 1
  BY <1>2, MsFails
<1>4. P[k].op # "make" /\ name \notin {"install", "rollback"}
  BY <1>2, <1>3, MsStepFields DEF MsOnes
<1>5. Ms!NoEffect /\ msCmd' = Ms!NoCommand /\ msOut' = "failed" /\ msOs' = msOs
  BY <1>2, <1>4, MsFails
<1> QED  BY <1>1, <1>5, MsNoEffect

\* A command that ends: a rollback that reports completion has taken every step.
LEMMA MsEnds == ASSUME MsInv, Ms!CommandEnds PROVE MsInv'
<1>1. /\ msCmd # Ms!NoCommand /\ msCmd' = Ms!NoCommand /\ msOut' = Ms!Outcome(msCmd.name)
      /\ UNCHANGED <<msOs, msHas, msUser, msGroup, msProc, msEnabled, msDying, msHelper, msBefore, msLost>>
  BY DEF Ms!CommandEnds
<1>2. MsBase'
  BY <1>1, MsBaseKept DEF MsInv, MsBase, Ms!IdentityIsKept
<1>3. ASSUME msOut' = "undone", msOs # "windows", msBefore = {}
      PROVE  msHas \cap Ms!Payload(msOs) = {} /\ "cred" \notin msHas /\ msUser # "ours"
  <2>0. msCmd.name = "rollback"
    BY <1>1, <1>3 DEF Ms!Outcome
  <2>1. CASE MsLinux
    <3>1. PICK k \in Nat : MsLinuxRollback(k)
      BY <2>0, <2>1 DEF MsLinux, MsLinuxInstall, MsLinuxUninstall, MsAt
    <3> DEFINE P == Ms!CleanupFailedInstall
    <3>2. P \in Seq(MsSteps) /\ Len(P) = 6 /\ MsAt("rollback", P, k)
      BY <3>1, MsLinuxPlans DEF MsLinuxRollback
    <3> HIDE DEF P
    <3>3. k = 7
      <4>1. k = Len(P) + 1
        BY <3>2, MsOver
      <4> QED  BY <3>2, <4>1
    <3>4. msUser = "none" /\ "cred" \notin msHas /\ \A x \in {"bin", "root", "config", "unit"} : x \notin msHas
      BY <3>1, <3>3 DEF MsLinuxRollback
    <3> QED  BY <2>1, <3>4 DEF MsLinux, Ms!Payload
  <2>2. CASE MsUnit
    <3>1. PICK k \in Nat : MsUnitRollback(k)
      BY <2>0, <2>2 DEF MsUnit, MsUnitInstall, MsUnitUninstall, MsAt
    <3> DEFINE P == MsRestore
    <3>2. P \in Seq(MsSteps) /\ Len(P) = 2 /\ MsAt("rollback", P, k)
      BY <3>1, MsOtherPlans DEF MsUnitRollback
    <3> HIDE DEF P
    <3>3. k = 3
      <4>1. k = Len(P) + 1
        BY <3>2, MsOver
      <4> QED  BY <3>2, <4>1
    <3>4. msHas = {} /\ msUser = "none"
      BY <1>3, <2>2, <3>1, <3>3 DEF MsUnitRollback, MsUnit, MsInv, MsBase
    <3> QED  BY <3>4
  <2>3. CASE MsSingle
    BY <2>0, <2>3 DEF MsSingle, MsOne, MsOnes, MsAt
  <2> QED  BY <1>1, <1>3, <2>1, <2>2, <2>3 DEF MsInv, MsCommand, MsWindows
<1>4. Ms!RollbackIsComplete'
  BY <1>1, <1>3 DEF Ms!RollbackIsComplete
<1> QED  BY <1>1, <1>2, <1>4 DEF MsInv, MsCommand

\* A command that is killed, and a machine that starts again.
LEMMA MsCrash == ASSUME MsInv, Ms!Crash PROVE MsInv'
<1>1. msCmd' = Ms!NoCommand /\ msOut' = "crashed" /\ UNCHANGED <<msOs, msUser, msGroup, msLost>>
  BY DEF Ms!Crash
<1>2. MsCommand' /\ Ms!RollbackIsComplete'
  BY <1>1 DEF MsCommand, Ms!RollbackIsComplete
<1>3. CASE UNCHANGED <<msProc, msHelper, msHas, msEnabled, msDying>>
  BY <1>1, <1>2, <1>3, MsBaseKept DEF MsInv, MsBase, Ms!IdentityIsKept
<1>4. CASE /\ msProc' = IF msEnabled /\ ~msDying THEN "on" ELSE "off"
           /\ msHas' = IF msDying THEN msHas \ {"service"} ELSE msHas
           /\ msEnabled' = (msEnabled /\ ~msDying)
           /\ msDying' = FALSE /\ msHelper' = "none"
  <2>1. Ms!IdentityIsKept'
    BY <1>1, <1>4 DEF MsInv, MsBase, Ms!IdentityIsKept
  <2>2. msProc' # "off" \/ msEnabled' => msEnabled /\ ~msDying
    BY <1>4
  <2>3. ~msDying /\ Ms!Whole => Ms!Whole'
    BY <1>1, <1>4 DEF Ms!Whole
  <2>4. Ms!StartedIsWhole'
    BY <2>2, <2>3 DEF MsInv, MsBase, Ms!StartedIsWhole
  <2>5. MsBase'
    BY <1>1, <1>4, <2>1, <2>4 DEF MsInv, MsBase
  <2> QED  BY <1>2, <2>5 DEF MsInv
<1> QED  BY <1>3, <1>4 DEF Ms!Crash

\* What happens beside the command: the process fails or is started again, the
\* SCM drops the entry, the deferred cleanup deletes the directory.
LEMMA MsBeside ==
    ASSUME MsInv, UNCHANGED <<msOs, msUser, msGroup, msCmd, msBefore, msOut, msLost>>,
           msHelper' \in {msHelper, "none"}, msDying' => msDying,
           msProc' # "off" => msProc # "off", msEnabled' => msEnabled,
           \/ msHas' = msHas
           \/ msOs = "windows" /\ msHas' \subseteq msHas /\ "service" \notin msHas' /\ MsQuiet'
    PROVE  MsInv'
<1>1. msHas' = msHas => (Ms!Whole <=> Ms!Whole')
  BY DEF Ms!Whole
<1>2. Ms!StartedIsWhole'
  BY <1>1 DEF MsInv, MsBase, MsQuiet, Ms!StartedIsWhole
<1>3. MsBase'
  BY <1>2 DEF MsInv, MsBase, Ms!IdentityIsKept
<1>4. Ms!RollbackIsComplete'
  BY DEF MsInv, Ms!RollbackIsComplete
<1>5. MsQuiet => MsQuiet'
  BY DEF MsQuiet
<1>6. ASSUME NEW name, NEW P, NEW k, MsAt(name, P, k) PROVE MsAt(name, P, k)'
  BY <1>6 DEF MsAt
<1>7. CASE MsLinux
  <2>1. msHas' = msHas
    BY <1>7 DEF MsLinux
  <2>2. ASSUME NEW k \in Nat
        PROVE  /\ MsLinuxInstall(k) => MsLinuxInstall(k)'
               /\ MsLinuxRollback(k) => MsLinuxRollback(k)'
               /\ MsLinuxUninstall(k) => MsLinuxUninstall(k)'
    BY <1>5, <1>6, <2>1 DEF MsLinuxInstall, MsLinuxRollback, MsLinuxUninstall
  <2> QED  BY <1>3, <1>4, <1>7, <2>2 DEF MsInv, MsCommand, MsLinux
<1>8. CASE MsWindows
  <2>1. ASSUME NEW k \in Nat
        PROVE  /\ MsWindowsInstall(k) => MsWindowsInstall(k)'
               /\ MsWindowsRollback(k) => MsWindowsRollback(k)'
               /\ \A self \in BOOLEAN : MsWindowsUninstall(k, self) => MsWindowsUninstall(k, self)'
    BY <1>5, <1>6 DEF MsWindowsInstall, MsWindowsRollback, MsWindowsUninstall
  <2> QED  BY <1>3, <1>4, <1>8, <2>1 DEF MsInv, MsCommand, MsWindows
<1>9. CASE MsUnit
  <2>1. msHas' = msHas /\ (MsUnitWas => MsUnitWas')
    BY <1>5, <1>9 DEF MsUnit, MsUnitWas
  <2>2. ASSUME NEW k \in Nat
        PROVE  /\ MsUnitInstall(k) => MsUnitInstall(k)'
               /\ MsUnitRollback(k) => MsUnitRollback(k)'
               /\ MsUnitUninstall(k) => MsUnitUninstall(k)'
    BY <1>6, <2>1 DEF MsUnitInstall, MsUnitRollback, MsUnitUninstall
  <2> QED  BY <1>3, <1>4, <1>9, <2>2 DEF MsInv, MsCommand, MsUnit
<1>10. CASE MsSingle
  <2>1. ASSUME NEW name \in MsOnes, NEW k \in Nat, MsOne(name, k) PROVE MsOne(name, k)'
    BY <1>1, <1>6, <2>1 DEF MsOne
  <2> QED  BY <1>3, <1>4, <1>6, <1>10, <2>1 DEF MsInv, MsCommand, MsSingle
<1>11. CASE msCmd = Ms!NoCommand
  BY <1>3, <1>4, <1>11 DEF MsInv, MsCommand
<1> QED  BY <1>7, <1>8, <1>9, <1>10, <1>11 DEF MsInv, MsCommand

\* A command is accepted and is at the first step of its plan.
LEMMA MsIssued ==
    ASSUME MsInv, NEW name, NEW P \in Seq(MsSteps), Ms!Issue(name, P), name # "none"
    PROVE  /\ MsBase' /\ MsAt(name, P, 1)' /\ Ms!RollbackIsComplete' /\ msBefore' = msHas
           /\ UNCHANGED <<msOs, msHas, msUser, msGroup, msProc, msEnabled>>
<1>1. /\ msCmd' = [name |-> name, plan |-> P] /\ msBefore' = msHas
      /\ UNCHANGED <<msOs, msHas, msUser, msGroup, msProc, msEnabled, msDying, msHelper, msLost>>
      /\ msOut' = "none"
  BY DEF Ms!Issue
<1>2. RestOf(P, 1) = P /\ 1 \in 1 .. Len(P) + 1
  BY RestStep
<1>3. MsBase'
  BY <1>1, MsBaseKept DEF MsInv, MsBase, Ms!IdentityIsKept
<1> QED  BY <1>1, <1>2, <1>3 DEF MsAt, Ms!RollbackIsComplete

\* An install begins where nothing is installed, or where a user's unit may run.
LEMMA MsInstall == ASSUME MsInv, Ms!Install PROVE MsInv'
<1>1. PICK P \in Ms!Installs : Ms!Issue("install", P) /\ Ms!CanInstall
  BY DEF Ms!Install
<1>2. CASE msOs = "linux"
  <2>1. P = Ms!InstallMachineLinux /\ msHas = {}
    BY <1>1, <1>2 DEF Ms!Installs, Ms!CanInstall
  <2>2. P \in Seq(MsSteps)
    BY <2>1, MsLinuxPlans
  <2>3. MsQuiet
    BY <1>2, <2>1 DEF MsInv, MsBase, MsQuiet, Ms!StartedIsWhole, Ms!Whole, Ms!Payload
  <2>4. /\ MsBase' /\ MsAt("install", P, 1)' /\ Ms!RollbackIsComplete'
        /\ UNCHANGED <<msOs, msProc, msEnabled>>
    BY <1>1, <2>2, MsIssued
  <2>5. MsLinuxInstall(1)'
    BY <2>1, <2>3, <2>4 DEF MsLinuxInstall, MsQuiet
  <2> QED  BY <1>2, <2>4, <2>5 DEF MsInv, MsCommand, MsLinux
<1>3. CASE msOs = "windows"
  <2>1. P = Ms!InstallMachineWindows /\ msHas = {}
    BY <1>1, <1>3 DEF Ms!Installs, Ms!CanInstall
  <2>2. P \in Seq(MsSteps)
    BY <2>1, MsOtherPlans
  <2>3. MsQuiet
    BY <1>3, <2>1 DEF MsInv, MsBase, MsQuiet, Ms!StartedIsWhole, Ms!Whole, Ms!Payload
  <2>4. /\ MsBase' /\ MsAt("install", P, 1)' /\ Ms!RollbackIsComplete'
        /\ UNCHANGED <<msOs, msProc, msEnabled>>
    BY <1>1, <2>2, MsIssued
  <2>5. MsWindowsInstall(1)'
    BY <2>1, <2>3, <2>4 DEF MsWindowsInstall, MsQuiet
  <2> QED  BY <1>3, <2>4, <2>5 DEF MsInv, MsCommand, MsWindows
<1>4. CASE msOs = "user"
  <2>1. P = Ms!InstallUserUnit
    BY <1>1, <1>4 DEF Ms!Installs
  <2>2. P \in Seq(MsSteps)
    BY <2>1, MsOtherPlans
  <2>3. ~MsQuiet => "unit" \in msHas
    BY <1>4 DEF MsInv, MsBase, MsQuiet, Ms!StartedIsWhole, Ms!Whole, Ms!Payload
  <2>4. /\ MsBase' /\ MsAt("install", P, 1)' /\ Ms!RollbackIsComplete' /\ msBefore' = msHas
        /\ UNCHANGED <<msOs, msProc, msEnabled>>
    BY <1>1, <2>2, MsIssued
  <2>5. MsUnitInstall(1)'
    BY <2>1, <2>3, <2>4 DEF MsUnitInstall, MsUnitWas, MsQuiet
  <2> QED  BY <1>4, <2>4, <2>5 DEF MsInv, MsCommand, MsUnit
<1> QED  BY <1>2, <1>3, <1>4 DEF MsInv, MsBase

\* An uninstall begins.
LEMMA MsUninstall == ASSUME MsInv, Ms!Uninstall PROVE MsInv'
<1>1. CASE Ms!Issue("uninstall", <<>>)
  <2> DEFINE P == <<>>
  <2>1. P \in Seq(MsSteps) /\ Ms!Issue("uninstall", P)
    BY <1>1, MsOtherPlans
  <2> HIDE DEF P
  <2>2. MsBase' /\ MsAt("uninstall", P, 1)' /\ Ms!RollbackIsComplete'
    BY <2>1, MsIssued
  <2> QED  BY <2>2 DEF MsInv, MsCommand, MsSingle, P
<1>2. CASE \E P \in Ms!Uninstalls : Ms!Issue("uninstall", P)
  <2>0. PICK P \in Ms!Uninstalls : Ms!Issue("uninstall", P)
    BY <1>2
  <2>1. CASE msOs = "linux"
    <3>1. P = Ms!UninstallMachineLinux /\ P \in Seq(MsSteps)
      BY <2>0, <2>1, MsLinuxPlans DEF Ms!Uninstalls
    <3>2. MsBase' /\ MsAt("uninstall", P, 1)' /\ Ms!RollbackIsComplete' /\ msOs' = msOs
      BY <2>0, <3>1, MsIssued
    <3>3. MsLinuxUninstall(1)'
      BY <3>1, <3>2 DEF MsLinuxUninstall
    <3> QED  BY <2>1, <3>2, <3>3 DEF MsInv, MsCommand, MsLinux
  <2>2. CASE msOs = "windows"
    <3>1. PICK self \in BOOLEAN : P = Ms!UninstallMachineWindows(self)
      BY <2>0, <2>2 DEF Ms!Uninstalls
    <3>2. P \in Seq(MsSteps)
      BY <3>1, MsOtherPlans
    <3>3. MsBase' /\ MsAt("uninstall", P, 1)' /\ Ms!RollbackIsComplete' /\ msOs' = msOs
      BY <2>0, <3>2, MsIssued
    <3>4. MsWindowsUninstall(1, self)'
      BY <3>1, <3>3 DEF MsWindowsUninstall
    <3> QED  BY <2>2, <3>3, <3>4 DEF MsInv, MsCommand, MsWindows
  <2>3. CASE msOs = "user"
    <3>1. P = Ms!UninstallUserUnit /\ P \in Seq(MsSteps)
      BY <2>0, <2>3, MsOtherPlans DEF Ms!Uninstalls
    <3>2. MsBase' /\ MsAt("uninstall", P, 1)' /\ Ms!RollbackIsComplete' /\ msOs' = msOs
      BY <2>0, <3>1, MsIssued
    <3>3. MsUnitUninstall(1)'
      BY <3>1, <3>2 DEF MsUnitUninstall
    <3> QED  BY <2>3, <3>2, <3>3 DEF MsInv, MsCommand, MsUnit
  <2> QED  BY <2>1, <2>2, <2>3 DEF MsInv, MsBase
<1> QED  BY <1>1, <1>2 DEF Ms!Uninstall

\* A command of one step begins; enabling needs the whole payload.
LEMMA MsIssueOne ==
    ASSUME MsInv, Ms!Enable \/ Ms!Disable \/ Ms!Start \/ Ms!Stop
    PROVE  MsInv'
<1>1. PICK name \in MsOnes : Ms!Issue(name, << Ms!Do(name) >>) /\ (name = "enable" => Ms!RequirePayload)
  BY DEF Ms!Enable, Ms!Disable, Ms!Start, Ms!Stop, MsOnes
<1> DEFINE P == << Ms!Do(name) >>
<1>2. P \in Seq(MsSteps) /\ Ms!Issue(name, P) /\ name # "none"
  BY <1>1, MsOtherPlans DEF MsOnes
<1> HIDE DEF P
<1>3. /\ MsBase' /\ MsAt(name, P, 1)' /\ Ms!RollbackIsComplete'
      /\ UNCHANGED <<msOs, msHas, msUser>>
  BY <1>2, MsIssued
<1>4. name = "enable" => Ms!Whole
  <2>1. msOs = "user" /\ Ms!Managed => Ms!Whole
    BY DEF Ms!Managed, Ms!Marks, Ms!Whole, Ms!Payload
  <2> QED  BY <1>1, <2>1 DEF Ms!RequirePayload
<1>5. Ms!Whole => Ms!Whole'
  BY <1>3 DEF Ms!Whole
<1>6. MsOne(name, 1)'
  BY <1>3, <1>4, <1>5 DEF MsOne, P
<1> QED  BY <1>3, <1>6 DEF MsInv, MsCommand, MsSingle

\* The administrator between two commands.
LEMMA MsAdmin == ASSUME MsInv, Ms!AdminReuses \/ Ms!AdminRemoves PROVE MsInv'
<1>1. CASE Ms!AdminReuses
  <2>1. /\ msOs = "linux" /\ msUser = "ours" /\ msUser' = "foreign" /\ msCmd' = Ms!NoCommand
        /\ UNCHANGED <<msOs, msHas, msProc, msEnabled, msDying, msHelper, msBefore, msOut, msLost>>
    BY <1>1 DEF Ms!AdminReuses
  <2>2. Ms!IdentityIsKept'
    BY <2>1 DEF MsInv, MsBase, Ms!IdentityIsKept
  <2>3. Ms!Whole'  <=> Ms!Whole
    BY <2>1 DEF Ms!Whole
  <2>4. MsBase'
    BY <2>1, <2>2, <2>3 DEF MsInv, MsBase, Ms!StartedIsWhole
  <2>5. Ms!RollbackIsComplete'
    BY <1>1, <2>1 DEF MsInv, Ms!RollbackIsComplete, Ms!AdminReuses
  <2> QED  BY <2>1, <2>4, <2>5 DEF MsInv, MsCommand
<1>2. CASE Ms!AdminRemoves
  <2>1. MsQuiet
    BY <1>2 DEF Ms!AdminRemoves, MsInv, MsBase, MsQuiet, Ms!StartedIsWhole, Ms!Whole, Ms!Payload
  <2>2. /\ msOs = "windows" /\ msHas' \subseteq msHas /\ "service" \notin msHas' /\ MsQuiet'
    BY <1>2, <2>1 DEF Ms!AdminRemoves, MsQuiet
  <2> QED  BY <1>2, <2>2, MsBeside DEF Ms!AdminRemoves
<1> QED  BY <1>1, <1>2

\* The service manager and the deferred cleanup.
LEMMA MsManager ==
    ASSUME MsInv, Ms!ProcessFails \/ Ms!ProcessRestarts \/ Ms!EntryGoes \/ Ms!RunCleanup
    PROVE  MsInv'
<1>1. CASE Ms!ProcessFails \/ Ms!ProcessRestarts
  BY <1>1, MsBeside DEF Ms!ProcessFails, Ms!ProcessRestarts, Ms!Manager
<1>2. CASE Ms!EntryGoes
  <2>1. msOs = "windows" /\ MsQuiet' /\ msHas' \subseteq msHas /\ "service" \notin msHas'
    BY <1>2 DEF Ms!EntryGoes, MsInv, MsBase, MsQuiet
  <2> QED  BY <1>2, <2>1, MsBeside DEF Ms!EntryGoes
<1>3. CASE Ms!RunCleanup
  <2>1. msOs = "windows"
    BY <1>3 DEF Ms!RunCleanup, MsInv, MsBase
  <2>2. CASE msHas' = msHas
    BY <1>3, <2>2, MsBeside DEF Ms!RunCleanup
  <2>3. CASE "service" \notin msHas /\ msHas' = msHas \ {"root", "config"} /\ UNCHANGED msLost
    <3>1. MsQuiet
      BY <2>1, <2>3 DEF MsInv, MsBase, MsQuiet, Ms!StartedIsWhole, Ms!Whole, Ms!Payload
    <3>2. msHas' \subseteq msHas /\ "service" \notin msHas' /\ MsQuiet'
      BY <1>3, <2>3, <3>1 DEF Ms!RunCleanup, MsQuiet
    <3> QED  BY <1>3, <2>1, <2>3, <3>2, MsBeside DEF Ms!RunCleanup
  <2> QED  BY <1>3, <2>2, <2>3 DEF Ms!RunCleanup
<1> QED  BY <1>1, <1>2, <1>3

\* Nothing is installed at first, or a unit of someone else is there.
LEMMA MsInvInit == Init => MsInv
<1> SUFFICES ASSUME Ms!MsInit PROVE MsInv
  BY DEF Init
<1>1. MsBase
  BY DEF Ms!MsInit, MsBase, Ms!IdentityIsKept, Ms!StartedIsWhole
<1> QED  BY <1>1 DEF Ms!MsInit, MsInv, MsCommand, Ms!RollbackIsComplete

\* Every step keeps the invariant.
LEMMA MsInvStep == MsInv /\ [Next]_vars => MsInv'
<1> SUFFICES ASSUME MsInv, [Next]_vars PROVE MsInv'
  OBVIOUS
<1>1. Ms!MsNext \/ UNCHANGED msVars
  BY DEF Next, vars, ManagedFsStep, TcpForwardStep, SitePathStep, MachineServiceStep,
     SingleInstanceStep, SiteKitStep, FsQueryStep, InnerSessionStep, ControllerWindowStep,
     LocalCallsStep
<1>2. CASE Ms!Install \/ Ms!Uninstall \/ Ms!Enable \/ Ms!Disable \/ Ms!Start \/ Ms!Stop
  BY <1>2, MsInstall, MsUninstall, MsIssueOne
<1>3. CASE Ms!StepDone
  BY <1>3, MsStepDone
<1>4. CASE Ms!StepFails
  <2>1. msCmd # Ms!NoCommand
    BY <1>4 DEF Ms!StepFails, Ms!NoCommand
  <2> QED  BY <1>4, <2>1, MsLinuxFails, MsWindowsFails, MsUnitFails, MsSingleFails DEF MsInv, MsCommand
<1>5. CASE Ms!CommandEnds \/ Ms!Crash
  BY <1>5, MsEnds, MsCrash
<1>6. CASE Ms!ProcessFails \/ Ms!ProcessRestarts \/ Ms!EntryGoes \/ Ms!RunCleanup
  BY <1>6, MsManager
<1>7. CASE Ms!AdminReuses \/ Ms!AdminRemoves
  BY <1>7, MsAdmin
<1>8. CASE UNCHANGED msVars
  BY <1>8, MsBeside DEF msVars
<1> QED  BY <1>1, <1>2, <1>3, <1>4, <1>5, <1>6, <1>7, <1>8 DEF Ms!MsNext

\* For any number of commands: wherever a lifecycle command failed or was cut off,
\* the account never exists without its credential, nothing of someone else is
\* deleted, whatever runs or would run at boot is whole, and a rollback reported as
\* complete left nothing behind.
THEOREM InstallationIsSoundThm == Spec => []InstallationIsSound
<1>1. MsInv => InstallationIsSound
  BY DEF MsInv, MsBase, InstallationIsSound
<1> QED  BY <1>1, MsInvInit, MsInvStep, PTL DEF Spec

-----------------------------------------------------------------------------
(* Site Kits.                                                              *)

KtLooks == {0} \cup Art
KtLibs == [gen : Nat \ {0}, rev : Nat, look : KtLooks]
KtSites == [rev : Nat, look : KtLooks]
KtBuilds == {Kt!None} \cup Kt!Profiles
KtArchives == [invite : Nat, build : KtBuilds, site : KtSites]
KtStages == {"issued", "staged", "archive", "manifest", "cleared"}
KtChosen == [at : {"chosen"}, label : Labels, build : KtBuilds]
KtIssued == [at : KtStages, label : Labels, build : KtBuilds, site : KtSites, invite : Nat]
KtJobs == {Kt!Idle} \cup KtChosen \cup KtIssued

KtTyped ==
  /\ ktLibrary \in {Kt!Down} \cup KtLibs
  /\ ktSlots \in [{0, 1} -> {Kt!Torn} \cup KtLibs]
  /\ ktAcked \in Nat
  /\ ktEntries \subseteq Kt!Profiles
  /\ ktImport \in {Kt!None} \cup [build : Kt!Profiles, at : {"stored", "staged"}]
  /\ ktJob \in [Jobs -> KtJobs]
  /\ ktIssued \in Nat
  /\ ktArchive \in [Labels -> {Kt!None} \cup KtArchives]
  /\ ktHost.site \in {Kt!None} \cup KtArchives /\ ktHost.member \in {Kt!None} \cup KtSites
  /\ ktHost = [art |-> ktHost.art, site |-> ktHost.site, member |-> ktHost.member]

\* What the other slot holds beside the library `lib`: nothing whole, an
\* older generation, or a next one that was written and not acknowledged.
KtBeside(s, lib) ==
  \/ s = Kt!Torn
  \/ s \in KtLibs /\ s.gen < lib.gen
  \/ s \in KtLibs /\ s.gen = lib.gen + 1 /\ s.rev >= ktAcked

\* The library that the slots stand for.
KtKept(lib) ==
  /\ lib \in KtLibs /\ lib.rev >= ktAcked
  /\ ktSlots[Kt!SlotOf(lib.gen)] = lib
  /\ KtBeside(ktSlots[Kt!SlotOf(lib.gen + 1)], lib)

KtLibrary ==
  /\ Kt!Running => KtKept(ktLibrary)
  /\ \E lib \in KtLibs : KtKept(lib)

\* A look that the store has.
KtStored(look) == look \in {0} \cup ktArt

KtBound ==
  /\ \A j \in Jobs : ktJob[j].at = "staged" =>
       ktJob[j].build = ktJob[j].site /\ KtStored(ktJob[j].site.look)
  /\ \A l \in Labels : ktArchive[l] # Kt!None =>
       ktArchive[l].build = ktArchive[l].site /\ KtStored(ktArchive[l].site.look)
  /\ ktHost.site # Kt!None => ktHost.site.site.look \in {0} \cup ktHost.art
  /\ ktHost.member # Kt!None => ktHost.member.look \in {0} \cup ktHost.art

\* A request runs in a Controller that runs.
KtAlive == \A j \in Jobs : ktJob[j].at # "idle" => Kt!Running

KtBase == KtTyped /\ KtLibrary /\ KtAlive /\ KtBound /\ Kt!NoStrayInvite
KtInv == focus = "kit" => KtBase

\* Records of different shapes.
LEMMA KtShapes ==
    /\ Kt!Down \notin KtLibs /\ Kt!Torn \notin KtLibs
    /\ Kt!None \notin KtArchives /\ Kt!None \notin [build : Kt!Profiles, at : {"stored", "staged"}]
    /\ Kt!Idle \notin KtChosen /\ Kt!Idle \notin KtIssued
    /\ \A s \in KtLibs : s.gen \in Nat /\ s.gen > 0 /\ s.rev \in Nat /\ s.look \in KtLooks
<1>1. Kt!Down.gen = 0 /\ Kt!Torn.gen = 0 /\ Kt!Idle.at = "idle"
  BY DEF Kt!Down, Kt!Torn, Kt!Idle
<1>2. \A s \in KtLibs : s.gen \in Nat /\ s.gen > 0 /\ s.rev \in Nat /\ s.look \in KtLooks
  BY DEF KtLibs
<1>3. Kt!None \notin KtArchives /\ Kt!None \notin [build : Kt!Profiles, at : {"stored", "staged"}]
  <2>1. "invite" \notin DOMAIN Kt!None /\ "build" \notin DOMAIN Kt!None
    BY DEF Kt!None
  <2>2. \A a \in KtArchives : "invite" \in DOMAIN a
    BY DEF KtArchives
  <2>3. \A a \in [build : Kt!Profiles, at : {"stored", "staged"}] : "build" \in DOMAIN a
    OBVIOUS
  <2> QED  BY <2>1, <2>2, <2>3
<1>4. \A r \in KtChosen \cup KtIssued : r.at # "idle"
  BY DEF KtChosen, KtIssued, KtStages
<1> QED  BY <1>1, <1>2, <1>3, <1>4

\* The two slots.
LEMMA KtSlots ==
    ASSUME NEW g \in Nat
    PROVE  /\ Kt!SlotOf(g) \in {0, 1} /\ Kt!SlotOf(g + 1) \in {0, 1}
           /\ Kt!SlotOf(g) # Kt!SlotOf(g + 1) /\ Kt!SlotOf(g + 1 + 1) = Kt!SlotOf(g)
           /\ \A k \in {0, 1} : k # Kt!SlotOf(g) => k = Kt!SlotOf(g + 1)
BY DEF Kt!SlotOf

\* A start takes the library that the slots stand for.
LEMMA KtLoads ==
    ASSUME ktSlots \in [{0, 1} -> {Kt!Torn} \cup KtLibs], NEW lib \in KtLibs, KtKept(lib),
           ktAcked \in Nat,
           NEW s \in {ktSlots[0], ktSlots[1]} \ {Kt!Torn},
           \A t \in {ktSlots[0], ktSlots[1]} \ {Kt!Torn, s} : t.gen < s.gen
    PROVE  KtKept(s)
<1>1. lib.gen \in Nat /\ lib.gen > 0
  BY KtShapes
<1>2. PICK a, b : a = Kt!SlotOf(lib.gen) /\ b = Kt!SlotOf(lib.gen + 1)
  OBVIOUS
<1>3. a \in {0, 1} /\ b \in {0, 1} /\ a # b /\ Kt!SlotOf(lib.gen + 1 + 1) = a
      /\ \A k \in {0, 1} : k = a \/ k = b
  BY <1>1, <1>2, KtSlots
<1>4. ktSlots[a] = lib /\ KtBeside(ktSlots[b], lib) /\ lib \in {ktSlots[0], ktSlots[1]}
  BY <1>2, <1>3 DEF KtKept
<1>5. CASE s = lib
  BY <1>5
<1>6. CASE s # lib
  <2>1. s = ktSlots[b] /\ s \in KtLibs /\ s # Kt!Torn
    BY <1>3, <1>4, <1>6
  <2>2. lib.gen < s.gen
    BY <1>4, <1>6, KtShapes
  <2>3. s.gen = lib.gen + 1 /\ s.rev >= ktAcked
    BY <1>1, <1>4, <2>1, <2>2, KtShapes DEF KtBeside
  <2>4. Kt!SlotOf(s.gen) = b /\ Kt!SlotOf(s.gen + 1) = a
    BY <1>2, <1>3, <2>3
  <2> QED  BY <1>4, <2>1, <2>2, <2>3, <2>4 DEF KtKept, KtBeside
<1> QED  BY <1>5, <1>6

\* An edit that is committed, and one that is not.
LEMMA KtEdits ==
    ASSUME KtTyped, KtLibrary, Kt!Running, NEW rev \in Nat, NEW look \in KtLooks, rev >= ktLibrary.rev,
           \/ Kt!Commits(Kt!Candidate(rev, look)) /\ ktAcked' \in {ktAcked, rev}
           \/ Kt!CommitFails(Kt!Candidate(rev, look)) /\ UNCHANGED ktAcked
           \/ UNCHANGED <<ktLibrary, ktSlots, ktAcked>>
    PROVE  /\ KtLibrary'
           /\ ktLibrary' \in {Kt!Down} \cup KtLibs /\ ktSlots' \in [{0, 1} -> {Kt!Torn} \cup KtLibs]
           /\ ktAcked' \in Nat /\ (Kt!Running)'
<1>1. PICK lib, cand : lib = ktLibrary /\ cand = Kt!Candidate(rev, look)
  OBVIOUS
<1>2. KtKept(lib) /\ lib \in KtLibs /\ lib.gen \in Nat /\ lib.gen > 0 /\ lib.rev \in Nat /\ ktAcked \in Nat
      /\ lib.rev >= ktAcked
  BY <1>1, KtShapes DEF KtLibrary, KtKept, KtTyped
<1>3. PICK a, b : a = Kt!SlotOf(lib.gen) /\ b = Kt!SlotOf(lib.gen + 1)
  OBVIOUS
<1>4. a \in {0, 1} /\ b \in {0, 1} /\ a # b /\ Kt!SlotOf(lib.gen + 1 + 1) = a
  BY <1>2, <1>3, KtSlots
<1>5. cand \in KtLibs /\ cand.gen = lib.gen + 1 /\ cand.rev = rev
  BY <1>1, <1>2 DEF KtLibs, Kt!Candidate
<1>6. ktSlots \in [{0, 1} -> {Kt!Torn} \cup KtLibs] /\ ktSlots[a] = lib
  BY <1>2, <1>3 DEF KtTyped, KtKept
<1>7. \A s : Kt!Written(s) = [ktSlots EXCEPT ![b] = s]
  BY <1>1, <1>3 DEF Kt!Written
<1>8. CASE Kt!Commits(Kt!Candidate(rev, look)) /\ ktAcked' \in {ktAcked, rev}
  <2>1. ktSlots' = [ktSlots EXCEPT ![b] = cand] /\ ktLibrary' = cand
    BY <1>1, <1>7, <1>8 DEF Kt!Commits
  <2>2. ktSlots'[b] = cand /\ ktSlots'[a] = lib /\ ktSlots' \in [{0, 1} -> {Kt!Torn} \cup KtLibs]
    BY <1>4, <1>5, <1>6, <2>1
  <2>3. Kt!SlotOf(cand.gen) = b /\ Kt!SlotOf(cand.gen + 1) = a
    BY <1>3, <1>4, <1>5
  <2>4. ktAcked' \in Nat /\ cand.rev >= ktAcked' /\ lib.gen < cand.gen
    BY <1>1, <1>2, <1>5, <1>8
  <2>5. KtKept(cand)'
    BY <1>2, <1>5, <2>2, <2>3, <2>4 DEF KtKept, KtBeside
  <2>6. ktLibrary' # Kt!Down
    BY <1>5, <2>1, KtShapes
  <2> QED  BY <1>5, <2>1, <2>2, <2>4, <2>5, <2>6 DEF KtLibrary, Kt!Running
<1>9. CASE Kt!CommitFails(Kt!Candidate(rev, look)) /\ UNCHANGED ktAcked
  <2>1. PICK s \in {cand, Kt!Torn} : ktSlots' = [ktSlots EXCEPT ![b] = s] /\ ktLibrary' = lib
    BY <1>1, <1>7, <1>9 DEF Kt!CommitFails
  <2>2. ktSlots'[b] = s /\ ktSlots'[a] = lib /\ ktSlots' \in [{0, 1} -> {Kt!Torn} \cup KtLibs]
    BY <1>4, <1>5, <1>6, <2>1
  <2>3. cand.rev >= ktAcked
    BY <1>1, <1>2, <1>5
  <2>4. KtKept(lib)'
    BY <1>2, <1>3, <1>5, <1>9, <2>2, <2>3 DEF KtKept, KtBeside
  <2> QED  BY <1>1, <1>2, <1>9, <2>1, <2>2, <2>4 DEF KtLibrary, Kt!Running
<1>10. CASE UNCHANGED <<ktLibrary, ktSlots, ktAcked>>
  BY <1>1, <1>2, <1>6, <1>10 DEF KtLibrary, KtKept, KtBeside, Kt!Running
<1> QED  BY <1>8, <1>9, <1>10

\* The library stays when nobody writes it.
LEMMA KtSameLibrary ==
    ASSUME KtLibrary, UNCHANGED <<ktLibrary, ktSlots, ktAcked>>
    PROVE  KtLibrary'
BY DEF KtLibrary, KtKept, KtBeside, Kt!Running

\* What a record of a request is.
LEMMA KtJobKinds ==
    ASSUME KtTyped, NEW j \in Jobs
    PROVE  /\ ktJob[j] \in KtJobs
           /\ ktJob[j].at = "idle" => ktJob[j] = Kt!Idle
           /\ ktJob[j].at = "chosen" => ktJob[j] \in KtChosen
           /\ ktJob[j].at \notin {"idle", "chosen"} => ktJob[j] \in KtIssued
<1>1. ktJob[j] \in KtJobs
  BY DEF KtTyped
<1> QED  BY <1>1 DEF KtJobs, KtChosen, KtIssued, KtStages, Kt!Idle

\* A request moves on: no invite is forgotten unless it was dealt with.
LEMMA KtMoves ==
    ASSUME KtTyped, Kt!NoStrayInvite, NEW j \in Jobs, NEW n \in KtJobs, Kt!Goes(j, n),
           ktOpen' \subseteq ktOpen, ktMade \subseteq ktMade', ktExcused \subseteq ktExcused',
           ktJob[j].at \notin {"idle", "chosen"} =>
             \/ n.at \notin {"idle", "chosen"} /\ n.invite = ktJob[j].invite
             \/ ktJob[j].invite \notin ktOpen' \/ ktJob[j].invite \in ktMade' \cup ktExcused'
    PROVE  /\ (Kt!NoStrayInvite)' /\ ktJob' \in [Jobs -> KtJobs] /\ ktJob'[j] = n
           /\ \A k \in Jobs : k # j => ktJob'[k] = ktJob[k]
<1>1. ktJob \in [Jobs -> KtJobs] /\ ktJob' = [ktJob EXCEPT ![j] = n]
  BY DEF KtTyped, Kt!Goes
<1>2. ktJob' \in [Jobs -> KtJobs] /\ ktJob'[j] = n /\ \A k \in Jobs : k # j => ktJob'[k] = ktJob[k]
  BY <1>1
<1>3. ASSUME NEW i \in ktOpen'
      PROVE  \/ i \in ktMade' \cup ktExcused'
             \/ \E k \in Jobs : ktJob'[k].at \notin {"idle", "chosen"} /\ ktJob'[k].invite = i
  <2>1. i \in ktOpen
    OBVIOUS
  <2>2. CASE i \in ktMade \cup ktExcused
    BY <2>2
  <2>3. CASE \E k \in Jobs : ktJob[k].at \notin {"idle", "chosen"} /\ ktJob[k].invite = i
    <3>1. PICK k \in Jobs : ktJob[k].at \notin {"idle", "chosen"} /\ ktJob[k].invite = i
      BY <2>3
    <3>2. CASE k = j
      BY <1>2, <1>3, <3>1, <3>2
    <3>3. CASE k # j
      BY <1>2, <3>1, <3>3
    <3> QED  BY <3>2, <3>3
  <2> QED  BY <2>1, <2>2, <2>3 DEF Kt!NoStrayInvite
<1> QED  BY <1>2, <1>3 DEF Kt!NoStrayInvite

\* An edit of the outfit.
LEMMA KtEditStep ==
    ASSUME KtBase, Kt!CreateOutfit \/ Kt!UpdateEditable \/ \E a \in Art : Kt!SetAsset(a)
    PROVE  KtBase'
<1>1. KtTyped /\ KtLibrary /\ Kt!Running
  BY DEF KtBase, Kt!CreateOutfit, Kt!UpdateEditable, Kt!SetAsset
<1>2. ktLibrary \in KtLibs /\ ktLibrary.rev \in Nat /\ ktLibrary.look \in KtLooks
  BY <1>1, KtShapes DEF KtTyped, Kt!Running
<1>3. PICK rev \in Nat, look \in KtLooks : rev >= ktLibrary.rev /\ Kt!Edit(rev, look)
  <2>1. CASE Kt!CreateOutfit
    BY <1>2, <2>1 DEF Kt!CreateOutfit, KtLooks
  <2>2. CASE Kt!UpdateEditable
    BY <1>2, <2>2 DEF Kt!UpdateEditable
  <2>3. CASE \E a \in Art : Kt!SetAsset(a)
    <3>1. PICK a \in Art : Kt!SetAsset(a)
      BY <2>3
    <3>2. PICK r : r = IF ktLibrary.look = a THEN ktLibrary.rev ELSE ktLibrary.rev + 1
      OBVIOUS
    <3>3. r \in Nat /\ r >= ktLibrary.rev /\ a \in KtLooks
      BY <1>2, <3>2 DEF KtLooks
    <3>4. Kt!Edit(r, a)
      BY <3>1, <3>2 DEF Kt!SetAsset
    <3> QED  BY <3>3, <3>4
  <2> QED  BY <2>1, <2>2, <2>3
<1>4. /\ \/ Kt!Commits(Kt!Candidate(rev, look)) /\ ktAcked' \in {ktAcked, rev}
         \/ Kt!CommitFails(Kt!Candidate(rev, look)) /\ UNCHANGED ktAcked
      /\ UNCHANGED <<ktArt, ktEntries, ktActive, ktImport, ktJob, ktIssued, ktOpen, ktMade, ktExcused,
                     ktArchive, ktSidecar, ktSums, ktHost>>
  BY <1>3 DEF Kt!Edit, Kt!storeVars, Kt!inviteVars, Kt!outVars
<1>5. /\ KtLibrary' /\ ktAcked' \in Nat
      /\ ktLibrary' \in {Kt!Down} \cup KtLibs /\ ktSlots' \in [{0, 1} -> {Kt!Torn} \cup KtLibs]
      /\ KtAlive'
  BY <1>1, <1>3, <1>4, KtEdits DEF KtAlive
<1>6. KtTyped'
  BY <1>1, <1>4, <1>5 DEF KtTyped
<1>7. KtBound' /\ (Kt!NoStrayInvite)'
  BY <1>4 DEF KtBase, KtBound, KtStored, Kt!NoStrayInvite
<1> QED  BY <1>5, <1>6, <1>7 DEF KtBase

\* An image is stored.
LEMMA KtImportsAsset == ASSUME KtBase, NEW a \in Art, Kt!ImportAsset(a) PROVE KtBase'
<1>1. /\ ktArt' = ktArt \cup {a}
      /\ UNCHANGED <<ktLibrary, ktSlots, ktAcked, ktEntries, ktActive, ktImport, ktJob, ktIssued, ktOpen,
                     ktMade, ktExcused, ktArchive, ktSidecar, ktSums, ktHost>>
  BY DEF Kt!ImportAsset, Kt!libraryVars, Kt!inviteVars, Kt!outVars
<1>2. KtTyped'
  BY <1>1 DEF KtBase, KtTyped
<1>3. KtLibrary'
  BY <1>1, KtSameLibrary DEF KtBase
<1>4. KtBound' /\ KtAlive' /\ (Kt!NoStrayInvite)'
  BY <1>1 DEF KtBase, KtBound, KtStored, KtAlive, Kt!Running, Kt!NoStrayInvite
<1> QED  BY <1>2, <1>3, <1>4 DEF KtBase

\* The Controller is killed.
LEMMA KtDies == ASSUME KtBase, Kt!ControllerDies PROVE KtBase'
<1>1. /\ ktLibrary' = Kt!Down /\ ktJob' = [j \in Jobs |-> Kt!Idle] /\ ktImport' = Kt!None
      /\ ktExcused' = ktExcused \cup {ktJob[j].invite : j \in {j \in Jobs : ktJob[j].at \notin {"idle", "chosen"}}}
      /\ UNCHANGED <<ktSlots, ktAcked, ktArt, ktEntries, ktActive, ktIssued, ktOpen, ktMade,
                     ktArchive, ktSidecar, ktSums, ktHost>>
  BY DEF Kt!ControllerDies, Kt!outVars
<1>2. KtTyped'
  BY <1>1 DEF KtBase, KtTyped, KtJobs
<1>3. KtLibrary'
  BY <1>1 DEF KtBase, KtLibrary, KtKept, KtBeside, Kt!Running
<1>4. KtBound' /\ KtAlive'
  BY <1>1 DEF KtBase, KtBound, KtStored, KtAlive, Kt!Idle
<1>5. ASSUME NEW i \in ktOpen PROVE i \in ktMade \cup ktExcused'
  <2>1. CASE i \in ktMade \cup ktExcused
    BY <1>1, <2>1
  <2>2. CASE \E j \in Jobs : ktJob[j].at \notin {"idle", "chosen"} /\ ktJob[j].invite = i
    BY <1>1, <2>2
  <2> QED  BY <2>1, <2>2 DEF KtBase, Kt!NoStrayInvite
<1>6. (Kt!NoStrayInvite)'
  BY <1>1, <1>5 DEF Kt!NoStrayInvite
<1> QED  BY <1>2, <1>3, <1>4, <1>6 DEF KtBase

\* It starts again.
LEMMA KtStarts == ASSUME KtBase, Kt!LoadLibrary PROVE KtBase'
<1>1. PICK s \in {ktSlots[0], ktSlots[1]} \ {Kt!Torn} :
        /\ \A t \in {ktSlots[0], ktSlots[1]} \ {Kt!Torn, s} : t.gen < s.gen
        /\ ktLibrary' = s
  BY DEF Kt!LoadLibrary
<1>2. UNCHANGED <<ktSlots, ktAcked, ktArt, ktEntries, ktActive, ktImport, ktJob, ktIssued, ktOpen,
                  ktMade, ktExcused, ktArchive, ktSidecar, ktSums, ktHost>>
  BY DEF Kt!LoadLibrary, Kt!storeVars, Kt!inviteVars, Kt!outVars
<1>3. PICK lib \in KtLibs : KtKept(lib)
  BY DEF KtBase, KtLibrary
<1>4. KtKept(s)
  BY <1>1, <1>3, KtLoads DEF KtBase, KtTyped
<1>5. KtKept(s)' /\ s \in KtLibs
  BY <1>2, <1>4 DEF KtKept, KtBeside
<1>6. KtLibrary'
  BY <1>1, <1>5 DEF KtLibrary
<1>7. KtTyped'
  BY <1>1, <1>2, <1>5 DEF KtBase, KtTyped
<1>8. KtBound' /\ (Kt!NoStrayInvite)'
  BY <1>2 DEF KtBase, KtBound, KtStored, Kt!NoStrayInvite
<1>9. KtAlive'
  BY <1>1, <1>5, KtShapes DEF KtAlive, Kt!Running
<1> QED  BY <1>6, <1>7, <1>8, <1>9 DEF KtBase

\* A runtime is imported.
LEMMA KtImports ==
    ASSUME KtBase,
           \/ \E p \in Kt!Profiles : Kt!ImportRuntime(p)
           \/ Kt!PublishEntry \/ Kt!Unpoint \/ Kt!WriteActivePointer
    PROVE  KtBase'
<1>1. UNCHANGED <<ktLibrary, ktSlots, ktAcked, ktArt, ktJob, ktIssued, ktOpen,
                  ktMade, ktExcused, ktArchive, ktSidecar, ktSums, ktHost>>
  BY DEF Kt!ImportRuntime, Kt!PublishEntry, Kt!Unpoint, Kt!WriteActivePointer, Kt!libraryVars, Kt!inviteVars, Kt!outVars
<1>2. ktEntries' \subseteq Kt!Profiles
      /\ ktImport' \in {Kt!None} \cup [build : Kt!Profiles, at : {"stored", "staged"}]
  <2>1. CASE \E p \in Kt!Profiles : Kt!ImportRuntime(p)
    BY <2>1 DEF Kt!ImportRuntime, KtBase, KtTyped
  <2>2. CASE Kt!PublishEntry
    <3>1. ktImport \in [build : Kt!Profiles, at : {"stored", "staged"}] /\ ktEntries \subseteq Kt!Profiles
      BY <2>2 DEF Kt!PublishEntry, KtBase, KtTyped
    <3> QED  BY <2>2, <3>1 DEF Kt!PublishEntry, Kt!EntryRefused
  <2>3. CASE Kt!Unpoint \/ Kt!WriteActivePointer
    BY <2>3 DEF Kt!Unpoint, Kt!WriteActivePointer, KtBase, KtTyped
  <2> QED  BY <2>1, <2>2, <2>3
<1>3. KtTyped'
  BY <1>1, <1>2 DEF KtBase, KtTyped
<1>4. KtLibrary'
  BY <1>1, KtSameLibrary DEF KtBase
<1>5. KtBound' /\ KtAlive' /\ (Kt!NoStrayInvite)'
  BY <1>1 DEF KtBase, KtBound, KtStored, KtAlive, Kt!Running, Kt!NoStrayInvite
<1> QED  BY <1>3, <1>4, <1>5 DEF KtBase

\* A request moves on, whatever it writes.
LEMMA KtGoes ==
    ASSUME KtBase, NEW j \in Jobs, NEW n \in KtJobs, Kt!Goes(j, n),
           KtLibrary', (Kt!NoStrayInvite)',
           ktLibrary' \in {Kt!Down} \cup KtLibs, ktSlots' \in [{0, 1} -> {Kt!Torn} \cup KtLibs],
           ktAcked' \in Nat, ktIssued' \in Nat, (Kt!Running)',
           UNCHANGED <<ktArt, ktEntries, ktImport, ktHost>>,
           ktArchive' \in [Labels -> {Kt!None} \cup KtArchives],
           \A l \in Labels : \/ ktArchive'[l] = ktArchive[l]
                             \/ ktArchive'[l].build = ktArchive'[l].site /\ KtStored(ktArchive'[l].site.look),
           n.at = "staged" => n.build = n.site /\ KtStored(n.site.look)
    PROVE  KtBase'
<1>1. ktJob \in [Jobs -> KtJobs] /\ ktJob' = [ktJob EXCEPT ![j] = n]
  BY DEF KtBase, KtTyped, Kt!Goes
<1>2. ktJob' \in [Jobs -> KtJobs] /\ \A k \in Jobs : ktJob'[k] = n \/ ktJob'[k] = ktJob[k]
  BY <1>1
<1>3. KtTyped'
  BY <1>2 DEF KtBase, KtTyped
<1>4. KtAlive'
  BY DEF KtAlive
<1>5. KtBound'
  <2>1. \A k \in Jobs : ktJob'[k].at = "staged" =>
          ktJob'[k].build = ktJob'[k].site /\ KtStored(ktJob'[k].site.look)
    BY <1>2 DEF KtBase, KtBound
  <2>2. \A l \in Labels : ktArchive'[l] # Kt!None =>
          ktArchive'[l].build = ktArchive'[l].site /\ KtStored(ktArchive'[l].site.look)
    BY DEF KtBase, KtBound
  <2> QED  BY <2>1, <2>2 DEF KtBase, KtBound, KtStored
<1> QED  BY <1>3, <1>4, <1>5 DEF KtBase

\* A request moves on beside the library.
LEMMA KtGoesBeside ==
    ASSUME KtBase, NEW j \in Jobs, NEW n \in KtJobs, Kt!Goes(j, n), Kt!Running,
           UNCHANGED <<ktLibrary, ktSlots, ktAcked, ktArt, ktEntries, ktImport, ktIssued, ktHost>>,
           ktOpen' \subseteq ktOpen, ktMade \subseteq ktMade', ktExcused \subseteq ktExcused',
           ktJob[j].at \notin {"idle", "chosen"} =>
             \/ n.at \notin {"idle", "chosen"} /\ n.invite = ktJob[j].invite
             \/ ktJob[j].invite \notin ktOpen' \/ ktJob[j].invite \in ktMade' \cup ktExcused',
           ktArchive' \in [Labels -> {Kt!None} \cup KtArchives],
           \A l \in Labels : \/ ktArchive'[l] = ktArchive[l]
                             \/ ktArchive'[l].build = ktArchive'[l].site /\ KtStored(ktArchive'[l].site.look),
           n.at = "staged" => n.build = n.site /\ KtStored(n.site.look)
    PROVE  KtBase'
<1>1. KtTyped /\ KtLibrary /\ Kt!NoStrayInvite
  BY DEF KtBase
<1>2. (Kt!NoStrayInvite)'
  BY <1>1, KtMoves
<1>3. KtLibrary'
  BY <1>1, KtSameLibrary
<1>4. /\ ktLibrary' \in {Kt!Down} \cup KtLibs /\ ktSlots' \in [{0, 1} -> {Kt!Torn} \cup KtLibs]
      /\ ktAcked' \in Nat /\ ktIssued' \in Nat /\ (Kt!Running)'
  BY <1>1 DEF KtTyped, Kt!Running
<1> QED  BY <1>2, <1>3, <1>4, KtGoes

\* The archives stay.
LEMMA KtSameArchives ==
    ASSUME KtTyped, UNCHANGED ktArchive
    PROVE  /\ ktArchive' \in [Labels -> {Kt!None} \cup KtArchives]
           /\ \A l \in Labels : \/ ktArchive'[l] = ktArchive[l]
                                \/ /\ ktArchive'[l].build = ktArchive'[l].site
                                   /\ KtStored(ktArchive'[l].site.look)
BY DEF KtTyped

\* A request reads the profile and the runtime that is active for it.
LEMMA KtChooses == ASSUME KtBase, NEW j \in Jobs, NEW l \in Labels, Kt!ChooseRuntime(j, l) PROVE KtBase'
<1>1. PICK b : b = Kt!ActiveForFlavor(ktLibrary.rev)
  OBVIOUS
<1>2. /\ Kt!Running /\ ktJob[j].at = "idle"
      /\ Kt!Goes(j, [at |-> "chosen", label |-> l, build |-> b])
      /\ UNCHANGED <<ktLibrary, ktSlots, ktAcked, ktArt, ktEntries, ktImport, ktIssued, ktHost,
                     ktOpen, ktMade, ktExcused, ktArchive>>
  BY <1>1 DEF Kt!ChooseRuntime, Kt!libraryVars, Kt!storeVars, Kt!inviteVars, Kt!outVars
<1>3. b \in KtBuilds
  BY <1>1 DEF Kt!ActiveForFlavor, KtBuilds, KtBase, KtTyped
<1>4. PICK n : n = [at |-> "chosen", label |-> l, build |-> b]
  OBVIOUS
<1>5. n \in KtJobs /\ n.at = "chosen" /\ Kt!Goes(j, n)
  BY <1>2, <1>3, <1>4 DEF KtJobs, KtChosen
<1>6. KtTyped
  BY DEF KtBase
<1> QED  BY <1>2, <1>5, <1>6, KtSameArchives, KtGoesBeside

\* The invite is issued and the site signed.
LEMMA KtIssues == ASSUME KtBase, NEW j \in Jobs, Kt!IssueInvite(j) PROVE KtBase'
<1>1. /\ ktJob[j].at = "chosen" /\ Kt!Commits(Kt!Candidate(ktLibrary.rev, ktLibrary.look))
      /\ ktIssued' = ktIssued + 1 /\ ktOpen' = ktOpen \cup {ktIssued'}
      /\ Kt!Goes(j, Kt!SignedSite(j, ktIssued'))
      /\ UNCHANGED <<ktAcked, ktArt, ktEntries, ktImport, ktHost, ktMade, ktExcused, ktArchive>>
  BY DEF Kt!IssueInvite, Kt!storeVars, Kt!outVars
<1>2. KtTyped /\ KtLibrary /\ Kt!Running /\ Kt!NoStrayInvite
  BY <1>1 DEF KtBase, KtAlive
<1>3. PICK rev \in Nat, look \in KtLooks : rev = ktLibrary.rev /\ look = ktLibrary.look
  BY <1>2, KtShapes DEF KtTyped, Kt!Running
<1>4. /\ KtLibrary' /\ ktAcked' \in Nat /\ (Kt!Running)'
      /\ ktLibrary' \in {Kt!Down} \cup KtLibs /\ ktSlots' \in [{0, 1} -> {Kt!Torn} \cup KtLibs]
  BY <1>1, <1>2, <1>3, KtEdits
<1>5. ktJob[j] \in KtChosen /\ ktJob[j].label \in Labels /\ ktJob[j].build \in KtBuilds
  BY <1>1, <1>2, KtJobKinds DEF KtChosen
<1>6. PICK i \in Nat : i = ktIssued + 1
  BY <1>2 DEF KtTyped
<1>7. PICK n : n = [at |-> "issued", label |-> ktJob[j].label, build |-> ktJob[j].build,
                    site |-> [rev |-> rev, look |-> look], invite |-> i]
  OBVIOUS
<1>8. n \in KtJobs /\ n.at = "issued" /\ n.invite = i
  BY <1>3, <1>5, <1>6, <1>7 DEF KtJobs, KtIssued, KtSites, KtStages
<1>9. Kt!Goes(j, n)
  BY <1>1, <1>3, <1>6, <1>7 DEF Kt!Goes, Kt!SignedSite, Kt!Profile
<1>10. ktJob \in [Jobs -> KtJobs] /\ ktJob' = [ktJob EXCEPT ![j] = n]
  BY <1>2, <1>9 DEF KtTyped, Kt!Goes
<1>11. ktJob'[j] = n /\ \A k \in Jobs : k # j => ktJob'[k] = ktJob[k]
  BY <1>10
<1>12. ASSUME NEW o \in ktOpen'
       PROVE  \/ o \in ktMade' \cup ktExcused'
              \/ \E k \in Jobs : ktJob'[k].at \notin {"idle", "chosen"} /\ ktJob'[k].invite = o
  <2>1. CASE o = i
    BY <1>8, <1>11, <2>1
  <2>2. CASE o \in ktOpen /\ o \in ktMade \cup ktExcused
    BY <1>1, <2>2
  <2>3. CASE o \in ktOpen /\ \E k \in Jobs : ktJob[k].at \notin {"idle", "chosen"} /\ ktJob[k].invite = o
    <3>1. PICK k \in Jobs : ktJob[k].at \notin {"idle", "chosen"} /\ ktJob[k].invite = o
      BY <2>3
    <3>2. k # j
      BY <1>1, <3>1
    <3> QED  BY <1>11, <3>1, <3>2
  <2>4. o = i \/ o \in ktOpen
    BY <1>1, <1>6
  <2> QED  BY <1>2, <2>1, <2>2, <2>3, <2>4 DEF Kt!NoStrayInvite
<1>13. (Kt!NoStrayInvite)'
  BY <1>12 DEF Kt!NoStrayInvite
<1>14. ktIssued' \in Nat
  BY <1>1, <1>6
<1> QED  BY <1>1, <1>2, <1>4, <1>8, <1>9, <1>13, <1>14, KtSameArchives, KtGoes

\* The invite is refused.
LEMMA KtRefused == ASSUME KtBase, NEW j \in Jobs, Kt!IssueFails(j) PROVE KtBase'
<1>1. /\ ktJob[j].at = "chosen" /\ Kt!Goes(j, Kt!Idle)
      /\ UNCHANGED <<ktAcked, ktArt, ktEntries, ktImport, ktHost, ktIssued, ktOpen, ktMade, ktExcused, ktArchive>>
  BY DEF Kt!IssueFails, Kt!storeVars, Kt!inviteVars, Kt!outVars
<1>2. KtTyped /\ KtLibrary /\ Kt!Running /\ Kt!NoStrayInvite
  BY <1>1 DEF KtBase, KtAlive
<1>3. PICK rev \in Nat, look \in KtLooks : rev = ktLibrary.rev /\ look = ktLibrary.look
  BY <1>2, KtShapes DEF KtTyped, Kt!Running
<1>4. \/ Kt!Commits(Kt!Candidate(rev, look)) /\ ktAcked' \in {ktAcked, rev}
      \/ Kt!CommitFails(Kt!Candidate(rev, look)) /\ UNCHANGED ktAcked
      \/ UNCHANGED <<ktLibrary, ktSlots, ktAcked>>
  BY <1>1, <1>3 DEF Kt!IssueFails
<1>5. rev >= ktLibrary.rev
  BY <1>3
<1>6. /\ KtLibrary' /\ ktAcked' \in Nat /\ (Kt!Running)'
      /\ ktLibrary' \in {Kt!Down} \cup KtLibs /\ ktSlots' \in [{0, 1} -> {Kt!Torn} \cup KtLibs]
  BY <1>2, <1>4, <1>5, KtEdits
<1>7. PICK n \in KtJobs : n = Kt!Idle
  BY DEF KtJobs
<1>8. Kt!Goes(j, n) /\ n.at = "idle"
  BY <1>1, <1>7 DEF Kt!Idle
<1>9. ktIssued' \in Nat
  BY <1>1, <1>2 DEF KtTyped
<1>10. (Kt!NoStrayInvite)'
  BY <1>1, <1>2, <1>8, KtMoves
<1> QED  BY <1>1, <1>2, <1>6, <1>8, <1>9, <1>10, KtSameArchives, KtGoes

\* A request that goes to another stage and keeps what it says.
LEMMA KtNextStage ==
    ASSUME KtTyped, NEW j \in Jobs, NEW at \in KtStages,
           ktJob[j].at \notin {"idle", "chosen"}, Kt!Goes(j, Kt!At(j, at))
    PROVE  \E n \in KtJobs : /\ Kt!Goes(j, n) /\ n.at = at
                             /\ n.invite = ktJob[j].invite /\ n.build = ktJob[j].build /\ n.site = ktJob[j].site
<1>1. ktJob[j] \in KtIssued
  BY KtJobKinds
<1>2. PICK n : n = [ktJob[j] EXCEPT !.at = at]
  OBVIOUS
<1>3. /\ n \in KtIssued /\ n.at = at
      /\ n.invite = ktJob[j].invite /\ n.build = ktJob[j].build /\ n.site = ktJob[j].site
  BY <1>1, <1>2 DEF KtIssued
<1> QED  BY <1>2, <1>3 DEF Kt!At, KtJobs

\* The files are staged.
LEMMA KtAssembles == ASSUME KtBase, NEW j \in Jobs, Kt!Assemble(j) PROVE KtBase'
<1>1. /\ ktJob[j].at = "issued" /\ Kt!Goes(j, Kt!At(j, "staged"))
      /\ ktJob[j].build = ktJob[j].site /\ KtStored(ktJob[j].site.look)
      /\ UNCHANGED <<ktLibrary, ktSlots, ktAcked, ktArt, ktEntries, ktImport, ktIssued, ktHost,
                     ktOpen, ktMade, ktExcused, ktArchive>>
  BY DEF Kt!Assemble, Kt!SiteBinding, KtStored, Kt!libraryVars, Kt!storeVars, Kt!inviteVars, Kt!outVars
<1>2. KtTyped /\ Kt!Running
  BY <1>1 DEF KtBase, KtAlive
<1>3. PICK n \in KtJobs : /\ Kt!Goes(j, n) /\ n.at = "staged"
                          /\ n.invite = ktJob[j].invite /\ n.build = ktJob[j].build /\ n.site = ktJob[j].site
  BY <1>1, <1>2, KtNextStage DEF KtStages
<1> QED  BY <1>1, <1>2, <1>3, KtSameArchives, KtGoesBeside

\* The archive is renamed to its name.
LEMMA KtPublishes == ASSUME KtBase, NEW j \in Jobs, Kt!PublishArchive(j) PROVE KtBase'
<1>1. PICK a : a = [invite |-> ktJob[j].invite, build |-> ktJob[j].build, site |-> ktJob[j].site]
  OBVIOUS
<1>2. /\ ktJob[j].at = "staged" /\ Kt!Goes(j, Kt!At(j, "archive"))
      /\ ktArchive' = [ktArchive EXCEPT ![ktJob[j].label] = a]
      /\ UNCHANGED <<ktLibrary, ktSlots, ktAcked, ktArt, ktEntries, ktImport, ktIssued, ktHost,
                     ktOpen, ktMade, ktExcused>>
  BY <1>1 DEF Kt!PublishArchive, Kt!Publish, Kt!libraryVars, Kt!storeVars, Kt!inviteVars
<1>3. KtTyped /\ Kt!Running /\ ktJob[j].build = ktJob[j].site /\ KtStored(ktJob[j].site.look)
  BY <1>2 DEF KtBase, KtAlive, KtBound
<1>4. ktJob[j] \in KtIssued
  BY <1>2, <1>3, KtJobKinds
<1>5. a \in KtArchives /\ a.build = a.site /\ KtStored(a.site.look)
  BY <1>1, <1>3, <1>4 DEF KtIssued, KtArchives
<1>6. ktArchive \in [Labels -> {Kt!None} \cup KtArchives]
  BY <1>3 DEF KtTyped
<1>7. /\ ktArchive' \in [Labels -> {Kt!None} \cup KtArchives]
      /\ \A l \in Labels : ktArchive'[l] = ktArchive[l] \/ ktArchive'[l] = a
  BY <1>2, <1>5, <1>6
<1>8. \A l \in Labels : \/ ktArchive'[l] = ktArchive[l]
                        \/ ktArchive'[l].build = ktArchive'[l].site /\ KtStored(ktArchive'[l].site.look)
  BY <1>5, <1>7
<1>9. PICK n \in KtJobs : /\ Kt!Goes(j, n) /\ n.at = "archive"
                          /\ n.invite = ktJob[j].invite /\ n.build = ktJob[j].build /\ n.site = ktJob[j].site
  BY <1>2, <1>3, KtNextStage DEF KtStages
<1> QED  BY <1>2, <1>3, <1>7, <1>8, <1>9, KtGoesBeside

\* The manifest is written, and the sums of an earlier kit removed.
LEMMA KtWritesBeside ==
    ASSUME KtBase, NEW j \in Jobs, Kt!PublishManifest(j) \/ Kt!RemoveSums(j)
    PROVE  KtBase'
<1>1. PICK at \in {"manifest", "cleared"} :
        /\ ktJob[j].at \notin {"idle", "chosen"} /\ Kt!Goes(j, Kt!At(j, at))
        /\ UNCHANGED <<ktLibrary, ktSlots, ktAcked, ktArt, ktEntries, ktImport, ktIssued, ktHost,
                       ktOpen, ktMade, ktExcused, ktArchive>>
  BY DEF Kt!PublishManifest, Kt!RemoveSums, Kt!Publish, Kt!libraryVars, Kt!storeVars, Kt!inviteVars
<1>2. KtTyped /\ Kt!Running
  BY <1>1 DEF KtBase, KtAlive
<1>3. PICK n \in KtJobs : /\ Kt!Goes(j, n) /\ n.at = at
                          /\ n.invite = ktJob[j].invite /\ n.build = ktJob[j].build /\ n.site = ktJob[j].site
  BY <1>1, <1>2, KtNextStage DEF KtStages
<1> QED  BY <1>1, <1>2, <1>3, KtSameArchives, KtGoesBeside

\* The kit is complete, or the request fails and deals with its invite.
LEMMA KtEnds == ASSUME KtBase, NEW j \in Jobs, Kt!PublishSums(j) \/ Kt!KitFails(j) PROVE KtBase'
<1>1. PICK n \in KtJobs : n = Kt!Idle
  BY DEF KtJobs
<1>2. /\ ktJob[j].at \notin {"idle", "chosen"} /\ Kt!Goes(j, n) /\ n.at = "idle"
      /\ UNCHANGED <<ktLibrary, ktSlots, ktAcked, ktArt, ktEntries, ktImport, ktIssued, ktHost, ktArchive>>
  BY <1>1 DEF Kt!PublishSums, Kt!KitFails, Kt!Idle, Kt!libraryVars, Kt!storeVars, Kt!outVars
<1>3. /\ ktOpen' \subseteq ktOpen /\ ktMade \subseteq ktMade' /\ ktExcused \subseteq ktExcused'
      /\ ktJob[j].invite \notin ktOpen' \/ ktJob[j].invite \in ktMade' \cup ktExcused'
  BY DEF Kt!PublishSums, Kt!KitFails, Kt!CloseIssued
<1>4. KtTyped /\ Kt!Running
  BY <1>2 DEF KtBase, KtAlive
<1> QED  BY <1>2, <1>3, <1>4, KtSameArchives, KtGoesBeside

\* The Host starts, becomes a member, or stops.
LEMMA KtHosts ==
    ASSUME KtBase, (\E l \in Labels : Kt!ResolveSiteFile(l)) \/ Kt!HostActivates \/ Kt!HostStops
    PROVE  KtBase'
<1>1. UNCHANGED <<ktLibrary, ktSlots, ktAcked, ktArt, ktEntries, ktActive, ktImport, ktJob, ktIssued,
                  ktOpen, ktMade, ktExcused, ktArchive, ktSidecar, ktSums>>
  BY DEF Kt!ResolveSiteFile, Kt!HostActivates, Kt!HostStops, Kt!libraryVars, Kt!storeVars, Kt!inviteVars, Kt!outVars
<1>2. KtTyped /\ KtBound
  BY DEF KtBase
<1>3. PICK art, site, member :
        /\ ktHost = [art |-> art, site |-> site, member |-> member]
        /\ site \in {Kt!None} \cup KtArchives /\ member \in {Kt!None} \cup KtSites
        /\ site # Kt!None => site.site.look \in {0} \cup art
        /\ member # Kt!None => member.look \in {0} \cup art
  <2>1. /\ ktHost.site \in {Kt!None} \cup KtArchives /\ ktHost.member \in {Kt!None} \cup KtSites
        /\ ktHost = [art |-> ktHost.art, site |-> ktHost.site, member |-> ktHost.member]
    BY <1>2 DEF KtTyped
  <2> QED  BY <1>2, <2>1 DEF KtBound
<1>4. PICK art1, site1, member1 :
        /\ ktHost' = [art |-> art1, site |-> site1, member |-> member1]
        /\ site1 \in {Kt!None} \cup KtArchives /\ member1 \in {Kt!None} \cup KtSites
        /\ site1 # Kt!None => site1.site.look \in {0} \cup art1
        /\ member1 # Kt!None => member1.look \in {0} \cup art1
  <2>1. CASE \E l \in Labels : Kt!ResolveSiteFile(l)
    <3>1. PICK l \in Labels : Kt!ResolveSiteFile(l)
      BY <2>1
    <3>2. PICK a : a = ktArchive[l]
      OBVIOUS
    <3>3. PICK b : b = art \cup {a.site.look}
      OBVIOUS
    <3>4. a \in KtArchives /\ member = Kt!None
      BY <1>2, <1>3, <3>1, <3>2 DEF Kt!ResolveSiteFile, KtTyped
    <3>5. ktHost' = [art |-> b, site |-> a, member |-> member]
      BY <1>3, <3>1, <3>2, <3>3 DEF Kt!ResolveSiteFile, Kt!SyncOutfitAssets
    <3>6. a.site.look \in {0} \cup b
      BY <3>3
    <3> QED  BY <3>4, <3>5, <3>6
  <2>2. CASE Kt!HostActivates
    <3>1. PICK s : s = site.site
      OBVIOUS
    <3>2. site # Kt!None /\ s \in KtSites /\ s.look \in {0} \cup art
      BY <1>3, <2>2, <3>1 DEF Kt!HostActivates, KtArchives
    <3>3. ktHost' = [art |-> art, site |-> Kt!None, member |-> s]
      BY <1>3, <2>2, <3>1 DEF Kt!HostActivates
    <3> QED  BY <3>2, <3>3
  <2>3. CASE Kt!HostStops
    <3>1. ktHost' = [art |-> art, site |-> Kt!None, member |-> member]
      BY <1>3, <2>3 DEF Kt!HostStops
    <3> QED  BY <1>3, <3>1
  <2> QED  BY <2>1, <2>2, <2>3
<1>5. /\ ktHost'.site \in {Kt!None} \cup KtArchives /\ ktHost'.member \in {Kt!None} \cup KtSites
      /\ ktHost' = [art |-> ktHost'.art, site |-> ktHost'.site, member |-> ktHost'.member]
      /\ ktHost'.site # Kt!None => ktHost'.site.site.look \in {0} \cup ktHost'.art
      /\ ktHost'.member # Kt!None => ktHost'.member.look \in {0} \cup ktHost'.art
  <2>1. ktHost'.art = art1 /\ ktHost'.site = site1 /\ ktHost'.member = member1
    BY <1>4
  <2> QED  BY <1>4, <2>1
<1>6. KtTyped'
  BY <1>1, <1>2, <1>5 DEF KtTyped
<1>7. KtBound'
  BY <1>1, <1>2, <1>5 DEF KtBound, KtStored
<1>8. KtLibrary'
  BY <1>1, KtSameLibrary DEF KtBase
<1>9. KtAlive' /\ (Kt!NoStrayInvite)'
  BY <1>1 DEF KtBase, KtAlive, Kt!Running, Kt!NoStrayInvite
<1> QED  BY <1>6, <1>7, <1>8, <1>9 DEF KtBase

\* The user deletes a kit.
LEMMA KtDeletes == ASSUME KtBase, NEW l \in Labels, Kt!DeleteKit(l) PROVE KtBase'
<1>1. /\ ktArchive' = [ktArchive EXCEPT ![l] = Kt!None]
      /\ UNCHANGED <<ktLibrary, ktSlots, ktAcked, ktArt, ktEntries, ktActive, ktImport, ktJob, ktIssued,
                     ktOpen, ktMade, ktExcused, ktHost>>
  BY DEF Kt!DeleteKit, Kt!libraryVars, Kt!storeVars, Kt!inviteVars
<1>2. /\ ktArchive' \in [Labels -> {Kt!None} \cup KtArchives]
      /\ \A m \in Labels : ktArchive'[m] = ktArchive[m] \/ ktArchive'[m] = Kt!None
  BY <1>1 DEF KtBase, KtTyped
<1>3. KtTyped'
  BY <1>1, <1>2 DEF KtBase, KtTyped
<1>4. KtLibrary'
  BY <1>1, KtSameLibrary DEF KtBase
<1>5. KtBound'
  <2>1. \A m \in Labels : ktArchive'[m] # Kt!None =>
          ktArchive'[m].build = ktArchive'[m].site /\ KtStored(ktArchive'[m].site.look)
    BY <1>2 DEF KtBase, KtBound
  <2> QED  BY <1>1, <2>1 DEF KtBase, KtBound, KtStored
<1>6. KtAlive' /\ (Kt!NoStrayInvite)'
  BY <1>1 DEF KtBase, KtAlive, Kt!Running, Kt!NoStrayInvite
<1> QED  BY <1>3, <1>4, <1>5, <1>6 DEF KtBase

\* Steps of the other components do not touch a kit.
LEMMA KtBesideStep == ASSUME KtBase, UNCHANGED ktVars PROVE KtBase'
<1>1. UNCHANGED <<ktLibrary, ktSlots, ktAcked, ktArt, ktEntries, ktActive, ktImport, ktJob, ktIssued,
                  ktOpen, ktMade, ktExcused, ktArchive, ktSidecar, ktSums, ktHost>>
  BY DEF ktVars
<1>2. KtTyped'
  BY <1>1 DEF KtBase, KtTyped
<1>3. KtLibrary'
  BY <1>1, KtSameLibrary DEF KtBase
<1>4. KtBound' /\ KtAlive' /\ (Kt!NoStrayInvite)'
  BY <1>1 DEF KtBase, KtBound, KtStored, KtAlive, Kt!Running, Kt!NoStrayInvite
<1> QED  BY <1>2, <1>3, <1>4 DEF KtBase

\* Every step of the component keeps the invariant.
LEMMA KtBaseStep == ASSUME KtBase, Kt!KtNext PROVE KtBase'
<1>1. CASE Kt!CreateOutfit \/ Kt!UpdateEditable \/ \E a \in Art : Kt!SetAsset(a)
  BY <1>1, KtEditStep
<1>2. CASE \E a \in Art : Kt!ImportAsset(a)
  BY <1>2, KtImportsAsset
<1>3. CASE Kt!ControllerDies \/ Kt!LoadLibrary
  BY <1>3, KtDies, KtStarts
<1>4. CASE (\E p \in Kt!Profiles : Kt!ImportRuntime(p)) \/ Kt!PublishEntry \/ Kt!Unpoint \/ Kt!WriteActivePointer
  BY <1>4, KtImports
<1>5. CASE \E j \in Jobs : Kt!KitRequest(j)
  <2>1. PICK j \in Jobs : Kt!KitRequest(j)
    BY <1>5
  <2>2. CASE \E l \in Labels : Kt!ChooseRuntime(j, l)
    BY <2>2, KtChooses
  <2>3. CASE Kt!IssueInvite(j) \/ Kt!IssueFails(j)
    BY <2>3, KtIssues, KtRefused
  <2>4. CASE Kt!Assemble(j) \/ Kt!PublishArchive(j)
    BY <2>4, KtAssembles, KtPublishes
  <2>5. CASE Kt!PublishManifest(j) \/ Kt!RemoveSums(j) \/ Kt!PublishSums(j) \/ Kt!KitFails(j)
    BY <2>5, KtWritesBeside, KtEnds
  <2> QED  BY <2>1, <2>2, <2>3, <2>4, <2>5 DEF Kt!KitRequest
<1>6. CASE (\E l \in Labels : Kt!ResolveSiteFile(l)) \/ Kt!HostActivates \/ Kt!HostStops
  BY <1>6, KtHosts
<1>7. CASE \E l \in Labels : Kt!DeleteKit(l)
  BY <1>7, KtDeletes
<1> QED  BY <1>1, <1>2, <1>3, <1>4, <1>5, <1>6, <1>7 DEF Kt!KtNext

\* A Controller starts with an outfit library of its own and no kit.
LEMMA KtInvInit == Init => KtInv
<1> SUFFICES ASSUME Kt!KtInit PROVE KtBase
  BY DEF Init, KtInv
<1>1. PICK f : f = Kt!First
  OBVIOUS
<1>2. f \in KtLibs /\ f.gen = 1 /\ f.rev = 0
  BY <1>1 DEF Kt!First, KtLibs, KtLooks
<1>3. /\ ktLibrary = f /\ ktSlots = [s \in {0, 1} |-> IF s = 1 THEN f ELSE Kt!Torn] /\ ktAcked = 0
      /\ ktJob = [j \in Jobs |-> Kt!Idle] /\ ktOpen = {} /\ ktIssued = 0 /\ ktEntries = {}
      /\ ktImport = Kt!None /\ ktArchive = [l \in Labels |-> Kt!None]
      /\ ktHost = [art |-> {}, site |-> Kt!None, member |-> Kt!None]
  BY <1>1 DEF Kt!KtInit
<1>4. KtTyped
  BY <1>2, <1>3 DEF KtTyped, KtJobs
<1>5. KtKept(f)
  <2>1. Kt!SlotOf(1) = 1 /\ Kt!SlotOf(1 + 1) = 0
    BY DEF Kt!SlotOf
  <2> QED  BY <1>2, <1>3, <2>1 DEF KtKept, KtBeside
<1>6. KtLibrary
  BY <1>2, <1>3, <1>5 DEF KtLibrary
<1>7. KtAlive /\ KtBound /\ Kt!NoStrayInvite
  BY <1>3 DEF KtAlive, KtBound, Kt!Idle, Kt!NoStrayInvite
<1> QED  BY <1>4, <1>6, <1>7 DEF KtBase

\* Every step keeps the invariant.
LEMMA KtInvStep == KtInv /\ [Next]_vars => KtInv'
<1> SUFFICES ASSUME KtInv, [Next]_vars, focus' = "kit" PROVE KtBase'
  BY DEF KtInv
<1>1. focus = "kit" /\ (Kt!KtNext \/ UNCHANGED ktVars)
  BY DEF Next, vars, ManagedFsStep, TcpForwardStep, SitePathStep, MachineServiceStep,
     SingleInstanceStep, SiteKitStep, FsQueryStep, InnerSessionStep, ControllerWindowStep,
     LocalCallsStep
<1>2. KtBase
  BY <1>1 DEF KtInv
<1> QED  BY <1>1, <1>2, KtBaseStep, KtBesideStep

\* What the stores keep of the outfit is not behind what was acknowledged.
LEMMA KtBaseKeeps == KtBase => Kt!RevisionIsKept
<1> SUFFICES ASSUME KtBase PROVE Kt!RevisionIsKept
  OBVIOUS
<1>1. CASE Kt!Running
  BY <1>1 DEF KtBase, KtLibrary, KtKept, Kt!RevisionIsKept
<1>2. CASE ~Kt!Running
  <2>1. PICK lib \in KtLibs : KtKept(lib)
    BY DEF KtBase, KtLibrary
  <2>2. Kt!SlotOf(lib.gen) \in {0, 1}
    BY <2>1, KtShapes, KtSlots
  <2>3. lib \in {ktSlots[0], ktSlots[1]} /\ lib # Kt!Torn /\ lib.rev >= ktAcked
    BY <2>1, <2>2, KtShapes DEF KtKept
  <2> QED  BY <1>2, <2>3 DEF Kt!RevisionIsKept
<1> QED  BY <1>1, <1>2

\* For any number of requests, labels and images: every published kit holds the
\* runtime built for the profile its site signs, a member Host has the art of its
\* outfit, no crash takes the outfit behind what was acknowledged, and no request
\* that fails leaves a working invite unreported.
THEOREM KitIsSoundThm == Spec => []KitIsSound
<1>1. KtInv => KitIsSound
  <2> SUFFICES ASSUME KtBase PROVE Kt!KitIsWhole /\ Kt!RevisionIsKept /\ Kt!NoStrayInvite
    BY DEF KtInv, KitIsSound
  <2>1. Kt!KitIsWhole
    BY DEF KtBase, KtBound, KtStored, Kt!KitIsWhole
  <2> QED  BY <2>1, KtBaseKeeps DEF KtBase
<1> QED  BY <1>1, KtInvInit, KtInvStep, PTL DEF Spec

-----------------------------------------------------------------------------
(* Paging through a Host's file system.                                    *)

FqSeq(s) == \E S : s \in Seq(S)
FqScanOK(s) ==
  /\ DOMAIN s = {"root", "queue", "kids", "visited", "scanned", "bytes", "matched", "found", "file",
                 "text", "line"}
  /\ FqSeq(s.found)
FqReplyOK(r) ==
  /\ FqSeq(r.items)
  /\ r.kind # "error" /\ r.truncated => r.items # <<>>

\* The cursor counts what was given until the last page; a call that was sent
\* has its own command in the session, and that command starts at the cursor.
FqBase ==
  /\ fqAsk.kind \in {"glob", "grep", "read", "path_info"} /\ fqAsk.limit \in Nat \ {0}
  /\ FqSeq(fqGiven) /\ fqCursor \in Nat
  /\ DOMAIN fqWork = {"stage", "mine", "cursor", "reply"} /\ fqWork.mine \in BOOLEAN
  /\ fqWork.mine => /\ fqWork.stage # "none" /\ fqCall = "sent"
                    /\ fqWork.cursor = fqCursor /\ fqDone = "no"
  /\ fqWork.stage = "reply" => FqReplyOK(fqWork.reply)
  /\ FqScanOK(fqScan)
  /\ fqCall = "sent" => fqWork.mine
  /\ fqCall # "idle" => fqDone = "no"
  /\ fqDone # "last" => fqCursor = Len(fqGiven)
FqInv == focus = "query" => FqBase

\* While pages follow, the cursor is the number of matches the application was
\* given; the answer it waits for was asked for at that cursor, whatever calls
\* were given up before; and a page that promises another one is not empty.
PagingIsExact ==
  focus = "query" =>
    /\ fqDone # "last" => fqCursor = Len(fqGiven)
    /\ fqCall = "sent" => fqWork.mine /\ fqWork.cursor = fqCursor
    /\ fqWork.stage = "reply" /\ fqWork.reply.kind # "error" /\ fqWork.reply.truncated
         => fqWork.reply.items # <<>>

\* The sequences of matches.
LEMMA FqSeqs ==
    /\ FqSeq(<<>>)
    /\ \A s, e : FqSeq(s) => FqSeq(Append(s, e)) /\ Len(s) \in Nat /\ (Len(s) > 0 => s # <<>>)
    /\ \A s, t : FqSeq(s) /\ FqSeq(t) => FqSeq(s \o t) /\ Len(s \o t) = Len(s) + Len(t)
<1>1. FqSeq(<<>>)
  <2>1. <<>> \in Seq({})
    OBVIOUS
  <2> QED  BY <2>1 DEF FqSeq
<1>2. ASSUME NEW s, NEW e, FqSeq(s) PROVE FqSeq(Append(s, e)) /\ Len(s) \in Nat /\ (Len(s) > 0 => s # <<>>)
  <2>1. PICK S : s \in Seq(S)
    BY <1>2 DEF FqSeq
  <2>2. PICK T : T = S \cup {e}
    OBVIOUS
  <2>3. s \in Seq(T) /\ e \in T
    BY <2>1, <2>2
  <2>4. Append(s, e) \in Seq(T)
    BY <2>3
  <2>5. Len(<<>>) = 0
    OBVIOUS
  <2> QED  BY <2>1, <2>4, <2>5 DEF FqSeq
<1>3. ASSUME NEW s, NEW t, FqSeq(s), FqSeq(t) PROVE FqSeq(s \o t) /\ Len(s \o t) = Len(s) + Len(t)
  <2>1. PICK S, T : s \in Seq(S) /\ t \in Seq(T)
    BY <1>3 DEF FqSeq
  <2>2. PICK U : U = S \cup T
    OBVIOUS
  <2>3. s \in Seq(U) /\ t \in Seq(U)
    BY <2>1, <2>2
  <2>4. s \o t \in Seq(U) /\ Len(s \o t) = Len(s) + Len(t)
    BY <2>3
  <2> QED  BY <2>4 DEF FqSeq
<1> QED  BY <1>1, <1>2, <1>3

\* Replies.
LEMMA FqReplies ==
    /\ \A code : FqReplyOK(Fq!FsError(code))
    /\ \A scan, more : FqSeq(scan.found) /\ (more => scan.found # <<>>) => FqReplyOK(Fq!Page(scan, more))
    /\ \A items, more : FqSeq(items) /\ (more => items # <<>>) => FqReplyOK(Fq!Data(items, more))
<1>1. ASSUME NEW code PROVE FqReplyOK(Fq!FsError(code))
  BY FqSeqs DEF Fq!FsError, FqReplyOK
<1>2. ASSUME NEW items, NEW more, FqSeq(items), more => items # <<>> PROVE FqReplyOK(Fq!Data(items, more))
  BY <1>2 DEF Fq!Data, FqReplyOK
<1>3. ASSUME NEW scan, NEW more, FqSeq(scan.found), more => scan.found # <<>>
      PROVE  FqReplyOK(Fq!Page(scan, more))
  <2>1. PICK d : d = Fq!Page(scan, more)
    OBVIOUS
  <2>2. d.items = scan.found /\ d.truncated = more
    BY <2>1 DEF Fq!Page, Fq!Data
  <2> QED  BY <1>3, <2>1, <2>2 DEF FqReplyOK
<1> QED  BY <1>1, <1>2, <1>3

\* Nothing is walked and nothing executed.
LEMMA FqNothing ==
    /\ FqScanOK(Fq!NoScan)
    /\ DOMAIN Fq!NoWork = {"stage", "mine", "cursor", "reply"} /\ Fq!NoWork.stage = "none"
    /\ Fq!NoWork.mine = FALSE
BY FqSeqs DEF Fq!NoScan, Fq!NoWork, FqScanOK

\* The Host's answer.
LEMMA FqAnswers ==
    ASSUME FqBase, fqWork.stage = "running", NEW r, FqReplyOK(r), Fq!Answer(r),
           UNCHANGED <<fqAsk, fqCursor, fqDone, fqGiven>>
    PROVE  FqBase'
<1>1. fqScan' = Fq!NoScan /\ fqWork' \in {Fq!NoWork, [fqWork EXCEPT !.stage = "reply", !.reply = r]}
  BY DEF Fq!Answer
<1>2. FqScanOK(fqScan)'
  BY <1>1, FqNothing DEF FqScanOK, FqSeq
<1>3. CASE fqWork' = Fq!NoWork
  <2>1. fqCall' = IF fqWork.mine THEN "waiting" ELSE fqCall
    BY <1>3, FqNothing DEF Fq!Answer
  <2>2. fqWork'.stage = "none" /\ fqWork'.mine = FALSE /\ DOMAIN fqWork' = DOMAIN fqWork
    BY <1>3, FqNothing DEF FqBase
  <2> QED  BY <1>2, <2>1, <2>2 DEF FqBase, FqSeq
<1>4. CASE fqWork' = [fqWork EXCEPT !.stage = "reply", !.reply = r]
  <2>1. /\ DOMAIN fqWork' = DOMAIN fqWork /\ fqWork'.stage = "reply" /\ fqWork'.reply = r
        /\ fqWork'.mine = fqWork.mine /\ fqWork'.cursor = fqWork.cursor
    BY <1>4 DEF FqBase
  <2>2. fqCall' = fqCall
    BY <2>1 DEF Fq!Answer
  <2>3. FqReplyOK(fqWork.reply)'
    BY <2>1 DEF FqReplyOK, FqSeq
  <2> QED  BY <1>2, <2>1, <2>2, <2>3 DEF FqBase, FqSeq
<1> QED  BY <1>1, <1>3, <1>4

\* The walk goes on.
LEMMA FqGoes ==
    ASSUME FqBase, NEW s, FqScanOK(s), Fq!Goes(s), UNCHANGED <<fqAsk, fqCursor, fqDone, fqGiven>>
    PROVE  FqBase'
<1>1. fqScan' = s /\ UNCHANGED <<fqWork, fqCall>>
  BY DEF Fq!Goes
<1>2. FqScanOK(fqScan)'
  BY <1>1 DEF FqScanOK, FqSeq
<1> QED  BY <1>1, <1>2 DEF FqBase, FqReplyOK, FqSeq

\* A match is taken into the page, or the page is full.
LEMMA FqTakes ==
    ASSUME FqBase, fqWork.stage = "running", NEW s, FqScanOK(s), NEW item, Fq!Take(s, item),
           UNCHANGED <<fqAsk, fqCursor, fqDone, fqGiven>>
    PROVE  FqBase'
<1>1. PICK bigger : bigger = Append(s.found, item)
  OBVIOUS
<1>2. FqSeq(s.found) /\ FqSeq(bigger) /\ Len(s.found) \in Nat /\ (Len(s.found) > 0 => s.found # <<>>)
  BY <1>1, FqSeqs DEF FqScanOK
<1>3. fqAsk.limit \in Nat \ {0}
  BY DEF FqBase
<1>4. \/ s.found # <<>> /\ Fq!Answer(Fq!Page(s, TRUE))
      \/ Fq!Answer(Fq!FsError("InvalidRequest"))
      \/ Fq!Goes([s EXCEPT !.found = bigger])
  <2>1. CASE Len(s.found) >= fqAsk.limit
    <3>1. Fq!Answer(Fq!Page(s, TRUE))
      BY <2>1 DEF Fq!Take
    <3>2. Len(s.found) > 0
      BY <1>2, <1>3, <2>1
    <3> QED  BY <1>2, <3>1, <3>2
  <2>2. CASE ~(Len(s.found) >= fqAsk.limit)
    <3>1. \/ s.found = <<>> /\ Fq!Answer(Fq!FsError("InvalidRequest"))
          \/ s.found # <<>> /\ Fq!Answer(Fq!Page(s, TRUE))
          \/ Fq!Goes([s EXCEPT !.found = Append(s.found, item)])
      BY <2>2, Zenon DEF Fq!Take
    <3> QED  BY <1>1, <3>1, Zenon
  <2> QED  BY <2>1, <2>2
<1>5. CASE s.found # <<>> /\ Fq!Answer(Fq!Page(s, TRUE))
  <2>1. PICK r : r = Fq!Page(s, TRUE)
    OBVIOUS
  <2>2. FqReplyOK(r)
    BY <1>2, <1>5, <2>1, FqReplies
  <2> QED  BY <1>5, <2>1, <2>2, FqAnswers
<1>6. CASE Fq!Answer(Fq!FsError("InvalidRequest"))
  BY <1>6, FqReplies, FqAnswers
<1>7. CASE Fq!Goes([s EXCEPT !.found = bigger])
  <2>1. PICK n : n = [s EXCEPT !.found = bigger]
    OBVIOUS
  <2>2. FqScanOK(n)
    BY <1>2, <2>1 DEF FqScanOK
  <2> QED  BY <1>7, <2>1, <2>2, FqGoes
<1> QED  BY <1>4, <1>5, <1>6, <1>7

\* The application asks, or is refused.
LEMMA FqAsks == ASSUME FqBase, Fq!AskPage \/ Fq!RefuseAsk PROVE FqBase'
<1>1. /\ fqCall = "idle" /\ fqDone = "no" /\ UNCHANGED <<fqAsk, fqCursor, fqGiven, fqWork, fqScan>>
      /\ \/ fqCall' = "waiting" /\ fqDone' = fqDone
         \/ fqCall' = fqCall /\ fqDone' = "refused"
  BY DEF Fq!AskPage, Fq!RefuseAsk
<1> QED  BY <1>1 DEF FqBase, FqScanOK, FqReplyOK, FqSeq

\* What is answered without a walk.
LEMMA FqImmediate ==
    ASSUME FqBase, NEW cursor \in Nat, NEW r \in Fq!Immediate(cursor)
    PROVE  FqReplyOK(r)
<1>1. PICK path : path = Fq!Canonical(fqAsk.root)
  OBVIOUS
<1>2. \/ \E code : r = Fq!FsError(code)
      \/ r \in Fq!PathInfoOnce(path)
      \/ r \in Fq!ReadOnce(path, cursor)
  BY <1>1 DEF Fq!Immediate
<1>3. CASE \E code : r = Fq!FsError(code)
  BY <1>3, FqReplies
<1>4. CASE r \in Fq!PathInfoOnce(path)
  <2>1. PICK item : item = [path |-> path, line |-> fqTree[path]]
    OBVIOUS
  <2>2. r = Fq!Data(Append(<<>>, item), FALSE)
    <3>1. Append(<<>>, item) = <<item>>
      OBVIOUS
    <3> QED  BY <1>4, <2>1, <3>1 DEF Fq!PathInfoOnce
  <2>3. FqSeq(Append(<<>>, item))
    BY FqSeqs
  <2> QED  BY <2>2, <2>3, FqReplies
<1>5. CASE r \in Fq!ReadOnce(path, cursor)
  <2>1. PICK size : size = IF fqTree[path] \in Fq!Files THEN Len(Fq!Lines(fqTree[path])) ELSE 0
    OBVIOUS
  <2>2. \/ r = Fq!FsError("NotFile")
        \/ r = Fq!Data(<<>>, FALSE)
        \/ \E n \in 1 .. fqAsk.limit : r = Fq!Data([i \in 1 .. n |-> [path |-> path, line |-> cursor + i]], TRUE)
    BY <1>5, <2>1 DEF Fq!ReadOnce
  <2>3. CASE r = Fq!FsError("NotFile") \/ r = Fq!Data(<<>>, FALSE)
    BY <2>3, FqReplies, FqSeqs
  <2>4. CASE \E n \in 1 .. fqAsk.limit : r = Fq!Data([i \in 1 .. n |-> [path |-> path, line |-> cursor + i]], TRUE)
    <3>1. PICK n \in 1 .. fqAsk.limit : r = Fq!Data([i \in 1 .. n |-> [path |-> path, line |-> cursor + i]], TRUE)
      BY <2>4
    <3>2. n \in Nat /\ n > 0
      BY <3>1 DEF FqBase
    <3>3. PICK items : items = [i \in 1 .. n |-> [path |-> path, line |-> cursor + i]]
      OBVIOUS
    <3>4. PICK S : S = {[path |-> path, line |-> cursor + i] : i \in 1 .. n}
      OBVIOUS
    <3>7. \A i \in 1 .. n : [path |-> path, line |-> cursor + i] \in S
      BY <3>4
    <3>8. items \in [1 .. n -> S]
      BY <3>3, <3>7
    <3>5. items \in Seq(S) /\ Len(items) = n
      BY <3>2, <3>8
    <3>6. FqSeq(items) /\ items # <<>>
      BY <3>2, <3>5, FqSeqs DEF FqSeq
    <3> QED  BY <3>1, <3>3, <3>6, FqReplies
  <2> QED  BY <2>2, <2>3, <2>4
<1> QED  BY <1>2, <1>3, <1>4, <1>5

\* The session takes the command.
LEMMA FqExecutes == ASSUME FqBase, Fq!Execute PROVE FqBase'
<1>1. PICK w : w = [stage |-> "running", mine |-> TRUE, cursor |-> fqCursor, reply |-> <<>>]
  OBVIOUS
<1>2. /\ fqCall = "waiting" /\ fqCall' = "sent" /\ UNCHANGED <<fqAsk, fqCursor, fqDone, fqGiven>>
      /\ \/ \E r \in Fq!Immediate(fqCursor) :
              fqWork' = [w EXCEPT !.stage = "reply", !.reply = r] /\ UNCHANGED fqScan
         \/ fqWork' = w /\ fqScan' = Fq!Begun(Fq!Canonical(fqAsk.root))
  BY <1>1 DEF Fq!Execute
<1>3. fqDone = "no" /\ fqCursor \in Nat
  BY <1>2 DEF FqBase
<1>4. CASE \E r \in Fq!Immediate(fqCursor) :
              fqWork' = [w EXCEPT !.stage = "reply", !.reply = r] /\ UNCHANGED fqScan
  <2>1. PICK r \in Fq!Immediate(fqCursor) :
              fqWork' = [w EXCEPT !.stage = "reply", !.reply = r] /\ UNCHANGED fqScan
    BY <1>4
  <2>2. FqReplyOK(r)
    BY <1>3, <2>1, FqImmediate
  <2>3. /\ DOMAIN fqWork' = {"stage", "mine", "cursor", "reply"} /\ fqWork'.stage = "reply"
        /\ fqWork'.reply = r /\ fqWork'.mine = TRUE /\ fqWork'.cursor = fqCursor
    BY <1>1, <2>1
  <2>4. FqReplyOK(fqWork.reply)'
    BY <2>2, <2>3 DEF FqReplyOK, FqSeq
  <2>5. FqScanOK(fqScan)'
    BY <2>1 DEF FqBase, FqScanOK, FqSeq
  <2> QED  BY <1>2, <1>3, <2>3, <2>4, <2>5 DEF FqBase, FqSeq
<1>5. CASE fqWork' = w /\ fqScan' = Fq!Begun(Fq!Canonical(fqAsk.root))
  <2>1. /\ DOMAIN fqWork' = {"stage", "mine", "cursor", "reply"} /\ fqWork'.stage = "running"
        /\ fqWork'.mine = TRUE /\ fqWork'.cursor = fqCursor
    BY <1>1, <1>5
  <2>2. PICK s : s = Fq!Begun(Fq!Canonical(fqAsk.root))
    OBVIOUS
  <2>3. FqScanOK(s)
    <3>1. DOMAIN s = DOMAIN Fq!NoScan /\ s.found = Fq!NoScan.found
      BY <2>2, FqNothing DEF Fq!Begun, FqScanOK
    <3> QED  BY <3>1, FqNothing DEF FqScanOK
  <2>4. FqScanOK(fqScan)'
    BY <1>5, <2>2, <2>3 DEF FqScanOK, FqSeq
  <2> QED  BY <1>2, <1>3, <2>1, <2>4 DEF FqBase, FqSeq
<1> QED  BY <1>2, <1>4, <1>5

\* A reply reaches the call that waits for it, or nobody.
LEMMA FqDelivers == ASSUME FqBase, Fq!Deliver PROVE FqBase'
<1>1. PICK r : r = fqWork.reply
  OBVIOUS
<1>2. PICK given \in BOOLEAN : given = (fqWork.mine /\ Fq!Accepts(r))
  BY DEF FqBase
<1>3. /\ fqWork.stage = "reply" /\ fqWork' = Fq!NoWork /\ UNCHANGED <<fqAsk, fqScan>>
      /\ fqCall' = (IF fqWork.mine THEN "idle" ELSE fqCall)
      /\ fqGiven' = (IF given THEN fqGiven \o r.items ELSE fqGiven)
      /\ fqCursor' = (IF given /\ r.truncated THEN fqWork.cursor + Len(r.items) ELSE fqCursor)
      /\ fqDone' = (IF given /\ ~r.truncated THEN "last" ELSE fqDone)
  BY <1>1, <1>2 DEF Fq!Deliver, Fq!NextCursor
<1>4. FqReplyOK(r) /\ FqSeq(r.items)
  BY <1>1, <1>3 DEF FqBase, FqReplyOK
<1>5. /\ FqSeq(fqGiven \o r.items) /\ Len(fqGiven \o r.items) = Len(fqGiven) + Len(r.items)
      /\ Len(fqGiven) \in Nat /\ Len(r.items) \in Nat
  BY <1>4, FqSeqs DEF FqBase
<1>6. DOMAIN fqWork' = {"stage", "mine", "cursor", "reply"} /\ fqWork'.stage = "none" /\ fqWork'.mine = FALSE
  BY <1>3, FqNothing
<1>7. FqScanOK(fqScan)'
  BY <1>3 DEF FqBase, FqScanOK, FqSeq
<1>8. FqSeq(fqGiven)'
  BY <1>3, <1>5 DEF FqBase, FqSeq
<1>9. CASE given
  <2>1. fqWork.mine /\ fqWork.cursor = fqCursor /\ fqDone = "no" /\ fqCursor = Len(fqGiven)
    BY <1>2, <1>9 DEF FqBase
  <2>2. fqCall' = "idle" /\ fqCursor' \in Nat
    BY <1>3, <1>5, <1>9, <2>1
  <2>3. fqDone' # "last" => fqCursor' = Len(fqGiven')
    BY <1>3, <1>5, <1>9, <2>1
  <2> QED  BY <1>3, <1>6, <1>7, <1>8, <2>2, <2>3 DEF FqBase
<1>10. CASE ~given
  <2>1. UNCHANGED <<fqGiven, fqCursor, fqDone>>
    BY <1>3, <1>10
  <2>2. fqCall' # "sent" /\ (fqCall' # "idle" => fqDone = "no")
    BY <1>3 DEF FqBase
  <2> QED  BY <1>3, <1>6, <1>7, <1>8, <2>1, <2>2 DEF FqBase
<1> QED  BY <1>9, <1>10

\* A directory is listed.
LEMMA FqLists == ASSUME FqBase, Fq!GlobDir \/ Fq!GrepDir PROVE FqBase'
<1>1. /\ fqWork.stage = "running" /\ UNCHANGED <<fqAsk, fqCursor, fqDone, fqGiven>>
      /\ \/ Fq!Answer(Fq!FsError("Io"))
         \/ \E q, k : Fq!Goes([fqScan EXCEPT !.queue = q, !.kids = k])
  BY DEF Fq!GlobDir, Fq!GrepDir, Fq!ReadDir, Fq!Walks
<1>2. CASE Fq!Answer(Fq!FsError("Io"))
  BY <1>1, <1>2, FqReplies, FqAnswers
<1>3. CASE \E q, k : Fq!Goes([fqScan EXCEPT !.queue = q, !.kids = k])
  <2>1. PICK q, k : Fq!Goes([fqScan EXCEPT !.queue = q, !.kids = k])
    BY <1>3
  <2>2. PICK s : s = [fqScan EXCEPT !.queue = q, !.kids = k]
    OBVIOUS
  <2>3. FqScanOK(s)
    BY <2>2 DEF FqBase, FqScanOK
  <2> QED  BY <1>1, <2>1, <2>2, <2>3, FqGoes
<1> QED  BY <1>1, <1>2, <1>3

\* Counting an entry, queueing a directory and numbering a match keep what was
\* found.
LEMMA FqCounts ==
    /\ FqBase => FqScanOK(Fq!Counted)
    /\ \A s, e : FqScanOK(s) => FqScanOK(Fq!Queued(s, e))
    /\ \A s, n : FqScanOK(s) => FqScanOK([s EXCEPT !.matched = n])
<1>1. FqBase => FqScanOK(Fq!Counted)
  BY DEF FqBase, FqScanOK, Fq!Counted
<1>2. ASSUME NEW s, NEW e, FqScanOK(s) PROVE FqScanOK(Fq!Queued(s, e))
  BY <1>2 DEF FqScanOK, Fq!Queued
<1>3. ASSUME NEW s, NEW n, FqScanOK(s) PROVE FqScanOK([s EXCEPT !.matched = n])
  BY <1>3 DEF FqScanOK
<1> QED  BY <1>1, <1>2, <1>3

\* An entry of a glob.
LEMMA FqGlobs == ASSUME FqBase, Fq!GlobEntry PROVE FqBase'
<1>1. PICK e : e = Head(fqScan.kids)
  OBVIOUS
<1>2. PICK c : c = Fq!Counted
  OBVIOUS
<1>3. PICK s : s = Fq!Queued(c, e)
  OBVIOUS
<1>4. PICK h : h = [s EXCEPT !.matched = @ + 1]
  OBVIOUS
<1>5. FqScanOK(c) /\ FqScanOK(s) /\ FqScanOK(h)
  BY <1>2, <1>3, <1>4, FqCounts
<1>6. /\ fqWork.stage = "running" /\ UNCHANGED <<fqAsk, fqCursor, fqDone, fqGiven>>
      /\ \/ \E code : Fq!Answer(Fq!FsError(code))
         \/ Fq!Goes(c) \/ Fq!Goes(s) \/ Fq!Goes(h)
         \/ \E item : Fq!Take(h, item)
  BY <1>1, <1>2, <1>3, <1>4, Zenon DEF Fq!GlobEntry, Fq!Walks
<1>7. CASE \E code : Fq!Answer(Fq!FsError(code))
  <2>1. PICK code : Fq!Answer(Fq!FsError(code))
    BY <1>7
  <2> QED  BY <1>6, <2>1, FqReplies, FqAnswers
<1>8. CASE Fq!Goes(c) \/ Fq!Goes(s) \/ Fq!Goes(h)
  BY <1>5, <1>6, <1>8, FqGoes
<1>9. CASE \E item : Fq!Take(h, item)
  BY <1>5, <1>6, <1>9, FqTakes
<1> QED  BY <1>6, <1>7, <1>8, <1>9

\* An entry of a grep, and a line of its file.
LEMMA FqGreps == ASSUME FqBase, Fq!GrepEntry \/ Fq!GrepLine PROVE FqBase'
<1>1. CASE Fq!GrepEntry
  <2>1. PICK e : e = Head(fqScan.kids)
    OBVIOUS
  <2>2. PICK c : c = Fq!Counted
    OBVIOUS
  <2>3. PICK s : s = Fq!Queued(c, e)
    OBVIOUS
  <2>4. PICK o : o = [s EXCEPT !.file = e.path, !.text = fqTree[e.path]]
    OBVIOUS
  <2>5. FqScanOK(c) /\ FqScanOK(s)
    BY <2>2, <2>3, FqCounts
  <2>6. FqScanOK(o)
    BY <2>4, <2>5 DEF FqScanOK
  <2>7. /\ fqWork.stage = "running" /\ UNCHANGED <<fqAsk, fqCursor, fqDone, fqGiven>>
        /\ \/ \E code : Fq!Answer(Fq!FsError(code))
           \/ Fq!Goes(c) \/ Fq!Goes(s) \/ Fq!Goes(o)
    BY <1>1, <2>1, <2>2, <2>3, <2>4, Zenon DEF Fq!GrepEntry, Fq!Walks
  <2>8. CASE \E code : Fq!Answer(Fq!FsError(code))
    <3>1. PICK code : Fq!Answer(Fq!FsError(code))
      BY <2>8
    <3> QED  BY <2>7, <3>1, FqReplies, FqAnswers
  <2>9. CASE Fq!Goes(c) \/ Fq!Goes(s) \/ Fq!Goes(o)
    BY <2>5, <2>6, <2>7, <2>9, FqGoes
  <2> QED  BY <2>7, <2>8, <2>9
<1>2. CASE Fq!GrepLine
  <2>1. PICK line : line = Fq!Lines(fqScan.text)[fqScan.line + 1]
    OBVIOUS
  <2>2. PICK d : d = [fqScan EXCEPT !.file = Fq!Root, !.text = "none", !.line = 0]
    OBVIOUS
  <2>3. PICK s : s = [fqScan EXCEPT !.line = @ + 1, !.bytes = @ + line.size]
    OBVIOUS
  <2>4. PICK h : h = [s EXCEPT !.matched = @ + 1]
    OBVIOUS
  <2>5. FqScanOK(fqScan)
    BY DEF FqBase
  <2>6. FqScanOK(d) /\ FqScanOK(s)
    BY <2>2, <2>3, <2>5 DEF FqScanOK
  <2>7. FqScanOK(h)
    BY <2>4, <2>6, FqCounts
  <2>8. /\ fqWork.stage = "running" /\ UNCHANGED <<fqAsk, fqCursor, fqDone, fqGiven>>
        /\ \/ \E code : Fq!Answer(Fq!FsError(code))
           \/ Fq!Goes(d) \/ Fq!Goes(s) \/ Fq!Goes(h)
           \/ \E item : Fq!Take(h, item)
    BY <1>2, <2>1, <2>2, <2>3, <2>4, Zenon DEF Fq!GrepLine, Fq!Walks
  <2>9. CASE \E code : Fq!Answer(Fq!FsError(code))
    <3>1. PICK code : Fq!Answer(Fq!FsError(code))
      BY <2>9
    <3> QED  BY <2>8, <3>1, FqReplies, FqAnswers
  <2>10. CASE Fq!Goes(d) \/ Fq!Goes(s) \/ Fq!Goes(h)
    BY <2>6, <2>7, <2>8, <2>10, FqGoes
  <2>11. CASE \E item : Fq!Take(h, item)
    BY <2>7, <2>8, <2>11, FqTakes
  <2> QED  BY <2>8, <2>9, <2>10, <2>11
<1> QED  BY <1>1, <1>2

\* The walk is over, or the Host gives it up.
LEMMA FqEnds == ASSUME FqBase, Fq!LastPage \/ Fq!HostTimeout PROVE FqBase'
<1>1. /\ fqWork.stage = "running" /\ UNCHANGED <<fqAsk, fqCursor, fqDone, fqGiven>>
      /\ Fq!Answer(Fq!Page(fqScan, FALSE)) \/ Fq!Answer(Fq!FsError("Timeout"))
  BY DEF Fq!LastPage, Fq!HostTimeout
<1>2. PICK r : Fq!Answer(r) /\ (r = Fq!Page(fqScan, FALSE) \/ r = Fq!FsError("Timeout"))
  BY <1>1
<1>4. FqSeq(fqScan.found)
  BY DEF FqBase, FqScanOK
<1>5. FqReplyOK(Fq!Page(fqScan, FALSE)) /\ FqReplyOK(Fq!FsError("Timeout"))
  BY <1>4, FqReplies
<1>3. FqReplyOK(r)
  BY <1>2, <1>5
<1> QED  BY <1>1, <1>2, <1>3, FqAnswers

\* The Controller gives the call up, or the session is lost.
LEMMA FqLoses == ASSUME FqBase, Fq!CallTimeout \/ Fq!SessionLost PROVE FqBase'
<1>1. CASE Fq!CallTimeout
  <2>1. /\ fqCall' = "idle" /\ fqWork' = [fqWork EXCEPT !.mine = FALSE]
        /\ UNCHANGED <<fqAsk, fqCursor, fqDone, fqGiven, fqScan>>
    BY <1>1 DEF Fq!CallTimeout
  <2>2. /\ DOMAIN fqWork' = DOMAIN fqWork /\ fqWork'.mine = FALSE /\ fqWork'.stage = fqWork.stage
        /\ fqWork'.reply = fqWork.reply
    BY <2>1 DEF FqBase
  <2> QED  BY <2>1, <2>2 DEF FqBase, FqScanOK, FqReplyOK, FqSeq
<1>2. CASE Fq!SessionLost
  <2>1. /\ fqCall' = (IF fqWork.mine THEN "waiting" ELSE fqCall) /\ fqWork' = Fq!NoWork
        /\ fqScan' = Fq!NoScan /\ UNCHANGED <<fqAsk, fqCursor, fqDone, fqGiven>>
    BY <1>2 DEF Fq!SessionLost
  <2>2. FqScanOK(fqScan)'
    BY <2>1, FqNothing DEF FqScanOK, FqSeq
  <2>3. DOMAIN fqWork' = {"stage", "mine", "cursor", "reply"} /\ fqWork'.stage = "none" /\ fqWork'.mine = FALSE
    BY <2>1, FqNothing
  <2> QED  BY <2>1, <2>2, <2>3 DEF FqBase, FqSeq
<1> QED  BY <1>1, <1>2

\* The invariant is about these variables alone.
LEMMA FqBeside ==
    ASSUME FqBase, UNCHANGED <<fqAsk, fqCursor, fqDone, fqGiven, fqCall, fqWork, fqScan>>
    PROVE  FqBase'
BY DEF FqBase, FqScanOK, FqReplyOK, FqSeq

\* Every step of a query keeps the invariant.
LEMMA FqBaseStep == FqBase /\ Fq!FqNext => FqBase'
<1> SUFFICES ASSUME FqBase, Fq!FqNext PROVE FqBase'
  OBVIOUS
<1>1. CASE Fq!Revoke \/ Fq!Change
  BY <1>1, FqBeside DEF Fq!Revoke, Fq!Change
<1>2. CASE ~(Fq!Revoke \/ Fq!Change)
  BY <1>2, FqAsks, FqExecutes, FqDelivers, FqLists, FqGlobs, FqGreps, FqEnds, FqLoses DEF Fq!FqNext
<1> QED  BY <1>1, <1>2

\* Paging begins before the first match.
LEMMA FqInvInit == Init => FqInv
<1> SUFFICES ASSUME Fq!FqInit PROVE FqBase
  BY DEF Init, FqInv
<1>1. /\ fqAsk \in Fq!Asks /\ fqCursor = 0 /\ fqDone = "no" /\ fqGiven = <<>> /\ fqCall = "idle"
      /\ fqWork = Fq!NoWork /\ fqScan = Fq!NoScan
  BY DEF Fq!FqInit
<1>2. fqAsk.kind \in {"glob", "grep", "read", "path_info"} /\ fqAsk.limit \in Nat \ {0}
  <2>1. PICK a : a = fqAsk
    OBVIOUS
  <2>2. \/ \E r, p, b : \E l \in 1 .. 2 : a = Fq!Glob(r, p, l, b)
        \/ \E r, p, b, s : \E l \in 1 .. 2 : a = Fq!Grep(r, p, l, b, s)
        \/ \E r : \E l \in {2, HardBytes + 1} : a = Fq!ReadFile(r, l)
        \/ \E r : a = Fq!PathInfo(r)
    BY <1>1, <2>1 DEF Fq!Asks
  <2>3. CASE \E r, p, b : \E l \in 1 .. 2 : a = Fq!Glob(r, p, l, b)
    BY <2>1, <2>3 DEF Fq!Glob
  <2>4. CASE \E r, p, b, s : \E l \in 1 .. 2 : a = Fq!Grep(r, p, l, b, s)
    BY <2>1, <2>4 DEF Fq!Grep
  <2>5. CASE \E r : \E l \in {2, HardBytes + 1} : a = Fq!ReadFile(r, l)
    <3>1. PICK r, l : l \in {2, HardBytes + 1} /\ a = Fq!ReadFile(r, l)
      BY <2>5
    <3>2. l \in Nat \ {0}
      BY <3>1, FleetAssumption
    <3> QED  BY <2>1, <3>1, <3>2 DEF Fq!ReadFile
  <2>6. CASE \E r : a = Fq!PathInfo(r)
    BY <2>1, <2>6 DEF Fq!PathInfo
  <2> QED  BY <2>2, <2>3, <2>4, <2>5, <2>6
<1>3. FqSeq(fqGiven) /\ Len(fqGiven) = 0
  BY <1>1, FqSeqs
<1> QED  BY <1>1, <1>2, <1>3, FqNothing DEF FqBase

\* Every step keeps the invariant.
LEMMA FqInvStep == FqInv /\ [Next]_vars => FqInv'
<1> SUFFICES ASSUME FqInv, [Next]_vars, focus' = "query" PROVE FqBase'
  BY DEF FqInv
<1>1. focus = "query" /\ (Fq!FqNext \/ UNCHANGED fqVars)
  BY DEF Next, vars, ManagedFsStep, TcpForwardStep, SitePathStep, MachineServiceStep,
     SingleInstanceStep, SiteKitStep, FsQueryStep, InnerSessionStep, ControllerWindowStep,
     LocalCallsStep
<1>2. FqBase
  BY <1>1 DEF FqInv
<1> QED  BY <1>1, <1>2, FqBaseStep, FqBeside DEF fqVars

\* For a tree of any kind, bounds of any size and any number of pages, timeouts,
\* lost sessions and changes: no match is skipped or repeated by the cursor, no
\* call is answered with the page of another one, and paging moves on.
THEOREM PagingIsExactThm == Spec => []PagingIsExact
<1>1. FqInv => PagingIsExact
  BY DEF FqInv, FqBase, FqReplyOK, PagingIsExact
<1> QED  BY <1>1, FqInvInit, FqInvStep, PTL DEF Spec

=============================================================================
