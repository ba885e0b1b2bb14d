------------------------------ MODULE MCFleet ------------------------------
(***************************************************************************)
(* Ten components that share no state with one another in the code, on     *)
(* one instance: the first state chooses which of them runs, the others    *)
(* stay as they begin, so the state space is the sum of theirs.            *)
(***************************************************************************)
EXTENDS Naturals

CONSTANTS FsWorkers, MaxRequests, MaxItems, MaxClock,
          Listeners, Conns, MaxListeners, FwCap, MaxBytes, FwChunk, MaxGen,
          Candidates, Helper, MaxDials, MaxSeen, MaxTunnels, Lifetime,
          Margin, Skew, MaxTime,
          MaxCommands,
          Procs, MaxStarts,
          Jobs, Labels, Art, MaxArt, MaxRuntimes, MaxRevision, MaxGeneration,
          MaxInvites,
          MaxEntries, MaxLine, HardBytes, PolicyBytes, FqFaults,
          MaxCalls, IsFaults,
          MaxClicks, MaxIssued, MaxForeign, MaxFailures, MaxPending,
          Callers, MaxLocalCalls, MaxBatch, TableCap

ASSUME FleetAssumption ==
  /\ MaxRequests \in Nat
  /\ {MaxBytes, FwChunk} \subseteq Nat
  /\ Procs \subseteq Nat \ {0} /\ MaxStarts \in Nat
  /\ {MaxTunnels, Lifetime, Margin, Skew, MaxTime} \subseteq Nat
  /\ {MaxLocalCalls, MaxBatch, HardBytes} \subseteq Nat

VARIABLES focus,   \* the component that runs
          fsLedger, fsBin, fsDirs, fsDest, fsLost, fsJob, fsClock, fsNext,
          fsExcused, fsPrepared, fsPurges,
          fwPort, fwTask, fwGone, fwGot, fwSink, fwHost, fwRead, fwQueue,
          fwGen, fwUp,
          spNow, spLag, spHelper, spTunnels, spDying, spStatus, spWin, spPath,
          msOs, msHas, msUser, msGroup, msProc, msEnabled, msDying, msHelper,
          msCmd, msBefore, msOut, msLost, msIssued,
          siKind, siLock, siSecret, siSock, siAt, siNet, siQuit, siAuth,
          siPeer, siFrames, siStarts,
          ktLibrary, ktSlots, ktAcked, ktArt, ktEntries, ktActive, ktImport,
          ktJob, ktIssued, ktOpen, ktMade, ktExcused, ktArchive, ktSidecar,
          ktSums, ktHost,
          fqTree, fqAsk, fqCursor, fqDone, fqGiven, fqCall, fqWork, fqScan,
          fqAllowed, fqQuiet, fqFaults,
          isKind, isCtl, isAllowed, isEnd, isWire, isCross, isRevoking, isCut,
          isFaults,
          wnCtl, wnQueue, wnWork, wnEvents, wnWin, wnStudio, wnBudget,
          lcUse, lcDevice, lcTool, lcCalls, lcSent, lcWork, lcWire, lcTold,
          lcEnded, lcLog

Fs == INSTANCE ManagedFs
Fw == INSTANCE TcpForward
Sp == INSTANCE SitePath
Ms == INSTANCE MachineService
Si == INSTANCE SingleInstance
Kt == INSTANCE SiteKit
Fq == INSTANCE FsQuery WITH MaxFaults <- FqFaults
Is == INSTANCE InnerSession WITH MaxFaults <- IsFaults
Wn == INSTANCE ControllerWindow
Lc == INSTANCE LocalCalls

fsVars == <<fsLedger, fsBin, fsDirs, fsDest, fsLost, fsJob, fsClock, fsNext,
            fsExcused, fsPrepared, fsPurges>>
fwVars == <<fwPort, fwTask, fwGone, fwGot, fwSink, fwHost, fwRead, fwQueue,
            fwGen, fwUp>>
spVars == <<spNow, spLag, spHelper, spTunnels, spDying, spStatus, spWin,
            spPath>>
msVars == <<msOs, msHas, msUser, msGroup, msProc, msEnabled, msDying,
            msHelper, msCmd, msBefore, msOut, msLost, msIssued>>
siVars == <<siKind, siLock, siSecret, siSock, siAt, siNet, siQuit, siAuth,
            siPeer, siFrames, siStarts>>
ktVars == <<ktLibrary, ktSlots, ktAcked, ktArt, ktEntries, ktActive,
            ktImport, ktJob, ktIssued, ktOpen, ktMade, ktExcused, ktArchive,
            ktSidecar, ktSums, ktHost>>
fqVars == <<fqTree, fqAsk, fqCursor, fqDone, fqGiven, fqCall, fqWork, fqScan,
            fqAllowed, fqQuiet, fqFaults>>
isVars == <<isKind, isCtl, isAllowed, isEnd, isWire, isCross, isRevoking, isCut,
            isFaults>>
wnVars == <<wnCtl, wnQueue, wnWork, wnEvents, wnWin, wnStudio, wnBudget>>
lcVars == <<lcUse, lcDevice, lcTool, lcCalls, lcSent, lcWork, lcWire, lcTold,
            lcEnded, lcLog>>
vars == <<focus, fsVars, fwVars, spVars, msVars, siVars, ktVars, fqVars,
          isVars, wnVars, lcVars>>

\* What a component that does not run begins with is fixed.
SomeTree == CHOOSE t \in Fq!Shapes : TRUE
SomeAsk == CHOOSE a \in Fq!Asks : TRUE

Init ==
  /\ focus \in {"ledger", "forward", "path", "service", "instance", "kit",
                "query", "session", "window", "calls"}
  /\ Fs!FsInit
  /\ Fw!FwInit
  /\ Sp!SpInit /\ (focus = "path" \/ spLag = 0)
  /\ Ms!MsInit /\ (focus = "service" \/ msOs = "linux")
  /\ Si!SiInit /\ (focus = "instance" \/ siKind = "host")
  /\ Kt!KtInit
  /\ Fq!FqInit /\ (focus = "query" \/ (fqTree = SomeTree /\ fqAsk = SomeAsk))
  /\ Is!IsInit
  /\ focus = "session" \/ (/\ isKind = [l \in Is!Links |-> "member"]
                           /\ isCtl[1] = "mine" /\ isAllowed[2])
  /\ Wn!WnInit /\ (focus = "window" \/ (wnWin.page = "kit" /\ ~wnWin.acceptance))
  /\ Lc!LcInit /\ (focus = "calls" \/ (lcUse = {"shell"} /\ ~lcDevice.execute))

ManagedFsStep ==
  /\ focus = "ledger" /\ Fs!FsNext
  /\ UNCHANGED <<focus, fwVars, spVars, msVars, siVars, ktVars, fqVars, isVars, wnVars, lcVars>>

TcpForwardStep ==
  /\ focus = "forward" /\ Fw!FwNext
  /\ UNCHANGED <<focus, fsVars, spVars, msVars, siVars, ktVars, fqVars, isVars, wnVars, lcVars>>

SitePathStep ==
  /\ focus = "path" /\ Sp!SpNext
  /\ UNCHANGED <<focus, fsVars, fwVars, msVars, siVars, ktVars, fqVars, isVars, wnVars, lcVars>>

MachineServiceStep ==
  /\ focus = "service" /\ Ms!MsNext
  /\ UNCHANGED <<focus, fsVars, fwVars, spVars, siVars, ktVars, fqVars, isVars, wnVars, lcVars>>

SingleInstanceStep ==
  /\ focus = "instance" /\ Si!SiNext
  /\ UNCHANGED <<focus, fsVars, fwVars, spVars, msVars, ktVars, fqVars, isVars, wnVars, lcVars>>

SiteKitStep ==
  /\ focus = "kit" /\ Kt!KtNext
  /\ UNCHANGED <<focus, fsVars, fwVars, spVars, msVars, siVars, fqVars, isVars, wnVars, lcVars>>

FsQueryStep ==
  /\ focus = "query" /\ Fq!FqNext
  /\ UNCHANGED <<focus, fsVars, fwVars, spVars, msVars, siVars, ktVars, isVars, wnVars, lcVars>>

InnerSessionStep ==
  /\ focus = "session" /\ Is!IsNext
  /\ UNCHANGED <<focus, fsVars, fwVars, spVars, msVars, siVars, ktVars, fqVars, wnVars, lcVars>>

ControllerWindowStep ==
  /\ focus = "window" /\ Wn!WnNext
  /\ UNCHANGED <<focus, fsVars, fwVars, spVars, msVars, siVars, ktVars, fqVars, isVars, lcVars>>

LocalCallsStep ==
  /\ focus = "calls" /\ Lc!LcNext
  /\ UNCHANGED <<focus, fsVars, fwVars, spVars, msVars, siVars, ktVars, fqVars, isVars, wnVars>>

Next == \/ ManagedFsStep
        \/ TcpForwardStep
        \/ SitePathStep
        \/ MachineServiceStep
        \/ SingleInstanceStep
        \/ SiteKitStep
        \/ FsQueryStep
        \/ InnerSessionStep
        \/ ControllerWindowStep
        \/ LocalCallsStep

Spec == Init /\ [][Next]_vars

-----------------------------------------------------------------------------
(***************************************************************************)
(* The properties of a component, in the states of the behaviours in which *)
(* it runs.                                                                *)
(***************************************************************************)
\* The managed file-system ledger.  Nothing is destroyed by one call: a purge
\* carries the token of an earlier request that prepared it for this very
\* item, however stale the ledger copies were.  Requests that do not overlap
\* and end well leave ledger and disk in agreement, resource by resource and
\* item by item, and replace nothing at the destination.
LedgerIsSafe == focus = "ledger" => Fs!PurgeWasPrepared /\ Fs!LedgerMirrorsDisk

\* Neither stream is ever reordered, repeated or holed, whatever chunks,
\* pipelined bytes, abandoned exchanges and new sessions it went through; and
\* an end is passed on only after everything before it.
StreamsAreIntact == focus = "forward" => Fw!StreamsAreIntact

\* A connection that the Host keeps open is one that somebody still uses or
\* is about to close.  Only a listener that was removed, or an application
\* that left a proxy before it was told that it is connected, leaves one
\* behind for the rest of the session.
HostConnectionIsOwned == focus = "forward" => Fw!HostConnectionIsOwned

\* A target never goes through a helper whose lease has ended by the target's
\* clock, however far behind the helper's clock is, and never around a helper
\* it was told to use; the helper carries no tunnel past the end of its lease,
\* except while it executes a request; and what it shows is what it carries.
LeaseIsObeyed ==
  focus = "path" => Sp!PathIsLeased /\ Sp!TunnelsEndWithLease /\ Sp!HelperStatusIsTrue

\* Wherever a lifecycle command failed or was cut off: the dedicated account
\* never exists without the file that proves it is Clew's, nothing of someone
\* else is deleted, whatever runs or would run at boot is a whole
\* installation, and a rollback reported as complete left nothing behind.
InstallationIsSound ==
  focus = "service" => Ms!IdentityIsKept /\ Ms!StartedIsWhole /\ Ms!RollbackIsComplete

\* The process that serves holds the lock, and the secret and the socket under
\* their names are the ones it made: an owner that is going never takes away
\* the files of the one that follows it.  A Controller has closed its sessions
\* before the next one serves.
OwnerKeepsItsEndpoint == focus = "instance" => Si!OwnerKeepsItsEndpoint

\* Every archive in the output directory holds a runtime built for the profile
\* its site signs, although the profile is read twice and may be edited in
\* between; a member's Host keeps the art of its outfit; no crash takes the
\* outfit back behind a revision that was acknowledged; and no kit request that
\* fails leaves a working invite, unless the Controller was killed or said so.
KitIsSound == focus = "kit" => Kt!KitIsWhole /\ Kt!RevisionIsKept /\ Kt!NoStrayInvite

\* Pages put together are what was asked for: while the tree does not change
\* they are a prefix of the matches in walk order, without a gap or a
\* repetition whatever bound cut the pages and whichever call was repeated,
\* and the page that says it is the last completes them.  Even while the tree
\* changes one page is in walk order, and a page that promises another one is
\* not empty, so that paging moves on.
PagesAreExact == focus = "query" => Fq!PagesAreExact

\* Both ends of an established session are ends of one handshake, with the
\* pinned Controller and a device that was allowed in, and a revocation leaves
\* only a session that it met before its registration; each was given, in
\* order, the beginning of what the other sent, however the carrier mistreated
\* the packets; and no caller is given the answer to another call.
PeersAgree == focus = "session" => Is!PeersAgree

\* Once everything asked has been answered nothing in the window still waits;
\* an edit goes into the outfit it was drafted on, and what is shown is the
\* Controller's; no deletion on its way names an open credential; and a window
\* that has closed left neither Controller nor MCP server behind.
WindowIsTrue == focus = "window" =>
  /\ Wn!SpinnersEnd
  /\ Wn!StudioFollowsLibrary
  /\ Wn!DeletesOnlyTheClosed
  /\ Wn!ExitIsClean

\* A caller of the Local API is told what was started, for the item it asked
\* for, and nothing else, unless it stopped waiting or the Controller gave up
\* on the device; what it was told has ended does not run again, and a Shell task
\* it was told is being cancelled stops; nothing is started under a right the
\* device does not hold, nor by a request that was not authorized when the
\* revocation was committed; and the activity list agrees.
CallsAreHonest == focus = "calls" =>
  /\ Lc!ReportIsTrue
  /\ Lc!ToldStaysTrue
  /\ Lc!WorkWasAuthorized
  /\ Lc!ActivityIsTrue
=============================================================================
