--------------------------- MODULE SingleInstance ---------------------------
(***************************************************************************)
(* One process per state directory: the kernel lock that makes a Host or a *)
(* Controller the owner, the secret and the local socket it then creates,  *)
(* and the second start that finds the lock taken and talks to the owner.  *)
(* Processes start, are killed and quit at any time; what a killed process *)
(* left on disk stays, its lock and its listener go with it.               *)
(*                                                                         *)
(* A secret that is missing and one that is half written are the same: it  *)
(* cannot be loaded.  So are a missing socket and one nobody listens on.   *)
(***************************************************************************)
EXTENDS Naturals, Sequences

CONSTANTS Procs,      \* processes, positive numbers
          MaxStarts   \* bound: starts altogether

VARIABLES siKind,     \* host or controller
          siLock,     \* the process that holds runtime.lock or controller.lock
          siSecret,   \* whose secret the secret file holds
          siSock,     \* who listens on the socket
          siAt,       \* how far each process is
          siNet,      \* the processes whose sessions with the network run
          siQuit,     \* the processes told to shut down
          siAuth,     \* the secret a second start has loaded
          siPeer,     \* the owner it is connected to
          siFrames,   \* frames the owner has not handled: a secret, 0 if broken off
          siStarts

siVars == <<siKind, siLock, siSecret, siSock, siAt, siNet, siQuit, siAuth, siPeer,
            siFrames, siStarts>>

\* Mutant: the ownership is declared before the listener.
CloseLockFirst == <<"lock", "secret", "socket">>

\* A value dropped: its Drop first, then its fields in the order declared.
Closing == <<"secret", "socket", "lock">>

SiInit ==
  /\ siKind \in {"host", "controller"}
  /\ siLock = 0 /\ siSecret = 0 /\ siSock = 0
  /\ siAt = [p \in Procs |-> "off"]
  /\ siNet = {} /\ siQuit = {}
  /\ siAuth = [p \in Procs |-> 0]
  /\ siPeer = [p \in Procs |-> 0]
  /\ siFrames = [p \in Procs |-> <<>>]
  /\ siStarts = 0

Goes(p, at) == siAt' = [siAt EXCEPT ![p] = at]

\* A process no longer listens: what was sent to it and whoever is connected
\* to it is cut off.
HangsUp(p) ==
  /\ siFrames' = [siFrames EXCEPT ![p] = <<>>]
  /\ siPeer' = [q \in Procs |-> IF p \in {q, siPeer[q]} THEN 0 ELSE siPeer[q]]

----------------------------------------------------------------------------
\* try_acquire: the lock is taken, or it is busy.
TryAcquire(p) ==
  /\ siAt[p] = "off" /\ p \notin siNet /\ siStarts < MaxStarts
  /\ siStarts' = siStarts + 1
  /\ IF siLock = 0 THEN siLock' = p /\ Goes(p, "locked")
                   ELSE UNCHANGED siLock /\ Goes(p, "busy")
  /\ UNCHANGED <<siKind, siSecret, siSock, siNet, siQuit, siAuth, siPeer, siFrames>>

\* The Controller's stores are loaded here; either start may fail, and then
\* only the lock is given back.
StartFails(p) ==
  /\ siAt[p] \in {"locked", "keyed"}
  /\ siLock' = 0 /\ Goes(p, "off")
  /\ UNCHANGED <<siKind, siSecret, siSock, siNet, siQuit, siAuth, siPeer, siFrames, siStarts>>

\* rotate_secret truncates the file and writes it.
TruncateSecret(p) ==
  /\ siAt[p] = "locked" /\ siSecret # 0
  /\ siSecret' = 0
  /\ UNCHANGED <<siKind, siLock, siSock, siAt, siNet, siQuit, siAuth, siPeer, siFrames, siStarts>>

RotateSecret(p) ==
  /\ siAt[p] = "locked" /\ siSecret = 0
  /\ siSecret' = p /\ Goes(p, "keyed")
  /\ UNCHANGED <<siKind, siLock, siSock, siNet, siQuit, siAuth, siPeer, siFrames, siStarts>>

\* The listener is bound and the process serves.
Bind(p) ==
  /\ siAt[p] = "keyed"
  /\ siSock' = p /\ Goes(p, "serving")
  /\ siNet' = siNet \cup {p}
  /\ UNCHANGED <<siKind, siLock, siSecret, siQuit, siAuth, siPeer, siFrames, siStarts>>

\* A signal, the window closed, or the shutdown request of the local API.
Quit(p) ==
  /\ p \in siNet /\ p \notin siQuit
  /\ siQuit' = siQuit \cup {p}
  /\ UNCHANGED <<siKind, siLock, siSecret, siSock, siAt, siNet, siAuth, siPeer, siFrames, siStarts>>

\* The sessions end.  The Host's end beside its instance, the Controller's
\* before anything of it is dropped.
NetEnds(p) ==
  /\ p \in siNet \cap siQuit
  /\ siNet' = siNet \ {p}
  /\ siQuit' = IF siAt[p] = "off" THEN siQuit \ {p} ELSE siQuit
  /\ UNCHANGED <<siKind, siLock, siSecret, siSock, siAt, siAuth, siPeer, siFrames, siStarts>>

ServeEnds(p) ==
  /\ siAt[p] = "serving" /\ p \in siQuit
  /\ siKind = "controller" => p \notin siNet
  /\ Goes(p, Closing[1]) /\ HangsUp(p)
  /\ UNCHANGED <<siKind, siLock, siSecret, siSock, siNet, siQuit, siAuth, siStarts>>

\* One part of the value is dropped.  The files are removed by name.
After(part) ==
  LET i == CHOOSE i \in 1 .. Len(Closing) : Closing[i] = part
  IN  IF i < Len(Closing) THEN Closing[i + 1] ELSE "off"

DropPart(p) ==
  /\ siAt[p] \in {"secret", "socket", "lock"}
  /\ siSecret' = IF siAt[p] = "secret" THEN 0 ELSE siSecret
  /\ siSock' = IF siAt[p] = "socket" THEN 0 ELSE siSock
  /\ siLock' = IF siAt[p] = "lock" THEN 0 ELSE siLock
  /\ Goes(p, After(siAt[p]))
  /\ siQuit' = IF After(siAt[p]) = "off" /\ p \notin siNet THEN siQuit \ {p} ELSE siQuit
  /\ UNCHANGED <<siKind, siNet, siAuth, siPeer, siFrames, siStarts>>

----------------------------------------------------------------------------
\* A second start.  Loading and connecting are retried for a while.
LoadSecret(p) ==
  /\ siAt[p] = "busy" /\ siSecret # 0
  /\ siAuth' = [siAuth EXCEPT ![p] = siSecret]
  /\ Goes(p, "authed")
  /\ UNCHANGED <<siKind, siLock, siSecret, siSock, siNet, siQuit, siPeer, siFrames, siStarts>>

Connect(p) ==
  /\ siAt[p] = "authed" /\ siSock # 0
  /\ siPeer' = [siPeer EXCEPT ![p] = siSock]
  /\ Goes(p, "linked")
  /\ UNCHANGED <<siKind, siLock, siSecret, siSock, siNet, siQuit, siAuth, siFrames, siStarts>>

\* The request is written, or the process is killed half way.
Send(p) ==
  /\ siAt[p] = "linked" /\ siPeer[p] # 0
  /\ \E f \in {siAuth[p], 0} : siFrames' = [siFrames EXCEPT ![siPeer[p]] = Append(@, f)]
  /\ Goes(p, "off")
  /\ siAuth' = [siAuth EXCEPT ![p] = 0]
  /\ siPeer' = [siPeer EXCEPT ![p] = 0]
  /\ UNCHANGED <<siKind, siLock, siSecret, siSock, siNet, siQuit, siStarts>>

\* The owner handles a frame.  A secret that does not match is ignored; a
\* frame that breaks off costs the Controller one handler, but ends the
\* Host's serve_until with an error, and its instance is dropped.
HandleFrame(p) ==
  /\ siAt[p] = "serving" /\ siFrames[p] # <<>>
  /\ IF siKind = "host" /\ Head(siFrames[p]) = 0
     THEN Goes(p, Closing[1]) /\ HangsUp(p)
     ELSE siFrames' = [siFrames EXCEPT ![p] = Tail(@)] /\ UNCHANGED <<siAt, siPeer>>
  /\ UNCHANGED <<siKind, siLock, siSecret, siSock, siNet, siQuit, siAuth, siStarts>>

\* The process is killed, or a second start gives up or fails.
Kill(p) ==
  /\ siAt[p] # "off" \/ p \in siNet
  /\ Goes(p, "off") /\ HangsUp(p)
  /\ siAuth' = [siAuth EXCEPT ![p] = 0]
  /\ siLock' = IF siLock = p THEN 0 ELSE siLock
  /\ siSock' = IF siSock = p THEN 0 ELSE siSock
  /\ siNet' = siNet \ {p} /\ siQuit' = siQuit \ {p}
  /\ UNCHANGED <<siKind, siSecret, siStarts>>

SiNext ==
  \E p \in Procs :
    \/ TryAcquire(p) \/ StartFails(p) \/ TruncateSecret(p) \/ RotateSecret(p) \/ Bind(p)
    \/ Quit(p) \/ NetEnds(p) \/ ServeEnds(p) \/ DropPart(p)
    \/ LoadSecret(p) \/ Connect(p) \/ Send(p) \/ HandleFrame(p) \/ Kill(p)

SiSpec == SiInit /\ [][SiNext]_siVars

----------------------------------------------------------------------------
\* The process that serves holds the lock, and the secret and the socket under
\* their names are the ones it made: an owner that is going never takes away
\* the files of the one that follows it.  A Controller has closed its sessions
\* before the next one serves.
OwnerKeepsItsEndpoint ==
  \A p \in Procs :
    siAt[p] = "serving" =>
      /\ siLock = p /\ siSecret = p /\ siSock = p
      /\ siKind = "controller" => siNet \subseteq {p}

\* "Only after the primary has exited can the ownership be taken again": a
\* Host that was not told to shut down holds the lock while its sessions run.
OwnerUntilExit ==
  siKind = "host" => \A p \in siNet \ siQuit : siLock = p
=============================================================================
