------------------------------ MODULE Enrollment ------------------------------
(***************************************************************************)
(* How a collaborator's machine becomes a device of a Controller, and how  *)
(* it stops being one.                                                     *)
(*                                                                         *)
(* The Controller keeps one snapshot (enrollment registry + catalog +      *)
(* recovery review) that only transactions change; each transaction is an  *)
(* operator from a snapshot to a snapshot.  A Host holds a signed site     *)
(* file, makes a DeviceKey, claims a DeviceId over a bootstrap connection, *)
(* persists it in several files, and reports "Persisted"; only then does   *)
(* the Controller activate the device.  Connections break, hosts are       *)
(* killed between (or inside) file writes and are launched again, requests *)
(* of abandoned connections are still answered, the owner closes, revokes  *)
(* and deletes, and an older backup may replace the Controller's state.    *)
(*                                                                         *)
(* A signature that does not verify, a key or token that does not match    *)
(* and a foreign Controller are not modelled: every host is honest.  Ids   *)
(* and tokens are random and never repeat.  InviteIssue always makes a new *)
(* SiteId, so an invite stands for its site too.                           *)
(***************************************************************************)
EXTENDS Integers, FiniteSets

CONSTANTS
    Hosts,          \* installations: one machine, one site file, one DeviceKey
    Invites,        \* invite ids (and the site each was issued with)
    DeviceIds,      \* ids the Controller may hand out
    SiteFile,       \* SiteFile[h]: the invite in the site file h was given
    MaxClaims,      \* SiteBootstrapSpec.max_claims
    ValidFor,       \* expires_unix_ms - issue time
    Window,         \* SiteBootstrapSpec.deployment_window_ms
    MaxTime,        \* bound: the clock stops here
    MaxFaults,      \* bound: connection breaks and host kills
    MaxRestores,    \* bound: backups restored (0: none is exported either)
    None,           \* no file, no record, no value
    Torn            \* a file created and not completely written

ASSUME ConstantsAssumption ==
    /\ SiteFile \in [Hosts -> Invites]
    /\ MaxClaims \in Nat /\ ValidFor \in Nat /\ Window \in Nat
    /\ MaxTime \in Nat /\ MaxFaults \in Nat /\ MaxRestores \in Nat
    /\ None \notin DeviceIds \cup {Torn, "pending", "active", "revoked"}
    /\ None \notin Hosts /\ None \notin Nat
    /\ Torn \notin DeviceIds
    /\ IsFiniteSet(DeviceIds)

VARIABLES
    ctl,            \* the Controller's durable snapshot
    issued,         \* issued[i]: when the signed pass of i was made, or None
    now,            \* the Controller's clock
    minted,         \* device ids ever handed out
    backup,         \* the exported snapshot, or None
    pending,        \* pending[h]: the pending-identity file (holds the DeviceKey)
    record,         \* record[h][d]: the device-record file of d
    activation,     \* activation[h]: the activation-pending file
    active,         \* active[h]: the active-identity file
    marker,         \* marker[h]: the membership marker file
    pc,             \* pc[h]: what the host program is doing
    receipt,        \* receipt[h]: the receipt in the host's memory
    wire,           \* wire[h]: the message in flight on h's connection
    orphans,        \* requests the Controller still reads from abandoned connections
    faults,         \* faults so far
    restores,       \* restores so far
    everActive,     \* history: ids the Controller ever activated
    banned,         \* history: ids ever revoked or deleted
    confirmed,      \* history: the owner confirmed the last recovery review
    historic        \* history: invites issued before the last restore

vars == <<ctl, issued, now, minted, backup, pending, record, activation, active,
          marker, pc, receipt, wire, orphans, faults, restores, everActive,
          banned, confirmed, historic>>
disk == <<pending, record, activation, active, marker>>
history == <<everActive, banned, confirmed, historic>>
world == <<issued, now, minted, backup, restores>>

Status == {"pending", "active", "revoked"}

Snapshot ==
    [sites: SUBSET Invites, known: SUBSET Invites, closed: SUBSET Invites,
     revoked: SUBSET Invites, deleted: SUBSET Invites,
     first: [Invites -> Nat \cup {None}],
     claim: [DeviceIds -> Status \cup {None}],
     device: [DeviceIds -> Status \cup {None}],
     owner: [DeviceIds -> Hosts \cup {None}],
     at: [DeviceIds -> Nat \cup {None}],
     catalog: [DeviceIds -> {"active", "revoked", None}],
     paused: BOOLEAN]

EmptySnapshot ==
    [sites |-> {}, known |-> {}, closed |-> {}, revoked |-> {}, deleted |-> {},
     first |-> [i \in Invites |-> None],
     claim |-> [d \in DeviceIds |-> None],
     device |-> [d \in DeviceIds |-> None],
     owner |-> [d \in DeviceIds |-> None],
     at |-> [d \in DeviceIds |-> None],
     catalog |-> [d \in DeviceIds |-> None],
     paused |-> FALSE]

-----------------------------------------------------------------------------
(* Transactions of the registry and the catalog.                           *)

InviteOf(s, d) == SiteFile[s.owner[d]]
ClaimsOf(s, i) == {d \in DeviceIds : s.claim[d] # None /\ InviteOf(s, d) = i}
DevicesOf(s, i) == {d \in DeviceIds : s.device[d] # None /\ InviteOf(s, d) = i}
ClaimsBy(s, h) == {d \in DeviceIds : s.claim[d] # None /\ s.owner[d] = h}

\* upsert_site and register_pass in one transaction.
CanRegisterPass(s, i) == i \notin s.revoked /\ i \notin s.deleted
RegisterPass(s, i) ==
    [s EXCEPT !.sites = @ \cup {i}, !.known = @ \cup {i}]

\* Mutant: the catalog is not asked for the site.
SiteKnownUnchecked(s, i) == TRUE

\* The site of the pass is in the catalog: checked before claim_with_ceiling.
SiteKnown(s, i) == i \in s.sites

\* Mutant: a pending claim is treated like a finalized one.
CanReplayNever(s, h, d) == FALSE

\* claim_with_ceiling for a key that has a claim: only a pending one replays.
CanReplay(s, h, d) ==
    /\ SiteFile[h] \notin s.revoked
    /\ d \in ClaimsBy(s, h)
    /\ s.claim[d] = "pending"

\* Mutant: the existing claim of the key is not looked up.
CanClaimAnyKey(s, h, t) ==
    LET i == SiteFile[h] IN
    /\ i \notin s.revoked /\ i \notin s.closed
    /\ issued[i] <= t /\ t < issued[i] + ValidFor
    /\ s.first[i] # None => t < s.first[i] + Window
    /\ Cardinality(ClaimsOf(s, i)) < MaxClaims

\* Mutant: off by one at the end of the deployment window.
CanClaimLate(s, h, t) ==
    LET i == SiteFile[h] IN
    /\ i \notin s.revoked /\ i \notin s.closed
    /\ ClaimsBy(s, h) = {}
    /\ issued[i] <= t /\ t < issued[i] + ValidFor
    /\ s.first[i] # None => t <= s.first[i] + Window
    /\ Cardinality(ClaimsOf(s, i)) < MaxClaims

\* claim_with_ceiling for a key without one.
CanClaim(s, h, t) ==
    LET i == SiteFile[h] IN
    /\ i \notin s.revoked /\ i \notin s.closed
    /\ ClaimsBy(s, h) = {}
    /\ issued[i] <= t /\ t < issued[i] + ValidFor
    /\ s.first[i] # None => t < s.first[i] + Window
    /\ Cardinality(ClaimsOf(s, i)) < MaxClaims

Claim(s, h, d, t) ==
    LET i == SiteFile[h] IN
    [s EXCEPT !.known = @ \cup {i},
              !.first[i] = IF @ = None THEN t ELSE @,
              !.claim[d] = "pending", !.device[d] = "pending",
              !.owner[d] = h, !.at[d] = t]

\* Mutant: any claim of a live invite can be resumed.
CanFinalizeAnyStatus(s, h, d) ==
    /\ SiteFile[h] \in s.known \ s.revoked
    /\ d \in ClaimsOf(s, SiteFile[h])
    /\ SiteKnown(s, SiteFile[h])

\* finalize_host_persist and finalize_persisted in one transaction.
CanFinalize(s, h, d) ==
    /\ SiteFile[h] \in s.known \ s.revoked
    /\ d \in ClaimsOf(s, SiteFile[h])
    /\ s.claim[d] \in {"pending", "active"}
    /\ s.device[d] # None
    /\ SiteKnown(s, SiteFile[h])
    /\ s.catalog[d] # "revoked"
Finalize(s, d) ==
    [s EXCEPT !.claim[d] = "active", !.device[d] = "active",
              !.catalog[d] = "active"]

CloseInvite(s, i) == [s EXCEPT !.closed = @ \cup {i}]

\* Mutant: only devices that were activated are revoked.
RevokeInviteActiveOnly(s, i) ==
    LET Rev(f) == [d \in DeviceIds |->
            IF d \in ClaimsOf(s, i) /\ f[d] = "active" THEN "revoked" ELSE f[d]]
    IN [s EXCEPT !.closed = @ \cup {i}, !.revoked = @ \cup {i},
                 !.claim = Rev(@), !.device = Rev(@), !.catalog = Rev(@)]

\* Mutant: the catalog keeps the devices of a revoked invite.
RevokeInviteRegistryOnly(s, i) ==
    LET Rev(f) == [d \in DeviceIds |->
            IF d \in ClaimsOf(s, i) THEN "revoked" ELSE f[d]]
    IN [s EXCEPT !.closed = @ \cup {i}, !.revoked = @ \cup {i},
                 !.claim = Rev(@), !.device = Rev(@)]

RevokeInvite(s, i) ==
    LET ds == ClaimsOf(s, i) IN
    [s EXCEPT !.closed = @ \cup {i}, !.revoked = @ \cup {i},
              !.claim = [d \in DeviceIds |-> IF d \in ds THEN "revoked" ELSE @[d]],
              !.device = [d \in DeviceIds |->
                             IF d \in ds /\ @[d] # None THEN "revoked" ELSE @[d]],
              !.catalog = [d \in DeviceIds |->
                             IF d \in ds /\ @[d] # None THEN "revoked" ELSE @[d]]]

DeleteInviteHistory(s, i) ==
    LET ds == ClaimsOf(s, i) \cup DevicesOf(s, i)
        Clear(f) == [d \in DeviceIds |-> IF d \in ds THEN None ELSE f[d]]
    IN [s EXCEPT !.closed = @ \cup {i}, !.revoked = @ \cup {i},
                 !.deleted = @ \cup {i}, !.first[i] = None,
                 !.claim = Clear(@), !.device = Clear(@), !.owner = Clear(@),
                 !.at = Clear(@), !.catalog = Clear(@)]

\* DeviceRevoke: both halves must find the device, else nothing is committed.
CanRevokeDevice(s, d) == s.device[d] # None /\ s.catalog[d] # None
RevokeDevice(s, d) ==
    [s EXCEPT !.device[d] = "revoked", !.catalog[d] = "revoked",
              !.claim[d] = IF @ = None THEN None ELSE "revoked"]

\* Mutant: remote access is not paused.
RestoredUnpaused(s) == [s EXCEPT !.closed = @ \cup s.known]

\* decrypt_controller_backup closes every invite the backup knows and pauses.
Restored(s) == [s EXCEPT !.closed = @ \cup s.known, !.paused = TRUE]

\* The authorization closure of handle_member.
Authorized(s, d) ==
    /\ ~s.paused
    /\ s.device[d] = "active" /\ s.catalog[d] = "active"
    /\ InviteOf(s, d) \in s.sites

-----------------------------------------------------------------------------
(* The bootstrap connection.  It is a strict request/response exchange, so *)
(* one message per host is the whole state of its current connection.      *)

Requests == {"claim", "persisted", "ack"}
Replies == {"claimed", "activated", "confirmed", "error"}
Msg(k, d) == [kind |-> k, dev |-> d]
Down == Msg("down", None)       \* no connection
Open == Msg("open", None)       \* connected, nothing in flight

Waiting == {"claiming", "persisted", "acked"}
Writing == {"record", "activation", "promote", "unpend", "marker", "send"}

\* The Controller reads request m of host h, from the live connection (and
\* answers on it) or from an abandoned one (and the answer goes nowhere).
Serve(h, m, reply) ==
    \/ /\ wire[h] = m
       /\ wire' = [wire EXCEPT ![h] = reply]
       /\ UNCHANGED orphans
    \/ /\ <<h, m>> \in orphans
       /\ orphans' = orphans \ {<<h, m>>}
       /\ UNCHANGED wire

\* h's connection ends; a request in flight may still reach the Controller.
Abandon(h) ==
    /\ wire' = [wire EXCEPT ![h] = Down]
    /\ \/ UNCHANGED orphans
       \/ /\ wire[h].kind \in {"claim", "persisted"}
          /\ orphans' = orphans \cup {<<h, wire[h]>>}

Init ==
    /\ ctl = EmptySnapshot
    /\ issued = [i \in Invites |-> None]
    /\ now = 0 /\ minted = {} /\ backup = None
    /\ pending = [h \in Hosts |-> None]
    /\ record = [h \in Hosts |-> [d \in DeviceIds |-> None]]
    /\ activation = [h \in Hosts |-> None]
    /\ active = [h \in Hosts |-> None]
    /\ marker = [h \in Hosts |-> None]
    /\ pc = [h \in Hosts |-> "off"]
    /\ receipt = [h \in Hosts |-> None]
    /\ wire = [h \in Hosts |-> Down]
    /\ orphans = {} /\ faults = 0 /\ restores = 0
    /\ everActive = {} /\ banned = {} /\ confirmed = FALSE /\ historic = {}

-----------------------------------------------------------------------------
(* Controller: bootstrap handler.                                          *)

ControllerOnly == UNCHANGED <<disk, pc, receipt, faults>>

HandleFreshClaim(h) ==
    \E d \in DeviceIds \ minted :
        /\ Serve(h, Msg("claim", None), Msg("claimed", d))
        /\ ~ctl.paused /\ SiteKnown(ctl, SiteFile[h]) /\ CanClaim(ctl, h, now)
        /\ ctl' = Claim(ctl, h, d, now)
        /\ minted' = minted \cup {d}
        /\ UNCHANGED <<issued, now, backup, restores, history>>
        /\ ControllerOnly

HandleReplayedClaim(h) ==
    \E d \in DeviceIds :
        /\ ~ctl.paused /\ SiteKnown(ctl, SiteFile[h]) /\ CanReplay(ctl, h, d)
        /\ Serve(h, Msg("claim", None), Msg("claimed", d))
        /\ UNCHANGED <<ctl, world, history>>
        /\ ControllerOnly

HandleRefusedClaim(h) ==
    /\ Serve(h, Msg("claim", None), Msg("error", None))
    /\ \/ ctl.paused
       \/ ~SiteKnown(ctl, SiteFile[h])
       \/ ~CanClaim(ctl, h, now) /\ \A d \in DeviceIds : ~CanReplay(ctl, h, d)
    /\ UNCHANGED <<ctl, world, history>>
    /\ ControllerOnly

HandlePersisted(h) ==
    \E d \in DeviceIds :
        /\ ~ctl.paused /\ CanFinalize(ctl, h, d)
        /\ Serve(h, Msg("persisted", d), Msg("activated", d))
        /\ ctl' = Finalize(ctl, d)
        /\ everActive' = everActive \cup {d}
        /\ UNCHANGED <<world, banned, confirmed, historic>>
        /\ ControllerOnly

HandleRefusedPersisted(h) ==
    \E d \in DeviceIds :
        /\ ctl.paused \/ ~CanFinalize(ctl, h, d)
        /\ Serve(h, Msg("persisted", d), Msg("error", None))
        /\ UNCHANGED <<ctl, world, history>>
        /\ ControllerOnly

\* expect_activation_ack on a sealed channel.
HandleAck(h) ==
    /\ wire[h].kind = "ack"
    /\ wire' = [wire EXCEPT ![h] = Msg("confirmed", wire[h].dev)]
    /\ UNCHANGED <<ctl, world, history, orphans>>
    /\ ControllerOnly

-----------------------------------------------------------------------------
(* Controller: the owner's operations (Local API).                         *)

OwnerOnly == UNCHANGED <<disk, pc, receipt, wire, orphans, faults>>

InviteIssue(i) ==
    /\ issued[i] = None /\ CanRegisterPass(ctl, i)
    /\ issued' = [issued EXCEPT ![i] = now]
    /\ ctl' = RegisterPass(ctl, i)
    /\ UNCHANGED <<now, minted, backup, restores, history>>
    /\ OwnerOnly

InviteClose(i) ==
    /\ i \in ctl.known
    /\ ctl' = CloseInvite(ctl, i)
    /\ UNCHANGED <<world, history>>
    /\ OwnerOnly

InviteRevoke(i) ==
    /\ i \in ctl.known
    /\ ctl' = RevokeInvite(ctl, i)
    /\ banned' = banned \cup ClaimsOf(ctl, i)
    /\ UNCHANGED <<world, everActive, confirmed, historic>>
    /\ OwnerOnly

InviteDelete(i) ==
    /\ i \in ctl.known
    /\ ctl' = DeleteInviteHistory(ctl, i)
    /\ banned' = banned \cup ClaimsOf(ctl, i) \cup DevicesOf(ctl, i)
    /\ UNCHANGED <<world, everActive, confirmed, historic>>
    /\ OwnerOnly

DeviceRevoke(d) ==
    /\ CanRevokeDevice(ctl, d)
    /\ ctl' = RevokeDevice(ctl, d)
    /\ banned' = banned \cup {d}
    /\ UNCHANGED <<world, everActive, confirmed, historic>>
    /\ OwnerOnly

ExportBackup ==
    /\ restores < MaxRestores
    /\ backup' = ctl
    /\ UNCHANGED <<ctl, issued, now, minted, restores, history>>
    /\ OwnerOnly

\* The Controller's machine is replaced: restore_controller_backup runs on an
\* empty state directory while no Controller runs, so no connection survives.
\* Killed between its two commits it leaves the empty first generation.
Restore ==
    /\ backup # None /\ restores < MaxRestores
    /\ restores' = restores + 1
    /\ ctl' \in {Restored(backup), EmptySnapshot}
    /\ historic' = historic \cup {i \in Invites : issued[i] # None}
    /\ confirmed' = FALSE
    /\ wire' = [h \in Hosts |-> Down] /\ orphans' = {}
    /\ UNCHANGED <<issued, now, minted, backup, everActive, banned>>
    /\ ControllerOnly

ConfirmRecoveryReview ==
    /\ ctl.paused
    /\ ctl' = [ctl EXCEPT !.paused = FALSE]
    /\ confirmed' = TRUE
    /\ UNCHANGED <<world, everActive, banned, historic>>
    /\ OwnerOnly

Tick ==
    /\ now < MaxTime
    /\ now' = now + 1
    /\ UNCHANGED <<ctl, issued, minted, backup, restores, history>>
    /\ OwnerOnly

-----------------------------------------------------------------------------
(* Host.                                                                   *)

HostOnly == UNCHANGED <<ctl, world, history, faults>>
Goto(h, label) == pc' = [pc EXCEPT ![h] = label]

\* resolve_site_file: an active identity is recovered (its marker rebuilt when
\* it is missing), otherwise the pending DeviceKey is loaded or made.
CanRecover(h) ==
    /\ active[h] \in DeviceIds
    /\ record[h][active[h]] = active[h]
    /\ marker[h] \in {None, active[h]}
CanPrepare(h) == active[h] = None /\ pending[h] # Torn

Launch(h) ==
    /\ pc[h] = "off" /\ issued[SiteFile[h]] # None
    /\ \/ /\ CanRecover(h)
          /\ marker' = [marker EXCEPT ![h] = active[h]]
          /\ UNCHANGED pending
       \/ /\ CanPrepare(h)
          /\ pending' = [pending EXCEPT ![h] = h]
          /\ UNCHANGED marker
    /\ Goto(h, "start")
    /\ UNCHANGED <<record, activation, active, receipt, wire, orphans>>
    /\ HostOnly

\* One iteration of the activation loop up to its first send.
StartClaim(h) ==
    /\ pc[h] = "start" /\ marker[h] = None
    /\ wire' = [wire EXCEPT ![h] = Msg("claim", None)]
    /\ Goto(h, "claiming")
    /\ UNCHANGED <<disk, receipt, orphans>>
    /\ HostOnly

\* Mutant: the activation file is not checked against the marker.
ResumeActivationUnchecked(h) ==
    /\ pc[h] = "start" /\ marker[h] \in DeviceIds
    /\ wire' = [wire EXCEPT ![h] = Msg("persisted", activation[h])]
    /\ Goto(h, "persisted")
    /\ UNCHANGED <<disk, receipt, orphans>>
    /\ HostOnly

\* Mutant: the activation file is removed when "Persisted" is sent.
ResumeActivationForgets(h) ==
    /\ pc[h] = "start" /\ marker[h] \in DeviceIds
    /\ activation[h] = marker[h]
    /\ wire' = [wire EXCEPT ![h] = Msg("persisted", activation[h])]
    /\ activation' = [activation EXCEPT ![h] = None]
    /\ Goto(h, "persisted")
    /\ UNCHANGED <<pending, record, active, marker, receipt, orphans>>
    /\ HostOnly

ResumeActivation(h) ==
    /\ pc[h] = "start" /\ marker[h] \in DeviceIds
    /\ activation[h] = marker[h]
    /\ wire' = [wire EXCEPT ![h] = Msg("persisted", activation[h])]
    /\ Goto(h, "persisted")
    /\ UNCHANGED <<disk, receipt, orphans>>
    /\ HostOnly

NothingToResume(h) ==
    /\ pc[h] = "start" /\ marker[h] \in DeviceIds /\ activation[h] = None
    /\ Goto(h, "done")
    /\ UNCHANGED <<disk, receipt, wire, orphans>>
    /\ HostOnly

\* Mutant: "Persisted" is sent before the files are written.
ReceiveClaimedSendsFirst(h) ==
    /\ pc[h] = "claiming" /\ wire[h].kind = "claimed"
    /\ receipt' = [receipt EXCEPT ![h] = wire[h].dev]
    /\ wire' = [wire EXCEPT ![h] = Msg("persisted", wire[h].dev)]
    /\ Goto(h, "record")
    /\ UNCHANGED <<disk, orphans>>
    /\ HostOnly

ReceiveClaimed(h) ==
    /\ pc[h] = "claiming" /\ wire[h].kind = "claimed"
    /\ receipt' = [receipt EXCEPT ![h] = wire[h].dev]
    /\ wire' = [wire EXCEPT ![h] = Open]
    /\ Goto(h, "record")
    /\ UNCHANGED <<disk, orphans>>
    /\ HostOnly

\* write_or_verify_state and write_secret_state_create_new: create the file, or
\* find the same content in it.
WriteOrVerify(old, d) == old \in {None, d}

\* activate_with_network, one file at a time.  The calls are synchronous, so only
\* the death of the process comes between them.
PersistRecord(h) ==
    /\ pc[h] = "record"
    /\ IF WriteOrVerify(record[h][receipt[h]], receipt[h])
         THEN /\ record' = [record EXCEPT ![h][receipt[h]] = receipt[h]]
              /\ Goto(h, "activation")
         ELSE Goto(h, "failed") /\ UNCHANGED record
    /\ UNCHANGED <<pending, activation, active, marker, receipt, wire, orphans>>
    /\ HostOnly

PersistActivation(h) ==
    /\ pc[h] = "activation"
    /\ IF WriteOrVerify(activation[h], receipt[h])
         THEN /\ activation' = [activation EXCEPT ![h] = receipt[h]]
              /\ Goto(h, "promote")
         ELSE Goto(h, "failed") /\ UNCHANGED activation
    /\ UNCHANGED <<pending, record, active, marker, receipt, wire, orphans>>
    /\ HostOnly

PromoteActive(h) ==
    /\ pc[h] = "promote"
    /\ IF WriteOrVerify(active[h], receipt[h])
         THEN /\ active' = [active EXCEPT ![h] = receipt[h]]
              /\ Goto(h, IF active[h] = None THEN "unpend" ELSE "marker")
         ELSE Goto(h, "failed") /\ UNCHANGED active
    /\ UNCHANGED <<pending, record, activation, marker, receipt, wire, orphans>>
    /\ HostOnly

RemovePending(h) ==
    /\ pc[h] = "unpend"
    /\ pending' = [pending EXCEPT ![h] = None]
    /\ Goto(h, "marker")
    /\ UNCHANGED <<record, activation, active, marker, receipt, wire, orphans>>
    /\ HostOnly

PersistMarker(h) ==
    /\ pc[h] = "marker"
    /\ IF WriteOrVerify(marker[h], receipt[h])
         THEN /\ marker' = [marker EXCEPT ![h] = receipt[h]]
              /\ Goto(h, "send")
         ELSE Goto(h, "failed") /\ UNCHANGED marker
    /\ UNCHANGED <<pending, record, activation, active, receipt, wire, orphans>>
    /\ HostOnly

SendPersisted(h) ==
    /\ pc[h] = "send" /\ wire[h] = Open
    /\ wire' = [wire EXCEPT ![h] = Msg("persisted", receipt[h])]
    /\ Goto(h, "persisted")
    /\ UNCHANGED <<disk, receipt, orphans>>
    /\ HostOnly

\* verify_activated, then the ack; a sealed channel waits for one more reply.
ReceiveActivated(h) ==
    /\ pc[h] = "persisted" /\ wire[h].kind = "activated"
    /\ IF wire[h].dev # marker[h]
         THEN Goto(h, "failed") /\ wire' = [wire EXCEPT ![h] = Down]
         ELSE \/ Goto(h, "acked") /\ wire' = [wire EXCEPT ![h].kind = "ack"]
              \/ Goto(h, "confirm") /\ wire' = [wire EXCEPT ![h] = Down]
    /\ UNCHANGED <<disk, receipt, orphans>>
    /\ HostOnly

ReceiveConfirmed(h) ==
    /\ pc[h] = "acked" /\ wire[h].kind = "confirmed"
    /\ wire' = [wire EXCEPT ![h] = Down]
    /\ Goto(h, "confirm")
    /\ UNCHANGED <<disk, receipt, orphans>>
    /\ HostOnly

\* confirm_controller_activation
ConfirmActivation(h) ==
    /\ pc[h] = "confirm"
    /\ IF activation[h] \in {None, marker[h]}
         THEN /\ activation' = [activation EXCEPT ![h] = None]
              /\ Goto(h, "done")
         ELSE Goto(h, "failed") /\ UNCHANGED activation
    /\ UNCHANGED <<pending, record, active, marker, receipt, wire, orphans>>
    /\ HostOnly

\* BootstrapRejected is not retryable.
ReceiveError(h) ==
    /\ pc[h] \in Waiting /\ wire[h].kind = "error"
    /\ wire' = [wire EXCEPT ![h] = Down]
    /\ Goto(h, "failed")
    /\ UNCHANGED <<disk, receipt, orphans>>
    /\ HostOnly

\* A broken connection is retried by the activation loop.
RetryAfterDrop(h) ==
    /\ pc[h] \in Waiting \cup {"send"} /\ wire[h] = Down
    /\ Goto(h, "start")
    /\ UNCHANGED <<disk, receipt, wire, orphans>>
    /\ HostOnly

\* The program exits after an error it does not retry.
ExitFailed(h) ==
    /\ pc[h] = "failed"
    /\ Goto(h, "off")
    /\ receipt' = [receipt EXCEPT ![h] = None]
    /\ UNCHANGED <<disk, wire, orphans>>
    /\ HostOnly

-----------------------------------------------------------------------------
(* Faults.                                                                 *)

Fault == faults < MaxFaults /\ faults' = faults + 1

ConnectionBreaks(h) ==
    /\ Fault /\ wire[h] # Down
    /\ Abandon(h)
    /\ UNCHANGED <<ctl, world, history, disk, pc, receipt>>

Killed(h) ==
    /\ Goto(h, "off")
    /\ receipt' = [receipt EXCEPT ![h] = None]
    /\ Abandon(h)
    /\ UNCHANGED <<ctl, world, history>>

HostKilled(h) ==
    /\ Fault /\ pc[h] \notin {"off", "failed"}
    /\ Killed(h)
    /\ UNCHANGED disk

\* Killed after create_new and before the content is complete.
KilledInWrite(h) ==
    /\ Fault
    /\ \/ /\ pc[h] = "record" /\ record[h][receipt[h]] = None
          /\ record' = [record EXCEPT ![h][receipt[h]] = Torn]
          /\ UNCHANGED <<pending, activation, active, marker>>
       \/ /\ pc[h] = "activation" /\ activation[h] = None
          /\ activation' = [activation EXCEPT ![h] = Torn]
          /\ UNCHANGED <<pending, record, active, marker>>
       \/ /\ pc[h] = "promote" /\ active[h] = None
          /\ active' = [active EXCEPT ![h] = Torn]
          /\ UNCHANGED <<pending, record, activation, marker>>
       \/ /\ pc[h] = "marker" /\ marker[h] = None
          /\ marker' = [marker EXCEPT ![h] = Torn]
          /\ UNCHANGED <<pending, record, activation, active>>
    /\ Killed(h)

\* The same, in the file that resolve_site_file itself writes.
KilledInLaunch(h) ==
    /\ Fault /\ pc[h] = "off" /\ issued[SiteFile[h]] # None
    /\ \/ /\ CanRecover(h) /\ marker[h] = None
          /\ marker' = [marker EXCEPT ![h] = Torn]
          /\ UNCHANGED pending
       \/ /\ CanPrepare(h) /\ pending[h] = None
          /\ pending' = [pending EXCEPT ![h] = Torn]
          /\ UNCHANGED marker
    /\ UNCHANGED <<ctl, world, history, record, activation, active, pc, receipt,
                   wire, orphans>>

-----------------------------------------------------------------------------
Handler(h) ==
    \/ HandleFreshClaim(h) \/ HandleReplayedClaim(h) \/ HandleRefusedClaim(h)
    \/ HandlePersisted(h) \/ HandleRefusedPersisted(h) \/ HandleAck(h)

HostStep(h) ==
    \/ Launch(h) \/ StartClaim(h) \/ ResumeActivation(h) \/ NothingToResume(h)
    \/ ReceiveClaimed(h)
    \/ PersistRecord(h) \/ PersistActivation(h) \/ PromoteActive(h)
    \/ RemovePending(h) \/ PersistMarker(h) \/ SendPersisted(h)
    \/ ReceiveActivated(h) \/ ReceiveConfirmed(h) \/ ConfirmActivation(h)
    \/ ReceiveError(h) \/ RetryAfterDrop(h) \/ ExitFailed(h)

HostFault(h) ==
    ConnectionBreaks(h) \/ HostKilled(h) \/ KilledInWrite(h) \/ KilledInLaunch(h)

Owner ==
    \/ \E i \in Invites :
          InviteIssue(i) \/ InviteClose(i) \/ InviteRevoke(i) \/ InviteDelete(i)
    \/ \E d \in DeviceIds : DeviceRevoke(d)
    \/ ExportBackup \/ Restore \/ ConfirmRecoveryReview \/ Tick

Next == Owner \/ \E h \in Hosts : Handler(h) \/ HostStep(h) \/ HostFault(h)

Spec == Init /\ [][Next]_vars

\* The activation loop retries after a delay, the handler is an async task that
\* runs when its message arrives, and the person (or the service manager) starts
\* the program again after an exit.  Nothing makes a fault or an owner act.
Fairness == \A h \in Hosts : WF_vars(HostStep(h)) /\ WF_vars(Handler(h))
FairSpec == Spec /\ Fairness

-----------------------------------------------------------------------------
(* Invariants of one snapshot.                                             *)

\* A claim record and the device record of the same id agree, and both are
\* there together: every transaction that writes one writes the other.
ClaimDeviceAgree(s) ==
    \A d \in DeviceIds : /\ s.claim[d] = s.device[d]
                         /\ s.owner[d] = None <=> s.claim[d] = None

\* ControllerControlSnapshot.validate, and its converse for active devices:
\* the catalog lists exactly the devices that were activated and says of each
\* what the registry says.
CatalogAgree(s) ==
    \A d \in DeviceIds :
        /\ s.catalog[d] # None => /\ s.device[d] = s.catalog[d]
                                  /\ InviteOf(s, d) \in s.sites
        /\ s.device[d] = "active" => s.catalog[d] = "active"

\* No two live claims of an invite belong to the same DeviceKey.
OneClaimPerKey(s) ==
    \A d, e \in DeviceIds :
        s.claim[d] # None /\ s.claim[e] # None /\ s.owner[d] = s.owner[e] => d = e

\* A revoked invite leaves no usable claim behind.
RevokedIsDead(s) ==
    \A d \in DeviceIds :
        s.claim[d] # None /\ InviteOf(s, d) \in s.revoked => s.claim[d] = "revoked"

\* Claims stay within the pass: their number, its validity and the deployment
\* window that the first claim opens.
WithinPass(s) ==
    /\ \A i \in Invites : Cardinality(ClaimsOf(s, i)) <= MaxClaims
    /\ \A d \in DeviceIds : s.claim[d] # None =>
          LET i == InviteOf(s, d) IN
          /\ issued[i] <= s.at[d] /\ s.at[d] < issued[i] + ValidFor
          /\ s.first[i] # None /\ s.first[i] <= s.at[d]
          /\ s.at[d] <= s.first[i] \/ s.at[d] < s.first[i] + Window

-----------------------------------------------------------------------------
(* Properties.                                                             *)

Messages ==
    [kind: {"claim", "error", "down", "open"}, dev: {None}]
        \cup [kind: {"claimed", "persisted", "activated", "ack", "confirmed"},
              dev: DeviceIds]

Labels == {"off", "start", "done", "confirm", "failed"} \cup Waiting \cup Writing

\* Types of all state: in particular every message about a device names one.
TypeOK ==
    /\ ctl \in Snapshot /\ backup \in Snapshot \cup {None}
    /\ issued \in [Invites -> Nat \cup {None}]
    /\ now \in Nat /\ faults \in Nat /\ restores \in Nat
    /\ minted \subseteq DeviceIds /\ everActive \subseteq DeviceIds
    /\ banned \subseteq DeviceIds /\ historic \subseteq Invites
    /\ confirmed \in BOOLEAN
    /\ pending \in [Hosts -> Hosts \cup {None, Torn}]
    /\ record \in [Hosts -> [DeviceIds -> DeviceIds \cup {None, Torn}]]
    /\ activation \in [Hosts -> DeviceIds \cup {None, Torn}]
    /\ active \in [Hosts -> DeviceIds \cup {None, Torn}]
    /\ marker \in [Hosts -> DeviceIds \cup {None, Torn}]
    /\ pc \in [Hosts -> Labels]
    /\ receipt \in [Hosts -> DeviceIds \cup {None}]
    /\ wire \in [Hosts -> Messages]
    /\ orphans \subseteq Hosts \X Messages

\* No transaction is ever refused by the store's own validation, whatever order
\* claims, activations, revocations, deletions and restores come in.
StoreValid == ClaimDeviceAgree(ctl) /\ CatalogAgree(ctl)

\* A host that retries, crashes and claims again through several connections
\* never ends up as two devices ("double-click twice: still one DeviceId").
OneIdentityPerKey == OneClaimPerKey(ctl)

\* The registry is one the store accepts, with one identity for each host.
RegistryIsSound == TypeOK /\ StoreValid /\ OneIdentityPerKey

\* Revoking a whole invite leaves no claim that a late "Persisted" could activate.
RevokedInviteIsDead == RevokedIsDead(ctl)

\* No interleaving of claims, replays, restores and clock steps exceeds the pass.
ClaimsWithinPass == WithinPass(ctl)

\* An invite is obeyed: its limits while it is open, its revocation after.
InviteIsObeyed == RevokedInviteIsDead /\ ClaimsWithinPass

\* The Controller activates a device only when its host can survive any crash as
\* that device: identity, device record and marker are all on its disk.
HasMembership(h, d) == active[h] = d /\ marker[h] = d /\ record[h][d] = d
NoGhostDevice ==
    \A d \in DeviceIds :
        ctl.device[d] = "active" => HasMembership(ctl.owner[d], d)

\* A host that no longer has an activation to report (and so will never report
\* one again) is one the Controller did activate.
ConfirmedIsActivated ==
    \A h \in Hosts :
        marker[h] \in DeviceIds /\ activation[h] = None => marker[h] \in everActive

\* Host and Controller agree on who is a member, through every crash of the
\* host's file writes and every lost message.
BothSidesAgree == NoGhostDevice /\ ConfirmedIsActivated

\* What was revoked or deleted is authorized again only if an older backup was
\* restored and the owner confirmed its recovery review.
RevokedStaysOut ==
    \A d \in banned : Authorized(ctl, d) => confirmed

\* The bootstrap passes handed out before a restore enroll nobody new after it,
\* even those the backup is too old to know.
HistoricBootstrapClosed ==
    [][\A i \in historic :
          restores' = restores => ClaimsOf(ctl', i) \subseteq ClaimsOf(ctl, i)]_vars

\* While one state directory lives, "revoked" is final for a device.
RevocationIsFinal ==
    [][\A d \in DeviceIds :
          restores' = restores /\ ctl.device[d] = "revoked" =>
              ctl'.device[d] \in {"revoked", None}]_vars

\* A file of h that was created but not completed: nothing repairs it.
Wedged(h) ==
    \/ Torn \in {pending[h], activation[h], active[h], marker[h]}
    \/ \E d \in DeviceIds : record[h][d] = Torn

\* Nobody closes or revokes the invite of h or its device, and no restore happens.
Undisturbed(h) == SiteFile[h] \notin ctl.closed /\ banned = {} /\ restores = 0

\* Whatever breaks on the way, a host with an open invite ends up enrolled, unless
\* a kill tore one of its files.
EnrollmentCompletes ==
    \A h \in Hosts :
        [](issued[SiteFile[h]] # None => Undisturbed(h)) =>
            [](issued[SiteFile[h]] # None => <>(pc[h] = "done" \/ Wedged(h)))
=============================================================================
