# Clew: verification project

Clew lets an owner's *Controller* (a long-running process with a Local API for a
CLI, a GUI and an MCP agent) work on collaborators' machines. Each such machine
runs a *Host*: it is given a signed Site Kit, enrols once, and from then on keeps
an authenticated session to the Controller through which files are read and
changed, shell tasks run, files and directories transferred and TCP ports
forwarded. This directory holds TLA+ models of the parts whose correctness
depends on the order of steps of several actors, on crashes or on lost messages,
with TLC configurations for small instances and TLAPS proofs for all of them.

## 1. Inventory

| Component | Source | State | Operations and interactions | What is hard |
|---|---|---|---|---|
| Enrollment | `clew-identity/enrollment.rs`, `store.rs`; `clew-host/membership.rs`, `remote.rs`; `clew-runtime/remote.rs` (bootstrap), `local_api.rs` | Controller: registry of invites, claims and devices plus catalog, in one snapshot. Host: five files (pending key, device record, activation, identity, marker) | issue / close / revoke / delete an invite, revoke a device; claim → persist → activate → acknowledge over a bootstrap connection | kills between and inside file writes, lost messages, retries, revocation in the middle of an exchange |
| Backup and restore | `clew-identity/backup.rs`, `clew-runtime/backup.rs` | an exported snapshot | export, restore into an empty directory, recovery review | a restored snapshot is stale: it has forgotten revocations and claims |
| Control store | `clew-runtime/control.rs` | two slot files, the snapshot in memory | load, transaction, write of the other slot | torn writes, writes that fail but land |
| Remote hub | `clew-runtime/remote.rs` | `sessions`, `session_info`, `shell_tasks`, pending reservations, all under one mutex | register, unregister, disconnect, update_path; `handle_member` per connection; replay loops per Local API call | checks before an await used after it, late handlers of replaced sessions, clock jumps |
| Shell tasks | `clew-runtime/remote.rs`, `clew-host/shell.rs` | Controller projections with a reattach deadline; Host tasks with epochs | start, receipt, status / attach / cancel, detach, grace timers | two independent clocks of one grace period, proofs racing prunes |
| File mutation | `clew-host/read.rs`, `clew-runtime/remote.rs` | replay cache by request id, workers, the files | write / edit / create with preconditions, replay after Timeout or a lost session | at-most-once execution with a bounded cache, check-then-rename |
| Managed file system | `clew-host/managed_fs.rs` | a ledger file; temp directories, items in the system trash | create, copy, move, trash, restore, two-step purge, temp create / release / expire | load–change–save without a lock, crash between directory and ledger |
| Reads and queries | `clew-host/read.rs`, `clew-transport/fs_query.rs`, `local_api.rs` | none kept: a cursor in the caller's hands | read, path info, glob, grep, page by page | a tree that changes between pages, five different bounds that cut a page, late answers |
| File transfer | `clew-host/file_transfer.rs`, `clew-runtime/transfer.rs` | journals with two slots on each end, part files | begin, chunk, status, finalize, cancel, resume | journals and files out of step, duplicates, cancel racing finalize |
| Directory transfer | `clew-runtime/directory_transfer.rs`, `clew-host/directory_tree.rs` | manifest, completed prefix, a window of child transfers, a staging tree | scan, open, fill and poll the window, finalize, close, cancel, recover | permits shared by all trees, children that finish out of order, crash in the middle |
| TCP forward, SOCKS5, CONNECT | `clew-runtime/forward.rs`, `socks5.rs`, `http_connect.rs`, `clew-host/forward.rs` | listener tables, one task per local connection, the Host's connections | add, remove, open, exchange, close | a session lost in the middle of an exchange, who closes the Host's end |
| Site connector | `clew-transport/lease.rs`, `connector.rs`, `discovery.rs`, `nearby.rs`; `clew-host/remote.rs`, `lan_discovery.rs` | a lease, tunnels with their guards, a candidate queue | issue, renew, refresh presence, tunnel, discover, dial | three clocks, aborted tunnels, requests that delay timers |
| Sessions | `clew-transport/inner.rs`, `outer.rs`, `sealed_bootstrap.rs`, `rpc.rs` | handshake, transcript, sequence numbers | handshake, proofs, send, receive, RPC | packets lost, repeated, reordered or joined to the wrong peer; a read cut off inside a packet |
| Processes | `clew-runtime/controller.rs`, `lock.rs`, `clew-host/instance.rs`, `src/main.rs` | kernel lock, secret, local socket | start, wake the owner, quit | hand-over between two owners |
| Machine service | `src/service.rs`, `service/linux_system.rs`, `service/windows.rs` | account, credential, trees, unit or SCM entry | install, uninstall, enable, start, roll back | any step fails or is cut off |
| Outfits and site kits | `clew-runtime/outfit.rs`, `outfit_asset.rs`, `clew-distribution`, `local_api.rs`, `clew-host/site.rs` | outfit library in two slots, art, runtimes with active pointers, invites | edit, import, assemble and publish a kit, activate it on a Host | the profile is read twice, three mutexes, roll-back of an invite |
| Controller window | `src/gui.rs`, `src/studio.rs` | command and event queues, what is shown and waited for | every button, the worker thread, events | answers behind later clicks, other clients, errors without an address |
| Naming and selection | `clew-core/naming.rs`, `selection.rs` | none | unique names, selectors | string algorithms |
| Agents and commands | `src/mcp.rs`, `src/main.rs`, `clew-runtime/local_api.rs` | a loop over the items of a tool call; the Controller's task per request | single tools, batches, status, cancel, shell, forwards and proxies | permission and start are two steps, callers give up, full tables |
| Build helpers | `xtask` | none | packaging | I/O |

The parts meet in three places. The *control store* is the durable truth about
devices, and every Local API transaction and every bootstrap request goes through
it. The *remote hub* is the volatile truth about who is connected; requests find
their device there. The *Host* owns the effects (files, processes), and
remembers enough about requests to survive the loss of a session.

What correctness means for each modelled component is stated in section 3; the
lines at which the code is exposed to hazards are listed in `PROJECT.json`
("hazards").

## 2. Modules

| Module | What it is |
|---|---|
| `Enrollment`, `MCEnrollment` | Controller snapshot, bootstrap protocol, Host files, owner, backup |
| `DurableRegister` | abstract: a register whose acknowledged value is never lost |
| `ControlStore` | the two slot files; implements `DurableRegister` |
| `RemoteHub` | the hub's methods, as functions on `RemoteHubState` |
| `SessionGate`, `MCSessionGate` | `handle_member`, revocation and replay loops over `RemoteHub` |
| `ShellTasks`, `MCShellTasks` | Shell tasks on Controller and Host over `RemoteHub` |
| `MutationReplay`, `MCMutationReplay` | mutations: replay loop, Host cache, workers, files |
| `HostFileTransfer` | the Host's transfer store, part file, destination and session channel |
| `FileTransfer`, `MCFileTransfer` | the Controller's transfer manager and worker over `HostFileTransfer` |
| `DirectoryTransfer`, `MCDirectoryTransfer` | trees on top of single transfers: window, permits, staging tree |
| `ManagedFs`, `FsQuery` | the ledger; reads and paged queries |
| `TcpForward`, `SitePath`, `InnerSession` | forwarded streams; leases, tunnels and path windows; the session itself |
| `SingleInstance`, `MachineService` | owning a state directory; the operating-system service |
| `SiteKit`, `ControllerWindow`, `LocalCalls` | from outfit to running Host; the desktop window; agents and commands |
| `MCFleet` | the ten modules from `ManagedFs` on: the first state chooses which of them runs |
| `SessionGateProofs`, `ShellTasksProofs`, `EnrollmentProofs`, `MutationReplayProofs`, `FileTransferProofs`, `DirectoryTransferProofs`, `FleetProofs`, `AgreementProofs` | theorems, see section 4 |

Modules compose where the code shares state: `SessionGate` and `ShellTasks` extend
`RemoteHub`, `FileTransfer` extends `HostFileTransfer`, `ControlStore` implements
`DurableRegister`. The ten modules of `MCFleet` share nothing with each other, so
interleaving them would only multiply state spaces; a run explores their sum.

Definitions whose name ends like a variant of another one just below them
(`UnregisterAny` above `Unregister`) are faulty forms of that definition. They are
not used by the specifications; `PROJECT.json` ("mutants") says which property
each of them must break. Some properties are conjunctions of named parts
(`RegistryIsSound`, `InviteIsObeyed`, `BothSidesAgree`, `TaskIsProved`, `ReplayIsExact`,
`DeliveryIsTrue`, `WindowIsKept` and those of `MCFleet`); there the remaining faulty
forms break the other parts.

### Enrollment

`ctl` is the `ControllerControlSnapshot`; `RegisterPass`, `Claim`, `Finalize`,
`CloseInvite`, `RevokeInvite`, `DeleteInviteHistory` and `RevokeDevice` are the
transactions of `EnrollmentRegistry` and the catalog, each a function from
snapshots to snapshots, so that a transaction is one atomic step, as under the
store's mutex. `pending`, `record`, `activation`, `active` and `marker` are the
Host's files; each write is a step, and `KilledInWrite` leaves a file torn
(`create_new` without rename). `pc[h]` follows
`complete_networked_activation_with_window` and its callers; `wire[h]` holds the
message in flight, and `orphans` the requests which the Controller still reads from a
connection the Host has given up. An invite stands for its site too, because `InviteIssue` always
makes a fresh SiteId. Every key, signature and token is right: hosts
are honest.

### Control store

`slot` holds what a reader would find in each file: missing, torn, or a document
with a generation and a value. A write truncates in place, so a failed or
interrupted one leaves the old document, a torn file or the new document;
`WriteFails` tells the caller so although the document may have landed, and a later
load may adopt it. That is why `DurableRegister` has a value *in doubt* next to the
acknowledged one.

### Remote hub, session gate

Every `RemoteHub` method runs under one lock, so it is a function on hub states.
`SessionGate` has one record per connection (`conn`) that walks through
`handle_member`: authorization in the handshake, lease, register, registration
probe, serving, unregister. Revocation is two steps (commit, disconnect) as in
`dispatch`. `lost` is a broken `SessionContinuity`. `req` is a replay loop of
`read`, `fs_query`, `fs_mutation` or `directory_tree`: waiting for a
generation other than the failed one, queued in a channel, on the wire; a caller
that gives up leaves its command behind in the channel. Time is constant here
(`Now`), since no Shell projection exists in this module.

### Shell tasks

`hub` is the Controller, `host` and `task` the Hosts. A call walks through
`shell_start` (reserve, send, release, insert, receipt) or `shell_task`
(look up, await a session, prove, send). `alive` holds the sessions whose `handle_member`
loop runs and `host[d]` the Host's current epoch: the two sides notice the end of a session
separately. Both grace
periods are counted on a common clock `now`.

### Mutations

`entry` and `stamp` are the `MutationReplayCache` (what is known of a request, and
the `sequence` of its entry, by which the oldest completed one is evicted), `hung` the places in it taken by
older requests whose thread never returns, `worker` the blocking tasks,
which outlive the session and the Timeout answer, `file` the targets. A worker
checks the precondition and renames in separate steps. `applied` and `forgot` are
history: the cache is volatile, so a restart (or an eviction) may lead to another
execution, a limitation the checkpoint document states; within one memory there
is none.

### File transfer

`HostFileTransfer` has one transfer: its entry in memory (`host`), what the newest
valid journal slot says (`hostJournal`), the part file and the destination with its
rename candidate. Begin, chunk, finalize and cancel are split where the code writes
the journal, the part or the destination, and each write may fail, land although it
failed, or be cut off by a crash. `chan` is the session: requests in order, the first
with the Host; answers may be lost with it. `FileTransfer` adds the manager's entry,
its journal, the worker task `w` with its retry loop, `cancel()` in its two critical
sections and the watch channel. `job` chooses direction, conflict policy and what the
scenario may do (faults, foreign writers at the destination, a source that changes),
so that each scenario stays small. Hashing a file is one step, and deleting a part
succeeds. `lapse` is history: a Controller that dies between a get's rename and its
last journal write has forgotten the delivery and may deliver again under another name.

### Directory transfer

`mem` and `journal` are a tree's record in memory and on disk, `pc`, `loc` and `holds`
its worker with the permits it holds, `child` the single-file manager's entry for
each file, `disk` staging and final tree. The worker scans, opens the tree on the Host, fills its
window (one permit, one reserved record and one child at a time), polls, counts a
completed prefix, finalizes and closes. A child is only what its parent sees of it;
its own steps are `FileTransfer`'s. The 50 ms poll is a stutter, and journals from
before windows existed are left out.

### The ten components of `MCFleet`

* `ManagedFs`. `fsJob` is what each worker executes, step by step: probe, place, load
  (a copy of the ledger), work on the system trash or a directory, save. `fsExcused`
  remembers that requests overlapped or failed: then the code promises less, and so
  does `LedgerMirrorsDisk`; `PurgeWasPrepared` holds throughout.
* `TcpForward`. `fwPort` are the three managers' listeners, `fwTask` the task of a
  local connection (negotiate, open, pump, finish), `fwQueue` the commands in the
  session, `fwHost` the connections the Host keeps. Bytes are numbered, so a stream is
  intact when it is 1, 2, 3, …
* `SitePath`. The Controller's clock `spNow` and the helper's, `spLag` behind it;
  `spHelper` walks from the lease to renewal, `spTunnels` and `spDying` are the tunnels
  and the guards of aborted ones, `spWin` the target's dial window with its queue.
* `MachineService`. A command is the plan of its steps, in the order of the code; each
  step succeeds, fails with or without its effect, or is the last one before a kill.
  The deferred cleanup on Windows looks for an entry and deletes the directory in one step.
  Administrators may reuse the account name or delete the directory in between.
* `SingleInstance`. Lock, secret and socket with the process that made them; starts,
  wake frames, quits (fields dropped in declared order) and kills of several processes.
* `SiteKit`. The library with its two slots, stores of art and runtimes, a kit request
  that reads the profile, chooses the runtime, issues the invite (reading the profile
  again), assembles, publishes three files and on failure closes the invite.
* `FsQuery`. A small tree with a link to its root, a name that is not UTF-8 and
  files with lines; the Host's queue walk entry by entry while others change the tree,
  and the Controller's authorization, time limit and reply checks around it.
* `InnerSession`. Two links, so that the carrier can join wrong ends; per end the
  stage, transcript, counters and what was sent and received. Noise is
  external: a packet opens only under the transcript and counter it was sealed with.
  A device is let in (`AcceptProof`, stage "registering") before its session is
  registered (`Register`), and a revocation is committed (`Revoke`) before the hub
  disconnects the registered session (`Disconnect`, `Stop`); `isCut` remembers which
  sessions a disconnect stopped and which it missed.
* `ControllerWindow`. The Controller as its Local API shows it, two queues, the worker
  (a refresh is several calls, every other command one step), `ControllerApp` and
  `StudioState`. The user stays on one page of the window.
* `LocalCalls`. `lcTool` is the tool call or command each caller executes, a loop over
  items with one request each; `lcCalls` are those requests with the task that serves
  each of them in the Controller, where the authorization (under the control store's
  mutex) and the start (without it) are two steps; `lcWork` is what became of the
  transfer, listener or task a request makes, in a table of bounded capacity that
  forgets ended entries; the worker of a transfer may write its own phase over the mark
  of a cancel (`WorkGoesOn`), as the workers of `FileTransfer` and `DirectoryTransfer` do. Answers get lost, callers stop waiting, shell starts arrive
  after the Controller gave up on them, the device goes offline or is revoked. There is
  one device, an instance uses the managers of one kind, a call that is refused before
  its first request is a guard, and the reasons a start fails for are chosen. The
  transfers, listeners and tasks themselves are the business of the other modules.

## 3. Runs

| Run | Instance | Shows |
|---|---|---|
| `enroll_shared` | 3 hosts, 1 invite for 2 claims, clock 0..2, 1 fault | registry and catalog agree and give one device per key (`RegistryIsSound`), never more devices than the pass allows, none after expiry or window and nothing alive under a revoked invite (`InviteIsObeyed`), revocation is final |
| `enroll_restore` | 1 host, 1 restore, 4 faults | no host believes in a device the Controller never issued and a confirmed host is active (`BothSidesAgree`); after a restore revoked devices stay out until review and old passes enrol nobody; `EnrollmentCompletes` |
| `store` | 3 values, 4 generations | durability, refinement of `DurableRegister`, restart after every acknowledged write |
| `gate` | 1 device, 3 connections, 1 request, 1 clock jump | telemetry, slots leave for a cause and are given back, waiters move on |
| `shell` | 2 devices, 1 task, 2 calls, 2 sessions, clock 0..2, 1 restart | reservations, attachment, proofs and receipts (`TaskIsProved`), grace |
| `mutation` | 2 requests, cache of 2 with 0 or 1 hung places, 1 break (lost session or restart), 1 Timeout | eviction spares running work, one execution per memory, creations replace nothing (`ReplayIsExact`); answers tell the truth; a patient caller is answered |
| `transfer` | files of 2 chunks, 2 sessions, six scenarios (`AllJobs`): both directions, all three conflict policies, an edited source, a foreign file, up to 2 faults | nothing of another program is overwritten, a destination holds all of one source version or is untouched (`DestinationSafe`), completion means delivery, once (`DeliveryIsTrue`), a cancel reported without a warning leaves nothing behind (`CleanCancel`), confirmed chunks are on disk through every crash, the worker settles if its device keeps coming back |
| `directory` | 2 trees of 3 files, window 2, 3 permits, 11 plans (`AllPlans`): crash with edit, foreign file, lost answer, cancel, fault or prune, and two trees at once | the final tree is whole and of one version (`TreeIsWhole`), the window is kept (`WindowIsKept`), every tree settles |
| `fleet` | each of ten components on its own | the eleven properties of `MCFleet`, stated there; for callers `CallsAreHonest`: what they are told was done was done, once, by their own request, with authority, and nothing told as ended runs again |
| `gate_revoke`, `mutation_stale`, `directory_budget` | the same modules | expected violations, see below |

*Bounds.* Faults, restarts, clock ticks and generations are bounded by constants
named `Max...`, which appear only in guards. Claims interact through the pass and
its counter, so three hosts and two claims let every host lose the race; the
faults matter per host, so the run with one host has four of them. Three
connections of one device are the smallest number in which a late handler meets
neither the generation before it nor the one after it; sessions of different
devices share only the generation counter, and the theorems of section 4 cover any number of
devices. A cache of two with a hung place is a cache at its limit. The Shell
clock runs one tick past a grace period of one tick, on either side of a reconnect.
Two chunks make a first, a last and a repeated one. Two trees with three permits
contend for the last one and cannot lock each other out; with two they can. In
`fleet`: two workers and three requests on one ledger item; one connection of two
bytes per stream over two sessions; a lease of three ticks with a margin and a skew of one
and a helper up to that far behind; six lifecycle commands; two processes and five
starts; two kit requests under one name, two revisions and one runtime; trees of five
entries and two levels, pages of one or two entries; two links with two calls and one
fault; three clicks, one foreign change and one failing call per page of the window;
two callers with two requests, batches of two, and tables of one, so that the second
start meets a full table.

*Deadlock* checking is off where the system may stop: hosts are enrolled, calls
answered, bounds used up.

*Fairness.* Only steps the program itself schedules are fair: tokio tasks whose
future is ready or whose timeout expires, the retry loops, and, for `EnrollmentCompletes`
and `ComesBack`, that somebody starts the program again. Faults, owners
and networks are never fair. `WaiterMovesOn` and `CallIsAnswered`
therefore say "answered, or offline, or the caller left". `WorkerSettles` and
`TreeSettles` are about transfers, whose workers wait for a new session: they assume
that a stopped process is started again and that the Host's reconnect loop, which
never gives up, gets through in the end. A tree's worker is strongly fair,
because tokio's semaphore serves its waiters in order; its permits come and go
while it waits.

### Where documents and code disagree

Each is a run with an expected violation and an entry under "findings":

* `gate_revoke`: a device revoked between the authorization check and
  `register` ends up online (`remote.rs:1460`). Each Local API request is still
  refused; the session itself is not ended.
* `mutation_stale`: two workers of one Host pass the same precondition
  (`read.rs:938`). `CreateNeverClobbers` holds because that rename is exclusive.
* `directory_budget`: trees fill their windows from one semaphore and hold what they
  have while they wait for more, so several of them can wait for each other
  (`directory_transfer.rs:1323`).

### Observations

What modelling showed beyond these, with no run of its own. Where the model
has a definition that states the expectation, it is named. Properties that hold are
stated so that these cases are their explicit exceptions.

* *Session table.* A clock jump before the registration pong leaves a slot without a
  handler until the device reconnects (`remote.rs:1530`, `OnlineIsServed`).
* *Control store.* A torn first slot stops every later start, although nothing was
  ever acknowledged (`control.rs:150`).
* *Shell.* A Status proof that reaches the Host just as the Controller prunes the
  projection spares a task nobody can name any more (`remote.rs:754`). The
  reservation of a Start is released before its projection is inserted
  (`remote.rs:601`), so the projections may exceed the cap by the Starts in between.
* *File transfer.* A cancel answered with an error leaves the transfer Cancelling for
  good (`transfer.rs:2103`, `CancelLands`). The Host deletes the part before it
  journals the cancel (`file_transfer.rs:1292`, `JournalNeverLeadsPart`). A failed put
  is never cancelled on the Host and keeps one of its sixteen places. A journal that
  claims more than the part holds makes the Host refuse its whole store.
* *Directory transfer.* A put recovered in Finalizing whose answer was lost finds its
  staging tree gone and fails although it is delivered (`FinalizedPutIsFound`). One invalid record blocks the
  whole snapshot. A cancel that is acknowledged, overwritten by Running and followed
  by a crash is forgotten.
* *Ledger.* The limit is checked on load only (`managed_fs.rs:597`), so one item too
  many makes the ledger unloadable. `trash_path` deletes before the ledger is read;
  copy and move check and then act.
* *Forward.* A removed listener, and an application that leaves a proxy before its
  success reply, leave a connection open on the Host until the session ends.
* *Paths.* A presence refresh without mDNS ends the session (`clew-host/remote.rs:1578`,
  `MdnsIsOptional`). A running request delays the renewal timer, so tunnels may
  outlive their lease. A helper whose clock lags by more than the skew never gets a
  valid lease.
* *Sessions.* The Host's `select!` drops a half-read packet when another branch is
  ready first: the next read is garbled and the session ends; no wrong data gets
  through.
* *Queries.* A change of the tree between two pages skips or repeats entries. The
  scan budget of grep starts anew with each page, so matches beyond it are never
  reached. A grep reply may exceed `max_bytes` by the digits of `scanned_bytes`
  (`PayloadWithinBudget`).
* *Services.* An uninstall that is interrupted after the account is gone cannot be
  resumed, nor can an install (`linux_system.rs:291`, `UninstallFreesInstall`). A
  Windows install killed before its metadata is written can be neither removed nor
  repeated.
* *Instances.* A broken wake frame ends the Host's ownership while it runs
  (`instance.rs:335`, `OwnerUntilExit`).
* *Kits.* An import killed while staging leaves a directory at which listing
  fails from then on (`clew-distribution/lib.rs:793`). The active pointer is removed before it is renamed
  into place. A kill between issue and publication leaves an open invite without a kit.
* *Window.* Any error clears the spinners of commands that are still queued, so a
  second kit can be requested. A failed `OutfitShow` leaves the selected outfit without
  a profile, and selecting it again does nothing. A newer revision seen in a snapshot
  discards an unsaved draft. After a refused shutdown the worker has ended and the
  window can no longer exit Clew (`gui.rs:634`, `ExitLeaves`).


## 4. Proofs

TLAPS checks the following for every value of the constants that satisfies the
named assumptions: numbers are natural, sets of names do not contain the word that
stands for "none", a job is a `Job` (`HubAssumption`, `GateAssumption`, `ShellAssumption`,
`StoreAssumption`, `ConstantsAssumption`, `ReplayAssumption`, `HostFileAssumption`,
`FileAssumption`, `DirectoryConstants`, `FleetAssumption`). No bound of a run is assumed: the bounds on
faults, restarts, edits, sessions and clocks are arbitrary, and so is the number of hosts,
devices, requests, connections, processes and chunks.

* **`SessionGateProofs`**: `GateTypeOK`, `TelemetryAgreesThm`,
  `ReplayMovesForwardThm`, `SlotIsGivenBackThm` and the action property
  `SlotLeavesForCauseThm`. The
  inductive invariant adds that slots hold issued generations only and that the slot
  of a request's device never falls behind the generation the request used last
  (`Forward`): "other than the failed one", which is what the code tests, then means
  "newer". `SlotIsGivenBack` needs besides that a connection cannot have
  lost its continuity before it is registered (`FreshConns`). What each method of
  `RemoteHub` preserves stands at the head of this module and of the next, each as far
  as its theorems need it.
* **`ShellTasksProofs`**: `ShellTypeOK`, `ReservationsCountedThm`,
  `AttachedIsLiveThm`, `TaskIsProvedThm`, `UnprovedOrphanDiesThm`. The first invariant ties `pending` to the
  number of calls in state "start", the shape of a call to its program counter, and
  every attached projection to the session in the slot. `Provenance` then follows a
  task from its Host to the Controller: epochs grow, what a call at each of its awaits
  knows of a task (`Knows`) was true in the epoch it was said in, and a projection is
  bound only to what was proved there. `Custody` says who answers for a running task:
  while the session it was started in is there on both sides (`InCare`) a call that
  nobody can cut short, or a projection that does not expire; after that a grace timer
  of its Host that counts it (`TimedOK`). `UnprovedOrphanDies` alone is not inductive,
  because a projection could be dropped under a task in care by a late answer, a
  timeout or a clean-up: `HarmlessOK` rules each of these out.
* **`EnrollmentProofs`**: `RegistryIsSoundThm`, `InviteIsObeyedThm`, `BothSidesAgreeThm`,
  `RevokedStaysOutThm` and the action properties `RevocationIsFinalThm`,
  `HistoricBootstrapClosedThm`. Each transaction is first shown, as a function, to keep
  a snapshot `Sound`. The inductive invariant demands this of the live snapshot *and*
  of the backup (a restore brings the latter back), says for each program counter of
  a host which of its files exist and what they name (`HostsOK`), that every message on
  the wire or left by a given-up connection names a device its own host was given,
  that the owner of a claim is the only host that knows its device (`OwnersOK`), and
  that an active device's files are all on disk in either snapshot (`GhostsOK`): without
  the backup's share a restore would break it.
  The last section of the module is about the store underneath: `StoreTypeOK`,
  `AckedIsDurableThm`, `StoreRefinesRegister`. There the invariant that is checked is not
  inductive because a write in progress destroys one slot: the proof needs to know that the
  acknowledged generation is in the *other* slot, that the slot a generation goes to is
  decided by its parity, and that no slot holds more than one generation beyond it.
  The refinement maps the value in doubt to the document in the next slot.
* **`MutationReplayProofs`**: `ReplayIsExactThm`, `ReplyTellsTruthThm`. A request that the
  Host does not know, or whose worker has not persisted yet, has reached the disk at most as
  often as it was forgotten (`Once`); worker, cache and caller agree with the disk
  (`Truth`); nothing happens for a request before it is issued or after its answer
  (`Loop`). The cache bound uses cardinalities of finite sets.
* **`FileTransferProofs`**: `DestinationSafeThm`, `ConfirmedIsOnDiskThm`,
  `DeliveryIsTrueThm`, `CleanCancelThm`. The first invariant (`FtInv`) says which requests can be on their way in which direction, that only the first
  is answered and only the last is waited for, and what the Host's entry,
  its journal and the part say of each other at each step of a request: a part that
  is `ready` is whole, an active entry between requests is journaled and tied to its
  part. `ConfirmedIsOnDisk` is not inductive because the part could go away under the
  worker: it does not, since while a put counts chunks no Begin and no
  Cancel of it can be in the channel, also not one that a former worker gave up, and a
  Host that restarts takes up a part that its journal is tied to (`Held`).
  The last two need a second invariant, `DlInv`, that follows a claim from where it
  becomes true to where it is shown: only a rename puts a file of ours in place
  (`DestTold`); whoever renamed remembers it, in memory or in a journal that leads a restart
  to `completed` (`PutTold`), so that a repeated Finalize renames nothing again; an answer
  on its way says what is so until it is read (`ChanTold`); and a worker that
  reported completion or a clean cancel has nothing on its way that could undo it
  (`Quiet`, `Bare` in `CtlTold`). These two assume `Total > 0`: another program's file
  is modelled as empty data, which for a file of no chunks a restart could not tell from the
  file it renamed itself. The code compares hashes, so for an empty file it would be right
  either way, but the model says less about it.
* **`DirectoryTransferProofs`**: `DirectoryTypeOK`, `TreeIsWholeThm`, `WindowIsKeptThm`.
  None of the two is inductive, because a Controller that restarts believes its journal, and
  a worker believes what it saw an await ago. The invariant therefore asks of *every* entry,
  in memory and in the journal alike, that it `Stands`: the prefix, and the children of the
  window flagged as done, are on the disk unless the tree was thrown away; each child that
  was started has its place in it; Completed names a tree that is in place. `Sound` says of
  the disk that what was delivered is in the staging tree or the final one, and that a
  final tree is of one version. `Knows` says what a worker may rely on at each of
  its steps: until it ends, its entry is not settled; inside the window the journal has as
  many places as memory; a child seen completed in this round is delivered. All of these speak
  of one tree as a value, so a step of another tree is dealt with by one lemma. The budget
  is the cardinality of a set of pairs, and that `FrontDone` has the maximum it chooses is
  proved by the least-number principle of `WellFoundedInduction`.
* **`FleetProofs`**: components of `MCFleet`. A component's variables change only in its
  own steps, so each has an invariant of its own.
  `OwnerKeepsItsEndpointThm` (what a process holds at each step of its start and of its
  drop). `LeaseIsObeyedThm` (the renewal comes before the end, tunnels exist only
  while the helper helps, guards of aborted ones only after it went down, a window
  dials directly only in the automatic mode). `LedgerIsSafeThm` (every
  ledger copy a worker holds names prepared purges only; while nothing overlapped or
  failed there is one worker, and at each step `OnItsWay` says what ledger and disk still
  owe each other). `StreamsAreIntactThm` and `HostConnectionIsOwnedThm` (at most one
  exchange of a connection is on its way, and its bytes continue what the destination
  has; a connection at the Host has a task of this session that will close it, or a
  Close in the queue). `InstallationIsSoundThm` (for each of the plans of a lifecycle
  command and each step of it, what is on the machine when that step is next:
  `MsCommand`. That a rollback leaves nothing behind, and that a started
  service finds everything it needs, are not inductive without it, because a step fails
  or the helper is killed between any two of them). `KitIsSoundThm` (`KtInv`: one of the two
  slots holds the library the store stands for, no older than what was acknowledged, and the
  other holds something torn, something older, or the next generation, which a crash left
  behind unacknowledged (`KtKept`, `KtBeside`); whatever is staged, archived or installed
  was built for the profile that its site signs, with art the store has (`KtBound`); and
  an invite that is still open is named by a request that runs, was reported, or stayed open
  where the code says that it could not close it: `NoStrayInvite`).
  `PagingIsExactThm` (`FqInv`: while pages follow, the cursor is the number of matches the
  application has; a call that was sent has its own command in the session, at that
  cursor, so no reply of a call given up before is taken for it; a page that promises
  another one is not empty). It is the part of `PagesAreExact` that does not depend on
  what the walk finds.
* **`AgreementProofs`**: the components of `MCFleet` in which one side goes by what another
  told it. `CallsAreHonestThm` (what a caller reports is tied to the request that it came
  from, a request to what it made, and that to the right it was made under; nobody waits
  for a request that is settled, and a request that is not is waited for, was given up or
  was recorded as failed: `LcInv`).
  `PeersAgreeThm`: the carrier may deliver anything that was ever made to any end, so the
  invariant `IsInv` says what was made. A transcript determines both of its ends
  (`IsKeyed`, `IsPartner`); every packet on a wire is one that an end made, and a data packet
  is the i-th that its sender put, under the sender's transcript (`IsPackets`); what opens is
  therefore the next one that the partner put, and what an end was given stays the beginning
  of it (`IsHeard`). An open device holds a transcript whose acceptor is the pinned
  Controller. An open Controller's end names the device that holds the other end
  (`IsTrusts`), which is in, or is about to be disconnected, or whose session was told to
  stop, or was missed because it was let in and not yet registered (`IsIn`). A caller has been given one reply less than it
  made calls while it waits for one, and as many otherwise (`IsNumbered`).
  `WindowIsTrueThm`: the window believes what its worker's queues still carry, so `WnInv`
  speaks of every command and event in them. Lists show as closed only credentials that
  are, and a closed one never opens again (`WnTrue`); a profile on its way is not older
  than the catalog the window will have read by then (`WnOrdered`), so what is shown stays
  the selected outfit, in the newest version the window knows (`WnShown`); and what a
  spinner waits for is a command in the queue or an event on its way, unless the worker
  has ended (`WnSpins`).

Only model-checked: all liveness (fairness and ENABLED are out of the prover's
reach), and of the invariants `PagesAreExact`, beyond what `PagingIsExactThm` says of it:
that the pages together are the matches in order speaks of what sorting and
selecting compute over trees and sequences of any size, which needs induction over data.

## 5. Not modelled

Cryptography and wire formats (a message is what its receiver makes of it),
contents of files, regular expressions, output of shell tasks, names and selectors
(string functions), layout and read-only pages of the windows, archive formats, ACLs
and unit texts, argument parsing and presentation of the CLI and the MCP server, build
helpers, dishonest peers, and file-system failures other than
the ones named. Within the modelled parts: `DeviceRename`, a clock that regresses
under a pass, `site.revoke` (documented, without a caller), exhaustion of the 2^64
packet counter, two lifecycle commands at once, and journals of earlier formats. The
look for an entry and the tries to delete the directory in Windows' deferred cleanup are
one step (windows.rs:571-590): a service installed in between may lose its directory in the
code. The component list in `PROJECT.json` gives the reason for each part.

## 6. Plan

1. Done: all modules of section 2.
2. Done: the theorems of section 4.
3. Further modelling, if the code grows that way: the role launcher's acceptance state,
   the reconnect back-off of the Host, naming and selection against reference
   definitions.
