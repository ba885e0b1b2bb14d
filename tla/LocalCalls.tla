----------------------------- MODULE LocalCalls -----------------------------
(***************************************************************************)
(* What agents and commands ask of the Controller through its Local API:   *)
(* transfers one by one and in batches, shell tasks, forwards and proxies. *)
(* A tool call is a loop over items in the caller's process; every item is *)
(* one request on a connection of its own.  The Controller serves each     *)
(* connection in a task: it asks the control store for permission, lets go *)
(* of it, and only then starts what was asked; the caller may have stopped *)
(* waiting by then, and the device may have been revoked.                  *)
(* One device.  A request is its number, and that is also the id of the    *)
(* transfer, listener or task it makes.  A tool call that is refused before*)
(* its first request changes nothing, so those refusals are the guards.    *)
(* What fails on the way to the Controller or in its journal is chosen.    *)
(* The managers share nothing, so an instance uses those of one kind.      *)
(***************************************************************************)
EXTENDS Naturals, Sequences, FiniteSets

CONSTANTS Callers,       \* tool calls and commands that run at the same time
          MaxLocalCalls, \* requests sent (bound)
          MaxBatch,      \* MCP_MAX_TRANSFER_BATCH_ITEMS, MCP_MAX_TRANSFER_STATUS_ITEMS
          TableCap       \* capacity of each manager's table

VARIABLES lcUse,         \* the managers this instance is about
          lcDevice,      \* the device: its standing, whether it is online, its grant and policy
          lcTool,        \* the tool call each caller executes
          lcCalls,       \* the requests, with the state of the task that serves each
          lcSent,        \* requests sent so far
          lcWork,        \* what became of the thing each request makes
          lcWire,        \* shell starts on their way to the Host
          lcTold,        \* history: the phases callers were told
          lcEnded,       \* history: what has ended
          lcLog          \* the activity list

lcVars == <<lcUse, lcDevice, lcTool, lcCalls, lcSent, lcWork, lcWire, lcTold, lcEnded, lcLog>>

Ids == 1 .. MaxLocalCalls

Puts == {"file_put", "directory_put"}
Gets == {"file_get", "directory_get"}
Adds == {"forward_add", "socks5_add", "http_connect_add"}
Starts == Puts \cup Gets \cup Adds \cup {"shell_start"}

\* The manager that keeps what a request makes or names.
Manager ==
  [file_put |-> "file", file_get |-> "file", file_status |-> "file",
   file_cancel |-> "file",
   directory_put |-> "directory", directory_get |-> "directory",
   directory_status |-> "directory", directory_cancel |-> "directory",
   forward_add |-> "forward", forward_remove |-> "forward",
   socks5_add |-> "socks5", socks5_remove |-> "socks5",
   http_connect_add |-> "http_connect", http_connect_remove |-> "http_connect",
   shell_start |-> "shell", shell_status |-> "shell", shell_cancel |-> "shell"]

Statuses == {"file_status", "directory_status"}
Cancels == {"file_cancel", "directory_cancel"}
Removes == {"forward_remove", "socks5_remove", "http_connect_remove"}
Followups == {"shell_status", "shell_cancel"}

Rights == {"read", "write", "tcp_egress", "shell"}

NoTool == [at |-> "idle", items |-> <<>>, probed |-> 0, call |-> 0, got |-> <<>>]

\* A request: whose it is and what for; how far its task is, its answer (the
\* phase it tells, or that it failed), whether the caller still waits, and
\* whether it was authorized while the device was active.
NoCall == [by |-> 0, kind |-> "none", of |-> 0, at |-> "done", answer |-> "none",
           lost |-> FALSE, early |-> FALSE]

LcInit ==
  /\ lcUse \in {{"file", "directory"}, {"forward"}, {"socks5"}, {"http_connect"}, {"shell"}}
  /\ \E limit \in {"none", "grant", "policy", "connector"} :
       /\ limit = "policy" => "file" \in lcUse
       /\ lcDevice =
            [standing |-> "active", online |-> TRUE, execute |-> limit # "connector",
             roots |-> limit # "policy",
             grant |-> IF limit = "grant" THEN {"read"} ELSE Rights]
  /\ lcTool = [a \in Callers |-> NoTool]
  /\ lcCalls = [i \in Ids |-> NoCall]
  /\ lcSent = 0
  /\ lcWork = [i \in Ids |-> "none"]
  /\ lcWire = {}
  /\ lcTold = [i \in Ids |-> {}]
  /\ lcEnded = {}
  /\ lcLog = {}

-----------------------------------------------------------------------------
(***************************************************************************)
(* The authority of the device, as the control store has it now.           *)
(***************************************************************************)
MayExecute == lcDevice.standing = "active" /\ lcDevice.execute

MayPut == MayExecute /\ "write" \in lcDevice.grant /\ lcDevice.roots
MayGet == MayExecute /\ "read" \in lcDevice.grant /\ lcDevice.roots
MayEgress == MayExecute /\ "tcp_egress" \in lcDevice.grant
MayShell == MayExecute /\ "shell" \in lcDevice.grant

Allowed(kind) == \/ kind \in Puts /\ MayPut
                 \/ kind \in Gets /\ MayGet
                 \/ kind \in Adds /\ MayEgress
                 \/ Manager[kind] = "shell" /\ MayShell

-----------------------------------------------------------------------------
(***************************************************************************)
(* The caller.                                                             *)
(***************************************************************************)
\* device_list shows a device as online and executable only while it is not
\* revoked; a selector finds it only if it is both.
Listed == [online |-> lcDevice.standing = "active" /\ lcDevice.online,
           executable |-> lcDevice.standing = "active" /\ lcDevice.execute]

ResolveDevice == Listed.online /\ Listed.executable

\* Items asked for and not yet sent; the bound on requests covers them.
Owed ==
  LET done(b) == Len(lcTool[b].got) + (IF lcTool[b].call = 0 THEN 0 ELSE 1)
  IN  {x \in Callers \X (1 .. MaxBatch) : done(x[1]) + x[2] <= Len(lcTool[x[1]].items)}

Begins(a, at, items) ==
  /\ lcTool[a] = NoTool
  /\ lcSent + Cardinality(Owed) + Len(items) <= MaxLocalCalls
  /\ \A i \in DOMAIN items : Manager[items[i].kind] \in lcUse
  /\ lcTool' = [lcTool EXCEPT ![a] = [NoTool EXCEPT !.at = at, !.items = items]]
  /\ UNCHANGED <<lcUse, lcDevice, lcCalls, lcSent, lcWork, lcWire, lcTold, lcEnded, lcLog>>

\* An item that repeats the target of an earlier one has the batch refused, so
\* the place of an item stands for its target.
BatchesOf(kinds) ==
  UNION {{[i \in 1 .. n |-> [kind |-> k[i], of |-> i]] : k \in [1 .. n -> kinds]} :
           n \in 1 .. MaxBatch}

PreparePutBatch(a, items) ==
  /\ ResolveDevice
  /\ Begins(a, "running", items)

\* Every source of a batch of downloads is looked at on the device first; one
\* that cannot be, or is of the other kind, ends the tool call.
PrepareGetBatch(a, items) ==
  /\ ResolveDevice
  /\ Begins(a, "probing", items)

Probe(a) ==
  LET t == lcTool[a] IN
  /\ t.at = "probing"
  /\ \/ /\ MayGet /\ lcDevice.online
        /\ lcTool' = [lcTool EXCEPT ![a].probed = @ + 1,
                        ![a].at = IF t.probed + 1 = Len(t.items) THEN "running" ELSE @]
     \/ lcTool' = [lcTool EXCEPT ![a] = NoTool]
  /\ UNCHANGED <<lcUse, lcDevice, lcCalls, lcSent, lcWork, lcWire, lcTold, lcEnded, lcLog>>

\* The tools and commands that start one thing.
StartOne(a, kind) == ResolveDevice /\ Begins(a, "running", <<[kind |-> kind, of |-> 1]>>)

FilePutTool(a) == StartOne(a, "file_put")
FileGetTool(a) == StartOne(a, "file_get")
DirectoryPutTool(a) == StartOne(a, "directory_put")
DirectoryGetTool(a) == StartOne(a, "directory_get")
ShellStartTool(a) == StartOne(a, "shell_start")
ForwardAddCommand(a) == StartOne(a, "forward_add")
ProxyAddCommand(a, kind) == StartOne(a, kind)

\* An id is drawn at random: only one that somebody was told, or a list shows,
\* can be named.
Named == {i \in 1 .. lcSent : \/ lcTold[i] # {}
                              \/ lcWork[i] = "live" /\ lcCalls[i].kind \in Adds}

NameOne(a, kind, id) == id \in Named /\ Begins(a, "running", <<[kind |-> kind, of |-> id]>>)

ShellFollowupTool(a, kind, id) == NameOne(a, kind, id)
RemoveCommand(a, kind, id) == NameOne(a, kind, id)

\* References are distinct as pairs of kind and id.  A tool that asks for or
\* cancels one transfer is a batch of one.
ParseReferences(kinds) ==
  {r \in UNION {[1 .. n -> [kind: kinds, of: Named]] : n \in 1 .. MaxBatch} :
     \A i, j \in DOMAIN r : r[i] = r[j] => i = j}

BatchStatus(a, items) == items \in ParseReferences(Statuses) /\ Begins(a, "running", items)
BatchCancel(a, items) == items \in ParseReferences(Cancels) /\ Begins(a, "running", items)

\* The loop over the items: a request is sent, its answer is noted, whatever
\* it is the next item follows, and the last one ends the tool call.  A request
\* that could not be sent is one that nobody serves.
Item(a) == lcTool[a].items[Len(lcTool[a].got) + 1]
MoreItems(a) == lcTool[a].at = "running" /\ Len(lcTool[a].got) < Len(lcTool[a].items)
Failed == [ok |-> FALSE, id |-> 0]

Send(a) ==
  /\ MoreItems(a) /\ lcTool[a].call = 0 /\ lcSent < MaxLocalCalls
  /\ lcSent' = lcSent + 1
  /\ lcCalls' = [lcCalls EXCEPT ![lcSent + 1] =
                   [NoCall EXCEPT !.by = a, !.kind = Item(a).kind, !.of = Item(a).of,
                                  !.at = "sent"]]
  /\ lcTool' = [lcTool EXCEPT ![a].call = lcSent + 1]
  /\ UNCHANGED <<lcUse, lcDevice, lcWork, lcWire, lcTold, lcEnded, lcLog>>

\* The thing a request is about: the one it makes or the one it names.
About(c) == IF lcCalls[c].kind \in Starts THEN c ELSE lcCalls[c].of

\* A request that is answered, and whose answer was taken or will not be, is
\* remembered only for what it made or may still make.
Settled(c, r, work) ==
  IF r.kind \in Starts /\ (work[c] # "none" \/ c \in lcWire)
    THEN [r EXCEPT !.at = "done", !.answer = "none"]
    ELSE NoCall

Receive(a) ==
  LET c == lcTool[a].call  r == lcCalls[c]  id == About(c)  ok == r.answer # "failed" IN
  /\ c # 0 /\ r.at = "answered"
  /\ lcTool' = [lcTool EXCEPT ![a].call = 0, ![a].got =
                  Append(@, IF ok THEN [ok |-> TRUE, id |-> id] ELSE Failed)]
  /\ lcTold' = [lcTold EXCEPT ![id] = IF ok THEN @ \cup {r.answer} ELSE @]
  /\ lcCalls' = [lcCalls EXCEPT ![c] = Settled(c, r, lcWork)]
  /\ UNCHANGED <<lcUse, lcDevice, lcSent, lcWork, lcWire, lcEnded, lcLog>>

\* The caller stops waiting, or the answer does not arrive; the task that
\* serves the request does not learn of it.
GiveUp(a) ==
  LET c == lcTool[a].call  r == [lcCalls[c] EXCEPT !.lost = TRUE] IN
  /\ c # 0
  /\ lcCalls' = [lcCalls EXCEPT ![c] = IF r.at = "answered" THEN Settled(c, r, lcWork) ELSE r]
  /\ lcTool' = [lcTool EXCEPT ![a].call = 0, ![a].got = Append(@, Failed)]
  /\ UNCHANGED <<lcUse, lcDevice, lcSent, lcWork, lcWire, lcTold, lcEnded, lcLog>>

Report(a) ==
  /\ lcTool[a].at = "running" /\ ~MoreItems(a)
  /\ lcTool' = [lcTool EXCEPT ![a] = NoTool]
  /\ UNCHANGED <<lcUse, lcDevice, lcCalls, lcSent, lcWork, lcWire, lcTold, lcEnded, lcLog>>

-----------------------------------------------------------------------------
(***************************************************************************)
(* The task that serves a request.                                         *)
(***************************************************************************)
Serves(c, kinds, at) == lcCalls[c].kind \in kinds /\ lcCalls[c].at = at

Answers(c, answer) ==
  LET r == [lcCalls[c] EXCEPT !.at = "answered", !.answer = answer] IN
  lcCalls' = [lcCalls EXCEPT ![c] = IF r.lost THEN Settled(c, r, lcWork') ELSE r]

\* A request that failed is recorded only where the handler says so.
Records(c, result) == lcLog' = lcLog \cup {<<c, result>>}

Kept(id) == lcWork[id] \in {"live", "cancelling", "ended"}
Known(c) == /\ Kept(lcCalls[c].of)
            /\ Manager[lcCalls[lcCalls[c].of].kind] = Manager[lcCalls[c].kind]

\* A follow-up first needs the device of its task, which the Controller may
\* have forgotten.
Authorize(c) ==
  /\ Serves(c, Starts \cup Followups, "sent")
  /\ UNCHANGED <<lcUse, lcDevice, lcTool, lcSent, lcWork, lcWire, lcTold, lcEnded, lcLog>>
  /\ LET r == lcCalls[c] IN
     \/ /\ Allowed(r.kind) /\ (r.kind \in Followups => Known(c))
        /\ lcCalls' = [lcCalls EXCEPT ![c].at = "authorized",
                                      ![c].early = lcDevice.standing = "active"]
     \/ /\ ~Allowed(r.kind) \/ r.kind \in Followups
        /\ Answers(c, "failed")

\* A table holds what is kept by its manager; a full one first loses an entry
\* that has ended, if there is one.
Table(m) == {i \in Ids : Kept(i) /\ Manager[lcCalls[i].kind] = m}

PruneAny(m) ==
  IF Cardinality(Table(m)) < TableCap THEN {lcWork}
    ELSE {[lcWork EXCEPT ![i] = "gone"] : i \in Table(m)}

PruneTerminal(m) ==
  IF Cardinality(Table(m)) < TableCap \/ ~\E i \in Table(m) : lcWork[i] = "ended"
    THEN {lcWork}
    ELSE {[lcWork EXCEPT ![i] = "gone"] : i \in {j \in Table(m) : lcWork[j] = "ended"}}

StartTransfer(c) ==
  LET m == Manager[lcCalls[c].kind] IN
  \E w \in PruneTerminal(m) :
    \/ /\ Cardinality({i \in Table(m) : w[i] # "gone"}) < TableCap
       /\ lcWork' = [w EXCEPT ![c] = "live"]
       /\ Answers(c, "live") /\ Records(c, "succeeded")
    \/ \* the table is full, an input is refused or the journal is not written
       lcWork' \in {w, lcWork} /\ Answers(c, "failed") /\ UNCHANGED lcLog

FilePut(c) == Serves(c, {"file_put"}, "authorized") /\ StartTransfer(c)
FileGet(c) == Serves(c, {"file_get"}, "authorized") /\ StartTransfer(c)
DirectoryPut(c) == Serves(c, {"directory_put"}, "authorized") /\ StartTransfer(c)
DirectoryGet(c) == Serves(c, {"directory_get"}, "authorized") /\ StartTransfer(c)

TransferStatus(c) ==
  /\ Serves(c, Statuses, "sent")
  /\ UNCHANGED <<lcWork, lcLog>>
  /\ IF Known(c) THEN Answers(c, lcWork[lcCalls[c].of]) ELSE Answers(c, "failed")

\* The mark is in the table before the journal is written, and stays when that
\* fails.
CancelIn(c, marked) ==
  /\ \/ /\ Known(c)
        /\ lcWork' = [lcWork EXCEPT ![lcCalls[c].of] = marked]
        /\ Answers(c, marked) \/ Answers(c, "failed")
     \/ ~Known(c) /\ UNCHANGED lcWork /\ Answers(c, "failed")
  /\ UNCHANGED lcLog

FileCancel(c) ==
  /\ Serves(c, {"file_cancel"}, "sent")
  /\ CancelIn(c, IF lcWork[lcCalls[c].of] = "live" THEN "cancelling" ELSE lcWork[lcCalls[c].of])

\* A tree that is being finalized keeps its phase.
DirectoryCancel(c) ==
  /\ Serves(c, {"directory_cancel"}, "sent")
  /\ \E marked \in {"cancelling", lcWork[lcCalls[c].of]} :
       /\ lcWork[lcCalls[c].of] # "live" => marked = lcWork[lcCalls[c].of]
       /\ CancelIn(c, marked)

\* A listener is bound and registered, or the table is full or the port taken.
AddListener(c) ==
  \/ /\ Cardinality({i \in Table(Manager[lcCalls[c].kind]) : lcWork[i] = "live"}) < TableCap
     /\ lcWork' = [lcWork EXCEPT ![c] = "live"]
     /\ Answers(c, "live") /\ Records(c, "succeeded")
  \/ UNCHANGED <<lcWork, lcLog>> /\ Answers(c, "failed")

ForwardAdd(c) == Serves(c, {"forward_add"}, "authorized") /\ AddListener(c)
Socks5Add(c) == Serves(c, {"socks5_add"}, "authorized") /\ AddListener(c)
HttpConnectAdd(c) == Serves(c, {"http_connect_add"}, "authorized") /\ AddListener(c)

\* Removing needs no authority; it is recorded while the catalog still has the
\* device, which the deleted history of a revoked invite takes along.
RemoveListener(c) ==
  \/ /\ Known(c) /\ lcWork[lcCalls[c].of] = "live"
     /\ lcWork' = [lcWork EXCEPT ![lcCalls[c].of] = "ended"]
     /\ Answers(c, "ended")
     /\ Records(c, "cancelled") \/ (lcDevice.standing = "revoked" /\ UNCHANGED lcLog)
  \/ /\ ~(Known(c) /\ lcWork[lcCalls[c].of] = "live")
     /\ UNCHANGED <<lcWork, lcLog>> /\ Answers(c, "failed")

ForwardRemove(c) == Serves(c, {"forward_remove"}, "sent") /\ RemoveListener(c)
Socks5Remove(c) == Serves(c, {"socks5_remove"}, "sent") /\ RemoveListener(c)
HttpConnectRemove(c) == Serves(c, {"http_connect_remove"}, "sent") /\ RemoveListener(c)

\* A shell start goes to the session of the device; the handler waits for the
\* answer for as long as the policy of the site allows, and records what it
\* came to.  A start that it no longer waits for may still arrive.
ShellStart(c) ==
  \/ /\ Serves(c, {"shell_start"}, "authorized") /\ lcDevice.online
     /\ lcCalls' = [lcCalls EXCEPT ![c].at = "remote"]
     /\ lcWire' = lcWire \cup {c}
     /\ UNCHANGED <<lcWork, lcLog>>
  \/ /\ Serves(c, {"shell_start"}, "remote") /\ lcWork[c] # "none"
     /\ UNCHANGED <<lcWork, lcWire>>
     /\ Answers(c, "live") /\ Records(c, "succeeded")
  \/ /\ Serves(c, {"shell_start"}, "remote")
     /\ UNCHANGED <<lcWork, lcWire>>
     /\ Answers(c, "failed") /\ Records(c, "failed")
  \/ /\ Serves(c, {"shell_start"}, "authorized") /\ ~lcDevice.online
     /\ UNCHANGED <<lcWork, lcWire>>
     /\ Answers(c, "failed") /\ Records(c, "failed")

\* A cancel is accepted whatever its task is at, and may have reached the Host
\* although its answer did not come back.  A task that was told to stop shows
\* as running until it has.
ShellFollowup(c) ==
  LET id == lcCalls[c].of
      done == IF lcCalls[c].kind = "shell_cancel" /\ lcWork[id] = "live"
                THEN "cancelling" ELSE lcWork[id]
      told == IF lcCalls[c].kind = "shell_cancel" THEN "cancelling"
              ELSE IF done = "cancelling" THEN "live" ELSE done IN
  /\ Serves(c, Followups, "authorized")
  /\ \/ /\ Known(c) /\ lcDevice.online
        /\ lcWork' = [lcWork EXCEPT ![id] = done]
        /\ \/ Answers(c, told) /\ Records(c, "succeeded")
           \/ Answers(c, "failed") /\ Records(c, "failed")
     \/ UNCHANGED lcWork /\ Answers(c, "failed") /\ Records(c, "failed")

Handle(c) ==
  /\ \/ /\ \/ FilePut(c) \/ FileGet(c) \/ DirectoryPut(c) \/ DirectoryGet(c)
           \/ TransferStatus(c) \/ FileCancel(c) \/ DirectoryCancel(c)
           \/ ForwardAdd(c) \/ Socks5Add(c) \/ HttpConnectAdd(c)
           \/ ForwardRemove(c) \/ Socks5Remove(c) \/ HttpConnectRemove(c)
           \/ ShellFollowup(c)
        /\ UNCHANGED lcWire
     \/ ShellStart(c)
  /\ lcEnded' = lcEnded \cup {i \in Ids : lcWork'[i] = "ended"}
  /\ UNCHANGED <<lcUse, lcDevice, lcTool, lcSent, lcTold>>

-----------------------------------------------------------------------------
(***************************************************************************)
(* The rest of the system, as far as the callers meet it.                  *)
(***************************************************************************)
\* A worker or a task comes to its end.
WorkEnds(i) ==
  /\ lcWork[i] \in {"live", "cancelling"} /\ lcCalls[i].kind \notin Adds
  /\ lcWork' = [lcWork EXCEPT ![i] = "ended"]
  /\ lcEnded' = lcEnded \cup {i}
  /\ UNCHANGED <<lcUse, lcDevice, lcTool, lcCalls, lcSent, lcWire, lcTold, lcLog>>

\* The worker of a transfer writes its own phase over the mark of a cancel,
\* which it has not looked for since or which it was not told of.
WorkGoesOn(i) ==
  /\ lcWork[i] = "cancelling" /\ lcCalls[i].kind \in Puts \cup Gets
  /\ lcWork' = [lcWork EXCEPT ![i] = "live"]
  /\ UNCHANGED <<lcUse, lcDevice, lcTool, lcCalls, lcSent, lcWire, lcTold, lcEnded, lcLog>>

\* The Host takes a shell start, or it is lost with the session.
HostTakes(c) ==
  /\ c \in lcWire
  /\ lcWire' = lcWire \ {c}
  /\ lcWork' \in {lcWork, [lcWork EXCEPT ![c] = "live"]}
  /\ UNCHANGED <<lcUse, lcDevice, lcTool, lcCalls, lcSent, lcTold, lcEnded, lcLog>>

\* A device is revoked with its invite or alone; its session is closed after
\* the commit.
DeviceChanges ==
  /\ \/ lcDevice.standing = "active" /\ lcDevice' = [lcDevice EXCEPT !.standing = "revoked"]
     \/ lcDevice.online /\ lcDevice' = [lcDevice EXCEPT !.online = FALSE]
     \/ /\ ~lcDevice.online /\ lcDevice.standing = "active"
        /\ lcDevice' = [lcDevice EXCEPT !.online = TRUE]
  /\ UNCHANGED <<lcUse, lcTool, lcCalls, lcSent, lcWork, lcWire, lcTold, lcEnded, lcLog>>

LcNext ==
  \/ \E a \in Callers :
       \/ \E items \in BatchesOf(Puts) : PreparePutBatch(a, items)
       \/ \E items \in BatchesOf(Gets) : PrepareGetBatch(a, items)
       \/ \E items \in ParseReferences(Statuses) : BatchStatus(a, items)
       \/ \E items \in ParseReferences(Cancels) : BatchCancel(a, items)
       \/ FilePutTool(a)
       \/ FileGetTool(a)
       \/ DirectoryPutTool(a)
       \/ DirectoryGetTool(a)
       \/ ShellStartTool(a)
       \/ ForwardAddCommand(a)
       \/ \E kind \in {"socks5_add", "http_connect_add"} : ProxyAddCommand(a, kind)
       \/ \E kind \in Followups, id \in Ids : ShellFollowupTool(a, kind, id)
       \/ \E kind \in Removes, id \in Ids : RemoveCommand(a, kind, id)
       \/ Probe(a)
       \/ Send(a)
       \/ Receive(a)
       \/ GiveUp(a)
       \/ Report(a)
  \/ \E c \in Ids : Authorize(c) \/ Handle(c) \/ WorkEnds(c) \/ WorkGoesOn(c) \/ HostTakes(c)
  \/ DeviceChanges

-----------------------------------------------------------------------------
\* A caller is told that something was started only if it was, by the request
\* for that very item; and what was started is known to the caller unless it
\* stopped waiting, or the Controller itself gave up on the device.
ReportIsTrue ==
  /\ \A a \in Callers : \A i \in DOMAIN lcTool[a].got :
       LET g == lcTool[a].got[i]  item == lcTool[a].items[i] IN
       g.ok /\ item.kind \in Starts =>
         /\ lcWork[g.id] # "none"
         /\ lcCalls[g.id].by = a /\ lcCalls[g.id].kind = item.kind
         /\ lcCalls[g.id].of = item.of
         /\ \A j \in DOMAIN lcTool[a].got : lcTool[a].got[j] = g => j = i
  /\ \A c \in Ids : lcWork[c] # "none" =>
       \/ lcTold[c] # {} \/ lcCalls[c].lost
       \/ \E a \in Callers : lcTool[a].call = c
       \/ lcCalls[c].kind = "shell_start" /\ <<c, "failed">> \in lcLog

\* What was told as ended does not run again, whoever was told and however old
\* the answer was; a task that its caller was told is being cancelled will stop;
\* and no transfer leaves its table before it has ended, one that is being
\* cancelled included.  That a transfer is being cancelled says no more: its
\* worker may take it back and complete.
ToldStaysTrue ==
  \A c \in Ids :
    /\ "ended" \in lcTold[c] => lcWork[c] \in {"ended", "gone"}
    /\ "cancelling" \in lcTold[c] /\ lcCalls[c].kind = "shell_start" =>
         lcWork[c] \in {"cancelling", "ended", "gone"}
    /\ lcWork[c] = "gone" => c \in lcEnded

\* Nothing was started, and no task followed up, for which the device did not
\* hold the right, and none by a request that was still to be authorized when
\* the revocation was committed.
WorkWasAuthorized ==
  \A c \in Ids :
    LET kind == lcCalls[c].kind IN
    (kind \in Starts /\ lcWork[c] # "none") \/ (kind \in Followups /\ lcCalls[c].answer \notin {"none", "failed"}) =>
      /\ lcCalls[c].early
      /\ kind \in Puts => "write" \in lcDevice.grant /\ lcDevice.roots
      /\ kind \in Gets => "read" \in lcDevice.grant /\ lcDevice.roots
      /\ kind \in Adds => "tcp_egress" \in lcDevice.grant
      /\ Manager[kind] = "shell" => "shell" \in lcDevice.grant

\* The activity list names every start a caller was told of, and no start that
\* did not happen.
ActivityIsTrue ==
  \A c \in Ids :
    /\ lcTold[c] # {} => <<c, "succeeded">> \in lcLog
    /\ <<c, "succeeded">> \in lcLog => lcWork[c] # "none" \/ lcCalls[c].kind \notin Starts
=============================================================================
