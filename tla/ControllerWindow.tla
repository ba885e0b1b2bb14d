-------------------------- MODULE ControllerWindow --------------------------
(***************************************************************************)
(* The desktop window of the Controller.  The window never blocks: a click *)
(* puts a command on a channel, one worker thread takes the commands in    *)
(* order, turns each into calls of the Local API and sends an event back,  *)
(* and the window takes the events before it draws.  What the window shows *)
(* is therefore old; other clients change the Controller in between, a     *)
(* refresh reads its lists one after the other, and any call may fail.     *)
(*                                                                         *)
(* Outfit 1 is built in, the others can be edited; of an outfit its        *)
(* revision is kept, the outfit whose draft wrote it and whether it names  *)
(* the one imported image.  A credential is its state.                     *)
(***************************************************************************)
EXTENDS Naturals, Sequences, FiniteSets

CONSTANTS MaxClicks,    \* bound: clicks of the user
          MaxRevision,  \* bound: revisions of an outfit
          MaxIssued,    \* bound: credentials issued
          MaxForeign,   \* bound: changes made by other clients
          MaxFailures,  \* bound: calls that fail
          MaxPending    \* bound: commands and events under way when a refresh is due

VARIABLES wnCtl,     \* the Controller: what its Local API reads and changes
          wnQueue,   \* commands on their way to the worker
          wnWork,    \* the worker: idle, in a refresh, or ended
          wnEvents,  \* events on their way to the window
          wnWin,     \* the window: ControllerApp
          wnStudio,  \* its outfit studio: StudioState
          wnBudget   \* clicks, foreign changes and failures left

wnVars == <<wnCtl, wnQueue, wnWork, wnEvents, wnWin, wnStudio, wnBudget>>

BuiltIn == 1
Outfits == 1..3

\* The part of the window the user works in.
Pages == {"kit", "access", "studio", "care"}

None    == 0

Outfit(rev, from, look) == [rev |-> rev, from |-> from, look |-> look]
NoProfile == [id |-> None]
NoDraft   == [of |-> None, dirty |-> FALSE]
Idle      == [at |-> "idle"]
Ended     == [at |-> "ended"]

\* Outfit 3 does not exist yet.
WnInit ==
  /\ wnCtl = [up |-> TRUE, creds |-> <<"open", "closed">>, images |-> {}, runtime |-> FALSE,
              paused |-> FALSE, default |-> BuiltIn, recent |-> 2,
              lib |-> [o \in Outfits |-> Outfit(IF o = 3 THEN 0 ELSE 1, o, FALSE)]]
  /\ wnQueue = <<[op |-> "refresh"]>> /\ wnWork = Idle /\ wnEvents = <<>>
  /\ wnWin \in [refreshing : {TRUE}, creds : {<<>>}, selected : {None}, confirm : {<<>>},
                open : {FALSE}, inviting : {FALSE}, importing : {FALSE}, tried : {FALSE},
                importError : {FALSE}, runtime : {FALSE}, default : {None}, kit : {None},
                exporting : {FALSE}, paused : {FALSE}, armed : {FALSE}, mcp : {"none"},
                exit : {FALSE}, acceptance : BOOLEAN, page : Pages]
  /\ wnWin.acceptance => wnWin.page = "kit"
  /\ wnStudio = [catalog |-> [o \in Outfits |-> 0], default |-> BuiltIn, recent |-> None,
                 images |-> {}, sel |-> None, profile |-> NoProfile, draft |-> NoDraft,
                 image |-> FALSE, texture |-> FALSE, rendering |-> FALSE,
                 loading |-> FALSE, busy |-> FALSE]
  /\ wnBudget = [clicks |-> MaxClicks, foreign |-> MaxForeign, failures |-> MaxFailures]

----------------------------------------------------------------------------
\* The worker.

ProfileOf(o) == [id |-> o, rev |-> wnCtl.lib[o].rev, look |-> wnCtl.lib[o].look]
Failed       == [ev |-> "error"]
Outcome(ctl, event) == [ctl |-> ctl, event |-> event]

\* Takes the command at the head.  Its call succeeds with one of the
\* outcomes, is refused when there is none, or fails: then it was not made,
\* or it was and the answer is lost.
AnswersOr(outcomes, failure) ==
  /\ wnWork = Idle
  /\ wnQueue' = Tail(wnQueue)
  /\ \/ /\ wnCtl.up
        /\ \E o \in outcomes : wnCtl' = o.ctl /\ wnEvents' = Append(wnEvents, o.event)
        /\ UNCHANGED wnBudget
     \/ /\ ~wnCtl.up \/ outcomes = {}
        /\ wnEvents' = Append(wnEvents, failure)
        /\ UNCHANGED <<wnCtl, wnBudget>>
     \/ /\ wnCtl.up /\ outcomes # {} /\ wnBudget.failures > 0
        /\ wnCtl' \in {wnCtl} \cup {o.ctl : o \in outcomes}
        /\ wnEvents' = Append(wnEvents, failure)
        /\ wnBudget' = [wnBudget EXCEPT !.failures = @ - 1]
  /\ UNCHANGED <<wnWin, wnStudio>>

Answers(outcomes) == AnswersOr(outcomes, Failed)

Command(ops) == wnQueue # <<>> /\ Head(wnQueue).op \in ops

\* A refresh reads its lists in turn: the credentials first, the outfits,
\* images and runtimes last.
RefreshBegins ==
  /\ wnWork = Idle /\ Command({"refresh"}) /\ wnCtl.up
  /\ wnWork' = [at |-> "refresh", creds |-> wnCtl.creds]
  /\ wnQueue' = Tail(wnQueue)
  /\ UNCHANGED <<wnCtl, wnEvents, wnWin, wnStudio, wnBudget>>

RefreshFails ==
  /\ wnWork = Idle /\ Command({"refresh"}) /\ (wnCtl.up => wnBudget.failures > 0)
  /\ wnQueue' = Tail(wnQueue) /\ wnEvents' = Append(wnEvents, Failed)
  /\ wnBudget' = [wnBudget EXCEPT !.failures = IF wnCtl.up THEN @ - 1 ELSE @]
  /\ UNCHANGED <<wnCtl, wnWork, wnWin, wnStudio>>

RefreshEnds ==
  /\ wnWork.at = "refresh"
  /\ wnEvents' = Append(wnEvents,
       IF ~wnCtl.up THEN Failed
       ELSE [ev |-> "snapshot", creds |-> wnWork.creds, paused |-> wnCtl.paused,
             catalog |-> [o \in Outfits |-> wnCtl.lib[o].rev], default |-> wnCtl.default,
             recent |-> wnCtl.recent, images |-> wnCtl.images, runtime |-> wnCtl.runtime])
  /\ wnWork' = Idle
  /\ UNCHANGED <<wnCtl, wnQueue, wnWin, wnStudio, wnBudget>>

\* InviteIssue and SiteKitCreate: a new credential; a kit also needs an
\* active runtime.
IssueInvite ==
  /\ Command({"invite", "kit"})
  /\ LET fits == Head(wnQueue).op = "invite" \/ wnCtl.runtime
         next == Len(wnCtl.creds) + 1
     IN  Answers(IF fits /\ next <= MaxIssued
                 THEN {Outcome([wnCtl EXCEPT !.creds = Append(@, "open")],
                               [ev |-> Head(wnQueue).op, id |-> next])}
                 ELSE {})
  /\ UNCHANGED wnWork

\* ClientFlavorImport has a failure event of its own; a release may also be
\* refused.
ImportRuntime ==
  /\ Command({"import"})
  /\ AnswersOr({Outcome([wnCtl EXCEPT !.runtime = TRUE], [ev |-> "imported"]),
                Outcome(wnCtl, [ev |-> "importFailed"])},
               [ev |-> "importFailed"])
  /\ UNCHANGED wnWork

\* CredentialClose, CredentialRevoke and CredentialDelete: the Controller asks
\* for no order, and what was deleted stays a tombstone.
Changed(state, op) ==
  CASE op = "delete" \/ state = "gone" -> "gone"
    [] op = "revoke" \/ state = "revoked" -> "revoked"
    [] OTHER -> "closed"

ChangeCredential ==
  /\ Command({"close", "revoke", "delete"})
  /\ LET c == Head(wnQueue)
     IN  Answers({Outcome([wnCtl EXCEPT !.creds[c.id] = Changed(@, c.op)], [ev |-> "credential"])})
  /\ UNCHANGED wnWork

\* OutfitShow.
ShowOutfit ==
  /\ Command({"show"})
  /\ Answers({Outcome(wnCtl, [ev |-> "loaded", profile |-> ProfileOf(Head(wnQueue).id)])})
  /\ UNCHANGED wnWork

\* OutfitCreate, OutfitClone, OutfitUpdate and OutfitSetAsset answer with
\* the profile they saved.
Saved(c) ==
  LET was == wnCtl.lib[c.id]
      now == CASE c.op = "create" -> Outfit(1, c.id, FALSE)
               [] c.op = "update" -> Outfit(was.rev + 1, c.of, was.look)
               [] c.op = "image"  -> IF was.look THEN was ELSE Outfit(was.rev + 1, was.from, TRUE)
  IN  IF now.rev > MaxRevision \/ (c.op = "create" /\ was.rev > 0) THEN {}
      ELSE {Outcome([wnCtl EXCEPT !.lib[c.id] = now, !.recent = c.id],
                    [ev |-> "saved", profile |-> [id |-> c.id, rev |-> now.rev, look |-> now.look]])}

SaveOutfit ==
  /\ Command({"create", "update", "image"})
  /\ Answers(Saved(Head(wnQueue)))
  /\ UNCHANGED wnWork

SetDefaultOutfit ==
  /\ Command({"default"})
  /\ Answers({Outcome([wnCtl EXCEPT !.default = Head(wnQueue).id, !.recent = Head(wnQueue).id],
                      [ev |-> "default"])})
  /\ UNCHANGED wnWork

\* OutfitAssetImport and OutfitAssetPreview.
ServeImage ==
  /\ Command({"store", "preview"})
  /\ Answers(IF Head(wnQueue).op = "store"
             THEN {Outcome([wnCtl EXCEPT !.images = {1}], [ev |-> "stored"])}
             ELSE {Outcome(wnCtl, [ev |-> "preview"])})
  /\ UNCHANGED wnWork

\* BackupExport, RecoveryConfirm and ActivityClear.
ServeCare ==
  /\ Command({"backup", "recovery", "activity"})
  /\ Answers({Outcome([wnCtl EXCEPT !.paused = @ /\ Head(wnQueue).op # "recovery"],
                      [ev |-> Head(wnQueue).op])})
  /\ UNCHANGED wnWork

\* Mutant: the window closes whatever became of the shutdown.
ExitsAnyway ==
  /\ Command({"shutdown"}) /\ wnWork = Idle
  /\ wnQueue' = Tail(wnQueue) /\ wnWork' = Ended
  /\ wnEvents' = Append(wnEvents, [ev |-> "shutdown"])
  /\ wnCtl' \in {wnCtl, [wnCtl EXCEPT !.up = FALSE]}
  /\ UNCHANGED <<wnWin, wnStudio, wnBudget>>

\* Shutdown: the worker ends after it, whatever the answer; the Controller
\* refuses when a service owns it.
Shutdown ==
  /\ Command({"shutdown"})
  /\ Answers({Outcome([wnCtl EXCEPT !.up = FALSE], [ev |-> "shutdown"])})
  /\ wnWork' = Ended

----------------------------------------------------------------------------
\* The studio.

\* begin_select: what is shown is dropped until the profile arrives.
BeginSelect(st, o) ==
  [st EXCEPT !.sel = o, !.profile = NoProfile, !.draft = NoDraft, !.loading = TRUE,
             !.rendering = FALSE, !.texture = FALSE]

Show(o) == [op |-> "show", id |-> o]
Preferred(st) == IF st.recent = None THEN st.default ELSE st.recent
Known(st, o)  == o # None /\ st.catalog[o] > 0

\* Mutant: only the outfit's presence is looked at.
StaleNever(st) == FALSE

\* The selected outfit has another revision than the profile that is shown.
Stale(st) == ~st.loading /\ st.profile # NoProfile /\ st.catalog[st.sel] # st.profile.rev

\* set_catalogs: the new studio and the outfit it asks for, if any.
SetCatalogs(st, e) ==
  LET new  == [st EXCEPT !.catalog = e.catalog, !.default = e.default,
                         !.recent = e.recent, !.images = e.images]
      kept == IF new.sel = None \/ Known(new, new.sel) THEN new
              ELSE [new EXCEPT !.sel = None, !.profile = NoProfile, !.draft = NoDraft,
                               !.loading = FALSE]
      ask  == IF kept.sel = None
              THEN IF Known(kept, Preferred(kept)) THEN Preferred(kept) ELSE None
              ELSE IF Stale(kept) THEN kept.sel ELSE None
  IN  [studio |-> IF ask = None THEN kept ELSE BeginSelect(kept, ask),
       ask |-> IF ask = None THEN <<>> ELSE <<Show(ask)>>]

\* request_preview_if_needed.
WantsPreview(st) == ~st.texture /\ ~st.rendering
Preview == <<[op |-> "preview"]>>

\* Mutant: a draft the user began is kept.
DraftIsKept(st, p) == IF st.draft.dirty THEN st.draft ELSE [of |-> p.id, dirty |-> FALSE]

\* The draft is made from the profile that arrived.
DraftOf(st, p) == [of |-> p.id, dirty |-> FALSE]

\* accept_profile with refresh_referenced_previews.
AcceptProfile(st, p) ==
  LET new  == [st EXCEPT !.loading = FALSE, !.busy = FALSE, !.sel = p.id, !.profile = p,
                         !.draft = DraftOf(st, p),
                         !.texture = @ /\ (p.look \/ st.image),
                         !.rendering = @ /\ (p.look \/ st.image)]
      want == p.look /\ WantsPreview(new)
  IN  [studio |-> [new EXCEPT !.rendering = @ \/ want], ask |-> IF want THEN Preview ELSE <<>>]

\* accept_asset_import, accept_preview, accept_default_change, accept_error.
AcceptImage(st) ==
  LET new == [st EXCEPT !.busy = FALSE, !.image = TRUE, !.images = {1}]
  IN  [studio |-> [new EXCEPT !.rendering = @ \/ WantsPreview(new)],
       ask |-> IF WantsPreview(new) THEN Preview ELSE <<>>]

AcceptPreview(st) == [st EXCEPT !.rendering = FALSE, !.texture = TRUE]
AcceptDefault(st) == [st EXCEPT !.busy = FALSE]
AcceptError(st)   == [st EXCEPT !.busy = FALSE, !.loading = FALSE, !.rendering = FALSE]

----------------------------------------------------------------------------
\* The window takes an event.  Any event counts as the end of a refresh.

Refresh == <<[op |-> "refresh"]>>
Settled == [wnWin EXCEPT !.refreshing = FALSE]
Asked   == [wnWin EXCEPT !.refreshing = TRUE]

Takes(evs, win, studio, commands) ==
  /\ wnEvents # <<>> /\ Head(wnEvents).ev \in evs /\ ~wnWin.exit
  /\ wnEvents' = Tail(wnEvents)
  /\ wnWin' = win /\ wnStudio' = studio
  /\ wnQueue' = wnQueue \o commands
  /\ UNCHANGED <<wnCtl, wnWork, wnBudget>>

\* The list leaves deleted credentials out and has the newest first.
Listed(creds)  == {i \in DOMAIN creds : creds[i] # "gone"}
FirstOf(creds) ==
  IF Listed(creds) = {} THEN None ELSE CHOOSE i \in Listed(creds) : \A j \in Listed(creds) : i >= j

OnSnapshot ==
  /\ wnEvents # <<>> /\ Head(wnEvents).ev = "snapshot"
  /\ LET e    == Head(wnEvents)
         held == wnWin.selected \in Listed(e.creds)
         next == SetCatalogs(wnStudio, e)
     IN  Takes({"snapshot"},
               [Settled EXCEPT !.creds = e.creds, !.runtime = e.runtime, !.default = e.default,
                               !.paused = e.paused,
                               !.selected = IF held THEN @ ELSE FirstOf(e.creds),
                               !.confirm = IF held THEN @ ELSE <<>>],
               next.studio, next.ask)

OnInvite ==
  /\ wnEvents # <<>> /\ Head(wnEvents).ev \in {"invite", "kit"}
  /\ LET done == [Asked EXCEPT !.inviting = FALSE, !.open = FALSE]
         e    == Head(wnEvents)
     IN  Takes({e.ev},
               IF e.ev = "invite" THEN done
               ELSE [done EXCEPT !.kit = e.id, !.selected = e.id, !.confirm = <<>>],
               wnStudio, Refresh)

OnImported ==
  Takes({"imported"}, [Asked EXCEPT !.importing = FALSE, !.importError = FALSE], wnStudio, Refresh)

\* Mutant: the failure is shown and the spinner stays.
ImportFailureKeepsSpinner == Takes({"importFailed"}, [Settled EXCEPT !.importError = TRUE], wnStudio, <<>>)

OnImportFailed ==
  Takes({"importFailed"}, [Settled EXCEPT !.importing = FALSE, !.importError = TRUE], wnStudio, <<>>)

OnCredential == Takes({"credential"}, [Asked EXCEPT !.confirm = <<>>], wnStudio, Refresh)

OnProfile ==
  /\ wnEvents # <<>> /\ Head(wnEvents).ev \in {"loaded", "saved"}
  /\ LET e    == Head(wnEvents)
         next == AcceptProfile(wnStudio, e.profile)
     IN  IF e.ev = "loaded" THEN Takes({"loaded"}, Settled, next.studio, next.ask)
         ELSE Takes({"saved"}, Asked, next.studio, next.ask \o Refresh)

OnDefault == Takes({"default"}, Asked, AcceptDefault(wnStudio), Refresh)

OnImage ==
  \/ LET next == AcceptImage(wnStudio) IN Takes({"stored"}, Asked, next.studio, next.ask \o Refresh)
  \/ Takes({"preview"}, Settled, AcceptPreview(wnStudio), <<>>)

OnCare ==
  \/ Takes({"backup"}, [Settled EXCEPT !.exporting = FALSE], wnStudio, <<>>)
  \/ Takes({"recovery"}, [Asked EXCEPT !.paused = FALSE, !.armed = FALSE], wnStudio, Refresh)
  \/ Takes({"activity"}, Settled, wnStudio, <<>>)

\* Whatever failed, everything counts as ended.
OnError ==
  Takes({"error"}, [Settled EXCEPT !.inviting = FALSE, !.importing = FALSE, !.exporting = FALSE],
        AcceptError(wnStudio), <<>>)

\* The window closes; dropping it stops the MCP server.
OnShutdown == Takes({"shutdown"}, [Settled EXCEPT !.exit = TRUE, !.mcp = "none"], wnStudio, <<>>)

----------------------------------------------------------------------------
\* The user.  A command sent to a worker that has ended is dropped.

Sends(commands) == wnQueue' = IF wnWork = Ended THEN wnQueue ELSE wnQueue \o commands

Click(win, studio, commands) ==
  /\ ~wnWin.exit /\ wnBudget.clicks > 0
  /\ wnWin' = win /\ wnStudio' = studio /\ Sends(commands)
  /\ wnBudget' = [wnBudget EXCEPT !.clicks = @ - 1]
  /\ UNCHANGED <<wnCtl, wnWork, wnEvents>>

\* A refresh is due when none is known to be under way.
RefreshIsDue ==
  /\ ~wnWin.exit /\ ~wnWin.refreshing /\ wnWork # Ended
  /\ Len(wnQueue) + Len(wnEvents) < MaxPending
  /\ wnWin' = Asked /\ Sends(Refresh)
  /\ UNCHANGED <<wnCtl, wnWork, wnEvents, wnStudio, wnBudget>>

Ready == wnWin.runtime /\ wnWin.default = BuiltIn

\* should_import_current_runtime, when the section opens; tried once per
\* window in an acceptance build, and as long as no runtime fits.
ImportsCurrent ==
  /\ ~wnWin.importing /\ ~wnWin.inviting
  /\ ~Ready \/ (wnWin.acceptance /\ ~wnWin.tried)

ImportCurrent(win) ==
  Click(IF ImportsCurrent
        THEN [win EXCEPT !.tried = TRUE, !.importing = TRUE, !.importError = FALSE] ELSE win,
        wnStudio, IF ImportsCurrent THEN <<[op |-> "import"]>> ELSE <<>>)

OpenInvite == ~wnWin.open /\ ImportCurrent([wnWin EXCEPT !.open = TRUE])

\* Offered while no runtime fits and none is being imported.
UseInstallation == wnWin.open /\ ~Ready /\ ~wnWin.importing /\ ImportCurrent(wnWin)

ChooseRelease ==
  /\ wnWin.open /\ ~wnWin.importing /\ ~wnWin.inviting
  /\ Click([wnWin EXCEPT !.importing = TRUE, !.importError = FALSE], wnStudio, <<[op |-> "import"]>>)

\* site_kit_ready.
CreateKit ==
  /\ wnWin.open /\ Ready /\ ~wnWin.inviting /\ ~wnWin.importing /\ ~wnWin.importError
  /\ Click([wnWin EXCEPT !.inviting = TRUE], wnStudio, <<[op |-> "kit"]>>)

ExportSite ==
  /\ wnWin.open /\ ~wnWin.inviting /\ ~wnWin.importing
  /\ Click([wnWin EXCEPT !.inviting = TRUE], wnStudio, <<[op |-> "invite"]>>)

CancelInvite ==
  /\ wnWin.open /\ ~wnWin.inviting /\ ~wnWin.importing
  /\ Click([wnWin EXCEPT !.open = FALSE], wnStudio, <<>>)

\* render_credentials: the buttons of the selected credential as it is shown.
ChosenCredential == wnWin.selected \in Listed(wnWin.creds)
ShownState       == wnWin.creds[wnWin.selected]

SelectCredential ==
  \E i \in Listed(wnWin.creds) \ {wnWin.selected} :
    Click([wnWin EXCEPT !.selected = i], wnStudio, <<>>)

CloseCredential ==
  /\ ChosenCredential /\ ShownState = "open"
  /\ Click(wnWin, wnStudio, <<[op |-> "close", id |-> wnWin.selected]>>)

ArmRevoke ==
  /\ ChosenCredential /\ ShownState # "revoked" /\ wnWin.confirm # <<"revoke", wnWin.selected>>
  /\ Click([wnWin EXCEPT !.confirm = <<"revoke", wnWin.selected>>], wnStudio, <<>>)

ConfirmRevoke ==
  /\ ChosenCredential /\ ShownState # "revoked" /\ wnWin.confirm = <<"revoke", wnWin.selected>>
  /\ Click(wnWin, wnStudio, <<[op |-> "revoke", id |-> wnWin.selected]>>)

\* Mutant: any credential may be deleted.
ArmDeleteOfAny ==
  /\ ChosenCredential /\ wnWin.confirm # <<"delete", wnWin.selected>>
  /\ Click([wnWin EXCEPT !.confirm = <<"delete", wnWin.selected>>], wnStudio, <<>>)

\* Offered for a credential that is shown as closed or revoked; one that has
\* expired counts as closed.
ArmDelete ==
  /\ ChosenCredential /\ ShownState # "open" /\ wnWin.confirm # <<"delete", wnWin.selected>>
  /\ Click([wnWin EXCEPT !.confirm = <<"delete", wnWin.selected>>], wnStudio, <<>>)

ConfirmDelete ==
  /\ ChosenCredential /\ wnWin.confirm = <<"delete", wnWin.selected>>
  /\ Click([wnWin EXCEPT !.selected = None], wnStudio, <<[op |-> "delete", id |-> wnWin.selected]>>)

CancelConfirm ==
  /\ ChosenCredential
  /\ wnWin.confirm \in {<<"revoke", wnWin.selected>>, <<"delete", wnWin.selected>>}
  /\ Click([wnWin EXCEPT !.confirm = <<>>], wnStudio, <<>>)

\* The recovery review, the backup, the activity list and the exit.
ReviewRecovery ==
  /\ wnWin.paused
  /\ \E confirmed \in BOOLEAN :
       /\ confirmed => wnWin.armed
       /\ Click([wnWin EXCEPT !.armed = ~@], wnStudio,
                IF confirmed THEN <<[op |-> "recovery"]>> ELSE <<>>)

ExportBackup ==
  /\ ~wnWin.exporting
  /\ Click([wnWin EXCEPT !.exporting = TRUE], wnStudio, <<[op |-> "backup"]>>)

ClearActivity == Click(wnWin, wnStudio, <<[op |-> "activity"]>>)
ExitClew      == Click(wnWin, wnStudio, <<[op |-> "shutdown"]>>)

\* The MCP server is a child of the window; it may end on its own, which is
\* noticed when the window looks.
ToggleMcp ==
  Click([wnWin EXCEPT !.mcp = IF @ = "running" THEN "none" ELSE "running"], wnStudio, <<>>)

McpEnds ==
  /\ wnWin.mcp = "running" /\ wnBudget.failures > 0
  /\ wnWin' = [wnWin EXCEPT !.mcp = "none"]
  /\ wnBudget' = [wnBudget EXCEPT !.failures = @ - 1]
  /\ UNCHANGED <<wnCtl, wnQueue, wnWork, wnEvents, wnStudio>>

\* The studio's buttons.
Editable == wnStudio.profile # NoProfile /\ wnStudio.sel # BuiltIn

SelectOutfit ==
  \E o \in Outfits \ {wnStudio.sel} :
    /\ wnStudio.catalog[o] > 0
    /\ Click(wnWin, BeginSelect(wnStudio, o), <<Show(o)>>)

\* Create from a preset, or clone the profile that is shown.
CreateOutfit ==
  /\ ~wnStudio.busy
  /\ Click(wnWin, [wnStudio EXCEPT !.busy = TRUE], <<[op |-> "create", id |-> 3]>>)

EditDraft ==
  /\ Editable /\ ~wnStudio.draft.dirty
  /\ Click(wnWin, [wnStudio EXCEPT !.draft.dirty = TRUE], <<>>)

ApplyDraft ==
  /\ Editable /\ wnStudio.draft.dirty /\ ~wnStudio.busy
  /\ Click(wnWin, [wnStudio EXCEPT !.busy = TRUE],
           <<[op |-> "update", id |-> wnStudio.profile.id, of |-> wnStudio.draft.of]>>)

SetDefault ==
  /\ wnStudio.profile # NoProfile /\ wnStudio.profile.id # wnStudio.default /\ ~wnStudio.busy
  /\ Click(wnWin, [wnStudio EXCEPT !.busy = TRUE], <<[op |-> "default", id |-> wnStudio.profile.id]>>)

ImportImage ==
  /\ wnStudio.profile # NoProfile /\ ~wnStudio.busy
  /\ Click(wnWin, wnStudio, <<[op |-> "store"]>>)

PickImage ==
  /\ wnStudio.profile # NoProfile /\ wnStudio.images # {}
  /\ Click(wnWin, [wnStudio EXCEPT !.image = TRUE, !.rendering = @ \/ WantsPreview(wnStudio)],
           IF WantsPreview(wnStudio) THEN Preview ELSE <<>>)

SetImage ==
  /\ Editable /\ wnStudio.images # {} /\ ~wnStudio.busy
  /\ Click(wnWin, [wnStudio EXCEPT !.busy = TRUE], <<[op |-> "image", id |-> wnStudio.profile.id]>>)

----------------------------------------------------------------------------
\* Another client of the Local API: an edit, a deletion, a restored state
\* that waits for its review, or the end of the Controller.
Foreign ==
  /\ wnBudget.foreign > 0 /\ wnCtl.up
  /\ \/ \E o \in Outfits \ {BuiltIn} :
          /\ wnWin.page = "studio" /\ wnCtl.lib[o].rev \in 1..(MaxRevision - 1)
          /\ wnCtl' = [wnCtl EXCEPT !.lib[o].rev = @ + 1, !.recent = o]
     \/ wnWin.page = "access" /\ wnCtl.creds[1] # "gone" /\ wnCtl' = [wnCtl EXCEPT !.creds[1] = "gone"]
     \/ wnWin.page = "care" /\ ~wnCtl.paused /\ wnCtl' = [wnCtl EXCEPT !.paused = TRUE]
     \/ wnCtl' = [wnCtl EXCEPT !.up = FALSE]
  /\ wnBudget' = [wnBudget EXCEPT !.foreign = @ - 1]
  /\ UNCHANGED <<wnQueue, wnWork, wnEvents, wnWin, wnStudio>>

Worker ==
  \/ RefreshBegins \/ RefreshFails \/ RefreshEnds \/ IssueInvite \/ ImportRuntime
  \/ ChangeCredential \/ ShowOutfit \/ SaveOutfit \/ SetDefaultOutfit \/ ServeImage
  \/ ServeCare \/ Shutdown

Events ==
  \/ OnSnapshot \/ OnInvite \/ OnImported \/ OnImportFailed \/ OnCredential \/ OnProfile
  \/ OnDefault \/ OnImage \/ OnCare \/ OnError \/ OnShutdown

User ==
  \/ /\ wnWin.page = "kit"
     /\ OpenInvite \/ UseInstallation \/ ChooseRelease \/ CreateKit \/ ExportSite \/ CancelInvite
  \/ /\ wnWin.page = "access"
     /\ \/ SelectCredential \/ CloseCredential \/ ArmRevoke \/ ConfirmRevoke \/ ArmDelete
        \/ ConfirmDelete \/ CancelConfirm
  \/ /\ wnWin.page = "studio"
     /\ \/ SelectOutfit \/ CreateOutfit \/ EditDraft \/ ApplyDraft \/ SetDefault
        \/ ImportImage \/ PickImage \/ SetImage
  \/ /\ wnWin.page = "care"
     /\ ReviewRecovery \/ ExportBackup \/ ClearActivity \/ ToggleMcp
  \/ ExitClew

WnNext == Worker \/ Events \/ User \/ RefreshIsDue \/ McpEnds \/ Foreign

WnSpec == WnInit /\ [][WnNext]_wnVars

----------------------------------------------------------------------------
Quiet == wnQueue = <<>> /\ wnEvents = <<>> /\ wnWork = Idle

(***************************************************************************)
(* When every command has been answered and every event taken, nothing in  *)
(* the window still waits: no spinner of a kit, an import, a backup, a     *)
(* profile, a save or a preview turns for an answer that will not come.    *)
(***************************************************************************)
SpinnersEnd ==
  Quiet => /\ ~(wnWin.refreshing \/ wnWin.inviting \/ wnWin.importing \/ wnWin.exporting)
           /\ ~(wnStudio.busy \/ wnStudio.loading \/ wnStudio.rendering)

(***************************************************************************)
(* An edit is written into the outfit it was drafted on, whatever profile  *)
(* arrived in between; and when all is quiet and the catalog shown is the  *)
(* Controller's, so is the profile, although other clients edit it too.    *)
(***************************************************************************)
StudioFollowsLibrary ==
  /\ \A o \in Outfits : wnCtl.lib[o].from = o
  /\ \A i \in DOMAIN wnQueue : wnQueue[i].op = "update" => wnQueue[i].of = wnQueue[i].id
  /\ (/\ Quiet /\ wnStudio.profile # NoProfile
      /\ \A o \in Outfits : wnStudio.catalog[o] = wnCtl.lib[o].rev)
       => wnStudio.profile.rev = wnCtl.lib[wnStudio.profile.id].rev

(***************************************************************************)
(* A window that has closed left nothing behind: the Controller stopped    *)
(* and the MCP server it started is gone.                                  *)
(***************************************************************************)
ExitIsClean == wnWin.exit => ~wnCtl.up /\ wnWin.mcp = "none"

(***************************************************************************)
(* The Controller deletes a credential in any state, so the window is what *)
(* keeps an open one from being deleted: no deletion on its way names a    *)
(* credential that is still open, however old the list was in which the    *)
(* user chose it and however long ago the question was asked.              *)
(***************************************************************************)
DeletesOnlyTheClosed ==
  \A i \in DOMAIN wnQueue :
    wnQueue[i].op = "delete" => wnCtl.creds[wnQueue[i].id] # "open"

(***************************************************************************)
(* Exit leaves: a worker that has ended and whose events were all taken    *)
(* belongs to a window that has closed.                                    *)
(***************************************************************************)
ExitLeaves == wnWork = Ended /\ wnEvents = <<>> => wnWin.exit

============================================================================
