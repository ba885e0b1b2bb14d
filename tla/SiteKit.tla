------------------------------ MODULE SiteKit ------------------------------
(***************************************************************************)
(* How a Controller makes a Site Kit: the outfit library with its two      *)
(* slots, the store of imported art, the store of verified runtimes with   *)
(* its active pointers, the request that puts them together under a fresh  *)
(* invite, and the Host that starts from the finished kit.                 *)
(*                                                                         *)
(* Each store has a mutex of its own, so requests interleave between the   *)
(* reads of one kit request; the Controller may be killed at any step.     *)
(* The library holds one custom outfit.  Of a profile only its revision    *)
(* and the imported art it names are kept; a runtime is built for one      *)
(* profile, which is its build key, and its flavor is the revision.        *)
(***************************************************************************)
EXTENDS Naturals, FiniteSets

CONSTANTS Jobs,       \* kit requests that may run at the same time
          Labels,     \* site names, which name the files of a kit
          Art,        \* images that may be imported, positive numbers
          MaxArt,     \* images the store takes
          MaxRuntimes,    \* bound: runtimes imported
          MaxRevision,    \* bound: revisions of the outfit
          MaxGeneration,  \* bound: generations of the library
          MaxInvites      \* bound: invites issued

VARIABLES ktLibrary,  \* the library in memory, Down while no Controller runs
          ktSlots,    \* its two slots on disk
          ktAcked,    \* the latest profile an edit was acknowledged with
          ktArt,      \* images in the Controller's store
          ktEntries,  \* runtimes in the store
          ktActive,   \* the active runtime of each flavor
          ktImport,   \* the import that holds the store
          ktJob,      \* the kit requests
          ktIssued,   \* invites issued
          ktOpen,     \* invites that are open
          ktMade,     \* invites whose kit was reported as created
          ktExcused,  \* invites whose request was cut off or could not close them
          ktArchive,  \* the archive in the output directory under each label
          ktSidecar,  \* the labels whose manifest is there
          ktSums,     \* the label SHA256SUMS is about, 0 if there is none
          ktHost      \* the Host: cached art, the site it has and its membership

libraryVars == <<ktLibrary, ktSlots, ktAcked>>
storeVars   == <<ktArt, ktEntries, ktActive, ktImport>>
inviteVars  == <<ktIssued, ktOpen, ktMade, ktExcused>>
outVars     == <<ktArchive, ktSidecar, ktSums>>
ktVars      == <<libraryVars, storeVars, ktJob, inviteVars, outVars, ktHost>>

\* No Controller, and a slot that is missing or cannot be read.
Down == [gen |-> 0]
Torn == [gen |-> 0]
None == [rev |-> 0]

Profiles == [rev : 1..MaxRevision, look : {0} \cup Art]
Idle     == [at |-> "idle"]
First    == [gen |-> 1, rev |-> 0, look |-> 0]

KtInit ==
  /\ ktLibrary = First /\ ktSlots = [s \in {0, 1} |-> IF s = 1 THEN First ELSE Torn]
  /\ ktAcked = 0
  /\ ktArt = {} /\ ktEntries = {}
  /\ ktActive = [r \in 1..MaxRevision |-> None]
  /\ ktImport = None
  /\ ktJob = [j \in Jobs |-> Idle]
  /\ ktIssued = 0 /\ ktOpen = {} /\ ktMade = {} /\ ktExcused = {}
  /\ ktArchive = [l \in Labels |-> None] /\ ktSidecar = {} /\ ktSums = 0
  /\ ktHost = [art |-> {}, site |-> None, member |-> None]

----------------------------------------------------------------------------
\* The outfit library.

Running == ktLibrary # Down
Profile == [rev |-> ktLibrary.rev, look |-> ktLibrary.look]

\* Mutant: the slot that holds the current generation is the one written.
SlotOfCurrent(gen) == (gen + 1) % 2

\* Odd generations go to slot a.
SlotOf(gen) == gen % 2

\* commit_candidate: the other slot is truncated, written and synced, then
\* memory follows.  A write that fails leaves the slot torn, or whole when
\* only the sync failed; memory stays.
Written(s) == [ktSlots EXCEPT ![SlotOf(ktLibrary.gen + 1)] = s]
Candidate(rev, look) == [gen |-> ktLibrary.gen + 1, rev |-> rev, look |-> look]

Commits(s) == ktSlots' = Written(s) /\ ktLibrary' = s
CommitFails(s) == (ktSlots' \in {Written(s), Written(Torn)}) /\ UNCHANGED ktLibrary

Edit(rev, look) ==
  /\ ktLibrary.gen < MaxGeneration /\ rev <= MaxRevision
  /\ \/ Commits(Candidate(rev, look)) /\ ktAcked' = rev
     \/ CommitFails(Candidate(rev, look)) /\ UNCHANGED ktAcked
  /\ UNCHANGED <<storeVars, ktJob, inviteVars, outVars, ktHost>>

\* create_from_preset and clone_outfit: the identifier is free.
CreateOutfit == Running /\ ktLibrary.rev = 0 /\ Edit(1, 0)

\* set_field and update_editable: a value that differs is a new revision.
UpdateEditable == Running /\ ktLibrary.rev > 0 /\ Edit(ktLibrary.rev + 1, ktLibrary.look)

\* set_asset: the image was found in the store before the library is locked.
SetAsset(a) ==
  /\ Running /\ ktLibrary.rev > 0 /\ a \in ktArt
  /\ Edit(IF ktLibrary.look = a THEN ktLibrary.rev ELSE ktLibrary.rev + 1, a)

\* import_bytes: the image is written beside its name and renamed to it.
ImportAsset(a) ==
  /\ Running /\ a \notin ktArt /\ Cardinality(ktArt) < MaxArt
  /\ ktArt' = ktArt \cup {a}
  /\ UNCHANGED <<libraryVars, ktEntries, ktActive, ktImport, ktJob, inviteVars, outVars, ktHost>>

\* A killed Controller: memory, imports and kit requests are gone.
ControllerDies ==
  /\ Running
  /\ ktLibrary' = Down
  /\ ktExcused' = ktExcused \cup {ktJob[j].invite : j \in {j \in Jobs :
                                    ktJob[j].at \notin {"idle", "chosen"}}}
  /\ ktJob' = [j \in Jobs |-> Idle]
  /\ ktImport' = None
  /\ UNCHANGED <<ktSlots, ktAcked, ktArt, ktEntries, ktActive, ktIssued, ktOpen, ktMade,
                 outVars, ktHost>>

\* load_or_create: the valid slot with the higher generation.
LoadLibrary ==
  /\ ~Running
  /\ \E s \in {ktSlots[0], ktSlots[1]} \ {Torn} :
       /\ \A t \in {ktSlots[0], ktSlots[1]} \ {Torn, s} : t.gen < s.gen
       /\ ktLibrary' = s
  /\ UNCHANGED <<ktSlots, ktAcked, storeVars, ktJob, inviteVars, outVars, ktHost>>

----------------------------------------------------------------------------
\* The store of verified runtimes; an import holds its mutex to the end.

\* import_runtime_source: a runtime that is already there is compared, any
\* other is verified and staged.
ImportRuntime(p) ==
  /\ Running /\ ktImport = None
  /\ p \in ktEntries \/ Cardinality(ktEntries) < MaxRuntimes
  /\ ktImport' = [build |-> p, at |-> IF p \in ktEntries THEN "stored" ELSE "staged"]
  /\ UNCHANGED <<libraryVars, ktArt, ktEntries, ktActive, ktJob, inviteVars, outVars, ktHost>>

\* validate_cache_entry_dir does not find what the manifest says.
EntryRefused == ktImport' = None /\ UNCHANGED ktEntries

\* The staged copy is verified once more and renamed to its cache key, or
\* refused.
PublishEntry ==
  /\ ktImport # None /\ ktImport.at = "staged"
  /\ \/ ktEntries' = ktEntries \cup {ktImport.build} /\ ktImport' = [ktImport EXCEPT !.at = "stored"]
     \/ EntryRefused
  /\ UNCHANGED <<libraryVars, ktArt, ktActive, ktJob, inviteVars, outVars, ktHost>>

\* write_active_pointer removes the old pointer and renames the new one.
Unpoint ==
  /\ ktImport # None /\ ktImport.at = "stored" /\ ktActive[ktImport.build.rev] # None
  /\ ktActive' = [ktActive EXCEPT ![ktImport.build.rev] = None]
  /\ UNCHANGED <<libraryVars, ktArt, ktEntries, ktImport, ktJob, inviteVars, outVars, ktHost>>

WriteActivePointer ==
  /\ ktImport # None /\ ktImport.at = "stored" /\ ktActive[ktImport.build.rev] = None
  /\ ktActive' \in {ktActive, [ktActive EXCEPT ![ktImport.build.rev] = ktImport.build]}
  /\ ktImport' = None
  /\ UNCHANGED <<libraryVars, ktArt, ktEntries, ktJob, inviteVars, outVars, ktHost>>

----------------------------------------------------------------------------
\* A kit request.

Goes(j, rec) == ktJob' = [ktJob EXCEPT ![j] = rec]
At(j, at)    == [ktJob[j] EXCEPT !.at = at]

ActiveForFlavor(rev) == IF ktActive[rev] \in ktEntries THEN ktActive[rev] ELSE None

\* create_site_kit reads the profile, and the active runtime of its flavor.
\* Edits made between the two reads commute with the second.
ChooseRuntime(j, l) ==
  /\ Running /\ ktJob[j].at = "idle" /\ ktImport = None
  /\ ktLibrary.rev > 0 /\ ActiveForFlavor(ktLibrary.rev) # None
  /\ Goes(j, [at |-> "chosen", label |-> l, build |-> ActiveForFlavor(ktLibrary.rev)])
  /\ UNCHANGED <<libraryVars, storeVars, inviteVars, outVars, ktHost>>

\* The site as signed: the profile of this moment under a fresh invite.
SignedSite(j, invite) ==
  [at |-> "issued", label |-> ktJob[j].label, build |-> ktJob[j].build,
   site |-> Profile, invite |-> invite]

\* issue_invite reads the profile again after waiting for the endpoint, marks
\* it as recent, which commits the library, signs the site and registers it.
IssueInvite(j) ==
  /\ ktJob[j].at = "chosen" /\ ktIssued < MaxInvites /\ ktLibrary.gen < MaxGeneration
  /\ Commits(Candidate(ktLibrary.rev, ktLibrary.look))
  /\ ktIssued' = ktIssued + 1
  /\ ktOpen' = ktOpen \cup {ktIssued'}
  /\ Goes(j, SignedSite(j, ktIssued'))
  /\ UNCHANGED <<ktAcked, storeVars, ktMade, ktExcused, outVars, ktHost>>

\* The invite is refused: no endpoint, or a store that does not commit.
IssueFails(j) ==
  /\ ktJob[j].at = "chosen" /\ ktLibrary.gen < MaxGeneration
  /\ \/ UNCHANGED <<ktLibrary, ktSlots>>
     \/ Commits(Candidate(ktLibrary.rev, ktLibrary.look))
     \/ CommitFails(Candidate(ktLibrary.rev, ktLibrary.look))
  /\ Goes(j, Idle)
  /\ UNCHANGED <<ktAcked, storeVars, inviteVars, outVars, ktHost>>

\* Mutant: only the flavor of the runtime is compared with the site.
BindsByFlavor(build, site) == build.rev = site.rev

\* validate_site_binding: flavor and build key are those the site signs.
SiteBinding(build, site) == build = site

\* The art the site names is read, the request is validated and the files are
\* staged; the archive and the manifest must not be there yet.
Assemble(j) ==
  /\ ktJob[j].at = "issued"
  /\ ktJob[j].site.look \in {0} \cup ktArt
  /\ SiteBinding(ktJob[j].build, ktJob[j].site)
  /\ ktArchive[ktJob[j].label] = None /\ ktJob[j].label \notin ktSidecar
  /\ Goes(j, At(j, "staged"))
  /\ UNCHANGED <<libraryVars, storeVars, inviteVars, outVars, ktHost>>

Publish(j, from, to) ==
  /\ ktJob[j].at = from
  /\ Goes(j, At(j, to))
  /\ UNCHANGED <<libraryVars, storeVars, inviteVars, ktHost>>

PublishArchive(j) ==
  /\ Publish(j, "staged", "archive")
  /\ ktArchive[ktJob[j].label] = None
  /\ ktArchive' = [ktArchive EXCEPT ![ktJob[j].label] =
       [invite |-> ktJob[j].invite, build |-> ktJob[j].build, site |-> ktJob[j].site]]
  /\ UNCHANGED <<ktSidecar, ktSums>>

PublishManifest(j) ==
  /\ Publish(j, "archive", "manifest")
  /\ ktJob[j].label \notin ktSidecar
  /\ ktSidecar' = ktSidecar \cup {ktJob[j].label}
  /\ UNCHANGED <<ktArchive, ktSums>>

\* SHA256SUMS of an earlier kit is removed if there is one.
RemoveSums(j) ==
  /\ Publish(j, "manifest", "cleared")
  /\ ktSums' = 0
  /\ UNCHANGED <<ktArchive, ktSidecar>>

PublishSums(j) ==
  /\ ktJob[j].at = "cleared" /\ ktSums = 0
  /\ ktSums' = ktJob[j].label
  /\ ktMade' = ktMade \cup {ktJob[j].invite}
  /\ Goes(j, Idle)
  /\ UNCHANGED <<libraryVars, storeVars, ktIssued, ktOpen, ktExcused, ktArchive, ktSidecar, ktHost>>

\* Mutant: the failure is reported and the fresh invite is left alone.
ReportOnly(j) == ktOpen' = ktOpen /\ ktExcused' = ktExcused

\* site_kit_failure_after_issue closes the fresh invite, or says that it could
\* not.
CloseIssued(j) ==
  \/ ktOpen' = ktOpen \ {ktJob[j].invite} /\ UNCHANGED ktExcused
  \/ ktExcused' = ktExcused \cup {ktJob[j].invite} /\ UNCHANGED ktOpen

\* Any step after the invite may fail: a check that does not hold, a file
\* that is already there, an error of the disk.
KitFails(j) ==
  /\ ktJob[j].at \notin {"idle", "chosen"}
  /\ CloseIssued(j)
  /\ Goes(j, Idle)
  /\ UNCHANGED <<libraryVars, storeVars, ktIssued, ktMade, outVars, ktHost>>

----------------------------------------------------------------------------
\* The Host, started beside a kit that was unpacked.

\* sync_outfit_assets: the signed images are verified and copied to the
\* Host's own cache before anything else is done with the site.
SyncOutfitAssets(a) == ktHost.art \cup {a.site.look}

\* effective_flavor_for_runtime: the runtime's flavor is the one signed.
VerifyForFlavor(a) == a.build.rev = a.site.rev

\* resolve_site_file: a site for another runtime is refused.
ResolveSiteFile(l) ==
  /\ ktArchive[l] # None /\ ktHost.site = None /\ ktHost.member = None
  /\ VerifyForFlavor(ktArchive[l])
  /\ ktHost' = [ktHost EXCEPT !.art = SyncOutfitAssets(ktArchive[l]), !.site = ktArchive[l]]
  /\ UNCHANGED <<libraryVars, storeVars, ktJob, inviteVars, outVars>>

\* Enrollment; the kit is deleted any time from here on.
HostActivates ==
  /\ ktHost.site # None /\ ktHost.site.invite \in ktOpen
  /\ ktHost' = [ktHost EXCEPT !.member = ktHost.site.site, !.site = None]
  /\ UNCHANGED <<libraryVars, storeVars, ktJob, inviteVars, outVars>>

HostStops ==
  /\ ktHost.site # None
  /\ ktHost' = [ktHost EXCEPT !.site = None]
  /\ UNCHANGED <<libraryVars, storeVars, ktJob, inviteVars, outVars>>

\* The user clears the output directory of one label.
DeleteKit(l) ==
  /\ ktArchive[l] # None
  /\ ktArchive' = [ktArchive EXCEPT ![l] = None] /\ ktSidecar' = ktSidecar \ {l}
  /\ ktSums' = IF ktSums = l THEN 0 ELSE ktSums
  /\ UNCHANGED <<libraryVars, storeVars, ktJob, inviteVars, ktHost>>

KitRequest(j) ==
  \/ \E l \in Labels : ChooseRuntime(j, l)
  \/ IssueInvite(j) \/ IssueFails(j) \/ Assemble(j) \/ PublishArchive(j)
  \/ PublishManifest(j) \/ RemoveSums(j) \/ PublishSums(j) \/ KitFails(j)

KtNext ==
  \/ CreateOutfit \/ UpdateEditable \/ ControllerDies \/ LoadLibrary
  \/ \E a \in Art : SetAsset(a) \/ ImportAsset(a)
  \/ \E p \in Profiles : ImportRuntime(p)
  \/ PublishEntry \/ Unpoint \/ WriteActivePointer
  \/ \E j \in Jobs : KitRequest(j)
  \/ \E l \in Labels : ResolveSiteFile(l) \/ DeleteKit(l)
  \/ HostActivates \/ HostStops

KtSpec == KtInit /\ [][KtNext]_ktVars

----------------------------------------------------------------------------
\* Every archive in the output directory holds a runtime built for the profile
\* its site signs, although the profile is read twice and may be edited in
\* between; and a Host that became a member through it has the art of its
\* outfit for as long as it runs, whatever happens to the kit.
KitIsWhole ==
  /\ \A l \in Labels : ktArchive[l] # None =>
       ktArchive[l].build = ktArchive[l].site /\ ktArchive[l].site.look \in {0} \cup ktArt
  /\ ktHost.member # None => ktHost.member.look \in {0} \cup ktHost.art

\* An invite stays open only for a request that runs, for a kit that was
\* reported as created, or where the Controller was killed or said that it
\* could not close it: no kit request that fails leaves a working invite.
NoStrayInvite ==
  \A i \in ktOpen : \/ i \in ktMade \cup ktExcused
                    \/ \E j \in Jobs : ktJob[j].at \notin {"idle", "chosen"} /\ ktJob[j].invite = i

\* No crash and no failed write takes the outfit back behind a revision that
\* was acknowledged, in memory or in what a start would load.
RevisionIsKept ==
  IF Running THEN ktLibrary.rev >= ktAcked
             ELSE \E s \in {ktSlots[0], ktSlots[1]} \ {Torn} : s.rev >= ktAcked
=============================================================================
