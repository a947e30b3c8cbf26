------------------------------- MODULE Intake -------------------------------
(***************************************************************************)
(* How a software package gets from a drive onto the terminal              *)
(* (update/service.py, media.py, installer.py, remote.py and               *)
(* controller/updates.py): the background worker and the update panel look *)
(* for packages on the drives, copy the newest one that may be installed   *)
(* to the staging directory and show it; an administrator approves what is *)
(* shown; the approved package is verified again, moved to a slot of its   *)
(* own and selected. What happens to a version once it is selected is the  *)
(* subject of Update.                                                      *)
(*                                                                         *)
(* Signatures are taken to hold: a package is either genuine and whole, or *)
(* damaged and then refused where it is verified.                          *)
(***************************************************************************)
EXTENDS Integers, FiniteSets

CONSTANTS
  Packages,    \* the signed packages there are
  Version,     \* [Packages -> Nat]; two of them may claim the same version
  Minimum,     \* [Packages -> Nat], the oldest version each may replace
  Previews,    \* release candidates
  Initial,     \* the package the terminal was installed with
  Mounts,      \* where drives appear
  Labelled,    \* those the worker looks at without being asked
  Announced,   \* what the project's channel may announce
  None,        \* no package
  MaxEvents    \* bound: drives changed, damage, stops, touches

ASSUME IntakeAssumption ==
  /\ Version \in [Packages -> Nat] /\ Minimum \in [Packages -> Nat]
  /\ Previews \subseteq Packages
  /\ Initial \in Packages /\ None \notin Packages
  /\ Labelled \subseteq Mounts /\ Announced \subseteq Packages
  /\ MaxEvents \in Nat

VARIABLES
  drives,     \* what is on each drive
  staging,    \* the staging directory: verified candidates
  slots,      \* installed versions
  active,     \* the package the active link selects
  trial,      \* whether the journal says probation
  installed,  \* the package that runs
  blocked,    \* _blocked_versions of the last scan
  shown,      \* status.staged
  known,      \* _channel, the last verified announcement
  cache,      \* its copy on disk
  prompt,     \* what the authorization dialog is open for
  approved,   \* what an administrator approved for installation
  unchanged,  \* the runtime files are still those of the checkpoint
  lock,       \* who holds _install_lock
  job,        \* what each thread is doing
  events      \* faults, changes and touches so far

vars == <<drives, staging, slots, active, trial, installed, blocked, shown,
          known, cache, prompt, approved, unchanged, lock, job, events>>
disk == <<staging, slots, active, trial>>
channel == <<known, cache>>
dialog == <<prompt, approved, unchanged>>

Threads == {"worker", "panel"}
Copies == [pkg : Packages, ok : BOOLEAN]
Good(p) == [pkg |-> p, ok |-> TRUE]

NoCopy == [pkg |-> None, ok |-> FALSE]
Entries == [from : Mounts \union {"disk"}, pkg : Packages]

Idle == [at |-> "idle", todo |-> {}, found |-> None, kept |-> None]

TypeOK ==
  /\ drives \in [Mounts -> Copies \union {NoCopy}]
  /\ staging \subseteq Copies /\ slots \subseteq Copies
  /\ active \in Packages /\ installed \in Packages
  /\ trial \in BOOLEAN /\ unchanged \in BOOLEAN
  /\ blocked \subseteq {Version[p] : p \in Packages}
  /\ {shown, known, cache, prompt, approved} \subseteq Packages \union {None}
  /\ lock \in Threads \union {"free"}
  /\ job \in [Threads ->
       [at : {"idle", "scan", "copy", "discard", "reread", "publish", "check",
              "approved", "promote", "switch", "restart"},
        todo : SUBSET Entries, found : Packages \union {None},
        kept : Packages \union {None}]]
  /\ events \in 0 .. MaxEvents

Init ==
  /\ drives = [m \in Mounts |-> NoCopy]
  /\ staging = {} /\ slots = {Good(Initial)}
  /\ active = Initial /\ installed = Initial /\ trial = FALSE
  /\ blocked = {} /\ shown = None /\ known = None /\ cache = None
  /\ prompt = None /\ approved = None /\ unchanged = FALSE
  /\ lock = "free" /\ job = [t \in Threads |-> Idle]
  /\ events = 0

Event == events < MaxEvents /\ events' = events + 1
Calm == UNCHANGED events
-----------------------------------------------------------------------------
(* check_installable: a release candidate is not for a stable terminal, an *)
(* older version is a matter of rollback, and a package names the oldest   *)
(* version it may replace.                                                 *)
Installable(p, over) ==
  /\ p \in Previews => over \in Previews
  /\ Version[p] > Version[over]
  /\ Version[over] >= Minimum[p]

Newest(ps) == CHOOSE p \in ps : \A q \in ps : Version[q] <= Version[p]

(* _staged_from_disk: the newest candidate that still verifies.            *)
Usable(over, barred) ==
  {c.pkg : c \in {d \in staging : d.ok /\ Installable(d.pkg, over)
                                    /\ Version[d.pkg] \notin barred}}
NewestUsable(over, barred) ==
  IF Usable(over, barred) = {} THEN None ELSE Newest(Usable(over, barred))
FromDisk(barred) == NewestUsable(installed, barred)
-----------------------------------------------------------------------------
(* A scan, with the install lock held from its first to its last step      *)

Seen(t) == IF t = "worker" THEN Labelled ELSE Mounts

(* The manifest of a drive whose executable is damaged can still be read.  *)
OnDrives(t) ==
  {[from |-> m, pkg |-> drives[m].pkg] : m \in {n \in Seen(t) : drives[n] # NoCopy}}

Candidates(t) ==
  OnDrives(t) \union
    (IF FromDisk({}) = None THEN {} ELSE {[from |-> "disk", pkg |-> FromDisk({})]})

ConflictingCopies(entries) ==
  {Version[e.pkg] : e \in {f \in entries : \E g \in entries :
     g # f /\ Version[g.pkg] = Version[f.pkg]}}

(* Two packages that claim one version bar it.                             *)
Conflicting(entries) ==
  {Version[e.pkg] : e \in {f \in entries : \E g \in entries :
     g.pkg # f.pkg /\ Version[g.pkg] = Version[f.pkg]}}

At(t, where) == job[t].at = where
Goes(t, where) == job' = [job EXCEPT ![t].at = where]

ScanStart(t) ==
  /\ lock = "free" /\ lock' = t
  /\ blocked' = Conflicting(Candidates(t))
  /\ job' = [job EXCEPT ![t] =
       [at |-> "scan", kept |-> FromDisk({}), found |-> None,
        todo |-> {e \in Candidates(t) : Version[e.pkg] \notin blocked'}]]
  /\ UNCHANGED <<drives, disk, installed, shown, channel, dialog>>

TopAny(t) == job[t].todo

(* Versions are tried from the newest down.                                *)
Top(t) ==
  {e \in job[t].todo : \A f \in job[t].todo : Version[f.pkg] <= Version[e.pkg]}

Drop(t, entries) == job' = [job EXCEPT ![t].todo = @ \ entries]

Take(t, p) == job' = [job EXCEPT ![t].at = "discard", ![t].found = p]

(* What is staged already needs no drive; anything else is verified where  *)
(* it is before it is copied.                                              *)
ScanTry(t) ==
  /\ At(t, "scan")
  /\ \E e \in Top(t) :
       \/ ~Installable(e.pkg, installed) /\ Drop(t, Top(t))
       \/ Installable(e.pkg, installed) /\ e.pkg = job[t].kept /\ Take(t, e.pkg)
       \/ /\ Installable(e.pkg, installed) /\ e.pkg # job[t].kept
          /\ IF drives[e.from] = Good(e.pkg)
             THEN job' = [job EXCEPT ![t].at = "copy", ![t].todo = @ \ {e},
                                     ![t].found = e.pkg]
             ELSE Drop(t, {e})
  /\ UNCHANGED <<drives, disk, installed, blocked, shown, channel, dialog, lock>>

Copied(p) ==
  staging' = {c \in staging : Version[c.pkg] # Version[p]} \union {Good(p)}

(* A whole candidate of the same version that is another package refuses   *)
(* the copy, a damaged one is replaced.                                    *)
Refused(p) ==
  \E c \in staging : c.ok /\ Version[c.pkg] = Version[p] /\ c.pkg # p

(* The copy is verified before it gets its name. A drive that is removed   *)
(* or fails meanwhile, and storage that is full, leave what is staged.     *)
StageCopy(t) ==
  LET p == job[t].found IN
  /\ At(t, "copy")
  /\ \/ \E m \in Mounts : drives[m] = Good(p)
        /\ ~Refused(p)
        /\ Copied(p) /\ Goes(t, "discard") /\ Calm
     \/ /\ Refused(p) \/ \A m \in Mounts : drives[m] # Good(p)
        /\ UNCHANGED staging /\ Goes(t, "scan") /\ Calm
     \/ Event /\ UNCHANGED staging /\ Goes(t, "scan")
  /\ UNCHANGED <<drives, slots, active, trial, installed, blocked, shown,
                 channel, dialog, lock>>

(* Once a package was selected the others are discarded, and it is shown.  *)
ScanFinish(t) ==
  LET p == job[t].found IN
  /\ At(t, "discard")
  /\ staging' = {c \in staging : Version[c.pkg] = Version[p]}
  /\ shown' = p
  /\ lock' = "free"
  /\ Goes(t, IF t = "worker" THEN "publish" ELSE "reread")
  /\ UNCHANGED <<drives, slots, active, trial, installed, blocked, channel, dialog>>

ScanEmpty(t) ==
  /\ At(t, "scan") /\ job[t].todo = {}
  /\ shown' = None
  /\ lock' = "free"
  /\ job' = [job EXCEPT ![t].found = None,
                        ![t].at = IF t = "worker" THEN "publish" ELSE "reread"]
  /\ UNCHANGED <<drives, disk, installed, blocked, channel, dialog>>

(* _refresh without a scan: the directory is read with the lock, and what  *)
(* was read is shown after the lock was released.                          *)
Reread(t) ==
  /\ At(t, "reread") /\ lock = "free"
  /\ job' = [job EXCEPT ![t].at = "publish", ![t].found = FromDisk(blocked)]
  /\ UNCHANGED <<drives, disk, installed, blocked, shown, channel, dialog, lock>>

Publish(t) ==
  /\ At(t, "publish")
  /\ shown' = job[t].found
  /\ job' = [job EXCEPT ![t] = Idle]
  /\ UNCHANGED <<drives, disk, installed, blocked, channel, dialog, lock>>
-----------------------------------------------------------------------------
(* The announcement of the project's channel *)

(* validate_progression: never an older announcement than the one that is  *)
(* known, nor other contents for its version.                              *)
Progresses(p) ==
  /\ p \notin Previews
  /\ known # None =>
       Version[p] > Version[known] \/ p = known

(* A check that fails, in the network or because the announcement does not *)
(* verify or progress, keeps what is known. The cache may not be written.  *)
CheckFails == UNCHANGED channel

CheckSucceeds(p) ==
  /\ Progresses(p)
  /\ known' = p /\ cache' \in {p, cache}

CheckChannel(t) ==
  /\ At(t, "idle") /\ Event
  /\ t = "panel" => prompt = None
  /\ CheckFails \/ \E p \in Announced : CheckSucceeds(p)
  /\ Goes(t, "reread")
  /\ UNCHANGED <<drives, disk, installed, blocked, shown, dialog, lock>>
-----------------------------------------------------------------------------
(* The panel *)

Busy == ~At("panel", "idle")
Restarting == active # installed

PanelScan ==
  /\ ~Busy /\ prompt = None /\ Event
  /\ ScanStart("panel")

(* request_update_authorization binds the dialog to what is shown; a       *)
(* change of version that awaits its restart or its confirmation comes     *)
(* first.                                                                  *)
CanInstall == shown # None /\ ~trial /\ ~Restarting

OpenPrompt ==
  /\ ~Busy /\ prompt = None /\ CanInstall
  /\ prompt' = shown
  /\ UNCHANGED <<drives, disk, installed, blocked, shown, channel, approved,
                 unchanged, lock, job, events>>

ClosePrompt ==
  /\ prompt # None /\ prompt' = None
  /\ UNCHANGED <<drives, disk, installed, blocked, shown, channel, approved,
                 unchanged, lock, job, events>>

Approve ==
  /\ prompt # None /\ ~Busy
  /\ prompt' = None
  /\ IF CanInstall THEN approved' = prompt /\ Goes("panel", "approved")
                   ELSE UNCHANGED <<approved, job>>
  /\ UNCHANGED <<drives, disk, installed, blocked, shown, channel, unchanged,
                 lock, events>>

SelectedAny == FromDisk(blocked) # None

(* install_staged: what is staged must still be what was approved.         *)
SelectedStill == FromDisk(blocked) = approved

Abandon ==
  /\ job' = [job EXCEPT !["panel"] = Idle]
  /\ approved' = None /\ lock' = "free"

Whole(p) == Good(p) \in staging /\ Installable(p, active)

MayInstall ==
  /\ shown # None /\ SelectedStill
  /\ ~Restarting /\ ~trial
  /\ Whole(FromDisk(blocked))

(* The checkpoint: the runtime files are copied and the new version itself *)
(* says that it can read them.                                             *)
Checkpoint ==
  /\ lock' = "panel" /\ unchanged' = TRUE
  /\ job' = [job EXCEPT !["panel"].at = "promote",
                        !["panel"].found = FromDisk(blocked)]
  /\ UNCHANGED approved /\ Calm

(* The saved state is not at rest, not readable for the version, changes   *)
(* meanwhile, or there is no room.                                         *)
CheckpointFails == Event /\ Abandon /\ UNCHANGED unchanged

(* activate, up to the checkpoint.                                         *)
InstallStart ==
  /\ At("panel", "approved") /\ lock = "free"
  /\ \/ MayInstall /\ Checkpoint
     \/ MayInstall /\ CheckpointFails
     \/ ~MayInstall /\ Abandon /\ UNCHANGED unchanged /\ Calm
  /\ UNCHANGED <<drives, disk, installed, blocked, shown, channel, prompt>>

SameVersion(set, p) == {c \in set : Version[c.pkg] = Version[p]}

(* promote_staged: verified once more, then moved. A slot of that version  *)
(* must hold the very same package, and the candidate stays.               *)
Promote ==
  LET p == job["panel"].found
      slot == SameVersion(slots, p) IN
  /\ At("panel", "promote")
  /\ \/ /\ Whole(p) /\ slot = {}
        /\ slots' = slots \union SameVersion(staging, p)
        /\ staging' = staging \ SameVersion(staging, p)
        /\ Goes("panel", "switch") /\ UNCHANGED <<approved, lock>>
     \/ /\ Whole(p) /\ slot = {Good(p)}
        /\ Goes("panel", "switch") /\ UNCHANGED <<slots, staging, approved, lock>>
     \/ /\ ~Whole(p) \/ slot \notin {{}, {Good(p)}}
        /\ Abandon /\ UNCHANGED <<slots, staging>>
  /\ UNCHANGED <<drives, active, trial, installed, blocked, shown, channel,
                 prompt, unchanged, events>>

(* assert_unchanged, the journal and the link. A package whose data        *)
(* changed stays in its slot and is not selected.                          *)
Switch ==
  /\ At("panel", "switch")
  /\ IF unchanged
     THEN /\ active' = job["panel"].found /\ trial' = TRUE
          /\ lock' = "free" /\ Goes("panel", "restart") /\ UNCHANGED approved
     ELSE Abandon /\ UNCHANGED <<active, trial>>
  /\ UNCHANGED <<drives, staging, slots, installed, blocked, shown, channel,
                 prompt, unchanged, events>>
-----------------------------------------------------------------------------
(* Starting, and what happens around the terminal *)

(* load_cache: the announcement is verified anew.                          *)
Recalled == known' = cache

(* prepare: a new process reads the staging directory and the cache.       *)
Begins ==
  /\ installed' = active
  /\ blocked' = {} /\ Recalled
  /\ prompt' = None /\ approved' = None /\ unchanged' = FALSE
  /\ lock' = "free" /\ job' = [t \in Threads |-> Idle]
  /\ shown' = NewestUsable(active, {})
  /\ UNCHANGED <<drives, disk, cache>>

Restart == At("panel", "restart") /\ Begins /\ Calm
Stop == Event /\ Begins

(* The trial of the running version ends (Update).                         *)
Confirm ==
  /\ trial /\ ~Restarting /\ lock = "free"
  /\ trial' = FALSE
  /\ UNCHANGED <<drives, staging, slots, active, installed, blocked, shown,
                 channel, dialog, lock, job, events>>

ChangeDrive ==
  /\ Event
  /\ \E m \in Mounts, c \in Copies \union {NoCopy} :
       drives[m] # c /\ drives' = [drives EXCEPT ![m] = c]
  /\ UNCHANGED <<disk, installed, blocked, shown, channel, dialog, lock, job>>

Damage ==
  /\ Event
  /\ \E c \in staging :
       c.ok /\ staging' = (staging \ {c}) \union {[c EXCEPT !.ok = FALSE]}
  /\ UNCHANGED <<drives, slots, active, trial, installed, blocked, shown,
                 channel, dialog, lock, job>>

DataChanges ==
  /\ unchanged /\ Event /\ unchanged' = FALSE
  /\ UNCHANGED <<drives, disk, installed, blocked, shown, channel, prompt,
                 approved, lock, job>>
-----------------------------------------------------------------------------
WorkerScan == At("worker", "idle") /\ ScanStart("worker") /\ Calm

ThreadStep(t) ==
  \/ ScanTry(t) /\ Calm
  \/ StageCopy(t)
  \/ ScanFinish(t) /\ Calm
  \/ ScanEmpty(t) /\ Calm
  \/ Reread(t) /\ Calm
  \/ Publish(t) /\ Calm

WorkerSteps == WorkerScan \/ ThreadStep("worker")

PanelSteps ==
  InstallStart \/ Promote \/ Switch \/ Restart \/ ThreadStep("panel")

Next ==
  \/ WorkerSteps \/ PanelSteps
  \/ PanelScan \/ OpenPrompt \/ ClosePrompt \/ Approve
  \/ \E t \in Threads : CheckChannel(t)
  \/ Stop \/ Confirm \/ ChangeDrive \/ Damage \/ DataChanges

(* The worker looks again every few seconds, and what was begun goes on.   *)
(* A worker that waits for the lock gets it: somebody types a password     *)
(* between two installations.                                              *)
Spec == Init /\ [][Next]_vars /\ SF_vars(WorkerSteps) /\ WF_vars(PanelSteps)
-----------------------------------------------------------------------------
(* What is selected is the very package the administrator was shown and    *)
(* approved, whole, newer than what ran, not one whose version was found   *)
(* in conflict, and the data it was checked against is unchanged, whatever *)
(* the worker and the drives did meanwhile (install_staged, activate,      *)
(* promote_staged).                                                        *)
AsApproved ==
  [][active' # active =>
       /\ active' = approved /\ Good(active') \in slots
       /\ Installable(active', active)
       /\ Version[active'] \notin blocked /\ unchanged]_vars

(* A whole candidate that may still be installed leaves the staging        *)
(* directory only into its slot, or for a newer one, or when another       *)
(* package was found to claim its version or that of a newer candidate     *)
(* beside it (scan_media, stage, discard_staging).                         *)
Contested(c) ==
  \E d \in staging : Version[d.pkg] \in blocked /\ Version[d.pkg] >= Version[c.pkg]

NewerKept ==
  [][\A c \in staging \ staging' :
       c.ok /\ Installable(c.pkg, installed) =>
         \/ [c EXCEPT !.ok = FALSE] \in staging'
         \/ c \in slots'
         \/ Contested(c)
         \/ \E d \in staging' : Version[d.pkg] > Version[c.pkg]]_vars

(* A package that stays in a labelled drive, whole and fit for what runs,  *)
(* with no other that claims its version, is shown, or a newer one is      *)
(* (_worker, scan_media).                                                  *)
Stays(p) ==
  /\ \E m \in Labelled : drives[m] = Good(p)
  /\ Installable(p, installed)
  /\ \A c \in staging \union {drives[m] : m \in Mounts} :
       c = NoCopy \/ c.pkg = p \/ Version[c.pkg] # Version[p]

PackageOffered ==
  \A p \in Packages :
    <>[]Stays(p) => []<>(shown # None /\ Version[shown] >= Version[p])
=============================================================================
