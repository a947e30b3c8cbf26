------------------------------- MODULE Update -------------------------------
(***************************************************************************)
(* Switching between installed versions of the program (update/installer,  *)
(* update/journal, update/service, packaging/linux/floorterminal-launch).  *)
(* Each version lives in a slot of its own and one symbolic link selects   *)
(* the active one. Three records are written one after the other: the      *)
(* journal of the application, the boot state of the shell launcher and    *)
(* the link. Power may fail, and the process may end, between any two      *)
(* writes; every write may fail.                                           *)
(***************************************************************************)
EXTENDS Naturals, FiniteSets

CONSTANTS
  Versions,     \* released versions, in their order
  Factory,      \* the version install.sh installed
  Dead,         \* versions that never get as far as UpdateService.prepare here
  Limit,        \* PROBATION_START_LIMIT (3)
  RetainedSlots,\* RETAINED_VERSION_SLOTS (3)
  Faulty,       \* whether writes of the disk may fail
  MaxChanges    \* bound: authorised changes of version

ASSUME UpdateAssumption ==
  /\ Versions \subseteq Nat \ {0}
  /\ Factory \in Versions \ Dead
  /\ Limit \in Nat \ {0}
  /\ RetainedSlots \in Nat /\ RetainedSlots >= 2
  /\ Faulty \in BOOLEAN
  /\ MaxChanges \in Nat

VARIABLES
  link,       \* the version the active link names
  slots,      \* versions whose slot holds an executable
  staged,     \* verified packages on this terminal
  journal,    \* journal.json
  boot,       \* boot_state
  proc,       \* "off", in the "launcher", "starting" or "up"
  runs,       \* the version of the running process
  memory,     \* UpdateService._journal
  shown,      \* what the published status says: the state, which holds
              \* back reports, and the version that can be restored
  dwell,      \* up for PROBATION_DWELL_SECONDS with a live user interface
  due,        \* the worker found that the running version may be confirmed
  task,       \* what holds the install lock, and the write it is at
  cut,        \* history variable: a confirmation or a restore was cut off
              \* after its record was written
  starts,     \* history variable: starts of the trial version so far
  changes

disk == <<link, slots, staged, journal, boot>>
process == <<proc, runs, memory, shown, dwell, due, task>>
history == <<cut, starts, changes>>
vars == <<disk, process, history>>

None == 0
States == {"unmanaged", "confirmed", "probation", "rolled_back"}

(* pending: versions that history says were activated or rolled back and   *)
(* never confirmed (_unconfirmed_versions).                                *)
Record == [state : States, active : Versions \union {None},
           previous : Versions \union {None}, pending : SUBSET Versions]

Blank == [state |-> "unmanaged", active |-> None, previous |-> None, pending |-> {}]

BootRecord == [state : States, active : Versions \union {None},
               previous : Versions \union {None}, attempts : 0 .. Limit + 1]

BootOf(r) == [state |-> r.state, active |-> r.active, previous |-> r.previous,
              attempts |-> 0]

Nothing == [state |-> "unmanaged", target |-> None]

Status == [state : States, target : Versions \union {None}]

NoTask == [kind |-> "none", at |-> "none", target |-> None, record |-> Blank]

Task == [kind : {"none", "initialise", "confirm", "activate", "restore"},
         at : {"none", "promoted", "journal", "boot", "link", "prune", "restart"},
         target : Versions \union {None}, record : Record]

Init ==
  /\ link = Factory /\ slots = {Factory} /\ staged = {}
  /\ journal = Blank
  /\ boot = [state |-> "confirmed", active |-> Factory, previous |-> None,
             attempts |-> 0]
  /\ proc = "off" /\ runs = None /\ memory = Blank /\ shown = Nothing
  /\ dwell = FALSE /\ due = FALSE /\ task = NoTask
  /\ cut = FALSE /\ starts = 0 /\ changes = 0
-----------------------------------------------------------------------------
(* The launcher, before every start of the application.                    *)

TrialBefore == boot.previous # None

OnTrial == boot.state = "probation"

CountedInMemory == boot

(* Attempts are only compared with the limit: one above it stands for all. *)
Counted == [boot EXCEPT !.attempts = IF @ > Limit THEN @ ELSE @ + 1]

Exhausted == boot.attempts + 1 > Limit /\ boot.previous \in slots

(* exec of what the link names; a terminal without it stays off.           *)
Exec ==
  /\ proc' = IF link' \in slots THEN "starting" ELSE "off"
  /\ runs' = link'
  /\ starts' = IF link' \in journal.pending /\ starts <= Limit THEN starts + 1 ELSE starts

LaunchPlain ==
  /\ proc = "off" /\ ~OnTrial
  /\ UNCHANGED disk /\ Exec
  /\ UNCHANGED <<memory, shown, dwell, due, task, cut, changes>>

(* write_state gives up silently when it cannot write.                     *)
LaunchCounted(saved) ==
  /\ proc = "off" /\ OnTrial /\ ~Exhausted /\ (saved \/ Faulty)
  /\ boot' = IF saved THEN Counted ELSE boot
  /\ UNCHANGED <<link, slots, staged, journal>>
  /\ Exec
  /\ UNCHANGED <<memory, shown, dwell, due, task, cut, changes>>

(* The link is switched to the previous version first ...                  *)
WatchdogRestores ==
  /\ proc = "off" /\ OnTrial /\ Exhausted
  /\ link' = boot.previous
  /\ proc' = "launcher"
  /\ UNCHANGED <<slots, staged, journal, boot, runs, memory, shown, dwell, due,
                 task, history>>

(* ... and the boot state is written next.                                 *)
WatchdogRecords(saved) ==
  /\ proc = "launcher" /\ (saved \/ Faulty)
  /\ boot' = IF saved THEN [state |-> "rolled_back", active |-> boot.previous,
                            previous |-> boot.active, attempts |-> 0]
                      ELSE boot
  /\ UNCHANGED <<link, slots, staged, journal>>
  /\ Exec
  /\ UNCHANGED <<memory, shown, dwell, due, task, cut, changes>>

(* The link cannot be switched: the active version is started once more.   *)
WatchdogFails(saved) ==
  /\ Faulty /\ proc = "off" /\ OnTrial /\ Exhausted
  /\ boot' = IF saved THEN Counted ELSE boot
  /\ UNCHANGED <<link, slots, staged, journal>>
  /\ Exec
  /\ UNCHANGED <<memory, shown, dwell, due, task, cut, changes>>

Launch ==
  \/ LaunchPlain \/ WatchdogRestores
  \/ \E saved \in BOOLEAN :
       LaunchCounted(saved) \/ WatchdogRecords(saved) \/ WatchdogFails(saved)
-----------------------------------------------------------------------------
(* Writes under the install lock, one step each.                           *)

(* Only the panel waits for the restart; the worker goes on.               *)
LockFree == task.at \in {"none", "restart"}

Hold(kind, at, target, record) ==
  task' = [kind |-> kind, at |-> at, target |-> target, record |-> record]

(* rollback_candidates and rollback_target.                                *)
Candidates(r) ==
  {v \in slots \ {link} : v \notin r.pending /\ (v = r.previous \/ v < link)}

IsTarget(r, v) ==
  /\ v \in Candidates(r)
  /\ v = r.previous \/ (r.previous \notin Candidates(r) /\ \A w \in Candidates(r) : w <= v)

Target(r) ==
  IF \E v \in slots : IsTarget(r, v) THEN CHOOSE v \in slots : IsTarget(r, v) ELSE None

(* What _refresh publishes of the record in memory.                        *)
Published(r) == [state |-> r.state, target |-> Target(r)]

(* After a restore's journal record, until its link is switched; between   *)
(* the two records of a confirmation.                                      *)
HalfDone ==
  \/ task.kind = "restore" /\ task.at \in {"boot", "link"}
  \/ task.kind = "confirm" /\ task.at = "boot"

SaveJournal ==
  /\ task.at = "journal"
  /\ journal' = task.record
  /\ task' = [task EXCEPT !.at = "boot"]
  /\ UNCHANGED <<link, slots, staged, boot, proc, runs, memory, shown, dwell, due,
                 history>>

SaveBoot ==
  /\ task.at = "boot"
  /\ boot' = BootOf(task.record)
  /\ \/ /\ task.kind = "initialise"
        /\ memory' = task.record /\ shown' = Published(task.record)
        /\ proc' = "up" /\ task' = NoTask
     \/ /\ task.kind = "confirm"
        /\ task' = [task EXCEPT !.at = "prune"]
        /\ UNCHANGED <<memory, shown, proc>>
     \/ /\ task.kind \in {"activate", "restore"}
        /\ task' = [task EXCEPT !.at = "link"]
        /\ UNCHANGED <<memory, shown, proc>>
  /\ UNCHANGED <<link, slots, staged, journal, runs, dwell, due, history>>

(* An OSError in _persist. prepare goes on with an empty journal; confirm  *)
(* had already changed the record in memory.                               *)
SaveFails ==
  /\ Faulty /\ task.at \in {"journal", "boot"}
  /\ IF task.kind = "initialise"
     THEN memory' = Blank /\ shown' = Published(Blank) /\ proc' = "up"
     ELSE UNCHANGED <<memory, shown, proc>>
  /\ task' = NoTask
  /\ cut' = (cut \/ HalfDone)
  /\ UNCHANGED <<disk, runs, dwell, due, starts, changes>>

(* The link is replaced in one rename, the journal is read again and the   *)
(* status published; the process is about to end.                          *)
SwapLink ==
  /\ task.at = "link" /\ task.target \in slots
  /\ link' = task.target
  /\ memory' = journal
  /\ UNCHANGED <<slots, staged, journal, boot, proc, runs, dwell, due, cut, changes>>
  /\ shown' = Published(journal)'
  /\ task' = [task EXCEPT !.at = "restart"]
  /\ starts' = 0

(* An ActivationError: the process goes on, its memory is not refreshed.   *)
SwapFails ==
  /\ task.at = "link" /\ (Faulty \/ task.target \notin slots)
  /\ task' = NoTask
  /\ cut' = (cut \/ HalfDone)
  /\ UNCHANGED <<disk, proc, runs, memory, shown, dwell, due, starts, changes>>
-----------------------------------------------------------------------------
(* Startup and health of the running version.                              *)

(* initialise: the journal is reconciled with the link.                    *)
WatchdogActed(r) == r.state = "probation" /\ link = r.previous

Reconciled(r) ==
  IF r.active # link
  THEN [r EXCEPT !.state = IF WatchdogActed(r) THEN "rolled_back" ELSE "confirmed",
                 !.active = link,
                 !.pending = IF WatchdogActed(r) /\ r.active # None
                             THEN @ \union {r.active} ELSE @]
  ELSE IF r.state = "unmanaged" THEN [r EXCEPT !.state = "confirmed"] ELSE r

Prepare ==
  /\ proc = "starting" /\ task = NoTask /\ runs \notin Dead
  /\ Hold("initialise", "journal", None, Reconciled(journal))
  /\ UNCHANGED <<disk, proc, runs, memory, shown, dwell, due, history>>

Dwells ==
  /\ proc = "up" /\ ~dwell /\ dwell' = TRUE
  /\ UNCHANGED <<disk, proc, runs, memory, shown, due, task, history>>

MayConfirmAny == memory.state = "probation" /\ dwell

(* _maybe_confirm looks before it takes the lock.                          *)
MayConfirm == memory.state = "probation" /\ link = runs /\ dwell

CheckHealth ==
  /\ proc = "up" /\ ~due /\ MayConfirm
  /\ due' = TRUE
  /\ UNCHANGED <<disk, proc, runs, memory, shown, dwell, task, history>>

Confirmed(r) ==
  [r EXCEPT !.state = "confirmed", !.pending = @ \ {r.active}]

(* confirm changes the record in memory, then writes it.                   *)
Confirm ==
  /\ proc = "up" /\ due /\ LockFree
  /\ due' = FALSE
  /\ IF memory.state = "probation"
     THEN /\ memory' = Confirmed(memory)
          /\ Hold("confirm", "journal", None, Confirmed(memory))
     ELSE UNCHANGED <<memory, task>>
  /\ UNCHANGED <<disk, proc, runs, shown, dwell, history>>

(* What prune keeps: the active version, the one to go back to, and the    *)
(* newest others while there is room.                                      *)
ProtectedActive(r) == {v \in slots : IsTarget(r, v)}

Protected(r) == {link} \union {v \in slots : IsTarget(r, v)}

Retained(r) == {v \in slots :
  \/ v \in Protected(r)
  \/ Cardinality(Protected(r)) + Cardinality({w \in slots \ Protected(r) : w > v})
       < RetainedSlots}

(* A slot that cannot be removed stays.                                    *)
Prune ==
  /\ task.at = "prune"
  /\ \E gone \in SUBSET (slots \ Retained(task.record)) : slots' = slots \ gone
  /\ task' = NoTask
  /\ UNCHANGED <<link, staged, journal, boot, proc, runs, memory, shown, dwell, due,
                 history>>

(* The worker and the panel refresh the published status again and again.  *)
Refresh ==
  /\ proc = "up" /\ shown' = Published(memory)
  /\ UNCHANGED <<disk, proc, runs, memory, dwell, due, task, history>>
-----------------------------------------------------------------------------
(* Changes an administrator authorises, and packages found on a drive.     *)

(* A verified newer package is staged and replaces older ones.             *)
StagePackage(v) ==
  /\ proc = "up" /\ LockFree
  /\ v > runs /\ v \notin staged
  /\ staged' \in {{v}, staged \union {v}}
  /\ UNCHANGED <<link, slots, journal, boot, process, history>>

MayActivateOnTrial(v) ==
  /\ link = runs
  /\ v \in staged /\ v > link /\ \A w \in staged : w <= v

MayActivate(v) ==
  /\ shown.state # "probation" /\ journal.state # "probation"
  /\ link = runs
  /\ v \in staged /\ v > link /\ \A w \in staged : w <= v

(* activate: the staged directory becomes the slot, unless it is there.    *)
Promote(v) ==
  /\ proc = "up" /\ task = NoTask /\ changes < MaxChanges
  /\ MayActivate(v)
  /\ slots' = slots \union {v}
  /\ staged' = IF v \in slots THEN staged ELSE staged \ {v}
  /\ Hold("activate", "promoted", v, Blank)
  /\ changes' = changes + 1
  /\ UNCHANGED <<link, journal, boot, proc, runs, memory, shown, dwell, due,
                 cut, starts>>

(* Runtime data changed since the checkpoint.                              *)
ActivationRefused ==
  /\ task.at = "promoted"
  /\ task' = NoTask
  /\ UNCHANGED <<disk, proc, runs, memory, shown, dwell, due, history>>

TrialUnmarked(r, v) ==
  [r EXCEPT !.previous = link, !.active = v, !.pending = @ \union {v}]

Trial(r, v) ==
  [r EXCEPT !.state = "probation", !.previous = link, !.active = v,
            !.pending = @ \union {v}]

ActivationIntended ==
  /\ task.at = "promoted"
  /\ Hold("activate", "journal", task.target, Trial(journal, task.target))
  /\ UNCHANGED <<disk, proc, runs, memory, shown, dwell, due, history>>

Restored(r, v) ==
  [r EXCEPT !.state = "confirmed", !.previous = link, !.active = v]

(* rollback: the version shown as target, checked against the journal.     *)
Restore(v) ==
  /\ proc = "up" /\ task = NoTask /\ changes < MaxChanges
  /\ v = shown.target /\ v \in Candidates(journal)
  /\ Hold("restore", "journal", v, Restored(journal, v))
  /\ changes' = changes + 1
  /\ UNCHANGED <<disk, proc, runs, memory, shown, dwell, due, cut, starts>>

(* The process ends, or power fails.                                       *)
Exit ==
  /\ proc # "off" /\ proc' = "off"
  /\ runs' = None /\ memory' = Blank /\ shown' = Nothing
  /\ dwell' = FALSE /\ due' = FALSE /\ task' = NoTask
  /\ cut' = (cut \/ HalfDone)
  /\ UNCHANGED <<disk, starts, changes>>

Write == SaveJournal \/ SaveBoot \/ SaveFails \/ SwapLink \/ SwapFails \/ Prune
Run == Prepare \/ Dwells \/ CheckHealth \/ Confirm \/ Refresh
Change ==
  \/ \E v \in Versions : StagePackage(v) \/ Promote(v) \/ Restore(v)
  \/ ActivationRefused \/ ActivationIntended

Next == Launch \/ Write \/ Run \/ Change \/ Exit

Spec == Init /\ [][Next]_vars

(* The supervisor starts the launcher again and again, a program that      *)
(* cannot start ends, and what an operation has begun it carries on with.  *)
SupervisorFairness ==
  /\ WF_vars(Launch) /\ WF_vars(Exit /\ (runs \in Dead \/ task.at = "restart"))
  /\ WF_vars(Prepare) /\ WF_vars(Write) /\ WF_vars(ActivationRefused \/ ActivationIntended)
  /\ WF_vars(Dwells) /\ WF_vars(CheckHealth) /\ WF_vars(Confirm)

SupervisedSpec == Spec /\ SupervisorFairness

(* The launcher's own writes work, if tried again and again.               *)
LauncherWorks ==
  /\ SF_vars(LaunchCounted(TRUE)) /\ SF_vars(WatchdogRestores)
  /\ SF_vars(WatchdogRecords(TRUE))
-----------------------------------------------------------------------------
(* Every variable keeps its type.                                          *)
TypeOK ==
  /\ link \in Versions /\ slots \subseteq Versions /\ staged \subseteq Versions
  /\ journal \in Record /\ boot \in BootRecord
  /\ proc \in {"off", "launcher", "starting", "up"}
  /\ runs \in Versions \union {None}
  /\ memory \in Record /\ shown \in Status
  /\ dwell \in BOOLEAN /\ due \in BOOLEAN /\ task \in Task
  /\ cut \in BOOLEAN
  /\ starts \in 0 .. Limit + 1 /\ changes \in 0 .. MaxChanges

(* At every instant the link names a complete executable, and a version on *)
(* trial has one to go back to: "an interruption leaves either the         *)
(* previous slot or the new slot active" (installer.py).                   *)
Launchable ==
  /\ link \in slots
  /\ boot.state = "probation" => boot.previous \in slots

(* A version whose activation was recorded and that was not found healthy  *)
(* since is under the launcher's supervision whenever the terminal is off, *)
(* unless a restore was cut off half way.                                  *)
Supervised ==
  proc = "off" /\ link \in journal.pending /\ ~cut => boot.state = "probation"

(* The version the launcher would go back to is not itself on trial.       *)
AcceptedFallback ==
  boot.state = "probation" /\ ~cut => boot.previous \notin journal.pending

(* Only the running version confirms itself, after its dwell: "an older    *)
(* process cannot confirm a newly selected slot" (software-updates.md).    *)
ConfirmsItself ==
  [][\A v \in journal.pending \ journal'.pending : v = runs /\ v = link /\ dwell]_vars

(* The watchdog never undoes a version that was found healthy, unless the  *)
(* confirmation itself was cut off.                                        *)
WatchdogSpares ==
  [][proc' = "launcher" /\ link' # link => link \in journal.pending \/ cut]_vars

(* A version that cannot start is undone without anyone's help.            *)
DeadVersionUndone ==
  LauncherWorks => ((link \in Dead /\ OnTrial) ~> link \notin Dead)

(* "Consecutive supervised starts a freshly activated version may take     *)
(* before the launcher restores the previous version automatically"        *)
(* (trust.py). Not so for a version that ends after prepare: initialise    *)
(* writes the boot state with no attempts at every start.                  *)
StartsWithinLimit == starts <= Limit

(* "Power loss between the journal write and the link switch: ... recorded *)
(* intent resolves to no change" (software-updates.md). A restore that is  *)
(* cut off there leaves the trial version active and recorded as confirmed.*)
OnlyHealthConfirms == journal.state = "confirmed" => journal.active \notin journal.pending
=============================================================================
