---------------------------- MODULE UpdateProofs ----------------------------
(* Theorems about Update, for every value of its constants.                *)
EXTENDS Update, TLAPS

(* Where a record may say "probation", the version to go back to is there; *)
(* an activation knows its version.                                        *)
Returns ==
  /\ task.at = "promoted" => task.target \in Versions
  /\ journal.state = "probation" => journal.previous \in slots
  /\ task.at \in {"journal", "boot"} /\ task.record.state = "probation" =>
       task.record.previous \in slots

(* Slots are removed by a confirmation only, when both records say so, and *)
(* no operation is under way while the launcher runs.                      *)
Removal ==
  /\ task.kind = "confirm" => task.record.state = "confirmed"
  /\ task.kind = "confirm" /\ task.at \in {"boot", "prune"} => journal.state = "confirmed"
  /\ task.at = "prune" => task.kind = "confirm" /\ boot.state = "confirmed"
  /\ proc \in {"off", "launcher"} => task = NoTask

UpdateInv == TypeOK /\ Launchable /\ Returns /\ Removal
-----------------------------------------------------------------------------
LEMMA Blanks ==
  Blank \in Record /\ Nothing \in Status /\ NoTask \in Task
BY DEF Blank, Record, States, Nothing, Status, NoTask, Task

LEMMA BootOfType ==
  ASSUME NEW r \in Record
  PROVE  /\ BootOf(r) \in BootRecord
         /\ BootOf(r).state = r.state /\ BootOf(r).previous = r.previous
<1>1. 0 \in 0 .. Limit + 1
  BY UpdateAssumption DEF UpdateAssumption
<1>2. QED
  BY <1>1 DEF BootOf, Record, BootRecord

LEMMA TargetType ==
  ASSUME NEW r, slots \subseteq Versions
  PROVE  Target(r) \in Versions \union {None}
<1>1. CASE \E v \in slots : IsTarget(r, v)
  <2>1. (CHOOSE v \in slots : IsTarget(r, v)) \in slots
    BY <1>1
  <2>2. QED
    BY <1>1, <2>1 DEF Target
<1>2. CASE ~ \E v \in slots : IsTarget(r, v)
  BY <1>2 DEF Target
<1>3. QED
  BY <1>1, <1>2

LEMMA PublishedType ==
  ASSUME NEW r \in Record, slots \subseteq Versions
  PROVE  Published(r) \in Status
<1>1. r.state \in States /\ Target(r) \in Versions \union {None}
  BY TargetType DEF Record
<1>2. QED
  BY <1>1 DEF Published, Status

(* The records the operations write, and when they say "probation".        *)
LEMMA ReconciledRecord ==
  ASSUME NEW r \in Record, link \in Versions
  PROVE  /\ Reconciled(r) \in Record
         /\ Reconciled(r).state = "probation" =>
              r.state = "probation" /\ Reconciled(r).previous = r.previous
<1>1. CASE r.active # link
  <2>1. PICK s \in {"rolled_back", "confirmed"} :
          s = IF WatchdogActed(r) THEN "rolled_back" ELSE "confirmed"
    OBVIOUS
  <2>2. PICK p \in SUBSET Versions :
          p = IF WatchdogActed(r) /\ r.active # None
              THEN r.pending \union {r.active} ELSE r.pending
    BY DEF Record
  <2>3. Reconciled(r) = [r EXCEPT !.state = s, !.active = link, !.pending = p]
    BY <1>1, <2>1, <2>2 DEF Reconciled
  <2>4. QED
    BY <2>3 DEF Record, States
<1>2. CASE r.active = link /\ r.state = "unmanaged"
  <2>1. Reconciled(r) = [r EXCEPT !.state = "confirmed"]
    BY <1>2 DEF Reconciled
  <2>2. QED
    BY <2>1 DEF Record, States
<1>3. CASE r.active = link /\ r.state # "unmanaged"
  BY <1>3 DEF Reconciled
<1>4. QED
  BY <1>1, <1>2, <1>3

LEMMA WrittenRecords ==
  ASSUME NEW r \in Record, NEW v \in Versions, link \in Versions
  PROVE  /\ Confirmed(r) \in Record /\ Confirmed(r).state = "confirmed"
         /\ Trial(r, v) \in Record /\ Trial(r, v).previous = link
         /\ Restored(r, v) \in Record /\ Restored(r, v).state = "confirmed"
BY DEF Confirmed, Trial, Restored, Record, States

LEMMA CountedType ==
  ASSUME boot \in BootRecord
  PROVE  /\ Counted \in BootRecord
         /\ Counted.state = boot.state /\ Counted.previous = boot.previous
<1>1. PICK n \in 0 .. Limit + 1 :
        n = IF boot.attempts > Limit THEN boot.attempts ELSE boot.attempts + 1
  BY UpdateAssumption DEF UpdateAssumption, BootRecord
<1>2. Counted = [boot EXCEPT !.attempts = n]
  BY <1>1 DEF Counted
<1>3. QED
  BY <1>2 DEF BootRecord

(* A task holds what it was given, and moves on to another write.          *)
LEMMA TaskMoves ==
  ASSUME task \in Task,
         NEW at \in {"none", "promoted", "journal", "boot", "link", "prune", "restart"},
         task' = [task EXCEPT !.at = at]
  PROVE  /\ task' \in Task /\ task'.at = at
         /\ task'.kind = task.kind /\ task'.record = task.record
BY DEF Task

LEMMA TaskHolds ==
  ASSUME NEW kind \in {"none", "initialise", "confirm", "activate", "restore"},
         NEW at \in {"none", "promoted", "journal", "boot", "link", "prune", "restart"},
         NEW target \in Versions \union {None}, NEW r \in Record,
         Hold(kind, at, target, r)
  PROVE  /\ task' \in Task /\ task'.at = at
         /\ task'.kind = kind /\ task'.record = r /\ task'.target = target
BY DEF Hold, Task

LEMMA NoTaskFacts == NoTask.at = "none" /\ NoTask.kind = "none" /\ Blank.state = "unmanaged"
BY DEF NoTask, Blank

LEMMA ExecTypes ==
  ASSUME TypeOK, link' \in Versions, Exec
  PROVE  /\ proc' \in {"starting", "off"} /\ runs' \in Versions \union {None}
         /\ starts' \in 0 .. Limit + 1
<1>1. starts \in 0 .. Limit + 1 /\ Limit \in Nat
  BY UpdateAssumption DEF UpdateAssumption, TypeOK
<1>2. starts' = starts \/ (starts <= Limit /\ starts' = starts + 1)
  BY DEF Exec
<1>3. starts' \in 0 .. Limit + 1
  BY <1>1, <1>2
<1>4. QED
  BY <1>3 DEF Exec
-----------------------------------------------------------------------------
LEMMA InitUpdate == Init => UpdateInv
<1> SUFFICES ASSUME Init PROVE UpdateInv
  OBVIOUS
<1>1. Factory \in Versions /\ 0 \in 0 .. Limit + 1 /\ 0 \in 0 .. MaxChanges
  BY UpdateAssumption DEF UpdateAssumption
<1>2. boot \in BootRecord
  BY <1>1 DEF Init, BootRecord, States
<1>3. TypeOK
  BY <1>1, <1>2, Blanks DEF Init, TypeOK
<1>4. Launchable /\ Returns /\ Removal
  BY NoTaskFacts DEF Init, Launchable, Returns, Removal
<1>5. QED
  BY <1>3, <1>4 DEF UpdateInv

(* The launcher runs while no operation is under way: it rewrites its own  *)
(* record and follows it.                                                  *)
LEMMA LaunchStep ==
  ASSUME UpdateInv, Launch
  PROVE  UpdateInv'
<1> USE DEF UpdateInv
<1>1. task = NoTask /\ UNCHANGED task
  <2>1. proc \in {"off", "launcher"}
    BY DEF Launch, LaunchPlain, LaunchCounted, WatchdogRestores, WatchdogRecords,
           WatchdogFails
  <2>2. QED
    BY <2>1 DEF Removal, Launch, LaunchPlain, LaunchCounted, WatchdogRestores,
                WatchdogRecords, WatchdogFails
<1>2. /\ UNCHANGED <<slots, staged, journal, memory, shown, dwell, due, cut, changes>>
      /\ link' = link \/ WatchdogRestores
  BY DEF Launch, LaunchPlain, LaunchCounted, WatchdogRestores, WatchdogRecords,
         WatchdogFails, disk, history
<1>3. link' \in Versions /\ link' \in slots'
  BY <1>2 DEF TypeOK, Launchable, WatchdogRestores, OnTrial
<1>4. /\ boot' \in BootRecord
      /\ boot'.state = "probation" => boot'.previous \in slots'
  <2>1. boot' = boot \/ boot' = Counted \/ WatchdogRecords(TRUE)
    BY DEF Launch, LaunchPlain, LaunchCounted, WatchdogRestores, WatchdogRecords,
           WatchdogFails, disk
  <2>2. CASE boot' = boot \/ boot' = Counted
    BY <1>2, <2>2, CountedType DEF TypeOK, Launchable
  <2>3. CASE WatchdogRecords(TRUE)
    <3>1. boot' = [state |-> "rolled_back", active |-> boot.previous,
                   previous |-> boot.active, attempts |-> 0]
      BY <2>3 DEF WatchdogRecords
    <3>2. 0 \in 0 .. Limit + 1
      BY UpdateAssumption DEF UpdateAssumption
    <3>3. QED
      BY <3>1, <3>2 DEF TypeOK, BootRecord, States
  <2>4. QED
    BY <2>1, <2>2, <2>3
<1>5. /\ proc' \in {"off", "launcher", "starting", "up"}
      /\ runs' \in Versions \union {None} /\ starts' \in 0 .. Limit + 1
  <2>1. CASE WatchdogRestores
    BY <2>1 DEF WatchdogRestores, TypeOK, history
  <2>2. CASE ~WatchdogRestores
    BY <1>3, <2>2, ExecTypes DEF Launch, LaunchPlain, LaunchCounted, WatchdogRecords,
                                 WatchdogFails
  <2>3. QED
    BY <2>1, <2>2
<1>6. TypeOK'
  BY <1>1, <1>2, <1>3, <1>4, <1>5 DEF TypeOK
<1>7. Launchable' /\ Returns' /\ Removal'
  BY <1>1, <1>2, <1>3, <1>4, NoTaskFacts DEF Launchable, Returns, Removal
<1>8. QED
  BY <1>6, <1>7

(* The writes of an operation, one by one.                                 *)
LEMMA SaveJournalStep ==
  ASSUME UpdateInv, SaveJournal
  PROVE  UpdateInv'
<1> USE DEF UpdateInv
<1>1. /\ task'.at = "boot" /\ task'.kind = task.kind /\ task'.record = task.record
      /\ task' \in Task
  BY TaskMoves DEF SaveJournal, TypeOK
<1>2. TypeOK'
  BY <1>1 DEF TypeOK, SaveJournal, history, Task
<1>3. Launchable' /\ Returns' /\ Removal'
  BY <1>1, NoTaskFacts DEF SaveJournal, Launchable, Returns, Removal
<1>4. QED
  BY <1>2, <1>3

LEMMA SaveBootStep ==
  ASSUME UpdateInv, SaveBoot
  PROVE  UpdateInv'
<1> USE DEF UpdateInv
<1>1. task.at = "boot" /\ task.record \in Record
  BY DEF SaveBoot, TypeOK, Task
<1>2. /\ boot' \in BootRecord /\ boot'.state = task.record.state
      /\ boot'.previous = task.record.previous
  BY <1>1, BootOfType DEF SaveBoot
<1>3. UNCHANGED <<link, slots, staged, journal, runs, dwell, due, cut, starts, changes>>
  BY DEF SaveBoot, history
<1>4. CASE task.kind = "initialise"
  <2>1. memory' = task.record /\ shown' = Published(task.record)
        /\ proc' = "up" /\ task' = NoTask
    BY <1>4 DEF SaveBoot
  <2>2. TypeOK'
    BY <1>1, <1>2, <1>3, <2>1, Blanks, PublishedType DEF TypeOK
  <2>3. Launchable' /\ Returns' /\ Removal'
    BY <1>1, <1>2, <1>3, <2>1, NoTaskFacts DEF Launchable, Returns, Removal
  <2>4. QED
    BY <2>2, <2>3
<1>5. CASE task.kind # "initialise"
  <2>1. PICK at \in {"prune", "link"} :
          /\ task' = [task EXCEPT !.at = at] /\ UNCHANGED <<memory, shown, proc>>
          /\ at = "prune" => task.kind = "confirm"
    BY <1>5 DEF SaveBoot
  <2>2. task' \in Task /\ task'.at = at /\ task'.kind = task.kind
        /\ task'.record = task.record
    BY <2>1, TaskMoves DEF TypeOK
  <2>3. TypeOK'
    BY <1>1, <1>2, <1>3, <2>1, <2>2 DEF TypeOK
  <2>4. Launchable' /\ Returns' /\ Removal'
    BY <1>1, <1>2, <1>3, <2>1, <2>2, NoTaskFacts DEF Launchable, Returns, Removal
  <2>5. QED
    BY <2>3, <2>4
<1>6. QED
  BY <1>4, <1>5

LEMMA SaveFailsStep ==
  ASSUME UpdateInv, SaveFails
  PROVE  UpdateInv'
<1> USE DEF UpdateInv
<1>1. /\ task' = NoTask /\ cut' \in BOOLEAN
      /\ UNCHANGED <<link, slots, staged, journal, boot, runs, dwell, due, starts, changes>>
  BY DEF SaveFails, disk, HalfDone, TypeOK
<1>2. memory' \in Record /\ shown' \in Status /\ proc' \in {proc, "up"}
  BY Blanks, PublishedType DEF SaveFails, TypeOK
<1>3. TypeOK'
  BY <1>1, <1>2, Blanks DEF TypeOK
<1>4. Launchable' /\ Returns' /\ Removal'
  BY <1>1, <1>2, NoTaskFacts DEF Launchable, Returns, Removal
<1>5. QED
  BY <1>3, <1>4

LEMMA SwapLinkStep ==
  ASSUME UpdateInv, SwapLink
  PROVE  UpdateInv'
<1> USE DEF UpdateInv
<1>1. /\ link' \in slots /\ memory' = journal /\ starts' = 0
      /\ UNCHANGED <<slots, staged, journal, boot, proc, runs, dwell, due, cut, changes>>
  BY DEF SwapLink
<1>2. task' \in Task /\ task'.at = "restart" /\ task'.kind = task.kind
      /\ task'.record = task.record
  BY TaskMoves DEF SwapLink, TypeOK
<1>3. shown' \in Status
  <2>1. Target(journal)' \in Versions \union {None}
    <3>1. slots' \subseteq Versions
      BY <1>1 DEF TypeOK
    <3>2. CASE (\E v \in slots : IsTarget(journal, v))'
      <4>1. (CHOOSE v \in slots : IsTarget(journal, v))' \in slots'
        BY <3>2
      <4>2. QED
        BY <3>1, <3>2, <4>1 DEF Target
    <3>3. CASE ~(\E v \in slots : IsTarget(journal, v))'
      BY <3>3 DEF Target
    <3>4. QED
      BY <3>2, <3>3
  <2>2. journal'.state \in States
    BY <1>1 DEF TypeOK, Record
  <2>3. shown' = [state |-> journal'.state, target |-> Target(journal)']
    BY DEF SwapLink, Published
  <2>4. QED
    BY <2>1, <2>2, <2>3 DEF Status
<1>4. 0 \in 0 .. Limit + 1
  BY UpdateAssumption DEF UpdateAssumption
<1>5. TypeOK'
  BY <1>1, <1>2, <1>3, <1>4 DEF TypeOK
<1>6. Launchable' /\ Returns' /\ Removal'
  BY <1>1, <1>2, NoTaskFacts DEF SwapLink, Launchable, Returns, Removal
<1>7. QED
  BY <1>5, <1>6

LEMMA SwapFailsStep ==
  ASSUME UpdateInv, SwapFails
  PROVE  UpdateInv'
<1> USE DEF UpdateInv
<1>1. /\ task' = NoTask /\ cut' \in BOOLEAN
      /\ UNCHANGED <<link, slots, staged, journal, boot, proc, runs, memory, shown,
                     dwell, due, starts, changes>>
  BY DEF SwapFails, disk, HalfDone, TypeOK
<1>2. TypeOK'
  BY <1>1, Blanks DEF TypeOK
<1>3. Launchable' /\ Returns' /\ Removal'
  BY <1>1, NoTaskFacts DEF Launchable, Returns, Removal
<1>4. QED
  BY <1>2, <1>3

(* What is removed is neither the active version nor, as nothing is on     *)
(* trial, one to go back to.                                               *)
LEMMA PruneStep ==
  ASSUME UpdateInv, Prune
  PROVE  UpdateInv'
<1> USE DEF UpdateInv
<1>1. /\ task' = NoTask
      /\ UNCHANGED <<link, staged, journal, boot, proc, runs, memory, shown, dwell, due,
                     cut, starts, changes>>
  BY DEF Prune, history
<1>2. PICK gone \in SUBSET (slots \ Retained(task.record)) : slots' = slots \ gone
  BY DEF Prune
<1>3. link \in slots /\ link \in Retained(task.record)
  BY DEF Launchable, Retained, Protected
<1>4. link' \in slots'
  BY <1>1, <1>2, <1>3
<1>5. boot.state = "confirmed" /\ journal.state = "confirmed"
  BY DEF Removal, Prune
<1>6. TypeOK'
  BY <1>1, <1>2, Blanks DEF TypeOK
<1>7. Launchable' /\ Returns' /\ Removal'
  BY <1>1, <1>4, <1>5, NoTaskFacts DEF Launchable, Returns, Removal
<1>8. QED
  BY <1>6, <1>7

LEMMA WriteStep ==
  ASSUME UpdateInv, Write
  PROVE  UpdateInv'
BY SaveJournalStep, SaveBootStep, SaveFailsStep, SwapLinkStep, SwapFailsStep, PruneStep
   DEF Write
-----------------------------------------------------------------------------
(* Startup and health of the running version.                              *)
LEMMA RunStep ==
  ASSUME UpdateInv, Run
  PROVE  UpdateInv'
<1> USE DEF UpdateInv
<1>1. /\ UNCHANGED <<link, slots, staged, journal, boot, proc, runs, cut, starts, changes>>
      /\ dwell' \in BOOLEAN /\ due' \in BOOLEAN
      /\ proc \in {"starting", "up"}
  BY DEF Run, Prepare, Dwells, CheckHealth, Confirm, Refresh, disk, history, TypeOK
<1>2. CASE Prepare
  <2>1. PICK r \in Record :
          /\ r = Reconciled(journal)
          /\ r.state = "probation" => journal.state = "probation"
                                      /\ r.previous = journal.previous
    BY ReconciledRecord DEF TypeOK
  <2>2. Hold("initialise", "journal", None, r) /\ UNCHANGED <<memory, shown>>
    BY <1>2, <2>1 DEF Prepare
  <2>3. task' \in Task /\ task'.at = "journal" /\ task'.kind = "initialise"
        /\ task'.record = r
    BY <2>2, TaskHolds
  <2>4. TypeOK'
    BY <1>1, <2>2, <2>3 DEF TypeOK
  <2>5. Launchable' /\ Returns' /\ Removal'
    BY <1>1, <2>1, <2>3 DEF Launchable, Returns, Removal
  <2>6. QED
    BY <2>4, <2>5
<1>3. CASE Dwells \/ CheckHealth \/ Refresh
  <2>1. UNCHANGED <<task, memory>> /\ shown' \in Status
    BY <1>3, PublishedType DEF Dwells, CheckHealth, Refresh, TypeOK
  <2>2. TypeOK'
    BY <1>1, <2>1 DEF TypeOK
  <2>3. Launchable' /\ Returns' /\ Removal'
    BY <1>1, <2>1 DEF Launchable, Returns, Removal
  <2>4. QED
    BY <2>2, <2>3
<1>4. CASE Confirm /\ memory.state # "probation"
  <2>1. UNCHANGED <<task, memory, shown>>
    BY <1>4 DEF Confirm
  <2>2. TypeOK'
    BY <1>1, <2>1 DEF TypeOK
  <2>3. Launchable' /\ Returns' /\ Removal'
    BY <1>1, <2>1 DEF Launchable, Returns, Removal
  <2>4. QED
    BY <2>2, <2>3
<1>5. CASE Confirm /\ memory.state = "probation"
  <2>1. PICK r \in Record : r = Confirmed(memory) /\ r.state = "confirmed"
    BY WrittenRecords DEF TypeOK
  <2>2. Hold("confirm", "journal", None, r) /\ memory' = r /\ UNCHANGED shown
    BY <1>5, <2>1 DEF Confirm
  <2>3. task' \in Task /\ task'.at = "journal" /\ task'.kind = "confirm"
        /\ task'.record = r
    BY <2>2, TaskHolds
  <2>4. TypeOK'
    BY <1>1, <2>2, <2>3 DEF TypeOK
  <2>5. Launchable' /\ Returns' /\ Removal'
    BY <1>1, <2>1, <2>3 DEF Launchable, Returns, Removal
  <2>6. QED
    BY <2>4, <2>5
<1>6. QED
  BY <1>2, <1>3, <1>4, <1>5 DEF Run

(* Authorised changes of version, and packages.                            *)
LEMMA ChangeStep ==
  ASSUME UpdateInv, Change
  PROVE  UpdateInv'
<1> USE DEF UpdateInv
<1>1. ASSUME NEW v \in Versions, StagePackage(v) PROVE UpdateInv'
  <2>1. UNCHANGED <<link, slots, journal, boot, proc, runs, memory, shown, dwell, due,
                    task, cut, starts, changes>> /\ staged' \subseteq Versions
    BY <1>1 DEF StagePackage, process, history, TypeOK
  <2>2. TypeOK'
    BY <2>1 DEF TypeOK
  <2>3. Launchable' /\ Returns' /\ Removal'
    BY <2>1 DEF Launchable, Returns, Removal
  <2>4. QED
    BY <2>2, <2>3
<1>2. ASSUME NEW v \in Versions, Promote(v) PROVE UpdateInv'
  <2>1. /\ slots' = slots \union {v} /\ staged' \subseteq Versions
        /\ UNCHANGED <<link, journal, boot, proc, runs, memory, shown, dwell, due,
                       cut, starts>>
        /\ proc = "up"
    BY <1>2 DEF Promote, TypeOK
  <2>2. changes' \in 0 .. MaxChanges
    BY <1>2, UpdateAssumption DEF Promote, TypeOK, UpdateAssumption
  <2>3. task' \in Task /\ task'.at = "promoted" /\ task'.kind = "activate"
        /\ task'.record = Blank /\ task'.target \in Versions
    BY <1>2, Blanks, TaskHolds DEF Promote
  <2>4. TypeOK'
    BY <2>1, <2>2, <2>3 DEF TypeOK
  <2>5. Launchable' /\ Returns' /\ Removal'
    BY <2>1, <2>3 DEF Launchable, Returns, Removal
  <2>6. QED
    BY <2>4, <2>5
<1>3. ASSUME NEW v \in Versions, Restore(v) PROVE UpdateInv'
  <2>1. /\ UNCHANGED <<link, slots, staged, journal, boot, proc, runs, memory, shown,
                       dwell, due, cut, starts>>
        /\ proc = "up"
    BY <1>3 DEF Restore, disk
  <2>2. changes' \in 0 .. MaxChanges
    BY <1>3, UpdateAssumption DEF Restore, TypeOK, UpdateAssumption
  <2>3. PICK r \in Record : r = Restored(journal, v) /\ r.state = "confirmed"
    BY WrittenRecords DEF TypeOK
  <2>4. task' \in Task /\ task'.at = "journal" /\ task'.kind = "restore"
        /\ task'.record = r
    BY <1>3, <2>3, TaskHolds DEF Restore
  <2>5. TypeOK'
    BY <2>1, <2>2, <2>4 DEF TypeOK
  <2>6. Launchable' /\ Returns' /\ Removal'
    BY <2>1, <2>3, <2>4 DEF Launchable, Returns, Removal
  <2>7. QED
    BY <2>5, <2>6
<1>4. CASE ActivationRefused
  <2>1. UNCHANGED <<link, slots, staged, journal, boot, proc, runs, memory, shown,
                    dwell, due, cut, starts, changes>> /\ task' = NoTask
    BY <1>4 DEF ActivationRefused, disk, history
  <2>2. TypeOK'
    BY <2>1, Blanks DEF TypeOK
  <2>3. Launchable' /\ Returns' /\ Removal'
    BY <2>1, NoTaskFacts DEF Launchable, Returns, Removal
  <2>4. QED
    BY <2>2, <2>3
<1>5. CASE ActivationIntended
  <2>1. UNCHANGED <<link, slots, staged, journal, boot, proc, runs, memory, shown,
                    dwell, due, cut, starts, changes>>
    BY <1>5 DEF ActivationIntended, disk, history
  <2>2. task.target \in Versions /\ link \in slots /\ proc \notin {"off", "launcher"}
    BY <1>5, NoTaskFacts DEF ActivationIntended, Returns, Removal, Launchable
  <2>3. PICK r \in Record : r = Trial(journal, task.target) /\ r.previous = link
    BY <2>2, WrittenRecords DEF TypeOK
  <2>4. task' \in Task /\ task'.at = "journal" /\ task'.kind = "activate"
        /\ task'.record = r
    BY <1>5, <2>2, <2>3, TaskHolds DEF ActivationIntended
  <2>5. TypeOK'
    BY <2>1, <2>4 DEF TypeOK
  <2>6. Launchable' /\ Returns' /\ Removal'
    BY <2>1, <2>2, <2>3, <2>4 DEF Launchable, Returns, Removal
  <2>7. QED
    BY <2>5, <2>6
<1>6. QED
  BY <1>1, <1>2, <1>3, <1>4, <1>5 DEF Change

LEMMA ExitStep ==
  ASSUME UpdateInv, Exit
  PROVE  UpdateInv'
<1> USE DEF UpdateInv
<1>1. /\ UNCHANGED <<link, slots, staged, journal, boot, starts, changes>>
      /\ proc' = "off" /\ runs' = None /\ memory' = Blank /\ shown' = Nothing
      /\ dwell' = FALSE /\ due' = FALSE /\ task' = NoTask /\ cut' \in BOOLEAN
  BY DEF Exit, disk, HalfDone, TypeOK
<1>2. TypeOK'
  BY <1>1, Blanks DEF TypeOK
<1>3. Launchable' /\ Returns' /\ Removal'
  BY <1>1, NoTaskFacts DEF Launchable, Returns, Removal
<1>4. QED
  BY <1>2, <1>3

LEMMA UpdateStep == UpdateInv /\ [Next]_vars => UpdateInv'
<1>1. ASSUME UpdateInv, UNCHANGED vars PROVE UpdateInv'
  BY <1>1 DEF vars, disk, process, history, UpdateInv, TypeOK, Launchable, Returns, Removal
<1>2. QED
  BY <1>1, LaunchStep, WriteStep, RunStep, ChangeStep, ExitStep DEF Next
-----------------------------------------------------------------------------
(* Every variable keeps its type.                                          *)
THEOREM UpdateTypes == Spec => []TypeOK
<1>1. UpdateInv => TypeOK
  BY DEF UpdateInv
<1>2. QED
  BY <1>1, InitUpdate, UpdateStep, PTL DEF Spec

(* "An interruption leaves either the previous slot or the new slot        *)
(* active" (update/installer.py): whatever stops between two writes, the   *)
(* link names an installed version, and as long as the launcher counts     *)
(* starts the version it would go back to is installed too.                *)
THEOREM AlwaysLaunchable == Spec => []Launchable
<1>1. UpdateInv => Launchable
  BY DEF UpdateInv
<1>2. QED
  BY <1>1, InitUpdate, UpdateStep, PTL DEF Spec

-----------------------------------------------------------------------------
(* Trials: who may end them, and what watches them.                        *)

(* A process that believes in a trial believes in the one of the journal,  *)
(* and has found due only what it runs itself.                             *)
Believes ==
  /\ memory.state = "probation" =>
       /\ proc = "up" /\ shown.state = "probation"
       /\ memory.active = link /\ memory.pending = journal.pending
  /\ due => /\ proc = "up"
            /\ \/ memory.state = "probation" /\ link = runs /\ dwell
               \/ task.kind = "restore" /\ task.at = "restart"

Initialising ==
  /\ proc = "starting" /\ task.at \in {"journal", "boot"}
  /\ task.record.state = "probation" => task.record.active = link
  /\ task.at = "journal" => task.record = Reconciled(journal)

Confirming ==
  /\ proc = "up" /\ task.at \in {"journal", "boot", "prune"}
  /\ memory.state # "probation"
  /\ task.at = "journal" =>
       link = runs /\ dwell /\ task.record.pending = journal.pending \ {link}

Activating ==
  /\ proc = "up" /\ task.at \in {"promoted", "journal", "boot", "link", "restart"}
  /\ task.at = "restart" => link # runs
  /\ task.at # "restart" => memory.state # "probation" /\ link = runs /\ task.target # link
  /\ task.at \in {"promoted", "journal"} => journal.state # "probation"
  /\ task.at = "journal" => task.record = Trial(journal, task.target)
  /\ task.at \in {"boot", "link"} =>
       /\ task.record.state = "probation" /\ task.record.active = task.target
       /\ task.record.previous = link /\ task.target \in task.record.pending

Restoring ==
  /\ proc = "up" /\ task.at \in {"journal", "boot", "link", "restart"}
  /\ task.record.state = "confirmed"
  /\ task.at = "restart" => memory.state # "probation"
  /\ task.at # "restart" => task.target \notin task.record.pending
  /\ task.at = "journal" => task.record.pending = journal.pending

Underway ==
  /\ task.kind = "none" => task.at = "none"
  /\ task.kind = "initialise" => Initialising
  /\ task.kind = "confirm" => Confirming
  /\ task.kind = "activate" => Activating
  /\ task.kind = "restore" => Restoring
  /\ task.at \in {"boot", "link"} => journal = task.record
  /\ task.at = "link" => boot.state = task.record.state

(* A trial is in both records, and what they would go back to is not on    *)
(* trial itself.                                                           *)
Watched ==
  /\ journal.state = "probation" => journal.previous \notin journal.pending
  /\ boot.state = "probation" =>
       /\ boot.previous \notin journal.pending
       /\ \/ link \in journal.pending \/ boot.previous = link
          \/ task.kind = "confirm" /\ task.at = "boot"
  /\ link \in journal.pending =>
       \/ task.kind = "restore" /\ task.at \in {"boot", "link"}
       \/ boot.state = "probation" /\ journal.state = "probation" /\ journal.active = link
  /\ proc = "launcher" => link \notin journal.pending

TrialMarked == journal.state = "probation" => journal.active \in journal.pending

Trials == Believes /\ Underway /\ TrialMarked /\ (~cut => Watched)

TrialInv == UpdateInv /\ Trials

LEMMA RecordFields ==
  ASSUME NEW r \in Record, NEW v
  PROVE  /\ Confirmed(r).pending = r.pending \ {r.active} /\ Confirmed(r).state = "confirmed"
         /\ Trial(r, v).state = "probation" /\ Trial(r, v).active = v
         /\ Trial(r, v).previous = link /\ Trial(r, v).pending = r.pending \union {v}
         /\ Restored(r, v).state = "confirmed" /\ Restored(r, v).pending = r.pending
BY DEF Confirmed, Trial, Restored, Record

(* Reconciling with the link neither marks nor clears a version, and leaves *)
(* the trial of the active version alone.                                  *)
LEMMA ReconciledFields ==
  ASSUME NEW r \in Record, r.state = "probation" => r.active \in r.pending
  PROVE  /\ Reconciled(r).pending = r.pending
         /\ Reconciled(r).state = "probation" => Reconciled(r) = r /\ r.active = link
         /\ r.state = "probation" /\ r.active = link => Reconciled(r) = r
<1>1. CASE r.active # link
  <2>1. PICK s \in {"rolled_back", "confirmed"} :
          s = IF WatchdogActed(r) THEN "rolled_back" ELSE "confirmed"
    OBVIOUS
  <2>2. r.pending = IF WatchdogActed(r) /\ r.active # None
                    THEN r.pending \union {r.active} ELSE r.pending
    BY DEF WatchdogActed
  <2>3. Reconciled(r) = [r EXCEPT !.state = s, !.active = link, !.pending = r.pending]
    BY <1>1, <2>1, <2>2 DEF Reconciled
  <2>4. QED
    BY <1>1, <2>3 DEF Record
<1>2. CASE r.active = link /\ r.state = "unmanaged"
  <2>1. Reconciled(r) = [r EXCEPT !.state = "confirmed"]
    BY <1>2 DEF Reconciled
  <2>2. QED
    BY <1>2, <2>1 DEF Record
<1>3. CASE r.active = link /\ r.state # "unmanaged"
  BY <1>3 DEF Reconciled
<1>4. QED
  BY <1>1, <1>2, <1>3

(* Nothing is under way and nothing on trial is remembered.                *)
LEMMA InitTrials == Init => Trials
BY NoTaskFacts DEF Init, Trials, Believes, Underway, TrialMarked, Watched, NoTask, Blank

LEMMA NoneUnderway == task' = NoTask => Underway'
BY NoTaskFacts DEF Underway

LEMMA LaunchTrials ==
  ASSUME TrialInv, Launch
  PROVE  Trials'
<1> USE DEF TrialInv, Trials
<1>1. proc \in {"off", "launcher"} /\ task = NoTask /\ UNCHANGED task
  <2>1. proc \in {"off", "launcher"}
    BY DEF Launch, LaunchPlain, LaunchCounted, WatchdogRestores, WatchdogRecords,
           WatchdogFails
  <2>2. QED
    BY <2>1 DEF UpdateInv, Removal, Launch, LaunchPlain, LaunchCounted, WatchdogRestores,
                WatchdogRecords, WatchdogFails
<1>2. /\ UNCHANGED <<journal, memory, shown, due, cut>>
      /\ proc' \in {"off", "launcher", "starting"}
  BY DEF Launch, LaunchPlain, LaunchCounted, WatchdogRestores, WatchdogRecords,
         WatchdogFails, disk, history, Exec
<1>3. memory.state # "probation" /\ ~due
  BY <1>1 DEF Believes
<1>4. Believes' /\ TrialMarked'
  BY <1>2, <1>3 DEF Believes, TrialMarked
<1>5. ASSUME ~cut PROVE Watched'
  <2>1. Watched /\ boot \in BootRecord
    BY <1>5 DEF UpdateInv, TypeOK
  <2>2. CASE WatchdogRestores
    BY <1>1, <1>2, <2>1, <2>2 DEF WatchdogRestores, OnTrial, Watched
  <2>3. CASE WatchdogRecords(TRUE)
    BY <1>1, <1>2, <2>1, <2>3, NoTaskFacts DEF WatchdogRecords, Watched, Exec
  <2>4. CASE ~WatchdogRestores /\ ~WatchdogRecords(TRUE)
    <3>1. /\ link' = link /\ proc' # "launcher"
          /\ boot' = boot \/ boot' = Counted
      BY <2>4 DEF Launch, LaunchPlain, LaunchCounted, WatchdogRecords, WatchdogFails, disk, Exec
    <3>2. boot'.state = boot.state /\ boot'.previous = boot.previous
      BY <2>1, <3>1, CountedType
    <3>3. QED
      BY <1>1, <1>2, <2>1, <3>1, <3>2 DEF Watched
  <2>5. QED
    BY <2>2, <2>3, <2>4
<1>6. QED
  BY <1>1, <1>2, <1>4, <1>5, NoneUnderway

LEMMA SaveJournalTrials ==
  ASSUME TrialInv, SaveJournal
  PROVE  Trials'
<1> USE DEF TrialInv, Trials
<1>1. /\ task.at = "journal" /\ journal' = task.record
      /\ UNCHANGED <<link, boot, proc, runs, memory, shown, dwell, due, cut>>
      /\ journal \in Record /\ task \in Task
  BY DEF SaveJournal, history, UpdateInv, TypeOK
<1>2. /\ task'.at = "boot" /\ task'.kind = task.kind /\ task'.record = task.record
      /\ task'.target = task.target
  BY <1>1 DEF SaveJournal, Task
<1>3. task.kind \in {"initialise", "confirm", "activate", "restore"}
  BY <1>1 DEF Underway, Task
<1>4. CASE task.kind = "initialise"
  <2>1. Initialising
    BY <1>4 DEF Underway
  <2>2. memory.state # "probation" /\ ~due
    BY <2>1 DEF Initialising, Believes
  <2>3. /\ journal'.pending = journal.pending
        /\ journal'.state = "probation" => journal' = journal
        /\ journal.state = "probation" /\ journal.active = link => journal' = journal
    BY <1>1, <2>1, ReconciledFields DEF Initialising, TrialMarked
  <2>4. Believes' /\ Underway' /\ TrialMarked'
    BY <1>1, <1>2, <1>4, <2>1, <2>2, <2>3
       DEF Believes, Underway, Initialising, TrialMarked
  <2>5. ~cut => Watched'
    BY <1>1, <1>2, <1>4, <2>3 DEF Watched
  <2>6. QED
    BY <1>1, <2>4, <2>5
<1>5. CASE task.kind = "confirm"
  <2>1. Confirming /\ task.record.state = "confirmed"
    BY <1>5 DEF Underway, UpdateInv, Removal
  <2>2. journal'.pending = journal.pending \ {link} /\ journal'.state = "confirmed"
    BY <1>1, <2>1 DEF Confirming
  <2>3. Believes' /\ Underway' /\ TrialMarked'
    BY <1>1, <1>2, <1>5, <2>1, <2>2 DEF Believes, Underway, Confirming, TrialMarked
  <2>4. ~cut => Watched'
    BY <1>1, <1>2, <1>5, <2>1, <2>2 DEF Watched
  <2>5. QED
    BY <1>1, <2>3, <2>4
<1>6. CASE task.kind = "activate"
  <2>1. Activating
    BY <1>6 DEF Underway
  <2>2. /\ journal'.state = "probation" /\ journal'.active = task.target
        /\ journal'.previous = link /\ journal'.pending = journal.pending \union {task.target}
    BY <1>1, <2>1, RecordFields DEF Activating
  <2>3. Believes' /\ Underway' /\ TrialMarked'
    BY <1>1, <1>2, <1>6, <2>1, <2>2 DEF Believes, Underway, Activating, TrialMarked
  <2>4. ~cut => Watched'
    BY <1>1, <1>2, <1>6, <2>1, <2>2 DEF Watched, Activating
  <2>5. QED
    BY <1>1, <2>3, <2>4
<1>7. CASE task.kind = "restore"
  <2>1. Restoring
    BY <1>7 DEF Underway
  <2>2. journal'.state = "confirmed" /\ journal'.pending = journal.pending
    BY <1>1, <2>1 DEF Restoring
  <2>3. Believes' /\ Underway' /\ TrialMarked'
    BY <1>1, <1>2, <1>7, <2>1, <2>2 DEF Believes, Underway, Restoring, TrialMarked
  <2>4. ~cut => Watched'
    BY <1>1, <1>2, <1>7, <2>1, <2>2 DEF Watched, Restoring
  <2>5. QED
    BY <1>1, <2>3, <2>4
<1>8. QED
  BY <1>3, <1>4, <1>5, <1>6, <1>7

LEMMA SaveBootTrials ==
  ASSUME TrialInv, SaveBoot
  PROVE  Trials'
<1> USE DEF TrialInv, Trials
<1>1. /\ task.at = "boot" /\ journal = task.record /\ task \in Task /\ task.record \in Record
      /\ UNCHANGED <<link, journal, runs, dwell, due, cut>>
  BY DEF SaveBoot, history, UpdateInv, TypeOK, Underway, Task
<1>2. boot'.state = journal.state /\ boot'.previous = journal.previous
  BY <1>1, BootOfType DEF SaveBoot
<1>3. TrialMarked'
  BY <1>1 DEF TrialMarked
<1>4. CASE task.kind = "initialise"
  <2>1. /\ memory' = journal /\ shown' = Published(journal)
        /\ proc' = "up" /\ task' = NoTask
    BY <1>1, <1>4 DEF SaveBoot
  <2>2. Initialising /\ shown'.state = journal.state
    BY <1>4, <2>1 DEF Underway, Published
  <2>3. ~due
    BY <2>2 DEF Initialising, Believes
  <2>4. Believes'
    BY <1>1, <2>1, <2>2, <2>3 DEF Initialising, Believes
  <2>5. ~cut => Watched'
    BY <1>1, <1>2, <1>4, <2>1, <2>2, NoTaskFacts DEF Watched, Initialising, TrialMarked
  <2>6. QED
    BY <1>1, <1>3, <2>1, <2>4, <2>5, NoneUnderway
<1>5. CASE task.kind # "initialise"
  <2>1. PICK at \in {"prune", "link"} :
          /\ task' = [task EXCEPT !.at = at] /\ UNCHANGED <<memory, shown, proc>>
          /\ at = "prune" <=> task.kind = "confirm"
          /\ at = "link" => task.kind \in {"activate", "restore"}
    BY <1>5 DEF SaveBoot
  <2>2. /\ task'.at = at /\ task'.kind = task.kind /\ task'.record = task.record
        /\ task'.target = task.target
    BY <1>1, <2>1 DEF Task
  <2>3. Believes'
    BY <1>1, <2>1, <2>2 DEF Believes
  <2>4. Underway'
    BY <1>1, <1>2, <2>1, <2>2 DEF Underway, Confirming, Activating, Restoring
  <2>5. ASSUME ~cut PROVE Watched'
    <3>1. CASE task.kind = "confirm"
      <4>1. journal.state = "confirmed"
        BY <1>1, <3>1 DEF UpdateInv, Removal
      <4>2. QED
        BY <1>1, <1>2, <2>1, <2>2, <2>5, <3>1, <4>1 DEF Watched
    <3>2. CASE task.kind = "activate"
      BY <1>1, <1>2, <2>1, <2>2, <2>5, <3>2 DEF Watched, Underway, Activating
    <3>3. CASE task.kind = "restore"
      BY <1>1, <1>2, <2>1, <2>2, <2>5, <3>3 DEF Watched, Underway, Restoring
    <3>4. QED
      BY <2>1, <3>1, <3>2, <3>3
  <2>6. QED
    BY <1>1, <1>3, <2>3, <2>4, <2>5
<1>6. QED
  BY <1>4, <1>5

LEMMA SaveFailsTrials ==
  ASSUME TrialInv, SaveFails
  PROVE  Trials'
<1> USE DEF TrialInv, Trials
<1>1. /\ task.at \in {"journal", "boot"} /\ task' = NoTask
      /\ UNCHANGED <<link, journal, boot, runs, dwell, due>>
      /\ ~cut' => ~cut /\ ~HalfDone
  BY DEF SaveFails, disk
<1>2. TrialMarked'
  BY <1>1 DEF TrialMarked
<1>3. CASE task.kind = "initialise"
  <2>1. memory' = Blank /\ proc' = "up"
    BY <1>3 DEF SaveFails
  <2>2. ~due
    BY <1>3 DEF Underway, Initialising, Believes
  <2>3. Believes'
    BY <1>1, <2>1, <2>2, NoTaskFacts DEF Believes
  <2>4. ~cut' => Watched'
    BY <1>1, <1>3, <2>1, NoTaskFacts DEF Watched
  <2>5. QED
    BY <1>1, <1>2, <2>3, <2>4, NoneUnderway
<1>4. CASE task.kind # "initialise"
  <2>1. UNCHANGED <<memory, shown, proc>>
    BY <1>4 DEF SaveFails
  <2>2. Believes'
    BY <1>1, <2>1, NoTaskFacts DEF Believes
  <2>3. ~cut' => Watched'
    BY <1>1, <2>1, NoTaskFacts DEF Watched, HalfDone
  <2>4. QED
    BY <1>1, <1>2, <2>2, <2>3, NoneUnderway
<1>5. QED
  BY <1>3, <1>4

LEMMA SwapLinkTrials ==
  ASSUME TrialInv, SwapLink
  PROVE  Trials'
<1> USE DEF TrialInv, Trials
<1>1. /\ task.at = "link" /\ link' = task.target /\ memory' = journal
      /\ UNCHANGED <<journal, boot, proc, runs, dwell, due, cut>>
      /\ journal = task.record /\ boot.state = journal.state /\ task \in Task
  BY DEF SwapLink, Underway, UpdateInv, TypeOK
<1>2. /\ task'.at = "restart" /\ task'.kind = task.kind /\ task'.record = task.record
  BY <1>1 DEF SwapLink, Task
<1>3. shown'.state = journal.state
  BY <1>1 DEF SwapLink, Published
<1>4. TrialMarked'
  BY <1>1 DEF TrialMarked
<1>5. task.kind \in {"activate", "restore"}
  BY <1>1 DEF Underway, Initialising, Confirming, Task
<1>6. CASE task.kind = "activate"
  <2>1. Activating
    BY <1>6 DEF Underway
  <2>2. ~due
    BY <1>1, <2>1 DEF Activating, Believes
  <2>3. Believes' /\ Underway'
    BY <1>1, <1>2, <1>3, <1>6, <2>1, <2>2 DEF Activating, Believes, Underway
  <2>4. ~cut => Watched'
    BY <1>1, <1>2, <1>6, <2>1 DEF Activating, Watched
  <2>5. QED
    BY <1>1, <1>4, <2>3, <2>4
<1>7. CASE task.kind = "restore"
  <2>1. Restoring
    BY <1>7 DEF Underway
  <2>2. Believes' /\ Underway'
    BY <1>1, <1>2, <1>3, <1>7, <2>1 DEF Restoring, Believes, Underway
  <2>3. ~cut => Watched'
    BY <1>1, <1>2, <1>7, <2>1 DEF Restoring, Watched
  <2>4. QED
    BY <1>1, <1>4, <2>2, <2>3
<1>8. QED
  BY <1>5, <1>6, <1>7

(* Steps that leave the records and the process alone.                     *)
LEMMA EndsTrials ==
  ASSUME TrialInv, SwapFails \/ Prune \/ ActivationRefused
  PROVE  Trials'
<1> USE DEF TrialInv, Trials
<1>1. /\ task.at \in {"link", "prune", "promoted"} /\ task' = NoTask
      /\ UNCHANGED <<link, journal, boot, proc, runs, memory, shown, dwell, due>>
      /\ ~cut' => ~cut /\ ~(task.kind = "restore" /\ task.at \in {"boot", "link"})
  <2>1. CASE SwapFails
    BY <2>1 DEF SwapFails, disk, HalfDone
  <2>2. CASE Prune
    BY <2>2 DEF Prune, history
  <2>3. CASE ActivationRefused
    BY <2>3 DEF ActivationRefused, disk, history
  <2>4. QED
    BY <2>1, <2>2, <2>3
<1>2. Believes' /\ TrialMarked'
  BY <1>1, NoTaskFacts DEF Believes, TrialMarked
<1>3. ~cut' => Watched'
  BY <1>1, NoTaskFacts DEF Watched
<1>4. QED
  BY <1>1, <1>2, <1>3, NoneUnderway

LEMMA ExitTrials ==
  ASSUME TrialInv, Exit
  PROVE  Trials'
<1> USE DEF TrialInv, Trials
<1>1. /\ task' = NoTask /\ proc' = "off" /\ memory' = Blank /\ ~due'
      /\ UNCHANGED <<link, journal, boot>>
      /\ ~cut' => ~cut /\ ~HalfDone
  BY DEF Exit, disk
<1>2. Believes' /\ TrialMarked'
  BY <1>1, NoTaskFacts DEF Believes, TrialMarked
<1>3. ~cut' => Watched'
  BY <1>1, NoTaskFacts DEF Watched, HalfDone
<1>4. QED
  BY <1>1, <1>2, <1>3, NoneUnderway

LEMMA RunTrials ==
  ASSUME TrialInv, Run
  PROVE  Trials'
<1> USE DEF TrialInv, Trials
<1>1. /\ UNCHANGED <<link, journal, boot, proc, runs, cut>> /\ journal \in Record
      /\ memory \in Record /\ dwell \in BOOLEAN /\ due \in BOOLEAN
  BY DEF Run, Prepare, Dwells, CheckHealth, Confirm, Refresh, disk, history, UpdateInv, TypeOK
<1>2. TrialMarked'
  BY <1>1 DEF TrialMarked
<1>3. CASE Prepare
  <2>1. PICK r \in Record :
          /\ r = Reconciled(journal) /\ (r.state = "probation" => r.active = link)
    <3>1. Reconciled(journal) \in Record
      BY ReconciledRecord DEF UpdateInv, TypeOK
    <3>2. Reconciled(journal).state = "probation" => Reconciled(journal).active = link
      BY <1>1, ReconciledFields DEF TrialMarked
    <3>3. QED
      BY <3>1, <3>2
  <2>2. /\ task = NoTask /\ proc = "starting" /\ UNCHANGED <<memory, shown, dwell, due>>
        /\ Hold("initialise", "journal", None, r)
    BY <1>3, <2>1 DEF Prepare
  <2>3. task'.at = "journal" /\ task'.kind = "initialise" /\ task'.record = r
    BY <2>2, TaskHolds
  <2>4. Reconciled(journal)' = Reconciled(journal)
    BY <1>1 DEF Reconciled, WatchdogActed
  <2>5. Believes' /\ Underway'
    BY <1>1, <2>1, <2>2, <2>3, <2>4 DEF Believes, Underway, Initialising
  <2>6. ~cut => Watched'
    BY <1>1, <2>2, <2>3, NoTaskFacts DEF Watched
  <2>7. QED
    BY <1>1, <1>2, <2>5, <2>6
<1>4. CASE Dwells \/ CheckHealth \/ Refresh
  <2>1. UNCHANGED <<task, memory>> /\ (dwell => dwell')
    BY <1>4 DEF Dwells, CheckHealth, Refresh
  <2>2. memory.state = "probation" => shown'.state = "probation"
    BY <1>4 DEF Dwells, CheckHealth, Refresh, Believes, Published
  <2>3. due' => \/ due
                \/ proc = "up" /\ memory.state = "probation" /\ link = runs /\ dwell
    BY <1>4 DEF Dwells, CheckHealth, Refresh, MayConfirm
  <2>4. Believes'
    BY <1>1, <2>1, <2>2, <2>3 DEF Believes
  <2>5. Underway'
    BY <1>1, <2>1 DEF Underway, Initialising, Confirming, Activating, Restoring, Reconciled,
                      WatchdogActed, Trial
  <2>6. ~cut => Watched'
    BY <1>1, <2>1 DEF Watched
  <2>7. QED
    BY <1>1, <1>2, <2>4, <2>5, <2>6
<1>5. CASE Confirm /\ memory.state # "probation"
  <2>1. UNCHANGED <<task, memory, shown, dwell>> /\ ~due'
    BY <1>5 DEF Confirm
  <2>2. Believes' /\ (~cut => Watched')
    BY <1>1, <2>1 DEF Believes, Watched
  <2>3. Underway'
    BY <1>1, <2>1 DEF Underway, Initialising, Confirming, Activating, Restoring, Reconciled,
                      WatchdogActed, Trial
  <2>4. QED
    BY <1>1, <1>2, <2>2, <2>3
<1>6. CASE Confirm /\ memory.state = "probation"
  <2>1. PICK r \in Record :
          /\ r = Confirmed(memory) /\ r.state = "confirmed"
          /\ r.pending = memory.pending \ {memory.active}
    BY <1>1, WrittenRecords, RecordFields DEF UpdateInv, TypeOK
  <2>2. /\ Hold("confirm", "journal", None, r) /\ memory' = r /\ UNCHANGED <<shown, dwell>>
        /\ proc = "up" /\ due /\ ~due' /\ LockFree
    BY <1>6, <2>1 DEF Confirm
  <2>3. task'.at = "journal" /\ task'.kind = "confirm" /\ task'.record = r
    BY <2>2, TaskHolds
  <2>4. link = runs /\ dwell /\ memory.active = link /\ memory.pending = journal.pending
    BY <1>6, <2>2 DEF Believes, Underway, Restoring
  <2>5. Believes'
    BY <2>1, <2>2 DEF Believes
  <2>6. Confirming'
    BY <1>1, <2>1, <2>2, <2>3, <2>4 DEF Confirming
  <2>7. Underway'
    BY <2>3, <2>6 DEF Underway
  <2>8. ~cut => Watched'
    BY <1>1, <2>2, <2>3 DEF Watched, LockFree
  <2>9. QED
    BY <1>1, <1>2, <2>5, <2>7, <2>8
<1>7. QED
  BY <1>3, <1>4, <1>5, <1>6 DEF Run

LEMMA ChangeTrials ==
  ASSUME TrialInv, Change
  PROVE  Trials'
<1> USE DEF TrialInv, Trials
<1>1. CASE ActivationRefused
  BY <1>1, EndsTrials
<1>2. CASE Change /\ ~ActivationRefused
  <2>1. /\ UNCHANGED <<link, journal, boot, proc, runs, memory, shown, dwell, due, cut>>
        /\ task.at \in {"none", "promoted"} \/ UNCHANGED task
        /\ journal \in Record /\ memory \in Record /\ dwell \in BOOLEAN
    BY <1>2 DEF Change, StagePackage, Promote, Restore, ActivationIntended, disk, process,
                history, NoTask, UpdateInv, TypeOK
  <2>2. TrialMarked'
    BY <2>1 DEF TrialMarked
  <2>3. ASSUME NEW v \in Versions, StagePackage(v) PROVE Trials'
    <3>1. UNCHANGED task
      BY <2>3 DEF StagePackage, process
    <3>2. Believes' /\ (~cut => Watched')
      BY <2>1, <3>1 DEF Believes, Watched
    <3>3. Underway'
      BY <2>1, <3>1 DEF Underway, Initialising, Confirming, Activating, Restoring,
                        Reconciled, WatchdogActed, Trial
    <3>4. QED
      BY <2>1, <2>2, <3>2, <3>3
  <2>4. ASSUME NEW v \in Versions, Promote(v) PROVE Trials'
    <3>1. /\ Hold("activate", "promoted", v, Blank) /\ task = NoTask /\ proc = "up"
          /\ link = runs /\ v > link /\ shown.state # "probation"
          /\ journal.state # "probation"
      BY <2>4 DEF Promote, MayActivate
    <3>2. /\ task'.at = "promoted" /\ task'.kind = "activate" /\ task'.target = v
      BY <3>1, Blanks, TaskHolds
    <3>3. v # link
      BY <2>4, <3>1, UpdateAssumption DEF UpdateInv, TypeOK, UpdateAssumption
    <3>4. memory.state # "probation"
      BY <3>1 DEF Believes
    <3>5. Believes' /\ Underway'
      BY <2>1, <3>1, <3>2, <3>3, <3>4, NoTaskFacts DEF Believes, Underway, Activating
    <3>6. ~cut => Watched'
      BY <2>1, <3>1, <3>2, NoTaskFacts DEF Watched
    <3>7. QED
      BY <2>1, <2>2, <3>5, <3>6
  <2>5. ASSUME NEW v \in Versions, Restore(v) PROVE Trials'
    <3>1. PICK r \in Record :
            /\ r = Restored(journal, v) /\ r.state = "confirmed"
            /\ r.pending = journal.pending
      BY <2>1, WrittenRecords, RecordFields DEF UpdateInv, TypeOK
    <3>2. /\ Hold("restore", "journal", v, r) /\ task = NoTask /\ proc = "up"
          /\ v \notin journal.pending
      BY <2>5, <3>1 DEF Restore, Candidates
    <3>3. /\ task'.at = "journal" /\ task'.kind = "restore" /\ task'.target = v
          /\ task'.record = r
      BY <3>1, <3>2, TaskHolds
    <3>4. Believes' /\ Underway'
      BY <2>1, <3>1, <3>2, <3>3, NoTaskFacts DEF Believes, Underway, Restoring
    <3>5. ~cut => Watched'
      BY <2>1, <3>2, <3>3, NoTaskFacts DEF Watched
    <3>6. QED
      BY <2>1, <2>2, <3>4, <3>5
  <2>6. CASE ActivationIntended
    <3>1. /\ task.at = "promoted" /\ task.target \in Versions
      BY <2>6 DEF ActivationIntended, UpdateInv, Returns
    <3>2. Activating
      BY <3>1 DEF Underway, Initialising, Confirming, Restoring, UpdateInv, TypeOK, Task
    <3>3. PICK r \in Record : r = Trial(journal, task.target)
      BY <2>1, <3>1, WrittenRecords DEF UpdateInv, TypeOK
    <3>4. Hold("activate", "journal", task.target, r)
      BY <2>6, <3>3 DEF ActivationIntended
    <3>5. /\ task'.at = "journal" /\ task'.kind = "activate" /\ task'.target = task.target
          /\ task'.record = r
      BY <3>1, <3>4, TaskHolds
    <3>6. Trial(journal, task.target)' = Trial(journal, task.target)
      BY <2>1, <3>5 DEF Trial
    <3>7. Believes' /\ Underway'
      BY <2>1, <3>1, <3>2, <3>3, <3>5, <3>6 DEF Believes, Underway, Activating
    <3>8. ~cut => Watched'
      BY <2>1, <3>1, <3>5 DEF Watched
    <3>9. QED
      BY <2>1, <2>2, <3>7, <3>8
  <2>7. QED
    BY <1>2, <2>3, <2>4, <2>5, <2>6 DEF Change
<1>3. QED
  BY <1>1, <1>2

LEMMA TrialStep == TrialInv /\ [Next]_vars => TrialInv'
<1> SUFFICES ASSUME TrialInv, [Next]_vars PROVE TrialInv'
  OBVIOUS
<1>1. UpdateInv'
  BY UpdateStep DEF TrialInv
<1>2. CASE UNCHANGED vars
  <2>1. UNCHANGED <<link, journal, boot, proc, runs, memory, shown, dwell, due, task, cut>>
    BY <1>2 DEF vars, disk, process, history
  <2>2. Believes' /\ TrialMarked' /\ (~cut' => Watched')
    BY <2>1 DEF TrialInv, Trials, Believes, TrialMarked, Watched
  <2>3. Underway'
    BY <2>1 DEF TrialInv, Trials, Underway, Initialising, Confirming, Activating, Restoring,
                Reconciled, WatchdogActed, Trial
  <2>4. QED
    BY <1>1, <2>2, <2>3 DEF TrialInv, Trials
<1>3. CASE Next
  <2>1. Trials'
    BY <1>3, LaunchTrials, SaveJournalTrials, SaveBootTrials, SaveFailsTrials, SwapLinkTrials,
       EndsTrials, ExitTrials, RunTrials, ChangeTrials DEF Next, Write
  <2>2. QED
    BY <1>1, <2>1 DEF TrialInv
<1>4. QED
  BY <1>2, <1>3

LEMMA TrialInvariant == Spec => []TrialInv
<1>1. Init => TrialInv
  BY InitUpdate, InitTrials DEF TrialInv
<1>2. QED
  BY <1>1, TrialStep, PTL DEF Spec

(* A version on trial is counted by the launcher whenever the terminal is  *)
(* off: between the records of an activation, a confirmation, a restore of *)
(* the watchdog and a failed write there is no order that leaves it out,   *)
(* unless a restore or a confirmation was cut off half way.                *)
THEOREM TrialsAreSupervised == Spec => []Supervised
<1>1. TrialInv => Supervised
  BY NoTaskFacts DEF TrialInv, UpdateInv, Removal, Trials, Watched, Supervised
<1>2. QED
  BY <1>1, TrialInvariant, PTL

(* The launcher never goes back to a version that is itself on trial.      *)
THEOREM FallbackIsAccepted == Spec => []AcceptedFallback
<1>1. TrialInv => AcceptedFallback
  BY DEF TrialInv, Trials, Watched, AcceptedFallback
<1>2. QED
  BY <1>1, TrialInvariant, PTL

(* "An older process cannot confirm a newly selected slot": a mark is only *)
(* taken from the version that runs, is active and has proved healthy.     *)
THEOREM OnlyItselfIsConfirmed == Spec => ConfirmsItself
<1>1. TrialInv /\ [Next]_vars =>
        [\A v \in journal.pending \ journal'.pending : v = runs /\ v = link /\ dwell]_vars
  <2> SUFFICES ASSUME TrialInv, [Next]_vars, NEW v \in journal.pending \ journal'.pending
               PROVE  v = runs /\ v = link /\ dwell
    OBVIOUS
  <2>1. journal' # journal
    OBVIOUS
  <2>2. SaveJournal
    BY <2>1 DEF Next, Launch, LaunchPlain, LaunchCounted, WatchdogRestores, WatchdogRecords,
       WatchdogFails, Write, SaveBoot, SaveFails, SwapLink, SwapFails, Prune, Run, Prepare,
       Dwells, CheckHealth, Confirm, Refresh, Change, StagePackage, Promote, Restore,
       ActivationRefused, ActivationIntended, Exit, disk, vars
  <2>3. /\ task.at = "journal" /\ journal' = task.record
        /\ task.kind \in {"initialise", "confirm", "activate", "restore"}
    BY <2>2 DEF SaveJournal, TrialInv, Trials, Underway, UpdateInv, TypeOK, Task
  <2>4. journal \in Record /\ TrialMarked /\ Underway
    BY DEF TrialInv, Trials, UpdateInv, TypeOK
  <2>5. task.kind # "initialise"
    BY <2>3, <2>4, ReconciledFields DEF Underway, Initialising, TrialMarked
  <2>6. task.kind # "activate"
    BY <2>3, <2>4, RecordFields DEF Underway, Activating
  <2>7. task.kind # "restore"
    BY <2>3, <2>4 DEF Underway, Restoring
  <2>8. QED
    BY <2>3, <2>4, <2>5, <2>6, <2>7 DEF Underway, Confirming
<1>2. QED
  BY <1>1, TrialInvariant, PTL DEF Spec, ConfirmsItself

(* The watchdog only ever undoes a version on trial, unless a confirmation *)
(* was cut off between its two records.                                    *)
THEOREM HealthyIsSpared == Spec => WatchdogSpares
<1>1. TrialInv /\ [Next]_vars =>
        [proc' = "launcher" /\ link' # link => link \in journal.pending \/ cut]_vars
  <2> SUFFICES ASSUME TrialInv, [Next]_vars, proc' = "launcher", link' # link, ~cut
               PROVE  link \in journal.pending
    OBVIOUS
  <2>1. WatchdogRestores
    <3>1. WatchdogRestores \/ SwapLink
      BY DEF Next, Launch, LaunchPlain, LaunchCounted, WatchdogRecords,
       WatchdogFails, Write, SaveJournal, SaveBoot, SaveFails, SwapFails, Prune, Run, Prepare,
       Dwells, CheckHealth, Confirm, Refresh, Change, StagePackage, Promote, Restore,
       ActivationRefused, ActivationIntended, Exit, disk, vars
    <3>2. ~SwapLink
      BY NoTaskFacts DEF SwapLink, TrialInv, UpdateInv, Removal
    <3>3. QED
      BY <3>1, <3>2
  <2>2. task = NoTask
    BY <2>1 DEF WatchdogRestores, TrialInv, UpdateInv, Removal
  <2>3. QED
    BY <2>1, <2>2, NoTaskFacts DEF WatchdogRestores, OnTrial, TrialInv, Trials, Watched
<1>2. QED
  BY <1>1, TrialInvariant, PTL DEF Spec, WatchdogSpares
=============================================================================
