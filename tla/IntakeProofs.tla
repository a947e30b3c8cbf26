---------------------------- MODULE IntakeProofs ----------------------------
(***************************************************************************)
(* Proofs about Intake, for all packages, versions, drives and numbers of  *)
(* faults: what is selected is what was approved, and the newest candidate *)
(* is not given up.                                                        *)
(*                                                                         *)
(* The install lock decides which thread may change what (Locked). Under   *)
(* it an installation holds on to what was approved (Installing), and a    *)
(* scan to the newest candidate that was staged when it began (Scanning).  *)
(***************************************************************************)
EXTENDS Intake, FiniteSetTheorems, WellFoundedInduction, TLAPS

(* ---------------------------- the candidates --------------------------- *)
(* The installed and the staged versions are finitely many, so that there  *)
(* is a newest one.                                                        *)
LEMMA NewestIs ==
  ASSUME NEW ps \in SUBSET Packages, IsFiniteSet(ps), ps # {}
  PROVE  Newest(ps) \in ps /\ \A q \in ps : Version[q] <= Version[Newest(ps)]
<1> DEFINE Above(p) == {q \in ps : Version[q] > Version[p]}
           All == {Above(p) : p \in ps}
<1>1. \A p \in Packages : Version[p] \in Nat
  BY IntakeAssumption
<1>2. All \subseteq FiniteSubsetsOf(ps) /\ All # {}
  <2>1. ASSUME NEW p \in ps PROVE Above(p) \in FiniteSubsetsOf(ps)
    <3>1. Above(p) \in SUBSET ps
      OBVIOUS
    <3>2. IsFiniteSet(Above(p))
      BY <3>1, FS_Subset
    <3> QED BY <3>1, <3>2 DEF FiniteSubsetsOf
  <2> QED BY <2>1
<1>3. IsWellFoundedOn(StrictSubsetOrdering(ps), FiniteSubsetsOf(ps))
  BY FS_StrictSubsetOrderingWellFounded
<1> HIDE DEF All
<1>4. PICK a \in All : \A b \in All : ~(<<b, a>> \in StrictSubsetOrdering(ps))
  BY <1>2, <1>3, WFMin
<1> USE DEF All
<1>5. PICK p \in ps : a = Above(p)
  BY <1>4
<1>6. ASSUME NEW q \in ps, Version[q] > Version[p] PROVE FALSE
  <2>1. Above(q) \subseteq Above(p) /\ q \in Above(p) /\ q \notin Above(q)
    BY <1>1, <1>6
  <2>2. <<Above(q), Above(p)>> \in StrictSubsetOrdering(ps)
    BY <2>1 DEF StrictSubsetOrdering
  <2> QED BY <1>4, <1>5, <2>2
<1>7. \A q \in ps : Version[q] <= Version[p]
  BY <1>1, <1>6
<1> QED BY <1>7 DEF Newest

LEMMA WholeCopy ==
  ASSUME NEW c \in Copies
  PROVE  c.pkg \in Packages /\ (c.ok => c = Good(c.pkg))
<1>1. c.pkg \in Packages /\ c = [pkg |-> c.pkg, ok |-> c.ok] /\ c.ok \in BOOLEAN
  BY DEF Copies
<1>2. ASSUME c.ok PROVE c = Good(c.pkg)
  BY <1>1, <1>2 DEF Good
<1> QED BY <1>1, <1>2

(* What is read from the staging directory is the newest candidate there   *)
(* that is whole, may be installed and is not barred.                      *)
LEMMA NewestUsableIs ==
  ASSUME TypeOK, IsFiniteSet(staging), NEW over, NEW barred
  PROVE  LET p == NewestUsable(over, barred) IN
         /\ p # None => /\ p \in Packages /\ Good(p) \in staging
                        /\ Installable(p, over) /\ Version[p] \notin barred
         /\ \A c \in staging : c.ok /\ Installable(c.pkg, over) /\ Version[c.pkg] \notin barred
              => p # None /\ Version[c.pkg] <= Version[p]
<1> DEFINE ps == Usable(over, barred)
<1>1. /\ ps \in SUBSET Packages
      /\ \A p \in ps : Good(p) \in staging /\ Installable(p, over) /\ Version[p] \notin barred
  <2>1. staging \subseteq Copies
    BY DEF TypeOK
  <2>2. ASSUME NEW p \in ps
        PROVE  p \in Packages /\ Good(p) \in staging /\ Installable(p, over) /\ Version[p] \notin barred
    <3>1. PICK c \in staging :
            c.ok /\ Installable(c.pkg, over) /\ Version[c.pkg] \notin barred /\ p = c.pkg
      BY DEF Usable
    <3> QED BY <2>1, <3>1, WholeCopy
  <2> QED BY <2>2
<1>2. \A c \in staging : c.ok /\ Installable(c.pkg, over) /\ Version[c.pkg] \notin barred
        => c.pkg \in ps
  BY DEF Usable
<1>3. IsFiniteSet(ps)
  <2>1. [p \in ps |-> Good(p)] \in Injection(ps, staging)
    BY <1>1 DEF Injection, IsInjective, Good
  <2> QED BY <2>1, FS_Injection
<1> HIDE DEF ps
<1>4. None \notin Packages
  BY IntakeAssumption
<1>5. CASE ps = {}
  BY <1>2, <1>5 DEF NewestUsable, ps
<1>6. CASE ps # {}
  <2>1. Newest(ps) \in ps /\ \A q \in ps : Version[q] <= Version[Newest(ps)]
    BY <1>1, <1>3, <1>6, NewestIs
  <2>2. NewestUsable(over, barred) = Newest(ps)
    BY <1>6 DEF NewestUsable, ps
  <2> QED BY <1>1, <1>2, <1>4, <2>1, <2>2
<1> QED BY <1>5, <1>6

(* -------------------------------- types -------------------------------- *)
Stages ==
  {"idle", "scan", "copy", "discard", "reread", "publish", "check",
   "approved", "promote", "switch", "restart"}

Jobs == [at : Stages, todo : SUBSET Entries, found : Packages \union {None},
         kept : Packages \union {None}]

Typed == TypeOK /\ IsFiniteSet(staging)

LEMMA JobsTyped == TypeOK => job \in [Threads -> Jobs]
BY DEF TypeOK, Jobs, Stages

(* What becomes of a job is a job.                                         *)
LEMMA JobMade ==
  ASSUME NEW a \in Stages, NEW d \in SUBSET Entries, NEW f \in Packages \union {None},
         NEW k \in Packages \union {None}
  PROVE  [at |-> a, todo |-> d, found |-> f, kept |-> k] \in Jobs
BY DEF Jobs

LEMMA JobFields ==
  ASSUME NEW b \in Jobs
  PROVE  /\ b.at \in Stages /\ b.todo \subseteq Entries
         /\ b.found \in Packages \union {None} /\ b.kept \in Packages \union {None}
BY DEF Jobs

LEMMA JobMoves ==
  ASSUME TypeOK, NEW t \in Threads, NEW a \in Stages, Goes(t, a)
  PROVE  job' \in [Threads -> Jobs]
BY JobsTyped DEF Jobs, Goes

LEMMA JobFinds ==
  ASSUME TypeOK, NEW t \in Threads, NEW a \in Stages, NEW f \in Packages \union {None}
  PROVE  [job EXCEPT ![t].at = a, ![t].found = f] \in [Threads -> Jobs]
BY JobsTyped DEF Jobs

LEMMA JobDrops ==
  ASSUME TypeOK, NEW t \in Threads, NEW es, Drop(t, es)
  PROVE  job' \in [Threads -> Jobs]
BY JobsTyped DEF Jobs, Drop

LEMMA IdleJob == Idle \in Jobs
BY DEF Idle, Jobs, Stages

LEMMA JobsFinish ==
  ASSUME job' \in [Threads -> Jobs],
         drives' \in [Mounts -> Copies \union {NoCopy}],
         staging' \subseteq Copies, slots' \subseteq Copies,
         active' \in Packages, installed' \in Packages,
         trial' \in BOOLEAN, unchanged' \in BOOLEAN,
         blocked' \subseteq {Version[p] : p \in Packages},
         {shown, known, cache, prompt, approved}' \subseteq Packages \union {None},
         lock' \in Threads \union {"free"},
         events' \in 0 .. MaxEvents
  PROVE  TypeOK'
BY DEF TypeOK, Jobs, Stages

LEMMA EventsTyped ==
  ASSUME TypeOK, Event \/ Calm
  PROVE  events' \in 0 .. MaxEvents
BY IntakeAssumption DEF TypeOK, Event, Calm

LEMMA CandidatesTyped ==
  ASSUME Typed, NEW t \in Threads
  PROVE  /\ Candidates(t) \subseteq Entries
         /\ Conflicting(Candidates(t)) \subseteq {Version[p] : p \in Packages}
         /\ FromDisk({}) \in Packages \union {None}
<1>1. FromDisk({}) \in Packages \union {None}
  BY NewestUsableIs DEF FromDisk, Typed
<1>2. OnDrives(t) \subseteq Entries
  <2>1. ASSUME NEW m \in Seen(t), drives[m] # NoCopy
        PROVE  [from |-> m, pkg |-> drives[m].pkg] \in Entries
    <3>1. m \in Mounts
      BY IntakeAssumption DEF Seen
    <3>2. drives[m] \in Copies
      BY <2>1, <3>1 DEF Typed, TypeOK
    <3> QED BY <3>1, <3>2, WholeCopy DEF Entries
  <2> QED BY <2>1 DEF OnDrives
<1>3. Candidates(t) \subseteq Entries
  BY <1>1, <1>2 DEF Candidates, Entries
<1>4. \A e \in Entries : e.pkg \in Packages
  BY DEF Entries
<1>5. Conflicting(Candidates(t)) \subseteq {Version[p] : p \in Packages}
  BY <1>3, <1>4 DEF Conflicting
<1> QED BY <1>1, <1>3, <1>5

LEMMA TypedThread ==
  ASSUME Typed, NEW t \in Threads, ThreadStep(t) \/ (ScanStart(t) /\ (Event \/ Calm))
  PROVE  Typed'
<1> USE DEF Typed
<1>1. events' \in 0 .. MaxEvents
  BY EventsTyped DEF ThreadStep, StageCopy
<1>2. job[t] \in Jobs /\ job \in [Threads -> Jobs]
  BY JobsTyped
<1>3. CASE ScanStart(t)
  <2>1. UNCHANGED <<drives, staging, slots, active, trial, installed, shown, known, cache,
                    prompt, approved, unchanged>>
    BY <1>3 DEF ScanStart, disk, channel, dialog
  <2>2. blocked' \subseteq {Version[p] : p \in Packages} /\ lock' = t
    BY <1>3, CandidatesTyped DEF ScanStart
  <2>3. PICK d \in SUBSET Entries :
          job' = [job EXCEPT ![t] = [at |-> "scan", kept |-> FromDisk({}), found |-> None, todo |-> d]]
    BY <1>3, CandidatesTyped DEF ScanStart
  <2>4. job' \in [Threads -> Jobs]
    BY <1>2, <2>3, CandidatesTyped, JobMade DEF Stages
  <2> QED BY <1>1, <2>1, <2>2, <2>4, JobsFinish DEF TypeOK
<1>4. CASE ScanTry(t)
  <2>1. UNCHANGED <<drives, staging, slots, active, trial, installed, blocked, shown, known,
                    cache, prompt, approved, unchanged, lock>>
    BY <1>4 DEF ScanTry, disk, channel, dialog
  <2>2. PICK e \in Top(t) : \/ Drop(t, Top(t)) \/ Take(t, e.pkg) \/ Drop(t, {e})
                            \/ job' = [job EXCEPT ![t].at = "copy", ![t].todo = @ \ {e},
                                                  ![t].found = e.pkg]
    BY <1>4 DEF ScanTry
  <2>3. e \in Entries /\ e.pkg \in Packages
    BY <1>2, JobFields DEF Top, Entries
  <2>4. ASSUME NEW es, Drop(t, es) PROVE job' \in [Threads -> Jobs]
    BY <2>4, JobDrops
  <2>5. ASSUME Take(t, e.pkg) PROVE job' \in [Threads -> Jobs]
    <3>1. [job EXCEPT ![t].at = "discard", ![t].found = e.pkg] \in [Threads -> Jobs]
      BY <2>3, JobFinds DEF Stages
    <3> QED BY <2>5, <3>1 DEF Take
  <2>6. ASSUME job' = [job EXCEPT ![t].at = "copy", ![t].todo = @ \ {e}, ![t].found = e.pkg]
        PROVE  job' \in [Threads -> Jobs]
    BY <1>2, <2>3, <2>6 DEF Jobs, Stages
  <2>7. job' \in [Threads -> Jobs]
    BY <2>2, <2>4, <2>5, <2>6
  <2> QED BY <1>1, <2>1, <2>7, JobsFinish DEF TypeOK
<1>5. CASE StageCopy(t)
  <2>1. UNCHANGED <<drives, slots, active, trial, installed, blocked, shown, known,
                    cache, prompt, approved, unchanged, lock>>
    BY <1>5 DEF StageCopy, channel, dialog
  <2>2. job' \in [Threads -> Jobs]
    BY <1>5, JobMoves DEF StageCopy, Stages
  <2>3. staging' \subseteq Copies /\ IsFiniteSet(staging')
    <3>1. CASE staging' = staging
      BY <3>1 DEF TypeOK
    <3>2. ASSUME NEW m \in Mounts, drives[m] = Good(job[t].found), Copied(job[t].found)
          PROVE  staging' \subseteq Copies /\ IsFiniteSet(staging')
      <4>1. Good(job[t].found) \in Copies
        <5>1. Good(job[t].found) # NoCopy
          BY DEF Good, NoCopy
        <5> QED BY <3>2, <5>1 DEF TypeOK
      <4>2. PICK s \in SUBSET staging : staging' = s \union {Good(job[t].found)}
        BY <3>2 DEF Copied
      <4> QED BY <4>1, <4>2, FS_Subset, FS_AddElement DEF TypeOK
    <3> QED BY <1>5, <3>1, <3>2 DEF StageCopy
  <2> QED BY <1>1, <2>1, <2>2, <2>3, JobsFinish DEF TypeOK
<1>6. CASE ScanFinish(t)
  <2>1. UNCHANGED <<drives, slots, active, trial, installed, blocked, known,
                    cache, prompt, approved, unchanged>>
    BY <1>6 DEF ScanFinish, channel, dialog
  <2>2. job' \in [Threads -> Jobs]
    BY <1>6, JobMoves DEF ScanFinish, Stages
  <2>3. /\ staging' \subseteq staging /\ shown' \in Packages \union {None} /\ lock' = "free"
    BY <1>2, <1>6, JobFields DEF ScanFinish
  <2>4. IsFiniteSet(staging')
    BY <2>3, FS_Subset
  <2> QED BY <1>1, <2>1, <2>2, <2>3, <2>4, JobsFinish DEF TypeOK
<1>7. CASE ScanEmpty(t)
  <2>1. UNCHANGED <<drives, staging, slots, active, trial, installed, blocked, known,
                    cache, prompt, approved, unchanged>>
    BY <1>7 DEF ScanEmpty, channel, dialog, disk
  <2>2. shown' = None /\ lock' = "free"
    BY <1>7 DEF ScanEmpty
  <2>3. job' \in [Threads -> Jobs]
    BY <1>2, <1>7 DEF ScanEmpty, Jobs, Stages
  <2> QED BY <1>1, <2>1, <2>2, <2>3, JobsFinish DEF TypeOK
<1>8. CASE Reread(t)
  <2>1. UNCHANGED <<drives, staging, slots, active, trial, installed, blocked, shown, known,
                    cache, prompt, approved, unchanged, lock>>
    BY <1>8 DEF Reread, channel, dialog, disk
  <2>2. FromDisk(blocked) \in Packages \union {None}
    BY NewestUsableIs DEF FromDisk
  <2>3. job' \in [Threads -> Jobs]
    BY <1>8, <2>2, JobFinds DEF Reread, Stages
  <2> QED BY <1>1, <2>1, <2>3, JobsFinish DEF TypeOK
<1>9. CASE Publish(t)
  <2>1. UNCHANGED <<drives, staging, slots, active, trial, installed, blocked, known,
                    cache, prompt, approved, unchanged, lock>>
    BY <1>9 DEF Publish, channel, dialog, disk
  <2>2. shown' \in Packages \union {None} /\ job' \in [Threads -> Jobs]
    BY <1>2, <1>9, JobFields, IdleJob DEF Publish
  <2> QED BY <1>1, <2>1, <2>2, JobsFinish DEF TypeOK
<1> QED BY <1>3, <1>4, <1>5, <1>6, <1>7, <1>8, <1>9 DEF ThreadStep

LEMMA TypedPanel ==
  ASSUME Typed, InstallStart \/ Promote
  PROVE  Typed'
<1> USE DEF Typed
<1>1. events' \in 0 .. MaxEvents
  BY EventsTyped DEF InstallStart, Checkpoint, CheckpointFails, Promote, Event, Calm
<1>2. job \in [Threads -> Jobs] /\ "panel" \in Threads
  BY JobsTyped DEF Threads
<1>3. Abandon => job' \in [Threads -> Jobs] /\ approved' = None /\ lock' = "free"
  BY <1>2, IdleJob DEF Abandon
<1>4. CASE InstallStart
  <2>1. UNCHANGED <<drives, staging, slots, active, trial, installed, blocked, shown, known,
                    cache, prompt>>
    BY <1>4 DEF InstallStart, disk, channel
  <2>2. ASSUME Checkpoint
        PROVE  /\ job' \in [Threads -> Jobs] /\ approved' = approved
               /\ lock' = "panel" /\ unchanged' = TRUE
    <3>1. FromDisk(blocked) \in Packages \union {None}
      BY NewestUsableIs DEF FromDisk
    <3> QED BY <1>2, <2>2, <3>1, JobFinds DEF Checkpoint, Stages
  <2>3. /\ job' \in [Threads -> Jobs] /\ lock' \in Threads \union {"free"}
        /\ approved' \in Packages \union {None} /\ unchanged' \in BOOLEAN
    BY <1>3, <1>4, <2>2 DEF InstallStart, CheckpointFails, TypeOK, Threads
  <2> QED BY <1>1, <2>1, <2>3, JobsFinish DEF TypeOK
<1>5. CASE Promote
  <2>1. UNCHANGED <<drives, active, trial, installed, blocked, shown, known,
                    cache, prompt, unchanged>>
    BY <1>5 DEF Promote, channel
  <2>2. /\ staging' \subseteq staging /\ slots' \subseteq slots \union staging
    BY <1>5 DEF Promote, SameVersion
  <2>3. IsFiniteSet(staging')
    BY <2>2, FS_Subset
  <2>4. Goes("panel", "switch") => job' \in [Threads -> Jobs]
    BY <1>2, JobMoves DEF Stages
  <2>5. /\ job' \in [Threads -> Jobs] /\ lock' \in Threads \union {"free"}
        /\ approved' \in Packages \union {None}
    BY <1>3, <1>5, <2>4 DEF Promote, TypeOK
  <2> QED BY <1>1, <2>1, <2>2, <2>3, <2>5, JobsFinish DEF TypeOK
<1> QED BY <1>4, <1>5

(* The install lock is held through a scan and from the promotion to the   *)
(* switch; the worker only scans and refreshes.                            *)
Holding == {"scan", "copy", "discard", "promote", "switch"}
Locked ==
  /\ \A t \in Threads : job[t].at \in Holding => lock = t
  /\ job["worker"].at \in {"idle", "scan", "copy", "discard", "reread", "publish"}

(* What is being installed is what was approved, its version is not barred,*)
(* and before it is selected its slot is there and it may replace the      *)
(* active version.                                                         *)
Installing ==
  /\ At("panel", "promote") \/ At("panel", "switch") =>
       /\ job["panel"].found = approved /\ approved # None
       /\ Version[approved] \notin blocked
  /\ At("panel", "switch") => Good(approved) \in slots /\ Installable(approved, active)

LEMMA TypedSwitch ==
  ASSUME Typed, Installing, Switch
  PROVE  Typed'
<1> USE DEF Typed
<1>1. UNCHANGED <<drives, staging, slots, installed, blocked, shown, known, cache, prompt,
                  unchanged, events>>
  BY DEF Switch, channel
<1>2. job \in [Threads -> Jobs] /\ "panel" \in Threads
  BY JobsTyped DEF Threads
<1>3. Abandon => job' \in [Threads -> Jobs] /\ approved' = None /\ lock' = "free"
  BY <1>2, IdleJob DEF Abandon
<1>4. job["panel"].found \in Packages
  BY <1>2, JobFields DEF Switch, Installing
<1>5. Goes("panel", "restart") => job' \in [Threads -> Jobs]
  BY <1>2, JobMoves DEF Stages
<1>6. /\ job' \in [Threads -> Jobs] /\ lock' \in Threads \union {"free"}
      /\ approved' \in Packages \union {None} /\ active' \in Packages /\ trial' \in BOOLEAN
  BY <1>3, <1>4, <1>5 DEF Switch, TypeOK
<1> QED BY <1>1, <1>6, JobsFinish DEF TypeOK

LEMMA TypedBegins ==
  ASSUME Typed, Begins, Event \/ Calm
  PROVE  Typed'
<1> USE DEF Typed
<1>1. NewestUsable(active, {}) \in Packages \union {None}
  BY NewestUsableIs
<1>2. job' \in [Threads -> Jobs]
  BY IdleJob DEF Begins
<1>3. UNCHANGED <<drives, staging, slots, active, trial, cache>>
  BY DEF Begins, disk
<1>4. /\ installed' = active /\ blocked' = {} /\ known' = cache /\ prompt' = None
      /\ approved' = None /\ unchanged' = FALSE /\ lock' = "free"
      /\ shown' \in Packages \union {None}
  BY <1>1 DEF Begins, Recalled
<1> QED BY <1>2, <1>3, <1>4, EventsTyped, JobsFinish DEF TypeOK

LEMMA TypedRest ==
  ASSUME Typed, OpenPrompt \/ ClosePrompt \/ Approve \/ (\E t \in Threads : CheckChannel(t))
                \/ Confirm \/ ChangeDrive \/ Damage \/ DataChanges \/ UNCHANGED vars
  PROVE  Typed'
<1> USE DEF Typed
<1>1. job \in [Threads -> Jobs] /\ "panel" \in Threads
  BY JobsTyped DEF Threads
<1>2. CASE OpenPrompt \/ ClosePrompt
  <2>1. UNCHANGED <<drives, staging, slots, active, trial, installed, blocked, shown, known,
                    cache, approved, unchanged, lock, job, events>>
    BY <1>2 DEF OpenPrompt, ClosePrompt, disk, channel
  <2>2. prompt' \in {shown, None}
    BY <1>2 DEF OpenPrompt, ClosePrompt
  <2> QED BY <1>1, <2>1, <2>2, JobsFinish DEF TypeOK
<1>3. CASE Approve
  <2>1. UNCHANGED <<drives, staging, slots, active, trial, installed, blocked, shown, known,
                    cache, unchanged, lock, events>>
    BY <1>3 DEF Approve, disk, channel
  <2>2. prompt' = None /\ approved' \in {prompt, approved} /\ job' \in [Threads -> Jobs]
    BY <1>1, <1>3, JobMoves DEF Approve, Stages
  <2> QED BY <2>1, <2>2, JobsFinish DEF TypeOK
<1>4. ASSUME NEW t \in Threads, CheckChannel(t) PROVE Typed'
  <2>1. UNCHANGED <<drives, staging, slots, active, trial, installed, blocked, shown, prompt,
                    approved, unchanged, lock>>
    BY <1>4 DEF CheckChannel, disk, dialog
  <2>2. job' \in [Threads -> Jobs]
    BY <1>4, JobMoves DEF CheckChannel, Stages
  <2>3. {known, cache}' \subseteq Packages \union {None}
    BY <1>4, IntakeAssumption DEF CheckChannel, CheckFails, CheckSucceeds, channel, TypeOK
  <2>4. events' \in 0 .. MaxEvents
    BY <1>4, EventsTyped DEF CheckChannel
  <2> QED BY <2>1, <2>2, <2>3, <2>4, JobsFinish DEF TypeOK
<1>5. CASE Confirm
  <2>1. UNCHANGED <<drives, staging, slots, active, installed, blocked, shown, known,
                    cache, prompt, approved, unchanged, lock, job, events>> /\ trial' = FALSE
    BY <1>5 DEF Confirm, channel, dialog
  <2> QED BY <1>1, <2>1, JobsFinish DEF TypeOK
<1>6. CASE ChangeDrive
  <2>1. UNCHANGED <<staging, slots, active, trial, installed, blocked, shown, known,
                    cache, prompt, approved, unchanged, lock, job>>
    BY <1>6 DEF ChangeDrive, disk, channel, dialog
  <2>2. drives' \in [Mounts -> Copies \union {NoCopy}]
    BY <1>6 DEF ChangeDrive, TypeOK
  <2>3. events' \in 0 .. MaxEvents
    BY <1>6, EventsTyped DEF ChangeDrive
  <2> QED BY <1>1, <2>1, <2>2, <2>3, JobsFinish DEF TypeOK
<1>7. CASE Damage
  <2>1. UNCHANGED <<drives, slots, active, trial, installed, blocked, shown, known,
                    cache, prompt, approved, unchanged, lock, job>>
    BY <1>7 DEF Damage, channel, dialog
  <2>2. PICK c \in staging : staging' = (staging \ {c}) \union {[c EXCEPT !.ok = FALSE]}
    BY <1>7 DEF Damage
  <2>3. [c EXCEPT !.ok = FALSE] \in Copies
    BY DEF TypeOK, Copies
  <2>4. staging' \subseteq Copies /\ IsFiniteSet(staging')
    BY <2>2, <2>3, FS_RemoveElement, FS_AddElement DEF TypeOK
  <2>5. events' \in 0 .. MaxEvents
    BY <1>7, EventsTyped DEF Damage
  <2> QED BY <1>1, <2>1, <2>4, <2>5, JobsFinish DEF TypeOK
<1>8. CASE DataChanges
  <2>1. UNCHANGED <<drives, staging, slots, active, trial, installed, blocked, shown, known,
                    cache, prompt, approved, lock, job>> /\ unchanged' = FALSE
    BY <1>8 DEF DataChanges, disk, channel
  <2>2. events' \in 0 .. MaxEvents
    BY <1>8, EventsTyped DEF DataChanges
  <2> QED BY <1>1, <2>1, <2>2, JobsFinish DEF TypeOK
<1>9. CASE UNCHANGED vars
  BY <1>1, <1>9, JobsFinish DEF TypeOK, vars
<1> QED BY <1>2, <1>3, <1>4, <1>5, <1>6, <1>7, <1>8, <1>9

LEMMA TypedStep ==
  ASSUME Typed, Installing, [Next]_vars
  PROVE  Typed'
<1>1. ASSUME NEW t \in Threads, ThreadStep(t) PROVE Typed'
  BY <1>1, TypedThread
<1>2. CASE WorkerScan \/ PanelScan
  BY <1>2, TypedThread DEF WorkerScan, PanelScan, Threads
<1>3. CASE Restart \/ Stop
  BY <1>3, TypedBegins DEF Restart, Stop
<1> QED BY <1>1, <1>2, <1>3, TypedPanel, TypedSwitch, TypedRest
        DEF Next, WorkerSteps, PanelSteps, Threads

(* --------------------- the lock and the installation -------------------- *)
LEMMA JobMoved ==
  ASSUME TypeOK, NEW t \in Threads, NEW a, Goes(t, a)
  PROVE  /\ job'[t].at = a /\ job'[t].todo = job[t].todo
         /\ job'[t].found = job[t].found /\ job'[t].kept = job[t].kept
         /\ \A u \in Threads \ {t} : job'[u] = job[u]
BY JobsTyped DEF Jobs, Goes

LEMMA JobDropped ==
  ASSUME TypeOK, NEW t \in Threads, NEW es, Drop(t, es)
  PROVE  /\ job'[t].at = job[t].at /\ job'[t].todo = job[t].todo \ es
         /\ job'[t].found = job[t].found /\ job'[t].kept = job[t].kept
         /\ \A u \in Threads \ {t} : job'[u] = job[u]
BY JobsTyped DEF Jobs, Drop

LEMMA JobTaken ==
  ASSUME TypeOK, NEW t \in Threads, NEW p, Take(t, p)
  PROVE  /\ job'[t].at = "discard" /\ job'[t].todo = job[t].todo
         /\ job'[t].found = p /\ job'[t].kept = job[t].kept
         /\ \A u \in Threads \ {t} : job'[u] = job[u]
BY JobsTyped DEF Jobs, Take

LEMMA JobCopies ==
  ASSUME TypeOK, NEW t \in Threads, NEW e,
         job' = [job EXCEPT ![t].at = "copy", ![t].todo = @ \ {e}, ![t].found = e.pkg]
  PROVE  /\ job'[t].at = "copy" /\ job'[t].todo = job[t].todo \ {e}
         /\ job'[t].found = e.pkg /\ job'[t].kept = job[t].kept
         /\ \A u \in Threads \ {t} : job'[u] = job[u]
BY JobsTyped DEF Jobs

(* What a step of a thread does to the lock, and where it goes.            *)
LEMMA ThreadMoves ==
  ASSUME Typed, NEW t \in Threads, ThreadStep(t) \/ ScanStart(t)
  PROVE  /\ \A u \in Threads \ {t} : job'[u] = job[u]
         /\ UNCHANGED <<approved, active, slots>>
         /\ \/ lock = "free" /\ lock' = t /\ job'[t].at = "scan"
            \/ /\ UNCHANGED <<lock, blocked>>
               /\ job[t].at \in {"scan", "copy"} /\ job'[t].at \in {"scan", "copy", "discard"}
            \/ /\ lock' = "free" /\ blocked' = blocked
               /\ job[t].at \in {"scan", "discard"} /\ job'[t].at \in {"reread", "publish"}
            \/ /\ UNCHANGED <<lock, blocked>>
               /\ job[t].at \in {"reread", "publish"} /\ job'[t].at \in {"publish", "idle"}
<1> USE DEF Typed, At
<1>1. job \in [Threads -> Jobs]
  BY JobsTyped
<1>2. CASE ScanStart(t)
  BY <1>1, <1>2 DEF ScanStart, disk, dialog
<1>3. CASE ScanTry(t)
  <2>1. PICK e \in Top(t) : \/ Drop(t, Top(t)) \/ Take(t, e.pkg) \/ Drop(t, {e})
                            \/ job' = [job EXCEPT ![t].at = "copy", ![t].todo = @ \ {e},
                                                  ![t].found = e.pkg]
    BY <1>3 DEF ScanTry
  <2>2. job'[t].at \in {"scan", "copy", "discard"} /\ \A u \in Threads \ {t} : job'[u] = job[u]
    <3>1. job[t].at = "scan"
      BY <1>3 DEF ScanTry
    <3>2. ASSUME NEW es, Drop(t, es)
          PROVE  job'[t].at = "scan" /\ \A u \in Threads \ {t} : job'[u] = job[u]
      BY <3>1, <3>2, JobDropped
    <3>3. ASSUME Take(t, e.pkg)
          PROVE  job'[t].at = "discard" /\ \A u \in Threads \ {t} : job'[u] = job[u]
      BY <3>3, JobTaken
    <3>4. ASSUME job' = [job EXCEPT ![t].at = "copy", ![t].todo = @ \ {e}, ![t].found = e.pkg]
          PROVE  job'[t].at = "copy" /\ \A u \in Threads \ {t} : job'[u] = job[u]
      BY <3>4, JobCopies
    <3> QED BY <2>1, <3>2, <3>3, <3>4
  <2> QED BY <1>3, <2>2 DEF ScanTry, disk, dialog
<1>4. CASE StageCopy(t)
  BY <1>4, JobMoved DEF StageCopy, dialog
<1>5. CASE ScanFinish(t)
  BY <1>5, JobMoved DEF ScanFinish, dialog
<1>6. CASE ScanEmpty(t)
  BY <1>1, <1>6 DEF ScanEmpty, disk, dialog, Jobs
<1>7. CASE Reread(t)
  BY <1>1, <1>7 DEF Reread, disk, dialog, Jobs
<1>8. CASE Publish(t)
  BY <1>1, <1>8 DEF Publish, disk, dialog, Idle
<1> QED BY <1>2, <1>3, <1>4, <1>5, <1>6, <1>7, <1>8 DEF ThreadStep

LEMMA LockedStep ==
  ASSUME Typed, Locked, Installing, [Next]_vars
  PROVE  Locked' /\ Installing'
<1> USE DEF At
<1>1. job \in [Threads -> Jobs] /\ "panel" \in Threads /\ "worker" \in Threads
  BY JobsTyped DEF Typed, Threads
<1>2. ASSUME NEW t \in Threads, ThreadStep(t) \/ ScanStart(t) PROVE Locked' /\ Installing'
  <2>1. Locked'
    BY <1>2, ThreadMoves DEF Locked, Holding, Threads
  <2>2. Installing'
    <3>1. CASE t = "panel"
      <4>1. job'["panel"].at \notin {"promote", "switch"}
        BY <1>2, <3>1, ThreadMoves
      <4> QED BY <4>1 DEF Installing
    <3>2. CASE t = "worker"
      <4>1. job'["panel"] = job["panel"] /\ UNCHANGED <<approved, active, slots>>
        BY <1>1, <1>2, <3>2, ThreadMoves
      <4>2. job["panel"].at \in {"promote", "switch"} => blocked' = blocked
        BY <1>1, <1>2, <3>2, ThreadMoves DEF Locked, Holding
      <4> QED BY <4>1, <4>2 DEF Installing
    <3> QED BY <3>1, <3>2 DEF Threads
  <2> QED BY <2>1, <2>2
<1>3. ASSUME Abandon, job["worker"].at \notin Holding
      PROVE  Locked' /\ Installing'
  <2>1. job'["panel"].at = "idle" /\ job'["worker"] = job["worker"]
    BY <1>1, <1>3 DEF Abandon, Idle
  <2> QED BY <1>3, <2>1 DEF Locked, Installing, Holding, Threads
<1>4. CASE InstallStart
  <2>1. job["worker"].at \notin Holding
    BY <1>1, <1>4 DEF InstallStart, Locked, Threads
  <2>2. ASSUME MayInstall, Checkpoint, UNCHANGED <<blocked, slots, active>>
        PROVE  Locked' /\ Installing'
    <3>1. /\ job'["panel"].at = "promote" /\ job'["panel"].found = FromDisk(blocked)
          /\ job'["worker"] = job["worker"] /\ lock' = "panel" /\ approved' = approved
      BY <1>1, <2>2 DEF Checkpoint, Jobs
    <3>2. FromDisk(blocked) = approved /\ Good(approved) \in staging
      BY <2>2 DEF MayInstall, SelectedStill, Whole
    <3>3. approved # None
      <4>1. Good(approved) \in Copies
        BY <3>2 DEF Typed, TypeOK
      <4> QED BY <4>1, WholeCopy, IntakeAssumption DEF Good
    <3>4. Version[approved] \notin blocked
      BY <3>2, <3>3, NewestUsableIs DEF FromDisk, Typed
    <3>5. Locked'
      BY <2>1, <3>1 DEF Locked, Threads
    <3>6. Installing'
      BY <2>2, <3>1, <3>2, <3>3, <3>4 DEF Installing
    <3> QED BY <3>5, <3>6
  <2>3. ASSUME Abandon PROVE Locked' /\ Installing'
    BY <1>3, <2>1, <2>3
  <2>4. UNCHANGED <<blocked, slots, active>>
    BY <1>4 DEF InstallStart, disk
  <2> QED BY <1>4, <2>2, <2>3, <2>4 DEF InstallStart, CheckpointFails
<1>5. CASE Promote
  <2>1. job["panel"].at = "promote" /\ lock = "panel" /\ job["worker"].at \notin Holding
    BY <1>1, <1>5 DEF Promote, Locked, Holding, Threads
  <2>2. /\ job["panel"].found = approved /\ approved # None /\ Version[approved] \notin blocked
    BY <2>1 DEF Installing
  <2>3. UNCHANGED <<blocked, active>>
    BY <1>5 DEF Promote
  <2>4. ASSUME Whole(approved), Goes("panel", "switch"), UNCHANGED <<approved, lock>>,
               Good(approved) \in slots'
        PROVE  Locked' /\ Installing'
    <3>1. /\ job'["panel"].at = "switch" /\ job'["panel"].found = approved
          /\ job'["worker"] = job["worker"]
      BY <1>1, <2>2, <2>4, JobMoved DEF Typed, Threads
    <3>2. Locked'
      BY <2>1, <2>4, <3>1 DEF Locked, Holding, Threads
    <3>3. Installing'
      BY <2>2, <2>3, <2>4, <3>1 DEF Installing, Whole
    <3> QED BY <3>2, <3>3
  <2>5. ASSUME Whole(approved), slots' = slots \union SameVersion(staging, approved)
        PROVE  Good(approved) \in slots'
    BY <2>5 DEF Whole, SameVersion, Good
  <2>6. ASSUME SameVersion(slots, approved) = {Good(approved)}, slots' = slots
        PROVE  Good(approved) \in slots'
    BY <2>6 DEF SameVersion
  <2>7. ASSUME Abandon PROVE Locked' /\ Installing'
    BY <1>3, <2>1, <2>7
  <2> QED BY <1>5, <2>2, <2>4, <2>5, <2>6, <2>7 DEF Promote
<1>6. CASE Switch
  <2>1. job["worker"].at \notin Holding
    BY <1>1, <1>6 DEF Switch, Locked, Holding, Threads
  <2>2. ASSUME Goes("panel", "restart") PROVE Locked' /\ Installing'
    <3>1. job'["panel"].at = "restart" /\ job'["worker"] = job["worker"]
      BY <1>1, <2>2, JobMoved DEF Typed, Threads
    <3> QED BY <2>1, <3>1 DEF Locked, Installing, Holding, Threads
  <2> QED BY <1>3, <1>6, <2>1, <2>2 DEF Switch
<1>7. CASE Restart \/ Stop
  <2>1. job' = [t \in Threads |-> Idle]
    BY <1>7 DEF Restart, Stop, Begins
  <2> QED BY <1>1, <2>1 DEF Locked, Installing, Holding, Idle
<1>8. CASE Approve
  <2>1. /\ UNCHANGED <<lock, blocked, slots, active>> /\ job["panel"].at = "idle"
        /\ job' = job \/ Goes("panel", "approved")
    BY <1>8 DEF Approve, Busy, disk
  <2>2. job'["panel"].at \in {"idle", "approved"} /\ job'["worker"] = job["worker"]
    BY <1>1, <2>1, JobMoved DEF Typed, Threads
  <2> QED BY <2>1, <2>2 DEF Locked, Installing, Holding, Threads
<1>9. ASSUME NEW t \in Threads, CheckChannel(t) PROVE Locked' /\ Installing'
  <2>1. UNCHANGED <<lock, blocked, slots, active, approved>> /\ job[t].at = "idle"
        /\ Goes(t, "reread")
    BY <1>9 DEF CheckChannel, disk, dialog
  <2>2. job'[t].at = "reread" /\ \A u \in Threads \ {t} : job'[u] = job[u]
    BY <2>1, JobMoved DEF Typed
  <2> QED BY <2>1, <2>2 DEF Locked, Installing, Holding, Threads
<1>10. CASE OpenPrompt \/ ClosePrompt \/ Confirm \/ ChangeDrive \/ Damage \/ DataChanges
            \/ UNCHANGED vars
  <2>1. UNCHANGED <<job, lock, blocked, slots, active, approved>>
    BY <1>10 DEF OpenPrompt, ClosePrompt, Confirm, ChangeDrive, Damage, DataChanges,
       vars, disk, dialog
  <2> QED BY <2>1 DEF Locked, Installing
<1> QED BY <1>1, <1>2, <1>4, <1>5, <1>6, <1>7, <1>8, <1>9, <1>10
        DEF Next, WorkerSteps, WorkerScan, PanelSteps, PanelScan

(* ------------------------------- the scan ------------------------------- *)
(* While a scan looks: every candidate that is staged and may be installed *)
(* is no newer than the one that is kept, which is still to be tried unless*)
(* its version is barred; no other entry has its version.                  *)
Gathered(t) ==
  /\ \A e \in job[t].todo : Version[e.pkg] \notin blocked
  /\ \A c \in staging : c.ok /\ Installable(c.pkg, installed) =>
       job[t].kept # None /\ Version[c.pkg] <= Version[job[t].kept]
  /\ job[t].kept # None =>
       /\ \E d \in staging : d.pkg = job[t].kept
       /\ Installable(job[t].kept, installed)
       /\ Version[job[t].kept] \notin blocked =>
            [from |-> "disk", pkg |-> job[t].kept] \in job[t].todo
       /\ \A e \in job[t].todo : Version[e.pkg] = Version[job[t].kept] => e.pkg = job[t].kept

(* What is copied is another version than the one that is kept, and no     *)
(* entry that is still to be tried is newer.                               *)
Picked(t) ==
  /\ job[t].found # None
  /\ job[t].kept # None => Version[job[t].found] # Version[job[t].kept]
  /\ \A e \in job[t].todo : Version[e.pkg] <= Version[job[t].found]

(* What was selected is staged, and no candidate is newer unless it is     *)
(* contested.                                                              *)
Chosen(t) ==
  /\ job[t].found # None
  /\ \E d \in staging : Version[d.pkg] = Version[job[t].found]
  /\ \A c \in staging : c.ok /\ Installable(c.pkg, installed) =>
       Version[c.pkg] <= Version[job[t].found] \/ Contested(c)

Scanning(t) ==
  /\ job[t].at \in {"scan", "copy"} => Gathered(t)
  /\ job[t].at = "copy" => Picked(t)
  /\ job[t].at = "discard" => Chosen(t)

LEMMA VersionIs == \A p \in Packages : Version[p] \in Nat
BY IntakeAssumption

(* Damage takes no package away and adds no whole one.                     *)
LEMMA ScanningStays ==
  ASSUME NEW t \in Threads, Scanning(t), job'[t] = job[t], installed' = installed,
         job[t].at \in {"scan", "copy", "discard"} =>
           /\ blocked' = blocked
           /\ \A x \in staging : \E y \in staging' : y.pkg = x.pkg
           /\ \A y \in staging' : y.ok => y \in staging
  PROVE  Scanning(t)'
<1>1. CASE job[t].at \in {"scan", "copy"}
  <2>1. Gathered(t)'
    BY <1>1 DEF Scanning, Gathered
  <2> QED BY <1>1, <2>1 DEF Scanning, Picked
<1>2. CASE job[t].at = "discard"
  <2>1. \A c \in staging : Contested(c) => Contested(c)'
    BY <1>2 DEF Contested
  <2>2. Chosen(t)'
    BY <1>2, <2>1 DEF Scanning, Chosen
  <2> QED BY <1>2, <2>2 DEF Scanning
<1> QED BY <1>1, <1>2 DEF Scanning

LEMMA ScanStarts ==
  ASSUME Typed, NEW t \in Threads, ScanStart(t)
  PROVE  Scanning(t)'
<1>1. PICK kept : kept = FromDisk({})
  OBVIOUS
<1>2. /\ blocked' = Conflicting(Candidates(t)) /\ staging' = staging /\ installed' = installed
      /\ job'[t] = [at |-> "scan", kept |-> kept, found |-> None,
                    todo |-> {e \in Candidates(t) : Version[e.pkg] \notin blocked'}]
  BY <1>1, JobsTyped DEF Typed, ScanStart, disk
<1>3. PICK barred : barred = blocked'
  OBVIOUS
<1>4. PICK todo : todo = {e \in Candidates(t) : Version[e.pkg] \notin barred}
  OBVIOUS
<1>5. /\ job'[t].at = "scan" /\ job'[t].kept = kept /\ job'[t].todo = todo
  BY <1>2, <1>3, <1>4
<1>6. /\ kept # None => Good(kept) \in staging /\ Installable(kept, installed)
      /\ \A c \in staging : c.ok /\ Installable(c.pkg, installed) =>
           kept # None /\ Version[c.pkg] <= Version[kept]
  BY <1>1, NewestUsableIs DEF FromDisk, Typed
<1>7. kept # None => [from |-> "disk", pkg |-> kept] \in Candidates(t)
  BY <1>1 DEF Candidates
<1>8. ASSUME kept # None, NEW e \in todo, Version[e.pkg] = Version[kept]
      PROVE  e.pkg = kept
  <2>1. SUFFICES ASSUME e.pkg # kept PROVE FALSE
    OBVIOUS
  <2>2. e \in Candidates(t) /\ Version[e.pkg] \notin Conflicting(Candidates(t))
    BY <1>2, <1>3, <1>4
  <2>3. PICK g \in Candidates(t) : g.pkg = kept
    BY <1>7, <1>8
  <2>4. Version[e.pkg] \in Conflicting(Candidates(t))
    BY <1>8, <2>1, <2>2, <2>3 DEF Conflicting
  <2> QED BY <2>2, <2>4
<1>9. kept # None => \E d \in staging : d.pkg = kept
  BY <1>6 DEF Good
<1>10. Gathered(t)'
  BY <1>2, <1>3, <1>4, <1>5, <1>6, <1>7, <1>8, <1>9 DEF Gathered
<1> QED BY <1>5, <1>10 DEF Scanning

LEMMA ScanTries ==
  ASSUME Typed, NEW t \in Threads, Scanning(t), ScanTry(t)
  PROVE  Scanning(t)'
<1>1. /\ UNCHANGED <<staging, installed, blocked>> /\ job[t].at = "scan" /\ Gathered(t)
  BY DEF ScanTry, Scanning, At, disk
<1>2. PICK kept, todo, found : kept = job[t].kept /\ todo = job[t].todo /\ found = job[t].found
  OBVIOUS
<1>3. todo \subseteq Entries /\ kept \in Packages \union {None}
  BY <1>2, JobsTyped, JobFields DEF Typed
<1>4. PICK e \in Top(t) :
       \/ ~Installable(e.pkg, installed) /\ Drop(t, Top(t))
       \/ Installable(e.pkg, installed) /\ e.pkg = kept /\ Take(t, e.pkg)
       \/ /\ Installable(e.pkg, installed) /\ e.pkg # kept
          /\ \/ job' = [job EXCEPT ![t].at = "copy", ![t].todo = @ \ {e}, ![t].found = e.pkg]
             \/ Drop(t, {e})
  BY <1>2 DEF ScanTry
<1>5. PICK top : top = Top(t)
  OBVIOUS
<1>6. /\ e \in todo /\ e.pkg \in Packages
      /\ \A f \in todo : f.pkg \in Packages /\ Version[f.pkg] <= Version[e.pkg]
  BY <1>2, <1>3, <1>4 DEF Top, Entries
<1>7. ASSUME NEW f \in top PROVE f \in todo /\ Version[f.pkg] = Version[e.pkg]
  BY <1>2, <1>4, <1>5, <1>6, VersionIs DEF Top
<1>8. /\ \A f \in todo : Version[f.pkg] \notin blocked
      /\ \A c \in staging : c.ok /\ Installable(c.pkg, installed) =>
           kept # None /\ Version[c.pkg] <= Version[kept]
      /\ kept # None =>
           /\ \E d \in staging : d.pkg = kept
           /\ Installable(kept, installed)
           /\ Version[kept] \notin blocked => [from |-> "disk", pkg |-> kept] \in todo
           /\ \A f \in todo : Version[f.pkg] = Version[kept] => f.pkg = kept
  BY <1>1, <1>2 DEF Gathered
(* Whatever is dropped, it is not the candidate that is kept.              *)
<1>9. ASSUME NEW es, \A f \in es : f.pkg # kept \/ ~Installable(f.pkg, installed),
             job'[t].kept = kept, job'[t].todo = todo \ es
      PROVE  Gathered(t)'
  <2>1. kept # None => [from |-> "disk", pkg |-> kept] \notin es
    BY <1>8, <1>9
  <2> QED BY <1>1, <1>8, <1>9, <2>1 DEF Gathered
<1>10. CASE ~Installable(e.pkg, installed) /\ Drop(t, Top(t))
  <2>1. job'[t].at = "scan" /\ job'[t].kept = kept /\ job'[t].todo = todo \ top
    BY <1>1, <1>2, <1>5, <1>10, JobDropped DEF Typed
  <2>2. \A f \in top : f.pkg # kept \/ ~Installable(f.pkg, installed)
    BY <1>6, <1>7, <1>8, <1>10, IntakeAssumption
  <2> QED BY <1>9, <2>1, <2>2 DEF Scanning
<1>11. CASE Installable(e.pkg, installed) /\ e.pkg = kept /\ Take(t, e.pkg)
  <2>1. job'[t].at = "discard" /\ job'[t].found = kept
    BY <1>11, JobTaken DEF Typed
  <2>2. kept # None
    BY <1>6, <1>11, IntakeAssumption
  <2>3. Chosen(t)'
    BY <1>1, <1>8, <2>1, <2>2 DEF Chosen
  <2> QED BY <2>1, <2>3 DEF Scanning
<1>12. CASE e.pkg # kept /\ Drop(t, {e})
  <2>1. job'[t].at = "scan" /\ job'[t].kept = kept /\ job'[t].todo = todo \ {e}
    BY <1>1, <1>2, <1>12, JobDropped DEF Typed
  <2> QED BY <1>9, <1>12, <2>1 DEF Scanning
<1>13. CASE /\ e.pkg # kept
            /\ job' = [job EXCEPT ![t].at = "copy", ![t].todo = @ \ {e}, ![t].found = e.pkg]
  <2>1. /\ job'[t].at = "copy" /\ job'[t].kept = kept /\ job'[t].todo = todo \ {e}
        /\ job'[t].found = e.pkg
    BY <1>2, <1>13, JobCopies DEF Typed
  <2>2. Gathered(t)'
    BY <1>9, <1>13, <2>1
  <2>3. Picked(t)'
    BY <1>6, <1>8, <1>13, <2>1, IntakeAssumption DEF Picked
  <2> QED BY <2>1, <2>2, <2>3 DEF Scanning
<1> QED BY <1>4, <1>10, <1>11, <1>12, <1>13

LEMMA ScanCopies ==
  ASSUME Typed, NEW t \in Threads, Scanning(t), StageCopy(t)
  PROVE  Scanning(t)'
<1>1. UNCHANGED <<installed, blocked>> /\ job[t].at = "copy" /\ Gathered(t) /\ Picked(t)
  BY DEF StageCopy, Scanning, At
<1>2. PICK p, kept : p = job[t].found /\ kept = job[t].kept
  OBVIOUS
<1>3. p \in Packages /\ kept \in Packages \union {None}
  BY <1>1, <1>2, JobsTyped, JobFields DEF Typed, Picked
<1>4. CASE staging' = staging /\ Goes(t, "scan")
  <2>1. job'[t].at = "scan" /\ job'[t].todo = job[t].todo /\ job'[t].kept = job[t].kept
    BY <1>4, JobMoved DEF Typed
  <2>2. Gathered(t)'
    BY <1>1, <1>4, <2>1 DEF Gathered
  <2> QED BY <2>1, <2>2 DEF Scanning
<1>5. CASE Copied(p) /\ Goes(t, "discard")
  <2>1. job'[t].at = "discard" /\ job'[t].found = p
    BY <1>2, <1>5, JobMoved DEF Typed
  <2>2. staging' = {c \in staging : Version[c.pkg] # Version[p]} \union {Good(p)}
    BY <1>5 DEF Copied
  <2>3. Good(p) \in staging' /\ Good(p).pkg = p
    BY <2>2 DEF Good
  <2>4. ASSUME NEW c \in staging', c.ok, Installable(c.pkg, installed)
        PROVE  Version[c.pkg] <= Version[p] \/ Contested(c)'
    <3>1. CASE c = Good(p)
      BY <1>3, <2>3, <3>1, VersionIs
    <3>2. CASE c \in staging
      <4>1. kept # None /\ Version[c.pkg] <= Version[kept] /\ c.pkg \in Packages
        BY <1>1, <1>2, <2>4, <3>2, WholeCopy DEF Gathered, Typed, TypeOK
      <4>2. CASE Version[kept] \notin blocked
        <5>1. Version[kept] <= Version[p]
          <6>1. [from |-> "disk", pkg |-> kept] \in job[t].todo
            BY <1>1, <1>2, <4>1, <4>2 DEF Gathered
          <6> QED BY <1>1, <1>2, <6>1 DEF Picked
        <5> QED BY <1>3, <4>1, <5>1, VersionIs
      <4>3. CASE Version[kept] \in blocked
        <5>1. PICK d \in staging : d.pkg = kept
          BY <1>1, <1>2, <4>1 DEF Gathered
        <5>2. Version[kept] # Version[p]
          BY <1>1, <1>2, <4>1 DEF Picked
        <5>3. d \in staging' /\ Version[d.pkg] \in blocked' /\ Version[d.pkg] >= Version[c.pkg]
          BY <1>1, <1>3, <2>2, <4>1, <4>3, <5>1, <5>2, VersionIs
        <5> QED BY <5>3 DEF Contested
      <4> QED BY <4>2, <4>3
    <3> QED BY <2>2, <3>1, <3>2
  <2>5. Chosen(t)'
    BY <1>1, <1>3, <2>1, <2>3, <2>4, IntakeAssumption DEF Chosen
  <2> QED BY <2>1, <2>5 DEF Scanning
<1> QED BY <1>2, <1>4, <1>5 DEF StageCopy

LEMMA ScanningStep ==
  ASSUME Typed, Locked, \A t \in Threads : Scanning(t), [Next]_vars
  PROVE  \A t \in Threads : Scanning(t)'
<1>1. job \in [Threads -> Jobs] /\ "panel" \in Threads /\ "worker" \in Threads
  BY JobsTyped DEF Typed, Threads
<1>2. ASSUME NEW t \in Threads, NEW u \in Threads, ThreadStep(u) \/ ScanStart(u)
      PROVE  Scanning(t)'
  <2>1. CASE u = t /\ (ScanStart(t) \/ ScanTry(t) \/ StageCopy(t))
    BY <2>1, ScanStarts, ScanTries, ScanCopies
  <2>2. CASE u = t /\ ~(ScanStart(t) \/ ScanTry(t) \/ StageCopy(t))
    <3>1. job'[t].at \in {"reread", "publish", "idle"}
      <4>1. CASE ScanFinish(t)
        BY <4>1, JobMoved DEF ScanFinish, Typed
      <4>2. CASE ScanEmpty(t)
        BY <1>1, <4>2 DEF ScanEmpty, Jobs
      <4>3. CASE Reread(t) \/ Publish(t)
        BY <1>1, <4>3 DEF Reread, Publish, Jobs, Idle
      <4> QED BY <1>2, <2>2, <4>1, <4>2, <4>3 DEF ThreadStep
    <3> QED BY <3>1 DEF Scanning
  <2>3. CASE u # t
    <3>1. job'[t] = job[t]
      BY <1>2, <2>3, ThreadMoves
    <3>2. installed' = installed
      BY <1>2 DEF ThreadStep, ScanStart, ScanTry, StageCopy, ScanFinish, ScanEmpty, Reread, Publish
    <3>3. ASSUME job[t].at \in {"scan", "copy", "discard"} PROVE UNCHANGED <<staging, blocked>>
      <4>1. lock = t /\ job[u].at \notin {"scan", "copy", "discard"}
        BY <2>3, <3>3 DEF Locked, Holding
      <4>2. lock # "free"
        BY <4>1 DEF Threads
      <4> QED BY <1>2, <4>1, <4>2 DEF ThreadStep, ScanStart, ScanTry, StageCopy, ScanFinish,
              ScanEmpty, Reread, Publish, At, disk
    <3> QED BY <3>1, <3>2, <3>3, ScanningStays
  <2> QED BY <2>1, <2>2, <2>3
<1>3. ASSUME NEW t \in Threads, InstallStart \/ Promote \/ Switch
      PROVE  Scanning(t)'
  <2>1. job'["worker"] = job["worker"] /\ job'["panel"].at \in {"idle", "promote", "switch", "restart"}
    <3>1. Abandon => job'["worker"] = job["worker"] /\ job'["panel"].at = "idle"
      BY <1>1 DEF Abandon, Idle
    <3>2. Checkpoint => job'["worker"] = job["worker"] /\ job'["panel"].at = "promote"
      BY <1>1 DEF Checkpoint, Jobs
    <3>3. ASSUME NEW a \in {"switch", "restart"}, Goes("panel", a)
          PROVE  job'["worker"] = job["worker"] /\ job'["panel"].at = a
      BY <1>1, <3>3, JobMoved DEF Typed, Threads
    <3> QED BY <1>3, <3>1, <3>2, <3>3 DEF InstallStart, CheckpointFails, Promote, Switch
  <2>2. CASE t = "panel"
    BY <2>1, <2>2 DEF Scanning
  <2>3. CASE t = "worker"
    <3>1. UNCHANGED <<installed, blocked>>
      BY <1>3 DEF InstallStart, Promote, Switch
    <3>2. ASSUME job[t].at \in {"scan", "copy", "discard"} PROVE staging' = staging
      <4>1. lock = "worker"
        BY <1>1, <2>3, <3>2 DEF Locked, Holding
      <4>2. ~InstallStart /\ ~Promote
        BY <1>1, <4>1 DEF InstallStart, Promote, At, Locked, Holding
      <4> QED BY <1>3, <4>2 DEF Switch
    <3> QED BY <2>1, <2>3, <3>1, <3>2, ScanningStays
  <2> QED BY <2>2, <2>3 DEF Threads
<1>4. ASSUME NEW t \in Threads, Restart \/ Stop PROVE Scanning(t)'
  <2>1. job'[t].at = "idle"
    BY <1>4 DEF Restart, Stop, Begins, Idle
  <2> QED BY <2>1 DEF Scanning
<1>5. ASSUME NEW t \in Threads, Approve \/ (\E u \in Threads : CheckChannel(u))
      PROVE  Scanning(t)'
  <2>1. UNCHANGED <<staging, installed, blocked>>
    BY <1>5 DEF Approve, CheckChannel, disk
  <2>2. PICK u \in Threads : job' = job \/ Goes(u, "approved") \/ Goes(u, "reread")
    BY <1>1, <1>5 DEF Approve, CheckChannel
  <2>3. job'[t] = job[t] \/ job'[t].at \in {"approved", "reread"}
    BY <2>2, JobMoved DEF Typed
  <2> QED BY <2>1, <2>3, ScanningStays DEF Scanning
<1>6. ASSUME NEW t \in Threads, OpenPrompt \/ ClosePrompt \/ Confirm \/ ChangeDrive \/ DataChanges
                                \/ UNCHANGED vars
      PROVE  Scanning(t)'
  <2>1. UNCHANGED <<job, staging, installed, blocked>>
    BY <1>6 DEF OpenPrompt, ClosePrompt, Confirm, ChangeDrive, DataChanges, vars, disk
  <2> QED BY <2>1, ScanningStays
<1>7. ASSUME NEW t \in Threads, Damage PROVE Scanning(t)'
  <2>1. UNCHANGED <<job, installed, blocked>>
    BY <1>7 DEF Damage
  <2>2. PICK c \in staging : staging' = (staging \ {c}) \union {[c EXCEPT !.ok = FALSE]}
    BY <1>7 DEF Damage
  <2>3. [c EXCEPT !.ok = FALSE].pkg = c.pkg /\ [c EXCEPT !.ok = FALSE].ok = FALSE
    BY DEF Typed, TypeOK, Copies
  <2>4. \A x \in staging : \E y \in staging' : y.pkg = x.pkg
    BY <2>2, <2>3
  <2>5. \A y \in staging' : y.ok => y \in staging
    BY <2>2, <2>3
  <2> QED BY <2>1, <2>4, <2>5, ScanningStays
<1> QED BY <1>1, <1>2, <1>3, <1>4, <1>5, <1>6, <1>7
        DEF Next, WorkerSteps, WorkerScan, PanelSteps, PanelScan

(* ------------------------------ the theorems ---------------------------- *)
IntakeInv == Typed /\ Locked /\ Installing /\ \A t \in Threads : Scanning(t)

LEMMA IntakeAlways == Spec => []IntakeInv
<1>1. Init => IntakeInv
  <2> SUFFICES ASSUME Init PROVE IntakeInv
    OBVIOUS
  <2>1. \A t \in Threads : job[t].at = "idle"
    BY DEF Init, Idle
  <2>2. TypeOK
    <3>1. Good(Initial) \in Copies
      BY IntakeAssumption DEF Good, Copies
    <3>2. job \in [Threads -> Jobs]
      BY IdleJob DEF Init
    <3>3. job \in [Threads -> [at : {"idle", "scan", "copy", "discard", "reread", "publish",
                                     "check", "approved", "promote", "switch", "restart"},
                               todo : SUBSET Entries, found : Packages \union {None},
                               kept : Packages \union {None}]]
      BY <3>2 DEF Jobs, Stages
    <3>4. drives \in [Mounts -> Copies \union {NoCopy}]
      BY DEF Init
    <3>5. /\ staging \subseteq Copies /\ slots \subseteq Copies
          /\ active \in Packages /\ installed \in Packages
          /\ trial \in BOOLEAN /\ unchanged \in BOOLEAN
          /\ blocked \subseteq {Version[p] : p \in Packages}
      BY <3>1, IntakeAssumption DEF Init
    <3>6. /\ {shown, known, cache, prompt, approved} \subseteq Packages \union {None}
          /\ lock \in Threads \union {"free"} /\ events \in 0 .. MaxEvents
      BY IntakeAssumption DEF Init
    <3> QED BY <3>3, <3>4, <3>5, <3>6 DEF TypeOK
  <2>3. IsFiniteSet(staging)
    BY FS_EmptySet DEF Init
  <2> QED BY <2>1, <2>2, <2>3
          DEF IntakeInv, Typed, Locked, Installing, Scanning, Holding, Threads, At
<1>2. IntakeInv /\ [Next]_vars => IntakeInv'
  BY TypedStep, LockedStep, ScanningStep DEF IntakeInv
<1> QED BY <1>1, <1>2, PTL DEF Spec

(* Every reachable state is well typed, whatever packages there are.       *)
THEOREM IntakeTypes == Spec => []TypeOK
BY IntakeAlways, PTL DEF IntakeInv, Typed

(* What is selected is the very package the administrator approved, whole, *)
(* in its slot, newer than the active version and not in conflict, although*)
(* the worker scans, stages and shows something else meanwhile             *)
(* (install_staged, activate, promote_staged).                             *)
THEOREM SelectsAsApproved == Spec => AsApproved
<1>1. ASSUME IntakeInv, [Next]_vars, active' # active
      PROVE  /\ active' = approved /\ Good(active') \in slots
             /\ Installable(active', active)
             /\ Version[active'] \notin blocked /\ unchanged
  <2>1. Switch
    BY <1>1 DEF Next, WorkerSteps, PanelSteps, WorkerScan, ThreadStep, ScanStart, ScanTry,
       StageCopy, ScanFinish, ScanEmpty, Reread, Publish, InstallStart, Promote, Restart, Stop,
       Begins, PanelScan, OpenPrompt, ClosePrompt, Approve, CheckChannel, Confirm, ChangeDrive,
       Damage, DataChanges, vars, disk
  <2>2. unchanged /\ active' = job["panel"].found /\ At("panel", "switch")
    BY <1>1, <2>1 DEF Switch
  <2> QED BY <1>1, <2>2 DEF IntakeInv, Installing
<1> QED BY <1>1, IntakeAlways, PTL DEF Spec, AsApproved

(* A candidate that may still be installed leaves the staging directory    *)
(* only into its slot, for a newer one, or because its version or that of  *)
(* a newer candidate beside it is contested, however two scans, an         *)
(* installation, damage and stops follow each other (scan_media, stage,    *)
(* discard_staging).                                                       *)
THEOREM NeverGivesUpTheNewest == Spec => NewerKept
<1> DEFINE Explained(c) ==
       \/ [c EXCEPT !.ok = FALSE] \in staging'
       \/ c \in slots'
       \/ Contested(c)
       \/ \E d \in staging' : Version[d.pkg] > Version[c.pkg]
<1>1. ASSUME IntakeInv, [Next]_vars, NEW c \in staging \ staging', c.ok,
             Installable(c.pkg, installed)
      PROVE  Explained(c)
  <2>1. staging \subseteq Copies /\ c = Good(c.pkg) /\ c.pkg \in Packages
    BY <1>1, WholeCopy DEF IntakeInv, Typed, TypeOK
  <2>2. \/ Promote \/ Damage \/ \E t \in Threads : StageCopy(t) \/ ScanFinish(t)
    BY <1>1 DEF Next, WorkerSteps, PanelSteps, WorkerScan, ThreadStep, ScanStart, ScanTry,
       ScanEmpty, Reread, Publish, InstallStart, Switch, Restart, Stop,
       Begins, PanelScan, OpenPrompt, ClosePrompt, Approve, CheckChannel, Confirm, ChangeDrive,
       DataChanges, vars, disk, Threads
  <2>3. CASE Promote
    BY <1>1, <2>3 DEF Promote, SameVersion
  <2>4. CASE Damage
    <3>1. PICK d \in staging : staging' = (staging \ {d}) \union {[d EXCEPT !.ok = FALSE]}
      BY <2>4 DEF Damage
    <3> QED BY <1>1, <3>1
  <2>5. ASSUME NEW t \in Threads, StageCopy(t) PROVE FALSE
    BY <1>1, <2>1, <2>5 DEF StageCopy, Copied, Refused
  <2>6. ASSUME NEW t \in Threads, ScanFinish(t) PROVE Explained(c)
    <3>1. PICK p : p = job[t].found
      OBVIOUS
    <3>2. staging' = {d \in staging : Version[d.pkg] = Version[p]}
      BY <2>6, <3>1 DEF ScanFinish
    <3>3. Chosen(t)
      BY <1>1, <2>6 DEF IntakeInv, Scanning, ScanFinish, At
    <3>4. PICK d \in staging' : Version[d.pkg] = Version[p] /\ d.pkg \in Packages
      BY <2>1, <3>1, <3>2, <3>3, WholeCopy DEF Chosen
    <3>5. Version[c.pkg] # Version[p]
      BY <1>1, <3>2
    <3>6. CASE Version[c.pkg] <= Version[p]
      BY <2>1, <3>4, <3>5, <3>6, VersionIs
    <3>7. CASE Contested(c)
      BY <3>7
    <3> QED BY <1>1, <3>1, <3>3, <3>6, <3>7 DEF Chosen
  <2> QED BY <2>2, <2>3, <2>4, <2>5, <2>6
<1>2. IntakeInv /\ [Next]_vars =>
        \A c \in staging \ staging' :
          c.ok /\ Installable(c.pkg, installed) =>
            \/ [c EXCEPT !.ok = FALSE] \in staging'
            \/ c \in slots'
            \/ Contested(c)
            \/ \E d \in staging' : Version[d.pkg] > Version[c.pkg]
  BY <1>1
<1> QED BY <1>2, IntakeAlways, PTL DEF Spec, NewerKept
=============================================================================
