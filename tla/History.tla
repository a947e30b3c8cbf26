------------------------------ MODULE History ------------------------------
(***************************************************************************)
(* Local incident history (services/history.py, storage/history.py): every *)
(* committed transition of an incident stages a snapshot in the state      *)
(* file, one background thread copies staged snapshots to an SQLite        *)
(* archive, and only then they leave the state file. The two stores are    *)
(* written in separate steps, each of which may fail, and the process may  *)
(* stop between any two of them.                                           *)
(***************************************************************************)
EXTENDS Naturals, FiniteSets

CONSTANTS
  Incidents,    \* identities of incidents
  Connected,    \* incidents begun in the connected reporting mode
  Batch,        \* snapshots captured for one pass (32 in the code)
  MaxPending,   \* snapshots and links the state file may hold (256)
  MaxVersion,   \* bound: snapshots of one incident
  MaxStops      \* bound: stops of the process

ASSUME HistoryAssumption ==
  /\ Connected \subseteq Incidents
  /\ Batch \in Nat \ {0}
  /\ MaxPending \in Nat /\ MaxVersion \in Nat /\ MaxStops \in Nat

VARIABLES
  phase,      \* of an incident: "new", "open" or "closed"
  version,    \* number of its latest snapshot; different numbers differ in content
  pending,    \* staged snapshots, ordered by the turn at which they were staged
  turn,       \* the next turn
  links,      \* incidents whose external identifier waits for the archive
  named,      \* incidents whose creation was answered with an identifier
  jobs,       \* incidents some entry of the delivery journal is about
  aged,       \* completed more than 24 hours ago
  up,         \* the process runs
  op,         \* the local operation that owns app.busy
  active,     \* a pass of the history writer is not finished
  job,        \* the writer thread and what it captured
  result,     \* the results queue of one slot
  resting,    \* next_at or ack_retry_at lies ahead
  cleanup,    \* next_cleanup has passed
  rows,       \* the archive's incidents, version 0 for no row
  linked,     \* the archive's external links
  reclaimed,  \* history variable: incidents whose row retention removed
  stops

document == <<phase, version, pending, turn, links, named, jobs>>
coordinator == <<active, job, result, resting, cleanup>>
archive == <<rows, linked, reclaimed>>
vars == <<document, aged, up, op, coordinator, archive, stops>>

Snapshot ==
  [id : Incidents, version : 1 .. MaxVersion, closed : BOOLEAN, turn : Nat]

Idle == [kind |-> "none", stage |-> "none", records |-> {}, links |-> {}]
Quiet == [stage |-> "none", records |-> {}, links |-> {}, protected |-> {}]
NoResult == [outcome |-> "none", records |-> {}, links |-> {}]
NoRow == [version |-> 0, closed |-> FALSE]

Operation ==
  [kind : {"none", "workflow", "ack"}, stage : {"none", "running", "done", "failed"},
   records : SUBSET Snapshot, links : SUBSET Incidents]

Job ==
  [stage : {"none", "maintain", "store"}, records : SUBSET Snapshot,
   links : SUBSET Incidents, protected : SUBSET Incidents]

Report ==
  [outcome : {"none", "ok", "error"}, records : SUBSET Snapshot,
   links : SUBSET Incidents]

Init ==
  /\ phase = [i \in Incidents |-> "new"]
  /\ version = [i \in Incidents |-> 0]
  /\ pending = {} /\ links = {} /\ named = {} /\ jobs = {} /\ aged = {}
  /\ turn = 0
  /\ up = TRUE
  /\ op = Idle
  /\ active = FALSE /\ job = Quiet /\ result = NoResult
  /\ resting = FALSE /\ cleanup = TRUE
  /\ rows = [i \in Incidents |-> NoRow]
  /\ linked = {} /\ reclaimed = {}
  /\ stops = 0
-----------------------------------------------------------------------------
(* Local operations: the workflow's transitions and the acknowledgements   *)
(* of deliveries. Each commits the whole document at once, or fails and    *)
(* leaves it as it was.                                                    *)

BeginOperation ==
  /\ up /\ op = Idle
  /\ op' = [Idle EXCEPT !.kind = "workflow", !.stage = "running"]
  /\ UNCHANGED <<document, aged, up, coordinator, archive, stops>>

Fits(queue) == Cardinality(queue) <= MaxPending

(* stage: the newer snapshot of an incident replaces the staged one and    *)
(* goes to the end; validate_pending rejects the save when full.           *)
Stage(i, closed) ==
  /\ version[i] < MaxVersion
  /\ version' = [version EXCEPT ![i] = @ + 1]
  /\ pending' = {r \in pending : r.id # i} \union
       {[id |-> i, version |-> version[i] + 1, closed |-> closed, turn |-> turn]}
  /\ turn' = turn + 1
  /\ Fits(pending')

(* External work about incident i is queued with the transition. The mode  *)
(* changes in Settings only while no incident is active.                   *)
Queued(i) == IF i \in Connected THEN jobs \union {i} ELSE jobs

ReportIncident(i) ==
  /\ phase[i] = "new"
  /\ phase' = [phase EXCEPT ![i] = "open"]
  /\ Stage(i, FALSE)
  /\ jobs' = Queued(i)
  /\ UNCHANGED <<links, named>>

(* Repair, crew, hand-over, escalation: any change of a history field.     *)
Change(i) ==
  /\ phase[i] = "open"
  /\ Stage(i, FALSE)
  /\ jobs' \in {jobs, Queued(i)}
  /\ UNCHANGED <<phase, links, named>>

Release(i) ==
  /\ phase[i] = "open"
  /\ phase' = [phase EXCEPT ![i] = "closed"]
  /\ Stage(i, TRUE)
  /\ jobs' \in {jobs, Queued(i)}
  /\ UNCHANGED <<links, named>>

(* replace_reference rewrites a staged snapshot where it stands.           *)
Rewritten(i) ==
  {IF r.id = i THEN [r EXCEPT !.version = version[i] + 1] ELSE r : r \in pending}

(* The creation of i's record was acknowledged: its identifier is kept for *)
(* the archive and substituted in the document, and an incident that is    *)
(* still active is staged again.                                           *)
CreationAnswered(i) ==
  /\ i \in jobs \ named
  /\ named' = named \union {i}
  /\ links' = links \union {i}
  /\ Fits(links')
  /\ jobs' \in {jobs, jobs \ {i}}
  /\ \/ phase[i] = "open" /\ Stage(i, FALSE)
     \/ /\ phase[i] = "closed" /\ version[i] < MaxVersion
        /\ \E r \in pending : r.id = i
        /\ version' = [version EXCEPT ![i] = @ + 1]
        /\ pending' = Rewritten(i)
        /\ UNCHANGED turn
     \/ /\ phase[i] = "closed" /\ \A r \in pending : r.id # i
        /\ UNCHANGED <<version, pending, turn>>
  /\ UNCHANGED phase

(* The last entry about i was delivered or dismissed.                      *)
UpdatesAnswered(i) ==
  /\ i \in jobs \intersect named
  /\ jobs' = jobs \ {i}
  /\ UNCHANGED <<phase, version, pending, turn, links, named>>

Transition ==
  /\ op.kind = "workflow" /\ op.stage = "running"
  /\ \E i \in Incidents :
       \/ ReportIncident(i) \/ Change(i) \/ Release(i)
       \/ CreationAnswered(i) \/ UpdatesAnswered(i)
  /\ op' = [op EXCEPT !.stage = "done"]
  /\ UNCHANGED <<aged, up, coordinator, archive, stops>>

(* A refused transition, a full queue or a failed save: rolled back.       *)
OperationFails ==
  /\ op.stage = "running"
  /\ op' = [op EXCEPT !.stage = "failed"]
  /\ UNCHANGED <<document, aged, up, coordinator, archive, stops>>

EndOperation ==
  /\ op.kind = "workflow" /\ op.stage \in {"done", "failed"}
  /\ op' = Idle
  /\ UNCHANGED <<document, aged, up, coordinator, archive, stops>>
-----------------------------------------------------------------------------
(* HistoryCoordinator.poll, on the UI thread and never while busy.         *)

MayPoll == up /\ op = Idle /\ ~resting

(* The first Batch snapshots of the queue, all if there are fewer.         *)
Heads == {s \in SUBSET pending :
  /\ Cardinality(s) <= Batch
  /\ s = pending \/ Cardinality(s) = Batch
  /\ \A r \in s, q \in pending \ s : r.turn < q.turn}

CaptureUnreported(records) ==
  [stage |-> IF cleanup THEN "maintain" ELSE "store", records |-> records,
   links |-> links, protected |-> {r.id : r \in records}]

(* A pass takes references to the snapshots, copies of the links and the   *)
(* identities the delivery journal still mentions.                         *)
Capture(records) ==
  [stage |-> IF cleanup THEN "maintain" ELSE "store", records |-> records,
   links |-> links, protected |-> jobs]

(* The thread is started, or cannot be and the pass has failed.            *)
PollCapture(started) ==
  /\ MayPoll /\ ~active
  /\ pending # {} \/ links # {} \/ cleanup
  /\ \E records \in Heads :
       IF started
       THEN job' = Capture(records) /\ UNCHANGED result
       ELSE /\ result' = [outcome |-> "error", records |-> records, links |-> links]
            /\ UNCHANGED job
  /\ active' = TRUE
  /\ cleanup' = FALSE
  /\ UNCHANGED <<document, aged, up, op, resting, archive, stops>>

(* A pass that only cleaned up has nothing to acknowledge.                 *)
PollNothing ==
  /\ MayPoll /\ active
  /\ result.outcome = "ok" /\ result.records = {} /\ result.links = {}
  /\ result' = NoResult
  /\ active' = FALSE
  /\ resting' = TRUE
  /\ UNCHANGED <<document, aged, up, op, job, cleanup, archive, stops>>

PollAcknowledge ==
  /\ MayPoll /\ active
  /\ result.outcome = "ok" /\ (result.records # {} \/ result.links # {})
  /\ op' = [kind |-> "ack", stage |-> "running",
            records |-> result.records, links |-> result.links]
  /\ result' = NoResult
  /\ UNCHANGED <<document, aged, up, active, job, resting, cleanup, archive, stops>>

PollErrorStays ==
  /\ MayPoll /\ active
  /\ result.outcome = "error"
  /\ result' = NoResult
  /\ resting' = TRUE /\ cleanup' = TRUE
  /\ UNCHANGED <<document, aged, up, op, active, job, archive, stops>>

(* The writer failed: nothing is acknowledged, the next pass cleans up.    *)
PollError ==
  /\ MayPoll /\ active
  /\ result.outcome = "error"
  /\ result' = NoResult
  /\ active' = FALSE
  /\ resting' = TRUE /\ cleanup' = TRUE
  /\ UNCHANGED <<document, aged, up, op, job, archive, stops>>

Poll == (\E started \in BOOLEAN : PollCapture(started)) \/ PollNothing \/ PollAcknowledge \/ PollError
-----------------------------------------------------------------------------
(* The writer thread.                                                      *)

ReclaimableAnyAge == {i \in Incidents : rows[i].closed /\ i \notin job.protected}

(* Completed rows, a day old at least, without external jobs at capture.   *)
(* Which of them are beyond the limit in force (24 hours under storage     *)
(* pressure, else 730 days; 200 a pass) is left open.                      *)
Reclaimable == {i \in Incidents :
  rows[i].closed /\ i \in aged /\ i \notin job.protected}

Answer(outcome) ==
  /\ result' = [outcome |-> outcome, records |-> job.records, links |-> job.links]
  /\ job' = Quiet

(* maintain, one SQLite transaction. It may still fail after its commit.   *)
Maintain(fine) ==
  /\ job.stage = "maintain"
  /\ \E gone \in SUBSET Reclaimable :
       /\ rows' = [i \in Incidents |-> IF i \in gone THEN NoRow ELSE rows[i]]
       /\ linked' = linked \ gone
       /\ reclaimed' = reclaimed \union gone
  /\ IF fine THEN job' = [job EXCEPT !.stage = "store"] /\ UNCHANGED result
             ELSE Answer("error")
  /\ UNCHANGED <<document, aged, up, op, active, resting, cleanup, stops>>

(* INSERT ... ON CONFLICT DO UPDATE.                                       *)
Upsert(i) ==
  IF \E r \in job.records : r.id = i
  THEN LET r == CHOOSE r \in job.records : r.id = i
       IN  [version |-> r.version, closed |-> r.closed]
  ELSE rows[i]

(* store, one SQLite transaction; an error after its commit is possible.   *)
Store(outcome) ==
  /\ job.stage = "store"
  /\ rows' = [i \in Incidents |-> Upsert(i)]
  /\ linked' = linked \union job.links
  /\ Answer(outcome)
  /\ UNCHANGED <<document, aged, up, op, active, resting, cleanup, reclaimed, stops>>

WorkerFails ==
  /\ job.stage # "none"
  /\ Answer("error")
  /\ UNCHANGED <<document, aged, up, op, active, resting, cleanup, archive, stops>>

Writer ==
  \/ \E fine \in BOOLEAN : Maintain(fine)
  \/ \E outcome \in {"ok", "error"} : Store(outcome)
  \/ WorkerFails
-----------------------------------------------------------------------------
(* The acknowledgement, a local operation of its own.                      *)

RemainingById == {r \in pending : \A q \in op.records : q.id # r.id}

(* Snapshots equal to an archived one leave the queue, newer ones stay.    *)
Remaining == {r \in pending : r \notin op.records}

UnlinkedAll == {}

(* The same for identifiers.                                               *)
Unlinked == links \ op.links

AckSaved ==
  /\ op.kind = "ack" /\ op.stage = "running"
  /\ pending' = Remaining
  /\ links' = Unlinked
  /\ op' = [op EXCEPT !.stage = "done"]
  /\ UNCHANGED <<phase, version, turn, named, jobs, aged, up, coordinator, archive, stops>>

AckDone ==
  /\ op.kind = "ack" /\ op.stage = "done"
  /\ op' = Idle
  /\ active' = FALSE
  /\ resting' = TRUE
  /\ UNCHANGED <<document, aged, up, job, result, cleanup, archive, stops>>

AckFailedForgets ==
  /\ op.kind = "ack" /\ op.stage = "failed"
  /\ op' = Idle
  /\ resting' = TRUE
  /\ UNCHANGED <<document, aged, up, active, job, result, cleanup, archive, stops>>

(* The result goes back and the save is tried again later.                 *)
AckFailed ==
  /\ op.kind = "ack" /\ op.stage = "failed"
  /\ result' = [outcome |-> "ok", records |-> op.records, links |-> op.links]
  /\ op' = Idle
  /\ resting' = TRUE
  /\ UNCHANGED <<document, aged, up, active, job, cleanup, archive, stops>>
-----------------------------------------------------------------------------
(* Time, stops and restarts.                                               *)

RestEnds ==
  /\ resting /\ resting' = FALSE
  /\ UNCHANGED <<document, aged, up, op, active, job, result, cleanup, archive, stops>>

HourPasses ==
  /\ up /\ ~cleanup /\ cleanup' = TRUE
  /\ UNCHANGED <<document, aged, up, op, active, job, result, resting, archive, stops>>

DayPasses(i) ==
  /\ phase[i] = "closed" /\ i \notin aged
  /\ aged' = aged \union {i}
  /\ UNCHANGED <<document, up, op, coordinator, archive, stops>>

(* Shutdown, crash or power loss: threads and queues vanish, both files    *)
(* keep what was committed.                                                *)
Stop ==
  /\ up /\ stops < MaxStops
  /\ stops' = stops + 1
  /\ up' = FALSE
  /\ op' = Idle /\ active' = FALSE /\ job' = Quiet /\ result' = NoResult
  /\ resting' = FALSE /\ cleanup' = FALSE
  /\ UNCHANGED <<document, aged, archive>>

Restart ==
  /\ ~up /\ up' = TRUE
  /\ cleanup' = TRUE
  /\ UNCHANGED <<document, aged, op, active, job, result, resting, archive, stops>>

Next ==
  \/ BeginOperation \/ Transition \/ OperationFails \/ EndOperation
  \/ Poll \/ Writer \/ AckSaved \/ AckDone \/ AckFailed
  \/ RestEnds \/ HourPasses \/ (\E i \in Incidents : DayPasses(i))
  \/ Stop \/ Restart

Spec == Init /\ [][Next]_vars

(* Threads end, the loop runs, a stopped terminal is started again.        *)
LoopFairness ==
  /\ WF_vars(Restart) /\ WF_vars(RestEnds) /\ WF_vars(EndOperation)
  /\ WF_vars(Transition \/ AckSaved \/ OperationFails)
  /\ WF_vars(AckDone \/ AckFailed)
  /\ WF_vars(Writer)
  /\ SF_vars(Poll)

(* A save of the document that is tried again and again works at last.     *)
DiskFairness == LoopFairness /\ SF_vars(AckSaved)

(* A pass can be started, and each of its two writes works, if tried again *)
(* and again.                                                              *)
ArchiveWorks ==
  SF_vars(PollCapture(TRUE)) /\ SF_vars(Maintain(TRUE)) /\ SF_vars(Store("ok"))

DiskSpec == Spec /\ DiskFairness
-----------------------------------------------------------------------------
TypeOK ==
  /\ phase \in [Incidents -> {"new", "open", "closed"}]
  /\ version \in [Incidents -> 0 .. MaxVersion]
  /\ pending \subseteq Snapshot
  /\ turn \in Nat
  /\ links \subseteq Incidents /\ named \subseteq Incidents
  /\ jobs \subseteq Incidents /\ aged \subseteq Incidents
  /\ up \in BOOLEAN /\ active \in BOOLEAN
  /\ resting \in BOOLEAN /\ cleanup \in BOOLEAN
  /\ op \in Operation /\ job \in Job /\ result \in Report
  /\ rows \in [Incidents -> [version : 0 .. MaxVersion, closed : BOOLEAN]]
  /\ linked \subseteq Incidents /\ reclaimed \subseteq Incidents
  /\ stops \in 0 .. MaxStops

(* The latest snapshot of an incident is staged or archived, unless        *)
(* retention removed it, whatever was acknowledged, replayed or failed:    *)
(* "A newer snapshot is not removed by an older acknowledgement"           *)
(* (docs/local-history.md).                                                *)
NewestKept == \A i \in Incidents : version[i] > 0 =>
  \/ \E r \in pending : r.id = i /\ r.version = version[i]
  \/ rows[i].version = version[i]
  \/ i \in reclaimed

(* An external identifier that arrived late reaches the archive too.       *)
IdentifierKept == \A i \in named :
  i \in links \/ i \in linked \/ i \in reclaimed

(* Retention never removes an open incident, one of today, or one that the *)
(* delivery journal still mentions, although it decides on what was        *)
(* captured before the thread started.                                     *)
ReclaimedWhenDone == [][\A i \in Incidents :
  rows[i] # NoRow /\ rows'[i] = NoRow =>
    phase[i] = "closed" /\ i \in aged /\ i \notin jobs]_vars

(* A pass ends, whatever happens to the archive: the writer never stays    *)
(* busy for good after a failed acknowledgement.                           *)
WriterFreed == active ~> ~active

(* If the archive works in the end, the queue in the state file is emptied *)
(* again and again, replays after a restart included.                      *)
QueueEmpties == ArchiveWorks => []<>(pending = {} /\ links = {})
-----------------------------------------------------------------------------
Contract == INSTANCE HistoryContract WITH
  newest <- version,
  kept <- [i \in Incidents |-> rows[i].version],
  disposable <- {i \in Incidents : phase[i] = "closed" /\ i \in aged /\ i \notin jobs}

(* Both stores together behave like one archive that only moves forwards.  *)
KeepsHistory == Contract!Spec
=============================================================================
