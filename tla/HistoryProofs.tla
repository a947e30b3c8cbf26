--------------------------- MODULE HistoryProofs ---------------------------
(* Theorems about History, for every value of its constants.               *)
EXTENDS History, TLAPS

-----------------------------------------------------------------------------
(* The inductive invariant.                                                *)

(* The queue holds, of each incident, its latest snapshot or none.         *)
Queue == \A r \in pending :
  /\ r.version = version[r.id]
  /\ r.closed => phase[r.id] = "closed"
  /\ \A q \in pending : q.id = r.id => q = r

(* A captured batch holds committed snapshots, one per incident.           *)
Committed(records) == \A r \in records :
  /\ r.version <= version[r.id]
  /\ r.closed => phase[r.id] = "closed"
  /\ \A q \in records : q.id = r.id => q = r

Batches ==
  Committed(job.records) /\ Committed(result.records) /\ Committed(op.records)

(* A batch is in one place: the thread, the results queue, or the          *)
(* acknowledgement.                                                        *)
OneBatch ==
  /\ job.stage # "none" => active /\ result.outcome = "none" /\ op.kind # "ack"
  /\ result.outcome # "none" => active /\ op.kind # "ack"
  /\ op.kind = "ack" => active

(* The archive follows, and a batch in the thread never takes it back.     *)
Following ==
  /\ \A i \in Incidents : /\ rows[i].version <= version[i]
                          /\ rows[i].closed => phase[i] = "closed"
  /\ job.stage # "none" => \A r \in job.records : rows[r.id].version <= r.version

(* What is to be acknowledged is in the archive.                           *)
Written ==
  /\ result.outcome = "ok" => /\ \A r \in result.records : rows[r.id].version = r.version
                              /\ result.links \subseteq linked
  /\ op.kind = "ack" => /\ \A r \in op.records : rows[r.id].version = r.version
                        /\ op.links \subseteq linked

(* The thread protects every completed row the journal still mentions.     *)
Shielded == job.stage = "maintain" =>
  \A i \in jobs : rows[i].closed => i \in job.protected

AgedClosed == \A i \in aged : phase[i] = "closed"

HistoryInv ==
  /\ TypeOK /\ Queue /\ Batches /\ OneBatch /\ Following /\ Written
  /\ Shielded /\ AgedClosed /\ NewestKept /\ IdentifierKept
-----------------------------------------------------------------------------
LEMMA QuietTypes == Idle \in Operation /\ Quiet \in Job /\ NoResult \in Report
BY DEF Idle, Operation, Quiet, Job, NoResult, Report

LEMMA InitHistory == Init => HistoryInv
<1> SUFFICES ASSUME Init PROVE HistoryInv
  OBVIOUS
<1>1. TypeOK
  <2>1. MaxVersion \in Nat /\ MaxStops \in Nat
    BY HistoryAssumption DEF HistoryAssumption
  <2>2. [i \in Incidents |-> NoRow] \in [Incidents -> [version : 0 .. MaxVersion, closed : BOOLEAN]]
    BY <2>1 DEF NoRow
  <2>3. /\ phase \in [Incidents -> {"new", "open", "closed"}]
        /\ version \in [Incidents -> 0 .. MaxVersion]
        /\ stops \in 0 .. MaxStops /\ turn \in Nat
    BY <2>1 DEF Init
  <2>4. op \in Operation /\ job \in Job /\ result \in Report
    BY QuietTypes DEF Init
  <2>5. QED
    BY <2>2, <2>3, <2>4 DEF Init, TypeOK
<1>2. Queue /\ Batches /\ OneBatch /\ Following /\ Written /\ Shielded /\ AgedClosed
  BY DEF Init, Queue, Batches, Committed, OneBatch, Following, Written, Shielded,
         AgedClosed, Idle, Quiet, NoResult, NoRow
<1>3. NewestKept /\ IdentifierKept
  BY DEF Init, NewestKept, IdentifierKept
<1>4. QED
  BY <1>1, <1>2, <1>3 DEF HistoryInv

(* What staging a snapshot does to the queue.                              *)
LEMMA StageFacts ==
  ASSUME TypeOK, Queue, NEW i \in Incidents, NEW closed \in BOOLEAN, Stage(i, closed),
         phase' \in [Incidents -> {"new", "open", "closed"}],
         \A j \in Incidents : j # i => phase'[j] = phase[j],
         closed => phase'[i] = "closed"
  PROVE  /\ version' \in [Incidents -> 0 .. MaxVersion]
         /\ version' = [version EXCEPT ![i] = @ + 1]
         /\ pending' \subseteq Snapshot /\ turn' \in Nat
         /\ Queue'
         /\ \A r \in pending : \E q \in pending' : q.id = r.id
         /\ \E q \in pending' : q.id = i
<1> DEFINE new == [id |-> i, version |-> version[i] + 1, closed |-> closed, turn |-> turn]
<1>1. version \in [Incidents -> 0 .. MaxVersion] /\ turn \in Nat /\ MaxVersion \in Nat
      /\ version[i] < MaxVersion /\ version[i] \in Nat
  BY HistoryAssumption DEF HistoryAssumption, TypeOK, Stage
<1>2. new \in Snapshot /\ new.id = i /\ new.version = version[i] + 1 /\ new.closed = closed
  BY <1>1 DEF Snapshot
<1>3. version' = [version EXCEPT ![i] = version[i] + 1]
      /\ pending' = {r \in pending : r.id # i} \union {new} /\ turn' = turn + 1
  BY DEF Stage
<1>4. \A r \in pending : r.id \in Incidents
  BY DEF TypeOK, Snapshot
<1>5. version'[i] = version[i] + 1 /\ \A j \in Incidents : j # i => version'[j] = version[j]
  BY <1>1, <1>3
<1> HIDE DEF new
<1>6. Queue'
  BY <1>2, <1>3, <1>4, <1>5 DEF Queue
<1>7. pending' \subseteq Snapshot
  BY <1>2, <1>3 DEF TypeOK
<1>8. \A r \in pending : \E q \in pending' : q.id = r.id
  BY <1>2, <1>3
<1>9. QED
  BY <1>1, <1>2, <1>3, <1>6, <1>7, <1>8

(* A transition of incident i, seen by everybody else: versions grow, the  *)
(* queue keeps every incident it held, completion is final, and a          *)
(* completed incident is neither staged nor reported about any more unless *)
(* the journal still mentioned it.                                         *)
TransitionOf(i) ==
  /\ version' = version \/ version' = [version EXCEPT ![i] = @ + 1]
  /\ version' # version => phase[i] # "closed" \/ i \in jobs
  /\ version' # version => \E q \in pending' : q.id = i
  /\ \A r \in pending : \E q \in pending' : q.id = r.id
  /\ phase[i] = "closed" => phase'[i] = "closed"
  /\ \A j \in Incidents : j # i => phase'[j] = phase[j]
  /\ jobs' \subseteq jobs \union {i} /\ jobs \ {i} \subseteq jobs'
  /\ i \in jobs' => i \in jobs \/ phase[i] # "closed"
  /\ phase[i] # "closed" \/ i \in jobs
  /\ links \subseteq links' /\ named' \subseteq named \union links'

DocumentType ==
  /\ phase \in [Incidents -> {"new", "open", "closed"}]
  /\ version \in [Incidents -> 0 .. MaxVersion]
  /\ pending \subseteq Snapshot
  /\ turn \in Nat
  /\ links \subseteq Incidents /\ named \subseteq Incidents
  /\ jobs \subseteq Incidents

LEMMA StagingTransition ==
  ASSUME TypeOK, Queue, NEW i \in Incidents,
         ReportIncident(i) \/ Change(i) \/ Release(i)
  PROVE  DocumentType' /\ Queue' /\ TransitionOf(i)
<1>1. PICK closed \in BOOLEAN : Stage(i, closed) /\ (closed => phase'[i] = "closed")
  BY DEF ReportIncident, Change, Release, TypeOK
<1>2. /\ phase' \in [Incidents -> {"new", "open", "closed"}]
      /\ \A j \in Incidents : j # i => phase'[j] = phase[j]
      /\ phase[i] # "closed"
  BY DEF ReportIncident, Change, Release, TypeOK
<1>3. jobs' \in {jobs, Queued(i)} /\ links' = links /\ named' = named
  BY DEF ReportIncident, Change, Release
<1>4. jobs' \subseteq jobs \union {i} /\ jobs \subseteq jobs'
  BY <1>3 DEF Queued
<1>5. /\ version' \in [Incidents -> 0 .. MaxVersion]
      /\ version' = [version EXCEPT ![i] = @ + 1]
      /\ pending' \subseteq Snapshot /\ turn' \in Nat
      /\ Queue'
      /\ \A r \in pending : \E q \in pending' : q.id = r.id
      /\ \E q \in pending' : q.id = i
  BY <1>1, <1>2, StageFacts
<1>6. DocumentType'
  BY <1>2, <1>3, <1>4, <1>5 DEF DocumentType, TypeOK
<1>7. TransitionOf(i)
  BY <1>2, <1>3, <1>4, <1>5 DEF TransitionOf
<1>8. QED
  BY <1>5, <1>6, <1>7

LEMMA RewrittenFacts ==
  ASSUME TypeOK, Queue, NEW i \in Incidents, version[i] < MaxVersion,
         version' = [version EXCEPT ![i] = @ + 1], pending' = Rewritten(i),
         phase' = phase
  PROVE  /\ version' \in [Incidents -> 0 .. MaxVersion]
         /\ pending' \subseteq Snapshot
         /\ Queue'
         /\ \A r \in pending : \E q \in pending' : q.id = r.id
<1> DEFINE f(r) == IF r.id = i THEN [r EXCEPT !.version = version[i] + 1] ELSE r
<1>1. version[i] \in Nat /\ MaxVersion \in Nat /\ pending' = {f(r) : r \in pending}
  BY HistoryAssumption DEF HistoryAssumption, TypeOK, Rewritten
<1>2. \A j \in Incidents : version'[j] = IF j = i THEN version[i] + 1 ELSE version[j]
  BY DEF TypeOK
<1>3. version' \in [Incidents -> 0 .. MaxVersion]
  BY <1>1 DEF TypeOK
<1>4. ASSUME NEW r \in pending
      PROVE  /\ f(r) \in Snapshot /\ f(r).id = r.id /\ f(r).closed = r.closed
             /\ f(r).version = version'[r.id]
  <2>1. r \in Snapshot /\ r.version = version[r.id] /\ r.id \in Incidents
    BY <1>4 DEF TypeOK, Queue, Snapshot
  <2>2. CASE r.id = i
    <3>1. version[i] + 1 \in 1 .. MaxVersion
      BY <1>1
    <3>2. QED
      BY <2>1, <2>2, <3>1, <1>2 DEF Snapshot
  <2>3. CASE r.id # i
    BY <2>1, <2>3, <1>2
  <2>4. QED
    BY <2>2, <2>3
<1> HIDE DEF f
<1>5. Queue'
  BY <1>1, <1>4 DEF Queue
<1>6. QED
  BY <1>1, <1>3, <1>4, <1>5

LEMMA AnswerTransition ==
  ASSUME TypeOK, Queue, NEW i \in Incidents,
         CreationAnswered(i) \/ UpdatesAnswered(i)
  PROVE  DocumentType' /\ Queue' /\ TransitionOf(i)
<1>1. phase' = phase /\ i \in jobs /\ jobs' \in {jobs, jobs \ {i}}
  BY DEF CreationAnswered, UpdatesAnswered
<1>2. /\ links \subseteq links' /\ named' \subseteq named \union links'
      /\ links' \subseteq Incidents /\ named' \subseteq Incidents
  BY DEF CreationAnswered, UpdatesAnswered, TypeOK
<1>3. /\ version' \in [Incidents -> 0 .. MaxVersion]
      /\ version' = version \/ version' = [version EXCEPT ![i] = @ + 1]
      /\ pending' \subseteq Snapshot /\ turn' \in Nat
      /\ Queue'
      /\ \A r \in pending : \E q \in pending' : q.id = r.id
      /\ version' # version => \E q \in pending' : q.id = i
  <2>1. CASE UNCHANGED <<version, pending, turn>>
    BY <2>1, <1>1 DEF TypeOK, Queue
  <2>2. CASE Stage(i, FALSE)
    BY <2>2, <1>1, StageFacts DEF TypeOK
  <2>3. CASE /\ version[i] < MaxVersion
             /\ \E r \in pending : r.id = i
             /\ version' = [version EXCEPT ![i] = @ + 1]
             /\ pending' = Rewritten(i)
             /\ UNCHANGED turn
    BY <2>3, <1>1, RewrittenFacts DEF TypeOK
  <2>4. QED
    BY <2>1, <2>2, <2>3 DEF CreationAnswered, UpdatesAnswered
<1>4. DocumentType'
  BY <1>1, <1>2, <1>3 DEF DocumentType, TypeOK
<1>5. TransitionOf(i)
  BY <1>1, <1>2, <1>3 DEF TransitionOf
<1>6. QED
  BY <1>3, <1>4, <1>5

-----------------------------------------------------------------------------
(* One lemma per part of the program: its steps keep the invariant.        *)
LEMMA TransitionHistory == HistoryInv /\ Transition => HistoryInv'
<1> SUFFICES ASSUME HistoryInv, Transition PROVE HistoryInv'
  OBVIOUS
<1>1. PICK i \in Incidents : DocumentType' /\ Queue' /\ TransitionOf(i)
  BY StagingTransition, AnswerTransition DEF Transition, HistoryInv
<1>2. /\ UNCHANGED <<aged, up, active, job, result, resting, cleanup, rows, linked,
                      reclaimed, stops>>
      /\ op' = [op EXCEPT !.stage = "done"] /\ op.kind = "workflow"
  BY DEF Transition, coordinator, archive
<1>3. op' \in Operation /\ op'.kind = op.kind /\ op'.records = op.records
  BY <1>2 DEF HistoryInv, TypeOK, Operation
<1>4. TypeOK'
  BY <1>1, <1>2, <1>3 DEF HistoryInv, TypeOK, DocumentType
<1>5. \A j \in Incidents : /\ version[j] \in Nat /\ version'[j] \in Nat
                           /\ version[j] <= version'[j]
                           /\ version'[j] # version[j] => j = i
                           /\ phase[j] = "closed" => phase'[j] = "closed"
  BY <1>1 DEF TransitionOf, HistoryInv, TypeOK
<1>6. /\ \A r \in job.records \union result.records \union op.records : r.id \in Incidents /\ r.version \in Nat
      /\ \A j \in Incidents : rows[j].version \in Nat
  BY DEF HistoryInv, TypeOK, Job, Report, Operation, Snapshot
<1>7. Batches'
  <2>1. ASSUME NEW records, Committed(records), \A r \in records : r.id \in Incidents /\ r.version \in Nat
        PROVE  \A r \in records :
                 /\ r.version <= version'[r.id]
                 /\ r.closed => phase'[r.id] = "closed"
                 /\ \A q \in records : q.id = r.id => q = r
    BY <1>5, <2>1 DEF Committed
  <2>2. QED
    BY <1>2, <1>3, <1>6, <2>1 DEF HistoryInv, Batches, Committed
<1>8. OneBatch' /\ Written'
  BY <1>2, <1>3 DEF HistoryInv, OneBatch, Written
<1>9. Following'
  BY <1>2, <1>5, <1>6 DEF HistoryInv, Following
<1>10. Shielded'
  BY <1>1, <1>2 DEF HistoryInv, Shielded, TransitionOf, Following
<1>11. AgedClosed'
  BY <1>2, <1>5 DEF HistoryInv, AgedClosed, TypeOK
<1>12. NewestKept'
  BY <1>1, <1>2, <1>5 DEF HistoryInv, NewestKept, TransitionOf, Queue, DocumentType, Snapshot
<1>13. IdentifierKept'
  BY <1>1, <1>2 DEF HistoryInv, IdentifierKept, TransitionOf
<1>14. QED
  BY <1>1, <1>4, <1>7, <1>8, <1>9, <1>10, <1>11, <1>12, <1>13 DEF HistoryInv

(* A local operation begins, fails or ends: the document stays.            *)
LEMMA OperationHistory ==
  HistoryInv /\ (BeginOperation \/ OperationFails \/ EndOperation) => HistoryInv'
<1> SUFFICES ASSUME HistoryInv, BeginOperation \/ OperationFails \/ EndOperation
             PROVE  HistoryInv'
  OBVIOUS
<1>1. UNCHANGED <<phase, version, pending, turn, links, named, jobs, aged, up, active,
                  job, result, resting, cleanup, rows, linked, reclaimed, stops>>
  BY DEF BeginOperation, OperationFails, EndOperation, document, coordinator, archive
<1>2. /\ op' \in Operation
      /\ op'.kind = "ack" => op.kind = "ack" /\ op'.links = op.links
      /\ op'.records \subseteq op.records
      /\ op'.kind = "ack" => op'.records = op.records
  <2>1. op \in Operation
    BY DEF HistoryInv, TypeOK
  <2>2. CASE BeginOperation
    BY <2>2 DEF BeginOperation, Idle, Operation
  <2>3. CASE OperationFails
    BY <2>1, <2>3 DEF OperationFails, Operation
  <2>4. CASE EndOperation
    BY <2>4 DEF EndOperation, Idle, Operation
  <2>5. QED
    BY <2>2, <2>3, <2>4
<1>3. TypeOK'
  BY <1>1, <1>2 DEF HistoryInv, TypeOK
<1>4. Queue' /\ Shielded' /\ AgedClosed' /\ NewestKept' /\ IdentifierKept' /\ Following'
  BY <1>1 DEF HistoryInv, Queue, Shielded, AgedClosed, NewestKept, IdentifierKept, Following
<1>5. Batches' /\ OneBatch' /\ Written'
  BY <1>1, <1>2 DEF HistoryInv, Batches, Committed, OneBatch, Written
<1>6. QED
  BY <1>3, <1>4, <1>5 DEF HistoryInv

(* A pass begins: what it captures is committed, one snapshot per          *)
(* incident, and the archive is not ahead of it.                           *)
LEMMA CaptureHistory ==
  HistoryInv /\ (\E started \in BOOLEAN : PollCapture(started)) => HistoryInv'
<1> SUFFICES ASSUME HistoryInv, NEW started \in BOOLEAN, PollCapture(started)
             PROVE  HistoryInv'
  OBVIOUS
<1>1. /\ UNCHANGED <<phase, version, pending, turn, links, named, jobs, aged, up, op,
                      resting, rows, linked, reclaimed, stops>>
      /\ active' = TRUE /\ cleanup' = FALSE /\ op = Idle /\ ~active
  BY DEF PollCapture, document, archive, MayPoll
<1>2. job.stage = "none" /\ result.outcome = "none" /\ op.kind # "ack" /\ op.records = {}
  BY <1>1 DEF HistoryInv, OneBatch, TypeOK, Job, Report, Idle
<1>3. PICK records \in Heads :
        IF started
        THEN job' = Capture(records) /\ UNCHANGED result
        ELSE /\ result' = [outcome |-> "error", records |-> records, links |-> links]
             /\ UNCHANGED job
  BY DEF PollCapture
<1>4. records \subseteq pending /\ records \subseteq Snapshot /\ links \subseteq Incidents
      /\ jobs \subseteq Incidents
  BY DEF Heads, HistoryInv, TypeOK
<1>5. \A r \in records : r.id \in Incidents /\ r.version \in Nat /\ r.version <= r.version
  BY <1>4 DEF Snapshot
<1>6. Committed(records)
  BY <1>4, <1>5 DEF HistoryInv, Queue, Committed
<1>7. Queue' /\ AgedClosed' /\ NewestKept' /\ IdentifierKept'
  BY <1>1 DEF HistoryInv, Queue, AgedClosed, NewestKept, IdentifierKept
<1>8. CASE started
  <2>1. /\ job' \in Job /\ job'.records = records /\ job'.protected = jobs
        /\ job'.stage \in {"maintain", "store"} /\ result' = result
    BY <1>3, <1>4, <1>8 DEF Capture, Job
  <2>2. TypeOK'
    BY <1>1, <2>1 DEF HistoryInv, TypeOK
  <2>3. Batches'
    BY <1>1, <1>6, <2>1 DEF HistoryInv, Batches, Committed
  <2>4. OneBatch' /\ Written' /\ Shielded'
    BY <1>1, <1>2, <2>1 DEF HistoryInv, OneBatch, Written, Shielded
  <2>5. Following'
    BY <1>1, <1>4, <1>5, <2>1 DEF HistoryInv, Following, Queue
  <2>6. QED
    BY <1>7, <2>2, <2>3, <2>4, <2>5 DEF HistoryInv
<1>9. CASE ~started
  <2>1. /\ result' \in Report /\ result'.records = records /\ result'.outcome = "error"
        /\ job' = job
    BY <1>3, <1>4, <1>9 DEF Report
  <2>2. TypeOK'
    BY <1>1, <2>1 DEF HistoryInv, TypeOK
  <2>3. Batches'
    BY <1>1, <1>6, <2>1 DEF HistoryInv, Batches, Committed
  <2>4. OneBatch' /\ Written' /\ Shielded' /\ Following'
    BY <1>1, <1>2, <2>1 DEF HistoryInv, OneBatch, Written, Shielded, Following
  <2>5. QED
    BY <1>7, <2>2, <2>3, <2>4 DEF HistoryInv
<1>10. QED
  BY <1>8, <1>9

(* An outcome is taken out of the results queue, or goes back into it.     *)
LEMMA OutcomeHistory ==
  HistoryInv /\ (PollNothing \/ PollError \/ PollAcknowledge \/ AckDone \/ AckFailed)
  => HistoryInv'
<1> SUFFICES ASSUME HistoryInv,
                    PollNothing \/ PollError \/ PollAcknowledge \/ AckDone \/ AckFailed
             PROVE  HistoryInv'
  OBVIOUS
<1>1. UNCHANGED <<phase, version, pending, turn, links, named, jobs, aged, up, job,
                  rows, linked, reclaimed, stops>>
  BY DEF PollNothing, PollError, PollAcknowledge, AckDone, AckFailed, document, archive
<1>2. op \in Operation /\ result \in Report /\ resting' \in BOOLEAN /\ cleanup' \in BOOLEAN
      /\ active' \in BOOLEAN
  BY DEF HistoryInv, TypeOK, PollNothing, PollError, PollAcknowledge, AckDone, AckFailed
<1>3. /\ op' \in Operation /\ result' \in Report
      /\ op'.records \subseteq op.records \union result.records
      /\ result'.records \subseteq op.records \union result.records
      /\ Committed(op'.records) /\ Committed(result'.records)
  BY <1>2, QuietTypes DEF PollNothing, PollError, PollAcknowledge, AckDone, AckFailed, Idle,
     NoResult, Operation, Report, HistoryInv, Batches, Committed, MayPoll
<1>4. TypeOK'
  BY <1>1, <1>2, <1>3 DEF HistoryInv, TypeOK
<1>5. Queue' /\ Shielded' /\ AgedClosed' /\ NewestKept' /\ IdentifierKept' /\ Following'
  BY <1>1 DEF HistoryInv, Queue, Shielded, AgedClosed, NewestKept, IdentifierKept, Following
<1>6. Batches'
  BY <1>1, <1>3 DEF HistoryInv, Batches, Committed
<1>7. OneBatch' /\ Written'
  BY <1>1 DEF HistoryInv, OneBatch, Written, PollNothing, PollError, PollAcknowledge,
     AckDone, AckFailed, MayPoll, Idle, NoResult
<1>8. QED
  BY <1>4, <1>5, <1>6, <1>7 DEF HistoryInv

(* The acknowledgement is saved: only what is in the archive is removed.   *)
LEMMA SavedHistory == HistoryInv /\ AckSaved => HistoryInv'
<1> SUFFICES ASSUME HistoryInv, AckSaved PROVE HistoryInv'
  OBVIOUS
<1>1. /\ UNCHANGED <<phase, version, turn, named, jobs, aged, up, active, job, result,
                      resting, cleanup, rows, linked, reclaimed, stops>>
      /\ pending' = {r \in pending : r \notin op.records} /\ links' = links \ op.links
      /\ op' = [op EXCEPT !.stage = "done"] /\ op.kind = "ack"
  BY DEF AckSaved, Remaining, Unlinked, coordinator, archive
<1>2. /\ op' \in Operation /\ op'.kind = op.kind
      /\ op'.records = op.records /\ op'.links = op.links
  BY <1>1 DEF HistoryInv, TypeOK, Operation
<1>3. TypeOK'
  BY <1>1, <1>2 DEF HistoryInv, TypeOK
<1>4. Queue' /\ Shielded' /\ AgedClosed' /\ Following'
  BY <1>1 DEF HistoryInv, Queue, Shielded, AgedClosed, Following
<1>5. Batches' /\ OneBatch' /\ Written'
  BY <1>1, <1>2 DEF HistoryInv, Batches, Committed, OneBatch, Written
<1>6. NewestKept'
  BY <1>1 DEF HistoryInv, NewestKept, Written
<1>7. IdentifierKept'
  BY <1>1 DEF HistoryInv, IdentifierKept, Written
<1>8. QED
  BY <1>3, <1>4, <1>5, <1>6, <1>7 DEF HistoryInv

(* The writer answers, whatever it did to the archive.                     *)
LEMMA AnswerFacts ==
  ASSUME HistoryInv, NEW outcome \in {"ok", "error"}, Answer(outcome)
  PROVE  /\ result' \in Report /\ job' \in Job /\ job'.stage = "none" /\ job'.records = {}
         /\ result'.outcome = outcome /\ result'.records = job.records
         /\ result'.links = job.links
<1>1. job \in Job
  BY DEF HistoryInv, TypeOK
<1>2. job.records \subseteq Snapshot /\ job.links \subseteq Incidents
  BY <1>1 DEF Job
<1>3. QED
  BY <1>2, QuietTypes DEF Answer, Report, Quiet

(* Retention reclaims rows inside the pass and moves on, or fails.         *)
LEMMA MaintainHistory ==
  HistoryInv /\ (\E fine \in BOOLEAN : Maintain(fine)) => HistoryInv'
<1> SUFFICES ASSUME HistoryInv, NEW fine \in BOOLEAN, Maintain(fine) PROVE HistoryInv'
  OBVIOUS
<1>1. /\ UNCHANGED <<phase, version, pending, turn, links, named, jobs, aged, up, op,
                      active, resting, cleanup, stops>>
      /\ job.stage = "maintain"
  BY DEF Maintain, document
<1>2. PICK gone \in SUBSET Reclaimable :
        /\ rows' = [i \in Incidents |-> IF i \in gone THEN NoRow ELSE rows[i]]
        /\ linked' = linked \ gone
        /\ reclaimed' = reclaimed \union gone
  BY DEF Maintain
<1>3. gone \subseteq Incidents /\ NoRow.version = 0 /\ NoRow.closed = FALSE
  BY DEF Reclaimable, NoRow
<1>4. active /\ result.outcome = "none" /\ op.kind # "ack"
  BY <1>1 DEF HistoryInv, OneBatch
<1>5. \A i \in Incidents : /\ version[i] \in Nat /\ rows[i].version \in Nat
                           /\ rows'[i] = IF i \in gone THEN NoRow ELSE rows[i]
  BY <1>2 DEF HistoryInv, TypeOK
<1>6. \A r \in job.records : r.id \in Incidents /\ r.version \in Nat
  BY DEF HistoryInv, TypeOK, Job, Snapshot
<1>7. rows' \in [Incidents -> [version : 0 .. MaxVersion, closed : BOOLEAN]]
  <2>1. NoRow \in [version : 0 .. MaxVersion, closed : BOOLEAN]
    BY HistoryAssumption DEF HistoryAssumption, NoRow
  <2>2. QED
    BY <2>1, <1>2 DEF HistoryInv, TypeOK
<1>8. /\ job' \in Job /\ result' \in Report
      /\ result'.outcome # "ok" /\ (job'.stage # "none" => result' = result)
      /\ job'.stage # "none" => job'.records = job.records
      /\ job'.stage # "maintain"
      /\ job'.records \in {job.records, {}} /\ result'.records \in {result.records, job.records}
  <2>1. CASE fine
    <3>1. job' = [job EXCEPT !.stage = "store"] /\ result' = result
      BY <2>1 DEF Maintain
    <3>2. QED
      BY <3>1, <1>4 DEF HistoryInv, TypeOK, Job
  <2>2. CASE ~fine
    BY <2>2, AnswerFacts DEF Maintain
  <2>3. QED
    BY <2>1, <2>2
<1>9. TypeOK'
  BY <1>1, <1>2, <1>3, <1>7, <1>8 DEF HistoryInv, TypeOK
<1>10. Queue' /\ AgedClosed'
  BY <1>1 DEF HistoryInv, Queue, AgedClosed
<1>11. Batches'
  BY <1>1, <1>8 DEF HistoryInv, Batches, Committed
<1>12. OneBatch' /\ Written' /\ Shielded'
  BY <1>1, <1>4, <1>8 DEF HistoryInv, OneBatch, Written, Shielded
<1>13. Following'
  BY <1>1, <1>3, <1>5, <1>6, <1>8 DEF HistoryInv, Following
<1>14. NewestKept'
  BY <1>1, <1>2, <1>5 DEF HistoryInv, NewestKept
<1>15. IdentifierKept'
  BY <1>1, <1>2 DEF HistoryInv, IdentifierKept
<1>16. QED
  BY <1>9, <1>10, <1>11, <1>12, <1>13, <1>14, <1>15 DEF HistoryInv

(* What a batch holds replaces what the archive held, and is never older.  *)
LEMMA StoreFacts ==
  ASSUME HistoryInv, NEW outcome \in {"ok", "error"}, Store(outcome)
  PROVE  /\ rows' \in [Incidents -> [version : 0 .. MaxVersion, closed : BOOLEAN]]
         /\ \A r \in job.records : rows'[r.id].version = r.version
         /\ \A i \in Incidents :
              /\ rows[i].version <= rows'[i].version /\ rows'[i].version <= version[i]
              /\ rows'[i].closed => phase[i] = "closed"
              /\ rows'[i] = NoRow => rows[i] = NoRow
<1>1. job.stage = "store" /\ rows' = [i \in Incidents |-> Upsert(i)]
  BY DEF Store
<1>2. /\ Committed(job.records)
      /\ \A r \in job.records : rows[r.id].version <= r.version
      /\ \A i \in Incidents : version[i] \in Nat /\ rows[i].version \in Nat
  BY <1>1 DEF HistoryInv, Batches, Following, TypeOK
<1>3. \A r \in job.records : /\ r.id \in Incidents /\ r.version \in 1 .. MaxVersion
                             /\ r.version \in 0 .. MaxVersion /\ r.closed \in BOOLEAN
  BY HistoryAssumption DEF HistoryAssumption, HistoryInv, TypeOK, Job, Snapshot
<1>4. ASSUME NEW r \in job.records
      PROVE  /\ rows'[r.id] = [version |-> r.version, closed |-> r.closed]
             /\ rows'[r.id].version = r.version /\ rows'[r.id].closed = r.closed
  <2>1. r.id \in Incidents /\ \A q \in job.records : q.id = r.id => q = r
    BY <1>2, <1>3, <1>4 DEF Committed
  <2>2. (CHOOSE q \in job.records : q.id = r.id) = r
    BY <2>1, <1>4
  <2>3. Upsert(r.id) = [version |-> r.version, closed |-> r.closed]
    BY <2>2, <1>4 DEF Upsert
  <2>4. rows'[r.id] = [version |-> r.version, closed |-> r.closed]
    BY <1>1, <2>1, <2>3
  <2>5. QED
    BY <2>4
<1>5. ASSUME NEW i \in Incidents
      PROVE  /\ rows'[i] \in [version : 0 .. MaxVersion, closed : BOOLEAN]
             /\ rows[i].version <= rows'[i].version /\ rows'[i].version <= version[i]
             /\ rows'[i].closed => phase[i] = "closed"
             /\ rows'[i] = NoRow => rows[i] = NoRow
  <2>1. CASE \A r \in job.records : r.id # i
    <3>1. rows'[i] = rows[i]
      BY <1>1, <2>1 DEF Upsert
    <3>2. QED
      BY <3>1, <1>2 DEF HistoryInv, Following, TypeOK
  <2>2. CASE \E r \in job.records : r.id = i
    <3>1. PICK r \in job.records : r.id = i
      BY <2>2
    <3>2. /\ rows'[i] = [version |-> r.version, closed |-> r.closed]
          /\ rows'[i].version = r.version /\ rows'[i].closed = r.closed
      BY <1>4, <3>1
    <3>3. [version |-> r.version, closed |-> r.closed]
            \in [version : 0 .. MaxVersion, closed : BOOLEAN]
      BY <1>3
    <3>4. rows'[i] # NoRow
      BY <1>3, <3>2 DEF NoRow
    <3>5. rows'[i] \in [version : 0 .. MaxVersion, closed : BOOLEAN]
      BY <3>2, <3>3
    <3>6. QED
      BY <1>2, <3>1, <3>2, <3>4, <3>5 DEF Committed
  <2>3. QED
    BY <2>1, <2>2
<1>6. QED
  BY <1>1, <1>4, <1>5

(* Snapshots and links are written.                                        *)
LEMMA StoreHistory ==
  HistoryInv /\ (\E outcome \in {"ok", "error"} : Store(outcome)) => HistoryInv'
<1> SUFFICES ASSUME HistoryInv, NEW outcome \in {"ok", "error"}, Store(outcome)
             PROVE  HistoryInv'
  OBVIOUS
<1>1. /\ UNCHANGED <<phase, version, pending, turn, links, named, jobs, aged, up, op,
                      active, resting, cleanup, reclaimed, stops>>
      /\ job.stage = "store" /\ Answer(outcome) /\ linked' = linked \union job.links
  BY DEF Store, document
<1>2. /\ result' \in Report /\ job' \in Job /\ job'.stage = "none" /\ job'.records = {}
      /\ result'.outcome = outcome /\ result'.records = job.records
      /\ result'.links = job.links
  BY <1>1, AnswerFacts
<1>3. /\ rows' \in [Incidents -> [version : 0 .. MaxVersion, closed : BOOLEAN]]
      /\ \A r \in job.records : rows'[r.id].version = r.version
      /\ \A i \in Incidents :
           /\ rows[i].version <= rows'[i].version /\ rows'[i].version <= version[i]
           /\ rows'[i].closed => phase[i] = "closed"
  BY StoreFacts
<1>4. active /\ op.kind # "ack" /\ Committed(job.records) /\ job.links \subseteq Incidents
  BY <1>1 DEF HistoryInv, OneBatch, Batches, TypeOK, Job
<1>5. TypeOK'
  BY <1>1, <1>2, <1>3, <1>4 DEF HistoryInv, TypeOK
<1>6. Queue' /\ AgedClosed' /\ Shielded'
  BY <1>1, <1>2 DEF HistoryInv, Queue, AgedClosed, Shielded
<1>7. Batches'
  BY <1>1, <1>2, <1>4 DEF HistoryInv, Batches, Committed
<1>8. OneBatch' /\ Written'
  BY <1>1, <1>2, <1>3, <1>4 DEF HistoryInv, OneBatch, Written
<1>9. Following'
  BY <1>1, <1>2, <1>3 DEF Following
<1>10. NewestKept'
  <2>1. ASSUME NEW i \in Incidents, rows[i].version = version[i]
        PROVE  rows'[i].version = version[i]
    <3>1. rows'[i].version \in Nat /\ version[i] \in Nat
      BY <1>3 DEF HistoryInv, TypeOK
    <3>2. QED
      BY <2>1, <3>1, <1>3
  <2>2. QED
    BY <1>1, <2>1 DEF HistoryInv, NewestKept
<1>11. IdentifierKept'
  BY <1>1 DEF HistoryInv, IdentifierKept
<1>12. QED
  BY <1>5, <1>6, <1>7, <1>8, <1>9, <1>10, <1>11 DEF HistoryInv

(* The writer gives up, the process stops or starts, time passes.          *)
LEMMA OutsideHistory ==
  HistoryInv /\ (WorkerFails \/ RestEnds \/ HourPasses \/ Stop \/ Restart) => HistoryInv'
<1> SUFFICES ASSUME HistoryInv, WorkerFails \/ RestEnds \/ HourPasses \/ Stop \/ Restart
             PROVE  HistoryInv'
  OBVIOUS
<1>1. UNCHANGED <<phase, version, pending, turn, links, named, jobs, aged, rows, linked,
                  reclaimed>>
  BY DEF WorkerFails, RestEnds, HourPasses, Stop, Restart, document, archive
<1>2. stops' \in 0 .. MaxStops
  BY HistoryAssumption DEF HistoryAssumption, HistoryInv, TypeOK, WorkerFails, RestEnds,
     HourPasses, Stop, Restart
<1>3. /\ up' \in BOOLEAN /\ active' \in BOOLEAN
      /\ resting' \in BOOLEAN /\ cleanup' \in BOOLEAN
  BY Zenon DEF HistoryInv, TypeOK, WorkerFails, RestEnds, HourPasses, Stop, Restart
<1>4. Queue' /\ AgedClosed' /\ NewestKept' /\ IdentifierKept'
  BY <1>1 DEF HistoryInv, Queue, AgedClosed, NewestKept, IdentifierKept
<1>5. CASE WorkerFails
  <2>1. UNCHANGED <<up, op, active, resting, cleanup, stops>> /\ Answer("error")
        /\ job.stage # "none"
    BY <1>5 DEF WorkerFails
  <2>2. /\ result' \in Report /\ job' \in Job /\ job'.stage = "none" /\ job'.records = {}
        /\ result'.outcome = "error" /\ result'.records = job.records
    BY <2>1, AnswerFacts
  <2>3. TypeOK'
    BY <1>1, <1>2, <2>1, <2>2 DEF HistoryInv, TypeOK
  <2>4. Batches' /\ OneBatch' /\ Following' /\ Written' /\ Shielded'
    BY <1>1, <2>1, <2>2 DEF HistoryInv, Batches, Committed, OneBatch, Following, Written,
       Shielded
  <2>5. QED
    BY <1>4, <2>3, <2>4 DEF HistoryInv
<1>6. CASE Stop
  <2>1. op' = Idle /\ job' = Quiet /\ result' = NoResult
    BY <1>6 DEF Stop
  <2>2. TypeOK'
    BY <1>1, <1>2, <1>3, <2>1, QuietTypes DEF HistoryInv, TypeOK
  <2>3. Batches' /\ OneBatch' /\ Following' /\ Written' /\ Shielded'
    BY <1>1, <2>1 DEF HistoryInv, Batches, Committed, OneBatch, Following, Written,
       Shielded, Idle, Quiet, NoResult
  <2>4. QED
    BY <1>4, <2>2, <2>3 DEF HistoryInv
<1>7. CASE RestEnds \/ HourPasses \/ Restart
  <2>1. UNCHANGED <<op, active, job, result>>
    BY <1>7 DEF RestEnds, HourPasses, Restart
  <2>2. TypeOK'
    BY <1>1, <1>2, <1>3, <2>1 DEF HistoryInv, TypeOK
  <2>3. Batches' /\ OneBatch' /\ Following' /\ Written' /\ Shielded'
    BY <1>1, <2>1 DEF HistoryInv, Batches, Committed, OneBatch, Following, Written, Shielded
  <2>4. QED
    BY <1>4, <2>2, <2>3 DEF HistoryInv
<1>8. QED
  BY <1>5, <1>6, <1>7

(* A completed incident ages.                                              *)
LEMMA AgeHistory == HistoryInv /\ (\E i \in Incidents : DayPasses(i)) => HistoryInv'
<1> SUFFICES ASSUME HistoryInv, NEW i \in Incidents, DayPasses(i) PROVE HistoryInv'
  OBVIOUS
<1>1. /\ UNCHANGED <<phase, version, pending, turn, links, named, jobs, up, op, active,
                      job, result, resting, cleanup, rows, linked, reclaimed, stops>>
      /\ aged' = aged \union {i} /\ phase[i] = "closed"
  BY DEF DayPasses, document, coordinator, archive
<1>2. TypeOK' /\ AgedClosed'
  BY <1>1 DEF HistoryInv, TypeOK, AgedClosed
<1>3. Queue' /\ Batches' /\ OneBatch' /\ Following'
  BY <1>1 DEF HistoryInv, Queue, Batches, Committed, OneBatch, Following
<1>4. Written' /\ Shielded' /\ NewestKept' /\ IdentifierKept'
  BY <1>1 DEF HistoryInv, Written, Shielded, NewestKept, IdentifierKept
<1>5. QED
  BY <1>2, <1>3, <1>4 DEF HistoryInv

LEMMA NextHistory == HistoryInv /\ [Next]_vars => HistoryInv'
<1> SUFFICES ASSUME HistoryInv, [Next]_vars PROVE HistoryInv'
  OBVIOUS
<1>1. CASE UNCHANGED vars
  BY <1>1 DEF vars, document, coordinator, archive, HistoryInv, TypeOK, Queue, Batches,
     Committed, OneBatch, Following, Written, Shielded, AgedClosed, NewestKept,
     IdentifierKept
<1>2. CASE Transition
  BY <1>2, TransitionHistory
<1>3. CASE BeginOperation \/ OperationFails \/ EndOperation
  BY <1>3, OperationHistory
<1>4. CASE Poll
  BY <1>4, CaptureHistory, OutcomeHistory DEF Poll
<1>5. CASE Writer
  BY <1>5, MaintainHistory, StoreHistory, OutsideHistory DEF Writer
<1>6. CASE AckSaved
  BY <1>6, SavedHistory
<1>7. CASE AckDone \/ AckFailed
  BY <1>7, OutcomeHistory
<1>8. CASE RestEnds \/ HourPasses \/ Stop \/ Restart
  BY <1>8, OutsideHistory
<1>9. CASE \E i \in Incidents : DayPasses(i)
  BY <1>9, AgeHistory
<1>10. QED
  BY <1>1, <1>2, <1>3, <1>4, <1>5, <1>6, <1>7, <1>8, <1>9 DEF Next

-----------------------------------------------------------------------------
(* What follows from the invariant.                                        *)

LEMMA HistoryInvariant == Spec => []HistoryInv
BY InitHistory, NextHistory, PTL DEF Spec

(* The history keeps its types: staged snapshots, batches, archive rows    *)
(* and the coordinator's flags stay what services/history.py declares.     *)
THEOREM HistoryTypes == Spec => []TypeOK
<1>1. HistoryInv => TypeOK
  BY DEF HistoryInv
<1>2. QED
  BY <1>1, HistoryInvariant, PTL

(* No committed transition is lost to the history, whatever fails, stops   *)
(* or is acknowledged late.                                                *)
THEOREM NewestIsKept == Spec => []NewestKept
<1>1. HistoryInv => NewestKept
  BY DEF HistoryInv
<1>2. QED
  BY <1>1, HistoryInvariant, PTL

(* No external identifier is lost to the history either.                   *)
THEOREM IdentifierIsKept == Spec => []IdentifierKept
<1>1. HistoryInv => IdentifierKept
  BY DEF HistoryInv
<1>2. QED
  BY <1>1, HistoryInvariant, PTL

(* The archive changes only in the writer's two transactions.              *)
LEMMA WriterOnly ==
  [Next]_vars => \/ rows' = rows
                 \/ \E fine \in BOOLEAN : Maintain(fine)
                 \/ \E outcome \in {"ok", "error"} : Store(outcome)
BY DEF Next, vars, document, coordinator, archive, BeginOperation, Transition,
   OperationFails, EndOperation, Poll, PollCapture, PollNothing, PollAcknowledge,
   PollError, Writer, WorkerFails, AckSaved, AckDone, AckFailed, RestEnds, HourPasses,
   DayPasses, Stop, Restart

Disposable == {i \in Incidents : phase[i] = "closed" /\ i \in aged /\ i \notin jobs}

(* What was captured is still good when the rows are removed: the journal  *)
(* cannot mention a completed incident again.                              *)
LEMMA ReclaimableDone ==
  HistoryInv /\ job.stage = "maintain" => Reclaimable \subseteq Disposable
BY DEF HistoryInv, Following, Shielded, Reclaimable, Disposable

(* Retention removes an incident only when it was completed more than a    *)
(* day ago and the delivery journal does not mention it now.               *)
THEOREM ReclaimsOnlyDone == Spec => ReclaimedWhenDone
<1> DEFINE Done(i) == rows[i] # NoRow /\ rows'[i] = NoRow =>
                        phase[i] = "closed" /\ i \in aged /\ i \notin jobs
<1>1. HistoryInv /\ [Next]_vars => \A i \in Incidents : Done(i)
  <2> SUFFICES ASSUME HistoryInv, [Next]_vars, NEW i \in Incidents PROVE Done(i)
    OBVIOUS
  <2>1. CASE rows' = rows
    BY <2>1
  <2>2. CASE \E fine \in BOOLEAN : Maintain(fine)
    <3>1. job.stage = "maintain" /\ \E gone \in SUBSET Reclaimable :
            rows' = [j \in Incidents |-> IF j \in gone THEN NoRow ELSE rows[j]]
      BY <2>2 DEF Maintain
    <3>2. QED
      BY <3>1, ReclaimableDone DEF Disposable
  <2>3. CASE \E outcome \in {"ok", "error"} : Store(outcome)
    BY <2>3, StoreFacts
  <2>4. QED
    BY <2>1, <2>2, <2>3, WriterOnly
<1>2. HistoryInv /\ [Next]_vars => [\A i \in Incidents : Done(i)]_vars
  BY <1>1
<1>3. QED
  BY <1>2, HistoryInvariant, PTL DEF Spec, ReclaimedWhenDone

-----------------------------------------------------------------------------
(* Both stores together implement the contract.                            *)

Kept == [i \in Incidents |-> rows[i].version]

(* A transition of the workflow is a Record, a Settle or nothing.          *)
LEMMA TransitionKeeps ==
  HistoryInv /\ Transition => [Contract!Next]_(Contract!history)
<1> SUFFICES ASSUME HistoryInv, Transition PROVE [Contract!Next]_(Contract!history)
  OBVIOUS
<1>1. PICK i \in Incidents : TransitionOf(i)
  BY StagingTransition, AnswerTransition DEF Transition, HistoryInv
<1>2. Kept' = Kept /\ aged' = aged
  BY DEF Transition, archive, Kept
<1>3. i \notin Disposable
  BY <1>1 DEF TransitionOf, Disposable
<1>4. \A j \in Incidents \ {i} : j \in Disposable' <=> j \in Disposable
  BY <1>1, <1>2 DEF TransitionOf, Disposable
<1>5. Disposable' = Disposable \/ Disposable' = Disposable \union {i}
  <2>1. Disposable \subseteq Incidents /\ Disposable' \subseteq Incidents
    BY DEF Disposable
  <2>2. QED
    BY <1>3, <1>4, <2>1
<1>6. CASE version' = [version EXCEPT ![i] = @ + 1]
  BY <1>2, <1>3, <1>5, <1>6 DEF Contract!Next, Contract!Record, Disposable, Kept
<1>7. CASE version' = version /\ Disposable' = Disposable
  BY <1>2, <1>7 DEF Contract!history, Disposable, Kept
<1>8. CASE version' = version /\ Disposable' = Disposable \union {i}
  BY <1>2, <1>8 DEF Contract!Next, Contract!Settle, Disposable, Kept
<1>9. QED
  BY <1>1, <1>5, <1>6, <1>7, <1>8 DEF TransitionOf

(* A day after completion, an incident without external work is settled.   *)
LEMMA AgeKeeps ==
  HistoryInv /\ (\E i \in Incidents : DayPasses(i)) => [Contract!Next]_(Contract!history)
<1> SUFFICES ASSUME HistoryInv, NEW i \in Incidents, DayPasses(i)
             PROVE  [Contract!Next]_(Contract!history)
  OBVIOUS
<1>1. /\ version' = version /\ Kept' = Kept /\ phase' = phase /\ jobs' = jobs
      /\ aged' = aged \union {i}
  BY DEF DayPasses, document, archive, Kept
<1>2. Disposable' = Disposable \/ Disposable' = Disposable \union {i}
  BY <1>1 DEF Disposable
<1>3. CASE Disposable' = Disposable
  BY <1>1, <1>3 DEF Contract!history, Disposable, Kept
<1>4. CASE Disposable' = Disposable \union {i}
  BY <1>1, <1>4 DEF Contract!Next, Contract!Settle, Disposable, Kept
<1>5. QED
  BY <1>2, <1>3, <1>4

(* Retention is Forget.                                                    *)
LEMMA MaintainKeeps ==
  HistoryInv /\ (\E fine \in BOOLEAN : Maintain(fine)) => Contract!Forget
<1> SUFFICES ASSUME HistoryInv, NEW fine \in BOOLEAN, Maintain(fine)
             PROVE  Contract!Forget
  OBVIOUS
<1>1. PICK gone \in SUBSET Reclaimable :
        rows' = [i \in Incidents |-> IF i \in gone THEN NoRow ELSE rows[i]]
  BY DEF Maintain
<1>2. gone \in SUBSET Disposable
  BY ReclaimableDone DEF Maintain
<1>3. version' = version /\ phase' = phase /\ jobs' = jobs /\ aged' = aged
  BY DEF Maintain, document
<1>4. \A i \in Incidents :
        rows'[i].version = IF i \in gone THEN 0 ELSE rows[i].version
  BY <1>1 DEF NoRow
<1>5. Kept' = [i \in Incidents |-> IF i \in gone THEN 0 ELSE Kept[i]]
  BY <1>4 DEF Kept
<1>6. Disposable' = Disposable
  BY <1>3 DEF Disposable
<1>7. QED
  BY <1>2, <1>3, <1>5, <1>6 DEF Contract!Forget, Disposable, Kept

(* The write of a batch is Keep.                                           *)
LEMMA StoreKeeps ==
  HistoryInv /\ (\E outcome \in {"ok", "error"} : Store(outcome)) => Contract!Keep
<1> SUFFICES ASSUME HistoryInv, NEW outcome \in {"ok", "error"}, Store(outcome)
             PROVE  Contract!Keep
  OBVIOUS
<1>1. version' = version /\ phase' = phase /\ jobs' = jobs /\ aged' = aged
  BY DEF Store, document
<1>2. \A i \in Incidents : Kept[i] = rows[i].version /\ Kept'[i] = rows'[i].version
  BY DEF Kept
<1>3. \A i \in Incidents : Kept[i] <= Kept'[i] /\ Kept'[i] <= version[i]
  BY <1>2, StoreFacts
<1>4. Kept' \in [Incidents -> Nat]
  <2>1. \A i \in Incidents : rows'[i].version \in Nat
    BY StoreFacts
  <2>2. QED
    BY <2>1 DEF Kept
<1>5. Disposable' = Disposable
  BY <1>1 DEF Disposable
<1>6. QED
  BY <1>1, <1>3, <1>4, <1>5 DEF Contract!Keep, Disposable, Kept

(* Every other step of the program leaves both stores as they are.         *)
LEMMA OthersKeep ==
  ASSUME [Next]_vars, ~Transition, ~ \E i \in Incidents : DayPasses(i),
         ~ \E fine \in BOOLEAN : Maintain(fine),
         ~ \E outcome \in {"ok", "error"} : Store(outcome)
  PROVE  UNCHANGED Contract!history
<1>1. version' = version /\ phase' = phase /\ jobs' = jobs /\ aged' = aged /\ rows' = rows
  BY DEF Next, vars, document, coordinator, archive, BeginOperation, OperationFails,
     EndOperation, Poll, PollCapture, PollNothing, PollAcknowledge, PollError, Writer,
     WorkerFails, AckSaved, AckDone, AckFailed, RestEnds, HourPasses, Stop, Restart
<1>2. QED
  BY <1>1 DEF Contract!history

(* Queue, writer thread, acknowledgement and archive together behave like  *)
(* one history that moves forwards only, shows committed snapshots and     *)
(* forgets what is disposable.                                             *)
THEOREM ImplementsHistory == Spec => KeepsHistory
<1>1. Init => Contract!Init
  <2> SUFFICES ASSUME Init PROVE Contract!Init
    OBVIOUS
  <2>1. \A i \in Incidents : rows[i].version = 0 /\ phase[i] = "new"
    BY DEF Init, NoRow
  <2>2. version = [i \in Incidents |-> 0]
    BY DEF Init
  <2>3. QED
    BY <2>1, <2>2 DEF Contract!Init
<1>2. HistoryInv /\ [Next]_vars => [Contract!Next]_(Contract!history)
  BY TransitionKeeps, AgeKeeps, MaintainKeeps, StoreKeeps, OthersKeep DEF Contract!Next
<1>3. QED
  BY <1>1, <1>2, HistoryInvariant, PTL DEF Spec, KeepsHistory, Contract!Spec
=============================================================================
