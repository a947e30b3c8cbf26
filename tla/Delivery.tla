------------------------------ MODULE Delivery ------------------------------
(***************************************************************************)
(* The delivery journal and the coordinator that empties it: the write     *)
(* facade the workflow calls (DeferredIntegration), the persisted journal  *)
(* (storage/delivery.py), the single network worker and the local-save     *)
(* worker it shares with the operator (services/delivery.py, app.perform), *)
(* the administrator's review operations, process stops and restarts, and  *)
(* the external service as the code uses it.                               *)
(*                                                                         *)
(* One committed document.  A save either replaces the state file and the  *)
(* committed snapshot, or rolls memory back to it, so between two          *)
(* operations memory and file agree; `journal` is that document.  Journal  *)
(* positions 1, 2, ... stand for the entries' UUIDs: entries are appended, *)
(* removed from anywhere and never moved, so list order is number order.   *)
(***************************************************************************)
EXTENDS Integers, FiniteSets, Functions

CONSTANTS
  Records,        \* response records, one per incident
  Targets,        \* external assets and chats that updates are addressed to
  Values,         \* contents an update may carry
  Connectors,     \* external systems a connector definition can name
  Unbound,        \* the binding of an update recorded with no connector
  None,           \* no record, no value
  Intents,        \* the updates the workflow may ask for
  SafeMethods,    \* operations the connector declares retry-safe
  Offers,         \* the operations each connector maps
  LazyRename,     \* the file system may undo the latest rename at power loss
  MaxItems,       \* bound: updates ever recorded
  MaxOutbox,      \* MAX_DELIVERIES
  MaxReviews,     \* bound: retries an administrator authorises in all
  MaxStops,       \* bound: process stops
  MaxSwitches     \* bound: connector selections in Settings

Methods == {"create", "status", "assign", "comment", "asset", "message"}
OrderedMethods == {"asset", "status", "assign"}
RecordMethods == {"create", "status", "assign", "comment"}

Intent == [method : Methods, target : Records \union Targets,
           about : Records \union {None}, value : Values \union {None},
           expires : BOOLEAN]

ASSUME BoundsAssumption ==
  /\ MaxItems \in Nat /\ MaxOutbox \in Nat /\ MaxReviews \in Nat
  /\ MaxStops \in Nat /\ MaxSwitches \in Nat
  /\ LazyRename \in BOOLEAN

(* The argument checks of the six operations: a record operation addresses *)
(* its own record, only a creation is addressed to a record it is not yet  *)
(* about to name, and only help messages carry an expiry.                  *)
ASSUME IntentAssumption ==
  /\ Intents \subseteq Intent
  /\ \A n \in Intents :
       /\ n.method \in RecordMethods =>
            n.target \in Records /\ n.about = n.target
       /\ n.method \notin RecordMethods => n.target \in Targets
       /\ n.expires => n.method = "message"

ASSUME SystemAssumption ==
  /\ Unbound \notin Connectors
  /\ None \notin Records
  /\ Records \intersect Targets = {}
  /\ SafeMethods \subseteq Methods
  /\ Offers \in [Connectors -> SUBSET Methods]

Systems == Connectors \union {Unbound}
Ids == 1 .. MaxItems
NoIntent == [method |-> "none", target |-> None, about |-> None,
             value |-> None, expires |-> FALSE]

(* BlocksUnlessHeld before Blocks, ResolveFieldsOnly before Resolve and    *)
(* the like: a definition right before the one it resembles is a plausible *)
(* slip, used only to show that the properties can fail.                   *)

VARIABLES
  journal,   \* the committed document: phase and waits of each entry, ref and
             \* home of each record, and whether delivery is paused
  prior,     \* the document a power loss would bring back
  minted,    \* how many entries were ever recorded
  intent,    \* what each entry asks for
  binding,   \* the system each entry is bound to
  up,        \* the process runs
  remote,    \* the selected connector, Unbound when none is usable
  op,        \* the local operation that owns app.busy
  active,    \* the entry that owns the network worker, 0 when it is free
  http,      \* the network thread: the entry it carries and how far it got
  result,    \* the outcome waiting in the one-slot results queue
  overdue,   \* help messages whose window has passed
  seen,      \* the service's deduplication memory
  effects,   \* how often the service carried each entry out
  stray,     \* requests nobody waits for that may still reach the service
  reviews,   \* retries an administrator authorised
  settled,   \* entries an administrator closed
  issuer,    \* the system that issued each record's identifier
  asked,     \* the content last asked for, per ordered lane
  stops,
  switches

service == <<seen, effects, stray>>
ghosts == <<reviews, settled, issuer, asked>>
network == <<active, http, result>>
vars == <<journal, prior, minted, intent, binding, up, remote, op, active,
          http, result, overdue, seen, effects, stray, reviews, settled,
          issuer, asked, stops, switches>>

Outcomes == {"ok", "unusable", "rejected", "uncertain", "refused"}
Idle == [kind |-> "idle", id |-> 0, system |-> Unbound,
         outcome |-> "none", sent |-> FALSE, stage |-> "none"]
Quiet == [id |-> 0, system |-> Unbound, stage |-> "none"]
NoResult == [id |-> 0, system |-> Unbound, outcome |-> "none", sent |-> FALSE]

Method(i) == intent[i].method
About(i) == intent[i].about
Safe(i) == Method(i) \in SafeMethods
Expires(i) == intent[i].expires
Phase(i) == journal.phase[i]
InJournal == {i \in Ids : Phase(i) # "absent"}
Lanes == OrderedMethods \X (Records \union Targets)

Phases == {"absent", "queued", "sending", "attention"}

Document ==
  [phase : [Ids -> Phases], waits : [Ids -> BOOLEAN],
   ref : [Records -> {"none", "local", "remote"}],
   home : [Records -> Systems], paused : BOOLEAN]

Stages == {"none", "running", "done", "failed", "broken"}

(* A local operation on an entry names it, one that talks to a service     *)
(* names the system too, and an acknowledgement has an outcome.            *)
Operation ==
  {o \in [kind : {"idle", "queue", "prepare", "ack", "expire"},
          id : 0 .. MaxItems, system : Systems,
          outcome : Outcomes \union {"none"}, sent : BOOLEAN, stage : Stages] :
     /\ o.kind \in {"prepare", "ack", "expire"} => o.id \in Ids
     /\ o.kind \in {"prepare", "ack"} => o.system \in Connectors
     /\ o.kind = "ack" => o.outcome \in Outcomes}

Call ==
  {Quiet} \union [id : Ids, system : Connectors,
                  stage : {"lookup", "written", "applied"}]

Report ==
  {NoResult} \union [id : Ids, system : Connectors, outcome : Outcomes, sent : BOOLEAN]

TypeOK ==
  /\ journal \in Document
  /\ prior \in Document
  /\ minted \in 0 .. MaxItems
  /\ intent \in [Ids -> Intents \union {NoIntent}]
  /\ binding \in [Ids -> Systems]
  /\ up \in BOOLEAN
  /\ remote \in Systems
  /\ op \in Operation
  /\ active \in 0 .. MaxItems
  /\ http \in Call
  /\ result \in Report
  /\ overdue \in SUBSET Ids
  /\ seen \in SUBSET (Ids \X Connectors)
  /\ effects \in [Ids -> Nat]
  /\ stray \in [Ids -> Nat]
  /\ reviews \in [Ids -> Nat]
  /\ settled \in SUBSET Ids
  /\ issuer \in [Records -> Systems]
  /\ asked \in [Lanes -> Values \union {None}]
  /\ stops \in 0 .. MaxStops
  /\ switches \in 0 .. MaxSwitches

Empty == [phase |-> [i \in Ids |-> "absent"],
          waits |-> [i \in Ids |-> FALSE],
          ref |-> [r \in Records |-> "none"],
          home |-> [r \in Records |-> Unbound],
          paused |-> FALSE]

Init ==
  /\ journal = Empty
  /\ prior = Empty
  /\ minted = 0
  /\ intent = [i \in Ids |-> NoIntent]
  /\ binding = [i \in Ids |-> Unbound]
  /\ up = TRUE
  /\ remote \in Systems
  /\ op = Idle
  /\ active = 0
  /\ http = Quiet
  /\ result = NoResult
  /\ overdue = {}
  /\ seen = {}
  /\ effects = [i \in Ids |-> 0]
  /\ stray = [i \in Ids |-> 0]
  /\ reviews = [i \in Ids |-> 0]
  /\ settled = {}
  /\ issuer = [r \in Records |-> Unbound]
  /\ asked = [l \in Lanes |-> None]
  /\ stops = 0
  /\ switches = 0
-----------------------------------------------------------------------------
(* A commit replaces the state file by an atomic rename of a synced        *)
(* temporary file; the directory itself is not synced, so on some file     *)
(* systems a power loss can still bring the replaced file back.            *)
Commit(document) ==
  /\ journal' = document
  /\ prior' = IF LazyRename THEN journal ELSE document

(* The rename reaches the medium on its own after a while.                 *)
RenameSettles ==
  /\ prior # journal
  /\ prior' = journal
  /\ UNCHANGED <<journal, minted, intent, binding, up, remote, op, network,
                 overdue, service, ghosts, stops, switches>>

SetPhase(j, i, p) == [j EXCEPT !.phase[i] = p]
Remove(j, i) == [j EXCEPT !.phase[i] = "absent", !.waits[i] = FALSE]

ResolveFieldsOnly(j, r) == [j EXCEPT !.ref[r] = "remote"]

(* replace_reference: the local reference of r disappears from the whole   *)
(* document, from the workflow's fields and from every pending entry.      *)
Resolve(j, r) ==
  [j EXCEPT !.ref[r] = "remote",
            !.waits = [k \in Ids |-> j.waits[k] /\ About(k) # r]]

-----------------------------------------------------------------------------
(* The write facade: DeferredIntegration._queue and storage's enqueue.     *)

(* An incident's updates keep the binding it began with; a help message    *)
(* and an incident begun without a connector take the current one.         *)
BindingFor(n) ==
  IF n.about # None /\ n.method # "create" /\ ~n.expires
       /\ journal.home[n.about] # Unbound
  THEN journal.home[n.about]
  ELSE remote

(* Operations that carry no idempotency key of their own.                  *)
Keyless == {"status", "assign", "comment"}

(* The entry that enqueue returns instead of appending a new one.          *)
Duplicates(n) ==
  {j \in InJournal : /\ n.method \in Keyless
                     /\ intent[j] = n
                     /\ binding[j] = BindingFor(n)}

(* The workflow creates an incident's record once and names it afterwards. *)
Askable(n) ==
  IF n.method = "create"
  THEN /\ journal.ref[n.target] = "none"
       /\ \A j \in Ids : intent[j].method = "create" => intent[j].target # n.target
  ELSE n.about # None => journal.ref[n.about] # "none"

Ask(n) ==
  asked' = [l \in Lanes |-> IF l = <<n.method, n.target>> THEN n.value ELSE asked[l]]

(* The document after n was appended as entry i; its arguments hold a      *)
(* local reference while the record it is about has not been acknowledged. *)
Appended(n, i) ==
  [phase |-> [journal.phase EXCEPT ![i] = "queued"],
   waits |-> [journal.waits EXCEPT ![i] =
                n.method # "create" /\ n.about # None
                  /\ journal.ref[n.about] = "local"],
   ref |-> IF n.method = "create"
           THEN [journal.ref EXCEPT ![n.target] = "local"] ELSE journal.ref,
   home |-> IF n.method = "create"
            THEN [journal.home EXCEPT ![n.target] = remote] ELSE journal.home,
   paused |-> journal.paused]

(* A local operation that has just been handed to the local-save worker.   *)
Working(kind, i, system) ==
  [kind |-> kind, id |-> i, system |-> system, outcome |-> "none",
   sent |-> FALSE, stage |-> "running"]

(* app.perform takes ownership of the terminal for an operator's action.   *)
BeginOperation ==
  /\ up /\ op = Idle /\ minted < MaxItems
  /\ op' = Working("queue", 0, Unbound)
  /\ UNCHANGED <<journal, prior, minted, intent, binding, up, remote, network,
                 overdue, service, ghosts, stops, switches>>

QueueUpdate ==
  /\ op.kind = "queue" /\ op.stage = "running"
  /\ minted < MaxItems /\ Cardinality(InJournal) < MaxOutbox
  /\ \E n \in Intents :
       /\ Askable(n) /\ Duplicates(n) = {}
       /\ minted' = minted + 1
       /\ intent' = [intent EXCEPT ![minted + 1] = n]
       /\ binding' = [binding EXCEPT ![minted + 1] = BindingFor(n)]
       /\ Commit(Appended(n, minted + 1))
       /\ Ask(n)
  /\ op' = [op EXCEPT !.stage = "done"]
  /\ UNCHANGED <<up, remote, network, overdue, service, reviews, settled,
                 issuer, stops, switches>>

(* The update is already in the journal: nothing is appended.              *)
QueueAgain ==
  /\ op.kind = "queue" /\ op.stage = "running"
  /\ \E n \in Intents : Askable(n) /\ Duplicates(n) # {} /\ Ask(n)
  /\ op' = [op EXCEPT !.stage = "done"]
  /\ UNCHANGED <<journal, prior, minted, intent, binding, up, remote, network,
                 overdue, service, reviews, settled, issuer, stops, switches>>

(* Whatever the local-save worker runs may fail before or at its commit:   *)
(* journal capacity, validation or the disk. Memory rolls back.            *)
OperationFails ==
  /\ op.stage = "running"
  /\ op' = [op EXCEPT !.stage = "failed"]
  /\ UNCHANGED <<journal, prior, minted, intent, binding, up, remote, network,
                 overdue, service, ghosts, stops, switches>>

(* poll_events hands the terminal back; these operations have no callback. *)
EndOperation ==
  /\ op.kind \in {"queue", "expire"} /\ op.stage \in {"done", "failed"}
  /\ op' = Idle
  /\ UNCHANGED <<journal, prior, minted, intent, binding, up, remote, network,
                 overdue, service, ghosts, stops, switches>>

-----------------------------------------------------------------------------
(* DeliveryCoordinator.poll, every 100 ms on the UI thread.                *)

SameLane(i, j) ==
  /\ Method(i) = Method(j) /\ Method(i) # "create"
  /\ intent[i].target = intent[j].target

BlocksUnlessHeld(j) == Phase(j) \in {"queued", "sending"}

(* An entry that keeps the later entries of its lane waiting.              *)
Blocks(j) ==
  /\ Phase(j) # "absent"
  /\ Phase(j) # "attention" \/ Method(j) \in OrderedMethods

RoutedAnywhere(i) == TRUE

Routed(i) == binding[i] \in {Unbound, remote}

NamedAlways(i) == TRUE

(* Its arguments hold no local reference any more.                         *)
Named(i) == ~journal.waits[i]

Ready(i) ==
  /\ Phase(i) = "queued"
  /\ \A j \in Ids : j < i /\ SameLane(j, i) => ~Blocks(j)
  /\ Routed(i) /\ Method(i) \in Offers[remote] /\ Named(i)

Overdue(i) == Phase(i) = "queued" /\ Expires(i) /\ i \in overdue

FirstOverdueOnline(i) == Overdue(i) /\ ~journal.paused /\ remote # Unbound

FirstOverdue(i) == Overdue(i) /\ \A j \in Ids : j < i => ~Overdue(j)

NoneOverdue == \A i \in Ids : ~Overdue(i)

CanPoll == up /\ op = Idle

(* A result waits: acknowledge it in a local transaction of its own.       *)
PollResult ==
  /\ CanPoll /\ active # 0 /\ result # NoResult
  /\ op' = [kind |-> "ack", id |-> result.id, system |-> result.system,
            outcome |-> result.outcome, sent |-> result.sent, stage |-> "running"]
  /\ result' = NoResult
  /\ UNCHANGED <<journal, prior, minted, intent, binding, up, remote, active,
                 http, overdue, service, ghosts, stops, switches>>

(* The first help message whose window has passed.                         *)
PollExpired ==
  /\ CanPoll /\ active = 0
  /\ \E i \in Ids :
       /\ FirstOverdue(i)
       /\ op' = Working("expire", i, Unbound)
  /\ UNCHANGED <<journal, prior, minted, intent, binding, up, remote, network,
                 overdue, service, ghosts, stops, switches>>

(* The first ready entry takes the network worker; its target is fixed.    *)
PollStart ==
  /\ CanPoll /\ active = 0
  /\ NoneOverdue
  /\ ~journal.paused /\ remote # Unbound
  /\ \E i \in Ids :
       /\ Ready(i) /\ \A j \in Ids : j < i => ~Ready(j)
       /\ active' = i
       /\ op' = Working("prepare", i, remote)
  /\ UNCHANGED <<journal, prior, minted, intent, binding, up, remote, http,
                 result, overdue, service, ghosts, stops, switches>>

Expired(i) == SetPhase(journal, i, "attention")

ExpireSaved ==
  /\ op.kind = "expire" /\ op.stage = "running"
  /\ Commit(Expired(op.id))
  /\ op' = [op EXCEPT !.stage = "done"]
  /\ UNCHANGED <<minted, intent, binding, up, remote, network, overdue,
                 service, ghosts, stops, switches>>

-----------------------------------------------------------------------------
(* _start and _dispatch: no request before `sending` is committed.         *)

PreparedUnsaved(i) == journal

Prepared(i) == SetPhase(journal, i, "sending")

PrepareSaved ==
  /\ op.kind = "prepare" /\ op.stage = "running"
  /\ Commit(Prepared(op.id))
  /\ op' = [op EXCEPT !.stage = "done"]
  /\ UNCHANGED <<minted, intent, binding, up, remote, network, overdue,
                 service, ghosts, stops, switches>>

(* Building the worker's connector raised something else than a failed     *)
(* save: nothing was committed and nothing was sent.                       *)
PrepareBreaks ==
  /\ op.kind = "prepare" /\ op.stage = "running"
  /\ op' = [op EXCEPT !.stage = "broken"]
  /\ UNCHANGED <<journal, prior, minted, intent, binding, up, remote, network,
                 overdue, service, ghosts, stops, switches>>

Dispatch ==
  /\ op.kind = "prepare" /\ op.stage = "done"
  /\ http' = [id |-> op.id, system |-> op.system, stage |-> "lookup"]
  /\ op' = Idle
  /\ UNCHANGED <<journal, prior, minted, intent, binding, up, remote, active,
                 result, overdue, service, ghosts, stops, switches>>

(* No network thread ran: the error takes the way of every outcome.        *)
DispatchFails ==
  /\ op.kind = "prepare" /\ op.stage \in {"done", "broken"}
  /\ \E outcome \in {"rejected", "refused"} :
       result' = [id |-> op.id, system |-> op.system,
                  outcome |-> outcome, sent |-> FALSE]
  /\ op' = Idle
  /\ UNCHANGED <<journal, prior, minted, intent, binding, up, remote, active,
                 http, overdue, service, ghosts, stops, switches>>

PrepareKeepsSlot ==
  /\ op.kind = "prepare" /\ op.stage = "failed"
  /\ op' = Idle
  /\ UNCHANGED <<journal, prior, minted, intent, binding, up, remote, network,
                 overdue, service, ghosts, stops, switches>>

PrepareGivesUp ==
  /\ op.kind = "prepare" /\ op.stage = "failed"
  /\ active' = 0
  /\ op' = Idle
  /\ UNCHANGED <<journal, prior, minted, intent, binding, up, remote, http,
                 result, overdue, service, ghosts, stops, switches>>
-----------------------------------------------------------------------------
(* The network thread, and the service as this code uses it.               *)

(* Lookups succeeded and the write request is handed to the transport.     *)
SendRequest ==
  /\ http.stage = "lookup"
  /\ http' = [http EXCEPT !.stage = "written"]
  /\ UNCHANGED <<journal, prior, minted, intent, binding, up, remote, op, active,
                 result, overdue, service, ghosts, stops, switches>>

(* The service carries out entry i at system c, unless it is retry-safe    *)
(* and the same idempotency key was carried out there before.              *)
Carry(i, c) ==
  /\ effects' = IF Safe(i) /\ <<i, c>> \in seen
                THEN effects ELSE [effects EXCEPT ![i] = @ + 1]
  /\ seen' = IF Safe(i) THEN seen \union {<<i, c>>} ELSE seen

Serve ==
  /\ http.stage = "written"
  /\ Carry(http.id, http.system)
  /\ http' = [http EXCEPT !.stage = "applied"]
  /\ UNCHANGED <<journal, prior, minted, intent, binding, up, remote, op, active,
                 result, overdue, stray, ghosts, stops, switches>>

(* Copies of a retry-safe request are one request to the service.          *)
Astray(i) == [stray EXCEPT ![i] = IF Safe(i) THEN 1 ELSE @ + 1]

(* A request the terminal gave up on reaches the service after all.        *)
StrayArrives ==
  /\ \E i \in Ids :
       /\ stray[i] > 0
       /\ \E c \in IF binding[i] = Unbound THEN Connectors ELSE {binding[i]} :
            Carry(i, c)
       /\ stray' = [stray EXCEPT ![i] = @ - 1]
  /\ UNCHANGED <<journal, prior, minted, intent, binding, up, remote, op,
                 network, overdue, ghosts, stops, switches>>

Answer(outcome, sent) ==
  /\ result' = [id |-> http.id, system |-> http.system,
                outcome |-> outcome, sent |-> sent]
  /\ http' = Quiet

(* A usable answer, or one the connector cannot use: no record identifier, *)
(* an unmapped 2xx, an oversized or malformed body.                        *)
Respond ==
  /\ http.stage = "applied"
  /\ \E outcome \in {"ok", "unusable"} : Answer(outcome, TRUE)
  /\ UNCHANGED <<journal, prior, minted, intent, binding, up, remote, op, active,
                 overdue, service, ghosts, stops, switches>>

(* A definite no: 3xx and 4xx, except the statuses below.                  *)
Reject ==
  /\ http.stage \in {"lookup", "written"}
  /\ Answer("rejected", http.stage = "written")
  /\ UNCHANGED <<journal, prior, minted, intent, binding, up, remote, op, active,
                 overdue, service, ghosts, stops, switches>>

(* Not now: no connection, request budget used up, 425 or 429.             *)
Refuse ==
  /\ http.stage \in {"lookup", "written"}
  /\ Answer("refused", http.stage = "written")
  /\ UNCHANGED <<journal, prior, minted, intent, binding, up, remote, op, active,
                 overdue, service, ghosts, stops, switches>>

(* 408, 5xx, a timeout or a lost answer: the service may have carried the  *)
(* update out, or may still do so.                                         *)
LoseAnswer ==
  /\ http.stage \in {"written", "applied"}
  /\ Answer("uncertain", TRUE)
  /\ stray' = IF http.stage = "written" THEN Astray(http.id) ELSE stray
  /\ UNCHANGED <<journal, prior, minted, intent, binding, up, remote, op, active,
                 overdue, seen, effects, ghosts, stops, switches>>

-----------------------------------------------------------------------------
(* _apply: the acknowledgement, retried locally until it is saved.         *)

Permanent(outcome) == outcome \in {"unusable", "rejected"}

Ambiguous(i, outcome, sent) ==
  /\ sent /\ ~Safe(i)
  /\ outcome \in {"uncertain", "unusable"}

AfterErrorRetries(i, outcome, sent) ==
  IF Permanent(outcome) THEN "attention" ELSE "queued"

AfterError(i, outcome, sent) ==
  IF Ambiguous(i, outcome, sent) \/ Permanent(outcome) THEN "attention" ELSE "queued"

DeliveredOrRejected(outcome) == outcome \in {"ok", "rejected"}

Delivered(outcome) == outcome = "ok"

(* The document after the outcome of entry i was applied. Every transient  *)
(* failure pauses the whole journal.                                       *)
Applied(i, outcome, sent) ==
  IF Delivered(outcome)
  THEN IF Method(i) = "create"
       THEN Resolve(Remove(journal, i), About(i))
       ELSE Remove(journal, i)
  ELSE [SetPhase(journal, i, AfterError(i, outcome, sent))
          EXCEPT !.paused = @ \/ ~Permanent(outcome)]

Issued(i, outcome, system) ==
  IF Delivered(outcome) /\ Method(i) = "create"
  THEN [issuer EXCEPT ![About(i)] = system] ELSE issuer

AckSaved ==
  /\ op.kind = "ack" /\ op.stage = "running"
  /\ Commit(Applied(op.id, op.outcome, op.sent))
  /\ issuer' = Issued(op.id, op.outcome, op.system)
  /\ op' = [op EXCEPT !.stage = "done"]
  /\ UNCHANGED <<minted, intent, binding, up, remote, network, overdue, service,
                 reviews, settled, asked, stops, switches>>

AckDone ==
  /\ op.kind = "ack" /\ op.stage = "done"
  /\ active' = 0
  /\ op' = Idle
  /\ UNCHANGED <<journal, prior, minted, intent, binding, up, remote, http,
                 result, overdue, service, ghosts, stops, switches>>

AckFailedForgets ==
  /\ op.kind = "ack" /\ op.stage = "failed"
  /\ active' = 0
  /\ op' = Idle
  /\ UNCHANGED <<journal, prior, minted, intent, binding, up, remote, http,
                 result, overdue, service, ghosts, stops, switches>>

(* The save failed: the result goes back and waits, nothing is resent.     *)
AckFailed ==
  /\ op.kind = "ack" /\ op.stage = "failed"
  /\ result' = [id |-> op.id, system |-> op.system,
                outcome |-> op.outcome, sent |-> op.sent]
  /\ op' = Idle
  /\ UNCHANGED <<journal, prior, minted, intent, binding, up, remote, active,
                 http, overdue, service, ghosts, stops, switches>>

-----------------------------------------------------------------------------
(* An administrator's review of held entries, on the UI thread, refused    *)
(* while a local operation runs. A failed save changes nothing.            *)

CanReview(i) == up /\ op = Idle /\ Phase(i) = "attention"

RetryReviewed(i) ==
  /\ CanReview(i) /\ ~(Expires(i) /\ i \in overdue)
  /\ SumFunction(reviews) < MaxReviews
  /\ Commit(SetPhase(journal, i, "queued"))
  /\ reviews' = [reviews EXCEPT ![i] = @ + 1]
  /\ UNCHANGED <<minted, intent, binding, up, remote, op, network, overdue,
                 service, settled, issuer, asked, stops, switches>>

(* archive_expired_notice and dismiss_reviewed_message: messages only.     *)
DismissReviewed(i) ==
  /\ CanReview(i) /\ Method(i) = "message"
  /\ Commit(Remove(journal, i))
  /\ settled' = settled \union {i}
  /\ UNCHANGED <<minted, intent, binding, up, remote, op, network, overdue,
                 service, reviews, issuer, asked, stops, switches>>

(* The event is already at the external asset.                             *)
ConfirmReviewedAsset(i) ==
  /\ CanReview(i) /\ Method(i) = "asset"
  /\ remote # Unbound /\ binding[i] = remote
  /\ Commit(Applied(i, "ok", FALSE))
  /\ settled' = settled \union {i}
  /\ UNCHANGED <<minted, intent, binding, up, remote, op, network, overdue,
                 service, reviews, issuer, asked, stops, switches>>

(* The record exists externally: its identifier resolves the dependents.   *)
LinkReviewedRecord(i) ==
  /\ CanReview(i) /\ Method(i) = "create"
  /\ remote # Unbound /\ binding[i] \in {Unbound, remote}
  /\ Commit(Applied(i, "ok", FALSE))
  /\ settled' = settled \union {i}
  /\ issuer' = Issued(i, "ok", remote)
  /\ UNCHANGED <<minted, intent, binding, up, remote, op, network, overdue,
                 service, reviews, asked, stops, switches>>

Review(i) ==
  \/ RetryReviewed(i) \/ DismissReviewed(i)
  \/ ConfirmReviewedAsset(i) \/ LinkReviewedRecord(i)

-----------------------------------------------------------------------------
(* Settings, the clock, and the process.                                   *)

SelectConnector ==
  /\ up /\ switches < MaxSwitches
  /\ remote' \in Systems \ {remote}
  /\ switches' = switches + 1
  /\ UNCHANGED <<journal, prior, minted, intent, binding, up, op, network,
                 overdue, service, ghosts, stops>>

(* delivery_pause_until, and every queued entry's next_at, have passed.    *)
PauseEnds ==
  /\ journal.paused
  /\ journal' = [journal EXCEPT !.paused = FALSE]
  /\ prior' = IF prior = journal THEN journal' ELSE prior
  /\ UNCHANGED <<minted, intent, binding, up, remote, op, network, overdue,
                 service, ghosts, stops, switches>>

WindowPasses ==
  /\ \E i \in Ids : Expires(i) /\ i \notin overdue /\ overdue' = overdue \union {i}
  /\ UNCHANGED <<journal, prior, minted, intent, binding, up, remote, op,
                 network, service, ghosts, stops, switches>>

(* Shutdown, crash or power loss, at any point. Threads end with the       *)
(* process; a request already written may still reach the service.         *)
Stop ==
  /\ up /\ stops < MaxStops
  /\ stops' = stops + 1
  /\ up' = FALSE
  /\ op' = Idle /\ active' = 0 /\ http' = Quiet /\ result' = NoResult
  /\ stray' = IF http.stage = "written" THEN Astray(http.id) ELSE stray
  /\ journal' \in {journal, prior}
  /\ prior' = journal'
  /\ UNCHANGED <<minted, intent, binding, remote, overdue, seen, effects, ghosts,
                 switches>>

RecoveredPhaseResends(i, p) == IF p = "sending" THEN "queued" ELSE p

RecoveredPhase(i, p) ==
  IF p = "sending" THEN IF Safe(i) THEN "queued" ELSE "attention" ELSE p

(* The next launch reads the file and recover() settles what was in        *)
(* flight; the launch fails, and is tried again, if that cannot be saved.  *)
Restart ==
  /\ ~up
  /\ up' = TRUE
  /\ Commit([journal EXCEPT
               !.phase = [i \in Ids |-> RecoveredPhase(i, journal.phase[i])]])
  /\ UNCHANGED <<minted, intent, binding, remote, op, network, overdue, service,
                 ghosts, stops, switches>>

-----------------------------------------------------------------------------
Workflow == BeginOperation \/ QueueUpdate \/ QueueAgain \/ EndOperation
Poll == PollResult \/ PollExpired \/ PollStart
Saves == ExpireSaved \/ PrepareSaved \/ AckSaved
Callbacks == Dispatch \/ DispatchFails \/ PrepareGivesUp \/ AckDone \/ AckFailed
Network == SendRequest \/ Serve \/ Respond \/ Reject \/ Refuse \/ LoseAnswer

Next ==
  \/ Workflow \/ OperationFails \/ Poll \/ Saves \/ PrepareBreaks \/ Callbacks
  \/ Network \/ StrayArrives
  \/ \E i \in Ids : Review(i)
  \/ SelectConnector \/ PauseEnds \/ WindowPasses \/ RenameSettles
  \/ Stop \/ Restart

Spec == Init /\ [][Next]_vars

(* What the loop and the threads guarantee: the worker thread and the      *)
(* network thread end (every request has a timeout), their callbacks run,  *)
(* waiting times end, a stopped terminal is started again. poll() runs in  *)
(* the very tick that clears app.busy, so that an operator who never rests *)
(* cannot keep it out.                                                     *)
LocalWork == Saves \/ QueueUpdate \/ QueueAgain \/ OperationFails \/ PrepareBreaks

LoopFairness ==
  /\ WF_vars(LocalWork) /\ WF_vars(EndOperation) /\ WF_vars(Callbacks)
  /\ WF_vars(Network) /\ WF_vars(PauseEnds) /\ WF_vars(Restart)
  /\ SF_vars(Poll)

(* What the terminal must provide: a save that is tried again and again    *)
(* works at last.                                                          *)
DiskFairness ==
  /\ SF_vars(ExpireSaved) /\ SF_vars(AckSaved)
  /\ \A i \in Ids : SF_vars(op.id = i /\ PrepareSaved)

(* What the site must provide: each step of the delivery of each entry, if *)
(* tried again and again, works at last.                                   *)
SiteWorks ==
  \A i \in Ids :
    /\ SF_vars(op.id = i /\ Dispatch)
    /\ SF_vars(http.id = i /\ SendRequest)
    /\ SF_vars(http.id = i /\ Serve)
    /\ SF_vars(http.id = i /\ Respond)

DiskSpec == Spec /\ LoopFairness /\ DiskFairness
-----------------------------------------------------------------------------
(* Properties.                                                             *)

(* At most once: the service carries an update out once, plus once for     *)
(* each retry an administrator authorised, whatever was lost, crashed or   *)
(* arrived late. A retry-safe update recorded without a connector is       *)
(* excepted: deduplication ends at the border of a system.                 *)
AtMostOnce == \A i \in Ids :
  ~Safe(i) \/ binding[i] # Unbound => effects[i] <= 1 + reviews[i]

(* No update an operator recorded disappears: it is in the journal, or the *)
(* service carried it out, or an administrator closed it.                  *)
NothingLost == \A i \in 1 .. minted :
  i \in InJournal \/ effects[i] > 0 \/ i \in settled

(* The order of a lane, an asset's, a record's status or its crew: once a  *)
(* later update was carried out, an earlier one is carried out only by a   *)
(* late request of an update that a person retried or closed. What is held *)
(* for a person, or may still arrive unasked, keeps the lane waiting. The  *)
(* exception is the one of AtMostOnce.                                     *)
LaneOrder == [][\A i, j \in Ids :
  /\ i < j /\ SameLane(i, j) /\ Method(i) \in OrderedMethods
  /\ ~Safe(i) \/ binding[i] # Unbound
  /\ effects[j] > 0 /\ effects'[i] > effects[i]
  => stray'[i] < stray[i] /\ (reviews[i] > 0 \/ i \in settled)]_vars

(* The same without that late request: "a delayed OFFLINE cannot follow a  *)
(* newer ONLINE" (docs/offline-delivery.md:158-159).                       *)
DelayedNeverFollows == [][\A i, j \in Ids :
  /\ i < j /\ SameLane(i, j) /\ Method(i) \in OrderedMethods
  /\ effects[j] > 0
  => effects'[i] = effects[i]]_vars

(* Creation first: nothing that names a record reaches the service before  *)
(* the record's external identifier is known.                              *)
CreationFirst == \A i \in Ids :
  Method(i) # "create" /\ About(i) # None /\ effects[i] + stray[i] > 0
  => journal.ref[About(i)] = "remote"

(* An entry that waits for a record identifier waits for a creation that   *)
(* is still in the journal, so resolving it can release the entry.         *)
NoDanglingReference == \A i \in InJournal :
  journal.waits[i] =>
    \E j \in InJournal : Method(j) = "create" /\ About(j) = About(i)

(* The single delivery slot never leaks: it is taken exactly while one     *)
(* local operation, the network thread or a waiting result works for it,   *)
(* and all of them mean the same entry.                                    *)
SlotOwned ==
  LET working == op.kind \in {"prepare", "ack"}
      calling == http.stage # "none"
      waiting == result.outcome # "none"
  IN  /\ active # 0 <=> working \/ calling \/ waiting
      /\ working => op.id = active /\ ~calling /\ ~waiting
      /\ calling => http.id = active /\ ~waiting
      /\ waiting => result.id = active

(* No request leaves the terminal unless the committed document already    *)
(* says that its entry is being sent, and only one entry ever says so.     *)
DurableBeforeWire ==
  /\ http.stage # "none" => Phase(http.id) = "sending"
  /\ \A i, j \in Ids : Phase(i) = "sending" /\ Phase(j) = "sending" => i = j

(* An update never reaches another system than the one it is bound to, and *)
(* an update of a record whose incident began on a system reaches the      *)
(* system that issued the record's identifier, whatever is selected now.   *)
BoundRouting ==
  http.stage # "none" =>
    LET i == http.id IN
    /\ binding[i] \in {Unbound, http.system}
    /\ Method(i) # "create" /\ About(i) # None /\ ~Expires(i)
         /\ journal.home[About(i)] # Unbound
       => issuer[About(i)] = http.system

(* The same for every record, also one whose incident began without a      *)
(* connector: "Switching to another connection cannot silently send old    *)
(* work there" (docs/offline-delivery.md:180-181).                         *)
RecordStaysWithItsSystem ==
  http.stage \in {"written", "applied"} /\ Method(http.id) \in RecordMethods \ {"create"}
  => issuer[About(http.id)] = http.system

(* The newest entry ever recorded in an ordered lane carries the content   *)
(* the terminal last asked for, so that the drained lane shows it.         *)
NewestEntryIsCurrent == \A l \in Lanes :
  LET lane == {i \in 1 .. minted : <<Method(i), intent[i].target>> = l} IN
  lane # {} =>
    \E i \in lane : (\A j \in lane : j <= i) /\ intent[i].value = asked[l]

(* A confirmed delivery is not forgotten by a failed local save: until the *)
(* process stops, its answer is kept until the journal has dropped it.     *)
Answered(i) ==
  \/ result.id = i /\ result.outcome = "ok"
  \/ op.kind = "ack" /\ op.id = i /\ op.outcome = "ok"

AnswerKept == [][\A i \in Ids :
  Answered(i) => Answered(i)' \/ Phase(i)' = "absent" \/ ~up']_vars

(* Expiry is processed even during an outage, a quota pause or without a   *)
(* connector: a help message whose window passed becomes reviewable unless *)
(* its delivery was already under way. Needs a disk, and no service.       *)
ExpiryIsProcessed == \A i \in Ids :
  Overdue(i) /\ active # i ~> Phase(i) = "attention"

(* A slot in use is freed again, whatever the service does.                *)
SlotFreed == active # 0 ~> active = 0

(* Updates that must be decided before i may be sent.                      *)
Before(i) ==
  {j \in 1 .. i - 1 :
     \/ SameLane(j, i) /\ Method(i) \in OrderedMethods
     \/ /\ Method(j) = "create" /\ Method(i) # "create"
        /\ About(i) # None /\ About(j) = About(i)}

(* If the site serves every entry in the end, every pending update is      *)
(* delivered or handed to a person, unless no connector is selected or an  *)
(* update before it waits for a person.                                    *)
Drains == SiteWorks => \A i \in Ids :
  Phase(i) \in {"queued", "sending"} ~>
    \/ Phase(i) \in {"absent", "attention"}
    \/ remote = Unbound
    \/ \E j \in Before(i) : Phase(j) = "attention"
-----------------------------------------------------------------------------
(* The journal implements its contract.                                    *)
Contract == INSTANCE OutboxContract WITH
  stage <- [i \in Ids |->
              IF i > minted THEN "none"
              ELSE IF Phase(i) = "absent" THEN "closed"
              ELSE IF Phase(i) = "attention" THEN "held" ELSE "pending"],
  after <- [i \in Ids |-> IF i > minted THEN {} ELSE Before(i)],
  once <- [i \in Ids |-> i <= minted /\ (~Safe(i) \/ binding[i] # Unbound)]

(* Every behaviour of the coordinator, its crashes and lost answers        *)
(* included, is one the contract allows.                                   *)
KeepsContract == Contract!Spec
=============================================================================
