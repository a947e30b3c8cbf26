----------------------------- MODULE Incidents ------------------------------
(* The incident workflow of one terminal (controller/workflow.py,          *)
(* groups.py, operator.py, dialogs.py, storage/incidents.py, topology.py). *)
(* The saved document holds the incident in view as its top-level fields   *)
(* (`view`), the other open incidents as parked copies of those fields     *)
(* (`parked`), and the delivery journal they share (`outbox`).  Every      *)
(* operation is one transaction: it commits the new view and all its       *)
(* updates together, or nothing when the journal has no room for them.     *)
(* A station is identified with its group.                                 *)
EXTENDS Naturals, FiniteSets, Sequences, SequencesExt, Functions

CONSTANTS
  None, Line,     \* no value; the choice "ENTIRE LINE"
  Local,          \* reporting_mode "local": nothing is journaled
  Ids,            \* identities of incidents
  Groups,         \* production groups
  LineStops,      \* the groups whose stop_scope is the whole line
  Assets, AssetOf,\* external assets; [Groups -> Assets \union {None}]
  LineAsset,      \* the aggregate asset of the line, or None
  Systems, Caps,  \* connectors; [Systems -> SUBSET capability names]
  People,         \* engineers
  MaxActive,      \* MAX_ACTIVE_INCIDENTS
  MaxOutbox,      \* MAX_ENTRIES of the delivery journal
  Links,          \* bound: the connectors and modes Settings moves between
  Reasoned,       \* bound: the groups whose failure reasons are followed
  Retrack         \* asset tracking may be switched while incidents are open

VARIABLES
  link,      \* the connector in use: a system, None or Local
  tracking,  \* asset_status_tracking
  view,      \* the top-level fields of the saved document
  parked,    \* parked_incidents: [identity -> the same fields]
  outbox,    \* delivery_outbox
  releasing, \* a release was confirmed and its transaction is under way
  life,      \* ghost: what became of each identity (uuid4 repeats none)
  told,      \* ghost: [Systems -> [Assets -> last state journaled for it]]
  ledger     \* ghost: [Ids -> what has been journaled about the incident]

vars == <<link, tracking, view, parked, outbox, releasing, life, told, ledger>>

Capabilities == {"asset", "message", "status", "comment", "assign", "team"}

ASSUME IncidentsAssumption ==
  /\ LineStops \subseteq Groups
  /\ AssetOf \in [Groups -> Assets \union {None}]
  /\ LineAsset \in Assets \union {None}
  /\ Caps \in [Systems -> SUBSET Capabilities]
  /\ None \notin Systems \union Assets \union Ids \union {Local}
  /\ None \notin {"local", "remote", "OFFLINE"}
  /\ IsFiniteSet(Assets)
  /\ Local \notin Systems
  /\ Groups # {} /\ Line \notin Groups /\ Reasoned \subseteq Groups
  /\ MaxActive \in Nat \ {0}
  /\ MaxOutbox \in Nat
  /\ Links \subseteq Systems \union {None, Local}
  /\ Retrack \in BOOLEAN

(* ---------------------------- the document ----------------------------- *)
(* INITIAL_STATE, the fields that are not SHARED_FIELDS.                   *)
Defaults ==
  [status |-> "RUNNING", id |-> None, scope |-> None, zones |-> {},
   failures |-> {}, rec |-> None, crew |-> {},
   operator |-> "none", escalated |-> FALSE, asset |-> None]

Active(v) == v.status # "RUNNING"

(* all_incidents: the view when it is one, and every parked copy.          *)
Opened == (IF Active(view) THEN {view} ELSE {}) \union Range(parked)

Resolving(v) == v.operator \in {"fixing", "asked"}

(* ------------------------------- topology ------------------------------ *)
Whole(zones) == Line \in zones \/ zones \intersect LineStops # {}

(* scope_for: what a selection stops and which external assets follow.     *)
(* The binding is frozen into it by begin_incident.                        *)
ScopeFor(zones) ==
  LET groups == IF Whole(zones) THEN Groups ELSE zones
      mapped == {AssetOf[g] : g \in groups}
      line   == IF Whole(zones) THEN {LineAsset} ELSE {}
  IN [stops |-> groups, assets |-> (mapped \union line) \ {None},
      on |-> IF link \in Systems THEN link ELSE None]

Overlaps(scope) == \E o \in Opened : o.scope.stops \intersect scope.stops # {}

(* ----------------------------- the journal ----------------------------- *)
(* _supports: an unconnected terminal still journals status and comments.  *)
\* Mutant: an unconnected terminal journals nothing.
SupportsConnected(what) == link \in Systems /\ what \in Caps[link]

Supports(what) == IF link \in Systems THEN what \in Caps[link]
                  ELSE what \in {"status", "comment"}

AssetTracking == tracking /\ Supports("asset")

(* Where an update of this incident goes: its frozen binding, or else the  *)
(* connector in use when the update is journaled.                          *)
Bound(v) == IF v.scope # None /\ v.scope.on # None THEN v.scope.on
            ELSE IF link \in Systems THEN link ELSE None

Entry(v, what, value, asset) ==
  [what |-> what, about |-> v.id, value |-> value, asset |-> asset,
   ref |-> IF what \in {"status", "comment", "assign"} THEN v.rec ELSE None,
   on |-> Bound(v)]

If(condition, entries) == IF condition THEN entries ELSE <<>>

(* sync_pending_downtime: the record of the incident is asked for once.    *)
Creation(v) == <<Entry(v, "create", None, None)>>

(* enqueue: a keyless update that is still in the journal is not repeated. *)
Keyless(e) == If(\A k \in 1..Len(outbox) : outbox[k] # e, <<e>>)

(* sync_response_status, sync_participant_assignment, post_record_comment. *)
Status(v, value) == If(Supports("status"), Keyless(Entry(v, "status", value, None)))
Assign(v, crew)  == If(Supports("assign"), Keyless(Entry(v, "assign", crew, None)))
Comment(v)       == If(Supports("comment"), <<Entry(v, "comment", None, None)>>)

(* queue_message and flush_messages; send_activity_chats.                  *)
Message(v) == <<Entry(v, "message", None, None)>>
Chats(v)   == If(Supports("message"), Message(v))

\* Mutant: the assets of the other incidents are forgotten.
AllAssets(v) == v.scope.assets

(* external_assets: the incident's own assets without those that a parked  *)
(* incident also stops.                                                    *)
ExternalAssets(v) ==
  v.scope.assets \ UNION {parked[i].scope.assets : i \in DOMAIN parked}

AssetEvents(v, value) ==
  LET Of(a) == Entry(v, "asset", value, a)
  IN SetToSeq({Of(a) : a \in ExternalAssets(v)})

(* sync_asset_status OFFLINE: nothing when the document already says so.   *)
GoesOffline(v, fresh) == AssetTracking /\ (fresh \/ v.asset # "OFFLINE")

Offline(v, fresh) == If(GoesOffline(v, fresh), AssetEvents(v, "OFFLINE"))

WithAsset(v, fresh) ==
  IF GoesOffline(v, fresh) THEN [v EXCEPT !.asset = "OFFLINE"] ELSE v

(* An operation of a terminal that reports locally journals nothing.       *)
Written(entries) == IF link = Local THEN <<>> ELSE entries

(* What a batch says of an asset, once at most.                            *)
Said(entries, s, a) ==
  {e \in Range(entries) : e.what = "asset" /\ e.on = s /\ e.asset = a}

Tell(t, entries) == [s \in Systems |-> [a \in Assets |->
  IF Said(entries, s, a) = {} THEN t[s][a]
  ELSE (CHOOSE e \in Said(entries, s, a) : TRUE).value]]

(* What the record's history looks like to the system that keeps it: a     *)
(* creation first and once, nothing after the update that closes it.       *)
Closing(e) == e.what = "status" /\ e.value = "DONE"

Recorded(entries, i) ==
  {k \in 1..Len(entries) : /\ entries[k].about = i
                           /\ entries[k].what \notin {"asset", "message"}}

InOrder(l, entries, i) == \A k \in Recorded(entries, i) :
  /\ l \in {"none", "opened"}
  /\ entries[k].what = "create"
       <=> l = "none" /\ \A j \in Recorded(entries, i) : k <= j
  /\ Closing(entries[k]) => \A j \in Recorded(entries, i) : j <= k

After(l, entries, i) ==
  IF Recorded(entries, i) = {} THEN l
  ELSE IF ~InOrder(l, entries, i) THEN "broken"
  ELSE IF \E k \in Recorded(entries, i) : Closing(entries[k]) THEN "closed"
  ELSE "opened"

Journals(entries) ==
  /\ Len(outbox) + Len(Written(entries)) <= MaxOutbox
  /\ outbox' = outbox \o Written(entries)
  /\ told' = Tell(told, Written(entries))
  /\ ledger' = [i \in Ids |-> After(ledger[i], Written(entries), i)]

Idle == ~releasing

(* An operation of app.perform that ends in one commit.                    *)
Commit(newView, entries) ==
  /\ Idle
  /\ view' = newView
  /\ Journals(entries)
  /\ UNCHANGED <<link, tracking, parked, releasing>>

Quiet == UNCHANGED <<outbox, told, ledger>>

(* ------------------------- choosing stations --------------------------- *)
CanChoose == Idle /\ ~Active(view)

Chosen(v) == CanChoose /\ view' = v /\ Quiet
             /\ UNCHANGED <<link, tracking, parked, releasing, life>>

Stopped(g) == \E o \in Opened : g \in o.scope.stops

(* select_issue_zone: a running group joins the selection.                 *)
SelectZone(g) ==
  /\ ~Stopped(g)
  /\ Chosen([view EXCEPT !.zones = (@ \ {Line}) \union {g}])

(* select_issue_zone("all").                                               *)
SelectLine ==
  Chosen([view EXCEPT !.zones = IF @ = {Line} THEN {} ELSE {Line},
                      !.failures = {}])

(* save_failure_selection of the open picker.                              *)
SaveFailures(g, some) ==
  /\ g \in view.zones \intersect Reasoned
  /\ Chosen([view EXCEPT !.failures = IF some THEN @ \union {g} ELSE @ \ {g}])

(* remove_failure_station.                                                 *)
RemoveStation(g) ==
  /\ g \in view.zones
  /\ Chosen([view EXCEPT !.zones = @ \ {g}, !.failures = @ \ {g}])

(* ---------------------------- beginning -------------------------------- *)
\* Mutant: only the group in view is checked.
MayBeginOverlapping(i) ==
  /\ ~Active(view) /\ view.zones # {}
  /\ life[i] = "free" /\ Cardinality(Opened) < MaxActive
  /\ life' = [life EXCEPT ![i] = "given"]

(* begin_incident.                                                         *)
MayBegin(i) ==
  /\ ~Active(view)
  /\ view.zones # {}
  /\ life[i] = "free"
  /\ Cardinality(Opened) < MaxActive
  /\ ~Overlaps(ScopeFor(view.zones))
  /\ life' = [life EXCEPT ![i] = "given"]

Begun(i) == [view EXCEPT !.id = i, !.scope = ScopeFor(view.zones),
                         !.rec = "local"]

(* report_downtime, directly or from the failure picker of one station,    *)
(* whose choices are then part of the same transaction.                    *)
Report(i, selfFix, failures) ==
  /\ MayBegin(i)
  /\ \/ failures = view.failures
     \/ \E g \in view.zones \intersect Reasoned :
          failures \in {view.failures \union {g}, view.failures \ {g}}
  /\ LET v == [Begun(i) EXCEPT
                 !.failures = failures,
                 !.status = IF selfFix THEN "REPAIRING" ELSE "DOWN",
                 !.operator = IF selfFix THEN "fixing" ELSE "none",
                 !.escalated = FALSE]
     IN Commit(WithAsset(v, TRUE),
               Creation(v) \o Offline(v, TRUE)
               \o If(selfFix, Status(v, "IN_PROGRESS"))
               \o Chats(v))

(* sync_pending_planned_work: the record and what follows it.              *)
Planned(v) == Creation(v) \o Status(v, "IN_PROGRESS") \o Offline(v, TRUE)
              \o Comment(v) \o Chats(v)

(* load_engineers, confirm_engineers: without a directory, or when the list *)
(* of people is not there and is skipped, nobody is named.                 *)
Crews == IF Supports("team") THEN SUBSET People ELSE {{}}

(* start_planned_work.                                                     *)
StartPlannedWork(i, crew) ==
  /\ crew \in Crews
  /\ MayBegin(i)
  /\ LET v == [Begun(i) EXCEPT !.status = "ENGINEERING", !.crew = crew]
     IN Commit(WithAsset(v, TRUE), Planned(v))

(* ------------------------------ repairing ------------------------------ *)
(* start_repair: the engineers take the incident over.                     *)
StartRepair(crew) ==
  /\ view.rec # None
  /\ view.status = "DOWN" \/ Resolving(view)
  /\ Supports("team") \/ Resolving(view)
  /\ crew \in Crews
  /\ LET v == [view EXCEPT !.status = "REPAIRING", !.escalated = FALSE,
                           !.crew = crew,
                           !.operator = IF Resolving(view) THEN "over" ELSE @]
     IN Commit(WithAsset(v, FALSE),
               Assign(v, crew) \o Status(v, "IN_PROGRESS")
               \o Offline(v, FALSE) \o Comment(v) \o Chats(v))
  /\ UNCHANGED life

(* change_status of a terminal without a team directory.                   *)
ChangeStatus ==
  /\ view.status = "DOWN" /\ ~Resolving(view) /\ ~Supports("team")
  /\ view.rec # None
  /\ LET v == [view EXCEPT !.status = "REPAIRING", !.escalated = FALSE]
     IN Commit(v, Status(v, "IN_PROGRESS"))
  /\ UNCHANGED life

(* update_active_crew from the crew button.                                *)
UpdateActiveCrew(crew) ==
  /\ view.status \in {"REPAIRING", "ENGINEERING"}
  /\ Supports("team") /\ ~Resolving(view)
  /\ view.rec # None
  /\ crew # view.crew
  /\ LET v == [view EXCEPT !.crew = crew]
     IN Commit(v, Assign(v, crew) \o Comment(v) \o Chats(v))
  /\ UNCHANGED life

(* request_engineering_handover, once per self-fix.                        *)
RequestHandover ==
  /\ view.operator = "fixing"
  /\ LET v == [view EXCEPT !.operator = "asked", !.status = "DOWN",
                           !.escalated = FALSE]
     IN Commit(v, Assign(v, {}) \o Comment(v) \o Chats(v))
  /\ UNCHANGED life

(* escalation_tick: every overdue incident, in view or parked.             *)
Overdue(v) == v.status = "DOWN" /\ ~v.escalated

EscalateView ==
  /\ Overdue(view)
  /\ Commit([view EXCEPT !.escalated = TRUE], Chats(view))
  /\ UNCHANGED life

(* escalate_group: the chat of a parked incident asks for no capability.   *)
EscalateParked(i) ==
  /\ Idle
  /\ i \in DOMAIN parked /\ Overdue(parked[i])
  /\ parked' = [parked EXCEPT ![i].escalated = TRUE]
  /\ Journals(Message(parked[i]))
  /\ UNCHANGED <<link, tracking, view, releasing, life>>

(* ------------------------------ releasing ------------------------------ *)
(* The confirmed touch: capture_release_confirmation commits its time on   *)
(* its own before the transaction of the release begins.                   *)
ConfirmRelease ==
  /\ Idle
  /\ view.status \in {"REPAIRING", "ENGINEERING"} \/ Resolving(view)
  /\ releasing' = TRUE
  /\ Quiet
  /\ UNCHANGED <<link, tracking, view, parked, life>>

(* What the document keeps of a released incident, and what follows it.    *)
ComesBack == AssetTracking /\ view.asset # "ONLINE"

Forgotten == [Defaults EXCEPT !.asset = IF ComesBack THEN "ONLINE" ELSE view.asset]

ReleaseUpdates == If(ComesBack, AssetEvents(view, "ONLINE"))
                  \o Comment(view) \o Status(view, "DONE") \o Chats(view)

(* finish_work: the release, its history record and every follow-up in one *)
(* commit; then the document forgets the incident.                         *)
FinishWork ==
  /\ releasing
  /\ view.rec # None
  /\ Journals(ReleaseUpdates)
  /\ view' = Forgotten
  /\ releasing' = FALSE
  /\ life' = [life EXCEPT ![view.id] = "released"]
  /\ UNCHANGED <<link, tracking, parked>>

(* The journal is full or the save fails: the transaction is undone.       *)
ReleaseFails ==
  /\ releasing
  /\ releasing' = FALSE
  /\ Quiet
  /\ UNCHANGED <<link, tracking, view, parked, life>>

(* ------------------------------ focusing ------------------------------- *)
(* switch: park the view when it is an incident, then load the target's    *)
(* copy, or the defaults.                                                  *)
Put(p, v)  == [i \in DOMAIN p \union {v.id} |-> IF i = v.id THEN v ELSE p[i]]
Take(p, i) == [j \in DOMAIN p \ {i} |-> p[j]]

\* Mutant: an incident is parked only when another one takes its place.
SwitchedLosing(target) ==
  IF target = None THEN parked
  ELSE IF Active(view) THEN Put(Take(parked, target), view) ELSE Take(parked, target)

Switched(target) ==
  LET rest == IF target = None THEN parked ELSE Take(parked, target)
  IN IF Active(view) THEN Put(rest, view) ELSE rest

Focus(i) ==
  /\ Idle
  /\ i \in DOMAIN parked
  /\ parked' = Switched(i)
  /\ view' = parked[i]
  /\ Quiet /\ UNCHANGED <<link, tracking, releasing, life>>

(* A running group is touched while an incident is in view, or picked in   *)
(* the group panel.                                                        *)
FocusNew(g) ==
  /\ Idle
  /\ ~Stopped(g)
  /\ parked' = Switched(None)
  /\ view' = [Defaults EXCEPT !.zones = {g}]
  /\ Quiet /\ UNCHANGED <<link, tracking, releasing, life>>

(* ------------------------------ delivery ------------------------------- *)
(* The creation is acknowledged: its local reference is replaced wherever  *)
(* the document holds it (replace_reference).                              *)
Remote(v, i) == IF v.id = i /\ v.rec = "local" THEN [v EXCEPT !.rec = "remote"]
                ELSE v

\* Mutant: the updates already in the journal keep the local name.
ResolvedNot(e, i) == e

Resolved(e, i) == IF e.about = i /\ e.ref = "local"
                  THEN [e EXCEPT !.ref = "remote"] ELSE e

(* The oldest entry for the connector in use is delivered.                 *)
Deliver ==
  /\ link \in Systems
  /\ \E k \in 1..Len(outbox) :
       LET e == outbox[k] IN
       /\ e.on \in {None, link} /\ e.ref # "local"
       /\ \A j \in 1..(k - 1) : outbox[j].on \notin {None, link}
       /\ IF e.what = "create"
          THEN /\ outbox' = [j \in 1..(Len(outbox) - 1) |->
                               Resolved(RemoveAt(outbox, k)[j], e.about)]
               /\ view' = Remote(view, e.about)
               /\ parked' = [i \in DOMAIN parked |-> Remote(parked[i], e.about)]
          ELSE /\ outbox' = RemoveAt(outbox, k)
               /\ UNCHANGED <<view, parked>>
  /\ UNCHANGED <<link, tracking, releasing, life, told, ledger>>

(* ------------------------------- settings ------------------------------ *)
(* Settings.save: refused while an operation runs; the connector stays     *)
(* while incidents are open, the reporting mode also while updates wait.   *)
SaveSettings(l, t) ==
  /\ Idle
  /\ <<l, t>> # <<link, tracking>>
  /\ l # link => Opened = {}
  /\ (l = Local) # (link = Local) => Opened = {} /\ outbox = <<>>
  /\ t # tracking => Retrack \/ Opened = {}
  /\ link' = l /\ tracking' = t
  /\ Quiet /\ UNCHANGED <<view, parked, releasing, life>>

(* The wizard selects the connector it creates without asking; the next    *)
(* save finds the selection unchanged, and so does a restart.              *)
CreateConnector(l) ==
  /\ Idle
  /\ l \in Systems /\ link # Local
  /\ l # link
  /\ link' = l
  /\ Quiet /\ UNCHANGED <<tracking, view, parked, releasing, life>>

(* validate_state: an operator's own response belongs to an unplanned      *)
(* incident that is still open.                                            *)
ValidResponse(v) == v.operator # "none" => v.status \in {"DOWN", "REPAIRING"}

(* validate_incidents, asked when a document is loaded and before every    *)
(* save.                                                                   *)
Reported(v) == IF Line \in v.zones THEN Groups ELSE v.zones

ValidDocument ==
  /\ Cardinality(DOMAIN parked) + Cardinality({v \in {view} : Active(v)}) <= MaxActive
  /\ \A i \in DOMAIN parked : parked[i].id = i /\ Active(parked[i])
  /\ view.id \notin DOMAIN parked
  /\ \A v, w \in Opened :
       v # w => v.id # w.id /\ v.scope.stops \intersect w.scope.stops = {}
  /\ \A v \in Opened : v.scope.stops # {} /\ Reported(v) \subseteq v.scope.stops
  /\ \A v \in {view} \union Range(parked) : ValidResponse(v)

(* The program stops at any point and starts again from the saved          *)
(* document; StateStore fills in an asset state that was never known.      *)
Restart ==
  /\ ValidDocument
  /\ releasing' = FALSE
  /\ view' = [view EXCEPT !.asset = IF @ # None THEN @
                                    ELSE IF Active(view) THEN "OFFLINE" ELSE "ONLINE"]
  /\ Quiet /\ UNCHANGED <<link, tracking, parked, life>>

(* --------------------------- specification ----------------------------- *)
Init ==
  /\ link \in Links
  /\ tracking \in BOOLEAN
  /\ view = [Defaults EXCEPT !.asset = "ONLINE"]
  /\ parked = <<>> /\ outbox = <<>>
  /\ releasing = FALSE /\ life = [i \in Ids |-> "free"]
  /\ told = [s \in Systems |-> [a \in Assets |-> "ONLINE"]]
  /\ ledger = [i \in Ids |-> "none"]

Choose == \/ SelectLine
          \/ \E g \in Groups : \/ SelectZone(g) \/ RemoveStation(g)
                               \/ \E some \in BOOLEAN : SaveFailures(g, some)

BeginWork == \E i \in Ids :
  \/ \E selfFix \in BOOLEAN, f \in SUBSET Reasoned : Report(i, selfFix, f)
  \/ \E crew \in SUBSET People : StartPlannedWork(i, crew)

Continue == \/ \E crew \in SUBSET People : StartRepair(crew) \/ UpdateActiveCrew(crew)
            \/ ChangeStatus \/ RequestHandover \/ EscalateView
            \/ \E i \in Ids : EscalateParked(i)

Finish == ConfirmRelease \/ FinishWork \/ ReleaseFails

Look == (\E i \in Ids : Focus(i)) \/ (\E g \in Groups : FocusNew(g))

Configure == \E l \in Links, t \in BOOLEAN : SaveSettings(l, t)

Next == Choose \/ BeginWork \/ Continue \/ Finish \/ Look \/ Deliver
        \/ Configure \/ Restart

Spec == Init /\ [][Next]_vars

(* The terminal whose connectors are made with the wizard.                 *)
WizardSpec ==
  Init /\ [][Next \/ \E l \in Systems : CreateConnector(l)]_vars

(* ----------------------------- properties ------------------------------ *)
(* Whatever has been committed is accepted when the program starts again:  *)
(* no two open incidents stop the same group, each has one identity and    *)
(* one place, none names a group it does not stop, and an operator's       *)
(* response never outlives its incident (validate_incidents and            *)
(* validate_state, which otherwise refuse every save and then the start).  *)
Loadable == ValidDocument

(* What the journal has said last about an asset is what the floor says:   *)
(* Offline from the first incident that stops one of its groups until the  *)
(* last of them is released (sync_asset_status, external_assets).          *)
Holders(s, a) == {o \in Opened : o.scope.on = s /\ a \in o.scope.assets}

AssetFollows ==
  \A s \in Systems, a \in Assets :
    /\ told[s][a] = "OFFLINE" => Holders(s, a) # {}
    /\ tracking /\ "asset" \in Caps[s] /\ Holders(s, a) # {} => told[s][a] = "OFFLINE"

(* The system of record sees each incident's work order created once,      *)
(* written to while it is open, and closed by the release and not before.  *)
LedgerKept ==
  /\ \A i \in Ids : ledger[i] # "broken"
  /\ \A v \in Opened : v.scope.on # None => ledger[v.id] = "opened"
  /\ \A i \in Ids : life[i] # "free" /\ (\A v \in Opened : v.id # i)
                        /\ ledger[i] # "none" /\ (\A s \in Systems : "status" \in Caps[s])
                      => ledger[i] = "closed"

(* Once a creation has been acknowledged, nothing in the document and no   *)
(* update in the journal still refers to the record by its local name.     *)
Waiting(i) == \E k \in 1..Len(outbox) :
                outbox[k].about = i /\ outbox[k].what = "create"

ReferencesFollow ==
  /\ \A v \in Opened : v.rec = "local" /\ v.scope.on # None => Waiting(v.id)
  /\ \A k \in 1..Len(outbox) :
       outbox[k].ref = "local" /\ outbox[k].on # None =>
         \E j \in 1..(k - 1) : /\ outbox[j].about = outbox[k].about
                                /\ outbox[j].what = "create"

(* The implementation of the book: who is open and what each one stops is  *)
(* the same whichever incident is in view, and none goes without its       *)
(* release.                                                                *)
Copy(i) == IF Active(view) /\ view.id = i THEN view
           ELSE IF i \in DOMAIN parked THEN parked[i] ELSE Defaults

Phase(i) == IF Active(Copy(i)) THEN Copy(i).status
            ELSE CASE life[i] = "free" -> "none"
                   [] life[i] = "released" -> "RELEASED"
                   [] life[i] = "given" -> "lost"

Book == INSTANCE IncidentBook WITH
          phase   <- [i \in Ids |-> Phase(i)],
          stopped <- [i \in Ids |-> IF Active(Copy(i)) THEN Copy(i).scope.stops
                                     ELSE {}]

KeepsBook == Book!Spec
=============================================================================
