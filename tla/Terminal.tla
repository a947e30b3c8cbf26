------------------------------ MODULE Terminal ------------------------------
(***************************************************************************)
(* One terminal: the operations a worker thread carries out on the line's  *)
(* document (app.py, storage/state.py), the Settings panel that writes the *)
(* configuration on the screen's own thread (ui/settings.py,               *)
(* core/config.py), and the administrator's password in front of it        *)
(* (controller/dialogs.py, core/auth_throttle.py, core/settings_auth.py).  *)
(* Four files survive a stop: the document, the configuration, the         *)
(* password's verifier and the throttle's record.                          *)
(*                                                                         *)
(* Incidents says what an operation does to the incidents of several       *)
(* groups and Delivery what becomes of a queued update; here an operation  *)
(* is a local move and two updates that belong to it, and the line has at  *)
(* most one incident.                                                      *)
(***************************************************************************)
EXTENDS Integers, FiniteSets

CONSTANTS
  Stations,
  Line,       \* "ENTIRE LINE" among the selected stations
  None,       \* no incident
  Verifiers,  \* password verifiers settings_auth.json may hold
  Initial,    \* the one the build was given
  MaxOps,     \* bound: operations
  MaxGuesses, \* bound: passwords entered
  MaxFaults   \* bound: failed writes, stops, changes from outside

ASSUME TerminalAssumption ==
  /\ Stations # {} /\ IsFiniteSet(Stations) /\ Line \notin Stations
  /\ Initial \in Verifiers
  /\ {MaxOps, MaxGuesses, MaxFaults} \subseteq Nat

VARIABLES
  saved,     \* response_state.json, which _committed repeats
  zones,     \* the stations of config.json
  verifier,  \* settings_auth.json, or the build's
  record,    \* auth_throttle.json
  damaged,   \* files that cannot be read
  refused,   \* the recovery screen is shown instead of the terminal
  up,        \* the process runs
  live,      \* StateStore.data
  config,    \* app.config's stations
  busy,      \* app.busy
  op,        \* the operation on the worker thread
  result,    \* the events queue
  panel,     \* the Settings panel
  modal,     \* the password dialog
  throttle,  \* the throttle in memory
  counts,    \* what the bounds bound
  wrong,     \* ghost: recorded wrong guesses since the last right one
  owed       \* ghost: a recorded wrong guess is still to be waited for

files == <<saved, zones, verifier, record, damaged, refused>>
work == <<live, busy, op, result>>
access == <<modal, throttle, wrong, owed>>
vars == <<saved, zones, verifier, record, damaged, refused, up, live, config, busy, op, result,
          panel, modal, throttle, counts, wrong, owed>>

-----------------------------------------------------------------------------
(* What the files hold                                                     *)

(* An operation's own change and the updates queued with it.               *)
Parts == {"move", "first", "second"}
Ops == 1 .. MaxOps

Scopes == [line : BOOLEAN, stations : SUBSET Stations]

(* staged: a record waits for the history archive.                         *)
Documents == [done : [Parts -> SUBSET Ops], down : Scopes \union {None},
              picked : SUBSET (Stations \union {Line}), staged : BOOLEAN]

Blank == [done |-> [p \in Parts |-> {}], down |-> None, picked |-> {},
          staged |-> FALSE]

(* Files whose damage the program meets when it reads them; the throttle's *)
(* own record is apart.                                                    *)
Files == {"document", "configuration", "password"}

(* The pauses after failed attempts are 0, 0, 0, 2, 5, 30 and 60 seconds:  *)
(* from the third on there is one.                                         *)
Paused == 3
Attempts == [failed : 0 .. Paused, waiting : BOOLEAN]
NoAttempts == [failed |-> 0, waiting |-> FALSE]
Damaged == [failed |-> -1, waiting |-> FALSE]

NoOp == [kind |-> "none", n |-> 0, at |-> "none", failed |-> FALSE, pick |-> {}]
Kinds == {"pick", "report", "release", "escalate", "archive"}
NoModal == [stage |-> "none", purpose |-> "none", verified |-> None, fresh |-> FALSE]

Operations == [kind : Kinds, n : Ops, pick : SUBSET (Stations \union {Line}),
               at : {"move", "first", "second", "end"}, failed : BOOLEAN]
Modals == [stage : {"password", "new", "writing"}, purpose : {"settings", "change"},
           verified : Verifiers \union {None}, fresh : BOOLEAN]
Counts == [ops : 0 .. MaxOps, guesses : 0 .. MaxGuesses, faults : 0 .. MaxFaults]

TypeOK ==
  /\ saved \in Documents /\ live \in Documents
  /\ zones \in (SUBSET Stations) \ {{}} /\ config \in (SUBSET Stations) \ {{}}
  /\ verifier \in Verifiers /\ record \in Attempts \union {Damaged}
  /\ damaged \subseteq Files
  /\ refused \in BOOLEAN /\ up \in BOOLEAN /\ busy \in BOOLEAN /\ owed \in BOOLEAN
  /\ op \in Operations \union {NoOp}
  /\ result \in {"none", "ok", "error"}
  /\ panel \in {"closed", "open", "hidden", "written"}
  /\ modal \in Modals \union {NoModal}
  /\ throttle \in Attempts /\ wrong \in 0 .. Paused
  /\ counts \in Counts

Count(what) == counts' = [counts EXCEPT ![what] = @ + 1]
Faults == counts.faults < MaxFaults

-----------------------------------------------------------------------------
(* Operations on the worker thread                                         *)

(* The screen's thread is between two events: it neither saves Settings    *)
(* nor replaces a password.                                                *)
Listens == panel # "written" /\ modal.stage # "writing"

(* Touches reach the line's controls: neither an operation nor Settings    *)
(* nor a dialog holds them.                                                *)
Touches == up /\ ~busy /\ panel = "closed" /\ modal = NoModal

(* What a touch makes of the selection: the whole line or nothing, one     *)
(* station more, one less. Stations already selected stay.                 *)
Selections(picked) ==
  {{Line}, {}} \union {(picked \ {Line}) \union {s} : s \in config}
    \union {picked \ {s} : s \in picked}

Wanted(kind, pick) ==
  IF kind = "pick"
    THEN Touches /\ live.down = None /\ pick \in Selections(live.picked)
    ELSE /\ pick = {}
         /\ CASE kind = "report" -> Touches /\ live.down = None /\ live.picked # {}
              [] kind = "release" -> Touches /\ live.down # None
              [] kind = "escalate" -> live.down # None
              [] OTHER -> live.staged

(* perform: one operation at a time, inside a transaction. The last two    *)
(* kinds are the terminal's own and wait for no touch.                     *)
Perform(kind, pick) ==
  /\ up /\ ~busy /\ Listens /\ counts.ops < MaxOps
  /\ Wanted(kind, pick)
  /\ busy' = TRUE
  /\ op' = [kind |-> kind, n |-> counts.ops + 1, at |-> "move", failed |-> FALSE,
            pick |-> pick]
  /\ Count("ops")
  /\ UNCHANGED <<files, up, live, config, result, panel, access>>

(* The scope an incident of the selected stations gets.                    *)
ScopeOf(picked) ==
  [line |-> Line \in picked, stations |-> IF Line \in picked THEN config ELSE picked]

CanBeginAny(picked) == picked # {}

(* A selection of stations that are no longer configured is refused.       *)
CanBegin(picked) == picked \subseteq config \union {Line}

Moved ==
  CASE op.kind = "pick" -> [live EXCEPT !.picked = op.pick]
    [] op.kind = "report" -> [live EXCEPT !.down = ScopeOf(live.picked)]
    [] op.kind = "release" -> [live EXCEPT !.down = None, !.picked = {}]
    [] op.kind = "escalate" -> live
    [] op.kind = "archive" -> [live EXCEPT !.staged = FALSE]

Queues(kind) == kind \in {"report", "release", "escalate"}

(* The archive's acknowledgement opens a transaction inside the            *)
(* operation's own; leaving it saves nothing, as the outer one is open.    *)
OpMoves ==
  /\ op.at = "move"
  /\ op.kind = "report" => CanBegin(live.picked)
  /\ live' = IF Queues(op.kind) THEN [Moved EXCEPT !.done["move"] = @ \union {op.n}]
             ELSE Moved
  /\ op' = [op EXCEPT !.at = IF Queues(op.kind) THEN "first" ELSE "end"]
  /\ UNCHANGED <<files, up, config, busy, result, panel, access, counts>>

After == [first |-> "second", second |-> "end"]

OpQueues ==
  /\ op.at \in DOMAIN After
  /\ live' = [live EXCEPT !.done[op.at] = @ \union {op.n}]
  /\ op' = [op EXCEPT !.at = After[op.at]]
  /\ UNCHANGED <<files, up, config, busy, result, panel, access, counts>>

(* The journal is full or the update cannot be written down. The caller    *)
(* takes the update for best effort and carries on, but fail_transaction   *)
(* has marked the transaction.                                             *)
OpSwallows ==
  /\ op.at \in DOMAIN After /\ Faults
  /\ op' = [op EXCEPT !.at = After[op.at], !.failed = TRUE]
  /\ Count("faults")
  /\ UNCHANGED <<files, up, live, config, busy, result, panel, access>>

(* StateStore.rollback, at every level of the transaction.                 *)
RolledBack == saved

Undo ==
  /\ live' = RolledBack /\ op' = NoOp /\ result' = "error"
  /\ UNCHANGED <<files, up, config, busy, panel, access>>

(* An exception that reaches the operation's worker: a refused update, an  *)
(* invalid document, a selection that no longer exists.                    *)
OpRaises ==
  \/ op.at \in {"move", "first", "second"} /\ Faults /\ Count("faults") /\ Undo
  \/ op.at = "move" /\ op.kind = "report" /\ ~CanBegin(live.picked)
       /\ UNCHANGED counts /\ Undo

CommittableAnyway == TRUE

(* transaction: a failure recorded on the way surfaces at the end.         *)
Committable == ~op.failed

OpRefused == op.at = "end" /\ ~Committable /\ UNCHANGED counts /\ Undo

(* StateStore.save stages a record of every incident that began or ended.  *)
Staged(doc) == [doc EXCEPT !.staged = @ \/ doc.down # saved.down]

OpCommits ==
  /\ op.at = "end" /\ Committable
  /\ saved' = Staged(live) /\ live' = Staged(live)
  /\ damaged' = damaged \ {"document"}
  /\ op' = NoOp /\ result' = "ok"
  /\ UNCHANGED <<zones, verifier, record, refused, up, config, busy, panel, access, counts>>

OpSaveFails == op.at = "end" /\ Committable /\ Faults /\ Count("faults") /\ Undo

(* poll_events: the screen's thread takes the result and is free again.    *)
Deliver ==
  /\ up /\ result # "none" /\ Listens
  /\ result' = "none" /\ busy' = FALSE
  /\ UNCHANGED <<files, up, live, config, op, panel, access, counts>>

-----------------------------------------------------------------------------
(* The Settings panel                                                      *)

(* The line's stations stay while an incident depends on them.             *)
MayChange(new) == live.down # None => new = config

(* Settings.save, up to the configuration file, whose entries of other     *)
(* versions are read first and kept.                                       *)
WriteSettings(new) ==
  /\ up /\ panel = "open" /\ ~busy
  /\ MayChange(new) /\ "configuration" \notin damaged
  /\ zones' = new /\ panel' = "written"
  /\ UNCHANGED <<saved, verifier, record, damaged, refused, up, work, config, access, counts>>

(* A selection keeps the stations that are still there.                    *)
Kept(picked) == {s \in picked : s = Line \/ s \in zones}

(* _apply: the terminal takes the configuration over, and the selections   *)
(* are cut to it.                                                          *)
ApplySettings ==
  /\ up /\ panel = "written"
  /\ config' = zones /\ panel' = "closed"
  /\ live' = [live EXCEPT !.picked = Kept(@)] /\ saved' = live'
  /\ damaged' = damaged \ {"document"}
  /\ UNCHANGED <<zones, verifier, record, refused, up, busy, op, result, access, counts>>

(* "Settings saved, but the line state could not be updated."              *)
ApplyFails ==
  /\ up /\ panel = "written" /\ Faults
  /\ config' = zones /\ panel' = "open"
  /\ live' = RolledBack /\ Count("faults")
  /\ UNCHANGED <<files, up, busy, op, result, access>>

CloseSettings ==
  /\ up /\ panel = "open" /\ panel' = "closed"
  /\ UNCHANGED <<files, up, work, config, access, counts>>

-----------------------------------------------------------------------------
(* The administrator                                                       *)

(* request_admin_access from the kiosk, request_password_change from the   *)
(* Settings panel, which hides behind the dialog.                          *)
AskAccess(purpose) ==
  /\ up /\ ~busy /\ modal = NoModal
  /\ panel = IF purpose = "change" THEN "open" ELSE "closed"
  /\ panel' = IF purpose = "change" THEN "hidden" ELSE panel
  /\ modal' = [stage |-> "password", purpose |-> purpose, verified |-> None,
               fresh |-> FALSE]
  /\ UNCHANGED <<files, up, work, config, throttle, counts, wrong, owed>>

Cancel ==
  /\ up /\ ~busy /\ modal # NoModal /\ Listens
  /\ modal' = NoModal
  /\ panel' = IF modal.purpose = "change" THEN "open" ELSE panel
  /\ UNCHANGED <<files, up, work, config, throttle, counts, wrong, owed>>

(* current_hash reads the file for every authorization; when it cannot be  *)
(* trusted the build's password is no fallback.                            *)
Readable == "password" \notin damaged

(* verify_settings_password compares nothing before the pause is over.     *)
MayCompare ==
  up /\ ~busy /\ modal.stage = "password" /\ ~throttle.waiting /\ Readable

Compares == MayCompare /\ counts.guesses < MaxGuesses /\ Count("guesses")

(* clear                                                                   *)
Cleared == throttle' = NoAttempts /\ record' = NoAttempts

(* The right password: the throttle is cleared first, and access refused   *)
(* when that cannot be saved, which changes nothing.                       *)
RightPassword ==
  /\ Compares /\ Cleared
  /\ wrong' = 0 /\ owed' = FALSE
  /\ IF modal.purpose = "change"
       THEN /\ modal' = [modal EXCEPT !.stage = "new", !.verified = verifier,
                                      !.fresh = TRUE]
            /\ UNCHANGED panel
       ELSE modal' = NoModal /\ panel' = "open"
  /\ UNCHANGED <<saved, zones, verifier, damaged, refused, up, work, config>>

AfterFailure ==
  LET n == IF throttle.failed = Paused THEN Paused ELSE throttle.failed + 1
  IN  [failed |-> n, waiting |-> n = Paused]

(* register_failure counts in memory before it saves.                      *)
WrongPassword ==
  /\ Compares
  /\ throttle' = AfterFailure /\ record' = AfterFailure
  /\ wrong' = IF wrong = Paused THEN Paused ELSE wrong + 1
  /\ owed' = (wrong' = Paused)
  /\ UNCHANGED <<saved, zones, verifier, damaged, refused, up, work, config, panel,
                 modal>>

UnrecordedFailure ==
  /\ MayCompare
  /\ Faults /\ Count("faults")
  /\ throttle' = AfterFailure
  /\ UNCHANGED <<files, up, work, config, panel, modal, wrong, owed>>

(* SettingsCredentials.replace reads the file once more: only the verifier *)
(* that was matched is replaced, and neither it nor the build's comes back.*)
StillVerified == verifier = modal.verified

Replaceable == Readable /\ StillVerified

(* submit_password_change, up to the comparison of the verifiers. What     *)
(* follows hashes the new password three times before it writes; the       *)
(* screen's thread does nothing else meanwhile, the outside does.          *)
BeginReplacing ==
  /\ up /\ ~busy /\ modal.stage = "new" /\ modal.fresh
  /\ Replaceable
  /\ modal' = [modal EXCEPT !.stage = "writing"]
  /\ UNCHANGED <<files, up, work, config, panel, throttle, counts, wrong, owed>>

(* write_json: whatever the file holds by now is replaced.                 *)
ReplacePassword(new) ==
  /\ up /\ modal.stage = "writing" /\ new \notin {modal.verified, Initial}
  /\ verifier' = new /\ damaged' = damaged \ {"password"}
  /\ modal' = NoModal /\ panel' = "open"
  /\ UNCHANGED <<saved, zones, record, refused, up, work, config, throttle, counts, wrong, owed>>

(* "Choose a different password", or "Password not saved": the dialog asks *)
(* for another one.                                                        *)
NotReplaced ==
  /\ up /\ modal.stage = "writing"
  /\ modal' = [modal EXCEPT !.stage = "new"]
  /\ UNCHANGED <<files, up, work, config, panel, throttle, counts, wrong, owed>>

(* Five minutes after the old password was entered it must be entered      *)
(* again.                                                                  *)
AuthorizationEnds ==
  /\ up /\ modal.fresh
  /\ modal' = [modal EXCEPT !.fresh = FALSE]
  /\ UNCHANGED <<files, up, work, config, panel, throttle, counts, wrong, owed>>

EnterAgain ==
  /\ up /\ ~busy /\ modal.stage = "new" /\ ~modal.fresh
  /\ modal' = [modal EXCEPT !.stage = "password", !.verified = None]
  /\ UNCHANGED <<files, up, work, config, panel, throttle, counts, wrong, owed>>

-----------------------------------------------------------------------------
(* Time, stops and the outside                                             *)

(* The pause ends, whether the terminal runs or not.                       *)
PauseEnds ==
  /\ throttle.waiting \/ record.waiting
  /\ throttle' = [throttle EXCEPT !.waiting = FALSE]
  /\ record' = [record EXCEPT !.waiting = FALSE]
  /\ owed' = FALSE
  /\ UNCHANGED <<saved, zones, verifier, damaged, refused, up, work, config, panel,
                 modal, counts, wrong>>

Stop ==
  /\ up /\ Faults /\ Count("faults")
  /\ up' = FALSE /\ busy' = FALSE /\ op' = NoOp /\ result' = "none"
  /\ panel' = "closed" /\ modal' = NoModal /\ throttle' = NoAttempts
  /\ UNCHANGED <<files, live, config, wrong, owed>>

(* validate_active_topology: an incident's stations must be configured as  *)
(* they were when it began, or the terminal does not start.                *)
Fits(doc, configured) ==
  doc.down # None =>
    /\ doc.down.stations \subseteq configured
    /\ doc.down.line => doc.down.stations = configured

LoadedCount ==
  IF record = Damaged THEN NoAttempts ELSE [record EXCEPT !.waiting = FALSE]

(* PersistentAuthThrottle._load: a damaged record starts with a pause.     *)
Loaded ==
  IF record = Damaged THEN [failed |-> Paused, waiting |-> TRUE] ELSE record

(* load_config and StateStore take no file they cannot read.               *)
CanLoad == damaged \intersect {"document", "configuration"} = {}

Start ==
  /\ ~up /\ CanLoad /\ Fits(saved, zones)
  /\ up' = TRUE /\ live' = saved /\ config' = zones /\ throttle' = Loaded
  /\ refused' = FALSE
  /\ UNCHANGED <<saved, zones, verifier, record, damaged, busy, op, result, panel,
                 modal, counts, wrong, owed>>

(* "An authorized administrator must repair or archive it before restart;  *)
(* the terminal will not silently assume the line is running."             *)
RefuseToStart ==
  /\ ~up /\ ~refused /\ ~CanLoad
  /\ refused' = TRUE
  /\ UNCHANGED <<saved, zones, verifier, record, damaged, up, work, config, panel,
                 access, counts>>

(* A system administrator puts another settings_auth.json in place.        *)
RestoreVerifier(v) ==
  /\ Faults /\ Count("faults") /\ v # verifier
  /\ verifier' = v /\ damaged' = damaged \ {"password"}
  /\ UNCHANGED <<saved, zones, record, refused, up, work, config, panel, access>>

DamageRecord ==
  /\ Faults /\ Count("faults") /\ record # Damaged
  /\ record' = Damaged
  /\ UNCHANGED <<saved, zones, verifier, damaged, refused, up, work, config, panel,
                 access>>

DamageFile(f) ==
  /\ Faults /\ Count("faults") /\ f \notin damaged
  /\ damaged' = damaged \union {f}
  /\ UNCHANGED <<saved, zones, verifier, record, refused, up, work, config, panel,
                 access>>

(* An administrator puts the file back as it was.                          *)
RepairFile(f) ==
  /\ f \in damaged
  /\ damaged' = damaged \ {f}
  /\ UNCHANGED <<saved, zones, verifier, record, refused, up, work, config, panel,
                 access, counts>>

-----------------------------------------------------------------------------

Init ==
  /\ saved = Blank /\ live = Blank /\ zones = Stations /\ config = Stations
  /\ verifier = Initial /\ record = NoAttempts /\ throttle = NoAttempts
  /\ damaged = {} /\ refused = FALSE
  /\ up = TRUE /\ busy = FALSE /\ op = NoOp /\ result = "none"
  /\ panel = "closed" /\ modal = NoModal
  /\ counts = [ops |-> 0, guesses |-> 0, faults |-> 0] /\ wrong = 0 /\ owed = FALSE

Worker ==
  \/ OpMoves \/ OpQueues \/ OpSwallows \/ OpRaises \/ OpRefused
  \/ OpCommits \/ OpSaveFails

Settings ==
  \/ \E new \in (SUBSET Stations) \ {{}} : WriteSettings(new)
  \/ ApplySettings \/ ApplyFails \/ CloseSettings

Administrator ==
  \/ \E purpose \in {"settings", "change"} : AskAccess(purpose)
  \/ Cancel \/ RightPassword \/ WrongPassword \/ UnrecordedFailure
  \/ BeginReplacing \/ NotReplaced
  \/ \E new \in Verifiers : ReplacePassword(new)
  \/ AuthorizationEnds \/ EnterAgain

Outside ==
  \/ PauseEnds \/ Stop \/ Start \/ RefuseToStart \/ DamageRecord
  \/ \E f \in Files : DamageFile(f) \/ RepairFile(f)
  \/ \E v \in Verifiers : RestoreVerifier(v)

Next ==
  \/ \E kind \in Kinds, pick \in SUBSET (Stations \union {Line}) : Perform(kind, pick)
  \/ Worker \/ Deliver \/ Settings \/ Administrator \/ Outside

Spec == Init /\ [][Next]_vars

-----------------------------------------------------------------------------
(* Properties                                                              *)

(* A stop at any moment finds whole operations: a change of the line is in *)
(* the document exactly with the updates queued for it. And whenever no    *)
(* operation is under way, the screen shows what a restart would show.     *)
WholeOperations ==
  /\ \A p, q \in Parts : saved.done[p] = saved.done[q]
  /\ up /\ op = NoOp => live = saved

(* The stations an incident stopped stay configured, in memory and in what *)
(* a restart would read, so that the terminal can always start again:      *)
(* operations that begin incidents, the panel that changes stations, and   *)
(* failed writes of either never leave an incident without its line.       *)
TopologyHeld ==
  /\ Fits(saved, zones)
  /\ up => Fits(live, zones) /\ (panel # "written" => config = zones)

(* "Retain failed-attempt delays across application and device restarts"   *)
(* (auth_throttle.py): after a recorded third wrong password nothing is    *)
(* compared before the pause is over, also if the terminal was restarted   *)
(* or the record damaged meanwhile.                                        *)
DelayServed == up /\ owed => throttle.waiting

(* "The password changed; cancel and authorize again"                      *)
(* (settings_auth.py:82): a verifier that was put in place after the old   *)
(* password was matched is not overwritten. It may be, by the write that   *)
(* follows the comparison; no run claims this.                             *)
ReplacedAsVerified ==
  [][modal.stage = "writing" /\ verifier' # verifier /\ modal' = NoModal
       => verifier = modal.verified]_vars
=============================================================================
