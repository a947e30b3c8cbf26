--------------------------- MODULE TerminalProofs ---------------------------
(***************************************************************************)
(* Proofs about Terminal, for all stations, verifiers and bounds.          *)
(***************************************************************************)
EXTENDS Terminal, TLAPS

(* ------------------------------- types --------------------------------- *)
(* The parts of the type invariant that different steps disturb.           *)
LineTypes ==
  /\ saved \in Documents /\ live \in Documents
  /\ zones \in (SUBSET Stations) \ {{}} /\ config \in (SUBSET Stations) \ {{}}

WorkTypes ==
  /\ op \in Operations \union {NoOp}
  /\ result \in {"none", "ok", "error"}
  /\ busy \in BOOLEAN

AccessTypes ==
  /\ verifier \in Verifiers /\ record \in Attempts \union {Damaged}
  /\ panel \in {"closed", "open", "hidden", "written"}
  /\ modal \in Modals \union {NoModal}
  /\ throttle \in Attempts /\ wrong \in 0 .. Paused
  /\ owed \in BOOLEAN

RestTypes ==
  /\ damaged \subseteq Files /\ refused \in BOOLEAN /\ up \in BOOLEAN
  /\ counts \in Counts

LEMMA TypeParts == TypeOK <=> LineTypes /\ WorkTypes /\ AccessTypes /\ RestTypes
  BY Zenon DEF TypeOK, LineTypes, WorkTypes, AccessTypes, RestTypes

(* The documents are closed under what the operations do with them.        *)
LEMMA DocumentParts ==
  ASSUME NEW d \in Documents
  PROVE  /\ d.done \in [Parts -> SUBSET Ops]
         /\ d.down \in Scopes \union {None}
         /\ d.picked \in SUBSET (Stations \union {Line})
         /\ d.staged \in BOOLEAN
         /\ d = [done |-> d.done, down |-> d.down, picked |-> d.picked, staged |-> d.staged]
  BY DEF Documents

LEMMA DocumentMade ==
  ASSUME NEW f \in [Parts -> SUBSET Ops], NEW s \in Scopes \union {None},
         NEW z \in SUBSET (Stations \union {Line}), NEW b \in BOOLEAN
  PROVE  [done |-> f, down |-> s, picked |-> z, staged |-> b] \in Documents
  BY DEF Documents

LEMMA DocumentChanged ==
  ASSUME NEW d \in Documents
  PROVE  /\ \A z \in SUBSET (Stations \union {Line}) : [d EXCEPT !.picked = z] \in Documents
         /\ \A s \in Scopes \union {None} : [d EXCEPT !.down = s] \in Documents
         /\ \A b \in BOOLEAN : [d EXCEPT !.staged = b] \in Documents
         /\ \A p \in Parts, n \in Ops :
              [d EXCEPT !.done[p] = @ \union {n}] \in Documents
<1>1. \A z \in SUBSET (Stations \union {Line}) : [d EXCEPT !.picked = z] \in Documents
  BY DEF Documents
<1>2. \A s \in Scopes \union {None} : [d EXCEPT !.down = s] \in Documents
  BY DEF Documents
<1>3. \A b \in BOOLEAN : [d EXCEPT !.staged = b] \in Documents
  BY DEF Documents
<1>4. ASSUME NEW p \in Parts, NEW n \in Ops
      PROVE  [d EXCEPT !.done[p] = @ \union {n}] \in Documents
  <2>1. [d.done EXCEPT ![p] = @ \union {n}] \in [Parts -> SUBSET Ops]
    BY DocumentParts
  <2>2. [d EXCEPT !.done[p] = @ \union {n}]
          = [done |-> [d.done EXCEPT ![p] = @ \union {n}], down |-> d.down,
             picked |-> d.picked, staged |-> d.staged]
    BY DEF Documents
  <2> QED BY <2>1, <2>2, DocumentParts, DocumentMade
<1> QED BY <1>1, <1>2, <1>3, <1>4

LEMMA LineTypesKept ==
  ASSUME TypeOK, [Next]_vars
  PROVE  LineTypes'
<1> USE DEF TypeOK
<1>1. CASE UNCHANGED vars
  BY <1>1 DEF vars, LineTypes
<1>2. ASSUME NEW kind \in Kinds, NEW pick \in SUBSET (Stations \union {Line}),
             Perform(kind, pick)
      PROVE  LineTypes'
  BY <1>2 DEF Perform, LineTypes, files
<1>3. CASE Worker
  <2>1. CASE OpMoves
    <3>1. op \in Operations
      BY <2>1 DEF OpMoves, NoOp
    <3>2. op.n \in Ops /\ op.pick \in SUBSET (Stations \union {Line})
      BY <3>1 DEF Operations
    <3>3. ScopeOf(live.picked) \in Scopes
      BY <2>1, DocumentParts DEF ScopeOf, Scopes, OpMoves
    <3>4. Moved \in Documents
      <4>1. {} \in SUBSET (Stations \union {Line}) /\ None \in Scopes \union {None}
        OBVIOUS
      <4>2. [live EXCEPT !.down = None, !.picked = {}]
              = [[live EXCEPT !.down = None] EXCEPT !.picked = {}]
        OBVIOUS
      <4>3. [live EXCEPT !.down = None, !.picked = {}] \in Documents
        BY <4>1, <4>2, DocumentChanged
      <4> QED BY <3>1, <3>2, <3>3, <4>3, DocumentChanged DEF Moved, Operations, Kinds
    <3>5. live' \in Documents
      BY <2>1, <3>2, <3>4, DocumentChanged DEF OpMoves, Parts
    <3> QED BY <2>1, <3>5 DEF OpMoves, LineTypes, files
  <2>2. CASE OpQueues
    <3>1. op \in Operations /\ op.at \in Parts
      BY <2>2 DEF OpQueues, NoOp, After, Parts
    <3>2. live' \in Documents
      BY <2>2, <3>1, DocumentChanged DEF OpQueues, Operations
    <3> QED BY <2>2, <3>2 DEF OpQueues, LineTypes, files
  <2>3. CASE OpSwallows
    BY <2>3 DEF OpSwallows, LineTypes, files
  <2>4. CASE Undo
    BY <2>4 DEF Undo, RolledBack, LineTypes, files
  <2>5. CASE OpCommits
    <3>1. Staged(live) \in Documents
      BY DocumentParts, DocumentChanged DEF Staged
    <3> QED BY <2>5, <3>1 DEF OpCommits, LineTypes
  <2> QED BY <1>3, <2>1, <2>2, <2>3, <2>4, <2>5 DEF Worker, OpRaises, OpRefused, OpSaveFails
<1>4. CASE Deliver
  BY <1>4 DEF Deliver, LineTypes, files
<1>5. CASE Settings
  <2>1. ASSUME NEW new \in (SUBSET Stations) \ {{}}, WriteSettings(new)
        PROVE  LineTypes'
    BY <2>1 DEF WriteSettings, LineTypes, work
  <2>2. CASE ApplySettings
    <3>1. Kept(live.picked) \in SUBSET (Stations \union {Line})
      BY DocumentParts DEF Kept
    <3> QED BY <2>2, <3>1, DocumentChanged DEF ApplySettings, LineTypes
  <2>3. CASE ApplyFails
    BY <2>3 DEF ApplyFails, RolledBack, LineTypes, files
  <2>4. CASE CloseSettings
    BY <2>4 DEF CloseSettings, LineTypes, files, work
  <2> QED BY <1>5, <2>1, <2>2, <2>3, <2>4 DEF Settings
<1>6. CASE Administrator
  BY <1>6 DEF Administrator, AskAccess, Cancel, RightPassword, WrongPassword,
    UnrecordedFailure, BeginReplacing, ReplacePassword, NotReplaced,
    AuthorizationEnds, EnterAgain,
    LineTypes, files, work
<1>7. CASE Outside
  BY <1>7 DEF Outside, PauseEnds, Stop, Start, RefuseToStart, DamageRecord, DamageFile,
    RepairFile, RestoreVerifier, LineTypes, files, work
<1> QED BY <1>1, <1>2, <1>3, <1>4, <1>5, <1>6, <1>7 DEF Next

(* Every step of the worker leaves it with an operation, or with none.     *)
LEMMA OperationMoved ==
  ASSUME NEW o \in Operations
  PROVE  /\ \A at \in {"move", "first", "second", "end"} : [o EXCEPT !.at = at] \in Operations
         /\ \A at \in {"move", "first", "second", "end"} :
              [o EXCEPT !.at = at, !.failed = TRUE] \in Operations
  BY DEF Operations

LEMMA WorkTypesKept ==
  ASSUME TypeOK, [Next]_vars
  PROVE  WorkTypes'
<1> USE DEF TypeOK
<1>1. CASE UNCHANGED vars
  BY <1>1 DEF vars, WorkTypes
<1>2. ASSUME NEW kind \in Kinds, NEW pick \in SUBSET (Stations \union {Line}),
             Perform(kind, pick)
      PROVE  WorkTypes'
  <2>1. counts.ops + 1 \in Ops
    BY <1>2, TerminalAssumption DEF Perform, Counts, Ops
  <2>2. op' \in Operations
    BY <1>2, <2>1 DEF Perform, Operations
  <2> QED BY <1>2, <2>2 DEF Perform, WorkTypes
<1>3. CASE Worker
  <2>1. CASE OpMoves \/ OpQueues \/ OpSwallows
    <3>1. op \in Operations
      BY <2>1 DEF OpMoves, OpQueues, OpSwallows, After, NoOp
    <3>2. op' \in Operations
      <4>1. CASE OpMoves
        BY <4>1, <3>1, OperationMoved DEF OpMoves
      <4>2. CASE OpQueues \/ OpSwallows
        <5>1. After[op.at] \in {"move", "first", "second", "end"}
          BY <4>2 DEF OpQueues, OpSwallows, After
        <5> QED BY <4>2, <5>1, <3>1, OperationMoved DEF OpQueues, OpSwallows
      <4> QED BY <2>1, <4>1, <4>2
    <3>3. busy' = busy /\ result' = result
      BY <2>1 DEF OpMoves, OpQueues, OpSwallows
    <3> QED BY <3>2, <3>3, Zenon DEF WorkTypes
  <2>2. CASE Undo
    BY <2>2 DEF Undo, WorkTypes
  <2>3. CASE OpCommits
    BY <2>3 DEF OpCommits, WorkTypes
  <2> QED BY <1>3, <2>1, <2>2, <2>3 DEF Worker, OpRaises, OpRefused, OpSaveFails
<1>4. CASE Deliver
  BY <1>4 DEF Deliver, WorkTypes
<1>5. CASE Settings
  BY <1>5 DEF Settings, WriteSettings, ApplySettings, ApplyFails, CloseSettings, WorkTypes, work
<1>6. CASE Administrator
  BY <1>6 DEF Administrator, AskAccess, Cancel, RightPassword, WrongPassword,
    UnrecordedFailure, BeginReplacing, ReplacePassword, NotReplaced,
    AuthorizationEnds, EnterAgain, WorkTypes, work
<1>7. CASE Outside
  BY <1>7 DEF Outside, PauseEnds, Stop, Start, RefuseToStart, DamageRecord, DamageFile,
    RepairFile, RestoreVerifier, WorkTypes, work
<1> QED BY <1>1, <1>2, <1>3, <1>4, <1>5, <1>6, <1>7 DEF Next

(* The throttle counts to Paused and stays there.                          *)
LEMMA AttemptsCounted ==
  ASSUME throttle \in Attempts
  PROVE  AfterFailure \in Attempts
<1>1. throttle.failed \in 0 .. Paused
  BY DEF Attempts
<1>2. (IF throttle.failed = Paused THEN Paused ELSE throttle.failed + 1) \in 0 .. Paused
  BY <1>1 DEF Paused
<1> QED BY <1>2 DEF AfterFailure, Attempts

LEMMA AccessTypesKept ==
  ASSUME TypeOK, [Next]_vars
  PROVE  AccessTypes'
<1> USE DEF TypeOK
<1>1. CASE UNCHANGED vars
  BY <1>1 DEF vars, AccessTypes
<1>2. ASSUME NEW kind \in Kinds, NEW pick \in SUBSET (Stations \union {Line}),
             Perform(kind, pick)
      PROVE  AccessTypes'
  BY <1>2 DEF Perform, AccessTypes, files, access
<1>3. CASE Worker
  BY <1>3 DEF Worker, OpMoves, OpQueues, OpSwallows, OpRaises, OpRefused, OpCommits,
    OpSaveFails, Undo, AccessTypes, files, access
<1>4. CASE Deliver
  BY <1>4 DEF Deliver, AccessTypes, files, access
<1>5. CASE Settings
  BY <1>5 DEF Settings, WriteSettings, ApplySettings, ApplyFails, CloseSettings, AccessTypes,
    files, access
<1>6. CASE Administrator
  <2>1. ASSUME NEW purpose \in {"settings", "change"}, AskAccess(purpose)
        PROVE  AccessTypes'
    BY <2>1 DEF AskAccess, AccessTypes, files, Modals
  <2>2. CASE Cancel
    BY <2>2 DEF Cancel, AccessTypes, files
  <2>3. CASE RightPassword
    <3>1. modal \in Modals
      BY <2>3 DEF RightPassword, Compares, MayCompare, NoModal
    <3>2. [modal EXCEPT !.stage = "new", !.verified = verifier, !.fresh = TRUE] \in Modals
      BY <3>1 DEF Modals
    <3>3. NoAttempts \in Attempts
      BY DEF NoAttempts, Attempts, Paused
    <3>4. modal' \in Modals \union {NoModal} /\ panel' \in {"closed", "open", "hidden", "written"}
      BY <2>3, <3>2 DEF RightPassword
    <3>5. wrong' \in 0 .. Paused /\ owed' \in BOOLEAN
      <4>1. wrong' = 0 /\ owed' = FALSE
        BY <2>3 DEF RightPassword
      <4>2. wrong' \in 0 .. Paused
        BY <4>1 DEF Paused
      <4> QED BY <4>1, <4>2, Zenon
    <3>6. throttle' = NoAttempts /\ record' = NoAttempts /\ verifier' = verifier
      BY <2>3 DEF RightPassword, Cleared
    <3>7. verifier' \in Verifiers /\ throttle' \in Attempts
          /\ record' \in Attempts \union {Damaged}
      BY <3>3, <3>6
    <3> QED BY <3>4, <3>5, <3>7, Zenon DEF AccessTypes
  <2>4. CASE WrongPassword
    <3>1. wrong' \in 0 .. Paused
      BY <2>4 DEF WrongPassword, Paused
    <3> QED BY <2>4, <3>1, AttemptsCounted DEF WrongPassword, AccessTypes
  <2>5. CASE UnrecordedFailure
    BY <2>5, AttemptsCounted DEF UnrecordedFailure, AccessTypes, files
  <2>6. ASSUME NEW new \in Verifiers, ReplacePassword(new)
        PROVE  AccessTypes'
    BY <2>6 DEF ReplacePassword, AccessTypes
  <2>7. CASE AuthorizationEnds \/ EnterAgain \/ BeginReplacing \/ NotReplaced
    <3>1. modal \in Modals
      BY <2>7 DEF AuthorizationEnds, EnterAgain, BeginReplacing, NotReplaced, NoModal
    <3>2. modal' \in Modals
      BY <2>7, <3>1 DEF AuthorizationEnds, EnterAgain, BeginReplacing, NotReplaced, Modals
    <3> QED BY <2>7, <3>2 DEF AuthorizationEnds, EnterAgain, BeginReplacing, NotReplaced, AccessTypes, files
  <2> QED BY <1>6, <2>1, <2>2, <2>3, <2>4, <2>5, <2>6, <2>7 DEF Administrator
<1>7. CASE Outside
  <2>1. CASE PauseEnds
    <3>1. throttle' \in Attempts
      BY <2>1 DEF PauseEnds, Attempts
    <3>2. record' \in Attempts \union {Damaged}
      <4>1. CASE record \in Attempts
        BY <2>1, <4>1 DEF PauseEnds, Attempts
      <4>2. CASE record = Damaged
        BY <2>1, <4>2 DEF PauseEnds, Damaged
      <4> QED BY <4>1, <4>2
    <3> QED BY <2>1, <3>1, <3>2 DEF PauseEnds, AccessTypes
  <2>2. CASE Stop
    BY <2>2 DEF Stop, AccessTypes, files, NoAttempts, Attempts, Paused
  <2>3. CASE Start
    <3>1. Loaded \in Attempts
      BY DEF Loaded, Attempts, Paused
    <3> QED BY <2>3, <3>1 DEF Start, AccessTypes
  <2>4. CASE RefuseToStart \/ DamageRecord
    BY <2>4 DEF RefuseToStart, DamageRecord, AccessTypes, access
  <2>5. ASSUME NEW f \in Files, DamageFile(f) \/ RepairFile(f)
        PROVE  AccessTypes'
    BY <2>5 DEF DamageFile, RepairFile, AccessTypes, access
  <2>6. ASSUME NEW v \in Verifiers, RestoreVerifier(v)
        PROVE  AccessTypes'
    BY <2>6 DEF RestoreVerifier, AccessTypes, access
  <2> QED BY <1>7, <2>1, <2>2, <2>3, <2>4, <2>5, <2>6 DEF Outside
<1> QED BY <1>1, <1>2, <1>3, <1>4, <1>5, <1>6, <1>7 DEF Next

LEMMA RestTypesKept ==
  ASSUME TypeOK, [Next]_vars
  PROVE  RestTypes'
<1> USE DEF TypeOK
<1>1. Files = {"document", "configuration", "password"}
  BY DEF Files
<1>2. damaged' \subseteq Files
  <2>1. CASE UNCHANGED damaged
    BY <2>1
  <2>2. ASSUME ~UNCHANGED damaged
        PROVE  damaged' \subseteq damaged \/ \E f \in Files : damaged' = damaged \union {f}
    BY <2>2 DEF Next, Perform, Worker, OpMoves, OpQueues, OpSwallows, OpRaises, OpRefused,
      OpCommits, OpSaveFails, Undo, Deliver, Settings, WriteSettings, ApplySettings,
      ApplyFails, CloseSettings, Administrator, AskAccess, Cancel, RightPassword,
      WrongPassword, UnrecordedFailure, BeginReplacing, ReplacePassword, NotReplaced,
      AuthorizationEnds, EnterAgain,
      Outside, PauseEnds, Stop, Start, RefuseToStart, DamageRecord, DamageFile, RepairFile,
      RestoreVerifier, vars, files
  <2> QED BY <2>1, <2>2
<1>3. up' \in BOOLEAN /\ refused' \in BOOLEAN
  BY Zenon DEF Next, Perform, Worker, OpMoves, OpQueues, OpSwallows, OpRaises, OpRefused,
    OpCommits, OpSaveFails, Undo, Deliver, Settings, WriteSettings, ApplySettings,
    ApplyFails, CloseSettings, Administrator, AskAccess, Cancel, RightPassword,
    WrongPassword, UnrecordedFailure, BeginReplacing, ReplacePassword, NotReplaced,
    AuthorizationEnds, EnterAgain,
    Outside, PauseEnds, Stop, Start, RefuseToStart, DamageRecord, DamageFile, RepairFile,
    RestoreVerifier, vars, files
<1>4. counts' \in Counts
  <2>1. \/ UNCHANGED counts
        \/ counts.ops < MaxOps /\ Count("ops")
        \/ counts.guesses < MaxGuesses /\ Count("guesses")
        \/ counts.faults < MaxFaults /\ Count("faults")
    BY DEF Next, Perform, Worker, OpMoves, OpQueues, OpSwallows, OpRaises, OpRefused,
      OpCommits, OpSaveFails, Undo, Deliver, Settings, WriteSettings, ApplySettings,
      ApplyFails, CloseSettings, Administrator, AskAccess, Cancel, RightPassword,
      WrongPassword, UnrecordedFailure, BeginReplacing, ReplacePassword, NotReplaced,
      AuthorizationEnds, EnterAgain,
      Outside, PauseEnds, Stop, Start, RefuseToStart, DamageRecord, DamageFile, RepairFile,
      RestoreVerifier, vars, Faults, Compares
  <2> QED BY <2>1, TerminalAssumption DEF Count, Counts
<1> QED BY <1>2, <1>3, <1>4 DEF RestTypes

LEMMA TypesAtFirst == Init => TypeOK
<1> SUFFICES ASSUME Init PROVE TypeOK
  OBVIOUS
<1>1. Blank \in Documents
  BY DEF Blank, Documents, Scopes
<1>2. LineTypes
  BY <1>1, TerminalAssumption DEF Init, LineTypes
<1>3. WorkTypes
  BY DEF Init, WorkTypes
<1>4. NoAttempts \in Attempts /\ 0 \in 0 .. Paused
  BY DEF NoAttempts, Attempts, Paused
<1>5. AccessTypes
  BY <1>4, TerminalAssumption, Zenon DEF Init, AccessTypes
<1>6. counts \in Counts
  BY TerminalAssumption DEF Init, Counts
<1>7. RestTypes
  BY <1>6, Zenon DEF Init, RestTypes
<1> QED BY <1>2, <1>3, <1>5, <1>7, TypeParts

LEMMA TypesKept == TypeOK /\ [Next]_vars => TypeOK'
<1> SUFFICES ASSUME TypeOK, [Next]_vars PROVE TypeOK'
  OBVIOUS
<1>1. LineTypes' /\ WorkTypes' /\ AccessTypes' /\ RestTypes'
  BY LineTypesKept, WorkTypesKept, AccessTypesKept, RestTypesKept
<1> QED BY <1>1, Zenon DEF TypeOK, LineTypes, WorkTypes, AccessTypes, RestTypes

(* Every reachable state is well typed: an operation under way, a dialog,  *)
(* the throttle and the four files never hold what the code cannot write.  *)
THEOREM TerminalTypes == Spec => []TypeOK
  BY TypesAtFirst, TypesKept, PTL DEF Spec

(* ------------------------ operations and Settings ---------------------- *)
Working == op # NoOp

(* Who excludes whom: an operation keeps the terminal busy until its       *)
(* result was taken, Settings writes only while none is under way, and the *)
(* password dialog is shown without the panel.                             *)
Exclusive ==
  /\ Working => up /\ busy
  /\ result # "none" => ~Working /\ busy
  /\ panel = "written" => up /\ ~busy
  /\ panel \in {"open", "written"} => modal = NoModal

LEMMA WorkingAt == op.at # "none" => Working
  BY DEF Working, NoOp

LEMMA WorkerWorks == Worker => Working
  BY WorkingAt DEF Worker, OpMoves, OpQueues, OpSwallows, OpRaises, OpRefused,
    OpCommits, OpSaveFails, After

LEMMA ExclusiveKept ==
  ASSUME TypeOK, Exclusive, [Next]_vars
  PROVE  Exclusive'
<1> USE DEF Exclusive, Working
<1>1. CASE UNCHANGED vars
  BY <1>1 DEF vars
<1>2. ASSUME NEW kind \in Kinds, NEW pick \in SUBSET (Stations \union {Line}),
             Perform(kind, pick)
      PROVE  Exclusive'
  BY <1>2 DEF Perform, Listens, access
<1>3. CASE Worker
  <2>1. Working
    BY <1>3, WorkerWorks
  <2>2. up' = up /\ busy' = busy /\ panel' = panel /\ modal' = modal
    BY <1>3 DEF Worker, OpMoves, OpQueues, OpSwallows, OpRaises, OpRefused,
      OpCommits, OpSaveFails, Undo, access
  <2>3. op' = NoOp \/ result' = result
    BY <1>3 DEF Worker, OpMoves, OpQueues, OpSwallows, OpRaises, OpRefused,
      OpCommits, OpSaveFails, Undo
  <2> QED BY <2>1, <2>2, <2>3
<1>4. CASE Deliver
  BY <1>4 DEF Deliver, access
<1>5. CASE Settings
  BY <1>5 DEF Settings, WriteSettings, ApplySettings, ApplyFails, CloseSettings, work, access
<1>6. CASE Administrator
  BY <1>6 DEF NoModal, MayCompare, Compares, Administrator, AskAccess, Cancel, RightPassword, WrongPassword,
    UnrecordedFailure, BeginReplacing, ReplacePassword, NotReplaced,
    AuthorizationEnds, EnterAgain, work
<1>7. CASE Outside
  BY <1>7 DEF Outside, PauseEnds, Stop, Start, RefuseToStart, DamageRecord, DamageFile,
    RepairFile, RestoreVerifier, work, access
<1> QED BY <1>1, <1>2, <1>3, <1>4, <1>5, <1>6, <1>7 DEF Next

(* How far the operation under way has brought the document: one part      *)
(* after the other is added to what was saved, unless one was swallowed.   *)
Added(parts) ==
  [p \in Parts |-> IF p \in parts THEN saved.done[p] \union {op.n} ELSE saved.done[p]]

Halfway ==
  CASE op.at = "move" -> live = saved /\ ~op.failed
    [] op.at = "first" -> live.done = Added({"move"})
    [] op.at = "second" -> ~op.failed => live.done = Added({"move", "first"})
    [] OTHER -> ~op.failed => \A p, q \in Parts : live.done[p] = live.done[q]

Whole ==
  /\ WholeOperations
  /\ Working => Halfway

(* Leaves of the proof that Whole is kept: a whole document stays whole    *)
(* when only other fields are changed.                                     *)
SameParts(d) == \A p, q \in Parts : d.done[p] = d.done[q]

LEMMA WorkerKeepsWhole ==
  ASSUME TypeOK, Exclusive, Whole, Worker
  PROVE  Whole'
<1> USE DEF TypeOK
<1>1. Working /\ Halfway /\ SameParts(saved)
  BY WorkerWorks DEF Whole, WholeOperations, SameParts
<1>2. op \in Operations
  BY <1>1 DEF Working
<1>3. CASE OpMoves
  <2>1. live = saved /\ ~op.failed
    BY <1>1, <1>3 DEF Halfway, OpMoves
  <2>2. Moved.done = saved.done /\ Moved \in [done : [Parts -> SUBSET Ops],
             down : Scopes \union {None, ScopeOf(live.picked)},
             picked : SUBSET (Stations \union {Line}), staged : BOOLEAN]
    BY <2>1, <1>2 DEF Moved, Documents, Operations, Kinds
  <2>3. saved' = saved /\ op'.failed = op.failed /\ op'.n = op.n
    BY <1>2, <1>3 DEF OpMoves, files, Operations
  <2>4. CASE Queues(op.kind)
    <3>1. live'.done = [saved.done EXCEPT !["move"] = @ \union {op.n}]
      BY <2>2, <2>4, <1>3 DEF OpMoves
    <3>2. op'.at = "first"
      BY <1>2, <2>4, <1>3 DEF OpMoves, Operations
    <3>3. live'.done = Added({"move"})'
      BY <3>1, <2>3, DocumentParts DEF Added, Parts
    <3> QED BY <3>2, <3>3, <2>3, <1>1 DEF Whole, Halfway, WholeOperations, SameParts, Working, NoOp
  <2>5. CASE ~Queues(op.kind)
    <3>1. live'.done = saved.done
      BY <2>2, <2>5, <1>3 DEF OpMoves
    <3>2. op'.at = "end"
      BY <1>2, <2>5, <1>3 DEF OpMoves, Operations
    <3> QED BY <3>1, <3>2, <2>3, <1>1 DEF Whole, Halfway, WholeOperations, SameParts, Working, NoOp
  <2> QED BY <2>4, <2>5
<1>4. CASE OpQueues
  <2>1. saved' = saved /\ op'.failed = op.failed /\ op'.n = op.n /\ op.at \in {"first", "second"}
        /\ op'.at = After[op.at]
    BY <1>2, <1>4 DEF OpQueues, files, Operations, After
  <2>2. live'.done = [live.done EXCEPT ![op.at] = @ \union {op.n}]
    BY <1>4, DocumentParts DEF OpQueues
  <2>3. op'.at = IF op.at = "first" THEN "second" ELSE "end"
    BY <2>1 DEF After
  <2>4. CASE op.at = "first"
    <3>1. live.done = Added({"move"})
      BY <1>1, <2>4 DEF Halfway
    <3>2. live'.done = Added({"move", "first"})'
      <4>1. live'.done = [live.done EXCEPT !["first"] = @ \union {op.n}]
        BY <2>2, <2>4
      <4>2. live'.done = [p \in Parts |-> IF p \in {"move", "first"}
                                          THEN saved.done[p] \union {op.n}
                                          ELSE saved.done[p]]
        <5>1. live.done = [p \in Parts |-> IF p \in {"move"} THEN saved.done[p] \union {op.n}
                                           ELSE saved.done[p]]
          BY <3>1 DEF Added
        <5>2. live'.done = [p \in Parts |-> IF p = "first" THEN live.done[p] \union {op.n}
                                            ELSE live.done[p]]
          BY <4>1, <5>1, Zenon
        <5>3. \A p \in Parts :
                (IF p = "first" THEN live.done[p] \union {op.n} ELSE live.done[p])
                  = IF p \in {"move", "first"} THEN saved.done[p] \union {op.n}
                    ELSE saved.done[p]
          BY <5>1 DEF Parts
        <5> QED BY <5>2, <5>3
      <4> QED BY <2>1, <4>2 DEF Added
    <3> QED BY <2>1, <2>3, <2>4, <3>2, <1>1 DEF Whole, Halfway, WholeOperations, SameParts, Working, NoOp
  <2>5. CASE op.at = "second"
    <3>1. ~op.failed => live.done = Added({"move", "first"})
      BY <1>1, <2>5 DEF Halfway
    <3>2. ~op.failed => SameParts(live)'
      <4> SUFFICES ASSUME ~op.failed PROVE SameParts(live)'
        OBVIOUS
      <4>1. live.done = [p \in Parts |-> IF p \in {"move", "first"} THEN saved.done[p] \union {op.n}
                                         ELSE saved.done[p]]
        BY <3>1 DEF Added
      <4>2. live'.done = [live.done EXCEPT !["second"] = @ \union {op.n}]
        BY <2>2, <2>5
      <4>3. live'.done = [p \in Parts |-> IF p = "second" THEN live.done[p] \union {op.n}
                                          ELSE live.done[p]]
        BY <4>1, <4>2, Zenon
      <4>4. /\ live.done["move"] = saved.done["move"] \union {op.n}
            /\ live.done["first"] = saved.done["first"] \union {op.n}
            /\ live.done["second"] = saved.done["second"]
        BY <4>1 DEF Parts
      <4>5. /\ live'.done["move"] = live.done["move"]
            /\ live'.done["first"] = live.done["first"]
            /\ live'.done["second"] = live.done["second"] \union {op.n}
        BY <4>3 DEF Parts
      <4>6. /\ saved.done["move"] = saved.done["first"]
            /\ saved.done["first"] = saved.done["second"]
        BY <1>1 DEF SameParts, Parts
      <4> HIDE DEF TypeOK
      <4>7. SameParts(live')
        BY <4>4, <4>5, <4>6 DEF SameParts, Parts
      <4> QED BY <4>7 DEF SameParts
    <3>3. ~op'.failed => SameParts(live')
      BY <3>2, <2>1 DEF SameParts
    <3> QED BY <2>1, <2>3, <2>5, <3>3, <1>1 DEF Whole, Halfway, WholeOperations, SameParts, Working, NoOp
  <2> QED BY <2>1, <2>4, <2>5
<1>5. CASE OpSwallows
  <2>1. saved' = saved /\ op'.failed /\ op.at \in {"first", "second"}
        /\ op'.at = IF op.at = "first" THEN "second" ELSE "end"
    BY <1>2, <1>5 DEF OpSwallows, files, Operations, After
  <2> QED BY <2>1, <1>1 DEF Whole, Halfway, WholeOperations, SameParts, Working, NoOp
<1>6. CASE Undo
  BY <1>1, <1>6 DEF Undo, RolledBack, files, Whole, WholeOperations, SameParts, Working
<1>7. CASE OpCommits
  <2>1. SameParts(live)
    BY <1>1, <1>7 DEF Halfway, OpCommits, Committable, SameParts
  <2>2. Staged(live).done = live.done
    BY DEF Staged, Documents
  <2>3. SameParts(saved')
    BY <2>1, <2>2, <1>7 DEF SameParts, OpCommits
  <2> QED BY <2>3, <1>7 DEF OpCommits, Whole, WholeOperations, SameParts, Working
<1> QED BY <1>3, <1>4, <1>5, <1>6, <1>7 DEF Worker, OpRaises, OpRefused, OpSaveFails

LEMMA WholeKept ==
  ASSUME TypeOK, Exclusive, Whole, [Next]_vars
  PROVE  Whole'
<1> USE DEF TypeOK
<1>1. CASE UNCHANGED vars
  BY <1>1 DEF vars, Whole, WholeOperations, Working, Halfway, Added
<1>2. ASSUME NEW kind \in Kinds, NEW pick \in SUBSET (Stations \union {Line}),
             Perform(kind, pick)
      PROVE  Whole'
  <2>1. ~Working
    BY <1>2 DEF Perform, Exclusive
  <2>2. live = saved
    BY <1>2, <2>1 DEF Perform, Whole, WholeOperations, Working
  <2>3. op'.at = "move" /\ ~op'.failed /\ op' # NoOp
    BY <1>2 DEF Perform, NoOp
  <2> QED BY <1>2, <2>2, <2>3 DEF Perform, Whole, WholeOperations, Working, Halfway, files
<1>3. CASE Worker
  BY <1>3, WorkerKeepsWhole
<1>4. CASE Deliver
  <2>1. ~Working
    BY <1>4 DEF Deliver, Exclusive
  <2> QED BY <1>4, <2>1 DEF Deliver, Whole, WholeOperations, Working, files
<1>5. CASE Settings
  <2>1. CASE CloseSettings
    BY <2>1 DEF CloseSettings, files, work, Whole, WholeOperations, Working, Halfway, Added
  <2>2. CASE ~CloseSettings
    <3>1. up /\ ~Working /\ op' = op
      BY <1>5, <2>2 DEF Settings, WriteSettings, ApplySettings, ApplyFails, Exclusive, work
    <3>2. live = saved
      BY <3>1 DEF Whole, WholeOperations, Working
    <3>3. live' = saved' /\ saved'.done = saved.done
      BY <1>5, <2>2, <3>2, DocumentParts DEF Settings, WriteSettings, ApplySettings,
        ApplyFails, work, files, RolledBack
    <3> QED BY <3>1, <3>3 DEF Whole, WholeOperations, Working
  <2> QED BY <2>1, <2>2
<1>6. CASE Administrator
  <2>1. UNCHANGED <<saved, live, op, up>>
    BY <1>6 DEF Administrator, AskAccess, Cancel, RightPassword, WrongPassword,
      UnrecordedFailure, BeginReplacing, ReplacePassword, NotReplaced,
      AuthorizationEnds, EnterAgain, work, files
  <2> QED BY <2>1 DEF Whole, WholeOperations, Working, Halfway, Added
<1>7. CASE Outside
  <2>1. CASE Stop
    BY <2>1 DEF Stop, Whole, WholeOperations, Working, files
  <2>2. CASE Start
    <3>1. ~Working
      BY <2>2 DEF Start, Exclusive
    <3> QED BY <2>2, <3>1 DEF Start, Whole, WholeOperations, Working
  <2>3. CASE UNCHANGED <<saved, live, op, up>>
    BY <2>3 DEF Whole, WholeOperations, Working, Halfway, Added
  <2> QED BY <1>7, <2>1, <2>2, <2>3 DEF Outside, PauseEnds, RefuseToStart, DamageRecord,
            DamageFile, RepairFile, RestoreVerifier, work
<1> QED BY <1>1, <1>2, <1>3, <1>4, <1>5, <1>6, <1>7 DEF Next

(* A stop at any moment finds whole operations, and the screen shows what  *)
(* a restart would show: whatever parts of an operation fail, are refused, *)
(* or fail to be saved, and whatever Settings writes in between.           *)
THEOREM OperationsStayWhole == Spec => []WholeOperations
<1>1. Init => Exclusive /\ Whole
  BY DEF Init, Exclusive, Whole, WholeOperations, Working, Blank, Parts
<1>2. TypeOK /\ Exclusive /\ Whole /\ [Next]_vars => Exclusive' /\ Whole'
  BY ExclusiveKept, WholeKept
<1>3. Whole => WholeOperations
  BY DEF Whole
<1> QED BY <1>1, <1>2, <1>3, TerminalTypes, PTL DEF Spec

(* ------------------------- the line's topology ------------------------- *)
(* What Settings has written and not yet applied still fits the incident   *)
(* in memory, because the panel looked before it wrote.                    *)
Topology ==
  /\ TopologyHeld
  /\ up /\ panel = "written" => (live.down # None => zones = config)

LEMMA TopologyKept ==
  ASSUME TypeOK, Exclusive, Whole, Topology, [Next]_vars
  PROVE  Topology'
<1> USE DEF TypeOK
<1>1. CASE UNCHANGED vars
  BY <1>1 DEF vars, Topology, TopologyHeld, Fits
<1>2. ASSUME NEW kind \in Kinds, NEW pick \in SUBSET (Stations \union {Line}),
             Perform(kind, pick)
      PROVE  Topology'
  BY <1>2 DEF Perform, Topology, TopologyHeld, Fits, files
<1>3. CASE Worker
  <2>1. up /\ panel # "written" /\ config = zones /\ Fits(live, zones) /\ Fits(saved, zones)
    BY <1>3, WorkerWorks DEF Exclusive, Topology, TopologyHeld
  <2>2. UNCHANGED <<zones, config, panel, up>>
    BY <1>3 DEF Worker, OpMoves, OpQueues, OpSwallows, OpRaises, OpRefused, OpCommits,
      OpSaveFails, Undo, files
  <2>3. CASE OpMoves
    <3>1. saved' = saved
      BY <2>3 DEF OpMoves, files
    <3>2. live'.down = Moved.down
      BY <2>3, <1>3, WorkerWorks, OperationMoved
         DEF OpMoves, Moved, Documents, Working, Operations, Kinds, Queues
    <3>3. Moved.down \in {live.down, None} \/ op.kind = "report"
      BY <1>3, WorkerWorks DEF Moved, Documents, Working, Operations, Kinds
    <3>4. CASE op.kind = "report"
      <4>1. live.picked \subseteq config \union {Line}
        BY <2>3, <3>4 DEF OpMoves, CanBegin
      <4>2. Moved.down = ScopeOf(live.picked)
        BY <3>4 DEF Moved, Documents
      <4>3. /\ ScopeOf(live.picked).stations \subseteq config
            /\ ScopeOf(live.picked).line => ScopeOf(live.picked).stations = config
        BY <4>1 DEF ScopeOf
      <4> QED BY <2>1, <2>2, <3>1, <3>2, <4>2, <4>3 DEF Topology, TopologyHeld, Fits
    <3>5. CASE op.kind # "report"
      BY <2>1, <2>2, <3>1, <3>2, <3>3, <3>5 DEF Topology, TopologyHeld, Fits
    <3> QED BY <3>4, <3>5
  <2>4. CASE OpQueues \/ OpSwallows
    <3>1. saved' = saved /\ live'.down = live.down
      BY <2>4 DEF OpQueues, OpSwallows, files, Documents
    <3> QED BY <2>1, <2>2, <3>1 DEF Topology, TopologyHeld, Fits
  <2>5. CASE Undo
    BY <2>1, <2>2, <2>5 DEF Undo, RolledBack, files, Topology, TopologyHeld
  <2>6. CASE OpCommits
    <3>1. Staged(live).down = live.down
      BY DEF Staged, Documents
    <3>2. saved'.down = live.down /\ live'.down = live.down
      BY <2>6, <3>1 DEF OpCommits
    <3> QED BY <2>1, <2>2, <3>2 DEF Topology, TopologyHeld, Fits
  <2> QED BY <1>3, <2>3, <2>4, <2>5, <2>6 DEF Worker, OpRaises, OpRefused, OpSaveFails
<1>4. CASE Deliver
  BY <1>4 DEF Deliver, Topology, TopologyHeld, Fits, files
<1>5. CASE Settings
  <2>2. ASSUME NEW new \in (SUBSET Stations) \ {{}}, WriteSettings(new)
        PROVE  Topology'
    <3>1. up /\ live = saved
      BY <2>2 DEF WriteSettings, Exclusive, Whole, WholeOperations, Working
    <3>2. config = zones /\ Fits(live, zones)
      BY <3>1, <2>2 DEF WriteSettings, Topology, TopologyHeld
    <3> QED BY <3>1, <2>2, <3>2 DEF WriteSettings, MayChange, work, Topology, TopologyHeld, Fits
  <2>3. CASE ApplySettings
    <3>1. live'.down = live.down
      BY <2>3 DEF ApplySettings, Documents
    <3>2. up /\ live = saved
      BY <2>3 DEF ApplySettings, Exclusive, Whole, WholeOperations, Working
    <3> QED BY <3>1, <3>2, <2>3 DEF ApplySettings, Topology, TopologyHeld, Fits
  <2>4. CASE ApplyFails
    BY <2>4 DEF ApplyFails, RolledBack, files, Topology, TopologyHeld, Fits
  <2>5. CASE CloseSettings
    BY <2>5 DEF CloseSettings, files, work, Topology, TopologyHeld, Fits
  <2> QED BY <1>5, <2>2, <2>3, <2>4, <2>5 DEF Settings
<1>6. CASE Administrator
  <2>1. UNCHANGED <<saved, live, zones, config, up>>
    BY <1>6 DEF Administrator, AskAccess, Cancel, RightPassword, WrongPassword,
      UnrecordedFailure, BeginReplacing, ReplacePassword, NotReplaced,
      AuthorizationEnds, EnterAgain, work, files
  <2>2. panel # "written" => panel' # "written"
    BY <1>6 DEF Administrator, AskAccess, Cancel, RightPassword, WrongPassword,
      UnrecordedFailure, BeginReplacing, ReplacePassword, NotReplaced,
      AuthorizationEnds, EnterAgain
  <2>3. panel # "written"
    BY <1>6 DEF Administrator, AskAccess, Cancel, RightPassword, WrongPassword,
      UnrecordedFailure, BeginReplacing, ReplacePassword, NotReplaced,
      AuthorizationEnds, EnterAgain, Exclusive, NoModal,
      Compares, MayCompare
  <2> QED BY <2>1, <2>2, <2>3 DEF Topology, TopologyHeld, Fits
<1>7. CASE Outside
  <2>1. CASE Stop
    BY <2>1 DEF Stop, files, Topology, TopologyHeld
  <2>2. CASE Start
    <3>1. panel # "written"
      BY <2>2 DEF Start, Exclusive
    <3> QED BY <2>2, <3>1 DEF Start, Topology, TopologyHeld
  <2>3. CASE UNCHANGED <<saved, live, zones, config, up, panel>>
    BY <2>3 DEF Topology, TopologyHeld, Fits
  <2> QED BY <1>7, <2>1, <2>2, <2>3 DEF Outside, PauseEnds, RefuseToStart, DamageRecord,
            DamageFile, RepairFile, RestoreVerifier, work
<1> QED BY <1>1, <1>2, <1>3, <1>4, <1>5, <1>6, <1>7 DEF Next

(* The incident's stations stay configured, in memory and on disk, so that *)
(* the terminal can always start again, although the operations that begin *)
(* incidents and the panel that changes stations run on two threads and    *)
(* either may fail half way.                                               *)
THEOREM TopologyStays == Spec => []TopologyHeld
<1>1. Init => Exclusive /\ Whole /\ Topology
  BY DEF Init, Exclusive, Whole, WholeOperations, Working, Blank, Parts, Topology,
    TopologyHeld, Fits
<1>2. TypeOK /\ Exclusive /\ Whole /\ Topology /\ [Next]_vars
        => Exclusive' /\ Whole' /\ Topology'
  BY ExclusiveKept, WholeKept, TopologyKept
<1>3. Topology => TopologyHeld
  BY DEF Topology
<1> QED BY <1>1, <1>2, <1>3, TerminalTypes, PTL DEF Spec

(* ----------------------------- the password ---------------------------- *)
(* The throttle in memory and its record both count every recorded wrong   *)
(* guess, and what is owed is on record, or the record is damaged.         *)
Delay ==
  /\ DelayServed
  /\ up => wrong <= throttle.failed
  /\ record # Damaged => wrong <= record.failed
  /\ owed /\ record # Damaged => record.waiting

LEMMA DelayKept ==
  ASSUME TypeOK, Delay, [Next]_vars
  PROVE  Delay'
<1> USE DEF TypeOK
<1>1. CASE UNCHANGED <<up, owed, throttle, record, wrong>>
  BY <1>1 DEF Delay, DelayServed
<1>2. CASE RightPassword
  <2>1. throttle'.failed = 0 /\ record'.failed = 0 /\ wrong' = 0 /\ ~owed'
    BY <1>2 DEF RightPassword, Cleared, NoAttempts
  <2> QED BY <2>1 DEF Delay, DelayServed
<1>3. CASE WrongPassword
  <2>1. up /\ up' = up /\ throttle.failed \in 0 .. Paused /\ wrong <= throttle.failed
    BY <1>3 DEF WrongPassword, Compares, MayCompare, Delay, Attempts
  <2>2. throttle' = AfterFailure /\ record' = AfterFailure
    BY <1>3 DEF WrongPassword
  <2>3. wrong' = IF wrong = Paused THEN Paused ELSE wrong + 1
    BY <1>3 DEF WrongPassword
  <2>4. AfterFailure.failed = IF throttle.failed = Paused THEN Paused ELSE throttle.failed + 1
    BY DEF AfterFailure
  <2>5. wrong' <= AfterFailure.failed /\ AfterFailure.failed <= Paused
    BY <2>1, <2>3, <2>4 DEF Paused
  <2>6. owed' => wrong' = Paused
    BY <1>3, Zenon DEF WrongPassword
  <2>7. wrong' = Paused => AfterFailure.failed = Paused
    BY <2>1, <2>4, <2>5 DEF Paused
  <2>8. AfterFailure.waiting <=> AfterFailure.failed = Paused
    BY DEF AfterFailure
  <2>9. owed' => throttle'.waiting /\ record'.waiting
    BY <2>2, <2>6, <2>7, <2>8
  <2> QED BY <2>2, <2>5, <2>9 DEF Delay, DelayServed
<1>4. CASE UnrecordedFailure
  <2>1. up /\ ~owed
    BY <1>4 DEF UnrecordedFailure, MayCompare, Delay, DelayServed
  <2>2. throttle.failed \in 0 .. Paused /\ wrong <= throttle.failed
    BY <2>1 DEF Delay, Attempts
  <2>3. AfterFailure.failed = IF throttle.failed = Paused THEN Paused ELSE throttle.failed + 1
    BY DEF AfterFailure
  <2>4. wrong <= AfterFailure.failed
    BY <2>2, <2>3 DEF Paused
  <2>5. throttle' = AfterFailure
    BY <1>4 DEF UnrecordedFailure
  <2>6. UNCHANGED <<owed, record, wrong>>
    BY <1>4 DEF UnrecordedFailure, files
  <2> QED BY <2>1, <2>4, <2>5, <2>6 DEF Delay, DelayServed
<1>5. CASE PauseEnds
  <2>1. ~owed' /\ up' = up /\ wrong' = wrong
    BY <1>5 DEF PauseEnds
  <2>2. throttle'.failed = throttle.failed
    BY <1>5 DEF PauseEnds, Attempts
  <2>3. record # Damaged => record'.failed = record.failed
    BY <1>5 DEF PauseEnds, Attempts
  <2>4. record = Damaged => record' = Damaged
    <3>1. record' \in Attempts \union {Damaged}
      BY AccessTypesKept DEF AccessTypes
    <3>2. record = Damaged => record'.failed = Damaged.failed
      BY <1>5 DEF PauseEnds, Damaged
    <3>3. \A a \in Attempts : a.failed # Damaged.failed
      BY DEF Attempts, Damaged, Paused
    <3> QED BY <3>1, <3>2, <3>3
  <2> QED BY <2>1, <2>2, <2>3, <2>4 DEF Delay, DelayServed
<1>6. CASE Stop
  <2>1. ~up' /\ UNCHANGED <<record, wrong, owed>>
    BY <1>6 DEF Stop, files
  <2> QED BY <2>1 DEF Delay, DelayServed
<1>7. CASE Start
  <2>1. UNCHANGED <<record, wrong, owed>> /\ throttle' = Loaded
    BY <1>7 DEF Start
  <2>2. CASE record = Damaged
    BY <2>1, <2>2 DEF Loaded, Delay, DelayServed, Paused
  <2>3. CASE record # Damaged
    BY <2>1, <2>3 DEF Loaded, Delay, DelayServed
  <2> QED BY <2>2, <2>3
<1>8. CASE DamageRecord
  <2>1. record' = Damaged /\ UNCHANGED <<up, owed, throttle, wrong>>
    BY <1>8 DEF DamageRecord, access
  <2> QED BY <2>1 DEF Delay, DelayServed
<1>9. \/ UNCHANGED <<up, owed, throttle, record, wrong>>
      \/ RightPassword \/ WrongPassword \/ UnrecordedFailure \/ PauseEnds \/ Stop \/ Start
      \/ DamageRecord
  BY DEF Next, Perform, Worker, OpMoves, OpQueues, OpSwallows, OpRaises, OpRefused,
    OpCommits, OpSaveFails, Undo, Deliver, Settings, WriteSettings, ApplySettings,
    ApplyFails, CloseSettings, Administrator, AskAccess, Cancel, BeginReplacing, ReplacePassword, NotReplaced,
    AuthorizationEnds, EnterAgain, Outside, RefuseToStart, DamageFile, RepairFile,
    RestoreVerifier, vars, files, access
<1> QED BY <1>1, <1>2, <1>3, <1>4, <1>5, <1>6, <1>7, <1>8, <1>9

(* A pause that was recorded is waited for, through restarts, unrecorded   *)
(* failures and a damaged record.                                          *)
THEOREM PausesAreServed == Spec => []DelayServed
<1>1. Init => Delay
  BY DEF Init, Delay, DelayServed, NoAttempts
<1>2. TypeOK /\ Delay /\ [Next]_vars => Delay'
  BY DelayKept
<1>3. Delay => DelayServed
  BY DEF Delay
<1> QED BY <1>1, <1>2, <1>3, TerminalTypes, PTL DEF Spec
=============================================================================
