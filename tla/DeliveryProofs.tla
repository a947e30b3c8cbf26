--------------------------- MODULE DeliveryProofs ---------------------------
(* Theorems about Delivery, for every value of its constants.              *)
EXTENDS Delivery, TLAPS

-----------------------------------------------------------------------------
(* Facts about documents.                                                  *)

LEMMA SetPhaseFacts ==
  ASSUME NEW j \in Document, NEW i, NEW p \in Phases
  PROVE  /\ SetPhase(j, i, p) \in Document
         /\ SetPhase(j, i, p).phase = [j.phase EXCEPT ![i] = p]
BY DEF SetPhase, Document

LEMMA RemoveFacts ==
  ASSUME NEW j \in Document, NEW i
  PROVE  /\ Remove(j, i) \in Document
         /\ Remove(j, i).phase = [j.phase EXCEPT ![i] = "absent"]
BY DEF Remove, Document, Phases

LEMMA ResolveFacts ==
  ASSUME NEW j \in Document, NEW r
  PROVE  /\ Resolve(j, r) \in Document
         /\ Resolve(j, r).phase = j.phase
<1>1. [k \in Ids |-> j.waits[k] /\ About(k) # r] \in [Ids -> BOOLEAN]
  BY Zenon DEF Document
<1>2. QED
  BY <1>1 DEF Resolve, Document

LEMMA AppliedFacts ==
  ASSUME journal \in Document, NEW i, NEW outcome, NEW sent
  PROVE  /\ Applied(i, outcome, sent) \in Document
         /\ Applied(i, outcome, sent).phase =
              [journal.phase EXCEPT ![i] = IF outcome = "ok" THEN "absent"
                                           ELSE AfterError(i, outcome, sent)]
<1>1. CASE outcome = "ok"
  BY <1>1, RemoveFacts, ResolveFacts DEF Applied, Delivered
<1>2. CASE outcome # "ok"
  <2>1. AfterError(i, outcome, sent) \in Phases
    BY DEF AfterError, Phases
  <2> DEFINE d == SetPhase(journal, i, AfterError(i, outcome, sent))
  <2>2. d \in Document /\ d.phase = [journal.phase EXCEPT ![i] = AfterError(i, outcome, sent)]
    BY <2>1, SetPhaseFacts
  <2>3. d.paused \in BOOLEAN /\ (d.paused \/ ~Permanent(outcome)) \in BOOLEAN
    BY <2>2 DEF Document
  <2>4. Applied(i, outcome, sent) = [d EXCEPT !.paused = d.paused \/ ~Permanent(outcome)]
    BY <1>2 DEF Applied, Delivered
  <2> HIDE DEF d
  <2>5. QED
    BY <1>2, <2>2, <2>3, <2>4 DEF Document
<1>3. QED
  BY <1>1, <1>2

LEMMA AppendedFacts ==
  ASSUME TypeOK, NEW n \in Intents, NEW i
  PROVE  /\ Appended(n, i) \in Document
         /\ Appended(n, i).phase = [journal.phase EXCEPT ![i] = "queued"]
<1> DEFINE w == n.method # "create" /\ n.about # None /\ journal.ref[n.about] = "local"
<1>1. journal \in Document /\ remote \in Systems
  BY DEF TypeOK
<1>2. [journal.phase EXCEPT ![i] = "queued"] \in [Ids -> Phases]
  BY <1>1 DEF Document, Phases
<1>3. [journal.waits EXCEPT ![i] = w] \in [Ids -> BOOLEAN]
  <2>1. w \in BOOLEAN
    OBVIOUS
  <2> HIDE DEF w
  <2>2. QED
    BY <1>1, <2>1, Zenon DEF Document
<1>4. [journal.ref EXCEPT ![n.target] = "local"] \in [Records -> {"none", "local", "remote"}]
  BY <1>1 DEF Document
<1>5. [journal.home EXCEPT ![n.target] = remote] \in [Records -> Systems]
  BY <1>1 DEF Document
<1>6. QED
  BY <1>1, <1>2, <1>3, <1>4, <1>5 DEF Appended, Document

LEMMA PauseFacts ==
  ASSUME NEW j \in Document, NEW b \in BOOLEAN
  PROVE  /\ [j EXCEPT !.paused = b] \in Document
         /\ [j EXCEPT !.paused = b].phase = j.phase
BY DEF Document

LEMMA PhasesFacts ==
  ASSUME NEW j \in Document, NEW f \in [Ids -> Phases]
  PROVE  /\ [j EXCEPT !.phase = f] \in Document
         /\ [j EXCEPT !.phase = f].phase = f
BY DEF Document

-----------------------------------------------------------------------------
(* Facts about operations, requests and results.                           *)

LEMMA QuietTypes == Idle \in Operation /\ Quiet \in Call /\ NoResult \in Report
<1>1. Idle \in Operation
  BY BoundsAssumption DEF Idle, Operation, Stages, Outcomes, Systems
<1>2. QED
  BY <1>1 DEF Call, Report

LEMMA OperationFields ==
  ASSUME op \in Operation
  PROVE  /\ op.kind \in {"prepare", "ack", "expire"} => op.id \in Ids
         /\ op.kind \in {"prepare", "ack"} => op.system \in Connectors
         /\ op.kind = "ack" => op.outcome \in Outcomes
         /\ op.sent \in BOOLEAN
<1>1. op.sent \in BOOLEAN
  BY Zenon DEF Operation
<1>2. QED
  BY <1>1 DEF Operation

LEMMA CallFields ==
  ASSUME http \in Call, http.stage # "none"
  PROVE  http.id \in Ids /\ http.system \in Connectors
BY DEF Call, Quiet

LEMMA ReportFields ==
  ASSUME result \in Report, result # NoResult
  PROVE  /\ result.id \in Ids /\ result.system \in Connectors
         /\ result.outcome \in Outcomes /\ result.sent \in BOOLEAN
<1>1. result \in [id : Ids, system : Connectors, outcome : Outcomes, sent : BOOLEAN]
  BY DEF Report
<1>2. result.sent \in BOOLEAN
  BY <1>1, Zenon
<1>3. QED
  BY <1>1, <1>2

LEMMA OperationStages ==
  ASSUME op \in Operation, NEW s \in Stages
  PROVE  [op EXCEPT !.stage = s] \in Operation
BY DEF Operation

LEMMA ExplicitOperation ==
  ASSUME NEW k \in {"queue", "prepare", "ack", "expire"}, NEW i \in 0 .. MaxItems,
         NEW c \in Systems, NEW o \in Outcomes \union {"none"}, NEW b \in BOOLEAN,
         k # "queue" => i \in Ids,
         k \in {"prepare", "ack"} => c \in Connectors,
         k = "ack" => o \in Outcomes
  PROVE  [kind |-> k, id |-> i, system |-> c, outcome |-> o, sent |-> b,
          stage |-> "running"] \in Operation
BY DEF Operation, Stages

LEMMA NewOperation ==
  /\ Working("queue", 0, Unbound) \in Operation
  /\ \A i \in Ids : Working("expire", i, Unbound) \in Operation
  /\ \A i \in Ids, c \in Connectors : Working("prepare", i, c) \in Operation
<1>1. 0 \in 0 .. MaxItems /\ Ids \subseteq 0 .. MaxItems
  BY BoundsAssumption DEF Ids
<1>2. Unbound \in Systems /\ Connectors \subseteq Systems
  BY DEF Systems
<1>3. "none" \in Outcomes \union {"none"} /\ FALSE \in BOOLEAN
  OBVIOUS
<1>4. Working("queue", 0, Unbound) \in Operation
  BY <1>1, <1>2, <1>3, ExplicitOperation DEF Working
<1>5. \A i \in Ids : Working("expire", i, Unbound) \in Operation
  BY <1>1, <1>2, <1>3, ExplicitOperation DEF Working
<1>6. \A i \in Ids, c \in Connectors : Working("prepare", i, c) \in Operation
  BY <1>1, <1>2, <1>3, ExplicitOperation DEF Working
<1>7. QED
  BY <1>4, <1>5, <1>6

LEMMA AckOperation ==
  ASSUME result \in Report, result # NoResult
  PROVE  [kind |-> "ack", id |-> result.id, system |-> result.system,
          outcome |-> result.outcome, sent |-> result.sent,
          stage |-> "running"] \in Operation
<1>1. /\ result.id \in 0 .. MaxItems /\ result.system \in Systems
      /\ result.outcome \in Outcomes \union {"none"} /\ result.sent \in BOOLEAN
  BY ReportFields, BoundsAssumption DEF Ids, Systems
<1>2. QED
  BY <1>1, ReportFields, ExplicitOperation

LEMMA CallStages ==
  ASSUME http \in Call, http.stage # "none", NEW s \in {"lookup", "written", "applied"}
  PROVE  [http EXCEPT !.stage = s] \in Call
BY DEF Call, Quiet

(* What an answer of the network thread leaves in the results queue.       *)
LEMMA AnswerType ==
  ASSUME http \in Call, http.stage # "none",
         NEW o \in Outcomes, NEW sent \in BOOLEAN, Answer(o, sent)
  PROVE  result' \in Report /\ http' \in Call
<1>1. http' \in Call
  BY QuietTypes DEF Answer
<1>2. QED
  BY <1>1, CallFields DEF Answer, Report

LEMMA EffectTypes ==
  ASSUME TypeOK, NEW i \in Ids, NEW c \in Connectors, Carry(i, c)
  PROVE  effects' \in [Ids -> Nat] /\ seen' \in SUBSET (Ids \X Connectors)
<1>1. effects \in [Ids -> Nat] /\ seen \in SUBSET (Ids \X Connectors)
  BY DEF TypeOK
<1>2. [effects EXCEPT ![i] = @ + 1] \in [Ids -> Nat]
  BY <1>1
<1>3. seen \union {<<i, c>>} \in SUBSET (Ids \X Connectors)
  BY <1>1
<1>4. QED
  BY <1>1, <1>2, <1>3 DEF Carry

LEMMA AstrayType ==
  ASSUME TypeOK, NEW i \in Ids PROVE Astray(i) \in [Ids -> Nat]
<1>1. stray \in [Ids -> Nat]
  BY DEF TypeOK
<1>2. QED
  BY <1>1 DEF Astray

-----------------------------------------------------------------------------
(* Type correctness.                                                       *)

LEMMA InitType == Init => TypeOK
<1> SUFFICES ASSUME Init PROVE TypeOK
  OBVIOUS
<1>1. Empty \in Document
  BY DEF Empty, Document, Phases, Systems
<1>2. /\ journal \in Document /\ prior \in Document
      /\ op \in Operation /\ http \in Call /\ result \in Report
  BY <1>1, QuietTypes DEF Init
<1>3. /\ minted \in 0 .. MaxItems /\ active \in 0 .. MaxItems
      /\ stops \in 0 .. MaxStops /\ switches \in 0 .. MaxSwitches
  BY BoundsAssumption DEF Init
<1>4. /\ intent \in [Ids -> Intents \union {NoIntent}]
      /\ binding \in [Ids -> Systems] /\ issuer \in [Records -> Systems]
      /\ asked \in [Lanes -> Values \union {None}]
      /\ up \in BOOLEAN /\ remote \in Systems
  <2>1. Unbound \in Systems
    BY DEF Systems
  <2>2. QED
    BY <2>1 DEF Init
<1>5. /\ effects \in [Ids -> Nat] /\ stray \in [Ids -> Nat] /\ reviews \in [Ids -> Nat]
      /\ overdue \in SUBSET Ids /\ settled \in SUBSET Ids
      /\ seen \in SUBSET (Ids \X Connectors)
  <2>1. 0 \in Nat
    OBVIOUS
  <2>2. QED
    BY <2>1 DEF Init
<1>6. QED
  BY <1>2, <1>3, <1>4, <1>5 DEF TypeOK

LEMMA CommitFacts ==
  ASSUME TypeOK, NEW d \in Document, Commit(d)
  PROVE  journal' = d /\ journal' \in Document /\ prior' \in Document
BY DEF Commit, TypeOK

(* The journal is the only part of the state an action of the local-save   *)
(* worker or of an administrator changes in an intricate way.             *)
LEMMA QueueUpdateType == TypeOK /\ QueueUpdate => TypeOK'
<1> SUFFICES ASSUME TypeOK, QueueUpdate PROVE TypeOK'
  OBVIOUS
<1>1. PICK n \in Intents :
        /\ intent' = [intent EXCEPT ![minted + 1] = n]
        /\ binding' = [binding EXCEPT ![minted + 1] = BindingFor(n)]
        /\ Commit(Appended(n, minted + 1))
        /\ Ask(n)
  BY DEF QueueUpdate
<1>2. minted' = minted + 1 /\ minted' \in 0 .. MaxItems
  BY BoundsAssumption DEF QueueUpdate, TypeOK
<1>3. journal' \in Document /\ prior' \in Document
  BY <1>1, AppendedFacts, CommitFacts
<1>4. n.about \in Records \union {None} /\ n.value \in Values \union {None}
  BY IntentAssumption DEF Intent
<1>5. BindingFor(n) \in Systems
  BY <1>4 DEF BindingFor, TypeOK, Document
<1>6. asked' \in [Lanes -> Values \union {None}]
  BY <1>1, <1>4 DEF Ask, TypeOK
<1>7. op' \in Operation
  BY OperationStages DEF QueueUpdate, TypeOK, Stages
<1>8. intent' \in [Ids -> Intents \union {NoIntent}] /\ binding' \in [Ids -> Systems]
  BY <1>1, <1>5 DEF TypeOK
<1>9. QED
  BY <1>2, <1>3, <1>6, <1>7, <1>8 DEF QueueUpdate, TypeOK, network, service

LEMMA WorkflowType ==
  TypeOK /\ (BeginOperation \/ QueueAgain \/ EndOperation \/ OperationFails) => TypeOK'
<1> SUFFICES ASSUME TypeOK,
                    BeginOperation \/ QueueAgain \/ EndOperation \/ OperationFails
             PROVE  TypeOK'
  OBVIOUS
<1>1. CASE BeginOperation
  <2>1. op' \in Operation
    BY <1>1, NewOperation DEF BeginOperation
  <2>2. QED
    BY <1>1, <2>1 DEF BeginOperation, TypeOK, network, service, ghosts
<1>2. CASE QueueAgain
  <2>1. PICK n \in Intents : Ask(n)
    BY <1>2 DEF QueueAgain
  <2>2. n.value \in Values \union {None}
    BY IntentAssumption DEF Intent
  <2>3. asked' \in [Lanes -> Values \union {None}]
    BY <2>1, <2>2 DEF Ask, TypeOK
  <2>4. op' \in Operation
    BY <1>2, OperationStages DEF QueueAgain, TypeOK, Stages
  <2>5. QED
    BY <1>2, <2>3, <2>4 DEF QueueAgain, TypeOK, network, service
<1>3. CASE EndOperation
  BY <1>3, QuietTypes DEF EndOperation, TypeOK, network, service, ghosts
<1>4. CASE OperationFails
  <2>1. op' \in Operation
    BY <1>4, OperationStages DEF OperationFails, TypeOK, Stages
  <2>2. QED
    BY <1>4, <2>1 DEF OperationFails, TypeOK, network, service, ghosts
<1>5. QED
  BY <1>1, <1>2, <1>3, <1>4

LEMMA PollType == TypeOK /\ Poll => TypeOK'
<1> SUFFICES ASSUME TypeOK, Poll PROVE TypeOK'
  OBVIOUS
<1>1. CASE PollResult
  <2>1. op' \in Operation
    BY <1>1, AckOperation DEF PollResult, TypeOK
  <2>2. QED
    BY <1>1, <2>1, QuietTypes DEF PollResult, TypeOK, service, ghosts
<1>2. CASE PollExpired
  <2>1. op' \in Operation
    BY <1>2, NewOperation DEF PollExpired
  <2>2. QED
    BY <1>2, <2>1 DEF PollExpired, TypeOK, network, service, ghosts
<1>3. CASE PollStart
  <2>1. remote \in Connectors
    BY <1>3 DEF PollStart, TypeOK, Systems
  <2>2. op' \in Operation /\ active' \in 0 .. MaxItems
    BY <1>3, <2>1, NewOperation DEF PollStart, Ids
  <2>3. QED
    BY <1>3, <2>2 DEF PollStart, TypeOK, service, ghosts
<1>4. QED
  BY <1>1, <1>2, <1>3 DEF Poll

LEMMA SavesType == TypeOK /\ Saves => TypeOK'
<1> SUFFICES ASSUME TypeOK, Saves PROVE TypeOK'
  OBVIOUS
<1>1. journal \in Document /\ op \in Operation /\ "done" \in Stages
  BY DEF TypeOK, Stages
<1>2. [op EXCEPT !.stage = "done"] \in Operation
  BY <1>1, OperationStages
<1>3. CASE ExpireSaved
  <2>1. Expired(op.id) \in Document
    BY <1>1, SetPhaseFacts DEF Expired, Phases
  <2>2. journal' \in Document /\ prior' \in Document
    BY <1>3, <2>1, CommitFacts DEF ExpireSaved
  <2>3. QED
    BY <1>2, <1>3, <2>2 DEF ExpireSaved, TypeOK, network, service, ghosts
<1>4. CASE PrepareSaved
  <2>1. Prepared(op.id) \in Document
    BY <1>1, SetPhaseFacts DEF Prepared, Phases
  <2>2. journal' \in Document /\ prior' \in Document
    BY <1>4, <2>1, CommitFacts DEF PrepareSaved
  <2>3. QED
    BY <1>2, <1>4, <2>2 DEF PrepareSaved, TypeOK, network, service, ghosts
<1>5. CASE AckSaved
  <2>1. Applied(op.id, op.outcome, op.sent) \in Document
    BY <1>1, AppliedFacts
  <2>2. journal' \in Document /\ prior' \in Document
    BY <1>5, <2>1, CommitFacts DEF AckSaved
  <2>3. op.system \in Systems
    BY <1>1 DEF Operation
  <2>4. issuer' \in [Records -> Systems]
    BY <1>5, <2>3 DEF AckSaved, Issued, TypeOK
  <2>5. QED
    BY <1>2, <1>5, <2>2, <2>4 DEF AckSaved, TypeOK, network, service
<1>6. QED
  BY <1>3, <1>4, <1>5 DEF Saves

LEMMA CallbacksType == TypeOK /\ (Callbacks \/ PrepareBreaks) => TypeOK'
<1> SUFFICES ASSUME TypeOK, Callbacks \/ PrepareBreaks PROVE TypeOK'
  OBVIOUS
<1>1. op \in Operation
  BY DEF TypeOK
<1>2. CASE PrepareBreaks
  <2>1. op' \in Operation
    BY <1>1, <1>2, OperationStages DEF PrepareBreaks, Stages
  <2>2. QED
    BY <1>2, <2>1 DEF PrepareBreaks, TypeOK, network, service, ghosts
<1>3. CASE Dispatch
  <2>1. http' \in Call
    BY <1>1, <1>3, OperationFields DEF Dispatch, Call
  <2>2. QED
    BY <1>3, <2>1, QuietTypes DEF Dispatch, TypeOK, service, ghosts
<1>4. CASE DispatchFails
  <2>1. result' \in Report
    BY <1>1, <1>4, OperationFields DEF DispatchFails, Report, Outcomes
  <2>2. QED
    BY <1>4, <2>1, QuietTypes DEF DispatchFails, TypeOK, service, ghosts
<1>5. CASE PrepareGivesUp
  BY <1>5, QuietTypes, BoundsAssumption DEF PrepareGivesUp, TypeOK, service, ghosts
<1>6. CASE AckDone
  BY <1>6, QuietTypes, BoundsAssumption DEF AckDone, TypeOK, service, ghosts
<1>7. CASE AckFailed
  <2>1. result' \in Report
    BY <1>1, <1>7, OperationFields DEF AckFailed, Report
  <2>2. QED
    BY <1>7, <2>1, QuietTypes DEF AckFailed, TypeOK, service, ghosts
<1>8. QED
  BY <1>2, <1>3, <1>4, <1>5, <1>6, <1>7 DEF Callbacks

LEMMA NetworkType == TypeOK /\ (Network \/ StrayArrives) => TypeOK'
<1> SUFFICES ASSUME TypeOK, Network \/ StrayArrives PROVE TypeOK'
  OBVIOUS
<1>1. http \in Call
  BY DEF TypeOK
<1>2. CASE SendRequest
  <2>1. http' \in Call
    BY <1>1, <1>2, CallStages DEF SendRequest
  <2>2. QED
    BY <1>2, <2>1 DEF SendRequest, TypeOK, service, ghosts
<1>3. CASE Serve
  <2>1. http' \in Call
    BY <1>1, <1>3, CallStages DEF Serve
  <2>2. http.id \in Ids /\ http.system \in Connectors
    BY <1>1, <1>3, CallFields DEF Serve
  <2>3. effects' \in [Ids -> Nat] /\ seen' \in SUBSET (Ids \X Connectors)
    BY <1>3, <2>2, EffectTypes DEF Serve
  <2>4. QED
    BY <1>3, <2>1, <2>3 DEF Serve, TypeOK, ghosts
<1>4. CASE StrayArrives
  <2>1. PICK i \in Ids :
          /\ stray[i] > 0
          /\ \E c \in IF binding[i] = Unbound THEN Connectors ELSE {binding[i]} : Carry(i, c)
          /\ stray' = [stray EXCEPT ![i] = @ - 1]
    BY <1>4 DEF StrayArrives
  <2>2. PICK c \in IF binding[i] = Unbound THEN Connectors ELSE {binding[i]} : Carry(i, c)
    BY <2>1
  <2>3. c \in Connectors
    BY <2>2 DEF TypeOK, Systems
  <2>4. effects' \in [Ids -> Nat] /\ seen' \in SUBSET (Ids \X Connectors)
    BY <2>2, <2>3, EffectTypes
  <2>5. stray' \in [Ids -> Nat]
    BY <2>1 DEF TypeOK
  <2>6. QED
    BY <1>4, <2>4, <2>5 DEF StrayArrives, TypeOK, network, ghosts
<1>5. CASE Respond
  <2>1. PICK o \in {"ok", "unusable"} : Answer(o, TRUE)
    BY <1>5 DEF Respond
  <2>2. result' \in Report /\ http' \in Call
    BY <1>1, <1>5, <2>1, AnswerType DEF Respond, Outcomes
  <2>3. QED
    BY <1>5, <2>2 DEF Respond, TypeOK, service, ghosts
<1>6. CASE Reject
  <2>1. result' \in Report /\ http' \in Call
    BY <1>1, <1>6, AnswerType DEF Reject, Outcomes
  <2>2. QED
    BY <1>6, <2>1 DEF Reject, TypeOK, service, ghosts
<1>7. CASE Refuse
  <2>1. result' \in Report /\ http' \in Call
    BY <1>1, <1>7, AnswerType DEF Refuse, Outcomes
  <2>2. QED
    BY <1>7, <2>1 DEF Refuse, TypeOK, service, ghosts
<1>8. CASE LoseAnswer
  <2>1. result' \in Report /\ http' \in Call
    BY <1>1, <1>8, AnswerType DEF LoseAnswer, Outcomes
  <2>2. stray' \in [Ids -> Nat]
    BY <1>1, <1>8, CallFields, AstrayType DEF LoseAnswer, TypeOK
  <2>3. QED
    BY <1>8, <2>1, <2>2 DEF LoseAnswer, TypeOK, ghosts
<1>9. QED
  BY <1>2, <1>3, <1>4, <1>5, <1>6, <1>7, <1>8 DEF Network

LEMMA ReviewType == TypeOK /\ (\E i \in Ids : Review(i)) => TypeOK'
<1> SUFFICES ASSUME TypeOK, NEW i \in Ids, Review(i) PROVE TypeOK'
  OBVIOUS
<1>1. journal \in Document
  BY DEF TypeOK
<1>2. CASE RetryReviewed(i)
  <2>1. SetPhase(journal, i, "queued") \in Document
    BY <1>1, SetPhaseFacts DEF Phases
  <2>2. journal' \in Document /\ prior' \in Document
    BY <1>2, <2>1, CommitFacts DEF RetryReviewed
  <2>3. reviews' \in [Ids -> Nat]
    BY <1>2 DEF RetryReviewed, TypeOK
  <2>4. QED
    BY <1>2, <2>2, <2>3 DEF RetryReviewed, TypeOK, network, service
<1>3. CASE DismissReviewed(i)
  <2>1. journal' \in Document /\ prior' \in Document
    BY <1>1, <1>3, RemoveFacts, CommitFacts DEF DismissReviewed
  <2>2. QED
    BY <1>3, <2>1 DEF DismissReviewed, TypeOK, network, service
<1>4. CASE ConfirmReviewedAsset(i)
  <2>1. journal' \in Document /\ prior' \in Document
    BY <1>1, <1>4, AppliedFacts, CommitFacts DEF ConfirmReviewedAsset
  <2>2. QED
    BY <1>4, <2>1 DEF ConfirmReviewedAsset, TypeOK, network, service
<1>5. CASE LinkReviewedRecord(i)
  <2>1. journal' \in Document /\ prior' \in Document
    BY <1>1, <1>5, AppliedFacts, CommitFacts DEF LinkReviewedRecord
  <2>2. issuer' \in [Records -> Systems]
    BY <1>5 DEF LinkReviewedRecord, Issued, TypeOK
  <2>3. QED
    BY <1>5, <2>1, <2>2 DEF LinkReviewedRecord, TypeOK, network, service
<1>6. QED
  BY <1>2, <1>3, <1>4, <1>5 DEF Review

LEMMA ProcessType ==
  TypeOK /\ (SelectConnector \/ PauseEnds \/ WindowPasses \/ RenameSettles
             \/ Stop \/ Restart)
  => TypeOK'
<1> SUFFICES ASSUME TypeOK, SelectConnector \/ PauseEnds \/ WindowPasses
                            \/ RenameSettles \/ Stop \/ Restart
             PROVE  TypeOK'
  OBVIOUS
<1>1. journal \in Document /\ prior \in Document /\ http \in Call
  BY DEF TypeOK
<1>2. CASE SelectConnector
  BY <1>2, BoundsAssumption DEF SelectConnector, TypeOK, network, service, ghosts
<1>3. CASE PauseEnds
  <2>1. journal' \in Document /\ prior' \in Document
    BY <1>1, <1>3, PauseFacts DEF PauseEnds
  <2>2. QED
    BY <1>3, <2>1 DEF PauseEnds, TypeOK, network, service, ghosts
<1>4. CASE WindowPasses
  BY <1>4 DEF WindowPasses, TypeOK, network, service, ghosts
<1>5. CASE RenameSettles
  BY <1>5 DEF RenameSettles, TypeOK, network, service, ghosts
<1>6. CASE Stop
  <2>1. stray' \in [Ids -> Nat]
    BY <1>1, <1>6, CallFields, AstrayType DEF Stop, TypeOK
  <2>2. stops' \in 0 .. MaxStops
    BY <1>6, BoundsAssumption DEF Stop, TypeOK
  <2>3. journal' \in Document /\ prior' \in Document
    BY <1>1, <1>6 DEF Stop
  <2>4. active' \in 0 .. MaxItems
    BY <1>6, BoundsAssumption DEF Stop
  <2>5. QED
    BY <1>6, <2>1, <2>2, <2>3, <2>4, QuietTypes DEF Stop, TypeOK, ghosts
<1>7. CASE Restart
  <2>1. [i \in Ids |-> RecoveredPhase(i, journal.phase[i])] \in [Ids -> Phases]
    BY <1>1 DEF RecoveredPhase, Document, Phases
  <2>2. journal' \in Document /\ prior' \in Document
    BY <1>1, <1>7, <2>1, PhasesFacts, CommitFacts DEF Restart
  <2>3. QED
    BY <1>7, <2>2 DEF Restart, TypeOK, network, service, ghosts
<1>8. QED
  BY <1>2, <1>3, <1>4, <1>5, <1>6, <1>7

(* Every step keeps every variable in its type.                            *)
LEMMA NextType == TypeOK /\ [Next]_vars => TypeOK'
<1> SUFFICES ASSUME TypeOK, [Next]_vars PROVE TypeOK'
  OBVIOUS
<1>1. CASE UNCHANGED vars
  BY <1>1 DEF vars, TypeOK
<1>2. CASE Next
  BY <1>2, QueueUpdateType, WorkflowType, PollType, SavesType, CallbacksType,
     NetworkType, ReviewType, ProcessType DEF Next, Workflow
<1>3. QED
  BY <1>1, <1>2

(* Every value the coordinator, its threads, its restarts and the reviews  *)
(* leave in the state has its type.                                        *)
THEOREM TypeCorrect == Spec => []TypeOK
BY InitType, NextType, PTL DEF Spec
-----------------------------------------------------------------------------
(* The delivery slot.                                                      *)

(* What the phase of the active entry can be at each station of its way    *)
(* through the three threads. A result whose entry is still queued stems   *)
(* from a preparation that broke before its save.                          *)
Stations ==
  /\ op.kind = "prepare" =>
       Phase(op.id) = IF op.stage = "done" THEN "sending" ELSE "queued"
  /\ http.stage # "none" => Phase(http.id) = "sending"
  /\ result.outcome # "none" => Phase(result.id) \in {"queued", "sending"}
  /\ op.kind = "ack" /\ op.stage # "done" => Phase(op.id) \in {"queued", "sending"}
  /\ op.kind = "ack" /\ op.stage = "done" => Phase(op.id) # "sending"
  /\ op.kind = "expire" => active = 0
  /\ op.kind = "expire" /\ op.stage = "running" => Phase(op.id) = "queued"

(* Only the active entry is in flight, and nothing works while the process *)
(* is down.                                                                *)
InFlight ==
  /\ up => \A i \in Ids : Phase(i) = "sending" => i = active
  /\ ~up => op.kind = "idle" /\ active = 0 /\ http.stage = "none" /\ result.outcome = "none"

(* Each document a power loss can leave behind has at most one entry in    *)
(* flight, and none that was not recorded yet.                             *)
Documented ==
  \A d \in {journal, prior} :
    /\ \A i, j \in Ids : d.phase[i] = "sending" /\ d.phase[j] = "sending" => i = j
    /\ \A i \in Ids : i > minted => d.phase[i] = "absent"

SlotInv == TypeOK /\ SlotOwned /\ Stations /\ InFlight /\ Documented

(* Committing a document whose phases differ at entry k only.              *)
LEMMA DocumentedCommit ==
  ASSUME TypeOK, Documented, minted' \in Nat, minted <= minted',
         NEW d \in Document, NEW k \in Ids, NEW p \in Phases,
         d.phase = [journal.phase EXCEPT ![k] = p], Commit(d),
         p = "sending" => \A i \in Ids : Phase(i) = "sending" => i = k,
         p # "absent" => k <= minted'
  PROVE  /\ Documented'
         /\ \A i \in Ids : Phase(i)' = IF i = k THEN p ELSE Phase(i)
<1>1. journal' = d /\ prior' \in {journal, d}
  BY DEF Commit
<1>2. \A i \in Ids : d.phase[i] = IF i = k THEN p ELSE journal.phase[i]
  BY DEF TypeOK, Document
<1>3. \A i, j \in Ids : d.phase[i] = "sending" /\ d.phase[j] = "sending" => i = j
  BY <1>2 DEF Documented, Phase
<1>4. \A i \in Ids : i > minted' => d.phase[i] = "absent" /\ journal.phase[i] = "absent"
  BY <1>2 DEF Documented, Ids, TypeOK
<1>5. \A i, j \in Ids : journal.phase[i] = "sending" /\ journal.phase[j] = "sending" => i = j
  BY DEF Documented
<1>6. Documented'
  BY <1>1, <1>3, <1>4, <1>5 DEF Documented
<1>7. QED
  BY <1>1, <1>2, <1>6 DEF Phase

LEMMA DocumentedKept ==
  ASSUME Documented, UNCHANGED <<journal, prior, minted>>
  PROVE  Documented' /\ \A i : Phase(i)' = Phase(i)
BY DEF Documented, Phase

LEMMA InitSlot == Init => SlotInv
<1> SUFFICES ASSUME Init PROVE SlotInv
  OBVIOUS
<1>1. TypeOK
  BY InitType
<1>2. \A i \in Ids : journal.phase[i] = "absent" /\ prior.phase[i] = "absent"
  BY DEF Init, Empty
<1>3. SlotOwned
  BY DEF Init, SlotOwned, Idle, Quiet, NoResult
<1>4. Stations
  BY DEF Init, Stations, Idle, Quiet, NoResult
<1>5. InFlight /\ Documented
  BY <1>2 DEF Init, InFlight, Documented, Phase
<1>6. QED
  BY <1>1, <1>3, <1>4, <1>5 DEF SlotInv

(* An operator's operation neither touches the slot nor an entry in it.    *)
LEMMA WorkflowSlot ==
  SlotInv /\ (BeginOperation \/ QueueUpdate \/ QueueAgain \/ EndOperation \/ OperationFails)
  => SlotOwned' /\ Stations' /\ InFlight' /\ Documented'
<1> SUFFICES ASSUME SlotInv,
                    BeginOperation \/ QueueUpdate \/ QueueAgain \/ EndOperation
                      \/ OperationFails
             PROVE  SlotOwned' /\ Stations' /\ InFlight' /\ Documented'
  OBVIOUS
<1> USE DEF SlotInv
<1>1. op \in Operation /\ http \in Call /\ result \in Report
  BY DEF TypeOK
<1>2. CASE BeginOperation \/ QueueAgain \/ EndOperation \/ OperationFails
  <2>1. Documented' /\ \A i : Phase(i)' = Phase(i)
    BY <1>2, DocumentedKept
       DEF BeginOperation, QueueAgain, EndOperation, OperationFails
  <2>2. UNCHANGED <<active, http, result, up>>
    BY <1>2 DEF BeginOperation, QueueAgain, EndOperation, OperationFails, network
  <2>3. CASE BeginOperation
    BY <2>1, <2>2, <2>3
       DEF BeginOperation, Working, Idle, SlotOwned, Stations, InFlight
  <2>4. CASE QueueAgain
    BY <2>1, <2>2, <2>4, <1>1
       DEF QueueAgain, SlotOwned, Stations, InFlight, Operation
  <2>5. CASE EndOperation
    BY <2>1, <2>2, <2>5 DEF EndOperation, Idle, SlotOwned, Stations, InFlight
  <2>6. CASE OperationFails
    <3>1. op'.kind = op.kind /\ op'.id = op.id /\ op.stage = "running" /\ op'.stage = "failed"
      BY <2>6, <1>1 DEF OperationFails, Operation
    <3>2. QED
      BY <2>1, <2>2, <3>1 DEF SlotOwned, Stations, InFlight
  <2>7. QED
    BY <1>2, <2>3, <2>4, <2>5, <2>6
<1>3. CASE QueueUpdate
  <2>1. PICK n \in Intents : Commit(Appended(n, minted + 1))
    BY <1>3 DEF QueueUpdate
  <2>2. minted + 1 \in Ids /\ minted' = minted + 1 /\ minted \in Nat
    BY <1>3, BoundsAssumption DEF QueueUpdate, TypeOK, Ids
  <2>3. /\ Documented'
        /\ \A i \in Ids : Phase(i)' = IF i = minted + 1 THEN "queued" ELSE Phase(i)
    <3>1. /\ Appended(n, minted + 1) \in Document
          /\ Appended(n, minted + 1).phase = [journal.phase EXCEPT ![minted + 1] = "queued"]
      BY AppendedFacts
    <3>2. minted' \in Nat /\ minted <= minted' /\ minted + 1 <= minted' /\ "queued" \in Phases
      BY <2>2 DEF Phases
    <3>3. QED
      BY <2>1, <2>2, <3>1, <3>2, DocumentedCommit
  <2>4. Phase(minted + 1) = "absent"
    BY <2>2 DEF Documented, Phase
  <2>5. op'.kind = "queue" /\ op.kind = "queue" /\ op.stage = "running"
    BY <1>1, <1>3 DEF QueueUpdate, Operation
  <2>6. UNCHANGED <<active, http, result, up>>
    BY <1>3 DEF QueueUpdate, network
  <2>7. SlotOwned'
    BY <2>5, <2>6 DEF SlotOwned
  <2>8. http.stage # "none" => http.id \in Ids
    BY <1>1, CallFields
  <2>9. result.outcome # "none" => result.id \in Ids
    BY <1>1, ReportFields DEF NoResult
  <2>10. Stations'
    BY <2>3, <2>4, <2>5, <2>6, <2>8, <2>9 DEF Stations
  <2>11. InFlight'
    BY <2>3, <2>5, <2>6 DEF InFlight
  <2>12. QED
    BY <2>3, <2>7, <2>10, <2>11
<1>4. QED
  BY <1>2, <1>3
LEMMA PollSlot == SlotInv /\ Poll => SlotOwned' /\ Stations' /\ InFlight' /\ Documented'
<1> SUFFICES ASSUME SlotInv, Poll PROVE SlotOwned' /\ Stations' /\ InFlight' /\ Documented'
  OBVIOUS
<1> USE DEF SlotInv
<1>1. Documented' /\ \A i : Phase(i)' = Phase(i)
  BY DocumentedKept DEF Poll, PollResult, PollExpired, PollStart
<1>2. CanPoll /\ op = Idle /\ UNCHANGED <<http, up>>
  BY DEF Poll, PollResult, PollExpired, PollStart, CanPoll, network
<1>3. CASE PollResult
  <2>1. result.outcome # "none" /\ result.outcome \in Outcomes
    BY <1>3, ReportFields DEF PollResult, Outcomes, TypeOK
  <2>2. QED
    BY <1>1, <1>2, <1>3, <2>1
       DEF PollResult, SlotOwned, Stations, InFlight, NoResult
<1>4. CASE PollExpired
  <2>1. PICK i \in Ids : FirstOverdue(i) /\ op' = Working("expire", i, Unbound)
    BY <1>4 DEF PollExpired
  <2>2. active = 0 /\ Phase(i) = "queued" /\ UNCHANGED <<active, result>>
    BY <1>4, <2>1 DEF PollExpired, FirstOverdue, Overdue, network
  <2>3. QED
    BY <1>1, <1>2, <2>1, <2>2 DEF Working, SlotOwned, Stations, InFlight, Idle, CanPoll
<1>5. CASE PollStart
  <2>1. PICK i \in Ids :
          Ready(i) /\ active' = i /\ op' = Working("prepare", i, remote)
    BY <1>5 DEF PollStart
  <2>2. active = 0 /\ result' = result /\ Phase(i) = "queued" /\ i # 0
    BY <1>5, <2>1 DEF PollStart, Ready, Ids
  <2>3. \A k \in Ids : Phase(k) # "sending"
    BY <1>2, <2>2 DEF InFlight, CanPoll, Ids
  <2>4. QED
    BY <1>1, <1>2, <2>1, <2>2, <2>3
       DEF Working, SlotOwned, Stations, InFlight, Idle, CanPoll
<1>6. QED
  BY <1>3, <1>4, <1>5 DEF Poll

LEMMA SavesSlot == SlotInv /\ Saves => SlotOwned' /\ Stations' /\ InFlight' /\ Documented'
<1> SUFFICES ASSUME SlotInv, Saves PROVE SlotOwned' /\ Stations' /\ InFlight' /\ Documented'
  OBVIOUS
<1> USE DEF SlotInv
<1>1. op \in Operation /\ http \in Call /\ result \in Report /\ journal \in Document
  BY DEF TypeOK
<1>2. /\ op.kind \in {"expire", "prepare", "ack"} /\ op.stage = "running"
      /\ op'.kind = op.kind /\ op'.id = op.id /\ op'.stage = "done"
      /\ UNCHANGED <<active, http, result, up, minted>>
  BY <1>1 DEF Saves, ExpireSaved, PrepareSaved, AckSaved, Operation, network
<1>3. op.id \in Ids /\ op.kind # "idle" /\ up
  BY <1>1, <1>2, OperationFields DEF InFlight
<1>4. SlotOwned'
  BY <1>2 DEF SlotOwned
<1>5. minted \in Nat /\ op.id <= minted
  <2>1. Phase(op.id) # "absent"
    BY <1>2, <1>3 DEF Stations
  <2>2. QED
    BY <1>3, <2>1, BoundsAssumption DEF Documented, Phase, TypeOK, Ids
<1>6. CASE PrepareSaved
  <2>1. op.kind = "prepare" /\ op.id = active /\ Commit(Prepared(op.id))
    BY <1>6 DEF PrepareSaved, SlotOwned
  <2>2. /\ Prepared(op.id) \in Document
        /\ Prepared(op.id).phase = [journal.phase EXCEPT ![op.id] = "sending"]
    BY <1>1, SetPhaseFacts DEF Prepared, Phases
  <2>3. "sending" \in Phases /\ \A i \in Ids : Phase(i) = "sending" => i = op.id
    BY <1>3, <2>1 DEF InFlight, Phases
  <2>4. /\ Documented'
        /\ \A i \in Ids : Phase(i)' = IF i = op.id THEN "sending" ELSE Phase(i)
    BY <1>2, <1>3, <1>5, <2>1, <2>2, <2>3, DocumentedCommit
  <2>5. http.stage = "none" /\ result.outcome = "none"
    BY <2>1 DEF SlotOwned
  <2>6. QED
    BY <1>2, <1>3, <1>4, <2>1, <2>3, <2>4, <2>5 DEF Stations, InFlight
<1>7. CASE ExpireSaved
  <2>1. op.kind = "expire" /\ active = 0 /\ Commit(Expired(op.id))
    BY <1>7 DEF ExpireSaved, Stations
  <2>2. /\ Expired(op.id) \in Document
        /\ Expired(op.id).phase = [journal.phase EXCEPT ![op.id] = "attention"]
    BY <1>1, SetPhaseFacts DEF Expired, Phases
  <2>3. "attention" \in Phases
    BY DEF Phases
  <2>4. /\ Documented'
        /\ \A i \in Ids : Phase(i)' = IF i = op.id THEN "attention" ELSE Phase(i)
    BY <1>2, <1>3, <1>5, <2>1, <2>2, <2>3, DocumentedCommit
  <2>5. http.stage = "none" /\ result.outcome = "none"
    BY <2>1 DEF SlotOwned
  <2>6. QED
    BY <1>2, <1>3, <1>4, <2>1, <2>4, <2>5 DEF Stations, InFlight
<1>8. CASE AckSaved
  <2> DEFINE d == Applied(op.id, op.outcome, op.sent)
             p == IF op.outcome = "ok" THEN "absent"
                  ELSE AfterError(op.id, op.outcome, op.sent)
  <2>1. op.kind = "ack" /\ op.id = active /\ Commit(d)
    BY <1>8 DEF AckSaved, SlotOwned
  <2>2. d \in Document /\ d.phase = [journal.phase EXCEPT ![op.id] = p]
    BY <1>1, AppliedFacts
  <2>3. p \in Phases /\ p # "sending"
    BY DEF AfterError, Phases
  <2> HIDE DEF d, p
  <2>4. Documented' /\ \A i \in Ids : Phase(i)' = IF i = op.id THEN p ELSE Phase(i)
    BY <1>2, <1>3, <1>5, <2>1, <2>2, <2>3, DocumentedCommit
  <2>5. http.stage = "none" /\ result.outcome = "none"
    BY <2>1 DEF SlotOwned
  <2>6. QED
    BY <1>2, <1>3, <1>4, <2>1, <2>3, <2>4, <2>5 DEF Stations, InFlight
<1>9. QED
  BY <1>6, <1>7, <1>8 DEF Saves

(* The callbacks and the network thread hand the slot on.                  *)
LEMMA HandOverSlot ==
  SlotInv /\ (Callbacks \/ PrepareBreaks \/ Network \/ StrayArrives)
  => SlotOwned' /\ Stations' /\ InFlight' /\ Documented'
<1> SUFFICES ASSUME SlotInv, Callbacks \/ PrepareBreaks \/ Network \/ StrayArrives
             PROVE  SlotOwned' /\ Stations' /\ InFlight' /\ Documented'
  OBVIOUS
<1> USE DEF SlotInv
<1>1. op \in Operation /\ http \in Call /\ result \in Report
  BY DEF TypeOK
<1>2. Documented' /\ (\A i : Phase(i)' = Phase(i)) /\ up' = up
  BY DocumentedKept
     DEF Callbacks, Dispatch, DispatchFails, PrepareGivesUp, AckDone, AckFailed,
         PrepareBreaks, Network, SendRequest, Serve, Respond, Reject, Refuse,
         LoseAnswer, StrayArrives
<1>3. CASE Dispatch
  BY <1>2, <1>3 DEF Dispatch, Idle, SlotOwned, Stations, InFlight
<1>4. CASE DispatchFails
  <2>1. PICK o \in {"rejected", "refused"} :
          result' = [id |-> op.id, system |-> op.system, outcome |-> o, sent |-> FALSE]
    BY <1>4 DEF DispatchFails
  <2>2. QED
    BY <1>2, <1>4, <2>1 DEF DispatchFails, Idle, SlotOwned, Stations, InFlight
<1>5. CASE PrepareGivesUp
  BY <1>2, <1>5 DEF PrepareGivesUp, Idle, SlotOwned, Stations, InFlight
<1>6. CASE AckDone
  BY <1>2, <1>6 DEF AckDone, Idle, SlotOwned, Stations, InFlight
<1>7. CASE AckFailed
  <2>1. op.outcome # "none"
    BY <1>1, <1>7, OperationFields DEF AckFailed, Outcomes
  <2>2. QED
    BY <1>2, <1>7, <2>1 DEF AckFailed, Idle, SlotOwned, Stations, InFlight
<1>8. CASE PrepareBreaks
  <2>1. /\ op'.kind = op.kind /\ op'.id = op.id /\ op.stage = "running"
        /\ op'.stage = "broken" /\ op.kind = "prepare"
        /\ UNCHANGED <<active, http, result>>
    BY <1>1, <1>8 DEF PrepareBreaks, Operation, network
  <2>2. QED
    BY <1>2, <2>1 DEF SlotOwned, Stations, InFlight
<1>9. CASE StrayArrives
  <2>1. UNCHANGED <<op, active, http, result>>
    BY <1>9 DEF StrayArrives, network
  <2>2. QED
    BY <1>2, <2>1 DEF SlotOwned, Stations, InFlight
<1>10. CASE SendRequest \/ Serve
  <2>1. /\ http.stage # "none" /\ http'.stage # "none" /\ http'.id = http.id
        /\ UNCHANGED <<op, active, result>>
    BY <1>1, <1>10 DEF SendRequest, Serve, Call, Quiet
  <2>2. QED
    BY <1>2, <2>1 DEF SlotOwned, Stations, InFlight
<1>11. CASE Respond \/ Reject \/ Refuse \/ LoseAnswer
  <2>1. /\ http.stage # "none" /\ http' = Quiet /\ result'.id = http.id
        /\ result'.outcome # "none" /\ UNCHANGED <<op, active>>
    BY <1>11 DEF Respond, Reject, Refuse, LoseAnswer, Answer
  <2>2. QED
    BY <1>2, <2>1 DEF Quiet, SlotOwned, Stations, InFlight
<1>12. QED
  BY <1>3, <1>4, <1>5, <1>6, <1>7, <1>8, <1>9, <1>10, <1>11 DEF Callbacks, Network
(* A review touches an entry that is held, which the active one never is.  *)
LEMMA ReviewSlot ==
  SlotInv /\ (\E i \in Ids : Review(i)) => SlotOwned' /\ Stations' /\ InFlight' /\ Documented'
<1> SUFFICES ASSUME SlotInv, NEW i \in Ids, Review(i)
             PROVE  SlotOwned' /\ Stations' /\ InFlight' /\ Documented'
  OBVIOUS
<1> USE DEF SlotInv
<1>1. journal \in Document /\ http \in Call /\ result \in Report
  BY DEF TypeOK
<1>2. /\ up /\ op = Idle /\ Phase(i) = "attention"
      /\ UNCHANGED <<op, active, http, result, up, minted>>
  BY DEF Review, RetryReviewed, DismissReviewed, ConfirmReviewedAsset,
         LinkReviewedRecord, CanReview, network
<1>3. PICK d \in Document, p \in {"queued", "absent"} :
        Commit(d) /\ d.phase = [journal.phase EXCEPT ![i] = p]
  <2>1. CASE RetryReviewed(i)
    <3>1. /\ SetPhase(journal, i, "queued") \in Document
          /\ SetPhase(journal, i, "queued").phase = [journal.phase EXCEPT ![i] = "queued"]
      BY <1>1, SetPhaseFacts DEF Phases
    <3>2. QED
      BY <2>1, <3>1 DEF RetryReviewed
  <2>2. CASE DismissReviewed(i)
    BY <1>1, <2>2, RemoveFacts DEF DismissReviewed
  <2>3. CASE ConfirmReviewedAsset(i)
    BY <1>1, <2>3, AppliedFacts DEF ConfirmReviewedAsset
  <2>4. CASE LinkReviewedRecord(i)
    BY <1>1, <2>4, AppliedFacts DEF LinkReviewedRecord
  <2>5. QED
    BY <2>1, <2>2, <2>3, <2>4 DEF Review
<1>4. minted \in Nat /\ i <= minted
  BY <1>2, BoundsAssumption DEF Documented, Phase, TypeOK, Ids
<1>5. p \in Phases /\ p # "sending"
  BY DEF Phases
<1>6. Documented' /\ \A k \in Ids : Phase(k)' = IF k = i THEN p ELSE Phase(k)
  BY <1>2, <1>3, <1>4, <1>5, DocumentedCommit
<1>7. /\ http.stage # "none" => http.id \in Ids
      /\ result.outcome # "none" => result.id \in Ids
  BY <1>1, CallFields, ReportFields DEF NoResult
<1>8. SlotOwned'
  BY <1>2 DEF SlotOwned
<1>9. Stations'
  BY <1>2, <1>6, <1>7 DEF Stations, Idle
<1>10. InFlight'
  BY <1>2, <1>5, <1>6 DEF InFlight
<1>11. QED
  BY <1>6, <1>8, <1>9, <1>10

(* Settings, clock and file system leave the slot alone; a stop empties    *)
(* it, and recovery leaves nothing in flight.                              *)
LEMMA ProcessSlot ==
  SlotInv /\ (SelectConnector \/ PauseEnds \/ WindowPasses \/ RenameSettles
              \/ Stop \/ Restart)
  => SlotOwned' /\ Stations' /\ InFlight' /\ Documented'
<1> SUFFICES ASSUME SlotInv,
                    SelectConnector \/ PauseEnds \/ WindowPasses \/ RenameSettles
                      \/ Stop \/ Restart
             PROVE  SlotOwned' /\ Stations' /\ InFlight' /\ Documented'
  OBVIOUS
<1> USE DEF SlotInv
<1>1. journal \in Document /\ prior \in Document
  BY DEF TypeOK
<1>2. CASE SelectConnector \/ WindowPasses
  <2>1. Documented' /\ \A i : Phase(i)' = Phase(i)
    BY <1>2, DocumentedKept DEF SelectConnector, WindowPasses
  <2>2. UNCHANGED <<op, active, http, result, up>>
    BY <1>2 DEF SelectConnector, WindowPasses, network
  <2>3. QED
    BY <2>1, <2>2 DEF SlotOwned, Stations, InFlight
<1>3. CASE PauseEnds \/ RenameSettles
  <2>1. journal'.phase = journal.phase
    BY <1>1, <1>3, PauseFacts DEF PauseEnds, RenameSettles
  <2>2. prior'.phase \in {prior.phase, journal.phase}
    BY <1>3, <2>1 DEF PauseEnds, RenameSettles
  <2>3. UNCHANGED <<op, active, http, result, up, minted>>
    BY <1>3 DEF PauseEnds, RenameSettles, network
  <2>4. Documented'
    BY <2>1, <2>2, <2>3 DEF Documented
  <2>5. \A i : Phase(i)' = Phase(i)
    BY <2>1 DEF Phase
  <2>6. QED
    BY <2>3, <2>4, <2>5 DEF SlotOwned, Stations, InFlight
<1>4. CASE Stop
  <2>1. journal' \in {journal, prior} /\ prior' = journal' /\ minted' = minted
    BY <1>4 DEF Stop
  <2>2. Documented'
    BY <2>1 DEF Documented
  <2>3. QED
    BY <1>4, <2>2 DEF Stop, Idle, Quiet, NoResult, SlotOwned, Stations, InFlight
<1>5. CASE Restart
  <2> DEFINE f == [i \in Ids |-> RecoveredPhase(i, journal.phase[i])]
             d == [journal EXCEPT !.phase = f]
  <2>1. f \in [Ids -> Phases]
    BY <1>1 DEF RecoveredPhase, Document, Phases
  <2>2. d \in Document /\ d.phase = f
    BY <1>1, <2>1, PhasesFacts
  <2>3. \A i \in Ids : f[i] # "sending" /\ (journal.phase[i] = "absent" => f[i] = "absent")
    BY DEF RecoveredPhase
  <2> HIDE DEF f
  <2>4. journal' = d /\ prior' \in {journal, d} /\ minted' = minted
    BY <1>5 DEF Restart, Commit, f
  <2>5. UNCHANGED <<op, active, http, result>> /\ ~up /\ up'
    BY <1>5 DEF Restart, network
  <2> HIDE DEF d
  <2>6. Documented'
    BY <2>2, <2>3, <2>4 DEF Documented
  <2>7. \A i \in Ids : Phase(i)' # "sending"
    BY <2>2, <2>3, <2>4 DEF Phase
  <2>8. SlotOwned'
    BY <2>5 DEF SlotOwned
  <2>9. Stations'
    BY <2>5 DEF Stations, InFlight
  <2>10. InFlight'
    BY <2>5, <2>7 DEF InFlight
  <2>11. QED
    BY <2>6, <2>8, <2>9, <2>10
<1>6. QED
  BY <1>2, <1>3, <1>4, <1>5

LEMMA NextSlot == SlotInv /\ [Next]_vars => SlotInv'
<1> SUFFICES ASSUME SlotInv, [Next]_vars PROVE SlotInv'
  OBVIOUS
<1>1. TypeOK'
  BY NextType DEF SlotInv
<1>2. CASE UNCHANGED vars
  <2>1. Documented' /\ \A i : Phase(i)' = Phase(i)
    BY <1>2, DocumentedKept DEF vars, SlotInv
  <2>2. QED
    BY <1>1, <1>2, <2>1 DEF vars, network, SlotInv, SlotOwned, Stations, InFlight
<1>3. CASE Next
  BY <1>1, <1>3, WorkflowSlot, PollSlot, SavesSlot, HandOverSlot, ReviewSlot,
     ProcessSlot DEF Next, Workflow, SlotInv
<1>4. QED
  BY <1>2, <1>3

(* The single delivery slot never leaks, and the operation, the thread or  *)
(* the waiting result that holds it always means the active entry.         *)
THEOREM SlotNeverLeaks == Spec => []SlotOwned
<1>1. SlotInv => SlotOwned
  BY DEF SlotInv
<1>2. QED
  BY <1>1, InitSlot, NextSlot, PTL DEF Spec

(* Nothing leaves the terminal before `sending` is committed, and no two   *)
(* entries are in flight, also in a file that a power loss brought back.   *)
THEOREM SavedBeforeSent == Spec => []DurableBeforeWire
<1>1. SlotInv => DurableBeforeWire
  BY DEF SlotInv, Stations, Documented, DurableBeforeWire, Phase
<1>2. QED
  BY <1>1, InitSlot, NextSlot, PTL DEF Spec

-----------------------------------------------------------------------------
(* What a step may never do: forget an answer, or start too late.          *)

(* A saved acknowledgement of success has removed the entry.               *)
AnswerSaved ==
  op.kind = "ack" /\ op.stage = "done" /\ op.outcome = "ok" => Phase(op.id) = "absent"

LEMMA NextAnswerSaved == SlotInv /\ AnswerSaved /\ [Next]_vars => AnswerSaved'
<1> SUFFICES ASSUME SlotInv, AnswerSaved, [Next]_vars PROVE AnswerSaved'
  OBVIOUS
<1>1. TypeOK /\ journal \in Document /\ op \in Operation
  BY DEF SlotInv, TypeOK
<1>2. CASE AckSaved
  <2>1. op.kind = "ack" /\ op.id \in Ids
    BY <1>1, <1>2, OperationFields DEF AckSaved
  <2>2. op'.id = op.id /\ op'.outcome = op.outcome
    BY <1>1, <1>2 DEF AckSaved, Operation
  <2>3. journal' = Applied(op.id, op.outcome, op.sent)
    BY <1>2 DEF AckSaved, Commit
  <2> PICK e : e = Remove(journal, op.id)
    OBVIOUS
  <2>4. e.phase[op.id] = "absent"
    BY <1>1, <2>1 DEF Remove, Document
  <2>5. op.outcome = "ok" => journal'.phase = e.phase
    <3>1. CASE Method(op.id) = "create"
      <4>1. Resolve(e, About(op.id)).phase = e.phase
        BY <1>1, <2>1, RemoveFacts DEF Resolve, Document
      <4>2. QED
        BY <2>3, <3>1, <4>1 DEF Applied, Delivered
    <3>2. CASE Method(op.id) # "create"
      BY <2>3, <3>2 DEF Applied, Delivered
    <3>3. QED
      BY <3>1, <3>2
  <2>6. QED
    BY <2>2, <2>4, <2>5 DEF AnswerSaved, Phase
<1>3. CASE \/ ExpireSaved \/ PrepareSaved \/ BeginOperation \/ QueueUpdate \/ QueueAgain
           \/ EndOperation \/ OperationFails \/ PrepareBreaks \/ Callbacks \/ Poll \/ Stop
  <2>1. op'.kind # "ack" \/ op'.stage # "done"
    BY <1>1, <1>3 DEF ExpireSaved, PrepareSaved, BeginOperation, QueueUpdate, QueueAgain,
       EndOperation, OperationFails, PrepareBreaks, Callbacks, Dispatch, DispatchFails,
       PrepareGivesUp, AckDone, AckFailed, Poll, PollResult, PollExpired, PollStart, Stop,
       Working, Idle, Operation
  <2>2. QED
    BY <2>1 DEF AnswerSaved
<1>4. CASE \E i \in Ids : Review(i)
  <2>1. op = Idle /\ op' = op
    BY <1>4 DEF Review, RetryReviewed, DismissReviewed, ConfirmReviewedAsset,
       LinkReviewedRecord, CanReview
  <2>2. QED
    BY <2>1 DEF Idle, AnswerSaved
<1>5. CASE \/ Network \/ StrayArrives \/ SelectConnector \/ PauseEnds \/ WindowPasses
           \/ RenameSettles \/ UNCHANGED vars
  <2>1. op' = op /\ journal'.phase = journal.phase
    BY <1>1, <1>5 DEF Network, SendRequest, Serve, Respond, Reject, Refuse, LoseAnswer,
       StrayArrives, SelectConnector, PauseEnds, WindowPasses, RenameSettles, vars, network,
       Document
  <2>2. QED
    BY <2>1 DEF AnswerSaved, Phase
<1>6. CASE Restart
  BY <1>6 DEF Restart, SlotInv, InFlight, AnswerSaved
<1>7. QED
  BY <1>2, <1>3, <1>4, <1>5, <1>6 DEF Next, Workflow, Saves

LEMMA NextKeepsAnswer ==
  ASSUME SlotInv, AnswerSaved, [Next]_vars, NEW i \in Ids, Answered(i), up'
  PROVE  Answered(i)' \/ Phase(i)' = "absent"
<1>1. op \in Operation /\ result \in Report
  BY DEF SlotInv, TypeOK
<1>2. CASE result.id = i /\ result.outcome = "ok"
  <2>1. op.kind \notin {"prepare", "ack"} /\ http.stage = "none"
    BY <1>2 DEF SlotInv, SlotOwned
  <2>2. result' = result \/ PollResult
    BY <2>1 DEF Next, Workflow, BeginOperation, QueueUpdate, QueueAgain, EndOperation,
       OperationFails, Poll, PollExpired, PollStart, Saves, ExpireSaved, PrepareSaved,
       AckSaved, PrepareBreaks, Callbacks, Dispatch, DispatchFails, PrepareGivesUp, AckDone,
       AckFailed, Network, SendRequest, Serve, Respond, Reject, Refuse, LoseAnswer,
       StrayArrives, Review, RetryReviewed, DismissReviewed, ConfirmReviewedAsset,
       LinkReviewedRecord, SelectConnector, PauseEnds, WindowPasses, RenameSettles, Stop,
       Restart, vars, network
  <2>3. CASE PollResult
    <3>1. op' = [kind |-> "ack", id |-> result.id, system |-> result.system,
                 outcome |-> result.outcome, sent |-> result.sent, stage |-> "running"]
      BY <2>3, Zenon DEF PollResult
    <3>2. op'.kind = "ack" /\ op'.id = result.id /\ op'.outcome = result.outcome
      BY <3>1
    <3>3. QED
      BY <1>2, <3>2 DEF Answered
  <2>4. QED
    BY <1>2, <2>2, <2>3 DEF Answered
<1>3. CASE op.kind = "ack" /\ op.id = i /\ op.outcome = "ok"
  <2>1. CASE AckSaved \/ OperationFails
    BY <1>1, <1>3, <2>1 DEF AckSaved, OperationFails, Answered, Operation
  <2>2. CASE AckDone
    BY <1>3, <2>2 DEF AckDone, AnswerSaved, Phase
  <2>3. CASE AckFailed
    BY <1>3, <2>3 DEF AckFailed, Answered
  <2>4. CASE op' = op
    BY <1>3, <2>4 DEF Answered
  <2>5. op # Idle
    BY <1>3 DEF Idle
  <2>6. ~Poll /\ ~\E k \in Ids : Review(k)
    BY <2>5 DEF Poll, PollResult, PollExpired, PollStart, CanPoll, Review, RetryReviewed,
       DismissReviewed, ConfirmReviewedAsset, LinkReviewedRecord, CanReview
  <2>7. /\ Workflow => op' = op
        /\ Saves => AckSaved
        /\ Callbacks => AckDone \/ AckFailed
        /\ ~PrepareBreaks
    BY <1>3, <2>5 DEF Workflow, BeginOperation, QueueUpdate, QueueAgain, EndOperation, Saves,
       ExpireSaved, PrepareSaved, Callbacks, Dispatch, DispatchFails, PrepareGivesUp,
       PrepareBreaks
  <2>8. /\ Network \/ StrayArrives => op' = op
        /\ SelectConnector \/ PauseEnds \/ WindowPasses \/ RenameSettles \/ Restart
           \/ UNCHANGED vars => op' = op
        /\ ~Stop
    BY DEF Network, SendRequest, Serve, Respond, Reject, Refuse, LoseAnswer, StrayArrives,
       SelectConnector, PauseEnds, WindowPasses, RenameSettles, Stop, Restart, vars
  <2>9. QED
    BY <2>1, <2>2, <2>3, <2>4, <2>6, <2>7, <2>8 DEF Next
<1>4. QED
  BY <1>2, <1>3 DEF Answered

(* A failed save of an acknowledgement does not forget the answer: the     *)
(* running process keeps it until the entry has left the journal.          *)
THEOREM AnswersAreKept == Spec => AnswerKept
<1>1. Init => SlotInv /\ AnswerSaved
  BY InitSlot DEF Init, Idle, AnswerSaved
<1>2. SlotInv /\ AnswerSaved /\ [Next]_vars =>
        [\A i \in Ids : Answered(i) => Answered(i)' \/ Phase(i)' = "absent" \/ ~up']_vars
  BY NextKeepsAnswer
<1>3. QED
  BY <1>1, <1>2, NextSlot, NextAnswerSaved, PTL DEF Spec, AnswerKept

-----------------------------------------------------------------------------
(* At most once: the argument counts, of each update, the times it was     *)
(* carried out, the requests that may still arrive, and the write that may *)
(* still be made without a person.                                         *)

Refusal(outcome) == outcome \notin {"ok", "unusable", "rejected", "uncertain"}

(* A write of i may still be made without anybody's consent: it is queued, *)
(* or it is in flight and its one write was not made, or was refused by a  *)
(* service that certainly did not carry it out.                            *)
Unspent(i) ==
  \/ Phase(i) = "queued"
  \/ /\ up /\ Phase(i) = "sending"
     /\ ~(http.id = i /\ http.stage = "applied")
     /\ result.id = i => Refusal(result.outcome)
     /\ op.kind = "ack" /\ op.id = i => Refusal(op.outcome)

Allowance == \A i \in Ids :
  ~Safe(i) => effects[i] + stray[i] + (IF Unspent(i) THEN 1 ELSE 0) <= 1 + reviews[i]

(* What deduplication gives: one effect at most on the bound system, and   *)
(* the system then knows the key.                                          *)
Remembered == \A i \in Ids :
  Safe(i) /\ binding[i] # Unbound =>
    effects[i] = 0 \/ (effects[i] = 1 /\ <<i, binding[i]>> \in seen)

(* A bound entry is only ever worked on for its own system.                *)
RoutedAsBound ==
  /\ op.kind = "prepare" => binding[op.id] \in {Unbound, op.system}
  /\ http.stage # "none" => binding[http.id] \in {Unbound, http.system}

(* An outcome is called uncertain only after a write was handed over.      *)
DoubtAfterWrite ==
  /\ result.outcome = "uncertain" => result.sent
  /\ op.kind = "ack" /\ op.outcome = "uncertain" => op.sent

Unrecorded == \A i \in Ids : i > minted => effects[i] = 0 /\ stray[i] = 0

(* Without lazy renames the file is what was last committed.               *)
Durable == LazyRename = FALSE /\ prior = journal

OnceInv ==
  /\ SlotInv /\ Durable /\ Unrecorded /\ DoubtAfterWrite /\ RoutedAsBound
  /\ Allowance /\ Remembered
-----------------------------------------------------------------------------
LEMMA InitOnce == LazyRename = FALSE /\ Init => OnceInv
<1> SUFFICES ASSUME LazyRename = FALSE, Init PROVE OnceInv
  OBVIOUS
<1>1. SlotInv
  BY InitSlot
<1>2. \A i \in Ids : effects[i] = 0 /\ stray[i] = 0 /\ reviews[i] = 0 /\ Phase(i) = "absent"
  BY DEF Init, Empty, Phase
<1>3. Durable /\ Unrecorded /\ DoubtAfterWrite /\ RoutedAsBound
  BY <1>2 DEF Init, Durable, Unrecorded, DoubtAfterWrite, RoutedAsBound, Idle, Quiet, NoResult
<1>4. Allowance
  BY <1>2 DEF Allowance, Unspent
<1>5. Remembered
  BY <1>2 DEF Remembered
<1>6. QED
  BY <1>1, <1>3, <1>4, <1>5 DEF OnceInv

(* The file is never older than memory when renames are not lazy.          *)
LEMMA DurableCommit ==
  ASSUME Durable, NEW d, Commit(d) PROVE Durable'
BY DEF Durable, Commit

LEMMA NextDurable == Durable /\ Next => Durable'
<1> SUFFICES ASSUME Durable, Next PROVE Durable'
  OBVIOUS
<1>1. CASE Saves
  BY <1>1, DurableCommit DEF Saves, ExpireSaved, PrepareSaved, AckSaved
<1>2. CASE QueueUpdate
  BY <1>2, DurableCommit DEF QueueUpdate
<1>3. CASE \E i \in Ids : Review(i)
  BY <1>3, DurableCommit
     DEF Review, RetryReviewed, DismissReviewed, ConfirmReviewedAsset, LinkReviewedRecord
<1>4. CASE Restart
  BY <1>4, DurableCommit DEF Restart
<1>5. CASE PauseEnds \/ RenameSettles \/ Stop
  BY <1>5 DEF PauseEnds, RenameSettles, Stop, Durable
<1>6. CASE BeginOperation \/ QueueAgain \/ EndOperation \/ OperationFails \/ Poll \/ PrepareBreaks
  BY <1>6 DEF BeginOperation, QueueAgain, EndOperation, OperationFails, Poll,
              PollResult, PollExpired, PollStart, PrepareBreaks, Durable
<1>7. CASE Callbacks
  BY <1>7 DEF Callbacks, Dispatch, DispatchFails, PrepareGivesUp, AckDone, AckFailed, Durable
<1>8. CASE Network \/ StrayArrives
  BY <1>8 DEF Network, SendRequest, Serve, Respond, Reject, Refuse, LoseAnswer,
              StrayArrives, Durable
<1>9. CASE SelectConnector \/ WindowPasses
  BY <1>9 DEF SelectConnector, WindowPasses, Durable
<1>10. QED
  BY <1>1, <1>2, <1>3, <1>4, <1>5, <1>6, <1>7, <1>8, <1>9 DEF Next, Workflow

(* A step that neither records an entry, nor reaches the service, nor      *)
(* authorises a retry only has to create no new permission to write.       *)
LEMMA AllowanceKept ==
  ASSUME OnceInv, UNCHANGED <<effects, stray, seen, reviews, intent, binding, minted>>,
         \A i \in Ids : ~Safe(i) /\ Unspent(i)' => Unspent(i)
  PROVE  Unrecorded' /\ Allowance' /\ Remembered'
<1>1. effects \in [Ids -> Nat] /\ stray \in [Ids -> Nat] /\ reviews \in [Ids -> Nat]
  BY DEF OnceInv, SlotInv, TypeOK
<1>2. \A i \in Ids : Safe(i)' = Safe(i)
  BY DEF Safe, Method
<1>3. Unrecorded'
  BY DEF OnceInv, Unrecorded
<1>4. Remembered'
  BY <1>2 DEF OnceInv, Remembered
<1>5. ASSUME NEW i \in Ids, ~Safe(i)'
      PROVE  effects'[i] + stray'[i] + (IF Unspent(i)' THEN 1 ELSE 0) <= 1 + reviews'[i]
  <2>1. effects[i] + stray[i] + (IF Unspent(i) THEN 1 ELSE 0) <= 1 + reviews[i]
    BY <1>2, <1>5 DEF OnceInv, Allowance
  <2>2. Unspent(i)' => Unspent(i)
    BY <1>2, <1>5
  <2>3. effects[i] \in Nat /\ stray[i] \in Nat /\ reviews[i] \in Nat
    BY <1>1
  <2>4. effects' = effects /\ stray' = stray /\ reviews' = reviews
    OBVIOUS
  <2>5. CASE Unspent(i)'
    BY <2>1, <2>2, <2>3, <2>4, <2>5
  <2>6. CASE ~Unspent(i)'
    <3>1. effects[i] + stray[i] <= 1 + reviews[i]
      BY <2>1, <2>3
    <3>2. QED
      BY <3>1, <2>3, <2>4, <2>6
  <2>7. QED
    BY <2>5, <2>6
<1>6. Allowance'
  BY <1>5 DEF Allowance
<1>7. QED
  BY <1>3, <1>4, <1>6
Kept == Unrecorded /\ DoubtAfterWrite /\ RoutedAsBound /\ Allowance /\ Remembered

LEMMA WorkflowOnce ==
  OnceInv /\ (BeginOperation \/ QueueAgain \/ EndOperation \/ OperationFails
              \/ SelectConnector \/ WindowPasses \/ PauseEnds \/ RenameSettles)
  => Kept'
<1> SUFFICES ASSUME OnceInv,
                    BeginOperation \/ QueueAgain \/ EndOperation \/ OperationFails
                      \/ SelectConnector \/ WindowPasses \/ PauseEnds \/ RenameSettles
             PROVE  Kept'
  OBVIOUS
<1>1. /\ UNCHANGED <<effects, stray, seen, reviews, intent, binding, minted>>
      /\ UNCHANGED <<up, http, result>>
  BY DEF BeginOperation, QueueAgain, EndOperation, OperationFails, SelectConnector,
         WindowPasses, PauseEnds, RenameSettles, service, ghosts, network
<1>2. \A i : Phase(i)' = Phase(i)
  <2>1. journal'.phase = journal.phase
    BY PauseFacts
       DEF BeginOperation, QueueAgain, EndOperation, OperationFails, SelectConnector,
           WindowPasses, PauseEnds, RenameSettles, OnceInv, SlotInv, TypeOK
  <2>2. QED
    BY <2>1 DEF Phase
<1>3. /\ op'.kind \in {"prepare", "ack"} =>
           /\ op.kind = op'.kind /\ op'.id = op.id /\ op'.system = op.system
           /\ op'.outcome = op.outcome /\ op'.sent = op.sent
      /\ op.kind = "ack" => op'.kind = "ack"
  BY DEF BeginOperation, QueueAgain, EndOperation, OperationFails, SelectConnector,
         WindowPasses, PauseEnds, RenameSettles, Working, Idle, OnceInv, SlotInv,
         TypeOK, Operation
<1>4. \A i \in Ids : Unspent(i)' => Unspent(i)
  BY <1>1, <1>2, <1>3 DEF Unspent
<1>5. Unrecorded' /\ Allowance' /\ Remembered'
  BY <1>1, <1>4, AllowanceKept
<1>6. DoubtAfterWrite' /\ RoutedAsBound'
  BY <1>1, <1>3 DEF OnceInv, DoubtAfterWrite, RoutedAsBound
<1>7. QED
  BY <1>5, <1>6 DEF Kept

LEMMA PollOnce == OnceInv /\ Poll => Kept'
<1> SUFFICES ASSUME OnceInv, Poll PROVE Kept'
  OBVIOUS
<1>1. /\ UNCHANGED <<effects, stray, seen, reviews, intent, binding, minted>>
      /\ UNCHANGED <<up, http, journal>> /\ op = Idle
  BY DEF Poll, PollResult, PollExpired, PollStart, CanPoll, service, ghosts, network
<1>2. \A i : Phase(i)' = Phase(i)
  BY <1>1 DEF Phase
<1>3. CASE PollResult
  <2>1. /\ op'.kind = "ack" /\ op'.id = result.id /\ op'.outcome = result.outcome
        /\ op'.sent = result.sent /\ result' = NoResult
    BY <1>3 DEF PollResult
  <2>2. \A i \in Ids : Unspent(i)' => Unspent(i)
    BY <1>1, <1>2, <2>1 DEF Unspent, Idle
  <2>3. DoubtAfterWrite' /\ RoutedAsBound'
    BY <1>1, <2>1 DEF OnceInv, DoubtAfterWrite, RoutedAsBound, NoResult
  <2>4. QED
    BY <1>1, <2>2, <2>3, AllowanceKept DEF Kept
<1>4. CASE PollExpired
  <2>1. op'.kind = "expire" /\ result' = result
    BY <1>4 DEF PollExpired, Working, network
  <2>2. \A i \in Ids : Unspent(i)' => Unspent(i)
    BY <1>1, <1>2, <2>1 DEF Unspent, Idle
  <2>3. DoubtAfterWrite' /\ RoutedAsBound'
    BY <1>1, <2>1 DEF OnceInv, DoubtAfterWrite, RoutedAsBound
  <2>4. QED
    BY <1>1, <2>2, <2>3, AllowanceKept DEF Kept
<1>5. CASE PollStart
  <2>1. PICK i \in Ids : Ready(i) /\ op' = Working("prepare", i, remote)
    BY <1>5 DEF PollStart
  <2>2. /\ op'.kind = "prepare" /\ op'.id = i /\ op'.system = remote
        /\ result' = result /\ binding[i] \in {Unbound, remote}
    BY <1>5, <2>1 DEF PollStart, Ready, Routed, Working
  <2>3. \A k \in Ids : Unspent(k)' => Unspent(k)
    BY <1>1, <1>2, <2>2 DEF Unspent, Idle
  <2>4. DoubtAfterWrite' /\ RoutedAsBound'
    BY <1>1, <2>2 DEF OnceInv, DoubtAfterWrite, RoutedAsBound
  <2>5. QED
    BY <1>1, <2>3, <2>4, AllowanceKept DEF Kept
<1>6. QED
  BY <1>3, <1>4, <1>5 DEF Poll

(* Saving `sending` makes no permission, holding an entry takes one away,  *)
(* and an acknowledgement queues an update that is not retry-safe again    *)
(* only when it was refused.                                               *)
LEMMA SavesOnce == OnceInv /\ Saves => Kept'
<1> SUFFICES ASSUME OnceInv, Saves PROVE Kept'
  OBVIOUS
<1> USE DEF OnceInv, SlotInv
<1>1. op \in Operation /\ journal \in Document
  BY DEF TypeOK
<1>2. /\ op.stage = "running" /\ op'.kind = op.kind /\ op'.id = op.id
      /\ op'.system = op.system /\ op'.outcome = op.outcome /\ op'.sent = op.sent
      /\ op.kind \in {"expire", "prepare", "ack"}
      /\ UNCHANGED <<effects, stray, seen, reviews, intent, binding, minted>>
      /\ UNCHANGED <<active, http, result, up>>
  BY <1>1 DEF Saves, ExpireSaved, PrepareSaved, AckSaved, Operation, network,
              service, ghosts
<1>3. op.id \in Ids /\ up
  BY <1>1, <1>2, OperationFields DEF InFlight
<1>4. DoubtAfterWrite' /\ RoutedAsBound'
  BY <1>2 DEF DoubtAfterWrite, RoutedAsBound
<1>5. \A i \in Ids : ~Safe(i) /\ Unspent(i)' => Unspent(i)
  <2>1. CASE ExpireSaved
    <3>1. journal'.phase = [journal.phase EXCEPT ![op.id] = "attention"]
      BY <1>1, <2>1, SetPhaseFacts DEF ExpireSaved, Expired, Commit, Phases
    <3>2. \A i \in Ids : Phase(i)' = IF i = op.id THEN "attention" ELSE Phase(i)
      BY <1>1, <3>1 DEF Phase, Document
    <3>3. QED
      BY <1>2, <3>2 DEF Unspent
  <2>2. CASE PrepareSaved
    <3>1. journal'.phase = [journal.phase EXCEPT ![op.id] = "sending"]
      BY <1>1, <2>2, SetPhaseFacts DEF PrepareSaved, Prepared, Commit, Phases
    <3>2. \A i \in Ids : Phase(i)' = IF i = op.id THEN "sending" ELSE Phase(i)
      BY <1>1, <3>1 DEF Phase, Document
    <3>3. Phase(op.id) = "queued"
      BY <1>2, <2>2 DEF Stations, PrepareSaved
    <3>4. QED
      BY <1>2, <3>2, <3>3 DEF Unspent
  <2>3. CASE AckSaved
    <3> DEFINE p == IF op.outcome = "ok" THEN "absent"
                    ELSE AfterError(op.id, op.outcome, op.sent)
    <3>1. journal'.phase = [journal.phase EXCEPT ![op.id] = p]
      <4>1. Applied(op.id, op.outcome, op.sent).phase = [journal.phase EXCEPT ![op.id] = p]
        BY <1>1, AppliedFacts
      <4>2. journal' = Applied(op.id, op.outcome, op.sent)
        BY <2>3 DEF AckSaved, Commit
      <4>3. QED
        BY <4>1, <4>2
    <3>2. \A i \in Ids : Phase(i)' = IF i = op.id THEN p ELSE Phase(i)
      BY <1>1, <3>1 DEF Phase, Document
    <3>3. op.kind = "ack" /\ http.stage = "none" /\ result.outcome = "none"
      BY <2>3 DEF AckSaved, SlotOwned
    <3>4. Phase(op.id) \in {"queued", "sending"}
      BY <1>2, <3>3 DEF Stations
    <3>5. p # "sending"
      BY DEF AfterError
    <3>6. ~Safe(op.id) /\ p = "queued" => Refusal(op.outcome)
      BY <3>3 DEF AfterError, Permanent, Ambiguous, DoubtAfterWrite, Refusal
    <3>7. ~Safe(op.id) /\ p = "queued" => Unspent(op.id)
      BY <1>3, <3>3, <3>4, <3>6 DEF Unspent, Refusal
    <3> HIDE DEF p
    <3>8. ASSUME NEW i \in Ids, ~Safe(i), Unspent(i)' PROVE Unspent(i)
      <4>1. CASE i = op.id
        BY <3>2, <3>5, <3>7, <3>8, <4>1 DEF Unspent
      <4>2. CASE i # op.id
        BY <1>2, <3>2, <3>8, <4>2 DEF Unspent
      <4>3. QED
        BY <4>1, <4>2
    <3>9. QED
      BY <3>8
  <2>4. QED
    BY <2>1, <2>2, <2>3 DEF Saves
<1>6. QED
  BY <1>2, <1>4, <1>5, AllowanceKept DEF Kept
(* The write itself: what it adds to the effects is taken from the         *)
(* permission, and a definite refusal gives nothing back.                  *)
LEMMA HandOverOnce ==
  OnceInv /\ (Callbacks \/ PrepareBreaks \/ SendRequest \/ Respond \/ Reject \/ Refuse)
  => Kept'
<1> SUFFICES ASSUME OnceInv,
                    Callbacks \/ PrepareBreaks \/ SendRequest \/ Respond \/ Reject \/ Refuse
             PROVE  Kept'
  OBVIOUS
<1> USE DEF OnceInv, SlotInv
<1>1. op \in Operation /\ http \in Call /\ result \in Report
  BY DEF TypeOK
<1>2. /\ UNCHANGED <<effects, stray, seen, reviews, intent, binding, minted>>
      /\ UNCHANGED <<journal, up>>
  BY DEF Callbacks, Dispatch, DispatchFails, PrepareGivesUp, AckDone, AckFailed,
         PrepareBreaks, SendRequest, Respond, Reject, Refuse, service, ghosts
<1>3. \A i : Phase(i)' = Phase(i)
  BY <1>2 DEF Phase
<1>4. CASE Dispatch
  <2>1. /\ op.kind = "prepare" /\ op' = Idle /\ result' = result
        /\ http' = [id |-> op.id, system |-> op.system, stage |-> "lookup"]
        /\ http.stage = "none"
    BY <1>4 DEF Dispatch, SlotOwned
  <2>2. \A i \in Ids : Unspent(i)' => Unspent(i)
    BY <1>2, <1>3, <2>1 DEF Unspent, Idle
  <2>3. DoubtAfterWrite' /\ RoutedAsBound'
    BY <1>2, <2>1 DEF DoubtAfterWrite, RoutedAsBound, Idle
  <2>4. QED
    BY <1>2, <2>2, <2>3, AllowanceKept DEF Kept
<1>5. CASE DispatchFails
  <2>1. /\ op.kind = "prepare" /\ op' = Idle /\ http' = http
        /\ result.outcome = "none" /\ result'.outcome \in {"rejected", "refused"}
    BY <1>5 DEF DispatchFails, SlotOwned
  <2>2. \A i \in Ids : Unspent(i)' => Unspent(i)
    BY <1>2, <1>3, <2>1 DEF Unspent, Idle, Refusal
  <2>3. DoubtAfterWrite' /\ RoutedAsBound'
    BY <1>2, <2>1 DEF DoubtAfterWrite, RoutedAsBound, Idle
  <2>4. QED
    BY <1>2, <2>2, <2>3, AllowanceKept DEF Kept
<1>6. CASE PrepareGivesUp
  <2>1. op.kind = "prepare" /\ op' = Idle /\ http' = http /\ result' = result
    BY <1>6 DEF PrepareGivesUp
  <2>2. \A i \in Ids : Unspent(i)' => Unspent(i)
    BY <1>2, <1>3, <2>1 DEF Unspent, Idle
  <2>3. DoubtAfterWrite' /\ RoutedAsBound'
    BY <1>2, <2>1 DEF DoubtAfterWrite, RoutedAsBound, Idle
  <2>4. QED
    BY <1>2, <2>2, <2>3, AllowanceKept DEF Kept
<1>7. CASE AckDone
  <2>1. /\ op.kind = "ack" /\ op.stage = "done" /\ op' = Idle /\ http' = http
        /\ result' = result /\ Phase(op.id) # "sending"
    BY <1>7 DEF AckDone, Stations
  <2>2. \A i \in Ids : Unspent(i)' => Unspent(i)
    BY <1>2, <1>3, <2>1 DEF Unspent, Idle
  <2>3. DoubtAfterWrite' /\ RoutedAsBound'
    BY <1>2, <2>1 DEF DoubtAfterWrite, RoutedAsBound, Idle
  <2>4. QED
    BY <1>2, <2>2, <2>3, AllowanceKept DEF Kept
<1>8. CASE AckFailed
  <2>1. /\ op.kind = "ack" /\ op' = Idle /\ http' = http /\ result.outcome = "none"
        /\ result' = [id |-> op.id, system |-> op.system,
                      outcome |-> op.outcome, sent |-> op.sent]
    BY <1>8 DEF AckFailed, SlotOwned
  <2>2. \A i \in Ids : Unspent(i)' => Unspent(i)
    BY <1>2, <1>3, <2>1 DEF Unspent, Idle, Refusal
  <2>3. DoubtAfterWrite' /\ RoutedAsBound'
    BY <1>2, <2>1 DEF DoubtAfterWrite, RoutedAsBound, Idle
  <2>4. QED
    BY <1>2, <2>2, <2>3, AllowanceKept DEF Kept
<1>9. CASE PrepareBreaks
  <2>1. /\ op.kind = "prepare" /\ op'.kind = "prepare" /\ op'.id = op.id
        /\ op'.system = op.system /\ http' = http /\ result' = result
    BY <1>1, <1>9 DEF PrepareBreaks, Operation, network
  <2>2. \A i \in Ids : Unspent(i)' => Unspent(i)
    BY <1>2, <1>3, <2>1 DEF Unspent
  <2>3. DoubtAfterWrite' /\ RoutedAsBound'
    BY <1>2, <2>1 DEF DoubtAfterWrite, RoutedAsBound
  <2>4. QED
    BY <1>2, <2>2, <2>3, AllowanceKept DEF Kept
<1>10. CASE SendRequest
  <2>1. /\ op' = op /\ result' = result /\ http.stage = "lookup"
        /\ http'.id = http.id /\ http'.system = http.system /\ http'.stage = "written"
    BY <1>1, <1>10 DEF SendRequest, Call, Quiet
  <2>2. \A i \in Ids : Unspent(i)' => Unspent(i)
    BY <1>2, <1>3, <2>1 DEF Unspent
  <2>3. DoubtAfterWrite' /\ RoutedAsBound'
    BY <1>2, <2>1 DEF DoubtAfterWrite, RoutedAsBound
  <2>4. QED
    BY <1>2, <2>2, <2>3, AllowanceKept DEF Kept
<1>11. CASE Respond \/ Reject
  <2>1. /\ op' = op /\ http' = Quiet /\ http.stage # "none" /\ result'.id = http.id
        /\ result'.outcome \in {"ok", "unusable", "rejected"} /\ result.outcome = "none"
    BY <1>11 DEF Respond, Reject, Answer, SlotOwned
  <2>2. \A i \in Ids : Unspent(i)' => Unspent(i)
    <3>1. SUFFICES ASSUME NEW i \in Ids, Unspent(i)', Phase(i) # "queued"
                   PROVE  Unspent(i)
      BY DEF Unspent
    <3>2. i # http.id
      BY <1>3, <2>1, <3>1 DEF Unspent, Refusal
    <3>3. QED
      BY <1>2, <1>3, <2>1, <3>1, <3>2 DEF Unspent, Refusal
  <2>3. DoubtAfterWrite' /\ RoutedAsBound'
    BY <1>2, <2>1 DEF DoubtAfterWrite, RoutedAsBound, Quiet
  <2>4. QED
    BY <1>2, <2>2, <2>3, AllowanceKept DEF Kept
<1>12. CASE Refuse
  <2>1. /\ op' = op /\ http' = Quiet /\ http.stage \in {"lookup", "written"}
        /\ result'.id = http.id /\ result'.outcome = "refused" /\ result.outcome = "none"
    BY <1>12 DEF Refuse, Answer, SlotOwned
  <2>2. \A i \in Ids : Unspent(i)' => Unspent(i)
    BY <1>2, <1>3, <2>1 DEF Unspent, Refusal
  <2>3. DoubtAfterWrite' /\ RoutedAsBound'
    BY <1>2, <2>1 DEF DoubtAfterWrite, RoutedAsBound, Quiet
  <2>4. QED
    BY <1>2, <2>2, <2>3, AllowanceKept DEF Kept
<1>13. QED
  BY <1>4, <1>5, <1>6, <1>7, <1>8, <1>9, <1>10, <1>11, <1>12 DEF Callbacks
-----------------------------------------------------------------------------
(* Steps of the service, the network, the process and administrators.      *)

LEMMA WrittenUnspent ==
  ASSUME OnceInv, http.stage \in {"lookup", "written"}
  PROVE  /\ http.id \in Ids /\ http.system \in Connectors
         /\ Phase(http.id) = "sending" /\ up /\ Unspent(http.id)
<1> USE DEF OnceInv, SlotInv
<1>1. http.id \in Ids /\ http.system \in Connectors
  BY CallFields DEF TypeOK
<1>2. Phase(http.id) = "sending" /\ up /\ op.kind # "ack" /\ result.outcome = "none"
  BY DEF Stations, InFlight, SlotOwned
<1>3. QED
  BY <1>1, <1>2 DEF Unspent, Refusal

(* Deduplication by key within one system gives one effect there.          *)
LEMMA CarryRemembered ==
  ASSUME OnceInv, NEW i \in Ids, NEW c \in Connectors, binding[i] \in {Unbound, c},
         Carry(i, c), UNCHANGED <<intent, binding>>
  PROVE  /\ Remembered'
         /\ \A k \in Ids : k # i => effects'[k] = effects[k]
         /\ ~Safe(i) => effects'[i] = effects[i] + 1
<1> USE DEF OnceInv, SlotInv
<1>1. effects \in [Ids -> Nat]
  BY DEF TypeOK
<1>2. \A k : Safe(k)' = Safe(k)
  BY DEF Safe, Method
<1>3. \A k \in Ids : k # i => effects'[k] = effects[k]
  BY <1>1 DEF Carry
<1>4. ~Safe(i) => effects'[i] = effects[i] + 1
  BY <1>1 DEF Carry
<1>5. seen \subseteq seen' /\ (Safe(i) => <<i, c>> \in seen')
  BY DEF Carry
<1>6. ASSUME NEW k \in Ids, Safe(k), binding[k] # Unbound
      PROVE  effects'[k] = 0 \/ (effects'[k] = 1 /\ <<k, binding[k]>> \in seen')
  <2>1. effects[k] = 0 \/ (effects[k] = 1 /\ <<k, binding[k]>> \in seen)
    BY <1>6 DEF Remembered
  <2>2. CASE k # i
    BY <1>3, <1>5, <2>1, <2>2
  <2>3. CASE k = i /\ <<i, c>> \in seen
    BY <1>5, <1>6, <2>1, <2>3 DEF Carry
  <2>4. CASE k = i /\ <<i, c>> \notin seen
    <3>1. binding[i] = c /\ effects[i] = 0
      BY <1>6, <2>1, <2>4
    <3>2. effects'[i] = 1
      BY <1>1, <2>4, <3>1 DEF Carry
    <3>3. QED
      BY <1>5, <1>6, <2>4, <3>1, <3>2
  <2>5. QED
    BY <2>2, <2>3, <2>4
<1>7. QED
  BY <1>2, <1>3, <1>4, <1>6 DEF Remembered

LEMMA ServeOnce == OnceInv /\ Serve => Kept'
<1> SUFFICES ASSUME OnceInv, Serve PROVE Kept'
  OBVIOUS
<1> USE DEF OnceInv, SlotInv
<1>0. PICK h \in Ids : h = http.id
  BY WrittenUnspent DEF Serve
<1>1. /\ http.system \in Connectors /\ Phase(h) = "sending" /\ up /\ Unspent(h)
      /\ http.stage = "written"
  BY <1>0, WrittenUnspent DEF Serve
<1>2. /\ UNCHANGED <<stray, reviews, intent, binding, minted, journal, up, op, result>>
      /\ Carry(h, http.system)
  BY <1>0 DEF Serve, ghosts
<1>3. http'.id = h /\ http'.system = http.system /\ http'.stage = "applied"
  BY <1>0 DEF Serve, Call, Quiet, TypeOK
<1>4. binding[h] \in {Unbound, http.system}
  BY <1>0, <1>1 DEF RoutedAsBound
<1>5. /\ Remembered'
      /\ \A k \in Ids : k # h => effects'[k] = effects[k]
      /\ ~Safe(h) => effects'[h] = effects[h] + 1
  BY <1>1, <1>2, <1>4, CarryRemembered
<1>6. \A k : Phase(k)' = Phase(k) /\ Safe(k)' = Safe(k)
  BY <1>2 DEF Phase, Safe, Method
<1>7. ~Unspent(h)'
  BY <1>1, <1>3, <1>6 DEF Unspent
<1>8. \A k \in Ids : k # h => (Unspent(k)' => Unspent(k))
  BY <1>0, <1>2, <1>3, <1>6 DEF Unspent
<1>9. effects \in [Ids -> Nat] /\ stray \in [Ids -> Nat] /\ reviews \in [Ids -> Nat]
  BY DEF TypeOK
<1>10. ASSUME NEW k \in Ids, ~Safe(k)
       PROVE  effects'[k] + stray[k] + (IF Unspent(k)' THEN 1 ELSE 0) <= 1 + reviews[k]
  <2>1. effects[k] + stray[k] + (IF Unspent(k) THEN 1 ELSE 0) <= 1 + reviews[k]
    BY <1>10 DEF Allowance
  <2>2. effects[k] \in Nat /\ stray[k] \in Nat /\ reviews[k] \in Nat
    BY <1>9
  <2>3. CASE k = h
    <3>1. effects[k] + stray[k] + 1 <= 1 + reviews[k]
      BY <1>1, <2>1, <2>3
    <3>2. effects'[k] = effects[k] + 1
      BY <1>5, <1>10, <2>3
    <3>3. ~Unspent(k)'
      BY <1>7, <2>3
    <3>4. QED
      BY <2>2, <3>1, <3>2, <3>3
  <2>4. CASE k # h
    <3>1. effects'[k] = effects[k] /\ (Unspent(k)' => Unspent(k))
      BY <1>5, <1>8, <2>4
    <3>2. QED
      BY <2>1, <2>2, <3>1
  <2>5. QED
    BY <2>3, <2>4
<1>11. Allowance'
  BY <1>2, <1>6, <1>10 DEF Allowance
<1>12. Unrecorded'
  <2>1. h <= minted
    BY <1>1, BoundsAssumption DEF Documented, Phase, TypeOK, Ids
  <2>2. QED
    BY <1>1, <1>2, <1>5, <2>1, BoundsAssumption DEF Unrecorded, TypeOK, Ids
<1>13. DoubtAfterWrite' /\ RoutedAsBound'
  BY <1>2, <1>3, <1>4 DEF DoubtAfterWrite, RoutedAsBound
<1>14. QED
  BY <1>5, <1>11, <1>12, <1>13 DEF Kept

LEMMA StrayOnce == OnceInv /\ StrayArrives => Kept'
<1> SUFFICES ASSUME OnceInv, StrayArrives PROVE Kept'
  OBVIOUS
<1> USE DEF OnceInv, SlotInv
<1>1. PICK h \in Ids :
        /\ stray[h] > 0
        /\ \E c \in IF binding[h] = Unbound THEN Connectors ELSE {binding[h]} : Carry(h, c)
        /\ stray' = [stray EXCEPT ![h] = @ - 1]
  BY DEF StrayArrives
<1>2. PICK c \in IF binding[h] = Unbound THEN Connectors ELSE {binding[h]} : Carry(h, c)
  BY <1>1
<1>3. c \in Connectors /\ binding[h] \in {Unbound, c}
  BY <1>2 DEF TypeOK, Systems
<1>4. UNCHANGED <<reviews, intent, binding, minted, journal, up, op, http, result>>
  BY DEF StrayArrives, ghosts, network
<1>5. /\ Remembered'
      /\ \A k \in Ids : k # h => effects'[k] = effects[k]
      /\ ~Safe(h) => effects'[h] = effects[h] + 1
  BY <1>2, <1>3, <1>4, CarryRemembered
<1>6. \A k : Phase(k)' = Phase(k) /\ Safe(k)' = Safe(k)
  BY <1>4 DEF Phase, Safe, Method
<1>7. \A k \in Ids : Unspent(k)' <=> Unspent(k)
  BY <1>4, <1>6 DEF Unspent
<1>8. effects \in [Ids -> Nat] /\ stray \in [Ids -> Nat] /\ reviews \in [Ids -> Nat]
  BY DEF TypeOK
<1>9. ASSUME NEW k \in Ids, ~Safe(k)
      PROVE  effects'[k] + stray'[k] + (IF Unspent(k)' THEN 1 ELSE 0) <= 1 + reviews[k]
  <2>1. effects[k] + stray[k] + (IF Unspent(k) THEN 1 ELSE 0) <= 1 + reviews[k]
    BY <1>9 DEF Allowance
  <2>2. effects[k] \in Nat /\ stray[k] \in Nat /\ reviews[k] \in Nat
    BY <1>8
  <2>3. effects'[k] + stray'[k] = effects[k] + stray[k]
    BY <1>1, <1>5, <1>8, <1>9, <2>2
  <2>4. QED
    BY <1>7, <2>1, <2>3
<1>10. Allowance'
  BY <1>4, <1>6, <1>9 DEF Allowance
<1>11. Unrecorded'
  <2>1. h <= minted
    BY <1>1, BoundsAssumption DEF Unrecorded, TypeOK, Ids
  <2>2. QED
    BY <1>1, <1>4, <1>5, <1>8, <2>1, BoundsAssumption DEF Unrecorded, TypeOK, Ids
<1>12. DoubtAfterWrite' /\ RoutedAsBound'
  BY <1>4 DEF DoubtAfterWrite, RoutedAsBound
<1>13. QED
  BY <1>5, <1>10, <1>11, <1>12 DEF Kept
(* A lost answer and a stop turn the permission of a written request into  *)
(* a request that may still arrive; what a stop finds in flight waits for  *)
(* a person after the restart.                                             *)
LEMMA LossOnce == OnceInv /\ (LoseAnswer \/ Stop) => Kept'
<1> SUFFICES ASSUME OnceInv, LoseAnswer \/ Stop PROVE Kept'
  OBVIOUS
<1> USE DEF OnceInv, SlotInv
<1> DEFINE h == http.id
<1>1. /\ UNCHANGED <<effects, seen, reviews, intent, binding, minted>>
      /\ stray' = IF http.stage = "written" THEN Astray(h) ELSE stray
      /\ http' = Quiet
  BY DEF LoseAnswer, Answer, Stop, ghosts
<1>2. journal' = journal
  BY DEF LoseAnswer, Stop, Durable
<1>3. \A k : Phase(k)' = Phase(k) /\ Safe(k)' = Safe(k)
  BY <1>1, <1>2 DEF Phase, Safe, Method
<1>4. \A k \in Ids : Unspent(k)' => Unspent(k)
  <2>1. CASE Stop
    BY <1>3, <2>1 DEF Stop, Unspent
  <2>2. CASE LoseAnswer
    <3>1. /\ op' = op /\ up' = up /\ http.stage # "none" /\ result.outcome = "none"
          /\ result'.id = h /\ result'.outcome = "uncertain"
      BY <2>2 DEF LoseAnswer, Answer, SlotOwned
    <3>2. SUFFICES ASSUME NEW k \in Ids, Unspent(k)', Phase(k) # "queued" PROVE Unspent(k)
      BY DEF Unspent
    <3>3. k # h
      BY <1>3, <3>1, <3>2 DEF Unspent, Refusal
    <3>4. QED
      BY <1>3, <3>1, <3>2, <3>3 DEF Unspent, Refusal
  <2>3. QED
    BY <2>1, <2>2
<1>5. ASSUME NEW k \in Ids, http.stage = "written", k = h
      PROVE  Unspent(k) /\ ~Unspent(k)' /\ k <= minted
  <2>2. Unspent(k) /\ Phase(k) = "sending"
    BY <1>5, WrittenUnspent
  <2>3. k <= minted
    BY <2>2, BoundsAssumption DEF Documented, Phase, TypeOK, Ids
  <2>4. CASE Stop
    BY <1>3, <2>2, <2>3, <2>4 DEF Stop, Unspent
  <2>5. CASE LoseAnswer
    BY <1>3, <1>5, <2>2, <2>3, <2>5 DEF LoseAnswer, Answer, Unspent, Refusal
  <2>6. QED
    BY <2>4, <2>5
<1>6. effects \in [Ids -> Nat] /\ stray \in [Ids -> Nat] /\ reviews \in [Ids -> Nat]
  BY DEF TypeOK
<1>7. ASSUME NEW k \in Ids, ~Safe(k)
      PROVE  effects[k] + stray'[k] + (IF Unspent(k)' THEN 1 ELSE 0) <= 1 + reviews[k]
  <2>1. effects[k] + stray[k] + (IF Unspent(k) THEN 1 ELSE 0) <= 1 + reviews[k]
    BY <1>7 DEF Allowance
  <2>2. effects[k] \in Nat /\ stray[k] \in Nat /\ reviews[k] \in Nat
    BY <1>6
  <2>3. CASE http.stage = "written" /\ k = h
    <3>1. effects[k] + stray[k] + 1 <= 1 + reviews[k] /\ ~Unspent(k)'
      BY <1>5, <2>1, <2>3
    <3>2. stray'[k] = stray[k] + 1
      BY <1>1, <1>6, <1>7, <2>3 DEF Astray
    <3>3. QED
      BY <2>2, <3>1, <3>2
  <2>4. CASE ~(http.stage = "written" /\ k = h)
    <3>1. stray'[k] = stray[k] /\ (Unspent(k)' => Unspent(k))
      BY <1>1, <1>4, <1>6, <2>4 DEF Astray
    <3>2. QED
      BY <2>1, <2>2, <3>1
  <2>5. QED
    BY <2>3, <2>4
<1>8. Allowance' /\ Remembered'
  BY <1>1, <1>3, <1>7 DEF Allowance, Remembered
<1>9. Unrecorded'
  <2>1. ASSUME NEW k \in Ids, k > minted PROVE stray'[k] = stray[k]
    <3>1. ~(http.stage = "written" /\ k = h)
      BY <1>5, <2>1, BoundsAssumption DEF TypeOK, Ids
    <3>2. QED
      BY <1>1, <1>6, <3>1 DEF Astray
  <2>2. QED
    BY <1>1, <2>1 DEF Unrecorded
<1>10. DoubtAfterWrite' /\ RoutedAsBound'
  <2>1. CASE Stop
    BY <1>1, <2>1 DEF Stop, DoubtAfterWrite, RoutedAsBound, Idle, Quiet, NoResult
  <2>2. CASE LoseAnswer
    BY <1>1, <2>2 DEF LoseAnswer, Answer, DoubtAfterWrite, RoutedAsBound, Quiet
  <2>3. QED
    BY <2>1, <2>2
<1>11. QED
  BY <1>8, <1>9, <1>10 DEF Kept

(* Recovery queues again only what is retry-safe.                          *)
LEMMA RestartOnce == OnceInv /\ Restart => Kept'
<1> SUFFICES ASSUME OnceInv, Restart PROVE Kept'
  OBVIOUS
<1>1. /\ UNCHANGED <<effects, stray, seen, reviews, intent, binding, minted>>
      /\ UNCHANGED <<op, http, result>>
  BY DEF Restart, service, ghosts, network
<1>2. journal'.phase = [i \in Ids |-> RecoveredPhase(i, journal.phase[i])]
  BY DEF Restart, Commit, OnceInv, SlotInv, TypeOK, Document
<1>3. \A i \in Ids : ~Safe(i) /\ Unspent(i)' => Unspent(i)
  BY <1>2 DEF Unspent, Phase, RecoveredPhase
<1>4. DoubtAfterWrite' /\ RoutedAsBound'
  BY <1>1 DEF OnceInv, DoubtAfterWrite, RoutedAsBound
<1>5. QED
  BY <1>1, <1>3, <1>4, AllowanceKept DEF Kept

(* A review that closes an entry permits nothing; a retry is counted.      *)
LEMMA ReviewOnce == OnceInv /\ (\E i \in Ids : Review(i)) => Kept'
<1> SUFFICES ASSUME OnceInv, NEW i \in Ids, Review(i) PROVE Kept'
  OBVIOUS
<1> USE DEF OnceInv, SlotInv
<1>1. journal \in Document
  BY DEF TypeOK
<1>2. /\ UNCHANGED <<effects, stray, seen, intent, binding, minted>>
      /\ UNCHANGED <<op, http, result, up>> /\ Phase(i) = "attention"
  BY DEF Review, RetryReviewed, DismissReviewed, ConfirmReviewedAsset,
         LinkReviewedRecord, CanReview, service, network
<1>3. DoubtAfterWrite' /\ RoutedAsBound'
  BY <1>2 DEF DoubtAfterWrite, RoutedAsBound
<1>4. CASE RetryReviewed(i)
  <2>1. journal'.phase = [journal.phase EXCEPT ![i] = "queued"]
    BY <1>1, <1>4, SetPhaseFacts DEF RetryReviewed, Commit, Phases
  <2>2. \A k \in Ids : k # i => Phase(k)' = Phase(k)
    BY <1>1, <2>1 DEF Phase
  <2>3. \A k \in Ids : k # i => (Unspent(k)' => Unspent(k))
    BY <1>2, <2>2 DEF Unspent
  <2>4. ~Unspent(i)
    BY <1>2 DEF Unspent
  <2>5. effects \in [Ids -> Nat] /\ stray \in [Ids -> Nat] /\ reviews \in [Ids -> Nat]
    BY DEF TypeOK
  <2>6. reviews' = [reviews EXCEPT ![i] = @ + 1]
    BY <1>4 DEF RetryReviewed
  <2>7. ASSUME NEW k \in Ids, ~Safe(k)
        PROVE  effects[k] + stray[k] + (IF Unspent(k)' THEN 1 ELSE 0) <= 1 + reviews'[k]
    <3>1. effects[k] + stray[k] + (IF Unspent(k) THEN 1 ELSE 0) <= 1 + reviews[k]
      BY <2>7 DEF Allowance
    <3>2. effects[k] \in Nat /\ stray[k] \in Nat /\ reviews[k] \in Nat
      BY <2>5
    <3>3. CASE k = i
      <4>1. reviews'[k] = reviews[k] + 1 /\ effects[k] + stray[k] <= 1 + reviews[k]
        BY <2>4, <2>5, <2>6, <3>1, <3>2, <3>3
      <4>2. QED
        BY <3>2, <4>1
    <3>4. CASE k # i
      <4>1. reviews'[k] = reviews[k] /\ (Unspent(k)' => Unspent(k))
        BY <2>3, <2>5, <2>6, <3>4
      <4>2. QED
        BY <3>1, <3>2, <4>1
    <3>5. QED
      BY <3>3, <3>4
  <2>8. \A k : Safe(k)' = Safe(k)
    BY <1>2 DEF Safe, Method
  <2>9. Unrecorded' /\ Allowance' /\ Remembered'
    BY <1>2, <2>7, <2>8 DEF Unrecorded, Allowance, Remembered
  <2>10. QED
    BY <1>3, <2>9 DEF Kept
<1>5. CASE DismissReviewed(i) \/ ConfirmReviewedAsset(i) \/ LinkReviewedRecord(i)
  <2>1. journal'.phase = [journal.phase EXCEPT ![i] = "absent"]
    <3>1. /\ Remove(journal, i).phase = [journal.phase EXCEPT ![i] = "absent"]
          /\ Applied(i, "ok", FALSE).phase = [journal.phase EXCEPT ![i] = "absent"]
      BY <1>1, RemoveFacts, AppliedFacts
    <3>2. QED
      BY <1>5, <3>1 DEF DismissReviewed, ConfirmReviewedAsset, LinkReviewedRecord, Commit
  <2>2. \A k \in Ids : Phase(k)' = IF k = i THEN "absent" ELSE Phase(k)
    BY <1>1, <2>1 DEF Phase, Document
  <2>3. \A k \in Ids : Unspent(k)' => Unspent(k)
    BY <1>2, <2>2 DEF Unspent
  <2>4. reviews' = reviews
    BY <1>5 DEF DismissReviewed, ConfirmReviewedAsset, LinkReviewedRecord
  <2>5. QED
    BY <1>2, <1>3, <2>3, <2>4, AllowanceKept DEF Kept
<1>6. QED
  BY <1>4, <1>5 DEF Review

(* A new entry may be written once, and nothing was done for it before.    *)
LEMMA QueueOnce == OnceInv /\ QueueUpdate => Kept'
<1> SUFFICES ASSUME OnceInv, QueueUpdate PROVE Kept'
  OBVIOUS
<1> USE DEF OnceInv, SlotInv
<1> DEFINE m == minted + 1
<1>1. PICK n \in Intents :
        /\ intent' = [intent EXCEPT ![m] = n]
        /\ binding' = [binding EXCEPT ![m] = BindingFor(n)]
        /\ Commit(Appended(n, m))
  BY DEF QueueUpdate
<1>2. /\ UNCHANGED <<effects, stray, seen, reviews, up, http, result>>
      /\ op.kind = "queue" /\ op'.kind = "queue"
  BY DEF QueueUpdate, service, network, TypeOK, Operation
<1>3. minted' = m /\ m \in Ids /\ minted \in Nat
  BY BoundsAssumption DEF QueueUpdate, TypeOK, Ids
<1>4. \A k \in Ids : k # m => Phase(k)' = Phase(k)
  <2>1. journal'.phase = [journal.phase EXCEPT ![m] = "queued"]
    BY <1>1, AppendedFacts DEF Commit
  <2>2. QED
    BY <2>1 DEF Phase, TypeOK, Document
<1>5. \A k \in Ids : k # m => Safe(k)' = Safe(k) /\ binding'[k] = binding[k]
  BY <1>1 DEF Safe, Method, TypeOK
<1>6. \A k \in Ids : k # m => (Unspent(k)' => Unspent(k))
  BY <1>2, <1>4 DEF Unspent
<1>7. effects[m] = 0 /\ stray[m] = 0 /\ Phase(m) = "absent"
  BY <1>3 DEF Unrecorded, Documented, Phase
<1>8. effects \in [Ids -> Nat] /\ stray \in [Ids -> Nat] /\ reviews \in [Ids -> Nat]
  BY DEF TypeOK
<1>9. ASSUME NEW k \in Ids, ~Safe(k)'
      PROVE  effects[k] + stray[k] + (IF Unspent(k)' THEN 1 ELSE 0) <= 1 + reviews[k]
  <2>1. effects[k] \in Nat /\ stray[k] \in Nat /\ reviews[k] \in Nat
    BY <1>8
  <2>2. CASE k = m
    BY <1>7, <2>1, <2>2
  <2>3. CASE k # m
    <3>1. effects[k] + stray[k] + (IF Unspent(k) THEN 1 ELSE 0) <= 1 + reviews[k]
      BY <1>5, <1>9, <2>3 DEF Allowance
    <3>2. Unspent(k)' => Unspent(k)
      BY <1>6, <2>3
    <3>3. QED
      BY <2>1, <3>1, <3>2
  <2>4. QED
    BY <2>2, <2>3
<1>10. Allowance'
  BY <1>2, <1>9 DEF Allowance
<1>11. Remembered'
  BY <1>2, <1>5, <1>7 DEF Remembered
<1>12. Unrecorded' /\ DoubtAfterWrite'
  <2>1. \A k \in Ids : k > m => k > minted
    BY <1>3 DEF Ids
  <2>2. QED
    BY <1>2, <1>3, <2>1 DEF Unrecorded, DoubtAfterWrite
<1>13. RoutedAsBound'
  <2>1. http.stage # "none" => http.id \in Ids /\ http.id # m
    BY <1>7, CallFields DEF Stations, TypeOK
  <2>2. QED
    BY <1>2, <1>5, <2>1 DEF RoutedAsBound
<1>14. QED
  BY <1>10, <1>11, <1>12, <1>13 DEF Kept

LEMMA NextOnce == OnceInv /\ [Next]_vars => OnceInv'
<1> SUFFICES ASSUME OnceInv, [Next]_vars PROVE OnceInv'
  OBVIOUS
<1>1. SlotInv'
  BY NextSlot DEF OnceInv
<1>2. CASE Next
  <2>1. Durable'
    BY <1>2, NextDurable DEF OnceInv
  <2>2. Kept'
    BY <1>2, QueueOnce, WorkflowOnce, PollOnce, SavesOnce, HandOverOnce, ServeOnce,
       StrayOnce, LossOnce, RestartOnce, ReviewOnce DEF Next, Workflow, Network
  <2>3. QED
    BY <1>1, <2>1, <2>2 DEF Kept, OnceInv
<1>3. CASE UNCHANGED vars
  <2>1. /\ UNCHANGED <<effects, stray, seen, reviews, intent, binding, minted>>
        /\ UNCHANGED <<journal, prior, up, op, http, result>>
    BY <1>3 DEF vars, service, ghosts, network
  <2>2. Durable' /\ DoubtAfterWrite' /\ RoutedAsBound'
    BY <2>1 DEF OnceInv, Durable, DoubtAfterWrite, RoutedAsBound
  <2>3. \A i \in Ids : Unspent(i)' => Unspent(i)
    BY <2>1 DEF Unspent, Phase
  <2>4. QED
    BY <1>1, <2>1, <2>2, <2>3, AllowanceKept DEF OnceInv
<1>4. QED
  BY <1>2, <1>3

(* Whatever is lost, crashes or arrives late, the service carries an update *)
(* out at most once, plus once for each retry an administrator authorised,  *)
(* if a rename is not undone by a power loss.                               *)
THEOREM CarriedOutAtMostOnce ==
  ASSUME LazyRename = FALSE
  PROVE  Spec => []AtMostOnce
<1>1. OnceInv => AtMostOnce
  <2>1. SUFFICES ASSUME OnceInv, NEW i \in Ids, ~Safe(i) \/ binding[i] # Unbound
                 PROVE  effects[i] <= 1 + reviews[i]
    BY DEF AtMostOnce
  <2>2. effects[i] \in Nat /\ stray[i] \in Nat /\ reviews[i] \in Nat
    BY <2>1 DEF OnceInv, SlotInv, TypeOK
  <2>3. CASE ~Safe(i)
    <3>1. effects[i] + stray[i] + (IF Unspent(i) THEN 1 ELSE 0) <= 1 + reviews[i]
      BY <2>1, <2>3 DEF OnceInv, Allowance
    <3>2. QED
      BY <2>2, <3>1
  <2>4. CASE Safe(i)
    <3>1. effects[i] = 0 \/ effects[i] = 1
      BY <2>1, <2>4 DEF OnceInv, Remembered
    <3>2. QED
      BY <2>2, <3>1
  <2>5. QED
    BY <2>3, <2>4
<1>2. Init => OnceInv
  BY InitOnce
<1>3. QED
  BY <1>1, <1>2, NextOnce, PTL DEF Spec
=============================================================================
