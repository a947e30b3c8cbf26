---------------------------- MODULE DeliveryOrder ----------------------------
(* The order in which updates reach the service, and what the journal owes, *)
(* for every value of the constants: creations come first also when a power *)
(* loss brings an older file back; without that, lanes keep their order,    *)
(* nothing is lost, nothing is misrouted, and the coordinator implements    *)
(* OutboxContract.                                                          *)
EXTENDS DeliveryProofs

-----------------------------------------------------------------------------
(* Documents whose entries and references fit together.                    *)

Pending(d, i) == d.phase[i] # "absent"
Creates(i) == Method(i) = "create"
Dependent(i) == Method(i) # "create" /\ About(i) # None

(* A pending entry waits exactly while the record it is about is local,    *)
(* and a record is local exactly while its creation is pending.            *)
WaitsFit(d) == \A i \in Ids : Pending(d, i) =>
  /\ Dependent(i) /\ d.waits[i] => d.ref[About(i)] = "local"
  /\ Dependent(i) /\ ~d.waits[i] => d.ref[About(i)] = "remote"
  /\ d.waits[i] => Dependent(i)
  /\ Creates(i) => d.ref[About(i)] = "local"

CreationsFit(d) == \A r \in Records :
  d.ref[r] = "local" => \E j \in Ids : Pending(d, j) /\ Creates(j) /\ About(j) = r

Sound(d) == WaitsFit(d) /\ CreationsFit(d)

(* No record is created twice, whatever a power loss took back.            *)
CreatedOnce == \A i, j \in Ids : Creates(i) /\ Creates(j) /\ About(i) = About(j) => i = j

(* Everything that must be decided before j is decided in d.               *)
Cleared(d, j) ==
  /\ \A i \in Ids :
       i < j /\ SameLane(i, j) /\ Method(i) \in OrderedMethods => d.phase[i] = "absent"
  /\ Dependent(j) => d.ref[About(j)] = "remote"

(* The journal and the file a power loss would bring back agree on that.   *)
Decided(j) == Cleared(journal, j) /\ Cleared(prior, j)

Sent(j) == effects[j] + stray[j] > 0

SentDecided == \A j \in Ids : Sent(j) => j <= minted /\ Decided(j)

CallDecided ==
  /\ http.stage # "none" => Decided(http.id)
  /\ op.kind = "prepare" => Cleared(journal, op.id)
  /\ op.kind = "prepare" /\ op.stage = "done" => Decided(op.id)

OrderInv ==
  /\ SlotInv /\ CreatedOnce /\ Sound(journal) /\ Sound(prior)
  /\ SentDecided /\ CallDecided

-----------------------------------------------------------------------------
(* How a step changes the document.                                        *)

(* The same entries and references.                                        *)
Rewritten(d) ==
  /\ d.waits = journal.waits /\ d.ref = journal.ref /\ d.home = journal.home
  /\ \A i \in Ids : d.phase[i] = "absent" <=> Phase(i) = "absent"

(* One entry less, and if it was a creation, its record resolved.          *)
Dropped(d, k) == ~Creates(k) /\ d = Remove(journal, k)
Resolved(d, k) == Creates(k) /\ d = Resolve(Remove(journal, k), About(k))

Stays ==
  /\ UNCHANGED <<minted, intent, binding>> /\ journal' = journal
  /\ prior' \in {prior, journal}

FallsBack ==
  /\ UNCHANGED <<minted, intent, binding>> /\ ~up'
  /\ journal' \in {journal, prior} /\ prior' = journal'

Changes ==
  /\ UNCHANGED <<minted, intent, binding>> /\ prior' \in {prior, journal, journal'}
  /\ \/ Rewritten(journal')
     \/ \E k \in Ids : Pending(journal, k) /\ (Dropped(journal', k) \/ Resolved(journal', k))

LEMMA AppliedShape ==
  ASSUME SlotInv, NEW k \in Ids, Pending(journal, k), NEW outcome, NEW sent
  PROVE  LET d == Applied(k, outcome, sent) IN
         Rewritten(d) \/ Dropped(d, k) \/ Resolved(d, k)
<1> PICK d : d = Applied(k, outcome, sent)
  OBVIOUS
<1>1. journal \in Document
  BY DEF SlotInv, TypeOK
<1>2. CASE outcome = "ok"
  BY <1>2 DEF Applied, Delivered, Dropped, Resolved, Creates
<1>3. CASE outcome # "ok"
  <2>1. d.phase = [journal.phase EXCEPT ![k] = AfterError(k, outcome, sent)]
    BY <1>1, <1>3, AppliedFacts
  <2>2. AfterError(k, outcome, sent) # "absent"
    BY DEF AfterError
  <2>3. \A i \in Ids : d.phase[i] = "absent" <=> Phase(i) = "absent"
    BY <1>1, <2>1, <2>2 DEF Phase, Pending, Document
  <2>4. d.waits = journal.waits /\ d.ref = journal.ref /\ d.home = journal.home
    BY <1>1, <1>3 DEF Applied, Delivered, SetPhase, Document
  <2>5. QED
    BY <2>3, <2>4 DEF Rewritten
<1>4. QED
  BY <1>2, <1>3

LEMMA PhaseShape ==
  ASSUME SlotInv, NEW k \in Ids, Pending(journal, k), NEW p \in Phases, p # "absent"
  PROVE  Rewritten(SetPhase(journal, k, p))
<1>1. journal \in Document
  BY DEF SlotInv, TypeOK
<1>2. SetPhase(journal, k, p).phase = [journal.phase EXCEPT ![k] = p]
  BY <1>1, SetPhaseFacts
<1>3. \A i \in Ids : SetPhase(journal, k, p).phase[i] = "absent" <=> Phase(i) = "absent"
  BY <1>1, <1>2 DEF Phase, Pending, Document
<1>4. QED
  BY <1>1, <1>3 DEF Rewritten, SetPhase, Document

LEMMA SavesShape == SlotInv /\ Saves => Changes
<1> SUFFICES ASSUME SlotInv, Saves PROVE Changes
  OBVIOUS
<1>1. /\ op.stage = "running" /\ op.kind \in {"expire", "prepare", "ack"}
      /\ UNCHANGED <<minted, intent, binding>>
  BY DEF Saves, ExpireSaved, PrepareSaved, AckSaved
<1>2. op.id \in Ids /\ Pending(journal, op.id)
  <2>1. op.id \in Ids
    BY <1>1, OperationFields DEF SlotInv, TypeOK
  <2>2. QED
    BY <1>1, <2>1 DEF SlotInv, Stations, Pending, Phase
<1>3. "attention" \in Phases /\ "sending" \in Phases
  BY DEF Phases
<1>4. PICK d : Commit(d) /\ (Rewritten(d) \/ Dropped(d, op.id) \/ Resolved(d, op.id))
  <2>1. CASE ExpireSaved
    BY <1>2, <1>3, <2>1, PhaseShape DEF ExpireSaved, Expired
  <2>2. CASE PrepareSaved
    BY <1>2, <1>3, <2>2, PhaseShape DEF PrepareSaved, Prepared
  <2>3. CASE AckSaved
    BY <1>2, <2>3, AppliedShape DEF AckSaved
  <2>4. QED
    BY <2>1, <2>2, <2>3 DEF Saves
<1>5. QED
  BY <1>1, <1>2, <1>4 DEF Commit, Changes

LEMMA ReviewShape == SlotInv /\ (\E i \in Ids : Review(i)) => Changes
<1> SUFFICES ASSUME SlotInv, NEW i \in Ids, Review(i) PROVE Changes
  OBVIOUS
<1>1. UNCHANGED <<minted, intent, binding>> /\ Pending(journal, i)
  BY DEF Review, RetryReviewed, DismissReviewed, ConfirmReviewedAsset,
         LinkReviewedRecord, CanReview, Phase, Pending
<1>2. "queued" \in Phases
  BY DEF Phases
<1>3. PICK d : Commit(d) /\ (Rewritten(d) \/ Dropped(d, i) \/ Resolved(d, i))
  <2>1. CASE RetryReviewed(i)
    BY <1>1, <1>2, <2>1, PhaseShape DEF RetryReviewed
  <2>2. CASE DismissReviewed(i)
    BY <2>2 DEF DismissReviewed, Dropped, Creates
  <2>3. CASE ConfirmReviewedAsset(i)
    BY <1>1, <2>3, AppliedShape DEF ConfirmReviewedAsset
  <2>4. CASE LinkReviewedRecord(i)
    BY <1>1, <2>4, AppliedShape DEF LinkReviewedRecord
  <2>5. QED
    BY <2>1, <2>2, <2>3, <2>4 DEF Review
<1>4. QED
  BY <1>1, <1>3 DEF Commit, Changes

LEMMA Shapes == SlotInv /\ [Next]_vars => Stays \/ FallsBack \/ Changes \/ QueueUpdate
<1> SUFFICES ASSUME SlotInv, [Next]_vars, ~QueueUpdate PROVE Stays \/ FallsBack \/ Changes
  OBVIOUS
<1>1. journal \in Document
  BY DEF SlotInv, TypeOK
<1>2. CASE Saves \/ \E i \in Ids : Review(i)
  BY <1>2, SavesShape, ReviewShape
<1>3. CASE Restart
  <2> PICK f : f = [i \in Ids |-> RecoveredPhase(i, journal.phase[i])]
    OBVIOUS
  <2>1. \A i \in Ids : f[i] = "absent" <=> Phase(i) = "absent"
    BY DEF RecoveredPhase, Phase
  <2>2. Commit([journal EXCEPT !.phase = f]) /\ UNCHANGED <<minted, intent, binding>>
    BY <1>3 DEF Restart
  <2>3. Rewritten([journal EXCEPT !.phase = f])
    BY <1>1, <2>1 DEF Rewritten, Document
  <2>4. QED
    BY <2>2, <2>3 DEF Commit, Changes
<1>4. CASE PauseEnds
  <2>1. Rewritten([journal EXCEPT !.paused = FALSE])
    BY <1>1 DEF Rewritten, Document, Phase
  <2>2. QED
    BY <1>4, <2>1 DEF PauseEnds, Changes
<1>5. CASE Stop
  BY <1>5 DEF Stop, FallsBack
<1>6. CASE UNCHANGED vars \/ BeginOperation \/ QueueAgain \/ EndOperation \/ OperationFails
             \/ Poll \/ PrepareBreaks \/ SelectConnector \/ WindowPasses \/ RenameSettles
  BY <1>6 DEF vars, BeginOperation, QueueAgain, EndOperation, OperationFails, Poll,
              PollResult, PollExpired, PollStart, PrepareBreaks, SelectConnector,
              WindowPasses, RenameSettles, Stays
<1>7. CASE Callbacks \/ Network \/ StrayArrives
  BY <1>7 DEF Callbacks, Dispatch, DispatchFails, PrepareGivesUp, AckDone, AckFailed,
              Network, SendRequest, Serve, Respond, Reject, Refuse, LoseAnswer,
              StrayArrives, Stays
<1>8. QED
  BY <1>2, <1>3, <1>4, <1>5, <1>6, <1>7 DEF Next, Workflow

-----------------------------------------------------------------------------
(* Every document stays sound.                                             *)

LEMMA Abouts ==
  ASSUME TypeOK, NEW i \in Ids
  PROVE  /\ Creates(i) => About(i) \in Records /\ intent[i].target = About(i)
         /\ Dependent(i) => About(i) \in Records
<1>1. intent[i] \in Intents \union {NoIntent}
  BY DEF TypeOK
<1>2. CASE intent[i] = NoIntent
  BY <1>2 DEF NoIntent, Creates, Dependent, Method, About
<1>3. CASE intent[i] \in Intents
  <2>1. intent[i].about \in Records \union {None}
    BY <1>3, IntentAssumption DEF Intent
  <2>2. Creates(i) => intent[i].target \in Records /\ intent[i].about = intent[i].target
    BY <1>3, IntentAssumption DEF Creates, Method, RecordMethods
  <2>3. QED
    BY <2>1, <2>2 DEF Creates, Dependent, About
<1>4. QED
  BY <1>1, <1>2, <1>3

LEMMA SoundRewritten ==
  ASSUME Sound(journal), NEW d, Rewritten(d) PROVE Sound(d)
<1>1. \A i \in Ids : Pending(d, i) <=> Pending(journal, i)
  BY DEF Rewritten, Pending, Phase
<1>2. d.waits = journal.waits /\ d.ref = journal.ref
  BY DEF Rewritten
<1>3. WaitsFit(d)
  BY <1>1, <1>2 DEF Sound, WaitsFit
<1>4. CreationsFit(d)
  BY <1>1, <1>2 DEF Sound, CreationsFit
<1>5. QED
  BY <1>3, <1>4 DEF Sound

LEMMA SoundDropped ==
  ASSUME TypeOK, Sound(journal), NEW k \in Ids, NEW d, Dropped(d, k) PROVE Sound(d)
<1>1. journal \in Document
  BY DEF TypeOK
<1>2. d.ref = journal.ref
  BY <1>1 DEF Dropped, Remove, Document
<1>3. \A i \in Ids : Pending(d, i) <=> i # k /\ Pending(journal, i)
  BY <1>1 DEF Dropped, Remove, Document, Pending
<1>4. \A i \in Ids : i # k => d.waits[i] = journal.waits[i]
  BY <1>1 DEF Dropped, Remove, Document
<1>5. WaitsFit(d)
  BY <1>2, <1>3, <1>4 DEF Sound, WaitsFit
<1>6. CreationsFit(d)
  BY <1>2, <1>3 DEF Sound, CreationsFit, Dropped
<1>7. QED
  BY <1>5, <1>6 DEF Sound

LEMMA ResolvedFacts ==
  ASSUME TypeOK, NEW k \in Ids, NEW d, Resolved(d, k)
  PROVE  /\ About(k) \in Records
         /\ d.ref[About(k)] = "remote"
         /\ \A r \in Records : r # About(k) => d.ref[r] = journal.ref[r]
         /\ \A i \in Ids : Pending(d, i) <=> i # k /\ Pending(journal, i)
         /\ \A i \in Ids : i # k => (d.waits[i] <=> journal.waits[i] /\ About(i) # About(k))
<1>1. journal \in Document
  BY DEF TypeOK
<1>2. About(k) \in Records
  BY Abouts DEF Resolved
<1>3. PICK e : e = Remove(journal, k)
  OBVIOUS
<1>4. e \in Document /\ e.phase = [journal.phase EXCEPT ![k] = "absent"]
  BY <1>1, <1>3, RemoveFacts
<1>5. e.ref = journal.ref /\ \A i \in Ids : i # k => e.waits[i] = journal.waits[i]
  BY <1>1, <1>3 DEF Remove, Document
<1>6. d = Resolve(e, About(k))
  BY <1>3 DEF Resolved
<1>7. d.phase = e.phase
  BY <1>4, <1>6, ResolveFacts
<1>8. d.ref = [e.ref EXCEPT ![About(k)] = "remote"]
  BY <1>4, <1>6 DEF Resolve, Document
<1>9. d.waits = [i \in Ids |-> e.waits[i] /\ About(i) # About(k)]
  BY <1>4, <1>6 DEF Resolve, Document
<1>10. \A i \in Ids : d.waits[i] <=> e.waits[i] /\ About(i) # About(k)
  BY <1>9, Zenon
<1>11. \A i \in Ids : Pending(d, i) <=> i # k /\ Pending(journal, i)
  BY <1>1, <1>4, <1>7 DEF Pending, Document
<1>12. /\ d.ref[About(k)] = "remote"
       /\ \A r \in Records : r # About(k) => d.ref[r] = journal.ref[r]
  BY <1>1, <1>2, <1>5, <1>8 DEF Document
<1>13. \A i \in Ids : i # k => (d.waits[i] <=> journal.waits[i] /\ About(i) # About(k))
  BY <1>5, <1>10, Zenon
<1>14. QED
  BY <1>2, <1>11, <1>12, <1>13

LEMMA SoundResolved ==
  ASSUME TypeOK, CreatedOnce, Sound(journal), NEW k \in Ids, NEW d, Resolved(d, k)
  PROVE  Sound(d)
<1>1. Creates(k)
  BY DEF Resolved
<1>2. WaitsFit(d)
  <2> SUFFICES ASSUME NEW i \in Ids, Pending(d, i)
               PROVE  /\ Dependent(i) /\ d.waits[i] => d.ref[About(i)] = "local"
                      /\ Dependent(i) /\ ~d.waits[i] => d.ref[About(i)] = "remote"
                      /\ d.waits[i] => Dependent(i)
                      /\ Creates(i) => d.ref[About(i)] = "local"
    BY DEF WaitsFit
  <2>1. i # k /\ Pending(journal, i)
    BY ResolvedFacts
  <2>2. d.waits[i] <=> journal.waits[i] /\ About(i) # About(k)
    BY <2>1, ResolvedFacts
  <2>3. /\ Dependent(i) /\ journal.waits[i] => journal.ref[About(i)] = "local"
        /\ Dependent(i) /\ ~journal.waits[i] => journal.ref[About(i)] = "remote"
        /\ journal.waits[i] => Dependent(i)
        /\ Creates(i) => journal.ref[About(i)] = "local"
    BY <2>1 DEF Sound, WaitsFit
  <2>4. Creates(i) => About(i) # About(k)
    BY <1>1, <2>1 DEF CreatedOnce
  <2>5. /\ d.ref[About(k)] = "remote"
        /\ About(i) \in Records /\ About(i) # About(k) => d.ref[About(i)] = journal.ref[About(i)]
    BY ResolvedFacts
  <2>6. Creates(i) \/ Dependent(i) => About(i) \in Records
    BY Abouts
  <2>7. QED
    BY <2>2, <2>3, <2>4, <2>5, <2>6
<1>3. CreationsFit(d)
  <2> SUFFICES ASSUME NEW r \in Records, d.ref[r] = "local"
               PROVE  \E j \in Ids : Pending(d, j) /\ Creates(j) /\ About(j) = r
    BY DEF CreationsFit
  <2>1. r # About(k) /\ journal.ref[r] = "local"
    BY ResolvedFacts
  <2>2. PICK j \in Ids : Pending(journal, j) /\ Creates(j) /\ About(j) = r
    BY <2>1 DEF Sound, CreationsFit
  <2>3. QED
    BY <2>1, <2>2, ResolvedFacts
<1>4. QED
  BY <1>2, <1>3 DEF Sound

(* What recording an update does, entry by entry.                          *)
LEMMA QueueFacts ==
  ASSUME SlotInv, QueueUpdate
  PROVE  \E n \in Intents :
           /\ Askable(n) /\ Commit(Appended(n, minted + 1))
           /\ minted + 1 \in Ids /\ minted' = minted + 1 /\ minted \in Nat
           /\ intent' = [intent EXCEPT ![minted + 1] = n]
           /\ binding' = [binding EXCEPT ![minted + 1] = BindingFor(n)]
           /\ intent'[minted + 1] = n /\ binding'[minted + 1] = BindingFor(n)
           /\ \A i \in Ids : i # minted + 1 =>
                intent'[i] = intent[i] /\ binding'[i] = binding[i]
           /\ \A d \in {journal, prior} : ~Pending(d, minted + 1)
<1>1. PICK n \in Intents :
        /\ Askable(n) /\ Commit(Appended(n, minted + 1))
        /\ intent' = [intent EXCEPT ![minted + 1] = n]
        /\ binding' = [binding EXCEPT ![minted + 1] = BindingFor(n)]
  BY DEF QueueUpdate
<1>2. minted + 1 \in Ids /\ minted' = minted + 1 /\ minted \in Nat
  BY BoundsAssumption DEF QueueUpdate, SlotInv, TypeOK, Ids
<1>3. /\ intent'[minted + 1] = n /\ binding'[minted + 1] = BindingFor(n)
      /\ \A i \in Ids : i # minted + 1 => intent'[i] = intent[i] /\ binding'[i] = binding[i]
  BY <1>1, <1>2 DEF SlotInv, TypeOK
<1>4. \A d \in {journal, prior} : ~Pending(d, minted + 1)
  BY <1>2 DEF SlotInv, Documented, Pending
<1>5. QED
  BY <1>1, <1>2, <1>3, <1>4

LEMMA AppendedParts ==
  ASSUME TypeOK, NEW n \in Intents, NEW m \in Ids, NEW d, d = Appended(n, m)
  PROVE  /\ \A i \in Ids : Pending(d, i) <=> i = m \/ Pending(journal, i)
         /\ \A i \in Ids : i # m => d.waits[i] = journal.waits[i]
         /\ d.waits[m] <=> n.method # "create" /\ n.about # None
                             /\ journal.ref[n.about] = "local"
         /\ n.method # "create" => d.ref = journal.ref
         /\ n.method = "create" => /\ n.target \in Records /\ d.ref[n.target] = "local"
                                   /\ \A r \in Records : r # n.target => d.ref[r] = journal.ref[r]
<1>1. journal \in Document
  BY DEF TypeOK
<1>2. d.phase = [journal.phase EXCEPT ![m] = "queued"]
  BY AppendedFacts
<1>3. d.waits = [journal.waits EXCEPT ![m] =
                   n.method # "create" /\ n.about # None /\ journal.ref[n.about] = "local"]
  BY DEF Appended
<1>4. d.ref = IF n.method = "create" THEN [journal.ref EXCEPT ![n.target] = "local"]
              ELSE journal.ref
  BY DEF Appended
<1>5. n.method = "create" => n.target \in Records
  BY IntentAssumption DEF RecordMethods
<1>6. \A i \in Ids : Pending(d, i) <=> i = m \/ Pending(journal, i)
  BY <1>1, <1>2 DEF Pending, Document
<1>7. journal.waits \in [Ids -> BOOLEAN]
  BY <1>1, Zenon DEF Document
<1>8. d.waits[m] <=> n.method # "create" /\ n.about # None /\ journal.ref[n.about] = "local"
  BY <1>3, <1>7, Zenon
<1>9. \A i \in Ids : i # m => d.waits[i] = journal.waits[i]
  BY <1>3, <1>7, Zenon
<1>10. n.method # "create" => d.ref = journal.ref
  BY <1>4
<1>11. n.method = "create" => /\ d.ref[n.target] = "local"
                              /\ \A r \in Records : r # n.target => d.ref[r] = journal.ref[r]
  BY <1>1, <1>4, <1>5 DEF Document
<1>12. QED
  BY <1>5, <1>6, <1>8, <1>9, <1>10, <1>11

LEMMA SameMeaning ==
  ASSUME NEW i, intent'[i] = intent[i]
  PROVE  /\ Method(i)' = Method(i) /\ About(i)' = About(i) /\ Expires(i)' = Expires(i)
         /\ Creates(i)' = Creates(i) /\ Dependent(i)' = Dependent(i) /\ Safe(i)' = Safe(i)
BY DEF Method, About, Expires, Creates, Dependent, Safe

(* A document that does not know the new entry means what it meant.        *)
LEMMA SoundOlder ==
  ASSUME NEW e, NEW m, Sound(e), ~Pending(e, m),
         \A i \in Ids : i # m => intent'[i] = intent[i]
  PROVE  Sound(e)'
<1>1. \A i \in Ids : Pending(e, i) =>
        i # m /\ Creates(i)' = Creates(i) /\ Dependent(i)' = Dependent(i) /\ About(i)' = About(i)
  BY SameMeaning
<1>2. WaitsFit(e)'
  BY <1>1 DEF Sound, WaitsFit, Pending
<1>3. CreationsFit(e)'
  BY <1>1 DEF Sound, CreationsFit, Pending
<1>4. QED
  BY <1>2, <1>3 DEF Sound

LEMMA SoundAppended ==
  ASSUME SlotInv, CreatedOnce, Sound(journal), QueueUpdate
  PROVE  CreatedOnce' /\ Sound(journal)'
<1> PICK m : m = minted + 1
  OBVIOUS
<1>1. PICK n \in Intents :
        /\ Askable(n) /\ Commit(Appended(n, m)) /\ m \in Ids /\ intent'[m] = n
        /\ \A i \in Ids : i # m => intent'[i] = intent[i]
        /\ ~Pending(journal, m)
  BY QueueFacts
<1>2. PICK d : d = Appended(n, m)
  OBVIOUS
<1>3. journal' = d
  BY <1>1, <1>2 DEF Commit
<1>4. TypeOK
  BY DEF SlotInv
<1>5. /\ Creates(m)' <=> n.method = "create"
      /\ Dependent(m)' <=> n.method # "create" /\ n.about # None
      /\ About(m)' = n.about
  BY <1>1 DEF Creates, Dependent, Method, About
<1>6. n.method = "create" => n.about = n.target
  BY IntentAssumption DEF RecordMethods
<1>7. \A i \in Ids : i # m =>
        Creates(i)' = Creates(i) /\ Dependent(i)' = Dependent(i) /\ About(i)' = About(i)
  BY <1>1, SameMeaning
<1>8. n.method = "create" => \A i \in Ids : Creates(i) => About(i) # n.target
  <2>1. n.method = "create" => \A i \in Ids : Creates(i) => intent[i].target # n.target
    BY <1>1 DEF Askable, Creates, Method
  <2>2. QED
    BY <1>4, <2>1, Abouts
<1>9. CreatedOnce'
  BY <1>5, <1>6, <1>7, <1>8 DEF CreatedOnce
<1>10. n.method = "create" => journal.ref[n.target] = "none"
  BY <1>1 DEF Askable
<1>11. n.method # "create" /\ n.about # None => journal.ref[n.about] \in {"local", "remote"}
  <2>1. n.about \in Records \union {None}
    BY IntentAssumption DEF Intent
  <2>2. n.method # "create" /\ n.about # None => journal.ref[n.about] # "none"
    BY <1>1 DEF Askable
  <2>3. QED
    BY <1>4, <2>1, <2>2 DEF TypeOK, Document
<1>12. WaitsFit(d)'
  <2> SUFFICES ASSUME NEW i \in Ids, Pending(d, i)
               PROVE  /\ Dependent(i)' /\ d.waits[i] => d.ref[About(i)'] = "local"
                      /\ Dependent(i)' /\ ~d.waits[i] => d.ref[About(i)'] = "remote"
                      /\ d.waits[i] => Dependent(i)'
                      /\ Creates(i)' => d.ref[About(i)'] = "local"
    BY DEF WaitsFit, Pending
  <2>1. CASE i = m
    <3>1. d.waits[m] <=> n.method # "create" /\ n.about # None /\ journal.ref[n.about] = "local"
      BY <1>1, <1>2, <1>4, AppendedParts
    <3>2. /\ n.method # "create" => d.ref = journal.ref
          /\ n.method = "create" => d.ref[n.target] = "local"
      BY <1>1, <1>2, <1>4, AppendedParts
    <3>3. QED
      BY <1>5, <1>6, <1>11, <2>1, <3>1, <3>2
  <2>2. CASE i # m
    <3>1. Pending(journal, i) /\ d.waits[i] = journal.waits[i]
      BY <1>1, <1>2, <1>4, <2>2, AppendedParts
    <3>2. /\ Dependent(i) /\ journal.waits[i] => journal.ref[About(i)] = "local"
          /\ Dependent(i) /\ ~journal.waits[i] => journal.ref[About(i)] = "remote"
          /\ journal.waits[i] => Dependent(i)
          /\ Creates(i) => journal.ref[About(i)] = "local"
      BY <3>1 DEF Sound, WaitsFit
    <3>3. Creates(i) \/ Dependent(i) => About(i) \in Records
      BY <1>4, Abouts
    <3>4. n.method = "create" /\ (Creates(i) \/ Dependent(i)) => About(i) # n.target
      BY <1>10, <3>2
    <3>5. Creates(i) \/ Dependent(i) => d.ref[About(i)] = journal.ref[About(i)]
      BY <1>1, <1>2, <1>4, <3>3, <3>4, AppendedParts
    <3>6. QED
      BY <1>7, <2>2, <3>1, <3>2, <3>5
  <2>3. QED
    BY <2>1, <2>2
<1>13. CreationsFit(d)'
  <2> SUFFICES ASSUME NEW r \in Records, d.ref[r] = "local"
               PROVE  \E j \in Ids : Pending(d, j) /\ Creates(j)' /\ About(j)' = r
    BY DEF CreationsFit, Pending
  <2>1. CASE n.method = "create" /\ r = n.target
    BY <1>1, <1>2, <1>4, <1>5, <1>6, <2>1, AppendedParts
  <2>2. CASE ~(n.method = "create" /\ r = n.target)
    <3>1. journal.ref[r] = "local"
      BY <1>1, <1>2, <1>4, <2>2, AppendedParts
    <3>2. PICK j \in Ids : Pending(journal, j) /\ Creates(j) /\ About(j) = r
      BY <3>1 DEF Sound, CreationsFit
    <3>3. j # m /\ Pending(d, j)
      BY <1>1, <1>2, <1>4, <3>2, AppendedParts
    <3>4. QED
      BY <1>7, <3>2, <3>3
  <2>3. QED
    BY <2>1, <2>2
<1>14. Sound(d)'
  BY <1>12, <1>13 DEF Sound
<1>15. QED
  BY <1>3, <1>9, <1>14 DEF Sound, WaitsFit, CreationsFit, Pending

LEMMA NextSound ==
  SlotInv /\ CreatedOnce /\ Sound(journal) /\ Sound(prior) /\ [Next]_vars
  => CreatedOnce' /\ Sound(journal)' /\ Sound(prior)'
<1> SUFFICES ASSUME SlotInv, CreatedOnce, Sound(journal), Sound(prior), [Next]_vars
             PROVE  CreatedOnce' /\ Sound(journal)' /\ Sound(prior)'
  OBVIOUS
<1>1. TypeOK
  BY DEF SlotInv
<1>2. PICK j, p : j = journal' /\ p = prior'
  OBVIOUS
<1>3. CASE QueueUpdate
  <2>1. CreatedOnce' /\ Sound(journal)'
    BY <1>3, SoundAppended
  <2>2. prior' \in {journal, journal'}
    BY <1>3 DEF QueueUpdate, Commit
  <2>3. ASSUME prior' = journal PROVE Sound(prior)'
    <3>1. PICK e : e = journal
      OBVIOUS
    <3>2. Sound(e)'
      BY <1>3, <3>1, QueueFacts, SoundOlder
    <3>3. QED
      BY <2>3, <3>1, <3>2 DEF Sound, WaitsFit, CreationsFit, Pending
  <2>4. ASSUME prior' = journal' PROVE Sound(prior)'
    BY <2>1, <2>4 DEF Sound, WaitsFit, CreationsFit, Pending
  <2>5. QED
    BY <2>1, <2>2, <2>3, <2>4
<1>4. CASE Stays \/ FallsBack \/ Changes
  <2>1. \A i : /\ Method(i)' = Method(i) /\ About(i)' = About(i)
               /\ Creates(i)' = Creates(i) /\ Dependent(i)' = Dependent(i)
    BY <1>4 DEF Stays, FallsBack, Changes, Method, About, Creates, Dependent
  <2>2. CreatedOnce'
    BY <2>1 DEF CreatedOnce
  <2>3. ASSUME NEW e, Sound(e) PROVE Sound(e)'
    BY <2>1, <2>3 DEF Sound, WaitsFit, CreationsFit, Pending
  <2>4. Sound(j)
    <3>1. CASE Stays \/ FallsBack
      BY <1>2, <3>1 DEF Stays, FallsBack
    <3>2. CASE Changes
      BY <1>1, <1>2, <3>2, SoundRewritten, SoundDropped, SoundResolved DEF Changes
    <3>3. QED
      BY <1>4, <3>1, <3>2
  <2>5. Sound(p)
    BY <1>2, <1>4, <2>4 DEF Stays, FallsBack, Changes
  <2>6. Sound(j)' /\ Sound(p)'
    BY <2>3, <2>4, <2>5
  <2>7. QED
    BY <1>2, <2>2, <2>6 DEF Sound, WaitsFit, CreationsFit, Pending
<1>5. QED
  BY <1>3, <1>4, Shapes

-----------------------------------------------------------------------------
(* What was decided stays decided.                                         *)

(* The later document e undoes nothing that d settled.                     *)
Settles(d, e) ==
  /\ \A i \in Ids : i <= minted /\ d.phase[i] = "absent" => e.phase[i] = "absent"
  /\ \A r \in Records : d.ref[r] = "remote" => e.ref[r] = "remote"

LEMMA SettlesSame == ASSUME NEW d PROVE Settles(d, d)
BY DEF Settles

LEMMA ChangesSettle ==
  ASSUME TypeOK, NEW d,
         Rewritten(d) \/ \E k \in Ids : Dropped(d, k) \/ Resolved(d, k)
  PROVE  Settles(journal, d)
<1>1. journal \in Document
  BY DEF TypeOK
<1>2. CASE Rewritten(d)
  BY <1>2 DEF Rewritten, Settles, Phase
<1>3. ASSUME NEW k \in Ids, Dropped(d, k) PROVE Settles(journal, d)
  BY <1>1, <1>3 DEF Dropped, Remove, Settles, Document
<1>4. ASSUME NEW k \in Ids, Resolved(d, k) PROVE Settles(journal, d)
  <2>1. \A i \in Ids : Pending(d, i) => Pending(journal, i)
    BY <1>4, ResolvedFacts
  <2>2. \A r \in Records : d.ref[r] = "remote" \/ d.ref[r] = journal.ref[r]
    BY <1>4, ResolvedFacts
  <2>3. QED
    BY <2>1, <2>2 DEF Settles, Pending
<1>5. QED
  BY <1>2, <1>3, <1>4

LEMMA QueueSettles == SlotInv /\ QueueUpdate => Settles(journal, journal')
<1> SUFFICES ASSUME SlotInv, QueueUpdate PROVE Settles(journal, journal')
  OBVIOUS
<1> PICK m, d : m = minted + 1 /\ d = journal'
  OBVIOUS
<1>1. PICK n \in Intents : Askable(n) /\ Commit(Appended(n, m)) /\ m \in Ids /\ minted \in Nat
  BY QueueFacts
<1>2. d = Appended(n, m) /\ TypeOK
  BY <1>1 DEF Commit, SlotInv
<1>3. \A i \in Ids : i <= minted => i # m
  BY <1>1 DEF Ids
<1>4. \A i \in Ids : Pending(d, i) <=> i = m \/ Pending(journal, i)
  BY <1>1, <1>2, AppendedParts
<1>5. n.method = "create" => journal.ref[n.target] = "none"
  BY <1>1 DEF Askable
<1>6. \A r \in Records : journal.ref[r] = "remote" => d.ref[r] = "remote"
  <2>1. /\ n.method # "create" => d.ref = journal.ref
        /\ n.method = "create" =>
             \A r \in Records : r # n.target => d.ref[r] = journal.ref[r]
    BY <1>1, <1>2, AppendedParts
  <2>2. QED
    BY <1>5, <2>1
<1>7. QED
  BY <1>3, <1>4, <1>6 DEF Settles, Pending

LEMMA NextSettles ==
  SlotInv /\ [Next]_vars =>
    /\ up' => Settles(journal, journal')
    /\ \E d \in {journal, prior} : Settles(d, journal')
    /\ \E d \in {journal, prior} : Settles(d, prior')
<1> SUFFICES ASSUME SlotInv, [Next]_vars
             PROVE  /\ up' => Settles(journal, journal')
                    /\ \E d \in {journal, prior} : Settles(d, journal')
                    /\ \E d \in {journal, prior} : Settles(d, prior')
  OBVIOUS
<1>1. CASE Stays
  BY <1>1, SettlesSame DEF Stays
<1>2. CASE FallsBack
  BY <1>2, SettlesSame DEF FallsBack
<1>3. CASE Changes
  <2>1. Settles(journal, journal')
    <3> PICK d : d = journal'
      OBVIOUS
    <3>1. Settles(journal, d)
      BY <1>3, ChangesSettle DEF Changes, SlotInv
    <3>2. QED
      BY <3>1
  <2>2. QED
    BY <1>3, <2>1, SettlesSame DEF Changes
<1>4. CASE QueueUpdate
  <2>1. Settles(journal, journal') /\ prior' \in {journal, journal'}
    BY <1>4, QueueSettles DEF QueueUpdate, Commit
  <2>2. QED
    BY <2>1, SettlesSame
<1>5. QED
  BY <1>1, <1>2, <1>3, <1>4, Shapes

(* Recorded entries mean the same after every step.                        *)
LEMMA NextMeaning ==
  SlotInv /\ [Next]_vars =>
    /\ minted \in Nat /\ minted' \in Nat /\ minted <= minted'
    /\ \A i \in Ids : i <= minted => intent'[i] = intent[i] /\ binding'[i] = binding[i]
<1> SUFFICES ASSUME SlotInv, [Next]_vars
             PROVE  /\ minted \in Nat /\ minted' \in Nat /\ minted <= minted'
                    /\ \A i \in Ids : i <= minted =>
                         intent'[i] = intent[i] /\ binding'[i] = binding[i]
  OBVIOUS
<1>1. minted \in Nat
  BY BoundsAssumption DEF SlotInv, TypeOK
<1>2. CASE Stays \/ FallsBack \/ Changes
  BY <1>1, <1>2 DEF Stays, FallsBack, Changes
<1>3. CASE QueueUpdate
  <2>1. /\ minted' = minted + 1
        /\ \A i \in Ids : i # minted + 1 => intent'[i] = intent[i] /\ binding'[i] = binding[i]
    BY <1>3, QueueFacts
  <2>2. \A i \in Ids : i <= minted => i # minted + 1
    BY <1>1 DEF Ids
  <2>3. QED
    BY <1>1, <2>1, <2>2
<1>4. QED
  BY <1>2, <1>3, Shapes

LEMMA ClearedLater ==
  ASSUME SlotInv, [Next]_vars, NEW d, NEW e, Settles(d, e),
         NEW j \in Ids, j <= minted, Cleared(d, j)
  PROVE  Cleared(e, j)'
<1>1. minted \in Nat /\ \A i \in Ids : i <= minted => intent'[i] = intent[i]
  BY NextMeaning
<1>2. ASSUME NEW i \in Ids, i < j, SameLane(i, j)', Method(i)' \in OrderedMethods
      PROVE  e.phase[i] = "absent"
  <2>1. i <= minted
    BY <1>1, <1>2 DEF Ids
  <2>2. intent'[i] = intent[i] /\ intent'[j] = intent[j]
    BY <1>1, <2>1
  <2>3. SameLane(i, j) /\ Method(i) \in OrderedMethods
    BY <1>2, <2>2 DEF SameLane, Method
  <2>4. d.phase[i] = "absent"
    BY <1>2, <2>3 DEF Cleared
  <2>5. QED
    BY <2>1, <2>4 DEF Settles
<1>3. Dependent(j)' => e.ref[About(j)'] = "remote"
  <2>1. Dependent(j)' = Dependent(j) /\ About(j)' = About(j)
    BY <1>1, SameMeaning
  <2>2. Dependent(j) => About(j) \in Records /\ d.ref[About(j)] = "remote"
    BY Abouts DEF Cleared, SlotInv
  <2>3. QED
    BY <2>1, <2>2 DEF Settles
<1>4. QED
  BY <1>2, <1>3 DEF Cleared

LEMMA DecidedLater ==
  ASSUME SlotInv, [Next]_vars, NEW j \in Ids, j <= minted, Decided(j)
  PROVE  Decided(j)'
<1> PICK e, g : e = journal' /\ g = prior'
  OBVIOUS
<1>1. PICK d \in {journal, prior} : Settles(d, e)
  BY NextSettles
<1>2. PICK f \in {journal, prior} : Settles(f, g)
  BY NextSettles
<1>3. Cleared(e, j)'
  BY <1>1, ClearedLater DEF Decided
<1>4. Cleared(g, j)'
  BY <1>2, ClearedLater DEF Decided
<1>5. QED
  BY <1>1, <1>2, <1>3, <1>4 DEF Decided, Cleared

-----------------------------------------------------------------------------
(* Lanes and creations.                                                    *)

(* A request leaves, or is given up, only by the hand of the call itself.  *)
LEMMA NextSent ==
  ASSUME SlotInv, [Next]_vars, NEW j \in Ids, Sent(j)'
  PROVE  Sent(j) \/ (http.stage # "none" /\ j = http.id)
<1> USE DEF SlotInv
<1>1. effects \in [Ids -> Nat] /\ stray \in [Ids -> Nat]
  BY DEF TypeOK
<1>2. ASSUME NEW i \in Ids, NEW c, Carry(i, c)
      PROVE  i # j => effects'[j] = effects[j]
  BY <1>1, <1>2 DEF Carry
<1>3. ASSUME NEW i PROVE i # j => Astray(i)[j] = stray[j]
  BY <1>1 DEF Astray
<1>4. CASE Serve
  <2>1. /\ Carry(http.id, http.system) /\ stray' = stray /\ http.stage # "none"
        /\ http.id \in Ids
    BY <1>4, CallFields DEF Serve, TypeOK
  <2>2. QED
    BY <1>2, <2>1 DEF Sent
<1>5. CASE StrayArrives
  <2>1. PICK i \in Ids :
          /\ stray[i] > 0 /\ stray' = [stray EXCEPT ![i] = @ - 1]
          /\ \E c \in IF binding[i] = Unbound THEN Connectors ELSE {binding[i]} : Carry(i, c)
    BY <1>5 DEF StrayArrives
  <2>2. CASE i = j
    BY <1>1, <2>1, <2>2 DEF Sent
  <2>3. CASE i # j
    BY <1>1, <1>2, <2>1, <2>3 DEF Sent
  <2>4. QED
    BY <2>2, <2>3
<1>6. CASE LoseAnswer \/ Stop
  <2>1. effects' = effects /\ stray' = IF http.stage = "written" THEN Astray(http.id) ELSE stray
    BY <1>6 DEF LoseAnswer, Stop
  <2>2. QED
    BY <1>3, <2>1 DEF Sent
<1>7. CASE ~Serve /\ ~StrayArrives /\ ~LoseAnswer /\ ~Stop
  <2>1. effects' = effects /\ stray' = stray
    <3>1. CASE Workflow \/ OperationFails \/ Poll \/ Saves \/ PrepareBreaks \/ Callbacks
      BY <3>1 DEF Workflow, BeginOperation, QueueUpdate, QueueAgain, EndOperation,
         OperationFails, Poll, PollResult, PollExpired, PollStart, Saves, ExpireSaved,
         PrepareSaved, AckSaved, PrepareBreaks, Callbacks, Dispatch, DispatchFails,
         PrepareGivesUp, AckDone, AckFailed, service
    <3>2. CASE SendRequest \/ Respond \/ Reject \/ Refuse \/ \E i \in Ids : Review(i)
      BY <3>2 DEF SendRequest, Respond, Reject, Refuse, Review, RetryReviewed,
         DismissReviewed, ConfirmReviewedAsset, LinkReviewedRecord, service
    <3>3. CASE SelectConnector \/ PauseEnds \/ WindowPasses \/ RenameSettles \/ Restart
               \/ UNCHANGED vars
      BY <3>3 DEF SelectConnector, PauseEnds, WindowPasses, RenameSettles, Restart,
         vars, service
    <3>4. QED
      BY <1>7, <3>1, <3>2, <3>3 DEF Next, Network
  <2>2. QED
    BY <2>1 DEF Sent
<1>8. QED
  BY <1>4, <1>5, <1>6, <1>7

(* Where a call and a preparation come from.                               *)
LEMMA NextCall ==
  ASSUME SlotInv, [Next]_vars, http'.stage # "none"
  PROVE  \/ http.stage # "none" /\ http'.id = http.id
         \/ op.kind = "prepare" /\ op.stage = "done" /\ http'.id = op.id
<1>1. http \in Call
  BY DEF SlotInv, TypeOK
<1>2. CASE SendRequest \/ Serve
  BY <1>1, <1>2 DEF SendRequest, Serve, Call, Quiet
<1>3. CASE Dispatch
  BY <1>3 DEF Dispatch
<1>4. CASE Respond \/ Reject \/ Refuse \/ LoseAnswer \/ Stop
  BY <1>4 DEF Respond, Reject, Refuse, LoseAnswer, Answer, Stop, Quiet
<1>5. CASE Workflow \/ OperationFails \/ Poll \/ Saves \/ PrepareBreaks \/ DispatchFails
           \/ PrepareGivesUp \/ AckDone \/ AckFailed \/ StrayArrives
  BY <1>5 DEF Workflow, BeginOperation, QueueUpdate, QueueAgain, EndOperation,
     OperationFails, Poll, PollResult, PollExpired, PollStart, Saves, ExpireSaved,
     PrepareSaved, AckSaved, PrepareBreaks, DispatchFails, PrepareGivesUp, AckDone,
     AckFailed, StrayArrives, network
<1>6. CASE \/ \E i \in Ids : Review(i)
           \/ SelectConnector \/ PauseEnds \/ WindowPasses \/ RenameSettles \/ Restart
           \/ UNCHANGED vars
  BY <1>6 DEF Review, RetryReviewed, DismissReviewed, ConfirmReviewedAsset,
     LinkReviewedRecord, SelectConnector, PauseEnds, WindowPasses, RenameSettles,
     Restart, vars, network
<1>7. QED
  BY <1>2, <1>3, <1>4, <1>5, <1>6 DEF Next, Network, Callbacks

LEMMA NextPrepare ==
  ASSUME SlotInv, [Next]_vars, op'.kind = "prepare"
  PROVE  \/ PollStart
         \/ PrepareSaved
         \/ op.kind = "prepare" /\ op'.id = op.id /\ (op'.stage = "done" => op.stage = "done")
<1>1. op \in Operation
  BY DEF SlotInv, TypeOK
<1>2. CASE OperationFails \/ PrepareBreaks
  BY <1>1, <1>2 DEF OperationFails, PrepareBreaks, Operation
<1>3. CASE ExpireSaved \/ AckSaved \/ PollResult \/ PollExpired
  BY <1>1, <1>3 DEF ExpireSaved, AckSaved, PollResult, PollExpired, Working, Operation
<1>4. CASE Workflow \/ Callbacks \/ Stop
  BY <1>1, <1>4 DEF Workflow, BeginOperation, QueueUpdate, QueueAgain, EndOperation,
     Callbacks, Dispatch, DispatchFails, PrepareGivesUp, AckDone, AckFailed, Stop,
     Working, Idle, Operation
<1>5. CASE Network \/ StrayArrives
  BY <1>5 DEF Network, SendRequest, Serve, Respond, Reject, Refuse, LoseAnswer, StrayArrives
<1>6. CASE \/ \E i \in Ids : Review(i)
           \/ SelectConnector \/ PauseEnds \/ WindowPasses \/ RenameSettles \/ Restart
           \/ UNCHANGED vars
  BY <1>6 DEF Review, RetryReviewed, DismissReviewed, ConfirmReviewedAsset,
     LinkReviewedRecord, SelectConnector, PauseEnds, WindowPasses, RenameSettles,
     Restart, vars
<1>7. QED
  BY <1>2, <1>3, <1>4, <1>5, <1>6 DEF Next, Poll, Saves

(* An entry that poll finds ready has nothing undecided before it.         *)
LEMMA ReadyCleared ==
  ASSUME SlotInv, Sound(journal), NEW i \in Ids, Ready(i) PROVE Cleared(journal, i)
<1>1. \A j \in Ids : j < i /\ SameLane(j, i) /\ Method(j) \in OrderedMethods
                     => journal.phase[j] = "absent"
  BY DEF Ready, Blocks, Phase
<1>2. Pending(journal, i) /\ ~journal.waits[i]
  BY DEF Ready, Named, Pending, Phase
<1>3. Dependent(i) => journal.ref[About(i)] = "remote"
  BY <1>2 DEF Sound, WaitsFit
<1>4. QED
  BY <1>1, <1>3 DEF Cleared

LEMMA Recorded ==
  ASSUME SlotInv, NEW i \in Ids, Phase(i) # "absent" PROVE i <= minted
BY BoundsAssumption DEF SlotInv, Documented, Phase, TypeOK, Ids

LEMMA WorkedOn ==
  ASSUME SlotInv
  PROVE  /\ http.stage # "none" => http.id \in Ids /\ http.id <= minted
         /\ op.kind = "prepare" => op.id \in Ids /\ op.id <= minted
<1> USE DEF SlotInv
<1>1. \A i \in Ids : Phase(i) # "absent" => i <= minted
  BY Recorded
<1>2. /\ http.stage # "none" => http.id \in Ids
      /\ op.kind = "prepare" => op.id \in Ids
  BY CallFields, OperationFields DEF TypeOK
<1>3. QED
  BY <1>1, <1>2 DEF Stations

LEMMA InitOrder == Init => OrderInv
<1> SUFFICES ASSUME Init PROVE OrderInv
  OBVIOUS
<1>1. SlotInv
  BY InitSlot
<1>2. \A i \in Ids : ~Creates(i)
  BY DEF Init, Creates, Method, NoIntent
<1>3. CreatedOnce
  BY <1>2 DEF CreatedOnce
<1>4. \A d \in {journal, prior} :
        /\ \A i \in Ids : ~Pending(d, i)
        /\ \A r \in Records : d.ref[r] # "local"
  BY DEF Init, Empty, Pending
<1>5. Sound(journal) /\ Sound(prior)
  BY <1>4 DEF Sound, WaitsFit, CreationsFit
<1>6. \A i \in Ids : ~Sent(i)
  BY DEF Init, Sent
<1>7. SentDecided /\ CallDecided
  BY <1>6 DEF Init, Quiet, Idle, SentDecided, CallDecided
<1>8. QED
  BY <1>1, <1>3, <1>5, <1>7 DEF OrderInv

LEMMA NextSentDecided == OrderInv /\ [Next]_vars => SentDecided'
<1> SUFFICES ASSUME OrderInv, [Next]_vars, NEW j \in Ids, Sent(j)'
             PROVE  j <= minted' /\ Decided(j)'
  BY DEF SentDecided
<1>1. SlotInv
  BY DEF OrderInv
<1>2. j <= minted /\ Decided(j)
  BY <1>1, NextSent, WorkedOn DEF OrderInv, SentDecided, CallDecided
<1>3. j <= minted'
  BY <1>1, <1>2, NextMeaning DEF Ids
<1>4. QED
  BY <1>1, <1>2, <1>3, DecidedLater

LEMMA NextCallDecided == OrderInv /\ [Next]_vars => CallDecided'
<1> SUFFICES ASSUME OrderInv, [Next]_vars PROVE CallDecided'
  OBVIOUS
<1>1. SlotInv /\ SlotInv'
  BY NextSlot DEF OrderInv
<1>2. ASSUME http'.stage # "none" PROVE Decided(http.id)'
  <2>1. CASE http.stage # "none" /\ http'.id = http.id
    <3> PICK h : h = http.id
      OBVIOUS
    <3>1. h \in Ids /\ h <= minted /\ Decided(h)
      BY <1>1, <2>1, WorkedOn DEF OrderInv, CallDecided
    <3>2. Decided(h)'
      BY <1>1, <3>1, DecidedLater
    <3>3. QED
      BY <2>1, <3>2 DEF Decided, Cleared
  <2>2. CASE op.kind = "prepare" /\ op.stage = "done" /\ http'.id = op.id
    <3> PICK h : h = op.id
      OBVIOUS
    <3>1. h \in Ids /\ h <= minted /\ Decided(h)
      BY <1>1, <2>2, WorkedOn DEF OrderInv, CallDecided
    <3>2. Decided(h)'
      BY <1>1, <3>1, DecidedLater
    <3>3. QED
      BY <2>2, <3>2 DEF Decided, Cleared
  <2>3. QED
    BY <1>1, <1>2, <2>1, <2>2, NextCall
<1>3. ASSUME op'.kind = "prepare"
      PROVE  Cleared(journal, op.id)' /\ (op'.stage = "done" => Decided(op.id)')
  <2> PICK e, f, h : e = journal' /\ f = prior' /\ h = op'.id
    OBVIOUS
  <2>1. up'
    BY <1>1, <1>3 DEF SlotInv, InFlight
  <2>2. Settles(journal, e)
    BY <1>1, <2>1, NextSettles
  <2>3. h \in Ids /\ h <= minted /\ Cleared(journal, h)
    <3>1. CASE PollStart
      <4>1. PICK i \in Ids : Ready(i) /\ op' = Working("prepare", i, remote)
        BY <3>1 DEF PollStart
      <4>2. h = i /\ Cleared(journal, i) /\ Phase(i) # "absent"
        BY <1>1, <4>1, ReadyCleared DEF Working, Ready, OrderInv
      <4>3. i <= minted
        BY <1>1, <4>2, Recorded
      <4>4. QED
        BY <4>2, <4>3
    <3>2. CASE op.kind = "prepare" /\ op'.id = op.id
      BY <1>1, <3>2, WorkedOn DEF OrderInv, CallDecided
    <3>3. CASE PrepareSaved
      <4>1. op.kind = "prepare" /\ op'.id = op.id
        BY <1>1, <3>3 DEF PrepareSaved, SlotInv, TypeOK, Operation
      <4>2. QED
        BY <3>2, <4>1
    <3>4. QED
      BY <1>1, <1>3, <3>1, <3>2, <3>3, NextPrepare
  <2>4. Cleared(e, h)'
    BY <1>1, <2>2, <2>3, ClearedLater
  <2>5. ASSUME op'.stage = "done" PROVE Cleared(f, h)'
    <3>1. CASE PollStart
      BY <2>5, <3>1 DEF PollStart, Working
    <3>2. CASE PrepareSaved
      <4>1. f \in {journal, e}
        BY <3>2 DEF PrepareSaved, Commit
      <4>2. Settles(journal, f)
        BY <2>2, <4>1, SettlesSame
      <4>3. QED
        BY <1>1, <2>3, <4>2, ClearedLater
    <3>3. CASE op.kind = "prepare" /\ op'.id = op.id /\ op.stage = "done"
      <4>1. Decided(h)
        BY <3>3 DEF OrderInv, CallDecided
      <4>2. Decided(h)'
        BY <1>1, <2>3, <4>1, DecidedLater
      <4>3. QED
        BY <4>2 DEF Decided, Cleared
    <3>4. QED
      BY <1>1, <1>3, <2>5, <3>1, <3>2, <3>3, NextPrepare
  <2>6. QED
    BY <2>4, <2>5 DEF Decided, Cleared
<1>4. QED
  BY <1>2, <1>3 DEF CallDecided, Decided

LEMMA NextOrder == OrderInv /\ [Next]_vars => OrderInv'
<1> SUFFICES ASSUME OrderInv, [Next]_vars PROVE OrderInv'
  OBVIOUS
<1>1. SlotInv'
  BY NextSlot DEF OrderInv
<1>2. CreatedOnce' /\ Sound(journal)' /\ Sound(prior)'
  BY NextSound DEF OrderInv
<1>3. QED
  BY <1>1, <1>2, NextSentDecided, NextCallDecided DEF OrderInv

LEMMA OrderInvariant == Spec => []OrderInv
BY InitOrder, NextOrder, PTL DEF Spec

(* What may be under way to the service, or was carried out, leaves nothing *)
(* undecided before it in its lane, whatever a power loss brings back.     *)
LEMMA LaterIsDecided ==
  ASSUME OrderInv, NEW i \in Ids, NEW j \in Ids, i < j, SameLane(i, j),
         Method(i) \in OrderedMethods, Sent(j)
  PROVE  Phase(i) = "absent" /\ i <= minted
<1>1. j <= minted /\ Decided(j) /\ minted \in Nat
  BY BoundsAssumption DEF OrderInv, SentDecided, SlotInv, TypeOK
<1>2. QED
  BY <1>1 DEF Decided, Cleared, Phase, Ids

(* Nothing that names a record reaches the service before its identifier   *)
(* is known, whatever a power loss brings back.                            *)
THEOREM RecordsComeFirst == Spec => []CreationFirst
<1>1. OrderInv => CreationFirst
  BY DEF OrderInv, SentDecided, Sent, Decided, Cleared, CreationFirst, Dependent
<1>2. QED
  BY <1>1, OrderInvariant, PTL

(* An entry that waits for an identifier waits for a creation that is      *)
(* still pending, so that something can release it.                        *)
THEOREM NothingDangles == Spec => []NoDanglingReference
<1>1. OrderInv => NoDanglingReference
  <2> SUFFICES ASSUME OrderInv, NEW i \in InJournal, journal.waits[i]
               PROVE  \E j \in InJournal : Creates(j) /\ About(j) = About(i)
    BY DEF NoDanglingReference, Creates
  <2>1. i \in Ids /\ Pending(journal, i)
    BY DEF InJournal, Phase, Pending
  <2>2. Dependent(i) /\ journal.ref[About(i)] = "local" /\ About(i) \in Records
    BY <2>1, Abouts DEF OrderInv, Sound, WaitsFit, SlotInv
  <2>3. PICK j \in Ids : Pending(journal, j) /\ Creates(j) /\ About(j) = About(i)
    BY <2>2 DEF OrderInv, Sound, CreationsFit
  <2>4. QED
    BY <2>3 DEF InJournal, Phase, Pending
<1>2. QED
  BY <1>1, OrderInvariant, PTL

-----------------------------------------------------------------------------
(* Without a lazy rename: the coordinator implements the contract.         *)

(* What was answered, or is remembered, was carried out.                   *)
Carried ==
  /\ http.stage = "applied" => effects[http.id] > 0
  /\ result.outcome = "ok" => effects[result.id] > 0
  /\ op.kind = "ack" /\ op.outcome = "ok" => effects[op.id] > 0
  /\ \A i \in Ids, c \in Connectors : <<i, c>> \in seen => effects[i] > 0

ExactInv == OnceInv /\ OrderInv /\ Carried

LEMMA InitExact == LazyRename = FALSE /\ Init => ExactInv
<1> SUFFICES ASSUME LazyRename = FALSE, Init PROVE ExactInv
  OBVIOUS
<1>1. Carried
  BY DEF Init, Carried, Quiet, NoResult, Idle
<1>2. QED
  BY <1>1, InitOnce, InitOrder DEF ExactInv

(* The service either carries an entry out once more, or, knowing the key, *)
(* has done so before.                                                     *)
LEMMA CarryCases ==
  ASSUME ExactInv, NEW i \in Ids, NEW c \in Connectors, Carry(i, c)
  PROVE  /\ \/ effects' = effects /\ effects[i] > 0 /\ Safe(i) /\ <<i, c>> \in seen
            \/ effects' = [effects EXCEPT ![i] = @ + 1] /\ (Safe(i) => <<i, c>> \notin seen)
         /\ effects'[i] > 0
         /\ \A k \in Ids : effects[k] > 0 => effects'[k] > 0
         /\ \A k \in Ids, d \in Connectors : <<k, d>> \in seen' => effects'[k] > 0
<1>1. effects \in [Ids -> Nat]
  BY DEF ExactInv, OnceInv, SlotInv, TypeOK
<1>2. \A k \in Ids, d \in Connectors : <<k, d>> \in seen => effects[k] > 0
  BY DEF ExactInv, Carried
<1>3. \/ effects' = effects /\ effects[i] > 0 /\ Safe(i) /\ <<i, c>> \in seen
      \/ effects' = [effects EXCEPT ![i] = @ + 1] /\ (Safe(i) => <<i, c>> \notin seen)
  BY <1>2 DEF Carry
<1>4. effects'[i] > 0 /\ \A k \in Ids : effects[k] > 0 => effects'[k] > 0
  BY <1>1, <1>3
<1>5. ASSUME NEW k \in Ids, NEW d \in Connectors, <<k, d>> \in seen' PROVE effects'[k] > 0
  <2>1. <<k, d>> \in seen \/ <<k, d>> = <<i, c>>
    BY <1>5 DEF Carry
  <2>2. CASE <<k, d>> \in seen
    BY <1>2, <1>4, <2>2
  <2>3. CASE <<k, d>> = <<i, c>>
    BY <1>4, <2>3
  <2>4. QED
    BY <2>1, <2>2, <2>3
<1>6. QED
  BY <1>3, <1>4, <1>5

LEMMA StrayCarries ==
  ASSUME OnceInv, StrayArrives
  PROVE  \E i \in Ids, c \in Connectors :
           /\ stray[i] > 0 /\ Carry(i, c) /\ binding[i] \in {Unbound, c}
<1>1. PICK i \in Ids :
        /\ stray[i] > 0
        /\ \E c \in IF binding[i] = Unbound THEN Connectors ELSE {binding[i]} : Carry(i, c)
  BY DEF StrayArrives
<1>2. PICK c \in IF binding[i] = Unbound THEN Connectors ELSE {binding[i]} : Carry(i, c)
  BY <1>1
<1>3. c \in Connectors /\ binding[i] \in {Unbound, c}
  BY <1>2 DEF OnceInv, SlotInv, TypeOK, Systems
<1>4. QED
  BY <1>1, <1>2, <1>3

LEMMA ServeCarries ==
  ASSUME OnceInv, Serve
  PROVE  /\ http.id \in Ids /\ http.system \in Connectors /\ Carry(http.id, http.system)
         /\ binding[http.id] \in {Unbound, http.system} /\ Unspent(http.id)
         /\ http' = [http EXCEPT !.stage = "applied"] /\ http'.id = http.id
BY WrittenUnspent DEF Serve, OnceInv, RoutedAsBound, SlotInv, TypeOK, Call, Quiet

(* Only the service carries entries out.                                   *)
LEMMA NextEffects ==
  ASSUME [Next]_vars, ~Serve, ~StrayArrives PROVE effects' = effects /\ seen' = seen
<1>1. CASE Workflow \/ OperationFails \/ Poll \/ Saves \/ PrepareBreaks \/ Callbacks
  BY <1>1 DEF Workflow, BeginOperation, QueueUpdate, QueueAgain, EndOperation,
     OperationFails, Poll, PollResult, PollExpired, PollStart, Saves, ExpireSaved,
     PrepareSaved, AckSaved, PrepareBreaks, Callbacks, Dispatch, DispatchFails,
     PrepareGivesUp, AckDone, AckFailed, service
<1>2. CASE SendRequest \/ Respond \/ Reject \/ Refuse \/ LoseAnswer \/ \E i \in Ids : Review(i)
  BY <1>2 DEF SendRequest, Respond, Reject, Refuse, LoseAnswer, Review, RetryReviewed,
     DismissReviewed, ConfirmReviewedAsset, LinkReviewedRecord, service
<1>3. CASE SelectConnector \/ PauseEnds \/ WindowPasses \/ RenameSettles \/ Restart \/ Stop
           \/ UNCHANGED vars
  BY <1>3 DEF SelectConnector, PauseEnds, WindowPasses, RenameSettles, Restart, Stop,
     vars, service
<1>4. QED
  BY <1>1, <1>2, <1>3 DEF Next, Network

(* Where a confirmed outcome comes from.                                   *)
LEMMA NextAnswer ==
  ASSUME SlotInv, [Next]_vars, ~Serve
  PROVE  /\ http'.stage = "applied" => http.stage = "applied" /\ http'.id = http.id
         /\ result'.outcome = "ok" =>
              \/ result.outcome = "ok" /\ result'.id = result.id
              \/ http.stage = "applied" /\ result'.id = http.id
              \/ op.kind = "ack" /\ op.outcome = "ok" /\ result'.id = op.id
         /\ op'.kind = "ack" /\ op'.outcome = "ok" =>
              \/ op.kind = "ack" /\ op.outcome = "ok" /\ op'.id = op.id
              \/ result.outcome = "ok" /\ op'.id = result.id
<1>1. op \in Operation /\ http \in Call
  BY DEF SlotInv, TypeOK
<1>2. CASE BeginOperation \/ QueueUpdate \/ QueueAgain \/ EndOperation \/ OperationFails
           \/ PrepareBreaks \/ Saves
  BY <1>1, <1>2 DEF BeginOperation, QueueUpdate, QueueAgain, EndOperation, OperationFails,
     PrepareBreaks, Saves, ExpireSaved, PrepareSaved, AckSaved, network, Working, Idle,
     Operation
<1>3. CASE Poll
  BY <1>3 DEF Poll, PollResult, PollExpired, PollStart, Working, NoResult, network
<1>4. CASE Callbacks
  BY <1>4 DEF Callbacks, Dispatch, DispatchFails, PrepareGivesUp, AckDone, AckFailed, Idle
<1>5. CASE SendRequest
  BY <1>1, <1>5 DEF SendRequest, Call, Quiet
<1>6. CASE Respond \/ Reject \/ Refuse \/ LoseAnswer
  BY <1>6 DEF Respond, Reject, Refuse, LoseAnswer, Answer, Quiet
<1>7. CASE Stop
  BY <1>7 DEF Stop, Idle, Quiet, NoResult
<1>8. CASE \/ \E i \in Ids : Review(i)
           \/ SelectConnector \/ PauseEnds \/ WindowPasses \/ RenameSettles \/ Restart
           \/ StrayArrives \/ UNCHANGED vars
  BY <1>8 DEF Review, RetryReviewed, DismissReviewed, ConfirmReviewedAsset,
     LinkReviewedRecord, SelectConnector, PauseEnds, WindowPasses, RenameSettles,
     Restart, StrayArrives, vars, network
<1>9. QED
  BY <1>2, <1>3, <1>4, <1>5, <1>6, <1>7, <1>8 DEF Next, Workflow, Network

LEMMA NextCarried == ExactInv /\ [Next]_vars => Carried'
<1> SUFFICES ASSUME ExactInv, [Next]_vars PROVE Carried'
  OBVIOUS
<1>1. SlotInv /\ OnceInv
  BY DEF ExactInv, OnceInv
<1>2. /\ http.stage # "none" => http.id \in Ids
      /\ result.outcome = "ok" => result.id \in Ids
      /\ op.kind = "ack" => op.id \in Ids
  BY <1>1, CallFields, ReportFields, OperationFields DEF SlotInv, TypeOK, NoResult
<1>3. CASE Serve
  <2>1. /\ effects'[http.id] > 0
        /\ \A k \in Ids : effects[k] > 0 => effects'[k] > 0
        /\ \A k \in Ids, d \in Connectors : <<k, d>> \in seen' => effects'[k] > 0
    BY <1>1, <1>3, ServeCarries, CarryCases
  <2>2. http'.id = http.id /\ op' = op /\ result' = result
    BY <1>1, <1>3, ServeCarries DEF Serve
  <2>3. QED
    BY <1>2, <2>1, <2>2 DEF ExactInv, Carried
<1>4. CASE StrayArrives
  <2>1. /\ \A k \in Ids : effects[k] > 0 => effects'[k] > 0
        /\ \A k \in Ids, d \in Connectors : <<k, d>> \in seen' => effects'[k] > 0
    BY <1>1, <1>4, StrayCarries, CarryCases
  <2>2. http' = http /\ op' = op /\ result' = result
    BY <1>4 DEF StrayArrives, network
  <2>3. QED
    BY <1>2, <2>1, <2>2 DEF ExactInv, Carried
<1>5. CASE ~Serve /\ ~StrayArrives
  <2>1. effects' = effects /\ seen' = seen
    BY <1>5, NextEffects
  <2>2. http'.stage = "applied" => effects'[http'.id] > 0
    BY <1>1, <1>5, <2>1, NextAnswer DEF ExactInv, Carried
  <2>3. result'.outcome = "ok" => effects'[result'.id] > 0
    BY <1>1, <1>5, <2>1, NextAnswer DEF ExactInv, Carried
  <2>4. op'.kind = "ack" /\ op'.outcome = "ok" => effects'[op'.id] > 0
    BY <1>1, <1>5, <2>1, NextAnswer DEF ExactInv, Carried
  <2>5. QED
    BY <2>1, <2>2, <2>3, <2>4 DEF ExactInv, Carried
<1>6. QED
  BY <1>3, <1>4, <1>5

LEMMA NextExact == ExactInv /\ [Next]_vars => ExactInv'
BY NextOnce, NextOrder, NextCarried DEF ExactInv

(* The state of the contract, as the journal shows it.                     *)
Label(p) == IF p = "absent" THEN "closed" ELSE IF p = "attention" THEN "held" ELSE "pending"

Stage == [i \in Ids |->
            IF i > minted THEN "none"
            ELSE IF Phase(i) = "absent" THEN "closed"
            ELSE IF Phase(i) = "attention" THEN "held" ELSE "pending"]
After == [i \in Ids |-> IF i > minted THEN {} ELSE Before(i)]
Once == [i \in Ids |-> i <= minted /\ (~Safe(i) \/ binding[i] # Unbound)]

LEMMA ContractSteps ==
  ASSUME NEW i
  PROVE  /\ Contract!Effect(i) <=>
              /\ Stage[i] # "none" /\ \A j \in After[i] : Stage[j] = "closed"
              /\ Once[i] => effects[i] < 1 + reviews[i]
              /\ effects' = [effects EXCEPT ![i] = @ + 1]
              /\ UNCHANGED <<Stage, After, Once, reviews, settled>>
         /\ Contract!Hold(i) <=>
              /\ Stage[i] = "pending" /\ Stage' = [Stage EXCEPT ![i] = "held"]
              /\ UNCHANGED <<After, Once, effects, reviews, settled>>
         /\ Contract!Release(i) <=>
              /\ Stage[i] = "held" /\ Stage' = [Stage EXCEPT ![i] = "pending"]
              /\ reviews' = [reviews EXCEPT ![i] = @ + 1]
              /\ UNCHANGED <<After, Once, effects, settled>>
         /\ Contract!Close(i) <=>
              /\ Stage[i] = "pending" /\ effects[i] > 0
              /\ Stage' = [Stage EXCEPT ![i] = "closed"]
              /\ UNCHANGED <<After, Once, effects, reviews, settled>>
         /\ Contract!Settle(i) <=>
              /\ Stage[i] = "held" /\ Stage' = [Stage EXCEPT ![i] = "closed"]
              /\ settled' = settled \union {i}
              /\ UNCHANGED <<After, Once, effects, reviews>>
<1>1. Contract!Effect(i) <=>
              /\ Stage[i] # "none" /\ \A j \in After[i] : Stage[j] = "closed"
              /\ Once[i] => effects[i] < 1 + reviews[i]
              /\ effects' = [effects EXCEPT ![i] = @ + 1]
              /\ UNCHANGED <<Stage, After, Once, reviews, settled>>
  BY Zenon DEF Contract!Effect, Stage, After, Once
<1>2. Contract!Hold(i) <=>
              /\ Stage[i] = "pending" /\ Stage' = [Stage EXCEPT ![i] = "held"]
              /\ UNCHANGED <<After, Once, effects, reviews, settled>>
  BY Zenon DEF Contract!Hold, Stage, After, Once
<1>3. Contract!Release(i) <=>
              /\ Stage[i] = "held" /\ Stage' = [Stage EXCEPT ![i] = "pending"]
              /\ reviews' = [reviews EXCEPT ![i] = @ + 1]
              /\ UNCHANGED <<After, Once, effects, settled>>
  BY Zenon DEF Contract!Release, Stage, After, Once
<1>4. Contract!Close(i) <=>
              /\ Stage[i] = "pending" /\ effects[i] > 0
              /\ Stage' = [Stage EXCEPT ![i] = "closed"]
              /\ UNCHANGED <<After, Once, effects, reviews, settled>>
  BY Zenon DEF Contract!Close, Stage, After, Once
<1>5. Contract!Settle(i) <=>
              /\ Stage[i] = "held" /\ Stage' = [Stage EXCEPT ![i] = "closed"]
              /\ settled' = settled \union {i}
              /\ UNCHANGED <<After, Once, effects, reviews>>
  BY Zenon DEF Contract!Settle, Stage, After, Once
<1>6. QED
  BY <1>1, <1>2, <1>3, <1>4, <1>5

(* After a step that records nothing, only the phases can matter.          *)
LEMMA Labels ==
  ASSUME UNCHANGED <<minted, intent, binding>>
  PROVE  /\ After' = After /\ Once' = Once
         /\ Stage = [i \in Ids |-> IF i > minted THEN "none" ELSE Label(Phase(i))]
         /\ Stage' = [i \in Ids |-> IF i > minted THEN "none" ELSE Label(Phase(i)')]
<1>1. \A i, j : /\ Method(i)' = Method(i) /\ About(i)' = About(i) /\ Safe(i)' = Safe(i)
                /\ SameLane(i, j)' = SameLane(i, j)
  BY DEF Method, About, Safe, SameLane
<1>2. \A i : Before(i)' = Before(i)
  BY <1>1 DEF Before
<1>3. After' = After /\ Once' = Once
  BY <1>1, <1>2 DEF After, Once
<1>4. Stage = [i \in Ids |-> IF i > minted THEN "none" ELSE Label(Phase(i))]
  BY DEF Stage, Label
<1>5. Stage' = [i \in Ids |-> IF i > minted THEN "none" ELSE Label(Phase(i)')]
  BY DEF Stage, Label
<1>6. QED
  BY <1>3, <1>4, <1>5

LEMMA PhaseMoves ==
  ASSUME SlotInv, UNCHANGED <<minted, intent, binding>>, NEW k \in Ids, k <= minted, NEW p,
         \A i \in Ids : Phase(i)' = IF i = k THEN p ELSE Phase(i)
  PROVE  /\ After' = After /\ Once' = Once /\ Stage[k] = Label(Phase(k))
         /\ Stage' = [Stage EXCEPT ![k] = Label(p)]
         /\ Label(p) = Label(Phase(k)) => Stage' = Stage
<1>1. minted \in Nat
  BY BoundsAssumption DEF SlotInv, TypeOK
<1>2. ~(k > minted)
  BY <1>1 DEF Ids
<1>3. Stage = [i \in Ids |-> IF i > minted THEN "none" ELSE Label(Phase(i))]
  BY Labels
<1>4. Stage' = [i \in Ids |-> IF i > minted THEN "none" ELSE Label(Phase(i)')]
  BY Labels
<1>5. Stage[k] = Label(Phase(k))
  BY <1>2, <1>3
<1>6. Stage' = [Stage EXCEPT ![k] = Label(p)]
  BY <1>2, <1>3, <1>4
<1>7. Label(p) = Label(Phase(k)) => Stage' = Stage
  BY <1>3, <1>5, <1>6
<1>8. QED
  BY <1>5, <1>6, <1>7, Labels

LEMMA PhasesStay ==
  ASSUME UNCHANGED <<minted, intent, binding, effects, reviews, settled>>,
         \A i \in Ids : Phase(i)' = Phase(i)
  PROVE  UNCHANGED Contract!outbox
<1>1. Stage' = Stage /\ After' = After /\ Once' = Once
  BY Labels
<1>2. QED
  BY <1>1 DEF Contract!outbox, Stage, After, Once

LEMMA PhaseHidden ==
  ASSUME SlotInv, UNCHANGED <<minted, intent, binding, effects, reviews, settled>>,
         NEW k \in Ids, k <= minted, NEW p, Label(p) = Label(Phase(k)),
         \A i \in Ids : Phase(i)' = IF i = k THEN p ELSE Phase(i)
  PROVE  UNCHANGED Contract!outbox
<1>1. Stage' = Stage /\ After' = After /\ Once' = Once
  BY PhaseMoves
<1>2. QED
  BY <1>1 DEF Contract!outbox, Stage, After, Once

LEMMA PhaseHeld ==
  ASSUME SlotInv, UNCHANGED <<minted, intent, binding, effects, reviews, settled>>,
         NEW k \in Ids, k <= minted, Phase(k) \in {"queued", "sending"},
         \A i \in Ids : Phase(i)' = IF i = k THEN "attention" ELSE Phase(i)
  PROVE  Contract!Hold(k)
<1>1. /\ After' = After /\ Once' = Once /\ Stage[k] = Label(Phase(k))
      /\ Stage' = [Stage EXCEPT ![k] = Label("attention")]
  BY PhaseMoves
<1>2. Stage[k] = "pending" /\ Stage' = [Stage EXCEPT ![k] = "held"]
  BY <1>1 DEF Label
<1>3. QED
  BY <1>1, <1>2, ContractSteps

(* A recorded update is a new pending one.                                 *)
LEMMA RecordKeeps == ExactInv /\ QueueUpdate => \E i \in Ids : Contract!Record(i)
<1> SUFFICES ASSUME ExactInv, QueueUpdate PROVE \E i \in Ids : Contract!Record(i)
  OBVIOUS
<1> PICK m : m = minted + 1
  OBVIOUS
<1>1. SlotInv /\ TypeOK
  BY DEF ExactInv, OnceInv, SlotInv
<1>2. PICK n \in Intents :
        /\ Commit(Appended(n, m)) /\ m \in Ids /\ minted' = m /\ minted \in Nat
        /\ \A i \in Ids : i # m => intent'[i] = intent[i] /\ binding'[i] = binding[i]
  BY <1>1, QueueFacts
<1>3. \A i \in Ids : Phase(i)' = IF i = m THEN "queued" ELSE Phase(i)
  <2>1. journal'.phase = [journal.phase EXCEPT ![m] = "queued"]
    BY <1>1, <1>2, AppendedFacts DEF Commit
  <2>2. QED
    BY <1>1, <2>1 DEF Phase, TypeOK, Document
<1>4. \A i \in Ids : i # m => (i > minted' <=> i > minted) /\ (i <= minted' <=> i <= minted)
  BY <1>2 DEF Ids
<1>5. m > minted /\ ~(m > minted')
  BY <1>2
<1>6. Stage[m] = "none"
  BY <1>2, <1>5 DEF Stage
<1>7. Stage' = [Stage EXCEPT ![m] = "pending"]
  <2>1. Stage' = [i \in Ids |->
            IF i > minted' THEN "none"
            ELSE IF Phase(i)' = "absent" THEN "closed"
            ELSE IF Phase(i)' = "attention" THEN "held" ELSE "pending"]
    BY DEF Stage
  <2>2. \A i \in Ids :
          (IF i > minted' THEN "none"
           ELSE IF Phase(i)' = "absent" THEN "closed"
           ELSE IF Phase(i)' = "attention" THEN "held" ELSE "pending")
          = IF i = m THEN "pending" ELSE Stage[i]
    BY <1>3, <1>4, <1>5 DEF Stage
  <2>3. Stage' = [i \in Ids |-> IF i = m THEN "pending" ELSE Stage[i]]
    BY <2>1, <2>2
  <2>4. [Stage EXCEPT ![m] = "pending"] = [i \in Ids |-> IF i = m THEN "pending" ELSE Stage[i]]
    BY <1>2 DEF Stage
  <2>5. QED
    BY <2>3, <2>4
<1>8. Before(m)' \in SUBSET {j \in Ids : j < m /\ Stage[j] # "none"}
  <2> SUFFICES ASSUME NEW j \in Before(m)' PROVE j \in Ids /\ j < m /\ Stage[j] # "none"
    OBVIOUS
  <2>1. j \in 1 .. m - 1
    BY DEF Before
  <2>2. j \in Ids /\ j < m /\ ~(j > minted)
    BY <1>2, <2>1, BoundsAssumption DEF Ids
  <2>3. QED
    BY <2>2 DEF Stage
<1>9. After' = [After EXCEPT ![m] = Before(m)']
  <2>1. ASSUME NEW i \in Ids, i # m, ~(i > minted) PROVE Before(i)' = Before(i)
    <3>1. \A j \in 1 .. i - 1 : j \in Ids /\ j # m
      BY <1>2, <2>1, BoundsAssumption DEF Ids
    <3>2. \A j \in 1 .. i - 1 :
            /\ Method(j)' = Method(j) /\ About(j)' = About(j) /\ SameLane(j, i)' = SameLane(j, i)
      BY <1>2, <2>1, <3>1 DEF Method, About, SameLane
    <3>3. Method(i)' = Method(i) /\ About(i)' = About(i)
      BY <1>2, <2>1, SameMeaning
    <3>4. QED
      BY <3>2, <3>3 DEF Before
  <2>2. After' = [i \in Ids |-> IF i > minted' THEN {} ELSE Before(i)']
    BY DEF After
  <2>3. \A i \in Ids : (IF i > minted' THEN {} ELSE Before(i)')
                       = IF i = m THEN Before(m)' ELSE After[i]
    BY <1>4, <1>5, <2>1 DEF After
  <2>4. After' = [i \in Ids |-> IF i = m THEN Before(m)' ELSE After[i]]
    BY <2>2, <2>3
  <2>5. [After EXCEPT ![m] = Before(m)'] = [i \in Ids |-> IF i = m THEN Before(m)' ELSE After[i]]
    BY <1>2 DEF After
  <2>6. QED
    BY <2>4, <2>5
<1>10. PICK b \in BOOLEAN : b = (m <= minted' /\ (~Safe(m)' \/ binding'[m] # Unbound))
  OBVIOUS
<1>11. Once' = [Once EXCEPT ![m] = b]
  <2>1. Once' = [i \in Ids |-> i <= minted' /\ (~Safe(i)' \/ binding'[i] # Unbound)]
    BY Zenon DEF Once
  <2>2. ASSUME NEW i \in Ids
        PROVE  (i <= minted' /\ (~Safe(i)' \/ binding'[i] # Unbound))
               = IF i = m THEN b ELSE Once[i]
    <3>1. CASE i = m
      BY <1>10, <3>1, Zenon
    <3>2. CASE i # m
      <4>1. (i <= minted' <=> i <= minted) /\ binding'[i] = binding[i]
        BY <1>2, <1>4, <3>2
      <4>2. Safe(i)' = Safe(i)
        BY <1>2, <3>2, SameMeaning
      <4>3. Once[i] = (i <= minted /\ (~Safe(i) \/ binding[i] # Unbound))
        BY Zenon DEF Once
      <4>4. QED
        BY <3>2, <4>1, <4>2, <4>3, Zenon
    <3>3. QED
      BY <3>1, <3>2
  <2>3. Once' = [i \in Ids |-> IF i = m THEN b ELSE Once[i]]
    BY <2>1, <2>2, Zenon
  <2>4. [Once EXCEPT ![m] = b] = [i \in Ids |-> IF i = m THEN b ELSE Once[i]]
    BY <1>2, Zenon DEF Once
  <2>5. QED
    BY <2>3, <2>4
<1>12. UNCHANGED <<effects, reviews, settled>>
  BY DEF QueueUpdate, service
<1>13. \E before \in SUBSET {j \in Ids : j < m /\ Stage[j] # "none"} :
         After' = [After EXCEPT ![m] = before]
  BY <1>8, <1>9, Zenon
<1>14. \E c \in BOOLEAN : Once' = [Once EXCEPT ![m] = c]
  BY <1>11, Zenon
<1>15. Contract!Record(m) <=>
         /\ Stage[m] = "none" /\ Stage' = [Stage EXCEPT ![m] = "pending"]
         /\ \E before \in SUBSET {j \in Ids : j < m /\ Stage[j] # "none"} :
              After' = [After EXCEPT ![m] = before]
         /\ \E c \in BOOLEAN : Once' = [Once EXCEPT ![m] = c]
         /\ UNCHANGED <<effects, reviews, settled>>
  BY Zenon DEF Contract!Record, Contract!Items, Ids, Stage, After, Once
<1>16. QED
  BY <1>2, <1>6, <1>7, <1>12, <1>13, <1>14, <1>15

(* An update that may be carried out has everything before it closed.      *)
LEMMA BeforeClosed ==
  ASSUME OrderInv, NEW k \in Ids, k <= minted, Decided(k)
  PROVE  Stage[k] # "none" /\ \A j \in After[k] : Stage[j] = "closed"
<1>1. minted \in Nat /\ TypeOK
  BY BoundsAssumption DEF OrderInv, SlotInv, TypeOK
<1>2. After[k] = Before(k) /\ Stage[k] # "none"
  BY <1>1 DEF After, Stage, Ids
<1>3. ASSUME NEW j \in Before(k) PROVE Stage[j] = "closed"
  <2>1. j \in Ids /\ j < k /\ ~(j > minted)
    BY <1>1, BoundsAssumption DEF Before, Ids
  <2>2. CASE SameLane(j, k) /\ Method(k) \in OrderedMethods
    <3>1. Method(j) \in OrderedMethods
      BY <2>2 DEF SameLane
    <3>2. Phase(j) = "absent"
      BY <2>1, <2>2, <3>1 DEF Decided, Cleared, Phase
    <3>3. QED
      BY <2>1, <3>2 DEF Stage
  <2>3. CASE /\ Method(j) = "create" /\ Method(k) # "create"
             /\ About(k) # None /\ About(j) = About(k)
    <3>1. journal.ref[About(k)] = "remote"
      BY <2>3 DEF Decided, Cleared, Dependent
    <3>2. Pending(journal, j) => journal.ref[About(j)] = "local"
      BY <2>1, <2>3 DEF OrderInv, Sound, WaitsFit, Creates
    <3>3. Phase(j) = "absent"
      BY <2>3, <3>1, <3>2 DEF Pending, Phase
    <3>4. QED
      BY <2>1, <3>3 DEF Stage
  <2>4. QED
    BY <2>2, <2>3 DEF Before
<1>4. QED
  BY <1>2, <1>3

LEMMA EffectKeeps ==
  ASSUME ExactInv, NEW k \in Ids, NEW c \in Connectors, Carry(k, c),
         binding[k] \in {Unbound, c}, k <= minted, Decided(k),
         ~Safe(k) => effects[k] < 1 + reviews[k],
         UNCHANGED <<journal, minted, intent, binding, reviews, settled>>
  PROVE  Contract!Effect(k) \/ UNCHANGED Contract!outbox
<1>1. \A i \in Ids : Phase(i)' = Phase(i)
  BY DEF Phase
<1>2. CASE effects' = effects
  BY <1>1, <1>2, PhasesStay
<1>3. CASE effects' = [effects EXCEPT ![k] = @ + 1] /\ (Safe(k) => <<k, c>> \notin seen)
  <2>1. Stage' = Stage /\ After' = After /\ Once' = Once
    BY <1>1, Labels
  <2>2. Stage[k] # "none" /\ \A j \in After[k] : Stage[j] = "closed"
    BY BeforeClosed DEF ExactInv
  <2>3. Once[k] => ~Safe(k) \/ binding[k] # Unbound
    BY Zenon DEF Once
  <2>4. reviews[k] \in Nat
    BY DEF ExactInv, OnceInv, SlotInv, TypeOK
  <2>5. Safe(k) /\ binding[k] # Unbound => effects[k] = 0
    BY <1>3 DEF ExactInv, OnceInv, Remembered
  <2>6. Safe(k) /\ binding[k] # Unbound => effects[k] < 1 + reviews[k]
    BY <2>4, <2>5
  <2>7. Once[k] => effects[k] < 1 + reviews[k]
    BY <2>3, <2>6
  <2>8. QED
    BY <1>3, <2>1, <2>2, <2>7, ContractSteps
<1>4. QED
  BY <1>2, <1>3, CarryCases

LEMMA ServiceKeeps ==
  ExactInv /\ (Serve \/ StrayArrives)
  => (\E i \in Ids : Contract!Effect(i)) \/ UNCHANGED Contract!outbox
<1> SUFFICES ASSUME ExactInv, Serve \/ StrayArrives
             PROVE  (\E i \in Ids : Contract!Effect(i)) \/ UNCHANGED Contract!outbox
  OBVIOUS
<1>1. OnceInv /\ OrderInv /\ SlotInv
  BY DEF ExactInv, OnceInv
<1>2. effects \in [Ids -> Nat] /\ stray \in [Ids -> Nat] /\ reviews \in [Ids -> Nat]
  BY <1>1 DEF SlotInv, TypeOK
<1>3. UNCHANGED <<journal, minted, intent, binding, reviews, settled>>
  BY DEF Serve, StrayArrives, ghosts
<1>4. \A i \in Ids : ~Safe(i) =>
        effects[i] + stray[i] + (IF Unspent(i) THEN 1 ELSE 0) <= 1 + reviews[i]
  BY <1>1 DEF OnceInv, Allowance
<1>5. CASE Serve
  <2> PICK k, c : k = http.id /\ c = http.system
    OBVIOUS
  <2>1. /\ k \in Ids /\ c \in Connectors /\ Carry(k, c) /\ binding[k] \in {Unbound, c}
        /\ Unspent(k)
    BY <1>1, <1>5, ServeCarries
  <2>2. http.stage # "none"
    BY <1>5 DEF Serve
  <2>3. k <= minted /\ Decided(k)
    BY <1>1, <2>2, WorkedOn DEF OrderInv, CallDecided
  <2>4. ~Safe(k) => effects[k] < 1 + reviews[k]
    <3>1. effects[k] \in Nat /\ stray[k] \in Nat /\ reviews[k] \in Nat
      BY <1>2, <2>1
    <3>2. ~Safe(k) => effects[k] + stray[k] + 1 <= 1 + reviews[k]
      BY <1>4, <2>1
    <3>3. QED
      BY <3>1, <3>2
  <2>5. QED
    BY <1>3, <2>1, <2>3, <2>4, EffectKeeps
<1>6. CASE StrayArrives
  <2>1. PICK k \in Ids, c \in Connectors :
          stray[k] > 0 /\ Carry(k, c) /\ binding[k] \in {Unbound, c}
    BY <1>1, <1>6, StrayCarries
  <2>2. effects[k] \in Nat /\ stray[k] \in Nat /\ reviews[k] \in Nat
    BY <1>2
  <2>3. Sent(k)
    BY <2>1, <2>2 DEF Sent
  <2>4. k <= minted /\ Decided(k)
    BY <1>1, <2>3 DEF OrderInv, SentDecided
  <2>5. ~Safe(k) => effects[k] < 1 + reviews[k]
    <3>1. ~Safe(k) => effects[k] + stray[k] + (IF Unspent(k) THEN 1 ELSE 0) <= 1 + reviews[k]
      BY <1>4
    <3>2. (IF Unspent(k) THEN 1 ELSE 0) \in Nat
      OBVIOUS
    <3>3. QED
      BY <2>1, <2>2, <3>1, <3>2
  <2>6. QED
    BY <1>3, <2>1, <2>4, <2>5, EffectKeeps
<1>7. QED
  BY <1>5, <1>6

(* A save of the delivery's own: `sending` is no news to the contract, an  *)
(* outcome closes, holds or re-queues the entry.                           *)
LEMMA SavesKeep ==
  ExactInv /\ Saves
  => (\E i \in Ids : Contract!Hold(i) \/ Contract!Close(i)) \/ UNCHANGED Contract!outbox
<1> SUFFICES ASSUME ExactInv, Saves
             PROVE  \/ \E i \in Ids : Contract!Hold(i) \/ Contract!Close(i)
                    \/ UNCHANGED Contract!outbox
  OBVIOUS
<1> PICK k : k = op.id
  OBVIOUS
<1>1. SlotInv /\ journal \in Document /\ op \in Operation
  BY DEF ExactInv, OnceInv, SlotInv, TypeOK
<1>2. /\ op.stage = "running" /\ op.kind \in {"expire", "prepare", "ack"}
      /\ UNCHANGED <<minted, intent, binding, effects, reviews, settled>>
  BY DEF Saves, ExpireSaved, PrepareSaved, AckSaved, service, ghosts
<1>3. k \in Ids /\ Phase(k) \in {"queued", "sending"}
  <2>1. k \in Ids
    BY <1>1, <1>2, OperationFields
  <2>2. QED
    BY <1>1, <1>2, <2>1 DEF SlotInv, Stations
<1>4. k <= minted
  BY <1>1, <1>3, Recorded
<1>5. CASE ExpireSaved
  <2>1. journal'.phase = [journal.phase EXCEPT ![k] = "attention"]
    BY <1>1, <1>5, SetPhaseFacts DEF ExpireSaved, Expired, Commit, Phases
  <2>2. \A i \in Ids : Phase(i)' = IF i = k THEN "attention" ELSE Phase(i)
    BY <1>1, <2>1 DEF Phase, Document
  <2>3. QED
    BY <1>1, <1>2, <1>3, <1>4, <2>2, PhaseHeld
<1>6. CASE PrepareSaved
  <2>1. journal'.phase = [journal.phase EXCEPT ![k] = "sending"]
    BY <1>1, <1>6, SetPhaseFacts DEF PrepareSaved, Prepared, Commit, Phases
  <2>2. \A i \in Ids : Phase(i)' = IF i = k THEN "sending" ELSE Phase(i)
    BY <1>1, <2>1 DEF Phase, Document
  <2>3. Label("sending") = Label(Phase(k))
    BY <1>3 DEF Label
  <2>4. QED
    BY <1>1, <1>2, <1>3, <1>4, <2>2, <2>3, PhaseHidden
<1>7. CASE AckSaved
  <2> PICK p : p = IF op.outcome = "ok" THEN "absent"
                   ELSE AfterError(op.id, op.outcome, op.sent)
    OBVIOUS
  <2>1. journal'.phase = [journal.phase EXCEPT ![k] = p]
    <3>1. Applied(op.id, op.outcome, op.sent).phase =
            [journal.phase EXCEPT ![op.id] = IF op.outcome = "ok" THEN "absent"
                                             ELSE AfterError(op.id, op.outcome, op.sent)]
      BY <1>1, AppliedFacts
    <3>2. journal' = Applied(op.id, op.outcome, op.sent)
      BY <1>7 DEF AckSaved, Commit
    <3>3. QED
      BY <3>1, <3>2
  <2>2. \A i \in Ids : Phase(i)' = IF i = k THEN p ELSE Phase(i)
    BY <1>1, <2>1 DEF Phase, Document
  <2>3. CASE op.outcome = "ok"
    <3>1. effects[k] > 0
      BY <1>7, <2>3 DEF AckSaved, ExactInv, Carried
    <3>2. /\ After' = After /\ Once' = Once /\ Stage[k] = Label(Phase(k))
          /\ Stage' = [Stage EXCEPT ![k] = Label(p)]
      BY <1>1, <1>2, <1>3, <1>4, <2>2, PhaseMoves
    <3>3. Label(Phase(k)) = "pending" /\ Label(p) = "closed"
      BY <1>3, <2>3 DEF Label
    <3>4. Contract!Close(k)
      BY <1>2, <3>1, <3>2, <3>3, ContractSteps
    <3>5. QED
      BY <1>3, <3>4
  <2>4. CASE p = "attention"
    BY <1>1, <1>2, <1>3, <1>4, <2>2, <2>4, PhaseHeld
  <2>5. CASE p = "queued"
    <3>1. Label(p) = Label(Phase(k))
      BY <1>3, <2>5 DEF Label
    <3>2. QED
      BY <1>1, <1>2, <1>3, <1>4, <2>2, <3>1, PhaseHidden
  <2>6. QED
    BY <2>3, <2>4, <2>5 DEF AfterError
<1>8. QED
  BY <1>5, <1>6, <1>7 DEF Saves

LEMMA ReviewKeeps ==
  ASSUME ExactInv, NEW k \in Ids, Review(k)
  PROVE  Contract!Release(k) \/ Contract!Settle(k)
<1>1. SlotInv /\ journal \in Document
  BY DEF ExactInv, OnceInv, SlotInv, TypeOK
<1>2. UNCHANGED <<minted, intent, binding, effects>> /\ Phase(k) = "attention"
  BY DEF Review, RetryReviewed, DismissReviewed, ConfirmReviewedAsset,
         LinkReviewedRecord, CanReview, service
<1>3. k <= minted
  BY <1>1, <1>2, Recorded
<1>4. Label("attention") = "held" /\ Label("queued") = "pending" /\ Label("absent") = "closed"
  BY DEF Label
<1>5. CASE RetryReviewed(k)
  <2>1. journal'.phase = [journal.phase EXCEPT ![k] = "queued"]
    BY <1>1, <1>5, SetPhaseFacts DEF RetryReviewed, Commit, Phases
  <2>2. \A i \in Ids : Phase(i)' = IF i = k THEN "queued" ELSE Phase(i)
    BY <1>1, <2>1 DEF Phase, Document
  <2>3. /\ After' = After /\ Once' = Once /\ Stage[k] = Label(Phase(k))
        /\ Stage' = [Stage EXCEPT ![k] = Label("queued")]
    BY <1>1, <1>2, <1>3, <2>2, PhaseMoves
  <2>4. reviews' = [reviews EXCEPT ![k] = @ + 1] /\ settled' = settled
    BY <1>5 DEF RetryReviewed
  <2>5. Stage[k] = "held" /\ Stage' = [Stage EXCEPT ![k] = "pending"]
    BY <1>2, <1>4, <2>3
  <2>6. Contract!Release(k)
    BY <1>2, <2>3, <2>4, <2>5, ContractSteps
  <2>7. QED
    BY <2>6
<1>6. CASE DismissReviewed(k) \/ ConfirmReviewedAsset(k) \/ LinkReviewedRecord(k)
  <2>1. journal'.phase = [journal.phase EXCEPT ![k] = "absent"]
    <3>1. /\ Remove(journal, k).phase = [journal.phase EXCEPT ![k] = "absent"]
          /\ Applied(k, "ok", FALSE).phase = [journal.phase EXCEPT ![k] = "absent"]
      BY <1>1, RemoveFacts, AppliedFacts
    <3>2. QED
      BY <1>6, <3>1 DEF DismissReviewed, ConfirmReviewedAsset, LinkReviewedRecord, Commit
  <2>2. \A i \in Ids : Phase(i)' = IF i = k THEN "absent" ELSE Phase(i)
    BY <1>1, <2>1 DEF Phase, Document
  <2>3. /\ After' = After /\ Once' = Once /\ Stage[k] = Label(Phase(k))
        /\ Stage' = [Stage EXCEPT ![k] = Label("absent")]
    BY <1>1, <1>2, <1>3, <2>2, PhaseMoves
  <2>4. reviews' = reviews /\ settled' = settled \union {k}
    BY <1>6 DEF DismissReviewed, ConfirmReviewedAsset, LinkReviewedRecord
  <2>5. Stage[k] = "held" /\ Stage' = [Stage EXCEPT ![k] = "closed"]
    BY <1>2, <1>4, <2>3
  <2>6. Contract!Settle(k)
    BY <1>2, <2>3, <2>4, <2>5, ContractSteps
  <2>7. QED
    BY <2>6
<1>7. QED
  BY <1>5, <1>6 DEF Review

(* Recovery holds the one update that was in flight, or queues it again.   *)
LEMMA RestartKeeps ==
  ExactInv /\ Restart => (\E i \in Ids : Contract!Hold(i)) \/ UNCHANGED Contract!outbox
<1> SUFFICES ASSUME ExactInv, Restart
             PROVE  (\E i \in Ids : Contract!Hold(i)) \/ UNCHANGED Contract!outbox
  OBVIOUS
<1>1. SlotInv /\ journal \in Document
  BY DEF ExactInv, OnceInv, SlotInv, TypeOK
<1>2. UNCHANGED <<minted, intent, binding, effects, reviews, settled>>
  BY DEF Restart, service, ghosts
<1>3. journal'.phase = [i \in Ids |-> RecoveredPhase(i, journal.phase[i])]
  BY <1>1 DEF Restart, Commit, Document
<1>4. \A i \in Ids : Phase(i)' = RecoveredPhase(i, Phase(i))
  BY <1>3 DEF Phase
<1>5. CASE \A i \in Ids : Phase(i) # "sending"
  <2>1. \A i \in Ids : Phase(i)' = Phase(i)
    BY <1>4, <1>5 DEF RecoveredPhase
  <2>2. QED
    BY <1>2, <2>1, PhasesStay
<1>6. ASSUME NEW k \in Ids, Phase(k) = "sending"
      PROVE  (\E i \in Ids : Contract!Hold(i)) \/ UNCHANGED Contract!outbox
  <2>1. \A i \in Ids : i # k => Phase(i) # "sending"
    BY <1>1, <1>6 DEF SlotInv, Documented, Phase
  <2>2. PICK p : p = RecoveredPhase(k, "sending")
    OBVIOUS
  <2>3. \A i \in Ids : Phase(i)' = IF i = k THEN p ELSE Phase(i)
    BY <1>4, <1>6, <2>1, <2>2 DEF RecoveredPhase
  <2>4. k <= minted
    BY <1>1, <1>6, Recorded
  <2>5. CASE p = "attention"
    BY <1>1, <1>2, <1>6, <2>3, <2>4, <2>5, PhaseHeld
  <2>6. CASE p = "queued"
    <3>1. Label(p) = Label(Phase(k))
      BY <1>6, <2>6 DEF Label
    <3>2. QED
      BY <1>1, <1>2, <2>3, <2>4, <3>1, PhaseHidden
  <2>7. QED
    BY <2>2, <2>5, <2>6 DEF RecoveredPhase
<1>7. QED
  BY <1>5, <1>6

LEMMA OthersKeepContract ==
  ASSUME ExactInv, [Next]_vars, ~QueueUpdate, ~Serve, ~StrayArrives, ~Saves,
         ~ \E i \in Ids : Review(i), ~Restart
  PROVE  UNCHANGED Contract!outbox
<1>1. journal \in Document /\ prior = journal
  BY DEF ExactInv, OnceInv, SlotInv, TypeOK, Durable
<1>2. effects' = effects
  BY NextEffects
<1>3. UNCHANGED <<minted, intent, binding, reviews, settled>> /\ journal'.phase = journal.phase
  <2>1. CASE BeginOperation \/ QueueAgain \/ EndOperation \/ OperationFails \/ Poll
             \/ PrepareBreaks \/ Callbacks
    BY <2>1 DEF BeginOperation, QueueAgain, EndOperation, OperationFails, Poll, PollResult,
       PollExpired, PollStart, PrepareBreaks, Callbacks, Dispatch, DispatchFails,
       PrepareGivesUp, AckDone, AckFailed, ghosts
  <2>2. CASE SendRequest \/ Respond \/ Reject \/ Refuse \/ LoseAnswer
    BY <2>2 DEF SendRequest, Respond, Reject, Refuse, LoseAnswer, ghosts
  <2>3. CASE SelectConnector \/ WindowPasses \/ RenameSettles \/ UNCHANGED vars
    BY <2>3 DEF SelectConnector, WindowPasses, RenameSettles, vars, ghosts
  <2>4. CASE PauseEnds
    BY <1>1, <2>4, PauseFacts DEF PauseEnds, ghosts
  <2>5. CASE Stop
    BY <1>1, <2>5 DEF Stop, ghosts
  <2>6. QED
    BY <2>1, <2>2, <2>3, <2>4, <2>5 DEF Next, Workflow, Network
<1>4. \A i \in Ids : Phase(i)' = Phase(i)
  BY <1>3 DEF Phase
<1>5. QED
  BY <1>2, <1>3, <1>4, PhasesStay

LEMMA NextKeepsContract == ExactInv /\ [Next]_vars => [Contract!Next]_(Contract!outbox)
<1> SUFFICES ASSUME ExactInv, [Next]_vars
             PROVE  \/ \E i \in Ids :
                         \/ Contract!Record(i) \/ Contract!Effect(i) \/ Contract!Hold(i)
                         \/ Contract!Release(i) \/ Contract!Close(i) \/ Contract!Settle(i)
                    \/ UNCHANGED Contract!outbox
  BY DEF Contract!Next, Contract!Items, Ids
<1>1. CASE QueueUpdate
  BY <1>1, RecordKeeps
<1>2. CASE Serve \/ StrayArrives
  BY <1>2, ServiceKeeps
<1>3. CASE Saves
  BY <1>3, SavesKeep
<1>4. CASE \E i \in Ids : Review(i)
  BY <1>4, ReviewKeeps
<1>5. CASE Restart
  BY <1>5, RestartKeeps
<1>6. QED
  BY <1>1, <1>2, <1>3, <1>4, <1>5, OthersKeepContract

LEMMA InitContract == Init => Contract!Init
<1> SUFFICES ASSUME Init PROVE Contract!Init
  OBVIOUS
<1>1. minted = 0 /\ \A i \in Ids : i > minted /\ ~(i <= minted)
  BY DEF Init, Ids
<1>2. Stage = [i \in Ids |-> "none"]
  BY <1>1 DEF Stage
<1>3. After = [i \in Ids |-> {}]
  BY <1>1 DEF After
<1>4. Once = [i \in Ids |-> FALSE]
  BY <1>1, Zenon DEF Once
<1>5. /\ effects = [i \in Ids |-> 0] /\ reviews = [i \in Ids |-> 0] /\ settled = {}
  BY DEF Init
<1>6. Contract!Init <=>
        /\ Stage = [i \in Ids |-> "none"] /\ After = [i \in Ids |-> {}]
        /\ Once = [i \in Ids |-> FALSE] /\ effects = [i \in Ids |-> 0]
        /\ reviews = [i \in Ids |-> 0] /\ settled = {}
  BY Zenon DEF Contract!Init, Contract!Items, Ids, Stage, After, Once
<1>7. QED
  BY <1>2, <1>3, <1>4, <1>5, <1>6

(* If a rename is not undone by a power loss, journal, coordinator, worker *)
(* and service together behave like one outbox: every update pending until *)
(* it is closed, effects in order and as often as authorised, doubtful     *)
(* ones held for a person; stops and lost answers are no steps of it.      *)
THEOREM ImplementsOutbox ==
  ASSUME LazyRename = FALSE
  PROVE  Spec => KeepsContract
<1>1. Init => ExactInv
  BY InitExact
<1>2. QED
  BY <1>1, InitContract, NextExact, NextKeepsContract, PTL
     DEF Spec, KeepsContract, Contract!Spec

-----------------------------------------------------------------------------
(* Nothing is lost: what the contract closed was carried out or settled.   *)

Owed == \A i \in Ids : Stage[i] = "closed" => effects[i] > 0 \/ i \in settled

LEMMA NextOwed == ExactInv /\ Owed /\ [Next]_vars => Owed'
<1> SUFFICES ASSUME ExactInv, Owed, [Next]_vars, NEW i \in Ids, Stage'[i] = "closed"
             PROVE  effects'[i] > 0 \/ i \in settled'
  BY DEF Owed
<1>1. effects \in [Ids -> Nat] /\ DOMAIN Stage = Ids
  BY DEF ExactInv, OnceInv, SlotInv, TypeOK, Stage
<1>2. Stage[i] = "closed" => effects[i] > 0 \/ i \in settled
  BY DEF Owed
<1>3. CASE UNCHANGED Contract!outbox
  <2>1. Stage' = Stage /\ effects' = effects /\ settled' = settled
    BY <1>3 DEF Contract!outbox, Stage
  <2>2. QED
    BY <1>2, <2>1
<1>4. ASSUME NEW k \in Ids, Contract!Record(k)
      PROVE  effects'[i] > 0 \/ i \in settled'
  <2>1. Stage' = [Stage EXCEPT ![k] = "pending"] /\ effects' = effects /\ settled' = settled
    BY <1>4, Zenon DEF Contract!Record, Stage
  <2>2. QED
    BY <1>1, <1>2, <2>1
<1>5. ASSUME NEW k \in Ids, Contract!Effect(k)
      PROVE  effects'[i] > 0 \/ i \in settled'
  <2>1. Stage' = Stage /\ effects' = [effects EXCEPT ![k] = @ + 1] /\ settled' = settled
    BY <1>5, ContractSteps
  <2>2. QED
    BY <1>1, <1>2, <2>1
<1>6. ASSUME NEW k \in Ids, Contract!Hold(k) \/ Contract!Release(k) \/ Contract!Close(k)
      PROVE  effects'[i] > 0 \/ i \in settled'
  <2>1. /\ effects' = effects /\ settled' = settled
        /\ \/ Stage' = [Stage EXCEPT ![k] = "held"] \/ Stage' = [Stage EXCEPT ![k] = "pending"]
           \/ effects[k] > 0 /\ Stage' = [Stage EXCEPT ![k] = "closed"]
    BY <1>6, ContractSteps
  <2>2. QED
    BY <1>1, <1>2, <2>1
<1>7. ASSUME NEW k \in Ids, Contract!Settle(k)
      PROVE  effects'[i] > 0 \/ i \in settled'
  <2>1. /\ Stage' = [Stage EXCEPT ![k] = "closed"] /\ effects' = effects
        /\ settled' = settled \union {k}
    BY <1>7, ContractSteps
  <2>2. QED
    BY <1>1, <1>2, <2>1
<1>8. QED
  BY <1>3, <1>4, <1>5, <1>6, <1>7, NextKeepsContract DEF Contract!Next, Contract!Items, Ids

LEMMA InitOwed == LazyRename = FALSE /\ Init => ExactInv /\ Owed
<1> SUFFICES ASSUME LazyRename = FALSE, Init PROVE ExactInv /\ Owed
  OBVIOUS
<1>1. \A i \in Ids : i > minted
  BY DEF Init, Ids
<1>2. QED
  BY <1>1, InitExact DEF Owed, Stage

(* Without a lazy rename no update an operator recorded disappears: it is  *)
(* pending, or was carried out, or an administrator closed it.             *)
THEOREM NothingIsLost ==
  ASSUME LazyRename = FALSE
  PROVE  Spec => []NothingLost
<1>1. ExactInv /\ Owed => NothingLost
  <2> SUFFICES ASSUME ExactInv, Owed, NEW i \in 1 .. minted
               PROVE  i \in InJournal \/ effects[i] > 0 \/ i \in settled
    BY DEF NothingLost
  <2>1. i \in Ids /\ ~(i > minted)
    BY BoundsAssumption DEF ExactInv, OnceInv, SlotInv, TypeOK, Ids
  <2>2. Phase(i) = "absent" => Stage[i] = "closed"
    BY <2>1 DEF Stage
  <2>3. QED
    BY <2>1, <2>2 DEF Owed, InJournal
<1>2. QED
  BY <1>1, InitOwed, NextExact, NextOwed, PTL DEF Spec

(* A late request is carried out on a system its entry is bound to.        *)
LEMMA StrayLands ==
  ASSUME ExactInv, StrayArrives, NEW i \in Ids, effects'[i] > effects[i]
  PROVE  /\ stray[i] > 0 /\ stray'[i] < stray[i]
         /\ Safe(i) /\ binding[i] # Unbound => <<i, binding[i]>> \notin seen
<1>1. OnceInv /\ effects \in [Ids -> Nat] /\ stray \in [Ids -> Nat]
  BY DEF ExactInv, OnceInv, SlotInv, TypeOK
<1>2. PICK h \in Ids :
        /\ stray[h] > 0 /\ stray' = [stray EXCEPT ![h] = @ - 1]
        /\ \E c \in IF binding[h] = Unbound THEN Connectors ELSE {binding[h]} : Carry(h, c)
  BY DEF StrayArrives
<1>3. PICK c \in IF binding[h] = Unbound THEN Connectors ELSE {binding[h]} : Carry(h, c)
  BY <1>2
<1>4. c \in Connectors /\ (binding[h] # Unbound => c = binding[h])
  BY <1>1, <1>3 DEF OnceInv, SlotInv, TypeOK, Systems
<1>5. \/ effects' = effects
      \/ effects' = [effects EXCEPT ![h] = @ + 1] /\ (Safe(h) => <<h, c>> \notin seen)
  BY <1>3 DEF Carry
<1>6. h = i /\ (Safe(h) => <<h, c>> \notin seen)
  BY <1>1, <1>5
<1>7. QED
  BY <1>1, <1>2, <1>4, <1>6

(* A request that may still arrive for an entry that nobody works on any   *)
(* more stems from an entry a person has decided about.                    *)
LEMMA StrayDecided ==
  ASSUME ExactInv, Owed, NEW i \in Ids, i <= minted, Phase(i) = "absent", stray[i] > 0,
         ~Safe(i) \/ binding[i] # Unbound,
         Safe(i) /\ binding[i] # Unbound => <<i, binding[i]>> \notin seen
  PROVE  reviews[i] > 0 \/ i \in settled
<1>1. /\ minted \in Nat /\ effects[i] \in Nat /\ stray[i] \in Nat /\ reviews[i] \in Nat
  BY BoundsAssumption DEF ExactInv, OnceInv, SlotInv, TypeOK
<1>2. effects[i] > 0 \/ i \in settled
  BY <1>1 DEF Owed, Stage, Ids
<1>3. CASE ~Safe(i)
  <2>1. effects[i] + stray[i] + (IF Unspent(i) THEN 1 ELSE 0) <= 1 + reviews[i]
    BY <1>3 DEF ExactInv, OnceInv, Allowance
  <2>2. QED
    BY <1>1, <1>2, <2>1
<1>4. CASE Safe(i) /\ binding[i] # Unbound
  <2>1. effects[i] = 0
    BY <1>1, <1>4 DEF ExactInv, OnceInv, Remembered
  <2>2. QED
    BY <1>2, <2>1
<1>5. QED
  BY <1>3, <1>4

(* Without a lazy rename, once a later update of a lane was carried out,   *)
(* an earlier one is carried out only by a late request of an update that  *)
(* a person retried or closed.                                             *)
THEOREM LanesKeepOrder ==
  ASSUME LazyRename = FALSE
  PROVE  Spec => LaneOrder
<1>1. Spec => [](ExactInv /\ Owed)
  BY InitOwed, NextExact, NextOwed, PTL DEF Spec
<1>2. ExactInv /\ Owed /\ [Next]_vars =>
        [\A i, j \in Ids :
           /\ i < j /\ SameLane(i, j) /\ Method(i) \in OrderedMethods
           /\ ~Safe(i) \/ binding[i] # Unbound
           /\ effects[j] > 0 /\ effects'[i] > effects[i]
           => stray'[i] < stray[i] /\ (reviews[i] > 0 \/ i \in settled)]_vars
  <2> SUFFICES ASSUME ExactInv, Owed, [Next]_vars, NEW i \in Ids, NEW j \in Ids,
                      i < j, SameLane(i, j), Method(i) \in OrderedMethods,
                      ~Safe(i) \/ binding[i] # Unbound,
                      effects[j] > 0, effects'[i] > effects[i]
               PROVE  stray'[i] < stray[i] /\ (reviews[i] > 0 \/ i \in settled)
    OBVIOUS
  <2>1. OnceInv /\ OrderInv /\ SlotInv /\ effects \in [Ids -> Nat] /\ stray \in [Ids -> Nat]
    BY DEF ExactInv, OnceInv, SlotInv, TypeOK
  <2>2. Sent(j)
    BY <2>1 DEF Sent
  <2>3. Phase(i) = "absent" /\ i <= minted
    BY <2>1, <2>2, LaterIsDecided
  <2>4. ~Serve
    <3> SUFFICES ASSUME Serve PROVE FALSE
      OBVIOUS
    <3>1. http.id \in Ids /\ http.system \in Connectors /\ Carry(http.id, http.system)
      BY <2>1, ServeCarries
    <3>2. http.id = i
      BY <2>1, <3>1, CarryCases
    <3>3. Phase(http.id) = "sending"
      BY <2>1 DEF Serve, SlotInv, Stations
    <3>4. QED
      BY <2>3, <3>2, <3>3
  <2>5. StrayArrives
    <3>1. ~StrayArrives => effects' = effects
      BY <2>4, NextEffects
    <3>2. QED
      BY <2>1, <3>1
  <2>6. /\ stray[i] > 0 /\ stray'[i] < stray[i]
        /\ Safe(i) /\ binding[i] # Unbound => <<i, binding[i]>> \notin seen
    BY <2>5, StrayLands
  <2>7. QED
    BY <2>3, <2>6, StrayDecided
<1>3. QED
  BY <1>1, <1>2, PTL DEF Spec, LaneOrder

-----------------------------------------------------------------------------
(* Routing: an incident's updates follow the system its record came from.  *)

(* Outcomes, too, come from the system an entry is bound to.               *)
AnsweredAsBound ==
  /\ op.kind = "ack" => binding[op.id] \in {Unbound, op.system}
  /\ result.outcome # "none" => binding[result.id] \in {Unbound, result.system}

(* A record is at home where its creation was bound.                       *)
CreationsAtHome == \A i \in Ids : Creates(i) => journal.home[About(i)] = binding[i]

(* Updates name records that exist, and follow them home.                  *)
UpdatesFollow == \A i \in Ids : Dependent(i) =>
  /\ journal.ref[About(i)] # "none"
  /\ ~Expires(i) /\ journal.home[About(i)] # Unbound => binding[i] = journal.home[About(i)]

(* The identifier of a record that has a home was issued there.            *)
IssuedAtHome == \A r \in Records :
  journal.ref[r] = "remote" /\ journal.home[r] # Unbound => issuer[r] = journal.home[r]

RouteInv ==
  /\ ExactInv /\ AnsweredAsBound /\ CreationsAtHome /\ UpdatesFollow /\ IssuedAtHome

LEMMA InitRoute == LazyRename = FALSE /\ Init => RouteInv
<1> SUFFICES ASSUME LazyRename = FALSE, Init PROVE RouteInv
  OBVIOUS
<1>1. \A i \in Ids : ~Creates(i) /\ ~Dependent(i)
  BY DEF Init, Creates, Dependent, Method, About, NoIntent
<1>2. AnsweredAsBound /\ IssuedAtHome
  BY DEF Init, AnsweredAsBound, IssuedAtHome, Empty, Idle, NoResult
<1>3. QED
  BY <1>1, <1>2, InitExact DEF RouteInv, CreationsAtHome, UpdatesFollow

LEMMA NextAnsweredAsBound == RouteInv /\ [Next]_vars => AnsweredAsBound'
<1> SUFFICES ASSUME RouteInv, [Next]_vars PROVE AnsweredAsBound'
  OBVIOUS
<1>1. SlotInv /\ RoutedAsBound /\ AnsweredAsBound
  BY DEF RouteInv, ExactInv, OnceInv
<1>2. op \in Operation /\ result \in Report
  BY <1>1 DEF SlotInv, TypeOK
<1>3. /\ op'.kind = "ack" =>
           \/ op.kind = "ack" /\ op'.id = op.id /\ op'.system = op.system
           \/ result.outcome # "none" /\ op'.id = result.id /\ op'.system = result.system
      /\ result'.outcome # "none" =>
           \/ result.outcome # "none" /\ result'.id = result.id /\ result'.system = result.system
           \/ op.kind \in {"ack", "prepare"} /\ result'.id = op.id /\ result'.system = op.system
           \/ http.stage # "none" /\ result'.id = http.id /\ result'.system = http.system
  <2>1. CASE BeginOperation \/ QueueUpdate \/ QueueAgain \/ EndOperation \/ OperationFails
             \/ PrepareBreaks \/ Saves
    BY <1>2, <2>1 DEF BeginOperation, QueueUpdate, QueueAgain, EndOperation, OperationFails,
       PrepareBreaks, Saves, ExpireSaved, PrepareSaved, AckSaved, network, Working, Idle,
       Operation
  <2>2. CASE Poll
    <3>1. result # NoResult => result.outcome # "none"
      BY <1>2, ReportFields DEF Outcomes
    <3>2. QED
      BY <2>2, <3>1 DEF Poll, PollResult, PollExpired, PollStart, Working, NoResult, network
  <2>3. CASE Callbacks
    BY <2>3 DEF Callbacks, Dispatch, DispatchFails, PrepareGivesUp, AckDone, AckFailed, Idle
  <2>4. CASE SendRequest \/ Serve \/ StrayArrives
    BY <2>4 DEF SendRequest, Serve, StrayArrives, network
  <2>5. CASE Respond \/ Reject \/ Refuse \/ LoseAnswer
    BY <2>5 DEF Respond, Reject, Refuse, LoseAnswer, Answer
  <2>6. CASE Stop
    BY <2>6 DEF Stop, Idle, NoResult
  <2>7. CASE \/ \E i \in Ids : Review(i)
             \/ SelectConnector \/ PauseEnds \/ WindowPasses \/ RenameSettles \/ Restart
             \/ UNCHANGED vars
    BY <2>7 DEF Review, RetryReviewed, DismissReviewed, ConfirmReviewedAsset,
       LinkReviewedRecord, SelectConnector, PauseEnds, WindowPasses, RenameSettles,
       Restart, vars, network
  <2>8. QED
    BY <2>1, <2>2, <2>3, <2>4, <2>5, <2>6, <2>7 DEF Next, Workflow, Network
<1>4. CASE QueueUpdate
  <2>1. op'.kind = "queue" /\ result' = result
    BY <1>2, <1>4 DEF QueueUpdate, network, Operation
  <2>2. result.outcome # "none" => result.id \in Ids
    BY <1>2, ReportFields DEF NoResult
  <2>3. result.outcome # "none" => result.id <= minted
    BY <1>1, <2>2, Recorded DEF SlotInv, Stations
  <2>4. result.outcome # "none" => binding'[result.id] = binding[result.id]
    BY <1>1, <2>2, <2>3, NextMeaning
  <2>5. QED
    BY <1>1, <2>1, <2>4 DEF AnsweredAsBound
<1>5. CASE ~QueueUpdate
  <2>1. binding' = binding
    BY <1>1, <1>5, Shapes DEF Stays, FallsBack, Changes
  <2>2. QED
    BY <1>1, <1>3, <2>1 DEF AnsweredAsBound, RoutedAsBound
<1>6. QED
  BY <1>4, <1>5

(* The record of creation k became known, with an identifier of system c.  *)
IssuedBy(k, c) ==
  /\ Creates(k) /\ About(k) \in Records /\ binding[k] \in {Unbound, c}
  /\ journal'.ref = [journal.ref EXCEPT ![About(k)] = "remote"]
  /\ issuer' = [issuer EXCEPT ![About(k)] = c]

LEMMA AppliedRefs ==
  ASSUME TypeOK, NEW k \in Ids, NEW outcome, NEW sent, NEW d, d = Applied(k, outcome, sent)
  PROVE  /\ d.home = journal.home
         /\ d.ref = IF outcome = "ok" /\ Creates(k)
                    THEN [journal.ref EXCEPT ![About(k)] = "remote"] ELSE journal.ref
<1>1. journal \in Document
  BY DEF TypeOK
<1> PICK e : e = Remove(journal, k)
  OBVIOUS
<1>2. e \in Document /\ e.home = journal.home /\ e.ref = journal.ref
  BY <1>1, RemoveFacts DEF Remove, Document
<1>3. CASE outcome = "ok" /\ Creates(k)
  <2>1. d = Resolve(e, About(k))
    BY <1>3 DEF Applied, Delivered, Creates
  <2>2. QED
    BY <1>2, <1>3, <2>1 DEF Resolve, Document
<1>4. CASE outcome = "ok" /\ ~Creates(k)
  BY <1>2, <1>4 DEF Applied, Delivered, Creates
<1>5. CASE outcome # "ok"
  BY <1>1, <1>5 DEF Applied, Delivered, SetPhase, Document
<1>6. QED
  BY <1>3, <1>4, <1>5

LEMMA NextIssued ==
  ASSUME RouteInv, [Next]_vars, ~QueueUpdate
  PROVE  /\ UNCHANGED <<intent, binding>> /\ journal'.home = journal.home
         /\ \/ journal'.ref = journal.ref /\ issuer' = issuer
            \/ \E k \in Ids, c \in Systems : IssuedBy(k, c)
<1>1. SlotInv /\ TypeOK /\ journal \in Document /\ op \in Operation
  BY DEF RouteInv, ExactInv, OnceInv, SlotInv, TypeOK
<1>2. UNCHANGED <<intent, binding>>
  BY <1>1, Shapes DEF Stays, FallsBack, Changes
<1>3. CASE AckSaved
  <2> PICK k, d : k = op.id /\ d = Applied(op.id, op.outcome, op.sent)
    OBVIOUS
  <2>1. k \in Ids /\ op.system \in Systems /\ binding[k] \in {Unbound, op.system}
    BY <1>1, <1>3, OperationFields DEF AckSaved, RouteInv, AnsweredAsBound, Systems
  <2>2. journal' = d /\ issuer' = Issued(k, op.outcome, op.system)
    BY <1>3 DEF AckSaved, Commit
  <2>3. /\ d.home = journal.home
        /\ d.ref = IF op.outcome = "ok" /\ Creates(k)
                   THEN [journal.ref EXCEPT ![About(k)] = "remote"] ELSE journal.ref
    BY <1>1, <2>1, AppliedRefs
  <2>4. CASE op.outcome = "ok" /\ Creates(k)
    <3>1. About(k) \in Records /\ issuer' = [issuer EXCEPT ![About(k)] = op.system]
      BY <1>1, <2>1, <2>2, <2>4, Abouts DEF Issued, Delivered, Creates
    <3>2. IssuedBy(k, op.system)
      BY <2>1, <2>2, <2>3, <2>4, <3>1 DEF IssuedBy
    <3>3. QED
      BY <1>2, <2>1, <2>2, <2>3, <3>2
  <2>5. CASE ~(op.outcome = "ok" /\ Creates(k))
    BY <1>2, <2>2, <2>3, <2>5 DEF Issued, Delivered, Creates
  <2>6. QED
    BY <2>4, <2>5
<1>4. ASSUME NEW k \in Ids, LinkReviewedRecord(k)
      PROVE  journal'.home = journal.home /\ \E c \in Systems : IssuedBy(k, c)
  <2> PICK d : d = Applied(k, "ok", FALSE)
    OBVIOUS
  <2>1. /\ Creates(k) /\ remote \in Systems /\ binding[k] \in {Unbound, remote}
        /\ journal' = d /\ issuer' = Issued(k, "ok", remote)
    BY <1>1, <1>4 DEF LinkReviewedRecord, Creates, Commit, TypeOK
  <2>2. /\ d.home = journal.home
        /\ d.ref = IF "ok" = "ok" /\ Creates(k)
                   THEN [journal.ref EXCEPT ![About(k)] = "remote"] ELSE journal.ref
    BY <1>1, AppliedRefs
  <2>3. About(k) \in Records /\ issuer' = [issuer EXCEPT ![About(k)] = remote]
    BY <1>1, <2>1, Abouts DEF Issued, Delivered, Creates
  <2>4. IssuedBy(k, remote)
    BY <2>1, <2>2, <2>3 DEF IssuedBy
  <2>5. QED
    BY <2>1, <2>2, <2>4
<1>5. ASSUME NEW k \in Ids, RetryReviewed(k) \/ DismissReviewed(k) \/ ConfirmReviewedAsset(k)
      PROVE  journal'.home = journal.home /\ journal'.ref = journal.ref /\ issuer' = issuer
  <2>1. CASE RetryReviewed(k)
    BY <1>1, <2>1 DEF RetryReviewed, Commit, SetPhase, Document
  <2>2. CASE DismissReviewed(k)
    BY <1>1, <2>2 DEF DismissReviewed, Commit, Remove, Document
  <2>3. CASE ConfirmReviewedAsset(k)
    <3> PICK d : d = Applied(k, "ok", FALSE)
      OBVIOUS
    <3>1. ~Creates(k) /\ journal' = d /\ issuer' = issuer
      BY <2>3 DEF ConfirmReviewedAsset, Creates, Commit
    <3>2. d.home = journal.home /\ d.ref = journal.ref
      <4>1. /\ d.home = journal.home
            /\ d.ref = IF "ok" = "ok" /\ Creates(k)
                       THEN [journal.ref EXCEPT ![About(k)] = "remote"] ELSE journal.ref
        BY <1>1, AppliedRefs
      <4>2. QED
        BY <3>1, <4>1
    <3>3. QED
      BY <3>1, <3>2
  <2>4. QED
    BY <1>5, <2>1, <2>2, <2>3
<1>6. CASE ExpireSaved \/ PrepareSaved \/ Restart \/ PauseEnds
  BY <1>1, <1>2, <1>6 DEF ExpireSaved, Expired, PrepareSaved, Prepared, Restart, PauseEnds,
     Commit, SetPhase, Document, ghosts
<1>7. CASE \/ BeginOperation \/ QueueAgain \/ EndOperation \/ OperationFails \/ Poll
           \/ PrepareBreaks \/ Callbacks
  BY <1>2, <1>7 DEF BeginOperation, QueueAgain, EndOperation, OperationFails, Poll, PollResult,
     PollExpired, PollStart, PrepareBreaks, Callbacks, Dispatch, DispatchFails,
     PrepareGivesUp, AckDone, AckFailed, ghosts
<1>8. CASE \/ Network \/ StrayArrives \/ SelectConnector \/ WindowPasses \/ RenameSettles
           \/ Stop \/ UNCHANGED vars
  <2>1. prior = journal
    BY DEF RouteInv, ExactInv, OnceInv, Durable
  <2>2. QED
    BY <1>2, <1>8, <2>1 DEF Network, SendRequest, Serve, Respond, Reject, Refuse, LoseAnswer,
       StrayArrives, SelectConnector, WindowPasses, RenameSettles, Stop, vars, ghosts
<1>9. QED
  BY <1>2, <1>3, <1>4, <1>5, <1>6, <1>7, <1>8 DEF Next, Workflow, Saves, Review

LEMMA IssuedKeeps ==
  RouteInv /\ [Next]_vars /\ ~QueueUpdate
  => CreationsAtHome' /\ UpdatesFollow' /\ IssuedAtHome'
<1> SUFFICES ASSUME RouteInv, [Next]_vars, ~QueueUpdate
             PROVE  CreationsAtHome' /\ UpdatesFollow' /\ IssuedAtHome'
  OBVIOUS
<1>1. /\ UNCHANGED <<intent, binding>> /\ journal'.home = journal.home
      /\ \/ journal'.ref = journal.ref /\ issuer' = issuer
         \/ \E k \in Ids, c \in Systems : IssuedBy(k, c)
  BY NextIssued
<1>2. \A i : /\ Creates(i)' = Creates(i) /\ Dependent(i)' = Dependent(i)
             /\ About(i)' = About(i) /\ Expires(i)' = Expires(i)
  BY <1>1, SameMeaning
<1>3. CreationsAtHome'
  BY <1>1, <1>2 DEF RouteInv, CreationsAtHome
<1>4. CASE journal'.ref = journal.ref /\ issuer' = issuer
  BY <1>1, <1>2, <1>3, <1>4 DEF RouteInv, UpdatesFollow, IssuedAtHome
<1>5. ASSUME NEW k \in Ids, NEW c \in Systems, IssuedBy(k, c)
      PROVE  UpdatesFollow' /\ IssuedAtHome'
  <2>1. TypeOK
    BY DEF RouteInv, ExactInv, OnceInv, SlotInv
  <2>2. /\ journal'.ref[About(k)] = "remote" /\ issuer'[About(k)] = c
        /\ \A r \in Records : r # About(k) =>
             journal'.ref[r] = journal.ref[r] /\ issuer'[r] = issuer[r]
    BY <1>5, <2>1 DEF IssuedBy, TypeOK, Document
  <2>3. journal.home[About(k)] # Unbound => journal.home[About(k)] = c
    BY <1>5 DEF IssuedBy, RouteInv, CreationsAtHome
  <2>4. IssuedAtHome'
    BY <1>1, <2>2, <2>3 DEF RouteInv, IssuedAtHome
  <2>5. \A i \in Ids : Dependent(i) => About(i) \in Records
    BY <2>1, Abouts
  <2>6. \A i \in Ids : Dependent(i) => journal'.ref[About(i)] # "none"
    BY <2>2, <2>5 DEF RouteInv, UpdatesFollow
  <2>7. UpdatesFollow'
    BY <1>1, <1>2, <2>6 DEF RouteInv, UpdatesFollow
  <2>8. QED
    BY <2>4, <2>7
<1>6. QED
  BY <1>1, <1>3, <1>4, <1>5

LEMMA QueueRoutes ==
  RouteInv /\ QueueUpdate => CreationsAtHome' /\ UpdatesFollow' /\ IssuedAtHome'
<1> SUFFICES ASSUME RouteInv, QueueUpdate
             PROVE  CreationsAtHome' /\ UpdatesFollow' /\ IssuedAtHome'
  OBVIOUS
<1>1. SlotInv /\ TypeOK
  BY DEF RouteInv, ExactInv, OnceInv, SlotInv
<1> PICK m : m = minted + 1
  OBVIOUS
<1>2. PICK n \in Intents :
        /\ Askable(n) /\ Commit(Appended(n, m)) /\ m \in Ids
        /\ intent'[m] = n /\ binding'[m] = BindingFor(n)
        /\ \A i \in Ids : i # m => intent'[i] = intent[i] /\ binding'[i] = binding[i]
  BY <1>1, QueueFacts
<1> PICK d : d = Appended(n, m)
  OBVIOUS
<1>3. journal' = d /\ issuer' = issuer
  BY <1>2 DEF Commit, QueueUpdate
<1>4. /\ Creates(m)' <=> n.method = "create"
      /\ Dependent(m)' <=> n.method # "create" /\ n.about # None
      /\ About(m)' = n.about /\ Expires(m)' = n.expires
  BY <1>2 DEF Creates, Dependent, Method, About, Expires
<1>5. \A i \in Ids : i # m =>
        /\ Creates(i)' = Creates(i) /\ Dependent(i)' = Dependent(i)
        /\ About(i)' = About(i) /\ Expires(i)' = Expires(i)
  BY <1>2, SameMeaning
<1>6. \A i \in Ids : /\ Creates(i) => About(i) \in Records /\ intent[i].target = About(i)
                     /\ Dependent(i) => About(i) \in Records
  BY <1>1, Abouts
<1>7. \A i \in Ids : Dependent(i) => journal.ref[About(i)] # "none"
  BY DEF RouteInv, UpdatesFollow
<1>8. CASE n.method = "create"
  <2>1. n.target \in Records /\ n.about = n.target
    BY <1>8, IntentAssumption DEF RecordMethods
  <2>2. BindingFor(n) = remote
    BY <1>8 DEF BindingFor
  <2>3. d.home = [journal.home EXCEPT ![n.target] = remote]
    BY <1>8 DEF Appended
  <2>4. /\ d.home[n.target] = remote
        /\ \A r \in Records : r # n.target => d.home[r] = journal.home[r]
    BY <1>1, <2>1, <2>3 DEF TypeOK, Document
  <2>5. d.ref[n.target] = "local" /\ \A r \in Records : r # n.target => d.ref[r] = journal.ref[r]
    BY <1>1, <1>2, <1>8, AppendedParts
  <2>6. journal.ref[n.target] = "none"
    BY <1>2, <1>8 DEF Askable
  <2>7. \A i \in Ids : Creates(i) => intent[i].target # n.target
    BY <1>2, <1>8 DEF Askable, Creates, Method
  <2>8. CreationsAtHome'
    BY <1>2, <1>3, <1>4, <1>5, <1>6, <2>1, <2>2, <2>4, <2>7 DEF RouteInv, CreationsAtHome
  <2>9. \A i \in Ids : Dependent(i) => About(i) # n.target
    BY <1>7, <2>6
  <2>10. UpdatesFollow'
    BY <1>2, <1>3, <1>4, <1>5, <1>6, <1>8, <2>4, <2>5, <2>9 DEF RouteInv, UpdatesFollow
  <2>11. IssuedAtHome'
    BY <1>3, <2>4, <2>5 DEF RouteInv, IssuedAtHome
  <2>12. QED
    BY <2>8, <2>10, <2>11
<1>9. CASE n.method # "create"
  <2>1. d.home = journal.home
    BY <1>9 DEF Appended
  <2>2. d.ref = journal.ref
    BY <1>1, <1>2, <1>9, AppendedParts
  <2>3. n.about # None => journal.ref[n.about] # "none"
    BY <1>2, <1>9 DEF Askable
  <2>4. n.about # None /\ ~n.expires /\ journal.home[n.about] # Unbound
        => BindingFor(n) = journal.home[n.about]
    BY <1>9 DEF BindingFor
  <2>5. CreationsAtHome'
    BY <1>2, <1>3, <1>4, <1>5, <1>9, <2>1 DEF RouteInv, CreationsAtHome
  <2>6. UpdatesFollow'
    BY <1>2, <1>3, <1>4, <1>5, <2>1, <2>2, <2>3, <2>4 DEF RouteInv, UpdatesFollow
  <2>7. IssuedAtHome'
    BY <1>3, <2>1, <2>2 DEF RouteInv, IssuedAtHome
  <2>8. QED
    BY <2>5, <2>6, <2>7
<1>10. QED
  BY <1>8, <1>9

LEMMA NextRoute == RouteInv /\ [Next]_vars => RouteInv'
<1> SUFFICES ASSUME RouteInv, [Next]_vars PROVE RouteInv'
  OBVIOUS
<1>1. ExactInv' /\ AnsweredAsBound'
  BY NextExact, NextAnsweredAsBound DEF RouteInv
<1>2. CreationsAtHome' /\ UpdatesFollow' /\ IssuedAtHome'
  BY QueueRoutes, IssuedKeeps
<1>3. QED
  BY <1>1, <1>2 DEF RouteInv

(* Without a lazy rename an update reaches no other system than its own,   *)
(* and an update of a record the system that issued its identifier,        *)
(* whatever connector is selected meanwhile.                               *)
THEOREM RoutesAreBound ==
  ASSUME LazyRename = FALSE
  PROVE  Spec => []BoundRouting
<1>1. RouteInv => BoundRouting
  <2> SUFFICES ASSUME RouteInv, http.stage # "none" PROVE BoundRouting
    BY DEF BoundRouting
  <2> PICK i : i = http.id
    OBVIOUS
  <2>1. SlotInv /\ TypeOK /\ RoutedAsBound /\ OrderInv
    BY DEF RouteInv, ExactInv, OnceInv, SlotInv
  <2>2. i \in Ids
    BY <2>1, WorkedOn
  <2>3. binding[i] \in {Unbound, http.system}
    BY <2>1 DEF RoutedAsBound
  <2>4. Dependent(i) => About(i) \in Records /\ journal.ref[About(i)] = "remote"
    BY <2>1, <2>2, Abouts DEF OrderInv, CallDecided, Decided, Cleared
  <2>5. Dependent(i) /\ ~Expires(i) /\ journal.home[About(i)] # Unbound
        => binding[i] = journal.home[About(i)]
    BY <2>2 DEF RouteInv, UpdatesFollow
  <2>6. Dependent(i) /\ journal.home[About(i)] # Unbound
        => issuer[About(i)] = journal.home[About(i)]
    BY <2>4 DEF RouteInv, IssuedAtHome
  <2>7. Dependent(i) /\ ~Expires(i) /\ journal.home[About(i)] # Unbound
        => issuer[About(i)] = http.system
    BY <2>3, <2>5, <2>6
  <2>8. QED
    BY <2>3, <2>7 DEF BoundRouting, Dependent
<1>2. QED
  BY <1>1, InitRoute, NextRoute, PTL DEF Spec
=============================================================================
