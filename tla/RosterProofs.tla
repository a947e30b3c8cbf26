---------------------------- MODULE RosterProofs ----------------------------
(***************************************************************************)
(* Proofs about Roster, for all connectors, directories, page limits,      *)
(* budgets and delays.                                                     *)
(***************************************************************************)
EXTENDS Roster, TLAPS

(* ------------------------------ arithmetic ----------------------------- *)
LEMMA MaxOfTwo ==
  ASSUME NEW a \in Nat, NEW b \in Nat
  PROVE  Max({a, b}) \in {a, b} /\ Max({a, b}) >= a /\ Max({a, b}) >= b
<1>1. \E x \in {a, b} : \A y \in {a, b} : x >= y
  OBVIOUS
<1> QED BY <1>1 DEF Max

LEMMA MinOfTwo ==
  ASSUME NEW a \in Nat, NEW b \in Nat
  PROVE  Min({a, b}) \in {a, b} /\ Min({a, b}) <= a /\ Min({a, b}) <= b
<1>1. \E x \in {a, b} : \A y \in {a, b} : x <= y
  OBVIOUS
<1> QED BY <1>1 DEF Min

LEMMA LessIsNat ==
  ASSUME NEW t \in Nat, NEW d \in Nat
  PROVE  Less(t, d) \in Nat
<1>1. CASE t = Day
  BY <1>1 DEF Less
<1>2. CASE t # Day /\ t >= d
  <2>1. t - d \in Nat
    BY <1>2
  <2> QED BY <1>2, <2>1, MaxOfTwo DEF Less
<1>3. CASE t # Day /\ t < d
  <2>1. \A x \in {0, t - d} : x <= 0
    BY <1>3
  <2>2. Max({0, t - d}) = 0
    BY <1>3 DEF Max
  <2> QED BY <1>3, <2>2 DEF Less
<1> QED BY <1>1, <1>2, <1>3

(* 30 seconds and their doubles are minutes, whatever failed how often.    *)
LEMMA DelayIsNat ==
  ASSUME NEW n \in Nat \ {0}
  PROVE  Delay(n) \in Nat
<1>1. Min({n, 8}) \in 1 .. 8
  BY MinOfTwo
<1>2. <<1, 1, 2, 4, 8, 16, 32, 60>> \in [1 .. 8 -> Nat]
  OBVIOUS
<1>3. <<1, 1, 2, 4, 8, 16, 32, 60>>[Min({n, 8})] \in Nat
  BY <1>1, <1>2
<1> QED BY <1>3, MinOfTwo, RosterAssumption DEF Delay

(* The next deadline is one of the timers.                                 *)
LEMMA NextTimer ==
  ASSUME TypeOK, Timers # {}
  PROVE  Min(Timers) \in Nat /\ Min(Timers) \in Timers
<1>1. PICK w \in Nat, c \in Nat, p \in Nat, q \in Nat :
        Timers = {w, c, p, q} \ {0, Day}
  <2>1. refresh.wait \in Nat /\ cool \in Nat /\ pause \in Nat
    BY DEF TypeOK, Refreshes
  <2>2. (IF sent + real > 0 THEN 1 ELSE 0) \in Nat
    OBVIOUS
  <2> QED BY <2>1, <2>2 DEF Timers
<1>2. \E x \in Timers : \A y \in Timers : x <= y
  BY <1>1
<1>3. Min(Timers) \in Timers
  BY <1>2 DEF Min
<1> QED BY <1>1, <1>3

(* ------------------------------- types --------------------------------- *)
(* Streams and jobs are closed under what the attempts do with them.       *)
LEMMA StreamAged ==
  ASSUME NEW s \in Stream, NEW d \in Nat
  PROVE  /\ [s EXCEPT !.old = TRUE] \in Stream
         /\ Older(s, d) \in Stream
         /\ Older(s, d).old => s.old
<1>1. s.left \in Nat /\ s.pages \in Nat /\ s.old \in BOOLEAN
  BY DEF Stream
<1>2. [s EXCEPT !.old = TRUE] \in Stream
  BY DEF Stream
<1>3. Empty \in Stream /\ ~Empty.old
  BY DEF Empty, Stream
<1>4. CASE s.left > d
  <2>1. s.left - d \in Nat
    BY <1>1, <1>4
  <2>2. [s EXCEPT !.left = s.left - d] \in Stream
    BY <2>1 DEF Stream
  <2>3. [s EXCEPT !.left = s.left - d].old = s.old
    BY DEF Stream
  <2>4. Older(s, d) = [s EXCEPT !.left = s.left - d]
    BY <1>1, <1>4 DEF Older
  <2> QED BY <1>2, <2>2, <2>3, <2>4
<1>5. CASE s.left <= d
  BY <1>2, <1>3, <1>5 DEF Older
<1> QED BY <1>1, <1>4, <1>5

LEMMA ClearedTyped == Cleared \in [Streams -> Stream] /\ \A k \in Streams : ~Cleared[k].old
<1>1. Empty \in Stream /\ ~Empty.old
  BY DEF Empty, Stream
<1> QED BY <1>1 DEF Cleared

LEMMA NoJobTyped == NoJob \in Jobs
<1>1. Nothing \in [pages : Nat, old : BOOLEAN]
  BY DEF Nothing
<1>2. 0 \in 0 .. MaxFailures
  BY RosterAssumption
<1> QED BY <1>1, <1>2, ClearedTyped DEF NoJob, Jobs, Errors

LEMMA JobChanged ==
  ASSUME NEW j \in Jobs
  PROVE  /\ \A e \in Errors, n \in Nat :
              [j EXCEPT !.stage = "done", !.error = e, !.after = n] \in Jobs
         /\ \A g \in {"none", "teams", "members", "done"}, l \in [pages : Nat, old : BOOLEAN] :
              [j EXCEPT !.stage = g, !.list = l] \in Jobs
         /\ \A f \in [Streams -> Stream] : [j EXCEPT !.streams = f] \in Jobs
         /\ [j EXCEPT !.own = FALSE] \in Jobs
<1>1. \A e \in Errors, n \in Nat :
        [j EXCEPT !.stage = "done", !.error = e, !.after = n] \in Jobs
  BY DEF Jobs
<1>2. \A g \in {"none", "teams", "members", "done"}, l \in [pages : Nat, old : BOOLEAN] :
        [j EXCEPT !.stage = g, !.list = l] \in Jobs
  BY DEF Jobs
<1>3. \A f \in [Streams -> Stream] : [j EXCEPT !.streams = f] \in Jobs
  BY DEF Jobs
<1>4. [j EXCEPT !.own = FALSE] \in Jobs
  BY DEF Jobs
<1> QED BY <1>1, <1>2, <1>3, <1>4

LEMMA JobParts ==
  ASSUME NEW j \in Jobs
  PROVE  /\ j.of \in Sources \union {None} /\ j.manual \in BOOLEAN
         /\ j.failures \in 0 .. MaxFailures /\ j.after \in Nat
         /\ j.stage \in {"none", "teams", "members", "done"} /\ j.error \in Errors
         /\ j.streams \in [Streams -> Stream] /\ j.own \in BOOLEAN
         /\ j.list \in [pages : Nat, old : BOOLEAN]
  BY DEF Jobs

LEMMA RefreshParts ==
  ASSUME NEW r \in Refreshes
  PROVE  /\ r.of \in Sources \union {None} /\ r.pending \in BOOLEAN
         /\ r.manual \in BOOLEAN /\ r.failures \in 0 .. MaxFailures /\ r.wait \in Nat
         /\ r.error \in Errors /\ r.tried \in BOOLEAN
  BY DEF Refreshes

LEMMA SyncTyped ==
  ASSUME TypeOK
  PROVE  Sync \in Refreshes /\ Attempt(TRUE) \in Refreshes /\ Attempt(FALSE) \in Refreshes
<1>1. 0 \in 0 .. MaxFailures
  BY RosterAssumption
<1>2. NoRefresh \in Refreshes
  BY <1>1 DEF NoRefresh, Refreshes, Errors
<1>3. Sync \in Refreshes
  BY <1>2 DEF Sync, TypeOK
<1>4. ASSUME NEW b \in BOOLEAN PROVE Attempt(b) \in Refreshes
  <2>1. source \in Sources \union {None} /\ Sync.failures \in 0 .. MaxFailures
    BY <1>3, RefreshParts DEF TypeOK
  <2> QED BY <2>1 DEF Attempt, Refreshes, Errors
<1> QED BY <1>3, <1>4

(* The network's part: the budget itself rests on nothing else.            *)
NetTypes ==
  /\ sent \in Nat /\ real \in Nat /\ cool \in Nat /\ pause \in Nat
  /\ outbox \in 0 .. MaxDeliveries
  /\ events \in 0 .. MaxEvents

DirectoryTypes ==
  /\ source \in Sources \union {None}
  /\ cache \in Lists /\ refresh \in Refreshes /\ requested \in BOOLEAN

WorkerTypes ==
  /\ active \in {"none", "roster", "delivery"}
  /\ job \in Jobs /\ progress \in [Streams -> Stream]

(* The slot is taken for a delivery that is waiting.                       *)
Delivering == active = "delivery" => outbox > 0

LEMMA DeliveringKept ==
  ASSUME TypeOK, Delivering, [Next]_vars
  PROVE  Delivering'
<1>1. CASE active' = "delivery" /\ active # "delivery"
  <2>1. StartDelivery
    BY <1>1 DEF Next, Steps, Start, StartDaily, StartRoster, CannotStart, Request, Read,
      Acknowledge, FinishDelivery, PassTime, Enqueue, TestConnector, ReadFails, Reload,
      Midnight, Restart, vars
  <2> QED BY <2>1 DEF StartDelivery, Delivering
<1>2. CASE active' = "delivery" /\ active = "delivery"
  <2>1. outbox' = outbox \/ Enqueue
    BY <1>2 DEF Next, Steps, Start, StartDaily, StartRoster, CannotStart, Request, Read,
      Acknowledge, StartDelivery, FinishDelivery, PassTime, TestConnector, ReadFails, Reload,
      Midnight, Restart, vars
  <2> QED BY <1>2, <2>1, RosterAssumption DEF Enqueue, Delivering, TypeOK
<1>3. CASE active' # "delivery"
  BY <1>3 DEF Delivering
<1> QED BY <1>1, <1>2, <1>3

LEMMA NetTypesKept ==
  ASSUME TypeOK, Delivering, [Next]_vars
  PROVE  NetTypes'
<1> USE RosterAssumption DEF TypeOK, NetTypes
<1>1. RetryIn \in Nat
  BY DEF RetryIn
<1>2. Max({cool, RetryAfter}) \in Nat
  BY MaxOfTwo
<1>3. CASE UNCHANGED <<sent, real, cool, pause, outbox, events>>
  BY <1>3
<1>4. CASE Event /\ UNCHANGED <<sent, real, cool, pause, outbox>>
  BY <1>4 DEF Event
<1>5. ASSUME NEW k \in Streams, PageRead(k), UNCHANGED <<outbox, pause, events>>
      PROVE  NetTypes'
  BY <1>5 DEF PageRead, Send
<1>6. ASSUME NEW k \in Streams, ReadFails(k)
      PROVE  NetTypes'
  <2>1. sent' \in Nat /\ real' \in Nat /\ events' \in 0 .. MaxEvents
        /\ UNCHANGED <<outbox, pause>>
    BY <1>6 DEF ReadFails, Send, Event
  <2>2. cool' \in Nat
    BY <1>2, <1>6 DEF ReadFails, Unreachable, AsksForPause, Refuses, Defer
  <2> QED BY <2>1, <2>2
<1>7. CASE Enqueue
  BY <1>7 DEF Enqueue, Event, network
<1>8. CASE FinishDelivery
  <2>1. sent' \in Nat /\ real' \in Nat
    BY <1>8 DEF FinishDelivery, Send, network
  <2>2. cool' \in Nat /\ pause' \in Nat
    BY <1>1, <1>2, <1>8 DEF FinishDelivery, Defer, network
  <2>3. outbox' \in 0 .. MaxDeliveries /\ events' \in 0 .. MaxEvents
    BY <1>8 DEF FinishDelivery, Event, Delivering
  <2> QED BY <2>1, <2>2, <2>3
<1>9. CASE TestConnector
  BY <1>2, <1>9 DEF TestConnector, Event, Send, Defer
<1>10. CASE Reload
  BY <1>10 DEF Reload, Event, WindowKept
<1>11. CASE PassTime
  <2>1. Timers # {}
    BY <1>11 DEF PassTime
  <2>2. Less(cool, Min(Timers)) \in Nat /\ Less(pause, Min(Timers)) \in Nat
    BY <2>1, NextTimer, LessIsNat
  <2> QED BY <1>11, <2>2 DEF PassTime
<1>12. CASE Restart
  BY <1>12 DEF Restart, Event
<1> QED BY <1>3, <1>4, <1>5, <1>6, <1>7, <1>8, <1>9, <1>10, <1>11, <1>12
      DEF Next, Steps, Start, StartDaily, StartRoster, CannotStart, Request, Read, Reuse,
          CapReached, OutOfBudget, Acknowledge, StartDelivery, Midnight, vars, network

LEMMA DirectoryTypesKept ==
  ASSUME TypeOK, [Next]_vars
  PROVE  DirectoryTypes'
<1> USE DEF TypeOK
<1>1. CASE UNCHANGED <<source, cache, refresh, requested>>
  BY <1>1, Zenon DEF DirectoryTypes
<1>2. CASE Request
  <2>1. Sync \in Refreshes
    BY SyncTyped
  <2>2. [Sync EXCEPT !.manual = TRUE] \in Refreshes
    BY <2>1 DEF Refreshes
  <2>3. [of |-> source, pending |-> TRUE, manual |-> TRUE, failures |-> 0, tried |-> FALSE,
         error |-> "", wait |-> IF Sync.error = "configuration" THEN 0 ELSE Sync.wait]
          \in Refreshes
    <3>1. (IF Sync.error = "configuration" THEN 0 ELSE Sync.wait) \in Nat
      BY <2>1, RefreshParts
    <3>2. 0 \in 0 .. MaxFailures /\ "" \in Errors
      BY RosterAssumption DEF Errors
    <3> QED BY <3>1, <3>2 DEF Refreshes
  <2>4. refresh' \in Refreshes
    BY <1>2, <2>2, <2>3 DEF Request
  <2>5. UNCHANGED <<source, cache>> /\ requested' = TRUE
    BY <1>2 DEF Request
  <2> QED BY <2>4, <2>5, Zenon DEF DirectoryTypes
<1>3. ASSUME NEW b \in BOOLEAN, StartRoster(b) \/ CannotStart(b)
      PROVE  DirectoryTypes'
  <2>1. refresh' \in Refreshes
    BY <1>3, SyncTyped DEF StartRoster, CannotStart
  <2>2. UNCHANGED <<source, cache>>
    BY <1>3 DEF StartRoster, CannotStart
  <2>3. requested' \in BOOLEAN
    BY <1>3, Zenon DEF StartRoster, CannotStart
  <2> QED BY <2>1, <2>2, <2>3, Zenon DEF DirectoryTypes
<1>4. CASE Acknowledge
  <2>1. Taken \in Refreshes
    <3>1. job.of \in Sources \union {None} /\ job.manual \in BOOLEAN
      BY JobParts
    <3> QED BY <3>1 DEF Taken, Refreshes
  <2>2. \A p \in BOOLEAN, e \in Errors, w \in Nat, m \in 0 .. MaxFailures :
          [Taken EXCEPT !.pending = p, !.wait = w, !.failures = m, !.error = e] \in Refreshes
    BY <2>1 DEF Refreshes
  <2>3. requested' \in BOOLEAN /\ source' = source
    BY <1>4, Zenon DEF Acknowledge, records
  <2>4. CASE Succeeded
    <3>1. cache' \in Lists
      BY <2>4, JobParts DEF Succeeded, Lists
    <3>2. 0 \in 0 .. MaxFailures /\ 0 \in Nat /\ "" \in Errors
      BY RosterAssumption DEF Errors
    <3>3. refresh' = [Taken EXCEPT !.pending = FALSE, !.wait = 0, !.failures = 0, !.error = ""]
      BY <2>4 DEF Succeeded
    <3>4. refresh' \in Refreshes
      BY <2>2, <3>2, <3>3
    <3> QED BY <2>3, <3>1, <3>4, Zenon DEF DirectoryTypes
  <2>5. CASE Failed
    <3>1. PICK n \in 0 .. MaxFailures : n = Min({MaxFailures, job.failures + 1}) /\ n > 0
      <4>1. job.failures + 1 \in Nat \ {0}
        BY JobParts
      <4> QED BY <4>1, MinOfTwo, RosterAssumption
    <3>2. Delay(n) \in Nat /\ job.after \in Nat
      BY <3>1, DelayIsNat, JobParts, RosterAssumption
    <3>3. PICK w \in Nat : w = IF Temporary(job.error) THEN Max({Delay(n), job.after}) ELSE Day
      BY <3>2, MaxOfTwo DEF Day
    <3>4. Temporary(job.error) \in BOOLEAN /\ job.error \in Errors
      BY JobParts DEF Temporary
    <3>5. refresh' = [Taken EXCEPT !.pending = Temporary(job.error), !.wait = w, !.failures = n,
                                   !.error = job.error]
      BY <2>5, <3>1, <3>3, <2>1 DEF Failed, Refreshes
    <3>6. refresh' \in Refreshes
      BY <2>2, <3>4, <3>5
    <3>7. cache' = cache
      BY <2>5 DEF Failed
    <3> QED BY <2>3, <3>6, <3>7, Zenon DEF DirectoryTypes
  <2>6. CASE UNCHANGED <<cache, refresh, requested>>
    BY <2>3, <2>6, Zenon DEF DirectoryTypes
  <2> QED BY <1>4, <2>4, <2>5, <2>6 DEF Acknowledge, records
<1>5. CASE Reload
  BY <1>5 DEF Reload, records, DirectoryTypes
<1>6. CASE PassTime
  <2>1. Less(refresh.wait, Min(Timers)) \in Nat
    BY <1>6, NextTimer, LessIsNat, RefreshParts DEF PassTime
  <2>2. refresh' \in Refreshes
    BY <1>6, <2>1 DEF PassTime, Refreshes
  <2> QED BY <1>6, <2>2 DEF PassTime, DirectoryTypes
<1>7. CASE Midnight
  <2>1. cache' \in Lists
    BY <1>7 DEF Midnight, Lists
  <2>2. refresh' \in Refreshes
    BY <1>7 DEF Midnight, Refreshes
  <2> QED BY <1>7, <2>1, <2>2 DEF Midnight, DirectoryTypes
<1>8. CASE Restart
  BY <1>8 DEF Restart, DirectoryTypes
<1> QED BY <1>1, <1>2, <1>3, <1>4, <1>5, <1>6, <1>7, <1>8
      DEF Next, Steps, Start, StartDaily, Read, ReadFails, StartDelivery, FinishDelivery,
          Enqueue, TestConnector, vars, records

LEMMA AgedTyped ==
  ASSUME TypeOK
  PROVE  Kept \in [Streams -> Stream] /\ Aged(Kept) \in [Streams -> Stream]
<1>1. Kept \in [Streams -> Stream]
  BY ClearedTyped DEF Kept, TypeOK
<1>2. \A k \in Streams : [Kept[k] EXCEPT !.old = TRUE] \in Stream
  BY <1>1, StreamAged DEF Stream
<1> QED BY <1>1, <1>2 DEF Aged

LEMMA OlderTyped ==
  ASSUME NEW f \in [Streams -> Stream], NEW d \in Nat
  PROVE  [k \in Streams |-> Older(f[k], d)] \in [Streams -> Stream]
  BY StreamAged

(* What one step of reading a directory makes of the job.                  *)
LEMMA ReadTyped ==
  ASSUME TypeOK, NEW k \in Streams, Read(k) \/ ReadFails(k)
  PROVE  job' \in Jobs
<1> USE DEF TypeOK
<1>1. CASE Reuse(k)
  <2>1. Members \in [pages : Nat, old : BOOLEAN]
    <3>1. "members" \in Streams
      BY DEF Streams
    <3>2. job.streams["members"].pages \in Nat
      BY <3>1, JobParts DEF Stream
    <3>3. (\E m \in Streams : job.streams[m].old) \in BOOLEAN
      OBVIOUS
    <3> QED BY <3>2, <3>3 DEF Members
  <2>2. (IF k = "members" THEN Members ELSE job.list) \in [pages : Nat, old : BOOLEAN]
    BY <2>1, JobParts
  <2>3. job' = [job EXCEPT !.stage = After(k),
                           !.list = IF k = "members" THEN Members ELSE job.list]
    BY <1>1 DEF Reuse
  <2> QED BY <2>2, <2>3, JobChanged DEF After
<1>2. ASSUME NEW e \in Errors, NEW n \in Nat, Ends(e, n)
      PROVE  job' \in Jobs
  BY <1>2, JobChanged DEF Ends
<1>3. RetryIn \in Nat /\ RetryAfter \in Nat
  BY RosterAssumption DEF RetryIn
<1>4. {"configuration", "rate_limited", "unavailable"} \subseteq Errors
  BY DEF Errors
<1>5. CASE CapReached(k) \/ OutOfBudget(k) \/ ReadFails(k)
  BY <1>2, <1>3, <1>4, <1>5 DEF CapReached, OutOfBudget, ReadFails, Unreachable,
    AsksForPause, Refuses
<1>6. CASE PageRead(k)
  <2>1. job.streams \in [Streams -> Stream] /\ job.streams[k].pages + 1 \in Nat
        /\ job.streams[k].old \in BOOLEAN
    BY JobParts DEF Stream
  <2>2. PICK t \in Stream : job' = [job EXCEPT !.streams[k] = t]
    <3>1. PICK n \in Nat, l \in Nat : job' = [job EXCEPT !.streams[k] =
                                       [pages |-> n, old |-> @.old, left |-> l]]
      BY <1>6, <2>1, RosterAssumption DEF PageRead
    <3>2. [pages |-> n, old |-> job.streams[k].old, left |-> l] \in Stream
      BY <2>1 DEF Stream
    <3> QED BY <3>1, <3>2
  <2>3. [job.streams EXCEPT ![k] = t] \in [Streams -> Stream]
    BY <2>1
  <2>4. job' = [job EXCEPT !.streams = [job.streams EXCEPT ![k] = t]]
    BY <2>2
  <2> QED BY <2>3, <2>4, JobChanged
<1> QED BY <1>1, <1>5, <1>6 DEF Read

LEMMA WorkerTypesKept ==
  ASSUME TypeOK, [Next]_vars
  PROVE  WorkerTypes'
<1> USE DEF TypeOK, WorkerTypes
<1>1. CASE UNCHANGED <<active, job, progress>>
  BY <1>1
<1>2. ASSUME NEW b \in BOOLEAN, StartRoster(b)
      PROVE  WorkerTypes'
  <2>1. Sync.failures \in 0 .. MaxFailures
    BY SyncTyped, RefreshParts
  <2>2. Nothing \in [pages : Nat, old : BOOLEAN]
    BY DEF Nothing
  <2>3. \A f \in [Streams -> Stream], n \in 0 .. MaxFailures :
          [of |-> source, manual |-> b, failures |-> n, stage |-> "teams", error |-> "",
           after |-> 0, streams |-> f, own |-> TRUE, list |-> Nothing] \in Jobs
    BY <2>2 DEF Jobs, Errors
  <2>4. PICK f \in [Streams -> Stream] : f = Aged(Kept)
    BY AgedTyped
  <2>5. job' = [of |-> source, manual |-> b, failures |-> Sync.failures, stage |-> "teams",
                error |-> "", after |-> 0, streams |-> f, own |-> TRUE, list |-> Nothing]
    BY <1>2, <2>4 DEF StartRoster
  <2>6. job' \in Jobs
    BY <2>1, <2>3, <2>5
  <2> QED BY <1>2, <2>6 DEF StartRoster
<1>3. ASSUME NEW b \in BOOLEAN, CannotStart(b)
      PROVE  WorkerTypes'
  <2>1. Sync.failures \in 0 .. MaxFailures
    BY SyncTyped, RefreshParts
  <2>2. \A e \in Errors, o \in Sources \union {None} :
          [NoJob EXCEPT !.of = o, !.manual = b, !.error = e, !.stage = "done",
                        !.failures = Sync.failures] \in Jobs
    BY <2>1, NoJobTyped DEF Jobs
  <2>3. PICK e \in {"unavailable", "configuration"} :
          job' = [NoJob EXCEPT !.of = source, !.manual = b, !.error = e, !.stage = "done",
                               !.failures = Sync.failures]
    BY <1>3 DEF CannotStart
  <2>4. e \in Errors /\ source \in Sources \union {None}
    BY DEF Errors
  <2>5. job' \in Jobs
    BY <2>2, <2>3, <2>4
  <2> QED BY <1>3, <2>5 DEF CannotStart
<1>4. ASSUME NEW k \in Streams, Read(k) \/ ReadFails(k)
      PROVE  WorkerTypes'
  BY <1>4, ReadTyped DEF Read, ReadFails
<1>5. CASE Acknowledge
  <2>1. Given \in [Streams -> Stream]
    BY JobParts DEF Given
  <2> QED BY <1>5, <2>1, NoJobTyped DEF Acknowledge
<1>6. CASE StartDelivery \/ FinishDelivery
  BY <1>6 DEF StartDelivery, FinishDelivery
<1>7. CASE Reload
  BY <1>7, JobChanged, ClearedTyped DEF Reload
<1>8. CASE PassTime
  <2>1. PICK d \in Nat : d = Min(Timers)
    BY <1>8, NextTimer DEF PassTime
  <2>2. progress' = [k \in Streams |-> Older(progress[k], d)]
    BY <1>8, <2>1 DEF PassTime
  <2>3. job' = [job EXCEPT !.streams = [k \in Streams |-> Older(job.streams[k], d)]]
    BY <1>8, <2>1 DEF PassTime
  <2>4. progress' \in [Streams -> Stream]
    BY <2>2, OlderTyped
  <2>5. [k \in Streams |-> Older(job.streams[k], d)] \in [Streams -> Stream]
    BY OlderTyped, JobParts
  <2>6. \A f \in [Streams -> Stream] : [job EXCEPT !.streams = f] \in Jobs
    BY JobChanged
  <2>7. job' \in Jobs
    BY <2>3, <2>5, <2>6
  <2> QED BY <1>8, <2>4, <2>7 DEF PassTime
<1>9. CASE Restart
  BY <1>9, NoJobTyped, ClearedTyped DEF Restart
<1> QED BY <1>1, <1>2, <1>3, <1>4, <1>5, <1>6, <1>7, <1>8, <1>9
      DEF Next, Steps, Start, StartDaily, Request, Enqueue, TestConnector, Midnight, vars

LEMMA TypesAtFirst == Init => TypeOK /\ Delivering
<1> SUFFICES ASSUME Init PROVE TypeOK /\ Delivering
  OBVIOUS
<1>1. 0 \in 0 .. MaxFailures /\ 0 \in 0 .. MaxDeliveries /\ 0 \in 0 .. MaxEvents
  BY RosterAssumption
<1>2. NoList \in Lists /\ NoRefresh \in Refreshes
  BY <1>1 DEF NoList, Lists, NoRefresh, Refreshes, Errors
<1>3. source \in Sources \union {None} /\ requested \in BOOLEAN
  BY DEF Init
<1> QED BY <1>1, <1>2, <1>3, NoJobTyped, ClearedTyped DEF Init, TypeOK, Delivering

LEMMA TypesKept == TypeOK /\ Delivering /\ [Next]_vars => TypeOK' /\ Delivering'
<1> SUFFICES ASSUME TypeOK, Delivering, [Next]_vars PROVE TypeOK' /\ Delivering'
  OBVIOUS
<1>1. NetTypes' /\ DirectoryTypes' /\ WorkerTypes' /\ Delivering'
  BY NetTypesKept, DirectoryTypesKept, WorkerTypesKept, DeliveringKept
<1> QED BY <1>1, Zenon DEF TypeOK, NetTypes, DirectoryTypes, WorkerTypes

(* Every reachable state is well typed, for every directory and budget: a  *)
(* saved cycle, a delay or a job is never one the code cannot read back.   *)
THEOREM RosterTypes == Spec => []TypeOK
<1>1. Init => TypeOK /\ Delivering
  BY TypesAtFirst
<1>2. TypeOK /\ Delivering /\ [Next]_vars => TypeOK' /\ Delivering'
  BY TypesKept
<1> QED BY <1>1, <1>2, PTL DEF Spec

(* ------------------------------- budget -------------------------------- *)
(* The window counts exactly the requests that were sent.                  *)
Counted == real = sent /\ sent <= Budget

LEMMA CountedKept ==
  ASSUME TypeOK, Counted, [Next]_vars
  PROVE  Counted'
<1> USE RosterAssumption DEF TypeOK, Counted
<1>1. CASE UNCHANGED <<sent, real>>
  BY <1>1
<1>2. CASE ~Limited /\ Send
  BY <1>2 DEF Limited, Send
<1>3. CASE sent' = 0 /\ real' = 0
  BY <1>3
<1>4. UNCHANGED <<sent, real>> \/ (~Limited /\ Send) \/ (sent' = 0 /\ real' = 0)
  BY DEF Next, Steps, Start, StartDaily, StartRoster, CannotStart, Request, Read, Reuse,
    CapReached, OutOfBudget, PageRead, Acknowledge, StartDelivery, FinishDelivery, PassTime,
    Enqueue, TestConnector, ReadFails, Reload, WindowKept, Midnight, Restart, vars, network
<1> QED BY <1>1, <1>2, <1>3, <1>4

(* No minute sees more requests of this process than the budget: the job,  *)
(* the deliveries and the test in Settings share one window, which a new   *)
(* provider takes over.                                                    *)
THEOREM BudgetIsKept == Spec => []BudgetKept
<1>1. Init => Counted
  BY RosterAssumption DEF Init, Counted
<1>2. TypeOK /\ Counted /\ [Next]_vars => Counted'
  BY CountedKept
<1>3. Counted => BudgetKept
  BY DEF Counted, BudgetKept
<1> QED BY <1>1, <1>2, <1>3, RosterTypes, PTL DEF Spec

(* -------------------------------- cache -------------------------------- *)
Fresh(streams) == \A k \in Streams : ~streams[k].old

(* Whatever was read before the cycle began is dropped when it begins, and *)
(* an attempt that ends well reports all pages of the members' list.       *)
Sound ==
  /\ Fresh(progress) /\ Fresh(job.streams) /\ ~job.list.old
  /\ job.stage = "done" /\ job.error = ""
       => job.list.pages = Pages[job.of]["members"]
  /\ job.stage \in {"teams", "members"} => job.error = ""

LEMMA SoundKept ==
  ASSUME TypeOK, Sound, [Next]_vars
  PROVE  Sound'
<1> USE DEF TypeOK
<1>0. Fresh(Cleared) /\ ~NoJob.list.old /\ Fresh(NoJob.streams) /\ NoJob.stage = "none"
  BY ClearedTyped DEF Fresh, NoJob, Nothing
<1>1. CASE UNCHANGED <<job, progress>>
  BY <1>1 DEF Sound, Fresh
<1>2. ASSUME NEW b \in BOOLEAN, StartRoster(b)
      PROVE  Sound'
  <2>1. Fresh(Aged(Kept))
    <3>1. Kept \in [Streams -> Stream]
      BY AgedTyped
    <3>2. CASE Resumes
      <4>1. Kept = progress
        BY <3>2 DEF Kept
      <4> QED BY <3>2, <4>1 DEF Aged, Sound, Fresh
    <3>3. CASE ~Resumes
      <4>1. Kept = Cleared
        BY <3>3 DEF Kept
      <4>2. \A k \in Streams : Kept[k].pages = 0
        BY <4>1 DEF Cleared, Empty
      <4>3. \A k \in Streams : Aged(Kept)[k] = Kept[k]
        BY <4>2 DEF Aged
      <4> QED BY <1>0, <4>1, <4>3 DEF Fresh
    <3> QED BY <3>2, <3>3
  <2>2. job'.streams = Aged(Kept) /\ job'.list = Nothing /\ job'.stage = "teams"
        /\ job'.error = "" /\ progress' = progress
    BY <1>2 DEF StartRoster
  <2>3. Fresh(progress') /\ Fresh(job'.streams)
    BY <2>1, <2>2, Zenon DEF Sound
  <2>4. ~job'.list.old
    <3>1. ~Nothing.old
      BY DEF Nothing
    <3> QED BY <2>2, <3>1, Zenon
  <2> QED BY <2>2, <2>3, <2>4 DEF Sound, Fresh
<1>3. ASSUME NEW b \in BOOLEAN, CannotStart(b)
      PROVE  Sound'
  <2>1. job'.streams = NoJob.streams /\ job'.list = NoJob.list /\ job'.stage = "done"
        /\ job'.error # "" /\ progress' = progress
    BY <1>3 DEF CannotStart, NoJob
  <2> QED BY <1>0, <2>1 DEF Sound, Fresh
<1>4. ASSUME NEW k \in Streams, Read(k) \/ ReadFails(k)
      PROVE  Sound'
  <2>1. progress' = progress
    BY <1>4 DEF Read, ReadFails
  <2>2. CASE Reuse(k)
    <3>1. job'.streams = job.streams /\ job'.error = job.error /\ job'.of = job.of
      BY <2>2 DEF Reuse, Jobs
    <3>2. job.stage = k /\ job.error = ""
      BY <2>2 DEF Reuse, Reads, Streams, Sound
    <3>3. CASE k = "teams"
      <4>1. job'.stage = "members" /\ job'.list = job.list
        BY <2>2, <3>3 DEF Reuse, After, Jobs
      <4> QED BY <2>1, <3>1, <3>2, <4>1 DEF Sound, Fresh
    <3>4. CASE k = "members"
      <4>1. job'.stage = "done" /\ job'.list = Members
        BY <2>2, <3>4 DEF Reuse, After, Jobs
      <4>2. Members.pages = Pages[job.of]["members"]
        BY <2>2, <3>4 DEF Reuse, Complete, Wanted, Members
      <4>3. ~Members.old
        BY DEF Members, Sound, Fresh
      <4> QED BY <2>1, <3>1, <3>2, <4>1, <4>2, <4>3 DEF Sound, Fresh
    <3> QED BY <3>3, <3>4 DEF Streams
  <2>3. ASSUME NEW e \in Errors \ {""}, NEW n, Ends(e, n)
        PROVE  Sound'
    <3>1. job'.stage = "done" /\ job'.error = e /\ job'.streams = job.streams
          /\ job'.list = job.list
      BY <2>3 DEF Ends, Jobs
    <3> QED BY <2>1, <2>3, <3>1 DEF Sound, Fresh
  <2>4. {"configuration", "rate_limited", "unavailable"} \subseteq Errors \ {""}
    BY DEF Errors
  <2>5. CASE CapReached(k) \/ OutOfBudget(k) \/ ReadFails(k)
    BY <2>3, <2>4, <2>5 DEF CapReached, OutOfBudget, ReadFails, Unreachable, AsksForPause,
      Refuses
  <2>6. CASE PageRead(k)
    <3>1. job'.stage = job.stage /\ job'.error = job.error /\ job'.list = job.list
          /\ job.stage = k
      BY <2>6 DEF PageRead, Wants, Reads, Jobs
    <3>2. job.streams \in [Streams -> Stream]
      BY JobParts
    <3>3. \A m \in Streams : job'.streams[m].old = job.streams[m].old
      BY <2>6, <3>2 DEF PageRead, Jobs
    <3> QED BY <2>1, <3>1, <3>3 DEF Sound, Fresh, Streams
  <2> QED BY <1>4, <2>2, <2>5, <2>6 DEF Read
<1>5. CASE Acknowledge
  <2>1. job' = NoJob /\ progress' = Given
    BY <1>5 DEF Acknowledge
  <2>2. Fresh(Given)
    BY DEF Given, Sound
  <2> QED BY <1>0, <2>1, <2>2 DEF Sound, Fresh
<1>6. CASE Reload
  <2>1. job'.streams = job.streams /\ job'.list = job.list /\ job'.stage = job.stage
        /\ job'.error = job.error /\ job'.of = job.of /\ progress' = Cleared
    BY <1>6 DEF Reload, Jobs
  <2> QED BY <1>0, <2>1 DEF Sound, Fresh
<1>7. CASE PassTime
  <2>1. PICK d \in Nat : d = Min(Timers)
    BY <1>7, NextTimer DEF PassTime
  <2>2. progress' = [k \in Streams |-> Older(progress[k], d)]
    BY <1>7, <2>1 DEF PassTime
  <2>3. job'.streams = [k \in Streams |-> Older(job.streams[k], d)]
        /\ job'.list = job.list /\ job'.stage = job.stage
        /\ job'.error = job.error /\ job'.of = job.of
    BY <1>7, <2>1 DEF PassTime, Jobs
  <2>4. ASSUME NEW f \in [Streams -> Stream], Fresh(f)
        PROVE  Fresh([k \in Streams |-> Older(f[k], d)])
    <3>1. ASSUME NEW k \in Streams PROVE ~Older(f[k], d).old
      BY <2>4, <3>1, StreamAged DEF Fresh
    <3> QED BY <3>1 DEF Fresh
  <2>5. Fresh(progress') /\ Fresh(job'.streams)
    BY <2>2, <2>3, <2>4, JobParts DEF Sound
  <2> QED BY <2>3, <2>5 DEF Sound, Fresh
<1>8. CASE Restart
  <2>1. job' = NoJob /\ progress' = Cleared
    BY <1>8 DEF Restart
  <2> QED BY <1>0, <2>1 DEF Sound, Fresh
<1> QED BY <1>1, <1>2, <1>3, <1>4, <1>5, <1>6, <1>7, <1>8
      DEF Next, Steps, Start, StartDaily, Request, StartDelivery, FinishDelivery, Enqueue,
          TestConnector, Midnight, vars

(* The saved list is only ever replaced by a whole list of the connector   *)
(* and team in use, every page read since the cycle began, whatever fails, *)
(* is changed in Settings or restarted meanwhile.                          *)
THEOREM CacheIsKept == Spec => CacheKept
<1>1. Init => Sound
  <2>1. Fresh(Cleared)
    BY ClearedTyped DEF Fresh
  <2>2. NoJob.streams = Cleared /\ ~NoJob.list.old /\ NoJob.stage = "none"
    BY DEF NoJob, Nothing
  <2> QED BY <2>1, <2>2 DEF Init, Sound
<1>2. TypeOK /\ Sound /\ [Next]_vars => Sound'
  BY SoundKept
<1>3. ASSUME TypeOK, Sound, [Next]_vars
      PROVE  [cache' # cache =>
                cache' = [cache EXCEPT !.today = FALSE] \/ Whole(cache')]_vars
  <2>1. CASE Midnight
    BY <2>1 DEF Midnight
  <2>2. CASE Acknowledge
    <3>1. CASE Adopts /\ job.error = ""
      <4>1. Succeeded /\ job.stage = "done" /\ source' = source
        BY <2>2, <3>1 DEF Acknowledge
      <4>2. cache' = [of |-> job.of, pages |-> job.list.pages, old |-> job.list.old,
                      today |-> TRUE]
        BY <4>1 DEF Succeeded
      <4>3. cache'.of = job.of /\ cache'.pages = job.list.pages /\ cache'.old = job.list.old
        BY <4>2
      <4>4. job.of = source /\ job.list.pages = Pages[job.of]["members"] /\ ~job.list.old
        BY <1>3, <3>1, <4>1 DEF Sound, Adopts
      <4>5. Whole(cache')
        BY <4>1, <4>3, <4>4 DEF Whole
      <4> QED BY <4>1, <4>5
    <3>2. CASE ~(Adopts /\ job.error = "")
      BY <2>2, <3>2 DEF Acknowledge, Failed, records
    <3> QED BY <3>1, <3>2
  <2>3. CASE UNCHANGED cache
    BY <2>3
  <2> QED BY <1>3, <2>1, <2>2, <2>3
        DEF Next, Steps, Start, StartDaily, StartRoster, CannotStart, Request, Read, ReadFails,
            StartDelivery, FinishDelivery, PassTime, Enqueue, TestConnector, Reload, Restart,
            vars, records
<1> QED BY <1>1, <1>2, <1>3, RosterTypes, PTL DEF Spec, CacheKept
=============================================================================
