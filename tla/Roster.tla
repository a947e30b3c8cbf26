------------------------------- MODULE Roster -------------------------------
(***************************************************************************)
(* The crew directory (services/roster.py, integration/directory.py) and   *)
(* the terminal's request budget (core/rate_policy.py, runtime.py): a      *)
(* refresh of the engineering team's list is asked for by an operator or   *)
(* falls due at midnight, takes the one slot of the delivery worker when   *)
(* no delivery wants it, reads the pages of two directories within the     *)
(* budget, and replaces the saved list only when all of them were read. A  *)
(* refresh that fails for a while waits ever longer and resumes.           *)
(*                                                                         *)
(* Time is counted in minutes, rounded up; it passes in jumps to the next  *)
(* deadline, and not while a request is on its way (15 s at the most).     *)
(***************************************************************************)
EXTENDS Integers, FiniteSets, FiniteSetsExt

CONSTANTS
  Sources,       \* connectors with the team that is configured for them
  None,          \* no connector in use, or no list
  Pages,         \* pages of each directory: [Sources -> [Streams -> Nat \ {0}]]
  MaxPages,      \* directory_max_pages
  Budget,        \* requests in one minute
  RetryAfter,    \* minutes of pause the service asks for when it answers 429
  CompleteTtl,   \* minutes a complete directory is kept (5)
  PartialTtl,    \* minutes an incomplete one is kept (30)
  MaxFailures,   \* where the count of failures ends (32)
  Slowest,       \* minutes of the longest delay (60)
  MaxDeliveries, \* bound: deliveries waiting
  MaxEvents      \* bound: faults, changes in Settings, tests, stops

Streams == {"teams", "members"}

ASSUME RosterAssumption ==
  /\ None \notin Sources
  /\ Pages \in [Sources -> [Streams -> Nat \ {0}]]
  /\ MaxPages \in Nat \ {0} /\ Budget \in Nat \ {0} /\ RetryAfter \in Nat \ {0}
  /\ CompleteTtl \in Nat \ {0} /\ PartialTtl \in Nat \ {0}
  /\ MaxFailures \in Nat \ {0} /\ Slowest \in Nat \ {0}
  /\ MaxDeliveries \in Nat /\ MaxEvents \in Nat

VARIABLES
  source,     \* the connector and team in use
  cache,      \* roster_cache, the last verified list
  refresh,    \* roster_refresh, the saved record of the cycle
  requested,  \* roster_requested
  active,     \* who has the worker's slot
  job,        \* _roster_attempt, the worker's thread and what it reports
  progress,   \* directory_progress of the provider in use
  sent,       \* requests in the window of the last minute
  cool,       \* minutes until cooldown_until
  outbox,     \* deliveries that wait
  pause,      \* minutes until delivery_pause_until
  real,       \* history variable: requests of this process in the last minute
  events      \* faults and changes so far

vars == <<source, cache, refresh, requested, active, job, progress, sent, cool,
          outbox, pause, real, events>>
network == <<sent, cool, real>>
records == <<cache, refresh, requested>>

Day == 1440   \* a wait that only midnight ends

(* A stream: how many pages were read, for how many minutes they are kept, *)
(* and whether one of them was read before the present cycle began.        *)
Empty == [pages |-> 0, left |-> 0, old |-> FALSE]
Cleared == [k \in Streams |-> Empty]

Nothing == [pages |-> 0, old |-> FALSE]
NoList == [of |-> None, pages |-> 0, old |-> FALSE, today |-> FALSE]
NoRefresh == [of |-> None, pending |-> FALSE, manual |-> FALSE, failures |-> 0,
              wait |-> 0, error |-> "", tried |-> FALSE]
NoJob == [of |-> None, manual |-> FALSE, failures |-> 0, stage |-> "none",
          error |-> "", after |-> 0, streams |-> Cleared, own |-> FALSE,
          list |-> Nothing]

Stream == [pages : Nat, left : Nat, old : BOOLEAN]
Errors == {"", "interrupted", "unavailable", "rate_limited", "configuration"}

Lists == [of : Sources \union {None}, pages : Nat, old : BOOLEAN, today : BOOLEAN]
Refreshes == [of : Sources \union {None}, pending : BOOLEAN, manual : BOOLEAN,
              failures : 0 .. MaxFailures, wait : Nat, error : Errors,
              tried : BOOLEAN]
Jobs == [of : Sources \union {None}, manual : BOOLEAN, failures : 0 .. MaxFailures,
         stage : {"none", "teams", "members", "done"}, error : Errors,
         after : Nat, streams : [Streams -> Stream], own : BOOLEAN,
         list : [pages : Nat, old : BOOLEAN]]

TypeOK ==
  /\ source \in Sources \union {None}
  /\ cache \in Lists /\ refresh \in Refreshes /\ requested \in BOOLEAN
  /\ active \in {"none", "roster", "delivery"}
  /\ job \in Jobs /\ progress \in [Streams -> Stream]
  /\ sent \in Nat /\ real \in Nat /\ cool \in Nat /\ pause \in Nat
  /\ outbox \in 0 .. MaxDeliveries
  /\ events \in 0 .. MaxEvents

Init ==
  /\ source \in Sources
  /\ cache = NoList /\ refresh = NoRefresh /\ requested = FALSE
  /\ active = "none" /\ job = NoJob /\ progress = Cleared
  /\ sent = 0 /\ cool = 0 /\ real = 0 /\ outbox = 0 /\ pause = 0
  /\ events = 0

Event == events < MaxEvents /\ events' = events + 1
-----------------------------------------------------------------------------
(* The request window. Every request of the process takes a place in it    *)
(* before it is sent; a pause the service asks for is shared by all.       *)

Limited == cool > 0 \/ sent >= Budget
RetryIn == IF cool > 0 THEN cool ELSE 1

Send == sent' = sent + 1 /\ real' = real + 1
Defer(minutes) == cool' = Max({cool, minutes})
-----------------------------------------------------------------------------
(* Asking for a refresh *)

Matches(record) == record.of = source /\ source # None
Sync == IF Matches(refresh) THEN refresh ELSE NoRefresh
Cached == Matches(cache)

(* request_roster: a cycle that is under way is kept with its delay.       *)
Request ==
  /\ source # None
  /\ active # "roster" /\ ~requested
  /\ refresh' = IF Sync.pending THEN [Sync EXCEPT !.manual = TRUE]
                ELSE [of |-> source, pending |-> TRUE, manual |-> TRUE,
                      failures |-> 0, tried |-> FALSE, error |-> "",
                      wait |-> IF Sync.error = "configuration" THEN 0
                               ELSE Sync.wait]
  /\ requested' = TRUE
  /\ UNCHANGED <<source, cache, active, job, progress, network, outbox, pause,
                 events>>

ExplicitNow == requested

Explicit == requested \/ (Sync.pending /\ Sync.manual)

(* Without an explicit request the kiosk must be idle, which it may be or  *)
(* not, and the list not of today or its cycle unfinished.                 *)
FallsDue == ~(Cached /\ cache.today) \/ Sync.pending

(* The pages read for a cycle that is under way are used again; a new      *)
(* cycle reads the team and its members anew.                              *)
Resumes == Sync.pending /\ Sync.tried
Kept == IF Resumes THEN progress ELSE Cleared
Aged(streams) ==
  [k \in Streams |-> IF ~Resumes /\ streams[k].pages > 0
                     THEN [streams[k] EXCEPT !.old = TRUE] ELSE streams[k]]

MayStart ==
  /\ active = "none" /\ source # None
  /\ outbox = 0 /\ pause = 0
  /\ Sync.wait = 0

Attempt(manual) ==
  [of |-> source, pending |-> TRUE, manual |-> manual, tried |-> TRUE,
   failures |-> Sync.failures, wait |-> 1, error |-> "interrupted"]

(* _start_roster: the attempt is saved before the thread starts; a save    *)
(* that fails changes nothing and frees the slot.                          *)
StartRoster(manual) ==
  /\ MayStart
  /\ job' = [of |-> source, manual |-> manual, failures |-> Sync.failures,
             stage |-> "teams", error |-> "", after |-> 0,
             streams |-> Aged(Kept), own |-> TRUE, list |-> Nothing]
  /\ active' = "roster"
  /\ refresh' = Attempt(manual)
  /\ requested' = FALSE
  /\ UNCHANGED <<source, cache, progress, network, outbox, pause, events>>

(* The connector cannot be opened, before the attempt is saved, or the     *)
(* thread cannot be started, after it: either is reported as a result.     *)
CannotStart(manual) ==
  /\ MayStart /\ Event
  /\ active' = "roster"
  /\ \E error \in {"unavailable", "configuration"} :
       /\ job' = [NoJob EXCEPT !.of = source, !.manual = manual, !.error = error,
                              !.stage = "done", !.failures = Sync.failures]
       /\ refresh' = IF error = "unavailable" THEN Attempt(manual) ELSE refresh
       /\ requested' = (requested /\ error # "unavailable")
  /\ UNCHANGED <<source, cache, progress, network, outbox, pause>>

Start == Explicit /\ (StartRoster(TRUE) \/ CannotStart(TRUE))
StartDaily == ~Explicit /\ FallsDue /\ (StartRoster(FALSE) \/ CannotStart(FALSE))
-----------------------------------------------------------------------------
(* The worker's thread *)

Wanted(k) == Pages[job.of][k]
Complete(k) == job.streams[k].pages = Wanted(k)
Reads(k) == active = "roster" /\ job.stage = k

Ends(error, after) ==
  job' = [job EXCEPT !.stage = "done", !.error = error, !.after = after]

After(k) == IF k = "teams" THEN "members" ELSE "done"

(* A directory that is complete is used as it is. The members are the list *)
(* the attempt reports.                                                    *)
Members == [pages |-> job.streams["members"].pages,
            old |-> \E k \in Streams : job.streams[k].old]

Reuse(k) ==
  /\ Reads(k) /\ Complete(k)
  /\ job' = [job EXCEPT !.stage = After(k),
                        !.list = IF k = "members" THEN Members ELSE @]
  /\ UNCHANGED network

CapReached(k) ==
  /\ Reads(k) /\ ~Complete(k)
  /\ job.streams[k].pages >= MaxPages
  /\ Ends("configuration", 0)
  /\ UNCHANGED network

Wants(k) == Reads(k) /\ ~Complete(k) /\ job.streams[k].pages < MaxPages

OutOfBudget(k) ==
  /\ Wants(k) /\ Limited
  /\ Ends("rate_limited", RetryIn)
  /\ UNCHANGED network

PageRead(k) ==
  LET n == job.streams[k].pages + 1 IN
  /\ Wants(k) /\ ~Limited
  /\ Send /\ UNCHANGED cool
  /\ job' = [job EXCEPT !.streams[k] =
       [pages |-> n, old |-> @.old,
        left |-> IF n = Wanted(k) THEN CompleteTtl ELSE PartialTtl]]

Read(k) ==
  /\ Reuse(k) \/ CapReached(k) \/ OutOfBudget(k) \/ PageRead(k)
  /\ UNCHANGED <<source, records, active, progress, outbox, pause, events>>

(* The service cannot be reached, asks for a pause, or refuses the request *)
(* or answers what is not a page.                                          *)
Unreachable == Ends("unavailable", 0) /\ UNCHANGED cool
AsksForPause == Ends("rate_limited", RetryAfter) /\ Defer(RetryAfter)
Refuses == Ends("configuration", 0) /\ UNCHANGED cool

ReadFails(k) ==
  /\ Wants(k) /\ ~Limited /\ Event /\ Send
  /\ Unreachable \/ AsksForPause \/ Refuses
  /\ UNCHANGED <<source, records, active, progress, outbox, pause>>

(* The pages go back to the provider the attempt began with.               *)
Given == IF job.own THEN job.streams ELSE progress
-----------------------------------------------------------------------------
(* The acknowledgement, on the main thread *)

(* 30 seconds, doubled with each failure up to an hour.                    *)
Delay(failures) ==
  LET d == <<1, 1, 2, 4, 8, 16, 32, 60>>[Min({failures, 8})]
  IN  Min({d, Slowest})

Temporary(error) == error \in {"unavailable", "rate_limited"}

Taken == [refresh EXCEPT !.of = job.of, !.manual = job.manual, !.tried = TRUE]

Succeeded ==
  /\ cache' = [of |-> job.of, pages |-> job.list.pages, old |-> job.list.old,
               today |-> TRUE]
  /\ refresh' = [Taken EXCEPT !.pending = FALSE, !.wait = 0, !.failures = 0,
                              !.error = ""]

Failed ==
  LET n == Min({MaxFailures, job.failures + 1}) IN
  /\ refresh' = [Taken EXCEPT !.pending = Temporary(job.error), !.failures = n,
                   !.error = job.error,
                   !.wait = IF Temporary(job.error)
                            THEN Max({Delay(n), job.after}) ELSE Day]
  /\ UNCHANGED cache

AdoptsAny == TRUE

(* A connector or team that was changed never adopts an old result. A save *)
(* that fails changes nothing: the result is put back and tried again.     *)
Adopts == job.of = source

Acknowledge ==
  /\ active = "roster" /\ job.stage = "done"
  /\ IF Adopts
     THEN /\ IF job.error = "" THEN Succeeded ELSE Failed
          /\ requested' = (refresh'.pending /\ refresh'.manual)
     ELSE UNCHANGED records
  /\ progress' = Given
  /\ active' = "none" /\ job' = NoJob
  /\ UNCHANGED <<source, network, outbox, pause, events>>
-----------------------------------------------------------------------------
(* Deliveries, which have the slot first, and the test in Settings *)

Enqueue ==
  /\ Event /\ outbox < MaxDeliveries
  /\ outbox' = outbox + 1
  /\ UNCHANGED <<source, records, active, job, progress, network, pause>>

StartDelivery ==
  /\ active = "none" /\ source # None
  /\ outbox > 0 /\ pause = 0
  /\ active' = "delivery"
  /\ UNCHANGED <<source, records, job, progress, network, outbox, pause, events>>

FinishDelivery ==
  /\ active = "delivery"
  /\ active' = "none"
  /\ \/ Limited /\ pause' = RetryIn /\ UNCHANGED <<network, outbox, events>>
     \/ ~Limited /\ Send /\ outbox' = outbox - 1 /\ UNCHANGED <<cool, pause, events>>
     \/ /\ ~Limited /\ Event /\ Send /\ UNCHANGED outbox
        /\ \/ Defer(RetryAfter) /\ pause' = RetryAfter
           \/ UNCHANGED cool /\ pause' = 1
  /\ UNCHANGED <<source, records, job, progress>>

(* test_connector: one attempt in the same window, from another thread.    *)
TestConnector ==
  /\ Event /\ ~Limited /\ Send
  /\ UNCHANGED cool \/ Defer(RetryAfter)
  /\ UNCHANGED <<source, records, active, job, progress, outbox, pause>>
-----------------------------------------------------------------------------
(* Settings, time and restarts *)

WindowNew == sent' = 0 /\ cool' = 0

(* reload_connector: a new provider with nothing read, on the same window. *)
WindowKept == sent' = sent /\ cool' = cool

Reload ==
  /\ Event
  /\ source' \in Sources \union {None}
  /\ progress' = Cleared
  /\ job' = [job EXCEPT !.own = FALSE]
  /\ WindowKept
  /\ UNCHANGED <<records, active, outbox, pause, real>>

Timers ==
  {refresh.wait, cool, pause, IF sent + real > 0 THEN 1 ELSE 0} \ {0, Day}

Less(t, d) == IF t = Day THEN Day ELSE Max({0, t - d})
Older(s, d) == IF s.left <= d THEN Empty ELSE [s EXCEPT !.left = @ - d]

PassTime ==
  /\ active = "none" \/ job.stage = "done"
  /\ Timers # {}
  /\ LET d == Min(Timers) IN
     /\ refresh' = [refresh EXCEPT !.wait = Less(@, d)]
     /\ cool' = Less(cool, d) /\ pause' = Less(pause, d)
     /\ progress' = [k \in Streams |-> Older(progress[k], d)]
     /\ job' = [job EXCEPT !.streams = [k \in Streams |-> Older(@[k], d)]]
  /\ sent' = 0 /\ real' = 0
  /\ UNCHANGED <<source, cache, requested, active, outbox, events>>

(* What was refused for good may be tried again on another day.            *)
Midnight ==
  /\ cache.today \/ refresh.wait = Day
  /\ cache' = [cache EXCEPT !.today = FALSE]
  /\ refresh' = [refresh EXCEPT !.wait = IF @ = Day THEN 0 ELSE @]
  /\ UNCHANGED <<source, requested, active, job, progress, network, outbox,
                 pause, events>>

(* The saved record and list survive a restart, what was read does not.    *)
Restart ==
  /\ Event
  /\ requested' = FALSE /\ active' = "none" /\ job' = NoJob
  /\ progress' = Cleared
  /\ sent' = 0 /\ cool' = 0 /\ real' = 0
  /\ UNCHANGED <<source, cache, refresh, outbox, pause>>
-----------------------------------------------------------------------------
Steps ==
  \/ Start \/ Acknowledge \/ StartDelivery \/ FinishDelivery \/ PassTime
  \/ \E k \in Streams : Read(k)

Next ==
  \/ Steps
  \/ Request \/ StartDaily \/ Enqueue \/ TestConnector
  \/ \E k \in Streams : ReadFails(k)
  \/ Reload \/ Midnight \/ Restart

(* The poll of the main thread and the worker's thread go on, and time     *)
(* passes.                                                                 *)
Spec == Init /\ [][Next]_vars /\ WF_vars(Steps)
-----------------------------------------------------------------------------
(* The saved list is only ever replaced by a whole list of the connector   *)
(* and team in use, every page of it read since the cycle began; nothing   *)
(* else touches it (_acknowledge_roster, _start_roster, read_directory).   *)
Whole(list) ==
  /\ list.of = source
  /\ list.pages = Pages[list.of]["members"]
  /\ ~list.old

CacheKept ==
  [][cache' # cache =>
       cache' = [cache EXCEPT !.today = FALSE] \/ Whole(cache')]_vars

(* No minute sees more requests of this process than the budget, whoever   *)
(* sends them and however often Settings makes a new provider (_budget,    *)
(* bind_request_window, reload_connector).                                 *)
BudgetKept == real <= Budget

(* A refresh an operator asked for ends: its list is saved, or it is       *)
(* refused for good, or the connector or team is changed (_poll_roster,    *)
(* read_directory, _acknowledge_roster).                                   *)
RefreshCompletes ==
  \A s \in Sources :
    (refresh.of = s /\ refresh.pending /\ refresh.manual)
      ~> (refresh.of # s \/ ~refresh.pending \/ source # s)
=============================================================================
