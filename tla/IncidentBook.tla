---------------------------- MODULE IncidentBook ----------------------------
(* What the terminal promises about production stops, whichever of them    *)
(* the screen shows: an incident stops a set of groups for as long as it   *)
(* is open, no two open incidents stop the same group, each moves through  *)
(* its own life one step at a time, and a released incident never returns. *)
(* Looking at another incident, a restart, a delivery and a change in      *)
(* Settings are not steps of this specification.                           *)
CONSTANTS Ids,      \* identities of incidents
          Groups    \* production groups

VARIABLES phase,    \* [Ids -> Phases]
          stopped   \* [Ids -> SUBSET Groups], what each incident stops

book == <<phase, stopped>>

Open == {i \in Ids : phase[i] \in {"DOWN", "REPAIRING", "ENGINEERING"}}

Occupied == UNION {stopped[i] : i \in Open}

Init == /\ phase = [i \in Ids |-> "none"]
        /\ stopped = [i \in Ids |-> {}]

(* A new incident, reported, self-fixed or planned.                        *)
Begin(i) ==
  /\ phase[i] = "none"
  /\ \E s \in (SUBSET (Groups \ Occupied)) \ {{}} :
       stopped' = [stopped EXCEPT ![i] = s]
  /\ \E p \in {"DOWN", "REPAIRING", "ENGINEERING"} :
       phase' = [phase EXCEPT ![i] = p]

(* Help arrives.                                                           *)
Work(i) == /\ phase[i] = "DOWN"
           /\ phase' = [phase EXCEPT ![i] = "REPAIRING"]
           /\ UNCHANGED stopped

(* The operator's own repair did not help.                                 *)
Hand(i) == /\ phase[i] = "REPAIRING"
           /\ phase' = [phase EXCEPT ![i] = "DOWN"]
           /\ UNCHANGED stopped

(* Back to production, for good.                                           *)
Release(i) == /\ i \in Open
              /\ phase' = [phase EXCEPT ![i] = "RELEASED"]
              /\ stopped' = [stopped EXCEPT ![i] = {}]

Next == \E i \in Ids : Begin(i) \/ Work(i) \/ Hand(i) \/ Release(i)

Spec == Init /\ [][Next]_book
=============================================================================
