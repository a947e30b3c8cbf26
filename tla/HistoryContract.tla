-------------------------- MODULE HistoryContract --------------------------
(***************************************************************************)
(* What the local history promises, with no queue, thread or file in it:   *)
(* the archive follows the snapshots of an incident forwards only, never   *)
(* shows one that was not committed, and forgets an incident only after    *)
(* it was completed more than a day ago and nothing about it still waits   *)
(* to be told to the external system.                                      *)
(***************************************************************************)
EXTENDS Naturals

CONSTANT Incidents

VARIABLES
  newest,      \* number of the latest committed snapshot, 0 before the first
  kept,        \* number of the snapshot the archive holds, 0 for none
  disposable   \* completed more than a day ago and reported everywhere

history == <<newest, kept, disposable>>

Init ==
  /\ newest = [i \in Incidents |-> 0]
  /\ kept = [i \in Incidents |-> 0]
  /\ disposable = {}

(* A transition of the incident, its completion included.                  *)
Record(i) ==
  /\ i \notin disposable
  /\ newest' = [newest EXCEPT ![i] = @ + 1]
  /\ disposable' \in {disposable, disposable \union {i}}
  /\ UNCHANGED kept

(* A day after completion, with the last external report made.             *)
Settle(i) ==
  /\ disposable' = disposable \union {i}
  /\ UNCHANGED <<newest, kept>>

(* A batch of snapshots reaches the archive.                               *)
Keep ==
  /\ \A i \in Incidents : kept[i] <= kept'[i] /\ kept'[i] <= newest[i]
  /\ kept' \in [Incidents -> Nat]
  /\ UNCHANGED <<newest, disposable>>

(* Retention.                                                              *)
Forget ==
  /\ \E gone \in SUBSET disposable :
       kept' = [i \in Incidents |-> IF i \in gone THEN 0 ELSE kept[i]]
  /\ UNCHANGED <<newest, disposable>>

Next == (\E i \in Incidents : Record(i) \/ Settle(i)) \/ Keep \/ Forget

Spec == Init /\ [][Next]_history
=============================================================================
