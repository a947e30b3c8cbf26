--------------------------- MODULE OutboxContract ---------------------------
(***************************************************************************)
(* What the delivery journal promises the shop floor, with no process, no  *)
(* disk and no network in it: an update an operator recorded is pending    *)
(* until it is closed; the external service shows its effect in the order  *)
(* of its lane, after the record it names was created, and at most once    *)
(* per authorisation unless the service itself deduplicates the update; an *)
(* update whose outcome is in doubt is held until a person looks at it.    *)
(* Crashes, restarts, failed saves and lost answers are invisible here.    *)
(***************************************************************************)
EXTENDS Naturals

CONSTANT MaxItems     \* how many updates are ever recorded

VARIABLES
  stage,     \* what the journal owes: "none", "pending", "held", "closed"
  after,     \* the earlier updates whose effect must not come later
  once,      \* TRUE for an update promised at most once per authorisation
  effects,   \* how often the service has carried the update out
  reviews,   \* how often an administrator released the held update again
  settled    \* closed by an administrator's decision instead of an answer

outbox == <<stage, after, once, effects, reviews, settled>>

Items == 1 .. MaxItems

Init ==
  /\ stage = [i \in Items |-> "none"]
  /\ after = [i \in Items |-> {}]
  /\ once = [i \in Items |-> FALSE]
  /\ effects = [i \in Items |-> 0]
  /\ reviews = [i \in Items |-> 0]
  /\ settled = {}

(* An operator's transition records update i; it is ordered behind some    *)
(* of the updates recorded before it.                                      *)
Record(i) ==
  /\ stage[i] = "none"
  /\ stage' = [stage EXCEPT ![i] = "pending"]
  /\ \E before \in SUBSET {j \in Items : j < i /\ stage[j] # "none"} :
       after' = [after EXCEPT ![i] = before]
  /\ \E b \in BOOLEAN : once' = [once EXCEPT ![i] = b]
  /\ UNCHANGED <<effects, reviews, settled>>

(* The service carries update i out. A request may still arrive after the  *)
(* update was held or closed, so only its past matters: every update it is *)
(* ordered behind is closed, and its authorisations are not used up.       *)
Effect(i) ==
  /\ stage[i] # "none"
  /\ \A j \in after[i] : stage[j] = "closed"
  /\ once[i] => effects[i] < 1 + reviews[i]
  /\ effects' = [effects EXCEPT ![i] = @ + 1]
  /\ UNCHANGED <<stage, after, once, reviews, settled>>

(* The update needs a person: its outcome is unknown or it was refused.    *)
Hold(i) ==
  /\ stage[i] = "pending"
  /\ stage' = [stage EXCEPT ![i] = "held"]
  /\ UNCHANGED <<after, once, effects, reviews, settled>>

(* An administrator releases a held update for another attempt.            *)
Release(i) ==
  /\ stage[i] = "held"
  /\ stage' = [stage EXCEPT ![i] = "pending"]
  /\ reviews' = [reviews EXCEPT ![i] = @ + 1]
  /\ UNCHANGED <<after, once, effects, settled>>

(* The service's answer closes an update it has carried out.               *)
Close(i) ==
  /\ stage[i] = "pending"
  /\ effects[i] > 0
  /\ stage' = [stage EXCEPT ![i] = "closed"]
  /\ UNCHANGED <<after, once, effects, reviews, settled>>

(* A person closes a held update: verified, linked or dismissed.           *)
Settle(i) ==
  /\ stage[i] = "held"
  /\ stage' = [stage EXCEPT ![i] = "closed"]
  /\ settled' = settled \union {i}
  /\ UNCHANGED <<after, once, effects, reviews>>

Next ==
  \E i \in Items :
    Record(i) \/ Effect(i) \/ Hold(i) \/ Release(i) \/ Close(i) \/ Settle(i)

Spec == Init /\ [][Next]_outbox
=============================================================================
