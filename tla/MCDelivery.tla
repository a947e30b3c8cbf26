----------------------------- MODULE MCDelivery -----------------------------
(* Small instances of Delivery for TLC.                                    *)
EXTENDS Delivery, TLC

CONSTANTS r1, r2, a1, c1, v1, v2, A, B

Upd(m, t, r, v) ==
  [method |-> m, target |-> t, about |-> r, value |-> v, expires |-> FALSE]

Help == [method |-> "message", target |-> c1, about |-> None,
         value |-> None, expires |-> TRUE]

(* One incident: its record, a status and an asset event that wait for it. *)
RecordIntents ==
  {Upd("create", r1, r1, None), Upd("status", r1, r1, v1),
   Upd("asset", a1, r1, v1)}

(* A record and an update that waits for its identifier.                   *)
DependentIntents == {Upd("create", r1, r1, None), Upd("status", r1, r1, v1)}

(* A crew that changes twice while its record is not yet delivered.        *)
CrewIntents ==
  {Upd("create", r1, r1, None), Upd("assign", r1, r1, v1), Upd("assign", r1, r1, v2)}

(* A help message that expires, and a comment on a record.                 *)
NoticeIntents ==
  {Upd("create", r1, r1, None), Upd("comment", r1, r1, v1), Help}

(* Nothing tells one external system from another.                         *)
SameSystems == Permutations(Connectors)

AllOffers == [c \in Connectors |-> Methods]
=============================================================================
