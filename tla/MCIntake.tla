------------------------------ MODULE MCIntake ------------------------------
(* The terminal runs version 1, a release candidate. Two packages claim    *)
(* version 2, version 3 may only replace version 2 or a newer one, and     *)
(* version 4 is a release candidate.                                       *)
EXTENDS Intake, TLC

CONSTANTS p1, a2, b2, p3, p4

Numbers == p1 :> 1 @@ a2 :> 2 @@ b2 :> 2 @@ p3 :> 3 @@ p4 :> 4
MCVersion == [p \in Packages |-> Numbers[p]]
MCMinimum == [p \in Packages |-> IF p = p3 THEN 2 ELSE 1]
=============================================================================
