------------------------------ MODULE MCRoster ------------------------------
(* A team of two pages and one that exceeds the page limit; a larger one   *)
(* for a small budget.                                                     *)
EXTENDS Roster, TLC

CONSTANTS s1, s2

MCPages == (s1 :> ("teams" :> 1 @@ "members" :> 2))
        @@ (s2 :> ("teams" :> 1 @@ "members" :> 3))
MCLarge == [s \in Sources |-> [k \in Streams |-> IF k = "teams" THEN 1 ELSE 4]]
=============================================================================
