---------------------------- MODULE MCIncidents -----------------------------
(* Two groups that share one external asset, two incidents and a connector *)
(* that may be taken out of use between incidents.                         *)
EXTENDS Incidents, TLC

CONSTANTS g1, g2, a1, s1, s2

MCAssetOf == [g \in Groups |-> a1]
MCCaps    == [s \in Systems |-> {"asset", "status", "team"}]
MCDrafted == (s1 :> {"asset", "status"}) @@ (s2 :> {})
Symmetric == Permutations(Ids)
=============================================================================
