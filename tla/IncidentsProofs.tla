--------------------------- MODULE IncidentsProofs ---------------------------
(***************************************************************************)
(* Proofs about Incidents, for all incidents, groups, assets, connectors   *)
(* and limits, in three parts.                                             *)
(*   - The document: it can always be loaded, and parking, fetching and    *)
(*     releasing incidents implement IncidentBook (IncidentsInv).          *)
(*   - The journal: work orders are created first and once, and closed     *)
(*     last, and no update names a reference that is gone (JournalInv).    *)
(*   - The assets: what was said last of each asset is what the open       *)
(*     incidents stop (AssetInv).                                          *)
(*                                                                         *)
(* The invariants are stated of a view, a set of parked copies and a       *)
(* journal given as arguments, so that the lemmas speak of two documents,  *)
(* the one before and the one after a step, and not of variables.          *)
(***************************************************************************)
EXTENDS Incidents, FiniteSetTheorems, SequenceTheorems, TLAPS

(* ------------------------------ documents ------------------------------ *)
Statuses == {"RUNNING", "DOWN", "REPAIRING", "ENGINEERING"}
Scopes == [stops : SUBSET Groups, assets : SUBSET Assets, on : Systems \union {None}]

Views ==
  [status : Statuses, id : Ids \union {None}, scope : Scopes \union {None},
   zones : SUBSET (Groups \union {Line}), failures : SUBSET Groups,
   rec : {None, "local", "remote"}, crew : SUBSET People,
   operator : {"none", "fixing", "asked", "over"}, escalated : BOOLEAN,
   asset : {None, "ONLINE", "OFFLINE"}]

(* An operator's own repair, the call for help that ends it, and the help. *)
Response(v) ==
  /\ v.operator \in {"fixing", "over"} => v.status = "REPAIRING"
  /\ v.operator = "asked" => v.status = "DOWN"

(* The line, or stations: never both.                                      *)
Selection(zones) == zones \subseteq Groups \/ zones = {Line}

Good(v) ==
  /\ v \in Views /\ Response(v) /\ Selection(v.zones)
  /\ Active(v) => /\ v.id \in Ids /\ v.scope \in Scopes
                  /\ v.scope.stops # {} /\ Reported(v) \subseteq v.scope.stops
  /\ ~Active(v) => v.id = None

Apart(v, w) == v.scope.stops \intersect w.scope.stops = {}

Copies(p) ==
  /\ p = [i \in DOMAIN p |-> p[i]] /\ DOMAIN p \subseteq Ids
  /\ \A i \in DOMAIN p : Good(p[i]) /\ Active(p[i]) /\ p[i].id = i
  /\ \A i, j \in DOMAIN p : i # j => Apart(p[i], p[j])

Beside(v, p) ==
  Active(v) => v.id \notin DOMAIN p /\ \A i \in DOMAIN p : Apart(v, p[i])

Within(v, p) ==
  /\ IsFiniteSet(DOMAIN p)
  /\ Cardinality(DOMAIN p) <= MaxActive
  /\ Active(v) => Cardinality(DOMAIN p) < MaxActive

Document(v, p) == Good(v) /\ Copies(p) /\ Beside(v, p) /\ Within(v, p)

(* The same incident, or none, after some work on it: what it stops is     *)
(* frozen, its record may have got its name, its assets stay Offline.      *)
SameIncident(v, w) ==
  /\ w \in Views /\ Response(w)
  /\ w.id = v.id /\ w.scope = v.scope /\ w.zones = v.zones
  /\ Active(w) <=> Active(v)
  /\ w.rec \in {v.rec, "remote"}
  /\ v.asset = "OFFLINE" => w.asset = "OFFLINE"

LEMMA ViewFields ==
  ASSUME NEW v \in Views
  PROVE  /\ v.status \in Statuses /\ v.id \in Ids \union {None}
         /\ v.scope \in Scopes \union {None} /\ v.zones \in SUBSET (Groups \union {Line})
         /\ v.failures \in SUBSET Groups /\ v.crew \in SUBSET People
         /\ v.operator \in {"none", "fixing", "asked", "over"}
  BY DEF Views

LEMMA WorkedOn ==
  ASSUME NEW v, NEW w, NEW p, NEW q, Document(v, p), SameIncident(v, w),
         q = [i \in DOMAIN p |-> q[i]], \A i \in DOMAIN p : SameIncident(p[i], q[i])
  PROVE  Document(w, q)
<1>0. DOMAIN q = DOMAIN p
  OBVIOUS
<1>1. ASSUME NEW a, NEW b, Good(a), SameIncident(a, b)
      PROVE  Good(b)
  BY <1>1 DEF Good, SameIncident, Reported
<1>2. Good(w)
  BY <1>1 DEF Document
<1>3. Copies(q)
  <2>1. \A i \in DOMAIN q : Good(q[i]) /\ Active(q[i]) /\ q[i].id = i
    BY <1>0, <1>1 DEF Document, Copies, SameIncident
  <2>2. \A i, j \in DOMAIN q : i # j => Apart(q[i], q[j])
    BY <1>0 DEF Document, Copies, SameIncident, Apart
  <2> QED BY <1>0, <2>1, <2>2 DEF Document, Copies
<1>4. Beside(w, q)
  BY <1>0 DEF Document, Beside, SameIncident, Apart
<1>5. Within(w, q)
  BY <1>0 DEF Document, Within, SameIncident
<1> QED BY <1>2, <1>3, <1>4, <1>5 DEF Document

LEMMA SameCopies ==
  ASSUME NEW v, NEW p, Document(v, p)
  PROVE  /\ p = [i \in DOMAIN p |-> p[i]] /\ SameIncident(v, v)
         /\ \A i \in DOMAIN p : SameIncident(p[i], p[i])
  BY DEF Document, Copies, Good, SameIncident

(* ------------------------- beginning and ending ------------------------ *)
LEMMA ScopeTyped ==
  ASSUME NEW z, z \in SUBSET (Groups \union {Line}), Selection(z), z # {}
  PROVE  /\ ScopeFor(z) \in Scopes
         /\ ScopeFor(z).stops # {}
         /\ (IF Line \in z THEN Groups ELSE z) \subseteq ScopeFor(z).stops
<1> DEFINE groups == IF Whole(z) THEN Groups ELSE z
           line == IF Whole(z) THEN {LineAsset} ELSE {}
           assets == ({AssetOf[g] : g \in groups} \union line) \ {None}
           on == IF link \in Systems THEN link ELSE None
<1>1. ScopeFor(z) = [stops |-> groups, assets |-> assets, on |-> on]
  BY DEF ScopeFor
<1>2. groups \subseteq Groups /\ groups # {}
  BY IncidentsAssumption DEF Whole, Selection
<1>3. assets \subseteq Assets
  BY <1>2, IncidentsAssumption
<1>4. on \in Systems \union {None}
  OBVIOUS
<1>5. (IF Line \in z THEN Groups ELSE z) \subseteq groups
  BY IncidentsAssumption DEF Whole, Selection
<1> HIDE DEF groups, assets, on
<1>6. [stops |-> groups, assets |-> assets, on |-> on] \in Scopes
  BY <1>2, <1>3, <1>4 DEF Scopes
<1> QED BY <1>1, <1>2, <1>5, <1>6

(* The incidents that are open are as many as their identities.            *)
LEMMA RoomLeft ==
  ASSUME NEW p, Copies(p), IsFiniteSet(DOMAIN p)
  PROVE  Cardinality(Range(p)) = Cardinality(DOMAIN p)
<1>1. p \in [DOMAIN p -> Range(p)]
  BY DEF Copies, Range
<1>2. \A i, j \in DOMAIN p : p[i] = p[j] => i = j
  BY DEF Copies
<1>3. p \in Injection(DOMAIN p, Range(p))
  BY <1>1, <1>2 DEF Injection, IsInjective
<1>4. p \in Surjection(DOMAIN p, Range(p))
  BY <1>1 DEF Surjection, Range
<1> QED BY <1>3, <1>4, FS_Surjection

LEMMA BeginKept ==
  ASSUME NEW p, NEW v, NEW w, NEW i \in Ids, Document(v, p), ~Active(v), i \notin DOMAIN p,
         Cardinality(Range(p)) < MaxActive,
         \A o \in Range(p) : o.scope.stops \intersect w.scope.stops = {},
         w \in Views, Response(w), Active(w), w.id = i, w.zones = v.zones,
         w.scope \in Scopes, w.scope.stops # {}, Reported(w) \subseteq w.scope.stops
  PROVE  Document(w, p)
<1>1. Good(w)
  BY DEF Good, Document
<1>2. Beside(w, p)
  BY DEF Beside, Apart, Range
<1>3. Within(w, p)
  BY RoomLeft DEF Within, Document
<1> QED BY <1>1, <1>2, <1>3 DEF Document

(* ----------------------------- the view -------------------------------- *)
LEMMA DefaultsGood ==
  \A a \in {None, "ONLINE", "OFFLINE"} :
     LET v == [Defaults EXCEPT !.asset = a]
     IN  Good(v) /\ ~Active(v) /\ v.operator = "none"
<1> SUFFICES ASSUME NEW a \in {None, "ONLINE", "OFFLINE"}, NEW v,
                    v = [Defaults EXCEPT !.asset = a]
             PROVE  Good(v) /\ ~Active(v) /\ v.operator = "none"
  BY Zenon
<1>1. v = [status |-> "RUNNING", id |-> None, scope |-> None, zones |-> {},
           failures |-> {}, rec |-> None, crew |-> {}, operator |-> "none",
           escalated |-> FALSE, asset |-> a]
  BY DEF Defaults
<1>2. v \in Views
  <2>1. "RUNNING" \in Statuses /\ FALSE \in BOOLEAN
    BY DEF Statuses
  <2>2. \A e \in BOOLEAN :
          [status |-> "RUNNING", id |-> None, scope |-> None, zones |-> {}, failures |-> {},
           rec |-> None, crew |-> {}, operator |-> "none", escalated |-> e, asset |-> a] \in Views
    BY <2>1 DEF Views
  <2> QED BY <1>1, <2>1, <2>2, Zenon
<1> QED BY <1>1, <1>2 DEF Good, Active, Response, Selection

LEMMA AssetKept ==
  ASSUME NEW v \in Views, NEW fresh \in BOOLEAN
  PROVE  /\ WithAsset(v, fresh) \in Views
         /\ WithAsset(v, fresh).id = v.id /\ WithAsset(v, fresh).scope = v.scope
         /\ WithAsset(v, fresh).zones = v.zones /\ WithAsset(v, fresh).status = v.status
         /\ WithAsset(v, fresh).operator = v.operator
         /\ WithAsset(v, fresh).rec = v.rec
         /\ v.asset = "OFFLINE" => WithAsset(v, fresh).asset = "OFFLINE"
         /\ GoesOffline(v, fresh) => WithAsset(v, fresh).asset = "OFFLINE"
<1>1. [v EXCEPT !.asset = "OFFLINE"] \in Views
  BY DEF Views
<1> QED BY <1>1 DEF WithAsset, Views

LEMMA RemoteKept ==
  ASSUME NEW v, Good(v), NEW i
  PROVE  /\ SameIncident(v, Remote(v, i)) /\ Remote(v, i).status = v.status
<1>1. v \in Views /\ [v EXCEPT !.rec = "remote"] \in Views
  BY DEF Good, Views
<1>2. /\ [v EXCEPT !.rec = "remote"].id = v.id /\ [v EXCEPT !.rec = "remote"].scope = v.scope
      /\ [v EXCEPT !.rec = "remote"].zones = v.zones
      /\ [v EXCEPT !.rec = "remote"].status = v.status
      /\ [v EXCEPT !.rec = "remote"].operator = v.operator
      /\ [v EXCEPT !.rec = "remote"].rec = "remote"
      /\ [v EXCEPT !.rec = "remote"].asset = v.asset
  BY <1>1 DEF Views
<1> QED BY <1>1, <1>2 DEF Remote, SameIncident, Good, Response, Active

(* ------------------------------ parking -------------------------------- *)
LEMMA TakeKept ==
  ASSUME NEW p, Copies(p), NEW j \in DOMAIN p
  PROVE  /\ Copies(Take(p, j)) /\ DOMAIN Take(p, j) = DOMAIN p \ {j}
         /\ \A i \in DOMAIN p \ {j} : Take(p, j)[i] = p[i]
<1>1. DOMAIN Take(p, j) = DOMAIN p \ {j} /\ \A i \in DOMAIN p \ {j} : Take(p, j)[i] = p[i]
  BY DEF Take
<1>2. Take(p, j) = [i \in DOMAIN Take(p, j) |-> Take(p, j)[i]]
  BY DEF Take
<1> QED BY <1>1, <1>2 DEF Copies

LEMMA PutKept ==
  ASSUME NEW p, Copies(p), NEW v, Good(v), Active(v), Beside(v, p)
  PROVE  /\ Copies(Put(p, v)) /\ DOMAIN Put(p, v) = DOMAIN p \union {v.id}
         /\ Put(p, v)[v.id] = v /\ \A i \in DOMAIN p : Put(p, v)[i] = p[i]
<1>1. v.id \in Ids /\ v.id \notin DOMAIN p
  BY DEF Good, Beside
<1>2. /\ DOMAIN Put(p, v) = DOMAIN p \union {v.id}
      /\ Put(p, v)[v.id] = v /\ \A i \in DOMAIN p : Put(p, v)[i] = p[i]
  BY <1>1 DEF Put
<1>3. Put(p, v) = [i \in DOMAIN Put(p, v) |-> Put(p, v)[i]]
  BY DEF Put
<1>4. \A i \in DOMAIN Put(p, v) : Good(Put(p, v)[i]) /\ Active(Put(p, v)[i]) /\ Put(p, v)[i].id = i
  BY <1>2 DEF Copies
<1>5. \A i, j \in DOMAIN Put(p, v) : i # j => Apart(Put(p, v)[i], Put(p, v)[j])
  BY <1>2 DEF Copies, Beside, Apart
<1>6. DOMAIN Put(p, v) \subseteq Ids
  BY <1>1, <1>2 DEF Copies
<1> QED BY <1>2, <1>3, <1>4, <1>5, <1>6 DEF Copies

(* The document after a look at another incident, or at none.              *)
Fetched(v, p, j) == IF Active(v) THEN Put(Take(p, j), v) ELSE Take(p, j)
Parked(v, p) == IF Active(v) THEN Put(p, v) ELSE p

(* Which copies are kept beside the fetched one, and that they are intact. *)
FetchSound(v, p, j) ==
  /\ DOMAIN Fetched(v, p, j) = (DOMAIN p \ {j}) \union (IF Active(v) THEN {v.id} ELSE {})
  /\ \A i \in DOMAIN p \ {j} : Fetched(v, p, j)[i] = p[i]
  /\ Active(v) => Fetched(v, p, j)[v.id] = v

LEMMA FetchKept ==
  ASSUME NEW v, NEW p, NEW j \in DOMAIN p, Document(v, p)
  PROVE  Document(p[j], Fetched(v, p, j)) /\ FetchSound(v, p, j)
<1> SUFFICES ASSUME NEW q, q = Fetched(v, p, j)
             PROVE  /\ Document(p[j], q)
                    /\ DOMAIN q = (DOMAIN p \ {j}) \union (IF Active(v) THEN {v.id} ELSE {})
                    /\ \A i \in DOMAIN p \ {j} : q[i] = p[i]
                    /\ Active(v) => q[v.id] = v
  BY DEF FetchSound
<1> DEFINE t == Take(p, j)
<1>1. /\ Copies(t) /\ DOMAIN t = DOMAIN p \ {j} /\ \A i \in DOMAIN p \ {j} : t[i] = p[i]
  BY TakeKept DEF Document
<1>2. IsFiniteSet(DOMAIN t) /\ Cardinality(DOMAIN t) = Cardinality(DOMAIN p) - 1
  BY <1>1, FS_RemoveElement DEF Document, Within
<1>3. Cardinality(DOMAIN p) \in Nat /\ MaxActive \in Nat
  BY FS_CardinalityType, IncidentsAssumption DEF Document, Within
<1>4. Good(p[j]) /\ Active(p[j]) /\ p[j].id = j /\ \A i \in DOMAIN t : Apart(p[j], t[i])
  BY <1>1 DEF Document, Copies
<1> HIDE DEF t
<1>5. CASE ~Active(v)
  <2>1. q = t
    BY <1>5 DEF t, Fetched
  <2>2. Beside(p[j], t)
    BY <1>1, <1>4 DEF Beside
  <2>3. Within(p[j], t)
    BY <1>2, <1>3 DEF Within, Document
  <2> QED BY <1>1, <1>4, <1>5, <2>1, <2>2, <2>3 DEF Document
<1>6. CASE Active(v)
  <2>1. q = Put(t, v)
    BY <1>6 DEF t, Fetched
  <2>2. Good(v) /\ Beside(v, t) /\ v.id \notin DOMAIN p
    BY <1>1, <1>6 DEF Document, Beside
  <2>3. /\ Copies(q) /\ DOMAIN q = DOMAIN t \union {v.id}
        /\ q[v.id] = v /\ \A i \in DOMAIN t : q[i] = t[i]
    BY <1>1, <1>6, <2>1, <2>2, PutKept
  <2>4. Beside(p[j], q)
    <3>1. Apart(p[j], v)
      BY <1>6 DEF Document, Beside, Apart
    <3> QED BY <1>1, <1>4, <2>2, <2>3, <3>1 DEF Beside
  <2>5. Within(p[j], q)
    <3>1. v.id \notin DOMAIN t
      BY <1>1, <2>2
    <3>2. IsFiniteSet(DOMAIN q) /\ Cardinality(DOMAIN q) = Cardinality(DOMAIN t) + 1
      BY <1>2, <2>3, <3>1, FS_AddElement
    <3> QED BY <1>2, <1>3, <1>6, <3>2 DEF Within, Document
  <2> QED BY <1>1, <1>4, <1>6, <2>3, <2>4, <2>5 DEF Document
<1> QED BY <1>5, <1>6

LEMMA ParkKept ==
  ASSUME NEW v, NEW p, Document(v, p), NEW w, Good(w), ~Active(w)
  PROVE  /\ Document(w, Parked(v, p))
         /\ DOMAIN Parked(v, p) = DOMAIN p \union (IF Active(v) THEN {v.id} ELSE {})
         /\ \A i \in DOMAIN p : Parked(v, p)[i] = p[i]
         /\ Active(v) => Parked(v, p)[v.id] = v
<1> SUFFICES ASSUME NEW q, q = Parked(v, p)
             PROVE  /\ Document(w, q)
                    /\ DOMAIN q = DOMAIN p \union (IF Active(v) THEN {v.id} ELSE {})
                    /\ \A i \in DOMAIN p : q[i] = p[i]
                    /\ Active(v) => q[v.id] = v
  OBVIOUS
<1>1. Beside(w, q)
  BY DEF Beside
<1>2. CASE ~Active(v)
  BY <1>1, <1>2 DEF Document, Within, Parked
<1>3. CASE Active(v)
  <2>1. /\ Copies(q) /\ DOMAIN q = DOMAIN p \union {v.id}
        /\ q[v.id] = v /\ \A i \in DOMAIN p : q[i] = p[i]
    BY <1>3, PutKept DEF Document, Parked
  <2>2. Cardinality(DOMAIN p) \in Nat /\ MaxActive \in Nat /\ v.id \notin DOMAIN p
    BY <1>3, FS_CardinalityType, IncidentsAssumption DEF Document, Within, Beside
  <2>3. IsFiniteSet(DOMAIN q) /\ Cardinality(DOMAIN q) = Cardinality(DOMAIN p) + 1
    BY <2>1, <2>2, FS_AddElement DEF Document, Within
  <2>4. Within(w, q)
    BY <1>3, <2>2, <2>3 DEF Within, Document
  <2> QED BY <1>1, <1>3, <2>1, <2>4 DEF Document
<1> QED BY <1>2, <1>3

(* ------------------------------- steps --------------------------------- *)
OpenIn(v, p) == DOMAIN p \union (IF Active(v) THEN {v.id} ELSE {})

Lived ==
  /\ life \in [Ids -> {"free", "given", "released"}]
  /\ \A i \in Ids : life[i] = "given" <=> i \in OpenIn(view, parked)

(* What is committed, what became of whom, and what a confirmed release    *)
(* is about.                                                               *)
IncidentsInv ==
  /\ Document(view, parked) /\ Lived
  /\ releasing \in BOOLEAN /\ (releasing => Active(view))

(* The kinds of steps, by what they do to the incidents that are open.     *)
Keeps ==
  /\ SameIncident(view, view') /\ view'.status = view.status
  /\ parked' = [i \in DOMAIN parked |-> parked'[i]]
  /\ \A i \in DOMAIN parked :
       SameIncident(parked[i], parked'[i]) /\ parked'[i].status = parked[i].status
  /\ life' = life

Moves(from, to) ==
  /\ Active(view) /\ SameIncident(view, view')
  /\ view.status = from /\ view'.status = to
  /\ parked' = parked /\ life' = life

Chooses ==
  /\ ~Active(view) /\ Good(view') /\ ~Active(view')
  /\ parked' = parked /\ life' = life

Begins(i) ==
  /\ MayBegin(i) /\ parked' = parked
  /\ view' \in Views /\ Response(view') /\ Active(view')
  /\ view'.id = i /\ view'.zones = view.zones /\ view'.scope = ScopeFor(view.zones)

Ends ==
  /\ Active(view) /\ Good(view') /\ ~Active(view')
  /\ parked' = parked /\ life' = [life EXCEPT ![view.id] = "released"]

Fetches(j) ==
  /\ j \in DOMAIN parked /\ view' = parked[j]
  /\ parked' = Fetched(view, parked, j)
  /\ life' = life

Parks ==
  /\ Good(view') /\ ~Active(view')
  /\ parked' = Parked(view, parked)
  /\ life' = life

LEMMA ChoosesKind ==
  ASSUME IncidentsInv, Choose
  PROVE  Chooses
<1> DEFINE WithZones(z) == [view EXCEPT !.zones = z]
           WithBoth(z, f) == [view EXCEPT !.zones = z, !.failures = f]
<1>1. /\ Good(view) /\ view \in Views /\ Selection(view.zones)
      /\ view.zones \in SUBSET (Groups \union {Line}) /\ view.failures \in SUBSET Groups
  BY ViewFields DEF IncidentsInv, Document, Good
<1>2. ASSUME ~Active(view), NEW z \in SUBSET (Groups \union {Line}), Selection(z),
             NEW f \in SUBSET Groups
      PROVE  /\ Good(WithZones(z)) /\ ~Active(WithZones(z))
             /\ Good(WithBoth(z, f)) /\ ~Active(WithBoth(z, f))
  <2>1. WithZones(z) \in Views /\ WithBoth(z, f) \in Views
    BY <1>1 DEF Views
  <2>2. /\ WithZones(z).status = view.status /\ WithZones(z).id = view.id
        /\ WithZones(z).operator = view.operator /\ WithZones(z).zones = z
        /\ WithBoth(z, f).status = view.status /\ WithBoth(z, f).id = view.id
        /\ WithBoth(z, f).operator = view.operator /\ WithBoth(z, f).zones = z
    BY <1>1 DEF Views
  <2> HIDE DEF WithZones, WithBoth
  <2> QED BY <1>1, <1>2, <2>1, <2>2 DEF Good, Response, Active
<1>3. ASSUME NEW v, Chosen(v)
      PROVE  ~Active(view) /\ view' = v /\ parked' = parked /\ life' = life
  BY <1>3 DEF Chosen, CanChoose
<1>4. ASSUME NEW v, Chosen(v), Good(v), ~Active(v) PROVE Chooses
  BY <1>3, <1>4 DEF Chooses
<1>5. CASE SelectLine
  <2>1. PICK z \in {{}, {Line}} : Chosen(WithBoth(z, {}))
    BY <1>5 DEF SelectLine
  <2>2. z \in SUBSET (Groups \union {Line}) /\ Selection(z) /\ {} \in SUBSET Groups
    BY DEF Selection
  <2>3. ~Active(view)
    BY <1>3, <2>1
  <2>4. Good(WithBoth(z, {})) /\ ~Active(WithBoth(z, {}))
    BY <1>2, <2>2, <2>3
  <2> QED BY <1>4, <2>1, <2>4
<1>6. ASSUME NEW g \in Groups, SelectZone(g) PROVE Chooses
  <2>1. PICK z : z = (view.zones \ {Line}) \union {g}
    OBVIOUS
  <2>2. z \in SUBSET (Groups \union {Line}) /\ Selection(z)
    BY <1>1, <2>1, IncidentsAssumption DEF Selection
  <2>3. Chosen(WithZones(z))
    BY <1>6, <2>1 DEF SelectZone
  <2>4. Good(WithZones(z)) /\ ~Active(WithZones(z))
    BY <1>1, <1>2, <1>3, <2>2, <2>3
  <2> QED BY <1>4, <2>3, <2>4
<1>7. ASSUME NEW g \in Groups, RemoveStation(g) PROVE Chooses
  <2>1. PICK z, f : z = view.zones \ {g} /\ f = view.failures \ {g}
    OBVIOUS
  <2>2. z \in SUBSET (Groups \union {Line}) /\ Selection(z) /\ f \in SUBSET Groups
    BY <1>1, <1>7, <2>1, IncidentsAssumption DEF Selection, RemoveStation
  <2>3. Chosen(WithBoth(z, f))
    BY <1>7, <2>1 DEF RemoveStation
  <2>4. Good(WithBoth(z, f)) /\ ~Active(WithBoth(z, f))
    BY <1>2, <1>3, <2>2, <2>3
  <2> QED BY <1>4, <2>3, <2>4
<1>8. ASSUME NEW g \in Groups, NEW some \in BOOLEAN, SaveFailures(g, some) PROVE Chooses
  <2>1. PICK f : f = IF some THEN view.failures \union {g} ELSE view.failures \ {g}
    OBVIOUS
  <2>2. f \in SUBSET Groups
    BY <1>1, <2>1
  <2>3. Chosen([view EXCEPT !.failures = f])
    BY <1>8, <2>1 DEF SaveFailures
  <2>4. [view EXCEPT !.failures = f] = WithBoth(view.zones, f)
    BY <1>1 DEF Views
  <2>5. Good(WithBoth(view.zones, f)) /\ ~Active(WithBoth(view.zones, f))
    BY <1>1, <1>2, <1>3, <2>2, <2>3
  <2> QED BY <1>4, <2>3, <2>4, <2>5
<1> QED BY <1>5, <1>6, <1>7, <1>8 DEF Choose

(* What a new incident is committed and journaled as.                      *)
BegunAs(i, v) ==
  /\ MayBegin(i) /\ v \in Views /\ Response(v) /\ Active(v)
  /\ v.id = i /\ v.zones = view.zones /\ v.scope = ScopeFor(view.zones) /\ v.rec = "local"

LEMMA BegunRead ==
  ASSUME IncidentsInv, NEW i \in Ids, MayBegin(i)
  PROVE  /\ Begun(i) \in Views /\ Begun(i).id = i /\ Begun(i).zones = view.zones
         /\ Begun(i).scope = ScopeFor(view.zones) /\ Begun(i).rec = "local"
         /\ Begun(i).operator = view.operator /\ view.operator = "none"
<1>1. view \in Views /\ view.zones \in SUBSET (Groups \union {Line}) /\ Selection(view.zones)
      /\ view.operator = "none" /\ view.zones # {}
  BY ViewFields DEF IncidentsInv, Document, Good, Response, MayBegin, Active
<1>2. PICK s \in Scopes : s = ScopeFor(view.zones)
  BY <1>1, ScopeTyped
<1>3. [view EXCEPT !.id = i, !.scope = s, !.rec = "local"] \in Views
  BY <1>1 DEF Views
<1>4. /\ [view EXCEPT !.id = i, !.scope = s, !.rec = "local"].id = i
      /\ [view EXCEPT !.id = i, !.scope = s, !.rec = "local"].scope = s
      /\ [view EXCEPT !.id = i, !.scope = s, !.rec = "local"].rec = "local"
      /\ [view EXCEPT !.id = i, !.scope = s, !.rec = "local"].zones = view.zones
      /\ [view EXCEPT !.id = i, !.scope = s, !.rec = "local"].operator = view.operator
  BY <1>1 DEF Views
<1> QED BY <1>1, <1>2, <1>3, <1>4 DEF Begun

LEMMA ReportRead ==
  ASSUME IncidentsInv, NEW i \in Ids, NEW selfFix \in BOOLEAN, NEW f \in SUBSET Reasoned,
         Report(i, selfFix, f)
  PROVE  \E v : /\ BegunAs(i, v)
                /\ Commit(WithAsset(v, TRUE),
                          Creation(v) \o Offline(v, TRUE)
                          \o If(selfFix, Status(v, "IN_PROGRESS"))
                          \o Chats(v))
<1>1. MayBegin(i) /\ f \in SUBSET Groups
  BY IncidentsAssumption DEF Report
<1>2. PICK b \in Views : b = Begun(i)
  BY <1>1, BegunRead
<1>3. PICK st \in {"REPAIRING", "DOWN"}, op \in {"fixing", "none"} :
        /\ st = (IF selfFix THEN "REPAIRING" ELSE "DOWN")
        /\ op = (IF selfFix THEN "fixing" ELSE "none")
  BY Zenon
<1>4. PICK v : v = [b EXCEPT !.failures = f, !.status = st, !.operator = op, !.escalated = FALSE]
  OBVIOUS
<1>5. v \in Views
  BY <1>1, <1>4 DEF Views, Statuses
<1>6. /\ v.status = st /\ v.operator = op /\ v.id = b.id /\ v.zones = b.zones
      /\ v.scope = b.scope /\ v.rec = b.rec
  BY <1>4 DEF Views
<1>7. Response(v) /\ Active(v)
  BY <1>3, <1>6 DEF Response, Active
<1>8. BegunAs(i, v)
  BY <1>1, <1>2, <1>5, <1>6, <1>7, BegunRead DEF BegunAs
<1>9. Commit(WithAsset(v, TRUE), Creation(v) \o Offline(v, TRUE)
                                \o If(selfFix, Status(v, "IN_PROGRESS")) \o Chats(v))
  BY <1>2, <1>3, <1>4 DEF Report
<1> QED BY <1>8, <1>9

LEMMA PlannedRead ==
  ASSUME IncidentsInv, NEW i \in Ids, NEW crew \in SUBSET People, StartPlannedWork(i, crew)
  PROVE  \E v : BegunAs(i, v) /\ Commit(WithAsset(v, TRUE), Planned(v))
<1>1. MayBegin(i)
  BY DEF StartPlannedWork
<1>2. PICK b \in Views : b = Begun(i)
  BY <1>1, BegunRead
<1>3. PICK v : v = [b EXCEPT !.status = "ENGINEERING", !.crew = crew]
  OBVIOUS
<1>4. v \in Views
  BY <1>3 DEF Views, Statuses
<1>5. /\ v.status = "ENGINEERING" /\ v.operator = b.operator /\ v.id = b.id /\ v.zones = b.zones
      /\ v.scope = b.scope /\ v.rec = b.rec
  BY <1>3 DEF Views
<1>6. Response(v) /\ Active(v)
  BY <1>1, <1>2, <1>5, BegunRead DEF Response, Active
<1>7. BegunAs(i, v)
  BY <1>1, <1>2, <1>4, <1>5, <1>6, BegunRead DEF BegunAs
<1>8. Commit(WithAsset(v, TRUE), Planned(v))
  BY <1>2, <1>3 DEF StartPlannedWork
<1> QED BY <1>7, <1>8

LEMMA BeginsKind ==
  ASSUME IncidentsInv, BeginWork
  PROVE  \E i \in Ids : Begins(i)
<1>1. ASSUME NEW i \in Ids, NEW v, BegunAs(i, v), NEW w, Commit(WithAsset(v, TRUE), w)
      PROVE  Begins(i)
  BY <1>1, AssetKept DEF Begins, BegunAs, Commit, Response, Active
<1>2. ASSUME NEW i \in Ids, NEW selfFix \in BOOLEAN, NEW f \in SUBSET Reasoned, Report(i, selfFix, f)
      PROVE  Begins(i)
  BY <1>1, <1>2, ReportRead
<1>3. ASSUME NEW i \in Ids, NEW crew \in SUBSET People, StartPlannedWork(i, crew)
      PROVE  Begins(i)
  BY <1>1, <1>3, PlannedRead
<1> QED BY <1>2, <1>3 DEF BeginWork

(* Work on the incident in view, whatever it journals.                     *)
LEMMA WorksKind ==
  ASSUME IncidentsInv, Continue
  PROVE  \/ Keeps
         \/ Moves("DOWN", "REPAIRING") \/ Moves("REPAIRING", "DOWN")
<1>1. view \in Views /\ Response(view) /\ Copies(parked)
  BY DEF IncidentsInv, Document, Good
<1>2. ASSUME parked' = parked, life' = life, SameIncident(view, view'), view'.status = view.status
      PROVE  Keeps
  BY <1>1, <1>2, SameCopies DEF Keeps, IncidentsInv
<1>3. ASSUME NEW crew \in SUBSET People, StartRepair(crew)
      PROVE  Keeps \/ Moves("DOWN", "REPAIRING")
  <2>1. PICK op \in {"none", "fixing", "asked", "over"} :
          op = IF Resolving(view) THEN "over" ELSE view.operator
    BY <1>1, ViewFields
  <2>2. PICK v : v = [view EXCEPT !.status = "REPAIRING", !.escalated = FALSE, !.crew = crew,
                                  !.operator = op]
    OBVIOUS
  <2>3. v \in Views
    BY <1>1, <2>2 DEF Views, Statuses
  <2>4. /\ v.status = "REPAIRING" /\ v.operator = op /\ v.id = view.id
        /\ v.zones = view.zones /\ v.scope = view.scope
        /\ v.rec = view.rec /\ v.asset = view.asset
    BY <1>1, <2>2 DEF Views
  <2>5. view' = WithAsset(v, FALSE) /\ parked' = parked /\ life' = life
    BY <1>3, <2>1, <2>2 DEF StartRepair, Commit
  <2>6. view.status \in {"DOWN", "REPAIRING"}
    BY <1>1, <1>3 DEF StartRepair, Resolving, Response
  <2>7. op # "asked"
    BY <2>1 DEF Resolving
  <2>8. SameIncident(view, view') /\ view'.status = "REPAIRING" /\ Active(view)
    <3>1. /\ view' \in Views /\ view'.id = v.id /\ view'.scope = v.scope /\ view'.zones = v.zones
          /\ view'.status = v.status /\ view'.operator = v.operator /\ view'.rec = v.rec
          /\ v.asset = "OFFLINE" => view'.asset = "OFFLINE"
      BY <2>3, <2>5, AssetKept
    <3> QED BY <2>4, <2>6, <2>7, <3>1 DEF SameIncident, Response, Active
  <2> QED BY <1>2, <2>5, <2>6, <2>8 DEF Moves
<1>4. CASE ChangeStatus
  <2>1. PICK v : v = [view EXCEPT !.status = "REPAIRING", !.escalated = FALSE]
    OBVIOUS
  <2>2. v \in Views
    BY <1>1, <2>1 DEF Views, Statuses
  <2>3. /\ v.status = "REPAIRING" /\ v.operator = view.operator /\ v.id = view.id
        /\ v.zones = view.zones /\ v.scope = view.scope
        /\ v.rec = view.rec /\ v.asset = view.asset
    BY <1>1, <2>1 DEF Views
  <2>4. view' = v /\ parked' = parked /\ life' = life
    BY <1>4, <2>1 DEF ChangeStatus, Commit
  <2>5. view.status = "DOWN" /\ view.operator \notin {"fixing", "asked"}
    BY <1>4 DEF ChangeStatus, Resolving
  <2> QED BY <2>2, <2>3, <2>4, <2>5 DEF Moves, SameIncident, Response, Active
<1>5. ASSUME NEW crew \in SUBSET People, UpdateActiveCrew(crew)
      PROVE  Keeps
  <2>1. PICK v : v = [view EXCEPT !.crew = crew]
    OBVIOUS
  <2>2. v \in Views
    BY <1>1, <2>1 DEF Views
  <2>3. /\ v.status = view.status /\ v.operator = view.operator /\ v.id = view.id
        /\ v.zones = view.zones /\ v.scope = view.scope
        /\ v.rec = view.rec /\ v.asset = view.asset
    BY <1>1, <2>1 DEF Views
  <2>4. view' = v /\ parked' = parked /\ life' = life
    BY <1>5, <2>1 DEF UpdateActiveCrew, Commit
  <2> QED BY <1>1, <1>2, <2>2, <2>3, <2>4 DEF SameIncident, Response, Active
<1>6. CASE RequestHandover
  <2>1. PICK v : v = [view EXCEPT !.operator = "asked", !.status = "DOWN", !.escalated = FALSE]
    OBVIOUS
  <2>2. v \in Views
    BY <1>1, <2>1 DEF Views, Statuses
  <2>3. /\ v.status = "DOWN" /\ v.operator = "asked" /\ v.id = view.id
        /\ v.zones = view.zones /\ v.scope = view.scope
        /\ v.rec = view.rec /\ v.asset = view.asset
    BY <1>1, <2>1 DEF Views
  <2>4. view' = v /\ parked' = parked /\ life' = life
    BY <1>6, <2>1 DEF RequestHandover, Commit
  <2>5. view.status = "REPAIRING"
    BY <1>1, <1>6 DEF RequestHandover, Response
  <2> QED BY <2>2, <2>3, <2>4, <2>5 DEF Moves, SameIncident, Response, Active
<1>7. CASE EscalateView
  <2>1. PICK v : v = [view EXCEPT !.escalated = TRUE]
    OBVIOUS
  <2>2. v \in Views
    BY <1>1, <2>1 DEF Views
  <2>3. /\ v.status = view.status /\ v.operator = view.operator /\ v.id = view.id
        /\ v.zones = view.zones /\ v.scope = view.scope
        /\ v.rec = view.rec /\ v.asset = view.asset
    BY <1>1, <2>1 DEF Views
  <2>4. view' = v /\ parked' = parked /\ life' = life
    BY <1>7, <2>1 DEF EscalateView, Commit
  <2> QED BY <1>1, <1>2, <2>2, <2>3, <2>4 DEF SameIncident, Response, Active
<1>8. ASSUME NEW i \in Ids, EscalateParked(i)
      PROVE  Keeps
  <2>1. i \in DOMAIN parked /\ view' = view /\ life' = life
    BY <1>8 DEF EscalateParked
  <2>2. Good(parked[i]) /\ parked[i] \in Views
    BY <1>1, <2>1 DEF Copies, Good
  <2>3. PICK v : v = [parked[i] EXCEPT !.escalated = TRUE]
    OBVIOUS
  <2>4. v \in Views
    BY <2>2, <2>3 DEF Views
  <2>5. /\ v.status = parked[i].status /\ v.operator = parked[i].operator
        /\ v.id = parked[i].id /\ v.zones = parked[i].zones /\ v.scope = parked[i].scope
        /\ v.rec = parked[i].rec /\ v.asset = parked[i].asset
    BY <2>2, <2>3 DEF Views
  <2>6. SameIncident(parked[i], v)
    BY <2>2, <2>4, <2>5 DEF SameIncident, Good, Response, Active
  <2>7. parked' = [parked EXCEPT ![i] = v]
    BY <1>8, <2>3 DEF EscalateParked
  <2>8. SameIncident(view, view) /\ \A j \in DOMAIN parked : SameIncident(parked[j], parked[j])
    BY SameCopies DEF IncidentsInv
  <2>9. \A j \in DOMAIN parked : parked'[j] = IF j = i THEN v ELSE parked[j]
    BY <1>1, <2>1, <2>7 DEF Copies
  <2>10. parked' = [j \in DOMAIN parked |-> parked'[j]]
    BY <1>1, <2>7
  <2> QED BY <2>1, <2>5, <2>6, <2>8, <2>9, <2>10 DEF Keeps
<1> QED BY <1>3, <1>4, <1>5, <1>6, <1>7, <1>8 DEF Continue

(* The acknowledgement of a creation, or of anything else.                 *)
LEMMA DeliverKeeps ==
  ASSUME IncidentsInv, Deliver
  PROVE  Keeps
<1>1. Good(view) /\ Copies(parked) /\ life' = life
  BY DEF IncidentsInv, Document, Deliver
<1>2. CASE UNCHANGED <<view, parked>>
  BY <1>1, <1>2, SameCopies DEF Keeps, IncidentsInv
<1>3. ASSUME NEW n, view' = Remote(view, n),
             parked' = [i \in DOMAIN parked |-> Remote(parked[i], n)]
      PROVE  Keeps
  <2>1. \A i \in DOMAIN parked : Good(parked[i])
    BY <1>1 DEF Copies
  <2> QED BY <1>1, <1>3, <2>1, RemoteKept DEF Keeps
<1> QED BY <1>2, <1>3 DEF Deliver

LEMMA EndsKind ==
  ASSUME IncidentsInv, Finish
  PROVE  Keeps \/ Ends
<1>1. CASE ConfirmRelease \/ ReleaseFails
  BY <1>1, SameCopies DEF ConfirmRelease, ReleaseFails, Keeps, IncidentsInv
<1>2. CASE FinishWork
  <2>1. view' = Forgotten /\ parked' = parked /\ life' = [life EXCEPT ![view.id] = "released"]
    BY <1>2 DEF FinishWork
  <2>2. Active(view)
    BY <1>2 DEF FinishWork, IncidentsInv
  <2>3. (IF ComesBack THEN "ONLINE" ELSE view.asset) \in {None, "ONLINE", "OFFLINE"}
    BY DEF IncidentsInv, Document, Good, Views
  <2>4. Good(view') /\ ~Active(view')
    BY <2>1, <2>3, DefaultsGood DEF Forgotten
  <2> QED BY <2>1, <2>2, <2>4 DEF Ends
<1> QED BY <1>1, <1>2 DEF Finish

LEMMA LooksKind ==
  ASSUME IncidentsInv, Look
  PROVE  (\E j \in Ids : Fetches(j)) \/ Parks
<1>1. ASSUME NEW i \in Ids, Focus(i) PROVE Fetches(i)
  <2>1. i # None
    BY IncidentsAssumption
  <2> QED BY <1>1, <2>1 DEF Focus, Switched, Fetches, Fetched
<1>2. ASSUME NEW g \in Groups, FocusNew(g) PROVE Parks
  <2>1. PICK v : v = [Defaults EXCEPT !.asset = None]
    OBVIOUS
  <2>2. Good(v) /\ ~Active(v)
    BY <2>1, DefaultsGood
  <2>3. v = Defaults
    BY <2>1 DEF Defaults
  <2>4. v \in Views /\ v.operator = "none" /\ v.id = None
    BY <2>3, <2>2 DEF Good, Defaults
  <2>5. PICK w : w = [v EXCEPT !.zones = {g}]
    OBVIOUS
  <2>6. w \in Views
    BY <2>4, <2>5 DEF Views
  <2>7. w.zones = {g} /\ w.status = v.status /\ w.operator = "none" /\ w.id = None
    BY <2>4, <2>5 DEF Views
  <2>8. Good(w) /\ ~Active(w)
    BY <2>2, <2>6, <2>7 DEF Good, Response, Selection, Active
  <2>9. view' = w /\ parked' = Parked(view, parked) /\ life' = life
    BY <1>2, <2>3, <2>5 DEF FocusNew, Switched, Parked
  <2> QED BY <2>8, <2>9 DEF Parks
<1> QED BY <1>1, <1>2 DEF Look

LEMMA OthersKeep ==
  ASSUME IncidentsInv, Configure \/ Restart \/ UNCHANGED vars
  PROVE  Keeps
<1>1. ASSUME UNCHANGED <<view, parked, life>> PROVE Keeps
  BY <1>1, SameCopies DEF Keeps, IncidentsInv
<1>2. CASE Configure \/ UNCHANGED vars
  BY <1>1, <1>2 DEF Configure, SaveSettings, vars
<1>3. CASE Restart
  <2>1. view \in Views /\ Good(view)
    BY DEF IncidentsInv, Document, Good
  <2>2. PICK a \in {None, "ONLINE", "OFFLINE"} :
          view' = [view EXCEPT !.asset = a] /\ (view.asset = "OFFLINE" => a = "OFFLINE")
    <3>1. view.asset \in {None, "ONLINE", "OFFLINE"}
      BY <2>1 DEF Views
    <3> QED BY <1>3, <3>1, IncidentsAssumption DEF Restart
  <2>3. view' \in Views
    BY <2>1, <2>2 DEF Views
  <2>4. /\ view'.status = view.status /\ view'.operator = view.operator /\ view'.id = view.id
        /\ view'.zones = view.zones /\ view'.scope = view.scope
        /\ view'.rec = view.rec /\ view'.asset = a
    BY <2>1, <2>2 DEF Views
  <2>5. SameIncident(view, view')
    BY <2>1, <2>2, <2>3, <2>4 DEF SameIncident, Good, Response, Active
  <2>6. parked' = parked /\ life' = life
    BY <1>3 DEF Restart
  <2> QED BY <2>4, <2>5, <2>6, SameCopies DEF Keeps, IncidentsInv
<1> QED BY <1>2, <1>3

(* Every step is of one of these kinds.                                    *)
LEMMA Kinds ==
  ASSUME IncidentsInv, [Next]_vars
  PROVE  \/ Keeps \/ Moves("DOWN", "REPAIRING") \/ Moves("REPAIRING", "DOWN")
         \/ Chooses \/ Ends \/ Parks
         \/ \E i \in Ids : Begins(i) \/ Fetches(i)
<1>1. CASE Choose
  BY <1>1, ChoosesKind
<1>2. CASE BeginWork
  BY <1>2, BeginsKind
<1>3. CASE Continue
  BY <1>3, WorksKind
<1>4. CASE Finish
  BY <1>4, EndsKind
<1>5. CASE Look
  BY <1>5, LooksKind
<1>6. CASE Deliver
  BY <1>6, DeliverKeeps
<1>7. CASE Configure \/ Restart \/ UNCHANGED vars
  BY <1>7, OthersKeep
<1> QED BY <1>1, <1>2, <1>3, <1>4, <1>5, <1>6, <1>7 DEF Next

LEMMA DocumentKept ==
  ASSUME IncidentsInv, [Next]_vars
  PROVE  Document(view, parked)' /\ Lived'
<1> USE DEF IncidentsInv
<1>0. Document(view, parked) /\ Lived /\ Good(view) /\ Copies(parked)
  BY DEF Document
<1>1. CASE Keeps
  <2>1. Document(view', parked')
    BY <1>0, <1>1, WorkedOn DEF Keeps
  <2>2. OpenIn(view', parked') = OpenIn(view, parked)
    BY <1>1 DEF Keeps, OpenIn, SameIncident
  <2> QED BY <1>0, <1>1, <2>1, <2>2 DEF Lived, Keeps
<1>2. ASSUME NEW a, NEW b, Moves(a, b) PROVE Document(view, parked)' /\ Lived'
  <2>1. Document(view', parked')
    BY <1>0, <1>2, WorkedOn, SameCopies DEF Moves
  <2>2. OpenIn(view', parked') = OpenIn(view, parked)
    BY <1>2 DEF Moves, OpenIn, SameIncident
  <2> QED BY <1>0, <1>2, <2>1, <2>2 DEF Lived, Moves
<1>3. CASE Chooses
  <2>1. Document(view', parked')
    BY <1>0, <1>3 DEF Chooses, Document, Beside, Within
  <2>2. OpenIn(view', parked') = OpenIn(view, parked)
    BY <1>3 DEF Chooses, OpenIn
  <2> QED BY <1>0, <1>3, <2>1, <2>2 DEF Lived, Chooses
<1>4. CASE Ends
  <2>1. Document(view', parked')
    BY <1>0, <1>4 DEF Ends, Document, Beside, Within
  <2>2. view.id \in Ids /\ view.id \notin DOMAIN parked
    BY <1>0, <1>4 DEF Ends, Good, Document, Beside
  <2>3. /\ OpenIn(view, parked) = DOMAIN parked \union {view.id}
        /\ OpenIn(view', parked') = DOMAIN parked
    BY <1>4 DEF Ends, OpenIn
  <2>4. life' \in [Ids -> {"free", "given", "released"}]
    BY <1>0, <1>4 DEF Ends, Lived
  <2>5. \A i \in Ids : life'[i] = IF i = view.id THEN "released" ELSE life[i]
    BY <1>0, <1>4, <2>2 DEF Ends, Lived
  <2> QED BY <1>0, <2>1, <2>2, <2>3, <2>4, <2>5 DEF Lived
<1>5. CASE Parks
  <2>1. Document(view', parked') /\ OpenIn(view', parked') = OpenIn(view, parked)
    BY <1>0, <1>5, ParkKept DEF Parks, OpenIn
  <2> QED BY <1>0, <1>5, <2>1 DEF Lived, Parks
<1>6. ASSUME NEW i \in Ids, Fetches(i) PROVE Document(view, parked)' /\ Lived'
  <2>1. /\ Document(view', parked')
        /\ DOMAIN parked' = (DOMAIN parked \ {i}) \union (IF Active(view) THEN {view.id} ELSE {})
    <3>1. i \in DOMAIN parked /\ view' = parked[i] /\ parked' = Fetched(view, parked, i)
      BY <1>6 DEF Fetches
    <3>2. /\ Document(parked[i], Fetched(view, parked, i))
          /\ DOMAIN Fetched(view, parked, i)
               = (DOMAIN parked \ {i}) \union (IF Active(view) THEN {view.id} ELSE {})
      BY <1>0, <3>1, FetchKept DEF FetchSound
    <3> QED BY <3>1, <3>2
  <2>2. Active(view') /\ view'.id = i /\ i \in DOMAIN parked
    BY <1>0, <1>6 DEF Fetches, Copies
  <2>3. OpenIn(view', parked') = OpenIn(view, parked)
    BY <2>1, <2>2 DEF OpenIn
  <2> QED BY <1>0, <1>6, <2>1, <2>3 DEF Lived, Fetches
<1>7. ASSUME NEW i \in Ids, Begins(i) PROVE Document(view, parked)' /\ Lived'
  <2>1. /\ ~Active(view) /\ life[i] = "free" /\ view.zones # {}
        /\ Cardinality(Opened) < MaxActive /\ ~Overlaps(ScopeFor(view.zones))
        /\ life' = [life EXCEPT ![i] = "given"] /\ parked' = parked
    BY <1>7 DEF Begins, MayBegin
  <2>2. i \notin DOMAIN parked /\ Opened = Range(parked)
    BY <1>0, <2>1 DEF Lived, OpenIn, Opened
  <2>3. \A o \in Range(parked) : o.scope.stops \intersect view'.scope.stops = {}
    BY <1>7, <2>1, <2>2 DEF Overlaps, Begins
  <2>4. /\ view'.scope \in Scopes /\ view'.scope.stops # {}
        /\ Reported(view') \subseteq view'.scope.stops
    BY <1>0, <1>7, <2>1, ScopeTyped, ViewFields DEF Begins, Good, Reported
  <2>5. Document(view', parked)
    BY <1>0, <1>7, <2>1, <2>2, <2>3, <2>4, BeginKept DEF Begins
  <2>6. OpenIn(view, parked) = DOMAIN parked /\ OpenIn(view', parked') = DOMAIN parked \union {i}
    BY <1>7, <2>1 DEF OpenIn, Begins
  <2>7. life' \in [Ids -> {"free", "given", "released"}]
    BY <1>0, <2>1 DEF Lived
  <2>8. \A j \in Ids : life'[j] = IF j = i THEN "given" ELSE life[j]
    BY <1>0, <2>1 DEF Lived
  <2> QED BY <1>0, <2>1, <2>5, <2>6, <2>7, <2>8 DEF Lived
<1> QED BY <1>1, <1>2, <1>3, <1>4, <1>5, <1>6, <1>7, Kinds

(* A release is confirmed of an incident in view, which stays in view.     *)
LEMMA ReleasingKept ==
  ASSUME IncidentsInv, [Next]_vars
  PROVE  releasing' \in BOOLEAN /\ (releasing' => Active(view'))
<1> USE DEF IncidentsInv
<1>0. releasing \in BOOLEAN
  OBVIOUS
<1>1. CASE releasing' = FALSE \/ (~releasing /\ releasing' = releasing)
  <2>1. ~releasing'
    BY <1>1
  <2>2. releasing' \in BOOLEAN
    BY <1>0, <1>1
  <2> QED BY <2>1, <2>2, Zenon
<1>2. CASE ConfirmRelease
  <2>1. Active(view)
    BY <1>2 DEF ConfirmRelease, Resolving, Active, Document, Good, Response
  <2> QED BY <1>2, <2>1 DEF ConfirmRelease
<1>3. CASE Deliver
  <2>1. Keeps /\ releasing' = releasing
    BY <1>3, DeliverKeeps DEF Deliver
  <2> QED BY <2>1 DEF Keeps, SameIncident
<1>4. CASE UNCHANGED vars
  BY <1>4 DEF vars
<1>5. ASSUME Next, ~ConfirmRelease, ~Deliver
      PROVE  releasing' = FALSE \/ (~releasing /\ releasing' = releasing)
  BY <1>5, Zenon DEF Next, Choose, SelectLine, SelectZone, RemoveStation, SaveFailures, Chosen,
    CanChoose, BeginWork, Report, StartPlannedWork, Continue, StartRepair, UpdateActiveCrew,
    ChangeStatus, RequestHandover, EscalateView, EscalateParked, Commit, Idle, Finish, FinishWork,
    ReleaseFails, Look, Focus, FocusNew, Configure, SaveSettings, Restart
<1> QED BY <1>1, <1>2, <1>3, <1>4, <1>5

LEMMA InvAtFirst == Init => IncidentsInv
<1> SUFFICES ASSUME Init PROVE IncidentsInv
  OBVIOUS
<1>1. view = [Defaults EXCEPT !.asset = "ONLINE"]
  BY DEF Init
<1>2. Good(view) /\ ~Active(view)
  BY <1>1, DefaultsGood
<1>3. parked = <<>> /\ DOMAIN parked = {}
  BY DEF Init
<1>4. Copies(parked)
  BY <1>3 DEF Copies
<1>5. Within(view, parked)
  BY <1>2, <1>3, FS_EmptySet, IncidentsAssumption DEF Within
<1>6. Document(view, parked)
  BY <1>2, <1>4, <1>5 DEF Document, Beside
<1>7. Lived
  BY <1>2, <1>3 DEF Lived, OpenIn, Init
<1> QED BY <1>6, <1>7 DEF IncidentsInv, Init

LEMMA InvAlways == Spec => []IncidentsInv
<1>1. IncidentsInv /\ [Next]_vars => IncidentsInv'
  <2> SUFFICES ASSUME IncidentsInv, [Next]_vars PROVE IncidentsInv'
    OBVIOUS
  <2>1. Document(view, parked)' /\ Lived'
    BY DocumentKept
  <2>2. releasing' \in BOOLEAN /\ (releasing' => Active(view'))
    BY ReleasingKept
  <2> QED BY <2>1, <2>2 DEF IncidentsInv
<1> QED BY <1>1, InvAtFirst, PTL DEF Spec

(* Whatever operations follow each other and however many incidents are    *)
(* parked and fetched, the saved document is one that the program can load.*)
THEOREM AlwaysLoadable == Spec => []Loadable
<1>1. IncidentsInv => Loadable
  <2> SUFFICES ASSUME IncidentsInv PROVE ValidDocument
    BY DEF Loadable
  <2>0. Document(view, parked) /\ Good(view) /\ Copies(parked)
    BY DEF IncidentsInv, Document
  <2>1. Cardinality(DOMAIN parked) + Cardinality({v \in {view} : Active(v)}) <= MaxActive
    <3>1. Cardinality(DOMAIN parked) \in Nat /\ MaxActive \in Nat
      BY <2>0, FS_CardinalityType, IncidentsAssumption DEF Document, Within
    <3>2. CASE Active(view)
      <4>1. {v \in {view} : Active(v)} = {view}
        BY <3>2
      <4>2. Cardinality({view}) = 1
        BY FS_Singleton
      <4>3. Cardinality(DOMAIN parked) < MaxActive
        BY <2>0, <3>2 DEF Document, Within
      <4>4. Cardinality({v \in {view} : Active(v)}) = 1
        BY <4>1, <4>2, Zenon
      <4> QED BY <3>1, <4>3, <4>4
    <3>3. CASE ~Active(view)
      <4>1. {v \in {view} : Active(v)} = {}
        BY <3>3
      <4> QED BY <2>0, <3>1, <4>1, FS_EmptySet DEF Document, Within
    <3> QED BY <3>2, <3>3
  <2>2. \A i \in DOMAIN parked : parked[i].id = i /\ Active(parked[i])
    BY <2>0 DEF Copies
  <2>3. view.id \notin DOMAIN parked
    BY <2>0, IncidentsAssumption DEF Document, Beside, Good, Copies
  <2>4. \A v \in Opened :
          (v = view /\ Active(view)) \/ \E i \in DOMAIN parked : v = parked[i]
    BY DEF Opened, Range
  <2>5. \A v, w \in Opened :
          v # w => v.id # w.id /\ v.scope.stops \intersect w.scope.stops = {}
    BY <2>0, <2>4 DEF Document, Beside, Copies, Apart
  <2>6. \A v \in Opened : v.scope.stops # {} /\ Reported(v) \subseteq v.scope.stops
    BY <2>0, <2>4 DEF Copies, Good
  <2>7. \A v \in {view} \union Range(parked) : ValidResponse(v)
    BY <2>0 DEF Copies, Good, Range, ValidResponse, Response, Views
  <2> QED BY <2>1, <2>2, <2>3, <2>5, <2>6, <2>7 DEF ValidDocument
<1> QED BY <1>1, InvAlways, PTL

(* ----------------------------- refinement ------------------------------ *)
(* The record of an open incident, whether it is in view or parked.        *)
CopyIn(v, p, i) == IF Active(v) /\ v.id = i THEN v
                   ELSE IF i \in DOMAIN p THEN p[i] ELSE Defaults

LEMMA CopiesRead ==
  ASSUME NEW v, NEW p, NEW i \in Ids, Document(v, p)
  PROVE  /\ i \in OpenIn(v, p) => /\ Active(CopyIn(v, p, i))
                                  /\ CopyIn(v, p, i).id = i
                                  /\ CopyIn(v, p, i).status \in {"DOWN", "REPAIRING", "ENGINEERING"}
                                  /\ CopyIn(v, p, i).scope.stops \subseteq Groups
         /\ i \notin OpenIn(v, p) => CopyIn(v, p, i) = Defaults
<1>1. ASSUME NEW w, Good(w), Active(w)
      PROVE  w.status \in {"DOWN", "REPAIRING", "ENGINEERING"} /\ w.scope.stops \subseteq Groups
  BY <1>1, ViewFields DEF Good, Active, Statuses, Scopes
<1>2. Good(v) /\ \A k \in DOMAIN p : Good(p[k]) /\ Active(p[k]) /\ p[k].id = k
  BY DEF Document, Copies
<1> QED BY <1>1, <1>2 DEF CopyIn, OpenIn

(* Looking elsewhere changes nobody's record.                              *)
LEMMA ParksOnly ==
  ASSUME Document(view, parked), Parks
  PROVE  /\ life' = life /\ OpenIn(view', parked') = OpenIn(view, parked)
         /\ \A i \in OpenIn(view, parked) : CopyIn(view', parked', i) = CopyIn(view, parked, i)
<1>1. /\ Good(view') /\ ~Active(view') /\ life' = life /\ parked' = Parked(view, parked)
  BY DEF Parks
<1>2. /\ DOMAIN parked' = DOMAIN parked \union (IF Active(view) THEN {view.id} ELSE {})
      /\ \A i \in DOMAIN parked : parked'[i] = parked[i]
      /\ Active(view) => parked'[view.id] = view
  BY <1>1, ParkKept
<1>3. view.id \notin DOMAIN parked \/ ~Active(view)
  BY DEF Document, Beside
<1>4. OpenIn(view', parked') = OpenIn(view, parked)
  BY <1>1, <1>2 DEF OpenIn
<1>5. ASSUME NEW i \in OpenIn(view, parked)
      PROVE  CopyIn(view', parked', i) = CopyIn(view, parked, i)
  <2>1. CopyIn(view', parked', i) = parked'[i]
    BY <1>1, <1>2, <1>4 DEF OpenIn, CopyIn
  <2>2. CASE i \in DOMAIN parked
    BY <1>2, <1>3, <2>1, <2>2 DEF CopyIn
  <2>3. CASE i \notin DOMAIN parked
    <3>1. Active(view) /\ view.id = i
      BY <2>3 DEF OpenIn
    <3> QED BY <1>2, <2>1, <3>1 DEF CopyIn
  <2> QED BY <2>2, <2>3
<1> QED BY <1>1, <1>4, <1>5

LEMMA FetchesOnly ==
  ASSUME Document(view, parked), NEW j \in Ids, Fetches(j)
  PROVE  /\ life' = life /\ OpenIn(view', parked') = OpenIn(view, parked)
         /\ \A i \in OpenIn(view, parked) : CopyIn(view', parked', i) = CopyIn(view, parked, i)
<1>1. j \in DOMAIN parked /\ view' = parked[j] /\ parked' = Fetched(view, parked, j)
      /\ life' = life
  BY DEF Fetches
<1>2. /\ DOMAIN Fetched(view, parked, j)
           = (DOMAIN parked \ {j}) \union (IF Active(view) THEN {view.id} ELSE {})
      /\ \A i \in DOMAIN parked \ {j} : Fetched(view, parked, j)[i] = parked[i]
      /\ Active(view) => Fetched(view, parked, j)[view.id] = view
  <2>1. FetchSound(view, parked, j)
    BY <1>1, FetchKept
  <2> QED BY <2>1 DEF FetchSound
<1>3. view.id \notin DOMAIN parked \/ ~Active(view)
  BY DEF Document, Beside
<1>4. Active(view') /\ view'.id = j
  BY <1>1 DEF Document, Copies
<1>5. OpenIn(view', parked') = OpenIn(view, parked)
  BY <1>1, <1>2, <1>4 DEF OpenIn
<1>6. ASSUME NEW i \in OpenIn(view, parked)
      PROVE  CopyIn(view', parked', i) = CopyIn(view, parked, i)
  <2>1. CASE i = j
    BY <1>1, <1>3, <1>4, <2>1 DEF CopyIn
  <2>2. CASE i # j /\ i \in DOMAIN parked
    BY <1>1, <1>2, <1>3, <1>4, <2>2 DEF CopyIn
  <2>3. CASE i # j /\ i \notin DOMAIN parked
    <3>1. Active(view) /\ view.id = i
      BY <2>3 DEF OpenIn
    <3>2. i \in DOMAIN parked' /\ parked'[i] = view
      BY <1>1, <1>2, <3>1
    <3> QED BY <1>4, <2>3, <3>1, <3>2 DEF CopyIn
  <2> QED BY <2>1, <2>2, <2>3
<1> QED BY <1>1, <1>5, <1>6

(* What the book says of an incident, read off the document and its life.  *)
PhaseIn(v, p, f, i) == IF i \in OpenIn(v, p) THEN CopyIn(v, p, i).status
                       ELSE IF f[i] = "free" THEN "none" ELSE "RELEASED"
StopsIn(v, p, i) == IF i \in OpenIn(v, p) THEN CopyIn(v, p, i).scope.stops ELSE {}

LEMMA BookRead ==
  ASSUME IncidentsInv
  PROVE  /\ [i \in Ids |-> Phase(i)] = [i \in Ids |-> PhaseIn(view, parked, life, i)]
         /\ [i \in Ids |-> IF Active(Copy(i)) THEN Copy(i).scope.stops ELSE {}]
              = [i \in Ids |-> StopsIn(view, parked, i)]
<1> SUFFICES ASSUME NEW i \in Ids
             PROVE  /\ Phase(i) = PhaseIn(view, parked, life, i)
                    /\ (IF Active(Copy(i)) THEN Copy(i).scope.stops ELSE {})
                         = StopsIn(view, parked, i)
  OBVIOUS
<1>1. Copy(i) = CopyIn(view, parked, i)
  BY DEF Copy, CopyIn
<1>2. CASE i \in OpenIn(view, parked)
  <2>1. Active(Copy(i))
    BY <1>1, <1>2, CopiesRead DEF IncidentsInv
  <2> QED BY <1>1, <1>2, <2>1 DEF Phase, PhaseIn, StopsIn
<1>3. CASE i \notin OpenIn(view, parked)
  <2>1. ~Active(Copy(i))
    BY <1>1, <1>3, CopiesRead DEF IncidentsInv, Defaults, Active
  <2>2. life[i] \in {"free", "released"}
    BY <1>3 DEF IncidentsInv, Lived
  <2> QED BY <1>3, <2>1, <2>2 DEF Phase, PhaseIn, StopsIn
<1> QED BY <1>2, <1>3

LEMMA BookReadNext ==
  ASSUME IncidentsInv'
  PROVE  /\ [i \in Ids |-> Phase(i)]' = [i \in Ids |-> PhaseIn(view', parked', life', i)]
         /\ [i \in Ids |-> IF Active(Copy(i)) THEN Copy(i).scope.stops ELSE {}]'
              = [i \in Ids |-> StopsIn(view', parked', i)]
<1>1. (/\ [i \in Ids |-> Phase(i)] = [i \in Ids |-> PhaseIn(view, parked, life, i)]
       /\ [i \in Ids |-> IF Active(Copy(i)) THEN Copy(i).scope.stops ELSE {}]
            = [i \in Ids |-> StopsIn(view, parked, i)])'
  BY BookRead, PTL
<1> QED BY <1>1

(* A step that neither opens nor ends an incident and moves none.          *)
LEMMA Unwritten ==
  ASSUME NEW v, NEW p, NEW w, NEW q, NEW f,
         OpenIn(w, q) = OpenIn(v, p),
         \A i \in OpenIn(v, p) : /\ CopyIn(w, q, i).status = CopyIn(v, p, i).status
                                 /\ CopyIn(w, q, i).scope = CopyIn(v, p, i).scope
  PROVE  /\ \A i : PhaseIn(w, q, f, i) = PhaseIn(v, p, f, i)
         /\ \A i : StopsIn(w, q, i) = StopsIn(v, p, i)
BY DEF PhaseIn, StopsIn

(* Who is in view makes no difference to another incident.                 *)
LEMMA Elsewhere ==
  ASSUME NEW v, NEW p, NEW w, NEW f, NEW g, NEW i, g[i] = f[i],
         ~(Active(v) /\ v.id = i), ~(Active(w) /\ w.id = i)
  PROVE  PhaseIn(w, p, g, i) = PhaseIn(v, p, f, i) /\ StopsIn(w, p, i) = StopsIn(v, p, i)
<1>1. i \in OpenIn(v, p) <=> i \in DOMAIN p
  BY DEF OpenIn
<1>2. i \in OpenIn(w, p) <=> i \in DOMAIN p
  BY DEF OpenIn
<1>3. CopyIn(w, p, i) = CopyIn(v, p, i)
  BY DEF CopyIn
<1> QED BY <1>1, <1>2, <1>3 DEF PhaseIn, StopsIn

(* The steps of the book, over its two variables before and after.         *)
OpenAt(P) == {i \in Ids : P[i] \in {"DOWN", "REPAIRING", "ENGINEERING"}}

BookStep(P, S, Q, T) ==
  \E i \in Ids :
    \/ /\ P[i] = "none"
       /\ \E s \in (SUBSET (Groups \ UNION {S[j] : j \in OpenAt(P)})) \ {{}} :
            T = [S EXCEPT ![i] = s]
       /\ \E p \in {"DOWN", "REPAIRING", "ENGINEERING"} : Q = [P EXCEPT ![i] = p]
    \/ P[i] = "DOWN" /\ Q = [P EXCEPT ![i] = "REPAIRING"] /\ T = S
    \/ P[i] = "REPAIRING" /\ Q = [P EXCEPT ![i] = "DOWN"] /\ T = S
    \/ i \in OpenAt(P) /\ Q = [P EXCEPT ![i] = "RELEASED"] /\ T = [S EXCEPT ![i] = {}]

PhasesIn(v, p, f) == [i \in Ids |-> PhaseIn(v, p, f, i)]
StoppedIn(v, p) == [i \in Ids |-> StopsIn(v, p, i)]

LEMMA StepIsBookStep ==
  ASSUME IncidentsInv, IncidentsInv', [Next]_vars, NEW P, NEW S, NEW Q, NEW T,
         P = PhasesIn(view, parked, life), S = StoppedIn(view, parked),
         Q = PhasesIn(view', parked', life'), T = StoppedIn(view', parked')
  PROVE  (Q = P /\ T = S) \/ BookStep(P, S, Q, T)
<1>0. /\ Document(view, parked) /\ Document(view', parked') /\ Lived
      /\ Good(view) /\ Copies(parked)
  BY DEF IncidentsInv, Document
<1>1. /\ P = [i \in Ids |-> P[i]] /\ S = [i \in Ids |-> S[i]]
      /\ Q = [i \in Ids |-> Q[i]] /\ T = [i \in Ids |-> T[i]]
  BY DEF PhasesIn, StoppedIn
<1>2. \A i \in Ids : /\ P[i] = PhaseIn(view, parked, life, i)
                     /\ S[i] = StopsIn(view, parked, i)
                     /\ Q[i] = PhaseIn(view', parked', life', i)
                     /\ T[i] = StopsIn(view', parked', i)
  BY DEF PhasesIn, StoppedIn
<1>3. ASSUME life' = life, OpenIn(view', parked') = OpenIn(view, parked),
             \A i \in OpenIn(view, parked) :
               /\ CopyIn(view', parked', i).status = CopyIn(view, parked, i).status
               /\ CopyIn(view', parked', i).scope = CopyIn(view, parked, i).scope
      PROVE  Q = P /\ T = S
  BY <1>1, <1>2, <1>3, Unwritten
<1>4. CASE Keeps
  <2>1. /\ life' = life /\ DOMAIN parked' = DOMAIN parked
        /\ OpenIn(view', parked') = OpenIn(view, parked)
    BY <1>4 DEF Keeps, SameIncident, OpenIn
  <2>2. \A i \in OpenIn(view, parked) :
          /\ CopyIn(view', parked', i).status = CopyIn(view, parked, i).status
          /\ CopyIn(view', parked', i).scope = CopyIn(view, parked, i).scope
    BY <1>4, <2>1 DEF Keeps, SameIncident, OpenIn, CopyIn
  <2> QED BY <1>3, <2>1, <2>2
<1>5. ASSUME NEW from \in {"DOWN", "REPAIRING"}, NEW to \in {"DOWN", "REPAIRING"}, from # to,
             Moves(from, to)
      PROVE  BookStep(P, S, Q, T)
  <2>1. /\ Active(view) /\ Active(view') /\ view'.id = view.id /\ view.id \in Ids
        /\ view.id \notin DOMAIN parked /\ parked' = parked /\ life' = life
        /\ view.status = from /\ view'.status = to /\ view'.scope = view.scope
    BY <1>0, <1>5 DEF Moves, SameIncident, Document, Good, Beside
  <2>2. P[view.id] = from /\ Q[view.id] = to /\ T[view.id] = S[view.id]
    BY <1>2, <2>1 DEF PhaseIn, StopsIn, OpenIn, CopyIn
  <2>3. \A i \in Ids \ {view.id} : Q[i] = P[i] /\ T[i] = S[i]
    BY <1>2, <2>1 DEF PhaseIn, StopsIn, OpenIn, CopyIn
  <2>4. Q = [P EXCEPT ![view.id] = to] /\ T = S
    <3>1. Q = [i \in Ids |-> IF i = view.id THEN to ELSE P[i]]
      BY <1>1, <2>2, <2>3
    <3>2. \A i \in Ids : T[i] = S[i]
      BY <2>2, <2>3
    <3> QED BY <1>1, <3>1, <3>2
  <2> QED BY <1>5, <2>1, <2>2, <2>4 DEF BookStep
<1>6. CASE Chooses
  BY <1>3, <1>6 DEF Chooses, OpenIn, CopyIn
<1>7. CASE Parks
  BY <1>0, <1>3, <1>7, ParksOnly
<1>8. ASSUME NEW j \in Ids, Fetches(j) PROVE Q = P /\ T = S
  BY <1>0, <1>3, <1>8, FetchesOnly
<1>9. CASE Ends
  <2>1. /\ Active(view) /\ ~Active(view') /\ parked' = parked
        /\ life' = [life EXCEPT ![view.id] = "released"]
        /\ view.id \in Ids /\ view.id \notin DOMAIN parked
    BY <1>0, <1>9 DEF Ends, Document, Good, Beside
  <2>2. P[view.id] \in {"DOWN", "REPAIRING", "ENGINEERING"}
    BY <1>0, <1>2, <2>1, CopiesRead DEF PhaseIn, OpenIn
  <2>3. life'[view.id] = "released" /\ \A i \in Ids \ {view.id} : life'[i] = life[i]
    BY <1>0, <2>1 DEF Lived
  <2>4. Q[view.id] = "RELEASED" /\ T[view.id] = {}
    BY <1>2, <2>1, <2>3 DEF PhaseIn, StopsIn, OpenIn
  <2>5. ASSUME NEW i \in Ids \ {view.id} PROVE Q[i] = P[i] /\ T[i] = S[i]
    <3>1. life'[i] = life[i] /\ ~(Active(view) /\ view.id = i) /\ ~(Active(view') /\ view'.id = i)
      BY <2>1, <2>3
    <3>2. /\ PhaseIn(view', parked, life', i) = PhaseIn(view, parked, life, i)
          /\ StopsIn(view', parked, i) = StopsIn(view, parked, i)
      BY ONLY <3>1, Elsewhere
    <3> QED BY <1>2, <2>1, <3>2
  <2>6. Q = [P EXCEPT ![view.id] = "RELEASED"] /\ T = [S EXCEPT ![view.id] = {}]
    BY <1>1, <2>1, <2>4, <2>5
  <2> QED BY <2>1, <2>2, <2>6 DEF BookStep, OpenAt
<1>10. ASSUME NEW j \in Ids, Begins(j) PROVE BookStep(P, S, Q, T)
  <2>1. /\ ~Active(view) /\ life[j] = "free" /\ ~Overlaps(ScopeFor(view.zones))
        /\ life' = [life EXCEPT ![j] = "given"] /\ parked' = parked
        /\ Active(view') /\ view'.id = j /\ view'.scope = ScopeFor(view.zones)
    BY <1>10 DEF Begins, MayBegin
  <2>2. j \notin DOMAIN parked /\ Opened = Range(parked)
    BY <1>0, <2>1 DEF Lived, OpenIn, Opened
  <2>3. P[j] = "none"
    BY <1>2, <2>1, <2>2 DEF PhaseIn, OpenIn
  <2>4. /\ Q[j] \in {"DOWN", "REPAIRING", "ENGINEERING"}
        /\ T[j] = view'.scope.stops /\ view'.scope.stops \subseteq Groups
        /\ view'.scope.stops # {}
    <3>1. j \in OpenIn(view', parked') /\ CopyIn(view', parked', j) = view'
      BY <2>1 DEF OpenIn, CopyIn
    <3>2. view'.scope.stops # {}
      BY <1>0, <2>1 DEF Document, Good
    <3>3. view'.status \in {"DOWN", "REPAIRING", "ENGINEERING"} /\ view'.scope.stops \subseteq Groups
      BY <1>0, <3>1, CopiesRead
    <3>4. Q[j] = view'.status /\ T[j] = view'.scope.stops
      BY <1>2, <3>1 DEF PhaseIn, StopsIn
    <3> QED BY <3>2, <3>3, <3>4
  <2>5. ASSUME NEW i \in Ids \ {j} PROVE Q[i] = P[i] /\ T[i] = S[i]
    <3>1. life'[i] = life[i] /\ ~(Active(view) /\ view.id = i) /\ ~(Active(view') /\ view'.id = i)
      BY <1>0, <2>1 DEF Lived
    <3>2. /\ PhaseIn(view', parked, life', i) = PhaseIn(view, parked, life, i)
          /\ StopsIn(view', parked, i) = StopsIn(view, parked, i)
      BY ONLY <3>1, Elsewhere
    <3>3. Q[i] = PhaseIn(view', parked', life', i) /\ T[i] = StopsIn(view', parked', i)
      BY <1>2
    <3>4. P[i] = PhaseIn(view, parked, life, i) /\ S[i] = StopsIn(view, parked, i)
      BY <1>2
    <3>5. parked' = parked
      BY <2>1
    <3> QED BY <3>2, <3>3, <3>4, <3>5, Zenon
  <2>6. ASSUME NEW i \in OpenAt(P) PROVE S[i] \intersect view'.scope.stops = {}
    <3>1. i \in DOMAIN parked
      BY <1>0, <1>2, <2>1 DEF OpenAt, PhaseIn, OpenIn
    <3>2. S[i] = parked[i].scope.stops
      BY <1>2, <2>1, <3>1 DEF OpenAt, StopsIn, OpenIn, CopyIn
    <3>3. parked[i] \in Opened
      BY <2>2, <3>1 DEF Range
    <3> QED BY <2>1, <3>2, <3>3 DEF Overlaps
  <2>7. view'.scope.stops \in (SUBSET (Groups \ UNION {S[i] : i \in OpenAt(P)})) \ {{}}
    BY <2>4, <2>6
  <2>8. Q = [P EXCEPT ![j] = Q[j]] /\ T = [S EXCEPT ![j] = view'.scope.stops]
    BY <1>1, <2>4, <2>5
  <2> QED BY <2>3, <2>4, <2>7, <2>8 DEF BookStep
<1> QED BY <1>4, <1>5, <1>6, <1>7, <1>8, <1>9, <1>10, Kinds

(* The terminal keeps the book, whichever incident is in view: parking,    *)
(* fetching, a restart, a delivery and Settings are no steps of it, an     *)
(* incident moves through its life, and none is lost without its release.  *)
THEOREM ImplementsBook == Spec => KeepsBook
<1>1. Init => Book!Init
  <2> SUFFICES ASSUME Init PROVE Book!Init
    OBVIOUS
  <2>1. IncidentsInv
    BY InvAtFirst
  <2>2. OpenIn(view, parked) = {} /\ \A i \in Ids : life[i] = "free"
    BY DefaultsGood DEF Init, OpenIn
  <2>3. /\ [i \in Ids |-> PhaseIn(view, parked, life, i)] = [i \in Ids |-> "none"]
        /\ [i \in Ids |-> StopsIn(view, parked, i)] = [i \in Ids |-> {}]
    BY <2>2 DEF PhaseIn, StopsIn
  <2> QED BY <2>1, <2>3, BookRead DEF Book!Init
<1>2. IncidentsInv /\ IncidentsInv' /\ [Next]_vars => [Book!Next]_(Book!book)
  <2> SUFFICES ASSUME IncidentsInv, IncidentsInv', [Next]_vars
               PROVE  [Book!Next]_(Book!book)
    OBVIOUS
  <2>1. PICK P, S, Q, T : /\ P = PhasesIn(view, parked, life)
                          /\ S = StoppedIn(view, parked)
                          /\ Q = PhasesIn(view', parked', life')
                          /\ T = StoppedIn(view', parked')
    OBVIOUS
  <2>2. (Q = P /\ T = S) \/ BookStep(P, S, Q, T)
    BY <2>1, StepIsBookStep
  <2>3. /\ [i \in Ids |-> Phase(i)] = P
        /\ [i \in Ids |-> IF Active(Copy(i)) THEN Copy(i).scope.stops ELSE {}] = S
    BY <2>1, BookRead DEF PhasesIn, StoppedIn
  <2>4. /\ [i \in Ids |-> Phase(i)]' = Q
        /\ [i \in Ids |-> IF Active(Copy(i)) THEN Copy(i).scope.stops ELSE {}]' = T
    BY <2>1, BookReadNext DEF PhasesIn, StoppedIn
  <2>5. CASE Q = P /\ T = S
    BY <2>3, <2>4, <2>5 DEF Book!book
  <2>6. CASE BookStep(P, S, Q, T)
    <3>1. Book!Open = OpenAt(P)
      BY <2>3, Zenon DEF Book!Open, OpenAt
    <3>2. Book!Occupied = UNION {S[i] : i \in OpenAt(P)}
      BY <2>3, <3>1, Zenon DEF Book!Occupied
    <3>3. PICK i \in Ids :
            \/ /\ P[i] = "none"
               /\ \E s \in (SUBSET (Groups \ UNION {S[j] : j \in OpenAt(P)})) \ {{}} :
                    T = [S EXCEPT ![i] = s]
               /\ \E p \in {"DOWN", "REPAIRING", "ENGINEERING"} : Q = [P EXCEPT ![i] = p]
            \/ P[i] = "DOWN" /\ Q = [P EXCEPT ![i] = "REPAIRING"] /\ T = S
            \/ P[i] = "REPAIRING" /\ Q = [P EXCEPT ![i] = "DOWN"] /\ T = S
            \/ i \in OpenAt(P) /\ Q = [P EXCEPT ![i] = "RELEASED"] /\ T = [S EXCEPT ![i] = {}]
      BY <2>6 DEF BookStep
    <3>4. ASSUME P[i] = "none",
                 \E s \in (SUBSET (Groups \ UNION {S[j] : j \in OpenAt(P)})) \ {{}} :
                   T = [S EXCEPT ![i] = s],
                 \E p \in {"DOWN", "REPAIRING", "ENGINEERING"} : Q = [P EXCEPT ![i] = p]
          PROVE  Book!Begin(i)
      BY <2>3, <2>4, <3>2, <3>4, Zenon DEF Book!Begin
    <3>5. ASSUME P[i] = "DOWN", Q = [P EXCEPT ![i] = "REPAIRING"], T = S PROVE Book!Work(i)
      BY <2>3, <2>4, <3>5, Zenon DEF Book!Work
    <3>6. ASSUME P[i] = "REPAIRING", Q = [P EXCEPT ![i] = "DOWN"], T = S PROVE Book!Hand(i)
      BY <2>3, <2>4, <3>6, Zenon DEF Book!Hand
    <3>7. ASSUME i \in OpenAt(P), Q = [P EXCEPT ![i] = "RELEASED"], T = [S EXCEPT ![i] = {}]
          PROVE  Book!Release(i)
      BY <2>3, <2>4, <3>1, <3>7, Zenon DEF Book!Release
    <3> QED BY <3>3, <3>4, <3>5, <3>6, <3>7 DEF Book!Next
  <2> QED BY <2>2, <2>5, <2>6
<1> QED BY <1>1, <1>2, InvAlways, PTL DEF Spec, KeepsBook, Book!Spec

(* ----------------------------- the journal ----------------------------- *)
(* What the document and the journal say of one incident, and what the     *)
(* systems outside were told.                                              *)
Values == {None, "IN_PROGRESS", "DONE", "ONLINE", "OFFLINE"} \union SUBSET People

Entries ==
  [what : Capabilities \union {"create"}, about : Ids, value : Values,
   asset : Assets \union {None}, ref : {None, "local", "remote"},
   on : Systems \union {None}]

(* Where every update goes while incidents are open.                       *)
Here == IF link \in Systems THEN link ELSE None

(* An incident whose updates can be journaled.                             *)
Recordable(v) == v \in Views /\ v.id \in Ids /\ v.scope \in Scopes /\ v.scope.on = Here

(* The updates about an incident; those that neither create nor close its  *)
(* record; those among them that say nothing of an asset; its messages.    *)
Updates(v) ==
  {e \in Entries : e.about = v.id /\ e.on = Here /\ e.ref \in {None, v.rec}}
Ordinary(v) == {e \in Updates(v) : e.what # "create" /\ ~Closing(e)}
Silent(v)   == {e \in Ordinary(v) : e.what # "asset"}
Messages(v) == {e \in Updates(v) : e.what = "message"}
Announcing(v, x) ==
  {e \in Ordinary(v) : e.what = "asset" /\ e.value = x /\ e.asset \in ExternalAssets(v)}

LEMMA BoundHere ==
  ASSUME NEW v, Recordable(v)
  PROVE  Bound(v) = Here /\ Here \in Systems \union {None}
BY IncidentsAssumption DEF Recordable, Bound, Here

LEMMA EntryRead ==
  ASSUME NEW v, Recordable(v), NEW what \in Capabilities \union {"create"},
         NEW value \in Values, NEW asset \in Assets \union {None}
  PROVE  /\ Entry(v, what, value, asset) \in Updates(v)
         /\ Entry(v, what, value, asset).what = what
         /\ Entry(v, what, value, asset).value = value
         /\ Entry(v, what, value, asset).asset = asset
<1>1. PICK ref \in {None, "local", "remote"} :
        /\ ref = IF what \in {"status", "comment", "assign"} THEN v.rec ELSE None
        /\ ref \in {None, v.rec}
  BY DEF Recordable, Views
<1>2. PICK e : e = [what |-> what, about |-> v.id, value |-> value, asset |-> asset,
                    ref |-> ref, on |-> Here]
  OBVIOUS
<1>3. e = Entry(v, what, value, asset)
  BY <1>1, <1>2, BoundHere DEF Entry
<1>4. e \in Entries
  BY <1>2, BoundHere DEF Recordable, Entries
<1>5. /\ e.about = v.id /\ e.on = Here /\ e.ref \in {None, v.rec}
      /\ e.what = what /\ e.value = value /\ e.asset = asset
  BY <1>1, <1>2
<1> QED BY <1>3, <1>4, <1>5 DEF Updates

(* The kinds of updates an operation's batch is made of.                   *)
LEMMA Pieces ==
  ASSUME NEW v, Recordable(v)
  PROVE  /\ Creation(v) = <<Entry(v, "create", None, None)>>
         /\ Entry(v, "create", None, None) \in Updates(v)
         /\ Entry(v, "create", None, None).what = "create"
         /\ Entry(v, "create", None, None).ref = None
         /\ Status(v, "IN_PROGRESS") \in Seq(Silent(v))
         /\ \A crew \in SUBSET People : Assign(v, crew) \in Seq(Silent(v))
         /\ Comment(v) \in Seq(Silent(v))
         /\ Chats(v) \in Seq(Messages(v)) /\ Chats(v) \in Seq(Silent(v))
         /\ Message(v) \in Seq(Silent(v))
<1>1. {"create", "status", "assign", "comment", "message"} \subseteq Capabilities \union {"create"}
      /\ None \in Values /\ "IN_PROGRESS" \in Values /\ SUBSET People \subseteq Values
      /\ None \in Assets \union {None}
  BY DEF Capabilities, Values
<1>2. /\ Entry(v, "create", None, None) \in Updates(v)
      /\ Entry(v, "create", None, None).what = "create"
  BY <1>1, EntryRead
<1>13. Entry(v, "create", None, None).ref = None
  BY DEF Entry
<1>3. Entry(v, "status", "IN_PROGRESS", None) \in Silent(v)
  BY <1>1, EntryRead DEF Silent, Ordinary, Closing
<1>4. ASSUME NEW crew \in SUBSET People PROVE Entry(v, "assign", crew, None) \in Silent(v)
  <2>1. crew \in Values
    BY DEF Values
  <2> QED BY <1>1, <2>1, EntryRead DEF Silent, Ordinary, Closing
<1>5. Entry(v, "comment", None, None) \in Silent(v)
  BY <1>1, EntryRead DEF Silent, Ordinary, Closing
<1>6. Entry(v, "message", None, None) \in Silent(v) /\ Entry(v, "message", None, None) \in Messages(v)
  BY <1>1, EntryRead DEF Silent, Ordinary, Messages, Closing
<1>7. ASSUME NEW S, NEW e \in S, NEW b PROVE If(b, <<e>>) \in Seq(S) /\ <<e>> \in Seq(S)
  BY <1>7 DEF If
<1>8. ASSUME NEW S, NEW e \in S, NEW b PROVE If(b, Keyless(e)) \in Seq(S)
  BY <1>8 DEF If, Keyless
<1>9. Status(v, "IN_PROGRESS") \in Seq(Silent(v))
  BY <1>3, <1>8 DEF Status
<1>10. \A crew \in SUBSET People : Assign(v, crew) \in Seq(Silent(v))
  BY <1>4, <1>8 DEF Assign
<1>11. Comment(v) \in Seq(Silent(v))
  BY <1>5, <1>7 DEF Comment
<1>12. /\ Chats(v) \in Seq(Messages(v)) /\ Chats(v) \in Seq(Silent(v))
       /\ Message(v) \in Seq(Silent(v))
  BY <1>6, <1>7 DEF Chats, Message
<1> QED BY <1>2, <1>9, <1>10, <1>11, <1>12, <1>13 DEF Creation

(* The order of a finite set names each of its members.                    *)
LEMMA OrderNames ==
  ASSUME NEW S, IsFiniteSet(S)
  PROVE  SetToSeq(S) \in Seq(S) /\ Range(SetToSeq(S)) = S
<1>1. PICK n \in Nat : n = Cardinality(S)
  BY FS_CardinalityType
<1>2. PICK f \in [1..n -> S] : IsInjective(f)
  BY <1>1, FS_CardinalityType DEF ExistsBijection, Bijection, Injection
<1>3. PICK g \in [1..n -> S] : g = SetToSeq(S) /\ IsInjective(g)
  BY <1>1, <1>2 DEF SetToSeq
<1>4. g \in Injection(1..n, S)
  BY <1>3 DEF Injection
<1>5. IsFiniteSet(1..n) /\ Cardinality(1..n) = n
  BY FS_Interval
<1>6. g \in Surjection(1..n, S)
  BY <1>1, <1>4, <1>5, FS_Injection
<1>7. Range(g) = S
  BY <1>6 DEF Surjection, Range
<1> QED BY <1>3, <1>7

LEMMA EventsRead ==
  ASSUME NEW v, Recordable(v), NEW x \in {"ONLINE", "OFFLINE"}
  PROVE  /\ AssetEvents(v, x) \in Seq(Announcing(v, x))
         /\ \A a \in ExternalAssets(v) :
              \E e \in Range(AssetEvents(v, x)) : e.asset = a
<1> DEFINE A == ExternalAssets(v)
           S == {Entry(v, "asset", x, a) : a \in A}
<1>1. A \subseteq Assets
  BY DEF Recordable, Scopes, ExternalAssets
<1>2. IsFiniteSet(A)
  BY <1>1, IncidentsAssumption, FS_Subset
<1>3. IsFiniteSet(S)
  <2>1. PICK f : f = [a \in A |-> Entry(v, "asset", x, a)]
    OBVIOUS
  <2>2. f \in Surjection(A, S)
    BY <2>1 DEF Surjection
  <2> QED BY <1>2, <2>2, FS_Surjection
<1>4. AssetEvents(v, x) = SetToSeq(S)
  BY DEF AssetEvents
<1>5. AssetEvents(v, x) \in Seq(S) /\ Range(AssetEvents(v, x)) = S
  BY <1>3, <1>4, OrderNames
<1>6. \A a \in A : /\ Entry(v, "asset", x, a) \in Announcing(v, x)
                   /\ Entry(v, "asset", x, a).asset = a
  <2>1. "asset" \in Capabilities \union {"create"} /\ x \in Values
    BY DEF Capabilities, Values
  <2> QED BY <1>1, <2>1, EntryRead DEF Announcing, Ordinary, Closing
<1>7. S \subseteq Announcing(v, x)
  BY <1>6
<1> HIDE DEF S
<1>8. AssetEvents(v, x) \in Seq(Announcing(v, x))
  BY <1>5, <1>7, SeqMonotonic
<1>9. \A a \in A : \E e \in S : e.asset = a
  BY <1>6 DEF S
<1> QED BY <1>5, <1>8, <1>9

(* ------------------------- what was said of assets --------------------- *)
LEMMA SaidOf ==
  ASSUME NEW S, NEW p \in Seq(S), NEW q \in Seq(S), NEW s, NEW a
  PROVE  /\ Said(p \o q, s, a) = Said(p, s, a) \union Said(q, s, a)
         /\ Said(p, s, a) \subseteq S
<1>1. Range(p \o q) = Range(p) \union Range(q)
  BY RangeConcatenation
<1>2. Range(p) \subseteq S
  BY RangeOfSeq
<1> QED BY <1>1, <1>2 DEF Said

(* A batch that says one thing of the assets that follow an incident.      *)
Announced(v, x, entries) == \A s \in Systems, a \in Assets :
  /\ Said(entries, s, a) # {} <=> s = Here /\ a \in ExternalAssets(v)
  /\ \A e \in Said(entries, s, a) : e.value = x

Unsaid(entries) == \A s, a : Said(entries, s, a) = {}

LEMMA SilentUnsaid ==
  ASSUME NEW v, NEW w \in Seq(Silent(v))
  PROVE  Unsaid(w)
<1>1. ASSUME NEW s, NEW a PROVE Said(w, s, a) \subseteq Silent(v)
  BY SaidOf
<1> QED BY <1>1 DEF Unsaid, Said, Silent

LEMMA EventsAnnounced ==
  ASSUME NEW v, Recordable(v), link \in Systems, NEW x \in {"ONLINE", "OFFLINE"}
  PROVE  Announced(v, x, AssetEvents(v, x))
<1>1. PICK w : w = AssetEvents(v, x)
  OBVIOUS
<1>2. w \in Seq(Announcing(v, x)) /\ \A a \in ExternalAssets(v) : \E e \in Range(w) : e.asset = a
  BY <1>1, EventsRead
<1>3. Range(w) \subseteq Announcing(v, x)
  BY <1>2, RangeOfSeq
<1>4. \A e \in Range(w) : /\ e.what = "asset" /\ e.on = Here /\ e.value = x
                          /\ e.asset \in ExternalAssets(v)
  BY <1>3 DEF Announcing, Ordinary, Updates
<1> QED BY <1>1, <1>2, <1>4 DEF Announced, Said

LEMMA AnnouncedAmong ==
  ASSUME NEW v, NEW x, NEW S, NEW p \in Seq(S), NEW q \in Seq(S), NEW r \in Seq(S),
         Unsaid(p), Announced(v, x, q), Unsaid(r)
  PROVE  Announced(v, x, p \o q \o r)
<1>1. PICK u \in Seq(S) : u = p \o q
  BY ConcatProperties
<1>2. ASSUME NEW s, NEW a PROVE Said(u \o r, s, a) = Said(q, s, a)
  <2>1. Said(u, s, a) = Said(p, s, a) \union Said(q, s, a)
    BY <1>1, SaidOf
  <2>2. Said(u \o r, s, a) = Said(u, s, a) \union Said(r, s, a)
    BY SaidOf
  <2>3. Said(p, s, a) = {} /\ Said(r, s, a) = {}
    BY Zenon DEF Unsaid
  <2> QED BY ONLY <2>1, <2>2, <2>3
<1> QED BY <1>1, <1>2 DEF Announced

LEMMA UnsaidTogether ==
  ASSUME NEW S, NEW p \in Seq(S), NEW q \in Seq(S), Unsaid(p), Unsaid(q)
  PROVE  Unsaid(p \o q)
BY SaidOf DEF Unsaid

LEMMA AnnouncedTold ==
  ASSUME NEW v, NEW x, NEW w, Announced(v, x, w), NEW t
  PROVE  Tell(t, w) = [s \in Systems |-> [a \in Assets |->
           IF s = Here /\ a \in ExternalAssets(v) THEN x ELSE t[s][a]]]
<1>1. \A s \in Systems, a \in Assets :
        (IF Said(w, s, a) = {} THEN t[s][a] ELSE (CHOOSE e \in Said(w, s, a) : TRUE).value)
          = IF s = Here /\ a \in ExternalAssets(v) THEN x ELSE t[s][a]
  BY DEF Announced
<1> QED BY <1>1 DEF Tell

LEMMA UnsaidTold ==
  ASSUME NEW w, Unsaid(w), NEW t
  PROVE  Tell(t, w) = [s \in Systems |-> [a \in Assets |-> t[s][a]]]
BY DEF Tell, Unsaid

(* -------------------- what the records have been told ------------------ *)
LEMMA AfterNothing ==
  ASSUME NEW l, NEW i
  PROVE  After(l, <<>>, i) = l
BY DEF After, Recorded

LEMMA AfterOthers ==
  ASSUME NEW v, NEW w \in Seq(Updates(v)), NEW l, NEW i, i # v.id
  PROVE  After(l, w, i) = l
<1>1. \A k \in 1..Len(w) : w[k].about = v.id
  BY DEF Updates
<1> QED BY <1>1 DEF After, Recorded

LEMMA AfterWork ==
  ASSUME NEW v, NEW w \in Seq(Ordinary(v)), NEW i
  PROVE  After("opened", w, i) = "opened"
<1>1. \A k \in 1..Len(w) : w[k].what # "create" /\ ~Closing(w[k])
  BY DEF Ordinary
<1> QED BY <1>1 DEF After, Recorded, InOrder

LEMMA AfterCreation ==
  ASSUME NEW v, NEW c \in Updates(v), c.what = "create", NEW r \in Seq(Ordinary(v)),
         NEW w, w = <<c>> \o r
  PROVE  After("none", w, v.id) = "opened"
<1>1. r \in Seq(Updates(v)) /\ <<c>> \in Seq(Updates(v))
  BY DEF Ordinary
<1>2. /\ Len(w) = 1 + Len(r) /\ Len(r) \in Nat /\ w[1] = c
      /\ \A k \in 1..Len(w) : k # 1 => k - 1 \in 1..Len(r) /\ w[k] = r[k - 1]
  BY <1>1
<1>3. \A k \in 1..Len(w) : k # 1 => w[k].what # "create" /\ ~Closing(w[k])
  BY <1>2 DEF Ordinary
<1>4. c.about = v.id /\ ~Closing(c)
  BY DEF Updates, Closing
<1>5. Recorded(w, v.id) \subseteq 1..Len(w) /\ 1 \in Recorded(w, v.id)
  BY <1>2, <1>4 DEF Recorded
<1>6. ASSUME NEW k \in Recorded(w, v.id)
      PROVE  1 <= k /\ (w[k].what = "create" <=> k = 1) /\ ~Closing(w[k])
  <2>1. k \in 1..Len(w) /\ 1 <= k
    BY <1>2, <1>5
  <2>2. CASE k = 1
    BY <1>2, <1>4, <2>1, <2>2
  <2>3. CASE k # 1
    BY <1>3, <2>1, <2>3
  <2> QED BY <2>2, <2>3
<1>7. \A k \in Recorded(w, v.id) : (\A j \in Recorded(w, v.id) : k <= j) <=> k = 1
  BY <1>2, <1>5
<1>8. InOrder("none", w, v.id)
  BY <1>6, <1>7 DEF InOrder
<1> QED BY <1>5, <1>6, <1>8 DEF After

LEMMA Between ==
  ASSUME NEW S, NEW p \in Seq(S), NEW d \in S, NEW r \in Seq(S),
         NEW w, w = p \o <<d>> \o r, NEW n, n = Len(p), NEW m, m = Len(r)
  PROVE  /\ Len(w) = n + 1 + m /\ w[n + 1] = d
         /\ \A k \in 1..n : w[k] = p[k]
         /\ \A k \in 1..(n + 1 + m) : k > n + 1 => k - (n + 1) \in 1..m /\ w[k] = r[k - (n + 1)]
<1>1. n \in Nat /\ m \in Nat
  BY LenProperties
<1>2. PICK o : o = <<d>>
  OBVIOUS
<1>3. o \in Seq(S) /\ Len(o) = 1 /\ o[1] = d
  BY <1>2
<1>4. PICK q : q = p \o o
  OBVIOUS
<1>5. /\ q \in Seq(S) /\ Len(q) = n + 1
      /\ \A k \in 1..(n + 1) : q[k] = IF k <= n THEN p[k] ELSE o[k - n]
  <2>1. /\ q \in Seq(S) /\ Len(q) = Len(p) + Len(o)
        /\ \A k \in 1..(Len(p) + Len(o)) : q[k] = IF k <= Len(p) THEN p[k] ELSE o[k - Len(p)]
    BY <1>3, <1>4, ConcatProperties
  <2> QED BY <1>3, <2>1
<1>6. q[n + 1] = d /\ \A k \in 1..n : q[k] = p[k]
  <2>1. n + 1 \in 1..(n + 1) /\ ~(n + 1 <= n) /\ (n + 1) - n = 1
    BY <1>1
  <2>2. \A k \in 1..n : k \in 1..(n + 1) /\ k <= n
    BY <1>1
  <2> QED BY <1>3, <1>5, <2>1, <2>2
<1>7. /\ Len(w) = n + 1 + m
      /\ \A k \in 1..(n + 1 + m) : w[k] = IF k <= n + 1 THEN q[k] ELSE r[k - (n + 1)]
  <2>1. w = q \o r
    BY <1>2, <1>4
  <2>2. PICK z : z = q \o r
    OBVIOUS
  <2>3. /\ Len(z) = Len(q) + Len(r)
        /\ \A k \in 1..(Len(q) + Len(r)) : z[k] = IF k <= Len(q) THEN q[k] ELSE r[k - Len(q)]
    BY <1>5, <2>2, ConcatProperties
  <2> QED BY <1>5, <2>1, <2>2, <2>3
<1>8. \A k \in 1..n : k \in 1..(n + 1 + m) /\ k <= n + 1
  BY <1>1
<1>9. n + 1 \in 1..(n + 1 + m) /\ n + 1 <= n + 1
  BY <1>1
<1>10. \A k \in 1..(n + 1 + m) : k > n + 1 => k - (n + 1) \in 1..m /\ ~(k <= n + 1)
  BY <1>1
<1> QED BY <1>6, <1>7, <1>8, <1>9, <1>10

LEMMA AfterClosing ==
  ASSUME NEW v, NEW p \in Seq(Ordinary(v)), NEW d \in Updates(v), Closing(d),
         NEW r \in Seq(Messages(v)), NEW w, w = p \o <<d>> \o r
  PROVE  After("opened", w, v.id) = "closed"
<1>1. /\ p \in Seq(Updates(v)) /\ <<d>> \in Seq(Updates(v)) /\ r \in Seq(Updates(v))
  BY DEF Ordinary, Messages
<1>2. PICK n, m : n = Len(p) /\ m = Len(r)
  OBVIOUS
<1>3. n \in Nat /\ m \in Nat
  BY <1>1, <1>2, LenProperties
<1>5. /\ Len(w) = n + 1 + m /\ w[n + 1] = d
      /\ \A k \in 1..n : w[k] = p[k]
      /\ \A k \in 1..(n + 1 + m) : k > n + 1 => k - (n + 1) \in 1..m /\ w[k] = r[k - (n + 1)]
  BY <1>1, <1>2, Between
<1>6. \A k \in 1..n : w[k].what # "create" /\ ~Closing(w[k])
  BY <1>2, <1>5 DEF Ordinary
<1>7. \A k \in 1..(n + 1 + m) : k > n + 1 => w[k].what = "message"
  BY <1>2, <1>5 DEF Messages
<1>8. d.about = v.id /\ d.what = "status"
  BY DEF Updates, Closing
<1>9. ASSUME NEW k \in Recorded(w, v.id)
      PROVE  k \in 1..(n + 1) /\ w[k].what # "create" /\ (Closing(w[k]) => k = n + 1)
  <2>1. k \in 1..(n + 1 + m) /\ w[k].what # "message"
    BY <1>5 DEF Recorded
  <2>2. ~(k > n + 1)
    BY <1>7, <2>1, Zenon
  <2>3. CASE k = n + 1
    BY <1>3, <1>5, <1>8, <2>3
  <2>4. CASE k \in 1..n
    BY <1>3, <1>6, <2>4
  <2>5. k \in 1..n \/ k = n + 1
    BY <1>3, <2>1, <2>2
  <2> QED BY <1>3, <2>1, <2>2, <2>3, <2>4, <2>5
<1>10. n + 1 \in Recorded(w, v.id)
  BY <1>3, <1>5, <1>8 DEF Recorded
<1>11. InOrder("opened", w, v.id)
  <2> SUFFICES ASSUME NEW k \in Recorded(w, v.id)
               PROVE  /\ w[k].what # "create"
                      /\ Closing(w[k]) => \A j \in Recorded(w, v.id) : j <= k
    BY DEF InOrder
  <2>1. \A j \in Recorded(w, v.id) : j <= n + 1
    BY <1>3, <1>9
  <2> QED BY <1>9, <2>1
<1> QED BY <1>5, <1>10, <1>11 DEF After

(* ----------------------- documents and their journal ------------------- *)
(* What the document says of an open incident, in view or parked, and      *)
(* which are open.                                                         *)
Held(i) == CopyIn(view, parked, i)
Open == OpenIn(view, parked)

(* The creation of the record is still in a journal q.                     *)
WaitsIn(q, i) == \E k \in 1..Len(q) : q[k].about = i /\ q[k].what = "create"

(* An update that names the record locally comes after its creation.       *)
Follows(q) == \A k \in 1..Len(q) :
  q[k].ref = "local" /\ q[k].on # None =>
    \E j \in 1..(k - 1) : q[j].about = q[k].about /\ q[j].what = "create"

(* The connector cannot change while an incident is open, so each open     *)
(* incident is bound to the one in use.                                    *)
Frozen == \A i \in Open : Held(i).scope.on = Here

Referred == \A i \in Open : Held(i).rec = "local" /\ Here # None => WaitsIn(outbox, i)

(* Only a released incident's record is being closed.                      *)
ClosedLast(q, f) == \A k \in 1..Len(q) : Closing(q[k]) => f[q[k].about] = "released"

AllStatus == \A s \in Systems : "status" \in Caps[s]

Entered ==
  /\ ledger \in [Ids -> {"none", "opened", "closed"}]
  /\ \A i \in Ids : life[i] = "free" => ledger[i] = "none"
  /\ \A i \in Open : ledger[i] = IF link = Local THEN "none" ELSE "opened"
  /\ \A i \in Ids : life[i] = "released" /\ AllStatus => ledger[i] # "opened"

Journaled ==
  /\ outbox \in Seq(Entries) /\ Frozen /\ Referred /\ Follows(outbox)
  /\ ClosedLast(outbox, life) /\ Entered

JournalInv == IncidentsInv /\ Journaled

(* What the systems outside were told of the assets, exactly: those that   *)
(* an open incident stops are Offline where they are followed.             *)
Occupied == UNION {Held(i).scope.assets : i \in Open}

AssetInv ==
  /\ told = [s \in Systems |-> [a \in Assets |->
       IF s = link /\ AssetTracking /\ a \in Occupied THEN "OFFLINE" ELSE "ONLINE"]]
  /\ AssetTracking => \A i \in Open : Held(i).asset = "OFFLINE"

LEMMA HeldRead ==
  ASSUME IncidentsInv, NEW i \in Open
  PROVE  /\ i \in Ids /\ Good(Held(i)) /\ Active(Held(i)) /\ Held(i).id = i
         /\ Frozen => Recordable(Held(i))
<1>1. /\ Good(view) /\ DOMAIN parked \subseteq Ids
      /\ \A j \in DOMAIN parked : Good(parked[j]) /\ Active(parked[j]) /\ parked[j].id = j
  BY DEF IncidentsInv, Document, Copies
<1>2. Good(Held(i)) /\ Active(Held(i)) /\ Held(i).id = i
  BY <1>1 DEF Held, CopyIn, Open, OpenIn
<1>3. i \in Ids
  BY <1>2 DEF Good
<1> QED BY <1>2, <1>3 DEF Good, Recordable, Frozen

LEMMA ViewHeld ==
  ASSUME IncidentsInv
  PROVE  /\ Active(view) => view.id \in Open /\ Held(view.id) = view
         /\ \A i \in DOMAIN parked : i \in Open /\ Held(i) = parked[i]
BY DEF Open, OpenIn, Held, CopyIn, IncidentsInv, Document, Beside

(* ---------------------- the steps, by what they journal ---------------- *)
Carried(v, w) ==
  /\ w.scope = v.scope /\ w.rec \in {v.rec, "remote"}
  /\ v.asset = "OFFLINE" => w.asset = "OFFLINE"

Stays ==
  /\ OpenIn(view', parked') = Open /\ life' = life
  /\ \A i \in Open : Carried(Held(i), CopyIn(view', parked', i))

Fixed == link' = link /\ tracking' = tracking

Puts(w) ==
  /\ outbox' = outbox \o Written(w)
  /\ told' = Tell(told, Written(w))
  /\ ledger' = [i \in Ids |-> After(ledger[i], Written(w), i)]

Rests == Stays /\ Fixed /\ Quiet

Works(i) ==
  /\ Stays /\ Fixed
  /\ \E w \in Seq(Ordinary(Held(i))) :
       Puts(w) /\ (Unsaid(w) \/ (AssetTracking /\ Held(i).asset # "OFFLINE"))

Opens(i) ==
  /\ life[i] = "free" /\ life' = [life EXCEPT ![i] = "given"] /\ Fixed
  /\ OpenIn(view', parked') = Open \union {i} /\ i \notin Open
  /\ \A j \in Open : CopyIn(view', parked', j) = Held(j)
  /\ \E v : /\ v = CopyIn(view', parked', i) /\ Recordable(v) /\ v.id = i /\ v.rec = "local"
            /\ AssetTracking => v.asset = "OFFLINE"
            /\ \E c \in Updates(v), r \in Seq(Ordinary(v)) :
                 /\ c.what = "create" /\ c.ref = None
                 /\ Puts(<<c>> \o r)
                 /\ IF AssetTracking THEN Announced(v, "OFFLINE", <<c>> \o r)
                                     ELSE Unsaid(<<c>> \o r)

Closes(i) ==
  /\ Active(view) /\ view.id = i
  /\ Fixed /\ life' = [life EXCEPT ![i] = "released"]
  /\ OpenIn(view', parked') = Open \ {i}
  /\ \A j \in Open \ {i} : CopyIn(view', parked', j) = Held(j)
  /\ \E p \in Seq(Ordinary(Held(i))), q \in Seq(Updates(Held(i))), r \in Seq(Messages(Held(i))) :
       /\ Puts(p \o q \o r)
       /\ \/ q = <<>> /\ (~Supports("status") \/ \E k \in 1..Len(outbox) :
                                Closing(outbox[k]) /\ outbox[k].about = i)
          \/ \E d \in Updates(Held(i)) : q = <<d>> /\ Closing(d)
       /\ IF AssetTracking /\ Held(i).asset # "ONLINE"
          THEN Announced(Held(i), "ONLINE", p \o q \o r) ELSE Unsaid(p \o q \o r)

LEMMA StaysRead ==
  ASSUME IncidentsInv, Keeps \/ Chooses \/ Parks \/ (\E j \in Ids : Fetches(j))
                         \/ Moves("DOWN", "REPAIRING") \/ Moves("REPAIRING", "DOWN")
  PROVE  Stays
<1>1. Document(view, parked) /\ Copies(parked)
  BY DEF IncidentsInv, Document
<1>2. ASSUME life' = life, OpenIn(view', parked') = OpenIn(view, parked),
             \A i \in OpenIn(view, parked) : CopyIn(view', parked', i) = CopyIn(view, parked, i)
      PROVE  Stays
  BY <1>2 DEF Stays, Carried, Open, Held
<1>3. CASE Keeps
  <2>1. OpenIn(view', parked') = OpenIn(view, parked) /\ life' = life
    BY <1>3 DEF Keeps, OpenIn, SameIncident
  <2>2. \A i \in OpenIn(view, parked) :
          SameIncident(CopyIn(view, parked, i), CopyIn(view', parked', i))
    BY <1>3 DEF Keeps, OpenIn, CopyIn, SameIncident
  <2> QED BY <2>1, <2>2 DEF Stays, Carried, SameIncident, Open, Held
<1>4. CASE Chooses
  BY <1>2, <1>4 DEF Chooses, OpenIn, CopyIn
<1>5. CASE Parks
  BY <1>1, <1>2, <1>5, ParksOnly
<1>6. ASSUME NEW j \in Ids, Fetches(j) PROVE Stays
  BY <1>1, <1>2, <1>6, FetchesOnly
<1>7. ASSUME NEW from, NEW to, Moves(from, to) PROVE Stays
  <2>1. OpenIn(view', parked') = OpenIn(view, parked) /\ life' = life
    BY <1>7 DEF Moves, OpenIn, SameIncident
  <2>2. \A i \in OpenIn(view, parked) :
          \/ SameIncident(CopyIn(view, parked, i), CopyIn(view', parked', i))
          \/ CopyIn(view', parked', i) = CopyIn(view, parked, i)
    BY <1>7 DEF Moves, OpenIn, CopyIn, SameIncident
  <2> QED BY <2>1, <2>2 DEF Stays, Carried, SameIncident, Open, Held
<1> QED BY <1>3, <1>4, <1>5, <1>6, <1>7

LEMMA SilentOrdinary ==
  ASSUME NEW v, NEW w \in Seq(Silent(v))
  PROVE  w \in Seq(Ordinary(v)) /\ Unsaid(w)
<1>1. Silent(v) \subseteq Ordinary(v)
  BY DEF Silent
<1> QED BY <1>1, SeqMonotonic, SilentUnsaid

LEMMA CommitWorks ==
  ASSUME IncidentsInv, Active(view), Stays, NEW v, v.id = view.id, v.rec = view.rec,
         NEW w \in Seq(Ordinary(v)), Unsaid(w) \/ (AssetTracking /\ view.asset # "OFFLINE"),
         NEW x, Commit(x, w)
  PROVE  \E i \in Open : Works(i)
<1>1. view.id \in Open /\ Held(view.id) = view
  BY ViewHeld
<1>2. Ordinary(v) = Ordinary(view)
  BY DEF Ordinary, Updates
<1>3. Fixed /\ Puts(w)
  BY DEF Commit, Fixed, Journals, Puts
<1> QED BY <1>1, <1>2, <1>3 DEF Works

LEMMA Bracketed ==
  ASSUME NEW S, NEW a \in Seq(S), NEW b \in Seq(S), NEW c \in Seq(S),
         NEW ab, ab = a \o b, NEW bc, bc = b \o c
  PROVE  ab \o c = a \o bc
BY ConcatAssociative

LEMMA FiveTogether ==
  ASSUME NEW S, NEW a \in Seq(S), NEW b \in Seq(S), NEW c \in Seq(S),
         NEW d \in Seq(S), NEW e \in Seq(S)
  PROVE  a \o b \o c \o d \o e \in Seq(S)
<1>1. PICK u \in Seq(S) : u = a \o b
  BY ConcatProperties
<1>2. PICK w \in Seq(S) : w = u \o c
  BY ConcatProperties
<1>3. PICK x \in Seq(S) : x = w \o d
  BY ConcatProperties
<1>4. x \o e \in Seq(S)
  BY ConcatProperties
<1> QED BY <1>1, <1>2, <1>3, <1>4

LEMMA ContinueWorks ==
  ASSUME JournalInv, Continue
  PROVE  \E i \in Open : Works(i)
<1> USE DEF JournalInv, Journaled
<1>0. Stays /\ view \in Views /\ Response(view) /\ IncidentsInv
  BY WorksKind, StaysRead DEF IncidentsInv, Document, Good
<1>1. ASSUME Active(view), NEW v \in Views, v.id = view.id, v.scope = view.scope
      PROVE  Recordable(v)
  <2>1. view.id \in Open /\ Held(view.id) = view
    BY <1>1, ViewHeld
  <2>2. Recordable(view)
    BY <2>1, HeldRead
  <2> QED BY <1>1, <2>2 DEF Recordable
<1>2. ASSUME NEW crew \in SUBSET People, StartRepair(crew)
      PROVE  \E i \in Open : Works(i)
  <2>1. PICK op \in {"none", "fixing", "asked", "over"} :
          op = IF Resolving(view) THEN "over" ELSE view.operator
    BY <1>0, ViewFields
  <2>2. PICK v : v = [view EXCEPT !.status = "REPAIRING", !.escalated = FALSE, !.crew = crew,
                                  !.operator = op]
    OBVIOUS
  <2>3. v \in Views
    BY <1>0, <2>2 DEF Views, Statuses
  <2>4. v.id = view.id /\ v.scope = view.scope /\ v.rec = view.rec /\ v.asset = view.asset
    BY <1>0, <2>2 DEF Views
  <2>5. PICK w : w = Assign(v, crew) \o Status(v, "IN_PROGRESS")
                       \o Offline(v, FALSE) \o Comment(v) \o Chats(v)
    OBVIOUS
  <2>6. Commit(WithAsset(v, FALSE), w)
    BY <1>2, <2>1, <2>2, <2>5 DEF StartRepair
  <2>7. Active(view)
    BY <1>0, <1>2 DEF StartRepair, Resolving, Response, Active
  <2>8. Recordable(v)
    BY <1>1, <2>3, <2>4, <2>7
  <2>9. /\ Assign(v, crew) \in Seq(Silent(v)) /\ Status(v, "IN_PROGRESS") \in Seq(Silent(v))
        /\ Comment(v) \in Seq(Silent(v)) /\ Chats(v) \in Seq(Silent(v))
    BY <2>8, Pieces
  <2>10. CASE GoesOffline(v, FALSE)
    <3>1. AssetTracking /\ view.asset # "OFFLINE"
      BY <2>4, <2>10 DEF GoesOffline
    <3>2. Offline(v, FALSE) \in Seq(Announcing(v, "OFFLINE"))
      BY <2>8, <2>10, EventsRead DEF Offline, If
    <3>3. Offline(v, FALSE) \in Seq(Ordinary(v))
      <4>1. Announcing(v, "OFFLINE") \subseteq Ordinary(v)
        BY DEF Announcing
      <4> QED BY <3>2, <4>1, SeqMonotonic
    <3>4. /\ Assign(v, crew) \in Seq(Ordinary(v)) /\ Status(v, "IN_PROGRESS") \in Seq(Ordinary(v))
          /\ Comment(v) \in Seq(Ordinary(v)) /\ Chats(v) \in Seq(Ordinary(v))
      BY <2>9, SilentOrdinary, Zenon
    <3>5. w \in Seq(Ordinary(v))
      BY <2>5, <3>3, <3>4, FiveTogether, Zenon
    <3>6. Unsaid(w) \/ (AssetTracking /\ view.asset # "OFFLINE")
      BY <3>1, Zenon
    <3> QED BY <1>0, <2>4, <2>6, <2>7, <3>5, <3>6, CommitWorks, Zenon
  <2>11. CASE ~GoesOffline(v, FALSE)
    <3>1. Offline(v, FALSE) \in Seq(Silent(v))
      BY <2>11 DEF Offline, If
    <3>2. w \in Seq(Silent(v))
      BY <2>5, <2>9, <3>1, FiveTogether, Zenon
    <3> QED BY <1>0, <2>4, <2>6, <2>7, <3>2, SilentOrdinary, CommitWorks
  <2> QED BY <2>10, <2>11
<1>3. ASSUME Active(view), NEW v \in Views, v.id = view.id, v.scope = view.scope, v.rec = view.rec,
             NEW w \in Seq(Silent(v)), Commit(v, w)
      PROVE  \E i \in Open : Works(i)
  BY <1>0, <1>3, SilentOrdinary, CommitWorks
<1>4. CASE ChangeStatus
  <2>1. PICK v : v = [view EXCEPT !.status = "REPAIRING", !.escalated = FALSE]
    OBVIOUS
  <2>2. v \in Views
    BY <1>0, <2>1 DEF Views, Statuses
  <2>3. v.id = view.id /\ v.scope = view.scope /\ v.rec = view.rec
    BY <1>0, <2>1 DEF Views
  <2>4. Active(view) /\ Commit(v, Status(v, "IN_PROGRESS"))
    BY <1>4, <2>1 DEF ChangeStatus, Active
  <2>5. Status(v, "IN_PROGRESS") \in Seq(Silent(v))
    BY <1>1, <2>2, <2>3, <2>4, Pieces
  <2> QED BY <1>3, <2>2, <2>3, <2>4, <2>5
<1>5. ASSUME NEW crew \in SUBSET People, UpdateActiveCrew(crew)
      PROVE  \E i \in Open : Works(i)
  <2>1. PICK v : v = [view EXCEPT !.crew = crew]
    OBVIOUS
  <2>2. v \in Views
    BY <1>0, <2>1 DEF Views
  <2>3. v.id = view.id /\ v.scope = view.scope /\ v.rec = view.rec
    BY <1>0, <2>1 DEF Views
  <2>4. Active(view) /\ Commit(v, Assign(v, crew) \o Comment(v) \o Chats(v))
    BY <1>5, <2>1 DEF UpdateActiveCrew, Active
  <2>5. Assign(v, crew) \o Comment(v) \o Chats(v) \in Seq(Silent(v))
    <3>1. Assign(v, crew) \in Seq(Silent(v)) /\ Comment(v) \in Seq(Silent(v))
          /\ Chats(v) \in Seq(Silent(v))
      BY <1>1, <2>2, <2>3, <2>4, Pieces
    <3> QED BY <3>1
  <2> QED BY <1>3, <2>2, <2>3, <2>4, <2>5
<1>6. CASE RequestHandover
  <2>1. PICK v : v = [view EXCEPT !.operator = "asked", !.status = "DOWN", !.escalated = FALSE]
    OBVIOUS
  <2>2. v \in Views
    BY <1>0, <2>1 DEF Views, Statuses
  <2>3. v.id = view.id /\ v.scope = view.scope /\ v.rec = view.rec
    BY <1>0, <2>1 DEF Views
  <2>4. Active(view) /\ Commit(v, Assign(v, {}) \o Comment(v) \o Chats(v))
    BY <1>0, <1>6, <2>1 DEF RequestHandover, Active, Response
  <2>5. Assign(v, {}) \o Comment(v) \o Chats(v) \in Seq(Silent(v))
    <3>1. Assign(v, {}) \in Seq(Silent(v)) /\ Comment(v) \in Seq(Silent(v))
          /\ Chats(v) \in Seq(Silent(v))
      BY <1>1, <2>2, <2>3, <2>4, Pieces
    <3> QED BY <3>1
  <2> QED BY <1>3, <2>2, <2>3, <2>4, <2>5
<1>7. CASE EscalateView
  <2>1. PICK v : v = [view EXCEPT !.escalated = TRUE]
    OBVIOUS
  <2>2. Active(view) /\ Commit(v, Chats(view))
    BY <1>7, <2>1 DEF EscalateView, Overdue, Active
  <2>3. Chats(view) \in Seq(Silent(view))
    BY <1>0, <1>1, <2>2, Pieces
  <2> QED BY <1>0, <2>2, <2>3, SilentOrdinary, CommitWorks
<1>8. ASSUME NEW i \in Ids, EscalateParked(i)
      PROVE  \E j \in Open : Works(j)
  <2>1. i \in DOMAIN parked /\ Fixed /\ Puts(Message(parked[i]))
    BY <1>8 DEF EscalateParked, Fixed, Journals, Puts
  <2>2. i \in Open /\ Held(i) = parked[i] /\ Recordable(Held(i))
    BY <2>1, ViewHeld, HeldRead
  <2>3. Message(Held(i)) \in Seq(Silent(Held(i)))
    BY <2>2, Pieces
  <2>4. Message(Held(i)) \in Seq(Ordinary(Held(i))) /\ Unsaid(Message(Held(i)))
    BY <2>3, SilentOrdinary
  <2> QED BY <1>0, <2>1, <2>2, <2>4 DEF Works
<1> QED BY <1>2, <1>4, <1>5, <1>6, <1>7, <1>8 DEF Continue

LEMMA TrackingHere ==
  AssetTracking => link \in Systems
BY DEF AssetTracking, Supports

LEMMA BegunOpens ==
  ASSUME IncidentsInv, NEW i \in Ids, NEW v, BegunAs(i, v), NEW r \in Seq(Ordinary(v)),
         NEW b, b = <<Entry(v, "create", None, None)>> \o r,
         IF AssetTracking THEN Announced(v, "OFFLINE", b) ELSE Unsaid(b),
         Commit(WithAsset(v, TRUE), b)
  PROVE  Opens(i)
<1>1. /\ ~Active(view) /\ life[i] = "free" /\ life' = [life EXCEPT ![i] = "given"]
      /\ v \in Views /\ Active(v) /\ v.id = i /\ v.rec = "local" /\ view.zones # {}
  BY DEF BegunAs, MayBegin
<1>2. view.zones \in SUBSET (Groups \union {Line}) /\ Selection(view.zones)
  BY ViewFields DEF IncidentsInv, Document, Good
<1>3. Recordable(v)
  <2>1. ScopeFor(view.zones).on = Here
    BY DEF ScopeFor, Here
  <2>2. ScopeFor(view.zones) \in Scopes
    BY <1>1, <1>2, ScopeTyped
  <2> QED BY <1>1, <2>1, <2>2 DEF BegunAs, Recordable
<1>4. PICK w : w = WithAsset(v, TRUE)
  OBVIOUS
<1>5. /\ w \in Views /\ w.id = i /\ w.scope = v.scope /\ w.rec = "local" /\ Active(w)
      /\ AssetTracking => w.asset = "OFFLINE"
  BY <1>1, <1>4, AssetKept DEF GoesOffline, Active
<1>6. Recordable(w)
  BY <1>1, <1>3, <1>5 DEF Recordable
<1>7. view' = w /\ parked' = parked /\ Fixed /\ Puts(b)
  BY <1>4 DEF Commit, Fixed, Journals, Puts
<1>8. i \notin Open /\ Open = DOMAIN parked
  BY <1>1 DEF IncidentsInv, Lived, Open, OpenIn
<1>9. OpenIn(view', parked') = Open \union {i} /\ CopyIn(view', parked', i) = w
  BY <1>5, <1>7, <1>8 DEF OpenIn, CopyIn
<1>10. \A j \in Open : CopyIn(view', parked', j) = Held(j)
  BY <1>1, <1>5, <1>7, <1>8 DEF CopyIn, Held
<1>11. Updates(w) = Updates(v) /\ Ordinary(w) = Ordinary(v)
  BY <1>1, <1>5 DEF Updates, Ordinary
<1>12. ExternalAssets(w) = ExternalAssets(v)
  BY <1>5 DEF ExternalAssets
<1>13. IF AssetTracking THEN Announced(w, "OFFLINE", b) ELSE Unsaid(b)
  BY <1>12 DEF Announced
<1>14. PICK first \in Updates(w) : first.what = "create" /\ first.ref = None /\ b = <<first>> \o r
  BY <1>3, <1>11, Pieces
<1>15. \E c \in Updates(w), q \in Seq(Ordinary(w)) :
         /\ c.what = "create" /\ c.ref = None /\ Puts(<<c>> \o q)
         /\ IF AssetTracking THEN Announced(w, "OFFLINE", <<c>> \o q) ELSE Unsaid(<<c>> \o q)
  BY <1>7, <1>11, <1>13, <1>14
<1> QED BY <1>1, <1>5, <1>6, <1>7, <1>8, <1>9, <1>10, <1>15 DEF Opens

(* What the assets say of an incident that begins.                         *)
LEMMA OfflineRead ==
  ASSUME NEW v, Recordable(v)
  PROVE  /\ Offline(v, TRUE) \in Seq(Ordinary(v))
         /\ IF AssetTracking THEN Announced(v, "OFFLINE", Offline(v, TRUE))
                             ELSE Unsaid(Offline(v, TRUE))
<1>1. CASE AssetTracking
  <2>1. Offline(v, TRUE) = AssetEvents(v, "OFFLINE")
    BY <1>1 DEF Offline, If, GoesOffline
  <2>2. AssetEvents(v, "OFFLINE") \in Seq(Announcing(v, "OFFLINE"))
    BY EventsRead
  <2>3. Announcing(v, "OFFLINE") \subseteq Ordinary(v)
    BY DEF Announcing
  <2>4. AssetEvents(v, "OFFLINE") \in Seq(Ordinary(v))
    BY <2>2, <2>3, SeqMonotonic
  <2>5. Announced(v, "OFFLINE", AssetEvents(v, "OFFLINE"))
    BY <1>1, TrackingHere, EventsAnnounced
  <2> QED BY <1>1, <2>1, <2>4, <2>5
<1>2. CASE ~AssetTracking
  <2>1. Offline(v, TRUE) = <<>>
    BY <1>2 DEF Offline, If, GoesOffline
  <2>2. Unsaid(<<>>) /\ <<>> \in Seq(Ordinary(v))
    BY DEF Unsaid, Said, Range
  <2> QED BY <1>2, <2>1, <2>2, Zenon
<1> QED BY <1>1, <1>2

(* A batch of a creation, the assets and the rest, in either order.        *)
LEMMA BatchRead ==
  ASSUME NEW v, Recordable(v), NEW p \in Seq(Silent(v)), NEW q \in Seq(Silent(v)),
         NEW c, c = Entry(v, "create", None, None),
         NEW r, r = p \o Offline(v, TRUE) \o q, NEW b, b = <<c>> \o r
  PROVE  /\ r \in Seq(Ordinary(v))
         /\ IF AssetTracking THEN Announced(v, "OFFLINE", b) ELSE Unsaid(b)
<1>1. /\ p \in Seq(Ordinary(v)) /\ q \in Seq(Ordinary(v)) /\ Unsaid(p) /\ Unsaid(q)
  BY SilentOrdinary
<1>2. PICK o \in Seq(Ordinary(v)) : o = Offline(v, TRUE)
  BY OfflineRead
<1>3. r \in Seq(Ordinary(v))
  <2>1. PICK u \in Seq(Ordinary(v)) : u = p \o o
    BY <1>1, <1>2, ConcatProperties
  <2>2. u \o q \in Seq(Ordinary(v))
    BY <1>1, <2>1, ConcatProperties
  <2> QED BY <1>2, <2>1, <2>2
<1>4. Ordinary(v) \subseteq Updates(v) /\ c \in Updates(v) /\ c.what = "create"
  BY Pieces DEF Ordinary
<1>5. p \in Seq(Updates(v)) /\ q \in Seq(Updates(v)) /\ o \in Seq(Updates(v))
  BY <1>1, <1>2, <1>4, SeqMonotonic
<1>6. <<c>> \in Seq(Updates(v)) /\ Unsaid(<<c>>)
  <2>1. Range(<<c>>) = {c}
    BY DEF Range
  <2> QED BY <1>4, <2>1 DEF Unsaid, Said
<1>7. PICK h \in Seq(Updates(v)) : h = <<c>> \o p
  BY <1>5, <1>6, ConcatProperties
<1>8. Unsaid(h)
  BY <1>1, <1>5, <1>6, <1>7, UnsaidTogether
<1>9. b = h \o o \o q
  <2>1. PICK y \in Seq(Updates(v)) : y = <<c>>
    BY <1>6
  <2>2. PICK u \in Seq(Updates(v)) : u = p \o o
    BY <1>5, ConcatProperties
  <2>3. PICK z : z = u \o q
    OBVIOUS
  <2>4. h \o o = y \o u
    BY ONLY <1>5, <1>7, <2>1, <2>2, y \in Seq(Updates(v)), Bracketed
  <2>5. PICK x : x = y \o u
    OBVIOUS
  <2>6. x \o q = y \o z
    BY ONLY <1>5, <2>1, <2>2, <2>3, <2>5, y \in Seq(Updates(v)), u \in Seq(Updates(v)), Bracketed
  <2> QED BY ONLY <1>2, <2>1, <2>2, <2>3, <2>4, <2>5, <2>6, b = <<c>> \o r,
                  r = p \o Offline(v, TRUE) \o q
<1>10. CASE AssetTracking
  <2>1. Announced(v, "OFFLINE", o)
    BY <1>2, <1>10, OfflineRead
  <2>2. Announced(v, "OFFLINE", h \o o \o q)
    BY <1>1, <1>5, <1>8, <2>1, AnnouncedAmong
  <2> QED BY <1>3, <1>9, <1>10, <2>2
<1>11. CASE ~AssetTracking
  <2>1. Unsaid(o)
    BY <1>2, <1>11, OfflineRead
  <2>2. PICK u \in Seq(Updates(v)) : u = h \o o
    BY <1>5, ConcatProperties
  <2>3. Unsaid(u)
    BY <1>5, <1>8, <2>1, <2>2, UnsaidTogether
  <2>4. Unsaid(u \o q)
    BY <1>1, <1>5, <2>3, UnsaidTogether
  <2> QED BY <1>3, <1>9, <1>11, <2>2, <2>4
<1> QED BY <1>10, <1>11

(* What a new incident journals.                                           *)
Batch(v, p, s, t) == Creation(v) \o p \o Offline(v, TRUE) \o s \o t

BatchSound(v, b) == \E r \in Seq(Ordinary(v)) :
  /\ b = <<Entry(v, "create", None, None)>> \o r
  /\ IF AssetTracking THEN Announced(v, "OFFLINE", b) ELSE Unsaid(b)

LEMMA BegunBatch ==
  ASSUME NEW v, Recordable(v), NEW p, NEW s, NEW t, {p, s, t} \subseteq Seq(Silent(v))
  PROVE  BatchSound(v, Batch(v, p, s, t))
<1>0. PICK b : b = Batch(v, p, s, t) /\ b = Creation(v) \o p \o Offline(v, TRUE) \o s \o t
  BY DEF Batch
<1>1. PICK S : S = Updates(v)
  OBVIOUS
<1>2. PICK c : c = Creation(v) /\ c \in Seq(S) /\ c = <<Entry(v, "create", None, None)>>
  <2>1. PICK e \in S : e = Entry(v, "create", None, None) /\ Creation(v) = <<e>>
    BY <1>1, Pieces
  <2>2. <<e>> \in Seq(S)
    OBVIOUS
  <2> QED BY <2>1, <2>2
<1>3. PICK o : o = Offline(v, TRUE) /\ o \in Seq(S)
  <2>1. Offline(v, TRUE) \in Seq(Ordinary(v)) /\ Ordinary(v) \subseteq S
    BY <1>1, OfflineRead DEF Ordinary
  <2> QED BY <2>1, SeqMonotonic
<1>4. p \in Seq(S) /\ s \in Seq(S) /\ t \in Seq(S)
  <2>1. Silent(v) \subseteq S
    BY <1>1 DEF Silent, Ordinary
  <2> QED BY <2>1, SeqMonotonic
<1>5. PICK q : q = s \o t
  OBVIOUS
<1>6. PICK r : r = p \o o \o q
  OBVIOUS
<1>7. b = c \o r
  <2>1. b = c \o p \o o \o s \o t
    BY <1>0, <1>2, <1>3, Zenon
  <2>2. c \in Seq(S) /\ o \in Seq(S)
    BY <1>2, <1>3
  <2>3. PICK u : u = p \o o
    OBVIOUS
  <2>4. PICK x : x = c \o p
    OBVIOUS
  <2>5. PICK y : y = x \o o
    OBVIOUS
  <2>6. y = c \o u
    BY ONLY <1>4, <2>2, <2>3, <2>4, <2>5, Bracketed
  <2>7. (y \o s) \o t = y \o q
    <3>1. y \in Seq(S)
      BY ONLY <1>4, <2>2, <2>4, <2>5, ConcatProperties
    <3> QED BY ONLY <1>4, <1>5, <3>1, Bracketed
  <2>8. y \o q = c \o r
    <3>1. u \in Seq(S) /\ q \in Seq(S)
      BY ONLY <1>4, <1>5, <2>2, <2>3, ConcatProperties
    <3>2. r = u \o q
      BY ONLY <1>6, <2>3
    <3> QED BY ONLY <2>2, <2>6, <3>1, <3>2, Bracketed
  <2> QED BY ONLY <2>1, <2>4, <2>5, <2>7, <2>8
<1>8. q \in Seq(Silent(v))
  BY <1>5, ConcatProperties
<1>9. /\ r \in Seq(Ordinary(v))
      /\ IF AssetTracking THEN Announced(v, "OFFLINE", b) ELSE Unsaid(b)
  BY <1>2, <1>3, <1>6, <1>7, <1>8, BatchRead
<1> QED BY <1>0, <1>2, <1>7, <1>9 DEF BatchSound

LEMMA OpensKind ==
  ASSUME JournalInv, BeginWork
  PROVE  \E i \in Ids : Opens(i)
<1>0. IncidentsInv
  BY DEF JournalInv, Journaled
<1>1. ASSUME NEW i \in Ids, NEW v, BegunAs(i, v) PROVE Recordable(v)
  <2>1. view.zones \in SUBSET (Groups \union {Line}) /\ Selection(view.zones) /\ view.zones # {}
    BY <1>0, <1>1, ViewFields DEF IncidentsInv, Document, Good, BegunAs, MayBegin
  <2>2. ScopeFor(view.zones).on = Here
    BY DEF ScopeFor, Here
  <2>3. ScopeFor(view.zones) \in Scopes
    BY <2>1, ScopeTyped
  <2> QED BY <1>1, <2>2, <2>3 DEF BegunAs, Recordable
<1>2. ASSUME NEW i \in Ids, NEW v, BegunAs(i, v), NEW p \in Seq(Silent(v)),
             NEW s \in Seq(Silent(v)), NEW t \in Seq(Silent(v)),
             Commit(WithAsset(v, TRUE), Batch(v, p, s, t))
      PROVE  Opens(i)
  <2>1. PICK b : b = Batch(v, p, s, t)
    OBVIOUS
  <2>2. BatchSound(v, b)
    BY <1>1, <1>2, <2>1, BegunBatch
  <2>3. Commit(WithAsset(v, TRUE), b)
    BY <1>2, <2>1
  <2>4. PICK r \in Seq(Ordinary(v)) :
          /\ b = <<Entry(v, "create", None, None)>> \o r
          /\ IF AssetTracking THEN Announced(v, "OFFLINE", b) ELSE Unsaid(b)
    BY <2>2 DEF BatchSound
  <2> QED BY <1>0, <1>2, <2>3, <2>4, BegunOpens
<1>3. ASSUME NEW i \in Ids, NEW selfFix \in BOOLEAN, NEW f \in SUBSET Reasoned, Report(i, selfFix, f)
      PROVE  Opens(i)
  <2>1. PICK v : BegunAs(i, v) /\ Commit(WithAsset(v, TRUE), Creation(v) \o Offline(v, TRUE)
                                  \o If(selfFix, Status(v, "IN_PROGRESS")) \o Chats(v))
    BY <1>0, <1>3, ReportRead
  <2>2. Recordable(v)
    BY <1>1, <2>1
  <2>3. <<>> \in Seq(Silent(v)) /\ Chats(v) \in Seq(Silent(v))
    BY <2>2, Pieces
  <2>4. If(selfFix, Status(v, "IN_PROGRESS")) \in Seq(Silent(v))
    BY <2>2, <2>3, Pieces DEF If
  <2>5. Creation(v) \o <<>> = Creation(v)
    BY DEF Creation
  <2>6. Commit(WithAsset(v, TRUE), Batch(v, <<>>, If(selfFix, Status(v, "IN_PROGRESS")), Chats(v)))
    BY ONLY <2>1, <2>5 DEF Batch
  <2> QED BY <1>2, <2>1, <2>3, <2>4, <2>6, Zenon
<1>4. ASSUME NEW i \in Ids, NEW crew \in SUBSET People, StartPlannedWork(i, crew)
      PROVE  Opens(i)
  <2>1. PICK v : /\ BegunAs(i, v)
                 /\ Commit(WithAsset(v, TRUE),
                           Batch(v, Status(v, "IN_PROGRESS"), Comment(v), Chats(v)))
    BY <1>0, <1>4, PlannedRead DEF Planned, Batch
  <2>2. Recordable(v)
    BY <1>1, <2>1
  <2>3. /\ Status(v, "IN_PROGRESS") \in Seq(Silent(v)) /\ Comment(v) \in Seq(Silent(v))
        /\ Chats(v) \in Seq(Silent(v))
    BY <2>2, Pieces
  <2> QED BY <1>2, <2>1, <2>3, Zenon
<1> QED BY <1>3, <1>4 DEF BeginWork

LEMMA AnnouncedBefore ==
  ASSUME NEW v, NEW x, NEW S, NEW q \in Seq(S), NEW r \in Seq(S), Announced(v, x, q), Unsaid(r)
  PROVE  Announced(v, x, q \o r)
<1>1. ASSUME NEW s, NEW a PROVE Said(q \o r, s, a) = Said(q, s, a)
  <2>1. Said(q \o r, s, a) = Said(q, s, a) \union Said(r, s, a)
    BY SaidOf
  <2>2. Said(r, s, a) = {}
    BY Zenon DEF Unsaid
  <2> QED BY ONLY <2>1, <2>2
<1> QED BY <1>1 DEF Announced

(* The update that closes the record, when there is one to journal.        *)
LEMMA DoneRead ==
  ASSUME NEW v, Recordable(v)
  PROVE  /\ Status(v, "DONE") \in Seq(Updates(v)) /\ Unsaid(Status(v, "DONE"))
         /\ \/ /\ Status(v, "DONE") = <<>>
               /\ ~Supports("status") \/ \E k \in 1..Len(outbox) :
                    Closing(outbox[k]) /\ outbox[k].about = v.id
            \/ \E d \in Updates(v) : Status(v, "DONE") = <<d>> /\ Closing(d)
<1>1. "status" \in Capabilities \union {"create"} /\ "DONE" \in Values /\ None \in Assets \union {None}
  BY DEF Capabilities, Values
<1>2. PICK d \in Updates(v) : d = Entry(v, "status", "DONE", None) /\ Closing(d)
  BY <1>1, EntryRead DEF Closing
<1>3. <<d>> \in Seq(Updates(v)) /\ <<>> \in Seq(Updates(v))
  OBVIOUS
<1>4. Unsaid(<<d>>) /\ Unsaid(<<>>)
  <2>1. Range(<<d>>) = {d}
    BY DEF Range
  <2>2. d.what # "asset"
    BY <1>2 DEF Closing
  <2>3. Unsaid(<<d>>)
    BY <2>1, <2>2 DEF Unsaid, Said
  <2>4. Unsaid(<<>>)
    BY DEF Unsaid, Said, Range
  <2> QED BY <2>3, <2>4
<1>5. Status(v, "DONE") = If(Supports("status"), Keyless(d))
  BY <1>2 DEF Status
<1>6. CASE ~Supports("status")
  BY <1>3, <1>4, <1>5, <1>6 DEF If
<1>7. CASE Supports("status") /\ \E k \in 1..Len(outbox) : outbox[k] = d
  <2>1. Status(v, "DONE") = <<>>
    BY <1>5, <1>7 DEF If, Keyless
  <2>2. d.about = v.id
    BY DEF Updates
  <2> QED BY <1>2, <1>3, <1>4, <1>7, <2>1, <2>2
<1>8. CASE Supports("status") /\ \A k \in 1..Len(outbox) : outbox[k] # d
  <2>1. Status(v, "DONE") = <<d>>
    BY <1>5, <1>8 DEF If, Keyless
  <2> QED BY <1>2, <1>3, <1>4, <2>1
<1> QED BY <1>6, <1>7, <1>8

LEMMA ClosesKind ==
  ASSUME JournalInv, FinishWork
  PROVE  view.id \in Open /\ Closes(view.id)
<1>0. IncidentsInv /\ Active(view) /\ view.id \in Open /\ Held(view.id) = view /\ Recordable(view)
  BY ViewHeld, HeldRead DEF JournalInv, Journaled, FinishWork, IncidentsInv
<1>1. Ends
  <2>1. life[view.id] = "given" /\ view.id \in Ids
    BY <1>0, HeldRead DEF IncidentsInv, Lived, Open
  <2>2. life' = [life EXCEPT ![view.id] = "released"] /\ life \in [Ids -> {"free", "given", "released"}]
    BY <1>0 DEF FinishWork, IncidentsInv, Lived
  <2>3. life' # life
    BY <2>1, <2>2
  <2> QED BY <1>0, <2>3, EndsKind DEF Finish, Keeps
<1>2. /\ Fixed /\ life' = [life EXCEPT ![view.id] = "released"]
      /\ OpenIn(view', parked') = Open \ {view.id}
      /\ \A j \in Open \ {view.id} : CopyIn(view', parked', j) = Held(j)
  <2>1. view.id \notin DOMAIN parked
    BY <1>0 DEF IncidentsInv, Document, Beside
  <2> QED BY <1>1, <2>1 DEF Ends, FinishWork, Fixed, Open, OpenIn, CopyIn, Held
<1>3. PICK v : v = view
  OBVIOUS
<1>4. PICK a : a = If(ComesBack, AssetEvents(v, "ONLINE"))
  OBVIOUS
<1>5. /\ a \in Seq(Ordinary(v))
      /\ IF ComesBack THEN Announced(v, "ONLINE", a) ELSE Unsaid(a)
  <2>1. CASE ComesBack
    <3>1. a = AssetEvents(v, "ONLINE") /\ link \in Systems
      BY <1>4, <2>1, TrackingHere DEF If, ComesBack
    <3>2. AssetEvents(v, "ONLINE") \in Seq(Announcing(v, "ONLINE"))
      BY <1>0, <1>3, EventsRead
    <3>3. Announcing(v, "ONLINE") \subseteq Ordinary(v)
      BY DEF Announcing
    <3>4. AssetEvents(v, "ONLINE") \in Seq(Ordinary(v))
      BY <3>2, <3>3, SeqMonotonic
    <3>5. Announced(v, "ONLINE", AssetEvents(v, "ONLINE"))
      BY <1>0, <1>3, <3>1, EventsAnnounced
    <3> QED BY <2>1, <3>1, <3>4, <3>5
  <2>2. CASE ~ComesBack
    <3>1. a = <<>>
      BY <1>4, <2>2 DEF If
    <3>2. Unsaid(<<>>) /\ <<>> \in Seq(Ordinary(v))
      BY DEF Unsaid, Said, Range
    <3> QED BY <2>2, <3>1, <3>2, Zenon
  <2> QED BY <2>1, <2>2
<1>6. Comment(v) \in Seq(Silent(v)) /\ Chats(v) \in Seq(Messages(v)) /\ Chats(v) \in Seq(Silent(v))
  BY <1>0, <1>3, Pieces
<1>7. PICK c \in Seq(Ordinary(v)) : c = Comment(v) /\ Unsaid(c)
  BY <1>6, SilentOrdinary
<1>8. PICK r \in Seq(Messages(v)) : r = Chats(v) /\ Unsaid(r)
  BY <1>6, SilentOrdinary
<1>9. PICK q \in Seq(Updates(v)) :
        /\ q = Status(v, "DONE") /\ Unsaid(q)
        /\ \/ q = <<>> /\ (~Supports("status") \/ \E k \in 1..Len(outbox) :
                             Closing(outbox[k]) /\ outbox[k].about = v.id)
           \/ \E d \in Updates(v) : q = <<d>> /\ Closing(d)
  BY <1>0, <1>3, DoneRead
<1>10. PICK p \in Seq(Ordinary(v)) : p = a \o c
  BY <1>5, ConcatProperties
<1>11. Puts(p \o q \o r)
  BY <1>3, <1>4, <1>7, <1>8, <1>9, <1>10 DEF FinishWork, Journals, Puts, ReleaseUpdates
<1>12. IF ComesBack THEN Announced(v, "ONLINE", p \o q \o r) ELSE Unsaid(p \o q \o r)
  <2>1. /\ Ordinary(v) \subseteq Updates(v) /\ Messages(v) \subseteq Updates(v)
    BY DEF Ordinary, Messages
  <2>2. /\ a \in Seq(Updates(v)) /\ c \in Seq(Updates(v)) /\ p \in Seq(Updates(v))
        /\ r \in Seq(Updates(v))
    BY <1>5, <2>1, SeqMonotonic
  <2>3. PICK u \in Seq(Updates(v)) : u = p \o q
    BY <2>2, ConcatProperties
  <2>4. CASE ComesBack
    <3>1. Announced(v, "ONLINE", p)
      BY <1>5, <1>7, <1>10, <2>2, <2>4, AnnouncedBefore
    <3>2. Announced(v, "ONLINE", u)
      BY <1>9, <2>2, <2>3, <3>1, AnnouncedBefore
    <3>3. Announced(v, "ONLINE", u \o r)
      BY <1>8, <2>2, <3>2, AnnouncedBefore
    <3> QED BY <2>3, <2>4, <3>3
  <2>5. CASE ~ComesBack
    <3>1. Unsaid(p)
      BY <1>5, <1>7, <1>10, <2>2, <2>5, UnsaidTogether
    <3>2. Unsaid(u)
      BY <1>9, <2>2, <2>3, <3>1, UnsaidTogether
    <3>3. Unsaid(u \o r)
      BY <1>8, <2>2, <3>2, UnsaidTogether
    <3> QED BY <2>3, <2>5, <3>3
  <2> QED BY <2>4, <2>5
<1>13. /\ v = Held(view.id) /\ v.id = view.id
       /\ ComesBack <=> (AssetTracking /\ v.asset # "ONLINE")
  BY <1>0, <1>3 DEF ComesBack
<1>14. \E f \in Seq(Ordinary(v)), g \in Seq(Updates(v)), h \in Seq(Messages(v)) :
         /\ Puts(f \o g \o h)
         /\ \/ g = <<>> /\ (~Supports("status") \/ \E k \in 1..Len(outbox) :
                             Closing(outbox[k]) /\ outbox[k].about = v.id)
            \/ \E d \in Updates(v) : g = <<d>> /\ Closing(d)
         /\ IF AssetTracking /\ v.asset # "ONLINE"
            THEN Announced(v, "ONLINE", f \o g \o h) ELSE Unsaid(f \o g \o h)
  BY <1>9, <1>11, <1>12, <1>13
<1> QED BY <1>0, <1>2, <1>13, <1>14 DEF Closes

(* ------------------- the journal before and after a step --------------- *)
Joins(q, w, u) == LET n == Len(q) m == Len(w) IN
  /\ n \in Nat /\ m \in Nat /\ Len(u) = n + m
  /\ \A k \in 1..n : k \in 1..(n + m) /\ u[k] = q[k]
  /\ \A k \in 1..m : n + k \in 1..(n + m) /\ u[n + k] = w[k]
  /\ \A k \in 1..(n + m) : k \in 1..n \/ \E j \in 1..m : k = n + j

LEMMA Appended ==
  ASSUME NEW S, NEW q \in Seq(S), NEW w \in Seq(S)
  PROVE  q \o w \in Seq(S) /\ Joins(q, w, q \o w)
<1>0. PICK n, m, u : n = Len(q) /\ m = Len(w) /\ u = q \o w
  OBVIOUS
<1>1. n \in Nat /\ m \in Nat
  BY <1>0, LenProperties
<1>2. /\ u \in Seq(S) /\ Len(u) = n + m
      /\ \A k \in 1..(n + m) : u[k] = IF k <= n THEN q[k] ELSE w[k - n]
  BY <1>0, ConcatProperties
<1>3. \A k \in 1..n : k \in 1..(n + m) /\ k <= n
  BY <1>1
<1>4. \A k \in 1..m : n + k \in 1..(n + m) /\ ~(n + k <= n) /\ (n + k) - n = k
  BY <1>1
<1>5. \A k \in 1..(n + m) : k \in 1..n \/ (k - n \in 1..m /\ k = n + (k - n))
  BY <1>1
<1>6. /\ n \in Nat /\ m \in Nat /\ Len(u) = n + m
      /\ \A k \in 1..n : k \in 1..(n + m) /\ u[k] = q[k]
      /\ \A k \in 1..m : n + k \in 1..(n + m) /\ u[n + k] = w[k]
      /\ \A k \in 1..(n + m) : k \in 1..n \/ \E j \in 1..m : k = n + j
  BY <1>1, <1>2, <1>3, <1>4, <1>5
<1>7. Joins(q, w, u)
  BY ONLY <1>0, <1>6, Zenon DEF Joins
<1> QED BY <1>0, <1>2, <1>7

(* A creation that waits still waits when more is journaled; what is       *)
(* journaled after it may name the record.                                 *)
Anew(q, w) == \A k \in 1..Len(w) :
  w[k].ref = "local" /\ w[k].on # None =>
    \/ WaitsIn(q, w[k].about)
    \/ \E j \in 1..(k - 1) : w[j].about = w[k].about /\ w[j].what = "create"

LEMMA JournalAppended ==
  ASSUME NEW q \in Seq(Entries), NEW w \in Seq(Entries), NEW u, u = q \o w
  PROVE  /\ u \in Seq(Entries)
         /\ \A i : WaitsIn(q, i) \/ WaitsIn(w, i) => WaitsIn(u, i)
         /\ Follows(q) /\ Anew(q, w) => Follows(u)
         /\ \A f : ClosedLast(q, f) /\ ClosedLast(w, f) => ClosedLast(u, f)
<1>1. PICK n, m : n = Len(q) /\ m = Len(w)
  OBVIOUS
<1>2. /\ n \in Nat /\ m \in Nat /\ u \in Seq(Entries) /\ Len(u) = n + m
      /\ \A k \in 1..n : k \in 1..(n + m) /\ u[k] = q[k]
      /\ \A k \in 1..m : n + k \in 1..(n + m) /\ u[n + k] = w[k]
      /\ \A k \in 1..(n + m) : k \in 1..n \/ \E j \in 1..m : k = n + j
  <2>1. u \in Seq(Entries) /\ Joins(q, w, u)
    BY Appended
  <2> QED BY <1>1, <2>1 DEF Joins
<1>3. ASSUME NEW i, WaitsIn(q, i) \/ WaitsIn(w, i) PROVE WaitsIn(u, i)
  <2>1. CASE WaitsIn(q, i)
    <3>1. PICK k \in 1..n : q[k].about = i /\ q[k].what = "create"
      BY <1>1, <2>1 DEF WaitsIn
    <3> QED BY <1>2, <3>1 DEF WaitsIn
  <2>2. CASE WaitsIn(w, i)
    <3>1. PICK k \in 1..m : w[k].about = i /\ w[k].what = "create"
      BY <1>1, <2>2 DEF WaitsIn
    <3>2. PICK j \in 1..(n + m) : j = n + k /\ u[j] = w[k]
      BY <1>2
    <3>3. Len(u) = n + m
      BY <1>2
    <3> QED BY ONLY <3>1, <3>2, <3>3 DEF WaitsIn
  <2> QED BY <1>3, <2>1, <2>2
<1>4. ASSUME Follows(q), Anew(q, w) PROVE Follows(u)
  <2> SUFFICES ASSUME NEW k \in 1..(n + m), u[k].ref = "local", u[k].on # None
               PROVE  \E j \in 1..(k - 1) : u[j].about = u[k].about /\ u[j].what = "create"
    BY <1>2 DEF Follows
  <2>1. CASE k \in 1..n
    <3>1. PICK j \in 1..(k - 1) : q[j].about = q[k].about /\ q[j].what = "create"
      BY <1>1, <1>2, <1>4, <2>1 DEF Follows
    <3>2. j \in 1..n
      BY <1>2, <2>1
    <3> QED BY <1>2, <2>1, <3>1, <3>2
  <2>2. ASSUME NEW h \in 1..m, k = n + h
        PROVE  \E j \in 1..(k - 1) : u[j].about = u[k].about /\ u[j].what = "create"
    <3>1. u[k] = w[h] /\ h \in 1..Len(w)
      BY <1>1, <1>2, <2>2
    <3>2. CASE WaitsIn(q, w[h].about)
      <4>1. PICK j \in 1..n : q[j].about = w[h].about /\ q[j].what = "create"
        BY <1>1, <3>2 DEF WaitsIn
      <4>2. j \in 1..(k - 1)
        BY <1>2, <2>2
      <4> QED BY <1>2, <3>1, <4>1, <4>2
    <3>3. ASSUME NEW j \in 1..(h - 1), w[j].about = w[h].about, w[j].what = "create"
          PROVE  \E g \in 1..(k - 1) : u[g].about = u[k].about /\ u[g].what = "create"
      <4>1. j \in 1..m /\ n + j \in 1..(k - 1)
        BY <1>2, <2>2
      <4>2. u[n + j] = w[j]
        BY <1>2, <4>1
      <4> QED BY <3>1, <3>3, <4>1, <4>2
    <3> QED BY <1>4, <3>1, <3>2, <3>3 DEF Anew
  <2> QED BY <1>2, <2>1, <2>2
<1>5. ASSUME NEW f, ClosedLast(q, f), ClosedLast(w, f) PROVE ClosedLast(u, f)
  BY <1>1, <1>2, <1>5 DEF ClosedLast
<1> QED BY <1>2, <1>3, <1>4, <1>5

(* The oldest entry leaves the journal; the rest close up.                 *)
Removed(S, q, u, k) == LET n == Len(q) IN
  /\ n \in Nat /\ u \in Seq(S) /\ Len(u) = n - 1
  /\ \A j \in 1..(n - 1) : u[j] = IF j < k THEN q[j] ELSE q[j + 1]

LEMMA RemovedRead ==
  ASSUME NEW S, NEW q \in Seq(S), NEW k \in 1..Len(q)
  PROVE  Removed(S, q, RemoveAt(q, k), k)
<1>0. PICK n, u : n = Len(q) /\ u = RemoveAt(q, k)
  OBVIOUS
<1>1. n \in Nat /\ k \in 1..n
  BY <1>0, LenProperties
<1>2. PICK a, b : a = SubSeq(q, 1, k - 1) /\ b = SubSeq(q, k + 1, n)
  OBVIOUS
<1>3. u = a \o b
  BY <1>0, <1>2 DEF RemoveAt
<1>4. a \in Seq(S) /\ Len(a) = k - 1 /\ \A j \in 1..(k - 1) : a[j] = q[j]
  BY <1>0, <1>1, <1>2, SubSeqProperties
<1>5. b \in Seq(S) /\ Len(b) = n - k /\ \A j \in 1..(n - k) : b[j] = q[k + j]
  BY <1>0, <1>1, <1>2, SubSeqProperties
<1>6. /\ u \in Seq(S) /\ Len(u) = Len(a) + Len(b)
      /\ \A j \in 1..(Len(a) + Len(b)) : u[j] = IF j <= Len(a) THEN a[j] ELSE b[j - Len(a)]
  <2>1. a \in Seq(S) /\ b \in Seq(S)
    BY <1>4, <1>5
  <2>2. PICK z : z = a \o b
    OBVIOUS
  <2>3. /\ z \in Seq(S) /\ Len(z) = Len(a) + Len(b)
        /\ \A j \in 1..(Len(a) + Len(b)) : z[j] = IF j <= Len(a) THEN a[j] ELSE b[j - Len(a)]
    BY ONLY <2>1, <2>2, ConcatProperties
  <2> QED BY <1>3, <2>2, <2>3
<1>7. (k - 1) + (n - k) = n - 1
  BY <1>1
<1>8. /\ Len(u) = n - 1
      /\ \A j \in 1..(n - 1) : u[j] = IF j <= k - 1 THEN a[j] ELSE b[j - (k - 1)]
  BY <1>4, <1>5, <1>6, <1>7
<1>9. ASSUME NEW j \in 1..(n - 1) PROVE u[j] = IF j < k THEN q[j] ELSE q[j + 1]
  <2>1. CASE j < k
    <3>1. j <= k - 1 /\ j \in 1..(k - 1)
      BY <1>1, <2>1
    <3> QED BY <1>4, <1>8, <2>1, <3>1
  <2>2. CASE ~(j < k)
    <3>1. ~(j <= k - 1) /\ j - (k - 1) \in 1..(n - k) /\ k + (j - (k - 1)) = j + 1
      BY <1>1, <2>2
    <3> QED BY <1>5, <1>8, <2>2, <3>1
  <2> QED BY <2>1, <2>2
<1> QED BY <1>0, <1>1, <1>6, <1>8, <1>9 DEF Removed

LEMMA PutsKept ==
  ASSUME JournalInv, NEW w \in Seq(Entries), Puts(w), Anew(outbox, w)
  PROVE  /\ outbox' \in Seq(Entries) /\ Follows(outbox')
         /\ \A i : WaitsIn(outbox, i) => WaitsIn(outbox', i)
         /\ link # Local => \A i : WaitsIn(w, i) => WaitsIn(outbox', i)
         /\ \A f : ClosedLast(outbox, f) /\ ClosedLast(w, f) => ClosedLast(outbox', f)
<1>1. outbox \in Seq(Entries) /\ Follows(outbox)
  BY DEF JournalInv, Journaled
<1>2. CASE link = Local
  <2>1. outbox' = outbox
    BY <1>1, <1>2 DEF Puts, Written
  <2> QED BY <1>1, <1>2, <2>1
<1>3. CASE link # Local
  <2>1. outbox' = outbox \o w
    BY <1>3 DEF Puts, Written
  <2>2. PICK u : u = outbox \o w
    OBVIOUS
  <2>3. /\ u \in Seq(Entries)
        /\ \A i : WaitsIn(outbox, i) \/ WaitsIn(w, i) => WaitsIn(u, i)
        /\ Follows(outbox) /\ Anew(outbox, w) => Follows(u)
        /\ \A f : ClosedLast(outbox, f) /\ ClosedLast(w, f) => ClosedLast(u, f)
    BY <1>1, <2>2, JournalAppended
  <2> QED BY <1>1, <2>1, <2>2, <2>3
<1> QED BY <1>2, <1>3

(* Updates of an incident that is open name its record as the document     *)
(* does.                                                                   *)
LEMMA UpdatesAnew ==
  ASSUME JournalInv, NEW i \in Open, NEW w \in Seq(Updates(Held(i)))
  PROVE  w \in Seq(Entries) /\ Anew(outbox, w)
<1>1. Held(i).id = i
  BY HeldRead DEF JournalInv, Journaled
<1>2. Updates(Held(i)) \subseteq Entries
  BY DEF Updates
<1>3. w \in Seq(Entries)
  BY <1>2, SeqMonotonic
<1>4. ASSUME NEW k \in 1..Len(w), w[k].ref = "local", w[k].on # None
      PROVE  WaitsIn(outbox, w[k].about)
  <2>1. w[k].about = i /\ w[k].on = Here /\ w[k].ref \in {None, Held(i).rec}
    BY <1>1 DEF Updates
  <2>2. Held(i).rec = "local" /\ Here # None
    BY <1>4, <2>1, IncidentsAssumption
  <2> QED BY <2>1, <2>2 DEF JournalInv, Journaled, Referred
<1> QED BY <1>3, <1>4 DEF Anew

LEMMA StaysFrozen ==
  ASSUME JournalInv, Stays, Fixed
  PROVE  /\ Open' = Open /\ Here' = Here /\ Frozen'
         /\ \A i \in Open : Held(i)'.rec = "local" => Held(i).rec = "local"
<1>1. Open' = Open /\ Here' = Here
  BY DEF Stays, Fixed, Open, Here
<1>2. ASSUME NEW i \in Open
      PROVE  Held(i)'.scope = Held(i).scope /\ (Held(i)'.rec = "local" => Held(i).rec = "local")
  BY DEF Stays, Carried, Held
<1>3. Frozen'
  BY <1>1, <1>2 DEF JournalInv, Journaled, Frozen
<1> QED BY <1>1, <1>2, <1>3

LEMMA RestsKept ==
  ASSUME JournalInv, Rests
  PROVE  Journaled'
<1>1. outbox' = outbox /\ ledger' = ledger /\ life' = life /\ link' = link
  BY DEF Rests, Quiet, Stays, Fixed
<1>2. /\ Open' = Open /\ Here' = Here /\ Frozen'
      /\ \A i \in Open : Held(i)'.rec = "local" => Held(i).rec = "local"
  BY StaysFrozen DEF Rests
<1>3. Referred'
  BY <1>1, <1>2 DEF JournalInv, Journaled, Referred
<1>4. Entered'
  BY <1>1, <1>2 DEF JournalInv, Journaled, Entered, AllStatus
<1> QED BY <1>1, <1>2, <1>3, <1>4 DEF JournalInv, Journaled

LEMMA WorksKept ==
  ASSUME JournalInv, NEW i \in Open, Works(i)
  PROVE  Journaled'
<1>1. Stays /\ Fixed /\ life' = life /\ link' = link
  BY DEF Works, Stays, Fixed
<1>2. PICK w \in Seq(Ordinary(Held(i))) : Puts(w)
  BY DEF Works
<1>3. w \in Seq(Updates(Held(i)))
  <2>1. Ordinary(Held(i)) \subseteq Updates(Held(i))
    BY DEF Ordinary
  <2> QED BY <2>1, SeqMonotonic
<1>4. /\ Open' = Open /\ Here' = Here /\ Frozen'
      /\ \A j \in Open : Held(j)'.rec = "local" => Held(j).rec = "local"
  BY <1>1, StaysFrozen
<1>5. /\ outbox' \in Seq(Entries) /\ Follows(outbox')
      /\ \A j : WaitsIn(outbox, j) => WaitsIn(outbox', j)
      /\ \A f : ClosedLast(outbox, f) /\ ClosedLast(w, f) => ClosedLast(outbox', f)
  BY <1>2, <1>3, UpdatesAnew, PutsKept
<1>6. Referred'
  BY <1>4, <1>5 DEF JournalInv, Journaled, Referred
<1>7. ClosedLast(outbox', life')
  <2>1. ClosedLast(w, life)
    BY DEF ClosedLast, Ordinary
  <2> QED BY <1>1, <1>5, <2>1 DEF JournalInv, Journaled
<1>8. Entered'
  <2>1. i \in Ids /\ Held(i).id = i
    BY HeldRead DEF JournalInv, Journaled
  <2>2. ledger \in [Ids -> {"none", "opened", "closed"}]
        /\ ledger[i] = IF link = Local THEN "none" ELSE "opened"
    BY DEF JournalInv, Journaled, Entered
  <2>3. ASSUME NEW j \in Ids PROVE After(ledger[j], Written(w), j) = ledger[j]
    <3>1. CASE link = Local
      BY <3>1, AfterNothing DEF Written
    <3>2. CASE link # Local /\ j = i
      BY <2>2, <3>2, AfterWork DEF Written
    <3>3. CASE link # Local /\ j # i
      BY <1>3, <2>1, <3>3, AfterOthers DEF Written
    <3> QED BY <3>1, <3>2, <3>3
  <2>4. ledger' = ledger
    BY <1>2, <2>2, <2>3 DEF Puts
  <2> QED BY <1>1, <1>4, <2>4 DEF JournalInv, Journaled, Entered, AllStatus
<1> QED BY <1>4, <1>5, <1>6, <1>7, <1>8 DEF Journaled

LEMMA OpensKept ==
  ASSUME JournalInv, NEW i \in Ids, Opens(i)
  PROVE  Journaled'
<1>1. /\ life[i] = "free" /\ life' = [life EXCEPT ![i] = "given"] /\ link' = link
      /\ Open' = Open \union {i} /\ i \notin Open /\ Here' = Here
      /\ \A j \in Open : Held(j)' = Held(j)
  BY DEF Opens, Fixed, Open, Here, Held
<1>2. life \in [Ids -> {"free", "given", "released"}]
  BY DEF JournalInv, IncidentsInv, Lived
<1>3. PICK v : /\ v = Held(i)' /\ Recordable(v) /\ v.id = i /\ v.rec = "local"
               /\ \E c \in Updates(v), r \in Seq(Ordinary(v)) :
                    c.what = "create" /\ c.ref = None /\ Puts(<<c>> \o r)
  BY DEF Opens, Held
<1>4. PICK c \in Updates(v), r \in Seq(Ordinary(v)) :
        c.what = "create" /\ c.ref = None /\ Puts(<<c>> \o r)
  BY <1>3
<1>5. PICK w : w = <<c>> \o r
  OBVIOUS
<1>6. /\ w \in Seq(Updates(v)) /\ Len(w) = 1 + Len(r) /\ Len(r) \in Nat /\ w[1] = c
      /\ \A k \in 1..Len(w) : k # 1 => k - 1 \in 1..Len(r) /\ w[k] = r[k - 1]
  <2>1. r \in Seq(Updates(v))
    BY DEF Ordinary
  <2> QED BY <1>5, <2>1
<1>7. w \in Seq(Entries)
  <2>1. Updates(v) \subseteq Entries
    BY DEF Updates
  <2> QED BY <1>6, <2>1, SeqMonotonic
<1>8. Anew(outbox, w)
  <2> SUFFICES ASSUME NEW k \in 1..Len(w), w[k].ref = "local"
               PROVE  \E j \in 1..(k - 1) : w[j].about = w[k].about /\ w[j].what = "create"
    BY DEF Anew
  <2>1. k # 1 /\ 1 \in 1..(k - 1)
    BY <1>4, <1>6, IncidentsAssumption
  <2>2. w[k].about = v.id /\ w[1].about = v.id
    BY <1>6 DEF Updates
  <2> QED BY <1>4, <1>6, <2>1, <2>2
<1>9. \A k \in 1..Len(w) : ~Closing(w[k])
  <2>1. ~Closing(c)
    BY <1>4 DEF Closing
  <2>2. \A k \in 1..Len(r) : ~Closing(r[k])
    BY DEF Ordinary
  <2> QED BY <1>6, <2>1, <2>2
<1>10. WaitsIn(w, i)
  <2>1. c.about = i
    BY <1>3 DEF Updates
  <2> QED BY <1>4, <1>6, <2>1 DEF WaitsIn
<1>11. Puts(w)
  BY <1>4, <1>5
<1>12. /\ outbox' \in Seq(Entries) /\ Follows(outbox')
       /\ \A j : WaitsIn(outbox, j) => WaitsIn(outbox', j)
       /\ link # Local => WaitsIn(outbox', i)
       /\ \A f : ClosedLast(outbox, f) /\ ClosedLast(w, f) => ClosedLast(outbox', f)
  BY <1>7, <1>8, <1>10, <1>11, PutsKept
<1>13. Frozen'
  <2>1. v.scope.on = Here
    BY <1>3 DEF Recordable
  <2> QED BY <1>1, <1>3, <2>1 DEF JournalInv, Journaled, Frozen
<1>14. Referred'
  <2>1. ASSUME NEW j \in Open, Held(j)'.rec = "local", Here # None PROVE WaitsIn(outbox', j)
    <3>1. Held(j).rec = "local"
      BY <1>1, <2>1
    <3> QED BY <1>12, <2>1, <3>1 DEF JournalInv, Journaled, Referred
  <2>2. Here # None => WaitsIn(outbox', i)
    BY <1>12, IncidentsAssumption DEF Here
  <2> QED BY <1>1, <2>1, <2>2 DEF Referred
<1>15. ClosedLast(outbox', life')
  <2>1. \A k \in 1..Len(outbox) : outbox[k].about \in Ids
    <3>1. outbox \in Seq(Entries) /\ \A e \in Entries : e.about \in Ids
      BY DEF JournalInv, Journaled, Entries
    <3> QED BY <3>1
  <2>2. ClosedLast(outbox, life')
    BY <1>1, <1>2, <2>1 DEF JournalInv, Journaled, ClosedLast
  <2>3. ClosedLast(w, life')
    BY <1>9 DEF ClosedLast
  <2> QED BY <1>12, <2>2, <2>3
<1>16. Entered'
  <2>1. /\ ledger \in [Ids -> {"none", "opened", "closed"}] /\ ledger[i] = "none"
        /\ \A j \in Ids : life[j] = "free" => ledger[j] = "none"
        /\ \A j \in Open : ledger[j] = IF link = Local THEN "none" ELSE "opened"
        /\ \A j \in Ids : life[j] = "released" /\ AllStatus => ledger[j] # "opened"
    BY <1>1 DEF JournalInv, Journaled, Entered
  <2>2. ASSUME NEW j \in Ids
        PROVE  After(ledger[j], Written(w), j)
                 = IF j = i THEN (IF link = Local THEN "none" ELSE "opened") ELSE ledger[j]
    <3>1. CASE link = Local
      BY <2>1, <3>1, AfterNothing DEF Written
    <3>2. CASE link # Local /\ j = i
      <4>1. After("none", w, v.id) = "opened"
        BY <1>4, <1>5, AfterCreation
      <4> QED BY <1>3, <2>1, <3>2, <4>1 DEF Written
    <3>3. CASE link # Local /\ j # i
      <4>1. After(ledger[j], w, j) = ledger[j]
        BY <1>3, <1>6, <3>3, AfterOthers
      <4> QED BY <3>3, <4>1 DEF Written
    <3> QED BY <3>1, <3>2, <3>3
  <2>3. ledger' = [j \in Ids |->
                     IF j = i THEN (IF link = Local THEN "none" ELSE "opened") ELSE ledger[j]]
    BY <1>11, <2>2 DEF Puts
  <2>4. ledger' \in [Ids -> {"none", "opened", "closed"}]
    BY <2>1, <2>3
  <2>5. \A j \in Ids : /\ life'[j] = IF j = i THEN "given" ELSE life[j]
                       /\ ledger'[j] = IF j = i THEN (IF link = Local THEN "none" ELSE "opened")
                                       ELSE ledger[j]
    BY <1>1, <1>2, <2>3
  <2>6. \A j \in Open : j \in Ids
    BY HeldRead DEF JournalInv
  <2>7. \A j \in Open' : ledger'[j] = IF link' = Local THEN "none" ELSE "opened"
    BY <1>1, <2>1, <2>5, <2>6
  <2>8. \A j \in Ids : life'[j] = "free" => ledger'[j] = "none"
    BY <2>1, <2>5
  <2>9. \A j \in Ids : life'[j] = "released" /\ AllStatus => ledger'[j] # "opened"
    BY <2>1, <2>5
  <2> QED BY <2>4, <2>7, <2>8, <2>9 DEF Entered, AllStatus
<1> QED BY <1>12, <1>13, <1>14, <1>15, <1>16 DEF Journaled

(* Only the open incident's record can have been opened.                   *)
LEMMA ClosesKept ==
  ASSUME JournalInv, NEW i \in Open, Closes(i)
  PROVE  Journaled'
<1>1. /\ life' = [life EXCEPT ![i] = "released"] /\ link' = link
      /\ Open' = Open \ {i} /\ Here' = Here
      /\ \A j \in Open \ {i} : Held(j)' = Held(j)
  BY DEF Closes, Fixed, Open, Here, Held
<1>2. /\ i \in Ids /\ Held(i).id = i /\ life \in [Ids -> {"free", "given", "released"}]
      /\ life[i] = "given" /\ Open \subseteq Ids
  BY HeldRead DEF JournalInv, IncidentsInv, Lived, Open
<1>3. PICK v : v = Held(i)
  OBVIOUS
<1>4. PICK p \in Seq(Ordinary(v)), q \in Seq(Updates(v)), r \in Seq(Messages(v)) :
        /\ Puts(p \o q \o r)
        /\ \/ q = <<>> /\ (~Supports("status") \/ \E k \in 1..Len(outbox) :
                             Closing(outbox[k]) /\ outbox[k].about = i)
           \/ \E d \in Updates(v) : q = <<d>> /\ Closing(d)
  BY <1>3 DEF Closes
<1>5. PICK w : w = p \o q \o r
  OBVIOUS
<1>6. w \in Seq(Updates(v))
  <2>1. Ordinary(v) \subseteq Updates(v) /\ Messages(v) \subseteq Updates(v)
    BY DEF Ordinary, Messages
  <2>2. p \in Seq(Updates(v)) /\ r \in Seq(Updates(v))
    BY <2>1, SeqMonotonic
  <2>3. PICK u \in Seq(Updates(v)) : u = p \o q
    BY <2>2, ConcatProperties
  <2>4. u \o r \in Seq(Updates(v))
    BY <2>2, ConcatProperties
  <2> QED BY <1>5, <2>3, <2>4
<1>7. Puts(w)
  BY <1>4, <1>5
<1>8. /\ outbox' \in Seq(Entries) /\ Follows(outbox')
      /\ \A j : WaitsIn(outbox, j) => WaitsIn(outbox', j)
      /\ \A f : ClosedLast(outbox, f) /\ ClosedLast(w, f) => ClosedLast(outbox', f)
  <2>1. w \in Seq(Entries) /\ Anew(outbox, w)
    BY <1>3, <1>6, UpdatesAnew
  <2> QED BY <1>7, <2>1, PutsKept
<1>9. Frozen'
  BY <1>1 DEF JournalInv, Journaled, Frozen
<1>10. Referred'
  BY <1>1, <1>8 DEF JournalInv, Journaled, Referred
<1>11. ClosedLast(outbox', life')
  <2>1. \A k \in 1..Len(outbox) : outbox[k].about \in Ids
    <3>1. outbox \in Seq(Entries) /\ \A e \in Entries : e.about \in Ids
      BY DEF JournalInv, Journaled, Entries
    <3> QED BY <3>1
  <2>2. ClosedLast(outbox, life')
    BY <1>1, <1>2, <2>1 DEF JournalInv, Journaled, ClosedLast
  <2>3. \A k \in 1..Len(w) : w[k].about = i
    BY <1>2, <1>3, <1>6 DEF Updates
  <2>4. ClosedLast(w, life')
    BY <1>1, <1>2, <2>3 DEF ClosedLast
  <2> QED BY <1>8, <2>2, <2>4
<1>12. Entered'
  <2>1. /\ ledger \in [Ids -> {"none", "opened", "closed"}]
        /\ ledger[i] = IF link = Local THEN "none" ELSE "opened"
        /\ \A j \in Ids : life[j] = "free" => ledger[j] = "none"
        /\ \A j \in Open : ledger[j] = IF link = Local THEN "none" ELSE "opened"
        /\ \A j \in Ids : life[j] = "released" /\ AllStatus => ledger[j] # "opened"
    BY DEF JournalInv, Journaled, Entered
  <2>2. ASSUME NEW j \in Ids, j # i PROVE After(ledger[j], Written(w), j) = ledger[j]
    <3>1. CASE link = Local
      BY <3>1, AfterNothing DEF Written
    <3>2. CASE link # Local
      BY <1>2, <1>3, <1>6, <2>2, <3>2, AfterOthers DEF Written
    <3> QED BY <3>1, <3>2
  <2>3. PICK l : l = After(ledger[i], Written(w), i)
    OBVIOUS
  <2>4. l \in {"none", "opened", "closed"} /\ (AllStatus => l # "opened")
    <3>1. CASE link = Local
      BY <2>1, <2>3, <3>1, AfterNothing DEF Written
    <3>2. ASSUME link # Local, NEW d \in Updates(v), q = <<d>>, Closing(d)
          PROVE  l = "closed"
      <4>1. After("opened", w, v.id) = "closed"
        BY <1>5, <3>2, AfterClosing
      <4> QED BY <1>2, <1>3, <2>1, <2>3, <3>2, <4>1 DEF Written
    <3>3. ASSUME link # Local, q = <<>> PROVE l = "opened"
      <4>1. Messages(v) \subseteq Ordinary(v)
        BY DEF Messages, Ordinary, Closing
      <4>2. r \in Seq(Ordinary(v)) /\ q \in Seq(Ordinary(v))
        <5>1. <<>> \in Seq(Ordinary(v))
          OBVIOUS
        <5> QED BY <3>3, <4>1, <5>1, SeqMonotonic
      <4>3. PICK u \in Seq(Ordinary(v)) : u = p \o q
        BY <4>2, ConcatProperties
      <4>4. u \o r \in Seq(Ordinary(v))
        BY <4>2, ConcatProperties
      <4>5. w \in Seq(Ordinary(v))
        BY <1>5, <4>3, <4>4
      <4>6. After("opened", w, i) = "opened"
        BY <4>5, AfterWork
      <4> QED BY <2>1, <2>3, <3>3, <4>6 DEF Written
    <3>4. ASSUME link # Local, q = <<>>, AllStatus
          PROVE  FALSE
      <4>1. Supports("status")
        BY <3>4 DEF Supports, AllStatus
      <4>2. ASSUME NEW k \in 1..Len(outbox), Closing(outbox[k]), outbox[k].about = i PROVE FALSE
        BY <1>2, <4>2 DEF JournalInv, Journaled, ClosedLast
      <4> QED BY <1>4, <3>4, <4>1, <4>2
    <3> QED BY <1>4, <3>1, <3>2, <3>3, <3>4
  <2>5. ledger' = [j \in Ids |-> IF j = i THEN l ELSE ledger[j]]
    BY <1>7, <2>2, <2>3 DEF Puts
  <2>6. ledger' \in [Ids -> {"none", "opened", "closed"}]
    BY <2>1, <2>4, <2>5
  <2>7. \A j \in Ids : /\ life'[j] = IF j = i THEN "released" ELSE life[j]
                       /\ ledger'[j] = IF j = i THEN l ELSE ledger[j]
    BY <1>1, <1>2, <2>5
  <2>8. \A j \in Open' : ledger'[j] = IF link' = Local THEN "none" ELSE "opened"
    BY <1>1, <1>2, <2>1, <2>7
  <2>9. \A j \in Ids : life'[j] = "free" => ledger'[j] = "none"
    BY <2>1, <2>7
  <2>10. \A j \in Ids : life'[j] = "released" /\ AllStatus => ledger'[j] # "opened"
    BY <2>1, <2>4, <2>7
  <2> QED BY <2>6, <2>8, <2>9, <2>10 DEF Entered, AllStatus
<1> QED BY <1>8, <1>9, <1>10, <1>11, <1>12 DEF Journaled

(* Settings move the terminal only while nothing is open.                  *)
LEMMA ConfigureKept ==
  ASSUME JournalInv, Configure
  PROVE  Journaled'
<1>1. /\ view' = view /\ parked' = parked /\ life' = life /\ outbox' = outbox /\ ledger' = ledger
      /\ link' # link => Opened = {}
  BY DEF Configure, SaveSettings, Quiet
<1>2. Open' = Open /\ \A i \in Open : Held(i)' = Held(i)
  BY <1>1 DEF Open, Held
<1>3. link' # link => Open = {}
  <2>1. Opened = {} => Open = {}
    BY DEF Opened, Open, OpenIn, Range
  <2> QED BY <1>1, <2>1
<1>4. Here' # Here => Open = {}
  BY <1>3 DEF Here
<1>5. Frozen' /\ Referred'
  BY <1>1, <1>2, <1>4 DEF JournalInv, Journaled, Frozen, Referred
<1>6. Entered'
  BY <1>1, <1>2, <1>3 DEF JournalInv, Journaled, Entered, AllStatus
<1> QED BY <1>1, <1>5, <1>6 DEF JournalInv, Journaled

(* What is left of the journal when the entry at k has been delivered.     *)
Left(q, u, k) ==
  /\ u \in Seq(Entries) /\ Len(u) = Len(q) - 1
  /\ \A j \in 1..(Len(q) - 1) : \E h \in 1..Len(q) :
       /\ h = IF j < k THEN j ELSE j + 1
       /\ u[j].about = q[h].about /\ u[j].what = q[h].what /\ u[j].value = q[h].value
       /\ u[j].on = q[h].on
       /\ u[j].ref = "local" =>
            q[h].ref = "local" /\ ~(q[k].what = "create" /\ q[h].about = q[k].about)

LEMMA ResolvedRead ==
  ASSUME NEW e \in Entries, NEW i
  PROVE  /\ Resolved(e, i) \in Entries
         /\ Resolved(e, i).about = e.about /\ Resolved(e, i).what = e.what
         /\ Resolved(e, i).value = e.value /\ Resolved(e, i).on = e.on
         /\ Resolved(e, i).ref = "local" => e.ref = "local" /\ e.about # i
<1>1. PICK r : r = [e EXCEPT !.ref = "remote"]
  OBVIOUS
<1>2. /\ r \in Entries /\ r.about = e.about /\ r.what = e.what /\ r.value = e.value
      /\ r.on = e.on /\ r.ref = "remote"
  BY <1>1 DEF Entries
<1> QED BY <1>1, <1>2 DEF Resolved

LEMMA DeliverRead ==
  ASSUME outbox \in Seq(Entries), Deliver
  PROVE  \E k \in 1..Len(outbox) :
           /\ Left(outbox, outbox', k) /\ outbox[k].ref # "local"
           /\ outbox[k].what = "create" =>
                /\ view' = Remote(view, outbox[k].about)
                /\ parked' = [i \in DOMAIN parked |-> Remote(parked[i], outbox[k].about)]
<1>1. PICK k \in 1..Len(outbox) :
        /\ outbox[k].ref # "local"
        /\ IF outbox[k].what = "create"
           THEN /\ outbox' = [j \in 1..(Len(outbox) - 1) |->
                                Resolved(RemoveAt(outbox, k)[j], outbox[k].about)]
                /\ view' = Remote(view, outbox[k].about)
                /\ parked' = [i \in DOMAIN parked |-> Remote(parked[i], outbox[k].about)]
           ELSE outbox' = RemoveAt(outbox, k)
  BY DEF Deliver
<1>2. PICK n, a, u : n = Len(outbox) /\ a = outbox[k].about /\ u = RemoveAt(outbox, k)
  OBVIOUS
<1>3. /\ n \in Nat /\ u \in Seq(Entries) /\ Len(u) = n - 1
      /\ \A j \in 1..(n - 1) : u[j] = IF j < k THEN outbox[j] ELSE outbox[j + 1]
  <2>1. PICK q : q = outbox
    OBVIOUS
  <2>2. q \in Seq(Entries) /\ n = Len(q) /\ k \in 1..Len(q) /\ u = RemoveAt(q, k)
    BY <1>2, <2>1
  <2>4. Removed(Entries, q, u, k)
    BY <2>2, RemovedRead
  <2>3. /\ n \in Nat /\ u \in Seq(Entries) /\ Len(u) = n - 1
        /\ \A j \in 1..(n - 1) : u[j] = IF j < k THEN q[j] ELSE q[j + 1]
    BY <2>2, <2>4 DEF Removed
  <2> QED BY <2>1, <2>3
<1>4. ASSUME NEW j \in 1..(n - 1)
      PROVE  \E h \in 1..n : h = (IF j < k THEN j ELSE j + 1) /\ u[j] = outbox[h]
                             /\ outbox[h] \in Entries
  <2>1. PICK h \in 1..n : h = (IF j < k THEN j ELSE j + 1)
    <3>1. j \in 1..n /\ j + 1 \in 1..n
      BY <1>3
    <3> QED BY <3>1
  <2>2. u[j] = outbox[h]
    BY <1>3, <2>1
  <2>3. outbox[h] \in Entries
    BY <1>2
  <2> QED BY <2>1, <2>2, <2>3
<1>5. CASE outbox[k].what = "create"
  <2>1. PICK f : f = [j \in 1..(n - 1) |-> Resolved(u[j], a)]
    OBVIOUS
  <2>2. outbox' = f
    BY <1>1, <1>2, <1>5, <2>1
  <2>3. n - 1 \in Nat /\ \A j \in 1..(n - 1) : u[j] \in Entries
    BY <1>2, <1>3
  <2>4. f \in Seq(Entries) /\ Len(f) = n - 1 /\ \A j \in 1..(n - 1) : f[j] = Resolved(u[j], a)
    <3>1. \A j \in 1..(n - 1) : Resolved(u[j], a) \in Entries
      BY <2>3, ResolvedRead
    <3> QED BY <2>1, <2>3, <3>1
  <2>5. ASSUME NEW j \in 1..(n - 1)
        PROVE  \E h \in 1..n :
                 /\ h = IF j < k THEN j ELSE j + 1
                 /\ f[j].about = outbox[h].about /\ f[j].what = outbox[h].what
                 /\ f[j].value = outbox[h].value /\ f[j].on = outbox[h].on
                 /\ f[j].ref = "local" =>
                      outbox[h].ref = "local" /\ ~(outbox[k].what = "create" /\ outbox[h].about = a)
    <3>1. PICK h \in 1..n : h = (IF j < k THEN j ELSE j + 1) /\ u[j] = outbox[h]
                            /\ outbox[h] \in Entries
      BY <1>4
    <3>2. f[j] = Resolved(outbox[h], a)
      BY <2>4, <3>1
    <3> QED BY <3>1, <3>2, ResolvedRead
  <2>6. Left(outbox, f, k)
    BY ONLY <1>2, <2>4, <2>5 DEF Left
  <2> QED BY <1>1, <2>2, <2>6
<1>6. CASE outbox[k].what # "create"
  <2>1. outbox' = u
    BY <1>1, <1>2, <1>6
  <2>2. Left(outbox, u, k)
    BY <1>2, <1>3, <1>4, <1>6 DEF Left
  <2> QED BY <1>1, <1>6, <2>1, <2>2
<1> QED BY <1>5, <1>6

LEMMA DeliverKept ==
  ASSUME JournalInv, Deliver
  PROVE  Journaled'
<1>1. PICK k \in 1..Len(outbox) :
        /\ Left(outbox, outbox', k) /\ outbox[k].ref # "local"
        /\ outbox[k].what = "create" =>
             /\ view' = Remote(view, outbox[k].about)
             /\ parked' = [i \in DOMAIN parked |-> Remote(parked[i], outbox[k].about)]
  BY DeliverRead DEF JournalInv, Journaled
<1>2. PICK n, u : n = Len(outbox) /\ u = outbox'
  OBVIOUS
<1>3. /\ u \in Seq(Entries) /\ Len(u) = n - 1 /\ n \in Nat /\ k \in 1..n
      /\ \A j \in 1..(n - 1) : \E h \in 1..n :
           /\ h = IF j < k THEN j ELSE j + 1
           /\ u[j].about = outbox[h].about /\ u[j].what = outbox[h].what
           /\ u[j].value = outbox[h].value /\ u[j].on = outbox[h].on
           /\ u[j].ref = "local" =>
                /\ outbox[h].ref = "local"
                /\ ~(outbox[k].what = "create" /\ outbox[h].about = outbox[k].about)
  <2>1. n \in Nat
    BY <1>2, LenProperties DEF JournalInv, Journaled
  <2> QED BY <1>1, <1>2, <2>1 DEF Left
<1>4. ASSUME NEW m \in 1..n, m # k
      PROVE  \E j \in 1..(n - 1) : /\ j = IF m < k THEN m ELSE m - 1
                                   /\ u[j].about = outbox[m].about /\ u[j].what = outbox[m].what
  <2>1. PICK j \in 1..(n - 1) : j = (IF m < k THEN m ELSE m - 1)
                                /\ m = IF j < k THEN j ELSE j + 1
    <3>1. CASE m < k
      BY <1>3, <3>1
    <3>2. CASE m > k
      <4>1. m - 1 \in 1..(n - 1) /\ ~(m - 1 < k) /\ (m - 1) + 1 = m /\ ~(m < k)
        BY <1>3, <3>2
      <4> QED BY <4>1
    <3> QED BY <1>3, <1>4, <3>1, <3>2
  <2> QED BY <1>3, <2>1
<1>5. ASSUME NEW i, WaitsIn(outbox, i), ~(outbox[k].what = "create" /\ outbox[k].about = i)
      PROVE  WaitsIn(u, i)
  <2>1. PICK m \in 1..n : outbox[m].about = i /\ outbox[m].what = "create"
    BY <1>2, <1>5 DEF WaitsIn
  <2>2. PICK j \in 1..(n - 1) : u[j].about = i /\ u[j].what = "create"
    BY <1>4, <1>5, <2>1
  <2> QED BY <1>3, <2>2 DEF WaitsIn
<1>6. Follows(u)
  <2> SUFFICES ASSUME NEW j \in 1..(n - 1), u[j].ref = "local", u[j].on # None
               PROVE  \E g \in 1..(j - 1) : u[g].about = u[j].about /\ u[g].what = "create"
    BY <1>3 DEF Follows
  <2>1. PICK h \in 1..n :
          /\ h = IF j < k THEN j ELSE j + 1
          /\ u[j].about = outbox[h].about /\ u[j].on = outbox[h].on
          /\ outbox[h].ref = "local"
          /\ ~(outbox[k].what = "create" /\ outbox[h].about = outbox[k].about)
    BY <1>3
  <2>2. PICK m \in 1..(h - 1) : outbox[m].about = outbox[h].about /\ outbox[m].what = "create"
    BY <1>2, <2>1 DEF JournalInv, Journaled, Follows
  <2>3. m # k /\ m \in 1..n
    BY <1>3, <2>1, <2>2
  <2>4. PICK g \in 1..(n - 1) : /\ g = IF m < k THEN m ELSE m - 1
                                /\ u[g].about = outbox[m].about /\ u[g].what = outbox[m].what
    BY <1>4, <2>3
  <2>5. g \in 1..(j - 1)
    BY <1>3, <2>1, <2>3, <2>4
  <2> QED BY <2>1, <2>2, <2>4, <2>5
<1>7. Stays /\ Fixed /\ life' = life /\ link' = link /\ ledger' = ledger
  BY DeliverKeeps, StaysRead DEF JournalInv, Deliver, Fixed
<1>8. /\ Open' = Open /\ Here' = Here /\ Frozen'
      /\ \A i \in Open : Held(i)'.rec = "local" => Held(i).rec = "local"
  BY <1>7, StaysFrozen
<1>9. ASSUME NEW i \in Open, Held(i)'.rec = "local"
      PROVE  ~(outbox[k].what = "create" /\ outbox[k].about = i)
  <2> SUFFICES ASSUME outbox[k].what = "create", outbox[k].about = i PROVE FALSE
    OBVIOUS
  <2>1. view' = Remote(view, i) /\ parked' = [j \in DOMAIN parked |-> Remote(parked[j], i)]
    BY <1>1
  <2>2. /\ view \in Views /\ \A j \in DOMAIN parked : parked[j] \in Views /\ parked[j].id = j
    BY DEF JournalInv, IncidentsInv, Document, Copies, Good
  <2>3. ASSUME NEW v \in Views, v.id = i PROVE Remote(v, i).rec # "local"
    <3>1. [v EXCEPT !.rec = "remote"].rec = "remote"
      BY DEF Views
    <3> QED BY <2>3, <3>1 DEF Remote
  <2>4. ASSUME NEW v \in Views PROVE Remote(v, i).id = v.id /\ (Active(Remote(v, i)) <=> Active(v))
    <3>1. /\ [v EXCEPT !.rec = "remote"].id = v.id
          /\ [v EXCEPT !.rec = "remote"].status = v.status
      BY DEF Views
    <3> QED BY <3>1 DEF Remote, Active
  <2>5. Held(i)' = Remote(Held(i), i) /\ Held(i) \in Views /\ Held(i).id = i
    <3>1. Good(Held(i)) /\ Held(i).id = i
      BY HeldRead DEF JournalInv
    <3>2. (Active(view) /\ view.id = i) \/ i \in DOMAIN parked
      BY DEF Open, OpenIn
    <3> QED BY <2>1, <2>2, <2>4, <3>1, <3>2 DEF Held, CopyIn, Good
  <2> QED BY <1>9, <2>3, <2>5
<1>10. Referred'
  <2>1. ASSUME NEW i \in Open, Held(i)'.rec = "local", Here # None PROVE WaitsIn(u, i)
    BY <1>5, <1>8, <1>9, <2>1 DEF JournalInv, Journaled, Referred
  <2> QED BY <1>2, <1>8, <2>1 DEF Referred
<1>11. ClosedLast(u, life)
  <2>1. ASSUME NEW j \in 1..(n - 1), Closing(u[j]) PROVE life[u[j].about] = "released"
    <3>1. PICK h \in 1..n : u[j].about = outbox[h].about /\ u[j].what = outbox[h].what
                            /\ u[j].value = outbox[h].value
      BY <1>3
    <3>2. Closing(outbox[h])
      BY <2>1, <3>1 DEF Closing
    <3> QED BY <1>2, <3>1, <3>2 DEF JournalInv, Journaled, ClosedLast
  <2> QED BY <1>3, <2>1 DEF ClosedLast
<1>12. Entered'
  BY <1>7, <1>8 DEF JournalInv, Journaled, Entered, AllStatus
<1> QED BY <1>2, <1>3, <1>6, <1>7, <1>8, <1>10, <1>11, <1>12 DEF Journaled

LEMMA RestsKind ==
  ASSUME IncidentsInv,
         Choose \/ ConfirmRelease \/ ReleaseFails \/ Look \/ Restart \/ UNCHANGED vars
  PROVE  Rests
<1>1. ASSUME UNCHANGED <<view, parked, life>> PROVE Stays
  <2>1. Keeps
    BY <1>1, SameCopies DEF Keeps, IncidentsInv
  <2> QED BY <2>1, StaysRead
<1>2. CASE Choose
  <2>1. Stays
    BY <1>2, ChoosesKind, StaysRead
  <2> QED BY <1>2, <2>1 DEF Rests, Fixed, Choose, SelectLine, SelectZone, RemoveStation,
        SaveFailures, Chosen, Quiet
<1>3. CASE ConfirmRelease \/ ReleaseFails
  BY <1>1, <1>3 DEF Rests, Fixed, ConfirmRelease, ReleaseFails, Quiet
<1>4. CASE Look
  <2>1. Stays
    BY <1>4, LooksKind, StaysRead
  <2> QED BY <1>4, <2>1 DEF Rests, Fixed, Look, Focus, FocusNew, Quiet
<1>5. CASE Restart
  <2>1. Stays
    BY <1>5, OthersKeep, StaysRead
  <2> QED BY <1>5, <2>1 DEF Rests, Fixed, Restart, Quiet
<1>6. CASE UNCHANGED vars
  BY <1>1, <1>6 DEF vars, Rests, Fixed, Quiet
<1> QED BY <1>2, <1>3, <1>4, <1>5, <1>6

LEMMA JournalSteps ==
  ASSUME JournalInv, [Next]_vars
  PROVE  \/ Rests \/ Deliver \/ Configure
         \/ \E i \in Open : Works(i) \/ Closes(i)
         \/ \E i \in Ids : Opens(i)
<1>0. IncidentsInv
  BY DEF JournalInv
<1>1. CASE Choose \/ Look \/ Restart \/ UNCHANGED vars
  BY <1>0, <1>1, RestsKind
<1>2. CASE BeginWork
  BY <1>2, OpensKind
<1>3. CASE Continue
  BY <1>3, ContinueWorks
<1>4. CASE Finish
  BY <1>0, <1>4, RestsKind, ClosesKind DEF Finish
<1> QED BY <1>1, <1>2, <1>3, <1>4 DEF Next

LEMMA JournalAlways == Spec => []JournalInv
<1>1. Init => Journaled
  <2> SUFFICES ASSUME Init PROVE Journaled
    OBVIOUS
  <2>1. Open = {}
    BY DefaultsGood DEF Init, Open, OpenIn
  <2>2. outbox = <<>> /\ outbox \in Seq(Entries)
    BY DEF Init
  <2>3. Entered
    BY <2>1 DEF Init, Entered
  <2> QED BY <2>1, <2>2, <2>3 DEF Journaled, Frozen, Referred, Follows, ClosedLast
<1>2. JournalInv /\ [Next]_vars => Journaled'
  <2> SUFFICES ASSUME JournalInv, [Next]_vars PROVE Journaled'
    OBVIOUS
  <2> QED BY JournalSteps, RestsKept, DeliverKept, ConfigureKept, WorksKept, ClosesKept, OpensKept
<1>3. JournalInv <=> IncidentsInv /\ Journaled
  BY DEF JournalInv
<1> QED BY <1>1, <1>2, <1>3, InvAlways, PTL DEF Spec

(* Once the creation of a record has been acknowledged, neither the        *)
(* document nor an update in the journal names the record by its local     *)
(* reference: an update that does comes after a creation that waits        *)
(* (replace_reference, and the order in which perform journals).           *)
THEOREM AlwaysReferencesFollow == Spec => []ReferencesFollow
<1>1. JournalInv => ReferencesFollow
  <2> SUFFICES ASSUME JournalInv PROVE ReferencesFollow
    OBVIOUS
  <2>1. ASSUME NEW v \in Opened, v.rec = "local", v.scope.on # None PROVE Waiting(v.id)
    <3>1. v.id \in Open /\ Held(v.id) = v
      BY ViewHeld DEF JournalInv, IncidentsInv, Document, Copies, Opened, Range
    <3> QED BY <2>1, <3>1 DEF JournalInv, Journaled, Frozen, Referred, WaitsIn, Waiting
  <2>2. Follows(outbox)
    BY DEF JournalInv, Journaled
  <2> QED BY <2>1, <2>2 DEF ReferencesFollow, Follows
<1> QED BY <1>1, JournalAlways, PTL

(* The system of record sees each incident's work order created once and   *)
(* first, written to while the incident is open, and closed by its release *)
(* and not before, whatever is parked, fetched, delivered or deduplicated  *)
(* in between.                                                             *)
THEOREM AlwaysLedgerKept == Spec => []LedgerKept
<1>1. JournalInv => LedgerKept
  <2> SUFFICES ASSUME JournalInv PROVE LedgerKept
    OBVIOUS
  <2>1. /\ ledger \in [Ids -> {"none", "opened", "closed"}]
        /\ \A i \in Open : ledger[i] = IF link = Local THEN "none" ELSE "opened"
        /\ \A i \in Ids : life[i] = "released" /\ AllStatus => ledger[i] # "opened"
    BY DEF JournalInv, Journaled, Entered
  <2>2. ASSUME NEW v \in Opened, v.scope.on # None PROVE ledger[v.id] = "opened"
    <3>1. v.id \in Open /\ Held(v.id) = v
      BY ViewHeld DEF JournalInv, IncidentsInv, Document, Copies, Opened, Range
    <3>2. Here # None
      BY <2>2, <3>1 DEF JournalInv, Journaled, Frozen
    <3>3. link # Local
      BY <3>2, IncidentsAssumption DEF Here
    <3> QED BY <2>1, <3>1, <3>3
  <2>3. ASSUME NEW i \in Ids, life[i] # "free", \A v \in Opened : v.id # i, ledger[i] # "none",
               \A s \in Systems : "status" \in Caps[s]
        PROVE  ledger[i] = "closed"
    <3>1. i \notin Open
      BY <2>3 DEF JournalInv, IncidentsInv, Document, Copies, Open, OpenIn, Opened, Range
    <3>2. life[i] = "released"
      BY <2>3, <3>1 DEF JournalInv, IncidentsInv, Lived, Open
    <3> QED BY <2>1, <2>3, <3>2 DEF AllStatus
  <2> QED BY <2>1, <2>2, <2>3 DEF LedgerKept
<1> QED BY <1>1, JournalAlways, PTL

(* ------------------------------ the assets ----------------------------- *)
ToldAs(s, a) == IF s = link /\ AssetTracking /\ a \in Occupied THEN "OFFLINE" ELSE "ONLINE"

LEMMA ToldRead ==
  ASSUME NEW w, Unsaid(w), told = [s \in Systems |-> [a \in Assets |-> ToldAs(s, a)]]
  PROVE  Tell(told, w) = told
BY UnsaidTold DEF Tell

LEMMA UnsaidWritten ==
  ASSUME NEW w, Unsaid(w)
  PROVE  Unsaid(Written(w))
<1>1. Unsaid(<<>>)
  BY DEF Unsaid, Said, Range
<1> QED BY <1>1 DEF Written

LEMMA AssetsStay ==
  ASSUME AssetInv, Stays, Fixed, told' = told
  PROVE  AssetInv'
<1>1. Open' = Open /\ AssetTracking' = AssetTracking /\ link' = link
  BY DEF Stays, Fixed, Open, AssetTracking, Supports
<1>2. ASSUME NEW i \in Open
      PROVE  /\ Held(i)'.scope = Held(i).scope
             /\ Held(i).asset = "OFFLINE" => Held(i)'.asset = "OFFLINE"
  BY DEF Stays, Carried, Held
<1>3. Occupied' = Occupied
  BY <1>1, <1>2 DEF Occupied
<1>4. AssetTracking => \A i \in Open' : Held(i)'.asset = "OFFLINE"
  BY <1>1, <1>2 DEF AssetInv
<1> QED BY <1>1, <1>3, <1>4 DEF AssetInv

LEMMA AssetsWork ==
  ASSUME AssetInv, NEW i \in Open, Works(i)
  PROVE  AssetInv'
<1>1. Stays /\ Fixed
  BY DEF Works
<1>2. PICK w : /\ told' = Tell(told, Written(w))
               /\ Unsaid(w) \/ (AssetTracking /\ Held(i).asset # "OFFLINE")
  BY DEF Works, Puts
<1>3. Unsaid(w)
  BY <1>2 DEF AssetInv
<1>4. told' = told
  BY <1>2, <1>3, UnsaidWritten, ToldRead DEF AssetInv, ToldAs
<1> QED BY <1>1, <1>4, AssetsStay

LEMMA AssetsOpen ==
  ASSUME IncidentsInv, AssetInv, NEW i \in Ids, Opens(i)
  PROVE  AssetInv'
<1>1. /\ link' = link /\ AssetTracking' = AssetTracking
      /\ Open' = Open \union {i} /\ i \notin Open
      /\ \A j \in Open : Held(j)' = Held(j)
  BY DEF Opens, Fixed, Open, Held, AssetTracking, Supports
<1>2. PICK v, w : /\ v = Held(i)' /\ (AssetTracking => v.asset = "OFFLINE")
                  /\ told' = Tell(told, Written(w))
                  /\ IF AssetTracking THEN Announced(v, "OFFLINE", w) ELSE Unsaid(w)
  BY DEF Opens, Held, Puts
<1>3. ASSUME NEW a PROVE a \in Occupied' <=> a \in Occupied \/ a \in v.scope.assets
  BY <1>1, <1>2 DEF Occupied
<1>4. AssetTracking => \A j \in Open' : Held(j)'.asset = "OFFLINE"
  BY <1>1, <1>2 DEF AssetInv
<1>5. CASE AssetTracking
  <2>1. link \in Systems /\ link # Local /\ Here = link
    BY <1>5, TrackingHere, IncidentsAssumption DEF Here
  <2>2. told' = [s \in Systems |-> [a \in Assets |->
                   IF s = Here /\ a \in ExternalAssets(v) THEN "OFFLINE" ELSE told[s][a]]]
    BY <1>2, <1>5, <2>1, AnnouncedTold DEF Written
  <2>3. ASSUME NEW a \in Assets
        PROVE  a \in Occupied' <=> a \in Occupied \/ a \in ExternalAssets(v)
    <3>1. \A j \in DOMAIN parked : j \in Open /\ Held(j) = parked[j]
      BY ViewHeld
    <3> QED BY <1>3, <3>1 DEF ExternalAssets, Occupied
  <2>4. \A s \in Systems, a \in Assets :
          told[s][a] = IF s = link /\ AssetTracking /\ a \in Occupied THEN "OFFLINE" ELSE "ONLINE"
    BY DEF AssetInv
  <2>5. told' = [s \in Systems |-> [a \in Assets |->
                   IF s = link /\ AssetTracking /\ a \in Occupied' THEN "OFFLINE" ELSE "ONLINE"]]
    BY <1>5, <2>1, <2>2, <2>3, <2>4
  <2> QED BY <1>1, <1>4, <2>5 DEF AssetInv
<1>6. CASE ~AssetTracking
  <2>1. told' = told
    BY <1>2, <1>6, UnsaidWritten, ToldRead DEF AssetInv, ToldAs
  <2> QED BY <1>1, <1>6, <2>1 DEF AssetInv
<1> QED BY <1>5, <1>6

LEMMA AssetsClose ==
  ASSUME IncidentsInv, AssetInv, NEW i \in Open, Closes(i)
  PROVE  AssetInv'
<1>1. /\ link' = link /\ AssetTracking' = AssetTracking /\ Open' = Open \ {i}
      /\ \A j \in Open \ {i} : Held(j)' = Held(j)
  BY DEF Closes, Fixed, Open, Held, AssetTracking, Supports
<1>2. Open \ {i} = DOMAIN parked /\ \A j \in DOMAIN parked : Held(j) = parked[j]
  <2>1. Active(view) /\ view.id = i
    BY DEF Closes
  <2>2. i \notin DOMAIN parked
    BY <2>1 DEF IncidentsInv, Document, Beside
  <2>3. Open \ {i} = DOMAIN parked
    BY <2>1, <2>2 DEF Open, OpenIn
  <2> QED BY <2>3, ViewHeld
<1>3. PICK v, w : /\ v = Held(i) /\ told' = Tell(told, Written(w))
                  /\ IF AssetTracking /\ v.asset # "ONLINE"
                     THEN Announced(v, "ONLINE", w) ELSE Unsaid(w)
  BY DEF Closes, Puts
<1>4. AssetTracking => \A j \in Open' : Held(j)'.asset = "OFFLINE"
  BY <1>1 DEF AssetInv
<1>5. CASE AssetTracking
  <2>1. link \in Systems /\ link # Local /\ Here = link
    BY <1>5, TrackingHere, IncidentsAssumption DEF Here
  <2>2. v.asset = "OFFLINE"
    BY <1>3, <1>5 DEF AssetInv
  <2>3. told' = [s \in Systems |-> [a \in Assets |->
                   IF s = Here /\ a \in ExternalAssets(v) THEN "ONLINE" ELSE told[s][a]]]
    BY <1>3, <1>5, <2>1, <2>2, AnnouncedTold DEF Written
  <2>4. ASSUME NEW a \in Assets
        PROVE  a \in Occupied' <=> a \in Occupied /\ a \notin ExternalAssets(v)
    <3>1. a \in Occupied' <=> \E j \in DOMAIN parked : a \in parked[j].scope.assets
      BY <1>1, <1>2 DEF Occupied
    <3>2. a \in Occupied <=> a \in v.scope.assets \/ \E j \in DOMAIN parked : a \in parked[j].scope.assets
      BY <1>2, <1>3 DEF Occupied
    <3> QED BY <3>1, <3>2 DEF ExternalAssets
  <2>5. \A s \in Systems, a \in Assets :
          told[s][a] = IF s = link /\ AssetTracking /\ a \in Occupied THEN "OFFLINE" ELSE "ONLINE"
    BY DEF AssetInv
  <2>6. told' = [s \in Systems |-> [a \in Assets |->
                   IF s = link /\ AssetTracking /\ a \in Occupied' THEN "OFFLINE" ELSE "ONLINE"]]
    BY <1>5, <2>1, <2>3, <2>4, <2>5
  <2> QED BY <1>1, <1>4, <2>6 DEF AssetInv
<1>6. CASE ~AssetTracking
  <2>1. told' = told
    BY <1>3, <1>6, UnsaidWritten, ToldRead DEF AssetInv, ToldAs
  <2> QED BY <1>1, <1>6, <2>1 DEF AssetInv
<1> QED BY <1>5, <1>6

(* Nothing is followed while nothing is open, so what is switched then     *)
(* changes nothing that was said.                                          *)
LEMMA AssetsConfigured ==
  ASSUME ~Retrack, AssetInv, Configure
  PROVE  AssetInv'
<1>1. /\ view' = view /\ parked' = parked /\ told' = told
      /\ link' # link => Opened = {}
      /\ tracking' # tracking => Opened = {}
  BY DEF Configure, SaveSettings, Quiet
<1>2. Open' = Open /\ (\A i \in Open : Held(i)' = Held(i)) /\ Occupied' = Occupied
  BY <1>1 DEF Open, Held, Occupied
<1>3. Opened = {} => Open = {}
  BY DEF Opened, Open, OpenIn, Range
<1>4. CASE Open = {}
  BY <1>1, <1>2, <1>4 DEF AssetInv, Occupied
<1>5. CASE Open # {}
  <2>1. link' = link /\ AssetTracking' = AssetTracking
    BY <1>1, <1>3, <1>5 DEF AssetTracking, Supports
  <2> QED BY <1>1, <1>2, <2>1 DEF AssetInv
<1> QED BY <1>4, <1>5

LEMMA AssetsAlways ==
  ASSUME ~Retrack
  PROVE  Spec => []AssetInv
<1>1. Init => AssetInv
  <2> SUFFICES ASSUME Init PROVE AssetInv
    OBVIOUS
  <2>1. Open = {}
    BY DefaultsGood DEF Init, Open, OpenIn
  <2>2. Occupied = {}
    BY <2>1 DEF Occupied
  <2> QED BY <2>1, <2>2 DEF Init, AssetInv
<1>2. JournalInv /\ AssetInv /\ [Next]_vars => AssetInv'
  <2> SUFFICES ASSUME JournalInv, AssetInv, [Next]_vars PROVE AssetInv'
    OBVIOUS
  <2>1. IncidentsInv
    BY DEF JournalInv
  <2>2. CASE Rests
    BY <2>2, AssetsStay DEF Rests, Quiet
  <2>3. CASE Deliver
    <3>1. Stays /\ Fixed /\ told' = told
      BY <2>1, <2>3, DeliverKeeps, StaysRead DEF Deliver, Fixed
    <3> QED BY <3>1, AssetsStay
  <2>4. CASE Configure
    BY <2>4, AssetsConfigured
  <2> QED BY <2>1, <2>2, <2>3, <2>4, JournalSteps, AssetsWork, AssetsOpen, AssetsClose
<1> QED BY <1>1, <1>2, JournalAlways, PTL DEF Spec

(* What the journal has said last about an asset is what the floor says,   *)
(* whatever is parked, fetched and released in whatever order: Offline     *)
(* from the first incident that stops one of its groups until the last of  *)
(* them is released, and only then Online again (sync_asset_status,        *)
(* external_assets), where tracking is not switched under open incidents.  *)
THEOREM AlwaysAssetFollows ==
  ASSUME ~Retrack
  PROVE  Spec => []AssetFollows
<1>1. JournalInv /\ AssetInv => AssetFollows
  <2> SUFFICES ASSUME JournalInv, AssetInv, NEW s \in Systems, NEW a \in Assets
               PROVE  /\ told[s][a] = "OFFLINE" => Holders(s, a) # {}
                      /\ tracking /\ "asset" \in Caps[s] /\ Holders(s, a) # {}
                           => told[s][a] = "OFFLINE"
    BY DEF AssetFollows
  <2>1. told[s][a] = IF s = link /\ AssetTracking /\ a \in Occupied THEN "OFFLINE" ELSE "ONLINE"
    BY DEF AssetInv
  <2>2. ASSUME NEW i \in Open PROVE Held(i) \in Opened /\ Held(i).scope.on = Here
    BY DEF JournalInv, Journaled, Frozen, Open, OpenIn, Held, CopyIn, Opened, Range
  <2>3. ASSUME NEW o \in Opened PROVE o.id \in Open /\ Held(o.id) = o
    BY <2>3, ViewHeld DEF JournalInv, IncidentsInv, Document, Copies, Opened, Range
  <2>4. ASSUME told[s][a] = "OFFLINE" PROVE Holders(s, a) # {}
    <3>1. PICK i \in Open : s = link /\ a \in Held(i).scope.assets
      BY <2>1, <2>4 DEF Occupied
    <3>2. Held(i) \in Holders(s, a)
      BY <2>2, <3>1 DEF Holders, Here
    <3> QED BY <3>2
  <2>5. ASSUME tracking, "asset" \in Caps[s], NEW o \in Holders(s, a)
        PROVE  told[s][a] = "OFFLINE"
    <3>1. o \in Opened /\ o.scope.on = s /\ a \in o.scope.assets
      BY DEF Holders
    <3>2. a \in Occupied /\ s = Here
      BY <2>2, <2>3, <3>1 DEF Occupied
    <3>3. s = link /\ AssetTracking
      BY <2>5, <3>2, IncidentsAssumption DEF Here, AssetTracking, Supports
    <3> QED BY <2>1, <3>2, <3>3
  <2> QED BY <2>4, <2>5
<1> QED BY <1>1, JournalAlways, AssetsAlways, PTL
=============================================================================
