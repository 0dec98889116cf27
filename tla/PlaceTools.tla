------------------------------ MODULE PlaceTools ------------------------------
(* Teaching a place, asking where one is and walking to one: the registry's  *)
(* anchors (src/quack-nav/src/places.rs) and the tools over them (tools.rs). *)
(* Which map the live one is, PlaceRegistry is about; here the registry has  *)
(* been told, and the frame in hand may still be of the map before.          *)
(*                                                                           *)
(* The house is a line of points.  A map reads a point shifted, each by its  *)
(* own: a pose is a coordinate of the map its frame is of, and `truth`       *)
(* (history) the point of the house it was taken for.                        *)
EXTENDS Integers, Sequences, FiniteSets, SequencesExt, FiniteSetsExt

CONSTANTS
  TeachSpots,     \* places' names
  TeachPoints,    \* the house
  TeachMaps,      \* bound: the maps, numbered as they are started
  TeachShift,     \* how far apart two maps' origins are
  TeachMerge,     \* ANCHOR_MERGE_M, the last distance below it
  TeachRadii,     \* radii that may be asked for
  TeachDefault,   \* DEFAULT_RADIUS_M
  TeachAnchors    \* bound: anchors of a place

(* There is a first point and a first map; lengths are whole numbers.        *)
ASSUME TeachAssumption ==
  /\ TeachPoints \subseteq Int /\ \E h \in TeachPoints : \A x \in TeachPoints : h <= x
  /\ TeachMaps \subseteq Nat \ {0} /\ 1 \in TeachMaps
  /\ TeachShift \in Int /\ {TeachMerge, TeachDefault, TeachAnchors} \subseteq Nat /\ TeachRadii \subseteq Nat

VARIABLE teach
(* live      the live map's lineage (0 none known), `named` saved under a name *)
(* confirmed, awaiting   as the registry has them                            *)
(* since     the frames since the live map was changed, two for all after    *)
(* frame     the map the frame in hand is of (0 none), `trust` its word      *)
(* at        where the duck is, in the house                                 *)
(* saved, begun          the saved maps, the maps started so far             *)
(* thrown    history: searches' maps an adoption put away                    *)
(* places    by name; no anchor, no place                                    *)
(* last      what the last tool answered                                     *)

TeachRead(m, h) == h + TeachShift * m
TeachHouse(m, x) == x - TeachShift * m
TeachNobody == [map |-> 0, anchors |-> <<>>, radius |-> TeachDefault]
TeachSaid(kind) == [kind |-> kind]
TeachGap(x, y) == IF x < y THEN y - x ELSE x - y

(* ------------------------------------------------- the registry's words    *)

(* A look at the lane: a trusted pose of the second frame since, or a later  *)
(* one, confirms the live map (Places::fold, Registry::observe).             *)
TeachFoldAtOnce(t) == IF t.live # 0 /\ t.frame # 0 /\ t.trust = "trusted" THEN [t EXCEPT !.confirmed = TRUE] ELSE t
TeachFold(t) ==
  IF t.live # 0 /\ t.frame # 0 /\ t.trust = "trusted" /\ t.since = 2 THEN [t EXCEPT !.confirmed = TRUE] ELSE t

TeachState(t, p) ==
  IF p.map = t.live THEN IF t.confirmed THEN "usable" ELSE "pending"
  ELSE IF (t.live = 0 \/ t.awaiting) /\ p.map \in t.saved THEN "pending"
  ELSE IF p.map \in t.saved THEN "otherMap" ELSE "stale"

(* can_teach: the live map is known, and is not the boot's search.           *)
TeachMay(t) == t.live # 0 /\ ~(t.awaiting /\ ~t.named)

(* An anchor taught: on the live map it refreshes the first one near, or is  *)
(* added; a place of another map is taught from scratch.                     *)
TeachOn(t, p, a, radius) ==
  LET near == {n \in DOMAIN p.anchors : TeachGap(p.anchors[n].x, a.x) <= TeachMerge}
      wide == IF radius = {} THEN p.radius ELSE CHOOSE r \in radius : TRUE
  IN IF p.anchors = <<>> \/ p.map # t.live THEN [map |-> t.live, anchors |-> <<a>>, radius |-> wide]
     ELSE IF near # {} THEN [p EXCEPT !.anchors = ReplaceAt(@, Min(near), a), !.radius = wide]
     ELSE [p EXCEPT !.anchors = Append(@, a), !.radius = wide]

TeachFar(p, x) == Min({TeachGap(p.anchors[n].x, x) : n \in DOMAIN p.anchors})
TeachUsable(t) == {s \in TeachSpots : t.places[s].anchors # <<>> /\ TeachState(t, t.places[s]) = "usable"}

(* --------------------------------------------- the map, under the tools    *)

TeachLives(t, m, named) ==
  [t EXCEPT !.live = m, !.named = named, !.confirmed = FALSE, !.since = 0, !.last = TeachSaid("none")]

(* A first power-on, or a boot with its homecoming before it, which starts   *)
(* the search's map.                                                         *)
TeachFirst(boots) ==
  [live |-> IF boots THEN 0 ELSE 1, named |-> FALSE, confirmed |-> FALSE, awaiting |-> boots, since |-> 0,
   frame |-> 0, trust |-> "unsure", at |-> Min(TeachPoints), saved |-> IF boots THEN {1} ELSE {},
   begun |-> 1, thrown |-> {}, places |-> [s \in TeachSpots |-> TeachNobody], last |-> TeachSaid("none")]
TeachInit == \E boots \in BOOLEAN : teach = TeachFirst(boots)

TeachLoads(m) ==
  /\ m \in teach.saved /\ m # teach.live /\ (teach.awaiting => teach.live # 0)
  /\ teach' = [TeachLives(teach, m, TRUE) EXCEPT
                 !.thrown = IF teach.awaiting /\ teach.live # 0 THEN @ \cup {teach.live} ELSE @,
                 !.awaiting = FALSE]
TeachStarts ==
  /\ teach.begun + 1 \in TeachMaps /\ (teach.awaiting => teach.live = 0)
  /\ teach' = [TeachLives(teach, teach.begun + 1, FALSE) EXCEPT !.begun = @ + 1]
TeachSettles == teach.awaiting /\ teach.live # 0 /\ teach' = [teach EXCEPT !.awaiting = FALSE]
TeachSaves(over) ==
  /\ ~teach.awaiting /\ over \subseteq teach.saved
  /\ teach' = [teach EXCEPT !.saved = (@ \ over) \cup {teach.live}, !.named = TRUE, !.last = TeachSaid("none")]

(* A frame of the live map, a second later; the duck may have walked.        *)
TeachFrame(trust, h) ==
  teach.live # 0 /\ teach' = [teach EXCEPT !.frame = teach.live, !.trust = trust, !.at = h, !.since = IF @ = 2 THEN 2 ELSE @ + 1,
                         !.last = TeachSaid("none")]

(* --------------------------------------------------------- the tools       *)

TeachTold(t, s, a, radius) ==
  LET p == TeachOn(t, t.places[s], a, radius)
  IN Len(p.anchors) <= TeachAnchors /\ teach' = [t EXCEPT !.places[s] = p, !.last = TeachSaid("taught")]

(* robot.remember_place, where the duck stands, and at a point of the map.   *)
TeachHere(s, radius) ==
  LET t == TeachFold(teach)
  IN /\ t.frame # 0 /\ t.trust = "trusted" /\ TeachMay(t)
     /\ TeachTold(t, s, [x |-> TeachRead(t.frame, t.at), truth |-> t.at, old |-> t.frame # t.live], radius)
TeachThere(s, h) ==
  LET t == TeachFold(teach)
  IN /\ t.frame # 0 /\ TeachMay(t)
     /\ TeachTold(t, s, [x |-> TeachRead(t.frame, h), truth |-> h, old |-> t.frame # t.live], {})

TeachForget(s) ==
  teach.places[s].anchors # <<>> /\ teach' = [teach EXCEPT !.places[s] = TeachNobody, !.last = TeachSaid("forgot")]

(* robot.go_to, by name: its refusals in their order, the first anchor else; *)
(* moved while it rested, the duck is found first.                           *)
TeachGoes(s) ==
  LET t == TeachFold(teach)
      p == t.places[s]
      moved == t.trust = "untrusted"
      answer == IF t.frame = 0 THEN "noMap"
                ELSE IF t.trust # "trusted" /\ ~moved THEN t.trust
                ELSE IF p.anchors = <<>> THEN "noPlace"
                ELSE IF TeachState(t, p) # "usable" THEN TeachState(t, p)
                ELSE IF moved THEN "relocalizing" ELSE "started"
  IN teach' = [t EXCEPT !.last = IF answer # "started" THEN TeachSaid(answer)
                                 ELSE [kind |-> "goes", to |-> TeachHouse(t.frame, Head(p.anchors).x),
                                       anchor |-> Head(p.anchors)]]

(* robot.where_am_i: the nearest usable place, and whether the duck is at it. *)
TeachWhere ==
  LET t == TeachFold(teach)
      here == TeachRead(t.frame, t.at)
  IN /\ t.frame # 0 /\ t.trust = "trusted"
     /\ \E s \in TeachUsable(t) :
          /\ \A o \in TeachUsable(t) : TeachFar(t.places[s], here) <= TeachFar(t.places[o], here)
          /\ teach' = [t EXCEPT !.last = [kind |-> "where", place |-> s,
                                          within |-> TeachFar(t.places[s], here) <= t.places[s].radius]]

TeachNext ==
  \/ \E m \in TeachMaps : TeachLoads(m)
  \/ TeachStarts \/ TeachSettles
  \/ \E over \in SUBSET TeachMaps : Cardinality(over) <= 1 /\ TeachSaves(over)
  \/ \E trust \in {"trusted", "untrusted", "seated", "unsure"}, h \in TeachPoints : TeachFrame(trust, h)
  \/ \E s \in TeachSpots, radius \in {{}} \cup {{r} : r \in TeachRadii} : TeachHere(s, radius)
  \/ \E s \in TeachSpots, h \in TeachPoints : TeachThere(s, h)
  \/ \E s \in TeachSpots : TeachForget(s)
  \/ \E s \in TeachSpots : TeachGoes(s)
  \/ TeachWhere

TeachSpec == TeachInit /\ [][TeachNext]_teach

TeachTypeOK ==
  /\ teach.live \in TeachMaps \cup {0} /\ teach.frame \in TeachMaps \cup {0} /\ teach.since \in 0..2
  /\ {teach.saved, teach.thrown} \subseteq SUBSET TeachMaps /\ teach.at \in TeachPoints
  /\ \A s \in TeachSpots : Len(teach.places[s].anchors) <= TeachAnchors

(* ---------------------------------------------------- the properties       *)

(* A journey to a place heads for the point of the house the place was       *)
(* taught at; being at a place, the duck is near one of its points.  Not so  *)
(* of an anchor taught with a frame of the map before in hand: nothing asks  *)
(* remember_place for a pose confirmed on the live map (places.rs:496).      *)
TeachLeads ==
  (teach.last.kind = "goes" /\ ~teach.last.anchor.old) => teach.last.to = teach.last.anchor.truth
TeachKnowsWhere ==
  (teach.last.kind = "where" /\ teach.last.within) =>
    LET p == teach.places[teach.last.place]
    IN \E n \in DOMAIN p.anchors : p.anchors[n].old \/ TeachGap(p.anchors[n].truth, teach.at) <= p.radius

(* Nothing is taught on a search's map that the adoption throws away.        *)
TeachKeeps == \A s \in TeachSpots : teach.places[s].map \notin teach.thrown

(* What is taught is where it was taught, and stays.                         *)
TeachTrue == TeachLeads /\ TeachKnowsWhere /\ TeachKeeps
=============================================================================
