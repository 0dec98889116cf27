------------------------------- MODULE JobWay -------------------------------
(* A way walked to its goal (quack-nav/src/explore: navigate.rs `travel`,    *)
(* stick.rs `stick_leg`): the journey's, or the exploration's to a frontier. *)
(* One leg is one short move: the stick's, or the pilot's while the stick    *)
(* does not hold the legs.                                                   *)
(*                                                                           *)
(* Geometry and the sensor are free choices at each leg.  A move takes the   *)
(* body one unit on, or less than STALL_M and so nowhere.                    *)
EXTENDS Naturals

CONSTANTS
  WayStalls,    \* STALLS_TURN: 3
  WayTouches,   \* TOUCHES_TURN: 2
  WayRefused,   \* PILOT_REFUSED_TO_STICK: 2
  WayTurns,     \* PILOT_TURNS_TO_STICK: 4
  WayStand,     \* STAND_EVERY_M, in moves
  WayCareful,   \* CAREFUL_STAND_EVERY_M, in moves
  WayRim,       \* RIM_OFF_TRIES: 3
  WayPlans      \* STUCK_MAX: 3

ASSUME WayAssumption ==
  /\ {WayStalls, WayTouches, WayRefused, WayTurns, WayStand, WayCareful} \subseteq Nat \ {0}
  /\ WayRim \in Nat /\ WayPlans \in Nat /\ WayCareful <= WayStand

VARIABLE way

Ways ==
  [journey : BOOLEAN, flies : BOOLEAN,          \* a pilot is loaded
   at : {"going", "arrived", "failed", "ended"},
   lost : BOOLEAN, confirmed : BOOLEAN,         \* lost_since, goal_confirmed
   planless : 0 .. WayPlans,
   placed : BOOLEAN, moved : BOOLEAN,           \* stick_last; the body has moved from it
   stalls : 0 .. WayStalls + 1, touches : 0 .. WayTouches,
   stepped : BOOLEAN,                           \* stick_last_step
   holds : BOOLEAN, refused : 0 .. WayRefused, turns : 0 .. WayTurns,
   rimOffs : 0 .. WayRim,
   since : Nat, untold : Nat,                   \* stick_since_stand; moved since the tail
   pushes : Nat, far : Nat]                     \* steps on end that moved nothing; from the last stand

WayTypeOK == way \in Ways

WayStart(journey, flies) ==
  [journey |-> journey, flies |-> flies, at |-> "going", lost |-> FALSE,
   confirmed |-> FALSE, planless |-> 0, placed |-> FALSE, moved |-> FALSE,
   stalls |-> 0, touches |-> 0, stepped |-> FALSE, holds |-> FALSE,
   refused |-> 0, turns |-> 0, rimOffs |-> 0, since |-> 0, untold |-> 0,
   pushes |-> 0, far |-> 0]

WayInits == {WayStart(journey, flies) : journey \in BOOLEAN, flies \in BOOLEAN}
WayInit == way \in WayInits

-----------------------------------------------------------------------------
(* A move: the body is on, or where it was. *)
WayMoves(w) ==
  {w, [w EXCEPT !.moved = TRUE, !.untold = @ + 1, !.far = @ + 1]}

WayStood(w) == [w EXCEPT !.since = 0, !.far = 0]

(* Mutant: a tail hears of its own leg only. *)
WayTailUntold(w, every) ==
  LET told == [w EXCEPT !.since = IF w.untold > 0 THEN @ + 1 ELSE @, !.untold = 0]
  IN IF told.since >= every THEN WayStood(told) ELSE told

(* `stick_tail`: a stand every so far walked, by odometry. *)
WayTail(w, every) ==
  LET told == [w EXCEPT !.since = @ + w.untold, !.untold = 0]
  IN IF told.since >= every THEN WayStood(told) ELSE told

(* Anything but a forward step of the stick. *)
WayOther(w) == [w EXCEPT !.pushes = 0]

-----------------------------------------------------------------------------
(* `stick_leg`, last stage first.                                            *)

(* The pilot's move: what the shields refuse is a wait, or a turn from the   *)
(* hole the guard saw; a turn or a wait is never refused.                    *)
WayPilotMoves(m, forward) == [m EXCEPT !.refused = 0, !.turns = 0, !.stepped = forward]

WayPilot(w) ==
  LET o == WayOther(w)
  IN {w}                                                     \* no map to read
     \cup {[o EXCEPT !.refused = @ + 1, !.turns = 0]}        \* a step or a back-off
     \cup {WayPilotMoves(m, forward) : m \in WayMoves(o), forward \in BOOLEAN}
     \cup {[o EXCEPT !.refused = 0, !.turns = @ + 1],        \* a turn
           [o EXCEPT !.refused = 0, !.turns = 0]}            \* a wait

(* A step back after a bump, where the map says it is safe. *)
WayBacked(w) == IF w.stalls >= WayStalls THEN WayMoves(w) ELSE {w}

(* The stick's turn in place; a long one ends in a stand. *)
WayTurned(w) ==
  LET turned == {[b EXCEPT !.stalls = 0, !.pushes = 0] : b \in WayBacked(w)}
  IN turned \cup {WayStood(t) : t \in turned}

(* A step; but a hole seen in its lane is turned from. *)
WayFromHole(w) == WayOther(w)

WayStepped(w) ==
  {WayFromHole(w)}
  \cup {[m EXCEPT !.stepped = TRUE, !.pushes = IF m.moved THEN 0 ELSE @ + 1]
          : m \in WayMoves(w)}

(* Mutant: one step more before it turns. *)
WayStickOn(w) ==
  IF w.stalls > WayStalls THEN WayTurned(w) ELSE WayTurned(w) \cup WayStepped(w)

WayStick(w) ==
  IF w.stalls >= WayStalls THEN WayTurned(w) ELSE WayTurned(w) \cup WayStepped(w)

(* Who takes the leg: the stick while it holds the legs (the pilot made no   *)
(* progress), by a booked hole, and once after refusals or turns in a row.   *)
WayTaken(w, holds, byHole) ==
  LET h == [w EXCEPT !.holds = holds]
      tired == h.refused >= WayRefused \/ h.turns >= WayTurns
  IN IF byHole \/ holds THEN WayStick(h)
     ELSE IF tired THEN WayStick([h EXCEPT !.refused = 0, !.turns = 0])
     ELSE WayPilot(h)

WayFlown(w) ==
  IF ~w.flies THEN WayStick(w)
  ELSE UNION {WayTaken(w, holds, byHole) : holds \in BOOLEAN, byHole \in BOOLEAN}

(* A journey's nose against something, after a forward step: a stall, twice. *)
WayTouched(w) ==
  LET none == [w EXCEPT !.touches = 0, !.stepped = FALSE]
  IN {none} \cup
     IF ~w.journey \/ ~w.stepped THEN {}
     ELSE IF w.touches + 1 < WayTouches
     THEN {[w EXCEPT !.touches = @ + 1, !.stepped = FALSE]}
     ELSE {[none EXCEPT !.stalls = WayStalls]}

(* A leg that did not move the body. *)
WayStalled(w) ==
  [w EXCEPT !.stalls = IF w.placed /\ ~w.moved
                       THEN (IF @ > WayStalls THEN @ ELSE @ + 1) ELSE 0,
            !.placed = TRUE, !.moved = FALSE]

WayLegged(w, every) ==
  {WayTail(l, every) : l \in UNION {WayFlown(t) : t \in WayTouched(WayStalled(w))}}

(* `off_the_rim`, beside an unbooked hole while exploring: a few times the   *)
(* leg is the way off it, and ends there; no way off it is a try all the     *)
(* same.                                                                     *)
WayOffRim(w) ==
  LET tried == [w EXCEPT !.rimOffs = @ + 1]
      off == {[m EXCEPT !.placed = FALSE] : m \in WayMoves(WayOther(tried))}
  IN IF w.rimOffs >= WayRim THEN {} ELSE off

WayCarefulLegs(w) ==
  WayOffRim(w)
  \cup WayLegged([w EXCEPT !.rimOffs = 0], WayCareful)                  \* none that near
  \cup WayLegged([w EXCEPT !.rimOffs = IF @ < WayRim THEN @ + 1 ELSE @], WayCareful)

WayLegs(w) == WayLegged(w, WayStand) \cup IF w.journey THEN {} ELSE WayCarefulLegs(w)

-----------------------------------------------------------------------------
(* `travel`: a pass of its loop, on a trusted pose.  The first arrival of a  *)
(* journey is judged again after its stand; no plan is a stand and another   *)
(* try, a few times; an exploration's goal beside a hole, booked or just     *)
(* seen, is refused.                                                         *)
WayArrived(w) ==
  {[w EXCEPT !.at = "arrived", !.confirmed = TRUE]}
  \cup IF w.journey /\ ~w.confirmed THEN {[w EXCEPT !.confirmed = TRUE]} ELSE {}

(* Mutant: it tries for ever. *)
WayPlanlessOn(w) == [w EXCEPT !.planless = @ + 1]

WayPlanless(w) ==
  IF w.planless >= WayPlans THEN [w EXCEPT !.at = "failed"]
                            ELSE [w EXCEPT !.planless = @ + 1]

WayWalks ==
  /\ way.at = "going"
  /\ \E l \in WayLegs([way EXCEPT !.lost = FALSE, !.planless = 0]) :
       way' \in {l} \cup IF way.journey THEN {} ELSE {[l EXCEPT !.at = "failed"]}

WayPass ==
  /\ way.at = "going"
  /\ LET w == [way EXCEPT !.lost = FALSE]
     IN way' \in {WayPlanless(w)} \cup WayArrived(w)
                 \cup IF w.journey THEN {} ELSE {[w EXCEPT !.at = "failed"]}

(* The pose is not trusted: a journey stands and waits, for a while. *)
WayLost ==
  /\ way.at = "going"
  /\ way' \in IF way.journey
              THEN {[way EXCEPT !.lost = TRUE]} \cup
                   IF way.lost THEN {[way EXCEPT !.at = "failed"]} ELSE {}
              ELSE {[way EXCEPT !.at = "failed"]}

(* Stopped, past the deadline, the battery low; and the job's next way, on   *)
(* what the stick kept (what the explorer walks between ends in a stand).    *)
WayEnds == way.at = "going" /\ way' = [way EXCEPT !.at = "ended"]

WayAgain ==
  /\ way.at # "going" /\ ~way.journey
  /\ \E w \in {way, [WayOther(way) EXCEPT !.moved = TRUE, !.untold = 1, !.far = 0]} :
       way' = [w EXCEPT !.at = "going", !.planless = 0]

WayNext == WayWalks \/ WayPass \/ WayLost \/ WayEnds \/ WayAgain

WaySpec == WayInit /\ [][WayNext]_way

-----------------------------------------------------------------------------
(* The stick never pushes on: steps that do not move the body end in a turn, *)
(* whoever walked before them, whatever the nose felt, through ways that     *)
(* follow each other and rims moved off.                                     *)
WayPushesEnd == way.pushes <= WayStalls

(* The mapper gets its stands: the body is never further from the last one   *)
(* than a stand's distance and the moves off a rim, which end without one.   *)
WayStandsNear == way.far < WayStand + WayRim

(* Both: the duck turns from what it pushes, and stands often enough.        *)
WayTrue == WayPushesEnd /\ WayStandsNear
=============================================================================
