------------------------------ MODULE GaitTurn ------------------------------
(* A turn beside a drop (quack-nav/src/explore: gait.rs `spin`, `align`,     *)
(* `off_the_rim`, `back_off`; guarded.rs `guarded_step`).  The gait turns in *)
(* place, or else once it is stepping: the kick that gets it going may go    *)
(* over the edge the turn is for, and so may each blind step back that makes *)
(* room for the kick.                                                        *)
(*                                                                           *)
(* How near the nearest drop is counts in the classes the code tells apart.  *)
(* A move leaves the body anywhere, the sensor sees anything; the map lane   *)
(* keeps its last frame, so that a job's body always has a pose.             *)
EXTENDS Naturals

CONSTANTS
  GaitIters,    \* ALIGN_ITERS: 6
  GaitTries,    \* RIM_OFF_TRIES: 3
  GaitWalk,     \* a leg, in the guard's units of way
  GaitShort     \* BLIND_LEG_MIN_S, in the same

ASSUME GaitAssumption ==
  /\ GaitIters \in Nat \ {0} /\ GaitTries \in Nat
  /\ GaitWalk \in Nat /\ GaitShort \in 1 .. GaitWalk

VARIABLE gait

(* Nearer than TURN_CLEAR_M, back_no_step_m, BACK_NO_DROP_NEAR_M,            *)
(* BACK_NO_DROP_M; and none that near.                                       *)
GaitRim == 0
GaitAtHand == 1
GaitNear == 2
GaitInView == 3
GaitFar == 4

(* How long a step back: none, BACK_SHORT_S, MAKE_ROOM_S, RETREAT_S.         *)
GaitNone == 0
GaitShortest == 1
GaitRoom == 2
GaitRetreat == 3

(* What is known of where the body is: the nearest drop booked, and booked   *)
(* or seen; how long a step back lies on trusted floor, and how long one     *)
(* crosses no booked drop.  What is trusted keeps off the booked drops as    *)
(* far as the paths judged do, and no step back reaches a drop that is far.  *)
GaitPlaces ==
  {p \in [booked : GaitRim .. GaitFar, drop : GaitRim .. GaitFar,
          floor : GaitNone .. GaitRetreat, clear : GaitNone .. GaitRetreat] :
     /\ p.drop <= p.booked /\ p.floor <= p.clear
     /\ p.booked = GaitFar => p.clear = GaitRetreat}

GaitSafe == [booked |-> GaitFar, drop |-> GaitFar, floor |-> GaitRetreat, clear |-> GaitRetreat]

GaitBacks == {"retreat", "pulse", "room", "turning", "step", "off"}

Gaits ==
  [at : {"stood", "align", "spin", "refused", "last", "yaw", "turned", "on"},
   away : BOOLEAN,                       \* in `align`, to step away from a drop
   blind : BOOLEAN,                      \* Job::blind: no guard on floor it knows
   from : GaitPlaces,                    \* `pose` and `nearest_drop` of the turn
   tight : BOOLEAN, stepping : BOOLEAN,  \* the gait is going
   backed : SUBSET GaitBacks,            \* in this turn
   iters : 0 .. GaitIters, tries : 0 .. GaitTries,                    \* rim_offs
   lately : BOOLEAN]                     \* last_back, within BACK_EVERY

GaitTypeOK == gait \in Gaits

GaitStart(blind) ==
  [at |-> "stood", away |-> FALSE, blind |-> blind, from |-> GaitSafe, tight |-> FALSE,
   stepping |-> FALSE, backed |-> {}, iters |-> 0, tries |-> 0, lately |-> FALSE]

GaitInit == gait \in {GaitStart(blind) : blind \in BOOLEAN}

-----------------------------------------------------------------------------
(* `guarded_step`, by what is known of a leg's way; the edge seen in its     *)
(* lane is so far past the margin.                                           *)
GaitWays ==
  [known : BOOLEAN,     \* on trusted floor, off the books' drops
   booked : BOOLEAN, unknown : BOOLEAN, hole : BOOLEAN, thing : BOOLEAN,
   obstacle : BOOLEAN, trusted : BOOLEAN, edge : 0 .. GaitWalk]

(* A leg on floor the duck knows walks blind; a blind journey's does on what *)
(* the map holds as floor.  Never with a hole or a low thing in view, nor on *)
(* a pose that is not trusted.                                               *)
GaitGoesBlind(blind, w) ==
  (w.known \/ (blind /\ ~w.unknown)) /\ ~w.hole /\ ~w.thing /\ w.trusted

(* A guarded journey's leg is cut short of the edge; so is another job's     *)
(* that walks blind, and a blind journey's never.                            *)
GaitCut(w) == IF w.edge >= GaitWalk THEN GaitWalk ELSE IF w.edge >= GaitShort THEN w.edge ELSE 0

GaitBlindLegs(blind, w) ==
  IF w.obstacle THEN {0}
  ELSE IF blind THEN {IF w.edge >= GaitWalk THEN GaitWalk ELSE 0} ELSE {GaitCut(w)}

GaitLegs(blind, w) ==
  IF GaitGoesBlind(blind, w) THEN GaitBlindLegs(blind, w)
  ELSE IF w.booked THEN {0}
  ELSE 0 .. GaitWalk             \* the step's own guard stops it, or refuses

(* The look at the floor ahead that comes first is the sensor's next word,   *)
(* and so in the way.  A kick goes on, or is refused.                        *)
GaitKicked(g) ==
  {leg > 0 : leg \in UNION {GaitLegs(g.blind, w) : w \in GaitWays}}

-----------------------------------------------------------------------------
(* `back_secs_clear`: beside a booked drop only the shortest step back, with *)
(* the whole margin, unless it is on trusted floor.  Else a shorter path, or *)
(* half the margin, may do where the shortest crosses one.                   *)
GaitBackSecs(p) ==
  IF p.clear >= GaitShortest THEN {TRUE}
  ELSE IF p.booked <= GaitInView /\ p.floor < GaitShortest THEN {FALSE} ELSE BOOLEAN

GaitOver(g) ==
  [g EXCEPT !.at = IF g.away THEN "align" ELSE "stood", !.from = GaitSafe,
            !.tight = FALSE, !.stepping = FALSE, !.backed = {}]

(* `turn_in_place`: enough, or it falls short - at once with a drop this     *)
(* near; then `spin` reads where it is.                                      *)
GaitInPlace(g) ==
  {GaitOver(g)}
  \cup UNION {{[g EXCEPT !.at = "spin", !.from = p, !.tight = tight]
                : tight \in IF p.booked = GaitRim THEN {TRUE} ELSE BOOLEAN}
               : p \in GaitPlaces}

(* The kick: half as long in tight quarters.  Refused, or nothing has looked *)
(* ahead: the nearest drop is as the sensor has it now.                      *)
GaitKick ==
  /\ gait.at = "spin"
  /\ \E walked \in GaitKicked(gait), drop \in GaitRim .. gait.from.booked :
       gait' = IF walked THEN [gait EXCEPT !.at = "yaw", !.stepping = TRUE]
               ELSE [gait EXCEPT !.at = "refused", !.from.drop = drop]

GaitDropInView(p) == p.drop <= GaitInView /\ p.floor < GaitRoom

(* Mutant: pulses whatever lies behind. *)
GaitPulsesAnyway(p) == GaitDropInView(p)

(* Backing pulses: a drop not so near, or trusted floor for one. *)
GaitMayPulse(p) ==
  GaitDropInView(p) /\ (p.drop > GaitNear \/ p.floor >= GaitShortest)

(* What makes room for the kick again: the retreat along the trail, pulses,  *)
(* or a short step back where the books and the map say there is floor.      *)
GaitRoomBy(g) ==
  IF ~g.tight \/ g.blind THEN {"none"}
  ELSE IF g.from.drop <= GaitInView /\ g.from.floor >= GaitRetreat THEN {"retreat"}
  ELSE IF GaitMayPulse(g.from) THEN {"pulse"}
  ELSE IF GaitDropInView(g.from) \/ g.from.clear < GaitRoom THEN {"none"}
  ELSE {"room", "none"}                                       \* a wall behind

GaitMakesRoom ==
  /\ gait.at = "refused"
  /\ \E by \in GaitRoomBy(gait) :
       IF by = "none" THEN gait' = [gait EXCEPT !.at = "last"]
       ELSE \E walked \in GaitKicked(gait) :
              gait' = [gait EXCEPT !.at = IF walked THEN "yaw" ELSE "last",
                                   !.backed = @ \cup {by}, !.stepping = walked]

(* Refused again.  A turn by backing, where what lies behind by the pose it  *)
(* has now lets the side it turns to; or one step back, by the pose the turn *)
(* began at, then the yaw; or no turn here.                                  *)
GaitLast ==
  /\ gait.at = "last"
  /\ LET back == IF GaitDropInView(gait.from) THEN {} ELSE GaitBackSecs(gait.from)
     IN \/ /\ gait.tight /\ ~gait.blind /\ ~GaitDropInView(gait.from)
           /\ gait' = [gait EXCEPT !.at = "turned", !.backed = @ \cup {"turning"}]
        \/ back = {} /\ gait' = GaitOver(gait)
        \/ \E steps \in back :
             gait' = [gait EXCEPT !.at = "yaw", !.stepping = steps,
                                  !.backed = IF steps THEN @ \cup {"step"} ELSE @]

(* The yaw alone, to its goal, an edge that came near or SPIN_MAX_S; and the *)
(* stand where a turn ends.                                                  *)
GaitEnds == gait.at \in {"yaw", "turned"} /\ gait' = GaitOver(gait)

-----------------------------------------------------------------------------
(* `align`: measured, a turn or a fine one, measured again, so many times;   *)
(* a fine one that turns too little in place is a kick, the yaw closed on.   *)
GaitAlign ==
  /\ gait.at = "align"
  /\ LET more == [gait EXCEPT !.iters = @ + 1]
         fine == {IF walked THEN more ELSE [gait EXCEPT !.at = "stood"] : walked \in GaitKicked(gait)}
     IN gait' \in {[gait EXCEPT !.at = "on"]}
                   \cup IF gait.iters = GaitIters THEN {[gait EXCEPT !.at = "stood"]}
                        ELSE GaitInPlace(more) \cup {more} \cup fine

(* `turn_away_and_step`: a step on, unless the books put a drop on it.       *)
GaitOn == gait.at = "on" /\ gait' = [gait EXCEPT !.at = "stood"]

GaitAway(g) == [g EXCEPT !.at = "align", !.away = TRUE, !.iters = 0]

(* `off_the_rim`: a rim ahead is turned from; off one behind or beside, if   *)
(* the books allow it; so many times on end.                                 *)
GaitOffTheRim ==
  /\ gait.at = "stood"
  /\ gait' \in {[gait EXCEPT !.tries = 0]}
       \cup IF gait.tries = GaitTries THEN {}
            ELSE LET tried == [gait EXCEPT !.tries = @ + 1] IN {tried, GaitAway(tried)}

(* `back_off`: away from a drop at hand; else a step back, if one is clear.  *)
GaitBackOff(g) ==
  IF g.lately THEN {g}
  ELSE {GaitAway([g EXCEPT !.lately = TRUE])}
       \cup UNION {{IF steps THEN [g EXCEPT !.at = "turned", !.away = FALSE, !.from = p,
                                            !.lately = TRUE, !.backed = {"off"}] ELSE g
                    : steps \in GaitBackSecs(p)} : p \in {q \in GaitPlaces : q.booked > GaitAtHand}}

(* `panorama`, `unseal`, and time.                                           *)
GaitAround == gait.at = "stood" /\ gait' \in GaitInPlace([gait EXCEPT !.away = FALSE])
GaitBacksOff == gait.at = "stood" /\ gait' \in GaitBackOff(gait)
GaitUnseals == gait.at = "stood" /\ gait' \in GaitBackOff([gait EXCEPT !.lately = FALSE])
GaitWaits == gait.lately /\ gait' = [gait EXCEPT !.lately = FALSE]

GaitNext ==
  \/ GaitKick \/ GaitMakesRoom \/ GaitLast \/ GaitEnds \/ GaitAlign \/ GaitOn
  \/ GaitOffTheRim \/ GaitAround \/ GaitBacksOff \/ GaitUnseals \/ GaitWaits

GaitSpec == GaitInit /\ [][GaitNext]_gait

-----------------------------------------------------------------------------
(* Nothing goes back blind beside a drop but over floor the duck knows: a    *)
(* turn with one near makes no such move at all, with one in view it only    *)
(* pulses, unless the floor behind is trusted; a step back that is no turn's *)
(* is never made with one booked at hand.  The kick, its retries and the     *)
(* last resorts each decide for themselves.                                  *)
GaitBacksKnown ==
  LET p == gait.from
      turns == gait.backed \ {"off"}
  IN /\ p.drop <= GaitNear /\ p.floor = GaitNone => turns = {}
     /\ GaitDropInView(p) => turns \subseteq {"pulse"}
     /\ p.booked <= GaitAtHand => gait.backed = turns

(* The yaw alone never starts from a standstill, where it does not turn.     *)
GaitYawSteps == gait.at = "yaw" => gait.stepping

(* Whatever is known of a leg's way, none walks blind past the margin it     *)
(* keeps to an edge seen, and none but a blind journey's on a booked drop.   *)
GaitStopsShort ==
  \A w \in GaitWays, blind \in BOOLEAN : GaitGoesBlind(blind, w) =>
    /\ \A leg \in GaitBlindLegs(blind, w) : leg <= w.edge
    /\ w.booked => blind \/ w.known

GaitStaysOff == GaitBacksKnown /\ GaitYawSteps /\ GaitStopsShort
=============================================================================
