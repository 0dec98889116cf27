------------------------------ MODULE JobTurn ------------------------------
(* The explorer's turns (quack-nav/src/explore: mod.rs `run`, navigate.rs    *)
(* `travel`, recover.rs, close_look.rs, rim_tour.rs): how a mapping job      *)
(* chooses its next frontier, goes there, gives up on it, gets unstuck, and  *)
(* decides that the house is mapped.                                         *)
(*                                                                           *)
(* A frontier is a big group or a sliver.  What the map shows, what the      *)
(* planner reaches and what the clock makes due are free choices.  What goes *)
(* wrong (a lost pose, a fall, a jump, a map that disagrees, a stand that    *)
(* moves the pose) is drawn from a bound, and so is the map's growth; the    *)
(* slivers the stands re-mint are not.  The job's time budget and battery    *)
(* may end it at any turn, but nothing makes them.                           *)
EXTENDS Naturals, FiniteSets

CONSTANTS
  TurnBigs, TurnSlivers,   \* the frontier groups
  TurnPatience,            \* SLIVER_PATIENCE: 12
  TurnStuckMax,            \* STUCK_MAX: 3
  TurnForgets,             \* GLOBAL_FORGETS_MAX: 3
  TurnLooks,               \* LOOKS_MAX + RIM_LOOKS_MAX
  TurnPanoramas,           \* bound: places that want a panorama
  TurnSame,                \* bound: unseals on one spot within STUCK_GAP_S
  TurnGrowth,              \* bound: times the map grows
  TurnTroubles             \* bound: things that go wrong

TurnSpots == TurnBigs \cup TurnSlivers
TurnNoSpot == "none"
TurnSettle == 2            \* SETTLE_STANDS, DISTRUST_PANORAMA
TurnDistrust == 4          \* DISTRUST_FAIL: 6

ASSUME TurnAssumption ==
  /\ TurnNoSpot \notin TurnSpots /\ TurnBigs \cap TurnSlivers = {}
  /\ {TurnPatience, TurnStuckMax, TurnForgets, TurnLooks, TurnPanoramas,
      TurnSame, TurnGrowth, TurnTroubles} \subseteq Nat

VARIABLES
  turn,    \* the Job, and where in its loops it is
  house    \* the body's pose, and what is left of the house to see

turnVars == <<turn, house>>

TurnTypeOK ==
  /\ turn \in [at : {"turn", "way", "over"}, aim : {"none", "frontier", "anchor", "look"},
               why : {"none", "asked", "budget", "lost", "distrust", "slivers", "done"},
               target : TurnSpots \cup {TurnNoSpot}, visited : SUBSET TurnSpots,
               refused : SUBSET TurnSpots, cleared : BOOLEAN,      \* refused_cleared
               stuck : 0 .. TurnStuckMax, same : 0 .. TurnSame,
               noGo : BOOLEAN, forgets : 0 .. TurnForgets, looks : 0 .. TurnLooks,
               base : BOOLEAN, served : 0 .. TurnPatience + 1,     \* sliver_free_cells, sliver_served
               lost : BOOLEAN, fell : {"no", "down", "up"},
               unsettled : 0 .. TurnSettle, distrust : 0 .. TurnDistrust,
               panoramas : 0 .. TurnPanoramas,
               anchor : BOOLEAN, anchored : BOOLEAN, arrived : BOOLEAN,
               planless : 0 .. TurnStuckMax]
  /\ house \in [trusted : BOOLEAN, seated : BOOLEAN, gone : SUBSET TurnBigs,
                grew : BOOLEAN, growth : 0 .. TurnGrowth, troubles : 0 .. TurnTroubles]

TurnNew ==
  [at |-> "turn", aim |-> "none", why |-> "none", target |-> TurnNoSpot,
   visited |-> {}, refused |-> {}, cleared |-> FALSE, stuck |-> 0, same |-> 0,
   noGo |-> FALSE, forgets |-> 0, looks |-> 0, base |-> FALSE, served |-> 0,
   lost |-> FALSE, fell |-> "no", unsettled |-> 0, distrust |-> 0,
   panoramas |-> 0, anchor |-> FALSE, anchored |-> TRUE, arrived |-> FALSE,
   planless |-> 0]

TurnHouse ==
  [trusted |-> TRUE, seated |-> FALSE, gone |-> {}, grew |-> FALSE,
   growth |-> TurnGrowth, troubles |-> TurnTroubles]

TurnInit == turn = TurnNew /\ house = TurnHouse

-----------------------------------------------------------------------------
(* The house: the pose lost and found, a fall, a map that grows (and may     *)
(* show another big group), a big group seen to its end, a sliver re-minted  *)
(* past the blocks round the old one.  What a way's stands map is shown at   *)
(* the next turn, the first to read it.                                      *)
TurnBigLeft == house.gone # TurnBigs

TurnHurt(w) == [w EXCEPT !.troubles = @ - 1]

HouseLost ==
  /\ house.troubles > 0 /\ house.trusted
  /\ \E seated \in BOOLEAN :
       house' = [TurnHurt(house) EXCEPT !.trusted = FALSE, !.seated = seated]
  /\ UNCHANGED turn

HouseUp == house.seated /\ house' = [house EXCEPT !.seated = FALSE] /\ UNCHANGED turn

HouseFound ==
  /\ ~house.trusted /\ ~house.seated
  /\ house' = [house EXCEPT !.trusted = TRUE]
  /\ UNCHANGED turn

HouseGrows ==
  /\ house.growth > 0
  /\ \E new \in SUBSET house.gone :
       /\ house' = [house EXCEPT !.growth = @ - 1, !.grew = TRUE, !.gone = @ \ new]
       /\ turn' = [turn EXCEPT !.visited = @ \ new, !.refused = @ \ new]

HouseMapped ==
  /\ \E b \in TurnBigs \ house.gone : house' = [house EXCEPT !.gone = @ \cup {b}]
  /\ UNCHANGED turn

HouseMints ==
  /\ \E s \in TurnSlivers \cap (turn.visited \cup turn.refused) :
       turn' = [turn EXCEPT !.visited = @ \ {s}, !.refused = @ \ {s}]
  /\ UNCHANGED house

TurnHouseStep ==
  \/ turn.at # "over" /\ (HouseLost \/ HouseUp \/ HouseFound)
  \/ turn.at = "turn" /\ (HouseGrows \/ HouseMapped \/ HouseMints)

-----------------------------------------------------------------------------
TurnOver(t, why) == [TurnNew EXCEPT !.at = "over", !.why = why]   \* the Job is gone
TurnWay(t, aim) == [t EXCEPT !.at = "way", !.aim = aim, !.planless = 0]

(* `note_fall`, at each turn's and each leg's start. *)
TurnNoted(t, w) ==
  {[t EXCEPT !.fell = f] :
     f \in CASE w.seated -> {"down"}
             [] ~w.seated /\ t.fell = "no" -> {"no"}
             [] ~w.seated /\ t.fell # "no" /\ ~w.trusted -> {"down"}
             [] ~w.seated /\ t.fell = "down" /\ w.trusted -> {"up"}
             [] ~w.seated /\ t.fell = "up" /\ w.trusted -> {"up", "no"}}

(* Mutant: only the target is dropped. *)
TurnRefusedNot(t) == [t EXCEPT !.target = TurnNoSpot, !.anchored = FALSE]

(* The frontier that led here is left alone. *)
TurnRefused(t) ==
  IF t.target = TurnNoSpot THEN t
  ELSE [t EXCEPT !.target = TurnNoSpot, !.refused = @ \cup {t.target}, !.anchored = FALSE]

-----------------------------------------------------------------------------
(* A turn, last stage first; each operator gives the pairs <<job, house>> the *)
(* turn may leave.  A rim or a far wall gets a look from near before the end *)
(* (`rim_look`, `close_look`): a way of its own, as long as looks are left.   *)
TurnLookOr(t, w, why) ==
  {<<TurnOver(t, why), w>>}
  \cup IF t.looks < TurnLooks
       THEN {<<TurnWay([t EXCEPT !.looks = @ + 1], "look"), w>>} ELSE {}

(* `unseal`: counted in `stuck` unless the last one was on this spot a       *)
(* moment ago; on the same spot again and again, the planner keeps off it.   *)
TurnUnsealed(t) ==
  {[TurnRefused(t) EXCEPT !.stuck = @ + 1, !.same = 0, !.noGo = on] : on \in {t.noGo, TRUE}}
  \cup IF t.same < TurnSame
       THEN {[TurnRefused(t) EXCEPT !.same = @ + 1, !.noGo = on] : on \in {t.noGo, TRUE}}
       ELSE {}

(* Nothing to pick.  `cells`: frontier cells are left on the map; `far`:     *)
(* obstacles recorded far away seal them off.                                *)
TurnSealed(t, w) ==
  IF t.refused # {} /\ ~t.cleared
  THEN {<<[t EXCEPT !.refused = {}, !.cleared = TRUE], w>>}
  ELSE UNION {
    CASE cells /\ far /\ t.forgets < TurnForgets -> {<<[t EXCEPT !.forgets = @ + 1], w>>}
      [] cells /\ ~(far /\ t.forgets < TurnForgets) /\ t.noGo -> {<<[t EXCEPT !.noGo = FALSE], w>>}
      [] cells /\ ~(far /\ t.forgets < TurnForgets) /\ ~t.noGo /\ t.stuck < TurnStuckMax ->
           {<<u, w>> : u \in TurnUnsealed(t)}
      [] OTHER -> TurnLookOr(t, w, "done")
    : cells \in BOOLEAN, far \in BOOLEAN}

(* A frontier picked: arrived there (always, after a way that arrived and    *)
(* nothing moved since), or a look that is due, or the way to it.            *)
TurnPicked(t, w, f) ==
  LET p == [t EXCEPT !.target = f, !.arrived = FALSE]
      arrived == <<[p EXCEPT !.visited = @ \cup {f}, !.target = TurnNoSpot,
                             !.anchored = FALSE], w>>
  IN IF t.arrived /\ t.target = f THEN {arrived}
     ELSE {arrived, <<TurnWay(p, "frontier"), w>>}
          \cup IF t.looks < TurnLooks
               THEN {<<TurnWay([p EXCEPT !.looks = @ + 1], "look"), w>>} ELSE {}

(* `frontiers_with`, big ones first, and `pick`: the target while it is      *)
(* there.  The frontier just arrived at is within reach.                     *)
TurnFound(t, w) ==
  LET shown == (TurnSpots \ w.gone) \ (t.visited \cup t.refused)
      Choice(reach) ==
        LET fs == IF reach \cap TurnBigs = {} THEN reach ELSE reach \cap TurnBigs
        IN IF t.target \in fs THEN {t.target} ELSE fs
  IN UNION {IF reach = {} THEN TurnSealed(t, w)
            ELSE UNION {TurnPicked(t, w, f) : f \in Choice(reach)}
            : reach \in {s \in SUBSET shown : t.arrived => {t.target} \cap shown \subseteq s}}

(* The slivers' patience: with no big group left anywhere, the job ends when *)
(* it has served too many and the map stopped growing.                       *)
TurnServed(t, w) ==
  LET n == IF t.served > TurnPatience THEN t.served ELSE t.served + 1
  IN IF w.gone # TurnBigs
     THEN TurnFound([t EXCEPT !.base = FALSE, !.served = 0], w)
     ELSE IF t.base /\ w.grew
     THEN TurnFound([t EXCEPT !.served = 0], [w EXCEPT !.grew = FALSE])
     ELSE IF t.base /\ n > TurnPatience
     THEN TurnLookOr([t EXCEPT !.served = n], w, "slivers")
     ELSE TurnFound([t EXCEPT !.base = TRUE, !.served = n],
                    [w EXCEPT !.grew = @ /\ t.base])

(* Now and then, back to an old place to close a loop: not twice before a    *)
(* frontier is reached or refused (ANCHOR_EVERY_S is more than the way back  *)
(* to it takes).                                                             *)
TurnAnchored(t) == [t EXCEPT !.anchor = FALSE, !.anchored = TRUE, !.arrived = FALSE]

TurnBack(t, w) ==
  LET go == [t EXCEPT !.anchor = TRUE]
      stood == <<TurnAnchored(t), w>>
      tries == IF t.arrived THEN {stood}
               ELSE {stood, <<TurnWay(go, "anchor"), w>>} \cup TurnServed(TurnAnchored(t), w)
  IN IF t.anchor THEN tries
     ELSE TurnServed(t, w)
          \cup IF t.anchored THEN {} ELSE {<<TurnWay(go, "anchor"), w>>}

TurnAround(t, w) ==
  TurnBack(t, w)
  \cup IF t.panoramas < TurnPanoramas
       THEN {<<[t EXCEPT !.panoramas = @ + 1, !.arrived = FALSE], w>>} ELSE {}

(* The map against the sensor, at a stand. *)
TurnAgreed(t, w) ==
  TurnAround(t, w) \cup TurnAround([t EXCEPT !.distrust = 0], w)
  \cup IF w.troubles = 0 THEN {}
       ELSE LET n == t.distrust + 1
            IN IF n >= TurnDistrust THEN {<<TurnOver([t EXCEPT !.distrust = n], "distrust"), TurnHurt(w)>>}
               ELSE IF n = TurnSettle
               THEN {<<[t EXCEPT !.distrust = n + 1, !.unsettled = TurnSettle,
                                 !.arrived = FALSE], TurnHurt(w)>>}
               ELSE TurnAround([t EXCEPT !.distrust = n], TurnHurt(w))

(* Standing until two stands agree. *)
TurnStood(t, w) ==
  {<<[t EXCEPT !.unsettled = @ - 1, !.arrived = FALSE], w>>}
  \cup IF w.troubles > 0 THEN {<<[t EXCEPT !.arrived = FALSE], TurnHurt(w)>>} ELSE {}

(* The map may have moved under the duck: settle before anything else. *)
TurnTrusted(t, w, foundNow) ==
  LET unsettled == IF foundNow THEN [t EXCEPT !.unsettled = TurnSettle] ELSE t
  IN (IF unsettled.unsettled > 0 THEN TurnStood(unsettled, w) ELSE TurnAgreed(unsettled, w))
     \cup IF w.troubles = 0 THEN {}
          ELSE TurnStood([t EXCEPT !.target = TurnNoSpot, !.unsettled = TurnSettle], TurnHurt(w))

(* Nothing but to look around, or to stand: `relocate_step` after a fall.    *)
TurnRelocates(t, w) == <<[t EXCEPT !.lost = TRUE], w>>

(* A pose that is not trusted; one that is stable and fits the map, long     *)
(* enough after no fall, counts as trusted.                                  *)
TurnStep(t, w) ==
  IF w.trusted THEN TurnTrusted([t EXCEPT !.lost = FALSE], w, t.lost)
  ELSE {TurnRelocates(t, w)}
       \cup IF t.lost /\ ~w.seated /\ t.fell = "no" THEN TurnTrusted(t, w, FALSE) ELSE {}

TurnTurn ==
  /\ turn.at = "turn"
  /\ \E t \in TurnNoted(turn, house) :
       \E r \in TurnStep(t, house) : turn' = r[1] /\ house' = r[2]

(* LOST_PATIENCE has gone. *)
TurnGivesUp ==
  /\ turn.at = "turn" /\ ~house.trusted /\ turn.lost
  /\ turn' = TurnOver(turn, "lost")
  /\ UNCHANGED house

(* Stopped, the budget spent, the battery low; a way sees a stop too. *)
TurnEnded ==
  /\ \/ turn.at = "turn" /\ \E why \in {"asked", "budget"} : turn' = TurnOver(turn, why)
     \/ turn.at = "way" /\ turn' = TurnOver(turn, "asked")
  /\ UNCHANGED house

-----------------------------------------------------------------------------
(* The way (`travel`, for the exploration), and what its end means for what  *)
(* it was for.                                                               *)
TurnFailed(t) ==
  LET back == [t EXCEPT !.at = "turn", !.aim = "none", !.arrived = FALSE]
  IN CASE t.aim = "frontier" -> TurnRefused(back)
       [] t.aim = "anchor" -> TurnAnchored(back)
       [] t.aim = "look" -> back

TurnArrived(t) == [t EXCEPT !.at = "turn", !.aim = "none", !.arrived = t.aim # "look"]

(* The deadline (`travel_budget`). *)
TurnLate == turn.at = "way" /\ turn' = TurnFailed(turn) /\ UNCHANGED house

(* One pass of its loop: the pose is not trusted, or the goal is beside a    *)
(* drop or a hole was seen there; or arrived; or no way, a few times, each   *)
(* forgetting the obstacles further around; or a leg.                        *)
TurnGoes ==
  /\ turn.at = "way"
  /\ \E t \in TurnNoted(turn, house) :
       IF ~house.trusted THEN turn' = TurnFailed(t)
       ELSE \/ turn' \in {TurnFailed(t), TurnArrived(t), [t EXCEPT !.planless = 0]}
            \/ turn' = IF t.planless < TurnStuckMax THEN [t EXCEPT !.planless = @ + 1]
                                                    ELSE TurnFailed(t)
  /\ UNCHANGED house

TurnNext == TurnHouseStep \/ TurnTurn \/ TurnGivesUp \/ TurnEnded \/ TurnLate \/ TurnGoes

(* The thread runs its loops, and its clock runs: a deadline passes, and the *)
(* patience with a lost pose.                                                *)
TurnFairness ==
  /\ WF_turnVars(TurnTurn \/ TurnGoes) /\ WF_turnVars(TurnLate) /\ WF_turnVars(TurnGivesUp)

TurnSpec == TurnInit /\ [][TurnNext]_turnVars /\ TurnFairness

-----------------------------------------------------------------------------
(* A mapping job ends by itself: whatever the stands re-mint, once the map   *)
(* stops growing and nothing more goes wrong it says so and stops, without   *)
(* its budget -- unless slivers are re-minted for ever while a big group is  *)
(* left on the map.                                                          *)
TurnFinishes ==
  <>(turn.at = "over") \/ []<><<HouseMints /\ TurnBigLeft>>_turnVars
=============================================================================
