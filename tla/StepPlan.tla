------------------------------ MODULE StepPlan -------------------------------
(* A guarded step (robot.map_step, quack-nav/src/tools.rs `plan_step`): what *)
(* the newest map frame and the drop sensor's frames allow of the leg that   *)
(* is asked for, what they shorten it to and how they steer it; the passage  *)
(* between two boundaries (passage.rs) and the lanes the sensor's frames are *)
(* asked about (cliff.rs).                                                   *)
(*                                                                           *)
(* Lengths in centimetres, times in tenths of a second, yaw in hundredths of *)
(* a radian (a second); the numbers are the code's defaults, a small angle   *)
(* is its tangent, and the steered leg is rolled out in fifths.  A thing is where it is  *)
(* ahead and to the left of the body; a ray of the map is its cells' kinds,  *)
(* the body's own left out.                                                  *)
EXTENDS Integers, Sequences, FiniteSets, SequencesExt

CONSTANTS
  StepWalks,    \* how long a leg may be asked for
  StepYaws,     \* and with what yaw, either way
  StepAheads, StepAsides, \* where things may be, to either side
  StepEdges,    \* how near a hole may begin
  StepRooms,    \* how far off the map's wall ahead may be, in its cells
  StepFrames    \* bound: frames in the sensor's memory

(* A leg's ten seconds, and what is seen within the sensor's three metres.   *)
ASSUME StepAssumption ==
  /\ StepWalks \subseteq 0..100 /\ StepYaws \subseteq 0..100 /\ StepEdges \subseteq Nat
  /\ StepAheads \subseteq Nat /\ StepAsides \subseteq Nat /\ StepRooms \subseteq Nat \ {0}
  /\ \A a \in StepAheads, b \in StepAsides : a * a + b * b < 301 * 301
  /\ StepFrames \in Nat

VARIABLE step
(* world   what is about the body: drops, obstacles, and the map's rays      *)
(* known   whether the pose is tracking and trusted                          *)
(* frames  the sensor's: its age (0: MEMORY, 1: SIDE_MEMORY), whether the    *)
(*         body moved, the head's bearing, what was seen                     *)
(* asked, plan, done  the leg asked for and what became of it                *)

StepCell == 10
StepAbs(n) == IF n < 0 THEN -n ELSE n
StepMin(a, b) == IF a <= b THEN a ELSE b
StepLeast(S) == CHOOSE n \in S : \A m \in S : n <= m
StepClamp(n, m) == IF n > m THEN m ELSE IF n < -m THEN -m ELSE n
StepDiv(a, b) == IF a < 0 THEN -((-a) \div b) ELSE a \div b
StepRoot(n) == CHOOSE k \in 0..300 : k * k <= n /\ n < (k + 1) * (k + 1)

StepSpots == StepAheads \X (StepAsides \union {-n : n \in StepAsides})
StepRange(t) == StepRoot(t.at[1] * t.at[1] + t.at[2] * t.at[2])

------------------------------------------------------------------------------
(* What the sensor's frames say: those of a standing body, young enough.     *)
StepFresh(s) == {k \in DOMAIN s.frames : s.frames[k].age = 0 /\ ~s.frames[k].moving}
StepDrops(s) == UNION {s.frames[k].drops : k \in StepFresh(s)}
StepObstacles(s) == UNION {s.frames[k].obstacles : k \in StepFresh(s)}

(* A heading's cosine and sine, in hundredths: straight on, behind, and      *)
(* where an arc of a second, or a longer one, ends.                          *)
StepHeading(yaw, walk) ==
  LET side == IF yaw < 0 THEN -1 ELSE 1
  IN  IF walk <= 14 THEN <<80, side * 60>> ELSE <<27, side * 96>>

StepInLane(t, heading, half) ==
  /\ t.at[1] * heading[1] + t.at[2] * heading[2] > 0
  /\ StepAbs(t.at[2] * heading[1] - t.at[1] * heading[2]) <= 100 * half

(* The nearest one in the lane, as a set: empty when there is none.          *)
StepNearest(things, heading, half) ==
  LET lane == {t \in things : StepInLane(t, heading, half)}
  IN  IF lane = {} THEN {}
      ELSE {CHOOSE t \in lane : \A o \in lane : StepRange(t) <= StepRange(o)}

(* Off to the side by more than CLIFF_AWAY_RAD. *)
StepBeside(t) == t.at[1] <= 0 \/ 100 * StepAbs(t.at[2]) > 55 * t.at[1]

StepLookedAt(s, back) == \E k \in StepFresh(s) : s.frames[k].head = 0 /\ ~back

------------------------------------------------------------------------------
(* What the map's rays say.                                                  *)
StepClear(ray, max) ==
  LET stops == {k \in DOMAIN ray : ray[k] # "free"}
      first == IF stops = {} THEN Len(ray) + 1 ELSE StepLeast(stops)
      by == IF stops = {} THEN "edge" ELSE ray[first]
  IN  IF StepCell * first > max THEN [free |-> max, by |-> "open"]
      ELSE [free |-> StepCell * first - StepCell \div 2, by |-> by]

(* A side of a passage: its distance, 0 when open. *)
StepWallAt(ray) == LET c == StepClear(ray, 120) IN IF c.by = "wall" THEN c.free ELSE 0
StepSaysNothing(ray) == StepClear(ray, 120).by \in {"unknown", "edge"}
StepNearer(a, b) == IF a = 0 THEN b ELSE IF b = 0 THEN a ELSE StepMin(a, b)
StepElse(a, b) == IF a = 0 THEN b ELSE a

(* What was seen beside the leg, within a whole sweep of the head, in two    *)
(* buckets by how far ahead; nothing on the heading line is a side.          *)
StepSideSeen(s, left, far) ==
  LET seen == UNION {s.frames[k].drops \union s.frames[k].obstacles :
                       k \in {k \in DOMAIN s.frames : ~s.frames[k].moving}}
      sides == {t \in seen : /\ t.at[1] >= -10 /\ t.at[1] <= 40 /\ StepAbs(t.at[2]) >= 5
                             /\ (t.at[2] >= 0) = left /\ (t.at[1] < 15) = ~far}
  IN  IF sides = {} THEN 0 ELSE StepLeast({StepAbs(t.at[2]) : t \in sides})

StepSide(s, left) ==
  LET near == s.world.rays[IF left THEN "left" ELSE "right"]
      ahead == s.world.rays[IF left THEN "leftAhead" ELSE "rightAhead"]
      wall == IF s.known THEN StepWallAt(near) ELSE 0
      on == IF ~s.known THEN 0
            ELSE StepElse(StepWallAt(ahead), IF StepSaysNothing(ahead) THEN wall ELSE 0)
      seen(far) == StepElse(StepSideSeen(s, left, far), StepSideSeen(s, left, ~far))
  IN  [near |-> StepNearer(wall, seen(FALSE)), far |-> StepNearer(on, seen(TRUE))]

------------------------------------------------------------------------------
(* The passage between the two sides, if there are two near enough: its      *)
(* width, the yaw back to its middle and along it, and the room the leg      *)
(* steered so leaves beyond the body and one leg's drift.                    *)
StepBand == 15   \* BODY_HALF_M + LEG_DRIFT_M

StepSkew(d) == StepClamp(StepDiv(100 * d, 30), 120)

(* How far to the left the steered leg is at its k-th fifth. *)
StepBends(yaw, k) == StepDiv(57 * yaw * k * k, 4000)

(* A side the body starts inside the band of is judged by where the leg      *)
(* leaves it, if it never comes nearer and ends farther off.                 *)
StepJudged(start, along) ==
  LET least == StepLeast({along[k] : k \in 1..5})
  IN  IF start >= StepBand THEN least
      ELSE IF least >= start /\ along[5] > start + 3 THEN along[5] ELSE StepMin(least, start)

StepPassage(l, r) ==
  LET width == StepMin(l.near + r.near, l.far + r.far)
      skew == StepDiv(StepSkew(l.far - l.near) - StepSkew(r.far - r.near), 2)
      yaw == StepClamp(StepDiv(40 * (l.near - r.near), width) + StepDiv(60 * skew, 100), 50)
      lefts == [k \in 1..5 |-> l.near + StepDiv(k * (l.far - l.near), 5) - StepBends(yaw, k)]
      rights == [k \in 1..5 |-> r.near + StepDiv(k * (r.far - r.near), 5) + StepBends(yaw, k)]
  IN  IF 0 \in {l.near, l.far, r.near, r.far} \/ width > 120 THEN {}
      ELSE {[width |-> width, yaw |-> yaw,
             spare |-> StepMin(StepJudged(l.near, lefts), StepJudged(r.near, rights)) - StepBand]}

StepPassageHere(s, ask) ==
  IF ask.walk > 0 /\ ask.vx > 0 /\ StepAbs(ask.yaw) < 60
  THEN StepPassage(StepSide(s, TRUE), StepSide(s, FALSE)) ELSE {}

------------------------------------------------------------------------------
(* The plan.                                                                 *)
StepAdvance(ask, walk) ==
  (12 * walk * (100 - (75 * StepMin(StepAbs(ask.yaw), 70)) \div 70)) \div 1000

(* The room a leg keeps from a wall, and on top of that its slack. *)
StepMargin(ask, gap) == IF StepAbs(ask.yaw) >= 60 THEN 10 ELSE IF gap THEN 15 ELSE 18
StepSlack(gap) == IF gap THEN 5 ELSE 10

(* What limits it: the nearer of the mapped wall and what the sensor sees in *)
(* the lane, when the leg would end inside the margin.                       *)
StepLimits(s, ask, walk, gap) ==
  LET back == ask.vx < 0
      seen == {StepRange(o) : o \in StepNearest(StepObstacles(s), IF back THEN <<-100, 0>> ELSE <<100, 0>>,
                                                IF gap THEN 11 ELSE 16)}
      wall == IF s.known THEN {StepClear(s.world.rays[IF back THEN "behind" ELSE "ahead"], 300)} ELSE {}
      needed == StepAdvance(ask, walk) + StepSlack(gap) + StepMargin(ask, gap)
  IN  {n \in seen \union {c.free : c \in {c \in wall : c.by = "wall"}} : n < needed}

StepFits(s, ask, walk, gap) ==
  LET limits == StepLimits(s, ask, walk, gap)
      room == StepLeast(limits) - StepSlack(gap) - StepMargin(ask, gap)
  IN  IF limits = {} THEN walk
      ELSE StepMin(walk, StepDiv(100 * room, StepAdvance(ask, 100)) )

(* The map does not know the floor at the beak, or the pose is not known,    *)
(* and the sensor has not looked that way.                                   *)
StepUnlooked(s, ask) ==
  LET ahead == StepClear(s.world.rays[IF ask.vx < 0 THEN "behind" ELSE "ahead"], 300)
  IN  /\ ~StepLookedAt(s, ask.vx < 0)
      /\ IF s.known THEN ahead.by \in {"unknown", "edge"} /\ ahead.free < 15 ELSE ask.vx > 0

StepArc(ask) == StepAbs(ask.yaw) >= 50

(* An arc that turns away from the drop is how the body leaves it: let       *)
(* through once the edge is past its first stretch, or off to the side.      *)
StepTurnsAwayAnyway(ask, drop, ends) == StepArc(ask) /\ (ask.yaw >= 0) # (drop.at[2] >= 0)

StepTurnsAway(ask, drop, ends) ==
  /\ StepArc(ask) /\ (ask.yaw >= 0) # (drop.at[2] >= 0)
  /\ IF ends THEN StepBeside(drop) ELSE drop.edge >= 12 + 15

StepDropRefuses(s, ask, heading, needed, lane, ends) ==
  \E drop \in StepNearest(StepDrops(s), heading, lane) :
    drop.edge < needed /\ ~StepTurnsAway(ask, drop, ends)

(* The lane of a passage leg the caller asks for, with a wall seen beside.   *)
StepNarrow(s, ask, walk) ==
  /\ ask.passage /\ ~StepArc(ask) /\ walk <= 20
  /\ \E o \in StepObstacles(s) : StepBeside(o) /\ StepAbs(o.at[2]) <= 35 /\ o.at[1] <= 60

(* The leg as the passage steers it, and the stretch it coasts past its end. *)
StepLegRuns(p, walk) ==
  LET fifths == StepMin(5, walk \div 5)
      straight == {<<6 * k, StepBends(p.yaw, k)>> : k \in 0..fifths}
  IN  straight \union {<<6 * fifths + 5 * k, StepBends(p.yaw, fifths) + StepDiv(5 * k * p.yaw * fifths, 200)>> : k \in 1..3}

StepNearLeg(s, p, walk) ==
  \E d \in StepDrops(s), q \in StepLegRuns(p, walk) :
    (d.at[1] - q[1]) * (d.at[1] - q[1]) + (d.at[2] - q[2]) * (d.at[2] - q[2]) < 14 * 14

(* A drop the map cannot show: the sensor's word is final for a forward leg. *)
StepOverDrop(s, ask, walk, passages) ==
  /\ walk > 0 /\ ask.vx > 0
  /\ LET margin == IF ask.passage THEN 12 ELSE 25
         lane == IF StepNarrow(s, ask, walk) THEN 17 ELSE 22
         needed == StepAdvance(ask, walk) + 15 + margin
     IN  IF passages # {} /\ ~StepArc(ask) THEN \E p \in passages : StepNearLeg(s, p, walk)
         ELSE IF StepArc(ask)
         THEN \/ StepDropRefuses(s, ask, <<100, 0>>, 12 + 15 + 10, lane, FALSE)
              \/ StepDropRefuses(s, ask, StepHeading(ask.yaw, walk), needed, lane, TRUE)
         ELSE StepDropRefuses(s, ask, <<100, 0>>, needed, lane, FALSE)

(* A passage steers; else, with a known pose, walls on both sides centre a   *)
(* leg that asks for it, and a wall that is hugged peels the leg off.        *)
StepSteers(s, ask, passages) ==
  LET left == StepClear(s.world.rays["left"], 300)
      right == StepClear(s.world.rays["right"], 300)
      hugs(c) == c.by = "wall" /\ c.free < 20
      both == left.by = "wall" /\ right.by = "wall" /\ left.free + right.free < 120
      off == left.free - right.free
      span == IF left.free + right.free < 30 THEN 30 ELSE left.free + right.free
      bent(add) == StepClamp(ask.yaw + add, 100)
  IN  IF ask.alone THEN [yaw |-> ask.yaw, by |-> "none"]
      ELSE IF passages # {} THEN [yaw |-> (CHOOSE p \in passages : TRUE).yaw, by |-> "passage"]
      ELSE IF ~(ask.walk > 0 /\ ask.vx > 0 /\ s.known) \/ StepAbs(ask.yaw) >= 60 THEN [yaw |-> ask.yaw, by |-> "none"]
      ELSE IF both /\ ask.centre
      THEN IF StepAbs(off) > 5 THEN [yaw |-> bent(StepClamp(StepDiv(50 * off, span), 35)), by |-> "wall"]
           ELSE [yaw |-> ask.yaw, by |-> "none"]
      ELSE IF hugs(left) /\ ~(hugs(right) /\ right.free <= left.free) THEN [yaw |-> bent(-35), by |-> "wall"]
      ELSE IF hugs(right) THEN [yaw |-> bent(35), by |-> "wall"]
      ELSE [yaw |-> ask.yaw, by |-> "none"]

StepNo == [ok |-> FALSE, walk |-> 0, yaw |-> 0, by |-> "none", gap |-> FALSE]

StepPlanned(s, ask) ==
  LET passages == StepPassageHere(s, ask)
      short == IF passages # {} THEN StepMin(ask.walk, 15) ELSE ask.walk
      gap == ask.gap \/ passages # {}
      walks == short > 0 /\ ask.vx # 0
      walk == IF walks THEN StepFits(s, ask, short, gap) ELSE short
      steers == StepSteers(s, ask, passages)
  IN  IF \/ \E p \in passages : p.spare < 0
         \/ walks /\ walk < short /\ walk < 10
         \/ walks /\ StepUnlooked(s, ask)
         \/ StepOverDrop(s, ask, walk, passages)
      THEN StepNo
      ELSE [ok |-> TRUE, walk |-> walk, yaw |-> steers.yaw, by |-> steers.by, gap |-> gap]

------------------------------------------------------------------------------
(* The body on the floor.                                                    *)
StepFlags == {"no", "gap", "passage", "alone", "centre"}

StepAsk(walk, vx, yaw, flag) ==
  [walk |-> walk, vx |-> vx, yaw |-> yaw, gap |-> flag = "gap", passage |-> flag = "passage",
   alone |-> flag = "alone", centre |-> flag = "centre"]

StepAsks ==
  {StepAsk(walk, 30, yaw, flag) : walk \in StepWalks, yaw \in StepYaws \union {-y : y \in StepYaws}, flag \in StepFlags}
    \union {StepAsk(walk, -30, 0, "no") : walk \in StepWalks}

StepThing(p, e) == [at |-> p, edge |-> e]
StepHoles == {t \in {StepThing(p, e) : p \in StepSpots, e \in StepEdges} : t.edge <= StepRange(t)}
StepBoxes == {StepThing(p, 0) : p \in StepSpots}

StepRay(n, kind) == [k \in 1..n |-> IF k = n THEN kind ELSE "free"]

StepRays(ahead, left, right) ==
  [a \in {"ahead", "behind", "left", "leftAhead", "right", "rightAhead"} |->
     CASE a \in {"ahead", "behind"} -> ahead [] a \in {"left", "leftAhead"} -> left [] OTHER -> right]

StepOpen == StepRays(StepRay(9, "wall"), StepRay(9, "wall"), StepRay(8, "wall"))

StepBare == [drops |-> {}, obstacles |-> {}, rays |-> StepOpen]

(* About the body are two holes on open floor, or what the map shows, with a *)
(* hole or a box or neither.                                                 *)
StepWorlds ==
  {[drops |-> {d, e}, obstacles |-> {}, rays |-> StepOpen] : d \in StepHoles, e \in StepHoles}
    \union
  {[drops |-> IF "hole" \in DOMAIN one THEN {one.hole} ELSE {},
    obstacles |-> IF "box" \in DOMAIN one THEN {one.box} ELSE {},
    rays |-> StepRays(ahead, left, right)] :
      one \in {<<>>} \union {[hole |-> d] : d \in StepHoles} \union {[box |-> b] : b \in StepBoxes},
      ahead \in {StepRay(n, kind) : n \in StepRooms, kind \in {"wall", "unknown"}},
      left \in {StepRay(8, "wall"), StepRay(2, "unknown")},
      right \in {StepRay(1, "wall"), StepRay(3, "wall")}}

(* The head looks one way: what is there is seen, by a standing body or one  *)
(* that settles yet.                                                         *)
StepSees(t, head) ==
  IF head = 0 THEN 100 * StepAbs(t.at[2]) <= 42 * t.at[1]
  ELSE t.at[2] * head > 0 /\ 100 * StepAbs(t.at[2]) >= 21 * t.at[1]

StepLooks ==
  /\ ~step.done /\ Len(step.frames) < StepFrames
  /\ \E head \in {-1, 0, 1}, moving \in BOOLEAN :
       step' = [step EXCEPT !.frames = Append(@,
         [age |-> 0, moving |-> moving, head |-> head,
          drops |-> {t \in step.world.drops : StepSees(t, head)},
          obstacles |-> {t \in step.world.obstacles : StepSees(t, head)}])]

StepAges ==
  /\ ~step.done /\ \E k \in DOMAIN step.frames : step.frames[k].age = 0
  /\ step' = [step EXCEPT !.frames = [k \in DOMAIN @ |-> [@[k] EXCEPT !.age = 1]]]

StepAsked ==
  /\ ~step.done
  /\ \E ask \in StepAsks :
       step' = [step EXCEPT !.asked = ask, !.plan = StepPlanned(step, ask), !.done = TRUE]

StepStart(world, known) ==
  [world |-> world, known |-> known, frames |-> <<>>, asked |-> StepAsk(0, 30, 0, "no"), plan |-> StepNo, done |-> FALSE]

StepInit == \E world \in StepWorlds, known \in BOOLEAN : step = StepStart(world, known)

StepNext == StepLooks \/ StepAges \/ StepAsked

StepSpec == StepInit /\ [][StepNext]_step

StepTypeOK ==
  /\ step.known \in BOOLEAN /\ step.asked \in StepAsks \union {StepAsk(0, 30, 0, "no")}
  /\ step.plan \in [ok : BOOLEAN, walk : 0..100, yaw : -100..100, by : {"none", "passage", "wall"}, gap : BOOLEAN]
  /\ Len(step.frames) <= StepFrames
  /\ \A k \in DOMAIN step.frames : step.frames[k].age \in 0..1 /\ step.frames[k].head \in -1..1

------------------------------------------------------------------------------
(* Whatever else was seen, no admitted forward leg covers a place where a    *)
(* fresh look saw no floor, the beak's length on; of an arc, in its first    *)
(* stretch; and one that a passage steers keeps the body's half width off it *)
(* along the whole way it is steered.  Left out are two legs that are not    *)
(* walked as they are judged: one that a wall bends, judged along its line,  *)
(* and one that the caller steers in a passage (`steer: false`), judged as   *)
(* the passage would steer it.                                               *)
StepOffHoles ==
  (step.plan.ok /\ step.asked.vx > 0 /\ step.plan.walk > 0
   /\ step.plan.by # "wall" /\ ~(step.asked.alone /\ step.plan.gap)) =>
    \A d \in StepDrops(step) :
      LET reach == IF StepArc(step.asked) THEN 12 ELSE StepAdvance(step.asked, step.plan.walk)
      IN  IF step.plan.by = "passage" /\ ~StepArc(step.asked)
          THEN \A q \in StepLegRuns(step.plan, step.plan.walk) :
                 (d.at[1] - q[1]) * (d.at[1] - q[1]) + (d.at[2] - q[2]) * (d.at[2] - q[2]) >= 10 * 10
          ELSE d.at[1] > 0 /\ StepAbs(d.at[2]) <= 17 => StepRange(d) >= reach + 15

(* A leg shortened to the floor ahead still moves the body, and ends off the *)
(* mapped wall by its margin; it is never longer than it was asked for.      *)
StepOffWalls ==
  step.plan.ok /\ step.asked.vx # 0 /\ step.plan.walk > 0 =>
    /\ step.plan.walk <= step.asked.walk /\ (step.plan.walk >= 10 \/ step.plan.walk = step.asked.walk)
    /\ step.known =>
         LET c == StepClear(step.world.rays[IF step.asked.vx < 0 THEN "behind" ELSE "ahead"], 300)
         IN  c.by = "wall" => StepAdvance(step.asked, step.plan.walk) + StepMargin(step.asked, step.plan.gap) <= c.free

(* The plan has no favourite side: the mirrored leg in the mirrored world is *)
(* admitted alike, as long, and bent the other way.  Ties aside: a drop on   *)
(* the line counts as on the left, and of two walls hugged as near the left  *)
(* one is.                                                                   *)
StepFlip(t) == [t EXCEPT !.at = <<@[1], -@[2]>>]
StepFlips(things) == {StepFlip(t) : t \in things}
StepOther(a) == CASE a = "left" -> "right" [] a = "right" -> "left" [] a = "leftAhead" -> "rightAhead"
                  [] a = "rightAhead" -> "leftAhead" [] OTHER -> a

StepTurnedRound(world) == [world EXCEPT !.rays = [a \in DOMAIN @ |-> @[StepOther(a)]]]
StepSeenRound(frame) == [frame EXCEPT !.drops = StepFlips(@), !.obstacles = StepFlips(@), !.head = -@]
StepMirrored(s) ==
  [s EXCEPT !.world = StepTurnedRound(@), !.frames = [k \in DOMAIN @ |-> StepSeenRound(@[k])]]

StepNoTie(s) ==
  /\ StepClear(s.world.rays["left"], 300) # StepClear(s.world.rays["right"], 300)
  /\ \A k \in DOMAIN s.frames :
       \A t \in s.frames[k].drops : t.at[2] # 0 /\ \A u \in StepDrops(s) : StepRange(u) = StepRange(t) => u = t

StepEvenHanded ==
  step.plan # StepNo /\ StepNoTie(step) =>
    LET other == StepPlanned(StepMirrored(step), [step.asked EXCEPT !.yaw = -@])
    IN  other = [step.plan EXCEPT !.yaw = -@]

StepTrue == StepOffHoles /\ StepOffWalls /\ StepEvenHanded
=============================================================================
