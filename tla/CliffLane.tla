----------------------------- MODULE CliffLane ------------------------------
(* The drop sensor's lanes (quack-nav/src/cliff.rs) and the body under them  *)
(* (quack-duck/src: body.rs `run_timed`, gait.rs `Stillness`, lane.rs).  One *)
(* thread takes robotd's states and says whether the body moves; another     *)
(* judges the depth frames by the last state and absorbs them.  What was     *)
(* seen from a stand is of where the body stood: it is forgotten when the    *)
(* body moves.                                                               *)
(*                                                                           *)
(* Time goes by robotd's states; a frame is where-it-was-seen and its age,   *)
(* and of the frames kept the model knows which such there are.              *)
EXTENDS Integers, FiniteSetsExt

CONSTANTS
  CliffMemory,      \* MEMORY, in states: how old what is asked may be
  CliffKeep,        \* KEEP
  CliffSettle,      \* settle_s: how long a body is still said to move
  CliffBodySettle,  \* how long one goes on, its twist gone
  CliffDeadman,     \* robotd's, in states
  CliffMove,        \* the longest timed move
  CliffRows         \* rows of the sensor's grid

(* The body settles in less than the time the states allow it; a twist, and  *)
(* a body that settles, last longer than a state does.                       *)
ASSUME CliffAssumption ==
  /\ {CliffMemory, CliffKeep, CliffMove, CliffRows} \subseteq Nat \ {0}
  /\ {CliffDeadman, CliffSettle, CliffBodySettle} \subseteq Nat \ {0}
  /\ CliffMemory <= CliffKeep /\ CliffBodySettle + 1 < CliffSettle

VARIABLE cliff

CliffShots == [moving : BOOLEAN, here : BOOLEAN, age : 0 .. CliffKeep]

Cliffs ==
  [move : 0 .. CliffMove,                   \* left of the timed move
   twist : 0 .. CliffDeadman + 1,           \* how long its twist is applied yet
   goes : 0 .. CliffBodySettle + 1,         \* how long the body moves on
   up : BOOLEAN, told : BOOLEAN,            \* the body lane; this state's taken
   pose : {"none", "still", "moving"},      \* the last the body lane kept
   since : 0 .. CliffSettle,                \* last_twist_ns
   judging : SUBSET CliffShots,             \* the frame between its pose and its place
   recent : SUBSET CliffShots,
   unseen : 0 .. CliffMemory + 1]           \* since a move its lane missed

CliffTypeOK == cliff \in Cliffs

CliffInit ==
  cliff = [move |-> 0, twist |-> 0, goes |-> 0, up |-> FALSE, told |-> FALSE,
           pose |-> "none", since |-> CliffSettle, judging |-> {}, recent |-> {},
           unseen |-> CliffMemory + 1]

-----------------------------------------------------------------------------
(* A timed move: a command at every tick of it; its guard ends it with a     *)
(* zero, its time or a lost lane with silence, and the deadman after it.     *)
(* The gait takes longer to start than a state does.                         *)
CliffMoves ==
  /\ cliff.move = 0
  /\ \E n \in 1 .. CliffMove :
       cliff' = [cliff EXCEPT !.move = n, !.twist = CliffDeadman + 1]

CliffStops ==
  /\ cliff.move > 0 /\ (cliff.up => cliff.told)
  /\ cliff' \in {[cliff EXCEPT !.move = 0, !.twist = 0], [cliff EXCEPT !.move = 0]}

-----------------------------------------------------------------------------
(* `body_lane`: a state taken.  `Stillness` says a body moves for a while    *)
(* after its twist; and every state of a moving body forgets the stands.     *)
CliffSince(c) ==
  IF c.twist > 0 THEN 0 ELSE IF c.since < CliffSettle THEN c.since + 1 ELSE CliffSettle

(* Mutant: a body stands once its twist is gone. *)
CliffSaidAtOnce(c) == IF c.twist > 0 THEN "moving" ELSE "still"

CliffSaid(c) == IF CliffSince(c) < CliffSettle THEN "moving" ELSE "still"

CliffForgets(c) ==
  IF CliffSaid(c) = "moving" THEN {f \in c.recent : f.moving} ELSE c.recent

CliffBody ==
  /\ cliff.up /\ ~cliff.told
  /\ cliff' = [cliff EXCEPT !.told = TRUE, !.since = CliffSince(cliff),
                            !.pose = CliffSaid(cliff), !.recent = CliffForgets(cliff)]

(* The lane opened anew, or lost: its memory of the twist is its own, and a  *)
(* body that settles is still to it; what it kept stays.                     *)
CliffLaneUp ==
  /\ ~cliff.up
  /\ cliff' = [cliff EXCEPT !.up = TRUE, !.told = FALSE, !.since = CliffSettle,
                            !.unseen = IF cliff.goes > 0 THEN 0 ELSE @]
CliffLaneLost ==
  /\ cliff.up
  /\ cliff' = [cliff EXCEPT !.up = FALSE, !.unseen = IF cliff.goes > 0 THEN 0 ELSE @]

(* `tof_lane`: a frame is judged by the last body pose, with the lock let    *)
(* go, and then absorbed.                                                    *)
CliffJudge ==
  /\ cliff.pose # "none" /\ cliff.judging = {}
  /\ cliff' = [cliff EXCEPT !.judging = {[moving |-> cliff.pose = "moving", here |-> TRUE, age |-> 0]}]

CliffAbsorb ==
  /\ cliff.judging # {}
  /\ cliff' = [cliff EXCEPT !.recent = @ \cup cliff.judging, !.judging = {}]

-----------------------------------------------------------------------------
(* `analyze`, of a column of the grid: what each row's beam met, the first   *)
(* row the nearest.  An edge is no nearer than the last floor below the      *)
(* drop, the floor comes back no farther than the first above.               *)
CliffRow == 1 .. CliffRows

CliffFloors(v, rows) == {r \in rows : v[r] = "floor"}

CliffEdge(v, r) == Max({0} \cup CliffFloors(v, 1 .. r - 1))
CliffBeyond(v, r) == LET rows == CliffFloors(v, r + 1 .. CliffRows)
                     IN IF rows = {} THEN 0 ELSE Min(rows)

(* What beams meet over one hole in the floor, from just past row `near` to  *)
(* before row `far`; the rows of `hidden` see no floor: against something,   *)
(* or not looking down enough.                                               *)
CliffColumn(near, far, hidden) ==
  [r \in CliffRow |-> IF r \in hidden THEN "none"
                     ELSE IF near < r /\ r < far THEN "drop" ELSE "floor"]

-----------------------------------------------------------------------------
(* Time, to the next state: robotd has told this one, and a frame is judged  *)
(* in less.  The body may have moved from where a frame saw.                 *)
CliffAged(shots, moved) ==
  {[f EXCEPT !.age = @ + 1, !.here = @ /\ ~moved] : f \in {g \in shots : g.age < CliffKeep}}

CliffLess(n) == IF n = 0 THEN 0 ELSE n - 1

CliffTick ==
  /\ cliff.up => cliff.told
  /\ cliff.judging = {}
  /\ LET twist == IF cliff.move > 0 THEN CliffDeadman + 1 ELSE CliffLess(cliff.twist)
     IN \E moved \in IF cliff.goes > 0 THEN BOOLEAN ELSE {FALSE} :
          cliff' = [cliff EXCEPT
            !.move = CliffLess(@), !.twist = twist, !.told = FALSE,
            !.goes = IF cliff.twist > 0 THEN CliffBodySettle + 1 ELSE CliffLess(@),
            !.recent = CliffAged(@, moved),
            !.unseen = IF cliff.goes > 0 /\ (~cliff.up \/ @ = 0) THEN 0
                       ELSE IF @ > CliffMemory THEN @ ELSE @ + 1]

CliffNext ==
  \/ CliffMoves \/ CliffStops \/ CliffBody \/ CliffLaneUp \/ CliffLaneLost
  \/ CliffJudge \/ CliffAbsorb \/ CliffTick

CliffSpec == CliffInit /\ [][CliffNext]_cliff

-----------------------------------------------------------------------------
(* What the stands' frames say is of where the body is: once it stands, and  *)
(* its lane says so, no frame from a stand elsewhere is left among those     *)
(* asked - whatever was being judged when it moved - unless it moved while   *)
(* that lane was down, and not long ago.                                     *)
CliffStandsHere ==
  cliff.up /\ cliff.told /\ cliff.goes = 0 /\ cliff.unseen > CliffMemory =>
    \A f \in cliff.recent : ~f.moving /\ f.age <= CliffMemory => f.here

(* A hole lies within what a drop says of it, whatever rows saw nothing: it  *)
(* begins past the edge's nearest place, and ends before the floor beyond.   *)
CliffBrackets ==
  \A near \in 0 .. CliffRows, far \in 1 .. CliffRows + 1, hidden \in SUBSET CliffRow :
    LET v == CliffColumn(near, far, hidden)
    IN \A r \in CliffRow : v[r] = "drop" =>
         CliffEdge(v, r) <= near /\ CliffBeyond(v, r) \notin 1 .. far - 1

CliffTrue == CliffStandsHere /\ CliffBrackets
=============================================================================
