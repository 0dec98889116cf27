------------------------------ MODULE MapLane ------------------------------
(* How the map reaches a client: the worker's publishing (mapd/mod.rs), a    *)
(* `robot.map` subscription of the map socket (mapd/server.rs) and the lane  *)
(* that folds it into a MapStatus (map.rs).  A frame stands for the mapper   *)
(* that drew it, a pose for the mapper that told it.  Host and client are    *)
(* one daemon here (they start and stop together), as quack-navd runs them.  *)
EXTENDS Naturals, Sequences

CONSTANTS
  LaneMappers,    \* bound: mappers ever built
  LaneFrames,     \* bound: frames ever published
  LaneCap         \* what a subscription's queue holds (32 in the code)

ASSUME LaneAssumption ==
  LaneMappers \in Nat /\ LaneFrames \in Nat /\ LaneCap \in Nat

VARIABLES
  shown,  \* the worker: its mapper, whether that has a submap, the last render
  lane    \* the subscription's queue, and the client's latest frame and pose

laneVars == <<shown, lane>>

LaneItems == [kind : {"frame", "pose"}, seq : Nat, mapper : Nat]
LaneNoFrame == [kind |-> "none", seq |-> 0, mapper |-> 0]

LaneTypeOK ==
  /\ shown \in [mapper : Nat, mapped : BOOLEAN, rendered : BOOLEAN, seq : Nat]
  /\ lane \in [on : BOOLEAN, queue : Seq(LaneItems),
               frame : LaneItems \cup {LaneNoFrame}, pose : Nat]

LaneInit ==
  /\ shown = [mapper |-> 1, mapped |-> FALSE, rendered |-> FALSE, seq |-> 0]
  /\ lane = [on |-> FALSE, queue |-> <<>>, frame |-> LaneNoFrame, pose |-> 0]

-----------------------------------------------------------------------------
(* The first submap opens, or the boot resumed a session that has some. *)
LaneMapped ==
  /\ ~shown.mapped
  /\ shown' = [shown EXCEPT !.mapped = TRUE]
  /\ UNCHANGED lane

(* Mutant: the last render outlives the mapper it was of. *)
LaneReplacedRendered(s, mapped) == [s EXCEPT !.mapper = @ + 1, !.mapped = mapped]

(* Wipe, Load, Adopt: another mapper, with or without a map to draw. *)
LaneReplaced(s, mapped) ==
  [s EXCEPT !.mapper = @ + 1, !.mapped = mapped, !.rendered = FALSE]

LaneReplace ==
  /\ shown.mapper < LaneMappers
  /\ \E mapped \in BOOLEAN : shown' = LaneReplaced(shown, mapped)
  /\ UNCHANGED lane

(* `Subscribers::send`: a full queue drops what is sent. *)
LaneSend(item) ==
  lane' = IF Len(lane.queue) < LaneCap THEN [lane EXCEPT !.queue = Append(@, item)]
                                       ELSE lane

(* A frame, with the next seq: the grid of the live map, re-rendered when it *)
(* changed, and every field that moves read off the live mapper.             *)
LaneFrame ==
  /\ lane.on
  /\ shown.mapped
  /\ shown.seq < LaneFrames
  /\ shown' = [shown EXCEPT !.rendered = TRUE, !.seq = @ + 1]
  /\ LaneSend([kind |-> "frame", seq |-> shown.seq + 1, mapper |-> shown.mapper])

(* A pose, with the last frame's seq, while that frame's map is the live one.*)
LanePosed(s) == s.rendered /\ s.seq > 0

LanePose ==
  /\ lane.on
  /\ LanePosed(shown)
  /\ LaneSend([kind |-> "pose", seq |-> shown.seq, mapper |-> shown.mapper])
  /\ UNCHANGED shown

(* Subscribing starts from an empty queue; a lost stream takes its queue     *)
(* with it.  The client keeps what it last knew through both.                *)
LaneOpen ==
  /\ ~lane.on
  /\ lane' = [lane EXCEPT !.on = TRUE]
  /\ UNCHANGED shown

LaneLost ==
  /\ lane.on
  /\ lane' = [lane EXCEPT !.on = FALSE, !.queue = <<>>]
  /\ UNCHANGED shown

(* `absorb` takes every frame, whose pose fields come with it; `absorb_pose` *)
(* a pose only onto the frame whose seq it carries.                          *)
LaneAbsorbed(l, item) ==
  IF item.kind = "frame" THEN [l EXCEPT !.frame = item, !.pose = item.mapper]
  ELSE IF l.frame.seq = item.seq THEN [l EXCEPT !.pose = item.mapper] ELSE l

LaneTake ==
  /\ lane.queue # <<>>
  /\ lane' = LaneAbsorbed([lane EXCEPT !.queue = Tail(@)], Head(lane.queue))
  /\ UNCHANGED shown

LaneNext ==
  \/ LaneMapped \/ LaneReplace \/ LaneFrame \/ LanePose
  \/ LaneOpen \/ LaneLost \/ LaneTake

LaneSpec == LaneInit /\ [][LaneNext]_laneVars

-----------------------------------------------------------------------------
(* A client never reads a pose of one map on the grid of another: the pose   *)
(* it holds was told by the mapper that drew the frame it holds, whatever    *)
(* was wiped, loaded, dropped from a full queue or lost with the stream.     *)
LanePoseOnFrame ==
  lane.frame # LaneNoFrame => lane.pose = lane.frame.mapper
=============================================================================
