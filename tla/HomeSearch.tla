---------------------------- MODULE HomeSearch ----------------------------
(* The walk-and-look search for a pose (quack-nav/src/homecoming/search.rs   *)
(* `confirmed_within_or`): a step and a stand, a look, and what the look     *)
(* decides - a leg, a turn, the scan of the horizon, a way out of a corner.  *)
(*                                                                           *)
(* Room is by the source's thresholds: 0 less than the wedge's kick needs,   *)
(* 1 enough for it, 2 for a leg, 3 to go straight on, or more.  Bearings are *)
(* the sectors of a look.  What the sensor shows from where the body is, is  *)
(* a free choice wherever the code looks; a drop seen is ahead of the beak   *)
(* or beside.  The pulses and kicks a turn is made of are not told apart: it *)
(* moves the body or does not.                                               *)
EXTENDS Integers, FiniteSetsExt

CONSTANTS
  SearchSteps,     \* bound: the deadline, in steps
  SearchOld        \* frames of the map before that may still come

ASSUME SearchAssumption == SearchSteps \in Nat \ {0} /\ SearchOld \in Nat

VARIABLE search

SearchSectors == {"left", "ahead", "right"}
SearchUnseen == -1
SearchRooms ==      \* the sides are alike
  {rooms \in [SearchSectors -> {SearchUnseen, 0, 1, 2, 3}] : rooms["left"] >= rooms["right"]}
SearchDrops == {"none", "ahead", "beside"}
KickRoom == 1
LegRoom == 2
StraightRoom == 3

Searches ==
  [at : {"step", "look", "scan", "found", "lost"},
   left : 0 .. SearchSteps,
   frames : 0 .. SearchOld + 2, old : 0 .. SearchOld, trusted : BOOLEAN, ours : BOOLEAN,
   scanned : BOOLEAN, turns : 0 .. 3,
   best : 0 .. 3,                                   \* the freest of the scan
   drop : SearchDrops,                              \* of the step's snapshot
   behind : BOOLEAN,                                \* BEHIND_IS_TRAIL
   boxed : 0 .. 3, there : BOOLEAN,                 \* boxed_at is where the body is
   stuck : 0 .. 3,
   did : {"nothing", "back", "kick", "stuckBack"},  \* the decision's own blind step
   moved : BOOLEAN,                                 \* ... the body had moved since the look
   same : 0 .. 4]                                   \* corners looked at, nothing moved

SearchTypeOK == search \in Searches

SearchFirst(trusted, old) ==
  [at |-> "step", left |-> SearchSteps,
   frames |-> 0, old |-> old, trusted |-> trusted, ours |-> FALSE,
   scanned |-> FALSE, turns |-> 0, best |-> 0, drop |-> "none",
   behind |-> FALSE, boxed |-> 0, there |-> FALSE, stuck |-> 0,
   did |-> "nothing", moved |-> FALSE, same |-> 0]

SearchInit == \E trusted \in BOOLEAN, old \in 0 .. SearchOld : search = SearchFirst(trusted, old)

-----------------------------------------------------------------------------
(* A frame of the map lane: the last of the map before first, then of the    *)
(* map searched on, whose pose the mapper trusts once it has confirmed it.   *)
SearchFrame ==
  /\ search.at \notin {"found", "lost"}
  /\ \E trusted \in BOOLEAN :
       search' = [search EXCEPT !.frames = IF @ = SearchOld + 2 THEN @ ELSE @ + 1,
                                !.old = IF @ = 0 THEN 0 ELSE @ - 1,
                                !.ours = search.old = 0, !.trusted = trusted]

(* Mutant: the first frame after the start vouches already. *)
SearchConfirmedAtOnce(s) == s.frames > 0 /\ s.trusted

(* `confirmed_since`: the frame in flight at the start vouches for nothing.  *)
SearchConfirmed(s) == s.frames > 1 /\ s.trusted

SearchWent(s) == [s EXCEPT !.there = FALSE, !.moved = TRUE]

(* Turning moves the body or does not; where it does not, nothing changed.   *)
SearchTurned(s) == {s, SearchWent(s)}

(* `Instant::now() < deadline && !stop()`, then a step and its stand; where  *)
(* the guard refuses it, the turn away moves the body or does not.           *)
SearchStep ==
  /\ search.at = "step"
  /\ \/ search' = [search EXCEPT !.at = "lost"]
     \/ /\ search.left > 0
        /\ LET s == [search EXCEPT !.left = @ - 1, !.did = "nothing"]
           IN \/ search' \in SearchTurned(s)
              \/ \E went \in SearchTurned(s), behind \in BOOLEAN :
                   search' = [went EXCEPT !.at = IF SearchConfirmed(s) THEN "found" ELSE "look",
                                          !.behind = behind]

-----------------------------------------------------------------------------
SearchLeast(a, b) == IF a < b THEN a ELSE b

(* `look_around`: a bearing is worth its room, up to what is straight, less  *)
(* what it turns; so a sector is not the best below the one ahead, nor       *)
(* without a leg's room beside one that is straight, and its best bearing    *)
(* may have less room than the sector.  What is kept is what is decided on:  *)
(* the bearing's room, whether it takes a turn on the spot, whether the way  *)
(* ahead is straight enough, the room of the freer side, and whether every   *)
(* sector was looked along.                                                  *)
SearchLookAround(rooms) ==
  LET seen == {s \in SearchSectors : rooms[s] # SearchUnseen}
      room(s) == IF s \in seen THEN rooms[s] ELSE 0
      best == {s \in seen :
                 /\ room(s) >= room("ahead")
                 /\ room(s) >= LegRoom \/ \A other \in seen : room(other) < StraightRoom}
      frees(s) == IF room(s) = StraightRoom THEN LegRoom .. StraightRoom ELSE 0 .. room(s)
      look(s, free) == [free |-> free, spot |-> s # "ahead" /\ room("ahead") < LegRoom,
                        straight |-> room("ahead") >= StraightRoom,
                        side |-> room("left") >= KickRoom, looked |-> seen = SearchSectors]
  IN UNION {{look(s, free) : free \in frees(s)} : s \in IF seen = {} THEN {"ahead"} ELSE best}

SearchLooks == UNION {SearchLookAround(rooms) : rooms \in SearchRooms}

-----------------------------------------------------------------------------
(* A way with room: a leg, straight or by a walking turn; without room for   *)
(* its arc a turn on the spot, and once that moved nothing three times with  *)
(* a drop ahead, a step back from it.                                        *)
SearchLegs(s0, look) ==
  LET s == [s0 EXCEPT !.at = "step", !.boxed = 0, !.same = 0]
      turns(went) ==
        LET stuck == IF went = s THEN s.stuck + 1 ELSE 0
            back == stuck >= 3 /\ s.drop = "ahead"
        IN [went EXCEPT !.stuck = IF back THEN 0 ELSE SearchLeast(stuck, 3),
                        !.did = IF back THEN "stuckBack" ELSE "nothing",
                        !.there = @ /\ ~back]
  IN IF ~look.spot THEN {[s EXCEPT !.stuck = 0]} ELSE {turns(went) : went \in SearchTurned(s)}

(* Mutant: a corner the turn did not leave is a corner anew. *)
SearchWedgedNot(s, boxed, side) == FALSE

SearchWedged(s, boxed, side) ==
  boxed >= 3 /\ s.drop = "none" /\ side /\ s.there

(* Boxed in: a turn towards the freer side; the second time running a blind  *)
(* step back first, onto the trail only, and the third, nothing having       *)
(* moved, a blind kick to the side that was looked at and is free.           *)
SearchBoxed(s0, look) ==
  LET boxed == SearchLeast(s0.boxed + 1, 3)
      did == IF SearchWedged(s0, boxed, look.side) THEN "kick"
             ELSE IF boxed >= 2 /\ s0.drop = "none" /\ s0.behind THEN "back"
             ELSE "nothing"
      corner == s0.drop = "none" /\ look.side /\ did # "kick"
      s == [s0 EXCEPT !.at = "step", !.boxed = boxed, !.did = did, !.there = TRUE,
                      !.same = IF ~corner THEN 0 ELSE IF s0.there THEN SearchLeast(@ + 1, 4) ELSE 1]
  IN {[went EXCEPT !.moved = s0.moved] : went \in SearchTurned(s)}

(* A sector not looked along is unknown, not closed: it stands to look.      *)
SearchDecides(s, look) ==
  IF look.free >= LegRoom THEN SearchLegs(s, look)
  ELSE IF look.looked THEN SearchBoxed(s, look)
  ELSE {[s EXCEPT !.at = "step"]}

(* The snapshot of the stand; without a guard, the old ladder of legs.       *)
SearchSees ==
  /\ search.at = "look"
  /\ \/ \E look \in SearchLooks, drop \in SearchDrops :
          LET s == [search EXCEPT !.drop = drop, !.moved = FALSE]
          IN IF search.scanned \/ look.straight
             THEN search' \in SearchDecides(s, look)
             ELSE search' = [s EXCEPT !.scanned = TRUE, !.turns = 0, !.best = look.free, !.at = "scan"]
     \/ search' = [search EXCEPT !.at = "step"]

(* `scan_around`: a quarter turn and a look, three times or until there is   *)
(* room enough or the body does not turn; then straight on to the freest way *)
(* of the horizon, or what a fresh look from there shows.                    *)
SearchScan ==
  /\ search.at = "scan"
  /\ IF SearchConfirmed(search) THEN search' = [search EXCEPT !.at = "found"]
     ELSE \E went \in SearchTurned(search), look \in SearchLooks, enough \in BOOLEAN :
       LET found == [look EXCEPT !.spot = FALSE, !.free = search.best]
       IN IF search.turns < 3
          THEN search' = [went EXCEPT !.best = IF look.free > @ THEN look.free ELSE @,
                                      !.turns = IF went = search \/ (enough /\ look.free = StraightRoom) THEN 3 ELSE @ + 1]
          ELSE search' \in SearchDecides(went, IF look.free < LegRoom /\ search.best >= LegRoom THEN found ELSE look)

SearchNext ==
  \/ SearchFrame \/ SearchStep \/ SearchSees \/ SearchScan

SearchSpec == SearchInit /\ [][SearchNext]_search

-----------------------------------------------------------------------------
(* The pose that ends the search is of the map searched on: the frame in     *)
(* hand at its start, trusted as it may be, is of the map before.            *)
SearchVouched == search.at = "found" => search.ours

(* A blind step the search decides on is taken where it looked: never on the *)
(* snapshot of before a scan, that turned the body round.  (A turn that      *)
(* moved nothing moves nothing.)                                             *)
SearchFresh == search.did # "nothing" => ~search.moved

(* In a corner with floor at one side and no drop, the search does the same  *)
(* nothing twice, and then gets itself out.                                  *)
SearchGetsOut == search.same <= 2

(* The search ends on the map it searched, walks blind only by what it sees  *)
(* from where it is, and does not stay in a corner it could leave.           *)
SearchTrue == SearchVouched /\ SearchFresh /\ SearchGetsOut
=============================================================================
