------------------------------- MODULE ScanMap -------------------------------
(* What a still window does to the map, and what the map says of the next:   *)
(* the window's vote (src/maploc/src/accumulator.rs), the ink of its beams   *)
(* and the cached distance field (grid.rs), the search for the pose a window *)
(* was taken at, the valley test, and the check of a candidate the odometry  *)
(* has carried to a later window (relocalize.rs, mapper.rs).                 *)
(*                                                                           *)
(* A square room of cells, numbered row by row as the code's vectors are,    *)
(* its border all wall.  The duck stands at a cell's centre and at a quarter *)
(* turn; a beam goes along one of sixteen directions, four to a quarter.     *)
(* The field and what is scored by it are in centimetres, rounded down; the  *)
(* log-odds are the code's.                                                  *)
EXTENDS Integers, Sequences, FiniteSets, SequencesExt, FiniteSetsExt

CONSTANTS
  ScanSide, ScanCellCm, \* the room's side, in cells, and a cell's
  ScanRooms,            \* the rooms: each the set of its inner walls
  ScanStands, ScanYaws, \* where the duck may stand, and at what quarter turn
  ScanLegs,             \* where somebody walking by may be seen
  ScanMinFrames,        \* AccumulatorConfig.min_window_frames
  ScanVotes,            \* AccumulatorConfig.min_frames
  ScanFar,              \* AccumulatorConfig.max_range_m, squared
  ScanFan,              \* the directions the sensor takes in, of the body's
  ScanMinWindow,        \* MapperConfig.min_window_beams
  ScanPasses,           \* MapperConfig.window_ink_passes
  ScanWindows,          \* bounds the windows inked
  ScanMinBeams,         \* RelocalizeConfig.min_beams_used
  ScanStride,           \* RelocalizeConfig.coarse_xy_stride
  ScanPerYaw, ScanTopK, \* PER_YAW_TOP, TOP_K
  ScanSep,              \* MIN_SEP_M, squared
  ScanRefine,           \* RelocalizeConfig.refine_xy_radius
  ScanShift,            \* VALLEY_SHIFT_M
  ScanKept,             \* VALLEYS_KEPT
  ScanJudged,           \* WatchdogConfig.min_observed_beams
  ScanCores             \* what available_parallelism may answer

ScanCells == 0..(ScanSide * ScanSide - 1)
ScanRow(c) == c \div ScanSide
ScanCol(c) == c % ScanSide
ScanAt(i, j) == i * ScanSide + j
ScanIn(i, j) == i \in 0..(ScanSide - 1) /\ j \in 0..(ScanSide - 1)
ScanBorder == {c \in ScanCells : ScanRow(c) \in {0, ScanSide - 1} \/ ScanCol(c) \in {0, ScanSide - 1}}
ScanPoses == {[i |-> ScanRow(c), j |-> ScanCol(c), yaw |-> y] : c \in ScanStands, y \in ScanYaws}

(* What the code's constants are, in cells and in the grid's fixed point.    *)
ScanHit == 85
ScanMiss == -40
ScanClampLog == 400
ScanSearchCfg == [wall |-> 200, through |-> 300, clamp |-> 15, max |-> 5, unique |-> 6]
ScanJudgeCfg == [wall |-> 150, observed |-> 50, clamp |-> 50, max |-> 25, confirm |-> 10]
ScanMargin == 15

(* A map has cells, the duck stands inside its border and looks along the    *)
(* sixteen directions; a search keeps at least one candidate.                *)
ASSUME ScanAssumption ==
  /\ {ScanSide, ScanPerYaw, ScanTopK, ScanSep} \subseteq Nat \ {0} /\ ScanCores \subseteq Nat \ {0}
  /\ {ScanCellCm, ScanVotes, ScanMinFrames, ScanPasses, ScanRefine, ScanWindows, ScanKept} \subseteq Nat
  /\ ScanVotes <= ScanMinFrames
  /\ ScanRooms \subseteq SUBSET ScanCells /\ ScanStands \subseteq ScanCells \ ScanBorder
  /\ ScanLegs \subseteq ScanCells /\ ScanYaws \subseteq 0..3 /\ ScanFan \subseteq 0..15

VARIABLE scan
(* room    the walls, the border included                                    *)
(* log     the grid's log-odds                                               *)
(* field   the cached distance field, <<>> when none, `thr` its threshold,   *)
(*         `dirty` when the grid has changed under it                        *)
(* inked   the windows inked, `short` where a leg stood in one of them that  *)
(*         had too few frames to vote                                        *)
(* valleys what the valley test refused: pose, tracked pose then, direction  *)
(* last    what was asked last, and the answer                               *)

(* -------------------------------------------------------------- geometry   *)

(* A value worked out once.                                                  *)
ScanFixed(v) == CHOOSE x \in {v} : TRUE

ScanOff == -1
ScanCell(i, j) == IF ScanIn(i, j) THEN ScanAt(i, j) ELSE ScanOff

(* A vector turned by quarters: the columns' axis goes to the rows'.         *)
ScanSpun(v, yaw) ==
  CASE yaw = 0 -> v
    [] yaw = 1 -> [i |-> v.j, j |-> -v.i]
    [] yaw = 2 -> [i |-> -v.i, j |-> -v.j]
    [] OTHER -> [i |-> -v.j, j |-> v.i]

(* The directions a head looks along: four to a quarter.                     *)
ScanDirs == 0..15
ScanDir(d) ==
  ScanSpun(CASE d % 4 = 0 -> [i |-> 0, j |-> 2] [] d % 4 = 1 -> [i |-> 1, j |-> 2]
             [] d % 4 = 2 -> [i |-> 2, j |-> 2] [] OTHER -> [i |-> 2, j |-> 1], d \div 4)
ScanEight == <<[i |-> 0, j |-> 1], [i |-> 1, j |-> 1], [i |-> 1, j |-> 0], [i |-> 1, j |-> -1],
               [i |-> 0, j |-> -1], [i |-> -1, j |-> -1], [i |-> -1, j |-> 0], [i |-> -1, j |-> 1]>>

ScanD2 == ScanFixed([a \in ScanCells |-> [b \in ScanCells |->
  (ScanRow(a) - ScanRow(b)) * (ScanRow(a) - ScanRow(b)) + (ScanCol(a) - ScanCol(b)) * (ScanCol(a) - ScanCol(b))]])

(* The cells of a line as they are walked, its two ends included:            *)
(* Bresenham's walk.                                                         *)
ScanWalk(i0, j0, i1, j1) ==
  LET di == IF i1 >= i0 THEN i1 - i0 ELSE i0 - i1
      dj == IF j1 >= j0 THEN j1 - j0 ELSE j0 - j1
      si == IF i0 < i1 THEN 1 ELSE -1
      sj == IF j0 < j1 THEN 1 ELSE -1
      walk[n \in 0..(di + dj)] ==
        IF n = 0 THEN [i |-> i0, j |-> j0, err |-> di - dj]
        ELSE LET p == walk[n - 1]
                 e2 == 2 * p.err
             IN IF p.i = i1 /\ p.j = j1 THEN p
                ELSE [i |-> IF e2 > -dj THEN p.i + si ELSE p.i,
                      j |-> IF e2 < di THEN p.j + sj ELSE p.j,
                      err |-> p.err - (IF e2 > -dj THEN dj ELSE 0) + (IF e2 < di THEN di ELSE 0)]
  IN [n \in 1..(di + dj) |-> ScanCell(walk[n].i, walk[n].j)]
ScanLines == ScanFixed([a \in ScanCells |-> [b \in ScanCells |->
  {a} \cup ToSet(ScanWalk(ScanRow(a), ScanCol(a), ScanRow(b), ScanCol(b)))]])

(* What a beam from a cell meets first.                                      *)
ScanSights == ScanFixed([c \in ScanCells |-> [d \in ScanDirs |->
  ScanWalk(ScanRow(c), ScanCol(c), ScanRow(c) + ScanSide * ScanDir(d).i, ScanCol(c) + ScanSide * ScanDir(d).j)]])
ScanEnd(stops, c, d) ==
  LET way == ScanSights[c][d] IN way[Min({n \in DOMAIN way : way[n] \in stops})]

(* ------------------------------------------------- the window's vote       *)

ScanNear(a, b) ==
  /\ ScanRow(a) - ScanRow(b) \in {-1, 0, 1}
  /\ ScanCol(a) - ScanCol(b) \in {-1, 0, 1}

(* The composite: the beams, frame by frame, whose end enough distinct       *)
(* frames hit, in its own cell or one beside it; all, in a short window.     *)
(* Of each beam its end, or that it is left out.                             *)
ScanFinish(room, c, legs) ==
  LET frame(m) == (m - 1) \div 16 + 1
      end == ScanFixed([m \in 1..(16 * Len(legs)) |-> ScanEnd(room \cup legs[frame(m)], c, (m - 1) % 16)])
      near == ScanFixed({m \in DOMAIN end : ScanD2[c][end[m]] <= ScanFar})
      voters(e) == {frame(m) : m \in {m \in near : end[m] = e}}
      voted == {e \in {end[m] : m \in near} : Cardinality(voters(e)) >= ScanVotes}
      kept == IF Len(legs) < ScanMinFrames THEN near
              ELSE {m \in near : \E e \in voted : ScanNear(e, end[m])}
  IN ScanFixed([m \in DOMAIN end |-> IF m \in kept THEN end[m] ELSE ScanOff])

(* ----------------------------------------------------------- the ink       *)

ScanBump(v, delta) == Max({-ScanClampLog, Min({ScanClampLog, v + delta})})

(* A beam frees what it crosses and fills where it ends; a cell takes the    *)
(* beams in their order, pass after pass, held to the clamps at each.        *)
ScanRay(c, e, x) == IF x = e THEN ScanHit ELSE IF x \in ScanLines[c][e] THEN ScanMiss ELSE 0
ScanPass(log, c, beams) ==
  LET cell(x) ==
        LET after[n \in 0..Len(beams)] ==
              IF n = 0 THEN log[x]
              ELSE IF beams[n] = ScanOff THEN after[n - 1]
              ELSE ScanBump(after[n - 1], ScanRay(c, beams[n], x))
        IN after[Len(beams)]
  IN [x \in ScanCells |-> cell(x)]
ScanInked(log, c, beams) ==
  LET passed[n \in 0..ScanPasses] ==
        IF n = 0 THEN log ELSE CHOOSE g \in {ScanPass(h, c, beams) : h \in {passed[n - 1]}} : TRUE
  IN passed[ScanPasses]

(* ------------------------------------------------------- the field         *)

ScanInf == 2 * ScanSide * ScanSide     \* more than any distance

(* The one-dimensional transform: the lower envelope of the parabolas the    *)
(* samples carry, kept as their centres and left boundaries, then read off.  *)
ScanMeet(f, q, v) == [num |-> (f[q] + q * q) - (f[v] + v * v), den |-> 2 * (q - v)]
ScanGrown(f, env, q) ==
  LET over(k) == LET s == ScanMeet(f, q, env[k].v) IN k = 1 \/ s.num * env[k].z.den > env[k].z.num * s.den
      keep == Max({0} \cup {k \in DOMAIN env : over(k)})
  IN SubSeq(env, 1, keep)
       \o <<[v |-> q, z |-> IF keep = 0 THEN [num |-> 0, den |-> 1] ELSE ScanMeet(f, q, env[keep].v)]>>
ScanSamples == [0..(ScanSide - 1) -> Nat]
ScanEnvelope[x \in ScanSamples \X (0..ScanSide)] ==
  LET f == x[1]
      n == x[2]
  IN IF n = 0 THEN <<>>
     ELSE IF f[n - 1] = ScanInf THEN ScanEnvelope[<<f, n - 1>>]
     ELSE CHOOSE e \in {ScanGrown(f, env, n - 1) : env \in {ScanEnvelope[<<f, n - 1>>]}} : TRUE
ScanDt1d(f) ==
  LET read(env, q) == LET e == env[Max({k \in DOMAIN env : k = 1 \/ env[k].z.num < q * env[k].z.den})]
                      IN (q - e.v) * (q - e.v) + f[e.v]
  IN CHOOSE d \in {IF env = <<>> THEN f ELSE [q \in 0..(ScanSide - 1) |-> read(env, q)] :
                     env \in {ScanEnvelope[<<f, ScanSide>>]}} : TRUE

ScanCm == ScanFixed([d2 \in 0..(2 * ScanSide * ScanSide) |->
  LET x == ScanCellCm * ScanCellCm * d2
  IN CHOOSE t \in 0..(2 * ScanCellCm * ScanSide) : t * t <= x /\ x < (t + 1) * (t + 1)])

(* The field: along every row, then along every column; with no wall, as     *)
(* far as the grid is long.                                                  *)
ScanRecompute(log, thr) ==
  LET rows == ScanFixed([i \in 0..(ScanSide - 1) |->
                 ScanDt1d(ScanFixed([j \in 0..(ScanSide - 1) |->
                                       IF log[ScanAt(i, j)] > thr THEN 0 ELSE ScanInf]))])
      cols == ScanFixed([j \in 0..(ScanSide - 1) |->
                 ScanDt1d(ScanFixed([i \in 0..(ScanSide - 1) |-> rows[i][j]]))])
  IN IF \A c \in ScanCells : log[c] <= thr THEN [c \in ScanCells |-> ScanCellCm * ScanSide]
     ELSE ScanFixed([c \in ScanCells |-> ScanCm[cols[ScanCol(c)][ScanRow(c)]]])

(* What the grid serves for a threshold: the field it has, unless it is      *)
(* dirty, missing or of another threshold.                                   *)
ScanStaleLoaded(s, thr) == s.field = <<>> \/ s.thr # thr
ScanStale(s, thr) == s.dirty \/ s.field = <<>> \/ s.thr # thr
ScanServed(s, thr) == IF ScanStale(s, thr) THEN ScanRecompute(s.log, thr) ELSE s.field
ScanServe(s, thr) == [s EXCEPT !.field = ScanServed(s, thr), !.thr = thr, !.dirty = FALSE]

(* -------------------------------------------------------- the scoring      *)

(* The probe: a window's beams as the body sees them, the sensor's fan only. *)
ScanProbe(room, p) ==
  LET c == ScanAt(p.i, p.j)
      end(k) == ScanEnd(room, c, (k + 4 * p.yaw) % 16)
  IN ScanFixed([k \in {k \in ScanFan : ScanD2[c][end(k)] <= ScanFar} |->
                  ScanSpun([i |-> ScanRow(end(k)) - p.i, j |-> ScanCol(end(k)) - p.j], (4 - p.yaw) % 4)])
ScanBeams(probe) == Cardinality(DOMAIN probe)
ScanSum(f) ==
  LET sum[n \in 0..16] == IF n = 0 THEN 0 ELSE sum[n - 1] + (IF n - 1 \in DOMAIN f THEN f[n - 1] ELSE 0)
  IN sum[16]

ScanKnownFree(log, c) == log[c] < -50

(* A pose by a probe's ends: off the map, or seen through a wall the end is  *)
(* not beside, a beam costs the clamp.  The middle of a beam of odd length   *)
(* lies in the next cell up.  The mean is over every beam.                   *)
ScanReach(p, off) == LET v == ScanSpun(off, p.yaw) IN ScanCell(p.i + v.i, p.j + v.j)
ScanMiddle(p, off) == LET v == ScanSpun(off, p.yaw) IN ScanCell(p.i + (v.i + 1) \div 2, p.j + (v.j + 1) \div 2)
ScanBeam(log, field, p, off) ==
  LET end == ScanReach(p, off)
      mid == ScanMiddle(p, off)
  IN IF end = ScanOff THEN [r |-> ScanSearchCfg.clamp, n |-> 0]
     ELSE IF mid # ScanOff /\ ~ScanNear(mid, end) /\ log[mid] > ScanSearchCfg.through
          THEN [r |-> ScanSearchCfg.clamp, n |-> 1]
     ELSE [r |-> Min({field[end], ScanSearchCfg.clamp}), n |-> 1]
ScanScore(log, field, p, probe) ==
  LET beam == ScanFixed([k \in DOMAIN probe |-> ScanBeam(log, field, p, probe[k])])
  IN [pose |-> p, sum |-> ScanSum([k \in DOMAIN probe |-> beam[k].r]),
      n |-> Cardinality({k \in DOMAIN probe : beam[k].n = 1})]

(* ---------------------------------------------------------- the search     *)

ScanPose(c, yaw) == [i |-> ScanRow(c), j |-> ScanCol(c), yaw |-> yaw]
ScanApart(p, q) ==
  \/ (p.i - q.i) * (p.i - q.i) + (p.j - q.j) * (p.j - q.j) >= ScanSep
  \/ p.yaw # q.yaw

(* The scored poses of some cells at one yaw that keep enough of the beams.  *)
ScanScored(log, field, probe, cells, yaw) ==
  {x \in {ScanScore(log, field, ScanPose(c, yaw), probe) : c \in {c \in cells : ScanKnownFree(log, c)}} :
     x.n >= ScanMinBeams}

(* Ordered by the sum, then as met: the bins as the threads hand them in,    *)
(* the cells row by row.                                                     *)
ScanKey(x, turn) == (x.sum * 16 + turn) * ScanSide * ScanSide + ScanAt(x.pose.i, x.pose.j)
ScanRanked(S, key) ==
  [n \in 1..Cardinality(S) |-> CHOOSE x \in S : Cardinality({y \in S : key[y] < key[x]}) = n - 1]
ScanTurn(cores, yaw) == (yaw % cores) * 4 + yaw \div cores
ScanFirst(S) == CHOOSE x \in S : \A y \in S : ScanKey(x, 0) <= ScanKey(y, 0)
ScanCoarse(log, field, probe, yaw) ==
  ScanScored(log, field, probe,
             {c \in ScanCells : ScanRow(c) % ScanStride = 0 /\ ScanCol(c) % ScanStride = 0}, yaw)
ScanTop(S) == {x \in S : Cardinality({y \in S : ScanKey(y, 0) < ScanKey(x, 0)}) < ScanPerYaw}

(* The seeds: the best candidates, each apart from those before it.          *)
ScanJoined(list, x) ==
  IF \A n \in DOMAIN list : ScanApart(list[n].pose, x.pose) THEN Append(list, x) ELSE list
ScanSeeds(log, field, probe, cores) ==
  LET found == ScanFixed(UNION {ScanTop(ScanCoarse(log, field, probe, yaw)) : yaw \in 0..3})
      key == [x \in found |-> ScanKey(x, ScanTurn(cores, x.pose.yaw))]
      order == ScanFixed(ScanRanked(found, key))
      seeds[n \in 0..Cardinality(found)] ==
        IF n = 0 THEN <<>>
        ELSE CHOOSE list \in {IF Len(before) < ScanTopK THEN ScanJoined(before, order[n]) ELSE before :
                               before \in {seeds[n - 1]}} : TRUE
  IN seeds[Cardinality(found)]

(* Every seed refined among the cells round it.                              *)
ScanRefined(log, field, probe, seed) ==
  LET around == {c \in ScanCells : ScanRow(c) - seed.i \in -ScanRefine..ScanRefine
                                   /\ ScanCol(c) - seed.j \in -ScanRefine..ScanRefine}
  IN ScanFirst(ScanScored(log, field, probe, around, seed.yaw))

(* The basins: the winner and the refined poses apart from every one listed, *)
(* the best first, the earlier of equals before.                             *)
ScanBasins(best, refined) ==
  LET lists[n \in 0..Len(refined)] ==
        IF n = 0 THEN <<best>>
        ELSE CHOOSE list \in {ScanJoined(before, refined[n]) : before \in {lists[n - 1]}} : TRUE
      list == ScanFixed(lists[Len(refined)])
      order == ScanRanked(DOMAIN list, [n \in DOMAIN list |-> list[n].sum * (ScanTopK + 2) + n])
  IN [n \in DOMAIN order |-> list[order[n]]]

ScanNone == [found |-> FALSE]
ScanAnswer(probe, refined) ==
  LET least == Min({refined[n].sum : n \in DOMAIN refined})
      best == refined[Min({n \in DOMAIN refined : refined[n].sum = least})]
      rivals == {refined[n].sum : n \in {n \in DOMAIN refined : ScanApart(refined[n].pose, best.pose)}}
  IN IF ScanBeams(probe) < ScanMinBeams \/ refined = <<>> THEN ScanNone
     ELSE [found |-> TRUE, best |-> best, basins |-> ScanBasins(best, refined),
           accepted |-> /\ best.sum <= ScanSearchCfg.max * ScanBeams(probe)
                        /\ best.n >= ScanMinBeams
                        /\ rivals # {} => 10 * best.sum <= ScanSearchCfg.unique * Min(rivals)]
ScanAsked(log, field, probe, cores) ==
  CHOOSE r \in {ScanAnswer(probe, refined) : refined \in
                  {[n \in DOMAIN seeds |-> ScanRefined(log, field, probe, seeds[n].pose)] :
                     seeds \in {ScanSeeds(log, field, probe, cores)}}} : TRUE

(* ------------------------------------------------------- the verdicts      *)

(* A pose by the beams whose ends the map has an opinion on.                 *)
ScanAgreement(log, field, p, probe) ==
  LET end == [k \in DOMAIN probe |-> ScanReach(p, probe[k])]
      observed == {k \in DOMAIN probe : end[k] # ScanOff /\ (log[end[k]] >= ScanJudgeCfg.observed
                                                        \/ log[end[k]] <= -ScanJudgeCfg.observed)}
  IN [n |-> Cardinality(observed), of |-> ScanBeams(probe),
      sum |-> ScanSum([k \in observed |-> Min({field[end[k]], ScanJudgeCfg.clamp})])]

(* A candidate carried by the odometry to where the window was taken.        *)
ScanCarried(cand, then, now) ==
  LET turn == (4 + cand.yaw - then.yaw) % 4
      v == ScanSpun([i |-> now.i - then.i, j |-> now.j - then.j], turn)
  IN [i |-> cand.i + v.i, j |-> cand.j + v.j, yaw |-> (now.yaw + turn) % 4]

ScanVerdict(a) ==
  LET strong == a.n >= ScanJudged /\ 10 * a.n >= 3 * a.of
      weak == a.n >= ScanJudged /\ 20 * a.n >= a.of
  IN IF strong /\ a.sum <= ScanJudgeCfg.confirm * a.n THEN "confirmed"
     ELSE IF strong \/ (weak /\ a.sum > ScanJudgeCfg.max * a.n) THEN "refuted"
     ELSE IF weak THEN "ambiguous" ELSE "unjudgeable"

(* Is a pose the only place the window fits?                                 *)
ScanUniqueAt(log, judge, field, p, probe, cores) ==
  LET r == ScanAsked(log, field, probe, cores)
      sums(near) == {r.basins[n].sum : n \in {n \in DOMAIN r.basins : near = ~ScanApart(r.basins[n].pose, p)}}
  IN IF ScanAgreement(log, judge, p, probe).n < ScanJudged \/ ~r.found THEN "unknown"
     ELSE IF sums(TRUE) = {} THEN "unknown"
     ELSE IF \A rival \in sums(FALSE) : 10 * Min(sums(TRUE)) <= ScanSearchCfg.unique * rival THEN "unique"
     ELSE "rivalled"

(* The direction a pose may be slid along and fit as well; none is 8.        *)
ScanPinned == 8
ScanValley(log, field, p, probe) ==
  LET own == ScanScore(log, field, p, probe)
      slid(k) == [p EXCEPT !.i = @ + ScanShift * ScanEight[k + 1].i, !.j = @ + ScanShift * ScanEight[k + 1].j]
      fits(k) ==
        /\ ScanIn(slid(k).i, slid(k).j)
        /\ ScanKnownFree(log, ScanAt(slid(k).i, slid(k).j))
        /\ LET s == ScanScore(log, field, slid(k), probe)
           IN /\ s.n >= ScanMinBeams
              /\ 10 * s.sum <= 10 * own.sum + ScanMargin * ScanBeams(probe)
              /\ s.sum <= ScanSearchCfg.max * ScanBeams(probe)
  IN Min({k \in 0..7 : fits(k)} \cup {ScanPinned})

(* -------------------------------------------------------- the steps        *)

(* A stand's window, frame by frame: nobody; somebody walking by, or         *)
(* lingering; one frame only, the stand cut short.                           *)
ScanWindowsOf(a, b) == {<<{}, {}, {}>>, <<{a}, {}, {b}>>, <<{a}, {a}, {b}>>, <<{a}>>}
ScanStood(legs) ==
  {l \in ScanLegs : LET n == Cardinality({f \in DOMAIN legs : l \in legs[f]})
                    IN n >= ScanVotes \/ (n > 0 /\ Len(legs) < ScanMinFrames)}

ScanBlank(r) ==
  [room |-> ScanBorder \cup r, log |-> [c \in ScanCells |-> 0], field |-> <<>>, thr |-> 0, dirty |-> TRUE,
   inked |-> 0, stood |-> {}, valleys |-> <<>>, last |-> [kind |-> "none"]]
ScanInit == \E r \in ScanRooms : scan = ScanBlank(r)

ScanInk(c, legs) ==
  /\ scan.inked < ScanWindows
  /\ scan.last.kind = "none" \/ (scan.last.kind = "valley" /\ ~scan.last.blocked)
  /\ c \notin UNION {legs[f] : f \in DOMAIN legs}
  /\ \E beams \in {ScanFinish(scan.room, c, legs)} :
     /\ Cardinality({m \in DOMAIN beams : beams[m] # ScanOff}) >= ScanMinWindow
     /\ scan' = [scan EXCEPT !.log = ScanInked(@, c, beams), !.dirty = TRUE, !.inked = @ + 1,
                             !.stood = @ \cup ScanStood(legs), !.valleys = <<>>, !.last = [kind |-> "none"]]

ScanReload ==
  scan' = [scan EXCEPT !.field = <<>>, !.thr = 0, !.dirty = TRUE, !.last = [kind |-> "none"]]

(* A candidate let go of.                                                    *)
ScanDrop == scan.last.kind # "none" /\ scan' = [scan EXCEPT !.last = [kind |-> "none"]]

ScanSearch(p, cores) ==
  /\ scan.last.kind = "none"
  /\ \E s \in {ScanServe(scan, ScanSearchCfg.wall)} :
     scan' = [s EXCEPT !.last = [kind |-> "search", at |-> p, cores |-> cores,
                                r |-> ScanAsked(s.log, s.field, ScanProbe(s.room, p), cores)]]

(* A basin of the last search, against the window of a later stand; agreed   *)
(* with, it must be the only place that fits.                                *)
ScanCheck(n, now) ==
  /\ scan.last.kind = "search" /\ scan.last.r.found /\ n \in DOMAIN scan.last.r.basins
  /\ \E s \in {ScanServe(scan, ScanJudgeCfg.wall)}, cand \in {scan.last.r.basins[n].pose} :
       \E implied \in {ScanCarried(cand, scan.last.at, now)}, probe \in {ScanProbe(s.room, now)} :
         \E verdict \in {ScanVerdict(ScanAgreement(s.log, s.field, implied, probe))} :
           \E t \in {IF verdict = "confirmed" THEN ScanServe(s, ScanSearchCfg.wall) ELSE s} :
             scan' = [t EXCEPT !.last =
                        [kind |-> "check", cand |-> cand, then |-> scan.last.at, now |-> now,
                         implied |-> implied, verdict |-> verdict,
                         unique |-> IF verdict # "confirmed" THEN "unasked"
                                    ELSE ScanUniqueAt(s.log, s.field, t.field, implied, probe, scan.last.cores)]]

(* The valley test of a confirmed pose: refused along a valley, unless one   *)
(* refused for the same place before lies across it.                         *)
ScanCross(a, b) == (a - b) % 4 # 0
ScanValleyTest ==
  /\ scan.last.kind = "check" /\ scan.last.verdict = "confirmed"
  /\ LET k == ScanValley(scan.log, scan.field, scan.last.implied, ScanProbe(scan.room, scan.last.now))
         crossed == {n \in DOMAIN scan.valleys :
                       LET v == scan.valleys[n]
                       IN ScanCarried(v.pose, v.then, scan.last.now) = scan.last.implied /\ ScanCross(v.along, k)}
         kept == Append(scan.valleys, [pose |-> scan.last.implied, then |-> scan.last.now, along |-> k])
     IN scan' = [scan EXCEPT !.valleys = IF k = ScanPinned THEN @
                                         ELSE IF Len(kept) > ScanKept THEN Tail(kept) ELSE kept,
                             !.last = [kind |-> "valley", pose |-> scan.last.implied, now |-> scan.last.now, along |-> k,
                                       stands |-> {scan.valleys[n].then : n \in crossed},
                                       blocked |-> k # ScanPinned /\ crossed = {}]]

ScanNext ==
  \/ \E c \in ScanStands, a, b \in ScanLegs : a < b /\ \E legs \in ScanWindowsOf(a, b) : ScanInk(c, legs)
  \/ ScanReload
  \/ ScanDrop
  \/ \E p \in ScanPoses, cores \in ScanCores : ScanSearch(p, cores)
  \/ \E n \in 1..ScanTopK, now \in ScanPoses : ScanCheck(n, now)
  \/ ScanValleyTest

ScanSpec == ScanInit /\ [][ScanNext]_scan

ScanTypeOK ==
  /\ scan.room \subseteq ScanCells /\ scan.inked \in 0..ScanWindows /\ scan.stood \subseteq ScanLegs
  /\ scan.log \in [ScanCells -> -ScanClampLog..ScanClampLog] /\ scan.dirty \in BOOLEAN
  /\ Len(scan.valleys) <= ScanKept

(* ---------------------------------------------------- the properties       *)

(* The distance to the nearest wall, by its definition.                      *)
ScanExact(log, thr) ==
  LET walls == ScanFixed({c \in ScanCells : log[c] > thr})
  IN [c \in ScanCells |-> IF walls = {} THEN ScanCellCm * ScanSide ELSE ScanCm[Min({ScanD2[c][w] : w \in walls})]]

(* A field the grid would serve as it is, is the exact distance to the       *)
(* nearest wall of the grid as it is.                                        *)
ScanFieldTrue == (~scan.dirty /\ scan.field # <<>>) => scan.field = ScanExact(scan.log, scan.thr)

(* Whatever walks by, the map has something only beside a wall that is, or   *)
(* beside somebody who stood long enough to be voted for.                    *)
ScanInkTrue ==
  \A c \in ScanCells : scan.log[c] > 0 => \E w \in scan.room \cup scan.stood : ScanNear(c, w)

(* The search's answer fits as well as any candidate it looked at, its       *)
(* basins are apart and the best comes first; accepted, no basin listed      *)
(* fits nearly as well, and the winner is unique by the other test as well.  *)
ScanSearchTrue ==
  (scan.last.kind = "search" /\ scan.last.r.found) =>
    LET r == scan.last.r
        probe == ScanProbe(scan.room, scan.last.at)
    IN /\ \A yaw \in 0..3 : \A x \in ScanCoarse(scan.log, scan.field, probe, yaw) : r.best.sum <= x.sum
       /\ r.basins[1].pose = r.best.pose
       /\ \A m, n \in DOMAIN r.basins :
            m < n => /\ ScanApart(r.basins[m].pose, r.basins[n].pose)
                     /\ r.basins[m].sum <= r.basins[n].sum
       /\ r.accepted => \A n \in DOMAIN r.basins \ {1} : 10 * r.best.sum <= ScanSearchCfg.unique * r.basins[n].sum
       /\ r.accepted => ScanUniqueAt(scan.log, ScanExact(scan.log, ScanJudgeCfg.wall), scan.field, r.best.pose,
                                     probe, scan.last.cores) # "rivalled"

(* The true pose, carried by the odometry, is never contradicted by a map    *)
(* of true windows: the map may be unable to judge it, it is not against it. *)
ScanTruthStands ==
  (scan.last.kind = "check" /\ scan.last.cand = scan.last.then /\ scan.stood = {}) =>
    /\ scan.last.implied = scan.last.now
    /\ scan.last.verdict # "refuted"

(* A pose let through along a valley was refused before from another stand:  *)
(* one window does not settle what it could not.                             *)
ScanValleyTrue ==
  (scan.last.kind = "valley" /\ scan.last.along # ScanPinned /\ ~scan.last.blocked) =>
    \E p \in scan.last.stands : p # scan.last.now

(* What the map says of a window: an exact field, ink only where something   *)
(* was, the best of the candidates, no valley settled from one stand.        *)
ScanTrue == ScanFieldTrue /\ ScanInkTrue /\ ScanSearchTrue /\ ScanValleyTrue
=============================================================================
