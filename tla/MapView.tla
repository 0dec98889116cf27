------------------------------- MODULE MapView -------------------------------
(* What is read off a frame's grid (src/quack-nav/src/map.rs, explore/mod.rs *)
(* 1181-1364, frontier.rs 436-467): the cells with the band's walls, a ray,  *)
(* a lane, the share of unknown ahead, the house's box and what is left of   *)
(* it to explore.                                                            *)
(*                                                                           *)
(* A cell is 20 units wide, half a cell is the step the code marches by.  A  *)
(* heading is <<c, s>>, cosine and sine in fifths; a turn of the box is its  *)
(* cosine and sine over `n`.                                                 *)
EXTENDS Integers, FiniteSets, FiniteSetsExt

CONSTANTS
  ViewRows, ViewCols,   \* the grid's
  ViewWalls,            \* the houses, each the set of its wall cells
  ViewHidden,           \* cells nothing has seen
  ViewLeft,             \* of them, those that may yet be seen
  ViewBanded,           \* cells the band may block
  ViewStands,           \* where the duck may stand
  ViewClear,            \* BAND_CLEAR_AROUND_M
  ViewLens, ViewHalves, \* the lanes' lengths and half-widths
  ViewRadius            \* of the half-disc ahead

ViewCells == 0..(ViewRows * ViewCols - 1)
ViewRow(k) == k \div ViewCols
ViewCol(k) == k % ViewCols
ViewOff == -1
ViewAtRC(r, c) == IF r \in 0..(ViewRows - 1) /\ c \in 0..(ViewCols - 1) THEN r * ViewCols + c ELSE ViewOff
ViewMid(k) == [x |-> 20 * ViewCol(k) + 10, y |-> 20 * ViewRow(k) + 10]
ViewHeadings == {<<5, 0>>, <<4, 3>>, <<3, 4>>, <<0, 5>>, <<-3, 4>>, <<-5, 0>>, <<0, -5>>, <<4, -3>>}
ViewSquare(n) == n * n

(* A grid has cells; the houses, what is hidden and where the duck may stand *)
(* are of it; the duck stands in some house, and the band is cleared as far  *)
(* as the cells round the duck's.                                            *)
ASSUME ViewAssumption ==
  /\ {ViewRows, ViewCols} \subseteq Nat \ {0} /\ {ViewRadius, ViewClear} \subseteq Nat
  /\ ViewLens \subseteq Nat /\ ViewHalves \subseteq Nat
  /\ ViewWalls \subseteq SUBSET ViewCells /\ ViewWalls # {}
  /\ ViewStands \subseteq ViewCells /\ ViewStands # {} /\ ViewLeft \subseteq ViewHidden
  /\ ViewHidden \subseteq ViewCells /\ ViewBanded \subseteq ViewCells
  /\ ViewSquare(20) + ViewSquare(20) <= ViewSquare(ViewClear)

VARIABLE view    \* house; cells inked; band, at: where the band blocks, where the duck is

(* --------------------------------------------------- the grid, read        *)

(* A wall of the band stands, but round the duck: MapFrame::grid.            *)
ViewNear(v, k) ==
  ViewSquare(ViewMid(k).x - ViewMid(v.at).x) + ViewSquare(ViewMid(k).y - ViewMid(v.at).y) <= ViewSquare(ViewClear)
ViewRead(v) ==
  [k \in ViewCells |-> IF k \in v.band /\ ~ViewNear(v, k) THEN "wall" ELSE v.cells[k]]

ViewAt(cells, x, y) ==
  LET k == ViewAtRC(y \div 20, x \div 20) IN IF k = ViewOff THEN "edge" ELSE cells[k]

(* A ray, half a cell at a time, from a cell ahead.                          *)
ViewClearance(cells, p, h, max) ==
  LET on(d) == ViewAt(cells, p.x + (d * h[1]) \div 5, p.y + (d * h[2]) \div 5)
      ends == {d \in 20..max : d % 10 = 0 /\ on(d) # "free"}
  IN IF ends = {} THEN [free |-> max, by |-> "open"]
     ELSE [free |-> Max({Min(ends) - 10, 0}), by |-> on(Min(ends))]

(* A lane: its whole width, half a cell at a time at the most.               *)
ViewThree(half) == {-half, 0, half}
ViewRails(half) ==
  LET n == Max({2, (2 * half + 9) \div 10}) IN {(2 * half * i) \div n - half : i \in 0..n}
ViewLaneClear(cells, p, h, len, half) ==
  \A d \in {d \in 0..len : d % 10 = 0}, o \in ViewRails(half) :
    ViewAt(cells, p.x + (d * h[1] - o * h[2]) \div 5, p.y + (d * h[2] + o * h[1]) \div 5) # "wall"

(* The unknown cells, and all, in the half-disc ahead; off the grid unknown. *)
ViewAhead(cells, k, h) ==
  LET disc == {d \in (-ViewRadius..ViewRadius) \X (-ViewRadius..ViewRadius) :
                 /\ ViewSquare(d[1]) + ViewSquare(d[2]) <= ViewSquare(ViewRadius)
                 /\ d[2] * h[1] + d[1] * h[2] >= 0}
      known(d) == LET a == ViewAtRC(ViewRow(k) + d[1], ViewCol(k) + d[2]) IN a # ViewOff /\ cells[a] # "unknown"
  IN [unknown |-> Cardinality({d \in disc : ~known(d)}), of |-> Cardinality(disc)]

(* ------------------------------------------------------- the house         *)

ViewAxes == [c |-> 1, s |-> 0, n |-> 1]
ViewTurns == <<ViewAxes, [c |-> 12, s |-> 5, n |-> 13], [c |-> 4, s |-> 3, n |-> 5],
               [c |-> 3, s |-> 4, n |-> 5], [c |-> 5, s |-> 12, n |-> 13]>>
ViewU(t, k) == ViewCol(k) * t.c + ViewRow(k) * t.s
ViewV(t, k) == ViewRow(k) * t.c - ViewCol(k) * t.s

(* How well the walls line up on a turned grid, and the turn that lines them *)
(* up best, the first of equals.                                             *)
ViewLined(walls, t) ==
  LET binned(of(_)) == LET lo == Min({of(k) : k \in walls}) IN [k \in walls |-> (of(k) - lo) \div t.n]
      squares(bins) == SumFunction([b \in {bins[k] : k \in walls} |-> ViewSquare(Cardinality({k \in walls : bins[k] = b}))])
  IN squares(binned(LAMBDA k : ViewU(t, k))) + squares(binned(LAMBDA k : ViewV(t, k)))
ViewBest(lined) == Min({i \in DOMAIN lined : \A j \in DOMAIN lined : lined[j] <= lined[i]})
ViewSureOf(lined, best) == IF 10 * lined[1] < 9 * lined[best] THEN ViewTurns[best] ELSE ViewAxes
ViewSurely(lined) == ViewSureOf(lined, ViewBest(lined))
ViewTurn(walls) == ViewSurely([i \in DOMAIN ViewTurns |-> ViewLined(walls, ViewTurns[i])])

(* The cells inside the walls' box, on the axes or turned and trimmed.       *)
ViewWallsOf(cells) == {k \in ViewCells : cells[k] = "wall"}
ViewTrim(t) == IF t = ViewAxes THEN 0 ELSE t.n
ViewSide(ws, trim) == (Min(ws) + trim)..(Max(ws) - trim)
ViewWithin(t, us, vs) == {k \in ViewCells : ViewU(t, k) \in us /\ ViewV(t, k) \in vs}
ViewBoxed(walls, t) ==
  ViewWithin(t, ViewSide({ViewU(t, k) : k \in walls}, ViewTrim(t)), ViewSide({ViewV(t, k) : k \in walls}, ViewTrim(t)))
ViewBoxOf(walls) == IF walls = {} THEN {} ELSE ViewBoxed(walls, ViewTurn(walls))
ViewBox(cells) == ViewBoxOf(ViewWallsOf(cells))

ViewBeside(k) ==
  {ViewAtRC(ViewRow(k) + d[1], ViewCol(k) + d[2]) : d \in {<<-1, 0>>, <<1, 0>>, <<0, -1>>, <<0, 1>>}} \ {ViewOff}

(* What a walk over some cells reaches, from a set of them.                  *)
ViewFlood(over, from) ==
  LET grown[n \in 0..Cardinality(over)] ==
        IF n = 0 THEN from ELSE grown[n - 1] \cup {k \in over : ViewBeside(k) \cap grown[n - 1] # {}}
  IN grown[Cardinality(over)]

(* explored_share: the floor known, and the unknown cells reached from it.   *)
ViewUnknown(cells, box) == {k \in box : cells[k] = "unknown"}
ViewTouches(cells, box, k) == \E f \in ViewBeside(k) \cap box : cells[f] = "free"
ViewOpen(cells, box) ==
  ViewFlood(ViewUnknown(cells, box), {k \in ViewUnknown(cells, box) : ViewTouches(cells, box, k)})
ViewShare(cells) ==
  [free |-> Cardinality({k \in ViewCells : cells[k] = "free"}), open |-> ViewOpen(cells, ViewBox(cells))]

(* largest_unknown_piece_m2: piece by piece, the ones that touch known floor. *)
ViewPiecesOf(cells, box) ==
  {piece \in {ViewFlood(ViewUnknown(cells, box), {k}) : k \in ViewUnknown(cells, box)} :
     \E k \in piece : ViewTouches(cells, box, k)}
ViewPieces(cells) == ViewPiecesOf(cells, ViewBox(cells))
ViewLargestOf(pieces) == Max({Cardinality(piece) : piece \in pieces} \cup {0})
ViewLargest(cells) == ViewLargestOf(ViewPieces(cells))

(* The free cells that touch unknown, corners included.                      *)
ViewFrontier(cells) ==
  {k \in ViewCells : /\ cells[k] = "free"
                     /\ \E dr, dc \in -1..1 : LET a == ViewAtRC(ViewRow(k) + dr, ViewCol(k) + dc)
                                             IN a # ViewOff /\ cells[a] = "unknown"}

(* -------------------------------------------------------- the steps        *)

ViewTruth(h, k) == IF k \in h THEN "wall" ELSE "free"
ViewStart(h) ==
  [house |-> h, cells |-> [k \in ViewCells |-> IF k \in ViewHidden THEN "unknown" ELSE ViewTruth(h, k)],
   band |-> {}, at |-> CHOOSE k \in ViewStands : \A j \in ViewStands : k <= j]
ViewInit == \E h \in ViewWalls : view = ViewStart(h)

ViewInks(k) == view.cells[k] = "unknown" /\ view' = [view EXCEPT !.cells[k] = ViewTruth(view.house, k)]
ViewBlocks(k) == k \notin view.band /\ view' = [view EXCEPT !.band = @ \cup {k}]
ViewWalks(k) == k # view.at /\ view.cells[k] = "free" /\ view' = [view EXCEPT !.at = k]

ViewNext ==
  \/ \E k \in ViewLeft : ViewInks(k)
  \/ \E k \in ViewBanded : ViewBlocks(k)
  \/ \E k \in ViewStands : ViewWalks(k)

ViewSpec == ViewInit /\ [][ViewNext]_view

ViewTypeOK ==
  /\ view.house \in ViewWalls /\ view.at \in ViewCells /\ view.band \subseteq ViewBanded
  /\ view.cells \in [ViewCells -> {"unknown", "free", "wall"}]

(* ---------------------------------------------------- the properties       *)

(* A wall cell that lies in a lane is met by its rails; a lane is stopped by *)
(* nothing but a wall it touches, nor less than the ray down its middle.     *)
ViewInLane(k, p, h, len, half) ==
  \A x \in {20 * ViewCol(k), 20 * ViewCol(k) + 20}, y \in {20 * ViewRow(k), 20 * ViewRow(k) + 20} :
    LET along == (x - p.x) * h[1] + (y - p.y) * h[2]
        across == (y - p.y) * h[1] - (x - p.x) * h[2]
    IN along \in 0..(5 * len) /\ across \in (-5 * half)..(5 * half)
ViewLanesTrue ==
  LET cells == ViewRead(view)
      p == ViewMid(view.at)
  IN \A h \in ViewHeadings, len \in ViewLens, half \in ViewHalves :
       ViewLaneClear(cells, p, h, len, half) =>
         /\ \A k \in ViewCells : cells[k] = "wall" => ~ViewInLane(k, p, h, len, half)
         /\ LET ray == ViewClearance(cells, p, h, len)
            IN (0 \in ViewRails(half)) => ray.by # "wall"

(* The band does not wall the duck in: the first step off is as the ink has  *)
(* it.                                                                       *)
ViewStepsOff ==
  \A h \in ViewHeadings :
    ViewLaneClear(ViewRead(view), ViewMid(view.at), h, 10, 10) = ViewLaneClear(view.cells, ViewMid(view.at), h, 10, 10)

(* With nothing unknown ahead, no ray ahead ends in the unknown that soon.   *)
ViewAheadTrue ==
  \A h \in ViewHeadings :
    ViewAhead(ViewRead(view), view.at, h).unknown = 0 =>
      ViewClearance(ViewRead(view), ViewMid(view.at), h, 20 * ViewRadius - 10).by \in {"wall", "open"}

(* The two readings of what is left agree: the unknown the share leaves open *)
(* is the pieces that touch known floor, and with no frontier none is.       *)
ViewHouseTrue ==
  \A open \in {ViewShare(ViewRead(view)).open}, pieces \in {ViewPieces(ViewRead(view))} :
    /\ open = UNION pieces
    /\ ViewFrontier(ViewRead(view)) = {} => open = {}
    /\ \A largest \in {ViewLargestOf(pieces)} : largest <= Cardinality(open) /\ (largest = 0 => open = {})

(* What is left of a house does not change as its map is turned by a quarter *)
(* (the grid is square), while its box is on the axes.                       *)
ViewQuarter(cells) == [k \in ViewCells |-> cells[ViewAtRC(ViewCols - 1 - ViewCol(k), ViewRow(k))]]
ViewOnAxes(cells) == ViewWallsOf(cells) # {} /\ ViewTurn(ViewWallsOf(cells)) = ViewAxes
ViewLeftOf(cells) == <<ViewShare(cells).free, Cardinality(ViewShare(cells).open), ViewLargest(cells)>>
ViewTurnsTrue ==
  \A cells \in {ViewRead(view)} : \A turned \in {ViewQuarter(cells)} :
    ViewRows = ViewCols /\ ViewOnAxes(cells) /\ ViewOnAxes(turned) => ViewLeftOf(turned) = ViewLeftOf(cells)

(* What a frame's grid is read for: lanes, steps, what is left to explore.   *)
ViewTrue == ViewLanesTrue /\ ViewStepsOff /\ ViewAheadTrue /\ ViewHouseTrue /\ ViewTurnsTrue
=============================================================================
