------------------------------ MODULE RoutePlan ------------------------------
(* The ways over the map (src/quack-nav/src/frontier.rs): the costmap the    *)
(* planners share -- walls, what the sensor booked and the lanes the body    *)
(* has stood on -- Dijkstra's way to a goal, the same way pulled taut, the   *)
(* groups of frontier cells an exploration may go to, and the way a journey  *)
(* keeps between two stands (explore/navigate.rs).                           *)
(*                                                                           *)
(* Lengths are counted in cells; a radius is the largest squared distance    *)
(* between two cells it takes in.  A point of a pulled way is the cell it    *)
(* lies in.  Distances to a drop are in tenths of a cell, rounded down.      *)
EXTENDS Integers, Sequences, FiniteSets

CONSTANTS
  RouteRows, RouteCols, \* the grid
  RouteVaried,          \* the cells that may be a wall or unknown: the others are floor
  RouteSpots,           \* where something may be booked, or the body have stood
  RouteFroms, RouteGoals,
  RouteInflate,         \* cells kept from a wall: inflate_m()
  RouteTight,           \* and at the tightest: SQUEEZE_INFLATE_M
  RouteRim,             \* kept from a booked drop: planner_walls() and drop_inflate()
  RouteRimTight,        \* and at the tightest: planner_walls_tight()
  RouteYield,           \* a lane yields to a drop this near: LANE_YIELDS_TO_DROP_M
  RouteDropKill, RouteBumpKill,   \* no frontier this near a drop, another thing
  RouteFree, RouteDear, \* COST_FREE, COST_UNKNOWN
  RouteHug, RouteBand,  \* COST_HUG, and the cells COMFORT_M is beyond the inflation
  RouteReach, RouteFar, \* how far the start is looked for, at first and then
  RouteStray,           \* pull_deviation_m(), in cells
  RouteSlack,           \* PULL_DROP_SLACK_M, in tenths of a cell
  RouteMin, RouteCap, RouteBack,  \* MIN_FRONTIER_CELLS, GAIN_CAP_CELLS, VIEW_BACK_M
  RouteBlock,           \* the radius of a blocked spot
  RouteAhead,           \* the first metre of a kept way, in points
  RouteOff,             \* KEEP_ROUTE_OFF_M
  RouteWalksMax         \* bounds the walks between stands

(* The cells are numbered row by row, as the code's vectors are. *)
RouteCount == RouteRows * RouteCols
RouteCells == 1..RouteCount
RouteRow(c) == (c - 1) \div RouteCols
RouteCol(c) == (c - 1) % RouteCols
RouteKinds == {"free", "wall", "unknown"}
RouteThings == [at : RouteSpots, drop : BOOLEAN]

(* A map has cells, and every step on it a price; what is tight is no wider. *)
ASSUME RouteAssumption ==
  /\ {RouteRows, RouteCols, RouteFree, RouteDear, RouteCap} \subseteq Nat \ {0}
  /\ {RouteInflate, RouteTight, RouteRim, RouteRimTight, RouteYield, RouteDropKill, RouteBumpKill, RouteHug,
      RouteBand, RouteReach, RouteFar, RouteStray, RouteSlack, RouteMin, RouteBack, RouteBlock, RouteAhead,
      RouteOff, RouteWalksMax} \subseteq Nat
  /\ RouteRimTight <= RouteRim /\ RouteTight <= RouteInflate
  /\ RouteVaried \cup RouteSpots \cup RouteFroms \cup RouteGoals \subseteq RouteCells

VARIABLE route
(* ask   what is asked, of which map: the grid, the things and the lanes on   *)
(*       the books, where from and to, the spots frontiers are blocked at     *)
(* did   what the last step did                                               *)
(* map   the costmap of the last plan                                         *)
(* raw   Dijkstra's way and, in `way`, the pulled one: <<>> when none         *)
(* kept  the way in hand, with the books' size then, and whether it is old    *)
(* list  the frontiers found, the best one first                              *)

(* Squared distances, steps, and the four and the eight cells round one. *)
RouteAbs(n) == IF n < 0 THEN -n ELSE n
RouteD2 == [a \in RouteCells |-> [b \in RouteCells |->
  (RouteRow(a) - RouteRow(b)) * (RouteRow(a) - RouteRow(b)) + (RouteCol(a) - RouteCol(b)) * (RouteCol(a) - RouteCol(b))]]
RouteSteps == [a \in RouteCells |-> [b \in RouteCells |->
  RouteAbs(RouteRow(a) - RouteRow(b)) + RouteAbs(RouteCol(a) - RouteCol(b))]]
RouteAround == [c \in RouteCells |-> {n \in RouteCells : RouteSteps[c][n] = 1}]
RouteRound == [c \in RouteCells |-> {n \in RouteCells : RouteD2[c][n] \in {1, 2}}]

------------------------------------------------------------------------------
(* The costmap.                                                              *)

(* The cells the body's walks have shown to be floor: a lane's and its four  *)
(* neighbours.                                                               *)
RouteLane(ask) == ask.lanes \union UNION {RouteAround[c] : c \in ask.lanes}

RouteRimNear(ask, c) == \E t \in ask.things : t.drop /\ RouteD2[t.at][c] <= RouteYield

RouteIsLaneAnyway(ask, c) == c \in RouteLane(ask)

RouteIsLane(ask, c) == c \in RouteLane(ask) /\ ~RouteRimNear(ask, c)

(* What is kept from a booked thing: a drop's rim, never the wall's margin.  *)
RouteKeeps(thing, c, inflate, rim) ==
  RouteD2[thing.at][c] <= IF thing.drop THEN rim ELSE inflate * inflate

(* Where the body may be: not in a wall; on a lane, unless a rim is near;    *)
(* else off the walls and off what is booked.                                *)
RouteOpen(ask, c, inflate, rim) ==
  /\ ask.grid[c] # "wall"
  /\ \/ RouteIsLane(ask, c)
     \/ /\ \A w \in RouteCells : ask.grid[w] = "wall" => RouteD2[w][c] > inflate * inflate
        /\ \A t \in ask.things : ~RouteKeeps(t, c, inflate, rim)

(* A cell's price, 0 where the body may not go: floor is cheap, the unknown  *)
(* dear, a lane at floor's price, and room cheaper than a wall's side.       *)
RouteMap(ask, inflate, rim) ==
  LET open == {c \in RouteCells : RouteOpen(ask, c, inflate, rim)}
      shut == RouteCells \ open
      base(c) == IF ask.grid[c] = "free" \/ RouteIsLane(ask, c) THEN RouteFree ELSE RouteDear
      room(c) == {d \in 1..RouteBand : \E x \in shut : RouteSteps[c][x] = d}
      least(c) == CHOOSE d \in room(c) : \A o \in room(c) : d <= o
      hug(c) == IF room(c) = {} THEN 0
                ELSE (2 * RouteHug * (RouteBand - least(c) + 1) + RouteBand) \div (2 * RouteBand)
  IN  CHOOSE map \in {[c \in RouteCells |-> IF c \in open THEN base(c) + hug(c) ELSE 0]} : TRUE

(* The nearest cell the body may be in, in the square of `reach` cells       *)
(* round it: its own is often unknown, or within the inflation.              *)
RouteStarts(map, from, reach) ==
  {c \in RouteCells : /\ map[c] > 0
                      /\ RouteAbs(RouteRow(c) - RouteRow(from)) <= reach
                      /\ RouteAbs(RouteCol(c) - RouteCol(from)) <= reach}

RouteStart(map, from, reaches) ==
  LET near(k) == RouteStarts(map, from, reaches[k])
      some == {k \in DOMAIN reaches : near(k) # {}}
      k0 == CHOOSE k \in some : \A o \in some : k <= o
  IN  IF some = {} THEN {}
      ELSE {CHOOSE c \in near(k0) : \A o \in near(k0) :
              \/ RouteD2[c][from] < RouteD2[o][from]
              \/ RouteD2[c][from] = RouteD2[o][from] /\ (c <= o)}

------------------------------------------------------------------------------
(* Dijkstra, cell by cell: what is cheapest is taken off the heap, and left  *)
(* if a cheaper way to it was found since.                                   *)
RoutePrice == RouteFree + RouteDear + RouteHug + 1   \* no cell costs as much
RouteEndless == 2 * (RouteCount + 1) * RoutePrice       \* and no way this

RouteTop(heap) == CHOOSE e \in heap : \A o \in heap : e[1] < o[1] \/ (e[1] = o[1] /\ e[2] <= o[2])

RouteRelaxed(map, s, e) ==
  LET better == {n \in RouteAround[e[2]] : map[n] > 0 /\ e[1] + map[n] < s.cost[n]}
  IN  [heap |-> (s.heap \ {e}) \union {<<e[1] + map[n], n>> : n \in better},
       cost |-> [n \in RouteCells |-> IF n \in better THEN e[1] + map[n] ELSE s.cost[n]],
       from |-> [n \in RouteCells |-> IF n \in better THEN e[2] ELSE s.from[n]]]

RoutePopped(map, end, s) ==
  IF s.heap = {} THEN s
  ELSE CHOOSE t \in {IF e[2] = end THEN s
                     ELSE IF e[1] > s.cost[e[2]] THEN [s EXCEPT !.heap = @ \ {e}]
                     ELSE RouteRelaxed(map, s, e) : e \in {RouteTop(s.heap)}} : TRUE

(* Each cell is taken off once and told to its four neighbours: so many pops *)
(* empty the heap.                                                           *)
RoutePops == 4 * RouteCount + 1

RouteSearched(map, start, end) ==
  LET popped[n \in 0..RoutePops] ==
        IF n = 0 THEN [heap |-> {<<0, start>>},
                       cost |-> [c \in RouteCells |-> IF c = start THEN 0 ELSE RouteEndless],
                       from |-> [c \in RouteCells |-> c]]
        ELSE CHOOSE t \in {RoutePopped(map, end, s) : s \in {popped[n - 1]}} : TRUE
  IN  popped[RoutePops]

(* The cells from the one after the start to `c`. *)
RouteTrace(from, start, c) ==
  LET back[n \in 0..RouteCount] == IF n = 0 THEN c ELSE from[back[n - 1]]
      far == CHOOSE n \in 0..RouteCount : back[n] = start /\ \A m \in 0..(n - 1) : back[m] # start
  IN  [k \in 1..far |-> back[far - k]]

(* Dijkstra's way from `from` to `to`: none without a cell to start from, to *)
(* end in, or cells between.                                                 *)
RouteReaches == <<RouteReach, RouteFar>>

RouteRaw(ask, map) ==
  LET starts == RouteStart(map, ask.from, RouteReaches)
      ends == RouteStart(map, ask.to, RouteReaches)
  IN  IF starts = {} \/ ends = {} THEN [found |-> FALSE, raw |-> <<>>]
      ELSE LET start == CHOOSE c \in starts : TRUE
               end == CHOOSE c \in ends : TRUE
               done == RouteSearched(map, start, end)
           IN  IF done.cost[end] = RouteEndless THEN [found |-> FALSE, raw |-> <<>>]
               ELSE [found |-> TRUE, raw |-> RouteTrace(done.from, start, end)]

------------------------------------------------------------------------------
(* The way pulled taut.                                                      *)

(* The least n >= 1 with n * n >= x. *)
RouteUp(x) == CHOOSE n \in 1..(2 * (RouteRows + RouteCols)) : n * n >= x /\ (n = 1 \/ (n - 1) * (n - 1) < x)

(* The point i n-ths along the line from a to b, in n-ths of a cell, and the *)
(* cell it lies in.                                                          *)
RouteAt(a, b, i, n) == <<n * RouteRow(a) + i * (RouteRow(b) - RouteRow(a)),
                         n * RouteCol(a) + i * (RouteCol(b) - RouteCol(a))>>
RouteCell(p, n) == RouteCols * ((2 * p[1] + n) \div (2 * n)) + ((2 * p[2] + n) \div (2 * n)) + 1
RouteOff2(p, c, n) ==
  (p[1] - n * RouteRow(c)) * (p[1] - n * RouteRow(c)) + (p[2] - n * RouteCol(c)) * (p[2] - n * RouteCol(c))

(* Twice the price of the straight line from a to b, sampled twice a cell;   *)
(* endless where it crosses a cell the body may not be in.                   *)
RouteSum(f, n) ==
  LET sum[i \in 0..n] == IF i = 0 THEN 0 ELSE sum[i - 1] + f[i] IN sum[n]

RouteLine(map, a, b) ==
  LET n == RouteUp(4 * RouteD2[a][b])
      price == [i \in 1..(n + 1) |-> map[RouteCell(RouteAt(a, b, i - 1, n), n)]]
  IN  IF \E i \in DOMAIN price : price[i] = 0 THEN RouteEndless ELSE RouteSum(price, n + 1)

(* How far the nearest drop is, from a point in n-ths of a cell. *)
RouteTenths(x, n) ==
  CHOOSE k \in 0..(10 * (RouteRows + RouteCols)) :
    k * k * n * n <= 100 * x /\ (k + 1) * (k + 1) * n * n > 100 * x

RouteToDrop(drops, p, n) ==
  LET d(t) == RouteTenths(RouteOff2(p, t, n), n)
  IN  CHOOSE k \in {d(t) : t \in drops} : \A t \in drops : k <= d(t)

(* Every point of the line is near a point of the way it replaces, and no    *)
(* nearer a booked drop than that way.                                       *)
RouteNear(along, a, b, drops) ==
  LET n == RouteUp(RouteD2[a][b])
      cells == {along[k] : k \in DOMAIN along}
      far(c) == RouteToDrop(drops, RouteAt(c, c, 0, 1), 1)
      least == CHOOSE k \in {far(c) : c \in cells} : \A c \in cells : k <= far(c)
  IN  \A i \in 0..n :
        LET p == RouteAt(a, b, i, n)
        IN  /\ \E c \in cells : RouteOff2(p, c, n) <= RouteStray * RouteStray * n * n
            /\ drops # {} => RouteToDrop(drops, p, n) >= least - RouteSlack

(* The next corner after the i-th point: the farthest one ahead whose line   *)
(* costs no more than the way it replaces, at least the next.                *)
RouteMayPull(map, drops, p, i, j) ==
  /\ RouteLine(map, p[i], p[j]) <= 2 * RouteSum([k \in 1..(j - i) |-> map[p[i + k]]], j - i) + 1
  /\ RouteNear(SubSeq(p, i, j), p[i], p[j], drops)

RouteCorner(map, drops, p, i) ==
  CHOOSE j \in (i + 1)..Len(p) :
    /\ j = i + 1 \/ RouteMayPull(map, drops, p, i, j)
    /\ \A k \in (j + 1)..Len(p) : ~RouteMayPull(map, drops, p, i, k)

(* The straight runs re-laid, a point a cell's length. *)
RouteRun(a, b) ==
  LET n == CHOOSE n \in 1..(RouteRows + RouteCols) :
                (2 * n - 1) * (2 * n - 1) <= 4 * RouteD2[a][b] /\ 4 * RouteD2[a][b] < (2 * n + 1) * (2 * n + 1)
  IN  [k \in 1..n |-> RouteCell(RouteAt(a, b, k, n), n)]

RoutePulled(map, drops, p) ==
  LET on(s) == LET j == RouteCorner(map, drops, p, s.at) IN [at |-> j, way |-> s.way \o RouteRun(p[s.at], p[j])]
      pulled[n \in 0..Len(p)] ==
        IF n = 0 THEN [at |-> 1, way |-> <<p[1]>>]
        ELSE CHOOSE t \in {IF s.at = Len(p) THEN s ELSE on(s) : s \in {pulled[n - 1]}} : TRUE
  IN  IF Len(p) < 3 THEN p ELSE pulled[Len(p)].way

------------------------------------------------------------------------------
(* A journey's stands.                                                       *)
RouteUsual(ask) == RouteMap(ask, RouteInflate, RouteRim)
RouteTightest(ask) == RouteMap(ask, RouteTight, RouteRimTight)
RouteDrops(ask) == {t.at : t \in {t \in ask.things : t.drop}}

(* The first stretch of a way on passable cells of a costmap built now. *)
RoutePassable(map, way) == \A k \in DOMAIN way : k <= RouteAhead + 1 => map[way[k]] > 0

RouteFrom(way, c) ==
  CHOOSE k \in DOMAIN way :
    \A o \in DOMAIN way : RouteD2[way[k]][c] < RouteD2[way[o]][c] \/ (RouteD2[way[k]][c] = RouteD2[way[o]][c] /\ k <= o)

(* The way kept from the last plan is good while it is fresh, the books as   *)
(* many, the body near it and its first metre passable.                      *)
RouteTrimmed ==
  IF route.kept.way = <<>> THEN <<>>
  ELSE SubSeq(route.kept.way, RouteFrom(route.kept.way, route.ask.from), Len(route.kept.way))

RouteGood ==
  /\ Len(RouteTrimmed) >= 2 /\ ~route.kept.old
  /\ route.kept.books = Cardinality(route.ask.things)
  /\ RouteD2[RouteTrimmed[1]][route.ask.from] <= RouteOff * RouteOff
  /\ RoutePassable(RouteUsual(route.ask), RouteTrimmed)

RouteNoWay == [way |-> <<>>, books |-> 0, old |-> FALSE]

(* A stand's plan: on the usual costmap or, with no way there, on the        *)
(* tightest.                                                                 *)
RoutePlanned(ask, did, inflate, rim) ==
  LET plans(map) == LET found == RouteRaw(ask, map)
                    IN  IF found.found THEN {[did |-> did, map |-> map, raw |-> found.raw]} ELSE {}
  IN  UNION {plans(map) : map \in {RouteMap(ask, inflate, rim)}}

RouteReplans ==
  \E plans \in {RoutePlanned(route.ask, "planned", RouteInflate, RouteRim)} :
    \/ \E plan \in IF plans # {} THEN plans ELSE RoutePlanned(route.ask, "squeezed", RouteTight, RouteRimTight) :
         \E way \in {RoutePulled(plan.map, RouteDrops(route.ask), plan.raw)} :
           route' = [route EXCEPT !.did = plan.did, !.map = plan.map, !.raw = plan.raw, !.way = way,
                       !.kept = [way |-> way, books |-> Cardinality(route.ask.things), old |-> FALSE]]
    \/ /\ plans = {} /\ RoutePlanned(route.ask, "squeezed", RouteTight, RouteRimTight) = {}
       /\ route' = [route EXCEPT !.did = "none", !.map = RouteTightest(route.ask), !.raw = <<>>, !.way = <<>>,
                      !.kept = RouteNoWay]

RouteKeepsOn ==
  route' = [route EXCEPT !.did = "kept", !.map = RouteUsual(route.ask), !.way = RouteTrimmed, !.kept.way = RouteTrimmed]

RouteStands ==
  /\ route.did \in {"asked", "walked"}
  /\ IF RouteGood THEN RouteKeepsOn ELSE RouteReplans

(* Between two stands the body walks, maybe not where it meant to; the map   *)
(* inks a cell, something is booked or forgotten, time passes.               *)
RouteWalks ==
  /\ route.did \in {"planned", "squeezed", "kept"} /\ route.walks < RouteWalksMax
  /\ \E to \in RouteFroms \union {route.way[k] : k \in DOMAIN route.way \cap {1, 2}} :
       LET went == [route EXCEPT !.did = "walked", !.ask.from = to, !.walks = @ + 1]
       IN  \/ route' = went
           \/ route' = [went EXCEPT !.kept.old = TRUE]
           \/ \E c \in RouteVaried : route' = [went EXCEPT !.ask.grid[c] = "wall"]
           \/ \E t \in RouteThings :
                route' = [went EXCEPT !.ask.things = IF t \in @ THEN @ \ {t} ELSE @ \union {t}]

------------------------------------------------------------------------------
(* The frontiers of an exploration.                                          *)
RouteFrontier(ask, c) ==
  /\ ask.grid[c] = "free"
  /\ \E n \in RouteRound[c] : ask.grid[n] = "unknown"

(* Live: not beside what the sensor has already said is there. *)
RouteLive(ask, c) ==
  /\ RouteFrontier(ask, c)
  /\ \A t \in ask.things : RouteD2[t.at][c] > IF t.drop THEN RouteDropKill ELSE RouteBumpKill

RouteFlood(c, among) ==
  LET grown[n \in 0..RouteCount] ==
        IF n = 0 THEN {c}
        ELSE CHOOSE t \in {g \union {x \in among : RouteRound[x] \intersect g # {}} : g \in {grown[n - 1]}} : TRUE
  IN  grown[RouteCount]

RouteGroups(among) == {RouteFlood(c, among) : c \in among}

(* The largest group on the map, reachable or not. *)
RouteLargest(ask) ==
  LET sizes == {Cardinality(g) : g \in RouteGroups({c \in RouteCells : RouteLive(ask, c)})}
  IN  CHOOSE n \in sizes \union {0} : \A m \in sizes : m <= n

RouteFree4(ask, g) == {c \in g : \A b \in ask.blocked : RouteD2[b][c] > RouteBlock}

(* One group: a block takes its cells, not the group; the way goes to the    *)
(* cheapest cell left, and the stand is short of it.                         *)
RouteFrontierOf(ask, s, start, g) ==
  LET free == RouteFree4(ask, g)
      target == CHOOSE c \in free : \A o \in free : s.cost[c] <= s.cost[o]
      path == RouteTrace(s.from, start, target)
  IN  [cells |-> Cardinality(g), target |-> target, path |-> path, cost |-> s.cost[target],
       stand |-> IF Len(path) > RouteBack THEN path[Len(path) - RouteBack] ELSE ask.from]

(* Best first: path cost for each cell, counted up to a cap. *)
RouteWorth(f) == IF f.cells < RouteCap THEN f.cells ELSE RouteCap
RouteBetter(f, g) ==
  \/ f.cost * RouteWorth(g) < g.cost * RouteWorth(f)
  \/ f.cost * RouteWorth(g) = g.cost * RouteWorth(f) /\ f.target < g.target

RouteRanked(S) ==
  [n \in 1..Cardinality(S) |-> CHOOSE f \in S : Cardinality({g \in S : RouteBetter(g, f)}) = n - 1]

RouteList(ask, map) ==
  LET starts == RouteStart(map, ask.from, RouteReaches)
  IN  IF starts = {} THEN <<>>
      ELSE LET start == CHOOSE c \in starts : TRUE
               s == RouteSearched(map, start, 0)
               groups == RouteGroups({c \in RouteCells : s.cost[c] < RouteEndless /\ RouteLive(ask, c)})
               big == {g \in groups : Cardinality(g) >= RouteMin /\ RouteFree4(ask, g) # {}}
           IN  RouteRanked({RouteFrontierOf(ask, s, start, g) : g \in big})

(* An exploration's turn looks for frontiers with the usual margin or, stuck, *)
(* with the tightest.                                                         *)
RouteExplores ==
  /\ route.did = "asked"
  /\ \E inflate \in {RouteInflate, RouteTight}, block \in SUBSET RouteSpots :
       LET ask == [route.ask EXCEPT !.blocked = block]
           map == RouteMap(ask, inflate, RouteRim)
       IN  route' = [route EXCEPT !.did = "explored", !.ask = ask, !.map = map, !.list = RouteList(ask, map)]

------------------------------------------------------------------------------
RouteGrids == {[c \in RouteCells |-> IF c \in RouteVaried THEN v[c] ELSE "free"] : v \in [RouteVaried -> RouteKinds]}

RouteAsked(grid, things, lanes, from, to) ==
  [ask |-> [grid |-> grid, things |-> things, lanes |-> lanes, from |-> from, to |-> to, blocked |-> {}],
   did |-> "asked", map |-> [c \in RouteCells |-> 0], raw |-> <<>>, way |-> <<>>,
   kept |-> RouteNoWay, list |-> <<>>, walks |-> 0]

RouteInit ==
  \E grid \in RouteGrids, from \in RouteFroms, to \in RouteGoals,
     things \in {{}} \union {{t} : t \in RouteThings}, lanes \in {{}} \union {{c} : c \in RouteSpots} :
    route = RouteAsked(grid, things, lanes, from, to)

RouteNext == RouteStands \/ RouteWalks \/ RouteExplores

RouteSpec == RouteInit /\ [][RouteNext]_route

RouteWay == [way : Seq(RouteCells), books : Nat, old : BOOLEAN]

RouteTypeOK ==
  /\ route.did \in {"asked", "planned", "squeezed", "kept", "none", "walked", "explored"}
  /\ route.map \in [RouteCells -> Nat] /\ route.raw \in Seq(RouteCells) /\ route.kept \in RouteWay
  /\ route.walks \in 0..RouteWalksMax

------------------------------------------------------------------------------
(* Dijkstra's heap gives the cheapest ways: what it says of every cell is    *)
(* what the cells round it say, and a way is found wherever there is one.    *)
RouteCertified(map, start, cost) ==
  /\ cost[start] = 0
  /\ \A c \in RouteCells \ {start} :
       cost[c] = IF map[c] = 0 \/ \A n \in RouteAround[c] : cost[n] = RouteEndless THEN RouteEndless
                 ELSE map[c] + (CHOOSE k \in {cost[n] : n \in RouteAround[c]} :
                                  \A n \in RouteAround[c] : k <= cost[n])

RouteCheapest ==
  route.did \in {"planned", "squeezed", "none"} =>
    LET starts == RouteStart(route.map, route.ask.from, RouteReaches)
        ends == RouteStart(route.map, route.ask.to, RouteReaches)
    IN  \A start \in starts, end \in ends :
          LET cost == RouteSearched(route.map, start, 0).cost
          IN  /\ RouteCertified(route.map, start, cost)
              /\ (route.did = "none") <=> (cost[end] = RouteEndless)
              /\ route.did # "none" =>
                   /\ RouteSum([k \in DOMAIN route.raw |-> route.map[route.raw[k]]], Len(route.raw)) = cost[end]
                   /\ \A k \in DOMAIN route.raw :
                        route.raw[k] \in RouteAround[IF k = 1 THEN start ELSE route.raw[k - 1]]

(* Whatever the walked lanes open, Dijkstra's way leads into no wall, nor     *)
(* nearer to a booked rim than the lanes yield to it; and the pulled one,    *)
(* whose points are laid anew, does not leave what is clear by more than a   *)
(* cell.                                                                     *)
RouteClear(rim) ==
  {c \in RouteCells :
     /\ route.map[c] > 0 /\ route.ask.grid[c] # "wall"
     /\ \A t \in route.ask.things :
          t.drop => RouteD2[t.at][c] > rim \/ (c \in RouteLane(route.ask) /\ RouteD2[t.at][c] > RouteYield)}

RouteOffRims ==
  route.did \in {"planned", "squeezed"} =>
    \A clear \in {RouteClear(IF route.did = "planned" THEN RouteRim ELSE RouteRimTight)} :
      /\ \A k \in DOMAIN route.raw : route.raw[k] \in clear
      /\ \A k \in DOMAIN route.way : clear \intersect (RouteRound[route.way[k]] \union {route.way[k]}) # {}

(* The way in hand after a stand is one the body may walk: a new one goes    *)
(* from where Dijkstra's does to where it ends, a kept one has its first     *)
(* metre on passable cells.                                                  *)
RouteWalkable ==
  /\ (route.did \in {"planned", "squeezed"} /\ route.raw # <<>>) =>
       /\ route.way # <<>> /\ route.way[1] = route.raw[1]
       /\ route.way[Len(route.way)] = route.raw[Len(route.raw)]
  /\ route.did = "kept" => RoutePassable(route.map, route.way)

(* No frontier an exploration could go to is left out: a cell of a big       *)
(* enough group that a way leads to is someone's, unless the whole group is  *)
(* blocked; no group it lists is larger than the largest of the map; the     *)
(* list goes from best to worst, each with a way that ends at its target.    *)
RouteNoneLeftOut ==
  route.did = "explored" =>
    /\ \A k \in DOMAIN route.list :
         LET f == route.list[k]
         IN  /\ f.cells >= RouteMin /\ f.cells <= RouteLargest(route.ask)
             /\ RouteLive(route.ask, f.target) /\ f.target \notin {c \in RouteCells : \E b \in route.ask.blocked : RouteD2[b][c] <= RouteBlock}
             /\ \A j \in DOMAIN f.path : route.map[f.path[j]] > 0
             /\ f.path # <<>> => f.path[Len(f.path)] = f.target
             /\ k > 1 => route.list[k - 1].cost * RouteWorth(f) <= f.cost * RouteWorth(route.list[k - 1])
    /\ route.list = <<>> =>
         \A starts \in {RouteStart(route.map, route.ask.from, RouteReaches)} : \A start \in starts :
           LET cost == RouteSearched(route.map, start, 0).cost
               reached == {c \in RouteCells : cost[c] < RouteEndless}
           IN  \A g \in RouteGroups({c \in reached : RouteLive(route.ask, c)}) :
                 Cardinality(g) < RouteMin \/ RouteFree4(route.ask, g) = {}

RouteTrue == RouteCheapest /\ RouteOffRims /\ RouteWalkable /\ RouteNoneLeftOut
=============================================================================
