------------------------------ MODULE MapGraph ------------------------------
(* The map as submaps on a pose graph (maploc/src: pipeline.rs `Slam`,       *)
(* submap_manager.rs, submap.rs, loop_closer.rs, pose_graph.rs), driven as   *)
(* the mapper drives it.  A submap is rigid; the graph's nodes say where     *)
(* each lies, the edges between them what odometry, a search or a closure    *)
(* said.  A closure moves the nodes, their submaps and, with the submap that *)
(* is inked, the pose.                                                       *)
(*                                                                           *)
(* A pose is a place on a line and which way the body faces on it: composing *)
(* does not commute, as in the plane.  An odometry reading is the motion     *)
(* since the one before.                                                     *)
EXTENDS Integers, Sequences, FiniteSetsExt

CONSTANTS
  GraphReach,      \* bound: how far from the first anchor a pose lies
  GraphSubmaps,    \* bound: submaps
  GraphTurns,      \* bound: steps that are not walking, inking and standing
  GraphMaxAge, GraphMaxTravel, GraphMinTravel,  \* SubmapManagerConfig
  GraphJump,       \* RELOCALIZED_JUMP_M
  GraphScans,      \* MAX_RAW_SCANS
  GraphGap, GraphRadius,              \* LoopCloserConfig: min_index_gap, radius_m
  GraphFloor, GraphBase, GraphPer, GraphCap   \* and what a closure may correct

ASSUME GraphAssumption ==
  /\ {GraphReach, GraphSubmaps, GraphMaxAge, GraphMaxTravel, GraphJump, GraphGap, GraphTurns} \subseteq Nat \ {0}
  /\ {GraphMinTravel, GraphRadius, GraphFloor, GraphBase, GraphPer, GraphCap} \subseteq Nat
  /\ GraphScans \in Nat \ {0, 1} /\ GraphMinTravel <= GraphMaxTravel

VARIABLE graph

-----------------------------------------------------------------------------
GraphPoses == [x : -GraphReach .. GraphReach, faces : {-1, 1}]
GraphMotions == [x : -3 * GraphReach .. 3 * GraphReach, faces : {-1, 1}]

GraphCompose(a, b) == [x |-> a.x + a.faces * b.x, faces |-> a.faces * b.faces]
GraphBetween(a, b) == [x |-> a.faces * (b.x - a.x), faces |-> a.faces * b.faces]
GraphFar(a, b) == IF a.x > b.x THEN a.x - b.x ELSE b.x - a.x

GraphHere == [x |-> 0, faces |-> 1]

(* An edge's sigmas: odometry's, a relocalization's, a closure's.            *)
GraphEdges ==
  [from : 1 .. GraphSubmaps, to : 1 .. GraphSubmaps, says : GraphMotions,
   known : {"odometry", "search", "closure"}]

NoAge == -1      \* current_started_s is None

GraphTypeOK ==
  /\ graph \in [maps : Seq([anchor : GraphPoses, scans : 0 .. GraphScans]),  \* the last is inked
                age : NoAge .. GraphMaxAge, switch : BOOLEAN,
                nodes : Seq(GraphPoses), edges : Seq(GraphEdges),
                edgeIn : 0 .. 2 * GraphSubmaps * GraphSubmaps,     \* edge_into_current
                tracked : GraphPoses, odom : BOOLEAN, jumped : BOOLEAN,
                lost : BOOLEAN, frozen : BOOLEAN,   \* the mapper's
                ticked : BOOLEAN,                   \* the last step was a tick
                turns : 0 .. GraphTurns]            \* left, of the bound
  /\ Len(graph.maps) <= GraphSubmaps

GraphBlank(frozen) ==
  [maps |-> <<>>, age |-> NoAge, switch |-> FALSE, nodes |-> <<>>, edges |-> <<>>, edgeIn |-> 0,
   tracked |-> GraphHere, odom |-> FALSE, jumped |-> FALSE, lost |-> FALSE, frozen |-> frozen,
   ticked |-> FALSE, turns |-> GraphTurns]

GraphInit == graph = GraphBlank(FALSE)

Inked(g) == g.maps[Len(g.maps)]
GraphTravel(g) == GraphFar(g.tracked, Inked(g).anchor)

-----------------------------------------------------------------------------
(* `observe_odom` and `set_tracked`.                                         *)
GraphMoved(g, motion) ==
  [g EXCEPT !.tracked = IF g.odom THEN GraphCompose(@, motion) ELSE @, !.odom = TRUE]

GraphSet(g, pose) ==
  [g EXCEPT !.tracked = pose, !.odom = FALSE,
            !.jumped = @ \/ GraphFar(pose, g.tracked) > GraphJump \/ pose.faces # g.tracked.faces]

(* `integrate_weighted`: however many passes, one scan kept, of the first    *)
(* few and if any of it reached the grid.                                    *)
GraphIntegrate(g, touched) ==
  IF touched /\ g.maps # <<>>
  THEN [g EXCEPT !.maps[Len(g.maps)].scans = IF @ < GraphScans THEN @ + 1 ELSE @] ELSE g

-----------------------------------------------------------------------------
(* `detect_loops`: an older submap near the one just frozen, not one of its  *)
(* last predecessors; two different scans that agree at the least; and what  *)
(* they ask to correct is neither nothing nor more than odometry can have    *)
(* drifted in between.                                                       *)
GraphAllowed(gap) == Min({GraphBase + GraphPer * gap, GraphCap})

GraphCloses(g, older, new) ==
  IF /\ older + GraphGap < new
     /\ GraphFar(g.maps[older].anchor, g.maps[new].anchor) <= GraphRadius
     /\ g.maps[new].scans >= 2
  THEN LET expected == GraphBetween(g.maps[older].anchor, g.maps[new].anchor)
       IN {[from |-> older, to |-> new, says |-> says, known |-> "closure"]
            : says \in {m \in GraphMotions :
                          /\ m.faces = expected.faces
                          /\ GraphFar(m, expected) \in GraphFloor .. GraphAllowed(new - older)}}
  ELSE {}

(* Those found: of each older submap one at most.                            *)
GraphLoops(g, new) ==
  {<<>>} \cup (UNION {{<<e>> : e \in GraphCloses(g, older, new)} : older \in 1 .. new - 1})
         \cup (UNION {{<<e, f>> : e \in GraphCloses(g, p[1], new), f \in GraphCloses(g, p[2], new)}
                       : p \in {q \in (1 .. new - 1) \X (1 .. new - 1) : q[1] < q[2]}})

(* `optimize`: the first node is fixed, the others go where they satisfy the *)
(* edges best: anywhere, here, by as much as one closure corrects.           *)
GraphOptimized(g) ==
  LET left(i) == {x \in -GraphReach .. GraphReach : GraphFar([x |-> x], g.nodes[i]) <= GraphCap}
      xs == {f \in [DOMAIN g.nodes -> -GraphReach .. GraphReach] :
               f[1] = g.nodes[1].x /\ \A i \in DOMAIN f : f[i] \in left(i)}
  IN {[i \in DOMAIN f |-> [x |-> f[i], faces |-> g.nodes[i].faces]] : f \in xs}

(* Mutant: a pose just measured is carried off as any other. *)
GraphCarriedOff(g, jumped, nodes) ==
  LET n == Len(g.nodes)
  IN [g EXCEPT !.nodes = nodes,
               !.maps = [i \in DOMAIN g.maps |-> [g.maps[i] EXCEPT !.anchor = nodes[i]]],
               !.tracked = GraphCompose(nodes[n], GraphBetween(g.nodes[n], g.tracked))]

(* The closures found, the graph optimized, every submap put at its node,    *)
(* the pose carried with the last; but a pose just measured against the map  *)
(* stays, and its new submap with it.                                        *)
GraphCarried(g, jumped, nodes) ==
  LET n == Len(g.nodes)
      put == IF jumped THEN [nodes EXCEPT ![n] = g.nodes[n]] ELSE nodes
  IN [g EXCEPT !.nodes = put,
               !.maps = [i \in DOMAIN g.maps |-> [g.maps[i] EXCEPT !.anchor = put[i]]],
               !.tracked = GraphCompose(put[n], GraphBetween(g.nodes[n], g.tracked))]

GraphClosed(g, jumped) ==
  LET told == {[g EXCEPT !.edges = @ \o loops] : loops \in GraphLoops(g, Len(g.maps) - 1) \ {<<>>}}
  IN {g} \cup {GraphCarried(p[1], jumped, p[2]) : p \in told \X GraphOptimized(g)}

-----------------------------------------------------------------------------
(* `SubmapManager::tick`, and `Slam::tick` round it.                         *)
GraphArmed(g) == [g EXCEPT !.age = IF @ = NoAge THEN 0 ELSE @]

GraphDue(g) ==
  \/ g.switch
  \/ g.age >= GraphMaxAge /\ GraphTravel(g) >= GraphMinTravel
  \/ GraphTravel(g) >= GraphMaxTravel

GraphOpened(g) ==
  LET n == Len(g.nodes)
      chain == [from |-> n, to |-> n + 1, says |-> GraphBetween(g.nodes[n], g.tracked),
                known |-> IF g.jumped THEN "search" ELSE "odometry"]
      opened == [g EXCEPT !.maps = Append(@, [anchor |-> g.tracked, scans |-> 0]),
                          !.age = 0, !.switch = FALSE, !.jumped = FALSE,
                          !.nodes = Append(@, g.tracked),
                          !.edges = IF n = 0 THEN @ ELSE Append(@, chain),
                          !.edgeIn = IF n = 0 THEN 0 ELSE Len(g.edges) + 1]
  IN IF n >= 2 THEN GraphClosed(opened, g.jumped) ELSE {opened}

(* An empty submap is anchored anew, its node and the edge into it as well.  *)
GraphReanchored(g) ==
  LET n == Len(g.nodes)
      put == [g EXCEPT !.maps[n] = [anchor |-> g.tracked, scans |-> 0],
                       !.age = 0, !.switch = FALSE, !.jumped = FALSE,
                       !.nodes[n] = g.tracked]
      from == g.edges[g.edgeIn].from
      into == [g.edges[g.edgeIn] EXCEPT
                 !.says = GraphBetween(g.nodes[from], g.tracked),
                 !.known = IF GraphFar(g.tracked, g.nodes[n]) > GraphJump THEN "search" ELSE @]
  IN IF g.edgeIn = 0 THEN put ELSE [put EXCEPT !.edges[g.edgeIn] = into]

GraphTicked(g) ==
  IF g.maps = <<>> THEN GraphOpened(g)
  ELSE LET armed == GraphArmed(g)
       IN IF ~GraphDue(armed) THEN {armed}
          ELSE IF Inked(g).scans = 0 THEN {GraphReanchored(armed)} ELSE GraphOpened(armed)

-----------------------------------------------------------------------------
(* What the mapper does with it.  An odometry sample, at a state's time; the *)
(* tick is not made on a lost pose, nor on a frozen map.                     *)
GraphTurn == graph.turns > 0     \* the bound
GraphLater(n) == IF n < GraphMaxAge THEN n + 1 ELSE n
GraphTicks(g) == ~g.lost /\ ~g.frozen

GraphObserve ==
  \E x \in {-1, 0, 1}, faces \in {-1, 1} :
    LET moved == GraphMoved(graph, [x |-> x, faces |-> faces])
        later == [moved EXCEPT !.age = IF @ = NoAge THEN @ ELSE GraphLater(@),
                               !.ticked = GraphTicks(graph),
                               !.turns = IF faces = 1 THEN @ ELSE @ - 1]
    IN /\ faces = 1 \/ (x = 0 /\ GraphTurn)
       /\ graph' \in IF GraphTicks(graph) THEN GraphTicked(later) ELSE {later}

(* A window inked, where the pose is trusted.                                *)
GraphInks ==
  /\ GraphTicks(graph)
  /\ \E touched \in BOOLEAN :
       graph' = [GraphIntegrate(graph, touched) EXCEPT !.ticked = FALSE]

(* What `tracking_correction` may ask of a pose: never nothing, a little at   *)
(* the most, and as the body faces.                                          *)
GraphDeltas == {[x |-> x, faces |-> 1] : x \in {-1, 1}}

(* A stand's window corrects the pose; a correction more than the ink        *)
(* absorbs cuts the submap.                                                  *)
GraphCorrects ==
  /\ ~graph.lost /\ GraphTurn
  /\ \E delta \in GraphDeltas, cut \in BOOLEAN :
       graph' = [GraphSet(graph, GraphCompose(graph.tracked, delta)) EXCEPT
                   !.switch = @ \/ cut, !.ticked = FALSE, !.turns = @ - 1]

GraphLoses ==
  /\ ~graph.lost /\ GraphTurn
  /\ graph' = [graph EXCEPT !.lost = TRUE, !.ticked = FALSE, !.turns = @ - 1]

(* `resume_at`: found, the submap manager sees the jump before the window    *)
(* that found it is inked; on a map to be frozen neither happens.            *)
GraphResumes ==
  /\ graph.lost
  /\ \E pose \in GraphPoses, settles \in BOOLEAN :
       LET found == [GraphSet(graph, pose) EXCEPT !.lost = FALSE]
       IN graph' \in {[IF settles \/ g.frozen THEN g ELSE GraphIntegrate(g, TRUE) EXCEPT !.ticked = FALSE]
                       : g \in IF found.frozen THEN {found} ELSE GraphTicked(found)}

GraphFreezes ==
  /\ GraphTurn
  /\ graph' = [graph EXCEPT !.frozen = ~@, !.ticked = FALSE, !.turns = @ - 1]

(* Mutant: the edge into the submap that is inked is not found again. *)
GraphEdgeNotAgain(g) == 0

(* The session does not store which edge leads into the submap inked.        *)
GraphEdgeAgain(g) ==
  LET n == Len(g.nodes)
  IN Max({0} \cup {i \in DOMAIN g.edges : g.edges[i].from = n - 1 /\ g.edges[i].to = n})

(* Saved and resumed: a boot, a load.  The pose is as it was saved.          *)
GraphRestarts ==
  /\ GraphTurn
  /\ \E lost \in BOOLEAN :
       graph' = [graph EXCEPT !.age = NoAge, !.switch = FALSE, !.odom = FALSE,
                              !.jumped = FALSE, !.lost = lost, !.ticked = FALSE, !.turns = @ - 1,
                              !.edgeIn = GraphEdgeAgain(graph)]

(* The bounds: the last submap's opening ends it, and what closes with it.   *)
GraphBounded ==
  /\ Len(graph.maps) < GraphSubmaps
  /\ graph'.tracked \in GraphPoses

GraphNext ==
  /\ \/ GraphObserve \/ GraphInks \/ GraphCorrects \/ GraphLoses \/ GraphResumes
     \/ GraphFreezes \/ GraphRestarts
  /\ GraphBounded

GraphSpec == GraphInit /\ [][GraphNext]_graph

-----------------------------------------------------------------------------
(* Every submap lies where its node says, none frozen is empty, and one edge *)
(* leads into the submap that is inked - whichever was re-anchored, resumed  *)
(* or cut short.                                                             *)
GraphAnchored ==
  /\ Len(graph.nodes) = Len(graph.maps)
  /\ \A i \in DOMAIN graph.nodes : graph.nodes[i] = graph.maps[i].anchor
  /\ \A i \in 1 .. Len(graph.maps) - 1 : graph.maps[i].scans > 0
  /\ Len(graph.maps) >= 2 =>
       LET e == graph.edges[graph.edgeIn]
       IN graph.edgeIn # 0 /\ e.from = Len(graph.maps) - 1 /\ e.to = Len(graph.maps)

(* Before the first closure the edges agree with the nodes: one that tells   *)
(* an old story lies in wait for the first, which then moves the map by it.  *)
GraphAgrees ==
  (\A i \in DOMAIN graph.edges : graph.edges[i].known # "closure") =>
    \A i \in DOMAIN graph.edges :
      LET e == graph.edges[i] IN e.says = GraphBetween(graph.nodes[e.from], graph.nodes[e.to])

(* A submap inked is closed in time, resumed ones too: once a tick has seen  *)
(* where the body is, it is not an old one the body has left, nor one it has *)
(* left behind.                                                              *)
GraphInTime ==
  graph.ticked => /\ graph.age # NoAge /\ GraphTravel(graph) < GraphMaxTravel
                  /\ graph.age = GraphMaxAge => GraphTravel(graph) < GraphMinTravel

GraphTrue == GraphAnchored /\ GraphAgrees /\ GraphInTime

(* Ink and pose stay together: a submap opens where the body is, whatever    *)
(* closures come of the one it closes; and opened by a jump, where the       *)
(* search put the body, the closures of what it left do not move it.         *)
GraphRides ==
  [][LET n == Len(graph.maps)
         e == graph'.edges[graph'.edgeIn]
     IN n > 0 /\ Len(graph'.maps) > n =>
          /\ graph'.tracked = Inked(graph').anchor
          /\ e.known = "search" => graph'.tracked = GraphCompose(graph.nodes[n], e.says)]_graph
=============================================================================
