------------------------------- MODULE MCMaps -------------------------------
(* The map's parts on small instances, for TLC: each behaviour is of one     *)
(* part, the others stand at a first state of theirs.  The parts share no    *)
(* state: what crosses from one to another is a free choice in each.         *)
EXTENDS MapHost, MapLane, MapperTrust, MapGraph, GaitLedger, HomeRun, RoutePlan, ScanMap, MapView

VARIABLE part    \* the part that runs

mapsVars == <<part, hostVars, laneVars, mapper, graph, ledger, run, route, scan, view>>

MapsInit ==
  /\ part \in {"host", "lane", "mapper", "graph", "ledger", "run", "route", "scan", "view"}
  /\ IF part = "host" THEN HostInit
     ELSE host = HostFresh([wipeOnBoot |-> FALSE, localize |-> FALSE]) /\ disk = HostDisk0
  /\ LaneInit
  /\ IF part = "mapper" THEN MapperInit ELSE mapper = MapperNew(FALSE, FALSE, FALSE, FALSE)
  /\ GraphInit
  /\ LedgerInit
  /\ IF part = "run" THEN RunInit ELSE run = RunBlank(FALSE, FALSE, FALSE)
  /\ IF part = "route" THEN RouteInit
     ELSE route = RouteAsked([c \in RouteCells |-> "free"], {}, {}, 1, 1)
  /\ IF part = "scan" THEN ScanInit ELSE scan = ScanBlank(CHOOSE r \in ScanRooms : TRUE)
  /\ IF part = "view" THEN ViewInit ELSE view = ViewStart(CHOOSE h \in ViewWalls : TRUE)

MapsNext ==
  /\ UNCHANGED part
  /\ \/ part = "host" /\ HostNext /\ UNCHANGED <<laneVars, mapper, graph, ledger, run, route, scan, view>>
     \/ part = "lane" /\ LaneNext /\ UNCHANGED <<hostVars, mapper, graph, ledger, run, route, scan, view>>
     \/ part = "mapper" /\ MapperNext /\ UNCHANGED <<hostVars, laneVars, graph, ledger, run, route, scan, view>>
     \/ part = "graph" /\ GraphNext /\ UNCHANGED <<hostVars, laneVars, mapper, ledger, run, route, scan, view>>
     \/ part = "ledger" /\ LedgerNext /\ UNCHANGED <<hostVars, laneVars, mapper, graph, run, route, scan, view>>
     \/ part = "run" /\ RunNext /\ UNCHANGED <<hostVars, laneVars, mapper, graph, ledger, route, scan, view>>
     \/ part = "route" /\ RouteNext /\ UNCHANGED <<hostVars, laneVars, mapper, graph, ledger, run, scan, view>>
     \/ part = "scan" /\ ScanNext /\ UNCHANGED <<hostVars, laneVars, mapper, graph, ledger, run, route, view>>
     \/ part = "view" /\ ViewNext /\ UNCHANGED <<hostVars, laneVars, mapper, graph, ledger, run, route, scan>>

MapsSpec == MapsInit /\ [][MapsNext]_mapsVars

(* Every part keeps its type: what the worker, its files, the lane's queue,  *)
(* the mapper's record, the graph, the ledger, the homecoming and the search *)
(* may hold.                                                                 *)
MapsTypeOK ==
  /\ HostTypeOK /\ LaneTypeOK /\ MapperTypeOK /\ GraphTypeOK /\ LedgerTypeOK /\ RunTypeOK /\ RouteTypeOK
  /\ ScanTypeOK /\ ViewTypeOK

(* What a frame's grid is read for (explore/mod.rs, map.rs) agrees with the  *)
(* grid: lanes, first steps, what is left to explore; where the view runs.   *)
(* And a map of true windows is never against the true pose carried to a     *)
(* later one (mapper.rs).                                                    *)
MapsViewTrue == (part = "view" => ViewTrue) /\ ScanTruthStands
=============================================================================
