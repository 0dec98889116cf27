# quacknav in TLA+

quacknav lets a small biped with a time-of-flight eye map a house, come home to
a saved map after a power-on, walk to named places and stop when it is told to.
`quack-navd` (crate `quack-nav`) is the daemon that decides all of it; `maploc`
is the mapper it hosts; `quack-duck` speaks to `robotd`, which moves the motors
and is not in the repository. These modules model the daemon's own control - who may
move the duck, what it remembers of a house, which map a taught place belongs
to - and the mapper and the walking below it as far as their control goes, with
the planning and the reading of the map on small grids. Source lines are given as `file:line` under
`quack-nav/src/` unless another crate is named.

Contents: 1 the system, 2 what is hard in it, 3 the modules and how they
correspond to the code, 4 the runs, 5 the proofs, 6 what the runs refute and
what was noticed on the way, 7 what is not modelled, 8 the plan.

## 1. The system

| part | state it keeps | operations | talks to |
|---|---|---|---|
| **socket server** `bin/quack-navd.rs`, `sockets.rs` | one `Robot` behind one mutex; a thread per connection | one JSON line in, one answer out; a STOP or a move acts before the mutex too (`before_the_lock`) | tools |
| **tools** `tools.rs` | none of its own | `go_to`, `map_explore` (start, watch, fresh, stop, complete), `map_step`, `map_save/load/adopt/wipe`, places' tools | explore handle, registry, map host, body |
| **explore handle** `explore/mod.rs:326-1180` | `ExploreStatus` behind a mutex, flags `stop`, `held`, `halted`, the session slot, the ground book's name and file | `start`, `start_goto`, `watch`, `relocalize_then`, `user_stop`, `halt`, `user_asks`, `search_began/ended`, `finish`, `keep_ground`, `declare_done`, `end_session` | every thread of the daemon |
| **a job's thread** `explore/mod.rs:1138`, `Job::run` | its own books, trail, walls, mode | a turn: look at the stop, at the pose, at the map; walk a leg or look closer; end | its own lane to robotd, the explore handle |
| **relocator** `relocate.rs` | a channel of requests | walk and look until the pose is confirmed, then call the tool again | explore handle, tools |
| **homecoming** `homecoming/` | none that outlives the boot | load the newest map, search on it; else wipe, scout a fresh map, ask the host for a match, adopt | tools, map host, registry |
| **places registry** `places.rs` | `places.json` (lineages, names, places, the live map, its submaps) and what a run knows of the live map | `observe`, `loaded`, `started_afresh`, `saved_as`, `remember`, `forget`, `state`, `can_teach` | tools; a copy of the map lane's status |
| **map lane, client** `map.rs` | `MapStatus`: latest frame, its epoch, poses since | a reader thread that reconnects; `absorb`, `absorb_pose` | map host |
| **map host** `mapd/` | the live map, the library, bands, autosave, freeze; a queue of events | wipe, save, load, adopt, match, freeze; a frame a second to subscribers; the head's sweep | `maploc` |
| **drop lane** `cliff.rs` | the last cliff reading and its age | freshness, persistence | robotd; jobs |
| **planning** `frontier.rs`, `passage.rs`, `ledger.rs`, `oracle.rs`, `rlnav/`, `knobs.rs` | grids, costs, the ledger of what the body did | frontiers, A*, passages, a learned policy | a job |
| **mapper** `maploc` | pose, trust (tracking, lost, suspect), submaps, pose graph | windows of scans in; pose, frames, relocalisation out | map host |
| **body** `quack-duck` | one request lane per owner | requests and answers with versions, moves, looks | robotd |
| **training, scripts** `quack-rl`, `scripts` | - | simulator, trainer, packaging, studies | - |

How they meet: callers' threads, the relocator and the homecoming take the
robot mutex around a tool; a job's thread never does. All of them share the
explore handle, whose status has a mutex of its own that is taken in short
sections, with atomics beside it. The tools call the map host over its socket,
and afterwards tell the explore handle (`map_named`, `name_live_map`) and the
registry (`map_loaded`, `map_saved`, `map_started_afresh`); the frames that show
the change come on the map lane later.

What makes each part correct:

- *job control*: one job at a time; a hand and a leg do not drive together
  unnoticed; a stop that was answered ends every job and holds whatever the duck
  would do on its own account; the status never sticks; nobody waits for ever.
- *sessions and the ground book*: the file is never about a map that was not
  saved; the user's word is not lost to a session's end; a map's drops stay with
  that map; the boot's search is never saved as the house.
- *places*: a name means the map saved under it; *usable* means on the map the
  frame is of; *stale* is for good.
- *map host*: a band is never beside a session it was not drawn with; what the
  worker takes for saved is on disk; a frozen map is not inked.
- *map lane*: a pose is read against the frame it was drawn with.
- *mapper's trust*: trusted again only on evidence of this loss; a lost pose inks
  nothing but at the window that finds it.
- *mapper's graph and grid*: every submap lies where its node says; the field a
  scan is scored by is that of the walls as they are; a search says when its
  answer is not the only one.
- *homecoming*: a house is adopted only on answers that agree, never over a map
  that was to be kept; the search for the pose never walks blind on an old look.
- *a job's turns, ways and books*: a job ends; a hole once booked stays booked; a
  turn beside a drop does not walk at it.
- *planning*: the cheapest way over the map as booked, off the rims, none left out.
- *drop lane*: what was seen from elsewhere is not said of here.
- *ledger*: what is learned stays in a band round the code's numbers, each walk's
  apart from the others'; a file that does not read is lost whole, once.

## 2. What is hard in it

`hazards` in PROJECT.json lists each at its line. In short: the status is taken in
one section and the flags in the next, so a stop can fall between them; the
relocator lets the robot go between "found" and the tool it calls again;
`complete` waits for a job with the robot mutex in hand; three threads read and
write `ground.json` whole with no lock around the pair; a job saves the map
without the robot mutex; the registry hears of a change of map in three orders
(the tool's word, a session's late word, the frames'), and after a restart has
to guess which map it is on. In the mapper: five ways to lose a pose meet four
ways to find one, each with counters the others must reset; a closure moves the
submaps while a search is about to place one; a cached field outlives the walls
it was made of unless every writer says so. Under a job: what the sensor saw is
used after the body moved; counters of stalls, touches and refusals each end a
way unless another resets them first; the head has three owners and cannot tell
two of them apart; a drop books a hole in the frame of a map that may move.

## 3. Modules

`DuckMotion` is the abstract specification; `JobControl` implements it.
`SessionBook` and `PlaceRegistry` each take a different slice of the same
threads: the three are not composed into one state space, since they share no
variable but "a job runs" and "which map is live", which each keeps itself. The
`MC` modules extend a component for TLC; the `Proofs` modules extend it for TLAPS.

### DuckMotion - the promise
`driver` is on whose account a job runs ("none", "own", "user"), `stopped` that a
user's stop was answered and nothing asked for since. A job starts only from
"none", and one of the duck's own never while `stopped`.

### JobControl - who may move the duck
Code: `explore/mod.rs:326-1180`, `Job::run`'s shape, `tools.rs` (`before_the_lock`,
`drive_by_hand`, `asked`, `stop_motion`, `go_to`, `map_explore`, its completion),
`relocate.rs`, `homecoming/mod.rs`, `bin/quack-navd.rs:199-235`.

| variable | code |
|---|---|
| `state`, `selfStarted` | `ExploreStatus.state`, `.self_started` is some |
| `stop`, `held`, `halted` | the handle's flags |
| `queue` | the relocator's channel; its head is the request in hand until the tool is called again |
| `lock` | the robot mutex |
| `pc`, `tool` | where each thread is, in which tool ("step" while it searches) |
| `jobPc`, `jobKind`, `jobBy` | a job's thread, the tool that began it, on whose account |
| `adopted` | the homecoming has its saved map back |
| `stopped` | history, for the properties |

One action is one section of the status with the flags set in it. `start_job` is
three (`Begin`, `ClearStop`, `Spawn`/`ConnectFails`), because the stop flag is
cleared after the status was let go (`explore/mod.rs:1116`); `relocalize_then` is two
(`Relocalize`, `Request`); a STOP is two (`HaltNow` before the robot mutex,
`StopTool` with it). Tool bodies run between `Acquire` and `Return`. A tool that
only looks or answers is not listed. `tool = "scout"` is `map_explore` with
`session: false`.

### SessionBook - what is remembered of a house
Code: `explore/mod.rs:561-805, 1037-1168, 1370-1415`, the map tools and `map_explore` in
`tools.rs`, `homecoming/mod.rs:204-216, 401-404`.

`file` is `ground.json`: for each name the maps its drops were sensed on, and the
progress (`none`, `open`, `done`, `declared` = done by the user's word). `copy[w]` is
what a writer has read and not written yet: every read of the file and every write
of it is an action, by the tool, by the job's end and by `keep_ground` at the job's
tail, after its end was published. `live`, `minted`, `library` are the mapper's, a map
being a number given out when one starts from nothing. `map` and `searching` are the
`Ground`; `drops`, `inHand`, `running` the status; `jobName` is the session slot, set
before `start_job` may fail, left as it is by a journey or a watch, taken at the
job's end. `adopts` is a map the homecoming's adoption has named and is about to
name again (`homecoming/mod.rs:404`).

### PlaceRegistry - which map a place is on
Code: `places.rs`, `tools.rs:41-47, 146-183, 278-390`, `map.rs:610-628`, the parts of
`mapd/mod.rs`, `homecoming/mod.rs` and the daemon's start that change the live map.

`reg` is the registry as one record, each operation an operator from a record to a
record (`Loaded`, `StartedAfresh`, `SavedAs`, `Observe` and its stages), as in the code
where they are methods over one struct. Lineages are numbers; `of` (history) says for
which map one was minted. `map`, `size`, `library` are the map host's; `pipe` is a frame on
its way, `hand` the latest, `frames`, `epoch`, `epochFrames` the lane's counters. A tool that
changes the map is two actions (`LoadCall`, `SaveCall`, `WipeCall`; then `Tell`), a session's
save two (`SessionSaves`, `SessionNotes`), the homecoming's wipe two, and a restart
loses what was on its way.

`Unseen` names what the registry has no means to see; each guard that allows such an
event says which cause it is. With `Unseen = {}` none of them happens. The proofs
hold for every `Unseen`.

### The map's parts (checked together by `MCMaps`)
`MCMaps` extends the nine modules below. They share no state: what crosses from one
to another (a pose found, a submap opened, a frame drawn) is a free choice in each.
A variable `part` says which of them runs in a behaviour; the others stand at one
first state of theirs, so the run checks the union of the nine, not their product.

| module | code | state | what is free |
|---|---|---|---|
| `MapHost` | `mapd/mod.rs` `spawn`, `worker`, `ingest`; `maploc` `session.rs`, `band.rs` | `host`: the worker's locals, its submaps and its band's layers; `disk`: sessions and bands, of the working map and of the library | what the mapper decides; a write that fails; a crash between any two writes |
| `MapLane` | `mapd` `Subscribers`, `render_grid`; `map.rs` `run_map_stream`, `absorb_pose` | `shown`: the mapper that is drawn; `lane`: the queue, the client's frame and pose | when a stream dies |
| `MapperTrust` | `maploc/src/mapper.rs` `observe`, `absorb_window`, `rest_step`, `watch`, `resume_at`, `search_afresh` | `mapper`: one record is the `Mapper` | how a window judges a pose, whether a search finds one; the clocks; `cfg.settle.enabled`, which the daemon leaves off |
| `MapGraph` | `maploc` `pipeline.rs`, `submap_manager.rs`, `submap.rs`, `loop_closer.rs`, `pose_graph.rs`, `optimizer.rs` | `graph`: submaps, nodes, edges, the pose | where the optimizer puts the nodes, within what a closure may correct |
| `GaitLedger` | `ledger.rs`, `cliff.rs` `body_lane` | `ledger`: the book, its file, what is laid over the numbers, the body's watch | what a leg measures; builds, lines, restarts; whether the file reads |
| `HomeRun` | `homecoming/mod.rs` `run`, `adopt`, `resume_exploring` | `run`: where the homecoming is, the answers so far, the live map | a match's answer; the user's stop and jobs |
| `RoutePlan` | `frontier.rs`; `explore/` `books.rs`, `navigate.rs` | `route`: the question, the costmap, the answer | the grid, what is booked |
| `ScanMap` | `accumulator.rs`, `grid.rs`, `relocalize.rs`, parts of `mapper.rs` | `scan`: the room, the log-odds, the cached field, the window, the candidate | what each frame of a window shows, where the duck stands |
| `MapView` | `map.rs`, `explore/mod.rs:1181-1364`, `frontier.rs:436-467` | `view`: the cells inked, the band's walls, the stand | the houses; what is seen when |

*MapHost.* A submap is a number and a map the sequence of its submaps; layer *i* of a
band is drawn at the anchor of submap *i*, so a band is right where the two
sequences agree. `HostSaved` is a save with its two writes and the ways each fails;
`HostBoot` what a boot makes of the files it finds, `torn` ones included.

*MapperTrust.* An operator from a record to the set of records its code may leave,
one for each stage of `observe` and `absorb_window`, composed as the code calls
them. The actions are a state observed, a depth frame, the knobs, another mapper.

*MapGraph.* A pose is a place on a line and which way the body faces on it:
composing two does not commute, as in the plane. `Slam::tick` is one operator,
`GraphTicked`, from the closing of a submap to the carrying of the pose.

*ScanMap.* A square room of 20 cm cells, sixteen beams, quarter turns. The log-odds,
the vote, the field (an exact Euclidean distance transform by two passes), the
scoring, the candidates and their basins, the valley test and the check of a
candidate carried by the odometry are the code's steps; the reference definitions
they are checked against are the distances taken directly, and the room itself.

*RoutePlan.* Dijkstra over the priced costmap with its lanes, rims and hugged walls,
the pull of the way, the frontier groups, and the way a journey keeps between two
stands; checked against the equations of the cheapest costs. The searches are recursive
functions over a number of rounds that is enough for any grid. `ROUTE*` lengths count
cells.

### A job's parts (checked together by `MCBody`)
Composed the same way.

| module | code | state | what is free |
|---|---|---|---|
| `JobTurn` | `explore/` `mod.rs` `run`, `recover.rs`, `close_look.rs`, `rim_tour.rs`, `mapping.rs` | `turn`: the Job and where in its loops it is; `house`: the pose, what is left to see | what the planner reaches; what goes wrong, up to a bound; the slivers a stand re-mints, without one |
| `JobBooks` | `explore/` `books.rs`, `trusted.rs`, parts of `stick.rs`, `journey.rs` | `books`: obstacles, drops, floor walked; `body`: where it is and where the map puts it | falls, jumps, closures; one frame of a stand misread |
| `JobWay` | `explore/` `navigate.rs` `travel`, `stick.rs` | `way`: the counters of a way | bumps, touches, rims, plans; the pilot's answers |
| `HeadSweep` | `mapd/sweep.rs` | `sweep`: the loop's locals; `head`: its other users | glances, other commands, what is wanted |
| `GaitTurn` | `explore/` `gait.rs`, `guarded.rs` | `gait`: the turn, the retreat, what was seen | where a move leaves the body |
| `CliffLane` | `cliff.rs`, `quack-duck/src` `body.rs`, `gait.rs`, `lane.rs` | `cliff`: the body, the last pose told, the frames kept | when the lanes die; what a column of the grid meets |
| `HomeSearch` | `homecoming/search.rs` | `search`: the last look, the steps, the turns tried | what a look shows |
| `StepPlan` | `tools.rs` `plan_step`, `passage.rs`, `cliff.rs` | `step`: what is about the body, the frames, the leg | walls, drops, the leg asked for |
| `PlaceTools` | `places.rs` `remember`, `at_place`; the tools over them | `teach`: the maps, the anchors, the frame in hand | which map comes next; where the duck is taught |

*JobBooks* is a corridor of places with one hole. The map may put the body a place
off, while a pose is not trusted or a fall has shaken it, and may itself move under
the books; a drop booked on such a pose is the hazard.
*GaitTurn* counts the nearest drop in the classes the code tells apart.
*CliffLane* counts time in robotd's states; of the frames kept it knows which kinds
there are (moving, from here, how old), not how many.
*StepPlan* is in centimetres with the code's default margins; the steered leg is
rolled out in fifths and one thing or two stand about the body.
*PlaceTools* is a line of points that each map reads shifted by its own, so that an
anchor taught on one map and read on another is somewhere else.

## 4. Runs

| run | question | answer |
|---|---|---|
| `jobcontrol_trusted` | with the pose trusted: one job, hand against leg, the stop, the completion, DuckMotion | holds |
| `jobcontrol_untrusted` | the same stop through the relocator; does the status stick at Relocalizing | holds |
| `jobcontrol_two_jobs` | one job, through the relocator | refuted, section 6 |
| `jobcontrol_search_and_job` | does the boot's search walk beside a job | refuted |
| `sessionbook` | three writers of one file: books of saved maps only, the user's word | holds |
| `sessionbook_ground` | a map's drops are kept under its own name | refuted |
| `sessionbook_search` | the boot's search is not saved unnamed | refuted |
| `placeregistry` | names, usable, stale, through every order of calls, frames, saves and a restart | holds |
| `placeregistry_reset` | a name means its map, although a reset was seen and not looked at | refuted |
| `placeregistry_again` | the same map saved again keeps its places, also after a restart | refuted |
| `maps` | the map's nine parts: bands and sessions, poses and frames, trust, the graph, the ledger, the homecoming, routes, scans, the grid's readings | holds |
| `body` | a job's nine parts: its turns, books, ways, turns in place, the head, the drop lane, the boot's search, steps, lessons | holds |

**The properties.** `OneJob`; `HandDrivesAlone`: beside a caller's move a leg is in
flight only if the stop has yet to reach it; `OwnMotionWaits`: after an answered stop no
job, leg or search step begins on the duck's own account; `StopEndsTheJob`: the
stop ends the job although `start_job` clears the flag after the status;
`CompletionComes`: the wait with the robot mutex in hand ends; `RelocalizingIsServed`;
`MotionSpec`. `BooksAreOfSavedMaps`; `DeclaredIsCarried`: a declaration is undone only by
`fresh`, or by a write of a copy read before it - a lost update stays possible, and
the property says exactly when. `NamesMeanMaps`, `ConfirmedIsHere`, `StaleIsFinal`. `Inv` of
each module is its inductive invariant, the type invariant being one conjunct.

In `maps`: `HostTrue`: a band agrees with the session beside it, in memory and in
what a boot would read (but after a torn write, which the code cannot see), and
what the worker takes for saved is on disk. `LanePoseOnFrame`. `MapperTrue`: the boot's
search settings go back, and only what is trusted, settled, still and undriven
rests. `MapperCareful`: no step resumes on a seed this loss refuted, lets an
untrusted pose be trusted while no job drives the duck, or inks a frozen map, or a
lost pose but at the window that finds it: at a boot or after a fall on evidence only. With
settling on (`SettleConfig`, off by default, `mapper.rs:480`, and left so by
`mapd/mod.rs:1379-1385`) that window inks nothing on an earlier run's map or after a fall;
off, as in the daemon, it inks (`mapper.rs:2156-2160`). The run and the proofs have both. `GraphTrue`: every submap at its node, none frozen empty, one edge into
the one inked (whichever was re-anchored, resumed or cut short), edges that agree
with the poses, scans kept in time. `GraphRides`: a submap opens where the body is,
and one opened by a jump is not moved by the closures of what it left. `LedgerTrue`:
what is laid over the gait is in the band round this build's prior, or round what the free
walk has learned while the duck carries; what is held for written is in the file; the
walk follows the beak. `LedgerKeeps`: a sample or a reset touches no other walk, and in
the file another line's walks change only at the one write of a process that could not read it
(`afresh`), which loses them whole. `RunTrue`: a house is
adopted on agreeing answers in a row, a map to be kept is not traded, the search is
not saved. `RouteTrue`: Dijkstra's way is the cheapest and clear of walls and rims, the pulled one
within a cell of what is clear, a kept one passable ahead, and no group that can be
reached is left out. `ScanTrue`: a cached field that is served is the
distance field of the walls; ink lies beside a wall or where somebody stood long
enough; the search's answer fits as well as any candidate, its basins are apart and
in order, and it is accepted only if unique; a valley lets a pose through only on a
second stand. `MapsViewTrue`: lanes, first steps, the unknown ahead, the house's box and its
turn agree with the grid; and a true pose is never refuted by a map of true windows.

In `body`: `TurnFinishes`: a job ends although its stands re-mint slivers for ever.
`BooksTrue`: but for a map that moved under them or a record on a slipped pose, the
drops booked are the hole's. `BooksHoleStays`: a hole once booked is forgotten only by a jump
of the live map or a pose a fall had shaken. `WayTrue`: the duck turns from what it
pushes and stands often enough for the mapper. `SweepStandsAside`, `SweepGetsTheHead`: the sweep
writes over somebody's pose no longer than it takes to tell it from a glance, and
has the head in the end. `GaitStaysOff`: no turn walks at a drop that its first look or its
retreat showed. `CliffTrue`: what the lane says of a standing body was seen from where it
stands, and a drop lies within the edges said. `SearchTrue`: the boot's search
ends on the map it searched, never walks blind on an old look, and gets out of a
corner. `StepTrue`: no leg let through reaches over a drop a fresh look saw, one that a passage
steers keeps half a body off it along its way; a leg that is shortened still moves the
body, and ends a margin off the wall; and the mirrored leg in the mirrored world is
planned alike. Left out are legs that are not walked as they are judged (a wall
bends them, or `steer: false` in a passage), and in the mirror the ties: a drop dead ahead,
two drops at one range, two sides as clear as each other. `TeachTrue`: a place leads where it was taught, a lesson on a frame of the map
before is only the one the code leaves open, and what was taught stays.

**Bounds.** JobControl: one caller, the relocator, the homecoming and two jobs (two,
so that a second one can be wrong); one caller is enough for the races of a tool
against the threads that call none, and the robot mutex makes two callers take turns
except before the lock, which the theorems cover for any number of callers. With the
pose untrusted one job and one request: `OneJob` is known to be false there, so the
second job has no part in what that run asks. SessionBook: one name, two maps, so that
a wipe leaves a saved map and a fresh one to be confused. A map with a drop
(`Holed`) is the fresh one in the passing run, both in the others. PlaceRegistry: one house,
one place, two maps (three where a reset comes on top), three or four frames of a
run, one restart, maps of at most two submaps (a fresh one and a grown one, all that
"as many as it had" tells apart), a grace of one frame (the code's five; with two
and four frames a longer run found the same, and the theorems hold for any), three lineages. Its bounds
stop the model - no frame, no map, no lineage is left - so deadlock is not looked
for in its passing run; it is in all the others.

The two sum runs, `maps` and `body`, each part alone (the others at a first state): the
host has one name, two submaps and two mappers, which is a boot and what replaces it (longer
histories are the theorem's); the lane three frames and a queue of two, so that it overflows; the mapper's limits at
two windows, the least at which "one more" differs from "enough"; the graph four
submaps, which lets a closure join two that are not neighbours and a jump open a third,
and one step that is neither walking nor inking (a lost pose, a correction, a freeze,
a restart); the ledger two lines, two builds, two samples kept, three of what is counted; the
homecoming two names, three asks; the routes a grid of 3 x 7 with two cells that vary;
the scan a room of 6 x 6 with two stands, two turns and two windows; the view 7 x 7 with three houses, one
askew. The turns one big group and one sliver, one look, one trouble; the books a corridor of
three; the way limits of two; the head's periods in ticks with the code's order among them; the
drop lane a memory of two states, a settle of three; the search two steps; the step legs
forwards, back, on an arc and in place, things ahead and aside at two distances, a room
open or near, sides of which one or both make a passage, one frame kept; the lesson two
maps a shift of three apart and three points. Most of these parts stop at their bounds, so
deadlock is not looked for there.

**Fairness.** Weak, and only of a job's own thread (`LegEnds`, `TurnEnds`, `JobStops`,
`EndSession`, `JobFinishes`: a thread that runs, whose leg ends, that looks at the flag at
each turn) and of a completion's wait (`CompleteReturns`: it polls every 200 ms, and times
out at 120 s). Nothing is assumed of the robot mutex, which is not fair, of
callers, or of a job ending by itself: the stop is what must end it. In `body`, of a job's
loops (`TurnTurn` or `TurnGoes`), of its clocks (`TurnLate`, `TurnGivesUp`: a deadline or a patience runs out), and of
the sweep's loop (`SweepTick`). `TurnFinishes` does not lean on the job's budget: `TurnEnded` has no
fairness. It excepts a job whose stands re-mint slivers for ever while a big group is
left, for then each turn clears the slivers' patience, and only the budget ends it. In
`maps` there is none; nothing there is promised to come.

## 5. Proofs

All proved for any callers, jobs, names, places, maps and bounds, from the named
ASSUMEs on the constants alone (the threads are distinct; `Default` is a name and `NoName` is
none; bounds are natural numbers), and from the hypotheses a theorem states. Those
hypotheses and what justifies them:

| hypothesis | where | why |
|---|---|---|
| `~Untrusted` | `OneJobHolds`, `HandDrivesAloneHolds`, `MotionRefined` | with an untrusted pose they are false, section 6 |
| `Unseen = {}`, `Grace >= 1` | `NamesHold`, `ConfirmedHolds` | with `Unseen` they are false, section 6; the code's grace is 5 frames (`places.rs:62`), and with none a reset seen in the very frame of a load is taken for one nobody asked for, as the proof attempt showed |
| `CliffBodySettle >= 1`, `CliffDeadman >= 1`, `CliffBodySettle + 1 < CliffSettle` | ASSUME of `CliffLane` | the lane holds a body for moving longer than it takes to stand still; found while proving `CliffHolds` |
| `SweepYield < HeadPause` | ASSUME of `HeadSweep` | robotd's glances are further apart than the sweep yields |
| the band is cleared as far as the cells round the duck's | ASSUME of `MapView` | `BAND_CLEAR_AROUND_M` is 0.15 m, three cells (`map.rs:159`) |
| samples have a greatest value | ASSUME of `GaitLedger` | each `observe_*` refuses a sample out of its range |
| there is a first point and a first map | ASSUME of `PlaceTools` | the house is finite; the first power-on starts a map |
| the legs', drops' and rooms' bounds | ASSUME of `StepPlan` | a leg's ten seconds; what the sensor's three metres see |
| `SearchOld <= 1` | `SearchHolds`, `BodyHolds` | one frame can be on its way when the search begins |

- **JobControlProofs.** `Invariance`, the inductive invariant `Inv`. `OneJob` alone is not
  inductive: two threads could each be past `Begin`. `LockInv` says that a thread at a
  point under the robot mutex is the one that holds it, `JobInv` that `Running` is one
  live job or the one thread between `Begin` and `Spawn`, and that a hand drives beside a live
  job only if held; `StopInv` that no thread of the duck's own is past `asked()` while
  the stop stands; `ToolInv` what a thread past `asked()` is doing, and that a served
  request is still queued. From it `OneJobHolds`, `HandDrivesAloneHolds`, `OwnMotionWaitsHolds`,
  `RelocalizingServed`, and `MotionRefined`, the refinement of DuckMotion: every step maps to
  a step of it or to a stutter.
- **SessionBookProofs.** `Invariance`: `BooksAreOfSavedMaps` needs that every copy of the
  file on its way back (`CopyInv`) and every name on its way to a write (`NameInv`) is in
  order; with it a declaration survives a write because the copy carries it
  (`BooksAreOfSavedMapsHolds`, `DeclaredIsCarriedHolds`).
- **PlaceRegistryProofs.** `Invariance`: the live lineage is the file's, and every lineage
  in use was minted. From it `StaleIsFinalHolds`: a stale place's lineage is nobody's, and a
  new one is never it. It holds whatever `Unseen` is. `MeaningIsKept` is the longer argument:
  the invariant `Meant` says who owes the registry a word. `Known`: the names' and the live
  map's lineages are right (`NamesKnown`, `LiveKnown`, `SavedKnown`), what the lane shows is of the
  live map or of the one before it (`LaneKnown`), a confirmed pose is of the live map
  (`ConfirmedKnown`), and a change not yet told is either still before its frames or after
  them (`UnfoldedKnown`). Beside it `LibraryKnown`, and what each thread in the middle of a
  change has in hand: `ToolKnown`, `JobKnown`, and of the frames on their way `FramesKnown`. From it
  `NamesHold` and `ConfirmedHolds`.
- **MapHostProofs.** `HostKeepsItsFiles`. A band fits its session only because the flags are
  right: the invariant ties `unsaved`, `bandUnsaved`, `kept` and `library` to what the files
  hold, of the worker alive and of the disk a boot would find, through each of the
  writes of a save, failed or cut. For the lane, `LaneInv` = type, `LaneSeqIsOnes` (items of one
  seq in the queue, the client's and the worker's are of one mapper) and `LanePoseOnFrame`.
- **MapperTrustProofs.** `MapperInv`: the record's type with every counter under its limit;
  the boot's settings are kept aside while the search's are in force; untrusted implies
  lost, in a boot's search, and that on a resumed map; whose seed a loss has; a rest excludes a window in hand.
  One lemma per stage of `observe` and `absorb_window`, from a record to every record its
  code may leave, so that the theorems (`MapperHolds`, `MapperStepsCarefully`, and their parts) follow
  the calls.
- **MapPartsProofs.** `RunInv`: the run of agreeing asks is in the answers kept since the last
  refusal (`RunRow`), and where the homecoming is says which maps it has behind it
  (`RunWhere`); `RunKeepsHouses`. `LedgerInv`: each entry's prior and value are in its band, a
  carrying walk's about the free one's, in memory, and what is laid over the numbers
  is the value; the book is behind no line's file but this process's (`LedgerFile`), or empty
  where the file did not read; the medians of samples lie among them (by lemmas on `LedgerNth`);
  `LedgerHolds`, `LedgerKeepsApart`. `GraphInv`: edges run forward; none but `edgeIn` leads into the last
  submap, and that one is no closure; while nothing was closed the edges agree with the nodes. One lemma per action, and per stage of the scan that
  opens, closes and re-lays submaps; `GraphIsTrue`, `GraphRidesOn`. Of what is read off a frame's grid, `ViewInv` is the type; the work is again
  in what is computed from any grid and any stand, and `ViewHolds` is the sum. The rails of a lane are at most a half-cell apart and the march goes by half a cell, so on any
  of the headings, which are threes, fours and fives, a cell in the lane holds a point of some
  rail's march. The same march repeats itself every five cells, so the half-disc counted
  ahead has every cell that a ray ahead passes. The first step off is over cells so near that the band is
  cleared of them. A flood is the least closed set about its cell: the pieces of the unknown that
  touch known floor are what the flood of the open leaves, and a quarter turn takes floods
  to floods and boxes to boxes.
- **MapGridProofs.** Of the map itself, `ScanInv` = `ScanBase` and `ScanLast`. The base: a field that is not dirty
  is the exact one, ink is beside a wall or somebody who stood, each valley kept has the
  direction that its pose and its stand have on the map as it is. The last: what was
  asked last was answered from the map as it is - without it nothing could be
  said of an answer in a later state. The work is in what the steps compute. The envelope of parabolas is the
  lower one (`ScanLow`): of it each sample is read off the parabola that is least there, so two
  passes leave the least squared distance (`ScanFieldExact`). The walk of a beam goes
  from its start to its end and meets the border, so that a beam ends beside a wall or a
  passer-by, and one who is voted for stood (`ScanInkHas`). Distinct keys rank a set as a
  sequence; the seeds keep its first, the basins are joined apart and then sorted. A candidate
  carried by no motion is itself, which is why a valley crossed is another stand's. `ScanHolds`.
  Of the ways over it, `RouteInv` only adds the types: each step makes its promises anew, and
  the work is again in what is computed. A search is sound (`RouteSound`) when what is settled has
  told its neighbours, is told by something settled that is cheaper by its price, and costs no more
  than anything on the heap; a pop keeps that and uses up one of the `RoutePops` there are, so the
  heap runs empty or the end is on top of it (`RouteSearchIs`), and the search that stops at the end agrees there
  with the one that does not (`RouteAgrees`). Costs that rise by the cells' prices make the trace back a way that
  comes nowhere twice, which keeps the prices of any stretch of it under the endless one; so a pulled line
  crosses no shut cell at its samples, and a point of the re-laid run is within a cell of a sample
  (`RouteBeside`, `RouteStraight`). A flood is the least closed set about its cell, so two
  are the same or apart (`RouteFloodsApart`), no two frontiers have a target in common, and ranking them
  loses none. `RouteHolds`.
- **BodyPartsProofs.** `BooksInv`: a pose trusted and not shaken is right (`BodyRight`), so a
  drop is booked in the frame of the map; `BooksHold`, `BooksHoleIsKept`. `WayInv`; `WayHolds`. `SweepInv`
  counts what the sweep has written over somebody's pose by what it has seen of it
  since (`SweepCounted`); `SweepYieldsTheHead`. `GaitInv`; `GaitHolds`. `CliffInv`: the clocks of the
  body's settling against the lane's (`CliffClocks`), what was last told (`CliffLastSaid`), the
  frame that is being judged while the body moves (`CliffJudged`), and those kept from
  elsewhere (`CliffElsewhere`); `CliffHolds`. `SearchInv` follows each look to the leg walked on it
  (`SearchSights`); `SearchHolds`. `TeachInv`: an anchor not taught on an old frame has the coordinate its truth has
  on the map its place is of (`TeachTrueMark`), a confirming pose is of the live map (`TeachShown`), and a
  search's map is unsaved and has no place on it until it is settled (`TeachSearching`); `TeachHolds`.
  `StepHolds`: the plan is a function of what was seen, so the invariant is that the plan
  in hand is the one of the frames and the leg in hand; the work is in the lemmas, on least
  elements and roots, clearings and fits, a passage seen from both its sides, and the
  relation of a plan to its mirror (`StepMirrors`), which goes through every stage.
  `TurnTypeHolds`: that a way is always for something (`TurnJobs`), without which what a failed
  way leaves is not defined. Last, `BodyHolds`: all the parts' invariants together are one of
  the composition (`BodyInv`), so that everything the run `body` checks of a state is proved for any
  constants.

Each proof that a step keeps an invariant has a case per action and, where an
action disturbs it, a step per conjunct.

Only model-checked: liveness under fairness, beyond the prover (`StopEndsTheJob`,
`CompletionComes`, `TurnFinishes`, `SweepGetsTheHead`); of `MapsViewTrue` the half that is
`ScanTruthStands`, since `ViewHolds` is the other: that a map of true windows never refutes the true
pose rests on the thresholds and the room of the run (in another room the beams through
a corner may free a cell of the wall); `MapsTypeOK`, whose parts that have a theorem are proved there
(of the graph's type not the bounds on poses and edges, which are the run's).

## 6. What the runs refute, and what was noticed

1. `jobcontrol_two_jobs`: the relocator says Idle, then calls the tool under the robot mutex. A
   journey that gets there first runs; the replay is refused, and the refusal is
   written over the journey's status as Failed; the next ask starts a second job
   (`relocate.rs:92-95`). `explore/mod.rs:1033`: "Refused while one is running."
2. `jobcontrol_search_and_job`: `search_began` returns silently when a job runs, and the search steps the
   duck beside it (`explore/mod.rs:874`); `tools.rs:132`: "one driver at a time".
3. `sessionbook_ground`: `map_wipe` leaves the live map's name and its drops, so drops of one map are
   kept under another's name (`tools.rs:1295`).
4. `sessionbook_search`: after a stop of the boot's search, `map_explore` with no name takes the house's,
   and its session saves the search over the house (`tools.rs:1657`).
5. `placeregistry_reset`: a save does not look at the lane first; after a reset that the lane has seen the name
   takes the old map's lineage (`tools.rs:174`).
6. `placeregistry_again`: after a restart, a save before any look mints a lineage for a map the file knows; its
   places are stale for good (`places.rs:420`).

Met on the way and in the models, but promised nowhere: a watch after a start that
robotd did not answer ends by saving the map under that start's session
(`Start`, `Journey` and `JobEnds` of SessionBook); a map loaded in the middle of a session
is saved under the session's name; a load that falls between the homecoming's
adoption and its second `map_named` takes the adopted map's name.

### Noticed while modelling
Differences from what a comment says, or behaviour a reader of the code may not
expect. They are in the models as the code has them; no run refutes a promise by them.

*Mapper.* A sit before the first submap leaves the pose lost with nothing to find it
on, until a wipe or a load; `mapper.rs:1046-1050` says it "starts trusting, as it must". `Slam::from_session`
counts one loop too many with a frozen and a current submap (`pipeline.rs:148-152`), so a
resumed map never shows the hint of `tools.rs:444`. A re-anchor after a yaw-only
relocalisation keeps the odometry's confidence on its edge although `set_tracked` counts yaw
as a jump. Motion between the readings around `set_tracked` is lost. Only the four best
candidates of a yaw bin are kept, which may all be of one basin, so that a translated
alias at the same yaw is not seen by the uniqueness test (`relocalize.rs`, `PER_YAW_TOP`);
two residuals of 0 pass its ratio; the order of equal candidates depends on the number
of cores. Short windows pass the vote unfiltered, so that somebody walking by inks.
`mapper.rs`'s doc of the valley check says "With MAPLOC_VALLEY_CROSS=1" though it is on by
default; `mcl.rs`'s header says the runtime wires it, and `mapper.rs` that it was removed.

*Map host.* `Host::ask` gives up after 10 s but its event stays queued (`mapd/mod.rs:244`): a load or a save
the caller was told had failed is carried out later. A shutdown is acknowledged also
when its save failed; a band's write errors are swallowed; a frozen map's band may be
saved beside an older library session (`mapd/mod.rs:905-909`); `wipe_on_boot` leaves the old
`.band`. A pose of a new boot with an equal seq could be applied to the old frame by a client
that outlived it; host and client are one daemon, so `MapLane` has no such case.

*Homecoming.* An ask that failed, or one that fits nothing, does not end the run of
agreeing asks (`config.rs:101`: "consecutive asks must agree"); with `adopt_min_growth` at 1.0 a map
as big as before counts as grown (`mod.rs:23-25`). A load error at boot wipes the map even
when it was to be resumed (`mod.rs:203-206`), and nothing asks there whether the duck is held.
In `search.rs` `turn_to` reads `drop_seen` once and uses it after up to eight pulses and a refused
kick, before a blind step back.

*Exploration.* `explore/mod.rs:1803-1826` lets a stable untrusted pose walk on; `navigate.rs:122-125` fails
its way. `drops_bookable` is set at a turn's or a leg's start only, the jump guard is asked between
turns only, and a map that moved and was frozen before the next turn keeps the books of
the old frame. A drop is dropped as a duplicate of an obstacle that may be forgotten
later (`books.rs`, `remember_local`). A pose trusted right after a fall strikes books while it is
still off (`strike_drops_under`). The pilot alternating between a turn and a refused back-off resets
both counters. `spin` uses the drop it saw before its retreat; `back_off` judges a step back by
the books only; over a stairwell's first step the nearest edge said is beyond the true
one.

*Planning.* The pull samples a straight line twice a cell (`line_cost`, `frontier.rs:856`), but lays its
points anew, one a cell (`frontier.rs:902-909`): between the samples such a point may lie
in a cell the body may not be in, which the line only clips. It is beside one that is
passable, so `RouteTrue` asks no more of the pulled way.

*Head and drop lane.* An idle glance that comes while the head is not wanted sets
`foreign_until` (`sweep.rs:107-121`). The learned settle time is a median, and may be shorter than a
body takes; a reconnection in the middle of a settle says still; with the body's lane
down frames are judged by the last pose told.

*Ledger.* The watch of the mouth is per connection (`cliff.rs:769`): a beak emptied while
the lane is down leaves the ledger on the carrying walk (`ledger.rs:79-81` says "back on its
free numbers at once"). A file that cannot be read or parsed is an empty
book (`ledger.rs:461-473`) and the next write replaces the other lines' walks with it:
`LedgerOpens` has it, and `LedgerKeeps` says that it goes no further. `flush`'s comment
says "a job's end, the daemon's stop" (`ledger.rs:933`); only the stop calls it
(`quack-navd.rs:123`).

*Planning and steps.* `path_to` looks for a start as far as `START_REACH_FAR_M`, `path_to_both`, which journeys use, does not; `go_to` asks
`path_to` with neither things nor lanes, so that it may admit what a journey cannot plan. `path_to`
reverses a way that already runs forward (its callers use its length). A route planned
at the tightest never passes the check that would keep it, so it is planned anew at
each stand. `drop_in_lane` returns the nearest drop by range while a step is judged by the nearest edge,
so a farther drop with a nearer edge is masked, and an arc away from one drop is let
through though it turns towards another. A drop dead ahead counts as on the left. A leg
with `steer: false` in a passage is judged along the passage's leg (`tools.rs:2370-2410`; 2373:
"judged where it will actually go") and walked along the caller's (`tools.rs:2459`). An arc asked
for with a yaw rate of 0.5 to 0.6 in a passage is judged as an arc and steered by the
passage. With `stop_s` 0 the next step may judge frames from before the last leg.

*Places.* `go_to` by a point asks nothing of the registry, so right after a load a point of the
old map is accepted. Refreshing an anchor may bring it within `ANCHOR_MERGE_M` of another;
`where_am_i` looks at the nearest place only, so a duck within a wide place but nearer to a
narrow one is at none.

## 7. Not modelled

- *Numbers*: the scan matcher's and the optimizer's iterations, the window's
  information, the optics, the rendering, the costs' weights, the learned policy.
  Where a decision hangs on them it is a free choice; on the small grids of ScanMap,
  RoutePlan, MapView and StepPlan the decisions are computed.
- *Abstractions of those grids*: ScanMap has quarter turns, sixteen beams and exact
  odometry, a refined pose keeps its quarter, and ties at exactly the basins' distance
  are left out. StepPlan rolls a leg out in fifths and takes a slope for an angle. MapView has
  headings and turns with rational cosines instead of half degrees. MapGraph has a
  line for the plane and any nodes for the optimizer's. PlaceTools has a line for the house.
- *Host::Match* (read only), the pairing of a depth frame with its head pose, the
  decoding of the feeds, the socket's requests, the grid's coding, the status file.
- *Which frontier, which heading*: the panorama's and the guarded step's inner turns,
  the modes; JobTurn takes them as free choices.
- *The ground book's detail*: the lanes, the sessions' count and times.
- *A file that cannot be written or a thread that cannot be spawned* where it is only
  logged or returned (MapHost and GaitLedger do model failed writes); the daemon's
  exit; one tail of a job that outlives the whole of the next job.
- *`maploc/src/mcl.rs`, `planner.rs`*: a particle filter and a planner that nothing runs.
- *The request lane's versions, training, scripts, examples, documents.*

## 8. Plan

Done, in this order: DuckMotion, JobControl, SessionBook, PlaceRegistry with their
proofs; MapHost, MapLane, MapperTrust, MapGraph, GaitLedger, HomeRun, RoutePlan, then ScanMap
and MapView; JobTurn, JobBooks, JobWay, HeadSweep, GaitTurn, CliffLane, HomeSearch, StepPlan, PlaceTools; the
proofs of all the safety properties but those that section 5 says are only model-checked.

Next:

1. `ScanTruthStands`: what must hold of a room and of the thresholds for it to be so in general.
2. A composition of PlaceRegistry with MapLane in place of its one-frame pipe.
