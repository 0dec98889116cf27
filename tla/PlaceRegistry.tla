---------------------------- MODULE PlaceRegistry ----------------------------
(***************************************************************************)
(* Which map a taught place belongs to (places.rs), and what the registry  *)
(* is told of the live map: by the tools that change it (tools.rs), by the *)
(* jobs that save it, by the homecoming, and by the frames of the map lane *)
(* (map.rs, MapStatus).                                                    *)
(*                                                                         *)
(* The map host changes the live map when a library call reaches it; the   *)
(* registry hears of it in a later step, and the lane's frames later still.*)
(* A map is a number, minted when one starts from nothing, and a lineage   *)
(* is the registry's number for the map it believes in: `of` (history)     *)
(* says which map it was minted for.  An Option is a set, {} or of one.    *)
(*                                                                         *)
(* Not here: anchors, radii, the pose; a file that cannot be written; a    *)
(* frame of the lane that is dropped.                                      *)
(***************************************************************************)
EXTENDS Naturals

CONSTANTS Names,        \* names a map may be saved under
          NoName,       \* the live map has none
          Spots,        \* names of places
          Grace,        \* GRACE_FRAMES
          Unseen,       \* what may happen that the registry cannot see
          MaxSize,      \* bound: submaps of a map
          MaxMaps,      \* bound: maps started from nothing
          MaxFrames,    \* bound: frames of one run of the daemon
          MaxRestarts,  \* bound: restarts of the daemon
          MaxLineages   \* bound: lineages minted

(* What no call and no look tells the registry: a reset within the grace   *)
(* of another change, with no submap lost, or not seen by the lane when    *)
(* the map is saved ("reset"); a reset the lane saw, and no tool looked at *)
(* before the map was saved ("save"); calls of two threads that cross      *)
(* ("crossed"); a save noted nowhere when the daemon stops ("lost"); at a  *)
(* first look another map than the one left, with as many submaps          *)
(* ("alike").                                                              *)
Causes == {"reset", "save", "crossed", "lost", "alike"}

ASSUME UnseenAssumption == Unseen \subseteq Causes
ASSUME NamesAssumption  == NoName \notin Names
ASSUME BoundsAssumption ==
    /\ {Grace, MaxFrames, MaxRestarts} \subseteq Nat
    /\ {MaxSize, MaxMaps, MaxLineages} \subseteq Nat \ {0}

Maps     == 1..MaxMaps
None     == 0                       \* no map, no lineage, no submap
Lineages == 1..MaxLineages

(* Registry: its file, what it keeps in memory, and the history.  The      *)
(* file is written at every change of its own fields.                      *)
Registries ==
    [maps : [Names -> Nat],                         \* File
     fileLive : Nat, fileName : Names \cup {NoName},
     fileSubmaps : 0..MaxSize, unclaimed : Nat, places : [Spots -> Nat],
     live : Nat, confirmed : BOOLEAN,               \* memory
     awaiting : BOOLEAN, asked : SUBSET Nat, watch : SUBSET Nat,
     claim : Names \cup {NoName},
     minted : Nat, of : [Lineages -> Maps \cup {None}]]

Library == [map : Maps \cup {None}, size : 0..MaxSize]
Frames  == [map : Maps \cup {None}, size : 0..MaxSize, new : BOOLEAN]
NoFrame == [map |-> None, size |-> 0, new |-> FALSE]
Idle    == [at |-> "idle", name |-> NoName, map |-> None, frames |-> 0]
Tools   == {Idle}
    \cup [at : {"loaded", "saved"}, name : Names, map : Maps, frames : Nat]
    \cup [at : {"wiped", "fresh"}, name : {NoName}, map : Maps, frames : Nat]

VARIABLES
    map, size,   \* the live map and its submaps
    newborn,     \* no frame was drawn since the mapper took it up
    begun,       \* maps started from nothing so far
    library,     \* the saved maps
    pipe, hand,  \* the lane: a frame on its way, MapStatus.latest
    frames, epoch, epochFrames,     \* MapStatus, likewise
    reg,         \* Registry
    tool,        \* a tool between the map host's answer and the registry
    jobSaves,    \* a session's save the job has not noted yet
    saved,       \* ExploreHandle.saved: the sessions' saves nobody took yet
    boot,        \* the homecoming
    restarts,    \* of the daemon, so far
    unfolded     \* history: a reset nobody asked for, not looked at yet

mapper == <<map, size, newborn, begun, library>>
lane   == <<pipe, hand, frames, epoch, epochFrames>>
saves  == <<jobSaves, saved>>
vars   == <<mapper, lane, reg, tool, saves, boot, restarts, unfolded>>

-----------------------------------------------------------------------------
(* The registry, operation by operation; m is the map a lineage stands for. *)

NextOf(r) == r.minted + 1
Mint(r, m) == [r EXCEPT !.minted = NextOf(r), !.of = [@ EXCEPT ![NextOf(r)] = m]]

GoLive(r, l, name, at) ==
    [r EXCEPT !.claim = IF @ = name THEN @ ELSE NoName,
              !.live = l, !.fileLive = l, !.fileName = name, !.fileSubmaps = 0,
              !.confirmed = FALSE, !.asked = {at}]

ClaimedBefore(r, n) ==
    r.maps[n] # None /\ \E s \in Spots : r.places[s] = r.maps[n]

Loaded(r, n, at, m) ==
    LET seen    == IF r.maps[n] # None THEN r
                   ELSE [Mint(r, m) EXCEPT !.maps[n] = NextOf(r)]
        claimed == [seen EXCEPT !.claim =
                      IF r.unclaimed # None /\ ~ClaimedBefore(seen, n) THEN n ELSE NoName]
    IN  GoLive(claimed, seen.maps[n], n, at)

StartedAfresh(r, at, m) ==
    GoLive([Mint(r, m) EXCEPT !.claim = NoName], NextOf(r), NoName, at)

(* Mutant: an exploring session's save leaves the name to its old lineage. *)
SavedAsOnce(r, n, m) ==
    IF r.live = None \/ r.maps[n] # None THEN r
    ELSE [r EXCEPT !.maps[n] = r.live, !.fileName = n]

AskedAt(r) == IF r.asked = {} THEN 0 ELSE CHOOSE at \in r.asked : TRUE

SavedAs(r, n, m) ==
    LET known == IF r.live # None THEN r
                 ELSE GoLive(Mint(r, m), NextOf(r), NoName, AskedAt(r))
    IN  [known EXCEPT !.maps[n] = known.live, !.fileName = n,
                      !.unclaimed = IF @ = known.live THEN None ELSE @]

(* A look at the lane: a reset nobody asked for, the first look of a run,  *)
(* a confirmation, the submaps.                                            *)
Reset(r, look) ==
    /\ r.live # None
    /\ \E seen \in r.watch : seen # look.epoch
    /\ ~ \E at \in r.asked : look.epochFrames <= at + Grace

(* Mutant: the new lineage of a first look is not noted in the file. *)
FirstLookUnnoted(r, look) ==
    IF r.live # None \/ r.awaiting THEN r
    ELSE IF r.fileLive # None /\ look.submaps >= r.fileSubmaps
      THEN [r EXCEPT !.live = r.fileLive, !.confirmed = FALSE]
      ELSE [Mint(r, look.map) EXCEPT !.live = NextOf(r), !.fileName = NoName, !.confirmed = FALSE]

FirstLook(r, look) ==
    IF r.live # None \/ r.awaiting THEN r
    ELSE IF r.fileLive # None /\ look.submaps >= r.fileSubmaps
      THEN [r EXCEPT !.live = r.fileLive, !.confirmed = FALSE]
      ELSE [Mint(r, look.map) EXCEPT !.live = NextOf(r), !.fileLive = NextOf(r),
                                     !.fileName = NoName, !.confirmed = FALSE]

(* The claim is taken either way; it counts if it is the live map's. *)
SettleClaim(r) ==
    IF r.unclaimed = None THEN r
    ELSE IF r.live = r.unclaimed THEN [r EXCEPT !.unclaimed = None, !.claim = NoName]
    ELSE IF r.claim = NoName \/ (r.claim # NoName /\ r.maps[r.claim] # r.live)
      THEN [r EXCEPT !.claim = NoName]
      ELSE [r EXCEPT !.claim = NoName, !.unclaimed = None,
                     !.places = [s \in Spots |->
                        IF r.places[s] = r.unclaimed THEN r.live ELSE r.places[s]]]

(* Mutant: any frame in hand confirms the pose on the map that was loaded. *)
ConfirmAtOnce(r, look) ==
    IF r.live # None /\ look.trusted /\ ~r.confirmed
      THEN SettleClaim([r EXCEPT !.confirmed = TRUE]) ELSE r

Confirm(r, look) ==
    IF /\ r.live # None /\ look.trusted /\ ~r.confirmed
       /\ \A at \in r.asked : look.frames > at + 1
      THEN SettleClaim([r EXCEPT !.confirmed = TRUE]) ELSE r

Measure(r, look) ==
    IF r.live # None /\ \A at \in r.asked : look.frames > at + Grace
      THEN [r EXCEPT !.fileSubmaps = look.submaps] ELSE r

Observe(r, look) ==
    LET a == IF Reset(r, look) THEN StartedAfresh(r, look.frames, look.map) ELSE r
        b == [a EXCEPT !.watch = {look.epoch}]
        c == FirstLook(b, look)
    IN  Measure(Confirm(c, look), look)

(* Registry::state. *)
State(r, s) ==
    LET l       == r.places[s]
        kept    == \E n \in Names : r.maps[n] = l
        waits   == (r.live = None \/ r.awaiting) /\ (kept \/ l = r.fileLive)
    IN  IF l = r.live THEN IF r.confirmed THEN "usable" ELSE "pending"
        ELSE IF waits \/ l = r.unclaimed THEN "pending"
        ELSE IF kept THEN "otherMap" ELSE "stale"

(* Registry::can_teach. *)
CanTeach(r) == r.live # None /\ ~(r.awaiting /\ r.fileName = NoName)

-----------------------------------------------------------------------------
TypeOK ==
    /\ map \in Maps /\ size \in 0..MaxSize /\ newborn \in BOOLEAN /\ begun \in Maps
    /\ library \in [Names -> Library]
    /\ {pipe, hand} \subseteq Frames
    /\ {frames, epoch, epochFrames} \subseteq Nat
    /\ reg \in Registries
    /\ tool \in Tools
    /\ {jobSaves, saved} \subseteq Names \cup {NoName}
    /\ boot \in {"off", "on", "wiped", "said"}
    /\ unfolded \in BOOLEAN /\ restarts \in Nat

(* A registry that knows nothing; and one with a place on the map saved as *)
(* n, by a file of version 2 or by one of version 1 (FileV1::migrate).     *)
NewRegistry ==
    [maps |-> [n \in Names |-> None], fileLive |-> None, fileName |-> NoName,
     fileSubmaps |-> 0, unclaimed |-> None, places |-> [s \in Spots |-> None],
     live |-> None, confirmed |-> FALSE, awaiting |-> FALSE,
     asked |-> {}, watch |-> {}, claim |-> NoName,
     minted |-> 0, of |-> [l \in Lineages |-> None]]

Migrated ==
    [Mint(NewRegistry, 1) EXCEPT !.fileLive = 1, !.fileSubmaps = MaxSize, !.unclaimed = 1,
                                 !.places = [s \in Spots |-> 1]]

Kept(n) == [Migrated EXCEPT !.unclaimed = None, !.maps[n] = 1, !.fileName = n]

OneSaved(n, m) == [x \in Names |-> IF x = n THEN [map |-> m, size |-> MaxSize]
                                 ELSE [map |-> None, size |-> 0]]

Init ==
    /\ \/ /\ reg = NewRegistry /\ boot = "off"         \* a first power-on
          /\ library = [n \in Names |-> [map |-> None, size |-> 0]]
          /\ map = 1 /\ size = 1
       \/ \E n \in Names : \E r \in {Migrated, Kept(n)} :    \* the working session resumed
            /\ reg = r /\ boot = "off"
            /\ library = OneSaved(n, 1)
            /\ map = 1 /\ size = MaxSize
       \/ \E n \in Names : \E r \in {Migrated, Kept(n)} :    \* a boot with the homecoming
            /\ reg = [r EXCEPT !.awaiting = TRUE] /\ boot = "on"
            /\ library = OneSaved(n, 1)
            /\ MaxMaps > 1 /\ map = 2 /\ size = 1
    /\ begun = map /\ newborn = TRUE
    /\ pipe = NoFrame /\ hand = NoFrame
    /\ frames = 0 /\ epoch = 0 /\ epochFrames = 0
    /\ tool = Idle /\ jobSaves = NoName /\ saved = NoName
    /\ unfolded = FALSE /\ restarts = 0

-----------------------------------------------------------------------------
(* The mapper and the map lane. *)

TakesUp(m, s) == map' = m /\ size' = s /\ newborn' = TRUE

StartAfresh ==
    /\ begun < MaxMaps
    /\ begun' = begun + 1
    /\ TakesUp(begun + 1, 1)
    /\ UNCHANGED library

SaveLive(n) ==
    /\ library' = [library EXCEPT ![n] = [map |-> map, size |-> size]]
    /\ UNCHANGED <<map, size, newborn, begun>>

Seen(cause, when) == when => cause \in Unseen

(* A submap is metres of walking, a frame a second: no map grows before    *)
(* its first frame is drawn.                                               *)
Grow ==
    /\ size < MaxSize /\ ~newborn
    /\ size' = size + 1
    /\ UNCHANGED <<map, newborn, begun, library, lane, reg, tool, saves, boot, restarts, unfolded>>

Draw ==
    /\ pipe = NoFrame
    /\ pipe' = [map |-> map, size |-> size, new |-> newborn]
    /\ newborn' = FALSE
    /\ UNCHANGED <<map, size, begun, library, hand, frames, epoch, epochFrames,
                   reg, tool, saves, boot, restarts, unfolded>>

(* MapStatus::absorb. *)
Absorb ==
    /\ pipe # NoFrame /\ frames < MaxFrames
    /\ LET reset == hand # NoFrame /\ pipe.new /\ pipe.size < hand.size
       IN  /\ epoch' = IF reset THEN epoch + 1 ELSE epoch
           /\ epochFrames' = IF reset THEN frames + 1 ELSE epochFrames
    /\ hand' = [pipe EXCEPT !.new = FALSE]
    /\ frames' = frames + 1
    /\ pipe' = NoFrame
    /\ UNCHANGED <<mapper, reg, tool, saves, boot, restarts, unfolded>>

(* The map starts over with nobody asking here: robotd restarted, a client *)
(* wiped it directly.  It can be noticed once the map in hand has submaps  *)
(* to lose and the grace of the last change asked for is over.             *)
Noticeable ==
    /\ tool = Idle /\ jobSaves = NoName /\ boot # "wiped"
    /\ pipe = NoFrame /\ ~newborn
    /\ hand.map = map /\ hand.size > 1
    /\ reg.live # None /\ reg.watch = {epoch}
    /\ \A at \in reg.asked : frames >= at + Grace

StartsOver ==
    /\ StartAfresh
    /\ unfolded' = TRUE
    /\ Seen("reset", ~Noticeable)
    /\ UNCHANGED <<lane, reg, tool, saves, boot, restarts>>

-----------------------------------------------------------------------------
(* The tools that look: Places::fold, then what the tool itself does. *)

(* The pose of the frame in hand changes between frames (absorb_pose): a   *)
(* look finds it trusted or not.                                           *)
TheLook(trusted) ==
    [epoch |-> epoch, epochFrames |-> epochFrames, frames |-> frames,
     submaps |-> hand.size, trusted |-> trusted, map |-> hand.map]

TakeSaves(r) == IF saved = NoName THEN r ELSE SavedAs(r, saved, library[saved].map)

Folded(trusted) ==
    LET r == TakeSaves(reg)
    IN  IF hand = NoFrame THEN r ELSE Observe(r, TheLook(trusted))

Becomes(r) == r.minted <= MaxLineages /\ reg' = r

Alike ==
    LET r == TakeSaves(reg)
    IN  /\ hand # NoFrame /\ r.live = None /\ ~r.awaiting /\ r.fileLive # None
        /\ hand.map # r.of[r.fileLive] /\ hand.size >= r.fileSubmaps

Looks ==
    /\ tool = Idle
    /\ saved' = NoName
    /\ unfolded' = (unfolded /\ hand.map # map)
    /\ Seen("alike", Alike)
    /\ UNCHANGED <<mapper, lane, tool, jobSaves, boot, restarts>>

Look == Looks /\ \E trusted \in BOOLEAN : Becomes(Folded(trusted))

(* remember_place where the duck stands, or at a point of the map. *)
Remember(s) ==
    /\ hand # NoFrame
    /\ Looks
    /\ \E trusted \in BOOLEAN :
         LET r == Folded(trusted)
         IN  CanTeach(r) /\ Becomes([r EXCEPT !.places[s] = r.live])

Forget(s) ==
    /\ tool = Idle
    /\ Becomes([reg EXCEPT !.places[s] = None])
    /\ UNCHANGED <<mapper, lane, tool, saves, boot, restarts, unfolded>>

-----------------------------------------------------------------------------
(* The tools that change the live map: the map host first, under the robot *)
(* mutex, then the registry - the jobs' saves taken before.                *)

(* A map that started over unasked is saved: the lane has not seen it yet, *)
(* or it has, and no tool has looked since.                                *)
SavesAKnownMap ==
    /\ Seen("reset", unfolded /\ hand.map # map)
    /\ Seen("save", unfolded /\ hand.map = map)

Crossing == jobSaves # NoName \/ boot = "wiped"

Call(at, n, m) ==
    tool' = [at |-> at, name |-> n, map |-> m, frames |-> IF at = "fresh" THEN frames ELSE 0]

LoadCall(n) ==          \* robot.map_load, robot.map_adopt
    /\ tool = Idle /\ library[n].map # None
    /\ TakesUp(library[n].map, library[n].size)
    /\ Call("loaded", n, library[n].map)
    /\ Seen("crossed", Crossing)
    /\ UNCHANGED <<begun, library, lane, reg, saves, boot, restarts, unfolded>>

WipeCall(at) ==         \* robot.map_wipe, robot.map_explore fresh
    /\ tool = Idle
    /\ StartAfresh
    /\ Call(at, NoName, begun + 1)
    /\ Seen("crossed", Crossing)
    /\ UNCHANGED <<lane, reg, saves, boot, restarts, unfolded>>

SaveCall(n) ==          \* robot.map_save, robot.map_explore complete
    /\ tool = Idle
    /\ SaveLive(n)
    /\ Call("saved", n, map)
    /\ Seen("crossed", Crossing) /\ SavesAKnownMap
    /\ UNCHANGED <<lane, reg, saves, boot, restarts, unfolded>>

(* Places::map_loaded, map_started_afresh and map_saved.  A fresh session  *)
(* tells the frames there were when it wiped the map.                      *)
Told(r) ==
    CASE tool.at = "loaded" -> Loaded(r, tool.name, frames, tool.map)
      [] tool.at = "wiped"  -> StartedAfresh(r, frames, tool.map)
      [] tool.at = "fresh"  -> StartedAfresh(r, tool.frames, tool.map)
      [] tool.at = "saved"  -> SavedAs(r, tool.name, tool.map)

Tell ==
    /\ tool # Idle
    /\ Becomes(Told(TakeSaves(reg)))
    /\ saved' = NoName
    /\ tool' = Idle
    /\ unfolded' = (unfolded /\ tool.at = "saved")
    /\ UNCHANGED <<mapper, lane, jobSaves, boot, restarts>>

-----------------------------------------------------------------------------
(* A session's end saves the map without the robot mutex, then notes it    *)
(* (end_session).                                                          *)

SessionSaves(n) ==
    /\ jobSaves = NoName /\ saved = NoName      \* bound: one at a time
    /\ SaveLive(n)
    /\ jobSaves' = n
    /\ Seen("crossed", tool # Idle \/ boot = "wiped") /\ SavesAKnownMap
    /\ UNCHANGED <<lane, reg, tool, saved, boot, restarts, unfolded>>

SessionNotes ==
    /\ jobSaves # NoName
    /\ saved' = jobSaves
    /\ jobSaves' = NoName
    /\ UNCHANGED <<mapper, lane, reg, tool, boot, restarts, unfolded>>

(* The homecoming: its loads and adoptions are tools; its wipe reaches the *)
(* map host without the robot mutex, and is said with it.                  *)
HomecomingWipes ==
    /\ boot = "on"
    /\ StartAfresh
    /\ boot' = "wiped"
    /\ Seen("crossed", jobSaves # NoName \/ tool # Idle)
    /\ UNCHANGED <<lane, reg, tool, saves, restarts, unfolded>>

HomecomingSays ==
    /\ boot = "wiped" /\ tool = Idle
    /\ Becomes(StartedAfresh(TakeSaves(reg), frames, map))
    /\ saved' = NoName
    /\ boot' = "said"
    /\ unfolded' = FALSE
    /\ UNCHANGED <<mapper, lane, tool, jobSaves, restarts>>

HomecomingSettles ==
    /\ boot \in {"on", "said"} /\ tool = Idle
    /\ Becomes([reg EXCEPT !.awaiting = FALSE])
    /\ boot' = "off"
    /\ UNCHANGED <<mapper, lane, tool, saves, restarts, unfolded>>

(* quack-navd starts again, with the homecoming or not, on the map it left *)
(* or on a fresh one; what was on its way to the registry is lost.         *)
Reread(awaits) ==
    [reg EXCEPT !.live = None, !.confirmed = FALSE, !.awaiting = awaits,
                !.asked = {}, !.watch = {}, !.claim = NoName]

Restart ==
    /\ restarts < MaxRestarts /\ restarts' = restarts + 1
    /\ \E awaits \in BOOLEAN :
         /\ Becomes(Reread(awaits))
         /\ boot' = IF awaits THEN "on" ELSE "off"
    /\ \/ UNCHANGED mapper
       \/ StartAfresh
    /\ pipe' = NoFrame /\ hand' = NoFrame
    /\ frames' = 0 /\ epoch' = 0 /\ epochFrames' = 0
    /\ tool' = Idle /\ jobSaves' = NoName /\ saved' = NoName
    /\ unfolded' = FALSE
    /\ Seen("lost", tool.at = "saved" \/ jobSaves # NoName \/ saved # NoName)

-----------------------------------------------------------------------------
LaneStep == Grow \/ Draw \/ Absorb \/ StartsOver

ToolStep ==
    \/ Look \/ (\E s \in Spots : Remember(s) \/ Forget(s))
    \/ (\E n \in Names : LoadCall(n) \/ SaveCall(n))
    \/ (\E at \in {"wiped", "fresh"} : WipeCall(at))
    \/ Tell

JobStep  == (\E n \in Names : SessionSaves(n)) \/ SessionNotes
BootStep == HomecomingWipes \/ HomecomingSays \/ HomecomingSettles

Next == LaneStep \/ ToolStep \/ JobStep \/ BootStep \/ Restart

Spec == Init /\ [][Next]_vars

-----------------------------------------------------------------------------
(* Properties. *)

(* The live map is the one the file says, and every lineage in use was     *)
(* minted: no lineage minted later can be a place's.                       *)
LiveInv(r) == r.live # None => r.fileLive = r.live
MintInv(r) ==
    /\ {r.live, r.fileLive, r.unclaimed} \subseteq 0..r.minted
    /\ \A n \in Names : r.maps[n] \in 0..r.minted
    /\ \A s \in Spots : r.places[s] \in 0..r.minted
Inv == TypeOK /\ LiveInv(reg) /\ MintInv(reg) /\ reg.minted <= MaxLineages

(* A stale place's map is gone for good: whatever is loaded, saved, reset  *)
(* or restarted, it is not used again until it is taught again.            *)
Stale(r, s) == r.places[s] # None /\ State(r, s) = "stale"
StaleIsFinal ==
    [][\A s \in Spots : Stale(reg, s) /\ reg'.places[s] = reg.places[s] => Stale(reg', s)]_vars

(* What a tool calls usable is on the map the frame in hand is of, for     *)
(* every order of calls, frames and sessions' saves: no look ends with the *)
(* pose confirmed on a lineage of another map (observe).  While the        *)
(* homecoming has yet to say its wipe the registry cannot know.            *)
Misplaced(r) == r.confirmed /\ r.of[r.live] # hand.map
ConfirmedIsHere ==
    [][boot # "wiped" /\ Misplaced(reg') => ~(Look \/ \E s \in Spots : Remember(s))]_vars

(* A saved name's lineage is the one of the map saved under it. *)
Settled == tool = Idle /\ jobSaves = NoName /\ saved = NoName
Means(n) == reg.maps[n] # None => reg.of[reg.maps[n]] = library[n].map
NamesMeanMaps == Settled => \A n \in Names : Means(n)

(* Places are stale once another map is saved over theirs, "unless that    *)
(* was the same map, saved again" (Registry::saved_as).                    *)
SavedAgainKeepsPlaces ==
    [][tool.at = "saved" /\ tool' = Idle
         /\ reg.maps[tool.name] # None /\ reg.of[reg.maps[tool.name]] = tool.map =>
       \A s \in Spots : Stale(reg', s) => Stale(reg, s)]_vars
=============================================================================
