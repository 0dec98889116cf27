----------------------------- MODULE SessionBook -----------------------------
(***************************************************************************)
(* What quack-navd remembers of a house between one session and the next:  *)
(* the ground book (the drops) and the exploration's progress of each      *)
(* saved map, all in one file, ground.json, written whole                  *)
(* (explore/mod.rs, Ground, keep_ground, declare_done, end_session).       *)
(*                                                                         *)
(* Three threads write it: the caller's or homecoming's that holds the     *)
(* robot mutex (the tool), a job's own (the session's end), and that job's *)
(* tail - keep_ground, after the job's end was published.  No lock covers  *)
(* a read of the file and the write that follows it, so each is a step.    *)
(*                                                                         *)
(* A live map is a number, minted when a map starts from nothing; a book   *)
(* entry is the set of the maps its points were sensed on.  Not here: how  *)
(* many drops and which the trail strikes, the lanes walked beside them,   *)
(* the sessions' count and their times, the freeze (the map host's), the   *)
(* places (PlaceRegistry).                                                 *)
(***************************************************************************)
EXTENDS Naturals

CONSTANTS Names,      \* names a map may be saved under
          NoName,     \* the live map has none
          Default,    \* "casa", the name of a session nobody named
          MaxMaps,    \* bound: maps started from nothing
          Holed       \* the maps with a drop to be sensed

ASSUME NamesAssumption == Default \in Names /\ NoName \notin Names
ASSUME MapsAssumption  == MaxMaps \in Nat \ {0} /\ Holed \subseteq 1..MaxMaps

Maps     == 1..MaxMaps
NoMap    == 0
Progress == {"none", "open", "done", "declared"}
Done     == {"done", "declared"}
Books    == [drops : SUBSET Maps, progress : Progress]
Files    == [Names -> Books]
Writers  == {"tool", "job", "tail"}

VARIABLES
    live,       \* the map the mapper holds
    minted,     \* maps started from nothing so far
    library,    \* the saved maps: under each name, which
    searches,   \* history: the maps that are the boot's search
    file,       \* ground.json
    map,        \* Ground.map: the live map's name
    searching,  \* Ground.searching
    drops, inHand,  \* ExploreStatus: local, progress
    running,    \* ExploreStatus.state = Running
    copy,       \* each writer's copy of the file, from its read to its write
    keep,       \* keep_ground, by the tool and by the tail: where it is
    keepName, keepDrops,        \* and what it has read
    tool, toolName, toolGiven,          \* where the tool is, its name
    job,        \* where the job is
    jobName, jobGiven,          \* the session slot, and then the job's own
    jobGoal,    \* a journey: it has a goal, and is no session
    jobDrops,   \* the job's own books
    boot,       \* where the homecoming's fresh map is
    adopts      \* the map it has adopted, and is about to name again

maps    == <<live, minted, library, searches>>
ground  == <<map, searching>>
books   == <<drops, inHand>>
kept    == <<keep, keepName, keepDrops>>
tools   == <<tool, toolName, toolGiven>>
jobVars == <<job, jobName, jobGiven, jobGoal, jobDrops, running>>
home    == <<boot, adopts>>
vars    == <<maps, file, ground, books, copy, kept, tools, jobVars, home>>

ToolPcs == {"idle", "named", "ground", "books", "save", "keep", "fresh",
            "forget", "unnamed", "cleared", "wait", "close", "declare",
            "declared", "start"}
JobPcs  == {"none", "run", "save", "name", "read", "write", "publish"}
KeepPcs == {"none", "name", "status", "read", "write"}
Keepers == {"tool", "tail"}

TypeOK ==
    /\ live \in Maps /\ minted \in Maps /\ searches \subseteq Maps
    /\ library \in [Names -> Maps \cup {NoMap}]
    /\ file \in Files /\ copy \in [Writers -> Files]
    /\ map \in Names \cup {NoName} /\ searching \in BOOLEAN
    /\ drops \subseteq Maps /\ inHand \in Progress
    /\ keep \in [Keepers -> KeepPcs]
    /\ keepName \in [Keepers -> Names]
    /\ keepDrops \in [Keepers -> SUBSET Maps]
    /\ tool \in ToolPcs /\ toolName \in Names /\ toolGiven \in BOOLEAN
    /\ job \in JobPcs /\ jobName \in Names \cup {NoName} /\ jobGiven \in BOOLEAN
    /\ jobGoal \in BOOLEAN /\ jobDrops \subseteq Maps /\ running \in BOOLEAN
    /\ boot \in {"no", "wiped", "said", "home"} /\ adopts \in Names \cup {NoName}

NoBook == [drops |-> {}, progress |-> "none"]
Empty  == [n \in Names |-> NoBook]

(* A first power-on, or one with a house saved and explored before; the    *)
(* mapper has started a fresh map.                                         *)
Init ==
    /\ \/ library = [n \in Names |-> NoMap] /\ file = Empty /\ live = 1
       \/ /\ MaxMaps > 1 /\ live = 2
          /\ library = [n \in Names |-> IF n = Default THEN 1 ELSE NoMap]
          /\ file = [Empty EXCEPT ![Default].drops = {1} \cap Holed, ![Default].progress = "open"]
    /\ minted = live /\ searches = {}
    /\ map = NoName /\ searching = FALSE
    /\ drops = {} /\ inHand = "none"
    /\ running = FALSE
    /\ copy = [w \in Writers |-> Empty]
    /\ keep = [k \in Keepers |-> "none"]
    /\ keepName = [k \in Keepers |-> Default]
    /\ keepDrops = [k \in Keepers |-> {}]
    /\ tool = "idle" /\ toolName = Default /\ toolGiven = FALSE
    /\ job = "none" /\ jobName = NoName /\ jobGiven = FALSE
    /\ jobGoal = FALSE /\ jobDrops = {}
    /\ boot = "no" /\ adopts = NoName

-----------------------------------------------------------------------------
(* Pieces. *)

(* The mapper starts a map from nothing. *)
StartAfresh ==
    /\ minted < MaxMaps
    /\ minted' = minted + 1
    /\ live' = minted + 1
    /\ UNCHANGED library

(* The mapper saves the live map; it refuses while it is lost. *)
SaveAs(n) == library' = [library EXCEPT ![n] = live] /\ UNCHANGED <<live, minted, searches>>

Read(w)       == copy' = [copy EXCEPT ![w] = file]
Forget(w)     == copy' = [copy EXCEPT ![w] = Empty]
ToolGoes(p)   == tool' = p /\ UNCHANGED <<toolName, toolGiven>>
ToolAnswers   == tool' = "idle" /\ toolName' = Default /\ toolGiven' = FALSE
JobGoes(p)    == job' = p /\ UNCHANGED <<jobName, jobGiven, jobGoal, jobDrops, running>>
KeepGoes(k,p) == keep' = [keep EXCEPT ![k] = p]

(* The name a tool is told, or the live map's own, or the default. *)
NameOf(n, given) ==
    given \/ n = IF map = NoName THEN Default ELSE map

-----------------------------------------------------------------------------
(* keep_ground: the live map's name, the status, the file; then the write. *)

KeepName(k) ==
    /\ keep[k] = "name"
    /\ IF map = NoName
         THEN KeepGoes(k, "none") /\ UNCHANGED keepName
         ELSE KeepGoes(k, "status") /\ keepName' = [keepName EXCEPT ![k] = map]
    /\ UNCHANGED <<maps, file, ground, books, copy, keepDrops, tools,
                   jobVars, home>>

KeepStatus(k) ==
    /\ keep[k] = "status"
    /\ keepDrops' = [keepDrops EXCEPT ![k] = drops]
    /\ KeepGoes(k, "read")
    /\ UNCHANGED <<maps, file, ground, books, copy, keepName, tools, jobVars, home>>

KeepRead(k) ==
    /\ keep[k] = "read"
    /\ Read(k)
    /\ KeepGoes(k, "write")
    /\ UNCHANGED <<maps, file, ground, books, keepName, keepDrops, tools,
                   jobVars, home>>

KeepWrite(k) ==
    /\ keep[k] = "write"
    /\ file' = [copy[k] EXCEPT ![keepName[k]].drops = keepDrops[k]]
    /\ KeepGoes(k, "none") /\ Forget(k)
    /\ keepName' = [keepName EXCEPT ![k] = Default]
    /\ keepDrops' = [keepDrops EXCEPT ![k] = {}]
    /\ UNCHANGED <<maps, ground, books, tools, jobVars, home>>

(* A tool that keeps the ground answers when that is over. *)
ToolKept ==
    /\ tool = "keep" /\ keep["tool"] = "none"
    /\ ToolAnswers
    /\ UNCHANGED <<maps, file, ground, books, copy, kept, jobVars, home>>

-----------------------------------------------------------------------------
(* robot.map_load and robot.map_adopt: the mapper, then map_named. *)

Load(n) ==
    /\ tool = "idle" /\ library[n] # NoMap
    /\ live' = library[n]
    /\ tool' = "named" /\ toolName' = n /\ UNCHANGED toolGiven
    /\ UNCHANGED <<minted, library, searches, file, ground, books, copy, kept,
                   jobVars, home>>

NamedRead ==
    /\ tool = "named"
    /\ Read("tool")
    /\ ToolGoes("ground")
    /\ UNCHANGED <<maps, file, ground, books, kept, jobVars, home>>

NamedGround ==
    /\ tool = "ground"
    /\ map' = toolName /\ searching' = FALSE
    /\ ToolGoes("books")
    /\ UNCHANGED <<maps, file, books, copy, kept, jobVars, home>>

(* The progress is read from the file last, under the status's lock. *)
NamedBooks ==
    /\ tool = "books"
    /\ drops' = copy["tool"][toolName].drops
    /\ inHand' = file[toolName].progress
    /\ ToolAnswers /\ Forget("tool")
    /\ UNCHANGED <<maps, file, ground, kept, jobVars, home>>

-----------------------------------------------------------------------------
(* robot.map_save, and the wipes. *)

Save(n) ==
    /\ tool = "idle"
    /\ SaveAs(n)
    /\ tool' = "save" /\ toolName' = n /\ toolGiven' = TRUE
    /\ UNCHANGED <<file, ground, books, copy, kept, jobVars, home>>

(* name_live_map: the books stay as they are, and so does `searching`. *)
SaveNames ==
    /\ tool = "save"
    /\ map' = toolName
    /\ ToolGoes("keep") /\ KeepGoes("tool", "name")
    /\ UNCHANGED <<maps, file, searching, books, copy, keepName, keepDrops,
                   jobVars, home>>

(* robot.map_wipe: the mapper, and the places; nothing of the ground. *)
Wipe ==
    /\ tool = "idle"
    /\ StartAfresh
    /\ UNCHANGED <<searches, file, ground, books, copy, kept, tools, jobVars, home>>

(* The homecoming has not found itself on the newest map: it wipes without *)
(* the robot mutex, then says so with it (map_searching).                  *)
HomecomingWipes ==
    /\ boot = "no" /\ \E n \in Names : library[n] # NoMap
    /\ StartAfresh
    /\ searches' = searches \cup {live'}
    /\ boot' = "wiped" /\ UNCHANGED adopts
    /\ UNCHANGED <<file, ground, books, copy, kept, tools, jobVars>>

MapSearching ==
    /\ boot = "wiped" /\ tool = "idle"
    /\ map' = NoName /\ searching' = TRUE
    /\ drops' = {} /\ inHand' = "none"
    /\ boot' = "said" /\ UNCHANGED adopts
    /\ UNCHANGED <<maps, file, copy, kept, tools, jobVars>>

(* Two of its asks agree: robot.map_adopt, which names the map; and the    *)
(* homecoming names it again, the robot mutex let go between the two.      *)
HomecomingAdopts(n) ==
    /\ boot = "said" /\ tool = "idle" /\ library[n] # NoMap
    /\ live' = library[n]
    /\ tool' = "named" /\ toolName' = n /\ UNCHANGED toolGiven
    /\ boot' = "home" /\ adopts' = n
    /\ UNCHANGED <<minted, library, searches, file, ground, books, copy, kept, jobVars>>

NamesAgain ==
    /\ adopts # NoName /\ tool = "idle"
    /\ tool' = "named" /\ toolName' = adopts /\ UNCHANGED toolGiven
    /\ adopts' = NoName
    /\ UNCHANGED <<maps, file, ground, books, copy, kept, jobVars, boot>>

-----------------------------------------------------------------------------
(* robot.map_explore: a session of the house, or the boot's search. *)

Explore(n, given) ==
    /\ tool = "idle" /\ ~running
    /\ NameOf(n, given)
    /\ ~(inHand \in Done /\ map = n)       \* the house is already mapped
    /\ tool' = "start" /\ toolName' = n /\ toolGiven' = given
    /\ UNCHANGED <<maps, file, ground, books, copy, kept, jobVars, home>>

(* fresh, confirmed: the mapper wiped, then fresh_map. *)
ExploreFresh(n, given) ==
    /\ tool = "idle" /\ ~running
    /\ NameOf(n, given)
    /\ StartAfresh
    /\ tool' = "fresh" /\ toolName' = n /\ toolGiven' = given
    /\ UNCHANGED <<searches, file, ground, books, copy, kept, jobVars, home>>

FreshRead ==
    /\ tool = "fresh"
    /\ Read("tool")
    /\ ToolGoes("forget")
    /\ UNCHANGED <<maps, file, ground, books, kept, jobVars, home>>

FreshForgets ==
    /\ tool = "forget"
    /\ file' = [copy["tool"] EXCEPT ![toolName].progress = "none"]
    /\ ToolGoes("unnamed") /\ Forget("tool")
    /\ UNCHANGED <<maps, ground, books, kept, jobVars, home>>

FreshGround ==
    /\ tool = "unnamed"
    /\ map' = NoName /\ searching' = FALSE
    /\ ToolGoes("cleared")
    /\ UNCHANGED <<maps, file, books, copy, kept, jobVars, home>>

FreshBooks ==
    /\ tool = "cleared"
    /\ drops' = {} /\ inHand' = "none"
    /\ ToolGoes("start")
    /\ UNCHANGED <<maps, file, ground, copy, kept, jobVars, home>>

(* start_job's thread, with the books of the job before it. *)
Begin(goal) ==
    /\ running' = TRUE
    /\ job' = "run" /\ jobGoal' = goal
    /\ jobDrops' = drops
    /\ UNCHANGED kept

(* robotd does not answer it: finish, and so keep_ground, by the tool. *)
ConnectFails == tool' = "keep" /\ KeepGoes("tool", "name") /\ UNCHANGED <<keepName, keepDrops>>

(* start: the slot is set before start_job, which may fail and leave it;   *)
(* the homecoming's search (session false) is none.                        *)
Start(session) ==
    /\ tool = "start"
    /\ jobName' = IF session THEN toolName ELSE NoName
    /\ jobGiven' = (session /\ toolGiven)
    /\ \/ Begin(FALSE) /\ ToolAnswers
       \/ ConnectFails /\ UNCHANGED <<toolName, toolGiven, job, jobGoal, jobDrops, running>>
    /\ UNCHANGED <<maps, file, ground, books, copy, home>>

(* robot.go_to (a goal) and a watch (none) leave the slot as it is. *)
Journey(goal) ==
    /\ tool = "idle" /\ ~running
    /\ \/ Begin(goal) /\ UNCHANGED tools
       \/ ConnectFails /\ UNCHANGED <<toolName, toolGiven, job, jobGoal, jobDrops, running>>
    /\ UNCHANGED <<maps, file, ground, books, copy, jobName, jobGiven, home>>

-----------------------------------------------------------------------------
(* The job's thread. *)

(* A turn: what it has walked and what its sensor shows, published. *)
JobBooks ==
    /\ job = "run"
    /\ \E more \in {{}, {live} \cap Holed} : jobDrops' = jobDrops \cup more
    /\ drops' = jobDrops'
    /\ UNCHANGED <<maps, file, ground, inHand, copy, kept, tools, job, jobName,
                   jobGiven, jobGoal, running, home>>

(* The slot is taken; a journey's or an empty one is no session to end. *)
JobEnds ==
    /\ job = "run"
    /\ \/ /\ jobName # NoName /\ ~jobGoal
          /\ JobGoes("save")
       \/ /\ jobName = NoName \/ jobGoal
          /\ job' = "publish" /\ jobName' = NoName /\ jobGiven' = FALSE
          /\ UNCHANGED <<jobGoal, jobDrops, running>>
    /\ UNCHANGED <<maps, file, ground, books, copy, kept, tools, home>>

(* Mutant: a session the mapper refused to save is counted all the same. *)
EndSavesOrNot ==
    /\ job = "save"
    /\ SaveAs(jobName) \/ UNCHANGED maps
    /\ JobGoes("name")
    /\ UNCHANGED <<file, ground, books, copy, kept, tools, home>>

(* end_session: a refused save ends it there, the session not counted. *)
EndSaves ==
    /\ job = "save"
    /\ \/ SaveAs(jobName) /\ JobGoes("name")
       \/ UNCHANGED maps /\ JobGoes("publish")
    /\ UNCHANGED <<file, ground, books, copy, kept, tools, home>>

EndNames ==
    /\ job = "name"
    /\ map' = jobName
    /\ JobGoes("read")
    /\ UNCHANGED <<maps, file, searching, books, copy, kept, tools, home>>

EndReads ==
    /\ job = "read"
    /\ Read("job")
    /\ JobGoes("write")
    /\ UNCHANGED <<maps, file, ground, books, kept, tools, home>>

(* Mutant: the user's word is not carried over. *)
EndWritesAnew ==
    /\ job = "write"
    /\ \E verdict \in {"open", "done"} :
         /\ file' = [copy["job"] EXCEPT ![jobName].progress = verdict]
         /\ inHand' = verdict
    /\ JobGoes("publish") /\ Forget("job")
    /\ UNCHANGED <<maps, ground, drops, kept, tools, home>>

(* Done by the share mapped, or not yet; the user's word stays. *)
EndWrites ==
    /\ job = "write"
    /\ \E verdict \in IF copy["job"][jobName].progress = "declared"
                        THEN {"declared"} ELSE {"open", "done"} :
         /\ file' = [copy["job"] EXCEPT ![jobName].progress = verdict]
         /\ inHand' = verdict
    /\ JobGoes("publish") /\ Forget("job")
    /\ UNCHANGED <<maps, ground, drops, kept, tools, home>>

(* finish: the end is published, and keep_ground comes after it.  One tail *)
(* at a time: a job too short to outlive the tail before it is left out.   *)
JobPublishes ==
    /\ job = "publish" /\ keep["tail"] = "none"
    /\ running' = FALSE
    /\ job' = "none" /\ jobName' = NoName /\ jobGiven' = FALSE
    /\ jobGoal' = FALSE /\ jobDrops' = {}
    /\ KeepGoes("tail", "name")
    /\ UNCHANGED <<maps, file, ground, books, copy, keepName, keepDrops,
                   tools, home>>

-----------------------------------------------------------------------------
(* robot.map_explore complete: map_explore_complete. *)

Complete(given) ==
    /\ tool = "idle" /\ ~searching
    /\ tool' = "wait" /\ toolGiven' = given /\ UNCHANGED toolName
    /\ UNCHANGED <<maps, file, ground, books, copy, kept, jobVars, home>>

(* The job has ended, or 120 s have passed; then the map is saved, which   *)
(* the mapper may refuse.                                                  *)
CompleteSaves(n) ==
    /\ tool = "wait"
    /\ NameOf(n, toolGiven)
    /\ SaveAs(n)
    /\ tool' = "close" /\ toolName' = n /\ UNCHANGED toolGiven
    /\ UNCHANGED <<file, ground, books, copy, kept, jobVars, home>>

CompleteRefused ==
    /\ tool = "wait"
    /\ ToolAnswers
    /\ UNCHANGED <<maps, file, ground, books, copy, kept, jobVars, home>>

DeclareReads ==
    /\ tool = "close"
    /\ Read("tool")
    /\ ToolGoes("declare")
    /\ UNCHANGED <<maps, file, ground, books, kept, jobVars, home>>

DeclareWrites ==
    /\ tool = "declare"
    /\ file' = [copy["tool"] EXCEPT ![toolName].progress = "declared"]
    /\ ToolGoes("declared") /\ Forget("tool")
    /\ UNCHANGED <<maps, ground, books, kept, jobVars, home>>

(* The live map named, the progress in hand, and the ground kept. *)
DeclareNames ==
    /\ tool = "declared"
    /\ map' = toolName
    /\ inHand' = "declared"
    /\ ToolGoes("keep") /\ KeepGoes("tool", "name")
    /\ UNCHANGED <<maps, file, searching, drops, copy, keepName, keepDrops,
                   jobVars, home>>

-----------------------------------------------------------------------------
KeepStep == \E k \in Keepers : KeepName(k) \/ KeepStatus(k) \/ KeepRead(k) \/ KeepWrite(k)

MapStep ==
    \/ \E n \in Names : Load(n) \/ Save(n)
    \/ NamedRead \/ NamedGround \/ NamedBooks \/ SaveNames \/ Wipe \/ ToolKept
    \/ HomecomingWipes \/ MapSearching \/ NamesAgain
    \/ \E n \in Names : HomecomingAdopts(n)

ExploreStep ==
    \/ \E n \in Names, given \in BOOLEAN : Explore(n, given) \/ ExploreFresh(n, given)
    \/ FreshRead \/ FreshForgets \/ FreshGround \/ FreshBooks
    \/ \E session \in BOOLEAN : Start(session)
    \/ \E goal \in BOOLEAN : Journey(goal)

SessionStep ==
    JobBooks \/ JobEnds \/ EndSaves \/ EndNames \/ EndReads \/ EndWrites \/ JobPublishes

CompleteStep ==
    \/ \E given \in BOOLEAN : Complete(given)
    \/ \E n \in Names : CompleteSaves(n)
    \/ CompleteRefused \/ DeclareReads \/ DeclareWrites \/ DeclareNames

Next == KeepStep \/ MapStep \/ ExploreStep \/ SessionStep \/ CompleteStep

Spec == Init /\ [][Next]_vars

-----------------------------------------------------------------------------
(* Properties. *)

Saved(n) == library[n] # NoMap

(* Whatever is in a book is under the name of a map that was saved: a      *)
(* session the mapper refused to save leaves nothing behind (end_session). *)
Bound(f) == \A n \in Names : f[n] # NoBook => Saved(n)
BooksAreOfSavedMaps == Bound(file)

(* The inductive strengthening: every copy on its way to the file, and     *)
(* every name on its way to a write.                                       *)
NameInv ==
    /\ map # NoName => Saved(map)
    /\ \A k \in Keepers : keep[k] \in {"status", "read", "write"} => Saved(keepName[k])
    /\ tool \in {"named", "ground", "books", "save", "close", "declare", "declared"}
          => Saved(toolName)
    /\ adopts # NoName => Saved(adopts)
    /\ job \in {"name", "read", "write"} => Saved(jobName)
    /\ job # "none" <=> running
    /\ tool \in {"fresh", "forget", "unnamed", "cleared", "start"} => ~running
    /\ job \in {"save", "name", "read", "write"} => jobName # NoName

CopyInv == \A w \in Writers : Bound(copy[w])

Inv == TypeOK /\ NameInv /\ CopyInv /\ BooksAreOfSavedMaps

(* A declaration goes only with `fresh`, or under a write of a copy that   *)
(* was read before it: a session that ends after it does not undo it.      *)
Declared(f, n) == f[n].progress = "declared"
Writes(w) ==
    \/ w = "job" /\ job = "write" /\ job' = "publish"
    \/ w = "tool" /\ tool = "declare" /\ tool' = "declared"
    \/ w = "tool" /\ tool = "forget" /\ tool' = "unnamed"
    \/ w \in Keepers /\ keep[w] = "write" /\ keep'[w] = "none"
Fresh(n) == tool = "forget" /\ tool' = "unnamed" /\ toolName = n
LostToAnOldCopy ==
    \A n \in Names : Declared(file, n) /\ ~Declared(file', n) =>
        Fresh(n) \/ \E w \in Writers : Writes(w) /\ ~Declared(copy[w], n)
DeclaredIsCarried == [][LostToAnOldCopy]_vars

(* The drops of each saved map are kept under its name: what a keep_ground *)
(* writes was sensed on the map saved under the name it writes (looked at  *)
(* once the homecoming has said its wipe).                                 *)
BookIsTheMaps ==
    [][\A k \in Keepers : boot # "wiped" /\ keep[k] = "write" /\ keep'[k] = "none" =>
          keepDrops[k] \subseteq {library[keepName[k]]}]_vars

(* The boot's search has no name to save under: while it is the live map,  *)
(* and said to be, it is saved under no name the user did not give.        *)
SearchIsNotSaved ==
    [][searching /\ live \in searches /\ library' # library =>
          \/ job = "save" /\ job' = "name" /\ jobGiven
          \/ toolGiven']_vars
=============================================================================
