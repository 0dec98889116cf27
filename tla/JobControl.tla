----------------------------- MODULE JobControl -----------------------------
(***************************************************************************)
(* Who may move the duck: the job control of quack-navd.                   *)
(*                                                                         *)
(* One thread per caller (quack-navd.rs, answer), the relocator            *)
(* (relocate.rs), the homecoming (homecoming/mod.rs) and one thread per    *)
(* background job (explore/mod.rs, start_job) share an ExploreHandle: the  *)
(* status behind a mutex, the flags stop and held, and the note halted.    *)
(* Tools run under the robot mutex (`lock`); a STOP or a hand move also    *)
(* acts before it takes that mutex, and a job's own thread never takes it. *)
(* One action is one section of the status with the flags set beside it;   *)
(* where a function clears a flag after it has taken the status, or a      *)
(* thread waits in between, the two are actions of their own.              *)
(*                                                                         *)
(* Not here: the session slot, the ground book and the progress file       *)
(* (SessionBook), what a job decides at each turn (a leg, an end), the     *)
(* answers' wording, halted_busy (read by the wording only), a thread that *)
(* cannot be spawned, the daemon's exit.                                   *)
(***************************************************************************)
EXTENDS Naturals, FiniteSets, Sequences

CONSTANTS Callers,      \* the socket threads of quack-navd
          Relocator,    \* the relocator's thread
          Homecoming,   \* the boot's thread
          NoThread,     \* the robot mutex is free
          Jobs,         \* identities for the job threads
          Untrusted,    \* whether maploc may mark the pose untrusted
          Asked,        \* bound: the tools the callers of an instance call
          MaxRequests   \* bound: requests waiting for the relocator

Threads == Callers \cup {Relocator, Homecoming}

ASSUME ThreadsAssumption ==
    /\ Relocator # Homecoming
    /\ {Relocator, Homecoming} \cap Callers = {}
    /\ NoThread \notin Threads

ASSUME UntrustedAssumption == Untrusted \in BOOLEAN
ASSUME RequestsAssumption == MaxRequests \in Nat

VARIABLES
    state,        \* ExploreStatus.state
    selfStarted,  \* ExploreStatus.self_started is Some
    stop,         \* the job's stop flag
    held,         \* the user's stop holds the duck's own motion
    halted,       \* what a caller's move halted before it had the robot
    queue,        \* the tools on the relocator's channel, to call again
    lock,         \* who holds the robot mutex
    pc, tool,     \* where each thread is, in which tool ("step" while idle)
    adopted,      \* the homecoming has traded its fresh map for a saved one
    jobPc,        \* where each job thread is
    jobKind,      \* the tool that started it
    jobBy,        \* on whose account: "user" or "own"
    stopped       \* history: a user's stop was answered, nothing asked since

status   == <<state, selfStarted>>
flags    == <<stop, held, halted>>
jobs     == <<jobPc, jobKind, jobBy>>
threads  == <<lock, pc, tool, adopted>>
vars     == <<status, flags, queue, threads, jobs, stopped>>

States   == {"Idle", "Relocalizing", "Searching", "Running",
             "Done", "Stopped", "Failed"}
Busy     == {"Running", "Relocalizing", "Searching"}
Starts   == {"explore", "scout", "watch", "goTo"}   \* scout: session false
Tools    == Starts \cup {"stop", "move", "complete", "step"}

(* The points at which a thread holds the robot mutex ... *)
Locked   == {"exec", "prepare", "begin", "clear", "connect", "request",
             "drive", "awaitJob"}
(* ... and at which it does not. *)
Unlocked == {"idle", "halt", "lock", "seek", "found", "lost", "confirm",
             "failed", "boot", "explore", "mark", "watching", "await", "rest"}
JobPcs   == {"none", "run", "turn", "leg", "end", "publish"}

ASSUME AskedAssumption == Asked \subseteq Tools \ {"step", "scout"}

Own(t)   == t \notin Callers
Alive(j) == jobPc[j] # "none"

TypeOK ==
    /\ state \in States
    /\ {selfStarted, stop, held, halted, adopted, stopped} \subseteq BOOLEAN
    /\ queue \in Seq(Starts)
    /\ lock \in Threads \cup {NoThread}
    /\ pc \in [Threads -> Locked \cup Unlocked]
    /\ tool \in [Threads -> Tools]
    /\ jobPc \in [Jobs -> JobPcs]
    /\ jobKind \in [Jobs -> Starts]
    /\ jobBy \in [Jobs -> {"own", "user"}]

Init ==
    /\ state = "Idle" /\ selfStarted = FALSE
    /\ stop = FALSE /\ held = FALSE /\ halted = FALSE
    /\ queue = <<>> /\ stopped = FALSE
    /\ lock = NoThread /\ adopted = FALSE
    /\ pc = [t \in Threads |-> IF t = Homecoming THEN "boot" ELSE "idle"]
    /\ tool = [t \in Threads |-> "step"]
    /\ jobPc = [j \in Jobs |-> "none"]
    /\ jobKind = [j \in Jobs |-> "goTo"]
    /\ jobBy = [j \in Jobs |-> "user"]

-----------------------------------------------------------------------------
(* Moving a thread. *)

Goto(t, p) == pc' = [pc EXCEPT ![t] = p]

(* Where a thread goes on once its tool has answered r. *)
After(t, r) ==
    CASE t \in Callers                           -> "idle"
      [] t \notin Callers /\ tool[t] = "step"    -> IF r = "found" THEN "found" ELSE "seek"
      [] t = Relocator /\ tool[t] # "step"       -> IF r = "err" THEN "failed" ELSE "idle"
      [] t = Homecoming /\ tool[t] # "step"      -> IF r = "started" THEN "mark" ELSE "explore"

Return(t, r) ==
    /\ Goto(t, After(t, r))
    /\ lock' = NoThread
    /\ tool' = IF t = Homecoming THEN tool ELSE [tool EXCEPT ![t] = "step"]
    /\ UNCHANGED adopted

Stay(t, p) == Goto(t, p) /\ UNCHANGED <<lock, tool, adopted>>

-----------------------------------------------------------------------------
(* A caller's call arrives: before_the_lock, then the robot mutex. *)

MovingItself == state \in Busy /\ selfStarted    \* ExploreHandle::self_started

Call(c, what) ==
    /\ pc[c] = "idle"
    /\ tool' = [tool EXCEPT ![c] = what]
    /\ IF what = "stop" \/ (what = "move" /\ MovingItself)
         THEN Goto(c, "halt") ELSE Goto(c, "lock")
    /\ UNCHANGED <<status, flags, queue, lock, adopted, jobs, stopped>>

(* ExploreHandle::halt: the hold at once, without the robot mutex. *)
HaltNow(c) ==
    /\ pc[c] = "halt"
    /\ stop' = TRUE
    /\ held' = TRUE
    /\ halted' = MovingItself
    /\ Stay(c, "lock")
    /\ UNCHANGED <<status, queue, jobs, stopped>>

Acquire(t) ==
    /\ pc[t] = "lock"
    /\ lock = NoThread
    /\ lock' = t
    /\ Goto(t, "exec")
    /\ UNCHANGED <<status, flags, queue, tool, adopted, jobs, stopped>>

-----------------------------------------------------------------------------
(* The tools that are over in one stretch, and moves by hand. *)

(* Mutant: user_stop leaves the stop flag to what halt() did before. *)
UserStopHoldsOnly ==
    /\ UNCHANGED stop
    /\ held' = TRUE
    /\ stopped' = TRUE
    /\ IF state = "Searching"
         THEN state' = "Stopped" /\ selfStarted' = FALSE
         ELSE UNCHANGED status

(* ExploreHandle::user_stop, carried out by a caller with the robot. *)
UserStop ==
    /\ stop' = TRUE
    /\ held' = TRUE
    /\ stopped' = TRUE
    /\ IF state = "Searching"
         THEN state' = "Stopped" /\ selfStarted' = FALSE
         ELSE UNCHANGED status

StopTool(c) ==
    /\ pc[c] = "exec" /\ tool[c] = "stop"
    /\ UserStop
    /\ Return(c, "ok")
    /\ UNCHANGED <<halted, queue, jobs>>

(* Mutant: a job the user asked for does not refuse the move. *)
HandMoveUnrefused(c) ==
    /\ pc[c] = "exec" /\ tool[c] = "move"
    /\ \/ /\ halted \/ MovingItself
          /\ halted' = FALSE
          /\ UserStop
       \/ ~halted /\ ~MovingItself /\ UNCHANGED <<status, flags, stopped>>
    /\ Stay(c, "drive")
    /\ UNCHANGED <<queue, jobs>>

(* drive_by_hand of a caller: the duck's own motion is stopped for it, a   *)
(* job the user asked for is not.                                          *)
HandMove(c) ==
    /\ pc[c] = "exec" /\ tool[c] = "move"
    /\ \/ /\ halted \/ MovingItself
          /\ halted' = FALSE
          /\ UserStop
          /\ Stay(c, "drive")
       \/ /\ ~halted /\ ~MovingItself
          /\ IF state = "Running" THEN Return(c, "err") ELSE Stay(c, "drive")
          /\ UNCHANGED <<status, flags, stopped>>
    /\ UNCHANGED <<queue, jobs>>

(* drive_by_hand of the duck's own step: refused while held. *)
OwnStep(t) ==
    /\ pc[t] = "exec" /\ tool[t] = "step"
    /\ IF held THEN Return(t, "err") ELSE Stay(t, "drive")
    /\ UNCHANGED <<status, flags, queue, jobs, stopped>>

(* The move and its stand are over; a search may have found the pose. *)
EndDrive(t) ==
    /\ pc[t] = "drive"
    /\ \E r \in IF Own(t) THEN {"ok", "found"} ELSE {"ok"} : Return(t, r)
    /\ UNCHANGED <<status, flags, queue, jobs, stopped>>

(* map_explore_complete: the running job is asked to stop and waited for,  *)
(* the robot mutex kept meanwhile; 120 s at most.                          *)
Complete(c) ==
    /\ pc[c] = "exec" /\ tool[c] = "complete"
    /\ \/ state = "Running" /\ stop' = TRUE /\ Stay(c, "awaitJob")
       \/ state # "Running" /\ UNCHANGED stop /\ Return(c, "ok")
       \/ UNCHANGED stop /\ Return(c, "err")     \* the live map is a search
    /\ UNCHANGED <<status, held, halted, queue, jobs, stopped>>

CompleteReturns(c) ==
    /\ pc[c] = "awaitJob" /\ state # "Running"
    /\ Return(c, "ok")
    /\ UNCHANGED <<status, flags, queue, jobs, stopped>>

CompleteTimesOut(c) ==
    /\ pc[c] = "awaitJob" /\ state = "Running"
    /\ Return(c, "ok")
    /\ UNCHANGED <<status, flags, queue, jobs, stopped>>

-----------------------------------------------------------------------------
(* A job is asked for: go_to and map_explore up to start_job. *)

(* asked(): the user's ask ends the hold, the duck's own is refused while  *)
(* it lasts; then busy() is looked at.                                     *)
MayAskUnheld(t) == TRUE          \* mutant: the hold is not looked at
MayAsk(t) == ~(Own(t) /\ held)

Ask(t) ==
    /\ pc[t] = "exec" /\ tool[t] \in Starts
    /\ IF Own(t)
         THEN UNCHANGED <<held, halted, stopped>>
         ELSE held' = FALSE /\ halted' = FALSE /\ stopped' = FALSE
    /\ \/ ~MayAsk(t) /\ Return(t, "err")
       \/ /\ MayAsk(t) /\ state \in Busy
          /\ Return(t, IF tool[t] = "goTo" THEN "err" ELSE "running")
       \/ MayAsk(t) /\ state \notin Busy /\ Stay(t, "prepare")
    /\ UNCHANGED <<status, stop, queue, jobs>>

(* No frame, no trusted pose, no way there; or a house that is done, which *)
(* map_explore answers with started: false, and the homecoming takes for a *)
(* start.                                                                  *)
Refuse(t) ==
    /\ pc[t] = "prepare"
    /\ \E r \in {"err"} \cup (IF tool[t] = "explore" THEN {"started"} ELSE {}) :
          Return(t, r)
    /\ UNCHANGED <<status, flags, queue, jobs, stopped>>

(* All that go_to and map_explore look at is in order: start_job. *)
Prepare(t) ==
    /\ pc[t] = "prepare"
    /\ Stay(t, "begin")
    /\ UNCHANGED <<status, flags, queue, jobs, stopped>>

(* start_job, in order: the status taken, the stop flag cleared, the job's *)
(* own lane connected and its thread spawned.                              *)
Begin(t) ==
    /\ pc[t] = "begin"
    /\ IF state \in {"Running", "Searching"}
         THEN Return(t, "err") /\ UNCHANGED status
         ELSE state' = "Running" /\ selfStarted' = FALSE /\ Stay(t, "clear")
    /\ UNCHANGED <<flags, queue, jobs, stopped>>

ClearStop(t) ==
    /\ pc[t] = "clear"
    /\ stop' = FALSE
    /\ Stay(t, "connect")
    /\ UNCHANGED <<status, held, halted, queue, jobs, stopped>>

Spawn(t, j) ==
    /\ pc[t] = "connect"
    /\ jobPc[j] = "none"
    /\ jobPc' = [jobPc EXCEPT ![j] = "run"]
    /\ jobKind' = [jobKind EXCEPT ![j] = tool[t]]
    /\ jobBy' = [jobBy EXCEPT ![j] = IF Own(t) THEN "own" ELSE "user"]
    /\ Return(t, "started")
    /\ UNCHANGED <<status, flags, queue, stopped>>

(* ExploreHandle::finish, the status section. *)
Finish(s) == state' = s /\ selfStarted' = FALSE

ConnectFails(t) ==
    /\ pc[t] = "connect"
    /\ Finish("Failed")
    /\ Return(t, "err")
    /\ UNCHANGED <<flags, queue, jobs, stopped>>

-----------------------------------------------------------------------------
(* The pose is untrusted: the relocator finds it, then calls the tool.     *)

(* relocalize_then: the status first, then the stop flag and the request.  *)
Relocalize(t) ==
    /\ Untrusted /\ Len(queue) < MaxRequests
    /\ pc[t] = "prepare"
    /\ IF state \in Busy
         THEN Return(t, "err") /\ UNCHANGED status
         ELSE /\ state' = "Relocalizing" /\ selfStarted' = TRUE
              /\ Stay(t, "request")
    /\ UNCHANGED <<flags, queue, jobs, stopped>>

Request(t) ==
    /\ pc[t] = "request"
    /\ stop' = FALSE
    /\ queue' = Append(queue, tool[t])
    /\ Return(t, "started")
    /\ UNCHANGED <<status, held, halted, jobs, stopped>>

(* The relocator's thread: for request in rx.  The head of `queue` is the  *)
(* request in hand until its tool has been called again.                   *)
TakeRequest ==
    /\ pc[Relocator] = "idle" /\ queue # <<>>
    /\ Stay(Relocator, "seek")
    /\ UNCHANGED <<status, flags, queue, jobs, stopped>>

(* The walk-and-look search, confirmed_within_or, at the top of its loop:  *)
(* a step under the robot mutex, or over - stopped, or out of time.        *)
StopAsked(t) == IF t = Relocator THEN stop ELSE held

SeekStep(t) ==
    /\ pc[t] = "seek" /\ ~StopAsked(t)
    /\ tool' = [tool EXCEPT ![t] = "step"]
    /\ Goto(t, "lock")
    /\ UNCHANGED <<status, flags, queue, lock, adopted, jobs, stopped>>

SeekOver(t) ==
    /\ pc[t] = "seek"
    /\ Stay(t, "lost")
    /\ UNCHANGED <<status, flags, queue, jobs, stopped>>

(* Mutant: a stopped search leaves the status as it is. *)
RelocateEndsUnsaid ==
    /\ pc[Relocator] \in {"found", "lost"}
    /\ IF stop \/ pc[Relocator] = "lost"
         THEN /\ IF stop THEN UNCHANGED status ELSE Finish("Failed")
              /\ queue' = Tail(queue)
              /\ Stay(Relocator, "idle")
         ELSE /\ state' = IF state = "Relocalizing" THEN "Idle" ELSE state
              /\ UNCHANGED <<selfStarted, queue>>
              /\ Stay(Relocator, "confirm")
    /\ UNCHANGED <<flags, jobs, stopped>>

(* relocate::run once the search is over; relocalized(Ok) touches the      *)
(* status only if it still says Relocalizing.                              *)
RelocateEnds ==
    /\ pc[Relocator] \in {"found", "lost"}
    /\ IF stop \/ pc[Relocator] = "lost"
         THEN /\ Finish(IF stop THEN "Stopped" ELSE "Failed")
              /\ queue' = Tail(queue)
              /\ Stay(Relocator, "idle")
         ELSE /\ state' = IF state = "Relocalizing" THEN "Idle" ELSE state
              /\ UNCHANGED <<selfStarted, queue>>
              /\ Stay(Relocator, "confirm")
    /\ UNCHANGED <<flags, jobs, stopped>>

Replay ==
    /\ pc[Relocator] = "confirm"
    /\ tool' = [tool EXCEPT ![Relocator] = Head(queue)]
    /\ queue' = Tail(queue)
    /\ Goto(Relocator, "lock")
    /\ UNCHANGED <<status, flags, lock, adopted, jobs, stopped>>

(* The replayed tool refused: relocalized(Err) finishes the job. *)
ReplayRefused ==
    /\ pc[Relocator] = "failed"
    /\ Finish("Failed")
    /\ Stay(Relocator, "idle")
    /\ UNCHANGED <<flags, queue, jobs, stopped>>

-----------------------------------------------------------------------------
(* A job's thread: a turn may walk one leg.  Its own robot does not take   *)
(* the robot mutex; its moves are the duck's own and are refused while held. *)

JobGoes(j, from, to) ==
    /\ jobPc[j] = from
    /\ jobPc' = [jobPc EXCEPT ![j] = to]
    /\ UNCHANGED <<threads, flags, queue, stopped>>

JobMoves(j, from, to) == JobGoes(j, from, to) /\ UNCHANGED <<jobKind, jobBy>>

(* The turn's first look: a stop was asked for, or the turn goes on. *)
JobStops(j) == stop /\ JobMoves(j, "run", "end") /\ UNCHANGED status
JobTurns(j) == ~stop /\ JobMoves(j, "run", "turn") /\ UNCHANGED status

LegBeginsUnheld(j) ==            \* mutant: the hold does not refuse a leg
    /\ jobKind[j] # "watch"
    /\ JobMoves(j, "turn", "leg")
    /\ UNCHANGED status

LegBegins(j) ==
    /\ ~held /\ jobKind[j] # "watch"
    /\ JobMoves(j, "turn", "leg")
    /\ UNCHANGED status

LegEnds(j)  == JobMoves(j, "leg", "run") /\ UNCHANGED status
TurnEnds(j) == JobMoves(j, "turn", "run") /\ UNCHANGED status

(* Its time, its battery or its frontiers are spent; or it is lost. *)
JobIsOver(j) == JobMoves(j, "turn", "end") /\ UNCHANGED status

(* Mutant: the job's end is published before its session is ended. *)
EndSessionLate(j) ==
    /\ Finish("Done")
    /\ JobMoves(j, "end", "publish")

(* A session's end: the map saved, the progress written (SessionBook). *)
EndSession(j) ==
    /\ JobMoves(j, "end", "publish")
    /\ UNCHANGED status

(* Mutant: the end needs the robot mutex. *)
JobFinishesLocked(j) ==
    /\ lock = NoThread
    /\ \E how \in {"Done", "Stopped", "Failed"} : Finish(how)
    /\ JobGoes(j, "publish", "none")
    /\ jobKind' = [jobKind EXCEPT ![j] = "goTo"]
    /\ jobBy' = [jobBy EXCEPT ![j] = "user"]

JobFinishes(j) ==
    /\ \E how \in {"Done", "Stopped", "Failed"} : Finish(how)
    /\ JobGoes(j, "publish", "none")
    /\ jobKind' = [jobKind EXCEPT ![j] = "goTo"]    \* the thread is gone
    /\ jobBy' = [jobBy EXCEPT ![j] = "user"]

-----------------------------------------------------------------------------
(* The homecoming: a search on the saved map; then an exploring session on *)
(* it, or a scout on a fresh map until a saved one is adopted.             *)

SearchBegins ==
    /\ pc[Homecoming] = "boot"
    /\ IF state \in {"Running", "Relocalizing"}
         THEN UNCHANGED status
         ELSE state' = "Searching" /\ selfStarted' = TRUE
    /\ Stay(Homecoming, "seek")
    /\ UNCHANGED <<flags, queue, jobs, stopped>>

SearchEnds ==
    /\ pc[Homecoming] \in {"found", "lost"}
    /\ IF state = "Searching"
         THEN /\ state' = IF held THEN "Stopped" ELSE "Idle"
              /\ selfStarted' = FALSE
         ELSE UNCHANGED status
    /\ Stay(Homecoming, "explore")
    /\ UNCHANGED <<flags, queue, jobs, stopped>>

(* start_exploring and resume_exploring, one attempt. *)
StartExploring(what) ==
    /\ pc[Homecoming] = "explore" /\ ~held
    /\ what = "explore" \/ (what = "scout" /\ ~adopted)
    /\ tool' = [tool EXCEPT ![Homecoming] = what]
    /\ Goto(Homecoming, "lock")
    /\ UNCHANGED <<status, flags, queue, lock, adopted, jobs, stopped>>

(* The longer search on a frozen map, the short one on a fresh map. *)
SearchAgain ==
    /\ pc[Homecoming] = "explore" /\ ~held /\ ~adopted
    /\ Stay(Homecoming, "boot")
    /\ UNCHANGED <<status, flags, queue, jobs, stopped>>

(* Held, home on a frozen map, or ten attempts refused. *)
StandDown ==
    /\ pc[Homecoming] \in {"explore", "watching", "await"}
    /\ Stay(Homecoming, "rest")
    /\ UNCHANGED <<status, flags, queue, jobs, stopped>>

(* self_start, once map_explore has answered and the robot is free again. *)
SayItself ==
    /\ pc[Homecoming] = "mark"
    /\ selfStarted' = TRUE
    /\ Stay(Homecoming, IF tool[Homecoming] = "scout" THEN "watching" ELSE "rest")
    /\ UNCHANGED <<state, flags, queue, jobs, stopped>>

(* adopt: the scout is stopped and waited for, the saved map adopted, and  *)
(* the search begins again on it.                                          *)
Adopt ==
    /\ pc[Homecoming] = "watching" /\ ~held
    /\ stop' = TRUE
    /\ Stay(Homecoming, "await")
    /\ UNCHANGED <<status, held, halted, queue, jobs, stopped>>

Adopted ==
    /\ pc[Homecoming] = "await" /\ state # "Running" /\ ~held
    /\ adopted' = TRUE
    /\ Goto(Homecoming, "boot")
    /\ UNCHANGED <<status, flags, queue, lock, tool, jobs, stopped>>

-----------------------------------------------------------------------------
(* Steps of the tools, of the relocator, of the homecoming, of the jobs. *)
CallerStep(c) ==
    \/ \E what \in Asked : Call(c, what)
    \/ HaltNow(c) \/ StopTool(c) \/ HandMove(c)
    \/ Complete(c) \/ CompleteReturns(c) \/ CompleteTimesOut(c)

ToolStep(t) ==
    \/ Acquire(t) \/ EndDrive(t) \/ Ask(t) \/ Refuse(t) \/ Prepare(t)
    \/ Begin(t) \/ ClearStop(t) \/ (\E j \in Jobs : Spawn(t, j))
    \/ ConnectFails(t) \/ Relocalize(t) \/ Request(t)

OwnMotion(t) == OwnStep(t) \/ SeekStep(t) \/ SeekOver(t)

RelocatorStep ==
    TakeRequest \/ RelocateEnds \/ Replay \/ ReplayRefused

HomecomingStep ==
    \/ SearchBegins \/ SearchEnds \/ SearchAgain \/ StandDown \/ SayItself \/ Adopt \/ Adopted
    \/ \E what \in {"explore", "scout"} : StartExploring(what)

JobStep(j) ==
    \/ JobStops(j) \/ JobTurns(j) \/ LegBegins(j) \/ LegEnds(j) \/ TurnEnds(j)
    \/ JobIsOver(j) \/ EndSession(j) \/ JobFinishes(j)

Next ==
    \/ \E c \in Callers : CallerStep(c)
    \/ \E t \in Threads : ToolStep(t)
    \/ \E t \in {Relocator, Homecoming} : OwnMotion(t)
    \/ RelocatorStep
    \/ HomecomingStep
    \/ \E j \in Jobs : JobStep(j)

(* A job's thread goes on: a leg ends, a stop is seen at the next turn,    *)
(* the end is carried through.  Nothing is assumed of the robot mutex      *)
(* (std's is not fair), of callers, or of a job ending by itself.          *)
Fairness ==
    /\ \A j \in Jobs :
         /\ WF_vars(LegEnds(j)) /\ WF_vars(TurnEnds(j)) /\ WF_vars(JobStops(j))
         /\ WF_vars(EndSession(j)) /\ WF_vars(JobFinishes(j))
    /\ \A c \in Callers : WF_vars(CompleteReturns(c))

Spec == Init /\ [][Next]_vars /\ Fairness

-----------------------------------------------------------------------------
(* The inductive invariant. *)

(* The robot mutex is held by the one thread at a locked point. *)
LockInv == \A t \in Threads : pc[t] \in Locked <=> lock = t

(* A thread on its way to a start is in a tool that starts, and a request  *)
(* stays at the head of the channel while the relocator serves it.         *)
Starting == {"prepare", "begin", "clear", "connect", "request"}
Serving ==
    \/ pc[Relocator] \in {"seek", "found", "lost", "confirm"}
    \/ pc[Relocator] \in {"lock", "exec", "drive"} /\ tool[Relocator] = "step"
ToolInv ==
    /\ \A t \in Threads : pc[t] \in Starting => tool[t] \in Starts
    /\ Serving => queue # <<>>

(* A stop that was answered holds; and no thread of the duck's own is on   *)
(* its way to a start past asked() meanwhile.                              *)
StopInv ==
    /\ stopped => held
    /\ \A t \in Threads \ Callers : pc[t] \in Starting => ~stopped

(* With the pose trusted nothing goes through the relocator, and Running   *)
(* is one job, or the one thread about to spawn it.                        *)
JobInv ==
    /\ pc[Relocator] = "idle" /\ queue = <<>>
    /\ \A t \in Threads : pc[t] # "request"
    /\ \A j \in Jobs : Alive(j) => state = "Running"
    /\ \A i, j \in Jobs : Alive(i) /\ Alive(j) => i = j
    /\ \A t \in Threads : pc[t] \in {"clear", "connect"} =>
          state = "Running" /\ \A j \in Jobs : ~Alive(j)
    /\ \A c \in Callers : pc[c] = "drive" => held \/ \A j \in Jobs : ~Alive(j)

Inv == TypeOK /\ ToolInv /\ LockInv /\ StopInv /\ (~Untrusted => JobInv)

-----------------------------------------------------------------------------
(* Properties. *)

(* One job at a time: start_job refuses while one runs, and a job's thread *)
(* publishes its end last.  True as long as the pose stays trusted.        *)
OneJob == \A i, j \in Jobs : Alive(i) /\ Alive(j) => i = j

(* While a caller moves the duck by hand, a job's leg is in flight only if *)
(* the stop it was told of has yet to reach it (drive_by_hand).            *)
HandDrivesAlone ==
    \A c \in Callers : pc[c] = "drive" => \A j \in Jobs : jobPc[j] = "leg" => held

(* Once a user's stop has been answered the duck starts nothing on its own *)
(* account - no job, no leg, no step of a search - until a job is asked    *)
(* for (user_stop, asked, drive_by_hand).                                  *)
NothingOwnStarts ==
    stopped =>
      /\ \A j \in Jobs : jobPc[j] = "none" /\ jobPc'[j] # "none" => jobBy'[j] = "user"
      /\ \A j \in Jobs : jobPc'[j] = "leg" => jobPc[j] = "leg"
      /\ \A t \in {Relocator, Homecoming} : pc'[t] = "drive" => pc[t] = "drive"

OwnMotionWaits == [][NothingOwnStarts]_vars

(* A user's stop that was answered ends whatever job runs, although a job  *)
(* that starts clears the flag a moment after it has taken the status.     *)
StopEndsTheJob == stopped ~> (~stopped \/ \A j \in Jobs : ~Alive(j))

(* "Exploration complete" waits for the job with the robot mutex in hand:  *)
(* the job must end without ever needing that mutex.                       *)
CompletionComes == \A c \in Callers : pc[c] = "awaitJob" ~> pc[c] # "awaitJob"

(* The status says Relocalizing only while a request waits or is served:   *)
(* it never sticks there with nobody to end it.                            *)
RelocalizingIsServed ==
    state = "Relocalizing" => queue # <<>> \/ \E t \in Threads : pc[t] = "request"

(* While the homecoming's search walks, no job walks (start_job refuses    *)
(* "while the duck is searching on its own").                              *)
SearchWalksAlone ==
    pc[Homecoming] = "drive" => \A j \in Jobs : jobPc[j] # "leg"

(* The jobs as DuckMotion sees them: on whose account one runs. *)
Driver == IF \E j \in Jobs : Alive(j)
            THEN jobBy[CHOOSE j \in Jobs : Alive(j)] ELSE "none"
Motion == INSTANCE DuckMotion WITH driver <- Driver, stopped <- stopped
MotionSpec == Motion!Spec
=============================================================================
