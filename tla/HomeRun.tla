------------------------------ MODULE HomeRun ------------------------------
(* The homecoming from the boot to its end (quack-nav/src/homecoming/mod.rs  *)
(* `run`, `adopt`, `resume_exploring`): the newest map and its search, the   *)
(* search kept up on a map that is not to be traded, the fresh map and the   *)
(* exploration asked map to map, and the saved map adopted.                  *)
(*                                                                           *)
(* A place is where the live map lies on a saved one.  The searches are      *)
(* HomeSearch's; the user's stop and the user's own jobs may come anywhere.  *)
EXTENDS Integers, Sequences, SequencesExt

CONSTANTS
  RunNames,     \* the library
  RunSpots,     \* where a match may place the live map, in steps of RunAgree
  RunCells,     \* the live map's wall cells
  RunAgree,     \* AGREE_M
  RunAsks       \* adopt_asks

ASSUME RunAssumption ==
  /\ RunAgree \in Nat /\ RunAsks \in Nat \ {0} /\ RunSpots \subseteq Int /\ RunCells \subseteq Nat

VARIABLE run

RunAnswer == [name : RunNames, spot : RunSpots, cells : RunCells]
RunNone == [name |-> "none", spot |-> 0, cells |-> 0]

RunPlaces == {"begin", "load", "search", "again", "resume", "wipe", "settle", "start",
              "ask", "adopt", "confirm", "done"}

RunRuns ==
      [at : RunPlaces,
       resume : BOOLEAN, dry : BOOLEAN, search : BOOLEAN,        \* the configuration
       live : {"boot", "saved", "fresh", "adopted"},             \* the map that is live
       loaded : BOOLEAN, frozen : BOOLEAN,                       \* the boot's load
       sure : BOOLEAN,                                           \* the pose is confirmed on it
       exploring : BOOLEAN, session : BOOLEAN,                   \* ... a session of its own
       previous : RunAnswer \cup {RunNone}, agreed : 0 .. RunAsks, asked : BOOLEAN,
       answers : Seq(RunAnswer),                                 \* those since the last refused
       held : BOOLEAN]

RunTypeOK == run \in RunRuns

RunBlank(resume, dry, search) ==
  [at |-> "begin", resume |-> resume, dry |-> dry, search |-> search,
   live |-> "boot", loaded |-> FALSE, frozen |-> FALSE, sure |-> FALSE,
   exploring |-> FALSE, session |-> FALSE,
   previous |-> RunNone, agreed |-> 0, asked |-> FALSE, answers |-> <<>>, held |-> FALSE]

RunInit == \E resume, dry, search \in BOOLEAN : run = RunBlank(resume, dry, search)

RunGoes(r, at) == [r EXCEPT !.at = at]

(* `held`, where the homecoming looks.                                       *)
RunUnless(r, at) == RunGoes(r, IF r.held THEN "done" ELSE at)

-----------------------------------------------------------------------------
(* No library, an empty one, or one with a newest map.                       *)
RunBegins ==
  /\ run.at = "begin"
  /\ \E at \in {"done", IF run.search THEN "load" ELSE "start"} : run' = RunGoes(run, at)

RunLoads ==
  /\ run.at = "load"
  /\ \/ \E frozen \in BOOLEAN :
          run' = [run EXCEPT !.at = "search", !.live = "saved", !.loaded = TRUE, !.frozen = frozen]
     \/ run' = RunGoes(run, "wipe")

RunSearches ==
  /\ run.at = "search"
  /\ \/ run' = [run EXCEPT !.at = "resume", !.sure = TRUE]
     \/ run' = RunUnless(run, IF run.frozen \/ run.resume THEN "again" ELSE "wipe")

RunSearchesOn ==
  /\ run.at = "again"
  /\ \/ run' = [run EXCEPT !.at = "resume", !.sure = TRUE]
     \/ run' = RunGoes(run, "done")

(* Starting anything: refused while a job runs, and for as long as it tries. *)
RunMayStart(r) == ~r.held /\ ~r.exploring

RunResumes ==
  /\ run.at = "resume"
  /\ \/ /\ run.resume /\ ~run.frozen /\ RunMayStart(run)
        /\ run' = [run EXCEPT !.at = "done", !.exploring = TRUE, !.session = TRUE]
     \/ run' = RunGoes(run, "done")       \* frozen, done, not to be resumed, or refused

RunWipes ==
  /\ run.at = "wipe"
  /\ \/ run' = [run EXCEPT !.at = "settle", !.live = "fresh", !.sure = FALSE]
     \/ run' = RunGoes(run, "done")

RunSettles ==
  /\ run.at = "settle"
  /\ \/ run' = [run EXCEPT !.at = "start", !.sure = TRUE]
     \/ run' = RunUnless(run, "start")

RunStarts ==
  /\ run.at = "start"
  /\ \/ RunMayStart(run) /\ run' = [run EXCEPT !.at = "ask", !.exploring = TRUE]
     \/ run' = RunGoes(run, "done")

-----------------------------------------------------------------------------
RunDist(a, b) == IF a < b THEN b - a ELSE a - b

(* The same map in the same place, and the live one not shrunk.              *)
RunAgrees(a, b) ==
  a.name = b.name /\ RunDist(a.spot, b.spot) <= RunAgree /\ b.cells >= a.cells

(* Mutant: an ask that is refused leaves the run of agreeing asks as it is. *)
RunRefusedKept(r) == [r EXCEPT !.answers = <<>>]

(* Above the bar, a near tie, or a room the saved map does not hold.         *)
RunRefused(r) == [r EXCEPT !.previous = RunNone, !.agreed = 0, !.answers = <<>>]

RunTakes(r, answer) ==
  LET agreed == IF r.previous # RunNone /\ RunAgrees(r.previous, answer) THEN r.agreed + 1 ELSE 0
      full == agreed + 1 >= RunAsks
      heard == Append(r.answers, answer)
  IN [r EXCEPT !.previous = answer,
               !.agreed = IF agreed > RunAsks THEN RunAsks ELSE agreed,     \* a dry run goes on
               !.answers = IF Len(heard) > RunAsks THEN Tail(heard) ELSE heard,
               !.at = IF full /\ ~r.dry THEN "adopt" ELSE @]

(* Once more after the exploration ended; a question that failed, or a map   *)
(* nothing fits, leaves the run of agreeing asks as it is.                   *)
RunAsk ==
  /\ run.at = "ask"
  /\ IF run.held \/ (~run.exploring /\ run.asked) THEN run' = RunGoes(run, "done")
     ELSE LET r == [run EXCEPT !.asked = @ \/ ~run.exploring]
          IN run' \in {r, RunRefused(r)} \cup {RunTakes(r, answer) : answer \in RunAnswer}

(* `adopt`: the job asked to stop, which it may not; then the map.           *)
RunAdopts ==
  /\ run.at = "adopt"
  /\ \/ run.exploring /\ run' = RunGoes(run, "done")
     \/ run' = [run EXCEPT !.at = "done", !.exploring = FALSE, !.session = FALSE]   \* held, or refused
     \/ /\ ~run.held
        /\ run' = [run EXCEPT !.at = "confirm", !.live = "adopted", !.sure = FALSE,
                              !.exploring = FALSE, !.session = FALSE]

(* Found or not, it explores on; but on a house that is done.                *)
RunConfirms ==
  /\ run.at = "confirm"
  /\ \E found \in BOOLEAN, done \in BOOLEAN :
       LET r == [run EXCEPT !.sure = found, !.at = "done"]
       IN run' = IF (~found /\ run.held) \/ done \/ ~RunMayStart(run) THEN r
                 ELSE [r EXCEPT !.exploring = TRUE, !.session = TRUE]

(* A job's own end; the user's stop, and the user's own job.                 *)
RunExplored == run.exploring /\ run' = [run EXCEPT !.exploring = FALSE, !.session = FALSE]
RunStopped == ~run.held /\ run' = [run EXCEPT !.held = TRUE, !.exploring = FALSE, !.session = FALSE]
RunUserAsks == ~run.exploring /\ run' = [run EXCEPT !.held = FALSE, !.exploring = TRUE, !.session = FALSE]

RunNext ==
  \/ RunBegins \/ RunLoads \/ RunSearches \/ RunSearchesOn \/ RunResumes \/ RunWipes
  \/ RunSettles \/ RunStarts \/ RunAsk \/ RunAdopts \/ RunConfirms
  \/ RunExplored \/ RunStopped \/ RunUserAsks

RunSpec == RunInit /\ [][RunNext]_run

-----------------------------------------------------------------------------
(* A map is adopted on as many asks as it takes, one after the other, each   *)
(* in the place of the one before and none of them refused in between.       *)
RunAdoptsAgreed ==
  run.at \in {"adopt", "confirm"} =>
    /\ Len(run.answers) = RunAsks
    /\ \A i \in 1 .. RunAsks - 1 : RunAgrees(run.answers[i], run.answers[i + 1])

(* A map that is frozen, or explored session after session, is not traded    *)
(* for a fresh one by a boot that loaded it and did not find itself.         *)
RunKeepsTheMap == run.loaded /\ run.live # "saved" => ~run.frozen /\ ~run.resume

(* What the homecoming explores as a session of its own, saved under the     *)
(* house's name, is never the search; and found out, it is a map of the      *)
(* library the pose was confirmed on or the one adopted.                     *)
RunSavesNoSearch ==
  run.session => run.live = "adopted" \/ (run.live = "saved" /\ run.sure)

(* What the homecoming may and may not do with the house's maps, from the    *)
(* boot to its end.                                                          *)
RunTrue == RunAdoptsAgreed /\ RunKeepsTheMap /\ RunSavesNoSearch
=============================================================================
