------------------------------- MODULE MCBody -------------------------------
(* What moves the body, on small instances, for TLC: each behaviour is of    *)
(* one part, the others stand at their first states.  What crosses from one  *)
(* part to another is a free choice in each.                                 *)
EXTENDS JobTurn, JobBooks, JobWay, HeadSweep, GaitTurn, CliffLane, HomeSearch, StepPlan, PlaceTools

VARIABLE part    \* the part that runs

bodyVars == <<part, turnVars, booksVars, way, sweepVars, gait, cliff, search, step, teach>>

BodyInit ==
  /\ part \in {"turn", "books", "way", "sweep", "gait", "cliff", "search", "step", "teach"}
  /\ IF part = "turn" THEN TurnInit
     ELSE turn = TurnOver(TurnNew, "asked") /\ house = TurnHouse
  /\ SweepInit /\ body = BodyStart
  /\ IF part = "books" THEN BooksInit
     ELSE books = BooksFresh(TRUE, [p \in BooksPlaces |-> "none"])
  /\ IF part = "way" THEN WayInit ELSE way = WayStart(TRUE, FALSE)
  /\ IF part = "gait" THEN GaitInit ELSE gait = GaitStart(TRUE)
  /\ CliffInit
  /\ IF part = "search" THEN SearchInit ELSE search = SearchFirst(FALSE, 0)
  /\ IF part = "step" THEN StepInit ELSE step = StepStart(StepBare, TRUE)
  /\ IF part = "teach" THEN TeachInit ELSE teach = TeachFirst(FALSE)

BodyTurns(doing) ==
  part = "turn" /\ doing /\ UNCHANGED <<part, booksVars, way, sweepVars, gait, cliff, search, step, teach>>
BodyBooks(doing) ==
  part = "books" /\ doing /\ UNCHANGED <<part, turnVars, way, sweepVars, gait, cliff, search, step, teach>>
BodyWay(doing) ==
  part = "way" /\ doing /\ UNCHANGED <<part, turnVars, booksVars, sweepVars, gait, cliff, search, step, teach>>
BodySweeps(doing) ==
  part = "sweep" /\ doing /\ UNCHANGED <<part, turnVars, booksVars, way, gait, cliff, search, step, teach>>
BodyGait(doing) ==
  part = "gait" /\ doing /\ UNCHANGED <<part, turnVars, booksVars, way, sweepVars, cliff, search, step, teach>>
BodyCliff(doing) ==
  part = "cliff" /\ doing /\ UNCHANGED <<part, turnVars, booksVars, way, sweepVars, gait, search, step, teach>>
BodySearches(doing) ==
  part = "search" /\ doing /\ UNCHANGED <<part, turnVars, booksVars, way, sweepVars, gait, cliff, step, teach>>
BodyAsks(doing) ==
  part = "step" /\ doing /\ UNCHANGED <<part, turnVars, booksVars, way, sweepVars, gait, cliff, search, teach>>
BodyTeaches(doing) ==
  part = "teach" /\ doing /\ UNCHANGED <<part, turnVars, booksVars, way, sweepVars, gait, cliff, search, step>>

BodyNext ==
  \/ BodyTurns(TurnNext) \/ BodyBooks(BooksNext) \/ BodyWay(WayNext)
  \/ BodySweeps(SweepNext) \/ BodyGait(GaitNext) \/ BodyCliff(CliffNext) \/ BodySearches(SearchNext)
  \/ BodyAsks(StepNext) \/ BodyTeaches(TeachNext)

(* TurnFairness and SweepFairness, each of the behaviours of its part. *)
BodyFairness ==
  /\ WF_bodyVars(BodyTurns(TurnTurn \/ TurnGoes))
  /\ WF_bodyVars(BodyTurns(TurnLate)) /\ WF_bodyVars(BodyTurns(TurnGivesUp))
  /\ WF_bodyVars(BodySweeps(SweepTick))

BodySpec == BodyInit /\ [][BodyNext]_bodyVars /\ BodyFairness

(* Every part keeps its type: what a job, its books, its way, its turns, the *)
(* locals of the sweep, of the drop sensor's lanes and of the search for the *)
(* pose, and what was taught may hold.                                       *)
BodyTypeOK ==
  TurnTypeOK /\ BooksTypeOK /\ WayTypeOK /\ SweepTypeOK /\ GaitTypeOK /\ CliffTypeOK /\ SearchTypeOK
  /\ StepTypeOK /\ TeachTypeOK
=============================================================================
