-------------------------- MODULE JobControlProofs --------------------------
(***************************************************************************)
(* The proofs of JobControl: its inductive invariant Inv, that one job     *)
(* runs at a time and a hand drives alone while the pose is trusted, that  *)
(* nothing of the duck's own starts after a stop, and that JobControl      *)
(* implements DuckMotion.  Each lemma below has one step per action.       *)
(***************************************************************************)
EXTENDS JobControl, TLAPS

(* The part of TypeOK about the threads. *)
ThreadsTyped ==
    /\ lock \in Threads \cup {NoThread} /\ adopted \in BOOLEAN
    /\ pc \in [Threads -> Locked \cup Unlocked]
    /\ tool \in [Threads -> Tools]

(* A tool that returns keeps the threads' types. *)
LEMMA ReturnTyped ==
  ASSUME TypeOK, NEW t \in Threads, NEW r, Return(t, r)
  PROVE  ThreadsTyped'
<1>1. After(t, r) \in Locked \cup Unlocked
  BY DEF After, Locked, Unlocked, Threads
<1>2. pc' \in [Threads -> Locked \cup Unlocked]
  BY <1>1 DEF Return, Goto, TypeOK
<1>3. tool' \in [Threads -> Tools]
  BY DEF Return, TypeOK, Tools
<1>4. QED BY <1>2, <1>3 DEF Return, TypeOK, ThreadsTyped

(* A thread that goes on in its tool keeps the threads' types. *)
LEMMA StayTyped ==
  ASSUME TypeOK, NEW t \in Threads, NEW p \in Locked \cup Unlocked, Stay(t, p)
  PROVE  ThreadsTyped'
BY DEF Stay, Goto, TypeOK, ThreadsTyped

(* What a thread carries keeps its type.  A request served keeps its place *)
(* in the channel; see ToolInv.                                            *)
LEMMA TypePreserved ==
  ASSUME TypeOK, ToolInv, Next
  PROVE  TypeOK'
<1> USE ThreadsAssumption, AskedAssumption DEF Threads, Own, Goto, status, flags, jobs, threads, TypeOK,
  ThreadsTyped, ToolInv, Serving, Starting, States, Busy, Starts, Tools, Locked,
  Unlocked, JobPcs
<1>1. ASSUME NEW c \in Callers, HaltNow(c) PROVE TypeOK'
  BY <1>1, ReturnTyped, StayTyped DEF HaltNow, MovingItself
<1>2. ASSUME NEW c \in Callers, StopTool(c) PROVE TypeOK'
  BY <1>2, ReturnTyped, StayTyped DEF StopTool, UserStop
<1>3. ASSUME NEW c \in Callers, HandMove(c) PROVE TypeOK'
  BY <1>3, ReturnTyped, StayTyped DEF HandMove, UserStop, MovingItself
<1>4. ASSUME NEW c \in Callers, Complete(c) PROVE TypeOK'
  BY <1>4, ReturnTyped, StayTyped DEF Complete
<1>5. ASSUME NEW c \in Callers, CompleteReturns(c) PROVE TypeOK'
  BY <1>5, ReturnTyped, StayTyped DEF CompleteReturns
<1>6. ASSUME NEW c \in Callers, CompleteTimesOut(c) PROVE TypeOK'
  BY <1>6, ReturnTyped, StayTyped DEF CompleteTimesOut
<1>7. ASSUME NEW c \in Callers, NEW what \in Asked, Call(c, what) PROVE TypeOK'
  BY <1>7, ReturnTyped, StayTyped DEF Call, MovingItself
<1>8. ASSUME NEW t \in Threads, Acquire(t) PROVE TypeOK'
  BY <1>8, ReturnTyped, StayTyped DEF Acquire
<1>9. ASSUME NEW t \in Threads, EndDrive(t) PROVE TypeOK'
  BY <1>9, ReturnTyped, StayTyped DEF EndDrive
<1>10. ASSUME NEW t \in Threads, Ask(t) PROVE TypeOK'
  BY <1>10, ReturnTyped, StayTyped DEF Ask, MayAsk
<1>11. ASSUME NEW t \in Threads, Refuse(t) PROVE TypeOK'
  BY <1>11, ReturnTyped, StayTyped DEF Refuse
<1>12. ASSUME NEW t \in Threads, Prepare(t) PROVE TypeOK'
  BY <1>12, ReturnTyped, StayTyped DEF Prepare
<1>13. ASSUME NEW t \in Threads, Begin(t) PROVE TypeOK'
  BY <1>13, ReturnTyped, StayTyped DEF Begin
<1>14. ASSUME NEW t \in Threads, ClearStop(t) PROVE TypeOK'
  BY <1>14, ReturnTyped, StayTyped DEF ClearStop
<1>15. ASSUME NEW t \in Threads, ConnectFails(t) PROVE TypeOK'
  BY <1>15, ReturnTyped, StayTyped DEF ConnectFails, Finish
<1>16. ASSUME NEW t \in Threads, Relocalize(t) PROVE TypeOK'
  BY <1>16, ReturnTyped, StayTyped DEF Relocalize
<1>17. ASSUME NEW t \in Threads, Request(t) PROVE TypeOK'
  <2>1. queue' \in Seq(Starts)
    BY <1>17, ReturnTyped, StayTyped DEF Request
  <2>2. ThreadsTyped'
    BY <1>17, ReturnTyped DEF Request
  <2>3. QED BY <1>17, <2>1, <2>2 DEF Request
<1>18. ASSUME NEW t \in Threads, NEW j \in Jobs, Spawn(t, j) PROVE TypeOK'
  BY <1>18, ReturnTyped, StayTyped DEF Spawn
<1>19. ASSUME NEW t \in {Relocator, Homecoming}, OwnStep(t) PROVE TypeOK'
  BY <1>19, ReturnTyped, StayTyped DEF OwnStep
<1>20. ASSUME NEW t \in {Relocator, Homecoming}, SeekStep(t) PROVE TypeOK'
  BY <1>20, ReturnTyped, StayTyped DEF SeekStep, StopAsked
<1>21. ASSUME NEW t \in {Relocator, Homecoming}, SeekOver(t) PROVE TypeOK'
  BY <1>21, ReturnTyped, StayTyped DEF SeekOver
<1>22. CASE TakeRequest
  BY <1>22, ReturnTyped, StayTyped DEF TakeRequest
<1>23. CASE RelocateEnds
  <2>1. state' \in States /\ selfStarted' \in BOOLEAN
    BY <1>23, ReturnTyped, StayTyped DEF RelocateEnds, Finish
  <2>2. queue' \in Seq(Starts)
    <3>1. queue # <<>>
      BY <1>23, ReturnTyped, StayTyped DEF RelocateEnds
    <3>2. Tail(queue) \in Seq(Starts)
      BY <3>1
    <3>3. QED BY <1>23, <3>2 DEF RelocateEnds
  <2>3. ThreadsTyped'
    BY <1>23, StayTyped DEF RelocateEnds
  <2>4. QED BY <1>23, <2>1, <2>2, <2>3 DEF RelocateEnds
<1>24. CASE Replay
  BY <1>24, ReturnTyped, StayTyped DEF Replay
<1>25. CASE ReplayRefused
  BY <1>25, ReturnTyped, StayTyped DEF ReplayRefused, Finish
<1>26. CASE SearchBegins
  BY <1>26, ReturnTyped, StayTyped DEF SearchBegins
<1>27. CASE SearchEnds
  BY <1>27, ReturnTyped, StayTyped DEF SearchEnds
<1>28. CASE SearchAgain
  BY <1>28, ReturnTyped, StayTyped DEF SearchAgain
<1>29. CASE StandDown
  BY <1>29, ReturnTyped, StayTyped DEF StandDown
<1>30. CASE SayItself
  BY <1>30, ReturnTyped, StayTyped DEF SayItself
<1>31. CASE Adopt
  BY <1>31, ReturnTyped, StayTyped DEF Adopt
<1>32. CASE Adopted
  BY <1>32, ReturnTyped, StayTyped DEF Adopted
<1>33. ASSUME NEW what \in {"explore", "scout"}, StartExploring(what) PROVE TypeOK'
  BY <1>33, ReturnTyped, StayTyped DEF StartExploring
<1>34. ASSUME NEW j \in Jobs, JobStops(j) PROVE TypeOK'
  BY <1>34, ReturnTyped, StayTyped DEF JobStops, JobMoves, JobGoes
<1>35. ASSUME NEW j \in Jobs, JobTurns(j) PROVE TypeOK'
  BY <1>35, ReturnTyped, StayTyped DEF JobTurns, JobMoves, JobGoes
<1>36. ASSUME NEW j \in Jobs, LegBegins(j) PROVE TypeOK'
  BY <1>36, ReturnTyped, StayTyped DEF LegBegins, JobMoves, JobGoes
<1>37. ASSUME NEW j \in Jobs, LegEnds(j) PROVE TypeOK'
  BY <1>37, ReturnTyped, StayTyped DEF LegEnds, JobMoves, JobGoes
<1>38. ASSUME NEW j \in Jobs, TurnEnds(j) PROVE TypeOK'
  BY <1>38, ReturnTyped, StayTyped DEF TurnEnds, JobMoves, JobGoes
<1>39. ASSUME NEW j \in Jobs, JobIsOver(j) PROVE TypeOK'
  BY <1>39, ReturnTyped, StayTyped DEF JobIsOver, JobMoves, JobGoes
<1>40. ASSUME NEW j \in Jobs, EndSession(j) PROVE TypeOK'
  BY <1>40, ReturnTyped, StayTyped DEF EndSession, JobMoves, JobGoes
<1>41. ASSUME NEW j \in Jobs, JobFinishes(j) PROVE TypeOK'
  BY <1>41, ReturnTyped, StayTyped DEF JobFinishes, Finish, JobGoes
<1>42. QED BY <1>1, <1>2, <1>3, <1>4, <1>5, <1>6, <1>7, <1>8, <1>9, <1>10,
    <1>11, <1>12, <1>13, <1>14, <1>15, <1>16, <1>17, <1>18, <1>19, <1>20,
    <1>21, <1>22, <1>23, <1>24, <1>25, <1>26, <1>27, <1>28, <1>29, <1>30,
    <1>31, <1>32, <1>33, <1>34, <1>35, <1>36, <1>37, <1>38, <1>39, <1>40,
    <1>41 DEF Next, CallerStep, ToolStep, OwnMotion,
     RelocatorStep, HomecomingStep, JobStep

(* A thread on its way to a start is in a tool that starts; the            *)
(* relocator's request waits.                                              *)
LEMMA ToolPreserved ==
  ASSUME TypeOK, ToolInv, Next
  PROVE  ToolInv'
<1> USE ThreadsAssumption, AskedAssumption DEF Threads, Own, Goto, Return, Stay, After, status, flags, jobs, threads, TypeOK,
  ToolInv, Serving, Starting, Starts
<1>1. ASSUME NEW c \in Callers, HaltNow(c) PROVE ToolInv'
  BY <1>1 DEF HaltNow, MovingItself
<1>2. ASSUME NEW c \in Callers, StopTool(c) PROVE ToolInv'
  BY <1>2 DEF StopTool, UserStop
<1>3. ASSUME NEW c \in Callers, HandMove(c) PROVE ToolInv'
  BY <1>3 DEF HandMove, UserStop, MovingItself
<1>4. ASSUME NEW c \in Callers, Complete(c) PROVE ToolInv'
  BY <1>4 DEF Complete
<1>5. ASSUME NEW c \in Callers, CompleteReturns(c) PROVE ToolInv'
  BY <1>5 DEF CompleteReturns
<1>6. ASSUME NEW c \in Callers, CompleteTimesOut(c) PROVE ToolInv'
  BY <1>6 DEF CompleteTimesOut
<1>7. ASSUME NEW c \in Callers, NEW what \in Asked, Call(c, what) PROVE ToolInv'
  BY <1>7 DEF Call, MovingItself
<1>8. ASSUME NEW t \in Threads, Acquire(t) PROVE ToolInv'
  BY <1>8 DEF Acquire
<1>9. ASSUME NEW t \in Threads, EndDrive(t) PROVE ToolInv'
  BY <1>9 DEF EndDrive
<1>10. ASSUME NEW t \in Threads, Ask(t) PROVE ToolInv'
  BY <1>10 DEF Ask, MayAsk
<1>11. ASSUME NEW t \in Threads, Refuse(t) PROVE ToolInv'
  BY <1>11 DEF Refuse
<1>12. ASSUME NEW t \in Threads, Prepare(t) PROVE ToolInv'
  BY <1>12 DEF Prepare
<1>13. ASSUME NEW t \in Threads, Begin(t) PROVE ToolInv'
  BY <1>13 DEF Begin
<1>14. ASSUME NEW t \in Threads, ClearStop(t) PROVE ToolInv'
  BY <1>14 DEF ClearStop
<1>15. ASSUME NEW t \in Threads, ConnectFails(t) PROVE ToolInv'
  BY <1>15 DEF ConnectFails, Finish
<1>16. ASSUME NEW t \in Threads, Relocalize(t) PROVE ToolInv'
  BY <1>16 DEF Relocalize
<1>17. ASSUME NEW t \in Threads, Request(t) PROVE ToolInv'
  BY <1>17 DEF Request
<1>18. ASSUME NEW t \in Threads, NEW j \in Jobs, Spawn(t, j) PROVE ToolInv'
  BY <1>18 DEF Spawn
<1>19. ASSUME NEW t \in {Relocator, Homecoming}, OwnStep(t) PROVE ToolInv'
  BY <1>19 DEF OwnStep
<1>20. ASSUME NEW t \in {Relocator, Homecoming}, SeekStep(t) PROVE ToolInv'
  BY <1>20 DEF SeekStep, StopAsked
<1>21. ASSUME NEW t \in {Relocator, Homecoming}, SeekOver(t) PROVE ToolInv'
  BY <1>21 DEF SeekOver
<1>22. CASE TakeRequest
  BY <1>22 DEF TakeRequest
<1>23. CASE RelocateEnds
  BY <1>23 DEF RelocateEnds, Finish
<1>24. CASE Replay
  BY <1>24 DEF Replay
<1>25. CASE ReplayRefused
  BY <1>25 DEF ReplayRefused, Finish
<1>26. CASE SearchBegins
  BY <1>26 DEF SearchBegins
<1>27. CASE SearchEnds
  BY <1>27 DEF SearchEnds
<1>28. CASE SearchAgain
  BY <1>28 DEF SearchAgain
<1>29. CASE StandDown
  BY <1>29 DEF StandDown
<1>30. CASE SayItself
  BY <1>30 DEF SayItself
<1>31. CASE Adopt
  BY <1>31 DEF Adopt
<1>32. CASE Adopted
  BY <1>32 DEF Adopted
<1>33. ASSUME NEW what \in {"explore", "scout"}, StartExploring(what) PROVE ToolInv'
  BY <1>33 DEF StartExploring
<1>34. ASSUME NEW j \in Jobs, JobStops(j) PROVE ToolInv'
  BY <1>34 DEF JobStops, JobMoves, JobGoes
<1>35. ASSUME NEW j \in Jobs, JobTurns(j) PROVE ToolInv'
  BY <1>35 DEF JobTurns, JobMoves, JobGoes
<1>36. ASSUME NEW j \in Jobs, LegBegins(j) PROVE ToolInv'
  BY <1>36 DEF LegBegins, JobMoves, JobGoes
<1>37. ASSUME NEW j \in Jobs, LegEnds(j) PROVE ToolInv'
  BY <1>37 DEF LegEnds, JobMoves, JobGoes
<1>38. ASSUME NEW j \in Jobs, TurnEnds(j) PROVE ToolInv'
  BY <1>38 DEF TurnEnds, JobMoves, JobGoes
<1>39. ASSUME NEW j \in Jobs, JobIsOver(j) PROVE ToolInv'
  BY <1>39 DEF JobIsOver, JobMoves, JobGoes
<1>40. ASSUME NEW j \in Jobs, EndSession(j) PROVE ToolInv'
  BY <1>40 DEF EndSession, JobMoves, JobGoes
<1>41. ASSUME NEW j \in Jobs, JobFinishes(j) PROVE ToolInv'
  BY <1>41 DEF JobFinishes, Finish, JobGoes
<1>42. QED BY <1>1, <1>2, <1>3, <1>4, <1>5, <1>6, <1>7, <1>8, <1>9, <1>10,
    <1>11, <1>12, <1>13, <1>14, <1>15, <1>16, <1>17, <1>18, <1>19, <1>20,
    <1>21, <1>22, <1>23, <1>24, <1>25, <1>26, <1>27, <1>28, <1>29, <1>30,
    <1>31, <1>32, <1>33, <1>34, <1>35, <1>36, <1>37, <1>38, <1>39, <1>40,
    <1>41 DEF Next, CallerStep, ToolStep, OwnMotion,
     RelocatorStep, HomecomingStep, JobStep

(* The robot mutex is held by the one thread at a locked point.            *)
LEMMA LockPreserved ==
  ASSUME TypeOK, LockInv, Next
  PROVE  LockInv'
<1> USE ThreadsAssumption, AskedAssumption DEF Threads, Own, Goto, Return, Stay, After, status, flags, jobs, threads, LockInv,
  Locked, TypeOK
<1>1. ASSUME NEW c \in Callers, HaltNow(c) PROVE LockInv'
  BY <1>1 DEF HaltNow, MovingItself
<1>2. ASSUME NEW c \in Callers, StopTool(c) PROVE LockInv'
  BY <1>2 DEF StopTool, UserStop
<1>3. ASSUME NEW c \in Callers, HandMove(c) PROVE LockInv'
  BY <1>3 DEF HandMove, UserStop, MovingItself
<1>4. ASSUME NEW c \in Callers, Complete(c) PROVE LockInv'
  BY <1>4 DEF Complete
<1>5. ASSUME NEW c \in Callers, CompleteReturns(c) PROVE LockInv'
  BY <1>5 DEF CompleteReturns
<1>6. ASSUME NEW c \in Callers, CompleteTimesOut(c) PROVE LockInv'
  BY <1>6 DEF CompleteTimesOut
<1>7. ASSUME NEW c \in Callers, NEW what \in Asked, Call(c, what) PROVE LockInv'
  BY <1>7 DEF Call, MovingItself
<1>8. ASSUME NEW t \in Threads, Acquire(t) PROVE LockInv'
  BY <1>8 DEF Acquire
<1>9. ASSUME NEW t \in Threads, EndDrive(t) PROVE LockInv'
  BY <1>9 DEF EndDrive
<1>10. ASSUME NEW t \in Threads, Ask(t) PROVE LockInv'
  BY <1>10 DEF Ask, MayAsk
<1>11. ASSUME NEW t \in Threads, Refuse(t) PROVE LockInv'
  BY <1>11 DEF Refuse
<1>12. ASSUME NEW t \in Threads, Prepare(t) PROVE LockInv'
  BY <1>12 DEF Prepare
<1>13. ASSUME NEW t \in Threads, Begin(t) PROVE LockInv'
  BY <1>13 DEF Begin
<1>14. ASSUME NEW t \in Threads, ClearStop(t) PROVE LockInv'
  BY <1>14 DEF ClearStop
<1>15. ASSUME NEW t \in Threads, ConnectFails(t) PROVE LockInv'
  BY <1>15 DEF ConnectFails, Finish
<1>16. ASSUME NEW t \in Threads, Relocalize(t) PROVE LockInv'
  BY <1>16 DEF Relocalize
<1>17. ASSUME NEW t \in Threads, Request(t) PROVE LockInv'
  BY <1>17 DEF Request
<1>18. ASSUME NEW t \in Threads, NEW j \in Jobs, Spawn(t, j) PROVE LockInv'
  BY <1>18 DEF Spawn
<1>19. ASSUME NEW t \in {Relocator, Homecoming}, OwnStep(t) PROVE LockInv'
  BY <1>19 DEF OwnStep
<1>20. ASSUME NEW t \in {Relocator, Homecoming}, SeekStep(t) PROVE LockInv'
  BY <1>20 DEF SeekStep, StopAsked
<1>21. ASSUME NEW t \in {Relocator, Homecoming}, SeekOver(t) PROVE LockInv'
  BY <1>21 DEF SeekOver
<1>22. CASE TakeRequest
  BY <1>22 DEF TakeRequest
<1>23. CASE RelocateEnds
  BY <1>23 DEF RelocateEnds, Finish
<1>24. CASE Replay
  BY <1>24 DEF Replay
<1>25. CASE ReplayRefused
  BY <1>25 DEF ReplayRefused, Finish
<1>26. CASE SearchBegins
  BY <1>26 DEF SearchBegins
<1>27. CASE SearchEnds
  BY <1>27 DEF SearchEnds
<1>28. CASE SearchAgain
  BY <1>28 DEF SearchAgain
<1>29. CASE StandDown
  BY <1>29 DEF StandDown
<1>30. CASE SayItself
  BY <1>30 DEF SayItself
<1>31. CASE Adopt
  BY <1>31 DEF Adopt
<1>32. CASE Adopted
  BY <1>32 DEF Adopted
<1>33. ASSUME NEW what \in {"explore", "scout"}, StartExploring(what) PROVE LockInv'
  BY <1>33 DEF StartExploring
<1>34. ASSUME NEW j \in Jobs, JobStops(j) PROVE LockInv'
  BY <1>34 DEF JobStops, JobMoves, JobGoes
<1>35. ASSUME NEW j \in Jobs, JobTurns(j) PROVE LockInv'
  BY <1>35 DEF JobTurns, JobMoves, JobGoes
<1>36. ASSUME NEW j \in Jobs, LegBegins(j) PROVE LockInv'
  BY <1>36 DEF LegBegins, JobMoves, JobGoes
<1>37. ASSUME NEW j \in Jobs, LegEnds(j) PROVE LockInv'
  BY <1>37 DEF LegEnds, JobMoves, JobGoes
<1>38. ASSUME NEW j \in Jobs, TurnEnds(j) PROVE LockInv'
  BY <1>38 DEF TurnEnds, JobMoves, JobGoes
<1>39. ASSUME NEW j \in Jobs, JobIsOver(j) PROVE LockInv'
  BY <1>39 DEF JobIsOver, JobMoves, JobGoes
<1>40. ASSUME NEW j \in Jobs, EndSession(j) PROVE LockInv'
  BY <1>40 DEF EndSession, JobMoves, JobGoes
<1>41. ASSUME NEW j \in Jobs, JobFinishes(j) PROVE LockInv'
  BY <1>41 DEF JobFinishes, Finish, JobGoes
<1>42. QED BY <1>1, <1>2, <1>3, <1>4, <1>5, <1>6, <1>7, <1>8, <1>9, <1>10,
    <1>11, <1>12, <1>13, <1>14, <1>15, <1>16, <1>17, <1>18, <1>19, <1>20,
    <1>21, <1>22, <1>23, <1>24, <1>25, <1>26, <1>27, <1>28, <1>29, <1>30,
    <1>31, <1>32, <1>33, <1>34, <1>35, <1>36, <1>37, <1>38, <1>39, <1>40,
    <1>41 DEF Next, CallerStep, ToolStep, OwnMotion,
     RelocatorStep, HomecomingStep, JobStep

(* A stop holds, and the duck's own threads are past asked() only without  *)
(* one.                                                                    *)
LEMMA StopPreserved ==
  ASSUME TypeOK, LockInv, StopInv, Next
  PROVE  StopInv'
<1> USE ThreadsAssumption, AskedAssumption DEF Threads, Own, Goto, Return, Stay, After, status, flags, jobs, threads, LockInv,
  Locked, TypeOK, StopInv, Starting
<1>1. ASSUME NEW c \in Callers, HaltNow(c) PROVE StopInv'
  BY <1>1 DEF HaltNow, MovingItself
<1>2. ASSUME NEW c \in Callers, StopTool(c) PROVE StopInv'
  BY <1>2 DEF StopTool, UserStop
<1>3. ASSUME NEW c \in Callers, HandMove(c) PROVE StopInv'
  BY <1>3 DEF HandMove, UserStop, MovingItself
<1>4. ASSUME NEW c \in Callers, Complete(c) PROVE StopInv'
  BY <1>4 DEF Complete
<1>5. ASSUME NEW c \in Callers, CompleteReturns(c) PROVE StopInv'
  BY <1>5 DEF CompleteReturns
<1>6. ASSUME NEW c \in Callers, CompleteTimesOut(c) PROVE StopInv'
  BY <1>6 DEF CompleteTimesOut
<1>7. ASSUME NEW c \in Callers, NEW what \in Asked, Call(c, what) PROVE StopInv'
  BY <1>7 DEF Call, MovingItself
<1>8. ASSUME NEW t \in Threads, Acquire(t) PROVE StopInv'
  BY <1>8 DEF Acquire
<1>9. ASSUME NEW t \in Threads, EndDrive(t) PROVE StopInv'
  BY <1>9 DEF EndDrive
<1>10. ASSUME NEW t \in Threads, Ask(t) PROVE StopInv'
  BY <1>10 DEF Ask, MayAsk
<1>11. ASSUME NEW t \in Threads, Refuse(t) PROVE StopInv'
  BY <1>11 DEF Refuse
<1>12. ASSUME NEW t \in Threads, Prepare(t) PROVE StopInv'
  BY <1>12 DEF Prepare
<1>13. ASSUME NEW t \in Threads, Begin(t) PROVE StopInv'
  BY <1>13 DEF Begin
<1>14. ASSUME NEW t \in Threads, ClearStop(t) PROVE StopInv'
  BY <1>14 DEF ClearStop
<1>15. ASSUME NEW t \in Threads, ConnectFails(t) PROVE StopInv'
  BY <1>15 DEF ConnectFails, Finish
<1>16. ASSUME NEW t \in Threads, Relocalize(t) PROVE StopInv'
  BY <1>16 DEF Relocalize
<1>17. ASSUME NEW t \in Threads, Request(t) PROVE StopInv'
  BY <1>17 DEF Request
<1>18. ASSUME NEW t \in Threads, NEW j \in Jobs, Spawn(t, j) PROVE StopInv'
  BY <1>18 DEF Spawn
<1>19. ASSUME NEW t \in {Relocator, Homecoming}, OwnStep(t) PROVE StopInv'
  BY <1>19 DEF OwnStep
<1>20. ASSUME NEW t \in {Relocator, Homecoming}, SeekStep(t) PROVE StopInv'
  BY <1>20 DEF SeekStep, StopAsked
<1>21. ASSUME NEW t \in {Relocator, Homecoming}, SeekOver(t) PROVE StopInv'
  BY <1>21 DEF SeekOver
<1>22. CASE TakeRequest
  BY <1>22 DEF TakeRequest
<1>23. CASE RelocateEnds
  BY <1>23 DEF RelocateEnds, Finish
<1>24. CASE Replay
  BY <1>24 DEF Replay
<1>25. CASE ReplayRefused
  BY <1>25 DEF ReplayRefused, Finish
<1>26. CASE SearchBegins
  BY <1>26 DEF SearchBegins
<1>27. CASE SearchEnds
  BY <1>27 DEF SearchEnds
<1>28. CASE SearchAgain
  BY <1>28 DEF SearchAgain
<1>29. CASE StandDown
  BY <1>29 DEF StandDown
<1>30. CASE SayItself
  BY <1>30 DEF SayItself
<1>31. CASE Adopt
  BY <1>31 DEF Adopt
<1>32. CASE Adopted
  BY <1>32 DEF Adopted
<1>33. ASSUME NEW what \in {"explore", "scout"}, StartExploring(what) PROVE StopInv'
  BY <1>33 DEF StartExploring
<1>34. ASSUME NEW j \in Jobs, JobStops(j) PROVE StopInv'
  BY <1>34 DEF JobStops, JobMoves, JobGoes
<1>35. ASSUME NEW j \in Jobs, JobTurns(j) PROVE StopInv'
  BY <1>35 DEF JobTurns, JobMoves, JobGoes
<1>36. ASSUME NEW j \in Jobs, LegBegins(j) PROVE StopInv'
  BY <1>36 DEF LegBegins, JobMoves, JobGoes
<1>37. ASSUME NEW j \in Jobs, LegEnds(j) PROVE StopInv'
  BY <1>37 DEF LegEnds, JobMoves, JobGoes
<1>38. ASSUME NEW j \in Jobs, TurnEnds(j) PROVE StopInv'
  BY <1>38 DEF TurnEnds, JobMoves, JobGoes
<1>39. ASSUME NEW j \in Jobs, JobIsOver(j) PROVE StopInv'
  BY <1>39 DEF JobIsOver, JobMoves, JobGoes
<1>40. ASSUME NEW j \in Jobs, EndSession(j) PROVE StopInv'
  BY <1>40 DEF EndSession, JobMoves, JobGoes
<1>41. ASSUME NEW j \in Jobs, JobFinishes(j) PROVE StopInv'
  BY <1>41 DEF JobFinishes, Finish, JobGoes
<1>42. QED BY <1>1, <1>2, <1>3, <1>4, <1>5, <1>6, <1>7, <1>8, <1>9, <1>10,
    <1>11, <1>12, <1>13, <1>14, <1>15, <1>16, <1>17, <1>18, <1>19, <1>20,
    <1>21, <1>22, <1>23, <1>24, <1>25, <1>26, <1>27, <1>28, <1>29, <1>30,
    <1>31, <1>32, <1>33, <1>34, <1>35, <1>36, <1>37, <1>38, <1>39, <1>40,
    <1>41 DEF Next, CallerStep, ToolStep, OwnMotion,
     RelocatorStep, HomecomingStep, JobStep

(* With the pose trusted: Running is one job, or the one thread about to   *)
(* spawn it.                                                               *)
LEMMA JobPreserved ==
  ASSUME ~Untrusted, TypeOK, LockInv, JobInv, Next
  PROVE  JobInv'
<1> USE ThreadsAssumption, AskedAssumption DEF Threads, Own, Goto, Return, Stay, After, status, flags, jobs, threads, LockInv,
  Locked, TypeOK, JobInv, Busy, Alive, Starting
<1>1. ASSUME NEW c \in Callers, HaltNow(c) PROVE JobInv'
  BY <1>1 DEF HaltNow, MovingItself
<1>2. ASSUME NEW c \in Callers, StopTool(c) PROVE JobInv'
  BY <1>2 DEF StopTool, UserStop
<1>3. ASSUME NEW c \in Callers, HandMove(c) PROVE JobInv'
  BY <1>3 DEF HandMove, UserStop, MovingItself
<1>4. ASSUME NEW c \in Callers, Complete(c) PROVE JobInv'
  BY <1>4 DEF Complete
<1>5. ASSUME NEW c \in Callers, CompleteReturns(c) PROVE JobInv'
  BY <1>5 DEF CompleteReturns
<1>6. ASSUME NEW c \in Callers, CompleteTimesOut(c) PROVE JobInv'
  BY <1>6 DEF CompleteTimesOut
<1>7. ASSUME NEW c \in Callers, NEW what \in Asked, Call(c, what) PROVE JobInv'
  BY <1>7 DEF Call, MovingItself
<1>8. ASSUME NEW t \in Threads, Acquire(t) PROVE JobInv'
  BY <1>8 DEF Acquire
<1>9. ASSUME NEW t \in Threads, EndDrive(t) PROVE JobInv'
  BY <1>9 DEF EndDrive
<1>10. ASSUME NEW t \in Threads, Ask(t) PROVE JobInv'
  BY <1>10 DEF Ask, MayAsk
<1>11. ASSUME NEW t \in Threads, Refuse(t) PROVE JobInv'
  BY <1>11 DEF Refuse
<1>12. ASSUME NEW t \in Threads, Prepare(t) PROVE JobInv'
  BY <1>12 DEF Prepare
<1>13. ASSUME NEW t \in Threads, Begin(t) PROVE JobInv'
  BY <1>13 DEF Begin
<1>14. ASSUME NEW t \in Threads, ClearStop(t) PROVE JobInv'
  BY <1>14 DEF ClearStop
<1>15. ASSUME NEW t \in Threads, ConnectFails(t) PROVE JobInv'
  BY <1>15 DEF ConnectFails, Finish
<1>16. ASSUME NEW t \in Threads, Relocalize(t) PROVE JobInv'
  BY <1>16 DEF Relocalize
<1>17. ASSUME NEW t \in Threads, Request(t) PROVE JobInv'
  BY <1>17 DEF Request
<1>18. ASSUME NEW t \in Threads, NEW j \in Jobs, Spawn(t, j) PROVE JobInv'
  BY <1>18 DEF Spawn
<1>19. ASSUME NEW t \in {Relocator, Homecoming}, OwnStep(t) PROVE JobInv'
  BY <1>19 DEF OwnStep
<1>20. ASSUME NEW t \in {Relocator, Homecoming}, SeekStep(t) PROVE JobInv'
  BY <1>20 DEF SeekStep, StopAsked
<1>21. ASSUME NEW t \in {Relocator, Homecoming}, SeekOver(t) PROVE JobInv'
  BY <1>21 DEF SeekOver
<1>22. CASE TakeRequest
  BY <1>22 DEF TakeRequest
<1>23. CASE RelocateEnds
  BY <1>23 DEF RelocateEnds, Finish
<1>24. CASE Replay
  BY <1>24 DEF Replay
<1>25. CASE ReplayRefused
  BY <1>25 DEF ReplayRefused, Finish
<1>26. CASE SearchBegins
  BY <1>26 DEF SearchBegins
<1>27. CASE SearchEnds
  BY <1>27 DEF SearchEnds
<1>28. CASE SearchAgain
  BY <1>28 DEF SearchAgain
<1>29. CASE StandDown
  BY <1>29 DEF StandDown
<1>30. CASE SayItself
  BY <1>30 DEF SayItself
<1>31. CASE Adopt
  BY <1>31 DEF Adopt
<1>32. CASE Adopted
  BY <1>32 DEF Adopted
<1>33. ASSUME NEW what \in {"explore", "scout"}, StartExploring(what) PROVE JobInv'
  BY <1>33 DEF StartExploring
<1>34. ASSUME NEW j \in Jobs, JobStops(j) PROVE JobInv'
  BY <1>34 DEF JobStops, JobMoves, JobGoes
<1>35. ASSUME NEW j \in Jobs, JobTurns(j) PROVE JobInv'
  BY <1>35 DEF JobTurns, JobMoves, JobGoes
<1>36. ASSUME NEW j \in Jobs, LegBegins(j) PROVE JobInv'
  BY <1>36 DEF LegBegins, JobMoves, JobGoes
<1>37. ASSUME NEW j \in Jobs, LegEnds(j) PROVE JobInv'
  BY <1>37 DEF LegEnds, JobMoves, JobGoes
<1>38. ASSUME NEW j \in Jobs, TurnEnds(j) PROVE JobInv'
  BY <1>38 DEF TurnEnds, JobMoves, JobGoes
<1>39. ASSUME NEW j \in Jobs, JobIsOver(j) PROVE JobInv'
  BY <1>39 DEF JobIsOver, JobMoves, JobGoes
<1>40. ASSUME NEW j \in Jobs, EndSession(j) PROVE JobInv'
  BY <1>40 DEF EndSession, JobMoves, JobGoes
<1>41. ASSUME NEW j \in Jobs, JobFinishes(j) PROVE JobInv'
  BY <1>41 DEF JobFinishes, Finish, JobGoes
<1>42. QED BY <1>1, <1>2, <1>3, <1>4, <1>5, <1>6, <1>7, <1>8, <1>9, <1>10,
    <1>11, <1>12, <1>13, <1>14, <1>15, <1>16, <1>17, <1>18, <1>19, <1>20,
    <1>21, <1>22, <1>23, <1>24, <1>25, <1>26, <1>27, <1>28, <1>29, <1>30,
    <1>31, <1>32, <1>33, <1>34, <1>35, <1>36, <1>37, <1>38, <1>39, <1>40,
    <1>41 DEF Next, CallerStep, ToolStep, OwnMotion,
     RelocatorStep, HomecomingStep, JobStep

-----------------------------------------------------------------------------
(* The initial state satisfies the invariant. *)
LEMMA InvInit == Init => Inv
<1> SUFFICES ASSUME Init PROVE Inv
  OBVIOUS
<1> USE ThreadsAssumption DEF Init, Threads
<1>1. TypeOK
  <2>1. pc \in [Threads -> Locked \cup Unlocked] /\ tool \in [Threads -> Tools]
    BY DEF Locked, Unlocked, Tools
  <2>2. jobPc \in [Jobs -> JobPcs] /\ jobKind \in [Jobs -> Starts]
    BY DEF JobPcs, Starts
  <2>3. queue \in Seq(Starts) /\ lock \in Threads \cup {NoThread}
    OBVIOUS
  <2>4. QED BY <2>1, <2>2, <2>3 DEF TypeOK, States
<1>2. ToolInv /\ LockInv /\ StopInv
  BY DEF ToolInv, LockInv, StopInv, Starting, Serving, Locked
<1>3. JobInv
  BY DEF JobInv, Alive
<1>4. QED BY <1>1, <1>2, <1>3 DEF Inv

(* Every step, and every stutter, keeps the invariant. *)
LEMMA InvNext == Inv /\ [Next]_vars => Inv'
<1> SUFFICES ASSUME Inv, [Next]_vars PROVE Inv'
  OBVIOUS
<1>1. CASE Next
  BY <1>1, TypePreserved, ToolPreserved, LockPreserved, StopPreserved,
     JobPreserved DEF Inv
<1>2. CASE UNCHANGED vars
  BY <1>2 DEF Inv, vars, status, flags, jobs, threads, TypeOK, ToolInv,
     Serving, LockInv, StopInv, JobInv, Alive
<1>3. QED BY <1>1, <1>2

(* The inductive invariant holds throughout, whatever maploc says of the   *)
(* pose; its part about jobs as long as the pose is trusted.               *)
THEOREM Invariance == Spec => []Inv
<1>1. QED BY InvInit, InvNext, PTL DEF Spec

(* One job at a time (start_job), as long as the pose stays trusted. *)
THEOREM OneJobHolds == ~Untrusted => (Spec => []OneJob)
<1> SUFFICES ASSUME ~Untrusted PROVE Spec => []OneJob
  OBVIOUS
<1>1. Inv => OneJob
  BY DEF Inv, JobInv, OneJob
<1>2. QED BY <1>1, Invariance, PTL

(* A hand that drives meets no leg it has not held (drive_by_hand), as     *)
(* long as the pose stays trusted.                                         *)
THEOREM HandDrivesAloneHolds == ~Untrusted => (Spec => []HandDrivesAlone)
<1> SUFFICES ASSUME ~Untrusted PROVE Spec => []HandDrivesAlone
  OBVIOUS
<1>1. Inv => HandDrivesAlone
  BY DEF Inv, JobInv, HandDrivesAlone, Alive
<1>2. QED BY <1>1, Invariance, PTL

-----------------------------------------------------------------------------
(* Why the status does not stick at Relocalizing: some thread is about to    *)
(* send the request it took the status for, or one waits in the channel that *)
(* the relocator is not about to take out of it for its tool to be called    *)
(* again - its own status was Idle by then.                                  *)
Waits == \E t \in Threads : pc[t] = "request"
Queued == IF pc[Relocator] = "confirm" THEN Len(queue) > 1 ELSE queue # <<>>
ServedInv == state = "Relocalizing" => Waits \/ Queued

LEMMA ServedInit == Init => ServedInv
BY DEF Init, ServedInv

LEMMA ChannelGrows ==
  ASSUME NEW q \in Seq(Starts), NEW r \in Starts
  PROVE  /\ Append(q, r) # <<>>
         /\ q # <<>> => Len(Append(q, r)) > 1
         /\ Len(q) > 1 => Tail(q) # <<>>
<1> DEFINE a == Append(q, r)
           b == Tail(q)
<1>1. Len(a) = Len(q) + 1 /\ Len(q) \in Nat /\ (Len(q) > 1 => Len(b) = Len(q) - 1)
  OBVIOUS
<1>2. Len(<<>>) = 0 /\ (q # <<>> => Len(q) > 0)
  OBVIOUS
<1> HIDE DEF a, b
<1>3. a # <<>> /\ (q # <<>> => Len(a) > 1)
  BY <1>1, <1>2
<1>4. Len(q) > 1 => b # <<>>
  BY <1>1, <1>2
<1>5. QED BY <1>3, <1>4 DEF a, b

LEMMA ServedPreserved ==
  ASSUME TypeOK, ToolInv, LockInv, ServedInv, Next
  PROVE  ServedInv'
<1> USE ThreadsAssumption, AskedAssumption DEF Threads, Own, Goto, Return, Stay, After, status, flags, jobs, threads, LockInv,
  Locked, TypeOK, ToolInv, Serving, ServedInv, Waits, Queued, Busy
<1>1. ASSUME NEW c \in Callers, HaltNow(c) PROVE ServedInv'
  BY <1>1 DEF HaltNow, MovingItself
<1>2. ASSUME NEW c \in Callers, StopTool(c) PROVE ServedInv'
  BY <1>2 DEF StopTool, UserStop
<1>3. ASSUME NEW c \in Callers, HandMove(c) PROVE ServedInv'
  BY <1>3 DEF HandMove, UserStop, MovingItself
<1>4. ASSUME NEW c \in Callers, Complete(c) PROVE ServedInv'
  BY <1>4 DEF Complete
<1>5. ASSUME NEW c \in Callers, CompleteReturns(c) PROVE ServedInv'
  BY <1>5 DEF CompleteReturns
<1>6. ASSUME NEW c \in Callers, CompleteTimesOut(c) PROVE ServedInv'
  BY <1>6 DEF CompleteTimesOut
<1>7. ASSUME NEW c \in Callers, NEW what \in Asked, Call(c, what) PROVE ServedInv'
  BY <1>7 DEF Call, MovingItself
<1>8. ASSUME NEW t \in Threads, Acquire(t) PROVE ServedInv'
  BY <1>8 DEF Acquire
<1>9. ASSUME NEW t \in Threads, EndDrive(t) PROVE ServedInv'
  BY <1>9 DEF EndDrive
<1>10. ASSUME NEW t \in Threads, Ask(t) PROVE ServedInv'
  BY <1>10 DEF Ask, MayAsk
<1>11. ASSUME NEW t \in Threads, Refuse(t) PROVE ServedInv'
  BY <1>11 DEF Refuse
<1>12. ASSUME NEW t \in Threads, Prepare(t) PROVE ServedInv'
  BY <1>12 DEF Prepare
<1>13. ASSUME NEW t \in Threads, Begin(t) PROVE ServedInv'
  BY <1>13 DEF Begin
<1>14. ASSUME NEW t \in Threads, ClearStop(t) PROVE ServedInv'
  BY <1>14 DEF ClearStop
<1>15. ASSUME NEW t \in Threads, ConnectFails(t) PROVE ServedInv'
  BY <1>15 DEF ConnectFails, Finish
<1>16. ASSUME NEW t \in Threads, Relocalize(t) PROVE ServedInv'
  BY <1>16 DEF Relocalize
<1>17. ASSUME NEW t \in Threads, Request(t) PROVE ServedInv'
  BY <1>17 DEF Request
<1>18. ASSUME NEW t \in Threads, NEW j \in Jobs, Spawn(t, j) PROVE ServedInv'
  BY <1>18 DEF Spawn
<1>19. ASSUME NEW t \in {Relocator, Homecoming}, OwnStep(t) PROVE ServedInv'
  BY <1>19 DEF OwnStep
<1>20. ASSUME NEW t \in {Relocator, Homecoming}, SeekStep(t) PROVE ServedInv'
  BY <1>20 DEF SeekStep, StopAsked
<1>21. ASSUME NEW t \in {Relocator, Homecoming}, SeekOver(t) PROVE ServedInv'
  BY <1>21 DEF SeekOver
<1>22. CASE TakeRequest
  BY <1>22 DEF TakeRequest
<1>23. CASE RelocateEnds
  BY <1>23 DEF RelocateEnds, Finish
<1>24. CASE Replay
  BY <1>24, ChannelGrows DEF Replay
<1>25. CASE ReplayRefused
  BY <1>25 DEF ReplayRefused, Finish
<1>26. CASE SearchBegins
  BY <1>26 DEF SearchBegins
<1>27. CASE SearchEnds
  BY <1>27 DEF SearchEnds
<1>28. CASE SearchAgain
  BY <1>28 DEF SearchAgain
<1>29. CASE StandDown
  BY <1>29 DEF StandDown
<1>30. CASE SayItself
  BY <1>30 DEF SayItself
<1>31. CASE Adopt
  BY <1>31 DEF Adopt
<1>32. CASE Adopted
  BY <1>32 DEF Adopted
<1>33. ASSUME NEW what \in {"explore", "scout"}, StartExploring(what) PROVE ServedInv'
  BY <1>33 DEF StartExploring
<1>34. ASSUME NEW j \in Jobs, JobStops(j) PROVE ServedInv'
  BY <1>34 DEF JobStops, JobMoves, JobGoes
<1>35. ASSUME NEW j \in Jobs, JobTurns(j) PROVE ServedInv'
  BY <1>35 DEF JobTurns, JobMoves, JobGoes
<1>36. ASSUME NEW j \in Jobs, LegBegins(j) PROVE ServedInv'
  BY <1>36 DEF LegBegins, JobMoves, JobGoes
<1>37. ASSUME NEW j \in Jobs, LegEnds(j) PROVE ServedInv'
  BY <1>37 DEF LegEnds, JobMoves, JobGoes
<1>38. ASSUME NEW j \in Jobs, TurnEnds(j) PROVE ServedInv'
  BY <1>38 DEF TurnEnds, JobMoves, JobGoes
<1>39. ASSUME NEW j \in Jobs, JobIsOver(j) PROVE ServedInv'
  BY <1>39 DEF JobIsOver, JobMoves, JobGoes
<1>40. ASSUME NEW j \in Jobs, EndSession(j) PROVE ServedInv'
  BY <1>40 DEF EndSession, JobMoves, JobGoes
<1>41. ASSUME NEW j \in Jobs, JobFinishes(j) PROVE ServedInv'
  BY <1>41 DEF JobFinishes, Finish, JobGoes
<1>42. QED BY <1>1, <1>2, <1>3, <1>4, <1>5, <1>6, <1>7, <1>8, <1>9, <1>10,
    <1>11, <1>12, <1>13, <1>14, <1>15, <1>16, <1>17, <1>18, <1>19, <1>20,
    <1>21, <1>22, <1>23, <1>24, <1>25, <1>26, <1>27, <1>28, <1>29, <1>30,
    <1>31, <1>32, <1>33, <1>34, <1>35, <1>36, <1>37, <1>38, <1>39, <1>40,
    <1>41 DEF Next, CallerStep, ToolStep, OwnMotion,
     RelocatorStep, HomecomingStep, JobStep

(* The status says Relocalizing only while a request waits or is served,     *)
(* however many may wait: no end of a search, of its replay or of another's  *)
(* request leaves it there with nobody to end it (relocate.rs run,           *)
(* explore/mod.rs relocalize_then and relocalized).                          *)
THEOREM RelocalizingServed == Spec => []RelocalizingIsServed
<1>1. Inv /\ ServedInv /\ [Next]_vars => ServedInv'
  <2> SUFFICES ASSUME Inv, ServedInv, [Next]_vars PROVE ServedInv'
    OBVIOUS
  <2>1. CASE Next
    BY <2>1, ServedPreserved DEF Inv
  <2>2. CASE UNCHANGED vars
    BY <2>2 DEF ServedInv, Waits, Queued, vars, status, threads
  <2>3. QED BY <2>1, <2>2
<1>2. ServedInv => RelocalizingIsServed
  BY DEF ServedInv, Waits, Queued, RelocalizingIsServed
<1>3. QED BY <1>1, <1>2, ServedInit, Invariance, PTL DEF Spec

-----------------------------------------------------------------------------
(* After a stop no action starts a job, a leg or a step of the duck's own. *)
LEMMA OwnStartsNothing ==
  ASSUME TypeOK, LockInv, StopInv, Next
  PROVE  NothingOwnStarts
<1> USE ThreadsAssumption, AskedAssumption DEF Threads, Own, Goto, Return, Stay, After, status, flags, jobs, threads,
  Locked, TypeOK, StopInv, Starting, NothingOwnStarts
<1>1. ASSUME NEW c \in Callers, HaltNow(c) PROVE NothingOwnStarts
  BY <1>1 DEF HaltNow, MovingItself
<1>2. ASSUME NEW c \in Callers, StopTool(c) PROVE NothingOwnStarts
  BY <1>2 DEF StopTool, UserStop
<1>3. ASSUME NEW c \in Callers, HandMove(c) PROVE NothingOwnStarts
  BY <1>3 DEF HandMove, UserStop, MovingItself
<1>4. ASSUME NEW c \in Callers, Complete(c) PROVE NothingOwnStarts
  BY <1>4 DEF Complete
<1>5. ASSUME NEW c \in Callers, CompleteReturns(c) PROVE NothingOwnStarts
  BY <1>5 DEF CompleteReturns
<1>6. ASSUME NEW c \in Callers, CompleteTimesOut(c) PROVE NothingOwnStarts
  BY <1>6 DEF CompleteTimesOut
<1>7. ASSUME NEW c \in Callers, NEW what \in Asked, Call(c, what) PROVE NothingOwnStarts
  BY <1>7 DEF Call, MovingItself
<1>8. ASSUME NEW t \in Threads, Acquire(t) PROVE NothingOwnStarts
  BY <1>8 DEF Acquire
<1>9. ASSUME NEW t \in Threads, EndDrive(t) PROVE NothingOwnStarts
  BY <1>9 DEF EndDrive
<1>10. ASSUME NEW t \in Threads, Ask(t) PROVE NothingOwnStarts
  BY <1>10 DEF Ask, MayAsk
<1>11. ASSUME NEW t \in Threads, Refuse(t) PROVE NothingOwnStarts
  BY <1>11 DEF Refuse
<1>12. ASSUME NEW t \in Threads, Prepare(t) PROVE NothingOwnStarts
  BY <1>12 DEF Prepare
<1>13. ASSUME NEW t \in Threads, Begin(t) PROVE NothingOwnStarts
  BY <1>13 DEF Begin
<1>14. ASSUME NEW t \in Threads, ClearStop(t) PROVE NothingOwnStarts
  BY <1>14 DEF ClearStop
<1>15. ASSUME NEW t \in Threads, ConnectFails(t) PROVE NothingOwnStarts
  BY <1>15 DEF ConnectFails, Finish
<1>16. ASSUME NEW t \in Threads, Relocalize(t) PROVE NothingOwnStarts
  BY <1>16 DEF Relocalize
<1>17. ASSUME NEW t \in Threads, Request(t) PROVE NothingOwnStarts
  BY <1>17 DEF Request
<1>18. ASSUME NEW t \in Threads, NEW j \in Jobs, Spawn(t, j) PROVE NothingOwnStarts
  BY <1>18 DEF Spawn
<1>19. ASSUME NEW t \in {Relocator, Homecoming}, OwnStep(t) PROVE NothingOwnStarts
  BY <1>19 DEF OwnStep
<1>20. ASSUME NEW t \in {Relocator, Homecoming}, SeekStep(t) PROVE NothingOwnStarts
  BY <1>20 DEF SeekStep, StopAsked
<1>21. ASSUME NEW t \in {Relocator, Homecoming}, SeekOver(t) PROVE NothingOwnStarts
  BY <1>21 DEF SeekOver
<1>22. CASE TakeRequest
  BY <1>22 DEF TakeRequest
<1>23. CASE RelocateEnds
  BY <1>23 DEF RelocateEnds, Finish
<1>24. CASE Replay
  BY <1>24 DEF Replay
<1>25. CASE ReplayRefused
  BY <1>25 DEF ReplayRefused, Finish
<1>26. CASE SearchBegins
  BY <1>26 DEF SearchBegins
<1>27. CASE SearchEnds
  BY <1>27 DEF SearchEnds
<1>28. CASE SearchAgain
  BY <1>28 DEF SearchAgain
<1>29. CASE StandDown
  BY <1>29 DEF StandDown
<1>30. CASE SayItself
  BY <1>30 DEF SayItself
<1>31. CASE Adopt
  BY <1>31 DEF Adopt
<1>32. CASE Adopted
  BY <1>32 DEF Adopted
<1>33. ASSUME NEW what \in {"explore", "scout"}, StartExploring(what) PROVE NothingOwnStarts
  BY <1>33 DEF StartExploring
<1>34. ASSUME NEW j \in Jobs, JobStops(j) PROVE NothingOwnStarts
  BY <1>34 DEF JobStops, JobMoves, JobGoes
<1>35. ASSUME NEW j \in Jobs, JobTurns(j) PROVE NothingOwnStarts
  BY <1>35 DEF JobTurns, JobMoves, JobGoes
<1>36. ASSUME NEW j \in Jobs, LegBegins(j) PROVE NothingOwnStarts
  BY <1>36 DEF LegBegins, JobMoves, JobGoes
<1>37. ASSUME NEW j \in Jobs, LegEnds(j) PROVE NothingOwnStarts
  BY <1>37 DEF LegEnds, JobMoves, JobGoes
<1>38. ASSUME NEW j \in Jobs, TurnEnds(j) PROVE NothingOwnStarts
  BY <1>38 DEF TurnEnds, JobMoves, JobGoes
<1>39. ASSUME NEW j \in Jobs, JobIsOver(j) PROVE NothingOwnStarts
  BY <1>39 DEF JobIsOver, JobMoves, JobGoes
<1>40. ASSUME NEW j \in Jobs, EndSession(j) PROVE NothingOwnStarts
  BY <1>40 DEF EndSession, JobMoves, JobGoes
<1>41. ASSUME NEW j \in Jobs, JobFinishes(j) PROVE NothingOwnStarts
  BY <1>41 DEF JobFinishes, Finish, JobGoes
<1>42. QED BY <1>1, <1>2, <1>3, <1>4, <1>5, <1>6, <1>7, <1>8, <1>9, <1>10,
    <1>11, <1>12, <1>13, <1>14, <1>15, <1>16, <1>17, <1>18, <1>19, <1>20,
    <1>21, <1>22, <1>23, <1>24, <1>25, <1>26, <1>27, <1>28, <1>29, <1>30,
    <1>31, <1>32, <1>33, <1>34, <1>35, <1>36, <1>37, <1>38, <1>39, <1>40,
    <1>41 DEF Next, CallerStep, ToolStep, OwnMotion,
     RelocatorStep, HomecomingStep, JobStep

(* Once a user's stop was answered, nothing of the duck's own starts until *)
(* a job is asked for - whatever the pose is worth.                        *)
THEOREM OwnMotionWaitsHolds == Spec => OwnMotionWaits
<1>1. Inv /\ [Next]_vars => [NothingOwnStarts]_vars
  BY OwnStartsNothing DEF Inv
<1>2. QED BY <1>1, Invariance, PTL DEF Spec, OwnMotionWaits

-----------------------------------------------------------------------------
(* With one job at most, the driver is the account of the one alive. *)
LEMMA DriverIs ==
  ASSUME JobInv, NEW j \in Jobs, Alive(j)
  PROVE  Driver = jobBy[j]
<1>1. (CHOOSE i \in Jobs : Alive(i)) = j
  BY DEF JobInv
<1>2. QED BY <1>1 DEF Driver

(* The same, after a step. *)
LEMMA DriverIsNext ==
  ASSUME JobInv', NEW j \in Jobs, Alive(j)'
  PROVE  Driver' = jobBy'[j]
<1>1. \A i \in Jobs : Alive(i)' => i = j
  BY DEF JobInv
<1>2. QED BY <1>1 DEF Driver

(* A step that leaves the jobs alone is a stop, an ask, or a stutter. *)
LEMMA JobsKept ==
  ASSUME TypeOK', UNCHANGED jobs
  PROVE  Motion!Next
<1>1. Driver' = Driver
  BY DEF jobs, Driver, Alive
<1>2. stopped' \in BOOLEAN
  BY DEF TypeOK
<1>3. QED BY <1>1, <1>2 DEF Motion!Next, Motion!Stop, Motion!Ask

(* A step of a job that goes on is a stutter. *)
LEMMA DriverKept ==
  ASSUME JobInv, JobInv', NEW j \in Jobs, Alive(j), Alive(j)',
         jobBy' = jobBy, stopped' = stopped
  PROVE  UNCHANGED Motion!vars
<1>1. Driver = jobBy[j]
  BY DriverIs
<1>2. Driver' = jobBy'[j]
  BY DriverIsNext
<1>3. QED BY <1>1, <1>2 DEF Motion!vars

(* A step of the detailed system is a step of DuckMotion, or a stutter. *)
LEMMA MotionStep ==
  ASSUME ~Untrusted, Inv, Inv', Next
  PROVE  [Motion!Next]_(Motion!vars)
<1> USE DEF Motion!vars
<1>0. TypeOK /\ TypeOK' /\ JobInv /\ JobInv' /\ LockInv /\ StopInv
  BY DEF Inv
<1>1. ASSUME NEW c \in Callers, HaltNow(c) PROVE [Motion!Next]_(Motion!vars)
  BY <1>1, <1>0, JobsKept DEF HaltNow, jobs
<1>2. ASSUME NEW c \in Callers, StopTool(c) PROVE [Motion!Next]_(Motion!vars)
  BY <1>2, <1>0, JobsKept DEF StopTool, jobs
<1>3. ASSUME NEW c \in Callers, HandMove(c) PROVE [Motion!Next]_(Motion!vars)
  BY <1>3, <1>0, JobsKept DEF HandMove, jobs
<1>4. ASSUME NEW c \in Callers, Complete(c) PROVE [Motion!Next]_(Motion!vars)
  BY <1>4, <1>0, JobsKept DEF Complete, jobs
<1>5. ASSUME NEW c \in Callers, CompleteReturns(c) PROVE [Motion!Next]_(Motion!vars)
  BY <1>5, <1>0, JobsKept DEF CompleteReturns, jobs
<1>6. ASSUME NEW c \in Callers, CompleteTimesOut(c) PROVE [Motion!Next]_(Motion!vars)
  BY <1>6, <1>0, JobsKept DEF CompleteTimesOut, jobs
<1>7. ASSUME NEW c \in Callers, NEW what \in Asked, Call(c, what) PROVE [Motion!Next]_(Motion!vars)
  BY <1>7, <1>0, JobsKept DEF Call, jobs
<1>8. ASSUME NEW t \in Threads, Acquire(t) PROVE [Motion!Next]_(Motion!vars)
  BY <1>8, <1>0, JobsKept DEF Acquire, jobs
<1>9. ASSUME NEW t \in Threads, EndDrive(t) PROVE [Motion!Next]_(Motion!vars)
  BY <1>9, <1>0, JobsKept DEF EndDrive, jobs
<1>10. ASSUME NEW t \in Threads, Ask(t) PROVE [Motion!Next]_(Motion!vars)
  BY <1>10, <1>0, JobsKept DEF Ask, jobs
<1>11. ASSUME NEW t \in Threads, Refuse(t) PROVE [Motion!Next]_(Motion!vars)
  BY <1>11, <1>0, JobsKept DEF Refuse, jobs
<1>12. ASSUME NEW t \in Threads, Prepare(t) PROVE [Motion!Next]_(Motion!vars)
  BY <1>12, <1>0, JobsKept DEF Prepare, jobs
<1>13. ASSUME NEW t \in Threads, Begin(t) PROVE [Motion!Next]_(Motion!vars)
  BY <1>13, <1>0, JobsKept DEF Begin, jobs
<1>14. ASSUME NEW t \in Threads, ClearStop(t) PROVE [Motion!Next]_(Motion!vars)
  BY <1>14, <1>0, JobsKept DEF ClearStop, jobs
<1>15. ASSUME NEW t \in Threads, ConnectFails(t) PROVE [Motion!Next]_(Motion!vars)
  BY <1>15, <1>0, JobsKept DEF ConnectFails, jobs
<1>16. ASSUME NEW t \in Threads, Relocalize(t) PROVE [Motion!Next]_(Motion!vars)
  BY <1>16, <1>0, JobsKept DEF Relocalize, jobs
<1>17. ASSUME NEW t \in Threads, Request(t) PROVE [Motion!Next]_(Motion!vars)
  BY <1>17, <1>0, JobsKept DEF Request, jobs
<1>18. ASSUME NEW t \in Threads, NEW j \in Jobs, Spawn(t, j) PROVE [Motion!Next]_(Motion!vars)
  <2>1. Driver = "none" /\ Driver' = jobBy'[j]
    <3>1. jobPc'[j] = "run"
      BY <1>18, <1>0 DEF Spawn, TypeOK
    <3>2. \A i \in Jobs : ~Alive(i)
      BY <1>18, <1>0 DEF Spawn, JobInv
    <3>3. Driver' = jobBy'[j]
      BY <3>1, <1>0, DriverIsNext DEF Alive
    <3>4. QED BY <3>2, <3>3 DEF Driver
  <2>2. jobBy'[j] = "own" => ~stopped
    BY <1>18, <1>0 DEF Spawn, TypeOK, StopInv, Starting, Own, Threads
  <2>3. jobBy'[j] \in {"own", "user"} /\ stopped' = stopped
    BY <1>18, <1>0 DEF Spawn, TypeOK
  <2>4. QED BY <2>1, <2>2, <2>3 DEF Motion!Next, Motion!Start
<1>19. ASSUME NEW t \in {Relocator, Homecoming}, OwnStep(t) PROVE [Motion!Next]_(Motion!vars)
  BY <1>19, <1>0, JobsKept DEF OwnStep, jobs
<1>20. ASSUME NEW t \in {Relocator, Homecoming}, SeekStep(t) PROVE [Motion!Next]_(Motion!vars)
  BY <1>20, <1>0, JobsKept DEF SeekStep, jobs
<1>21. ASSUME NEW t \in {Relocator, Homecoming}, SeekOver(t) PROVE [Motion!Next]_(Motion!vars)
  BY <1>21, <1>0, JobsKept DEF SeekOver, jobs
<1>22. CASE TakeRequest
  BY <1>22, <1>0, JobsKept DEF TakeRequest, jobs
<1>23. CASE RelocateEnds
  BY <1>23, <1>0, JobsKept DEF RelocateEnds, jobs
<1>24. CASE Replay
  BY <1>24, <1>0, JobsKept DEF Replay, jobs
<1>25. CASE ReplayRefused
  BY <1>25, <1>0, JobsKept DEF ReplayRefused, jobs
<1>26. CASE SearchBegins
  BY <1>26, <1>0, JobsKept DEF SearchBegins, jobs
<1>27. CASE SearchEnds
  BY <1>27, <1>0, JobsKept DEF SearchEnds, jobs
<1>28. CASE SearchAgain
  BY <1>28, <1>0, JobsKept DEF SearchAgain, jobs
<1>29. CASE StandDown
  BY <1>29, <1>0, JobsKept DEF StandDown, jobs
<1>30. CASE SayItself
  BY <1>30, <1>0, JobsKept DEF SayItself, jobs
<1>31. CASE Adopt
  BY <1>31, <1>0, JobsKept DEF Adopt, jobs
<1>32. CASE Adopted
  BY <1>32, <1>0, JobsKept DEF Adopted, jobs
<1>33. ASSUME NEW what \in {"explore", "scout"}, StartExploring(what) PROVE [Motion!Next]_(Motion!vars)
  BY <1>33, <1>0, JobsKept DEF StartExploring, jobs
<1>34. ASSUME NEW j \in Jobs, JobStops(j) PROVE [Motion!Next]_(Motion!vars)
  <2>1. Alive(j) /\ Alive(j)' /\ jobBy' = jobBy /\ stopped' = stopped
    BY <1>34, <1>0 DEF JobStops, JobMoves, JobGoes, TypeOK, Alive
  <2>2. QED BY <2>1, <1>0, DriverKept
<1>35. ASSUME NEW j \in Jobs, JobTurns(j) PROVE [Motion!Next]_(Motion!vars)
  <2>1. Alive(j) /\ Alive(j)' /\ jobBy' = jobBy /\ stopped' = stopped
    BY <1>35, <1>0 DEF JobTurns, JobMoves, JobGoes, TypeOK, Alive
  <2>2. QED BY <2>1, <1>0, DriverKept
<1>36. ASSUME NEW j \in Jobs, LegBegins(j) PROVE [Motion!Next]_(Motion!vars)
  <2>1. Alive(j) /\ Alive(j)' /\ jobBy' = jobBy /\ stopped' = stopped
    BY <1>36, <1>0 DEF LegBegins, JobMoves, JobGoes, TypeOK, Alive
  <2>2. QED BY <2>1, <1>0, DriverKept
<1>37. ASSUME NEW j \in Jobs, LegEnds(j) PROVE [Motion!Next]_(Motion!vars)
  <2>1. Alive(j) /\ Alive(j)' /\ jobBy' = jobBy /\ stopped' = stopped
    BY <1>37, <1>0 DEF LegEnds, JobMoves, JobGoes, TypeOK, Alive
  <2>2. QED BY <2>1, <1>0, DriverKept
<1>38. ASSUME NEW j \in Jobs, TurnEnds(j) PROVE [Motion!Next]_(Motion!vars)
  <2>1. Alive(j) /\ Alive(j)' /\ jobBy' = jobBy /\ stopped' = stopped
    BY <1>38, <1>0 DEF TurnEnds, JobMoves, JobGoes, TypeOK, Alive
  <2>2. QED BY <2>1, <1>0, DriverKept
<1>39. ASSUME NEW j \in Jobs, JobIsOver(j) PROVE [Motion!Next]_(Motion!vars)
  <2>1. Alive(j) /\ Alive(j)' /\ jobBy' = jobBy /\ stopped' = stopped
    BY <1>39, <1>0 DEF JobIsOver, JobMoves, JobGoes, TypeOK, Alive
  <2>2. QED BY <2>1, <1>0, DriverKept
<1>40. ASSUME NEW j \in Jobs, EndSession(j) PROVE [Motion!Next]_(Motion!vars)
  <2>1. Alive(j) /\ Alive(j)' /\ jobBy' = jobBy /\ stopped' = stopped
    BY <1>40, <1>0 DEF EndSession, JobMoves, JobGoes, TypeOK, Alive
  <2>2. QED BY <2>1, <1>0, DriverKept
<1>41. ASSUME NEW j \in Jobs, JobFinishes(j) PROVE [Motion!Next]_(Motion!vars)
  <2>1. jobPc[j] = "publish" /\ jobPc'[j] = "none" /\ stopped' = stopped
    BY <1>41, <1>0 DEF JobFinishes, JobGoes, TypeOK
  <2>2. Driver \in {"own", "user"}
    BY <2>1, <1>0, DriverIs DEF Alive, TypeOK
  <2>3. \A i \in Jobs : ~Alive(i)'
    BY <1>41, <1>0, <2>1 DEF JobFinishes, JobGoes, TypeOK, JobInv, Alive
  <2>4. Driver' = "none"
    BY <2>3 DEF Driver
  <2>5. QED BY <2>1, <2>2, <2>4 DEF Motion!Next, Motion!End
<1>42. QED BY <1>1, <1>2, <1>3, <1>4, <1>5, <1>6, <1>7, <1>8, <1>9, <1>10,
    <1>11, <1>12, <1>13, <1>14, <1>15, <1>16, <1>17, <1>18, <1>19, <1>20,
    <1>21, <1>22, <1>23, <1>24, <1>25, <1>26, <1>27, <1>28, <1>29, <1>30,
    <1>31, <1>32, <1>33, <1>34, <1>35, <1>36, <1>37, <1>38, <1>39, <1>40,
    <1>41 DEF Next, CallerStep, ToolStep, OwnMotion,
     RelocatorStep, HomecomingStep, JobStep

(* As long as the pose stays trusted, the daemon implements DuckMotion. *)
THEOREM MotionRefined == ~Untrusted => (Spec => MotionSpec)
<1> SUFFICES ASSUME ~Untrusted PROVE Spec => MotionSpec
  OBVIOUS
<1>1. Init => Motion!Init
  BY DEF Init, Motion!Init, Driver, Alive
<1>2. Inv /\ Inv' /\ [Next]_vars => [Motion!Next]_(Motion!vars)
  <2> SUFFICES ASSUME Inv, Inv', [Next]_vars PROVE [Motion!Next]_(Motion!vars)
    OBVIOUS
  <2>1. CASE Next
    BY <2>1, MotionStep
  <2>2. CASE UNCHANGED vars
    BY <2>2 DEF vars, jobs, Motion!vars, Driver, Alive
  <2>3. QED BY <2>1, <2>2
<1>3. QED BY <1>1, <1>2, Invariance, PTL DEF Spec, MotionSpec, Motion!Spec

=============================================================================
