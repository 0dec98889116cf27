------------------------- MODULE SessionBookProofs -------------------------
(***************************************************************************)
(* The proofs of SessionBook: nothing is in the book under a name no map   *)
(* was saved under, and a declaration is lost to `fresh` or to a copy read *)
(* before it - for any number of names and maps.                           *)
(***************************************************************************)
EXTENDS SessionBook, TLAPS

(* An empty file is a file, with nothing under any name. *)
LEMMA EmptyTyped == Empty \in Files /\ \A n \in Names : Empty[n] = NoBook
BY DEF Empty, NoBook, Files, Books, Progress

(* A file with one entry changed is a file. *)
LEMMA FileChanged ==
  ASSUME NEW f \in Files, NEW n \in Names, NEW d \in SUBSET Maps, NEW p \in Progress
  PROVE  /\ [f EXCEPT ![n].drops = d] \in Files
         /\ [f EXCEPT ![n].progress = p] \in Files
         /\ f[n].drops \in SUBSET Maps /\ f[n].progress \in Progress
BY DEF Files, Books

(* Every step keeps the types.                                             *)
LEMMA TypePreserved ==
  ASSUME TypeOK, NameInv, Next
  PROVE  TypeOK'
<1> USE NamesAssumption, MapsAssumption DEF maps, ground, books, kept, tools, jobVars, home,
  TypeOK, Maps, NoMap, Writers, Keepers, StartAfresh, SaveAs, Read, Forget,
  ToolGoes, ToolAnswers, JobGoes, KeepGoes
<1>1. ASSUME NEW k \in Keepers, KeepName(k) PROVE TypeOK'
  BY <1>1 DEF KeepName, KeepPcs
<1>2. ASSUME NEW k \in Keepers, KeepStatus(k) PROVE TypeOK'
  BY <1>2 DEF KeepStatus, KeepPcs
<1>3. ASSUME NEW k \in Keepers, KeepRead(k) PROVE TypeOK'
  BY <1>3 DEF KeepRead, KeepPcs
<1>4. ASSUME NEW k \in Keepers, KeepWrite(k) PROVE TypeOK'
  <2>1. copy[k] \in Files
    BY <1>4
  <2>2. file' \in Files
    BY <1>4, <2>1, FileChanged DEF KeepWrite, Progress
  <2>3. copy' \in [Writers -> Files]
    BY <1>4, EmptyTyped DEF KeepWrite
  <2>4. QED BY <1>4, <2>2, <2>3 DEF KeepWrite, ToolPcs, JobPcs, KeepPcs, Progress
<1>5. ASSUME NEW n \in Names, Load(n) PROVE TypeOK'
  BY <1>5 DEF Load, ToolPcs
<1>6. ASSUME NEW n \in Names, Save(n) PROVE TypeOK'
  BY <1>6 DEF Save, ToolPcs
<1>7. CASE NamedRead
  BY <1>7 DEF NamedRead, ToolPcs
<1>8. CASE NamedGround
  BY <1>8 DEF NamedGround, ToolPcs
<1>9. CASE NamedBooks
  <2>1. copy["tool"] \in Files
    OBVIOUS
  <2>2. drops' \in SUBSET Maps /\ inHand' \in Progress
    BY <1>9, <2>1, FileChanged DEF NamedBooks
  <2>3. copy' \in [Writers -> Files]
    BY <1>9, EmptyTyped DEF NamedBooks
  <2>4. QED BY <1>9, <2>2, <2>3 DEF NamedBooks, ToolPcs
<1>10. CASE SaveNames
  BY <1>10 DEF SaveNames, ToolPcs, KeepPcs
<1>11. CASE Wipe
  BY <1>11 DEF Wipe
<1>12. CASE ToolKept
  BY <1>12 DEF ToolKept, ToolPcs
<1>13. CASE HomecomingWipes
  BY <1>13 DEF HomecomingWipes
<1>14. CASE MapSearching
  BY <1>14 DEF MapSearching, Progress
<1>15. ASSUME NEW n \in Names, NEW given \in BOOLEAN, Explore(n, given) PROVE TypeOK'
  BY <1>15 DEF Explore, ToolPcs
<1>16. ASSUME NEW n \in Names, NEW given \in BOOLEAN, ExploreFresh(n, given) PROVE TypeOK'
  BY <1>16 DEF ExploreFresh, ToolPcs
<1>17. CASE FreshRead
  BY <1>17 DEF FreshRead, ToolPcs
<1>18. CASE FreshForgets
  <2>1. copy["tool"] \in Files
    BY <1>18
  <2>2. file' \in Files
    BY <1>18, <2>1, FileChanged DEF FreshForgets, Progress
  <2>3. copy' \in [Writers -> Files]
    BY <1>18, EmptyTyped DEF FreshForgets
  <2>4. QED BY <1>18, <2>2, <2>3 DEF FreshForgets, ToolPcs, JobPcs, KeepPcs, Progress
<1>19. CASE FreshGround
  BY <1>19 DEF FreshGround, ToolPcs
<1>20. CASE FreshBooks
  BY <1>20 DEF FreshBooks, ToolPcs, Progress
<1>21. ASSUME NEW session \in BOOLEAN, Start(session) PROVE TypeOK'
  <2>1. CASE Begin(FALSE) /\ ToolAnswers
    BY <1>21, <2>1 DEF Start, Begin, ToolPcs, JobPcs
  <2>2. CASE ConnectFails /\ UNCHANGED <<toolName, toolGiven, job, jobGoal, jobDrops, running>>
    BY <1>21, <2>2 DEF Start, ConnectFails, ToolPcs, KeepPcs
  <2>3. QED BY <1>21, <2>1, <2>2 DEF Start
<1>22. CASE JobBooks
  <2>1. jobDrops' \in SUBSET Maps /\ drops' \in SUBSET Maps
    BY <1>22 DEF JobBooks
  <2>2. QED BY <1>22, <2>1 DEF JobBooks
<1>23. CASE JobEnds
  BY <1>23 DEF JobEnds, JobPcs
<1>24. CASE EndSaves
  <2>1. library' \in [Names -> Maps \cup {NoMap}] /\ job' \in JobPcs
    BY <1>24 DEF EndSaves, NameInv, JobPcs
  <2>2. QED BY <1>24, <2>1 DEF EndSaves
<1>25. CASE EndNames
  BY <1>25 DEF EndNames, JobPcs, NameInv
<1>26. CASE EndReads
  BY <1>26 DEF EndReads, JobPcs
<1>27. CASE EndWrites
  <2>1. copy["job"] \in Files /\ jobName \in Names
    BY <1>27 DEF EndWrites, NameInv
  <2>2. PICK verdict \in Progress :
            file' = [copy["job"] EXCEPT ![jobName].progress = verdict] /\ inHand' = verdict
    BY <1>27 DEF EndWrites, Progress
  <2>3. file' \in Files
    BY <2>1, <2>2, FileChanged
  <2>4. copy' \in [Writers -> Files]
    BY <1>27, EmptyTyped DEF EndWrites
  <2>5. QED BY <1>27, <2>2, <2>3, <2>4 DEF EndWrites, JobPcs
<1>28. CASE JobPublishes
  BY <1>28 DEF JobPublishes, JobPcs, KeepPcs
<1>29. ASSUME NEW given \in BOOLEAN, Complete(given) PROVE TypeOK'
  BY <1>29 DEF Complete, ToolPcs
<1>30. ASSUME NEW n \in Names, CompleteSaves(n) PROVE TypeOK'
  BY <1>30 DEF CompleteSaves, ToolPcs
<1>31. CASE CompleteRefused
  BY <1>31 DEF CompleteRefused, ToolPcs
<1>32. CASE DeclareReads
  BY <1>32 DEF DeclareReads, ToolPcs
<1>33. CASE DeclareWrites
  <2>1. copy["tool"] \in Files
    BY <1>33
  <2>2. file' \in Files
    BY <1>33, <2>1, FileChanged DEF DeclareWrites, Progress
  <2>3. copy' \in [Writers -> Files]
    BY <1>33, EmptyTyped DEF DeclareWrites
  <2>4. QED BY <1>33, <2>2, <2>3 DEF DeclareWrites, ToolPcs, JobPcs, KeepPcs, Progress
<1>34. CASE DeclareNames
  BY <1>34 DEF DeclareNames, ToolPcs, KeepPcs, Progress
<1>35. ASSUME NEW n \in Names, HomecomingAdopts(n) PROVE TypeOK'
  BY <1>35 DEF HomecomingAdopts, ToolPcs
<1>36. CASE NamesAgain
  BY <1>36 DEF NamesAgain, ToolPcs
<1>37. ASSUME NEW goal \in BOOLEAN, Journey(goal) PROVE TypeOK'
  <2>1. CASE Begin(goal) /\ UNCHANGED tools
    BY <1>37, <2>1 DEF Journey, Begin, JobPcs
  <2>2. CASE ConnectFails /\ UNCHANGED <<toolName, toolGiven, job, jobGoal, jobDrops, running>>
    BY <1>37, <2>2 DEF Journey, ConnectFails, ToolPcs, KeepPcs
  <2>3. QED BY <1>37, <2>1, <2>2 DEF Journey
<1>38. QED BY <1>1, <1>2, <1>3, <1>4, <1>5, <1>6, <1>7, <1>8, <1>9, <1>10,
    <1>11, <1>12, <1>13, <1>14, <1>15, <1>16, <1>17, <1>18, <1>19, <1>20,
    <1>21, <1>22, <1>23, <1>24, <1>25, <1>26, <1>27, <1>28, <1>29, <1>30,
    <1>31, <1>32, <1>33, <1>34, <1>35, <1>36, <1>37 DEF Next, KeepStep, MapStep, ExploreStep,
    SessionStep, CompleteStep

(* A name that was saved under stays one: nothing removes a map from the   *)
(* library.                                                                *)
LEMMA SavedStays ==
  ASSUME TypeOK, Next
  PROVE  \A m \in Names : Saved(m) => Saved(m)'
<1> USE NamesAssumption, MapsAssumption DEF maps, TypeOK,
  Maps, NoMap, StartAfresh, SaveAs, Saved
<1>1. ASSUME NEW k \in Keepers, KeepName(k) PROVE \A m \in Names : Saved(m) => Saved(m)'
  BY <1>1 DEF KeepName
<1>2. ASSUME NEW k \in Keepers, KeepStatus(k) PROVE \A m \in Names : Saved(m) => Saved(m)'
  BY <1>2 DEF KeepStatus
<1>3. ASSUME NEW k \in Keepers, KeepRead(k) PROVE \A m \in Names : Saved(m) => Saved(m)'
  BY <1>3 DEF KeepRead
<1>4. ASSUME NEW k \in Keepers, KeepWrite(k) PROVE \A m \in Names : Saved(m) => Saved(m)'
  BY <1>4 DEF KeepWrite
<1>5. ASSUME NEW n \in Names, Load(n) PROVE \A m \in Names : Saved(m) => Saved(m)'
  BY <1>5 DEF Load
<1>6. ASSUME NEW n \in Names, Save(n) PROVE \A m \in Names : Saved(m) => Saved(m)'
  BY <1>6 DEF Save
<1>7. CASE NamedRead
  BY <1>7 DEF NamedRead
<1>8. CASE NamedGround
  BY <1>8 DEF NamedGround
<1>9. CASE NamedBooks
  BY <1>9 DEF NamedBooks
<1>10. CASE SaveNames
  BY <1>10 DEF SaveNames
<1>11. CASE Wipe
  BY <1>11 DEF Wipe
<1>12. CASE ToolKept
  BY <1>12 DEF ToolKept
<1>13. CASE HomecomingWipes
  BY <1>13 DEF HomecomingWipes
<1>14. CASE MapSearching
  BY <1>14 DEF MapSearching
<1>15. ASSUME NEW n \in Names, NEW given \in BOOLEAN, Explore(n, given) PROVE \A m \in Names : Saved(m) => Saved(m)'
  BY <1>15 DEF Explore
<1>16. ASSUME NEW n \in Names, NEW given \in BOOLEAN, ExploreFresh(n, given) PROVE \A m \in Names : Saved(m) => Saved(m)'
  BY <1>16 DEF ExploreFresh
<1>17. CASE FreshRead
  BY <1>17 DEF FreshRead
<1>18. CASE FreshForgets
  BY <1>18 DEF FreshForgets
<1>19. CASE FreshGround
  BY <1>19 DEF FreshGround
<1>20. CASE FreshBooks
  BY <1>20 DEF FreshBooks
<1>21. ASSUME NEW session \in BOOLEAN, Start(session) PROVE \A m \in Names : Saved(m) => Saved(m)'
  BY <1>21 DEF Start
<1>22. CASE JobBooks
  BY <1>22 DEF JobBooks
<1>23. CASE JobEnds
  BY <1>23 DEF JobEnds
<1>24. CASE EndSaves
  BY <1>24 DEF EndSaves
<1>25. CASE EndNames
  BY <1>25 DEF EndNames
<1>26. CASE EndReads
  BY <1>26 DEF EndReads
<1>27. CASE EndWrites
  BY <1>27 DEF EndWrites
<1>28. CASE JobPublishes
  BY <1>28 DEF JobPublishes
<1>29. ASSUME NEW given \in BOOLEAN, Complete(given) PROVE \A m \in Names : Saved(m) => Saved(m)'
  BY <1>29 DEF Complete
<1>30. ASSUME NEW n \in Names, CompleteSaves(n) PROVE \A m \in Names : Saved(m) => Saved(m)'
  BY <1>30 DEF CompleteSaves
<1>31. CASE CompleteRefused
  BY <1>31 DEF CompleteRefused
<1>32. CASE DeclareReads
  BY <1>32 DEF DeclareReads
<1>33. CASE DeclareWrites
  BY <1>33 DEF DeclareWrites
<1>34. CASE DeclareNames
  BY <1>34 DEF DeclareNames
<1>35. ASSUME NEW n \in Names, HomecomingAdopts(n) PROVE \A m \in Names : Saved(m) => Saved(m)'
  BY <1>35 DEF HomecomingAdopts
<1>36. CASE NamesAgain
  BY <1>36 DEF NamesAgain
<1>37. ASSUME NEW goal \in BOOLEAN, Journey(goal) PROVE \A m \in Names : Saved(m) => Saved(m)'
  BY <1>37 DEF Journey
<1>38. QED BY <1>1, <1>2, <1>3, <1>4, <1>5, <1>6, <1>7, <1>8, <1>9, <1>10,
    <1>11, <1>12, <1>13, <1>14, <1>15, <1>16, <1>17, <1>18, <1>19, <1>20,
    <1>21, <1>22, <1>23, <1>24, <1>25, <1>26, <1>27, <1>28, <1>29, <1>30,
    <1>31, <1>32, <1>33, <1>34, <1>35, <1>36, <1>37 DEF Next, KeepStep, MapStep, ExploreStep,
    SessionStep, CompleteStep

(* The live map's name, and every name on its way to a write, is the name  *)
(* of a saved map.                                                         *)
LEMMA NamePreserved ==
  ASSUME TypeOK, NameInv, \A m \in Names : Saved(m) => Saved(m)', Next
  PROVE  NameInv'
<1> USE NamesAssumption, MapsAssumption DEF maps, ground, books, kept, tools, jobVars, home,
  TypeOK, NameInv, Keepers, KeepGoes, ToolGoes, ToolAnswers, JobGoes
<1>1. ASSUME NEW k \in Keepers, KeepName(k) PROVE NameInv'
  BY <1>1 DEF KeepName
<1>2. ASSUME NEW k \in Keepers, KeepStatus(k) PROVE NameInv'
  BY <1>2 DEF KeepStatus
<1>3. ASSUME NEW k \in Keepers, KeepRead(k) PROVE NameInv'
  BY <1>3 DEF KeepRead
<1>4. ASSUME NEW k \in Keepers, KeepWrite(k) PROVE NameInv'
  BY <1>4 DEF KeepWrite
<1>5. ASSUME NEW n \in Names, Load(n) PROVE NameInv'
  BY <1>5 DEF Load, Saved
<1>6. ASSUME NEW n \in Names, Save(n) PROVE NameInv'
  BY <1>6 DEF Save, SaveAs, Saved, Maps, NoMap
<1>7. CASE NamedRead
  BY <1>7 DEF NamedRead
<1>8. CASE NamedGround
  BY <1>8 DEF NamedGround
<1>9. CASE NamedBooks
  BY <1>9 DEF NamedBooks
<1>10. CASE SaveNames
  BY <1>10 DEF SaveNames
<1>11. CASE Wipe
  BY <1>11 DEF Wipe
<1>12. CASE ToolKept
  BY <1>12 DEF ToolKept
<1>13. CASE HomecomingWipes
  BY <1>13 DEF HomecomingWipes
<1>14. CASE MapSearching
  BY <1>14 DEF MapSearching
<1>15. ASSUME NEW n \in Names, NEW given \in BOOLEAN, Explore(n, given) PROVE NameInv'
  BY <1>15 DEF Explore
<1>16. ASSUME NEW n \in Names, NEW given \in BOOLEAN, ExploreFresh(n, given) PROVE NameInv'
  BY <1>16 DEF ExploreFresh
<1>17. CASE FreshRead
  BY <1>17 DEF FreshRead
<1>18. CASE FreshForgets
  BY <1>18 DEF FreshForgets
<1>19. CASE FreshGround
  BY <1>19 DEF FreshGround
<1>20. CASE FreshBooks
  BY <1>20 DEF FreshBooks
<1>21. ASSUME NEW session \in BOOLEAN, Start(session) PROVE NameInv'
  BY <1>21 DEF Start, Begin, ConnectFails
<1>22. CASE JobBooks
  BY <1>22 DEF JobBooks
<1>23. CASE JobEnds
  BY <1>23 DEF JobEnds
<1>24. CASE EndSaves
  <2>1. CASE SaveAs(jobName) /\ JobGoes("name")
    <3>1. Saved(jobName)'
      BY <1>24, <2>1 DEF EndSaves, SaveAs, Saved, Maps, NoMap
    <3>2. QED BY <1>24, <2>1, <3>1 DEF EndSaves
  <2>2. CASE UNCHANGED maps /\ JobGoes("publish")
    BY <1>24, <2>2 DEF EndSaves
  <2>3. QED BY <1>24, <2>1, <2>2 DEF EndSaves
<1>25. CASE EndNames
  BY <1>25 DEF EndNames
<1>26. CASE EndReads
  BY <1>26 DEF EndReads
<1>27. CASE EndWrites
  BY <1>27 DEF EndWrites
<1>28. CASE JobPublishes
  BY <1>28 DEF JobPublishes
<1>29. ASSUME NEW given \in BOOLEAN, Complete(given) PROVE NameInv'
  BY <1>29 DEF Complete
<1>30. ASSUME NEW n \in Names, CompleteSaves(n) PROVE NameInv'
  BY <1>30 DEF CompleteSaves, SaveAs, Saved, Maps, NoMap
<1>31. CASE CompleteRefused
  BY <1>31 DEF CompleteRefused
<1>32. CASE DeclareReads
  BY <1>32 DEF DeclareReads
<1>33. CASE DeclareWrites
  BY <1>33 DEF DeclareWrites
<1>34. CASE DeclareNames
  BY <1>34 DEF DeclareNames
<1>35. ASSUME NEW n \in Names, HomecomingAdopts(n) PROVE NameInv'
  BY <1>35 DEF HomecomingAdopts, Saved
<1>36. CASE NamesAgain
  BY <1>36 DEF NamesAgain
<1>37. ASSUME NEW goal \in BOOLEAN, Journey(goal) PROVE NameInv'
  BY <1>37 DEF Journey, Begin, ConnectFails
<1>38. QED BY <1>1, <1>2, <1>3, <1>4, <1>5, <1>6, <1>7, <1>8, <1>9, <1>10,
    <1>11, <1>12, <1>13, <1>14, <1>15, <1>16, <1>17, <1>18, <1>19, <1>20,
    <1>21, <1>22, <1>23, <1>24, <1>25, <1>26, <1>27, <1>28, <1>29, <1>30,
    <1>31, <1>32, <1>33, <1>34, <1>35, <1>36, <1>37 DEF Next, KeepStep, MapStep, ExploreStep,
    SessionStep, CompleteStep

(* A write leaves nothing under a name never saved: it writes a copy that  *)
(* was in order, changed under such a name.                                *)
LEMMA BookPreserved ==
  ASSUME TypeOK, NameInv, CopyInv, BooksAreOfSavedMaps,
         \A m \in Names : Saved(m) => Saved(m)', Next
  PROVE  CopyInv' /\ BooksAreOfSavedMaps'
<1> USE NamesAssumption, MapsAssumption DEF maps, ground, books, kept, tools, jobVars, home,
  TypeOK, CopyInv, BooksAreOfSavedMaps, Writers, Keepers, Read, Forget
<1>1. ASSUME NEW k \in Keepers, KeepName(k) PROVE CopyInv' /\ BooksAreOfSavedMaps'
  BY <1>1, EmptyTyped DEF KeepName, Bound
<1>2. ASSUME NEW k \in Keepers, KeepStatus(k) PROVE CopyInv' /\ BooksAreOfSavedMaps'
  BY <1>2, EmptyTyped DEF KeepStatus, Bound
<1>3. ASSUME NEW k \in Keepers, KeepRead(k) PROVE CopyInv' /\ BooksAreOfSavedMaps'
  BY <1>3, EmptyTyped DEF KeepRead, Bound
<1>4. ASSUME NEW k \in Keepers, KeepWrite(k) PROVE CopyInv' /\ BooksAreOfSavedMaps'
  <2>1. CopyInv'
    BY <1>4, EmptyTyped DEF KeepWrite, Bound
  <2>2. \A m \in Names : file'[m] # NoBook => Saved(m)
    BY <1>4 DEF KeepWrite, Bound, NameInv, Files, Books, NoBook
  <2>3. Bound(file)'
    BY <2>2 DEF Bound
  <2>4. QED BY <2>1, <2>3
<1>5. ASSUME NEW n \in Names, Load(n) PROVE CopyInv' /\ BooksAreOfSavedMaps'
  BY <1>5, EmptyTyped DEF Load, Bound
<1>6. ASSUME NEW n \in Names, Save(n) PROVE CopyInv' /\ BooksAreOfSavedMaps'
  BY <1>6, EmptyTyped DEF Save, Bound
<1>7. CASE NamedRead
  BY <1>7, EmptyTyped DEF NamedRead, Bound
<1>8. CASE NamedGround
  BY <1>8, EmptyTyped DEF NamedGround, Bound
<1>9. CASE NamedBooks
  BY <1>9, EmptyTyped DEF NamedBooks, Bound
<1>10. CASE SaveNames
  BY <1>10, EmptyTyped DEF SaveNames, Bound
<1>11. CASE Wipe
  BY <1>11, EmptyTyped DEF Wipe, Bound
<1>12. CASE ToolKept
  BY <1>12, EmptyTyped DEF ToolKept, Bound
<1>13. CASE HomecomingWipes
  BY <1>13, EmptyTyped DEF HomecomingWipes, Bound
<1>14. CASE MapSearching
  BY <1>14, EmptyTyped DEF MapSearching, Bound
<1>15. ASSUME NEW n \in Names, NEW given \in BOOLEAN, Explore(n, given) PROVE CopyInv' /\ BooksAreOfSavedMaps'
  BY <1>15, EmptyTyped DEF Explore, Bound
<1>16. ASSUME NEW n \in Names, NEW given \in BOOLEAN, ExploreFresh(n, given) PROVE CopyInv' /\ BooksAreOfSavedMaps'
  BY <1>16, EmptyTyped DEF ExploreFresh, Bound
<1>17. CASE FreshRead
  BY <1>17, EmptyTyped DEF FreshRead, Bound
<1>18. CASE FreshForgets
  <2>1. CopyInv'
    BY <1>18, EmptyTyped DEF FreshForgets, Bound
  <2>2. \A m \in Names : file'[m] # NoBook => Saved(m)
    BY <1>18 DEF FreshForgets, Bound, NameInv, Files, Books, NoBook
  <2>3. Bound(file)'
    BY <2>2 DEF Bound
  <2>4. QED BY <2>1, <2>3
<1>19. CASE FreshGround
  BY <1>19, EmptyTyped DEF FreshGround, Bound
<1>20. CASE FreshBooks
  BY <1>20, EmptyTyped DEF FreshBooks, Bound
<1>21. ASSUME NEW session \in BOOLEAN, Start(session) PROVE CopyInv' /\ BooksAreOfSavedMaps'
  BY <1>21, EmptyTyped DEF Start, Bound
<1>22. CASE JobBooks
  BY <1>22, EmptyTyped DEF JobBooks, Bound
<1>23. CASE JobEnds
  BY <1>23, EmptyTyped DEF JobEnds, Bound
<1>24. CASE EndSaves
  BY <1>24, EmptyTyped DEF EndSaves, Bound
<1>25. CASE EndNames
  BY <1>25, EmptyTyped DEF EndNames, Bound
<1>26. CASE EndReads
  BY <1>26, EmptyTyped DEF EndReads, Bound
<1>27. CASE EndWrites
  <2>1. CopyInv'
    BY <1>27, EmptyTyped DEF EndWrites, Bound
  <2>2. \A m \in Names : file'[m] # NoBook => Saved(m)
    BY <1>27 DEF EndWrites, Bound, NameInv, Files, Books, NoBook
  <2>3. Bound(file)'
    BY <2>2 DEF Bound
  <2>4. QED BY <2>1, <2>3
<1>28. CASE JobPublishes
  BY <1>28, EmptyTyped DEF JobPublishes, Bound
<1>29. ASSUME NEW given \in BOOLEAN, Complete(given) PROVE CopyInv' /\ BooksAreOfSavedMaps'
  BY <1>29, EmptyTyped DEF Complete, Bound
<1>30. ASSUME NEW n \in Names, CompleteSaves(n) PROVE CopyInv' /\ BooksAreOfSavedMaps'
  BY <1>30, EmptyTyped DEF CompleteSaves, Bound
<1>31. CASE CompleteRefused
  BY <1>31, EmptyTyped DEF CompleteRefused, Bound
<1>32. CASE DeclareReads
  BY <1>32, EmptyTyped DEF DeclareReads, Bound
<1>33. CASE DeclareWrites
  <2>1. CopyInv'
    BY <1>33, EmptyTyped DEF DeclareWrites, Bound
  <2>2. \A m \in Names : file'[m] # NoBook => Saved(m)
    BY <1>33 DEF DeclareWrites, Bound, NameInv, Files, Books, NoBook
  <2>3. Bound(file)'
    BY <2>2 DEF Bound
  <2>4. QED BY <2>1, <2>3
<1>34. CASE DeclareNames
  BY <1>34, EmptyTyped DEF DeclareNames, Bound
<1>35. ASSUME NEW n \in Names, HomecomingAdopts(n) PROVE CopyInv' /\ BooksAreOfSavedMaps'
  BY <1>35, EmptyTyped DEF HomecomingAdopts, Bound
<1>36. CASE NamesAgain
  BY <1>36, EmptyTyped DEF NamesAgain, Bound
<1>37. ASSUME NEW goal \in BOOLEAN, Journey(goal) PROVE CopyInv' /\ BooksAreOfSavedMaps'
  BY <1>37, EmptyTyped DEF Journey, Bound
<1>38. QED BY <1>1, <1>2, <1>3, <1>4, <1>5, <1>6, <1>7, <1>8, <1>9, <1>10,
    <1>11, <1>12, <1>13, <1>14, <1>15, <1>16, <1>17, <1>18, <1>19, <1>20,
    <1>21, <1>22, <1>23, <1>24, <1>25, <1>26, <1>27, <1>28, <1>29, <1>30,
    <1>31, <1>32, <1>33, <1>34, <1>35, <1>36, <1>37 DEF Next, KeepStep, MapStep, ExploreStep,
    SessionStep, CompleteStep

(* The initial state satisfies the invariant. *)
LEMMA InvInit == Init => Inv
<1> SUFFICES ASSUME Init PROVE Inv
  OBVIOUS
<1> USE NamesAssumption, MapsAssumption DEF Init, Maps, NoMap
<1>1. Empty \in Files
  BY EmptyTyped
<1>2. file \in Files
  BY <1>1 DEF Empty, NoBook, Files, Books, Progress
<1>3. library \in [Names -> Maps \cup {NoMap}]
  OBVIOUS
<1>4. live \in Maps /\ minted \in Maps /\ searches \subseteq Maps
  OBVIOUS
<1>5. copy \in [Writers -> Files]
  BY <1>1
<1>6. keep \in [Keepers -> KeepPcs] /\ keepName \in [Keepers -> Names]
      /\ keepDrops \in [Keepers -> SUBSET Maps]
  BY DEF KeepPcs
<1>7. TypeOK
  BY <1>2, <1>3, <1>4, <1>5, <1>6 DEF TypeOK, Progress, ToolPcs, JobPcs
<1>8. NameInv
  BY DEF NameInv, Keepers
<1>9. CopyInv /\ BooksAreOfSavedMaps
  BY DEF CopyInv, BooksAreOfSavedMaps, Bound, Saved, Empty
<1>10. QED BY <1>7, <1>8, <1>9 DEF Inv

(* Every step, and every stutter, keeps the invariant. *)
LEMMA InvNext == Inv /\ [Next]_vars => Inv'
<1> SUFFICES ASSUME Inv, [Next]_vars PROVE Inv'
  OBVIOUS
<1>1. CASE Next
  BY <1>1, TypePreserved, SavedStays, NamePreserved, BookPreserved DEF Inv
<1>2. CASE UNCHANGED vars
  BY <1>2 DEF Inv, vars, maps, ground, books, kept, tools, jobVars, home, TypeOK,
     NameInv, CopyInv, BooksAreOfSavedMaps, Bound, Saved
<1>3. QED BY <1>1, <1>2

(* The inductive invariant holds throughout. *)
THEOREM Invariance == Spec => []Inv
<1>1. QED BY InvInit, InvNext, PTL DEF Spec

(* Whatever the interleaving of the three writers, a book's entry is under *)
(* the name of a map that was saved (end_session, keep_ground).            *)
THEOREM BooksAreOfSavedMapsHolds == Spec => []BooksAreOfSavedMaps
<1>1. Inv => BooksAreOfSavedMaps
  BY DEF Inv
<1>2. QED BY <1>1, Invariance, PTL

-----------------------------------------------------------------------------
(* A write loses no declaration that its copy carries.                     *)
LEMMA DeclaredCarried ==
  ASSUME TypeOK, NameInv, Next
  PROVE  LostToAnOldCopy
<1> USE NamesAssumption, MapsAssumption DEF maps, ground, books, kept, tools, jobVars, home,
  TypeOK, Files, Books, Progress, Keepers, Writers
<1>1. ASSUME NEW k \in Keepers, KeepName(k) PROVE LostToAnOldCopy
  BY <1>1 DEF KeepName, LostToAnOldCopy, Declared
<1>2. ASSUME NEW k \in Keepers, KeepStatus(k) PROVE LostToAnOldCopy
  BY <1>2 DEF KeepStatus, LostToAnOldCopy, Declared
<1>3. ASSUME NEW k \in Keepers, KeepRead(k) PROVE LostToAnOldCopy
  BY <1>3 DEF KeepRead, LostToAnOldCopy, Declared
<1>4. ASSUME NEW k \in Keepers, KeepWrite(k) PROVE LostToAnOldCopy
  BY <1>4 DEF KeepWrite, LostToAnOldCopy, Declared, Writes, JobGoes, ToolGoes, KeepGoes, KeepPcs
<1>5. ASSUME NEW n \in Names, Load(n) PROVE LostToAnOldCopy
  BY <1>5 DEF Load, LostToAnOldCopy, Declared
<1>6. ASSUME NEW n \in Names, Save(n) PROVE LostToAnOldCopy
  BY <1>6 DEF Save, LostToAnOldCopy, Declared
<1>7. CASE NamedRead
  BY <1>7 DEF NamedRead, LostToAnOldCopy, Declared
<1>8. CASE NamedGround
  BY <1>8 DEF NamedGround, LostToAnOldCopy, Declared
<1>9. CASE NamedBooks
  BY <1>9 DEF NamedBooks, LostToAnOldCopy, Declared
<1>10. CASE SaveNames
  BY <1>10 DEF SaveNames, LostToAnOldCopy, Declared
<1>11. CASE Wipe
  BY <1>11 DEF Wipe, LostToAnOldCopy, Declared
<1>12. CASE ToolKept
  BY <1>12 DEF ToolKept, LostToAnOldCopy, Declared
<1>13. CASE HomecomingWipes
  BY <1>13 DEF HomecomingWipes, LostToAnOldCopy, Declared
<1>14. CASE MapSearching
  BY <1>14 DEF MapSearching, LostToAnOldCopy, Declared
<1>15. ASSUME NEW n \in Names, NEW given \in BOOLEAN, Explore(n, given) PROVE LostToAnOldCopy
  BY <1>15 DEF Explore, LostToAnOldCopy, Declared
<1>16. ASSUME NEW n \in Names, NEW given \in BOOLEAN, ExploreFresh(n, given) PROVE LostToAnOldCopy
  BY <1>16 DEF ExploreFresh, LostToAnOldCopy, Declared
<1>17. CASE FreshRead
  BY <1>17 DEF FreshRead, LostToAnOldCopy, Declared
<1>18. CASE FreshForgets
  <2>1. tool = "forget" /\ tool' = "unnamed"
    BY <1>18 DEF FreshForgets, ToolGoes
  <2>2. \A n \in Names : n # toolName => file'[n] = copy["tool"][n]
    BY <1>18 DEF FreshForgets
  <2>3. QED BY <2>1, <2>2 DEF LostToAnOldCopy, Declared, Fresh, Writes
<1>19. CASE FreshGround
  BY <1>19 DEF FreshGround, LostToAnOldCopy, Declared
<1>20. CASE FreshBooks
  BY <1>20 DEF FreshBooks, LostToAnOldCopy, Declared
<1>21. ASSUME NEW session \in BOOLEAN, Start(session) PROVE LostToAnOldCopy
  BY <1>21 DEF Start, LostToAnOldCopy, Declared
<1>22. CASE JobBooks
  BY <1>22 DEF JobBooks, LostToAnOldCopy, Declared
<1>23. CASE JobEnds
  BY <1>23 DEF JobEnds, LostToAnOldCopy, Declared
<1>24. CASE EndSaves
  BY <1>24 DEF EndSaves, LostToAnOldCopy, Declared
<1>25. CASE EndNames
  BY <1>25 DEF EndNames, LostToAnOldCopy, Declared
<1>26. CASE EndReads
  BY <1>26 DEF EndReads, LostToAnOldCopy, Declared
<1>27. CASE EndWrites
  BY <1>27 DEF EndWrites, LostToAnOldCopy, Declared, Writes, JobGoes, ToolGoes, KeepGoes, KeepPcs
<1>28. CASE JobPublishes
  BY <1>28 DEF JobPublishes, LostToAnOldCopy, Declared
<1>29. ASSUME NEW given \in BOOLEAN, Complete(given) PROVE LostToAnOldCopy
  BY <1>29 DEF Complete, LostToAnOldCopy, Declared
<1>30. ASSUME NEW n \in Names, CompleteSaves(n) PROVE LostToAnOldCopy
  BY <1>30 DEF CompleteSaves, LostToAnOldCopy, Declared
<1>31. CASE CompleteRefused
  BY <1>31 DEF CompleteRefused, LostToAnOldCopy, Declared
<1>32. CASE DeclareReads
  BY <1>32 DEF DeclareReads, LostToAnOldCopy, Declared
<1>33. CASE DeclareWrites
  BY <1>33 DEF DeclareWrites, LostToAnOldCopy, Declared, Writes, JobGoes, ToolGoes, KeepGoes, KeepPcs
<1>34. CASE DeclareNames
  BY <1>34 DEF DeclareNames, LostToAnOldCopy, Declared
<1>35. ASSUME NEW n \in Names, HomecomingAdopts(n) PROVE LostToAnOldCopy
  BY <1>35 DEF HomecomingAdopts, LostToAnOldCopy, Declared
<1>36. CASE NamesAgain
  BY <1>36 DEF NamesAgain, LostToAnOldCopy, Declared
<1>37. ASSUME NEW goal \in BOOLEAN, Journey(goal) PROVE LostToAnOldCopy
  BY <1>37 DEF Journey, LostToAnOldCopy, Declared
<1>38. QED BY <1>1, <1>2, <1>3, <1>4, <1>5, <1>6, <1>7, <1>8, <1>9, <1>10,
    <1>11, <1>12, <1>13, <1>14, <1>15, <1>16, <1>17, <1>18, <1>19, <1>20,
    <1>21, <1>22, <1>23, <1>24, <1>25, <1>26, <1>27, <1>28, <1>29, <1>30,
    <1>31, <1>32, <1>33, <1>34, <1>35, <1>36, <1>37 DEF Next, KeepStep, MapStep, ExploreStep,
    SessionStep, CompleteStep

(* Only `fresh`, or a copy read before it, undoes a declaration. *)
THEOREM DeclaredIsCarriedHolds == Spec => DeclaredIsCarried
<1>1. Inv /\ [Next]_vars => [LostToAnOldCopy]_vars
  BY DeclaredCarried DEF Inv
<1>2. QED BY <1>1, Invariance, PTL DEF Spec, DeclaredIsCarried
=============================================================================
