--------------------------- MODULE MapPartsProofs ----------------------------
(* Theorems about the homecoming's run, the gait's ledger and the pose graph *)
(* under the map, for any library, any number of agreeing asks, any samples, *)
(* any walks, any number of submaps and any closures; and about what is read *)
(* off a frame's grid, for any house, any band and any lanes.                *)
EXTENDS HomeRun, GaitLedger, MapGraph, MapView, MapGridProofs, FiniteSetTheorems, WellFoundedInduction,
        SequenceTheorems, TLAPS

(* The run of agreeing asks, in the answers kept since the last refusal: the *)
(* last is the previous one, and as many before it agree as were counted.    *)
RunRow(previous, agreed, answers) ==
  LET n == Len(answers)
  IN /\ n <= RunAsks
     /\ previous # RunNone =>
          /\ n >= 1 /\ answers[n] = previous
          /\ n >= agreed + 1 \/ n >= RunAsks
          /\ \A i \in 1 .. n - 1 : i >= n - agreed => RunAgrees(answers[i], answers[i + 1])

(* Where the homecoming is says what of the maps it has behind it.           *)
RunWhere(r) ==
  /\ r.at \in {"begin", "load"} => ~r.loaded
  /\ r.at \in {"wipe", "settle", "start", "ask", "adopt", "confirm"} =>
       (r.loaded => ~r.frozen /\ ~r.resume)
  /\ r.at \in {"search", "again", "resume"} => r.live = "saved"
  /\ r.at = "resume" => r.sure
  /\ r.at = "confirm" => r.live = "adopted"
  /\ r.session => r.at = "done"

RunInv ==
  /\ RunTypeOK
  /\ RunRow(run.previous, run.agreed, run.answers)
  /\ RunWhere(run)
  /\ RunTrue

LEMMA RunInitInv == ASSUME RunInit PROVE RunInv
<1>1. PICK resume \in BOOLEAN, dry \in BOOLEAN, search \in BOOLEAN : run = RunBlank(resume, dry, search)
  BY DEF RunInit
<1>2. RunTypeOK
  <2>1. <<>> \in Seq(RunAnswer) /\ 0 \in 0 .. RunAsks /\ RunNone \in RunAnswer \cup {RunNone}
    BY RunAssumption
  <2> QED BY <1>1, <2>1 DEF RunTypeOK, RunRuns, RunBlank, RunPlaces
<1>3. /\ run.at = "begin" /\ run.loaded = FALSE /\ run.session = FALSE /\ run.previous = RunNone
      /\ run.answers = <<>>
  BY <1>1 DEF RunBlank
<1>4. RunRow(run.previous, run.agreed, run.answers)
  BY <1>3, RunAssumption DEF RunRow
<1> QED BY <1>2, <1>3, <1>4 DEF RunInv, RunWhere, RunTrue, RunAdoptsAgreed, RunKeepsTheMap, RunSavesNoSearch

RunCount(previous, agreed, answer) ==
  IF previous # RunNone /\ RunAgrees(previous, answer) THEN agreed + 1 ELSE 0
RunHears(answers, answer) ==
  LET heard == Append(answers, answer) IN IF Len(heard) > RunAsks THEN Tail(heard) ELSE heard

(* An answer heard keeps the row, and fills it when the asks are agreed.     *)
LEMMA RunHeard ==
  ASSUME NEW previous, NEW agreed \in 0 .. RunAsks, NEW answers \in Seq(RunAnswer), NEW answer \in RunAnswer,
         RunRow(previous, agreed, answers)
  PROVE  LET now == RunCount(previous, agreed, answer)
             kept == RunHears(answers, answer)
         IN /\ kept \in Seq(RunAnswer)
            /\ RunRow(answer, IF now > RunAsks THEN RunAsks ELSE now, kept)
            /\ now + 1 >= RunAsks =>
                 /\ Len(kept) = RunAsks
                 /\ \A i \in 1 .. RunAsks - 1 : RunAgrees(kept[i], kept[i + 1])
<1> DEFINE n == Len(answers)
           heard == Append(answers, answer)
           now == RunCount(previous, agreed, answer)
           kept == RunHears(answers, answer)
<1>a. /\ now = IF previous # RunNone /\ RunAgrees(previous, answer) THEN agreed + 1 ELSE 0
      /\ kept = IF Len(heard) > RunAsks THEN Tail(heard) ELSE heard
      /\ heard = Append(answers, answer)
  BY DEF RunCount, RunHears
<1> HIDE DEF now, kept, heard
<1>1. n \in Nat /\ n <= RunAsks /\ RunAsks \in Nat /\ RunAsks >= 1 /\ now \in Nat /\ now <= agreed + 1 /\ agreed \in Nat
  BY <1>a, RunAssumption DEF RunRow
<1>2. heard \in Seq(RunAnswer) /\ Len(heard) = n + 1 /\ heard[n + 1] = answer /\ \A i \in 1 .. n : heard[i] = answers[i]
  BY <1>a
<1>3. \A i \in 1 .. n : i >= (n + 1) - now => RunAgrees(heard[i], heard[i + 1])
  <2> SUFFICES ASSUME NEW i \in 1 .. n, i >= (n + 1) - now PROVE RunAgrees(heard[i], heard[i + 1])
    OBVIOUS
  <2>1. previous # RunNone /\ RunAgrees(previous, answer) /\ now = agreed + 1
    BY <1>1, <1>a
  <2>2. CASE i = n
    BY <2>1, <2>2, <1>2 DEF RunRow
  <2>3. CASE i # n
    <3>1. i \in 1 .. n - 1 /\ i >= n - agreed /\ i + 1 \in 1 .. n
      BY <2>1, <2>3, <1>1
    <3>2. RunAgrees(answers[i], answers[i + 1])
      BY <3>1, <2>1 DEF RunRow
    <3> QED BY <3>1, <3>2, <1>2
  <2> QED BY <2>2, <2>3
<1>4. n + 1 >= now + 1 \/ n + 1 > RunAsks
  BY <1>1, <1>a DEF RunRow
<1>5. CASE n + 1 <= RunAsks
  <2>1. kept = heard
    BY <1>a, <1>1, <1>2, <1>5
  <2>2. RunRow(answer, IF now > RunAsks THEN RunAsks ELSE now, kept)
    BY <2>1, <1>1, <1>2, <1>3, <1>4, <1>5 DEF RunRow
  <2>3. ASSUME now + 1 >= RunAsks
        PROVE  Len(kept) = RunAsks /\ \A i \in 1 .. RunAsks - 1 : RunAgrees(kept[i], kept[i + 1])
    <3>1. n + 1 = RunAsks
      BY <2>3, <1>1, <1>4, <1>5
    <3>2. ASSUME NEW i \in 1 .. RunAsks - 1 PROVE RunAgrees(heard[i], heard[i + 1])
      <4>1. i \in 1 .. n /\ i >= (n + 1) - now
        BY <3>1, <2>3, <1>1
      <4> QED BY <4>1, <1>3
    <3> QED BY <3>1, <3>2, <2>1, <1>2
  <2> QED BY <2>1, <2>2, <2>3, <1>2 DEF now, kept
<1>6. CASE n + 1 > RunAsks
  <2>1. n = RunAsks /\ kept = Tail(heard)
    BY <1>a, <1>1, <1>2, <1>6
  <2>2. kept \in Seq(RunAnswer) /\ Len(kept) = n /\ \A i \in 1 .. n : kept[i] = heard[i + 1]
    BY <2>1, <1>1, <1>2
  <2>3. ASSUME NEW i \in 1 .. n - 1, i >= n - now PROVE RunAgrees(kept[i], kept[i + 1])
    <3>1. i + 1 \in 1 .. n /\ i + 1 >= (n + 1) - now /\ i \in 1 .. n
      BY <2>3, <1>1
    <3>2. RunAgrees(heard[i + 1], heard[(i + 1) + 1])
      BY <3>1, <1>3
    <3> QED BY <3>1, <3>2, <2>2
  <2>4. kept[n] = answer
    BY <2>1, <2>2, <1>1, <1>2
  <2>5. RunRow(answer, IF now > RunAsks THEN RunAsks ELSE now, kept)
    BY <2>1, <2>2, <2>3, <2>4, <1>1 DEF RunRow
  <2>6. ASSUME now + 1 >= RunAsks
        PROVE  Len(kept) = RunAsks /\ \A i \in 1 .. RunAsks - 1 : RunAgrees(kept[i], kept[i + 1])
    <3>1. \A i \in 1 .. n - 1 : i >= n - now
      BY <2>1, <2>6, <1>1
    <3> QED BY <3>1, <2>1, <2>2, <2>3
  <2> QED BY <2>2, <2>5, <2>6 DEF now, kept
<1> QED BY <1>1, <1>5, <1>6 DEF now, kept

LEMMA RunTakesKeeps ==
  ASSUME RunInv, run.at = "ask", NEW r, r = [run EXCEPT !.asked = @ \/ ~run.exploring],
         NEW answer \in RunAnswer, run' = RunTakes(r, answer)
  PROVE  RunInv'
<1> DEFINE agreed == RunCount(run.previous, run.agreed, answer)
           kept == RunHears(run.answers, answer)
           capped == IF agreed > RunAsks THEN RunAsks ELSE agreed
           at == IF agreed + 1 >= RunAsks /\ ~run.dry THEN "adopt" ELSE run.at
<1>1. /\ run.agreed \in 0 .. RunAsks /\ run.answers \in Seq(RunAnswer) /\ run.previous \in RunAnswer \cup {RunNone}
      /\ RunRow(run.previous, run.agreed, run.answers) /\ run \in RunRuns
  BY DEF RunInv, RunTypeOK, RunRuns
<1>a. agreed \in Nat
  BY <1>1, RunAssumption DEF RunCount
<1>2. /\ kept \in Seq(RunAnswer)
      /\ RunRow(answer, IF agreed > RunAsks THEN RunAsks ELSE agreed, kept)
      /\ agreed + 1 >= RunAsks =>
           /\ Len(kept) = RunAsks
           /\ \A i \in 1 .. RunAsks - 1 : RunAgrees(kept[i], kept[i + 1])
  BY <1>1, RunHeard
<1> HIDE DEF agreed, kept
<1>3. capped \in 0 .. RunAsks
  BY <1>a, RunAssumption
<1>4. /\ r \in RunRuns /\ r.previous = run.previous /\ r.agreed = run.agreed /\ r.answers = run.answers
      /\ r.at = run.at /\ r.dry = run.dry /\ r.loaded = run.loaded /\ r.live = run.live /\ r.frozen = run.frozen
      /\ r.resume = run.resume /\ r.session = run.session /\ r.sure = run.sure
  <2>1. PICK asked \in BOOLEAN : asked = (run.asked \/ ~run.exploring)
    OBVIOUS
  <2>2. r = [run EXCEPT !.asked = asked]
    BY <2>1
  <2> QED BY <1>1, <2>2 DEF RunRuns
<1>5. run' = [r EXCEPT !.previous = answer, !.agreed = capped, !.answers = kept, !.at = at]
  BY <1>4 DEF RunTakes, RunCount, RunHears, agreed, kept
<1>6. at \in {"ask", "adopt"} /\ (at = "adopt" => agreed + 1 >= RunAsks)
  OBVIOUS
<1>b. kept \in Seq(RunAnswer) /\ answer \in RunAnswer \cup {RunNone} /\ RunRow(answer, capped, kept)
  BY <1>2
<1> HIDE DEF capped, at
<1>7. /\ run' \in RunRuns /\ run'.previous = answer /\ run'.agreed = capped /\ run'.answers = kept /\ run'.at = at
      /\ run'.loaded = run.loaded /\ run'.live = run.live /\ run'.frozen = run.frozen
      /\ run'.resume = run.resume /\ run'.session = run.session /\ run'.sure = run.sure
  <2>1. at \in RunPlaces
    BY <1>6 DEF RunPlaces
  <2>2. run' \in RunRuns
    <3>1. r \in RunRuns
      BY <1>4
    <3> QED BY <1>b, <1>3, <1>5, <2>1, <3>1 DEF RunRuns
  <2>3. r \in RunRuns
    BY <1>4
  <2>4. /\ run'.previous = answer /\ run'.agreed = capped /\ run'.answers = kept /\ run'.at = at
        /\ run'.loaded = r.loaded /\ run'.live = r.live /\ run'.frozen = r.frozen
        /\ run'.resume = r.resume /\ run'.session = r.session /\ run'.sure = r.sure
    BY <2>3, <1>5 DEF RunRuns
  <2> QED BY <2>2, <2>4, <1>4
<1>8. RunWhere(run) /\ RunKeepsTheMap /\ RunSavesNoSearch
  BY DEF RunInv, RunTrue
<1>9. RunWhere(run') /\ RunKeepsTheMap' /\ RunSavesNoSearch'
  BY <1>6, <1>7, <1>8 DEF RunWhere, RunKeepsTheMap, RunSavesNoSearch
<1>10. RunAdoptsAgreed'
  BY <1>2, <1>6, <1>7 DEF RunAdoptsAgreed
<1> QED BY <1>b, <1>7, <1>9, <1>10 DEF RunInv, RunTrue, RunTypeOK

(* What leaves the row of answers alone, and does not adopt.                 *)
LEMMA RunPlainKeeps ==
  ASSUME RunInv, run' \in RunRuns, RunWhere(run'), RunKeepsTheMap', RunSavesNoSearch',
         run'.previous = run.previous, run'.agreed = run.agreed, run'.answers = run.answers,
         run'.at \in {"adopt", "confirm"} => run.at \in {"adopt", "confirm"}
  PROVE  RunInv'
  BY DEF RunInv, RunTypeOK, RunTrue, RunAdoptsAgreed

LEMMA RunStepKeeps == ASSUME RunInv, [RunNext]_run PROVE RunInv'
<1>t. run \in RunRuns /\ RunWhere(run) /\ RunKeepsTheMap /\ RunSavesNoSearch
  BY DEF RunInv, RunTypeOK, RunTrue
<1>f. /\ run.at \in RunPlaces /\ run.held \in BOOLEAN /\ run.exploring \in BOOLEAN /\ run.sure \in BOOLEAN
      /\ run.loaded \in BOOLEAN /\ run.frozen \in BOOLEAN /\ run.session \in BOOLEAN /\ run.resume \in BOOLEAN
  BY <1>t DEF RunRuns
<1>g. ASSUME NEW at \in RunPlaces, run' = RunGoes(run, at), at \notin {"adopt", "confirm"},
             at \in {"begin", "load"} => ~run.loaded,
             at \in {"wipe", "settle", "start", "ask"} => (run.loaded => ~run.frozen /\ ~run.resume),
             at \in {"search", "again", "resume"} => run.live = "saved",
             at # "resume", at = "done" \/ ~run.session
      PROVE  RunInv'
  <2>1. /\ run' \in RunRuns /\ run'.at = at /\ run'.loaded = run.loaded /\ run'.frozen = run.frozen
        /\ run'.resume = run.resume /\ run'.live = run.live /\ run'.sure = run.sure /\ run'.session = run.session
        /\ run'.previous = run.previous /\ run'.agreed = run.agreed /\ run'.answers = run.answers
    BY <1>t, <1>g DEF RunGoes, RunRuns
  <2>2. RunWhere(run') /\ RunKeepsTheMap' /\ RunSavesNoSearch'
    BY <2>1, <1>t, <1>g DEF RunWhere, RunKeepsTheMap, RunSavesNoSearch
  <2> QED BY <2>1, <2>2, <1>g, RunPlainKeeps
<1>1. CASE RunBegins
  <2>1. PICK at \in {"done", IF run.search THEN "load" ELSE "start"} : run' = RunGoes(run, at)
    BY <1>1 DEF RunBegins
  <2>2. at \in {"done", "load", "start"}
    BY <2>1
  <2> QED BY <2>1, <2>2, <1>1, <1>t, <1>g DEF RunBegins, RunWhere, RunPlaces
<1>2. CASE RunLoads
  <2>1. CASE \E frozen \in BOOLEAN :
          run' = [run EXCEPT !.at = "search", !.live = "saved", !.loaded = TRUE, !.frozen = frozen]
    <3>1. PICK frozen \in BOOLEAN : run' = [run EXCEPT !.at = "search", !.live = "saved", !.loaded = TRUE, !.frozen = frozen]
      BY <2>1
    <3>2. /\ run' \in RunRuns /\ run'.at = "search" /\ run'.live = "saved" /\ run'.session = run.session
          /\ run'.sure = run.sure
          /\ run'.previous = run.previous /\ run'.agreed = run.agreed /\ run'.answers = run.answers
      BY <3>1, <1>t DEF RunRuns, RunPlaces
    <3>3. run.session = FALSE
      BY <1>2, <1>t, <1>f DEF RunLoads, RunWhere
    <3>4. RunWhere(run') /\ RunKeepsTheMap' /\ RunSavesNoSearch'
      BY <3>2, <3>3 DEF RunWhere, RunKeepsTheMap, RunSavesNoSearch
    <3> QED BY <3>2, <3>4, RunPlainKeeps
  <2>2. CASE run' = RunGoes(run, "wipe")
    BY <2>2, <1>2, <1>t, <1>g DEF RunLoads, RunWhere, RunPlaces
  <2> QED BY <1>2, <2>1, <2>2 DEF RunLoads
<1>s. ASSUME run.at \in {"search", "again"}, run' = [run EXCEPT !.at = "resume", !.sure = TRUE] PROVE RunInv'
  <2>1. /\ run' \in RunRuns /\ run'.at = "resume" /\ run'.live = run.live /\ run'.session = run.session
        /\ run'.sure = TRUE /\ run'.loaded = run.loaded
        /\ run'.previous = run.previous /\ run'.agreed = run.agreed /\ run'.answers = run.answers
    BY <1>s, <1>t DEF RunRuns, RunPlaces
  <2>2. RunWhere(run') /\ RunKeepsTheMap' /\ RunSavesNoSearch'
    BY <2>1, <1>s, <1>t DEF RunWhere, RunKeepsTheMap, RunSavesNoSearch
  <2> QED BY <2>1, <2>2, RunPlainKeeps
<1>3. CASE RunSearches
  <2>1. CASE run' = RunUnless(run, IF run.frozen \/ run.resume THEN "again" ELSE "wipe")
    <3>1. PICK at \in {"done", "again", "wipe"} : /\ run' = RunGoes(run, at)
                                                  /\ at = "wipe" => ~run.frozen /\ ~run.resume
      BY <2>1 DEF RunUnless
    <3> QED BY <3>1, <1>3, <1>t, <1>g DEF RunSearches, RunWhere, RunPlaces
  <2> QED BY <2>1, <1>3, <1>s DEF RunSearches
<1>4. CASE RunSearchesOn
  BY <1>4, <1>s, <1>t, <1>g DEF RunSearchesOn, RunWhere, RunPlaces
<1>5. CASE RunResumes
  <2>1. CASE run' = [run EXCEPT !.at = "done", !.exploring = TRUE, !.session = TRUE]
    <3>1. /\ run' \in RunRuns /\ run'.at = "done" /\ run'.live = run.live /\ run'.sure = run.sure
          /\ run'.loaded = run.loaded
          /\ run'.previous = run.previous /\ run'.agreed = run.agreed /\ run'.answers = run.answers
      BY <2>1, <1>t DEF RunRuns, RunPlaces
    <3>2. RunWhere(run') /\ RunKeepsTheMap' /\ RunSavesNoSearch'
      BY <3>1, <1>5, <1>t DEF RunResumes, RunWhere, RunKeepsTheMap, RunSavesNoSearch
    <3> QED BY <3>1, <3>2, RunPlainKeeps
  <2>2. CASE run' = RunGoes(run, "done")
    BY <2>2, <1>t, <1>g DEF RunPlaces
  <2> QED BY <2>1, <2>2, <1>5 DEF RunResumes
<1>6. CASE RunWipes
  <2>1. CASE run' = [run EXCEPT !.at = "settle", !.live = "fresh", !.sure = FALSE]
    <3>1. /\ run' \in RunRuns /\ run'.at = "settle" /\ run'.session = run.session
          /\ run'.loaded = run.loaded /\ run'.frozen = run.frozen /\ run'.resume = run.resume
          /\ run'.previous = run.previous /\ run'.agreed = run.agreed /\ run'.answers = run.answers
      BY <2>1, <1>t DEF RunRuns, RunPlaces
    <3>2. RunWhere(run') /\ RunKeepsTheMap' /\ RunSavesNoSearch'
      BY <3>1, <1>6, <1>t DEF RunWipes, RunWhere, RunKeepsTheMap, RunSavesNoSearch
    <3> QED BY <3>1, <3>2, RunPlainKeeps
  <2>2. CASE run' = RunGoes(run, "done")
    BY <2>2, <1>t, <1>g DEF RunPlaces
  <2> QED BY <2>1, <2>2, <1>6 DEF RunWipes
<1>7. CASE RunSettles
  <2>1. CASE run' = [run EXCEPT !.at = "start", !.sure = TRUE]
    <3>1. /\ run' \in RunRuns /\ run'.at = "start" /\ run'.session = run.session /\ run'.live = run.live
          /\ run'.loaded = run.loaded /\ run'.frozen = run.frozen /\ run'.resume = run.resume
          /\ run'.previous = run.previous /\ run'.agreed = run.agreed /\ run'.answers = run.answers
      BY <2>1, <1>t DEF RunRuns, RunPlaces
    <3>2. RunWhere(run') /\ RunKeepsTheMap' /\ RunSavesNoSearch'
      BY <3>1, <1>7, <1>t DEF RunSettles, RunWhere, RunKeepsTheMap, RunSavesNoSearch
    <3> QED BY <3>1, <3>2, RunPlainKeeps
  <2>2. CASE run' = RunUnless(run, "start")
    <3>1. PICK at \in {"done", "start"} : run' = RunGoes(run, at)
      BY <2>2 DEF RunUnless
    <3> QED BY <3>1, <1>7, <1>t, <1>g DEF RunSettles, RunWhere, RunPlaces
  <2> QED BY <2>1, <2>2, <1>7 DEF RunSettles
<1>8. CASE RunStarts
  <2>1. CASE run' = [run EXCEPT !.at = "ask", !.exploring = TRUE]
    <3>1. /\ run' \in RunRuns /\ run'.at = "ask" /\ run'.session = run.session /\ run'.live = run.live
          /\ run'.loaded = run.loaded /\ run'.frozen = run.frozen /\ run'.resume = run.resume
          /\ run'.previous = run.previous /\ run'.agreed = run.agreed /\ run'.answers = run.answers
      BY <2>1, <1>t DEF RunRuns, RunPlaces
    <3>2. RunWhere(run') /\ RunKeepsTheMap' /\ RunSavesNoSearch'
      BY <3>1, <1>8, <1>t DEF RunStarts, RunWhere, RunKeepsTheMap, RunSavesNoSearch
    <3> QED BY <3>1, <3>2, RunPlainKeeps
  <2>2. CASE run' = RunGoes(run, "done")
    BY <2>2, <1>t, <1>g DEF RunPlaces
  <2> QED BY <2>1, <2>2, <1>8 DEF RunStarts
<1>9. CASE RunAsk
  <2>1. CASE run' = RunGoes(run, "done")
    BY <2>1, <1>t, <1>g DEF RunPlaces
  <2>2. CASE run' # RunGoes(run, "done")
    <3> DEFINE r == [run EXCEPT !.asked = @ \/ ~run.exploring]
    <3>1. run.at = "ask" /\ run' \in {r, RunRefused(r)} \cup {RunTakes(r, answer) : answer \in RunAnswer}
      BY <1>9, <2>2 DEF RunAsk
    <3>r. /\ r \in RunRuns /\ r.previous = run.previous /\ r.agreed = run.agreed /\ r.answers = run.answers
          /\ r.at = run.at /\ r.loaded = run.loaded /\ r.live = run.live /\ r.frozen = run.frozen
          /\ r.resume = run.resume /\ r.session = run.session /\ r.sure = run.sure
      <4>1. PICK asked \in BOOLEAN : asked = (run.asked \/ ~run.exploring)
        OBVIOUS
      <4>2. r = [run EXCEPT !.asked = asked]
        BY <4>1
      <4> QED BY <1>t, <4>2 DEF RunRuns
    <3>2. CASE run' = r
      <4> HIDE DEF r
      <4>1. RunWhere(run') /\ RunKeepsTheMap' /\ RunSavesNoSearch'
        BY <3>r, <3>2, <1>t DEF RunWhere, RunKeepsTheMap, RunSavesNoSearch
      <4> QED BY <3>r, <3>2, <4>1, RunPlainKeeps
    <3>3. CASE run' = RunRefused(r)
      <4> HIDE DEF r
      <4>0. RunNone \in RunAnswer \cup {RunNone} /\ 0 \in 0 .. RunAsks /\ <<>> \in Seq(RunAnswer)
        BY RunAssumption
      <4>1. /\ run' \in RunRuns /\ run'.previous = RunNone /\ run'.agreed = 0 /\ run'.answers = <<>>
            /\ run'.at = "ask" /\ run'.loaded = run.loaded /\ run'.live = run.live /\ run'.frozen = run.frozen
            /\ run'.resume = run.resume /\ run'.session = run.session /\ run'.sure = run.sure
        BY <3>1, <3>r, <3>3, <4>0 DEF RunRefused, RunRuns
      <4>2. RunWhere(run') /\ RunKeepsTheMap' /\ RunSavesNoSearch'
        BY <3>1, <4>1, <1>t DEF RunWhere, RunKeepsTheMap, RunSavesNoSearch
      <4>3. RunRow(run'.previous, run'.agreed, run'.answers)
        BY <4>1, RunAssumption DEF RunRow
      <4> QED BY <4>1, <4>2, <4>3 DEF RunInv, RunTrue, RunTypeOK, RunAdoptsAgreed
    <3>4. CASE \E answer \in RunAnswer : run' = RunTakes(r, answer)
      BY <3>1, <3>4, RunTakesKeeps
    <3> QED BY <3>1, <3>2, <3>3, <3>4
  <2> QED BY <2>1, <2>2
<1>10. CASE RunAdopts
  <2>1. CASE run' = RunGoes(run, "done")
    BY <2>1, <1>t, <1>g DEF RunPlaces
  <2>2. CASE run' = [run EXCEPT !.at = "done", !.exploring = FALSE, !.session = FALSE]
    <3>1. /\ run' \in RunRuns /\ run'.at = "done" /\ run'.session = FALSE /\ run'.live = run.live
          /\ run'.loaded = run.loaded /\ run'.frozen = run.frozen /\ run'.resume = run.resume
          /\ run'.previous = run.previous /\ run'.agreed = run.agreed /\ run'.answers = run.answers
      BY <2>2, <1>t DEF RunRuns, RunPlaces
    <3>2. RunWhere(run') /\ RunKeepsTheMap' /\ RunSavesNoSearch'
      BY <3>1, <1>t DEF RunWhere, RunKeepsTheMap, RunSavesNoSearch
    <3> QED BY <3>1, <3>2, RunPlainKeeps
  <2>3. CASE run' = [run EXCEPT !.at = "confirm", !.live = "adopted", !.sure = FALSE,
                                !.exploring = FALSE, !.session = FALSE]
    <3>1. /\ run' \in RunRuns /\ run'.at = "confirm" /\ run'.session = FALSE /\ run'.live = "adopted"
          /\ run'.loaded = run.loaded /\ run'.frozen = run.frozen /\ run'.resume = run.resume
          /\ run'.previous = run.previous /\ run'.agreed = run.agreed /\ run'.answers = run.answers
      BY <2>3, <1>t DEF RunRuns, RunPlaces
    <3>2. RunWhere(run') /\ RunKeepsTheMap' /\ RunSavesNoSearch'
      BY <3>1, <1>10, <1>t DEF RunAdopts, RunWhere, RunKeepsTheMap, RunSavesNoSearch
    <3>3. run.at \in {"adopt", "confirm"}
      BY <1>10 DEF RunAdopts
    <3> QED BY <3>1, <3>2, <3>3, RunPlainKeeps
  <2> QED BY <2>1, <2>2, <2>3, <1>10 DEF RunAdopts
<1>11. CASE RunConfirms
  <2>1. PICK found \in BOOLEAN, done \in BOOLEAN :
          LET r == [run EXCEPT !.sure = found, !.at = "done"]
          IN run' = IF (~found /\ run.held) \/ done \/ ~RunMayStart(run) THEN r
                    ELSE [r EXCEPT !.exploring = TRUE, !.session = TRUE]
    BY <1>11 DEF RunConfirms
  <2> DEFINE r == [run EXCEPT !.sure = found, !.at = "done"]
  <2>2. run' = r \/ run' = [r EXCEPT !.exploring = TRUE, !.session = TRUE]
    BY <2>1
  <2>3. /\ r \in RunRuns /\ r.at = "done" /\ r.live = run.live
        /\ r.loaded = run.loaded /\ r.frozen = run.frozen /\ r.resume = run.resume
        /\ r.previous = run.previous /\ r.agreed = run.agreed /\ r.answers = run.answers
    BY <1>t DEF RunRuns, RunPlaces
  <2> HIDE DEF r
  <2>4. /\ run' \in RunRuns /\ run'.at = "done" /\ run'.live = run.live
        /\ run'.loaded = run.loaded /\ run'.frozen = run.frozen /\ run'.resume = run.resume
        /\ run'.previous = run.previous /\ run'.agreed = run.agreed /\ run'.answers = run.answers
    BY <2>2, <2>3 DEF RunRuns
  <2>5. RunWhere(run') /\ RunKeepsTheMap' /\ RunSavesNoSearch'
    BY <2>4, <1>11, <1>t DEF RunConfirms, RunWhere, RunKeepsTheMap, RunSavesNoSearch
  <2> QED BY <2>4, <2>5, RunPlainKeeps
<1>12. CASE RunExplored \/ RunStopped \/ RunUserAsks
  <2>1. PICK exploring \in BOOLEAN, held \in BOOLEAN :
          run' = [run EXCEPT !.held = held, !.exploring = exploring, !.session = FALSE]
    <3>1. CASE RunExplored
      <4>1. run' = [run EXCEPT !.held = run.held, !.exploring = FALSE, !.session = FALSE]
        BY <3>1, <1>t DEF RunExplored, RunRuns
      <4> QED BY <4>1, <1>f
    <3>2. CASE RunStopped
      BY <3>2 DEF RunStopped
    <3>3. CASE RunUserAsks
      BY <3>3 DEF RunUserAsks
    <3> QED BY <1>12, <3>1, <3>2, <3>3
  <2>2. /\ run' \in RunRuns /\ run'.at = run.at /\ run'.session = FALSE /\ run'.live = run.live /\ run'.sure = run.sure
        /\ run'.loaded = run.loaded /\ run'.frozen = run.frozen /\ run'.resume = run.resume
        /\ run'.previous = run.previous /\ run'.agreed = run.agreed /\ run'.answers = run.answers
    BY <2>1, <1>t DEF RunRuns
  <2>3. RunWhere(run') /\ RunKeepsTheMap' /\ RunSavesNoSearch'
    BY <2>2, <1>t DEF RunWhere, RunKeepsTheMap, RunSavesNoSearch
  <2> QED BY <2>2, <2>3, RunPlainKeeps
<1>13. CASE UNCHANGED run
  BY <1>13 DEF RunInv, RunTypeOK, RunTrue, RunAdoptsAgreed, RunKeepsTheMap, RunSavesNoSearch
<1> QED BY <1>1, <1>2, <1>3, <1>4, <1>5, <1>6, <1>7, <1>8, <1>9, <1>10, <1>11, <1>12, <1>13 DEF RunNext

(* From the boot to its end, whatever the library answers and the user does, *)
(* the homecoming trades no kept map, adopts only on agreeing asks and saves *)
(* no search under the house's name.                                         *)
THEOREM RunKeepsHouses == RunSpec => [](RunTypeOK /\ RunTrue)
<1>1. RunInit => RunInv
  BY RunInitInv
<1>2. RunInv /\ [RunNext]_run => RunInv'
  BY RunStepKeeps
<1>3. RunInv => RunTypeOK /\ RunTrue
  BY DEF RunInv
<1> QED BY <1>1, <1>2, <1>3, PTL DEF RunSpec

-----------------------------------------------------------------------------
LEMMA LedgerNthIsSample ==
  ASSUME NEW s \in Seq(LedgerSamples), NEW k \in 1 .. Len(s)
  PROVE  LedgerNth(s, k) \in LedgerSamples
<1> DEFINE above(x) == {i \in DOMAIN s : s[i] <= x}
           T == {x \in LedgerSamples : Cardinality(above(x)) >= k}
<1>1. PICK most \in LedgerSamples : \A x \in LedgerSamples : x <= most
  BY LedgerAssumption
<1>2. DOMAIN s = 1 .. Len(s) /\ Len(s) \in Nat /\ \A i \in DOMAIN s : s[i] \in LedgerSamples
  OBVIOUS
<1>3. above(most) = 1 .. Len(s)
  BY <1>1, <1>2
<1>4. Cardinality(1 .. Len(s)) = Len(s)
  BY <1>2, FS_Interval
<1>5. most \in T
  <2>1. Cardinality(above(most)) = Len(s)
    BY <1>3, <1>4
  <2>2. Len(s) >= k
    BY <1>2
  <2> QED BY <2>1, <2>2
<1>6. T \subseteq Nat
  BY LedgerAssumption
<1> HIDE DEF T
<1>7. Min(T) \in T
  BY <1>5, <1>6, LeastNatural
<1>8. LedgerNth(s, k) = Min(T)
  BY DEF LedgerNth, T
<1> QED BY <1>7, <1>8 DEF T

LEMMA LedgerMedianIsNat ==
  ASSUME NEW s \in Seq(LedgerSamples), Len(s) >= 1
  PROVE  LedgerMedian(s) \in Nat
<1> DEFINE n == Len(s)
<1>1. n \in Nat /\ n >= 1 /\ LedgerSamples \subseteq Nat
  BY LedgerAssumption
<1>2. CASE n % 2 = 1
  <2>1. n \div 2 + 1 \in 1 .. n
    BY <1>1, <1>2
  <2> HIDE DEF n
  <2>2. LedgerNth(s, n \div 2 + 1) \in Nat
    BY <1>1, <2>1, LedgerNthIsSample DEF n
  <2> QED BY <1>2, <2>2 DEF LedgerMedian, n
<1>3. CASE n % 2 # 1
  <2>1. n \div 2 \in 1 .. n /\ n \div 2 + 1 \in 1 .. n
    BY <1>1, <1>3
  <2>2. LedgerNth(s, n \div 2) \in Nat /\ LedgerNth(s, n \div 2 + 1) \in Nat
    BY <1>1, <2>1, LedgerNthIsSample
  <2>3. \A a, b \in Nat : (a + b) \div 2 \in Nat
    OBVIOUS
  <2>4. LedgerMedian(s) = (LedgerNth(s, n \div 2) + LedgerNth(s, n \div 2 + 1)) \div 2
    BY <1>3 DEF LedgerMedian
  <2> HIDE DEF n
  <2> QED BY <2>2, <2>3, <2>4
<1> QED BY <1>2, <1>3

(* What a number was fitted about, it is bound by.                           *)
LedgerFitted(e) ==
  e.value # Unlearned => e.value >= e.prior \div 2 /\ e.value <= (8 * e.prior) \div 5

LEMMA LedgerRefitFits ==
  ASSUME NEW e \in LedgerEntry, NEW state \in LedgerStates
  PROVE  /\ LedgerRefit(e, state) \in LedgerEntry
         /\ LedgerRefit(e, state).samples = e.samples
         /\ LedgerRefit(e, state).prior = e.prior
         /\ LedgerFitted(LedgerRefit(e, state))
<1> DEFINE b == LedgerBounds(e.prior)
           lo == e.prior \div 2
           hi == (8 * e.prior) \div 5
<1>1. e.samples \in Seq(LedgerSamples) /\ e.prior \in Nat
  BY DEF LedgerEntry
<1>2. lo \in Nat /\ hi \in Nat /\ lo <= hi /\ b.lo = lo /\ b.hi = hi
  BY <1>1 DEF LedgerBounds
<1> DEFINE v == IF Len(e.samples) >= LedgerEnough(state) THEN LedgerClamp(LedgerMedian(e.samples), b) ELSE Unlearned
<1>3. v \in Nat /\ (v # Unlearned => v >= lo /\ v <= hi)
  <2>1. CASE Len(e.samples) >= LedgerEnough(state)
    <3>1. LedgerEnough(state) >= 1 /\ LedgerEnough(state) \in Nat
      BY LedgerAssumption DEF LedgerEnough
    <3>2. Len(e.samples) >= 1
      BY <1>1, <2>1, <3>1
    <3>3. LedgerMedian(e.samples) \in Nat
      BY <1>1, <3>2, LedgerMedianIsNat
    <3> HIDE DEF lo, hi, b
    <3> QED BY <1>2, <2>1, <3>3 DEF LedgerClamp
  <2>2. CASE ~(Len(e.samples) >= LedgerEnough(state))
    BY <2>2 DEF Unlearned
  <2> QED BY <2>1, <2>2
<1>4. LedgerRefit(e, state) = [e EXCEPT !.value = v]
  BY DEF LedgerRefit
<1> HIDE DEF v
<1>5. /\ LedgerRefit(e, state) \in LedgerEntry /\ LedgerRefit(e, state).samples = e.samples
      /\ LedgerRefit(e, state).prior = e.prior /\ LedgerRefit(e, state).value = v
  BY <1>3, <1>4 DEF LedgerEntry
<1> QED BY <1>3, <1>5 DEF LedgerFitted

(* The walk the body is in: its entry is fitted about what it should be.     *)
LedgerPrior(l) ==
  LET base == l.body[LedgerBase(l)].value
  IN IF l.state = "free" \/ base = Unlearned THEN l.prior ELSE base
LedgerWalk(l) ==
  l.body[LedgerKey(l)].prior = LedgerPrior(l) /\ LedgerFitted(l.body[LedgerKey(l)])

(* The file: behind the book only while something is to be written, and then *)
(* in no line but this one's.  A book begun without the file holds nothing   *)
(* else until it is written.                                                 *)
LedgerSame(l, k) ==
  l.file[k].samples = l.body[k].samples \/ (l.afresh /\ l.body[k].samples = <<>>)
LedgerFile(l) ==
  /\ ~l.dirty => \A k \in LedgerKeys : LedgerSame(l, k)
  /\ \A k \in LedgerKeys : k.line # l.line => LedgerSame(l, k)

(* The body lane's watch: what it says is the walk's state, and what the     *)
(* mouth has said against it, `other` has counted.                           *)
LedgerWatch(l) ==
  /\ l.up => l.on
  /\ l.up /\ ~l.astray => l.state = l.watch
  /\ l.clear.for > 0 /\ l.clear.says # l.watch => l.clear.for - 1 <= l.other /\ l.other < LedgerHold

LedgerBook(l) == l \in Ledgers /\ (l.on => LedgerWalk(l) /\ LedgerFile(l)) /\ LedgerWatch(l)
LedgerInv == LedgerBook(ledger) /\ (ledger.on => ledger.laid = LedgerValue(ledger))

LEMMA LedgerNoEntryIs == LedgerNoEntry \in LedgerEntry /\ LedgerNoEntry.samples = <<>>
<1>1. <<>> \in Seq(LedgerSamples)
  OBVIOUS
<1> QED BY <1>1 DEF LedgerNoEntry, LedgerEntry, Unlearned

LEMMA LedgerKeysIn ==
  ASSUME NEW l \in Ledgers
  PROVE  /\ LedgerKey(l) \in LedgerKeys /\ LedgerBase(l) \in LedgerKeys
         /\ LedgerKey(l).line = l.line /\ LedgerBase(l).line = l.line
         /\ (l.state = "free" <=> LedgerKey(l) = LedgerBase(l))
  BY DEF Ledgers, LedgerKey, LedgerBase, LedgerKeys, LedgerStates

LEMMA LedgerRefreshes ==
  ASSUME NEW l \in Ledgers, NEW r, r = LedgerRefreshed(l)
  PROVE  /\ r \in Ledgers /\ LedgerWalk(r)
         /\ r.line = l.line /\ r.prior = l.prior /\ r.on = l.on /\ r.state = l.state /\ r.file = l.file
         /\ r.laid = l.laid /\ r.dirty = l.dirty /\ r.written = l.written /\ r.up = l.up /\ r.watch = l.watch
         /\ r.other = l.other /\ r.clear = l.clear /\ r.astray = l.astray /\ r.afresh = l.afresh
         /\ \A k \in LedgerKeys : r.body[k].samples = l.body[k].samples
<1> DEFINE key == LedgerKey(l)
           base == LedgerBase(l)
           prior == LedgerPrior(l)
           old == [l.body[key] EXCEPT !.prior = prior]
           new == LedgerRefit(old, l.state)
           body == [l.body EXCEPT ![key] = new]
<1>1. /\ l.body \in [LedgerKeys -> LedgerEntry] /\ l.state \in LedgerStates /\ l.prior \in LedgerPriors
      /\ key \in LedgerKeys /\ base \in LedgerKeys /\ (l.state = "free" <=> key = base)
  BY LedgerKeysIn DEF Ledgers
<1>2. prior \in Nat
  <2>1. l.prior \in Nat
    BY <1>1, LedgerAssumption
  <2>2. l.body[base] \in LedgerEntry
    BY <1>1
  <2>3. l.body[base].value \in Nat
    BY <2>2 DEF LedgerEntry
  <2> QED BY <2>1, <2>3 DEF LedgerPrior
<1>3. old \in LedgerEntry /\ old.samples = l.body[key].samples /\ old.prior = prior
  <2>1. l.body[key] \in LedgerEntry
    BY <1>1
  <2> HIDE DEF prior
  <2> QED BY <2>1, <1>2 DEF LedgerEntry
<1> HIDE DEF old
<1>4. new \in LedgerEntry /\ new.samples = l.body[key].samples /\ new.prior = prior /\ LedgerFitted(new)
  BY <1>1, <1>3, LedgerRefitFits
<1> HIDE DEF new
<1>5. body \in [LedgerKeys -> LedgerEntry] /\ body[key] = new /\ \A k \in LedgerKeys \ {key} : body[k] = l.body[k]
  BY <1>1, <1>4
<1>6. r = [l EXCEPT !.body = body]
  BY DEF LedgerRefreshed, LedgerPrior, old, new
<1> HIDE DEF body
<1>7. /\ r \in Ledgers /\ r.body = body
      /\ r.line = l.line /\ r.prior = l.prior /\ r.on = l.on /\ r.state = l.state /\ r.file = l.file
      /\ r.laid = l.laid /\ r.dirty = l.dirty /\ r.written = l.written /\ r.up = l.up /\ r.watch = l.watch
      /\ r.other = l.other /\ r.clear = l.clear /\ r.astray = l.astray /\ r.afresh = l.afresh
  BY <1>5, <1>6 DEF Ledgers
<1>8. \A k \in LedgerKeys : r.body[k].samples = l.body[k].samples
  BY <1>4, <1>5, <1>7
<1>9. LedgerKey(r) = key /\ LedgerBase(r) = base
  BY <1>7 DEF LedgerKey, LedgerBase
<1>10. LedgerPrior(r) = prior
  <2>1. CASE l.state = "free"
    BY <2>1, <1>7 DEF LedgerPrior
  <2>2. CASE l.state # "free"
    <3>1. r.body[base] = l.body[base]
      BY <2>2, <1>1, <1>5, <1>7
    <3> QED BY <3>1, <1>7, <1>9 DEF LedgerPrior
  <2> QED BY <2>1, <2>2
<1>11. LedgerWalk(r)
  BY <1>4, <1>5, <1>7, <1>9, <1>10 DEF LedgerWalk
<1> QED BY <1>7, <1>8, <1>11

LEMMA LedgerValueIsNat == ASSUME NEW l \in Ledgers PROVE LedgerValue(l) \in Nat
<1>1. l.body[LedgerKey(l)] \in LedgerEntry /\ l.body[LedgerBase(l)] \in LedgerEntry
  BY LedgerKeysIn DEF Ledgers
<1>2. l.body[LedgerKey(l)].value \in Nat /\ l.body[LedgerBase(l)].value \in Nat
  BY <1>1 DEF LedgerEntry
<1> QED BY <1>2 DEF LedgerValue

(* Laying the value over changes nothing of the book.                        *)
LEMMA LedgerLaid ==
  ASSUME NEW l, LedgerBook(l), ledger' \in Ledgers, ledger'.laid = LedgerValue(l),
         ledger'.body = l.body, ledger'.line = l.line,
         ledger'.state = l.state, ledger'.prior = l.prior, ledger'.on = l.on, ledger'.file = l.file,
         ledger'.dirty = l.dirty, ledger'.up = l.up, ledger'.watch = l.watch, ledger'.other = l.other,
         ledger'.clear = l.clear, ledger'.astray = l.astray, ledger'.afresh = l.afresh
  PROVE  LedgerInv'
<1>1. LedgerKey(ledger') = LedgerKey(l) /\ LedgerBase(ledger') = LedgerBase(l)
  BY DEF LedgerKey, LedgerBase
<1>2. LedgerWalk(l) => LedgerWalk(ledger')
  BY <1>1 DEF LedgerWalk, LedgerPrior
<1>3. LedgerFile(l) => LedgerFile(ledger')
  BY DEF LedgerFile, LedgerSame
<1>4. LedgerWatch(ledger')
  BY DEF LedgerBook, LedgerWatch
<1>5. LedgerValue(ledger') = LedgerValue(l)
  BY <1>1 DEF LedgerValue
<1> QED BY <1>2, <1>3, <1>4, <1>5 DEF LedgerInv, LedgerBook

LEMMA LedgerWithKeeps ==
  ASSUME NEW l, LedgerBook(l), NEW force \in BOOLEAN, NEW g \in LedgerWith(l, force)
  PROVE  /\ LedgerBook(g) /\ g.laid = LedgerValue(g) /\ g.turns = l.turns /\ g.body = l.body
         /\ (g.file = l.file /\ g.afresh = l.afresh) \/ (g.file = l.body /\ ~g.afresh)
<1> DEFINE m == [l EXCEPT !.laid = LedgerValue(l)]
<1>1. l \in Ledgers /\ LedgerValue(l) \in Nat
  BY LedgerValueIsNat DEF LedgerBook
<1>2. /\ m \in Ledgers /\ m.laid = LedgerValue(l) /\ m.body = l.body /\ m.line = l.line /\ m.state = l.state
      /\ m.prior = l.prior /\ m.on = l.on /\ m.file = l.file /\ m.dirty = l.dirty /\ m.up = l.up
      /\ m.watch = l.watch /\ m.other = l.other /\ m.clear = l.clear /\ m.astray = l.astray /\ m.afresh = l.afresh /\ m.turns = l.turns
  BY <1>1 DEF Ledgers
<1>3. g = m \/ g = [m EXCEPT !.file = m.body, !.dirty = FALSE, !.written = TRUE, !.afresh = FALSE]
  BY DEF LedgerWith, LedgerWrites
<1> HIDE DEF m
<1>4. /\ g \in Ledgers /\ g.laid = LedgerValue(l) /\ g.body = l.body /\ g.line = l.line /\ g.state = l.state
      /\ g.prior = l.prior /\ g.on = l.on /\ g.up = l.up
      /\ g.watch = l.watch /\ g.other = l.other /\ g.clear = l.clear /\ g.astray = l.astray /\ g.turns = l.turns
      /\ (g.file = l.file /\ g.dirty = l.dirty /\ g.afresh = l.afresh) \/ (g.file = l.body /\ ~g.afresh)
  <2>1. CASE g = m
    BY <2>1, <1>2
  <2>2. CASE g = [m EXCEPT !.file = m.body, !.dirty = FALSE, !.written = TRUE, !.afresh = FALSE]
    BY <2>2, <1>2 DEF Ledgers
  <2> QED BY <1>3, <2>1, <2>2
<1>5. LedgerKey(g) = LedgerKey(l) /\ LedgerBase(g) = LedgerBase(l)
  BY <1>4 DEF LedgerKey, LedgerBase
<1>6. LedgerValue(g) = LedgerValue(l) /\ (LedgerWalk(l) => LedgerWalk(g))
  BY <1>4, <1>5 DEF LedgerValue, LedgerWalk, LedgerPrior
<1>7. LedgerFile(l) => LedgerFile(g)
  BY <1>4 DEF LedgerFile, LedgerSame
<1>8. LedgerWatch(g)
  BY <1>4 DEF LedgerBook, LedgerWatch
<1> QED BY <1>4, <1>6, <1>7, <1>8 DEF LedgerBook

(* What a step may do to the samples.                                        *)
LedgerTouches ==
  /\ \A k \in LedgerKeys : ledger'.file[k].samples # ledger.file[k].samples =>
       \/ k.line = ledger.line
       \/ ledger.afresh /\ ~ledger'.afresh /\ ledger'.file[k].samples = <<>>
  /\ ledger.on /\ ledger'.on =>
       \A k \in LedgerKeys \ {LedgerKey(ledger)} : ledger'.body[k].samples = ledger.body[k].samples

(* A step that set all but the laid value, which `with` then does.           *)
LEMMA LedgerWithInv ==
  ASSUME NEW l, LedgerBook(l), NEW force \in BOOLEAN, ledger' \in LedgerWith(l, force),
         l.on, l.line = ledger.line, l.file = ledger.file, l.afresh = ledger.afresh,
         \A k \in LedgerKeys \ {LedgerKey(ledger)} : l.body[k].samples = ledger.body[k].samples
  PROVE  LedgerInv' /\ LedgerTouches
<1>1. LedgerInv'
  BY LedgerWithKeeps DEF LedgerInv
<1>2. /\ ledger'.body = l.body
      /\ (ledger'.file = l.file /\ ledger'.afresh = l.afresh) \/ (ledger'.file = l.body /\ ~ledger'.afresh)
  BY LedgerWithKeeps
<1>3. LedgerFile(l)
  BY DEF LedgerBook
<1> QED BY <1>1, <1>2, <1>3 DEF LedgerTouches, LedgerFile, LedgerSame

LEMMA LedgerOffInv ==
  ASSUME NEW file \in [LedgerKeys -> LedgerEntry], NEW turns \in 0 .. LedgerTurns,
         NEW l, l = LedgerOff(file, turns)
  PROVE  LedgerBook(l) /\ ~l.on /\ ~l.afresh /\ l.file = file
<1> DEFINE line == CHOOSE line \in LedgerLines : TRUE
           prior == CHOOSE p \in LedgerPriors : TRUE
           empty == [k \in LedgerKeys |-> LedgerNoEntry]
           clear == [says |-> "free", for |-> 0]
<1>1. line \in LedgerLines /\ prior \in LedgerPriors
  BY LedgerAssumption
<1>2. empty \in [LedgerKeys -> LedgerEntry]
  BY LedgerNoEntryIs
<1>3. clear \in [says : LedgerStates, for : 0 .. LedgerHold + 1]
  BY LedgerAssumption DEF LedgerStates
<1>4. l = [line |-> line, prior |-> prior, on |-> FALSE, state |-> "free", body |-> empty, file |-> file,
           laid |-> Unlearned, dirty |-> FALSE, written |-> FALSE, afresh |-> FALSE, up |-> FALSE,
           watch |-> "free", other |-> -1, clear |-> clear, astray |-> FALSE, turns |-> turns]
  BY DEF LedgerOff
<1> HIDE DEF line, prior, empty, clear
<1>5. -1 \in -1 .. LedgerHold
  BY LedgerAssumption
<1>6. /\ l \in Ledgers /\ l.on = FALSE /\ l.up = FALSE /\ l.afresh = FALSE /\ l.clear = clear
      /\ l.file = file
  BY <1>1, <1>2, <1>3, <1>4, <1>5 DEF Ledgers, LedgerStates, Unlearned
<1>7. clear.for = 0
  BY DEF clear
<1> QED BY <1>6, <1>7 DEF LedgerBook, LedgerWatch

LEMMA LedgerInitInv == ASSUME LedgerInit PROVE LedgerInv
<1>1. [k \in LedgerKeys |-> LedgerNoEntry] \in [LedgerKeys -> LedgerEntry] /\ LedgerTurns \in 0 .. LedgerTurns
  BY LedgerNoEntryIs, LedgerAssumption
<1>2. LedgerBook(ledger) /\ ~ledger.on
  BY <1>1, LedgerOffInv DEF LedgerInit
<1> QED BY <1>2 DEF LedgerInv

(* Going over to a state of the body.                                        *)
LEMMA LedgerStates2 ==
  ASSUME NEW l \in Ledgers, LedgerWalk(l), LedgerFile(l), NEW state \in LedgerStates,
         NEW g, g = LedgerStated(l, state)
  PROVE  /\ g \in Ledgers /\ LedgerWalk(g) /\ LedgerFile(g) /\ g.state = state
         /\ g.on = l.on /\ g.up = l.up /\ g.watch = l.watch /\ g.other = l.other /\ g.clear = l.clear
         /\ g.astray = l.astray /\ g.afresh = l.afresh /\ g.line = l.line /\ g.file = l.file
         /\ \A k \in LedgerKeys : g.body[k].samples = l.body[k].samples
<1>1. CASE state = l.state
  BY <1>1 DEF LedgerStated
<1>2. CASE state # l.state
  <2> DEFINE m == [l EXCEPT !.state = state, !.dirty = TRUE]
  <2>1. /\ m \in Ledgers /\ m.state = state /\ m.dirty = TRUE /\ m.body = l.body /\ m.line = l.line
        /\ m.file = l.file /\ m.on = l.on /\ m.up = l.up /\ m.watch = l.watch /\ m.other = l.other
        /\ m.clear = l.clear /\ m.astray = l.astray /\ m.afresh = l.afresh
    BY DEF Ledgers
  <2>2. g = LedgerRefreshed(m)
    BY <1>2 DEF LedgerStated
  <2> HIDE DEF m
  <2>3. /\ g \in Ledgers /\ LedgerWalk(g) /\ g.state = state /\ g.dirty = TRUE /\ g.line = l.line
        /\ g.file = l.file /\ g.on = l.on /\ g.up = l.up /\ g.watch = l.watch /\ g.other = l.other
        /\ g.clear = l.clear /\ g.astray = l.astray /\ g.afresh = l.afresh
        /\ \A k \in LedgerKeys : g.body[k].samples = l.body[k].samples
    BY <2>1, <2>2, LedgerRefreshes
  <2>4. LedgerFile(g)
    BY <2>3 DEF LedgerFile, LedgerSame
  <2> QED BY <2>3, <2>4
<1> QED BY <1>1, <1>2

(* A tick of the watch.                                                      *)
LEMMA LedgerBodyKeeps == ASSUME LedgerInv, LedgerBody PROVE LedgerInv' /\ LedgerTouches
<1>1. ledger.on /\ ledger.up /\ ledger \in Ledgers /\ LedgerWalk(ledger) /\ LedgerFile(ledger) /\ LedgerWatch(ledger)
  BY DEF LedgerBody, LedgerInv, LedgerBook
<1> DEFINE later == [ledger EXCEPT !.other = IF @ \in 0 .. LedgerHold - 1 THEN @ + 1 ELSE @]
           seen(says) == LedgerSeen(later, says)
           told(says) == [seen(says) EXCEPT
                     !.clear = LedgerHeard(@, says),
                     !.astray = @ /\ seen(says).watch = ledger.watch]
<1>2. PICK says \in LedgerStates \cup {"unclear", "none"} : ledger' \in LedgerWith(told(says), FALSE)
  BY DEF LedgerBody
<1> DEFINE o == IF ledger.other \in 0 .. LedgerHold - 1 THEN ledger.other + 1 ELSE ledger.other
           p == IF o = -1 THEN 0 ELSE o
           s == seen(says)
           t == told(says)
<1>3. /\ ledger.other \in -1 .. LedgerHold /\ o \in -1 .. LedgerHold /\ p \in 0 .. LedgerHold
      /\ LedgerHold \in Nat /\ LedgerHold >= 1 /\ -1 \in -1 .. LedgerHold
      /\ o = -1 => ledger.other = -1
      /\ ledger.other >= 0 /\ ledger.other < LedgerHold => o = ledger.other + 1 /\ p = ledger.other + 1
  <2>1. ledger.other \in -1 .. LedgerHold
    BY <1>1 DEF Ledgers
  <2> QED BY <2>1, LedgerAssumption
<1>4. /\ later \in Ledgers /\ LedgerWalk(later) /\ LedgerFile(later) /\ later.other = o
      /\ later.on /\ later.up /\ later.watch = ledger.watch /\ later.clear = ledger.clear
      /\ later.astray = ledger.astray /\ later.afresh = ledger.afresh /\ later.state = ledger.state /\ later.line = ledger.line
      /\ later.file = ledger.file /\ later.body = ledger.body
  <2>1. later = [ledger EXCEPT !.other = o]
    OBVIOUS
  <2> HIDE DEF later, o
  <2>2. /\ later \in Ledgers /\ later.other = o
        /\ later.on = ledger.on /\ later.up = ledger.up /\ later.watch = ledger.watch /\ later.clear = ledger.clear
        /\ later.astray = ledger.astray /\ later.afresh = ledger.afresh /\ later.state = ledger.state /\ later.line = ledger.line
        /\ later.body = ledger.body /\ later.file = ledger.file /\ later.dirty = ledger.dirty
        /\ later.prior = ledger.prior
    BY <2>1, <1>1, <1>3 DEF Ledgers
  <2> QED BY <2>2, <1>1 DEF LedgerWalk, LedgerFile, LedgerPrior, LedgerKey, LedgerBase, LedgerSame
<1> HIDE DEF later, o
<1>5. /\ s \in Ledgers /\ LedgerWalk(s) /\ LedgerFile(s) /\ s.on /\ s.up /\ s.clear = ledger.clear
      /\ s.astray = ledger.astray /\ s.afresh = ledger.afresh /\ s.watch \in LedgerStates /\ s.other \in -1 .. LedgerHold /\ s.line = ledger.line
      /\ s.watch = ledger.watch => s.state = ledger.state
      /\ s.watch # ledger.watch => s.state = s.watch
      /\ says \in LedgerStates /\ says # s.watch => s.watch = ledger.watch /\ s.other = p /\ p < LedgerHold
      /\ says = "none" => s = later
      /\ s.file = ledger.file /\ \A k \in LedgerKeys : s.body[k].samples = ledger.body[k].samples
  <2>1. CASE says = "none"
    BY <2>1, <1>4, <1>3 DEF LedgerSeen, LedgerStates, Ledgers
  <2>2. CASE says # "none" /\ says # LedgerElse(ledger.watch)
    <3>1. s = [later EXCEPT !.other = -1]
      BY <2>2, <1>4 DEF LedgerSeen
    <3>2. /\ s \in Ledgers /\ s.other = -1 /\ s.line = ledger.line
          /\ s.on = later.on /\ s.up = later.up /\ s.watch = later.watch /\ s.clear = later.clear
          /\ s.astray = later.astray /\ s.afresh = later.afresh /\ s.state = later.state /\ s.line = later.line
          /\ s.body = later.body /\ s.file = later.file /\ s.dirty = later.dirty /\ s.prior = later.prior
      BY <3>1, <1>4, <1>3 DEF Ledgers
    <3>3. LedgerWalk(s) /\ LedgerFile(s)
      BY <3>2, <1>4 DEF LedgerWalk, LedgerFile, LedgerPrior, LedgerKey, LedgerBase, LedgerSame
    <3>4. says \in LedgerStates => says = s.watch
      BY <3>2, <2>2, <1>4 DEF LedgerElse, LedgerStates, Ledgers
    <3> HIDE DEF s
    <3> QED BY <3>2, <3>3, <3>4, <2>2, <1>4, <1>3 DEF Ledgers
  <2>3. CASE says # "none" /\ says = LedgerElse(ledger.watch) /\ p < LedgerHold
    <3>1. s = [later EXCEPT !.other = p]
      BY <2>3, <1>4 DEF LedgerSeen
    <3>p. p \in -1 .. LedgerHold
      BY <1>3
    <3> HIDE DEF p, s
    <3>2. /\ s \in Ledgers /\ s.other = p /\ s.line = ledger.line
          /\ s.on = later.on /\ s.up = later.up /\ s.watch = later.watch /\ s.clear = later.clear
          /\ s.astray = later.astray /\ s.afresh = later.afresh /\ s.state = later.state /\ s.line = later.line
          /\ s.body = later.body /\ s.file = later.file /\ s.dirty = later.dirty /\ s.prior = later.prior
      BY <3>1, <3>p, <1>4 DEF Ledgers
    <3>3. LedgerWalk(s) /\ LedgerFile(s)
      BY <3>2, <1>4 DEF LedgerWalk, LedgerFile, LedgerPrior, LedgerKey, LedgerBase, LedgerSame
    <3> QED BY <3>2, <3>3, <2>3, <1>4, <1>3 DEF Ledgers
  <2>4. CASE says # "none" /\ says = LedgerElse(ledger.watch) /\ ~(p < LedgerHold)
    <3> DEFINE m == [later EXCEPT !.watch = says, !.other = -1]
    <3>0. says \in LedgerStates /\ says # ledger.watch
      BY <2>4, <1>1 DEF LedgerElse, LedgerStates, Ledgers
    <3>1. s = LedgerStated(m, says)
      BY <2>4, <1>4 DEF LedgerSeen
    <3>2. /\ m \in Ledgers /\ m.other = -1 /\ m.watch = says
          /\ m.on = later.on /\ m.up = later.up /\ m.clear = later.clear
          /\ m.astray = later.astray /\ m.afresh = later.afresh /\ m.state = later.state /\ m.line = later.line
          /\ m.body = later.body /\ m.file = later.file /\ m.dirty = later.dirty /\ m.prior = later.prior
      BY <3>0, <1>4, <1>3 DEF Ledgers
    <3> HIDE DEF m
    <3>3. LedgerWalk(m) /\ LedgerFile(m)
      BY <3>2, <1>4 DEF LedgerWalk, LedgerFile, LedgerPrior, LedgerKey, LedgerBase, LedgerSame
    <3>4. /\ s \in Ledgers /\ LedgerWalk(s) /\ LedgerFile(s) /\ s.state = says
          /\ s.on = m.on /\ s.up = m.up /\ s.watch = m.watch /\ s.other = m.other /\ s.clear = m.clear
          /\ s.astray = m.astray /\ s.afresh = m.afresh /\ s.line = m.line /\ s.file = m.file
          /\ \A k \in LedgerKeys : s.body[k].samples = m.body[k].samples
      BY <3>0, <3>1, <3>2, <3>3, LedgerStates2
    <3> HIDE DEF s
    <3> QED BY <3>0, <3>2, <3>4, <2>4, <1>4, <1>3
  <2> QED BY <2>1, <2>2, <2>3, <2>4
<1> DEFINE clear == LedgerHeard(s.clear, says)
           astray == s.astray /\ s.watch = ledger.watch
<1>7. t = [s EXCEPT !.clear = clear, !.astray = astray]
  OBVIOUS
<1> HIDE DEF s
<1>6. /\ clear \in [says : LedgerStates, for : 0 .. LedgerHold + 1]
      /\ says \notin LedgerStates => clear.for = 0
      /\ says \in LedgerStates /\ ledger.clear.says # says => clear.says = says /\ clear.for = 1
      /\ says \in LedgerStates /\ ledger.clear.says = says =>
           clear.says = says /\ clear.for <= ledger.clear.for + 1 /\ clear.for >= 1
  <2>1. s.clear = ledger.clear /\ ledger.clear \in [says : LedgerStates, for : 0 .. LedgerHold + 1]
    BY <1>5, <1>1 DEF Ledgers
  <2>2. ledger.clear.for \in 0 .. LedgerHold + 1 /\ ledger.clear.says \in LedgerStates
    BY <2>1
  <2> QED BY <2>1, <2>2, <1>3 DEF LedgerHeard
<1>8. astray \in BOOLEAN /\ (astray => ledger.astray /\ s.watch = ledger.watch)
      /\ (~astray => ~ledger.astray \/ s.watch # ledger.watch)
  BY <1>5
<1> HIDE DEF t, clear, astray
<1>9. /\ t \in Ledgers /\ t.clear = clear /\ t.astray = astray /\ t.afresh = s.afresh
      /\ t.on = s.on /\ t.up = s.up /\ t.watch = s.watch /\ t.other = s.other
      /\ t.state = s.state /\ t.line = s.line
      /\ t.body = s.body /\ t.file = s.file /\ t.dirty = s.dirty /\ t.prior = s.prior
  BY <1>5, <1>6, <1>7, <1>8 DEF Ledgers
<1>10. LedgerWalk(t) /\ LedgerFile(t)
  BY <1>9, <1>5 DEF LedgerWalk, LedgerFile, LedgerPrior, LedgerKey, LedgerBase, LedgerSame
<1>11. t.up /\ ~t.astray => t.state = t.watch
  BY <1>1, <1>5, <1>8, <1>9 DEF LedgerWatch
<1>12. t.clear.for > 0 /\ t.clear.says # t.watch => t.clear.for - 1 <= t.other /\ t.other < LedgerHold
  <2> SUFFICES ASSUME t.clear.for > 0, t.clear.says # t.watch
               PROVE  t.clear.for - 1 <= t.other /\ t.other < LedgerHold
    OBVIOUS
  <2>1. says \in LedgerStates /\ clear.says = says /\ says # s.watch
    BY <1>6, <1>9
  <2>2. s.watch = ledger.watch /\ s.other = p /\ p < LedgerHold
    BY <2>1, <1>5
  <2>3. CASE ledger.clear.says # says
    BY <2>1, <2>2, <2>3, <1>3, <1>6, <1>9
  <2>4. CASE ledger.clear.says = says
    <3>0. ledger.clear.for \in 0 .. LedgerHold + 1
      BY <1>1 DEF Ledgers
    <3>1. CASE ledger.clear.for = 0
      BY <2>1, <2>2, <2>4, <3>1, <1>3, <1>6, <1>9
    <3>2. CASE ledger.clear.for > 0
      <4>1. ledger.clear.for - 1 <= ledger.other /\ ledger.other < LedgerHold
        BY <2>1, <2>2, <2>4, <3>2, <1>1 DEF LedgerWatch
      <4>2. p = ledger.other + 1
        BY <4>1, <3>0, <3>2, <1>3
      <4>3. clear.for <= ledger.clear.for + 1 /\ clear.for \in 0 .. LedgerHold + 1
        BY <2>1, <2>4, <1>6
      <4> HIDE DEF p
      <4> QED BY <4>1, <4>2, <4>3, <3>0, <2>2, <1>3, <1>9
    <3> QED BY <3>0, <3>1, <3>2
  <2> QED BY <2>3, <2>4
<1>13. LedgerBook(t)
  BY <1>5, <1>9, <1>10, <1>11, <1>12 DEF LedgerBook, LedgerWatch
<1>14. ledger' \in LedgerWith(t, FALSE)
  BY <1>2 DEF t
<1>15. /\ t.on /\ t.line = ledger.line /\ t.file = ledger.file /\ t.afresh = ledger.afresh
       /\ \A k \in LedgerKeys \ {LedgerKey(ledger)} : t.body[k].samples = ledger.body[k].samples
  BY <1>5, <1>9
<1> QED BY <1>13, <1>14, <1>15, LedgerWithInv

LEMMA LedgerOpensKeeps == ASSUME LedgerInv, LedgerOpens PROVE LedgerInv' /\ LedgerTouches
<1>1. ledger \in Ledgers /\ LedgerWatch(ledger) /\ ~ledger.on
  BY DEF LedgerInv, LedgerBook, LedgerOpens
<1>2. PICK line \in LedgerLines, prior \in LedgerPriors, book \in LedgerRead :
        LET l == LedgerRefreshed([ledger EXCEPT !.on = TRUE, !.line = line, !.prior = prior,
                                                !.state = "free", !.body = book,
                                                !.afresh = book # ledger.file,
                                                !.dirty = FALSE, !.written = FALSE])
        IN ledger' = [l EXCEPT !.laid = LedgerValue(l)]
  BY DEF LedgerOpens
<1> DEFINE afresh == book # ledger.file
           m == [ledger EXCEPT !.on = TRUE, !.line = line, !.prior = prior, !.state = "free",
                               !.body = book, !.afresh = afresh, !.dirty = FALSE, !.written = FALSE]
           l == LedgerRefreshed(m)
<1>b. /\ book \in [LedgerKeys -> LedgerEntry] /\ afresh \in BOOLEAN
      /\ book = ledger.file \/ (afresh /\ \A k \in LedgerKeys : book[k].samples = <<>>)
  <2>1. ledger.file \in [LedgerKeys -> LedgerEntry]
    BY <1>1 DEF Ledgers
  <2> QED BY <2>1, LedgerNoEntryIs DEF LedgerRead
<1> HIDE DEF afresh
<1>3. /\ m \in Ledgers /\ m.on = TRUE /\ m.body = book /\ m.file = ledger.file /\ m.up = ledger.up
      /\ m.watch = ledger.watch /\ m.other = ledger.other /\ m.clear = ledger.clear /\ m.afresh = afresh
  BY <1>1, <1>b DEF Ledgers, LedgerStates
<1> HIDE DEF m
<1>4. /\ l \in Ledgers /\ LedgerWalk(l) /\ l.on = TRUE /\ l.file = ledger.file /\ l.up = ledger.up
      /\ l.watch = ledger.watch /\ l.other = ledger.other /\ l.clear = ledger.clear /\ l.afresh = afresh
      /\ \A k \in LedgerKeys : l.body[k].samples = book[k].samples
  BY <1>3, LedgerRefreshes
<1>5. ledger' = [l EXCEPT !.laid = LedgerValue(l)]
  BY <1>2 DEF m, afresh
<1> HIDE DEF l
<1>6. LedgerFile(l)
  BY <1>4, <1>b DEF LedgerFile, LedgerSame
<1>7. LedgerBook(l)
  <2>1. LedgerWatch(l)
    BY <1>1, <1>4 DEF LedgerWatch
  <2> QED BY <1>4, <1>6, <2>1 DEF LedgerBook
<1>9. LedgerValue(l) \in Nat
  BY <1>4, LedgerValueIsNat
<1>10. /\ ledger' \in Ledgers /\ ledger'.laid = LedgerValue(l) /\ ledger'.body = l.body /\ ledger'.line = l.line
       /\ ledger'.state = l.state /\ ledger'.prior = l.prior /\ ledger'.on = l.on /\ ledger'.file = l.file
       /\ ledger'.dirty = l.dirty /\ ledger'.up = l.up /\ ledger'.watch = l.watch /\ ledger'.other = l.other
       /\ ledger'.clear = l.clear /\ ledger'.astray = l.astray /\ ledger'.afresh = l.afresh
  BY <1>4, <1>5, <1>9 DEF Ledgers
<1>11. LedgerInv'
  BY <1>7, <1>10, LedgerLaid
<1>12. LedgerTouches
  BY <1>1, <1>4, <1>10 DEF LedgerTouches
<1> QED BY <1>11, <1>12

LEMMA LedgerEndsKeeps == ASSUME LedgerInv, LedgerEnds PROVE LedgerInv' /\ LedgerTouches
<1>1. ledger.on /\ ledger \in Ledgers /\ LedgerBook(ledger) /\ ledger.turns > 0 /\ LedgerFile(ledger)
  BY DEF LedgerInv, LedgerBook, LedgerEnds
<1>2. PICK flushed \in LedgerWith(ledger, TRUE) \cup {ledger} :
        ledger' = LedgerOff(flushed.file, flushed.turns - 1)
  BY DEF LedgerEnds
<1>3. LedgerBook(flushed) /\ flushed.turns = ledger.turns
  BY <1>1, <1>2, LedgerWithKeeps
<1>4. flushed.file = ledger.file \/ flushed.file = ledger.body
  BY <1>2, LedgerWithKeeps, <1>1
<1>5. flushed.file \in [LedgerKeys -> LedgerEntry] /\ flushed.turns - 1 \in 0 .. LedgerTurns
  <2>1. ledger.turns \in 0 .. LedgerTurns /\ flushed \in Ledgers
    BY <1>1, <1>3 DEF Ledgers, LedgerBook
  <2>2. flushed.file \in [LedgerKeys -> LedgerEntry]
    BY <2>1 DEF Ledgers
  <2> QED BY <2>1, <2>2, <1>1, <1>3, LedgerAssumption
<1>6. LedgerBook(ledger') /\ ~ledger'.on /\ ~ledger'.afresh /\ ledger'.file = flushed.file
  BY <1>2, <1>5, LedgerOffInv
<1>7. \A k \in LedgerKeys : ledger'.file[k].samples # ledger.file[k].samples =>
        k.line = ledger.line \/ (ledger.afresh /\ ~ledger'.afresh /\ ledger'.file[k].samples = <<>>)
  BY <1>1, <1>4, <1>6 DEF LedgerFile, LedgerSame
<1> QED BY <1>6, <1>7 DEF LedgerInv, LedgerTouches

LEMMA LedgerTakesKeeps == ASSUME LedgerInv, LedgerTakes PROVE LedgerInv' /\ LedgerTouches
<1>1. /\ ledger.on /\ ledger \in Ledgers /\ LedgerWalk(ledger) /\ LedgerFile(ledger) /\ LedgerWatch(ledger)
      /\ ledger.turns > 0
  BY DEF LedgerInv, LedgerBook, LedgerTakes
<1> DEFINE key == LedgerKey(ledger)
           base == LedgerBase(ledger)
           e == ledger.body[key]
           pushed(x, sample) == [x EXCEPT !.samples = LET s == Append(@, sample)
                                                      IN IF Len(s) > LedgerKeep THEN Tail(s) ELSE s]
<1>2. PICK sample \in LedgerSamples :
        ledger' \in LedgerWith([ledger EXCEPT
                       !.body[LedgerKey(ledger)] = LedgerRefit(pushed(@, sample), ledger.state),
                       !.dirty = TRUE, !.turns = @ - 1], FALSE)
  BY DEF LedgerTakes
<1> DEFINE heard == Append(e.samples, sample)
           kept == IF Len(heard) > LedgerKeep THEN Tail(heard) ELSE heard
           old == [e EXCEPT !.samples = kept]
           new == LedgerRefit(old, ledger.state)
           body == [ledger.body EXCEPT ![key] = new]
           l == [ledger EXCEPT !.body = body, !.dirty = TRUE, !.turns = ledger.turns - 1]
<1>3. /\ ledger.body \in [LedgerKeys -> LedgerEntry] /\ key \in LedgerKeys /\ base \in LedgerKeys
      /\ ledger.state \in LedgerStates /\ (ledger.state = "free" <=> key = base)
      /\ key.line = ledger.line /\ ledger.turns \in 0 .. LedgerTurns
  BY <1>1, LedgerKeysIn DEF Ledgers
<1>4. e \in LedgerEntry /\ e.samples \in Seq(LedgerSamples)
  <2>1. e \in LedgerEntry
    BY <1>3
  <2> QED BY <2>1 DEF LedgerEntry
<1> HIDE DEF e, key
<1>5. kept \in Seq(LedgerSamples)
  <2>1. heard \in Seq(LedgerSamples) /\ Len(heard) = Len(e.samples) + 1 /\ Len(e.samples) \in Nat
    BY <1>4
  <2>2. heard # <<>>
    BY <2>1
  <2> HIDE DEF heard
  <2>3. Tail(heard) \in Seq(LedgerSamples)
    BY <2>1, <2>2
  <2> QED BY <2>1, <2>3
<1>6. ledger' \in LedgerWith(l, FALSE)
  <2>1. l = [ledger EXCEPT
               !.body[LedgerKey(ledger)] = LedgerRefit(pushed(@, sample), ledger.state),
               !.dirty = TRUE, !.turns = @ - 1]
    BY DEF e, key
  <2> HIDE DEF l
  <2> QED BY <1>2, <2>1
<1> HIDE DEF kept
<1>7. old \in LedgerEntry /\ old.prior = e.prior
  BY <1>4, <1>5 DEF LedgerEntry
<1> HIDE DEF old
<1>8. new \in LedgerEntry /\ new.prior = e.prior /\ LedgerFitted(new)
  BY <1>3, <1>7, LedgerRefitFits
<1> HIDE DEF new
<1>9. body \in [LedgerKeys -> LedgerEntry] /\ body[key] = new /\ \A k \in LedgerKeys \ {key} : body[k] = ledger.body[k]
  BY <1>3, <1>8
<1> HIDE DEF body
<1>10. ledger.turns - 1 \in 0 .. LedgerTurns
  BY <1>1, <1>3, LedgerAssumption
<1>11. /\ l \in Ledgers /\ l.body = body /\ l.dirty = TRUE /\ l.line = ledger.line /\ l.prior = ledger.prior
       /\ l.on = ledger.on /\ l.state = ledger.state /\ l.file = ledger.file /\ l.up = ledger.up
       /\ l.watch = ledger.watch /\ l.other = ledger.other /\ l.clear = ledger.clear /\ l.astray = ledger.astray /\ l.afresh = ledger.afresh
  BY <1>1, <1>9, <1>10 DEF Ledgers
<1> HIDE DEF l
<1>12. LedgerKey(l) = key /\ LedgerBase(l) = base
  BY <1>11 DEF LedgerKey, LedgerBase, key
<1>13. LedgerWalk(l)
  <2>1. LedgerPrior(l) = LedgerPrior(ledger)
    <3>1. CASE ledger.state = "free"
      BY <3>1, <1>11 DEF LedgerPrior
    <3>2. CASE ledger.state # "free"
      <4>1. l.body[base] = ledger.body[base]
        BY <3>2, <1>3, <1>9, <1>11
      <4> QED BY <4>1, <1>11, <1>12 DEF LedgerPrior
    <3> QED BY <3>1, <3>2
  <2>2. e.prior = LedgerPrior(ledger)
    BY <1>1 DEF LedgerWalk, e, key
  <2> QED BY <2>1, <2>2, <1>8, <1>9, <1>11, <1>12 DEF LedgerWalk
<1>14. LedgerFile(l)
  BY <1>1, <1>3, <1>9, <1>11 DEF LedgerFile, LedgerSame
<1>15. LedgerWatch(l)
  BY <1>1, <1>11 DEF LedgerWatch
<1>16. \A k \in LedgerKeys \ {LedgerKey(ledger)} : l.body[k].samples = ledger.body[k].samples
  BY <1>9, <1>11 DEF key
<1>17. LedgerBook(l) /\ l.on
  BY <1>1, <1>11, <1>13, <1>14, <1>15 DEF LedgerBook
<1> QED BY <1>6, <1>11, <1>16, <1>17, LedgerWithInv

LEMMA LedgerResetsKeeps == ASSUME LedgerInv, LedgerResets PROVE LedgerInv' /\ LedgerTouches
<1>1. /\ ledger.on /\ ledger \in Ledgers /\ LedgerWalk(ledger) /\ LedgerFile(ledger) /\ LedgerWatch(ledger)
      /\ ledger.turns > 0
  BY DEF LedgerInv, LedgerBook, LedgerResets
<1> DEFINE key == LedgerKey(ledger)
           body == LedgerForgotten(ledger)
           m == [ledger EXCEPT !.body = body, !.dirty = TRUE, !.turns = ledger.turns - 1]
           l == LedgerRefreshed(m)
<1>2. ledger' \in LedgerWith(l, TRUE)
  BY DEF LedgerResets
<1>3. /\ ledger.body \in [LedgerKeys -> LedgerEntry] /\ key \in LedgerKeys /\ key.line = ledger.line
      /\ ledger.turns \in 0 .. LedgerTurns
  BY <1>1, LedgerKeysIn DEF Ledgers
<1>4. LedgerNoEntry \in LedgerEntry
  BY LedgerNoEntryIs
<1>5. body \in [LedgerKeys -> LedgerEntry] /\ \A k \in LedgerKeys \ {key} : body[k] = ledger.body[k]
  BY <1>3, <1>4 DEF LedgerForgotten
<1> HIDE DEF body
<1>6. ledger.turns - 1 \in 0 .. LedgerTurns
  BY <1>1, <1>3, LedgerAssumption
<1>7. /\ m \in Ledgers /\ m.body = body /\ m.dirty = TRUE /\ m.line = ledger.line
      /\ m.on = ledger.on /\ m.state = ledger.state /\ m.file = ledger.file /\ m.up = ledger.up
      /\ m.watch = ledger.watch /\ m.other = ledger.other /\ m.clear = ledger.clear /\ m.astray = ledger.astray /\ m.afresh = ledger.afresh
  BY <1>1, <1>5, <1>6 DEF Ledgers
<1> HIDE DEF m
<1>8. /\ l \in Ledgers /\ LedgerWalk(l) /\ l.dirty = TRUE /\ l.line = ledger.line
      /\ l.on = ledger.on /\ l.state = ledger.state /\ l.file = ledger.file /\ l.up = ledger.up
      /\ l.watch = ledger.watch /\ l.other = ledger.other /\ l.clear = ledger.clear /\ l.astray = ledger.astray /\ l.afresh = ledger.afresh
      /\ \A k \in LedgerKeys : l.body[k].samples = body[k].samples
  BY <1>7, LedgerRefreshes
<1> HIDE DEF l
<1>9. LedgerFile(l)
  BY <1>1, <1>3, <1>5, <1>8 DEF LedgerFile, LedgerSame
<1>10. LedgerWatch(l)
  BY <1>1, <1>8 DEF LedgerWatch
<1>11. \A k \in LedgerKeys \ {LedgerKey(ledger)} : l.body[k].samples = ledger.body[k].samples
  BY <1>5, <1>8
<1>12. LedgerBook(l) /\ l.on
  BY <1>1, <1>8, <1>9, <1>10 DEF LedgerBook
<1> QED BY <1>2, <1>8, <1>11, <1>12, LedgerWithInv

LEMMA LedgerStepKeeps == ASSUME LedgerInv, [LedgerNext]_ledger PROVE LedgerInv' /\ (LedgerTouches \/ UNCHANGED ledger)
<1>1. ledger \in Ledgers
  BY DEF LedgerInv, LedgerBook
<1>2. CASE LedgerTimes
  <2>1. ledger' = [ledger EXCEPT !.written = FALSE]
    BY <1>2 DEF LedgerTimes
  <2>2. /\ ledger' \in Ledgers /\ ledger'.laid = ledger.laid /\ ledger'.body = ledger.body /\ ledger'.line = ledger.line
        /\ ledger'.state = ledger.state /\ ledger'.prior = ledger.prior /\ ledger'.on = ledger.on
        /\ ledger'.file = ledger.file /\ ledger'.dirty = ledger.dirty /\ ledger'.up = ledger.up
        /\ ledger'.watch = ledger.watch /\ ledger'.other = ledger.other /\ ledger'.clear = ledger.clear
        /\ ledger'.astray = ledger.astray /\ ledger'.afresh = ledger.afresh
    BY <1>1, <2>1 DEF Ledgers
  <2>3. LedgerKey(ledger') = LedgerKey(ledger) /\ LedgerBase(ledger') = LedgerBase(ledger)
    BY <2>2 DEF LedgerKey, LedgerBase
  <2>4. /\ LedgerWalk(ledger) => LedgerWalk(ledger')
        /\ LedgerFile(ledger) => LedgerFile(ledger')
        /\ LedgerWatch(ledger) => LedgerWatch(ledger')
        /\ LedgerValue(ledger') = LedgerValue(ledger)
    BY <2>2, <2>3 DEF LedgerWalk, LedgerPrior, LedgerFile, LedgerSame, LedgerWatch, LedgerValue
  <2> QED BY <2>2, <2>4 DEF LedgerInv, LedgerBook, LedgerTouches
<1>3. CASE LedgerLane
  <2> DEFINE up == ~ledger.up
             clear == [says |-> "free", for |-> 0]
             astray == ledger.state # "free"
  <2>1. ledger' = [ledger EXCEPT !.up = up, !.watch = "free", !.other = -1, !.clear = clear, !.astray = astray]
    BY <1>3 DEF LedgerLane
  <2>2. /\ up \in BOOLEAN /\ astray \in BOOLEAN /\ (~astray => ledger.state = "free") /\ ledger.on
        /\ clear \in [says : LedgerStates, for : 0 .. LedgerHold + 1] /\ clear.for = 0
        /\ "free" \in LedgerStates /\ -1 \in -1 .. LedgerHold
    BY <1>3, LedgerAssumption DEF LedgerStates, LedgerLane
  <2> HIDE DEF up, clear, astray
  <2>3. /\ ledger' \in Ledgers /\ ledger'.laid = ledger.laid /\ ledger'.body = ledger.body /\ ledger'.line = ledger.line
        /\ ledger'.state = ledger.state /\ ledger'.prior = ledger.prior /\ ledger'.on = ledger.on
        /\ ledger'.file = ledger.file /\ ledger'.dirty = ledger.dirty /\ ledger'.up = up
        /\ ledger'.watch = "free" /\ ledger'.clear = clear /\ ledger'.astray = astray
        /\ ledger'.afresh = ledger.afresh
    <3> DEFINE n == [ledger EXCEPT !.up = up, !.watch = "free"]
               m == [n EXCEPT !.other = -1, !.clear = clear]
    <3>1. /\ n \in Ledgers /\ n.laid = ledger.laid /\ n.body = ledger.body /\ n.line = ledger.line
          /\ n.state = ledger.state /\ n.prior = ledger.prior /\ n.on = ledger.on
          /\ n.file = ledger.file /\ n.dirty = ledger.dirty /\ n.up = up
          /\ n.watch = "free" /\ n.afresh = ledger.afresh
      BY <1>1, <2>2 DEF Ledgers
    <3>2. ledger' = [m EXCEPT !.astray = astray]
      BY <2>1
    <3> HIDE DEF n
    <3>3. /\ m \in Ledgers /\ m.laid = ledger.laid /\ m.body = ledger.body /\ m.line = ledger.line
          /\ m.state = ledger.state /\ m.prior = ledger.prior /\ m.on = ledger.on
          /\ m.file = ledger.file /\ m.dirty = ledger.dirty /\ m.up = up
          /\ m.watch = "free" /\ m.clear = clear /\ m.afresh = ledger.afresh
      BY <2>2, <3>1 DEF Ledgers
    <3> HIDE DEF m
    <3> QED BY <2>2, <3>2, <3>3 DEF Ledgers
  <2>4. LedgerKey(ledger') = LedgerKey(ledger) /\ LedgerBase(ledger') = LedgerBase(ledger)
    BY <2>3 DEF LedgerKey, LedgerBase
  <2>5. /\ LedgerWalk(ledger) => LedgerWalk(ledger')
        /\ LedgerFile(ledger) => LedgerFile(ledger')
        /\ LedgerValue(ledger') = LedgerValue(ledger)
    BY <2>3, <2>4 DEF LedgerWalk, LedgerPrior, LedgerFile, LedgerSame, LedgerValue
  <2>6. LedgerWatch(ledger')
    BY <2>2, <2>3 DEF LedgerWatch
  <2> QED BY <2>2, <2>3, <2>5, <2>6 DEF LedgerInv, LedgerBook, LedgerTouches
<1>4. CASE UNCHANGED ledger
  BY <1>4 DEF LedgerInv, LedgerBook, LedgerWalk, LedgerPrior, LedgerFile, LedgerSame, LedgerWatch, LedgerValue, LedgerKey, LedgerBase
<1> QED BY <1>2, <1>3, <1>4, LedgerOpensKeeps, LedgerEndsKeeps, LedgerTakesKeeps, LedgerResetsKeeps, LedgerBodyKeeps DEF LedgerNext

LEMMA LedgerInvIsTrue == LedgerInv => LedgerTypeOK /\ LedgerTrue
<1> SUFFICES ASSUME LedgerInv PROVE LedgerTypeOK /\ LedgerTrue
  OBVIOUS
<1>1. ledger \in Ledgers /\ LedgerWatch(ledger)
  BY DEF LedgerInv, LedgerBook
<1>2. LedgerBounded
  <2> SUFFICES ASSUME ledger.on, ledger.laid # Unlearned PROVE LedgerBounded!2
    BY DEF LedgerBounded
  <2> DEFINE free == ledger.body[LedgerBase(ledger)].value
             own == ledger.body[LedgerKey(ledger)]
             about == IF ledger.state = "free" \/ free = Unlearned THEN ledger.prior ELSE free
  <2>1. own.prior = about /\ LedgerFitted(own) /\ ledger.laid = IF own.value # Unlearned THEN own.value ELSE free
    BY DEF LedgerInv, LedgerBook, LedgerWalk, LedgerPrior, LedgerValue
  <2>2. own \in LedgerEntry /\ ledger.body[LedgerBase(ledger)] \in LedgerEntry /\ ledger.prior \in Nat
    BY <1>1, LedgerKeysIn, LedgerAssumption DEF Ledgers
  <2>3. own.value \in Nat /\ free \in Nat /\ about \in Nat
    BY <2>2 DEF LedgerEntry
  <2>4. ledger.state = "free" => own.value = free
    BY <1>1, LedgerKeysIn
  <2>5. ledger.laid \in about \div 2 .. (8 * about) \div 5
    <3>1. CASE own.value # Unlearned
      BY <3>1, <2>1, <2>3 DEF LedgerFitted
    <3>2. CASE own.value = Unlearned
      <4>1. ledger.laid = free /\ free # Unlearned /\ about = free
        BY <3>2, <2>1, <2>4
      <4>2. \A n \in Nat : n \div 2 <= n /\ n <= (8 * n) \div 5 /\ n \div 2 \in Int /\ (8 * n) \div 5 \in Int
        OBVIOUS
      <4> HIDE DEF free, about
      <4> QED BY <4>1, <4>2, <2>3
    <3> QED BY <3>1, <3>2
  <2> QED BY <2>5 DEF LedgerBounds
<1>3. LedgerKept
  BY DEF LedgerInv, LedgerBook, LedgerFile, LedgerSame, LedgerKept
<1>4. LedgerFollows
  <2> SUFFICES ASSUME ledger.on, ledger.up, ~ledger.astray, ledger.clear.for > LedgerHold
               PROVE  ledger.state = ledger.clear.says
    BY DEF LedgerFollows
  <2>1. ledger.clear \in [says : LedgerStates, for : 0 .. LedgerHold + 1] /\ ledger.other \in -1 .. LedgerHold
    BY <1>1 DEF Ledgers
  <2>2. ledger.clear.for \in 0 .. LedgerHold + 1 /\ LedgerHold \in Nat
    BY <2>1, LedgerAssumption
  <2> QED BY <2>1, <2>2, <1>1 DEF LedgerWatch
<1> QED BY <1>1, <1>2, <1>3, <1>4 DEF LedgerTrue, LedgerTypeOK

(* What the gait ledger promises of its numbers and its file.                *)
THEOREM LedgerHolds == LedgerSpec => [](LedgerTypeOK /\ LedgerTrue)
<1>1. LedgerInit => LedgerInv
  BY LedgerInitInv
<1>2. LedgerInv /\ [LedgerNext]_ledger => LedgerInv'
  BY LedgerStepKeeps
<1>3. LedgerInv => LedgerTypeOK /\ LedgerTrue
  BY LedgerInvIsTrue
<1> QED BY <1>1, <1>2, <1>3, PTL DEF LedgerSpec

(* One line's numbers, and one state's, never become another's; the other    *)
(* lines' are lost only whole, by a process that could not read the file.    *)
THEOREM LedgerKeepsApart == LedgerSpec => LedgerKeeps
<1>1. LedgerInit => LedgerInv
  BY LedgerInitInv
<1>2. LedgerInv /\ [LedgerNext]_ledger => LedgerInv'
  BY LedgerStepKeeps
<1>3. LedgerInv /\ [LedgerNext]_ledger =>
        [/\ \A k \in LedgerKeys : ledger'.file[k].samples # ledger.file[k].samples =>
              \/ k.line = ledger.line
              \/ ledger.afresh /\ ~ledger'.afresh /\ ledger'.file[k].samples = <<>>
         /\ ledger.on /\ ledger'.on =>
              \A k \in LedgerKeys \ {LedgerKey(ledger)} : ledger'.body[k].samples = ledger.body[k].samples]_ledger
  BY LedgerStepKeeps DEF LedgerTouches
<1> QED BY <1>1, <1>2, <1>3, PTL DEF LedgerSpec, LedgerKeeps

-----------------------------------------------------------------------------
(* Poses, edges and submaps, of any size. *)
GraphP == [x : Int, faces : {-1, 1}]
GraphE == [from : Nat, to : Nat, says : GraphP, known : {"odometry", "search", "closure"}]
GraphM == [anchor : GraphP, scans : Nat]
GraphRecord ==
  [maps : Seq(GraphM), age : Int, switch : BOOLEAN, nodes : Seq(GraphP), edges : Seq(GraphE),
   edgeIn : Nat, tracked : GraphP, odom : BOOLEAN, jumped : BOOLEAN, lost : BOOLEAN,
   frozen : BOOLEAN, ticked : BOOLEAN, turns : Int]

(* The edges run forward, and but for the one known to lead there none leads *)
(* into the last submap: what a tick may put elsewhere is known to all that  *)
(* hangs on it.                                                              *)
GraphLaid(maps, nodes, edges, edgeIn) ==
  /\ Len(nodes) = Len(maps)
  /\ \A i \in 1 .. Len(maps) : nodes[i] = maps[i].anchor
  /\ \A i \in 1 .. Len(maps) - 1 : maps[i].scans > 0
  /\ edgeIn <= Len(edges)
  /\ \A i \in 1 .. Len(edges) :
       /\ 1 <= edges[i].from /\ edges[i].from < edges[i].to /\ edges[i].to <= Len(maps)
       /\ edges[i].to = Len(maps) => i = edgeIn /\ edges[i].known # "closure"
  /\ Len(maps) >= 2 => /\ edgeIn # 0 /\ edges[edgeIn].from = Len(maps) - 1
                       /\ edges[edgeIn].to = Len(maps)
  /\ (\A i \in 1 .. Len(edges) : edges[i].known # "closure") =>
       \A i \in 1 .. Len(edges) :
         edges[i].says = GraphBetween(nodes[edges[i].from], nodes[edges[i].to])

GraphGood(g) == g \in GraphRecord /\ GraphLaid(g.maps, g.nodes, g.edges, g.edgeIn)

GraphInv == GraphGood(graph) /\ GraphInTime

LEMMA GraphPoseTypes ==
  ASSUME NEW a \in GraphP, NEW b \in GraphP
  PROVE  /\ GraphCompose(a, b) \in GraphP /\ GraphBetween(a, b) \in GraphP
         /\ GraphFar(a, b) \in Nat /\ GraphFar(a, a) = 0
<1>1. a.x \in Int /\ b.x \in Int /\ a.faces \in {-1, 1} /\ b.faces \in {-1, 1}
  BY DEF GraphP
<1>2. CASE a.faces = 1
  BY <1>1, <1>2 DEF GraphP, GraphCompose, GraphBetween, GraphFar
<1>3. CASE a.faces = -1
  BY <1>1, <1>3 DEF GraphP, GraphCompose, GraphBetween, GraphFar
<1> QED BY <1>1, <1>2, <1>3

LEMMA GraphComposeBetween ==
  ASSUME NEW a \in GraphP, NEW b \in GraphP
  PROVE  GraphCompose(a, GraphBetween(a, b)) = b /\ GraphCompose(a, GraphBetween(b, b)) = a
<1>1. a.x \in Int /\ b.x \in Int /\ a.faces \in {-1, 1} /\ b.faces \in {-1, 1}
  BY DEF GraphP
<1>2. a = [x |-> a.x, faces |-> a.faces] /\ b = [x |-> b.x, faces |-> b.faces]
  BY DEF GraphP
<1>3. GraphBetween(b, b) = [x |-> 0, faces |-> 1]
  <2>1. CASE b.faces = 1
    BY <1>1, <2>1 DEF GraphBetween
  <2>2. CASE b.faces = -1
    BY <1>1, <2>2 DEF GraphBetween
  <2> QED BY <1>1, <2>1, <2>2
<1>4. GraphCompose(a, [x |-> 0, faces |-> 1]) = a
  <2>1. CASE a.faces = 1
    BY <1>1, <1>2, <2>1 DEF GraphCompose
  <2>2. CASE a.faces = -1
    BY <1>1, <1>2, <2>2 DEF GraphCompose
  <2> QED BY <1>1, <2>1, <2>2
<1>5. GraphCompose(a, GraphBetween(a, b)) = [x |-> b.x, faces |-> b.faces]
  <2>1. CASE a.faces = 1
    BY <1>1, <2>1 DEF GraphCompose, GraphBetween
  <2>2. CASE a.faces = -1
    BY <1>1, <2>2 DEF GraphCompose, GraphBetween
  <2> QED BY <1>1, <2>1, <2>2
<1> QED BY <1>2, <1>3, <1>4, <1>5

(* What is laid out is laid out whatever else of the record changes.         *)
LEMMA GraphSame ==
  ASSUME NEW g, GraphGood(g), NEW h \in GraphRecord,
         h.maps = g.maps, h.nodes = g.nodes, h.edges = g.edges, h.edgeIn = g.edgeIn
  PROVE  GraphGood(h)
BY DEF GraphGood

LEMMA GraphFields ==
  ASSUME NEW g \in GraphRecord
  PROVE  /\ g.maps \in Seq(GraphM) /\ g.nodes \in Seq(GraphP) /\ g.edges \in Seq(GraphE)
         /\ g.edgeIn \in Nat /\ g.tracked \in GraphP /\ g.age \in Int
         /\ Len(g.maps) \in Nat /\ Len(g.nodes) \in Nat /\ Len(g.edges) \in Nat
         /\ DOMAIN g.maps = 1 .. Len(g.maps) /\ DOMAIN g.nodes = 1 .. Len(g.nodes)
         /\ DOMAIN g.edges = 1 .. Len(g.edges)
         /\ \A i \in 1 .. Len(g.maps) : g.maps[i] \in GraphM /\ g.maps[i].anchor \in GraphP /\ g.maps[i].scans \in Nat
         /\ \A i \in 1 .. Len(g.nodes) : g.nodes[i] \in GraphP
         /\ \A i \in 1 .. Len(g.edges) : /\ g.edges[i] \in GraphE /\ g.edges[i].from \in Nat
                                         /\ g.edges[i].to \in Nat /\ g.edges[i].says \in GraphP
<1>1. /\ g.maps \in Seq(GraphM) /\ g.nodes \in Seq(GraphP) /\ g.edges \in Seq(GraphE)
      /\ g.edgeIn \in Nat /\ g.tracked \in GraphP /\ g.age \in Int
  BY DEF GraphRecord
<1>2. \A i \in 1 .. Len(g.maps) : g.maps[i] \in GraphM
  BY <1>1
<1>3. \A i \in 1 .. Len(g.edges) : g.edges[i] \in GraphE
  BY <1>1
<1>4. \A m \in GraphM : m.anchor \in GraphP /\ m.scans \in Nat
  BY DEF GraphM
<1>5. \A e \in GraphE : e.from \in Nat /\ e.to \in Nat /\ e.says \in GraphP
  BY DEF GraphE
<1>6. /\ DOMAIN g.maps = 1 .. Len(g.maps) /\ DOMAIN g.nodes = 1 .. Len(g.nodes)
      /\ DOMAIN g.edges = 1 .. Len(g.edges)
      /\ Len(g.maps) \in Nat /\ Len(g.nodes) \in Nat /\ Len(g.edges) \in Nat
      /\ \A i \in 1 .. Len(g.nodes) : g.nodes[i] \in GraphP
  BY <1>1
<1> QED BY <1>1, <1>2, <1>3, <1>4, <1>5, <1>6

(* No edge leads into a map of one submap.                                   *)
LEMMA GraphInto ==
  ASSUME NEW g, GraphGood(g)
  PROVE  /\ g.edgeIn = 0 <=> Len(g.maps) < 2
         /\ Len(g.maps) < 2 => Len(g.edges) = 0
         /\ g.edgeIn # 0 => /\ g.edgeIn \in 1 .. Len(g.edges) /\ g.edges[g.edgeIn].to = Len(g.maps)
                            /\ g.edges[g.edgeIn].from = Len(g.maps) - 1
                            /\ g.edges[g.edgeIn].known # "closure"
<1>1. g \in GraphRecord /\ GraphLaid(g.maps, g.nodes, g.edges, g.edgeIn)
  BY DEF GraphGood
<1>2. Len(g.maps) < 2 => Len(g.edges) = 0
  <2> SUFFICES ASSUME Len(g.maps) < 2, Len(g.edges) >= 1 PROVE FALSE
    BY <1>1, GraphFields
  <2>1. g.edges[1].from \in Nat /\ g.edges[1].to \in Nat /\ 1 <= g.edges[1].from
        /\ g.edges[1].from < g.edges[1].to /\ g.edges[1].to <= Len(g.maps)
    BY <1>1, GraphFields DEF GraphLaid
  <2> QED BY <2>1, <1>1, GraphFields
<1> QED BY <1>1, <1>2, GraphFields DEF GraphLaid

(* The last submap put elsewhere, and the edge into it told so.              *)
GraphTells(g, n, p, edges) ==
  /\ edges \in Seq(GraphE) /\ Len(edges) = Len(g.edges)
  /\ \A i \in 1 .. Len(edges) : i # g.edgeIn => edges[i] = g.edges[i]
  /\ g.edgeIn # 0 => /\ edges[g.edgeIn].from = g.edges[g.edgeIn].from
                     /\ edges[g.edgeIn].to = g.edges[g.edgeIn].to
                     /\ edges[g.edgeIn].known # "closure"
                     /\ edges[g.edgeIn].says = GraphBetween(g.nodes[n - 1], p)

GraphMapsAnew(g, n, p) == [g.maps EXCEPT ![n] = [anchor |-> p, scans |-> 0]]
GraphNodesAnew(g, n, p) == [g.nodes EXCEPT ![n] = p]

LEMMA GraphLaidAnew ==
  ASSUME NEW g, GraphGood(g), g.maps # <<>>, NEW p \in GraphP, NEW n, n = Len(g.maps),
         NEW edges, GraphTells(g, n, p, edges)
  PROVE  /\ GraphMapsAnew(g, n, p) \in Seq(GraphM) /\ Len(GraphMapsAnew(g, n, p)) = n
         /\ GraphMapsAnew(g, n, p)[n].anchor = p /\ GraphNodesAnew(g, n, p) \in Seq(GraphP)
         /\ GraphLaid(GraphMapsAnew(g, n, p), GraphNodesAnew(g, n, p), edges, g.edgeIn)
<1> DEFINE maps == [g.maps EXCEPT ![n] = [anchor |-> p, scans |-> 0]]
           nodes == [g.nodes EXCEPT ![n] = p]
<1>0. /\ edges \in Seq(GraphE) /\ Len(edges) = Len(g.edges)
      /\ \A i \in 1 .. Len(edges) : i # g.edgeIn => edges[i] = g.edges[i]
      /\ g.edgeIn # 0 => /\ edges[g.edgeIn].from = g.edges[g.edgeIn].from
                         /\ edges[g.edgeIn].to = g.edges[g.edgeIn].to
                         /\ edges[g.edgeIn].known # "closure"
                         /\ edges[g.edgeIn].says = GraphBetween(g.nodes[n - 1], p)
  BY DEF GraphTells
<1> USE <1>0
<1>1. g \in GraphRecord /\ GraphLaid(g.maps, g.nodes, g.edges, g.edgeIn)
  BY DEF GraphGood
<1>2. /\ n \in Nat /\ n >= 1 /\ Len(g.nodes) = n /\ g.maps \in Seq(GraphM) /\ g.nodes \in Seq(GraphP)
      /\ Len(edges) \in Nat
  BY <1>1, GraphFields DEF GraphLaid
<1>3. [anchor |-> p, scans |-> 0] \in GraphM
  BY DEF GraphM
<1>4. /\ maps \in Seq(GraphM) /\ Len(maps) = n /\ maps[n] = [anchor |-> p, scans |-> 0]
      /\ \A i \in 1 .. n : i # n => maps[i] = g.maps[i]
  BY <1>2, <1>3
<1>5. /\ nodes \in Seq(GraphP) /\ Len(nodes) = n /\ nodes[n] = p
      /\ \A i \in 1 .. n : i # n => nodes[i] = g.nodes[i]
  BY <1>2
<1> HIDE DEF maps, nodes
<1>6. /\ \A i \in 1 .. n : nodes[i] = maps[i].anchor
      /\ \A i \in 1 .. n - 1 : maps[i].scans > 0
  <2>1. /\ \A i \in 1 .. n : g.nodes[i] = g.maps[i].anchor
        /\ \A i \in 1 .. n - 1 : g.maps[i].scans > 0
    BY <1>1, <1>2 DEF GraphLaid
  <2>2. nodes[n] = p /\ maps[n].anchor = p
    BY <1>4, <1>5
  <2>3. \A i \in 1 .. n : i # n => nodes[i] = g.nodes[i] /\ maps[i] = g.maps[i]
    BY <1>4, <1>5
  <2>4. \A i \in 1 .. n : nodes[i] = maps[i].anchor
    BY <2>1, <2>2, <2>3
  <2>5. \A i \in 1 .. n - 1 : i \in 1 .. n /\ i # n
    BY <1>2
  <2>6. \A i \in 1 .. n - 1 : maps[i].scans > 0
    BY <2>1, <2>3, <2>5
  <2> QED BY <2>4, <2>6
<1>7. \A i \in 1 .. Len(edges) : edges[i].from = g.edges[i].from /\ edges[i].to = g.edges[i].to
  <2> SUFFICES ASSUME NEW i \in 1 .. Len(edges)
               PROVE  edges[i].from = g.edges[i].from /\ edges[i].to = g.edges[i].to
    OBVIOUS
  <2>1. CASE i = g.edgeIn
    <3>1. g.edgeIn # 0
      BY <1>2, <2>1
    <3> QED BY <3>1, <2>1
  <2>2. CASE i # g.edgeIn
    BY <2>2
  <2> QED BY <2>1, <2>2
<1>8. \A i \in 1 .. Len(edges) :
         /\ 1 <= edges[i].from /\ edges[i].from < edges[i].to /\ edges[i].to <= n
         /\ edges[i].to = n => i = g.edgeIn /\ edges[i].known # "closure"
  BY <1>1, <1>7, GraphInto DEF GraphLaid
<1>9. (\A i \in 1 .. Len(edges) : edges[i].known # "closure") =>
         \A i \in 1 .. Len(edges) :
           edges[i].says = GraphBetween(nodes[edges[i].from], nodes[edges[i].to])
  <2> SUFFICES ASSUME \A i \in 1 .. Len(edges) : edges[i].known # "closure", NEW i \in 1 .. Len(edges)
               PROVE  edges[i].says = GraphBetween(nodes[edges[i].from], nodes[edges[i].to])
    OBVIOUS
  <2>1. \A j \in 1 .. Len(g.edges) : g.edges[j].known # "closure"
    BY GraphInto
  <2>2. /\ i \in 1 .. Len(g.edges) /\ g.edges[i].from \in Nat /\ g.edges[i].to \in Nat
        /\ edges[i].from = g.edges[i].from /\ edges[i].to = g.edges[i].to
    BY <1>1, <1>7, GraphFields
  <2>3. CASE i = g.edgeIn
    <3>1. edges[i].from = n - 1 /\ edges[i].to = n /\ n >= 2 /\ edges[i].says = GraphBetween(g.nodes[n - 1], p)
      BY <1>2, <2>2, <2>3, GraphInto
    <3>2. n - 1 \in 1 .. n /\ n - 1 # n
      BY <1>2, <3>1
    <3>3. nodes[n - 1] = g.nodes[n - 1] /\ nodes[n] = p
      BY <1>5, <3>2, Zenon
    <3> QED BY <3>1, <3>3
  <2>4. CASE i # g.edgeIn
    <3>1. g.edges[i].says = GraphBetween(g.nodes[g.edges[i].from], g.nodes[g.edges[i].to])
      BY <1>1, <2>1, <2>2 DEF GraphLaid
    <3>2. PICK a \in Nat, b \in Nat : a = g.edges[i].from /\ b = g.edges[i].to
      BY <2>2
    <3>3. 1 <= a /\ a < b /\ b <= n /\ b # n
      BY <1>8, <2>2, <2>4, <3>2
    <3>4. a \in 1 .. n /\ b \in 1 .. n /\ a # n /\ b # n
      BY <1>2, <3>3
    <3>5. nodes[a] = g.nodes[a] /\ nodes[b] = g.nodes[b]
      BY <1>5, <3>4, Zenon
    <3>6. edges[i].from = a /\ edges[i].to = b /\ edges[i].says = g.edges[i].says
      BY <2>2, <2>4, <3>2
    <3> QED BY <3>1, <3>2, <3>5, <3>6
  <2> QED BY <2>3, <2>4
<1>10. g.edgeIn <= Len(edges)
       /\ (n >= 2 => g.edgeIn # 0 /\ edges[g.edgeIn].from = n - 1 /\ edges[g.edgeIn].to = n)
  BY <1>1, <1>2, GraphInto DEF GraphLaid
<1>11. maps \in Seq(GraphM) /\ Len(maps) = n /\ maps[n].anchor = p /\ nodes \in Seq(GraphP)
       /\ GraphLaid(maps, nodes, edges, g.edgeIn)
  BY <1>2, <1>4, <1>5, <1>6, <1>8, <1>9, <1>10 DEF GraphLaid
<1> QED BY <1>11 DEF maps, nodes, GraphMapsAnew, GraphNodesAnew

LEMMA GraphRest ==
  ASSUME NEW g \in GraphRecord
  PROVE  /\ g.switch \in BOOLEAN /\ g.odom \in BOOLEAN /\ g.jumped \in BOOLEAN /\ g.lost \in BOOLEAN
         /\ g.frozen \in BOOLEAN /\ g.ticked \in BOOLEAN /\ g.turns \in Int
BY DEF GraphRecord

LEMMA GraphReanchoredKeeps ==
  ASSUME NEW g, GraphGood(g), g.maps # <<>>, NEW h, h = GraphReanchored(g)
  PROVE  /\ GraphGood(h) /\ Len(h.maps) = Len(g.maps) /\ h.tracked = g.tracked
         /\ h.tracked = Inked(h).anchor /\ h.age = 0 /\ h.ticked = g.ticked
<1> DEFINE n == Len(g.maps)
           e == g.edges[g.edgeIn]
           says == GraphBetween(g.nodes[e.from], g.tracked)
           known == IF GraphFar(g.tracked, g.nodes[n]) > GraphJump THEN "search" ELSE e.known
           f == [e EXCEPT !.says = says, !.known = known]
           edges == IF g.edgeIn = 0 THEN g.edges ELSE [g.edges EXCEPT ![g.edgeIn] = f]
           maps == [g.maps EXCEPT ![n] = [anchor |-> g.tracked, scans |-> 0]]
           nodes == [g.nodes EXCEPT ![n] = g.tracked]
<1>1. g \in GraphRecord /\ GraphLaid(g.maps, g.nodes, g.edges, g.edgeIn) /\ Len(g.nodes) = n
  BY DEF GraphGood, GraphLaid
<1>2. g.tracked \in GraphP
  BY <1>1, GraphFields
<1>3. h = [maps |-> maps, age |-> 0, switch |-> FALSE, nodes |-> nodes, edges |-> edges, edgeIn |-> g.edgeIn,
           tracked |-> g.tracked, odom |-> g.odom, jumped |-> FALSE, lost |-> g.lost, frozen |-> g.frozen,
           ticked |-> g.ticked, turns |-> g.turns]
  <2>1. CASE g.edgeIn = 0
    BY <1>1, <2>1 DEF GraphReanchored, GraphRecord
  <2>2. CASE g.edgeIn # 0
    BY <1>1, <2>2 DEF GraphReanchored, GraphRecord
  <2> QED BY <2>1, <2>2
<1>4. ASSUME g.edgeIn # 0
      PROVE  /\ g.edgeIn \in 1 .. Len(g.edges) /\ e \in GraphE /\ e.from = n - 1
             /\ says \in GraphP /\ known \in {"odometry", "search"}
  <2>1. /\ g.edgeIn \in 1 .. Len(g.edges) /\ e.from = n - 1 /\ n \in Nat /\ n >= 2 /\ e \in GraphE
    BY <1>1, <1>4, GraphInto, GraphFields
  <2>2. says \in GraphP
    <3>1. g.nodes[e.from] \in GraphP
      BY <1>1, <2>1, GraphFields
    <3> QED BY <1>2, <3>1, GraphPoseTypes
  <2>3. known \in {"odometry", "search"}
    BY <1>1, <1>4, <2>1, GraphInto DEF GraphE
  <2> QED BY <2>1, <2>2, <2>3
<1>5. /\ edges \in Seq(GraphE) /\ Len(edges) = Len(g.edges)
      /\ \A i \in 1 .. Len(edges) : i # g.edgeIn => edges[i] = g.edges[i]
      /\ g.edgeIn # 0 => /\ edges[g.edgeIn].from = g.edges[g.edgeIn].from
                         /\ edges[g.edgeIn].to = g.edges[g.edgeIn].to
                         /\ edges[g.edgeIn].known # "closure"
                         /\ edges[g.edgeIn].says = GraphBetween(g.nodes[n - 1], g.tracked)
  <2>1. CASE g.edgeIn = 0
    BY <1>1, <2>1, GraphFields
  <2>2. CASE g.edgeIn # 0
    <3> HIDE DEF says, known, e
    <3>1. f \in GraphE /\ f.from = e.from /\ f.to = e.to /\ f.says = says /\ f.known # "closure"
      BY <1>4, <2>2 DEF GraphE
    <3>2. g.edges \in Seq(GraphE) /\ g.edgeIn \in 1 .. Len(g.edges)
      BY <1>1, <1>4, <2>2, GraphFields
    <3>3. edges = [g.edges EXCEPT ![g.edgeIn] = f]
      BY <2>2
    <3> HIDE DEF edges, f
    <3>4. edges \in Seq(GraphE) /\ Len(edges) = Len(g.edges) /\ edges[g.edgeIn] = f
          /\ \A i \in 1 .. Len(edges) : i # g.edgeIn => edges[i] = g.edges[i]
      BY <3>1, <3>2, <3>3
    <3> QED BY <3>1, <3>4, <1>4, <2>2 DEF says, e
  <2> QED BY <2>1, <2>2
<1> HIDE DEF edges, maps, nodes
<1>6. /\ maps \in Seq(GraphM) /\ Len(maps) = n /\ maps[n].anchor = g.tracked
      /\ nodes \in Seq(GraphP) /\ GraphLaid(maps, nodes, edges, g.edgeIn)
  <2>1. GraphTells(g, n, g.tracked, edges)
    BY <1>5 DEF GraphTells
  <2>2. maps = GraphMapsAnew(g, n, g.tracked) /\ nodes = GraphNodesAnew(g, n, g.tracked)
    BY DEF maps, nodes, GraphMapsAnew, GraphNodesAnew
  <2> QED BY <1>2, <2>1, <2>2, GraphLaidAnew
<1>7. /\ g.edgeIn \in Nat /\ g.odom \in BOOLEAN /\ g.lost \in BOOLEAN /\ g.frozen \in BOOLEAN
      /\ g.ticked \in BOOLEAN /\ g.turns \in Int /\ FALSE \in BOOLEAN /\ 0 \in Int
  BY <1>1, GraphFields, GraphRest
<1>8. h \in GraphRecord
  <2>1. edges \in Seq(GraphE)
    BY <1>5
  <2>2. maps \in Seq(GraphM) /\ nodes \in Seq(GraphP)
    BY <1>6
  <2>3. [maps |-> maps, age |-> 0, switch |-> FALSE, nodes |-> nodes, edges |-> edges, edgeIn |-> g.edgeIn,
           tracked |-> g.tracked, odom |-> g.odom, jumped |-> FALSE, lost |-> g.lost, frozen |-> g.frozen,
           ticked |-> g.ticked, turns |-> g.turns] \in GraphRecord
    BY <1>2, <1>7, <2>1, <2>2, Zenon DEF GraphRecord
  <2> QED BY <1>3, <2>3
<1> QED BY <1>3, <1>6, <1>8 DEF GraphGood, Inked

(* A submap opened after the last, and the edge into it.                     *)
LEMMA GraphLaidOpened ==
  ASSUME NEW g, GraphGood(g), NEW p \in GraphP, NEW n, n = Len(g.maps),
         n # 0 => g.maps[n].scans # 0,
         NEW chain, n # 0 => /\ chain \in GraphE /\ chain.from = n /\ chain.to = n + 1
                            /\ chain.known # "closure" /\ chain.says = GraphBetween(g.nodes[n], p)
  PROVE  LET maps == Append(g.maps, [anchor |-> p, scans |-> 0])
             nodes == Append(g.nodes, p)
             edges == IF n = 0 THEN g.edges ELSE Append(g.edges, chain)
             edgeIn == IF n = 0 THEN 0 ELSE Len(g.edges) + 1
         IN  /\ maps \in Seq(GraphM) /\ Len(maps) = n + 1 /\ maps[n + 1].anchor = p
             /\ nodes \in Seq(GraphP) /\ edges \in Seq(GraphE) /\ edgeIn \in Nat
             /\ n # 0 => edges[edgeIn] = chain
             /\ GraphLaid(maps, nodes, edges, edgeIn)
<1> DEFINE maps == Append(g.maps, [anchor |-> p, scans |-> 0])
           nodes == Append(g.nodes, p)
           edges == IF n = 0 THEN g.edges ELSE Append(g.edges, chain)
           edgeIn == IF n = 0 THEN 0 ELSE Len(g.edges) + 1
<1>1. g \in GraphRecord /\ GraphLaid(g.maps, g.nodes, g.edges, g.edgeIn)
  BY DEF GraphGood
<1>2. /\ n \in Nat /\ Len(g.nodes) = n /\ g.maps \in Seq(GraphM) /\ g.nodes \in Seq(GraphP)
      /\ g.edges \in Seq(GraphE) /\ Len(g.edges) \in Nat /\ [anchor |-> p, scans |-> 0] \in GraphM
  BY <1>1, GraphFields DEF GraphLaid, GraphM
<1>3. /\ maps \in Seq(GraphM) /\ Len(maps) = n + 1 /\ maps[n + 1] = [anchor |-> p, scans |-> 0]
      /\ \A i \in 1 .. n : maps[i] = g.maps[i]
  BY <1>2
<1>4. /\ nodes \in Seq(GraphP) /\ Len(nodes) = n + 1 /\ nodes[n + 1] = p
      /\ \A i \in 1 .. n : nodes[i] = g.nodes[i]
  BY <1>2
<1> HIDE DEF maps, nodes
<1>5. /\ \A i \in 1 .. n + 1 : nodes[i] = maps[i].anchor
      /\ \A i \in 1 .. n : maps[i].scans > 0
  <2>1. \A i \in 1 .. n : nodes[i] = maps[i].anchor
    <3>1. \A i \in 1 .. n : g.nodes[i] = g.maps[i].anchor
      BY <1>1 DEF GraphLaid
    <3>2. \A i \in 1 .. n : nodes[i] = g.nodes[i] /\ maps[i] = g.maps[i]
      BY <1>3, <1>4
    <3> QED BY <3>1, <3>2
  <2>2. nodes[n + 1] = maps[n + 1].anchor
    BY <1>3, <1>4
  <2>3. \A i \in 1 .. n - 1 : maps[i].scans > 0
    <3>1. \A i \in 1 .. n - 1 : g.maps[i].scans > 0
      BY <1>1 DEF GraphLaid
    <3>2. \A i \in 1 .. n - 1 : i \in 1 .. n
      BY <1>2
    <3>3. \A i \in 1 .. n - 1 : maps[i] = g.maps[i]
      BY <1>3, <3>2
    <3> QED BY <3>1, <3>3
  <2>4. n # 0 => maps[n].scans > 0
    <3> SUFFICES ASSUME n # 0 PROVE maps[n].scans > 0
      OBVIOUS
    <3>1. n \in 1 .. n /\ g.maps[n].scans \in Nat
      BY <1>1, <1>2, GraphFields
    <3> QED BY <1>3, <3>1
  <2>5. \A i \in 1 .. n + 1 : i \in 1 .. n \/ i = n + 1
    BY <1>2
  <2>6. \A i \in 1 .. n : i \in 1 .. n - 1 \/ (i = n /\ n # 0)
    BY <1>2
  <2>7. \A i \in 1 .. n + 1 : nodes[i] = maps[i].anchor
    BY <2>1, <2>2, <2>5
  <2>8. \A i \in 1 .. n : maps[i].scans > 0
    BY <2>3, <2>4, <2>6
  <2> QED BY <2>7, <2>8
<1>6. ASSUME n = 0
      PROVE  /\ maps \in Seq(GraphM) /\ Len(maps) = n + 1 /\ maps[n + 1].anchor = p
             /\ nodes \in Seq(GraphP) /\ edges \in Seq(GraphE) /\ edgeIn \in Nat
             /\ GraphLaid(maps, nodes, edges, edgeIn)
  <2>1. Len(g.edges) = 0
    <3>1. Len(g.maps) < 2
      BY <1>6
    <3> QED BY <3>1, GraphInto
  <2>2. edges = g.edges /\ edgeIn = 0
    BY <1>6
  <2> QED BY <1>2, <1>3, <1>4, <1>5, <1>6, <2>1, <2>2 DEF GraphLaid
<1>7. ASSUME n # 0
      PROVE  /\ maps \in Seq(GraphM) /\ Len(maps) = n + 1 /\ maps[n + 1].anchor = p
             /\ nodes \in Seq(GraphP) /\ edges \in Seq(GraphE) /\ edgeIn \in Nat
             /\ edges[edgeIn] = chain
             /\ GraphLaid(maps, nodes, edges, edgeIn)
  <2>1. /\ edges \in Seq(GraphE) /\ Len(edges) = Len(g.edges) + 1 /\ edges[Len(g.edges) + 1] = chain
        /\ \A i \in 1 .. Len(g.edges) : edges[i] = g.edges[i]
        /\ edgeIn = Len(g.edges) + 1
    BY <1>2, <1>7
  <2> HIDE DEF edges, edgeIn
  <2>2. \A i \in 1 .. Len(edges) :
          /\ 1 <= edges[i].from /\ edges[i].from < edges[i].to /\ edges[i].to <= n + 1
          /\ edges[i].to = n + 1 => i = edgeIn /\ edges[i].known # "closure"
    <3> SUFFICES ASSUME NEW i \in 1 .. Len(edges)
                 PROVE  /\ 1 <= edges[i].from /\ edges[i].from < edges[i].to /\ edges[i].to <= n + 1
                        /\ edges[i].to = n + 1 => i = edgeIn /\ edges[i].known # "closure"
      OBVIOUS
    <3>1. CASE i = edgeIn
      BY <1>2, <1>7, <2>1, <3>1
    <3>2. CASE i # edgeIn
      <4>1. i \in 1 .. Len(g.edges) /\ edges[i] = g.edges[i]
        BY <1>2, <2>1, <3>2
      <4>2. /\ 1 <= g.edges[i].from /\ g.edges[i].from < g.edges[i].to /\ g.edges[i].to <= n
            /\ g.edges[i].to \in Nat
        BY <1>1, <4>1, GraphFields DEF GraphLaid
      <4> QED BY <1>2, <4>1, <4>2
    <3> QED BY <3>1, <3>2
  <2>3. (\A i \in 1 .. Len(edges) : edges[i].known # "closure") =>
          \A i \in 1 .. Len(edges) :
            edges[i].says = GraphBetween(nodes[edges[i].from], nodes[edges[i].to])
    <3> SUFFICES ASSUME \A i \in 1 .. Len(edges) : edges[i].known # "closure", NEW i \in 1 .. Len(edges)
                 PROVE  edges[i].says = GraphBetween(nodes[edges[i].from], nodes[edges[i].to])
      OBVIOUS
    <3>1. CASE i = edgeIn
      <4>1. n \in 1 .. n
        BY <1>2, <1>7
      <4>2. nodes[n] = g.nodes[n]
        BY <1>4, <4>1, Zenon
      <4> QED BY <1>4, <1>7, <2>1, <3>1, <4>2
    <3>2. CASE i # edgeIn
      <4>1. i \in 1 .. Len(g.edges) /\ edges[i] = g.edges[i]
        BY <1>2, <2>1, <3>2
      <4>2. \A j \in 1 .. Len(g.edges) : g.edges[j].known # "closure"
        BY <1>2, <2>1
      <4>3. /\ 1 <= g.edges[i].from /\ g.edges[i].from < g.edges[i].to /\ g.edges[i].to <= n
            /\ g.edges[i].to \in Nat /\ g.edges[i].from \in Nat
            /\ g.edges[i].says = GraphBetween(g.nodes[g.edges[i].from], g.nodes[g.edges[i].to])
        BY <1>1, <4>1, <4>2, GraphFields DEF GraphLaid
      <4>4. PICK a \in Nat, b \in Nat : a = g.edges[i].from /\ b = g.edges[i].to
        BY <4>3
      <4>5. a \in 1 .. n /\ b \in 1 .. n
        <5>1. 1 <= a /\ a < b /\ b <= n /\ n \in Nat
          BY <1>2, <4>3, <4>4
        <5> QED BY <5>1
      <4>6. nodes[a] = g.nodes[a] /\ nodes[b] = g.nodes[b]
        BY <1>4, <4>5, Zenon
      <4> QED BY <4>1, <4>3, <4>4, <4>6
    <3> QED BY <3>1, <3>2
  <2>4. /\ edgeIn <= Len(edges) /\ edgeIn # 0 /\ edgeIn \in Nat
        /\ edges[edgeIn].from = (n + 1) - 1 /\ edges[edgeIn].to = n + 1 /\ edges[edgeIn] = chain
    BY <1>2, <1>7, <2>1
  <2>5. GraphLaid(maps, nodes, edges, edgeIn)
    BY <1>2, <1>3, <1>4, <1>5, <2>2, <2>3, <2>4 DEF GraphLaid
  <2> QED BY <1>3, <1>4, <2>1, <2>4, <2>5
<1>8. /\ maps \in Seq(GraphM) /\ Len(maps) = n + 1 /\ maps[n + 1].anchor = p
      /\ nodes \in Seq(GraphP) /\ edges \in Seq(GraphE) /\ edgeIn \in Nat
      /\ n # 0 => edges[edgeIn] = chain
      /\ GraphLaid(maps, nodes, edges, edgeIn)
  BY <1>6, <1>7
<1> QED BY <1>8 DEF maps, nodes

(* Closures lead from before the last but one into it.                       *)
GraphInward(loops, new) ==
  \A i \in 1 .. Len(loops) : loops[i].from \in 1 .. new - 1 /\ loops[i].to = new /\ loops[i].known = "closure"

LEMMA GraphLoopsAre ==
  ASSUME NEW g, NEW new \in Nat, NEW loops \in GraphLoops(g, new), loops # <<>>,
         \A i \in 1 .. new : g.maps[i].anchor \in GraphP
  PROVE  /\ loops \in Seq(GraphE) /\ Len(loops) >= 1
         /\ GraphInward(loops, new)
<1> DEFINE Loop(e) == e \in GraphE /\ e.from \in 1 .. new - 1 /\ e.to = new /\ e.known = "closure"
<1>1. ASSUME NEW older \in 1 .. new - 1, NEW e \in GraphCloses(g, older, new) PROVE Loop(e)
  <2>1. PICK says \in GraphMotions : e = [from |-> older, to |-> new, says |-> says, known |-> "closure"]
    BY <1>1 DEF GraphCloses
  <2>2. GraphReach \in Nat
    BY GraphAssumption DEF GraphAssumption
  <2>3. says \in GraphP
    BY <2>1, <2>2 DEF GraphMotions, GraphP
  <2> QED BY <2>1, <2>3 DEF GraphE
<1> HIDE DEF Loop
<1>2. \/ \E e : Loop(e) /\ loops = <<e>>
      \/ \E e, f : Loop(e) /\ Loop(f) /\ loops = <<e, f>>
  <2>1. \/ \E older \in 1 .. new - 1 : loops \in {<<e>> : e \in GraphCloses(g, older, new)}
        \/ \E p \in {q \in (1 .. new - 1) \X (1 .. new - 1) : q[1] < q[2]} :
             loops \in {<<e, f>> : e \in GraphCloses(g, p[1], new), f \in GraphCloses(g, p[2], new)}
    <3> DEFINE one(older) == {<<e>> : e \in GraphCloses(g, older, new)}
               two(p) == {<<e, f>> : e \in GraphCloses(g, p[1], new), f \in GraphCloses(g, p[2], new)}
               pairs == {q \in (1 .. new - 1) \X (1 .. new - 1) : q[1] < q[2]}
    <3>1. loops \in {<<>>} \cup (UNION {one(older) : older \in 1 .. new - 1})
                    \cup (UNION {two(p) : p \in pairs})
      BY DEF GraphLoops
    <3>2. loops # <<>>
      OBVIOUS
    <3> HIDE DEF one, two, pairs
    <3>3. (\E older \in 1 .. new - 1 : loops \in one(older)) \/ (\E p \in pairs : loops \in two(p))
      BY <3>1, <3>2
    <3> QED BY <3>3 DEF one, two, pairs
  <2>2. CASE \E older \in 1 .. new - 1 : loops \in {<<e>> : e \in GraphCloses(g, older, new)}
    BY <1>1, <2>2
  <2>3. CASE \E p \in {q \in (1 .. new - 1) \X (1 .. new - 1) : q[1] < q[2]} :
               loops \in {<<e, f>> : e \in GraphCloses(g, p[1], new), f \in GraphCloses(g, p[2], new)}
    <3>1. PICK p \in (1 .. new - 1) \X (1 .. new - 1) :
            loops \in {<<e, f>> : e \in GraphCloses(g, p[1], new), f \in GraphCloses(g, p[2], new)}
      BY <2>3
    <3>2. p[1] \in 1 .. new - 1 /\ p[2] \in 1 .. new - 1
      BY <3>1
    <3>3. PICK e \in GraphCloses(g, p[1], new), f \in GraphCloses(g, p[2], new) : loops = <<e, f>>
      BY <3>1
    <3> QED BY <1>1, <3>2, <3>3
  <2> QED BY <2>1, <2>2, <2>3
<1>3. \A e : Loop(e) => e \in GraphE /\ e.from \in 1 .. new - 1 /\ e.to = new /\ e.known = "closure"
  BY DEF Loop
<1>4. CASE \E e : Loop(e) /\ loops = <<e>>
  <2>1. PICK e : Loop(e) /\ loops = <<e>>
    BY <1>4
  <2> QED BY <1>3, <2>1 DEF GraphInward
<1>5. CASE \E e, f : Loop(e) /\ Loop(f) /\ loops = <<e, f>>
  <2>1. PICK e, f : Loop(e) /\ Loop(f) /\ loops = <<e, f>>
    BY <1>5
  <2> QED BY <1>3, <2>1 DEF GraphInward
<1> QED BY <1>2, <1>4, <1>5 DEF GraphInward

LEMMA GraphIsSeq ==
  ASSUME NEW m \in Nat, NEW S, NEW f \in [1 .. m -> S]
  PROVE  f \in Seq(S) /\ Len(f) = m
OBVIOUS

GraphPlaced(maps, put) == [i \in DOMAIN maps |-> [maps[i] EXCEPT !.anchor = put[i]]]

(* The closures of the last but one told, every submap put at its node.      *)
GraphClosing(n, maps, nodes, edges, edgeIn, loops, put) ==
  /\ n \in Nat /\ n >= 2 /\ maps \in Seq(GraphM) /\ Len(maps) = n + 1
  /\ nodes \in Seq(GraphP) /\ edges \in Seq(GraphE) /\ edgeIn \in Nat
  /\ GraphLaid(maps, nodes, edges, edgeIn)
  /\ loops \in Seq(GraphE) /\ Len(loops) >= 1 /\ GraphInward(loops, n)
  /\ put \in Seq(GraphP) /\ Len(put) = n + 1

GraphLaidAgain(n, moved, put, edges, edgeIn, told) ==
  /\ moved \in Seq(GraphM) /\ Len(moved) = n + 1 /\ moved[n + 1].anchor = put[n + 1]
  /\ told \in Seq(GraphE) /\ told[edgeIn] = edges[edgeIn]
  /\ GraphLaid(moved, put, told, edgeIn)

LEMMA GraphLaidClosed ==
  ASSUME NEW n, NEW maps, NEW nodes, NEW edges, NEW edgeIn, NEW loops, NEW put,
         GraphClosing(n, maps, nodes, edges, edgeIn, loops, put)
  PROVE  GraphLaidAgain(n, GraphPlaced(maps, put), put, edges, edgeIn, edges \o loops)
<1>a. /\ n \in Nat /\ n >= 2 /\ maps \in Seq(GraphM) /\ Len(maps) = n + 1
      /\ nodes \in Seq(GraphP) /\ edges \in Seq(GraphE) /\ edgeIn \in Nat
      /\ GraphLaid(maps, nodes, edges, edgeIn)
      /\ loops \in Seq(GraphE) /\ Len(loops) >= 1 /\ GraphInward(loops, n)
      /\ put \in Seq(GraphP) /\ Len(put) = n + 1
  BY DEF GraphClosing
<1> USE <1>a
<1> DEFINE moved == [i \in DOMAIN maps |-> [maps[i] EXCEPT !.anchor = put[i]]]
           told == edges \o loops
<1>1. DOMAIN maps = 1 .. n + 1 /\ \A i \in 1 .. n + 1 : maps[i] \in GraphM /\ put[i] \in GraphP
  OBVIOUS
<1>2. \A m \in GraphM, p \in GraphP : /\ [m EXCEPT !.anchor = p] \in GraphM
                                       /\ [m EXCEPT !.anchor = p].anchor = p
                                       /\ [m EXCEPT !.anchor = p].scans = m.scans
  BY DEF GraphM
<1>3. \A i \in 1 .. n + 1 : moved[i] \in GraphM /\ moved[i].anchor = put[i] /\ moved[i].scans = maps[i].scans
  <2> SUFFICES ASSUME NEW i \in 1 .. n + 1
               PROVE  moved[i] \in GraphM /\ moved[i].anchor = put[i] /\ moved[i].scans = maps[i].scans
    OBVIOUS
  <2>1. moved[i] = [maps[i] EXCEPT !.anchor = put[i]]
    BY <1>1
  <2> QED BY <1>1, <1>2, <2>1
<1>4. moved \in Seq(GraphM) /\ Len(moved) = n + 1
  <2>1. moved \in [1 .. n + 1 -> GraphM]
    BY <1>1, <1>2
  <2>2. n + 1 \in Nat
    OBVIOUS
  <2> QED BY <2>1, <2>2, GraphIsSeq
<1>5. /\ told \in Seq(GraphE) /\ Len(told) = Len(edges) + Len(loops)
      /\ \A i \in 1 .. Len(edges) : told[i] = edges[i]
      /\ \A i \in 1 .. Len(loops) : told[Len(edges) + i] = loops[i]
  OBVIOUS
<1> HIDE DEF moved, told
<1>6. /\ edgeIn <= Len(edges) /\ edgeIn # 0 /\ edges[edgeIn].from = (n + 1) - 1 /\ edges[edgeIn].to = n + 1
  BY DEF GraphLaid
<1>7. told[edgeIn] = edges[edgeIn] /\ edgeIn <= Len(told)
  BY <1>5, <1>6
<1>8. \A i \in 1 .. Len(told) :
        /\ 1 <= told[i].from /\ told[i].from < told[i].to /\ told[i].to <= n + 1
        /\ told[i].to = n + 1 => i = edgeIn /\ told[i].known # "closure"
  <2> SUFFICES ASSUME NEW i \in 1 .. Len(told)
               PROVE  /\ 1 <= told[i].from /\ told[i].from < told[i].to /\ told[i].to <= n + 1
                      /\ told[i].to = n + 1 => i = edgeIn /\ told[i].known # "closure"
    OBVIOUS
  <2>1. CASE i <= Len(edges)
    <3>1. i \in 1 .. Len(edges) /\ told[i] = edges[i]
      BY <1>5, <2>1
    <3> QED BY <3>1 DEF GraphLaid
  <2>2. CASE i > Len(edges)
    <3>1. PICK j \in 1 .. Len(loops) : i = Len(edges) + j
      <4>1. i - Len(edges) \in 1 .. Len(loops) /\ i = Len(edges) + (i - Len(edges))
        BY <1>5, <2>2
      <4> QED BY <4>1
    <3>2. told[i] = loops[j]
      BY <1>5, <3>1
    <3>3. PICK from \in 1 .. n - 1 : loops[j].from = from /\ loops[j].to = n
      BY DEF GraphInward
    <3>4. told[i].from = from /\ told[i].to = n
      BY <3>2, <3>3
    <3>5. 1 <= from /\ from < n /\ n <= n + 1 /\ n # n + 1
      OBVIOUS
    <3> QED BY <3>4, <3>5
  <2> QED BY <1>5, <2>1, <2>2
<1>9. told[Len(edges) + 1].known = "closure" /\ Len(edges) + 1 \in 1 .. Len(told)
  <2>1. 1 \in 1 .. Len(loops) /\ loops[1].known = "closure"
    BY DEF GraphInward
  <2>2. told[Len(edges) + 1] = loops[1] /\ Len(edges) + 1 \in 1 .. Len(told)
    BY <1>5, <2>1
  <2> QED BY <2>1, <2>2
<1>10. \A i \in 1 .. n + 1 : put[i] = moved[i].anchor
  BY <1>3
<1>11. \A i \in 1 .. (n + 1) - 1 : moved[i].scans > 0
  <2>1. \A i \in 1 .. (n + 1) - 1 : maps[i].scans > 0
    BY DEF GraphLaid
  <2>2. \A i \in 1 .. (n + 1) - 1 : i \in 1 .. n + 1
    OBVIOUS
  <2>3. \A i \in 1 .. (n + 1) - 1 : moved[i].scans = maps[i].scans
    BY <1>3, <2>2
  <2> QED BY <2>1, <2>3
<1>12. GraphLaid(moved, put, told, edgeIn)
  BY <1>4, <1>6, <1>7, <1>8, <1>9, <1>10, <1>11 DEF GraphLaid
<1>13. GraphLaidAgain(n, moved, put, edges, edgeIn, told)
  BY <1>3, <1>4, <1>5, <1>7, <1>12 DEF GraphLaidAgain
<1> QED BY <1>13 DEF moved, told, GraphPlaced

(* Where the optimizer puts the nodes.                                       *)
LEMMA GraphOptimizedAre ==
  ASSUME NEW g \in GraphRecord, NEW nodes \in GraphOptimized(g)
  PROVE  nodes \in Seq(GraphP) /\ Len(nodes) = Len(g.nodes)
<1>1. GraphReach \in Nat
  BY GraphAssumption DEF GraphAssumption
<1>2. PICK f \in [DOMAIN g.nodes -> -GraphReach .. GraphReach] :
        nodes = [i \in DOMAIN f |-> [x |-> f[i], faces |-> g.nodes[i].faces]]
  BY DEF GraphOptimized
<1>3. DOMAIN g.nodes = 1 .. Len(g.nodes) /\ Len(g.nodes) \in Nat
      /\ \A i \in 1 .. Len(g.nodes) : g.nodes[i] \in GraphP
  BY GraphFields
<1>4. \A i \in 1 .. Len(g.nodes) : [x |-> f[i], faces |-> g.nodes[i].faces] \in GraphP
  <2> SUFFICES ASSUME NEW i \in 1 .. Len(g.nodes) PROVE [x |-> f[i], faces |-> g.nodes[i].faces] \in GraphP
    OBVIOUS
  <2>1. f[i] \in -GraphReach .. GraphReach
    BY <1>2, <1>3
  <2>2. f[i] \in Int
    BY <1>1, <2>1
  <2>3. g.nodes[i].faces \in {-1, 1}
    BY <1>3 DEF GraphP
  <2> QED BY <2>2, <2>3 DEF GraphP
<1>5. nodes \in [1 .. Len(g.nodes) -> GraphP]
  BY <1>2, <1>3, <1>4
<1> QED BY <1>3, <1>5

LEMMA GraphOpenedKeeps ==
  ASSUME NEW g, GraphGood(g), NEW n, n = Len(g.maps), n # 0 => g.maps[n].scans # 0,
         NEW h \in GraphOpened(g)
  PROVE  /\ GraphGood(h) /\ Len(h.maps) = n + 1 /\ h.tracked = Inked(h).anchor /\ h.age = 0
         /\ h.ticked = g.ticked
         /\ n # 0 /\ h.edges[h.edgeIn].known = "search" =>
              h.tracked = GraphCompose(g.nodes[n], h.edges[h.edgeIn].says)
<1> DEFINE known == IF g.jumped THEN "search" ELSE "odometry"
           chain == [from |-> n, to |-> n + 1, says |-> GraphBetween(g.nodes[n], g.tracked), known |-> known]
           maps == Append(g.maps, [anchor |-> g.tracked, scans |-> 0])
           nodes == Append(g.nodes, g.tracked)
           edges == IF n = 0 THEN g.edges ELSE Append(g.edges, chain)
           edgeIn == IF n = 0 THEN 0 ELSE Len(g.edges) + 1
           o == [maps |-> maps, age |-> 0, switch |-> FALSE, nodes |-> nodes, edges |-> edges, edgeIn |-> edgeIn,
                 tracked |-> g.tracked, odom |-> g.odom, jumped |-> FALSE, lost |-> g.lost, frozen |-> g.frozen,
                 ticked |-> g.ticked, turns |-> g.turns]
<1>1. /\ g \in GraphRecord /\ GraphLaid(g.maps, g.nodes, g.edges, g.edgeIn) /\ Len(g.nodes) = n
      /\ n \in Nat /\ g.tracked \in GraphP
  BY GraphFields DEF GraphGood, GraphLaid
<1>2. h \in IF n >= 2 THEN GraphClosed(o, g.jumped) ELSE {o}
  <2> DEFINE opened == [g EXCEPT !.maps = maps, !.age = 0, !.switch = FALSE, !.jumped = FALSE, !.nodes = nodes,
                                 !.edges = edges, !.edgeIn = edgeIn]
  <2>1. h \in IF n >= 2 THEN GraphClosed(opened, g.jumped) ELSE {opened}
    BY <1>1 DEF GraphOpened
  <2>2. opened = o
    <3> HIDE DEF maps, nodes, edges, edgeIn
    <3>1. PICK r : r = opened
      OBVIOUS
    <3>2. r = o
      BY <1>1, <3>1 DEF GraphRecord
    <3> QED BY <3>1, <3>2
  <2> QED BY <2>1, <2>2
<1>3. ASSUME n # 0
      PROVE  /\ chain \in GraphE /\ chain.from = n /\ chain.to = n + 1 /\ chain.known # "closure"
             /\ chain.says = GraphBetween(g.nodes[n], g.tracked) /\ g.nodes[n] \in GraphP
  <2>1. g.nodes[n] \in GraphP
    BY <1>1, <1>3, GraphFields
  <2>2. GraphBetween(g.nodes[n], g.tracked) \in GraphP
    BY <1>1, <2>1, GraphPoseTypes
  <2> QED BY <1>1, <2>1, <2>2 DEF GraphE
<1> HIDE DEF chain
<1>4. /\ maps \in Seq(GraphM) /\ Len(maps) = n + 1 /\ maps[n + 1].anchor = g.tracked
      /\ nodes \in Seq(GraphP) /\ edges \in Seq(GraphE) /\ edgeIn \in Nat
      /\ n # 0 => edges[edgeIn] = chain
      /\ GraphLaid(maps, nodes, edges, edgeIn)
  <2>1. n # 0 => /\ chain \in GraphE /\ chain.from = n /\ chain.to = n + 1
                 /\ chain.known # "closure" /\ chain.says = GraphBetween(g.nodes[n], g.tracked)
    BY <1>3
  <2>2. g.tracked \in GraphP
    BY <1>1
  <2> QED BY <2>1, <2>2, GraphLaidOpened
<1>5. Len(nodes) = n + 1 /\ nodes[n + 1] = g.tracked
  BY <1>1, <1>4
<1> HIDE DEF maps, nodes, edges, edgeIn
<1>6. /\ g.edgeIn \in Nat /\ g.odom \in BOOLEAN /\ g.lost \in BOOLEAN /\ g.frozen \in BOOLEAN
      /\ g.ticked \in BOOLEAN /\ g.turns \in Int /\ FALSE \in BOOLEAN /\ 0 \in Int
      /\ g.jumped \in BOOLEAN
  BY <1>1, GraphFields, GraphRest
<1>7. o \in GraphRecord
  <2>1. maps \in Seq(GraphM) /\ nodes \in Seq(GraphP) /\ edges \in Seq(GraphE) /\ edgeIn \in Nat
    BY <1>4
  <2> QED BY <1>1, <1>6, <2>1, Zenon DEF GraphRecord
<1>8. n # 0 => g.tracked = GraphCompose(g.nodes[n], chain.says)
  BY <1>1, <1>3, GraphComposeBetween
<1>9. CASE h = o
  <2>1. GraphGood(h)
    BY <1>4, <1>7, <1>9 DEF GraphGood
  <2> QED BY <1>4, <1>8, <1>9, <2>1 DEF Inked
<1>10. CASE h # o
  <2>1. n >= 2 /\ h \in GraphClosed(o, g.jumped)
    BY <1>1, <1>2, <1>10
  <2>2. PICK loops \in GraphLoops(o, Len(o.maps) - 1) \ {<<>>}, ns \in GraphOptimized(o) :
          h = GraphCarried([o EXCEPT !.edges = @ \o loops], g.jumped, ns)
    <3> HIDE DEF o
    <3> DEFINE every == {[o EXCEPT !.edges = @ \o loops] : loops \in GraphLoops(o, Len(o.maps) - 1) \ {<<>>}}
    <3>1. h \in {o} \cup {GraphCarried(p[1], g.jumped, p[2]) : p \in every \X GraphOptimized(o)}
      BY <2>1 DEF GraphClosed
    <3> HIDE DEF every
    <3>2. PICK p \in every \X GraphOptimized(o) : h = GraphCarried(p[1], g.jumped, p[2])
      BY <1>10, <3>1
    <3>3. p[1] \in every /\ p[2] \in GraphOptimized(o)
      BY <3>2
    <3>4. PICK loops \in GraphLoops(o, Len(o.maps) - 1) \ {<<>>} : p[1] = [o EXCEPT !.edges = @ \o loops]
      BY <3>3 DEF every
    <3> QED BY <3>2, <3>3, <3>4
  <2> DEFINE told == edges \o loops
             put == IF g.jumped THEN [ns EXCEPT ![n + 1] = nodes[n + 1]] ELSE ns
             moved == GraphPlaced(maps, put)
  <2>3. loops \in GraphLoops(o, n) /\ loops # <<>>
    BY <1>1, <1>4, <2>2
  <2>4. /\ loops \in Seq(GraphE) /\ Len(loops) >= 1
        /\ GraphInward(loops, n)
    <3>1. \A i \in 1 .. n : o.maps[i].anchor \in GraphP
      <4>1. Len(o.maps) = n + 1
        BY <1>4
      <4> QED BY <1>1, <1>7, <4>1, GraphFields
    <3> QED BY <1>1, <2>3, <3>1, GraphLoopsAre
  <2>5. ns \in Seq(GraphP) /\ Len(ns) = n + 1
    BY <1>5, <1>7, <2>2, GraphOptimizedAre
  <2>6. /\ put \in Seq(GraphP) /\ Len(put) = n + 1 /\ put[n + 1] \in GraphP
        /\ g.jumped => put[n + 1] = g.tracked
    BY <1>1, <1>5, <2>5
  <2>7. GraphCompose(put[n + 1], GraphBetween(g.tracked, g.tracked)) = put[n + 1]
    BY <1>1, <2>6, GraphComposeBetween
  <2>8. /\ moved \in Seq(GraphM) /\ Len(moved) = n + 1 /\ moved[n + 1].anchor = put[n + 1]
        /\ told \in Seq(GraphE) /\ told[edgeIn] = edges[edgeIn]
        /\ GraphLaid(moved, put, told, edgeIn)
    <3>1. n \in Nat /\ n >= 2 /\ put \in Seq(GraphP) /\ Len(put) = n + 1
      BY <1>1, <2>1, <2>6
    <3>2. /\ maps \in Seq(GraphM) /\ Len(maps) = n + 1 /\ nodes \in Seq(GraphP) /\ edges \in Seq(GraphE)
          /\ edgeIn \in Nat /\ GraphLaid(maps, nodes, edges, edgeIn)
      BY <1>4
    <3> HIDE DEF put
    <3>3. GraphClosing(n, maps, nodes, edges, edgeIn, loops, put)
      BY <2>4, <3>1, <3>2 DEF GraphClosing
    <3>4. GraphLaidAgain(n, moved, put, edges, edgeIn, told)
      BY <3>3, GraphLaidClosed
    <3> HIDE DEF moved, told
    <3> QED BY <3>4 DEF GraphLaidAgain
  <2> DEFINE t == [o EXCEPT !.edges = @ \o loops]
  <2>9. /\ t \in GraphRecord /\ t.edges = told /\ t.nodes = nodes /\ t.maps = maps /\ t.tracked = g.tracked
        /\ t.edgeIn = edgeIn /\ t.age = 0 /\ t.ticked = g.ticked
    <3>1. /\ o.edges = edges /\ o.nodes = nodes /\ o.maps = maps /\ o.tracked = g.tracked
          /\ o.edgeIn = edgeIn /\ o.age = 0 /\ o.ticked = g.ticked
      OBVIOUS
    <3>2. told \in Seq(GraphE)
      BY <2>8
    <3> HIDE DEF o
    <3>3. t = [o EXCEPT !.edges = told]
      BY <3>1
    <3> HIDE DEF told, t
    <3> QED BY <1>7, <3>1, <3>2, <3>3 DEF GraphRecord
  <2>10. /\ h \in GraphRecord /\ h.edges = told /\ h.nodes = put /\ h.maps = moved /\ h.tracked = put[n + 1]
         /\ h.edgeIn = edgeIn /\ h.age = 0 /\ h.ticked = g.ticked
    <3>1. h = GraphCarried(t, g.jumped, ns)
      BY <2>2
    <3> HIDE DEF t, told
    <3>2. Len(t.nodes) = n + 1 /\ t.nodes[n + 1] = nodes[n + 1]
      BY <1>5, <2>9
    <3>3. h = [t EXCEPT !.nodes = put, !.maps = moved,
                        !.tracked = GraphCompose(put[n + 1], GraphBetween(g.tracked, g.tracked))]
      <4> DEFINE k == Len(t.nodes)
                 put2 == IF g.jumped THEN [ns EXCEPT ![k] = t.nodes[k]] ELSE ns
                 moved2 == [i \in DOMAIN t.maps |-> [t.maps[i] EXCEPT !.anchor = put2[i]]]
                 tracked2 == GraphCompose(put2[k], GraphBetween(t.nodes[k], t.tracked))
      <4>1. h = [t EXCEPT !.nodes = put2, !.maps = moved2, !.tracked = tracked2]
        BY <3>1 DEF GraphCarried
      <4>2. k = n + 1 /\ put2 = put
        BY <3>2
      <4> HIDE DEF put, put2
      <4>3. moved2 = moved
        BY <2>9, <4>2 DEF GraphPlaced
      <4>4. tracked2 = GraphCompose(put[n + 1], GraphBetween(g.tracked, g.tracked))
        BY <1>5, <2>9, <3>2, <4>2
      <4> HIDE DEF moved, moved2, tracked2
      <4> QED BY <4>1, <4>2, <4>3, <4>4
    <3>4. moved \in Seq(GraphM) /\ put \in Seq(GraphP) /\ put[n + 1] \in GraphP
      BY <2>6, <2>8
    <3> HIDE DEF put, moved
    <3> QED BY <2>7, <2>9, <3>3, <3>4 DEF GraphRecord
  <2> HIDE DEF put, told, moved
  <2>11. GraphGood(h)
    BY <2>8, <2>10 DEF GraphGood
  <2>12. h.edges[h.edgeIn] = chain /\ (chain.known = "search" => h.tracked = g.tracked)
    BY <1>4, <2>1, <2>6, <2>8, <2>10 DEF chain
  <2> QED BY <1>8, <2>8, <2>10, <2>11, <2>12 DEF Inked
<1> QED BY <1>9, <1>10

(* What lies where is as it was, whatever else of the record changes.        *)
GraphAlike(g, h) ==
  /\ h = [maps |-> g.maps, age |-> h.age, switch |-> h.switch, nodes |-> g.nodes, edges |-> g.edges,
          edgeIn |-> g.edgeIn, tracked |-> h.tracked, odom |-> h.odom, jumped |-> h.jumped, lost |-> h.lost,
          frozen |-> h.frozen, ticked |-> h.ticked, turns |-> h.turns]
  /\ h.age \in Int /\ h.switch \in BOOLEAN /\ h.tracked \in GraphP /\ h.odom \in BOOLEAN
  /\ h.jumped \in BOOLEAN /\ h.lost \in BOOLEAN /\ h.frozen \in BOOLEAN /\ h.ticked \in BOOLEAN
  /\ h.turns \in Int

LEMMA GraphAlikeGood ==
  ASSUME NEW g, GraphGood(g), NEW h, GraphAlike(g, h)
  PROVE  /\ GraphGood(h) /\ h.maps = g.maps /\ h.nodes = g.nodes /\ h.edges = g.edges /\ h.edgeIn = g.edgeIn
         /\ h.age \in Int /\ h.tracked \in GraphP
<1>1. h = [maps |-> g.maps, age |-> h.age, switch |-> h.switch, nodes |-> g.nodes, edges |-> g.edges,
           edgeIn |-> g.edgeIn, tracked |-> h.tracked, odom |-> h.odom, jumped |-> h.jumped, lost |-> h.lost,
           frozen |-> h.frozen, ticked |-> h.ticked, turns |-> h.turns]
  BY Zenon DEF GraphAlike
<1>2. /\ h.age \in Int /\ h.switch \in BOOLEAN /\ h.tracked \in GraphP /\ h.odom \in BOOLEAN
      /\ h.jumped \in BOOLEAN /\ h.lost \in BOOLEAN /\ h.frozen \in BOOLEAN /\ h.ticked \in BOOLEAN
      /\ h.turns \in Int
  BY Zenon DEF GraphAlike
<1>3. /\ g.maps \in Seq(GraphM) /\ g.nodes \in Seq(GraphP) /\ g.edges \in Seq(GraphE) /\ g.edgeIn \in Nat
      /\ g \in GraphRecord
  BY GraphFields DEF GraphGood
<1>4. [maps |-> g.maps, age |-> h.age, switch |-> h.switch, nodes |-> g.nodes, edges |-> g.edges,
       edgeIn |-> g.edgeIn, tracked |-> h.tracked, odom |-> h.odom, jumped |-> h.jumped, lost |-> h.lost,
       frozen |-> h.frozen, ticked |-> h.ticked, turns |-> h.turns] \in GraphRecord
  BY <1>2, <1>3, Zenon DEF GraphRecord
<1>5. h \in GraphRecord
  BY <1>1, <1>4
<1>6. h.maps = g.maps /\ h.nodes = g.nodes /\ h.edges = g.edges /\ h.edgeIn = g.edgeIn
  BY <1>1
<1> QED BY <1>2, <1>3, <1>5, <1>6, GraphSame

LEMMA GraphArmedKeeps ==
  ASSUME NEW g, GraphGood(g), NEW h, h = GraphArmed(g)
  PROVE  GraphAlike(g, h) /\ h.tracked = g.tracked /\ h.age # NoAge
<1>1. g \in GraphRecord
  BY DEF GraphGood
<1>2. h = [g EXCEPT !.age = IF g.age = NoAge THEN 0 ELSE g.age]
  BY DEF GraphArmed
<1>3. h = [maps |-> g.maps, age |-> h.age, switch |-> h.switch, nodes |-> g.nodes, edges |-> g.edges,
           edgeIn |-> g.edgeIn, tracked |-> h.tracked, odom |-> h.odom, jumped |-> h.jumped, lost |-> h.lost,
           frozen |-> h.frozen, ticked |-> h.ticked, turns |-> h.turns]
  BY <1>1, <1>2 DEF GraphRecord
<1>4. h.age \in Int /\ h.age # NoAge /\ h.tracked = g.tracked /\ h.tracked \in GraphP /\ h.turns \in Int
  BY <1>1, <1>2 DEF GraphRecord, NoAge
<1>5. /\ h.switch \in BOOLEAN /\ h.odom \in BOOLEAN /\ h.jumped \in BOOLEAN /\ h.lost \in BOOLEAN
      /\ h.frozen \in BOOLEAN /\ h.ticked \in BOOLEAN
  BY <1>1, <1>2 DEF GraphRecord
<1> QED BY <1>3, <1>4, <1>5, Zenon DEF GraphAlike

(* A tick leaves no submap open that should be closed, and what it opens     *)
(* lies under the body.                                                      *)
GraphKept(h) ==
  /\ h.age # NoAge /\ GraphTravel(h) < GraphMaxTravel
  /\ h.age = GraphMaxAge => GraphTravel(h) < GraphMinTravel

GraphRidden(g, h) ==
  Len(g.maps) > 0 /\ Len(h.maps) > Len(g.maps) =>
    /\ h.tracked = Inked(h).anchor
    /\ h.edges[h.edgeIn].known = "search" =>
         h.tracked = GraphCompose(g.nodes[Len(g.maps)], h.edges[h.edgeIn].says)

LEMMA GraphKeptAnew ==
  ASSUME NEW h, GraphGood(h), h.tracked = Inked(h).anchor, h.age = 0
  PROVE  GraphKept(h)
<1>1. h.tracked \in GraphP
  BY GraphFields DEF GraphGood
<1>2. GraphTravel(h) = 0
  BY <1>1, GraphPoseTypes DEF GraphTravel
<1>3. GraphMaxAge \in Nat \ {0} /\ GraphMaxTravel \in Nat \ {0}
  BY GraphAssumption DEF GraphAssumption
<1> QED BY <1>2, <1>3 DEF GraphKept, NoAge

LEMMA GraphTickedKeeps ==
  ASSUME NEW g, GraphGood(g), NEW h \in GraphTicked(g)
  PROVE  GraphGood(h) /\ GraphKept(h) /\ GraphRidden(g, h)
<1> DEFINE armed == GraphArmed(g)
<1>1. g \in GraphRecord /\ GraphLaid(g.maps, g.nodes, g.edges, g.edgeIn) /\ Len(g.maps) \in Nat
  BY GraphFields DEF GraphGood
<1>2. CASE g.maps = <<>>
  <2>1. Len(g.maps) = 0 /\ h \in GraphOpened(g)
    BY <1>2 DEF GraphTicked
  <2>2. GraphGood(h) /\ h.tracked = Inked(h).anchor /\ h.age = 0
    BY <2>1, GraphOpenedKeeps
  <2> QED BY <2>1, <2>2, GraphKeptAnew DEF GraphRidden
<1>3. CASE g.maps # <<>>
  <2>1. /\ GraphGood(armed) /\ armed.maps = g.maps /\ armed.nodes = g.nodes /\ armed.tracked = g.tracked
        /\ armed.age \in Int /\ armed.age # NoAge /\ armed.tracked \in GraphP
    BY GraphArmedKeeps, GraphAlikeGood
  <2>2. Len(g.maps) >= 1 /\ Len(g.maps) \in Nat
    BY <1>1, <1>3, GraphFields
  <2> HIDE DEF armed
  <2>3. CASE ~GraphDue(armed)
    <3>1. h = armed
      BY <1>3, <2>3 DEF GraphTicked, armed
    <3>2. GraphTravel(armed) \in Nat
      <4>1. Inked(armed).anchor \in GraphP
        <5>1. g.maps[Len(g.maps)].anchor \in GraphP
          BY <1>1, <2>2, GraphFields
        <5> QED BY <2>1, <5>1 DEF Inked
      <4> QED BY <2>1, <4>1, GraphPoseTypes DEF GraphTravel
    <3>3. GraphMaxAge \in Nat /\ GraphMaxTravel \in Nat /\ GraphMinTravel \in Nat
      BY GraphAssumption DEF GraphAssumption
    <3>4. GraphKept(armed)
      BY <2>1, <2>3, <3>2, <3>3 DEF GraphKept, GraphDue
    <3>5. GraphRidden(g, armed)
      BY <2>1, <2>2 DEF GraphRidden
    <3> QED BY <2>1, <3>1, <3>4, <3>5
  <2>4. CASE GraphDue(armed) /\ Inked(g).scans = 0
    <3>1. h = GraphReanchored(armed)
      BY <1>3, <2>4 DEF GraphTicked, armed
    <3>2. GraphGood(h) /\ Len(h.maps) = Len(g.maps) /\ h.tracked = Inked(h).anchor /\ h.age = 0
      BY <1>3, <2>1, <3>1, GraphReanchoredKeeps
    <3> QED BY <2>2, <3>2, GraphKeptAnew DEF GraphRidden
  <2>5. CASE GraphDue(armed) /\ Inked(g).scans # 0
    <3>1. h \in GraphOpened(armed)
      BY <1>3, <2>5 DEF GraphTicked, armed
    <3>2. armed.maps[Len(g.maps)].scans # 0
      BY <2>1, <2>5 DEF Inked
    <3>3. /\ GraphGood(h) /\ h.tracked = Inked(h).anchor /\ h.age = 0
          /\ h.edges[h.edgeIn].known = "search" =>
               h.tracked = GraphCompose(armed.nodes[Len(g.maps)], h.edges[h.edgeIn].says)
      BY <2>1, <2>2, <3>1, <3>2, GraphOpenedKeeps
    <3> QED BY <2>1, <3>3, GraphKeptAnew DEF GraphRidden
  <2> QED BY <2>3, <2>4, <2>5
<1> QED BY <1>2, <1>3

(* A window inked: only how many scans the last submap keeps.                *)
LEMMA GraphIntegrateKeeps ==
  ASSUME NEW g, GraphGood(g), NEW touched \in BOOLEAN, NEW h, h = GraphIntegrate(g, touched)
  PROVE  /\ GraphGood(h) /\ Len(h.maps) = Len(g.maps) /\ h.nodes = g.nodes /\ h.edges = g.edges
         /\ h.edgeIn = g.edgeIn /\ h.tracked = g.tracked
         /\ Len(g.maps) > 0 => Inked(h).anchor = Inked(g).anchor
<1>1. g \in GraphRecord /\ GraphLaid(g.maps, g.nodes, g.edges, g.edgeIn) /\ Len(g.maps) \in Nat
  BY GraphFields DEF GraphGood
<1>2. CASE ~(touched /\ g.maps # <<>>)
  BY <1>2 DEF GraphIntegrate
<1>3. CASE touched /\ g.maps # <<>>
  <2> DEFINE n == Len(g.maps)
             m == g.maps[n]
             scans == IF m.scans < GraphScans THEN m.scans + 1 ELSE m.scans
             maps == [g.maps EXCEPT ![n] = [m EXCEPT !.scans = scans]]
  <2>1. n \in 1 .. n /\ g.maps \in Seq(GraphM)
    BY <1>1, <1>3, GraphFields
  <2>2. m \in GraphM /\ m.scans \in Nat /\ scans \in Nat
    BY <1>1, <2>1, GraphFields
  <2>3. h = [g EXCEPT !.maps = maps]
    BY <1>1, <1>3 DEF GraphIntegrate, GraphRecord
  <2> HIDE DEF scans
  <2>4. [m EXCEPT !.scans = scans] \in GraphM /\ [m EXCEPT !.scans = scans].anchor = m.anchor
    BY <2>2 DEF GraphM
  <2>5. /\ maps \in Seq(GraphM) /\ Len(maps) = n /\ maps[n].anchor = m.anchor
        /\ \A i \in 1 .. n : i # n => maps[i] = g.maps[i]
    BY <2>1, <2>4
  <2> HIDE DEF maps
  <2>6. /\ h \in GraphRecord /\ h.maps = maps /\ h.nodes = g.nodes /\ h.edges = g.edges
        /\ h.edgeIn = g.edgeIn /\ h.tracked = g.tracked
    BY <1>1, <2>3, <2>5 DEF GraphRecord
  <2>7. \A i \in 1 .. n : maps[i].anchor = g.maps[i].anchor
    BY <2>5
  <2>8. \A i \in 1 .. n - 1 : maps[i] = g.maps[i]
    <3>1. \A i \in 1 .. n - 1 : i \in 1 .. n /\ i # n
      BY <1>1
    <3> QED BY <2>5, <3>1
  <2>9. GraphLaid(maps, g.nodes, g.edges, g.edgeIn)
    BY <1>1, <2>5, <2>7, <2>8 DEF GraphLaid
  <2> QED BY <2>5, <2>6, <2>9 DEF GraphGood, Inked
<1> QED BY <1>2, <1>3

LEMMA GraphSetKeeps ==
  ASSUME NEW g, GraphGood(g), NEW pose \in GraphP, NEW h, h = GraphSet(g, pose)
  PROVE  GraphAlike(g, h) /\ h.frozen = g.frozen
<1>1. g \in GraphRecord
  BY DEF GraphGood
<1>2. PICK jumped \in BOOLEAN :
        jumped = (g.jumped \/ GraphFar(pose, g.tracked) > GraphJump \/ pose.faces # g.tracked.faces)
  BY Zenon
<1>3. h = [g EXCEPT !.tracked = pose, !.odom = FALSE, !.jumped = jumped]
  BY <1>2 DEF GraphSet
<1>4. h = [maps |-> g.maps, age |-> h.age, switch |-> h.switch, nodes |-> g.nodes, edges |-> g.edges,
            edgeIn |-> g.edgeIn, tracked |-> h.tracked, odom |-> h.odom, jumped |-> h.jumped, lost |-> h.lost,
            frozen |-> h.frozen, ticked |-> h.ticked, turns |-> h.turns]
  BY <1>1, <1>3 DEF GraphRecord
<1>5. h.age \in Int /\ h.tracked \in GraphP /\ h.turns \in Int /\ h.frozen = g.frozen
  BY <1>1, <1>3 DEF GraphRecord
<1>6. /\ h.switch \in BOOLEAN /\ h.odom \in BOOLEAN /\ h.jumped \in BOOLEAN /\ h.lost \in BOOLEAN
          /\ h.frozen \in BOOLEAN /\ h.ticked \in BOOLEAN
  BY <1>1, <1>3 DEF GraphRecord
<1> QED BY <1>4, <1>5, <1>6, Zenon DEF GraphAlike

LEMMA GraphMovedKeeps ==
  ASSUME NEW g, GraphGood(g), NEW motion \in GraphP, NEW h, h = GraphMoved(g, motion)
  PROVE  GraphAlike(g, h)
<1>1. g \in GraphRecord /\ g.tracked \in GraphP
  BY GraphFields DEF GraphGood
<1>2. PICK tracked \in GraphP : tracked = IF g.odom THEN GraphCompose(g.tracked, motion) ELSE g.tracked
  BY <1>1, GraphPoseTypes
<1>3. h = [g EXCEPT !.tracked = tracked, !.odom = TRUE]
  BY <1>2 DEF GraphMoved
<1>4. h = [maps |-> g.maps, age |-> h.age, switch |-> h.switch, nodes |-> g.nodes, edges |-> g.edges,
            edgeIn |-> g.edgeIn, tracked |-> h.tracked, odom |-> h.odom, jumped |-> h.jumped, lost |-> h.lost,
            frozen |-> h.frozen, ticked |-> h.ticked, turns |-> h.turns]
  BY <1>1, <1>3 DEF GraphRecord
<1>5. h.age \in Int /\ h.tracked \in GraphP /\ h.turns \in Int
  BY <1>1, <1>3 DEF GraphRecord
<1>6. /\ h.switch \in BOOLEAN /\ h.odom \in BOOLEAN /\ h.jumped \in BOOLEAN /\ h.lost \in BOOLEAN
          /\ h.frozen \in BOOLEAN /\ h.ticked \in BOOLEAN
  BY <1>1, <1>3 DEF GraphRecord
<1> QED BY <1>4, <1>5, <1>6, Zenon DEF GraphAlike

(* Which edge leads into the last submap can be told from the edges.         *)
LEMMA GraphEdgeIsFound ==
  ASSUME NEW g, GraphGood(g)
  PROVE  GraphEdgeAgain(g) = g.edgeIn
<1> DEFINE n == Len(g.maps)
           into == {0} \cup {i \in DOMAIN g.edges : g.edges[i].from = n - 1 /\ g.edges[i].to = n}
<1>1. /\ g \in GraphRecord /\ GraphLaid(g.maps, g.nodes, g.edges, g.edgeIn) /\ Len(g.nodes) = n
      /\ g.edgeIn \in Nat /\ DOMAIN g.edges = 1 .. Len(g.edges) /\ Len(g.edges) \in Nat
  BY GraphFields DEF GraphGood, GraphLaid
<1>2. GraphEdgeAgain(g) = Max(into)
  BY <1>1 DEF GraphEdgeAgain
<1>3. into = {0, g.edgeIn}
  <2>1. \A i \in DOMAIN g.edges : g.edges[i].to = n => i = g.edgeIn
    BY <1>1 DEF GraphLaid
  <2>2. g.edgeIn # 0 => /\ g.edgeIn \in DOMAIN g.edges /\ g.edges[g.edgeIn].from = n - 1
                        /\ g.edges[g.edgeIn].to = n
    BY <1>1, GraphInto
  <2> QED BY <2>1, <2>2
<1>4. \A x, y \in {0, g.edgeIn} : x \in Nat /\ y \in Nat
  BY <1>1
<1> HIDE DEF into
<1>5. Max({0, g.edgeIn}) = g.edgeIn
  <2>1. g.edgeIn >= 0 /\ g.edgeIn >= g.edgeIn /\ g.edgeIn \in {0, g.edgeIn}
    BY <1>1
  <2>2. PICK x \in {0, g.edgeIn} : x = Max({0, g.edgeIn}) /\ \A y \in {0, g.edgeIn} : y <= x
    BY <1>1, <2>1 DEF Max
  <2> QED BY <1>1, <2>2
<1> QED BY <1>2, <1>3, <1>5

(* A step that lays nothing out: it keeps the map, or only ticks.            *)
GraphStepKeeps(g, h) ==
  GraphGood(h) /\ (h.ticked => GraphKept(h)) /\ GraphRidden(g, h)

LEMMA GraphAlikeKeeps ==
  ASSUME NEW g, GraphGood(g), NEW h, GraphAlike(g, h), ~h.ticked
  PROVE  GraphStepKeeps(g, h)
BY GraphAlikeGood, GraphFields DEF GraphGood, GraphStepKeeps, GraphRidden

LEMMA GraphObserveKeeps ==
  ASSUME GraphGood(graph), GraphObserve
  PROVE  GraphStepKeeps(graph, graph')
<1>1. PICK x \in {-1, 0, 1}, faces \in {-1, 1} :
        LET moved == GraphMoved(graph, [x |-> x, faces |-> faces])
            later == [moved EXCEPT !.age = IF @ = NoAge THEN @ ELSE GraphLater(@),
                                   !.ticked = GraphTicks(graph),
                                   !.turns = IF faces = 1 THEN @ ELSE @ - 1]
        IN /\ faces = 1 \/ (x = 0 /\ GraphTurn)
           /\ graph' \in IF GraphTicks(graph) THEN GraphTicked(later) ELSE {later}
  BY Zenon DEF GraphObserve
<1> DEFINE motion == [x |-> x, faces |-> faces]
           moved == GraphMoved(graph, motion)
<1>2. motion \in GraphP
  BY DEF GraphP
<1>3. GraphAlike(graph, moved)
  BY <1>2, GraphMovedKeeps
<1>4. /\ GraphGood(moved) /\ moved.maps = graph.maps /\ moved.nodes = graph.nodes
      /\ moved.edges = graph.edges /\ moved.edgeIn = graph.edgeIn /\ moved.age \in Int
  BY <1>3, GraphAlikeGood
<1>5. PICK ticks \in BOOLEAN : ticks = GraphTicks(graph)
  BY Zenon DEF GraphTicks
<1> HIDE DEF moved
<1>6. PICK age \in Int : age = IF moved.age = NoAge THEN moved.age ELSE GraphLater(moved.age)
  <2>1. GraphLater(moved.age) \in Int
    BY <1>4, GraphAssumption DEF GraphLater, GraphAssumption
  <2> QED BY <1>4, <2>1
<1>7. moved \in GraphRecord
  BY <1>4 DEF GraphGood
<1>8. PICK turns \in Int : turns = IF faces = 1 THEN moved.turns ELSE moved.turns - 1
  BY <1>7, GraphRest
<1>9. PICK later : later = [moved EXCEPT !.age = age, !.ticked = ticks, !.turns = turns]
  OBVIOUS
<1>10. graph' \in IF ticks THEN GraphTicked(later) ELSE {later}
  BY <1>1, <1>5, <1>6, <1>8, <1>9 DEF moved
<1>11. GraphAlike(moved, later) /\ later.ticked = ticks
  <2>1. later = [maps |-> moved.maps, age |-> later.age, switch |-> later.switch, nodes |-> moved.nodes, edges |-> moved.edges,
            edgeIn |-> moved.edgeIn, tracked |-> later.tracked, odom |-> later.odom, jumped |-> later.jumped, lost |-> later.lost,
            frozen |-> later.frozen, ticked |-> later.ticked, turns |-> later.turns]
    BY <1>7, <1>9 DEF GraphRecord
  <2>2. later.age \in Int /\ later.tracked \in GraphP /\ later.turns \in Int /\ later.ticked = ticks
    BY <1>7, <1>9 DEF GraphRecord
  <2>3. /\ later.switch \in BOOLEAN /\ later.odom \in BOOLEAN /\ later.jumped \in BOOLEAN /\ later.lost \in BOOLEAN
        /\ later.frozen \in BOOLEAN /\ later.ticked \in BOOLEAN
    BY <1>7, <1>9 DEF GraphRecord
  <2> QED BY <2>1, <2>2, <2>3, Zenon DEF GraphAlike
<1>12. GraphGood(later) /\ later.maps = graph.maps /\ later.nodes = graph.nodes
  BY <1>4, <1>11, GraphAlikeGood
<1>13. CASE ticks
  <2>1. GraphGood(graph') /\ GraphKept(graph') /\ GraphRidden(later, graph')
    BY <1>10, <1>12, <1>13, GraphTickedKeeps
  <2> QED BY <1>12, <2>1 DEF GraphStepKeeps, GraphRidden
<1>14. CASE ~ticks
  <2>1. graph' = later /\ ~graph'.ticked
    BY <1>10, <1>11, <1>14
  <2>2. GraphRidden(graph, later)
    BY <1>4, <1>7, <1>12, GraphFields DEF GraphRidden
  <2> QED BY <1>12, <2>1, <2>2 DEF GraphStepKeeps
<1> QED BY <1>13, <1>14

(* Found: the tick that sees the jump comes before the ink.                  *)
LEMMA GraphResumesKeeps ==
  ASSUME GraphGood(graph), GraphResumes
  PROVE  GraphStepKeeps(graph, graph')
<1>1. PICK pose \in GraphPoses, settles \in BOOLEAN :
        LET found == [GraphSet(graph, pose) EXCEPT !.lost = FALSE]
        IN graph' \in {[IF settles \/ g.frozen THEN g ELSE GraphIntegrate(g, TRUE) EXCEPT !.ticked = FALSE]
                        : g \in IF found.frozen THEN {found} ELSE GraphTicked(found)}
  BY DEF GraphResumes
<1> DEFINE set == GraphSet(graph, pose)
           found == [set EXCEPT !.lost = FALSE]
<1>2. pose \in GraphP
  <2>1. GraphReach \in Nat
    BY GraphAssumption DEF GraphAssumption
  <2>2. -GraphReach .. GraphReach \subseteq Int
    BY <2>1
  <2> QED BY <2>2 DEF GraphPoses, GraphP
<1>3. GraphAlike(graph, set)
  BY <1>2, GraphSetKeeps
<1>4. /\ GraphGood(set) /\ set.maps = graph.maps /\ set.nodes = graph.nodes /\ set.edges = graph.edges
      /\ set.edgeIn = graph.edgeIn /\ set \in GraphRecord
  BY <1>3, GraphAlikeGood DEF GraphGood
<1> HIDE DEF set
<1>5. GraphAlike(set, found)
  <2>0. PICK r : r = found
    OBVIOUS
  <2>1. r = [maps |-> set.maps, age |-> r.age, switch |-> r.switch, nodes |-> set.nodes, edges |-> set.edges,
            edgeIn |-> set.edgeIn, tracked |-> r.tracked, odom |-> r.odom, jumped |-> r.jumped, lost |-> r.lost,
            frozen |-> r.frozen, ticked |-> r.ticked, turns |-> r.turns]
    BY <1>4, <2>0 DEF GraphRecord
  <2>2. r.age \in Int /\ r.tracked \in GraphP /\ r.turns \in Int
    BY <1>4, <2>0 DEF GraphRecord
  <2>3. /\ r.switch \in BOOLEAN /\ r.odom \in BOOLEAN /\ r.jumped \in BOOLEAN /\ r.lost \in BOOLEAN
        /\ r.frozen \in BOOLEAN /\ r.ticked \in BOOLEAN
    BY <1>4, <2>0 DEF GraphRecord
  <2>4. GraphAlike(set, r)
    BY <2>1, <2>2, <2>3, Zenon DEF GraphAlike
  <2> QED BY <2>0, <2>4
<1>6. GraphGood(found) /\ found.maps = graph.maps /\ found.nodes = graph.nodes /\ Len(graph.maps) \in Nat
  BY <1>4, <1>5, GraphAlikeGood, GraphFields DEF GraphGood
<1> HIDE DEF found
<1>7. PICK g \in IF found.frozen THEN {found} ELSE GraphTicked(found) :
        graph' = [IF settles \/ g.frozen THEN g ELSE GraphIntegrate(g, TRUE) EXCEPT !.ticked = FALSE]
  BY <1>1 DEF found, set
<1>8. GraphGood(g) /\ GraphRidden(graph, g)
  <2>1. CASE found.frozen
    BY <1>6, <1>7, <2>1 DEF GraphRidden
  <2>2. CASE ~found.frozen
    <3>1. GraphGood(g) /\ GraphRidden(found, g)
      BY <1>6, <1>7, <2>2, GraphTickedKeeps
    <3> QED BY <1>6, <3>1 DEF GraphRidden
  <2> QED BY <2>1, <2>2
<1>9. PICK h : h = IF settles \/ g.frozen THEN g ELSE GraphIntegrate(g, TRUE)
  OBVIOUS
<1>10. GraphGood(h) /\ GraphRidden(graph, h)
  <2>1. CASE h = g
    BY <1>8, <2>1
  <2>2. CASE h = GraphIntegrate(g, TRUE)
    <3>1. /\ GraphGood(h) /\ Len(h.maps) = Len(g.maps) /\ h.edges = g.edges /\ h.edgeIn = g.edgeIn
          /\ h.tracked = g.tracked /\ (Len(g.maps) > 0 => Inked(h).anchor = Inked(g).anchor)
      BY <1>8, <2>2, GraphIntegrateKeeps
    <3>2. Len(graph.maps) > 0 /\ Len(g.maps) > Len(graph.maps) => Len(g.maps) > 0
      BY <1>6, <1>8, GraphFields DEF GraphGood
    <3> QED BY <1>8, <3>1, <3>2 DEF GraphRidden
  <2> QED BY <1>9, <2>1, <2>2
<1>11. /\ GraphAlike(h, graph') /\ ~graph'.ticked /\ graph'.tracked = h.tracked
  <2>1. graph' = [h EXCEPT !.ticked = FALSE] /\ h \in GraphRecord
    BY <1>7, <1>9, <1>10 DEF GraphGood
  <2>2. graph' = [maps |-> h.maps, age |-> graph'.age, switch |-> graph'.switch, nodes |-> h.nodes, edges |-> h.edges,
            edgeIn |-> h.edgeIn, tracked |-> graph'.tracked, odom |-> graph'.odom, jumped |-> graph'.jumped, lost |-> graph'.lost,
            frozen |-> graph'.frozen, ticked |-> graph'.ticked, turns |-> graph'.turns]
    BY <2>1 DEF GraphRecord
  <2>3. graph'.age \in Int /\ graph'.tracked \in GraphP /\ graph'.turns \in Int /\ graph'.tracked = h.tracked
    BY <2>1 DEF GraphRecord
  <2>4. /\ graph'.switch \in BOOLEAN /\ graph'.odom \in BOOLEAN /\ graph'.jumped \in BOOLEAN /\ graph'.lost \in BOOLEAN
        /\ graph'.frozen \in BOOLEAN /\ graph'.ticked \in BOOLEAN
    BY <2>1 DEF GraphRecord
  <2>5. ~graph'.ticked
    BY <2>1 DEF GraphRecord
  <2> QED BY <2>2, <2>3, <2>4, <2>5, Zenon DEF GraphAlike
<1> QED BY <1>10, <1>11, GraphAlikeGood DEF GraphStepKeeps, GraphRidden, Inked

LEMMA GraphInksKeeps ==
  ASSUME GraphGood(graph), GraphInks
  PROVE  GraphStepKeeps(graph, graph')
<1>1. PICK touched \in BOOLEAN : graph' = [GraphIntegrate(graph, touched) EXCEPT !.ticked = FALSE]
  BY DEF GraphInks
<1>2. PICK g : g = GraphIntegrate(graph, touched)
  OBVIOUS
<1>3. GraphGood(g) /\ Len(g.maps) = Len(graph.maps) /\ g \in GraphRecord
  BY <1>2, GraphIntegrateKeeps DEF GraphGood
<1>4. GraphStepKeeps(g, graph')
  <2>0. graph' = [g EXCEPT !.ticked = FALSE]
    BY <1>1, <1>2
  <2>1. graph' = [maps |-> g.maps, age |-> graph'.age, switch |-> graph'.switch, nodes |-> g.nodes, edges |-> g.edges,
            edgeIn |-> g.edgeIn, tracked |-> graph'.tracked, odom |-> graph'.odom, jumped |-> graph'.jumped, lost |-> graph'.lost,
            frozen |-> graph'.frozen, ticked |-> graph'.ticked, turns |-> graph'.turns]
    BY <1>3, <2>0 DEF GraphRecord
  <2>2. graph'.age \in Int /\ graph'.tracked \in GraphP /\ graph'.turns \in Int /\ ~graph'.ticked
    BY <1>3, <2>0 DEF GraphRecord
  <2>3. /\ graph'.switch \in BOOLEAN /\ graph'.odom \in BOOLEAN /\ graph'.jumped \in BOOLEAN /\ graph'.lost \in BOOLEAN
        /\ graph'.frozen \in BOOLEAN /\ graph'.ticked \in BOOLEAN
    BY <1>3, <2>0 DEF GraphRecord
  <2>4. GraphAlike(g, graph')
    BY <2>1, <2>2, <2>3, Zenon DEF GraphAlike
  <2> QED BY <1>3, <2>2, <2>4, GraphAlikeKeeps
<1>5. Len(graph'.maps) = Len(graph.maps) /\ Len(graph.maps) \in Nat
  <2>1. graph'.maps = g.maps
    BY <1>1, <1>2, <1>3 DEF GraphRecord
  <2> QED BY <1>3, <2>1, GraphFields
<1> QED BY <1>4, <1>5 DEF GraphStepKeeps, GraphRidden

LEMMA GraphCorrectsKeeps ==
  ASSUME GraphGood(graph), GraphCorrects
  PROVE  GraphStepKeeps(graph, graph')
<1>1. PICK delta \in GraphDeltas, cut \in BOOLEAN :
        graph' = [GraphSet(graph, GraphCompose(graph.tracked, delta)) EXCEPT
                    !.switch = @ \/ cut, !.ticked = FALSE, !.turns = @ - 1]
  BY DEF GraphCorrects
<1>2. GraphCompose(graph.tracked, delta) \in GraphP
  <2>1. delta \in GraphP
    BY DEF GraphDeltas, GraphP
  <2>2. graph.tracked \in GraphP
    BY GraphFields DEF GraphGood
  <2> QED BY <2>1, <2>2, GraphPoseTypes
<1>3. PICK g : g = GraphSet(graph, GraphCompose(graph.tracked, delta))
  OBVIOUS
<1>4. GraphAlike(graph, g)
  BY <1>2, <1>3, GraphSetKeeps
<1>5. GraphGood(g) /\ g \in GraphRecord /\ g.maps = graph.maps
  BY <1>4, GraphAlikeGood DEF GraphGood
<1>6. GraphStepKeeps(g, graph')
  <2>a. PICK switch \in BOOLEAN : switch = (g.switch \/ cut)
    BY Zenon
  <2>0. graph' = [g EXCEPT !.switch = switch, !.ticked = FALSE, !.turns = g.turns - 1]
    BY <1>1, <1>3, <2>a
  <2>1. graph' = [maps |-> g.maps, age |-> graph'.age, switch |-> graph'.switch, nodes |-> g.nodes, edges |-> g.edges,
            edgeIn |-> g.edgeIn, tracked |-> graph'.tracked, odom |-> graph'.odom, jumped |-> graph'.jumped, lost |-> graph'.lost,
            frozen |-> graph'.frozen, ticked |-> graph'.ticked, turns |-> graph'.turns]
    BY <1>5, <2>0 DEF GraphRecord
  <2>2. graph'.age \in Int /\ graph'.tracked \in GraphP /\ graph'.turns \in Int /\ ~graph'.ticked
    BY <1>5, <2>0 DEF GraphRecord
  <2>3. /\ graph'.switch \in BOOLEAN /\ graph'.odom \in BOOLEAN /\ graph'.jumped \in BOOLEAN /\ graph'.lost \in BOOLEAN
        /\ graph'.frozen \in BOOLEAN /\ graph'.ticked \in BOOLEAN
    BY <1>5, <2>0 DEF GraphRecord
  <2>4. GraphAlike(g, graph')
    BY <2>1, <2>2, <2>3, Zenon DEF GraphAlike
  <2> QED BY <1>5, <2>2, <2>4, GraphAlikeKeeps
<1>7. Len(graph'.maps) = Len(graph.maps) /\ Len(graph.maps) \in Nat
  <2>1. graph'.maps = g.maps
    BY <1>1, <1>3, <1>5 DEF GraphRecord
  <2> QED BY <1>5, <2>1, GraphFields
<1> QED BY <1>6, <1>7 DEF GraphStepKeeps, GraphRidden

LEMMA GraphLosesKeeps ==
  ASSUME GraphGood(graph), GraphLoses
  PROVE  GraphStepKeeps(graph, graph')
<1>1. graph \in GraphRecord
  BY DEF GraphGood
<1>2. graph' = [graph EXCEPT !.lost = TRUE, !.ticked = FALSE, !.turns = graph.turns - 1]
  BY DEF GraphLoses
<1>3. graph' = [maps |-> graph.maps, age |-> graph'.age, switch |-> graph'.switch, nodes |-> graph.nodes, edges |-> graph.edges,
            edgeIn |-> graph.edgeIn, tracked |-> graph'.tracked, odom |-> graph'.odom, jumped |-> graph'.jumped, lost |-> graph'.lost,
            frozen |-> graph'.frozen, ticked |-> graph'.ticked, turns |-> graph'.turns]
  BY <1>1, <1>2 DEF GraphRecord
<1>4. graph'.age \in Int /\ graph'.tracked \in GraphP /\ graph'.turns \in Int /\ ~graph'.ticked
  BY <1>1, <1>2 DEF GraphRecord
<1>5. /\ graph'.switch \in BOOLEAN /\ graph'.odom \in BOOLEAN /\ graph'.jumped \in BOOLEAN /\ graph'.lost \in BOOLEAN
      /\ graph'.frozen \in BOOLEAN /\ graph'.ticked \in BOOLEAN
  BY <1>1, <1>2 DEF GraphRecord
<1>6. GraphAlike(graph, graph')
  BY <1>3, <1>4, <1>5, Zenon DEF GraphAlike
<1> QED BY <1>4, <1>6, GraphAlikeKeeps

LEMMA GraphFreezesKeeps ==
  ASSUME GraphGood(graph), GraphFreezes
  PROVE  GraphStepKeeps(graph, graph')
<1>0. PICK frozen \in BOOLEAN : frozen = ~graph.frozen
  BY Zenon
<1>1. graph \in GraphRecord
  BY DEF GraphGood
<1>2. graph' = [graph EXCEPT !.frozen = frozen, !.ticked = FALSE, !.turns = graph.turns - 1]
  BY <1>0 DEF GraphFreezes
<1>3. graph' = [maps |-> graph.maps, age |-> graph'.age, switch |-> graph'.switch, nodes |-> graph.nodes, edges |-> graph.edges,
            edgeIn |-> graph.edgeIn, tracked |-> graph'.tracked, odom |-> graph'.odom, jumped |-> graph'.jumped, lost |-> graph'.lost,
            frozen |-> graph'.frozen, ticked |-> graph'.ticked, turns |-> graph'.turns]
  BY <1>1, <1>2 DEF GraphRecord
<1>4. graph'.age \in Int /\ graph'.tracked \in GraphP /\ graph'.turns \in Int /\ ~graph'.ticked
  BY <1>1, <1>2 DEF GraphRecord
<1>5. /\ graph'.switch \in BOOLEAN /\ graph'.odom \in BOOLEAN /\ graph'.jumped \in BOOLEAN /\ graph'.lost \in BOOLEAN
      /\ graph'.frozen \in BOOLEAN /\ graph'.ticked \in BOOLEAN
  BY <1>1, <1>2 DEF GraphRecord
<1>6. GraphAlike(graph, graph')
  BY <1>3, <1>4, <1>5, Zenon DEF GraphAlike
<1> QED BY <1>4, <1>6, GraphAlikeKeeps

LEMMA GraphRestartsKeeps ==
  ASSUME GraphGood(graph), GraphRestarts
  PROVE  GraphStepKeeps(graph, graph')
<1>1. PICK lost \in BOOLEAN :
        graph' = [graph EXCEPT !.age = NoAge, !.switch = FALSE, !.odom = FALSE, !.jumped = FALSE, !.lost = lost,
                               !.ticked = FALSE, !.turns = graph.turns - 1, !.edgeIn = GraphEdgeAgain(graph)]
  BY DEF GraphRestarts
<1>2. GraphEdgeAgain(graph) = graph.edgeIn /\ graph \in GraphRecord
  BY GraphEdgeIsFound DEF GraphGood
<1>3. PICK g : g = [graph EXCEPT !.odom = FALSE, !.lost = lost, !.ticked = FALSE, !.turns = graph.turns - 1]
  OBVIOUS
<1>4. GraphAlike(graph, g) /\ g \in GraphRecord /\ GraphGood(g)
  <2>1. g = [maps |-> graph.maps, age |-> g.age, switch |-> g.switch, nodes |-> graph.nodes, edges |-> graph.edges,
            edgeIn |-> graph.edgeIn, tracked |-> g.tracked, odom |-> g.odom, jumped |-> g.jumped, lost |-> g.lost,
            frozen |-> g.frozen, ticked |-> g.ticked, turns |-> g.turns]
    BY <1>2, <1>3 DEF GraphRecord
  <2>2. g.age \in Int /\ g.tracked \in GraphP /\ g.turns \in Int /\ ~g.ticked
    BY <1>2, <1>3 DEF GraphRecord
  <2>3. /\ g.switch \in BOOLEAN /\ g.odom \in BOOLEAN /\ g.jumped \in BOOLEAN /\ g.lost \in BOOLEAN
        /\ g.frozen \in BOOLEAN /\ g.ticked \in BOOLEAN
    BY <1>2, <1>3 DEF GraphRecord
  <2>4. GraphAlike(graph, g)
    BY <2>1, <2>2, <2>3, Zenon DEF GraphAlike
  <2> QED BY <2>4, GraphAlikeGood DEF GraphGood
<1>5. graph' = [g EXCEPT !.age = -1, !.switch = FALSE, !.jumped = FALSE]
  BY <1>1, <1>2, <1>3 DEF GraphRecord, NoAge
<1>6. GraphStepKeeps(g, graph')
  <2>0. ~g.ticked
    BY <1>2, <1>3 DEF GraphRecord
  <2>1. graph' = [maps |-> g.maps, age |-> graph'.age, switch |-> graph'.switch, nodes |-> g.nodes, edges |-> g.edges,
            edgeIn |-> g.edgeIn, tracked |-> graph'.tracked, odom |-> graph'.odom, jumped |-> graph'.jumped, lost |-> graph'.lost,
            frozen |-> graph'.frozen, ticked |-> graph'.ticked, turns |-> graph'.turns]
    BY <1>4, <1>5, <2>0 DEF GraphRecord
  <2>2. graph'.age \in Int /\ graph'.tracked \in GraphP /\ graph'.turns \in Int /\ ~graph'.ticked
    BY <1>4, <1>5, <2>0 DEF GraphRecord
  <2>3. /\ graph'.switch \in BOOLEAN /\ graph'.odom \in BOOLEAN /\ graph'.jumped \in BOOLEAN /\ graph'.lost \in BOOLEAN
        /\ graph'.frozen \in BOOLEAN /\ graph'.ticked \in BOOLEAN
    BY <1>4, <1>5, <2>0 DEF GraphRecord
  <2>4. GraphAlike(g, graph')
    BY <2>1, <2>2, <2>3, Zenon DEF GraphAlike
  <2> QED BY <1>4, <2>2, <2>4, GraphAlikeKeeps
<1>7. Len(graph'.maps) = Len(graph.maps) /\ Len(graph.maps) \in Nat
  BY <1>1, <1>2, GraphFields DEF GraphRecord
<1> QED BY <1>6, <1>7 DEF GraphStepKeeps, GraphRidden

LEMMA GraphStarts ==
  ASSUME GraphInit
  PROVE  GraphInv
<1>1. graph = [maps |-> <<>>, age |-> -1, switch |-> FALSE, nodes |-> <<>>, edges |-> <<>>, edgeIn |-> 0,
               tracked |-> [x |-> 0, faces |-> 1], odom |-> FALSE, jumped |-> FALSE, lost |-> FALSE,
               frozen |-> FALSE, ticked |-> FALSE, turns |-> GraphTurns]
  BY DEF GraphInit, GraphBlank, GraphHere, NoAge
<1>2. /\ <<>> \in Seq(GraphM) /\ <<>> \in Seq(GraphP) /\ <<>> \in Seq(GraphE) /\ -1 \in Int /\ 0 \in Nat
      /\ FALSE \in BOOLEAN
  OBVIOUS
<1>3. [x |-> 0, faces |-> 1] \in GraphP /\ GraphTurns \in Int
  BY GraphAssumption DEF GraphP, GraphAssumption
<1>4. graph \in GraphRecord
  <2>1. [maps |-> <<>>, age |-> -1, switch |-> FALSE, nodes |-> <<>>, edges |-> <<>>, edgeIn |-> 0,
         tracked |-> [x |-> 0, faces |-> 1], odom |-> FALSE, jumped |-> FALSE, lost |-> FALSE,
         frozen |-> FALSE, ticked |-> FALSE, turns |-> GraphTurns] \in GraphRecord
    BY <1>2, <1>3, Zenon DEF GraphRecord
  <2> QED BY <1>1, <2>1
<1>5. GraphLaid(<<>>, <<>>, <<>>, 0)
  BY DEF GraphLaid
<1> QED BY <1>1, <1>4, <1>5 DEF GraphInv, GraphGood, GraphInTime

LEMMA GraphStep ==
  ASSUME GraphInv, GraphNext
  PROVE  GraphInv' /\ GraphRidden(graph, graph')
<1>1. GraphGood(graph)
  BY DEF GraphInv
<1>2. GraphStepKeeps(graph, graph')
  BY <1>1, GraphObserveKeeps, GraphInksKeeps, GraphCorrectsKeeps, GraphLosesKeeps, GraphResumesKeeps,
     GraphFreezesKeeps, GraphRestartsKeeps DEF GraphNext
<1> QED BY <1>2 DEF GraphStepKeeps, GraphInv, GraphInTime, GraphKept

LEMMA GraphInvHolds == GraphSpec => []GraphInv
<1>1. GraphInv /\ UNCHANGED graph => GraphInv'
  BY DEF GraphInv, GraphInTime
<1> QED BY <1>1, GraphStarts, GraphStep, PTL DEF GraphSpec

(* Every submap lies where its node says, none frozen is empty, one edge     *)
(* leads into the submap that is inked, the edges agree with the nodes until *)
(* the first closure, and a submap is closed in time: `Slam` keeps its map   *)
(* and its graph one, however the mapper drives it.                          *)
THEOREM GraphIsTrue == GraphSpec => []GraphTrue
<1>1. GraphInv => GraphTrue
  <2> SUFFICES ASSUME GraphInv PROVE GraphTrue
    OBVIOUS
  <2>1. /\ graph \in GraphRecord /\ GraphLaid(graph.maps, graph.nodes, graph.edges, graph.edgeIn)
        /\ DOMAIN graph.nodes = 1 .. Len(graph.nodes) /\ DOMAIN graph.edges = 1 .. Len(graph.edges)
    BY GraphFields DEF GraphInv, GraphGood
  <2>2. GraphAnchored
    BY <2>1 DEF GraphAnchored, GraphLaid
  <2>3. GraphAgrees
    BY <2>1 DEF GraphAgrees, GraphLaid
  <2> QED BY <2>2, <2>3 DEF GraphTrue, GraphInv
<1> QED BY <1>1, GraphInvHolds, PTL

(* A submap opens where the body is, whatever closures come of the one it    *)
(* closes, and opened by a jump it stays where the search put the body.      *)
THEOREM GraphRidesOn == GraphSpec => GraphRides
<1>1. GraphInv /\ [GraphNext]_graph =>
        [LET n == Len(graph.maps)
             e == graph'.edges[graph'.edgeIn]
         IN n > 0 /\ Len(graph'.maps) > n =>
              /\ graph'.tracked = Inked(graph').anchor
              /\ e.known = "search" => graph'.tracked = GraphCompose(graph.nodes[n], e.says)]_graph
  BY GraphStep DEF GraphRidden
<1> QED BY <1>1, GraphInvHolds, PTL DEF GraphSpec, GraphRides

------------------------------------------------------------------------------
(* What is read off a frame's grid.                                          *)

(* What the constants are.                                                   *)
LEMMA ViewSizes ==
  /\ ViewRows \in Nat /\ ViewRows > 0 /\ ViewCols \in Nat /\ ViewCols > 0 /\ ViewRadius \in Nat /\ ViewClear \in Nat
  /\ ViewLens \subseteq Nat /\ ViewHalves \subseteq Nat /\ ViewStands \subseteq ViewCells /\ ViewStands # {}
  /\ ViewHidden \subseteq ViewCells /\ ViewLeft \subseteq ViewCells /\ ViewBanded \subseteq ViewCells
BY ViewAssumption

(* The cells' numbers, row by row.                                           *)
LEMMA ViewRowsCols ==
  /\ \A c \in ViewCells : /\ ViewRow(c) \in 0..(ViewRows - 1) /\ ViewCol(c) \in 0..(ViewCols - 1)
                          /\ ViewAtRC(ViewRow(c), ViewCol(c)) = c
  /\ \A i \in 0..(ViewRows - 1), j \in 0..(ViewCols - 1) :
       LET c == ViewAtRC(i, j) IN c \in ViewCells /\ ViewRow(c) = i /\ ViewCol(c) = j
  /\ \A i \in Int, j \in Int : i \notin 0..(ViewRows - 1) \/ j \notin 0..(ViewCols - 1) => ViewAtRC(i, j) = ViewOff
  /\ ViewOff \notin ViewCells /\ ViewCells \subseteq Nat
<1> DEFINE N == ViewCols
           M == ViewRows
<1>1. N \in Nat /\ N > 0 /\ M \in Nat /\ M > 0
  BY ViewSizes
<1>2. ViewCells = 0..(M * N - 1) /\ M * N \in Nat
  BY <1>1 DEF ViewCells
<1>3. \A c : ViewRow(c) = c \div N /\ ViewCol(c) = c % N
  BY DEF ViewRow, ViewCol
<1>4. \A i, j : ViewAtRC(i, j) = IF i \in 0..(M - 1) /\ j \in 0..(N - 1) THEN i * N + j ELSE ViewOff
  BY DEF ViewAtRC
<1> HIDE DEF N, M
<1>5. ASSUME NEW a \in Int, NEW b \in Int, a * N < b * N PROVE a < b
  <2>1. a < b <=> a * N < b * N
    BY <1>1, ScanTimes
  <2> QED BY <1>5, <2>1
<1>6. ASSUME NEW i \in Int, NEW j \in Int, NEW k \in Int, NEW l \in 0..(N - 1), j \in 0..(N - 1), i * N + j = k * N + l
      PROVE  i = k /\ j = l
  <2> DEFINE iN == i * N
             kN == k * N
  <2>1. iN \in Int /\ kN \in Int /\ (i + 1) * N = iN + N /\ (k + 1) * N = kN + N
    BY <1>1
  <2>2. iN < kN + N /\ kN < iN + N
    <3> HIDE DEF iN, kN
    <3> QED BY <1>1, <1>6, <2>1 DEF iN, kN
  <2>3. i < k + 1 /\ k < i + 1
    BY <1>5, <2>1, <2>2
  <2> QED BY <1>1, <1>6, <2>3
<1>7. ASSUME NEW c \in 0..(M * N - 1)
      PROVE  /\ c \in Nat /\ c \div N \in 0..(M - 1) /\ c % N \in 0..(N - 1) /\ (c \div N) * N + (c % N) = c
  <2> DEFINE d == c \div N
             r == c % N
  <2>1. c \in Nat
    BY <1>2
  <2>2. d \in Int /\ r \in 0..(N - 1) /\ c = N * d + r
    BY <1>1, <2>1
  <2> HIDE DEF d, r
  <2>3. c = d * N + r /\ d * N \in Int /\ c < M * N
    BY <1>1, <1>2, <2>1, <2>2
  <2>4. d * N < M * N
    BY <1>1, <1>2, <2>2, <2>3
  <2>5. d < M
    BY <1>1, <1>5, <2>2, <2>4
  <2>6. (-1) * N < (d + 1) * N - N
    <3>1. (d + 1) * N = d * N + N /\ (-1) * N = -N
      BY <1>1, <2>2
    <3> QED BY <1>1, <2>1, <2>2, <2>3, <3>1
  <2>7. -1 < d
    <3>1. (d + 1) * N - N = d * N
      BY <1>1, <2>2
    <3> QED BY <1>5, <2>2, <2>6, <3>1
  <2>8. d \in 0..(M - 1)
    BY <1>1, <2>2, <2>5, <2>7
  <2>9. c \in Nat /\ d \in 0..(M - 1) /\ r \in 0..(N - 1) /\ d * N + r = c
    BY <2>1, <2>2, <2>3, <2>8
  <2> QED BY <2>9 DEF d, r
<1>8. ASSUME NEW i \in 0..(M - 1), NEW j \in 0..(N - 1)
      PROVE  i * N + j \in 0..(M * N - 1) /\ (i * N + j) \div N = i /\ (i * N + j) % N = j
  <2> DEFINE c == i * N + j
  <2>1. i + 1 <= M /\ i \in Nat /\ i + 1 \in Int
    BY <1>1
  <2>2. (i + 1) * N <= M * N
    BY <1>1, <2>1, ScanTimes
  <2>3. (i + 1) * N = i * N + N /\ i * N \in Nat
    BY <1>1, <2>1
  <2>4. c \in 0..(M * N - 1)
    BY <1>1, <1>2, <2>2, <2>3
  <2>5. (c \div N) * N + (c % N) = c /\ c % N \in 0..(N - 1) /\ c \div N \in 0..(M - 1)
    <3> HIDE DEF c
    <3> QED BY <1>7, <2>4
  <2>6. c \div N = i /\ c % N = j
    <3> DEFINE d == c \div N
               r == c % N
    <3>1. i * N + j = d * N + r /\ d \in Int /\ r \in 0..(N - 1) /\ i \in Int /\ j \in Int
      BY <1>1, <2>5
    <3> HIDE DEF d, r
    <3>2. i = d /\ j = r
      BY <1>6, <3>1
    <3> QED BY <3>2 DEF d, r
  <2> QED BY <2>4, <2>6
<1>9. \A c \in ViewCells : /\ ViewRow(c) \in 0..(M - 1) /\ ViewCol(c) \in 0..(N - 1)
                          /\ ViewAtRC(ViewRow(c), ViewCol(c)) = c
  BY <1>2, <1>3, <1>4, <1>7
<1>10. \A i \in 0..(M - 1), j \in 0..(N - 1) :
         ViewAtRC(i, j) \in ViewCells /\ ViewRow(ViewAtRC(i, j)) = i /\ ViewCol(ViewAtRC(i, j)) = j
  BY <1>2, <1>3, <1>4, <1>8
<1>11. \A i \in Int, j \in Int : i \notin 0..(M - 1) \/ j \notin 0..(N - 1) => ViewAtRC(i, j) = ViewOff
  BY <1>4
<1>12. ViewOff \notin ViewCells /\ ViewCells \subseteq Nat
  BY <1>2 DEF ViewOff
<1> QED BY <1>9, <1>10, <1>11, <1>12 DEF M, N

(* There are finitely many cells.                                            *)
LEMMA ViewCellsFinite == IsFiniteSet(ViewCells)
<1>1. ViewRows * ViewCols - 1 \in Int /\ 0 \in Int
  BY ViewSizes
<1> QED BY <1>1, FS_Interval DEF ViewCells

(* The greatest of two.                                                      *)
LEMMA ViewMaxOfTwo == ASSUME NEW a \in Int, NEW b \in Int PROVE Max({a, b}) = IF a >= b THEN a ELSE b
<1>1. CASE a >= b
  BY <1>1 DEF Max
<1>2. CASE ~(a >= b)
  BY <1>2 DEF Max
<1> QED BY <1>1, <1>2

(* A lane's rails lie no further than ten apart, over its whole width.       *)
LEMMA ViewRailsAre ==
  ASSUME NEW half \in Nat
  PROVE  /\ ViewRails(half) \subseteq Int
         /\ \A b \in (-5 * half)..(5 * half) : \E o \in ViewRails(half) : o \in Int /\ 5 * o - b \in -25..25
<1> DEFINE n == Max({2, (2 * half + 9) \div 10})
           q(i) == (2 * half * i) \div n
<1>1. n \in Nat /\ n >= 2 /\ 2 * half <= 10 * n
  <2>1. (2 * half + 9) \div 10 \in Int /\ 2 * half <= 10 * ((2 * half + 9) \div 10)
    OBVIOUS
  <2>2. n = IF 2 >= (2 * half + 9) \div 10 THEN 2 ELSE (2 * half + 9) \div 10
    BY <2>1, ViewMaxOfTwo
  <2> HIDE DEF n
  <2> QED BY <2>1, <2>2
<1>2. ViewRails(half) = {q(i) - half : i \in 0..n}
  BY DEF ViewRails
<1> HIDE DEF n
<1>3. ASSUME NEW i \in 0..n
      PROVE  /\ q(i) \in Int /\ n * q(i) \in Int /\ 2 * half * i \in Int
             /\ n * q(i) <= 2 * half * i /\ 2 * half * i < n * q(i) + n
             /\ \A k \in Int : (n * k <= 2 * half * i => k <= q(i)) /\ (2 * half * i < n * k => q(i) < k)
  <2>1. 2 * half * i \in Int /\ n > 0
    BY <1>1
  <2> QED BY <1>1, <2>1, RouteDivides
<1>4. q(0) = 0
  <2>1. 2 * half * 0 = 0 /\ n * 0 = 0 /\ n * 1 = n /\ 0 \in 0..n
    BY <1>1
  <2>2. 0 <= q(0) /\ q(0) < 1 /\ q(0) \in Int
    BY <1>1, <1>3, <2>1
  <2> QED BY <2>2
<1>5. q(n) = 2 * half
  <2> DEFINE h == 2 * half
             v == q(n)
             hn == 2 * half * n
             k == h + 1
  <2>1. n \in 0..n /\ h \in Int /\ k \in Int /\ k = h + 1
    BY <1>1
  <2>2. hn \in Int /\ n * h = hn /\ n * k = hn + n
    BY <1>1
  <2>3. /\ v \in Int
        /\ \A x \in Int : (n * x <= hn => x <= v) /\ (hn < n * x => v < x)
    BY <1>3, <2>1
  <2> HIDE DEF h, v, hn, k
  <2>4. h <= v
    BY <2>1, <2>2, <2>3
  <2>5. v < k
    BY <1>1, <2>1, <2>2, <2>3
  <2>6. v = h
    BY <2>1, <2>3, <2>4, <2>5
  <2> QED BY <2>6 DEF v, h
<1>6. ASSUME NEW i \in 1..n PROVE q(i) <= q(i - 1) + 10
  <2> DEFINE a == 2 * half * (i - 1)
             c == q(i - 1)
             m == n * c
             e == c + 11
  <2>1. i \in 0..n /\ i - 1 \in 0..n
    BY <1>1
  <2>2. a \in Int /\ 2 * half * i = a + 2 * half
    BY <1>1
  <2>3. c \in Int /\ m \in Int /\ a < m + n
    BY <1>3, <2>1
  <2>4. n * e = m + 11 * n /\ e \in Int
    BY <1>1, <2>3
  <2> HIDE DEF m, a, c
  <2>5. a + 2 * half < m + 11 * n
    BY <1>1, <2>2, <2>3
  <2>6. 2 * half * i < n * e
    BY <2>2, <2>4, <2>5
  <2> HIDE DEF e
  <2>7. q(i) < e
    BY <1>3, <2>1, <2>4, <2>6
  <2>8. q(i) \in Int
    BY <1>3, <2>1
  <2> QED BY <2>3, <2>7, <2>8 DEF e, c
<1>7. \A i \in 0..n : q(i) \in Int
  BY <1>3
<1> HIDE DEF q
<1>8. ViewRails(half) \subseteq Int
  BY <1>2, <1>7
<1>9. ASSUME NEW b \in (-5 * half)..(5 * half) PROVE \E o \in ViewRails(half) : o \in Int /\ 5 * o - b \in -25..25
  <2> DEFINE above(i) == 5 * (q(i) - half) >= b
             B == {i \in 0..n : above(i)}
             m == Min(B)
  <2>1. n \in B
    BY <1>1, <1>5
  <2>2. m \in B /\ \A j \in B : m <= j
    <3>1. B \subseteq Nat
      BY <1>1
    <3> HIDE DEF B
    <3> QED BY <2>1, <3>1, LeastNatural
  <2> HIDE DEF m
  <2>3. CASE m = 0
    <3>1. 5 * (q(0) - half) - b \in -25..25
      BY <1>4, <2>2, <2>3
    <3>2. q(0) - half \in ViewRails(half)
      BY <1>1, <1>2
    <3> QED BY <1>8, <3>1, <3>2
  <2>4. CASE m # 0
    <3>1. m \in 1..n /\ m - 1 \in 0..n /\ m \in 0..n /\ m - 1 \notin B
      BY <1>1, <2>2, <2>4
    <3>2. q(m) <= q(m - 1) + 10 /\ q(m) \in Int /\ q(m - 1) \in Int
      BY <1>6, <1>7, <3>1
    <3>3. 5 * (q(m) - half) >= b /\ ~(5 * (q(m - 1) - half) >= b)
      BY <2>2, <3>1
    <3>4. q(m) - half \in ViewRails(half) /\ q(m - 1) - half \in ViewRails(half)
      BY <1>2, <3>1
    <3>5. CASE 5 * (q(m) - half) - b <= 25
      <4>1. 5 * (q(m) - half) - b \in -25..25
        BY <3>2, <3>3, <3>5
      <4> QED BY <1>8, <3>4, <4>1
    <3>6. CASE ~(5 * (q(m) - half) - b <= 25)
      <4>1. 5 * (q(m - 1) - half) - b \in -25..25
        BY <3>2, <3>3, <3>6
      <4> QED BY <1>8, <3>4, <4>1
    <3> QED BY <3>5, <3>6
  <2> QED BY <2>3, <2>4
<1> QED BY <1>8, <1>9

(* The headings are of whole numbers, three-four-five or along an axis.      *)
LEMMA ViewHeadingIs ==
  ASSUME NEW h \in ViewHeadings
  PROVE  \E a, b \in Int : /\ h[1] = a /\ h[2] = b
                           /\ \/ (a = 5 /\ b = 0) \/ (a = 4 /\ b = 3) \/ (a = 3 /\ b = 4) \/ (a = 0 /\ b = 5)
                              \/ (a = -3 /\ b = 4) \/ (a = -5 /\ b = 0) \/ (a = 0 /\ b = -5) \/ (a = 4 /\ b = -3)
<1>1. \/ h = <<5, 0>> \/ h = <<4, 3>> \/ h = <<3, 4>> \/ h = <<0, 5>> \/ h = <<-3, 4>> \/ h = <<-5, 0>>
      \/ h = <<0, -5>> \/ h = <<4, -3>>
  BY DEF ViewHeadings
<1>2. h[1] \in Int /\ h[2] \in Int
  BY <1>1
<1>3. \/ (h[1] = 5 /\ h[2] = 0) \/ (h[1] = 4 /\ h[2] = 3) \/ (h[1] = 3 /\ h[2] = 4) \/ (h[1] = 0 /\ h[2] = 5)
      \/ (h[1] = -3 /\ h[2] = 4) \/ (h[1] = -5 /\ h[2] = 0) \/ (h[1] = 0 /\ h[2] = -5) \/ (h[1] = 4 /\ h[2] = -3)
  BY <1>1
<1> QED BY <1>2, <1>3

(* A wall cell that lies in a lane is met by one of its rails.               *)
LEMMA ViewLaneMeets ==
  ASSUME NEW h \in ViewHeadings, NEW p, p.x \in Int, p.y \in Int, NEW k \in ViewCells, NEW len \in Nat, NEW half \in Nat,
         ViewInLane(k, p, h, len, half)
  PROVE  \E d \in {d \in 0..len : d % 10 = 0}, o \in ViewRails(half) :
           /\ (p.x + (d * h[1] - o * h[2]) \div 5) \div 20 = ViewCol(k)
           /\ (p.y + (d * h[2] + o * h[1]) \div 5) \div 20 = ViewRow(k)
<1>1. PICK a \in Int, b \in Int :
        /\ h[1] = a /\ h[2] = b
        /\ \/ (a = 5 /\ b = 0) \/ (a = 4 /\ b = 3) \/ (a = 3 /\ b = 4) \/ (a = 0 /\ b = 5)
           \/ (a = -3 /\ b = 4) \/ (a = -5 /\ b = 0) \/ (a = 0 /\ b = -5) \/ (a = 4 /\ b = -3)
  BY ViewHeadingIs
<1> DEFINE x == 20 * ViewCol(k) + 10 - p.x
           y == 20 * ViewRow(k) + 10 - p.y
           A == x * a + y * b
           B == y * a - x * b
<1>2. ViewCol(k) \in Int /\ ViewRow(k) \in Int
  BY ViewRowsCols, ViewSizes
<1>3. x \in Int /\ y \in Int /\ A \in Int /\ B \in Int
  BY <1>1, <1>2
<1>4. \A i \in {-10, 10}, j \in {-10, 10} :
        /\ (x + i) * a + (y + j) * b \in 0..(5 * len)
        /\ (y + j) * a - (x + i) * b \in (-5 * half)..(5 * half)
  <2> SUFFICES ASSUME NEW i \in {-10, 10}, NEW j \in {-10, 10}
               PROVE  /\ (x + i) * a + (y + j) * b \in 0..(5 * len)
                      /\ (y + j) * a - (x + i) * b \in (-5 * half)..(5 * half)
    OBVIOUS
  <2> DEFINE X == x + i + p.x
             Y == y + j + p.y
  <2>1. X \in {20 * ViewCol(k), 20 * ViewCol(k) + 20} /\ Y \in {20 * ViewRow(k), 20 * ViewRow(k) + 20}
    BY <1>2
  <2>2. X - p.x = x + i /\ Y - p.y = y + j
    BY <1>3
  <2> HIDE DEF X, Y, x, y
  <2>3. (X - p.x) * a + (Y - p.y) * b \in 0..(5 * len) /\ (Y - p.y) * a - (X - p.x) * b \in (-5 * half)..(5 * half)
    BY <1>1, <2>1 DEF ViewInLane
  <2> QED BY <2>2, <2>3
<1>5. (x - 10) * a + (y - 10) * b = A - 10 * a - 10 * b /\ (x + 10) * a + (y + 10) * b = A + 10 * a + 10 * b
      /\ (x - 10) * a + (y + 10) * b = A - 10 * a + 10 * b /\ (x + 10) * a + (y - 10) * b = A + 10 * a - 10 * b
  <2> HIDE DEF x, y
  <2> QED BY <1>1, <1>3
<1>6. (y - 10) * a - (x - 10) * b = B - 10 * a + 10 * b /\ (y + 10) * a - (x + 10) * b = B + 10 * a - 10 * b
  <2> HIDE DEF x, y
  <2> QED BY <1>1, <1>3
<1>7. x + (-10) = x - 10 /\ y + (-10) = y - 10
  BY <1>3
<1>8. /\ (x - 10) * a + (y - 10) * b \in 0..(5 * len) /\ (x + 10) * a + (y + 10) * b \in 0..(5 * len)
      /\ (x - 10) * a + (y + 10) * b \in 0..(5 * len) /\ (x + 10) * a + (y - 10) * b \in 0..(5 * len)
      /\ (y - 10) * a - (x - 10) * b \in (-5 * half)..(5 * half) /\ (y + 10) * a - (x + 10) * b \in (-5 * half)..(5 * half)
  <2> HIDE DEF x, y
  <2> QED BY <1>4, <1>7
<1>10. 25 * x = A * a - B * b /\ 25 * y = A * b + B * a
  <2> HIDE DEF x, y
  <2>1. 25 * x = A * a - B * b /\ 25 * y = A * b + B * a
    BY <1>1, <1>3
  <2> HIDE DEF A, B
  <2> QED BY <1>1, <1>3, <2>1
<1> HIDE DEF x, y, A, B
<1>11. A >= 0 /\ A + 50 <= 5 * len /\ B \in (-5 * half)..(5 * half)
  BY <1>1, <1>3, <1>5, <1>6, <1>8
<1> DEFINE q == (A + 25) \div 50
           d == 10 * q
<1>12. q \in Int /\ 50 * q <= A + 25 /\ A + 25 < 50 * q + 50
  BY <1>3
<1> HIDE DEF q
<1>13. d \in {e \in 0..len : e % 10 = 0} /\ 5 * d - A \in -25..25 /\ d \in Int
  <2>1. q >= 0 /\ d \in Nat /\ d <= len /\ d % 10 = 0
    BY <1>3, <1>11, <1>12
  <2> QED BY <1>3, <1>12, <2>1
<1> HIDE DEF d
<1>14. PICK o \in ViewRails(half) : o \in Int /\ 5 * o - B \in -25..25
  BY <1>11, ViewRailsAre
<1> DEFINE u == d * a - o * b
           v == d * b + o * a
<1>15. u \in Int /\ v \in Int /\ u - 5 * x \in -35..35 /\ v - 5 * y \in -35..35
  <2> DEFINE D == 5 * d - A
             O == 5 * o - B
  <2>1. D \in -25..25 /\ O \in -25..25 /\ 5 * d = A + D /\ 5 * o = B + O
    BY <1>3, <1>13, <1>14
  <2>2. 5 * u = A * a + D * a - B * b - O * b /\ 5 * v = A * b + D * b + B * a + O * a
    BY <1>1, <1>3, <1>13, <1>14
  <2>3. u \in Int /\ v \in Int
    BY <1>1, <1>13, <1>14
  <2> HIDE DEF D, O, u, v
  <2>4. 5 * u - 25 * x = D * a - O * b /\ 5 * v - 25 * y = D * b + O * a
    BY <1>1, <1>3, <1>10, <2>1, <2>2, <2>3
  <2>5. D * a - O * b \in -175..175 /\ D * b + O * a \in -175..175
    BY <1>1, <2>1
  <2> QED BY <1>3, <2>3, <2>4, <2>5
<1>16. p.x = 20 * ViewCol(k) + 10 - x /\ p.y = 20 * ViewRow(k) + 10 - y
  BY <1>2 DEF x, y
<1> HIDE DEF u, v
<1>17. (p.x + u \div 5) \div 20 = ViewCol(k) /\ (p.y + v \div 5) \div 20 = ViewRow(k)
  <2>1. u \div 5 - x \in -7..7 /\ v \div 5 - y \in -7..7 /\ u \div 5 \in Int /\ v \div 5 \in Int
    BY <1>3, <1>15
  <2>2. p.x + u \div 5 - 20 * ViewCol(k) \in 3..17 /\ p.y + v \div 5 - 20 * ViewRow(k) \in 3..17
    BY <1>2, <1>3, <1>16, <2>1
  <2> QED BY <1>2, <2>1, <2>2
<1>18. (p.x + (d * h[1] - o * h[2]) \div 5) \div 20 = ViewCol(k) /\ (p.y + (d * h[2] + o * h[1]) \div 5) \div 20 = ViewRow(k)
  BY <1>1, <1>17 DEF u, v
<1> QED BY <1>13, <1>14, <1>18

(* A cell's row and column are numbers.                                      *)
LEMMA ViewSpot == ASSUME NEW c \in ViewCells PROVE ViewCol(c) \in Int /\ ViewRow(c) \in Int
BY ViewRowsCols, ViewSizes

(* What a cell of the grid may be.                                           *)
ViewInks3 == {"unknown", "free", "wall"}

(* A lane that is clear has no wall cell in it, and the ray down its middle  *)
(* ends at no wall.                                                          *)
LEMMA ViewLaneTrue ==
  ASSUME NEW cells \in [ViewCells -> ViewInks3], NEW h \in ViewHeadings, NEW p, p.x \in Int, p.y \in Int,
         NEW len \in Nat, NEW half \in Nat, ViewLaneClear(cells, p, h, len, half)
  PROVE  /\ \A k \in ViewCells : cells[k] = "wall" => ~ViewInLane(k, p, h, len, half)
         /\ 0 \in ViewRails(half) => ViewClearance(cells, p, h, len).by # "wall"
<1>1. ASSUME NEW d \in {d \in 0..len : d % 10 = 0}, NEW o \in ViewRails(half)
      PROVE  ViewAt(cells, p.x + (d * h[1] - o * h[2]) \div 5, p.y + (d * h[2] + o * h[1]) \div 5) # "wall"
  BY DEF ViewLaneClear
<1>2. ASSUME NEW k \in ViewCells, cells[k] = "wall", ViewInLane(k, p, h, len, half) PROVE FALSE
  <2>1. PICK d \in {d \in 0..len : d % 10 = 0}, o \in ViewRails(half) :
           /\ (p.x + (d * h[1] - o * h[2]) \div 5) \div 20 = ViewCol(k)
           /\ (p.y + (d * h[2] + o * h[1]) \div 5) \div 20 = ViewRow(k)
    BY <1>2, ViewLaneMeets
  <2>2. ViewAtRC(ViewRow(k), ViewCol(k)) = k /\ k # ViewOff
    BY ViewRowsCols
  <2> DEFINE x == p.x + (d * h[1] - o * h[2]) \div 5
             y == p.y + (d * h[2] + o * h[1]) \div 5
  <2>3. ViewAt(cells, x, y) # "wall" /\ x \div 20 = ViewCol(k) /\ y \div 20 = ViewRow(k)
    BY <1>1, <2>1
  <2> HIDE DEF x, y
  <2>4. ViewAt(cells, x, y) = cells[k]
    BY <2>2, <2>3 DEF ViewAt
  <2> QED BY <1>2, <2>3, <2>4
<1>3. ASSUME 0 \in ViewRails(half) PROVE ViewClearance(cells, p, h, len).by # "wall"
  <2> DEFINE on(d) == ViewAt(cells, p.x + (d * h[1]) \div 5, p.y + (d * h[2]) \div 5)
             ends == {d \in 20..len : d % 10 = 0 /\ on(d) # "free"}
  <2>1. ViewClearance(cells, p, h, len).by = IF ends = {} THEN "open" ELSE on(Min(ends))
    BY DEF ViewClearance
  <2>2. ASSUME NEW d \in ends PROVE on(d) # "wall"
    <3>1. PICK a \in Int, b \in Int : h[1] = a /\ h[2] = b
      BY ViewHeadingIs
    <3>2. d \in {e \in 0..len : e % 10 = 0} /\ d \in Int
      OBVIOUS
    <3>3. d * a - 0 * b = d * a /\ d * b + 0 * a = d * b
      BY <3>1, <3>2
    <3>4. ViewAt(cells, p.x + (d * a - 0 * b) \div 5, p.y + (d * b + 0 * a) \div 5) # "wall"
      BY <1>1, <1>3, <3>1, <3>2
    <3> QED BY <3>1, <3>3, <3>4
  <2>3. ends # {} => Min(ends) \in ends
    <3>1. ends \subseteq Nat
      OBVIOUS
    <3> HIDE DEF ends
    <3> QED BY <3>1, LeastNatural
  <2> HIDE DEF on, ends
  <2> QED BY <2>1, <2>2, <2>3
<1> QED BY <1>2, <1>3

(* What the grid is read as, and that the band's walls round the duck are    *)
(* left out of it.                                                           *)
LEMMA ViewReadIs ==
  ASSUME ViewTypeOK
  PROVE  /\ ViewRead(view) \in [ViewCells -> ViewInks3] /\ view.cells \in [ViewCells -> ViewInks3]
         /\ view.at \in ViewCells /\ ViewMid(view.at).x \in Int /\ ViewMid(view.at).y \in Int
         /\ \A k \in ViewCells : ViewNear(view, k) => ViewRead(view)[k] = view.cells[k]
<1>1. view.cells \in [ViewCells -> ViewInks3] /\ view.at \in ViewCells
  BY DEF ViewTypeOK, ViewInks3
<1>2. ViewMid(view.at).x \in Int /\ ViewMid(view.at).y \in Int
  <2>1. ViewCol(view.at) \in Int /\ ViewRow(view.at) \in Int
    BY <1>1, ViewSpot
  <2> QED BY <2>1 DEF ViewMid
<1>3. ViewRead(view) = [k \in ViewCells |-> IF k \in view.band /\ ~ViewNear(view, k) THEN "wall" ELSE view.cells[k]]
  BY DEF ViewRead
<1>4. ViewRead(view) \in [ViewCells -> ViewInks3]
  <2>1. "wall" \in ViewInks3
    BY DEF ViewInks3
  <2> QED BY <1>1, <1>3, <2>1
<1> QED BY <1>1, <1>2, <1>3, <1>4

(* A clear lane of the view has no wall in it, nor the ray down its middle.  *)
LEMMA ViewLanesAre == ASSUME ViewTypeOK PROVE ViewLanesTrue
<1>1. ViewRead(view) \in [ViewCells -> ViewInks3] /\ ViewMid(view.at).x \in Int /\ ViewMid(view.at).y \in Int
  BY ViewReadIs
<1>2. ASSUME NEW h \in ViewHeadings, NEW len \in ViewLens, NEW half \in ViewHalves,
             ViewLaneClear(ViewRead(view), ViewMid(view.at), h, len, half)
      PROVE  /\ \A k \in ViewCells : ViewRead(view)[k] = "wall" => ~ViewInLane(k, ViewMid(view.at), h, len, half)
             /\ 0 \in ViewRails(half) => ViewClearance(ViewRead(view), ViewMid(view.at), h, len).by # "wall"
  <2>1. len \in Nat /\ half \in Nat
    BY ViewSizes
  <2> QED BY <1>1, <1>2, <2>1, ViewLaneTrue
<1> QED BY <1>2 DEF ViewLanesTrue

(* The first step stays among the cells round the duck's.                    *)
LEMMA ViewStepNear ==
  ASSUME ViewTypeOK, NEW h \in ViewHeadings, NEW d \in 0..10, d % 10 = 0, NEW o \in ViewRails(10)
  PROVE  LET x == ViewMid(view.at).x + (d * h[1] - o * h[2]) \div 5
             y == ViewMid(view.at).y + (d * h[2] + o * h[1]) \div 5
         IN ViewAt(ViewRead(view), x, y) = ViewAt(view.cells, x, y)
<1>1. PICK a \in Int, b \in Int :
        /\ h[1] = a /\ h[2] = b
        /\ \/ (a = 5 /\ b = 0) \/ (a = 4 /\ b = 3) \/ (a = 3 /\ b = 4) \/ (a = 0 /\ b = 5)
         \/ (a = -3 /\ b = 4) \/ (a = -5 /\ b = 0) \/ (a = 0 /\ b = -5) \/ (a = 4 /\ b = -3)
  BY ViewHeadingIs
<1>2. o \in {-10, 0, 10}
  <2>1. PICK i \in 0..2 : o = (2 * 10 * i) \div 2 - 10
    <3>1. (2 * 10 + 9) \div 10 = 2
      OBVIOUS
    <3>2. Max({2, (2 * 10 + 9) \div 10}) = 2
      BY <3>1, ViewMaxOfTwo
    <3> QED BY <3>2 DEF ViewRails
  <2>2. i = 0 \/ i = 1 \/ i = 2
    OBVIOUS
  <2> QED BY <2>1, <2>2
<1>3. d = 0 \/ d = 10
  OBVIOUS
<1> DEFINE C == ViewCol(view.at)
           R == ViewRow(view.at)
           u == (d * a - o * b) \div 5
           v == (d * b + o * a) \div 5
<1>4. C \in Int /\ R \in Int /\ ViewMid(view.at).x = 20 * C + 10 /\ ViewMid(view.at).y = 20 * R + 10
  <2>1. view.at \in ViewCells
    BY ViewReadIs
  <2>2. C \in Int /\ R \in Int
    BY <2>1, ViewSpot DEF C, R
  <2> QED BY <2>2 DEF ViewMid
<1>5. u \in -14..14 /\ v \in -14..14
  <2>1. d * a - o * b \in -70..70 /\ d * b + o * a \in -70..70
    BY <1>1, <1>2, <1>3
  <2> QED BY <2>1
<1> DEFINE i == (20 * R + 10 + v) \div 20
           j == (20 * C + 10 + u) \div 20
<1> HIDE DEF u, v, C, R
<1>6. i \in Int /\ j \in Int /\ i - R \in {-1, 0, 1} /\ j - C \in {-1, 0, 1}
  BY <1>4, <1>5
<1> DEFINE k == ViewAtRC(i, j)
<1> HIDE DEF i, j
<1>7. k # ViewOff => k \in ViewCells /\ ViewRow(k) = i /\ ViewCol(k) = j
  BY <1>6, ViewRowsCols
<1> HIDE DEF k
<1>8. k # ViewOff => ViewRead(view)[k] = view.cells[k]
  <2> SUFFICES ASSUME k # ViewOff PROVE ViewRead(view)[k] = view.cells[k]
    OBVIOUS
  <2> DEFINE e == ViewMid(k).x - ViewMid(view.at).x
             f == ViewMid(k).y - ViewMid(view.at).y
  <2>1. ViewMid(k).x = 20 * j + 10 /\ ViewMid(k).y = 20 * i + 10
    BY <1>7 DEF ViewMid
  <2>2. e \in {-20, 0, 20} /\ f \in {-20, 0, 20}
    BY <1>4, <1>6, <2>1
  <2>3. e * e + f * f <= 800
    <3> HIDE DEF e, f
    <3> QED BY <2>2
  <2>4. ViewClear * ViewClear \in Int /\ 800 <= ViewClear * ViewClear
    <3>1. ViewSquare(20) + ViewSquare(20) <= ViewSquare(ViewClear)
      BY ViewAssumption
    <3> QED BY <3>1, ViewSizes DEF ViewSquare
  <2>5. e * e + f * f <= ViewClear * ViewClear
    <3>1. e * e + f * f \in Int
      BY <2>2
    <3> HIDE DEF e, f
    <3> QED BY <2>3, <2>4, <3>1
  <2>6. ViewNear(view, k)
    BY <2>5 DEF ViewNear, ViewSquare
  <2> QED BY <1>7, <2>6, ViewReadIs
<1> DEFINE x == ViewMid(view.at).x + (d * h[1] - o * h[2]) \div 5
           y == ViewMid(view.at).y + (d * h[2] + o * h[1]) \div 5
<1>9. ViewAtRC(y \div 20, x \div 20) = k
  BY <1>1, <1>4 DEF k, i, j, u, v
<1> HIDE DEF x, y
<1>10. ViewAt(ViewRead(view), x, y) = ViewAt(view.cells, x, y)
  BY <1>8, <1>9 DEF ViewAt
<1> QED BY <1>10 DEF x, y

(* The first step is as the ink has it, whatever the band blocks.            *)
LEMMA ViewStepsAre == ASSUME ViewTypeOK PROVE ViewStepsOff
<1> SUFFICES ASSUME NEW h \in ViewHeadings
             PROVE  ViewLaneClear(ViewRead(view), ViewMid(view.at), h, 10, 10)
                      <=> ViewLaneClear(view.cells, ViewMid(view.at), h, 10, 10)
  BY DEF ViewStepsOff, ViewLaneClear
<1> DEFINE x(d, o) == ViewMid(view.at).x + (d * h[1] - o * h[2]) \div 5
           y(d, o) == ViewMid(view.at).y + (d * h[2] + o * h[1]) \div 5
<1>1. \A d \in {d \in 0..10 : d % 10 = 0}, o \in ViewRails(10) :
        ViewAt(ViewRead(view), x(d, o), y(d, o)) = ViewAt(view.cells, x(d, o), y(d, o))
  BY ViewStepNear
<1>2. \A cells : ViewLaneClear(cells, ViewMid(view.at), h, 10, 10) <=>
        \A d \in {d \in 0..10 : d % 10 = 0}, o \in ViewRails(10) : ViewAt(cells, x(d, o), y(d, o)) # "wall"
  BY DEF ViewLaneClear
<1> HIDE DEF x, y
<1> QED BY <1>1, <1>2

(* A heading's pair of numbers.                                              *)
ViewIsHeading(a, b) ==
  \/ (a = 5 /\ b = 0) \/ (a = 4 /\ b = 3) \/ (a = 3 /\ b = 4) \/ (a = 0 /\ b = 5)
  \/ (a = -3 /\ b = 4) \/ (a = -5 /\ b = 0) \/ (a = 0 /\ b = -5) \/ (a = 4 /\ b = -3)

(* Up to ten half cells ahead, the cell a ray is in lies no further off than *)
(* the ray has come, rounded up to whole cells.                              *)
LEMMA ViewAheadSmall ==
  ASSUME NEW a \in Int, NEW b \in Int, ViewIsHeading(a, b), NEW r \in 0..9
  PROVE  LET c == (r * a + 5) \div 10
             e == (r * b + 5) \div 10
             s == (r + 2) \div 2
         IN /\ c \in Int /\ e \in Int /\ s \in Nat
            /\ c \in -s..s /\ e \in -s..s /\ c * a + e * b \in 0..(5 * s) /\ c * c + e * e <= s * s
<1>1. r = 0 \/ r = 1 \/ r = 2 \/ r = 3 \/ r = 4 \/ r = 5 \/ r = 6 \/ r = 7 \/ r = 8 \/ r = 9
  OBVIOUS
<1>2. ViewIsHeading(a, b)
  OBVIOUS
<1>3. CASE a = 5 /\ b = 0
  BY <1>1, <1>3
<1>4. CASE a = 4 /\ b = 3
  BY <1>1, <1>4
<1>5. CASE a = 3 /\ b = 4
  BY <1>1, <1>5
<1>6. CASE a = 0 /\ b = 5
  BY <1>1, <1>6
<1>7. CASE a = -3 /\ b = 4
  BY <1>1, <1>7
<1>8. CASE a = -5 /\ b = 0
  BY <1>1, <1>8
<1>9. CASE a = 0 /\ b = -5
  BY <1>1, <1>9
<1>10. CASE a = 4 /\ b = -3
  BY <1>1, <1>10
<1> QED BY <1>2, <1>3, <1>4, <1>5, <1>6, <1>7, <1>8, <1>9, <1>10 DEF ViewIsHeading

(* However far it has come, ten half cells being five cells on.              *)
LEMMA ViewAheadFar ==
  ASSUME NEW a \in Int, NEW b \in Int, ViewIsHeading(a, b), NEW t \in Nat, NEW R \in Nat, t + 1 <= 2 * R
  PROVE  LET c == (t * a + 5) \div 10
             e == (t * b + 5) \div 10
         IN c \in -R..R /\ e \in -R..R /\ c * a + e * b >= 0 /\ c * c + e * e <= R * R
<1> DEFINE q == t \div 10
           r == t % 10
           c == (r * a + 5) \div 10
           e == (r * b + 5) \div 10
           s == (r + 2) \div 2
           C == (t * a + 5) \div 10
           E == (t * b + 5) \div 10
<1>1. q \in Nat /\ r \in 0..9 /\ t = 10 * q + r
  OBVIOUS
<1>2. /\ c \in Int /\ e \in Int /\ s \in Nat
      /\ c \in -s..s /\ e \in -s..s /\ c * a + e * b \in 0..(5 * s) /\ c * c + e * e <= s * s
  <2> HIDE DEF r
  <2> QED BY <1>1, ViewAheadSmall
<1>3. 5 * q + s <= R
  <2> HIDE DEF q, r
  <2> QED BY <1>1
<1>4. C = q * a + c /\ E = q * b + e
  <2> HIDE DEF q, r
  <2>1. t * a + 5 = 10 * (q * a) + (r * a + 5) /\ t * b + 5 = 10 * (q * b) + (r * b + 5)
    BY <1>1
  <2>2. q * a \in Int /\ q * b \in Int /\ r * a \in Int /\ r * b \in Int
    BY <1>1
  <2> DEFINE x == q * a
             y == q * b
             z == r * a
             w == r * b
  <2>3. x \in Int /\ y \in Int /\ z \in Int /\ w \in Int
    BY <2>2
  <2>4. t * a + 5 = 10 * x + (z + 5) /\ t * b + 5 = 10 * y + (w + 5)
    BY <2>1
  <2> HIDE DEF x, y, z, w
  <2>5. (10 * x + (z + 5)) \div 10 = x + (z + 5) \div 10 /\ (10 * y + (w + 5)) \div 10 = y + (w + 5) \div 10
    BY <2>3
  <2> QED BY <2>4, <2>5 DEF x, y, z, w
<1> HIDE DEF q, r, c, e, s, C, E
<1>5. C \in Int /\ E \in Int /\ C \in -R..R /\ E \in -R..R
  <2>1. q * a \in (-5 * q)..(5 * q) /\ q * b \in (-5 * q)..(5 * q)
    BY <1>1 DEF ViewIsHeading
  <2> DEFINE x == q * a
             y == q * b
  <2>2. x \in (-5 * q)..(5 * q) /\ y \in (-5 * q)..(5 * q) /\ C = x + c /\ E = y + e
    BY <1>4, <2>1
  <2> HIDE DEF x, y
  <2> QED BY <1>1, <1>2, <1>3, <2>2
<1> DEFINE f == c * a + e * b
           g == c * c + e * e
           qq == q * q
           qf == q * f
<1>6. f \in 0..(5 * s) /\ g \in Int /\ g <= s * s /\ qq \in Nat /\ qf \in Int /\ s * s \in Int
  BY <1>1, <1>2
<1>7. C * a + E * b = 25 * q + f
  <2>1. a * a + b * b = 25
    BY DEF ViewIsHeading
  <2>2. C * a + E * b = q * (a * a + b * b) + f
    BY <1>1, <1>2, <1>4
  <2> HIDE DEF f
  <2> QED BY <1>1, <2>1, <2>2
<1>8. C * C + E * E = 25 * qq + 2 * qf + g
  <2>1. a * a + b * b = 25
    BY DEF ViewIsHeading
  <2>2. C * C + E * E = qq * (a * a + b * b) + 2 * qf + g
    BY <1>1, <1>2, <1>4
  <2> HIDE DEF f, g, qq, qf
  <2> QED BY <1>6, <2>1, <2>2
<1>9. qf <= 5 * (q * s)
  <2>1. q * f <= q * (5 * s)
    <3> HIDE DEF f
    <3> QED BY <1>1, <1>2, <1>6
  <2> QED BY <1>1, <1>2, <2>1
<1>10. 25 * qq + 10 * (q * s) + s * s <= R * R
  <2> DEFINE m == 5 * q + s
  <2>1. m \in Nat /\ m <= R /\ m * m = 25 * qq + 10 * (q * s) + s * s
    BY <1>1, <1>2, <1>3
  <2>2. m * m <= R * R
    <3> HIDE DEF m
    <3> QED BY <2>1
  <2> HIDE DEF m, qq
  <2> QED BY <2>1, <2>2
<1> DEFINE qs == q * s
<1>11. qs \in Int /\ R * R \in Int
  BY <1>1, <1>2
<1>12. C * C + E * E <= R * R
  <2>1. qf <= 5 * qs /\ 25 * qq + 10 * qs + s * s <= R * R /\ C * C + E * E = 25 * qq + 2 * qf + g
    BY <1>8, <1>9, <1>10
  <2> HIDE DEF qs, qf, qq, g
  <2> QED BY <1>6, <1>11, <2>1
<1>13. C * a + E * b >= 0
  <2> HIDE DEF f
  <2> QED BY <1>1, <1>6, <1>7
<1> QED BY <1>5, <1>12, <1>13 DEF C, E

(* With nothing unknown in the half-disc ahead, a ray ends at a wall, or at  *)
(* none.                                                                     *)
LEMMA ViewAheadIs ==
  ASSUME NEW cells \in [ViewCells -> ViewInks3], NEW k \in ViewCells, NEW h \in ViewHeadings,
         ViewAhead(cells, k, h).unknown = 0
  PROVE  ViewClearance(cells, ViewMid(k), h, 20 * ViewRadius - 10).by \in {"wall", "open"}
<1>1. PICK a \in Int, b \in Int : h[1] = a /\ h[2] = b /\ ViewIsHeading(a, b)
  BY ViewHeadingIs DEF ViewIsHeading
<1> DEFINE S == -ViewRadius..ViewRadius
           disc == {d \in S \X S : /\ ViewSquare(d[1]) + ViewSquare(d[2]) <= ViewSquare(ViewRadius)
                                   /\ d[2] * h[1] + d[1] * h[2] >= 0}
           to(d) == ViewAtRC(ViewRow(k) + d[1], ViewCol(k) + d[2])
           known(d) == to(d) # ViewOff /\ cells[to(d)] # "unknown"
<1>2. ViewAhead(cells, k, h).unknown = Cardinality({d \in disc : ~known(d)})
  BY DEF ViewAhead
<1>3. IsFiniteSet({d \in disc : ~known(d)})
  <2>1. IsFiniteSet(S)
    BY ViewSizes, FS_Interval
  <2>2. IsFiniteSet(S \X S)
    BY <2>1, FS_Product
  <2>3. {d \in disc : ~known(d)} \subseteq S \X S
    OBVIOUS
  <2> QED BY <2>2, <2>3, FS_Subset
<1>4. \A d \in disc : known(d)
  <2> HIDE DEF disc, known
  <2>1. {d \in disc : ~known(d)} = {}
    BY <1>2, <1>3, FS_EmptySet
  <2> QED BY <2>1
<1> DEFINE p == ViewMid(k)
           max == 20 * ViewRadius - 10
           on(d) == ViewAt(cells, p.x + (d * h[1]) \div 5, p.y + (d * h[2]) \div 5)
           ends == {d \in 20..max : d % 10 = 0 /\ on(d) # "free"}
<1>5. ViewClearance(cells, p, h, max).by = IF ends = {} THEN "open" ELSE on(Min(ends))
  BY DEF ViewClearance
<1>6. ASSUME NEW d \in ends PROVE on(d) = "wall"
  <2> DEFINE t == d \div 10
             c == (t * a + 5) \div 10
             e == (t * b + 5) \div 10
  <2>1. d \in Nat /\ d <= max /\ d % 10 = 0 /\ on(d) # "free"
    BY ViewSizes
  <2>2. t \in Nat /\ d = 10 * t /\ t + 1 <= 2 * ViewRadius
    BY <2>1, ViewSizes
  <2> HIDE DEF t, ends
  <2>3. c \in S /\ e \in S /\ c * a + e * b >= 0 /\ c * c + e * e <= ViewRadius * ViewRadius
    BY <1>1, <2>2, ViewSizes, ViewAheadFar
  <2>4. c \in Int /\ e \in Int
    BY <2>3, ViewSizes
  <2>5. <<e, c>> \in disc
    <3> HIDE DEF c, e
    <3>1. e * e + c * c = c * c + e * e
      BY <2>4
    <3> QED BY <1>1, <2>3, <3>1 DEF ViewSquare
  <2> DEFINE i == ViewRow(k) + e
             j == ViewCol(k) + c
             x == p.x + (d * h[1]) \div 5
             y == p.y + (d * h[2]) \div 5
  <2>6. to(<<e, c>>) = ViewAtRC(i, j)
    OBVIOUS
  <2>7. x \div 20 = j /\ y \div 20 = i
    <3>1. ViewRow(k) \in Int /\ ViewCol(k) \in Int
      BY ViewSpot
    <3>2. x = 20 * ViewCol(k) + 10 + (d * a) \div 5 /\ y = 20 * ViewRow(k) + 10 + (d * b) \div 5
      BY <1>1 DEF ViewMid
    <3> DEFINE z == t * a
               w == t * b
    <3>3. z \in Int /\ w \in Int /\ d * a = 10 * z /\ d * b = 10 * w
      BY <2>2
    <3>4. c = (z + 5) \div 10 /\ e = (w + 5) \div 10
      OBVIOUS
    <3> HIDE DEF z, w, x, y, c, e
    <3>5. x = 20 * ViewCol(k) + 10 + 2 * z /\ y = 20 * ViewRow(k) + 10 + 2 * w
      BY <3>2, <3>3
    <3>6. \A m \in Int, n \in Int : (20 * m + 10 + 2 * n) \div 20 = m + (n + 5) \div 10
      OBVIOUS
    <3>7. x \div 20 = ViewCol(k) + (z + 5) \div 10 /\ y \div 20 = ViewRow(k) + (w + 5) \div 10
      BY <3>1, <3>3, <3>5, <3>6
    <3> QED BY <3>4, <3>7
  <2>8. known(<<e, c>>)
    BY <1>4, <2>5
  <2> HIDE DEF disc, S, c, e, i, j, x, y
  <2>9. ViewAtRC(i, j) # ViewOff /\ cells[ViewAtRC(i, j)] # "unknown"
    BY <2>6, <2>8
  <2>10. ViewAtRC(i, j) \in ViewCells
    <3>1. i \in Int /\ j \in Int
      BY <2>4, ViewSpot DEF i, j
    <3> QED BY <2>9, <3>1, ViewRowsCols
  <2>11. cells[ViewAtRC(i, j)] \in {"free", "wall"}
    <3>1. cells[ViewAtRC(i, j)] \in ViewInks3
      BY <2>10
    <3> QED BY <2>9, <3>1 DEF ViewInks3
  <2>12. ViewAt(cells, x, y) = cells[ViewAtRC(i, j)]
    BY <2>7, <2>9 DEF ViewAt
  <2> QED BY <2>1, <2>11, <2>12 DEF x, y
<1>7. ends # {} => Min(ends) \in ends
  <2>1. ends \subseteq Nat
    BY ViewSizes
  <2> HIDE DEF ends
  <2> QED BY <2>1, LeastNatural
<1> HIDE DEF on, ends
<1> QED BY <1>5, <1>6, <1>7

(* With nothing unknown ahead, no ray of the view ends in the unknown.       *)
LEMMA ViewAheadsAre == ASSUME ViewTypeOK PROVE ViewAheadTrue
BY ViewReadIs, ViewAheadIs DEF ViewAheadTrue

(* The cells beside a cell share a side with it.                             *)
LEMMA ViewBesideIs ==
  ASSUME NEW k \in ViewCells
  PROVE  /\ ViewBeside(k) \subseteq ViewCells
         /\ \A j \in ViewCells :
              j \in ViewBeside(k) <=>
                \/ ViewCol(j) = ViewCol(k) /\ (ViewRow(j) = ViewRow(k) + 1 \/ ViewRow(j) = ViewRow(k) - 1)
                \/ ViewRow(j) = ViewRow(k) /\ (ViewCol(j) = ViewCol(k) + 1 \/ ViewCol(j) = ViewCol(k) - 1)
<1> DEFINE R == ViewRow(k)
           C == ViewCol(k)
<1>1. R \in Int /\ C \in Int
  BY ViewSpot
<1>2. ViewBeside(k) = {ViewAtRC(R - 1, C), ViewAtRC(R + 1, C), ViewAtRC(R, C - 1), ViewAtRC(R, C + 1)} \ {ViewOff}
  <2>1. ViewBeside(k) = {ViewAtRC(R + d[1], C + d[2]) : d \in {<<-1, 0>>, <<1, 0>>, <<0, -1>>, <<0, 1>>}} \ {ViewOff}
    BY DEF ViewBeside
  <2>2. R + (-1) = R - 1 /\ C + (-1) = C - 1 /\ R + 0 = R /\ C + 0 = C
    BY <1>1
  <2> HIDE DEF R, C
  <2>3. {ViewAtRC(R + d[1], C + d[2]) : d \in {<<-1, 0>>, <<1, 0>>, <<0, -1>>, <<0, 1>>}}
          = {ViewAtRC(R + (-1), C + 0), ViewAtRC(R + 1, C + 0), ViewAtRC(R + 0, C + (-1)), ViewAtRC(R + 0, C + 1)}
    OBVIOUS
  <2> QED BY <2>1, <2>2, <2>3
<1> HIDE DEF R, C
<1>3. ASSUME NEW i \in Int, NEW j \in Int, NEW c, c = ViewAtRC(i, j), c # ViewOff
      PROVE  c \in ViewCells /\ ViewRow(c) = i /\ ViewCol(c) = j
  <2>1. i \in 0..(ViewRows - 1) /\ j \in 0..(ViewCols - 1)
    BY <1>3, ViewRowsCols
  <2> QED BY <1>3, <2>1, ViewRowsCols
<1>4. R - 1 \in Int /\ R + 1 \in Int /\ C - 1 \in Int /\ C + 1 \in Int
  BY <1>1
<1>5. ViewBeside(k) \subseteq ViewCells
  BY <1>1, <1>2, <1>3, <1>4
<1>6. ASSUME NEW j \in ViewBeside(k)
      PROVE  \/ ViewCol(j) = C /\ (ViewRow(j) = R + 1 \/ ViewRow(j) = R - 1)
             \/ ViewRow(j) = R /\ (ViewCol(j) = C + 1 \/ ViewCol(j) = C - 1)
  BY <1>1, <1>2, <1>3, <1>4
<1>7. ASSUME NEW j \in ViewCells,
             \/ ViewCol(j) = C /\ (ViewRow(j) = R + 1 \/ ViewRow(j) = R - 1)
             \/ ViewRow(j) = R /\ (ViewCol(j) = C + 1 \/ ViewCol(j) = C - 1)
      PROVE  j \in ViewBeside(k)
  <2>1. ViewAtRC(ViewRow(j), ViewCol(j)) = j /\ j # ViewOff
    BY ViewRowsCols
  <2> QED BY <1>2, <1>7, <2>1
<1> QED BY <1>5, <1>6, <1>7 DEF R, C

(* A cell beside another has it beside.                                      *)
LEMMA ViewBesideBoth ==
  ASSUME NEW k \in ViewCells, NEW j \in ViewBeside(k)
  PROVE  j \in ViewCells /\ k \in ViewBeside(j)
<1>1. j \in ViewCells
  BY ViewBesideIs
<1>2. ViewRow(j) \in Int /\ ViewCol(j) \in Int /\ ViewRow(k) \in Int /\ ViewCol(k) \in Int
  BY <1>1, ViewSpot
<1>3. \/ ViewCol(j) = ViewCol(k) /\ (ViewRow(j) = ViewRow(k) + 1 \/ ViewRow(j) = ViewRow(k) - 1)
      \/ ViewRow(j) = ViewRow(k) /\ (ViewCol(j) = ViewCol(k) + 1 \/ ViewCol(j) = ViewCol(k) - 1)
  BY <1>1, ViewBesideIs
<1>4. \/ ViewCol(k) = ViewCol(j) /\ (ViewRow(k) = ViewRow(j) + 1 \/ ViewRow(k) = ViewRow(j) - 1)
      \/ ViewRow(k) = ViewRow(j) /\ (ViewCol(k) = ViewCol(j) + 1 \/ ViewCol(k) = ViewCol(j) - 1)
  BY <1>2, <1>3
<1> QED BY <1>1, <1>4, ViewBesideIs

(* One round of a walk over some cells, and a set it can add nothing to.     *)
ViewSpread(over, g) == g \cup {k \in over : ViewBeside(k) \cap g # {}}
ViewShut(over, g) == \A k \in over : ViewBeside(k) \cap g # {} => k \in g

(* A flood takes in what is beside what it has, until nothing is: it is the  *)
(* least such set about what it starts from.                                 *)
LEMMA ViewFloodIs ==
  ASSUME NEW over \in SUBSET ViewCells, NEW from \in SUBSET over
  PROVE  LET F == ViewFlood(over, from)
         IN  /\ F \in SUBSET over /\ from \subseteq F /\ ViewShut(over, F)
             /\ \A S : from \subseteq S /\ ViewShut(over, S) => F \subseteq S
<1> DEFINE N == Cardinality(over)
           next(g) == ViewSpread(over, g)
           is(f) == f = [n \in 0..N |-> IF n = 0 THEN from
                           ELSE f[n - 1] \cup {k \in over : ViewBeside(k) \cap f[n - 1] # {}}]
           k == CHOOSE f : is(f)
           G == [n \in 1..N |-> [v \in SUBSET over |-> next(v)]]
<1>1. IsFiniteSet(over) /\ N \in Nat
  BY ViewCellsFinite, FS_Subset, FS_CardinalityType
<1>2. ViewFlood(over, from) = k[N]
  BY DEF ViewFlood
<1>4. \A f : is(f) <=> f = [n \in 0..N |-> IF n = 0 THEN from ELSE next(f[n - 1])]
  BY DEF ViewSpread
<1>5. \A v \in SUBSET over : next(v) \in SUBSET over /\ v \subseteq next(v)
  BY DEF ViewSpread
<1>13. \A g \in SUBSET over : IsFiniteSet(g) /\ Cardinality(g) \in Nat /\ Cardinality(g) <= N
  BY <1>1, FS_Subset, FS_CardinalityType
<1> HIDE DEF is, next, k, N
<1>6. G \in [1..N -> [SUBSET over -> SUBSET over]] /\ \A n \in 1..N : \A v \in SUBSET over : G[n][v] = next(v)
  BY <1>5
<1> HIDE DEF G
<1>8. PICK h \in [0..N -> SUBSET over] : ScanGoes(N, from, G, h)
  <2> DEFINE S == SUBSET over
  <2>1. G \in [1..N -> [S -> S]] /\ from \in S
    BY <1>6
  <2> HIDE DEF S
  <2>2. \E h \in [0..N -> S] : ScanGoes(N, from, G, h)
    BY <1>1, <2>1, ScanIterates
  <2> QED BY <2>2 DEF S
<1>9. ASSUME NEW n \in 0..N PROVE h[n] = IF n = 0 THEN from ELSE next(h[n - 1])
  <2>1. CASE n = 0
    BY <1>8, <2>1 DEF ScanGoes
  <2>2. CASE n # 0
    <3>1. n \in 1..N /\ n - 1 \in 0..N
      BY <1>1, <2>2
    <3> QED BY <1>6, <1>8, <2>2, <3>1 DEF ScanGoes
  <2> QED BY <2>1, <2>2
<1>10. is(h)
  BY <1>4, <1>9
<1>11. is(k)
  BY <1>10, Zenon DEF k
<1>12. k[0] = from /\ \A n \in 1..N : k[n] = next(k[n - 1])
  <2>1. k = [n \in 0..N |-> IF n = 0 THEN from ELSE next(k[n - 1])]
    BY <1>4, <1>11, Zenon
  <2>2. 0 \in 0..N /\ \A n \in 1..N : n \in 0..N /\ n # 0
    BY <1>1
  <2>3. k[0] = from
    BY <2>1, <2>2, Zenon
  <2>4. \A n \in 1..N : k[n] = next(k[n - 1])
    BY <2>1, <2>2, Zenon
  <2> QED BY <2>3, <2>4
<1>14. \A n \in 0..N : k[n] \in SUBSET over /\ from \subseteq k[n] /\ (ViewShut(over, k[n]) \/ Cardinality(k[n]) > n)
  <2> DEFINE T == {n \in 0..N : k[n] \in SUBSET over /\ from \subseteq k[n] /\ (ViewShut(over, k[n]) \/ Cardinality(k[n]) > n)}
  <2>1. 0 \in T
    <3>1. CASE from = {}
      <4>1. ViewShut(over, k[0])
        BY <1>12, <3>1 DEF ViewShut
      <4> QED BY <1>1, <1>12, <4>1
    <3>2. CASE from # {}
      <4>1. Cardinality(from) # 0 /\ Cardinality(from) \in Nat
        BY <1>13, <3>2, FS_EmptySet
      <4>2. Cardinality(k[0]) > 0
        BY <1>12, <4>1
      <4> QED BY <1>1, <1>12, <4>2
    <3> QED BY <3>1, <3>2
  <2>2. ASSUME NEW n \in 1..N, n - 1 \in T PROVE n \in T
    <3> DEFINE g == k[n - 1]
               f == k[n]
    <3>1. g \in SUBSET over /\ from \subseteq g /\ (ViewShut(over, g) \/ Cardinality(g) > n - 1) /\ f = next(g)
      BY <1>12, <2>2
    <3> HIDE DEF g, f
    <3>2. f \in SUBSET over /\ g \subseteq f /\ from \subseteq f
      BY <1>5, <3>1
    <3>3. CASE ViewShut(over, g)
      <4>1. f = g
        BY <3>1, <3>3 DEF next, ViewSpread, ViewShut
      <4> QED BY <3>2, <3>3, <4>1 DEF f
    <3>4. CASE ~ViewShut(over, g)
      <4>1. f # g
        BY <3>1, <3>4 DEF next, ViewSpread, ViewShut
      <4>2. Cardinality(g) < Cardinality(f)
        <5>1. IsFiniteSet(f) /\ Cardinality(g) \in Nat /\ Cardinality(f) \in Nat
          BY <1>13, <3>1, <3>2
        <5>2. Cardinality(g) <= Cardinality(f) /\ (Cardinality(g) = Cardinality(f) => g = f)
          BY <3>2, <5>1, FS_Subset
        <5> QED BY <4>1, <5>1, <5>2
      <4>3. Cardinality(f) > n
        BY <1>13, <3>1, <3>2, <3>4, <4>2
      <4> QED BY <3>2, <4>3 DEF f
    <3> QED BY <3>3, <3>4
  <2> HIDE DEF T
  <2>3. \A n \in 0..N : n \in T
    BY <1>1, <2>1, <2>2, ScanCounts
  <2> QED BY <2>3 DEF T
<1>15. k[N] \in SUBSET over /\ from \subseteq k[N] /\ ViewShut(over, k[N])
  BY <1>1, <1>13, <1>14
<1>16. ASSUME NEW S, from \subseteq S, ViewShut(over, S) PROVE k[N] \subseteq S
  <2> DEFINE T == {n \in 0..N : k[n] \subseteq S}
  <2>1. 0 \in T
    BY <1>1, <1>12, <1>16
  <2>2. ASSUME NEW n \in 1..N, n - 1 \in T PROVE n \in T
    BY <1>12, <1>16, <2>2 DEF next, ViewSpread, ViewShut
  <2> HIDE DEF T
  <2>3. \A n \in 0..N : n \in T
    BY <1>1, <2>1, <2>2, ScanCounts
  <2> QED BY <1>1, <2>3 DEF T
<1> QED BY <1>2, <1>15, <1>16

(* What a flood from one cell reaches, it is reached from.                   *)
LEMMA ViewFloodBack ==
  ASSUME NEW over \in SUBSET ViewCells, NEW k \in over, NEW j \in ViewFlood(over, {k})
  PROVE  j \in over /\ k \in ViewFlood(over, {j})
<1> DEFINE F == ViewFlood(over, {k})
           E == ViewFlood(over, {j})
           S == F \ E
<1>1. {k} \in SUBSET over
  OBVIOUS
<1>2. F \in SUBSET over /\ {k} \subseteq F /\ ViewShut(over, F) /\ \A B : {k} \subseteq B /\ ViewShut(over, B) => F \subseteq B
  BY <1>1, ViewFloodIs
<1>3. {j} \in SUBSET over
  BY <1>2
<1>4. E \in SUBSET over /\ {j} \subseteq E /\ ViewShut(over, E)
  BY <1>3, ViewFloodIs
<1>5. j \in F
  OBVIOUS
<1> HIDE DEF F, E
<1>6. ViewShut(over, S)
  <2> SUFFICES ASSUME NEW v \in over, NEW w \in ViewBeside(v), w \in S PROVE v \in S
    BY DEF ViewShut
  <2>1. v \in F
    BY <1>2 DEF ViewShut
  <2>2. w \in over /\ v \in ViewBeside(w)
    BY <1>2, ViewBesideBoth
  <2>3. v \notin E
    BY <1>4, <2>2 DEF ViewShut
  <2> QED BY <2>1, <2>3
<1>7. k \notin S
  BY <1>2, <1>4, <1>5, <1>6
<1> QED BY <1>2, <1>3, <1>7 DEF F, E

(* The pieces of what is left that touch known floor are what is left open.  *)
LEMMA ViewPiecesOpen ==
  ASSUME NEW cells \in [ViewCells -> ViewInks3], NEW box \in SUBSET ViewCells
  PROVE  /\ ViewOpen(cells, box) = UNION ViewPiecesOf(cells, box)
         /\ ViewOpen(cells, box) \subseteq ViewCells
         /\ ViewPiecesOf(cells, box) \subseteq SUBSET ViewUnknown(cells, box)
         /\ \A piece \in ViewPiecesOf(cells, box) : \E k \in piece : ViewTouches(cells, box, k)
         /\ ViewOpen(cells, box) # {} => \E k \in ViewUnknown(cells, box) : ViewTouches(cells, box, k)
<1> DEFINE U == ViewUnknown(cells, box)
           T == {k \in U : ViewTouches(cells, box, k)}
           O == ViewOpen(cells, box)
           P == ViewPiecesOf(cells, box)
<1>1. U \in SUBSET ViewCells /\ T \in SUBSET U
  BY DEF ViewUnknown
<1>2. O = ViewFlood(U, T)
  BY DEF ViewOpen
<1>3. P = {piece \in {ViewFlood(U, {k}) : k \in U} : \E k \in piece : ViewTouches(cells, box, k)}
  BY DEF ViewPiecesOf
<1> HIDE DEF O, P
<1>4. O \in SUBSET U /\ T \subseteq O /\ ViewShut(U, O) /\ \A S : T \subseteq S /\ ViewShut(U, S) => O \subseteq S
  BY <1>1, <1>2, ViewFloodIs
<1>5. ASSUME NEW k \in U
      PROVE  LET F == ViewFlood(U, {k}) IN F \in SUBSET U /\ k \in F /\ ViewShut(U, F)
                                          /\ \A S : {k} \subseteq S /\ ViewShut(U, S) => F \subseteq S
  <2>1. {k} \in SUBSET U
    OBVIOUS
  <2> QED BY <1>1, <2>1, ViewFloodIs
<1>6. ASSUME NEW piece \in P PROVE piece \in SUBSET U /\ piece \subseteq O /\ \E k \in piece : ViewTouches(cells, box, k)
  <2>1. PICK k \in U : piece = ViewFlood(U, {k})
    BY <1>3
  <2>2. PICK t \in piece : ViewTouches(cells, box, t)
    BY <1>3
  <2>3. piece \in SUBSET U
    BY <1>5, <2>1
  <2>4. t \in T /\ k \in ViewFlood(U, {t})
    BY <1>1, <2>1, <2>2, <2>3, ViewFloodBack
  <2>5. ViewFlood(U, {t}) \subseteq O
    BY <1>4, <1>5, <2>4
  <2>6. piece \subseteq O
    <3>1. {k} \subseteq O
      BY <2>4, <2>5
    <3>2. \A S : {k} \subseteq S /\ ViewShut(U, S) => piece \subseteq S
      BY <1>5, <2>1
    <3> QED BY <1>4, <3>1, <3>2
  <2> QED BY <2>2, <2>3, <2>6
<1>7. O \subseteq UNION P
  <2>1. T \subseteq UNION P
    <3> SUFFICES ASSUME NEW t \in T PROVE t \in UNION P
      OBVIOUS
    <3>1. t \in ViewFlood(U, {t}) /\ ViewFlood(U, {t}) \in P
      BY <1>3, <1>5
    <3> QED BY <3>1
  <2>2. ViewShut(U, UNION P)
    <3> SUFFICES ASSUME NEW v \in U, NEW w \in ViewBeside(v), NEW piece \in P, w \in piece PROVE v \in UNION P
      BY DEF ViewShut
    <3>2. PICK k \in U : piece = ViewFlood(U, {k})
      BY <1>3
    <3>3. ViewShut(U, piece)
      BY <1>5, <3>2
    <3>1. v \in piece
      BY <3>3 DEF ViewShut
    <3> QED BY <3>1
  <2> QED BY <1>4, <2>1, <2>2
<1>8. O # {} => T # {}
  BY <1>4 DEF ViewShut
<1> QED BY <1>1, <1>4, <1>6, <1>7, <1>8 DEF O, P

(* What is bounded has a greatest.                                           *)
LEMMA ViewGreatest ==
  ASSUME NEW N \in Nat, NEW S \in SUBSET (0..N), S # {}
  PROVE  Max(S) \in S /\ \A y \in S : y <= Max(S)
<1> DEFINE T == {n \in 0..N : N - n \in S}
<1>1. PICK x \in S : TRUE
  OBVIOUS
<1>2. T \subseteq Nat /\ N - x \in T
  <2>1. x \in 0..N /\ N - (N - x) = x /\ N - x \in 0..N
    OBVIOUS
  <2> QED BY <2>1
<1> DEFINE m == Min(T)
<1>3. m \in T /\ \A n \in T : m <= n
  <2> HIDE DEF T
  <2> QED BY <1>2, LeastNatural
<1> HIDE DEF m
<1>4. N - m \in S /\ m \in 0..N
  BY <1>3
<1>5. ASSUME NEW y \in S PROVE N - m >= y
  <2>1. y \in 0..N /\ N - (N - y) = y /\ N - y \in 0..N
    OBVIOUS
  <2>2. N - y \in T
    BY <2>1
  <2> QED BY <1>3, <1>4, <2>1, <2>2
<1>6. \E g \in S : \A y \in S : g >= y
  BY <1>4, <1>5
<1>7. Max(S) \in S /\ \A y \in S : Max(S) >= y
  BY <1>6 DEF Max
<1>8. \A y \in S : y \in Int
  OBVIOUS
<1> QED BY <1>7, <1>8

(* The house's box is of the grid's cells.                                   *)
LEMMA ViewBoxIs == ASSUME NEW cells PROVE ViewBox(cells) \in SUBSET ViewCells
<1>1. ViewBox(cells) = IF ViewWallsOf(cells) = {} THEN {} ELSE ViewBoxed(ViewWallsOf(cells), ViewTurn(ViewWallsOf(cells)))
  BY DEF ViewBox, ViewBoxOf
<1>2. \A walls, t : ViewBoxed(walls, t) \subseteq ViewCells
  BY DEF ViewBoxed, ViewWithin
<1> QED BY <1>1, <1>2

(* The two readings of what is left agree.                                   *)
LEMMA ViewLeftAgrees ==
  ASSUME NEW cells \in [ViewCells -> ViewInks3]
  PROVE  LET open == ViewShare(cells).open
             pieces == ViewPieces(cells)
         IN /\ open = UNION pieces
            /\ ViewFrontier(cells) = {} => open = {}
            /\ ViewLargestOf(pieces) <= Cardinality(open) /\ (ViewLargestOf(pieces) = 0 => open = {})
<1> DEFINE box == ViewBox(cells)
           open == ViewShare(cells).open
           pieces == ViewPieces(cells)
           U == ViewUnknown(cells, box)
<1>1. box \in SUBSET ViewCells
  BY ViewBoxIs
<1>2. open = ViewOpen(cells, box) /\ pieces = ViewPiecesOf(cells, box)
  BY DEF ViewShare, ViewPieces
<1> HIDE DEF box, open, pieces
<1>3. /\ open = UNION pieces /\ open \subseteq ViewCells
      /\ \A piece \in pieces : \E k \in piece : ViewTouches(cells, box, k)
      /\ open # {} => \E k \in U : ViewTouches(cells, box, k)
  BY <1>1, <1>2, ViewPiecesOpen
<1>4. ASSUME open # {} PROVE ViewFrontier(cells) # {}
  <2>1. PICK k \in U : ViewTouches(cells, box, k)
    BY <1>3, <1>4
  <2>2. PICK f \in ViewBeside(k) \cap box : cells[f] = "free"
    BY <2>1 DEF ViewTouches
  <2>3. k \in ViewCells /\ f \in ViewCells /\ cells[k] = "unknown"
    BY <1>1, <2>2 DEF ViewUnknown
  <2> DEFINE dr == ViewRow(k) - ViewRow(f)
             dc == ViewCol(k) - ViewCol(f)
  <2>4. ViewRow(k) \in Int /\ ViewCol(k) \in Int /\ ViewRow(f) \in Int /\ ViewCol(f) \in Int
    BY <2>3, ViewSpot
  <2>5. \/ ViewCol(f) = ViewCol(k) /\ (ViewRow(f) = ViewRow(k) + 1 \/ ViewRow(f) = ViewRow(k) - 1)
        \/ ViewRow(f) = ViewRow(k) /\ (ViewCol(f) = ViewCol(k) + 1 \/ ViewCol(f) = ViewCol(k) - 1)
    BY <2>2, <2>3, ViewBesideIs
  <2>6. dr \in -1..1 /\ dc \in -1..1 /\ ViewRow(f) + dr = ViewRow(k) /\ ViewCol(f) + dc = ViewCol(k)
    BY <2>4, <2>5
  <2> HIDE DEF dr, dc
  <2>7. ViewAtRC(ViewRow(f) + dr, ViewCol(f) + dc) = k /\ k # ViewOff
    BY <2>3, <2>6, ViewRowsCols
  <2>8. f \in ViewFrontier(cells)
    <3>1. \E i, j \in -1..1 : ViewAtRC(ViewRow(f) + i, ViewCol(f) + j) # ViewOff
                              /\ cells[ViewAtRC(ViewRow(f) + i, ViewCol(f) + j)] = "unknown"
      BY <2>3, <2>6, <2>7
    <3> QED BY <2>2, <2>3, <3>1 DEF ViewFrontier
  <2> QED BY <2>8
<1>5. IsFiniteSet(open) /\ Cardinality(open) \in Nat
  BY <1>3, ViewCellsFinite, FS_Subset, FS_CardinalityType
<1>6. ASSUME NEW piece \in pieces PROVE Cardinality(piece) \in 1..Cardinality(open)
  <2>1. piece \subseteq open /\ piece # {}
    BY <1>3
  <2>2. IsFiniteSet(piece) /\ Cardinality(piece) <= Cardinality(open) /\ Cardinality(piece) \in Nat
    BY <1>5, <2>1, FS_Subset, FS_CardinalityType
  <2>3. Cardinality(piece) # 0
    BY <2>1, <2>2, FS_EmptySet
  <2> QED BY <1>5, <2>2, <2>3
<1> DEFINE S == {Cardinality(piece) : piece \in pieces} \cup {0}
<1>7. ViewLargestOf(pieces) = Max(S)
  BY DEF ViewLargestOf
<1>8. S \in SUBSET (0..Cardinality(open)) /\ S # {}
  BY <1>5, <1>6
<1>9. Max(S) \in S /\ \A y \in S : y <= Max(S)
  <2> HIDE DEF S
  <2> QED BY <1>5, <1>8, ViewGreatest
<1>10. Max(S) <= Cardinality(open)
  BY <1>5, <1>8, <1>9
<1>11. ASSUME open # {}, Max(S) = 0 PROVE FALSE
  <2>1. PICK piece \in pieces : TRUE
    BY <1>3, <1>11
  <2>2. Cardinality(piece) \in S /\ Cardinality(piece) >= 1 /\ Cardinality(piece) \in Int
    BY <1>5, <1>6
  <2> HIDE DEF S
  <2> QED BY <1>9, <1>11, <2>2
<1> HIDE DEF S
<1> QED BY <1>3, <1>4, <1>7, <1>10, <1>11 DEF open, pieces

(* The two readings of what is left of the house agree.                      *)
LEMMA ViewHousesAre == ASSUME ViewTypeOK PROVE ViewHouseTrue
<1>1. ViewRead(view) \in [ViewCells -> ViewInks3]
  BY ViewReadIs
<1> DEFINE open == ViewShare(ViewRead(view)).open
           pieces == ViewPieces(ViewRead(view))
<1>2. /\ open = UNION pieces
      /\ ViewFrontier(ViewRead(view)) = {} => open = {}
      /\ ViewLargestOf(pieces) <= Cardinality(open) /\ (ViewLargestOf(pieces) = 0 => open = {})
  BY <1>1, ViewLeftAgrees
<1> HIDE DEF open, pieces
<1>3. \A o \in {open}, p \in {pieces} :
        /\ o = UNION p
        /\ ViewFrontier(ViewRead(view)) = {} => o = {}
        /\ \A largest \in {ViewLargestOf(p)} : largest <= Cardinality(o) /\ (largest = 0 => o = {})
  BY <1>2
<1> QED BY <1>3 DEF ViewHouseTrue, open, pieces

(* The cell a quarter turn of the map brings to a cell.                      *)
ViewMoved(k) == ViewAtRC(ViewCols - 1 - ViewCol(k), ViewRow(k))
ViewMovedAll(S) == {ViewMoved(k) : k \in S}

(* A quarter turn takes the cells to the cells, each to its own, and those   *)
(* beside one to those beside it.                                            *)
LEMMA ViewMovedIs ==
  ASSUME ViewRows = ViewCols
  PROVE  /\ \A k \in ViewCells : /\ ViewMoved(k) \in ViewCells
                                 /\ ViewRow(ViewMoved(k)) = ViewCols - 1 - ViewCol(k) /\ ViewCol(ViewMoved(k)) = ViewRow(k)
         /\ \A j, k \in ViewCells : ViewMoved(j) = ViewMoved(k) => j = k
         /\ \A j \in ViewCells : \E k \in ViewCells : ViewMoved(k) = j
         /\ \A j, k \in ViewCells : j \in ViewBeside(k) <=> ViewMoved(j) \in ViewBeside(ViewMoved(k))
<1>1. ViewRows \in Nat /\ ViewCols \in Nat
  BY ViewSizes
<1>2. ASSUME NEW k \in ViewCells
      PROVE  /\ ViewMoved(k) \in ViewCells
             /\ ViewRow(ViewMoved(k)) = ViewCols - 1 - ViewCol(k) /\ ViewCol(ViewMoved(k)) = ViewRow(k)
  <2>1. ViewRow(k) \in 0..(ViewRows - 1) /\ ViewCol(k) \in 0..(ViewCols - 1)
    BY ViewRowsCols
  <2>2. ViewCols - 1 - ViewCol(k) \in 0..(ViewRows - 1) /\ ViewRow(k) \in 0..(ViewCols - 1)
    BY <1>1, <2>1
  <2> QED BY <2>2, ViewRowsCols DEF ViewMoved
<1>3. ASSUME NEW j \in ViewCells, NEW k \in ViewCells, ViewMoved(j) = ViewMoved(k) PROVE j = k
  <2>1. ViewRow(j) \in Int /\ ViewCol(j) \in Int /\ ViewRow(k) \in Int /\ ViewCol(k) \in Int
    BY ViewSpot
  <2>2. ViewCols - 1 - ViewCol(j) = ViewCols - 1 - ViewCol(k) /\ ViewRow(j) = ViewRow(k)
    BY <1>2, <1>3
  <2>3. ViewCol(j) = ViewCol(k)
    BY <1>1, <2>1, <2>2
  <2>4. ViewAtRC(ViewRow(j), ViewCol(j)) = j /\ ViewAtRC(ViewRow(k), ViewCol(k)) = k
    BY ViewRowsCols
  <2> QED BY <2>2, <2>3, <2>4
<1>4. ASSUME NEW j \in ViewCells PROVE \E k \in ViewCells : ViewMoved(k) = j
  <2> DEFINE r == ViewCol(j)
             c == ViewCols - 1 - ViewRow(j)
             k == ViewAtRC(r, c)
  <2>1. ViewRow(j) \in 0..(ViewRows - 1) /\ ViewCol(j) \in 0..(ViewCols - 1) /\ ViewAtRC(ViewRow(j), ViewCol(j)) = j
    BY ViewRowsCols
  <2>2. r \in 0..(ViewRows - 1) /\ c \in 0..(ViewCols - 1) /\ ViewCols - 1 - c = ViewRow(j)
    BY <1>1, <2>1
  <2> HIDE DEF r, c
  <2>3. k \in ViewCells /\ ViewRow(k) = r /\ ViewCol(k) = c
    BY <2>2, ViewRowsCols
  <2>4. ViewMoved(k) = ViewAtRC(ViewRow(j), ViewCol(j))
    BY <2>2, <2>3 DEF ViewMoved, r
  <2> QED BY <2>1, <2>3, <2>4
<1>5. ASSUME NEW j \in ViewCells, NEW k \in ViewCells
      PROVE  j \in ViewBeside(k) <=> ViewMoved(j) \in ViewBeside(ViewMoved(k))
  <2> DEFINE x == ViewMoved(j)
             y == ViewMoved(k)
  <2>1. ViewRow(j) \in Int /\ ViewCol(j) \in Int /\ ViewRow(k) \in Int /\ ViewCol(k) \in Int
    BY ViewSpot
  <2>2. /\ x \in ViewCells /\ ViewRow(x) = ViewCols - 1 - ViewCol(j) /\ ViewCol(x) = ViewRow(j)
        /\ y \in ViewCells /\ ViewRow(y) = ViewCols - 1 - ViewCol(k) /\ ViewCol(y) = ViewRow(k)
    BY <1>2
  <2> HIDE DEF x, y
  <2>3. j \in ViewBeside(k) <=>
          \/ ViewCol(j) = ViewCol(k) /\ (ViewRow(j) = ViewRow(k) + 1 \/ ViewRow(j) = ViewRow(k) - 1)
          \/ ViewRow(j) = ViewRow(k) /\ (ViewCol(j) = ViewCol(k) + 1 \/ ViewCol(j) = ViewCol(k) - 1)
    BY ViewBesideIs
  <2>4. x \in ViewBeside(y) <=>
          \/ ViewCol(x) = ViewCol(y) /\ (ViewRow(x) = ViewRow(y) + 1 \/ ViewRow(x) = ViewRow(y) - 1)
          \/ ViewRow(x) = ViewRow(y) /\ (ViewCol(x) = ViewCol(y) + 1 \/ ViewCol(x) = ViewCol(y) - 1)
    BY <2>2, ViewBesideIs
  <2>5. /\ ViewCol(x) = ViewCol(y) <=> ViewRow(j) = ViewRow(k)
        /\ ViewRow(x) = ViewRow(y) <=> ViewCol(j) = ViewCol(k)
        /\ (ViewRow(x) = ViewRow(y) + 1 \/ ViewRow(x) = ViewRow(y) - 1)
             <=> (ViewCol(j) = ViewCol(k) + 1 \/ ViewCol(j) = ViewCol(k) - 1)
        /\ (ViewCol(x) = ViewCol(y) + 1 \/ ViewCol(x) = ViewCol(y) - 1)
             <=> (ViewRow(j) = ViewRow(k) + 1 \/ ViewRow(j) = ViewRow(k) - 1)
    BY <1>1, <2>1, <2>2
  <2>6. j \in ViewBeside(k) <=> x \in ViewBeside(y)
    BY <2>3, <2>4, <2>5
  <2> QED BY <2>6 DEF x, y
<1> QED BY <1>2, <1>3, <1>4, <1>5

(* A set moved has as many cells.                                            *)
LEMMA ViewMovedCount ==
  ASSUME ViewRows = ViewCols, NEW S \in SUBSET ViewCells
  PROVE  Cardinality(ViewMovedAll(S)) = Cardinality(S) /\ ViewMovedAll(S) \in SUBSET ViewCells
<1> DEFINE T == ViewMovedAll(S)
           f == [k \in S |-> ViewMoved(k)]
<1>1. IsFiniteSet(S)
  BY ViewCellsFinite, FS_Subset
<1>2. f \in [S -> T]
  BY DEF ViewMovedAll
<1>3. IsInjective(f)
  BY ViewMovedIs DEF IsInjective
<1>4. \A t \in T : \E s \in S : f[s] = t
  BY DEF ViewMovedAll
<1>5. f \in Bijection(S, T)
  <2> HIDE DEF f, T
  <2> QED BY <1>2, <1>3, <1>4 DEF Bijection, Injection, Surjection
<1>6. ExistsBijection(S, T)
  <2> HIDE DEF f, T
  <2> QED BY <1>5 DEF ExistsBijection
<1>7. Cardinality(T) = Cardinality(S)
  <2> HIDE DEF T
  <2> QED BY <1>1, <1>6, FS_Bijection
<1>8. T \in SUBSET ViewCells
  BY ViewMovedIs DEF ViewMovedAll
<1> QED BY <1>7, <1>8

(* A flood moved is the flood of what is moved.                              *)
LEMMA ViewMovedFlood ==
  ASSUME ViewRows = ViewCols, NEW over \in SUBSET ViewCells, NEW from \in SUBSET over
  PROVE  ViewMovedAll(ViewFlood(over, from)) = ViewFlood(ViewMovedAll(over), ViewMovedAll(from))
<1> DEFINE A == ViewFlood(over, from)
           O == ViewMovedAll(over)
           M == ViewMovedAll(from)
           B == ViewFlood(O, M)
           MA == ViewMovedAll(A)
<1>1. A \in SUBSET over /\ from \subseteq A /\ ViewShut(over, A) /\ \A S : from \subseteq S /\ ViewShut(over, S) => A \subseteq S
  BY ViewFloodIs
<1>2. O \in SUBSET ViewCells /\ M \in SUBSET O
  BY ViewMovedCount DEF ViewMovedAll
<1>3. B \in SUBSET O /\ M \subseteq B /\ ViewShut(O, B) /\ \A S : M \subseteq S /\ ViewShut(O, S) => B \subseteq S
  <2> HIDE DEF O, M
  <2> QED BY <1>2, ViewFloodIs
<1>4. \A x : /\ x \in O <=> \E k \in over : x = ViewMoved(k)
             /\ x \in M <=> \E k \in from : x = ViewMoved(k)
             /\ x \in MA <=> \E k \in A : x = ViewMoved(k)
  BY DEF ViewMovedAll
<1> HIDE DEF A, O, M, B, MA
<1>5. M \subseteq MA
  BY <1>1, <1>4
<1>6. ViewShut(O, MA)
  <2> SUFFICES ASSUME NEW v \in O, NEW w \in ViewBeside(v), w \in MA PROVE v \in MA
    BY DEF ViewShut
  <2>1. PICK k \in over : v = ViewMoved(k)
    BY <1>4
  <2>2. PICK j \in A : w = ViewMoved(j)
    BY <1>4
  <2>3. j \in ViewCells /\ k \in ViewCells
    BY <1>1
  <2>4. j \in ViewBeside(k)
    BY <2>1, <2>2, <2>3, ViewMovedIs
  <2>5. k \in A
    BY <1>1, <2>4 DEF ViewShut
  <2> QED BY <1>4, <2>1, <2>5
<1>7. B \subseteq MA
  BY <1>3, <1>5, <1>6
<1> DEFINE S == {k \in over : ViewMoved(k) \in B}
<1>8. from \subseteq S
  BY <1>3, <1>4
<1>9. ViewShut(over, S)
  <2> SUFFICES ASSUME NEW v \in over, NEW w \in ViewBeside(v), w \in S PROVE v \in S
    BY DEF ViewShut
  <2>1. w \in over /\ ViewMoved(w) \in B /\ w \in ViewCells /\ v \in ViewCells
    OBVIOUS
  <2>2. ViewMoved(w) \in ViewBeside(ViewMoved(v))
    BY <2>1, ViewMovedIs
  <2>3. ViewMoved(v) \in O
    BY <1>4
  <2>4. ViewMoved(v) \in B
    BY <1>3, <2>1, <2>2, <2>3 DEF ViewShut
  <2> QED BY <2>4
<1>10. A \subseteq S
  BY <1>1, <1>8, <1>9
<1>11. MA \subseteq B
  BY <1>4, <1>10
<1>12. MA = B
  BY <1>7, <1>11
<1> QED BY <1>12 DEF A, O, M, B, MA

(* On the axes, a cell is in the walls' box where walls lie on all sides.    *)
LEMMA ViewAxesBox ==
  ASSUME NEW walls \in SUBSET ViewCells, walls # {}, NEW k \in ViewCells
  PROVE  k \in ViewBoxed(walls, ViewAxes) <=>
           /\ \E w \in walls : ViewCol(w) <= ViewCol(k)
           /\ \E w \in walls : ViewCol(k) <= ViewCol(w)
           /\ \E w \in walls : ViewRow(w) <= ViewRow(k)
           /\ \E w \in walls : ViewRow(k) <= ViewRow(w)
<1>1. ASSUME NEW c \in ViewCells
      PROVE  ViewU(ViewAxes, c) = ViewCol(c) /\ ViewV(ViewAxes, c) = ViewRow(c)
             /\ ViewCol(c) \in 0..(ViewCols - 1) /\ ViewRow(c) \in 0..(ViewRows - 1)
  <2>1. ViewCol(c) \in Int /\ ViewRow(c) \in Int
    BY ViewSpot
  <2> QED BY <2>1, ViewRowsCols DEF ViewU, ViewV, ViewAxes
<1> DEFINE us == {ViewU(ViewAxes, w) : w \in walls}
           vs == {ViewV(ViewAxes, w) : w \in walls}
<1>2. k \in ViewBoxed(walls, ViewAxes) <=> ViewCol(k) \in ViewSide(us, 0) /\ ViewRow(k) \in ViewSide(vs, 0)
  <2>1. ViewTrim(ViewAxes) = 0
    BY DEF ViewTrim
  <2>2. ViewBoxed(walls, ViewAxes) = ViewWithin(ViewAxes, ViewSide(us, 0), ViewSide(vs, 0))
    BY <2>1 DEF ViewBoxed
  <2> HIDE DEF us, vs
  <2> QED BY <1>1, <2>2 DEF ViewWithin
<1>3. /\ us = {ViewCol(w) : w \in walls} /\ us \in SUBSET (0..(ViewCols - 1)) /\ us # {}
      /\ vs = {ViewRow(w) : w \in walls} /\ vs \in SUBSET (0..(ViewRows - 1)) /\ vs # {}
  BY <1>1
<1>4. ASSUME NEW N \in Nat, NEW S \in SUBSET (0..N), S # {}, NEW x \in Int
      PROVE  x \in ViewSide(S, 0) <=> (\E y \in S : y <= x) /\ (\E y \in S : x <= y)
  <2>1. Max(S) \in S /\ \A y \in S : y <= Max(S)
    BY <1>4, ViewGreatest
  <2>2. S \subseteq Nat
    OBVIOUS
  <2>3. Min(S) \in S /\ \A y \in S : Min(S) <= y
    BY <1>4, <2>2, LeastNatural
  <2> DEFINE a == Min(S)
             b == Max(S)
  <2>4. a \in Int /\ b \in Int /\ ViewSide(S, 0) = a..b
    <3>1. a \in Int /\ b \in Int
      <4>1. a \in S /\ b \in S
        BY <2>1, <2>3
      <4>2. \A y \in S : y \in Int
        OBVIOUS
      <4> HIDE DEF a, b
      <4> QED BY <4>1, <4>2
    <3>2. a + 0 = a /\ b - 0 = b
      BY <3>1
    <3> QED BY <3>1, <3>2 DEF ViewSide
  <2>5. a \in S /\ b \in S /\ \A y \in S : y \in Int /\ a <= y /\ y <= b
    BY <2>1, <2>2, <2>3
  <2> HIDE DEF a, b
  <2> QED BY <2>4, <2>5
<1> HIDE DEF us, vs
<1>5. ViewCols - 1 \in Nat /\ ViewRows - 1 \in Nat
  BY ViewSizes
<1>6. ViewCol(k) \in Int /\ ViewRow(k) \in Int
  BY ViewSpot
<1>7. ViewCol(k) \in ViewSide(us, 0) <=> (\E y \in us : y <= ViewCol(k)) /\ (\E y \in us : ViewCol(k) <= y)
  BY <1>3, <1>4, <1>5, <1>6
<1>8. ViewRow(k) \in ViewSide(vs, 0) <=> (\E y \in vs : y <= ViewRow(k)) /\ (\E y \in vs : ViewRow(k) <= y)
  BY <1>3, <1>4, <1>5, <1>6
<1>9. /\ (\E y \in us : y <= ViewCol(k)) <=> \E w \in walls : ViewCol(w) <= ViewCol(k)
      /\ (\E y \in us : ViewCol(k) <= y) <=> \E w \in walls : ViewCol(k) <= ViewCol(w)
      /\ (\E y \in vs : y <= ViewRow(k)) <=> \E w \in walls : ViewRow(w) <= ViewRow(k)
      /\ (\E y \in vs : ViewRow(k) <= y) <=> \E w \in walls : ViewRow(k) <= ViewRow(w)
  BY <1>3
<1> QED BY <1>2, <1>7, <1>8, <1>9

(* What is left of a map turned by a quarter is what was left of it, moved.  *)
LEMMA ViewQuarterLeft ==
  ASSUME ViewRows = ViewCols, NEW cells \in [ViewCells -> ViewInks3], NEW turned, turned = ViewQuarter(cells),
         ViewOnAxes(cells), ViewOnAxes(turned)
  PROVE  ViewLeftOf(turned) = ViewLeftOf(cells)
<1>1. \A k \in ViewCells : turned[k] = cells[ViewMoved(k)]
  BY DEF ViewQuarter, ViewMoved
<1>2. /\ \A k \in ViewCells : ViewMoved(k) \in ViewCells
      /\ \A j \in ViewCells : \E k \in ViewCells : ViewMoved(k) = j
      /\ \A k \in ViewCells : ViewRow(ViewMoved(k)) = ViewCols - 1 - ViewCol(k) /\ ViewCol(ViewMoved(k)) = ViewRow(k)
  BY ViewMovedIs
<1> DEFINE bc == ViewBox(cells)
           bt == ViewBox(turned)
           wc == ViewWallsOf(cells)
           wt == ViewWallsOf(turned)
<1>3. bc = ViewBoxed(wc, ViewAxes) /\ bt = ViewBoxed(wt, ViewAxes) /\ wc # {} /\ wt # {}
  BY DEF ViewOnAxes, ViewBox, ViewBoxOf
<1>4. /\ wc \in SUBSET ViewCells /\ wt \in SUBSET ViewCells
      /\ \A k \in ViewCells : k \in wt <=> ViewMoved(k) \in wc
  BY <1>1, <1>2 DEF ViewWallsOf
<1>5. bc \in SUBSET ViewCells /\ bt \in SUBSET ViewCells
  BY ViewBoxIs
<1> HIDE DEF bc, bt, wc, wt
<1>6. ASSUME NEW k \in ViewCells PROVE k \in bt <=> ViewMoved(k) \in bc
  <2> DEFINE m == ViewMoved(k)
  <2>1. m \in ViewCells /\ ViewRow(m) = ViewCols - 1 - ViewCol(k) /\ ViewCol(m) = ViewRow(k)
    BY <1>2
  <2> HIDE DEF m
  <2>2. k \in bt <=> /\ \E w \in wt : ViewCol(w) <= ViewCol(k)
                     /\ \E w \in wt : ViewCol(k) <= ViewCol(w)
                     /\ \E w \in wt : ViewRow(w) <= ViewRow(k)
                     /\ \E w \in wt : ViewRow(k) <= ViewRow(w)
    BY <1>3, <1>4, ViewAxesBox
  <2>3. m \in bc <=> /\ \E w \in wc : ViewCol(w) <= ViewCol(m)
                     /\ \E w \in wc : ViewCol(m) <= ViewCol(w)
                     /\ \E w \in wc : ViewRow(w) <= ViewRow(m)
                     /\ \E w \in wc : ViewRow(m) <= ViewRow(w)
    BY <1>3, <1>4, <2>1, ViewAxesBox
  <2>4. \A w \in ViewCells : /\ ViewCol(w) <= ViewCol(k) <=> ViewRow(m) <= ViewRow(ViewMoved(w))
                             /\ ViewCol(k) <= ViewCol(w) <=> ViewRow(ViewMoved(w)) <= ViewRow(m)
                             /\ ViewRow(w) <= ViewRow(k) <=> ViewCol(ViewMoved(w)) <= ViewCol(m)
                             /\ ViewRow(k) <= ViewRow(w) <=> ViewCol(m) <= ViewCol(ViewMoved(w))
    <3> SUFFICES ASSUME NEW w \in ViewCells
                 PROVE  /\ ViewCol(w) <= ViewCol(k) <=> ViewRow(m) <= ViewRow(ViewMoved(w))
                        /\ ViewCol(k) <= ViewCol(w) <=> ViewRow(ViewMoved(w)) <= ViewRow(m)
                        /\ ViewRow(w) <= ViewRow(k) <=> ViewCol(ViewMoved(w)) <= ViewCol(m)
                        /\ ViewRow(k) <= ViewRow(w) <=> ViewCol(m) <= ViewCol(ViewMoved(w))
      OBVIOUS
    <3>1. ViewRow(ViewMoved(w)) = ViewCols - 1 - ViewCol(w) /\ ViewCol(ViewMoved(w)) = ViewRow(w)
      BY <1>2
    <3>2. ViewRow(w) \in Int /\ ViewCol(w) \in Int /\ ViewRow(k) \in Int /\ ViewCol(k) \in Int /\ ViewCols \in Int
      BY ViewSpot, ViewSizes
    <3> QED BY <2>1, <3>1, <3>2
  <2>5. ASSUME NEW w \in wt PROVE w \in ViewCells /\ ViewMoved(w) \in wc
    BY <1>4
  <2>6. ASSUME NEW w \in wc PROVE \E v \in wt : ViewMoved(v) = w
    BY <1>2, <1>4
  <2>7. /\ (\E w \in wt : ViewCol(w) <= ViewCol(k)) <=> \E w \in wc : ViewRow(m) <= ViewRow(w)
        /\ (\E w \in wt : ViewCol(k) <= ViewCol(w)) <=> \E w \in wc : ViewRow(w) <= ViewRow(m)
        /\ (\E w \in wt : ViewRow(w) <= ViewRow(k)) <=> \E w \in wc : ViewCol(w) <= ViewCol(m)
        /\ (\E w \in wt : ViewRow(k) <= ViewRow(w)) <=> \E w \in wc : ViewCol(m) <= ViewCol(w)
    <3>1. (\E w \in wt : ViewCol(w) <= ViewCol(k)) <=> \E w \in wc : ViewRow(m) <= ViewRow(w)
      BY <2>4, <2>5, <2>6
    <3>2. (\E w \in wt : ViewCol(k) <= ViewCol(w)) <=> \E w \in wc : ViewRow(w) <= ViewRow(m)
      BY <2>4, <2>5, <2>6
    <3>3. (\E w \in wt : ViewRow(w) <= ViewRow(k)) <=> \E w \in wc : ViewCol(w) <= ViewCol(m)
      BY <2>4, <2>5, <2>6
    <3>4. (\E w \in wt : ViewRow(k) <= ViewRow(w)) <=> \E w \in wc : ViewCol(m) <= ViewCol(w)
      BY <2>4, <2>5, <2>6
    <3> QED BY <3>1, <3>2, <3>3, <3>4
  <2>8. k \in bt <=> m \in bc
    BY <2>2, <2>3, <2>7
  <2> QED BY <2>8 DEF m
<1> DEFINE uc == ViewUnknown(cells, bc)
           ut == ViewUnknown(turned, bt)
           tc == {k \in uc : ViewTouches(cells, bc, k)}
           tt == {k \in ut : ViewTouches(turned, bt, k)}
<1>7. ASSUME NEW k \in ViewCells PROVE ViewTouches(turned, bt, k) <=> ViewTouches(cells, bc, ViewMoved(k))
  <2>1. ASSUME NEW f \in ViewBeside(k) \cap bt, turned[f] = "free" PROVE ViewTouches(cells, bc, ViewMoved(k))
    <3>1. f \in ViewCells
      BY <1>5
    <3>2. ViewMoved(f) \in ViewBeside(ViewMoved(k)) /\ ViewMoved(f) \in bc /\ cells[ViewMoved(f)] = "free"
      BY <1>1, <1>6, <2>1, <3>1, ViewMovedIs
    <3> QED BY <3>2 DEF ViewTouches
  <2>2. ASSUME NEW g \in ViewBeside(ViewMoved(k)) \cap bc, cells[g] = "free" PROVE ViewTouches(turned, bt, k)
    <3>1. PICK f \in ViewCells : ViewMoved(f) = g
      BY <1>2, <1>5
    <3>2. f \in ViewBeside(k) /\ f \in bt /\ turned[f] = "free"
      BY <1>1, <1>6, <2>2, <3>1, ViewMovedIs
    <3> QED BY <3>2 DEF ViewTouches
  <2> QED BY <2>1, <2>2 DEF ViewTouches
<1>8. uc \in SUBSET ViewCells /\ ut \in SUBSET ViewCells /\ uc = ViewMovedAll(ut)
  <2>1. uc \in SUBSET ViewCells /\ ut \in SUBSET ViewCells
    BY <1>5 DEF ViewUnknown
  <2>2. ASSUME NEW k \in ViewCells PROVE k \in ut <=> ViewMoved(k) \in uc
    BY <1>1, <1>6 DEF ViewUnknown
  <2> HIDE DEF uc, ut
  <2>3. \A x : x \in ViewMovedAll(ut) <=> \E k \in ut : x = ViewMoved(k)
    BY DEF ViewMovedAll
  <2>4. \A x \in uc : x \in ViewMovedAll(ut)
    BY <1>2, <2>1, <2>2, <2>3
  <2>5. \A x \in ViewMovedAll(ut) : x \in uc
    BY <2>1, <2>2, <2>3
  <2> QED BY <2>1, <2>4, <2>5
<1>9. tc \in SUBSET uc /\ tt \in SUBSET ut /\ tc = ViewMovedAll(tt)
  <2>1. ASSUME NEW x \in tc PROVE x \in ViewMovedAll(tt)
    <3>1. PICK k \in ut : x = ViewMoved(k)
      BY <1>8 DEF ViewMovedAll
    <3>2. k \in tt
      BY <1>7, <1>8, <2>1, <3>1
    <3> QED BY <3>1, <3>2 DEF ViewMovedAll
  <2>2. ASSUME NEW x \in ViewMovedAll(tt) PROVE x \in tc
    <3>1. PICK k \in tt : x = ViewMoved(k)
      BY DEF ViewMovedAll
    <3>2. x \in uc
      BY <1>8, <3>1 DEF ViewMovedAll
    <3> QED BY <1>7, <1>8, <3>1, <3>2
  <2> QED BY <2>1, <2>2
<1> DEFINE oc == ViewShare(cells).open
           ot == ViewShare(turned).open
           pc == ViewPieces(cells)
           pt == ViewPieces(turned)
<1>10. oc = ViewFlood(uc, tc) /\ ot = ViewFlood(ut, tt)
  BY DEF ViewShare, ViewOpen, bc, bt
<1>11. /\ pc = {piece \in {ViewFlood(uc, {k}) : k \in uc} : \E k \in piece : ViewTouches(cells, bc, k)}
       /\ pt = {piece \in {ViewFlood(ut, {k}) : k \in ut} : \E k \in piece : ViewTouches(turned, bt, k)}
  BY DEF ViewPieces, ViewPiecesOf, bc, bt
<1> HIDE DEF uc, ut, tc, tt, oc, ot, pc, pt
<1>12. oc = ViewMovedAll(ot) /\ ot \in SUBSET ViewCells
  BY <1>8, <1>9, <1>10, ViewMovedFlood, ViewFloodIs
<1>13. Cardinality(oc) = Cardinality(ot)
  BY <1>12, ViewMovedCount
<1>14. ASSUME NEW k \in ut
       PROVE  /\ ViewFlood(uc, {ViewMoved(k)}) = ViewMovedAll(ViewFlood(ut, {k}))
              /\ ViewFlood(ut, {k}) \in SUBSET ut
  <2>1. {k} \in SUBSET ut /\ ViewMovedAll({k}) = {ViewMoved(k)}
    BY DEF ViewMovedAll
  <2> QED BY <1>8, <2>1, ViewMovedFlood, ViewFloodIs
<1>15. ASSUME NEW p \in SUBSET ut
       PROVE  (\E k \in p : ViewTouches(turned, bt, k)) <=> (\E k \in ViewMovedAll(p) : ViewTouches(cells, bc, k))
  BY <1>7, <1>8 DEF ViewMovedAll
<1>16. ASSUME NEW p \in pt PROVE p \in SUBSET ut /\ ViewMovedAll(p) \in pc
  <2>1. PICK k \in ut : p = ViewFlood(ut, {k})
    BY <1>11
  <2>2. p \in SUBSET ut /\ ViewMovedAll(p) = ViewFlood(uc, {ViewMoved(k)})
    BY <1>14, <2>1
  <2>3. ViewMoved(k) \in uc
    BY <1>8 DEF ViewMovedAll
  <2>4. \E j \in ViewMovedAll(p) : ViewTouches(cells, bc, j)
    BY <1>11, <1>15, <2>2
  <2> QED BY <1>11, <2>2, <2>3, <2>4
<1>17. ASSUME NEW q \in pc PROVE \E p \in pt : q = ViewMovedAll(p)
  <2>1. PICK j \in uc : q = ViewFlood(uc, {j})
    BY <1>11
  <2>2. PICK k \in ut : j = ViewMoved(k)
    BY <1>8 DEF ViewMovedAll
  <2> DEFINE p == ViewFlood(ut, {k})
  <2>3. q = ViewMovedAll(p) /\ p \in SUBSET ut
    BY <1>14, <2>1, <2>2
  <2>4. \E i \in p : ViewTouches(turned, bt, i)
    <3> HIDE DEF p
    <3> QED BY <1>11, <1>15, <2>3
  <2>5. p \in pt
    BY <1>11, <2>4
  <2> QED BY <2>3, <2>5
<1>18. {Cardinality(piece) : piece \in pc} = {Cardinality(piece) : piece \in pt}
  <2>1. ASSUME NEW p \in pt PROVE Cardinality(ViewMovedAll(p)) = Cardinality(p)
    <3>1. p \in SUBSET ViewCells
      BY <1>8, <1>16
    <3> QED BY <3>1, ViewMovedCount
  <2>2. ASSUME NEW q \in pc PROVE \E p \in pt : Cardinality(q) = Cardinality(p)
    BY <1>17, <2>1
  <2>3. ASSUME NEW p \in pt PROVE \E q \in pc : Cardinality(q) = Cardinality(p)
    BY <1>16, <2>1
  <2> QED BY <2>2, <2>3
<1>19. ViewLargest(cells) = ViewLargest(turned)
  BY <1>18 DEF ViewLargest, ViewLargestOf, pc, pt
<1> DEFINE fc == {k \in ViewCells : cells[k] = "free"}
           ft == {k \in ViewCells : turned[k] = "free"}
<1>20. fc = ViewMovedAll(ft) /\ ft \in SUBSET ViewCells
  <2>1. ASSUME NEW x \in fc PROVE x \in ViewMovedAll(ft)
    <3>1. PICK k \in ViewCells : ViewMoved(k) = x
      BY <1>2
    <3>2. k \in ft
      BY <1>1, <2>1, <3>1
    <3> QED BY <3>1, <3>2 DEF ViewMovedAll
  <2>2. ASSUME NEW x \in ViewMovedAll(ft) PROVE x \in fc
    <3>1. PICK k \in ft : ViewMoved(k) = x
      BY DEF ViewMovedAll
    <3> QED BY <1>1, <1>2, <3>1
  <2> QED BY <2>1, <2>2
<1>21. Cardinality(fc) = Cardinality(ft)
  <2> HIDE DEF fc, ft
  <2> QED BY <1>20, ViewMovedCount
<1>22. ViewShare(cells).free = ViewShare(turned).free
  BY <1>21 DEF ViewShare
<1> QED BY <1>13, <1>19, <1>22 DEF ViewLeftOf, oc, ot

(* What is left does not change as the view's map is turned by a quarter.    *)
LEMMA ViewTurnsAre == ASSUME ViewTypeOK PROVE ViewTurnsTrue
<1>1. ViewRead(view) \in [ViewCells -> ViewInks3]
  BY ViewReadIs
<1>2. ASSUME NEW cells \in {ViewRead(view)}, NEW turned \in {ViewQuarter(cells)},
             ViewRows = ViewCols, ViewOnAxes(cells), ViewOnAxes(turned)
      PROVE  ViewLeftOf(turned) = ViewLeftOf(cells)
  BY <1>1, <1>2, ViewQuarterLeft
<1> QED BY <1>2 DEF ViewTurnsTrue

(* What a view may be, said once for a view and once for the next.           *)
ViewTyped(v) ==
  /\ v.house \in ViewWalls /\ v.at \in ViewCells /\ v.band \subseteq ViewBanded
  /\ v.cells \in [ViewCells -> {"unknown", "free", "wall"}]
ViewShaped(v) == v = [house |-> v.house, cells |-> v.cells, band |-> v.band, at |-> v.at]
ViewInv == ViewTyped(view) /\ ViewShaped(view)

(* A view starts as one may be.                                              *)
LEMMA ViewStarts ==
  ASSUME NEW h \in ViewWalls
  PROVE  ViewTyped(ViewStart(h)) /\ ViewShaped(ViewStart(h))
<1> DEFINE at == CHOOSE k \in ViewStands : \A j \in ViewStands : k <= j
<1>1. at \in ViewCells
  <2>1. ViewStands \subseteq Nat
    BY ViewSizes, ViewRowsCols
  <2>2. Min(ViewStands) \in ViewStands
    BY <2>1, ViewSizes, LeastNatural
  <2> QED BY <2>2, ViewSizes DEF Min
<1> HIDE DEF at
<1>2. ViewStart(h) = [house |-> h, cells |-> [k \in ViewCells |-> IF k \in ViewHidden THEN "unknown" ELSE ViewTruth(h, k)],
                      band |-> {}, at |-> at]
  BY DEF ViewStart, at
<1>3. [k \in ViewCells |-> IF k \in ViewHidden THEN "unknown" ELSE ViewTruth(h, k)]
        \in [ViewCells -> {"unknown", "free", "wall"}]
  BY DEF ViewTruth
<1> QED BY <1>1, <1>2, <1>3 DEF ViewTyped, ViewShaped

(* The first view is one.                                                    *)
LEMMA ViewStarted == ASSUME ViewInit PROVE ViewInv
BY ViewStarts DEF ViewInit, ViewInv

(* Every step keeps it one.                                                  *)
LEMMA ViewStepped == ASSUME ViewInv, ViewNext PROVE ViewInv'
<1>1. ViewTyped(view) /\ ViewShaped(view)
  BY DEF ViewInv
<1>2. ASSUME NEW k \in ViewLeft, ViewInks(k) PROVE ViewInv'
  <2>1. view' = [view EXCEPT !.cells[k] = ViewTruth(view.house, k)]
    BY <1>2 DEF ViewInks
  <2>2. ViewTruth(view.house, k) \in {"unknown", "free", "wall"}
    BY DEF ViewTruth
  <2>3. /\ view'.house = view.house /\ view'.at = view.at /\ view'.band = view.band
        /\ view'.cells = [view.cells EXCEPT ![k] = ViewTruth(view.house, k)] /\ ViewShaped(view')
    BY <1>1, <2>1 DEF ViewShaped
  <2>4. ViewTyped(view')
    BY <1>1, <2>2, <2>3 DEF ViewTyped
  <2> QED BY <2>3, <2>4 DEF ViewInv
<1>3. ASSUME NEW k \in ViewBanded, ViewBlocks(k) PROVE ViewInv'
  <2>1. view' = [view EXCEPT !.band = @ \cup {k}]
    BY <1>3 DEF ViewBlocks
  <2>2. /\ view'.house = view.house /\ view'.at = view.at /\ view'.band = view.band \cup {k}
        /\ view'.cells = view.cells /\ ViewShaped(view')
    BY <1>1, <2>1 DEF ViewShaped
  <2>3. ViewTyped(view')
    BY <1>1, <2>2 DEF ViewTyped
  <2> QED BY <2>2, <2>3 DEF ViewInv
<1>4. ASSUME NEW k \in ViewStands, ViewWalks(k) PROVE ViewInv'
  <2>1. view' = [view EXCEPT !.at = k] /\ k \in ViewCells
    BY <1>4, ViewSizes DEF ViewWalks
  <2>2. /\ view'.house = view.house /\ view'.at = k /\ view'.band = view.band
        /\ view'.cells = view.cells /\ ViewShaped(view')
    BY <1>1, <2>1 DEF ViewShaped
  <2>3. ViewTyped(view')
    BY <1>1, <2>1, <2>2 DEF ViewTyped
  <2> QED BY <2>2, <2>3 DEF ViewInv
<1> QED BY <1>2, <1>3, <1>4 DEF ViewNext

(* A view that may be is read truly.                                         *)
LEMMA ViewInvSays == ASSUME ViewInv PROVE ViewTypeOK /\ ViewTrue
<1>1. ViewTypeOK
  BY DEF ViewInv, ViewTyped, ViewTypeOK
<1> QED BY <1>1, ViewLanesAre, ViewStepsAre, ViewAheadsAre, ViewHousesAre, ViewTurnsAre DEF ViewTrue

(* On every grid, in every house, with any band: a clear lane has no wall in *)
(* it, the first step is as the ink has it, with nothing unknown ahead a ray *)
(* ends in none, the two readings of what is left of the house agree, and a  *)
(* quarter turn of the map leaves them as they are.                          *)
THEOREM ViewHolds == ViewSpec => [](ViewTypeOK /\ ViewTrue)
<1>1. ViewInit => ViewInv
  BY ViewStarted
<1>2. ViewInv /\ [ViewNext]_view => ViewInv'
  BY ViewStepped DEF ViewInv, ViewTyped, ViewShaped
<1>3. ViewInv => ViewTypeOK /\ ViewTrue
  BY ViewInvSays
<1> QED BY <1>1, <1>2, <1>3, PTL DEF ViewSpec
=============================================================================
