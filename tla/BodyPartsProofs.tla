--------------------------- MODULE BodyPartsProofs ---------------------------
(* The steps, the lanes and the searches under a job, and the places it walks *)
(* to: what TLC checks of each in one instance (MCBody), proved for any.      *)
EXTENDS MCBody, FiniteSetTheorems, WellFoundedInduction, TLAPS

-----------------------------------------------------------------------------
(* A pose that is trusted and not shaken is right; and the books, but where  *)
(* a moved map or a record on a lost pose has them wrong, hold no drop but   *)
(* the hole.                                                                 *)
BodyRight == body.trusted /\ ~body.shaken => body.off = 0

BooksInv == BooksTypeOK /\ BodyRight /\ BooksTrue

LEMMA BooksPlaced ==
  /\ BooksLast \in Nat /\ BooksLast >= 3 /\ BooksHole = 1 /\ BooksHole \in BooksPlaces
  /\ BooksPlaces \subseteq Nat
BY BooksAssumption DEF BooksPlaces, BooksHole

LEMMA BooksTyped ==
  ASSUME BooksTypeOK
  PROVE  /\ books.local \in [BooksPlaces -> BooksMarks] /\ books.walked \subseteq BooksPlaces
         /\ books.bookable \in BOOLEAN /\ books.frozen \in BOOLEAN /\ books.behind \in BOOLEAN
         /\ books.slipped \in BOOLEAN /\ books.fell \in {"no", "down", "up"}
         /\ body.at \in BooksPlaces \ {BooksHole} /\ body.shift \in 0 .. 1 /\ body.off \in 0 .. 1
         /\ body.trusted \in BOOLEAN /\ body.seated \in BOOLEAN /\ body.shaken \in BOOLEAN
BY DEF BooksTypeOK, BooksKept, Bodies

LEMMA BooksInitInv == BooksInit => BooksInv
<1> SUFFICES ASSUME BooksInit PROVE BooksInv
  OBVIOUS
<1> DEFINE local(hole) == [p \in BooksPlaces |-> IF p = BooksHole THEN hole ELSE "none"]
<1>1. books \in {BooksFresh(frozen, local(hole)) : frozen \in BOOLEAN, hole \in {"none", "drop"}}
  BY DEF BooksInit, BooksInits
<1>2. \A hole \in {"none", "drop"} : local(hole) \in [BooksPlaces -> BooksMarks]
  BY DEF BooksMarks
<1>3. \A hole \in {"none", "drop"} : {p \in BooksPlaces : local(hole)[p] = "drop"} \subseteq {BooksHole}
  OBVIOUS
<1> HIDE DEF local
<1>4. PICK frozen \in BOOLEAN, hole \in {"none", "drop"} : books = BooksFresh(frozen, local(hole))
  BY <1>1
<1>5. books \in BooksKept /\ books.local = local(hole)
  BY <1>2, <1>4 DEF BooksFresh, BooksKept
<1>6. body \in Bodies /\ body.shift = 0 /\ body.off = 0
  <2>1. 2 \in BooksPlaces \ {BooksHole}
    BY BooksPlaced DEF BooksPlaces
  <2> QED BY <2>1 DEF BooksInit, BodyStart, Bodies
<1>7. BodyHoleAt = BooksHole
  BY <1>6, BooksPlaced DEF BodyHoleAt
<1> QED BY <1>3, <1>5, <1>6, <1>7 DEF BooksInv, BooksTypeOK, BodyRight, BooksTrue, BooksDrops

-----------------------------------------------------------------------------
(* What the body and the mapper do leaves the books alone, and what is       *)
(* trusted right; but a map that moves leaves them behind.                   *)
LEMMA BodyKeeps ==
  ASSUME BooksInv, BodySteps \/ BodyLost \/ BodyUp \/ BodyFound \/ BodySettles
  PROVE  BooksInv' /\ books' = books /\ body'.shift = body.shift
<1>t. BooksTypeOK /\ body \in Bodies /\ BodyRight /\ BooksTrue
  BY DEF BooksInv, BooksTypeOK
<1>f. body.trusted \in BOOLEAN /\ body.shaken \in BOOLEAN /\ body.off \in 0 .. 1
  BY <1>t, BooksTyped
<1>1. books' = books
  BY DEF BodySteps, BodyLost, BodyUp, BodyFound, BodySettles
<1>2. body' \in Bodies /\ body'.shift = body.shift /\ BodyRight'
  <2>1. CASE BodySteps
    <3>1. PICK p \in BooksPlaces \ {BooksHole} : body' = [body EXCEPT !.at = p]
      BY <2>1 DEF BodySteps
    <3> QED BY <1>t, <3>1 DEF Bodies, BodyRight
  <2>2. CASE BodyLost
    <3>1. PICK off \in 0 .. 1, fell \in BOOLEAN, shaken \in BOOLEAN :
            body' = [body EXCEPT !.trusted = FALSE, !.off = off, !.seated = fell, !.shaken = shaken]
      <4>1. PICK off \in 0 .. 1, fell \in BOOLEAN :
              body' = [body EXCEPT !.trusted = FALSE, !.off = off, !.seated = fell, !.shaken = @ \/ fell]
        BY <2>2 DEF BodyLost
      <4>2. PICK shaken \in BOOLEAN : shaken = (body.shaken \/ fell)
        OBVIOUS
      <4> QED BY <4>1, <4>2
    <3> QED BY <1>t, <3>1 DEF Bodies, BodyRight
  <2>3. CASE BodyUp
    BY <1>t, <2>3 DEF Bodies, BodyRight, BodyUp
  <2>4. CASE BodyFound
    <3>1. PICK off \in 0 .. 1 : /\ off # 0 => body.shaken
                                /\ body' = [body EXCEPT !.trusted = TRUE, !.off = off]
      BY <2>4 DEF BodyFound
    <3> QED BY <1>t, <3>1 DEF Bodies, BodyRight
  <2>5. CASE BodySettles
    <3>1. body' = [body EXCEPT !.shaken = FALSE, !.off = 0] /\ 0 \in 0 .. 1
      BY <2>5 DEF BodySettles
    <3>2. body' \in Bodies /\ body'.shift = body.shift /\ body'.off = 0
      BY <1>t, <3>1 DEF Bodies
    <3> QED BY <3>2 DEF BodyRight
  <2> QED BY <2>1, <2>2, <2>3, <2>4, <2>5
<1>3. BooksTrue'
  BY <1>t, <1>1, <1>2 DEF BooksTrue, BooksDrops, BodyHoleAt
<1> QED BY <1>t, <1>1, <1>2, <1>3 DEF BooksInv, BooksTypeOK

LEMMA BodyMapMovesKeeps ==
  ASSUME BooksInv, BodyMapMoves
  PROVE  BooksInv' /\ body'.shift # body.shift
<1>t. BooksTypeOK /\ body \in Bodies /\ books \in BooksKept /\ BodyRight /\ body.shift = 0
  BY DEF BooksInv, BooksTypeOK, BodyMapMoves
<1>1. /\ body' \in Bodies /\ body'.shift = 1 /\ body'.trusted = body.trusted
      /\ body'.shaken = body.shaken /\ body'.off = body.off
  BY <1>t DEF BodyMapMoves, Bodies
<1>2. books' \in BooksKept /\ books'.behind = TRUE
  BY <1>t DEF BodyMapMoves, BooksKept
<1> QED BY <1>t, <1>1, <1>2 DEF BooksInv, BooksTypeOK, BodyRight, BooksTrue

(* What the job does leaves the body alone: its books need only their type,  *)
(* and no drop that was not there but the hole, where they may be believed.  *)
LEMMA BooksKeep ==
  ASSUME BooksInv, body' = body, books' \in BooksKept,
         (books.behind \/ books.slipped) => (books'.behind \/ books'.slipped \/ BooksDrops' = {}),
         ~books'.behind /\ ~books'.slipped => BooksDrops' \subseteq BooksDrops \cup {BodyHoleAt}
  PROVE  BooksInv'
<1>t. BooksTypeOK /\ BodyRight /\ BooksTrue
  BY DEF BooksInv
<1>1. books.behind \in BOOLEAN /\ books.slipped \in BOOLEAN
  BY <1>t, BooksTyped
<1>2. BodyHoleAt' = BodyHoleAt
  BY DEF BodyHoleAt
<1>3. BooksTrue'
  BY <1>t, <1>1, <1>2 DEF BooksTrue
<1> QED BY <1>t, <1>3 DEF BooksInv, BooksTypeOK, BodyRight

(* What is forgotten around takes no drop; what is struck takes the one the  *)
(* body stands on.                                                           *)
LEMMA BooksForgetNoDrop ==
  ASSUME NEW local \in [BooksPlaces -> BooksMarks], NEW gone
  PROVE  /\ BooksForgets(local, gone) \in [BooksPlaces -> BooksMarks]
         /\ \A p \in BooksPlaces : BooksForgets(local, gone)[p] = "drop" <=> local[p] = "drop"
BY DEF BooksForgets, BooksMarks

LEMMA BooksNotes ==
  ASSUME BooksTypeOK, NEW b \in BooksNoted(books, body)
  PROVE  /\ b \in BooksKept /\ b.local = books.local /\ b.walked = books.walked
         /\ b.frozen = books.frozen /\ b.behind = books.behind /\ b.slipped = books.slipped
<1> DEFINE fell == CASE body.seated -> {"down"}
                     [] ~body.seated /\ books.fell = "no" -> {"no"}
                     [] ~body.seated /\ books.fell # "no" /\ ~body.trusted -> {"down"}
                     [] ~body.seated /\ books.fell = "down" /\ body.trusted -> {"up"}
                     [] ~body.seated /\ books.fell = "up" /\ body.trusted ->
                          IF body.shaken THEN {"up"} ELSE {"up", "no"}
<1>1. PICK f \in fell : b = [books EXCEPT !.fell = f, !.bookable = body.trusted /\ ~body.seated /\ f = "no"]
  BY DEF BooksNoted
<1>2. f \in {"no", "down", "up"}
  BY BooksTyped
<1> HIDE DEF fell
<1>3. PICK bookable \in BOOLEAN : b = [books EXCEPT !.fell = f, !.bookable = bookable]
  <2>1. PICK bookable \in BOOLEAN : bookable = (body.trusted /\ ~body.seated /\ f = "no")
    OBVIOUS
  <2> QED BY <1>1, <2>1
<1>4. books \in BooksKept
  BY DEF BooksTypeOK
<1> QED BY <1>2, <1>3, <1>4 DEF BooksKept

-----------------------------------------------------------------------------
LEMMA BooksTurnKeeps ==
  ASSUME BooksInv, BooksTurn
  PROVE  /\ BooksInv'
         /\ BodyHoleAt \in BooksDrops /\ ~body.shaken
              /\ (books.frozen \/ books'.local # [p \in BooksPlaces |-> "none"])
              => BodyHoleAt \in BooksDrops'
<1>t. BooksTypeOK /\ BodyRight /\ body' = body
  BY DEF BooksInv, BooksTurn
<1>f. /\ books.local \in [BooksPlaces -> BooksMarks] /\ books.walked \subseteq BooksPlaces
      /\ books.frozen \in BOOLEAN /\ books.behind \in BOOLEAN /\ books.slipped \in BOOLEAN
      /\ body.at \in BooksPlaces \ {BooksHole} /\ body.shift \in 0 .. 1 /\ body.off \in 0 .. 1
      /\ body.trusted \in BOOLEAN /\ body.shaken \in BOOLEAN
  BY <1>t, BooksTyped
<1>1. PICK b \in BooksNoted(books, body), jumped \in BOOLEAN :
        LET cleared == IF jumped /\ ~b.frozen
                       THEN [b EXCEPT !.local = [p \in BooksPlaces |-> "none"]] ELSE b
            settled == [cleared EXCEPT !.behind = @ /\ ~(jumped /\ ~b.frozen)]
        IN books' = IF jumped \/ ~body.trusted THEN settled
                    ELSE [settled EXCEPT !.local = BooksStruck(settled, BodyHere),
                                         !.walked = @ \cup ({BodyHere} \cap BooksPlaces)]
  BY DEF BooksTurn
<1>2. /\ b \in BooksKept /\ b.local = books.local /\ b.walked = books.walked
      /\ b.frozen = books.frozen /\ b.behind = books.behind /\ b.slipped = books.slipped
  BY <1>t, BooksNotes
<1> DEFINE clears == jumped /\ ~books.frozen
           none == [p \in BooksPlaces |-> "none"]
           cleared == IF clears THEN [b EXCEPT !.local = none] ELSE b
           settled == [cleared EXCEPT !.behind = @ /\ ~clears]
<1>3. none \in [BooksPlaces -> BooksMarks] /\ \A p \in BooksPlaces : none[p] # "drop"
  BY DEF BooksMarks
<1>4. /\ cleared \in BooksKept /\ cleared.local = IF clears THEN none ELSE books.local
      /\ cleared.walked = books.walked
      /\ cleared.behind = books.behind /\ cleared.slipped = books.slipped
  <2> HIDE DEF none
  <2> QED BY <1>2, <1>3 DEF BooksKept
<1>5. /\ settled \in BooksKept /\ settled.local = IF clears THEN none ELSE books.local
      /\ settled.walked = books.walked /\ settled.slipped = books.slipped
      /\ settled.behind = (books.behind /\ ~clears)
  <2> HIDE DEF cleared, none
  <2>1. PICK behind \in BOOLEAN : behind = (books.behind /\ ~clears)
    OBVIOUS
  <2>2. settled = [cleared EXCEPT !.behind = behind]
    BY <1>4, <2>1
  <2> QED BY <1>4, <2>1, <2>2 DEF BooksKept
<1>6. books' = IF jumped \/ ~body.trusted THEN settled
               ELSE [settled EXCEPT !.local = BooksStruck(settled, BodyHere),
                                    !.walked = @ \cup ({BodyHere} \cap BooksPlaces)]
  BY <1>1, <1>2
<1>7. CASE jumped \/ ~body.trusted
  <2>1. books' = settled
    BY <1>6, <1>7
  <2> HIDE DEF settled, cleared
  <2>2. CASE clears
    <3>1. books'.local = none
      BY <1>5, <2>1, <2>2
    <3>2. BooksDrops' = {}
      BY <1>3, <3>1 DEF BooksDrops
    <3>3. ~books.frozen /\ books'.local = [p \in BooksPlaces |-> "none"]
      BY <2>2, <3>1
    <3> QED BY <1>5, <1>t, <2>1, <3>2, <3>3, BooksKeep
  <2>3. CASE ~clears
    <3>1. books'.local = books.local /\ books'.behind = books.behind /\ books'.slipped = books.slipped
      BY <1>f, <1>5, <2>1, <2>3
    <3>2. BooksDrops' = BooksDrops
      BY <3>1 DEF BooksDrops
    <3> HIDE DEF clears
    <3> QED BY <1>5, <1>t, <2>1, <3>1, <3>2, BooksKeep
  <2> QED BY <2>2, <2>3
<1>8. CASE ~jumped /\ body.trusted
  <2> DEFINE struck == BooksStruck(settled, BodyHere)
             walked == settled.walked \cup ({BodyHere} \cap BooksPlaces)
  <2>1. books' = [settled EXCEPT !.local = struck, !.walked = walked]
    BY <1>6, <1>8
  <2>2. /\ settled.local = books.local /\ settled.behind = books.behind
        /\ settled.slipped = books.slipped /\ settled.walked = books.walked /\ settled \in BooksKept
    BY <1>5, <1>8, <1>f
  <2> HIDE DEF settled, cleared, clears, none
  <2>3. struck = [p \in BooksPlaces |-> IF p = BodyHere /\ books.local[p] = "drop" THEN "none"
                                        ELSE books.local[p]]
    BY <2>2 DEF BooksStruck
  <2>4. struck \in [BooksPlaces -> BooksMarks]
    BY <1>f, <2>3 DEF BooksMarks
  <2>5. walked \in SUBSET BooksPlaces
    BY <1>f, <2>2
  <2>6. \A p \in BooksPlaces : struck[p] = "drop" <=> (books.local[p] = "drop" /\ p # BodyHere)
    BY <2>3
  <2> HIDE DEF struck, walked
  <2>7. /\ books' \in BooksKept /\ books'.local = struck /\ books'.behind = books.behind
        /\ books'.slipped = books.slipped
    BY <2>1, <2>2, <2>4, <2>5 DEF BooksKept
  <2>8. BooksDrops' = BooksDrops \ {BodyHere}
    BY <2>6, <2>7 DEF BooksDrops
  <2>9. ~body.shaken => BodyHere # BodyHoleAt
    <3>1. ~body.shaken => body.off = 0
      BY <1>t, <1>8 DEF BodyRight
    <3>2. body.at \in Nat /\ body.at # 1 /\ body.shift \in Nat
      <4>1. body.at \in BooksPlaces /\ body.at # BooksHole
        BY <1>f
      <4>2. body.shift \in Nat
        BY <1>f
      <4> QED BY <4>1, <4>2, BooksPlaced
    <3> QED BY <3>1, <3>2, BooksPlaced DEF BodyHere, BodyHoleAt
  <2>10. BooksInv'
    BY <1>t, <2>7, <2>8, BooksKeep
  <2> QED BY <2>8, <2>9, <2>10
<1> QED BY <1>7, <1>8

LEMMA BooksLegKeeps == ASSUME BooksInv, BooksLeg PROVE BooksInv' /\ BooksDrops' = BooksDrops
<1>t. BooksTypeOK /\ body' = body
  BY DEF BooksInv, BooksLeg
<1>f. books.local \in [BooksPlaces -> BooksMarks] /\ books.walked \subseteq BooksPlaces
  BY <1>t, BooksTyped
<1>1. PICK b \in BooksNoted(books, body), gone \in {{}, BooksPlaces} :
        books' = IF body.trusted
                 THEN [b EXCEPT !.local = BooksForgets(@, gone), !.walked = @ \cup ({BodyHere} \cap BooksPlaces)]
                 ELSE b
  BY DEF BooksLeg
<1>2. /\ b \in BooksKept /\ b.local = books.local /\ b.walked = books.walked
      /\ b.frozen = books.frozen /\ b.behind = books.behind /\ b.slipped = books.slipped
  BY <1>t, BooksNotes
<1>3. CASE ~body.trusted
  <2>1. books' = b
    BY <1>1, <1>3
  <2>2. BooksDrops' = BooksDrops
    BY <1>2, <2>1 DEF BooksDrops
  <2> QED BY <1>2, <1>t, <2>1, <2>2, BooksKeep
<1>4. CASE body.trusted
  <2> DEFINE local == BooksForgets(books.local, gone)
             walked == books.walked \cup ({BodyHere} \cap BooksPlaces)
  <2>1. books' = [b EXCEPT !.local = local, !.walked = walked]
    BY <1>1, <1>2, <1>4
  <2>2. /\ local \in [BooksPlaces -> BooksMarks] /\ walked \in SUBSET BooksPlaces
        /\ \A p \in BooksPlaces : local[p] = "drop" <=> books.local[p] = "drop"
    BY <1>f, BooksForgetNoDrop
  <2> HIDE DEF local, walked
  <2>3. /\ books' \in BooksKept /\ books'.local = local /\ books'.behind = books.behind
        /\ books'.slipped = books.slipped
    BY <1>2, <2>1, <2>2 DEF BooksKept
  <2>4. BooksDrops' = BooksDrops
    BY <2>2, <2>3 DEF BooksDrops
  <2> QED BY <1>t, <2>3, <2>4, BooksKeep
<1> QED BY <1>3, <1>4

(* Two frames agree on nothing but the hole; and where drops are bookable on *)
(* a right pose, it is booked where the map has it.                          *)
LEMMA BooksRecordKeeps ==
  ASSUME BooksInv, BooksRecord
  PROVE  BooksInv' /\ BooksDrops \subseteq BooksDrops'
<1>t. BooksTypeOK /\ BodyRight /\ body' = body
  BY DEF BooksInv, BooksRecord
<1>f. /\ books.local \in [BooksPlaces -> BooksMarks]
      /\ books.bookable \in BOOLEAN /\ books.behind \in BOOLEAN /\ books.slipped \in BOOLEAN
      /\ body.shift \in 0 .. 1 /\ body.trusted \in BOOLEAN /\ body.shaken \in BOOLEAN
      /\ books \in BooksKept
  BY <1>t, BooksTyped DEF BooksTypeOK
<1>1. PICK seen \in {{}, {BooksHole}}, p \in BooksPlaces :
        books' = [books EXCEPT !.local = BooksRecorded(books, body, <<{p}, seen>>),
                               !.slipped = @ \/ (books.bookable /\ (~body.trusted \/ body.shaken))]
  BY DEF BooksRecord
<1> DEFINE frames == <<{p}, seen>>
           put == {q + body.shift + body.off : q \in BooksVoted(frames)}
           local == BooksRecorded(books, body, frames)
<1>2. BooksVoted(frames) \subseteq {BooksHole}
  <2>1. ASSUME NEW q \in BooksVoted(frames) PROVE q = BooksHole
    <3>1. 2 \in DOMAIN frames /\ frames[2] = seen
      OBVIOUS
    <3>2. q \in frames[2]
      BY <2>1, <3>1 DEF BooksVoted
    <3> QED BY <3>1, <3>2
  <2> QED BY <2>1
<1>3. put \subseteq {BooksHole + body.shift + body.off}
  BY <1>2
<1>4. local = [q \in BooksPlaces |->
                 IF q \in put /\ books.bookable /\ q \notin books.walked /\ books.local[q] = "none"
                 THEN "drop" ELSE books.local[q]]
  BY DEF BooksRecorded
<1> HIDE DEF put, frames, local
<1>5. local \in [BooksPlaces -> BooksMarks]
  BY <1>f, <1>4 DEF BooksMarks
<1>6. \A q \in BooksPlaces : /\ books.local[q] = "drop" => local[q] = "drop"
                             /\ local[q] = "drop" => books.local[q] = "drop" \/ (q \in put /\ books.bookable)
  BY <1>4
<1>7. PICK slipped \in BOOLEAN : slipped = (books.slipped \/ (books.bookable /\ (~body.trusted \/ body.shaken)))
  OBVIOUS
<1>8. /\ books' \in BooksKept /\ books'.local = local /\ books'.slipped = slipped
      /\ books'.behind = books.behind
  <2>1. books' = [books EXCEPT !.local = local, !.slipped = slipped]
    BY <1>1, <1>7 DEF local, frames
  <2> QED BY <1>f, <1>5, <2>1 DEF BooksKept
<1>9. ~slipped => BooksDrops' \subseteq BooksDrops \cup {BodyHoleAt}
  <2>1. ~slipped /\ books.bookable => body.off = 0
    BY <1>7, <1>t, <1>f DEF BodyRight
  <2>2. body.off = 0 => BooksHole + body.shift + body.off = BodyHoleAt
    BY <1>f, BooksPlaced DEF BodyHoleAt
  <2> QED BY <1>3, <1>6, <1>8, <2>1, <2>2 DEF BooksDrops
<1>10. BooksDrops \subseteq BooksDrops'
  BY <1>6, <1>8 DEF BooksDrops
<1>11. books.slipped => slipped
  BY <1>7
<1> QED BY <1>t, <1>8, <1>9, <1>10, <1>11, BooksKeep

LEMMA BooksRestKeeps ==
  ASSUME BooksInv, BooksBump \/ BooksUnseal \/ BooksFreeze
  PROVE  BooksInv' /\ BooksDrops' = BooksDrops
<1>t. BooksTypeOK /\ body' = body /\ books \in BooksKept
  BY DEF BooksInv, BooksTypeOK, BooksBump, BooksUnseal, BooksFreeze
<1>f. books.local \in [BooksPlaces -> BooksMarks]
  BY <1>t, BooksTyped
<1>0. ASSUME NEW local \in [BooksPlaces -> BooksMarks], books' = [books EXCEPT !.local = local],
             \A p \in BooksPlaces : local[p] = "drop" <=> books.local[p] = "drop"
      PROVE  BooksInv' /\ BooksDrops' = BooksDrops
  <2>1. /\ books' \in BooksKept /\ books'.local = local /\ books'.behind = books.behind
        /\ books'.slipped = books.slipped
    BY <1>0, <1>t DEF BooksKept
  <2>2. BooksDrops' = BooksDrops
    BY <1>0, <2>1 DEF BooksDrops
  <2> QED BY <1>t, <2>1, <2>2, BooksKeep
<1>1. CASE BooksBump
  <2>1. PICK p \in BooksPlaces : books.local[p] = "none" /\ books' = [books EXCEPT !.local[p] = "obstacle"]
    BY <1>1 DEF BooksBump
  <2> DEFINE local == [books.local EXCEPT ![p] = "obstacle"]
  <2>2. local \in [BooksPlaces -> BooksMarks]
    BY <1>f DEF BooksMarks
  <2>3. \A q \in BooksPlaces : local[q] = "drop" <=> books.local[q] = "drop"
    BY <1>f, <2>1
  <2>4. books' = [books EXCEPT !.local = local]
    BY <2>1
  <2> HIDE DEF local
  <2> QED BY <1>0, <2>2, <2>3, <2>4
<1>2. CASE BooksUnseal
  <2>1. PICK gone \in {BooksPlaces} \cup {{p} : p \in BooksPlaces} :
          books' = [books EXCEPT !.local = BooksForgets(books.local, gone)]
    BY <1>2 DEF BooksUnseal
  <2> QED BY <1>0, <1>f, <2>1, BooksForgetNoDrop
<1>3. CASE BooksFreeze
  <2>1. /\ books' \in BooksKept /\ books'.local = books.local /\ books'.behind = books.behind
        /\ books'.slipped = books.slipped
    BY <1>3, <1>t DEF BooksFreeze, BooksKept
  <2>2. BooksDrops' = BooksDrops
    BY <2>1 DEF BooksDrops
  <2> QED BY <1>t, <2>1, <2>2, BooksKeep
<1> QED BY <1>1, <1>2, <1>3

-----------------------------------------------------------------------------
(* Every step keeps it.                                                      *)
LEMMA BooksStepKeeps == BooksInv /\ [BooksNext]_booksVars => BooksInv'
<1> SUFFICES ASSUME BooksInv, [BooksNext]_booksVars PROVE BooksInv'
  OBVIOUS
<1>1. CASE UNCHANGED booksVars
  BY <1>1 DEF booksVars, BooksInv, BooksTypeOK, BodyRight, BooksTrue, BooksDrops, BodyHoleAt
<1> QED BY <1>1, BodyKeeps, BodyMapMovesKeeps, BooksTurnKeeps, BooksLegKeeps, BooksRecordKeeps,
           BooksRestKeeps DEF BooksNext

(* And it says what is checked.                                              *)
LEMMA BooksInvSays == BooksInv => BooksTypeOK /\ BooksTrue
BY DEF BooksInv

(* For a corridor of any length: whatever one frame misreads and however the *)
(* duck falls, what is booked as a drop is the hole.                         *)
THEOREM BooksHold == BooksSpec => [](BooksTypeOK /\ BooksTrue)
<1>1. BooksInit => BooksInv
  BY BooksInitInv
<1>2. BooksInv /\ [BooksNext]_booksVars => BooksInv'
  BY BooksStepKeeps
<1>3. BooksInv => BooksTypeOK /\ BooksTrue
  BY BooksInvSays
<1> QED BY <1>1, <1>2, <1>3, PTL DEF BooksSpec

(* And the hole stays booked: no unsealing, forgetting, striking or fall     *)
(* takes it off, only a jump of the pose on a live map.                      *)
THEOREM BooksHoleIsKept == BooksSpec => BooksHoleStays
<1>1. BooksInit => BooksInv
  BY BooksInitInv
<1> DEFINE stays == /\ BodyHoleAt \in BooksDrops /\ ~books.behind /\ ~body.shaken
                    /\ body'.shift = body.shift
                    /\ books.frozen \/ books'.local # [p \in BooksPlaces |-> "none"]
                    => BodyHoleAt \in BooksDrops'
<1>2. BooksInv /\ [BooksNext]_booksVars => BooksInv' /\ [stays]_booksVars
  <2> SUFFICES ASSUME BooksInv, [BooksNext]_booksVars PROVE BooksInv' /\ [stays]_booksVars
    OBVIOUS
  <2>1. CASE UNCHANGED booksVars
    BY <2>1 DEF booksVars, BooksInv, BooksTypeOK, BodyRight, BooksTrue, BooksDrops, BodyHoleAt
  <2>2. CASE BodySteps \/ BodyLost \/ BodyUp \/ BodyFound \/ BodySettles
    <3>1. BooksInv' /\ BooksDrops' = BooksDrops
      BY <2>2, BodyKeeps DEF BooksDrops
    <3> QED BY <3>1
  <2>3. CASE BodyMapMoves
    BY <2>3, BodyMapMovesKeeps
  <2>4. CASE BooksTurn
    BY <2>4, BooksTurnKeeps
  <2>5. CASE BooksLeg
    BY <2>5, BooksLegKeeps
  <2>6. CASE BooksRecord
    BY <2>6, BooksRecordKeeps
  <2>7. CASE BooksBump \/ BooksUnseal \/ BooksFreeze
    BY <2>7, BooksRestKeeps
  <2> QED BY <2>1, <2>2, <2>3, <2>4, <2>5, <2>6, <2>7 DEF BooksNext
<1> QED BY <1>1, <1>2, PTL DEF BooksSpec, BooksHoleStays

-----------------------------------------------------------------------------
(* The steps that moved nothing are counted with the stalls; the way since   *)
(* the last stand is what the tail heard of and what it has yet to hear of,  *)
(* and goes on past a stand's distance only off rims.                        *)
WayPush(w) ==
  /\ w.pushes <= WayStalls
  /\ w.pushes > 0 => w.placed /\ ~w.moved /\ w.pushes <= w.stalls + 1
WayFar(w) == w.far <= w.since + w.untold /\ w.since < WayStand
WayRims(w) == w.far < WayStand + w.rimOffs

WayGood(w) == w \in Ways /\ WayPush(w) /\ WayFar(w) /\ WayRims(w)
WayInv == WayGood(way)

LEMMA WayConstants ==
  /\ WayStalls \in Nat \ {0} /\ WayTouches \in Nat \ {0} /\ WayRefused \in Nat \ {0}
  /\ WayTurns \in Nat \ {0} /\ WayStand \in Nat \ {0} /\ WayCareful \in Nat \ {0}
  /\ WayRim \in Nat /\ WayPlans \in Nat /\ WayCareful <= WayStand
BY WayAssumption

LEMMA WayZero ==
  /\ 0 \in Nat /\ 0 \in 0 .. WayStalls + 1 /\ WayStalls \in 0 .. WayStalls + 1
  /\ 0 \in 0 .. WayTouches /\ 0 \in 0 .. WayPlans
<1>1. 0 \in 0 .. WayStalls + 1 /\ WayStalls \in 0 .. WayStalls + 1
  <2>1. WayStalls \in Nat
    BY WayConstants
  <2> QED BY <2>1
<1>2. 0 \in 0 .. WayTouches
  <2>1. WayTouches \in Nat
    BY WayConstants
  <2> QED BY <2>1
<1>3. 0 \in 0 .. WayPlans
  <2>1. WayPlans \in Nat
    BY WayConstants
  <2> QED BY <2>1
<1> QED BY <1>1, <1>2, <1>3

LEMMA WayInitInv == WayInit => WayInv
<1> SUFFICES ASSUME NEW journey \in BOOLEAN, NEW flies \in BOOLEAN, way = WayStart(journey, flies)
             PROVE  WayInv
  BY DEF WayInit, WayInits
<1>1. way \in Ways
  BY WayConstants DEF WayStart, Ways
<1>2. /\ way.pushes = 0 /\ way.far = 0 /\ way.since = 0 /\ way.untold = 0 /\ way.rimOffs = 0
  BY DEF WayStart
<1> QED BY <1>1, <1>2, WayConstants DEF WayInv, WayGood, WayPush, WayFar, WayRims

-----------------------------------------------------------------------------
(* Where a leg begins, its stall counted; and where it ends.                 *)
WayOnLeg(w) ==
  /\ w \in Ways /\ WayFar(w)
  /\ w.placed /\ ~w.moved /\ w.pushes <= w.stalls /\ w.pushes <= WayStalls
WayDone(w) == w \in Ways /\ WayFar(w) /\ WayPush(w)

LEMMA WayFields ==
  ASSUME NEW w \in Ways
  PROVE  /\ w.stalls \in 0 .. WayStalls + 1 /\ w.touches \in 0 .. WayTouches
         /\ w.refused \in 0 .. WayRefused /\ w.turns \in 0 .. WayTurns
         /\ w.rimOffs \in 0 .. WayRim /\ w.planless \in 0 .. WayPlans
         /\ w.since \in Nat /\ w.untold \in Nat /\ w.pushes \in Nat /\ w.far \in Nat
         /\ w.placed \in BOOLEAN /\ w.moved \in BOOLEAN /\ w.stepped \in BOOLEAN
         /\ w.journey \in BOOLEAN /\ w.flies \in BOOLEAN /\ w.confirmed \in BOOLEAN
         /\ w.lost \in BOOLEAN
BY DEF Ways

LEMMA WayMoved ==
  ASSUME NEW w \in Ways, WayFar(w), NEW m \in WayMoves(w)
  PROVE  /\ m \in Ways /\ WayFar(m)
         /\ m.placed = w.placed /\ m.stalls = w.stalls /\ m.pushes = w.pushes
         /\ m.rimOffs = w.rimOffs /\ m.refused = w.refused /\ m.turns = w.turns
         /\ m.far <= w.far + 1 /\ (m.moved = w.moved \/ m.moved = TRUE)
<1>1. CASE m = w
  BY <1>1, WayFields
<1>2. CASE m = [w EXCEPT !.moved = TRUE, !.untold = @ + 1, !.far = @ + 1]
  <2>1. w.untold + 1 \in Nat /\ w.far + 1 \in Nat
    BY WayFields
  <2>2. /\ m \in Ways /\ m.placed = w.placed /\ m.stalls = w.stalls /\ m.pushes = w.pushes
        /\ m.rimOffs = w.rimOffs /\ m.refused = w.refused /\ m.turns = w.turns
        /\ m.far = w.far + 1 /\ m.untold = w.untold + 1 /\ m.since = w.since /\ m.moved = TRUE
    BY <1>2, <2>1 DEF Ways
  <2> QED BY <2>2, WayFields DEF WayFar
<1> QED BY <1>1, <1>2 DEF WayMoves

LEMMA WayOthered ==
  ASSUME NEW w \in Ways, WayFar(w)
  PROVE  LET o == WayOther(w)
         IN /\ o \in Ways /\ WayFar(o) /\ o.pushes = 0 /\ o.placed = w.placed /\ o.moved = w.moved
            /\ o.refused = w.refused /\ o.turns = w.turns /\ o.rimOffs = w.rimOffs /\ o.far = w.far
            /\ o.stalls = w.stalls /\ o.at = w.at
<1> DEFINE o == WayOther(w)
<1>1. o = [w EXCEPT !.pushes = 0]
  BY DEF WayOther
<1> HIDE DEF o
<1>2. /\ o \in Ways /\ o.pushes = 0 /\ o.placed = w.placed /\ o.moved = w.moved
      /\ o.refused = w.refused /\ o.turns = w.turns /\ o.rimOffs = w.rimOffs /\ o.far = w.far
      /\ o.stalls = w.stalls /\ o.at = w.at /\ o.since = w.since /\ o.untold = w.untold
  BY <1>1 DEF Ways
<1>3. WayFar(o)
  BY <1>2 DEF WayFar
<1> QED BY <1>2, <1>3 DEF o

LEMMA WayPiloted ==
  ASSUME NEW w, WayOnLeg(w), w.refused < WayRefused, w.turns < WayTurns, NEW r \in WayPilot(w)
  PROVE  WayDone(r)
<1> DEFINE o == WayOther(w)
<1>1. /\ o \in Ways /\ WayFar(o) /\ o.pushes = 0 /\ o.refused = w.refused /\ o.turns = w.turns
  BY WayOthered DEF WayOnLeg
<1>2. \/ r = w
      \/ r = [o EXCEPT !.refused = @ + 1, !.turns = 0]
      \/ \E m \in WayMoves(o), forward \in BOOLEAN : r = WayPilotMoves(m, forward)
      \/ r = [o EXCEPT !.refused = 0, !.turns = @ + 1]
      \/ r = [o EXCEPT !.refused = 0, !.turns = 0]
  BY DEF WayPilot
<1> HIDE DEF o
<1>3. o.refused + 1 \in 0 .. WayRefused /\ o.turns + 1 \in 0 .. WayTurns
      /\ 0 \in 0 .. WayRefused /\ 0 \in 0 .. WayTurns
  BY <1>1, WayConstants, WayFields
<1>4. CASE r = w
  BY <1>4, WayFields, WayConstants DEF WayOnLeg, WayDone, WayPush
<1>5. ASSUME NEW m \in Ways, WayFar(m), m.pushes = 0,
             NEW refused \in 0 .. WayRefused, NEW turns \in 0 .. WayTurns, NEW stepped \in BOOLEAN,
             r = [m EXCEPT !.refused = refused, !.turns = turns, !.stepped = stepped]
      PROVE  WayDone(r)
  <2>1. /\ r \in Ways /\ r.pushes = 0 /\ r.far = m.far /\ r.since = m.since /\ r.untold = m.untold
    BY <1>5 DEF Ways
  <2> QED BY <2>1, <1>5, WayConstants DEF WayDone, WayFar, WayPush
<1>6. CASE r = [o EXCEPT !.refused = @ + 1, !.turns = 0]
  <2>1. r = [o EXCEPT !.refused = o.refused + 1, !.turns = 0, !.stepped = o.stepped]
    BY <1>1, <1>6 DEF Ways
  <2> QED BY <1>1, <1>3, <1>5, <2>1, WayFields
<1>7. CASE \E m \in WayMoves(o), forward \in BOOLEAN : r = WayPilotMoves(m, forward)
  <2>1. PICK m \in WayMoves(o), forward \in BOOLEAN :
          r = [m EXCEPT !.refused = 0, !.turns = 0, !.stepped = forward]
    BY <1>7 DEF WayPilotMoves
  <2>2. m \in Ways /\ WayFar(m) /\ m.pushes = 0
    BY <1>1, WayMoved
  <2> QED BY <1>3, <1>5, <2>1, <2>2
<1>8. CASE r = [o EXCEPT !.refused = 0, !.turns = @ + 1]
  <2>1. r = [o EXCEPT !.refused = 0, !.turns = o.turns + 1, !.stepped = o.stepped]
    BY <1>1, <1>8 DEF Ways
  <2> QED BY <1>1, <1>3, <1>5, <2>1, WayFields
<1>9. CASE r = [o EXCEPT !.refused = 0, !.turns = 0]
  <2>1. r = [o EXCEPT !.refused = 0, !.turns = 0, !.stepped = o.stepped]
    BY <1>1, <1>9 DEF Ways
  <2> QED BY <1>1, <1>3, <1>5, <2>1, WayFields
<1> QED BY <1>2, <1>4, <1>6, <1>7, <1>8, <1>9

LEMMA WayTurnDone ==
  ASSUME NEW w, WayOnLeg(w), NEW r \in WayTurned(w)
  PROVE  WayDone(r)
<1>1. w \in Ways /\ WayFar(w)
  BY DEF WayOnLeg
<1>2. ASSUME NEW t \in {[b EXCEPT !.stalls = 0, !.pushes = 0] : b \in WayBacked(w)}
      PROVE  t \in Ways /\ WayFar(t) /\ t.pushes = 0
  <2>1. PICK b \in WayBacked(w) : t = [b EXCEPT !.stalls = 0, !.pushes = 0]
    BY <1>2
  <2>2. b \in Ways /\ WayFar(b)
    BY <1>1, WayMoved DEF WayBacked
  <2>3. 0 \in 0 .. WayStalls + 1 /\ 0 \in Nat
    BY WayZero
  <2>4. t \in Ways /\ t.pushes = 0 /\ t.far = b.far /\ t.since = b.since /\ t.untold = b.untold
    BY <2>1, <2>2, <2>3 DEF Ways
  <2> QED BY <2>2, <2>4 DEF WayFar
<1>3. ASSUME NEW t \in Ways, WayFar(t), t.pushes = 0, r = WayStood(t)
      PROVE  WayDone(r)
  <2>1. r = [t EXCEPT !.since = 0, !.far = 0]
    BY <1>3 DEF WayStood
  <2>2. r \in Ways /\ r.pushes = 0 /\ r.far = 0 /\ r.since = 0 /\ r.untold = t.untold
    BY <1>3, <2>1 DEF Ways
  <2>3. t.untold \in Nat
    BY <1>3, WayFields
  <2> QED BY <2>2, <2>3, WayConstants DEF WayDone, WayFar, WayPush
<1>4. ASSUME NEW t \in Ways, WayFar(t), t.pushes = 0, r = t
      PROVE  WayDone(r)
  BY <1>4, WayConstants DEF WayDone, WayPush
<1> DEFINE turned == {[b EXCEPT !.stalls = 0, !.pushes = 0] : b \in WayBacked(w)}
<1>5. r \in turned \cup {WayStood(t) : t \in turned}
  BY Zenon DEF WayTurned
<1>6. \A t \in turned : t \in Ways /\ WayFar(t) /\ t.pushes = 0
  BY <1>2
<1> HIDE DEF turned
<1> QED BY <1>3, <1>4, <1>5, <1>6

LEMMA WayStepDone ==
  ASSUME NEW w, WayOnLeg(w), w.stalls < WayStalls, NEW r \in WayStepped(w)
  PROVE  WayDone(r)
<1>1. w \in Ways /\ WayFar(w) /\ w.pushes <= w.stalls /\ w.placed /\ ~w.moved
  BY DEF WayOnLeg
<1>2. CASE r = WayFromHole(w)
  BY <1>1, <1>2, WayOthered, WayConstants DEF WayFromHole, WayDone, WayPush
<1>3. ASSUME NEW m \in WayMoves(w),
             r = [m EXCEPT !.stepped = TRUE, !.pushes = IF m.moved THEN 0 ELSE @ + 1]
      PROVE  WayDone(r)
  <2>1. /\ m \in Ways /\ WayFar(m) /\ m.placed = w.placed /\ m.stalls = w.stalls
        /\ m.pushes = w.pushes
    BY <1>1, WayMoved
  <2> DEFINE pushes == IF m.moved THEN 0 ELSE m.pushes + 1
  <2>2. pushes \in Nat /\ (pushes > 0 => ~m.moved /\ pushes = w.pushes + 1)
    BY <2>1, WayFields
  <2>3. r = [m EXCEPT !.stepped = TRUE, !.pushes = pushes]
    BY <1>3
  <2> HIDE DEF pushes
  <2>4. /\ r \in Ways /\ r.pushes = pushes /\ r.placed = m.placed /\ r.moved = m.moved
        /\ r.stalls = m.stalls /\ r.far = m.far /\ r.since = m.since /\ r.untold = m.untold
    BY <2>1, <2>2, <2>3 DEF Ways
  <2>5. WayFar(r)
    BY <2>1, <2>4 DEF WayFar
  <2>6. w.pushes \in Nat /\ w.stalls \in Nat
    BY <1>1, WayFields, WayConstants
  <2>7. CASE pushes = 0
    BY <2>4, <2>5, <2>7, WayConstants DEF WayDone, WayPush
  <2>8. CASE pushes > 0
    <3>1. pushes <= w.stalls + 1 /\ pushes <= WayStalls
      BY <1>1, <2>2, <2>6, <2>8, WayConstants
    <3> QED BY <1>1, <2>1, <2>2, <2>4, <2>5, <2>8, <3>1 DEF WayDone, WayPush
  <2> QED BY <2>2, <2>7, <2>8
<1> QED BY <1>2, <1>3 DEF WayStepped

LEMMA WayStickDone ==
  ASSUME NEW w, WayOnLeg(w), NEW r \in WayStick(w)
  PROVE  WayDone(r)
<1>1. CASE w.stalls >= WayStalls
  BY <1>1, WayTurnDone DEF WayStick
<1>2. CASE ~(w.stalls >= WayStalls)
  <2>1. w.stalls < WayStalls
    BY <1>2, WayFields, WayConstants DEF WayOnLeg
  <2> QED BY <1>2, <2>1, WayTurnDone, WayStepDone DEF WayStick
<1> QED BY <1>1, <1>2

LEMMA WayFlownDone ==
  ASSUME NEW w, WayOnLeg(w), NEW r \in WayFlown(w)
  PROVE  WayDone(r)
<1>1. CASE ~w.flies
  BY <1>1, WayStickDone DEF WayFlown
<1>2. CASE w.flies
  <2>1. PICK holds \in BOOLEAN, byHole \in BOOLEAN :
          LET h == [w EXCEPT !.holds = holds]
              tired == h.refused >= WayRefused \/ h.turns >= WayTurns
          IN r \in IF byHole \/ holds THEN WayStick(h)
                   ELSE IF tired THEN WayStick([h EXCEPT !.refused = 0, !.turns = 0])
                   ELSE WayPilot(h)
    <3>1. PICK holds \in BOOLEAN, byHole \in BOOLEAN : r \in WayTaken(w, holds, byHole)
      BY <1>2 DEF WayFlown
    <3> QED BY <3>1 DEF WayTaken
  <2> DEFINE h == [w EXCEPT !.holds = holds]
             fresh == [h EXCEPT !.refused = 0, !.turns = 0]
             tired == h.refused >= WayRefused \/ h.turns >= WayTurns
  <2>2. w \in Ways /\ WayFar(w) /\ w.placed /\ ~w.moved /\ w.pushes <= w.stalls /\ w.pushes <= WayStalls
    BY DEF WayOnLeg
  <2>3. /\ h \in Ways /\ h.placed = w.placed /\ h.moved = w.moved /\ h.pushes = w.pushes
        /\ h.stalls = w.stalls /\ h.far = w.far /\ h.since = w.since /\ h.untold = w.untold
    BY <2>2 DEF Ways
  <2>4. WayOnLeg(h)
    <3> HIDE DEF h
    <3> QED BY <2>2, <2>3 DEF WayOnLeg, WayFar
  <2>5. WayOnLeg(fresh)
    <3>1. 0 \in 0 .. WayRefused /\ 0 \in 0 .. WayTurns
      BY WayConstants
    <3> HIDE DEF h
    <3>2. /\ fresh \in Ways /\ fresh.placed = h.placed /\ fresh.moved = h.moved
          /\ fresh.pushes = h.pushes
          /\ fresh.stalls = h.stalls /\ fresh.far = h.far /\ fresh.since = h.since
          /\ fresh.untold = h.untold
      BY <2>3, <3>1 DEF Ways
    <3> HIDE DEF fresh
    <3> QED BY <2>4, <3>2 DEF WayOnLeg, WayFar
  <2>6. r \in IF byHole \/ holds THEN WayStick(h) ELSE IF tired THEN WayStick(fresh) ELSE WayPilot(h)
    BY <2>1
  <2>7. ~tired => h.refused < WayRefused /\ h.turns < WayTurns
    <3> HIDE DEF h
    <3>1. h \in Ways
      BY <2>3
    <3> QED BY <3>1, WayFields, WayConstants
  <2> HIDE DEF h, fresh, tired
  <2> QED BY <2>4, <2>5, <2>6, <2>7, WayStickDone, WayPiloted
<1> QED BY <1>1, <1>2

LEMMA WayTailed ==
  ASSUME NEW w, WayDone(w), NEW every \in {WayStand, WayCareful}
  PROVE  LET t == WayTail(w, every) IN WayGood(t) /\ t.at = w.at /\ t.rimOffs = w.rimOffs
<1>1. w \in Ways /\ WayFar(w) /\ WayPush(w) /\ w.since \in Nat /\ w.untold \in Nat
      /\ w.rimOffs \in Nat /\ w.far \in Nat
  BY WayFields, WayConstants DEF WayDone
<1> DEFINE told == [w EXCEPT !.since = @ + w.untold, !.untold = 0]
           t == WayTail(w, every)
<1>2. /\ told \in Ways /\ told.since = w.since + w.untold /\ told.untold = 0 /\ told.far = w.far
      /\ told.pushes = w.pushes /\ told.placed = w.placed /\ told.moved = w.moved
      /\ told.stalls = w.stalls /\ told.rimOffs = w.rimOffs /\ told.at = w.at
  <2>1. w.since + w.untold \in Nat /\ 0 \in Nat
    BY <1>1
  <2> QED BY <1>1, <2>1 DEF Ways
<1>3. WayPush(told)
  <2> HIDE DEF told
  <2> QED BY <1>1, <1>2 DEF WayPush
<1>4. t = IF told.since >= every THEN WayStood(told) ELSE told
  BY DEF WayTail
<1> HIDE DEF told, t
<1>5. every \in Nat /\ every <= WayStand
  BY WayConstants
<1>6. CASE told.since >= every
  <2>1. t = [told EXCEPT !.since = 0, !.far = 0]
    BY <1>4, <1>6 DEF WayStood
  <2>2. /\ t \in Ways /\ t.since = 0 /\ t.untold = 0 /\ t.far = 0
        /\ t.pushes = told.pushes /\ t.placed = told.placed /\ t.moved = told.moved
        /\ t.stalls = told.stalls /\ t.rimOffs = told.rimOffs /\ t.at = told.at
    BY <1>2, <2>1 DEF Ways
  <2> QED BY <1>1, <1>2, <1>3, <2>2, WayConstants DEF WayGood, WayFar, WayRims, WayPush, t
<1>7. CASE ~(told.since >= every)
  <2>1. t = told
    BY <1>4, <1>7
  <2>2. told.since < WayStand /\ told.far <= told.since
    BY <1>1, <1>2, <1>5, <1>7, WayConstants DEF WayFar
  <2> QED BY <1>1, <1>2, <1>3, <2>1, <2>2, WayConstants DEF WayGood, WayFar, WayRims, t
<1> QED BY <1>6, <1>7

-----------------------------------------------------------------------------
LEMMA WayLeggedGood ==
  ASSUME NEW w, WayDone(w), NEW every \in {WayStand, WayCareful}, NEW r \in WayLegged(w, every)
  PROVE  WayGood(r)
<1> DEFINE s == WayStalled(w)
<1>0. w \in Ways /\ WayPush(w) /\ WayFar(w)
  BY DEF WayDone
<1>a. PICK t \in WayTouched(s) : \E l \in WayFlown(t) : r = WayTail(l, every)
  BY DEF WayLegged
<1>1. PICK l \in WayFlown(t) : r = WayTail(l, every)
  BY <1>a
<1>2. WayOnLeg(s)
  <2> DEFINE stalls == IF w.placed /\ ~w.moved
                       THEN (IF w.stalls > WayStalls THEN w.stalls ELSE w.stalls + 1) ELSE 0
  <2>1. s = [w EXCEPT !.stalls = stalls, !.placed = TRUE, !.moved = FALSE]
    BY DEF WayStalled
  <2>2. stalls \in 0 .. WayStalls + 1
    BY <1>0, WayFields, WayConstants
  <2>3. w.pushes <= stalls /\ w.pushes <= WayStalls
    BY <1>0, WayFields, WayConstants DEF WayPush
  <2> HIDE DEF s, stalls
  <2>4. /\ s \in Ways /\ s.stalls = stalls /\ s.placed = TRUE /\ s.moved = FALSE
        /\ s.pushes = w.pushes /\ s.far = w.far /\ s.since = w.since /\ s.untold = w.untold
    BY <1>0, <2>1, <2>2 DEF Ways
  <2> QED BY <1>0, <2>3, <2>4 DEF WayOnLeg, WayFar
<1> HIDE DEF s
<1>3. WayOnLeg(t)
  <2>0. s \in Ways
    BY <1>2 DEF WayOnLeg
  <2> DEFINE none == [s EXCEPT !.touches = 0, !.stepped = FALSE]
  <2>1. PICK touches \in 0 .. WayTouches, stalls \in {s.stalls, WayStalls} :
          t = [s EXCEPT !.touches = touches, !.stepped = FALSE, !.stalls = stalls]
    <3>1. CASE t = none
      <4>1. t = [s EXCEPT !.touches = 0, !.stepped = FALSE, !.stalls = s.stalls]
        BY <2>0, <3>1 DEF Ways
      <4> QED BY <4>1, WayZero
    <3>2. CASE t = [s EXCEPT !.touches = @ + 1, !.stepped = FALSE] /\ s.touches + 1 < WayTouches
      <4>1. t = [s EXCEPT !.touches = s.touches + 1, !.stepped = FALSE, !.stalls = s.stalls]
        BY <2>0, <3>2 DEF Ways
      <4>2. s.touches + 1 \in 0 .. WayTouches
        BY <2>0, <3>2, WayFields, WayConstants
      <4> QED BY <4>1, <4>2
    <3>3. CASE t = [none EXCEPT !.stalls = WayStalls]
      <4>1. t = [s EXCEPT !.touches = 0, !.stepped = FALSE, !.stalls = WayStalls]
        BY <3>3
      <4> QED BY <4>1, WayZero
    <3> QED BY <1>a, <3>1, <3>2, <3>3 DEF WayTouched
  <2>2. stalls \in 0 .. WayStalls + 1 /\ s.pushes <= stalls
    BY <1>2, <2>0, WayFields, WayConstants DEF WayOnLeg
  <2>3. /\ t \in Ways /\ t.stalls = stalls /\ t.placed = s.placed /\ t.moved = s.moved
        /\ t.pushes = s.pushes /\ t.far = s.far /\ t.since = s.since /\ t.untold = s.untold
    BY <2>0, <2>1, <2>2 DEF Ways
  <2> QED BY <1>2, <2>2, <2>3 DEF WayOnLeg, WayFar
<1> QED BY <1>1, <1>3, WayFlownDone, WayTailed

LEMMA WayLegsGood ==
  ASSUME NEW w, WayGood(w), NEW r \in WayLegs(w)
  PROVE  WayGood(r)
<1>0. w \in Ways /\ WayPush(w) /\ WayFar(w) /\ WayRims(w)
  BY DEF WayGood
<1>1. CASE r \in WayLegged(w, WayStand)
  BY <1>0, <1>1, WayLeggedGood DEF WayDone
<1>2. CASE r \in WayOffRim(w)
  <2> DEFINE tried == [w EXCEPT !.rimOffs = @ + 1]
             o == WayOther(tried)
  <2>1. w.rimOffs < WayRim /\ \E n \in WayMoves(o) : r = [n EXCEPT !.placed = FALSE]
    BY <1>0, <1>2, WayFields, WayConstants DEF WayOffRim
  <2>2. PICK m \in WayMoves(o) : r = [m EXCEPT !.placed = FALSE]
    BY <2>1
  <2>3. w.rimOffs + 1 \in 0 .. WayRim
    BY <1>0, <2>1, WayFields, WayConstants
  <2>4. /\ tried \in Ways /\ tried.rimOffs = w.rimOffs + 1 /\ tried.far = w.far
        /\ tried.since = w.since /\ tried.untold = w.untold
    BY <1>0, <2>3 DEF Ways
  <2> HIDE DEF tried
  <2>5. WayFar(tried)
    BY <1>0, <2>4 DEF WayFar
  <2>6. o \in Ways /\ WayFar(o) /\ o.pushes = 0 /\ o.rimOffs = tried.rimOffs /\ o.far = tried.far
    BY <2>4, <2>5, WayOthered
  <2> HIDE DEF o
  <2>7. m \in Ways /\ WayFar(m) /\ m.pushes = 0 /\ m.rimOffs = o.rimOffs /\ m.far <= o.far + 1
    BY <2>6, WayMoved
  <2>8. /\ r \in Ways /\ r.pushes = 0 /\ r.rimOffs = m.rimOffs /\ r.far = m.far
        /\ r.since = m.since /\ r.untold = m.untold
    BY <2>2, <2>7 DEF Ways
  <2>9. r.far \in Nat /\ w.far \in Nat /\ w.rimOffs \in Nat
    BY <1>0, <2>8, WayFields, WayConstants
  <2>10. r.far <= w.far + 1 /\ r.rimOffs = w.rimOffs + 1
    BY <2>4, <2>6, <2>7, <2>8
  <2>11. WayRims(r)
    BY <1>0, <2>9, <2>10, WayConstants DEF WayRims
  <2> QED BY <2>7, <2>8, <2>11, WayConstants DEF WayGood, WayPush, WayFar
<1>3. ASSUME NEW rimOffs \in 0 .. WayRim,
             r \in WayLegged([w EXCEPT !.rimOffs = rimOffs], WayCareful)
      PROVE  WayGood(r)
  <2> DEFINE n == [w EXCEPT !.rimOffs = rimOffs]
  <2>1. /\ n \in Ways /\ n.pushes = w.pushes /\ n.far = w.far /\ n.since = w.since
        /\ n.untold = w.untold /\ n.placed = w.placed /\ n.moved = w.moved /\ n.stalls = w.stalls
    BY <1>0 DEF Ways
  <2>2. r \in WayLegged(n, WayCareful)
    BY <1>3
  <2> HIDE DEF n
  <2>3. WayDone(n)
    BY <1>0, <2>1 DEF WayDone, WayFar, WayPush
  <2> QED BY <2>2, <2>3, WayLeggedGood
<1>4. CASE r \in WayLegged([w EXCEPT !.rimOffs = 0], WayCareful)
  BY <1>3, <1>4, WayConstants
<1>5. CASE r \in WayLegged([w EXCEPT !.rimOffs = IF @ < WayRim THEN @ + 1 ELSE @], WayCareful)
  <2> DEFINE rimOffs == IF w.rimOffs < WayRim THEN w.rimOffs + 1 ELSE w.rimOffs
  <2>1. rimOffs \in 0 .. WayRim
    BY <1>0, WayFields, WayConstants
  <2>2. r \in WayLegged([w EXCEPT !.rimOffs = rimOffs], WayCareful)
    BY <1>5
  <2> HIDE DEF rimOffs
  <2> QED BY <1>3, <2>1, <2>2
<1> QED BY <1>1, <1>2, <1>4, <1>5 DEF WayLegs, WayCarefulLegs

LEMMA WayStepKeeps == ASSUME WayInv, [WayNext]_way PROVE WayInv'
<1>0. way \in Ways /\ WayPush(way) /\ WayFar(way) /\ WayRims(way)
  BY DEF WayInv, WayGood
<1>f. way.planless \in 0 .. WayPlans
  BY <1>0, WayFields
\* what changes none of the counters keeps them
<1>p. ASSUME NEW w, WayGood(w), NEW r \in Ways,
             r.pushes = w.pushes, r.placed = w.placed, r.moved = w.moved, r.stalls = w.stalls,
             r.far = w.far, r.since = w.since, r.untold = w.untold, r.rimOffs = w.rimOffs
      PROVE  WayGood(r)
  BY <1>p DEF WayGood, WayPush, WayFar, WayRims
<1>a. ASSUME NEW w, WayGood(w), NEW at \in {"going", "arrived", "failed", "ended"}
      PROVE  WayGood([w EXCEPT !.at = at])
  <2> DEFINE r == [w EXCEPT !.at = at]
  <2>1. w \in Ways
    BY <1>a DEF WayGood
  <2>2. /\ r \in Ways /\ r.pushes = w.pushes /\ r.placed = w.placed /\ r.moved = w.moved
        /\ r.stalls = w.stalls /\ r.far = w.far /\ r.since = w.since /\ r.untold = w.untold
        /\ r.rimOffs = w.rimOffs
    BY <1>a, <2>1 DEF Ways
  <2> HIDE DEF r
  <2>3. WayGood(r)
    BY <1>a, <1>p, <2>2
  <2> QED BY <2>3 DEF r
<1>b. ASSUME NEW w, WayGood(w), NEW lost \in BOOLEAN, NEW confirmed \in BOOLEAN,
             NEW planless \in 0 .. WayPlans
      PROVE  WayGood([w EXCEPT !.lost = lost, !.confirmed = confirmed, !.planless = planless])
  <2> DEFINE r == [w EXCEPT !.lost = lost, !.confirmed = confirmed, !.planless = planless]
  <2>1. w \in Ways
    BY <1>b DEF WayGood
  <2>2. /\ r \in Ways /\ r.pushes = w.pushes /\ r.placed = w.placed /\ r.moved = w.moved
        /\ r.stalls = w.stalls /\ r.far = w.far /\ r.since = w.since /\ r.untold = w.untold
        /\ r.rimOffs = w.rimOffs
    BY <1>b, <2>1 DEF Ways
  <2> HIDE DEF r
  <2>3. WayGood(r)
    BY <1>b, <1>p, <2>2
  <2> QED BY <2>3 DEF r
<1>c. ASSUME NEW lost \in BOOLEAN, NEW planless \in 0 .. WayPlans
      PROVE  WayGood([way EXCEPT !.lost = lost, !.planless = planless])
  <2>1. way.confirmed \in BOOLEAN
    BY <1>0, WayFields
  <2>2. [way EXCEPT !.lost = lost, !.planless = planless]
          = [way EXCEPT !.lost = lost, !.confirmed = way.confirmed, !.planless = planless]
    BY <1>0 DEF Ways
  <2> QED BY <1>b, <2>1, <2>2 DEF WayInv
<1>1. CASE WayWalks
  <2>1. PICK l \in WayLegs([way EXCEPT !.lost = FALSE, !.planless = 0]) :
          way' = l \/ way' = [l EXCEPT !.at = "failed"]
    BY <1>1 DEF WayWalks
  <2>2. WayGood([way EXCEPT !.lost = FALSE, !.planless = 0])
    BY <1>c, WayZero
  <2>3. WayGood(l)
    BY <2>1, <2>2, WayLegsGood
  <2> QED BY <1>a, <2>1, <2>3 DEF WayInv
<1>2. CASE WayPass
  <2> DEFINE w == [way EXCEPT !.lost = FALSE]
  <2>1. /\ WayGood(w) /\ w \in Ways /\ w.planless = way.planless
    <3>1. w = [way EXCEPT !.lost = FALSE, !.planless = way.planless]
      BY <1>0 DEF Ways
    <3>2. w.planless = way.planless
      BY <1>0 DEF Ways
    <3> HIDE DEF w
    <3>3. WayGood(w)
      BY <1>c, <1>f, <3>1
    <3> QED BY <3>2, <3>3 DEF WayGood
  <2>2. way' \in {WayPlanless(w)} \cup WayArrived(w)
                 \cup IF w.journey THEN {} ELSE {[w EXCEPT !.at = "failed"]}
    BY <1>2 DEF WayPass
  <2> HIDE DEF w
  <2>3. WayGood([w EXCEPT !.planless = @ + 1]) \/ ~(w.planless < WayPlans)
    <3>1. CASE w.planless < WayPlans
      <4>1. w.planless + 1 \in 0 .. WayPlans /\ w.lost \in BOOLEAN /\ w.confirmed \in BOOLEAN
        BY <1>f, <2>1, <3>1, WayFields, WayConstants
      <4>2. [w EXCEPT !.planless = @ + 1]
              = [w EXCEPT !.lost = w.lost, !.confirmed = w.confirmed, !.planless = w.planless + 1]
        BY <2>1 DEF Ways
      <4> QED BY <1>b, <2>1, <4>1, <4>2
    <3> QED BY <3>1
  <2>4. w.planless >= WayPlans \/ w.planless < WayPlans
    BY <1>f, <2>1, WayConstants
  <2>5. WayGood(WayPlanless(w))
    BY <1>a, <2>1, <2>3, <2>4 DEF WayPlanless
  <2>6. WayGood([w EXCEPT !.confirmed = TRUE])
    <3>1. w.planless \in 0 .. WayPlans /\ w.lost \in BOOLEAN
      BY <2>1, WayFields
    <3>2. [w EXCEPT !.confirmed = TRUE]
            = [w EXCEPT !.lost = w.lost, !.confirmed = TRUE, !.planless = w.planless]
      BY <2>1 DEF Ways
    <3> QED BY <1>b, <2>1, <3>1, <3>2
  <2>7. [w EXCEPT !.at = "arrived", !.confirmed = TRUE]
          = [[w EXCEPT !.confirmed = TRUE] EXCEPT !.at = "arrived"]
    BY <2>1 DEF Ways
  <2>8. WayGood([w EXCEPT !.at = "arrived", !.confirmed = TRUE])
    BY <1>a, <2>6, <2>7
  <2>9. WayGood([w EXCEPT !.at = "failed"])
    BY <1>a, <2>1
  <2> QED BY <2>2, <2>5, <2>6, <2>8, <2>9 DEF WayInv, WayArrived
<1>3. CASE WayLost
  <2>1. WayGood([way EXCEPT !.at = "failed"])
    BY <1>a DEF WayInv
  <2>2. WayGood([way EXCEPT !.lost = TRUE])
    <3>1. [way EXCEPT !.lost = TRUE] = [way EXCEPT !.lost = TRUE, !.planless = way.planless]
      BY <1>0 DEF Ways
    <3> QED BY <1>c, <1>f, <3>1
  <2> QED BY <1>3, <2>1, <2>2 DEF WayLost, WayInv
<1>4. CASE WayEnds
  BY <1>4, <1>a DEF WayEnds, WayInv
<1>5. CASE WayAgain
  <2> DEFINE on == [WayOther(way) EXCEPT !.moved = TRUE, !.untold = 1, !.far = 0]
  <2>1. PICK w \in {way, on} : way' = [w EXCEPT !.at = "going", !.planless = 0]
    BY <1>5 DEF WayAgain
  <2>2. WayGood(on)
    <3> DEFINE o == WayOther(way)
    <3>1. /\ o \in Ways /\ WayFar(o) /\ o.pushes = 0 /\ o.rimOffs = way.rimOffs
      BY <1>0, WayOthered
    <3>2. on = [o EXCEPT !.moved = TRUE, !.untold = 1, !.far = 0]
      OBVIOUS
    <3> HIDE DEF o, on
    <3>3. /\ on \in Ways /\ on.pushes = 0 /\ on.rimOffs = o.rimOffs /\ on.far = 0
          /\ on.since = o.since /\ on.untold = 1
      BY <3>1, <3>2 DEF Ways
    <3>4. on.since \in Nat /\ on.rimOffs \in Nat
      BY <3>3, WayFields, WayConstants
    <3> QED BY <3>1, <3>3, <3>4, WayConstants DEF WayGood, WayPush, WayFar, WayRims
  <2> HIDE DEF on
  <2>3. WayGood(w) /\ w \in Ways
    BY <2>1, <2>2 DEF WayInv, WayGood
  <2>4. way' = [[w EXCEPT !.lost = w.lost, !.confirmed = w.confirmed, !.planless = 0] EXCEPT !.at = "going"]
    BY <2>1, <2>3 DEF Ways
  <2>5. w.lost \in BOOLEAN /\ w.confirmed \in BOOLEAN /\ 0 \in 0 .. WayPlans
    BY <2>3, WayFields, WayConstants
  <2>6. WayGood([w EXCEPT !.lost = w.lost, !.confirmed = w.confirmed, !.planless = 0])
    BY <1>b, <2>3, <2>5
  <2> QED BY <1>a, <2>4, <2>6 DEF WayInv
<1>6. CASE UNCHANGED way
  BY <1>6 DEF WayInv, WayGood, WayPush, WayFar, WayRims
<1> QED BY <1>1, <1>2, <1>3, <1>4, <1>5, <1>6 DEF WayNext

(* And it says what is checked.                                              *)
LEMMA WayInvSays == WayInv => WayTypeOK /\ WayTrue
<1> SUFFICES ASSUME WayInv PROVE WayTypeOK /\ WayTrue
  OBVIOUS
<1>1. way \in Ways /\ WayPush(way) /\ WayRims(way)
  BY DEF WayInv, WayGood
<1>2. way.far \in Nat /\ way.rimOffs \in 0 .. WayRim
  BY <1>1, WayFields
<1>3. way.far < WayStand + WayRim
  BY <1>1, <1>2, WayConstants DEF WayRims
<1> QED BY <1>1, <1>3 DEF WayTypeOK, WayTrue, WayPushesEnd, WayStandsNear, WayPush

(* For any patience of the stick and any stands: whoever walked before, what *)
(* moves nothing ends in a turn, and the body never goes further from its    *)
(* last stand than a stand's distance and the moves off rims.                *)
THEOREM WayHolds == WaySpec => [](WayTypeOK /\ WayTrue)
<1>1. WayInit => WayInv
  BY WayInitInv
<1>2. WayInv /\ [WayNext]_way => WayInv'
  BY WayStepKeeps
<1>3. WayInv => WayTypeOK /\ WayTrue
  BY WayInvSays
<1> QED BY <1>1, <1>2, <1>3, PTL DEF WaySpec

-----------------------------------------------------------------------------
(* The writes over a pose are counted by the nudge that proves it.           *)
SweepCounted ==
  /\ sweep.over <= SweepNudge /\ sweep.over <= sweep.age
  /\ sweep.over > 0 => sweep.nudging

SweepInv == SweepTypeOK /\ SweepCounted

LEMMA SweepTimes ==
  /\ {SweepNudge, SweepYield, HeadIdle, HeadGlance, HeadPause, HeadLease} \subseteq Nat \ {0}
  /\ SweepNudge \in Nat \ {0} /\ SweepYield \in Nat \ {0} /\ HeadIdle \in Nat \ {0}
  /\ HeadGlance \in Nat \ {0} /\ HeadPause \in Nat \ {0} /\ HeadLease \in Nat \ {0}
  /\ HeadFade \in Nat /\ SweepNudge < SweepYield
BY SweepAssumption

LEMMA SweepInitInv == SweepInit => SweepInv
<1> SUFFICES ASSUME SweepInit PROVE SweepInv
  OBVIOUS
<1>1. sweep \in Sweeps
  BY SweepTimes DEF SweepInit, SweepOff, Sweeps
<1>2. head \in Heads
  BY SweepTimes DEF SweepInit, HeadStart, Heads
<1>3. sweep.over = 0 /\ sweep.age = 0
  BY DEF SweepInit, SweepOff
<1> QED BY <1>1, <1>2, <1>3, SweepTimes DEF SweepInv, SweepTypeOK, SweepCounted

LEMMA HeadTyped ==
  ASSUME NEW h \in Heads, NEW commanded \in BOOLEAN, NEW next \in HeadNext(h, commanded)
  PROVE  next \in Heads
<1> DEFINE less == SweepLess(h.glance)
           faded == IF less < HeadFade THEN less ELSE SweepLess(HeadFade)
           lent == SweepLess(h.lent)
           idle == IF commanded THEN 0 ELSE SweepUpTo(h.idle, HeadIdle)
           glance(glances) == IF commanded THEN faded ELSE IF glances THEN HeadGlance ELSE less
           pause == IF ~commanded /\ h.glance = 1 THEN HeadPause ELSE SweepLess(h.pause)
<1>1. PICK glances \in BOOLEAN :
        next = [h EXCEPT !.lent = lent, !.idle = idle, !.glance = glance(glances), !.pause = pause]
  BY DEF HeadNext
<1>2. /\ h.lent \in 0 .. HeadLease /\ h.glance \in 0 .. HeadGlance /\ h.idle \in 0 .. HeadIdle
      /\ h.pause \in 0 .. HeadPause
  BY DEF Heads
<1>3. lent \in 0 .. HeadLease
  BY <1>2, SweepTimes DEF SweepLess
<1>4. idle \in 0 .. HeadIdle
  BY <1>2, SweepTimes DEF SweepUpTo
<1>5. less \in 0 .. HeadGlance /\ faded \in 0 .. HeadGlance
  BY <1>2, SweepTimes DEF SweepLess
<1>6. glance(glances) \in 0 .. HeadGlance
  BY <1>5, SweepTimes
<1>7. pause \in 0 .. HeadPause
  BY <1>2, SweepTimes DEF SweepLess
<1> HIDE DEF less, faded, lent, idle, glance, pause
<1> QED BY <1>1, <1>3, <1>4, <1>6, <1>7 DEF Heads

LEMMA SweepTickKeeps == ASSUME SweepInv, SweepTick PROVE SweepInv'
<1>t. /\ sweep \in Sweeps /\ head \in Heads
      /\ sweep.over <= SweepNudge /\ sweep.over <= sweep.age
      /\ (sweep.over > 0 => sweep.nudging)
  BY DEF SweepInv, SweepTypeOK, SweepCounted
<1>f. sweep.age \in 0 .. SweepYield /\ sweep.yield \in 0 .. SweepYield /\ sweep.over \in Nat
  BY <1>t DEF Sweeps
<1> DEFINE needed == head.other /\ head.wanted /\ head.fresh /\ head.lent = 0
           over == IF ~needed THEN 0 ELSE IF SweepWrites THEN sweep.over + 1 ELSE sweep.over
           age == IF SweepKeepsNudge THEN SweepUpTo(SweepAge, SweepYield) ELSE 0
           yield == SweepLess(SweepYields)
<1>1. PICK on \in BOOLEAN, nudging \in BOOLEAN, commanded \in BOOLEAN :
        /\ sweep' = [on |-> on, nudging |-> nudging, age |-> age, yield |-> yield, over |-> over]
        /\ nudging = SweepKeepsNudge
        /\ head' \in HeadNext(head, commanded)
  <2> DEFINE on == SweepSweeps
             nudging == SweepKeepsNudge
             commanded == SweepWrites \/ head.other \/ head.lent > 0
  <2>1. /\ sweep' = [on |-> on, nudging |-> nudging, age |-> age, yield |-> yield, over |-> over]
        /\ head' \in HeadNext(head, commanded)
    BY DEF SweepTick
  <2>2. on \in BOOLEAN /\ nudging \in BOOLEAN
    BY DEF SweepSweeps, SweepKeepsNudge
  <2>3. commanded \in BOOLEAN
    OBVIOUS
  <2>4. nudging = SweepKeepsNudge
    OBVIOUS
  <2> HIDE DEF on, nudging, commanded, age, yield, over
  <2> QED BY <2>1, <2>2, <2>3, <2>4, Zenon
<1>2. SweepAge \in 0 .. SweepYield
  BY <1>f, SweepTimes DEF SweepAge
<1>3. age \in 0 .. SweepYield
  BY <1>2, SweepTimes DEF SweepUpTo
<1>4. SweepYields \in 0 .. SweepYield
  BY <1>f, SweepTimes DEF SweepYields
<1>5. yield \in 0 .. SweepYield
  BY <1>4, SweepTimes DEF SweepLess
<1>6. over \in Nat
  BY <1>f
\* a posed head is written over only while it is proved
<1>7. needed => SweepPosed
  BY DEF SweepPosed
<1>8. ASSUME needed, SweepWrites PROVE SweepNudging /\ SweepAge < SweepNudge
  <2>1. SweepYields = 0
    BY <1>8 DEF SweepWrites, SweepSweeps
  <2>2. SweepProving
    BY <1>7, <1>8, <2>1, SweepTimes DEF SweepYields
  <2> QED BY <2>2 DEF SweepProving
<1>9. ASSUME needed, SweepNudging PROVE SweepKeepsNudge /\ age >= SweepAge
                                        /\ (SweepAge < SweepNudge => age = SweepAge + 1)
  <2>1. SweepKeepsNudge
    BY <1>7, <1>9 DEF SweepKeepsNudge
  <2> QED BY <2>1, <1>2, SweepTimes DEF SweepUpTo
<1>10. sweep.over > 0 => SweepNudging
  BY <1>t DEF SweepNudging
<1>11. sweep.over <= SweepAge
  BY <1>t, <1>f DEF SweepAge
<1>12. over <= SweepNudge /\ over <= age /\ (over > 0 => SweepKeepsNudge)
  <2>1. CASE ~needed
    BY <1>3, <2>1, SweepTimes
  <2>2. CASE needed /\ SweepWrites
    BY <1>f, <1>2, <1>8, <1>9, <1>11, <2>2, SweepTimes
  <2>3. CASE needed /\ ~SweepWrites
    <3>1. CASE sweep.over = 0
      BY <1>3, <2>3, <3>1, SweepTimes
    <3>2. CASE sweep.over > 0
      BY <1>t, <1>f, <1>2, <1>3, <1>9, <1>10, <1>11, <2>3, <3>2
    <3> QED BY <1>f, <3>1, <3>2
  <2> QED BY <2>1, <2>2, <2>3
<1>13. head' \in Heads
  BY <1>t, <1>1, HeadTyped
<1> HIDE DEF needed, over, age, yield
<1>14. sweep' \in Sweeps
  BY <1>1, <1>3, <1>5, <1>6 DEF Sweeps
<1>15. sweep'.over = over /\ sweep'.age = age /\ sweep'.nudging = nudging
  BY <1>1
<1> QED BY <1>1, <1>12, <1>13, <1>14, <1>15 DEF SweepInv, SweepTypeOK, SweepCounted

LEMMA HeadChangesKeep == ASSUME SweepInv, HeadChanges PROVE SweepInv'
<1>t. head \in Heads /\ HeadLease \in 0 .. HeadLease
  BY SweepTimes DEF SweepInv, SweepTypeOK
<1>1. head' \in Heads
  <2>1. CASE head' = [head EXCEPT !.other = ~@]
    BY <1>t, <2>1 DEF Heads
  <2>2. CASE head' = [head EXCEPT !.wanted = ~@]
    BY <1>t, <2>2 DEF Heads
  <2>3. CASE head' = [head EXCEPT !.stands = ~@]
    BY <1>t, <2>3 DEF Heads
  <2>4. CASE head' = [head EXCEPT !.fresh = ~@]
    BY <1>t, <2>4 DEF Heads
  <2>5. CASE head' = [head EXCEPT !.lent = HeadLease]
    BY <1>t, <2>5 DEF Heads
  <2> QED BY <2>1, <2>2, <2>3, <2>4, <2>5 DEF HeadChanges
<1>2. sweep' = sweep
  BY DEF HeadChanges
<1> QED BY <1>1, <1>2 DEF SweepInv, SweepTypeOK, SweepCounted

(* Every step keeps it.                                                      *)
LEMMA SweepStepKeeps == SweepInv /\ [SweepNext]_sweepVars => SweepInv'
<1> SUFFICES ASSUME SweepInv, [SweepNext]_sweepVars PROVE SweepInv'
  OBVIOUS
<1>1. CASE UNCHANGED sweepVars
  BY <1>1 DEF sweepVars, SweepInv, SweepTypeOK, SweepCounted
<1> QED BY <1>1, SweepTickKeeps, HeadChangesKeep DEF SweepNext

(* And it says what is checked.                                              *)
LEMMA SweepInvSays == SweepInv => SweepTypeOK /\ SweepStandsAside
BY DEF SweepInv, SweepCounted, SweepStandsAside

(* For any times: while the navigation needs the head, the sweep writes over *)
(* a pose somebody holds no longer than it takes to tell it from a glance.   *)
THEOREM SweepYieldsTheHead == SweepSpec => [](SweepTypeOK /\ SweepStandsAside)
<1>1. SweepInit => SweepInv
  BY SweepInitInv
<1>2. SweepInv /\ [SweepNext]_sweepVars => SweepInv'
  BY SweepStepKeeps
<1>3. SweepInv => SweepTypeOK /\ SweepStandsAside
  BY SweepInvSays
<1> QED BY <1>1, <1>2, <1>3, PTL DEF SweepSpec

-----------------------------------------------------------------------------
(* Before its last resorts a turn has gone nowhere blind; a step back that   *)
(* is no turn's was made with no drop booked at hand.                        *)
GaitNowhere(g) ==
  g.at \in {"stood", "align", "on", "spin", "refused"} => g.backed = {}
GaitOffOnly(g) ==
  "off" \in g.backed => g.at = "turned" /\ g.from.booked > GaitAtHand
GaitKnown(g) ==
  /\ g.from.drop <= GaitNear /\ g.from.floor = GaitNone => g.backed \ {"off"} = {}
  /\ GaitDropInView(g.from) => g.backed \ {"off"} \subseteq {"pulse"}

GaitGood(g) ==
  /\ g \in Gaits /\ GaitNowhere(g) /\ GaitOffOnly(g) /\ GaitKnown(g)
  /\ g.at = "yaw" => g.stepping

GaitInv == GaitGood(gait)

LEMMA GaitNumbers ==
  /\ GaitIters \in Nat \ {0} /\ GaitTries \in Nat /\ GaitWalk \in Nat
  /\ GaitShort \in Nat /\ GaitShort >= 1 /\ GaitShort <= GaitWalk
BY GaitAssumption

LEMMA GaitPlaced ==
  ASSUME NEW p \in GaitPlaces
  PROVE  /\ p.booked \in 0 .. 4 /\ p.drop \in 0 .. 4 /\ p.floor \in 0 .. 3 /\ p.clear \in 0 .. 3
         /\ p.drop <= p.booked /\ p.floor <= p.clear /\ (p.booked = GaitFar => p.clear = GaitRetreat)
BY DEF GaitPlaces, GaitRim, GaitFar, GaitNone, GaitRetreat

LEMMA GaitSafePlace == GaitSafe \in GaitPlaces
BY DEF GaitSafe, GaitPlaces, GaitRim, GaitFar, GaitNone, GaitRetreat

LEMMA GaitInitInv == GaitInit => GaitInv
<1> SUFFICES ASSUME NEW blind \in BOOLEAN, gait = GaitStart(blind) PROVE GaitInv
  BY DEF GaitInit
<1>0. 0 \in 0 .. GaitIters /\ 0 \in 0 .. GaitTries
  BY GaitNumbers
<1>1. gait \in Gaits /\ gait.at = "stood" /\ gait.backed = {}
  BY <1>0, GaitSafePlace DEF GaitStart, Gaits
<1> QED BY <1>1 DEF GaitInv, GaitGood, GaitNowhere, GaitOffOnly, GaitKnown

-----------------------------------------------------------------------------
(* What has gone nowhere blind yet is good, wherever it is.                  *)
LEMMA GaitFreshGood ==
  ASSUME NEW g \in Gaits, g.backed = {}, g.at = "yaw" => g.stepping
  PROVE  GaitGood(g)
BY DEF GaitGood, GaitNowhere, GaitOffOnly, GaitKnown

LEMMA GaitOverGood == ASSUME NEW g \in Gaits PROVE GaitGood(GaitOver(g))
<1> DEFINE o == GaitOver(g)
<1>1. PICK at \in {"align", "stood"} : at = IF g.away THEN "align" ELSE "stood"
  OBVIOUS
<1>2. o = [g EXCEPT !.at = at, !.from = GaitSafe, !.tight = FALSE, !.stepping = FALSE, !.backed = {}]
  BY <1>1 DEF GaitOver
<1> HIDE DEF o
<1>3. o \in Gaits /\ o.at = at /\ o.backed = {}
  BY <1>2, GaitSafePlace DEF Gaits
<1>4. GaitGood(o)
  BY <1>3, GaitFreshGood
<1> QED BY <1>4 DEF o

LEMMA GaitInPlaceGood ==
  ASSUME NEW g \in Gaits, g.backed = {}, NEW r \in GaitInPlace(g)
  PROVE  GaitGood(r)
<1>1. CASE r = GaitOver(g)
  BY <1>1, GaitOverGood
<1>2. ASSUME NEW p \in GaitPlaces, NEW tight \in BOOLEAN,
             r = [g EXCEPT !.at = "spin", !.from = p, !.tight = tight]
      PROVE  GaitGood(r)
  <2>1. r \in Gaits /\ r.at = "spin" /\ r.backed = {}
    BY <1>2 DEF Gaits
  <2> QED BY <2>1, GaitFreshGood
<1> DEFINE spins(p) == {[g EXCEPT !.at = "spin", !.from = p, !.tight = tight]
                         : tight \in IF p.booked = GaitRim THEN {TRUE} ELSE BOOLEAN}
<1>3. r \in {GaitOver(g)} \cup UNION {spins(p) : p \in GaitPlaces}
  BY DEF GaitInPlace
<1>4. ASSUME NEW p \in GaitPlaces, r \in spins(p)
      PROVE  GaitGood(r)
  <2>1. PICK tight \in BOOLEAN : r = [g EXCEPT !.at = "spin", !.from = p, !.tight = tight]
    BY <1>4
  <2> QED BY <1>2, <2>1
<1> HIDE DEF spins
<1> QED BY <1>1, <1>3, <1>4

LEMMA GaitBackOffGood ==
  ASSUME NEW g \in Gaits, g.at = "stood", g.backed = {}, NEW r \in GaitBackOff(g)
  PROVE  GaitGood(r)
<1>1. CASE r = g
  BY <1>1, GaitFreshGood
<1>2. CASE r = GaitAway([g EXCEPT !.lately = TRUE])
  <2>0. 0 \in 0 .. GaitIters
    BY GaitNumbers
  <2>1. r = [g EXCEPT !.lately = TRUE, !.at = "align", !.away = TRUE, !.iters = 0]
    BY <1>2 DEF GaitAway
  <2>2. r \in Gaits /\ r.at = "align" /\ r.backed = {}
    BY <2>0, <2>1 DEF Gaits
  <2> QED BY <2>2, GaitFreshGood
<1>3. ASSUME NEW p \in GaitPlaces, p.booked > GaitAtHand,
             r = [g EXCEPT !.at = "turned", !.away = FALSE, !.from = p, !.lately = TRUE,
                           !.backed = {"off"}]
      PROVE  GaitGood(r)
  <2>1. {"off"} \in SUBSET GaitBacks
    BY DEF GaitBacks
  <2>2. r \in Gaits /\ r.at = "turned" /\ r.backed = {"off"} /\ r.from = p
    BY <1>3, <2>1 DEF Gaits
  <2>3. r.backed \ {"off"} = {}
    BY <2>2
  <2> QED BY <1>3, <2>2, <2>3 DEF GaitGood, GaitNowhere, GaitOffOnly, GaitKnown
<1> QED BY <1>1, <1>2, <1>3 DEF GaitBackOff

-----------------------------------------------------------------------------
LEMMA GaitKickKeeps == ASSUME GaitInv, GaitKick PROVE GaitInv'
<1>1. gait \in Gaits /\ gait.at = "spin" /\ gait.backed = {}
  BY DEF GaitInv, GaitGood, GaitNowhere, GaitKick
<1>2. PICK walked \in GaitKicked(gait), drop \in GaitRim .. gait.from.booked :
        gait' = IF walked THEN [gait EXCEPT !.at = "yaw", !.stepping = TRUE]
                ELSE [gait EXCEPT !.at = "refused", !.from.drop = drop]
  BY DEF GaitKick
<1>3. CASE walked
  <2>1. gait' \in Gaits /\ gait'.backed = {} /\ gait'.stepping = TRUE
    BY <1>1, <1>2, <1>3 DEF Gaits
  <2> QED BY <2>1, GaitFreshGood DEF GaitInv
<1>4. CASE ~walked
  <2> DEFINE from == [gait.from EXCEPT !.drop = drop]
  <2>1. gait.from \in GaitPlaces
    BY <1>1 DEF Gaits
  <2>2. from \in GaitPlaces
    <3>1. /\ gait.from.booked \in 0 .. 4 /\ gait.from.floor <= gait.from.clear
          /\ (gait.from.booked = GaitFar => gait.from.clear = GaitRetreat)
      BY <2>1, GaitPlaced
    <3>2. drop \in GaitRim .. GaitFar /\ drop <= gait.from.booked
      BY <1>2, <3>1 DEF GaitRim, GaitFar
    <3>3. /\ from.drop = drop /\ from.booked = gait.from.booked /\ from.floor = gait.from.floor
          /\ from.clear = gait.from.clear
          /\ from \in [booked : GaitRim .. GaitFar, drop : GaitRim .. GaitFar,
                       floor : GaitNone .. GaitRetreat, clear : GaitNone .. GaitRetreat]
      BY <2>1, <3>2 DEF GaitPlaces
    <3> QED BY <3>1, <3>2, <3>3 DEF GaitPlaces
  <2>3. gait' = [gait EXCEPT !.at = "refused", !.from = from]
    BY <1>2, <1>4
  <2> HIDE DEF from
  <2>4. gait' \in Gaits /\ gait'.at = "refused" /\ gait'.backed = {}
    BY <1>1, <2>2, <2>3 DEF Gaits
  <2> QED BY <2>4, GaitFreshGood DEF GaitInv
<1> QED BY <1>3, <1>4

(* With a drop in view no step back is clear but on floor the duck trusts.   *)
LEMMA GaitStepsBack ==
  ASSUME NEW p \in GaitPlaces, ~GaitDropInView(p)
  PROVE  GaitBackSecs(p) = {TRUE}
<1>1. p.clear >= GaitShortest
  BY GaitPlaced DEF GaitDropInView, GaitInView, GaitRoom, GaitFar, GaitRetreat, GaitShortest
<1> QED BY <1>1 DEF GaitBackSecs

LEMMA GaitLegsNumbers ==
  ASSUME NEW blind, NEW w \in GaitWays, NEW leg \in GaitLegs(blind, w)
  PROVE  leg \in Nat
<1>1. w.edge \in Nat /\ GaitWalk \in Nat
  BY GaitNumbers DEF GaitWays
<1>2. GaitCut(w) \in Nat
  BY <1>1 DEF GaitCut
<1>3. GaitBlindLegs(blind, w) \subseteq Nat
  BY <1>1, <1>2 DEF GaitBlindLegs
<1> QED BY <1>1, <1>3 DEF GaitLegs

LEMMA GaitMakesRoomKeeps == ASSUME GaitInv, GaitMakesRoom PROVE GaitInv'
<1>1. gait \in Gaits /\ gait.at = "refused" /\ gait.backed = {} /\ gait.from \in GaitPlaces
  BY DEF GaitInv, GaitGood, GaitNowhere, GaitMakesRoom, Gaits
<1>2. PICK by \in GaitRoomBy(gait) :
        IF by = "none" THEN gait' = [gait EXCEPT !.at = "last"]
        ELSE \E walked \in GaitKicked(gait) :
               gait' = [gait EXCEPT !.at = IF walked THEN "yaw" ELSE "last",
                                    !.backed = @ \cup {by}, !.stepping = walked]
  BY DEF GaitMakesRoom
<1>3. CASE by = "none"
  <2>1. gait' \in Gaits /\ gait'.at = "last" /\ gait'.backed = {}
    BY <1>1, <1>2, <1>3 DEF Gaits
  <2> QED BY <2>1, GaitFreshGood DEF GaitInv
<1>4. CASE by # "none"
  <2>1. PICK walked \in GaitKicked(gait) :
          gait' = [gait EXCEPT !.at = IF walked THEN "yaw" ELSE "last",
                               !.backed = @ \cup {by}, !.stepping = walked]
    BY <1>2, <1>4
  <2>2. walked \in BOOLEAN
    <3>1. PICK leg \in UNION {GaitLegs(gait.blind, w) : w \in GaitWays} : walked = (leg > 0)
      BY DEF GaitKicked
    <3>2. leg \in Nat
      BY <3>1, GaitLegsNumbers
    <3> QED BY <3>1, <3>2
  <2>3. by \in {"retreat", "pulse", "room"}
    BY <1>4 DEF GaitRoomBy
  <2>4. PICK at \in {"yaw", "last"} : at = IF walked THEN "yaw" ELSE "last"
    OBVIOUS
  <2>5. {by} \in SUBSET GaitBacks /\ "off" \notin {by}
    BY <2>3 DEF GaitBacks
  <2>6. gait' = [gait EXCEPT !.at = at, !.backed = {by}, !.stepping = walked]
    BY <1>1, <2>1, <2>4
  <2>7. /\ gait' \in Gaits /\ gait'.at = at /\ gait'.backed = {by} /\ gait'.stepping = walked
        /\ gait'.from = gait.from
    BY <1>1, <2>2, <2>4, <2>5, <2>6 DEF Gaits
  <2>8. /\ ~(gait.from.drop <= GaitNear /\ gait.from.floor = GaitNone)
        /\ GaitDropInView(gait.from) => by = "pulse"
    <3>1. /\ gait.from.drop \in 0 .. 4 /\ gait.from.floor \in 0 .. 3
      BY <1>1, GaitPlaced
    <3> QED BY <1>4, <3>1 DEF GaitRoomBy, GaitMayPulse, GaitDropInView, GaitInView, GaitRoom, GaitNear,
               GaitNone, GaitRetreat, GaitShortest
  <2>9. GaitKnown(gait') /\ GaitOffOnly(gait') /\ GaitNowhere(gait')
    BY <2>4, <2>5, <2>7, <2>8 DEF GaitKnown, GaitOffOnly, GaitNowhere
  <2> QED BY <2>4, <2>7, <2>9 DEF GaitInv, GaitGood
<1> QED BY <1>3, <1>4

LEMMA GaitLastKeeps == ASSUME GaitInv, GaitLast PROVE GaitInv'
<1>1. /\ gait \in Gaits /\ gait.at = "last" /\ gait.from \in GaitPlaces
      /\ gait.backed \in SUBSET GaitBacks /\ "off" \notin gait.backed
  BY DEF GaitInv, GaitGood, GaitOffOnly, GaitLast, Gaits
<1>2. ~GaitDropInView(gait.from) => ~(gait.from.drop <= GaitNear /\ gait.from.floor = GaitNone)
  <2>1. gait.from.drop \in 0 .. 4 /\ gait.from.floor \in 0 .. 3
    BY <1>1, GaitPlaced
  <2> QED BY <2>1 DEF GaitDropInView, GaitInView, GaitRoom, GaitNear, GaitNone
<1>3. ASSUME ~GaitDropInView(gait.from), NEW by \in {"turning", "step"},
             NEW at \in {"yaw", "turned"}, NEW stepping \in BOOLEAN, at = "yaw" => stepping,
             gait' = [gait EXCEPT !.at = at, !.stepping = stepping, !.backed = gait.backed \cup {by}]
      PROVE  GaitInv'
  <2>1. gait.backed \cup {by} \in SUBSET GaitBacks /\ "off" \notin gait.backed \cup {by}
    BY <1>1 DEF GaitBacks
  <2>2. /\ gait' \in Gaits /\ gait'.at = at /\ gait'.stepping = stepping /\ gait'.from = gait.from
        /\ gait'.backed = gait.backed \cup {by}
    BY <1>1, <1>3, <2>1 DEF Gaits
  <2>3. GaitKnown(gait') /\ GaitOffOnly(gait') /\ GaitNowhere(gait')
    BY <1>2, <1>3, <2>1, <2>2 DEF GaitKnown, GaitOffOnly, GaitNowhere
  <2> QED BY <1>3, <2>2, <2>3 DEF GaitInv, GaitGood
<1> DEFINE back == IF GaitDropInView(gait.from) THEN {} ELSE GaitBackSecs(gait.from)
<1>4. \/ /\ ~GaitDropInView(gait.from)
         /\ gait' = [gait EXCEPT !.at = "turned", !.backed = @ \cup {"turning"}]
      \/ gait' = GaitOver(gait)
      \/ \E steps \in back : gait' = [gait EXCEPT !.at = "yaw", !.stepping = steps,
                                                  !.backed = IF steps THEN @ \cup {"step"} ELSE @]
  BY DEF GaitLast
<1>5. CASE ~GaitDropInView(gait.from) /\ gait' = [gait EXCEPT !.at = "turned", !.backed = @ \cup {"turning"}]
  <2>1. gait.stepping \in BOOLEAN
    BY <1>1 DEF Gaits
  <2>2. gait' = [gait EXCEPT !.at = "turned", !.stepping = gait.stepping,
                             !.backed = gait.backed \cup {"turning"}]
    BY <1>1, <1>5 DEF Gaits
  <2> QED BY <1>3, <1>5, <2>1, <2>2
<1>6. CASE gait' = GaitOver(gait)
  BY <1>1, <1>6, GaitOverGood DEF GaitInv
<1>7. CASE \E steps \in back : gait' = [gait EXCEPT !.at = "yaw", !.stepping = steps,
                                                    !.backed = IF steps THEN @ \cup {"step"} ELSE @]
  <2>1. ~GaitDropInView(gait.from)
    BY <1>7
  <2>2. back = {TRUE}
    BY <1>1, <2>1, GaitStepsBack
  <2> HIDE DEF back
  <2>3. gait' = [gait EXCEPT !.at = "yaw", !.stepping = TRUE, !.backed = gait.backed \cup {"step"}]
    BY <1>7, <2>2
  <2> QED BY <1>3, <2>1, <2>3
<1> QED BY <1>4, <1>5, <1>6, <1>7

LEMMA GaitStoodKeeps ==
  ASSUME GaitInv, GaitAlign \/ GaitOn \/ GaitOffTheRim \/ GaitAround \/ GaitBacksOff \/ GaitUnseals
  PROVE  GaitInv'
<1>0. gait \in Gaits /\ gait.backed = {} /\ gait.at \in {"align", "on", "stood"}
      /\ gait.iters \in 0 .. GaitIters /\ gait.tries \in 0 .. GaitTries
  BY DEF GaitInv, GaitGood, GaitNowhere, GaitAlign, GaitOn, GaitOffTheRim, GaitAround, GaitBacksOff,
         GaitUnseals, Gaits
<1>a. ASSUME NEW g \in Gaits, g.backed = {}, NEW at \in {"stood", "on", "align"}
      PROVE  GaitGood([g EXCEPT !.at = at])
  <2> DEFINE r == [g EXCEPT !.at = at]
  <2>1. r \in Gaits /\ r.at = at /\ r.backed = {}
    BY <1>a DEF Gaits
  <2> HIDE DEF r
  <2>2. GaitGood(r)
    BY <2>1, GaitFreshGood
  <2> QED BY <2>2 DEF r
<1>1. CASE GaitAlign
  <2> DEFINE more == [gait EXCEPT !.iters = @ + 1]
  <2>1. gait' = [gait EXCEPT !.at = "on"] \/ gait' = [gait EXCEPT !.at = "stood"]
        \/ (gait.iters # GaitIters /\ (gait' \in GaitInPlace(more) \/ gait' = more))
    BY <1>1 DEF GaitAlign
  <2>2. gait.iters # GaitIters => more \in Gaits /\ more.backed = {} /\ more.at = gait.at
    <3>1. gait.iters # GaitIters => gait.iters + 1 \in 0 .. GaitIters
      BY <1>0, GaitNumbers
    <3> QED BY <1>0, <3>1 DEF Gaits
  <2> HIDE DEF more
  <2>3. gait.iters # GaitIters => GaitGood(more)
    BY <1>0, <2>2, GaitFreshGood
  <2> QED BY <1>0, <1>a, <2>1, <2>2, <2>3, GaitInPlaceGood DEF GaitInv
<1>2. CASE GaitOn
  BY <1>0, <1>2, <1>a DEF GaitOn, GaitInv
<1>3. CASE GaitOffTheRim
  <2> DEFINE tried == [gait EXCEPT !.tries = @ + 1]
  <2>0. 0 \in 0 .. GaitTries /\ 0 \in 0 .. GaitIters
    BY GaitNumbers
  <2>1. \/ gait' = [gait EXCEPT !.tries = 0]
        \/ gait.tries # GaitTries /\ (gait' = tried \/ gait' = GaitAway(tried))
    BY <1>3 DEF GaitOffTheRim
  <2>2. CASE gait' = [gait EXCEPT !.tries = 0]
    <3>1. gait' \in Gaits /\ gait'.backed = {} /\ gait'.at = gait.at
      BY <1>0, <2>0, <2>2 DEF Gaits
    <3> QED BY <1>0, <3>1, GaitFreshGood DEF GaitInv
  <2>3. CASE gait.tries # GaitTries /\ (gait' = tried \/ gait' = GaitAway(tried))
    <3>1. gait.tries + 1 \in 0 .. GaitTries
      BY <1>0, <2>3, GaitNumbers
    <3>2. tried \in Gaits /\ tried.backed = {} /\ tried.at = gait.at
      BY <1>0, <3>1 DEF Gaits
    <3> HIDE DEF tried
    <3>3. CASE gait' = tried
      BY <1>0, <3>2, <3>3, GaitFreshGood DEF GaitInv
    <3>4. CASE gait' = GaitAway(tried)
      <4>1. gait' = [tried EXCEPT !.at = "align", !.away = TRUE, !.iters = 0]
        BY <3>4 DEF GaitAway
      <4>2. gait' \in Gaits /\ gait'.backed = {} /\ gait'.at = "align"
        BY <2>0, <3>2, <4>1 DEF Gaits
      <4> QED BY <4>2, GaitFreshGood DEF GaitInv
    <3> QED BY <2>3, <3>3, <3>4
  <2> QED BY <2>1, <2>2, <2>3
<1>4. CASE GaitAround
  <2> DEFINE g == [gait EXCEPT !.away = FALSE]
  <2>1. g \in Gaits /\ g.backed = {}
    BY <1>0 DEF Gaits
  <2>2. gait' \in GaitInPlace(g)
    BY <1>4 DEF GaitAround
  <2> HIDE DEF g
  <2> QED BY <2>1, <2>2, GaitInPlaceGood DEF GaitInv
<1>5. CASE GaitBacksOff
  BY <1>0, <1>5, GaitBackOffGood DEF GaitBacksOff, GaitInv
<1>6. CASE GaitUnseals
  <2> DEFINE g == [gait EXCEPT !.lately = FALSE]
  <2>1. gait.at = "stood" /\ gait' \in GaitBackOff(g)
    BY <1>6 DEF GaitUnseals
  <2>2. g \in Gaits /\ g.backed = {} /\ g.at = "stood"
    BY <1>0, <2>1 DEF Gaits
  <2> HIDE DEF g
  <2> QED BY <2>1, <2>2, GaitBackOffGood DEF GaitInv
<1> QED BY <1>1, <1>2, <1>3, <1>4, <1>5, <1>6

-----------------------------------------------------------------------------
(* A leg that walks blind ends short of the margin it keeps.                 *)
LEMMA GaitLegsShort == GaitStopsShort
<1> SUFFICES ASSUME NEW w \in GaitWays, NEW blind \in BOOLEAN, GaitGoesBlind(blind, w)
             PROVE  /\ \A leg \in GaitBlindLegs(blind, w) : leg <= w.edge
                    /\ w.booked => blind \/ w.known
  BY DEF GaitStopsShort
<1>1. w.edge \in 0 .. GaitWalk /\ GaitWalk \in Nat /\ GaitShort \in Nat
  BY GaitNumbers DEF GaitWays
<1>2. GaitCut(w) <= w.edge
  BY <1>1 DEF GaitCut
<1>3. \A leg \in GaitBlindLegs(blind, w) : leg <= w.edge
  BY <1>1, <1>2 DEF GaitBlindLegs
<1>4. blind \/ w.known
  BY DEF GaitGoesBlind
<1> QED BY <1>3, <1>4

(* Every step keeps it.                                                      *)
LEMMA GaitStepKeeps == GaitInv /\ [GaitNext]_gait => GaitInv'
<1> SUFFICES ASSUME GaitInv, [GaitNext]_gait PROVE GaitInv'
  OBVIOUS
<1>0. gait \in Gaits
  BY DEF GaitInv, GaitGood
<1>1. CASE UNCHANGED gait
  BY <1>1 DEF GaitInv, GaitGood, GaitNowhere, GaitOffOnly, GaitKnown
<1>2. CASE GaitEnds
  BY <1>0, <1>2, GaitOverGood DEF GaitEnds, GaitInv
<1>3. CASE GaitWaits
  <2>1. /\ gait' \in Gaits /\ gait'.at = gait.at /\ gait'.backed = gait.backed
        /\ gait'.from = gait.from /\ gait'.stepping = gait.stepping
    BY <1>0, <1>3 DEF GaitWaits, Gaits
  <2> QED BY <2>1 DEF GaitInv, GaitGood, GaitNowhere, GaitOffOnly, GaitKnown
<1> QED BY <1>1, <1>2, <1>3, GaitKickKeeps, GaitMakesRoomKeeps, GaitLastKeeps, GaitStoodKeeps
        DEF GaitNext

(* And it says what is checked.                                              *)
LEMMA GaitInvSays == GaitInv => GaitTypeOK /\ GaitStaysOff
<1> SUFFICES ASSUME GaitInv PROVE GaitTypeOK /\ GaitStaysOff
  OBVIOUS
<1>1. gait \in Gaits /\ gait.from \in GaitPlaces
  BY DEF GaitInv, GaitGood, Gaits
<1>2. gait.from.booked <= GaitAtHand => "off" \notin gait.backed
  BY <1>1, GaitPlaced DEF GaitInv, GaitGood, GaitOffOnly, GaitAtHand
<1>3. GaitBacksKnown
  BY <1>2 DEF GaitInv, GaitGood, GaitKnown, GaitBacksKnown
<1> QED BY <1>1, <1>3, GaitLegsShort DEF GaitInv, GaitGood, GaitTypeOK, GaitStaysOff, GaitYawSteps

(* For any patience and any legs: whatever turns, retreats and last resorts  *)
(* follow each other beside a drop, nothing goes back blind there but over   *)
(* floor the duck knows, and none walks blind past the margin to an edge.    *)
THEOREM GaitHolds == GaitSpec => [](GaitTypeOK /\ GaitStaysOff)
<1>1. GaitInit => GaitInv
  BY GaitInitInv
<1>2. GaitInv /\ [GaitNext]_gait => GaitInv'
  BY GaitStepKeeps
<1>3. GaitInv => GaitTypeOK /\ GaitStaysOff
  BY GaitInvSays
<1> QED BY <1>1, <1>2, <1>3, PTL DEF GaitSpec

-----------------------------------------------------------------------------
(* Why the lanes keep no stand of elsewhere: the twist's time and the body's *)
(* settling bound each other (CliffClocks), what the body lane said last is  *)
(* of that time (CliffLastSaid), a frame judged to stand is of a body that   *)
(* stood (CliffJudged), and a stand elsewhere is older than the last move    *)
(* its lane missed, or its lane is about to say that it moves                *)
(* (CliffElsewhere).                                                         *)
CliffStale(f) == ~f.moving /\ ~f.here
CliffTold(c) == c.up = TRUE /\ c.told = TRUE
CliffUntold(c) == c.up = TRUE /\ c.told = FALSE

CliffClocks(c) ==
  /\ CliffTold(c) /\ 0 < c.twist /\ c.twist <= CliffDeadman => c.since = 0
  /\ CliffTold(c) /\ c.unseen # 0 /\ c.goes > 0 => c.since + c.goes <= CliffBodySettle + 2
  /\ CliffUntold(c) /\ c.unseen # 0 /\ c.goes > 0 =>
       \/ c.since + c.goes <= CliffBodySettle + 1
       \/ c.goes = CliffBodySettle + 1 /\ c.twist > 0

CliffLastSaid(c) ==
  /\ c.up = TRUE /\ c.pose = "still" => c.since = CliffSettle
  /\ CliffTold(c) => c.pose # "none" /\ (c.pose = "moving" <=> c.since < CliffSettle)

CliffStood(shots) == \E f \in shots : f.moving = FALSE

CliffJudged(c) ==
  /\ \A f \in c.judging : f.here = TRUE /\ f.age = 0
  /\ CliffUntold(c) /\ CliffStood(c.judging) => c.since = CliffSettle
  /\ CliffTold(c) /\ c.since < CliffSettle /\ CliffStood(c.recent \cup c.judging) =>
       c.since = 0 /\ (c.unseen = 0 \/ c.goes = 0 \/ c.goes = CliffBodySettle + 1)

CliffWillMove(c) ==
  CliffUntold(c) /\ c.goes > 0 /\ (c.twist > 0 \/ c.since + 1 < CliffSettle)

CliffElsewhere(c) ==
  \A f \in c.recent : CliffStale(f) => f.age >= 1 /\ (f.age > c.unseen \/ CliffWillMove(c))

CliffGood(c) ==
  c \in Cliffs /\ CliffClocks(c) /\ CliffLastSaid(c) /\ CliffJudged(c) /\ CliffElsewhere(c)
CliffInv == CliffGood(cliff)

LEMMA CliffConstants ==
  /\ CliffMemory \in Nat \ {0} /\ CliffKeep \in Nat \ {0} /\ CliffMove \in Nat \ {0}
  /\ CliffRows \in Nat \ {0} /\ CliffDeadman \in Nat \ {0} /\ CliffSettle \in Nat \ {0}
  /\ CliffBodySettle \in Nat \ {0} /\ CliffMemory <= CliffKeep
  /\ CliffBodySettle + 1 < CliffSettle
BY CliffAssumption

LEMMA CliffFields ==
  ASSUME NEW c \in Cliffs
  PROVE  /\ c.move \in 0 .. CliffMove /\ c.twist \in 0 .. CliffDeadman + 1
         /\ c.goes \in 0 .. CliffBodySettle + 1 /\ c.since \in 0 .. CliffSettle
         /\ c.unseen \in 0 .. CliffMemory + 1
         /\ c.pose \in {"none", "still", "moving"}
         /\ c.up \in BOOLEAN /\ c.told \in BOOLEAN
         /\ c.judging \subseteq CliffShots /\ c.recent \subseteq CliffShots
BY DEF Cliffs

LEMMA CliffNumbers ==
  ASSUME NEW c \in Cliffs
  PROVE  c.move \in Nat /\ c.twist \in Nat /\ c.goes \in Nat /\ c.since \in Nat /\ c.unseen \in Nat
BY CliffFields, CliffConstants

LEMMA CliffZero ==
  /\ 0 \in 0 .. CliffMove /\ 0 \in 0 .. CliffDeadman + 1 /\ CliffDeadman + 1 \in 0 .. CliffDeadman + 1
  /\ 0 \in 0 .. CliffBodySettle + 1 /\ CliffBodySettle + 1 \in 0 .. CliffBodySettle + 1
  /\ 0 \in 0 .. CliffSettle /\ CliffSettle \in 0 .. CliffSettle
  /\ 0 \in 0 .. CliffMemory + 1 /\ CliffMemory + 1 \in 0 .. CliffMemory + 1
  /\ 0 \in 0 .. CliffKeep
BY CliffConstants

LEMMA CliffInitInv == CliffInit => CliffInv
<1> SUFFICES ASSUME CliffInit PROVE CliffInv
  OBVIOUS
<1>1. cliff \in Cliffs
  BY CliffZero DEF CliffInit, Cliffs
<1>2. /\ cliff.up = FALSE /\ cliff.twist = 0 /\ cliff.goes = 0 /\ cliff.judging = {} /\ cliff.recent = {}
  BY DEF CliffInit
<1> QED
  BY <1>1, <1>2 DEF CliffInv, CliffGood, CliffClocks, CliffLastSaid, CliffJudged, CliffElsewhere,
     CliffTold, CliffUntold

-----------------------------------------------------------------------------
(* The twist is of no account but before its lane takes the state, and ends. *)
LEMMA CliffMovesKeeps ==
  ASSUME NEW c, CliffGood(c), NEW n \in 1 .. CliffMove,
         NEW d, d = [c EXCEPT !.move = n, !.twist = CliffDeadman + 1]
  PROVE  CliffGood(d)
<1>1. c \in Cliffs /\ n \in 0 .. CliffMove
  BY CliffConstants DEF CliffGood
<1>2. /\ d \in Cliffs /\ d.twist = CliffDeadman + 1 /\ d.goes = c.goes /\ d.up = c.up
      /\ d.told = c.told /\ d.pose = c.pose /\ d.since = c.since /\ d.judging = c.judging
      /\ d.recent = c.recent /\ d.unseen = c.unseen
  BY <1>1, CliffZero DEF Cliffs
<1>3. CliffClocks(d)
  BY <1>1, <1>2, CliffNumbers, CliffConstants DEF CliffGood, CliffClocks, CliffTold, CliffUntold
<1>4. CliffLastSaid(d) /\ CliffJudged(d)
  BY <1>2 DEF CliffGood, CliffLastSaid, CliffJudged, CliffTold, CliffUntold
<1>5. CliffElsewhere(d)
  BY <1>1, <1>2, CliffNumbers, CliffConstants DEF CliffGood, CliffElsewhere, CliffWillMove, CliffUntold
<1> QED BY <1>2, <1>3, <1>4, <1>5 DEF CliffGood

LEMMA CliffStopsKeeps ==
  ASSUME NEW c, CliffGood(c), c.up = TRUE => c.told = TRUE, NEW twist \in {0, c.twist},
         NEW d, d = [c EXCEPT !.move = 0, !.twist = twist]
  PROVE  CliffGood(d)
<1>1. c \in Cliffs
  BY DEF CliffGood
<1>2. twist \in 0 .. CliffDeadman + 1
  BY <1>1, CliffFields, CliffZero
<1>3. /\ d \in Cliffs /\ d.twist = twist /\ d.goes = c.goes /\ d.up = c.up
      /\ d.told = c.told /\ d.pose = c.pose /\ d.since = c.since /\ d.judging = c.judging
      /\ d.recent = c.recent /\ d.unseen = c.unseen
  BY <1>1, <1>2, CliffZero DEF Cliffs
<1>4. CliffClocks(d)
  BY <1>1, <1>3, CliffNumbers, CliffConstants DEF CliffGood, CliffClocks, CliffTold, CliffUntold
<1>5. CliffLastSaid(d) /\ CliffJudged(d)
  BY <1>3 DEF CliffGood, CliffLastSaid, CliffJudged, CliffTold, CliffUntold
<1>6. CliffElsewhere(d)
  BY <1>1, <1>3 DEF CliffGood, CliffElsewhere, CliffWillMove, CliffUntold
<1> QED BY <1>3, <1>4, <1>5, <1>6 DEF CliffGood

-----------------------------------------------------------------------------
LEMMA CliffSinceBounds ==
  ASSUME NEW c \in Cliffs
  PROVE  /\ CliffSince(c) \in 0 .. CliffSettle
         /\ c.twist > 0 => CliffSince(c) = 0
         /\ c.twist = 0 /\ c.since < CliffSettle => CliffSince(c) = c.since + 1
         /\ c.twist = 0 /\ c.since = CliffSettle => CliffSince(c) = CliffSettle
BY CliffFields, CliffNumbers, CliffConstants, CliffZero DEF CliffSince

(* A state taken of a moving body leaves no stand among the recent; one of   *)
(* a body that stands finds none of elsewhere its lane did not miss.         *)
LEMMA CliffBodyKeeps ==
  ASSUME NEW c, CliffGood(c), CliffUntold(c),
         NEW d, d = [c EXCEPT !.told = TRUE, !.since = CliffSince(c), !.pose = CliffSaid(c),
                              !.recent = CliffForgets(c)]
  PROVE  CliffGood(d)
<1>1. c \in Cliffs
  BY DEF CliffGood
<1>2. /\ CliffSaid(c) \in {"still", "moving"} /\ CliffSaid(c) \in {"none", "still", "moving"}
      /\ CliffSaid(c) = "moving" <=> CliffSince(c) < CliffSettle
  BY DEF CliffSaid
<1>3. CliffForgets(c) \subseteq c.recent /\ CliffForgets(c) \subseteq CliffShots
  BY <1>1, CliffFields DEF CliffForgets
<1>4. CliffSaid(c) = "moving" => \A f \in CliffForgets(c) : f.moving
  BY DEF CliffForgets
<1>5. /\ d \in Cliffs /\ d.twist = c.twist /\ d.goes = c.goes /\ d.up = c.up
      /\ d.told = TRUE /\ d.pose = CliffSaid(c) /\ d.since = CliffSince(c) /\ d.judging = c.judging
      /\ d.recent = CliffForgets(c) /\ d.unseen = c.unseen
  BY <1>1, <1>2, <1>3, CliffSinceBounds DEF Cliffs
<1> HIDE DEF CliffSince
<1>6. CliffClocks(d)
  BY <1>1, <1>5, CliffNumbers, CliffFields, CliffSinceBounds, CliffConstants
     DEF CliffGood, CliffClocks, CliffTold, CliffUntold
<1>7. CliffLastSaid(d)
  <2>1. CliffSince(c) \in Nat /\ CliffSince(c) <= CliffSettle
    BY <1>1, CliffSinceBounds, CliffConstants
  <2> QED BY <1>2, <1>5, <2>1, CliffConstants DEF CliffLastSaid, CliffTold
<1>8. CliffJudged(d)
  <2>1. \A f \in d.judging : f.here = TRUE /\ f.age = 0
    BY <1>5 DEF CliffGood, CliffJudged
  <2>2. ~CliffUntold(d)
    BY <1>5 DEF CliffUntold
  <2>3. ASSUME d.since < CliffSettle, CliffStood(d.recent \cup d.judging)
        PROVE  d.since = 0 /\ (d.unseen = 0 \/ d.goes = 0 \/ d.goes = CliffBodySettle + 1)
    <3>1. \A f \in d.recent : f.moving
      BY <1>2, <1>4, <1>5, <2>3
    <3>2. CliffStood(c.judging)
      BY <1>5, <2>3, <3>1 DEF CliffStood
    <3>3. c.since = CliffSettle
      BY <3>2 DEF CliffGood, CliffJudged
    <3>4. c.twist > 0 /\ CliffSince(c) = 0
      BY <1>1, <1>5, <2>3, <3>3, CliffSinceBounds, CliffNumbers, CliffConstants
    <3>5. c.unseen = 0 \/ c.goes = 0 \/ c.goes = CliffBodySettle + 1
      <4> SUFFICES ASSUME c.unseen # 0, c.goes > 0 PROVE c.goes = CliffBodySettle + 1
        BY <1>1, CliffNumbers
      <4> QED BY <1>1, <3>3, CliffNumbers, CliffConstants DEF CliffGood, CliffClocks
    <3> QED BY <1>5, <3>4, <3>5
  <2> QED BY <2>1, <2>2, <2>3 DEF CliffJudged
<1>9. CliffElsewhere(d)
  <2> SUFFICES ASSUME NEW f \in d.recent, CliffStale(f)
               PROVE  f.age >= 1 /\ f.age > d.unseen
    BY DEF CliffElsewhere
  <2>1. f \in c.recent /\ f.age >= 1 /\ (f.age > c.unseen \/ CliffWillMove(c))
    BY <1>3, <1>5 DEF CliffGood, CliffElsewhere
  <2>2. ~(CliffSince(c) < CliffSettle)
    BY <1>2, <1>4, <1>5 DEF CliffStale
  <2>3. ~CliffWillMove(c)
    BY <1>1, <2>2, CliffSinceBounds, CliffNumbers, CliffConstants DEF CliffWillMove
  <2> QED BY <1>5, <2>1, <2>3
<1> QED BY <1>5, <1>6, <1>7, <1>8, <1>9 DEF CliffGood

-----------------------------------------------------------------------------
LEMMA CliffLaneKeeps ==
  ASSUME NEW c, CliffGood(c), NEW unseen, unseen = IF c.goes > 0 THEN 0 ELSE c.unseen,
         NEW d,
         \/ c.up = FALSE /\ d = [c EXCEPT !.up = TRUE, !.told = FALSE, !.since = CliffSettle, !.unseen = unseen]
         \/ c.up = TRUE /\ d = [c EXCEPT !.up = FALSE, !.unseen = unseen]
  PROVE  CliffGood(d)
<1>1. c \in Cliffs
  BY DEF CliffGood
<1>2. unseen \in 0 .. CliffMemory + 1 /\ unseen <= c.unseen
  BY <1>1, CliffFields, CliffZero, CliffNumbers
<1>4. CASE d = [c EXCEPT !.up = TRUE, !.told = FALSE, !.since = CliffSettle, !.unseen = unseen] /\ c.up = FALSE
  <2>1. /\ d \in Cliffs /\ d.twist = c.twist /\ d.goes = c.goes /\ d.up = TRUE
        /\ d.told = FALSE /\ d.pose = c.pose /\ d.since = CliffSettle /\ d.judging = c.judging
        /\ d.recent = c.recent /\ d.unseen = unseen
    BY <1>1, <1>2, <1>4, CliffZero DEF Cliffs
  <2>2. CliffClocks(d)
    BY <1>1, <2>1, CliffNumbers DEF CliffClocks, CliffTold, CliffUntold
  <2>3. CliffLastSaid(d)
    BY <2>1 DEF CliffLastSaid, CliffTold
  <2>4. CliffJudged(d)
    BY <2>1 DEF CliffGood, CliffJudged, CliffTold, CliffUntold
  <2>5. CliffElsewhere(d)
    <3> SUFFICES ASSUME NEW f \in c.recent, CliffStale(f)
                 PROVE  f.age >= 1 /\ f.age > d.unseen
      BY <2>1 DEF CliffElsewhere
    <3>1. f.age >= 1 /\ f.age > c.unseen
      BY <1>4 DEF CliffGood, CliffElsewhere, CliffWillMove, CliffUntold
    <3>2. f.age \in Nat
      BY <1>1, CliffFields, CliffConstants DEF CliffShots
    <3> QED BY <1>1, <1>2, <2>1, <3>1, <3>2, CliffNumbers, CliffConstants
  <2> QED BY <2>1, <2>2, <2>3, <2>4, <2>5 DEF CliffGood
<1>5. CASE d = [c EXCEPT !.up = FALSE, !.unseen = unseen] /\ c.up = TRUE
  <2>1. /\ d \in Cliffs /\ d.twist = c.twist /\ d.goes = c.goes /\ d.up = FALSE
        /\ d.told = c.told /\ d.pose = c.pose /\ d.since = c.since /\ d.judging = c.judging
        /\ d.recent = c.recent /\ d.unseen = unseen
    BY <1>1, <1>2, <1>5, CliffZero DEF Cliffs
  <2>2. CliffClocks(d) /\ CliffLastSaid(d)
    BY <2>1 DEF CliffClocks, CliffLastSaid, CliffTold, CliffUntold
  <2>3. CliffJudged(d)
    BY <2>1 DEF CliffGood, CliffJudged, CliffTold, CliffUntold
  <2>4. CliffElsewhere(d)
    <3> SUFFICES ASSUME NEW f \in c.recent, CliffStale(f)
                 PROVE  f.age >= 1 /\ f.age > d.unseen
      BY <2>1 DEF CliffElsewhere
    <3>1. f.age >= 1 /\ (f.age > c.unseen \/ c.goes > 0)
      BY DEF CliffGood, CliffElsewhere, CliffWillMove
    <3>2. f.age \in Nat
      BY <1>1, CliffFields, CliffConstants DEF CliffShots
    <3> QED BY <1>1, <1>2, <2>1, <3>1, <3>2, CliffNumbers, CliffConstants
  <2> QED BY <2>1, <2>2, <2>3, <2>4 DEF CliffGood
<1> QED BY <1>4, <1>5

-----------------------------------------------------------------------------
CliffShotOf(m) == [moving |-> m, here |-> TRUE, age |-> 0]

LEMMA CliffJudgeKeeps ==
  ASSUME NEW c, CliffGood(c), c.pose # "none", c.judging = {}, NEW m \in BOOLEAN, m <=> c.pose = "moving",
         NEW d, d = [c EXCEPT !.judging = {CliffShotOf(m)}]
  PROVE  CliffGood(d)
<1>1. c \in Cliffs
  BY DEF CliffGood
<1>2. /\ CliffShotOf(m) \in CliffShots /\ CliffShotOf(m).here = TRUE /\ CliffShotOf(m).age = 0
      /\ CliffShotOf(m).moving = m
  BY CliffZero DEF CliffShotOf, CliffShots
<1> HIDE DEF CliffShotOf
<1>3. {CliffShotOf(m)} \subseteq CliffShots
  BY <1>2
<1>4. /\ d \in Cliffs /\ d.twist = c.twist /\ d.goes = c.goes /\ d.up = c.up
      /\ d.told = c.told /\ d.pose = c.pose /\ d.since = c.since /\ d.judging = {CliffShotOf(m)}
      /\ d.recent = c.recent /\ d.unseen = c.unseen
  BY <1>1, <1>3 DEF Cliffs
<1>5. CliffClocks(d) /\ CliffLastSaid(d)
  BY <1>4 DEF CliffGood, CliffClocks, CliffLastSaid, CliffTold, CliffUntold
<1>6. CliffElsewhere(d)
  BY <1>4 DEF CliffGood, CliffElsewhere, CliffWillMove, CliffUntold
<1>7. \A f \in d.judging : f.here = TRUE /\ f.age = 0
  BY <1>2, <1>4
<1>8. ASSUME CliffUntold(d), CliffStood(d.judging) PROVE d.since = CliffSettle
  <2>1. m = FALSE
    BY <1>2, <1>4, <1>8 DEF CliffStood
  <2>2. c.pose = "still"
    BY <1>1, <2>1, CliffFields
  <2> QED BY <1>4, <1>8, <2>2 DEF CliffGood, CliffLastSaid, CliffUntold
<1>9. ASSUME CliffTold(d), d.since < CliffSettle, CliffStood(d.recent \cup d.judging)
      PROVE  d.since = 0 /\ (d.unseen = 0 \/ d.goes = 0 \/ d.goes = CliffBodySettle + 1)
  <2>1. CliffTold(c)
    BY <1>4, <1>9 DEF CliffTold
  <2>2. m = TRUE
    BY <1>4, <1>9, <2>1 DEF CliffGood, CliffLastSaid
  <2>3. CliffStood(c.recent \cup c.judging)
    BY <1>2, <1>4, <1>9, <2>2 DEF CliffStood
  <2> QED BY <1>4, <1>9, <2>1, <2>3 DEF CliffGood, CliffJudged
<1>10. CliffJudged(d)
  BY <1>7, <1>8, <1>9 DEF CliffJudged
<1> QED BY <1>4, <1>5, <1>6, <1>10 DEF CliffGood

LEMMA CliffAbsorbKeeps ==
  ASSUME NEW c, CliffGood(c), NEW d, d = [c EXCEPT !.recent = c.recent \cup c.judging, !.judging = {}]
  PROVE  CliffGood(d)
<1>1. c \in Cliffs
  BY DEF CliffGood
<1>2. c.recent \cup c.judging \subseteq CliffShots /\ {} \subseteq CliffShots
  BY <1>1, CliffFields
<1>3. /\ d \in Cliffs /\ d.twist = c.twist /\ d.goes = c.goes /\ d.up = c.up
      /\ d.told = c.told /\ d.pose = c.pose /\ d.since = c.since /\ d.judging = {}
      /\ d.recent = c.recent \cup c.judging /\ d.unseen = c.unseen
  BY <1>1, <1>2 DEF Cliffs
<1>4. CliffClocks(d) /\ CliffLastSaid(d)
  BY <1>3 DEF CliffGood, CliffClocks, CliffLastSaid, CliffTold, CliffUntold
<1>5. ~CliffStood(d.judging) /\ d.recent \cup d.judging = c.recent \cup c.judging
  BY <1>3 DEF CliffStood
<1>6. CliffJudged(d)
  BY <1>3, <1>5 DEF CliffGood, CliffJudged, CliffTold
<1>7. CliffElsewhere(d)
  BY <1>3 DEF CliffGood, CliffElsewhere, CliffJudged, CliffStale, CliffWillMove, CliffUntold
<1> QED BY <1>3, <1>4, <1>6, <1>7 DEF CliffGood

-----------------------------------------------------------------------------
LEMMA CliffLessIsLess ==
  ASSUME NEW n \in Nat, NEW k \in 0 .. n
  PROVE  CliffLess(k) \in 0 .. n /\ CliffLess(k) <= k /\ (k > 0 => CliffLess(k) = k - 1)
         /\ (k = 0 => CliffLess(k) = 0)
BY DEF CliffLess

CliffAgedFrom(f, g, moved) ==
  /\ f.age = g.age + 1 /\ f.moving = g.moving
  /\ f.here = FALSE <=> g.here = FALSE \/ moved = TRUE

LEMMA CliffAgedIs ==
  ASSUME NEW shots \in SUBSET CliffShots, NEW moved \in BOOLEAN
  PROVE  /\ CliffAged(shots, moved) \subseteq CliffShots
         /\ \A f \in CliffAged(shots, moved) : \E g \in shots : CliffAgedFrom(f, g, moved)
<1> SUFFICES ASSUME NEW f \in CliffAged(shots, moved)
             PROVE  f \in CliffShots /\ \E g \in shots : CliffAgedFrom(f, g, moved)
  OBVIOUS
<1>1. PICK g \in shots : g.age < CliffKeep /\ f = [g EXCEPT !.age = g.age + 1, !.here = (g.here /\ ~moved)]
  BY DEF CliffAged
<1>2. g \in CliffShots /\ g.age \in 0 .. CliffKeep /\ g.here \in BOOLEAN /\ g.moving \in BOOLEAN
  BY DEF CliffShots
<1>3. g.age + 1 \in 0 .. CliffKeep
  BY <1>1, <1>2, CliffConstants
<1>4. PICK here \in BOOLEAN : here <=> g.here /\ ~moved
  BY Zenon
<1>5. (g.here /\ ~moved) = here
  BY <1>2, <1>4, Zenon
<1>6. f = [g EXCEPT !.age = g.age + 1, !.here = here]
  BY <1>1, <1>5, Zenon
<1>7. f \in CliffShots /\ f.age = g.age + 1 /\ f.here = here /\ f.moving = g.moving
  BY <1>2, <1>3, <1>6 DEF CliffShots
<1>8. here = FALSE <=> g.here = FALSE \/ moved = TRUE
  BY <1>2, <1>4
<1>9. CliffAgedFrom(f, g, moved)
  BY <1>7, <1>8 DEF CliffAgedFrom
<1> QED BY <1>7, <1>9

CliffTickTwist(c) == IF c.move > 0 THEN CliffDeadman + 1 ELSE CliffLess(c.twist)
CliffTickGoes(c) == IF c.twist > 0 THEN CliffBodySettle + 1 ELSE CliffLess(c.goes)
CliffTickUnseen(c) ==
  IF c.goes > 0 /\ (~c.up \/ c.unseen = 0) THEN 0
  ELSE IF c.unseen > CliffMemory THEN c.unseen ELSE c.unseen + 1

LEMMA CliffTicks ==
  ASSUME NEW c \in Cliffs
  PROVE  /\ CliffLess(c.move) \in 0 .. CliffMove
         /\ CliffTickTwist(c) \in 0 .. CliffDeadman + 1
         /\ c.twist > 1 => CliffTickTwist(c) > 0
         /\ CliffTickGoes(c) \in 0 .. CliffBodySettle + 1
         /\ c.twist > 0 => CliffTickGoes(c) = CliffBodySettle + 1
         /\ c.twist = 0 /\ c.goes > 0 => CliffTickGoes(c) = c.goes - 1
         /\ c.twist = 0 /\ c.goes = 0 => CliffTickGoes(c) = 0
         /\ CliffTickUnseen(c) \in 0 .. CliffMemory + 1
         /\ CliffTickUnseen(c) <= c.unseen + 1
         /\ c.goes > 0 /\ (c.up = FALSE \/ c.unseen = 0) => CliffTickUnseen(c) = 0
<1>1. CliffLess(c.move) \in 0 .. CliffMove
  BY CliffFields, CliffLessIsLess, CliffConstants
<1>2. /\ CliffLess(c.twist) \in 0 .. CliffDeadman + 1
      /\ c.twist > 0 => CliffLess(c.twist) = c.twist - 1
  BY CliffFields, CliffLessIsLess, CliffConstants
<1>3. /\ CliffLess(c.goes) \in 0 .. CliffBodySettle + 1
      /\ c.goes > 0 => CliffLess(c.goes) = c.goes - 1
      /\ c.goes = 0 => CliffLess(c.goes) = 0
  BY CliffFields, CliffLessIsLess, CliffConstants
<1>4. /\ CliffTickTwist(c) \in 0 .. CliffDeadman + 1
      /\ c.twist > 1 => CliffTickTwist(c) > 0
  BY <1>2, CliffZero, CliffNumbers, CliffConstants DEF CliffTickTwist
<1>5. /\ CliffTickGoes(c) \in 0 .. CliffBodySettle + 1
      /\ c.twist > 0 => CliffTickGoes(c) = CliffBodySettle + 1
      /\ c.twist = 0 /\ c.goes > 0 => CliffTickGoes(c) = c.goes - 1
      /\ c.twist = 0 /\ c.goes = 0 => CliffTickGoes(c) = 0
  BY <1>3, CliffZero, CliffNumbers, CliffConstants DEF CliffTickGoes
<1>6. /\ CliffTickUnseen(c) \in 0 .. CliffMemory + 1
      /\ CliffTickUnseen(c) <= c.unseen + 1
      /\ c.goes > 0 /\ (c.up = FALSE \/ c.unseen = 0) => CliffTickUnseen(c) = 0
  BY CliffFields, CliffZero, CliffNumbers, CliffConstants DEF CliffTickUnseen
<1> QED BY <1>1, <1>4, <1>5, <1>6

(* Time makes a frame of elsewhere only where the body goes on; where its    *)
(* lane does not miss it, the next state it tells will be of a moving body.  *)
LEMMA CliffTickKeeps ==
  ASSUME NEW c, CliffGood(c), c.up = TRUE => c.told = TRUE, c.judging = {},
         NEW moved \in BOOLEAN, moved = TRUE => c.goes > 0,
         NEW d, d = [c EXCEPT !.move = CliffLess(c.move), !.twist = CliffTickTwist(c), !.told = FALSE,
                              !.goes = CliffTickGoes(c), !.recent = CliffAged(c.recent, moved),
                              !.unseen = CliffTickUnseen(c)]
  PROVE  CliffGood(d)
<1>1. c \in Cliffs
  BY DEF CliffGood
<1>2. CliffAged(c.recent, moved) \subseteq CliffShots
  BY <1>1, CliffFields, CliffAgedIs
<1>3. /\ d \in Cliffs /\ d.twist = CliffTickTwist(c) /\ d.goes = CliffTickGoes(c) /\ d.up = c.up
      /\ d.told = FALSE /\ d.pose = c.pose /\ d.since = c.since /\ d.judging = {}
      /\ d.recent = CliffAged(c.recent, moved) /\ d.unseen = CliffTickUnseen(c)
  BY <1>1, <1>2, CliffTicks DEF Cliffs
<1>n. /\ CliffTickTwist(c) \in Nat /\ CliffTickGoes(c) \in Nat /\ CliffTickUnseen(c) \in Nat
      /\ c.twist \in Nat /\ c.goes \in Nat /\ c.since \in Nat /\ c.unseen \in Nat
  <2>1. CliffTickTwist(c) \in Nat
    <3>1. CliffTickTwist(c) \in 0 .. CliffDeadman + 1
      BY <1>1, CliffTicks
    <3> QED BY <3>1, CliffConstants
  <2>2. CliffTickGoes(c) \in Nat
    <3>1. CliffTickGoes(c) \in 0 .. CliffBodySettle + 1
      BY <1>1, CliffTicks
    <3> QED BY <3>1, CliffConstants
  <2>3. CliffTickUnseen(c) \in Nat
    <3>1. CliffTickUnseen(c) \in 0 .. CliffMemory + 1
      BY <1>1, CliffTicks
    <3> QED BY <3>1, CliffConstants
  <2> QED BY <1>1, <2>1, <2>2, <2>3, CliffNumbers
<1>t. /\ c.twist > 1 => CliffTickTwist(c) > 0
      /\ c.twist > 0 => CliffTickGoes(c) = CliffBodySettle + 1
      /\ c.twist = 0 /\ c.goes > 0 => CliffTickGoes(c) = c.goes - 1
      /\ c.twist = 0 /\ c.goes = 0 => CliffTickGoes(c) = 0
      /\ CliffTickUnseen(c) <= c.unseen + 1
      /\ c.goes > 0 /\ (c.up = FALSE \/ c.unseen = 0) => CliffTickUnseen(c) = 0
  BY <1>1, CliffTicks
<1> HIDE DEF CliffTickTwist, CliffTickGoes, CliffTickUnseen
<1>4. ASSUME d.up = TRUE, d.unseen # 0, d.goes > 0
      PROVE  d.since + d.goes <= CliffBodySettle + 1 \/ (d.goes = CliffBodySettle + 1 /\ d.twist > 0)
  <2>1. CliffTold(c)
    BY <1>3, <1>4 DEF CliffTold
  <2>2. CASE c.twist > 1
    BY <1>3, <1>n, <1>t, <2>2
  <2>3. CASE c.twist = 1
    <3>1. c.since = 0
      BY <2>1, <2>3, CliffConstants DEF CliffGood, CliffClocks
    <3> QED BY <1>3, <1>n, <1>t, <2>3, <3>1, CliffConstants
  <2>4. CASE c.twist = 0
    <3>1. c.goes > 0 /\ CliffTickGoes(c) = c.goes - 1
      BY <1>3, <1>4, <1>n, <1>t, <2>4
    <3>2. c.unseen # 0
      BY <1>1, <1>3, <1>4, <1>t, <3>1, CliffFields
    <3>3. c.since + c.goes <= CliffBodySettle + 2
      BY <2>1, <3>1, <3>2 DEF CliffGood, CliffClocks
    <3> QED BY <1>1, <1>3, <3>1, <3>3, CliffNumbers, CliffConstants
  <2> QED BY <1>1, <2>2, <2>3, <2>4, CliffNumbers
<1>5. CliffClocks(d)
  BY <1>3, <1>4 DEF CliffClocks, CliffTold, CliffUntold
<1>6. CliffLastSaid(d)
  BY <1>3 DEF CliffGood, CliffLastSaid, CliffTold
<1>7. CliffJudged(d)
  BY <1>3 DEF CliffJudged, CliffStood, CliffTold
<1>8. CliffElsewhere(d)
  <2> SUFFICES ASSUME NEW f \in d.recent, CliffStale(f)
               PROVE  f.age >= 1 /\ (f.age > d.unseen \/ CliffWillMove(d))
    BY DEF CliffElsewhere
  <2>1. PICK g \in c.recent : CliffAgedFrom(f, g, moved)
    <3>1. c.recent \in SUBSET CliffShots /\ f \in CliffAged(c.recent, moved)
      BY <1>1, <1>3, CliffFields
    <3>2. \A h \in CliffAged(c.recent, moved) : \E g \in c.recent : CliffAgedFrom(h, g, moved)
      BY <3>1, CliffAgedIs
    <3> QED BY <3>1, <3>2
  <2>2. g \in CliffShots /\ f \in CliffShots
    BY <1>1, <1>2, <1>3, CliffFields
  <2>3. /\ g.age \in Nat /\ f.moving = FALSE /\ f.here = FALSE /\ g.moving = FALSE /\ g.here \in BOOLEAN
    BY <2>1, <2>2, CliffConstants DEF CliffStale, CliffShots, CliffAgedFrom
  <2>4. f.age >= 1
    BY <2>1, <2>3 DEF CliffAgedFrom
  <2>5. CASE g.here = FALSE
    <3>1. g.age > c.unseen
      BY <2>3, <2>5 DEF CliffGood, CliffElsewhere, CliffStale, CliffWillMove, CliffUntold
    <3>2. CliffTickUnseen(c) <= c.unseen + 1 /\ CliffTickUnseen(c) \in Nat /\ c.unseen \in Nat
      BY <1>n, <1>t
    <3>3. f.age > d.unseen
      BY <1>3, <2>1, <2>3, <3>1, <3>2 DEF CliffAgedFrom
    <3> QED BY <2>4, <3>3
  <2>6. CASE g.here = TRUE
    <3>1. moved = TRUE /\ c.goes > 0
      BY <2>1, <2>3, <2>6 DEF CliffAgedFrom
    <3>2. CASE c.up = FALSE \/ c.unseen = 0
      <4>1. d.unseen = 0
        BY <1>3, <1>t, <3>1, <3>2
      <4> QED BY <2>3, <2>4, <4>1, <2>1 DEF CliffAgedFrom
    <3>3. CASE c.up = TRUE /\ c.unseen # 0
      <4>1. CliffTold(c)
        BY <3>3 DEF CliffTold
      <4>2. CliffStood(c.recent \cup c.judging)
        BY <2>3 DEF CliffStood
      <4>3. c.since < CliffSettle
        BY <1>1, <3>1, <3>3, <4>1, CliffNumbers, CliffConstants DEF CliffGood, CliffClocks
      <4>4. c.since = 0 /\ c.goes = CliffBodySettle + 1
        BY <1>1, <3>1, <3>3, <4>1, <4>2, <4>3, CliffNumbers DEF CliffGood, CliffJudged
      <4>5. d.goes > 0
        BY <1>3, <1>n, <1>t, <4>4, CliffConstants
      <4>6. CliffUntold(d) /\ d.since + 1 < CliffSettle
        BY <1>3, <3>3, <4>4, CliffConstants DEF CliffUntold
      <4> QED BY <2>4, <4>5, <4>6 DEF CliffWillMove
    <3> QED BY <1>1, <3>2, <3>3, CliffFields
  <2> QED BY <2>3, <2>5, <2>6
<1> QED BY <1>3, <1>5, <1>6, <1>7, <1>8 DEF CliffGood

-----------------------------------------------------------------------------
LEMMA CliffNextKeeps == CliffInv /\ [CliffNext]_cliff => CliffInv'
<1> SUFFICES ASSUME CliffInv, [CliffNext]_cliff PROVE CliffGood(cliff')
  BY DEF CliffInv
<1>1. CliffGood(cliff) /\ cliff \in Cliffs
  BY DEF CliffInv, CliffGood
<1>2. CASE CliffMoves
  <2>1. PICK n \in 1 .. CliffMove : cliff' = [cliff EXCEPT !.move = n, !.twist = CliffDeadman + 1]
    BY <1>2 DEF CliffMoves
  <2> QED BY <1>1, <2>1, CliffMovesKeeps
<1>3. CASE CliffStops
  <2>1. PICK twist \in {0, cliff.twist} : cliff' = [cliff EXCEPT !.move = 0, !.twist = twist]
    <3>1. CASE cliff' = [cliff EXCEPT !.move = 0, !.twist = 0]
      BY <3>1
    <3>2. CASE cliff' = [cliff EXCEPT !.move = 0]
      <4>1. cliff' = [cliff EXCEPT !.move = 0, !.twist = cliff.twist]
        BY <1>1, <3>2 DEF Cliffs
      <4> QED BY <4>1
    <3> QED BY <1>3, <3>1, <3>2 DEF CliffStops
  <2>2. cliff.up = TRUE => cliff.told = TRUE
    BY <1>1, <1>3, CliffFields DEF CliffStops
  <2> QED BY <1>1, <2>1, <2>2, CliffStopsKeeps
<1>4. CASE CliffBody
  <2>1. CliffUntold(cliff)
    BY <1>1, <1>4, CliffFields DEF CliffBody, CliffUntold
  <2> QED BY <1>1, <1>4, <2>1, CliffBodyKeeps DEF CliffBody
<1>5. CASE CliffLaneUp
  <2>1. /\ cliff.up = FALSE
        /\ cliff' = [cliff EXCEPT !.up = TRUE, !.told = FALSE, !.since = CliffSettle,
                                  !.unseen = IF cliff.goes > 0 THEN 0 ELSE cliff.unseen]
    BY <1>1, <1>5, CliffFields DEF CliffLaneUp
  <2> QED BY <1>1, <2>1, CliffLaneKeeps
<1>6. CASE CliffLaneLost
  <2>1. /\ cliff.up = TRUE
        /\ cliff' = [cliff EXCEPT !.up = FALSE, !.unseen = IF cliff.goes > 0 THEN 0 ELSE cliff.unseen]
    BY <1>1, <1>6, CliffFields DEF CliffLaneLost
  <2> QED BY <1>1, <2>1, CliffLaneKeeps
<1>7. CASE CliffJudge
  <2>1. PICK m \in BOOLEAN : m <=> cliff.pose = "moving"
    BY Zenon
  <2>2. (cliff.pose = "moving") = m
    BY <2>1, Zenon
  <2>3. cliff' = [cliff EXCEPT !.judging = {CliffShotOf(m)}]
    BY <1>7, <2>2, Zenon DEF CliffJudge, CliffShotOf
  <2> QED BY <1>1, <1>7, <2>1, <2>3, CliffJudgeKeeps DEF CliffJudge
<1>8. CASE CliffAbsorb
  <2>1. cliff' = [cliff EXCEPT !.recent = cliff.recent \cup cliff.judging, !.judging = {}]
    BY <1>1, <1>8 DEF CliffAbsorb, Cliffs
  <2> QED BY <1>1, <2>1, CliffAbsorbKeeps
<1>9. CASE CliffTick
  <2>1. PICK moved \in IF cliff.goes > 0 THEN BOOLEAN ELSE {FALSE} :
          cliff' = [cliff EXCEPT !.move = CliffLess(cliff.move), !.twist = CliffTickTwist(cliff), !.told = FALSE,
                      !.goes = CliffTickGoes(cliff), !.recent = CliffAged(cliff.recent, moved),
                      !.unseen = CliffTickUnseen(cliff)]
    BY <1>1, <1>9 DEF CliffTick, CliffTickTwist, CliffTickGoes, CliffTickUnseen
  <2>2. moved \in BOOLEAN /\ (moved = TRUE => cliff.goes > 0)
    BY <2>1
  <2>3. cliff.up = TRUE => cliff.told = TRUE
    BY <1>1, <1>9, CliffFields DEF CliffTick
  <2> QED BY <1>1, <1>9, <2>1, <2>2, <2>3, CliffTickKeeps DEF CliffTick
<1>10. CASE UNCHANGED cliff
  BY <1>1, <1>10
<1> QED
  BY <1>2, <1>3, <1>4, <1>5, <1>6, <1>7, <1>8, <1>9, <1>10 DEF CliffNext

(* A frame older than what is asked, of all it missed nothing since.         *)
LEMMA CliffInvStandsHere == CliffInv => CliffStandsHere
<1> SUFFICES ASSUME CliffInv, cliff.up, cliff.told, cliff.unseen > CliffMemory,
                    NEW f \in cliff.recent, ~f.moving, f.age <= CliffMemory
             PROVE  f.here
  BY DEF CliffStandsHere
<1>1. cliff \in Cliffs /\ cliff.up = TRUE /\ cliff.told = TRUE
  BY CliffFields DEF CliffInv, CliffGood
<1>2. f.age \in Nat /\ f.here \in BOOLEAN
  BY <1>1, CliffFields, CliffConstants DEF CliffShots
<1>3. ~CliffWillMove(cliff)
  BY <1>1 DEF CliffWillMove, CliffUntold
<1>4. ~f.here => f.age > cliff.unseen
  BY <1>3 DEF CliffInv, CliffGood, CliffElsewhere, CliffStale
<1> QED BY <1>1, <1>2, <1>4, CliffNumbers, CliffConstants

-----------------------------------------------------------------------------
LEMMA CliffLeast ==
  ASSUME NEW T, T \subseteq Nat, T # {}
  PROVE  Min(T) \in T /\ \A y \in T : Min(T) <= y
<1> DEFINE R == OpToRel(<, Nat)
<1>1. IsWellFoundedOn(R, Nat)
  BY NatLessThanWellFounded
<1>2. ASSUME NEW x \in T, NEW y \in T, ~(<<y, x>> \in R) PROVE x <= y
  <2>1. x \in Nat /\ y \in Nat
    OBVIOUS
  <2>2. ~(y < x)
    BY <1>2, <2>1 DEF OpToRel
  <2> QED BY <2>1, <2>2
<1> HIDE DEF R
<1>3. \E x \in T : \A y \in T : ~(<<y, x>> \in R)
  BY <1>1, WFMin
<1>4. \E x \in T : \A y \in T : x <= y
  BY <1>2, <1>3
<1> QED BY <1>4 DEF Min

LEMMA CliffMost ==
  ASSUME NEW n \in Nat, NEW T, T \subseteq 0 .. n, T # {}
  PROVE  Max(T) \in T /\ \A y \in T : y <= Max(T)
<1> DEFINE U == {n - x : x \in T}
<1>1. U \subseteq Nat /\ U # {}
  <2>1. \A x \in T : n - x \in Nat
    OBVIOUS
  <2> QED BY <2>1
<1>2. Min(U) \in U /\ \A y \in U : Min(U) <= y
  BY <1>1, CliffLeast
<1>3. PICK x \in T : \A y \in U : n - x <= y
  BY <1>2
<1>4. \A y \in T : y <= x
  <2> TAKE y \in T
  <2>1. n - x <= n - y /\ x \in Nat /\ y \in Nat
    BY <1>3
  <2> QED BY <2>1
<1>5. \E z \in T : \A y \in T : y <= z
  BY <1>4
<1> QED BY <1>5 DEF Max

LEMMA CliffHoleIsBracketed == CliffBrackets
<1> SUFFICES ASSUME NEW near \in 0 .. CliffRows, NEW far \in 1 .. CliffRows + 1, NEW hidden \in SUBSET CliffRow,
                    NEW r \in CliffRow, CliffColumn(near, far, hidden)[r] = "drop"
             PROVE  /\ CliffEdge(CliffColumn(near, far, hidden), r) <= near
                    /\ CliffBeyond(CliffColumn(near, far, hidden), r) \notin 1 .. far - 1
  BY DEF CliffBrackets
<1> DEFINE v == CliffColumn(near, far, hidden)
<1>1. near < r /\ r < far
  BY DEF CliffColumn
<1>2. \A i \in CliffRow : v[i] = "floor" => ~(near < i /\ i < far)
  BY DEF CliffColumn
<1> HIDE DEF v
<1>3. r \in Nat /\ r <= CliffRows /\ CliffRows \in Nat /\ near \in Nat /\ far \in Nat
  BY CliffConstants DEF CliffRow
<1>4. CliffEdge(v, r) <= near
  <2> DEFINE T == {0} \cup CliffFloors(v, 1 .. r - 1)
  <2>1. T \subseteq 0 .. CliffRows /\ T # {}
    BY <1>3 DEF CliffFloors
  <2>2. Max(T) \in T
    BY <1>3, <2>1, CliffMost
  <2>3. \A i \in T : i <= near
    BY <1>1, <1>2, <1>3 DEF CliffFloors, CliffRow
  <2> QED BY <2>2, <2>3 DEF CliffEdge
<1>5. CliffBeyond(v, r) \notin 1 .. far - 1
  <2> DEFINE rows == CliffFloors(v, r + 1 .. CliffRows)
  <2>1. rows \subseteq Nat /\ \A i \in rows : far <= i
    BY <1>1, <1>2, <1>3 DEF CliffFloors, CliffRow
  <2>2. CASE rows = {}
    BY <2>2, <1>3 DEF CliffBeyond
  <2>3. CASE rows # {}
    <3>1. Min(rows) \in rows
      BY <2>1, <2>3, CliffLeast
    <3>2. CliffBeyond(v, r) = Min(rows)
      BY <2>3 DEF CliffBeyond
    <3>3. far <= Min(rows) /\ Min(rows) \in Nat
      BY <2>1, <3>1
    <3> HIDE DEF rows
    <3> QED BY <1>3, <3>2, <3>3
  <2> QED BY <2>2, <2>3
<1> QED BY <1>4, <1>5 DEF v

(* What the invariant says of the floor.                                     *)
LEMMA CliffInvSays == CliffInv => CliffTypeOK /\ CliffTrue
BY CliffInvStandsHere, CliffHoleIsBracketed DEF CliffInv, CliffGood, CliffTypeOK, CliffTrue

(* For any memory, settling and deadman: what the drop sensor's frames say   *)
(* of a stand is of where the body stands, whatever lane was lost or frame   *)
(* was being judged when it moved, and a hole is between the edge and the    *)
(* floor beyond that a column tells of it (cliff.rs).                        *)
THEOREM CliffHolds == CliffSpec => [](CliffTypeOK /\ CliffTrue)
<1>1. CliffInv => CliffTypeOK /\ CliffTrue
  BY CliffInvSays
<1>2. CliffSpec => []CliffInv
  BY CliffInitInv, CliffNextKeeps, PTL DEF CliffSpec
<1> QED BY <1>1, <1>2, PTL

-----------------------------------------------------------------------------
(* What the frames say of the map searched on: with one frame of the map     *)
(* before in flight, whatever came since the first is of this one.           *)
SearchFrames(r) ==
  SearchOld <= 1 => (r.frames >= 1 => r.old = 0) /\ (r.frames >= 2 => r.ours)

(* A blind step was decided where the body is; a corner counted no longer    *)
(* than it was looked at; and nothing of it before the scan.                 *)
SearchBlind(r) == r.did # "nothing" => ~r.moved
SearchCorner(r) == r.same <= r.boxed /\ r.same <= 2
SearchBlank(r) == r.did = "nothing" /\ r.stuck = 0 /\ r.boxed = 0 /\ r.same = 0

SearchGood(r) ==
  /\ r \in Searches
  /\ SearchFrames(r) /\ (r.at = "found" => r.frames > 1)
  /\ SearchBlind(r) /\ (r.at \in {"look", "scan", "found"} => r.did = "nothing")
  /\ SearchCorner(r)
  /\ ~r.scanned \/ r.at = "scan" => SearchBlank(r)
  /\ r.at = "scan" => r.scanned

SearchInv == SearchGood(search)

LEMMA SearchInitInv == SearchInit => SearchInv
<1> SUFFICES ASSUME SearchInit PROVE SearchInv
  OBVIOUS
<1>1. PICK trusted \in BOOLEAN, old \in 0 .. SearchOld : search = SearchFirst(trusted, old)
  BY DEF SearchInit
<1>2. /\ search \in Searches /\ search.frames = 0 /\ search.did = "nothing" /\ search.stuck = 0
      /\ search.boxed = 0 /\ search.same = 0 /\ search.at = "step"
  BY <1>1, SearchAssumption DEF SearchFirst, Searches, SearchDrops
<1> QED BY <1>2 DEF SearchInv, SearchGood, SearchFrames, SearchBlind, SearchCorner, SearchBlank

-----------------------------------------------------------------------------
(* What a look offers to decide on; a straight way is a leg ahead.           *)
SearchSights ==
  [free : 0 .. 3, spot : BOOLEAN, straight : BOOLEAN, side : BOOLEAN, looked : BOOLEAN]

LEMMA SearchLooksSeen ==
  ASSUME NEW look \in SearchLooks
  PROVE  look \in SearchSights /\ (look.straight => look.free >= LegRoom /\ ~look.spot)
<1>1. PICK rooms \in SearchRooms : look \in SearchLookAround(rooms)
  BY DEF SearchLooks
<1> DEFINE seen == {s \in SearchSectors : rooms[s] # SearchUnseen}
           room(s) == IF s \in seen THEN rooms[s] ELSE 0
           best == {s \in seen :
                      /\ room(s) >= room("ahead")
                      /\ room(s) >= LegRoom \/ \A other \in seen : room(other) < StraightRoom}
           frees(s) == IF room(s) = StraightRoom THEN LegRoom .. StraightRoom ELSE 0 .. room(s)
           at(s, free) == [free |-> free, spot |-> s # "ahead" /\ room("ahead") < LegRoom,
                           straight |-> room("ahead") >= StraightRoom,
                           side |-> room("left") >= KickRoom, looked |-> seen = SearchSectors]
<1>2. \E s \in IF seen = {} THEN {"ahead"} ELSE best : look \in {at(s, free) : free \in frees(s)}
  BY <1>1, Zenon DEF SearchLookAround
<1>3. PICK s \in IF seen = {} THEN {"ahead"} ELSE best : look \in {at(s, free) : free \in frees(s)}
  BY <1>2
<1>4. PICK free \in frees(s) : look = at(s, free)
  BY <1>3
<1>5. \A other \in SearchSectors : room(other) \in {0, 1, 2, 3}
  BY DEF SearchRooms, SearchUnseen
<1>6. s \in SearchSectors /\ "ahead" \in SearchSectors
  BY <1>3 DEF SearchSectors
<1>7. seen # {} => room(s) >= room("ahead")
  BY <1>3
<1>8. seen = {} => room("ahead") = 0
  OBVIOUS
<1>9. room(s) \in {0, 1, 2, 3} /\ room("ahead") \in {0, 1, 2, 3}
  BY <1>5, <1>6
<1>10. free \in 0 .. 3 /\ (room("ahead") >= 3 => free >= 2)
  <2>1. free \in IF room(s) = 3 THEN 2 .. 3 ELSE 0 .. room(s)
    BY <1>4 DEF StraightRoom, LegRoom
  <2> HIDE DEF seen, room
  <2> QED BY <2>1, <1>7, <1>8, <1>9
<1> DEFINE spot == s # "ahead" /\ room("ahead") < LegRoom
           straight == room("ahead") >= StraightRoom
           side == room("left") >= KickRoom
           looked == seen = SearchSectors
<1>11. look = [free |-> free, spot |-> spot, straight |-> straight, side |-> side, looked |-> looked]
  BY <1>4
<1>13. spot \in BOOLEAN /\ straight \in BOOLEAN /\ side \in BOOLEAN /\ looked \in BOOLEAN
  OBVIOUS
<1> HIDE DEF seen, room, side, looked
<1>12. straight => free >= 2 /\ ~spot
  BY <1>9, <1>10 DEF StraightRoom, LegRoom
<1> HIDE DEF spot, straight
<1>14. look \in SearchSights
  BY <1>10, <1>11, <1>13 DEF SearchSights
<1>15. look.straight = straight /\ look.free = free /\ look.spot = spot
  BY <1>11
<1> QED BY <1>12, <1>14, <1>15 DEF LegRoom

-----------------------------------------------------------------------------
(* What a decision may do: it ends at the next step, and leaves the frames   *)
(* and the scan as they are.                                                 *)
SearchDecided(s, r) ==
  /\ r \in Searches /\ r.at = "step" /\ SearchBlind(r) /\ SearchCorner(r)
  /\ r.frames = s.frames /\ r.old = s.old /\ r.ours = s.ours /\ r.scanned = s.scanned

(* It stands where the search may decide from.                               *)
SearchMayDecide(s) ==
  /\ s \in Searches /\ s.did = "nothing" /\ SearchCorner(s)
  /\ s.moved => s.stuck = 0 /\ s.boxed = 0

LEMMA SearchLegsDecided ==
  ASSUME NEW s0, SearchMayDecide(s0), NEW look \in SearchSights, NEW r \in SearchLegs(s0, look)
  PROVE  SearchDecided(s0, r) /\ (~look.spot => SearchBlank(r))
<1> DEFINE s == [s0 EXCEPT !.at = "step", !.boxed = 0, !.same = 0]
<1>0. s0 \in Searches /\ s0.did = "nothing" /\ (s0.moved => s0.stuck = 0)
  BY DEF SearchMayDecide
<1>a. s \in Searches
  <2>1. 0 \in 0 .. 3 /\ 0 \in 0 .. 4
    OBVIOUS
  <2> QED BY <1>0, <2>1 DEF Searches
<1>1. /\ s \in Searches /\ s.at = "step" /\ s.boxed = 0 /\ s.same = 0 /\ s.did = "nothing"
      /\ s.stuck = s0.stuck /\ s.stuck \in 0 .. 3 /\ s.moved = s0.moved /\ s.there \in BOOLEAN
      /\ s.frames = s0.frames /\ s.old = s0.old /\ s.ours = s0.ours /\ s.scanned = s0.scanned
  BY <1>0, <1>a DEF Searches
<1>b. s.moved => s.stuck = 0
  BY <1>0, <1>1
<1>2. CASE ~look.spot
  <2>1. r = [s EXCEPT !.stuck = 0]
    BY <1>2 DEF SearchLegs
  <2> HIDE DEF s
  <2>2. /\ r \in Searches /\ r.at = "step" /\ r.boxed = 0 /\ r.same = 0 /\ r.did = "nothing"
        /\ r.stuck = 0
        /\ r.frames = s0.frames /\ r.old = s0.old /\ r.ours = s0.ours /\ r.scanned = s0.scanned
    BY <1>1, <2>1 DEF Searches
  <2> QED BY <2>2 DEF SearchDecided, SearchBlind, SearchCorner, SearchBlank
<1>3. CASE look.spot
  <2>1. PICK went \in SearchTurned(s) :
          LET stuck == IF went = s THEN s.stuck + 1 ELSE 0
              back == stuck >= 3 /\ s.drop = "ahead"
          IN r = [went EXCEPT !.stuck = IF back THEN 0 ELSE SearchLeast(stuck, 3),
                              !.did = IF back THEN "stuckBack" ELSE "nothing",
                              !.there = @ /\ ~back]
    BY <1>3 DEF SearchLegs
  <2> HIDE DEF s
  <2>2. PICK stuck \in 0 .. 3, back \in BOOLEAN :
          /\ r = [went EXCEPT !.stuck = stuck, !.did = IF back THEN "stuckBack" ELSE "nothing",
                              !.there = @ /\ ~back]
          /\ back => went = s /\ s.stuck >= 2
    <3> DEFINE n == IF went = s THEN s.stuck + 1 ELSE 0
               b == n >= 3 /\ s.drop = "ahead"
               k == IF b THEN 0 ELSE SearchLeast(n, 3)
    <3>1. n \in 0 .. 4 /\ (n >= 3 => went = s /\ s.stuck >= 2)
      BY <1>1
    <3>2. r = [went EXCEPT !.stuck = k, !.did = IF b THEN "stuckBack" ELSE "nothing",
                           !.there = @ /\ ~b]
      BY <2>1
    <3>3. k \in 0 .. 3
      <4> HIDE DEF n, b
      <4> QED BY <3>1 DEF SearchLeast
    <3>4. b \in BOOLEAN
      OBVIOUS
    <3> HIDE DEF n, k
    <3>5. b => went = s /\ s.stuck >= 2
      BY <3>1
    <3> HIDE DEF b
    <3> QED BY <3>2, <3>3, <3>4, <3>5
  <2>3. /\ went \in Searches /\ went.at = "step" /\ went.boxed = 0 /\ went.same = 0
        /\ went.there \in BOOLEAN
        /\ went.frames = s0.frames /\ went.old = s0.old /\ went.ours = s0.ours
        /\ went.scanned = s0.scanned
    BY <1>1, <2>1 DEF SearchTurned, SearchWent, Searches
  <2>4. PICK there \in BOOLEAN, did \in {"stuckBack", "nothing"} :
          /\ r = [went EXCEPT !.stuck = stuck, !.did = did, !.there = there]
          /\ did = IF back THEN "stuckBack" ELSE "nothing"
    BY <2>2, <2>3
  <2>5. /\ r \in Searches /\ r.at = "step" /\ r.boxed = 0 /\ r.same = 0 /\ r.did = did
        /\ r.moved = went.moved
        /\ r.frames = s0.frames /\ r.old = s0.old /\ r.ours = s0.ours /\ r.scanned = s0.scanned
    BY <2>3, <2>4 DEF Searches
  <2>6. r.did # "nothing" => ~r.moved
    BY <1>1, <1>b, <2>2, <2>4, <2>5
  <2> QED BY <1>3, <2>5, <2>6 DEF SearchDecided, SearchBlind, SearchCorner
<1> QED BY <1>2, <1>3

LEMMA SearchBoxedDecided ==
  ASSUME NEW s0, SearchMayDecide(s0), NEW look \in SearchSights, NEW r \in SearchBoxed(s0, look)
  PROVE  SearchDecided(s0, r)
<1> DEFINE boxed == SearchLeast(s0.boxed + 1, 3)
           did == IF SearchWedged(s0, boxed, look.side) THEN "kick"
                  ELSE IF boxed >= 2 /\ s0.drop = "none" /\ s0.behind THEN "back"
                  ELSE "nothing"
           corner == s0.drop = "none" /\ look.side /\ did # "kick"
           same == IF ~corner THEN 0 ELSE IF s0.there THEN SearchLeast(s0.same + 1, 4) ELSE 1
           s == [s0 EXCEPT !.at = "step", !.boxed = boxed, !.did = did, !.there = TRUE,
                           !.same = same]
<1>1. r \in {[went EXCEPT !.moved = s0.moved] : went \in SearchTurned(s)}
  BY Zenon DEF SearchBoxed
<1>2. /\ s0.boxed \in 0 .. 3 /\ s0.same \in 0 .. 4 /\ s0.there \in BOOLEAN /\ s0.moved \in BOOLEAN
      /\ s0.same <= s0.boxed /\ s0.same <= 2 /\ (s0.moved => s0.boxed = 0) /\ s0 \in Searches
  BY DEF SearchMayDecide, Searches, SearchCorner
<1>3. boxed \in 1 .. 3 /\ (s0.moved => boxed = 1) /\ (s0.boxed = 2 => boxed = 3)
      /\ (s0.boxed = 3 => boxed = 3) /\ (s0.boxed = 1 => boxed = 2)
  BY <1>2 DEF SearchLeast
<1> HIDE DEF boxed
<1>4. did \in {"nothing", "back", "kick"} /\ (did # "nothing" => ~s0.moved)
  BY <1>3 DEF SearchWedged
<1>5. corner /\ s0.there => ~(boxed >= 3)
  BY DEF SearchWedged
<1> HIDE DEF did
<1>6. same \in 0 .. 2 /\ same <= boxed
  <2>1. CASE corner /\ s0.there
    BY <1>2, <1>3, <1>5, <2>1 DEF SearchLeast
  <2> QED BY <1>2, <1>3, <2>1
<1> HIDE DEF corner, same
<1>m. same \in 0 .. 4 /\ boxed \in 0 .. 3 /\ did \in {"nothing", "back", "kick", "stuckBack"}
  BY <1>3, <1>4, <1>6
<1>7. /\ s \in Searches /\ s.at = "step" /\ s.boxed = boxed /\ s.did = did /\ s.same = same
      /\ s.frames = s0.frames /\ s.old = s0.old /\ s.ours = s0.ours /\ s.scanned = s0.scanned
  BY <1>2, <1>m DEF Searches
<1> HIDE DEF s
<1>8. PICK went \in SearchTurned(s) : r = [went EXCEPT !.moved = s0.moved]
  BY <1>1
<1>9. /\ went \in Searches /\ went.at = "step" /\ went.boxed = boxed /\ went.did = did
      /\ went.same = same
      /\ went.frames = s0.frames /\ went.old = s0.old /\ went.ours = s0.ours
      /\ went.scanned = s0.scanned
  BY <1>7, <1>8 DEF SearchTurned, SearchWent, Searches
<1>10. /\ r \in Searches /\ r.at = "step" /\ r.boxed = boxed /\ r.did = did /\ r.same = same
       /\ r.moved = s0.moved
       /\ r.frames = s0.frames /\ r.old = s0.old /\ r.ours = s0.ours /\ r.scanned = s0.scanned
  BY <1>2, <1>8, <1>9 DEF Searches
<1> QED BY <1>4, <1>6, <1>10 DEF SearchDecided, SearchBlind, SearchCorner

LEMMA SearchDecidesWell ==
  ASSUME NEW s, SearchMayDecide(s), NEW look \in SearchSights, NEW r \in SearchDecides(s, look)
  PROVE  SearchDecided(s, r)
<1>1. CASE look.free >= LegRoom
  BY <1>1, SearchLegsDecided DEF SearchDecides
<1>2. CASE ~(look.free >= LegRoom) /\ look.looked
  BY <1>2, SearchBoxedDecided DEF SearchDecides
<1>3. CASE ~(look.free >= LegRoom) /\ ~look.looked
  <2>1. r = [s EXCEPT !.at = "step"]
    BY <1>3 DEF SearchDecides
  <2>2. /\ r \in Searches /\ r.at = "step" /\ r.did = s.did /\ r.boxed = s.boxed /\ r.same = s.same
        /\ r.frames = s.frames /\ r.old = s.old /\ r.ours = s.ours /\ r.scanned = s.scanned
    BY <2>1 DEF Searches, SearchMayDecide
  <2> QED BY <2>2 DEF SearchDecided, SearchMayDecide, SearchBlind, SearchCorner
<1> QED BY <1>1, <1>2, <1>3

-----------------------------------------------------------------------------
LEMMA SearchStepKeeps == ASSUME SearchInv, [SearchNext]_search PROVE SearchInv'
<1>t. /\ search \in Searches /\ SearchFrames(search) /\ (search.at = "found" => search.frames > 1)
      /\ SearchBlind(search) /\ SearchCorner(search)
      /\ (search.at \in {"look", "scan", "found"} => search.did = "nothing")
      /\ (~search.scanned \/ search.at = "scan" => SearchBlank(search))
      /\ (search.at = "scan" => search.scanned)
  BY DEF SearchInv, SearchGood
<1>f. /\ search.frames \in 0 .. SearchOld + 2 /\ search.old \in 0 .. SearchOld /\ SearchOld \in Nat
      /\ search.left \in 0 .. SearchSteps /\ SearchSteps \in Nat /\ search.there \in BOOLEAN
      /\ search.best \in 0 .. 3 /\ search.turns \in 0 .. 3 /\ search.stuck \in 0 .. 3
      /\ search.boxed \in 0 .. 3 /\ search.same \in 0 .. 4 /\ search.scanned \in BOOLEAN
  BY <1>t, SearchAssumption DEF Searches
\* what changes neither the frames nor what was decided
<1>p. ASSUME NEW r \in Searches,
             r.frames = search.frames, r.old = search.old, r.ours = search.ours,
             r.did = search.did \/ r.did = "nothing",
             r.did = "nothing" \/ r.moved = search.moved,
             r.boxed = search.boxed, r.same = search.same, r.stuck = search.stuck,
             r.scanned = search.scanned \/ SearchBlank(search),
             r.at = "found" => search.frames > 1,
             r.at \in {"look", "scan", "found"} => r.did = "nothing",
             r.at = "scan" => r.scanned /\ (search.at = "scan" \/ SearchBlank(search))
      PROVE  SearchGood(r)
  BY <1>p, <1>t DEF SearchGood, SearchFrames, SearchBlind, SearchCorner, SearchBlank
<1>1. CASE SearchFrame
  <2>1. PICK trusted \in BOOLEAN :
          search' = [search EXCEPT !.frames = IF @ = SearchOld + 2 THEN @ ELSE @ + 1,
                                   !.old = IF @ = 0 THEN 0 ELSE @ - 1,
                                   !.ours = search.old = 0, !.trusted = trusted]
    BY <1>1 DEF SearchFrame
  <2> DEFINE frames == IF search.frames = SearchOld + 2 THEN search.frames ELSE search.frames + 1
             old == IF search.old = 0 THEN 0 ELSE search.old - 1
  <2>a. PICK ours \in BOOLEAN : ours = (search.old = 0)
    OBVIOUS
  <2>b. search' = [search EXCEPT !.frames = frames, !.old = old, !.ours = ours, !.trusted = trusted]
    BY <2>1, <2>a
  <2>c. frames \in 0 .. SearchOld + 2 /\ old \in 0 .. SearchOld
    BY <1>f
  <2> HIDE DEF frames, old
  <2>2. /\ search' \in Searches /\ search'.at = search.at /\ search'.did = search.did
        /\ search'.moved = search.moved /\ search'.boxed = search.boxed
        /\ search'.same = search.same /\ search'.stuck = search.stuck
        /\ search'.scanned = search.scanned
        /\ search'.frames = frames /\ search'.old = old /\ search'.ours = ours
    BY <1>t, <2>b, <2>c DEF Searches
  <2>3. SearchFrames(search')
    <3>1. SearchOld <= 1 => (search.frames >= 1 => search.old = 0)
      BY <1>t DEF SearchFrames
    <3>2. SearchOld <= 1 => old = 0
      BY <1>f DEF old
    <3>3. frames >= 2 => search.frames >= 1
      BY <1>f DEF frames
    <3> QED BY <2>a, <2>2, <3>1, <3>2, <3>3 DEF SearchFrames
  <2>4. search'.at # "found"
    BY <1>1, <2>2 DEF SearchFrame
  <2> QED BY <1>t, <2>2, <2>3, <2>4 DEF SearchInv, SearchGood, SearchBlind, SearchCorner, SearchBlank
<1>2. CASE SearchStep
  <2>1. CASE search' = [search EXCEPT !.at = "lost"]
    <3>1. /\ search' \in Searches /\ search'.at = "lost" /\ search'.did = search.did
          /\ search'.moved = search.moved /\ search'.boxed = search.boxed
          /\ search'.same = search.same /\ search'.stuck = search.stuck
          /\ search'.scanned = search.scanned /\ search'.frames = search.frames
          /\ search'.old = search.old /\ search'.ours = search.ours
      BY <1>t, <2>1 DEF Searches
    <3> QED BY <1>p, <3>1 DEF SearchInv
  <2>2. CASE search' # [search EXCEPT !.at = "lost"]
    <3> DEFINE s == [search EXCEPT !.left = @ - 1, !.did = "nothing"]
    <3>1. /\ search.left > 0
          /\ \/ search' \in SearchTurned(s)
             \/ \E went \in SearchTurned(s), behind \in BOOLEAN :
                   search' = [went EXCEPT !.at = IF SearchConfirmed(s) THEN "found" ELSE "look",
                                          !.behind = behind]
      BY <1>2, <2>2 DEF SearchStep
    <3>l. search.left - 1 \in 0 .. SearchSteps /\ search.at = "step"
      <4>1. search.left > 0
        BY <3>1
      <4>2. search.at = "step"
        BY <1>2 DEF SearchStep
      <4> QED BY <4>1, <4>2, <1>f
    <3>2. /\ s \in Searches /\ s.at = "step" /\ s.did = "nothing"
          /\ s.boxed = search.boxed /\ s.same = search.same /\ s.stuck = search.stuck
          /\ s.scanned = search.scanned /\ s.frames = search.frames
          /\ s.old = search.old /\ s.ours = search.ours /\ s.trusted = search.trusted
      BY <1>t, <3>l DEF Searches
    <3> HIDE DEF s
    <3>3. ASSUME NEW went \in SearchTurned(s)
          PROVE  /\ went \in Searches /\ went.at = "step" /\ went.did = "nothing"
                 /\ went.boxed = search.boxed /\ went.same = search.same /\ went.stuck = search.stuck
                 /\ went.scanned = search.scanned /\ went.frames = search.frames
                 /\ went.old = search.old /\ went.ours = search.ours
      BY <3>2 DEF SearchTurned, SearchWent, Searches
    <3>4. CASE search' \in SearchTurned(s)
      BY <1>p, <3>3, <3>4 DEF SearchInv
    <3>5. ASSUME NEW went \in SearchTurned(s), NEW behind \in BOOLEAN,
                 search' = [went EXCEPT !.at = IF SearchConfirmed(s) THEN "found" ELSE "look",
                                        !.behind = behind]
          PROVE  SearchInv'
      <4>1. PICK at \in {"found", "look"} : at = IF SearchConfirmed(s) THEN "found" ELSE "look"
        OBVIOUS
      <4>2. search' = [went EXCEPT !.at = at, !.behind = behind]
        BY <3>5, <4>1
      <4>3. /\ search' \in Searches /\ search'.at = at /\ search'.did = "nothing"
            /\ search'.boxed = search.boxed /\ search'.same = search.same
            /\ search'.stuck = search.stuck
            /\ search'.scanned = search.scanned /\ search'.frames = search.frames
            /\ search'.old = search.old /\ search'.ours = search.ours
        BY <3>3, <4>2 DEF Searches
      <4>4. at = "found" => search.frames > 1
        BY <3>2, <4>1 DEF SearchConfirmed
      <4> QED BY <1>p, <4>1, <4>3, <4>4 DEF SearchInv
    <3> QED BY <3>1, <3>4, <3>5
  <2> QED BY <2>1, <2>2
\* a decision taken at search, whatever the step noted of it before
<1>d. ASSUME NEW s, SearchMayDecide(s), s.frames = search.frames, s.old = search.old,
             s.ours = search.ours, SearchDecided(s, search'), search.scanned,
             s.scanned = search.scanned
      PROVE  SearchInv'
  BY <1>d, <1>t DEF SearchInv, SearchGood, SearchDecided, SearchFrames
<1>3. CASE SearchSees
  <2>1. CASE search' = [search EXCEPT !.at = "step"]
    <3>1. /\ search' \in Searches /\ search'.at = "step" /\ search'.did = search.did
          /\ search'.moved = search.moved /\ search'.boxed = search.boxed
          /\ search'.same = search.same /\ search'.stuck = search.stuck
          /\ search'.scanned = search.scanned /\ search'.frames = search.frames
          /\ search'.old = search.old /\ search'.ours = search.ours
      BY <1>t, <2>1 DEF Searches
    <3> QED BY <1>p, <3>1 DEF SearchInv
  <2>2. ASSUME NEW look \in SearchLooks, NEW drop \in SearchDrops,
               LET s == [search EXCEPT !.drop = drop, !.moved = FALSE]
               IN IF search.scanned \/ look.straight
                  THEN search' \in SearchDecides(s, look)
                  ELSE search' = [s EXCEPT !.scanned = TRUE, !.turns = 0, !.best = look.free, !.at = "scan"]
        PROVE  SearchInv'
    <3> DEFINE s == [search EXCEPT !.drop = drop, !.moved = FALSE]
    <3>1. /\ s \in Searches /\ s.at = "look" /\ s.did = "nothing" /\ s.moved = FALSE
          /\ s.boxed = search.boxed /\ s.same = search.same /\ s.stuck = search.stuck
          /\ s.scanned = search.scanned /\ s.frames = search.frames
          /\ s.old = search.old /\ s.ours = search.ours
      BY <1>3, <1>t DEF Searches, SearchSees
    <3>2. look \in SearchSights /\ (look.straight => look.free >= LegRoom /\ ~look.spot)
      BY SearchLooksSeen
    <3>3. SearchMayDecide(s)
      <4> HIDE DEF s
      <4> QED BY <3>1, <1>t DEF SearchMayDecide, SearchCorner
    <3>4. CASE search.scanned
      <4>1. search' \in SearchDecides(s, look)
        BY <2>2, <3>4
      <4> HIDE DEF s
      <4>2. SearchDecided(s, search')
        BY <3>2, <3>3, <4>1, SearchDecidesWell
      <4> QED BY <1>d, <3>1, <3>3, <3>4, <4>2
    <3>5. CASE ~search.scanned /\ look.straight
      <4>1. search' \in SearchDecides(s, look)
        BY <2>2, <3>5
      <4> HIDE DEF s
      <4>2. search' \in SearchLegs(s, look)
        BY <4>1, <3>2, <3>5 DEF SearchDecides
      <4>3. SearchDecided(s, search') /\ SearchBlank(search')
        BY <3>2, <3>3, <3>5, <4>2, SearchLegsDecided
      <4> QED BY <3>1, <1>t, <4>3 DEF SearchInv, SearchGood, SearchDecided, SearchFrames
    <3>6. CASE ~search.scanned /\ ~look.straight
      <4>1. search' = [s EXCEPT !.scanned = TRUE, !.turns = 0, !.best = look.free, !.at = "scan"]
        BY <2>2, <3>6
      <4> HIDE DEF s
      <4>2. look.free \in 0 .. 3
        BY <3>2 DEF SearchSights
      <4>3. /\ search' \in Searches /\ search'.at = "scan" /\ search'.did = "nothing"
            /\ search'.boxed = search.boxed /\ search'.same = search.same
            /\ search'.stuck = search.stuck /\ search'.frames = search.frames
            /\ search'.old = search.old /\ search'.ours = search.ours /\ search'.scanned = TRUE
        <5>1. TRUE \in BOOLEAN /\ 0 \in 0 .. 3
          OBVIOUS
        <5>2. search' \in Searches
          BY <3>1, <4>1, <4>2, <5>1 DEF Searches
        <5> QED BY <3>1, <4>1, <5>2 DEF Searches
      <4> QED BY <1>p, <1>t, <3>6, <4>3 DEF SearchInv
    <3> QED BY <3>4, <3>5, <3>6, <1>f
  <2> QED BY <1>3, <2>1, <2>2 DEF SearchSees
<1>4. CASE SearchScan
  <2>1. CASE SearchConfirmed(search)
    <3>1. search' = [search EXCEPT !.at = "found"]
      BY <1>4, <2>1 DEF SearchScan
    <3>2. /\ search' \in Searches /\ search'.at = "found" /\ search'.did = search.did
          /\ search'.moved = search.moved /\ search'.boxed = search.boxed
          /\ search'.same = search.same /\ search'.stuck = search.stuck
          /\ search'.scanned = search.scanned /\ search'.frames = search.frames
          /\ search'.old = search.old /\ search'.ours = search.ours
      BY <1>t, <3>1 DEF Searches
    <3>3. search.frames > 1 /\ search.did = "nothing"
      BY <1>4, <1>t, <2>1 DEF SearchScan, SearchConfirmed
    <3> QED BY <1>p, <3>2, <3>3 DEF SearchInv
  <2>2. CASE ~SearchConfirmed(search)
    <3>0. PICK went \in SearchTurned(search), look \in SearchLooks, enough \in BOOLEAN :
            LET found == [look EXCEPT !.spot = FALSE, !.free = search.best]
            IN IF search.turns < 3
               THEN search' = [went EXCEPT !.best = IF look.free > @ THEN look.free ELSE @,
                                 !.turns = IF went = search \/ (enough /\ look.free = StraightRoom) THEN 3 ELSE @ + 1]
               ELSE search' \in SearchDecides(went, IF look.free < LegRoom /\ search.best >= LegRoom THEN found ELSE look)
      BY <1>4, <2>2 DEF SearchScan
    <3>1. look \in SearchSights
      BY SearchLooksSeen
    <3>2. /\ search.at = "scan" /\ SearchBlank(search)
      BY <1>4, <1>t DEF SearchScan
    <3>3. /\ went \in Searches /\ went.at = "scan" /\ went.did = "nothing" /\ went.best = search.best
          /\ went.boxed = 0 /\ went.same = 0 /\ went.stuck = 0 /\ went.turns = search.turns
          /\ went.scanned = search.scanned /\ went.frames = search.frames
          /\ went.old = search.old /\ went.ours = search.ours
      BY <1>t, <3>2 DEF SearchTurned, SearchWent, Searches, SearchBlank
    <3>4. CASE search.turns < 3
      <4>1. PICK best \in 0 .. 3, turns \in 0 .. 3 : search' = [went EXCEPT !.best = best, !.turns = turns]
        <5> DEFINE b == IF look.free > went.best THEN look.free ELSE went.best
                   t == IF went = search \/ (enough /\ look.free = StraightRoom) THEN 3 ELSE went.turns + 1
        <5>1. search' = [went EXCEPT !.best = b, !.turns = t]
          BY <3>0, <3>4
        <5>2. b \in 0 .. 3
          BY <1>f, <3>1, <3>3 DEF SearchSights
        <5>3. t \in 0 .. 3
          BY <1>f, <3>3, <3>4
        <5> HIDE DEF b, t
        <5> QED BY <5>1, <5>2, <5>3
      <4>2. /\ search' \in Searches /\ search'.at = "scan" /\ search'.did = "nothing"
            /\ search'.boxed = 0 /\ search'.same = 0 /\ search'.stuck = 0
            /\ search'.scanned = search.scanned /\ search'.frames = search.frames
            /\ search'.old = search.old /\ search'.ours = search.ours
        BY <3>3, <4>1 DEF Searches
      <4>3. search.boxed = 0 /\ search.same = 0 /\ search.stuck = 0 /\ search.did = "nothing"
        BY <3>2 DEF SearchBlank
      <4>4. search'.scanned = TRUE
        BY <1>f, <1>t, <3>2, <4>2
      <4> QED BY <1>p, <3>2, <4>2, <4>3, <4>4 DEF SearchInv
    <3>5. CASE ~(search.turns < 3)
      <4>1. PICK sight \in SearchSights : search' \in SearchDecides(went, sight)
        <5> DEFINE found == [look EXCEPT !.spot = FALSE, !.free = search.best]
        <5>1. found \in SearchSights
          BY <1>f, <3>1 DEF SearchSights
        <5>2. search' \in SearchDecides(went, IF look.free < LegRoom /\ search.best >= LegRoom THEN found ELSE look)
          BY <3>0, <3>5
        <5> HIDE DEF found
        <5> QED BY <3>1, <5>1, <5>2
      <4>2. SearchMayDecide(went)
        BY <3>3 DEF SearchMayDecide, SearchCorner
      <4>3. SearchDecided(went, search')
        BY <4>1, <4>2, SearchDecidesWell
      <4>4. search.scanned
        BY <1>4, <1>t DEF SearchScan
      <4> QED BY <1>d, <3>3, <4>2, <4>3, <4>4
    <3> QED BY <3>4, <3>5
  <2> QED BY <2>1, <2>2
<1>5. CASE UNCHANGED search
  BY <1>5 DEF SearchInv, SearchGood, SearchFrames, SearchBlind, SearchCorner, SearchBlank
<1> QED BY <1>1, <1>2, <1>3, <1>4, <1>5 DEF SearchNext

(* And it says what is checked.                                              *)
LEMMA SearchInvSays ==
  ASSUME SearchOld <= 1
  PROVE  SearchInv => SearchTypeOK /\ SearchTrue
<1> SUFFICES ASSUME SearchInv PROVE SearchTypeOK /\ SearchTrue
  OBVIOUS
<1>1. search \in Searches /\ search.frames \in Nat
  BY SearchAssumption DEF SearchInv, SearchGood, Searches
<1> QED BY <1>1 DEF SearchInv, SearchGood, SearchTypeOK, SearchTrue, SearchVouched, SearchFresh,
           SearchGetsOut, SearchFrames, SearchBlind, SearchCorner

(* With at most the one frame of the map before that was in flight when the  *)
(* search began, it ends only on a pose of the map it searched; and always   *)
(* it walks blind by what it sees from where it is and leaves its corners.   *)
THEOREM SearchHolds ==
  ASSUME SearchOld <= 1
  PROVE  SearchSpec => [](SearchTypeOK /\ SearchTrue)
<1>1. SearchInit => SearchInv
  BY SearchInitInv
<1>2. SearchInv /\ [SearchNext]_search => SearchInv'
  BY SearchStepKeeps
<1>3. SearchInv => SearchTypeOK /\ SearchTrue
  BY SearchInvSays
<1> QED BY <1>1, <1>2, <1>3, PTL DEF SearchSpec

-----------------------------------------------------------------------------
(* Places taught: the registry's record, and what its parts owe each other.  *)
TeachMarks == [x : Int, truth : Int, old : BOOLEAN]
TeachPlaces == [map : TeachMaps \cup {0}, anchors : Seq(TeachMarks), radius : Nat]
TeachTrusts == {"trusted", "untrusted", "seated", "unsure"}
TeachKinds == TeachTrusts \cup {"none", "taught", "forgot", "noMap", "noPlace", "pending", "otherMap", "stale", "relocalizing"}
TeachLasts ==
  [kind : TeachKinds] \cup [kind : {"goes"}, to : Int, anchor : TeachMarks]
    \cup [kind : {"where"}, place : TeachSpots, within : BOOLEAN]
TeachRecords ==
  [live : TeachMaps \cup {0}, named : BOOLEAN, confirmed : BOOLEAN, awaiting : BOOLEAN, since : 0..2,
   frame : TeachMaps \cup {0}, trust : TeachTrusts, at : TeachPoints, saved : SUBSET TeachMaps,
   begun : TeachMaps, thrown : SUBSET TeachMaps, places : [TeachSpots -> TeachPlaces], last : TeachLasts]

(* Nothing is of a map not yet started.                                      *)
TeachBegun(t) ==
  /\ t.live <= t.begun
  /\ \A m \in t.saved \cup t.thrown : m <= t.begun
  /\ \A s \in TeachSpots : t.places[s].map <= t.begun

(* A frame since the live map was changed is of it, and so is the pose that  *)
(* confirmed it.                                                             *)
TeachShown(t) ==
  /\ t.since > 0 => t.frame = t.live
  /\ t.confirmed => t.frame = t.live /\ t.live # 0

(* The boot's search: its map has no name, is not saved, and no place is on  *)
(* it; what an adoption threw away is neither live nor saved.                *)
TeachSearching(t) ==
  /\ t.live = 0 => t.awaiting
  /\ t.awaiting => ~t.named
  /\ (t.awaiting /\ t.live # 0) => t.live \notin t.saved /\ \A s \in TeachSpots : t.places[s].map # t.live
  /\ \A m \in t.thrown : m # 0 /\ m # t.live /\ m \notin t.saved
  /\ \A s \in TeachSpots : t.places[s].map \notin t.thrown

(* An anchor not taught on an old frame has the coordinate its truth has on  *)
(* the map its place is of.                                                  *)
TeachTrueMark(m, a) == ~a.old => a.x = TeachRead(m, a.truth)
TeachMarksTrue(p) ==
  /\ \A n \in DOMAIN p.anchors : TeachTrueMark(p.map, p.anchors[n])
  /\ Len(p.anchors) <= TeachAnchors

TeachGood(t) ==
  /\ t \in TeachRecords /\ TeachBegun(t) /\ TeachShown(t) /\ TeachSearching(t)
  /\ \A s \in TeachSpots : TeachMarksTrue(t.places[s])
TeachInv == TeachGood(teach) /\ TeachLeads /\ TeachKnowsWhere

(* The least of some naturals is one of them, and no more than any.          *)
LEMMA LeastNatural ==
  ASSUME NEW T, T \subseteq Nat, T # {}
  PROVE  Min(T) \in T /\ \A y \in T : Min(T) <= y
<1> DEFINE R == OpToRel(<, Nat)
<1>1. IsWellFoundedOn(R, Nat)
  BY NatLessThanWellFounded
<1>2. ASSUME NEW x \in T, NEW y \in T, ~(<<y, x>> \in R) PROVE x <= y
  <2>1. x \in Nat /\ y \in Nat
    OBVIOUS
  <2>2. ~(y < x)
    BY <1>2, <2>1 DEF OpToRel
  <2> QED BY <2>1, <2>2
<1> HIDE DEF R
<1>3. \E x \in T : \A y \in T : ~(<<y, x>> \in R)
  BY <1>1, WFMin
<1>4. \E x \in T : \A y \in T : x <= y
  BY <1>2, <1>3
<1> QED BY <1>4 DEF Min

(* A pose of a map reads each point of the house at one place, as far apart. *)
LEMMA TeachReads ==
  ASSUME NEW m \in TeachMaps \cup {0}, NEW x \in Int, NEW y \in Int
  PROVE  /\ TeachRead(m, x) \in Int /\ TeachHouse(m, x) \in Int
         /\ TeachHouse(m, TeachRead(m, x)) = x
         /\ TeachGap(x, y) \in Nat
         /\ TeachGap(TeachRead(m, x), TeachRead(m, y)) = TeachGap(x, y)
<1> DEFINE c == TeachShift * m
<1>1. c \in Int
  <2>1. m \in Int /\ TeachShift \in Int
    BY TeachAssumption
  <2> QED BY <2>1
<1>2. TeachRead(m, x) = x + c /\ TeachRead(m, y) = y + c /\ TeachHouse(m, x) = x - c
      /\ TeachHouse(m, TeachRead(m, x)) = TeachRead(m, x) - c
  BY DEF TeachRead, TeachHouse
<1> HIDE DEF c
<1>3. TeachRead(m, x) \in Int /\ TeachHouse(m, x) \in Int /\ TeachHouse(m, TeachRead(m, x)) = x
  BY <1>1, <1>2
<1>4. TeachGap(x, y) \in Nat /\ TeachGap(x + c, y + c) = TeachGap(x, y)
  BY <1>1 DEF TeachGap
<1> QED BY <1>2, <1>3, <1>4

LEMMA TeachPlacesTyped ==
  ASSUME NEW t \in TeachRecords, NEW s \in TeachSpots
  PROVE  /\ t.places[s] \in TeachPlaces /\ t.places[s].map \in Nat /\ t.places[s].map \in TeachMaps \cup {0}
         /\ t.places[s].anchors \in Seq(TeachMarks) /\ t.places[s].radius \in Nat
<1>1. t.places \in [TeachSpots -> TeachPlaces]
  BY DEF TeachRecords
<1>2. t.places[s] \in TeachPlaces
  BY <1>1
<1>3. \A m \in TeachMaps : m \in Nat
  BY TeachAssumption
<1>4. \A p \in TeachPlaces : p.map \in TeachMaps \cup {0} /\ p.anchors \in Seq(TeachMarks) /\ p.radius \in Nat
  BY DEF TeachPlaces
<1> QED BY <1>2, <1>3, <1>4

LEMMA TeachInitInv == TeachInit => TeachInv
<1> SUFFICES ASSUME NEW boots \in BOOLEAN, teach = TeachFirst(boots) PROVE TeachInv
  BY DEF TeachInit
<1> DEFINE h == Min(TeachPoints)
           nobody == [map |-> 0, anchors |-> <<>>, radius |-> TeachDefault]
<1>1. h \in TeachPoints
  BY TeachAssumption DEF Min
<1> HIDE DEF h
<1>2. nobody \in TeachPlaces
  <2>1. <<>> \in Seq(TeachMarks) /\ TeachDefault \in Nat
    BY TeachAssumption
  <2> QED BY <2>1 DEF TeachPlaces
<1> HIDE DEF nobody
<1>3. [kind |-> "none"] \in TeachLasts
  BY DEF TeachLasts, TeachKinds
<1>4. teach = [live |-> IF boots THEN 0 ELSE 1, named |-> FALSE, confirmed |-> FALSE, awaiting |-> boots,
               since |-> 0, frame |-> 0, trust |-> "unsure", at |-> h, saved |-> IF boots THEN {1} ELSE {},
               begun |-> 1, thrown |-> {}, places |-> [s \in TeachSpots |-> nobody], last |-> [kind |-> "none"]]
  BY DEF TeachFirst, TeachNobody, TeachSaid, nobody, h
<1>5. 1 \in TeachMaps /\ TeachAnchors \in Nat
  BY TeachAssumption
<1>6. teach \in TeachRecords
  <2> DEFINE live == IF boots THEN 0 ELSE 1
             saved == IF boots THEN {1} ELSE {}
             last == [kind |-> "none"]
             places == [s \in TeachSpots |-> nobody]
             trust == "unsure"
  <2>1. live \in TeachMaps \cup {0} /\ saved \in SUBSET TeachMaps /\ {} \in SUBSET TeachMaps /\ 0 \in 0..2
    BY <1>5
  <2>0. 0 \in TeachMaps \cup {0} /\ FALSE \in BOOLEAN
    OBVIOUS
  <2>2. places \in [TeachSpots -> TeachPlaces] /\ last \in TeachLasts
    BY <1>2, <1>3
  <2>3. trust \in TeachTrusts
    BY DEF TeachTrusts
  <2>4. teach = [live |-> live, named |-> FALSE, confirmed |-> FALSE, awaiting |-> boots,
               since |-> 0, frame |-> 0, trust |-> trust, at |-> h, saved |-> saved,
               begun |-> 1, thrown |-> {}, places |-> places, last |-> last]
    BY <1>4
  <2> HIDE DEF live, saved, last, places, trust
  <2>5. ASSUME NEW a \in BOOLEAN, NEW l \in TeachMaps \cup {0}, NEW z \in 0..2, NEW f \in TeachMaps \cup {0},
               NEW none \in SUBSET TeachMaps, NEW one \in TeachMaps, NEW no \in BOOLEAN
        PROVE  [live |-> l, named |-> no, confirmed |-> no, awaiting |-> a, since |-> z, frame |-> f, trust |-> trust,
                at |-> h, saved |-> saved, begun |-> one, thrown |-> none, places |-> places, last |-> last]
               \in TeachRecords
    BY <1>1, <2>1, <2>2, <2>3, Zenon DEF TeachRecords
  <2>6. \A a \in BOOLEAN :
          [live |-> live, named |-> FALSE, confirmed |-> FALSE, awaiting |-> a, since |-> 0, frame |-> 0, trust |-> trust,
           at |-> h, saved |-> saved, begun |-> 1, thrown |-> {}, places |-> places, last |-> last] \in TeachRecords
    BY <1>5, <2>0, <2>1, <2>5
  <2> QED BY <2>4, <2>6
<1>7. nobody.map = 0 /\ nobody.anchors = <<>>
  BY DEF nobody
<1>8. TeachBegun(teach) /\ TeachShown(teach) /\ TeachSearching(teach)
  BY <1>4, <1>7 DEF TeachBegun, TeachShown, TeachSearching
<1>9. \A s \in TeachSpots : TeachMarksTrue(teach.places[s])
  BY <1>4, <1>5, <1>7 DEF TeachMarksTrue
<1> QED BY <1>4, <1>6, <1>8, <1>9 DEF TeachInv, TeachGood, TeachLeads, TeachKnowsWhere

(* A look at the lane, at a frame since the second, confirms no other map.   *)
LEMMA TeachFolds ==
  ASSUME NEW t, TeachGood(t)
  PROVE  /\ TeachGood(TeachFold(t))
         /\ TeachFold(t).frame = t.frame /\ TeachFold(t).at = t.at
<1>0. t \in TeachRecords
  BY DEF TeachGood
<1>1. CASE TeachFold(t) = t
  BY <1>1
<1>2. CASE /\ TeachFold(t) = [t EXCEPT !.confirmed = TRUE]
           /\ t.live # 0 /\ t.since = 2
  <2> DEFINE u == [t EXCEPT !.confirmed = TRUE]
  <2>1. u \in TeachRecords
    BY <1>0 DEF TeachRecords
  <2>2. /\ u.live = t.live /\ u.named = t.named /\ u.confirmed /\ u.awaiting = t.awaiting /\ u.since = t.since
        /\ u.frame = t.frame /\ u.at = t.at /\ u.saved = t.saved /\ u.begun = t.begun /\ u.thrown = t.thrown
        /\ u.places = t.places
    BY <1>0 DEF TeachRecords
  <2> HIDE DEF u
  <2>3. t.frame = t.live
    BY <1>2 DEF TeachGood, TeachShown
  <2>4. TeachBegun(u) /\ TeachShown(u) /\ TeachSearching(u) /\ \A s \in TeachSpots : TeachMarksTrue(u.places[s])
    BY <1>2, <2>2, <2>3 DEF TeachGood, TeachBegun, TeachShown, TeachSearching
  <2>5. TeachFold(t) = u
    BY <1>2 DEF u
  <2> QED BY <2>1, <2>2, <2>4, <2>5 DEF TeachGood
<1> QED BY <1>1, <1>2 DEF TeachFold

(* The map changes under the tools.                                          *)
LEMMA TeachLoadKeeps ==
  ASSUME TeachInv, NEW m \in TeachMaps, TeachLoads(m)
  PROVE  TeachInv'
<1>1. teach \in TeachRecords /\ TeachGood(teach)
  BY DEF TeachInv, TeachGood
<1> DEFINE thrown == IF teach.awaiting /\ teach.live # 0 THEN teach.thrown \cup {teach.live} ELSE teach.thrown
           last == [kind |-> "none"]
<1>2. teach' = [live |-> m, named |-> TRUE, confirmed |-> FALSE, awaiting |-> FALSE, since |-> 0,
                frame |-> teach.frame, trust |-> teach.trust, at |-> teach.at, saved |-> teach.saved,
                begun |-> teach.begun, thrown |-> thrown, places |-> teach.places, last |-> last]
  BY <1>1 DEF TeachLoads, TeachLives, TeachSaid, TeachRecords
<1>3. last \in TeachLasts /\ last.kind = "none"
  BY DEF TeachLasts, TeachKinds
<1>4. thrown \in SUBSET TeachMaps
  BY <1>1 DEF TeachRecords
<1>5. /\ m \in teach.saved /\ m # teach.live /\ m \in Nat \ {0} /\ teach.live \in Nat /\ teach.begun \in Nat
      /\ (teach.awaiting => teach.live # 0)
  BY <1>1, TeachAssumption DEF TeachLoads, TeachRecords
<1>6. \A k \in thrown : k \in teach.thrown \/ (k = teach.live /\ teach.awaiting /\ teach.live # 0)
  OBVIOUS
<1> HIDE DEF thrown, last
<1>7. teach' \in TeachRecords
  <2>1. /\ teach.frame \in TeachMaps \cup {0} /\ teach.trust \in TeachTrusts /\ teach.at \in TeachPoints
        /\ teach.saved \in SUBSET TeachMaps /\ teach.begun \in TeachMaps
        /\ teach.places \in [TeachSpots -> TeachPlaces]
    BY <1>1 DEF TeachRecords
  <2>2. m \in TeachMaps \cup {0} /\ 0 \in 0..2 /\ TRUE \in BOOLEAN /\ FALSE \in BOOLEAN
    OBVIOUS
  <2> QED BY <1>2, <1>3, <1>4, <2>1, <2>2, Zenon DEF TeachRecords
<1>8. TeachBegun(teach')
  BY <1>1, <1>2, <1>5, <1>6 DEF TeachGood, TeachBegun
<1>9. TeachShown(teach')
  BY <1>2 DEF TeachShown
<1>10. TeachSearching(teach')
  BY <1>1, <1>2, <1>5, <1>6 DEF TeachGood, TeachSearching
<1>11. \A s \in TeachSpots : TeachMarksTrue(teach'.places[s])
  BY <1>1, <1>2 DEF TeachGood
<1>12. TeachGood(teach')
  BY <1>7, <1>8, <1>9, <1>10, <1>11 DEF TeachGood
<1> QED BY <1>2, <1>3, <1>12 DEF TeachInv, TeachLeads, TeachKnowsWhere

LEMMA TeachStartKeeps ==
  ASSUME TeachInv, TeachStarts
  PROVE  TeachInv'
<1>1. teach \in TeachRecords /\ TeachGood(teach)
  BY DEF TeachInv, TeachGood
<1> DEFINE m == teach.begun + 1
           last == [kind |-> "none"]
<1>2. teach' = [live |-> m, named |-> FALSE, confirmed |-> FALSE, awaiting |-> teach.awaiting, since |-> 0,
                frame |-> teach.frame, trust |-> teach.trust, at |-> teach.at, saved |-> teach.saved,
                begun |-> m, thrown |-> teach.thrown, places |-> teach.places, last |-> last]
  BY <1>1 DEF TeachStarts, TeachLives, TeachSaid, TeachRecords
<1>3. last \in TeachLasts /\ last.kind = "none"
  BY DEF TeachLasts, TeachKinds
<1>5. /\ m \in TeachMaps /\ teach.live \in Nat /\ teach.begun \in Nat /\ m > teach.begun
      /\ (teach.awaiting => teach.live = 0) 
      /\ \A k \in teach.saved \cup teach.thrown : k \in Nat
  BY <1>1, TeachAssumption DEF TeachStarts, TeachRecords
<1>6. \A s \in TeachSpots : teach.places[s].map \in Nat
  BY <1>1, TeachPlacesTyped
<1> HIDE DEF m, last
<1>7. teach' \in TeachRecords
  <2>1. /\ teach.frame \in TeachMaps \cup {0} /\ teach.trust \in TeachTrusts /\ teach.at \in TeachPoints
        /\ teach.saved \in SUBSET TeachMaps /\ teach.thrown \in SUBSET TeachMaps /\ teach.awaiting \in BOOLEAN
        /\ teach.places \in [TeachSpots -> TeachPlaces]
    BY <1>1 DEF TeachRecords
  <2>2. m \in TeachMaps \cup {0} /\ 0 \in 0..2 /\ FALSE \in BOOLEAN
    BY <1>5
  <2> QED BY <1>2, <1>3, <1>5, <2>1, <2>2, Zenon DEF TeachRecords
<1>8. TeachBegun(teach')
  <2>1. /\ \A k \in teach.saved \cup teach.thrown : k <= teach.begun /\ k \in Nat
        /\ \A s \in TeachSpots : teach.places[s].map <= teach.begun
    BY <1>1, <1>5 DEF TeachGood, TeachBegun
  <2>2. teach'.live = m /\ teach'.begun = m /\ teach'.saved = teach.saved /\ teach'.thrown = teach.thrown
        /\ teach'.places = teach.places
    BY <1>2
  <2>3. /\ m \in Nat
        /\ \A k \in teach.saved \cup teach.thrown : k <= m
        /\ \A s \in TeachSpots : teach.places[s].map <= m
    BY <1>5, <1>6, <2>1, TeachAssumption
  <2> QED BY <2>2, <2>3 DEF TeachBegun
<1>9. TeachShown(teach')
  BY <1>2 DEF TeachShown
<1>10. TeachSearching(teach')
  <2>1. /\ \A k \in teach.saved \cup teach.thrown : k # m
        /\ \A s \in TeachSpots : teach.places[s].map # m
        /\ m # 0
    BY <1>1, <1>5, <1>6 DEF TeachGood, TeachBegun
  <2> QED BY <1>1, <1>2, <2>1 DEF TeachGood, TeachSearching
<1>11. \A s \in TeachSpots : TeachMarksTrue(teach'.places[s])
  BY <1>1, <1>2 DEF TeachGood
<1>12. TeachGood(teach')
  BY <1>7, <1>8, <1>9, <1>10, <1>11 DEF TeachGood
<1> QED BY <1>2, <1>3, <1>12 DEF TeachInv, TeachLeads, TeachKnowsWhere

LEMMA TeachSettleKeeps ==
  ASSUME TeachInv, TeachSettles
  PROVE  TeachInv'
<1>1. teach \in TeachRecords /\ TeachGood(teach)
  BY DEF TeachInv, TeachGood
<1>2. teach' = [teach EXCEPT !.awaiting = FALSE] /\ teach.live # 0
  BY DEF TeachSettles
<1>3. teach' \in TeachRecords
  BY <1>1, <1>2 DEF TeachRecords
<1>4. /\ teach'.live = teach.live /\ teach'.named = teach.named /\ teach'.confirmed = teach.confirmed
      /\ ~teach'.awaiting /\ teach'.since = teach.since /\ teach'.frame = teach.frame /\ teach'.at = teach.at
      /\ teach'.saved = teach.saved /\ teach'.begun = teach.begun /\ teach'.thrown = teach.thrown
      /\ teach'.places = teach.places /\ teach'.last = teach.last
  BY <1>1, <1>2 DEF TeachRecords
<1>5. TeachBegun(teach') /\ TeachShown(teach') /\ TeachSearching(teach')
      /\ \A s \in TeachSpots : TeachMarksTrue(teach'.places[s])
  BY <1>1, <1>2, <1>4 DEF TeachGood, TeachBegun, TeachShown, TeachSearching
<1>6. TeachGood(teach')
  BY <1>3, <1>5 DEF TeachGood
<1> QED BY <1>4, <1>6 DEF TeachInv, TeachLeads, TeachKnowsWhere

LEMMA TeachSaveKeeps ==
  ASSUME TeachInv, NEW over \in SUBSET TeachMaps, TeachSaves(over)
  PROVE  TeachInv'
<1>1. teach \in TeachRecords /\ TeachGood(teach)
  BY DEF TeachInv, TeachGood
<1> DEFINE saved == (teach.saved \ over) \cup {teach.live}
           last == [kind |-> "none"]
<1>2. teach' = [teach EXCEPT !.saved = saved, !.named = TRUE, !.last = last] /\ ~teach.awaiting
  BY DEF TeachSaves, TeachSaid
<1>3. last \in TeachLasts /\ last.kind = "none"
  BY DEF TeachLasts, TeachKinds
<1>4. teach.live # 0 /\ saved \in SUBSET TeachMaps
  BY <1>1, <1>2 DEF TeachRecords, TeachGood, TeachSearching
<1>5. \A k \in saved : k \in teach.saved \/ k = teach.live
  OBVIOUS
<1> HIDE DEF saved, last
<1>6. teach' \in TeachRecords
  BY <1>1, <1>2, <1>3, <1>4 DEF TeachRecords
<1>7. /\ teach'.live = teach.live /\ teach'.confirmed = teach.confirmed
      /\ ~teach'.awaiting /\ teach'.since = teach.since /\ teach'.frame = teach.frame
      /\ teach'.saved = saved /\ teach'.begun = teach.begun /\ teach'.thrown = teach.thrown
      /\ teach'.places = teach.places /\ teach'.last = last
  BY <1>1, <1>2 DEF TeachRecords
<1>8. TeachBegun(teach') /\ TeachShown(teach') /\ TeachSearching(teach')
      /\ \A s \in TeachSpots : TeachMarksTrue(teach'.places[s])
  BY <1>1, <1>2, <1>4, <1>5, <1>7 DEF TeachGood, TeachBegun, TeachShown, TeachSearching
<1>9. TeachGood(teach')
  BY <1>6, <1>8 DEF TeachGood
<1> QED BY <1>3, <1>7, <1>9 DEF TeachInv, TeachLeads, TeachKnowsWhere

LEMMA TeachFrameKeeps ==
  ASSUME TeachInv, NEW trust \in TeachTrusts, NEW h \in TeachPoints, TeachFrame(trust, h)
  PROVE  TeachInv'
<1>1. teach \in TeachRecords /\ TeachGood(teach)
  BY DEF TeachInv, TeachGood
<1> DEFINE since == IF teach.since = 2 THEN 2 ELSE teach.since + 1
           last == [kind |-> "none"]
<1>2. teach.live # 0 /\ teach' = [teach EXCEPT !.frame = teach.live, !.trust = trust, !.at = h, !.since = since, !.last = last]
  BY DEF TeachFrame, TeachSaid
<1>3. last \in TeachLasts /\ last.kind = "none"
  BY DEF TeachLasts, TeachKinds
<1>4. since \in 0..2
  BY <1>1 DEF TeachRecords
<1> HIDE DEF since, last
<1>5. teach' = [live |-> teach.live, named |-> teach.named, confirmed |-> teach.confirmed,
                awaiting |-> teach.awaiting, since |-> since,
                frame |-> teach.live, trust |-> trust, at |-> h, saved |-> teach.saved,
                begun |-> teach.begun, thrown |-> teach.thrown, places |-> teach.places, last |-> last]
  BY <1>1, <1>2 DEF TeachRecords
<1>6. teach' \in TeachRecords
  <2>1. /\ teach.live \in TeachMaps \cup {0} /\ teach.named \in BOOLEAN /\ teach.confirmed \in BOOLEAN
        /\ teach.saved \in SUBSET TeachMaps /\ teach.thrown \in SUBSET TeachMaps /\ teach.awaiting \in BOOLEAN
        /\ teach.places \in [TeachSpots -> TeachPlaces] /\ teach.begun \in TeachMaps
    BY <1>1 DEF TeachRecords
  <2> QED BY <1>3, <1>4, <1>5, <2>1, Zenon DEF TeachRecords
<1>7. TeachBegun(teach') /\ TeachShown(teach') /\ TeachSearching(teach')
      /\ \A s \in TeachSpots : TeachMarksTrue(teach'.places[s])
  BY <1>1, <1>2, <1>5 DEF TeachGood, TeachBegun, TeachShown, TeachSearching
<1>8. TeachGood(teach')
  BY <1>6, <1>7 DEF TeachGood
<1> QED BY <1>3, <1>5, <1>8 DEF TeachInv, TeachLeads, TeachKnowsWhere

(* A lesson puts a true anchor among true ones.                              *)
LEMMA TeachLesson ==
  ASSUME NEW t, t.live \in TeachMaps, NEW p \in TeachPlaces, NEW a \in TeachMarks,
         NEW radius \in {{}} \cup {{r} : r \in TeachRadii},
         TeachTrueMark(t.live, a), \A n \in DOMAIN p.anchors : TeachTrueMark(p.map, p.anchors[n])
  PROVE  LET q == TeachOn(t, p, a, radius)
         IN q \in TeachPlaces /\ q.map = t.live /\ \A n \in DOMAIN q.anchors : TeachTrueMark(t.live, q.anchors[n])
<1> DEFINE near == {n \in DOMAIN p.anchors : TeachGap(p.anchors[n].x, a.x) <= TeachMerge}
           wide == IF radius = {} THEN p.radius ELSE CHOOSE r \in radius : TRUE
           q == TeachOn(t, p, a, radius)
<1>1. p.anchors \in Seq(TeachMarks) /\ p.radius \in Nat /\ p.map \in TeachMaps \cup {0}
  BY DEF TeachPlaces
<1>2. wide \in Nat
  <2>1. \A r \in TeachRadii : r \in Nat
    BY TeachAssumption
  <2>2. CASE radius = {}
    BY <1>1, <2>2
  <2>3. CASE radius # {}
    <3>1. PICK r \in TeachRadii : radius = {r}
      BY <2>3
    <3> QED BY <2>1, <3>1
  <2> QED BY <2>2, <2>3
<1>3. near # {} => Min(near) \in near
  <2>1. near \subseteq Nat
    BY <1>1
  <2> QED BY <2>1, LeastNatural
<1>4. near \subseteq DOMAIN p.anchors
  OBVIOUS
<1>5. q = IF p.anchors = <<>> \/ p.map # t.live THEN [map |-> t.live, anchors |-> <<a>>, radius |-> wide]
          ELSE IF near # {} THEN [p EXCEPT !.anchors = ReplaceAt(p.anchors, Min(near), a), !.radius = wide]
          ELSE [p EXCEPT !.anchors = Append(p.anchors, a), !.radius = wide]
  BY DEF TeachOn
<1> HIDE DEF near, wide, q
<1>6. CASE p.anchors = <<>> \/ p.map # t.live
  <2>1. q = [map |-> t.live, anchors |-> <<a>>, radius |-> wide]
    BY <1>5, <1>6
  <2>2. <<a>> \in Seq(TeachMarks) /\ \A n \in DOMAIN <<a>> : <<a>>[n] = a
    OBVIOUS
  <2>3. q \in TeachPlaces
    BY <1>2, <2>1, <2>2 DEF TeachPlaces
  <2> QED BY <2>1, <2>2, <2>3 DEF q
<1>7. CASE ~(p.anchors = <<>> \/ p.map # t.live)
  <2> DEFINE put == IF near # {} THEN ReplaceAt(p.anchors, Min(near), a) ELSE Append(p.anchors, a)
  <2>1. q = [p EXCEPT !.anchors = put, !.radius = wide]
    BY <1>5, <1>7
  <2>2. put \in Seq(TeachMarks) /\ \A n \in DOMAIN put : put[n] = a \/ (n \in DOMAIN p.anchors /\ put[n] = p.anchors[n])
    <3>1. CASE near # {}
      <4>1. put = [p.anchors EXCEPT ![Min(near)] = a] /\ Min(near) \in DOMAIN p.anchors
        BY <1>3, <1>4, <3>1 DEF ReplaceAt
      <4> QED BY <1>1, <4>1
    <3>2. CASE near = {}
      <4>1. put = Append(p.anchors, a)
        BY <3>2
      <4> QED BY <1>1, <4>1
    <3> QED BY <3>1, <3>2
  <2> HIDE DEF put
  <2>3. q \in TeachPlaces /\ q.map = p.map /\ q.anchors = put
    BY <1>2, <2>1, <2>2 DEF TeachPlaces
  <2> QED BY <1>7, <2>2, <2>3 DEF q
<1> QED BY <1>6, <1>7

LEMMA TeachToldKeeps ==
  ASSUME NEW t, TeachGood(t), TeachMay(t), NEW s \in TeachSpots, NEW a \in TeachMarks, TeachTrueMark(t.live, a),
         NEW radius \in {{}} \cup {{r} : r \in TeachRadii}, TeachTold(t, s, a, radius)
  PROVE  TeachInv'
<1> DEFINE p == TeachOn(t, t.places[s], a, radius)
           last == [kind |-> "taught"]
<1>1. t \in TeachRecords /\ TeachMarksTrue(t.places[s]) /\ t.places[s] \in TeachPlaces
  BY TeachPlacesTyped DEF TeachGood
<1>2. t.live \in TeachMaps /\ ~t.awaiting
  BY <1>1 DEF TeachMay, TeachGood, TeachSearching, TeachRecords
<1>3. p \in TeachPlaces /\ p.map = t.live /\ \A n \in DOMAIN p.anchors : TeachTrueMark(t.live, p.anchors[n])
  BY <1>1, <1>2, TeachLesson DEF TeachMarksTrue
<1>4. teach' = [t EXCEPT !.places[s] = p, !.last = last] /\ Len(p.anchors) <= TeachAnchors
  BY DEF TeachTold, TeachSaid
<1>5. last \in TeachLasts /\ last.kind = "taught"
  BY DEF TeachLasts, TeachKinds
<1> HIDE DEF p, last
<1> DEFINE places == [t.places EXCEPT ![s] = p]
<1>6. t.places \in [TeachSpots -> TeachPlaces] /\ places \in [TeachSpots -> TeachPlaces]
  BY <1>1, <1>3 DEF TeachRecords
<1>7. \A o \in TeachSpots : places[o] = p \/ places[o] = t.places[o]
  BY <1>6
<1>8. teach' = [t EXCEPT !.places = places, !.last = last]
  BY <1>1, <1>4 DEF TeachRecords
<1> HIDE DEF places
<1>9. teach' \in TeachRecords
  BY <1>1, <1>5, <1>6, <1>8 DEF TeachRecords
<1>10. /\ teach'.live = t.live /\ teach'.named = t.named /\ teach'.confirmed = t.confirmed
       /\ teach'.awaiting = t.awaiting /\ teach'.since = t.since /\ teach'.frame = t.frame
       /\ teach'.saved = t.saved /\ teach'.begun = t.begun /\ teach'.thrown = t.thrown
       /\ teach'.places = places /\ teach'.last = last
  BY <1>1, <1>8 DEF TeachRecords
<1>11. TeachBegun(teach')
  BY <1>3, <1>7, <1>10 DEF TeachGood, TeachBegun
<1>12. TeachShown(teach')
  BY <1>10 DEF TeachGood, TeachShown
<1>13. TeachSearching(teach')
  BY <1>2, <1>3, <1>7, <1>10 DEF TeachGood, TeachSearching
<1>14. \A o \in TeachSpots : TeachMarksTrue(teach'.places[o])
  BY <1>3, <1>4, <1>7, <1>10 DEF TeachGood, TeachMarksTrue
<1>15. TeachGood(teach')
  BY <1>9, <1>11, <1>12, <1>13, <1>14 DEF TeachGood
<1> QED BY <1>5, <1>10, <1>15 DEF TeachInv, TeachLeads, TeachKnowsWhere

LEMMA TeachHereKeeps ==
  ASSUME TeachInv, NEW s \in TeachSpots, NEW radius \in {{}} \cup {{r} : r \in TeachRadii}, TeachHere(s, radius)
  PROVE  TeachInv'
<1> DEFINE t == TeachFold(teach)
           a == [x |-> TeachRead(t.frame, t.at), truth |-> t.at, old |-> t.frame # t.live]
<1>1. TeachGood(t)
  BY TeachFolds DEF TeachInv
<1>2. t.frame \in TeachMaps \cup {0} /\ t.at \in Int /\ t.frame # 0
  BY <1>1, TeachAssumption DEF TeachHere, TeachGood, TeachRecords
<1>3. TeachMay(t) /\ TeachTold(t, s, a, radius)
  BY DEF TeachHere
<1> HIDE DEF t
<1>4. a \in TeachMarks
  BY <1>2, TeachReads DEF TeachMarks
<1>5. TeachTrueMark(t.live, a)
  BY DEF TeachTrueMark
<1> HIDE DEF a
<1> QED BY <1>1, <1>3, <1>4, <1>5, TeachToldKeeps

LEMMA TeachThereKeeps ==
  ASSUME TeachInv, NEW s \in TeachSpots, NEW h \in TeachPoints, TeachThere(s, h)
  PROVE  TeachInv'
<1> DEFINE t == TeachFold(teach)
           a == [x |-> TeachRead(t.frame, h), truth |-> h, old |-> t.frame # t.live]
<1>1. TeachGood(t)
  BY TeachFolds DEF TeachInv
<1>2. t.frame \in TeachMaps \cup {0} /\ h \in Int /\ t.frame # 0
  BY <1>1, TeachAssumption DEF TeachThere, TeachGood, TeachRecords
<1>3. TeachMay(t) /\ TeachTold(t, s, a, {})
  BY DEF TeachThere
<1> HIDE DEF t
<1>4. a \in TeachMarks
  BY <1>2, TeachReads DEF TeachMarks
<1>5. TeachTrueMark(t.live, a)
  BY DEF TeachTrueMark
<1>6. {} \in {{}} \cup {{r} : r \in TeachRadii}
  OBVIOUS
<1> HIDE DEF a
<1> QED BY <1>1, <1>3, <1>4, <1>5, <1>6, TeachToldKeeps

LEMMA TeachForgetKeeps ==
  ASSUME TeachInv, NEW s \in TeachSpots, TeachForget(s)
  PROVE  TeachInv'
<1> DEFINE p == TeachNobody
           last == [kind |-> "forgot"]
           places == [teach.places EXCEPT ![s] = p]
<1>1. teach \in TeachRecords /\ TeachGood(teach)
  BY DEF TeachInv, TeachGood
<1>2. p \in TeachPlaces /\ p.map = 0 /\ p.anchors = <<>>
  <2>1. TeachDefault \in Nat /\ <<>> \in Seq(TeachMarks)
    BY TeachAssumption
  <2> QED BY <2>1 DEF TeachNobody, TeachPlaces
<1>3. teach' = [teach EXCEPT !.places[s] = p, !.last = last]
  BY DEF TeachForget, TeachSaid
<1>4. last \in TeachLasts /\ last.kind = "forgot"
  BY DEF TeachLasts, TeachKinds
<1> HIDE DEF p, last
<1>6. teach.places \in [TeachSpots -> TeachPlaces] /\ places \in [TeachSpots -> TeachPlaces]
  BY <1>1, <1>2 DEF TeachRecords
<1>7. \A o \in TeachSpots : places[o] = p \/ places[o] = teach.places[o]
  BY <1>6
<1>8. teach' = [teach EXCEPT !.places = places, !.last = last]
  BY <1>1, <1>3 DEF TeachRecords
<1> HIDE DEF places
<1>9. teach' \in TeachRecords
  BY <1>1, <1>4, <1>6, <1>8 DEF TeachRecords
<1>10. /\ teach'.live = teach.live /\ teach'.named = teach.named /\ teach'.confirmed = teach.confirmed
       /\ teach'.awaiting = teach.awaiting /\ teach'.since = teach.since /\ teach'.frame = teach.frame
       /\ teach'.saved = teach.saved /\ teach'.begun = teach.begun /\ teach'.thrown = teach.thrown
       /\ teach'.places = places /\ teach'.last = last
  BY <1>1, <1>8 DEF TeachRecords
<1>11. TeachBegun(teach')
  <2>1. teach.begun \in Nat
    BY <1>1, TeachAssumption DEF TeachRecords
  <2> QED BY <1>1, <1>2, <1>7, <1>10, <2>1 DEF TeachGood, TeachBegun
<1>12. TeachShown(teach')
  BY <1>1, <1>10 DEF TeachGood, TeachShown
<1>13. TeachSearching(teach')
  BY <1>1, <1>2, <1>7, <1>10 DEF TeachGood, TeachSearching
<1>14. \A o \in TeachSpots : TeachMarksTrue(teach'.places[o])
  <2>1. TeachMarksTrue(p)
    BY <1>2, TeachAssumption DEF TeachMarksTrue
  <2> QED BY <1>1, <1>7, <1>10, <2>1 DEF TeachGood
<1>15. TeachGood(teach')
  BY <1>9, <1>11, <1>12, <1>13, <1>14 DEF TeachGood
<1> QED BY <1>4, <1>10, <1>15 DEF TeachInv, TeachLeads, TeachKnowsWhere

(* An answer changes nothing but what was last answered.                     *)
LEMMA TeachAnswers ==
  ASSUME NEW t, TeachGood(t), NEW last \in TeachLasts, teach' = [t EXCEPT !.last = last]
  PROVE  /\ TeachGood(teach')
         /\ teach'.last = last /\ teach'.places = t.places /\ teach'.at = t.at
<1>1. t \in TeachRecords
  BY DEF TeachGood
<1>2. teach' \in TeachRecords
  BY <1>1 DEF TeachRecords
<1>3. /\ teach'.live = t.live /\ teach'.named = t.named /\ teach'.confirmed = t.confirmed
      /\ teach'.awaiting = t.awaiting /\ teach'.since = t.since /\ teach'.frame = t.frame /\ teach'.at = t.at
      /\ teach'.saved = t.saved /\ teach'.begun = t.begun /\ teach'.thrown = t.thrown
      /\ teach'.places = t.places /\ teach'.last = last
  BY <1>1 DEF TeachRecords
<1>4. TeachBegun(teach') /\ TeachShown(teach') /\ TeachSearching(teach')
      /\ \A s \in TeachSpots : TeachMarksTrue(teach'.places[s])
  BY <1>3 DEF TeachGood, TeachBegun, TeachShown, TeachSearching
<1> QED BY <1>2, <1>3, <1>4 DEF TeachGood

LEMMA TeachGoesKeeps ==
  ASSUME TeachInv, NEW s \in TeachSpots, TeachGoes(s)
  PROVE  TeachInv'
<1> DEFINE t == TeachFold(teach)
           p == t.places[s]
           moved == t.trust = "untrusted"
           answer == IF t.frame = 0 THEN "noMap"
                     ELSE IF t.trust # "trusted" /\ ~moved THEN t.trust
                     ELSE IF p.anchors = <<>> THEN "noPlace"
                     ELSE IF TeachState(t, p) # "usable" THEN TeachState(t, p)
                     ELSE IF moved THEN "relocalizing" ELSE "started"
           heads == [kind |-> "goes", to |-> TeachHouse(t.frame, Head(p.anchors).x), anchor |-> Head(p.anchors)]
           last == IF answer # "started" THEN [kind |-> answer] ELSE heads
<1>1. TeachGood(t)
  BY TeachFolds DEF TeachInv
<1>2. teach' = [t EXCEPT !.last = last]
  BY DEF TeachGoes, TeachSaid
<1>3. t \in TeachRecords /\ p \in TeachPlaces /\ p.anchors \in Seq(TeachMarks) /\ p.map \in TeachMaps \cup {0}
      /\ TeachMarksTrue(p)
  BY <1>1, TeachPlacesTyped DEF TeachGood
<1> HIDE DEF t, p
<1>4. TeachState(t, p) \in {"usable", "pending", "otherMap", "stale"}
  BY DEF TeachState
<1>5. t.trust \in TeachTrusts
  BY <1>3 DEF TeachRecords
<1>6. answer = "started" \/ answer \in TeachKinds
  BY <1>4, <1>5 DEF TeachKinds, TeachTrusts
<1>7. CASE answer # "started"
  <2> HIDE DEF answer, heads
  <2>1. last = [kind |-> answer] /\ answer \in TeachKinds
    BY <1>6, <1>7
  <2> HIDE DEF last
  <2>2. last \in TeachLasts /\ last.kind = answer
    BY <2>1 DEF TeachLasts
  <2>3. last.kind # "goes" /\ last.kind # "where"
    BY <2>1, <2>2 DEF TeachKinds, TeachTrusts
  <2> QED BY <1>1, <1>2, <2>2, <2>3, TeachAnswers DEF TeachInv, TeachLeads, TeachKnowsWhere
<1>8. CASE answer = "started"
  <2>1. t.frame # 0 /\ p.anchors # <<>> /\ TeachState(t, p) = "usable"
    BY <1>4, <1>5, <1>8 DEF TeachTrusts
  <2>2. p.map = t.live /\ t.confirmed
    BY <2>1 DEF TeachState
  <2>3. p.map = t.frame
    BY <1>1, <2>2 DEF TeachGood, TeachShown
  <2> HIDE DEF answer
  <2>4. last = heads
    BY <1>8
  <2> DEFINE a == Head(p.anchors)
  <2>5. a \in TeachMarks /\ a = p.anchors[1] /\ 1 \in DOMAIN p.anchors
    BY <1>3, <2>1
  <2>6. TeachTrueMark(p.map, a)
    BY <1>3, <2>5 DEF TeachMarksTrue
  <2>7. heads = [kind |-> "goes", to |-> TeachHouse(t.frame, a.x), anchor |-> a]
    OBVIOUS
  <2> HIDE DEF a, heads, last
  <2>8. a.x \in Int /\ a.truth \in Int
    BY <2>5 DEF TeachMarks
  <2>9. TeachHouse(t.frame, a.x) \in Int /\ (~a.old => TeachHouse(t.frame, a.x) = a.truth)
    BY <1>3, <2>3, <2>6, <2>8, TeachReads DEF TeachTrueMark
  <2>10. last \in TeachLasts /\ last.kind = "goes" /\ last.to = TeachHouse(t.frame, a.x) /\ last.anchor = a
    BY <2>4, <2>5, <2>7, <2>9 DEF TeachLasts
  <2> QED BY <1>1, <1>2, <2>9, <2>10, TeachAnswers DEF TeachInv, TeachLeads, TeachKnowsWhere
<1> QED BY <1>7, <1>8

LEMMA TeachWhereKeeps ==
  ASSUME TeachInv, TeachWhere
  PROVE  TeachInv'
<1> DEFINE t == TeachFold(teach)
           here == TeachRead(t.frame, t.at)
<1>1. TeachGood(t)
  BY TeachFolds DEF TeachInv
<1>2. PICK s \in TeachUsable(t) :
        teach' = [t EXCEPT !.last = [kind |-> "where", place |-> s,
                                     within |-> TeachFar(t.places[s], here) <= t.places[s].radius]]
  BY DEF TeachWhere
<1> HIDE DEF t
<1>3. s \in TeachSpots /\ t.places[s].anchors # <<>> /\ TeachState(t, t.places[s]) = "usable"
  BY DEF TeachUsable
<1> DEFINE p == t.places[s]
           within == TeachFar(p, here) <= p.radius
           last == [kind |-> "where", place |-> s, within |-> within]
<1>4. t \in TeachRecords /\ p \in TeachPlaces /\ p.anchors \in Seq(TeachMarks) /\ p.map \in TeachMaps \cup {0}
      /\ p.radius \in Nat /\ TeachMarksTrue(p)
  BY <1>1, <1>3, TeachPlacesTyped DEF TeachGood
<1>5. p.map = t.live /\ t.confirmed
  BY <1>3 DEF TeachState
<1>6. p.map = t.frame
  BY <1>1, <1>5 DEF TeachGood, TeachShown
<1>7. t.at \in Int /\ t.frame \in TeachMaps \cup {0}
  BY <1>4, TeachAssumption DEF TeachRecords
<1>8. here \in Int
  BY <1>7, TeachReads
<1> HIDE DEF p
<1> DEFINE gaps == {TeachGap(p.anchors[n].x, here) : n \in DOMAIN p.anchors}
<1>9. \A n \in DOMAIN p.anchors : p.anchors[n] \in TeachMarks /\ p.anchors[n].x \in Int /\ p.anchors[n].truth \in Int
  <2>1. \A a \in TeachMarks : a.x \in Int /\ a.truth \in Int
    BY DEF TeachMarks
  <2>2. \A n \in DOMAIN p.anchors : p.anchors[n] \in TeachMarks
    BY <1>4
  <2> QED BY <2>1, <2>2
<1>10. gaps \subseteq Nat /\ gaps # {}
  <2>1. 1 \in DOMAIN p.anchors
    BY <1>3, <1>4 DEF p
  <2>2. \A n \in DOMAIN p.anchors : TeachGap(p.anchors[n].x, here) \in Nat
    BY <1>8, <1>9 DEF TeachGap
  <2> QED BY <2>1, <2>2
<1>11. TeachFar(p, here) \in gaps
  BY <1>10, LeastNatural DEF TeachFar
<1>12. PICK n \in DOMAIN p.anchors : TeachFar(p, here) = TeachGap(p.anchors[n].x, here)
  BY <1>11
<1>13. p.anchors[n].old \/ TeachFar(p, here) = TeachGap(p.anchors[n].truth, t.at)
  <2>1. SUFFICES ASSUME ~p.anchors[n].old
                 PROVE  TeachFar(p, here) = TeachGap(p.anchors[n].truth, t.at)
    OBVIOUS
  <2>2. p.anchors[n].x = TeachRead(p.map, p.anchors[n].truth)
    BY <1>4, <2>1 DEF TeachMarksTrue, TeachTrueMark
  <2>3. TeachGap(TeachRead(p.map, p.anchors[n].truth), TeachRead(p.map, t.at)) = TeachGap(p.anchors[n].truth, t.at)
    BY <1>4, <1>7, <1>9, TeachReads
  <2> QED BY <1>6, <1>12, <2>2, <2>3
<1> HIDE DEF here, gaps
<1>14. within \in BOOLEAN
  OBVIOUS
<1>15. teach' = [t EXCEPT !.last = last]
  BY <1>2 DEF p
<1>16. last \in TeachLasts /\ last.kind = "where" /\ last.place = s /\ last.within = within
  <2> HIDE DEF within
  <2> QED BY <1>3, <1>14 DEF TeachLasts
<1>17. last.within => \E k \in DOMAIN p.anchors : p.anchors[k].old \/ TeachGap(p.anchors[k].truth, t.at) <= p.radius
  BY <1>13, <1>16
<1> HIDE DEF last, within
<1>18. TeachGood(teach') /\ teach'.last = last /\ teach'.places[s] = p /\ teach'.at = t.at
  BY <1>1, <1>15, <1>16, TeachAnswers DEF p
<1> QED BY <1>16, <1>17, <1>18 DEF TeachInv, TeachLeads, TeachKnowsWhere

LEMMA TeachStepKeeps == TeachInv /\ [TeachNext]_teach => TeachInv'
<1> SUFFICES ASSUME TeachInv, [TeachNext]_teach PROVE TeachInv'
  OBVIOUS
<1>1. ASSUME NEW m \in TeachMaps, TeachLoads(m) PROVE TeachInv'
  BY <1>1, TeachLoadKeeps
<1>2. CASE TeachStarts
  BY <1>2, TeachStartKeeps
<1>3. CASE TeachSettles
  BY <1>3, TeachSettleKeeps
<1>4. ASSUME NEW over \in SUBSET TeachMaps, TeachSaves(over) PROVE TeachInv'
  BY <1>4, TeachSaveKeeps
<1>5. ASSUME NEW trust \in {"trusted", "untrusted", "seated", "unsure"}, NEW h \in TeachPoints, TeachFrame(trust, h)
      PROVE  TeachInv'
  BY <1>5, TeachFrameKeeps DEF TeachTrusts
<1>6. ASSUME NEW s \in TeachSpots, NEW radius \in {{}} \cup {{r} : r \in TeachRadii}, TeachHere(s, radius)
      PROVE  TeachInv'
  BY <1>6, TeachHereKeeps
<1>7. ASSUME NEW s \in TeachSpots, NEW h \in TeachPoints, TeachThere(s, h) PROVE TeachInv'
  BY <1>7, TeachThereKeeps
<1>8. ASSUME NEW s \in TeachSpots, TeachForget(s) PROVE TeachInv'
  BY <1>8, TeachForgetKeeps
<1>9. ASSUME NEW s \in TeachSpots, TeachGoes(s) PROVE TeachInv'
  BY <1>9, TeachGoesKeeps
<1>10. CASE TeachWhere
  BY <1>10, TeachWhereKeeps
<1>11. CASE UNCHANGED teach
  BY <1>11 DEF TeachInv, TeachLeads, TeachKnowsWhere
<1> QED BY <1>1, <1>2, <1>3, <1>4, <1>5, <1>6, <1>7, <1>8, <1>9, <1>10, <1>11 DEF TeachNext

(* And it says what is checked.                                              *)
LEMMA TeachInvSays == TeachInv => TeachTypeOK /\ TeachTrue
<1> SUFFICES ASSUME TeachInv PROVE TeachTypeOK /\ TeachTrue
  OBVIOUS
<1>1. TeachTypeOK
  BY DEF TeachInv, TeachGood, TeachRecords, TeachMarksTrue, TeachTypeOK
<1>2. TeachKeeps
  BY DEF TeachInv, TeachGood, TeachSearching, TeachKeeps
<1> QED BY <1>1, <1>2 DEF TeachInv, TeachTrue

(* Whatever maps are started, searched, loaded, saved over and thrown away,  *)
(* a journey to a place leads to the point it was taught at, but for one     *)
(* taught on an old frame, and nothing is taught on what is thrown away.     *)
THEOREM TeachHolds == TeachSpec => [](TeachTypeOK /\ TeachTrue)
<1>1. TeachInit => TeachInv
  BY TeachInitInv
<1>2. TeachInv /\ [TeachNext]_teach => TeachInv'
  BY TeachStepKeeps
<1>3. TeachInv => TeachTypeOK /\ TeachTrue
  BY TeachInvSays
<1> QED BY <1>1, <1>2, <1>3, PTL DEF TeachSpec

-----------------------------------------------------------------------------
(* The plan of a step.  First what its helpers return.                       *)

(* The least of what has one.                                                *)
LEMMA StepLeastIs ==
  ASSUME NEW T, NEW m \in T, \A x \in T : m <= x
  PROVE  StepLeast(T) \in T /\ \A x \in T : StepLeast(T) <= x
BY DEF StepLeast

(* The square root, rounded down, of what the sensor can see.                *)
LEMMA StepRoots ==
  ASSUME NEW n \in Nat, n < 301 * 301
  PROVE  /\ StepRoot(n) \in 0..300
         /\ StepRoot(n) * StepRoot(n) <= n /\ n < (StepRoot(n) + 1) * (StepRoot(n) + 1)
<1> DEFINE T == {k \in Nat : n < (k + 1) * (k + 1)}
           m == Min(T)
<1>1. 300 \in T
  OBVIOUS
<1>2. m \in T /\ \A k \in T : m <= k
  BY <1>1, LeastNatural
<1> HIDE DEF m
<1>3. m \in Nat /\ n < (m + 1) * (m + 1) /\ m <= 300
  BY <1>1, <1>2
<1>4. m * m <= n
  <2>1. CASE m = 0
    BY <2>1
  <2>2. CASE m # 0
    <3>1. m - 1 \in Nat /\ ~(m <= m - 1)
      BY <1>3, <2>2
    <3>2. m - 1 \notin T
      BY <1>2, <3>1
    <3>3. ~(n < ((m - 1) + 1) * ((m - 1) + 1))
      BY <3>1, <3>2
    <3>4. (m - 1) + 1 = m
      BY <1>3
    <3>5. m * m \in Int
      BY <1>3
    <3> QED BY <3>3, <3>4, <3>5
  <2> QED BY <2>1, <2>2
<1>5. m \in 0..300 /\ m * m <= n /\ n < (m + 1) * (m + 1)
  BY <1>3, <1>4
<1> HIDE DEF T
<1>6. \E k \in 0..300 : k * k <= n /\ n < (k + 1) * (k + 1)
  BY <1>5
<1> QED BY <1>6 DEF StepRoot

(* What is about the body is within the sensor's reach, and a hole's edge is *)
(* no farther than its middle.                                               *)
LEMMA StepThingsSeen ==
  ASSUME NEW t \in StepHoles \union StepBoxes
  PROVE  /\ t.at[1] \in Int /\ t.at[2] \in Int /\ t.edge \in Nat
         /\ StepRange(t) \in 0..300 /\ (t \in StepHoles => t.edge <= StepRange(t))
<1>1. PICK p \in StepSpots, e \in StepEdges \union {0} : t = [at |-> p, edge |-> e]
  BY DEF StepHoles, StepBoxes, StepThing
<1>2. PICK a \in StepAheads, b \in StepAsides \union {-n : n \in StepAsides} : p = <<a, b>>
  BY DEF StepSpots
<1>3. PICK n \in StepAsides : b = n \/ b = -n
  OBVIOUS
<1>4. a \in Nat /\ n \in Nat /\ a * a + n * n < 301 * 301 /\ e \in Nat
  BY StepAssumption
<1>5. b \in Int /\ b * b = n * n
  BY <1>3, <1>4
<1>6. t.at[1] = a /\ t.at[2] = b /\ t.edge = e
  BY <1>1, <1>2
<1>7. t.at[1] * t.at[1] + t.at[2] * t.at[2] \in Nat /\ t.at[1] * t.at[1] + t.at[2] * t.at[2] < 301 * 301
  <2>1. a * a \in Nat /\ n * n \in Nat
    BY <1>4
  <2> QED BY <1>4, <1>5, <1>6, <2>1
<1>8. StepRange(t) \in 0..300
  BY <1>7, StepRoots DEF StepRange
<1>9. t \in StepHoles => t.edge <= StepRange(t)
  BY DEF StepHoles
<1> QED BY <1>4, <1>5, <1>6, <1>8, <1>9

(* The nearest in a lane, if anything is in it.                              *)
LEMMA StepNearestIs ==
  ASSUME NEW things, things \subseteq StepHoles \union StepBoxes, NEW heading, NEW half
  PROVE  LET lane == {t \in things : StepInLane(t, heading, half)}
         IN  \/ lane = {} /\ StepNearest(things, heading, half) = {}
             \/ \E t \in lane : /\ StepNearest(things, heading, half) = {t}
                                /\ \A o \in lane : StepRange(t) <= StepRange(o)
<1> DEFINE lane == {t \in things : StepInLane(t, heading, half)}
           nearest == CHOOSE t \in lane : \A o \in lane : StepRange(t) <= StepRange(o)
           T == {StepRange(t) : t \in lane}
<1>1. StepNearest(things, heading, half) = IF lane = {} THEN {} ELSE {nearest}
  BY DEF StepNearest
<1>2. \A t \in lane : StepRange(t) \in Nat
  BY StepThingsSeen
<1> HIDE DEF lane
<1>3. CASE lane # {}
  <2>1. T \subseteq Nat /\ T # {}
    BY <1>2, <1>3
  <2>2. Min(T) \in T /\ \A y \in T : Min(T) <= y
    BY <2>1, LeastNatural
  <2>3. \E t \in lane : \A o \in lane : StepRange(t) <= StepRange(o)
    BY <2>2
  <2>4. nearest \in lane /\ \A o \in lane : StepRange(nearest) <= StepRange(o)
    BY <2>3
  <2> HIDE DEF nearest
  <2>5. StepNearest(things, heading, half) = {nearest}
    BY <1>1, <1>3
  <2> QED BY <2>4, <2>5 DEF lane
<1>4. CASE lane = {}
  BY <1>1, <1>4 DEF lane
<1> QED BY <1>3, <1>4

(* How far a leg goes: no less for a longer one, and no farther than the     *)
(* room it is fitted to.                                                     *)
LEMMA StepAdvances ==
  ASSUME NEW ask, ask.yaw \in Int, NEW walk \in 0..100
  PROVE  /\ StepAdvance(ask, walk) \in Nat
         /\ \A w \in 0..walk : StepAdvance(ask, w) <= StepAdvance(ask, walk)
         /\ \A room \in Int : LET w == StepDiv(100 * room, StepAdvance(ask, 100))
                              IN  w \in Int /\ (\A u \in 1..100 : u <= w => StepAdvance(ask, u) <= room)
<1> DEFINE m == StepMin(StepAbs(ask.yaw), 70)
           f == 100 - (75 * m) \div 70
           A == StepAdvance(ask, 100)
<1>1. m \in 0..70
  BY DEF StepMin, StepAbs
<1> HIDE DEF m
<1>2. f \in 25..100
  BY <1>1
<1>3. \A w : StepAdvance(ask, w) = (12 * w * f) \div 1000
  BY DEF StepAdvance, m
<1> HIDE DEF f
<1>4. \A w \in 0..100 : w * f \in Nat
  BY <1>2
<1>5. \A w \in 0..walk : w * f <= walk * f
  BY <1>2
<1>6. ASSUME NEW w \in 0..100 PROVE 12 * w * f = 12 * (w * f)
  BY <1>2
<1>7. \A w \in 0..100 : StepAdvance(ask, w) = (12 * (w * f)) \div 1000
  BY <1>3, <1>6
<1>8. StepAdvance(ask, walk) \in Nat
  BY <1>4, <1>7
<1>9. ASSUME NEW w \in 0..walk PROVE StepAdvance(ask, w) <= StepAdvance(ask, walk)
  <2>1. w * f \in Nat /\ walk * f \in Nat /\ w * f <= walk * f /\ w \in 0..100
    BY <1>4, <1>5
  <2>2. (12 * (w * f)) \div 1000 <= (12 * (walk * f)) \div 1000
    BY <2>1
  <2> QED BY <1>7, <2>1, <2>2
<1>10. A = (1200 * f) \div 1000
  BY <1>3, <1>2
<1>11. A \in 30..120 /\ 1200 * f <= 1000 * A + 999
  BY <1>2, <1>10
<1> HIDE DEF A
<1>12. ASSUME NEW room \in Int
       PROVE  LET w == StepDiv(100 * room, A)
              IN  w \in Int /\ (\A u \in 1..100 : u <= w => StepAdvance(ask, u) <= room)
  <2> DEFINE w == StepDiv(100 * room, A)
  <2>1. CASE room < 0
    <3>1. w = -((-(100 * room)) \div A)
      BY <2>1 DEF StepDiv
    <3>2. (-(100 * room)) \div A \in Nat
      BY <1>11, <2>1
    <3>3. w \in Int /\ w <= 0
      BY <3>1, <3>2
    <3> QED BY <3>3
  <2>2. CASE room >= 0
    <3>1. w = (100 * room) \div A
      BY <2>2 DEF StepDiv
    <3>2. w \in Nat /\ w * A <= 100 * room
      BY <1>11, <2>2, <3>1
    <3> HIDE DEF w
    <3>3. ASSUME NEW u \in 1..100, u <= w PROVE StepAdvance(ask, u) <= room
      <4>1. u * A <= w * A
        BY <1>11, <3>2, <3>3
      <4>2. u * A \in Nat /\ u * f \in Nat
        BY <1>2, <1>11
      <4>3. u * (1200 * f) <= u * (1000 * A + 999)
        BY <1>2, <1>11
      <4>4. 1200 * (u * f) <= 1000 * (u * A) + 999 * u
        BY <1>2, <1>11, <4>3
      <4>5. w * A \in Int
        BY <1>11, <3>2
      <4>6. 12 * (u * f) <= 1000 * room + 999
        BY <3>2, <4>1, <4>2, <4>4, <4>5
      <4> QED BY <1>7, <4>2, <4>6
    <3> QED BY <3>2, <3>3 DEF w
  <2> QED BY <2>1, <2>2
<1> QED BY <1>8, <1>9, <1>12 DEF A

-----------------------------------------------------------------------------
(* What a plan rests on: the map's rays, and frames of what is there.        *)
StepKinds == {"free", "wall", "unknown"}
StepSides == {"ahead", "behind", "left", "leftAhead", "right", "rightAhead"}
StepFloor == [drops : SUBSET StepHoles, obstacles : SUBSET StepBoxes, rays : [StepSides -> Seq(StepKinds)]]
StepSeen ==
  [age : 0..1, moving : BOOLEAN, head : -1..1, drops : SUBSET StepHoles, obstacles : SUBSET StepBoxes]
StepSound(s) == s.world \in StepFloor /\ s.known \in BOOLEAN /\ s.frames \in Seq(StepSeen)

StepForward ==
  [walk : 0..100, vx : {30, -30}, yaw : -100..100, gap : BOOLEAN, passage : BOOLEAN, alone : BOOLEAN,
   centre : BOOLEAN]

(* A leg that is asked for, forwards or backwards.                           *)
LEMMA StepAsksTyped == StepAsks \subseteq StepForward
<1> SUFFICES ASSUME NEW ask \in StepAsks PROVE ask \in StepForward
  OBVIOUS
<1>1. PICK walk \in StepWalks, vx \in {30, -30}, yaw \in StepYaws \union {-y : y \in StepYaws} \union {0}, flag \in StepFlags :
        ask = StepAsk(walk, vx, yaw, flag)
  BY DEF StepAsks, StepFlags
<1>2. walk \in 0..100 /\ yaw \in -100..100
  BY StepAssumption
<1> QED BY <1>1, <1>2 DEF StepAsk, StepForward

(* What the fresh frames show is holes and boxes.                            *)
LEMMA StepSeenThings ==
  ASSUME NEW s, StepSound(s)
  PROVE  StepDrops(s) \subseteq StepHoles /\ StepObstacles(s) \subseteq StepBoxes
<1>1. \A k \in DOMAIN s.frames : s.frames[k] \in StepSeen
  BY DEF StepSound
<1>2. \A k \in DOMAIN s.frames : s.frames[k].drops \subseteq StepHoles /\ s.frames[k].obstacles \subseteq StepBoxes
  BY <1>1 DEF StepSeen
<1> QED BY <1>2 DEF StepDrops, StepObstacles, StepFresh

(* How far a ray of the map is clear: a length, and what ends it.            *)
LEMMA StepClearNat ==
  ASSUME NEW ray \in Seq(StepKinds), NEW max \in Nat
  PROVE  StepClear(ray, max) \in [free : Nat, by : StepKinds \union {"edge", "open"}]
<1> DEFINE stops == {k \in DOMAIN ray : ray[k] # "free"}
           first == IF stops = {} THEN Len(ray) + 1 ELSE StepLeast(stops)
           by == IF stops = {} THEN "edge" ELSE ray[first]
<1>1. stops \subseteq Nat \ {0}
  OBVIOUS
<1>2. first \in Nat \ {0} /\ by \in StepKinds \union {"edge"}
  <2>1. CASE stops # {}
    <3>1. Min(stops) \in stops /\ \A k \in stops : Min(stops) <= k
      BY <1>1, <2>1, LeastNatural
    <3>2. StepLeast(stops) \in stops
      BY <3>1, StepLeastIs
    <3>3. first \in DOMAIN ray /\ by = ray[first]
      BY <2>1, <3>2
    <3> QED BY <1>1, <2>1, <3>2, <3>3
  <2>2. CASE stops = {}
    BY <2>2
  <2> QED BY <2>1, <2>2
<1>3. StepClear(ray, max) = IF StepCell * first > max THEN [free |-> max, by |-> "open"]
                            ELSE [free |-> StepCell * first - StepCell \div 2, by |-> by]
  BY DEF StepClear
<1> HIDE DEF first, by
<1>4. StepCell * first - StepCell \div 2 \in Nat
  BY <1>2 DEF StepCell
<1> QED BY <1>2, <1>3, <1>4

(* What the map knows of the floor the leg goes to.                          *)
StepFloorAhead(s, ask) == StepClear(s.world.rays[IF ask.vx < 0 THEN "behind" ELSE "ahead"], 300)

(* A leg is shortened to what is ahead of it by its margin.                  *)
LEMMA StepFitsWell ==
  ASSUME NEW s, StepSound(s), NEW ask \in StepForward, NEW walk \in 1..100, NEW gap \in BOOLEAN,
         NEW w, w = StepFits(s, ask, walk, gap), NEW c, c = StepFloorAhead(s, ask)
  PROVE  /\ w \in Int /\ w <= walk
         /\ (w > 0 /\ s.known /\ c.by = "wall") => StepAdvance(ask, w) + StepMargin(ask, gap) <= c.free
<1> DEFINE back == ask.vx < 0
           lane == IF gap THEN 11 ELSE 16
           heading == IF back THEN <<-100, 0>> ELSE <<100, 0>>
           nearest == StepNearest(StepObstacles(s), heading, lane)
           seen == {StepRange(o) : o \in nearest}
           side == IF back THEN "behind" ELSE "ahead"
           wall == IF s.known THEN {c} ELSE {}
           stops == {k.free : k \in {k \in wall : k.by = "wall"}}
           need == StepSlack(gap) + StepMargin(ask, gap)
           limits == StepLimits(s, ask, walk, gap)
<1>0. ask.yaw \in Int /\ walk \in 0..100
  BY DEF StepForward
<1>1. \E a \in Int : seen \subseteq {a}
  <2>1. StepObstacles(s) \subseteq StepHoles \union StepBoxes
    BY StepSeenThings
  <2>2. nearest = {} \/ \E t \in StepObstacles(s) : nearest = {t}
    BY <2>1, StepNearestIs
  <2>3. \A t \in StepObstacles(s) : StepRange(t) \in Int
    BY <2>1, StepThingsSeen
  <2> HIDE DEF nearest
  <2> QED BY <2>2, <2>3
<1>2. c.free \in Int
  <2>1. side \in StepSides
    BY DEF StepSides
  <2>2. s.world.rays \in [StepSides -> Seq(StepKinds)]
    BY DEF StepSound, StepFloor
  <2>3. s.world.rays[side] \in Seq(StepKinds)
    BY <2>1, <2>2
  <2> HIDE DEF side
  <2>4. c = StepClear(s.world.rays[side], 300)
    BY DEF side, back, StepFloorAhead
  <2> QED BY <2>3, <2>4, StepClearNat
<1>3. need \in Nat /\ StepSlack(gap) \in Nat /\ StepMargin(ask, gap) \in Nat
  BY DEF StepSlack, StepMargin
<1>13. c = StepClear(s.world.rays[side], 300)
  BY DEF StepFloorAhead
<1>4. limits = {n \in seen \union stops : n < StepAdvance(ask, walk) + StepSlack(gap) + StepMargin(ask, gap)}
  BY <1>13 DEF StepLimits
<1>5. w = IF limits = {} THEN walk
          ELSE StepMin(walk, StepDiv(100 * (StepLeast(limits) - StepSlack(gap) - StepMargin(ask, gap)), StepAdvance(ask, 100)))
  BY DEF StepFits
<1>6. (s.known /\ c.by = "wall") => c.free \in stops
  OBVIOUS
<1>7. stops \subseteq {c.free}
  OBVIOUS
<1> HIDE DEF seen, stops, limits, need
<1>8. PICK a \in Int : limits \subseteq {a, c.free}
  <2>1. PICK a \in Int : seen \subseteq {a}
    BY <1>1
  <2>2. limits \subseteq {a, c.free}
    BY <1>4, <1>7, <2>1
  <2> QED BY <2>2
<1>9. limits # {} => StepLeast(limits) \in Int /\ \A n \in limits : StepLeast(limits) <= n
  <2> DEFINE b == c.free
  <2>1. b \in Int /\ limits \subseteq {a, b}
    BY <1>2, <1>8
  <2> HIDE DEF b
  <2>2. ASSUME limits # {} PROVE \E m \in limits : \A n \in limits : m <= n
    <3>1. CASE limits = {a}
      BY <3>1
    <3>2. CASE limits = {b}
      BY <2>1, <3>2
    <3>3. CASE a \in limits /\ b \in limits /\ a <= b
      BY <2>1, <3>3
    <3>4. CASE a \in limits /\ b \in limits /\ b <= a
      BY <2>1, <3>4
    <3>5. a <= b \/ b <= a
      BY <2>1
    <3> QED BY <2>1, <2>2, <3>1, <3>2, <3>3, <3>4, <3>5
  <2>3. limits # {} => StepLeast(limits) \in limits /\ \A n \in limits : StepLeast(limits) <= n
    BY <2>2, StepLeastIs
  <2>4. limits \subseteq Int
    BY <2>1
  <2> QED BY <2>3, <2>4
<1>10. StepAdvance(ask, walk) \in Nat /\ \A u \in 0..walk : StepAdvance(ask, u) <= StepAdvance(ask, walk) /\ StepAdvance(ask, u) \in Nat
  <2>1. ASSUME NEW u \in 0..walk PROVE StepAdvance(ask, u) \in Nat
    <3>1. u \in 0..100
      BY <1>0
    <3> QED BY <1>0, <3>1, StepAdvances
  <2> QED BY <1>0, <2>1, StepAdvances
<1>11. CASE limits = {}
  <2>1. w = walk
    BY <1>5, <1>11
  <2>2. (s.known /\ c.by = "wall") => ~(c.free < StepAdvance(ask, walk) + StepSlack(gap) + StepMargin(ask, gap))
    BY <1>4, <1>6, <1>11
  <2> QED BY <1>2, <1>3, <1>10, <2>1, <2>2
<1>12. CASE limits # {}
  <2> DEFINE room == StepLeast(limits) - StepSlack(gap) - StepMargin(ask, gap)
             fit == StepDiv(100 * room, StepAdvance(ask, 100))
  <2>1. room \in Int
    BY <1>3, <1>9, <1>12
  <2>2. w = StepMin(walk, fit)
    BY <1>5, <1>12
  <2>3. fit \in Int /\ \A u \in 1..100 : u <= fit => StepAdvance(ask, u) <= room
    BY <1>0, <2>1, StepAdvances
  <2>4. (s.known /\ c.by = "wall") =>
          \/ ~(c.free < StepAdvance(ask, walk) + StepSlack(gap) + StepMargin(ask, gap))
          \/ room + StepSlack(gap) + StepMargin(ask, gap) <= c.free
    BY <1>2, <1>3, <1>4, <1>6, <1>9, <1>12
  <2> HIDE DEF fit, room
  <2>5. w \in Int /\ w <= walk /\ w <= fit
    BY <2>2, <2>3 DEF StepMin
  <2>6. w > 0 => w \in 1..100 /\ w \in 0..walk
    BY <2>5
  <2>7. w > 0 => StepAdvance(ask, w) <= room /\ StepAdvance(ask, w) <= StepAdvance(ask, walk) /\ StepAdvance(ask, w) \in Nat
    BY <1>10, <2>3, <2>5, <2>6
  <2> QED BY <1>2, <1>3, <1>10, <2>1, <2>4, <2>5, <2>7
<1> QED BY <1>11, <1>12

(* Rounding towards nothing and holding to a bound are odd.                  *)
LEMMA StepDivs ==
  ASSUME NEW a \in Int, NEW b \in Nat, b > 0
  PROVE  StepDiv(a, b) \in Int /\ StepDiv(-a, b) = -StepDiv(a, b)
<1>1. CASE a < 0
  <2>1. StepDiv(a, b) = -((-a) \div b) /\ StepDiv(-a, b) = (-a) \div b
    BY <1>1 DEF StepDiv
  <2>2. (-a) \div b \in Int
    BY <1>1
  <2> QED BY <2>1, <2>2
<1>2. CASE a = 0
  <2>1. StepDiv(a, b) = 0 /\ StepDiv(-a, b) = 0
    BY <1>2 DEF StepDiv
  <2> QED BY <2>1
<1>3. CASE a > 0
  <2>1. StepDiv(a, b) = a \div b /\ StepDiv(-a, b) = -((-(-a)) \div b)
    BY <1>3 DEF StepDiv
  <2>2. -(-a) = a /\ a \div b \in Int
    BY <1>3
  <2> QED BY <2>1, <2>2
<1> QED BY <1>1, <1>2, <1>3

(* Holding to a bound is odd.                                                *)
LEMMA StepClamps ==
  ASSUME NEW n \in Int, NEW m \in Nat
  PROVE  StepClamp(n, m) \in -m..m /\ StepClamp(-n, m) = -StepClamp(n, m)
BY DEF StepClamp

(* An arc bends as much to either side.                                      *)
LEMMA StepBendsEvenly ==
  ASSUME NEW yaw \in Int, NEW k \in 0..5
  PROVE  StepBends(yaw, k) \in Int /\ StepBends(-yaw, k) = -StepBends(yaw, k)
<1> DEFINE n == 57 * yaw * k * k
<1>1. n \in Int
  <2>1. 57 * yaw * k \in Int
    OBVIOUS
  <2> QED BY <2>1
<1>2. 57 * (-yaw) * k * k = -n
  <2>1. k = 0 \/ k = 1 \/ k = 2 \/ k = 3 \/ k = 4 \/ k = 5
    OBVIOUS
  <2> QED BY <2>1
<1>3. StepBends(yaw, k) = StepDiv(n, 4000) /\ StepBends(-yaw, k) = StepDiv(-n, 4000)
  BY <1>2 DEF StepBends
<1> HIDE DEF n
<1> QED BY <1>1, <1>3, StepDivs

-----------------------------------------------------------------------------
(* The map's ray to any side.                                                *)
LEMMA StepRaysTyped ==
  ASSUME NEW s, StepSound(s), NEW a \in StepSides
  PROVE  s.world.rays[a] \in Seq(StepKinds)
BY DEF StepSound, StepFloor

(* What a side shows: a length, or nothing.                                  *)
LEMMA StepSideSeenNat ==
  ASSUME NEW s, StepSound(s), NEW left \in BOOLEAN, NEW far \in BOOLEAN
  PROVE  StepSideSeen(s, left, far) \in Nat
<1> DEFINE seen == UNION {s.frames[k].drops \union s.frames[k].obstacles :
                            k \in {k \in DOMAIN s.frames : ~s.frames[k].moving}}
           sides == {t \in seen : /\ t.at[1] >= -10 /\ t.at[1] <= 40 /\ StepAbs(t.at[2]) >= 5
                                  /\ (t.at[2] >= 0) = left /\ (t.at[1] < 15) = ~far}
           T == {StepAbs(t.at[2]) : t \in sides}
<1>1. \A k \in DOMAIN s.frames : s.frames[k] \in StepSeen
  BY DEF StepSound
<1>2. seen \subseteq StepHoles \union StepBoxes
  <2>1. \A k \in DOMAIN s.frames : s.frames[k].drops \union s.frames[k].obstacles \subseteq StepHoles \union StepBoxes
    BY <1>1 DEF StepSeen
  <2> QED BY <2>1
<1>3. StepSideSeen(s, left, far) = IF sides = {} THEN 0 ELSE StepLeast(T)
  BY DEF StepSideSeen
<1>4. \A t \in sides : StepAbs(t.at[2]) \in Nat
  <2>1. ASSUME NEW t \in sides PROVE t.at[2] \in Int
    BY <1>2, StepThingsSeen
  <2> QED BY <2>1 DEF StepAbs
<1> HIDE DEF sides
<1>5. sides # {} => StepLeast(T) \in Nat
  <2>1. T \subseteq Nat
    BY <1>4
  <2>2. ASSUME sides # {} PROVE StepLeast(T) \in T
    <3>1. T # {}
      BY <2>2
    <3>2. Min(T) \in T /\ \A k \in T : Min(T) <= k
      BY <2>1, <3>1, LeastNatural
    <3> QED BY <3>2, StepLeastIs
  <2> QED BY <2>1, <2>2
<1> QED BY <1>3, <1>5

(* What a side of a passage is: two lengths.                                 *)
LEMMA StepSideNat ==
  ASSUME NEW s, StepSound(s), NEW left \in BOOLEAN
  PROVE  StepSide(s, left).near \in Nat /\ StepSide(s, left).far \in Nat
<1> DEFINE near == s.world.rays[IF left THEN "left" ELSE "right"]
           ahead == s.world.rays[IF left THEN "leftAhead" ELSE "rightAhead"]
           wall == IF s.known THEN StepWallAt(near) ELSE 0
           on == IF ~s.known THEN 0
                 ELSE StepElse(StepWallAt(ahead), IF StepSaysNothing(ahead) THEN wall ELSE 0)
           here == StepElse(StepSideSeen(s, left, FALSE), StepSideSeen(s, left, ~FALSE))
           there == StepElse(StepSideSeen(s, left, TRUE), StepSideSeen(s, left, ~TRUE))
<1>1. StepWallAt(near) \in Nat /\ StepWallAt(ahead) \in Nat
  <2>1. near \in Seq(StepKinds) /\ ahead \in Seq(StepKinds)
    <3>1. CASE left
      BY <3>1, StepRaysTyped DEF StepSides
    <3>2. CASE ~left
      BY <3>2, StepRaysTyped DEF StepSides
    <3> QED BY <3>1, <3>2
  <2> HIDE DEF near, ahead
  <2> QED BY <2>1, StepClearNat DEF StepWallAt
<1>2. wall \in Nat
  BY <1>1
<1>3. on \in Nat
  BY <1>1, <1>2 DEF StepElse
<1>4. here \in Nat /\ there \in Nat
  BY StepSideSeenNat DEF StepElse
<1>5. StepSide(s, left) = [near |-> StepNearer(wall, here), far |-> StepNearer(on, there)]
  BY DEF StepSide
<1> HIDE DEF wall, on, here, there
<1>6. StepNearer(wall, here) \in Nat /\ StepNearer(on, there) \in Nat
  BY <1>2, <1>3, <1>4 DEF StepNearer, StepMin
<1> QED BY <1>5, <1>6

StepFlat(side) == side.near \in Nat /\ side.far \in Nat

(* A passage, if there is one, and the same seen the other way about.        *)
StepMeets(here, there) ==
  \/ here = {} /\ there = {}
  \/ \E width, spare : \E yaw \in -50..50 :
       /\ here = {[width |-> width, yaw |-> yaw, spare |-> spare]}
       /\ there = {[width |-> width, yaw |-> -yaw, spare |-> spare]}

(* A passage is one, between two sides, and seen from the other way about it *)
(* steers as much to the other side and leaves as much room.                 *)
LEMMA StepPassageEven ==
  ASSUME NEW l, NEW r, StepFlat(l), StepFlat(r)
  PROVE  StepMeets(StepPassage(l, r), StepPassage(r, l))
<1> DEFINE skew(a, b) == StepDiv(StepSkew(a.far - a.near) - StepSkew(b.far - b.near), 2)
           width(a, b) == StepMin(a.near + b.near, a.far + b.far)
           yaw(a, b) == StepClamp(StepDiv(40 * (a.near - b.near), width(a, b)) + StepDiv(60 * skew(a, b), 100), 50)
           lefts(a, b) == [k \in 1..5 |-> a.near + StepDiv(k * (a.far - a.near), 5) - StepBends(yaw(a, b), k)]
           rights(a, b) == [k \in 1..5 |-> b.near + StepDiv(k * (b.far - b.near), 5) + StepBends(yaw(a, b), k)]
           spare(a, b) == StepMin(StepJudged(a.near, lefts(a, b)), StepJudged(b.near, rights(a, b))) - StepBand
           shut(a, b) == 0 \in {a.near, a.far, b.near, b.far} \/ width(a, b) > 120
           passage(a, b) == [width |-> width(a, b), yaw |-> yaw(a, b), spare |-> spare(a, b)]
<1>1. \A a, b : StepPassage(a, b) = IF shut(a, b) THEN {} ELSE {passage(a, b)}
  BY DEF StepPassage
<1>2. width(l, r) = width(r, l) /\ width(l, r) \in Nat
  BY DEF StepMin, StepFlat
<1>3. shut(l, r) <=> shut(r, l)
  BY <1>2
<1>4. CASE shut(l, r)
  <2> HIDE DEF shut
  <2> QED BY <1>1, <1>3, <1>4 DEF StepMeets
<1>5. CASE ~shut(l, r)
  <2>1. width(l, r) \in Nat /\ width(l, r) > 0
    BY <1>2, <1>5 DEF StepMin, StepFlat
  <2>2. skew(l, r) \in Int /\ skew(r, l) = -skew(l, r)
    <3> DEFINE x == StepSkew(l.far - l.near)
               y == StepSkew(r.far - r.near)
    <3>1. x \in Int /\ y \in Int
      <4>1. \A n \in Int : StepSkew(n) \in Int
        <5>1. \A n \in Int : 100 * n \in Int
          OBVIOUS
        <5>2. \A n \in Int : StepDiv(100 * n, 30) \in Int
          BY <5>1, StepDivs
        <5> QED BY <5>2, StepClamps DEF StepSkew
      <4> QED BY <4>1 DEF StepFlat
    <3> HIDE DEF x, y
    <3>2. y - x = -(x - y) /\ x - y \in Int
      BY <3>1
    <3>3. StepDiv(x - y, 2) \in Int /\ StepDiv(-(x - y), 2) = -StepDiv(x - y, 2)
      BY <3>2, StepDivs
    <3> QED BY <3>2, <3>3 DEF x, y
  <2>3. yaw(l, r) \in -50..50 /\ yaw(r, l) = -yaw(l, r)
    <3> DEFINE w == width(l, r)
               d == 40 * (l.near - r.near)
               e == 60 * skew(l, r)
    <3>1. d \in Int /\ e \in Int /\ w \in Nat /\ w > 0
      BY <2>1, <2>2 DEF StepFlat
    <3>2. 40 * (r.near - l.near) = -d
      BY DEF StepFlat
    <3>3. 60 * skew(r, l) = -e
      BY <2>2
    <3>4. yaw(r, l) = StepClamp(StepDiv(-d, w) + StepDiv(-e, 100), 50)
      BY <1>2, <3>2, <3>3
    <3>5. yaw(l, r) = StepClamp(StepDiv(d, w) + StepDiv(e, 100), 50)
      OBVIOUS
    <3> HIDE DEF yaw, d, e, w
    <3>6. /\ StepDiv(d, w) \in Int /\ StepDiv(-d, w) = -StepDiv(d, w)
          /\ StepDiv(e, 100) \in Int /\ StepDiv(-e, 100) = -StepDiv(e, 100)
      BY <3>1, StepDivs
    <3> DEFINE n == StepDiv(d, w) + StepDiv(e, 100)
    <3>7. n \in Int /\ StepDiv(-d, w) + StepDiv(-e, 100) = -n
      BY <3>6
    <3> HIDE DEF n
    <3>8. StepClamp(n, 50) \in -50..50 /\ StepClamp(-n, 50) = -StepClamp(n, 50)
      BY <3>7, StepClamps
    <3> QED BY <3>4, <3>5, <3>7, <3>8 DEF n
  <2> HIDE DEF yaw
  <2>4. lefts(r, l) = rights(l, r) /\ rights(r, l) = lefts(l, r)
    <3> HIDE DEF width, spare
    <3>1. ASSUME NEW k \in 1..5
          PROVE  /\ \A n \in Int, m \in Int : n + m - StepBends(yaw(r, l), k) = n + m + StepBends(yaw(l, r), k)
                 /\ \A n \in Int, m \in Int : n + m + StepBends(yaw(r, l), k) = n + m - StepBends(yaw(l, r), k)
      <4>1. k \in 0..5 /\ yaw(l, r) \in Int
        BY <2>3
      <4>2. StepBends(yaw(l, r), k) \in Int /\ StepBends(yaw(r, l), k) = -StepBends(yaw(l, r), k)
        BY <2>3, <4>1, StepBendsEvenly
      <4> QED BY <4>2
    <3>2. ASSUME NEW k \in 1..5
          PROVE  StepDiv(k * (l.far - l.near), 5) \in Int /\ StepDiv(k * (r.far - r.near), 5) \in Int
      <4>1. k * (l.far - l.near) \in Int /\ k * (r.far - r.near) \in Int
        BY DEF StepFlat
      <4> QED BY <4>1, StepDivs
    <3>3. ASSUME NEW k \in 1..5 PROVE lefts(r, l)[k] = rights(l, r)[k] /\ rights(r, l)[k] = lefts(l, r)[k]
      <4> DEFINE a == StepDiv(k * (l.far - l.near), 5)
                 b == StepDiv(k * (r.far - r.near), 5)
      <4>1. l.near \in Int /\ r.near \in Int
        BY DEF StepFlat
      <4>2. a \in Int /\ b \in Int
        BY <3>2
      <4>3. /\ lefts(r, l)[k] = r.near + b - StepBends(yaw(r, l), k)
            /\ rights(l, r)[k] = r.near + b + StepBends(yaw(l, r), k)
            /\ rights(r, l)[k] = l.near + a + StepBends(yaw(r, l), k)
            /\ lefts(l, r)[k] = l.near + a - StepBends(yaw(l, r), k)
        OBVIOUS
      <4> HIDE DEF lefts, rights, a, b
      <4> QED BY <3>1, <4>1, <4>2, <4>3
    <3> HIDE DEF yaw
    <3>4. DOMAIN lefts(r, l) = 1..5 /\ DOMAIN rights(l, r) = 1..5 /\ DOMAIN rights(r, l) = 1..5 /\ DOMAIN lefts(l, r) = 1..5
      OBVIOUS
    <3>5. /\ lefts(r, l) = [k \in 1..5 |-> lefts(r, l)[k]] /\ rights(l, r) = [k \in 1..5 |-> rights(l, r)[k]]
          /\ rights(r, l) = [k \in 1..5 |-> rights(r, l)[k]] /\ lefts(l, r) = [k \in 1..5 |-> lefts(l, r)[k]]
      OBVIOUS
    <3> HIDE DEF lefts, rights
    <3> QED BY <3>3, <3>5
  <2>5. spare(r, l) = spare(l, r)
    <3> DEFINE j == StepJudged(l.near, lefts(l, r))
               i == StepJudged(r.near, rights(l, r))
    <3>1. spare(r, l) = StepMin(i, j) - StepBand
      BY <2>4
    <3>2. spare(l, r) = StepMin(j, i) - StepBand
      OBVIOUS
    <3>3. i \in Int /\ j \in Int
      <4>1. ASSUME NEW start \in Int, NEW along \in [1..5 -> Int] PROVE StepJudged(start, along) \in Int
        <5> DEFINE T == {along[k] : k \in 1..5}
        <5>1. \E m \in T : \A x \in T : m <= x
          <6> DEFINE a == StepMin(StepMin(along[1], along[2]), StepMin(StepMin(along[3], along[4]), along[5]))
          <6>0. T = {along[1], along[2], along[3], along[4], along[5]}
            <7>1. 1..5 = {1, 2, 3, 4, 5}
              OBVIOUS
            <7> QED BY <7>1
          <6>0a. along[1] \in Int /\ along[2] \in Int /\ along[3] \in Int /\ along[4] \in Int /\ along[5] \in Int
            OBVIOUS
          <6> HIDE DEF T
          <6>1. a \in {along[1], along[2], along[3], along[4], along[5]} /\ a <= along[1] /\ a <= along[2] /\ a <= along[3]
                /\ a <= along[4] /\ a <= along[5]
            BY <6>0a DEF StepMin
          <6> HIDE DEF a
          <6> QED BY <6>0, <6>1
        <5>2. StepLeast(T) \in T
          BY <5>1, StepLeastIs
        <5>3. StepLeast(T) \in Int /\ along[5] \in Int
          BY <5>2
        <5>4. StepJudged(start, along) \in {start, along[5], StepLeast(T)}
          BY DEF StepJudged, StepMin
        <5> HIDE DEF T
        <5> QED BY <5>3, <5>4
      <4>2. lefts(l, r) \in [1..5 -> Int] /\ rights(l, r) \in [1..5 -> Int]
        <5>1. ASSUME NEW k \in 1..5
              PROVE  /\ l.near + StepDiv(k * (l.far - l.near), 5) - StepBends(yaw(l, r), k) \in Int
                     /\ r.near + StepDiv(k * (r.far - r.near), 5) + StepBends(yaw(l, r), k) \in Int
          <6>1. k * (l.far - l.near) \in Int /\ k * (r.far - r.near) \in Int /\ k \in 0..5 /\ yaw(l, r) \in Int
            BY <2>3 DEF StepFlat
          <6>2. StepDiv(k * (l.far - l.near), 5) \in Int /\ StepDiv(k * (r.far - r.near), 5) \in Int
            BY <6>1, StepDivs
          <6>3. StepBends(yaw(l, r), k) \in Int
            BY <6>1, StepBendsEvenly
          <6> QED BY <6>2, <6>3 DEF StepFlat
        <5> QED BY <5>1
      <4>3. l.near \in Int /\ r.near \in Int
        BY DEF StepFlat
      <4> HIDE DEF lefts, rights
      <4> QED BY <4>1, <4>2, <4>3
    <3> HIDE DEF i, j
    <3>4. StepMin(i, j) = StepMin(j, i)
      BY <3>3 DEF StepMin
    <3> QED BY <3>1, <3>2, <3>4
  <2>6. StepPassage(l, r) = {passage(l, r)} /\ StepPassage(r, l) = {passage(r, l)}
    <3> HIDE DEF passage, shut
    <3> QED BY <1>1, <1>3, <1>5
  <2>7. passage(r, l) = [width |-> width(l, r), yaw |-> -yaw(l, r), spare |-> spare(l, r)]
    BY <1>2, <2>3, <2>5
  <2> HIDE DEF width, spare, lefts, rights
  <2>8. \E w, sp : \E y \in -50..50 : /\ StepPassage(l, r) = {[width |-> w, yaw |-> y, spare |-> sp]}
                                     /\ StepPassage(r, l) = {[width |-> w, yaw |-> -y, spare |-> sp]}
    BY <2>3, <2>6, <2>7
  <2> QED BY <2>8 DEF StepMeets
<1> QED BY <1>4, <1>5

(* What a leg steered to the other side runs over lies on the other side.    *)
LEMMA StepRunsEven ==
  ASSUME NEW p, NEW q, p.yaw \in -100..100, q.yaw = -p.yaw, NEW walk \in 0..100
  PROVE  /\ \A x \in StepLegRuns(p, walk) : x[1] \in Int /\ x[2] \in Int
         /\ \A x \in StepLegRuns(p, walk) : <<x[1], -x[2]>> \in StepLegRuns(q, walk)
<1> DEFINE fifths == StepMin(5, walk \div 5)
           bends(y, k) == StepBends(y, fifths) + StepDiv(5 * k * y * fifths, 200)
           straight(y) == {<<6 * k, StepBends(y, k)>> : k \in 0..fifths}
           coasts(y) == {<<6 * fifths + 5 * k, bends(y, k)>> : k \in 1..3}
<1>1. fifths \in 0..5
  BY DEF StepMin
<1>2. StepLegRuns(p, walk) = straight(p.yaw) \union coasts(p.yaw) /\ StepLegRuns(q, walk) = straight(-p.yaw) \union coasts(-p.yaw)
  BY DEF StepLegRuns
<1> DEFINE y == p.yaw
<1>3. y \in Int
  OBVIOUS
<1> HIDE DEF y, fifths
<1>4. ASSUME NEW k \in 0..fifths PROVE StepBends(y, k) \in Int /\ StepBends(-y, k) = -StepBends(y, k) /\ 6 * k \in Int
  <2>1. k \in 0..5
    BY <1>1
  <2>2. StepBends(y, k) \in Int /\ StepBends(-y, k) = -StepBends(y, k)
    BY <1>3, <2>1, StepBendsEvenly
  <2>3. 6 * k \in Int
    BY <2>1
  <2> QED BY <2>2, <2>3
<1>5. ASSUME NEW k \in 1..3 PROVE bends(y, k) \in Int /\ bends(-y, k) = -bends(y, k) /\ 6 * fifths + 5 * k \in Int
  <2> DEFINE n == 5 * k * y * fifths
  <2>1. n \in Int /\ 5 * k * (-y) * fifths = -n
    <3>1. fifths = 0 \/ fifths = 1 \/ fifths = 2 \/ fifths = 3 \/ fifths = 4 \/ fifths = 5
      BY <1>1
    <3>2. k = 1 \/ k = 2 \/ k = 3
      OBVIOUS
    <3> QED BY <1>3, <3>1, <3>2
  <2>2. bends(y, k) = StepBends(y, fifths) + StepDiv(n, 200) /\ bends(-y, k) = StepBends(-y, fifths) + StepDiv(-n, 200)
    BY <2>1
  <2> HIDE DEF n
  <2>3. StepDiv(n, 200) \in Int /\ StepDiv(-n, 200) = -StepDiv(n, 200)
    <3> HIDE DEF bends, straight, coasts
    <3>1. 200 \in Nat /\ 200 > 0
      OBVIOUS
    <3>2. n \in Int
      BY <2>1
    <3> QED BY <3>1, <3>2, StepDivs
  <2>4. StepBends(y, fifths) \in Int /\ StepBends(-y, fifths) = -StepBends(y, fifths)
    BY <1>1, <1>3, StepBendsEvenly
  <2> HIDE DEF bends
  <2> QED BY <1>1, <2>2, <2>3, <2>4
<1> HIDE DEF bends
<1>6. \A x \in straight(y) : x[1] \in Int /\ x[2] \in Int /\ <<x[1], -x[2]>> \in straight(-y)
  BY <1>4
<1>7. \A x \in coasts(y) : x[1] \in Int /\ x[2] \in Int /\ <<x[1], -x[2]>> \in coasts(-y)
  BY <1>5
<1> HIDE DEF straight, coasts
<1> QED BY <1>2, <1>6, <1>7 DEF y

(* The mirrored thing is one as near, on the other side.                     *)
LEMMA StepFlipIs ==
  ASSUME NEW t \in StepHoles \union StepBoxes
  PROVE  LET f == StepFlip(t)
         IN  /\ f.at[1] = t.at[1] /\ f.at[2] = -t.at[2] /\ f.edge = t.edge /\ StepRange(f) = StepRange(t)
             /\ StepFlip(f) = t
             /\ (t \in StepHoles => f \in StepHoles) /\ (t \in StepBoxes => f \in StepBoxes)
<1> DEFINE f == StepFlip(t)
<1>1. PICK p \in StepSpots, e \in StepEdges \union {0} :
        /\ t = [at |-> p, edge |-> e]
        /\ (t \in StepHoles => e \in StepEdges /\ e <= StepRange(t)) /\ (t \in StepBoxes => e = 0)
  <2>1. CASE t \in StepHoles
    BY <2>1, StepThingsSeen DEF StepHoles, StepBoxes, StepThing
  <2>2. CASE t \notin StepHoles
    BY <2>2 DEF StepBoxes, StepThing
  <2> QED BY <2>1, <2>2
<1>2. PICK a \in StepAheads, b \in StepAsides \union {-n : n \in StepAsides} : p = <<a, b>>
  BY DEF StepSpots
<1>3. PICK n \in StepAsides : b = n \/ b = -n
  OBVIOUS
<1>4. a \in Nat /\ n \in Nat
  BY StepAssumption
<1>5. b \in Int /\ -b \in Int /\ -(-b) = b /\ (-b) * (-b) = b * b
  BY <1>3, <1>4
<1>6. -b \in StepAsides \union {-k : k \in StepAsides}
  <2>1. -b = n \/ -b = -n
    BY <1>3, <1>4
  <2> QED BY <2>1
<1>7. f = [at |-> <<a, -b>>, edge |-> e]
  BY <1>1, <1>2 DEF StepFlip
<1>8. f.at[1] = t.at[1] /\ f.at[2] = -t.at[2] /\ f.edge = t.edge
  BY <1>1, <1>2, <1>7
<1>9. StepRange(f) = StepRange(t)
  <2>1. t.at[1] = a /\ t.at[2] = b /\ f.at[1] = a /\ f.at[2] = -b
    BY <1>1, <1>2, <1>7
  <2> HIDE DEF f
  <2> QED BY <1>5, <2>1 DEF StepRange
<1>10. StepFlip(f) = t
  <2>1. t = [at |-> <<a, b>>, edge |-> e]
    BY <1>1, <1>2
  <2> HIDE DEF f
  <2>2. StepFlip(f) = [at |-> <<a, -(-b)>>, edge |-> e]
    BY <1>7 DEF StepFlip
  <2> QED BY <1>5, <2>1, <2>2
<1>11. <<a, -b>> \in StepSpots
  BY <1>6 DEF StepSpots
<1> HIDE DEF f
<1>12. t \in StepHoles => f \in StepHoles
  <2>1. ASSUME t \in StepHoles PROVE f \in StepHoles
    <3>1. e \in StepEdges /\ f.edge = e /\ e <= StepRange(f)
      BY <1>1, <1>7, <1>9, <2>1
    <3>2. f = StepThing(<<a, -b>>, e)
      BY <1>7 DEF StepThing
    <3> QED BY <1>11, <3>1, <3>2 DEF StepHoles
  <2> QED BY <2>1
<1>13. t \in StepBoxes => f \in StepBoxes
  BY <1>1, <1>7, <1>11 DEF StepBoxes, StepThing
<1> QED BY <1>8, <1>9, <1>10, <1>12, <1>13 DEF f

(* The mirrored state of what a plan rests on.                               *)
StepMirrors(m, s) ==
  /\ StepSound(m) /\ m.known = s.known
  /\ \A a \in StepSides : m.world.rays[a] = s.world.rays[StepOther(a)]
  /\ DOMAIN m.frames = DOMAIN s.frames
  /\ \A k \in DOMAIN s.frames :
       /\ m.frames[k].age = s.frames[k].age /\ m.frames[k].moving = s.frames[k].moving
       /\ m.frames[k].head = -s.frames[k].head
       /\ m.frames[k].drops = StepFlips(s.frames[k].drops)
       /\ m.frames[k].obstacles = StepFlips(s.frames[k].obstacles)

(* The mirrored frames are as fresh, and show the mirrored things.           *)
LEMMA StepFreshEven ==
  ASSUME NEW s, NEW m, StepMirrors(m, s)
  PROVE  /\ StepFresh(m) = StepFresh(s)
         /\ StepDrops(m) = StepFlips(StepDrops(s)) /\ StepObstacles(m) = StepFlips(StepObstacles(s))
<1>1. StepFresh(m) = StepFresh(s)
  BY DEF StepFresh, StepMirrors
<1>2. \A k \in StepFresh(s) : k \in DOMAIN s.frames
  BY DEF StepFresh
<1>3. StepDrops(m) = StepFlips(StepDrops(s))
  BY <1>1, <1>2 DEF StepDrops, StepFlips, StepMirrors
<1>4. StepObstacles(m) = StepFlips(StepObstacles(s))
  BY <1>1, <1>2 DEF StepObstacles, StepFlips, StepMirrors
<1> QED BY <1>1, <1>3, <1>4

(* A thing is in the lane when the mirrored one is in the mirrored lane.     *)
LEMMA StepLaneEven ==
  ASSUME NEW t \in StepHoles \union StepBoxes, NEW h1 \in Int, NEW h2 \in Int, NEW half \in Int
  PROVE  StepInLane(StepFlip(t), <<h1, -h2>>, half) <=> StepInLane(t, <<h1, h2>>, half)
<1> DEFINE x == t.at[1]
           y == t.at[2]
<1>1. x \in Int /\ y \in Int /\ StepFlip(t).at[1] = x /\ StepFlip(t).at[2] = -y
  BY StepThingsSeen, StepFlipIs
<1> DEFINE along == x * h1 + y * h2
           across == y * h1 - x * h2
<1>2. StepInLane(t, <<h1, h2>>, half) <=> along > 0 /\ StepAbs(across) <= 100 * half
  BY DEF StepInLane
<1>3. StepInLane(StepFlip(t), <<h1, -h2>>, half) <=> x * h1 + (-y) * (-h2) > 0 /\ StepAbs((-y) * h1 - x * (-h2)) <= 100 * half
  BY <1>1 DEF StepInLane
<1> HIDE DEF x, y
<1>4. x * h1 + (-y) * (-h2) = along
  <2>1. (-y) * (-h2) = y * h2
    BY <1>1
  <2> QED BY <2>1
<1>5. (-y) * h1 - x * (-h2) = -across /\ across \in Int
  <2>1. (-y) * h1 = -(y * h1) /\ x * (-h2) = -(x * h2) /\ y * h1 \in Int /\ x * h2 \in Int
    BY <1>1
  <2> QED BY <2>1
<1>6. StepAbs(-across) = StepAbs(across)
  <2> HIDE DEF across
  <2> QED BY <1>5 DEF StepAbs
<1> QED BY <1>2, <1>3, <1>4, <1>5, <1>6

(* The nearest in the mirrored lane is as far; and it is the mirrored one,   *)
(* when no other is as far.                                                  *)
LEMMA StepNearestEven ==
  ASSUME NEW things, things \subseteq StepHoles \union StepBoxes,
         NEW h1 \in Int, NEW h2 \in Int, NEW g2 \in Int, g2 + h2 = 0, NEW half \in Int
  PROVE  LET near == StepNearest(things, <<h1, h2>>, half)
             other == StepNearest(StepFlips(things), <<h1, g2>>, half)
         IN  /\ {StepRange(o) : o \in other} = {StepRange(o) : o \in near}
             /\ (\A t \in things, u \in things : StepRange(u) = StepRange(t) => u = t) => other = StepFlips(near)
<1> DEFINE h == <<h1, h2>>
           g == <<h1, g2>>
           near == StepNearest(things, h, half)
           other == StepNearest(StepFlips(things), g, half)
           lane == {t \in things : StepInLane(t, h, half)}
           back == {t \in StepFlips(things) : StepInLane(t, g, half)}
           T == StepHoles \union StepBoxes
<1>1. StepFlips(things) \subseteq T
  BY StepFlipIs DEF StepFlips
<1>2. back = {StepFlip(t) : t \in lane}
  <2>1. \A t \in things : StepInLane(StepFlip(t), g, half) <=> StepInLane(t, h, half)
    <3>1. g2 = -h2
      OBVIOUS
    <3> QED BY <3>1, StepLaneEven
  <2> HIDE DEF h, g
  <2> QED BY <2>1 DEF StepFlips
<1>3. \/ lane = {} /\ near = {}
      \/ \E t \in lane : near = {t} /\ \A o \in lane : StepRange(t) <= StepRange(o)
  <2> HIDE DEF h
  <2> QED BY StepNearestIs
<1>4. \/ back = {} /\ other = {}
      \/ \E t \in back : other = {t} /\ \A o \in back : StepRange(t) <= StepRange(o)
  <2> HIDE DEF g
  <2> QED BY <1>1, StepNearestIs
<1>5. \A t \in lane : t \in T /\ t \in things /\ StepRange(t) \in Int /\ StepRange(StepFlip(t)) = StepRange(t)
  <2>1. \A t \in lane : t \in T /\ t \in things
    OBVIOUS
  <2> HIDE DEF lane
  <2> QED BY <2>1, StepThingsSeen, StepFlipIs
<1> HIDE DEF lane, back, near, other
<1>6. CASE lane = {}
  <2>1. back = {}
    BY <1>2, <1>6
  <2>2. near = {} /\ other = {}
    BY <1>3, <1>4, <1>6, <2>1
  <2> QED BY <2>2 DEF near, other, StepFlips
<1>7. CASE lane # {}
  <2>1. PICK t \in lane : near = {t} /\ \A o \in lane : StepRange(t) <= StepRange(o)
    BY <1>3, <1>7
  <2>2. PICK f \in back : other = {f} /\ \A o \in back : StepRange(f) <= StepRange(o)
    BY <1>2, <1>4, <1>7
  <2>3. PICK u \in lane : f = StepFlip(u)
    BY <1>2, <2>2
  <2>4. StepFlip(t) \in back
    BY <1>2
  <2>5. StepRange(u) = StepRange(t) /\ StepRange(f) = StepRange(t)
    BY <1>5, <2>1, <2>2, <2>3, <2>4
  <2>6. {StepRange(o) : o \in other} = {StepRange(o) : o \in near}
    BY <2>1, <2>2, <2>5
  <2>7. ASSUME \A a \in things, b \in things : StepRange(b) = StepRange(a) => b = a PROVE other = StepFlips(near)
    <3>1. u = t
      BY <1>5, <2>5, <2>7
    <3> QED BY <2>1, <2>2, <2>3, <3>1 DEF StepFlips
  <2> QED BY <2>6, <2>7 DEF near, other
<1> QED BY <1>6, <1>7

(* What is beside the leg is beside it in the mirror.                        *)
LEMMA StepBesideEven ==
  ASSUME NEW t \in StepHoles \union StepBoxes
  PROVE  StepBeside(StepFlip(t)) <=> StepBeside(t)
BY StepThingsSeen, StepFlipIs DEF StepBeside, StepAbs

StepTurned(ask) == [ask EXCEPT !.yaw = -@]

(* The mirrored leg is asked for as the leg is.                              *)
LEMMA StepTurnedIs ==
  ASSUME NEW ask \in StepForward
  PROVE  LET o == StepTurned(ask)
         IN  /\ o.walk = ask.walk /\ o.vx = ask.vx /\ o.yaw = -ask.yaw /\ o.gap = ask.gap /\ o.passage = ask.passage
             /\ o.alone = ask.alone /\ o.centre = ask.centre /\ o \in StepForward
             /\ StepAbs(o.yaw) = StepAbs(ask.yaw)
<1> DEFINE o == StepTurned(ask)
<1>1. /\ o.walk = ask.walk /\ o.vx = ask.vx /\ o.yaw = -ask.yaw /\ o.gap = ask.gap /\ o.passage = ask.passage
      /\ o.alone = ask.alone /\ o.centre = ask.centre /\ o \in StepForward
  BY DEF StepTurned, StepForward
<1>2. StepAbs(-ask.yaw) = StepAbs(ask.yaw)
  BY DEF StepAbs, StepForward
<1> HIDE DEF o
<1> QED BY <1>1, <1>2 DEF o

(* The plan's looks to a side are those to the other in the mirror.          *)
LEMMA StepSideSeenEven ==
  ASSUME NEW s, StepSound(s), NEW m, StepMirrors(m, s), NEW left \in BOOLEAN, NEW far \in BOOLEAN
  PROVE  StepSideSeen(m, left, far) = StepSideSeen(s, ~left, far)
<1> DEFINE still == {k \in DOMAIN s.frames : ~s.frames[k].moving}
           seen(r) == UNION {r.frames[k].drops \union r.frames[k].obstacles :
                               k \in {k \in DOMAIN r.frames : ~r.frames[k].moving}}
           beside(t, l) == /\ t.at[1] >= -10 /\ t.at[1] <= 40 /\ StepAbs(t.at[2]) >= 5
                           /\ (t.at[2] >= 0) = l /\ (t.at[1] < 15) = ~far
           sides(r, l) == {t \in seen(r) : beside(t, l)}
           T(r, l) == {StepAbs(t.at[2]) : t \in sides(r, l)}
<1>1. \A r, l : StepSideSeen(r, l, far) = IF sides(r, l) = {} THEN 0 ELSE StepLeast(T(r, l))
  BY DEF StepSideSeen
<1>2. seen(m) = StepFlips(seen(s))
  <2>1. {k \in DOMAIN m.frames : ~m.frames[k].moving} = still
    BY DEF StepMirrors
  <2>2. \A k \in still : m.frames[k].drops \union m.frames[k].obstacles
                           = StepFlips(s.frames[k].drops \union s.frames[k].obstacles)
    BY DEF StepMirrors, StepFlips
  <2>3. seen(m) = UNION {StepFlips(s.frames[k].drops \union s.frames[k].obstacles) : k \in still}
    <3> HIDE DEF still
    <3> QED BY <2>1, <2>2
  <2> HIDE DEF still
  <2>4. seen(s) = UNION {s.frames[k].drops \union s.frames[k].obstacles : k \in still}
    BY DEF still
  <2> HIDE DEF seen
  <2> QED BY <2>3, <2>4 DEF StepFlips
<1>3. seen(s) \subseteq StepHoles \union StepBoxes
  <2>1. \A k \in DOMAIN s.frames : s.frames[k] \in StepSeen
    BY DEF StepSound
  <2>2. \A k \in DOMAIN s.frames : s.frames[k].drops \union s.frames[k].obstacles \subseteq StepHoles \union StepBoxes
    BY <2>1 DEF StepSeen
  <2> QED BY <2>2
<1>4. ASSUME NEW t \in StepHoles \union StepBoxes
      PROVE  beside(StepFlip(t), left) <=> beside(t, ~left)
  <2>1. t.at[2] \in Int /\ StepFlip(t).at[1] = t.at[1] /\ StepFlip(t).at[2] = -t.at[2]
    BY StepThingsSeen, StepFlipIs
  <2>2. StepAbs(-t.at[2]) = StepAbs(t.at[2])
    BY <2>1 DEF StepAbs
  <2>3. StepAbs(t.at[2]) >= 5 => ((-t.at[2] >= 0) = left <=> (t.at[2] >= 0) = ~left)
    <3>1. StepAbs(t.at[2]) >= 5 => t.at[2] # 0
      BY <2>1 DEF StepAbs
    <3>2. t.at[2] # 0 => (-t.at[2] >= 0 <=> ~(t.at[2] >= 0))
      BY <2>1
    <3> QED BY <3>1, <3>2
  <2>4. /\ StepFlip(t).at[1] >= -10 <=> t.at[1] >= -10
        /\ StepFlip(t).at[1] <= 40 <=> t.at[1] <= 40
        /\ StepAbs(StepFlip(t).at[2]) >= 5 <=> StepAbs(t.at[2]) >= 5
        /\ (StepFlip(t).at[1] < 15) = ~far <=> (t.at[1] < 15) = ~far
    BY <2>1, <2>2
  <2>5. (StepFlip(t).at[2] >= 0) = left <=> (-t.at[2] >= 0) = left
    BY <2>1
  <2> QED BY <2>3, <2>4, <2>5
<1>5. \A t \in StepHoles \union StepBoxes : StepAbs(StepFlip(t).at[2]) = StepAbs(t.at[2])
  <2> TAKE t \in StepHoles \union StepBoxes
  <2>1. t.at[2] \in Int /\ StepFlip(t).at[2] = -t.at[2]
    BY StepThingsSeen, StepFlipIs
  <2> QED BY <2>1 DEF StepAbs
<1> HIDE DEF seen, beside
<1>6. sides(m, left) = {StepFlip(t) : t \in sides(s, ~left)}
  BY <1>2, <1>3, <1>4 DEF StepFlips
<1>7. T(m, left) = T(s, ~left)
  <2>1. \A t \in sides(s, ~left) : StepAbs(StepFlip(t).at[2]) = StepAbs(t.at[2])
    BY <1>3, <1>5
  <2> HIDE DEF sides
  <2> QED BY <1>6, <2>1
<1>8. sides(m, left) = {} <=> sides(s, ~left) = {}
  <2> HIDE DEF sides
  <2> QED BY <1>6
<1> HIDE DEF sides, T
<1> QED BY <1>1, <1>7, <1>8

(* The mirrored ray is the other side's.                                     *)
LEMMA StepRaysEven ==
  ASSUME NEW s, NEW m, StepMirrors(m, s)
  PROVE  /\ m.world.rays["ahead"] = s.world.rays["ahead"] /\ m.world.rays["behind"] = s.world.rays["behind"]
         /\ m.world.rays["left"] = s.world.rays["right"] /\ m.world.rays["right"] = s.world.rays["left"]
         /\ m.world.rays["leftAhead"] = s.world.rays["rightAhead"]
         /\ m.world.rays["rightAhead"] = s.world.rays["leftAhead"]
BY DEF StepMirrors, StepSides, StepOther

(* The mirrored side is the other one.                                       *)
LEMMA StepSideEven ==
  ASSUME NEW s, StepSound(s), NEW m, StepMirrors(m, s), NEW left \in BOOLEAN
  PROVE  StepSide(m, left) = StepSide(s, ~left)
<1>1. StepSideSeen(m, left, TRUE) = StepSideSeen(s, ~left, TRUE) /\ StepSideSeen(m, left, FALSE) = StepSideSeen(s, ~left, FALSE)
  BY StepSideSeenEven
<1>2. m.known = s.known
  BY DEF StepMirrors
<1>3. m.world.rays[IF left THEN "left" ELSE "right"] = s.world.rays[IF ~left THEN "left" ELSE "right"]
  BY StepRaysEven
<1>4. m.world.rays[IF left THEN "leftAhead" ELSE "rightAhead"] = s.world.rays[IF ~left THEN "leftAhead" ELSE "rightAhead"]
  BY StepRaysEven
<1> DEFINE
      on(known, near, ahead) == IF ~known THEN 0
            ELSE StepElse(StepWallAt(ahead), IF StepSaysNothing(ahead) THEN IF known THEN StepWallAt(near) ELSE 0 ELSE 0)
      side(known, near, ahead, here, there) ==
        [near |-> StepNearer(IF known THEN StepWallAt(near) ELSE 0, StepElse(here, there)),
         far |-> StepNearer(on(known, near, ahead), StepElse(there, here))]
<1>5. ASSUME NEW r, NEW l
      PROVE  StepSide(r, l) = side(r.known, r.world.rays[IF l THEN "left" ELSE "right"],
                                   r.world.rays[IF l THEN "leftAhead" ELSE "rightAhead"],
                                   StepSideSeen(r, l, FALSE), StepSideSeen(r, l, TRUE))
  BY DEF StepSide
<1> HIDE DEF side
<1>6. /\ StepSide(m, left) = side(m.known, m.world.rays[IF left THEN "left" ELSE "right"],
                                   m.world.rays[IF left THEN "leftAhead" ELSE "rightAhead"],
                                   StepSideSeen(m, left, FALSE), StepSideSeen(m, left, TRUE))
      /\ StepSide(s, ~left) = side(s.known, s.world.rays[IF ~left THEN "left" ELSE "right"],
                                   s.world.rays[IF ~left THEN "leftAhead" ELSE "rightAhead"],
                                   StepSideSeen(s, ~left, FALSE), StepSideSeen(s, ~left, TRUE))
  BY <1>5
<1> QED BY <1>1, <1>2, <1>3, <1>4, <1>6

(* The passage as it is met, and as the mirrored leg meets it.               *)
LEMMA StepPassageHereEven ==
  ASSUME NEW s, StepSound(s), NEW m, StepMirrors(m, s), NEW ask \in StepForward
  PROVE  StepMeets(StepPassageHere(s, ask), StepPassageHere(m, StepTurned(ask)))
<1> DEFINE l == StepSide(s, TRUE)
           r == StepSide(s, FALSE)
           o == StepTurned(ask)
           meets(a) == a.walk > 0 /\ a.vx > 0 /\ StepAbs(a.yaw) < 60
<1>1. StepSide(m, TRUE) = r /\ StepSide(m, FALSE) = l
  <2>1. StepSide(m, TRUE) = StepSide(s, ~TRUE) /\ StepSide(m, FALSE) = StepSide(s, ~FALSE)
    BY StepSideEven
  <2> QED BY <2>1
<1>2. StepFlat(l) /\ StepFlat(r)
  BY StepSideNat DEF StepFlat
<1>3. meets(o) <=> meets(ask)
  BY StepTurnedIs
<1>4. StepPassageHere(s, ask) = IF meets(ask) THEN StepPassage(l, r) ELSE {}
  BY DEF StepPassageHere
<1>5. StepPassageHere(m, o) = IF meets(o) THEN StepPassage(r, l) ELSE {}
  BY <1>1 DEF StepPassageHere
<1> HIDE DEF l, r, meets
<1>6. CASE ~meets(ask)
  BY <1>3, <1>4, <1>5, <1>6 DEF StepMeets
<1>7. CASE meets(ask)
  <2>1. StepPassageHere(s, ask) = StepPassage(l, r) /\ StepPassageHere(m, o) = StepPassage(r, l)
    BY <1>3, <1>4, <1>5, <1>7
  <2>2. StepMeets(StepPassage(l, r), StepPassage(r, l))
    BY <1>2, StepPassageEven
  <2> QED BY <2>1, <2>2
<1> QED BY <1>6, <1>7

(* What steers a leg of the caller's with a wall to either side.             *)
StepHugs(c) == c.by = "wall" /\ c.free < 20
StepBent(ask, add) == StepClamp(ask.yaw + add, 100)
StepWalled(l, r, ask) ==
  LET off == l.free - r.free
      span == IF l.free + r.free < 30 THEN 30 ELSE l.free + r.free
  IN  IF l.by = "wall" /\ r.by = "wall" /\ l.free + r.free < 120 /\ ask.centre
      THEN IF StepAbs(off) > 5 THEN [yaw |-> StepBent(ask, StepClamp(StepDiv(50 * off, span), 35)), by |-> "wall"]
           ELSE [yaw |-> ask.yaw, by |-> "none"]
      ELSE IF StepHugs(l) /\ ~(StepHugs(r) /\ r.free <= l.free) THEN [yaw |-> StepBent(ask, -35), by |-> "wall"]
      ELSE IF StepHugs(r) THEN [yaw |-> StepBent(ask, 35), by |-> "wall"]
      ELSE [yaw |-> ask.yaw, by |-> "none"]

(* What steers a leg: the passage, or the walls.                             *)
LEMMA StepSteersIs ==
  ASSUME NEW s, NEW ask, NEW passages
  PROVE  StepSteers(s, ask, passages) =
           IF ask.alone THEN [yaw |-> ask.yaw, by |-> "none"]
           ELSE IF passages # {} THEN [yaw |-> (CHOOSE p \in passages : TRUE).yaw, by |-> "passage"]
           ELSE IF ~(ask.walk > 0 /\ ask.vx > 0 /\ s.known) \/ StepAbs(ask.yaw) >= 60
           THEN [yaw |-> ask.yaw, by |-> "none"]
           ELSE StepWalled(StepClear(s.world.rays["left"], 300), StepClear(s.world.rays["right"], 300), ask)
BY DEF StepSteers, StepWalled, StepHugs, StepBent

StepClearings == [free : Nat, by : StepKinds \union {"edge", "open"}]
StepSteerings == [yaw : -100..100, by : {"none", "passage", "wall"}]

(* A wall bends the mirrored leg as much, to the other side.                 *)
LEMMA StepBentEven ==
  ASSUME NEW ask \in StepForward, NEW add \in Int
  PROVE  StepBent(ask, add) \in -100..100 /\ StepBent(StepTurned(ask), -add) = -StepBent(ask, add)
<1> DEFINE n == ask.yaw + add
<1>1. n \in Int /\ StepTurned(ask).yaw + (-add) = -n
  <2>1. ask.yaw \in Int /\ StepTurned(ask).yaw = -ask.yaw
    BY StepTurnedIs DEF StepForward
  <2> QED BY <2>1
<1> HIDE DEF n
<1>2. StepClamp(n, 100) \in -100..100 /\ StepClamp(-n, 100) = -StepClamp(n, 100)
  BY <1>1, StepClamps
<1> QED BY <1>1, <1>2 DEF StepBent, n

(* So do two walls, but where the two are as clear.                          *)
LEMMA StepWalledEven ==
  ASSUME NEW l \in StepClearings, NEW r \in StepClearings, NEW ask \in StepForward
  PROVE  /\ StepWalled(l, r, ask) \in [yaw : -100..100, by : {"none", "wall"}]
         /\ (l # r => StepWalled(r, l, StepTurned(ask)) = [yaw |-> -StepWalled(l, r, ask).yaw, by |-> StepWalled(l, r, ask).by])
<1> DEFINE o == StepTurned(ask)
           off == l.free - r.free
           fro == r.free - l.free
           span == IF l.free + r.free < 30 THEN 30 ELSE l.free + r.free
           naps == IF r.free + l.free < 30 THEN 30 ELSE r.free + l.free
           add == StepClamp(StepDiv(50 * off, span), 35)
           dda == StepClamp(StepDiv(50 * fro, naps), 35)
           centred == l.by = "wall" /\ r.by = "wall" /\ l.free + r.free < 120 /\ ask.centre
           dertnec == r.by = "wall" /\ l.by = "wall" /\ r.free + l.free < 120 /\ o.centre
           none == [yaw |-> ask.yaw, by |-> "none"]
           onen == [yaw |-> o.yaw, by |-> "none"]
           bent(a, n) == [yaw |-> StepBent(a, n), by |-> "wall"]
           peels(a, b) == StepHugs(a) /\ ~(StepHugs(b) /\ b.free <= a.free)
<1>1. l.free \in Nat /\ r.free \in Nat
  BY DEF StepClearings
<1>2. off \in Int /\ fro = -off /\ span \in Nat /\ span > 0 /\ naps = span
  BY <1>1
<1>3. (centred <=> dertnec) /\ (StepAbs(off) > 5 <=> StepAbs(fro) > 5)
  <2>1. o.centre = ask.centre
    BY StepTurnedIs
  <2>2. StepAbs(off) = StepAbs(fro)
    BY <1>2 DEF StepAbs
  <2>3. l.free + r.free = r.free + l.free
    BY <1>1
  <2> QED BY <2>1, <2>2, <2>3
<1>4. add \in Int /\ dda = -add
  <2> DEFINE n == 50 * off
  <2>1. n \in Int /\ 50 * fro = -n
    BY <1>2
  <2> HIDE DEF n, span
  <2>2. StepDiv(n, span) \in Int /\ StepDiv(-n, span) = -StepDiv(n, span)
    BY <1>2, <2>1, StepDivs
  <2> DEFINE d == StepDiv(n, span)
  <2>3. dda = StepClamp(-d, 35) /\ add = StepClamp(d, 35)
    BY <1>2, <2>1, <2>2 DEF n
  <2> HIDE DEF d, add, dda
  <2>4. StepClamp(d, 35) \in -35..35 /\ StepClamp(-d, 35) = -StepClamp(d, 35)
    BY <2>2, StepClamps DEF d
  <2> QED BY <2>3, <2>4
<1>5. StepWalled(l, r, ask) = IF centred THEN IF StepAbs(off) > 5 THEN bent(ask, add) ELSE none
                              ELSE IF peels(l, r) THEN bent(ask, -35) ELSE IF StepHugs(r) THEN bent(ask, 35) ELSE none
  BY DEF StepWalled
<1>6. StepWalled(r, l, o) = IF dertnec THEN IF StepAbs(fro) > 5 THEN bent(o, dda) ELSE onen
                            ELSE IF peels(r, l) THEN bent(o, -35) ELSE IF StepHugs(l) THEN bent(o, 35) ELSE onen
  BY DEF StepWalled
<1>7. ask.yaw \in -100..100 /\ o.yaw = -ask.yaw
  BY StepTurnedIs DEF StepForward
<1> DEFINE even(a, b) == a \in [yaw : -100..100, by : {"none", "wall"}] /\ (l # r => b = [yaw |-> -a.yaw, by |-> a.by])
<1> HIDE DEF off, fro, span, naps, o, centred, dertnec, add, dda
<1>8. even(none, onen)
  BY <1>7
<1>9. \A n \in Int : even(bent(ask, n), bent(o, -n))
  BY StepBentEven DEF o
<1>10. even(bent(ask, -35), bent(o, 35)) /\ even(bent(ask, 35), bent(o, -35))
  <2> HIDE DEF even, bent
  <2>1. \A n \in Int, k \in Int : n + k = 0 => even(bent(ask, n), bent(o, k))
    <3> TAKE n \in Int, k \in Int
    <3> HAVE n + k = 0
    <3>1. k = -n
      OBVIOUS
    <3> QED BY <1>9, <3>1
  <2> QED BY <2>1
<1>11. l # r => (peels(l, r) <=> ~peels(r, l)) \/ (~StepHugs(l) /\ ~StepHugs(r))
  <2>1. (StepHugs(l) /\ StepHugs(r)) => (l.free = r.free => l = r)
    BY DEF StepHugs, StepClearings
  <2> QED BY <1>1, <2>1
<1>12. (peels(l, r) => StepHugs(l)) /\ (peels(r, l) => StepHugs(r))
  OBVIOUS
<1>13. (StepHugs(l) /\ ~peels(l, r)) => StepHugs(r)
  OBVIOUS
<1>14. (StepHugs(r) /\ ~peels(r, l)) => StepHugs(l)
  OBVIOUS
<1>15. CASE centred
  <2>1. CASE StepAbs(off) > 5
    <3>1. StepWalled(l, r, ask) = bent(ask, add) /\ StepWalled(r, l, o) = bent(o, -add)
      BY <1>3, <1>4, <1>5, <1>6, <1>15, <2>1
    <3>2. even(bent(ask, add), bent(o, -add))
      BY <1>4, <1>9
    <3> QED BY <3>1, <3>2 DEF o
  <2>2. CASE ~(StepAbs(off) > 5)
    <3>1. StepWalled(l, r, ask) = none /\ StepWalled(r, l, o) = onen
      BY <1>3, <1>5, <1>6, <1>15, <2>2
    <3> QED BY <1>8, <3>1 DEF o
  <2> QED BY <2>1, <2>2
<1>16. CASE ~centred
  <2> DEFINE a == StepWalled(l, r, ask)
             b == StepWalled(r, l, o)
  <2>1. a = (IF peels(l, r) THEN bent(ask, -35) ELSE IF StepHugs(r) THEN bent(ask, 35) ELSE none)
    BY <1>5, <1>16
  <2>2. b = (IF peels(r, l) THEN bent(o, -35) ELSE IF StepHugs(l) THEN bent(o, 35) ELSE onen)
    BY <1>3, <1>6, <1>16
  <2>3. a \in [yaw : -100..100, by : {"none", "wall"}]
    BY <1>8, <1>10, <2>1
  <2>4. ASSUME l # r PROVE b = [yaw |-> -a.yaw, by |-> a.by]
    <3> HIDE DEF peels, bent, none, onen, even, a, b
    <3>1. CASE peels(l, r)
      <4>1. ~peels(r, l) /\ StepHugs(l)
        BY <1>11, <1>12, <2>4, <3>1
      <4>2. a = bent(ask, -35) /\ b = bent(o, 35)
        BY <2>1, <2>2, <3>1, <4>1
      <4> QED BY <1>10, <2>4, <4>2 DEF even
    <3>2. CASE ~peels(l, r) /\ StepHugs(r)
      <4>1. peels(r, l)
        BY <1>11, <2>4, <3>2
      <4>2. a = bent(ask, 35) /\ b = bent(o, -35)
        BY <2>1, <2>2, <3>2, <4>1
      <4> QED BY <1>10, <2>4, <4>2 DEF even
    <3>3. CASE ~peels(l, r) /\ ~StepHugs(r)
      <4>1. ~peels(r, l) /\ ~StepHugs(l)
        BY <1>12, <1>13, <3>3
      <4>2. a = none /\ b = onen
        BY <2>1, <2>2, <3>3, <4>1
      <4> QED BY <1>8, <2>4, <4>2 DEF even
    <3> QED BY <3>1, <3>2, <3>3
  <2> HIDE DEF a, b
  <2>5. (l # r => b = [yaw |-> -a.yaw, by |-> a.by])
    BY <2>4
  <2> QED BY <2>3, <2>5 DEF a, b, o
<1> QED BY <1>15, <1>16

(* The two sides of a leg.                                                   *)
LEMMA StepSidesClear ==
  ASSUME NEW s, StepSound(s)
  PROVE  StepClear(s.world.rays["left"], 300) \in StepClearings /\ StepClear(s.world.rays["right"], 300) \in StepClearings
<1>1. s.world.rays["left"] \in Seq(StepKinds) /\ s.world.rays["right"] \in Seq(StepKinds)
  BY StepRaysTyped DEF StepSides
<1>2. \A ray \in Seq(StepKinds) : StepClear(ray, 300) \in StepClearings
  BY StepClearNat DEF StepClearings
<1> QED BY <1>1, <1>2

(* What the passage steers by.                                               *)
LEMMA StepMeetsYaw ==
  ASSUME NEW here, NEW there, StepMeets(here, there)
  PROVE  LET yaws(passages) == (CHOOSE p \in passages : TRUE).yaw
         IN  (here = {} <=> there = {}) /\ (here # {} => yaws(here) \in -50..50 /\ yaws(there) = -yaws(here))
<1> DEFINE yaws(passages) == (CHOOSE p \in passages : TRUE).yaw
<1>1. CASE here = {}
  <2>1. there = {}
    BY <1>1 DEF StepMeets
  <2> QED BY <1>1, <2>1
<1>2. CASE here # {}
  <2>1. PICK width, spare : \E yaw \in -50..50 :
          /\ here = {[width |-> width, yaw |-> yaw, spare |-> spare]}
          /\ there = {[width |-> width, yaw |-> -yaw, spare |-> spare]}
    BY <1>2 DEF StepMeets
  <2>2. PICK yaw \in -50..50 : /\ here = {[width |-> width, yaw |-> yaw, spare |-> spare]}
                              /\ there = {[width |-> width, yaw |-> -yaw, spare |-> spare]}
    BY <2>1
  <2>3. \A p : (CHOOSE q \in {p} : TRUE) = p
    OBVIOUS
  <2>4. yaws(here) = yaw /\ yaws(there) = -yaw
    <3> DEFINE p == [width |-> width, yaw |-> yaw, spare |-> spare]
               q == [width |-> width, yaw |-> -yaw, spare |-> spare]
    <3>1. p.yaw = yaw /\ q.yaw = -yaw
      OBVIOUS
    <3>2. here = {p} /\ there = {q}
      BY <2>2
    <3> HIDE DEF p, q
    <3>3. (CHOOSE x \in here : TRUE) = p /\ (CHOOSE x \in there : TRUE) = q
      BY <2>3, <3>2
    <3> QED BY <3>1, <3>3
  <2> QED BY <1>2, <2>2, <2>4
<1> QED BY <1>1, <1>2

(* What steers a leg holds it to the bounds.                                 *)
LEMMA StepSteersTyped ==
  ASSUME NEW s, StepSound(s), NEW ask \in StepForward, NEW here, NEW there, StepMeets(here, there)
  PROVE  StepSteers(s, ask, here) \in StepSteerings
<1> DEFINE l == StepClear(s.world.rays["left"], 300)
           r == StepClear(s.world.rays["right"], 300)
           yaws(passages) == (CHOOSE p \in passages : TRUE).yaw
           own(a) == ~(a.walk > 0 /\ a.vx > 0 /\ s.known) \/ StepAbs(a.yaw) >= 60
<1>1. l \in StepClearings /\ r \in StepClearings
  BY StepSidesClear
<1>2. ask.yaw \in -100..100
  BY DEF StepForward
<1>3. StepSteers(s, ask, here) = IF ask.alone THEN [yaw |-> ask.yaw, by |-> "none"]
           ELSE IF here # {} THEN [yaw |-> yaws(here), by |-> "passage"]
           ELSE IF own(ask) THEN [yaw |-> ask.yaw, by |-> "none"] ELSE StepWalled(l, r, ask)
  BY StepSteersIs
<1>4. here # {} => yaws(here) \in -50..50
  BY StepMeetsYaw
<1>5. StepWalled(l, r, ask) \in [yaw : -100..100, by : {"none", "wall"}]
  <2> HIDE DEF l, r
  <2> QED BY <1>1, StepWalledEven
<1> HIDE DEF l, r, own, yaws
<1>6. -50..50 \subseteq -100..100
  OBVIOUS
<1> QED BY <1>2, <1>3, <1>4, <1>5, <1>6 DEF StepSteerings

(* What steers the mirrored leg steers it to the other side.                 *)
LEMMA StepSteersEven ==
  ASSUME NEW s, StepSound(s), NEW m, StepMirrors(m, s), StepNoTie(s), NEW ask \in StepForward,
         NEW here, NEW there, StepMeets(here, there)
  PROVE  StepSteers(m, StepTurned(ask), there)
           = [yaw |-> -StepSteers(s, ask, here).yaw, by |-> StepSteers(s, ask, here).by]
<1> DEFINE o == StepTurned(ask)
           l == StepClear(s.world.rays["left"], 300)
           r == StepClear(s.world.rays["right"], 300)
           yaws(passages) == (CHOOSE p \in passages : TRUE).yaw
           own(a) == ~(a.walk > 0 /\ a.vx > 0 /\ s.known) \/ StepAbs(a.yaw) >= 60
<1>1. l \in StepClearings /\ r \in StepClearings /\ l # r
  <2>1. l # r
    BY DEF StepNoTie
  <2> HIDE DEF l, r
  <2> QED BY <2>1, StepSidesClear DEF l, r
<1>2. /\ ask.yaw \in -100..100 /\ o.yaw = -ask.yaw /\ o.alone = ask.alone /\ (own(o) <=> own(ask))
  BY StepTurnedIs DEF StepForward
<1>3. StepSteers(s, ask, here) = IF ask.alone THEN [yaw |-> ask.yaw, by |-> "none"]
           ELSE IF here # {} THEN [yaw |-> yaws(here), by |-> "passage"]
           ELSE IF own(ask) THEN [yaw |-> ask.yaw, by |-> "none"] ELSE StepWalled(l, r, ask)
  BY StepSteersIs
<1>4. StepSteers(m, o, there) = IF o.alone THEN [yaw |-> o.yaw, by |-> "none"]
           ELSE IF there # {} THEN [yaw |-> yaws(there), by |-> "passage"]
           ELSE IF own(o) THEN [yaw |-> o.yaw, by |-> "none"] ELSE StepWalled(r, l, o)
  <2>1. /\ StepClear(m.world.rays["left"], 300) = r /\ StepClear(m.world.rays["right"], 300) = l
        /\ m.known = s.known
    BY StepRaysEven DEF StepMirrors
  <2> HIDE DEF l, r, o
  <2> QED BY <2>1, StepSteersIs
<1>5. (here = {} <=> there = {}) /\ (here # {} => yaws(here) \in -50..50 /\ yaws(there) = -yaws(here))
  BY StepMeetsYaw
<1>6. /\ StepWalled(l, r, ask) \in [yaw : -100..100, by : {"none", "wall"}]
      /\ StepWalled(r, l, o) = [yaw |-> -StepWalled(l, r, ask).yaw, by |-> StepWalled(l, r, ask).by]
  <2> HIDE DEF l, r
  <2> QED BY <1>1, StepWalledEven
<1> HIDE DEF l, r, o, own, yaws
<1>7. StepSteers(m, o, there) = [yaw |-> -StepSteers(s, ask, here).yaw, by |-> StepSteers(s, ask, here).by]
  <2>1. CASE ask.alone
    BY <1>2, <1>3, <1>4, <2>1
  <2>2. CASE ~ask.alone /\ here # {}
    BY <1>2, <1>3, <1>4, <1>5, <2>2
  <2>3. CASE ~ask.alone /\ here = {} /\ own(ask)
    BY <1>2, <1>3, <1>4, <1>5, <2>3
  <2>4. CASE ~ask.alone /\ here = {} /\ ~own(ask)
    BY <1>2, <1>3, <1>4, <1>5, <1>6, <2>4
  <2> QED BY <2>1, <2>2, <2>3, <2>4
<1> QED BY <1>7 DEF o

(* The mirrored leg is as long, and keeps as far off.                        *)
LEMMA StepAdvanceEven ==
  ASSUME NEW ask \in StepForward, NEW walk, NEW gap
  PROVE  /\ StepAdvance(StepTurned(ask), walk) = StepAdvance(ask, walk)
         /\ StepMargin(StepTurned(ask), gap) = StepMargin(ask, gap)
         /\ StepArc(StepTurned(ask)) <=> StepArc(ask)
BY StepTurnedIs DEF StepAdvance, StepMargin, StepArc

(* The mirrored leg is shortened as much.                                    *)
LEMMA StepFitsEven ==
  ASSUME NEW s, StepSound(s), NEW m, StepMirrors(m, s), NEW ask \in StepForward, NEW walk, NEW gap
  PROVE  StepFits(m, StepTurned(ask), walk, gap) = StepFits(s, ask, walk, gap)
<1> DEFINE o == StepTurned(ask)
           side == IF ask.vx < 0 THEN "behind" ELSE "ahead"
           heading == IF ask.vx < 0 THEN <<-100, 0>> ELSE <<100, 0>>
           half == IF gap THEN 11 ELSE 16
           near == StepNearest(StepObstacles(s), heading, half)
           other == StepNearest(StepObstacles(m), heading, half)
           seen(things) == {StepRange(t) : t \in things}
           wall(r) == IF r.known THEN {StepClear(r.world.rays[side], 300)} ELSE {}
           stops(r) == {c.free : c \in {c \in wall(r) : c.by = "wall"}}
           needed(a) == StepAdvance(a, walk) + StepSlack(gap) + StepMargin(a, gap)
<1>1. o.vx = ask.vx
  BY StepTurnedIs
<1>2. seen(other) = seen(near)
  <2>1. StepObstacles(m) = StepFlips(StepObstacles(s)) /\ StepObstacles(s) \subseteq StepHoles \union StepBoxes
    BY StepFreshEven, StepSeenThings
  <2>2. half \in Int
    OBVIOUS
  <2> HIDE DEF half
  <2>3. ASSUME NEW h1 \in Int
        PROVE  seen(StepNearest(StepObstacles(m), <<h1, 0>>, half)) = seen(StepNearest(StepObstacles(s), <<h1, 0>>, half))
    <3>1. 0 + 0 = 0
      OBVIOUS
    <3>2. seen(StepNearest(StepFlips(StepObstacles(s)), <<h1, 0>>, half)) = seen(StepNearest(StepObstacles(s), <<h1, 0>>, half))
      BY <2>1, <2>2, <3>1, StepNearestEven
    <3> QED BY <2>1, <3>2
  <2>4. 100 \in Int /\ -100 \in Int
    OBVIOUS
  <2> HIDE DEF seen
  <2> QED BY <2>3, <2>4
<1>3. wall(m) = wall(s)
  BY StepRaysEven DEF StepMirrors
<1>4. needed(o) = needed(ask) /\ StepAdvance(o, 100) = StepAdvance(ask, 100) /\ StepMargin(o, gap) = StepMargin(ask, gap)
  BY StepAdvanceEven
<1>5. StepLimits(s, ask, walk, gap) = {n \in seen(near) \union stops(s) : n < needed(ask)}
  BY DEF StepLimits
<1>6. StepLimits(m, o, walk, gap) = {n \in seen(other) \union stops(m) : n < needed(o)}
  BY <1>1 DEF StepLimits
<1> HIDE DEF o, seen, wall, needed, near, other
<1>7. StepLimits(m, o, walk, gap) = StepLimits(s, ask, walk, gap)
  BY <1>2, <1>3, <1>4, <1>5, <1>6
<1> QED BY <1>4, <1>7 DEF StepFits, o

(* The mirrored leg goes where as little was looked at.                      *)
LEMMA StepUnlookedEven ==
  ASSUME NEW s, StepSound(s), NEW m, StepMirrors(m, s), NEW ask \in StepForward
  PROVE  StepUnlooked(m, StepTurned(ask)) <=> StepUnlooked(s, ask)
<1>1. \A k \in DOMAIN s.frames : s.frames[k] \in StepSeen
  BY DEF StepSound
<1>2. \A k \in StepFresh(s) : k \in DOMAIN s.frames /\ (m.frames[k].head = 0 <=> s.frames[k].head = 0)
  <2> TAKE k \in StepFresh(s)
  <2>1. k \in DOMAIN s.frames
    BY DEF StepFresh
  <2>2. s.frames[k].head \in Int /\ m.frames[k].head = -s.frames[k].head
    BY <1>1, <2>1 DEF StepSeen, StepMirrors
  <2> QED BY <2>1, <2>2
<1>3. \A back : StepLookedAt(m, back) <=> StepLookedAt(s, back)
  BY <1>2, StepFreshEven DEF StepLookedAt
<1>4. StepTurned(ask).vx = ask.vx /\ m.known = s.known
  BY StepTurnedIs DEF StepMirrors
<1>5. \A a \in {"ahead", "behind"} : m.world.rays[a] = s.world.rays[a]
  BY StepRaysEven
<1> QED BY <1>3, <1>4, <1>5 DEF StepUnlooked

(* The drops, each apart from the others and off the line.                   *)
LEMMA StepDropsApart ==
  ASSUME NEW s, StepSound(s), StepNoTie(s)
  PROVE  /\ \A t \in StepDrops(s) : t.at[2] # 0
         /\ \A t \in StepDrops(s), u \in StepDrops(s) : StepRange(u) = StepRange(t) => u = t
<1>1. \A t \in StepDrops(s) : \E k \in DOMAIN s.frames : t \in s.frames[k].drops
  BY DEF StepDrops, StepFresh
<1> QED BY <1>1 DEF StepNoTie

(* A mirrored arc turns away from the mirrored drop.                         *)
LEMMA StepTurnsAwayEven ==
  ASSUME NEW ask \in StepForward, NEW d \in StepHoles, d.at[2] # 0, NEW ends \in BOOLEAN
  PROVE  StepTurnsAway(StepTurned(ask), StepFlip(d), ends) <=> StepTurnsAway(ask, d, ends)
<1> DEFINE f == StepFlip(d)
           o == StepTurned(ask)
<1>1. d.at[2] \in Int /\ f.at[2] = -d.at[2] /\ f.edge = d.edge /\ (StepBeside(f) <=> StepBeside(d))
  BY StepThingsSeen, StepFlipIs, StepBesideEven
<1>2. ask.yaw \in Int /\ o.yaw = -ask.yaw
  BY StepTurnedIs DEF StepForward
<1>3. StepArc(o) <=> StepArc(ask)
  BY StepAdvanceEven
<1>4. StepArc(ask) => ask.yaw # 0
  BY <1>2 DEF StepArc, StepAbs
<1> HIDE DEF f, o
<1>5. (ask.yaw # 0) => ((o.yaw >= 0) # (f.at[2] >= 0) <=> (ask.yaw >= 0) # (d.at[2] >= 0))
  <2>1. ask.yaw # 0 => (o.yaw >= 0 <=> ~(ask.yaw >= 0))
    BY <1>2
  <2>2. f.at[2] >= 0 <=> ~(d.at[2] >= 0)
    BY <1>1
  <2> QED BY <2>1, <2>2
<1>6. StepTurnsAway(o, f, ends) <=> StepTurnsAway(ask, d, ends)
  BY <1>1, <1>3, <1>4, <1>5 DEF StepTurnsAway
<1> QED BY <1>6 DEF f, o

(* The nearest drop refuses it as it does the leg.                           *)
LEMMA StepDropRefusesEven ==
  ASSUME NEW s, StepSound(s), NEW m, StepMirrors(m, s), StepNoTie(s), NEW ask \in StepForward,
         NEW h1 \in Int, NEW h2 \in Int, NEW g2 \in Int, g2 + h2 = 0, NEW needed, NEW lane \in Int, NEW ends \in BOOLEAN
  PROVE  StepDropRefuses(m, StepTurned(ask), <<h1, g2>>, needed, lane, ends)
           <=> StepDropRefuses(s, ask, <<h1, h2>>, needed, lane, ends)
<1> DEFINE near == StepNearest(StepDrops(s), <<h1, h2>>, lane)
           other == StepNearest(StepDrops(m), <<h1, g2>>, lane)
<1>1. StepDrops(m) = StepFlips(StepDrops(s)) /\ StepDrops(s) \subseteq StepHoles
  BY StepFreshEven, StepSeenThings
<1>2. StepDrops(s) \subseteq StepHoles \union StepBoxes
  BY <1>1
<1>3. other = StepFlips(near)
  <2>1. \A t \in StepDrops(s), u \in StepDrops(s) : StepRange(u) = StepRange(t) => u = t
    BY StepDropsApart
  <2> QED BY <1>1, <1>2, <2>1, StepNearestEven
<1>4. near \subseteq StepDrops(s)
  <2> DEFINE heading == <<h1, h2>>
  <2> HIDE DEF heading
  <2>1. StepNearest(StepDrops(s), heading, lane) \subseteq StepDrops(s)
    BY <1>2, StepNearestIs
  <2> QED BY <2>1 DEF heading
<1> HIDE DEF near, other
<1>5. \A d \in near : StepFlip(d).edge = d.edge
                      /\ (StepTurnsAway(StepTurned(ask), StepFlip(d), ends) <=> StepTurnsAway(ask, d, ends))
  <2> TAKE d \in near
  <2>1. d \in StepHoles /\ d.at[2] # 0
    BY <1>1, <1>4, StepDropsApart
  <2> QED BY <2>1, StepFlipIs, StepTurnsAwayEven
<1>6. (\E d \in other : d.edge < needed /\ ~StepTurnsAway(StepTurned(ask), d, ends))
        <=> (\E d \in near : d.edge < needed /\ ~StepTurnsAway(ask, d, ends))
  BY <1>3, <1>5 DEF StepFlips
<1> QED BY <1>6 DEF StepDropRefuses, near, other

(* And so does a drop beside it.                                             *)
LEMMA StepNearLegEven ==
  ASSUME NEW s, StepSound(s), NEW m, StepMirrors(m, s), NEW p, NEW q, p.yaw \in -100..100, q.yaw = -p.yaw,
         NEW walk \in 0..100
  PROVE  StepNearLeg(m, q, walk) <=> StepNearLeg(s, p, walk)
<1> DEFINE near(d, x) == (d.at[1] - x[1]) * (d.at[1] - x[1]) + (d.at[2] - x[2]) * (d.at[2] - x[2]) < 14 * 14
           back(x) == <<x[1], -x[2]>>
<1>1. StepDrops(m) = {StepFlip(d) : d \in StepDrops(s)} /\ StepDrops(s) \subseteq StepHoles
  BY StepFreshEven, StepSeenThings DEF StepFlips
<1>2. q.yaw \in -100..100 /\ p.yaw = -q.yaw
  OBVIOUS
<1>3. \A x \in StepLegRuns(p, walk) : x[1] \in Int /\ x[2] \in Int /\ back(x) \in StepLegRuns(q, walk)
  BY StepRunsEven
<1>4. \A x \in StepLegRuns(q, walk) : x[1] \in Int /\ x[2] \in Int /\ back(x) \in StepLegRuns(p, walk)
  BY <1>2, StepRunsEven
<1>5. ASSUME NEW d \in StepDrops(s), NEW x, x[1] \in Int, x[2] \in Int
      PROVE  near(StepFlip(d), back(x)) <=> near(d, x)
  <2>1. /\ d.at[1] \in Int /\ d.at[2] \in Int /\ StepFlip(d).at[1] = d.at[1] /\ StepFlip(d).at[2] = -d.at[2]
    BY <1>1, StepThingsSeen, StepFlipIs
  <2>2. -d.at[2] - (-x[2]) = -(d.at[2] - x[2]) /\ d.at[2] - x[2] \in Int
    BY <1>5, <2>1
  <2>3. \A n \in Int : (-n) * (-n) = n * n
    OBVIOUS
  <2>4. (-d.at[2] - (-x[2])) * (-d.at[2] - (-x[2])) = (d.at[2] - x[2]) * (d.at[2] - x[2])
    BY <2>2, <2>3
  <2>5. back(x)[1] = x[1] /\ back(x)[2] = -x[2]
    OBVIOUS
  <2> HIDE DEF back
  <2> QED BY <2>1, <2>4, <2>5
<1>6. ASSUME NEW d \in StepDrops(s), NEW x, x[1] \in Int, x[2] \in Int
      PROVE  near(StepFlip(d), x) <=> near(d, back(x))
  <2>1. d.at[1] \in Int /\ d.at[2] \in Int /\ StepFlip(d).at[1] = d.at[1] /\ StepFlip(d).at[2] = -d.at[2]
    BY <1>1, StepThingsSeen, StepFlipIs
  <2>2. -d.at[2] - x[2] = -(d.at[2] - (-x[2])) /\ d.at[2] - (-x[2]) \in Int
    BY <1>6, <2>1
  <2>3. \A n \in Int : (-n) * (-n) = n * n
    OBVIOUS
  <2>4. (-d.at[2] - x[2]) * (-d.at[2] - x[2]) = (d.at[2] - (-x[2])) * (d.at[2] - (-x[2]))
    BY <2>2, <2>3
  <2>5. back(x)[1] = x[1] /\ back(x)[2] = -x[2]
    OBVIOUS
  <2> HIDE DEF back
  <2> QED BY <2>1, <2>4, <2>5
<1>7. StepNearLeg(s, p, walk) <=> \E d \in StepDrops(s), x \in StepLegRuns(p, walk) : near(d, x)
  BY DEF StepNearLeg
<1>8. StepNearLeg(m, q, walk) <=> \E d \in StepDrops(m), x \in StepLegRuns(q, walk) : near(d, x)
  BY DEF StepNearLeg
<1> HIDE DEF near, back
<1>9. StepNearLeg(s, p, walk) => StepNearLeg(m, q, walk)
  BY <1>1, <1>3, <1>5, <1>7, <1>8
<1>10. StepNearLeg(m, q, walk) => StepNearLeg(s, p, walk)
  BY <1>1, <1>4, <1>6, <1>7, <1>8
<1> QED BY <1>9, <1>10

(* The mirrored leg ends as far ahead, on the other side.                    *)
LEMMA StepHeadingEven ==
  ASSUME NEW yaw \in Int, yaw # 0, NEW walk \in Int
  PROVE  \E h1 \in Int, h2 \in Int, g2 \in Int :
           g2 + h2 = 0 /\ StepHeading(yaw, walk) = <<h1, h2>> /\ StepHeading(-yaw, walk) = <<h1, g2>>
<1> DEFINE side == IF yaw < 0 THEN -1 ELSE 1
           edis == IF -yaw < 0 THEN -1 ELSE 1
           h1 == IF walk <= 14 THEN 80 ELSE 27
           n == IF walk <= 14 THEN 60 ELSE 96
<1>1. side \in Int /\ edis \in Int /\ edis + side = 0 /\ h1 \in Int /\ n \in Int
  OBVIOUS
<1>2. StepHeading(yaw, walk) = <<h1, side * n>> /\ StepHeading(-yaw, walk) = <<h1, edis * n>>
  BY DEF StepHeading
<1> HIDE DEF side, edis, h1, n
<1>3. side * n \in Int /\ edis * n \in Int /\ edis * n + side * n = 0
  <2>1. edis = -side
    BY <1>1
  <2> QED BY <1>1, <2>1
<1> QED BY <1>1, <1>2, <1>3

(* A drop refuses the mirrored leg when it refuses the leg.                  *)
LEMMA StepOverDropEven ==
  ASSUME NEW s, StepSound(s), NEW m, StepMirrors(m, s), StepNoTie(s), NEW ask \in StepForward,
         NEW walk \in Int, walk <= 100, NEW here, NEW there, StepMeets(here, there)
  PROVE  StepOverDrop(m, StepTurned(ask), walk, there) <=> StepOverDrop(s, ask, walk, here)
<1> DEFINE o == StepTurned(ask)
           margin == IF ask.passage THEN 12 ELSE 25
           narrow(r, a) == \E t \in StepObstacles(r) : StepBeside(t) /\ StepAbs(t.at[2]) <= 35 /\ t.at[1] <= 60
           lane(r, a) == IF StepNarrow(r, a, walk) THEN 17 ELSE 22
           needed(a) == StepAdvance(a, walk) + 15 + margin
           on(r, a) == StepDropRefuses(r, a, <<100, 0>>, 12 + 15 + 10, lane(r, a), FALSE)
           ends(r, a) == StepDropRefuses(r, a, StepHeading(a.yaw, walk), needed(a), lane(r, a), TRUE)
           straight(r, a) == StepDropRefuses(r, a, <<100, 0>>, needed(a), lane(r, a), FALSE)
           near(r, passages) == \E p \in passages : StepNearLeg(r, p, walk)
<1>1. o.vx = ask.vx /\ o.passage = ask.passage /\ o.yaw = -ask.yaw /\ ask.yaw \in Int
  BY StepTurnedIs DEF StepForward
<1>2. (StepArc(o) <=> StepArc(ask)) /\ needed(o) = needed(ask)
  BY StepAdvanceEven
<1>3. lane(m, o) = lane(s, ask) /\ lane(s, ask) \in Int
  <2>1. StepObstacles(m) = {StepFlip(t) : t \in StepObstacles(s)} /\ StepObstacles(s) \subseteq StepBoxes
    BY StepFreshEven, StepSeenThings DEF StepFlips
  <2>2. \A t \in StepObstacles(s) :
          (StepBeside(StepFlip(t)) /\ StepAbs(StepFlip(t).at[2]) <= 35 /\ StepFlip(t).at[1] <= 60)
            <=> (StepBeside(t) /\ StepAbs(t.at[2]) <= 35 /\ t.at[1] <= 60)
    <3> TAKE t \in StepObstacles(s)
    <3>1. t \in StepHoles \union StepBoxes
      BY <2>1
    <3>2. t.at[2] \in Int /\ StepFlip(t).at[1] = t.at[1] /\ StepFlip(t).at[2] = -t.at[2]
      BY <3>1, StepThingsSeen, StepFlipIs
    <3>3. StepAbs(StepFlip(t).at[2]) = StepAbs(t.at[2])
      BY <3>2 DEF StepAbs
    <3> QED BY <3>1, <3>2, <3>3, StepBesideEven
  <2>3. narrow(m, o) <=> narrow(s, ask)
    BY <2>1, <2>2
  <2>4. StepNarrow(m, o, walk) <=> StepNarrow(s, ask, walk)
    <3> HIDE DEF o
    <3> QED BY <1>1, <1>2, <2>3 DEF StepNarrow
  <2> QED BY <2>4
<1>4. 100 \in Int /\ 0 \in Int /\ 0 + 0 = 0 /\ TRUE \in BOOLEAN /\ FALSE \in BOOLEAN
  OBVIOUS
<1>5. ASSUME NEW h1 \in Int, NEW h2 \in Int, NEW g2 \in Int, g2 + h2 = 0, NEW n, NEW b \in BOOLEAN
      PROVE  StepDropRefuses(m, o, <<h1, g2>>, n, lane(m, o), b) <=> StepDropRefuses(s, ask, <<h1, h2>>, n, lane(s, ask), b)
  <2> DEFINE half == lane(s, ask)
  <2>1. half \in Int /\ lane(m, o) = half
    BY <1>3
  <2> HIDE DEF half
  <2>2. StepDropRefuses(m, StepTurned(ask), <<h1, g2>>, n, half, b) <=> StepDropRefuses(s, ask, <<h1, h2>>, n, half, b)
    BY <1>5, <2>1, StepDropRefusesEven
  <2> HIDE DEF lane
  <2> QED BY <2>1, <2>2 DEF half
<1> HIDE DEF needed, lane
<1>6. on(m, o) <=> on(s, ask)
  <2> DEFINE n == 12 + 15 + 10
  <2> HIDE DEF n
  <2>1. StepDropRefuses(m, o, <<100, 0>>, n, lane(m, o), FALSE) <=> StepDropRefuses(s, ask, <<100, 0>>, n, lane(s, ask), FALSE)
    BY <1>4, <1>5
  <2> QED BY <2>1 DEF n
<1>7. straight(m, o) <=> straight(s, ask)
  BY <1>2, <1>4, <1>5
<1>8. StepArc(ask) => (ends(m, o) <=> ends(s, ask))
  <2> HAVE StepArc(ask)
  <2>1. ask.yaw # 0
    BY <1>1 DEF StepArc, StepAbs
  <2>2. PICK h1 \in Int, h2 \in Int, g2 \in Int :
          g2 + h2 = 0 /\ StepHeading(ask.yaw, walk) = <<h1, h2>> /\ StepHeading(o.yaw, walk) = <<h1, g2>>
    <3> DEFINE y == ask.yaw
    <3>1. y \in Int /\ y # 0 /\ o.yaw = -y
      BY <1>1, <2>1
    <3> HIDE DEF y
    <3>2. \E h1 \in Int, h2 \in Int, g2 \in Int :
            g2 + h2 = 0 /\ StepHeading(y, walk) = <<h1, h2>> /\ StepHeading(-y, walk) = <<h1, g2>>
      BY <3>1, StepHeadingEven
    <3> HIDE DEF o
    <3> QED BY <3>1, <3>2 DEF y
  <2>3. ends(m, o) <=> StepDropRefuses(m, o, <<h1, g2>>, needed(ask), lane(m, o), TRUE)
    BY <1>2, <2>2
  <2>4. ends(s, ask) <=> StepDropRefuses(s, ask, <<h1, h2>>, needed(ask), lane(s, ask), TRUE)
    BY <2>2
  <2> HIDE DEF ends
  <2> QED BY <1>4, <1>5, <2>2, <2>3, <2>4
<1>9. (here = {} <=> there = {}) /\ (walk > 0 => (near(m, there) <=> near(s, here)))
  <2>1. CASE here = {}
    <3>1. there = {}
      BY <2>1 DEF StepMeets
    <3> QED BY <2>1, <3>1
  <2>2. CASE here # {}
    <3>1. PICK width, spare : \E yaw \in -50..50 :
            /\ here = {[width |-> width, yaw |-> yaw, spare |-> spare]}
            /\ there = {[width |-> width, yaw |-> -yaw, spare |-> spare]}
      BY <2>2 DEF StepMeets
    <3>2. PICK yaw \in -50..50 : /\ here = {[width |-> width, yaw |-> yaw, spare |-> spare]}
                                /\ there = {[width |-> width, yaw |-> -yaw, spare |-> spare]}
      BY <3>1
    <3> DEFINE p == [width |-> width, yaw |-> yaw, spare |-> spare]
               q == [width |-> width, yaw |-> -yaw, spare |-> spare]
    <3>3. p.yaw \in -100..100 /\ q.yaw = -p.yaw /\ here = {p} /\ there = {q}
      BY <3>2
    <3> HIDE DEF p, q
    <3>4. ASSUME walk > 0 PROVE StepNearLeg(m, q, walk) <=> StepNearLeg(s, p, walk)
      <4>1. walk \in 0..100
        BY <3>4
      <4> QED BY <3>3, <4>1, StepNearLegEven
    <3> QED BY <3>3, <3>4
  <2> QED BY <2>1, <2>2
<1> HIDE DEF on, ends, straight, near
<1>10. \A r, a, passages : a.passage = ask.passage =>
         (StepOverDrop(r, a, walk, passages) <=>
            /\ walk > 0 /\ a.vx > 0
            /\ IF passages # {} /\ ~StepArc(a) THEN near(r, passages)
               ELSE IF StepArc(a) THEN on(r, a) \/ ends(r, a) ELSE straight(r, a))
  BY DEF StepOverDrop, needed, lane, near, on, ends, straight
<1>11. StepOverDrop(m, o, walk, there) <=>
            /\ walk > 0 /\ o.vx > 0
            /\ IF there # {} /\ ~StepArc(o) THEN near(m, there)
               ELSE IF StepArc(o) THEN on(m, o) \/ ends(m, o) ELSE straight(m, o)
  <2> HIDE DEF o
  <2> QED BY <1>1, <1>10
<1>12. StepOverDrop(s, ask, walk, here) <=>
            /\ walk > 0 /\ ask.vx > 0
            /\ IF here # {} /\ ~StepArc(ask) THEN near(s, here)
               ELSE IF StepArc(ask) THEN on(s, ask) \/ ends(s, ask) ELSE straight(s, ask)
  BY <1>10
<1> HIDE DEF o
<1> QED BY <1>1, <1>2, <1>6, <1>7, <1>8, <1>9, <1>11, <1>12 DEF o

(* What an admitted leg comes of.                                            *)
StepShort(ask, passages) == IF passages # {} THEN StepMin(ask.walk, 15) ELSE ask.walk
StepGap(ask, passages) == ask.gap \/ passages # {}
StepWalk(s, ask, passages) ==
  IF StepShort(ask, passages) > 0 /\ ask.vx # 0
  THEN StepFits(s, ask, StepShort(ask, passages), StepGap(ask, passages)) ELSE StepShort(ask, passages)
StepBarred(s, ask, passages) ==
  LET short == StepShort(ask, passages)
      walk == StepWalk(s, ask, passages)
      walks == short > 0 /\ ask.vx # 0
  IN  \/ \E p \in passages : p.spare < 0
      \/ walks /\ walk < short /\ walk < 10
      \/ walks /\ StepUnlooked(s, ask)
      \/ StepOverDrop(s, ask, walk, passages)

(* The plan: none, or a leg no guard bars.                                   *)
LEMMA StepPlannedIs ==
  ASSUME NEW s, NEW ask
  PROVE  LET passages == StepPassageHere(s, ask)
         IN  StepPlanned(s, ask) =
               IF StepBarred(s, ask, passages) THEN StepNo
               ELSE [ok |-> TRUE, walk |-> StepWalk(s, ask, passages), yaw |-> StepSteers(s, ask, passages).yaw,
                     by |-> StepSteers(s, ask, passages).by, gap |-> StepGap(ask, passages)]
BY DEF StepPlanned, StepBarred, StepShort, StepGap, StepWalk

(* A passage makes a leg no longer.                                          *)
LEMMA StepShorts ==
  ASSUME NEW ask \in StepForward, NEW passages
  PROVE  /\ StepShort(ask, passages) \in 0..100 /\ StepShort(ask, passages) <= ask.walk
         /\ (StepShort(ask, passages) = ask.walk \/ StepShort(ask, passages) = 15)
         /\ StepGap(ask, passages) \in BOOLEAN
<1>1. ask.walk \in 0..100 /\ ask.gap \in BOOLEAN
  BY DEF StepForward
<1> QED BY <1>1 DEF StepShort, StepMin, StepGap

(* A leg is no longer than was asked for.                                    *)
LEMMA StepWalksWell ==
  ASSUME NEW s, StepSound(s), NEW ask \in StepForward, NEW passages
  PROVE  StepWalk(s, ask, passages) \in Int /\ StepWalk(s, ask, passages) <= StepShort(ask, passages)
<1> DEFINE short == StepShort(ask, passages)
           gap == StepGap(ask, passages)
<1>1. short \in 0..100 /\ gap \in BOOLEAN
  BY StepShorts
<1> HIDE DEF short, gap
<1>2. short > 0 => StepFits(s, ask, short, gap) \in Int /\ StepFits(s, ask, short, gap) <= short
  <2> HAVE short > 0
  <2>1. short \in 1..100
    BY <1>1
  <2> QED BY <1>1, <2>1, StepFitsWell
<1> QED BY <1>1, <1>2 DEF StepWalk, short, gap

StepPlanTurned(plan) ==
  [ok |-> plan.ok, walk |-> plan.walk, yaw |-> -plan.yaw, by |-> plan.by, gap |-> plan.gap]

(* No plan is its own mirror.                                                *)
LEMMA StepNoneTurned == StepPlanTurned(StepNo) = StepNo
<1>1. \A z, y \in Int : y + z = 0 => y = -z
  OBVIOUS
<1>2. 0 \in Int /\ 0 + 0 = 0
  OBVIOUS
<1>3. -0 = 0
  BY <1>1, <1>2, Zenon
<1>4. StepNo.ok = FALSE /\ StepNo.walk = 0 /\ StepNo.yaw = 0 /\ StepNo.by = "none" /\ StepNo.gap = FALSE
  BY DEF StepNo
<1> DEFINE n == -StepNo.yaw
<1>5. n = 0
  BY <1>3, <1>4, Zenon
<1>6. StepPlanTurned(StepNo) = [ok |-> StepNo.ok, walk |-> StepNo.walk, yaw |-> n, by |-> StepNo.by, gap |-> StepNo.gap]
  BY DEF StepPlanTurned
<1> HIDE DEF n
<1> QED BY <1>4, <1>5, <1>6 DEF StepNo

(* The plan has no favourite side.                                           *)
LEMMA StepPlannedEven ==
  ASSUME NEW s, StepSound(s), NEW m, StepMirrors(m, s), StepNoTie(s), NEW ask \in StepForward
  PROVE  StepPlanned(m, StepTurned(ask)) = StepPlanTurned(StepPlanned(s, ask))
<1> DEFINE o == StepTurned(ask)
           here == StepPassageHere(s, ask)
           there == StepPassageHere(m, o)
<1>1. StepMeets(here, there)
  BY StepPassageHereEven
<1> DEFINE plan == StepPlanned(s, ask)
           other == StepPlanned(m, o)
           walk == StepWalk(s, ask, here)
           steers == StepSteers(s, ask, here)
<1>2. plan = IF StepBarred(s, ask, here) THEN StepNo
             ELSE [ok |-> TRUE, walk |-> walk, yaw |-> steers.yaw, by |-> steers.by, gap |-> StepGap(ask, here)]
  BY StepPlannedIs
<1>3. other = IF StepBarred(m, o, there) THEN StepNo
              ELSE [ok |-> TRUE, walk |-> StepWalk(m, o, there), yaw |-> StepSteers(m, o, there).yaw,
                    by |-> StepSteers(m, o, there).by, gap |-> StepGap(o, there)]
  BY StepPlannedIs
<1> HIDE DEF plan, other, here, there, walk, steers
<1>4. StepSteers(m, o, there) = [yaw |-> -steers.yaw, by |-> steers.by]
  BY <1>1, StepSteersEven DEF steers
<1>5. (here = {} <=> there = {}) /\ ((\E p \in there : p.spare < 0) <=> (\E p \in here : p.spare < 0))
  <2>1. CASE here = {}
    <3>1. there = {}
      BY <1>1, <2>1 DEF StepMeets
    <3> QED BY <2>1, <3>1
  <2>2. CASE here # {}
    <3>1. PICK width, spare : \E yaw \in -50..50 :
            /\ here = {[width |-> width, yaw |-> yaw, spare |-> spare]}
            /\ there = {[width |-> width, yaw |-> -yaw, spare |-> spare]}
      BY <1>1, <2>2 DEF StepMeets
    <3>2. PICK p, q : here = {p} /\ there = {q} /\ p.spare = q.spare
      <4>1. PICK yaw \in -50..50 : /\ here = {[width |-> width, yaw |-> yaw, spare |-> spare]}
                                  /\ there = {[width |-> width, yaw |-> -yaw, spare |-> spare]}
        BY <3>1
      <4> DEFINE p == [width |-> width, yaw |-> yaw, spare |-> spare]
                 q == [width |-> width, yaw |-> -yaw, spare |-> spare]
      <4>2. here = {p} /\ there = {q} /\ p.spare = q.spare
        BY <4>1
      <4> HIDE DEF p, q
      <4> QED BY <4>2
    <3> QED BY <3>2
  <2> QED BY <2>1, <2>2
<1>6. StepShort(o, there) = StepShort(ask, here) /\ StepGap(o, there) = StepGap(ask, here)
  <2>1. o.walk = ask.walk /\ o.gap = ask.gap
    BY StepTurnedIs
  <2> HIDE DEF o
  <2> QED BY <1>5, <2>1 DEF StepShort, StepGap
<1>7. StepWalk(m, o, there) = walk /\ o.vx = ask.vx
  <2>1. o.vx = ask.vx
    BY StepTurnedIs
  <2>2. \A n, g : StepFits(m, o, n, g) = StepFits(s, ask, n, g)
    BY StepFitsEven
  <2> HIDE DEF o
  <2> QED BY <1>6, <2>1, <2>2 DEF StepWalk, walk
<1>8. walk \in Int /\ walk <= 100
  <2>1. walk \in Int /\ walk <= StepShort(ask, here) /\ StepShort(ask, here) \in 0..100
    BY StepWalksWell, StepShorts DEF walk
  <2> QED BY <2>1
<1>9. StepBarred(m, o, there) <=> StepBarred(s, ask, here)
  <2>1. StepUnlooked(m, o) <=> StepUnlooked(s, ask)
    BY StepUnlookedEven
  <2>2. StepOverDrop(m, o, walk, there) <=> StepOverDrop(s, ask, walk, here)
    BY <1>1, <1>8, StepOverDropEven
  <2> HIDE DEF o
  <2> QED BY <1>5, <1>6, <1>7, <2>1, <2>2 DEF StepBarred, walk
<1>10. CASE StepBarred(s, ask, here)
  <2>1. plan = StepNo /\ other = StepNo
    BY <1>2, <1>3, <1>9, <1>10
  <2> QED BY <2>1, StepNoneTurned DEF plan, other
<1>11. CASE ~StepBarred(s, ask, here)
  <2>1. plan = [ok |-> TRUE, walk |-> walk, yaw |-> steers.yaw, by |-> steers.by, gap |-> StepGap(ask, here)]
    BY <1>2, <1>11
  <2>2. other = [ok |-> TRUE, walk |-> walk, yaw |-> -steers.yaw, by |-> steers.by, gap |-> StepGap(ask, here)]
    BY <1>3, <1>4, <1>6, <1>7, <1>9, <1>11
  <2>3. other = StepPlanTurned(plan)
    BY <2>1, <2>2 DEF StepPlanTurned
  <2> QED BY <2>3 DEF plan, other
<1> QED BY <1>10, <1>11

StepPlans == [ok : BOOLEAN, walk : 0..100, yaw : -100..100, by : {"none", "passage", "wall"}, gap : BOOLEAN]

(* The passage a leg meets is one with itself.                               *)
LEMMA StepPassageHereMet ==
  ASSUME NEW s, StepSound(s), NEW ask \in StepForward
  PROVE  \E there : StepMeets(StepPassageHere(s, ask), there)
<1> DEFINE l == StepSide(s, TRUE)
           r == StepSide(s, FALSE)
<1>1. StepFlat(l) /\ StepFlat(r)
  BY StepSideNat DEF StepFlat
<1>2. StepPassageHere(s, ask) = StepPassage(l, r) \/ StepPassageHere(s, ask) = {}
  BY DEF StepPassageHere
<1> HIDE DEF l, r
<1>3. StepMeets(StepPassage(l, r), StepPassage(r, l))
  BY <1>1, StepPassageEven
<1>4. StepMeets({}, {})
  BY DEF StepMeets
<1> QED BY <1>2, <1>3, <1>4

(* The length of an admitted leg.                                            *)
LEMMA StepAdmitted ==
  ASSUME NEW s, StepSound(s), NEW ask \in StepForward, NEW passages, ~StepBarred(s, ask, passages)
  PROVE  LET walk == StepWalk(s, ask, passages)
         IN  /\ walk \in 0..100 /\ walk <= ask.walk /\ (walk >= 10 \/ walk = ask.walk)
             /\ ~StepOverDrop(s, ask, walk, passages)
<1> DEFINE walk == StepWalk(s, ask, passages)
           short == StepShort(ask, passages)
<1>1. walk \in Int /\ walk <= short /\ short \in 0..100 /\ short <= ask.walk /\ (short = ask.walk \/ short = 15)
  BY StepWalksWell, StepShorts
<1>2. ask.vx # 0 /\ ask.walk \in 0..100
  BY DEF StepForward
<1>3. ~(short > 0 /\ ask.vx # 0 /\ walk < short /\ walk < 10) /\ ~StepOverDrop(s, ask, walk, passages)
  BY DEF StepBarred
<1>4. ~(short > 0 /\ ask.vx # 0) => walk = short
  BY DEF StepWalk
<1> HIDE DEF walk, short
<1> QED BY <1>1, <1>2, <1>3, <1>4 DEF walk

(* What is planned is a plan.                                                *)
LEMMA StepPlannedTyped ==
  ASSUME NEW s, StepSound(s), NEW ask \in StepForward
  PROVE  StepPlanned(s, ask) \in StepPlans
<1> DEFINE here == StepPassageHere(s, ask)
           walk == StepWalk(s, ask, here)
           steers == StepSteers(s, ask, here)
           gap == StepGap(ask, here)
<1>1. StepPlanned(s, ask) = IF StepBarred(s, ask, here) THEN StepNo
             ELSE [ok |-> TRUE, walk |-> walk, yaw |-> steers.yaw, by |-> steers.by, gap |-> gap]
  BY StepPlannedIs
<1>2. gap \in BOOLEAN
  BY StepShorts
<1>3. steers \in StepSteerings
  <2>1. PICK there : StepMeets(here, there)
    BY StepPassageHereMet
  <2> HIDE DEF here
  <2> QED BY <2>1, StepSteersTyped
<1>4. ~StepBarred(s, ask, here) => walk \in 0..100
  BY StepAdmitted
<1>5. StepNo \in StepPlans
  BY DEF StepNo, StepPlans
<1> HIDE DEF here, walk, steers, gap
<1> QED BY <1>1, <1>2, <1>3, <1>4, <1>5 DEF StepPlans, StepSteerings

(* An admitted leg ends off the wall it is fitted to.                        *)
LEMMA StepPlannedOffWalls ==
  ASSUME NEW s, StepSound(s), NEW ask \in StepForward, NEW plan, plan = StepPlanned(s, ask), plan.ok, plan.walk > 0
  PROVE  /\ plan.walk <= ask.walk /\ (plan.walk >= 10 \/ plan.walk = ask.walk)
         /\ (s.known /\ StepFloorAhead(s, ask).by = "wall") =>
              StepAdvance(ask, plan.walk) + StepMargin(ask, plan.gap) <= StepFloorAhead(s, ask).free
<1> DEFINE here == StepPassageHere(s, ask)
           walk == StepWalk(s, ask, here)
           short == StepShort(ask, here)
           gap == StepGap(ask, here)
           c == StepFloorAhead(s, ask)
<1>1. ~StepBarred(s, ask, here) /\ plan.walk = walk /\ plan.gap = gap
  BY StepPlannedIs DEF StepNo
<1>2. walk <= ask.walk /\ (walk >= 10 \/ walk = ask.walk) /\ walk \in 0..100
  BY <1>1, StepAdmitted
<1>3. short \in 0..100 /\ gap \in BOOLEAN /\ ask.vx # 0 /\ walk <= short
  BY StepShorts, StepWalksWell DEF StepForward
<1>4. short \in 1..100
  BY <1>1, <1>2, <1>3
<1>5. walk = StepFits(s, ask, short, gap)
  BY <1>3, <1>4 DEF StepWalk
<1> HIDE DEF here, short, gap, walk
<1>6. (StepFits(s, ask, short, gap) > 0 /\ s.known /\ c.by = "wall") =>
        StepAdvance(ask, StepFits(s, ask, short, gap)) + StepMargin(ask, gap) <= c.free
  BY <1>3, <1>4, StepFitsWell
<1> HIDE DEF c
<1>7. (s.known /\ c.by = "wall") => StepAdvance(ask, plan.walk) + StepMargin(ask, plan.gap) <= c.free
  BY <1>1, <1>5, <1>6
<1> QED BY <1>1, <1>2, <1>7 DEF c

(* No fresh drop in the lane is under an admitted leg.                       *)
LEMMA StepRefusesNear ==
  ASSUME NEW s, StepSound(s), NEW ask, NEW needed \in Int, NEW lane \in Int, lane >= 17,
         ~StepDropRefuses(s, ask, <<100, 0>>, needed, lane, FALSE),
         NEW d \in StepDrops(s), d.at[1] > 0, StepAbs(d.at[2]) <= 17
  PROVE  StepRange(d) \in Int /\ (StepRange(d) >= needed \/ (StepArc(ask) /\ StepRange(d) >= 27))
<1> DEFINE heading == <<100, 0>>
           in == {t \in StepDrops(s) : StepInLane(t, heading, lane)}
<1>1. StepDrops(s) \subseteq StepHoles
  BY StepSeenThings
<1>2. d \in in
  <2>1. d.at[1] \in Int /\ d.at[2] \in Int
    BY <1>1, StepThingsSeen
  <2> DEFINE x == d.at[1]
             y == d.at[2]
  <2>2. x * 100 + y * 0 > 0 /\ y * 100 - x * 0 = 100 * y
    BY <2>1
  <2>3. StepAbs(100 * y) <= 100 * lane
    BY <2>1 DEF StepAbs
  <2> QED BY <2>2, <2>3 DEF StepInLane
<1>3. PICK t \in in : StepNearest(StepDrops(s), heading, lane) = {t} /\ \A o \in in : StepRange(t) <= StepRange(o)
  <2>1. StepDrops(s) \subseteq StepHoles \union StepBoxes
    BY <1>1
  <2>2. in # {}
    BY <1>2
  <2> HIDE DEF heading
  <2> QED BY <2>1, <2>2, StepNearestIs
<1>4. ~(t.edge < needed) \/ StepTurnsAway(ask, t, FALSE)
  BY <1>3 DEF StepDropRefuses
<1>5. t \in StepHoles /\ d \in StepHoles /\ StepRange(t) <= StepRange(d)
  BY <1>1, <1>2, <1>3
<1> HIDE DEF in, heading
<1>6. /\ t.edge \in Int /\ StepRange(t) \in Int /\ StepRange(d) \in Int
      /\ t.edge <= StepRange(t) /\ StepRange(t) <= StepRange(d)
  BY <1>5, StepThingsSeen
<1>7. StepTurnsAway(ask, t, FALSE) => StepArc(ask) /\ t.edge >= 12 + 15
  BY DEF StepTurnsAway
<1>8. CASE ~(t.edge < needed)
  BY <1>6, <1>8
<1>9. CASE StepArc(ask) /\ t.edge >= 12 + 15
  BY <1>6, <1>9
<1> QED BY <1>4, <1>7, <1>8, <1>9

(* No admitted leg runs over a hole that was seen.                           *)
LEMMA StepPlannedOffHoles ==
  ASSUME NEW s, StepSound(s), NEW ask \in StepForward, NEW plan, plan = StepPlanned(s, ask), plan.ok,
         ask.vx > 0, plan.walk > 0, plan.by # "wall", ~(ask.alone /\ plan.gap), NEW d \in StepDrops(s)
  PROVE  LET reach == IF StepArc(ask) THEN 12 ELSE StepAdvance(ask, plan.walk)
         IN  IF plan.by = "passage" /\ ~StepArc(ask)
             THEN \A q \in StepLegRuns(plan, plan.walk) :
                    (d.at[1] - q[1]) * (d.at[1] - q[1]) + (d.at[2] - q[2]) * (d.at[2] - q[2]) >= 10 * 10
             ELSE d.at[1] > 0 /\ StepAbs(d.at[2]) <= 17 => StepRange(d) >= reach + 15
<1> DEFINE here == StepPassageHere(s, ask)
           walk == StepWalk(s, ask, here)
           steers == StepSteers(s, ask, here)
           yaws(passages) == (CHOOSE p \in passages : TRUE).yaw
           lane == IF StepNarrow(s, ask, walk) THEN 17 ELSE 22
           needed == StepAdvance(ask, walk) + 15 + IF ask.passage THEN 12 ELSE 25
<1>1. /\ ~StepBarred(s, ask, here) /\ plan.walk = walk /\ plan.gap = StepGap(ask, here)
      /\ plan.by = steers.by /\ plan.yaw = steers.yaw
  BY StepPlannedIs DEF StepNo
<1>2. walk \in 1..100 /\ ~StepOverDrop(s, ask, walk, here)
  BY <1>1, StepAdmitted
<1>3. StepAdvance(ask, walk) \in Nat
  <2>1. walk \in 0..100 /\ ask.yaw \in Int
    BY <1>2 DEF StepForward
  <2> HIDE DEF walk
  <2> QED BY <2>1, StepAdvances
<1>4. here # {} => ~ask.alone
  BY <1>1 DEF StepGap
<1>5. steers = IF ask.alone THEN [yaw |-> ask.yaw, by |-> "none"]
           ELSE IF here # {} THEN [yaw |-> yaws(here), by |-> "passage"]
           ELSE IF ~(ask.walk > 0 /\ ask.vx > 0 /\ s.known) \/ StepAbs(ask.yaw) >= 60
           THEN [yaw |-> ask.yaw, by |-> "none"]
           ELSE StepWalled(StepClear(s.world.rays["left"], 300), StepClear(s.world.rays["right"], 300), ask)
  BY StepSteersIs
<1>6. StepWalled(StepClear(s.world.rays["left"], 300), StepClear(s.world.rays["right"], 300), ask).by # "passage"
  <2>1. StepWalled(StepClear(s.world.rays["left"], 300), StepClear(s.world.rays["right"], 300), ask)
          \in [yaw : -100..100, by : {"none", "wall"}]
    BY StepSidesClear, StepWalledEven
  <2> QED BY <2>1
<1>7. PICK there : StepMeets(here, there)
  BY StepPassageHereMet
<1> HIDE DEF here, steers, walk
<1>8. here # {} => steers = [yaw |-> yaws(here), by |-> "passage"]
  BY <1>4, <1>5
<1>9. here = {} => steers.by # "passage"
  BY <1>5, <1>6
<1>10. d.at[1] \in Int /\ d.at[2] \in Int
  BY StepSeenThings, StepThingsSeen
<1>11. CASE plan.by = "passage" /\ ~StepArc(ask)
  <2>1. here # {}
    BY <1>1, <1>9, <1>11
  <2>2. plan.yaw = yaws(here)
    BY <1>1, <1>8, <2>1
  <2> DEFINE p == CHOOSE p \in here : TRUE
  <2>3. p \in here /\ p.yaw = plan.yaw
    BY <2>1, <2>2
  <2>4. plan.yaw \in -100..100
    <3>1. plan.yaw \in -50..50
      BY <1>7, <2>1, <2>2, StepMeetsYaw
    <3> QED BY <3>1
  <2> HIDE DEF p, yaws
  <2>5. ~StepNearLeg(s, p, walk)
    BY <1>2, <1>11, <2>1, <2>3 DEF StepOverDrop
  <2>6. StepLegRuns(plan, walk) = StepLegRuns(p, walk)
    BY <2>3 DEF StepLegRuns
  <2>7. ASSUME NEW q \in StepLegRuns(plan, plan.walk)
        PROVE  (d.at[1] - q[1]) * (d.at[1] - q[1]) + (d.at[2] - q[2]) * (d.at[2] - q[2]) >= 10 * 10
    <3>1. q \in StepLegRuns(p, walk)
      BY <1>1, <2>6
    <3>2. ~((d.at[1] - q[1]) * (d.at[1] - q[1]) + (d.at[2] - q[2]) * (d.at[2] - q[2]) < 14 * 14)
      BY <2>5, <3>1 DEF StepNearLeg
    <3>3. q[1] \in Int /\ q[2] \in Int
      <4> DEFINE o == [yaw |-> -p.yaw]
      <4>1. p.yaw \in -100..100 /\ o.yaw = -p.yaw /\ walk \in 0..100
        BY <1>2, <2>3, <2>4
      <4> HIDE DEF o
      <4> QED BY <3>1, <4>1, StepRunsEven
    <3> DEFINE a == d.at[1] - q[1]
               b == d.at[2] - q[2]
    <3>4. a \in Int /\ b \in Int /\ ~(a * a + b * b < 14 * 14)
      BY <1>10, <3>2, <3>3
    <3> HIDE DEF a, b
    <3>5. a * a + b * b >= 10 * 10
      <4>1. a * a \in Int /\ b * b \in Int
        BY <3>4
      <4> QED BY <3>4, <4>1
    <3> QED BY <3>5 DEF a, b
  <2> QED BY <1>11, <2>7
<1>12. CASE ~(plan.by = "passage" /\ ~StepArc(ask))
  <2>1. here = {} \/ StepArc(ask)
    BY <1>1, <1>8, <1>12
  <2>2. ASSUME d.at[1] > 0, StepAbs(d.at[2]) <= 17
        PROVE  StepRange(d) >= (IF StepArc(ask) THEN 12 ELSE StepAdvance(ask, plan.walk)) + 15
    <3>0. ~IF here # {} /\ ~StepArc(ask) THEN \E p \in here : StepNearLeg(s, p, walk)
           ELSE IF StepArc(ask)
           THEN \/ StepDropRefuses(s, ask, <<100, 0>>, 12 + 15 + 10, lane, FALSE)
                \/ StepDropRefuses(s, ask, StepHeading(ask.yaw, walk), needed, lane, TRUE)
           ELSE StepDropRefuses(s, ask, <<100, 0>>, needed, lane, FALSE)
      <4>1. walk > 0
        BY <1>2
      <4> QED BY <1>2, <4>1 DEF StepOverDrop
    <3>1. lane \in Int /\ lane >= 17 /\ needed \in Int /\ 12 + 15 + 10 \in Int
      BY <1>3
    <3>2. CASE StepArc(ask)
      <4>1. ~StepDropRefuses(s, ask, <<100, 0>>, 12 + 15 + 10, lane, FALSE)
        BY <3>0, <3>2
      <4>2. StepRange(d) \in Int /\ (StepRange(d) >= 12 + 15 + 10 \/ StepRange(d) >= 27)
        <5> DEFINE n == 12 + 15 + 10
        <5> HIDE DEF n, lane
        <5>1. StepRange(d) \in Int /\ (StepRange(d) >= n \/ StepRange(d) >= 27)
          BY <2>2, <3>1, <4>1, StepRefusesNear DEF n
        <5> QED BY <5>1 DEF n
      <4> QED BY <3>2, <4>2
    <3>3. CASE ~StepArc(ask)
      <4>1. ~StepDropRefuses(s, ask, <<100, 0>>, needed, lane, FALSE)
        BY <2>1, <3>0, <3>3
      <4>2. StepRange(d) \in Int /\ StepRange(d) >= needed
        <5> HIDE DEF needed, lane
        <5> QED BY <2>2, <3>1, <3>3, <4>1, StepRefusesNear
      <4>3. needed >= StepAdvance(ask, walk) + 15
        BY <1>3
      <4> QED BY <1>1, <1>3, <3>1, <3>3, <4>2, <4>3
    <3> QED BY <3>2, <3>3
  <2> QED BY <1>12, <2>2
<1> QED BY <1>11, <1>12

StepShape ==
  [world : StepFloor, known : BOOLEAN, frames : Seq(StepSeen), asked : StepForward, plan : StepPlans, done : BOOLEAN]

(* Until a leg is asked for nothing is planned.                              *)
StepInv == step \in StepShape /\ StepTypeOK /\ StepTrue /\ (~step.done => step.plan = StepNo)

(* A ray the map may show.                                                   *)
LEMMA StepRaysSound ==
  ASSUME NEW n \in Nat \ {0}, NEW kind \in {"wall", "unknown"}
  PROVE  StepRay(n, kind) \in Seq(StepKinds)
BY DEF StepRay, StepKinds

(* What the map shows about the body, with what is there besides.            *)
StepAmong(one, ahead, left, right) ==
  [drops |-> IF "hole" \in DOMAIN one THEN {one.hole} ELSE {},
   obstacles |-> IF "box" \in DOMAIN one THEN {one.box} ELSE {},
   rays |-> StepRays(ahead, left, right)]

(* The worlds are floors.                                                    *)
LEMMA StepWorldsSound == StepWorlds \subseteq StepFloor /\ StepBare \in StepFloor
<1>1. ASSUME NEW ahead \in Seq(StepKinds), NEW left \in Seq(StepKinds), NEW right \in Seq(StepKinds)
      PROVE  StepRays(ahead, left, right) \in [StepSides -> Seq(StepKinds)]
  BY DEF StepRays, StepSides
<1>2. /\ StepRay(9, "wall") \in Seq(StepKinds) /\ StepRay(8, "wall") \in Seq(StepKinds) /\ StepRay(2, "unknown") \in Seq(StepKinds)
      /\ StepRay(1, "wall") \in Seq(StepKinds) /\ StepRay(3, "wall") \in Seq(StepKinds)
  BY StepRaysSound
<1>3. ASSUME NEW n \in StepRooms, NEW kind \in {"wall", "unknown"} PROVE StepRay(n, kind) \in Seq(StepKinds)
  BY StepAssumption, StepRaysSound
<1>4. ASSUME NEW d \in StepHoles, NEW e \in StepHoles
      PROVE  [drops |-> {d, e}, obstacles |-> {}, rays |-> StepOpen] \in StepFloor
  BY <1>1, <1>2 DEF StepFloor, StepOpen
<1>5. ASSUME NEW one \in {<<>>} \union {[hole |-> d] : d \in StepHoles} \union {[box |-> b] : b \in StepBoxes},
             NEW ahead \in {StepRay(n, kind) : n \in StepRooms, kind \in {"wall", "unknown"}},
             NEW left \in {StepRay(8, "wall"), StepRay(2, "unknown")},
             NEW right \in {StepRay(1, "wall"), StepRay(3, "wall")}
      PROVE  StepAmong(one, ahead, left, right) \in StepFloor
  <2> DEFINE drops == IF "hole" \in DOMAIN one THEN {one.hole} ELSE {}
             boxes == IF "box" \in DOMAIN one THEN {one.box} ELSE {}
             rays == StepRays(ahead, left, right)
  <2>1. rays \in [StepSides -> Seq(StepKinds)]
    <3>1. ahead \in Seq(StepKinds)
      BY <1>3
    <3>2. left \in Seq(StepKinds) /\ right \in Seq(StepKinds)
      BY <1>2
    <3> QED BY <1>1, <3>1, <3>2
  <2>2. drops \subseteq StepHoles /\ boxes \subseteq StepBoxes
    <3>1. CASE one = <<>>
      BY <3>1
    <3>2. CASE \E d \in StepHoles : one = [hole |-> d]
      BY <3>2
    <3>3. CASE \E b \in StepBoxes : one = [box |-> b]
      BY <3>3
    <3> QED BY <3>1, <3>2, <3>3
  <2> HIDE DEF drops, boxes, rays
  <2>3. [drops |-> drops, obstacles |-> boxes, rays |-> rays] \in StepFloor
    BY <2>1, <2>2 DEF StepFloor
  <2> QED BY <2>3 DEF drops, boxes, rays, StepAmong
<1>6. ASSUME NEW world \in StepWorlds PROVE world \in StepFloor
  <2>1. CASE world \in {[drops |-> {d, e}, obstacles |-> {}, rays |-> StepOpen] : d \in StepHoles, e \in StepHoles}
    BY <1>4, <2>1
  <2>2. CASE world \notin {[drops |-> {d, e}, obstacles |-> {}, rays |-> StepOpen] : d \in StepHoles, e \in StepHoles}
    <3>1. PICK one \in {<<>>} \union {[hole |-> d] : d \in StepHoles} \union {[box |-> b] : b \in StepBoxes},
               ahead \in {StepRay(n, kind) : n \in StepRooms, kind \in {"wall", "unknown"}},
               left \in {StepRay(8, "wall"), StepRay(2, "unknown")},
               right \in {StepRay(1, "wall"), StepRay(3, "wall")} :
             world = StepAmong(one, ahead, left, right)
      BY <2>2 DEF StepWorlds, StepAmong
    <3> QED BY <1>5, <3>1
  <2> QED BY <2>1, <2>2
<1>7. StepBare \in StepFloor
  BY <1>1, <1>2 DEF StepFloor, StepOpen, StepBare
<1> QED BY <1>6, <1>7

(* The invariant, at first and step by step.                                 *)
LEMMA StepStartInv ==
  ASSUME NEW world \in StepFloor, NEW known \in BOOLEAN, step = StepStart(world, known)
  PROVE  StepInv
<1>2. StepAsk(0, 30, 0, "no") \in StepForward /\ StepNo \in StepPlans
  BY DEF StepAsk, StepForward, StepNo, StepPlans
<1>3. step = [world |-> world, known |-> known, frames |-> <<>>, asked |-> StepAsk(0, 30, 0, "no"), plan |-> StepNo, done |-> FALSE]
  BY DEF StepStart
<1>4. step \in StepShape
  BY <1>2, <1>3 DEF StepShape
<1>5. StepTypeOK
  BY <1>2, <1>3, StepAssumption DEF StepTypeOK, StepPlans
<1>6. StepTrue
  BY <1>3 DEF StepTrue, StepOffHoles, StepOffWalls, StepEvenHanded, StepNo
<1> QED BY <1>3, <1>4, <1>5, <1>6 DEF StepInv

LEMMA StepInitInv == StepInit => StepInv
BY StepWorldsSound, StepStartInv DEF StepInit

(* Nothing is promised of what is not admitted.                              *)
LEMMA StepNothingPlanned ==
  ASSUME step.plan = StepNo PROVE StepTrue
BY DEF StepTrue, StepOffHoles, StepOffWalls, StepEvenHanded, StepNo

LEMMA StepNothingPlannedNext ==
  ASSUME step'.plan = StepNo PROVE StepTrue'
BY DEF StepTrue, StepOffHoles, StepOffWalls, StepEvenHanded, StepNo

(* A look or the time that goes by leaves the frames what they were taken.   *)
LEMMA StepFramesKeep ==
  ASSUME StepInv, ~step.done, NEW frames \in Seq(StepSeen), Len(frames) <= StepFrames, step' = [step EXCEPT !.frames = frames]
  PROVE  StepInv'
<1>1. step \in StepShape
  BY DEF StepInv
<1>2. /\ step'.world = step.world /\ step'.known = step.known /\ step'.frames = frames /\ step'.asked = step.asked
      /\ step'.plan = step.plan /\ step'.done = step.done /\ step' \in StepShape
  BY <1>1 DEF StepShape
<1>3. step'.plan = StepNo
  BY <1>2 DEF StepInv
<1>4. StepTrue'
  BY <1>3, StepNothingPlannedNext
<1>5. \A k \in DOMAIN frames : frames[k].age \in 0..1 /\ frames[k].head \in -1..1
  <2>1. \A k \in DOMAIN frames : frames[k] \in StepSeen
    OBVIOUS
  <2>2. \A f \in StepSeen : f.age \in 0..1 /\ f.head \in -1..1
    BY DEF StepSeen
  <2> QED BY <2>1, <2>2
<1>6. StepTypeOK'
  BY <1>2, <1>5 DEF StepInv, StepTypeOK
<1> QED BY <1>2, <1>3, <1>4, <1>6 DEF StepInv

LEMMA StepLooksKeeps == ASSUME StepInv, StepLooks PROVE StepInv'
<1>1. PICK turned \in {-1, 0, 1}, moving \in BOOLEAN :
        step' = [step EXCEPT !.frames = Append(step.frames,
          [age |-> 0, moving |-> moving, head |-> turned,
           drops |-> {t \in step.world.drops : StepSees(t, turned)},
           obstacles |-> {t \in step.world.obstacles : StepSees(t, turned)}])]
  BY DEF StepLooks
<1> DEFINE look == [age |-> 0, moving |-> moving, head |-> turned,
                    drops |-> {t \in step.world.drops : StepSees(t, turned)},
                    obstacles |-> {t \in step.world.obstacles : StepSees(t, turned)}]
           frames == Append(step.frames, look)
<1>2. step.frames \in Seq(StepSeen) /\ step.world.drops \subseteq StepHoles /\ step.world.obstacles \subseteq StepBoxes
  BY DEF StepInv, StepShape, StepFloor
<1>3. look \in StepSeen
  BY <1>2 DEF StepSeen
<1>4. ~step.done /\ Len(step.frames) < StepFrames
  BY DEF StepLooks
<1> HIDE DEF look
<1>5. frames \in Seq(StepSeen) /\ Len(frames) <= StepFrames
  BY <1>2, <1>3, <1>4, StepAssumption
<1>6. step' = [step EXCEPT !.frames = frames]
  BY <1>1 DEF look
<1> HIDE DEF frames
<1> QED BY <1>4, <1>5, <1>6, StepFramesKeep

LEMMA StepAgesKeeps == ASSUME StepInv, StepAges PROVE StepInv'
<1> DEFINE frames == [k \in DOMAIN step.frames |-> [step.frames[k] EXCEPT !.age = 1]]
<1>1. step' = [step EXCEPT !.frames = frames] /\ ~step.done
  BY DEF StepAges
<1>2. step.frames \in Seq(StepSeen) /\ Len(step.frames) <= StepFrames
  BY DEF StepInv, StepShape, StepTypeOK
<1>3. frames \in Seq(StepSeen) /\ Len(frames) = Len(step.frames)
  <2> DEFINE n == Len(step.frames)
  <2>1. n \in Nat /\ DOMAIN step.frames = 1..n
    BY <1>2
  <2>2. ASSUME NEW k \in 1..n PROVE frames[k] \in StepSeen
    <3>1. step.frames[k] \in StepSeen /\ frames[k] = [step.frames[k] EXCEPT !.age = 1]
      BY <1>2, <2>1
    <3> DEFINE f == step.frames[k]
    <3>2. f \in StepSeen /\ frames[k] = [f EXCEPT !.age = 1]
      BY <3>1
    <3> HIDE DEF f, frames
    <3> QED BY <3>2 DEF StepSeen
  <2>3. frames \in [1..n -> StepSeen]
    BY <2>1, <2>2
  <2> HIDE DEF frames
  <2>4. frames \in Seq(StepSeen) /\ Len(frames) = n
    BY <2>1, <2>3
  <2> QED BY <2>4
<1> HIDE DEF frames
<1> QED BY <1>1, <1>2, <1>3, StepFramesKeep

(* The mirrored state is the mirror's.                                       *)
LEMMA StepMirroredIs ==
  ASSUME NEW s \in StepShape
  PROVE  StepMirrors(StepMirrored(s), s)
<1> DEFINE m == StepMirrored(s)
           world == StepTurnedRound(s.world)
           frames == [k \in DOMAIN s.frames |-> StepSeenRound(s.frames[k])]
<1>1. s.world \in StepFloor /\ s.known \in BOOLEAN /\ s.frames \in Seq(StepSeen)
  BY DEF StepShape
<1>2. m.world = world /\ m.known = s.known /\ m.frames = frames
  BY DEF StepMirrored, StepShape
<1>3. world \in StepFloor /\ \A a \in StepSides : world.rays[a] = s.world.rays[StepOther(a)]
  <2> DEFINE w == s.world
             rays == [a \in DOMAIN w.rays |-> w.rays[StepOther(a)]]
  <2>1. w \in StepFloor /\ w.rays \in [StepSides -> Seq(StepKinds)]
    BY <1>1 DEF StepFloor
  <2>2. \A a \in StepSides : StepOther(a) \in StepSides
    BY DEF StepSides, StepOther
  <2>3. rays \in [StepSides -> Seq(StepKinds)] /\ \A a \in StepSides : rays[a] = w.rays[StepOther(a)]
    BY <2>1, <2>2
  <2>4. StepTurnedRound(w) = [w EXCEPT !.rays = rays]
    BY DEF StepTurnedRound
  <2> HIDE DEF w, rays
  <2>5. StepTurnedRound(w).rays = rays /\ StepTurnedRound(w) \in StepFloor
    BY <2>1, <2>3, <2>4 DEF StepFloor
  <2> QED BY <2>3, <2>5 DEF w
<1>4. ASSUME NEW f \in StepSeen
      PROVE  /\ StepSeenRound(f) \in StepSeen
             /\ StepSeenRound(f).age = f.age /\ StepSeenRound(f).moving = f.moving /\ StepSeenRound(f).head = -f.head
             /\ StepSeenRound(f).drops = StepFlips(f.drops) /\ StepSeenRound(f).obstacles = StepFlips(f.obstacles)
  <2> DEFINE drops == StepFlips(f.drops)
             boxes == StepFlips(f.obstacles)
             look == -f.head
  <2>1. drops \subseteq StepHoles /\ boxes \subseteq StepBoxes
    BY StepFlipIs DEF StepSeen, StepFlips
  <2>2. look \in -1..1
    BY DEF StepSeen
  <2>3. StepSeenRound(f) = [f EXCEPT !.drops = drops, !.obstacles = boxes, !.head = look]
    BY DEF StepSeenRound
  <2> HIDE DEF drops, boxes, look
  <2>4. StepSeenRound(f) \in StepSeen
    BY <2>1, <2>2, <2>3 DEF StepSeen
  <2>5. /\ StepSeenRound(f).age = f.age /\ StepSeenRound(f).moving = f.moving /\ StepSeenRound(f).head = look
        /\ StepSeenRound(f).drops = drops /\ StepSeenRound(f).obstacles = boxes
    BY <2>3 DEF StepSeen
  <2> QED BY <2>4, <2>5 DEF drops, boxes, look
<1>5. \A k \in DOMAIN s.frames : s.frames[k] \in StepSeen /\ frames[k] = StepSeenRound(s.frames[k])
  BY <1>1
<1>6. frames \in Seq(StepSeen) /\ DOMAIN frames = DOMAIN s.frames
  <2> DEFINE n == Len(s.frames)
  <2>1. n \in Nat /\ DOMAIN s.frames = 1..n
    BY <1>1
  <2>2. frames \in [1..n -> StepSeen]
    BY <1>4, <1>5, <2>1
  <2> HIDE DEF n, frames
  <2> QED BY <2>1, <2>2
<1> HIDE DEF world, frames, m
<1>7. StepSound(m)
  BY <1>1, <1>2, <1>3, <1>6 DEF StepSound
<1> QED BY <1>2, <1>3, <1>4, <1>5, <1>6, <1>7 DEF StepMirrors, m

LEMMA StepAskedKeeps == ASSUME StepInv, StepAsked PROVE StepInv'
<1>1. PICK ask \in StepAsks : step' = [step EXCEPT !.asked = ask, !.plan = StepPlanned(step, ask), !.done = TRUE]
  BY DEF StepAsked
<1> DEFINE plan == StepPlanned(step, ask)
<1>2. ask \in StepForward /\ step \in StepShape
  BY StepAsksTyped DEF StepInv
<1>3. StepSound(step)
  BY <1>2 DEF StepShape, StepSound
<1>4. plan \in StepPlans
  BY <1>2, <1>3, StepPlannedTyped
<1>5. plan = StepPlanned(step, ask)
  OBVIOUS
<1>6. step' = [step EXCEPT !.asked = ask, !.plan = plan, !.done = TRUE]
  BY <1>1
<1> HIDE DEF plan
<1>7. /\ step'.world = step.world /\ step'.known = step.known /\ step'.frames = step.frames /\ step'.asked = ask
      /\ step'.plan = plan /\ step'.done = TRUE /\ step' \in StepShape
  BY <1>2, <1>4, <1>6 DEF StepShape
<1>8. StepDrops(step') = StepDrops(step)
  BY <1>7 DEF StepDrops, StepFresh
<1>9. StepTypeOK'
  BY <1>4, <1>7 DEF StepInv, StepTypeOK, StepPlans
<1>10. StepOffHoles'
  <2> SUFFICES ASSUME plan.ok, ask.vx > 0, plan.walk > 0, plan.by # "wall", ~(ask.alone /\ plan.gap), NEW d \in StepDrops(step)
               PROVE  LET reach == IF StepArc(ask) THEN 12 ELSE StepAdvance(ask, plan.walk)
                      IN  IF plan.by = "passage" /\ ~StepArc(ask)
                          THEN \A q \in StepLegRuns(plan, plan.walk) :
                                 (d.at[1] - q[1]) * (d.at[1] - q[1]) + (d.at[2] - q[2]) * (d.at[2] - q[2]) >= 10 * 10
                          ELSE d.at[1] > 0 /\ StepAbs(d.at[2]) <= 17 => StepRange(d) >= reach + 15
    BY <1>7, <1>8 DEF StepOffHoles
  <2> QED BY <1>2, <1>3, <1>5, StepPlannedOffHoles
<1>11. StepOffWalls'
  <2>1. ASSUME plan.ok, plan.walk > 0
        PROVE  /\ plan.walk <= ask.walk /\ (plan.walk >= 10 \/ plan.walk = ask.walk)
               /\ (step.known /\ StepFloorAhead(step, ask).by = "wall") =>
                    StepAdvance(ask, plan.walk) + StepMargin(ask, plan.gap) <= StepFloorAhead(step, ask).free
    BY <1>2, <1>3, <1>5, <2>1, StepPlannedOffWalls
  <2>2. StepFloorAhead(step', ask) = StepFloorAhead(step, ask)
    BY <1>7 DEF StepFloorAhead
  <2> QED BY <1>7, <2>1, <2>2 DEF StepOffWalls, StepFloorAhead
<1>12. StepEvenHanded'
  <2> DEFINE m == StepMirrored(step')
             other == StepPlanned(m, [ask EXCEPT !.yaw = -@])
  <2>1. ASSUME StepNoTie(step') PROVE other = [plan EXCEPT !.yaw = -@]
    <3>1. StepMirrors(m, step')
      BY <1>7, StepMirroredIs
    <3> HIDE DEF m
    <3>2. StepMirrors(m, step)
      BY <1>7, <3>1 DEF StepMirrors
    <3>3. StepNoTie(step)
      BY <1>7, <1>8, <2>1 DEF StepNoTie
    <3>4. StepPlanned(m, StepTurned(ask)) = StepPlanTurned(plan)
      BY <1>2, <1>3, <1>5, <3>2, <3>3, StepPlannedEven
    <3>5. other = StepPlanTurned(plan)
      BY <3>4 DEF StepTurned
    <3> HIDE DEF other
    <3>6. [plan EXCEPT !.yaw = -@] = [ok |-> plan.ok, walk |-> plan.walk, yaw |-> -plan.yaw, by |-> plan.by, gap |-> plan.gap]
      BY <1>4 DEF StepPlans
    <3> QED BY <3>5, <3>6 DEF StepPlanTurned
  <2> HIDE DEF other
  <2>2. StepEvenHanded' <=> (plan # StepNo /\ StepNoTie(step') => other = [plan EXCEPT !.yaw = -@])
    BY <1>7 DEF StepEvenHanded, other
  <2> QED BY <2>1, <2>2
<1> QED BY <1>7, <1>9, <1>10, <1>11, <1>12 DEF StepInv, StepTrue

(* Every step keeps it.                                                      *)
LEMMA StepStepKeeps == StepInv /\ [StepNext]_step => StepInv'
<1> SUFFICES ASSUME StepInv, [StepNext]_step PROVE StepInv'
  OBVIOUS
<1>1. CASE UNCHANGED step
  BY <1>1 DEF StepInv, StepTypeOK, StepTrue, StepOffHoles, StepOffWalls, StepEvenHanded
<1> QED BY <1>1, StepLooksKeeps, StepAgesKeeps, StepAskedKeeps DEF StepNext

(* Whatever was seen and whatever is asked for, the plan keeps an admitted   *)
(* leg off the holes and the walls and has no favourite side.                *)
THEOREM StepHolds == StepSpec => [](StepTypeOK /\ StepTrue)
<1>1. StepInv /\ [StepNext]_step => StepInv'
  BY StepStepKeeps
<1>2. StepInv => StepTypeOK /\ StepTrue
  BY DEF StepInv
<1> QED BY <1>1, <1>2, StepInitInv, PTL DEF StepSpec

-----------------------------------------------------------------------------
(* The explorer's turns.                                                      *)
TurnRecords ==
  [at : {"turn", "way", "over"}, aim : {"none", "frontier", "anchor", "look"},
   why : {"none", "asked", "budget", "lost", "distrust", "slivers", "done"},
   target : TurnSpots \cup {TurnNoSpot}, visited : SUBSET TurnSpots,
   refused : SUBSET TurnSpots, cleared : BOOLEAN,
   stuck : 0 .. TurnStuckMax, same : 0 .. TurnSame,
   noGo : BOOLEAN, forgets : 0 .. TurnForgets, looks : 0 .. TurnLooks,
   base : BOOLEAN, served : 0 .. TurnPatience + 1,
   lost : BOOLEAN, fell : {"no", "down", "up"},
   unsettled : 0 .. TurnSettle, distrust : 0 .. TurnDistrust,
   panoramas : 0 .. TurnPanoramas,
   anchor : BOOLEAN, anchored : BOOLEAN, arrived : BOOLEAN,
   planless : 0 .. TurnStuckMax]
TurnHouses ==
  [trusted : BOOLEAN, seated : BOOLEAN, gone : SUBSET TurnBigs,
   grew : BOOLEAN, growth : 0 .. TurnGrowth, troubles : 0 .. TurnTroubles]
(* A way is of something.                                                    *)
TurnJobs == {t \in TurnRecords : t.at = "way" => t.aim # "none"}
TurnPairs == TurnJobs \X TurnHouses

(* A count below its bound may go up by one, and what is left of one down.   *)
LEMMA TurnBounds ==
  /\ 0 \in 0 .. TurnPatience + 1 /\ 0 \in 0 .. TurnStuckMax /\ 0 \in 0 .. TurnSame
  /\ \A n \in 0 .. TurnStuckMax : n < TurnStuckMax => n + 1 \in 0 .. TurnStuckMax
  /\ \A n \in 0 .. TurnForgets : n < TurnForgets => n + 1 \in 0 .. TurnForgets
  /\ \A n \in 0 .. TurnLooks : n < TurnLooks => n + 1 \in 0 .. TurnLooks
  /\ \A n \in 0 .. TurnPanoramas : n < TurnPanoramas => n + 1 \in 0 .. TurnPanoramas
  /\ \A n \in 0 .. TurnSame : n < TurnSame => n + 1 \in 0 .. TurnSame
  /\ \A n \in 0 .. TurnGrowth : n > 0 => n - 1 \in 0 .. TurnGrowth
  /\ \A n \in 0 .. TurnTroubles : (n > 0 <=> n # 0) /\ (n > 0 => n - 1 \in 0 .. TurnTroubles)
BY TurnAssumption

(* What a turn sets of its job, within the bounds.                           *)
LEMMA TurnSet ==
  ASSUME NEW t \in TurnJobs
  PROVE  /\ \A x \in {"turn", "over"} : [t EXCEPT !.at = x] \in TurnJobs
         /\ \A x \in {"frontier", "anchor", "look"} : [t EXCEPT !.aim = x] \in TurnJobs
         /\ \A x \in 0 .. TurnStuckMax : [t EXCEPT !.planless = x] \in TurnJobs
         /\ \A x \in BOOLEAN : [t EXCEPT !.arrived = x] \in TurnJobs
         /\ \A x \in TurnSpots \cup {TurnNoSpot} : [t EXCEPT !.target = x] \in TurnJobs
         /\ \A x \in SUBSET TurnSpots : [t EXCEPT !.refused = x] \in TurnJobs
         /\ \A x \in BOOLEAN : [t EXCEPT !.anchored = x] \in TurnJobs
         /\ \A x \in BOOLEAN : [t EXCEPT !.anchor = x] \in TurnJobs
         /\ \A x \in 0 .. TurnStuckMax : [t EXCEPT !.stuck = x] \in TurnJobs
         /\ \A x \in 0 .. TurnSame : [t EXCEPT !.same = x] \in TurnJobs
         /\ \A x \in BOOLEAN : [t EXCEPT !.noGo = x] \in TurnJobs
         /\ \A x \in SUBSET TurnSpots : [t EXCEPT !.visited = x] \in TurnJobs
         /\ \A x \in 0 .. TurnPanoramas : [t EXCEPT !.panoramas = x] \in TurnJobs
         /\ \A x \in 0 .. TurnDistrust : [t EXCEPT !.distrust = x] \in TurnJobs
         /\ \A x \in 0 .. TurnSettle : [t EXCEPT !.unsettled = x] \in TurnJobs
         /\ \A x \in BOOLEAN : [t EXCEPT !.cleared = x] \in TurnJobs
         /\ \A x \in BOOLEAN : [t EXCEPT !.base = x] \in TurnJobs
         /\ \A x \in 0 .. TurnPatience + 1 : [t EXCEPT !.served = x] \in TurnJobs
         /\ \A x \in 0 .. TurnLooks : [t EXCEPT !.looks = x] \in TurnJobs
         /\ \A x \in 0 .. TurnForgets : [t EXCEPT !.forgets = x] \in TurnJobs
         /\ \A x \in BOOLEAN : [t EXCEPT !.lost = x] \in TurnJobs
         /\ \A x \in {"no", "down", "up"} : [t EXCEPT !.fell = x] \in TurnJobs
<1>1. /\ \A x \in {"turn", "over"} : [t EXCEPT !.at = x] \in TurnJobs
      /\ \A x \in {"frontier", "anchor", "look"} : [t EXCEPT !.aim = x] \in TurnJobs
      /\ \A x \in 0 .. TurnStuckMax : [t EXCEPT !.planless = x] \in TurnJobs
      /\ \A x \in BOOLEAN : [t EXCEPT !.arrived = x] \in TurnJobs
  BY DEF TurnJobs, TurnRecords
<1>2. /\ \A x \in TurnSpots \cup {TurnNoSpot} : [t EXCEPT !.target = x] \in TurnJobs
      /\ \A x \in SUBSET TurnSpots : [t EXCEPT !.refused = x] \in TurnJobs
      /\ \A x \in BOOLEAN : [t EXCEPT !.anchored = x] \in TurnJobs
      /\ \A x \in BOOLEAN : [t EXCEPT !.anchor = x] \in TurnJobs
  BY DEF TurnJobs, TurnRecords
<1>3. /\ \A x \in 0 .. TurnStuckMax : [t EXCEPT !.stuck = x] \in TurnJobs
      /\ \A x \in 0 .. TurnSame : [t EXCEPT !.same = x] \in TurnJobs
      /\ \A x \in BOOLEAN : [t EXCEPT !.noGo = x] \in TurnJobs
      /\ \A x \in SUBSET TurnSpots : [t EXCEPT !.visited = x] \in TurnJobs
  BY DEF TurnJobs, TurnRecords
<1>4. /\ \A x \in 0 .. TurnPanoramas : [t EXCEPT !.panoramas = x] \in TurnJobs
      /\ \A x \in 0 .. TurnDistrust : [t EXCEPT !.distrust = x] \in TurnJobs
      /\ \A x \in 0 .. TurnSettle : [t EXCEPT !.unsettled = x] \in TurnJobs
      /\ \A x \in BOOLEAN : [t EXCEPT !.cleared = x] \in TurnJobs
  BY DEF TurnJobs, TurnRecords
<1>5. /\ \A x \in BOOLEAN : [t EXCEPT !.base = x] \in TurnJobs
      /\ \A x \in 0 .. TurnPatience + 1 : [t EXCEPT !.served = x] \in TurnJobs
      /\ \A x \in 0 .. TurnLooks : [t EXCEPT !.looks = x] \in TurnJobs
      /\ \A x \in 0 .. TurnForgets : [t EXCEPT !.forgets = x] \in TurnJobs
  BY DEF TurnJobs, TurnRecords
<1>6. /\ \A x \in BOOLEAN : [t EXCEPT !.lost = x] \in TurnJobs
      /\ \A x \in {"no", "down", "up"} : [t EXCEPT !.fell = x] \in TurnJobs
  BY DEF TurnJobs, TurnRecords
<1> QED BY <1>1, <1>2, <1>3, <1>4, <1>5, <1>6


(* And several at once.                                                      *)
LEMMA TurnSets ==
  ASSUME NEW t \in TurnJobs
  PROVE  /\ \A x \in TurnSpots \cup {TurnNoSpot}, y \in SUBSET TurnSpots, z \in BOOLEAN :
              [t EXCEPT !.target = x, !.refused = y, !.anchored = z] \in TurnJobs
         /\ \A x \in BOOLEAN, y \in BOOLEAN, z \in BOOLEAN :
              [t EXCEPT !.anchor = x, !.anchored = y, !.arrived = z] \in TurnJobs
         /\ \A x \in 0 .. TurnStuckMax, y \in 0 .. TurnSame, z \in BOOLEAN :
              [t EXCEPT !.stuck = x, !.same = y, !.noGo = z] \in TurnJobs
         /\ \A x \in 0 .. TurnSame, y \in BOOLEAN :
              [t EXCEPT !.same = x, !.noGo = y] \in TurnJobs
         /\ \A x \in SUBSET TurnSpots, y \in TurnSpots \cup {TurnNoSpot}, z \in BOOLEAN :
              [t EXCEPT !.visited = x, !.target = y, !.anchored = z] \in TurnJobs
         /\ \A x \in SUBSET TurnSpots, y \in SUBSET TurnSpots :
              [t EXCEPT !.visited = x, !.refused = y] \in TurnJobs
         /\ \A x \in 0 .. TurnPanoramas, y \in BOOLEAN :
              [t EXCEPT !.panoramas = x, !.arrived = y] \in TurnJobs
         /\ \A x \in 0 .. TurnDistrust, y \in 0 .. TurnSettle, z \in BOOLEAN :
              [t EXCEPT !.distrust = x, !.unsettled = y, !.arrived = z] \in TurnJobs
         /\ \A x \in 0 .. TurnSettle, y \in BOOLEAN :
              [t EXCEPT !.unsettled = x, !.arrived = y] \in TurnJobs
         /\ \A x \in TurnSpots \cup {TurnNoSpot}, y \in 0 .. TurnSettle :
              [t EXCEPT !.target = x, !.unsettled = y] \in TurnJobs
         /\ \A x \in TurnSpots \cup {TurnNoSpot}, y \in BOOLEAN :
              [t EXCEPT !.target = x, !.arrived = y] \in TurnJobs
         /\ \A x \in SUBSET TurnSpots, y \in BOOLEAN :
              [t EXCEPT !.refused = x, !.cleared = y] \in TurnJobs
         /\ \A x \in BOOLEAN, y \in 0 .. TurnPatience + 1 :
              [t EXCEPT !.base = x, !.served = y] \in TurnJobs
<1>1. ASSUME NEW x \in TurnSpots \cup {TurnNoSpot}, NEW y \in SUBSET TurnSpots, NEW z \in BOOLEAN
      PROVE  [t EXCEPT !.target = x, !.refused = y, !.anchored = z] \in TurnJobs
  <2>1. [t EXCEPT !.target = x] \in TurnJobs
    BY TurnSet
  <2>2. [[t EXCEPT !.target = x] EXCEPT !.refused = y] \in TurnJobs
    BY <2>1, TurnSet
  <2>3. [[[t EXCEPT !.target = x] EXCEPT !.refused = y] EXCEPT !.anchored = z] \in TurnJobs
    BY <2>2, TurnSet
  <2> QED BY <2>3
<1>2. ASSUME NEW x \in BOOLEAN, NEW y \in BOOLEAN, NEW z \in BOOLEAN
      PROVE  [t EXCEPT !.anchor = x, !.anchored = y, !.arrived = z] \in TurnJobs
  <2>1. [t EXCEPT !.anchor = x] \in TurnJobs
    BY TurnSet
  <2>2. [[t EXCEPT !.anchor = x] EXCEPT !.anchored = y] \in TurnJobs
    BY <2>1, TurnSet
  <2>3. [[[t EXCEPT !.anchor = x] EXCEPT !.anchored = y] EXCEPT !.arrived = z] \in TurnJobs
    BY <2>2, TurnSet
  <2> QED BY <2>3
<1>3. ASSUME NEW x \in 0 .. TurnStuckMax, NEW y \in 0 .. TurnSame, NEW z \in BOOLEAN
      PROVE  [t EXCEPT !.stuck = x, !.same = y, !.noGo = z] \in TurnJobs
  <2>1. [t EXCEPT !.stuck = x] \in TurnJobs
    BY TurnSet
  <2>2. [[t EXCEPT !.stuck = x] EXCEPT !.same = y] \in TurnJobs
    BY <2>1, TurnSet
  <2>3. [[[t EXCEPT !.stuck = x] EXCEPT !.same = y] EXCEPT !.noGo = z] \in TurnJobs
    BY <2>2, TurnSet
  <2> QED BY <2>3
<1>4. ASSUME NEW x \in 0 .. TurnSame, NEW y \in BOOLEAN
      PROVE  [t EXCEPT !.same = x, !.noGo = y] \in TurnJobs
  <2>1. [t EXCEPT !.same = x] \in TurnJobs
    BY TurnSet
  <2>2. [[t EXCEPT !.same = x] EXCEPT !.noGo = y] \in TurnJobs
    BY <2>1, TurnSet
  <2> QED BY <2>2
<1>5. ASSUME NEW x \in SUBSET TurnSpots, NEW y \in TurnSpots \cup {TurnNoSpot}, NEW z \in BOOLEAN
      PROVE  [t EXCEPT !.visited = x, !.target = y, !.anchored = z] \in TurnJobs
  <2>1. [t EXCEPT !.visited = x] \in TurnJobs
    BY TurnSet
  <2>2. [[t EXCEPT !.visited = x] EXCEPT !.target = y] \in TurnJobs
    BY <2>1, TurnSet
  <2>3. [[[t EXCEPT !.visited = x] EXCEPT !.target = y] EXCEPT !.anchored = z] \in TurnJobs
    BY <2>2, TurnSet
  <2> QED BY <2>3
<1>6. ASSUME NEW x \in SUBSET TurnSpots, NEW y \in SUBSET TurnSpots
      PROVE  [t EXCEPT !.visited = x, !.refused = y] \in TurnJobs
  <2>1. [t EXCEPT !.visited = x] \in TurnJobs
    BY TurnSet
  <2>2. [[t EXCEPT !.visited = x] EXCEPT !.refused = y] \in TurnJobs
    BY <2>1, TurnSet
  <2> QED BY <2>2
<1>7. ASSUME NEW x \in 0 .. TurnPanoramas, NEW y \in BOOLEAN
      PROVE  [t EXCEPT !.panoramas = x, !.arrived = y] \in TurnJobs
  <2>1. [t EXCEPT !.panoramas = x] \in TurnJobs
    BY TurnSet
  <2>2. [[t EXCEPT !.panoramas = x] EXCEPT !.arrived = y] \in TurnJobs
    BY <2>1, TurnSet
  <2> QED BY <2>2
<1>8. ASSUME NEW x \in 0 .. TurnDistrust, NEW y \in 0 .. TurnSettle, NEW z \in BOOLEAN
       PROVE  [t EXCEPT !.distrust = x, !.unsettled = y, !.arrived = z] \in TurnJobs
  <2>1. [t EXCEPT !.distrust = x] \in TurnJobs
    BY TurnSet
  <2>2. [[t EXCEPT !.distrust = x] EXCEPT !.unsettled = y] \in TurnJobs
    BY <2>1, TurnSet
  <2>3. [[[t EXCEPT !.distrust = x] EXCEPT !.unsettled = y] EXCEPT !.arrived = z] \in TurnJobs
    BY <2>2, TurnSet
  <2> QED BY <2>3
<1>9. ASSUME NEW x \in 0 .. TurnSettle, NEW y \in BOOLEAN
       PROVE  [t EXCEPT !.unsettled = x, !.arrived = y] \in TurnJobs
  <2>1. [t EXCEPT !.unsettled = x] \in TurnJobs
    BY TurnSet
  <2>2. [[t EXCEPT !.unsettled = x] EXCEPT !.arrived = y] \in TurnJobs
    BY <2>1, TurnSet
  <2> QED BY <2>2
<1>10. ASSUME NEW x \in TurnSpots \cup {TurnNoSpot}, NEW y \in 0 .. TurnSettle
       PROVE  [t EXCEPT !.target = x, !.unsettled = y] \in TurnJobs
  <2>1. [t EXCEPT !.target = x] \in TurnJobs
    BY TurnSet
  <2>2. [[t EXCEPT !.target = x] EXCEPT !.unsettled = y] \in TurnJobs
    BY <2>1, TurnSet
  <2> QED BY <2>2
<1>11. ASSUME NEW x \in TurnSpots \cup {TurnNoSpot}, NEW y \in BOOLEAN
       PROVE  [t EXCEPT !.target = x, !.arrived = y] \in TurnJobs
  <2>1. [t EXCEPT !.target = x] \in TurnJobs
    BY TurnSet
  <2>2. [[t EXCEPT !.target = x] EXCEPT !.arrived = y] \in TurnJobs
    BY <2>1, TurnSet
  <2> QED BY <2>2
<1>12. ASSUME NEW x \in SUBSET TurnSpots, NEW y \in BOOLEAN
       PROVE  [t EXCEPT !.refused = x, !.cleared = y] \in TurnJobs
  <2>1. [t EXCEPT !.refused = x] \in TurnJobs
    BY TurnSet
  <2>2. [[t EXCEPT !.refused = x] EXCEPT !.cleared = y] \in TurnJobs
    BY <2>1, TurnSet
  <2> QED BY <2>2
<1>13. ASSUME NEW x \in BOOLEAN, NEW y \in 0 .. TurnPatience + 1
       PROVE  [t EXCEPT !.base = x, !.served = y] \in TurnJobs
  <2>1. [t EXCEPT !.base = x] \in TurnJobs
    BY TurnSet
  <2>2. [[t EXCEPT !.base = x] EXCEPT !.served = y] \in TurnJobs
    BY <2>1, TurnSet
  <2> QED BY <2>2
<1> QED BY <1>1, <1>2, <1>3, <1>4, <1>5, <1>6, <1>7, <1>8, <1>9, <1>10, <1>11, <1>12, <1>13

(* What its fields are.                                                      *)
LEMMA TurnFieldsTyped ==
  ASSUME NEW t \in TurnJobs
  PROVE  /\ t.target \in TurnSpots \cup {TurnNoSpot} /\ t.visited \subseteq TurnSpots /\ t.refused \subseteq TurnSpots
         /\ t.stuck \in 0 .. TurnStuckMax /\ t.same \in 0 .. TurnSame /\ t.noGo \in BOOLEAN
         /\ t.forgets \in 0 .. TurnForgets /\ t.looks \in 0 .. TurnLooks /\ t.base \in BOOLEAN
         /\ t.served \in 0 .. TurnPatience + 1 /\ t.lost \in BOOLEAN /\ t.fell \in {"no", "down", "up"}
         /\ t.unsettled \in 0 .. TurnSettle /\ t.distrust \in 0 .. TurnDistrust
         /\ t.panoramas \in 0 .. TurnPanoramas /\ t.planless \in 0 .. TurnStuckMax
BY DEF TurnJobs, TurnRecords

LEMMA TurnNewTyped == TurnNew \in TurnJobs /\ TurnHouse \in TurnHouses
BY TurnAssumption DEF TurnJobs, TurnRecords, TurnHouses, TurnNew, TurnHouse, TurnSettle, TurnDistrust

(* Where a job goes next: over, a way, its frontier refused, a fall noted.   *)
LEMMA TurnJobsTyped ==
  ASSUME NEW t \in TurnJobs
  PROVE  /\ \A why \in {"asked", "budget", "lost", "distrust", "slivers", "done"} : TurnOver(t, why) \in TurnJobs
         /\ \A aim \in {"frontier", "anchor", "look"} : TurnWay(t, aim) \in TurnJobs
         /\ TurnRefused(t) \in TurnJobs /\ TurnAnchored(t) \in TurnJobs
         /\ (t.aim # "none" => TurnFailed(t) \in TurnJobs) /\ TurnArrived(t) \in TurnJobs
<1>1. \A why \in {"asked", "budget", "lost", "distrust", "slivers", "done"} : TurnOver(t, why) \in TurnJobs
  BY TurnNewTyped DEF TurnJobs, TurnRecords, TurnOver
<1>2. ASSUME NEW aim \in {"frontier", "anchor", "look"} PROVE TurnWay(t, aim) \in TurnJobs
  <2> DEFINE u == [t EXCEPT !.planless = 0]
             v == [u EXCEPT !.aim = aim]
  <2>1. u \in TurnJobs
    BY TurnSet, TurnBounds
  <2>2. v \in TurnJobs
    BY <2>1, TurnSet
  <2>3. v.aim = aim
    BY DEF TurnJobs, TurnRecords
  <2>4. TurnWay(t, aim) = [v EXCEPT !.at = "way"]
    BY DEF TurnWay
  <2> HIDE DEF v
  <2>5. [v EXCEPT !.at = "way"] \in TurnJobs
    BY <2>2, <2>3 DEF TurnJobs, TurnRecords
  <2> QED BY <2>4, <2>5
<1>3. ASSUME NEW u \in TurnJobs PROVE TurnRefused(u) \in TurnJobs
  <2> DEFINE refused == u.refused \cup {u.target}
             v == [u EXCEPT !.target = TurnNoSpot, !.refused = refused, !.anchored = FALSE]
  <2>1. u.target # TurnNoSpot => refused \in SUBSET TurnSpots
    BY TurnFieldsTyped
  <2> HIDE DEF refused
  <2>2. u.target # TurnNoSpot => v \in TurnJobs
    BY <2>1, TurnSets
  <2>3. TurnRefused(u) = IF u.target = TurnNoSpot THEN u ELSE v
    BY DEF TurnRefused, refused
  <2> HIDE DEF v
  <2> QED BY <2>2, <2>3
<1>4. \A u \in TurnJobs : TurnAnchored(u) \in TurnJobs
  BY TurnSets DEF TurnAnchored
<1>5. \A b \in BOOLEAN : [t EXCEPT !.at = "turn", !.aim = "none", !.arrived = b] \in TurnJobs
  <2> DEFINE u == [t EXCEPT !.at = "turn"]
             v == [u EXCEPT !.aim = "none"]
  <2>1. u \in TurnJobs
    BY TurnSet
  <2>2. u.at = "turn"
    BY DEF TurnJobs, TurnRecords
  <2>3. \A b : [t EXCEPT !.at = "turn", !.aim = "none", !.arrived = b] = [v EXCEPT !.arrived = b]
    OBVIOUS
  <2> HIDE DEF u
  <2>4. v \in TurnJobs
    BY <2>1, <2>2 DEF TurnJobs, TurnRecords
  <2> HIDE DEF v
  <2>5. \A b \in BOOLEAN : [v EXCEPT !.arrived = b] \in TurnJobs
    BY <2>4, TurnSet
  <2> QED BY <2>3, <2>5
<1>6. t.aim # "none" => TurnFailed(t) \in TurnJobs
  <2> DEFINE back == [t EXCEPT !.at = "turn", !.aim = "none", !.arrived = FALSE]
  <2>1. back \in TurnJobs
    BY <1>5
  <2>2. TurnFailed(t) = CASE t.aim = "frontier" -> TurnRefused(back)
                          [] t.aim = "anchor" -> TurnAnchored(back)
                          [] t.aim = "look" -> back
    BY DEF TurnFailed
  <2>3. t.aim \in {"none", "frontier", "anchor", "look"}
    BY DEF TurnJobs, TurnRecords
  <2> HIDE DEF back
  <2> QED BY <1>3, <1>4, <2>1, <2>2, <2>3
<1>7. TurnArrived(t) \in TurnJobs
  <2> DEFINE b == t.aim # "look"
  <2>1. TurnArrived(t) = [t EXCEPT !.at = "turn", !.aim = "none", !.arrived = b]
    BY DEF TurnArrived
  <2>2. b \in BOOLEAN
    OBVIOUS
  <2> HIDE DEF b
  <2> QED BY <1>5, <2>1, <2>2
<1> QED BY <1>1, <1>2, <1>3, <1>4, <1>6, <1>7

(* A fall is noted, and nothing else.                                        *)
LEMMA TurnNotes ==
  ASSUME NEW t \in TurnJobs, NEW w \in TurnHouses, NEW n \in TurnNoted(t, w)
  PROVE  n \in TurnJobs /\ n.at = t.at /\ n.aim = t.aim
<1>1. t.fell \in {"no", "down", "up"} /\ w.seated \in BOOLEAN /\ w.trusted \in BOOLEAN
  BY DEF TurnJobs, TurnRecords, TurnHouses
<1>2. \E f \in {"no", "down", "up"} : n = [t EXCEPT !.fell = f]
  BY <1>1 DEF TurnNoted
<1>3. PICK f \in {"no", "down", "up"} : n = [t EXCEPT !.fell = f]
  BY <1>2
<1>4. n \in TurnJobs
  BY <1>3, TurnSet
<1>5. n.at = t.at /\ n.aim = t.aim
  BY <1>3 DEF TurnJobs, TurnRecords
<1> QED BY <1>4, <1>5

LEMMA TurnHurtTyped ==
  ASSUME NEW w \in TurnHouses, w.troubles # 0
  PROVE  TurnHurt(w) \in TurnHouses
BY TurnAssumption DEF TurnHouses, TurnHurt

(* What a turn leaves, last stage first.                                     *)
LEMMA TurnLookOrTyped ==
  ASSUME NEW t \in TurnJobs, NEW w \in TurnHouses, NEW why \in {"slivers", "done"}
  PROVE  TurnLookOr(t, w, why) \subseteq TurnPairs
<1>1. t.looks < TurnLooks => [t EXCEPT !.looks = @ + 1] \in TurnJobs
  BY TurnSet, TurnFieldsTyped, TurnBounds
<1> QED BY <1>1, TurnJobsTyped DEF TurnLookOr, TurnPairs

LEMMA TurnUnsealedTyped ==
  ASSUME NEW t \in TurnJobs, t.stuck < TurnStuckMax
  PROVE  TurnUnsealed(t) \subseteq TurnJobs
<1> DEFINE r == TurnRefused(t)
<1>1. r \in TurnJobs /\ r.stuck = t.stuck /\ r.same = t.same
  <2>1. r \in TurnJobs
    BY TurnJobsTyped
  <2>2. TurnRefused(t).stuck = t.stuck /\ TurnRefused(t).same = t.same
    BY DEF TurnRefused, TurnJobs, TurnRecords
  <2> QED BY <2>1, <2>2
<1> HIDE DEF r
<1>2. \A on \in BOOLEAN : [r EXCEPT !.stuck = @ + 1, !.same = 0, !.noGo = on] \in TurnJobs
  BY <1>1, TurnSets, TurnFieldsTyped, TurnBounds
<1>3. t.same < TurnSame => \A on \in BOOLEAN : [r EXCEPT !.same = @ + 1, !.noGo = on] \in TurnJobs
  BY <1>1, TurnSets, TurnFieldsTyped, TurnBounds
<1>4. t.noGo \in BOOLEAN
  BY DEF TurnJobs, TurnRecords
<1> QED BY <1>2, <1>3, <1>4 DEF TurnUnsealed, r

LEMMA TurnSealedTyped ==
  ASSUME NEW t \in TurnJobs, NEW w \in TurnHouses
  PROVE  TurnSealed(t, w) \subseteq TurnPairs
<1> DEFINE left(cells, far) ==
      CASE cells /\ far /\ t.forgets < TurnForgets -> {<<[t EXCEPT !.forgets = @ + 1], w>>}
        [] cells /\ ~(far /\ t.forgets < TurnForgets) /\ t.noGo -> {<<[t EXCEPT !.noGo = FALSE], w>>}
        [] cells /\ ~(far /\ t.forgets < TurnForgets) /\ ~t.noGo /\ t.stuck < TurnStuckMax ->
             {<<u, w>> : u \in TurnUnsealed(t)}
        [] OTHER -> TurnLookOr(t, w, "done")
<1>1. [t EXCEPT !.refused = {}, !.cleared = TRUE] \in TurnJobs
  BY TurnSets
<1>2. ASSUME NEW cells \in BOOLEAN, NEW far \in BOOLEAN PROVE left(cells, far) \subseteq TurnPairs
  <2>1. t.forgets < TurnForgets => [t EXCEPT !.forgets = @ + 1] \in TurnJobs
    BY TurnSet, TurnFieldsTyped, TurnBounds
  <2>2. [t EXCEPT !.noGo = FALSE] \in TurnJobs
    BY TurnSet
  <2>3. t.stuck < TurnStuckMax => {<<u, w>> : u \in TurnUnsealed(t)} \subseteq TurnPairs
    BY TurnUnsealedTyped DEF TurnPairs
  <2>4. TurnLookOr(t, w, "done") \subseteq TurnPairs
    BY TurnLookOrTyped
  <2>5. t.noGo \in BOOLEAN
    BY TurnFieldsTyped
  <2>6. /\ t.forgets < TurnForgets => {<<[t EXCEPT !.forgets = @ + 1], w>>} \subseteq TurnPairs
        /\ {<<[t EXCEPT !.noGo = FALSE], w>>} \subseteq TurnPairs
    <3> DEFINE a == [t EXCEPT !.forgets = @ + 1]
               b == [t EXCEPT !.noGo = FALSE]
    <3>1. (t.forgets < TurnForgets => a \in TurnJobs) /\ b \in TurnJobs
      BY <2>1, <2>2
    <3> HIDE DEF a, b
    <3>2. (t.forgets < TurnForgets => {<<a, w>>} \subseteq TurnPairs) /\ {<<b, w>>} \subseteq TurnPairs
      BY <3>1 DEF TurnPairs
    <3> QED BY <3>2 DEF a, b
  <2>7. \/ left(cells, far) = TurnLookOr(t, w, "done")
        \/ t.forgets < TurnForgets /\ left(cells, far) = {<<[t EXCEPT !.forgets = @ + 1], w>>}
        \/ left(cells, far) = {<<[t EXCEPT !.noGo = FALSE], w>>}
        \/ t.stuck < TurnStuckMax /\ left(cells, far) = {<<u, w>> : u \in TurnUnsealed(t)}
    OBVIOUS
  <2> HIDE DEF left
  <2> QED BY <2>3, <2>4, <2>6, <2>7
<1>3. TurnSealed(t, w) = IF t.refused # {} /\ ~t.cleared THEN {<<[t EXCEPT !.refused = {}, !.cleared = TRUE], w>>}
                         ELSE UNION {left(cells, far) : cells \in BOOLEAN, far \in BOOLEAN}
  BY DEF TurnSealed
<1> HIDE DEF left
<1> QED BY <1>1, <1>2, <1>3 DEF TurnPairs

LEMMA TurnPickedTyped ==
  ASSUME NEW t \in TurnJobs, NEW w \in TurnHouses, NEW f \in TurnSpots
  PROVE  TurnPicked(t, w, f) \subseteq TurnPairs
<1> DEFINE p == [t EXCEPT !.target = f, !.arrived = FALSE]
           arrived == [p EXCEPT !.visited = @ \cup {f}, !.target = TurnNoSpot, !.anchored = FALSE]
<1>1. p \in TurnJobs /\ p.looks = t.looks
  BY DEF TurnJobs, TurnRecords
<1>2. TurnPicked(t, w, f) =
        IF t.arrived /\ t.target = f THEN {<<arrived, w>>}
        ELSE {<<arrived, w>>, <<TurnWay(p, "frontier"), w>>}
             \cup IF t.looks < TurnLooks
                  THEN {<<TurnWay([p EXCEPT !.looks = @ + 1], "look"), w>>} ELSE {}
  BY DEF TurnPicked
<1> HIDE DEF p
<1>3. arrived \in TurnJobs
  <2> DEFINE visited == p.visited \cup {f}
  <2>1. visited \in SUBSET TurnSpots
    BY <1>1, TurnFieldsTyped
  <2> HIDE DEF visited
  <2>2. [p EXCEPT !.visited = visited, !.target = TurnNoSpot, !.anchored = FALSE] \in TurnJobs
    BY <1>1, <2>1, TurnSets
  <2> QED BY <2>2 DEF visited
<1>4. t.looks < TurnLooks => [p EXCEPT !.looks = @ + 1] \in TurnJobs
  BY <1>1, TurnSet, TurnFieldsTyped, TurnBounds
<1>5. TurnWay(p, "frontier") \in TurnJobs
  BY <1>1, TurnJobsTyped
<1>6. t.looks < TurnLooks => TurnWay([p EXCEPT !.looks = @ + 1], "look") \in TurnJobs
  BY <1>4, TurnJobsTyped
<1> HIDE DEF arrived
<1> QED BY <1>2, <1>3, <1>5, <1>6 DEF TurnPairs

LEMMA TurnFoundTyped ==
  ASSUME NEW t \in TurnJobs, NEW w \in TurnHouses
  PROVE  TurnFound(t, w) \subseteq TurnPairs
<1> DEFINE shown == (TurnSpots \ w.gone) \ (t.visited \cup t.refused)
           fs(reach) == IF reach \cap TurnBigs = {} THEN reach ELSE reach \cap TurnBigs
           choice(reach) == IF t.target \in fs(reach) THEN {t.target} ELSE fs(reach)
           found(reach) == IF reach = {} THEN TurnSealed(t, w)
                           ELSE UNION {TurnPicked(t, w, f) : f \in choice(reach)}
<1>1. ASSUME NEW reach \in SUBSET shown PROVE found(reach) \subseteq TurnPairs
  <2>1. choice(reach) \subseteq TurnSpots
    OBVIOUS
  <2>2. \A f \in choice(reach) : TurnPicked(t, w, f) \subseteq TurnPairs
    BY <2>1, TurnPickedTyped
  <2> HIDE DEF choice
  <2> QED BY <2>2, TurnSealedTyped
<1>2. TurnFound(t, w) = UNION {found(reach) : reach \in {s \in SUBSET shown : t.arrived => {t.target} \cap shown \subseteq s}}
  BY DEF TurnFound
<1> HIDE DEF found, shown
<1> QED BY <1>1, <1>2

LEMMA TurnServedTyped ==
  ASSUME NEW t \in TurnJobs, NEW w \in TurnHouses
  PROVE  TurnServed(t, w) \subseteq TurnPairs
<1> DEFINE n == IF t.served > TurnPatience THEN t.served ELSE t.served + 1
<1>1. n \in 0 .. TurnPatience + 1 /\ t.base \in BOOLEAN
  BY TurnAssumption, TurnFieldsTyped
<1>2. \A b \in BOOLEAN, k \in 0 .. TurnPatience + 1 : [t EXCEPT !.base = b, !.served = k] \in TurnJobs
  BY DEF TurnJobs, TurnRecords
<1>3. \A k \in 0 .. TurnPatience + 1 : [t EXCEPT !.served = k] \in TurnJobs
  BY DEF TurnJobs, TurnRecords
<1>4. [w EXCEPT !.grew = FALSE] \in TurnHouses /\ [w EXCEPT !.grew = @ /\ t.base] \in TurnHouses
  BY <1>1 DEF TurnHouses
<1>5. 0 \in 0 .. TurnPatience + 1
  BY TurnAssumption
<1> HIDE DEF n
<1> QED BY <1>1, <1>2, <1>3, <1>4, <1>5, TurnFoundTyped, TurnLookOrTyped DEF TurnServed, n

LEMMA TurnAroundTyped ==
  ASSUME NEW t \in TurnJobs, NEW w \in TurnHouses
  PROVE  TurnAround(t, w) \subseteq TurnPairs
<1>1. [t EXCEPT !.anchor = TRUE] \in TurnJobs
  BY DEF TurnJobs, TurnRecords
<1>2. TurnBack(t, w) \subseteq TurnPairs
  <2> DEFINE go == [t EXCEPT !.anchor = TRUE]
             stood == <<TurnAnchored(t), w>>
  <2>1. stood \in TurnPairs /\ <<TurnWay(go, "anchor"), w>> \in TurnPairs
    BY <1>1, TurnJobsTyped DEF TurnPairs
  <2>2. TurnServed(t, w) \subseteq TurnPairs /\ TurnServed(TurnAnchored(t), w) \subseteq TurnPairs
    BY TurnServedTyped, TurnJobsTyped
  <2> QED BY <2>1, <2>2 DEF TurnBack
<1>3. t.panoramas < TurnPanoramas => [t EXCEPT !.panoramas = @ + 1, !.arrived = FALSE] \in TurnJobs
  BY TurnSets, TurnFieldsTyped, TurnBounds
<1> QED BY <1>2, <1>3 DEF TurnAround, TurnPairs

LEMMA TurnAgreedTyped ==
  ASSUME NEW t \in TurnJobs, NEW w \in TurnHouses
  PROVE  TurnAgreed(t, w) \subseteq TurnPairs
<1> DEFINE n == t.distrust + 1
<1>1. n \in Nat /\ t.distrust \in 0 .. TurnDistrust
  BY TurnFieldsTyped DEF TurnDistrust
<1>2. \A k \in 0 .. TurnDistrust : [t EXCEPT !.distrust = k] \in TurnJobs
  BY DEF TurnJobs, TurnRecords
<1>3. n = TurnSettle => [t EXCEPT !.distrust = n + 1, !.unsettled = TurnSettle, !.arrived = FALSE] \in TurnJobs
  <2>1. n = TurnSettle => n + 1 \in 0 .. TurnDistrust /\ TurnSettle \in 0 .. TurnSettle
    BY DEF TurnSettle, TurnDistrust
  <2> HIDE DEF n
  <2>2. \A k \in 0 .. TurnDistrust :
          TurnSettle \in 0 .. TurnSettle =>
            [t EXCEPT !.distrust = k, !.unsettled = TurnSettle, !.arrived = FALSE] \in TurnJobs
    BY TurnSets
  <2> QED BY <2>1, <2>2
<1>4. TurnAround(t, w) \subseteq TurnPairs /\ TurnAround([t EXCEPT !.distrust = 0], w) \subseteq TurnPairs
  BY <1>2, TurnAroundTyped DEF TurnDistrust
<1>5. w.troubles # 0 => TurnHurt(w) \in TurnHouses
  BY TurnHurtTyped
<1>6. \A u : TurnOver(u, "distrust") = TurnOver(t, "distrust")
  BY DEF TurnOver
<1>7. w.troubles # 0 => <<TurnOver([t EXCEPT !.distrust = n], "distrust"), TurnHurt(w)>> \in TurnPairs
  BY <1>5, <1>6, TurnJobsTyped DEF TurnPairs
<1>8. (w.troubles # 0 /\ ~(n >= TurnDistrust)) => TurnAround([t EXCEPT !.distrust = n], TurnHurt(w)) \subseteq TurnPairs
  <2>1. ~(n >= TurnDistrust) => n \in 0 .. TurnDistrust
    BY <1>1 DEF TurnDistrust
  <2> QED BY <1>2, <1>5, <2>1, TurnAroundTyped
<1> HIDE DEF n
<1> QED BY <1>3, <1>4, <1>5, <1>7, <1>8 DEF TurnAgreed, TurnPairs, n

LEMMA TurnStoodTyped ==
  ASSUME NEW t \in TurnJobs, NEW w \in TurnHouses, t.unsettled > 0
  PROVE  TurnStood(t, w) \subseteq TurnPairs
<1>1. [t EXCEPT !.unsettled = @ - 1, !.arrived = FALSE] \in TurnJobs
  <2> DEFINE k == t.unsettled - 1
  <2>1. k \in 0 .. TurnSettle
    BY TurnFieldsTyped DEF TurnSettle
  <2> HIDE DEF k
  <2>2. [t EXCEPT !.unsettled = k, !.arrived = FALSE] \in TurnJobs
    BY <2>1, TurnSets
  <2> QED BY <2>2 DEF k
<1>2. [t EXCEPT !.arrived = FALSE] \in TurnJobs
  BY TurnSet
<1>3. w.troubles > 0 => TurnHurt(w) \in TurnHouses
  <2>1. w.troubles > 0 => w.troubles # 0
    BY DEF TurnHouses
  <2> QED BY <2>1, TurnHurtTyped
<1> DEFINE a == [t EXCEPT !.unsettled = @ - 1, !.arrived = FALSE]
           b == [t EXCEPT !.arrived = FALSE]
<1>4. TurnStood(t, w) = {<<a, w>>} \cup IF w.troubles > 0 THEN {<<b, TurnHurt(w)>>} ELSE {}
  BY DEF TurnStood
<1>5. a \in TurnJobs /\ b \in TurnJobs
  BY <1>1, <1>2
<1> HIDE DEF a, b
<1> QED BY <1>3, <1>4, <1>5 DEF TurnPairs

LEMMA TurnTrustedTyped ==
  ASSUME NEW t \in TurnJobs, NEW w \in TurnHouses, NEW foundNow \in BOOLEAN
  PROVE  TurnTrusted(t, w, foundNow) \subseteq TurnPairs
<1> DEFINE u == IF foundNow THEN [t EXCEPT !.unsettled = TurnSettle] ELSE t
           v == [t EXCEPT !.target = TurnNoSpot, !.unsettled = TurnSettle]
<1>1. u \in TurnJobs /\ v \in TurnJobs /\ v.unsettled = TurnSettle
  <2>1. TurnSettle \in 0 .. TurnSettle
    BY DEF TurnSettle
  <2>2. u \in TurnJobs
    BY <2>1, TurnSet
  <2>3. v \in TurnJobs
    BY <2>1, TurnSets
  <2>4. v.unsettled = TurnSettle
    BY DEF TurnJobs, TurnRecords
  <2> QED BY <2>2, <2>3, <2>4
<1>2. TurnTrusted(t, w, foundNow) =
        (IF u.unsettled > 0 THEN TurnStood(u, w) ELSE TurnAgreed(u, w))
        \cup IF w.troubles = 0 THEN {} ELSE TurnStood(v, TurnHurt(w))
  BY DEF TurnTrusted
<1> HIDE DEF u, v
<1>3. w.troubles # 0 => TurnStood(v, TurnHurt(w)) \subseteq TurnPairs
  BY <1>1, TurnHurtTyped, TurnStoodTyped DEF TurnSettle
<1>4. u.unsettled > 0 => TurnStood(u, w) \subseteq TurnPairs
  BY <1>1, TurnStoodTyped
<1>5. TurnAgreed(u, w) \subseteq TurnPairs
  BY <1>1, TurnAgreedTyped
<1> QED BY <1>2, <1>3, <1>4, <1>5

LEMMA TurnStepTyped ==
  ASSUME NEW t \in TurnJobs, NEW w \in TurnHouses
  PROVE  TurnStep(t, w) \subseteq TurnPairs
<1>1. [t EXCEPT !.lost = FALSE] \in TurnJobs /\ [t EXCEPT !.lost = TRUE] \in TurnJobs /\ t.lost \in BOOLEAN
  BY TurnSet, TurnFieldsTyped
<1>2. TurnTrusted([t EXCEPT !.lost = FALSE], w, t.lost) \subseteq TurnPairs
  BY <1>1, TurnTrustedTyped
<1>3. TurnTrusted(t, w, FALSE) \subseteq TurnPairs
  BY TurnTrustedTyped
<1> DEFINE a == TurnTrusted([t EXCEPT !.lost = FALSE], w, t.lost)
           b == [t EXCEPT !.lost = TRUE]
<1>4. TurnStep(t, w) \subseteq a \cup {<<b, w>>} \cup TurnTrusted(t, w, FALSE)
  BY DEF TurnStep, TurnRelocates
<1>5. <<b, w>> \in TurnPairs
  BY <1>1 DEF TurnPairs
<1> HIDE DEF a, b
<1> QED BY <1>2, <1>3, <1>4, <1>5 DEF a

(* The house, the turn and the way.                                          *)
LEMMA TurnHouseTyped ==
  ASSUME turn \in TurnJobs, house \in TurnHouses, TurnHouseStep
  PROVE  turn' \in TurnJobs /\ house' \in TurnHouses
<1>1. CASE HouseLost
  <2>1. house.troubles # 0 /\ UNCHANGED turn
    BY <1>1, TurnBounds DEF HouseLost, TurnHouses
  <2>2. TurnHurt(house) \in TurnHouses
    BY <2>1, TurnHurtTyped
  <2>3. PICK seated \in BOOLEAN : house' = [TurnHurt(house) EXCEPT !.trusted = FALSE, !.seated = seated]
    BY <1>1 DEF HouseLost
  <2>4. house' \in TurnHouses
    BY <2>2, <2>3 DEF TurnHouses
  <2> QED BY <2>1, <2>4
<1>2. CASE HouseUp
  BY <1>2 DEF HouseUp, TurnHouses
<1>3. CASE HouseFound
  BY <1>3 DEF HouseFound, TurnHouses
<1>4. CASE HouseGrows
  <2>1. PICK new \in SUBSET house.gone :
          /\ house' = [house EXCEPT !.growth = @ - 1, !.grew = TRUE, !.gone = @ \ new]
          /\ turn' = [turn EXCEPT !.visited = @ \ new, !.refused = @ \ new]
    BY <1>4 DEF HouseGrows
  <2>2. house.growth > 0
    BY <1>4 DEF HouseGrows
  <2>3. house' \in TurnHouses
    <3> DEFINE growth == house.growth - 1
               gone == house.gone \ new
    <3>1. growth \in 0 .. TurnGrowth /\ gone \in SUBSET TurnBigs
      BY <2>2, TurnBounds DEF TurnHouses
    <3>2. house' = [house EXCEPT !.growth = growth, !.grew = TRUE, !.gone = gone]
      BY <2>1
    <3> HIDE DEF growth, gone
    <3> QED BY <3>1, <3>2 DEF TurnHouses
  <2>4. turn' \in TurnJobs
    BY <2>1, TurnSets, TurnFieldsTyped
  <2> QED BY <2>3, <2>4
<1>5. CASE HouseMapped
  BY <1>5 DEF HouseMapped, TurnHouses
<1>6. CASE HouseMints
  <2>1. PICK s : turn' = [turn EXCEPT !.visited = @ \ {s}, !.refused = @ \ {s}]
    BY <1>6 DEF HouseMints
  <2>2. turn' \in TurnJobs
    <3> DEFINE visited == turn.visited \ {s}
               refused == turn.refused \ {s}
    <3>1. visited \in SUBSET TurnSpots /\ refused \in SUBSET TurnSpots
      BY TurnFieldsTyped
    <3>2. turn' = [turn EXCEPT !.visited = visited, !.refused = refused]
      BY <2>1
    <3> HIDE DEF visited, refused
    <3> QED BY <3>1, <3>2, TurnSets
  <2> QED BY <1>6, <2>2 DEF HouseMints
<1> QED BY <1>1, <1>2, <1>3, <1>4, <1>5, <1>6 DEF TurnHouseStep

(* What a job and its house may hold; on a way, for something.               *)
TurnInv == turn \in TurnJobs /\ house \in TurnHouses

LEMMA TurnInvTypes == (TurnInv => TurnTypeOK) /\ (TurnInv' => TurnTypeOK')
BY DEF TurnInv, TurnJobs, TurnRecords, TurnHouses, TurnTypeOK

LEMMA TurnInitInv == TurnInit => TurnInv
BY TurnNewTyped DEF TurnInit, TurnInv

LEMMA TurnNextKeeps == ASSUME TurnInv, [TurnNext]_turnVars PROVE TurnInv'
<1>1. turn \in TurnJobs /\ house \in TurnHouses
  BY DEF TurnInv
<1>2. SUFFICES turn' \in TurnJobs /\ house' \in TurnHouses
  BY DEF TurnInv
<1>3. CASE TurnHouseStep
  BY <1>1, <1>3, TurnHouseTyped
<1>4. CASE TurnTurn
  <2>1. PICK t \in TurnNoted(turn, house) : \E r \in TurnStep(t, house) : turn' = r[1] /\ house' = r[2]
    BY <1>4 DEF TurnTurn
  <2>2. t \in TurnJobs
    BY <1>1, <2>1, TurnNotes
  <2>3. TurnStep(t, house) \subseteq TurnPairs
    BY <1>1, <2>2, TurnStepTyped
  <2> QED BY <2>1, <2>3 DEF TurnPairs
<1>5. CASE TurnGivesUp
  BY <1>1, <1>5, TurnJobsTyped DEF TurnGivesUp
<1>6. CASE TurnEnded
  BY <1>1, <1>6, TurnJobsTyped DEF TurnEnded
<1>7. CASE TurnLate
  <2>1. turn.aim # "none"
    BY <1>1, <1>7 DEF TurnLate, TurnJobs
  <2> QED BY <1>1, <1>7, <2>1, TurnJobsTyped DEF TurnLate
<1>8. CASE TurnGoes
  <2>1. PICK t \in TurnNoted(turn, house) :
          \/ turn' \in {TurnFailed(t), TurnArrived(t), [t EXCEPT !.planless = 0]}
          \/ t.planless < TurnStuckMax /\ turn' = [t EXCEPT !.planless = @ + 1]
    BY <1>8 DEF TurnGoes
  <2>2. t \in TurnJobs /\ t.aim # "none"
    BY <1>1, <1>8, <2>1, TurnNotes DEF TurnGoes, TurnJobs
  <2>3. [t EXCEPT !.planless = 0] \in TurnJobs /\ (t.planless < TurnStuckMax => [t EXCEPT !.planless = @ + 1] \in TurnJobs)
    BY <2>2, TurnSet, TurnFieldsTyped, TurnBounds
  <2>4. turn' \in TurnJobs
    BY <2>1, <2>2, <2>3, TurnJobsTyped
  <2> QED BY <1>1, <1>8, <2>4 DEF TurnGoes
<1>9. CASE UNCHANGED turnVars
  BY <1>1, <1>9 DEF turnVars
<1> QED BY <1>3, <1>4, <1>5, <1>6, <1>7, <1>8, <1>9 DEF TurnNext

(* No turn takes a count past its bound or leaves a way for nothing: the     *)
(* record of a mapping job is what its loops may make of it.                 *)
THEOREM TurnTypeHolds == TurnSpec => []TurnTypeOK
BY TurnInitInv, TurnNextKeeps, TurnInvTypes, PTL DEF TurnSpec

-----------------------------------------------------------------------------
(* The parts together, as TLC runs them: one runs, the others rest at a      *)
(* first state of theirs.                                                    *)
BodyInv ==
  TurnInv /\ BooksInv /\ WayInv /\ SweepInv /\ GaitInv /\ CliffInv /\ SearchInv /\ StepInv /\ TeachInv

LEMMA BodyInitInv == BodyInit => BodyInv
<1> SUFFICES ASSUME BodyInit PROVE BodyInv
  OBVIOUS
<1>1. TurnInv
  <2>1. CASE part = "turn"
    BY <2>1, TurnInitInv DEF BodyInit
  <2>2. CASE part # "turn"
    <3>1. turn = TurnOver(TurnNew, "asked") /\ house = TurnHouse
      BY <2>2 DEF BodyInit
    <3> QED BY <3>1, TurnNewTyped, TurnJobsTyped DEF TurnInv
  <2> QED BY <2>1, <2>2
<1>2. BooksInv
  <2> DEFINE none == [p \in BooksPlaces |-> "none"]
             local(hole) == [p \in BooksPlaces |-> IF p = BooksHole THEN hole ELSE "none"]
  <2>1. none = local("none")
    OBVIOUS
  <2>2. BooksFresh(TRUE, local("none")) \in BooksInits
    <3>1. \A frozen \in BOOLEAN, hole \in {"none", "drop"} : BooksFresh(frozen, local(hole)) \in BooksInits
      BY DEF BooksInits
    <3> HIDE DEF local
    <3>2. TRUE \in BOOLEAN /\ "none" \in {"none", "drop"}
      OBVIOUS
    <3> QED BY <3>1, <3>2, Zenon
  <2>3. part # "books" => books = BooksFresh(TRUE, none)
    BY DEF BodyInit
  <2> HIDE DEF none, local
  <2>4. part # "books" => books \in BooksInits
    BY <2>1, <2>2, <2>3
  <2>5. BooksInit
    BY <2>4 DEF BodyInit, BooksInit
  <2> QED BY <2>5, BooksInitInv
<1>3. WayInv
  <2>1. WayStart(TRUE, FALSE) \in WayInits
    <3>1. \A journey, flies \in BOOLEAN : WayStart(journey, flies) \in WayInits
      BY DEF WayInits
    <3>2. TRUE \in BOOLEAN /\ FALSE \in BOOLEAN
      OBVIOUS
    <3> QED BY <3>1, <3>2, Zenon
  <2>2. way \in WayInits
    BY <2>1 DEF BodyInit, WayInit
  <2> QED BY <2>2, WayInitInv DEF WayInit
<1>4. SweepInv
  BY SweepInitInv DEF BodyInit
<1>5. GaitInv
  <2>1. gait \in {GaitStart(blind) : blind \in BOOLEAN}
    BY DEF BodyInit, GaitInit
  <2> QED BY <2>1, GaitInitInv DEF GaitInit
<1>6. CliffInv
  BY CliffInitInv DEF BodyInit
<1>7. SearchInv
  <2>1. 0 \in 0 .. SearchOld
    BY SearchAssumption
  <2>2. SearchInit
    BY <2>1 DEF BodyInit, SearchInit
  <2> QED BY <2>2, SearchInitInv
<1>8. StepInv
  <2>1. CASE part = "step"
    BY <2>1, StepInitInv DEF BodyInit
  <2>2. CASE part # "step"
    BY <2>2, StepWorldsSound, StepStartInv DEF BodyInit
  <2> QED BY <2>1, <2>2
<1>9. TeachInv
  <2>1. TeachInit
    BY DEF BodyInit, TeachInit
  <2> QED BY <2>1, TeachInitInv
<1> QED BY <1>1, <1>2, <1>3, <1>4, <1>5, <1>6, <1>7, <1>8, <1>9 DEF BodyInv

LEMMA BodyStepKeeps == BodyInv /\ [BodyNext]_bodyVars => BodyInv'
<1> SUFFICES ASSUME BodyInv, [BodyNext]_bodyVars PROVE BodyInv'
  OBVIOUS
<1>1. /\ [TurnNext]_turnVars /\ [BooksNext]_booksVars /\ [WayNext]_way /\ [SweepNext]_sweepVars
      /\ [GaitNext]_gait /\ [CliffNext]_cliff /\ [SearchNext]_search /\ [StepNext]_step /\ [TeachNext]_teach
  BY DEF BodyNext, BodyTurns, BodyBooks, BodyWay, BodySweeps, BodyGait, BodyCliff, BodySearches, BodyAsks,
         BodyTeaches, bodyVars
<1>2. TurnInv' /\ BooksInv' /\ WayInv'
  BY <1>1, TurnNextKeeps, BooksStepKeeps, WayStepKeeps DEF BodyInv
<1>3. SweepInv' /\ GaitInv' /\ CliffInv'
  BY <1>1, SweepStepKeeps, GaitStepKeeps, CliffNextKeeps DEF BodyInv
<1>4. SearchInv' /\ StepInv' /\ TeachInv'
  BY <1>1, SearchStepKeeps, StepStepKeeps, TeachStepKeeps DEF BodyInv
<1> QED BY <1>2, <1>3, <1>4 DEF BodyInv

(* What the run of the body checks, for any constants: the parts together    *)
(* keep every type, every count within its bound, and each part's promise.   *)
THEOREM BodyHolds ==
  ASSUME SearchOld <= 1
  PROVE  BodySpec => [](/\ BodyTypeOK /\ BooksTrue /\ WayTrue /\ SweepStandsAside /\ GaitStaysOff
                        /\ CliffTrue /\ SearchTrue /\ StepTrue /\ TeachTrue)
<1> DEFINE says == /\ BodyTypeOK /\ BooksTrue /\ WayTrue /\ SweepStandsAside /\ GaitStaysOff
                   /\ CliffTrue /\ SearchTrue /\ StepTrue /\ TeachTrue
<1>1. BodyInv => says
  BY TurnInvTypes, BooksInvSays, WayInvSays, SweepInvSays, GaitInvSays, CliffInvSays, SearchInvSays,
     TeachInvSays DEF BodyInv, BodyTypeOK, StepInv
<1> HIDE DEF says
<1>2. BodySpec => []says
  BY <1>1, BodyInitInv, BodyStepKeeps, PTL DEF BodySpec
<1> QED BY <1>2 DEF says
==============================================================================
