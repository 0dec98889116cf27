------------------------------ MODULE JobBooks ------------------------------
(* A job's books (quack-nav/src/explore: books.rs, trusted.rs, and what the  *)
(* turns, the ways and the stick write and forget): the obstacles and the    *)
(* drops it keeps off, on the poses it was told.                             *)
(*                                                                           *)
(* A corridor of places, one LOCAL_DEDUP_M apart, with one hole.  The body   *)
(* is at a place; the map puts it BodyHere, off by the pose's error and by   *)
(* how far the map has moved.  A stand gives two frames, each the places     *)
(* where it saw a hole; the sensor may misread one of them.  A pose is right *)
(* while it is trusted, except for a while after a fall.                     *)
EXTENDS Naturals, FiniteSets

CONSTANT BooksLast    \* the places of the corridor: 1, the hole, .. BooksLast

ASSUME BooksAssumption == BooksLast \in Nat /\ BooksLast >= 3

BooksPlaces == 1 .. BooksLast
BooksHole == 1

VARIABLES
  books,   \* the Job's `local`, its walked floor, its flags
  body     \* where the duck is, what it is told and what it sees

booksVars == <<books, body>>

BooksDrops == {p \in BooksPlaces : books.local[p] = "drop"}

(* How the map sees the house: a map that moved shows every place one on. *)
BodyHoleAt == BooksHole + body.shift
BodyHere == body.at + body.shift + body.off

BooksMarks == {"none", "obstacle", "drop"}
BooksKept ==
  [local : [BooksPlaces -> BooksMarks],
   walked : SUBSET BooksPlaces, bookable : BOOLEAN,
   fell : {"no", "down", "up"}, frozen : BOOLEAN,
   behind : BOOLEAN, slipped : BOOLEAN]
Bodies ==
  [at : BooksPlaces \ {BooksHole}, shift : 0 .. 1, off : 0 .. 1,
   trusted : BOOLEAN, seated : BOOLEAN, shaken : BOOLEAN]

BooksTypeOK == books \in BooksKept /\ body \in Bodies

BooksFresh(frozen, local) ==
  [local |-> local, walked |-> {}, bookable |-> TRUE, fell |-> "no",
   frozen |-> frozen, behind |-> FALSE, slipped |-> FALSE]

BodyStart ==
  [at |-> 2, shift |-> 0, off |-> 0, trusted |-> TRUE, seated |-> FALSE,
   shaken |-> FALSE]

(* `with_books`: the ground book's drops, or none. *)
BooksInits ==
  {BooksFresh(frozen, [p \in BooksPlaces |-> IF p = BooksHole THEN hole ELSE "none"])
     : frozen \in BOOLEAN, hole \in {"none", "drop"}}

BooksInit == books \in BooksInits /\ body = BodyStart

-----------------------------------------------------------------------------
(* The body and the mapper.                                                  *)
BodySteps ==
  \E p \in BooksPlaces \ {BooksHole} :
    /\ p \in {body.at - 1, body.at + 1}
    /\ body' = [body EXCEPT !.at = p]
    /\ UNCHANGED books

BodyLost ==
  /\ body.trusted
  /\ \E off \in 0 .. 1, fell \in BOOLEAN :
       body' = [body EXCEPT !.trusted = FALSE, !.off = off, !.seated = fell,
                            !.shaken = @ \/ fell]
  /\ UNCHANGED books

BodyUp == body.seated /\ body' = [body EXCEPT !.seated = FALSE] /\ UNCHANGED books

BodyFound ==
  /\ ~body.trusted /\ ~body.seated
  /\ \E off \in 0 .. 1 :
       /\ off # 0 => body.shaken
       /\ body' = [body EXCEPT !.trusted = TRUE, !.off = off]
  /\ UNCHANGED books

(* Trusted long enough after a fall, the pose is right again. *)
BodySettles ==
  /\ body.trusted /\ body.shaken
  /\ body' = [body EXCEPT !.shaken = FALSE, !.off = 0]
  /\ UNCHANGED books

(* A loop closure moves a live map (once here); the books lie in the frame   *)
(* it left.                                                                  *)
BodyMapMoves ==
  /\ body.shift = 0 /\ ~books.frozen
  /\ body' = [body EXCEPT !.shift = 1]
  /\ books' = [books EXCEPT !.behind = TRUE]

-----------------------------------------------------------------------------
(* `note_fall`, at the start of a turn or of a way's leg: what is bookable   *)
(* until the next.  BOOKS_AFTER_FALL_S outlasts the shaken pose.             *)
BooksNoted(b, o) ==
  LET fell == CASE o.seated -> {"down"}
                [] ~o.seated /\ b.fell = "no" -> {"no"}
                [] ~o.seated /\ b.fell # "no" /\ ~o.trusted -> {"down"}
                [] ~o.seated /\ b.fell = "down" /\ o.trusted -> {"up"}
                [] ~o.seated /\ b.fell = "up" /\ o.trusted ->
                     IF o.shaken THEN {"up"} ELSE {"up", "no"}
  IN {[b EXCEPT !.fell = f, !.bookable = o.trusted /\ ~o.seated /\ f = "no"] : f \in fell}

(* Mutant: what is forgotten around takes the drops with it. *)
BooksForgetsAll(local, gone) ==
  [p \in BooksPlaces |-> IF p \in gone THEN "none" ELSE local[p]]

BooksForgets(local, gone) ==
  [p \in BooksPlaces |-> IF p \in gone /\ local[p] = "obstacle" THEN "none" ELSE local[p]]

(* `strike_drops_under`: the body stands there, so it is floor.              *)
BooksStruck(b, here) ==
  [p \in BooksPlaces |-> IF p = here /\ b.local[p] = "drop" THEN "none" ELSE b.local[p]]

(* A turn of the explorer: it notes a fall; a pose that jumped clears the    *)
(* books of a live map (a jump within what the duck may have walked goes     *)
(* unseen); where it stands is struck and walked.  An untrusted pose gets    *)
(* this far only with no booked drop near, and has nothing to strike.        *)
BooksTurn ==
  /\ \E b \in BooksNoted(books, body), jumped \in BOOLEAN :
       LET cleared == IF jumped /\ ~b.frozen
                      THEN [b EXCEPT !.local = [p \in BooksPlaces |-> "none"]] ELSE b
           settled == [cleared EXCEPT !.behind = @ /\ ~(jumped /\ ~b.frozen)]
       IN books' = IF jumped \/ ~body.trusted THEN settled
                   ELSE [settled EXCEPT !.local = BooksStruck(settled, BodyHere),
                                        !.walked = @ \cup ({BodyHere} \cap BooksPlaces)]
  /\ UNCHANGED body

(* A leg of a way: it notes a fall, and walks the floor on a trusted pose;   *)
(* no plan forgets the obstacles around.                                     *)
BooksLeg ==
  /\ \E b \in BooksNoted(books, body), gone \in {{}, BooksPlaces} :
       books' = IF body.trusted
                THEN [b EXCEPT !.local = BooksForgets(@, gone), !.walked = @ \cup ({BodyHere} \cap BooksPlaces)]
                ELSE b
  /\ UNCHANGED body

(* Mutant: one frame is enough. *)
BooksVotedOnce(frames) == {p \in BooksPlaces : \E i \in DOMAIN frames : p \in frames[i]}

(* `vote_drops` and `remember_local`, after a stand (a moving body's frames  *)
(* do not count): a hole two frames agree on, not on walked floor, where     *)
(* nothing is booked yet, while drops are bookable.                          *)
BooksVoted(frames) == {p \in BooksPlaces : \A i \in DOMAIN frames : p \in frames[i]}

BooksRecorded(b, o, frames) ==
  LET put == {p + o.shift + o.off : p \in BooksVoted(frames)}
  IN [p \in BooksPlaces |->
        IF p \in put /\ b.bookable /\ p \notin b.walked /\ b.local[p] = "none"
        THEN "drop" ELSE b.local[p]]

BooksRecord ==
  /\ \E seen \in {{}, {BooksHole}}, p \in BooksPlaces :
       books' = [books EXCEPT !.local = BooksRecorded(books, body, <<{p}, seen>>),
                              !.slipped = @ \/ (books.bookable /\ (~body.trusted \/ body.shaken))]
  /\ UNCHANGED body

(* What the nose met, what the sensor keeps seeing ahead, the edge of a box: *)
(* obstacles, on whatever pose there is (one at a time here).                *)
BooksBump ==
  /\ \A p \in BooksPlaces : books.local[p] # "obstacle"
  /\ \E p \in BooksPlaces :
       /\ books.local[p] = "none"
       /\ books' = [books EXCEPT !.local[p] = "obstacle"]
  /\ UNCHANGED body

(* `unseal`, the obstacles far away, `forget_seen_free`: obstacles go, one   *)
(* or all around.                                                            *)
BooksUnseal ==
  /\ \E gone \in {BooksPlaces} \cup {{p} : p \in BooksPlaces} :
       books' = [books EXCEPT !.local = BooksForgets(@, gone)]
  /\ UNCHANGED body

(* The live map frozen, or live again. *)
BooksFreeze ==
  /\ books' = [books EXCEPT !.frozen = ~@]
  /\ UNCHANGED body

BooksNext ==
  \/ BodySteps \/ BodyLost \/ BodyUp \/ BodyFound \/ BodySettles
  \/ BodyMapMoves
  \/ BooksTurn \/ BooksLeg \/ BooksRecord \/ BooksBump \/ BooksUnseal \/ BooksFreeze

BooksSpec == BooksInit /\ [][BooksNext]_booksVars

-----------------------------------------------------------------------------
(* What is booked as a drop is the hole, in the frame the map has now:       *)
(* whatever one frame misread, however the duck fell and was found again.    *)
(* It may not be so from when a live map moved until a turn saw it (still    *)
(* live), nor after a record on a pose lost since the turn or leg began.     *)
BooksTrue == ~books.behind /\ ~books.slipped => BooksDrops \subseteq {BodyHoleAt}

(* A hole on the books stays on them: no unsealing, forgetting, striking or  *)
(* fall takes it off, and only on a live map may a jump of the pose.  It is  *)
(* not so while a fall has shaken the pose: what was trusted at once after   *)
(* it strikes the books, though nothing is booked on it yet.                 *)
BooksHoleStays ==
  [][/\ BodyHoleAt \in BooksDrops /\ ~books.behind /\ ~body.shaken
     /\ body'.shift = body.shift
     /\ books.frozen \/ books'.local # [p \in BooksPlaces |-> "none"]
     => BodyHoleAt \in BooksDrops']_booksVars
=============================================================================
