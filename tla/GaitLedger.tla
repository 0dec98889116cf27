----------------------------- MODULE GaitLedger -----------------------------
(* The gait ledger (quack-nav/src/ledger.rs): what the duck learns of its    *)
(* own walk, laid over the coded priors (quack-duck/src/gait.rs `learn`) and *)
(* kept in a file beside the map, a walk per daemon line and state of the    *)
(* body; the state is read off the mouth on robotd's stream (cliff.rs        *)
(* `body_lane`).                                                             *)
(*                                                                           *)
(* Of the numbers the model keeps one: they share nothing but the file, the  *)
(* lock and the walk.  Time is robotd's states.                              *)
EXTENDS Integers, Sequences, FiniteSetsExt

CONSTANTS
  LedgerLines,      \* the daemon lines: "<line>/<profile>"
  LedgerPriors,     \* the priors of this build and of others
  LedgerSamples,    \* what a leg may measure
  LedgerKeep,       \* KEEP
  LedgerMin,        \* MIN_SAMPLES
  LedgerHold,       \* BODY_HOLD_S, in states
  LedgerTurns       \* bound: samples, restarts, and what else is counted

ASSUME LedgerAssumption ==
  /\ {LedgerKeep, LedgerMin, LedgerHold, LedgerTurns} \subseteq Nat \ {0} /\ LedgerMin <= LedgerKeep
  /\ LedgerPriors \subseteq Nat \ {0} /\ LedgerSamples \subseteq Nat \ {0}
  /\ LedgerPriors # {} /\ LedgerLines # {}
  /\ \E most \in LedgerSamples : \A x \in LedgerSamples : x <= most

VARIABLE ledger

-----------------------------------------------------------------------------
LedgerStates == {"free", "carrying"}
LedgerKeys == [line : LedgerLines, state : LedgerStates]

Unlearned == 0       \* no value: the prior stands

(* A walk's entry of the number; `prior` 0, the walk is not in the book.     *)
LedgerEntry == [samples : Seq(LedgerSamples), prior : Nat, value : Nat]
LedgerNoEntry == [samples |-> <<>>, prior |-> 0, value |-> Unlearned]

Ledgers ==
  [line : LedgerLines, prior : LedgerPriors,      \* this process's
   on : BOOLEAN, state : LedgerStates,
   body : [LedgerKeys -> LedgerEntry], file : [LedgerKeys -> LedgerEntry],
   laid : Nat,                                    \* what `learn` laid over
   dirty : BOOLEAN, written : BOOLEAN,            \* ... less than WRITE_EVERY ago
   afresh : BOOLEAN,                              \* kept for the properties: the
                                                  \* book is not of the file
   up : BOOLEAN, watch : LedgerStates,            \* the body lane's watch,
   other : -1 .. LedgerHold,                      \* other_since, in states
   clear : [says : LedgerStates, for : 0 .. LedgerHold + 1],   \* of the mouth, here
   astray : BOOLEAN,                              \* the watch began off the ledger's state
   turns : 0 .. LedgerTurns]

LedgerTypeOK == ledger \in Ledgers

-----------------------------------------------------------------------------
(* The k-th of the samples in order: the least as many as k are not above.   *)
LedgerNth(s, k) ==
  Min({x \in LedgerSamples : Cardinality({i \in DOMAIN s : s[i] <= x}) >= k})

LedgerMedian(s) ==
  LET n == Len(s)
  IN IF n % 2 = 1 THEN LedgerNth(s, n \div 2 + 1)
     ELSE (LedgerNth(s, n \div 2) + LedgerNth(s, n \div 2 + 1)) \div 2

LedgerBounds(prior) == [lo |-> prior \div 2, hi |-> (8 * prior) \div 5]

LedgerClamp(x, b) == IF x < b.lo THEN b.lo ELSE IF x > b.hi THEN b.hi ELSE x

(* A carrying walk counts on half the samples.                               *)
LedgerEnough(state) == IF state = "free" THEN LedgerMin ELSE (LedgerMin + 1) \div 2

LedgerRefit(e, state) ==
  [e EXCEPT !.value = IF Len(e.samples) >= LedgerEnough(state)
                      THEN LedgerClamp(LedgerMedian(e.samples), LedgerBounds(e.prior)) ELSE Unlearned]

LedgerKey(l) == [line |-> l.line, state |-> l.state]
LedgerBase(l) == [line |-> l.line, state |-> "free"]

(* Mutant: a walk in the book keeps the prior it was written with. *)
LedgerRefreshedOnce(l) ==
  IF l.body[LedgerKey(l)].prior # 0 THEN l
  ELSE [l EXCEPT !.body[LedgerKey(l)] = LedgerRefit([@ EXCEPT !.prior = l.prior], l.state)]

(* `refresh_priors`: the walk's prior is the code's, a carrying walk's what  *)
(* the free walk has learned.                                                *)
LedgerRefreshed(l) ==
  LET base == l.body[LedgerBase(l)].value
      prior == IF l.state = "free" \/ base = Unlearned THEN l.prior ELSE base
  IN [l EXCEPT !.body[LedgerKey(l)] = LedgerRefit([@ EXCEPT !.prior = prior], l.state)]

LedgerValue(l) ==
  LET own == l.body[LedgerKey(l)].value
  IN IF own # Unlearned THEN own ELSE l.body[LedgerBase(l)].value

(* `write`: when something changed, and not too often but by force; beside   *)
(* the file, then over it, or not at all.                                    *)
LedgerWrites(l, force) ==
  IF ~l.dirty \/ (~force /\ l.written) THEN {l}
  ELSE {l, [l EXCEPT !.file = l.body, !.dirty = FALSE, !.written = TRUE, !.afresh = FALSE]}

(* `with`: whatever is done is laid over the numbers, and written.           *)
LedgerWith(l, force) == LedgerWrites([l EXCEPT !.laid = LedgerValue(l)], force)

-----------------------------------------------------------------------------
(* No process, and a file; which line and build it is, LedgerOpens says.     *)
LedgerOff(file, turns) ==
  [line |-> CHOOSE line \in LedgerLines : TRUE, prior |-> CHOOSE p \in LedgerPriors : TRUE,
   on |-> FALSE, state |-> "free", body |-> [k \in LedgerKeys |-> LedgerNoEntry], file |-> file,
   laid |-> Unlearned, dirty |-> FALSE, written |-> FALSE, afresh |-> FALSE, up |-> FALSE,
   watch |-> "free", other |-> -1, clear |-> [says |-> "free", for |-> 0],
   astray |-> FALSE, turns |-> turns]

LedgerInit == ledger = LedgerOff([k \in LedgerKeys |-> LedgerNoEntry], LedgerTurns)

(* `init`: a process, of this line or another, of this build or another.  A  *)
(* file that cannot be read, or does not parse, is an empty book, which the  *)
(* next write lays over it.                                                  *)
LedgerRead == {ledger.file, [k \in LedgerKeys |-> LedgerNoEntry]}

LedgerOpens ==
  /\ ~ledger.on
  /\ \E line \in LedgerLines, prior \in LedgerPriors, book \in LedgerRead :
       LET l == LedgerRefreshed([ledger EXCEPT !.on = TRUE, !.line = line, !.prior = prior,
                                               !.state = "free", !.body = book,
                                               !.afresh = book # ledger.file,
                                               !.dirty = FALSE, !.written = FALSE])
       IN ledger' = [l EXCEPT !.laid = LedgerValue(l)]

(* Its end: told, it flushes; killed, what is not written is lost.           *)
LedgerEnds ==
  /\ ledger.on /\ ledger.turns > 0
  /\ \E flushed \in LedgerWith(ledger, TRUE) \cup {ledger} :
       ledger' = LedgerOff(flushed.file, flushed.turns - 1)

(* A leg, a turn, a coast or a settle that counts (`observe_step` and the    *)
(* others: any time, and whatever it measures): `take`.                      *)
LedgerTakes ==
  /\ ledger.on /\ ledger.turns > 0
  /\ \E sample \in LedgerSamples :
       LET pushed(e) == [e EXCEPT !.samples = LET s == Append(@, sample)
                                              IN IF Len(s) > LedgerKeep THEN Tail(s) ELSE s]
       IN ledger' \in LedgerWith([ledger EXCEPT
                        !.body[LedgerKey(ledger)] = LedgerRefit(pushed(@), ledger.state),
                        !.dirty = TRUE, !.turns = @ - 1], FALSE)

LedgerTimes == ledger.written /\ ledger' = [ledger EXCEPT !.written = FALSE]

(* Mutant: every walk in the book is forgotten. *)
LedgerForgottenAll(l) == [k \in LedgerKeys |-> LedgerNoEntry]

LedgerForgotten(l) == [l.body EXCEPT ![LedgerKey(l)] = LedgerNoEntry]

(* `reset`, on request: this walk's samples; the priors stand.               *)
LedgerResets ==
  /\ ledger.on /\ ledger.turns > 0
  /\ ledger' \in LedgerWith(LedgerRefreshed([ledger EXCEPT !.body = LedgerForgotten(ledger),
                                                           !.dirty = TRUE, !.turns = @ - 1]), TRUE)

-----------------------------------------------------------------------------
LedgerStated(l, state) ==
  IF state = l.state THEN l ELSE LedgerRefreshed([l EXCEPT !.state = state, !.dirty = TRUE])

LedgerElse(state) == IF state = "free" THEN "carrying" ELSE "free"

(* `BodyWatch::tick`: what the mouth says, `unclear` between the thresholds, *)
(* `none` where it is not reported.  The state moves once the mouth has said *)
(* the other for a while.                                                    *)
LedgerSeen(l, says) ==
  LET other == IF l.other = -1 THEN 0 ELSE l.other
  IN IF says = "none" THEN l
     ELSE IF says # LedgerElse(l.watch) THEN [l EXCEPT !.other = -1]
     ELSE IF other < LedgerHold THEN [l EXCEPT !.other = other]
     ELSE LedgerStated([l EXCEPT !.watch = says, !.other = -1], says)

(* Kept for the properties: for how long the mouth has said the same.        *)
LedgerHeard(clear, says) ==
  IF says \notin LedgerStates THEN [clear EXCEPT !.for = 0]
  ELSE IF clear.says # says THEN [says |-> says, for |-> 1]
  ELSE [clear EXCEPT !.for = IF @ > LedgerHold THEN @ ELSE @ + 1]

(* A state of the body, a while after the last.                              *)
LedgerBody ==
  /\ ledger.on /\ ledger.up
  /\ \E says \in LedgerStates \cup {"unclear", "none"} :
       LET later == [ledger EXCEPT !.other = IF @ \in 0 .. LedgerHold - 1 THEN @ + 1 ELSE @]
           seen == LedgerSeen(later, says)
           told == [seen EXCEPT
                     !.clear = LedgerHeard(@, says),
                     !.astray = @ /\ seen.watch = ledger.watch]
       IN ledger' \in LedgerWith(told, FALSE)

(* The lane opened anew has a watch of its own.                              *)
LedgerLane ==
  /\ ledger.on
  /\ ledger' \in {[ledger EXCEPT !.up = up, !.watch = "free", !.other = -1, !.clear = [says |-> "free", for |-> 0],
                                 !.astray = ledger.state # "free"] : up \in {~ledger.up}}

LedgerNext ==
  \/ LedgerOpens \/ LedgerEnds \/ LedgerTakes \/ LedgerTimes \/ LedgerResets
  \/ LedgerBody \/ LedgerLane

LedgerSpec == LedgerInit /\ [][LedgerNext]_ledger

-----------------------------------------------------------------------------
(* What is laid over the numbers is never far from this build's: the file    *)
(* may be another build's, and the walk change under it.  A load changes it  *)
(* about the free walk's.                                                    *)
LedgerBounded ==
  ledger.on /\ ledger.laid # Unlearned =>
    LET free == ledger.body[LedgerBase(ledger)].value
        about == IF ledger.state = "free" \/ free = Unlearned THEN ledger.prior ELSE free
        b == LedgerBounds(about)
    IN ledger.laid \in b.lo .. b.hi

(* What is held for written is in the file, failed writes and all; only a    *)
(* process whose book is not the file's holds nothing for written.           *)
LedgerKept ==
  ledger.on /\ ~ledger.dirty =>
    \A k \in LedgerKeys : \/ ledger.file[k].samples = ledger.body[k].samples
                          \/ ledger.afresh /\ ledger.body[k].samples = <<>>

(* The walk follows the beak: what the mouth has said for longer than the    *)
(* hold is the walk's state - but where the lane was opened anew while the   *)
(* walk was the carrying one, until the mouth says so again.                 *)
LedgerFollows ==
  ledger.on /\ ledger.up /\ ~ledger.astray /\ ledger.clear.for > LedgerHold =>
    ledger.state = ledger.clear.says

LedgerTrue == LedgerBounded /\ LedgerKept /\ LedgerFollows

(* One line's numbers never become another's, nor those of the body in the   *)
(* other state.  A walk's samples in the file change only while the process  *)
(* is of its line, but for the one write of a process that could not read    *)
(* the file: that loses the other lines' whole, and the next keeps what it   *)
(* left.  A leg or a reset touches no walk but the body's.                   *)
LedgerKeeps ==
  [][/\ \A k \in LedgerKeys : ledger'.file[k].samples # ledger.file[k].samples =>
          \/ k.line = ledger.line
          \/ ledger.afresh /\ ~ledger'.afresh /\ ledger'.file[k].samples = <<>>
     /\ ledger.on /\ ledger'.on =>
          \A k \in LedgerKeys \ {LedgerKey(ledger)} : ledger'.body[k].samples = ledger.body[k].samples]_ledger
=============================================================================
