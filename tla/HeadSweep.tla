----------------------------- MODULE HeadSweep -----------------------------
(* The head sweep (quack-nav/src/mapd/sweep.rs): who has the head.  Whoever  *)
(* wrote it last does: the sweep, a look at the floor the navigation takes,  *)
(* somebody else, or robotd, which glances about by itself when no command   *)
(* has come for a while.  The sweep reads the head as commanded and cannot   *)
(* tell a glance from somebody else's pose.                                  *)
(*                                                                           *)
(* A tick of the model is a pass of the sweep's loop and the time to the     *)
(* next; the constants are times in ticks.                                   *)
EXTENDS Naturals

CONSTANTS
  SweepNudge,    \* NUDGE_WAIT: 2.5 s
  SweepYield,    \* YIELD: 5 s
  HeadIdle,      \* robotd glances this long after the last command: 2 s
  HeadGlance,    \* a glance lasts this long
  HeadFade,      \* and this long once a command came: 1.5 s
  HeadPause,     \* robotd's pause between two glances
  HeadLease      \* a look's lease of the head

ASSUME SweepAssumption ==
  /\ {SweepNudge, SweepYield, HeadIdle, HeadGlance, HeadPause, HeadLease} \subseteq Nat \ {0}
  /\ HeadFade \in Nat
  /\ HeadFade < SweepNudge /\ SweepNudge < SweepYield   \* as NUDGE_WAIT is chosen
  /\ SweepYield < HeadPause                             \* nothing in the code says so

VARIABLES
  sweep,   \* the loop's locals
  head     \* the head's other users, and what the sweep is asked for

sweepVars == <<sweep, head>>

Sweeps ==
  [on : BOOLEAN,                               \* was_sweeping
   nudging : BOOLEAN, age : 0 .. SweepYield,   \* nudged
   yield : 0 .. SweepYield,                    \* foreign_until
   over : Nat]                                 \* writes over a pose, a need's
Heads ==
  [other : BOOLEAN, lent : 0 .. HeadLease,
   glance : 0 .. HeadGlance, idle : 0 .. HeadIdle, pause : 0 .. HeadPause,
   wanted : BOOLEAN, fresh : BOOLEAN, stands : BOOLEAN]

SweepTypeOK == sweep \in Sweeps /\ head \in Heads

SweepLess(n) == IF n = 0 THEN 0 ELSE n - 1
SweepUpTo(n, most) == IF n < most THEN n + 1 ELSE most

SweepOff == [on |-> FALSE, nudging |-> FALSE, age |-> 0, yield |-> 0, over |-> 0]
HeadStart ==
  [other |-> FALSE, lent |-> 0, glance |-> 0, idle |-> 0, pause |-> 0,
   wanted |-> FALSE, fresh |-> TRUE, stands |-> TRUE]

SweepInit == sweep = SweepOff /\ head = HeadStart

-----------------------------------------------------------------------------
(* Mutant: the sweep takes the head it turned itself for somebody's pose. *)
SweepPosedOwn ==
  head.fresh /\ head.lent = 0 /\ (head.other \/ head.glance > 0 \/ sweep.on)

(* The pass: a posed head first gets the sweep's own commands; posed still,  *)
(* it is somebody else's, and the sweep stands aside until SweepYield after  *)
(* it goes.  A pose is not proved again while the navigation needs the head  *)
(* and the pose comes and goes.                                              *)
SweepPosed == head.fresh /\ head.lent = 0 /\ (head.other \/ head.glance > 0)

(* Mutant: the pose is proved for as long as the nudge is remembered. *)
SweepAgeForgotten == 0

SweepNudging == sweep.nudging \/ (SweepPosed /\ head.wanted /\ sweep.yield = 0)
SweepAge == IF sweep.nudging THEN sweep.age ELSE 0
SweepProving == SweepNudging /\ SweepAge < SweepNudge

SweepYields ==
  IF SweepPosed /\ ~SweepProving THEN SweepYield ELSE sweep.yield

SweepKeepsNudge ==
  /\ SweepNudging
  /\ \/ SweepPosed /\ ~SweepProving
     \/ head.wanted /\ (SweepPosed \/ SweepAge < SweepYield)

(* `sweeps`: the policy stands (or walks, in continuous mode).  When it      *)
(* stops, the head goes back to the centre, once, but not a head somebody    *)
(* else has.                                                                 *)
SweepSweeps ==
  SweepYields = 0 /\ head.lent = 0 /\ head.wanted /\ head.fresh /\ head.stands

SweepWrites ==
  SweepSweeps \/ (sweep.on /\ SweepYields = 0 /\ head.lent = 0)

(* The head meanwhile: any command ends a glance and puts off the next. *)
HeadNext(h, commanded) ==
  LET less == SweepLess(h.glance)
      faded == IF less < HeadFade THEN less ELSE SweepLess(HeadFade)
      ripe == h.idle >= HeadIdle /\ h.pause = 0
  IN {[h EXCEPT !.lent = SweepLess(@), !.idle = IF commanded THEN 0 ELSE SweepUpTo(@, HeadIdle),
                !.glance = IF commanded THEN faded ELSE IF glances THEN HeadGlance ELSE less,
                !.pause = IF ~commanded /\ h.glance = 1 THEN HeadPause ELSE SweepLess(@)]
        : glances \in {g \in BOOLEAN : g => ripe /\ ~commanded}}

SweepTick ==
  /\ sweep' = [on |-> SweepSweeps, nudging |-> SweepKeepsNudge,
               age |-> IF SweepKeepsNudge THEN SweepUpTo(SweepAge, SweepYield) ELSE 0,
               yield |-> SweepLess(SweepYields),
               over |-> IF ~(head.other /\ head.wanted /\ head.fresh /\ head.lent = 0) THEN 0
                        ELSE IF SweepWrites THEN sweep.over + 1 ELSE sweep.over]
  /\ head' \in HeadNext(head, SweepWrites \/ head.other \/ head.lent > 0)

-----------------------------------------------------------------------------
(* Somebody poses the head, or lets it go; a job starts or ends, the pose is *)
(* lost or found, a rest's watch is due; the body stands or does not; the    *)
(* state stream dies and comes back; `look_down` lends the head.             *)
HeadChanges ==
  /\ \/ head' = [head EXCEPT !.other = ~@]
     \/ head' = [head EXCEPT !.wanted = ~@]
     \/ head' = [head EXCEPT !.stands = ~@]
     \/ head' = [head EXCEPT !.fresh = ~@]
     \/ head.wanted /\ head.lent = 0 /\ head' = [head EXCEPT !.lent = HeadLease]
  /\ UNCHANGED sweep

SweepNext == SweepTick \/ HeadChanges

(* The loop sleeps its 50 ms and goes round. *)
SweepFairness == WF_sweepVars(SweepTick)

SweepSpec == SweepInit /\ [][SweepNext]_sweepVars /\ SweepFairness

-----------------------------------------------------------------------------
(* The sweep fights nobody for the head: while the navigation needs the head *)
(* it writes over a pose somebody else holds no longer than it takes to tell *)
(* it from a glance.  (A need that ends and comes again proves it anew.)     *)
SweepStandsAside == sweep.over <= SweepNudge

(* A glance never keeps the head: once the navigation needs it for good on a *)
(* standing body and nobody else poses it, the sweep gets it and keeps it.   *)
SweepGetsTheHead ==
  <>[](head.wanted /\ head.stands /\ head.fresh /\ head.lent = 0 /\ ~head.other)
    => <>[](sweep.on)
=============================================================================
