---------------------------- MODULE MapperTrust ----------------------------
(* The mapper's trust in its pose (maploc/src/mapper.rs): what makes the     *)
(* pose suspect, lost or untrusted, what earns it back, when it rests, and   *)
(* what may ink the map meanwhile.                                           *)
(*                                                                           *)
(* One record is the Mapper.  Geometry is a free choice: how a window judges *)
(* a pose, whether a search or the shadow map finds one, how far the body    *)
(* went.  So are the clocks (a window is ripe, a rest or its watch is due).  *)
(* An operator from a record gives the set of records its code may leave.    *)
EXTENDS Naturals

CONSTANTS
  MapperLimit,     \* lost_give_up_windows: 8
  MapperPatience,  \* suspect_give_up_windows: 10
  MapperHeld       \* settle.max_held_windows: 12

ASSUME MapperAssumption ==
  MapperLimit \in Nat \ {0} /\ MapperPatience \in Nat \ {0} /\ MapperHeld \in Nat

VARIABLE mapper

MapperTwo == 2   \* lost_after_windows, agree windows, doubt_after, settle.windows

MapperVerdicts == {"confirmed", "refuted", "ambiguous", "unjudgeable"}
MapperSamples == {"still", "shifted", "moving", "sitting", "fallen"}
MapperAwake == [on |-> FALSE, watching |-> FALSE, contradictions |-> 0]
MapperSettled == [on |-> FALSE, run |-> 0, held |-> 0]

Mappers ==
  [continuous : BOOLEAN, frozen : BOOLEAN,          \* cfg
   settle : BOOLEAN,                                \* cfg.settle.enabled
   settings : {"normal", "global"},                 \* cfg.hard_lost_*, cfg.lost_give_up_windows
   kept : {"none", "normal", "global"},             \* after_boot
   map : BOOLEAN,                                   \* the slam has a submap
   lost : BOOLEAN, hard : BOOLEAN, fallen : BOOLEAN, resumed : BOOLEAN,
   booting : BOOLEAN, untrusted : BOOLEAN, engaged : BOOLEAN,
   suspect : 0 .. MapperTwo - 1,
   seed : {"none", "carried", "map"},               \* soft_seed, seed_from_map
   agreed : 0 .. MapperTwo, unjudged : 0 .. MapperPatience,
   pending : BOOLEAN, searches : 0 .. MapperTwo,    \* pending_reloc, last_search
   lostWindows : 0 .. MapperLimit, shadow : BOOLEAN,
   settling : [on : BOOLEAN, run : 0 .. MapperTwo - 1, held : 0 .. MapperHeld],
   rest : [on : BOOLEAN, watching : BOOLEAN, contradictions : 0 .. MapperTwo - 1],
   pushed : BOOLEAN, still : BOOLEAN, standGrid : BOOLEAN,
   window : BOOLEAN,                                \* the accumulator holds frames
   (* what the last step did: how it found its pose, whether it inked, and   *)
   (* whether a window has refuted the carried pose since it was doubted     *)
   found : {"no", "seed", "candidate", "unverified", "odometry"},
   inked : BOOLEAN, refuted : BOOLEAN]

MapperTypeOK == mapper \in Mappers

-----------------------------------------------------------------------------
(* `Mapper::arm_suspicion`: keep odometry, ink nothing, "not moved" the seed.*)
MapperArmed(m) ==
  [m EXCEPT !.lost = TRUE, !.hard = FALSE, !.suspect = 0, !.unjudged = 0,
            !.agreed = 0, !.seed = "carried", !.pending = FALSE, !.searches = 0,
            !.refuted = FALSE]

(* Mutant: the usual settings are not kept. *)
MapperKeptNot(m) == m.kept

(* `Mapper::search_afresh`: nobody vouches for the pose; the whole map is    *)
(* searched without giving up, and the usual settings are kept for after.    *)
MapperKept(m) == IF m.kept = "none" THEN m.settings ELSE m.kept

MapperAfresh(m) ==
  [m EXCEPT !.kept = MapperKept(m), !.settings = "global", !.lost = TRUE,
            !.hard = TRUE, !.resumed = TRUE, !.booting = TRUE,
            !.lostWindows = 0, !.shadow = m.map]

(* `Mapper::distrust`. *)
MapperDistrusted(m) ==
  [MapperAfresh(IF m.lost THEN m ELSE MapperArmed(m)) EXCEPT !.untrusted = TRUE]

(* `Mapper::new`, on a fresh map or a session's; `resumed_lost` on top.      *)
MapperBlank(continuous, settle, frozen, map) ==
  [continuous |-> continuous, settle |-> settle, frozen |-> frozen, settings |-> "normal",
   kept |-> "none", map |-> map, lost |-> FALSE, hard |-> FALSE,
   fallen |-> FALSE, resumed |-> FALSE, booting |-> FALSE, untrusted |-> FALSE,
   engaged |-> FALSE, suspect |-> 0, seed |-> "none", agreed |-> 0,
   unjudged |-> 0, pending |-> FALSE, searches |-> 0, lostWindows |-> 0,
   shadow |-> FALSE, settling |-> MapperSettled, rest |-> MapperAwake,
   pushed |-> FALSE, still |-> FALSE, standGrid |-> FALSE, window |-> FALSE,
   found |-> "no", inked |-> FALSE, refuted |-> FALSE]

MapperNew(continuous, settle, frozen, map) ==
  LET m == MapperBlank(continuous, settle, frozen, map)
  IN IF map THEN MapperArmed(m) ELSE m

MapperInits ==
  {MapperNew(c, s, f, map) : c \in BOOLEAN, s \in BOOLEAN, f \in BOOLEAN, map \in BOOLEAN}
MapperInit == mapper \in MapperInits

-----------------------------------------------------------------------------
(* `Mapper::ink`: by the configuration, so not at the confirming window of a *)
(* frozen map either.                                                        *)
MapperInk(m) == [m EXCEPT !.inked = @ \/ ~m.frozen]

(* `Mapper::resume_at`: tracking resumes, and the window that earned it inks *)
(* - where settling is on, not on a resumed map or after a fall: there the   *)
(* pose settles first.  (The daemon leaves `settle` at its default, off.)    *)
(* The boot's search settings go back.                                       *)
MapperResumed(m, how) ==
  LET settles == m.settle /\ (m.resumed \/ m.fallen)
      after == IF settles THEN [m EXCEPT !.settling = [on |-> TRUE, run |-> 0, held |-> 0]]
                          ELSE MapperInk(m)
  IN [after EXCEPT
        !.lost = FALSE, !.untrusted = FALSE, !.suspect = 0, !.unjudged = 0,
        !.agreed = 0, !.seed = "none", !.shadow = FALSE, !.pending = FALSE,
        !.searches = 0, !.lostWindows = 0, !.hard = FALSE, !.fallen = FALSE,
        !.settings = IF m.booting /\ m.kept # "none" THEN m.kept ELSE @,
        !.kept = IF m.booting THEN "none" ELSE @,
        !.booting = FALSE, !.found = how]

-----------------------------------------------------------------------------
(* A window while lost (`absorb_window`), last stage first.                  *)

(* The search of this window.  At the boot's, the hypotheses nominate; past  *)
(* it, searches that agree do.  A pending candidate is left alone.           *)
MapperSearch(m) ==
  IF m.hard /\ m.resumed /\ m.booting THEN {m, [m EXCEPT !.pending = TRUE]}
  ELSE {m, [m EXCEPT !.searches = 1]}
       \cup IF m.searches > 0
            THEN {[m EXCEPT !.searches = MapperTwo, !.pending = TRUE]} ELSE {}

(* Lost by the watchdog for too long: resume where odometry carried the pose.*)
MapperGiveUp(m) ==
  IF ~(m.hard /\ m.settings = "normal" /\ ~m.fallen) THEN MapperSearch(m)
  ELSE IF m.lostWindows + 1 > MapperLimit THEN {MapperResumed(m, "odometry")}
  ELSE MapperSearch([m EXCEPT !.lostWindows = @ + 1])

(* The pending candidate: dropped unless this window confirms it (and leaves *)
(* no valley through it); at a boot kept until the body has walked.          *)
MapperCandidate(m) ==
  IF ~m.pending THEN MapperGiveUp(m)
  ELSE MapperGiveUp([m EXCEPT !.pending = FALSE])
       \cup {MapperResumed(m, "candidate")}
       \cup (IF m.booting THEN MapperGiveUp(m) ELSE {})

(* Two agreeing windows, and where the map is an earlier run's or after a    *)
(* fall a unique place with no valley: the seed of the shadow's map is not   *)
(* asked either.                                                             *)
MapperBelieves(m) ==
  IF m.seed = "map" \/ ~(m.resumed \/ m.fallen) THEN {TRUE} ELSE BOOLEAN

MapperAgreement(m) ==
  LET n == IF m.agreed < MapperTwo THEN m.agreed + 1 ELSE MapperTwo
  IN {IF n >= MapperTwo /\ b THEN MapperResumed(m, "seed")
                             ELSE [m EXCEPT !.agreed = n] : b \in MapperBelieves(m)}

(* Mutant: as in a map of this run, whatever happened. *)
MapperUnjudgedAnywhere(m) ==
  LET n == IF m.unjudged < MapperPatience THEN m.unjudged + 1 ELSE MapperPatience
  IN IF n >= MapperPatience
     THEN {MapperResumed(m, "unverified")}
     ELSE MapperCandidate([m EXCEPT !.agreed = 0, !.unjudged = n])

MapperUnjudged(m) ==
  LET n == IF m.unjudged < MapperPatience THEN m.unjudged + 1 ELSE MapperPatience
  IN IF n >= MapperPatience /\ ~m.fallen /\ ~m.resumed
     THEN {MapperResumed(m, "unverified")}
     ELSE MapperCandidate([m EXCEPT !.agreed = 0, !.unjudged = n])

MapperSeedJudged(m, verdict) ==
  CASE verdict = "confirmed"   -> MapperAgreement(m)
    [] verdict = "refuted"     -> MapperCandidate([m EXCEPT !.agreed = 0, !.seed = "none",
                                                            !.refuted = TRUE])
    [] verdict = "ambiguous"   -> MapperCandidate([m EXCEPT !.agreed = 0])
    [] verdict = "unjudgeable" -> MapperUnjudged(m)

(* Mutant: an untrusted pose is judged while nothing drives the duck. *)
MapperLostWindowAlways(m) ==
  IF ~m.map THEN {m}
  ELSE IF m.seed = "none" THEN MapperCandidate(m)
  ELSE UNION {MapperSeedJudged(m, v) : v \in MapperVerdicts}

MapperLostWindow(m) ==
  IF (m.untrusted /\ ~m.engaged) \/ ~m.map THEN {m}
  ELSE IF m.seed = "none" THEN MapperCandidate(m)
  ELSE UNION {MapperSeedJudged(m, v) : v \in MapperVerdicts}

-----------------------------------------------------------------------------
(* Mutant: the run of contradictions is not counted anew after a kidnap. *)
MapperContradictedOn(m) ==
  IF m.suspect + 1 < MapperTwo THEN [m EXCEPT !.suspect = @ + 1]
  ELSE [m EXCEPT !.lost = TRUE, !.hard = TRUE, !.suspect = @ + 1, !.pending = FALSE,
                 !.searches = 0, !.lostWindows = 0]

(* A window while tracking: the watchdog first, against the map the stand    *)
(* began with; a run of contradictions is a kidnap.                          *)
MapperContradicted(m) ==
  IF m.suspect + 1 < MapperTwo THEN [m EXCEPT !.suspect = @ + 1]
  ELSE [m EXCEPT !.lost = TRUE, !.hard = TRUE, !.suspect = 0, !.pending = FALSE,
                 !.searches = 0, !.lostWindows = 0]

(* Settling: a window corrects the pose and inks nothing, until two in a row *)
(* agree, or too many were held.                                             *)
MapperSettling(m) ==
  LET s == m.settling
      runs == {s.run + 1, 0, s.run}
  IN {IF run >= MapperTwo \/ s.held + 1 > MapperHeld
      THEN MapperInk([m EXCEPT !.settling = MapperSettled])
      ELSE [m EXCEPT !.settling = [on |-> TRUE, run |-> run, held |-> s.held + 1]]
      : run \in runs}

MapperTrackedWindow(m) ==
  LET agrees == [m EXCEPT !.suspect = IF m.standGrid THEN 0 ELSE @]
  IN (IF m.standGrid THEN {MapperContradicted(m)} ELSE {})
     \cup (IF m.settling.on THEN MapperSettling(agrees) ELSE {MapperInk(agrees)})

(* `Mapper::wake`, and a rest's watch: two contradictions in a row make the  *)
(* pose untrusted, a drift wakes the windows, anything else rests on.  (What *)
(* a residual is measured against is left free.)                             *)
MapperWoken(m) ==
  [m EXCEPT !.rest = MapperAwake, !.window = @ /\ ~m.rest.watching]

MapperWatch(m) ==
  LET looked == [m EXCEPT !.rest.watching = FALSE]
  IN {[looked EXCEPT !.rest.contradictions = 0], MapperWoken(looked)}
     \cup {IF m.rest.contradictions + 1 >= MapperTwo
           THEN MapperDistrusted(MapperWoken(looked))
           ELSE [looked EXCEPT !.rest.contradictions = @ + 1]}

(* `Mapper::absorb_window`; a window too thin is discarded. *)
MapperAbsorb(m) ==
  IF m.rest.on THEN MapperWatch(m)
  ELSE {m} \cup (IF m.lost THEN MapperLostWindow(m) ELSE MapperTrackedWindow(m))

-----------------------------------------------------------------------------
(* `Mapper::observe`, stage by stage.                                        *)

(* The shadow map may have placed its walk on the saved map. *)
MapperShadowed(m) ==
  {m} \cup IF m.lost /\ m.shadow
           THEN {[m EXCEPT !.seed = "map", !.agreed = 0]} ELSE {}

(* `correct_while_walking`: on the go the map to judge by is taken anew. *)
MapperCorrected(m) ==
  {m} \cup IF m.continuous /\ ~m.lost THEN {[m EXCEPT !.standGrid = m.map]} ELSE {}

(* The stand's window closes when the stand ends, or while it lasts. *)
MapperFlushed(m, s) ==
  LET closed == [m EXCEPT !.window = FALSE]
  IN IF ~m.window THEN {m}
     ELSE IF m.still /\ s # "still" THEN {closed} \cup MapperAbsorb(closed)
     ELSE {m, closed} \cup MapperAbsorb(closed)

(* The stand's own books: a stand that begins freezes what it is judged by.  *)
MapperStood(m, s) ==
  [m EXCEPT !.standGrid = IF s = "still" /\ ~m.still THEN m.map ELSE @,
            !.still = s = "still"]

(* A sit or a fall makes a trusted pose suspect. *)
MapperSeated(m, s) ==
  LET down == [m EXCEPT !.fallen = @ \/ s = "fallen"]
  IN IF s \in {"sitting", "fallen"} /\ ~m.lost THEN MapperArmed(down) ELSE down

(* `Mapper::rest_step`: a push out of a rest is followed until somebody      *)
(* walks the body or it stands; a rest ends at whatever moves the body, and  *)
(* a rest that ends in a sit, a fall or a long push leaves the pose untrusted.*)
MapperPushed(m, s) ==
  IF ~m.pushed THEN {m}
  ELSE {IF m.engaged \/ s = "moving" \/ m.lost \/ s = "still"
        THEN [m EXCEPT !.pushed = FALSE] ELSE m}
       \cup (IF m.engaged \/ s = "moving" \/ m.lost THEN {}
             ELSE {MapperDistrusted([m EXCEPT !.pushed = FALSE])})

(* Mutant: a rest outlives the trust in its pose. *)
MapperRestEndsLate(m, s) ==
  IF m.engaged THEN {MapperWoken(m)}
  ELSE IF s = "shifted" THEN {[MapperWoken(m) EXCEPT !.pushed = TRUE]} ELSE {m}

MapperRestEnds(m, s) ==
  LET w == MapperWoken(m)
  IN IF m.lost THEN {MapperDistrusted(w)}
     ELSE IF m.engaged THEN {w}
     ELSE IF s = "shifted" THEN {[w EXCEPT !.pushed = TRUE], MapperDistrusted(w)}
     ELSE IF s = "still" THEN {m} ELSE {w}

MapperRested(m, s) ==
  IF m.rest.on THEN MapperRestEnds(m, s)
  ELSE {m} \cup
       IF s = "still" /\ ~m.engaged /\ ~m.lost /\ ~m.settling.on
       THEN {[m EXCEPT !.window = FALSE, !.rest = [MapperAwake EXCEPT !.on = TRUE]]}
       ELSE {}

(* `Slam::tick` while the pose is trusted and the map live: the first submap *)
(* opens; a loop closure drops the open window.                              *)
MapperTicked(m) ==
  IF m.lost \/ m.frozen THEN {m}
  ELSE {[m EXCEPT !.map = TRUE],
        [m EXCEPT !.map = TRUE, !.window = FALSE,
                  !.standGrid = IF m.still THEN TRUE ELSE @]}

(* What a push that made the pose untrusted returns past. *)
MapperRestStep(m, s) ==
  UNION {IF p.untrusted /\ ~m.untrusted THEN {p} ELSE MapperRested(p, s)
         : p \in MapperPushed(m, s)}

MapperCleared(m) == [m EXCEPT !.found = "no", !.inked = FALSE]

MapperObserved(m, s) ==
  UNION {UNION {UNION {MapperTicked(r) : r \in MapperRestStep(MapperSeated(MapperStood(f, s), s), s)}
                : f \in MapperFlushed(c, s)}
         : c \in UNION {MapperCorrected(d) : d \in MapperShadowed(m)}}

(* Event::Odom: the host says whether a job drives the body, then the tick.  *)
MapperObserve ==
  \E s \in MapperSamples, engaged \in BOOLEAN :
    mapper' \in MapperObserved([MapperCleared(mapper) EXCEPT !.engaged = engaged], s)

(* `Mapper::frame`: resting, only a watch that is due opens a window; in     *)
(* continuous mode a trusted pose inks at once; else the stand accumulates.  *)
MapperFramed(m) ==
  IF m.untrusted /\ ~m.engaged THEN {m}
  ELSE IF m.rest.on /\ ~m.rest.watching
  THEN {m} \cup IF m.still THEN {[m EXCEPT !.rest.watching = TRUE, !.window = TRUE]} ELSE {}
  ELSE IF m.continuous /\ ~m.lost /\ ~m.rest.on
  THEN {IF m.map THEN MapperInk(m) ELSE m}
  ELSE {IF m.still THEN [m EXCEPT !.window = TRUE] ELSE m}

MapperFrame == mapper' \in MapperFramed(MapperCleared(mapper))

(* `Mapper::set_frozen`, and the mappers the host builds (Event::Wipe, Adopt *)
(* and Load; a loaded session may hold no submap).                           *)
MapperFreeze ==
  \E on \in BOOLEAN : mapper' = [MapperCleared(mapper) EXCEPT !.frozen = on]

MapperBuild ==
  \E frozen, map \in BOOLEAN :
    LET m == MapperNew(mapper.continuous, mapper.settle, frozen, map)
    IN mapper' \in {m, MapperAfresh(m)}

MapperNext == MapperObserve \/ MapperFrame \/ MapperFreeze \/ MapperBuild

MapperSpec == MapperInit /\ [][MapperNext]_mapper

-----------------------------------------------------------------------------
(* The boot's search settings never outlive the boot: whatever doubts came   *)
(* on top of each other, a mapper that is not at a boot gives up and keeps   *)
(* near its pose as configured, and one that is at a boot does neither and   *)
(* remembers what to go back to.                                             *)
MapperSettingsBack ==
  IF mapper.booting THEN mapper.settings = "global" /\ mapper.kept = "normal"
                    ELSE mapper.settings = "normal" /\ mapper.kept = "none"

(* A rest is a trusted pose's: nothing rests that is lost, untrusted,        *)
(* settling or driven; and what is untrusted is lost, at a boot's search.    *)
MapperRestsTrusted ==
  /\ mapper.rest.on => /\ ~mapper.lost /\ ~mapper.settling.on
                       /\ mapper.still /\ ~mapper.engaged
  /\ mapper.untrusted => mapper.lost /\ mapper.hard /\ mapper.booting

(* Tracking never resumes unverified after evidence: not on a seed a window  *)
(* has refuted since the pose was doubted, not after a fall, not at a boot   *)
(* on a saved map; and only a loss the watchdog called gives up to odometry. *)
MapperNoBlindResume ==
  [][/\ mapper'.found = "unverified" =>
          ~mapper'.refuted /\ ~mapper.fallen /\ ~mapper.resumed
     /\ mapper'.found = "odometry" =>
          mapper.hard /\ ~mapper.fallen /\ ~mapper.booting]_mapper

(* An untrusted pose waits for a job: while none drives the duck, nothing    *)
(* the windows say makes it trusted again, but another mapper.               *)
MapperUntrustedWaits ==
  [][mapper.untrusted /\ ~mapper'.engaged /\ ~MapperBuild => mapper'.untrusted]_mapper

(* Nothing inks that should not: never a frozen map, and of a lost pose only *)
(* the window that finds it.  At a boot or after a fall that window inks on  *)
(* evidence alone, a seed that agreed or a candidate confirmed; where        *)
(* settling is on, after a fall or on an earlier run's map not even that one.*)
MapperDry ==
  [][mapper'.inked =>
       /\ ~mapper'.frozen
       /\ mapper.lost =>
            /\ mapper'.found # "no"
            /\ mapper.fallen \/ mapper.booting => mapper'.found \in {"seed", "candidate"}
            /\ mapper.settle => ~mapper.resumed /\ ~mapper.fallen]_mapper

(* The mapper's state: the boot's settings go back, what rests is trusted.   *)
MapperTrue == MapperSettingsBack /\ MapperRestsTrusted

(* The mapper's steps: tracking resumes on evidence of this loss, an         *)
(* untrusted pose waits for a job, and nothing inks that should not.         *)
MapperCareful == MapperNoBlindResume /\ MapperUntrustedWaits /\ MapperDry
=============================================================================
