------------------------- MODULE MapperTrustProofs -------------------------
(* Proofs about MapperTrust: one lemma per stage of `observe` and of         *)
(* `absorb_window`, each from a record to every record its code may leave.   *)
EXTENDS MapperTrust, TLAPS

(* The record's fields and what each holds: Mappers, field by field. *)
MapperFields ==
  {"continuous", "settle", "frozen", "settings", "kept", "map", "lost", "hard", "fallen",
   "resumed", "booting", "untrusted", "engaged", "suspect", "seed", "agreed",
   "unjudged", "pending", "searches", "lostWindows", "shadow", "settling", "rest",
   "pushed", "still", "standGrid", "window", "found", "inked", "refuted"}
MapperRecord(m) == m = [x \in MapperFields |-> m[x]]
MapperParts(m) ==
  /\ m.continuous \in BOOLEAN /\ m.settle \in BOOLEAN /\ m.frozen \in BOOLEAN
  /\ m.settings \in {"normal", "global"}
  /\ m.kept \in {"none", "normal", "global"} /\ m.map \in BOOLEAN /\ m.lost \in BOOLEAN
  /\ m.hard \in BOOLEAN /\ m.fallen \in BOOLEAN /\ m.resumed \in BOOLEAN
  /\ m.booting \in BOOLEAN /\ m.untrusted \in BOOLEAN /\ m.engaged \in BOOLEAN
  /\ m.suspect \in 0 .. MapperTwo - 1 /\ m.seed \in {"none", "carried", "map"}
  /\ m.agreed \in 0 .. MapperTwo /\ m.unjudged \in 0 .. MapperPatience
  /\ m.pending \in BOOLEAN /\ m.searches \in 0 .. MapperTwo
  /\ m.lostWindows \in 0 .. MapperLimit /\ m.shadow \in BOOLEAN
  /\ m.settling \in [on : BOOLEAN, run : 0 .. MapperTwo - 1, held : 0 .. MapperHeld]
  /\ m.rest \in [on : BOOLEAN, watching : BOOLEAN, contradictions : 0 .. MapperTwo - 1]
  /\ m.pushed \in BOOLEAN /\ m.still \in BOOLEAN /\ m.standGrid \in BOOLEAN
  /\ m.window \in BOOLEAN
  /\ m.found \in {"no", "seed", "candidate", "unverified", "odometry"}
  /\ m.inked \in BOOLEAN /\ m.refuted \in BOOLEAN
MapperTyped(m) == MapperRecord(m) /\ MapperParts(m)

LEMMA MapperTypedIs == ASSUME NEW m PROVE MapperTyped(m) <=> m \in Mappers
<1>1. m \in Mappers => MapperParts(m)
  BY DEF Mappers, MapperParts
<1>2. m \in Mappers => MapperRecord(m)
  BY DEF Mappers, MapperRecord, MapperFields
<1>3. MapperTyped(m) => m \in Mappers
  BY DEF Mappers, MapperTyped, MapperParts, MapperRecord, MapperFields
<1> QED BY <1>1, <1>2, <1>3 DEF MapperTyped

(* The boot's settings, and what is untrusted. *)
MapperBacked(m) ==
  IF m.booting THEN m.settings = "global" /\ m.kept = "normal"
               ELSE m.settings = "normal" /\ m.kept = "none"
MapperDoubted(m) == m.untrusted => m.lost /\ m.hard /\ m.booting

(* What the seed is worth: the shadow's, and one a window has refuted; and a *)
(* boot's search is on a map the mapper resumed. *)
MapperSeeded(m) ==
  /\ m.booting => m.resumed
  /\ m.shadow => m.resumed
  /\ m.seed = "map" => m.resumed
  /\ m.refuted => m.seed # "carried"

(* What holds between the stages of `observe`, and what of a rest only       *)
(* between its calls.                                                        *)
MapperLoose(m) ==
  /\ MapperTyped(m) /\ MapperBacked(m) /\ MapperDoubted(m) /\ MapperSeeded(m)
  /\ m.rest.on => ~m.settling.on /\ ~m.pushed
MapperGood(m) ==
  MapperLoose(m) /\ (m.rest.on => ~m.lost /\ m.still /\ ~m.engaged)

(* The inductive invariant. *)
MapperInv == MapperGood(mapper)

(* What a window left of m may say: how tracking resumed, and what it inked. *)
MapperSaid(m, r) ==
  /\ r.found = "unverified" => ~r.refuted /\ ~m.fallen /\ ~m.resumed
  /\ r.found = "odometry" => m.hard /\ ~m.fallen /\ ~m.booting
  /\ r.inked => /\ ~r.frozen
                /\ m.lost =>
                     /\ r.found # "no"
                     /\ m.fallen \/ m.booting => r.found \in {"seed", "candidate"}
                     /\ m.settle => ~m.resumed /\ ~m.fallen
(* What the stages before a window leaves alone. *)
MapperSame(m, r) ==
  /\ r.rest = m.rest /\ r.pushed = m.pushed /\ r.still = m.still
  /\ r.engaged = m.engaged /\ r.frozen = m.frozen /\ r.settle = m.settle
MapperJudged(m, r) == MapperLoose(r) /\ MapperSaid(m, r) /\ MapperSame(m, r)
MapperQuiet(m) == m.found = "no" /\ ~m.inked
MapperAsked(m) == MapperLoose(m) /\ MapperQuiet(m) /\ ~m.rest.on /\ m.lost

-----------------------------------------------------------------------------
(* Doubting: what arms, searches afresh and distrusts. *)
LEMMA MapperArmedLoose ==
  ASSUME NEW m, MapperLoose(m), ~m.lost, NEW r, r = MapperArmed(m)
  PROVE  /\ MapperLoose(r) /\ MapperSame(m, r) /\ r.lost /\ ~r.refuted
         /\ r.found = m.found /\ r.inked = m.inked /\ r.untrusted = m.untrusted
<1>0. MapperRecord(m) /\ MapperParts(m)
  BY DEF MapperLoose, MapperTyped
<1>1. MapperRecord(r)
  BY <1>0 DEF MapperRecord, MapperArmed, MapperFields
<1>2. MapperParts(r)
  BY <1>0, MapperAssumption DEF MapperRecord, MapperParts, MapperArmed, MapperFields, MapperTwo
<1>3. /\ MapperBacked(r) /\ MapperDoubted(r) /\ MapperSeeded(r)
      /\ r.settling = m.settling /\ MapperSame(m, r) /\ r.lost /\ ~r.refuted
      /\ r.found = m.found /\ r.inked = m.inked /\ r.untrusted = m.untrusted
  BY <1>0 DEF MapperLoose, MapperRecord, MapperArmed, MapperFields,
              MapperBacked, MapperDoubted, MapperSeeded, MapperSame
<1> QED BY <1>1, <1>2, <1>3 DEF MapperLoose, MapperSame, MapperTyped

LEMMA MapperAfreshLoose ==
  ASSUME NEW m, MapperLoose(m), NEW r, r = MapperAfresh(m)
  PROVE  /\ MapperLoose(r) /\ MapperSame(m, r) /\ r.lost /\ r.hard /\ r.booting
         /\ r.found = m.found /\ r.inked = m.inked /\ r.refuted = m.refuted
         /\ r.untrusted = m.untrusted
<1>0. MapperRecord(m) /\ MapperParts(m) /\ MapperKept(m) = "normal"
  BY DEF MapperLoose, MapperTyped, MapperBacked, MapperKept
<1>1. MapperRecord(r)
  BY <1>0 DEF MapperRecord, MapperAfresh, MapperFields
<1>2. MapperParts(r)
  BY <1>0, MapperAssumption DEF MapperRecord, MapperParts, MapperAfresh, MapperFields, MapperTwo
<1>3. /\ MapperBacked(r) /\ MapperDoubted(r) /\ MapperSeeded(r)
      /\ r.settling = m.settling /\ MapperSame(m, r) /\ r.lost /\ r.hard /\ r.booting
      /\ r.found = m.found /\ r.inked = m.inked /\ r.untrusted = m.untrusted
      /\ r.refuted = m.refuted
  BY <1>0 DEF MapperLoose, MapperRecord, MapperAfresh, MapperFields,
              MapperBacked, MapperDoubted, MapperSeeded, MapperSame
<1> QED BY <1>1, <1>2, <1>3 DEF MapperLoose, MapperSame, MapperTyped

LEMMA MapperDistrustedLoose ==
  ASSUME NEW m, MapperLoose(m), NEW r, r = MapperDistrusted(m)
  PROVE  /\ MapperLoose(r) /\ MapperSame(m, r) /\ r.untrusted
         /\ r.found = m.found /\ r.inked = m.inked /\ (r.refuted => m.refuted)
<1>1. PICK a : a = IF m.lost THEN m ELSE MapperArmed(m)
  OBVIOUS
<1>2. PICK b : b = MapperAfresh(a)
  OBVIOUS
<1>3. r = [b EXCEPT !.untrusted = TRUE]
  BY <1>1, <1>2 DEF MapperDistrusted
<1>4. /\ MapperLoose(a) /\ MapperSame(m, a)
      /\ a.found = m.found /\ a.inked = m.inked /\ (a.refuted => m.refuted)
  BY <1>1, MapperArmedLoose DEF MapperSame
<1>5. /\ MapperLoose(b) /\ MapperSame(a, b) /\ b.lost /\ b.hard /\ b.booting
      /\ b.found = a.found /\ b.inked = a.inked /\ b.refuted = a.refuted
  BY <1>2, <1>4, MapperAfreshLoose
<1>6. MapperRecord(b) /\ MapperParts(b)
  BY <1>5 DEF MapperLoose, MapperTyped
<1>7. MapperRecord(r)
  BY <1>3, <1>6 DEF MapperRecord, MapperFields
<1>8. MapperParts(r)
  BY <1>3, <1>6 DEF MapperRecord, MapperParts, MapperFields
<1>9. /\ MapperBacked(r) /\ MapperDoubted(r) /\ MapperSeeded(r)
      /\ r.settling = b.settling /\ MapperSame(b, r) /\ r.untrusted
      /\ r.found = b.found /\ r.inked = b.inked /\ r.refuted = b.refuted
  BY <1>3, <1>5, <1>6 DEF MapperLoose, MapperRecord, MapperFields,
              MapperBacked, MapperDoubted, MapperSeeded, MapperSame
<1>10. MapperLoose(r)
  BY <1>5, <1>7, <1>8, <1>9 DEF MapperLoose, MapperSame, MapperTyped
<1> QED BY <1>4, <1>5, <1>9, <1>10 DEF MapperSame

-----------------------------------------------------------------------------
(* `resume_at`, from a lost pose. *)
LEMMA MapperResumedLoose ==
  ASSUME NEW m, MapperAsked(m),
         NEW how \in {"seed", "candidate", "unverified", "odometry"},
         how = "unverified" => ~m.refuted /\ ~m.fallen /\ ~m.resumed,
         how = "odometry" => m.hard /\ ~m.fallen /\ ~m.booting,
         NEW r, r = MapperResumed(m, how)
  PROVE  MapperJudged(m, r)
<1>0. /\ MapperRecord(m) /\ MapperParts(m) /\ MapperBacked(m) /\ MapperDoubted(m)
      /\ MapperSeeded(m) /\ ~m.rest.on /\ ~m.inked
  BY DEF MapperAsked, MapperLoose, MapperQuiet, MapperTyped
<1>1. PICK after : after = IF m.settle /\ (m.resumed \/ m.fallen)
                           THEN [m EXCEPT !.settling = [on |-> TRUE, run |-> 0, held |-> 0]]
                           ELSE MapperInk(m)
  OBVIOUS
<1>2. /\ MapperSame(m, after) /\ MapperRecord(after) /\ MapperParts(after)
      /\ after.booting = m.booting /\ after.kept = m.kept /\ after.settings = m.settings
      /\ after.resumed = m.resumed /\ after.refuted = m.refuted /\ after.fallen = m.fallen
      /\ after.inked => ~m.frozen /\ (m.settle => ~m.resumed /\ ~m.fallen)
  <2>1. CASE m.settle /\ (m.resumed \/ m.fallen)
    <3>1. [on |-> TRUE, run |-> 0, held |-> 0] \in
            [on : BOOLEAN, run : 0 .. MapperTwo - 1, held : 0 .. MapperHeld]
      BY MapperAssumption DEF MapperTwo
    <3>2. after = [m EXCEPT !.settling = [on |-> TRUE, run |-> 0, held |-> 0]]
      BY <1>1, <2>1
    <3>3. MapperRecord(after)
      BY <1>0, <3>2 DEF MapperRecord, MapperFields
    <3>4. MapperParts(after)
      BY <1>0, <3>1, <3>2 DEF MapperRecord, MapperFields, MapperParts
    <3> QED BY <1>0, <3>2, <3>3, <3>4 DEF MapperRecord, MapperFields, MapperSame
  <2>2. CASE ~(m.settle /\ (m.resumed \/ m.fallen))
    <3>2. after = [m EXCEPT !.inked = m.inked \/ ~m.frozen]
      BY <1>1, <2>2 DEF MapperInk
    <3>3. MapperRecord(after)
      BY <1>0, <3>2 DEF MapperRecord, MapperFields
    <3>4. MapperParts(after)
      BY <1>0, <3>2 DEF MapperRecord, MapperFields, MapperParts
    <3> QED BY <1>0, <2>2, <3>2, <3>3, <3>4 DEF MapperRecord, MapperFields, MapperSame
  <2> QED BY <2>1, <2>2
<1>3. r = [after EXCEPT
        !.lost = FALSE, !.untrusted = FALSE, !.suspect = 0, !.unjudged = 0,
        !.agreed = 0, !.seed = "none", !.shadow = FALSE, !.pending = FALSE,
        !.searches = 0, !.lostWindows = 0, !.hard = FALSE, !.fallen = FALSE,
        !.settings = IF m.booting /\ m.kept # "none" THEN m.kept ELSE after.settings,
        !.kept = IF m.booting THEN "none" ELSE after.kept,
        !.booting = FALSE, !.found = how]
  BY <1>1 DEF MapperResumed
<1>4. MapperRecord(r)
  BY <1>2, <1>3 DEF MapperRecord, MapperFields
<1>a. /\ r.lost = FALSE /\ r.untrusted = FALSE /\ r.suspect = 0 /\ r.unjudged = 0
      /\ r.agreed = 0 /\ r.seed = "none" /\ r.shadow = FALSE /\ r.pending = FALSE
      /\ r.searches = 0 /\ r.lostWindows = 0 /\ r.hard = FALSE /\ r.fallen = FALSE
      /\ r.booting = FALSE /\ r.found = how
  BY <1>2, <1>3 DEF MapperRecord, MapperFields
<1>b. /\ r.settings = IF m.booting /\ m.kept # "none" THEN m.kept ELSE after.settings
      /\ r.kept = IF m.booting THEN "none" ELSE after.kept
  BY <1>2, <1>3 DEF MapperRecord, MapperFields
<1>c. /\ r.continuous = after.continuous /\ r.settle = after.settle /\ r.frozen = after.frozen /\ r.map = after.map
      /\ r.resumed = after.resumed /\ r.engaged = after.engaged
      /\ r.settling = after.settling /\ r.rest = after.rest /\ r.pushed = after.pushed
      /\ r.still = after.still /\ r.standGrid = after.standGrid
      /\ r.window = after.window /\ r.inked = after.inked /\ r.refuted = after.refuted
  BY <1>2, <1>3 DEF MapperRecord, MapperFields
<1>d. r.settings = "normal" /\ r.kept = "none"
  BY <1>0, <1>2, <1>b DEF MapperBacked
<1>5. MapperParts(r)
  <2>1. 0 \in 0 .. MapperTwo - 1 /\ 0 \in 0 .. MapperTwo /\ 0 \in 0 .. MapperPatience
        /\ 0 \in 0 .. MapperLimit
    BY MapperAssumption DEF MapperTwo
  <2>2. r.found \in {"no", "seed", "candidate", "unverified", "odometry"}
    BY <1>a
  <2> QED BY <1>2, <1>a, <1>c, <1>d, <2>1, <2>2 DEF MapperParts
<1>6. /\ MapperBacked(r) /\ MapperDoubted(r) /\ MapperSeeded(r) /\ MapperSame(after, r)
      /\ r.found = how /\ r.inked = after.inked /\ r.refuted = after.refuted
  BY <1>a, <1>c, <1>d DEF MapperBacked, MapperDoubted, MapperSeeded, MapperSame
<1>7. MapperSame(m, r)
  BY <1>2, <1>6 DEF MapperSame
<1>9. m.fallen \/ m.booting => how \in {"seed", "candidate"}
  BY <1>0 DEF MapperSeeded
<1>8. MapperSaid(m, r)
  BY <1>2, <1>6, <1>7, <1>9 DEF MapperSaid, MapperSame
<1> QED BY <1>0, <1>4, <1>5, <1>6, <1>7, <1>8 DEF MapperJudged, MapperLoose, MapperTyped, MapperSame

-----------------------------------------------------------------------------
(* A lost window's bookkeeping, which says nothing of the pose. *)
MapperAlike(m, n) ==
  /\ MapperSame(m, n) /\ n.lost = m.lost /\ n.hard = m.hard /\ n.fallen = m.fallen
  /\ n.resumed = m.resumed /\ n.booting = m.booting /\ n.untrusted = m.untrusted
  /\ n.settings = m.settings /\ n.kept = m.kept /\ n.shadow = m.shadow
  /\ n.settling = m.settling /\ n.found = m.found /\ n.inked = m.inked
  /\ n.seed \in {m.seed, "none"} /\ (n.seed # "none" => n.refuted = m.refuted)

LEMMA MapperAlikeAsked ==
  ASSUME NEW m, MapperAsked(m), NEW n, MapperRecord(n), MapperParts(n), MapperAlike(m, n)
  PROVE  /\ MapperAsked(n) /\ MapperJudged(m, n)
         /\ \A r : MapperJudged(n, r) => MapperJudged(m, r)
<1>1. MapperAsked(n)
  BY DEF MapperAsked, MapperLoose, MapperQuiet, MapperAlike, MapperTyped, MapperBacked,
         MapperDoubted, MapperSeeded, MapperSame
<1>2. MapperSaid(m, n)
  BY <1>1 DEF MapperSaid, MapperAsked, MapperQuiet
<1>3. \A r : MapperSaid(n, r) => MapperSaid(m, r)
  BY DEF MapperSaid, MapperAlike, MapperSame
<1>4. MapperSame(m, n) /\ \A r : MapperSame(n, r) => MapperSame(m, r)
  BY DEF MapperSame, MapperAlike
<1> QED BY <1>1, <1>2, <1>3, <1>4 DEF MapperJudged, MapperAsked

LEMMA MapperCounted ==
  ASSUME NEW m, MapperAsked(m), NEW n, NEW v,
         \/ v \in BOOLEAN /\ n = [m EXCEPT !.pending = v]
         \/ v \in 0 .. MapperTwo /\ n = [m EXCEPT !.searches = v]
         \/ n = [m EXCEPT !.searches = MapperTwo, !.pending = TRUE]
         \/ v \in 0 .. MapperLimit /\ n = [m EXCEPT !.lostWindows = v]
         \/ v \in 0 .. MapperTwo /\ n = [m EXCEPT !.agreed = v]
         \/ v \in 0 .. MapperPatience /\ n = [m EXCEPT !.agreed = 0, !.unjudged = v]
         \/ n = [m EXCEPT !.agreed = 0, !.seed = "none", !.refuted = TRUE]
  PROVE  /\ MapperAsked(n) /\ MapperJudged(m, n) /\ MapperAlike(m, n)
         /\ \A r : MapperJudged(n, r) => MapperJudged(m, r)
<1>0. MapperRecord(m) /\ MapperParts(m)
  BY DEF MapperAsked, MapperLoose, MapperTyped
<1>i. 0 \in 0 .. MapperTwo /\ MapperTwo \in 0 .. MapperTwo
  BY DEF MapperTwo
<1>p. CASE v \in BOOLEAN /\ n = [m EXCEPT !.pending = v]
  <2>1. MapperRecord(n)
    BY <1>0, <1>p DEF MapperRecord, MapperFields
  <2>2. MapperParts(n)
    BY <1>0, <1>i, <1>p DEF MapperRecord, MapperFields, MapperParts
  <2>3. MapperAlike(m, n)
    BY <1>0, <1>p DEF MapperRecord, MapperFields, MapperAlike, MapperSame
  <2> QED BY <2>1, <2>2, <2>3, MapperAlikeAsked
<1>s. CASE v \in 0 .. MapperTwo /\ n = [m EXCEPT !.searches = v]
  <2>1. MapperRecord(n)
    BY <1>0, <1>s DEF MapperRecord, MapperFields
  <2>2. MapperParts(n)
    BY <1>0, <1>i, <1>s DEF MapperRecord, MapperFields, MapperParts
  <2>3. MapperAlike(m, n)
    BY <1>0, <1>s DEF MapperRecord, MapperFields, MapperAlike, MapperSame
  <2> QED BY <2>1, <2>2, <2>3, MapperAlikeAsked
<1>t. CASE n = [m EXCEPT !.searches = MapperTwo, !.pending = TRUE]
  <2>1. MapperRecord(n)
    BY <1>0, <1>t DEF MapperRecord, MapperFields
  <2>2. MapperParts(n)
    BY <1>0, <1>i, <1>t DEF MapperRecord, MapperFields, MapperParts
  <2>3. MapperAlike(m, n)
    BY <1>0, <1>t DEF MapperRecord, MapperFields, MapperAlike, MapperSame
  <2> QED BY <2>1, <2>2, <2>3, MapperAlikeAsked
<1>l. CASE v \in 0 .. MapperLimit /\ n = [m EXCEPT !.lostWindows = v]
  <2>1. MapperRecord(n)
    BY <1>0, <1>l DEF MapperRecord, MapperFields
  <2>2. MapperParts(n)
    BY <1>0, <1>i, <1>l DEF MapperRecord, MapperFields, MapperParts
  <2>3. MapperAlike(m, n)
    BY <1>0, <1>l DEF MapperRecord, MapperFields, MapperAlike, MapperSame
  <2> QED BY <2>1, <2>2, <2>3, MapperAlikeAsked
<1>a. CASE v \in 0 .. MapperTwo /\ n = [m EXCEPT !.agreed = v]
  <2>1. MapperRecord(n)
    BY <1>0, <1>a DEF MapperRecord, MapperFields
  <2>2. MapperParts(n)
    BY <1>0, <1>i, <1>a DEF MapperRecord, MapperFields, MapperParts
  <2>3. MapperAlike(m, n)
    BY <1>0, <1>a DEF MapperRecord, MapperFields, MapperAlike, MapperSame
  <2> QED BY <2>1, <2>2, <2>3, MapperAlikeAsked
<1>u. CASE v \in 0 .. MapperPatience /\ n = [m EXCEPT !.agreed = 0, !.unjudged = v]
  <2>1. MapperRecord(n)
    BY <1>0, <1>u DEF MapperRecord, MapperFields
  <2>2. MapperParts(n)
    BY <1>0, <1>i, <1>u DEF MapperRecord, MapperFields, MapperParts
  <2>3. MapperAlike(m, n)
    BY <1>0, <1>u DEF MapperRecord, MapperFields, MapperAlike, MapperSame
  <2> QED BY <2>1, <2>2, <2>3, MapperAlikeAsked
<1>r. CASE n = [m EXCEPT !.agreed = 0, !.seed = "none", !.refuted = TRUE]
  <2>1. MapperRecord(n)
    BY <1>0, <1>r DEF MapperRecord, MapperFields
  <2>2. MapperParts(n)
    BY <1>0, <1>i, <1>r DEF MapperRecord, MapperFields, MapperParts
  <2>3. MapperAlike(m, n)
    BY <1>0, <1>r DEF MapperRecord, MapperFields, MapperAlike, MapperSame
  <2> QED BY <2>1, <2>2, <2>3, MapperAlikeAsked
<1> QED BY <1>p, <1>s, <1>t, <1>l, <1>a, <1>u, <1>r

(* A window while lost, stage by stage: each resumes as its evidence allows. *)
LEMMA MapperSearchJudged ==
  ASSUME NEW m, MapperAsked(m), NEW r \in MapperSearch(m)
  PROVE  MapperJudged(m, r)
<1>1. MapperJudged(m, m)
  BY DEF MapperAsked, MapperJudged, MapperSaid, MapperSame, MapperQuiet
<1>2. \/ r = m \/ r = [m EXCEPT !.pending = TRUE] \/ r = [m EXCEPT !.searches = 1]
      \/ r = [m EXCEPT !.searches = MapperTwo, !.pending = TRUE]
  BY DEF MapperSearch
<1>3. 1 \in 0 .. MapperTwo /\ TRUE \in BOOLEAN
  BY DEF MapperTwo
<1> QED BY <1>1, <1>2, <1>3, MapperCounted

LEMMA MapperGiveUpJudged ==
  ASSUME NEW m, MapperAsked(m), NEW r \in MapperGiveUp(m)
  PROVE  MapperJudged(m, r)
<1>0. m.lostWindows \in 0 .. MapperLimit /\ MapperBacked(m)
  BY DEF MapperAsked, MapperLoose, MapperTyped, MapperParts
<1>1. CASE ~(m.hard /\ m.settings = "normal" /\ ~m.fallen)
  BY <1>1, MapperSearchJudged DEF MapperGiveUp
<1>2. CASE m.hard /\ m.settings = "normal" /\ ~m.fallen /\ m.lostWindows + 1 > MapperLimit
  <2>1. r = MapperResumed(m, "odometry") /\ ~m.booting
    BY <1>0, <1>2 DEF MapperGiveUp, MapperBacked
  <2> QED BY <1>2, <2>1, MapperResumedLoose
<1>3. CASE m.hard /\ m.settings = "normal" /\ ~m.fallen /\ ~(m.lostWindows + 1 > MapperLimit)
  <2>0. PICK v : v = m.lostWindows + 1
    OBVIOUS
  <2>1. PICK n : n = [m EXCEPT !.lostWindows = v]
    OBVIOUS
  <2>2. r \in MapperSearch(n)
    BY <1>3, <2>0, <2>1 DEF MapperGiveUp
  <2>3. v \in 0 .. MapperLimit
    BY <1>0, <1>3, <2>0, MapperAssumption
  <2>4. MapperAsked(n) /\ \A x : MapperJudged(n, x) => MapperJudged(m, x)
    BY <2>1, <2>3, MapperCounted
  <2> QED BY <2>2, <2>4, MapperSearchJudged
<1> QED BY <1>1, <1>2, <1>3

LEMMA MapperCandidateJudged ==
  ASSUME NEW m, MapperAsked(m), NEW r \in MapperCandidate(m)
  PROVE  MapperJudged(m, r)
<1>1. PICK n : n = [m EXCEPT !.pending = FALSE]
  OBVIOUS
<1>2. MapperAsked(n) /\ \A x : MapperJudged(n, x) => MapperJudged(m, x)
  BY <1>1, MapperCounted
<1>3. r \in MapperGiveUp(m) \/ r \in MapperGiveUp(n) \/ r = MapperResumed(m, "candidate")
  BY <1>1 DEF MapperCandidate
<1> QED BY <1>2, <1>3, MapperGiveUpJudged, MapperResumedLoose

LEMMA MapperAgreementJudged ==
  ASSUME NEW m, MapperAsked(m), NEW r \in MapperAgreement(m)
  PROVE  MapperJudged(m, r)
<1>0. m.agreed \in 0 .. MapperTwo
  BY DEF MapperAsked, MapperLoose, MapperTyped, MapperParts
<1>1. PICK n : n = IF m.agreed < MapperTwo THEN m.agreed + 1 ELSE MapperTwo
  OBVIOUS
<1>2. n \in 0 .. MapperTwo
  BY <1>0, <1>1 DEF MapperTwo
<1>3. r = MapperResumed(m, "seed") \/ r = [m EXCEPT !.agreed = n]
  BY <1>1 DEF MapperAgreement
<1> QED BY <1>2, <1>3, MapperResumedLoose, MapperCounted

LEMMA MapperUnjudgedJudged ==
  ASSUME NEW m, MapperAsked(m), m.seed # "none", NEW r \in MapperUnjudged(m)
  PROVE  MapperJudged(m, r)
<1>0. m.unjudged \in 0 .. MapperPatience /\ MapperSeeded(m) /\ m.seed \in {"none", "carried", "map"}
  BY DEF MapperAsked, MapperLoose, MapperTyped, MapperParts
<1>1. PICK n : n = IF m.unjudged < MapperPatience THEN m.unjudged + 1 ELSE MapperPatience
  OBVIOUS
<1>2. n \in 0 .. MapperPatience
  BY <1>0, <1>1, MapperAssumption
<1>3. CASE n >= MapperPatience /\ ~m.fallen /\ ~m.resumed
  <2>1. r = MapperResumed(m, "unverified") /\ ~m.refuted
    BY <1>0, <1>1, <1>3 DEF MapperUnjudged, MapperSeeded
  <2> QED BY <1>3, <2>1, MapperResumedLoose
<1>4. CASE ~(n >= MapperPatience /\ ~m.fallen /\ ~m.resumed)
  <2>1. PICK k : k = [m EXCEPT !.agreed = 0, !.unjudged = n]
    OBVIOUS
  <2>2. r \in MapperCandidate(k)
    BY <1>1, <1>4, <2>1 DEF MapperUnjudged
  <2>3. MapperAsked(k) /\ \A x : MapperJudged(k, x) => MapperJudged(m, x)
    BY <1>2, <2>1, MapperCounted
  <2> QED BY <2>2, <2>3, MapperCandidateJudged
<1> QED BY <1>3, <1>4

LEMMA MapperLostWindowJudged ==
  ASSUME NEW m, MapperAsked(m), NEW r \in MapperLostWindow(m)
  PROVE  MapperJudged(m, r) /\ (m.untrusted /\ ~m.engaged => r = m)
<1>1. MapperJudged(m, m)
  BY DEF MapperAsked, MapperJudged, MapperSaid, MapperSame, MapperQuiet
<1>2. CASE (m.untrusted /\ ~m.engaged) \/ ~m.map
  BY <1>1, <1>2 DEF MapperLostWindow
<1>3. CASE ~((m.untrusted /\ ~m.engaged) \/ ~m.map) /\ m.seed = "none"
  BY <1>3, MapperCandidateJudged DEF MapperLostWindow
<1>4. CASE ~((m.untrusted /\ ~m.engaged) \/ ~m.map) /\ m.seed # "none"
  <2>1. PICK v \in MapperVerdicts : r \in MapperSeedJudged(m, v)
    BY <1>4 DEF MapperLostWindow
  <2>2. CASE v = "confirmed"
    BY <2>1, <2>2, <1>4, MapperAgreementJudged DEF MapperSeedJudged
  <2>3. CASE v = "refuted"
    <3>1. PICK n : n = [m EXCEPT !.agreed = 0, !.seed = "none", !.refuted = TRUE]
      OBVIOUS
    <3>2. r \in MapperCandidate(n)
      BY <2>1, <2>3, <3>1 DEF MapperSeedJudged
    <3>3. MapperAsked(n) /\ \A x : MapperJudged(n, x) => MapperJudged(m, x)
      BY <3>1, MapperCounted
    <3> QED BY <1>4, <3>2, <3>3, MapperCandidateJudged
  <2>4. CASE v = "ambiguous"
    <3>1. PICK n : n = [m EXCEPT !.agreed = 0]
      OBVIOUS
    <3>2. r \in MapperCandidate(n)
      BY <2>1, <2>4, <3>1 DEF MapperSeedJudged
    <3>3. MapperAsked(n) /\ \A x : MapperJudged(n, x) => MapperJudged(m, x)
      <4>1. 0 \in 0 .. MapperTwo
        BY DEF MapperTwo
      <4> QED BY <3>1, <4>1, MapperCounted
    <3> QED BY <1>4, <3>2, <3>3, MapperCandidateJudged
  <2>5. CASE v = "unjudgeable"
    BY <2>1, <2>5, <1>4, MapperUnjudgedJudged DEF MapperSeedJudged
  <2> QED BY <2>2, <2>3, <2>4, <2>5 DEF MapperVerdicts
<1> QED BY <1>2, <1>3, <1>4

-----------------------------------------------------------------------------
(* A window while tracking, and one of a rest's watch. *)
LEMMA MapperTrackedJudged ==
  ASSUME NEW m, MapperLoose(m), MapperQuiet(m), ~m.rest.on, ~m.lost,
         NEW r \in MapperTrackedWindow(m)
  PROVE  MapperLoose(r) /\ MapperSaid(m, r) /\ MapperSame(m, r)
<1>0. /\ MapperRecord(m) /\ MapperParts(m) /\ MapperBacked(m) /\ MapperDoubted(m)
      /\ MapperSeeded(m) /\ ~m.inked /\ m.found = "no" /\ ~m.untrusted
  BY DEF MapperLoose, MapperTyped, MapperDoubted, MapperQuiet
<1>n. MapperTwo = 2
  BY DEF MapperTwo
<1>1. CASE r = MapperContradicted(m)
  <2>1. CASE r = [m EXCEPT !.suspect = @ + 1] /\ m.suspect + 1 < MapperTwo
    <3>1. MapperRecord(r)
      BY <1>0, <2>1 DEF MapperRecord, MapperFields
    <3>2. MapperParts(r)
      BY <1>0, <1>n, <2>1 DEF MapperRecord, MapperFields, MapperParts
    <3>3. /\ MapperBacked(r) /\ MapperDoubted(r) /\ MapperSeeded(r) /\ MapperSame(m, r)
          /\ r.found = "no" /\ ~r.inked
      BY <1>0, <2>1 DEF MapperRecord, MapperFields, MapperBacked, MapperDoubted, MapperSeeded, MapperSame
    <3> QED BY <3>1, <3>2, <3>3 DEF MapperLoose, MapperTyped, MapperSaid, MapperSame
  <2>2. CASE r = [m EXCEPT !.lost = TRUE, !.hard = TRUE, !.suspect = 0, !.pending = FALSE,
                           !.searches = 0, !.lostWindows = 0]
    <3>i. 0 \in 0 .. MapperTwo - 1 /\ 0 \in 0 .. MapperTwo /\ 0 \in 0 .. MapperLimit
      BY <1>n, MapperAssumption
    <3>1. MapperRecord(r)
      BY <1>0, <2>2 DEF MapperRecord, MapperFields
    <3>2. MapperParts(r)
      BY <1>0, <3>i, <2>2 DEF MapperRecord, MapperFields, MapperParts
    <3>3. /\ MapperBacked(r) /\ MapperDoubted(r) /\ MapperSeeded(r) /\ MapperSame(m, r)
          /\ r.found = "no" /\ ~r.inked
      BY <1>0, <2>2 DEF MapperRecord, MapperFields, MapperBacked, MapperDoubted, MapperSeeded, MapperSame
    <3> QED BY <3>1, <3>2, <3>3 DEF MapperLoose, MapperTyped, MapperSaid, MapperSame
  <2> QED BY <1>1, <2>1, <2>2 DEF MapperContradicted
<1>2. PICK a : a = [m EXCEPT !.suspect = IF m.standGrid THEN 0 ELSE @]
  OBVIOUS
<1>3. /\ MapperRecord(a) /\ MapperParts(a) /\ MapperBacked(a) /\ MapperDoubted(a)
      /\ MapperSeeded(a) /\ MapperSame(m, a) /\ ~a.inked /\ a.found = "no"
      /\ a.lost = m.lost /\ a.settling = m.settling
  <2>i. 0 \in 0 .. MapperTwo - 1
    BY <1>n
  <2>1. MapperRecord(a)
    BY <1>0, <1>2 DEF MapperRecord, MapperFields
  <2>2. MapperParts(a)
    BY <1>0, <1>2, <2>i DEF MapperRecord, MapperFields, MapperParts
  <2> QED BY <1>0, <1>2, <2>1, <2>2
          DEF MapperRecord, MapperFields, MapperBacked, MapperDoubted, MapperSeeded, MapperSame
<1>4. ASSUME NEW b, MapperRecord(b), MapperParts(b), MapperBacked(b), MapperDoubted(b),
             MapperSeeded(b), MapperSame(m, b), ~b.inked, b.found = "no", b.lost = m.lost,
             r = MapperInk(b)
      PROVE  MapperLoose(r) /\ MapperSaid(m, r) /\ MapperSame(m, r)
  <2>0. PICK v \in BOOLEAN : v = (b.inked \/ ~b.frozen)
    OBVIOUS
  <2>v. v => ~b.frozen
    BY <1>4, <2>0
  <2>1. r = [b EXCEPT !.inked = v]
    BY <1>4, <2>0 DEF MapperInk
  <2>2. MapperRecord(r)
    BY <1>4, <2>1 DEF MapperRecord, MapperFields
  <2>3. MapperParts(r)
    BY <1>4, <2>1 DEF MapperRecord, MapperFields, MapperParts
  <2>4. /\ MapperBacked(r) /\ MapperDoubted(r) /\ MapperSeeded(r) /\ MapperSame(m, r)
        /\ r.found = "no" /\ (r.inked => ~r.frozen)
    BY <1>4, <2>1, <2>v DEF MapperRecord, MapperFields, MapperBacked, MapperDoubted, MapperSeeded, MapperSame
  <2> QED BY <2>2, <2>3, <2>4 DEF MapperLoose, MapperTyped, MapperSaid, MapperSame
<1>5. CASE r = MapperInk(a)
  BY <1>3, <1>4, <1>5
<1>6. CASE m.settling.on /\ r \in MapperSettling(a)
  <2>1. PICK run \in {a.settling.run + 1, 0, a.settling.run} :
          r = IF run >= MapperTwo \/ a.settling.held + 1 > MapperHeld
              THEN MapperInk([a EXCEPT !.settling = MapperSettled])
              ELSE [a EXCEPT !.settling = [on |-> TRUE, run |-> run, held |-> a.settling.held + 1]]
    BY <1>6 DEF MapperSettling
  <2>2. /\ a.settling.run \in 0 .. MapperTwo - 1 /\ a.settling.held \in 0 .. MapperHeld
    BY <1>3 DEF MapperParts
  <2>3. PICK set : set = IF run >= MapperTwo \/ a.settling.held + 1 > MapperHeld
                         THEN MapperSettled
                         ELSE [on |-> TRUE, run |-> run, held |-> a.settling.held + 1]
    OBVIOUS
  <2>4. set \in [on : BOOLEAN, run : 0 .. MapperTwo - 1, held : 0 .. MapperHeld]
    BY <1>n, <2>1, <2>2, <2>3, MapperAssumption DEF MapperSettled
  <2>5. PICK b : b = [a EXCEPT !.settling = set]
    OBVIOUS
  <2>6. MapperRecord(b)
    BY <1>3, <2>5 DEF MapperRecord, MapperFields
  <2>7. MapperParts(b)
    BY <1>3, <2>4, <2>5 DEF MapperRecord, MapperFields, MapperParts
  <2>8. /\ MapperBacked(b) /\ MapperDoubted(b) /\ MapperSeeded(b) /\ MapperSame(m, b)
        /\ b.found = "no" /\ ~b.inked /\ b.lost = m.lost
    BY <1>3, <2>5 DEF MapperRecord, MapperFields, MapperBacked, MapperDoubted, MapperSeeded, MapperSame
  <2>9. r = MapperInk(b) \/ r = b
    BY <2>1, <2>3, <2>5
  <2>10. CASE r = b
    BY <2>6, <2>7, <2>8, <2>10 DEF MapperLoose, MapperTyped, MapperSaid, MapperSame
  <2> QED BY <1>4, <2>6, <2>7, <2>8, <2>9, <2>10
<1> QED BY <1>1, <1>2, <1>5, <1>6 DEF MapperTrackedWindow

(* What stays through the rest of `observe`, from its first stage c: how     *)
(* tracking resumed and what was inked, and an untrusted pose nobody drives. *)
MapperOn(c, r) ==
  /\ MapperLoose(r) /\ MapperSaid(c, r)
  /\ r.engaged = c.engaged /\ r.frozen = c.frozen
  /\ c.untrusted /\ ~c.engaged /\ ~c.rest.on => r.untrusted

(* What a stage leaves alone that says nothing. *)
MapperHushed(m, r) ==
  /\ r.engaged = m.engaged /\ r.frozen = m.frozen /\ r.found = m.found
  /\ r.inked = m.inked /\ (r.refuted => m.refuted) /\ (m.untrusted => r.untrusted)

LEMMA MapperOnStays ==
  ASSUME NEW c, NEW m, MapperOn(c, m), NEW r, MapperLoose(r), MapperHushed(m, r)
  PROVE  MapperOn(c, r)
BY DEF MapperOn, MapperHushed, MapperSaid

(* `wake`. *)
LEMMA MapperWokenLoose ==
  ASSUME NEW m, MapperLoose(m), NEW r, r = MapperWoken(m)
  PROVE  /\ MapperLoose(r) /\ ~r.rest.on /\ MapperHushed(m, r) /\ r.lost = m.lost
         /\ r.pushed = m.pushed /\ r.still = m.still /\ r.untrusted = m.untrusted
<1>0. MapperRecord(m) /\ MapperParts(m)
  BY DEF MapperLoose, MapperTyped
<1>i. MapperAwake \in [on : BOOLEAN, watching : BOOLEAN, contradictions : 0 .. MapperTwo - 1]
      /\ ~MapperAwake.on
  BY DEF MapperAwake, MapperTwo
<1>v. PICK v \in BOOLEAN : v = (m.window /\ ~m.rest.watching)
  OBVIOUS
<1>a. PICK awake : awake = MapperAwake
  OBVIOUS
<1>n. PICK n : n = [m EXCEPT !.rest = awake]
  OBVIOUS
<1>1. r = [n EXCEPT !.window = v]
  BY <1>v, <1>a, <1>n DEF MapperWoken
<1>2. MapperRecord(n) /\ MapperRecord(r)
  BY <1>0, <1>n, <1>1 DEF MapperRecord, MapperFields
<1>b. MapperParts(n)
  BY <1>0, <1>i, <1>a, <1>n DEF MapperRecord, MapperFields, MapperParts
<1>3. MapperParts(r)
  BY <1>b, <1>2, <1>1 DEF MapperRecord, MapperFields, MapperParts
<1>4. /\ MapperBacked(n) /\ MapperDoubted(n) /\ MapperSeeded(n) /\ n.rest = MapperAwake
      /\ MapperHushed(m, n) /\ n.lost = m.lost /\ n.pushed = m.pushed /\ n.still = m.still
      /\ n.untrusted = m.untrusted
  BY <1>0, <1>a, <1>n DEF MapperLoose, MapperRecord, MapperFields, MapperBacked, MapperDoubted, MapperSeeded, MapperHushed
<1>5. /\ MapperBacked(r) /\ MapperDoubted(r) /\ MapperSeeded(r) /\ r.rest = MapperAwake
      /\ MapperHushed(m, r) /\ r.lost = m.lost /\ r.pushed = m.pushed /\ r.still = m.still
      /\ r.untrusted = m.untrusted
  BY <1>4, <1>2, <1>1 DEF MapperRecord, MapperFields, MapperBacked, MapperDoubted, MapperSeeded, MapperHushed
<1> QED BY <1>i, <1>2, <1>3, <1>5 DEF MapperLoose, MapperTyped

LEMMA MapperWatchHushed ==
  ASSUME NEW m, MapperLoose(m), m.rest.on, NEW r \in MapperWatch(m)
  PROVE  MapperLoose(r) /\ MapperHushed(m, r) /\ r.still = m.still
<1>0. /\ MapperRecord(m) /\ MapperParts(m) /\ ~m.settling.on /\ ~m.pushed
      /\ m.rest \in [on : BOOLEAN, watching : BOOLEAN, contradictions : 0 .. MapperTwo - 1]
  BY DEF MapperLoose, MapperTyped, MapperParts
<1>1. ASSUME NEW rest, rest \in [on : BOOLEAN, watching : BOOLEAN, contradictions : 0 .. MapperTwo - 1],
             NEW n, n = [m EXCEPT !.rest = rest]
      PROVE  MapperLoose(n) /\ MapperHushed(m, n) /\ n.still = m.still
  <2>1. MapperRecord(n)
    BY <1>0, <1>1 DEF MapperRecord, MapperFields
  <2>2. MapperParts(n)
    BY <1>0, <1>1 DEF MapperRecord, MapperFields, MapperParts
  <2>3. /\ MapperBacked(n) /\ MapperDoubted(n) /\ MapperSeeded(n) /\ MapperHushed(m, n)
        /\ n.still = m.still /\ n.settling = m.settling /\ n.pushed = m.pushed
    BY <1>0, <1>1 DEF MapperLoose, MapperRecord, MapperFields, MapperBacked, MapperDoubted, MapperSeeded, MapperHushed
  <2> QED BY <1>0, <2>1, <2>2, <2>3 DEF MapperLoose, MapperTyped
<1>2. PICK looked : looked = [m EXCEPT !.rest.watching = FALSE]
  OBVIOUS
<1>3. PICK rest : rest = [m.rest EXCEPT !.watching = FALSE]
  OBVIOUS
<1>4. /\ rest \in [on : BOOLEAN, watching : BOOLEAN, contradictions : 0 .. MapperTwo - 1]
      /\ looked = [m EXCEPT !.rest = rest] /\ looked.rest = rest
  BY <1>0, <1>2, <1>3 DEF MapperRecord, MapperFields
<1>5. MapperLoose(looked) /\ MapperHushed(m, looked) /\ looked.still = m.still
  BY <1>1, <1>4
<1>6. CASE r = [looked EXCEPT !.rest.contradictions = 0]
  <2>1. PICK x : x = [rest EXCEPT !.contradictions = 0]
    OBVIOUS
  <2>2. x \in [on : BOOLEAN, watching : BOOLEAN, contradictions : 0 .. MapperTwo - 1]
    BY <1>4, <2>1 DEF MapperTwo
  <2>3. r = [m EXCEPT !.rest = x]
    BY <1>0, <1>4, <1>6, <2>1 DEF MapperRecord, MapperFields
  <2> QED BY <1>1, <2>2, <2>3
<1>7. CASE /\ r = [looked EXCEPT !.rest.contradictions = @ + 1]
           /\ ~(m.rest.contradictions + 1 >= MapperTwo)
  <2>1. PICK x : x = [rest EXCEPT !.contradictions = @ + 1]
    OBVIOUS
  <2>a. /\ rest.contradictions = m.rest.contradictions
        /\ m.rest.contradictions \in 0 .. MapperTwo - 1
    BY <1>0, <1>3
  <2>b. PICK k : k = rest.contradictions + 1
    OBVIOUS
  <2>c. k \in 0 .. MapperTwo - 1
    BY <1>7, <2>a, <2>b DEF MapperTwo
  <2>d. x = [rest EXCEPT !.contradictions = k]
    BY <2>1, <2>b
  <2>2. x \in [on : BOOLEAN, watching : BOOLEAN, contradictions : 0 .. MapperTwo - 1]
    BY <1>4, <2>c, <2>d
  <2>3. r = [m EXCEPT !.rest = x]
    BY <1>0, <1>4, <1>7, <2>1 DEF MapperRecord, MapperFields
  <2> QED BY <1>1, <2>2, <2>3
<1>8. PICK w : w = MapperWoken(looked)
  OBVIOUS
<1>9. MapperLoose(w) /\ MapperHushed(looked, w) /\ w.still = looked.still
  BY <1>5, <1>8, MapperWokenLoose
<1>10. CASE r = w
  BY <1>5, <1>9, <1>10 DEF MapperHushed
<1>11. CASE r = MapperDistrusted(w)
  <2>1. /\ MapperLoose(r) /\ MapperSame(w, r) /\ r.untrusted
        /\ r.found = w.found /\ r.inked = w.inked /\ (r.refuted => w.refuted)
    BY <1>9, <1>11, MapperDistrustedLoose
  <2> QED BY <1>5, <1>9, <2>1 DEF MapperHushed, MapperSame
<1> QED BY <1>2, <1>6, <1>7, <1>8, <1>10, <1>11 DEF MapperWatch

-----------------------------------------------------------------------------
(* The stages of `observe` before the stand's window. *)
MapperBefore(c, d) ==
  /\ MapperLoose(d) /\ MapperQuiet(d) /\ MapperSame(c, d)
  /\ d.lost = c.lost /\ d.hard = c.hard /\ d.fallen = c.fallen
  /\ d.resumed = c.resumed /\ d.booting = c.booting /\ d.untrusted = c.untrusted

LEMMA MapperShadowedBefore ==
  ASSUME NEW c, MapperLoose(c), MapperQuiet(c), NEW d \in MapperShadowed(c)
  PROVE  MapperBefore(c, d)
<1>0. /\ MapperRecord(c) /\ MapperParts(c) /\ MapperBacked(c) /\ MapperDoubted(c)
      /\ MapperSeeded(c)
  BY DEF MapperLoose, MapperTyped
<1>1. CASE d = c
  BY <1>1 DEF MapperBefore, MapperSame
<1>2. CASE c.shadow /\ d = [c EXCEPT !.seed = "map", !.agreed = 0]
  <2>1. MapperRecord(d)
    BY <1>0, <1>2 DEF MapperRecord, MapperFields
  <2>i. 0 \in 0 .. MapperTwo
    BY DEF MapperTwo
  <2>2. MapperParts(d)
    BY <1>0, <1>2, <2>i DEF MapperRecord, MapperFields, MapperParts
  <2>3. /\ MapperBacked(d) /\ MapperDoubted(d) /\ MapperSeeded(d) /\ MapperSame(c, d)
        /\ MapperQuiet(d) /\ d.lost = c.lost /\ d.hard = c.hard /\ d.fallen = c.fallen
        /\ d.resumed = c.resumed /\ d.booting = c.booting /\ d.untrusted = c.untrusted
        /\ d.settling = c.settling
    BY <1>0, <1>2 DEF MapperRecord, MapperFields, MapperBacked, MapperDoubted, MapperSeeded,
                      MapperSame, MapperQuiet
  <2> QED BY <2>1, <2>2, <2>3 DEF MapperBefore, MapperLoose, MapperTyped, MapperSame
<1> QED BY <1>1, <1>2 DEF MapperShadowed

LEMMA MapperCorrectedBefore ==
  ASSUME NEW c, MapperLoose(c), MapperQuiet(c), NEW d \in MapperCorrected(c)
  PROVE  MapperBefore(c, d)
<1>0. /\ MapperRecord(c) /\ MapperParts(c) /\ MapperBacked(c) /\ MapperDoubted(c)
      /\ MapperSeeded(c)
  BY DEF MapperLoose, MapperTyped
<1>1. CASE d = c
  BY <1>1 DEF MapperBefore, MapperSame
<1>2. CASE d = [c EXCEPT !.standGrid = c.map]
  <2>1. MapperRecord(d)
    BY <1>0, <1>2 DEF MapperRecord, MapperFields
  <2>2. MapperParts(d)
    BY <1>0, <1>2 DEF MapperRecord, MapperFields, MapperParts
  <2>3. /\ MapperBacked(d) /\ MapperDoubted(d) /\ MapperSeeded(d) /\ MapperSame(c, d)
        /\ MapperQuiet(d) /\ d.lost = c.lost /\ d.hard = c.hard /\ d.fallen = c.fallen
        /\ d.resumed = c.resumed /\ d.booting = c.booting /\ d.untrusted = c.untrusted
        /\ d.settling = c.settling
    BY <1>0, <1>2 DEF MapperRecord, MapperFields, MapperBacked, MapperDoubted, MapperSeeded,
                      MapperSame, MapperQuiet
  <2> QED BY <2>1, <2>2, <2>3 DEF MapperBefore, MapperLoose, MapperTyped, MapperSame
<1> QED BY <1>1, <1>2 DEF MapperCorrected

(* The window of the stand, whatever it says. *)
LEMMA MapperAbsorbOn ==
  ASSUME NEW m, MapperLoose(m), MapperQuiet(m), m.rest.on => ~m.lost,
         NEW r \in MapperAbsorb(m)
  PROVE  MapperOn(m, r)
<1>0. MapperOn(m, m)
  BY DEF MapperOn, MapperSaid, MapperQuiet
<1>1. CASE m.rest.on
  BY <1>0, <1>1, MapperWatchHushed, MapperOnStays DEF MapperAbsorb
<1>2. CASE ~m.rest.on /\ r = m
  BY <1>0, <1>2
<1>3. CASE ~m.rest.on /\ m.lost /\ r \in MapperLostWindow(m)
  <2>1. MapperJudged(m, r) /\ (m.untrusted /\ ~m.engaged => r = m)
    BY <1>3, MapperLostWindowJudged DEF MapperAsked
  <2> QED BY <2>1 DEF MapperJudged, MapperOn, MapperSame
<1>4. CASE ~m.rest.on /\ ~m.lost /\ r \in MapperTrackedWindow(m)
  <2>1. MapperLoose(r) /\ MapperSaid(m, r) /\ MapperSame(m, r)
    BY <1>4, MapperTrackedJudged
  <2> QED BY <1>4, <2>1 DEF MapperOn, MapperSame, MapperLoose, MapperDoubted
<1> QED BY <1>1, <1>2, <1>3, <1>4 DEF MapperAbsorb

LEMMA MapperFlushedOn ==
  ASSUME NEW m, MapperLoose(m), MapperQuiet(m), m.rest.on => ~m.lost,
         NEW s, NEW r \in MapperFlushed(m, s)
  PROVE  MapperOn(m, r)
<1>0. /\ MapperRecord(m) /\ MapperParts(m) /\ MapperBacked(m) /\ MapperDoubted(m)
      /\ MapperSeeded(m)
  BY DEF MapperLoose, MapperTyped
<1>1. PICK c : c = [m EXCEPT !.window = FALSE]
  OBVIOUS
<1>2. MapperRecord(c)
  BY <1>0, <1>1 DEF MapperRecord, MapperFields
<1>3. MapperParts(c)
  BY <1>0, <1>1 DEF MapperRecord, MapperFields, MapperParts
<1>4. /\ MapperBacked(c) /\ MapperDoubted(c) /\ MapperSeeded(c) /\ MapperSame(m, c)
      /\ MapperQuiet(c) /\ c.lost = m.lost /\ c.hard = m.hard /\ c.fallen = m.fallen
      /\ c.resumed = m.resumed /\ c.booting = m.booting /\ c.untrusted = m.untrusted
      /\ c.settling = m.settling
  BY <1>0, <1>1 DEF MapperRecord, MapperFields, MapperBacked, MapperDoubted, MapperSeeded,
                    MapperSame, MapperQuiet
<1>5. MapperLoose(c)
  BY <1>2, <1>3, <1>4 DEF MapperLoose, MapperTyped, MapperSame
<1>6. MapperOn(m, m)
  BY DEF MapperOn, MapperSaid, MapperQuiet
<1>7. MapperOn(m, c)
  BY <1>4, <1>5 DEF MapperOn, MapperSaid, MapperQuiet, MapperSame
<1>8. ASSUME r \in MapperAbsorb(c)
      PROVE  MapperOn(m, r)
  <2>1. MapperOn(c, r)
    BY <1>4, <1>5, <1>8, MapperAbsorbOn DEF MapperSame
  <2> QED BY <1>4, <2>1 DEF MapperOn, MapperSame, MapperSaid
<1> QED BY <1>1, <1>6, <1>7, <1>8 DEF MapperFlushed

-----------------------------------------------------------------------------
(* The stages after it. *)
LEMMA MapperStoodHushed ==
  ASSUME NEW m, MapperLoose(m), NEW s, NEW r, r = MapperStood(m, s)
  PROVE  MapperLoose(r) /\ MapperHushed(m, r) /\ (r.still <=> s = "still")
<1>0. /\ MapperRecord(m) /\ MapperParts(m) /\ MapperBacked(m) /\ MapperDoubted(m)
      /\ MapperSeeded(m)
  BY DEF MapperLoose, MapperTyped
<1>1. PICK v \in BOOLEAN : v = (s = "still")
  OBVIOUS
<1>2. PICK g : g = IF s = "still" /\ ~m.still THEN m.map ELSE m.standGrid
  OBVIOUS
<1>3. g \in BOOLEAN
  BY <1>0, <1>2 DEF MapperParts
<1>n. PICK n : n = [m EXCEPT !.standGrid = g]
  OBVIOUS
<1>4. r = [n EXCEPT !.still = v]
  BY <1>1, <1>2, <1>n DEF MapperStood
<1>5. MapperRecord(n) /\ MapperRecord(r)
  BY <1>0, <1>n, <1>4 DEF MapperRecord, MapperFields
<1>6. MapperParts(n)
  BY <1>0, <1>3, <1>n DEF MapperRecord, MapperFields, MapperParts
<1>7. MapperParts(r)
  BY <1>4, <1>5, <1>6 DEF MapperRecord, MapperFields, MapperParts
<1>8. /\ MapperBacked(n) /\ MapperDoubted(n) /\ MapperSeeded(n) /\ MapperHushed(m, n)
      /\ n.rest = m.rest /\ n.settling = m.settling /\ n.pushed = m.pushed
  BY <1>0, <1>n DEF MapperRecord, MapperFields, MapperBacked, MapperDoubted, MapperSeeded, MapperHushed
<1>9. /\ MapperBacked(r) /\ MapperDoubted(r) /\ MapperSeeded(r) /\ MapperHushed(n, r)
      /\ r.rest = n.rest /\ r.settling = n.settling /\ r.pushed = n.pushed /\ r.still = v
  BY <1>4, <1>5, <1>8 DEF MapperRecord, MapperFields, MapperBacked, MapperDoubted, MapperSeeded, MapperHushed
<1> QED BY <1>1, <1>5, <1>7, <1>8, <1>9 DEF MapperLoose, MapperTyped, MapperHushed

LEMMA MapperSeatedHushed ==
  ASSUME NEW m, MapperLoose(m), NEW s, NEW r, r = MapperSeated(m, s)
  PROVE  MapperLoose(r) /\ MapperHushed(m, r) /\ r.still = m.still
<1>0. /\ MapperRecord(m) /\ MapperParts(m) /\ MapperBacked(m) /\ MapperDoubted(m)
      /\ MapperSeeded(m)
  BY DEF MapperLoose, MapperTyped
<1>1. PICK v \in BOOLEAN : v = (m.fallen \/ s = "fallen")
  OBVIOUS
<1>2. PICK d : d = [m EXCEPT !.fallen = v]
  OBVIOUS
<1>3. r = IF s \in {"sitting", "fallen"} /\ ~m.lost THEN MapperArmed(d) ELSE d
  BY <1>1, <1>2 DEF MapperSeated
<1>5. MapperRecord(d)
  BY <1>0, <1>2 DEF MapperRecord, MapperFields
<1>6. MapperParts(d)
  BY <1>0, <1>2 DEF MapperRecord, MapperFields, MapperParts
<1>7. /\ MapperBacked(d) /\ MapperDoubted(d) /\ MapperSeeded(d) /\ MapperHushed(m, d)
      /\ d.rest = m.rest /\ d.settling = m.settling /\ d.pushed = m.pushed
      /\ d.still = m.still /\ d.lost = m.lost
  BY <1>0, <1>2 DEF MapperRecord, MapperFields, MapperBacked, MapperDoubted, MapperSeeded, MapperHushed
<1>8. MapperLoose(d)
  BY <1>5, <1>6, <1>7 DEF MapperLoose, MapperTyped
<1>9. CASE r = MapperArmed(d) /\ ~d.lost
  <2>1. /\ MapperLoose(r) /\ MapperSame(d, r) /\ ~r.refuted
        /\ r.found = d.found /\ r.inked = d.inked /\ r.untrusted = d.untrusted
    BY <1>8, <1>9, MapperArmedLoose
  <2> QED BY <1>7, <2>1 DEF MapperHushed, MapperSame
<1>10. CASE r = d
  BY <1>7, <1>8, <1>10
<1> QED BY <1>3, <1>7, <1>9, <1>10

LEMMA MapperPushedHushed ==
  ASSUME NEW m, MapperLoose(m), NEW s, NEW r \in MapperPushed(m, s)
  PROVE  /\ MapperLoose(r) /\ MapperHushed(m, r) /\ r.still = m.still
         /\ r.untrusted /\ ~m.untrusted => ~r.rest.on
         /\ s = "still" => ~r.pushed
<1>0. /\ MapperRecord(m) /\ MapperParts(m) /\ MapperBacked(m) /\ MapperDoubted(m)
      /\ MapperSeeded(m)
  BY DEF MapperLoose, MapperTyped
<1>1. PICK n : n = [m EXCEPT !.pushed = FALSE]
  OBVIOUS
<1>2. MapperRecord(n)
  BY <1>0, <1>1 DEF MapperRecord, MapperFields
<1>3. MapperParts(n)
  BY <1>0, <1>1 DEF MapperRecord, MapperFields, MapperParts
<1>4. /\ MapperBacked(n) /\ MapperDoubted(n) /\ MapperSeeded(n) /\ MapperHushed(m, n)
      /\ n.rest = m.rest /\ n.settling = m.settling /\ ~n.pushed
      /\ n.still = m.still /\ n.untrusted = m.untrusted
  BY <1>0, <1>1 DEF MapperRecord, MapperFields, MapperBacked, MapperDoubted, MapperSeeded, MapperHushed
<1>5. MapperLoose(n)
  BY <1>2, <1>3, <1>4 DEF MapperLoose, MapperTyped
<1>6. CASE r = m /\ (~m.pushed \/ s # "still")
  BY <1>6 DEF MapperHushed
<1>7. CASE r = n
  BY <1>4, <1>5, <1>7
<1>8. CASE r = MapperDistrusted(n) /\ m.pushed
  <2>1. /\ MapperLoose(r) /\ MapperSame(n, r) /\ r.untrusted
        /\ r.found = n.found /\ r.inked = n.inked /\ (r.refuted => n.refuted)
    BY <1>5, <1>8, MapperDistrustedLoose
  <2> QED BY <1>4, <1>8, <2>1 DEF MapperHushed, MapperSame, MapperLoose
<1> QED BY <1>1, <1>6, <1>7, <1>8 DEF MapperPushed

(* A rest that ends, begins or goes on leaves what a rest must have. *)
LEMMA MapperRestEndsGood ==
  ASSUME NEW m, MapperLoose(m), m.rest.on, NEW s, m.still <=> s = "still",
         NEW r \in MapperRestEnds(m, s)
  PROVE  MapperGood(r) /\ MapperHushed(m, r)
<1>1. PICK w : w = MapperWoken(m)
  OBVIOUS
<1>2. /\ MapperLoose(w) /\ ~w.rest.on /\ MapperHushed(m, w)
  BY <1>1, MapperWokenLoose
<1>3. CASE r = MapperDistrusted(w)
  <2>1. /\ MapperLoose(r) /\ MapperSame(w, r) /\ r.untrusted
        /\ r.found = w.found /\ r.inked = w.inked /\ (r.refuted => w.refuted)
    BY <1>2, <1>3, MapperDistrustedLoose
  <2> QED BY <1>2, <2>1 DEF MapperHushed, MapperSame, MapperGood
<1>4. CASE r = w
  BY <1>2, <1>4 DEF MapperGood
<1>5. CASE r = [w EXCEPT !.pushed = TRUE]
  <2>0. /\ MapperRecord(w) /\ MapperParts(w) /\ MapperBacked(w) /\ MapperDoubted(w)
        /\ MapperSeeded(w)
    BY <1>2 DEF MapperLoose, MapperTyped
  <2>1. MapperRecord(r)
    BY <2>0, <1>5 DEF MapperRecord, MapperFields
  <2>2. MapperParts(r)
    BY <2>0, <1>5 DEF MapperRecord, MapperFields, MapperParts
  <2>3. /\ MapperBacked(r) /\ MapperDoubted(r) /\ MapperSeeded(r) /\ MapperHushed(w, r)
        /\ r.rest = w.rest
    BY <2>0, <1>5 DEF MapperRecord, MapperFields, MapperBacked, MapperDoubted, MapperSeeded, MapperHushed
  <2> QED BY <1>2, <2>1, <2>2, <2>3 DEF MapperHushed, MapperGood, MapperLoose, MapperTyped
<1>6. CASE r = m /\ s = "still" /\ ~m.lost /\ ~m.engaged
  BY <1>6 DEF MapperGood, MapperHushed
<1> QED BY <1>1, <1>3, <1>4, <1>5, <1>6 DEF MapperRestEnds

LEMMA MapperRestedGood ==
  ASSUME NEW m, MapperLoose(m), NEW s, m.still <=> s = "still", s = "still" => ~m.pushed,
         NEW r \in MapperRested(m, s)
  PROVE  MapperGood(r) /\ MapperHushed(m, r)
<1>0. /\ MapperRecord(m) /\ MapperParts(m) /\ MapperBacked(m) /\ MapperDoubted(m)
      /\ MapperSeeded(m)
  BY DEF MapperLoose, MapperTyped
<1>1. CASE m.rest.on
  BY <1>1, MapperRestEndsGood DEF MapperRested
<1>2. CASE ~m.rest.on /\ r = m
  BY <1>2 DEF MapperGood, MapperHushed
<1>3. CASE /\ s = "still" /\ ~m.engaged /\ ~m.lost /\ ~m.settling.on
           /\ r = [m EXCEPT !.window = FALSE, !.rest = [MapperAwake EXCEPT !.on = TRUE]]
  <2>1. PICK rest : rest = [MapperAwake EXCEPT !.on = TRUE]
    OBVIOUS
  <2>r. rest = [on |-> TRUE, watching |-> FALSE, contradictions |-> 0]
    BY <2>1 DEF MapperAwake
  <2>2. rest \in [on : BOOLEAN, watching : BOOLEAN, contradictions : 0 .. MapperTwo - 1]
    BY <2>r DEF MapperTwo
  <2>3. r = [m EXCEPT !.window = FALSE, !.rest = rest]
    BY <1>3, <2>1
  <2>4. MapperRecord(r)
    BY <1>0, <2>3 DEF MapperRecord, MapperFields
  <2>5. MapperParts(r)
    BY <1>0, <2>2, <2>3 DEF MapperRecord, MapperFields, MapperParts
  <2>6. /\ MapperBacked(r) /\ MapperDoubted(r) /\ MapperSeeded(r) /\ MapperHushed(m, r)
        /\ r.settling = m.settling /\ r.pushed = m.pushed /\ r.still = m.still
        /\ r.lost = m.lost
    BY <1>0, <2>3 DEF MapperRecord, MapperFields, MapperBacked, MapperDoubted, MapperSeeded, MapperHushed
  <2> QED BY <1>3, <2>4, <2>5, <2>6 DEF MapperHushed, MapperGood, MapperLoose, MapperTyped
<1> QED BY <1>1, <1>2, <1>3 DEF MapperRested

LEMMA MapperHushedOn ==
  ASSUME NEW m, NEW n, MapperHushed(m, n), NEW r, MapperHushed(n, r)
  PROVE  MapperHushed(m, r)
BY DEF MapperHushed

LEMMA MapperRestStepGood ==
  ASSUME NEW m, MapperLoose(m), NEW s, m.still <=> s = "still",
         NEW r \in MapperRestStep(m, s)
  PROVE  MapperGood(r) /\ MapperHushed(m, r)
<1>1. PICK p \in MapperPushed(m, s) :
        r \in IF p.untrusted /\ ~m.untrusted THEN {p} ELSE MapperRested(p, s)
  BY DEF MapperRestStep
<1>2. /\ MapperLoose(p) /\ MapperHushed(m, p) /\ p.still = m.still
      /\ p.untrusted /\ ~m.untrusted => ~p.rest.on
      /\ s = "still" => ~p.pushed
  BY <1>1, MapperPushedHushed
<1>3. CASE p.untrusted /\ ~m.untrusted /\ r = p
  BY <1>2, <1>3 DEF MapperGood
<1>4. CASE r \in MapperRested(p, s)
  BY <1>2, <1>4, MapperRestedGood, MapperHushedOn
<1> QED BY <1>1, <1>3, <1>4

LEMMA MapperTickedGood ==
  ASSUME NEW m, MapperGood(m), NEW r \in MapperTicked(m)
  PROVE  MapperGood(r) /\ MapperHushed(m, r)
<1>0. /\ MapperRecord(m) /\ MapperParts(m) /\ MapperBacked(m) /\ MapperDoubted(m)
      /\ MapperSeeded(m)
  BY DEF MapperGood, MapperLoose, MapperTyped
<1>1. CASE r = m
  BY <1>1 DEF MapperHushed
<1>2. CASE r # m
  <2>1. PICK v \in BOOLEAN, g \in BOOLEAN :
          r = [m EXCEPT !.map = TRUE, !.window = v, !.standGrid = g]
    <3>1. CASE r = [m EXCEPT !.map = TRUE]
      <4>1. m.window \in BOOLEAN /\ m.standGrid \in BOOLEAN
        BY <1>0 DEF MapperParts
      <4>2. r = [m EXCEPT !.map = TRUE, !.window = m.window, !.standGrid = m.standGrid]
        BY <1>0, <3>1 DEF MapperRecord, MapperFields
      <4> QED BY <4>1, <4>2
    <3>2. CASE r = [m EXCEPT !.map = TRUE, !.window = FALSE,
                             !.standGrid = IF m.still THEN TRUE ELSE m.standGrid]
      <4>1. (IF m.still THEN TRUE ELSE m.standGrid) \in BOOLEAN
        BY <1>0 DEF MapperParts
      <4> QED BY <3>2, <4>1
    <3> QED BY <1>2, <3>1, <3>2 DEF MapperTicked
  <2>2. MapperRecord(r)
    BY <1>0, <2>1 DEF MapperRecord, MapperFields
  <2>3. MapperParts(r)
    BY <1>0, <2>1 DEF MapperRecord, MapperFields, MapperParts
  <2>4. /\ MapperBacked(r) /\ MapperDoubted(r) /\ MapperSeeded(r) /\ MapperHushed(m, r)
        /\ r.settling = m.settling /\ r.pushed = m.pushed /\ r.still = m.still
        /\ r.lost = m.lost /\ r.rest = m.rest
    BY <1>0, <2>1 DEF MapperRecord, MapperFields, MapperBacked, MapperDoubted, MapperSeeded, MapperHushed
  <2> QED BY <2>2, <2>3, <2>4 DEF MapperHushed, MapperGood, MapperLoose, MapperTyped
<1> QED BY <1>1, <1>2

-----------------------------------------------------------------------------
(* The steps.  What a step from m to r says, whatever it was. *)
MapperStep(m, r) ==
  MapperGood(r) /\ MapperSaid(m, r) /\ (m.untrusted /\ ~r.engaged => r.untrusted)

(* A step begins from its record cleared, with what it sets. *)
MapperClearedTo(m, c) ==
  c = [MapperCleared(m) EXCEPT !.engaged = c.engaged, !.frozen = c.frozen]

LEMMA MapperClearedLoose ==
  ASSUME NEW m, NEW c, MapperGood(m), c.engaged \in BOOLEAN, c.frozen \in BOOLEAN,
         MapperClearedTo(m, c)
  PROVE  /\ MapperLoose(c) /\ MapperQuiet(c) /\ (c.rest.on => ~c.lost /\ c.still)
         /\ c.lost = m.lost /\ c.hard = m.hard /\ c.fallen = m.fallen
         /\ c.resumed = m.resumed /\ c.booting = m.booting /\ c.untrusted = m.untrusted /\ c.settle = m.settle
         /\ c.rest = m.rest
<1>0. /\ MapperRecord(m) /\ MapperParts(m) /\ MapperBacked(m) /\ MapperDoubted(m)
      /\ MapperSeeded(m)
  BY DEF MapperGood, MapperLoose, MapperTyped
<1>1. PICK n : n = [m EXCEPT !.found = "no", !.inked = FALSE]
  OBVIOUS
<1>2. MapperRecord(n)
  BY <1>0, <1>1 DEF MapperRecord, MapperFields
<1>3. MapperParts(n)
  BY <1>0, <1>1 DEF MapperRecord, MapperFields, MapperParts
<1>4. /\ MapperBacked(n) /\ MapperDoubted(n) /\ MapperSeeded(n) /\ MapperQuiet(n)
      /\ n.rest = m.rest /\ n.settling = m.settling /\ n.pushed = m.pushed
      /\ n.still = m.still /\ n.lost = m.lost /\ n.hard = m.hard /\ n.fallen = m.fallen
      /\ n.resumed = m.resumed /\ n.booting = m.booting /\ n.untrusted = m.untrusted /\ n.settle = m.settle
  BY <1>0, <1>1 DEF MapperRecord, MapperFields, MapperBacked, MapperDoubted, MapperSeeded, MapperQuiet
<1>5. PICK e : e = [n EXCEPT !.engaged = c.engaged]
  OBVIOUS
<1>6. c = [e EXCEPT !.frozen = c.frozen]
  BY <1>1, <1>5 DEF MapperCleared, MapperClearedTo
<1>7. MapperRecord(e) /\ MapperRecord(c)
  BY <1>2, <1>5, <1>6 DEF MapperRecord, MapperFields
<1>8. MapperParts(e)
  BY <1>2, <1>3, <1>5 DEF MapperRecord, MapperFields, MapperParts
<1>9. MapperParts(c)
  BY <1>6, <1>7, <1>8 DEF MapperRecord, MapperFields, MapperParts
<1>10. /\ MapperBacked(e) /\ MapperDoubted(e) /\ MapperSeeded(e) /\ MapperQuiet(e)
       /\ e.rest = n.rest /\ e.settling = n.settling /\ e.pushed = n.pushed
       /\ e.still = n.still /\ e.lost = n.lost /\ e.hard = n.hard /\ e.fallen = n.fallen
       /\ e.resumed = n.resumed /\ e.booting = n.booting /\ e.untrusted = n.untrusted /\ e.settle = n.settle
  BY <1>2, <1>4, <1>5 DEF MapperRecord, MapperFields, MapperBacked, MapperDoubted, MapperSeeded, MapperQuiet
<1>11. /\ MapperBacked(c) /\ MapperDoubted(c) /\ MapperSeeded(c) /\ MapperQuiet(c)
       /\ c.rest = e.rest /\ c.settling = e.settling /\ c.pushed = e.pushed
       /\ c.still = e.still /\ c.lost = e.lost /\ c.hard = e.hard /\ c.fallen = e.fallen
       /\ c.resumed = e.resumed /\ c.booting = e.booting /\ c.untrusted = e.untrusted /\ c.settle = e.settle
  BY <1>6, <1>7, <1>10 DEF MapperRecord, MapperFields, MapperBacked, MapperDoubted, MapperSeeded, MapperQuiet
<1> QED BY <1>4, <1>7, <1>9, <1>10, <1>11 DEF MapperGood, MapperLoose, MapperTyped

LEMMA MapperObservedOn ==
  ASSUME NEW c, MapperLoose(c), MapperQuiet(c), c.rest.on => ~c.lost,
         NEW s, NEW r \in MapperObserved(c, s)
  PROVE  MapperGood(r) /\ MapperOn(c, r)
<1>1. PICK d \in MapperShadowed(c) : \E e \in MapperCorrected(d) : \E f \in MapperFlushed(e, s) :
        \E t \in MapperRestStep(MapperSeated(MapperStood(f, s), s), s) : r \in MapperTicked(t)
  BY DEF MapperObserved
<1>2. PICK e \in MapperCorrected(d) : \E f \in MapperFlushed(e, s) :
        \E t \in MapperRestStep(MapperSeated(MapperStood(f, s), s), s) : r \in MapperTicked(t)
  BY <1>1
<1>3. PICK f \in MapperFlushed(e, s) :
        \E t \in MapperRestStep(MapperSeated(MapperStood(f, s), s), s) : r \in MapperTicked(t)
  BY <1>2
<1>4. PICK st : st = MapperStood(f, s)
  OBVIOUS
<1>5. PICK se : se = MapperSeated(st, s)
  OBVIOUS
<1>6. PICK t \in MapperRestStep(se, s) : r \in MapperTicked(t)
  BY <1>3, <1>4, <1>5
<1>7. MapperBefore(c, d)
  BY MapperShadowedBefore
<1>8. MapperBefore(d, e)
  BY <1>7, MapperCorrectedBefore DEF MapperBefore
<1>9. MapperOn(e, f)
  BY <1>7, <1>8, MapperFlushedOn DEF MapperBefore, MapperSame
<1>10. MapperOn(c, f)
  BY <1>7, <1>8, <1>9 DEF MapperBefore, MapperSame, MapperOn, MapperSaid
<1>11. MapperLoose(st) /\ MapperHushed(f, st) /\ (st.still <=> s = "still")
  BY <1>4, <1>10, MapperStoodHushed DEF MapperOn
<1>12. MapperLoose(se) /\ MapperHushed(st, se) /\ se.still = st.still
  BY <1>5, <1>11, MapperSeatedHushed
<1>13. MapperGood(t) /\ MapperHushed(se, t)
  BY <1>6, <1>11, <1>12, MapperRestStepGood
<1>14. MapperGood(r) /\ MapperHushed(t, r)
  BY <1>6, <1>13, MapperTickedGood
<1>15. MapperHushed(f, r)
  BY <1>11, <1>12, <1>13, <1>14 DEF MapperHushed
<1> QED BY <1>10, <1>14, <1>15, MapperOnStays DEF MapperGood

LEMMA MapperObserveStep ==
  ASSUME MapperInv, MapperObserve
  PROVE  MapperStep(mapper, mapper')
<1>0. MapperRecord(mapper) /\ MapperParts(mapper) /\ MapperGood(mapper)
  BY DEF MapperInv, MapperGood, MapperLoose, MapperTyped
<1>1. PICK s \in MapperSamples, e \in BOOLEAN :
        mapper' \in MapperObserved([MapperCleared(mapper) EXCEPT !.engaged = e], s)
  BY DEF MapperObserve
<1>2. PICK f : f = mapper.frozen
  OBVIOUS
<1>3. f \in BOOLEAN
  BY <1>0, <1>2 DEF MapperParts
<1>4. PICK c : c = [MapperCleared(mapper) EXCEPT !.engaged = e]
  OBVIOUS
<1>5. c = [MapperCleared(mapper) EXCEPT !.engaged = e, !.frozen = f]
  BY <1>0, <1>2, <1>4 DEF MapperCleared, MapperRecord, MapperFields
<1>a. c.engaged = e /\ c.frozen = f
  BY <1>0, <1>5 DEF MapperCleared, MapperRecord, MapperFields
<1>6. /\ MapperLoose(c) /\ MapperQuiet(c) /\ (c.rest.on => ~c.lost /\ c.still)
      /\ c.lost = mapper.lost /\ c.hard = mapper.hard /\ c.fallen = mapper.fallen
      /\ c.resumed = mapper.resumed /\ c.booting = mapper.booting
      /\ c.untrusted = mapper.untrusted /\ c.settle = mapper.settle
  <2>1. MapperClearedTo(mapper, c)
    BY <1>5, <1>a DEF MapperClearedTo
  <2> QED BY <1>0, <1>3, <1>a, <2>1, MapperClearedLoose
<1>7. MapperGood(mapper') /\ MapperOn(c, mapper')
  BY <1>1, <1>4, <1>6, MapperObservedOn
<1>8. MapperSaid(mapper, mapper')
  BY <1>6, <1>7 DEF MapperOn, MapperSaid
<1> QED BY <1>6, <1>7, <1>8 DEF MapperStep, MapperOn, MapperLoose, MapperDoubted

LEMMA MapperFrameStep ==
  ASSUME MapperInv, MapperFrame
  PROVE  MapperStep(mapper, mapper')
<1>0. MapperRecord(mapper) /\ MapperParts(mapper) /\ MapperGood(mapper)
  BY DEF MapperInv, MapperGood, MapperLoose, MapperTyped
<1>1. PICK c : c = MapperCleared(mapper)
  OBVIOUS
<1>2. PICK f : f = mapper.frozen
  OBVIOUS
<1>3. PICK e : e = mapper.engaged
  OBVIOUS
<1>4. f \in BOOLEAN /\ e \in BOOLEAN
  BY <1>0, <1>2, <1>3 DEF MapperParts
<1>5. c = [MapperCleared(mapper) EXCEPT !.engaged = e, !.frozen = f]
  BY <1>0, <1>1, <1>2, <1>3 DEF MapperCleared, MapperRecord, MapperFields
<1>a. c.engaged = e /\ c.frozen = f
  BY <1>0, <1>5 DEF MapperCleared, MapperRecord, MapperFields
<1>6. /\ MapperLoose(c) /\ MapperQuiet(c) /\ (c.rest.on => ~c.lost /\ c.still)
      /\ c.lost = mapper.lost /\ c.hard = mapper.hard /\ c.fallen = mapper.fallen
      /\ c.resumed = mapper.resumed /\ c.booting = mapper.booting
      /\ c.untrusted = mapper.untrusted /\ c.rest = mapper.rest
  <2>1. MapperClearedTo(mapper, c)
    BY <1>5, <1>a DEF MapperClearedTo
  <2> QED BY <1>0, <1>4, <1>a, <2>1, MapperClearedLoose
<1>8. MapperGood(c) /\ MapperRecord(c) /\ MapperParts(c)
  BY <1>0, <1>3, <1>6, <1>a DEF MapperGood, MapperLoose, MapperTyped
<1>9. mapper' \in MapperFramed(c)
  BY <1>1 DEF MapperFrame
<1>10. CASE mapper' = c
  BY <1>6, <1>8, <1>10 DEF MapperStep, MapperSaid, MapperQuiet
<1>11. CASE /\ c.still /\ c.rest.on
            /\ mapper' = [c EXCEPT !.rest.watching = TRUE, !.window = TRUE]
  <2>1. PICK rest : rest = [c.rest EXCEPT !.watching = TRUE]
    OBVIOUS
  <2>a. c.rest \in [on : BOOLEAN, watching : BOOLEAN, contradictions : 0 .. MapperTwo - 1]
    BY <1>8 DEF MapperParts
  <2>2. /\ rest \in [on : BOOLEAN, watching : BOOLEAN, contradictions : 0 .. MapperTwo - 1]
        /\ rest.on = c.rest.on
    BY <2>1, <2>a
  <2>3. mapper' = [c EXCEPT !.rest = rest, !.window = TRUE]
    BY <1>8, <1>11, <2>1 DEF MapperRecord, MapperFields
  <2>4. PICK r : r = mapper'
    OBVIOUS
  <2>5. r = [c EXCEPT !.rest = rest, !.window = TRUE]
    BY <2>3, <2>4
  <2>6. MapperRecord(r)
    BY <1>8, <2>5 DEF MapperRecord, MapperFields
  <2>7. MapperParts(r)
    BY <1>8, <2>2, <2>5 DEF MapperRecord, MapperFields, MapperParts
  <2>8. /\ MapperBacked(r) /\ MapperDoubted(r) /\ MapperSeeded(r) /\ MapperQuiet(r)
        /\ r.rest = rest /\ r.settling = c.settling /\ r.pushed = c.pushed
        /\ r.still = c.still /\ r.lost = c.lost /\ r.engaged = c.engaged
        /\ r.untrusted = c.untrusted
    BY <1>6, <1>8, <2>5 DEF MapperLoose, MapperRecord, MapperFields, MapperBacked,
       MapperDoubted, MapperSeeded, MapperQuiet
  <2>9. MapperGood(r)
    BY <1>8, <2>2, <2>6, <2>7, <2>8 DEF MapperGood, MapperLoose, MapperTyped
  <2> QED BY <1>6, <2>4, <2>8, <2>9 DEF MapperStep, MapperSaid, MapperQuiet
<1>12. CASE mapper' = [c EXCEPT !.window = TRUE]
  <2>4. PICK r : r = mapper'
    OBVIOUS
  <2>5. r = [c EXCEPT !.window = TRUE]
    BY <1>12, <2>4
  <2>6. MapperRecord(r)
    BY <1>8, <2>5 DEF MapperRecord, MapperFields
  <2>7. MapperParts(r)
    BY <1>8, <2>5 DEF MapperRecord, MapperFields, MapperParts
  <2>8. /\ MapperBacked(r) /\ MapperDoubted(r) /\ MapperSeeded(r) /\ MapperQuiet(r)
        /\ r.rest = c.rest /\ r.settling = c.settling /\ r.pushed = c.pushed
        /\ r.still = c.still /\ r.lost = c.lost /\ r.engaged = c.engaged
        /\ r.untrusted = c.untrusted
    BY <1>6, <1>8, <2>5 DEF MapperLoose, MapperRecord, MapperFields, MapperBacked,
       MapperDoubted, MapperSeeded, MapperQuiet
  <2>9. MapperGood(r)
    BY <1>8, <2>6, <2>7, <2>8 DEF MapperGood, MapperLoose, MapperTyped
  <2> QED BY <1>6, <2>4, <2>8, <2>9 DEF MapperStep, MapperSaid, MapperQuiet
<1>13. CASE mapper' = MapperInk(c) /\ ~c.lost
  <2>1. PICK v \in BOOLEAN : v = (c.inked \/ ~c.frozen)
    OBVIOUS
  <2>4. PICK r : r = mapper'
    OBVIOUS
  <2>5. r = [c EXCEPT !.inked = v]
    BY <1>13, <2>1, <2>4 DEF MapperInk
  <2>6. MapperRecord(r)
    BY <1>8, <2>5 DEF MapperRecord, MapperFields
  <2>7. MapperParts(r)
    BY <1>8, <2>5 DEF MapperRecord, MapperFields, MapperParts
  <2>8. /\ MapperBacked(r) /\ MapperDoubted(r) /\ MapperSeeded(r)
        /\ r.found = c.found /\ r.inked = v /\ r.frozen = c.frozen
        /\ r.rest = c.rest /\ r.settling = c.settling /\ r.pushed = c.pushed
        /\ r.still = c.still /\ r.lost = c.lost /\ r.engaged = c.engaged
        /\ r.untrusted = c.untrusted
    BY <1>6, <1>8, <2>5 DEF MapperLoose, MapperRecord, MapperFields, MapperBacked,
       MapperDoubted, MapperSeeded
  <2>9. MapperGood(r)
    BY <1>8, <2>6, <2>7, <2>8 DEF MapperGood, MapperLoose, MapperTyped
  <2>10. v => ~c.frozen
    BY <1>6, <2>1 DEF MapperQuiet
  <2> QED BY <1>6, <1>13, <2>4, <2>8, <2>9, <2>10 DEF MapperStep, MapperSaid, MapperQuiet
<1> QED BY <1>9, <1>10, <1>11, <1>12, <1>13 DEF MapperFramed

LEMMA MapperFreezeStep ==
  ASSUME MapperInv, MapperFreeze
  PROVE  MapperStep(mapper, mapper')
<1>0. MapperRecord(mapper) /\ MapperParts(mapper) /\ MapperGood(mapper)
  BY DEF MapperInv, MapperGood, MapperLoose, MapperTyped
<1>1. PICK on \in BOOLEAN : mapper' = [MapperCleared(mapper) EXCEPT !.frozen = on]
  BY DEF MapperFreeze
<1>2. PICK e : e = mapper.engaged
  OBVIOUS
<1>3. e \in BOOLEAN
  BY <1>0, <1>2 DEF MapperParts
<1>4. PICK r : r = mapper'
  OBVIOUS
<1>5. r = [MapperCleared(mapper) EXCEPT !.engaged = e, !.frozen = on]
  BY <1>0, <1>1, <1>2, <1>4 DEF MapperCleared, MapperRecord, MapperFields
<1>a. r.engaged = e /\ r.frozen = on
  BY <1>0, <1>5 DEF MapperCleared, MapperRecord, MapperFields
<1>6. /\ MapperLoose(r) /\ MapperQuiet(r) /\ (r.rest.on => ~r.lost /\ r.still)
      /\ r.lost = mapper.lost /\ r.untrusted = mapper.untrusted /\ r.rest = mapper.rest
  <2>1. MapperClearedTo(mapper, r)
    BY <1>5, <1>a DEF MapperClearedTo
  <2> QED BY <1>0, <1>3, <1>a, <2>1, MapperClearedLoose
<1> QED BY <1>0, <1>2, <1>4, <1>6, <1>a DEF MapperStep, MapperSaid, MapperQuiet, MapperGood

(* The mappers the host builds, and the one it begins with. *)
LEMMA MapperNewGood ==
  ASSUME NEW c \in BOOLEAN, NEW e \in BOOLEAN, NEW f \in BOOLEAN, NEW map \in BOOLEAN,
         NEW m, m = MapperNew(c, e, f, map)
  PROVE  MapperGood(m) /\ MapperQuiet(m) /\ ~m.rest.on
<1>1. PICK b : b = MapperBlank(c, e, f, map)
  OBVIOUS
<1>2. b \in Mappers
  <2>1. /\ 0 \in 0 .. MapperTwo /\ 0 \in 0 .. MapperTwo - 1 /\ 0 \in 0 .. MapperPatience
        /\ 0 \in 0 .. MapperLimit
        /\ MapperSettled \in [on : BOOLEAN, run : 0 .. MapperTwo - 1, held : 0 .. MapperHeld]
        /\ MapperAwake \in [on : BOOLEAN, watching : BOOLEAN, contradictions : 0 .. MapperTwo - 1]
    BY MapperAssumption DEF MapperTwo, MapperSettled, MapperAwake
  <2> QED BY <1>1, <2>1 DEF MapperBlank, Mappers
<1>3. MapperTyped(b)
  BY <1>2, MapperTypedIs
<1>4. /\ MapperBacked(b) /\ MapperDoubted(b) /\ MapperSeeded(b) /\ MapperQuiet(b)
      /\ ~b.rest.on /\ ~b.lost
  BY <1>1 DEF MapperBlank, MapperBacked, MapperDoubted, MapperSeeded, MapperQuiet, MapperAwake
<1>5. MapperLoose(b)
  BY <1>3, <1>4 DEF MapperLoose
<1>6. CASE map /\ m = MapperArmed(b)
  BY <1>4, <1>5, <1>6, MapperArmedLoose DEF MapperSame, MapperGood, MapperQuiet
<1>7. CASE m = b
  BY <1>4, <1>5, <1>7 DEF MapperGood
<1> QED BY <1>1, <1>6, <1>7 DEF MapperNew

LEMMA MapperBuildGood ==
  ASSUME MapperInv, MapperBuild
  PROVE  MapperGood(mapper') /\ MapperQuiet(mapper')
<1>1. mapper.continuous \in BOOLEAN /\ mapper.settle \in BOOLEAN
  BY DEF MapperInv, MapperGood, MapperLoose, MapperTyped, MapperParts
<1>2. PICK f \in BOOLEAN, map \in BOOLEAN :
        mapper' \in {MapperNew(mapper.continuous, mapper.settle, f, map),
                     MapperAfresh(MapperNew(mapper.continuous, mapper.settle, f, map))}
  BY DEF MapperBuild
<1>3. PICK m : m = MapperNew(mapper.continuous, mapper.settle, f, map)
  OBVIOUS
<1>4. MapperGood(m) /\ MapperQuiet(m) /\ ~m.rest.on
  BY <1>1, <1>3, MapperNewGood
<1>5. CASE mapper' = m
  BY <1>4, <1>5
<1>6. CASE mapper' = MapperAfresh(m)
  <2>1. PICK r : r = mapper'
    OBVIOUS
  <2>2. MapperLoose(r) /\ MapperSame(m, r) /\ r.found = m.found /\ r.inked = m.inked
    BY <1>4, <1>6, <2>1, MapperAfreshLoose DEF MapperGood
  <2> QED BY <1>4, <2>1, <2>2 DEF MapperGood, MapperQuiet, MapperSame
<1> QED BY <1>2, <1>3, <1>5, <1>6

-----------------------------------------------------------------------------
(* The invariant is inductive: whatever doubts, windows, rests and mappers   *)
(* follow each other. *)
THEOREM MapperInvariance == MapperSpec => []MapperInv
<1>1. MapperInit => MapperInv
  <2> SUFFICES ASSUME MapperInit PROVE MapperInv
    OBVIOUS
  <2>1. PICK c \in BOOLEAN, e \in BOOLEAN, f \in BOOLEAN, map \in BOOLEAN :
         mapper = MapperNew(c, e, f, map)
    BY DEF MapperInit, MapperInits
  <2> QED BY <2>1, MapperNewGood DEF MapperInv
<1>2. MapperInv /\ [MapperNext]_mapper => MapperInv'
  <2> SUFFICES ASSUME MapperInv, [MapperNext]_mapper PROVE MapperInv'
    OBVIOUS
  <2>1. CASE MapperObserve
    BY <2>1, MapperObserveStep DEF MapperStep, MapperInv
  <2>2. CASE MapperFrame
    BY <2>2, MapperFrameStep DEF MapperStep, MapperInv
  <2>3. CASE MapperFreeze
    BY <2>3, MapperFreezeStep DEF MapperStep, MapperInv
  <2>4. CASE MapperBuild
    BY <2>4, MapperBuildGood DEF MapperInv
  <2>5. CASE UNCHANGED mapper
    BY <2>5 DEF MapperInv
  <2> QED BY <2>1, <2>2, <2>3, <2>4, <2>5 DEF MapperNext
<1> QED BY <1>1, <1>2, PTL DEF MapperSpec

(* The mapper is a record of its type: no counter outruns its limit. *)
THEOREM MapperTypeCorrect == MapperSpec => []MapperTypeOK
<1>1. MapperInv => MapperTypeOK
  BY MapperTypedIs DEF MapperInv, MapperGood, MapperLoose, MapperTypeOK
<1> QED BY <1>1, MapperInvariance, PTL

(* The boot's search settings never outlive the boot (`resume_at` gives them *)
(* back, `search_afresh` keeps the first ones).                              *)
THEOREM MapperSettingsGoBack == MapperSpec => []MapperSettingsBack
<1>1. MapperInv => MapperSettingsBack
  BY DEF MapperInv, MapperGood, MapperLoose, MapperBacked, MapperSettingsBack
<1> QED BY <1>1, MapperInvariance, PTL

(* What rests is trusted, settled, still and undriven. *)
THEOREM MapperOnlyTrustedRests == MapperSpec => []MapperRestsTrusted
<1>1. MapperInv => MapperRestsTrusted
  BY DEF MapperInv, MapperGood, MapperLoose, MapperDoubted, MapperRestsTrusted
<1> QED BY <1>1, MapperInvariance, PTL

(* What every step says. *)
LEMMA MapperEveryStep ==
  ASSUME MapperInv, MapperNext
  PROVE  \/ MapperStep(mapper, mapper')
         \/ MapperBuild /\ MapperQuiet(mapper')
BY MapperObserveStep, MapperFrameStep, MapperFreezeStep, MapperBuildGood DEF MapperNext

(* Tracking never resumes unverified after a refuted seed, a fall or on a    *)
(* saved map, and gives up to odometry only where the watchdog lost it.      *)
THEOREM MapperNeverResumesBlind == MapperSpec => MapperNoBlindResume
<1>1. MapperInv /\ [MapperNext]_mapper =>
        [/\ mapper'.found = "unverified" =>
              ~mapper'.refuted /\ ~mapper.fallen /\ ~mapper.resumed
         /\ mapper'.found = "odometry" =>
              mapper.hard /\ ~mapper.fallen /\ ~mapper.booting]_mapper
  BY MapperEveryStep DEF MapperStep, MapperSaid, MapperQuiet
<1> QED BY <1>1, MapperInvariance, PTL DEF MapperSpec, MapperNoBlindResume

(* An untrusted pose nobody drives stays untrusted, but in another mapper. *)
THEOREM MapperUntrustedDoesWait == MapperSpec => MapperUntrustedWaits
<1>1. MapperInv /\ [MapperNext]_mapper =>
        [mapper.untrusted /\ ~mapper'.engaged /\ ~MapperBuild => mapper'.untrusted]_mapper
  BY MapperEveryStep DEF MapperStep
<1> QED BY <1>1, MapperInvariance, PTL DEF MapperSpec, MapperUntrustedWaits

(* Nothing inks a frozen map, nor a lost pose but at the window that finds   *)
(* it: on evidence at a boot or after a fall, and where settling is on, not  *)
(* that one either on an earlier run's map or after a fall (`resume_at`).    *)
THEOREM MapperStaysDry == MapperSpec => MapperDry
<1>1. MapperInv /\ [MapperNext]_mapper =>
        [mapper'.inked =>
           /\ ~mapper'.frozen
           /\ mapper.lost =>
                /\ mapper'.found # "no"
                /\ mapper.fallen \/ mapper.booting => mapper'.found \in {"seed", "candidate"}
                /\ mapper.settle => ~mapper.resumed /\ ~mapper.fallen]_mapper
  BY MapperEveryStep DEF MapperStep, MapperSaid, MapperQuiet
<1> QED BY <1>1, MapperInvariance, PTL DEF MapperSpec, MapperDry

(* The mapper's state is as its settings and its rest say (`observe`,        *)
(* `absorb_window`, `rest_step`).                                            *)
THEOREM MapperHolds == MapperSpec => []MapperTrue
<1>1. MapperSettingsBack /\ MapperRestsTrusted => MapperTrue
  BY DEF MapperTrue
<1> QED BY <1>1, MapperSettingsGoBack, MapperOnlyTrustedRests, PTL

(* The mapper's steps resume, wait and ink as they should. *)
THEOREM MapperStepsCarefully == MapperSpec => MapperCareful
BY MapperNeverResumesBlind, MapperUntrustedDoesWait, MapperStaysDry DEF MapperCareful
=============================================================================
