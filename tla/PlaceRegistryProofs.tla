------------------------- MODULE PlaceRegistryProofs -------------------------
(* The registry's invariant, and that a stale place stays stale, for every *)
(* number of maps, names, places and lineages and whatever happens unseen. *)
(* A lineage is dead once nothing can make it live again; each operation   *)
(* of the registry keeps the dead dead, and a stale place is one whose     *)
(* lineage is dead.                                                        *)
(*                                                                         *)
(* Then, where nothing happens that the registry cannot see, that a saved  *)
(* name means the map saved under it and a look confirms the map of the    *)
(* frame in hand: Meant says what the registry, the lane and the calls on  *)
(* their way know of each other between any two steps.                     *)
EXTENDS PlaceRegistry, TLAPS

Good(r) == r \in Registries /\ LiveInv(r) /\ MintInv(r)

Dead(r, l) ==
    /\ l \in 1..r.minted
    /\ l \notin {r.live, r.fileLive, r.unclaimed}
    /\ \A n \in Names : r.maps[n] # l

Steps(r, q) == Good(q) /\ \A l \in Nat : Dead(r, l) => Dead(q, l)

LooksT == [epoch : Nat, epochFrames : Nat, frames : Nat, submaps : 0..MaxSize,
           trusted : BOOLEAN, map : Maps \cup {None}]

-----------------------------------------------------------------------------
(* A lineage that is minted is new. *)
LEMMA MintSteps ==
    ASSUME NEW r, Good(r), NEW m \in Maps \cup {None}
    PROVE  /\ Steps(r, Mint(r, m))
           /\ Mint(r, m).minted = r.minted + 1
           /\ \A l \in Nat : Dead(r, l) => l # NextOf(r)
           /\ NextOf(r) \in 1..Mint(r, m).minted
<1> DEFINE q == Mint(r, m)
<1>1. r \in Registries
  BY DEF Good
<1>2. [r.of EXCEPT ![NextOf(r)] = m] \in [Lineages -> Maps \cup {None}]
  BY <1>1 DEF Registries
<1>3. r.minted \in Nat /\ NextOf(r) \in Nat
  BY <1>1 DEF Registries, NextOf
<1>4. q \in Registries
  BY <1>1, <1>2, <1>3 DEF Registries, Mint
<1>5. /\ q.minted = r.minted + 1
      /\ q.live = r.live /\ q.fileLive = r.fileLive /\ q.unclaimed = r.unclaimed
      /\ q.maps = r.maps /\ q.places = r.places
  BY <1>1 DEF Registries, Mint, NextOf
<1>6. Good(q)
  <2> HIDE DEF q
  <2> QED BY <1>1, <1>3, <1>4, <1>5 DEF Good, LiveInv, MintInv
<1>7. \A l \in Nat : Dead(r, l) => Dead(q, l) /\ l # NextOf(r)
  <2> HIDE DEF q
  <2> QED BY <1>3, <1>5 DEF Dead, NextOf
<1> QED BY <1>3, <1>5, <1>6, <1>7 DEF Steps, NextOf

(* go_live, on a lineage that is not dead. *)
LEMMA GoLiveSteps ==
    ASSUME NEW r, Good(r), NEW l \in 1..r.minted,
           NEW n \in Names \cup {NoName}, NEW at \in Nat
    PROVE  /\ Good(GoLive(r, l, n, at))
           /\ \A d \in Nat : Dead(r, d) /\ d # l => Dead(GoLive(r, l, n, at), d)
           /\ GoLive(r, l, n, at).live = l
           /\ GoLive(r, l, n, at).maps = r.maps
           /\ GoLive(r, l, n, at).minted = r.minted
<1> DEFINE q == GoLive(r, l, n, at)
<1>1. r \in Registries
  BY DEF Good
<1>2. r.minted \in Nat /\ l \in Nat /\ 0 \in 0..MaxSize
  BY <1>1, BoundsAssumption DEF Registries
<1>3. q \in Registries
  BY <1>1, <1>2 DEF Registries, GoLive
<1>4. /\ q.minted = r.minted
      /\ q.live = l /\ q.fileLive = l /\ q.unclaimed = r.unclaimed
      /\ q.maps = r.maps /\ q.places = r.places
  BY <1>1 DEF Registries, GoLive
<1>5. Good(q)
  <2> HIDE DEF q
  <2> QED BY <1>2, <1>3, <1>4 DEF Good, LiveInv, MintInv
<1>6. \A d \in Nat : Dead(r, d) /\ d # l => Dead(q, d)
  <2> HIDE DEF q
  <2> QED BY <1>4 DEF Dead
<1> QED BY <1>4, <1>5, <1>6

(* Registry::loaded. *)
LEMMA LoadedSteps ==
    ASSUME NEW r, Good(r), NEW n \in Names, NEW at \in Nat, NEW m \in Maps \cup {None}
    PROVE  Steps(r, Loaded(r, n, at, m))
<1> DEFINE seen == IF r.maps[n] # None THEN r
                   ELSE [Mint(r, m) EXCEPT !.maps[n] = NextOf(r)]
           c == IF r.unclaimed # None /\ ~ClaimedBefore(seen, n) THEN n ELSE NoName
           claimed == [seen EXCEPT !.claim = c]
<1>1. r \in Registries
  BY DEF Good
<1>2. /\ Good(seen) /\ seen.maps[n] \in 1..seen.minted
      /\ \A d \in Nat : Dead(r, d) => Dead(seen, d) /\ d # seen.maps[n]
  <2>1. CASE r.maps[n] # None
    <3>1. seen = r
      BY <2>1
    <3>2. r.maps[n] \in 1..r.minted
      BY <1>1, <2>1 DEF Good, MintInv, None, Registries
    <3> QED BY <3>1, <3>2 DEF Dead
  <2>2. CASE r.maps[n] = None
    <3> DEFINE q == Mint(r, m)
               z == [q EXCEPT !.maps[n] = NextOf(r)]
    <3>1. seen = z
      BY <2>2
    <3>2. /\ Good(q) /\ q.minted = r.minted + 1 /\ NextOf(r) \in 1..q.minted
          /\ \A d \in Nat : Dead(r, d) => Dead(q, d) /\ d # NextOf(r)
      BY MintSteps DEF Steps
    <3> HIDE DEF q
    <3>3. q \in Registries
      BY <3>2 DEF Good
    <3>4. NextOf(r) \in Nat
      BY <1>1 DEF Registries, NextOf
    <3>5. z \in Registries
      BY <3>3, <3>4 DEF Registries
    <3>6. /\ z.minted = q.minted /\ z.live = q.live /\ z.fileLive = q.fileLive
          /\ z.unclaimed = q.unclaimed /\ z.places = q.places
          /\ z.maps = [q.maps EXCEPT ![n] = NextOf(r)]
      BY <3>3 DEF Registries
    <3>7. q.maps \in [Names -> Nat]
      BY <3>3 DEF Registries
    <3> HIDE DEF z
    <3>8. Good(z)
      BY <3>2, <3>4, <3>5, <3>6, <3>7 DEF Good, LiveInv, MintInv
    <3>9. z.maps[n] = NextOf(r)
      BY <3>6, <3>7
    <3>10. \A d \in Nat : Dead(r, d) => Dead(z, d) /\ d # NextOf(r)
      BY <3>2, <3>6, <3>7 DEF Dead
    <3> HIDE DEF seen
    <3> QED BY <3>1, <3>2, <3>6, <3>8, <3>9, <3>10
  <2> QED BY <2>1, <2>2
<1> HIDE DEF seen
<1>3. seen \in Registries /\ c \in Names \cup {NoName}
  BY <1>2 DEF Good
<1>4. claimed \in Registries
  <2> HIDE DEF c
  <2> QED BY <1>3 DEF Registries
<1>5. /\ claimed.minted = seen.minted /\ claimed.live = seen.live
      /\ claimed.fileLive = seen.fileLive /\ claimed.unclaimed = seen.unclaimed
      /\ claimed.places = seen.places /\ claimed.maps = seen.maps
  BY <1>3 DEF Registries
<1>6. Good(claimed) /\ \A d \in Nat : Dead(r, d) => Dead(claimed, d) /\ d # seen.maps[n]
  <2> HIDE DEF claimed
  <2> QED BY <1>2, <1>4, <1>5 DEF Good, LiveInv, MintInv, Dead
<1>7. Loaded(r, n, at, m) = GoLive(claimed, seen.maps[n], n, at)
  BY DEF Loaded, seen
<1> HIDE DEF claimed
<1>8. seen.maps[n] \in 1..claimed.minted
  BY <1>2, <1>5
<1> QED BY <1>6, <1>7, <1>8, GoLiveSteps DEF Steps

(* Registry::started_afresh. *)
LEMMA StartedAfreshSteps ==
    ASSUME NEW r, Good(r), NEW at \in Nat, NEW m \in Maps \cup {None}
    PROVE  Steps(r, StartedAfresh(r, at, m))
<1> DEFINE q == Mint(r, m)
           z == [q EXCEPT !.claim = NoName]
<1>1. /\ Good(q) /\ q.minted = r.minted + 1 /\ NextOf(r) \in 1..q.minted
      /\ \A d \in Nat : Dead(r, d) => Dead(q, d) /\ d # NextOf(r)
  BY MintSteps DEF Steps
<1>2. StartedAfresh(r, at, m) = GoLive(z, NextOf(r), NoName, at)
  BY DEF StartedAfresh
<1> HIDE DEF q
<1>3. q \in Registries
  BY <1>1 DEF Good
<1>4. /\ z \in Registries
      /\ z.minted = q.minted /\ z.live = q.live /\ z.fileLive = q.fileLive
      /\ z.unclaimed = q.unclaimed /\ z.places = q.places /\ z.maps = q.maps
  BY <1>3 DEF Registries
<1> HIDE DEF z
<1>5. Good(z) /\ \A d \in Nat : Dead(r, d) => Dead(z, d) /\ d # NextOf(r)
  BY <1>1, <1>4 DEF Good, LiveInv, MintInv, Dead
<1>6. NextOf(r) \in 1..z.minted
  BY <1>1, <1>4
<1>7. \A n \in Names \cup {NoName} :
         /\ Good(GoLive(z, NextOf(r), n, at))
         /\ \A d \in Nat : Dead(z, d) /\ d # NextOf(r) => Dead(GoLive(z, NextOf(r), n, at), d)
  BY <1>5, <1>6, GoLiveSteps
<1> QED BY <1>2, <1>5, <1>7 DEF Steps

(* Registry::saved_as. *)
LEMMA SavedAsSteps ==
    ASSUME NEW r, Good(r), NEW n \in Names, NEW m \in Maps \cup {None}
    PROVE  Steps(r, SavedAs(r, n, m))
<1> DEFINE known == IF r.live # None THEN r
                    ELSE GoLive(Mint(r, m), NextOf(r), NoName, AskedAt(r))
           z == [known EXCEPT !.maps[n] = known.live, !.fileName = n,
                              !.unclaimed = IF @ = known.live THEN None ELSE @]
<1>1. r \in Registries
  BY DEF Good
<1>2. AskedAt(r) \in Nat
  BY <1>1 DEF AskedAt, Registries
<1>3. Good(known) /\ known.live # None /\ \A d \in Nat : Dead(r, d) => Dead(known, d)
  <2>1. CASE r.live # None
    BY <2>1
  <2>2. CASE r.live = None
    <3> DEFINE q == Mint(r, m)
               g == GoLive(q, NextOf(r), NoName, AskedAt(r))
    <3>1. /\ Good(q) /\ NextOf(r) \in 1..q.minted
          /\ \A d \in Nat : Dead(r, d) => Dead(q, d) /\ d # NextOf(r)
      BY MintSteps DEF Steps
    <3>2. known = g
      BY <2>2
    <3> HIDE DEF q, known, z
    <3>3. \A x \in Names \cup {NoName}, at \in Nat :
             /\ Good(GoLive(q, NextOf(r), x, at))
             /\ GoLive(q, NextOf(r), x, at).live = NextOf(r)
             /\ \A d \in Nat : Dead(q, d) /\ d # NextOf(r) =>
                               Dead(GoLive(q, NextOf(r), x, at), d)
      BY <3>1, GoLiveSteps
    <3>4. /\ Good(g) /\ g.live = NextOf(r)
          /\ \A d \in Nat : Dead(q, d) /\ d # NextOf(r) => Dead(g, d)
      BY <1>2, <3>3
    <3> HIDE DEF g
    <3>5. NextOf(r) # None
      BY <3>1 DEF None
    <3> QED BY <3>1, <3>2, <3>4, <3>5
  <2> QED BY <2>1, <2>2
<1>4. SavedAs(r, n, m) = z
  BY DEF SavedAs
<1> HIDE DEF known
<1>5. known \in Registries
  BY <1>3 DEF Good
<1>6. /\ known.live \in Nat /\ known.unclaimed \in Nat /\ None \in Nat
      /\ known.maps \in [Names -> Nat]
  BY <1>5 DEF Registries, None
<1>7. z \in Registries
  BY <1>5, <1>6 DEF Registries
<1>8. /\ z.minted = known.minted /\ z.live = known.live /\ z.fileLive = known.fileLive
      /\ z.places = known.places /\ z.maps = [known.maps EXCEPT ![n] = known.live]
      /\ z.unclaimed = IF known.unclaimed = known.live THEN None ELSE known.unclaimed
  BY <1>5 DEF Registries
<1> HIDE DEF z
<1>9. Good(z)
  <2>1. known.minted \in Nat /\ known.live \in 0..known.minted
    BY <1>3, <1>5 DEF Good, MintInv, Registries
  <2>2. LiveInv(z)
    BY <1>3, <1>8 DEF Good, LiveInv
  <2>3. {z.live, z.fileLive, z.unclaimed} \subseteq 0..z.minted
    BY <1>3, <1>8, <2>1 DEF Good, MintInv, None
  <2>4. \A x \in Names : z.maps[x] \in 0..z.minted
    BY <1>3, <1>6, <1>8, <2>1 DEF Good, MintInv
  <2>5. \A s \in Spots : z.places[s] \in 0..z.minted
    BY <1>3, <1>8 DEF Good, MintInv
  <2> QED BY <1>7, <2>2, <2>3, <2>4, <2>5 DEF Good, MintInv
<1>10. \A d \in Nat : Dead(known, d) => Dead(z, d)
  BY <1>6, <1>8 DEF Dead, None
<1> QED BY <1>3, <1>4, <1>9, <1>10 DEF Steps

(* A first look takes the map the file left, or mints one. *)
LEMMA FirstLookSteps ==
    ASSUME NEW r, Good(r), NEW look \in LooksT
    PROVE  Steps(r, FirstLook(r, look))
<1>1. r \in Registries /\ look.map \in Maps \cup {None}
  BY DEF Good, LooksT
<1>2. CASE r.live # None \/ r.awaiting
  BY <1>2 DEF FirstLook, Steps
<1>3. CASE /\ ~(r.live # None \/ r.awaiting)
           /\ r.fileLive # None /\ look.submaps >= r.fileSubmaps
  <2> DEFINE z == [r EXCEPT !.live = r.fileLive, !.confirmed = FALSE]
  <2>1. FirstLook(r, look) = z
    BY <1>3 DEF FirstLook
  <2>2. /\ z \in Registries
        /\ z.minted = r.minted /\ z.live = r.fileLive /\ z.fileLive = r.fileLive
        /\ z.unclaimed = r.unclaimed /\ z.places = r.places /\ z.maps = r.maps
    BY <1>1 DEF Registries
  <2> HIDE DEF z
  <2>3. Good(z) /\ \A d \in Nat : Dead(r, d) => Dead(z, d)
    BY <2>2 DEF Good, LiveInv, MintInv, Dead
  <2> QED BY <2>1, <2>3 DEF Steps
<1>4. CASE /\ ~(r.live # None \/ r.awaiting)
           /\ ~(r.fileLive # None /\ look.submaps >= r.fileSubmaps)
  <2> DEFINE q == Mint(r, look.map)
             z == [q EXCEPT !.live = NextOf(r), !.fileLive = NextOf(r),
                            !.fileName = NoName, !.confirmed = FALSE]
  <2>1. FirstLook(r, look) = z
    BY <1>4 DEF FirstLook
  <2>2. /\ Good(q) /\ NextOf(r) \in 1..q.minted
        /\ \A d \in Nat : Dead(r, d) => Dead(q, d) /\ d # NextOf(r)
    BY <1>1, MintSteps DEF Steps
  <2> HIDE DEF q
  <2>3. q \in Registries /\ NextOf(r) \in Nat
    BY <2>2, <1>1 DEF Good, Registries, NextOf
  <2>4. /\ z \in Registries
        /\ z.minted = q.minted /\ z.live = NextOf(r) /\ z.fileLive = NextOf(r)
        /\ z.unclaimed = q.unclaimed /\ z.places = q.places /\ z.maps = q.maps
    BY <2>3 DEF Registries
  <2> HIDE DEF z
  <2>5. Good(z)
    BY <2>2, <2>3, <2>4 DEF Good, LiveInv, MintInv
  <2>6. \A d \in Nat : Dead(r, d) => Dead(z, d)
    BY <2>2, <2>4 DEF Dead
  <2> QED BY <2>1, <2>5, <2>6 DEF Steps
<1> QED BY <1>2, <1>3, <1>4

(* A claim moves places from one lineage to the live one, and ends. *)
LEMMA SettleClaimSteps ==
    ASSUME NEW r, Good(r), r.live # None
    PROVE  Steps(r, SettleClaim(r))
<1> DEFINE moved == [s \in Spots |-> IF r.places[s] = r.unclaimed THEN r.live ELSE r.places[s]]
           z1 == [r EXCEPT !.unclaimed = None, !.claim = NoName]
           z2 == [r EXCEPT !.claim = NoName]
           z3 == [r EXCEPT !.claim = NoName, !.unclaimed = None, !.places = moved]
<1>1. r \in Registries
  BY DEF Good
<1>2. /\ None \in Nat /\ r.places \in [Spots -> Nat] /\ r.live \in Nat
      /\ r.live \in 0..r.minted /\ r.minted \in Nat
  BY <1>1 DEF Good, MintInv, Registries, None
<1>3. moved \in [Spots -> Nat] /\ \A s \in Spots : moved[s] \in 0..r.minted
  BY <1>2 DEF Good, MintInv
<1>4. SettleClaim(r) \in {r, z1, z2, z3}
  BY DEF SettleClaim
<1> HIDE DEF moved
<1>5. /\ z1 \in Registries /\ z1.unclaimed = None /\ z1.places = r.places
      /\ z1.minted = r.minted /\ z1.live = r.live /\ z1.fileLive = r.fileLive /\ z1.maps = r.maps
  BY <1>1, <1>2 DEF Registries
<1>6. /\ z2 \in Registries /\ z2.unclaimed = r.unclaimed /\ z2.places = r.places
      /\ z2.minted = r.minted /\ z2.live = r.live /\ z2.fileLive = r.fileLive /\ z2.maps = r.maps
  BY <1>1, <1>2 DEF Registries
<1>7. /\ z3 \in Registries /\ z3.unclaimed = None /\ z3.places = moved
      /\ z3.minted = r.minted /\ z3.live = r.live /\ z3.fileLive = r.fileLive /\ z3.maps = r.maps
  BY <1>1, <1>2, <1>3 DEF Registries
<1> HIDE DEF z1, z2, z3
<1>8. Steps(r, z1)
  BY <1>2, <1>5 DEF Steps, Good, LiveInv, MintInv, Dead, None
<1>9. Steps(r, z2)
  BY <1>2, <1>6 DEF Steps, Good, LiveInv, MintInv, Dead, None
<1>10. Steps(r, z3)
  BY <1>2, <1>3, <1>7 DEF Steps, Good, LiveInv, MintInv, Dead, None
<1> QED BY <1>4, <1>8, <1>9, <1>10 DEF Steps

LEMMA ConfirmSteps ==
    ASSUME NEW r, Good(r), NEW look \in LooksT
    PROVE  Steps(r, Confirm(r, look))
<1> DEFINE z == [r EXCEPT !.confirmed = TRUE]
<1>1. r \in Registries
  BY DEF Good
<1>2. /\ z \in Registries /\ z.unclaimed = r.unclaimed /\ z.places = r.places
      /\ z.minted = r.minted /\ z.live = r.live /\ z.fileLive = r.fileLive /\ z.maps = r.maps
  BY <1>1 DEF Registries
<1>3. Confirm(r, look) = r \/ (r.live # None /\ Confirm(r, look) = SettleClaim(z))
  BY DEF Confirm
<1> HIDE DEF z
<1>4. Good(z) /\ \A d \in Nat : Dead(r, d) => Dead(z, d)
  BY <1>2 DEF Good, LiveInv, MintInv, Dead
<1>5. r.live # None => Steps(z, SettleClaim(z))
  BY <1>2, <1>4, SettleClaimSteps
<1> QED BY <1>3, <1>4, <1>5 DEF Steps

LEMMA MeasureSteps ==
    ASSUME NEW r, Good(r), NEW look \in LooksT
    PROVE  Steps(r, Measure(r, look))
<1> DEFINE z == [r EXCEPT !.fileSubmaps = look.submaps]
<1>1. r \in Registries /\ look.submaps \in 0..MaxSize
  BY DEF Good, LooksT
<1>2. /\ z \in Registries /\ z.unclaimed = r.unclaimed /\ z.places = r.places
      /\ z.minted = r.minted /\ z.live = r.live /\ z.fileLive = r.fileLive /\ z.maps = r.maps
  BY <1>1 DEF Registries
<1>3. Measure(r, look) \in {r, z}
  BY DEF Measure
<1> HIDE DEF z
<1>4. Good(z) /\ \A d \in Nat : Dead(r, d) => Dead(z, d)
  BY <1>2 DEF Good, LiveInv, MintInv, Dead
<1> QED BY <1>3, <1>4 DEF Steps

(* Registry::observe, its four parts one after the other. *)
LEMMA ObserveSteps ==
    ASSUME NEW r, Good(r), NEW look \in LooksT
    PROVE  Steps(r, Observe(r, look))
<1> DEFINE a == IF Reset(r, look) THEN StartedAfresh(r, look.frames, look.map) ELSE r
           b == [a EXCEPT !.watch = {look.epoch}]
           c == FirstLook(b, look)
           d == Confirm(c, look)
<1>1. look.frames \in Nat /\ look.map \in Maps \cup {None} /\ {look.epoch} \subseteq Nat
  BY DEF LooksT
<1>2. Steps(r, a)
  BY <1>1, StartedAfreshSteps DEF Steps
<1> HIDE DEF a
<1>3. a \in Registries
  BY <1>2 DEF Steps, Good
<1>4. /\ b \in Registries /\ b.unclaimed = a.unclaimed /\ b.places = a.places
      /\ b.minted = a.minted /\ b.live = a.live /\ b.fileLive = a.fileLive /\ b.maps = a.maps
  BY <1>1, <1>3 DEF Registries
<1> HIDE DEF b
<1>5. Good(b) /\ \A l \in Nat : Dead(a, l) => Dead(b, l)
  BY <1>2, <1>4 DEF Steps, Good, LiveInv, MintInv, Dead
<1>6. Steps(b, c)
  BY <1>5, FirstLookSteps
<1> HIDE DEF c
<1>7. Steps(c, d)
  BY <1>6, ConfirmSteps DEF Steps
<1> HIDE DEF d
<1>8. Steps(d, Measure(d, look))
  BY <1>7, MeasureSteps DEF Steps
<1>9. Observe(r, look) = Measure(d, look)
  BY DEF Observe, a, b, c, d
<1> QED BY <1>2, <1>5, <1>6, <1>7, <1>8, <1>9 DEF Steps

-----------------------------------------------------------------------------
(* What the tools do to the registry. *)
LEMMA TakeSavesSteps ==
    ASSUME Inv
    PROVE  Steps(reg, TakeSaves(reg))
<1>1. Good(reg) /\ saved \in Names \cup {NoName} /\ library \in [Names -> Library]
  BY DEF Inv, TypeOK, Good
<1>2. CASE saved = NoName
  BY <1>1, <1>2 DEF TakeSaves, Steps
<1>3. CASE saved # NoName
  <2>1. saved \in Names /\ library[saved].map \in Maps \cup {None}
    BY <1>1, <1>3 DEF Library
  <2>2. Steps(reg, SavedAs(reg, saved, library[saved].map))
    BY <1>1, <2>1, SavedAsSteps
  <2> QED BY <1>3, <2>2 DEF TakeSaves
<1> QED BY <1>2, <1>3

LEMMA FoldedSteps ==
    ASSUME Inv, NEW trusted \in BOOLEAN
    PROVE  Steps(reg, Folded(trusted))
<1> DEFINE r == TakeSaves(reg)
           look == TheLook(trusted)
<1>1. Steps(reg, r)
  BY TakeSavesSteps
<1>2. look \in LooksT
  BY DEF Inv, TypeOK, Frames, LooksT, TheLook
<1>3. Folded(trusted) = IF hand = NoFrame THEN r ELSE Observe(r, look)
  BY DEF Folded
<1> HIDE DEF r, look
<1>4. Steps(r, Observe(r, look))
  BY <1>1, <1>2, ObserveSteps DEF Steps
<1> QED BY <1>1, <1>3, <1>4 DEF Steps

LEMMA ToldSteps ==
    ASSUME Inv, tool # Idle
    PROVE  Steps(reg, Told(TakeSaves(reg)))
<1> DEFINE r == TakeSaves(reg)
<1>1. Steps(reg, r) /\ Good(r)
  BY TakeSavesSteps DEF Steps
<1>2. /\ tool \in Tools /\ frames \in Nat
      /\ tool.map \in Maps \cup {None} /\ tool.frames \in Nat
      /\ tool.at \in {"loaded", "wiped", "fresh", "saved"}
      /\ tool.at \in {"loaded", "saved"} => tool.name \in Names
  BY DEF Inv, TypeOK, Tools
<1> HIDE DEF r
<1> SUFFICES Steps(r, Told(r))
  BY <1>1 DEF Steps, r
<1>3. \A n \in Names, at \in Nat, m \in Maps \cup {None} :
         Steps(r, Loaded(r, n, at, m)) /\ Steps(r, SavedAs(r, n, m))
  BY <1>1, LoadedSteps, SavedAsSteps
<1>4. \A at \in Nat, m \in Maps \cup {None} : Steps(r, StartedAfresh(r, at, m))
  BY <1>1, StartedAfreshSteps
<1>5. CASE tool.at = "loaded"
  <2>1. Told(r) = Loaded(r, tool.name, frames, tool.map)
    BY <1>5 DEF Told
  <2> QED BY <1>2, <1>3, <1>5, <2>1
<1>6. CASE tool.at \in {"wiped", "fresh"}
  <2>1. \E at \in Nat : Told(r) = StartedAfresh(r, at, tool.map)
    BY <1>2, <1>6 DEF Told
  <2> QED BY <1>2, <1>4, <2>1
<1>7. CASE tool.at = "saved"
  <2>1. Told(r) = SavedAs(r, tool.name, tool.map)
    BY <1>7 DEF Told
  <2> QED BY <1>2, <1>3, <1>7, <2>1
<1> QED BY <1>2, <1>5, <1>6, <1>7

(* A place taught or forgotten, a wait over and a restart make no lineage  *)
(* live.                                                                   *)
LEMMA PlaceSteps ==
    ASSUME NEW r, Good(r), NEW s \in Spots, NEW l \in {r.live, None}
    PROVE  Steps(r, [r EXCEPT !.places[s] = l])
<1> DEFINE q == [r EXCEPT !.places[s] = l]
<1>1. r \in Registries /\ l \in Nat /\ l \in 0..r.minted
  BY DEF Good, MintInv, Registries, None
<1>2. /\ q \in Registries /\ q.places = [r.places EXCEPT ![s] = l]
      /\ q.minted = r.minted /\ q.live = r.live /\ q.fileLive = r.fileLive
      /\ q.unclaimed = r.unclaimed /\ q.maps = r.maps
  BY <1>1 DEF Registries
<1>3. r.places \in [Spots -> Nat]
  BY <1>1 DEF Registries
<1> HIDE DEF q
<1>4. Good(q)
  BY <1>1, <1>2, <1>3 DEF Good, LiveInv, MintInv
<1>5. \A d \in Nat : Dead(r, d) => Dead(q, d)
  BY <1>2 DEF Dead
<1>6. Steps(r, q)
  BY <1>4, <1>5 DEF Steps
<1> QED BY <1>6 DEF q

LEMMA RereadSteps ==
    ASSUME Good(reg), NEW awaits \in BOOLEAN
    PROVE  Steps(reg, Reread(awaits))
<1> DEFINE q == Reread(awaits)
<1>1. reg \in Registries /\ None \in Nat
  BY DEF Good, None
<1>2. /\ q \in Registries /\ q.places = reg.places
      /\ q.minted = reg.minted /\ q.live = None /\ q.fileLive = reg.fileLive
      /\ q.unclaimed = reg.unclaimed /\ q.maps = reg.maps
  BY <1>1 DEF Registries, Reread
<1>3. reg.minted \in Nat
  BY <1>1 DEF Registries
<1> HIDE DEF q
<1>4. Good(q)
  BY <1>2, <1>3 DEF Good, LiveInv, MintInv, None
<1>5. \A d \in Nat : Dead(reg, d) => Dead(q, d)
  BY <1>2 DEF Dead, None
<1>6. Steps(reg, q)
  BY <1>4, <1>5 DEF Steps
<1> QED BY <1>6 DEF q

LEMMA SettledSteps ==
    ASSUME Good(reg)
    PROVE  Steps(reg, [reg EXCEPT !.awaiting = FALSE])
<1> DEFINE q == [reg EXCEPT !.awaiting = FALSE]
<1>1. reg \in Registries
  BY DEF Good
<1>2. /\ q \in Registries /\ q.places = reg.places
      /\ q.minted = reg.minted /\ q.live = reg.live /\ q.fileLive = reg.fileLive
      /\ q.unclaimed = reg.unclaimed /\ q.maps = reg.maps
  BY <1>1 DEF Registries
<1> HIDE DEF q
<1>3. Steps(reg, q)
  BY <1>2 DEF Steps, Good, LiveInv, MintInv, Dead
<1> QED BY <1>3 DEF q

(* Every step of the system keeps the registry good and the dead dead. *)
LEMMA NextSteps ==
    ASSUME Inv, [Next]_vars
    PROVE  Steps(reg, reg')
<1>1. Good(reg)
  BY DEF Inv, TypeOK, Good
<1>2. Steps(reg, reg)
  BY <1>1 DEF Steps
<1>3. CASE Look
  BY <1>3, FoldedSteps DEF Look, Becomes
<1>4. ASSUME NEW s \in Spots, Remember(s) PROVE Steps(reg, reg')
  <2>1. PICK trusted \in BOOLEAN :
          LET r == Folded(trusted) IN CanTeach(r) /\ Becomes([r EXCEPT !.places[s] = r.live])
    BY <1>4 DEF Remember
  <2> DEFINE r == Folded(trusted)
  <2>2. reg' = [r EXCEPT !.places[s] = r.live]
    BY <2>1 DEF Becomes
  <2>3. Steps(reg, r)
    BY FoldedSteps
  <2> HIDE DEF r
  <2>4. Steps(r, [r EXCEPT !.places[s] = r.live])
    BY <2>3, PlaceSteps DEF Steps
  <2> QED BY <2>2, <2>3, <2>4 DEF Steps
<1>5. ASSUME NEW s \in Spots, Forget(s) PROVE Steps(reg, reg')
  BY <1>1, <1>5, PlaceSteps DEF Forget, Becomes
<1>6. CASE Tell
  BY <1>6, ToldSteps DEF Tell, Becomes
<1>7. CASE HomecomingSays
  <2> DEFINE r == TakeSaves(reg)
  <2>1. Steps(reg, r)
    BY TakeSavesSteps
  <2>2. frames \in Nat /\ map \in Maps \cup {None}
    BY DEF Inv, TypeOK
  <2> HIDE DEF r
  <2>3. Steps(r, StartedAfresh(r, frames, map))
    BY <2>1, <2>2, StartedAfreshSteps DEF Steps
  <2>4. reg' = StartedAfresh(r, frames, map)
    BY <1>7 DEF HomecomingSays, Becomes, r
  <2> QED BY <2>1, <2>3, <2>4 DEF Steps
<1>8. CASE HomecomingSettles
  BY <1>1, <1>8, SettledSteps DEF HomecomingSettles, Becomes
<1>9. CASE Restart
  BY <1>1, <1>9, RereadSteps DEF Restart, Becomes
<1>10. CASE UNCHANGED reg
  BY <1>2, <1>10
<1>11. \/ Look \/ (\E s \in Spots : Remember(s) \/ Forget(s)) \/ Tell
       \/ HomecomingSays \/ HomecomingSettles \/ Restart \/ UNCHANGED reg
  BY DEF Next, LaneStep, ToolStep, JobStep, BootStep, vars, Grow, Draw, Absorb, StartsOver,
         LoadCall, SaveCall, WipeCall, SessionSaves, SessionNotes, HomecomingWipes
<1> QED BY <1>3, <1>4, <1>5, <1>6, <1>7, <1>8, <1>9, <1>10, <1>11

-----------------------------------------------------------------------------
(* The registries a run of the daemon may begin with. *)
LEMMA InitGood == Init => Good(reg) /\ reg.minted <= MaxLineages
<1> SUFFICES ASSUME Init PROVE Good(reg) /\ reg.minted <= MaxLineages
  OBVIOUS
<1>1. /\ 0 \in 0..MaxSize /\ MaxSize \in 0..MaxSize /\ None \in Nat
      /\ MaxLineages \in Nat /\ 1 <= MaxLineages /\ 1 \in Maps \cup {None}
  BY BoundsAssumption DEF None, Maps
<1>2. /\ NewRegistry \in Registries /\ NewRegistry.minted = 0 /\ NewRegistry.live = None
      /\ NewRegistry.fileLive = None /\ NewRegistry.unclaimed = None
      /\ \A n \in Names : NewRegistry.maps[n] = None
      /\ \A s \in Spots : NewRegistry.places[s] = None
  BY <1>1 DEF NewRegistry, Registries
<1>3. Good(NewRegistry)
  BY <1>2 DEF Good, LiveInv, MintInv, None
<1> DEFINE q == Mint(NewRegistry, 1)
<1>4. Good(q) /\ q.minted = 1
  BY <1>1, <1>2, <1>3, MintSteps DEF Steps
<1>5. /\ q \in Registries /\ q.live = None
      /\ \A n \in Names : q.maps[n] = None
  BY <1>2, <1>4 DEF Good, Mint, Registries
<1>6. Migrated = [q EXCEPT !.fileLive = 1, !.fileSubmaps = MaxSize, !.unclaimed = 1,
                           !.places = [s \in Spots |-> 1]]
  BY DEF Migrated
<1> HIDE DEF q
<1>7. /\ Migrated \in Registries /\ Migrated.minted = 1 /\ Migrated.live = None
      /\ Migrated.fileLive = 1 /\ Migrated.unclaimed = 1
      /\ \A n \in Names : Migrated.maps[n] = None
      /\ \A s \in Spots : Migrated.places[s] = 1
  BY <1>1, <1>4, <1>5, <1>6 DEF Registries
<1>8. Good(Migrated)
  BY <1>7 DEF Good, LiveInv, MintInv, None
<1>9. ASSUME NEW n \in Names PROVE Good(Kept(n)) /\ Kept(n).minted = 1 /\ Kept(n).live = None
  <2> DEFINE k == Kept(n)
  <2>1. /\ k \in Registries /\ k.minted = 1 /\ k.live = None
        /\ k.fileLive = 1 /\ k.unclaimed = None
        /\ k.places = Migrated.places /\ k.maps = [Migrated.maps EXCEPT ![n] = 1]
    BY <1>1, <1>7 DEF Registries, Kept
  <2>2. Migrated.maps \in [Names -> Nat]
    BY <1>7 DEF Registries
  <2> HIDE DEF k
  <2>3. \A x \in Names : k.maps[x] \in {None, 1}
    BY <1>7, <2>1, <2>2
  <2>4. Good(k)
    BY <1>7, <2>1, <2>3 DEF Good, LiveInv, MintInv, None
  <2> QED BY <2>1, <2>4 DEF k
<1>10. ASSUME NEW r, Good(r), r.minted = 1
       PROVE  Good([r EXCEPT !.awaiting = TRUE]) /\ [r EXCEPT !.awaiting = TRUE].minted = 1
  <2> DEFINE w == [r EXCEPT !.awaiting = TRUE]
  <2>1. /\ w \in Registries /\ w.minted = 1 /\ w.live = r.live /\ w.fileLive = r.fileLive
        /\ w.unclaimed = r.unclaimed /\ w.maps = r.maps /\ w.places = r.places
    BY <1>10 DEF Good, Registries
  <2> HIDE DEF w
  <2>2. Good(w)
    BY <1>10, <2>1 DEF Good, LiveInv, MintInv
  <2> QED BY <2>1, <2>2 DEF w
<1>11. CASE reg = NewRegistry
  BY <1>1, <1>2, <1>3, <1>11
<1>12. ASSUME NEW n \in Names, NEW r \in {Migrated, Kept(n)},
              reg = r \/ reg = [r EXCEPT !.awaiting = TRUE]
       PROVE  Good(reg) /\ reg.minted <= MaxLineages
  <2>1. Good(r) /\ r.minted = 1
    BY <1>7, <1>8, <1>9
  <2>2. Good(reg) /\ reg.minted = 1
    BY <1>10, <1>12, <2>1
  <2> QED BY <1>1, <2>2
<1> QED BY <1>11, <1>12 DEF Init

LEMMA InitInv == Init => Inv
<1> SUFFICES ASSUME Init PROVE Inv
  OBVIOUS
<1>1. Good(reg) /\ reg.minted <= MaxLineages
  BY InitGood
<1>2. 0 \in 0..MaxSize /\ 1 \in 0..MaxSize /\ MaxSize \in 0..MaxSize /\ 1 \in Maps
  BY BoundsAssumption DEF Maps
<1>3. (\A n \in Names, m \in Maps : OneSaved(n, m) \in [Names -> Library])
      /\ [n \in Names |-> [map |-> None, size |-> 0]] \in [Names -> Library]
  BY <1>2 DEF OneSaved, Library
<1>4. library \in [Names -> Library]
  BY <1>2, <1>3 DEF Init
<1>5. map \in Maps /\ size \in 0..MaxSize
  BY <1>2, BoundsAssumption DEF Init, Maps
<1>6. NoFrame \in Frames
  BY <1>2 DEF NoFrame, Frames
<1>7. tool \in Tools
  BY DEF Init, Tools
<1>8. TypeOK
  <2>1. newborn \in BOOLEAN /\ begun \in Maps /\ unfolded \in BOOLEAN
    BY <1>5 DEF Init
  <2>2. {frames, epoch, epochFrames} \subseteq Nat /\ restarts \in Nat
    BY DEF Init
  <2>3. {pipe, hand} \subseteq Frames /\ {jobSaves, saved} \subseteq Names \cup {NoName}
    BY <1>6 DEF Init
  <2>4. boot \in {"off", "on", "wiped", "said"}
    BY DEF Init
  <2> QED BY <1>1, <1>4, <1>5, <1>7, <2>1, <2>2, <2>3, <2>4 DEF TypeOK, Good
<1> QED BY <1>1, <1>8 DEF Inv, Good

(* Each action keeps its own variables of their type. *)
LEMMA MapperTypes ==
    ASSUME TypeOK
    PROVE  /\ StartAfresh => /\ map' \in Maps /\ size' \in 0..MaxSize /\ newborn' \in BOOLEAN
                             /\ begun' \in Maps /\ library' = library
           /\ \A n \in Names : SaveLive(n) =>
                /\ library' \in [Names -> Library]
                /\ map' = map /\ size' = size /\ newborn' = newborn /\ begun' = begun
<1>1. StartAfresh => /\ map' \in Maps /\ size' \in 0..MaxSize /\ newborn' \in BOOLEAN
                     /\ begun' \in Maps /\ library' = library
  BY BoundsAssumption DEF TypeOK, StartAfresh, TakesUp, Maps
<1>2. ASSUME NEW n \in Names, SaveLive(n)
      PROVE  /\ library' \in [Names -> Library]
             /\ map' = map /\ size' = size /\ newborn' = newborn /\ begun' = begun
  <2>1. [map |-> map, size |-> size] \in Library
    BY DEF TypeOK, Library
  <2> QED BY <1>2, <2>1 DEF SaveLive, TypeOK
<1> QED BY <1>1, <1>2

LEMMA TypeStep ==
    ASSUME Inv, [Next]_vars
    PROVE  TypeOK'
<1>1. TypeOK /\ reg' \in Registries /\ reg \in Registries
  BY NextSteps DEF Inv, TypeOK, Steps, Good
<1>2. CASE Grow
  BY <1>1, <1>2, BoundsAssumption DEF TypeOK, Grow, lane, saves
<1>3. CASE Draw
  <2>1. [map |-> map, size |-> size, new |-> newborn] \in Frames
    BY <1>1 DEF TypeOK, Frames
  <2> QED BY <1>1, <1>3, <2>1 DEF TypeOK, Draw, saves
<1>4. CASE Absorb
  <2>1. hand' \in Frames /\ pipe' \in Frames
    <3>1. NoFrame \in Frames
      BY BoundsAssumption DEF NoFrame, Frames
    <3>2. pipe \in Frames /\ [pipe EXCEPT !.new = FALSE] \in Frames
      BY <1>1 DEF TypeOK, Frames
    <3> QED BY <1>4, <3>1, <3>2 DEF Absorb
  <2>2. {frames', epoch', epochFrames'} \subseteq Nat
    BY <1>1, <1>4 DEF TypeOK, Absorb
  <2> QED BY <1>1, <1>4, <2>1, <2>2 DEF TypeOK, Absorb, mapper, saves
<1>5. CASE StartsOver
  BY <1>1, <1>5, MapperTypes DEF TypeOK, StartsOver, lane, saves
<1>6. CASE Looks
  BY <1>1, <1>6 DEF TypeOK, Looks, mapper, lane
<1>7. ASSUME NEW s \in Spots, Forget(s) PROVE TypeOK'
  BY <1>1, <1>7 DEF TypeOK, Forget, mapper, lane, saves
<1>8. ASSUME NEW n \in Names, LoadCall(n) PROVE TypeOK'
  <2>1. library[n].map \in Maps /\ library[n].size \in 0..MaxSize
    BY <1>1, <1>8 DEF TypeOK, LoadCall, Library, None
  <2>2. tool' \in Tools
    BY <1>8, <2>1 DEF LoadCall, Call, Tools
  <2>3. map' \in Maps /\ size' \in 0..MaxSize /\ newborn' = TRUE
    BY <1>8, <2>1 DEF LoadCall, TakesUp
  <2> QED BY <1>1, <1>8, <2>2, <2>3 DEF TypeOK, LoadCall, lane, saves
<1>9. ASSUME NEW at \in {"wiped", "fresh"}, WipeCall(at) PROVE TypeOK'
  <2>1. tool' \in Tools
    <3>1. begun + 1 \in Maps /\ frames \in Nat
      BY <1>1, <1>9, BoundsAssumption DEF TypeOK, WipeCall, StartAfresh, Maps
    <3> QED BY <1>9, <3>1 DEF WipeCall, Call, Tools
  <2> QED BY <1>1, <1>9, <2>1, MapperTypes DEF TypeOK, WipeCall, lane, saves
<1>10. ASSUME NEW n \in Names, SaveCall(n) PROVE TypeOK'
  <2>1. tool' \in Tools
    BY <1>1, <1>10 DEF TypeOK, SaveCall, Call, Tools
  <2> QED BY <1>1, <1>10, <2>1, MapperTypes DEF TypeOK, SaveCall, lane, saves
<1>11. CASE Tell
  BY <1>1, <1>11 DEF TypeOK, Tell, Tools, mapper, lane
<1>12. ASSUME NEW n \in Names, SessionSaves(n) PROVE TypeOK'
  BY <1>1, <1>12, MapperTypes DEF TypeOK, SessionSaves, lane
<1>13. CASE SessionNotes
  BY <1>1, <1>13 DEF TypeOK, SessionNotes, mapper, lane
<1>14. CASE HomecomingWipes
  BY <1>1, <1>14, MapperTypes DEF TypeOK, HomecomingWipes, lane, saves
<1>15. CASE HomecomingSays
  BY <1>1, <1>15 DEF TypeOK, HomecomingSays, mapper, lane
<1>16. CASE HomecomingSettles
  BY <1>1, <1>16 DEF TypeOK, HomecomingSettles, mapper, lane, saves
<1>17. CASE Restart
  <2>1. NoFrame \in Frames /\ Idle \in Tools
    BY BoundsAssumption DEF NoFrame, Frames, Tools
  <2>2. /\ map' \in Maps /\ size' \in 0..MaxSize /\ newborn' \in BOOLEAN
        /\ begun' \in Maps /\ library' \in [Names -> Library]
    BY <1>1, <1>17, MapperTypes DEF TypeOK, Restart, mapper
  <2>3. restarts' \in Nat /\ boot' \in {"off", "on", "wiped", "said"}
    BY <1>1, <1>17 DEF TypeOK, Restart
  <2>4. pipe' \in Frames /\ hand' \in Frames /\ tool' \in Tools
    BY <1>17, <2>1 DEF Restart
  <2>5. {frames', epoch', epochFrames'} \subseteq Nat
    BY <1>17 DEF Restart
  <2>6. jobSaves' = NoName /\ saved' = NoName /\ unfolded' = FALSE
    BY <1>17 DEF Restart
  <2> QED BY <1>1, <2>2, <2>3, <2>4, <2>5, <2>6 DEF TypeOK
<1>18. CASE UNCHANGED vars
  BY <1>1, <1>18 DEF TypeOK, vars, mapper, lane, saves
<1> QED
  BY <1>2, <1>3, <1>4, <1>5, <1>6, <1>7, <1>8, <1>9, <1>10, <1>11, <1>12, <1>13, <1>14,
     <1>15, <1>16, <1>17, <1>18
  DEF Next, LaneStep, ToolStep, JobStep, BootStep, Look, Remember

LEMMA MintedStep ==
    ASSUME Inv, [Next]_vars
    PROVE  reg'.minted <= MaxLineages
<1>1. reg' = reg \/ reg'.minted <= MaxLineages
  BY DEF Next, LaneStep, ToolStep, JobStep, BootStep, vars, Grow, Draw, Absorb, StartsOver,
         LoadCall, SaveCall, WipeCall, SessionSaves, SessionNotes, HomecomingWipes,
         Look, Remember, Forget, Tell, HomecomingSays, HomecomingSettles, Restart, Becomes
<1> QED BY <1>1 DEF Inv

(* The registry is of its type, its live map is the one the file says, and *)
(* no lineage still to be minted is anybody's.                             *)
THEOREM Invariance == Spec => []Inv
<1>1. Init => Inv
  BY InitInv
<1>2. Inv /\ [Next]_vars => Inv'
  BY NextSteps, TypeStep, MintedStep DEF Inv, Steps, Good, LiveInv, MintInv
<1> QED BY <1>1, <1>2, PTL DEF Spec

-----------------------------------------------------------------------------
(* A stale place is one whose lineage is dead. *)
LEMMA StaleIsDead ==
    ASSUME NEW r, Good(r), NEW s \in Spots
    PROVE  Stale(r, s) <=> Dead(r, r.places[s])
<1> DEFINE l == r.places[s]
<1>1. /\ r \in Registries /\ l \in 0..r.minted /\ l \in Nat
      /\ r.live # None => r.fileLive = r.live
  BY DEF Good, LiveInv, MintInv, Registries
<1> DEFINE kept  == \E n \in Names : r.maps[n] = l
           waits == (r.live = None \/ r.awaiting) /\ (kept \/ l = r.fileLive)
<1>2. State(r, s) = "stale" <=> l # r.live /\ ~waits /\ l # r.unclaimed /\ ~kept
  BY DEF State
<1>3. l # None /\ l # r.live /\ ~waits /\ l # r.unclaimed /\ ~kept
        <=> l # None /\ l \notin {r.live, r.fileLive, r.unclaimed} /\ ~kept
  BY <1>1
<1>4. l # None <=> l \in 1..r.minted
  BY <1>1 DEF None, Registries
<1> QED BY <1>2, <1>3, <1>4 DEF Stale, Dead

(* A stale place stays stale until it is taught again, through loads,      *)
(* saves, resets, restarts and claims, whatever the registry is not told.  *)
THEOREM StaleIsFinalHolds == Spec => StaleIsFinal
<1> DEFINE P == \A s \in Spots :
                  Stale(reg, s) /\ reg'.places[s] = reg.places[s] => Stale(reg', s)
<1>1. Inv /\ [Next]_vars => P
  <2> SUFFICES ASSUME Inv, [Next]_vars, NEW s \in Spots,
                      Stale(reg, s), reg'.places[s] = reg.places[s]
               PROVE  Stale(reg', s)
    OBVIOUS
  <2>1. Good(reg) /\ Steps(reg, reg')
    BY NextSteps DEF Inv, TypeOK, Good
  <2>2. Dead(reg, reg.places[s]) /\ reg.places[s] \in Nat
    BY <2>1, StaleIsDead DEF Good, Registries
  <2>3. Good(reg') /\ Dead(reg', reg'.places[s])
    BY <2>1, <2>2 DEF Steps
  <2> QED BY <2>3, StaleIsDead
<1> QED BY <1>1, Invariance, PTL DEF Spec, StaleIsFinal

-----------------------------------------------------------------------------
(* Which map a lineage was minted for does not change, and what is minted    *)
(* is minted for the map it is said to be.                                   *)
Within(r) == r.minted <= MaxLineages

OfKept(r, q) ==
  /\ r.minted \in Nat /\ q.minted \in Nat /\ r.minted <= q.minted
  /\ Within(q) => \A l \in 1 .. r.minted : q.of[l] = r.of[l]

LEMMA OfKeptTwice ==
  ASSUME NEW r, NEW q, NEW z, OfKept(r, q), OfKept(q, z)
  PROVE  OfKept(r, z)
BY BoundsAssumption DEF OfKept, Within

LEMMA MintOf ==
  ASSUME NEW r, Good(r), NEW m \in Maps \cup {None}
  PROVE  LET q == Mint(r, m)
         IN  /\ Good(q) /\ OfKept(r, q) /\ NextOf(r) \in 1 .. q.minted /\ NextOf(r) # None
             /\ Within(q) => q.of[NextOf(r)] = m
             /\ q.live = r.live /\ q.maps = r.maps /\ q.asked = r.asked /\ q.watch = r.watch
             /\ q.confirmed = r.confirmed /\ q.fileLive = r.fileLive /\ q.unclaimed = r.unclaimed
             /\ q.awaiting = r.awaiting
<1> DEFINE q == Mint(r, m)
<1>1. r \in Registries /\ r.minted \in Nat /\ r.of \in [Lineages -> Maps \cup {None}]
  BY DEF Good, Registries
<1>2. /\ q.minted = r.minted + 1 /\ q.of = [r.of EXCEPT ![NextOf(r)] = m]
      /\ q.live = r.live /\ q.maps = r.maps /\ q.asked = r.asked /\ q.watch = r.watch
      /\ q.confirmed = r.confirmed /\ q.fileLive = r.fileLive /\ q.unclaimed = r.unclaimed
      /\ q.awaiting = r.awaiting
  BY <1>1 DEF Registries, Mint, NextOf
<1>3. Good(q) /\ NextOf(r) \in 1 .. q.minted
  BY MintSteps DEF Steps
<1> HIDE DEF q
<1>4. NextOf(r) = r.minted + 1
  BY DEF NextOf
<1>5. Within(q) => NextOf(r) \in Lineages
  BY <1>1, <1>2, <1>4, BoundsAssumption DEF Within, Lineages
<1>6. Within(q) => q.of[NextOf(r)] = m
  BY <1>1, <1>2, <1>5
<1>7. OfKept(r, q)
  BY <1>1, <1>2, <1>4 DEF OfKept
<1>8. NextOf(r) # None
  BY <1>1, <1>4 DEF None
<1> QED BY <1>2, <1>3, <1>6, <1>7, <1>8 DEF q

GoesLive(r, l, at, q) ==
  /\ OfKept(r, q) /\ q.of = r.of /\ q.minted = r.minted
  /\ q.live = l /\ q.maps = r.maps /\ q.asked = {at} /\ q.watch = r.watch
  /\ q.confirmed = FALSE

LEMMA GoLiveOf ==
  ASSUME NEW r, Good(r), NEW l \in 1 .. r.minted, NEW n \in Names \cup {NoName}, NEW at \in Nat
  PROVE  GoesLive(r, l, at, GoLive(r, l, n, at))
<1> DEFINE q == GoLive(r, l, n, at)
<1>1. r \in Registries /\ r.minted \in Nat
  BY DEF Good, Registries
<1>2. /\ q.of = r.of /\ q.minted = r.minted
      /\ q.live = l /\ q.maps = r.maps /\ q.asked = {at} /\ q.watch = r.watch
      /\ q.confirmed = FALSE
  BY <1>1 DEF Registries, GoLive
<1> HIDE DEF q
<1>3. OfKept(r, q)
  BY <1>1, <1>2 DEF OfKept
<1> QED BY <1>2, <1>3 DEF q, GoesLive

(* Registry::started_afresh. *)
StartsAfreshFor(r, at, m, q) ==
  /\ Good(q) /\ OfKept(r, q) /\ q.live # None /\ q.live \in 1 .. q.minted
  /\ Within(q) => q.of[q.live] = m
  /\ q.maps = r.maps /\ q.asked = {at} /\ q.watch = r.watch /\ q.confirmed = FALSE

LEMMA StartedAfreshOf ==
  ASSUME NEW r, Good(r), NEW at \in Nat, NEW m \in Maps \cup {None}
  PROVE  StartsAfreshFor(r, at, m, StartedAfresh(r, at, m))
<1> DEFINE k == Mint(r, m)
           z == [k EXCEPT !.claim = NoName]
           q == GoLive(z, NextOf(r), NoName, at)
<1>1. StartedAfresh(r, at, m) = q
  BY DEF StartedAfresh
<1>2. /\ Good(k) /\ OfKept(r, k) /\ NextOf(r) \in 1 .. k.minted /\ NextOf(r) # None
      /\ Within(k) => k.of[NextOf(r)] = m
      /\ k.maps = r.maps /\ k.watch = r.watch
  BY MintOf
<1> HIDE DEF k
<1>3. k \in Registries
  BY <1>2 DEF Good
<1>4. /\ z \in Registries /\ z.minted = k.minted /\ z.live = k.live /\ z.fileLive = k.fileLive
      /\ z.unclaimed = k.unclaimed /\ z.places = k.places /\ z.maps = k.maps
      /\ z.of = k.of /\ z.watch = k.watch
  BY <1>3 DEF Registries
<1> HIDE DEF z
<1>5. Good(z)
  BY <1>2, <1>4 DEF Good, LiveInv, MintInv
<1>6. NextOf(r) \in 1 .. z.minted /\ NoName \in Names \cup {NoName}
  BY <1>2, <1>4
<1>7. /\ q.of = z.of /\ q.minted = z.minted /\ q.live = NextOf(r) /\ q.maps = z.maps
      /\ q.asked = {at} /\ q.watch = z.watch /\ q.confirmed = FALSE
  <2>1. GoesLive(z, NextOf(r), at, q)
    BY <1>5, <1>6, GoLiveOf
  <2> QED BY <2>1 DEF GoesLive
<1>8. Good(StartedAfresh(r, at, m))
  BY StartedAfreshSteps DEF Steps
<1> HIDE DEF q
<1>9. OfKept(r, q) /\ (Within(q) => q.of[q.live] = m)
  BY <1>2, <1>4, <1>7 DEF OfKept, Within
<1> QED BY <1>1, <1>2, <1>4, <1>7, <1>8, <1>9 DEF StartsAfreshFor

(* Registry::loaded: the name's lineage, or one minted for the map loaded.   *)
Loads(r, n, at, m, q) ==
  /\ Good(q) /\ OfKept(r, q) /\ q.live = q.maps[n] /\ q.live # None
  /\ \A x \in Names : x # n => q.maps[x] = r.maps[x]
  /\ r.maps[n] # None => q.maps[n] = r.maps[n]
  /\ r.maps[n] = None /\ Within(q) => q.of[q.live] = m
  /\ q.asked = {at} /\ q.confirmed = FALSE

LEMMA LoadedOf ==
  ASSUME NEW r, Good(r), NEW n \in Names, NEW at \in Nat, NEW m \in Maps \cup {None}
  PROVE  Loads(r, n, at, m, Loaded(r, n, at, m))
<1> DEFINE k == Mint(r, m)
           z == [k EXCEPT !.maps[n] = NextOf(r)]
           seen == IF r.maps[n] # None THEN r ELSE z
           c == IF r.unclaimed # None /\ ~ClaimedBefore(seen, n) THEN n ELSE NoName
           claimed == [seen EXCEPT !.claim = c]
           q == GoLive(claimed, seen.maps[n], n, at)
<1>1. Loaded(r, n, at, m) = q
  BY DEF Loaded
<1>2. r \in Registries /\ r.maps \in [Names -> Nat] /\ r.minted \in Nat
  BY DEF Good, Registries
<1>3. /\ Good(k) /\ OfKept(r, k) /\ NextOf(r) \in 1 .. k.minted /\ NextOf(r) # None
      /\ Within(k) => k.of[NextOf(r)] = m
      /\ k.maps = r.maps
  BY MintOf
<1> HIDE DEF k
<1>4. k \in Registries /\ NextOf(r) \in Nat
  BY <1>2, <1>3 DEF Good, NextOf
<1>5. /\ z \in Registries /\ z.minted = k.minted /\ z.live = k.live /\ z.fileLive = k.fileLive
      /\ z.unclaimed = k.unclaimed /\ z.places = k.places /\ z.maps = [k.maps EXCEPT ![n] = NextOf(r)]
      /\ z.of = k.of
  BY <1>4 DEF Registries
<1> HIDE DEF z
<1>6. /\ z.maps[n] = NextOf(r) /\ \A x \in Names : x # n => z.maps[x] = r.maps[x]
  BY <1>2, <1>3, <1>5
<1>7. Good(z)
  <2>1. LiveInv(z)
    BY <1>3, <1>5 DEF Good, LiveInv
  <2>2. NextOf(r) \in 0 .. k.minted
    BY <1>3, <1>4 DEF Good
  <2>3. \A x \in Names : z.maps[x] \in 0 .. z.minted
    BY <1>3, <1>5, <1>6, <2>2 DEF Good, MintInv
  <2>4. MintInv(z)
    BY <1>3, <1>5, <2>3 DEF Good, MintInv
  <2> QED BY <1>5, <2>1, <2>4 DEF Good
<1>8. OfKept(r, z)
  BY <1>3, <1>5 DEF OfKept, Within
<1>9. /\ Good(seen) /\ OfKept(r, seen) /\ seen.maps[n] \in 1 .. seen.minted /\ seen.maps[n] # None
      /\ \A x \in Names : x # n => seen.maps[x] = r.maps[x]
      /\ r.maps[n] # None => seen.maps[n] = r.maps[n]
      /\ r.maps[n] = None /\ Within(seen) => seen.of[seen.maps[n]] = m
  <2>1. CASE r.maps[n] # None
    <3>1. r.maps[n] \in 1 .. r.minted
      BY <1>2, <2>1 DEF Good, MintInv, None
    <3>2. OfKept(r, r)
      BY <1>2 DEF OfKept
    <3> QED BY <2>1, <3>1, <3>2
  <2>2. CASE r.maps[n] = None
    BY <1>3, <1>5, <1>6, <1>7, <1>8, <2>2 DEF Within
  <2> QED BY <2>1, <2>2
<1> HIDE DEF seen
<1>10. seen \in Registries /\ c \in Names \cup {NoName}
  BY <1>9 DEF Good
<1>11. /\ claimed \in Registries /\ claimed.minted = seen.minted /\ claimed.live = seen.live
       /\ claimed.fileLive = seen.fileLive /\ claimed.unclaimed = seen.unclaimed
       /\ claimed.places = seen.places /\ claimed.maps = seen.maps /\ claimed.of = seen.of
  <2> HIDE DEF c
  <2> QED BY <1>10 DEF Registries
<1> HIDE DEF claimed
<1>12. Good(claimed) /\ seen.maps[n] \in 1 .. claimed.minted
  BY <1>9, <1>11 DEF Good, LiveInv, MintInv
<1>13. /\ q.of = claimed.of /\ q.minted = claimed.minted /\ q.live = seen.maps[n]
       /\ q.maps = claimed.maps /\ q.asked = {at} /\ q.confirmed = FALSE
  <2>1. GoesLive(claimed, seen.maps[n], at, q)
    BY <1>12, GoLiveOf
  <2> QED BY <2>1 DEF GoesLive
<1>14. Good(Loaded(r, n, at, m))
  BY LoadedSteps DEF Steps
<1> HIDE DEF q
<1>15. OfKept(r, q) /\ (r.maps[n] = None /\ Within(q) => q.of[q.live] = m)
  BY <1>9, <1>11, <1>13 DEF OfKept, Within
<1> QED BY <1>1, <1>9, <1>11, <1>13, <1>14, <1>15 DEF Loads

(* Registry::saved_as: the name's lineage is the live one, minted for the    *)
(* map saved where there was none.                                           *)
SavesAs(r, n, m, q) ==
  /\ Good(q) /\ OfKept(r, q) /\ q.live # None /\ q.maps = [r.maps EXCEPT ![n] = q.live]
  /\ q.watch = r.watch
  /\ r.live # None => q.live = r.live /\ q.asked = r.asked /\ q.confirmed = r.confirmed
  /\ r.live = None => /\ q.asked = {AskedAt(r)} /\ q.confirmed = FALSE
                      /\ Within(q) => q.of[q.live] = m

LEMMA SavedAsOf ==
  ASSUME NEW r, Good(r), NEW n \in Names, NEW m \in Maps \cup {None}
  PROVE  SavesAs(r, n, m, SavedAs(r, n, m))
<1> DEFINE k == Mint(r, m)
           g == GoLive(k, NextOf(r), NoName, AskedAt(r))
           known == IF r.live # None THEN r ELSE g
           z == [known EXCEPT !.maps[n] = known.live, !.fileName = n,
                              !.unclaimed = IF @ = known.live THEN None ELSE @]
<1>1. SavedAs(r, n, m) = z
  BY DEF SavedAs
<1>2. r \in Registries /\ r.minted \in Nat /\ AskedAt(r) \in Nat
  BY DEF Good, Registries, AskedAt
<1>3. OfKept(r, r)
  BY <1>2 DEF OfKept
<1>4. /\ Good(k) /\ OfKept(r, k) /\ NextOf(r) \in 1 .. k.minted /\ NextOf(r) # None
      /\ Within(k) => k.of[NextOf(r)] = m
      /\ k.maps = r.maps /\ k.watch = r.watch
  BY MintOf
<1>5. NoName \in Names \cup {NoName}
  OBVIOUS
<1> HIDE DEF k
<1>6. GoesLive(k, NextOf(r), AskedAt(r), g) /\ Good(g)
  BY <1>2, <1>4, <1>5, GoLiveOf, GoLiveSteps
<1> HIDE DEF g
<1>7. OfKept(r, g) /\ (Within(g) => g.of[g.live] = m)
  BY <1>4, <1>6 DEF GoesLive, OfKept, Within
<1>8. /\ Good(known) /\ OfKept(r, known) /\ known.live # None /\ known.maps = r.maps
      /\ known.watch = r.watch
      /\ r.live # None => known.live = r.live /\ known.asked = r.asked /\ known.confirmed = r.confirmed
      /\ r.live = None => /\ known.asked = {AskedAt(r)} /\ known.confirmed = FALSE
                          /\ Within(known) => known.of[known.live] = m
  <2>1. CASE r.live # None
    BY <1>3, <2>1
  <2>2. CASE r.live = None
    BY <1>4, <1>6, <1>7, <2>2 DEF GoesLive
  <2> QED BY <2>1, <2>2
<1> HIDE DEF known
<1>9. known \in Registries /\ known.live \in Nat /\ None \in Nat
  BY <1>8 DEF Good, Registries, None
<1>10. /\ z.maps = [known.maps EXCEPT ![n] = known.live] /\ z.live = known.live /\ z.watch = known.watch
       /\ z.asked = known.asked /\ z.confirmed = known.confirmed /\ z.minted = known.minted
       /\ z.of = known.of
  BY <1>9 DEF Registries
<1>11. Good(z)
  BY <1>1, SavedAsSteps DEF Steps
<1> HIDE DEF z
<1>12. OfKept(r, z) /\ (Within(z) <=> Within(known))
  BY <1>8, <1>10 DEF OfKept, Within
<1>13. SavesAs(r, n, m, z)
  BY <1>8, <1>10, <1>11, <1>12 DEF SavesAs
<1> QED BY <1>1, <1>13

-----------------------------------------------------------------------------
(* Registry::observe: what a look changes of the live lineage.               *)
Asks(r, look) == \A at \in r.asked : look.frames > at + 1

(* A reset mints for the map of the frame; a first look takes the file's     *)
(* map or mints for the frame's; any other keeps the live map.               *)
Observed(r, look, q) ==
  /\ Good(q) /\ OfKept(r, q) /\ q.maps = r.maps /\ q.watch = {look.epoch}
  /\ Reset(r, look) =>
       /\ q.live # None /\ q.asked = {look.frames} /\ q.confirmed = FALSE
       /\ Within(q) => q.of[q.live] = look.map
  /\ ~Reset(r, look) =>
       /\ q.asked = r.asked
       /\ q.confirmed = TRUE => Asks(r, look) \/ r.confirmed = TRUE
       /\ q.live = None => q.confirmed = r.confirmed
       /\ \/ q.live = r.live /\ (r.live = None => r.awaiting = TRUE)
          \/ /\ r.live = None /\ r.awaiting = FALSE /\ q.live # None
             /\ \/ Within(q) => q.of[q.live] = look.map
                \/ r.fileLive # None /\ look.submaps >= r.fileSubmaps /\ q.live = r.fileLive

LEMMA SettleClaimOf ==
  ASSUME NEW r, Good(r)
  PROVE  LET q == SettleClaim(r)
         IN  /\ q.live = r.live /\ q.maps = r.maps /\ q.asked = r.asked /\ q.confirmed = r.confirmed
             /\ q.watch = r.watch /\ q.of = r.of /\ q.minted = r.minted
<1> DEFINE moved == [s \in Spots |-> IF r.places[s] = r.unclaimed THEN r.live ELSE r.places[s]]
           z1 == [r EXCEPT !.unclaimed = None, !.claim = NoName]
           z2 == [r EXCEPT !.claim = NoName]
           z3 == [r EXCEPT !.claim = NoName, !.unclaimed = None, !.places = moved]
           Same(q) == /\ q.live = r.live /\ q.maps = r.maps /\ q.asked = r.asked /\ q.confirmed = r.confirmed
                      /\ q.watch = r.watch /\ q.of = r.of /\ q.minted = r.minted
<1>1. r \in Registries
  BY DEF Good
<1>2. SettleClaim(r) \in {r, z1, z2, z3}
  BY DEF SettleClaim
<1> HIDE DEF moved
<1>3. Same(z1) /\ Same(z2) /\ Same(z3) /\ Same(r)
  BY <1>1 DEF Registries
<1> QED BY <1>2, <1>3

ConfirmsOnly(r, look, q) ==
  /\ Good(q) /\ OfKept(r, q) /\ q.minted = r.minted /\ q.of = r.of
  /\ q.live = r.live /\ q.maps = r.maps /\ q.asked = r.asked /\ q.watch = r.watch
  /\ q.confirmed = r.confirmed \/ (q.confirmed = TRUE /\ r.live # None /\ Asks(r, look))

LEMMA ConfirmOf ==
  ASSUME NEW r, Good(r), NEW look \in LooksT
  PROVE  ConfirmsOnly(r, look, Measure(Confirm(r, look), look))
<1> DEFINE z == [r EXCEPT !.confirmed = TRUE]
           d == Confirm(r, look)
           w == [d EXCEPT !.fileSubmaps = look.submaps]
<1>1. r \in Registries /\ r.minted \in Nat
  BY DEF Good, Registries
<1>2. /\ z \in Registries /\ z.unclaimed = r.unclaimed /\ z.places = r.places
      /\ z.minted = r.minted /\ z.live = r.live /\ z.fileLive = r.fileLive /\ z.maps = r.maps
      /\ z.of = r.of /\ z.asked = r.asked /\ z.watch = r.watch /\ z.confirmed = TRUE
  BY <1>1 DEF Registries
<1>3. d = r \/ (r.live # None /\ Asks(r, look) /\ d = SettleClaim(z))
  BY DEF Confirm, Asks
<1> HIDE DEF z
<1>4. Good(z)
  BY <1>2 DEF Good, LiveInv, MintInv
<1>5. /\ d.live = r.live /\ d.maps = r.maps /\ d.asked = r.asked /\ d.watch = r.watch
      /\ d.of = r.of /\ d.minted = r.minted
      /\ d.confirmed = r.confirmed \/ (d.confirmed = TRUE /\ r.live # None /\ Asks(r, look))
  BY <1>2, <1>3, <1>4, SettleClaimOf
<1>6. Good(d)
  BY ConfirmSteps DEF Steps
<1> HIDE DEF d
<1>7. d \in Registries
  BY <1>6 DEF Good
<1>8. /\ w.live = d.live /\ w.maps = d.maps /\ w.asked = d.asked /\ w.watch = d.watch
      /\ w.of = d.of /\ w.minted = d.minted /\ w.confirmed = d.confirmed
  BY <1>7 DEF Registries
<1>9. Measure(d, look) \in {d, w}
  BY DEF Measure
<1> HIDE DEF w
<1>10. Good(Measure(d, look))
  BY <1>6, MeasureSteps DEF Steps
<1> DEFINE q == Measure(d, look)
<1>11. /\ q.live = r.live /\ q.maps = r.maps /\ q.asked = r.asked /\ q.watch = r.watch
       /\ q.of = r.of /\ q.minted = r.minted
       /\ q.confirmed = r.confirmed \/ (q.confirmed = TRUE /\ r.live # None /\ Asks(r, look))
  BY <1>5, <1>8, <1>9
<1> HIDE DEF q
<1>12. OfKept(r, q)
  BY <1>1, <1>11 DEF OfKept
<1>13. ConfirmsOnly(r, look, q)
  BY <1>10, <1>11, <1>12 DEF ConfirmsOnly, q
<1> QED BY <1>13 DEF q, d

LooksFirst(r, look, q) ==
  /\ Good(q) /\ OfKept(r, q) /\ q.maps = r.maps /\ q.watch = r.watch /\ q.asked = r.asked
  /\ \/ q = r /\ (r.live = None => r.awaiting = TRUE)
     \/ /\ r.live = None /\ r.awaiting = FALSE /\ q.live # None /\ q.confirmed = FALSE
        /\ \/ Within(q) => q.of[q.live] = look.map
           \/ r.fileLive # None /\ look.submaps >= r.fileSubmaps /\ q.live = r.fileLive

LEMMA FirstLookOf ==
  ASSUME NEW r, Good(r), NEW look \in LooksT
  PROVE  LooksFirst(r, look, FirstLook(r, look))
<1>1. r \in Registries /\ look.map \in Maps \cup {None} /\ r.minted \in Nat /\ r.awaiting \in BOOLEAN
  BY DEF Good, LooksT, Registries
<1>2. OfKept(r, r) /\ Good(FirstLook(r, look))
  BY <1>1, FirstLookSteps DEF OfKept, Steps
<1>3. CASE r.live # None \/ r.awaiting
  BY <1>1, <1>2, <1>3 DEF FirstLook, LooksFirst
<1>4. CASE /\ ~(r.live # None \/ r.awaiting)
           /\ r.fileLive # None /\ look.submaps >= r.fileSubmaps
  <2> DEFINE z == [r EXCEPT !.live = r.fileLive, !.confirmed = FALSE]
  <2>1. FirstLook(r, look) = z
    BY <1>4 DEF FirstLook
  <2>2. /\ z.minted = r.minted /\ z.live = r.fileLive /\ z.maps = r.maps /\ z.of = r.of
        /\ z.asked = r.asked /\ z.watch = r.watch /\ z.confirmed = FALSE
    BY <1>1 DEF Registries
  <2> HIDE DEF z
  <2>3. OfKept(r, z)
    BY <1>1, <2>2 DEF OfKept
  <2> QED BY <1>1, <1>2, <1>4, <2>1, <2>2, <2>3 DEF LooksFirst
<1>5. CASE /\ ~(r.live # None \/ r.awaiting)
           /\ ~(r.fileLive # None /\ look.submaps >= r.fileSubmaps)
  <2> DEFINE k == Mint(r, look.map)
             z == [k EXCEPT !.live = NextOf(r), !.fileLive = NextOf(r),
                            !.fileName = NoName, !.confirmed = FALSE]
  <2>1. FirstLook(r, look) = z
    BY <1>5 DEF FirstLook
  <2>2. /\ Good(k) /\ OfKept(r, k) /\ NextOf(r) # None
        /\ Within(k) => k.of[NextOf(r)] = look.map
        /\ k.maps = r.maps /\ k.watch = r.watch /\ k.asked = r.asked
    BY <1>1, MintOf
  <2> HIDE DEF k
  <2>3. k \in Registries
    BY <2>2 DEF Good
  <2>4. /\ z.minted = k.minted /\ z.live = NextOf(r) /\ z.maps = k.maps /\ z.of = k.of
        /\ z.asked = k.asked /\ z.watch = k.watch /\ z.confirmed = FALSE
    BY <2>3 DEF Registries
  <2> HIDE DEF z
  <2>5. OfKept(r, z) /\ (Within(z) => z.of[z.live] = look.map)
    BY <2>2, <2>4 DEF OfKept, Within
  <2> QED BY <1>1, <1>2, <1>5, <2>1, <2>2, <2>4, <2>5 DEF LooksFirst
<1> QED BY <1>3, <1>4, <1>5

LEMMA ObserveOf ==
  ASSUME NEW r, Good(r), NEW look \in LooksT
  PROVE  Observed(r, look, Observe(r, look))
<1> DEFINE a == IF Reset(r, look) THEN StartedAfresh(r, look.frames, look.map) ELSE r
           b == [a EXCEPT !.watch = {look.epoch}]
           c == FirstLook(b, look)
           q == Measure(Confirm(c, look), look)
<1>1. /\ look.frames \in Nat /\ look.map \in Maps \cup {None} /\ {look.epoch} \subseteq Nat
      /\ r \in Registries /\ r.minted \in Nat
  BY DEF LooksT, Good, Registries
<1>2. OfKept(r, r)
  BY <1>1 DEF OfKept
<1>3. /\ Good(a) /\ OfKept(r, a) /\ a.maps = r.maps
      /\ Reset(r, look) =>
           /\ a.live # None /\ a.asked = {look.frames} /\ a.confirmed = FALSE
           /\ Within(a) => a.of[a.live] = look.map
           /\ a.live \in 1 .. a.minted
      /\ ~Reset(r, look) => a = r
  <2>1. CASE Reset(r, look)
    <3>1. StartsAfreshFor(r, look.frames, look.map, StartedAfresh(r, look.frames, look.map))
      BY <1>1, StartedAfreshOf
    <3> QED BY <2>1, <3>1 DEF StartsAfreshFor
  <2>2. CASE ~Reset(r, look)
    BY <1>2, <2>2
  <2> QED BY <2>1, <2>2
<1> HIDE DEF a
<1>4. a \in Registries
  BY <1>3 DEF Good
<1>5. /\ b \in Registries /\ b.unclaimed = a.unclaimed /\ b.places = a.places
      /\ b.minted = a.minted /\ b.live = a.live /\ b.fileLive = a.fileLive /\ b.maps = a.maps
      /\ b.of = a.of /\ b.asked = a.asked /\ b.confirmed = a.confirmed /\ b.awaiting = a.awaiting
      /\ b.fileSubmaps = a.fileSubmaps /\ b.watch = {look.epoch}
  BY <1>1, <1>4 DEF Registries
<1> HIDE DEF b
<1>6. Good(b)
  BY <1>3, <1>5 DEF Good, LiveInv, MintInv
<1>7. /\ Good(c) /\ OfKept(b, c) /\ c.maps = b.maps /\ c.watch = b.watch /\ c.asked = b.asked
      /\ \/ c = b /\ (b.live = None => b.awaiting = TRUE)
         \/ /\ b.live = None /\ b.awaiting = FALSE /\ c.live # None /\ c.confirmed = FALSE
            /\ \/ Within(c) => c.of[c.live] = look.map
               \/ b.fileLive # None /\ look.submaps >= b.fileSubmaps /\ c.live = b.fileLive
  <2>1. LooksFirst(b, look, c)
    BY <1>6, FirstLookOf
  <2> HIDE DEF c
  <2> QED BY <2>1 DEF LooksFirst
<1> HIDE DEF c
<1>8. ConfirmsOnly(c, look, q)
  BY <1>7, ConfirmOf
<1> HIDE DEF q
<1>9. OfKept(r, b)
  BY <1>3, <1>5 DEF OfKept, Within
<1>10. OfKept(r, q) /\ OfKept(b, q) /\ (Within(q) => Within(c))
  <2>1. OfKept(c, q)
    BY <1>8 DEF ConfirmsOnly
  <2>2. OfKept(b, q)
    BY <1>7, <2>1, OfKeptTwice
  <2>3. Within(q) => Within(c)
    BY <1>8 DEF ConfirmsOnly, Within
  <2> QED BY <1>9, <2>2, <2>3, OfKeptTwice
<1>11. q.maps = r.maps /\ q.watch = {look.epoch} /\ Good(q)
  BY <1>3, <1>5, <1>7, <1>8 DEF ConfirmsOnly
<1>12. ASSUME Reset(r, look) PROVE Observed(r, look, q)
  <2>1. c = b /\ b.live # None
    BY <1>3, <1>5, <1>7, <1>12
  <2>2. q.live = a.live /\ q.asked = {look.frames} /\ q.of = a.of /\ q.minted = a.minted
    BY <1>3, <1>5, <1>8, <1>12, <2>1 DEF ConfirmsOnly
  <2>3. ~Asks(c, look)
    BY <1>1, <1>3, <1>5, <1>12, <2>1 DEF Asks
  <2>4. q.confirmed = FALSE
    BY <1>3, <1>5, <1>8, <1>12, <2>1, <2>3 DEF ConfirmsOnly
  <2>5. Within(q) => q.of[q.live] = look.map
    BY <1>3, <1>12, <2>2 DEF Within
  <2>6. q.live # None
    BY <1>3, <1>12, <2>2
  <2> QED BY <1>10, <1>11, <1>12, <2>2, <2>4, <2>5, <2>6 DEF Observed
<1>13. ASSUME ~Reset(r, look) PROVE Observed(r, look, q)
  <2>1. a = r
    BY <1>3, <1>13
  <2>2. q.asked = r.asked /\ q.live = c.live /\ q.of = c.of
    BY <1>5, <1>7, <1>8, <2>1 DEF ConfirmsOnly
  <2>3. Asks(c, look) <=> Asks(r, look)
    BY <1>5, <1>7, <2>1 DEF Asks
  <2>4. CASE c = b /\ (b.live = None => b.awaiting = TRUE)
    <3>1. q.live = r.live /\ (r.live = None => r.awaiting = TRUE)
      BY <1>5, <2>1, <2>2, <2>4
    <3>2. q.confirmed = r.confirmed \/ (r.live # None /\ Asks(r, look))
      BY <1>5, <1>8, <2>1, <2>3, <2>4 DEF ConfirmsOnly
    <3>3. q.confirmed = TRUE => Asks(r, look) \/ r.confirmed = TRUE
      BY <3>2
    <3>4. q.live = None => q.confirmed = r.confirmed
      BY <3>1, <3>2
    <3> QED BY <1>10, <1>11, <1>13, <2>2, <3>1, <3>3, <3>4 DEF Observed
  <2>5. CASE /\ b.live = None /\ b.awaiting = FALSE /\ c.live # None /\ c.confirmed = FALSE
             /\ \/ Within(c) => c.of[c.live] = look.map
                \/ b.fileLive # None /\ look.submaps >= b.fileSubmaps /\ c.live = b.fileLive
    <3>1. r.live = None /\ r.awaiting = FALSE /\ q.live # None
      BY <1>5, <2>1, <2>2, <2>5
    <3>2. q.confirmed = TRUE => Asks(r, look)
      BY <1>8, <2>3, <2>5 DEF ConfirmsOnly
    <3>3. \/ Within(q) => q.of[q.live] = look.map
          \/ r.fileLive # None /\ look.submaps >= r.fileSubmaps /\ q.live = r.fileLive
      BY <1>5, <1>10, <2>1, <2>2, <2>5
    <3>4. q.live = None => q.confirmed = r.confirmed
      BY <3>1
    <3>5. q.confirmed = TRUE => Asks(r, look) \/ r.confirmed = TRUE
      BY <3>2
    <3> QED BY <1>10, <1>11, <1>13, <2>2, <3>1, <3>3, <3>4, <3>5 DEF Observed
  <2> QED BY <1>7, <2>4, <2>5
<1>14. Observe(r, look) = q
  BY DEF Observe, a, b, c, q
<1> QED BY <1>12, <1>13, <1>14

-----------------------------------------------------------------------------
(* What is known between two steps, of a registry r, of the saves sv nobody *)
(* took yet and of a reset u nobody looked at.                              *)
Quiet == tool.at \in {"idle", "saved"} /\ boot # "wiped"

LiveOf(r, m) == r.live # None => r.of[r.live] = m

NamesKnown(r, sv) ==
  \A n \in Names :
    /\ r.maps[n] # None
    /\ n # sv /\ n # jobSaves /\ ~(tool.at = "saved" /\ tool.name = n)
    => r.of[r.maps[n]] = library[n].map

LiveKnown(r, u) == Quiet /\ ~u => LiveOf(r, map)

SavedKnown(r, sv) ==
  sv # NoName => /\ LiveOf(r, library[sv].map)
                 /\ r.live = None /\ Quiet => library[sv].map = map

(* The frames drawn since frame at are of the map; all are, where nothing   *)
(* was asked.                                                               *)
LaneFrom(at) ==
  /\ frames > at /\ pipe # NoFrame => pipe.map = map
  /\ frames > at + 1 => hand.map = map

LaneHere ==
  /\ pipe # NoFrame => pipe.map = map
  /\ hand # NoFrame => hand.map = map

LaneKnown(r, u) ==
  Quiet /\ ~u => (r.asked = {} => LaneHere) /\ \A at \in r.asked : LaneFrom(at)

ConfirmedKnown(r) ==
  /\ r.live = None => r.asked = {} /\ r.confirmed = FALSE
  /\ r.confirmed = TRUE => hand # NoFrame /\ \A at \in r.asked : frames > at + 1

(* The lane has yet to see the reset, or it saw it past the grace.          *)
Before(r) ==
  /\ r.watch = {epoch} /\ hand.map = r.of[r.live] /\ hand.map # map /\ hand.size > 1
  /\ \/ newborn = TRUE /\ pipe = NoFrame /\ size = 1
     \/ newborn = FALSE /\ pipe = [map |-> map, size |-> 1, new |-> TRUE]
  /\ \A at \in r.asked : frames >= at + Grace

After(r) ==
  /\ \E e \in r.watch : e # epoch
  /\ hand.map = map /\ newborn = FALSE
  /\ pipe # NoFrame => pipe.map = map /\ pipe.new = FALSE
  /\ \A at \in r.asked : epochFrames > at + Grace

UnfoldedKnown(r, u) == u /\ Quiet => r.live # None /\ (Before(r) \/ After(r))

Known(r, sv, u) ==
  /\ Good(r) /\ Within(r)
  /\ NamesKnown(r, sv) /\ LiveKnown(r, u) /\ SavedKnown(r, sv)
  /\ LaneKnown(r, u) /\ ConfirmedKnown(r) /\ UnfoldedKnown(r, u)

LibraryKnown == map <= begun /\ \A n \in Names : library[n].map <= begun

ToolKnown ==
  /\ tool # Idle => tool.map = map /\ jobSaves = NoName /\ boot # "wiped"
  /\ tool.at \in {"loaded", "saved"} => library[tool.name].map = map
  /\ tool.at = "saved" => unfolded = FALSE

JobKnown ==
  jobSaves # NoName => /\ saved = NoName /\ tool = Idle /\ boot # "wiped" /\ unfolded = FALSE
                       /\ library[jobSaves].map = map

FramesKnown ==
  /\ epochFrames <= frames
  /\ pipe # NoFrame => pipe.map # None
  /\ frames > 0 => hand # NoFrame
  /\ tool.at = "fresh" => LaneFrom(tool.frames)

Meant ==
  /\ Known(reg, saved, unfolded)
  /\ LibraryKnown /\ ToolKnown /\ JobKnown /\ FramesKnown

(* What the lemmas need of the types.                                       *)
LEMMA Types ==
  ASSUME Inv
  PROVE  /\ map \in Maps /\ map \in Nat /\ map # None /\ begun \in Maps /\ begun \in Nat
         /\ frames \in Nat /\ epoch \in Nat /\ epochFrames \in Nat /\ Grace \in Nat
         /\ size \in Nat /\ newborn \in BOOLEAN /\ unfolded \in BOOLEAN
         /\ pipe \in Frames /\ hand \in Frames /\ NoFrame.map = None
         /\ saved \in Names \cup {NoName} /\ jobSaves \in Names \cup {NoName} /\ NoName \notin Names
         /\ \A n \in Names : library[n].map \in Maps \cup {None}
         /\ boot \in {"off", "on", "wiped", "said"}
         /\ Good(reg) /\ Within(reg)
<1>1. TypeOK /\ Good(reg) /\ Within(reg)
  BY DEF Inv, Good, Within, TypeOK
<1>2. map \in Maps /\ begun \in Maps /\ {frames, epoch, epochFrames} \subseteq Nat /\ size \in 0 .. MaxSize
  BY <1>1 DEF TypeOK
<1>3. Grace \in Nat /\ MaxSize \in Nat /\ MaxMaps \in Nat
  BY BoundsAssumption
<1>4. map \in Nat /\ map # None /\ begun \in Nat /\ size \in Nat
  BY <1>2, <1>3 DEF Maps, None
<1>5. \A n \in Names : library[n].map \in Maps \cup {None}
  BY <1>1 DEF TypeOK, Library
<1>6. NoFrame.map = None /\ NoName \notin Names
  BY NamesAssumption DEF NoFrame
<1> QED BY <1>1, <1>2, <1>3, <1>4, <1>5, <1>6 DEF TypeOK

LEMMA ToolTypes ==
  ASSUME Inv
  PROVE  /\ tool.at \in {"idle", "loaded", "saved", "wiped", "fresh"}
         /\ tool = Idle <=> tool.at = "idle"
         /\ tool.at \in {"loaded", "saved"} => tool.name \in Names
         /\ tool.frames \in Nat /\ tool.map \in Maps \cup {None}
<1>1. tool \in Tools /\ Idle.at = "idle"
  BY DEF Inv, TypeOK, Idle
<1> QED BY <1>1 DEF Tools, Idle, None

(* The jobs' saves are taken: each names the live map, or the map it was    *)
(* taken of.                                                                *)
LEMMA TakesKnown ==
  ASSUME Inv, Meant, NEW k, k = TakeSaves(reg), Within(k)
  PROVE  Known(k, NoName, unfolded) /\ OfKept(reg, k)
<1>1. Known(reg, saved, unfolded)
  BY DEF Meant
<1>2. /\ Good(reg) /\ Within(reg) /\ reg \in Registries /\ reg.minted \in Nat
      /\ saved \in Names \cup {NoName} /\ NoName \notin Names
      /\ \A n \in Names : library[n].map \in Maps \cup {None}
  BY Types DEF Good, Registries
<1>3. \A n \in Names : reg.maps[n] # None => reg.maps[n] \in 1 .. reg.minted
  BY <1>2 DEF Good, MintInv, None, Registries
<1>4. reg.live # None => reg.live \in 1 .. reg.minted
  BY <1>2 DEF Good, MintInv, None, Registries
<1>5. CASE saved = NoName
  <2>1. k = reg /\ OfKept(reg, reg)
    BY <1>2, <1>5 DEF TakeSaves, OfKept
  <2> QED BY <1>1, <1>5, <2>1
<1>6. CASE saved # NoName
  <2>1. SavesAs(reg, saved, library[saved].map, k)
    BY <1>2, <1>6, SavedAsOf DEF TakeSaves
  <2>2. /\ Good(k) /\ OfKept(reg, k) /\ k.live # None /\ k.maps = [reg.maps EXCEPT ![saved] = k.live]
        /\ k.watch = reg.watch
        /\ reg.live # None => k.live = reg.live /\ k.asked = reg.asked /\ k.confirmed = reg.confirmed
        /\ reg.live = None => /\ k.asked = {AskedAt(reg)} /\ k.confirmed = FALSE
                              /\ k.of[k.live] = library[saved].map
    BY <2>1 DEF SavesAs
  <2>3. /\ \A l \in 1 .. reg.minted : k.of[l] = reg.of[l]
        /\ reg.live = None => reg.asked = {} /\ AskedAt(reg) = 0
    BY <1>1, <2>2 DEF OfKept, Known, ConfirmedKnown, AskedAt
  <2>4. reg.maps \in [Names -> Nat]
    BY <1>2 DEF Registries
  <2>5. k.of[k.live] = library[saved].map
    BY <1>1, <1>4, <1>6, <2>2, <2>3 DEF Known, SavedKnown, LiveOf
  <2>6. NamesKnown(k, NoName)
    <3> SUFFICES ASSUME NEW n \in Names, k.maps[n] # None, n # jobSaves,
                        ~(tool.at = "saved" /\ tool.name = n)
                 PROVE  k.of[k.maps[n]] = library[n].map
      BY DEF NamesKnown
    <3>1. CASE n = saved
      BY <2>2, <2>4, <2>5, <3>1
    <3>2. CASE n # saved
      <4>1. k.maps[n] = reg.maps[n] /\ reg.maps[n] \in 1 .. reg.minted
        BY <1>3, <2>2, <2>4, <3>2
      <4>2. reg.of[reg.maps[n]] = library[n].map
        BY <1>1, <3>2, <4>1 DEF Known, NamesKnown
      <4> QED BY <2>3, <4>1, <4>2
    <3> QED BY <3>1, <3>2
  <2>7. LiveKnown(k, unfolded)
    <3>1. CASE reg.live # None
      BY <1>1, <1>4, <2>2, <2>3, <3>1 DEF Known, LiveKnown, LiveOf
    <3>2. CASE reg.live = None
      BY <1>1, <1>6, <2>2, <3>2 DEF Known, LiveKnown, LiveOf, SavedKnown
    <3> QED BY <3>1, <3>2
  <2>8. LaneKnown(k, unfolded)
    <3>1. CASE reg.live # None
      BY <1>1, <2>2, <3>1 DEF Known, LaneKnown
    <3>2. CASE reg.live = None
      <4>1. frames \in Nat /\ (frames > 0 => hand # NoFrame)
        BY Types DEF Meant, FramesKnown
      <4>2. Quiet /\ ~unfolded => LaneFrom(0)
        BY <1>1, <2>3, <3>2, <4>1 DEF Known, LaneKnown, LaneFrom, LaneHere
      <4> QED BY <2>2, <2>3, <3>2, <4>2 DEF LaneKnown
    <3> QED BY <3>1, <3>2
  <2>9. ConfirmedKnown(k)
    BY <1>1, <2>2 DEF Known, ConfirmedKnown
  <2>10. UnfoldedKnown(k, unfolded)
    BY <1>1, <1>4, <2>2, <2>3 DEF Known, UnfoldedKnown, Before, After
  <2>11. SavedKnown(k, NoName)
    BY DEF SavedKnown
  <2> QED BY <2>2, <2>6, <2>7, <2>8, <2>9, <2>10, <2>11 DEF Known
<1> QED BY <1>5, <1>6

-----------------------------------------------------------------------------
(* A look: it names the map of the frame in hand, which is the live map     *)
(* wherever a look names anything.                                          *)
LEMMA LooksKnown ==
  ASSUME Inv, Meant, Grace >= 1, NEW k, Known(k, NoName, unfolded), tool = Idle, hand # NoFrame,
         NEW trusted \in BOOLEAN, NEW q, q = Observe(k, TheLook(trusted)), Within(q),
         /\ k.live = None /\ k.awaiting = FALSE /\ k.fileLive # None /\ hand.size >= k.fileSubmaps
         => hand.map = k.of[k.fileLive]
  PROVE  /\ Known(q, NoName, unfolded /\ hand.map # map)
         /\ boot # "wiped" /\ q.confirmed = TRUE => q.of[q.live] = hand.map
<1> DEFINE look == TheLook(trusted)
           u == unfolded /\ hand.map # map
<1>1. /\ look.epoch = epoch /\ look.epochFrames = epochFrames /\ look.frames = frames
      /\ look.submaps = hand.size /\ look.map = hand.map
  BY DEF TheLook
<1>2. look \in LooksT
  BY DEF Inv, TypeOK, Frames, LooksT, TheLook
<1> HIDE DEF look
<1>3. /\ frames \in Nat /\ epochFrames \in Nat /\ Grace \in Nat /\ unfolded \in BOOLEAN
      /\ epochFrames <= frames
  BY Types DEF Meant, FramesKnown
<1>4. /\ Good(k) /\ k \in Registries /\ k.minted \in Nat /\ k.asked \subseteq Nat
      /\ NamesKnown(k, NoName) /\ LiveKnown(k, unfolded) /\ LaneKnown(k, unfolded)
      /\ ConfirmedKnown(k) /\ UnfoldedKnown(k, unfolded)
  BY DEF Known, Good, Registries
<1>5. /\ \A n \in Names : k.maps[n] # None => k.maps[n] \in 1 .. k.minted
      /\ k.live # None => k.live \in 1 .. k.minted
      /\ k.fileLive # None => k.fileLive \in 1 .. k.minted
  BY <1>4 DEF Good, MintInv, None, Registries
<1>6. Observed(k, look, q)
  BY <1>2, <1>4, ObserveOf DEF look
<1>7. /\ Good(q) /\ q.maps = k.maps /\ q.watch = {epoch}
      /\ \A l \in 1 .. k.minted : q.of[l] = k.of[l]
  BY <1>1, <1>6 DEF Observed, OfKept
<1>8. NamesKnown(q, NoName) /\ SavedKnown(q, NoName)
  BY <1>4, <1>5, <1>7 DEF NamesKnown, SavedKnown
<1>9. Quiet <=> boot # "wiped"
  BY ToolTypes DEF Quiet
(* A reset is of a map that is drawn.                                       *)
<1>10. ASSUME Reset(k, look), Quiet PROVE hand.map = map
  <2>1. /\ \E seen \in k.watch : seen # epoch
        /\ \A at \in k.asked : epochFrames > at + Grace
    BY <1>1, <1>3, <1>4, <1>10 DEF Reset
  <2>2. CASE unfolded
    BY <1>4, <1>10, <2>1, <2>2 DEF UnfoldedKnown, Before, After
  <2>3. CASE ~unfolded
    <3>1. CASE k.asked = {}
      BY <1>4, <1>10, <2>3, <3>1 DEF LaneKnown, LaneHere
    <3>2. CASE k.asked # {}
      <4>1. PICK at \in k.asked : LaneFrom(at)
        BY <1>4, <1>10, <2>3, <3>2 DEF LaneKnown
      <4>2. frames > at + 1
        BY <1>3, <1>4, <2>1
      <4> QED BY <4>1, <4>2 DEF LaneFrom
    <3> QED BY <3>1, <3>2
  <2> QED BY <1>3, <2>2, <2>3
<1>11. ASSUME Reset(k, look)
       PROVE  Known(q, NoName, u) /\ q.confirmed = FALSE
  <2>1. /\ q.live # None /\ q.asked = {frames} /\ q.confirmed = FALSE
        /\ q.of[q.live] = hand.map
    BY <1>1, <1>6, <1>11 DEF Observed
  <2>2. Quiet => ~u /\ hand.map = map
    BY <1>10, <1>11
  <2>3. LiveKnown(q, u) /\ UnfoldedKnown(q, u)
    BY <2>1, <2>2 DEF LiveKnown, LiveOf, UnfoldedKnown
  <2>4. LaneKnown(q, u) /\ ConfirmedKnown(q)
    BY <1>3, <2>1 DEF LaneKnown, LaneFrom, ConfirmedKnown
  <2> QED BY <1>7, <1>8, <2>1, <2>3, <2>4 DEF Known
<1>12. ASSUME ~Reset(k, look)
       PROVE  /\ Known(q, NoName, u)
              /\ boot # "wiped" /\ q.confirmed = TRUE => q.of[q.live] = hand.map
  <2>1. /\ q.asked = k.asked
        /\ q.confirmed = TRUE => Asks(k, look) \/ k.confirmed = TRUE
        /\ q.live = None => q.confirmed = k.confirmed
        /\ \/ q.live = k.live
           \/ /\ k.live = None /\ k.awaiting = FALSE /\ q.live # None
              /\ \/ q.of[q.live] = hand.map
                 \/ k.fileLive # None /\ hand.size >= k.fileSubmaps /\ q.live = k.fileLive
    BY <1>1, <1>6, <1>12 DEF Observed
  <2>2. Quiet /\ unfolded => k.live # None /\ Before(k) /\ hand.map # map
    <3> SUFFICES ASSUME Quiet, unfolded PROVE k.live # None /\ Before(k) /\ hand.map # map
      OBVIOUS
    <3>1. k.live # None /\ (Before(k) \/ After(k))
      BY <1>4 DEF UnfoldedKnown
    <3>2. ~After(k)
      <4> SUFFICES ASSUME After(k) PROVE FALSE
        OBVIOUS
      <4>1. (\E e \in k.watch : e # epoch) /\ (\A at \in k.asked : epochFrames > at + Grace)
        BY DEF After
      <4>2. \A at \in k.asked : ~(epochFrames <= at + Grace)
        BY <1>3, <1>4, <4>1
      <4>3. Reset(k, look)
        BY <1>1, <3>1, <4>1, <4>2 DEF Reset
      <4> QED BY <1>12, <4>3
    <3> QED BY <3>1, <3>2 DEF Before
  <2>3. Quiet => (u <=> unfolded)
    BY <2>2
  <2>4. Quiet /\ ~unfolded /\ k.live = None => hand.map = map
    BY <1>4 DEF LaneKnown, LaneHere, ConfirmedKnown
  <2>5. k.live = None /\ q.live # None => q.of[q.live] = hand.map
    <3> SUFFICES ASSUME k.live = None, q.live # None PROVE q.of[q.live] = hand.map
      OBVIOUS
    <3>1. CASE q.of[q.live] = hand.map
      BY <3>1
    <3>2. CASE k.awaiting = FALSE /\ k.fileLive # None /\ hand.size >= k.fileSubmaps /\ q.live = k.fileLive
      BY <1>5, <1>7, <3>2
    <3> QED BY <2>1, <3>1, <3>2
  <2>6. k.live # None => q.live = k.live /\ q.of[q.live] = k.of[k.live]
    BY <1>5, <1>7, <2>1
  <2>7. LiveKnown(q, u)
    BY <1>4, <2>3, <2>4, <2>5, <2>6 DEF LiveKnown, LiveOf
  <2>8. LaneKnown(q, u)
    BY <1>4, <2>1, <2>3 DEF LaneKnown
  <2>9. ConfirmedKnown(q)
    <3>1. q.live = None => k.live = None
      BY <2>6
    <3>2. q.confirmed = TRUE => \A at \in k.asked : frames > at + 1
      BY <1>1, <1>4, <2>1 DEF Asks, ConfirmedKnown
    <3> QED BY <1>4, <2>1, <3>1, <3>2 DEF ConfirmedKnown
  <2>10. UnfoldedKnown(q, u)
    <3> SUFFICES ASSUME u, Quiet PROVE q.live # None /\ Before(q)
      BY DEF UnfoldedKnown
    <3>1. k.live # None /\ Before(k)
      BY <2>2
    <3> QED BY <1>7, <2>1, <2>6, <3>1 DEF Before
  <2>11. ASSUME boot # "wiped", q.confirmed = TRUE PROVE q.of[q.live] = hand.map
    <3>1. q.live # None /\ \A at \in k.asked : frames > at + 1
      BY <2>1, <2>9, <2>11 DEF ConfirmedKnown
    <3>2. CASE unfolded
      BY <1>9, <2>2, <2>6, <2>11, <3>2 DEF Before
    <3>3. CASE ~unfolded
      <4>1. hand.map = map
        <5>1. CASE k.asked = {}
          BY <1>4, <1>9, <2>11, <3>3, <5>1 DEF LaneKnown, LaneHere
        <5>2. CASE k.asked # {}
          BY <1>4, <1>9, <2>11, <3>1, <3>3, <5>2 DEF LaneKnown, LaneFrom
        <5> QED BY <5>1, <5>2
      <4>2. q.of[q.live] = map
        BY <1>9, <2>3, <2>7, <2>11, <3>1, <3>3 DEF LiveKnown, LiveOf
      <4> QED BY <4>1, <4>2
    <3> QED BY <1>3, <3>2, <3>3
  <2> QED BY <1>7, <1>8, <2>7, <2>8, <2>9, <2>10, <2>11 DEF Known
<1> QED BY <1>11, <1>12

-----------------------------------------------------------------------------
(* Only what is known of the live map matters, not the places.              *)
LEMMA SameKnown ==
  ASSUME NEW r, NEW q, NEW sv, NEW u, Known(r, sv, u), Good(q),
         q.live = r.live, q.maps = r.maps, q.asked = r.asked, q.watch = r.watch,
         q.confirmed = r.confirmed, q.of = r.of, q.minted = r.minted
  PROVE  Known(q, sv, u)
<1>1. /\ Within(r) /\ NamesKnown(r, sv) /\ LiveKnown(r, u) /\ SavedKnown(r, sv)
      /\ LaneKnown(r, u) /\ ConfirmedKnown(r) /\ UnfoldedKnown(r, u)
  BY DEF Known
<1>2. Within(q) /\ NamesKnown(q, sv) /\ LiveKnown(q, u) /\ SavedKnown(q, sv)
  BY <1>1 DEF Within, NamesKnown, LiveKnown, SavedKnown, LiveOf
<1>3. LaneKnown(q, u) /\ ConfirmedKnown(q) /\ UnfoldedKnown(q, u)
  BY <1>1 DEF LaneKnown, ConfirmedKnown, UnfoldedKnown, Before, After
<1> QED BY <1>2, <1>3 DEF Known

LEMMA PlacedKnown ==
  ASSUME NEW r, NEW sv, NEW u, Known(r, sv, u), NEW s \in Spots, NEW l \in {r.live, None}
  PROVE  Known([r EXCEPT !.places[s] = l], sv, u)
<1> DEFINE q == [r EXCEPT !.places[s] = l]
<1>1. Good(r) /\ r \in Registries
  BY DEF Known, Good
<1>2. Good(q)
  BY <1>1, PlaceSteps DEF Steps
<1>3. /\ q.live = r.live /\ q.maps = r.maps /\ q.asked = r.asked /\ q.watch = r.watch
      /\ q.confirmed = r.confirmed /\ q.of = r.of /\ q.minted = r.minted
  BY <1>1 DEF Registries
<1> HIDE DEF q
<1>4. Known(q, sv, u)
  BY <1>2, <1>3, SameKnown
<1> QED BY <1>4 DEF q

(* The tools that look leave all but the registry alone.                    *)
LEMMA StaysKnown ==
  ASSUME UNCHANGED <<mapper, lane, boot, jobSaves>>, tool' = tool,
         Known(reg', saved', unfolded'), Inv'
  PROVE  Known(reg, saved, unfolded)'
<1>1. /\ map' = map /\ size' = size /\ newborn' = newborn /\ library' = library
      /\ pipe' = pipe /\ hand' = hand /\ frames' = frames /\ epoch' = epoch /\ epochFrames' = epochFrames
      /\ boot' = boot /\ jobSaves' = jobSaves /\ tool' = tool
  BY DEF mapper, lane
<1>2. Good(reg)' /\ Within(reg)'
  BY DEF Inv, TypeOK, Good, Within
<1>3. NamesKnown(reg, saved)'
  BY <1>1 DEF Known, NamesKnown
<1>4. LiveKnown(reg, unfolded)'
  BY <1>1 DEF Known, LiveKnown, Quiet, LiveOf
<1>5. SavedKnown(reg, saved)'
  BY <1>1 DEF Known, SavedKnown, Quiet, LiveOf
<1>6. LaneKnown(reg, unfolded)'
  BY <1>1 DEF Known, LaneKnown, Quiet, LaneFrom, LaneHere
<1>7. ConfirmedKnown(reg)'
  BY <1>1 DEF Known, ConfirmedKnown
<1>8. UnfoldedKnown(reg, unfolded)'
  BY <1>1 DEF Known, UnfoldedKnown, Quiet, Before, After
<1> QED BY <1>2, <1>3, <1>4, <1>5, <1>6, <1>7, <1>8 DEF Known

LEMMA FoldsKnown ==
  ASSUME Inv, Meant, Grace >= 1, Unseen = {}, Looks, NEW trusted \in BOOLEAN,
         NEW q, q = Folded(trusted), Within(q)
  PROVE  /\ Known(q, NoName, unfolded')
         /\ boot # "wiped" /\ q.confirmed = TRUE => q.of[q.live] = hand.map
<1> DEFINE k == TakeSaves(reg)
<1>1. /\ tool = Idle /\ (unfolded' <=> unfolded /\ hand.map # map) /\ unfolded' \in BOOLEAN
      /\ ~Alike
  BY DEF Looks, Seen
<1>2. Good(k) /\ OfKept(k, q)
  <2>1. Good(k)
    BY TakeSavesSteps DEF Steps
  <2>2. CASE hand = NoFrame
    BY <2>1, <2>2 DEF Folded, OfKept, Good, Registries
  <2>3. CASE hand # NoFrame
    <3>1. TheLook(trusted) \in LooksT
      BY DEF Inv, TypeOK, Frames, LooksT, TheLook
    <3>2. q = Observe(k, TheLook(trusted))
      BY <2>3 DEF Folded
    <3> HIDE DEF k
    <3>3. Observed(k, TheLook(trusted), q)
      BY <2>1, <3>1, <3>2, ObserveOf
    <3> QED BY <2>1, <3>3 DEF Observed
  <2> QED BY <2>2, <2>3
<1>3. Within(k)
  <2> HIDE DEF k
  <2> QED BY <1>2, BoundsAssumption DEF OfKept, Within
<1>4. Known(k, NoName, unfolded)
  BY <1>3, TakesKnown
<1>5. CASE hand = NoFrame
  <2>1. q = k /\ hand.map # map
    BY <1>5, Types DEF Folded
  <2> HIDE DEF k
  <2>2. unfolded' = unfolded
    BY <1>1, <2>1, Types
  <2>3. ~(q.confirmed = TRUE)
    BY <1>4, <1>5, <2>1 DEF Known, ConfirmedKnown
  <2> QED BY <1>4, <2>1, <2>2, <2>3
<1>6. CASE hand # NoFrame
  <2>1. q = Observe(k, TheLook(trusted))
    BY <1>6 DEF Folded
  <2>2. /\ k.live = None /\ k.awaiting = FALSE /\ k.fileLive # None /\ hand.size >= k.fileSubmaps
        => hand.map = k.of[k.fileLive]
    BY <1>1, <1>6 DEF Alike
  <2> HIDE DEF k
  <2>3. /\ Known(q, NoName, unfolded /\ hand.map # map)
        /\ boot # "wiped" /\ q.confirmed = TRUE => q.of[q.live] = hand.map
    BY <1>1, <1>4, <1>6, <2>1, <2>2, LooksKnown
  <2>4. unfolded' = (unfolded /\ hand.map # map)
    BY DEF Looks
  <2> QED BY <2>3, <2>4
<1> QED BY <1>5, <1>6

LEMMA LookMeant ==
  ASSUME Inv, Inv', Meant, Looks, Known(reg', NoName, unfolded')
  PROVE  Meant'
<1>1. /\ saved' = NoName /\ UNCHANGED <<mapper, lane, boot, jobSaves>> /\ tool' = tool /\ tool = Idle
      /\ unfolded' = (unfolded /\ hand.map # map)
  BY DEF Looks
<1>2. Known(reg, saved, unfolded)'
  BY <1>1, StaysKnown
<1>3. LibraryKnown'
  BY <1>1 DEF Meant, LibraryKnown, mapper
<1>4. ToolKnown'
  BY <1>1 DEF ToolKnown, Idle
<1>5. JobKnown'
  BY <1>1 DEF Meant, JobKnown, mapper
<1>6. FramesKnown'
  BY <1>1 DEF Meant, FramesKnown, lane, Idle
<1> QED BY <1>2, <1>3, <1>4, <1>5, <1>6 DEF Meant

(* Look, Remember.                                                          *)
LEMMA LookStep ==
  ASSUME Inv, Inv', Meant, Grace >= 1, Unseen = {}, Look \/ \E s \in Spots : Remember(s)
  PROVE  Meant' /\ (boot # "wiped" => ~Misplaced(reg'))
<1>1. Looks
  BY DEF Look, Remember
<1>2. \E trusted \in BOOLEAN :
        LET q == Folded(trusted)
        IN  /\ Within(q)
            /\ reg' = q \/ \E s \in Spots : reg' = [q EXCEPT !.places[s] = q.live]
  <2>1. CASE Look
    BY <2>1 DEF Look, Becomes, Within
  <2>2. ASSUME NEW s \in Spots, Remember(s)
        PROVE  \E trusted \in BOOLEAN :
                 LET q == Folded(trusted)
                 IN  Within(q) /\ reg' = [q EXCEPT !.places[s] = q.live]
    <3>1. PICK trusted \in BOOLEAN : Becomes([Folded(trusted) EXCEPT !.places[s] = Folded(trusted).live])
      BY <2>2 DEF Remember
    <3> DEFINE q == Folded(trusted)
    <3>2. q \in Registries
      BY FoldedSteps DEF Steps, Good
    <3>3. reg' = [q EXCEPT !.places[s] = q.live] /\ reg'.minted <= MaxLineages
      BY <3>1 DEF Becomes
    <3> HIDE DEF q
    <3>4. Within(q)
      BY <3>2, <3>3 DEF Within, Registries
    <3> QED BY <3>3, <3>4 DEF q
  <2> QED BY <2>1, <2>2
<1>3. PICK trusted \in BOOLEAN :
        /\ Within(Folded(trusted))
        /\ \/ reg' = Folded(trusted)
           \/ \E s \in Spots : reg' = [Folded(trusted) EXCEPT !.places[s] = Folded(trusted).live]
  BY <1>2
<1> DEFINE q == Folded(trusted)
<1>4. /\ Known(q, NoName, unfolded')
      /\ boot # "wiped" /\ q.confirmed = TRUE => q.of[q.live] = hand.map
  BY <1>1, <1>3, FoldsKnown
<1>5. q \in Registries
  BY FoldedSteps DEF Steps, Good
<1>6. reg' = q \/ \E s \in Spots : reg' = [q EXCEPT !.places[s] = q.live]
  BY <1>3
<1> HIDE DEF q
<1>7. Known(reg', NoName, unfolded')
  <2>1. CASE reg' = q
    BY <1>4, <2>1
  <2>2. ASSUME NEW s \in Spots, reg' = [q EXCEPT !.places[s] = q.live]
        PROVE  Known(reg', NoName, unfolded')
    <3>1. q.live \in {q.live, None}
      OBVIOUS
    <3>2. Known([q EXCEPT !.places[s] = q.live], NoName, unfolded')
      BY <1>4, <3>1, PlacedKnown
    <3> QED BY <2>2, <3>2
  <2> QED BY <1>6, <2>1, <2>2
<1>8. reg'.live = q.live /\ reg'.of = q.of /\ reg'.confirmed = q.confirmed
  BY <1>5, <1>6 DEF Registries
<1>9. boot # "wiped" => ~Misplaced(reg')
  <2>1. q.confirmed \in BOOLEAN
    BY <1>5 DEF Registries
  <2> QED BY <1>4, <1>8, <2>1 DEF Misplaced
<1> QED BY <1>1, <1>7, <1>9, LookMeant

-----------------------------------------------------------------------------
(* The lane.                                                                *)
LEMMA GrowMeant ==
  ASSUME Inv, Inv', Meant, Grow
  PROVE  Meant'
<1>1. /\ map' = map /\ newborn' = newborn /\ library' = library /\ begun' = begun
      /\ pipe' = pipe /\ hand' = hand /\ frames' = frames /\ epoch' = epoch /\ epochFrames' = epochFrames
      /\ boot' = boot /\ jobSaves' = jobSaves /\ saved' = saved /\ tool' = tool /\ reg' = reg
      /\ unfolded' = unfolded /\ newborn = FALSE
  BY Types DEF Grow, lane, saves
<1>2. Known(reg, saved, unfolded)
  BY DEF Meant
<1>3. Good(reg)' /\ Within(reg)'
  BY DEF Inv, TypeOK, Good, Within
<1>4. NamesKnown(reg, saved)' /\ LiveKnown(reg, unfolded)' /\ SavedKnown(reg, saved)'
  BY <1>1, <1>2 DEF Known, NamesKnown, LiveKnown, SavedKnown, Quiet, LiveOf
<1>5. LaneKnown(reg, unfolded)' /\ ConfirmedKnown(reg)'
  BY <1>1, <1>2 DEF Known, LaneKnown, Quiet, LaneFrom, LaneHere, ConfirmedKnown
<1>6. UnfoldedKnown(reg, unfolded)'
  BY <1>1, <1>2 DEF Known, UnfoldedKnown, Quiet, Before, After
<1>7. LibraryKnown' /\ ToolKnown' /\ JobKnown' /\ FramesKnown'
  BY <1>1 DEF Meant, LibraryKnown, ToolKnown, JobKnown, FramesKnown, LaneFrom
<1> QED BY <1>3, <1>4, <1>5, <1>6, <1>7 DEF Meant, Known

LEMMA DrawMeant ==
  ASSUME Inv, Inv', Meant, Draw
  PROVE  Meant'
<1>1. /\ map' = map /\ size' = size /\ newborn' = FALSE /\ library' = library /\ begun' = begun
      /\ hand' = hand /\ frames' = frames /\ epoch' = epoch /\ epochFrames' = epochFrames
      /\ boot' = boot /\ jobSaves' = jobSaves /\ saved' = saved /\ tool' = tool /\ reg' = reg
      /\ unfolded' = unfolded
  BY DEF Draw, saves
<1>2. pipe = NoFrame /\ pipe' = [map |-> map, size |-> size, new |-> newborn]
  BY DEF Draw
<1>3. pipe'.map = map /\ pipe'.new = newborn /\ pipe' # NoFrame
  BY <1>2, Types DEF NoFrame
<1>4. Known(reg, saved, unfolded)
  BY DEF Meant
<1>5. Good(reg)' /\ Within(reg)'
  BY DEF Inv, TypeOK, Good, Within
<1>6. NamesKnown(reg, saved)' /\ LiveKnown(reg, unfolded)' /\ SavedKnown(reg, saved)'
  BY <1>1, <1>4 DEF Known, NamesKnown, LiveKnown, SavedKnown, Quiet, LiveOf
<1>7. LaneKnown(reg, unfolded)' /\ ConfirmedKnown(reg)'
  BY <1>1, <1>3, <1>4 DEF Known, LaneKnown, Quiet, LaneFrom, LaneHere, ConfirmedKnown
<1>8. UnfoldedKnown(reg, unfolded)'
  <2>1. NoFrame # [map |-> map, size |-> 1, new |-> TRUE]
    BY Types DEF NoFrame
  <2>2. Before(reg) => Before(reg)'
    <3>1. Before(reg) => pipe' = [map |-> map, size |-> 1, new |-> TRUE]
      BY <1>2, <2>1 DEF Before
    <3> QED BY <1>1, <3>1 DEF Before
  <2>3. After(reg) => After(reg)'
    BY <1>1, <1>3 DEF After
  <2> QED BY <1>1, <1>4, <2>2, <2>3 DEF Known, UnfoldedKnown, Quiet
<1>9. LibraryKnown' /\ ToolKnown' /\ JobKnown'
  BY <1>1 DEF Meant, LibraryKnown, ToolKnown, JobKnown
<1>10. FramesKnown'
  BY <1>1, <1>3, Types DEF Meant, FramesKnown, LaneFrom
<1> QED BY <1>5, <1>6, <1>7, <1>8, <1>9, <1>10 DEF Meant, Known

LEMMA AbsorbMeant ==
  ASSUME Inv, Inv', Meant, Absorb
  PROVE  Meant'
<1>1. /\ map' = map /\ size' = size /\ newborn' = newborn /\ library' = library /\ begun' = begun
      /\ frames' = frames + 1 /\ pipe' = NoFrame /\ pipe # NoFrame
      /\ boot' = boot /\ jobSaves' = jobSaves /\ saved' = saved /\ tool' = tool /\ reg' = reg
      /\ unfolded' = unfolded
      /\ hand' = [pipe EXCEPT !.new = FALSE]
  BY DEF Absorb, saves, mapper
<1> DEFINE reset == hand # NoFrame /\ pipe.new /\ pipe.size < hand.size
<1>2. /\ epoch' = IF reset THEN epoch + 1 ELSE epoch
      /\ epochFrames' = IF reset THEN frames + 1 ELSE epochFrames
  BY DEF Absorb
<1> HIDE DEF reset
<1>3. /\ frames \in Nat /\ epochFrames \in Nat /\ epoch \in Nat /\ Grace \in Nat
      /\ epochFrames <= frames /\ pipe.map # None /\ reg.asked \subseteq Nat
      /\ reg \in Registries
  BY <1>1, Types DEF Meant, FramesKnown, Good, Registries
<1>4. hand'.map = pipe.map /\ hand'.map # None /\ hand' # NoFrame
  <2>1. pipe \in Frames
    BY Types
  <2>2. hand'.map = pipe.map
    BY <1>1, <2>1 DEF Frames
  <2> QED BY <1>3, <2>2, Types
<1>5. Known(reg, saved, unfolded)
  BY DEF Meant
<1>6. Good(reg)' /\ Within(reg)'
  BY DEF Inv, TypeOK, Good, Within
<1>7. NamesKnown(reg, saved)' /\ LiveKnown(reg, unfolded)' /\ SavedKnown(reg, saved)'
  BY <1>1, <1>5 DEF Known, NamesKnown, LiveKnown, SavedKnown, Quiet, LiveOf
<1>8. \A at \in Nat : LaneFrom(at) => LaneFrom(at)'
  BY <1>1, <1>3, <1>4 DEF LaneFrom
<1>9. LaneKnown(reg, unfolded)'
  <2>1. LaneHere => LaneHere'
    BY <1>1, <1>4 DEF LaneHere
  <2> QED BY <1>1, <1>3, <1>5, <1>8, <2>1 DEF Known, LaneKnown, Quiet
<1>10. ConfirmedKnown(reg)'
  BY <1>1, <1>3, <1>4, <1>5 DEF Known, ConfirmedKnown
<1>11. UnfoldedKnown(reg, unfolded)'
  <2>1. ASSUME Before(reg) PROVE After(reg)'
    <3>1. /\ reg.watch = {epoch} /\ hand.size > 1 /\ \A at \in reg.asked : frames >= at + Grace
          /\ newborn = FALSE /\ pipe = [map |-> map, size |-> 1, new |-> TRUE]
      BY <1>1, <2>1 DEF Before
    <3>2. pipe.size = 1 /\ pipe.new = TRUE /\ pipe.map = map
      BY <3>1
    <3>3. hand # NoFrame
      <4>1. NoFrame.size = 0
        BY DEF NoFrame
      <4> QED BY <3>1, <4>1
    <3>4. reset
      <4>1. hand.size \in Nat
        <5>1. hand \in Frames /\ MaxSize \in Nat
          BY Types, BoundsAssumption
        <5> QED BY <5>1 DEF Frames
      <4> QED BY <3>1, <3>2, <3>3, <4>1 DEF reset
    <3>5. epoch' = epoch + 1 /\ epochFrames' = frames + 1
      BY <1>2, <3>4
    <3>6. \E e \in reg'.watch : e # epoch'
      BY <1>1, <1>3, <3>1, <3>5
    <3>7. \A at \in reg'.asked : epochFrames' > at + Grace
      BY <1>1, <1>3, <3>1, <3>5
    <3> QED BY <1>1, <1>4, <3>1, <3>2, <3>6, <3>7 DEF After
  <2>2. ASSUME After(reg) PROVE After(reg)'
    <3>1. /\ (\E e \in reg.watch : e # epoch) /\ newborn = FALSE
          /\ pipe.map = map /\ pipe.new = FALSE /\ \A at \in reg.asked : epochFrames > at + Grace
      BY <1>1, <2>2 DEF After
    <3>2. ~reset
      BY <3>1 DEF reset
    <3>3. epoch' = epoch /\ epochFrames' = epochFrames
      BY <1>2, <3>2
    <3> QED BY <1>1, <1>4, <3>1, <3>3 DEF After
  <2> QED BY <1>1, <1>5, <2>1, <2>2 DEF Known, UnfoldedKnown, Quiet
<1>12. LibraryKnown' /\ ToolKnown' /\ JobKnown'
  BY <1>1 DEF Meant, LibraryKnown, ToolKnown, JobKnown
<1>13. FramesKnown'
  <2>1. epochFrames' <= frames'
    BY <1>1, <1>2, <1>3
  <2>2. tool.at = "fresh" => \A at \in Nat : at = tool.frames => LaneFrom(at)'
    BY <1>8, ToolTypes DEF Meant, FramesKnown
  <2>3. tool'.at = "fresh" => LaneFrom(tool.frames)'
    BY <1>1, <2>2, ToolTypes DEF LaneFrom
  <2> QED BY <1>1, <1>4, <2>1, <2>3 DEF FramesKnown
<1> QED BY <1>6, <1>7, <1>9, <1>10, <1>11, <1>12, <1>13 DEF Meant, Known

LEMMA StartsOverMeant ==
  ASSUME Inv, Inv', Meant, Unseen = {}, StartsOver
  PROVE  Meant'
<1>1. /\ map' = begun + 1 /\ size' = 1 /\ newborn' = TRUE /\ library' = library /\ begun' = begun + 1
      /\ pipe' = pipe /\ hand' = hand /\ frames' = frames /\ epoch' = epoch /\ epochFrames' = epochFrames
      /\ boot' = boot /\ jobSaves' = jobSaves /\ saved' = saved /\ tool' = tool /\ reg' = reg
      /\ unfolded' = TRUE
  BY DEF StartsOver, StartAfresh, TakesUp, lane, saves
<1>2. /\ tool = Idle /\ jobSaves = NoName /\ boot # "wiped" /\ pipe = NoFrame
      /\ hand.map = map /\ hand.size > 1 /\ reg.live # None /\ reg.watch = {epoch}
      /\ \A at \in reg.asked : frames >= at + Grace
  BY DEF StartsOver, Seen, Noticeable
<1>3. Known(reg, saved, unfolded) /\ LibraryKnown /\ FramesKnown
  BY DEF Meant
<1>4. Good(reg)' /\ Within(reg)'
  BY DEF Inv, TypeOK, Good, Within
<1>5. Quiet /\ ~unfolded
  <2>1. Quiet
    BY <1>2 DEF Quiet, Idle
  <2>2. ~Before(reg) /\ ~After(reg)
    BY <1>2 DEF Before, After
  <2> QED BY <1>3, <2>1, <2>2 DEF Known, UnfoldedKnown
<1>6. reg.of[reg.live] = map
  BY <1>2, <1>3, <1>5 DEF Known, LiveKnown, LiveOf
<1>7. NamesKnown(reg, saved)'
  BY <1>1, <1>3 DEF Known, NamesKnown
<1>8. LiveKnown(reg, unfolded)' /\ SavedKnown(reg, saved)' /\ LaneKnown(reg, unfolded)'
  BY <1>1, <1>2, <1>3 DEF Known, LiveKnown, SavedKnown, LaneKnown, LiveOf
<1>9. ConfirmedKnown(reg)'
  BY <1>1, <1>3 DEF Known, ConfirmedKnown
<1>10. UnfoldedKnown(reg, unfolded)'
  <2>1. map <= begun /\ map \in Nat /\ begun \in Nat
    BY <1>3, Types DEF LibraryKnown
  <2>2. hand'.map # map'
    BY <1>1, <1>2, <2>1
  <2>3. Before(reg)'
    BY <1>1, <1>2, <1>6, <2>2 DEF Before
  <2> QED BY <1>1, <1>2, <2>3 DEF UnfoldedKnown
<1>11. LibraryKnown'
  <2>1. begun \in Nat /\ \A n \in Names : library[n].map \in Nat /\ library[n].map <= begun
    <3>1. \A n \in Names : library[n].map \in Maps \cup {None}
      BY Types
    <3> QED BY <1>3, <3>1, Types, BoundsAssumption DEF LibraryKnown, Maps, None
  <2> QED BY <1>1, <2>1 DEF LibraryKnown
<1>12. ToolKnown' /\ JobKnown' /\ FramesKnown'
  BY <1>1, <1>2, <1>3 DEF ToolKnown, JobKnown, FramesKnown, Idle
<1> QED BY <1>3, <1>4, <1>7, <1>8, <1>9, <1>10, <1>11, <1>12 DEF Meant, Known

-----------------------------------------------------------------------------
(* The tools and the homecoming change the live map: what they did waits to *)
(* be told, and little is known until then.                                 *)
LEMMA UntoldKnown ==
  ASSUME Inv', Meant, UNCHANGED <<lane, reg, saves, unfolded, library>>, tool = Idle, ~Quiet',
         tool'.at # "saved"
  PROVE  Known(reg, saved, unfolded)'
<1>1. /\ pipe' = pipe /\ hand' = hand /\ frames' = frames /\ epoch' = epoch /\ epochFrames' = epochFrames
      /\ jobSaves' = jobSaves /\ saved' = saved /\ reg' = reg /\ unfolded' = unfolded /\ library' = library
  BY DEF lane, saves
<1>2. Known(reg, saved, unfolded) /\ tool.at = "idle"
  BY DEF Meant, Idle
<1>3. Good(reg)' /\ Within(reg)'
  BY DEF Inv, TypeOK, Good, Within
<1>4. NamesKnown(reg, saved)'
  BY <1>1, <1>2 DEF Known, NamesKnown
<1>5. LiveKnown(reg, unfolded)' /\ SavedKnown(reg, saved)' /\ LaneKnown(reg, unfolded)'
  BY <1>1, <1>2 DEF Known, LiveKnown, SavedKnown, LaneKnown, LiveOf
<1>6. ConfirmedKnown(reg)' /\ UnfoldedKnown(reg, unfolded)'
  BY <1>1, <1>2 DEF Known, ConfirmedKnown, UnfoldedKnown
<1> QED BY <1>3, <1>4, <1>5, <1>6 DEF Known

LEMMA LoadCallMeant ==
  ASSUME Inv, Inv', Meant, Unseen = {}, NEW n \in Names, LoadCall(n)
  PROVE  Meant'
<1>1. /\ map' = library[n].map /\ begun' = begun /\ library' = library /\ boot' = boot
      /\ UNCHANGED <<lane, reg, saves, unfolded, library>> /\ tool = Idle
      /\ tool' = [at |-> "loaded", name |-> n, map |-> library[n].map, frames |-> 0]
      /\ jobSaves = NoName /\ boot # "wiped"
  BY DEF LoadCall, TakesUp, Call, Seen, Crossing
<1>2. ~Quiet' /\ tool'.at # "saved"
  BY <1>1 DEF Quiet
<1>3. Known(reg, saved, unfolded)'
  BY <1>1, <1>2, UntoldKnown
<1>4. LibraryKnown'
  BY <1>1 DEF Meant, LibraryKnown
<1>5. ToolKnown'
  BY <1>1 DEF ToolKnown, saves
<1>6. JobKnown'
  BY <1>1 DEF JobKnown, saves
<1>7. FramesKnown'
  BY <1>1 DEF Meant, FramesKnown, lane
<1> QED BY <1>3, <1>4, <1>5, <1>6, <1>7 DEF Meant

(* A map that starts from nothing is no saved one.                          *)
LEMMA AfreshLibrary ==
  ASSUME Inv, Meant, StartAfresh
  PROVE  LibraryKnown'
<1>1. map' = begun + 1 /\ begun' = begun + 1 /\ library' = library
  BY DEF StartAfresh, TakesUp
<1>2. begun \in Nat /\ \A n \in Names : library[n].map \in Nat /\ library[n].map <= begun
  <2>1. \A n \in Names : library[n].map \in Maps \cup {None}
    BY Types
  <2> QED BY <2>1, Types, BoundsAssumption DEF Meant, LibraryKnown, Maps, None
<1> QED BY <1>1, <1>2 DEF LibraryKnown

LEMMA WipeCallMeant ==
  ASSUME Inv, Inv', Meant, Unseen = {}, NEW at \in {"wiped", "fresh"}, WipeCall(at)
  PROVE  Meant'
<1>1. /\ map' = begun + 1 /\ library' = library /\ boot' = boot
      /\ UNCHANGED <<lane, reg, saves, unfolded, library>> /\ tool = Idle
      /\ tool' = [at |-> at, name |-> NoName, map |-> begun + 1,
                  frames |-> IF at = "fresh" THEN frames ELSE 0]
      /\ jobSaves = NoName /\ boot # "wiped"
  BY DEF WipeCall, StartAfresh, TakesUp, Call, Seen, Crossing
<1>2. ~Quiet' /\ tool'.at = at /\ tool'.at # "saved"
  BY <1>1 DEF Quiet
<1>3. Known(reg, saved, unfolded)'
  BY <1>1, <1>2, UntoldKnown
<1>4. LibraryKnown'
  BY AfreshLibrary DEF WipeCall
<1>5. ToolKnown'
  BY <1>1 DEF ToolKnown, saves
<1>6. JobKnown'
  BY <1>1 DEF JobKnown, saves
<1>7. FramesKnown'
  <2>1. frames \in Nat /\ frames' = frames
    BY <1>1, Types DEF lane
  <2>2. tool'.at = "fresh" => tool'.frames = frames
    BY <1>1
  <2>3. tool'.at = "fresh" => LaneFrom(tool.frames)'
    BY <2>1, <2>2 DEF LaneFrom
  <2> QED BY <1>1, <2>3 DEF Meant, FramesKnown, lane
<1> QED BY <1>3, <1>4, <1>5, <1>6, <1>7 DEF Meant

LEMMA HomecomingWipesMeant ==
  ASSUME Inv, Inv', Meant, Unseen = {}, HomecomingWipes
  PROVE  Meant'
<1>1. /\ library' = library /\ boot' = "wiped" /\ tool' = tool
      /\ UNCHANGED <<lane, reg, saves, unfolded, library>> /\ tool = Idle /\ jobSaves = NoName
  BY DEF HomecomingWipes, StartAfresh, Seen
<1>2. ~Quiet' /\ tool'.at # "saved" /\ tool.at = "idle"
  BY <1>1 DEF Quiet, Idle
<1>3. Known(reg, saved, unfolded)'
  BY <1>1, <1>2, UntoldKnown
<1>4. LibraryKnown'
  BY AfreshLibrary DEF HomecomingWipes
<1>5. ToolKnown' /\ JobKnown'
  BY <1>1, <1>2 DEF ToolKnown, JobKnown, saves
<1>6. FramesKnown'
  BY <1>1, <1>2 DEF Meant, FramesKnown, lane
<1> QED BY <1>3, <1>4, <1>5, <1>6 DEF Meant

(* A map is saved, by a tool or by a session's end: its name waits.         *)
LEMMA SavesKnown ==
  ASSUME Inv, Inv', Meant, NEW n \in Names, SaveLive(n), UNCHANGED <<lane, reg, saved, unfolded, boot>>,
         tool = Idle, jobSaves = NoName, boot # "wiped", unfolded = FALSE,
         \/ tool' = Idle /\ jobSaves' = n
         \/ tool'.at = "saved" /\ tool'.name = n /\ jobSaves' = jobSaves
  PROVE  /\ Known(reg, saved, unfolded)' /\ LibraryKnown'
         /\ library'[n].map = map /\ map' = map
<1>1. /\ map' = map /\ size' = size /\ newborn' = newborn /\ begun' = begun
      /\ library' = [library EXCEPT ![n] = [map |-> map, size |-> size]]
      /\ pipe' = pipe /\ hand' = hand /\ frames' = frames /\ epoch' = epoch /\ epochFrames' = epochFrames
      /\ saved' = saved /\ reg' = reg /\ unfolded' = unfolded /\ boot' = boot
  BY DEF SaveLive, lane
<1>2. /\ library'[n].map = map
      /\ \A x \in Names : x # n => library'[x] = library[x]
  BY <1>1 DEF Inv, TypeOK
<1>3. Known(reg, saved, unfolded) /\ tool.at = "idle"
  BY DEF Meant, Idle
<1>4. Quiet /\ Quiet'
  BY <1>1, <1>3 DEF Quiet, Idle
<1>5. Good(reg)' /\ Within(reg)'
  BY DEF Inv, TypeOK, Good, Within
<1>6. NamesKnown(reg, saved)'
  <2>1. Idle.at # "saved"
    BY DEF Idle
  <2>2. \A x \in Names : x # n /\ reg.maps[x] # None /\ x # saved => reg.of[reg.maps[x]] = library[x].map
    BY <1>3, NamesAssumption DEF Known, NamesKnown
  <2>3. \A x \in Names : x # n /\ reg'.maps[x] # None /\ x # saved' => reg'.of[reg'.maps[x]] = library'[x].map
    BY <1>1, <1>2, <2>2
  <2>4. n = jobSaves' \/ (tool'.at = "saved" /\ tool'.name = n)
    OBVIOUS
  <2> QED BY <2>3, <2>4 DEF NamesKnown
<1>7. LiveKnown(reg, unfolded)' /\ LaneKnown(reg, unfolded)' /\ ConfirmedKnown(reg)'
  BY <1>1, <1>3, <1>4
  DEF Known, LiveKnown, LiveOf, LaneKnown, LaneFrom, LaneHere, ConfirmedKnown
<1>8. SavedKnown(reg, saved)'
  <2>1. LiveOf(reg, map)
    BY <1>3, <1>4 DEF Known, LiveKnown
  <2>2. saved # NoName => saved \in Names /\ LiveOf(reg, library[saved].map)
                          /\ (reg.live = None => library[saved].map = map)
    BY <1>3, <1>4, Types DEF Known, SavedKnown
  <2>3. saved # NoName => LiveOf(reg, library'[saved].map)
                          /\ (reg.live = None => library'[saved].map = map)
    BY <1>2, <2>1, <2>2
  <2> QED BY <1>1, <2>3 DEF SavedKnown, LiveOf
<1>9. UnfoldedKnown(reg, unfolded)'
  BY <1>1 DEF UnfoldedKnown
<1>10. LibraryKnown'
  <2>1. map <= begun /\ \A x \in Names : library[x].map <= begun
    BY DEF Meant, LibraryKnown
  <2>2. \A x \in Names : library'[x].map <= begun
    BY <1>2, <2>1
  <2> QED BY <1>1, <2>1, <2>2 DEF LibraryKnown
<1> QED BY <1>1, <1>2, <1>5, <1>6, <1>7, <1>8, <1>9, <1>10 DEF Known

LEMMA SaveCallMeant ==
  ASSUME Inv, Inv', Meant, Unseen = {}, NEW n \in Names, SaveCall(n)
  PROVE  Meant'
<1>1. /\ SaveLive(n) /\ UNCHANGED <<lane, reg, saved, unfolded, boot>> /\ jobSaves' = jobSaves
      /\ tool = Idle /\ tool' = [at |-> "saved", name |-> n, map |-> map, frames |-> 0]
      /\ jobSaves = NoName /\ boot # "wiped"
  BY DEF SaveCall, Call, Seen, Crossing, saves
<1>2. unfolded = FALSE
  BY Types DEF SaveCall, SavesAKnownMap, Seen
<1>3. tool'.at = "saved" /\ tool'.name = n /\ tool'.map = map
  BY <1>1
<1>4. /\ Known(reg, saved, unfolded)' /\ LibraryKnown'
      /\ library'[n].map = map /\ map' = map
  BY <1>1, <1>2, <1>3, SavesKnown
<1>5. ToolKnown' /\ JobKnown'
  BY <1>1, <1>2, <1>3, <1>4 DEF ToolKnown, JobKnown
<1>6. FramesKnown'
  BY <1>1, <1>3 DEF Meant, FramesKnown, lane
<1> QED BY <1>4, <1>5, <1>6 DEF Meant

LEMMA SessionSavesMeant ==
  ASSUME Inv, Inv', Meant, Unseen = {}, NEW n \in Names, SessionSaves(n)
  PROVE  Meant'
<1>1. /\ SaveLive(n) /\ UNCHANGED <<lane, reg, saved, unfolded, boot>> /\ jobSaves' = n
      /\ tool = Idle /\ tool' = Idle /\ jobSaves = NoName /\ boot # "wiped" /\ saved = NoName
  BY DEF SessionSaves, Seen
<1>2. unfolded = FALSE
  BY Types DEF SessionSaves, SavesAKnownMap, Seen
<1>3. /\ Known(reg, saved, unfolded)' /\ LibraryKnown'
      /\ library'[n].map = map /\ map' = map
  BY <1>1, <1>2, SavesKnown
<1>4. ToolKnown'
  BY <1>1 DEF ToolKnown, Idle
<1>5. JobKnown'
  BY <1>1, <1>2, <1>3 DEF JobKnown
<1>6. FramesKnown'
  BY <1>1 DEF Meant, FramesKnown, lane, Idle
<1> QED BY <1>3, <1>4, <1>5, <1>6 DEF Meant

LEMMA SessionNotesMeant ==
  ASSUME Inv, Inv', Meant, SessionNotes
  PROVE  Meant'
<1>1. /\ map' = map /\ size' = size /\ newborn' = newborn /\ begun' = begun /\ library' = library
      /\ pipe' = pipe /\ hand' = hand /\ frames' = frames /\ epoch' = epoch /\ epochFrames' = epochFrames
      /\ reg' = reg /\ unfolded' = unfolded /\ boot' = boot /\ tool' = tool
      /\ jobSaves # NoName /\ saved' = jobSaves /\ jobSaves' = NoName
  BY DEF SessionNotes, mapper, lane
<1>2. /\ saved = NoName /\ tool = Idle /\ boot # "wiped" /\ unfolded = FALSE
      /\ library[jobSaves].map = map
  BY <1>1 DEF Meant, JobKnown
<1>3. Known(reg, saved, unfolded)
  BY DEF Meant
<1>4. Quiet
  BY <1>2 DEF Quiet, Idle
<1>5. Good(reg)' /\ Within(reg)'
  BY DEF Inv, TypeOK, Good, Within
<1>6. NamesKnown(reg, saved)'
  BY <1>1, <1>2, <1>3, NamesAssumption DEF Known, NamesKnown
<1>7. LiveKnown(reg, unfolded)' /\ LaneKnown(reg, unfolded)' /\ ConfirmedKnown(reg)'
  BY <1>1, <1>3
  DEF Known, LiveKnown, LiveOf, LaneKnown, LaneFrom, LaneHere, ConfirmedKnown, Quiet
<1>8. SavedKnown(reg, saved)'
  BY <1>1, <1>2, <1>3, <1>4 DEF Known, LiveKnown, LiveOf, SavedKnown
<1>9. UnfoldedKnown(reg, unfolded)'
  BY <1>1, <1>2 DEF UnfoldedKnown
<1>10. LibraryKnown' /\ ToolKnown' /\ JobKnown' /\ FramesKnown'
  BY <1>1 DEF Meant, LibraryKnown, ToolKnown, JobKnown, FramesKnown, LaneFrom
<1> QED BY <1>5, <1>6, <1>7, <1>8, <1>9, <1>10 DEF Meant, Known

LEMMA ForgetMeant ==
  ASSUME Inv, Inv', Meant, NEW s \in Spots, Forget(s)
  PROVE  Meant'
<1>1. /\ UNCHANGED <<mapper, lane, boot, jobSaves>> /\ tool' = tool
      /\ saved' = saved /\ unfolded' = unfolded /\ reg' = [reg EXCEPT !.places[s] = None]
  BY DEF Forget, Becomes, saves
<1>2. Known([reg EXCEPT !.places[s] = None], saved, unfolded)
  <2>1. Known(reg, saved, unfolded) /\ None \in {reg.live, None}
    BY DEF Meant
  <2> QED BY <2>1, PlacedKnown
<1>3. Known(reg', saved', unfolded')
  BY <1>1, <1>2
<1>4. Known(reg, saved, unfolded)'
  BY <1>1, <1>3, StaysKnown
<1>5. LibraryKnown' /\ ToolKnown' /\ JobKnown' /\ FramesKnown'
  BY <1>1 DEF Meant, LibraryKnown, ToolKnown, JobKnown, FramesKnown, LaneFrom, mapper, lane
<1> QED BY <1>4, <1>5 DEF Meant

LEMMA SettlesMeant ==
  ASSUME Inv, Inv', Meant, HomecomingSettles
  PROVE  Meant'
<1>1. /\ map' = map /\ size' = size /\ newborn' = newborn /\ library' = library /\ begun' = begun
      /\ pipe' = pipe /\ hand' = hand /\ frames' = frames /\ epoch' = epoch /\ epochFrames' = epochFrames
      /\ jobSaves' = jobSaves /\ saved' = saved /\ tool' = tool /\ unfolded' = unfolded
      /\ boot # "wiped" /\ boot' = "off" /\ reg' = [reg EXCEPT !.awaiting = FALSE]
  BY DEF HomecomingSettles, Becomes, mapper, lane, saves
<1>2. Known(reg, saved, unfolded) /\ Good(reg) /\ reg \in Registries
  BY DEF Meant, Known, Good
<1>3. /\ reg'.live = reg.live /\ reg'.maps = reg.maps /\ reg'.asked = reg.asked /\ reg'.watch = reg.watch
      /\ reg'.confirmed = reg.confirmed /\ reg'.of = reg.of /\ reg'.minted = reg.minted
  BY <1>1, <1>2 DEF Registries
<1>4. Good(reg)' /\ Within(reg)'
  BY DEF Inv, TypeOK, Good, Within
<1>5. NamesKnown(reg, saved)' /\ LiveKnown(reg, unfolded)' /\ SavedKnown(reg, saved)'
  BY <1>1, <1>2, <1>3 DEF Known, NamesKnown, LiveKnown, SavedKnown, Quiet, LiveOf
<1>6. LaneKnown(reg, unfolded)' /\ ConfirmedKnown(reg)'
  BY <1>1, <1>2, <1>3 DEF Known, LaneKnown, Quiet, LaneFrom, LaneHere, ConfirmedKnown
<1>7. UnfoldedKnown(reg, unfolded)'
  BY <1>1, <1>2, <1>3 DEF Known, UnfoldedKnown, Quiet, Before, After
<1>8. LibraryKnown' /\ ToolKnown' /\ JobKnown' /\ FramesKnown'
  BY <1>1 DEF Meant, LibraryKnown, ToolKnown, JobKnown, FramesKnown, LaneFrom
<1> QED BY <1>4, <1>5, <1>6, <1>7, <1>8 DEF Meant, Known

-----------------------------------------------------------------------------
(* A load and a start from nothing: the lineage is of the map taken up, and *)
(* every frame is asked to be later.                                        *)
LEMMA ToldFreshKnown ==
  ASSUME Inv, NEW k, Known(k, NoName, unfolded), jobSaves = NoName, tool.at # "saved",
         NEW q, Good(q), Within(q), OfKept(k, q), q.live # None, q.of[q.live] = map,
         NEW at \in Nat, LaneFrom(at), q.asked = {at}, q.confirmed = FALSE,
         \/ q.maps = k.maps
         \/ \E n \in Names : /\ library[n].map = map /\ q.maps[n] = q.live
                             /\ \A x \in Names : x # n => q.maps[x] = k.maps[x]
  PROVE  /\ \A x \in Names : q.maps[x] # None => q.of[q.maps[x]] = library[x].map
         /\ ConfirmedKnown(q)
<1>1. /\ k.minted \in Nat /\ \A l \in 1 .. k.minted : q.of[l] = k.of[l]
      /\ \A x \in Names : k.maps[x] # None => k.maps[x] \in 1 .. k.minted
      /\ \A x \in Names : k.maps[x] # None => k.of[k.maps[x]] = library[x].map
  <2>1. Good(k) /\ k \in Registries /\ NamesKnown(k, NoName) /\ NoName \notin Names
    BY NamesAssumption DEF Known, Good
  <2>2. \A x \in Names : k.maps[x] # None => k.maps[x] \in 1 .. k.minted
    BY <2>1 DEF Good, MintInv, None, Registries
  <2>3. \A x \in Names : k.maps[x] # None => k.of[k.maps[x]] = library[x].map
    BY <2>1 DEF NamesKnown
  <2> QED BY <2>1, <2>2, <2>3 DEF OfKept, Registries
<1>2. \A x \in Names : q.maps[x] = k.maps[x] /\ q.maps[x] # None => q.of[q.maps[x]] = library[x].map
  BY <1>1
<1>3. \A x \in Names : q.maps[x] # None => q.of[q.maps[x]] = library[x].map
  <2>1. CASE q.maps = k.maps
    BY <1>2, <2>1
  <2>2. CASE \E n \in Names : /\ library[n].map = map /\ q.maps[n] = q.live
                              /\ \A x \in Names : x # n => q.maps[x] = k.maps[x]
    BY <1>2, <2>2
  <2> QED BY <2>1, <2>2
<1>4. ConfirmedKnown(q)
  BY DEF ConfirmedKnown
<1> QED BY <1>3, <1>4

(* What the registry knows once it is told, with no tool under way.         *)
LEMMA ToldMeant ==
  ASSUME Inv, Inv', Meant, UNCHANGED <<mapper, lane, jobSaves>>, saved' = NoName, tool' = Idle,
         jobSaves = NoName, boot' # "wiped", unfolded' = FALSE, NEW q, reg' = q,
         \A x \in Names : q.maps[x] # None => q.of[q.maps[x]] = library[x].map,
         q.live # None, q.of[q.live] = map, ConfirmedKnown(q),
         (q.asked = {} => LaneHere) /\ \A at \in q.asked : LaneFrom(at)
  PROVE  Meant'
<1>1. /\ map' = map /\ size' = size /\ newborn' = newborn /\ library' = library /\ begun' = begun
      /\ pipe' = pipe /\ hand' = hand /\ frames' = frames /\ epoch' = epoch /\ epochFrames' = epochFrames
      /\ jobSaves' = NoName /\ saved' = NoName
  BY DEF mapper, lane
<1>2. Good(reg)' /\ Within(reg)'
  BY DEF Inv, TypeOK, Good, Within
<1>3. NamesKnown(reg, saved)' /\ LiveKnown(reg, unfolded)' /\ SavedKnown(reg, saved)'
  BY <1>1 DEF NamesKnown, LiveKnown, LiveOf, SavedKnown
<1>4. LaneKnown(reg, unfolded)' /\ ConfirmedKnown(reg)' /\ UnfoldedKnown(reg, unfolded)'
  BY <1>1 DEF LaneKnown, LaneFrom, LaneHere, ConfirmedKnown, UnfoldedKnown
<1>5. LibraryKnown' /\ ToolKnown' /\ JobKnown' /\ FramesKnown'
  BY <1>1 DEF Meant, LibraryKnown, ToolKnown, JobKnown, FramesKnown, Idle
<1> QED BY <1>2, <1>3, <1>4, <1>5 DEF Meant, Known

(* The saves taken before a call is told, or a wipe said.                   *)
LEMMA TakenKnown ==
  ASSUME Inv, Meant, NEW q, OfKept(TakeSaves(reg), q), Within(q)
  PROVE  Good(TakeSaves(reg)) /\ Known(TakeSaves(reg), NoName, unfolded)
<1> DEFINE k == TakeSaves(reg)
<1>1. Good(k)
  BY TakeSavesSteps DEF Steps
<1>2. Within(k)
  <2>1. OfKept(k, q)
    OBVIOUS
  <2> HIDE DEF k
  <2> QED BY <2>1, BoundsAssumption DEF OfKept, Within
<1> QED BY <1>1, <1>2, TakesKnown

LEMMA TellMeant ==
  ASSUME Inv, Inv', Meant, Tell
  PROVE  Meant'
<1> DEFINE k == TakeSaves(reg)
           q == Told(k)
<1>1. /\ tool # Idle /\ reg' = q /\ Within(q) /\ saved' = NoName /\ tool' = Idle
      /\ unfolded' = (unfolded /\ tool.at = "saved")
      /\ UNCHANGED <<mapper, lane, jobSaves>> /\ boot' = boot
  BY DEF Tell, Becomes, Within
<1>2. /\ tool.map = map /\ jobSaves = NoName /\ boot # "wiped"
      /\ tool.at \in {"loaded", "saved"} => library[tool.name].map = map
      /\ tool.at = "saved" => unfolded = FALSE
  BY <1>1 DEF Meant, ToolKnown
<1>3. /\ tool.at \in {"loaded", "saved", "wiped", "fresh"} /\ tool.map \in Maps \cup {None}
      /\ tool.at \in {"loaded", "saved"} => tool.name \in Names
      /\ tool.frames \in Nat /\ frames \in Nat
  BY <1>1, ToolTypes, Types
<1>4. unfolded' = FALSE
  BY <1>1, <1>2, <1>3
<1>5. Good(k)
  BY TakeSavesSteps DEF Steps
<1> HIDE DEF k, q
<1>6. CASE tool.at = "loaded"
  <2>1. Loads(k, tool.name, frames, tool.map, q)
    BY <1>3, <1>5, <1>6, LoadedOf DEF q, Told
  <2>2. OfKept(k, q) /\ Good(q)
    BY <2>1 DEF Loads
  <2>3. Known(k, NoName, unfolded)
    BY <1>1, <2>2, TakenKnown DEF k
  <2>4. /\ q.live = q.maps[tool.name] /\ q.live # None
        /\ \A x \in Names : x # tool.name => q.maps[x] = k.maps[x]
        /\ q.asked = {frames} /\ q.confirmed = FALSE
    BY <2>1 DEF Loads
  <2>5. q.of[q.live] = map
    <3>1. CASE k.maps[tool.name] = None
      BY <1>1, <1>2, <2>1, <3>1 DEF Loads
    <3>2. CASE k.maps[tool.name] # None
      <4>1. k.maps[tool.name] \in 1 .. k.minted /\ NoName \notin Names
        BY <1>3, <1>5, <1>6, <3>2, NamesAssumption DEF Good, MintInv, None, Registries
      <4>2. k.of[k.maps[tool.name]] = map
        BY <1>2, <1>3, <1>6, <2>3, <3>2, <4>1 DEF Known, NamesKnown
      <4>3. q.maps[tool.name] = k.maps[tool.name]
        BY <2>1, <3>2 DEF Loads
      <4> QED BY <1>1, <2>2, <2>4, <4>1, <4>2, <4>3 DEF OfKept
    <3> QED BY <3>1, <3>2
  <2>6. LaneFrom(frames)
    BY <1>3 DEF LaneFrom
  <2>7. \E n \in Names : /\ library[n].map = map /\ q.maps[n] = q.live
                         /\ \A x \in Names : x # n => q.maps[x] = k.maps[x]
    BY <1>2, <1>3, <1>6, <2>4
  <2>8. /\ \A x \in Names : q.maps[x] # None => q.of[q.maps[x]] = library[x].map
        /\ ConfirmedKnown(q)
    BY <1>1, <1>2, <1>3, <1>6, <2>2, <2>3, <2>4, <2>5, <2>6, <2>7, ToldFreshKnown
  <2> QED BY <1>1, <1>2, <1>4, <2>4, <2>5, <2>6, <2>8, ToldMeant
<1>7. CASE tool.at \in {"wiped", "fresh"}
  <2>1. PICK at \in Nat : q = StartedAfresh(k, at, tool.map) /\ LaneFrom(at)
    <3>1. CASE tool.at = "wiped"
      <4>1. q = StartedAfresh(k, frames, tool.map)
        BY <3>1 DEF q, Told
      <4>2. LaneFrom(frames)
        BY <1>3 DEF LaneFrom
      <4> QED BY <1>3, <4>1, <4>2
    <3>2. CASE tool.at = "fresh"
      <4>1. q = StartedAfresh(k, tool.frames, tool.map)
        BY <3>2 DEF q, Told
      <4>2. LaneFrom(tool.frames)
        BY <3>2 DEF Meant, FramesKnown
      <4> QED BY <1>3, <4>1, <4>2
    <3> QED BY <1>7, <3>1, <3>2
  <2>2. StartsAfreshFor(k, at, tool.map, q)
    BY <1>3, <1>5, <2>1, StartedAfreshOf
  <2>3. OfKept(k, q) /\ Good(q)
    BY <2>2 DEF StartsAfreshFor
  <2>4. Known(k, NoName, unfolded)
    BY <1>1, <2>3, TakenKnown DEF k
  <2>5. /\ q.live # None /\ q.maps = k.maps /\ q.asked = {at} /\ q.confirmed = FALSE
        /\ q.of[q.live] = map
    BY <1>1, <1>2, <2>2 DEF StartsAfreshFor
  <2>7. tool.at # "saved" /\ LaneFrom(at)
    BY <1>7, <2>1
  <2>6. /\ \A x \in Names : q.maps[x] # None => q.of[q.maps[x]] = library[x].map
        /\ ConfirmedKnown(q)
    BY <1>1, <1>2, <2>7, <2>3, <2>4, <2>5, ToldFreshKnown
  <2> QED BY <1>1, <1>2, <1>4, <2>1, <2>5, <2>6, ToldMeant
<1>8. CASE tool.at = "saved"
  <2>1. SavesAs(k, tool.name, tool.map, q)
    BY <1>3, <1>5, <1>8, SavedAsOf DEF q, Told
  <2>2. OfKept(k, q) /\ Good(q)
    BY <2>1 DEF SavesAs
  <2>3. Known(k, NoName, unfolded) /\ k \in Registries /\ k.minted \in Nat
    BY <1>1, <1>5, <2>2, TakenKnown DEF k, Good, Registries
  <2>4. /\ q.live # None /\ q.maps = [k.maps EXCEPT ![tool.name] = q.live]
        /\ k.live # None => q.live = k.live /\ q.asked = k.asked /\ q.confirmed = k.confirmed
        /\ k.live = None => /\ q.asked = {AskedAt(k)} /\ q.confirmed = FALSE
                            /\ q.of[q.live] = map
        /\ \A l \in 1 .. k.minted : q.of[l] = k.of[l]
    BY <1>1, <1>2, <2>1 DEF SavesAs, OfKept
  <2>5. Quiet /\ ~unfolded /\ NoName \notin Names
    BY <1>2, <1>8, NamesAssumption DEF Quiet
  <2>6. q.of[q.live] = map
    <3>1. CASE k.live # None
      <4>1. k.live \in 1 .. k.minted /\ k.of[k.live] = map
        BY <1>5, <2>3, <2>5, <3>1 DEF Good, MintInv, None, Registries, Known, LiveKnown, LiveOf
      <4> QED BY <2>4, <3>1, <4>1
    <3>2. CASE k.live = None
      BY <2>4, <3>2
    <3> QED BY <3>1, <3>2
  <2>7. ASSUME NEW x \in Names, q.maps[x] # None PROVE q.of[q.maps[x]] = library[x].map
    <3>1. k.maps \in [Names -> Nat]
      BY <2>3 DEF Registries
    <3>2. CASE x = tool.name
      BY <1>2, <1>8, <2>4, <2>6, <3>1, <3>2
    <3>3. CASE x # tool.name
      <4>1. q.maps[x] = k.maps[x]
        BY <2>4, <3>1, <3>3
      <4>2. k.maps[x] \in 1 .. k.minted
        BY <1>5, <2>7, <4>1 DEF Good, MintInv, None, Registries
      <4>3. k.of[k.maps[x]] = library[x].map
        BY <1>2, <2>3, <2>5, <2>7, <3>3, <4>1 DEF Known, NamesKnown
      <4> QED BY <2>4, <4>1, <4>2, <4>3
    <3> QED BY <3>2, <3>3
  <2>8. ConfirmedKnown(q)
    BY <2>3, <2>4 DEF Known, ConfirmedKnown
  <2>9. (q.asked = {} => LaneHere) /\ \A at \in q.asked : LaneFrom(at)
    <3>1. (k.asked = {} => LaneHere) /\ \A at \in k.asked : LaneFrom(at)
      BY <2>3, <2>5 DEF Known, LaneKnown
    <3>2. CASE k.live # None
      BY <2>4, <3>1, <3>2
    <3>3. CASE k.live = None
      <4>1. k.asked = {} /\ AskedAt(k) = 0
        BY <2>3, <3>3 DEF Known, ConfirmedKnown, AskedAt
      <4>2. frames > 0 => hand # NoFrame
        BY DEF Meant, FramesKnown
      <4>3. LaneFrom(0)
        BY <1>3, <3>1, <4>1, <4>2 DEF LaneFrom, LaneHere
      <4> QED BY <2>4, <3>3, <4>1, <4>3
    <3> QED BY <3>2, <3>3
  <2> QED BY <1>1, <1>2, <1>4, <2>4, <2>6, <2>7, <2>8, <2>9, ToldMeant
<1> QED BY <1>3, <1>6, <1>7, <1>8

LEMMA HomecomingSaysMeant ==
  ASSUME Inv, Inv', Meant, HomecomingSays
  PROVE  Meant'
<1> DEFINE k == TakeSaves(reg)
           q == StartedAfresh(k, frames, map)
<1>1. /\ tool = Idle /\ tool' = tool /\ boot = "wiped" /\ boot' = "said" /\ reg' = q /\ Within(q)
      /\ saved' = NoName /\ unfolded' = FALSE /\ UNCHANGED <<mapper, lane, jobSaves>>
  BY DEF HomecomingSays, Becomes, Within
<1>2. jobSaves = NoName /\ tool.at # "saved"
  BY <1>1 DEF Meant, JobKnown, Idle
<1>3. frames \in Nat /\ map \in Maps \cup {None}
  BY Types
<1>4. Good(k)
  BY TakeSavesSteps DEF Steps
<1> HIDE DEF k
<1>5. StartsAfreshFor(k, frames, map, q)
  BY <1>3, <1>4, StartedAfreshOf
<1> HIDE DEF q
<1>6. OfKept(k, q) /\ Good(q)
  BY <1>5 DEF StartsAfreshFor
<1>7. Known(k, NoName, unfolded)
  BY <1>1, <1>6, TakenKnown DEF k
<1>8. /\ q.live # None /\ q.maps = k.maps /\ q.asked = {frames} /\ q.confirmed = FALSE
      /\ q.of[q.live] = map
  BY <1>1, <1>5 DEF StartsAfreshFor
<1>9. LaneFrom(frames)
  BY <1>3 DEF LaneFrom
<1>10. /\ \A x \in Names : q.maps[x] # None => q.of[q.maps[x]] = library[x].map
       /\ ConfirmedKnown(q)
  BY <1>1, <1>2, <1>3, <1>6, <1>7, <1>8, <1>9, ToldFreshKnown
<1> QED BY <1>1, <1>2, <1>8, <1>9, <1>10, ToldMeant

LEMMA RestartMeant ==
  ASSUME Inv, Inv', Meant, Unseen = {}, Restart
  PROVE  Meant'
<1>1. /\ \E awaits \in BOOLEAN : reg' = Reread(awaits)
      /\ pipe' = NoFrame /\ hand' = NoFrame /\ frames' = 0 /\ epoch' = 0 /\ epochFrames' = 0
      /\ tool' = Idle /\ jobSaves' = NoName /\ saved' = NoName /\ unfolded' = FALSE
      /\ tool.at # "saved" /\ jobSaves = NoName /\ saved = NoName
      /\ UNCHANGED mapper \/ StartAfresh
  BY DEF Restart, Becomes, Seen
<1>2. Known(reg, saved, unfolded) /\ reg \in Registries
  BY DEF Meant, Known, Good
<1>3. /\ reg'.live = None /\ reg'.confirmed = FALSE /\ reg'.asked = {}
      /\ reg'.maps = reg.maps /\ reg'.of = reg.of
  BY <1>1, <1>2 DEF Registries, Reread
<1>4. Good(reg)' /\ Within(reg)'
  BY DEF Inv, TypeOK, Good, Within
<1>5. library' = library
  BY <1>1 DEF mapper, StartAfresh
<1>6. NamesKnown(reg, saved)'
  BY <1>1, <1>2, <1>3, <1>5 DEF Known, NamesKnown
<1>7. LiveKnown(reg, unfolded)' /\ SavedKnown(reg, saved)'
  BY <1>1, <1>3 DEF LiveKnown, LiveOf, SavedKnown
<1>8. LaneKnown(reg, unfolded)' /\ ConfirmedKnown(reg)' /\ UnfoldedKnown(reg, unfolded)'
  BY <1>1, <1>3 DEF LaneKnown, LaneHere, ConfirmedKnown, UnfoldedKnown
<1>9. LibraryKnown'
  <2>1. CASE UNCHANGED mapper
    BY <2>1 DEF Meant, LibraryKnown, mapper
  <2> QED BY <1>1, <2>1, AfreshLibrary
<1>10. ToolKnown' /\ JobKnown' /\ FramesKnown'
  BY <1>1 DEF ToolKnown, JobKnown, FramesKnown, Idle
<1> QED BY <1>4, <1>6, <1>7, <1>8, <1>9, <1>10 DEF Meant, Known

LEMMA InitMeant ==
  ASSUME Init
  PROVE  Meant
<1>1. Inv
  BY InitInv
<1>2. Good(reg) /\ Within(reg)
  BY <1>1, Types
<1>3. /\ begun = map /\ pipe = NoFrame /\ hand = NoFrame /\ frames = 0 /\ epochFrames = 0
      /\ tool = Idle /\ jobSaves = NoName /\ saved = NoName /\ unfolded = FALSE
  BY DEF Init
<1>4. /\ reg.live = None /\ reg.asked = {} /\ reg.confirmed = FALSE
      /\ \A n \in Names : reg.maps[n] # None => reg.of[reg.maps[n]] = library[n].map
      /\ \A n \in Names : library[n].map <= map
  <2> DEFINE OldReg(r, n) == r = Migrated \/ r = Kept(n) \/ r = [Migrated EXCEPT !.awaiting = TRUE]
                               \/ r = [Kept(n) EXCEPT !.awaiting = TRUE]
  <2>1. /\ NewRegistry \in Registries /\ map \in Nat /\ None \in Nat /\ MaxSize \in 0 .. MaxSize
        /\ 1 \in Maps \cup {None} /\ MaxLineages \in Nat /\ 1 <= MaxLineages
        /\ NewRegistry.minted = 0 /\ NewRegistry.live = None /\ NewRegistry.fileLive = None
        /\ NewRegistry.unclaimed = None /\ NewRegistry.asked = {} /\ NewRegistry.confirmed = FALSE
        /\ NewRegistry.maps = [n \in Names |-> None] /\ \A s \in Spots : NewRegistry.places[s] = None
    BY <1>1, BoundsAssumption, Types DEF NewRegistry, Registries, None, Maps
  <2>2. Good(NewRegistry)
    BY <2>1 DEF Good, LiveInv, MintInv, None
  <2> DEFINE k == Mint(NewRegistry, 1)
  <2>7. /\ Good(k) /\ (Within(k) => k.of[1] = 1)
        /\ k.live = None /\ k.asked = {} /\ k.confirmed = FALSE
        /\ k.maps = [n \in Names |-> None] /\ k.minted = 1
    <3>1. NextOf(NewRegistry) = 1
      BY <2>1 DEF NextOf
    <3>2. /\ Good(k) /\ (Within(k) => k.of[NextOf(NewRegistry)] = 1)
          /\ k.live = NewRegistry.live /\ k.asked = NewRegistry.asked
          /\ k.confirmed = NewRegistry.confirmed /\ k.maps = NewRegistry.maps
      BY <2>1, <2>2, MintOf
    <3>3. k.minted = 1
      BY <2>1, <3>1 DEF Mint, Registries
    <3> QED BY <2>1, <3>1, <3>2, <3>3
  <2>8. Migrated = [k EXCEPT !.fileLive = 1, !.fileSubmaps = MaxSize, !.unclaimed = 1,
                             !.places = [s \in Spots |-> 1]]
    BY DEF Migrated
  <2> HIDE DEF k
  <2>9. k.of[1] = 1 /\ k \in Registries
    BY <2>1, <2>7 DEF Good, Within
  <2>10. /\ Migrated.live = None /\ Migrated.asked = {} /\ Migrated.confirmed = FALSE
         /\ Migrated.maps = [n \in Names |-> None] /\ Migrated.of = k.of /\ Migrated \in Registries
    BY <2>1, <2>7, <2>8, <2>9 DEF Registries
  <2>3. ASSUME NEW n \in Names
        PROVE  /\ Kept(n).live = None /\ Kept(n).asked = {} /\ Kept(n).confirmed = FALSE
               /\ Kept(n).maps = [x \in Names |-> IF x = n THEN 1 ELSE None] /\ Kept(n).of = k.of
               /\ Kept(n) \in Registries
    <3>1. /\ Kept(n).live = None /\ Kept(n).asked = {} /\ Kept(n).confirmed = FALSE
          /\ Kept(n).maps = [Migrated.maps EXCEPT ![n] = 1] /\ Kept(n).of = k.of
          /\ Kept(n) \in Registries
      BY <2>1, <2>10 DEF Kept, Registries
    <3> QED BY <2>10, <3>1
  <2>4. \/ reg = NewRegistry /\ library = [n \in Names |-> [map |-> None, size |-> 0]] /\ map = 1
        \/ \E n \in Names : OldReg(reg, n) /\ library = OneSaved(n, 1) /\ map \in {1, 2}
    BY DEF Init
  <2>5. CASE reg = NewRegistry /\ library = [n \in Names |-> [map |-> None, size |-> 0]] /\ map = 1
    BY <2>5 DEF NewRegistry, None
  <2> HIDE DEF OldReg
  <2>6. ASSUME NEW n \in Names, OldReg(reg, n), library = OneSaved(n, 1), map \in {1, 2}
        PROVE  /\ reg.live = None /\ reg.asked = {} /\ reg.confirmed = FALSE
               /\ \A x \in Names : reg.maps[x] # None => reg.of[reg.maps[x]] = library[x].map
               /\ \A x \in Names : library[x].map <= map
    <3>1. \A x \in Names : library[x].map = IF x = n THEN 1 ELSE None
      BY <2>6 DEF OneSaved
    <3>2. /\ reg.live = None /\ reg.asked = {} /\ reg.confirmed = FALSE /\ reg.of[1] = 1
          /\ \A x \in Names : reg.maps[x] # None => reg.maps[x] = 1 /\ x = n
      <4>1. PICK r : (r = Migrated \/ r = Kept(n)) /\ (reg = r \/ reg = [r EXCEPT !.awaiting = TRUE])
        BY <2>6 DEF OldReg
      <4>2. /\ r.live = None /\ r.asked = {} /\ r.confirmed = FALSE /\ r.of[1] = 1 /\ r \in Registries
            /\ \A x \in Names : r.maps[x] # None => r.maps[x] = 1 /\ x = n
        <5>1. CASE r = Migrated
          BY <2>9, <2>10, <5>1
        <5>2. CASE r = Kept(n)
          BY <2>3, <2>6, <2>9, <5>2
        <5> QED BY <4>1, <5>1, <5>2
      <4>3. /\ reg.live = r.live /\ reg.asked = r.asked /\ reg.confirmed = r.confirmed /\ reg.of = r.of
            /\ reg.maps = r.maps
        BY <4>1, <4>2 DEF Registries
      <4> QED BY <4>2, <4>3
    <3> QED BY <2>6, <3>1, <3>2 DEF None
  <2> QED BY <2>4, <2>5, <2>6
<1>5. NamesKnown(reg, saved) /\ LiveKnown(reg, unfolded) /\ SavedKnown(reg, saved)
  BY <1>3, <1>4 DEF NamesKnown, LiveKnown, LiveOf, SavedKnown
<1>6. LaneKnown(reg, unfolded) /\ ConfirmedKnown(reg) /\ UnfoldedKnown(reg, unfolded)
  BY <1>3, <1>4 DEF LaneKnown, LaneHere, ConfirmedKnown, UnfoldedKnown
<1>7. LibraryKnown
  BY <1>1, <1>3, <1>4, Types DEF LibraryKnown
<1>8. ToolKnown /\ JobKnown /\ FramesKnown
  BY <1>3 DEF ToolKnown, JobKnown, FramesKnown, Idle
<1> QED BY <1>2, <1>5, <1>6, <1>7, <1>8 DEF Meant, Known

-----------------------------------------------------------------------------
(* Where nothing happens unseen every step keeps what is meant, and no look *)
(* confirms a lineage of another map.                                       *)
LEMMA MeantStep ==
  ASSUME Inv, Inv', Meant, Grace >= 1, Unseen = {}, [Next]_vars
  PROVE  Meant'
<1>1. CASE LaneStep
  BY <1>1, GrowMeant, DrawMeant, AbsorbMeant, StartsOverMeant DEF LaneStep
<1>2. CASE ToolStep
  <2>1. CASE Look \/ \E s \in Spots : Remember(s)
    BY <2>1, LookStep
  <2>2. CASE \E s \in Spots : Forget(s)
    BY <2>2, ForgetMeant
  <2>3. CASE \E n \in Names : LoadCall(n) \/ SaveCall(n)
    BY <2>3, LoadCallMeant, SaveCallMeant
  <2>4. CASE \E at \in {"wiped", "fresh"} : WipeCall(at)
    BY <2>4, WipeCallMeant
  <2>5. CASE Tell
    BY <2>5, TellMeant
  <2> QED BY <1>2, <2>1, <2>2, <2>3, <2>4, <2>5 DEF ToolStep
<1>3. CASE JobStep
  BY <1>3, SessionSavesMeant, SessionNotesMeant DEF JobStep
<1>4. CASE BootStep
  BY <1>4, HomecomingWipesMeant, HomecomingSaysMeant, SettlesMeant DEF BootStep
<1>5. CASE Restart
  BY <1>5, RestartMeant
<1>6. CASE UNCHANGED vars
  BY <1>6
  DEF Meant, Known, Good, Within, NamesKnown, LiveKnown, SavedKnown, LaneKnown, ConfirmedKnown,
      UnfoldedKnown, Quiet, LiveOf, LaneFrom, LaneHere, Before, After, LibraryKnown, ToolKnown,
      JobKnown, FramesKnown, LiveInv, MintInv, vars, mapper, lane, saves
<1> QED BY <1>1, <1>2, <1>3, <1>4, <1>5, <1>6 DEF Next

(* Who owes the registry a word is known at every step (Meant), through any  *)
(* order of calls, frames and saves, but for what it has no means to see.    *)
THEOREM MeaningIsKept ==
  ASSUME Unseen = {}, Grace >= 1
  PROVE  Spec => []Meant
<1>1. Init => Meant
  BY InitMeant
<1>2. Inv /\ Inv' /\ Meant /\ [Next]_vars => Meant'
  BY MeantStep
<1> QED BY <1>1, <1>2, Invariance, PTL DEF Spec

(* A saved name's lineage is the one of the map saved under it, once the    *)
(* tools, the jobs and the homecoming have said what they did: for every    *)
(* order of calls, frames, sessions' saves, resets and restarts in which    *)
(* nothing happens that the registry cannot see.                            *)
THEOREM NamesHold ==
  ASSUME Unseen = {}, Grace >= 1
  PROVE  Spec => []NamesMeanMaps
<1>1. Meant => NamesMeanMaps
  BY NamesAssumption DEF Meant, Known, NamesKnown, NamesMeanMaps, Settled, Means, Idle
<1> QED BY <1>1, MeaningIsKept, PTL

(* No look and no lesson ends with the pose confirmed on a lineage of       *)
(* another map than the frame in hand is of.                                *)
THEOREM ConfirmedHolds ==
  ASSUME Unseen = {}, Grace >= 1
  PROVE  Spec => ConfirmedIsHere
<1>1. /\ Inv /\ Inv' /\ Meant /\ [Next]_vars
      => (boot # "wiped" /\ Misplaced(reg') => ~(Look \/ \E s \in Spots : Remember(s)))
  BY LookStep
<1> QED BY <1>1, MeaningIsKept, Invariance, PTL DEF Spec, ConfirmedIsHere
=============================================================================
