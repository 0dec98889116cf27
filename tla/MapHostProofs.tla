---------------------------- MODULE MapHostProofs ----------------------------
(* Theorems about the map host: what it types, and that no crash, wipe, load *)
(* or save leaves a map with the walls of another, for any houses and names. *)
(* The invariant follows the host's flags to what they say of the files.     *)
(* And about the lane its maps go out on: a seq is one frame's, and whatever *)
(* carries it was told by the mapper that drew that frame.                   *)
EXTENDS MapHost, MapLane, SequenceTheorems, TLAPS

(* The worker's record and the disk's.                                       *)
HostHosts ==
  [wipeOnBoot : BOOLEAN, localize : BOOLEAN, up : BOOLEAN,
   live : Seq(Nat), band : Seq(Nat), opened : Nat, mapper : Nat,
   tracking : BOOLEAN, frozen : BOOLEAN, unsaved : BOOLEAN, bandUnsaved : BOOLEAN,
   library : HostNames \cup {HostNoName}]
HostDisks ==
  [there : SUBSET HostSlots, map : [HostSlots -> Seq(Nat)],
   band : [HostSlots -> Seq(Nat)], torn : BOOLEAN, kept : BOOLEAN]

(* A band fits a map: no layer past its submaps, each on its own.            *)
HostFits(map, band) ==
  Len(band) <= Len(map) /\ \A i \in 1 .. Len(band) : map[i] = band[i]

(* The inductive invariant, of a worker and a disk: what a slot no session   *)
(* is in holds; what the flags say of the files; and, with no write torn,    *)
(* that every band fits its map and the working one the live map as well.    *)
HostFiles(h, d) ==
  /\ HostWork \notin d.there => d.map[HostWork] = <<>>
  /\ d.kept => d.torn
  /\ ~h.unsaved /\ ~h.wipeOnBoot /\ ~d.kept => d.map[HostWork] = h.live
HostBands(h, d) ==
  ~d.torn =>
    /\ HostFits(h.live, h.band)
    /\ \A s \in HostNames : HostFits(d.map[s], d.band[s])
    /\ ~h.wipeOnBoot => HostFits(d.map[HostWork], d.band[HostWork])
    /\ ~h.wipeOnBoot /\ ~h.bandUnsaved => HostFits(h.live, d.band[HostWork])
HostGood(h, d) == h \in HostHosts /\ d \in HostDisks /\ HostFiles(h, d) /\ HostBands(h, d)

LEMMA HostTypeIs == HostTypeOK <=> host \in HostHosts /\ disk \in HostDisks
  BY DEF HostTypeOK, HostHosts, HostDisks

(* What is saved leaves the files in order, whatever fails.                  *)
LEMMA HostSaveKeeps ==
  ASSUME NEW h, NEW d, NEW fault \in HostFaults, HostGood(h, d)
  PROVE  HostGood(HostSaved(h, fault), HostSavedDisk(h, d, fault))
<1> DEFINE g == HostSaved(h, fault)
           e == HostSavedDisk(h, d, fault)
           s == IF h.unsaved /\ fault # "session" THEN HostWritten(d, HostWork, h.live) ELSE d
           b == IF h.bandUnsaved /\ fault \notin {"band", "cut"} THEN HostBanded(s, HostBandSlots(h), h.band) ELSE s
<1>h. h \in HostHosts /\ d \in HostDisks /\ HostFiles(h, d) /\ HostBands(h, d)
  BY DEF HostGood
<1>a. HostWork \in HostSlots /\ HostNames \subseteq HostSlots /\ HostWork \notin HostNames /\ HostNoName \notin HostSlots
  BY HostAssumption DEF HostSlots, HostWork, HostNoName
<1>1. /\ g \in HostHosts /\ g.live = h.live /\ g.band = h.band /\ g.wipeOnBoot = h.wipeOnBoot
      /\ g.bandUnsaved = FALSE /\ g.unsaved = (h.unsaved /\ fault = "session")
  BY <1>h DEF HostSaved, HostHosts
<1>2. /\ s \in HostDisks /\ s.band = d.band /\ s.torn = d.torn /\ s.kept = d.kept
      /\ h.unsaved /\ fault # "session" => s.map = [d.map EXCEPT ![HostWork] = h.live] /\ s.there = d.there \cup {HostWork}
      /\ ~(h.unsaved /\ fault # "session") => s = d
  BY <1>h, <1>a DEF HostWritten, HostDisks, HostHosts
<1>3. /\ b \in HostDisks /\ b.map = s.map /\ b.torn = s.torn /\ b.kept = s.kept /\ b.there = s.there
      /\ h.bandUnsaved /\ fault \notin {"band", "cut"} =>
           b.band = [t \in HostSlots |-> IF t \in HostBandSlots(h) THEN h.band ELSE d.band[t]]
      /\ ~(h.bandUnsaved /\ fault \notin {"band", "cut"}) => b.band = d.band
  <2>1. CASE h.bandUnsaved /\ fault \notin {"band", "cut"}
    <3> DEFINE bands == [t \in HostSlots |-> IF t \in HostBandSlots(h) THEN h.band ELSE s.band[t]]
    <3>1. b = [s EXCEPT !.band = bands]
      BY <2>1 DEF HostBanded
    <3>2. bands \in [HostSlots -> Seq(Nat)]
      BY <1>h, <1>2 DEF HostDisks, HostHosts
    <3>3. bands = [t \in HostSlots |-> IF t \in HostBandSlots(h) THEN h.band ELSE d.band[t]]
      BY <1>2
    <3> HIDE DEF bands
    <3>4. b \in HostDisks /\ b.map = s.map /\ b.torn = s.torn /\ b.kept = s.kept /\ b.there = s.there /\ b.band = bands
      BY <3>1, <3>2, <1>2 DEF HostDisks
    <3> QED BY <2>1, <3>3, <3>4
  <2>2. CASE ~(h.bandUnsaved /\ fault \notin {"band", "cut"})
    BY <2>2, <1>2
  <2> QED BY <2>1, <2>2
<1>4. /\ e \in HostDisks /\ e.map = b.map /\ e.band = b.band /\ e.there = b.there /\ e.kept = b.kept
      /\ e.torn = (d.torn \/ HostTears(h, d, fault))
  <2>1. e = [b EXCEPT !.torn = @ \/ HostTears(h, d, fault)]
    BY DEF HostSavedDisk
  <2>2. HostTears(h, d, fault) \in BOOLEAN
    BY DEF HostTears
  <2> QED BY <2>1, <2>2, <1>2, <1>3 DEF HostDisks
<1>5. HostFiles(g, e)
  <2>1. e.map = s.map /\ e.there = s.there /\ e.kept = d.kept /\ d.torn \in BOOLEAN /\ (d.torn => e.torn)
    BY <1>h, <1>2, <1>3, <1>4 DEF HostDisks
  <2>2. CASE h.unsaved /\ fault # "session"
    BY <2>1, <2>2, <1>h, <1>a, <1>1, <1>2 DEF HostFiles, HostDisks
  <2>3. CASE ~(h.unsaved /\ fault # "session")
    BY <2>1, <2>3, <1>h, <1>1, <1>2 DEF HostFiles
  <2> QED BY <2>2, <2>3
<1>6. HostBands(g, e)
  <2> SUFFICES ASSUME ~e.torn PROVE HostBands(g, e)!2
    BY DEF HostBands
  <2>1. ~d.torn /\ fault = "none" /\ ~d.kept
    BY <1>4, <1>h DEF HostTears, HostFiles
  <2>2. /\ h.bandUnsaved => \A t \in HostBandSlots(h) \ {HostWork} : d.map[t] = h.live
        /\ HostBandSlots(h) \subseteq HostSlots /\ HostWork \in HostBandSlots(h)
    BY <1>4, <1>h, <1>a DEF HostTears, HostBandSlots, HostHosts, HostSlots
  <2>3. /\ HostFits(h.live, h.band)
        /\ \A t \in HostNames : HostFits(d.map[t], d.band[t])
        /\ ~h.wipeOnBoot => HostFits(d.map[HostWork], d.band[HostWork])
        /\ ~h.wipeOnBoot /\ ~h.bandUnsaved => HostFits(h.live, d.band[HostWork])
    BY <1>h, <2>1 DEF HostBands
  <2>4. ~h.wipeOnBoot => e.map[HostWork] = h.live
    BY <2>1, <1>h, <1>a, <1>2, <1>3, <1>4 DEF HostFiles, HostDisks
  <2>5. \A t \in HostNames : e.map[t] = d.map[t]
    BY <2>1, <1>a, <1>2, <1>3, <1>4, <1>h DEF HostDisks
  <2>6. \A t \in HostSlots : e.band[t] = IF h.bandUnsaved /\ t \in HostBandSlots(h) THEN h.band ELSE d.band[t]
    BY <2>1, <1>2, <1>3, <1>4
  <2>7. \A t \in HostNames : HostFits(e.map[t], e.band[t])
    BY <2>2, <2>3, <2>5, <2>6, <1>a
  <2> QED BY <2>2, <2>3, <2>4, <2>6, <2>7, <1>1, <1>a
<1> QED BY <1>1, <1>4, <1>5, <1>6 DEF HostGood

LEMMA HostTailKeeps ==
  ASSUME NEW h, NEW d, NEW dirty \in BOOLEAN, HostTail(h, d, dirty),
         HostGood([h EXCEPT !.unsaved = @ \/ dirty], d)
  PROVE  HostGood(host', disk')
<1> DEFINE noted == [h EXCEPT !.unsaved = @ \/ dirty]
<1>1. \/ host' = noted /\ disk' = d
      \/ \E fault \in HostFaults : host' = HostSaved(noted, fault) /\ disk' = HostSavedDisk(noted, d, fault)
  BY DEF HostTail
<1>2. CASE host' = noted /\ disk' = d
  BY <1>2
<1>3. CASE \E fault \in HostFaults : host' = HostSaved(noted, fault) /\ disk' = HostSavedDisk(noted, d, fault)
  BY <1>3, HostSaveKeeps
<1> QED BY <1>1, <1>2, <1>3
(* What changes nothing but the flags of a worker's pose leaves it good.     *)
LEMMA HostPoseKeeps ==
  ASSUME HostGood(host, disk), NEW tracking \in BOOLEAN, NEW frozen \in BOOLEAN, NEW dirty \in BOOLEAN,
         NEW h, h = [host EXCEPT !.tracking = tracking, !.frozen = frozen]
  PROVE  HostGood([h EXCEPT !.unsaved = @ \/ dirty], disk)
<1>1. host \in HostHosts /\ disk \in HostDisks /\ HostFiles(host, disk) /\ HostBands(host, disk)
  BY DEF HostGood
<1> DEFINE g == [h EXCEPT !.unsaved = @ \/ dirty]
<1>2. /\ g \in HostHosts /\ g.live = host.live /\ g.band = host.band /\ g.wipeOnBoot = host.wipeOnBoot
      /\ g.bandUnsaved = host.bandUnsaved /\ g.unsaved = (host.unsaved \/ dirty)
  BY <1>1 DEF HostHosts
<1> HIDE DEF g
<1>3. HostFiles(g, disk)
  BY <1>1, <1>2 DEF HostFiles
<1>4. HostBands(g, disk)
  BY <1>1, <1>2 DEF HostBands
<1> QED BY <1>1, <1>2, <1>3, <1>4 DEF HostGood, g

LEMMA HostGrownKeeps ==
  ASSUME HostGood(host, disk),
         NEW h, h = HostGrown([host EXCEPT !.tracking = TRUE])
  PROVE  HostGood([h EXCEPT !.unsaved = @ \/ TRUE], disk)
<1>1. host \in HostHosts /\ disk \in HostDisks /\ HostFiles(host, disk) /\ HostBands(host, disk)
  BY DEF HostGood
<1> DEFINE g == [h EXCEPT !.unsaved = @ \/ TRUE]
<1>2. /\ g \in HostHosts /\ g.live = Append(host.live, host.opened + 1) /\ g.band = host.band
      /\ g.wipeOnBoot = host.wipeOnBoot /\ g.bandUnsaved = host.bandUnsaved /\ g.unsaved
  <2> DEFINE a == [host EXCEPT !.tracking = TRUE]
             grown == Append(host.live, host.opened + 1)
  <2>1. a \in HostHosts /\ a.live = host.live /\ a.band = host.band /\ a.wipeOnBoot = host.wipeOnBoot
        /\ a.bandUnsaved = host.bandUnsaved /\ a.opened = host.opened
    BY <1>1 DEF HostHosts
  <2>2. host.live \in Seq(Nat) /\ host.opened + 1 \in Nat
    BY <1>1 DEF HostHosts
  <2>3. grown \in Seq(Nat)
    BY <2>2
  <2>4. h = [a EXCEPT !.live = grown, !.opened = host.opened + 1]
    BY <2>1 DEF HostGrown
  <2> HIDE DEF a, grown
  <2>5. h \in HostHosts /\ h.live = grown /\ h.band = host.band /\ h.wipeOnBoot = host.wipeOnBoot
        /\ h.bandUnsaved = host.bandUnsaved
    BY <2>1, <2>2, <2>3, <2>4 DEF HostHosts
  <2>6. g = [h EXCEPT !.unsaved = TRUE]
    BY <2>5
  <2> QED BY <2>5, <2>6 DEF HostHosts, grown
<1> HIDE DEF g
<1>3. HostFiles(g, disk)
  BY <1>1, <1>2 DEF HostFiles
<1>4. ASSUME NEW band \in Seq(Nat), HostFits(host.live, band)
      PROVE  HostFits(g.live, band)
  <2>1. host.live \in Seq(Nat) /\ host.opened + 1 \in Nat
    BY <1>1 DEF HostHosts
  <2> QED BY <1>2, <1>4, <2>1 DEF HostFits
<1>5. host.band \in Seq(Nat) /\ disk.band[HostWork] \in Seq(Nat)
  BY <1>1 DEF HostHosts, HostDisks, HostSlots
<1>6. HostBands(g, disk)
  BY <1>1, <1>2, <1>4, <1>5 DEF HostBands
<1> QED BY <1>1, <1>2, <1>3, <1>6 DEF HostGood, g

LEMMA HostBookedFits ==
  ASSUME NEW h \in HostHosts, HostFits(h.live, h.band)
  PROVE  HostFits(h.live, HostBooked(h))
<1>1. h.live \in Seq(Nat) /\ h.band \in Seq(Nat)
  BY DEF HostHosts
<1>2. Len(h.band) <= Len(h.live) /\ Len(h.band) \in Nat /\ Len(h.live) \in Nat
  BY <1>1 DEF HostFits
<1> DEFINE n == Len(h.live)
           k == Len(h.band)
           b == SubSeq(h.band, 1, k) \o SubSeq(h.live, k + 1, n)
<1>3. HostBooked(h) = b
  <2>1. CASE k < n
    BY <2>1 DEF HostBooked
  <2>2. CASE ~(k < n)
    <3>1. k = n
      BY <1>2, <2>2
    <3> QED BY <3>1, <2>2 DEF HostBooked
  <2> QED BY <2>1, <2>2
<1> DEFINE b1 == SubSeq(h.band, 1, k)
           b2 == SubSeq(h.live, k + 1, n)
<1>4. b1 \in Seq(Nat) /\ Len(b1) = k /\ \A i \in 1 .. k : b1[i] = h.band[i]
  BY <1>1, <1>2, SubSeqProperties
<1>5. b2 \in Seq(Nat) /\ Len(b2) = n - k /\ \A i \in 1 .. n - k : b2[i] = h.live[k + i]
  <2>1. k + 1 \in 1 .. Len(h.live) + 1 /\ n \in (k + 1) - 1 .. Len(h.live)
    BY <1>2
  <2>2. /\ b2 \in Seq(Nat) /\ Len(b2) = n - (k + 1) + 1
        /\ \A i \in 1 .. n - (k + 1) + 1 : b2[i] = h.live[(k + 1) + i - 1]
    <3>1. \A i \in k + 1 .. n : h.live[i] \in Nat
      BY <1>1, <1>2
    <3>2. k + 1 \in Int /\ n \in Int /\ (k + 1 <= n \/ n - (k + 1) + 1 = 0)
      BY <1>2
    <3> HIDE DEF n, k
    <3>3. /\ b2 \in Seq(Nat) /\ Len(b2) = IF k + 1 <= n THEN n - (k + 1) + 1 ELSE 0
          /\ \A i \in 1 .. n - (k + 1) + 1 : b2[i] = h.live[(k + 1) + i - 1]
      BY <3>1, <3>2, SubSeqProperties
    <3> QED BY <3>2, <3>3
  <2>3. n - (k + 1) + 1 = n - k /\ \A i \in Nat : (k + 1) + i - 1 = k + i
    BY <1>2
  <2>4. n \in Nat /\ k \in Nat
    BY <1>2
  <2> HIDE DEF b2, n, k
  <2> QED BY <2>2, <2>3, <2>4
<1>b. b = b1 \o b2
  OBVIOUS
<1> HIDE DEF b, b1, b2
<1>6. Len(b) = n /\ \A i \in 1 .. n : b[i] = IF i <= k THEN b1[i] ELSE b2[i - k]
  <2>1. /\ Len(b) = Len(b1) + Len(b2)
        /\ \A i \in 1 .. Len(b1) + Len(b2) : b[i] = IF i <= Len(b1) THEN b1[i] ELSE b2[i - Len(b1)]
    <3>1. b1 \in Seq(Nat) /\ b2 \in Seq(Nat)
      BY <1>4, <1>5
    <3>2. /\ Len(b1 \o b2) = Len(b1) + Len(b2)
          /\ \A i \in 1 .. Len(b1) + Len(b2) : (b1 \o b2)[i] = IF i <= Len(b1) THEN b1[i] ELSE b2[i - Len(b1)]
      BY <3>1, ConcatProperties
    <3> QED BY <3>2, <1>b
  <2>2. n \in Nat /\ k \in Nat /\ k + (n - k) = n
    BY <1>2
  <2> HIDE DEF n, k
  <2> QED BY <2>1, <2>2, <1>4, <1>5
<1>7. ASSUME NEW i \in 1 .. n PROVE h.live[i] = b[i]
  <2>1. CASE i <= k
    <3>1. b[i] = b1[i]
      BY <2>1, <1>6
    <3>2. b1[i] = h.band[i]
      BY <2>1, <1>2, <1>4
    <3>3. h.live[i] = h.band[i]
      BY <2>1, <1>2 DEF HostFits
    <3> QED BY <3>1, <3>2, <3>3
  <2>2. CASE ~(i <= k)
    <3>1. b[i] = b2[i - k]
      BY <2>2, <1>6
    <3>2. b2[i - k] = h.live[i]
      <4>1. i - k \in 1 .. n - k /\ k + (i - k) = i
        BY <2>2, <1>2
      <4> HIDE DEF n, k
      <4> QED BY <4>1, <1>5
    <3> QED BY <3>1, <3>2
  <2> QED BY <2>1, <2>2
<1> QED BY <1>3, <1>6, <1>7, <1>2 DEF HostFits

LEMMA HostBookedType ==
  ASSUME NEW h \in HostHosts
  PROVE  HostBooked(h) \in Seq(Nat)
<1>1. h.live \in Seq(Nat) /\ h.band \in Seq(Nat) /\ Len(h.band) \in Nat /\ Len(h.live) \in Nat
  BY DEF HostHosts
<1> DEFINE n == Len(h.live)
           k == IF Len(h.band) < n THEN Len(h.band) ELSE n
<1>2. k \in Nat /\ k <= n /\ k <= Len(h.band)
  BY <1>1
<1>3. SubSeq(h.band, 1, k) \in Seq(Nat)
  BY <1>1, <1>2
<1>4. SubSeq(h.live, k + 1, n) \in Seq(Nat)
  BY <1>1, <1>2
<1> QED BY <1>3, <1>4 DEF HostBooked

LEMMA HostFrameKeeps ==
  ASSUME HostGood(host, disk),
         NEW h, h = [host EXCEPT !.band = HostBooked(host), !.bandUnsaved = TRUE]
  PROVE  HostGood([h EXCEPT !.unsaved = @ \/ FALSE], disk)
<1>1. host \in HostHosts /\ disk \in HostDisks /\ HostFiles(host, disk) /\ HostBands(host, disk)
  BY DEF HostGood
<1> DEFINE g == [h EXCEPT !.unsaved = @ \/ FALSE]
<1>2. /\ g \in HostHosts /\ g.live = host.live /\ g.band = HostBooked(host)
      /\ g.wipeOnBoot = host.wipeOnBoot /\ g.bandUnsaved /\ g.unsaved = host.unsaved
  BY <1>1, HostBookedType DEF HostHosts
<1> HIDE DEF g
<1>3. HostFiles(g, disk)
  BY <1>1, <1>2 DEF HostFiles
<1>4. HostBands(g, disk)
  BY <1>1, <1>2, HostBookedFits DEF HostBands
<1> QED BY <1>1, <1>2, <1>3, <1>4 DEF HostGood, g

(* A new mapper's record.                                                    *)
LEMMA HostMapperIs ==
  ASSUME NEW h \in HostHosts, NEW map \in Seq(Nat)
  PROVE  /\ HostMapper(h, map) \in HostHosts
         /\ HostMapper(h, map).live = map /\ HostMapper(h, map).band = h.band
         /\ HostMapper(h, map).wipeOnBoot = h.wipeOnBoot /\ HostMapper(h, map).bandUnsaved = h.bandUnsaved
         /\ HostMapper(h, map).unsaved = h.unsaved
<1>1. PICK t \in BOOLEAN : t = (map = <<>>)
  OBVIOUS
<1>2. h.mapper + 1 \in Nat /\ h.localize \in BOOLEAN
  BY DEF HostHosts
<1>3. HostMapper(h, map) = [h EXCEPT !.live = map, !.mapper = h.mapper + 1, !.tracking = t, !.frozen = h.localize]
  BY <1>1 DEF HostMapper
<1> QED BY <1>2, <1>3 DEF HostHosts

LEMMA HostPutTyped ==
  ASSUME NEW f \in [HostSlots -> Seq(Nat)], NEW s, NEW m \in Seq(Nat)
  PROVE  [f EXCEPT ![s] = m] \in [HostSlots -> Seq(Nat)]
  OBVIOUS

LEMMA HostWipeKeeps ==
  ASSUME HostGood(host, disk), NEW stays \in SUBSET {"session", "band"},
         NEW d, d = [disk EXCEPT
            !.there = IF "session" \in stays THEN @ ELSE @ \ {HostWork},
            !.map[HostWork] = IF "session" \in stays THEN @ ELSE <<>>,
            !.band[HostWork] = IF "band" \in stays THEN @ ELSE <<>>,
            !.kept = @ \/ "session" \in stays,
            !.torn = @ \/ stays # {}]
  PROVE  HostGood([HostWiped(host) EXCEPT !.unsaved = @ \/ FALSE], d)
<1>1. host \in HostHosts /\ disk \in HostDisks /\ HostFiles(host, disk) /\ HostBands(host, disk)
  BY DEF HostGood
<1>a. HostWork \in HostSlots /\ HostNames \subseteq HostSlots /\ HostWork \notin HostNames
  BY HostAssumption DEF HostSlots
<1> DEFINE g == [HostWiped(host) EXCEPT !.unsaved = @ \/ FALSE]
<1>2. /\ g \in HostHosts /\ g.live = <<>> /\ g.band = <<>> /\ g.wipeOnBoot = host.wipeOnBoot
      /\ g.bandUnsaved = FALSE /\ g.unsaved = FALSE
  <2> DEFINE m == HostMapper(host, <<>>)
  <2>0. <<>> \in Seq(Nat)
    OBVIOUS
  <2>1. m \in HostHosts /\ m.live = <<>> /\ m.wipeOnBoot = host.wipeOnBoot
    BY <1>1, <2>0, HostMapperIs
  <2> HIDE DEF m
  <2>2. HostWiped(host) = [m EXCEPT !.band = <<>>, !.library = HostNoName, !.bandUnsaved = FALSE, !.unsaved = FALSE]
    BY DEF HostWiped, m
  <2>3. HostWiped(host) \in HostHosts /\ HostWiped(host).live = <<>> /\ HostWiped(host).band = <<>>
        /\ HostWiped(host).wipeOnBoot = host.wipeOnBoot /\ HostWiped(host).bandUnsaved = FALSE
        /\ HostWiped(host).unsaved = FALSE
    BY <2>0, <2>1, <2>2 DEF HostHosts
  <2>4. g = HostWiped(host)
    BY <2>3 DEF HostHosts
  <2> QED BY <2>3, <2>4
<1>3. /\ d.there = IF "session" \in stays THEN disk.there ELSE disk.there \ {HostWork}
      /\ d.map = [disk.map EXCEPT ![HostWork] = IF "session" \in stays THEN @ ELSE <<>>]
      /\ d.band = [disk.band EXCEPT ![HostWork] = IF "band" \in stays THEN @ ELSE <<>>]
      /\ d.kept = (disk.kept \/ "session" \in stays) /\ d.torn = (disk.torn \/ stays # {})
  BY <1>1 DEF HostDisks
<1>4. d \in HostDisks
  <2>1. d.there \in SUBSET HostSlots /\ d.map \in [HostSlots -> Seq(Nat)] /\ d.band \in [HostSlots -> Seq(Nat)]
        /\ d.kept \in BOOLEAN /\ d.torn \in BOOLEAN
    <3>1. disk.map \in [HostSlots -> Seq(Nat)] /\ disk.band \in [HostSlots -> Seq(Nat)] /\ disk.there \in SUBSET HostSlots
      BY <1>1 DEF HostDisks
    <3>2. <<>> \in Seq(Nat) /\ disk.map[HostWork] \in Seq(Nat) /\ disk.band[HostWork] \in Seq(Nat)
      BY <3>1, <1>a
    <3>3. d.map \in [HostSlots -> Seq(Nat)]
      <4>1. PICK m \in Seq(Nat) : m = IF "session" \in stays THEN disk.map[HostWork] ELSE <<>>
        BY <3>2
      <4>2. d.map = [disk.map EXCEPT ![HostWork] = m]
        BY <4>1, <1>3
      <4>3. [disk.map EXCEPT ![HostWork] = m] \in [HostSlots -> Seq(Nat)]
        BY <3>1, HostPutTyped
      <4> QED BY <4>2, <4>3, Zenon
    <3>4. d.band \in [HostSlots -> Seq(Nat)]
      <4>1. PICK m \in Seq(Nat) : m = IF "band" \in stays THEN disk.band[HostWork] ELSE <<>>
        BY <3>2
      <4>2. d.band = [disk.band EXCEPT ![HostWork] = m]
        BY <4>1, <1>3
      <4>3. [disk.band EXCEPT ![HostWork] = m] \in [HostSlots -> Seq(Nat)]
        BY <3>1, HostPutTyped
      <4> QED BY <4>2, <4>3, Zenon
    <3>5. d.kept \in BOOLEAN /\ d.torn \in BOOLEAN
      BY <1>3
    <3> QED BY <3>1, <3>3, <3>4, <3>5, <1>3
  <2>2. PICK map, band, there, kept, torn :
          d = [disk EXCEPT !.there = there, !.map = map, !.band = band, !.kept = kept, !.torn = torn]
    BY <1>1 DEF HostDisks
  <2>3. d.there = there /\ d.map = map /\ d.band = band /\ d.kept = kept /\ d.torn = torn
    BY <2>2, <1>1 DEF HostDisks
  <2> QED BY <2>1, <2>2, <2>3, <1>1 DEF HostDisks
<1> HIDE DEF g
<1>5. HostFiles(g, d)
  BY <1>1, <1>a, <1>2, <1>3 DEF HostFiles, HostDisks
<1>6. HostFits(<<>>, <<>>)
  BY DEF HostFits
<1>7. HostBands(g, d)
  <2> SUFFICES ASSUME ~d.torn PROVE HostBands(g, d)!2
    BY DEF HostBands
  <2>1. ~disk.torn /\ stays = {}
    BY <1>3
  <2>2. d.map[HostWork] = <<>> /\ d.band[HostWork] = <<>>
    BY <2>1, <1>1, <1>3, <1>a DEF HostDisks
  <2>3. \A t \in HostNames : d.map[t] = disk.map[t] /\ d.band[t] = disk.band[t]
    BY <1>1, <1>3, <1>a DEF HostDisks
  <2> QED BY <2>1, <2>2, <2>3, <1>1, <1>2, <1>6 DEF HostBands
<1> QED BY <1>2, <1>4, <1>5, <1>7 DEF HostGood, g

LEMMA HostSaveAsKeeps ==
  ASSUME HostGood(host, disk), NEW n \in HostNames, NEW fault \in {"none", "band", "cut"},
         NEW d, d = [(IF fault = "none" THEN HostBanded(HostWritten(disk, n, host.live), {n}, host.band)
                                       ELSE HostWritten(disk, n, host.live)) EXCEPT !.torn = @ \/ fault # "none"]
  PROVE  /\ HostGood([host EXCEPT !.up = FALSE], d)
         /\ HostGood([[host EXCEPT !.library = n] EXCEPT !.unsaved = @ \/ FALSE], d)
<1>1. host \in HostHosts /\ disk \in HostDisks /\ HostFiles(host, disk) /\ HostBands(host, disk)
  BY DEF HostGood
<1>a. HostWork \in HostSlots /\ HostNames \subseteq HostSlots /\ HostWork \notin HostNames
  BY HostAssumption DEF HostSlots
<1> DEFINE wrote == HostWritten(disk, n, host.live)
           bands == [s \in HostSlots |-> IF s \in {n} THEN host.band ELSE wrote.band[s]]
<1>2. /\ wrote.there = disk.there \cup {n} /\ wrote.map = [disk.map EXCEPT ![n] = host.live]
      /\ wrote.band = disk.band /\ wrote.kept = disk.kept /\ wrote.torn = disk.torn /\ wrote \in HostDisks
  BY <1>1, <1>a DEF HostWritten, HostDisks, HostHosts
<1>3. bands \in [HostSlots -> Seq(Nat)]
  BY <1>1, <1>2 DEF HostDisks, HostHosts
<1>4. fault = "none" => HostBanded(wrote, {n}, host.band) = [wrote EXCEPT !.band = bands]
  BY DEF HostBanded
<1>5. /\ d \in HostDisks /\ d.there = disk.there \cup {n} /\ d.map = [disk.map EXCEPT ![n] = host.live]
      /\ d.kept = disk.kept /\ d.torn = (disk.torn \/ fault # "none")
      /\ d.band = IF fault = "none" THEN bands ELSE disk.band
  <2> HIDE DEF wrote, bands
  <2>1. CASE fault = "none"
    BY <2>1, <1>2, <1>3, <1>4 DEF HostDisks, wrote
  <2>2. CASE fault # "none"
    BY <2>2, <1>2 DEF HostDisks, wrote
  <2> QED BY <2>1, <2>2
<1>6. ASSUME NEW h \in HostHosts, h.live = host.live, h.band = host.band, h.wipeOnBoot = host.wipeOnBoot,
             h.bandUnsaved = host.bandUnsaved, h.unsaved = host.unsaved
      PROVE  HostGood(h, d)
  <2>1. HostFiles(h, d)
    BY <1>1, <1>5, <1>6, <1>a DEF HostFiles, HostDisks
  <2>2. HostBands(h, d)
    <3> SUFFICES ASSUME ~d.torn PROVE HostBands(h, d)!2
      BY DEF HostBands
    <3>1. ~disk.torn /\ fault = "none"
      BY <1>5
    <3>2. d.band[n] = host.band /\ \A s \in HostSlots \ {n} : d.band[s] = disk.band[s]
      <4>1. d.band = [s \in HostSlots |-> IF s \in {n} THEN host.band ELSE disk.band[s]]
        BY <1>2, <1>5, <3>1
      <4> QED BY <4>1, <1>a
    <3>3. d.map[n] = host.live /\ \A s \in HostSlots \ {n} : d.map[s] = disk.map[s]
      BY <1>1, <1>5, <1>a DEF HostDisks
    <3> QED BY <3>1, <3>2, <3>3, <1>1, <1>6, <1>a DEF HostBands
  <2> QED BY <2>1, <2>2, <1>5, <1>6 DEF HostGood
<1> DEFINE down == [host EXCEPT !.up = FALSE]
           named == [[host EXCEPT !.library = n] EXCEPT !.unsaved = @ \/ FALSE]
<1>7. /\ down \in HostHosts /\ down.live = host.live /\ down.band = host.band /\ down.wipeOnBoot = host.wipeOnBoot
      /\ down.bandUnsaved = host.bandUnsaved /\ down.unsaved = host.unsaved
  BY <1>1 DEF HostHosts
<1>8. /\ named \in HostHosts /\ named.live = host.live /\ named.band = host.band /\ named.wipeOnBoot = host.wipeOnBoot
      /\ named.bandUnsaved = host.bandUnsaved /\ named.unsaved = host.unsaved
  BY <1>1 DEF HostHosts
<1> QED BY <1>6, <1>7, <1>8

LEMMA HostLoadKeeps ==
  ASSUME HostGood(host, disk), NEW n \in HostNames
  PROVE  HostGood([HostTaken(host, disk, n) EXCEPT !.unsaved = @ \/ TRUE], disk)
<1>1. host \in HostHosts /\ disk \in HostDisks /\ HostFiles(host, disk) /\ HostBands(host, disk)
  BY DEF HostGood
<1> DEFINE g == [HostTaken(host, disk, n) EXCEPT !.unsaved = @ \/ TRUE]
<1>2. disk.map[n] \in Seq(Nat) /\ disk.band[n] \in Seq(Nat)
  BY <1>1 DEF HostDisks, HostSlots
<1>3. /\ g \in HostHosts /\ g.live = disk.map[n] /\ g.band = disk.band[n] /\ g.wipeOnBoot = host.wipeOnBoot
      /\ g.bandUnsaved /\ g.unsaved
  <2> DEFINE m == HostMapper(host, disk.map[n])
             t == HostTaken(host, disk, n)
  <2>1. m \in HostHosts /\ m.live = disk.map[n] /\ m.wipeOnBoot = host.wipeOnBoot
    BY <1>1, <1>2, HostMapperIs
  <2>2. t = [m EXCEPT !.tracking = FALSE, !.band = disk.band[n], !.library = n, !.bandUnsaved = TRUE, !.unsaved = TRUE]
    BY DEF HostTaken
  <2> HIDE DEF m, t
  <2>3. t \in HostHosts /\ t.live = disk.map[n] /\ t.band = disk.band[n] /\ t.wipeOnBoot = host.wipeOnBoot
        /\ t.bandUnsaved /\ t.unsaved
    BY <2>1, <2>2, <1>2 DEF HostHosts
  <2>4. g = [t EXCEPT !.unsaved = TRUE]
    BY <2>3 DEF t
  <2> QED BY <2>3, <2>4 DEF HostHosts
<1> HIDE DEF g
<1>4. HostFiles(g, disk)
  BY <1>1, <1>3 DEF HostFiles
<1>5. HostBands(g, disk)
  BY <1>1, <1>3 DEF HostBands
<1> QED BY <1>1, <1>3, <1>4, <1>5 DEF HostGood, g

LEMMA HostBootKeeps ==
  ASSUME HostGood(host, disk)
  PROVE  HostGood(HostBooted(host, disk), disk)
<1>1. host \in HostHosts /\ disk \in HostDisks /\ HostFiles(host, disk) /\ HostBands(host, disk)
  BY DEF HostGood
<1>2. disk.map[HostWork] \in Seq(Nat) /\ disk.band[HostWork] \in Seq(Nat)
  BY <1>1 DEF HostDisks, HostSlots
<1> DEFINE again == [HostFresh(host) EXCEPT !.opened = host.opened, !.mapper = host.mapper]
<1>b. /\ again \in HostHosts /\ again.live = <<>> /\ again.band = <<>> /\ again.wipeOnBoot = host.wipeOnBoot
      /\ again.unsaved = FALSE /\ again.bandUnsaved = FALSE /\ again.mapper + 1 \in Nat
  <2>1. HostFresh(host) \in HostHosts
    <3>1. host.wipeOnBoot \in BOOLEAN /\ host.localize \in BOOLEAN
      BY <1>1 DEF HostHosts
    <3> QED BY <3>1 DEF HostHosts, HostFresh
  <2>2. host.opened \in Nat /\ host.mapper \in Nat
    BY <1>1 DEF HostHosts
  <2>3. /\ HostFresh(host).live = <<>> /\ HostFresh(host).band = <<>> /\ HostFresh(host).wipeOnBoot = host.wipeOnBoot
        /\ HostFresh(host).unsaved = FALSE /\ HostFresh(host).bandUnsaved = FALSE
    BY DEF HostFresh
  <2> DEFINE f == HostFresh(host)
  <2>4. again = [f EXCEPT !.opened = host.opened, !.mapper = host.mapper]
    OBVIOUS
  <2> HIDE DEF f, again
  <2>5. f \in HostHosts /\ f.live = <<>> /\ f.band = <<>> /\ f.wipeOnBoot = host.wipeOnBoot
        /\ f.unsaved = FALSE /\ f.bandUnsaved = FALSE
    BY <2>1, <2>3 DEF f
  <2>6. /\ again.live = f.live /\ again.band = f.band /\ again.wipeOnBoot = f.wipeOnBoot
        /\ again.unsaved = f.unsaved /\ again.bandUnsaved = f.bandUnsaved /\ again.mapper = host.mapper
    BY <2>4, <2>5 DEF HostHosts
  <2>7. again \in HostHosts
    BY <2>2, <2>4, <2>5 DEF HostHosts
  <2> QED BY <2>2, <2>5, <2>6, <2>7
<1>c. HostBooted(host, disk) =
        IF host.wipeOnBoot \/ HostWork \notin disk.there
        THEN [again EXCEPT !.mapper = again.mapper + 1,
                           !.band = IF host.wipeOnBoot THEN <<>> ELSE disk.band[HostWork]]
        ELSE [HostMapper(again, disk.map[HostWork]) EXCEPT !.band = disk.band[HostWork], !.unsaved = TRUE]
  BY DEF HostBooted
<1> HIDE DEF again
<1>3. CASE host.wipeOnBoot
  <2> DEFINE g == HostBooted(host, disk)
  <2>1. g \in HostHosts /\ g.wipeOnBoot /\ g.live = <<>> /\ g.band = <<>>
    <3>1. g = [again EXCEPT !.mapper = again.mapper + 1, !.band = <<>>]
      BY <1>c, <1>3
    <3> QED BY <3>1, <1>3, <1>b DEF HostHosts
  <2> HIDE DEF g
  <2>2. HostFits(<<>>, <<>>)
    BY DEF HostFits
  <2>3. HostFiles(g, disk) /\ HostBands(g, disk)
    BY <2>1, <2>2, <1>1, <1>3 DEF HostFiles, HostBands
  <2> QED BY <2>1, <2>3, <1>1 DEF HostGood, g
<1>4. CASE ~host.wipeOnBoot /\ HostWork \notin disk.there
  <2> DEFINE g == HostBooted(host, disk)
  <2>1. /\ g \in HostHosts /\ ~g.wipeOnBoot /\ g.live = <<>> /\ g.band = disk.band[HostWork]
        /\ g.unsaved = FALSE /\ g.bandUnsaved = FALSE
    <3>1. g = [again EXCEPT !.mapper = again.mapper + 1, !.band = disk.band[HostWork]]
      BY <1>c, <1>4
    <3> QED BY <3>1, <1>2, <1>4, <1>b DEF HostHosts
  <2> HIDE DEF g
  <2>2. HostFiles(g, disk) /\ HostBands(g, disk)
    BY <2>1, <1>1, <1>4 DEF HostFiles, HostBands
  <2> QED BY <2>1, <2>2, <1>1 DEF HostGood, g
<1>5. CASE ~host.wipeOnBoot /\ HostWork \in disk.there
  <2> DEFINE g == HostBooted(host, disk)
  <2>1. /\ g \in HostHosts /\ ~g.wipeOnBoot /\ g.live = disk.map[HostWork] /\ g.band = disk.band[HostWork]
        /\ g.unsaved /\ g.bandUnsaved = FALSE
    <3> DEFINE m == HostMapper(again, disk.map[HostWork])
    <3>1. g = [m EXCEPT !.band = disk.band[HostWork], !.unsaved = TRUE]
      BY <1>c, <1>5
    <3>2. m \in HostHosts /\ m.live = disk.map[HostWork] /\ m.wipeOnBoot = host.wipeOnBoot /\ m.bandUnsaved = FALSE
      BY <1>2, <1>b, HostMapperIs
    <3> HIDE DEF m
    <3> QED BY <3>1, <3>2, <1>2, <1>5, <1>b DEF HostHosts
  <2> HIDE DEF g
  <2>2. HostFiles(g, disk) /\ HostBands(g, disk)
    BY <2>1, <1>1, <1>5 DEF HostFiles, HostBands
  <2> QED BY <2>1, <2>2, <1>1 DEF HostGood, g
<1> QED BY <1>3, <1>4, <1>5

LEMMA HostInitGood == ASSUME HostInit PROVE HostGood(host, disk)
<1>1. PICK c \in [wipeOnBoot : BOOLEAN, localize : BOOLEAN] : host = HostFresh(c)
  BY DEF HostInit, HostInits
<1>2. /\ host \in HostHosts /\ host.live = <<>> /\ host.band = <<>> /\ host.unsaved = FALSE
  <2>1. c.wipeOnBoot \in BOOLEAN /\ c.localize \in BOOLEAN
    OBVIOUS
  <2> QED BY <2>1, <1>1 DEF HostFresh, HostHosts
<1>3. /\ disk \in HostDisks /\ disk.there = {} /\ disk.kept = FALSE /\ disk.torn = FALSE
      /\ \A s \in HostSlots : disk.map[s] = <<>> /\ disk.band[s] = <<>>
  <2>1. [s \in HostSlots |-> <<>>] \in [HostSlots -> Seq(Nat)]
    OBVIOUS
  <2> DEFINE f == [s \in HostSlots |-> <<>>]
  <2>2. disk = [there |-> {}, map |-> f, band |-> f, torn |-> FALSE, kept |-> FALSE]
    BY DEF HostInit, HostDisk0
  <2>3. \A s \in HostSlots : f[s] = <<>>
    OBVIOUS
  <2> HIDE DEF f
  <2> QED BY <2>1, <2>2, <2>3 DEF HostDisks, f
<1>4. HostFits(<<>>, <<>>)
  BY DEF HostFits
<1>5. HostWork \in HostSlots /\ HostNames \subseteq HostSlots
  BY DEF HostSlots
<1> QED BY <1>2, <1>3, <1>4, <1>5 DEF HostGood, HostFiles, HostBands

LEMMA HostStepKeeps ==
  ASSUME HostGood(host, disk), [HostNext]_hostVars
  PROVE  HostGood(host', disk')
<1>h. host \in HostHosts /\ disk \in HostDisks
  BY DEF HostGood
<1>f. /\ host.tracking \in BOOLEAN /\ host.frozen \in BOOLEAN /\ host.up \in BOOLEAN
      /\ host = [host EXCEPT !.tracking = host.tracking, !.frozen = host.frozen]
  BY <1>h DEF HostHosts
<1>1. CASE HostOdom
  <2>1. CASE HostTail([host EXCEPT !.tracking = FALSE], disk, FALSE)
    <3>1. [host EXCEPT !.tracking = FALSE] = [host EXCEPT !.tracking = FALSE, !.frozen = host.frozen]
      BY <1>h DEF HostHosts
    <3> QED BY <2>1, <3>1, <1>f, HostPoseKeeps, HostTailKeeps
  <2>2. CASE \E inked \in BOOLEAN : HostTail([host EXCEPT !.tracking = TRUE], disk, inked)
    <3>1. [host EXCEPT !.tracking = TRUE] = [host EXCEPT !.tracking = TRUE, !.frozen = host.frozen]
      BY <1>h DEF HostHosts
    <3> QED BY <2>2, <3>1, <1>f, HostPoseKeeps, HostTailKeeps
  <2>3. CASE HostTail(HostGrown([host EXCEPT !.tracking = TRUE]), disk, TRUE)
    BY <2>3, HostGrownKeeps, HostTailKeeps
  <2> QED BY <1>1, <2>1, <2>2, <2>3 DEF HostOdom
<1>2. CASE HostFrame
  BY <1>2, HostFrameKeeps, HostTailKeeps DEF HostFrame
<1>3. CASE HostFreeze
  <2>1. PICK on \in BOOLEAN : HostTail([host EXCEPT !.frozen = on], disk, FALSE)
    BY <1>3 DEF HostFreeze
  <2>2. [host EXCEPT !.frozen = on] = [host EXCEPT !.tracking = host.tracking, !.frozen = on]
    BY <1>h DEF HostHosts
  <2> QED BY <2>1, <2>2, <1>f, HostPoseKeeps, HostTailKeeps
<1>4. CASE HostWipe
  BY <1>4, HostWipeKeeps, HostTailKeeps DEF HostWipe
<1>5. ASSUME NEW n \in HostNames, HostSaveAs(n) PROVE HostGood(host', disk')
  <2>1. CASE HostTail(host, disk, FALSE)
    BY <2>1, <1>f, HostPoseKeeps, HostTailKeeps
  <2>2. CASE ~HostTail(host, disk, FALSE)
    <3>1. PICK fault \in {"none", "band", "cut"} :
            LET wrote == HostWritten(disk, n, host.live)
                d == [(IF fault = "none" THEN HostBanded(wrote, {n}, host.band) ELSE wrote)
                        EXCEPT !.torn = @ \/ fault # "none"]
            IN IF fault = "cut"
               THEN host' = [host EXCEPT !.up = FALSE] /\ disk' = d
               ELSE HostTail([host EXCEPT !.library = n], d, FALSE)
      BY <1>5, <2>2 DEF HostSaveAs
    <3> DEFINE d == [(IF fault = "none" THEN HostBanded(HostWritten(disk, n, host.live), {n}, host.band)
                                        ELSE HostWritten(disk, n, host.live)) EXCEPT !.torn = @ \/ fault # "none"]
    <3>2. /\ HostGood([host EXCEPT !.up = FALSE], d)
          /\ HostGood([[host EXCEPT !.library = n] EXCEPT !.unsaved = @ \/ FALSE], d)
      BY HostSaveAsKeeps
    <3>3. IF fault = "cut"
          THEN host' = [host EXCEPT !.up = FALSE] /\ disk' = d
          ELSE HostTail([host EXCEPT !.library = n], d, FALSE)
      BY <3>1
    <3> HIDE DEF d
    <3> QED BY <3>2, <3>3, HostTailKeeps
  <2> QED BY <2>1, <2>2
<1>6. ASSUME NEW n \in HostNames, HostLoad(n) PROVE HostGood(host', disk')
  <2>1. CASE HostTail(host, disk, FALSE)
    BY <2>1, <1>f, HostPoseKeeps, HostTailKeeps
  <2>2. CASE HostTail(HostTaken(host, disk, n), disk, TRUE)
    BY <2>2, HostLoadKeeps, HostTailKeeps
  <2> QED BY <1>6, <2>1, <2>2 DEF HostLoad
<1>d. ASSUME NEW h, NEW d, HostGood(h, d) PROVE HostGood([h EXCEPT !.up = FALSE], d)
  <2> DEFINE g == [h EXCEPT !.up = FALSE]
  <2>1. h \in HostHosts /\ d \in HostDisks /\ HostFiles(h, d) /\ HostBands(h, d)
    BY <1>d DEF HostGood
  <2>2. /\ g \in HostHosts /\ g.live = h.live /\ g.band = h.band /\ g.wipeOnBoot = h.wipeOnBoot
        /\ g.bandUnsaved = h.bandUnsaved /\ g.unsaved = h.unsaved
    BY <2>1 DEF HostHosts
  <2> HIDE DEF g
  <2>3. HostFiles(g, d) /\ HostBands(g, d)
    BY <2>1, <2>2 DEF HostFiles, HostBands
  <2> QED BY <2>1, <2>2, <2>3 DEF HostGood, g
<1>7. CASE HostShutdown
  <2>1. PICK fault \in HostFaults : host' = [HostSaved(host, fault) EXCEPT !.up = FALSE] /\ disk' = HostSavedDisk(host, disk, fault)
    BY <1>7 DEF HostShutdown
  <2>2. HostGood(HostSaved(host, fault), HostSavedDisk(host, disk, fault))
    BY HostSaveKeeps
  <2> QED BY <2>1, <2>2, <1>d
<1>8. CASE HostCrash
  BY <1>8, <1>d DEF HostCrash
<1>9. CASE HostBoot
  BY <1>9, HostBootKeeps DEF HostBoot
<1>10. CASE UNCHANGED hostVars
  BY <1>10 DEF hostVars
<1> QED BY <1>1, <1>2, <1>3, <1>4, <1>5, <1>6, <1>7, <1>8, <1>9, <1>10 DEF HostNext

LEMMA HostGoodIsTrue == HostGood(host, disk) => HostTypeOK /\ HostTrue
<1> SUFFICES ASSUME HostGood(host, disk) PROVE HostTypeOK /\ HostTrue
  OBVIOUS
<1>1. host \in HostHosts /\ disk \in HostDisks /\ HostFiles(host, disk) /\ HostBands(host, disk)
  BY DEF HostGood
<1>2. ASSUME NEW map \in Seq(Nat), NEW band \in Seq(Nat), HostFits(map, band) PROVE HostAgree(map, band)
  <2>1. DOMAIN map = 1 .. Len(map) /\ DOMAIN band = 1 .. Len(band)
    OBVIOUS
  <2> QED BY <2>1, <1>2 DEF HostFits, HostAgree
<1>3. ~disk.torn => HostAgree(host.live, host.band)
  <2>1. host.live \in Seq(Nat) /\ host.band \in Seq(Nat)
    BY <1>1 DEF HostHosts
  <2> QED BY <2>1, <1>1, <1>2 DEF HostBands
<1>4. ~disk.torn => \A s \in HostRead : HostAgree(disk.map[s], disk.band[s])
  <2> SUFFICES ASSUME ~disk.torn, NEW s \in HostRead PROVE HostAgree(disk.map[s], disk.band[s])
    OBVIOUS
  <2>1. s \in HostNames \/ (s = HostWork /\ ~host.wipeOnBoot)
    BY DEF HostRead, HostSlots
  <2>2. HostFits(disk.map[s], disk.band[s])
    BY <1>1, <2>1 DEF HostBands
  <2>3. disk.map[s] \in Seq(Nat) /\ disk.band[s] \in Seq(Nat)
    BY <1>1, <2>1 DEF HostDisks, HostSlots
  <2> QED BY <2>2, <2>3, <1>2
<1>5. HostWorkIsLive
  BY <1>1 DEF HostWorkIsLive, HostFiles
<1> QED BY <1>1, <1>3, <1>4, <1>5, HostTypeIs DEF HostTrue, HostBandFits

(* The map host keeps its records in type in every behaviour.                *)
THEOREM HostTyped == HostSpec => []HostTypeOK
<1>1. HostInit => HostGood(host, disk)
  BY HostInitGood
<1>2. HostGood(host, disk) /\ [HostNext]_hostVars => HostGood(host, disk)'
  BY HostStepKeeps
<1>3. HostGood(host, disk) => HostTypeOK
  BY HostGoodIsTrue
<1> QED BY <1>1, <1>2, <1>3, PTL DEF HostSpec

(* The map host's promise about its files: every band lies where it was seen *)
(* as long as no write was torn, and what is taken for saved is on disk.     *)
THEOREM HostKeepsItsFiles == HostSpec => []HostTrue
<1>1. HostInit => HostGood(host, disk)
  BY HostInitGood
<1>2. HostGood(host, disk) /\ [HostNext]_hostVars => HostGood(host, disk)'
  BY HostStepKeeps
<1>3. HostGood(host, disk) => HostTrue
  BY HostGoodIsTrue
<1> QED BY <1>1, <1>2, <1>3, PTL DEF HostSpec

------------------------------------------------------------------------------
(* What is on its way to the client, and the frame it holds. *)
LaneHeld == {lane.queue[i] : i \in DOMAIN lane.queue} \cup {lane.frame}

(* A seq names one mapper; the last one published names the live mapper for  *)
(* as long as its render is kept.                                            *)
LaneSeqIsOnes ==
  /\ \A a, b \in LaneHeld : a.seq = b.seq => a.mapper = b.mapper
  /\ \A a \in LaneHeld : a.seq <= shown.seq
  /\ \A i \in DOMAIN lane.queue : lane.queue[i].seq > 0
  /\ shown.rendered => \A a \in LaneHeld : a.seq = shown.seq => a.mapper = shown.mapper
  /\ lane.frame = LaneNoFrame \/ lane.frame.seq > 0

(* The inductive invariant. *)
LaneInv == LaneTypeOK /\ LaneSeqIsOnes /\ LanePoseOnFrame

(* What a sent item does to the queue: nothing, or it comes last. *)
LEMMA LaneSendHolds ==
  ASSUME lane.queue \in Seq(LaneItems), NEW item \in LaneItems,
         lane \in [on : BOOLEAN, queue : Seq(LaneItems),
                   frame : LaneItems \cup {LaneNoFrame}, pose : Nat],
         LaneSend(item)
  PROVE  /\ lane' \in [on : BOOLEAN, queue : Seq(LaneItems),
                       frame : LaneItems \cup {LaneNoFrame}, pose : Nat]
         /\ lane'.frame = lane.frame /\ lane'.pose = lane.pose
         /\ LaneHeld' \subseteq LaneHeld \cup {item}
         /\ \A i \in DOMAIN lane'.queue :
              lane'.queue[i] = item \/ \E j \in DOMAIN lane.queue : lane'.queue[i] = lane.queue[j]
<1>1. CASE lane' = lane
  BY <1>1 DEF LaneHeld
<1>2. CASE lane' = [lane EXCEPT !.queue = Append(@, item)]
  <2> DEFINE q == Append(lane.queue, item)
  <2>1. /\ lane'.queue = q /\ lane'.frame = lane.frame /\ lane'.pose = lane.pose
        /\ lane'.on = lane.on
    BY <1>2
  <2>2. /\ q \in Seq(LaneItems)
        /\ DOMAIN q = 1 .. Len(lane.queue) + 1
        /\ \A i \in 1 .. Len(lane.queue) : q[i] = lane.queue[i]
        /\ q[Len(lane.queue) + 1] = item
    OBVIOUS
  <2>3. \A i \in DOMAIN q : q[i] = item \/ \E j \in DOMAIN lane.queue : q[i] = lane.queue[j]
    BY <2>2
  <2>4. lane' \in [on : BOOLEAN, queue : Seq(LaneItems),
                   frame : LaneItems \cup {LaneNoFrame}, pose : Nat]
    BY <1>2, <2>2
  <2> HIDE DEF q
  <2> QED BY <2>1, <2>3, <2>4 DEF LaneHeld
<1> QED BY <1>1, <1>2 DEF LaneSend

LEMMA LaneInitInv == LaneInit => LaneInv
BY DEF LaneInit, LaneInv, LaneTypeOK, LaneSeqIsOnes, LanePoseOnFrame, LaneHeld, LaneNoFrame, LaneItems

LEMMA LaneNextInv == LaneInv /\ [LaneNext]_laneVars => LaneInv'
<1> SUFFICES ASSUME LaneInv, [LaneNext]_laneVars PROVE LaneInv'
  OBVIOUS
<1> USE DEF LaneInv
<1> DEFINE Shown == [mapper : Nat, mapped : BOOLEAN, rendered : BOOLEAN, seq : Nat]
           Lanes == [on : BOOLEAN, queue : Seq(LaneItems),
                     frame : LaneItems \cup {LaneNoFrame}, pose : Nat]
<1>t. shown \in Shown /\ lane \in Lanes
  BY DEF LaneTypeOK
<1>q. \A i \in DOMAIN lane.queue : lane.queue[i] \in LaneItems
  BY <1>t
<1>f. lane.frame \in LaneItems \cup {LaneNoFrame}
  BY <1>t
<1>s. \A a \in LaneHeld : a.seq \in Nat /\ a.mapper \in Nat
  <2>1. \A a \in LaneItems \cup {LaneNoFrame} : a.seq \in Nat /\ a.mapper \in Nat
    BY DEF LaneItems, LaneNoFrame
  <2>2. \A a \in LaneHeld : a \in LaneItems \cup {LaneNoFrame}
    BY <1>q, <1>f DEF LaneHeld
  <2> QED BY <2>1, <2>2
<1>1. CASE LaneMapped
  <2>1. /\ lane' = lane /\ shown' \in Shown
        /\ shown'.seq = shown.seq /\ shown'.mapper = shown.mapper
        /\ shown'.rendered = shown.rendered
    BY <1>1, <1>t DEF LaneMapped
  <2>2. LaneHeld' = LaneHeld
    BY <2>1 DEF LaneHeld
  <2> QED BY <1>t, <2>1, <2>2 DEF LaneTypeOK, LaneSeqIsOnes, LanePoseOnFrame
<1>2. CASE LaneReplace
  <2>1. PICK mapped \in BOOLEAN : shown' = LaneReplaced(shown, mapped)
    BY <1>2 DEF LaneReplace
  <2>2. /\ lane' = lane /\ shown' \in Shown
        /\ shown'.seq = shown.seq /\ ~shown'.rendered
    <3>1. shown.mapper + 1 \in Nat
      BY <1>t
    <3>2. shown' = [shown EXCEPT !.mapper = shown.mapper + 1, !.mapped = mapped,
                                 !.rendered = FALSE]
      BY <2>1 DEF LaneReplaced
    <3> QED BY <1>2, <1>t, <3>1, <3>2 DEF LaneReplace
  <2>3. LaneHeld' = LaneHeld
    BY <2>2 DEF LaneHeld
  <2> QED BY <1>t, <2>2, <2>3 DEF LaneTypeOK, LaneSeqIsOnes, LanePoseOnFrame
<1>3. CASE LaneFrame
  <2> DEFINE item == [kind |-> "frame", seq |-> shown.seq + 1, mapper |-> shown.mapper]
  <2>1. item \in LaneItems /\ LaneSend(item)
    BY <1>3, <1>t DEF LaneFrame, LaneItems
  <2>2. /\ lane' \in Lanes /\ lane'.frame = lane.frame /\ lane'.pose = lane.pose
        /\ LaneHeld' \subseteq LaneHeld \cup {item}
        /\ \A i \in DOMAIN lane'.queue :
             lane'.queue[i] = item \/ \E j \in DOMAIN lane.queue : lane'.queue[i] = lane.queue[j]
    BY <2>1, <1>t, LaneSendHolds
  <2>3. /\ shown'.rendered /\ shown'.seq = shown.seq + 1 /\ shown'.mapper = shown.mapper
        /\ shown' \in Shown
    <3>1. shown.seq + 1 \in Nat
      BY <1>t
    <3>2. shown' = [shown EXCEPT !.rendered = TRUE, !.seq = shown.seq + 1]
      BY <1>3 DEF LaneFrame
    <3> QED BY <1>t, <3>1, <3>2
  <2>4. item.seq = shown.seq + 1 /\ item.mapper = shown.mapper
    OBVIOUS
  <2> HIDE DEF item
  <2>5. LaneSeqIsOnes'
    <3>1. \A a \in LaneHeld' : a = item \/ a \in LaneHeld
      BY <2>2
    <3>2. \A a \in LaneHeld : a.seq <= shown.seq /\ a.seq \in Nat
      BY <1>s DEF LaneSeqIsOnes
    <3>3. shown.seq \in Nat
      BY <1>t
    <3>4. \A a, b \in LaneHeld' : a.seq = b.seq => a.mapper = b.mapper
      BY <2>4, <3>1, <3>2, <3>3 DEF LaneSeqIsOnes
    <3>5. \A a \in LaneHeld' :
            /\ a.seq <= shown'.seq
            /\ a.seq = shown'.seq => a.mapper = shown'.mapper
      BY <2>3, <2>4, <3>1, <3>2, <3>3
    <3>6. \A i \in DOMAIN lane'.queue : lane'.queue[i].seq > 0
      BY <2>2, <2>4, <3>3 DEF LaneSeqIsOnes
    <3> QED BY <2>2, <3>4, <3>5, <3>6 DEF LaneSeqIsOnes
  <2> QED BY <2>2, <2>3, <2>5 DEF LaneTypeOK, LanePoseOnFrame
<1>4. CASE LanePose
  <2> DEFINE item == [kind |-> "pose", seq |-> shown.seq, mapper |-> shown.mapper]
  <2>1. item \in LaneItems /\ LaneSend(item) /\ shown.rendered /\ shown.seq > 0 /\ shown' = shown
    BY <1>4, <1>t DEF LanePose, LanePosed, LaneItems
  <2>2. /\ lane' \in Lanes /\ lane'.frame = lane.frame /\ lane'.pose = lane.pose
        /\ LaneHeld' \subseteq LaneHeld \cup {item}
        /\ \A i \in DOMAIN lane'.queue :
             lane'.queue[i] = item \/ \E j \in DOMAIN lane.queue : lane'.queue[i] = lane.queue[j]
    BY <2>1, <1>t, LaneSendHolds
  <2>4. item.seq = shown.seq /\ item.mapper = shown.mapper
    OBVIOUS
  <2> HIDE DEF item
  <2>5. LaneSeqIsOnes'
    <3>1. \A a \in LaneHeld' : a = item \/ a \in LaneHeld
      BY <2>2
    <3>2. \A a, b \in LaneHeld' : a.seq = b.seq => a.mapper = b.mapper
      BY <2>1, <2>4, <3>1 DEF LaneSeqIsOnes
    <3>3. \A a \in LaneHeld' :
            /\ a.seq <= shown'.seq
            /\ a.seq = shown'.seq => a.mapper = shown'.mapper
      BY <1>t, <2>1, <2>4, <3>1 DEF LaneSeqIsOnes
    <3>4. \A i \in DOMAIN lane'.queue : lane'.queue[i].seq > 0
      BY <2>1, <2>2, <2>4 DEF LaneSeqIsOnes
    <3> QED BY <2>2, <3>2, <3>3, <3>4 DEF LaneSeqIsOnes
  <2> QED BY <1>t, <2>1, <2>2, <2>5 DEF LaneTypeOK, LanePoseOnFrame
<1>5. CASE LaneOpen
  <2>1. /\ lane'.queue = lane.queue /\ lane'.frame = lane.frame /\ lane'.pose = lane.pose
        /\ shown' = shown /\ lane' \in Lanes
    BY <1>5, <1>t DEF LaneOpen
  <2>2. LaneHeld' = LaneHeld
    BY <2>1 DEF LaneHeld
  <2> QED BY <1>t, <2>1, <2>2 DEF LaneTypeOK, LaneSeqIsOnes, LanePoseOnFrame
<1>6. CASE LaneLost
  <2>1. /\ lane'.queue = <<>> /\ lane'.frame = lane.frame /\ lane'.pose = lane.pose
        /\ shown' = shown /\ lane' \in Lanes
    <3>1. <<>> \in Seq(LaneItems)
      OBVIOUS
    <3>2. lane' = [lane EXCEPT !.on = FALSE, !.queue = <<>>] /\ shown' = shown
      BY <1>6 DEF LaneLost
    <3> QED BY <1>t, <3>1, <3>2
  <2>2. LaneHeld' \subseteq LaneHeld /\ DOMAIN lane'.queue = {}
    BY <2>1 DEF LaneHeld
  <2> QED BY <1>t, <2>1, <2>2 DEF LaneTypeOK, LaneSeqIsOnes, LanePoseOnFrame
<1>7. CASE LaneTake
  <2> DEFINE item == Head(lane.queue)
  <2>1. /\ item = lane.queue[1] /\ 1 \in DOMAIN lane.queue
        /\ item \in LaneItems /\ Tail(lane.queue) \in Seq(LaneItems)
        /\ \A i \in DOMAIN Tail(lane.queue) :
             i + 1 \in DOMAIN lane.queue /\ Tail(lane.queue)[i] = lane.queue[i + 1]
    BY <1>7, <1>t DEF LaneTake
  <2>2. /\ lane' = LaneAbsorbed([lane EXCEPT !.queue = Tail(@)], item) /\ shown' = shown
    BY <1>7 DEF LaneTake
  <2> HIDE DEF item
  <2>3. item \in LaneHeld /\ lane.frame \in LaneHeld /\ item.seq > 0
    BY <2>1 DEF LaneHeld, LaneSeqIsOnes
  <2>4. /\ lane' \in Lanes /\ lane'.queue = Tail(lane.queue)
        /\ \/ lane'.frame = item /\ lane'.pose = item.mapper
           \/ lane'.frame = lane.frame
              /\ (lane'.pose = lane.pose \/ (lane.frame.seq = item.seq /\ lane'.pose = item.mapper))
    BY <2>1, <2>2, <1>t DEF LaneAbsorbed, LaneItems
  <2>5. LaneHeld' \subseteq LaneHeld
    BY <2>1, <2>3, <2>4 DEF LaneHeld
  <2>6. LaneSeqIsOnes'
    <3>1. /\ \A a, b \in LaneHeld' : a.seq = b.seq => a.mapper = b.mapper
          /\ \A a \in LaneHeld' : a.seq <= shown'.seq
          /\ shown'.rendered => \A a \in LaneHeld' : a.seq = shown'.seq => a.mapper = shown'.mapper
      BY <2>2, <2>5 DEF LaneSeqIsOnes
    <3>2. \A i \in DOMAIN lane'.queue : lane'.queue[i].seq > 0
      BY <2>1, <2>4 DEF LaneSeqIsOnes
    <3>3. lane'.frame = LaneNoFrame \/ lane'.frame.seq > 0
      BY <2>3, <2>4 DEF LaneSeqIsOnes
    <3> QED BY <3>1, <3>2, <3>3 DEF LaneSeqIsOnes
  <2>7. LanePoseOnFrame'
    BY <2>3, <2>4 DEF LanePoseOnFrame, LaneSeqIsOnes, LaneNoFrame
  <2> QED BY <1>t, <2>2, <2>4, <2>6, <2>7 DEF LaneTypeOK
<1>8. CASE UNCHANGED laneVars
  BY <1>8 DEF laneVars, LaneTypeOK, LaneSeqIsOnes, LanePoseOnFrame, LaneHeld
<1> QED
  BY <1>1, <1>2, <1>3, <1>4, <1>5, <1>6, <1>7, <1>8 DEF LaneNext

(* The lane keeps its invariant, whatever is queued, dropped or lost with a  *)
(* stream.                                                                   *)
THEOREM LaneInvariance == LaneSpec => []LaneInv
BY LaneInitInv, LaneNextInv, PTL DEF LaneSpec

(* The pose a client holds was told by the mapper that drew the frame it     *)
(* holds, for queues of any length and any number of mappers and frames.     *)
THEOREM LanePoseOnFrameHolds == LaneSpec => []LanePoseOnFrame
BY LaneInvariance, PTL DEF LaneInv
=============================================================================
