------------------------------ MODULE MapHost ------------------------------
(* The map host (quack-nav/src/mapd): the worker that owns the mapper, its   *)
(* band and the files beside it.  What it publishes is MapLane's.            *)
(*                                                                           *)
(* A submap is a number, given when it opens; a map is the sequence of its   *)
(* submaps and a band the sequence of its layers, each named for the submap  *)
(* it was seen in.  Layer i is drawn at the anchor of submap i, so a band is *)
(* right where the two sequences agree.  What the mapper decides (MapperTrust)*)
(* is a free choice here: it loses its pose, finds it, inks, opens a submap. *)
(* A file is written whole or not at all (written beside and renamed).       *)
EXTENDS Naturals, Sequences

CONSTANTS
  HostNames,      \* the names of the map library
  HostSubmaps,    \* bound: submaps ever opened
  HostMappers     \* bound: mappers ever built

HostWork == "work"                       \* the working session, map_path
HostSlots == HostNames \cup {HostWork}
HostNoName == "none"

ASSUME HostAssumption ==
  /\ HostWork \notin HostNames /\ HostNoName \notin HostNames
  /\ HostSubmaps \in Nat /\ HostMappers \in Nat

VARIABLES
  host,   \* the worker: its configuration, its locals, its mapper and band
  disk    \* the sessions and bands beside map_path

hostVars == <<host, disk>>

(* Two sequences name the same submaps as far as both go. *)
HostAgree(map, band) ==
  \A i \in DOMAIN map \cap DOMAIN band : map[i] = band[i]

HostTypeOK ==
  /\ host \in [wipeOnBoot : BOOLEAN, localize : BOOLEAN, up : BOOLEAN,
               live : Seq(Nat), band : Seq(Nat), opened : Nat, mapper : Nat,
               tracking : BOOLEAN, frozen : BOOLEAN,
               unsaved : BOOLEAN, bandUnsaved : BOOLEAN,
               library : HostNames \cup {HostNoName}]
  /\ disk \in [there : SUBSET HostSlots, map : [HostSlots -> Seq(Nat)],
               band : [HostSlots -> Seq(Nat)], torn : BOOLEAN, kept : BOOLEAN]

-----------------------------------------------------------------------------
(* A mapper on a map, as `Mapper::new` leaves it: it trusts a fresh map's    *)
(* pose and no other, and localize mode makes every mapper a frozen one.     *)
HostMapper(h, map) ==
  [h EXCEPT !.live = map, !.mapper = @ + 1, !.tracking = (map = <<>>),
            !.frozen = h.localize]

HostFresh(config) ==
  [wipeOnBoot |-> config.wipeOnBoot, localize |-> config.localize, up |-> TRUE,
   live |-> <<>>, band |-> <<>>, opened |-> 0, mapper |-> 1,
   tracking |-> TRUE, frozen |-> config.localize,
   unsaved |-> FALSE, bandUnsaved |-> FALSE, library |-> HostNoName]

HostInits == {HostFresh(c) : c \in [wipeOnBoot : BOOLEAN, localize : BOOLEAN]}
HostDisk0 ==
  [there |-> {}, map |-> [s \in HostSlots |-> <<>>],
   band |-> [s \in HostSlots |-> <<>>], torn |-> FALSE, kept |-> FALSE]

HostInit == host \in HostInits /\ disk = HostDisk0

-----------------------------------------------------------------------------
(* Writing.  A session and its band are two files, written in that order;    *)
(* either write may fail, and a power cut may fall between them.             *)
HostFaults == {"none", "session", "band", "cut"}

HostWritten(d, s, map) == [d EXCEPT !.there = @ \cup {s}, !.map[s] = map]

HostBanded(d, slots, band) ==
  [d EXCEPT !.band = [s \in HostSlots |-> IF s \in slots THEN band ELSE @[s]]]

(* The band goes beside the working session and, while the map is frozen,    *)
(* beside the library map it was loaded from or saved as.                    *)
HostBandSlots(h) ==
  {HostWork} \cup IF h.frozen /\ h.library # HostNoName THEN {h.library} ELSE {}

(* The two files of a slot are known to be one map's until a write fails, is *)
(* cut short, or puts a band beside a library session of fewer submaps.      *)
HostTears(h, d, fault) ==
  \/ fault # "none"
  \/ h.bandUnsaved /\ \E s \in HostBandSlots(h) \ {HostWork} : d.map[s] # h.live

(* What an autosave, and the save at shutdown, write. *)
HostSavedDisk(h, d, fault) ==
  LET sessioned == IF h.unsaved /\ fault # "session"
                   THEN HostWritten(d, HostWork, h.live) ELSE d
      banded == IF h.bandUnsaved /\ fault \notin {"band", "cut"}
                THEN HostBanded(sessioned, HostBandSlots(h), h.band)
                ELSE sessioned
  IN [banded EXCEPT !.torn = @ \/ HostTears(h, d, fault)]

(* Mutant: a session that could not be written is taken for saved. *)
HostSavedOnce(h, fault) ==
  [h EXCEPT !.unsaved = FALSE, !.bandUnsaved = FALSE, !.up = fault # "cut"]

(* A session that could not be written is tried again; a band is not. *)
HostSaved(h, fault) ==
  [h EXCEPT !.unsaved = @ /\ fault = "session", !.bandUnsaved = FALSE,
            !.up = fault # "cut"]

-----------------------------------------------------------------------------
(* The end of the worker's loop after an event left it at h and d: what the  *)
(* mapper changed is unsaved, and an autosave may be due.                    *)
HostTail(h, d, dirty) ==
  LET noted == [h EXCEPT !.unsaved = @ \/ dirty]
  IN \/ host' = noted /\ disk' = d
     \/ \E fault \in HostFaults :
          /\ noted.unsaved \/ noted.bandUnsaved
          /\ host' = HostSaved(noted, fault)
          /\ disk' = HostSavedDisk(noted, d, fault)

-----------------------------------------------------------------------------
(* Event::Odom.  The mapper's tick: it may lose the pose, find it, ink, or   *)
(* open a submap.  A map that is not frozen is ticked while the pose is      *)
(* trusted and at the resume, so a fresh map has its first submap at once;   *)
(* with no submap there is nothing to find the pose on.                      *)
HostGrown(h) ==
  [h EXCEPT !.live = Append(@, h.opened + 1), !.opened = @ + 1]

HostOdom ==
  /\ host.up
  /\ \/ HostTail([host EXCEPT !.tracking = FALSE], disk, FALSE)
     \/ /\ host.tracking \/ host.live # <<>>
        /\ host.frozen
        /\ HostTail([host EXCEPT !.tracking = TRUE], disk, FALSE)
     \/ /\ host.live # <<>>
        /\ ~host.frozen
        /\ \E inked \in BOOLEAN :
             HostTail([host EXCEPT !.tracking = TRUE], disk, inked)
     \/ /\ host.tracking \/ host.live # <<>>
        /\ ~host.frozen
        /\ host.opened < HostSubmaps
        /\ HostTail(HostGrown([host EXCEPT !.tracking = TRUE]), disk, TRUE)

(* Event::Frame, the booked kind: standing, the pose tracked.  Layers past   *)
(* the submaps are dropped, missing ones added, and the last one learns.     *)
HostBooked(h) ==
  LET n == Len(h.live)
      kept == IF Len(h.band) < n THEN Len(h.band) ELSE n
  IN SubSeq(h.band, 1, kept) \o SubSeq(h.live, kept + 1, n)

HostFrame ==
  /\ host.up
  /\ host.tracking
  /\ host.live # <<>>
  /\ HostTail([host EXCEPT !.band = HostBooked(host), !.bandUnsaved = TRUE],
              disk, FALSE)

(* Event::Freeze, either way. *)
HostFreeze ==
  /\ host.up
  /\ \E on \in BOOLEAN :
       HostTail([host EXCEPT !.frozen = on], disk, FALSE)

(* Mutant: a wipe leaves the band in memory. *)
HostWipedKeepsBand(h) ==
  [HostMapper(h, <<>>) EXCEPT !.library = HostNoName,
     !.bandUnsaved = FALSE, !.unsaved = FALSE]

(* Event::Wipe: a fresh mapper, both files removed; a removal that fails is  *)
(* a warning (the session) or nothing at all (the band).                     *)
HostWiped(h) ==
  [HostMapper(h, <<>>) EXCEPT !.band = <<>>, !.library = HostNoName,
     !.bandUnsaved = FALSE, !.unsaved = FALSE]

HostWipe ==
  /\ host.up
  /\ host.mapper < HostMappers
  /\ \E stays \in SUBSET {"session", "band"} :
       HostTail(HostWiped(host),
         [disk EXCEPT
            !.there = IF "session" \in stays THEN @ ELSE @ \ {HostWork},
            !.map[HostWork] = IF "session" \in stays THEN @ ELSE <<>>,
            !.band[HostWork] = IF "band" \in stays THEN @ ELSE <<>>,
            !.kept = @ \/ "session" \in stays,
            !.torn = @ \/ stays # {}],
         FALSE)

(* Event::SaveAs: refused while the pose is lost; session, then band. *)
HostSaveAs(n) ==
  /\ host.up
  /\ \/ ~host.tracking /\ HostTail(host, disk, FALSE)
     \/ host.tracking /\ HostTail(host, disk, FALSE)       \* the write failed
     \/ /\ host.tracking
        /\ \E fault \in {"none", "band", "cut"} :
             LET wrote == HostWritten(disk, n, host.live)
                 d == [(IF fault = "none" THEN HostBanded(wrote, {n}, host.band) ELSE wrote)
                         EXCEPT !.torn = @ \/ fault # "none"]
             IN IF fault = "cut"
                THEN host' = [host EXCEPT !.up = FALSE] /\ disk' = d
                ELSE HostTail([host EXCEPT !.library = n], d, FALSE)

(* Event::Load and Event::Adopt, seen from here alike: the named session     *)
(* becomes the live map, unconfirmed, with the band beside it, and both are  *)
(* to be written to the working path.  A name with no session changes nothing.*)
HostTaken(h, d, n) ==
  [HostMapper(h, d.map[n]) EXCEPT !.tracking = FALSE, !.band = d.band[n],
     !.library = n, !.bandUnsaved = TRUE, !.unsaved = TRUE]

HostLoad(n) ==
  /\ host.up
  /\ \/ n \notin disk.there /\ HostTail(host, disk, FALSE)
     \/ /\ n \in disk.there /\ host.mapper < HostMappers
        /\ HostTail(HostTaken(host, disk, n), disk, TRUE)

(* Event::Shutdown: the last save, and the end of the worker. *)
HostShutdown ==
  /\ host.up
  /\ \E fault \in HostFaults :
       /\ host' = [HostSaved(host, fault) EXCEPT !.up = FALSE]
       /\ disk' = HostSavedDisk(host, disk, fault)

(* The daemon is killed, or the power is cut. *)
HostCrash == host.up /\ host' = [host EXCEPT !.up = FALSE] /\ UNCHANGED disk

(* `worker`'s beginning: a fresh map, or the working session and its band.   *)
HostBooted(h, d) ==
  LET again == [HostFresh(h) EXCEPT !.opened = h.opened, !.mapper = h.mapper]
  IN IF h.wipeOnBoot \/ HostWork \notin d.there
     THEN [again EXCEPT !.mapper = @ + 1,
                        !.band = IF h.wipeOnBoot THEN <<>> ELSE d.band[HostWork]]
     ELSE [HostMapper(again, d.map[HostWork]) EXCEPT !.band = d.band[HostWork],
                                                     !.unsaved = TRUE]

HostBoot ==
  /\ ~host.up
  /\ host.mapper < HostMappers
  /\ host' = HostBooted(host, disk)
  /\ UNCHANGED disk

HostNext ==
  \/ HostOdom \/ HostFrame \/ HostFreeze \/ HostWipe
  \/ \E n \in HostNames : HostSaveAs(n) \/ HostLoad(n)
  \/ HostShutdown \/ HostCrash \/ HostBoot

HostSpec == HostInit /\ [][HostNext]_hostVars

-----------------------------------------------------------------------------
(* What the band knows stays where it was seen: as long as no write failed,  *)
(* was cut between the two files or put a band beside an older session of    *)
(* the library, every layer of the live band, and of every band a boot or a  *)
(* load may read, lies on the submap it was seen in -- through wipes, loads, *)
(* saves under a name, crashes and boots.                                    *)
HostRead == IF host.wipeOnBoot THEN HostNames ELSE HostSlots

HostBandFits ==
  ~disk.torn =>
    /\ HostAgree(host.live, host.band)
    /\ \A s \in HostRead : HostAgree(disk.map[s], disk.band[s])

(* What the worker takes for saved is on disk: a crash costs no more than    *)
(* what it knows to be unsaved.  A boot that wipes does not read the file,   *)
(* and a wipe whose removal failed leaves the old map in it.                 *)
HostWorkIsLive ==
  ~host.unsaved /\ ~host.wipeOnBoot /\ ~disk.kept => disk.map[HostWork] = host.live

(* The host's promise about its files: both of the above.                    *)
HostTrue == HostBandFits /\ HostWorkIsLive
=============================================================================
