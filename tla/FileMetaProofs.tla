---------------------------- MODULE FileMetaProofs ----------------------------
(* Theorems about FileMeta, for any episodes and any number of days.       *)
EXTENDS FileMeta, TLAPS

(* LookUpIsEnough is inductive with the types.  What a step writes to the    *)
(* storage is Sound: of its type, and complete when its look-up got through. *)
Sound(m) == m \in Storages /\ (m.done => Complete(m))

IInv == TypeOK /\ LookUpIsEnough

Worlds ==
  /\ inView \in BOOLEAN
  /\ inIndex \in BOOLEAN
  /\ known \in BOOLEAN
  /\ tvdb \in SUBSET Eps
  /\ anidb \in SUBSET Eps
  /\ outage \in BOOLEAN
  /\ todo \in SUBSET ({"file_meta", "gethimeta"} \X Eps)

LEMMA IInvSound == IInv <=> Sound(disk) /\ Sound(mem) /\ Worlds
BY DEF IInv, TypeOK, LookUpIsEnough, Sound, Worlds

LEMMA AgeTypes == 0 \in 0 .. Never /\ Never \in 0 .. Never
BY FileMetaAssumption DEF Never

LEMMA NewStorageSound == Sound(NewStorage)
<1>1. NewStorage \in Storages
  BY AgeTypes DEF NewStorage, Storages, Flags, Listings
<1> QED
  BY <1>1 DEF Sound, NewStorage

LEMMA InitIInv == Init => IInv
<1> SUFFICES ASSUME Init PROVE IInv
  OBVIOUS
<1>1. Worlds
  BY DEF Init, Worlds
<1> QED
  BY <1>1, NewStorageSound, IInvSound DEF Init

-------------------------------------------------------------------------------
(* The points of a look-up. *)
LEMMA BegunSound == ASSUME IInv PROVE Begun \in Storages /\ ~Begun.done
BY AgeTypes DEF IInv, TypeOK, Begun, Storages

LEMMA AskedSound ==
  ASSUME IInv, NEW n \in Eps
  PROVE  AniDBAsked(n) \in Storages /\ ~AniDBAsked(n).done
BY BegunSound DEF AniDBAsked, Storages, Flags

LEMMA NamedSound ==
  ASSUME IInv, NEW n \in Eps
  PROVE  /\ Named(n) \in Storages /\ ~Named(n).done
         /\ Named(n).noid = "no" /\ Named(n).aniupdate = "no"
BY AskedSound DEF Named, Storages, Flags

LEMMA ListedSound ==
  ASSUME IInv, NEW n \in Eps
  PROVE  /\ Listed(n) \in Storages
         /\ Listed(n).noid = "no" /\ Listed(n).aniupdate = "no"
         /\ Listed(n).shownep # NoListing
<1>1. tvdb \in SUBSET Eps /\ anidb \in SUBSET Eps
  BY DEF IInv, TypeOK
<1>2. Listed(n).shownep = tvdb /\ Listed(n).noid = "no" /\ Listed(n).aniupdate = "no"
  BY NamedSound DEF Listed, Storages
<1>3. Listed(n) \in Storages
  <2> DEFINE page == IF Dated(n) THEN anidb ELSE Named(n).anidb
             whole == IF Dated(n) THEN FALSE ELSE Named(n).page
  <2>1. page \in Listings /\ tvdb \in Listings
    BY <1>1, NamedSound DEF Storages, Listings
  <2>2. whole \in BOOLEAN
    BY NamedSound DEF Storages
  <2>3. Listed(n) = [Named(n) EXCEPT !.shownep = tvdb, !.done = TRUE,
                                     !.anidb = page, !.page = whole]
    BY DEF Listed
  <2> HIDE DEF page, whole
  <2> QED
    BY <2>1, <2>2, <2>3, NamedSound DEF Storages
<1> QED
  BY <1>1, <1>2, <1>3, FileMetaAssumption

LEMMA LabelledFields ==
  ASSUME NEW m \in Storages, NEW n \in Eps, NEW found \in BOOLEAN
  PROVE  LET l == Labelled(m, n, found)
         IN  /\ l \in Storages /\ l.tvupdate # "unset"
             /\ l.noid = m.noid /\ l.aniupdate = m.aniupdate
             /\ l.shownep = m.shownep /\ l.done = m.done
BY DEF Labelled, Storages, Flags

(* Labels never break a storage, and complete one that has all else. *)
LEMMA LabelledSound ==
  ASSUME NEW m \in Storages, NEW n \in Eps, NEW found \in BOOLEAN,
         \/ Sound(m)
         \/ m.noid = "no" /\ m.aniupdate = "no" /\ m.shownep # NoListing
  PROVE  Sound(Labelled(m, n, found))
BY LabelledFields DEF Sound, Complete

(* Of a storage that is complete AniDB's page is not asked for. *)
LEMMA AniDBReadSound ==
  ASSUME IInv
  PROVE  \A n \in Eps : Sound(AniDBRead(n))
<1>1. mem \in Storages /\ anidb \in SUBSET Eps /\ (mem.done => Complete(mem))
  BY DEF IInv, TypeOK, LookUpIsEnough
<1> TAKE n \in Eps
<1>2. AniDBRead(n) \in Storages
  BY <1>1 DEF AniDBRead, Storages, Flags, Listings
<1>3. /\ AniDBRead(n).noid = mem.noid /\ AniDBRead(n).tvupdate = mem.tvupdate
      /\ AniDBRead(n).shownep = mem.shownep /\ AniDBRead(n).done = mem.done
      /\ AniDBRead(n).aniupdate = IF mem.aniupdate = "yes" THEN "no" ELSE mem.aniupdate
  BY <1>1 DEF AniDBRead, Storages
<1> QED
  BY <1>1, <1>2, <1>3 DEF Sound, Complete

LEMMA ShownepSound ==
  ASSUME IInv, NEW m, Sound(m)
  PROVE  Sound([m EXCEPT !.shownep = tvdb])
<1>1. tvdb \in SUBSET Eps /\ tvdb # NoListing
  BY FileMetaAssumption DEF IInv, TypeOK
<1>2. [m EXCEPT !.shownep = tvdb] \in Storages
  BY <1>1 DEF Sound, Storages, Listings
<1> QED
  BY <1>1, <1>2 DEF Sound, Complete, Storages

-------------------------------------------------------------------------------
(* A step of file_meta answers with a sound storage. *)
LEMMA AnswerIInv ==
  ASSUME IInv, NEW n \in Eps, NEW m, Sound(m), Answer(n, m)
  PROVE  IInv'
<1>1. Sound(disk') /\ Sound(mem') /\ Worlds'
  BY IInvSound DEF Answer, world, Worlds
<1> QED
  BY <1>1, IInvSound DEF IInv, TypeOK, LookUpIsEnough, Sound, Worlds

LEMMA FileMetaIInv ==
  ASSUME IInv, NEW n \in Eps, FileMeta(n)
  PROVE  IInv'
<1>0. mem \in Storages /\ Sound(mem) /\ tvdb \in SUBSET Eps
  BY IInvSound DEF IInv, TypeOK
<1>1. CASE SearchFails(n)
  BY <1>1, BegunSound, AskedSound, AnswerIInv DEF SearchFails, Sound
<1>2. CASE ShowUnknown(n)
  <2>1. Sound([AniDBAsked(n) EXCEPT !.noid = "yes", !.done = TRUE])
    BY AskedSound DEF Sound, Complete, Storages, Flags
  <2> QED
    BY <1>2, <2>1, AnswerIInv DEF ShowUnknown
<1>3. CASE EpisodesFail(n)
  BY <1>3, NamedSound, AnswerIInv DEF EpisodesFail, Sound
<1>4. CASE LookUpDone(n)
  <2>1. PICK found \in BOOLEAN : Answer(n, Labelled(Listed(n), n, found))
    BY <1>4 DEF LookUpDone
  <2>2. Sound(Labelled(Listed(n), n, found))
    BY ListedSound, LabelledSound
  <2> QED
    BY <2>1, <2>2, AnswerIInv
<1>5. CASE NothingNew(n) \/ AniDBFails(n)
  BY <1>0, <1>5, AnswerIInv DEF NothingNew, AniDBFails
<1>6. CASE FetchFails(n)
  BY <1>6, AniDBReadSound, AnswerIInv DEF FetchFails
<1>7. CASE Fetched(n)
  <2> DEFINE m == [AniDBRead(n) EXCEPT !.shownep = tvdb]
  <2>1. Sound(AniDBRead(n))
    BY AniDBReadSound
  <2>2. Sound(m)
    BY <2>1, ShownepSound
  <2> HIDE DEF m
  <2>3. ByDate(m, n) \/ Answer(n, Labelled(m, n, n \in tvdb))
    BY <1>7 DEF Fetched, m
  <2>4. (n \in tvdb) \in BOOLEAN
    OBVIOUS
  <2>5. \E found \in BOOLEAN : Answer(n, Labelled(m, n, found))
    BY <2>3, <2>4 DEF ByDate
  <2> QED
    BY <2>2, <2>5, LabelledSound, AnswerIInv DEF Sound
<1>8. CASE FromListing(n)
  <2> DEFINE m == AniDBRead(n)
  <2>1. Sound(m) /\ m \in Storages
    BY AniDBReadSound DEF Sound
  <2> HIDE DEF m
  <2>2. Sound([m EXCEPT !.tvupdate = "yes"])
    BY <2>1 DEF Sound, Complete, Storages, Flags
  <2>3. \/ \E found \in BOOLEAN : Answer(n, Labelled(m, n, found))
        \/ Answer(n, [m EXCEPT !.tvupdate = "yes"])
    BY <1>8 DEF FromListing, ByDate, m
  <2> QED
    BY <2>1, <2>2, <2>3, LabelledSound, AnswerIInv
<1>9. CASE NumberMissing(n)
  <2>1. Sound([Listed(n) EXCEPT !.done = FALSE])
    BY ListedSound DEF Sound, Storages
  <2> QED
    BY <1>9, <2>1, AnswerIInv DEF NumberMissing
<1>10. CASE FetchedUnnumbered(n)
  <2>1. Sound(AniDBRead(n))
    BY AniDBReadSound
  <2> QED
    BY <1>10, <2>1, ShownepSound, AnswerIInv DEF FetchedUnnumbered
<1> QED
  BY <1>1, <1>2, <1>3, <1>4, <1>5, <1>6, <1>7, <1>8, <1>9, <1>10 DEF FileMeta

(* gethimeta adds what is not there, and takes nothing away. *)
LEMMA HiMetaIInv ==
  ASSUME IInv, NEW n \in Eps, HiMeta(n)
  PROVE  IInv'
<1>1. \A page \in HiPages : Sound(page)
  <2>1. Sound(mem) /\ anidb \in SUBSET Eps
    BY IInvSound DEF IInv, TypeOK
  <2>2. Sound([mem EXCEPT !.anidb = anidb, !.page = TRUE])
    BY <2>1 DEF Sound, Complete, Storages, Listings
  <2> QED
    BY <2>1, <2>2 DEF HiPages
<1>2. \A page \in HiPages : \A m \in HiListings(page) \cup {page} : Sound(m)
  BY <1>1, ShownepSound DEF HiListings
<1>3. PICK page \in HiPages :
        \E m \in HiListings(page) \cup {page} : \E raised \in BOOLEAN :
          /\ mem' = m
          /\ todo' = (todo \ {<<"gethimeta", n>>})
                     \cup IF raised THEN {Ask(n)} ELSE {}
  BY DEF HiMeta
<1>4. PICK m \in HiListings(page) \cup {page} : \E raised \in BOOLEAN :
        /\ mem' = m
        /\ todo' = (todo \ {<<"gethimeta", n>>}) \cup IF raised THEN {Ask(n)} ELSE {}
  BY <1>3
<1>5. todo' \in SUBSET ({"file_meta", "gethimeta"} \X Eps)
  BY <1>4, IInvSound DEF Ask, Worlds
<1>6. Sound(mem') /\ Sound(disk') /\ Worlds'
  BY <1>2, <1>5, <1>4, IInvSound DEF HiMeta, world, Worlds
<1> QED
  BY <1>6 DEF IInv, TypeOK, LookUpIsEnough, Sound, Worlds

LEMMA NextIInv == IInv /\ [Next]_vars => IInv'
<1> SUFFICES ASSUME IInv, [Next]_vars PROVE IInv'
  OBVIOUS
<1>0. Sound(disk) /\ Sound(mem) /\ Worlds
  BY IInvSound
<1>1. ASSUME NEW n \in Eps, FileMeta(n) \/ HiMeta(n)
      PROVE  IInv'
  BY <1>1, FileMetaIInv, HiMetaIInv
<1> SUFFICES ASSUME ~\E n \in Eps : FileMeta(n) \/ HiMeta(n)
             PROVE  Sound(disk') /\ Sound(mem') /\ Worlds'
  BY <1>1 DEF IInv, TypeOK, LookUpIsEnough, Sound, Worlds
<1>2. ASSUME NEW files \in SUBSET Eps, NEW view \in {"file_meta", "gethimeta"},
             Open(view, files)
      PROVE  Sound(disk') /\ Sound(mem') /\ Worlds'
  BY <1>0, <1>2 DEF Open, world, Worlds
<1>3. CASE Close
  BY <1>0, <1>3, NewStorageSound DEF Close, Leave, world, Worlds
<1>4. CASE Kill
  BY <1>0, <1>4, NewStorageSound DEF Kill, Leave, world, Worlds
<1>5. CASE Day
  <2>1. disk.age \in 0 .. Never /\ disk.age < Stale /\ disk.age + 1 \in 0 .. Never
    BY <1>0, <1>5, FileMetaAssumption DEF Day, Sound, Storages, Never
  <2>2. Sound([disk EXCEPT !.age = disk.age + 1])
    BY <1>0, <2>1 DEF Sound, Complete, Storages
  <2> QED
    BY <1>0, <1>5, <2>2 DEF Day, world, Worlds
<1>6. CASE Publish
  BY <1>0, <1>6 DEF Publish, Worlds
<1>7. CASE Recover
  BY <1>0, <1>7 DEF Recover, Worlds
<1>8. CASE UNCHANGED vars
  BY <1>0, <1>8 DEF vars, world, Worlds
<1> QED
  BY <1>2, <1>3, <1>4, <1>5, <1>6, <1>7, <1>8 DEF Next

THEOREM Invariance == Spec => []IInv
BY InitIInv, NextIInv, PTL DEF Spec

(* What file_meta and gethimeta write has the form the other reads          *)
(* (addon.py:492-676, 1963-1986).                                           *)
THEOREM TypeCorrect == Spec => []TypeOK
<1>1. IInv => TypeOK
  BY DEF IInv
<1> QED
  BY <1>1, Invariance, PTL

(* A look-up that got through leaves every key that later calls read, for   *)
(* any number of episodes, views and failures (addon.py:492-601, 608-676).  *)
THEOREM LookUpIsEnoughAlways == Spec => []LookUpIsEnough
<1>1. IInv => LookUpIsEnough
  BY DEF IInv
<1> QED
  BY <1>1, Invariance, PTL
===============================================================================
