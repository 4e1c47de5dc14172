------------------------------- MODULE FileMeta -------------------------------
(***************************************************************************)
(* The descriptions of the episodes of one show (addon.py: file_meta,      *)
(* gethimeta) and the storage both keep under its name.  list_packlist     *)
(* asks file_meta for every file, hi10eps asks gethimeta first; both views *)
(* swallow what is raised, and the end of the view writes the storage.     *)
(*                                                                         *)
(* Whether an entry of TVDB matches is decided by its number, or by the    *)
(* date AniDB has for the episode, which may match nothing.  'EPnairdate'  *)
(* goes with anidb, and id with shownep.                                   *)
(***************************************************************************)
EXTENDS Naturals

CONSTANTS
  Eps,         \* the episodes
  Stale,       \* the days after which a show is looked up again, 5 in the code
  NoListing    \* 'shownep', 'anidb' before they are stored

ASSUME FileMetaAssumption ==
  /\ Stale \in Nat \ {0}
  /\ \A s \in SUBSET Eps : s # NoListing

VARIABLES
  disk,        \* the storage of the show, as its file has it
  mem,         \* and as the view that runs has it
  todo,        \* what that view has to ask still: a function and an episode
  inView,      \* a view runs
  inIndex,     \* the index of AniDB's titles has the show
  known,       \* trakt or TVDB has it
  tvdb, anidb, \* the episodes they list
  outage       \* requests fail, entries of TVDB lack their numbers, and Kodi
               \* ends views before they are through

world == <<inIndex, known, tvdb, anidb, outage>>
vars == <<disk, mem, todo, inView, world>>

Never == Stale + 1   \* no 'last'
Flags == {"unset", "no", "yes"}
Listings == {NoListing} \cup SUBSET Eps
Storages ==
  [age : 0 .. Never,                     \* the days since 'last'
   noid : Flags, aniupdate : Flags, tvupdate : Flags,
   shownep : Listings, anidb : Listings,
   page : BOOLEAN,                       \* 'anidb' is the whole page
   ep : [Eps -> {"none", "bare", "full"}],
   done : BOOLEAN]                       \* history: the last look-up got through

NewStorage ==
  [age |-> Never, noid |-> "unset", aniupdate |-> "unset", tvupdate |-> "unset",
   shownep |-> NoListing, anidb |-> NoListing, page |-> FALSE,
   ep |-> [n \in Eps |-> "none"], done |-> FALSE]

IsEmpty(m) == m.age = Never /\ m.shownep = NoListing /\ m.anidb = NoListing
Due_once(m) == IsEmpty(m)   \* faulty variant: what failed is not tried again
Due(m) == IsEmpty(m) \/ m.age = Stale

Init ==
  /\ disk = NewStorage
  /\ mem = NewStorage
  /\ todo = {}
  /\ inView = FALSE
  /\ inIndex \in BOOLEAN
  /\ known = FALSE
  /\ tvdb = {}
  /\ anidb = {}
  /\ outage = TRUE

(* What the look-up has written to the storage, point by point. *)
Begun == [mem EXCEPT !.age = 0, !.done = FALSE]
AniDBAsked(n) ==
  IF inIndex
  THEN [Begun EXCEPT !.aniupdate = IF n \in anidb THEN "no" ELSE "yes"]
  ELSE Begun
(* Faulty variant: AniDB is still asked for an episode of a show with an id. *)
Named_asks(n) == [AniDBAsked(n) EXCEPT !.noid = "no"]

Named(n) == [AniDBAsked(n) EXCEPT !.noid = "no", !.aniupdate = "no"]
Dated(n) == inIndex /\ n \in anidb
(* Faulty variant: the listing is wrapped once more. *)
Listed_nested(n) == [Named(n) EXCEPT !.shownep = {tvdb}, !.done = TRUE]

Listed(n) ==
  [Named(n) EXCEPT !.shownep = tvdb, !.done = TRUE,
                   !.anidb = IF Dated(n) THEN anidb ELSE @,
                   !.page = IF Dated(n) THEN FALSE ELSE @]

Labelled(m, n, found) ==
  [m EXCEPT !.tvupdate = IF found THEN "no" ELSE "yes",
            !.ep[n] = IF found THEN "full" ELSE "bare"]

Ask(n) == <<"file_meta", n>>
Answer(n, m) ==
  /\ todo' = todo \ {Ask(n)}
  /\ mem' = m
  /\ UNCHANGED <<disk, inView, world>>

(* The look-up: a request to AniDB, to trakt and TVDB for the show, and to   *)
(* TVDB for its episodes; each may raise.                                    *)
LooksUp(n) == Ask(n) \in todo /\ Due(mem)

SearchFails(n) ==
  /\ outage
  /\ LooksUp(n)
  /\ \E m \in {Begun, AniDBAsked(n)} : Answer(n, m)

(* A show that only its other titles would find counts as unknown when those *)
(* requests fail.                                                            *)
ShowUnknown(n) ==
  /\ LooksUp(n)
  /\ ~known \/ (inIndex /\ outage)
  /\ Answer(n, [AniDBAsked(n) EXCEPT !.noid = "yes", !.done = TRUE])

EpisodesFail(n) ==
  /\ outage
  /\ LooksUp(n)
  /\ known
  /\ Answer(n, Named(n))

(* Where an entry has no number, int('') raises once the listing is stored.  *)
(* A date that can be compared would spare it.                               *)
NumberMissing(n) ==
  /\ outage
  /\ LooksUp(n)
  /\ known
  /\ Answer(n, [Listed(n) EXCEPT !.done = FALSE])

LookUpDone(n) ==
  /\ LooksUp(n)
  /\ known
  /\ \E found \in IF Dated(n) THEN BOOLEAN ELSE {n \in tvdb} :
       Answer(n, Labelled(Listed(n), n, found))

(* Without a look-up.  What is stored is returned, and for a show without an *)
(* id nothing is; a look-up that got to no id raises.                        *)
Recalls(n) == Ask(n) \in todo /\ ~Due(mem)

NothingNew(n) ==
  /\ Recalls(n)
  /\ mem.ep[n] # "none" \/ mem.noid # "no"
  /\ Answer(n, mem)

Searches(n) == Recalls(n) /\ mem.ep[n] = "none" /\ mem.noid = "no"

AniDBFails(n) ==
  /\ Searches(n)
  /\ mem.aniupdate = "yes"
  /\ outage \/ ~Dated(n)
  /\ Answer(n, mem)

AniDBIsThere(n) == mem.aniupdate = "yes" => Dated(n)
AniDBRead(n) ==
  IF mem.aniupdate = "yes"
  THEN [mem EXCEPT !.anidb = anidb, !.page = FALSE, !.aniupdate = "no"]
  ELSE mem

(* The request to TVDB raises, or 'tvupdate' is not there. *)
FetchFails(n) ==
  /\ Searches(n)
  /\ AniDBIsThere(n)
  /\ mem.tvupdate = "unset" \/ (mem.tvupdate = "yes" /\ outage)
  /\ Answer(n, AniDBRead(n))

(* It raises over a number, behind the request. *)
FetchedUnnumbered(n) ==
  /\ Searches(n)
  /\ AniDBIsThere(n)
  /\ mem.tvupdate = "yes"
  /\ outage
  /\ Answer(n, [AniDBRead(n) EXCEPT !.shownep = tvdb])

HasDate(m, n) == m.anidb # NoListing /\ n \in m.anidb
ByDate(m, n) == \E found \in BOOLEAN : Answer(n, Labelled(m, n, found))

Fetched(n) ==
  /\ Searches(n)
  /\ AniDBIsThere(n)
  /\ mem.tvupdate = "yes"
  /\ LET m == [AniDBRead(n) EXCEPT !.shownep = tvdb]
     IN  IF HasDate(m, n) THEN ByDate(m, n)
         ELSE Answer(n, Labelled(m, n, n \in tvdb))

(* The listing that is stored, by the date unless that is missing or cannot  *)
(* be compared, else by the number: an episode the listing has not raises.   *)
FromListing(n) ==
  /\ Searches(n)
  /\ AniDBIsThere(n)
  /\ mem.tvupdate = "no"
  /\ LET m == AniDBRead(n)
     IN  \/ HasDate(m, n) /\ ByDate(m, n)
         \/ Answer(n, IF n \in m.shownep THEN Labelled(m, n, TRUE)
                      ELSE [m EXCEPT !.tvupdate = "yes"])

FileMeta(n) ==
  \/ SearchFails(n) \/ ShowUnknown(n) \/ EpisodesFail(n) \/ NumberMissing(n)
  \/ LookUpDone(n)
  \/ NothingNew(n) \/ AniDBFails(n) \/ FetchFails(n) \/ FetchedUnnumbered(n)
  \/ Fetched(n) \/ FromListing(n)

(* gethimeta: it stores the page and the listing, and no 'last'.  It needs   *)
(* the whole page, which file_meta does not store.                           *)
HiPages == IF mem.anidb = NoListing
           THEN {mem, [mem EXCEPT !.anidb = anidb, !.page = TRUE]} ELSE {mem}
HiListings(m) == IF m.shownep = NoListing /\ known
                 THEN {m, [m EXCEPT !.shownep = tvdb]} ELSE {m}

HiMeta(n) ==
  /\ <<"gethimeta", n>> \in todo
  /\ \E page \in HiPages :
       LET dated == page.page /\ n \in page.anidb
       IN  \E m \in IF dated THEN HiListings(page) ELSE {page}, raised \in BOOLEAN :
             /\ ~raised => dated /\ m.shownep \notin {NoListing, {}}
             /\ mem' = m
             /\ todo' = (todo \ {<<"gethimeta", n>>})
                        \cup IF raised THEN {Ask(n)} ELSE {}
  /\ UNCHANGED <<disk, inView, world>>

Open(view, files) ==
  /\ ~inView
  /\ inView' = TRUE
  /\ mem' = disk
  /\ todo' = {view} \X files
  /\ UNCHANGED <<disk, world>>

Leave ==
  /\ inView' = FALSE
  /\ mem' = NewStorage
  /\ UNCHANGED world

(* The end of run writes the storages. *)
Close ==
  /\ inView
  /\ todo = {}
  /\ disk' = mem
  /\ Leave
  /\ UNCHANGED todo

(* Kodi ends the view, or it raises outside of the two functions. *)
Kill ==
  /\ outage
  /\ inView
  /\ todo' = {}
  /\ Leave
  /\ UNCHANGED disk

(* A day goes by; no view takes that long. *)
Day ==
  /\ ~inView
  /\ disk.age < Stale
  /\ disk' = [disk EXCEPT !.age = @ + 1]
  /\ UNCHANGED <<mem, todo, inView, world>>

(* The sites come to know the show and its episodes. *)
Publish ==
  /\ known' \in {known, TRUE}
  /\ \E e \in Eps :
       /\ tvdb' \in {tvdb, IF known THEN tvdb \cup {e} ELSE tvdb}
       /\ anidb' \in {anidb, Eps}
  /\ UNCHANGED <<disk, mem, todo, inView, inIndex, outage>>

Recover ==
  /\ outage
  /\ outage' = FALSE
  /\ UNCHANGED <<disk, mem, todo, inView, inIndex, known, tvdb, anidb>>

Next ==
  \/ \E n \in Eps : FileMeta(n) \/ HiMeta(n)
  \/ \E files \in SUBSET Eps \ {{}}, view \in {"file_meta", "gethimeta"} :
       Open(view, files)
  \/ Close \/ Kill \/ Day \/ Publish \/ Recover

Spec == Init /\ [][Next]_vars

(* The user goes on opening the listing of the show, a view that was opened  *)
(* goes on, and there is an end of failures, between views of which days go  *)
(* by.                                                                       *)
LiveSpec ==
  /\ Spec
  /\ WF_vars(Recover)
  /\ SF_vars(Day)
  /\ SF_vars(Open("file_meta", Eps))
  /\ WF_vars(Close)
  /\ WF_vars(\E n \in Eps : FileMeta(n) \/ HiMeta(n))
-------------------------------------------------------------------------------
TypeOK ==
  /\ disk \in Storages
  /\ mem \in Storages
  /\ todo \subseteq {"file_meta", "gethimeta"} \X Eps
  /\ inView \in BOOLEAN
  /\ inIndex \in BOOLEAN
  /\ known \in BOOLEAN
  /\ tvdb \in SUBSET Eps
  /\ anidb \in SUBSET Eps
  /\ outage \in BOOLEAN

(* file_meta finds every key that it reads without asking for it first       *)
(* (addon.py:608-609, 624, 644), and a request for AniDB's page is not due.   *)
Complete(m) ==
  /\ m.noid # "unset"
  /\ m.noid = "no" => /\ m.aniupdate = "no"
                      /\ m.tvupdate # "unset"
                      /\ m.shownep # NoListing

(* A look-up that got through leaves a storage in which every later call     *)
(* finds the keys it reads, until the next one, whatever gethimeta puts      *)
(* between (addon.py:492-601, 608-676): only a look-up that failed breaks    *)
(* the show.  An episode that the stored listing does not have still raises  *)
(* (addon.py:674).                                                           *)
LookUpIsEnough == \A m \in {disk, mem} : m.done => Complete(m)

(* As long as views of the listing go on and end, an episode that TVDB lists *)
(* gets its labels, bare or full, though look-ups fail: the failure is       *)
(* remembered for five days only (addon.py:490-492).  It needs a storage     *)
(* that file_meta began, and entries that have their numbers in the end.     *)
EpisodesGetLabels ==
  \A n \in Eps : (n \in tvdb /\ disk.age # Never) ~> disk.ep[n] # "none"

(* Not so where gethimeta began it, which stores no 'last': see the README.  *)
EpisodesGetLabelsHi ==
  \A n \in Eps : n \in tvdb ~> disk.ep[n] # "none"

(* Nor do bare labels become full: see the README.                           *)
LabelsBecomeFull ==
  \A n \in Eps : (n \in tvdb /\ disk.age # Never) ~> disk.ep[n] = "full"
===============================================================================
