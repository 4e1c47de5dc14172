----------------------------- MODULE FunctionCache -----------------------------
(***************************************************************************)
(* The cache of function results (xbmcmixin.py: cached; storage.py:        *)
(* TimedStorage) for get_gin of addon.py, whose result is what it writes   *)
(* to a second storage, 'Ginpachi-Sensei'.  The cache is synced by the     *)
(* call that missed, the second storage by the end of run only.            *)
(*                                                                         *)
(* get_gin is called by gin_sensei, which then asks for a search term and  *)
(* offers the last one, from a third storage, 'lastsearch': on a fresh     *)
(* install there is none, and gin_sensei raises.                           *)
(*                                                                         *)
(* An invocation of the plugin loads '.functions' when it is imported, and *)
(* 'Ginpachi-Sensei' when get_gin or list_packlist gets it; two            *)
(* invocations may run at once.  Storage has the files; here a sync or a   *)
(* load of one storage is one step.                                        *)
(*                                                                         *)
(* The names with FC leave the plain ones to LruCache, which CacheProofs   *)
(* extends as well.                                                        *)
(***************************************************************************)
EXTENDS Naturals

CONSTANTS
  Invocations,
  Ttl            \* days an entry lives: of the storage's first get_storage

ASSUME FunctionCacheAssumption == Ttl \in Nat \ {0}

VARIABLES
  entry,         \* the age of get_gin's entry in the file of '.functions'
  packs,         \* the age of the packlist in the file of 'Ginpachi-Sensei'
  searched,      \* the file of 'lastsearch' has 'last'
  stage,         \* "out", in the "view", behind get_gin ("got"), or "through"
  view,          \* which view an invocation runs
  fn, gin,       \* its storages '.functions' and 'Ginpachi-Sensei'
  open,          \* those of them that it has still to write
  overnight,     \* the invocations that have run over a midnight
  trouble,       \* requests fail, views raise, Kodi ends invocations
  mishap         \* history: two invocations overlapped, or one was cut short

memory == <<stage, view, fn, gin, open, overnight>>
fcvars == <<entry, packs, searched, memory, trouble, mishap>>

(* An entry that is older than Ttl raises KeyError as one that is missing.  *)
Old == Ttl + 1
Missing == Ttl + 2
Ages == 0 .. Missing
Views == {"gin_sensei", "list_packlist", "search_channel", "other"}
Names == {"functions", "gin", "last"}

Fresh_ever(age) == age # Missing   \* faulty variant: entries do not expire
Fresh(age) == age <= Ttl
Older(age) == IF age < Old THEN age + 1 ELSE age

FCInit ==
  /\ entry = Missing
  /\ packs = Missing
  /\ searched = FALSE
  /\ stage = [p \in Invocations |-> "out"]
  /\ view = [p \in Invocations |-> "other"]
  /\ fn = [p \in Invocations |-> Missing]
  /\ gin = [p \in Invocations |-> Missing]
  /\ open = [p \in Invocations |-> {}]
  /\ overnight = {}
  /\ trouble = TRUE
  /\ mishap = FALSE

(* The import of addon.py: the decorators get '.functions'. *)
Import(p, v) ==
  /\ stage[p] = "out"
  /\ stage' = [stage EXCEPT ![p] = "view"]
  /\ view' = [view EXCEPT ![p] = v]
  /\ fn' = [fn EXCEPT ![p] = entry]
  /\ open' = [open EXCEPT ![p] = {"functions"}]
  /\ mishap' = (mishap \/ \E q \in Invocations : stage[q] # "out")
  /\ UNCHANGED <<entry, packs, searched, gin, overnight, trouble>>

(* The invocation ends, and what it has not written is gone. *)
Leave(p) ==
  /\ stage' = [stage EXCEPT ![p] = "out"]
  /\ view' = [view EXCEPT ![p] = "other"]
  /\ fn' = [fn EXCEPT ![p] = Missing]
  /\ gin' = [gin EXCEPT ![p] = Missing]
  /\ open' = [open EXCEPT ![p] = {}]
  /\ overnight' = overnight \ {p}

GetGin(p) == stage[p] = "view" /\ view[p] = "gin_sensei"

HitEntry(p) ==
  /\ GetGin(p)
  /\ Fresh(fn[p])
  /\ stage' = [stage EXCEPT ![p] = "got"]
  /\ UNCHANGED <<entry, packs, searched, view, fn, gin, open, overnight, trouble, mishap>>

(* Faulty variant: the entry is not stamped with the time. *)
Miss_unstamped(p) ==
  /\ GetGin(p)
  /\ ~Fresh(fn[p])
  /\ gin' = [gin EXCEPT ![p] = 0]
  /\ open' = [open EXCEPT ![p] = @ \cup {"gin"}]
  /\ fn' = [fn EXCEPT ![p] = Missing + 1]
  /\ entry' = Missing + 1
  /\ stage' = [stage EXCEPT ![p] = "got"]
  /\ UNCHANGED <<packs, searched, view, overnight, trouble, mishap>>

(* Faulty variant: the second storage is nobody's to close. *)
Miss_unsynced(p) ==
  /\ GetGin(p)
  /\ ~Fresh(fn[p])
  /\ gin' = [gin EXCEPT ![p] = 0]
  /\ fn' = [fn EXCEPT ![p] = 0]
  /\ entry' = 0
  /\ stage' = [stage EXCEPT ![p] = "got"]
  /\ UNCHANGED <<packs, searched, view, open, overnight, trouble, mishap>>

(* get_gin fetches the list and changes 'Ginpachi-Sensei' in memory; the     *)
(* wrapper sets the entry and syncs '.functions'.                            *)
Miss(p) ==
  /\ GetGin(p)
  /\ ~Fresh(fn[p])
  /\ gin' = [gin EXCEPT ![p] = 0]
  /\ open' = [open EXCEPT ![p] = @ \cup {"gin"}]
  /\ fn' = [fn EXCEPT ![p] = 0]
  /\ entry' = 0
  /\ stage' = [stage EXCEPT ![p] = "got"]
  /\ UNCHANGED <<packs, searched, view, overnight, trouble, mishap>>

MissFails(p) ==
  /\ trouble
  /\ GetGin(p)
  /\ ~Fresh(fn[p])
  /\ Leave(p)
  /\ UNCHANGED <<entry, packs, searched, trouble, mishap>>

(* The rest of gin_sensei, which the menu opens with search='blah': it     *)
(* reads lastsearch['last'] before it sets it.                             *)
AsksForSearch(p) ==
  /\ stage[p] = "got"
  /\ searched
  /\ stage' = [stage EXCEPT ![p] = "through"]
  /\ open' = [open EXCEPT ![p] = @ \cup {"last"}]
  /\ UNCHANGED <<entry, packs, searched, view, fn, gin, overnight, trouble, mishap>>

NeverSearched(p) ==
  /\ stage[p] = "got"
  /\ ~searched
  /\ Leave(p)
  /\ mishap' = TRUE
  /\ UNCHANGED <<entry, packs, searched, trouble>>

(* list_packlist('Ginpachi-Sensei'), which raises without a packlist, and  *)
(* search_channel, which sets 'last' and calls it.                         *)
Lists(p) ==
  /\ stage[p] = "view"
  /\ view[p] \in {"list_packlist", "search_channel"}
  /\ packs # Missing
  /\ gin' = [gin EXCEPT ![p] = packs]
  /\ open' = [open EXCEPT ![p] = @ \cup {"gin"} \cup
                 (IF view[p] = "search_channel" THEN {"last"} ELSE {})]
  /\ stage' = [stage EXCEPT ![p] = "through"]
  /\ UNCHANGED <<entry, packs, searched, view, fn, overnight, trouble, mishap>>

ListsNothing(p) ==
  /\ stage[p] = "view"
  /\ view[p] \in {"list_packlist", "search_channel"}
  /\ packs = Missing
  /\ Leave(p)
  /\ UNCHANGED <<entry, packs, searched, trouble, mishap>>

(* search_channel for another channel. *)
SearchesElsewhere(p) ==
  /\ stage[p] = "view"
  /\ view[p] = "search_channel"
  /\ stage' = [stage EXCEPT ![p] = "through"]
  /\ open' = [open EXCEPT ![p] = @ \cup {"last"}]
  /\ UNCHANGED <<entry, packs, searched, view, fn, gin, overnight, trouble, mishap>>

Other(p) ==
  /\ stage[p] = "view"
  /\ view[p] = "other"
  /\ stage' = [stage EXCEPT ![p] = "through"]
  /\ UNCHANGED <<entry, packs, searched, view, fn, gin, open, overnight, trouble, mishap>>

(* The end of run closes the storages, in the order of a dictionary. *)
Close(p, s) ==
  /\ stage[p] = "through"
  /\ s \in open[p]
  /\ open' = [open EXCEPT ![p] = @ \ {s}]
  /\ entry' = IF s = "functions" THEN fn[p] ELSE entry
  /\ packs' = IF s = "gin" THEN gin[p] ELSE packs
  /\ searched' = (searched \/ s = "last")
  /\ UNCHANGED <<stage, view, fn, gin, overnight, trouble, mishap>>

End(p) ==
  /\ stage[p] = "through"
  /\ open[p] = {}
  /\ Leave(p)
  /\ UNCHANGED <<entry, packs, searched, trouble, mishap>>

(* Kodi ends the invocation, or its view raises for a reason that passes.   *)
CutShort(p) ==
  /\ trouble
  /\ stage[p] # "out"
  /\ Leave(p)
  /\ mishap' = TRUE
  /\ UNCHANGED <<entry, packs, searched, trouble>>

(* No invocation runs over two midnights. *)
Day ==
  /\ overnight = {}
  /\ overnight' = {p \in Invocations : stage[p] # "out"}
  /\ entry' = Older(entry)
  /\ packs' = Older(packs)
  /\ fn' = [p \in Invocations |-> Older(fn[p])]
  /\ gin' = [p \in Invocations |-> Older(gin[p])]
  /\ UNCHANGED <<searched, stage, view, open, trouble, mishap>>

TroubleEnds ==
  /\ trouble
  /\ trouble' = FALSE
  /\ UNCHANGED <<entry, packs, searched, memory, mishap>>

Step(p) ==
  \/ HitEntry(p) \/ Miss(p) \/ MissFails(p)
  \/ AsksForSearch(p) \/ NeverSearched(p)
  \/ Lists(p) \/ ListsNothing(p) \/ SearchesElsewhere(p) \/ Other(p)
  \/ \E s \in Names : Close(p, s)
  \/ End(p)

FCNext ==
  \/ \E p \in Invocations : Step(p) \/ CutShort(p)
  \/ \E p \in Invocations, v \in Views : Import(p, v)
  \/ Day \/ TroubleEnds

FCSpec == FCInit /\ [][FCNext]_fcvars

(* The user goes on opening the list, invocations run to their end, days go  *)
(* by, and there is an end of trouble.                                       *)
FCLiveSpec ==
  /\ FCSpec
  /\ WF_fcvars(TroubleEnds)
  /\ SF_fcvars(Day)
  /\ \A p \in Invocations : WF_fcvars(Step(p))
  /\ SF_fcvars(\E p \in Invocations : Import(p, "gin_sensei"))
-------------------------------------------------------------------------------
FCTypeOK ==
  /\ entry \in Ages
  /\ packs \in Ages
  /\ searched \in BOOLEAN
  /\ stage \in [Invocations -> {"out", "view", "got", "through"}]
  /\ view \in [Invocations -> Views]
  /\ fn \in [Invocations -> Ages]
  /\ gin \in [Invocations -> Ages]
  /\ open \in [Invocations -> SUBSET Names]
  /\ overnight \in SUBSET Invocations
  /\ trouble \in BOOLEAN
  /\ mishap \in BOOLEAN

(* When no invocation runs, an entry that still spares the fetch stands for  *)
(* the packlist that its own fetch has written (xbmcmixin.py:85-87,          *)
(* plugin.py:311-315), unless invocations overlapped or one was cut short.   *)
Idle == \A p \in Invocations : stage[p] = "out"
EntryHasPacklist == ~mishap /\ Idle /\ Fresh(entry) => packs = entry

(* Once any view has stored a last search, and whatever was cut short or     *)
(* written over, a packlist that is missing or out of date is replaced as    *)
(* long as the list is opened again: an entry without a packlist, as the     *)
(* openings before that search have left, bars the way for its time to live  *)
(* only (storage.py:138-144).                                                *)
PacklistComes == searched /\ ~Fresh(packs) ~> Fresh(packs)

(* Not so without a search: the list is fetched once in an entry's time to   *)
(* live and thrown away each time (addon.py:999-1002).  See the README.      *)
PacklistComesUnsearched == ~Fresh(packs) ~> Fresh(packs)

(* Not so at every moment: see the README. *)
EntryAlwaysHasPacklist == Idle /\ Fresh(entry) => packs # Missing
===============================================================================
