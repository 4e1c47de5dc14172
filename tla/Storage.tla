-------------------------------- MODULE Storage --------------------------------
(***************************************************************************)
(* One named storage of the add-on (kodiswift: storage.py, get_storage and *)
(* run), which every invocation of the plugin loads, changes in memory and *)
(* writes back: to a temporary file next to it, moved over it at the end.  *)
(* Kodi runs invocations side by side (actions.background) and may kill    *)
(* one at any point.                                                       *)
(*                                                                         *)
(* A store is the set of its keys.  A dump reaches the file in two writes. *)
(* The move replaces the file in one step, as rename does on POSIX, and a  *)
(* file that is open stays open under its new name, or under none.         *)
(***************************************************************************)
EXTENDS Naturals, Sequences

CONSTANTS
  Invocations,   \* the invocations of the plugin that use the storage
  Keys

VARIABLES
  pc,           \* "idle", "open" (has the storage), "opened" the temporary
                \* file, "half" dumped, "dumped", or how it ended: "done",
                \* "raised", "killed"
  store,        \* PersistentStorage._store
  handle,       \* which file an invocation is writing: "none", "tmp",
                \* "path", or one that has lost its "name"
  tmp,          \* the file at file_path + ".tmp"
  path,         \* the file at file_path
  \* what happened so far, for the properties
  touched,      \* the keys an invocation set or deleted since it loaded
  stale,        \* another invocation has synced since it loaded
  overlapped    \* a sync began during another

diskvars == <<tmp, path>>
history == <<touched, stale, overlapped>>
vars == <<pc, store, handle, diskvars, history>>

Ended == {"idle", "done", "raised", "killed"}
Syncing == {"opened", "half", "dumped"}

(* A file is its two parts, each the set of the one store dumped there, or *)
(* empty where nothing was written.                                        *)
NoFile == <<>>
Empty == <<{}, {}>>
Parts == SUBSET SUBSET Keys

TypeOK ==
  /\ pc \in [Invocations -> {"open"} \cup Syncing \cup Ended]
  /\ store \in [Invocations -> SUBSET Keys]
  /\ handle \in [Invocations -> {"none", "tmp", "path", "name"}]
  /\ tmp \in {NoFile} \cup (Parts \X Parts)
  /\ path \in {NoFile} \cup (Parts \X Parts)
  /\ touched \in [Invocations -> SUBSET Keys]
  /\ stale \in [Invocations -> BOOLEAN]
  /\ overlapped \in BOOLEAN

(* A file loads when both parts are there and come from one dump. *)
Whole(f) == f[1] = f[2] /\ f[1] # {}

Contents == IF path = NoFile THEN {} ELSE UNION path[1]

Init ==
  /\ pc = [p \in Invocations |-> "idle"]
  /\ store = [p \in Invocations |-> {}]
  /\ handle = [p \in Invocations |-> "none"]
  /\ tmp = NoFile
  /\ path = NoFile
  /\ touched = [p \in Invocations |-> {}]
  /\ stale = [p \in Invocations |-> FALSE]
  /\ overlapped = FALSE
------------------------------------------------------------------------------
(* What load makes of the file.  Only UnpicklingError is caught: a pickle  *)
(* that ends early raises EOFError, and what is not a pickle goes on to    *)
(* json.load, which raises ValueError.                                     *)
LoadOutcome ==
  CASE path = NoFile -> "new"
    [] path # NoFile /\ Whole(path) -> "loaded"
    [] path # NoFile /\ ~Whole(path) /\ path[2] = {} -> "EOFError"
    [] OTHER -> "ValueError"

(* A definition X_f with a small f is a faulty X: it breaks a property of  *)
(* this module, and shows that the property can fail.                      *)
GetStorage_unloaded(p) ==
  /\ pc[p] \in Ended
  /\ pc' = [pc EXCEPT ![p] = "open"]
  /\ UNCHANGED <<store, handle, diskvars, history>>

(* get_storage at the beginning of an invocation. *)
GetStorage(p) ==
  /\ pc[p] \in Ended
  /\ LoadOutcome \in {"new", "loaded"}
  /\ pc' = [pc EXCEPT ![p] = "open"]
  /\ store' = [store EXCEPT ![p] = Contents]
  /\ UNCHANGED <<handle, diskvars, history>>

GetStorageRaises(p) ==
  /\ pc[p] \in Ended
  /\ LoadOutcome \notin {"new", "loaded"}
  /\ pc' = [pc EXCEPT ![p] = "raised"]
  /\ UNCHANGED <<store, handle, diskvars, history>>

SetItem(p, k) ==
  /\ pc[p] = "open"
  /\ store' = [store EXCEPT ![p] = @ \cup {k}]
  /\ touched' = [touched EXCEPT ![p] = @ \cup {k}]
  /\ UNCHANGED <<pc, handle, diskvars, stale, overlapped>>

DelItem(p, k) ==
  /\ pc[p] = "open" /\ k \in store[p]
  /\ store' = [store EXCEPT ![p] = @ \ {k}]
  /\ touched' = [touched EXCEPT ![p] = @ \cup {k}]
  /\ UNCHANGED <<pc, handle, diskvars, stale, overlapped>>

(* An invocation ends, and what it had in memory with it. *)
Leave(p, how) ==
  /\ pc' = [pc EXCEPT ![p] = how]
  /\ store' = [store EXCEPT ![p] = {}]
  /\ touched' = [touched EXCEPT ![p] = {}]

End(p, how) ==
  /\ Leave(p, how)
  /\ handle' = [handle EXCEPT ![p] = "none"]
  /\ stale' = [stale EXCEPT ![p] = FALSE]
  /\ UNCHANGED overlapped

(* The view function raises: run never gets to close the storage. *)
ViewRaises(p) ==
  /\ pc[p] = "open"
  /\ End(p, "raised")
  /\ UNCHANGED diskvars

OpenTemp_inPlace(p) ==
  /\ pc[p] = "open"
  /\ pc' = [pc EXCEPT ![p] = "opened"]
  /\ path' = Empty
  /\ tmp' = Empty
  /\ handle' = [handle EXCEPT ![p] = "path"]
  /\ overlapped' = (overlapped \/ \E q \in Invocations : pc[q] \in Syncing)
  /\ UNCHANGED <<store, touched, stale>>

(* sync: open(temp_file, "wb") makes the file, or empties the one that is  *)
(* there, left by an invocation that was killed or of one still writing.   *)
OpenTemp(p) ==
  /\ pc[p] = "open"
  /\ pc' = [pc EXCEPT ![p] = "opened"]
  /\ tmp' = Empty
  /\ handle' = [handle EXCEPT ![p] = "tmp"]
  /\ overlapped' = (overlapped \/ \E q \in Invocations : pc[q] \in Syncing)
  /\ UNCHANGED <<store, path, touched, stale>>

(* A write goes to the open file, whatever name that has by now. *)
Write(p, part) ==
  /\ tmp' = IF handle[p] = "tmp" THEN [tmp EXCEPT ![part] = {store[p]}] ELSE tmp
  /\ path' = IF handle[p] = "path" THEN [path EXCEPT ![part] = {store[p]}] ELSE path
  /\ UNCHANGED <<store, history>>

DumpFirst(p) ==
  /\ pc[p] = "opened"
  /\ Write(p, 1)
  /\ pc' = [pc EXCEPT ![p] = "half"]
  /\ UNCHANGED handle

DumpRest_dangling(p) ==
  /\ pc[p] = "half"
  /\ Write(p, 2)
  /\ pc' = [pc EXCEPT ![p] = "dumped"]
  /\ handle' = [handle EXCEPT ![p] = "closed"]

DumpRest(p) ==
  /\ pc[p] = "half"
  /\ Write(p, 2)
  /\ pc' = [pc EXCEPT ![p] = "dumped"]
  /\ handle' = [handle EXCEPT ![p] = "none"]

(* The dump raises: the temporary file, whoever opened it, is removed.     *)
DumpFails(p) ==
  /\ pc[p] \in {"opened", "half"}
  /\ tmp' = NoFile
  /\ Leave(p, "raised")
  /\ handle' = [q \in Invocations |->
                  IF q = p THEN "none"
                  ELSE IF handle[q] = "tmp" THEN "name" ELSE handle[q]]
  /\ stale' = [stale EXCEPT ![p] = FALSE]
  /\ UNCHANGED <<path, overlapped>>

(* shutil.move.  An explicit sync (the cached decorator) goes on with the  *)
(* storage, the one in run is the last thing the invocation does.          *)
Move(p) ==
  /\ pc[p] = "dumped" /\ tmp # NoFile
  /\ path' = tmp
  /\ tmp' = NoFile
  /\ handle' = [q \in Invocations |->
                  CASE handle[q] = "tmp" -> "path"
                    [] handle[q] = "path" -> "name"
                    [] OTHER -> handle[q]]
  /\ \/ /\ pc' = [pc EXCEPT ![p] = "open"]
        /\ touched' = [touched EXCEPT ![p] = {}]
        /\ stale' = [q \in Invocations |->
                       IF q = p THEN stale[q] ELSE pc[q] \notin Ended]
        /\ UNCHANGED store
     \/ /\ Leave(p, "done")
        /\ stale' = [q \in Invocations |-> q # p /\ pc[q] \notin Ended]
  /\ UNCHANGED overlapped

(* The temporary file has been moved or removed by somebody else. *)
MoveFails(p) ==
  /\ pc[p] = "dumped" /\ tmp = NoFile
  /\ End(p, "raised")
  /\ UNCHANGED diskvars

Killed(p) ==
  /\ pc[p] \notin Ended
  /\ End(p, "killed")
  /\ UNCHANGED diskvars

Step(p) ==
  \/ GetStorage(p) \/ GetStorageRaises(p)
  \/ \E k \in Keys : SetItem(p, k) \/ DelItem(p, k)
  \/ ViewRaises(p)
  \/ OpenTemp(p) \/ DumpFirst(p) \/ DumpRest(p) \/ DumpFails(p)
  \/ Move(p) \/ MoveFails(p)
  \/ Killed(p)

Next == \E p \in Invocations : Step(p)

Spec == Init /\ [][Next]_vars
------------------------------------------------------------------------------
FileIsWhole == path # NoFile => Whole(path)

(* The storage on disk is whole at all times as long as no two syncs       *)
(* overlap: a dump that fails and an invocation that is killed anywhere in *)
(* sync leave the last complete dump in place (the temporary file and the  *)
(* move in sync), and the next invocation loads it.                        *)
SerialSyncsAreSafe == ~overlapped => FileIsWhole

KeepsOtherKeys(p) ==
  \A k \in Keys \ touched[p] : k \in Contents' <=> k \in Contents

(* An invocation that nobody else's sync came in between puts back what it *)
(* did not touch: a key is on disk behind its move exactly if it was       *)
(* before, unless this invocation set or deleted it.                       *)
FreshSyncKeepsKeys ==
  [][\A p \in Invocations :
       Move(p) /\ ~stale[p] /\ ~overlapped => KeepsOtherKeys(p)]_vars

(* "The returned storage is a fully functioning python dictionary ...  It  *)
(* is usually not necessary for the caller to load or save the storage     *)
(* manually" (get_storage): a sync keeps the keys it did not touch, even   *)
(* when another invocation synced since it loaded.                         *)
SyncKeepsKeys ==
  [][\A p \in Invocations : Move(p) /\ ~overlapped => KeepsOtherKeys(p)]_vars

(* load: "UnknownFormat: When the file exists but couldn't be loaded".     *)
(* That is the one error get_storage can offer to clear the storage for.   *)
LoadErrorIsUnknownFormat == LoadOutcome \in {"new", "loaded", "UnknownFormat"}
==============================================================================
