----------------------------- MODULE StorageProofs -----------------------------
(* Theorems about Storage, for any number of invocations and any keys.     *)
EXTENDS Storage, TLAPS

(* The inductive invariant.  As long as no two syncs have overlapped, at   *)
(* most one invocation is in sync, it alone has the temporary file, which  *)
(* holds as much of its store as it has dumped, and the storage is whole.  *)
Writing == {"opened", "half"}

OneSync == \A p, q \in Invocations : pc[p] \in Syncing /\ pc[q] \in Syncing => p = q

HandlesGood ==
  \A p \in Invocations : handle[p] = IF pc[p] \in Writing THEN "tmp" ELSE "none"

TempGood ==
  \A p \in Invocations :
    /\ pc[p] \in Syncing => tmp # NoFile
    /\ pc[p] = "half" => tmp[1] = {store[p]}
    /\ pc[p] = "dumped" => tmp = <<{store[p]}, {store[p]}>>

Serial == OneSync /\ HandlesGood /\ FileIsWhole /\ TempGood

(* What an invocation has not touched it has as it is on disk, as long as  *)
(* nobody else has synced since it loaded.                                 *)
FreshGood ==
  \A p \in Invocations : pc[p] \notin Ended /\ ~stale[p] =>
    \A k \in Keys \ touched[p] : k \in store[p] <=> k \in Contents

(* An invocation that ended has touched nothing, and nobody synced since.  *)
EndedGood ==
  \A p \in Invocations : pc[p] \in Ended => touched[p] = {} /\ ~stale[p]

(* An open file that has a name exists under it. *)
HandleNames ==
  \A p \in Invocations :
    /\ handle[p] = "tmp" => tmp # NoFile
    /\ handle[p] = "path" => path # NoFile

IInv == TypeOK /\ HandleNames /\ EndedGood /\ (~overlapped => Serial /\ FreshGood)

LEMMA InitIInv == Init => IInv
BY DEF Init, IInv, TypeOK, HandleNames, EndedGood, Serial, FreshGood, OneSync, HandlesGood,
       TempGood, FileIsWhole, Ended, Syncing, Writing, NoFile

------------------------------------------------------------------------------
(* Types. *)
LEMMA FileTypes ==
  /\ NoFile \in {NoFile} \cup (Parts \X Parts)
  /\ Empty \in {NoFile} \cup (Parts \X Parts)
BY DEF NoFile, Empty, Parts

LEMMA WriteTypes ==
  ASSUME TypeOK, HandleNames, NEW p \in Invocations, NEW part \in {1, 2},
         Write(p, part)
  PROVE  /\ tmp' \in {NoFile} \cup (Parts \X Parts)
         /\ path' \in {NoFile} \cup (Parts \X Parts)
         /\ tmp' = NoFile <=> tmp = NoFile
         /\ path' = NoFile <=> path = NoFile
<1>1. {store[p]} \in Parts
  BY DEF TypeOK, Parts
<1>2. ASSUME NEW f \in Parts \X Parts
      PROVE  /\ [f EXCEPT ![part] = {store[p]}] \in Parts \X Parts
             /\ f # NoFile /\ [f EXCEPT ![part] = {store[p]}] # NoFile
  BY <1>1 DEF NoFile
<1> QED
  BY <1>2 DEF TypeOK, HandleNames, Write

LEMMA TypeStep ==
  ASSUME TypeOK, HandleNames, NEW p \in Invocations, Step(p)
  PROVE  TypeOK' /\ HandleNames'
<1> USE FileTypes
<1>1. CASE GetStorage(p)
  <2>1. Contents \in SUBSET Keys
    BY DEF TypeOK, Contents, Parts
  <2> QED
    BY <1>1, <2>1
       DEF GetStorage, TypeOK, HandleNames, Ended, Syncing, diskvars, history
<1>2. CASE GetStorageRaises(p)
  BY <1>2 DEF GetStorageRaises, TypeOK, HandleNames, Ended, Syncing, diskvars, history
<1>3. CASE \E k \in Keys : SetItem(p, k) \/ DelItem(p, k)
  BY <1>3 DEF SetItem, DelItem, TypeOK, HandleNames, diskvars
<1>4. CASE ViewRaises(p) \/ MoveFails(p) \/ Killed(p)
  BY <1>4 DEF ViewRaises, MoveFails, Killed, End, Leave, TypeOK, HandleNames, Ended,
              Syncing, diskvars
<1>5. CASE OpenTemp(p)
  <2>1. overlapped' \in BOOLEAN
    BY <1>5 DEF OpenTemp
  <2>2. tmp' # NoFile
    BY <1>5 DEF OpenTemp, Empty, NoFile
  <2> QED
    BY <1>5, <2>1, <2>2 DEF OpenTemp, TypeOK, HandleNames, Syncing
<1>6. CASE DumpFirst(p)
  <2>1. Write(p, 1)
    BY <1>6 DEF DumpFirst
  <2> QED
    BY <1>6, <2>1, WriteTypes DEF DumpFirst, Write, TypeOK, HandleNames, Syncing, history
<1>7. CASE DumpRest(p)
  <2>1. Write(p, 2)
    BY <1>7 DEF DumpRest
  <2> QED
    BY <1>7, <2>1, WriteTypes DEF DumpRest, Write, TypeOK, HandleNames, Syncing, history
<1>8. CASE DumpFails(p)
  BY <1>8 DEF DumpFails, Leave, TypeOK, HandleNames, Ended
<1>9. CASE Move(p)
  <2>1. stale' \in [Invocations -> BOOLEAN]
    BY <1>9 DEF Move, TypeOK
  <2> QED
    BY <1>9, <2>1 DEF Move, Leave, TypeOK, HandleNames, Ended
<1> QED
  BY <1>1, <1>2, <1>3, <1>4, <1>5, <1>6, <1>7, <1>8, <1>9 DEF Step

(* Who has ended, or comes to an end, has touched nothing. *)
LEMMA EndedStep ==
  ASSUME TypeOK, EndedGood, NEW p \in Invocations, Step(p)
  PROVE  EndedGood'
<1> USE DEF EndedGood, TypeOK, Ended
<1>1. CASE GetStorage(p) \/ GetStorageRaises(p)
  BY <1>1 DEF GetStorage, GetStorageRaises, history
<1>2. CASE \E k \in Keys : SetItem(p, k) \/ DelItem(p, k)
  BY <1>2 DEF SetItem, DelItem
<1>3. CASE ViewRaises(p) \/ MoveFails(p) \/ Killed(p)
  BY <1>3 DEF ViewRaises, MoveFails, Killed, End, Leave
<1>4. CASE OpenTemp(p) \/ DumpFirst(p) \/ DumpRest(p)
  BY <1>4 DEF OpenTemp, DumpFirst, DumpRest, Write, history
<1>5. CASE DumpFails(p)
  BY <1>5 DEF DumpFails, Leave
<1>6. CASE Move(p)
  <2>1. \/ Leave(p, "done")
        \/ /\ pc' = [pc EXCEPT ![p] = "open"] /\ UNCHANGED store
           /\ touched' = [touched EXCEPT ![p] = {}]
    BY <1>6 DEF Move
  <2>2. \A q \in Invocations : q # p => stale'[q] = (pc[q] \notin Ended)
    BY <1>6 DEF Move
  <2>3. CASE Leave(p, "done")
    <3>1. stale'[p] = FALSE
      BY <1>6, <2>3 DEF Move, Leave
    <3> QED
      BY <2>2, <2>3, <3>1 DEF Leave
  <2>4. CASE /\ pc' = [pc EXCEPT ![p] = "open"] /\ UNCHANGED store
             /\ touched' = [touched EXCEPT ![p] = {}]
    BY <2>2, <2>4
  <2> QED
    BY <2>1, <2>3, <2>4
<1> QED
  BY <1>1, <1>2, <1>3, <1>4, <1>5, <1>6 DEF Step

------------------------------------------------------------------------------
(* What a step does to overlapped: only the beginning of a sync sets it,   *)
(* and then another invocation is in sync.                                 *)
LEMMA NotOverlapped ==
  ASSUME TypeOK, NEW p \in Invocations, Step(p), ~overlapped'
  PROVE  /\ ~overlapped
         /\ OpenTemp(p) => \A q \in Invocations : pc[q] \notin Syncing
<1>1. CASE OpenTemp(p)
  BY <1>1 DEF OpenTemp
<1>2. CASE ~OpenTemp(p)
  <2>1. overlapped' = overlapped
    BY <1>2 DEF Step, GetStorage, GetStorageRaises, SetItem, DelItem, ViewRaises,
                DumpFirst, DumpRest, DumpFails, Move, MoveFails, Killed, End, Leave,
                Write, history
  <2> QED
    BY <1>2, <2>1
<1> QED
  BY <1>1, <1>2

(* A step of an invocation leaves the others where they are. *)
LEMMA OthersStay ==
  ASSUME TypeOK, NEW p \in Invocations, Step(p), NEW q \in Invocations, q # p
  PROVE  pc'[q] = pc[q] /\ store'[q] = store[q] /\ touched'[q] = touched[q]
BY DEF Step, GetStorage, GetStorageRaises, SetItem, DelItem, ViewRaises, OpenTemp,
       DumpFirst, DumpRest, DumpFails, Move, MoveFails, Killed, End, Leave, Write,
       history, TypeOK

(* While the syncs are serial, what they write is the temporary file, and  *)
(* the storage changes by a move only, to a complete dump.                 *)
LEMMA SerialStep ==
  ASSUME TypeOK, HandleNames, Serial, NEW p \in Invocations, Step(p), ~overlapped'
  PROVE  Serial'
<1> USE DEF TypeOK, Writing, Syncing, Ended, NoFile
<1>1. CASE GetStorage(p) \/ GetStorageRaises(p)
  BY <1>1 DEF GetStorage, GetStorageRaises, diskvars, Serial, OneSync, HandlesGood,
              FileIsWhole, TempGood, Whole
<1>2. CASE \E k \in Keys : SetItem(p, k) \/ DelItem(p, k)
  BY <1>2 DEF SetItem, DelItem, diskvars, Serial, OneSync, HandlesGood, FileIsWhole,
              TempGood, Whole
<1>3. CASE ViewRaises(p) \/ MoveFails(p) \/ Killed(p)
  BY <1>3 DEF ViewRaises, MoveFails, Killed, End, Leave, diskvars, Serial, OneSync,
              HandlesGood, FileIsWhole, TempGood, Whole
<1>4. CASE OpenTemp(p)
  <2>1. \A q \in Invocations : pc[q] \notin Syncing
    BY <1>4, NotOverlapped
  <2> QED
    BY <1>4, <2>1 DEF OpenTemp, Empty, Serial, OneSync, HandlesGood, FileIsWhole,
                      TempGood, Whole
<1>5. CASE DumpFirst(p)
  <2>0. handle[p] = "tmp" /\ tmp # NoFile
    BY <1>5 DEF DumpFirst, Serial, HandlesGood, TempGood
  <2>1. /\ path' = path /\ handle' = handle /\ store' = store
        /\ tmp' = [tmp EXCEPT ![1] = {store[p]}] /\ tmp \in Parts \X Parts
    BY <1>5, <2>0 DEF DumpFirst, Write
  <2>2. tmp' # NoFile /\ tmp'[1] = {store[p]}
    BY <2>1
  <2>3. OneSync' /\ HandlesGood' /\ FileIsWhole'
    BY <1>5, <2>1 DEF DumpFirst, Serial, OneSync, HandlesGood, FileIsWhole, Whole
  <2>4. \A q \in Invocations : q # p => pc'[q] \notin Syncing
    BY <1>5 DEF DumpFirst, Serial, OneSync
  <2>5. TempGood'
    BY <1>5, <2>1, <2>2, <2>4 DEF DumpFirst, TempGood
  <2> QED
    BY <2>3, <2>5 DEF Serial
<1>6. CASE DumpRest(p)
  <2>1. /\ handle[p] = "tmp" /\ path' = path /\ store' = store
        /\ tmp' = [tmp EXCEPT ![2] = {store[p]}] /\ tmp \in Parts \X Parts
        /\ tmp[1] = {store[p]}
    BY <1>6 DEF DumpRest, Write, Serial, HandlesGood, TempGood
  <2>2. tmp' = <<{store[p]}, {store[p]}>>
    BY <2>1
  <2>3. OneSync' /\ HandlesGood' /\ FileIsWhole'
    BY <1>6, <2>1 DEF DumpRest, Serial, OneSync, HandlesGood, FileIsWhole, Whole
  <2>4. \A q \in Invocations : q # p => pc'[q] \notin Syncing
    BY <1>6 DEF DumpRest, Serial, OneSync
  <2>5. TempGood'
    BY <1>6, <2>1, <2>2, <2>4 DEF DumpRest, TempGood
  <2> QED
    BY <2>3, <2>5 DEF Serial
<1>7. CASE DumpFails(p)
  <2>1. \A q \in Invocations : q # p => pc'[q] \notin Syncing /\ pc'[q] = pc[q]
    BY <1>7 DEF DumpFails, Leave, Serial, OneSync
  <2>2. pc'[p] = "raised" /\ path' = path
    BY <1>7 DEF DumpFails, Leave
  <2>3. HandlesGood'
    BY <1>7, <2>1, <2>2 DEF DumpFails, Serial, HandlesGood
  <2> QED
    BY <2>1, <2>2, <2>3 DEF Serial, OneSync, FileIsWhole, TempGood, Whole
<1>8. CASE Move(p)
  <2>1. path' = <<{store[p]}, {store[p]}>> /\ tmp' = NoFile
    BY <1>8 DEF Move, Serial, TempGood
  <2>2. \A q \in Invocations : q # p => pc'[q] \notin Syncing /\ pc'[q] = pc[q]
    BY <1>8 DEF Move, Leave, Serial, OneSync
  <2>3. pc'[p] \notin Syncing /\ pc[p] = "dumped"
    BY <1>8 DEF Move, Leave
  <2>4. HandlesGood'
    BY <1>8, <2>2, <2>3 DEF Move, Serial, HandlesGood
  <2> QED
    BY <2>1, <2>2, <2>3, <2>4 DEF Serial, OneSync, FileIsWhole, TempGood, Whole
<1> QED
  BY <1>1, <1>2, <1>3, <1>4, <1>5, <1>6, <1>7, <1>8 DEF Step

(* A move puts the store on disk; nothing else changes the storage.        *)
LEMMA StorageMoves ==
  ASSUME TypeOK, HandleNames, Serial, NEW p \in Invocations, Step(p)
  PROVE  IF Move(p) THEN Contents' = store[p] ELSE Contents' = Contents
<1>1. CASE Move(p)
  <2>1. path' = <<{store[p]}, {store[p]}>>
    BY <1>1 DEF Move, Serial, TempGood
  <2>2. UNION {store[p]} = store[p]
    OBVIOUS
  <2> QED
    BY <1>1, <2>1, <2>2 DEF Contents, NoFile
<1>2. CASE ~Move(p)
  <2>1. path' = path
    BY <1>2 DEF Step, GetStorage, GetStorageRaises, SetItem, DelItem, ViewRaises,
                OpenTemp, DumpFirst, DumpRest, DumpFails, MoveFails, Killed, Write,
                diskvars, Serial, HandlesGood
  <2> QED
    BY <1>2, <2>1 DEF Contents
<1> QED
  BY <1>1, <1>2

LEMMA FreshStep ==
  ASSUME TypeOK, HandleNames, EndedGood, Serial, FreshGood,
         NEW p \in Invocations, Step(p), ~overlapped'
  PROVE  FreshGood'
<1> SUFFICES ASSUME NEW q \in Invocations, pc'[q] \notin Ended, ~stale'[q],
                    NEW k \in Keys \ touched'[q]
             PROVE  k \in store'[q] <=> k \in Contents'
  BY DEF FreshGood
<1>1. CASE Move(p)
  <2>1. Contents' = store[p]
    BY <1>1, StorageMoves
  <2>2. CASE q = p
    <3>1. store'[p] = store[p]
      BY <1>1, <2>2 DEF Move, Leave, TypeOK, Ended
    <3> QED
      BY <2>1, <2>2, <3>1
  <2>3. CASE q # p
    <3>1. pc[q] \notin Ended
      BY <2>3, OthersStay
    <3>2. stale'[q]
      BY <1>1, <2>3, <3>1 DEF Move
    <3> QED
      BY <3>2
  <2> QED
    BY <2>2, <2>3
<1>2. CASE ~Move(p)
  <2>1. Contents' = Contents
    BY <1>2, StorageMoves
  <2>2. CASE q # p
    <3>1. /\ pc[q] \notin Ended /\ store'[q] = store[q] /\ touched'[q] = touched[q]
      BY <2>2, OthersStay
    <3>2. ~stale[q]
      BY <1>2, <2>2 DEF Step, GetStorage, GetStorageRaises, SetItem, DelItem,
            ViewRaises, OpenTemp, DumpFirst, DumpRest, DumpFails, MoveFails, Killed,
            End, Leave, Write, history, TypeOK
    <3> QED
      BY <2>1, <3>1, <3>2 DEF FreshGood
  <2>3. CASE q = p
    <3>1. CASE GetStorage(p)
      BY <2>1, <2>3, <3>1 DEF GetStorage, TypeOK
    <3>2. CASE \E l \in Keys : SetItem(p, l) \/ DelItem(p, l)
      BY <2>1, <2>3, <3>2 DEF SetItem, DelItem, FreshGood, TypeOK, Ended
    <3>3. CASE OpenTemp(p) \/ DumpFirst(p) \/ DumpRest(p)
      <4>1. /\ pc[p] \notin Ended /\ store' = store /\ touched' = touched
            /\ stale' = stale
        BY <3>3 DEF OpenTemp, DumpFirst, DumpRest, Write, history, Ended
      <4> QED
        BY <2>1, <2>3, <4>1 DEF FreshGood
    <3>4. CASE GetStorageRaises(p) \/ ViewRaises(p) \/ MoveFails(p) \/ Killed(p) \/ DumpFails(p)
      BY <2>3, <3>4 DEF GetStorageRaises, ViewRaises, MoveFails, Killed, DumpFails, End,
                        Leave, TypeOK, Ended
    <3> QED
      BY <1>2, <3>1, <3>2, <3>3, <3>4 DEF Step
  <2> QED
    BY <2>2, <2>3
<1> QED
  BY <1>1, <1>2

------------------------------------------------------------------------------
LEMMA NextIInv == IInv /\ [Next]_vars => IInv'
<1> SUFFICES ASSUME IInv, [Next]_vars PROVE IInv'
  OBVIOUS
<1>1. CASE UNCHANGED vars
  BY <1>1 DEF vars, diskvars, history, IInv, TypeOK, HandleNames, EndedGood, Serial,
              OneSync, HandlesGood, FileIsWhole, TempGood, Whole, FreshGood, Contents
<1>2. ASSUME NEW p \in Invocations, Step(p) PROVE IInv'
  <2>1. TypeOK' /\ HandleNames'
    BY <1>2, TypeStep DEF IInv
  <2>2. EndedGood'
    BY <1>2, EndedStep DEF IInv
  <2>3. ASSUME ~overlapped' PROVE Serial' /\ FreshGood'
    <3>1. Serial /\ FreshGood
      BY <1>2, <2>3, NotOverlapped DEF IInv
    <3> QED
      BY <1>2, <2>3, <3>1, SerialStep, FreshStep DEF IInv
  <2> QED
    BY <2>1, <2>2, <2>3 DEF IInv
<1> QED
  BY <1>1, <1>2 DEF Next

LEMMA SpecIInv == Spec => []IInv
BY InitIInv, NextIInv, PTL DEF Spec

(* Every variable keeps its type. *)
THEOREM TypeCorrect == Spec => []TypeOK
<1>1. IInv => TypeOK
  BY DEF IInv
<1> QED
  BY <1>1, SpecIInv, PTL

(* However many invocations there are, and wherever they fail or are       *)
(* killed in sync: as long as no two syncs overlap, the storage on disk is *)
(* whole (storage.py sync).                                                *)
THEOREM SerialSyncs == Spec => []SerialSyncsAreSafe
<1>1. IInv => SerialSyncsAreSafe
  BY DEF IInv, Serial, SerialSyncsAreSafe
<1> QED
  BY <1>1, SpecIInv, PTL

(* An invocation that nobody else's sync came in between loses no key it   *)
(* did not touch (storage.py sync, get_storage), however many there are.   *)
THEOREM FreshSyncs == Spec => FreshSyncKeepsKeys
<1>1. ASSUME IInv, [Next]_vars, NEW p \in Invocations, Move(p), ~stale[p], ~overlapped
      PROVE  KeepsOtherKeys(p)
  <2>1. Serial /\ FreshGood /\ TypeOK /\ HandleNames
    BY <1>1 DEF IInv
  <2>2. Step(p) /\ pc[p] \notin Ended
    BY <1>1 DEF Step, Move, Ended
  <2>3. Contents' = store[p]
    BY <1>1, <2>1, <2>2, StorageMoves
  <2> QED
    BY <1>1, <2>1, <2>2, <2>3 DEF FreshGood, KeepsOtherKeys
<1>2. IInv /\ [Next]_vars =>
        [\A p \in Invocations :
           Move(p) /\ ~stale[p] /\ ~overlapped => KeepsOtherKeys(p)]_vars
  BY <1>1
<1> QED
  BY <1>2, SpecIInv, PTL DEF Spec, FreshSyncKeepsKeys
==============================================================================
