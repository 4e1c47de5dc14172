----------------------------- MODULE StreamProofs -----------------------------
(* Theorems about Stream, for any calls, any size of the pack and any      *)
(* setting.                                                                *)
EXTENDS Stream, SequenceTheorems, TLAPS

(* The steps of a call leave the disk and the bots alone, but for Call,    *)
(* which starts a bot; the steps of a bot leave the calls alone.           *)
Dialog(c) ==
  \/ Look(c) \/ CancelLooking(c) \/ Raise(c) \/ StartMeasuring(c)
  \/ Measured(c) \/ Buffered(c) \/ CancelBuffering(c)

LEMMA DialogKeeps ==
  ASSUME TypeOK, NEW c \in Calls, Dialog(c)
  PROVE  /\ UNCHANGED <<bot, mode, next, holds, exists, file>>
         /\ pc[c] # "idle" /\ pc'[c] # "idle"
         /\ \A d \in Calls \ {c} : pc'[d] = pc[d]
<1>1. UNCHANGED <<bot, mode, next, holds, exists, file>>
  BY DEF Dialog, Look, CancelLooking, Raise, StartMeasuring, Measured, Buffered,
         CancelBuffering, botvars, diskvars
<1>2. PICK label \in Waiting \cup Ended : pc' = [pc EXCEPT ![c] = label]
  BY DEF Dialog, Look, CancelLooking, Raise, StartMeasuring, Measured, Buffered,
         CancelBuffering, Waiting, Ended
<1>3. pc[c] # "idle"
  BY DEF Dialog, Look, CancelLooking, Raise, StartMeasuring, Measured, Buffered,
         CancelBuffering
<1> QED
  BY <1>1, <1>2, <1>3 DEF TypeOK, Waiting, Ended

(* Whatever the speed, the percentage to wait for is at most the whole.    *)
LEMMA PercentageBounded ==
  ASSUME NEW growth \in Int, NEW scaled \in Measurements(growth)
  PROVE  Capped(scaled) \in Int /\ Capped(scaled) <= 1000
<1>1. \/ scaled = 10 * BufferPercent
      \/ scaled \in Scaled
      \/ \E s \in Scaled : scaled = -s
  BY DEF Measurements
<1>2. BufferPercent \in Int /\ \A s \in Scaled : s \in Int
  BY StreamAssumption
<1>3. scaled \in Int
  BY <1>1, <1>2
<1> QED
  BY <1>3 DEF Capped

(* A table of the calls with a new entry.                                  *)
LEMMA NewEntry ==
  ASSUME NEW S, NEW f \in [Calls -> S], NEW c \in Calls, NEW v \in S
  PROVE  [f EXCEPT ![c] = v] \in [Calls -> S]
OBVIOUS

LEMMA PutAtType ==
  ASSUME NEW chunks \in Seq(Nat), NEW n \in Nat
  PROVE  PutAt(chunks, n) \in Seq(Nat)
<1> DEFINE top == IF n > Len(chunks) THEN n ELSE Len(chunks)
           new == [i \in 1 .. top |->
                     IF i = n THEN n ELSE IF i <= Len(chunks) THEN chunks[i] ELSE 0]
<1>1. top \in Nat
  OBVIOUS
<1>2. \A i \in 1 .. top :
        (IF i = n THEN n ELSE IF i <= Len(chunks) THEN chunks[i] ELSE 0) \in Nat
  OBVIOUS
<1>3. new \in Seq(Nat)
  BY <1>1, <1>2
<1> QED
  BY <1>3 DEF PutAt

(* PutAt at the end of a file appends.                                     *)
LEMMA PutAtEnd ==
  ASSUME NEW chunks \in Seq(Nat)
  PROVE  PutAt(chunks, Len(chunks) + 1) = Append(chunks, Len(chunks) + 1)
BY DEF PutAt
-------------------------------------------------------------------------------
LEMMA InitTypes == Init => TypeOK
<1> SUFFICES ASSUME Init PROVE TypeOK
  OBVIOUS
<1>1. file \in Seq(Nat)
  BY DEF Init
<1>2. /\ pc \in [Calls -> {"idle"} \cup Waiting \cup Ended]
      /\ bot \in [Calls -> {"none", "done", "dead"} \cup Working]
      /\ mode \in [Calls -> {"write", "append"}]
  BY DEF Init
<1>3. cancel \in [Calls -> BOOLEAN] /\ holds \in [Calls -> BOOLEAN]
  BY DEF Init
<1>4. exists \in BOOLEAN
  BY DEF Init
<1>5. /\ xsize \in [Calls -> Nat] /\ next \in [Calls -> Nat]
      /\ factor \in [Calls -> Int] /\ \A c \in Calls : factor[c] <= 1000
  BY DEF Init
<1> QED
  BY <1>1, <1>2, <1>3, <1>4, <1>5 DEF TypeOK

LEMMA CallTypes ==
  ASSUME TypeOK, NEW c \in Calls, CallStep(c)
  PROVE  TypeOK'
<1> USE DEF TypeOK, Waiting, Ended, Working
<1>0. Len(file) \in Nat
  OBVIOUS
<1>1. CASE \E download \in {"True", "False", "size"} : Call(c, download)
  BY <1>1 DEF Call, diskvars
<1>2. CASE Look(c)
  BY <1>2 DEF Look, botvars, diskvars
<1>8. CASE CancelLooking(c)
  <2>1. /\ pc' \in [Calls -> {"idle"} \cup Waiting \cup Ended]
        /\ cancel' \in [Calls -> BOOLEAN]
    BY <1>8 DEF CancelLooking
  <2> QED
    BY <1>8, <2>1 DEF CancelLooking, botvars, diskvars
<1>3. CASE Raise(c)
  <2>1. factor' \in [Calls -> Int] /\ \A d \in Calls : factor'[d] <= 1000
    BY <1>3 DEF Raise
  <2>2. UNCHANGED <<cancel, bot, mode, next, holds, exists, file>>
    BY <1>3 DEF Raise, botvars, diskvars
  <2>3. /\ pc' \in [Calls -> {"idle"} \cup Waiting \cup Ended]
        /\ xsize' \in [Calls -> Nat]
    BY <1>3 DEF Raise
  <2> QED
    BY <2>1, <2>2, <2>3
<1>4. CASE CancelBuffering(c)
  <2>1. factor' \in [Calls -> Int] /\ \A d \in Calls : factor'[d] <= 1000
    BY <1>4 DEF CancelBuffering
  <2> QED
    BY <1>4, <2>1 DEF CancelBuffering, botvars, diskvars
<1>5. CASE StartMeasuring(c)
  BY <1>0, <1>5 DEF StartMeasuring, botvars, diskvars
<1>6. CASE Measured(c)
  <2>1. PICK scaled \in Measurements(Len(file) - xsize[c]) :
          factor' = [factor EXCEPT ![c] = Capped(scaled)]
    BY <1>6 DEF Measured
  <2>2. Len(file) - xsize[c] \in Int
    BY <1>0
  <2>3. Capped(scaled) \in Int /\ Capped(scaled) <= 1000
    BY <2>2, PercentageBounded
  <2>4. factor' \in [Calls -> Int] /\ \A d \in Calls : factor'[d] <= 1000
    BY <2>1, <2>3
  <2> QED
    BY <1>6, <2>4 DEF Measured, botvars, diskvars
<1>7. CASE Buffered(c)
  BY <1>7 DEF Buffered, botvars, diskvars
<1> QED
  BY <1>1, <1>2, <1>3, <1>4, <1>5, <1>6, <1>7, <1>8 DEF CallStep

LEMMA BotTypes ==
  ASSUME TypeOK, NEW c \in Calls, BotStep(c)
  PROVE  TypeOK'
<1> USE DEF TypeOK, Waiting, Ended, Working
<1>0. Len(file) \in Nat /\ next[c] \in Nat
  OBVIOUS
<1>1. CASE BotOffered(c)
  <2>1. bot' \in [Calls -> {"none", "done", "dead"} \cup Working]
    <3>1. bot \in [Calls -> {"none", "done", "dead"} \cup Working]
      OBVIOUS
    <3>2. PICK goal \in {"none", "done", "dead"} \cup Working :
            bot' = [bot EXCEPT ![c] = goal]
      BY <1>1 DEF BotOffered
    <3> QED
      BY <3>1, <3>2, NewEntry, Zenon
  <2>2. next' \in [Calls -> Nat]
    BY <1>0, <1>1 DEF BotOffered
  <2> QED
    BY <1>1, <2>1, <2>2 DEF BotOffered, callvars, diskvars
<1>2. CASE BotCreates(c)
  <2>1. file' \in Seq(Nat)
    BY <1>2 DEF BotCreates
  <2> QED
    BY <1>2, <2>1 DEF BotCreates, callvars
<1>3. CASE BotResumes(c)
  BY <1>3 DEF BotResumes, callvars
<1>4. CASE BotReceives(c)
  <2>1. file' \in {file, Append(file, next[c]), PutAt(file, next[c])}
    BY <1>4 DEF BotReceives
  <2>2. file' \in Seq(Nat)
    <3>1. PutAt(file, next[c]) \in Seq(Nat)
      BY <1>0, PutAtType
    <3>2. file \in Seq(Nat) /\ Append(file, next[c]) \in Seq(Nat)
      BY <1>0
    <3> HIDE DEF TypeOK
    <3> QED
      BY <2>1, <3>1, <3>2, Zenon
  <2> QED
    BY <1>0, <1>4, <2>2 DEF BotReceives, callvars
<1>5. CASE BotStops(c)
  <2>1. bot' = [bot EXCEPT ![c] = bot'[c]] /\ bot'[c] \in {"dead", "done", "asking"}
    BY <1>5 DEF BotStops
  <2> QED
    BY <1>5, <2>1 DEF BotStops, callvars, diskvars
<1>6. CASE BotDies(c)
  BY <1>6 DEF BotDies, callvars, diskvars
<1> QED
  BY <1>1, <1>2, <1>3, <1>4, <1>5, <1>6 DEF BotStep

LEMMA NextTypes == TypeOK /\ [Next]_vars => TypeOK'
<1> SUFFICES ASSUME TypeOK, [Next]_vars PROVE TypeOK'
  OBVIOUS
<1>1. CASE Delete
  <2>1. file' \in Seq(Nat)
    BY <1>1 DEF Delete
  <2>3. exists' \in BOOLEAN /\ holds' \in [Calls -> BOOLEAN]
    <3>1. exists' = FALSE /\ holds' = [d \in Calls |-> FALSE]
      BY <1>1 DEF Delete
    <3> QED
      BY <3>1, Zenon
  <2>2. UNCHANGED <<pc, cancel, xsize, factor, bot, mode, next>>
    BY <1>1 DEF Delete, callvars
  <2> QED
    BY <2>1, <2>2, <2>3 DEF TypeOK
<1>2. CASE UNCHANGED vars
  BY <1>2 DEF TypeOK, vars, callvars, botvars, diskvars
<1> QED
  BY <1>1, <1>2, CallTypes, BotTypes DEF Next, NextKept

(* Percentages stay at 100 and below, and the file is a list of chunks     *)
(* and holes (addon.py:1034-1124).                                         *)
THEOREM TypeCorrect == Spec => []TypeOK
BY InitTypes, NextTypes, PTL DEF Spec

LEMMA KeptIsNext == [NextKept]_vars => [Next]_vars
BY DEF Next

LEMMA KeptTypes == KeptSpec => []TypeOK
BY InitTypes, NextTypes, KeptIsNext, PTL DEF KeptSpec

LEMMA NextCancelled ==
  TypeOK /\ CancelledNeverPlays /\ [Next]_vars => CancelledNeverPlays'
<1> SUFFICES ASSUME TypeOK, CancelledNeverPlays, [Next]_vars
             PROVE  CancelledNeverPlays'
  OBVIOUS
<1> USE DEF TypeOK, CancelledNeverPlays
<1>1. ASSUME NEW c \in Calls, CallStep(c)
      PROVE  CancelledNeverPlays'
  <2>1. CASE \E download \in {"True", "False", "size"} : Call(c, download)
    BY <2>1 DEF Call
  <2>2. CASE Look(c) \/ Raise(c) \/ StartMeasuring(c) \/ Measured(c)
    BY <2>2 DEF Look, Raise, StartMeasuring, Measured
  <2>3. CASE CancelLooking(c)
    BY <2>3 DEF CancelLooking
  <2>5. CASE CancelBuffering(c)
    BY <2>5 DEF CancelBuffering
  <2>4. CASE Buffered(c)
    <3>1. pc'[c] = "resolved" => ~cancel[c]
      BY <2>4 DEF Buffered
    <3>2. \A d \in Calls \ {c} : pc'[d] = pc[d]
      BY <2>4 DEF Buffered
    <3>3. cancel' = cancel
      BY <2>4 DEF Buffered
    <3> QED
      BY <3>1, <3>2, <3>3
  <2> QED
    BY <1>1, <2>1, <2>2, <2>3, <2>4, <2>5 DEF CallStep
<1>2. ASSUME NEW c \in Calls, BotStep(c)
      PROVE  CancelledNeverPlays'
  <2>1. UNCHANGED callvars
    BY <1>2 DEF BotStep, BotOffered, BotCreates, BotResumes, BotReceives, BotStops, BotDies
  <2> QED
    BY <2>1 DEF callvars
<1>3. CASE Delete \/ UNCHANGED vars
  BY <1>3 DEF Delete, vars, callvars
<1> QED
  BY <1>1, <1>2, <1>3 DEF Next, NextKept

(* However calls, bots and deletions interleave, a call that was cancelled *)
(* does not play, also when the loops went on behind the cancel button     *)
(* (addon.py:1065-1067, 1103-1112).                                        *)
THEOREM CancelledNeverPlaysAlways == Spec => []CancelledNeverPlays
<1>1. Init => CancelledNeverPlays
  BY DEF Init, CancelledNeverPlays
<1> QED
  BY <1>1, NextCancelled, TypeCorrect, PTL DEF Spec
-------------------------------------------------------------------------------
(* While no two bots are at work, a bot knows what is on disk from the     *)
(* look at the file to the end of the transfer.                            *)
OneWriter ==
  \A c, d \in Calls : bot[c] \in Working /\ bot[d] \in Working => c = d

BotKnows(c) ==
  /\ bot[c] = "creating" => ~exists
  /\ bot[c] \in {"resuming", "receiving"} => exists /\ next[c] = Len(file) + 1
  /\ bot[c] = "receiving" => holds[c]
  /\ bot[c] = "done" => Len(file) >= Enough
  /\ bot[c] # "none" => pc[c] # "idle"

KeptInv ==
  /\ FileIsBeginning
  /\ ~exists => file = <<>>
  /\ \A c \in Calls : BotKnows(c)

LEMMA EmptyIsBeginning ==
  ASSUME file' = <<>>
  PROVE  FileIsBeginning' /\ Len(file') = 0
<1>1. Len(file') = 0 /\ PackSize >= 0
  BY StreamAssumption
<1>2. file' = [i \in 1 .. 0 |-> i]
  OBVIOUS
<1> QED
  BY <1>1, <1>2 DEF FileIsBeginning, Download!IsBeginning, Download!Pack

(* The next chunk behind a beginning makes a longer one.                   *)
LEMMA LongerBeginning ==
  ASSUME TypeOK, FileIsBeginning, Len(file) + 1 <= PackSize,
         file' = Append(file, Len(file) + 1)
  PROVE  FileIsBeginning' /\ Len(file') = Len(file) + 1
<1> DEFINE n == Len(file)
<1>1. n \in Nat /\ file = [i \in 1 .. n |-> i] /\ n + 1 <= PackSize
  BY DEF TypeOK, FileIsBeginning, Download!IsBeginning, Download!Pack
<1>2. Len(file') = n + 1
  BY DEF TypeOK
<1> HIDE DEF n
<1>3. Append([i \in 1 .. n |-> i], n + 1) = [i \in 1 .. n + 1 |-> i]
  BY <1>1
<1>4. file' = [i \in 1 .. n + 1 |-> i]
  BY <1>1, <1>3 DEF n
<1> QED
  BY <1>1, <1>2, <1>4 DEF FileIsBeginning, Download!IsBeginning, Download!Pack, n

(* What a bot writes while it is alone is the next chunk.                  *)
LEMMA ReceivesNext ==
  ASSUME TypeOK, KeptInv, NEW c \in Calls, BotReceives(c)
  PROVE  Len(file) + 1 <= PackSize /\ file' = Append(file, Len(file) + 1)
<1>1. next[c] = Len(file) + 1 /\ next[c] <= PackSize /\ holds[c]
  BY DEF KeptInv, BotKnows, BotReceives
<1>2. file' \in {Append(file, next[c]), PutAt(file, next[c])}
  BY <1>1 DEF BotReceives
<1> QED
  BY <1>1, <1>2, PutAtEnd DEF TypeOK

LEMMA InitKept == Init => KeptInv
<1> SUFFICES ASSUME Init PROVE KeptInv
  OBVIOUS
<1>1. Len(file) = 0 /\ PackSize >= 0 /\ file = [i \in 1 .. 0 |-> i]
  BY StreamAssumption DEF Init
<1>2. FileIsBeginning
  BY <1>1 DEF FileIsBeginning, Download!IsBeginning, Download!Pack
<1> QED
  BY <1>2 DEF Init, KeptInv, BotKnows

LEMMA CallKept ==
  ASSUME TypeOK, KeptInv, NEW c \in Calls, CallStep(c)
  PROVE  KeptInv'
<1>1. CASE Dialog(c)
  <2>1. /\ UNCHANGED <<bot, next, holds, exists, file>>
        /\ pc[c] # "idle" /\ \A d \in Calls \ {c} : pc'[d] = pc[d]
    BY <1>1, DialogKeeps
  <2>2. pc'[c] # "idle"
    BY <1>1, DialogKeeps
  <2>3. FileIsBeginning'
    BY <2>1 DEF KeptInv, FileIsBeginning, Download!IsBeginning, Download!Pack
  <2> QED
    BY <2>1, <2>2, <2>3 DEF KeptInv, BotKnows
<1>2. ASSUME NEW download \in {"True", "False", "size"}, Call(c, download)
      PROVE  KeptInv'
  <2>1. UNCHANGED <<next, holds, exists, file>>
    BY <1>2 DEF Call, diskvars
  <2>2. /\ pc'[c] # "idle" /\ bot'[c] \in {"asking", bot[c]} 
        /\ \A d \in Calls \ {c} : pc'[d] = pc[d] /\ bot'[d] = bot[d]
    BY <1>2 DEF Call, TypeOK
  <2>3. FileIsBeginning'
    BY <2>1 DEF KeptInv, FileIsBeginning, Download!IsBeginning, Download!Pack
  <2>4. BotKnows(c)'
    BY <2>1, <2>2 DEF KeptInv, BotKnows
  <2>5. \A d \in Calls \ {c} : BotKnows(d)'
    BY <2>1, <2>2 DEF KeptInv, BotKnows
  <2> QED
    BY <2>1, <2>3, <2>4, <2>5 DEF KeptInv
<1> QED
  BY <1>1, <1>2 DEF CallStep, Dialog

(* A bot is at work, and the only one. *)
LEMMA BotKept ==
  ASSUME TypeOK, KeptInv, OneWriter, NEW c \in Calls, BotStep(c)
  PROVE  KeptInv'
<1> USE DEF TypeOK
<1>0. bot[c] \in Working /\ \A d \in Calls \ {c} : bot[d] \notin Working
  BY DEF BotStep, BotOffered, BotCreates, BotResumes, BotReceives, BotStops, BotDies,
         Working, OneWriter
<1>1. UNCHANGED pc
  BY DEF BotStep, BotOffered, BotCreates, BotResumes, BotReceives, BotStops, BotDies,
         callvars
<1>2. \A d \in Calls \ {c} : bot'[d] = bot[d]
  BY DEF BotStep, BotOffered, BotCreates, BotResumes, BotReceives, BotStops, BotDies
<1>3. pc[c] # "idle" /\ Len(file) \in Nat
  BY <1>0 DEF KeptInv, BotKnows, Working
<1>4. ASSUME Len(file') >= Len(file) PROVE \A d \in Calls \ {c} : BotKnows(d)'
  <2> SUFFICES ASSUME NEW d \in Calls \ {c} PROVE BotKnows(d)'
    OBVIOUS
  <2>1. bot'[d] \notin Working /\ bot'[d] = bot[d] /\ pc'[d] = pc[d] /\ BotKnows(d)
    BY <1>0, <1>1, <1>2 DEF KeptInv
  <2>2. bot[d] = "done" => Len(file') >= Enough
    <3>1. Enough \in Nat /\ Len(file) \in Nat
      BY StreamAssumption
    <3>2. Len(file') \in Nat
      BY BotTypes DEF Working
    <3>3. \A i, j, k \in Nat : i >= j /\ j >= k => i >= k
      OBVIOUS
    <3> QED
      BY <1>4, <2>1, <3>1, <3>2, <3>3 DEF BotKnows
  <2> QED
    BY <2>1, <2>2 DEF BotKnows, Working
<1>5. ASSUME UNCHANGED file PROVE FileIsBeginning' /\ \A d \in Calls \ {c} : BotKnows(d)'
  BY <1>3, <1>4, <1>5 DEF KeptInv, FileIsBeginning, Download!IsBeginning, Download!Pack
<1>6. CASE BotOffered(c)
  <2>1. UNCHANGED <<file, exists>>
    BY <1>6 DEF BotOffered, diskvars
  <2>2. BotKnows(c)'
    BY <1>1, <1>3, <1>6, <2>1 DEF BotOffered, BotKnows
  <2> QED
    BY <1>5, <2>1, <2>2 DEF KeptInv
<1>7. CASE BotCreates(c)
  <2>1. file = <<>> /\ UNCHANGED file
    BY <1>7 DEF BotCreates, KeptInv, BotKnows
  <2>2. BotKnows(c)'
    BY <1>1, <1>3, <1>7, <2>1 DEF BotCreates, BotKnows
  <2> QED
    BY <1>5, <1>7, <2>1, <2>2 DEF KeptInv, BotCreates
<1>8. CASE BotResumes(c)
  <2>1. BotKnows(c)'
    BY <1>1, <1>3, <1>8 DEF BotResumes, BotKnows, KeptInv
  <2> QED
    BY <1>5, <1>8, <2>1 DEF KeptInv, BotResumes
<1>9. CASE BotReceives(c)
  <2>1. FileIsBeginning' /\ Len(file') = Len(file) + 1
    <3>1. Len(file) + 1 <= PackSize /\ file' = Append(file, Len(file) + 1)
      BY <1>9, ReceivesNext
    <3>2. FileIsBeginning
      BY DEF KeptInv
    <3> QED
      BY <3>1, <3>2, LongerBeginning
  <2>2. exists /\ exists' /\ bot' = bot /\ holds' = holds
        /\ bot[c] = "receiving" /\ next'[c] = next[c] + 1
    BY <1>9 DEF BotReceives, KeptInv, BotKnows
  <2>3. BotKnows(c)'
    BY <1>1, <1>3, <2>1, <2>2 DEF KeptInv, BotKnows
  <2> QED
    BY <1>3, <1>4, <2>1, <2>2, <2>3 DEF KeptInv
<1>10. CASE BotStops(c)
  <2>1. UNCHANGED <<file, exists>> /\ bot'[c] \in {"dead", "done", "asking"}
        /\ (bot'[c] = "done" => Len(file) >= Enough)
    BY <1>10 DEF BotStops, diskvars
  <2>2. BotKnows(c)'
    BY <1>1, <1>3, <2>1 DEF BotKnows
  <2> QED
    BY <1>5, <2>1, <2>2 DEF KeptInv
<1>11. CASE BotDies(c)
  <2>1. UNCHANGED <<file, exists>> /\ bot'[c] = "dead"
    BY <1>11 DEF BotDies, diskvars
  <2>2. BotKnows(c)'
    BY <1>1, <1>3, <2>1 DEF BotKnows
  <2> QED
    BY <1>5, <2>1, <2>2 DEF KeptInv
<1> QED
  BY <1>6, <1>7, <1>8, <1>9, <1>10, <1>11 DEF BotStep

LEMMA NextInKept == TypeOK /\ KeptInv /\ OneWriter /\ [NextKept]_vars => KeptInv'
<1> SUFFICES ASSUME TypeOK, KeptInv, OneWriter, [NextKept]_vars PROVE KeptInv'
  OBVIOUS
<1>1. CASE UNCHANGED vars
  BY <1>1 DEF KeptInv, BotKnows, FileIsBeginning, Download!IsBeginning, Download!Pack,
              vars, callvars, botvars, diskvars
<1> QED
  BY <1>1, CallKept, BotKept DEF NextKept

LEMMA KeptInvariance == KeptSpec /\ []OneWriter => []KeptInv
BY InitKept, NextInKept, KeptTypes, PTL DEF KeptSpec

(* Any number of calls may be made: as long as no two bots are at work at  *)
(* once and nobody deletes the file, it is a beginning of the pack         *)
(* (xbot.py:209-232).  Two writers are what it takes to spoil it.          *)
THEOREM BeginningWithOneWriter == KeptSpec /\ []OneWriter => []FileIsBeginning
<1>1. KeptInv => FileIsBeginning
  BY DEF KeptInv
<1> QED
  BY <1>1, KeptInvariance, PTL
-------------------------------------------------------------------------------
OneCall == \A c, d \in Calls : c = d
fini == \E c \in Calls : bot[c] = "done"

LEMMA NothingDone ==
  ASSUME OneCall, NEW c \in Calls, bot[c] # "done"
  PROVE  ~fini
BY DEF OneCall, fini

LEMMA PromiseInit == Init => Download!Init
BY DEF Init, Download!Init

LEMMA PromiseStep ==
  ASSUME OneCall, TypeOK, KeptInv, [NextKept]_vars
  PROVE  [Download!Next]_(Download!avars)
<1> USE DEF TypeOK
<1>1. ASSUME NEW c \in Calls, BotReceives(c)
      PROVE  Download!Receive
  <2>1. ~fini /\ ~fini'
    BY <1>1, NothingDone DEF BotReceives, OneCall, fini
  <2>2. Len(file) + 1 <= PackSize /\ file' = Append(file, Len(file) + 1)
    BY <1>1, ReceivesNext
  <2>3. Len(file) < PackSize
    BY <2>2, StreamAssumption
  <2> QED
    BY <2>1, <2>2, <2>3 DEF Download!Receive, fini
<1>2. ASSUME NEW c \in Calls, BotStops(c)
      PROVE  [Download!Next]_(Download!avars)
  <2>1. UNCHANGED file
    BY <1>2 DEF BotStops, diskvars
  <2>2. CASE bot'[c] = "done"
    <3>1. Len(file) >= Enough /\ fini'
      BY <1>2, <2>2 DEF BotStops, fini
    <3> QED
      BY <2>1, <3>1 DEF Download!Next, Download!Finish, fini
  <2>3. CASE bot'[c] # "done"
    <3>1. ~fini /\ ~fini'
      BY <1>2, <2>3 DEF BotStops, OneCall, fini
    <3> QED
      BY <2>1, <3>1 DEF Download!avars, fini
  <2> QED
    BY <2>2, <2>3
<1>3. ASSUME NEW c \in Calls,
             BotOffered(c) \/ BotCreates(c) \/ BotResumes(c) \/ BotDies(c)
      PROVE  UNCHANGED Download!avars
  <2>1. UNCHANGED file
    BY <1>3 DEF BotOffered, BotCreates, BotResumes, BotDies, diskvars, KeptInv, BotKnows
  <2>2. bot[c] # "done" /\ bot'[c] # "done"
    BY <1>3 DEF BotOffered, BotCreates, BotResumes, BotDies, Working
  <2>3. ~fini /\ ~fini'
    BY <2>2 DEF OneCall, fini
  <2> QED
    BY <2>1, <2>3 DEF Download!avars, fini
<1>4. ASSUME NEW c \in Calls, CallStep(c)
      PROVE  UNCHANGED Download!avars
  <2>1. CASE Dialog(c)
    BY <2>1, DialogKeeps DEF Download!avars
  <2>2. ASSUME NEW download \in {"True", "False", "size"}, Call(c, download)
        PROVE  UNCHANGED Download!avars
    <3>1. UNCHANGED file
      BY <2>2 DEF Call, diskvars
    <3>2. bot[c] = "none" /\ bot'[c] # "done"
      BY <2>2 DEF Call, KeptInv, BotKnows
    <3>3. ~fini /\ ~fini'
      BY <3>2 DEF OneCall, fini
    <3> QED
      BY <3>1, <3>3 DEF Download!avars, fini
  <2> QED
    BY <1>4, <2>1, <2>2 DEF CallStep, Dialog
<1>5. CASE UNCHANGED vars
  BY <1>5 DEF vars, botvars, diskvars, Download!avars
<1> QED
  BY <1>1, <1>2, <1>3, <1>4, <1>5 DEF NextKept, BotStep, Download!Next

(* The bot of a single call keeps the promise of ResumableDownload while   *)
(* the dialog of that call does what it likes (addon.py:1034-1115,         *)
(* xbot.py:209-257).                                                       *)
THEOREM OneBotKeepsPromise == OneCall => (KeptSpec => BotKeepsPromise)
<1> SUFFICES ASSUME OneCall PROVE KeptSpec => BotKeepsPromise
  OBVIOUS
<1>1. OneWriter
  BY DEF OneCall, OneWriter
<1>2. TypeOK /\ KeptInv /\ [NextKept]_vars => [Download!Next]_(Download!avars)
  BY PromiseStep
<1> QED
  BY <1>1, <1>2, PromiseInit, KeptTypes, KeptInvariance, PTL
  DEF KeptSpec, BotKeepsPromise, Download!Spec
===============================================================================
