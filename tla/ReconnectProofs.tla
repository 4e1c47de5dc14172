--------------------------- MODULE ReconnectProofs ---------------------------
(* Theorems about Reconnect, for both values of SecondChannel and every    *)
(* length of run.                                                          *)
EXTENDS Reconnect, FiniteSetTheorems, TLAPS

Commands == {"check", "download"}

(* The inductive invariant.  The properties alone are not inductive: a     *)
(* bot that has not started must never have been connected, or its first   *)
(* failed _connect would leave it down without a check; and a command that *)
(* is due must be there to be run.                                         *)
IInv ==
  /\ TypeOK
  /\ thread = "new" => conn = "never"
  /\ due => delayed # <<>>
  /\ CheckFlagExact
  /\ ArmedWhenDown
  /\ WelcomedBotRequests
------------------------------------------------------------------------------
(* What InsertAt of the community modules yields, element by element.      *)
LEMMA InsertAtElements ==
  ASSUME NEW s \in Seq(Commands), NEW p \in 1 .. (Len(s) + 1),
         NEW e \in Commands
  PROVE  LET t == InsertAt(s, p, e)
         IN  /\ t \in Seq(Commands)
             /\ Len(t) = Len(s) + 1
             /\ t[p] = e
             /\ \A i \in 1 .. Len(s) : t[IF i < p THEN i ELSE i + 1] = s[i]
             /\ \A i \in 1 .. Len(t) :
                   t[i] = IF i < p THEN s[i] ELSE IF i = p THEN e ELSE s[i - 1]
<1> DEFINE left == SubSeq(s, 1, p - 1)
           right == SubSeq(s, p, Len(s))
<1>1. /\ left \in Seq(Commands) /\ Len(left) = p - 1
      /\ \A i \in 1 .. (p - 1) : left[i] = s[i]
  OBVIOUS
<1>2. /\ right \in Seq(Commands) /\ Len(right) = Len(s) - p + 1
      /\ \A i \in 1 .. (Len(s) - p + 1) : right[i] = s[p + i - 1]
  OBVIOUS
<1>3. InsertAt(s, p, e) = (left \o <<e>>) \o right
  BY DEF InsertAt
<1> HIDE DEF left, right
<1> DEFINE mid == left \o <<e>>
<1>4. /\ mid \in Seq(Commands) /\ Len(mid) = p
      /\ \A i \in 1 .. p : mid[i] = IF i < p THEN s[i] ELSE e
  BY <1>1
<1> HIDE DEF mid
<1> DEFINE t == mid \o right
<1>5. /\ t \in Seq(Commands) /\ Len(t) = Len(s) + 1
      /\ \A i \in 1 .. p : t[i] = mid[i]
      /\ \A i \in (p + 1) .. (Len(s) + 1) : t[i] = right[i - p]
  BY <1>2, <1>4
<1> HIDE DEF t
<1>6. \A i \in 1 .. Len(t) :
         t[i] = IF i < p THEN s[i] ELSE IF i = p THEN e ELSE s[i - 1]
  BY <1>2, <1>4, <1>5
<1>7. \A i \in 1 .. Len(s) : t[IF i < p THEN i ELSE i + 1] = s[i]
  BY <1>5, <1>6
<1>8. InsertAt(s, p, e) = t
  BY <1>3 DEF t, mid
<1> QED
  BY <1>5, <1>6, <1>7, <1>8

(* Scheduling a check keeps the flag exact and every request in the queue. *)
LEMMA CheckAdded ==
  ASSUME NEW s \in Seq(Commands), NEW f \in BOOLEAN, FlagExact(s, f)
  PROVE  /\ WithCheck(s, f) \in Seq(Commands)
         /\ WithCheck(s, f) # <<>>
         /\ FlagExact(WithCheck(s, f), TRUE)
         /\ Places(s, "download") # {} =>
               Places(WithCheck(s, f), "download") # {}
BY DEF WithCheck, FlagExact, Places, Commands

(* Scheduling a request leaves the checks as they are. *)
LEMMA DownloadAdded ==
  ASSUME NEW s \in Seq(Commands), NEW f \in BOOLEAN, FlagExact(s, f),
         NEW t \in WithDownload(s), due \in BOOLEAN
  PROVE  /\ t \in Seq(Commands)
         /\ t # <<>>
         /\ FlagExact(t, f)
         /\ Places(t, "download") # {}
<1>1. PICK p \in 1 .. (Len(s) + 1) : t = InsertAt(s, p, "download")
  BY DEF WithDownload
<1>2. /\ t \in Seq(Commands) /\ Len(t) = Len(s) + 1 /\ t[p] = "download"
      /\ \A i \in 1 .. Len(s) : t[IF i < p THEN i ELSE i + 1] = s[i]
      /\ \A i \in 1 .. Len(t) :
            t[i] = IF i < p THEN s[i]
                   ELSE IF i = p THEN "download" ELSE s[i - 1]
  BY <1>1, InsertAtElements DEF Commands
<1>3. t # <<>> /\ p \in Places(t, "download")
  BY <1>2 DEF Places
<1>4. \A i \in Places(t, "check") :
         /\ i # p
         /\ (IF i < p THEN i ELSE i - 1) \in Places(s, "check")
  BY <1>2 DEF Places
<1>5. \A i \in Places(s, "check") :
         (IF i < p THEN i ELSE i + 1) \in Places(t, "check")
  BY <1>2 DEF Places
<1>6. \A i, j \in Places(t, "check") : i = j
  <2> SUFFICES ASSUME NEW i \in Places(t, "check"), NEW j \in Places(t, "check")
               PROVE  i = j
    OBVIOUS
  <2>1. (IF i < p THEN i ELSE i - 1) = (IF j < p THEN j ELSE j - 1)
    BY <1>4 DEF FlagExact
  <2>2. i \in Nat /\ j \in Nat /\ i # p /\ j # p
    BY <1>2, <1>4 DEF Places
  <2> QED
    BY <2>1, <2>2
<1> QED
  BY <1>2, <1>3, <1>4, <1>5, <1>6 DEF FlagExact

(* Running the head of the queue takes exactly that command out of it.     *)
LEMMA HeadRemoved ==
  ASSUME NEW s \in Seq(Commands), s # <<>>, NEW f \in BOOLEAN, FlagExact(s, f)
  PROVE  /\ Tail(s) \in Seq(Commands)
         /\ Head(s) = "check" => FlagExact(Tail(s), FALSE)
         /\ Head(s) = "download" => FlagExact(Tail(s), f)
         /\ Head(s) = "check" /\ Places(s, "download") # {} =>
               Places(Tail(s), "download") # {}
<1>1. /\ Tail(s) \in Seq(Commands) /\ Len(Tail(s)) = Len(s) - 1
      /\ \A i \in 1 .. (Len(s) - 1) : Tail(s)[i] = s[i + 1]
      /\ Head(s) = s[1]
      /\ Len(s) \in Nat \ {0}
  OBVIOUS
<1>2. \A c : \A i \in Places(Tail(s), c) : i \in Nat \ {0} /\ i + 1 \in Places(s, c)
  BY <1>1 DEF Places
<1>3. \A c : \A i \in Places(s, c) :
         i # 1 => i - 1 \in Places(Tail(s), c)
  BY <1>1 DEF Places
<1>4. Head(s) = "check" => 1 \in Places(s, "check") /\ 1 \notin Places(s, "download")
  BY <1>1 DEF Places
<1>5. Head(s) = "download" => 1 \notin Places(s, "check")
  BY <1>1 DEF Places
<1>6. \A c : Places(s, c) \subseteq Nat
  BY DEF Places
<1>7. ASSUME Head(s) = "check" PROVE FlagExact(Tail(s), FALSE)
  BY <1>2, <1>4, <1>7 DEF FlagExact
<1>8. ASSUME Head(s) = "download" PROVE FlagExact(Tail(s), f)
  <2>1. f <=> Places(Tail(s), "check") # {}
    BY <1>2, <1>3, <1>5, <1>8 DEF FlagExact
  <2>2. \A i, j \in Places(Tail(s), "check") : i = j
    <3> SUFFICES ASSUME NEW i \in Places(Tail(s), "check"),
                        NEW j \in Places(Tail(s), "check")
                 PROVE  i = j
      OBVIOUS
    <3>1. i + 1 = j + 1
      BY <1>2 DEF FlagExact
    <3> QED
      BY <3>1, <1>2
  <2> QED
    BY <2>1, <2>2 DEF FlagExact
<1> QED
  BY <1>1, <1>3, <1>4, <1>7, <1>8
------------------------------------------------------------------------------
LEMMA InitIInv == Init => IInv
<1> SUFFICES ASSUME Init PROVE IInv
  OBVIOUS
<1>1. TypeOK
  <2>1. delayed \in Seq({"check", "download"})
    BY DEF Init
  <2>2. checkScheduled \in BOOLEAN /\ due \in BOOLEAN
    BY Zenon DEF Init
  <2> QED
    BY <2>1, <2>2 DEF Init, TypeOK
<1>2. CheckFlagExact
  BY DEF Init, CheckFlagExact, FlagExact, Places
<1> QED
  BY <1>1, <1>2 DEF Init, IInv, ArmedWhenDown, WelcomedBotRequests, Running

(* The state every disconnect leaves behind, and _connect when it fails    *)
(* with a check pending.                                                   *)
DownArmed ==
  /\ conn = "down" /\ link = "none" /\ requests = 0
  /\ checkScheduled = TRUE
  /\ delayed \in Seq(Commands) /\ delayed # <<>>
  /\ CheckFlagExact

LEMMA DownArmedIInv ==
  ASSUME DownArmed', thread' \in {"running", "exited", "crashed"},
         due' \in BOOLEAN
  PROVE  IInv'
<1>1. checkScheduled' \in BOOLEAN
  BY Zenon DEF DownArmed
<1>2. TypeOK'
  BY <1>1 DEF DownArmed, TypeOK, Commands
<1> QED
  BY <1>2 DEF DownArmed, IInv, ArmedWhenDown, WelcomedBotRequests

(* Every path to a lost connection goes through here. *)
LEMMA DisconnectArms ==
  ASSUME NEW q \in Seq(Commands), NEW f \in BOOLEAN, FlagExact(q, f),
         Disconnect(q, f)
  PROVE  DownArmed'
<1>1. /\ delayed' = WithCheck(q, f) /\ checkScheduled' = TRUE
      /\ conn' = "down" /\ link' = "none" /\ requests' = 0
  BY DEF Disconnect, ReconRun, NoSocket
<1>2. /\ WithCheck(q, f) \in Seq(Commands) /\ WithCheck(q, f) # <<>>
      /\ FlagExact(WithCheck(q, f), TRUE)
  BY CheckAdded
<1> QED
  BY <1>1, <1>2 DEF DownArmed, CheckFlagExact

(* _connect keeps the invariant, whatever the network answers, when a      *)
(* check is pending; without one, only the first _connect does: it leaves  *)
(* the bot "never" connected, which the invariant does not speak of.       *)
LEMMA DialIInv ==
  ASSUME IInv, NEW q \in Seq(Commands), NEW f \in BOOLEAN, FlagExact(q, f),
         Dial(q, f), ~Connected, f = TRUE \/ conn = "never",
         thread' = "running", due' \in BOOLEAN, due' => q # <<>>
  PROVE  IInv'
<1>1. CASE Disconnect(q, f)
  BY <1>1, DisconnectArms, DownArmedIInv
<1>2. CASE /\ conn' \in {conn, "open"}
           /\ link' \in {"none", "up"} /\ requests' = 0
           /\ checkScheduled' = f
           /\ delayed' = q
  <2>1. TypeOK'
    BY <1>2 DEF IInv, TypeOK, Commands
  <2>2. CheckFlagExact'
    BY <1>2 DEF CheckFlagExact
  <2>3. ArmedWhenDown'
    BY <1>2 DEF ArmedWhenDown
  <2> QED
    BY <1>2, <2>1, <2>2, <2>3 DEF IInv, WelcomedBotRequests, Connected
<1> QED
  BY <1>1, <1>2 DEF Dial, NoSocket

(* Every step keeps the invariant: one step per action. *)
LEMMA NextIInv == IInv /\ [Next]_rvars => IInv'
<1> SUFFICES ASSUME IInv, [Next]_rvars PROVE IInv'
  OBVIOUS
<1> USE DEF Commands
<1>0. /\ TypeOK /\ delayed \in Seq(Commands) /\ checkScheduled \in BOOLEAN
      /\ FlagExact(delayed, checkScheduled) /\ due \in BOOLEAN
  BY DEF IInv, TypeOK, CheckFlagExact
<1>1. CASE UNCHANGED rvars
  BY <1>1 DEF IInv, TypeOK, CheckFlagExact, FlagExact, Places, ArmedWhenDown,
              WelcomedBotRequests, Running, rvars
<1>2. CASE Start
  BY <1>0, <1>2, DialIInv DEF Start, IInv, Connected
<1>3. CASE LinkBreaks
  BY <1>3 DEF LinkBreaks, IInv, TypeOK, CheckFlagExact, ArmedWhenDown,
              WelcomedBotRequests, Running
<1>4. CASE NoticeHangup
  BY <1>0, <1>4, DisconnectArms, DownArmedIInv DEF NoticeHangup, Running
<1>5. CASE HandlerSendFails
  BY <1>0, <1>5, DisconnectArms, DownArmedIInv DEF HandlerSendFails
<1>6. CASE OnWelcome
  <2>1. CASE /\ conn' = "welcomed"
             /\ delayed' \in WithDownload(delayed)
             /\ UNCHANGED <<thread, link, checkScheduled, requests>>
    BY <1>0, <1>6, <2>1, DownloadAdded
       DEF OnWelcome, IInv, TypeOK, CheckFlagExact, ArmedWhenDown,
           WelcomedBotRequests, Running
  <2>2. CASE /\ conn' = "down" /\ NoSocket /\ checkScheduled' = TRUE
             /\ \E queue \in WithDownload(delayed) :
                  delayed' = WithCheck(queue, checkScheduled)
             /\ UNCHANGED thread
    <3>1. PICK queue \in WithDownload(delayed) :
             delayed' = WithCheck(queue, checkScheduled)
      BY <2>2
    <3>2. queue \in Seq(Commands) /\ FlagExact(queue, checkScheduled)
      BY <1>0, DownloadAdded
    <3>3. delayed' \in Seq(Commands) /\ delayed' # <<>> /\ CheckFlagExact'
      BY <1>0, <2>2, <3>1, <3>2, CheckAdded DEF CheckFlagExact
    <3> QED
      BY <1>0, <1>6, <2>2, <3>3, DownArmedIInv
         DEF OnWelcome, NoSocket, DownArmed, Running
  <2>3. CASE Disconnect(delayed, checkScheduled) /\ thread' = "crashed"
    BY <1>0, <1>6, <2>3, DisconnectArms, DownArmedIInv DEF OnWelcome
  <2> QED
    BY <1>6, <2>1, <2>2, <2>3 DEF OnWelcome
<1>7. CASE Tick
  BY <1>7 DEF Tick, IInv, TypeOK, CheckFlagExact, ArmedWhenDown,
              WelcomedBotRequests, Running
<1>8. CASE RunCheck
  <2>0. /\ delayed # <<>> /\ Running /\ thread' = thread /\ due' = FALSE
        /\ Tail(delayed) \in Seq(Commands) /\ FlagExact(Tail(delayed), FALSE)
        /\ Places(delayed, "download") # {} =>
              Places(Tail(delayed), "download") # {}
    BY <1>0, <1>8, HeadRemoved DEF RunCheck, IInv
  <2>1. CASE Connected
    BY <1>0, <1>8, <2>0, <2>1
       DEF RunCheck, IInv, TypeOK, CheckFlagExact, ArmedWhenDown,
           WelcomedBotRequests, Running, Connected
  <2>2. CASE ~Connected
    <3> DEFINE q == WithCheck(Tail(delayed), FALSE)
    <3>1. q \in Seq(Commands) /\ FlagExact(q, TRUE)
      BY <2>0, CheckAdded
    <3>2. Dial(q, TRUE)
      BY <1>8, <2>2 DEF RunCheck
    <3> QED
      BY <2>0, <2>2, <3>1, <3>2, DialIInv DEF Running
  <2> QED
    BY <2>1, <2>2
<1>9. CASE RunDownload
  <2>0. /\ delayed # <<>>
        /\ Tail(delayed) \in Seq(Commands)
        /\ FlagExact(Tail(delayed), checkScheduled)
    BY <1>0, <1>9, HeadRemoved DEF RunDownload, IInv
  <2>1. CASE /\ Connected
             /\ requests' = IF conn = "welcomed" THEN requests + 1 ELSE requests
             /\ delayed' = Tail(delayed)
             /\ due' = FALSE
             /\ UNCHANGED <<thread, conn, link, checkScheduled>>
    <3>1. requests' \in Nat /\ (conn = "welcomed" => requests' > 0)
      BY <1>0, <2>1 DEF TypeOK
    <3>2. TypeOK'
      BY <1>0, <2>0, <2>1, <3>1 DEF TypeOK
    <3> QED
      BY <2>0, <2>1, <3>1, <3>2
         DEF IInv, CheckFlagExact, ArmedWhenDown, WelcomedBotRequests,
             Running, Connected
  <2>2. CASE /\ Disconnect(Tail(delayed), checkScheduled)
             /\ due' = FALSE /\ UNCHANGED thread
    BY <1>0, <1>9, <2>0, <2>2, DisconnectArms, DownArmedIInv
       DEF RunDownload, Running
  <2>3. CASE /\ thread' = "crashed"
             /\ UNCHANGED <<conn, link, checkScheduled, delayed, due, requests>>
    BY <1>0, <2>3
       DEF IInv, TypeOK, CheckFlagExact, ArmedWhenDown, WelcomedBotRequests,
           Running
  <2> QED
    BY <1>9, <2>1, <2>2, <2>3 DEF RunDownload
<1>10. CASE HandlerDisconnects
  BY <1>0, <1>10, DisconnectArms, DownArmedIInv
     DEF HandlerDisconnects, Running
<1>11. CASE HandlerDies
  <2>1. CASE Connected
    BY <1>0, <1>11, <2>1, DisconnectArms, DownArmedIInv DEF HandlerDies
  <2>2. CASE ~Connected
    BY <1>0, <1>11, <2>2
       DEF HandlerDies, IInv, TypeOK, CheckFlagExact, ArmedWhenDown,
           WelcomedBotRequests, Running
  <2> QED
    BY <2>1, <2>2
<1>12. CASE HandlerRaises
  BY <1>0, <1>12
     DEF HandlerRaises, IInv, TypeOK, CheckFlagExact, ArmedWhenDown,
         WelcomedBotRequests, Running
<1>13. CASE Relaunch
  <2>1. thread' = "new" /\ conn' = "never" /\ link' = "none" /\ requests' = 0
        /\ checkScheduled' = FALSE /\ delayed' = <<>> /\ due' = FALSE
    BY <1>13 DEF Relaunch, NoSocket
  <2>2. delayed' \in Seq({"check", "download"})
    BY <2>1
  <2>3. checkScheduled' \in BOOLEAN /\ due' \in BOOLEAN
    BY <2>1, Zenon
  <2>4. CheckFlagExact'
    BY <2>1 DEF CheckFlagExact, FlagExact, Places
  <2> QED
    BY <2>1, <2>2, <2>3, <2>4
       DEF IInv, TypeOK, ArmedWhenDown, WelcomedBotRequests, Running
<1> QED
  BY <1>1, <1>2, <1>3, <1>4, <1>5, <1>6, <1>7, <1>8, <1>9, <1>10, <1>11, <1>12,
     <1>13 DEF Next

LEMMA SpecIInv == Spec => []IInv
BY InitIInv, NextIInv, PTL DEF Spec

(* Every variable keeps its type. *)
THEOREM TypeCorrect == Spec => []TypeOK
BY SpecIInv, PTL DEF IInv

(* A bot that lost its connection always has a reconnect check pending.    *)
THEOREM LostConnectionIsRetried == Spec => []ArmedWhenDown
BY SpecIInv, PTL DEF IInv

(* _check_scheduled says exactly whether the one check is in the queue.    *)
THEOREM CheckNeitherLostNorDoubled == Spec => []CheckFlagExact
BY SpecIInv, PTL DEF IInv

(* A registered bot has sent its pack request or has it in the queue.      *)
THEOREM RequestNeitherLostNorForgotten == Spec => []WelcomedBotRequests
BY SpecIInv, PTL DEF IInv
------------------------------------------------------------------------------
(* How often a pack is requested.  The requests of a queue and the checks  *)
(* say it together: a check that runs is the head, and the next one goes   *)
(* behind everything, so no more requests meet the next connection than    *)
(* were behind the check before it.                                        *)
Pending(queue) == Places(queue, "download")

Behind(queue) == {j \in Pending(queue) : \E i \in Places(queue, "check") : i < j}

(* The requests that no check waits behind. *)
Trailing(queue, flag) == IF flag THEN Behind(queue) ELSE Pending(queue)

(* The inductive invariant: no check waits behind one request at most, and *)
(* a connection that is not registered has one at most, ahead of a check.  *)
RequestInv ==
  /\ requests + Cardinality(Pending(delayed)) <= 2
  /\ Cardinality(Trailing(delayed, checkScheduled)) <= 1
  /\ conn = "never" => requests = 0 /\ delayed = <<>>
  /\ conn = "open" =>
       /\ requests = 0
       /\ Cardinality(Trailing(delayed, checkScheduled)) = 0
       /\ Cardinality(Pending(delayed)) <= 1

LEMMA PlacesFinite ==
  ASSUME NEW s \in Seq(Commands)
  PROVE  /\ IsFiniteSet(Pending(s)) /\ Cardinality(Pending(s)) \in Nat
         /\ IsFiniteSet(Behind(s)) /\ Cardinality(Behind(s)) \in Nat
         /\ Cardinality(Behind(s)) <= Cardinality(Pending(s))
<1>1. IsFiniteSet(1 .. Len(s))
  BY FS_Interval
<1>2. IsFiniteSet(Pending(s))
  <2>1. Pending(s) \subseteq 1 .. Len(s)
    BY DEF Pending, Places
  <2> QED
    BY <1>1, <2>1, FS_Subset
<1>3. Behind(s) \subseteq Pending(s)
  BY DEF Behind
<1> QED
  BY <1>2, <1>3, FS_Subset, FS_CardinalityType

LEMMA NoMore ==
  ASSUME NEW S, NEW T, IsFiniteSet(T), NEW f \in [S -> T],
         \A x, y \in S : f[x] = f[y] => x = y
  PROVE  IsFiniteSet(S) /\ Cardinality(S) <= Cardinality(T)
<1>1. f \in Injection(S, T)
  BY DEF Injection, IsInjective
<1> QED
  BY <1>1, FS_Injection

(* A new request adds one, wherever it goes. *)
LEMMA InsertAddsOne ==
  ASSUME NEW s \in Seq(Commands), NEW t \in WithDownload(s), due \in BOOLEAN
  PROVE  /\ t \in Seq(Commands)
         /\ Cardinality(Pending(t)) <= Cardinality(Pending(s)) + 1
         /\ Cardinality(Behind(t)) <= Cardinality(Behind(s)) + 1
<1>1. PICK p \in 1 .. (Len(s) + 1) : t = InsertAt(s, p, "download")
  BY DEF WithDownload
<1>2. /\ t \in Seq(Commands) /\ Len(t) = Len(s) + 1 /\ t[p] = "download"
      /\ \A i \in 1 .. Len(t) :
            t[i] = IF i < p THEN s[i]
                   ELSE IF i = p THEN "download" ELSE s[i - 1]
  BY <1>1, InsertAtElements DEF Commands
<1> DEFINE old(i) == IF i < p THEN i ELSE i - 1
<1>3. \A c \in Commands : \A i \in Places(t, c) \ {p} :
         i \in Nat /\ i # p /\ old(i) \in Places(s, c)
  BY <1>2 DEF Places
<1>4. \A i, j \in Nat \ {p} : old(i) = old(j) => i = j
  OBVIOUS
<1>5. \A i, j \in Nat \ {p} : i < j => old(i) < old(j)
  OBVIOUS
<1>6. Pending(t) \ {p} \subseteq Nat \ {p}
  BY <1>3 DEF Pending, Commands
<1>7. Cardinality(Pending(t) \ {p}) <= Cardinality(Pending(s))
  <2> DEFINE f == [i \in Pending(t) \ {p} |-> old(i)]
  <2>1. f \in [Pending(t) \ {p} -> Pending(s)]
    BY <1>3 DEF Pending, Commands
  <2>2. \A x, y \in Pending(t) \ {p} : f[x] = f[y] => x = y
    BY <1>4, <1>6
  <2> QED
    BY <2>1, <2>2, NoMore, PlacesFinite
<1>8. Cardinality(Behind(t) \ {p}) <= Cardinality(Behind(s))
  <2> DEFINE f == [i \in Behind(t) \ {p} |-> old(i)]
  <2>1. ASSUME NEW j \in Behind(t) \ {p} PROVE old(j) \in Behind(s)
    <3>1. PICK i \in Places(t, "check") : i < j
      BY <2>1 DEF Behind
    <3>2. i # p /\ j \in Pending(t) \ {p}
      BY <1>2, <2>1 DEF Places, Behind
    <3>3. old(i) \in Places(s, "check") /\ old(j) \in Pending(s)
      BY <1>3, <3>2 DEF Pending, Commands
    <3>4. old(i) < old(j)
      BY <1>3, <1>5, <1>6, <3>1, <3>2 DEF Commands
    <3> QED
      BY <3>3, <3>4 DEF Behind
  <2>2. f \in [Behind(t) \ {p} -> Behind(s)]
    BY <2>1
  <2>3. \A x, y \in Behind(t) \ {p} : f[x] = f[y] => x = y
    BY <1>4, <1>6 DEF Behind
  <2> QED
    BY <2>2, <2>3, NoMore, PlacesFinite
<1>9. /\ IsFiniteSet(Pending(t)) /\ Cardinality(Pending(t)) \in Nat
      /\ IsFiniteSet(Behind(t)) /\ Cardinality(Behind(t)) \in Nat
      /\ Cardinality(Pending(s)) \in Nat /\ Cardinality(Behind(s)) \in Nat
  BY <1>2, PlacesFinite
<1>10. Cardinality(Pending(t)) <= Cardinality(Pending(t) \ {p}) + 1
  <2>1. Cardinality(Pending(t) \ {p}) = IF p \in Pending(t)
            THEN Cardinality(Pending(t)) - 1 ELSE Cardinality(Pending(t))
    BY <1>9, FS_RemoveElement
  <2> QED
    BY <1>9, <2>1
<1>11. Cardinality(Behind(t)) <= Cardinality(Behind(t) \ {p}) + 1
  <2>1. Cardinality(Behind(t) \ {p}) = IF p \in Behind(t)
            THEN Cardinality(Behind(t)) - 1 ELSE Cardinality(Behind(t))
    BY <1>9, FS_RemoveElement
  <2> QED
    BY <1>9, <2>1
<1>12. /\ Cardinality(Pending(t) \ {p}) \in Nat
       /\ Cardinality(Behind(t) \ {p}) \in Nat
  BY <1>9, FS_RemoveElement, FS_CardinalityType
<1> HIDE DEF old
<1> QED
  BY <1>2, <1>7, <1>8, <1>9, <1>10, <1>11, <1>12

(* A check goes behind every request, and adds none. *)
LEMMA CheckGoesBehind ==
  ASSUME NEW s \in Seq(Commands), NEW f \in BOOLEAN, FlagExact(s, f)
  PROVE  /\ WithCheck(s, f) \in Seq(Commands)
         /\ Pending(WithCheck(s, f)) = Pending(s)
         /\ Behind(WithCheck(s, f)) = IF f THEN Behind(s) ELSE {}
<1>1. CASE f
  BY <1>1 DEF WithCheck
<1>2. CASE ~f
  <2> DEFINE t == Append(s, "check")
  <2>1. /\ WithCheck(s, f) = t /\ t \in Seq(Commands) /\ Len(t) = Len(s) + 1
        /\ t[Len(t)] = "check" /\ \A i \in 1 .. Len(s) : t[i] = s[i]
    BY <1>2 DEF WithCheck, Commands
  <2> HIDE DEF t
  <2>2. Pending(t) = Pending(s)
    BY <2>1 DEF Pending, Places
  <2>3. \A i \in Places(t, "check") : i = Len(t)
    BY <1>2, <2>1 DEF FlagExact, Places
  <2>4. Behind(t) = {}
    BY <2>1, <2>3 DEF Behind, Pending, Places
  <2> QED
    BY <1>2, <2>1, <2>2, <2>4
<1> QED
  BY <1>1, <1>2

(* The head that has run: a check leaves the requests behind it, a request *)
(* is one less.                                                            *)
LEMMA HeadLeaves ==
  ASSUME NEW s \in Seq(Commands), s # <<>>
  PROVE  /\ Head(s) = "check" =>
               Cardinality(Pending(Tail(s))) <= Cardinality(Behind(s))
         /\ Head(s) = "download" =>
               /\ Cardinality(Pending(Tail(s))) + 1 <= Cardinality(Pending(s))
               /\ Cardinality(Behind(Tail(s))) <= Cardinality(Behind(s))
<1>1. /\ Tail(s) \in Seq(Commands) /\ Len(Tail(s)) = Len(s) - 1
      /\ \A i \in 1 .. (Len(s) - 1) : Tail(s)[i] = s[i + 1]
      /\ Head(s) = s[1]
      /\ Len(s) \in Nat \ {0}
  OBVIOUS
<1>2. \A c : \A i \in Places(Tail(s), c) :
         i \in Nat \ {0} /\ i + 1 \in Places(s, c) \ {1}
  BY <1>1 DEF Places
<1>3. ASSUME NEW S \in SUBSET Pending(Tail(s)), NEW T, IsFiniteSet(T),
             \A i \in S : i + 1 \in T
      PROVE  Cardinality(S) <= Cardinality(T)
  <2> DEFINE f == [i \in S |-> i + 1]
  <2>1. f \in [S -> T]
    BY <1>3
  <2>2. \A x, y \in S : f[x] = f[y] => x = y
    BY <1>2 DEF Pending
  <2> QED
    BY <1>3, <2>1, <2>2, NoMore
<1>4. /\ IsFiniteSet(Pending(s)) /\ IsFiniteSet(Behind(s))
      /\ Cardinality(Pending(s)) \in Nat
      /\ Cardinality(Pending(Tail(s))) \in Nat
  BY <1>1, PlacesFinite
<1>5. ASSUME Head(s) = "check"
      PROVE  Cardinality(Pending(Tail(s))) <= Cardinality(Behind(s))
  <2>1. 1 \in Places(s, "check")
    BY <1>1, <1>5 DEF Places
  <2>2. \A i \in Pending(Tail(s)) : i + 1 \in Behind(s)
    BY <1>2, <2>1 DEF Pending, Behind
  <2> QED
    BY <1>3, <1>4, <2>2
<1>6. ASSUME Head(s) = "download"
      PROVE  Cardinality(Pending(Tail(s))) + 1 <= Cardinality(Pending(s))
  <2>1. 1 \in Pending(s)
    BY <1>1, <1>6 DEF Pending, Places
  <2>2. /\ IsFiniteSet(Pending(s) \ {1})
        /\ Cardinality(Pending(s) \ {1}) = Cardinality(Pending(s)) - 1
    BY <1>4, <2>1, FS_RemoveElement
  <2>3. Cardinality(Pending(Tail(s))) <= Cardinality(Pending(s) \ {1})
    BY <1>2, <1>3, <2>2 DEF Pending
  <2> QED
    BY <1>4, <2>2, <2>3
<1>7. Cardinality(Behind(Tail(s))) <= Cardinality(Behind(s))
  <2>1. \A j \in Behind(Tail(s)) : j + 1 \in Behind(s)
    <3> SUFFICES ASSUME NEW j \in Behind(Tail(s)) PROVE j + 1 \in Behind(s)
      OBVIOUS
    <3>1. PICK i \in Places(Tail(s), "check") : i < j
      BY DEF Behind
    <3>2. /\ i + 1 \in Places(s, "check") /\ j + 1 \in Pending(s)
          /\ i \in Nat /\ j \in Nat
      BY <1>2 DEF Behind, Pending
    <3> QED
      BY <3>1, <3>2 DEF Behind
  <2>2. Behind(Tail(s)) \subseteq Pending(Tail(s))
    BY DEF Behind
  <2> QED
    BY <1>3, <1>4, <2>1, <2>2
<1> QED
  BY <1>5, <1>6, <1>7

(* The four facts in terms of Trailing. *)
LEMMA TrailingFinite ==
  ASSUME NEW s \in Seq(Commands), NEW f \in BOOLEAN
  PROVE  /\ Cardinality(Pending(s)) \in Nat
         /\ Cardinality(Trailing(s, f)) \in Nat
         /\ Cardinality(Trailing(s, f)) <= Cardinality(Pending(s))
<1>1. CASE f
  BY <1>1, PlacesFinite DEF Trailing
<1>2. CASE ~f
  BY <1>2, PlacesFinite DEF Trailing
<1> QED
  BY <1>1, <1>2

LEMMA TrailingInsert ==
  ASSUME NEW s \in Seq(Commands), NEW t \in WithDownload(s), due \in BOOLEAN,
         NEW f \in BOOLEAN
  PROVE  Cardinality(Trailing(t, f)) <= Cardinality(Trailing(s, f)) + 1
<1>1. CASE f
  BY <1>1, InsertAddsOne DEF Trailing
<1>2. CASE ~f
  BY <1>2, InsertAddsOne DEF Trailing
<1> QED
  BY <1>1, <1>2

LEMMA TrailingCheck ==
  ASSUME NEW s \in Seq(Commands), NEW f \in BOOLEAN, FlagExact(s, f)
  PROVE  /\ Pending(WithCheck(s, f)) = Pending(s)
         /\ Cardinality(Trailing(WithCheck(s, f), TRUE))
               <= Cardinality(Trailing(s, f))
<1>1. Cardinality(Trailing(s, f)) \in Nat
  BY TrailingFinite
<1>2. Trailing(WithCheck(s, f), TRUE) = Behind(WithCheck(s, f))
  BY DEF Trailing
<1>3. /\ Pending(WithCheck(s, f)) = Pending(s)
      /\ Behind(WithCheck(s, f)) = IF f THEN Behind(s) ELSE {}
  BY CheckGoesBehind, Zenon
<1> DEFINE nr == Cardinality(Trailing(WithCheck(s, f), TRUE))
           r == Cardinality(Trailing(s, f))
<1>4. nr = r \/ nr = 0
  <2>1. CASE f
    BY <1>2, <1>3, <2>1, Zenon DEF Trailing
  <2>2. CASE ~f
    BY <1>2, <1>3, <2>2, FS_EmptySet, Zenon
  <2> QED
    BY <2>1, <2>2
<1> HIDE DEF nr, r
<1>5. nr <= r
  BY <1>1, <1>4 DEF r
<1> QED
  BY <1>3, <1>5 DEF nr, r

LEMMA TrailingHead ==
  ASSUME NEW s \in Seq(Commands), s # <<>>, NEW f \in BOOLEAN, FlagExact(s, f)
  PROVE  /\ Head(s) = "check" =>
               /\ f = TRUE
               /\ Cardinality(Pending(Tail(s))) <= Cardinality(Trailing(s, f))
               /\ Trailing(Tail(s), FALSE) = Pending(Tail(s))
         /\ Head(s) = "download" =>
               /\ Cardinality(Pending(Tail(s))) + 1 <= Cardinality(Pending(s))
               /\ Cardinality(Trailing(Tail(s), f)) <= Cardinality(Trailing(s, f))
<1>1. ASSUME Head(s) = "check" PROVE f = TRUE
  <2>1. 1 \in Places(s, "check")
    BY <1>1 DEF Places
  <2> QED
    BY <2>1, Zenon DEF FlagExact
<1>2. ASSUME Head(s) = "check"
      PROVE  Cardinality(Pending(Tail(s))) <= Cardinality(Trailing(s, f))
  BY <1>1, <1>2, HeadLeaves DEF Trailing
<1>3. Trailing(Tail(s), FALSE) = Pending(Tail(s))
  BY DEF Trailing
<1>4. ASSUME Head(s) = "download"
      PROVE  Cardinality(Trailing(Tail(s), f)) <= Cardinality(Trailing(s, f))
  <2>1. Tail(s) \in Seq(Commands)
    OBVIOUS
  <2>2. CASE f
    BY <1>4, <2>2, HeadLeaves DEF Trailing
  <2>3. CASE ~f
    <3>1. /\ Cardinality(Pending(Tail(s))) + 1 <= Cardinality(Pending(s))
          /\ Cardinality(Pending(Tail(s))) \in Nat
          /\ Cardinality(Pending(s)) \in Nat
      BY <1>4, <2>1, HeadLeaves, PlacesFinite
    <3>2. /\ Trailing(Tail(s), f) = Pending(Tail(s))
          /\ Trailing(s, f) = Pending(s)
      BY <2>3, Zenon DEF Trailing
    <3> QED
      BY <3>1, <3>2
  <2> QED
    BY <2>2, <2>3
<1> QED
  BY <1>1, <1>2, <1>3, <1>4, HeadLeaves

(* Whatever notices the loss, the check goes behind all requests if it is  *)
(* new, and the count of those that were sent starts again.                *)
LEMMA DisconnectRequests ==
  ASSUME NEW q \in Seq(Commands), NEW f \in BOOLEAN, FlagExact(q, f),
         Cardinality(Pending(q)) <= 2, Cardinality(Trailing(q, f)) <= 1,
         Disconnect(q, f)
  PROVE  RequestInv'
<1>1. /\ conn' = "down" /\ requests' = 0 /\ checkScheduled' = TRUE
      /\ delayed' = WithCheck(q, f)
  BY DEF Disconnect, NoSocket, ReconRun
<1> DEFINE np == Cardinality(Pending(delayed'))
           nr == Cardinality(Trailing(delayed', TRUE))
<1>2. np = Cardinality(Pending(q)) /\ nr <= Cardinality(Trailing(q, f))
  BY <1>1, TrailingCheck
<1>3. /\ Cardinality(Pending(q)) \in Nat /\ Cardinality(Trailing(q, f)) \in Nat
      /\ nr \in Nat
  BY <1>1, CheckGoesBehind, TrailingFinite
<1> HIDE DEF np, nr
<1>4. requests' + np <= 2 /\ nr <= 1
  BY <1>1, <1>2, <1>3
<1> QED
  BY <1>1, <1>4 DEF RequestInv, np, nr

(* A failed or a new connection: one request at most waits, with a check   *)
(* behind it.                                                              *)
LEMMA DialRequests ==
  ASSUME NEW q \in Seq(Commands), NEW f \in BOOLEAN, FlagExact(q, f),
         Dial(q, f), Cardinality(Trailing(q, f)) = 0,
         Cardinality(Pending(q)) <= 1,
         conn = "down" \/ (conn = "never" /\ q = <<>>)
  PROVE  RequestInv'
<1>1. CASE Disconnect(q, f)
  <2>1. Cardinality(Pending(q)) <= 2 /\ Cardinality(Trailing(q, f)) <= 1
    BY TrailingFinite
  <2> QED
    BY <1>1, <2>1, DisconnectRequests
<1>2. CASE /\ conn' \in {conn, "open"} /\ requests' = 0
           /\ checkScheduled' = f /\ delayed' = q
  <2>1. /\ requests' + Cardinality(Pending(delayed')) <= 2
        /\ Cardinality(Pending(delayed')) <= 1
        /\ Cardinality(Trailing(delayed', checkScheduled')) = 0
        /\ Cardinality(Trailing(delayed', checkScheduled')) <= 1
    <3>1. /\ Cardinality(Pending(delayed')) = Cardinality(Pending(q))
          /\ Trailing(delayed', checkScheduled') = Trailing(q, f)
      BY <1>2
    <3>2. Cardinality(Pending(q)) \in Nat
      BY TrailingFinite
    <3> QED
      BY <1>2, <3>1, <3>2
  <2> QED
    BY <1>2, <2>1 DEF RequestInv
<1> QED
  BY <1>1, <1>2 DEF Dial, NoSocket

LEMMA NextRequestInv == IInv /\ RequestInv /\ [Next]_rvars => RequestInv'
<1> SUFFICES ASSUME IInv, RequestInv, [Next]_rvars PROVE RequestInv'
  OBVIOUS
<1>0. /\ delayed \in Seq(Commands) /\ checkScheduled \in BOOLEAN
      /\ FlagExact(delayed, checkScheduled) /\ due \in BOOLEAN
      /\ requests \in Nat
  BY DEF IInv, TypeOK, CheckFlagExact, Commands
<1>n. due => delayed # <<>>
  BY Zenon DEF IInv
<1> DEFINE p == Cardinality(Pending(delayed))
           r == Cardinality(Trailing(delayed, checkScheduled))
<1>b. /\ p \in Nat /\ r \in Nat /\ r <= p
      /\ requests + p <= 2 /\ r <= 1
      /\ conn = "open" => requests = 0 /\ r = 0 /\ p <= 1
  BY <1>0, TrailingFinite DEF RequestInv
<1> HIDE DEF p, r
<1>c. p <= 2 /\ (conn = "open" => p + 1 <= 2 /\ r + 1 <= 1)
  BY <1>0, <1>b
<1>s. ASSUME UNCHANGED <<conn, checkScheduled, delayed, requests>>
      PROVE  RequestInv'
  BY <1>s DEF RequestInv, Trailing, Pending, Behind, Places
<1>d. ASSUME Disconnect(delayed, checkScheduled) PROVE RequestInv'
  BY <1>0, <1>b, <1>c, <1>d, DisconnectRequests DEF p, r
<1>1. CASE Start
  <2>1. conn = "never" /\ delayed = <<>> /\ Dial(delayed, checkScheduled)
    BY <1>1 DEF Start, IInv, RequestInv
  <2>2. Pending(delayed) = {}
    BY <2>1 DEF Pending, Places
  <2>3. p = 0
    BY <2>2, FS_EmptySet DEF p
  <2>4. r = 0 /\ p <= 1
    BY <1>b, <2>3
  <2> QED
    BY <1>0, <2>1, <2>4, DialRequests DEF p, r
<1>2. CASE OnWelcome
  <2>1. CASE /\ conn' = "welcomed"
             /\ delayed' \in WithDownload(delayed)
             /\ UNCHANGED <<thread, link, checkScheduled, requests>>
    <3> DEFINE np == Cardinality(Pending(delayed'))
               nr == Cardinality(Trailing(delayed', checkScheduled))
    <3>1. conn = "open"
      BY <1>2 DEF OnWelcome
    <3>2. delayed' \in Seq(Commands) /\ np <= p + 1 /\ nr <= r + 1
      BY <1>0, <2>1, InsertAddsOne, TrailingInsert DEF p, r
    <3>3. np \in Nat /\ nr \in Nat
      BY <1>0, <3>2, TrailingFinite
    <3>4. nr = Cardinality(Trailing(delayed', checkScheduled'))
      BY <2>1
    <3> HIDE DEF np, nr
    <3>5. requests' + np <= 2 /\ nr <= 1
      BY <1>b, <1>c, <2>1, <3>1, <3>2, <3>3
    <3> QED
      BY <2>1, <3>4, <3>5 DEF RequestInv, np
  <2>2. CASE /\ conn' = "down" /\ NoSocket /\ checkScheduled' = TRUE
             /\ \E queue \in WithDownload(delayed) :
                  delayed' = WithCheck(queue, checkScheduled)
    <3>1. PICK queue \in WithDownload(delayed) :
             delayed' = WithCheck(queue, checkScheduled)
      BY <2>2
    <3>2. Disconnect(queue, checkScheduled)
      BY <2>2, <3>1 DEF Disconnect, ReconRun
    <3>3. conn = "open"
      BY <1>2 DEF OnWelcome
    <3> DEFINE np == Cardinality(Pending(queue))
               nr == Cardinality(Trailing(queue, checkScheduled))
    <3>4. /\ queue \in Seq(Commands) /\ FlagExact(queue, checkScheduled)
          /\ np <= p + 1 /\ nr <= r + 1
      BY <1>0, DownloadAdded, InsertAddsOne, TrailingInsert DEF p, r
    <3>5. np \in Nat /\ nr \in Nat
      BY <1>0, <3>4, TrailingFinite
    <3> HIDE DEF np, nr
    <3>6. np <= 2 /\ nr <= 1
      BY <1>b, <1>c, <3>3, <3>4, <3>5
    <3> QED
      BY <1>0, <3>2, <3>4, <3>6, DisconnectRequests DEF np, nr
  <2> QED
    BY <1>2, <1>d, <2>1, <2>2 DEF OnWelcome
<1>3. CASE RunCheck
  <2>0. due /\ Head(delayed) = "check"
    BY <1>3, Zenon DEF RunCheck
  <2> DEFINE np == Cardinality(Pending(Tail(delayed)))
  <2>1. delayed # <<>> /\ Tail(delayed) \in Seq(Commands)
    BY <1>0, <1>n, <2>0
  <2>2. /\ FlagExact(Tail(delayed), FALSE) /\ np <= r
        /\ Trailing(Tail(delayed), FALSE) = Pending(Tail(delayed))
    BY <1>0, <2>0, <2>1, HeadRemoved, TrailingHead DEF r
  <2>3. np \in Nat
    BY <2>1, TrailingFinite
  <2> HIDE DEF np
  <2>4. requests + np <= 2 /\ np <= 1
    BY <1>0, <1>b, <2>2, <2>3
  <2>5. CASE /\ Connected /\ checkScheduled' = FALSE
             /\ delayed' = Tail(delayed)
             /\ UNCHANGED <<conn, link, requests>>
    <3>1. /\ Cardinality(Pending(delayed')) = np
          /\ Cardinality(Trailing(delayed', checkScheduled')) = np
      BY <2>2, <2>5 DEF np
    <3>2. conn = "open" => requests = 0 /\ np = 0
      BY <1>b, <2>2, <2>3
    <3> QED
      BY <2>4, <2>5, <3>1, <3>2 DEF RequestInv, Connected
  <2>6. CASE ~Connected /\ Dial(WithCheck(Tail(delayed), FALSE), TRUE)
    <3> DEFINE q == WithCheck(Tail(delayed), FALSE)
    <3>1. q \in Seq(Commands) /\ FlagExact(q, TRUE)
      BY <2>1, <2>2, CheckAdded
    <3>2. Cardinality(Pending(q)) = np
      BY <2>1, <2>2, CheckGoesBehind DEF np
    <3>3. Cardinality(Trailing(q, TRUE)) = 0
      BY <2>1, <2>2, CheckGoesBehind, FS_EmptySet DEF Trailing
    <3>4. conn = "down"
      BY <2>1, <2>6 DEF IInv, TypeOK, RequestInv, Connected
    <3> HIDE DEF q
    <3> QED
      BY <2>4, <2>6, <3>1, <3>2, <3>3, <3>4, DialRequests DEF q
  <2> QED
    BY <1>3, <2>5, <2>6 DEF RunCheck
<1>4. CASE RunDownload
  <2>0. due /\ Head(delayed) = "download"
    BY <1>4, Zenon DEF RunDownload
  <2> DEFINE np == Cardinality(Pending(Tail(delayed)))
             nr == Cardinality(Trailing(Tail(delayed), checkScheduled))
  <2>1. delayed # <<>> /\ Tail(delayed) \in Seq(Commands)
    BY <1>0, <1>n, <2>0
  <2>2. FlagExact(Tail(delayed), checkScheduled) /\ np + 1 <= p /\ nr <= r
    BY <1>0, <2>0, <2>1, HeadRemoved, TrailingHead DEF p, r
  <2>3. np \in Nat /\ nr \in Nat
    BY <1>0, <2>1, TrailingFinite
  <2>4. CASE /\ Connected
             /\ requests' = IF conn = "welcomed" THEN requests + 1 ELSE requests
             /\ delayed' = Tail(delayed)
             /\ UNCHANGED <<thread, conn, link, checkScheduled>>
    <3>1. /\ Cardinality(Pending(delayed')) = np
          /\ Cardinality(Trailing(delayed', checkScheduled')) = nr
      BY <2>4
    <3> HIDE DEF np, nr
    <3>2. /\ requests' + np <= 2 /\ nr <= 1
          /\ conn = "open" => requests' = 0 /\ nr = 0 /\ np <= 1
      BY <1>0, <1>b, <2>2, <2>3, <2>4
    <3> QED
      BY <2>4, <3>1, <3>2 DEF RequestInv, Connected
  <2>5. CASE Disconnect(Tail(delayed), checkScheduled)
    <3>1. np <= 2 /\ nr <= 1
      <4> HIDE DEF np, nr
      <4> QED
        BY <1>b, <1>c, <2>2, <2>3
    <3> QED
      BY <1>0, <2>1, <2>2, <2>5, <3>1, DisconnectRequests
  <2> QED
    BY <1>4, <1>s, <2>4, <2>5 DEF RunDownload
<1>5. CASE Relaunch
  <2>1. /\ conn' = "never" /\ requests' = 0 /\ checkScheduled' = FALSE
        /\ delayed' = <<>>
    BY <1>5 DEF Relaunch, NoSocket
  <2>2. Pending(delayed') = {} /\ Trailing(delayed', checkScheduled') = {}
    BY <2>1 DEF Trailing, Pending, Places
  <2> QED
    BY <2>1, <2>2, FS_EmptySet DEF RequestInv
<1>6. CASE NoticeHangup \/ HandlerSendFails \/ HandlerDisconnects \/ HandlerDies
  BY <1>6, <1>d, <1>s
     DEF NoticeHangup, HandlerSendFails, HandlerDisconnects, HandlerDies
<1>7. CASE LinkBreaks \/ Tick \/ HandlerRaises \/ UNCHANGED rvars
  BY <1>7, <1>s DEF LinkBreaks, Tick, HandlerRaises, rvars
<1> QED
  BY <1>1, <1>2, <1>3, <1>4, <1>5, <1>6, <1>7 DEF Next

(* A pack is asked for twice at most on one connection. *)
THEOREM AtMostTwo == Spec => []AtMostTwoRequests
<1>1. Init => RequestInv
  <2> SUFFICES ASSUME Init PROVE RequestInv
    OBVIOUS
  <2>1. Pending(delayed) = {} /\ Trailing(delayed, checkScheduled) = {}
    BY DEF Init, Trailing, Pending, Places
  <2>2. /\ Cardinality(Pending(delayed)) = 0
        /\ Cardinality(Trailing(delayed, checkScheduled)) = 0
    BY <2>1, FS_EmptySet
  <2> QED
    BY <2>2 DEF Init, RequestInv
<1>2. IInv /\ RequestInv /\ [Next]_rvars => RequestInv'
  BY NextRequestInv
<1>3. RequestInv => AtMostTwoRequests
  BY DEF RequestInv, AtMostTwoRequests, Pending
<1> QED
  BY <1>1, <1>2, <1>3, SpecIInv, PTL DEF Spec
==============================================================================
