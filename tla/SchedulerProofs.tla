---------------------------- MODULE SchedulerProofs ----------------------------
(* Theorems about Scheduler, for every set of commands, every period and   *)
(* every length of run: the list is always sorted, and as long as no       *)
(* function schedules a command due before its own, it is an Agenda.       *)
EXTENDS Scheduler, SequenceTheorems, TLAPS

USE DEF Entries

(* What becomes of a list when e comes behind its first p elements. *)
Inserted(old, e, p, new) ==
  /\ new \in Seq(Entries)
  /\ Len(new) = Len(old) + 1
  /\ \A i \in 1 .. p : new[i] = old[i]
  /\ new[p + 1] = e
  /\ \A i \in p + 2 .. Len(old) + 1 : new[i] = old[i - 1]

LEMMA InsertAtPlace ==
  ASSUME NEW old \in Seq(Entries), NEW e \in Entries, NEW p \in 0 .. Len(old),
         NEW new, new = InsertAt(old, p + 1, e)
  PROVE  Inserted(old, e, p, new)
<1> DEFINE front == SubSeq(old, 1, p)
           back == SubSeq(old, p + 1, Len(old))
<1>1. /\ front \in Seq(Entries) /\ Len(front) = p
      /\ \A i \in 1 .. p : front[i] = old[i]
  <2>1. \A i \in 1 .. p : old[i] \in Entries
    OBVIOUS
  <2> QED
    BY <2>1, SubSeqProperties
<1>2. /\ back \in Seq(Entries) /\ Len(back) = Len(old) - p
      /\ \A i \in 1 .. Len(old) - p : back[i] = old[p + i]
  <2>1. \A i \in p + 1 .. Len(old) : old[i] \in Entries
    OBVIOUS
  <2> QED
    BY <2>1, SubSeqProperties
<1> HIDE DEF front, back
<1> DEFINE half == front \o <<e>>
<1>3. /\ half \in Seq(Entries) /\ Len(half) = p + 1
      /\ \A i \in 1 .. p : half[i] = old[i]
      /\ half[p + 1] = e
  BY <1>1
<1> HIDE DEF half
<1>4. /\ half \o back \in Seq(Entries)
      /\ Len(half \o back) = Len(old) + 1
      /\ \A i \in 1 .. Len(old) + 1 :
           (half \o back)[i] = IF i <= p + 1 THEN half[i] ELSE back[i - (p + 1)]
  <2>1. half \in Seq(Entries) /\ back \in Seq(Entries)
    BY <1>2, <1>3
  <2>2. /\ half \o back \in Seq(Entries)
        /\ Len(half \o back) = Len(half) + Len(back)
        /\ \A i \in 1 .. Len(half) + Len(back) :
             (half \o back)[i] = IF i <= Len(half) THEN half[i] ELSE back[i - Len(half)]
    BY <2>1, ConcatProperties
  <2>3. Len(half) = p + 1 /\ Len(half) + Len(back) = Len(old) + 1
    <3>1. Len(half) = p + 1 /\ Len(back) = Len(old) - p
      BY <1>2, <1>3
    <3>2. Len(old) \in Nat
      OBVIOUS
    <3> QED
      BY <3>1, <3>2
  <2> QED
    BY <2>2, <2>3
<1>5. new = half \o back
  <2>1. (p + 1) - 1 = p
    OBVIOUS
  <2> QED
    BY <2>1 DEF InsertAt, front, back, half
<1>6. \A i \in p + 2 .. Len(old) + 1 : (half \o back)[i] = old[i - 1]
  <2> TAKE i \in p + 2 .. Len(old) + 1
  <2>1. (half \o back)[i] = back[i - (p + 1)]
    <3>1. i \in 1 .. Len(old) + 1 /\ ~(i <= p + 1)
      OBVIOUS
    <3> QED
      BY <1>4, <3>1
  <2>2. i - (p + 1) \in 1 .. Len(old) - p /\ p + (i - (p + 1)) = i - 1
    OBVIOUS
  <2> QED
    BY <2>1, <2>2, <1>2
<1>7. /\ \A i \in 1 .. p : (half \o back)[i] = old[i]
      /\ (half \o back)[p + 1] = e
  BY <1>3, <1>4
<1> QED
  BY <1>4, <1>5, <1>6, <1>7 DEF Inserted

(* Where insort puts e. *)
InsortedAt(old, e, p, new) ==
  /\ p \in 0 .. Len(old)
  /\ \A i \in 1 .. p : old[i][2] <= e[2]
  /\ \A i \in p + 1 .. Len(old) : e[2] < old[i][2]
  /\ Inserted(old, e, p, new)

LEMMA InsortPlace ==
  ASSUME NEW old \in Seq(Entries), NEW e \in Entries, NEW new \in Insort(old, e)
  PROVE  \E p \in 0 .. Len(old) : InsortedAt(old, e, p, new)
<1>1. PICK p \in 0 .. Len(old) :
        /\ \A i \in 1 .. p : old[i][2] <= e[2]
        /\ \A i \in p + 1 .. Len(old) : e[2] < old[i][2]
        /\ new = InsertAt(old, p + 1, e)
  BY DEF Insort
<1>2. Inserted(old, e, p, new)
  BY <1>1, InsertAtPlace
<1>3. InsortedAt(old, e, p, new)
  BY <1>1, <1>2 DEF InsortedAt
<1> QED
  BY <1>3

(* The elements of a sequence and of its tail. *)
LEMMA TailPlaces ==
  ASSUME NEW s \in Seq(Entries), s # <<>>
  PROVE  /\ Tail(s) \in Seq(Entries)
         /\ Len(Tail(s)) = Len(s) - 1
         /\ \A i \in 1 .. Len(s) - 1 : Tail(s)[i] = s[i + 1]
         /\ Len(s) \in Nat \ {0}
         /\ s[1] \in Entries
OBVIOUS

------------------------------------------------------------------------------
SortedSeq(s) == \A i, j \in 1 .. Len(s) : i < j => s[i][2] <= s[j][2]

LEMMA InsortKeepsSorted ==
  ASSUME NEW old \in Seq(Entries), NEW e \in Entries, NEW new \in Insort(old, e),
         SortedSeq(old)
  PROVE  new \in Seq(Entries) /\ new # <<>> /\ SortedSeq(new)
<1>1. PICK p \in 0 .. Len(old) : InsortedAt(old, e, p, new)
  BY InsortPlace
<1>2. \A i \in 1 .. Len(old) : old[i] \in Entries /\ old[i][2] \in Nat
  OBVIOUS
<1>3. e[2] \in Nat /\ Len(old) \in Nat
  OBVIOUS
<1>4. \A k \in 1 .. p : new[k] = old[k]
  BY <1>1 DEF InsortedAt, Inserted
<1>5. \A k \in p + 2 .. Len(old) + 1 : new[k] = old[k - 1]
  BY <1>1 DEF InsortedAt, Inserted
<1>6. SortedSeq(new)
  <2> SUFFICES ASSUME NEW i \in 1 .. Len(old) + 1, NEW j \in 1 .. Len(old) + 1, i < j
               PROVE  new[i][2] <= new[j][2]
    BY <1>1 DEF SortedSeq, InsortedAt, Inserted
  <2>1. CASE j <= p
    <3>0. i \in 1 .. p /\ j \in 1 .. p
      BY <1>3, <2>1
    <3>1. new[i] = old[i] /\ new[j] = old[j]
      BY <1>4, <3>0
    <3>2. i \in 1 .. Len(old) /\ j \in 1 .. Len(old)
      BY <1>3, <2>1
    <3> QED
      BY <3>1, <3>2 DEF SortedSeq
  <2>2. CASE j = p + 1
    <3>1. i \in 1 .. p
      BY <1>3, <2>2
    <3>2. new[i] = old[i] /\ new[j] = e /\ old[i][2] <= e[2]
      BY <1>1, <2>2, <3>1 DEF InsortedAt, Inserted
    <3> QED
      BY <3>2
  <2>3. CASE j > p + 1 /\ i = p + 1
    <3>1. j - 1 \in p + 1 .. Len(old) /\ j \in p + 2 .. Len(old) + 1
      BY <1>3, <2>3
    <3>2. new[i] = e /\ new[j] = old[j - 1] /\ e[2] < old[j - 1][2]
      BY <1>1, <2>3, <3>1 DEF InsortedAt, Inserted
    <3>3. old[j - 1][2] \in Nat
      BY <1>2, <1>3, <3>1
    <3> QED
      BY <1>3, <3>2, <3>3
  <2>4. CASE j > p + 1 /\ i <= p
    <3>0. i \in 1 .. p /\ j \in p + 2 .. Len(old) + 1 /\ i < j - 1
      BY <1>3, <2>4
    <3>1. new[i] = old[i] /\ new[j] = old[j - 1] /\ i < j - 1
      BY <1>4, <1>5, <3>0
    <3>2. i \in 1 .. Len(old) /\ j - 1 \in 1 .. Len(old)
      BY <2>4, <1>3
    <3> QED
      BY <3>1, <3>2 DEF SortedSeq
  <2>5. CASE j > p + 1 /\ i > p + 1
    <3>0. /\ i \in p + 2 .. Len(old) + 1 /\ j \in p + 2 .. Len(old) + 1
          /\ i - 1 < j - 1
      BY <1>3, <2>5
    <3>1. new[i] = old[i - 1] /\ new[j] = old[j - 1] /\ i - 1 < j - 1
      BY <1>5, <3>0
    <3>2. i - 1 \in 1 .. Len(old) /\ j - 1 \in 1 .. Len(old)
      BY <2>5, <1>3
    <3> QED
      BY <3>1, <3>2 DEF SortedSeq
  <2> QED
    BY <1>3, <2>1, <2>2, <2>3, <2>4, <2>5
<1> QED
  BY <1>1, <1>6 DEF InsortedAt, Inserted

LEMMA TailKeepsSorted ==
  ASSUME NEW s \in Seq(Entries), s # <<>>, SortedSeq(s)
  PROVE  SortedSeq(Tail(s))
BY TailPlaces DEF SortedSeq

(* What holds of the list under Spec, whatever the clock and the functions *)
(* do: process_timeout never deletes from an empty list either.            *)
ListGood ==
  /\ TypeOK
  /\ SortedSeq(queue)
  /\ phase = "running" => queue # <<>>

LEMMA ListGoodInductive == ListGood /\ [Next]_vars => ListGood'
<1> SUFFICES ASSUME ListGood, [Next]_vars PROVE ListGood'
  OBVIOUS
<1> USE SchedulerAssumption
<1>1. ASSUME NEW c \in Commands, NEW due \in Nat, ScheduleCommand(c, due)
      PROVE  ListGood'
  <2>1. queue' \in Seq(Entries) /\ queue' # <<>> /\ SortedSeq(queue')
    BY <1>1, InsortKeepsSorted DEF ListGood, TypeOK, ScheduleCommand
  <2>2. backdated' \in BOOLEAN
    BY <1>1, Zenon DEF ScheduleCommand
  <2> QED
    BY <1>1, <2>1, <2>2 DEF ListGood, TypeOK, ScheduleCommand
<1>2. ASSUME NEW c \in Commands, NEW t \in 0 .. MaxTime,
             ExecuteDelayed(c, t) \/ ExecuteAt(c, t)
      PROVE  ListGood'
  <2>1. now + t \in Nat /\ t \in Nat
    BY DEF ListGood, TypeOK
  <2> QED
    BY <1>1, <1>2, <2>1 DEF ExecuteDelayed, ExecuteAt
<1>3. ASSUME NEW c \in Commands, ExecuteEvery(c)
      PROVE  ListGood'
  <2>1. now + Period[c] \in Nat
    BY DEF ListGood, TypeOK
  <2> QED
    BY <1>1, <1>3, <2>1 DEF ExecuteEvery
<1>4. CASE RunFirst
  <2>1. queue # <<>> /\ queue[1] \in Entries
    BY <1>4 DEF RunFirst, FirstDue, ListGood, TypeOK
  <2>2. queue[1][1] \in Commands
    BY <2>1
  <2> QED
    BY <1>4, <2>1, <2>2 DEF RunFirst, ListGood, TypeOK
<1>5. CASE FunctionReturns
  <2>1. queue \in Seq(Entries) /\ queue # <<>> /\ SortedSeq(queue) /\ running \in Entries
    BY <1>5 DEF FunctionReturns, ListGood, TypeOK
  <2>2. Renewed(running) \in Entries
    BY <2>1 DEF Renewed
  <2>3. PICK q \in Seq(Entries) : q # <<>> /\ SortedSeq(q) /\ queue' = Tail(q)
    BY <1>5, <2>1, <2>2, InsortKeepsSorted DEF FunctionReturns
  <2>4. queue' \in Seq(Entries) /\ SortedSeq(queue')
    BY <2>3, TailPlaces, TailKeepsSorted
  <2> QED
    BY <1>5, <2>4 DEF FunctionReturns, ListGood, TypeOK, history
<1>6. CASE ProcessTimeout \/ NothingDue \/ FunctionRaises
  BY <1>6 DEF ProcessTimeout, NothingDue, FunctionRaises, ListGood, TypeOK, history
<1>7. CASE ClockTicks \/ ClockSetBack
  BY <1>7 DEF ClockTicks, ClockSetBack, ListGood, TypeOK, history
<1>8. CASE UNCHANGED vars
  BY <1>8 DEF vars, ListGood, TypeOK, history
<1> QED
  BY <1>2, <1>3, <1>4, <1>5, <1>6, <1>7, <1>8 DEF Next, Loop

LEMMA ListGoodInitially == Init => ListGood
<1> SUFFICES ASSUME Init PROVE ListGood
  OBVIOUS
<1>1. queue \in Seq(Entries) /\ Len(queue) = 0
  BY DEF Init
<1>2. SortedSeq(queue)
  BY <1>1 DEF SortedSeq
<1>3. TypeOK
  <2>1. now \in 0 .. MaxTime /\ phase = "free" /\ running = <<>>
    BY SchedulerAssumption DEF Init
  <2>2. backdated \in BOOLEAN
    BY DEF Init
  <2>3. scheduled \in SUBSET Commands /\ ran \in SUBSET Commands /\ again \in SUBSET Commands
    BY DEF Init
  <2> QED
    BY <1>1, <2>1, <2>2, <2>3 DEF TypeOK
<1> QED
  BY <1>2, <1>3 DEF Init, ListGood

LEMMA ListAlwaysGood == Spec => []ListGood
BY ListGoodInitially, ListGoodInductive, PTL DEF Spec

(* Every variable of the Reactor's command list keeps its type.            *)
THEOREM TypeCorrect == Spec => []TypeOK
<1>1. ListGood => TypeOK
  BY DEF ListGood
<1> QED
  BY <1>1, ListAlwaysGood, PTL

(* The list is sorted at all times (_schedule_command, process_timeout),   *)
(* also when the clock is set back and when times lie in the past, so      *)
(* that its first command is always the next one due.                      *)
THEOREM ListStaysSorted == Spec => []Sorted
<1>1. ListGood => Sorted
  BY DEF ListGood, SortedSeq, Sorted
<1> QED
  BY <1>1, ListAlwaysGood, PTL

------------------------------------------------------------------------------
(* What holds besides as long as no function schedules a command due       *)
(* before its own: a command is in the list once, and the one that runs is *)
(* still the first, so that process_timeout deletes what it ran.           *)
Once(s) ==
  /\ \A i, j \in 1 .. Len(s) : s[i][1] = s[j][1] => i = j
  /\ \A i \in 1 .. Len(s) : s[i][1] \in scheduled

RunsFirst ==
  phase \in {"running", "dead"} => queue # <<>> /\ queue[1] = running

SteadyInv == ListGood /\ ~backdated /\ Once(queue) /\ RunsFirst

LEMMA ElementsOfList ==
  ASSUME NEW s \in Seq(Entries)
  PROVE  /\ \A i \in 1 .. Len(s) : s[i] \in ToSet(s)
         /\ \A x \in ToSet(s) : \E i \in 1 .. Len(s) : x = s[i]
BY DEF ToSet

(* The elements of a list that insort changed, and of its tail when e does *)
(* not come first.                                                         *)
LEMMA InsortedElements ==
  ASSUME NEW old \in Seq(Entries), NEW e \in Entries, NEW new \in Insort(old, e)
  PROVE  ToSet(new) = ToSet(old) \cup {e}
<1>1. PICK p \in 0 .. Len(old) : InsortedAt(old, e, p, new)
  BY InsortPlace
<1>2. /\ new \in Seq(Entries) /\ Len(new) = Len(old) + 1
      /\ \A i \in 1 .. p : new[i] = old[i]
      /\ new[p + 1] = e
      /\ \A i \in p + 2 .. Len(old) + 1 : new[i] = old[i - 1]
  BY <1>1 DEF InsortedAt, Inserted
<1> Len(old) \in Nat /\ Len(new) = Len(old) + 1
  BY <1>2
<1>3. ASSUME NEW x \in ToSet(new) PROVE x \in ToSet(old) \cup {e}
  <2>1. PICK i \in 1 .. Len(old) + 1 : x = new[i]
    <3>1. new \in Seq(Entries)
      BY <1>2
    <3>2. \E i \in 1 .. Len(new) : x = new[i]
      BY <3>1, <1>3, ElementsOfList
    <3> QED
      BY <3>2
  <2>2. CASE i <= p
    <3>1. i \in 1 .. p /\ i \in 1 .. Len(old)
      BY <2>2
    <3>2. x = old[i]
      BY <1>2, <2>1, <3>1
    <3> QED
      BY <3>1, <3>2, ElementsOfList
  <2>3. CASE i = p + 1
    BY <1>2, <2>1, <2>3
  <2>4. CASE i > p + 1
    <3>1. i \in p + 2 .. Len(old) + 1 /\ i - 1 \in 1 .. Len(old)
      BY <2>4
    <3>2. x = old[i - 1]
      BY <1>2, <2>1, <3>1
    <3> QED
      BY <3>1, <3>2, ElementsOfList
  <2> QED
    BY <2>2, <2>3, <2>4
<1>4. ASSUME NEW x \in ToSet(old) \cup {e} PROVE x \in ToSet(new)
  <2>1. CASE x = e
    <3>1. p + 1 \in 1 .. Len(new)
      BY <1>2
    <3>2. x = new[p + 1]
      BY <1>2, <2>1
    <3> QED
      BY <1>2, <3>1, <3>2, ElementsOfList
  <2>2. ASSUME NEW i \in 1 .. Len(old), x = old[i] PROVE x \in ToSet(new)
    <3>1. CASE i <= p
      <4>1. i \in 1 .. p /\ i \in 1 .. Len(new)
        BY <3>1
      <4>2. x = new[i]
        BY <1>2, <2>2, <4>1
      <4> QED
        BY <1>2, <4>1, <4>2, ElementsOfList
    <3>2. CASE i > p
      <4>1. i + 1 \in p + 2 .. Len(old) + 1 /\ i + 1 \in 1 .. Len(new) /\ (i + 1) - 1 = i
        BY <3>2
      <4>2. x = new[i + 1]
        BY <1>2, <2>2, <4>1
      <4> QED
        BY <1>2, <4>1, <4>2, ElementsOfList
    <3> QED
      BY <3>1, <3>2
  <2> QED
    BY <1>4, <2>1, <2>2, ElementsOfList
<1> QED
  BY <1>3, <1>4

LEMMA HeadAndTail ==
  ASSUME NEW s \in Seq(Entries), s # <<>>
  PROVE  ToSet(s) = {s[1]} \cup ToSet(Tail(s))
<1>1. /\ Len(Tail(s)) = Len(s) - 1 /\ Len(s) \in Nat \ {0}
      /\ \A i \in 1 .. Len(s) - 1 : Tail(s)[i] = s[i + 1]
      /\ Tail(s) \in Seq(Entries)
  BY TailPlaces
<1>2. ASSUME NEW i \in 1 .. Len(s) PROVE s[i] \in {s[1]} \cup ToSet(Tail(s))
  <2>1. CASE i = 1
    BY <2>1
  <2>2. CASE i > 1
    <3>1. i - 1 \in 1 .. Len(Tail(s)) /\ (i - 1) + 1 = i
      BY <1>1, <2>2
    <3>2. s[i] = Tail(s)[i - 1]
      BY <1>1, <3>1
    <3> QED
      BY <1>1, <3>1, <3>2, ElementsOfList
  <2> QED
    BY <2>1, <2>2
<1>3. ASSUME NEW i \in 1 .. Len(Tail(s)) PROVE Tail(s)[i] \in ToSet(s)
  <2>1. i + 1 \in 1 .. Len(s)
    BY <1>1
  <2> QED
    BY <1>1, <2>1, ElementsOfList
<1>4. s[1] \in ToSet(s)
  BY <1>1, ElementsOfList
<1>5. ASSUME NEW x \in ToSet(s) PROVE x \in {s[1]} \cup ToSet(Tail(s))
  <2>1. PICK i \in 1 .. Len(s) : x = s[i]
    BY ElementsOfList
  <2> QED
    BY <1>2, <2>1
<1>6. ASSUME NEW x \in ToSet(Tail(s)) PROVE x \in ToSet(s)
  <2>1. PICK i \in 1 .. Len(Tail(s)) : x = Tail(s)[i]
    BY <1>1, ElementsOfList
  <2> QED
    BY <1>3, <2>1
<1> QED
  BY <1>4, <1>5, <1>6

(* A command that is due no earlier than the first of a sorted list goes   *)
(* behind it.                                                              *)
LEMMA InsortKeepsFirst ==
  ASSUME NEW old \in Seq(Entries), old # <<>>,
         NEW e \in Entries, NEW new \in Insort(old, e), old[1][2] <= e[2]
  PROVE  new \in Seq(Entries) /\ new # <<>> /\ new[1] = old[1]
<1>1. PICK p \in 0 .. Len(old) : InsortedAt(old, e, p, new)
  BY InsortPlace
<1>2. Len(old) \in Nat \ {0} /\ old[1] \in Entries
  BY TailPlaces
<1>3. p # 0
  <2> SUFFICES ASSUME p = 0 PROVE FALSE
    OBVIOUS
  <2>1. e[2] < old[1][2]
    BY <1>1, <1>2 DEF InsortedAt
  <2> QED
    BY <1>2, <2>1
<1>4. 1 \in 1 .. p
  BY <1>3
<1> QED
  BY <1>1, <1>2, <1>4 DEF InsortedAt, Inserted

LEMMA FirstIsNotInTail ==
  ASSUME NEW s \in Seq(Entries), s # <<>>, Once(s)
  PROVE  s[1] \notin ToSet(Tail(s))
<1> SUFFICES ASSUME s[1] \in ToSet(Tail(s)) PROVE FALSE
  OBVIOUS
<1>1. PICK i \in 1 .. Len(Tail(s)) : s[1] = Tail(s)[i]
  BY TailPlaces, ElementsOfList
<1>2. i + 1 \in 1 .. Len(s) /\ 1 \in 1 .. Len(s) /\ s[1] = s[i + 1] /\ i + 1 # 1
  BY <1>1, TailPlaces
<1> QED
  BY <1>2 DEF Once

LEMMA SteadyInvSchedule ==
  ASSUME SteadyInv, ListGood', NEW c \in Commands, NEW due \in Nat,
         ScheduleCommand(c, due), ~backdated'
  PROVE  SteadyInv'
<1> DEFINE e == <<c, due>>
<1>1. /\ queue \in Seq(Entries) /\ e \in Entries
      /\ queue' \in Insort(queue, e) /\ scheduled' = scheduled \cup {c}
      /\ c \notin scheduled /\ phase' = phase /\ running' = running
      /\ phase \in {"free", "running"}
  BY DEF SteadyInv, ListGood, TypeOK, ScheduleCommand
<1>2. Once(queue)'
  <2>1. PICK p \in 0 .. Len(queue) : InsortedAt(queue, e, p, queue')
    BY <1>1, InsortPlace
  <2>2. /\ Len(queue') = Len(queue) + 1
        /\ \A i \in 1 .. p : queue'[i] = queue[i]
        /\ queue'[p + 1] = e
        /\ \A i \in p + 2 .. Len(queue) + 1 : queue'[i] = queue[i - 1]
    BY <2>1 DEF InsortedAt, Inserted
  <2>3. Len(queue) \in Nat
    BY <1>1
  <2>4. \A i \in 1 .. Len(queue) + 1 :
          \/ i \in 1 .. Len(queue) /\ i <= p /\ queue'[i][1] = queue[i][1]
          \/ i = p + 1 /\ queue'[i][1] = c
          \/ i - 1 \in 1 .. Len(queue) /\ i > p + 1 /\ queue'[i][1] = queue[i - 1][1]
    <3> TAKE i \in 1 .. Len(queue) + 1
    <3>1. CASE i <= p
      <4>1. i \in 1 .. p /\ i \in 1 .. Len(queue)
        BY <2>3, <3>1
      <4> QED
        BY <2>2, <3>1, <4>1
    <3>2. CASE i = p + 1
      BY <2>2, <3>2
    <3>3. CASE i > p + 1
      <4>1. i \in p + 2 .. Len(queue) + 1 /\ i - 1 \in 1 .. Len(queue)
        BY <2>3, <3>3
      <4> QED
        BY <2>2, <3>3, <4>1
    <3> QED
      BY <2>3, <3>1, <3>2, <3>3
  <2>5. \A i \in 1 .. Len(queue) : queue[i][1] \in scheduled /\ queue[i][1] # c
    BY <1>1 DEF SteadyInv, Once
  <2>6. \A i, j \in 1 .. Len(queue) : queue[i][1] = queue[j][1] => i = j
    BY DEF SteadyInv, Once
  <2>7. ASSUME NEW i \in 1 .. Len(queue) + 1, NEW j \in 1 .. Len(queue) + 1,
               queue'[i][1] = queue'[j][1]
        PROVE  i = j
    <3>1. CASE i <= p /\ j <= p
      BY <2>3, <2>4, <2>6, <2>7, <3>1
    <3>2. CASE i <= p /\ j > p + 1
      <4>1. /\ i \in 1 .. Len(queue) /\ j - 1 \in 1 .. Len(queue)
            /\ queue[i][1] = queue[j - 1][1]
        BY <2>3, <2>4, <2>7, <3>2
      <4>2. i = j - 1
        BY <2>6, <4>1
      <4> QED
        BY <3>2, <4>2
    <3>3. CASE i > p + 1 /\ j <= p
      <4>1. /\ i - 1 \in 1 .. Len(queue) /\ j \in 1 .. Len(queue)
            /\ queue[i - 1][1] = queue[j][1]
        BY <2>3, <2>4, <2>7, <3>3
      <4>2. i - 1 = j
        BY <2>6, <4>1
      <4> QED
        BY <3>3, <4>2
    <3>4. CASE i > p + 1 /\ j > p + 1
      <4>1. /\ i - 1 \in 1 .. Len(queue) /\ j - 1 \in 1 .. Len(queue)
            /\ queue[i - 1][1] = queue[j - 1][1]
        BY <2>3, <2>4, <2>7, <3>4
      <4>2. i - 1 = j - 1
        BY <2>6, <4>1
      <4> QED
        BY <4>2
    <3>5. CASE i = p + 1 \/ j = p + 1
      <4>1. ASSUME NEW k \in 1 .. Len(queue) + 1, queue'[k][1] = c PROVE k = p + 1
        BY <2>3, <2>4, <2>5, <4>1
      <4>2. queue'[i][1] = c /\ queue'[j][1] = c
        BY <2>2, <2>7, <3>5
      <4> QED
        BY <4>1, <4>2
    <3> QED
      BY <2>3, <3>1, <3>2, <3>3, <3>4, <3>5
  <2>8. \A i \in 1 .. Len(queue) + 1 : queue'[i][1] \in scheduled'
    BY <1>1, <2>4, <2>5
  <2> QED
    BY <2>2, <2>7, <2>8 DEF Once
<1>3. RunsFirst'
  <2> SUFFICES ASSUME phase = "running" PROVE queue' # <<>> /\ queue'[1] = running
    BY <1>1 DEF RunsFirst
  <2>1. queue # <<>> /\ queue[1] = running
    BY DEF SteadyInv, RunsFirst
  <2>2. running[2] \in Nat
    BY <1>1, <2>1, TailPlaces
  <2>3. ~(due < running[2])
    BY DEF ScheduleCommand
  <2>4. queue[1][2] <= e[2]
    BY <2>1, <2>2, <2>3
  <2> QED
    BY <1>1, <2>1, <2>4, InsortKeepsFirst
<1> QED
  BY <1>2, <1>3 DEF SteadyInv

(* A renewed command goes behind the one that ran, and its old entry is    *)
(* the one that is deleted.                                                *)
LEMMA RenewalReplaces ==
  ASSUME NEW old \in Seq(Entries), old # <<>>, Once(old),
         NEW r \in Entries, r[1] = old[1][1], old[1][2] < r[2],
         NEW new \in Insort(old, r)
  PROVE  /\ Once(Tail(new))
         /\ ToSet(Tail(new)) = ToSet(Tail(old)) \cup {r}
<1>1. /\ new \in Seq(Entries) /\ new # <<>> /\ new[1] = old[1]
      /\ old[1] \in Entries /\ Len(old) \in Nat \ {0}
  <2>1. old[1] \in Entries /\ Len(old) \in Nat \ {0}
    BY TailPlaces
  <2>2. old[1][2] <= r[2]
    BY <2>1
  <2>3. new \in Seq(Entries) /\ new # <<>> /\ new[1] = old[1]
    BY <2>2, InsortKeepsFirst
  <2> QED
    BY <2>1, <2>3
<1>2. PICK p \in 0 .. Len(old) : InsortedAt(old, r, p, new)
  BY InsortPlace
<1>3. /\ Len(new) = Len(old) + 1
      /\ \A i \in 1 .. p : new[i] = old[i]
      /\ new[p + 1] = r
      /\ \A i \in p + 2 .. Len(old) + 1 : new[i] = old[i - 1]
  BY <1>2 DEF InsortedAt, Inserted
<1>4. p > 0
  <2> SUFFICES ASSUME p = 0 PROVE FALSE
    OBVIOUS
  <2>1. r = old[1]
    BY <1>1, <1>3
  <2> QED
    BY <1>1, <2>1
<1>5. /\ Tail(new) \in Seq(Entries) /\ Len(Tail(new)) = Len(old)
      /\ \A i \in 1 .. Len(old) : Tail(new)[i] = new[i + 1]
  BY <1>1, <1>3, TailPlaces
(* The place in old of the command at place i of Tail(new). *)
<1> DEFINE place(i) == IF i < p THEN i + 1 ELSE IF i = p THEN 1 ELSE i
<1>6. \A i \in 1 .. Len(old) :
        place(i) \in 1 .. Len(old) /\ Tail(new)[i][1] = old[place(i)][1]
  <2> TAKE i \in 1 .. Len(old)
  <2>1. CASE i < p
    <3>1. i + 1 \in 1 .. p /\ i + 1 \in 1 .. Len(old)
      BY <1>1, <2>1
    <3> QED
      BY <1>3, <1>5, <2>1, <3>1
  <2>2. CASE i = p
    <3>1. Tail(new)[i] = r
      BY <1>3, <1>5, <2>2
    <3>2. place(i) = 1 /\ 1 \in 1 .. Len(old)
      BY <1>1, <2>2
    <3> QED
      BY <3>1, <3>2
  <2>3. CASE i > p
    <3>1. i + 1 \in p + 2 .. Len(old) + 1 /\ (i + 1) - 1 = i
      BY <1>1, <2>3
    <3>2. Tail(new)[i] = new[i + 1] /\ new[i + 1] = old[(i + 1) - 1]
      BY <1>3, <1>5, <3>1
    <3>3. place(i) = i
      BY <1>4, <2>3
    <3> QED
      BY <3>1, <3>2, <3>3
  <2>4. i < p \/ i = p \/ i > p
    OBVIOUS
  <2> HIDE DEF place
  <2> QED
    BY <2>1, <2>2, <2>3, <2>4
<1>7. \A i, j \in 1 .. Len(old) : place(i) = place(j) => i = j
  <2> TAKE i, j \in 1 .. Len(old)
  <2>1. p \in Nat /\ i \in Nat \ {0} /\ j \in Nat \ {0}
    BY <1>1
  <2> QED
    BY <1>4, <2>1
<1> HIDE DEF place
<1>8. \A i, j \in 1 .. Len(old) : old[i][1] = old[j][1] => i = j
  BY DEF Once
<1>9. Once(Tail(new))
  <2>1. ASSUME NEW i \in 1 .. Len(old), NEW j \in 1 .. Len(old),
               Tail(new)[i][1] = Tail(new)[j][1]
        PROVE  i = j
    <3>1. place(i) \in 1 .. Len(old) /\ place(j) \in 1 .. Len(old)
      BY <1>6
    <3>2. old[place(i)][1] = old[place(j)][1]
      BY <1>6, <2>1
    <3>3. place(i) = place(j)
      BY <1>8, <3>1, <3>2
    <3> QED
      BY <1>7, <3>3
  <2>2. \A i \in 1 .. Len(old) : Tail(new)[i][1] \in scheduled
    BY <1>6 DEF Once
  <2> QED
    BY <1>5, <2>1, <2>2 DEF Once
<1>10. {old[1]} \cup ToSet(Tail(new)) = ({old[1]} \cup ToSet(Tail(old))) \cup {r}
  <2>1. ToSet(new) = {old[1]} \cup ToSet(Tail(new))
    BY <1>1, HeadAndTail
  <2>2. ToSet(old) = {old[1]} \cup ToSet(Tail(old))
    BY HeadAndTail
  <2>3. ToSet(new) = ToSet(old) \cup {r}
    BY InsortedElements
  <2> QED
    BY <2>1, <2>2, <2>3
<1>11. r # old[1]
  BY <1>1
<1>12. old[1] \notin ToSet(Tail(old))
  BY FirstIsNotInTail
<1>13. old[1] \notin ToSet(Tail(new))
  <2> SUFFICES ASSUME old[1] \in ToSet(Tail(new)) PROVE FALSE
    OBVIOUS
  <2>1. r \in ToSet(Tail(new))
    BY <1>10, <1>11
  <2> Tail(new) \in Seq(Entries) /\ Len(Tail(new)) = Len(old)
    BY <1>5
  <2> DEFINE HasPlace(x) == \E i \in 1 .. Len(old) : x = Tail(new)[i]
  <2> HasPlace(old[1]) /\ HasPlace(r)
    <3>1. \A x \in ToSet(Tail(new)) :
            \E i \in 1 .. Len(Tail(new)) : x = Tail(new)[i]
      BY ElementsOfList
    <3>2. Len(Tail(new)) = Len(old)
      OBVIOUS
    <3> QED
      BY <2>1, <3>1, <3>2, Zenon
  <2>2. PICK i \in 1 .. Len(old) : old[1] = Tail(new)[i]
    OBVIOUS
  <2>3. PICK j \in 1 .. Len(old) : r = Tail(new)[j]
    OBVIOUS
  <2>4. Tail(new)[i][1] = Tail(new)[j][1]
    BY <2>2, <2>3
  <2>5. i = j
    <3>1. \A k, l \in 1 .. Len(Tail(new)) :
            Tail(new)[k][1] = Tail(new)[l][1] => k = l
      BY <1>9 DEF Once
    <3>2. Len(Tail(new)) = Len(old)
      BY <1>5
    <3> QED
      BY <2>4, <3>1, <3>2
  <2> QED
    BY <1>11, <2>2, <2>3, <2>5
<1> QED
  BY <1>9, <1>10, <1>11, <1>12, <1>13

LEMMA SteadyInvReturns ==
  ASSUME SteadyInv, ListGood', FunctionReturns
  PROVE  /\ SteadyInv'
         /\ Pending' = Pending
<1>1. /\ queue \in Seq(Entries) /\ queue # <<>> /\ Once(queue)
      /\ running \in Entries /\ queue[1] = running
      /\ phase = "running" /\ phase' = "timeout"
      /\ scheduled' = scheduled /\ backdated' = backdated
  BY DEF SteadyInv, ListGood, TypeOK, RunsFirst, FunctionReturns, history
<1>2. CASE Period[running[1]] > 0
  <2> DEFINE r == Renewed(running)
  <2>1. running[1] \in Commands /\ running[2] \in Nat
    BY <1>1
  <2>2. Period[running[1]] \in Nat
    BY <2>1, SchedulerAssumption
  <2>3. r \in Entries /\ r[1] = running[1] /\ running[2] < r[2]
    BY <1>2, <2>1, <2>2 DEF Renewed
  <2>4. PICK q \in Insort(queue, r) : queue' = Tail(q)
    BY <1>2 DEF FunctionReturns
  <2> HIDE DEF r
  <2>5. Once(queue') /\ ToSet(queue') = ToSet(Tail(queue)) \cup {r}
    BY <1>1, <2>3, <2>4, RenewalReplaces
  <2>6. Once(queue)'
    BY <1>1, <2>5 DEF Once
  <2>7. Pending' = ToSet(queue') /\ Pending = ToSet(Tail(queue)) \cup {r}
    BY <1>1, <1>2 DEF Pending, r
  <2> QED
    BY <1>1, <2>5, <2>6, <2>7 DEF SteadyInv, RunsFirst
<1>3. CASE ~(Period[running[1]] > 0)
  <2>1. queue' = Tail(queue)
    BY <1>3 DEF FunctionReturns
  <2>2. /\ Len(queue') = Len(queue) - 1 /\ Len(queue) \in Nat \ {0}
        /\ \A i \in 1 .. Len(queue) - 1 : queue'[i] = queue[i + 1]
    BY <1>1, <2>1, TailPlaces
  <2>3. Once(queue)'
    <3>1. \A i \in 1 .. Len(queue') :
            i + 1 \in 1 .. Len(queue) /\ queue'[i][1] = queue[i + 1][1]
      BY <2>2
    <3>2. ASSUME NEW i \in 1 .. Len(queue'), NEW j \in 1 .. Len(queue'),
                 queue'[i][1] = queue'[j][1]
          PROVE  i = j
      <4>1. queue[i + 1][1] = queue[j + 1][1]
        BY <3>1, <3>2
      <4>2. i + 1 = j + 1
        BY <1>1, <3>1, <4>1 DEF Once
      <4> QED
        BY <4>2
    <3> QED
      BY <1>1, <3>1, <3>2 DEF Once
  <2>4. Pending' = ToSet(queue') /\ Pending = ToSet(Tail(queue))
    BY <1>1, <1>3 DEF Pending
  <2> QED
    BY <1>1, <2>1, <2>3, <2>4 DEF SteadyInv, RunsFirst
<1> QED
  BY <1>2, <1>3

LEMMA ScheduleIsNote ==
  ASSUME SteadyInv, SteadyInv', NEW c \in Commands, NEW due \in Nat,
         ScheduleCommand(c, due)
  PROVE  A!Note(c)
<1> DEFINE e == <<c, due>>
<1>1. /\ queue \in Seq(Entries) /\ e \in Entries /\ queue' \in Seq(Entries)
      /\ queue' \in Insort(queue, e) /\ scheduled' = scheduled \cup {c}
      /\ c \notin scheduled /\ phase' = phase /\ running' = running
      /\ phase \in {"free", "running"} /\ now' = now
  BY DEF SteadyInv, ListGood, TypeOK, ScheduleCommand
<1>2. ToSet(queue') = ToSet(queue) \cup {e}
  BY <1>1, InsortedElements
<1>3. Pending' = Pending \cup {e}
  <2>1. CASE phase = "free"
    BY <1>1, <1>2, <2>1 DEF Pending
  <2>2. CASE phase = "running"
    <3>1. /\ queue # <<>> /\ queue[1] = running
          /\ queue' # <<>> /\ queue'[1] = running
      BY <1>1, <2>2 DEF SteadyInv, RunsFirst
    <3>2. Once(queue) /\ running[1] \in scheduled
      <4>1. 1 \in 1 .. Len(queue)
        BY <1>1, <3>1, TailPlaces
      <4> QED
        BY <3>1, <4>1 DEF SteadyInv, Once
    <3>3. running \notin ToSet(Tail(queue))
      BY <1>1, <3>1, <3>2, FirstIsNotInTail
    <3>4. running \notin ToSet(Tail(queue'))
      <4>1. \A i, j \in 1 .. Len(queue') : queue'[i][1] = queue'[j][1] => i = j
        BY DEF SteadyInv, Once
      <4> SUFFICES ASSUME running \in ToSet(Tail(queue')) PROVE FALSE
        OBVIOUS
      <4>2. /\ Tail(queue') \in Seq(Entries) /\ Len(Tail(queue')) = Len(queue') - 1
            /\ Len(queue') \in Nat \ {0}
            /\ \A i \in 1 .. Len(queue') - 1 : Tail(queue')[i] = queue'[i + 1]
        BY <1>1, <3>1, TailPlaces
      <4> Tail(queue') \in Seq(Entries) /\ Len(Tail(queue')) = Len(queue') - 1
        BY <4>2
      <4>3. PICK i \in 1 .. Len(queue') - 1 : running = Tail(queue')[i]
        <5>1. \A x \in ToSet(Tail(queue')) :
                \E i \in 1 .. Len(Tail(queue')) : x = Tail(queue')[i]
          BY ElementsOfList
        <5>2. Len(Tail(queue')) = Len(queue') - 1
          BY <4>2
        <5> QED
          BY <5>1, <5>2, Zenon
      <4>4. i + 1 \in 1 .. Len(queue') /\ 1 \in 1 .. Len(queue') /\ i + 1 # 1
        BY <4>2
      <4>5. queue'[i + 1] = queue'[1]
        BY <3>1, <4>2, <4>3
      <4> QED
        BY <4>1, <4>4, <4>5
    <3>5. running # e
      BY <1>1, <3>2
    <3>6. ToSet(queue) = {running} \cup ToSet(Tail(queue))
      BY <1>1, <3>1, HeadAndTail
    <3>7. ToSet(queue') = {running} \cup ToSet(Tail(queue'))
      BY <1>1, <3>1, HeadAndTail
    <3>8. ToSet(Tail(queue')) = ToSet(Tail(queue)) \cup {e}
      BY <1>2, <3>3, <3>4, <3>5, <3>6, <3>7
    <3> QED
      BY <1>1, <2>2, <3>8 DEF Pending
  <2> QED
    BY <1>1, <2>1, <2>2
<1>4. e \in Pending' /\ e[1] = c /\ e[2] \in Nat
  BY <1>3
<1> HIDE DEF e
<1> QED
  BY <1>1, <1>3, <1>4 DEF A!Note

LEMMA RunFirstIsRun ==
  ASSUME SteadyInv, RunFirst
  PROVE  SteadyInv' /\ (\E e \in Pending : A!Run(e))
<1>1. /\ queue \in Seq(Entries) /\ queue # <<>> /\ queue[1][2] <= now
      /\ phase = "timeout" /\ phase' = "running" /\ running' = queue[1]
      /\ UNCHANGED <<now, queue, scheduled, backdated>>
      /\ Once(queue) /\ SortedSeq(queue)
  BY DEF SteadyInv, ListGood, TypeOK, RunFirst, FirstDue
<1>2. SteadyInv'
  <2>1. ListGood'
    <3>1. [Next]_vars
      BY DEF Next, Loop
    <3> QED
      BY <3>1, ListGoodInductive DEF SteadyInv
  <2>2. Once(queue)'
    BY <1>1 DEF Once
  <2> QED
    BY <1>1, <2>1, <2>2 DEF SteadyInv, RunsFirst
<1> DEFINE e == queue[1]
<1>3. /\ Pending = ToSet(queue) /\ ToSet(queue) = {e} \cup ToSet(Tail(queue))
      /\ e \notin ToSet(Tail(queue))
  BY <1>1, HeadAndTail, FirstIsNotInTail DEF Pending
<1>4. Pending' = (Pending \ {e}) \cup A!Renewed(e)
  BY <1>1, <1>3 DEF Pending, Renewed, A!Renewed
<1>5. \A f \in Pending : e[2] <= f[2]
  <2> SUFFICES ASSUME NEW f \in ToSet(queue) PROVE e[2] <= f[2]
    BY <1>3
  <2>1. PICK i \in 1 .. Len(queue) : f = queue[i]
    BY <1>1, ElementsOfList
  <2>2. e[2] \in Nat /\ 1 \in 1 .. Len(queue)
    BY <1>1, TailPlaces
  <2> QED
    BY <2>1, <2>2, <1>1 DEF SortedSeq
<1>6. e \in Pending
  BY <1>3
<1> HIDE DEF e
<1>7. e[2] <= now
  BY <1>1 DEF e
<1> QED
  BY <1>1, <1>2, <1>4, <1>5, <1>6, <1>7 DEF A!Run

(* Each step of the list is a step of Agenda, and keeps SteadyInv.         *)
LEMMA SteadyStep ==
  ASSUME SteadyInv, [Next /\ ~backdated']_vars
  PROVE  SteadyInv' /\ [A!Next]_(A!avars)
<1> USE SchedulerAssumption
<1>1. ListGood'
  BY ListGoodInductive DEF SteadyInv
<1>2. ASSUME NEW c \in Commands, NEW due \in Nat, ScheduleCommand(c, due), ~backdated'
      PROVE  SteadyInv' /\ A!Next
  <2>1. SteadyInv'
    BY <1>1, <1>2, SteadyInvSchedule
  <2>2. A!Note(c)
    BY <1>2, <2>1, ScheduleIsNote
  <2> QED
    BY <2>1, <2>2 DEF A!Next
<1>3. ASSUME NEW c \in Commands, NEW t \in 0 .. MaxTime, ~backdated',
             ExecuteDelayed(c, t) \/ ExecuteAt(c, t)
      PROVE  SteadyInv' /\ A!Next
  <2>1. now + t \in Nat /\ t \in Nat
    BY DEF SteadyInv, ListGood, TypeOK
  <2> QED
    BY <1>2, <1>3, <2>1 DEF ExecuteDelayed, ExecuteAt
<1>4. ASSUME NEW c \in Commands, ExecuteEvery(c), ~backdated'
      PROVE  SteadyInv' /\ A!Next
  <2>1. now + Period[c] \in Nat
    BY DEF SteadyInv, ListGood, TypeOK
  <2> QED
    BY <1>2, <1>4, <2>1 DEF ExecuteEvery
<1>5. CASE RunFirst
  BY <1>5, RunFirstIsRun DEF A!Next
<1>6. CASE FunctionReturns
  <2>1. now' = now /\ scheduled' = scheduled
    BY <1>6 DEF FunctionReturns
  <2> QED
    BY <1>1, <1>6, <2>1, SteadyInvReturns DEF A!avars
<1>7. CASE \/ ProcessTimeout \/ NothingDue \/ FunctionRaises
           \/ ClockTicks \/ ClockSetBack \/ UNCHANGED vars
  <2>1. /\ queue' = queue /\ running' = running
        /\ scheduled' = scheduled /\ backdated' = backdated
        /\ (phase' \in {"running", "dead"}) <=> (phase \in {"running", "dead"})
    BY <1>7 DEF ProcessTimeout, NothingDue, FunctionRaises, ClockTicks,
                ClockSetBack, vars, history
  <2>2. Once(queue)'
    BY <2>1 DEF SteadyInv, Once
  <2>3. SteadyInv'
    BY <1>1, <2>1, <2>2 DEF SteadyInv, RunsFirst
  <2>4. Pending' = Pending
    BY <2>1 DEF Pending
  <2>5. now' \in Nat
    BY <1>1 DEF ListGood, TypeOK
  <2>6. A!SetClock
    BY <2>1, <2>4, <2>5 DEF A!SetClock
  <2> QED
    BY <2>3, <2>6 DEF A!Next
<1> QED
  BY <1>3, <1>4, <1>5, <1>6, <1>7 DEF Next, Loop

(* As long as no function schedules a command due before its own, the list *)
(* of client.py keeps the promise of Agenda: process_timeout runs the      *)
(* commands in the order they are due, none early, and deletes exactly the *)
(* one it ran, whatever the function and the renewal insert in between.    *)
THEOREM ListIsAgenda == SteadySpec => ImplementsAgenda
<1>1. Init => SteadyInv /\ A!Init
  <2> SUFFICES ASSUME Init PROVE SteadyInv /\ A!Init
    OBVIOUS
  <2>1. ListGood
    BY ListGoodInitially
  <2>2. queue = <<>> /\ Len(queue) = 0 /\ phase = "free" /\ ~backdated
    BY DEF Init
  <2>3. Once(queue)
    BY <2>2 DEF Once
  <2>4. Pending = {}
    BY <2>2 DEF Pending, ToSet
  <2>5. A!Init
    BY <2>4 DEF Init, A!Init
  <2> QED
    BY <2>1, <2>2, <2>3, <2>5 DEF SteadyInv, RunsFirst
<1>2. SteadyInv /\ [Next /\ ~backdated']_vars => SteadyInv' /\ [A!Next]_(A!avars)
  BY SteadyStep
<1> QED
  BY <1>1, <1>2, PTL DEF SteadySpec, ImplementsAgenda, A!Spec
==============================================================================
