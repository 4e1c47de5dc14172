------------------------------- MODULE Scheduler -------------------------------
(***************************************************************************)
(* The delayed commands of a Reactor (client.py execute_at ...             *)
(* process_timeout, schedule.py): a list sorted by the time a command is   *)
(* due, whose first elements process_timeout runs, renews and deletes.     *)
(* The reconnect checks, the pack request and checkTerminated of a bot are *)
(* such commands; Reconnect takes for granted what this module says.       *)
(*                                                                         *)
(* now() is the wall clock: it goes on at any moment, also while a command *)
(* runs, and somebody may set it back.                                     *)
(***************************************************************************)
EXTENDS Naturals, Sequences, SequencesExt

CONSTANTS
  Commands,   \* the commands, each scheduled once
  Period,     \* Period[c] of a command from execute_every, 0 of any other
  MaxTime     \* bound: the latest time of the clock

ASSUME SchedulerAssumption ==
  /\ Period \in [Commands -> Nat]
  /\ MaxTime \in Nat

VARIABLES
  now,
  queue,       \* delayed_commands: each <<c, due>>
  phase,       \* "free", "timeout" (process_timeout has the mutex),
               \* "running" the function of the first command, or "dead"
  running,     \* the command it runs, <<>> when it runs none
  scheduled,   \* the commands that were scheduled
  \* what happened so far, for the properties
  ran,         \* the commands without a period that ran
  again,       \* ... and that ran again
  backdated    \* a function scheduled a command that is due before its own

history == <<ran, again, backdated>>
vars == <<now, queue, phase, running, scheduled, history>>

Entries == Commands \X Nat

TypeOK ==
  /\ now \in 0 .. MaxTime
  /\ queue \in Seq(Entries)
  /\ phase \in {"free", "timeout", "running", "dead"}
  /\ running \in IF phase \in {"running", "dead"} THEN Entries ELSE {<<>>}
  /\ scheduled \in SUBSET Commands
  /\ ran \in SUBSET Commands /\ again \in SUBSET Commands
  /\ backdated \in BOOLEAN

Init ==
  /\ now = 0
  /\ queue = <<>>
  /\ phase = "free"
  /\ running = <<>>
  /\ scheduled = {}
  /\ ran = {} /\ again = {} /\ backdated = FALSE
------------------------------------------------------------------------------
(* Definitions X_f with a small f are faulty X: each breaks a property of  *)
(* this module, and shows that the property can fail.                      *)
Insort_last(old, e) == {Append(old, e)}

(* bisect.insort: behind the last command that is due no later.  The one   *)
(* list this leads to, when the old one is sorted.                         *)
Insort(old, e) ==
  {InsertAt(old, p + 1, e) :
     p \in {p \in 0 .. Len(old) :
             /\ \A i \in 1 .. p : old[i][2] <= e[2]
             /\ \A i \in p + 1 .. Len(old) : e[2] < old[i][2]}}

(* _schedule_command, from a handler or another thread when the mutex is   *)
(* free, or from the function that process_timeout runs.                   *)
ScheduleCommand(c, due) ==
  /\ phase \in {"free", "running"}
  /\ c \notin scheduled
  /\ scheduled' = scheduled \cup {c}
  /\ queue' \in Insort(queue, <<c, due>>)
  /\ backdated' = (backdated \/ (phase = "running" /\ due < running[2]))
  /\ UNCHANGED <<now, phase, running, ran, again>>

(* execute_delayed, and execute_every, which first waits for a period.     *)
ExecuteDelayed(c, delay) == Period[c] = 0 /\ ScheduleCommand(c, now + delay)
ExecuteEvery(c) == Period[c] > 0 /\ ScheduleCommand(c, now + Period[c])

(* execute_at, with any time. *)
ExecuteAt(c, at) == Period[c] = 0 /\ ScheduleCommand(c, at)

ProcessTimeout ==
  /\ phase = "free"
  /\ phase' = "timeout"
  /\ UNCHANGED <<now, queue, running, scheduled, history>>

FirstDue == queue # <<>> /\ queue[1][2] <= now

(* while self.delayed_commands: command = self.delayed_commands[0] ... *)
RunFirst ==
  /\ phase = "timeout"
  /\ FirstDue
  /\ phase' = "running"
  /\ running' = queue[1]
  /\ LET c == queue[1][1]
     IN  /\ again' = IF c \in ran THEN again \cup {c} ELSE again
         /\ ran' = IF Period[c] = 0 THEN ran \cup {c} ELSE ran
  /\ UNCHANGED <<now, queue, scheduled, backdated>>

NothingDue ==
  /\ phase = "timeout"
  /\ ~FirstDue
  /\ phase' = "free"
  /\ UNCHANGED <<now, queue, running, scheduled, history>>

FunctionReturns_unset ==
  /\ phase = "running"
  /\ queue' = Tail(queue)
  /\ phase' = "timeout"
  /\ UNCHANGED <<now, running, scheduled, history>>

FunctionReturns_once ==
  /\ phase = "running"
  /\ queue' = Tail(queue)
  /\ phase' = "timeout"
  /\ running' = <<>>
  /\ UNCHANGED <<now, scheduled, history>>

(* PeriodicCommand.next *)
Renewed(e) == <<e[1], e[2] + Period[e[1]]>>

(* The function returns: a periodic command is scheduled for one period    *)
(* after it was due, and whatever is the first of the list is deleted.     *)
FunctionReturns ==
  /\ phase = "running"
  /\ IF Period[running[1]] > 0
     THEN \E q \in Insort(queue, Renewed(running)) : queue' = Tail(q)
     ELSE queue' = Tail(queue)
  /\ phase' = "timeout"
  /\ running' = <<>>
  /\ UNCHANGED <<now, scheduled, history>>

(* The exception leaves process_forever and ends the thread of the bot.    *)
FunctionRaises ==
  /\ phase = "running"
  /\ phase' = "dead"
  /\ UNCHANGED <<now, queue, running, scheduled, history>>

ClockTicks ==
  /\ now < MaxTime
  /\ now' = now + 1
  /\ UNCHANGED <<queue, phase, running, scheduled, history>>

ClockSetBack ==
  /\ now > 0
  /\ now' = now - 1
  /\ UNCHANGED <<queue, phase, running, scheduled, history>>

Loop == ProcessTimeout \/ RunFirst \/ NothingDue \/ FunctionReturns

Next ==
  \/ \E c \in Commands, t \in 0 .. MaxTime :
       \/ ExecuteDelayed(c, t)
       \/ ExecuteAt(c, t)
  \/ \E c \in Commands : ExecuteEvery(c)
  \/ Loop \/ FunctionRaises
  \/ ClockTicks \/ ClockSetBack

Spec == Init /\ [][Next]_vars

(* process_forever keeps calling process_timeout, functions return, and    *)
(* time passes.                                                            *)
Fairness == WF_vars(Loop) /\ WF_vars(ClockTicks)

(* No function schedules a command due before its own, as with positive    *)
(* delays and a clock that nobody sets back while it runs.                 *)
SteadySpec == Init /\ [][Next /\ ~backdated']_vars

FairSteadySpec == SteadySpec /\ Fairness
------------------------------------------------------------------------------
Pending ==
  IF phase \in {"running", "dead"}
  THEN ToSet(Tail(queue)) \cup
         (IF Period[running[1]] > 0 THEN {Renewed(running)} ELSE {})
  ELSE ToSet(queue)

A == INSTANCE Agenda WITH pending <- Pending, noted <- scheduled

(* The list keeps the promise of Agenda although process_timeout reads its *)
(* first element before it runs the function and deletes the first element *)
(* after the function and the renewal have changed the list: the commands  *)
(* run in the order they are due, and none is lost, doubled or early.      *)
ImplementsAgenda == A!Spec

(* The list is sorted at all times, also with times in the past and a      *)
(* clock that is set back.                                                 *)
Sorted ==
  \A i, j \in 1 .. Len(queue) : i < j => queue[i][2] <= queue[j][2]

(* Once nobody sets the clock back any more, a due command is not waiting  *)
(* for ever behind the others: periodic ones that have fallen behind catch *)
(* up without holding it back.                                             *)
DueRuns ==
  <>[][now' >= now]_vars =>
    \A c \in Commands :
      (\E e \in ToSet(queue) : e[1] = c /\ e[2] <= now /\ Period[c] = 0)
        ~> (c \in ran \/ phase = "dead")

(* "Execute a function at a specified time" (execute_at): once.            *)
RunsOnce == again = {}
==============================================================================
