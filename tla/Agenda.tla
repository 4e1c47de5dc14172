--------------------------------- MODULE Agenda ---------------------------------
(***************************************************************************)
(* What the scheduled commands of a Reactor promise (client.py execute_at, *)
(* execute_delayed, execute_every): a command is noted once, runs when it  *)
(* is due and never before one that is due earlier, and is gone after it   *)
(* ran, or noted again one period later.                                   *)
(***************************************************************************)
EXTENDS Naturals

CONSTANTS
  Commands,
  Period      \* Period[c] of a periodic command, 0 of any other

VARIABLES
  now,
  pending,    \* the commands noted, each as <<c, when it is due>>
  noted       \* the commands that were ever noted

avars == <<now, pending, noted>>

Init == now = 0 /\ pending = {} /\ noted = {}

SetClock == now' \in Nat /\ UNCHANGED <<pending, noted>>

Note(c) ==
  /\ c \notin noted
  /\ noted' = noted \cup {c}
  /\ \E e \in pending' :
       e[1] = c /\ e[2] \in Nat /\ pending' = pending \cup {e}
  /\ UNCHANGED now

Renewed(e) == IF Period[e[1]] > 0 THEN {<<e[1], e[2] + Period[e[1]]>>} ELSE {}

Run(e) ==
  /\ e[2] <= now
  /\ \A f \in pending : e[2] <= f[2]
  /\ pending' = (pending \ {e}) \cup Renewed(e)
  /\ UNCHANGED <<now, noted>>

Next ==
  \/ SetClock
  \/ \E c \in Commands : Note(c)
  \/ \E e \in pending : Run(e)

Spec == Init /\ [][Next]_avars
==============================================================================
