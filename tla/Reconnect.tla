------------------------------ MODULE Reconnect ------------------------------
(***************************************************************************)
(* The thread of one IRC bot, seen from its server connection: the         *)
(* reactor loop and its delayed commands (irc/client.py), the reconnect    *)
(* strategy (irc/bot.py, ExponentialBackoff) and the pack request the      *)
(* Grabator schedules once it is registered (xbot.py).                     *)
(*                                                                         *)
(* Time is abstracted to the order of the delayed commands.  A reconnect   *)
(* check is due at least min_interval = 60 seconds after it is scheduled   *)
(* and a pack request at most 8 seconds after, so a new check goes behind  *)
(* everything pending, and a new request goes to any place that is not     *)
(* due yet.  The periodic checkTerminated command is left out: no code of  *)
(* the add-on ever sets Download.terminated.                               *)
(***************************************************************************)
EXTENDS Naturals, FiniteSets, Sequences, SequencesExt

CONSTANT SecondChannel   \* the bot joins a second channel on welcome

ASSUME SecondChannelAssumption == SecondChannel \in BOOLEAN

VARIABLES
  thread,          \* the bot's thread: "new", "running", "exited" or "crashed"
  conn,            \* ServerConnection: "never" connected, "down", "open" (TCP
                   \* is up, not registered) or "welcomed" (registered)
  link,            \* the socket: "none", "up", or "broken" but not noticed yet
  checkScheduled,  \* ExponentialBackoff._check_scheduled
  delayed,         \* Reactor.delayed_commands, first one due first
  due,             \* the first delayed command has come due
  requests         \* pack requests sent since the connection was welcomed

rvars == <<thread, conn, link, checkScheduled, delayed, due, requests>>

Connected == conn \in {"open", "welcomed"}
Running == thread = "running"

(* A definition X_f with a small f is a faulty X: it breaks a property of  *)
(* this module, and shows that the property can fail.                      *)
NoSocket_dangling == link' = "closed" /\ requests' = 0
NoSocket == link' = "none" /\ requests' = 0

TypeOK ==
  /\ thread \in {"new", "running", "exited", "crashed"}
  /\ conn \in {"never", "down", "open", "welcomed"}
  /\ link \in {"none", "up", "broken"}
  /\ checkScheduled \in BOOLEAN
  /\ delayed \in Seq({"check", "download"})
  /\ due \in BOOLEAN
  /\ requests \in Nat

Init ==
  /\ thread = "new"
  /\ conn = "never"
  /\ link = "none"
  /\ checkScheduled = FALSE
  /\ delayed = <<>>
  /\ due = FALSE
  /\ requests = 0
------------------------------------------------------------------------------
WithCheck_twice(queue, flag) == Append(queue, "check")
WithCheck_overtakes(queue, flag) ==
  IF flag THEN queue ELSE <<"check">> \o queue

(* ExponentialBackoff.run on a queue: nothing while a check is pending.    *)
WithCheck(queue, flag) == IF flag THEN queue ELSE Append(queue, "check")

ReconRun(queue, flag) ==
  /\ delayed' = WithCheck(queue, flag)
  /\ checkScheduled' = TRUE

Disconnect_silent(queue, flag) ==
  /\ conn' = "down"
  /\ NoSocket
  /\ delayed' = queue
  /\ checkScheduled' = flag

(* ServerConnection.disconnect of a connected connection: the "disconnect" *)
(* event reaches _on_disconnect before anything else.                      *)
Disconnect(queue, flag) ==
  /\ conn' = "down"
  /\ NoSocket
  /\ ReconRun(queue, flag)

WithDownload_forgets(queue) == {queue}

(* The place of a new request: not ahead of a command that is due.  When   *)
(* the check was scheduled just now the request always goes before it.     *)
WithDownload(queue) ==
  {InsertAt(queue, p, "download") :
     p \in (IF due THEN 2 ELSE 1) .. (Len(queue) + 1)}

(* SingleServerIRCBot._connect: the server refuses; the log-on (NICK and   *)
(* USER) goes out; or it is cut during the log-on, which disconnects, and  *)
(* the error of the USER that follows is swallowed.                        *)
Dial(queue, flag) ==
  \/ /\ conn' = conn
     /\ NoSocket
     /\ checkScheduled' = flag
     /\ delayed' = queue
  \/ /\ conn' = "open"
     /\ link' = "up"
     /\ requests' = 0
     /\ checkScheduled' = flag
     /\ delayed' = queue
  \/ Disconnect(queue, flag)
------------------------------------------------------------------------------
(* SingleServerIRCBot.start, in the thread made for it. *)
Start ==
  /\ thread = "new"
  /\ thread' = "running"
  /\ Dial(delayed, checkScheduled)
  /\ UNCHANGED due

(* The server or the network cuts the connection; the bot cannot know yet. *)
LinkBreaks ==
  /\ link = "up"
  /\ link' = "broken"
  /\ UNCHANGED <<thread, conn, checkScheduled, delayed, due, requests>>

(* ServerConnection.process_data reads nothing, or an error. *)
NoticeHangup ==
  /\ Running /\ Connected /\ link = "broken"
  /\ Disconnect(delayed, checkScheduled)
  /\ UNCHANGED <<thread, due>>

(* A line was read and its handler sends something (PONG, JOIN, a CTCP     *)
(* reply).  The send fails and disconnects; when a later line of the same  *)
(* read, or the same handler, sends again there is no socket any more and  *)
(* ServerNotConnectedError ends the thread.                                *)
HandlerSendFails ==
  /\ Running /\ Connected /\ link = "broken"
  /\ Disconnect(delayed, checkScheduled)
  /\ thread' \in {"running", "crashed"}
  /\ UNCHANGED due

(* Grabator.on_welcome: join, join the second channel, schedule the        *)
(* request.  The sends may fail once the link is broken.                   *)
OnWelcome ==
  /\ Running /\ conn = "open"
  /\ UNCHANGED due
  /\ \/ /\ conn' = "welcomed"
        /\ delayed' \in WithDownload(delayed)
        /\ UNCHANGED <<thread, link, checkScheduled, requests>>
     \/ /\ link = "broken"
        /\ conn' = "down"
        /\ NoSocket
        /\ checkScheduled' = TRUE
        /\ \E queue \in WithDownload(delayed) :
              delayed' = WithCheck(queue, checkScheduled)
        /\ UNCHANGED thread
     \/ /\ link = "broken" /\ SecondChannel
        /\ Disconnect(delayed, checkScheduled)
        /\ thread' = "crashed"

(* Time passes until the first delayed command is due. *)
Tick ==
  /\ Running /\ delayed # <<>> /\ ~due
  /\ due' = TRUE
  /\ UNCHANGED <<thread, conn, link, checkScheduled, delayed, requests>>

RunCheck_once ==
  /\ Running /\ due /\ Head(delayed) = "check"
  /\ due' = FALSE
  /\ UNCHANGED thread
  /\ IF Connected
     THEN /\ checkScheduled' = FALSE
          /\ delayed' = Tail(delayed)
          /\ UNCHANGED <<conn, link, requests>>
     ELSE Dial(Tail(delayed), FALSE)

(* Reactor.process_timeout runs ExponentialBackoff.check.  The next check  *)
(* is scheduled before the attempt, while the running command is still the *)
(* head of the queue.                                                      *)
RunCheck ==
  /\ Running /\ due /\ Head(delayed) = "check"
  /\ due' = FALSE
  /\ UNCHANGED thread
  /\ \/ /\ Connected
        /\ checkScheduled' = FALSE
        /\ delayed' = Tail(delayed)
        /\ UNCHANGED <<conn, link, requests>>
     \/ /\ ~Connected
        /\ Dial(WithCheck(Tail(delayed), FALSE), TRUE)

(* Reactor.process_timeout runs download: one notice to the server.  With  *)
(* no socket ServerNotConnectedError leaves the reactor loop.              *)
RunDownload ==
  /\ Running /\ due /\ Head(delayed) = "download"
  /\ \/ /\ Connected
        /\ requests' = IF conn = "welcomed" THEN requests + 1 ELSE requests
        /\ delayed' = Tail(delayed)
        /\ due' = FALSE
        /\ UNCHANGED <<thread, conn, link, checkScheduled>>
     \/ /\ Connected /\ link = "broken"
        /\ Disconnect(Tail(delayed), checkScheduled)
        /\ due' = FALSE
        /\ UNCHANGED thread
     \/ /\ ~Connected
        /\ thread' = "crashed"
        /\ UNCHANGED <<conn, link, checkScheduled, delayed, due, requests>>

(* A handler calls SingleServerIRCBot.disconnect. *)
HandlerDisconnects ==
  /\ Running /\ Connected
  /\ Disconnect(delayed, checkScheduled)
  /\ UNCHANGED <<thread, due>>

(* A handler calls SingleServerIRCBot.die: disconnect, then sys.exit. *)
HandlerDies ==
  /\ Running
  /\ thread' = "exited"
  /\ UNCHANGED due
  /\ IF Connected
     THEN Disconnect(delayed, checkScheduled)
     ELSE UNCHANGED <<conn, link, checkScheduled, delayed, requests>>

(* A handler raises: nothing in the reactor catches it, the thread ends.   *)
(* Kodi killing the process looks the same from here.                      *)
HandlerRaises ==
  /\ Running
  /\ thread' = "crashed"
  /\ UNCHANGED <<conn, link, checkScheduled, delayed, due, requests>>

(* The user asks for the file again (addon.py stream): a new process with  *)
(* a new reactor, connection and reconnect strategy.                       *)
Relaunch ==
  /\ thread \in {"exited", "crashed"}
  /\ thread' = "new"
  /\ conn' = "never"
  /\ NoSocket
  /\ checkScheduled' = FALSE
  /\ delayed' = <<>>
  /\ due' = FALSE

Next ==
  \/ Start
  \/ LinkBreaks
  \/ NoticeHangup
  \/ HandlerSendFails
  \/ OnWelcome
  \/ Tick
  \/ RunCheck
  \/ RunDownload
  \/ HandlerDisconnects
  \/ HandlerDies
  \/ HandlerRaises
  \/ Relaunch

(* The reactor loop keeps running: time passes, a command that is due is   *)
(* run, a socket with something to read is read.                           *)
Fairness ==
  /\ WF_rvars(Start)
  /\ WF_rvars(Tick)
  /\ WF_rvars(RunCheck)
  /\ WF_rvars(RunDownload)
  /\ WF_rvars(NoticeHangup)

Spec == Init /\ [][Next]_rvars
FairSpec == Spec /\ Fairness
------------------------------------------------------------------------------
Places(queue, cmd) == {i \in DOMAIN queue : queue[i] = cmd}

FlagExact(queue, flag) ==
  /\ flag <=> Places(queue, "check") # {}
  /\ \A i, j \in Places(queue, "check") : i = j

(* A running bot whose server connection was lost always has a reconnect   *)
(* check pending (bot.py _on_disconnect and ExponentialBackoff.check),     *)
(* whichever of the reader, a failed send or a handler noticed the loss.   *)
ArmedWhenDown == Running /\ conn = "down" => checkScheduled

(* _check_scheduled tells the truth: exactly one check is in the reactor's *)
(* queue when it is set, and none when it is clear, although check() runs  *)
(* and re-arms itself while it is still the head of that queue.            *)
CheckFlagExact == FlagExact(delayed, checkScheduled)

(* A registered bot has asked for its pack on this connection or is about  *)
(* to (xbot.py on_welcome), even when the request scheduled on an earlier  *)
(* connection is still in the queue.                                       *)
WelcomedBotRequests ==
  Running /\ conn = "welcomed" => requests > 0 \/ Places(delayed, "download") # {}

(* A request left over from the connection before can be sent on the new   *)
(* one, so a pack is asked for twice on one connection; never three times. *)
AtMostTwoRequests == requests + Cardinality(Places(delayed, "download")) <= 2

(* "The bot tries to reconnect if it is disconnected" (irc/bot.py): a bot  *)
(* that stays down keeps running its check, and so keeps dialling.         *)
RetriesForever ==
  <>[](Running /\ conn = "down") => []<><<RunCheck>>_rvars

(* A registered bot sends its request, loses the connection or stops.      *)
RequestIsSent ==
  (Running /\ conn = "welcomed") ~>
     (requests > 0 \/ conn # "welcomed" \/ ~Running)

(* irc/bot.py: recon is "a ReconnectStrategy for reconnecting on           *)
(* disconnect or failed connection": a started bot without a connection    *)
(* has a check pending.                                                    *)
NeverStranded == Running /\ ~Connected => checkScheduled

(* "The bot tries to reconnect if it is disconnected" (irc/bot.py): the    *)
(* pack request that on_welcome has delayed never stops the bot's thread.  *)
RequestKeepsThread == [][RunDownload => thread' = "running"]_rvars
==============================================================================
