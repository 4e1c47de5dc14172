------------------------------- MODULE Tracking -------------------------------
(***************************************************************************)
(* What bots know of the channels they are in (irc/bot.py, and the nick    *)
(* name in irc/client.py and xbot.py), next to the server that tells them  *)
(* (irc/server.py, a thread for each connection).                          *)
(*                                                                         *)
(* Every bot of the add-on asks for the nickname of the settings, and a    *)
(* nickname is the number of underscores a bot has put behind that one.    *)
(*                                                                         *)
(* A step of the server is one command of one client: a handler blocks     *)
(* only where it sends, at its end.  A flush is one step too, because the  *)
(* handler thread reads no command before its queue is empty.  What is     *)
(* posted to a client that is gone is never sent and left out.             *)
(***************************************************************************)
EXTENDS Naturals, Sequences, FiniteSets

CONSTANTS
  Clients,
  Channels,
  Longest,      \* bound: underscores behind a nickname
  MaxUnread,    \* bound: messages a client has not read when others act
  NoNick,
  NoClient

ASSUME TrackingAssumption ==
  /\ IsFiniteSet(Channels)
  /\ Longest \in Nat \ {0}
  /\ MaxUnread \in Nat
  /\ NoNick \notin Nat
  /\ NoClient \notin Clients

Nicks == 0 .. Longest

VARIABLES
  \* the connection, seen from both ends: "off"; "open"; "quit" and "left":
  \* the client has closed it, with or without a QUIT that is still to be
  \* handled; "raised": the server's handler has; "cut": the handler is gone
  \* and the client has not noticed
  link,
  \* the server: the owner of a nickname (server.clients), the clients of a
  \* channel, and of each handler its nick, channels and send_queue
  owner, members, nick, joined, sendQueue,
  wire,         \* what is sent to a client and not read
  \* the bot: the NICK it has sent, its real_nickname, whether it was
  \* welcomed, the keys of its channels and the users of each
  asking, realNick, welcomed, channels, users,
  failed,       \* the bots whose thread a handler has ended
  hasty         \* history: a NICK overtook messages in a send_queue

server == <<owner, members, nick, joined>>
tracker == <<channels, users>>
bot == <<asking, realNick, welcomed, tracker, failed>>
vars == <<link, server, sendQueue, wire, bot, hasty>>

Message ==
       [type : {"welcome", "inuse", "quit"}, who : Nicks]
  \cup [type : {"nick"}, who : Nicks, to : Nicks]
  \cup [type : {"join", "part"}, who : Nicks, ch : Channels]
  \cup [type : {"names"}, ch : Channels, who : SUBSET Nicks]

TypeOK ==
  /\ link \in [Clients -> {"off", "open", "quit", "left", "raised", "cut"}]
  /\ owner \in [Nicks -> Clients \cup {NoClient}]
  /\ members \in [Channels -> SUBSET Clients]
  /\ nick \in [Clients -> Nicks \cup {NoNick}]
  /\ joined \in [Clients -> SUBSET Channels]
  /\ sendQueue \in [Clients -> Seq(Message)]
  /\ wire \in [Clients -> Seq(Message)]
  /\ asking \in [Clients -> Nicks \cup {NoNick}]
  /\ realNick \in [Clients -> Nicks]
  /\ welcomed \in [Clients -> BOOLEAN]
  /\ channels \in [Clients -> SUBSET Channels]
  /\ users \in [Clients -> [Channels -> SUBSET Nicks]]
  /\ failed \in SUBSET Clients
  /\ hasty \in BOOLEAN

Init ==
  /\ link = [c \in Clients |-> "off"]
  /\ owner = [n \in Nicks |-> NoClient]
  /\ members = [ch \in Channels |-> {}]
  /\ nick = [c \in Clients |-> NoNick]
  /\ joined = [c \in Clients |-> {}]
  /\ sendQueue = [c \in Clients |-> <<>>]
  /\ wire = [c \in Clients |-> <<>>]
  /\ asking = [c \in Clients |-> NoNick]
  /\ realNick = [c \in Clients |-> 0]
  /\ welcomed = [c \in Clients |-> FALSE]
  /\ channels = [c \in Clients |-> {}]
  /\ users = [c \in Clients |-> [ch \in Channels |-> {}]]
  /\ failed = {}
  /\ hasty = FALSE

Unread(c) == Len(sendQueue[c]) + Len(wire[c])
(* Bounds: a client acts when little is unread, and nobody once a NICK has *)
(* overtaken what was queued, as nothing is claimed from there on.         *)
Room(S) ==
  /\ Cardinality(UNION {{c} \X (1 .. Unread(c)) : c \in S}) <= MaxUnread
  /\ ~hasty

--------------------------------------------------------------------------
(* The server. *)

(* Channel by channel, a message to everyone in it but the sender; the     *)
(* message reaches a client once for each channel it shares with c.        *)
Shared(c, d) == {ch \in joined[c] : {c, d} \subseteq members[ch]}

Told(c, m) ==
  [d \in Clients |->
     IF d # c /\ link[d] = "open"
     THEN sendQueue[d] \o [i \in 1 .. Cardinality(Shared(c, d)) |-> m]
     ELSE sendQueue[d]]

NickInUse(c, n) ==
  /\ owner[n] \notin {c, NoClient}
  /\ wire' = [wire EXCEPT ![c] = Append(@, [type |-> "inuse", who |-> n])]
  /\ UNCHANGED <<server, sendQueue, hasty>>

AlreadyMine(c, n) ==
  /\ owner[n] = c
  /\ UNCHANGED <<server, sendQueue, wire, hasty>>

Register_unsaid(c, n) ==
  /\ owner[n] = NoClient
  /\ nick[c] = NoNick
  /\ owner' = [owner EXCEPT ![n] = c]
  /\ sendQueue' = [sendQueue EXCEPT ![c] =
                     Append(@, [type |-> "welcome", who |-> n])]
  /\ UNCHANGED <<nick, members, joined, wire, hasty>>

Register(c, n) ==
  /\ owner[n] = NoClient
  /\ nick[c] = NoNick
  /\ nick' = [nick EXCEPT ![c] = n]
  /\ owner' = [owner EXCEPT ![n] = c]
  /\ sendQueue' = [sendQueue EXCEPT ![c] =
                     Append(@, [type |-> "welcome", who |-> n])]
  /\ UNCHANGED <<members, joined, wire, hasty>>

(* The reply to the client itself is sent at once, past its send_queue. *)
ChangeNick(c, n) ==
  LET m == [type |-> "nick", who |-> nick[c], to |-> n] IN
  /\ owner[n] = NoClient
  /\ nick[c] # NoNick
  /\ Room(Clients \ {c})
  /\ owner' = [owner EXCEPT ![nick[c]] = NoClient, ![n] = c]
  /\ nick' = [nick EXCEPT ![c] = n]
  /\ sendQueue' = Told(c, m)
  /\ wire' = [wire EXCEPT ![c] = Append(@, m)]
  /\ hasty' = (hasty \/ sendQueue[c] # <<>>)
  /\ UNCHANGED <<members, joined>>

NickCommand(c, n) ==
  /\ link[c] = "open"
  /\ NickInUse(c, n) \/ AlreadyMine(c, n) \/ Register(c, n) \/ ChangeNick(c, n)
  /\ UNCHANGED <<link, realNick, welcomed, tracker, failed>>

(* The NICK that the bot itself has sent. *)
HandleNick(c) ==
  /\ asking[c] # NoNick
  /\ NickCommand(c, asking[c])
  /\ asking' = [asking EXCEPT ![c] = NoNick]

(* The program changes its nickname; bound: one such NICK unanswered. *)
Rename(c, n) ==
  /\ welcomed[c]
  /\ asking[c] = NoNick
  /\ \A i \in 1 .. Len(wire[c]) : wire[c][i].type \notin {"inuse", "nick"}
  /\ NickCommand(c, n)
  /\ UNCHANGED asking

NicksIn(ch) == {nick[d] : d \in members'[ch]}

HandleJoin_namesFirst(c, ch) ==
  /\ link[c] = "open"
  /\ welcomed[c]
  /\ Room(Clients)
  /\ members' = [members EXCEPT ![ch] = @ \cup {c}]
  /\ joined' = [joined EXCEPT ![c] = @ \cup {ch}]
  /\ sendQueue' =
       [d \in Clients |->
          IF d \in members'[ch] /\ link[d] = "open"
          THEN sendQueue[d]
                 \o (IF d = c
                     THEN <<[type |-> "names", ch |-> ch, who |-> NicksIn(ch)]>>
                     ELSE <<>>)
                 \o <<[type |-> "join", who |-> nick[c], ch |-> ch]>>
          ELSE sendQueue[d]]
  /\ UNCHANGED <<link, owner, nick, wire, bot, hasty>>

(* A client may join a channel it is in; everybody is told again. *)
HandleJoin(c, ch) ==
  /\ link[c] = "open"
  /\ welcomed[c]
  /\ Room(Clients)
  /\ members' = [members EXCEPT ![ch] = @ \cup {c}]
  /\ joined' = [joined EXCEPT ![c] = @ \cup {ch}]
  /\ sendQueue' =
       [d \in Clients |->
          IF d \in members'[ch] /\ link[d] = "open"
          THEN sendQueue[d]
                 \o <<[type |-> "join", who |-> nick[c], ch |-> ch]>>
                 \o (IF d = c
                     THEN <<[type |-> "names", ch |-> ch, who |-> NicksIn(ch)]>>
                     ELSE <<>>)
          ELSE sendQueue[d]]
  /\ UNCHANGED <<link, owner, nick, wire, bot, hasty>>

(* PART is announced before it is known that the client is in the channel; *)
(* if it is not, clients.remove raises and the handler ends.  Every channel *)
(* is one the server knows, as it has been joined once.                    *)
HandlePart(c, ch) ==
  /\ link[c] = "open"
  /\ welcomed[c]
  /\ Room(Clients)
  /\ sendQueue' = [d \in Clients |->
       IF d = c /\ c \notin members[ch] THEN <<>>
       ELSE IF d \in members[ch] /\ link[d] = "open"
       THEN Append(sendQueue[d], [type |-> "part", who |-> nick[c], ch |-> ch])
       ELSE sendQueue[d]]
  /\ members' = [members EXCEPT ![ch] = @ \ {c}]
  /\ IF c \in members[ch]
     THEN /\ joined' = [joined EXCEPT ![c] = @ \ {ch}]
          /\ UNCHANGED link
     ELSE /\ link' = [link EXCEPT ![c] = "raised"]
          /\ UNCHANGED joined
  /\ UNCHANGED <<owner, nick, wire, bot, hasty>>

(* A client without a nickname is in no channel. *)
Quits(c) ==
  /\ sendQueue' = Told(c, [type |-> "quit", who |-> nick[c]])
  /\ members' = [ch \in Channels |-> members[ch] \ {c}]

(* The channels of the handler stay as they are until it ends. *)
HandleQuit(c) ==
  /\ link[c] = "quit"
  /\ Quits(c)
  /\ link' = [link EXCEPT ![c] = "left"]
  /\ UNCHANGED <<owner, nick, joined, wire, bot, hasty>>

Finish_keepsOwner(c) ==
  /\ link[c] \in {"left", "raised"}
  /\ Quits(c)
  /\ nick' = [nick EXCEPT ![c] = NoNick]
  /\ joined' = [joined EXCEPT ![c] = {}]
  /\ link' = [link EXCEPT ![c] = IF @ = "left" THEN "off" ELSE "cut"]
  /\ UNCHANGED <<owner, wire, bot, hasty>>

(* The handler ends with its connection or with what it raised; what is    *)
(* left in its queue goes with it.                                         *)
Finish(c) ==
  /\ link[c] \in {"left", "raised"}
  /\ Quits(c)
  /\ owner' = [n \in Nicks |-> IF n = nick[c] THEN NoClient ELSE owner[n]]
  /\ nick' = [nick EXCEPT ![c] = NoNick]
  /\ joined' = [joined EXCEPT ![c] = {}]
  /\ link' = [link EXCEPT ![c] = IF @ = "left" THEN "off" ELSE "cut"]
  /\ UNCHANGED <<wire, bot, hasty>>

Flush(c) ==
  /\ link[c] = "open"
  /\ sendQueue[c] # <<>>
  /\ wire' = [wire EXCEPT ![c] = @ \o sendQueue[c]]
  /\ sendQueue' = [sendQueue EXCEPT ![c] = <<>>]
  /\ UNCHANGED <<link, server, bot, hasty>>

--------------------------------------------------------------------------
(* The bot. *)

Connect(c) ==
  /\ link[c] = "off"
  /\ c \notin failed
  /\ link' = [link EXCEPT ![c] = "open"]
  /\ realNick' = [realNick EXCEPT ![c] = 0]
  /\ asking' = [asking EXCEPT ![c] = 0]
  /\ UNCHANGED <<server, sendQueue, wire, welcomed, tracker, failed, hasty>>

(* on_disconnect of the bot, and what the next connect starts from. *)
Offline(c) ==
  /\ wire' = [wire EXCEPT ![c] = <<>>]
  /\ asking' = [asking EXCEPT ![c] = NoNick]
  /\ realNick' = [realNick EXCEPT ![c] = 0]
  /\ welcomed' = [welcomed EXCEPT ![c] = FALSE]
  /\ channels' = [channels EXCEPT ![c] = {}]
  /\ users' = [users EXCEPT ![c] = [ch \in Channels |-> {}]]

Leave(c) ==
  /\ link[c] = "open"
  /\ \E l \in {"quit", "left"} : link' = [link EXCEPT ![c] = l]
  /\ sendQueue' = [sendQueue EXCEPT ![c] = <<>>]
  /\ Offline(c)
  /\ UNCHANGED <<server, failed, hasty>>

SeeEnd(c) ==
  /\ link[c] = "cut"
  /\ wire[c] = <<>>
  /\ link' = [link EXCEPT ![c] = "off"]
  /\ Offline(c)
  /\ UNCHANGED <<server, sendQueue, failed, hasty>>

OnNicknameInUse_mute(c, m) ==
  /\ m.type = "inuse"
  /\ UNCHANGED <<asking, realNick, welcomed, tracker>>

(* Only nicknameinuse is answered: with one more underscore behind the     *)
(* real_nickname, which stays what it was until the server says otherwise. *)
OnNicknameInUse(c, m) ==
  /\ m.type = "inuse"
  /\ asking' = [asking EXCEPT ![c] =
                  IF realNick[c] < Longest THEN realNick[c] + 1 ELSE NoNick]
  /\ UNCHANGED <<realNick, welcomed, tracker>>

OnWelcome(c, m) ==
  /\ m.type = "welcome"
  /\ realNick' = [realNick EXCEPT ![c] = m.who]
  /\ welcomed' = [welcomed EXCEPT ![c] = TRUE]
  /\ UNCHANGED <<asking, tracker>>

(* The handlers of join, part and names look up the channel: KeyError if   *)
(* the bot does not have it.                                               *)
Known(c, m) ==
  m.type \in {"join", "part", "names"} =>
    (m.type = "join" /\ m.who = realNick[c]) \/ m.ch \in channels[c]

OnJoin(c, m) ==
  /\ m.type = "join"
  /\ channels' = [channels EXCEPT ![c] = @ \cup {m.ch}]
  /\ users' = [users EXCEPT ![c][m.ch] =
                 IF m.who = realNick[c] THEN {m.who} ELSE @ \cup {m.who}]
  /\ UNCHANGED <<asking, realNick, welcomed>>

OnNamreply(c, m) ==
  /\ m.type = "names"
  /\ users' = [users EXCEPT ![c][m.ch] = @ \cup m.who]
  /\ UNCHANGED <<asking, realNick, welcomed, channels>>

OnPart(c, m) ==
  /\ m.type = "part"
  /\ IF m.who = realNick[c]
     THEN /\ channels' = [channels EXCEPT ![c] = @ \ {m.ch}]
          /\ users' = [users EXCEPT ![c][m.ch] = {}]
     ELSE /\ users' = [users EXCEPT ![c][m.ch] = @ \ {m.who}]
          /\ UNCHANGED channels
  /\ UNCHANGED <<asking, realNick, welcomed>>

Renamed_always(us, m) == (us \ {m.who}) \cup {m.to}

Renamed(us, m) == IF m.who \in us THEN (us \ {m.who}) \cup {m.to} ELSE us

OnNick(c, m) ==
  /\ m.type = "nick"
  /\ realNick' = [realNick EXCEPT ![c] = IF @ = m.who THEN m.to ELSE @]
  /\ users' = [users EXCEPT ![c] =
                 [ch \in Channels |-> Renamed(users[c][ch], m)]]
  /\ UNCHANGED <<asking, welcomed, channels>>

OnQuit(c, m) ==
  /\ m.type = "quit"
  /\ users' = [users EXCEPT ![c] =
                 [ch \in Channels |-> users[c][ch] \ {m.who}]]
  /\ UNCHANGED <<asking, realNick, welcomed, channels>>

Handle(c, m) ==
  \/ OnNicknameInUse(c, m)
  \/ OnWelcome(c, m)
  \/ OnJoin(c, m)
  \/ OnNamreply(c, m)
  \/ OnPart(c, m)
  \/ OnNick(c, m)
  \/ OnQuit(c, m)

Deliver(c) ==
  /\ wire[c] # <<>>
  /\ Known(c, Head(wire[c]))
  /\ Handle(c, Head(wire[c]))
  /\ wire' = [wire EXCEPT ![c] = Tail(@)]
  /\ UNCHANGED <<link, server, sendQueue, failed, hasty>>

(* A handler that raises ends the thread, and the connection with it. *)
DeliverFails(c) ==
  /\ wire[c] # <<>>
  /\ ~Known(c, Head(wire[c]))
  /\ failed' = failed \cup {c}
  /\ link' = [link EXCEPT ![c] = IF @ = "cut" THEN "off" ELSE "left"]
  /\ sendQueue' = [sendQueue EXCEPT ![c] = <<>>]
  /\ Offline(c)
  /\ UNCHANGED <<server, hasty>>

--------------------------------------------------------------------------
Step(c) ==
  \/ HandleNick(c) \/ HandleQuit(c) \/ Finish(c) \/ Flush(c)
  \/ Connect(c) \/ Leave(c) \/ SeeEnd(c)
  \/ Deliver(c) \/ DeliverFails(c)
  \/ \E ch \in Channels : HandleJoin(c, ch) \/ HandlePart(c, ch)
  \/ \E n \in Nicks : Rename(c, n)

Next == \E c \in Clients : Step(c)

Spec == Init /\ [][Next]_vars

(* Both ends read what the other has sent: handle and process_forever are  *)
(* loops.  Nothing is assumed of the users.                                *)
LiveSpec ==
  Spec /\ \A c \in Clients :
            WF_vars(HandleNick(c)) /\ WF_vars(Flush(c)) /\ WF_vars(Deliver(c))

--------------------------------------------------------------------------
(* The server's two sides of each fact agree: a nickname belongs to one    *)
(* connection and is free when its handler ends, and a handler that has    *)
(* ended, or whose client has quit, is in no channel (handle_nick,         *)
(* handle_part, handle_quit, finish).                                      *)
ServerAgrees ==
  /\ \A c \in Clients : nick[c] # NoNick => owner[nick[c]] = c
  /\ \A n \in Nicks : owner[n] # NoClient => nick[owner[n]] = n
  /\ \A c \in Clients, ch \in Channels :
       c \in members[ch] => ch \in joined[c] /\ nick[c] # NoNick

(* A bot that has read all there is knows its own nickname, is in the      *)
(* channels it takes itself to be in, and lists in each who is there:      *)
(* through joins, parts, quits, cut connections and changes of nickname,   *)
(* told once per shared channel.  Confined to servers where no bot's NICK  *)
(* has overtaken what was queued for it.                                   *)
TrackersExact ==
  ~hasty => \A c \in Clients :
    link[c] = "open" /\ welcomed[c] /\ Unread(c) = 0 =>
      /\ realNick[c] = nick[c]
      /\ channels[c] = joined[c]
      /\ \A ch \in joined[c] : users[c][ch] = {nick[d] : d \in members[ch]}

(* No message about a channel the bot does not have reaches its handlers,  *)
(* which would end its thread.                                             *)
NoTrackerFails == ~hasty => failed = {}

Waiting(c) == link[c] = "open" /\ ~welcomed[c]

(* A bot whose nickname is refused always has the next NICK or the         *)
(* server's answer under way, so that it registers as soon as that one is  *)
(* free; and it asks for no other than its own with one underscore, as     *)
(* real_nickname does not change before the welcome (on_nicknameinuse).    *)
WaitingBotAsks ==
  \A c \in Clients : Waiting(c) =>
    \/ asking[c] \in {0, 1}
    \/ wire[c] # <<>>
    \/ sendQueue[c] # <<>>

(* Every bot is welcomed some day.  Of three bots one is not: the first    *)
(* two have the nickname of the settings and that with one underscore.     *)
Registers == \A c \in Clients : Waiting(c) ~> ~Waiting(c)

(* No order of messages ends a bot's thread.  A NICK that overtakes the    *)
(* JOIN queued before it does.                                             *)
NeverFails == failed = {}
===============================================================================
